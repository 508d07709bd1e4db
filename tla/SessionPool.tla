----------------------------- MODULE SessionPool -----------------------------
(***************************************************************************)
(* What the registry of streaming sessions promises, without lists, tables *)
(* or locks: a pool of at most Capacity sessions.  A session starts, may   *)
(* end or be ended, and only an ended one is released; the pool closes     *)
(* when everything is released, and nothing starts after that.             *)
(***************************************************************************)
EXTENDS Naturals, FiniteSets

CONSTANTS Sessions, Capacity

VARIABLES phase, open

vars == <<phase, open>>

TypeOK ==
  /\ phase \in [Sessions -> {"free", "streaming", "ended"}]
  /\ open \in BOOLEAN

Init == phase = [s \in Sessions |-> "free"] /\ open = TRUE

Busy == {s \in Sessions : phase[s] # "free"}

Start(s) ==
  /\ open
  /\ phase[s] = "free"
  /\ Cardinality(Busy) < Capacity
  /\ phase' = [phase EXCEPT ![s] = "streaming"]
  /\ UNCHANGED open

End(s) ==
  /\ open
  /\ phase[s] = "streaming"
  /\ phase' = [phase EXCEPT ![s] = "ended"]
  /\ UNCHANGED open

Release(s) ==
  /\ phase[s] = "ended"
  /\ phase' = [phase EXCEPT ![s] = "free"]
  /\ UNCHANGED open

Close ==
  /\ open
  /\ Busy = {}
  /\ open' = FALSE
  /\ UNCHANGED phase

Next == Close \/ \E s \in Sessions : Start(s) \/ End(s) \/ Release(s)

Spec == Init /\ [][Next]_vars
=============================================================================
