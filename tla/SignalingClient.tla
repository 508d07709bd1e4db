--------------------------- MODULE SignalingClient ---------------------------
(***************************************************************************)
(* The signaling client of a master and its recovery: an error the SDK     *)
(* reports (signalingClientError) makes the next pass of sessionCleanupWait *)
(* fetch again, and if a call fails, free the client and make a new one.   *)
(***************************************************************************)
EXTENDS ConfigurationLock, Naturals

CONSTANTS Clients,     \* blocks of memory for signaling clients
          NoClient,    \* INVALID_SIGNALING_CLIENT_HANDLE_VALUE
          MaxErrors,   \* bound: errors the SDK reports, not counting those just
                       \* before the reset of the flag
          Faults       \* "create": createSignalingClientSync may fail

ASSUME ClientsAssumption == NoClient \notin Clients /\ Clients # {}
ASSUME MaxErrorsAssumption == MaxErrors \in Nat

VARIABLES
  handle,                    \* signalingClientHandle
  client,                    \* the state of each block, "free" or a client's
  recreateSignalingClient,   \* the flag of the configuration
  errors                     \* how many errors were reported

clientVars == <<handle, client, recreateSignalingClient, errors>>

ClientStates == {"free", "new", "ready", "connected", "down"}

ClientTypeOK ==
  /\ handle \in Clients \cup {NoClient}
  /\ client \in [Clients -> ClientStates]
  /\ recreateSignalingClient \in BOOLEAN
  /\ errors \in 0 .. MaxErrors

ClientInit ==
  /\ handle = NoClient
  /\ client = [c \in Clients |-> "free"]
  /\ recreateSignalingClient = FALSE
  /\ errors = 0

HandleValid == handle # NoClient

ClientIs(state) == HandleValid /\ client[handle] = state

SetClient(state) ==
  /\ client' = [client EXCEPT ![handle] = state]
  /\ UNCHANGED <<handle, recreateSignalingClient, errors>>

-----------------------------------------------------------------------------
\* signalingClientError, on a thread of the SDK and without a lock.  After
\* STATUS_SIGNALING_RECONNECT_FAILED the client is down; after
\* STATUS_SIGNALING_ICE_CONFIG_REFRESH_FAILED it is as it was.
SignalingClientError ==
  /\ HandleValid
  /\ ~ClientIs("new")
  /\ errors < MaxErrors \/ pc = "reset"
  /\ errors' = IF pc = "reset" THEN errors ELSE errors + 1
  /\ recreateSignalingClient' = TRUE
  /\ client' \in {client, [client EXCEPT ![handle] = "down"]}
  /\ UNCHANGED handle

\* The scan is over; the flag is read once.
\* Mutant: the lock is given up for the recovery.
EndScanUnlocked ==
  /\ pc = "scan"
  /\ freeStep = "none"
  /\ pc' = IF recreateSignalingClient THEN "fetch" ELSE "state"
  /\ objLock' = "nobody"
  /\ UNCHANGED <<interrupted, listed, freeing>>
EndScan ==
  /\ pc = "scan"
  /\ freeStep = "none"
  /\ GoTo(IF recreateSignalingClient THEN "fetch" ELSE "state")

FetchSucceeds ==
  /\ pc = "fetch"
  /\ HandleValid
  /\ SetClient("ready")
  /\ GoTo("reset")

\* A status of signalingCallFailed.
FetchCallFails ==
  /\ pc = "fetch"
  /\ HandleValid
  /\ GoTo("recreate")
  /\ UNCHANGED clientVars

\* Any other status; without a client there is no other outcome.
FetchFails ==
  /\ pc = "fetch"
  /\ GoTo("state")
  /\ UNCHANGED clientVars

ResetFlag ==
  /\ pc = "reset"
  /\ recreateSignalingClient' = FALSE
  /\ GoTo("state")
  /\ UNCHANGED <<handle, client, errors>>

\* freeSignalingClient frees the client and invalidates the handle.
\* Mutant: the old client is not freed.
OnlyForget ==
  /\ handle' = NoClient
  /\ UNCHANGED <<client, recreateSignalingClient, errors>>
FreeSignalingClient ==
  /\ client' = [c \in Clients |-> IF c = handle THEN "free" ELSE client[c]]
  /\ handle' = NoClient
  /\ UNCHANGED <<recreateSignalingClient, errors>>

RecreateFrees ==
  /\ pc = "recreate"
  /\ FreeSignalingClient
  /\ GoTo("create")

\* createSignalingClientSync sets the handle.
CreateClient ==
  \E c \in Clients :
    /\ client[c] = "free"
    /\ client' = [client EXCEPT ![c] = "new"]
    /\ handle' = c

\* The flag after createSignalingClientSync: it is left, so that the next pass
\* fetches with the new client.
\* Mutant: it is reset.
FlagReset == FALSE
FlagAfterCreate == recreateSignalingClient

CreateSucceeds ==
  /\ pc = "create"
  /\ CreateClient
  /\ recreateSignalingClient' = FlagAfterCreate
  /\ GoTo("state")
  /\ UNCHANGED errors

\* The status of createSignalingClientSync is ignored; there is no client.
CreateFails ==
  /\ pc = "create"
  /\ "create" \in Faults
  /\ GoTo("state")
  /\ UNCHANGED clientVars

\* A client that is ready is connected.  Its failure is ignored: the client
\* stays ready, and the next pass tries again.
ConnectSucceeds ==
  /\ ClientIs("ready")
  /\ SetClient("connected")
  /\ PassEnds

ConnectFails ==
  /\ ClientIs("ready")
  /\ PassEnds
  /\ UNCHANGED clientVars

NoConnect ==
  /\ ~ClientIs("ready")
  /\ PassEnds
  /\ UNCHANGED clientVars

Recovery ==
  \/ FetchSucceeds
  \/ FetchCallFails
  \/ FetchFails
  \/ ResetFlag
  \/ RecreateFrees
  \/ CreateSucceeds
  \/ CreateFails
  \/ ConnectSucceeds
  \/ ConnectFails
  \/ NoConnect

=============================================================================
