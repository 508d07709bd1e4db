------------------------------- MODULE StartUp -------------------------------
(***************************************************************************)
(* The start of the main thread: createSampleConfiguration from the time   *)
(* its timer queue runs, and initSignaling, which makes, fetches and       *)
(* connects the signaling client.  What fails here ends the program.       *)
(***************************************************************************)
EXTENDS SignalingClient

\* The rest of createSampleConfiguration; if it fails it frees the
\* configuration itself, for there is no client yet.
ConfigurationCreated ==
  /\ pc = "configuring"
  /\ GoTo("configured")
  /\ UNCHANGED clientVars

ConfigurationFails ==
  /\ pc = "configuring"
  /\ GoTo("clientFreed")
  /\ UNCHANGED clientVars

\* initSignaling's three calls.
CreateFirst ==
  /\ pc = "configured"
  /\ CreateClient
  /\ GoTo("created")
  /\ UNCHANGED <<recreateSignalingClient, errors>>

FetchFirst ==
  /\ pc = "created"
  /\ SetClient("ready")
  /\ GoTo("fetched")

ConnectFirst ==
  /\ pc = "fetched"
  /\ SetClient("connected")
  /\ GoTo("connected")

InitSignalingFails ==
  /\ pc \in {"configured", "created", "fetched"}
  /\ GoTo("exited")
  /\ UNCHANGED clientVars

\* gSampleConfiguration is set; from now on a SIGINT is heard.
SignalingInitialized ==
  /\ pc = "connected"
  /\ GoTo("run")
  /\ UNCHANGED clientVars

Start ==
  \/ ConfigurationCreated
  \/ ConfigurationFails
  \/ CreateFirst
  \/ FetchFirst
  \/ ConnectFirst
  \/ InitSignalingFails
  \/ SignalingInitialized

=============================================================================
