--------------------------- MODULE HostApp_proofs ---------------------------
(***************************************************************************)
(* Facts about the service's model that the proofs of the client loops    *)
(* rest on: its steps keep its state well typed, and whatever it answers  *)
(* to a GET of a workspace is a well-formed response.                     *)
(***************************************************************************)
EXTENDS HostApp, TLAPS

\* The service starts in a well-typed state.
LEMMA HostInitType == HostInit => HostTypeOK
BY DEF HostInit, HostTypeOK

\* Every step of the service (a workspace created, scheduled, crashed or
\* removed by someone else, or the service flapping) keeps its state well
\* typed.
LEMMA HostNextType == HostTypeOK /\ HostNext => HostTypeOK'
<1> SUFFICES ASSUME HostTypeOK, HostNext PROVE HostTypeOK'
  OBVIOUS
<1>1. CASE \E n \in Workspaces : Create(n) \/ Schedule(n) \/ Crash(n) \/ Remove(n)
  BY <1>1 DEF Create, Schedule, Crash, Remove, HostTypeOK, WsStatus, Absent
<1>2. CASE Flap
  BY <1>2 DEF Flap, HostTypeOK
<1>3. QED
  BY <1>1, <1>2 DEF HostNext

\* Every answer the service can give to the GET of a workspace is a
\* well-formed response: the transport failure, the 404 of an absent
\* workspace, its status, or one of the fault answers.
LEMMA WorkspaceResponsesType ==
  ASSUME HostTypeOK, NEW n \in Workspaces
  PROVE  WorkspaceResponses(n) \subseteq HostResponses
<1>1. NoAnswer \in HostResponses
  BY DEF NoAnswer, EmptyAnswer, HostResponses, BodyKinds
<1>2. EmptyAnswer(404) \in HostResponses
  BY DEF EmptyAnswer, HostResponses, BodyKinds
<1>3. ws[n] # Absent => Answer(200, ws[n]) \in HostResponses
  BY DEF HostTypeOK, Answer, HostResponses, BodyKinds
<1>4. QED
  BY <1>1, <1>2, <1>3, FaultsAssumption DEF WorkspaceResponses
====
