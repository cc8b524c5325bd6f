------------------------ MODULE WorkspaceWait_proofs ------------------------
(***************************************************************************)
(* Proofs about the `mgn workspace wait` loop, for every number of polls, *)
(* every set of fault answers and every set of workspaces.                *)
(***************************************************************************)
EXTENDS WorkspaceWait, HostApp_proofs, TLAPS

\* What Client._request makes of a well-formed response.
LEMMA RequestType ==
  ASSUME NEW m \in Methods, NEW r \in HostResponses
  PROVE  Request(m, r) \in Results
BY DEF Request, Raised, Returned, Results, ErrorKinds, HostResponses

\* The command's verdict on the result of one GET.
LEMMA VerdictCases ==
  ASSUME NEW res \in Results, NEW n \in Nat
  PROVE  /\ Verdict(res, n) \in Verdicts \cup {"Waiting"}
         /\ Verdict(res, n) = "Waiting"  => Continues(res) /\ n # MaxPolls
         /\ Verdict(res, n) = "TimedOut" => Continues(res) /\ n = MaxPolls
         /\ Verdict(res, n) = "Ready"    => res = Returned("Running")
         /\ Verdict(res, n) = "Failed"   => res = Returned("Failed")
         /\ Verdict(res, n) = "Error"    => Fails(res) \/ res.val = NoValue
BY DEF Verdict, Verdicts, Continues, Fails, Returned, Results, ErrorKinds

-----------------------------------------------------------------------------
(***************************************************************************)
(* The inductive invariant: the type invariant and the history invariant *)
(* together.  Neither is inductive alone: a poll keeps polls within      *)
(* 0..MaxPolls only because the loop is still running, which is what     *)
(* LastPollDecides says of outcome = "Waiting"; and the history needs    *)
(* the types of the results it speaks of.                                 *)
(***************************************************************************)
IInv == TypeOK /\ VerdictMatchesHistory

LEMMA InitIInv == Init => IInv
BY MaxPollsAssumption DEF Init, HostInit, WaitInit, IInv, TypeOK, HostTypeOK, VerdictMatchesHistory,
       HistoryLength, EarlierPollsContinued, LastPollDecides

\* A poll preserves the invariant.
LEMMA PollIInv == IInv /\ Poll => IInv'
<1> SUFFICES ASSUME IInv, Poll PROVE IInv'
  OBVIOUS
<1>1. PICK r \in WorkspaceResponses(Target) :
         /\ polls' = polls + 1
         /\ outcome' = Verdict(Request("GET", r), polls + 1)
         /\ observed' = Append(observed, Request("GET", r))
  BY DEF Poll
<1> DEFINE res == Request("GET", r)
<1>2. res \in Results
  BY WorkspaceResponsesType, RequestType, TargetAssumption DEF IInv, TypeOK, Methods
<1>3. /\ outcome = "Waiting"
      /\ polls < MaxPolls
      /\ polls > 0 => Continues(observed[polls])
      /\ polls = Len(observed)
      /\ observed \in Seq(Results)
      /\ polls \in Nat
  BY DEF Poll, IInv, TypeOK, VerdictMatchesHistory, HistoryLength, LastPollDecides
<1>4. /\ observed' \in Seq(Results)
      /\ Len(observed') = polls + 1
      /\ observed'[polls + 1] = res
      /\ \A i \in 1..polls : observed'[i] = observed[i]
  BY <1>1, <1>2, <1>3
<1>5. /\ Verdict(res, polls + 1) \in Verdicts \cup {"Waiting"}
      /\ Verdict(res, polls + 1) = "Waiting"  => Continues(res) /\ polls + 1 # MaxPolls
      /\ Verdict(res, polls + 1) = "TimedOut" => Continues(res) /\ polls + 1 = MaxPolls
      /\ Verdict(res, polls + 1) = "Ready"    => res = Returned("Running")
      /\ Verdict(res, polls + 1) = "Failed"   => res = Returned("Failed")
      /\ Verdict(res, polls + 1) = "Error"    => Fails(res) \/ res.val = NoValue
  BY <1>2, <1>3, VerdictCases
<1>6. TypeOK'
  <2>1. HostTypeOK'
    BY DEF Poll, hostVars, IInv, TypeOK, HostTypeOK
  <2>2. polls' \in 0..MaxPolls
    BY <1>1, <1>3, MaxPollsAssumption
  <2>3. QED
    BY <2>1, <2>2, <1>1, <1>4, <1>5 DEF TypeOK
<1>7. HistoryLength'
  BY <1>1, <1>4 DEF HistoryLength
<1>8. EarlierPollsContinued'
  BY <1>1, <1>3, <1>4 DEF IInv, VerdictMatchesHistory, EarlierPollsContinued
<1>9. LastPollDecides'
  <2> DEFINE last == observed'[polls']
  <2>1. last = res /\ polls' = polls + 1 /\ polls' > 0
    BY <1>1, <1>3, <1>4
  <2>2. outcome' = Verdict(res, polls + 1)
    BY <1>1
  <2>3. polls' # MaxPolls => polls' < MaxPolls
    BY <1>1, <1>3, MaxPollsAssumption
  <2>4. QED
    BY <2>1, <2>2, <2>3, <1>5 DEF LastPollDecides
<1>10. QED
  BY <1>6, <1>7, <1>8, <1>9 DEF IInv, VerdictMatchesHistory

\* A step of the service preserves the invariant: it leaves the loop alone.
LEMMA HostIInv == IInv /\ HostNext /\ UNCHANGED waitVars => IInv'
<1> SUFFICES ASSUME IInv, HostNext, UNCHANGED waitVars PROVE IInv'
  OBVIOUS
<1>1. HostTypeOK'
  BY HostNextType DEF IInv, TypeOK
<1>2. QED
  BY <1>1 DEF IInv, TypeOK, waitVars, VerdictMatchesHistory, HistoryLength,
              EarlierPollsContinued, LastPollDecides, Continues

LEMMA StutterIInv == IInv /\ UNCHANGED vars => IInv'
BY DEF IInv, vars, hostVars, waitVars, TypeOK, HostTypeOK, VerdictMatchesHistory,
       HistoryLength, EarlierPollsContinued, LastPollDecides, Continues

THEOREM Invariance == Spec => []IInv
<1>1. IInv /\ [Next]_vars => IInv'
  BY PollIInv, HostIInv, StutterIInv DEF Next
<1>2. QED
  BY InitIInv, <1>1, PTL DEF Spec

\* The type invariant of the wait loop.
THEOREM TypeCorrect == Spec => []TypeOK
BY Invariance, PTL DEF IInv

(***************************************************************************)
(* For every MaxPolls and every behaviour of the service, the verdict of *)
(* `mgn workspace wait` is the one its history of GETs dictates: a       *)
(* timeout only after MaxPolls polls that all saw a non-terminal status, *)
(* success or failure only on the status the last poll saw.               *)
(***************************************************************************)
THEOREM VerdictMatchesHistoryHolds == Spec => []VerdictMatchesHistory
BY Invariance, PTL DEF IInv

-----------------------------------------------------------------------------
(***************************************************************************)
(* The command refines the safety part of the wait contract with MaxPolls *)
(* as its budget.                                                          *)
(***************************************************************************)
\* The command's verdict on a result is the contract's decision on what
\* the result is to the contract.
LEMMA VerdictRefines ==
  ASSUME NEW res \in Results, NEW n \in Nat, outcome' = Verdict(res, n)
  PROVE  ContractResult' = Contract!Decide(Sight(res), n)
<1>1. res = [kind |-> res.kind, val |-> res.val]
      /\ res.kind \in ErrorKinds \cup {"Ok"} /\ res.val \in WsStatus \cup {NoValue}
  BY DEF Results
<1>2. CASE Fails(res) \/ res.val = NoValue
  <2>1. outcome' = "Error"
    BY <1>2 DEF Verdict
  <2>2. Sight(res) = "Fatal"
    BY <1>1, <1>2, NoneAssumption DEF Sight, Continues, Fails, Returned, WsStatus
  <2>3. QED
    BY <2>1, <2>2 DEF ContractResult, Contract!Decide
<1>3. CASE ~Fails(res) /\ res.val # NoValue /\ res.val = "Running"
  <2>1. outcome' = "Ready"
    BY <1>3 DEF Verdict
  <2>2. Sight(res) = "Running"
    BY <1>1, <1>3 DEF Sight, Fails, Returned
  <2>3. QED
    BY <2>1, <2>2 DEF ContractResult, Contract!Decide
<1>4. CASE ~Fails(res) /\ res.val # NoValue /\ res.val = "Failed"
  <2>1. outcome' = "Failed"
    BY <1>4 DEF Verdict
  <2>2. Sight(res) = "Fatal"
    BY <1>1, <1>4 DEF Sight, Continues, Fails, Returned
  <2>3. QED
    BY <2>1, <2>2 DEF ContractResult, Contract!Decide
<1>5. CASE ~Fails(res) /\ res.val \notin {NoValue, "Running", "Failed"}
  <2>1. outcome' = IF n = MaxPolls THEN "TimedOut" ELSE "Waiting"
    BY <1>5 DEF Verdict
  <2>2. Sight(res) = "Other"
    BY <1>1, <1>5 DEF Sight, Continues, Fails, Returned
  <2>3. QED
    BY <2>1, <2>2 DEF ContractResult, Contract!Decide
<1>6. QED
  BY <1>2, <1>3, <1>4, <1>5

LEMMA InitContract == Init => Contract!Init
BY DEF Init, WaitInit, Contract!Init, ContractResult

\* One iteration of the loop is one poll of the contract.
LEMMA PollContract == IInv /\ Poll => Contract!Next
<1> SUFFICES ASSUME IInv, Poll PROVE Contract!Next
  OBVIOUS
<1> DEFINE mseen == [i \in 1..Len(observed) |-> Sight(observed[i])]
<1>1. PICK r \in WorkspaceResponses(Target) :
         /\ polls' = polls + 1
         /\ outcome' = Verdict(Request("GET", r), polls + 1)
         /\ observed' = Append(observed, Request("GET", r))
  BY DEF Poll
<1> DEFINE res == Request("GET", r)
<1>2. res \in Results
  BY WorkspaceResponsesType, RequestType, TargetAssumption DEF IInv, TypeOK, Methods
<1>3. /\ outcome = "Waiting"
      /\ polls = Len(observed)
      /\ observed \in Seq(Results)
      /\ polls \in Nat
  BY DEF Poll, IInv, TypeOK, VerdictMatchesHistory, HistoryLength
<1>4. /\ mseen \in Seq(Contract!Sights)
      /\ Len(mseen) = polls
  BY <1>3 DEF Sight, Contract!Sights
<1>5. mseen' = Append(mseen, Sight(res))
  BY <1>1, <1>2, <1>3, <1>4
<1>6. ContractResult' = Contract!Decide(Sight(res), polls + 1)
  BY <1>1, <1>2, <1>3, VerdictRefines
<1>7. ContractResult = "Waiting"
  BY <1>3 DEF ContractResult
<1>8. Contract!See(Sight(res))
  BY <1>4, <1>5, <1>6, <1>7 DEF Contract!See
<1>9. QED
  BY <1>8 DEF Contract!Next, Contract!Sights, Sight

\* A step of the service, or a stutter, leaves the contract's state alone.
LEMMA OtherContract == UNCHANGED waitVars => UNCHANGED Contract!vars
BY DEF waitVars, Contract!vars, ContractResult, Sight

(***************************************************************************)
(* For every MaxPolls and every behaviour of the service, every behaviour *)
(* of `mgn workspace wait` is a behaviour of the wait contract: each GET  *)
(* is one poll, "Failed" and every exception end it as an abort, and the  *)
(* timeout comes exactly at the MaxPolls-th poll.  The liveness half of   *)
(* the refinement is checked by TLC.                                      *)
(***************************************************************************)
THEOREM RefinesContract == Spec => Contract!SafeSpec
<1>1. IInv /\ [Next]_vars => [Contract!Next]_Contract!vars
  BY PollContract, OtherContract DEF Next, vars
<1>2. QED
  BY Invariance, InitContract, <1>1, PTL DEF Spec, Contract!SafeSpec
====
