-------------------------- MODULE RunnerWait_proofs --------------------------
(***************************************************************************)
(* Proofs about the runner's _wait_for_workspace_ready loop, for every    *)
(* max_wait, every interval, every set of fault answers and every set of  *)
(* workspaces.                                                             *)
(***************************************************************************)
EXTENDS RunnerWait, HostApp_proofs, TLAPS

\* The loop makes ceil(max_wait / interval) polls: when k sleeps stayed
\* below max_wait and k + 1 reach it, k + 1 is the budget.
LEMMA BudgetReached ==
  ASSUME NEW k \in Nat, k * Interval < MaxWait, MaxWait <= (k + 1) * Interval
  PROVE  PollBudget = k + 1
<1> DEFINE a == MaxWait + Interval - 1
<1>1. (k + 1) * Interval <= a /\ a < (k + 2) * Interval
  BY MaxWaitAssumption, IntervalAssumption
<1>2. \A q \in Nat : q * Interval <= a /\ a < (q + 1) * Interval => a \div Interval = q
  BY MaxWaitAssumption, IntervalAssumption
<1>3. QED
  BY <1>1, <1>2, MaxWaitAssumption, IntervalAssumption DEF PollBudget

\* While k + 1 sleeps stay below max_wait, the (k + 1)-th poll is not the
\* last one the budget allows.
LEMMA BudgetNotReached ==
  ASSUME NEW k \in Nat, (k + 1) * Interval < MaxWait
  PROVE  PollBudget # k + 1
<1> DEFINE a == MaxWait + Interval - 1
<1>1. a \in Nat /\ a < (a \div Interval + 1) * Interval
  BY MaxWaitAssumption, IntervalAssumption
<1>2. QED
  BY <1>1, MaxWaitAssumption, IntervalAssumption DEF PollBudget

-----------------------------------------------------------------------------
(***************************************************************************)
(* The inductive invariant.  RunnerVerdictMatchesHistory speaks of the    *)
(* polls before the last; while the loop still waits, the last one went   *)
(* on too, and that is what the next poll needs to extend the history.   *)
(***************************************************************************)
LastPollWentOn ==
  verdict = "Waiting" /\ Len(observed) > 0 =>
    ~IsRunning(observed[Len(observed)]) /\ ~Crashes(observed[Len(observed)])

IInv == TypeOK /\ RunnerVerdictMatchesHistory /\ LastPollWentOn

LEMMA InitIInv == Init => IInv
BY HostInitType, MaxWaitAssumption, IntervalAssumption
   DEF Init, RunnerInit, IInv, TypeOK, RunnerVerdictMatchesHistory, LastPollWentOn

\* One iteration of the loop preserves the invariant.
LEMMA PollIInv == IInv /\ Poll => IInv'
<1> SUFFICES ASSUME IInv, Poll PROVE IInv'
  OBVIOUS
<1> DEFINE len == Len(observed)
<1>1. /\ verdict = "Waiting"
      /\ waited = len * Interval
      /\ waited < MaxWait
      /\ \A i \in 1..(len - 1) : ~IsRunning(observed[i]) /\ ~Crashes(observed[i])
      /\ len > 0 => ~IsRunning(observed[len]) /\ ~Crashes(observed[len])
      /\ observed \in Seq(HostResponses)
      /\ waited \in Nat
      /\ len \in Nat
      /\ jsonErrorCaught \in BOOLEAN
      /\ HostTypeOK
  BY DEF Poll, IInv, TypeOK, RunnerVerdictMatchesHistory, LastPollWentOn
<1>2. PICK r \in WorkspaceResponses(Target) :
        /\ observed' = Append(observed, r)
        /\ IF r.status = 200 /\ NotJson(r) /\ ~jsonErrorCaught
             THEN verdict' = "Crashed" /\ UNCHANGED waited
           ELSE IF r = Answer(200, "Running")
             THEN verdict' = "Ready" /\ UNCHANGED waited
           ELSE /\ waited' = waited + Interval
                /\ verdict' = IF waited' < MaxWait THEN "Waiting" ELSE "TimedOut"
  BY DEF Poll
<1>3. r \in HostResponses
  BY <1>1, <1>2, WorkspaceResponsesType, RunnerTargetAssumption
<1>4. /\ observed' \in Seq(HostResponses)
      /\ Len(observed') = len + 1
      /\ observed'[len + 1] = r
      /\ \A i \in 1..len : observed'[i] = observed[i]
  BY <1>1, <1>2, <1>3
<1>5. /\ UNCHANGED <<jsonErrorCaught, hostVars>>
      /\ HostTypeOK'
  BY <1>1 DEF Poll, hostVars, HostTypeOK
<1>6. \A i \in 1..len : ~IsRunning(observed'[i]) /\ ~Crashes(observed'[i])
  BY <1>1, <1>4, <1>5 DEF IsRunning, Crashes
<1>7. CASE Crashes(r)
  <2>1. verdict' = "Crashed" /\ waited' = waited
    BY <1>2, <1>7 DEF Crashes
  <2>2. QED
    BY <1>1, <1>4, <1>5, <1>6, <1>7, <2>1, MaxWaitAssumption, IntervalAssumption
       DEF IInv, TypeOK, RunnerVerdictMatchesHistory, LastPollWentOn, Crashes
<1>8. CASE ~Crashes(r) /\ IsRunning(r)
  <2>1. verdict' = "Ready" /\ waited' = waited
    BY <1>2, <1>8 DEF Crashes, IsRunning
  <2>2. QED
    BY <1>1, <1>4, <1>5, <1>6, <1>8, <2>1, MaxWaitAssumption, IntervalAssumption
       DEF IInv, TypeOK, RunnerVerdictMatchesHistory, LastPollWentOn, Crashes, IsRunning
<1>9. CASE ~Crashes(r) /\ ~IsRunning(r)
  <2>1. /\ waited' = waited + Interval
        /\ verdict' = IF waited' < MaxWait THEN "Waiting" ELSE "TimedOut"
    <3>1. ~(r.status = 200 /\ NotJson(r) /\ ~jsonErrorCaught) /\ r # Answer(200, "Running")
      BY <1>9 DEF Crashes, IsRunning
    <3>2. QED
      BY <1>2, <3>1, Zenon
  <2>2. len \in Nat /\ waited' = (len + 1) * Interval
    BY <1>1, <2>1, IntervalAssumption
  <2>3. waited' \in 0..(MaxWait + Interval - 1)
    BY <1>1, <2>1, IntervalAssumption, MaxWaitAssumption
  <2>4. verdict' = "TimedOut" => Len(observed') = PollBudget
    <3> SUFFICES ASSUME verdict' = "TimedOut" PROVE Len(observed') = PollBudget
      OBVIOUS
    <3>1. len * Interval < MaxWait /\ MaxWait <= (len + 1) * Interval
      BY <1>1, <2>1, <2>2, MaxWaitAssumption
    <3>2. QED
      BY <1>4, <2>2, <3>1, BudgetReached
  <2>5. verdict' = "Waiting" => waited' < MaxWait
    BY <2>1
  <2>6. TypeOK'
    BY <1>1, <1>4, <1>5, <2>1, <2>3 DEF TypeOK
  <2>7. RunnerVerdictMatchesHistory'
    <3>1. verdict' \in {"Waiting", "TimedOut"}
      BY <2>1
    <3>2. \A i \in 1..(Len(observed') - 1) : ~IsRunning(observed'[i]) /\ ~Crashes(observed'[i])
      BY <1>1, <1>4, <1>6
    <3>3. verdict' = "TimedOut" => ~IsRunning(observed'[Len(observed')])
      BY <1>4, <1>9
    <3>4. waited' = Len(observed') * Interval
      BY <1>4, <2>2
    <3>5. QED
      BY <1>5, <3>1, <3>2, <3>3, <3>4, <2>4, <2>5
         DEF RunnerVerdictMatchesHistory, Crashes, IsRunning
  <2>8. LastPollWentOn'
    BY <1>4, <1>5, <1>9 DEF LastPollWentOn, IsRunning, Crashes
  <2>9. QED
    BY <2>6, <2>7, <2>8 DEF IInv
<1>10. QED
  BY <1>7, <1>8, <1>9

\* A step of the service leaves the loop alone.
LEMMA HostIInv == IInv /\ HostNext /\ UNCHANGED waitVars => IInv'
BY HostNextType DEF IInv, TypeOK, waitVars, RunnerVerdictMatchesHistory, LastPollWentOn,
   IsRunning, Crashes, NotJson

LEMMA StutterIInv == IInv /\ UNCHANGED vars => IInv'
BY DEF IInv, vars, hostVars, waitVars, TypeOK, HostTypeOK, RunnerVerdictMatchesHistory,
   LastPollWentOn, IsRunning, Crashes, NotJson

THEOREM Invariance == Spec => []IInv
<1>1. IInv /\ [Next]_vars => IInv'
  BY PollIInv, HostIInv, StutterIInv DEF Next
<1>2. QED
  BY InitIInv, <1>1, PTL DEF Spec

\* The type invariant of the runner's wait: in particular waited never
\* exceeds max_wait by a whole interval.
THEOREM RunnerTypeCorrect == Spec => []TypeOK
BY Invariance, PTL DEF IInv

(***************************************************************************)
(* For every max_wait and interval and every behaviour of the service,    *)
(* the runner returns True exactly on a poll that saw Running, returns    *)
(* False only after ceil(max_wait / interval) polls and sleeps, and       *)
(* crashes only on its last poll.                                          *)
(***************************************************************************)
THEOREM RunnerVerdictMatchesHistoryHolds == Spec => []RunnerVerdictMatchesHistory
BY Invariance, PTL DEF IInv

-----------------------------------------------------------------------------
(***************************************************************************)
(* The runner's wait refines the safety part of the wait contract: its    *)
(* initial state is the contract's, each poll is one step of the          *)
(* contract, and the service's steps leave the contract's state alone.    *)
(***************************************************************************)
LEMMA InitContract == Init => Contract!Init
BY DEF Init, RunnerInit, Contract!Init, RunnerContractResult

\* One poll of the runner is one poll of the contract.
LEMMA PollContract == IInv /\ Poll => Contract!Next
<1> SUFFICES ASSUME IInv, Poll PROVE Contract!Next
  OBVIOUS
<1> DEFINE len == Len(observed)
           mseen == [i \in 1..len |-> RunnerSight(observed[i])]
<1>1. /\ verdict = "Waiting"
      /\ waited = len * Interval
      /\ waited < MaxWait
      /\ observed \in Seq(HostResponses)
      /\ len \in Nat
      /\ jsonErrorCaught \in BOOLEAN
      /\ HostTypeOK
  BY DEF Poll, IInv, TypeOK, RunnerVerdictMatchesHistory
<1>2. PICK r \in WorkspaceResponses(Target) :
        /\ observed' = Append(observed, r)
        /\ IF r.status = 200 /\ NotJson(r) /\ ~jsonErrorCaught
             THEN verdict' = "Crashed" /\ UNCHANGED waited
           ELSE IF r = Answer(200, "Running")
             THEN verdict' = "Ready" /\ UNCHANGED waited
           ELSE /\ waited' = waited + Interval
                /\ verdict' = IF waited' < MaxWait THEN "Waiting" ELSE "TimedOut"
  BY DEF Poll
<1>3. r \in HostResponses
  BY <1>1, <1>2, WorkspaceResponsesType, RunnerTargetAssumption
<1>4. /\ Len(observed') = len + 1
      /\ observed'[len + 1] = r
      /\ \A i \in 1..len : observed'[i] = observed[i]
  BY <1>1, <1>2, <1>3
<1>5. jsonErrorCaught' = jsonErrorCaught
  BY DEF Poll
<1>6. /\ mseen \in Seq(Contract!Sights)
      /\ Len(mseen) = len
  BY <1>1 DEF RunnerSight, Contract!Sights
<1>7. mseen' = Append(mseen, RunnerSight(r))
  BY <1>1, <1>4, <1>5, <1>6 DEF RunnerSight, Crashes, IsRunning, NotJson
<1>8. RunnerContractResult' = Contract!Decide(RunnerSight(r), len + 1)
  <2>1. CASE Crashes(r)
    <3>1. verdict' = "Crashed"
      BY <1>2, <2>1 DEF Crashes
    <3>2. RunnerSight(r) = "Fatal"
      BY <2>1 DEF RunnerSight
    <3>3. RunnerContractResult' = "Aborted"
      BY <3>1 DEF RunnerContractResult
    <3>4. Contract!Decide("Fatal", len + 1) = "Aborted"
      BY DEF Contract!Decide
    <3>5. QED
      BY <3>2, <3>3, <3>4
  <2>2. CASE ~Crashes(r) /\ IsRunning(r)
    <3>1. verdict' = "Ready"
      BY <1>2, <2>2 DEF Crashes, IsRunning
    <3>2. RunnerSight(r) = "Running"
      BY <2>2 DEF RunnerSight
    <3>3. RunnerContractResult' = "Succeeded"
      BY <3>1 DEF RunnerContractResult
    <3>4. Contract!Decide("Running", len + 1) = "Succeeded"
      BY DEF Contract!Decide
    <3>5. QED
      BY <3>2, <3>3, <3>4
  <2>3. CASE ~Crashes(r) /\ ~IsRunning(r)
    <3>1. /\ waited' = waited + Interval
          /\ verdict' = IF waited' < MaxWait THEN "Waiting" ELSE "TimedOut"
      <4>1. ~(r.status = 200 /\ NotJson(r) /\ ~jsonErrorCaught) /\ r # Answer(200, "Running")
        BY <2>3 DEF Crashes, IsRunning
      <4>2. QED
        BY <1>2, <4>1, Zenon
    <3>2. waited' = (len + 1) * Interval
      BY <1>1, <3>1, IntervalAssumption
    <3>3. RunnerSight(r) = "Other"
      BY <2>3 DEF RunnerSight
    <3>4. CASE waited' < MaxWait
      <4>1. PollBudget # len + 1
        BY <1>1, <3>2, <3>4, BudgetNotReached
      <4>2. verdict' = "Waiting"
        BY <3>1, <3>4
      <4>3. QED
        BY <3>3, <4>1, <4>2 DEF RunnerContractResult, Contract!Decide
    <3>5. CASE ~(waited' < MaxWait)
      <4>1. PollBudget = len + 1
        <5>1. len * Interval < MaxWait /\ MaxWait <= (len + 1) * Interval
          BY <1>1, <3>2, <3>5, MaxWaitAssumption, IntervalAssumption
        <5>2. QED
          BY <1>1, <5>1, BudgetReached
      <4>2. verdict' = "TimedOut"
        BY <3>1, <3>5
      <4>3. QED
        BY <3>3, <4>1, <4>2 DEF RunnerContractResult, Contract!Decide
    <3>6. QED
      BY <3>4, <3>5
  <2>4. QED
    BY <2>1, <2>2, <2>3
<1>9. RunnerContractResult = "Waiting"
  BY <1>1 DEF RunnerContractResult
<1>10. RunnerSight(r) \in Contract!Sights
  BY DEF RunnerSight, Contract!Sights
<1>11. Contract!See(RunnerSight(r))
  BY <1>6, <1>7, <1>8, <1>9 DEF Contract!See
<1>12. QED
  BY <1>10, <1>11 DEF Contract!Next

\* A step of the service, or a stutter, leaves the contract's state alone.
LEMMA OtherContract == UNCHANGED waitVars => UNCHANGED Contract!vars
BY DEF waitVars, Contract!vars, RunnerContractResult, RunnerSight, Crashes, IsRunning, NotJson

(***************************************************************************)
(* For every max_wait, interval and behaviour of the service, every       *)
(* behaviour of _wait_for_workspace_ready is a behaviour of the wait      *)
(* contract with the budget ceil(max_wait / interval): the arithmetic of  *)
(* waited and the order of the tests in the loop make each poll a step of *)
(* the contract.  The liveness half of the refinement is checked by TLC.  *)
(***************************************************************************)
THEOREM RunnerRefinesContract == Spec => Contract!SafeSpec
<1>1. IInv /\ [Next]_vars => [Contract!Next]_Contract!vars
  BY PollContract, OtherContract DEF Next, vars
<1>2. QED
  BY Invariance, InitContract, <1>1, PTL DEF Spec, Contract!SafeSpec
====
