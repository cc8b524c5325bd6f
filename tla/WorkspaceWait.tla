--------------------------- MODULE WorkspaceWait ---------------------------
(***************************************************************************)
(* The `mgn workspace wait CLUSTER NAME` command (cli/workspace.py,       *)
(* wait_workspace): up to MaxPolls times it GETs the workspace through    *)
(* the client, stops with success on status "Running", aborts on          *)
(* "Failed", and otherwise sleeps and polls again; after the last poll it *)
(* reports a timeout.  Any exception of the GET (or a None result, whose  *)
(* .get raises) lands in the outer except and aborts the command.  The    *)
(* service changes state between polls, during the sleeps.                *)
(***************************************************************************)
EXTENDS Naturals, Sequences, HostApp, ApiClient

CONSTANTS
  Target,     \* the workspace name given on the command line
  MaxPolls    \* iterations of the polling loop (range(60) in the code)

ASSUME TargetAssumption == Target \in Workspaces
ASSUME MaxPollsAssumption == MaxPolls \in Nat \ {0}

VARIABLES
  polls,      \* loop iterations done
  outcome,    \* "Waiting" while the loop runs, then the command's verdict
  observed    \* ghost: the results of the GETs, in order

waitVars == <<polls, outcome, observed>>
vars == <<hostVars, waitVars>>

Verdicts == {"Ready", "Failed", "TimedOut", "Error"}

Results == [kind : ErrorKinds \cup {"Ok"},
            val : WsStatus \cup {NoValue}]

(***************************************************************************)
(* What one iteration decides from the result of its GET, n being the     *)
(* number of the iteration: status = ws.get("status", ""), the two        *)
(* terminal tests in code order, and the timeout after the last sleep.    *)
(***************************************************************************)
\* Mutant: the loop gives up one iteration early (range(MaxPolls - 1)).
VerdictEarlyTimeout(res, n) ==
  IF Fails(res) \/ res.val = NoValue THEN "Error"
  ELSE IF res.val = "Running" THEN "Ready"
  ELSE IF res.val = "Failed" THEN "Failed"
  ELSE IF n = MaxPolls - 1 THEN "TimedOut"
  ELSE "Waiting"

\* Mutant: no test for "Failed"; a failed workspace is waited on.
VerdictNoFailedTest(res, n) ==
  IF Fails(res) \/ res.val = NoValue THEN "Error"
  ELSE IF res.val = "Running" THEN "Ready"
  ELSE IF n = MaxPolls THEN "TimedOut"
  ELSE "Waiting"

Verdict(res, n) ==
  IF Fails(res) \/ res.val = NoValue THEN "Error"
  ELSE IF res.val = "Running" THEN "Ready"
  ELSE IF res.val = "Failed" THEN "Failed"
  ELSE IF n = MaxPolls THEN "TimedOut"
  ELSE "Waiting"

WaitInit ==
  /\ polls = 0
  /\ outcome = "Waiting"
  /\ observed = << >>

\* Mutant: the loop does not stop at its verdict (a missing return).
PollAfterVerdict ==
  /\ \E r \in WorkspaceResponses(Target) :
       LET res == Request("GET", r) IN
       /\ polls' = polls + 1
       /\ outcome' = Verdict(res, polls + 1)
       /\ observed' = Append(observed, res)
  /\ UNCHANGED hostVars

\* Mutant: the GET has no timeout, so it hangs while the service is down.
PollWithoutTimeout ==
  /\ outcome = "Waiting"
  /\ up
  /\ \E r \in WorkspaceResponses(Target) :
       LET res == Request("GET", r) IN
       /\ polls' = polls + 1
       /\ outcome' = Verdict(res, polls + 1)
       /\ observed' = Append(observed, res)
  /\ UNCHANGED hostVars

\* One iteration of the for loop: the GET, the tests, the sleep.
Poll ==
  /\ outcome = "Waiting"
  /\ \E r \in WorkspaceResponses(Target) :
       LET res == Request("GET", r) IN
       /\ polls' = polls + 1
       /\ outcome' = Verdict(res, polls + 1)
       /\ observed' = Append(observed, res)
  /\ UNCHANGED hostVars

Init == HostInit /\ WaitInit

Next ==
  \/ Poll
  \/ HostNext /\ UNCHANGED waitVars

\* Each GET returns or raises within the client's request timeout, so the
\* loop cannot stall: the polling step is weakly fair.  The service is not.
Spec == Init /\ [][Next]_vars /\ WF_vars(Poll)

-----------------------------------------------------------------------------
TypeOK ==
  /\ HostTypeOK
  /\ polls \in 0..MaxPolls
  /\ outcome \in Verdicts \cup {"Waiting"}
  /\ observed \in Seq(Results)

\* A result that lets the loop go on: a workspace with a non-terminal status.
Continues(res) == res.kind = "Ok" /\ res.val \notin {NoValue, "Running", "Failed"}

(***************************************************************************)
(* The command's verdict is decided by its history of GETs: every poll    *)
(* but the last saw a non-terminal status; success and failure report the *)
(* status the last poll saw; an abort follows a poll that raised; and a   *)
(* timeout is reported only after all MaxPolls polls saw non-terminal      *)
(* statuses, with no poll after it.                                        *)
(***************************************************************************)
HistoryLength == polls = Len(observed)

EarlierPollsContinued == \A i \in 1..(polls - 1) : Continues(observed[i])

LastPollDecides ==
  /\ outcome = "Waiting"  => polls < MaxPolls /\ (polls > 0 => Continues(observed[polls]))
  /\ outcome = "TimedOut" => polls = MaxPolls /\ Continues(observed[polls])
  /\ outcome = "Ready"    => polls > 0 /\ observed[polls] = Returned("Running")
  /\ outcome = "Failed"   => polls > 0 /\ observed[polls] = Returned("Failed")
  /\ outcome = "Error"    => polls > 0 /\ (Fails(observed[polls]) \/ observed[polls].val = NoValue)

VerdictMatchesHistory ==
  HistoryLength /\ EarlierPollsContinued /\ LastPollDecides

\* The command always ends: with a verdict after at most MaxPolls polls.
WaitTerminates == <>(outcome # "Waiting")

(***************************************************************************)
(* The spec (section 4.4) says a transport error during polling is logged *)
(* and ignored, since the target may be mid-deployment: the wait is not   *)
(* aborted by a poll that could not reach the service.                    *)
(***************************************************************************)
TransportErrorNotFatal ==
  outcome = "Error" => observed[polls].kind # "TransportError"


-----------------------------------------------------------------------------
(***************************************************************************)
(* The command implements the wait contract with MaxPolls as the budget.  *)
(* To the contract a GET saw the workspace running when it returned the   *)
(* status "Running", saw something fatal when the loop aborts on it (an   *)
(* exception, None, or "Failed"), and something else otherwise; Failed   *)
(* and Error are both its abort.                                           *)
(***************************************************************************)
Sight(res) ==
  IF res = Returned("Running") THEN "Running"
  ELSE IF Continues(res) THEN "Other"
  ELSE "Fatal"

ContractResult ==
  CASE outcome = "Waiting"  -> "Waiting"
    [] outcome = "Ready"    -> "Succeeded"
    [] outcome = "TimedOut" -> "GaveUp"
    [] OTHER                -> "Aborted"

Contract == INSTANCE WaitContract
              WITH Budget <- MaxPolls,
                   seen <- [i \in 1..Len(observed) |-> Sight(observed[i])],
                   result <- ContractResult

\* `mgn workspace wait` polls at most MaxPolls times, stops at the first
\* running or fatal answer, times out only after MaxPolls answers that
\* went on, and always ends: it refines the wait contract.
ImplementsWaitContract == Contract!Spec

====
