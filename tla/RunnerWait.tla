---------------------------- MODULE RunnerWait ----------------------------
(***************************************************************************)
(* MetaGuildNetRunner._wait_for_workspace_ready (MetaGuildNet/run.py):    *)
(* while waited < max_wait it GETs /api/servers/{id} with requests, and   *)
(* returns True as soon as a 200 answer carries status "Running".  Every  *)
(* other answer (another status, a non-200 code, a RequestException) is   *)
(* logged; then it sleeps and adds the interval to waited.  After the     *)
(* loop it returns False.  response.json() on a body that is not JSON     *)
(* raises a JSONDecodeError: a RequestException (caught, the loop goes    *)
(* on) in requests >= 2.27, a bare ValueError (not caught: the wait       *)
(* crashes) before.  Which one the installed library raises is chosen     *)
(* once, in the initial state.                                            *)
(***************************************************************************)
EXTENDS Naturals, Sequences, HostApp

CONSTANTS
  Target,     \* the workspace id being waited for
  MaxWait,    \* max_wait, seconds (120 in the code)
  Interval    \* the sleep between polls, seconds (5 in the code)

ASSUME RunnerTargetAssumption == Target \in Workspaces
ASSUME MaxWaitAssumption == MaxWait \in Nat \ {0}
ASSUME IntervalAssumption == Interval \in Nat \ {0}

VARIABLES
  waited,           \* seconds slept so far
  verdict,          \* "Waiting", then "Ready", "TimedOut" or "Crashed"
  jsonErrorCaught,  \* the JSONDecodeError of requests is a RequestException
  observed          \* ghost: the responses of the GETs, in order

waitVars == <<waited, verdict, jsonErrorCaught, observed>>
vars == <<hostVars, waitVars>>

\* response.json() fails: the body of the 200 answer is not a JSON document.
NotJson(r) == r.body # "Json"

RunnerInit ==
  /\ waited = 0
  /\ verdict = "Waiting"
  /\ jsonErrorCaught \in BOOLEAN
  /\ observed = << >>

\* Mutant: the loop test is waited <= max_wait.
PollOneMore ==
  /\ verdict = "Waiting"
  /\ \E r \in WorkspaceResponses(Target) :
       /\ observed' = Append(observed, r)
       /\ IF r.status = 200 /\ NotJson(r) /\ ~jsonErrorCaught
            THEN /\ verdict' = "Crashed"
                 /\ UNCHANGED waited
          ELSE IF r = Answer(200, "Running")
            THEN /\ verdict' = "Ready"
                 /\ UNCHANGED waited
          ELSE /\ waited' = waited + Interval
               /\ verdict' = IF waited' <= MaxWait THEN "Waiting" ELSE "TimedOut"
  /\ UNCHANGED <<jsonErrorCaught, hostVars>>

\* Mutant: the sleep and the waited += 5 are at the top of the loop.
PollSleepFirst ==
  /\ verdict = "Waiting"
  /\ \E r \in WorkspaceResponses(Target) :
       /\ observed' = Append(observed, r)
       /\ waited' = waited + Interval
       /\ IF r.status = 200 /\ NotJson(r) /\ ~jsonErrorCaught
            THEN verdict' = "Crashed"
          ELSE IF r = Answer(200, "Running")
            THEN verdict' = "Ready"
          ELSE verdict' = IF waited' < MaxWait THEN "Waiting" ELSE "TimedOut"
  /\ UNCHANGED <<jsonErrorCaught, hostVars>>

\* Mutant: requests.get without timeout= hangs while the service is down.
PollWithoutTimeout ==
  /\ verdict = "Waiting"
  /\ up
  /\ \E r \in WorkspaceResponses(Target) :
       /\ observed' = Append(observed, r)
       /\ IF r.status = 200 /\ NotJson(r) /\ ~jsonErrorCaught
            THEN /\ verdict' = "Crashed"
                 /\ UNCHANGED waited
          ELSE IF r = Answer(200, "Running")
            THEN /\ verdict' = "Ready"
                 /\ UNCHANGED waited
          ELSE /\ waited' = waited + Interval
               /\ verdict' = IF waited' < MaxWait THEN "Waiting" ELSE "TimedOut"
  /\ UNCHANGED <<jsonErrorCaught, hostVars>>

\* One iteration of the while loop: the GET, its handling, sleep(5).
Poll ==
  /\ verdict = "Waiting"
  /\ \E r \in WorkspaceResponses(Target) :
       /\ observed' = Append(observed, r)
       /\ IF r.status = 200 /\ NotJson(r) /\ ~jsonErrorCaught
            THEN /\ verdict' = "Crashed"
                 /\ UNCHANGED waited
          ELSE IF r = Answer(200, "Running")
            THEN /\ verdict' = "Ready"
                 /\ UNCHANGED waited
          ELSE /\ waited' = waited + Interval
               /\ verdict' = IF waited' < MaxWait THEN "Waiting" ELSE "TimedOut"
  /\ UNCHANGED <<jsonErrorCaught, hostVars>>

Init == HostInit /\ RunnerInit

Next ==
  \/ Poll
  \/ HostNext /\ UNCHANGED waitVars

\* Each GET has timeout=10, so an iteration always ends: Poll is weakly fair.
Spec == Init /\ [][Next]_vars /\ WF_vars(Poll)

-----------------------------------------------------------------------------
TypeOK ==
  /\ HostTypeOK
  /\ waited \in 0..(MaxWait + Interval - 1)
  /\ verdict \in {"Waiting", "Ready", "TimedOut", "Crashed"}
  /\ jsonErrorCaught \in BOOLEAN
  /\ observed \in Seq(HostResponses)

\* The number of polls a wait that never sees Running makes: ceil(MaxWait / Interval).
PollBudget == (MaxWait + Interval - 1) \div Interval

IsRunning(r) == r = Answer(200, "Running")
Crashes(r) == r.status = 200 /\ NotJson(r) /\ ~jsonErrorCaught

(***************************************************************************)
(* The runner's verdict follows from its responses: every poll before the *)
(* last went on (neither Running nor a crash), each of them slept one     *)
(* interval, True is returned exactly when the last answer said Running,  *)
(* and False only after PollBudget polls, once the sleeps reach max_wait. *)
(***************************************************************************)
RunnerVerdictMatchesHistory ==
  LET n == Len(observed) IN
  /\ \A i \in 1..(n - 1) : ~IsRunning(observed[i]) /\ ~Crashes(observed[i])
  /\ verdict \in {"Waiting", "TimedOut"} => waited = n * Interval
  /\ verdict \in {"Ready", "Crashed"} => waited = (n - 1) * Interval
  /\ verdict = "Waiting"  => waited < MaxWait
  /\ verdict = "TimedOut" => n = PollBudget /\ ~IsRunning(observed[n])
  /\ verdict = "Ready"    => n > 0 /\ IsRunning(observed[n])
  /\ verdict = "Crashed"  => n > 0 /\ Crashes(observed[n])

\* The wait always ends.
RunnerWaitTerminates == <>(verdict # "Waiting")

(***************************************************************************)
(* The spec (section 4.4) makes "Failed" a terminal outcome of the wait,  *)
(* reported as such and not collapsed into a timeout: once a poll has     *)
(* seen the workspace Failed, the waiter makes no further poll.           *)
(***************************************************************************)
NoPollAfterFailed ==
  \A i \in 1..(Len(observed) - 1) :
    observed[i] # Answer(200, "Failed")


-----------------------------------------------------------------------------
(***************************************************************************)
(* The runner's wait implements the wait contract with the budget          *)
(* ceil(max_wait / interval): its clock of sleeps, waited, must run out   *)
(* exactly at that poll.  To the contract a 200 "Running" answer is a      *)
(* running poll, a body whose JSONDecodeError escapes is fatal, and every  *)
(* other answer (Failed included) goes on.                                 *)
(***************************************************************************)
RunnerSight(r) ==
  IF Crashes(r) THEN "Fatal"
  ELSE IF IsRunning(r) THEN "Running"
  ELSE "Other"

RunnerContractResult ==
  CASE verdict = "Waiting"  -> "Waiting"
    [] verdict = "Ready"    -> "Succeeded"
    [] verdict = "TimedOut" -> "GaveUp"
    [] OTHER                -> "Aborted"

Contract == INSTANCE WaitContract
              WITH Budget <- PollBudget,
                   seen <- [i \in 1..Len(observed) |-> RunnerSight(observed[i])],
                   result <- RunnerContractResult

\* _wait_for_workspace_ready polls at most ceil(max_wait / interval) times,
\* returns at the first Running answer, crashes only on the answer that
\* raises, returns False only after that many answers that went on, and
\* always ends: it refines the wait contract.
RunnerImplementsWaitContract == Contract!Spec

====
