--------------------------- MODULE RunnerWorkflow ---------------------------
(***************************************************************************)
(* The MetaGuildNet runner (MetaGuildNet/run.py): main() picks a workflow, *)
(* run_full_workflow runs Setup, Verification, Testing, Examples,         *)
(* Diagnostics and Cleanup in order and stops at the first step that      *)
(* returns False.  Setup, Verification, Testing, Diagnostics and Cleanup  *)
(* run `make` targets or scripts through _run_command (a subprocess with  *)
(* a timeout; its exit status is the step's result and is chosen freely). *)
(* Examples talks to the Host App: it POSTs /api/jobs to create           *)
(* workspaces and waits for them.  The wait (_wait_for_workspace_ready,   *)
(* checked on its own in RunnerWait) is one step here: it returns True    *)
(* only while the service reports the workspace Running                   *)
(* (RunnerVerdictMatchesHistory), False at any time, and may crash when   *)
(* the JSONDecodeError of requests is not a RequestException.             *)
(***************************************************************************)
EXTENDS Naturals, Sequences, HostApp

CONSTANTS
  Users,      \* the users of run_multi_user_example, in dict order
  JobFaults,  \* answers to POST /api/jobs that create nothing
  Configs,    \* the configurations the runner may have loaded
  Workflows   \* the values of --workflow the runs consider

ConfigFields == {"setupOn", "verifyOn", "testOn", "integ", "e2e", "examplesOn",
                 "createWs", "comprehensive", "multiUser", "devMode", "diagOn",
                 "export", "cleanupOn", "removeWs", "hasLogging"}

ASSUME UsersAssumption == Users \in Seq(STRING) /\ Len(Users) > 0
ASSUME JobFaultsAssumption == JobFaults \subseteq HostResponses
ASSUME ConfigsAssumption == Configs \subseteq [ConfigFields -> BOOLEAN]
ASSUME WorkflowsAssumption ==
  Workflows \subseteq {"full", "setup", "verify", "test", "example", "diagnose", "cleanup"}
\* None, the value of exit while main() runs, is not an exit status.
ASSUME ExitAssumption == NoValue \notin {0, 1, 130}

VARIABLES
  workflow,         \* args.workflow
  cfg,              \* runner.config, reduced to the flags the steps read
  jsonErrorCaught,  \* requests' JSONDecodeError is a RequestException
  pc,               \* where main() is
  k,                \* index of the running step in the workflow's list
  ok,               \* the `success` local of run_examples
  job,              \* the workspace id of run_basic_workspace_example
  u,                \* index of the next user in run_multi_user_example
  created,          \* created_workspaces: the ids, in creation order
  w,                \* index of the next workspace to wait for
  ready,            \* ready_count
  exit,             \* main()'s return value (NoValue while it runs)
  ran,              \* ghost: <<step, returned>> for each step that returned
  issued,           \* ghost: ids the service created for the runner's POSTs
  sawRunning,       \* ghost: ids the service reported Running when a wait returned True
  crashed           \* ghost: main() ended on an exception

runVars == <<workflow, cfg, jsonErrorCaught, pc, k, ok, job, u, created, w,
             ready, exit, ran, issued, sawRunning, crashed>>
vars == <<hostVars, runVars>>

\* workflow_map and the steps list of run_full_workflow.
Steps(wf) ==
  CASE wf = "full"     -> <<"Setup", "Verification", "Testing", "Examples",
                            "Diagnostics", "Cleanup">>
    [] wf = "setup"    -> <<"Setup">>
    [] wf = "verify"   -> <<"Verification">>
    [] wf = "test"     -> <<"Testing">>
    [] wf = "example"  -> <<"Examples">>
    [] wf = "diagnose" -> <<"Diagnostics">>
    [] wf = "cleanup"  -> <<"Cleanup">>

StepNames == {"Setup", "Verification", "Testing", "Examples", "Diagnostics", "Cleanup"}

\* Mutant: the `if workspace_id:` test is dropped.
JobOutcomeNoIdCheck(r) ==
  IF r.status # 202 THEN "Failed"
  ELSE IF r.body # "Json" THEN (IF jsonErrorCaught THEN "Failed" ELSE "Crash")
  ELSE "Created"

\* What run_basic_workspace_example and run_multi_user_example make of
\* the answer to POST /api/jobs: 202, then response.json(), then .get('id').
JobOutcome(r) ==
  IF r.status # 202 THEN "Failed"                   \* RequestException, or not 202
  ELSE IF r.body # "Json" THEN (IF jsonErrorCaught THEN "Failed" ELSE "Crash")
  ELSE IF r.data = NoValue THEN "Failed"             \* "No workspace ID in response"
  ELSE "Created"

\* Mutant: requests.post without timeout= hangs while the service is down.
PostHangsWhenDown(r, id) ==
  /\ up
  /\ \/ /\ id \in Workspaces
        /\ ws[id] = Absent
        /\ ws' = [ws EXCEPT ![id] = "Pending"]
        /\ issued' = issued \cup {id}
        /\ r \in {Answer(202, id), NoAnswer}
     \/ /\ id = NoValue
        /\ r \in JobFaults
        /\ UNCHANGED <<ws, issued>>

\* The POST as the service handles it: either it creates a workspace with
\* a fresh id and its 202 answer may still be lost on the way back (the
\* client's timeout=30 expires), or it creates nothing and answers with a
\* fault, or it is down.
Post(r, id) ==
  \/ /\ up
     /\ id \in Workspaces
     /\ ws[id] = Absent
     /\ ws' = [ws EXCEPT ![id] = "Pending"]
     /\ issued' = issued \cup {id}
     /\ r \in {Answer(202, id), NoAnswer}
  \/ /\ id = NoValue
     /\ r \in (IF up THEN JobFaults ELSE {NoAnswer})
     /\ UNCHANGED <<ws, issued>>

\* Mutant: the wait returns True on any 200 answer, whatever the status.
WaitOutcomesAnyAnswer(id) ==
  (IF up THEN {"Ready"} ELSE {})
    \cup {"TimedOut"} \cup (IF jsonErrorCaught THEN {} ELSE {"Crashed"})

\* The outcome of one _wait_for_workspace_ready(id).
WaitOutcomes(id) ==
  (IF ws[id] = "Running" THEN {"Ready"} ELSE {})
    \cup {"TimedOut"} \cup (IF jsonErrorCaught THEN {} ELSE {"Crashed"})

\* Ghost: the id, if the service reports that workspace Running.
RunningNow(id) == IF ws[id] = "Running" THEN {id} ELSE {}

\* Mutant: `success = False` without the `break`.
StepDoneNoBreak(res) ==
  /\ ran' = Append(ran, <<Steps(workflow)[k], res>>)
  /\ IF k < Len(Steps(workflow))
       THEN /\ k' = k + 1
            /\ pc' = Steps(workflow)[k + 1]
            /\ UNCHANGED exit
       ELSE /\ pc' = "Done"
            /\ exit' = IF res /\ \A i \in 1..Len(ran) : ran[i][2] THEN 0 ELSE 1
            /\ UNCHANGED k

\* A step function returned res: run_full_workflow breaks on False and
\* main() returns 0 or 1 after the last step.
StepDone(res) ==
  /\ ran' = Append(ran, <<Steps(workflow)[k], res>>)
  /\ IF res /\ k < Len(Steps(workflow))
       THEN /\ k' = k + 1
            /\ pc' = Steps(workflow)[k + 1]
            /\ UNCHANGED exit
       ELSE /\ pc' = "Done"
            /\ exit' = IF res THEN 0 ELSE 1
            /\ UNCHANGED k

\* An exception no step catches reaches main()'s `except Exception`.
Uncaught ==
  /\ pc' = "Done"
  /\ exit' = 1
  /\ crashed' = TRUE

\* The answers GET /api/servers may get in _show_current_workspace_status.
StatusAnswers == {Answer(200, NoValue), BadAnswer(200), EmptyAnswer(500)}

\* The answers a POST /api/jobs may get.
JobAnswers == JobFaults \cup {NoAnswer} \cup {Answer(202, i) : i \in Workspaces}

\* Leaving the create_workspace branch of run_examples with `success` s:
\* on to the multi-user example, or run_examples returns.
AfterCreate(s) ==
  IF cfg.multiUser
    THEN /\ pc' = "MultiPost"
         /\ ok' = s
         /\ UNCHANGED <<k, exit, ran>>
    ELSE /\ StepDone(s)
         /\ ok' = s

RunnerInit ==
  /\ workflow \in Workflows
  /\ cfg \in Configs
  /\ jsonErrorCaught \in BOOLEAN
  /\ pc = "Main"
  /\ k = 1
  /\ ok = TRUE
  /\ job = NoValue
  /\ u = 1
  /\ created = << >>
  /\ w = 1
  /\ ready = 0
  /\ exit = NoValue
  /\ ran = << >>
  /\ issued = {}
  /\ sawRunning = {}
  /\ crashed = FALSE

\* main() after the runner is built: runner.config['logging']['level'] is
\* assigned outside any try, so a config file without a "logging" section
\* ends main() with a KeyError before any workflow runs.
Start ==
  /\ pc = "Main"
  /\ IF cfg.hasLogging
       THEN /\ pc' = Steps(workflow)[1]
            /\ UNCHANGED <<exit, crashed>>
       ELSE Uncaught
  /\ UNCHANGED <<hostVars, workflow, cfg, jsonErrorCaught, k, ok, job, u,
                 created, w, ready, ran, issued, sawRunning>>

\* run_setup, run_verification: one make target or script each.
Setup ==
  /\ pc = "Setup"
  /\ \E r \in BOOLEAN : StepDone(~cfg.setupOn \/ r)
  /\ UNCHANGED <<hostVars, workflow, cfg, jsonErrorCaught, ok, job, u, created,
                 w, ready, issued, sawRunning, crashed>>

Verification ==
  /\ pc = "Verification"
  /\ \E r \in BOOLEAN : StepDone(~cfg.verifyOn \/ r)
  /\ UNCHANGED <<hostVars, workflow, cfg, jsonErrorCaught, ok, job, u, created,
                 w, ready, issued, sawRunning, crashed>>

\* run_testing: both suites run even when the first fails.
Testing ==
  /\ pc = "Testing"
  /\ \E r1, r2 \in BOOLEAN :
       StepDone(~cfg.testOn \/ ((~cfg.integ \/ r1) /\ (~cfg.e2e \/ r2)))
  /\ UNCHANGED <<hostVars, workflow, cfg, jsonErrorCaught, ok, job, u, created,
                 w, ready, issued, sawRunning, crashed>>

\* run_diagnostics: meta-diagnose, then export-diagnostics if configured.
Diagnostics ==
  /\ pc = "Diagnostics"
  /\ \E r1, r2 \in BOOLEAN :
       StepDone(~cfg.diagOn \/ (r1 /\ (~cfg.export \/ r2)))
  /\ UNCHANGED <<hostVars, workflow, cfg, jsonErrorCaught, ok, job, u, created,
                 w, ready, issued, sawRunning, crashed>>

\* run_cleanup: `make stop-all` when remove_workspaces is set; when it
\* succeeds every workspace of the service is stopped.
Cleanup ==
  /\ pc = "Cleanup"
  /\ \E r \in BOOLEAN :
       /\ StepDone(~cfg.cleanupOn \/ ~cfg.removeWs \/ r)
       /\ ws' = IF cfg.cleanupOn /\ cfg.removeWs /\ r
                 THEN [i \in Workspaces |-> Absent] ELSE ws
  /\ UNCHANGED <<up, workflow, cfg, jsonErrorCaught, ok, job, u, created,
                 w, ready, issued, sawRunning, crashed>>

\* run_examples up to its first request: disabled, dev mode (the
\* comprehensive example only prints), or on to the health check or POST.
ExamplesStart ==
  /\ pc = "Examples"
  /\ CASE ~cfg.examplesOn ->
            /\ StepDone(TRUE)
            /\ UNCHANGED ok
       [] cfg.examplesOn /\ cfg.createWs /\ cfg.comprehensive /\ cfg.devMode ->
            AfterCreate(TRUE)
       [] cfg.examplesOn /\ cfg.createWs /\ cfg.comprehensive /\ ~cfg.devMode ->
            /\ pc' = "Health"
            /\ UNCHANGED <<ok, k, exit, ran>>
       [] cfg.examplesOn /\ cfg.createWs /\ ~cfg.comprehensive ->
            /\ pc' = "Post"
            /\ UNCHANGED <<ok, k, exit, ran>>
       [] cfg.examplesOn /\ ~cfg.createWs ->
            AfterCreate(TRUE)
  /\ UNCHANGED <<hostVars, workflow, cfg, jsonErrorCaught, job, u, created, w,
                 ready, issued, sawRunning, crashed>>

\* _check_host_app_health: GET /healthz; its bare `except:` turns every
\* failure (Ctrl-C included) into False.
Health ==
  /\ pc = "Health"
  /\ \E healthy \in (IF up THEN BOOLEAN ELSE {FALSE}) :
       IF healthy THEN /\ pc' = "Post"
                       /\ UNCHANGED <<ok, k, exit, ran>>
                  ELSE AfterCreate(FALSE)
  /\ UNCHANGED <<hostVars, workflow, cfg, jsonErrorCaught, job, u, created, w,
                 ready, issued, sawRunning, crashed>>

\* run_basic_workspace_example: POST /api/jobs and, on a 202 with an id,
\* the wait.
BasicPost ==
  /\ pc = "Post"
  /\ \E r \in JobAnswers, id \in Workspaces \cup {NoValue} :
       /\ Post(r, id)
       /\ CASE JobOutcome(r) = "Crash" ->
                 /\ Uncaught
                 /\ UNCHANGED <<ok, job, k, ran>>
            [] JobOutcome(r) = "Created" ->
                 /\ job' = r.data
                 /\ pc' = "Wait"
                 /\ UNCHANGED <<ok, k, exit, ran, crashed>>
            [] JobOutcome(r) = "Failed" ->
                 /\ AfterCreate(FALSE)
                 /\ UNCHANGED <<job, crashed>>
  /\ UNCHANGED <<up, workflow, cfg, jsonErrorCaught, u, created, w, ready,
                 sawRunning>>

\* The wait of the basic example; the comprehensive example then lists
\* the current workspaces.
BasicWait ==
  /\ pc = "Wait"
  /\ \E o \in WaitOutcomes(job) :
       CASE o = "Crashed" ->
              /\ Uncaught
              /\ UNCHANGED <<ok, k, ran, sawRunning>>
         [] o = "Ready" /\ cfg.comprehensive ->
              /\ pc' = "Status"
              /\ sawRunning' = sawRunning \cup RunningNow(job)
              /\ UNCHANGED <<ok, k, exit, ran, crashed>>
         [] o = "Ready" /\ ~cfg.comprehensive ->
              /\ AfterCreate(TRUE)
              /\ sawRunning' = sawRunning \cup RunningNow(job)
              /\ UNCHANGED crashed
         [] o = "TimedOut" ->
              /\ AfterCreate(FALSE)
              /\ UNCHANGED <<sawRunning, crashed>>
  /\ UNCHANGED <<hostVars, workflow, cfg, jsonErrorCaught, job, u, created, w,
                 ready, issued>>

\* _show_current_workspace_status: only RequestException is caught, so a
\* 200 answer that is not JSON crashes the runner with an old requests.
Status ==
  /\ pc = "Status"
  /\ \E r \in (IF up THEN StatusAnswers ELSE {NoAnswer}) :
       IF r.status = 200 /\ r.body # "Json" /\ ~jsonErrorCaught
         THEN /\ Uncaught
              /\ UNCHANGED <<ok, k, ran>>
         ELSE /\ AfterCreate(TRUE)
              /\ UNCHANGED crashed
  /\ UNCHANGED <<hostVars, workflow, cfg, jsonErrorCaught, job, u, created, w,
                 ready, issued, sawRunning>>

\* One iteration of `for user, image in users.items()`: a failed POST is
\* logged and the loop goes on; with no workspace created the example
\* returns False, and otherwise it waits for each one in turn.
MultiPost ==
  /\ pc = "MultiPost"
  /\ \E r \in JobAnswers, id \in Workspaces \cup {NoValue} :
       /\ Post(r, id)
       /\ LET c2 == IF JobOutcome(r) = "Created" THEN Append(created, r.data)
                    ELSE created
          IN
          IF JobOutcome(r) = "Crash"
            THEN /\ Uncaught
                 /\ UNCHANGED <<ok, k, ran, created, u>>
            ELSE /\ created' = c2
                 /\ u' = u + 1
                 /\ UNCHANGED crashed
                 /\ CASE u < Len(Users) ->
                           /\ UNCHANGED <<pc, ok, k, exit, ran>>
                      [] u = Len(Users) /\ c2 = << >> ->
                           /\ StepDone(FALSE)
                           /\ UNCHANGED ok
                      [] u = Len(Users) /\ c2 # << >> ->
                           /\ pc' = "MultiWait"
                           /\ UNCHANGED <<ok, k, exit, ran>>
  /\ UNCHANGED <<up, workflow, cfg, jsonErrorCaught, job, w, ready, sawRunning>>

\* One iteration of the wait loop of run_multi_user_example; after the
\* last one the example returns ready_count > 0 and run_examples returns.
MultiWait ==
  /\ pc = "MultiWait"
  /\ LET id == created[w] IN
     \E o \in WaitOutcomes(id) :
       IF o = "Crashed"
         THEN /\ Uncaught
              /\ UNCHANGED <<ok, k, ran, ready, w, sawRunning>>
         ELSE LET r2 == IF o = "Ready" THEN ready + 1 ELSE ready IN
              /\ ready' = r2
              /\ w' = w + 1
              /\ sawRunning' = IF o = "Ready" THEN sawRunning \cup RunningNow(id) ELSE sawRunning
              /\ UNCHANGED crashed
              /\ IF w < Len(created)
                   THEN UNCHANGED <<pc, ok, k, exit, ran>>
                   ELSE /\ StepDone(ok /\ r2 > 0)
                        /\ UNCHANGED ok
  /\ UNCHANGED <<hostVars, workflow, cfg, jsonErrorCaught, job, u, created, issued>>

\* Ctrl-C: KeyboardInterrupt is not an Exception; main() returns 130.  In
\* the health check the bare except swallows it (an unhealthy answer).
Interrupt ==
  /\ pc \notin {"Done", "Health"}
  /\ pc' = "Done"
  /\ exit' = 130
  /\ UNCHANGED <<hostVars, workflow, cfg, jsonErrorCaught, k, ok, job, u,
                 created, w, ready, ran, issued, sawRunning, crashed>>

RunnerStep ==
  \/ Start \/ Setup \/ Verification \/ Testing \/ Diagnostics \/ Cleanup
  \/ ExamplesStart \/ Health \/ BasicPost \/ BasicWait \/ Status
  \/ MultiPost \/ MultiWait

Init == HostInit /\ RunnerInit

Next ==
  \/ RunnerStep
  \/ Interrupt
  \/ HostNext /\ UNCHANGED runVars

\* Every subprocess and every request of the runner has a timeout, so its
\* own steps are weakly fair; the service and Ctrl-C are not.
Spec == Init /\ [][Next]_vars /\ WF_vars(RunnerStep)

-----------------------------------------------------------------------------
ExamplePcs == {"Health", "Post", "Wait", "Status", "MultiPost", "MultiWait"}

TypeOK ==
  /\ HostTypeOK
  /\ workflow \in Workflows
  /\ cfg \in Configs
  /\ jsonErrorCaught \in BOOLEAN
  /\ pc \in {"Main", "Done"} \cup StepNames \cup ExamplePcs
  /\ k \in 1..6
  /\ ok \in BOOLEAN
  /\ job \in Workspaces \cup {NoValue}
  /\ u \in 1..(Len(Users) + 1)
  /\ created \in Seq(Workspaces)
  /\ Len(created) <= Len(Users)
  /\ w \in 1..(Len(Users) + 1)
  /\ ready \in 0..Len(Users)
  /\ exit \in {NoValue, 0, 1, 130}
  /\ ran \in Seq(StepNames \X BOOLEAN)
  /\ issued \subseteq Workspaces
  /\ sawRunning \subseteq Workspaces
  /\ crashed \in BOOLEAN

(***************************************************************************)
(* run_full_workflow runs its steps in list order and stops at the first *)
(* that returns False: the steps that returned are a prefix of the       *)
(* workflow's list, all but the last returned True, the step running now *)
(* is the next one, and main() returns 0 only when every step ran and    *)
(* returned True, and 1 only after a step returned False or an uncaught  *)
(* exception.                                                             *)
(***************************************************************************)
StepsInOrder ==
  LET S == Steps(workflow) IN
  /\ Len(ran) <= Len(S)
  /\ \A i \in 1..Len(ran) : ran[i][1] = S[i]
  /\ \A i \in 1..(Len(ran) - 1) : ran[i][2]
  /\ pc \in StepNames \cup ExamplePcs =>
        /\ Len(ran) < Len(S)
        /\ S[Len(ran) + 1] = IF pc \in ExamplePcs THEN "Examples" ELSE pc
  /\ exit = 0 => Len(ran) = Len(S) /\ \A i \in 1..Len(ran) : ran[i][2]
  /\ exit = 1 => crashed \/ (ran # << >> /\ ~ran[Len(ran)][2])

(***************************************************************************)
(* The examples step reports success only on a workspace the runner saw  *)
(* Running: the basic example on the one it created, the multi-user      *)
(* example on at least one of those it created (unless dev mode makes    *)
(* the comprehensive example only print).                                 *)
(***************************************************************************)
ExamplesBacked ==
  \A i \in 1..Len(ran) :
    (ran[i] = <<"Examples", TRUE>> /\ cfg.examplesOn) =>
      /\ cfg.createWs /\ ~(cfg.comprehensive /\ cfg.devMode) => job \in sawRunning
      /\ cfg.multiUser => \E j \in 1..Len(created) : created[j] \in sawRunning

\* The runner always finishes.
WorkflowEnds == <>(pc = "Done")

(***************************************************************************)
(* The runner's log says how many workspaces it created ("Successfully    *)
(* created N workspaces", "No workspaces created"), and the summary lists *)
(* them: when it finishes, every workspace the service created for one of *)
(* its POSTs is one it knows of.                                           *)
(***************************************************************************)
IssuedAreTracked ==
  (pc = "Done" /\ ~crashed /\ exit # 130) =>
    issued \subseteq {job} \cup {created[j] : j \in 1..Len(created)}

=============================================================================
