----------------------- MODULE RunnerExamples_proofs -----------------------
(***************************************************************************)
(* Proofs that run_examples (MetaGuildNet/run.py) reports success only on *)
(* workspaces the runner saw Running, for every list of users, every set *)
(* of configurations, workflows and workspaces and every set of fault    *)
(* answers to POST /api/jobs.                                             *)
(***************************************************************************)
EXTENDS RunnerWorkflow_proofs

\* What ExamplesBacked asks of a recorded success of the examples step.
Backing ==
  /\ cfg.createWs /\ ~(cfg.comprehensive /\ cfg.devMode) => job \in sawRunning
  /\ cfg.multiUser => \E j \in 1..Len(created) : created[j] \in sawRunning

\* What the .get('id') of an answer to POST /api/jobs can be.
DataVals == Workspaces \cup WsStatus \cup {NoValue}

(***************************************************************************)
(* The invariant ExamplesBacked rests on.  The wait loop of               *)
(* run_multi_user_example starts at w = 1 with ready_count 0, and while   *)
(* it runs, ready_count > 0 only when one of the workspaces it already   *)
(* waited for was seen Running.  The comprehensive example lists the     *)
(* workspaces only after its wait saw the workspace Running, and         *)
(* `success` is still True at the multi-user example after the create    *)
(* branch only when that branch saw its workspace Running.               *)
(***************************************************************************)
BInv ==
  /\ ready \in Nat
  /\ w \in Nat
  /\ created \in Seq(DataVals)
  /\ (w # 1 \/ ready # 0) => pc \in {"MultiWait", "Done"} \/ ExamplesRan
  /\ pc = "MultiWait" =>
       /\ w \in 1..Len(created)
       /\ ready > 0 => \E j \in 1..(w - 1) : created[j] \in sawRunning
  /\ pc = "Status" => job \in sawRunning
  /\ (/\ pc \in {"MultiPost", "MultiWait"} /\ ok
      /\ cfg.createWs /\ ~(cfg.comprehensive /\ cfg.devMode)) => job \in sawRunning
  /\ ExamplesBacked

\* A success stays backed while the workspaces it rests on stay the same
\* and sawRunning only grows.
LEMMA BackingMono ==
  ASSUME Backing, cfg' = cfg, job' = job, created' = created,
         sawRunning \subseteq sawRunning'
  PROVE  Backing'
BY DEF Backing

\* The entries recorded before a step stay backed: either the step leaves
\* job and created alone, or it is part of the examples step, before
\* which no success of that step is recorded.
LEMMA BackedOld ==
  ASSUME ExamplesBacked, cfg' = cfg, sawRunning \subseteq sawRunning',
         (job' = job /\ created' = created) \/ ~ExamplesRan
  PROVE  \A i \in 1..Len(ran) :
           (ran[i] = <<"Examples", TRUE>> /\ cfg.examplesOn) => Backing'
<1> SUFFICES ASSUME NEW i \in 1..Len(ran), ran[i] = <<"Examples", TRUE>>,
                    cfg.examplesOn
             PROVE  Backing'
  OBVIOUS
<1>1. ExamplesRan
  BY DEF ExamplesRan
<1>2. Backing
  BY DEF ExamplesBacked, Backing
<1>3. QED
  BY <1>1, <1>2, BackingMono

\* A step that records nothing keeps ExamplesBacked.
LEMMA BackedKeep ==
  ASSUME ExamplesBacked, ran' = ran, cfg' = cfg, sawRunning \subseteq sawRunning',
         (job' = job /\ created' = created) \/ ~ExamplesRan
  PROVE  ExamplesBacked'
BY BackedOld DEF ExamplesBacked, Backing

\* A step that records one more result keeps ExamplesBacked when that
\* result, if a success of the examples step, is backed.
LEMMA BackedAppend ==
  ASSUME ExamplesBacked, ran \in Seq(StepNames \X BOOLEAN), cfg' = cfg,
         sawRunning \subseteq sawRunning',
         (job' = job /\ created' = created) \/ ~ExamplesRan,
         NEW e, ran' = Append(ran, e),
         (e = <<"Examples", TRUE>> /\ cfg.examplesOn) => Backing'
  PROVE  ExamplesBacked'
<1>1. \A i \in 1..Len(ran) :
        (ran[i] = <<"Examples", TRUE>> /\ cfg.examplesOn) => Backing'
  BY BackedOld
<1>2. Len(ran') = Len(ran) + 1 /\ ran'[Len(ran) + 1] = e
      /\ \A i \in 1..Len(ran) : ran'[i] = ran[i]
  OBVIOUS
<1>3. SUFFICES ASSUME NEW i \in 1..Len(ran'), ran'[i] = <<"Examples", TRUE>>,
                      cfg'.examplesOn
               PROVE  Backing'
  BY DEF ExamplesBacked, Backing
<1>4. CASE i \in 1..Len(ran)
  BY <1>1, <1>2, <1>3, <1>4
<1>5. CASE i = Len(ran) + 1
  BY <1>2, <1>3, <1>5
<1>6. QED
  BY <1>2, <1>4, <1>5

\* A step function returned res: the result is recorded under the step
\* running, and main() goes on to a later step or returns.
LEMMA StepDoneShape ==
  ASSUME IInv, pc \in Running, NEW res \in BOOLEAN, StepDone(res)
  PROVE  /\ ran' = Append(ran, <<StepOf(pc), res>>)
         /\ pc' \in StepNames \cup {"Done"}
         /\ ExamplesRan' <=> ExamplesRan \/ StepOf(pc) = "Examples"
<1> DEFINE S == Steps(workflow)
<1>1. /\ S \in Seq(StepNames) /\ Len(S) \in 1..6
      /\ ran \in Seq(StepNames \X BOOLEAN)
      /\ k = Len(ran) + 1 /\ Len(ran) < Len(S)
      /\ S[Len(ran) + 1] = StepOf(pc)
  BY StepsType DEF IInv, CoreInv, StepsInOrder, Running, StepOf
<1>2. ran' = Append(ran, <<StepOf(pc), res>>)
  BY <1>1 DEF StepDone
<1>3. pc' \in StepNames \cup {"Done"}
  <2>1. CASE res /\ k < Len(S)
    <3>1. pc' = S[k + 1] /\ k + 1 \in 1..Len(S)
      BY <2>1, <1>1 DEF StepDone
    <3>2. QED
      BY <3>1, <1>1
  <2>2. CASE ~(res /\ k < Len(S))
    BY <2>2 DEF StepDone
  <2>3. QED
    BY <2>1, <2>2
<1>4. ExamplesRan' <=> ExamplesRan \/ StepOf(pc) = "Examples"
  BY <1>1, <1>2 DEF ExamplesRan
<1>5. QED
  BY <1>2, <1>3, <1>4

\* A step function returned: BInv holds after it when the step sets w and
\* ready only inside the examples step and its success is backed.
LEMMA StepDoneBInv ==
  ASSUME IInv, BInv, pc \in Running, NEW res \in BOOLEAN, StepDone(res),
         cfg' = cfg, ready' \in Nat, w' \in Nat, created' \in Seq(DataVals),
         sawRunning \subseteq sawRunning',
         (w' # 1 \/ ready' # 0) => (w # 1 \/ ready # 0) \/ StepOf(pc) = "Examples",
         (job' = job /\ created' = created) \/ StepOf(pc) = "Examples",
         (res /\ StepOf(pc) = "Examples" /\ cfg.examplesOn) => Backing'
  PROVE  BInv'
<1>1. /\ ran' = Append(ran, <<StepOf(pc), res>>)
      /\ pc' \in StepNames \cup {"Done"}
      /\ ExamplesRan' <=> ExamplesRan \/ StepOf(pc) = "Examples"
  BY StepDoneShape
<1>2. pc' \notin {"MultiWait", "Status", "MultiPost"}
  BY <1>1 DEF StepNames
<1>3. (w' # 1 \/ ready' # 0) => pc' \in {"MultiWait", "Done"} \/ ExamplesRan'
  <2>1. pc # "Done"
    BY DEF Running, StepNames, ExamplePcs
  <2>2. pc = "MultiWait" => StepOf(pc) = "Examples"
    BY DEF StepOf, ExamplePcs
  <2>3. QED
    BY <1>1, <2>1, <2>2 DEF BInv
<1>4. (job' = job /\ created' = created) \/ ~ExamplesRan
  BY ExamplesNotRan
<1>5. ExamplesBacked'
  <2>1. (<<StepOf(pc), res>> = <<"Examples", TRUE>> /\ cfg.examplesOn) => Backing'
    OBVIOUS
  <2>2. QED
    BY <1>1, <1>4, <2>1, BackedAppend DEF BInv, IInv, CoreInv
<1>6. QED
  BY <1>2, <1>3, <1>5 DEF BInv

\* Outside the examples step, and at its start, the wait loop's w and
\* ready_count have their initial values.
LEMMA WaitLoopFresh ==
  ASSUME BInv, pc \notin {"MultiWait", "Done"}, ~ExamplesRan
  PROVE  w = 1 /\ ready = 0
BY DEF BInv

\* An exception no step catches: main() returns 1 and nothing recorded
\* changes.
LEMMA UncaughtBInv ==
  ASSUME IInv, BInv, Uncaught,
         UNCHANGED <<ran, cfg, job, created, w, ready, sawRunning>>
  PROVE  BInv'
<1>1. pc' = "Done"
  BY DEF Uncaught
<1>2. ExamplesBacked'
  BY BackedKeep DEF BInv
<1>3. ExamplesRan' = ExamplesRan
  BY DEF ExamplesRan
<1>4. QED
  BY <1>1, <1>2, <1>3 DEF BInv

\* A move inside the examples step before the multi-user example: the
\* health check passed or the POST created the workspace to wait for.
LEMMA StayBInv ==
  ASSUME IInv, BInv, pc \in Running, StepOf(pc) = "Examples",
         pc \notin {"MultiPost", "MultiWait"}, pc' \in {"Health", "Post", "Wait"},
         UNCHANGED <<ran, cfg, created, w, ready, sawRunning>>
  PROVE  BInv'
<1>1. ~ExamplesRan /\ ~ExamplesRan'
  BY ExamplesNotRan DEF ExamplesRan
<1>2. w = 1 /\ ready = 0
  BY <1>1, WaitLoopFresh DEF Running, StepNames, ExamplePcs
<1>3. ExamplesBacked'
  BY <1>1, BackedKeep DEF BInv
<1>4. QED
  BY <1>2, <1>3 DEF BInv

\* Leaving the create branch of run_examples with `success` s, which is
\* True only after the branch saw its workspace Running (or made none).
LEMMA AfterCreateBInv ==
  ASSUME IInv, BInv, pc \in Running, StepOf(pc) = "Examples",
         pc \notin {"MultiPost", "MultiWait"},
         NEW s \in BOOLEAN, AfterCreate(s),
         UNCHANGED <<cfg, job, created, w, ready>>,
         sawRunning \subseteq sawRunning',
         (s /\ cfg.createWs /\ ~(cfg.comprehensive /\ cfg.devMode)) => job \in sawRunning'
  PROVE  BInv'
<1>1. ~ExamplesRan
  BY ExamplesNotRan
<1>2. w = 1 /\ ready = 0
  BY <1>1, WaitLoopFresh DEF Running, StepNames, ExamplePcs
<1>3. CASE cfg.multiUser
  <2>1. pc' = "MultiPost" /\ ok' = s /\ ran' = ran
    BY <1>3 DEF AfterCreate
  <2>2. ExamplesBacked'
    BY <1>1, <2>1, BackedKeep DEF BInv
  <2>3. QED
    BY <1>2, <2>1, <2>2 DEF BInv
<1>4. CASE ~cfg.multiUser
  <2>1. StepDone(s)
    BY <1>4 DEF AfterCreate
  <2>2. (s /\ StepOf(pc) = "Examples" /\ cfg.examplesOn) => Backing'
    BY <1>4 DEF Backing
  <2>3. QED
    BY <1>2, <2>1, <2>2, StepDoneBInv DEF BInv
<1>5. QED
  BY <1>3, <1>4

\* main() starts: nothing has run yet.
LEMMA InitBInv == Init => BInv
<1> SUFFICES ASSUME Init PROVE BInv
  OBVIOUS
<1>1. pc = "Main" /\ w = 1 /\ ready = 0 /\ created = << >> /\ ran = << >>
  BY DEF Init, RunnerInit
<1>2. ExamplesBacked
  BY <1>1 DEF ExamplesBacked
<1>3. QED
  BY <1>1, <1>2 DEF BInv

\* main() sets the logging level and runs the first step, or crashes.
LEMMA StartBInv ==
  ASSUME IInv, BInv, Start
  PROVE  BInv'
<1>1. pc = "Main" /\ ran = << >>
  BY DEF Start, IInv, CoreInv
<1>2. w = 1 /\ ready = 0
  BY <1>1 DEF BInv, ExamplesRan
<1>3. UNCHANGED <<ran, cfg, job, created, w, ready, sawRunning>>
  BY DEF Start
<1>4. pc' \in StepNames \cup {"Done"}
  <2>1. Steps(workflow) \in Seq(StepNames) /\ Len(Steps(workflow)) \in 1..6
    BY StepsType DEF IInv, CoreInv
  <2>2. QED
    BY <2>1 DEF Start, Uncaught
<1>5. ExamplesBacked'
  BY <1>3, BackedKeep DEF BInv
<1>6. QED
  BY <1>2, <1>3, <1>4, <1>5 DEF BInv, StepNames

\* run_setup, run_verification, run_testing, run_diagnostics, run_cleanup.
LEMMA SubprocessStepsBInv ==
  ASSUME IInv, BInv, Setup \/ Verification \/ Testing \/ Diagnostics \/ Cleanup
  PROVE  BInv'
<1>1. /\ pc \in Running /\ StepOf(pc) # "Examples"
      /\ \E res \in BOOLEAN : StepDone(res)
      /\ UNCHANGED <<cfg, job, created, w, ready, sawRunning>>
  BY DEF Setup, Verification, Testing, Diagnostics, Cleanup, Running, StepNames,
         StepOf, ExamplePcs
<1>2. PICK res \in BOOLEAN : StepDone(res)
  BY <1>1
<1>3. QED
  BY <1>1, <1>2, StepDoneBInv DEF BInv

\* Ctrl-C ends main() with 130.
LEMMA InterruptBInv ==
  ASSUME IInv, BInv, Interrupt
  PROVE  BInv'
<1>1. pc' = "Done" /\ UNCHANGED <<ran, cfg, job, created, w, ready, sawRunning>>
  BY DEF Interrupt
<1>2. ExamplesBacked'
  BY <1>1, BackedKeep DEF BInv
<1>3. QED
  BY <1>1, <1>2 DEF BInv, ExamplesRan

\* The service's own steps and stuttering leave the runner's state alone.
LEMMA EnvBInv ==
  ASSUME BInv, (HostNext /\ UNCHANGED runVars) \/ UNCHANGED vars
  PROVE  BInv'
<1>1. UNCHANGED runVars
  BY DEF vars
<1>2. UNCHANGED <<pc, ok, cfg, job, created, w, ready, ran, sawRunning>>
  BY <1>1 DEF runVars
<1>3. QED
  BY <1>2 DEF BInv, ExamplesBacked, ExamplesRan

\* run_examples up to its first request.
LEMMA ExamplesStartBInv ==
  ASSUME IInv, BInv, ExamplesStart
  PROVE  BInv'
<1>1. pc = "Examples" /\ pc \in Running /\ StepOf(pc) = "Examples"
      /\ pc \notin {"MultiPost", "MultiWait"}
  BY DEF ExamplesStart, Running, StepNames, StepOf, ExamplePcs
<1>2. UNCHANGED <<cfg, job, created, w, ready, sawRunning>>
  BY DEF ExamplesStart
<1>3. /\ cfg.examplesOn \in BOOLEAN /\ cfg.createWs \in BOOLEAN
      /\ cfg.comprehensive \in BOOLEAN /\ cfg.devMode \in BOOLEAN
  BY CfgBoolean DEF ConfigFields
<1>4. CASE ~cfg.examplesOn
  <2>1. StepDone(TRUE)
    BY <1>3, <1>4 DEF ExamplesStart
  <2>2. QED
    BY <1>1, <1>2, <1>4, <2>1, StepDoneBInv DEF BInv
<1>5. CASE cfg.examplesOn /\ cfg.createWs /\ cfg.comprehensive /\ cfg.devMode
  <2>1. AfterCreate(TRUE)
    BY <1>3, <1>5 DEF ExamplesStart
  <2>2. QED
    BY <1>1, <1>2, <1>5, <2>1, AfterCreateBInv
<1>6. CASE cfg.examplesOn /\ cfg.createWs /\ cfg.comprehensive /\ ~cfg.devMode
  <2>1. pc' = "Health" /\ ran' = ran
    BY <1>3, <1>6 DEF ExamplesStart
  <2>2. QED
    BY <1>1, <1>2, <2>1, StayBInv
<1>7. CASE cfg.examplesOn /\ cfg.createWs /\ ~cfg.comprehensive
  <2>1. pc' = "Post" /\ ran' = ran
    BY <1>3, <1>7 DEF ExamplesStart
  <2>2. QED
    BY <1>1, <1>2, <2>1, StayBInv
<1>8. CASE cfg.examplesOn /\ ~cfg.createWs
  <2>1. AfterCreate(TRUE)
    BY <1>3, <1>8 DEF ExamplesStart
  <2>2. QED
    BY <1>1, <1>2, <1>8, <2>1, AfterCreateBInv
<1>9. QED
  BY <1>3, <1>4, <1>5, <1>6, <1>7, <1>8

\* _check_host_app_health: on to the POST, or the example fails.
LEMMA HealthBInv ==
  ASSUME IInv, BInv, Health
  PROVE  BInv'
<1>1. pc = "Health" /\ pc \in Running /\ StepOf(pc) = "Examples"
      /\ pc \notin {"MultiPost", "MultiWait"}
  BY DEF Health, Running, ExamplePcs, StepOf
<1>2. UNCHANGED <<cfg, job, created, w, ready, sawRunning>>
  BY DEF Health
<1>3. PICK healthy \in BOOLEAN :
        IF healthy THEN pc' = "Post" /\ UNCHANGED <<ok, k, exit, ran>>
                   ELSE AfterCreate(FALSE)
  BY DEF Health
<1>4. CASE healthy
  BY <1>1, <1>2, <1>3, <1>4, StayBInv
<1>5. CASE ~healthy
  BY <1>1, <1>2, <1>3, <1>5, AfterCreateBInv
<1>6. QED
  BY <1>4, <1>5

\* run_basic_workspace_example's POST: a crash, the wait, or a failure.
LEMMA BasicPostBInv ==
  ASSUME IInv, BInv, BasicPost
  PROVE  BInv'
<1>1. pc = "Post" /\ pc \in Running /\ StepOf(pc) = "Examples"
      /\ pc \notin {"MultiPost", "MultiWait"}
  BY DEF BasicPost, Running, ExamplePcs, StepOf
<1>2. UNCHANGED <<cfg, created, w, ready, sawRunning>>
  BY DEF BasicPost
<1>3. PICK r \in JobAnswers, id \in Workspaces \cup {NoValue} :
        CASE JobOutcome(r) = "Crash" ->
               /\ Uncaught
               /\ UNCHANGED <<ok, job, k, ran>>
          [] JobOutcome(r) = "Created" ->
               /\ job' = r.data
               /\ pc' = "Wait"
               /\ UNCHANGED <<ok, k, exit, ran, crashed>>
          [] JobOutcome(r) = "Failed" ->
               /\ AfterCreate(FALSE)
               /\ UNCHANGED <<job, crashed>>
  BY DEF BasicPost
<1>4. CASE JobOutcome(r) = "Crash"
  <2>1. Uncaught /\ UNCHANGED <<job, ran>>
    BY <1>3, <1>4
  <2>2. QED
    BY <1>2, <2>1, UncaughtBInv
<1>5. CASE JobOutcome(r) = "Created"
  <2>1. pc' = "Wait" /\ ran' = ran
    BY <1>3, <1>5
  <2>2. QED
    BY <1>1, <1>2, <2>1, StayBInv
<1>6. CASE JobOutcome(r) = "Failed"
  <2>1. AfterCreate(FALSE) /\ job' = job
    BY <1>3, <1>6
  <2>2. QED
    BY <1>1, <1>2, <2>1, AfterCreateBInv
<1>7. QED
  BY <1>4, <1>5, <1>6, JobOutcomeCases

\* A wait that returns True saw its workspace Running.
LEMMA ReadySeen ==
  ASSUME NEW id, "Ready" \in WaitOutcomes(id)
  PROVE  id \in RunningNow(id)
BY DEF WaitOutcomes, RunningNow

\* The wait of the basic example: a crash, the status listing, the
\* example's result, or a timeout.
LEMMA BasicWaitBInv ==
  ASSUME IInv, BInv, BasicWait
  PROVE  BInv'
<1>1. pc = "Wait" /\ pc \in Running /\ StepOf(pc) = "Examples"
      /\ pc \notin {"MultiPost", "MultiWait"}
  BY DEF BasicWait, Running, ExamplePcs, StepOf
<1>2. UNCHANGED <<cfg, job, created, w, ready>> /\ cfg.comprehensive \in BOOLEAN
  BY CfgBoolean DEF BasicWait, ConfigFields
<1>3. PICK o \in WaitOutcomes(job) :
        CASE o = "Crashed" ->
               /\ Uncaught
               /\ UNCHANGED <<ok, k, ran, sawRunning>>
          [] o = "Ready" /\ cfg.comprehensive ->
               /\ pc' = "Status"
               /\ sawRunning' = sawRunning \cup RunningNow(job)
               /\ UNCHANGED <<ok, k, exit, ran, crashed>>
          [] o = "Ready" /\ ~cfg.comprehensive ->
               /\ AfterCreate(TRUE)
               /\ sawRunning' = sawRunning \cup RunningNow(job)
               /\ UNCHANGED crashed
          [] o = "TimedOut" ->
               /\ AfterCreate(FALSE)
               /\ UNCHANGED <<sawRunning, crashed>>
  BY DEF BasicWait
<1>4. o \in {"Ready", "TimedOut", "Crashed"}
  BY DEF WaitOutcomes
<1>5. CASE o = "Crashed"
  <2>1. Uncaught /\ UNCHANGED <<ran, sawRunning>>
    BY <1>3, <1>5
  <2>2. QED
    BY <1>2, <2>1, UncaughtBInv
<1>6. CASE o = "Ready" /\ cfg.comprehensive
  <2>1. pc' = "Status" /\ ran' = ran /\ sawRunning' = sawRunning \cup RunningNow(job)
    BY <1>3, <1>6
  <2>2. job \in sawRunning'
    BY <1>6, <2>1, ReadySeen
  <2>3. ~ExamplesRan /\ ~ExamplesRan'
    BY <1>1, <2>1, ExamplesNotRan DEF ExamplesRan
  <2>4. w = 1 /\ ready = 0
    BY <1>1, <2>3, WaitLoopFresh
  <2>5. ExamplesBacked'
    BY <1>2, <2>1, <2>3, BackedKeep DEF BInv
  <2>6. QED
    BY <1>2, <2>1, <2>2, <2>4, <2>5 DEF BInv
<1>7. CASE o = "Ready" /\ ~cfg.comprehensive
  <2>1. AfterCreate(TRUE) /\ sawRunning' = sawRunning \cup RunningNow(job)
    BY <1>3, <1>7
  <2>2. job \in sawRunning'
    BY <1>7, <2>1, ReadySeen
  <2>3. QED
    BY <1>1, <1>2, <2>1, <2>2, AfterCreateBInv
<1>8. CASE o = "TimedOut"
  <2>1. AfterCreate(FALSE) /\ sawRunning' = sawRunning
    BY <1>3, <1>8
  <2>2. QED
    BY <1>1, <1>2, <2>1, AfterCreateBInv
<1>9. QED
  BY <1>2, <1>4, <1>5, <1>6, <1>7, <1>8

\* _show_current_workspace_status: a crash, or the example succeeds on
\* the workspace its wait saw Running.
LEMMA StatusBInv ==
  ASSUME IInv, BInv, Status
  PROVE  BInv'
<1>1. pc = "Status" /\ pc \in Running /\ StepOf(pc) = "Examples"
      /\ pc \notin {"MultiPost", "MultiWait"}
  BY DEF Status, Running, ExamplePcs, StepOf
<1>2. UNCHANGED <<cfg, job, created, w, ready, sawRunning>>
  BY DEF Status
<1>3. job \in sawRunning
  BY <1>1 DEF BInv
<1>4. PICK r \in (IF up THEN StatusAnswers ELSE {NoAnswer}) :
        IF r.status = 200 /\ r.body # "Json" /\ ~jsonErrorCaught
          THEN Uncaught /\ UNCHANGED <<ok, k, ran>>
          ELSE AfterCreate(TRUE) /\ UNCHANGED crashed
  BY DEF Status
<1>5. CASE r.status = 200 /\ r.body # "Json" /\ ~jsonErrorCaught
  BY <1>2, <1>4, <1>5, UncaughtBInv
<1>6. CASE ~(r.status = 200 /\ r.body # "Json" /\ ~jsonErrorCaught)
  BY <1>1, <1>2, <1>3, <1>4, <1>6, AfterCreateBInv
<1>7. QED
  BY <1>5, <1>6

\* The id run_multi_user_example appends is what the answer carried.
LEMMA JobDataVal ==
  ASSUME NEW r \in JobAnswers
  PROVE  r.data \in DataVals
<1>1. CASE r \in JobFaults
  <2>1. r \in HostResponses
    BY <1>1, JobFaultsAssumption
  <2>2. QED
    BY <2>1 DEF HostResponses, DataVals
<1>2. CASE r = NoAnswer
  BY <1>2 DEF NoAnswer, EmptyAnswer, DataVals
<1>3. CASE \E i \in Workspaces : r = Answer(202, i)
  BY <1>3 DEF Answer, DataVals
<1>4. QED
  BY <1>1, <1>2, <1>3 DEF JobAnswers

\* One iteration of the users loop: a crash, the next user, the example
\* failing with no workspace created, or on to the waits, which start at
\* the first workspace with ready_count 0.
LEMMA MultiPostBInv ==
  ASSUME IInv, BInv, MultiPost
  PROVE  BInv'
<1>1. pc = "MultiPost" /\ pc \in Running /\ StepOf(pc) = "Examples"
      /\ u \in 1..Len(Users) /\ Len(Users) \in Nat
  BY UsersAssumption DEF MultiPost, Running, ExamplePcs, StepOf, IInv, UserInv
<1>2. UNCHANGED <<cfg, job, w, ready, sawRunning>>
  BY DEF MultiPost
<1>3. ~ExamplesRan /\ w = 1 /\ ready = 0
  BY <1>1, ExamplesNotRan, WaitLoopFresh
<1>4. PICK r \in JobAnswers, id \in Workspaces \cup {NoValue} :
        LET c2 == IF JobOutcome(r) = "Created" THEN Append(created, r.data)
                  ELSE created
        IN
        IF JobOutcome(r) = "Crash"
          THEN /\ Uncaught
               /\ UNCHANGED <<ok, k, ran, created, u>>
          ELSE /\ created' = c2
               /\ u' = u + 1
               /\ UNCHANGED crashed
               /\ CASE u < Len(Users) ->
                         /\ UNCHANGED <<pc, ok, k, exit, ran>>
                    [] u = Len(Users) /\ c2 = << >> ->
                         /\ StepDone(FALSE)
                         /\ UNCHANGED ok
                    [] u = Len(Users) /\ c2 # << >> ->
                         /\ pc' = "MultiWait"
                         /\ UNCHANGED <<ok, k, exit, ran>>
  BY DEF MultiPost
<1> DEFINE c2 == IF JobOutcome(r) = "Created" THEN Append(created, r.data)
                 ELSE created
<1>a. JobOutcome(r) # "Crash" =>
        /\ created' = c2
        /\ CASE u < Len(Users) ->
                 /\ UNCHANGED <<pc, ok, k, exit, ran>>
            [] u = Len(Users) /\ c2 = << >> ->
                 /\ StepDone(FALSE)
                 /\ UNCHANGED ok
            [] u = Len(Users) /\ c2 # << >> ->
                 /\ pc' = "MultiWait"
                 /\ UNCHANGED <<ok, k, exit, ran>>
  BY <1>4, Zenon
<1>b. c2 \in Seq(DataVals)
  BY JobDataVal DEF BInv
<1>5. CASE JobOutcome(r) = "Crash"
  <2>1. Uncaught /\ UNCHANGED <<ran, created>>
    BY <1>4, <1>5
  <2>2. QED
    BY <1>2, <2>1, UncaughtBInv
<1>6. CASE JobOutcome(r) # "Crash" /\ u < Len(Users)
  <2>0. u # Len(Users)
    BY <1>1, <1>6
  <2>1. created' = c2 /\ UNCHANGED <<pc, ok, ran>>
    BY <1>a, <1>6, <2>0, Zenon
  <2>2. ExamplesBacked'
    BY <1>2, <1>3, <2>1, BackedKeep DEF BInv
  <2>3. QED
    BY <1>1, <1>2, <1>3, <1>b, <2>1, <2>2 DEF BInv
<1>7. CASE JobOutcome(r) # "Crash" /\ u = Len(Users) /\ c2 = << >>
  <2>0. ~(u < Len(Users))
    BY <1>1, <1>7
  <2>1. created' = c2 /\ StepDone(FALSE)
    BY <1>a, <1>7, <2>0, Zenon
  <2>2. QED
    BY <1>1, <1>2, <1>b, <2>1, StepDoneBInv DEF BInv
<1>8. CASE JobOutcome(r) # "Crash" /\ u = Len(Users) /\ c2 # << >>
  <2>0. ~(u < Len(Users))
    BY <1>1, <1>8
  <2>1. created' = c2 /\ pc' = "MultiWait" /\ UNCHANGED <<ok, ran>>
    BY <1>a, <1>8, <2>0, Zenon
  <2>2. Len(c2) >= 1
    BY <1>b, <1>8
  <2>3. ExamplesBacked'
    BY <1>2, <1>3, <2>1, BackedKeep DEF BInv
  <2>4. QED
    BY <1>1, <1>2, <1>3, <1>b, <2>1, <2>2, <2>3 DEF BInv
<1>9. QED
  BY <1>1, <1>5, <1>6, <1>7, <1>8

\* One iteration of the wait loop of the multi-user example: after it,
\* ready_count > 0 only when one of the workspaces waited for so far was
\* seen Running; after the last one the example's True rests on that one.
LEMMA MultiWaitBInv ==
  ASSUME IInv, BInv, MultiWait
  PROVE  BInv'
<1>1. pc = "MultiWait" /\ pc \in Running /\ StepOf(pc) = "Examples"
  BY DEF MultiWait, Running, ExamplePcs, StepOf
<1>2. UNCHANGED <<cfg, job, created>>
  BY DEF MultiWait
<1>3. /\ ~ExamplesRan
      /\ w \in 1..Len(created) /\ ready \in Nat
      /\ ready > 0 => \E j \in 1..(w - 1) : created[j] \in sawRunning
      /\ ok /\ cfg.createWs /\ ~(cfg.comprehensive /\ cfg.devMode) => job \in sawRunning
  BY <1>1, ExamplesNotRan DEF BInv
<1>4. PICK o \in WaitOutcomes(created[w]) :
        IF o = "Crashed"
          THEN /\ Uncaught
               /\ UNCHANGED <<ok, k, ran, ready, w, sawRunning>>
          ELSE LET r2 == IF o = "Ready" THEN ready + 1 ELSE ready IN
               /\ ready' = r2
               /\ w' = w + 1
               /\ sawRunning' = IF o = "Ready" THEN sawRunning \cup RunningNow(created[w])
                                ELSE sawRunning
               /\ UNCHANGED crashed
               /\ IF w < Len(created)
                    THEN UNCHANGED <<pc, ok, k, exit, ran>>
                    ELSE /\ StepDone(ok /\ r2 > 0)
                         /\ UNCHANGED ok
  BY DEF MultiWait
<1>5. CASE o = "Crashed"
  <2>1. Uncaught /\ UNCHANGED <<ran, ready, w, sawRunning>>
    BY <1>4, <1>5
  <2>2. QED
    BY <1>2, <2>1, UncaughtBInv
<1> DEFINE r2 == IF o = "Ready" THEN ready + 1 ELSE ready
<1>6. o # "Crashed" =>
        /\ ready' = r2 /\ w' = w + 1 /\ r2 \in Nat /\ w' \in Nat
        /\ sawRunning \subseteq sawRunning'
        /\ r2 > 0 => \E j \in 1..w : created[j] \in sawRunning'
  <2>1. SUFFICES ASSUME o # "Crashed"
                 PROVE  /\ ready' = r2 /\ w' = w + 1 /\ r2 \in Nat /\ w' \in Nat
                        /\ sawRunning \subseteq sawRunning'
                        /\ r2 > 0 => \E j \in 1..w : created[j] \in sawRunning'
    OBVIOUS
  <2>2. /\ ready' = r2 /\ w' = w + 1
        /\ sawRunning' = IF o = "Ready" THEN sawRunning \cup RunningNow(created[w])
                         ELSE sawRunning
    BY <1>4, <2>1
  <2>3. CASE o = "Ready"
    <3>1. created[w] \in sawRunning'
      BY <2>2, <2>3, ReadySeen
    <3>2. QED
      BY <1>3, <2>2, <2>3, <3>1
  <2>4. CASE o # "Ready"
    BY <1>3, <2>2, <2>4
  <2>5. QED
    BY <2>3, <2>4
<1>7. CASE o # "Crashed" /\ w < Len(created)
  <2>1. UNCHANGED <<pc, ok, ran>>
    BY <1>4, <1>7
  <2>2. ExamplesBacked'
    BY <1>2, <1>3, <1>6, <1>7, <2>1, BackedKeep DEF BInv
  <2>3. w' \in 1..Len(created) /\ w' - 1 = w
    BY <1>3, <1>6, <1>7
  <2>4. QED
    BY <1>1, <1>2, <1>3, <1>6, <1>7, <2>1, <2>2, <2>3 DEF BInv
<1>8. CASE o # "Crashed" /\ ~(w < Len(created))
  <2>1. StepDone(ok /\ r2 > 0)
    BY <1>4, <1>8
  <2>2. (ok /\ r2 > 0) \in BOOLEAN
    OBVIOUS
  <2>3. (ok /\ r2 > 0 /\ cfg.examplesOn) => Backing'
    <3>1. 1..w \subseteq 1..Len(created)
      BY <1>3
    <3>2. QED
      BY <1>2, <1>3, <1>6, <1>8, <3>1 DEF Backing
  <2>4. QED
    BY <1>1, <1>2, <1>6, <1>8, <2>1, <2>2, <2>3, StepDoneBInv DEF BInv
<1>9. QED
  BY <1>5, <1>7, <1>8

\* Every step of main(), of Ctrl-C and of the service keeps BInv.
LEMMA NextBInv == IInv /\ BInv /\ [Next]_vars => BInv'
BY StartBInv, SubprocessStepsBInv, ExamplesStartBInv, HealthBInv,
   BasicPostBInv, BasicWaitBInv, StatusBInv, MultiPostBInv, MultiWaitBInv,
   InterruptBInv, EnvBInv
DEF Next, RunnerStep

(***************************************************************************)
(* run_examples reports success only on a workspace the runner saw        *)
(* Running (MetaGuildNet/run.py, run_examples,                            *)
(* run_basic_workspace_example, run_multi_user_example): the basic        *)
(* example's True rests on its own workspace, the multi-user example's    *)
(* on one of the workspaces it created; for every list of users,          *)
(* configurations, workflows and workspaces and every set of fault        *)
(* answers to POST /api/jobs.                                             *)
(***************************************************************************)
THEOREM ExamplesBackedHolds == Spec => []ExamplesBacked
<1>1. Init => IInv /\ BInv
  BY InitIInv, InitBInv
<1>2. IInv /\ BInv /\ [Next]_vars => (IInv /\ BInv)'
  BY NextIInv, NextBInv
<1>3. IInv /\ BInv => ExamplesBacked
  BY DEF BInv
<1>4. QED
  BY <1>1, <1>2, <1>3, PTL DEF Spec

=============================================================================
