------------------------ MODULE RunnerWorkflow_proofs ------------------------
(***************************************************************************)
(* Proofs about the runner's main() and run_full_workflow                 *)
(* (MetaGuildNet/run.py), for every list of users, every set of           *)
(* configurations, every set of workflows and every set of workspaces.    *)
(***************************************************************************)
EXTENDS RunnerWorkflow, TLAPS

\* The places of main() where a step of the workflow is running.
Running == StepNames \cup ExamplePcs

\* The step of the workflow's list that the place pc belongs to.
StepOf(p) == IF p \in ExamplePcs THEN "Examples" ELSE p

(***************************************************************************)
(* The inductive invariant: StepsInOrder, the types it rests on, and what *)
(* main() is doing: before the first step nothing ran and k = 1; while a  *)
(* step runs, k is its index, every step so far returned True and main() *)
(* has not returned; the multi-user loop's u leaves 1 only once the      *)
(* examples step has begun its loop, which no workflow enters twice.     *)
(***************************************************************************)
CoreInv ==
  /\ workflow \in Workflows
  /\ ran \in Seq(StepNames \X BOOLEAN)
  /\ ok \in BOOLEAN
  /\ pc \in {"Main", "Done"} \cup Running
  /\ StepsInOrder
  /\ pc = "Main" => ran = << >> /\ k = 1 /\ exit = NoValue
  /\ pc \in Running =>
       /\ k = Len(ran) + 1
       /\ exit = NoValue
       /\ \A i \in 1..Len(ran) : ran[i][2]

\* The examples step has been recorded.
ExamplesRan == \E i \in 1..Len(ran) : ran[i][1] = "Examples"

UserInv ==
  /\ cfg \in Configs
  /\ u \in 1..(Len(Users) + 1)
  /\ pc = "MultiPost" => u <= Len(Users)
  /\ u > 1 => pc \in {"MultiPost", "MultiWait", "Done"} \/ ExamplesRan

IInv == CoreInv /\ UserInv

\* Every workflow's list is a non-empty list of step names.
LEMMA StepsType ==
  ASSUME NEW wf \in Workflows
  PROVE  /\ Steps(wf) \in Seq(StepNames)
         /\ Len(Steps(wf)) \in 1..6
<1>1. wf \in {"full", "setup", "verify", "test", "example", "diagnose", "cleanup"}
  BY WorkflowsAssumption
<1>2. CASE wf = "full"
  BY <1>2 DEF Steps, StepNames
<1>3. CASE wf # "full"
  <2>1. \E x \in StepNames : Steps(wf) = <<x>>
    BY <1>1, <1>3 DEF Steps, StepNames
  <2>2. QED
    BY <2>1
<1>4. QED
  BY <1>2, <1>3

\* A step function returned res: the step is recorded in list order, and
\* main() goes on to the next step only after True, and returns 0 only
\* after the last step returned True.
LEMMA StepDoneCore ==
  ASSUME IInv, pc \in Running, NEW res \in BOOLEAN, StepDone(res),
         workflow' = workflow, crashed' = crashed, ok' \in BOOLEAN
  PROVE  CoreInv'
<1> DEFINE S == Steps(workflow)
           ran1 == Append(ran, <<S[k], res>>)
<1>1. /\ S \in Seq(StepNames) /\ Len(S) \in 1..6
      /\ ran \in Seq(StepNames \X BOOLEAN)
      /\ Len(ran) < Len(S)
      /\ \A i \in 1..Len(ran) : ran[i][1] = S[i]
      /\ \A i \in 1..Len(ran) : ran[i][2]
      /\ k = Len(ran) + 1
  BY StepsType DEF CoreInv, IInv, StepsInOrder, Running
<1>2. /\ ran' = ran1
      /\ ran1 \in Seq(StepNames \X BOOLEAN)
      /\ Len(ran1) = k /\ k <= Len(S)
      /\ \A i \in 1..Len(ran1) : ran1[i][1] = S[i]
      /\ \A i \in 1..(Len(ran1) - 1) : ran1[i][2]
      /\ ran1[Len(ran1)][2] = res
  BY <1>1 DEF StepDone
<1>3. CASE res /\ k < Len(S)
  <2>1. pc' = S[k + 1] /\ k' = k + 1 /\ exit' = exit /\ exit = NoValue
    BY <1>3 DEF StepDone, CoreInv, IInv, Running
  <2>2. pc' \in StepNames /\ pc' \notin ExamplePcs
    BY <1>1, <1>3, <2>1 DEF ExamplePcs, StepNames
  <2>3. \A i \in 1..Len(ran1) : ran1[i][2]
    BY <1>2, <1>3
  <2>4. exit' # 0 /\ exit' # 1
    BY <2>1, ExitAssumption
  <2>5. Steps(workflow') = S
    OBVIOUS
  <2>6. StepsInOrder'
    <3>1. Len(ran') < Len(S) /\ S[Len(ran') + 1] = StepOf(pc')
      BY <1>2, <1>3, <2>1, <2>2 DEF StepOf
    <3>2. QED
      BY <1>2, <2>3, <2>4, <2>5, <3>1 DEF StepsInOrder, StepOf
  <2>7. pc' # "Main" /\ pc' \in Running
    BY <2>2 DEF StepNames, Running
  <2>8. QED
    BY <1>1, <1>2, <2>1, <2>3, <2>6, <2>7 DEF CoreInv, IInv
<1>4. CASE ~(res /\ k < Len(S))
  <2>1. pc' = "Done" /\ exit' = IF res THEN 0 ELSE 1
    BY <1>4 DEF StepDone
  <2>2. exit' = 0 => Len(ran1) = Len(S) /\ \A i \in 1..Len(ran1) : ran1[i][2]
    BY <1>2, <1>4, <2>1
  <2>3. exit' = 1 => ran1 # << >> /\ ~ran1[Len(ran1)][2]
    BY <1>2, <2>1
  <2>4. Steps(workflow') = S
    OBVIOUS
  <2>5. StepsInOrder'
    BY <1>2, <2>1, <2>2, <2>3, <2>4 DEF StepsInOrder, Running, ExamplePcs, StepNames
  <2>6. QED
    BY <1>1, <1>2, <2>1, <2>5 DEF CoreInv, IInv, Running, ExamplePcs, StepNames
<1>5. QED
  BY <1>3, <1>4

\* No workflow lists a step twice.
LEMMA StepsDistinct ==
  ASSUME NEW wf \in Workflows,
         NEW i \in 1..Len(Steps(wf)), NEW j \in 1..Len(Steps(wf)),
         Steps(wf)[i] = Steps(wf)[j]
  PROVE  i = j
<1>1. wf \in {"full", "setup", "verify", "test", "example", "diagnose", "cleanup"}
  BY WorkflowsAssumption
<1>2. CASE wf = "full"
  BY <1>2 DEF Steps
<1>3. CASE wf # "full"
  <2>1. \E x \in StepNames : Steps(wf) = <<x>>
    BY <1>1, <1>3 DEF Steps, StepNames
  <2>2. QED
    BY <2>1
<1>4. QED
  BY <1>2, <1>3

\* While the examples step runs it has not been recorded yet.
LEMMA ExamplesNotRan ==
  ASSUME IInv, pc \in Running, StepOf(pc) = "Examples"
  PROVE  ~ExamplesRan
<1> DEFINE S == Steps(workflow)
<1>1. /\ workflow \in Workflows
      /\ Len(ran) < Len(S)
      /\ \A i \in 1..Len(ran) : ran[i][1] = S[i]
      /\ S[Len(ran) + 1] = "Examples"
      /\ ran \in Seq(StepNames \X BOOLEAN)
  BY DEF IInv, CoreInv, StepsInOrder, Running, StepOf
<1>2. SUFFICES ASSUME NEW i \in 1..Len(ran), ran[i][1] = "Examples" PROVE FALSE
  BY DEF ExamplesRan
<1>3. S[i] = S[Len(ran) + 1] /\ i \in 1..Len(S) /\ Len(ran) + 1 \in 1..Len(S)
  BY <1>1, <1>2
<1>4. QED
  BY <1>1, <1>3, StepsDistinct

\* Before its multi-user loop, the examples step still has u = 1.
LEMMA UserOne ==
  ASSUME IInv, pc \in Running, StepOf(pc) = "Examples",
         pc \notin {"MultiPost", "MultiWait"}
  PROVE  u = 1
BY ExamplesNotRan DEF IInv, UserInv, Running, StepNames, ExamplePcs

\* The part of the invariant about u after a step returned.
LEMMA StepDoneUser ==
  ASSUME IInv, pc \in Running, NEW res \in BOOLEAN, StepDone(res),
         cfg' = cfg, u' \in 1..(Len(Users) + 1),
         u' > 1 => u > 1 \/ StepOf(pc) = "Examples"
  PROVE  UserInv'
<1> DEFINE S == Steps(workflow)
<1>1. S \in Seq(StepNames) /\ k = Len(ran) + 1 /\ Len(ran) < Len(S)
      /\ S[k] = StepOf(pc) /\ ran \in Seq(StepNames \X BOOLEAN)
  BY StepsType DEF IInv, CoreInv, StepsInOrder, Running, StepOf
<1>2. ran' = Append(ran, <<S[k], res>>) /\ pc' \in StepNames \cup {"Done"}
  BY <1>1 DEF StepDone
<1>3. pc' # "MultiPost"
  BY <1>2 DEF StepNames
<1>4. ASSUME u' > 1 PROVE ExamplesRan'
  <2>1. CASE StepOf(pc) = "Examples"
    BY <1>1, <1>2, <2>1 DEF ExamplesRan
  <2>2. CASE StepOf(pc) # "Examples"
    <3>1. u > 1
      BY <1>4, <2>2
    <3>2. ExamplesRan
      BY <2>2, <3>1 DEF IInv, UserInv, StepOf, ExamplePcs, Running, StepNames
    <3>3. QED
      BY <1>1, <1>2, <3>2 DEF ExamplesRan
  <2>3. QED
    BY <2>1, <2>2
<1>5. QED
  BY <1>3, <1>4 DEF IInv, UserInv

LEMMA StepDoneIInv ==
  ASSUME IInv, pc \in Running, NEW res \in BOOLEAN, StepDone(res),
         workflow' = workflow, crashed' = crashed, ok' \in BOOLEAN,
         cfg' = cfg, u' \in 1..(Len(Users) + 1),
         u' > 1 => u > 1 \/ StepOf(pc) = "Examples"
  PROVE  IInv'
BY StepDoneCore, StepDoneUser DEF IInv

\* A move inside the examples step: nothing is recorded and main() has
\* not returned.
LEMMA StayCore ==
  ASSUME IInv, pc \in Running, StepOf(pc) = "Examples", pc' \in ExamplePcs,
         UNCHANGED <<workflow, k, exit, ran>>, ok' \in BOOLEAN
  PROVE  CoreInv'
<1>1. pc' \in Running /\ pc' # "Main" /\ StepOf(pc') = "Examples"
  BY DEF Running, StepOf, ExamplePcs
<1>2. exit' = NoValue /\ exit' # 0 /\ exit' # 1
  BY ExitAssumption DEF IInv, CoreInv
<1>3. StepsInOrder'
  <2> DEFINE S == Steps(workflow)
  <2>1. Len(ran) < Len(S) /\ S[Len(ran) + 1] = "Examples"
    BY DEF IInv, CoreInv, StepsInOrder, StepOf, Running
  <2>2. Steps(workflow') = S /\ ran' = ran
    OBVIOUS
  <2>3. StepsInOrder
    BY DEF IInv, CoreInv
  <2>4. QED
    BY <1>1, <1>2, <2>1, <2>2, <2>3 DEF StepsInOrder, StepOf
<1>4. QED
  BY <1>1, <1>2, <1>3 DEF IInv, CoreInv, Running

\* The same move before the multi-user loop, where u is still 1.
LEMMA StayIInv ==
  ASSUME IInv, pc \in Running, StepOf(pc) = "Examples",
         pc \notin {"MultiPost", "MultiWait"}, pc' \in ExamplePcs,
         UNCHANGED <<workflow, k, exit, ran, cfg, u>>, ok' \in BOOLEAN
  PROVE  IInv'
<1>1. u = 1 /\ u' = 1
  BY UserOne
<1>2. UserInv'
  BY <1>1, UsersAssumption DEF IInv, UserInv
<1>3. QED
  BY <1>2, StayCore DEF IInv

\* An exception reaches main()'s except Exception: exit 1, crashed.
LEMMA UncaughtIInv ==
  ASSUME IInv, pc \in {"Main"} \cup Running, Uncaught,
         UNCHANGED <<workflow, ran, cfg, u>>, ok' \in BOOLEAN
  PROVE  IInv'
<1>1. exit' = 1 /\ crashed' /\ pc' = "Done"
  BY DEF Uncaught
<1>2. CoreInv'
  BY <1>1 DEF IInv, CoreInv, StepsInOrder, Running, StepNames, ExamplePcs
<1>3. UserInv'
  BY <1>1 DEF IInv, UserInv
<1>4. QED
  BY <1>2, <1>3 DEF IInv

\* Ctrl-C: main() returns 130, with nothing else changed.
LEMMA InterruptIInv ==
  ASSUME IInv, Interrupt
  PROVE  IInv'
<1>1. exit' = 130 /\ pc' = "Done" /\ pc # "Done"
  BY DEF Interrupt
<1>2. UNCHANGED <<workflow, ran, cfg, u, ok, crashed>>
  BY DEF Interrupt
<1>3. CoreInv'
  BY <1>1, <1>2 DEF IInv, CoreInv, StepsInOrder, Running, StepNames, ExamplePcs
<1>4. UserInv'
  BY <1>1, <1>2 DEF IInv, UserInv
<1>5. QED
  BY <1>3, <1>4 DEF IInv

\* Leaving the create_workspace branch of run_examples with success s.
LEMMA AfterCreateIInv ==
  ASSUME IInv, pc \in Running, StepOf(pc) = "Examples",
         pc \notin {"MultiPost", "MultiWait"},
         NEW s \in BOOLEAN, AfterCreate(s),
         UNCHANGED <<workflow, crashed, cfg, u>>
  PROVE  IInv'
<1>1. CASE cfg.multiUser
  BY <1>1, StayIInv DEF AfterCreate, ExamplePcs
<1>2. CASE ~cfg.multiUser
  <2>1. StepDone(s) /\ ok' = s
    BY <1>2 DEF AfterCreate
  <2>2. QED
    BY <2>1, StepDoneIInv DEF IInv, UserInv
<1>3. QED
  BY <1>1, <1>2

LEMMA InitIInv == Init => IInv
<1> SUFFICES ASSUME Init PROVE IInv
  OBVIOUS
<1>1. /\ workflow \in Workflows /\ cfg \in Configs /\ pc = "Main"
      /\ k = 1 /\ ok = TRUE /\ u = 1 /\ exit = NoValue /\ ran = << >>
  BY DEF Init, RunnerInit
<1>2. Len(Steps(workflow)) \in 1..6
  BY <1>1, StepsType
<1>3. CoreInv
  BY <1>1, <1>2, ExitAssumption DEF CoreInv, StepsInOrder, Running, StepNames, ExamplePcs
<1>4. UserInv
  BY <1>1, UsersAssumption DEF UserInv
<1>5. QED
  BY <1>3, <1>4 DEF IInv

\* main() past the logging assignment starts the workflow's first step;
\* without a logging section the KeyError ends it.
LEMMA StartIInv ==
  ASSUME IInv, Start
  PROVE  IInv'
<1>1. pc = "Main" /\ ran = << >> /\ k = 1 /\ exit = NoValue /\ u = 1
  BY DEF Start, IInv, CoreInv, UserInv, ExamplesRan
<1>2. UNCHANGED <<workflow, ran, cfg, u, ok, k>>
  BY DEF Start
<1>3. CASE cfg.hasLogging
  <2> DEFINE S == Steps(workflow)
  <2>1. pc' = S[1] /\ UNCHANGED <<exit, crashed>>
    BY <1>3 DEF Start
  <2>2. S \in Seq(StepNames) /\ Len(S) \in 1..6
    BY StepsType DEF IInv, CoreInv
  <2>3. pc' \in StepNames /\ pc' \notin ExamplePcs /\ pc' # "Main"
    BY <2>1, <2>2 DEF StepNames, ExamplePcs
  <2>4. exit' # 0 /\ exit' # 1
    BY <1>1, <2>1, ExitAssumption
  <2>5. StepsInOrder'
    BY <1>1, <1>2, <2>1, <2>2, <2>3, <2>4 DEF StepsInOrder
  <2>6. CoreInv'
    BY <1>1, <1>2, <2>1, <2>3, <2>5 DEF IInv, CoreInv, Running
  <2>7. UserInv'
    BY <1>1, <1>2, <2>3 DEF IInv, UserInv, StepNames
  <2>8. QED
    BY <2>6, <2>7 DEF IInv
<1>4. CASE ~cfg.hasLogging
  <2>1. Uncaught /\ ok' \in BOOLEAN
    BY <1>2, <1>4 DEF Start, IInv, CoreInv
  <2>2. QED
    BY <1>1, <1>2, <2>1, UncaughtIInv
<1>5. QED
  BY <1>3, <1>4

\* run_setup, run_verification, run_testing, run_diagnostics and
\* run_cleanup each return a Boolean and leave u alone.
LEMMA SubprocessStepsIInv ==
  ASSUME IInv, Setup \/ Verification \/ Testing \/ Diagnostics \/ Cleanup
  PROVE  IInv'
<1>1. CASE Setup
  <2>1. PICK r \in BOOLEAN : StepDone(~cfg.setupOn \/ r)
    BY <1>1 DEF Setup
  <2>2. QED
    BY <1>1, <2>1, StepDoneIInv DEF Setup, Running, StepNames, IInv, CoreInv, UserInv
<1>2. CASE Verification
  <2>1. PICK r \in BOOLEAN : StepDone(~cfg.verifyOn \/ r)
    BY <1>2 DEF Verification
  <2>2. QED
    BY <1>2, <2>1, StepDoneIInv DEF Verification, Running, StepNames, IInv, CoreInv, UserInv
<1>3. CASE Testing
  <2>1. PICK r1, r2 \in BOOLEAN :
          StepDone(~cfg.testOn \/ ((~cfg.integ \/ r1) /\ (~cfg.e2e \/ r2)))
    BY <1>3 DEF Testing
  <2>2. QED
    BY <1>3, <2>1, StepDoneIInv DEF Testing, Running, StepNames, IInv, CoreInv, UserInv
<1>4. CASE Diagnostics
  <2>1. PICK r1, r2 \in BOOLEAN : StepDone(~cfg.diagOn \/ (r1 /\ (~cfg.export \/ r2)))
    BY <1>4 DEF Diagnostics
  <2>2. QED
    BY <1>4, <2>1, StepDoneIInv DEF Diagnostics, Running, StepNames, IInv, CoreInv, UserInv
<1>5. CASE Cleanup
  <2>1. PICK r \in BOOLEAN : StepDone(~cfg.cleanupOn \/ ~cfg.removeWs \/ r)
    BY <1>5 DEF Cleanup
  <2>2. QED
    BY <1>5, <2>1, StepDoneIInv DEF Cleanup, Running, StepNames, IInv, CoreInv, UserInv
<1>6. QED
  BY <1>1, <1>2, <1>3, <1>4, <1>5

\* The flags of the loaded configuration are Booleans.
LEMMA CfgBoolean ==
  ASSUME IInv
  PROVE  \A f \in ConfigFields : cfg[f] \in BOOLEAN
BY ConfigsAssumption DEF IInv, UserInv

\* run_examples up to its first request.
LEMMA ExamplesStartIInv ==
  ASSUME IInv, ExamplesStart
  PROVE  IInv'
<1>1. pc = "Examples" /\ pc \in Running /\ StepOf(pc) = "Examples"
      /\ pc \notin {"MultiPost", "MultiWait"}
  BY DEF ExamplesStart, Running, StepNames, StepOf, ExamplePcs
<1>2. UNCHANGED <<workflow, cfg, u, crashed>>
  BY DEF ExamplesStart
<1>3. /\ cfg.examplesOn \in BOOLEAN /\ cfg.createWs \in BOOLEAN
      /\ cfg.comprehensive \in BOOLEAN /\ cfg.devMode \in BOOLEAN
  BY CfgBoolean DEF ConfigFields
<1>4. ok \in BOOLEAN
  BY DEF IInv, CoreInv
<1>5. CASE ~cfg.examplesOn
  <2>1. StepDone(TRUE) /\ ok' = ok
    BY <1>3, <1>5 DEF ExamplesStart
  <2>2. QED
    BY <1>1, <1>2, <1>4, <2>1, StepDoneIInv DEF IInv, UserInv
<1>6. CASE cfg.examplesOn /\ cfg.createWs /\ cfg.comprehensive /\ cfg.devMode
  <2>1. AfterCreate(TRUE)
    BY <1>3, <1>6 DEF ExamplesStart
  <2>2. QED
    BY <1>1, <1>2, <2>1, AfterCreateIInv
<1>7. CASE cfg.examplesOn /\ cfg.createWs /\ cfg.comprehensive /\ ~cfg.devMode
  <2>1. pc' = "Health" /\ UNCHANGED <<ok, k, exit, ran>>
    BY <1>3, <1>7 DEF ExamplesStart
  <2>2. QED
    BY <1>1, <1>2, <1>4, <2>1, StayIInv DEF ExamplePcs
<1>8. CASE cfg.examplesOn /\ cfg.createWs /\ ~cfg.comprehensive
  <2>1. pc' = "Post" /\ UNCHANGED <<ok, k, exit, ran>>
    BY <1>3, <1>8 DEF ExamplesStart
  <2>2. QED
    BY <1>1, <1>2, <1>4, <2>1, StayIInv DEF ExamplePcs
<1>9. CASE cfg.examplesOn /\ ~cfg.createWs
  <2>1. AfterCreate(TRUE)
    BY <1>3, <1>9 DEF ExamplesStart
  <2>2. QED
    BY <1>1, <1>2, <2>1, AfterCreateIInv
<1>10. QED
  BY <1>3, <1>5, <1>6, <1>7, <1>8, <1>9

\* _check_host_app_health: on to the POST, or the example fails.
LEMMA HealthIInv ==
  ASSUME IInv, Health
  PROVE  IInv'
<1>1. pc \in Running /\ StepOf(pc) = "Examples" /\ pc \notin {"MultiPost", "MultiWait"}
  BY DEF Health, Running, ExamplePcs, StepOf
<1>2. UNCHANGED <<workflow, cfg, u, crashed>> /\ ok \in BOOLEAN
  BY DEF Health, IInv, CoreInv
<1>3. PICK healthy \in BOOLEAN :
        IF healthy THEN pc' = "Post" /\ UNCHANGED <<ok, k, exit, ran>>
                   ELSE AfterCreate(FALSE)
  BY DEF Health
<1>4. CASE healthy
  BY <1>1, <1>2, <1>3, <1>4, StayIInv DEF ExamplePcs
<1>5. CASE ~healthy
  BY <1>1, <1>2, <1>3, <1>5, AfterCreateIInv
<1>6. QED
  BY <1>4, <1>5

\* What run_basic_workspace_example makes of a POST answer is one of three.
LEMMA JobOutcomeCases ==
  ASSUME NEW r
  PROVE  JobOutcome(r) \in {"Failed", "Crash", "Created"}
BY DEF JobOutcome

\* run_basic_workspace_example's POST: a crash, the wait, or a failure.
LEMMA BasicPostIInv ==
  ASSUME IInv, BasicPost
  PROVE  IInv'
<1>1. pc = "Post" /\ pc \in Running /\ StepOf(pc) = "Examples"
      /\ pc \notin {"MultiPost", "MultiWait"}
  BY DEF BasicPost, Running, ExamplePcs, StepOf
<1>2. UNCHANGED <<workflow, cfg, u>> /\ ok \in BOOLEAN
  BY DEF BasicPost, IInv, CoreInv
<1>3. PICK r \in JobAnswers, id \in Workspaces \cup {NoValue} :
        CASE JobOutcome(r) = "Crash" ->
               /\ Uncaught
               /\ UNCHANGED <<ok, job, k, ran>>
          [] JobOutcome(r) = "Created" ->
               /\ job' = r.data
               /\ pc' = "Wait"
               /\ UNCHANGED <<ok, k, exit, ran, crashed>>
          [] JobOutcome(r) = "Failed" ->
               /\ AfterCreate(FALSE)
               /\ UNCHANGED <<job, crashed>>
  BY DEF BasicPost
<1>4. CASE JobOutcome(r) = "Crash"
  <2>1. Uncaught /\ UNCHANGED <<ok, ran>>
    BY <1>3, <1>4
  <2>2. QED
    BY <1>1, <1>2, <2>1, UncaughtIInv
<1>5. CASE JobOutcome(r) = "Created"
  <2>1. pc' = "Wait" /\ UNCHANGED <<ok, k, exit, ran>>
    BY <1>3, <1>5
  <2>2. QED
    BY <1>1, <1>2, <2>1, StayIInv DEF ExamplePcs
<1>6. CASE JobOutcome(r) = "Failed"
  <2>1. AfterCreate(FALSE) /\ UNCHANGED crashed
    BY <1>3, <1>6
  <2>2. QED
    BY <1>1, <1>2, <2>1, AfterCreateIInv
<1>7. QED
  BY <1>4, <1>5, <1>6, JobOutcomeCases

\* The wait of the basic example.
LEMMA BasicWaitIInv ==
  ASSUME IInv, BasicWait
  PROVE  IInv'
<1>1. pc = "Wait" /\ pc \in Running /\ StepOf(pc) = "Examples"
      /\ pc \notin {"MultiPost", "MultiWait"}
  BY DEF BasicWait, Running, ExamplePcs, StepOf
<1>2. UNCHANGED <<workflow, cfg, u>> /\ ok \in BOOLEAN
      /\ cfg.comprehensive \in BOOLEAN
  BY CfgBoolean DEF BasicWait, IInv, CoreInv, ConfigFields
<1>3. PICK o \in WaitOutcomes(job) :
        CASE o = "Crashed" ->
               /\ Uncaught
               /\ UNCHANGED <<ok, k, ran, sawRunning>>
          [] o = "Ready" /\ cfg.comprehensive ->
               /\ pc' = "Status"
               /\ sawRunning' = sawRunning \cup RunningNow(job)
               /\ UNCHANGED <<ok, k, exit, ran, crashed>>
          [] o = "Ready" /\ ~cfg.comprehensive ->
               /\ AfterCreate(TRUE)
               /\ sawRunning' = sawRunning \cup RunningNow(job)
               /\ UNCHANGED crashed
          [] o = "TimedOut" ->
               /\ AfterCreate(FALSE)
               /\ UNCHANGED <<sawRunning, crashed>>
  BY DEF BasicWait
<1>4. o \in {"Ready", "TimedOut", "Crashed"}
  BY DEF WaitOutcomes
<1>5. CASE o = "Crashed"
  <2>1. Uncaught /\ UNCHANGED <<ok, ran>>
    BY <1>3, <1>5
  <2>2. QED
    BY <1>1, <1>2, <2>1, UncaughtIInv
<1>6. CASE o = "Ready" /\ cfg.comprehensive
  <2>1. pc' = "Status" /\ UNCHANGED <<ok, k, exit, ran>>
    BY <1>3, <1>6
  <2>2. QED
    BY <1>1, <1>2, <2>1, StayIInv DEF ExamplePcs
<1>7. CASE o = "Ready" /\ ~cfg.comprehensive
  <2>1. AfterCreate(TRUE) /\ UNCHANGED crashed
    BY <1>3, <1>7
  <2>2. QED
    BY <1>1, <1>2, <2>1, AfterCreateIInv
<1>8. CASE o = "TimedOut"
  <2>1. AfterCreate(FALSE) /\ UNCHANGED crashed
    BY <1>3, <1>8
  <2>2. QED
    BY <1>1, <1>2, <2>1, AfterCreateIInv
<1>9. QED
  BY <1>2, <1>4, <1>5, <1>6, <1>7, <1>8

\* _show_current_workspace_status: a crash, or the example succeeds.
LEMMA StatusIInv ==
  ASSUME IInv, Status
  PROVE  IInv'
<1>1. pc = "Status" /\ pc \in Running /\ StepOf(pc) = "Examples"
      /\ pc \notin {"MultiPost", "MultiWait"}
  BY DEF Status, Running, ExamplePcs, StepOf
<1>2. UNCHANGED <<workflow, cfg, u>> /\ ok \in BOOLEAN
  BY DEF Status, IInv, CoreInv
<1>3. PICK r \in (IF up THEN StatusAnswers ELSE {NoAnswer}) :
        IF r.status = 200 /\ r.body # "Json" /\ ~jsonErrorCaught
          THEN Uncaught /\ UNCHANGED <<ok, k, ran>>
          ELSE AfterCreate(TRUE) /\ UNCHANGED crashed
  BY DEF Status
<1>4. CASE r.status = 200 /\ r.body # "Json" /\ ~jsonErrorCaught
  BY <1>1, <1>2, <1>3, <1>4, UncaughtIInv
<1>5. CASE ~(r.status = 200 /\ r.body # "Json" /\ ~jsonErrorCaught)
  BY <1>1, <1>2, <1>3, <1>5, AfterCreateIInv
<1>6. QED
  BY <1>4, <1>5

\* One iteration of the users loop: a crash, the next user, the example
\* failing with no workspace created, or on to the waits.
LEMMA MultiPostIInv ==
  ASSUME IInv, MultiPost
  PROVE  IInv'
<1>1. pc = "MultiPost" /\ pc \in Running /\ StepOf(pc) = "Examples"
      /\ u \in 1..Len(Users) /\ Len(Users) \in Nat
  BY UsersAssumption DEF MultiPost, Running, ExamplePcs, StepOf, IInv, UserInv
<1>2. UNCHANGED <<workflow, cfg>> /\ ok \in BOOLEAN
  BY DEF MultiPost, IInv, CoreInv
<1>3. PICK r \in JobAnswers, id \in Workspaces \cup {NoValue} :
        LET c2 == IF JobOutcome(r) = "Created" THEN Append(created, r.data)
                  ELSE created
        IN
        IF JobOutcome(r) = "Crash"
          THEN /\ Uncaught
               /\ UNCHANGED <<ok, k, ran, created, u>>
          ELSE /\ created' = c2
               /\ u' = u + 1
               /\ UNCHANGED crashed
               /\ CASE u < Len(Users) ->
                         /\ UNCHANGED <<pc, ok, k, exit, ran>>
                    [] u = Len(Users) /\ c2 = << >> ->
                         /\ StepDone(FALSE)
                         /\ UNCHANGED ok
                    [] u = Len(Users) /\ c2 # << >> ->
                         /\ pc' = "MultiWait"
                         /\ UNCHANGED <<ok, k, exit, ran>>
  BY DEF MultiPost
<1> DEFINE c2 == IF JobOutcome(r) = "Created" THEN Append(created, r.data)
                 ELSE created
<1>a. JobOutcome(r) # "Crash" =>
        /\ u' = u + 1
        /\ UNCHANGED crashed
        /\ CASE u < Len(Users) ->
                 /\ UNCHANGED <<pc, ok, k, exit, ran>>
            [] u = Len(Users) /\ c2 = << >> ->
                 /\ StepDone(FALSE)
                 /\ UNCHANGED ok
            [] u = Len(Users) /\ c2 # << >> ->
                 /\ pc' = "MultiWait"
                 /\ UNCHANGED <<ok, k, exit, ran>>
  BY <1>3, Zenon
<1>4. CASE JobOutcome(r) = "Crash"
  <2>1. Uncaught /\ UNCHANGED <<ok, ran, u>>
    BY <1>3, <1>4
  <2>2. QED
    BY <1>1, <1>2, <2>1, UncaughtIInv
<1>5. CASE JobOutcome(r) # "Crash" /\ u < Len(Users)
  <2>0. u # Len(Users)
    BY <1>1, <1>5
  <2>1. u' = u + 1 /\ UNCHANGED <<pc, ok, k, exit, ran>>
    BY <1>a, <1>5, <2>0, Zenon
  <2>2. CoreInv'
    BY <1>1, <1>2, <2>1, StayCore DEF ExamplePcs
  <2>3. UserInv'
    BY <1>1, <1>2, <1>5, <2>1 DEF IInv, UserInv
  <2>4. QED
    BY <2>2, <2>3 DEF IInv
<1>6. CASE JobOutcome(r) # "Crash" /\ u = Len(Users) /\ c2 = << >>
  <2>1. u' = u + 1 /\ StepDone(FALSE) /\ UNCHANGED <<ok, crashed>>
    <3>0. ~(u < Len(Users))
      BY <1>1, <1>6
    <3>1. QED
      BY <1>a, <1>6, <3>0, Zenon
  <2>2. u' \in 1..(Len(Users) + 1) /\ ok' \in BOOLEAN
    BY <1>1, <1>2, <2>1
  <2>3. QED
    BY <1>1, <1>2, <2>1, <2>2, StepDoneIInv
<1>7. CASE JobOutcome(r) # "Crash" /\ u = Len(Users) /\ c2 # << >>
  <2>1. u' = u + 1 /\ pc' = "MultiWait" /\ UNCHANGED <<ok, k, exit, ran>>
    <3>0. ~(u < Len(Users))
      BY <1>1, <1>7
    <3>1. QED
      BY <1>a, <1>7, <3>0, Zenon
  <2>2. CoreInv'
    BY <1>1, <1>2, <2>1, StayCore DEF ExamplePcs
  <2>3. UserInv'
    BY <1>1, <1>2, <1>7, <2>1 DEF IInv, UserInv
  <2>4. QED
    BY <2>2, <2>3 DEF IInv
<1>8. QED
  BY <1>1, <1>4, <1>5, <1>6, <1>7

\* One iteration of the wait loop of the multi-user example.
LEMMA MultiWaitIInv ==
  ASSUME IInv, MultiWait
  PROVE  IInv'
<1>1. pc = "MultiWait" /\ pc \in Running /\ StepOf(pc) = "Examples"
  BY DEF MultiWait, Running, ExamplePcs, StepOf
<1>2. UNCHANGED <<workflow, cfg, u>> /\ ok \in BOOLEAN
  BY DEF MultiWait, IInv, CoreInv
<1>3. PICK o \in WaitOutcomes(created[w]) :
        IF o = "Crashed"
          THEN /\ Uncaught
               /\ UNCHANGED <<ok, k, ran, ready, w, sawRunning>>
          ELSE LET r2 == IF o = "Ready" THEN ready + 1 ELSE ready IN
               /\ ready' = r2
               /\ w' = w + 1
               /\ sawRunning' = IF o = "Ready" THEN sawRunning \cup RunningNow(created[w])
                                ELSE sawRunning
               /\ UNCHANGED crashed
               /\ IF w < Len(created)
                    THEN UNCHANGED <<pc, ok, k, exit, ran>>
                    ELSE /\ StepDone(ok /\ r2 > 0)
                         /\ UNCHANGED ok
  BY DEF MultiWait
<1>4. CASE o = "Crashed"
  <2>1. Uncaught /\ UNCHANGED <<ok, ran>>
    BY <1>3, <1>4
  <2>2. QED
    BY <1>1, <1>2, <2>1, UncaughtIInv
<1>5. CASE o # "Crashed" /\ w < Len(created)
  <2>1. UNCHANGED <<pc, ok, k, exit, ran>>
    BY <1>3, <1>5
  <2>2. CoreInv'
    BY <1>1, <1>2, <2>1, StayCore DEF ExamplePcs
  <2>3. UserInv'
    BY <1>1, <1>2, <2>1 DEF IInv, UserInv
  <2>4. QED
    BY <2>2, <2>3 DEF IInv
<1>6. CASE o # "Crashed" /\ ~(w < Len(created))
  <2> DEFINE r2 == IF o = "Ready" THEN ready + 1 ELSE ready
  <2>1. StepDone(ok /\ r2 > 0) /\ UNCHANGED <<ok, crashed>>
    BY <1>3, <1>6
  <2>2. (ok /\ r2 > 0) \in BOOLEAN
    OBVIOUS
  <2>3. QED
    BY <1>1, <1>2, <2>1, <2>2, StepDoneIInv DEF IInv, UserInv
<1>7. QED
  BY <1>4, <1>5, <1>6

\* The service's own steps, and stuttering, leave the runner alone.
LEMMA EnvIInv ==
  ASSUME IInv, (HostNext /\ UNCHANGED runVars) \/ UNCHANGED vars
  PROVE  IInv'
BY DEF IInv, CoreInv, UserInv, StepsInOrder, ExamplesRan, Running, runVars, vars

\* Every step of main(), of Ctrl-C and of the service keeps IInv.
LEMMA NextIInv == IInv /\ [Next]_vars => IInv'
BY StartIInv, SubprocessStepsIInv, ExamplesStartIInv, HealthIInv,
   BasicPostIInv, BasicWaitIInv, StatusIInv, MultiPostIInv, MultiWaitIInv,
   InterruptIInv, EnvIInv
DEF Next, RunnerStep

(***************************************************************************)
(* run_full_workflow runs its steps in the workflow's list order and      *)
(* stops at the first that returns False, and main() returns 0 only when  *)
(* every step ran and returned True and 1 only after a False result or   *)
(* an uncaught exception (MetaGuildNet/run.py, main and                  *)
(* run_full_workflow): for every list of users, configurations,         *)
(* workflows and workspaces.                                             *)
(***************************************************************************)
THEOREM StepsInOrderHolds == Spec => []StepsInOrder
<1>1. Init => IInv
  BY InitIInv
<1>2. IInv /\ [Next]_vars => IInv'
  BY NextIInv
<1>3. IInv => StepsInOrder
  BY DEF IInv, CoreInv
<1>4. QED
  BY <1>1, <1>2, <1>3, PTL DEF Spec

====
