--------------------------- MODULE Installer_proofs ---------------------------
(***************************************************************************)
(* Proofs about the two installers (installer/bootstrap.py full_install   *)
(* and cli/install.py install_local).                                      *)
(***************************************************************************)
EXTENDS Installer, TLAPS

(***************************************************************************)
(* full_install while it runs: the steps that returned are a prefix of    *)
(* BootSteps, all True but perhaps the last, and the running step is the  *)
(* next one; each step that returned True leaves what it checked behind;  *)
(* install_dependencies' `missing` holds the prerequisites checked so far *)
(* that are not installed, and verify_installation's all_passed means     *)
(* every check so far passed.                                             *)
(***************************************************************************)
FullInv ==
  /\ pc \in SeqSet(BootSteps) \cup {"Done"}
  /\ Len(returned) <= Len(BootSteps)
  /\ \A j \in 1..Len(returned) : returned[j][1] = BootSteps[j]
  /\ \A j \in 1..(Len(returned) - 1) : returned[j][2]
  /\ pc # "Done" =>
       /\ Len(returned) < Len(BootSteps)
       /\ pc = BootSteps[Len(returned) + 1]
       /\ exit = NoValue
       /\ \A j \in 1..Len(returned) : returned[j][2]
  /\ exit = 0 => Len(returned) = Len(BootSteps) /\ \A j \in 1..Len(returned) : returned[j][2]
  /\ (Len(returned) >= 1 /\ returned[1][2]) => SeqSet(Prereqs) \subseteq installed
  /\ (Len(returned) >= 2 /\ returned[2][2]) => HeadscaleScript \in ranOk
  /\ (Len(returned) >= 4 /\ returned[4][2]) => checksOk = NChecks
  /\ pc = "Dependencies" =>
       i <= Len(Prereqs) /\ missing = {Prereqs[j] : j \in 1..(i - 1)} \ installed
  /\ pc \in {"Dependencies", "Headscale", "Cluster"} => checksOk = 0 /\ allPassed
  /\ pc = "Cluster" => i <= Len(DeployScripts)
  /\ pc = "Verification" =>
       i <= NChecks /\ checksOk <= i - 1 /\ (allPassed => checksOk = i - 1)

(***************************************************************************)
(* mgn install while it runs: install_local starts only for the local    *)
(* type off macOS, and the scripts before the running one exited 0.       *)
(***************************************************************************)
LocalInv ==
  /\ pc \in {"Install", "Local", "Done"}
  /\ pc = "Install" => i = 1 /\ exit = NoValue
  /\ pc = "Local" =>
       /\ program = "local" /\ ~onMac /\ exit = NoValue
       /\ i <= Len(LocalSteps)
       /\ \A j \in 1..(i - 1) : LocalSteps[j] \in ranOk
  /\ (program = "local" /\ ~onMac /\ exit = 0) => SeqSet(LocalSteps) \subseteq ranOk

IInv ==
  /\ TypeOK
  /\ program = "full_install" => FullInv
  /\ program # "full_install" => LocalInv

(***************************************************************************)
(* Lemmas about the constant step lists.                                   *)
(***************************************************************************)

\* The lengths of the installers' lists, and where their entries lie.
LEMMA ListFacts ==
  /\ Len(BootSteps) = 4 /\ Len(Prereqs) = 3 /\ Len(DeployScripts) = 3
  /\ Len(LocalScripts) = 6 /\ NChecks = 3
  /\ \A j, k \in 1..4 : BootSteps[j] = BootSteps[k] => j = k
  /\ SeqSet(BootSteps) = {"Dependencies", "Headscale", "Cluster", "Verification"}
  /\ SeqSet(Prereqs) = {"Docker", "kubectl", "MicroK8s"}
  /\ \A j \in 1..3 : Prereqs[j] \in SeqSet(Prereqs)
  /\ \A j \in 1..3 : DeployScripts[j] \in Files
  /\ HeadscaleScript \in Files
BY DEF BootSteps, Prereqs, DeployScripts, LocalScripts, NChecks, SeqSet, Files

\* install_local's list has five scripts with --skip-verify and six
\* without, all script files.
LEMMA LocalStepsFacts ==
  /\ Len(LocalSteps) = IF skipVerify THEN 5 ELSE 6
  /\ \A j \in 1..Len(LocalSteps) : LocalSteps[j] = LocalScripts[j]
  /\ \A j \in 1..Len(LocalSteps) : LocalSteps[j] \in Files
BY DEF LocalSteps, LocalScripts, Files, SeqSet

\* full_install's loop finds the running step at its own index in the
\* steps list, so StepReturned appends it, restarts the loop index and
\* goes to the next step or stops.
LEMMA StepReturnedShape ==
  ASSUME NEW k \in 1..4, NEW res \in BOOLEAN, pc = BootSteps[k],
         StepReturned(res)
  PROVE  /\ returned' = Append(returned, <<pc, res>>)
         /\ i' = 1
         /\ (res /\ k < 4) => pc' = BootSteps[k + 1] /\ exit' = exit
         /\ ~(res /\ k < 4) => pc' = "Done" /\ exit' = IF res THEN 0 ELSE 1
<1> DEFINE n == CHOOSE j \in 1..Len(BootSteps) : BootSteps[j] = pc
<1>1. n = k
  <2>1. n \in 1..4 /\ BootSteps[n] = pc
    BY ListFacts
  <2>. QED BY <2>1, ListFacts
<1>. QED BY <1>1, ListFacts DEF StepReturned

\* The installer starts in a state of the inductive invariant.
LEMMA InitIInv == Init => IInv
<1> SUFFICES ASSUME Init PROVE IInv
  OBVIOUS
<1>1. TypeOK
  <2>1. returned \in Seq(SeqSet(BootSteps) \X BOOLEAN)
    BY DEF Init
  <2>2. pc \in SeqSet(BootSteps) \cup {"Install", "Local", "Done"}
    BY ListFacts DEF Init
  <2>. QED BY <2>1, <2>2, ListFacts DEF Init, TypeOK
<1>2. program = "full_install" => FullInv
  <2> SUFFICES ASSUME program = "full_install" PROVE FullInv
    OBVIOUS
  <2>1. pc = "Dependencies" /\ returned = << >> /\ i = 1 /\ checksOk = 0
    BY DEF Init
  <2>2. {Prereqs[j] : j \in 1..(i - 1)} = {}
    BY <2>1
  <2>3. exit = NoValue /\ missing = {} /\ allPassed
    BY DEF Init
  <2>4. pc \in SeqSet(BootSteps) \cup {"Done"} /\ pc = BootSteps[0 + 1]
    BY <2>1, ListFacts DEF BootSteps
  <2>5. Len(returned) = 0
    BY <2>1
  <2>. QED BY <2>1, <2>2, <2>3, <2>4, <2>5, NoValueAssumption, ListFacts DEF FullInv
<1>3. program # "full_install" => LocalInv
  BY NoValueAssumption DEF Init, LocalInv
<1>. QED BY <1>1, <1>2, <1>3 DEF IInv

\* full_install's loop after step k returned res keeps the invariant,
\* given what the step leaves behind: install_dependencies returns True
\* only with every prerequisite installed, setup_headscale only after its
\* script exited 0, verify_installation only after three checks passed,
\* and no check has run before the verification step.
LEMMA StepReturnedFull ==
  ASSUME IInv, program = "full_install",
         NEW k \in 1..4, NEW res \in BOOLEAN, pc = BootSteps[k],
         StepReturned(res),
         UNCHANGED machine, ranOk \subseteq ranOk', ranOk' \subseteq Files,
         missing' \subseteq SeqSet(Prereqs), allPassed' \in BOOLEAN,
         checksOk' \in 0..NChecks,
         res /\ k = 1 => SeqSet(Prereqs) \subseteq installed,
         res /\ k = 2 => HeadscaleScript \in ranOk',
         res /\ k = 4 => checksOk' = NChecks,
         k \in 1..3 => checksOk' = 0 /\ allPassed'
  PROVE  IInv'
<1>1. Len(returned) = k - 1 /\ exit = NoValue
      /\ \A j \in 1..Len(returned) : returned[j][1] = BootSteps[j] /\ returned[j][2]
  <2>1. pc # "Done" /\ returned \in Seq(SeqSet(BootSteps) \X BOOLEAN)
    BY ListFacts DEF BootSteps, IInv, TypeOK
  <2>2. Len(returned) + 1 \in 1..4 /\ pc = BootSteps[Len(returned) + 1]
    BY <2>1, ListFacts DEF IInv, FullInv
  <2>3. Len(returned) + 1 = k
    BY <2>2, ListFacts
  <2>. QED BY <2>1, <2>3 DEF IInv, FullInv
<1>2. /\ returned' = Append(returned, <<pc, res>>)
      /\ i' = 1
      /\ (res /\ k < 4) => pc' = BootSteps[k + 1] /\ exit' = exit
      /\ ~(res /\ k < 4) => pc' = "Done" /\ exit' = IF res THEN 0 ELSE 1
  BY StepReturnedShape
<1>3. /\ Len(returned') = k
      /\ \A j \in 1..(k - 1) : returned'[j] = returned[j]
      /\ returned'[k] = <<pc, res>>
  <2>1. returned \in Seq(SeqSet(BootSteps) \X BOOLEAN)
    BY DEF IInv, TypeOK
  <2>. QED BY <1>1, <1>2, <2>1
<1>4. program' = "full_install" /\ installed' = installed
  BY DEF machine
<1>5. TypeOK'
  <2>1. returned' \in Seq(SeqSet(BootSteps) \X BOOLEAN)
    <3>1. returned \in Seq(SeqSet(BootSteps) \X BOOLEAN) /\ pc \in SeqSet(BootSteps)
      BY ListFacts DEF IInv, TypeOK, BootSteps
    <3>. QED BY <3>1, <1>2
  <2>2. pc' \in SeqSet(BootSteps) \cup {"Install", "Local", "Done"}
    BY <1>2, ListFacts DEF BootSteps
  <2>3. exit' \in {NoValue, 0, 1}
    BY <1>1, <1>2
  <2>. QED BY <2>1, <2>2, <2>3, <1>2, ListFacts DEF IInv, TypeOK, machine, Programs
<1>6. FullInv'
  <2>1. pc' \in SeqSet(BootSteps) \cup {"Done"}
    BY <1>2, ListFacts DEF BootSteps
  <2>2. Len(returned') <= Len(BootSteps)
    BY <1>3, ListFacts
  <2>3. \A j \in 1..Len(returned') : returned'[j][1] = BootSteps[j]
    BY <1>1, <1>3
  <2>4. \A j \in 1..(Len(returned') - 1) : returned'[j][2]
    BY <1>1, <1>3
  <2>5. pc' # "Done" =>
          /\ Len(returned') < Len(BootSteps)
          /\ pc' = BootSteps[Len(returned') + 1]
          /\ exit' = NoValue
          /\ \A j \in 1..Len(returned') : returned'[j][2]
    BY <1>1, <1>2, <1>3, ListFacts DEF BootSteps
  <2>6. exit' = 0 => Len(returned') = Len(BootSteps)
                     /\ \A j \in 1..Len(returned') : returned'[j][2]
    BY <1>1, <1>2, <1>3, ListFacts, NoValueAssumption
  <2>7. (Len(returned') >= 1 /\ returned'[1][2]) => SeqSet(Prereqs) \subseteq installed'
    <3>1. CASE k = 1
      BY <3>1, <1>3, <1>4
    <3>2. CASE k > 1
      BY <3>2, <1>1, <1>3, <1>4 DEF IInv, FullInv
    <3>. QED BY <3>1, <3>2
  <2>8. (Len(returned') >= 2 /\ returned'[2][2]) => HeadscaleScript \in ranOk'
    <3>1. CASE k = 2
      BY <3>1, <1>3
    <3>2. CASE k > 2
      BY <3>2, <1>1, <1>3 DEF IInv, FullInv
    <3>. QED BY <3>1, <3>2, <1>3
  <2>9. (Len(returned') >= 4 /\ returned'[4][2]) => checksOk' = NChecks
    BY <1>3
  <2>10. pc' \notin {"Dependencies"}
    BY <1>2, ListFacts DEF BootSteps
  <2>11. pc' \in {"Headscale", "Cluster"} => checksOk' = 0 /\ allPassed'
    BY <1>2, ListFacts DEF BootSteps
  <2>12. pc' = "Cluster" => i' <= Len(DeployScripts)
    BY <1>2, ListFacts
  <2>13. pc' = "Verification" =>
           i' <= NChecks /\ checksOk' <= i' - 1 /\ (allPassed' => checksOk' = i' - 1)
    BY <1>2, ListFacts DEF BootSteps
  <2>. QED BY <2>1, <2>2, <2>3, <2>4, <2>5, <2>6, <2>7, <2>8, <2>9, <2>10,
              <2>11, <2>12, <2>13 DEF FullInv
<1>. QED BY <1>4, <1>5, <1>6 DEF IInv

\* A full_install step runs only in full_install.
LEMMA FullOnly ==
  ASSUME IInv, pc \in SeqSet(BootSteps)
  PROVE  program = "full_install" /\ FullInv
BY ListFacts DEF IInv, LocalInv

\* One iteration of install_dependencies keeps the invariant: `missing`
\* gains the prerequisite just checked when it is not installed, and
\* after the last one the step returns True only when none is missing.
LEMMA CheckPrereqIInv ==
  ASSUME IInv, CheckPrereq
  PROVE  IInv'
<1> DEFINE p == Prereqs[i]
           m == IF p \in installed THEN missing ELSE missing \cup {p}
<1>1. program = "full_install" /\ FullInv /\ pc = "Dependencies"
  BY FullOnly, ListFacts DEF CheckPrereq
<1>2. /\ i \in 1..3
      /\ missing = {Prereqs[j] : j \in 1..(i - 1)} \ installed
      /\ checksOk = 0 /\ allPassed
  BY <1>1, ListFacts DEF IInv, TypeOK, FullInv
<1>3. m = {Prereqs[j] : j \in 1..i} \ installed
  BY <1>2
<1>4. /\ missing' = m
      /\ IF i < Len(Prereqs)
           THEN i' = i + 1 /\ UNCHANGED <<pc, exit, returned>>
           ELSE StepReturned(m = {})
      /\ UNCHANGED <<machine, allPassed, ranOk, checksOk>>
  BY DEF CheckPrereq
<1>5. m \subseteq SeqSet(Prereqs)
  BY <1>2, ListFacts DEF IInv, TypeOK
<1>6. CASE i < 3
  <2>1. i' = i + 1 /\ UNCHANGED <<pc, exit, returned>> /\ missing' = m
        /\ UNCHANGED <<machine, allPassed, ranOk, checksOk>>
    BY <1>4, <1>6, ListFacts
  <2>2. TypeOK'
    BY <2>1, <1>2, <1>5, <1>6, ListFacts DEF IInv, TypeOK, machine
  <2>3. FullInv'
    BY <2>1, <1>1, <1>2, <1>3, <1>6, ListFacts DEF FullInv, machine
  <2>. QED BY <2>1, <2>2, <2>3, <1>1 DEF IInv, machine
<1>7. CASE i = 3
  <2>1. StepReturned(m = {})
    BY <1>4, <1>7, ListFacts
  <2>2. m = {} => SeqSet(Prereqs) \subseteq installed
    BY <1>3, <1>7 DEF SeqSet, Prereqs
  <2>3. pc = BootSteps[1]
    BY <1>1 DEF BootSteps
  <2>4. /\ UNCHANGED machine /\ ranOk \subseteq ranOk' /\ ranOk' \subseteq Files
        /\ missing' \subseteq SeqSet(Prereqs) /\ allPassed' \in BOOLEAN
        /\ checksOk' \in 0..NChecks /\ checksOk' = 0 /\ allPassed'
    BY <1>2, <1>4, <1>5 DEF IInv, TypeOK, NChecks
  <2>5. (m = {}) \in BOOLEAN /\ 1 \in 1..4 /\ 1 \in 1..3 /\ 1 # 2 /\ 1 # 4
    OBVIOUS
  <2>. QED BY <2>1, <2>2, <2>3, <2>4, <2>5, <1>1, StepReturnedFull, Zenon
<1>. QED BY <1>2, <1>6, <1>7

\* setup_headscale keeps the invariant: it returns True only after its
\* script ran and exited 0.
LEMMA HeadscaleIInv ==
  ASSUME IInv, Headscale
  PROVE  IInv'
<1>1. program = "full_install" /\ FullInv /\ pc = "Headscale"
  BY FullOnly, ListFacts DEF Headscale
<1>2. /\ checksOk = 0 /\ allPassed /\ pc = BootSteps[2]
      /\ UNCHANGED <<machine, missing, allPassed, checksOk>>
      /\ missing \subseteq SeqSet(Prereqs) /\ ranOk \subseteq Files
  BY <1>1 DEF IInv, TypeOK, FullInv, Headscale, BootSteps
<1>3. \/ ranOk' = ranOk \cup {HeadscaleScript} /\ StepReturned(TRUE)
      \/ StepReturned(FALSE) /\ UNCHANGED ranOk
  BY DEF Headscale, RunScript
<1>4. 2 \in 1..4 /\ 2 \in 1..3 /\ 2 # 1 /\ 2 # 4 /\ 0 \in 0..NChecks
  BY DEF NChecks
<1>5. CASE ranOk' = ranOk \cup {HeadscaleScript} /\ StepReturned(TRUE)
  <2>1. ranOk \subseteq ranOk' /\ ranOk' \subseteq Files /\ HeadscaleScript \in ranOk'
    BY <1>2, <1>5, ListFacts
  <2>. QED BY <1>1, <1>2, <1>4, <1>5, <2>1, StepReturnedFull, Zenon
<1>6. CASE StepReturned(FALSE) /\ UNCHANGED ranOk
  <2>1. ranOk \subseteq ranOk' /\ ranOk' \subseteq Files
    BY <1>2, <1>6
  <2>. QED BY <1>1, <1>2, <1>4, <1>6, <2>1, StepReturnedFull, Zenon
<1>. QED BY <1>3, <1>5, <1>6

\* One iteration of deploy_cluster keeps the invariant: a script that
\* exits 0 is recorded, a missing one is skipped, and a failure or a
\* missing directory ends the step with False.
LEMMA DeployStepIInv ==
  ASSUME IInv, DeployStep
  PROVE  IInv'
<1> DEFINE s == DeployScripts[i]
           next == IF i < Len(DeployScripts)
                     THEN i' = i + 1 /\ UNCHANGED <<pc, exit, returned>>
                     ELSE StepReturned(TRUE)
<1>1. program = "full_install" /\ FullInv /\ pc = "Cluster"
  BY FullOnly, ListFacts DEF DeployStep
<1>2. /\ checksOk = 0 /\ allPassed /\ pc = BootSteps[3] /\ i \in 1..3
      /\ UNCHANGED <<machine, missing, allPassed, checksOk>>
      /\ missing \subseteq SeqSet(Prereqs) /\ ranOk \subseteq Files
  BY <1>1, ListFacts DEF IInv, TypeOK, FullInv, DeployStep, BootSteps
<1>3. \/ StepReturned(FALSE) /\ UNCHANGED ranOk
      \/ (ranOk' = ranOk \/ ranOk' = ranOk \cup {s}) /\ next
  BY DEF DeployStep, RunScript
<1>4. /\ 3 \in 1..4 /\ 3 \in 1..3 /\ 3 # 1 /\ 3 # 2 /\ 3 # 4 /\ 0 \in 0..NChecks
      /\ s \in Files
  BY <1>2, ListFacts DEF NChecks
<1>5. CASE StepReturned(FALSE) /\ UNCHANGED ranOk
  <2>1. ranOk \subseteq ranOk' /\ ranOk' \subseteq Files
    BY <1>2, <1>5
  <2>. QED BY <1>1, <1>2, <1>4, <1>5, <2>1, StepReturnedFull, Zenon
<1>6. CASE (ranOk' = ranOk \/ ranOk' = ranOk \cup {s}) /\ next
  <2>1. ranOk \subseteq ranOk' /\ ranOk' \subseteq Files
    BY <1>2, <1>4, <1>6
  <2>2. CASE i < 3
    <3>1. i' = i + 1 /\ UNCHANGED <<pc, exit, returned>>
      BY <1>6, <2>2, ListFacts
    <3>2. TypeOK'
      BY <1>2, <2>1, <2>2, <3>1, ListFacts DEF IInv, TypeOK, machine
    <3>3. FullInv'
      BY <1>1, <1>2, <2>1, <2>2, <3>1, ListFacts DEF FullInv, machine
    <3>. QED BY <1>1, <1>2, <3>2, <3>3 DEF IInv, machine
  <2>3. CASE i = 3
    <3>0. ~(i < Len(DeployScripts))
      BY <2>3, ListFacts
    <3>1. StepReturned(TRUE)
      BY <1>6, <3>0, Zenon
    <3>. QED BY <1>1, <1>2, <1>4, <2>1, <3>1, StepReturnedFull, Zenon
  <2>. QED BY <1>2, <2>2, <2>3
<1>. QED BY <1>3, <1>5, <1>6

\* One iteration of verify_installation keeps the invariant: all_passed
\* holds exactly while every check so far passed, and the step returns
\* all_passed after the third.
LEMMA VerifyCheckIInv ==
  ASSUME IInv, VerifyCheck
  PROVE  IInv'
<1>1. program = "full_install" /\ FullInv /\ pc = "Verification"
  BY FullOnly, ListFacts DEF VerifyCheck
<1>2. /\ pc = BootSteps[4] /\ i \in 1..3 /\ checksOk \in 0..(i - 1)
      /\ (allPassed => checksOk = i - 1)
      /\ UNCHANGED <<machine, missing, ranOk>>
      /\ missing \subseteq SeqSet(Prereqs) /\ ranOk \subseteq Files
  BY <1>1, ListFacts DEF IInv, TypeOK, FullInv, VerifyCheck, BootSteps
<1>3. PICK pass \in BOOLEAN :
        LET a == allPassed /\ pass IN
        /\ allPassed' = a
        /\ checksOk' = IF pass THEN checksOk + 1 ELSE checksOk
        /\ IF i < NChecks
             THEN i' = i + 1 /\ UNCHANGED <<pc, exit, returned>>
             ELSE StepReturned(a)
  BY DEF VerifyCheck
<1>4. /\ checksOk' \in 0..i
      /\ allPassed' \in BOOLEAN
      /\ (allPassed' => checksOk' = i)
  BY <1>2, <1>3 DEF IInv, TypeOK
<1>5. CASE i < 3
  <2>1. i' = i + 1 /\ UNCHANGED <<pc, exit, returned>>
    BY <1>3, <1>5 DEF NChecks
  <2>2. TypeOK'
    BY <1>2, <1>4, <1>5, <2>1, ListFacts DEF IInv, TypeOK, machine
  <2>3. FullInv'
    BY <1>1, <1>2, <1>4, <1>5, <2>1, ListFacts DEF FullInv, machine
  <2>. QED BY <1>1, <1>2, <2>2, <2>3 DEF IInv, machine
<1>6. CASE i = 3
  <2>1. StepReturned(allPassed')
    BY <1>3, <1>6 DEF NChecks
  <2>2. /\ 4 \in 1..4 /\ 4 # 1 /\ 4 # 2 /\ ~(4 \in 1..3)
        /\ checksOk' \in 0..NChecks /\ (allPassed' => checksOk' = NChecks)
    BY <1>4, <1>6 DEF NChecks
  <2>3. ranOk \subseteq ranOk' /\ ranOk' \subseteq Files /\ missing' \subseteq SeqSet(Prereqs)
    BY <1>2
  <2>. QED BY <1>1, <1>2, <1>4, <2>1, <2>2, <2>3, StepReturnedFull, Zenon
<1>. QED BY <1>2, <1>5, <1>6

\* A step of `mgn install` runs only outside full_install.
LEMMA LocalOnly ==
  ASSUME IInv, pc \in {"Install", "Local"}
  PROVE  program # "full_install" /\ LocalInv
BY ListFacts DEF IInv, FullInv

\* install keeps the invariant: install_local starts with its first
\* script, and only for the local type off macOS; the other branches
\* exit 0 without a script.
LEMMA InstallIInv ==
  ASSUME IInv, Install
  PROVE  IInv'
<1>1. program # "full_install" /\ LocalInv /\ pc = "Install"
  BY LocalOnly DEF Install
<1>2. i = 1 /\ exit = NoValue
  BY <1>1 DEF LocalInv
<1>3. /\ IF program = "local" /\ ~onMac
           THEN pc' = "Local" /\ UNCHANGED exit
           ELSE pc' = "Done" /\ exit' = 0
      /\ UNCHANGED <<machine, i, missing, allPassed, returned, ranOk, checksOk>>
  BY DEF Install
<1>4. Len(LocalSteps) >= 1
  BY LocalStepsFacts
<1>5. TypeOK'
  BY <1>3 DEF IInv, TypeOK, machine
<1>6. LocalInv'
  BY <1>1, <1>2, <1>3, <1>4 DEF LocalInv, machine, LocalSteps
<1>. QED BY <1>1, <1>3, <1>5, <1>6 DEF IInv, machine

\* One run_script call of install_local keeps the invariant: a script is
\* recorded only when it exits 0, and "Installation complete!" comes
\* after the last one of the list.
LEMMA LocalScriptIInv ==
  ASSUME IInv, LocalScript
  PROVE  IInv'
<1> DEFINE s == LocalSteps[i]
<1>1. program # "full_install" /\ LocalInv /\ pc = "Local"
  BY LocalOnly DEF LocalScript
<1>2. /\ program = "local" /\ ~onMac /\ exit = NoValue
      /\ i \in 1..Len(LocalSteps)
      /\ \A j \in 1..(i - 1) : LocalSteps[j] \in ranOk
      /\ s \in Files /\ Len(LocalSteps) <= 6
  BY <1>1, LocalStepsFacts DEF LocalInv, IInv, TypeOK
<1>3. UNCHANGED <<machine, missing, allPassed, returned, checksOk>>
  BY DEF LocalScript
<1>4. \/ pc' = "Done" /\ exit' = 1 /\ UNCHANGED <<i, ranOk>>
      \/ /\ ranOk' = ranOk \cup {s}
         /\ IF i < Len(LocalSteps)
              THEN i' = i + 1 /\ UNCHANGED <<pc, exit>>
              ELSE pc' = "Done" /\ exit' = 0 /\ UNCHANGED i
  BY DEF LocalScript
<1>5. LocalSteps' = LocalSteps
  BY <1>3 DEF LocalSteps, machine
<1>6. CASE pc' = "Done" /\ exit' = 1 /\ UNCHANGED <<i, ranOk>>
  <2>1. TypeOK'
    BY <1>3, <1>6 DEF IInv, TypeOK, machine
  <2>2. LocalInv'
    BY <1>3, <1>6 DEF LocalInv, machine
  <2>. QED BY <1>1, <1>3, <2>1, <2>2 DEF IInv, machine
<1>7. CASE ranOk' = ranOk \cup {s} /\ i < Len(LocalSteps)
             /\ i' = i + 1 /\ UNCHANGED <<pc, exit>>
  <2>1. TypeOK'
    BY <1>2, <1>3, <1>7, LocalStepsFacts DEF IInv, TypeOK, machine, LocalScripts
  <2>2. \A j \in 1..(i' - 1) : LocalSteps'[j] \in ranOk'
    BY <1>2, <1>5, <1>7
  <2>3. LocalInv'
    BY <1>1, <1>2, <1>3, <1>5, <1>7, <2>2 DEF LocalInv, machine
  <2>. QED BY <1>1, <1>3, <2>1, <2>3 DEF IInv, machine
<1>8. CASE ranOk' = ranOk \cup {s} /\ ~(i < Len(LocalSteps))
             /\ pc' = "Done" /\ exit' = 0 /\ UNCHANGED i
  <2>1. TypeOK'
    BY <1>2, <1>3, <1>8 DEF IInv, TypeOK, machine
  <2>2. SeqSet(LocalSteps') \subseteq ranOk'
    <3>1. i = Len(LocalSteps)
      BY <1>2, <1>8
    <3>. QED BY <1>2, <1>5, <1>8, <3>1 DEF SeqSet
  <2>3. LocalInv'
    BY <1>3, <1>8, <2>2 DEF LocalInv, machine
  <2>. QED BY <1>1, <1>3, <2>1, <2>3 DEF IInv, machine
<1>. QED BY <1>4, <1>6, <1>7, <1>8

\* No step of either installer leaves the invariant.
LEMMA NextIInv == IInv /\ [Next]_vars => IInv'
<1> SUFFICES ASSUME IInv, [Next]_vars PROVE IInv'
  OBVIOUS
<1>1. CASE CheckPrereq    BY <1>1, CheckPrereqIInv
<1>2. CASE Headscale      BY <1>2, HeadscaleIInv
<1>3. CASE DeployStep     BY <1>3, DeployStepIInv
<1>4. CASE VerifyCheck    BY <1>4, VerifyCheckIInv
<1>5. CASE Install        BY <1>5, InstallIInv
<1>6. CASE LocalScript    BY <1>6, LocalScriptIInv
<1>7. CASE UNCHANGED vars
  BY <1>7 DEF vars, machine, IInv, TypeOK, FullInv, LocalInv, LocalSteps, SeqSet
<1>. QED BY <1>1, <1>2, <1>3, <1>4, <1>5, <1>6, <1>7 DEF Next

\* A pair is the tuple of its two components.
LEMMA PairExt ==
  ASSUME NEW A, NEW B, NEW x \in A \X B
  PROVE  x = <<x[1], x[2]>>
OBVIOUS

\* Both installers keep every variable in its type: TypeOK holds in
\* every state.
THEOREM TypeOKHolds == Spec => []TypeOK
BY InitIInv, NextIInv, PTL DEF Spec, IInv

\* full_install exits 0 only after every prerequisite was found, the
\* Headscale script exited 0, all three kubectl checks passed and the
\* four steps returned True in order.
THEOREM FullInstallVerifiedHolds == Spec => []FullInstallVerified
<1>1. IInv => FullInstallVerified
  <2> SUFFICES ASSUME IInv, program = "full_install", exit = 0
               PROVE  /\ SeqSet(Prereqs) \subseteq installed
                      /\ HeadscaleScript \in ranOk
                      /\ checksOk = NChecks
                      /\ returned = [j \in 1..Len(BootSteps) |-> <<BootSteps[j], TRUE>>]
    BY DEF FullInstallVerified
  <2>1. /\ Len(returned) = 4
        /\ \A j \in 1..4 : returned[j][1] = BootSteps[j] /\ returned[j][2]
        /\ returned \in Seq(SeqSet(BootSteps) \X BOOLEAN)
    BY ListFacts DEF IInv, FullInv, TypeOK
  <2>2. \A j \in 1..4 : returned[j] = <<BootSteps[j], TRUE>>
    <3> TAKE j \in 1..4
    <3> DEFINE S == SeqSet(BootSteps)
    <3>1. returned \in Seq(S \X BOOLEAN) /\ j \in 1..Len(returned)
      BY <2>1
    <3>2. returned[j] \in S \X BOOLEAN
      BY <3>1
    <3>3. returned[j][1] = BootSteps[j] /\ returned[j][2] = TRUE
      BY <2>1
    <3>4. returned[j] = <<returned[j][1], returned[j][2]>>
      BY <3>2, PairExt
    <3>. QED BY <3>3, <3>4
  <2>3. DOMAIN returned = 1..4 /\ Len(BootSteps) = 4
    BY <2>1, ListFacts
  <2>4. returned = [j \in 1..Len(BootSteps) |-> <<BootSteps[j], TRUE>>]
    <3>1. returned = [j \in 1..4 |-> returned[j]]
      BY <2>1, <2>3
    <3>. QED BY <3>1, <2>2, <2>3, Zenon
  <2>. QED BY <2>1, <2>4 DEF IInv, FullInv
<1>. QED BY <1>1, InitIInv, NextIInv, PTL DEF Spec

\* `mgn install --type local` on Linux exits 0 only after every script of
\* install_local's list exited 0.
THEOREM LocalCompleteHolds == Spec => []LocalCompleteMeansAllRan
<1>1. IInv => LocalCompleteMeansAllRan
  BY DEF IInv, LocalInv, LocalCompleteMeansAllRan
<1>. QED BY <1>1, InitIInv, NextIInv, PTL DEF Spec

====
