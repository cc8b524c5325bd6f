------------------------------ MODULE Installer ------------------------------
(***************************************************************************)
(* The two installers of the Python package.                              *)
(*                                                                         *)
(* full_install (installer/bootstrap.py) runs install_dependencies,       *)
(* setup_headscale, deploy_cluster and verify_installation in order and   *)
(* stops at the first that returns False.  install_local (cli/install.py, *)
(* `mgn install`) runs six scripts through run_script, which aborts the   *)
(* command when a script is missing or exits non-zero.                    *)
(*                                                                         *)
(* The machine is fixed in the initial state: which prerequisites are     *)
(* installed, which script files exist, whether it is macOS.  What a       *)
(* script or a check command returns is chosen when it runs; a check       *)
(* that calls kubectl can only pass when kubectl is installed.            *)
(***************************************************************************)
EXTENDS Naturals, Sequences, FiniteSets

CONSTANT NoValue

\* None, the exit status while the installer runs, is not an exit code.
ASSUME NoValueAssumption == NoValue \notin {0, 1}

\* install_dependencies: the prerequisites, in dict order.
Prereqs == <<"Docker", "kubectl", "MicroK8s">>

\* deploy_cluster: its steps, in order.
DeployScripts == <<"microk8s-setup.sh", "rethinkdb-setup.sh", "deploy-operator.sh">>

HeadscaleScript == "headscale-bootstrap.sh"

\* verify_installation: three kubectl commands.
NChecks == 3

\* install_local: steps 1 to 5, then the verification script.
LocalScripts == <<"00-check-prereqs.sh", "01-install-microk8s.sh",
                  "02-setup-headscale.sh", "03-deploy-guildnet.sh",
                  "04-bootstrap-cluster.sh", "verify-all.sh">>

\* full_install: the steps list.
BootSteps == <<"Dependencies", "Headscale", "Cluster", "Verification">>

Programs == {"full_install", "local", "bare_metal", "dry_run"}

SeqSet(s) == {s[j] : j \in 1..Len(s)}

Files == SeqSet(DeployScripts) \cup {HeadscaleScript} \cup SeqSet(LocalScripts)

VARIABLES
  program,     \* full_install, or `mgn install` as local, bare-metal or dry run
  installed,   \* prerequisites whose check command exits 0
  present,     \* script files that exist
  scriptsDir,  \* bootstrap.py finds the GuildNet scripts directory
  onMac,       \* platform.system() == "Darwin"
  skipVerify,  \* --skip-verify
  pc,          \* the running step, or "Done"
  i,           \* index in the running step's loop
  missing,     \* install_dependencies' `missing`
  allPassed,   \* verify_installation's `all_passed`
  exit,        \* the process exit status (NoValue while it runs)
  returned,    \* ghost: <<step, result>> of each step of full_install
  ranOk,       \* ghost: scripts that ran and exited 0
  checksOk     \* ghost: verification checks that passed

machine == <<program, installed, present, scriptsDir, onMac, skipVerify>>
vars == <<machine, pc, i, missing, allPassed, exit, returned, ranOk, checksOk>>

\* The scripts install_local runs: the verification one unless skipped.
LocalSteps == IF skipVerify THEN SubSeq(LocalScripts, 1, 5) ELSE LocalScripts

Init ==
  /\ program \in Programs
  /\ installed \in SUBSET SeqSet(Prereqs)
  /\ present \in SUBSET Files
  /\ scriptsDir \in BOOLEAN
  /\ onMac \in BOOLEAN
  /\ skipVerify \in BOOLEAN
  /\ pc = IF program = "full_install" THEN "Dependencies" ELSE "Install"
  /\ i = 1
  /\ missing = {}
  /\ allPassed = TRUE
  /\ exit = NoValue
  /\ returned = << >>
  /\ ranOk = {}
  /\ checksOk = 0

(***************************************************************************)
(* full_install                                                            *)
(***************************************************************************)

\* full_install's loop after a step returned res: go on to the next step,
\* or stop with "Installation failed at" (exit 1) or "complete" (exit 0).
StepReturned(res) ==
  LET n == CHOOSE j \in 1..Len(BootSteps) : BootSteps[j] = pc IN
  /\ returned' = Append(returned, <<pc, res>>)
  /\ i' = 1
  /\ IF res /\ n < Len(BootSteps)
       THEN pc' = BootSteps[n + 1] /\ UNCHANGED exit
       ELSE pc' = "Done" /\ exit' = IF res THEN 0 ELSE 1

\* Mutant: `missing` re-initialised inside the loop, so only the last
\* prerequisite decides.
CheckPrereqLastOnly ==
  /\ pc = "Dependencies"
  /\ LET p == Prereqs[i]
         m == IF p \in installed THEN {} ELSE {p} IN
     /\ missing' = m
     /\ IF i < Len(Prereqs)
          THEN i' = i + 1 /\ UNCHANGED <<pc, exit, returned>>
          ELSE StepReturned(m = {})
  /\ UNCHANGED <<machine, allPassed, ranOk, checksOk>>

\* install_dependencies, one iteration of its loop: check_prerequisite
\* returns returncode == 0, or False on FileNotFoundError.  After the last
\* one the step returns `not missing`.
CheckPrereq ==
  /\ pc = "Dependencies"
  /\ LET p == Prereqs[i]
         m == IF p \in installed THEN missing ELSE missing \cup {p} IN
     /\ missing' = m
     /\ IF i < Len(Prereqs)
          THEN i' = i + 1 /\ UNCHANGED <<pc, exit, returned>>
          ELSE StepReturned(m = {})
  /\ UNCHANGED <<machine, allPassed, ranOk, checksOk>>

\* run_command(check=True) on a script: it exits 0 and the step goes on,
\* or it exits non-zero and the RuntimeError makes the step return False.
RunScript(s, cont) ==
  \/ ranOk' = ranOk \cup {s} /\ cont
  \/ StepReturned(FALSE) /\ UNCHANGED ranOk

\* setup_headscale: the directory and the script must exist.
Headscale ==
  /\ pc = "Headscale"
  /\ IF scriptsDir /\ HeadscaleScript \in present
       THEN RunScript(HeadscaleScript, StepReturned(TRUE))
       ELSE StepReturned(FALSE) /\ UNCHANGED ranOk
  /\ UNCHANGED <<machine, missing, allPassed, checksOk>>

\* deploy_cluster, one iteration of its loop (the first also checks the
\* directory).  A missing script is skipped with `continue`.
DeployStep ==
  /\ pc = "Cluster"
  /\ LET s == DeployScripts[i]
         next == IF i < Len(DeployScripts)
                   THEN i' = i + 1 /\ UNCHANGED <<pc, exit, returned>>
                   ELSE StepReturned(TRUE) IN
     IF i = 1 /\ ~scriptsDir THEN StepReturned(FALSE) /\ UNCHANGED ranOk
     ELSE IF s \notin present THEN next /\ UNCHANGED ranOk
     ELSE RunScript(s, next)
  /\ UNCHANGED <<machine, missing, allPassed, checksOk>>

\* Mutant: the loop test off by one, one check too many.
VerifyCheckOneMore ==
  /\ pc = "Verification"
  /\ \E pass \in IF "kubectl" \in installed THEN BOOLEAN ELSE {FALSE} :
       LET a == allPassed /\ pass IN
       /\ allPassed' = a
       /\ checksOk' = IF pass THEN checksOk + 1 ELSE checksOk
       /\ IF i <= NChecks
            THEN i' = i + 1 /\ UNCHANGED <<pc, exit, returned>>
            ELSE StepReturned(a)
  /\ UNCHANGED <<machine, missing, ranOk>>

\* verify_installation, one iteration of its loop: run_command(check=False)
\* on a kubectl command; a non-zero code or an exception (kubectl not
\* installed) clears all_passed.  After the last check it returns it.
VerifyCheck ==
  /\ pc = "Verification"
  /\ \E pass \in IF "kubectl" \in installed THEN BOOLEAN ELSE {FALSE} :
       LET a == allPassed /\ pass IN
       /\ allPassed' = a
       /\ checksOk' = IF pass THEN checksOk + 1 ELSE checksOk
       /\ IF i < NChecks
            THEN i' = i + 1 /\ UNCHANGED <<pc, exit, returned>>
            ELSE StepReturned(a)
  /\ UNCHANGED <<machine, missing, ranOk>>

(***************************************************************************)
(* mgn install                                                             *)
(***************************************************************************)

\* install: --dry-run lists the scripts (verify_scripts) and returns; the
\* bare-metal type prints a notice; install_local returns at once on
\* macOS.  Each of these exits 0.
Install ==
  /\ pc = "Install"
  /\ IF program = "local" /\ ~onMac
       THEN pc' = "Local" /\ UNCHANGED exit
       ELSE pc' = "Done" /\ exit' = 0
  /\ UNCHANGED <<machine, i, missing, allPassed, returned, ranOk, checksOk>>

\* Mutant: run_script without the returncode test.
LocalScriptIgnoresExit ==
  /\ pc = "Local"
  /\ LET s == LocalSteps[i] IN
     IF s \notin present
       THEN pc' = "Done" /\ exit' = 1 /\ UNCHANGED <<i, ranOk>>
       ELSE \E ok \in BOOLEAN :
              /\ ranOk' = IF ok THEN ranOk \cup {s} ELSE ranOk
              /\ IF i < Len(LocalSteps)
                   THEN i' = i + 1 /\ UNCHANGED <<pc, exit>>
                   ELSE pc' = "Done" /\ exit' = 0 /\ UNCHANGED i
  /\ UNCHANGED <<machine, missing, allPassed, returned, checksOk>>

\* install_local, one run_script call: a missing script or a non-zero
\* exit raises click.Abort (exit 1); after the last one it prints
\* "Installation complete!".
LocalScript ==
  /\ pc = "Local"
  /\ LET s == LocalSteps[i] IN
     IF s \notin present
       THEN pc' = "Done" /\ exit' = 1 /\ UNCHANGED <<i, ranOk>>
       ELSE \/ /\ ranOk' = ranOk \cup {s}
               /\ IF i < Len(LocalSteps)
                    THEN i' = i + 1 /\ UNCHANGED <<pc, exit>>
                    ELSE pc' = "Done" /\ exit' = 0 /\ UNCHANGED i
            \/ pc' = "Done" /\ exit' = 1 /\ UNCHANGED <<i, ranOk>>
  /\ UNCHANGED <<machine, missing, allPassed, returned, checksOk>>

Next == CheckPrereq \/ Headscale \/ DeployStep \/ VerifyCheck
          \/ Install \/ LocalScript

\* Every step is a subprocess that the code waits for without a timeout,
\* so nothing here is assumed fair.
Spec == Init /\ [][Next]_vars

(***************************************************************************)
(* Properties                                                              *)
(***************************************************************************)

TypeOK ==
  /\ program \in Programs
  /\ installed \subseteq SeqSet(Prereqs)
  /\ present \subseteq Files
  /\ pc \in SeqSet(BootSteps) \cup {"Install", "Local", "Done"}
  /\ i \in 1..Len(LocalScripts)
  /\ missing \subseteq SeqSet(Prereqs)
  /\ allPassed \in BOOLEAN
  /\ exit \in {NoValue, 0, 1}
  /\ returned \in Seq(SeqSet(BootSteps) \X BOOLEAN)
  /\ ranOk \subseteq Files
  /\ checksOk \in 0..NChecks

\* full_install reports "Installation complete!" (exit 0) only on a
\* machine with every prerequisite installed, after the Headscale script
\* ran and exited 0 and all three verification checks passed, each of the
\* four steps having returned True once, in order.
FullInstallVerified ==
  (program = "full_install" /\ exit = 0) =>
     /\ SeqSet(Prereqs) \subseteq installed
     /\ HeadscaleScript \in ranOk
     /\ checksOk = NChecks
     /\ returned = [j \in 1..Len(BootSteps) |-> <<BootSteps[j], TRUE>>]

\* `mgn install --type local` on Linux reports "Installation complete!"
\* only after every script of install_local, the verification one unless
\* --skip-verify, existed and exited 0.
LocalCompleteMeansAllRan ==
  (program = "local" /\ ~onMac /\ exit = 0) => SeqSet(LocalSteps) \subseteq ranOk
====
