# GuildNet operator tooling: TLA+ models

This directory holds TLA+ models of the Python tooling in `src/`: the
MetaGuildNet API client and its CLI (`src/metaguildnet/python/...`), the
runner script `src/MetaGuildNet/run.py`, and the dashboards. None of it
orchestrates anything itself. Every operation is an HTTP round trip to the
Host App, a separately deployed service that is not part of this
repository. The hard parts are therefore on the client side:

- how a response is classified into a result or an exception;
- how the polling loops decide between ready, failed, timed out and error;
- how the dashboard keeps a partial failure local while the service changes
  between its requests.

## The system's parts and how they interact

| Part | Source | What it does |
|---|---|---|
| Request layer | `api/client.py` `Client._request` and the `ClusterAPI`, `WorkspaceAPI`, `DatabaseAPI` and `HealthAPI` facades | Each call makes one httpx request with a timeout. The status is classified in this order: 404 is NotFound, 401 or 403 is Unauthorized, anything else ≥400 is APIError. A successful DELETE returns None. An empty body returns None. Any other body goes through `response.json()`, which raises on malformed JSON. The facades call `.get` on the decoded body, so a None body raises in the caller. |
| CLI wait | `cli/workspace.py` `wait_workspace` | Polls `get(name)` up to 60 times, 5 s apart. "Running" is success and "Failed" is an abort. The whole loop sits in one `try`, whose `except Exception` aborts. |
| Runner wait | `run.py` `_wait_for_workspace_ready` | `while waited < 120` it GETs `/api/servers/{id}` with requests and `timeout=10`. It returns True on a 200 answer with status "Running". Anything else is logged, then it sleeps 5 s and adds 5 to `waited`. After the loop it returns False. |
| CLI dashboard | `cli/viz.py` `viz`, `generate_dashboard` | A refresh lists the clusters, then queries each cluster's health in its own `try`, then lists the workspaces of the `--cluster` focus or of the first listed cluster. It hands the finished layout to rich's `Live`, sleeps and repeats until Ctrl-C. |
| Runner workflow | `run.py` `main`, `run_full_workflow` and the step functions | `main` picks a workflow. The full one runs setup, verification, testing, examples, diagnostics and cleanup in that order and stops at the first step that returns False. All steps except examples run `make` targets through `_run_command`, a subprocess with a timeout. The examples step POSTs `/api/jobs` to create workspaces and waits for them. The comprehensive variant first checks `/healthz` and afterwards lists `/api/servers`. |
| Installers | `installer/bootstrap.py` `full_install`, `cli/install.py` `install` | `full_install` checks the prerequisites, runs the Headscale script, runs the deployment scripts and runs three kubectl checks, stopping at the first step that fails. `mgn install` runs six scripts through `run_script`, which aborts on a missing script or a non-zero exit. On macOS it prints alternatives and returns. |
| Resource commands | `cli/cluster.py`, `cli/workspace.py` (list, create, delete, logs), `cli/database.py`, `cli/main.py` | Each `mgn` command makes one or two requests through the client and exits 1 on any exception. `cluster bootstrap` POSTs the kubeconfig, then PUTs the name as a setting. `workspace create` and `delete` first look the workspace up. |
| Configuration | `config/manager.py` `ConfigManager.load`, `cli/main.py` `cli` | `load` starts from built-in defaults, deep-merges the YAML file and applies `MGN_API_URL`, `MGN_API_TOKEN` and `MGN_DEFAULT_CLUSTER`. `cli` then applies `--api-url` and `--token` and builds the `Client`. |
| Terminal dashboard | `visualizer/dashboard.py` `Dashboard` | `run` enters rich's `Live` with a layout and then, until Ctrl-C, rebuilds its six panels in place, one after the other, and sleeps. Live's own thread draws that layout once a second. `--snapshot` builds the panels once and prints them. |
| Host App | not in this repository | The service owns the clusters, workspaces and health. It changes them at any time, and it may be unreachable. |

Data flows one way: a caller (CLI, dashboard or runner) calls the request
layer, and the request layer talks to the Host App. Errors come back as
exceptions, and each caller either aborts, logs, or degrades a panel.

## Modules

| Module | Models | State | Actions |
|---|---|---|---|
| `Http` | what a response looks like to the client | — | constructors `Answer`, `EmptyAnswer`, `BadAnswer`, `NoAnswer` (status 0 is the transport failure) |
| `ApiClient` | `Client._request` | — | operator `Request(method, resp)`, which gives `Returned(v)` or `Raised(kind)` |
| `HostApp` | the service's workspaces (environment) | `ws`: workspace to status or Absent; `up` | `Create`, `Schedule`, `Crash`, `Remove`, `Flap`; `WorkspaceResponses(n)` is the set of answers a GET may get |
| `HostClusters` | the service's clusters (environment) | registry (in listing order), reachability, servers per cluster, `svcUp` | `Register`, `FlipReachable`, `ToggleServer`, `FlapService`; the answer sets for the list, health and server GETs |
| `WorkspaceWait` | `wait_workspace` | `polls`, `outcome`, ghost `observed` (the results, in order) | `Poll`: one loop iteration, the GET included |
| `RunnerWait` | `_wait_for_workspace_ready` | `waited`, `verdict`, `jsonErrorCaught`, ghost `observed` | `Poll`: one loop iteration |
| `VizDashboard` | `viz` and `generate_dashboard` | `focus` (the `--cluster` option), `pc`, `building` (the layout being built), `shown` (what `Live` displays) | `ListClusters`, `CheckHealth` (one iteration of the per-cluster loop), `ListWorkspaces`, `Wake`, `Interrupt` |
| `RunnerWorkflow` | `main`, `run_full_workflow`, `run_setup` … `run_cleanup`, `run_examples` and the examples | the workflow, the loaded config's flags, `pc`, the step index `k`, `success` (`ok`), the basic example's `job`, the multi-user loop's `u`, `created`, `w`, `ready`, the exit code; ghosts `ran` (what each step returned), `issued` (ids the service created), `sawRunning`, `crashed` | `Start` (the logging-level assignment), one action per step function, `ExamplesStart`, `Health`, `BasicPost`, `BasicWait`, `Status`, `MultiPost`, `MultiWait` (one iteration each), `Interrupt`; the service's steps come from `HostApp` |
| `Installer` | `full_install` and its four steps; `install`, `install_local`, `run_script` | the machine (installed prerequisites, present scripts, scripts directory, macOS, `--skip-verify`), `pc`, the loop index `i`, `missing`, `all_passed`, the exit code; ghosts `returned`, `ranOk`, `checksOk` | `CheckPrereq`, `Headscale`, `DeployStep`, `VerifyCheck` (one loop iteration each), `Install`, `LocalScript` |
| `ResourceCli` | the `mgn cluster`, `workspace` and `db` commands | the service's clusters, their names and settings, databases, tables and row counts; `pc`, the `pending` id, the command and its exit code; ghost `did` (the command's effect happened) | one action per command, `BootstrapPost` and `BootstrapPut` for the two requests of `cluster bootstrap`; the workspace service's steps come from `HostApp` |
| `ConfigResolve` | `ConfigManager.load` and `cli` | the inputs (the file's YAML value, three variables, two flags), `pc`, the dictionary `cfg`, the `client` | `LoadDefaults`, `MergeFile`, `ApplyEnv`, `MainOverrides`, `MakeClient`; `Merge` is `_merge`, written as a recursive operator |
| `TermDashboard` | `Dashboard.run`, `snapshot`, `update_layout` and the builders | the mode, `up`, `running`, `pc`, the next slot `i`, the shared `layout`, the frame `shown` | `Start`, `UpdatePanel` (one `layout[...].update` call), `Wake`, `Render` (Live's thread), `SnapshotPrint`, `Interrupt`, `Flap` |
| `WaitContract` | what either wait promises its caller (abstract) | `seen` (what each poll saw: Running, Fatal or Other), `result` | `See(x)`: one poll, decided by `Decide(x, n)` against `Budget` |
| `HostApp_proofs` | lemmas about `HostApp` shared by the proofs | | |
| `WorkspaceWait_proofs` | proofs about `WorkspaceWait` | | |
| `RunnerWait_proofs` | proofs about `RunnerWait` | | |
| `ResourceCli_proofs` | proofs about `ResourceCli` | | |
| `VizDashboard_proofs` | proofs about `VizDashboard` | | |
| `RunnerWorkflow_proofs` | proofs about `RunnerWorkflow`: the order of the steps | | |
| `RunnerExamples_proofs` | proofs about `RunnerWorkflow`: what the examples step's success rests on | | |
| `Installer_proofs` | proofs about `Installer` | | |
| `MC_*` | the TLC instances | | |

Modelling choices:

- **Data.** Bodies are abstracted to their kind (empty, malformed, JSON) plus
  the one value the caller reads: a status string, a cluster list, a
  reachability flag or a set of server names.
- **Environment.** Every request is an atomic step of its own, and the
  service's steps may fall between any two of them.
- **Undefined inputs are initial choices.**
  - `jsonErrorCaught` is the installed requests version. Its
    `JSONDecodeError` is a `RequestException` only from 2.27 on.
  - `focus` is the command-line option.
  - The runner's configuration is one of a few flag sets (`Configs`). The
    MC module picks the default one plus configurations that reach the
    multi-user, dev-mode and missing-logging paths.
  - The installer's machine is chosen in the initial state: every subset
    of installed tools and present script files.
- **YAML values** are tagged records (mapping, string, integer, null,
  list). The model tries 220 files: none, empty, a list, a bare string, and
  mappings whose sections are mappings, null or strings. Strings are TLA+
  strings, and `rstrip("/")` is computed on them.
- **Client attributes.** The terminal dashboard's calls are resolved
  against what `Client` really has: the methods `workspaces` and
  `databases`, and the attributes `clusters` and `health`, which are
  objects rather than methods.
- **Subprocesses.** A `make` target or a shell script is opaque. Its exit
  status is chosen when it runs, and `run_command` and `run_script` are
  modelled by what they do with it.
- **The runner's wait is one step.** The runner's wait returns True only
  while the service reports the workspace Running. It may return False at
  any time. It may crash when requests is older than 2.27. This is what
  `RunnerWait` establishes loop iteration by loop iteration.

## Runs

| Run | Config | Checks | Result |
|---|---|---|---|
| `workspace_wait` | `WorkspaceWait.cfg` | `TypeOK`, `VerdictMatchesHistory`, `ImplementsWaitContract`, `WaitTerminates` | pass |
| `workspace_wait_transport` | `WorkspaceWait_transport.cfg` | `TransportErrorNotFatal` | violation |
| `runner_wait` | `RunnerWait.cfg` | `TypeOK`, `RunnerVerdictMatchesHistory`, `RunnerImplementsWaitContract`, `RunnerWaitTerminates` | pass |
| `runner_wait_failed` | `RunnerWait_failed.cfg` | `NoPollAfterFailed` | violation |
| `viz_dashboard` | `VizDashboard.cfg` | `TypeOK`, `PartialFailureIsolated`, `RefreshCompletes` | pass |
| `runner_workflow` | `RunnerWorkflow.cfg` | `TypeOK`, `StepsInOrder`, `ExamplesBacked`, `WorkflowEnds` | pass |
| `runner_workflow_untracked` | `RunnerWorkflow_untracked.cfg` | `IssuedAreTracked` | violation |
| `installer` | `Installer.cfg` | `TypeOK`, `FullInstallVerified`, `LocalCompleteMeansAllRan` | pass |
| `resource_cli` | `ResourceCli.cfg` | `TypeOK`, `SuccessMeansPerformed` | pass |
| `config_resolve` | `ConfigResolve.cfg` | `TypeOK`, `MergeMatchesReference`, `ClientFromPrecedence`, `CrashIffMalformed` | pass |
| `term_dashboard` | `TermDashboard.cfg` | `TypeOK` | pass |
| `term_dashboard_partial` | `TermDashboard_partial.cfg` | `NoPartialFrame` | violation |

What the properties say:

- **`VerdictMatchesHistory`**: the CLI wait's verdict is the one its history
  of results dictates.
  - Every poll but the last saw a non-terminal status.
  - Ready and Failed report the status the last poll saw.
  - Error follows a poll that raised or returned None.
  - TimedOut comes only after exactly `MaxPolls` non-terminal polls.
- **`RunnerVerdictMatchesHistory`**: the same for the runner, including how
  `waited` counts the sleeps.
  - True is returned exactly on a Running answer.
  - False comes only after `ceil(MaxWait / Interval)` polls.
  - A crash (a non-JSON 200 with an old requests) happens only on the last
    poll.
- **`ImplementsWaitContract`** and **`RunnerImplementsWaitContract`**:
  both waits implement `WaitContract`, fairness included. The refinement
  mapping turns the ghost history into what each poll saw and the verdict
  into the contract's result.
  - For `WorkspaceWait`, a Running result is Running. A result that keeps
    the loop going (a non-terminal status) is Other. Everything else is
    Fatal: Failed, an exception or None.
  - For `RunnerWait`, a crash is Fatal, a Running answer is Running, and
    every other answer is Other. The budget is `ceil(MaxWait / Interval)`.
  - A loop that polls once more than its budget, or that treats Failed
    as a reason to go on, violates it.
- **`PartialFailureIsolated`**: in the layout `Live` shows, a cluster list
  that succeeded has one row per listed cluster, in list order, whatever the
  health queries did. The error panel and the "Cannot load workspaces"
  panel appear exactly when the list failed.
- **`StepsInOrder`**: the steps that returned are a prefix of the
  workflow's list, and all but the last returned True. The step running now
  is the next one. `main` returns 0 only when every step returned True, and
  1 only after a False result or an uncaught exception.
- **`ExamplesBacked`**: the examples step returns True only for a workspace
  this run created and saw Running. For the basic example that is its
  workspace. For the multi-user example it is at least one of its
  workspaces.
- **`FullInstallVerified`**: `full_install` exits 0 only when:
  - every prerequisite is installed;
  - the Headscale script exited 0;
  - all three checks passed;
  - the four steps returned True, in order.
- **`LocalCompleteMeansAllRan`**: `mgn install` on Linux prints
  "Installation complete!" only after each of its scripts existed and
  exited 0. The verification script counts unless `--skip-verify` is given.
- **`SuccessMeansPerformed`**: a mutating command (other than bootstrap)
  exits 0 only when its effect happened at the service. This must hold
  under refusals, lost answers, malformed bodies and a workspace that
  appears or vanishes between the lookup and the request.
- **`MergeMatchesReference`**: after the file is merged, each section is
  what a deep merge gives. The result is stated path by path, without
  recursion:
  - a section the file gives as a mapping holds the file's keys over the
    defaults;
  - a section the file gives as anything else is replaced by it;
  - every other section keeps its defaults.
- **`ClientFromPrecedence`**: the client's URL and token come from the
  first of these that is set:
  - the flag;
  - the variable (an empty one counts as unset);
  - the file;
  - the default.

  The URL loses its trailing slashes.
- **`CrashIffMalformed`**: startup fails exactly when one of these holds:
  - the file is not a mapping (an empty file is fine);
  - its `api` section is not a mapping;
  - its `base_url` is not a string, and no flag or variable replaces it;
  - its `defaults` section is not a mapping, and `MGN_DEFAULT_CLUSTER`
    writes into it.

  A malformed `logging` section is harmless.
- **`WaitTerminates`, `RunnerWaitTerminates`, `RefreshCompletes` and
  `WorkflowEnds`**: every wait, every refresh and every runner invocation
  ends.

The violation runs are findings. The first two are places where the code
disagrees with `spec.md` section 4.4:

- **`workspace_wait_transport`.** The CLI wait aborts on a single poll that
  could not reach the service. The spec says a transport error during
  polling is ignored.
- **`runner_wait_failed`.** The runner never recognises "Failed". It polls
  on until `max_wait` and reports a timeout.

The other two are bugs the model checker finds by interleaving steps:

- **`runner_workflow_untracked`.** The service may create the workspace
  while the 202 answer to the POST is lost. The runner then reports the
  creation as failed and never waits for the workspace. In the multi-user
  example it may log "No workspaces created" while a workspace runs.
- **`term_dashboard_partial`.** `Live` draws `create_layout`'s placeholders
  before the first `update_layout`. Its thread also draws the layout while
  the panels are being replaced one by one. Spec sections 4.5 and 5 say the
  snapshot is replaced atomically and rendered only after a full cycle.

Four more faults came up while writing the models. Each one is a single
missing check that can be read off the code, so no run states it. The
first, second and fourth are also hazards in `PROJECT.json`:

- `deploy_cluster` skips a missing script with `continue`. It still prints
  "GuildNet deployment complete" when none of its scripts exist.
- `cluster bootstrap` prints "Cluster bootstrapped" and exits 0 when the
  POST's answer has no id (the client returns ""). Spec section 4.3 says
  the caller must check the id for emptiness.
- `cli()` builds the client without the configured `api.timeout`.
- The terminal dashboard calls `list_clusters`, `list_workspaces` and
  `health()`, which `Client` does not have (or cannot call). So in every
  run of `TermDashboard`, every data panel is an error panel.

### Bounds

- **Workspace waits.**
  - There is one workspace, since the loops poll only their target.
  - `MaxPolls = 3` covers timeouts after several polls.
  - `MaxWait = 10` with `Interval = 5` is the spec's own property 7. The
    runner makes two polls and no third, and an off-by-one in the loop test
    changes that number.
  - The fault answers are a 500, a 401, an empty 200 and a malformed 200.
    They hit every branch of `_request` except 404, which `WorkspaceResponses`
    produces for an absent workspace.
- **Dashboard.**
  - Two clusters, so a failing health query has a neighbour to keep.
  - One server name.
  - Faults are a 500 and an empty 200.

- **Runner.**
  - Two workspace ids and two users. That is enough for the multi-user
    example to create one workspace and lose the other.
  - The POST faults are a 500, a 202 without an id and a 202 that is not
    JSON. Each one leaves a different branch of the POST handling.
  - The workflows are `full` and `example`.
- **Resource commands.** Two cluster ids, one workspace, one database,
  `MaxRows = 2`. The faults are a 500 and a 401, and refusals all have a
  status ≥400 (`RefusalsAssumption`).
- **Configuration.** No bound is needed. The inputs are all combinations
  of the 220 files, three values for each URL and token variable (unset,
  empty, set), and the flags given or not: 15,840 initial states.
- **Terminal dashboard.** The six slots and both modes. The service's only
  state that matters is whether it is up.
- **Installer.** No bound is needed. Every subset of tools and script
  files is an initial state, which gives 789k states.

### Fairness

Every request of these loops has a timeout (httpx `timeout=30` in
`Client`, requests `timeout=10` in the runner), and every `time.sleep`
returns. So each loop's own step is weakly fair (`WF_vars(Poll)`,
`WF_vars(VizStep)`). The service is given no fairness: it may flap forever.
Ctrl-C (`Interrupt`) is the user's choice and is not fair either. The
runner also sets a timeout on each subprocess and request, so
`WF_vars(RunnerStep)` holds.

The terminal dashboard model assumes no fairness and checks no liveness.
Every builder fails before it makes a request, so its loop has nothing
that could stall, and a liveness property there would say nothing about
the code.

A resource command or the configuration step runs once. Neither model
assumes fairness or checks liveness. After a command, `ResourceCli` can
always start another one. Startup's final state has no successor, so
`ConfigResolve.cfg` says `CHECK_DEADLOCK FALSE`.

The installers call `subprocess.run` without a timeout, so their
termination rests on the shell scripts. The installer model assumes no
fairness and checks no liveness. Its final state has no successor,
because the process exits, so its cfgs say `CHECK_DEADLOCK FALSE`.

## Proofs

The proofs hold for every value of the constants that satisfies the
named assumptions of the modules. These are `FaultsAssumption` (fault
answers are well-formed responses), `MaxPollsAssumption`,
`MaxWaitAssumption` and `IntervalAssumption` (positive integers),
`RefusalsAssumption` (every fault answer has an error status),
`TargetAssumption` and `RunnerTargetAssumption` (the awaited workspace is
one of the modelled ones), `NoValueAssumption` (None is not a command
name), `NoneAssumption` (None is not a workspace status),
`ClusterFaultsAssumption` (a fault answer to a cluster request has an
empty or a non-JSON body), `NoneNotListAssumption` (None is not a
cluster list), `UsersAssumption` (the runner's users are a non-empty
sequence), `WorkflowsAssumption` (every workflow is a key of
`workflow_map`), `ExitAssumption` (None, the exit value while
`main()` runs, is not an exit status) and the installer's
`NoValueAssumption` (None, the exit status while an installer runs, is
neither 0 nor 1).

`HostApp_proofs` holds what the proofs of the client loops share:

- `HostInitType` and `HostNextType`: the service's steps keep its state
  well typed;
- `WorkspaceResponsesType`: every answer to the GET of a workspace is a
  well-formed response.

`WorkspaceWait_proofs` proves, for every `MaxPolls`, every set of
workspaces and every set of well-formed fault answers:

- `TypeCorrect`: `Spec => []TypeOK`;
- `VerdictMatchesHistoryHolds`: `Spec => []VerdictMatchesHistory`.

Neither invariant is inductive on its own. A poll keeps `polls` within
`0..MaxPolls` only because the loop is still waiting, and that is what the
history invariant says of `outcome = "Waiting"`. The history invariant in
turn needs the types of the results. So the proof shows
`IInv == TypeOK /\ VerdictMatchesHistory` inductive:

- `InitIInv`: the initial states satisfy it.
- `PollIInv`: a poll preserves it. The proof has one step for each
  conjunct, and uses the lemma `VerdictCases` (what each verdict implies
  about the result) and `RequestType`.
- `HostIInv` and `StutterIInv`: the service's steps and stuttering preserve
  it.

Both theorems then follow by PTL.

`RunnerWait_proofs` proves, for every `max_wait`, every `interval` and
every behaviour of the service, `RunnerTypeCorrect` and
`RunnerVerdictMatchesHistoryHolds`.

- `RunnerVerdictMatchesHistory` speaks only of the polls before the last.
- To extend the history, a poll must also know that the last poll went
  on: it was neither Running nor a crash.
- The inductive invariant adds exactly that (`LastPollWentOn`).
- The lemma `BudgetReached` is the arithmetic of the timeout. When `k`
  sleeps stay below `max_wait` and `k + 1` reach it, `k + 1` is
  `ceil(max_wait / interval)`. It goes through the characterization of
  `\div`.
- `PollIInv` has one case each for a crash, a Running answer and an
  answer after which the loop goes on. The last case has one step per
  conjunct.

Both wait modules also prove that they refine the safety part of
`WaitContract`: `RefinesContract` and `RunnerRefinesContract`,
`Spec => Contract!SafeSpec`. The proofs follow the usual two steps.

- `InitContract`: an initial state maps to the contract's initial state.
- `PollContract`: under the wait's inductive invariant, a poll maps to
  one `See` step. The poll appends one sight to the mapped history, and
  the new result is `Decide` of that sight and the new length.
  - For `WorkspaceWait` this is the lemma `VerdictRefines`, with one case
    per kind of result.
  - For `RunnerWait`, a poll after which the loop goes on needs the
    arithmetic of the budget. `BudgetReached` covers the last poll and
    `BudgetNotReached` covers the earlier ones.
- `OtherContract`: the service's steps and stuttering leave the mapped
  variables alone.

`ResourceCli_proofs` proves `SuccessMeansPerformedHolds`:
`Spec => []SuccessMeansPerformed`, for every set of cluster ids, database
ids, every row bound and every set of fault answers with error statuses.

- The invariant is inductive as it stands. Every command sets `cmd`,
  `exit` and `did` together, and every other step leaves them alone.
- The argument rests on `UnperformedRaises`. `Client._request` raises on
  every answer of a request the service did not perform: no answer, a
  refusal, a 404 or a 409.
- There is one lemma per mutating command (`ClusterUpdateSafe` …
  `DbInsertSafe`). Each splits on whether its argument parsed and then
  on whether the service performed the request.
- `ReadOnlyCmd` and `BootstrapCmd` show that the other commands end as a
  command the claim is not about, or leave the outcome alone.

It also proves `TypeOKHolds`: `Spec => []TypeOK`, for the same instances
and every `MaxRows` in `Nat`. `TypeOK` is inductive as it stands, and it
says more than types.

- A table exists only in a database that exists (`tables \subseteq dbs`).
  `db table create` succeeds only on an existing database.
- Settings are stored only for a registered cluster
  (`configured \subseteq clusters`). `PutSettingsType` shows that a PUT
  to any other id, the empty one included, is a 404.
- `db insert` stops at `MaxRows`.
- Bootstrap's pending id is a cluster id, or the `""` default of
  `ClusterAPI.bootstrap`.
- There is one lemma per command (`ReadOnlyType`, `BootstrapPostType` …
  `DbInsertType`). `EnvType` covers the service's own steps, using
  `HostNextType` of `HostApp_proofs`.

`VizDashboard_proofs` proves `PanelsConsistent`:
`Spec => []PartialFailureIsolated`.
It holds for every set of clusters and workspaces and every set of fault
answers without data.

- The invariant speaks only of the layout `Live` shows. It holds because
  a layout is published only from states where the layout being built
  already fits.
- `IInv` also carries `WorkspacePanelMatchesClusters`, defined in the
  proof module: the shown workspaces panel belongs to the focus or to the
  first cluster of that layout's own list. It is not a checked property,
  since it restates `WsCluster` on a layout that is local to one refresh.
- The inductive invariant `IInv` says what the half-built layout is like
  at each stage.
  - In the health loop (`HealthInv`), the list succeeded, and the rows are
    those of a proper prefix of the listed clusters.
  - Before the workspaces query (`ReadyInv`), the clusters panel is final.
    An empty list gets there only with `--cluster`, and a table has a
    first cluster and one row per listed cluster.
- `ListAnswer` is what the assumptions on fault answers give. A listed
  value is None or the registry itself, so a non-empty list is a
  sequence of cluster ids.
- There is one lemma per step of the loop (`ListClustersIInv`,
  `CheckHealthIInv`, `ListWorkspacesIInv`) and one for the steps that
  publish nothing (`OtherStepsIInv`).

`RunnerWorkflow_proofs` proves `StepsInOrderHolds`:
`Spec => []StepsInOrder`. It holds for every list of users, every set of
configurations, workflows and workspaces, and every set of fault answers
to `POST /api/jobs`.

- `StepsInOrder` alone is not inductive. The inductive invariant `IInv`
  is `CoreInv /\ UserInv`.
  - `CoreInv` ties `k` to the number of steps that returned, and says
    that `exit` is None while a step runs and every step so far returned
    True.
  - `UserInv` is needed because the examples step is several actions.
    The index `u` of the multi-user loop leaves 1 only once the examples
    step has begun, and it stays within the list of users.
- The workflow lists have no repeated step (`StepsDistinct`). With `u`,
  this shows that the examples step is never entered a second time, so a
  step's result is recorded once.
- There is one lemma per action. `StepDoneIInv`, `StayIInv` and
  `UncaughtIInv` carry what the common shapes of a step share: a step
  that returns, a move inside the examples step, and an uncaught
  exception.

`RunnerExamples_proofs` proves `ExamplesBackedHolds`:
`Spec => []ExamplesBacked`. It holds for the same instances as
`StepsInOrderHolds`. It rests on `IInv` and on a second invariant, `BInv`,
which TLC checked first on two and on three users. `BInv` is proved to
hold after every step from `IInv /\ BInv`, using `NextIInv`.

- `BInv` records where the evidence for a success sits while the
  examples step runs.
  - The wait loop starts at `w = 1` with `ready_count` 0.
  - While the loop runs, `ready_count > 0` only when a workspace among
    those waited for so far was seen Running.
  - At `_show_current_workspace_status`, the basic example's workspace
    has been seen Running.
  - `success` is still True at the multi-user example only when the
    create branch saw its workspace Running, or made none.
- A recorded success stays backed afterwards. Only the examples step
  sets `job` and `created`, and the examples step is not entered again,
  which is what `IInv` gives. `sawRunning` only grows.
- `ReadySeen` gives that a wait returns True only when the service
  reports the workspace Running. `JobDataVal` bounds what
  `.get('id')` can append to `created_workspaces`.

`Installer_proofs` proves `TypeOKHolds`, `FullInstallVerifiedHolds` and
`LocalCompleteHolds`: `Spec => []TypeOK`, `Spec => []FullInstallVerified`
and `Spec => []LocalCompleteMeansAllRan`. They hold on every machine
(any installed prerequisites, present scripts, platform and
`--skip-verify`) and for every exit status of every script and check.
TLC's run covers the same instances; the proof gives the argument.

- Neither property is inductive: an exit 0 depends on what every earlier
  step left behind. The inductive invariant `IInv` is
  `TypeOK /\ FullInv /\ LocalInv`, each half guarded by the program.
  TLC checked it on the installer run first.
  - `FullInv`: the steps that returned are a prefix of `BootSteps`, all
    True but perhaps the last, and the running step is the next one. A
    step that returned True left its evidence: every prerequisite
    installed, the Headscale script in `ranOk`, three passed checks.
    Inside install_dependencies, `missing` is the set of prerequisites
    checked so far that are not installed. Inside verify_installation,
    `all_passed` means every check so far passed, and no check ran
    before that step.
  - `LocalInv`: install_local starts only for the local type off macOS,
    at its first script, and every script before the running one exited
    0.
- `StepReturnedShape` resolves the `CHOOSE` of full_install's loop. The
  steps are distinct, so it finds the running step at its own index.
  `StepReturnedFull` then shows that every end of a step keeps
  `FullInv`, given what that step guarantees. Each of the four
  full_install lemmas (`CheckPrereqIInv` … `VerifyCheckIInv`) reduces
  its finishing iteration to it.
- `InstallIInv` and `LocalScriptIInv` cover `mgn install`. For the
  final conclusion, `PairExt` turns the recorded pairs into the tuple
  literal of `FullInstallVerified`.

What stays with TLC:

- the liveness properties (`WaitTerminates` and the others), and the
  fairness half of the two refinements (`Contract!Spec` includes
  `WF_vars(Next)`), since the prover does not handle fairness or ENABLED;
- `VizDashboard`'s `TypeOK` and its liveness, the terminal dashboard,
  and the runner workflow's `TypeOK` and `WorkflowEnds`;
- the configuration's properties;
- what a recursive definition such as `Merge` computes for every input.
  `ConfigResolve` checks it against the path-by-path reference over the
  220 files. The module declares RECURSIVE operators, so no theorem can
  live in it or in a module that uses it.

## Not modelled

See `PROJECT.json` (components) for the list and the reasons. In short:

- `cli/verify.py` relays shell scripts' output and always exits 0;
- `ConfigManager.save`, which nothing calls;
- `validate.py` checks files, and `visualize.py` renders reports. Both
  take their inputs from files on disk and have no control state beyond
  a pass/fail count. One observation is recorded as a hazard:
  `validate.py --quick` never calls `sys.exit`, so it exits 0 even when
  checks fail;
- terminal rendering and wording are left out everywhere.
