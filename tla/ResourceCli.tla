----------------------------- MODULE ResourceCli -----------------------------
(***************************************************************************)
(* The one-shot commands of the `mgn` CLI: `cluster list|get|status|       *)
(* bootstrap|update` (cli/cluster.py), `workspace list|create|delete|logs` *)
(* (cli/workspace.py) and `db list|create|table create|query|insert`       *)
(* (cli/database.py).  A user runs them one after the other against the    *)
(* Host App.  Each command makes its request through the facade of         *)
(* api/client.py (ApiClient!Request), uses what it returned, and ends with *)
(* exit 0 or with click.Abort (exit 1) from its `except Exception`.        *)
(*                                                                         *)
(* The service performs a mutating request and answers it (the answer may  *)
(* still come back empty or not at all), or refuses it without effect.     *)
(* The workspace and database commands address the one cluster whose       *)
(* workspaces HostApp models; other users change those workspaces between  *)
(* any two commands.                                                       *)
(***************************************************************************)
EXTENDS Naturals, ApiClient, HostApp

CONSTANTS
  ClusterIds,  \* ids the service may give a bootstrapped cluster
  DbIds,       \* ids the service may give a database
  MaxRows      \* bound on the rows of the table the user inserts into

ASSUME MaxRowsAssumption == MaxRows \in Nat

\* A request the service refuses gets an error status.
ASSUME RefusalsAssumption == \A f \in FaultResponses : f.status >= 400

\* A JSON object without the field the caller reads (clusterId).
NoId == "NoId"

VARIABLES
  clusters,    \* the registered clusters
  configured,  \* clusters whose settings a PUT has stored
  dbs,         \* the databases of the cluster
  tables,      \* the databases that hold the table the user works with
  rows,        \* the rows of that table
  pc,          \* "Idle", or "BootstrapPut" between bootstrap's two requests
  pending,     \* the cluster_id bootstrap printed, for its PUT
  cmd,         \* ghost: the last command
  exit,        \* its exit status (NoValue before the first command)
  did          \* ghost: the service performed the last command's mutation

serviceVars == <<clusters, configured, dbs, tables, rows>>
cliVars == <<pc, pending, cmd, exit, did>>
vars == <<hostVars, serviceVars, cliVars>>

Commands == {"cluster list", "cluster get", "cluster status", "cluster bootstrap",
             "cluster update", "workspace list", "workspace create",
             "workspace delete", "workspace logs", "db list", "db create",
             "db table create", "db query", "db insert"}

\* Mutant: a 404 taken as success, as an idempotent delete would.
OkOrNotFound(res) == res.kind \in {"Ok", "NotFound"}

\* The call returned normally.
Ok(res) == res.kind = "Ok"

\* The call returned a value the command then calls .get on or iterates:
\* None (an empty body) raises AttributeError or TypeError.
Uses(res) == Ok(res) /\ res.val # NoValue

\* The answers to a request the service performed with answer a: a itself,
\* the same status with an empty or a malformed body, or none (the
\* client's timeout).
Acked(a) == {a, EmptyAnswer(a.status), BadAnswer(a.status), NoAnswer}

\* The answers to a request the service refused or never received.
Refused == IF up THEN FaultResponses ELSE {NoAnswer}

\* The answers to a read: the normal one a, or a refusal.
Read(a) == IF up THEN {a} \cup FaultResponses ELSE {NoAnswer}

\* A command ends: click.Abort is exit 1.
Finish(c, e, d) ==
  /\ cmd' = c
  /\ exit' = e
  /\ did' = d

Init ==
  /\ HostInit
  /\ clusters = {}
  /\ configured = {}
  /\ dbs = {}
  /\ tables = {}
  /\ rows = 0
  /\ pc = "Idle"
  /\ pending = NoValue
  /\ cmd = NoValue
  /\ exit = NoValue
  /\ did = FALSE

(***************************************************************************)
(* Read-only commands.  They change nothing at the service; what they      *)
(* print is left out, only whether they can print it matters.             *)
(***************************************************************************)

\* cluster list: ClusterAPI.list calls response.get("clusters", []).
ClusterList ==
  /\ pc = "Idle"
  /\ \E r \in Read(Answer(200, "List")) :
       Finish("cluster list", IF Uses(Request("GET", r)) THEN 0 ELSE 1, FALSE)
  /\ UNCHANGED <<hostVars, serviceVars, pc, pending>>

\* cluster get: the result is printed as it is, None included.
ClusterGet ==
  /\ pc = "Idle"
  /\ \E c \in ClusterIds :
       \E r \in Read(IF c \in clusters THEN Answer(200, c) ELSE EmptyAnswer(404)) :
         Finish("cluster get", IF Ok(Request("GET", r)) THEN 0 ELSE 1, FALSE)
  /\ UNCHANGED <<hostVars, serviceVars, pc, pending>>

\* cluster status: health.get on the answer; an unreachable cluster reaches
\* sys.exit(1), where `sys` is not imported: the NameError goes to the
\* `except Exception` and ends in click.Abort.
ClusterStatus ==
  /\ pc = "Idle"
  /\ \E c \in ClusterIds, reachable \in BOOLEAN :
       \E r \in Read(IF c \in clusters THEN Answer(200, reachable) ELSE EmptyAnswer(404)) :
         LET res == Request("GET", r) IN
         Finish("cluster status", IF Uses(res) /\ res.val = TRUE THEN 0 ELSE 1, FALSE)
  /\ UNCHANGED <<hostVars, serviceVars, pc, pending>>

\* workspace list: WorkspaceAPI.list calls response.get("servers", []).
WorkspaceList ==
  /\ pc = "Idle"
  /\ \E r \in Read(Answer(200, "List")) :
       Finish("workspace list", IF Uses(Request("GET", r)) THEN 0 ELSE 1, FALSE)
  /\ UNCHANGED <<hostVars, serviceVars, pc, pending>>

\* workspace logs: `for log in logs` on None raises TypeError.
WorkspaceLogs ==
  /\ pc = "Idle"
  /\ \E n \in Workspaces :
       \E r \in Read(IF ws[n] # Absent THEN Answer(200, "List") ELSE EmptyAnswer(404)) :
         Finish("workspace logs", IF Uses(Request("GET", r)) THEN 0 ELSE 1, FALSE)
  /\ UNCHANGED <<hostVars, serviceVars, pc, pending>>

\* db list: `for db in dbs` on None raises TypeError.
DbList ==
  /\ pc = "Idle"
  /\ \E r \in Read(Answer(200, "List")) :
       Finish("db list", IF Uses(Request("GET", r)) THEN 0 ELSE 1, FALSE)
  /\ UNCHANGED <<hostVars, serviceVars, pc, pending>>

\* db query: DatabaseAPI.query calls response.get("rows", []); no rows
\* prints "No rows found" and returns normally.
DbQuery ==
  /\ pc = "Idle"
  /\ \E d \in DbIds :
       \E r \in Read(IF d \in tables THEN Answer(200, "List") ELSE EmptyAnswer(404)) :
         Finish("db query", IF Uses(Request("GET", r)) THEN 0 ELSE 1, FALSE)
  /\ UNCHANGED <<hostVars, serviceVars, pc, pending>>

(***************************************************************************)
(* Mutating commands                                                       *)
(***************************************************************************)

\* Mutant: the clusterId field taken as it is, without the "" default.
BootstrapPostRawId ==
  /\ pc = "Idle"
  /\ \E withName \in BOOLEAN, c \in ClusterIds \ clusters, reg \in BOOLEAN :
     \E r \in Refused \cup Acked(Answer(200, c)) \cup Acked(Answer(200, NoId)) :
       LET res == Request("POST", r)
           id  == res.val IN
       /\ reg => up /\ r \notin Refused
       /\ ~reg => r \in Refused \cup {Answer(200, NoId)}
       /\ clusters' = IF reg THEN clusters \cup {c} ELSE clusters
       /\ IF Uses(res) /\ withName
            THEN /\ pc' = "BootstrapPut"
                 /\ pending' = id
                 /\ UNCHANGED <<cmd, exit, did>>
            ELSE /\ Finish("cluster bootstrap", IF Uses(res) THEN 0 ELSE 1, reg)
                 /\ pending' = IF Uses(res) THEN id ELSE NoValue
                 /\ UNCHANGED pc
  /\ UNCHANGED <<hostVars, configured, dbs, tables, rows>>

\* cluster bootstrap, its POST /bootstrap.  The service registers a new
\* cluster and answers with its clusterId, or answers with an object that
\* has no clusterId (whether it registered one is not said), or refuses.
\* ClusterAPI.bootstrap returns response.get("clusterId", ""); the command
\* prints "Cluster bootstrapped: <id>" and, with --name, goes on to
\* update_settings(cluster_id, ...) with that id, empty or not.
BootstrapPost ==
  /\ pc = "Idle"
  /\ \E withName \in BOOLEAN, c \in ClusterIds \ clusters, reg \in BOOLEAN :
     \E r \in Refused \cup Acked(Answer(200, c)) \cup Acked(Answer(200, NoId)) :
       LET res == Request("POST", r)
           id  == IF res.val = c THEN c ELSE "" IN
       /\ reg => up /\ r \notin Refused
       /\ ~reg => r \in Refused \cup {Answer(200, NoId)}
       /\ clusters' = IF reg THEN clusters \cup {c} ELSE clusters
       /\ IF Uses(res) /\ withName
            THEN /\ pc' = "BootstrapPut"
                 /\ pending' = id
                 /\ UNCHANGED <<cmd, exit, did>>
            ELSE /\ Finish("cluster bootstrap", IF Uses(res) THEN 0 ELSE 1, reg)
                 /\ pending' = IF Uses(res) THEN id ELSE NoValue
                 /\ UNCHANGED pc
  /\ UNCHANGED <<hostVars, configured, dbs, tables, rows>>

\* PUT /api/settings/cluster/{id}: the service stores the settings of a
\* registered cluster (done); any other path, the empty id included, is a
\* 404.
PutSettings(id, r, done) ==
  IF done
    THEN /\ up
         /\ id \in clusters
         /\ configured' = configured \cup {id}
         /\ r \in Acked(Answer(200, "Settings"))
    ELSE /\ r \in Refused \cup (IF up /\ id \notin clusters THEN {EmptyAnswer(404)} ELSE {})
         /\ UNCHANGED configured

\* The answers a PUT of settings may get.
PutAnswers == Refused \cup Acked(Answer(200, "Settings")) \cup {EmptyAnswer(404)}

\* cluster bootstrap --name, its second request.
BootstrapPut ==
  /\ pc = "BootstrapPut"
  /\ \E r \in PutAnswers, done \in BOOLEAN :
       /\ PutSettings(pending, r, done)
       /\ Finish("cluster bootstrap", IF Ok(Request("PUT", r)) THEN 0 ELSE 1, done)
  /\ pc' = "Idle"
  /\ UNCHANGED <<hostVars, clusters, dbs, tables, rows, pending>>

\* cluster update: every --setting is split at "="; one without it raises
\* ValueError before any request.
ClusterUpdate ==
  /\ pc = "Idle"
  /\ \E c \in ClusterIds, parses \in BOOLEAN :
       IF ~parses
         THEN Finish("cluster update", 1, FALSE) /\ UNCHANGED configured
         ELSE \E r \in PutAnswers, done \in BOOLEAN :
                /\ PutSettings(c, r, done)
                /\ Finish("cluster update", IF Ok(Request("PUT", r)) THEN 0 ELSE 1, done)
  /\ UNCHANGED <<hostVars, clusters, dbs, tables, rows, pc, pending>>

\* workspace create: --env items are split at "=" before the request.
\* The service creates an absent workspace, which starts Pending, or
\* rejects an existing name with 409.  The command prints ws.get('name').
WorkspaceCreate ==
  /\ pc = "Idle"
  /\ \E n \in Workspaces, parses \in BOOLEAN :
       IF ~parses
         THEN Finish("workspace create", 1, FALSE) /\ UNCHANGED ws
         ELSE \E r \in Refused \cup Acked(Answer(200, n)) \cup {EmptyAnswer(409)},
                 done \in BOOLEAN :
                /\ IF done
                     THEN /\ up /\ ws[n] = Absent
                          /\ ws' = [ws EXCEPT ![n] = "Pending"]
                          /\ r \in Acked(Answer(200, n))
                     ELSE /\ r \in Refused \cup (IF up /\ ws[n] # Absent
                                                  THEN {EmptyAnswer(409)} ELSE {})
                          /\ UNCHANGED ws
                /\ Finish("workspace create", IF Uses(Request("POST", r)) THEN 0 ELSE 1, done)
  /\ UNCHANGED <<up, serviceVars, pc, pending>>

\* workspace delete: DELETE returns None whatever the body; a workspace
\* that is not there is a 404 (delete is not idempotent).
WorkspaceDelete ==
  /\ pc = "Idle"
  /\ \E n \in Workspaces, done \in BOOLEAN :
     \E r \in Refused \cup Acked(Answer(200, n)) \cup {EmptyAnswer(404)} :
       /\ IF done
            THEN /\ up /\ ws[n] # Absent
                 /\ ws' = [ws EXCEPT ![n] = Absent]
                 /\ r \in Acked(Answer(200, n))
            ELSE /\ r \in Refused \cup (IF up /\ ws[n] = Absent THEN {EmptyAnswer(404)} ELSE {})
                 /\ UNCHANGED ws
       /\ Finish("workspace delete", IF Ok(Request("DELETE", r)) THEN 0 ELSE 1, done)
  /\ UNCHANGED <<up, serviceVars, pc, pending>>

\* db create: the service creates a database with a fresh id; the command
\* prints db.get('id').
DbCreate ==
  /\ pc = "Idle"
  /\ \E d \in DbIds \ dbs, done \in BOOLEAN :
     \E r \in Refused \cup Acked(Answer(200, d)) :
       /\ IF done
            THEN up /\ r \in Acked(Answer(200, d)) /\ dbs' = dbs \cup {d}
            ELSE r \in Refused /\ UNCHANGED dbs
       /\ Finish("db create", IF Uses(Request("POST", r)) THEN 0 ELSE 1, done)
  /\ UNCHANGED <<hostVars, clusters, configured, tables, rows, pc, pending>>

\* db table create: the schema is split at "," and ":" before the request
\* (a column without a type raises IndexError); the result is not used.
DbTableCreate ==
  /\ pc = "Idle"
  /\ \E d \in DbIds, parses \in BOOLEAN :
       IF ~parses
         THEN Finish("db table create", 1, FALSE) /\ UNCHANGED tables
         ELSE \E done \in BOOLEAN,
                 r \in Refused \cup Acked(Answer(200, d)) \cup {EmptyAnswer(404), EmptyAnswer(409)} :
                /\ IF done
                     THEN /\ up /\ d \in dbs \ tables
                          /\ tables' = tables \cup {d}
                          /\ r \in Acked(Answer(200, d))
                     ELSE /\ r \in Refused
                                  \cup (IF up /\ d \notin dbs THEN {EmptyAnswer(404)} ELSE {})
                                  \cup (IF up /\ d \in tables THEN {EmptyAnswer(409)} ELSE {})
                          /\ UNCHANGED tables
                /\ Finish("db table create", IF Ok(Request("POST", r)) THEN 0 ELSE 1, done)
  /\ UNCHANGED <<hostVars, clusters, configured, dbs, rows, pc, pending>>

\* db insert: --data goes through json.loads before the request; the
\* command prints len(response.get("ids", [])).  Inserts stop at MaxRows.
DbInsert ==
  /\ pc = "Idle"
  /\ rows < MaxRows
  /\ \E d \in DbIds, parses \in BOOLEAN :
       IF ~parses
         THEN Finish("db insert", 1, FALSE) /\ UNCHANGED rows
         ELSE \E done \in BOOLEAN, r \in Refused \cup Acked(Answer(200, "Ids")) \cup {EmptyAnswer(404)} :
                /\ IF done
                     THEN /\ up /\ d \in tables
                          /\ rows' = rows + 1
                          /\ r \in Acked(Answer(200, "Ids"))
                     ELSE /\ r \in Refused \cup (IF up /\ d \notin tables THEN {EmptyAnswer(404)} ELSE {})
                          /\ UNCHANGED rows
                /\ Finish("db insert", IF Uses(Request("POST", r)) THEN 0 ELSE 1, done)
  /\ UNCHANGED <<hostVars, clusters, configured, dbs, tables, pc, pending>>

Command ==
  \/ ClusterList \/ ClusterGet \/ ClusterStatus \/ BootstrapPost \/ BootstrapPut
  \/ ClusterUpdate \/ WorkspaceList \/ WorkspaceCreate \/ WorkspaceDelete
  \/ WorkspaceLogs \/ DbList \/ DbCreate \/ DbTableCreate \/ DbQuery \/ DbInsert

Next ==
  \/ Command
  \/ HostNext /\ UNCHANGED <<serviceVars, cliVars>>

\* The user types the next command when it pleases; nothing is fair.
Spec == Init /\ [][Next]_vars

-----------------------------------------------------------------------------
Mutating == {"cluster bootstrap", "cluster update", "workspace create",
             "workspace delete", "db create", "db table create", "db insert"}

\* None is not the name of a command.
ASSUME NoValueAssumption == NoValue \notin Commands

TypeOK ==
  /\ HostTypeOK
  /\ clusters \subseteq ClusterIds
  /\ configured \subseteq clusters
  /\ dbs \subseteq DbIds
  /\ tables \subseteq dbs
  /\ rows \in 0..MaxRows
  /\ pc \in {"Idle", "BootstrapPut"}
  /\ pending \in ClusterIds \cup {"", NoValue}
  /\ cmd \in Commands \cup {NoValue}
  /\ exit \in {NoValue, 0, 1}
  /\ did \in BOOLEAN

(***************************************************************************)
(* A mutating command other than bootstrap reports success (exit 0, "✓")  *)
(* only when the service performed it; and a command that failed before   *)
(* its request (an argument that does not parse) changed nothing.  What    *)
(* it hangs on is the classification of _request: a 404, a 409 or a        *)
(* refusal must never end in exit 0.                                       *)
(***************************************************************************)
SuccessMeansPerformed ==
  (cmd \in Mutating \ {"cluster bootstrap"} /\ exit = 0) => did
====
