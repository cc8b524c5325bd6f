------------------------- MODULE ResourceCli_proofs -------------------------
(***************************************************************************)
(* Proofs about the mutating commands of the CLI, for every set of        *)
(* cluster and database ids, every row bound and every set of fault       *)
(* answers the service may give.                                           *)
(***************************************************************************)
EXTENDS ResourceCli, HostApp_proofs, TLAPS

\* _request raises on every answer of a request the service did not
\* perform: no answer at all, a refusal, a 404 or a 409.
LEMMA UnperformedRaises ==
  ASSUME NEW m, NEW r \in Refused \cup {EmptyAnswer(404), EmptyAnswer(409)}
  PROVE  ~Ok(Request(m, r)) /\ ~Uses(Request(m, r))
<1>1. r.status = 0 \/ r.status >= 400
  <2>1. CASE up
    BY <2>1, RefusalsAssumption DEF Refused, EmptyAnswer
  <2>2. CASE ~up
    BY <2>2 DEF Refused, NoAnswer, EmptyAnswer
  <2>3. QED
    BY <2>1, <2>2
<1>2. r.status \in Nat
  BY FaultsAssumption DEF Refused, NoAnswer, EmptyAnswer, HostResponses
<1>3. Request(m, r).kind # "Ok"
  BY <1>1, <1>2 DEF Request, Raised
<1>4. QED
  BY <1>3 DEF Ok, Uses

\* The commands that only read end as a command the claim is not about.
LEMMA ReadOnlyCmd ==
  ASSUME ClusterList \/ ClusterGet \/ ClusterStatus \/ WorkspaceList
           \/ WorkspaceLogs \/ DbList \/ DbQuery
  PROVE  cmd' \notin Mutating
<1>1. cmd' \in {"cluster list", "cluster get", "cluster status", "workspace list",
                "workspace logs", "db list", "db query"}
  BY DEF ClusterList, ClusterGet, ClusterStatus, WorkspaceList, WorkspaceLogs,
         DbList, DbQuery, Finish
<1>2. QED
  BY <1>1 DEF Mutating

\* Both requests of bootstrap end, if at all, as bootstrap.
LEMMA BootstrapCmd ==
  ASSUME BootstrapPost \/ BootstrapPut
  PROVE  cmd' = "cluster bootstrap" \/ UNCHANGED <<cmd, exit, did>>
BY DEF BootstrapPost, BootstrapPut, Finish
\* A command that ends with exit 0 only when _request returned (and, for
\* some, returned a body it can use), and that performed nothing only on
\* an answer of a request the service did not perform, reports success
\* only for a mutation it performed.
LEMMA Outcome ==
  ASSUME NEW c, NEW m, NEW r, NEW done \in BOOLEAN,
         ~done => r \in Refused \cup {EmptyAnswer(404), EmptyAnswer(409)},
         \/ Finish(c, IF Ok(Request(m, r)) THEN 0 ELSE 1, done)
         \/ Finish(c, IF Uses(Request(m, r)) THEN 0 ELSE 1, done)
  PROVE  exit' = 0 => did'
<1>1. \/ exit' = IF Ok(Request(m, r)) THEN 0 ELSE 1
      \/ exit' = IF Uses(Request(m, r)) THEN 0 ELSE 1
  BY DEF Finish
<1>2. exit' = 0 => Ok(Request(m, r)) \/ Uses(Request(m, r))
  BY <1>1
<1>3. did' = done
  BY DEF Finish
<1>4. QED
  BY <1>2, <1>3, UnperformedRaises

\* Outcome for a command whose exit code tests Ok: 0 only with the effect.
LEMMA OutcomeOk ==
  ASSUME NEW c, NEW m, NEW r, NEW done \in BOOLEAN,
         ~done => r \in Refused \cup {EmptyAnswer(404), EmptyAnswer(409)},
         Finish(c, IF Ok(Request(m, r)) THEN 0 ELSE 1, done)
  PROVE  exit' = 0 => did'
BY Outcome

\* Outcome for a command whose exit code tests Uses: 0 only with the effect.
LEMMA OutcomeUses ==
  ASSUME NEW c, NEW m, NEW r, NEW done \in BOOLEAN,
         ~done => r \in Refused \cup {EmptyAnswer(404), EmptyAnswer(409)},
         Finish(c, IF Uses(Request(m, r)) THEN 0 ELSE 1, done)
  PROVE  exit' = 0 => did'
BY Outcome

\* cluster update: a setting that does not parse, or a PUT of settings.
LEMMA ClusterUpdateSafe == ClusterUpdate => (exit' = 0 => did')
<1> SUFFICES ASSUME ClusterUpdate PROVE exit' = 0 => did'
  OBVIOUS
<1>1. PICK c \in ClusterIds, parses \in BOOLEAN :
        IF ~parses
          THEN Finish("cluster update", 1, FALSE) /\ UNCHANGED configured
          ELSE \E r \in PutAnswers, done \in BOOLEAN :
                 /\ PutSettings(c, r, done)
                 /\ Finish("cluster update", IF Ok(Request("PUT", r)) THEN 0 ELSE 1, done)
  BY DEF ClusterUpdate
<1>2. CASE ~parses
  <2>1. Finish("cluster update", 1, FALSE)
    BY <1>1, <1>2, Zenon
  <2>2. exit' = 1
    BY <2>1, Zenon DEF Finish
  <2>3. QED
    BY <2>2
<1>3. CASE parses
  <2>1. PICK r \in PutAnswers, done \in BOOLEAN :
          /\ PutSettings(c, r, done)
          /\ Finish("cluster update", IF Ok(Request("PUT", r)) THEN 0 ELSE 1, done)
    BY <1>1, <1>3
  <2>2. ~done => r \in Refused \cup {EmptyAnswer(404), EmptyAnswer(409)}
    BY <2>1 DEF PutSettings
  <2>3. Finish("cluster update", IF Ok(Request("PUT", r)) THEN 0 ELSE 1, done)
    BY <2>1
  <2>4. QED
    BY <2>2, <2>3, OutcomeOk, Zenon
<1>4. QED
  BY <1>2, <1>3

\* workspace create: an --env item that does not parse, or the POST.
LEMMA WorkspaceCreateSafe == WorkspaceCreate => (exit' = 0 => did')
<1> SUFFICES ASSUME WorkspaceCreate PROVE exit' = 0 => did'
  OBVIOUS
<1>1. PICK n \in Workspaces, parses \in BOOLEAN :
        IF ~parses
          THEN Finish("workspace create", 1, FALSE) /\ UNCHANGED ws
          ELSE \E r \in Refused \cup Acked(Answer(200, n)) \cup {EmptyAnswer(409)},
                  done \in BOOLEAN :
                 /\ IF done
                      THEN /\ up /\ ws[n] = Absent
                           /\ ws' = [ws EXCEPT ![n] = "Pending"]
                           /\ r \in Acked(Answer(200, n))
                      ELSE /\ r \in Refused \cup (IF up /\ ws[n] # Absent
                                                   THEN {EmptyAnswer(409)} ELSE {})
                           /\ UNCHANGED ws
                 /\ Finish("workspace create", IF Uses(Request("POST", r)) THEN 0 ELSE 1, done)
  BY DEF WorkspaceCreate
<1>2. CASE ~parses
  <2>1. exit' = 1
    BY <1>1, <1>2, Zenon DEF Finish
  <2>2. QED
    BY <2>1
<1>3. CASE parses
  <2>1. PICK r \in Refused \cup Acked(Answer(200, n)) \cup {EmptyAnswer(409)},
             done \in BOOLEAN :
          /\ IF done
               THEN /\ up /\ ws[n] = Absent
                    /\ ws' = [ws EXCEPT ![n] = "Pending"]
                    /\ r \in Acked(Answer(200, n))
               ELSE /\ r \in Refused \cup (IF up /\ ws[n] # Absent
                                            THEN {EmptyAnswer(409)} ELSE {})
                    /\ UNCHANGED ws
          /\ Finish("workspace create", IF Uses(Request("POST", r)) THEN 0 ELSE 1, done)
    BY <1>1, <1>3
  <2>2. ~done => r \in Refused \cup {EmptyAnswer(404), EmptyAnswer(409)}
    BY <2>1
  <2>3. Finish("workspace create", IF Uses(Request("POST", r)) THEN 0 ELSE 1, done)
    BY <2>1
  <2>4. QED
    BY <2>2, <2>3, OutcomeUses, Zenon
<1>4. QED
  BY <1>2, <1>3

\* workspace delete: the DELETE of one workspace.
LEMMA WorkspaceDeleteSafe == WorkspaceDelete => (exit' = 0 => did')
<1> SUFFICES ASSUME WorkspaceDelete PROVE exit' = 0 => did'
  OBVIOUS
<1>1. PICK n \in Workspaces, done \in BOOLEAN :
        \E r \in Refused \cup Acked(Answer(200, n)) \cup {EmptyAnswer(404)} :
          /\ IF done
               THEN /\ up /\ ws[n] # Absent
                    /\ ws' = [ws EXCEPT ![n] = Absent]
                    /\ r \in Acked(Answer(200, n))
               ELSE /\ r \in Refused \cup (IF up /\ ws[n] = Absent THEN {EmptyAnswer(404)} ELSE {})
                    /\ UNCHANGED ws
          /\ Finish("workspace delete", IF Ok(Request("DELETE", r)) THEN 0 ELSE 1, done)
  BY DEF WorkspaceDelete
<1>2. PICK r \in Refused \cup Acked(Answer(200, n)) \cup {EmptyAnswer(404)} :
        /\ IF done
             THEN /\ up /\ ws[n] # Absent
                  /\ ws' = [ws EXCEPT ![n] = Absent]
                  /\ r \in Acked(Answer(200, n))
             ELSE /\ r \in Refused \cup (IF up /\ ws[n] = Absent THEN {EmptyAnswer(404)} ELSE {})
                  /\ UNCHANGED ws
        /\ Finish("workspace delete", IF Ok(Request("DELETE", r)) THEN 0 ELSE 1, done)
  BY <1>1
<1>3. ~done => r \in Refused \cup (IF up /\ ws[n] = Absent THEN {EmptyAnswer(404)} ELSE {})
  BY <1>2, Zenon
<1>4. ~done => r \in Refused \cup {EmptyAnswer(404), EmptyAnswer(409)}
  BY <1>3
<1>5. Finish("workspace delete", IF Ok(Request("DELETE", r)) THEN 0 ELSE 1, done)
  BY <1>2
<1>6. QED
  <2>1. /\ exit' = IF Ok(Request("DELETE", r)) THEN 0 ELSE 1
        /\ did' = done
    BY <1>5, Zenon DEF Finish
  <2>2. ~done => ~Ok(Request("DELETE", r))
    BY <1>4, UnperformedRaises
  <2>3. QED
    BY <2>1, <2>2

\* db create: the POST of a new database.
LEMMA DbCreateSafe == DbCreate => (exit' = 0 => did')
<1> SUFFICES ASSUME DbCreate PROVE exit' = 0 => did'
  OBVIOUS
<1>1. PICK d \in DbIds \ dbs, done \in BOOLEAN :
        \E r \in Refused \cup Acked(Answer(200, d)) :
          /\ IF done
               THEN up /\ r \in Acked(Answer(200, d)) /\ dbs' = dbs \cup {d}
               ELSE r \in Refused /\ UNCHANGED dbs
          /\ Finish("db create", IF Uses(Request("POST", r)) THEN 0 ELSE 1, done)
  BY DEF DbCreate
<1>2. PICK r \in Refused \cup Acked(Answer(200, d)) :
        /\ IF done
             THEN up /\ r \in Acked(Answer(200, d)) /\ dbs' = dbs \cup {d}
             ELSE r \in Refused /\ UNCHANGED dbs
        /\ Finish("db create", IF Uses(Request("POST", r)) THEN 0 ELSE 1, done)
  BY <1>1
<1>3. ~done => r \in Refused
  BY <1>2, Zenon
<1>4. Finish("db create", IF Uses(Request("POST", r)) THEN 0 ELSE 1, done)
  BY <1>2
<1>5. QED
  BY <1>3, <1>4, OutcomeUses, Zenon

\* db table create: a schema that does not parse, or the POST of the table.
LEMMA DbTableCreateSafe == DbTableCreate => (exit' = 0 => did')
<1> SUFFICES ASSUME DbTableCreate PROVE exit' = 0 => did'
  OBVIOUS
<1> DEFINE Answers(d) ==
      Refused \cup Acked(Answer(200, d)) \cup {EmptyAnswer(404), EmptyAnswer(409)}
<1>1. PICK d \in DbIds, parses \in BOOLEAN :
        IF ~parses
          THEN Finish("db table create", 1, FALSE) /\ UNCHANGED tables
          ELSE \E done \in BOOLEAN, r \in Answers(d) :
                 /\ IF done
                      THEN /\ up /\ d \in dbs \ tables
                           /\ tables' = tables \cup {d}
                           /\ r \in Acked(Answer(200, d))
                      ELSE /\ r \in Refused
                                   \cup (IF up /\ d \notin dbs THEN {EmptyAnswer(404)} ELSE {})
                                   \cup (IF up /\ d \in tables THEN {EmptyAnswer(409)} ELSE {})
                           /\ UNCHANGED tables
                 /\ Finish("db table create", IF Ok(Request("POST", r)) THEN 0 ELSE 1, done)
  BY DEF DbTableCreate
<1>2. CASE ~parses
  <2>1. exit' = 1
    BY <1>1, <1>2, Zenon DEF Finish
  <2>2. QED
    BY <2>1
<1>3. CASE parses
  <2>1. PICK done \in BOOLEAN, r \in Answers(d) :
          /\ IF done
               THEN /\ up /\ d \in dbs \ tables
                    /\ tables' = tables \cup {d}
                    /\ r \in Acked(Answer(200, d))
               ELSE /\ r \in Refused
                            \cup (IF up /\ d \notin dbs THEN {EmptyAnswer(404)} ELSE {})
                            \cup (IF up /\ d \in tables THEN {EmptyAnswer(409)} ELSE {})
                    /\ UNCHANGED tables
          /\ Finish("db table create", IF Ok(Request("POST", r)) THEN 0 ELSE 1, done)
    BY <1>1, <1>3
  <2>2. ~done => r \in Refused
                        \cup (IF up /\ d \notin dbs THEN {EmptyAnswer(404)} ELSE {})
                        \cup (IF up /\ d \in tables THEN {EmptyAnswer(409)} ELSE {})
    BY <2>1, Zenon
  <2>3. ~done => ~Ok(Request("POST", r))
    BY <2>2, UnperformedRaises
  <2>4. /\ exit' = IF Ok(Request("POST", r)) THEN 0 ELSE 1
        /\ did' = done
    BY <2>1, Zenon DEF Finish
  <2>5. QED
    BY <2>3, <2>4
<1>4. QED
  BY <1>2, <1>3

\* db insert: --data that is not JSON, or the POST of a row.
LEMMA DbInsertSafe == DbInsert => (exit' = 0 => did')
<1> SUFFICES ASSUME DbInsert PROVE exit' = 0 => did'
  OBVIOUS
<1> DEFINE Answers == Refused \cup Acked(Answer(200, "Ids")) \cup {EmptyAnswer(404)}
<1>1. PICK d \in DbIds, parses \in BOOLEAN :
        IF ~parses
          THEN Finish("db insert", 1, FALSE) /\ UNCHANGED rows
          ELSE \E done \in BOOLEAN, r \in Answers :
                 /\ IF done
                      THEN /\ up /\ d \in tables
                           /\ rows' = rows + 1
                           /\ r \in Acked(Answer(200, "Ids"))
                      ELSE /\ r \in Refused \cup (IF up /\ d \notin tables THEN {EmptyAnswer(404)} ELSE {})
                           /\ UNCHANGED rows
                 /\ Finish("db insert", IF Uses(Request("POST", r)) THEN 0 ELSE 1, done)
  BY DEF DbInsert
<1>2. CASE ~parses
  <2>1. exit' = 1
    BY <1>1, <1>2, Zenon DEF Finish
  <2>2. QED
    BY <2>1
<1>3. CASE parses
  <2>1. PICK done \in BOOLEAN, r \in Answers :
          /\ IF done
               THEN /\ up /\ d \in tables
                    /\ rows' = rows + 1
                    /\ r \in Acked(Answer(200, "Ids"))
               ELSE /\ r \in Refused \cup (IF up /\ d \notin tables THEN {EmptyAnswer(404)} ELSE {})
                    /\ UNCHANGED rows
          /\ Finish("db insert", IF Uses(Request("POST", r)) THEN 0 ELSE 1, done)
    BY <1>1, <1>3
  <2>2. ~done => r \in Refused \cup (IF up /\ d \notin tables THEN {EmptyAnswer(404)} ELSE {})
    BY <2>1, Zenon
  <2>3. ~done => ~Uses(Request("POST", r))
    BY <2>2, UnperformedRaises
  <2>4. /\ exit' = IF Uses(Request("POST", r)) THEN 0 ELSE 1
        /\ did' = done
    BY <2>1, Zenon DEF Finish
  <2>5. QED
    BY <2>3, <2>4
<1>4. QED
  BY <1>2, <1>3

-----------------------------------------------------------------------------
\* Before the first command there is no command to report on.
LEMMA InitSuccess == Init => SuccessMeansPerformed
BY NoValueAssumption DEF Init, SuccessMeansPerformed, Mutating, Commands

\* Every step keeps the claim: the six mutating commands by their lemmas,
\* the others because they end as a command the claim is not about or
\* leave the last command's outcome alone.
LEMMA NextSuccess == SuccessMeansPerformed /\ [Next]_vars => SuccessMeansPerformed'
<1> SUFFICES ASSUME SuccessMeansPerformed, [Next]_vars PROVE SuccessMeansPerformed'
  OBVIOUS
<1>1. CASE ClusterUpdate \/ WorkspaceCreate \/ WorkspaceDelete \/ DbCreate
             \/ DbTableCreate \/ DbInsert
  BY <1>1, ClusterUpdateSafe, WorkspaceCreateSafe, WorkspaceDeleteSafe, DbCreateSafe,
     DbTableCreateSafe, DbInsertSafe DEF SuccessMeansPerformed
<1>2. CASE ClusterList \/ ClusterGet \/ ClusterStatus \/ WorkspaceList
             \/ WorkspaceLogs \/ DbList \/ DbQuery
  BY <1>2, ReadOnlyCmd DEF SuccessMeansPerformed
<1>3. CASE BootstrapPost \/ BootstrapPut
  BY <1>3, BootstrapCmd DEF SuccessMeansPerformed
<1>4. CASE UNCHANGED <<cmd, exit, did>>
  BY <1>4 DEF SuccessMeansPerformed
<1>5. QED
  <2>1. UNCHANGED vars => UNCHANGED <<cmd, exit, did>>
    BY DEF vars, cliVars
  <2>2. HostNext /\ UNCHANGED <<serviceVars, cliVars>> => UNCHANGED <<cmd, exit, did>>
    BY DEF cliVars
  <2>3. QED
    BY <1>1, <1>2, <1>3, <1>4, <2>1, <2>2 DEF Next, Command

(***************************************************************************)
(* For every set of cluster and database ids, every row bound and every   *)
(* set of fault answers (each an error status), no mutating command other *)
(* than bootstrap ends with exit 0 unless the service performed it: the   *)
(* status tests of Client._request turn every refusal, 404, 409 and       *)
(* timeout into an exception that the command's `except` turns into       *)
(* click.Abort.                                                            *)
(***************************************************************************)
THEOREM SuccessMeansPerformedHolds == Spec => []SuccessMeansPerformed
BY InitSuccess, NextSuccess, PTL DEF Spec

-----------------------------------------------------------------------------
(***************************************************************************)
(* The state stays well formed: a table is created only in a database     *)
(* that exists, settings are stored only for a registered cluster, the    *)
(* rows stay within the bound, and bootstrap's PUT goes to the id the    *)
(* POST printed or to the empty one.                                      *)
(***************************************************************************)

\* A command ends with a command name, exit 0 or 1, and a Boolean.
LEMMA FinishType ==
  ASSUME NEW c \in Commands, NEW e \in {0, 1}, NEW d \in BOOLEAN, Finish(c, e, d)
  PROVE  cmd' \in Commands \cup {NoValue} /\ exit' \in {NoValue, 0, 1} /\ did' \in BOOLEAN
BY DEF Finish

LEMMA InitType == Init => TypeOK
<1> SUFFICES ASSUME Init PROVE TypeOK
  OBVIOUS
<1>1. HostTypeOK
  BY HostInitType DEF Init
<1>2. rows \in 0..MaxRows
  BY MaxRowsAssumption DEF Init
<1>3. QED
  BY <1>1, <1>2 DEF Init, TypeOK

\* The read-only commands change nothing but the command's outcome.
LEMMA ReadOnlyType ==
  ASSUME TypeOK,
         ClusterList \/ ClusterGet \/ ClusterStatus \/ WorkspaceList
           \/ WorkspaceLogs \/ DbList \/ DbQuery
  PROVE  TypeOK'
<1>1. UNCHANGED <<hostVars, serviceVars, pc, pending>>
  BY DEF ClusterList, ClusterGet, ClusterStatus, WorkspaceList, WorkspaceLogs,
         DbList, DbQuery
<1>2. cmd' \in Commands /\ exit' \in {0, 1} /\ did' = FALSE
  BY DEF ClusterList, ClusterGet, ClusterStatus, WorkspaceList, WorkspaceLogs,
         DbList, DbQuery, Finish, Commands
<1>3. QED
  BY <1>1, <1>2 DEF TypeOK, hostVars, serviceVars, HostTypeOK

LEMMA BootstrapPostType ==
  ASSUME TypeOK, BootstrapPost
  PROVE  TypeOK'
<1>1. PICK withName \in BOOLEAN, c \in ClusterIds \ clusters, reg \in BOOLEAN :
        \E r \in Refused \cup Acked(Answer(200, c)) \cup Acked(Answer(200, NoId)) :
          LET res == Request("POST", r)
              id  == IF res.val = c THEN c ELSE "" IN
          /\ reg => up /\ r \notin Refused
          /\ ~reg => r \in Refused \cup {Answer(200, NoId)}
          /\ clusters' = IF reg THEN clusters \cup {c} ELSE clusters
          /\ IF Uses(res) /\ withName
               THEN /\ pc' = "BootstrapPut"
                    /\ pending' = id
                    /\ UNCHANGED <<cmd, exit, did>>
               ELSE /\ Finish("cluster bootstrap", IF Uses(res) THEN 0 ELSE 1, reg)
                    /\ pending' = IF Uses(res) THEN id ELSE NoValue
                    /\ UNCHANGED pc
  BY DEF BootstrapPost
<1>2. UNCHANGED <<hostVars, configured, dbs, tables, rows>>
  BY DEF BootstrapPost
<1>3. clusters' \subseteq ClusterIds /\ configured' \subseteq clusters'
  BY <1>1, <1>2 DEF TypeOK
<1>4. /\ pc' \in {"Idle", "BootstrapPut"}
      /\ pending' \in ClusterIds \cup {"", NoValue}
      /\ cmd' \in Commands \cup {NoValue} /\ exit' \in {NoValue, 0, 1}
      /\ did' \in BOOLEAN
  <2>1. PICK r \in Refused \cup Acked(Answer(200, c)) \cup Acked(Answer(200, NoId)) :
          LET res == Request("POST", r)
              id  == IF res.val = c THEN c ELSE "" IN
          IF Uses(res) /\ withName
            THEN /\ pc' = "BootstrapPut"
                 /\ pending' = id
                 /\ UNCHANGED <<cmd, exit, did>>
            ELSE /\ Finish("cluster bootstrap", IF Uses(res) THEN 0 ELSE 1, reg)
                 /\ pending' = IF Uses(res) THEN id ELSE NoValue
                 /\ UNCHANGED pc
    BY <1>1
  <2> DEFINE res == Request("POST", r)
             id  == IF res.val = c THEN c ELSE ""
  <2>2. id \in ClusterIds \cup {""}
    OBVIOUS
  <2>3. CASE Uses(res) /\ withName
    BY <2>1, <2>2, <2>3 DEF TypeOK
  <2>4. CASE ~(Uses(res) /\ withName)
    <3>1. Finish("cluster bootstrap", IF Uses(res) THEN 0 ELSE 1, reg)
          /\ pending' = (IF Uses(res) THEN id ELSE NoValue) /\ pc' = pc
      BY <2>1, <2>4
    <3>2. QED
      BY <3>1, <2>2, FinishType DEF TypeOK, Commands
  <2>5. QED
    BY <2>3, <2>4
<1>5. QED
  BY <1>2, <1>3, <1>4 DEF TypeOK, hostVars, HostTypeOK

\* A PUT of settings stores them only for a registered cluster.
LEMMA PutSettingsType ==
  ASSUME TypeOK, NEW id, NEW r, NEW done \in BOOLEAN, PutSettings(id, r, done),
         clusters' = clusters
  PROVE  configured' \subseteq clusters'
<1>1. CASE done
  <2>1. id \in clusters /\ configured' = configured \cup {id}
    BY <1>1 DEF PutSettings
  <2>2. QED
    BY <2>1 DEF TypeOK
<1>2. CASE ~done
  <2>1. configured' = configured
    BY <1>2 DEF PutSettings
  <2>2. QED
    BY <2>1 DEF TypeOK
<1>3. QED
  BY <1>1, <1>2

LEMMA BootstrapPutType ==
  ASSUME TypeOK, BootstrapPut
  PROVE  TypeOK'
<1>1. PICK r \in PutAnswers, done \in BOOLEAN :
        /\ PutSettings(pending, r, done)
        /\ Finish("cluster bootstrap", IF Ok(Request("PUT", r)) THEN 0 ELSE 1, done)
  BY DEF BootstrapPut
<1>2. pc' = "Idle" /\ UNCHANGED <<hostVars, clusters, dbs, tables, rows, pending>>
  BY DEF BootstrapPut
<1>3. configured' \subseteq clusters'
  BY <1>1, <1>2, PutSettingsType
<1>f. Finish("cluster bootstrap", IF Ok(Request("PUT", r)) THEN 0 ELSE 1, done)
  BY <1>1
<1>e. "cluster bootstrap" \in Commands /\ (IF Ok(Request("PUT", r)) THEN 0 ELSE 1) \in {0, 1}
  BY DEF Commands
<1>4. cmd' \in Commands \cup {NoValue} /\ exit' \in {NoValue, 0, 1} /\ did' \in BOOLEAN
  BY <1>f, <1>e, FinishType
<1>5. QED
  BY <1>2, <1>3, <1>4 DEF TypeOK, hostVars, HostTypeOK

LEMMA ClusterUpdateType ==
  ASSUME TypeOK, ClusterUpdate
  PROVE  TypeOK'
<1>1. PICK c \in ClusterIds, parses \in BOOLEAN :
        IF ~parses
          THEN Finish("cluster update", 1, FALSE) /\ UNCHANGED configured
          ELSE \E r \in PutAnswers, done \in BOOLEAN :
                 /\ PutSettings(c, r, done)
                 /\ Finish("cluster update", IF Ok(Request("PUT", r)) THEN 0 ELSE 1, done)
  BY DEF ClusterUpdate
<1>2. UNCHANGED <<hostVars, clusters, dbs, tables, rows, pc, pending>>
  BY DEF ClusterUpdate
<1>3. /\ configured' \subseteq clusters'
      /\ cmd' \in Commands \cup {NoValue} /\ exit' \in {NoValue, 0, 1} /\ did' \in BOOLEAN
  <2>1. CASE ~parses
    <3>1. Finish("cluster update", 1, FALSE) /\ UNCHANGED configured
      BY <1>1, <2>1
    <3>2. QED
      BY <1>2, <3>1, FinishType DEF TypeOK, Commands
  <2>4. CASE parses
    <3>1. PICK r \in PutAnswers, done \in BOOLEAN :
            /\ PutSettings(c, r, done)
            /\ Finish("cluster update", IF Ok(Request("PUT", r)) THEN 0 ELSE 1, done)
      BY <1>1, <2>4
    <3>f. Finish("cluster update", IF Ok(Request("PUT", r)) THEN 0 ELSE 1, done)
      BY <3>1
    <3>e. "cluster update" \in Commands /\ (IF Ok(Request("PUT", r)) THEN 0 ELSE 1) \in {0, 1}
      BY DEF Commands
    <3>g. configured' \subseteq clusters'
      BY <1>2, <3>1, PutSettingsType
    <3>2. QED
      BY <3>g, <3>f, <3>e, FinishType
  <2>5. QED
    BY <2>1, <2>4
<1>4. QED
  BY <1>2, <1>3 DEF TypeOK, hostVars, HostTypeOK

\* workspace create and delete change one workspace of the service.
LEMMA WorkspaceCreateType ==
  ASSUME TypeOK, WorkspaceCreate
  PROVE  TypeOK'
<1>1. PICK n \in Workspaces, parses \in BOOLEAN :
        IF ~parses
          THEN Finish("workspace create", 1, FALSE) /\ UNCHANGED ws
          ELSE \E r \in Refused \cup Acked(Answer(200, n)) \cup {EmptyAnswer(409)},
                  done \in BOOLEAN :
                 /\ IF done
                      THEN /\ up /\ ws[n] = Absent
                           /\ ws' = [ws EXCEPT ![n] = "Pending"]
                           /\ r \in Acked(Answer(200, n))
                      ELSE /\ r \in Refused \cup (IF up /\ ws[n] # Absent
                                                   THEN {EmptyAnswer(409)} ELSE {})
                           /\ UNCHANGED ws
                 /\ Finish("workspace create", IF Uses(Request("POST", r)) THEN 0 ELSE 1, done)
  BY DEF WorkspaceCreate
<1>2. UNCHANGED <<up, serviceVars, pc, pending>>
  BY DEF WorkspaceCreate
<1>3. /\ ws' \in [Workspaces -> WsStatus \cup {Absent}]
      /\ cmd' \in Commands \cup {NoValue} /\ exit' \in {NoValue, 0, 1} /\ did' \in BOOLEAN
  <2>1. CASE ~parses
    <3>1. Finish("workspace create", 1, FALSE) /\ UNCHANGED ws
      BY <1>1, <2>1
    <3>2. QED
      BY <3>1, FinishType DEF TypeOK, HostTypeOK, Commands
  <2>4. CASE parses
    <3>1. PICK r \in Refused \cup Acked(Answer(200, n)) \cup {EmptyAnswer(409)},
               done \in BOOLEAN :
            /\ IF done
                 THEN /\ up /\ ws[n] = Absent
                      /\ ws' = [ws EXCEPT ![n] = "Pending"]
                      /\ r \in Acked(Answer(200, n))
                 ELSE /\ r \in Refused \cup (IF up /\ ws[n] # Absent
                                              THEN {EmptyAnswer(409)} ELSE {})
                      /\ UNCHANGED ws
            /\ Finish("workspace create", IF Uses(Request("POST", r)) THEN 0 ELSE 1, done)
      BY <1>1, <2>4
    <3>2. ws' \in [Workspaces -> WsStatus \cup {Absent}]
      BY <3>1 DEF TypeOK, HostTypeOK, WsStatus
    <3>f. Finish("workspace create", IF Uses(Request("POST", r)) THEN 0 ELSE 1, done)
      BY <3>1
    <3>e. "workspace create" \in Commands /\ (IF Uses(Request("POST", r)) THEN 0 ELSE 1) \in {0, 1}
      BY DEF Commands
    <3>h. cmd' \in Commands \cup {NoValue} /\ exit' \in {NoValue, 0, 1} /\ did' \in BOOLEAN
      BY <3>f, <3>e, FinishType, Zenon
    <3>3. QED
      BY <3>2, <3>h
  <2>5. QED
    BY <2>1, <2>4
<1>4. QED
  BY <1>2, <1>3 DEF TypeOK, serviceVars, HostTypeOK

LEMMA WorkspaceDeleteType ==
  ASSUME TypeOK, WorkspaceDelete
  PROVE  TypeOK'
<1>1. PICK n \in Workspaces, done \in BOOLEAN :
        \E r \in Refused \cup Acked(Answer(200, n)) \cup {EmptyAnswer(404)} :
          /\ IF done
               THEN /\ up /\ ws[n] # Absent
                    /\ ws' = [ws EXCEPT ![n] = Absent]
                    /\ r \in Acked(Answer(200, n))
               ELSE /\ r \in Refused \cup (IF up /\ ws[n] = Absent THEN {EmptyAnswer(404)} ELSE {})
                    /\ UNCHANGED ws
          /\ Finish("workspace delete", IF Ok(Request("DELETE", r)) THEN 0 ELSE 1, done)
  BY DEF WorkspaceDelete
<1>2. PICK r \in Refused \cup Acked(Answer(200, n)) \cup {EmptyAnswer(404)} :
          /\ IF done
               THEN /\ up /\ ws[n] # Absent
                    /\ ws' = [ws EXCEPT ![n] = Absent]
                    /\ r \in Acked(Answer(200, n))
               ELSE /\ r \in Refused \cup (IF up /\ ws[n] = Absent THEN {EmptyAnswer(404)} ELSE {})
                    /\ UNCHANGED ws
          /\ Finish("workspace delete", IF Ok(Request("DELETE", r)) THEN 0 ELSE 1, done)
  BY <1>1
<1>3. UNCHANGED <<up, serviceVars, pc, pending>>
  BY DEF WorkspaceDelete
<1>4. ws' \in [Workspaces -> WsStatus \cup {Absent}]
  BY <1>2 DEF TypeOK, HostTypeOK
<1>f. Finish("workspace delete", IF Ok(Request("DELETE", r)) THEN 0 ELSE 1, done)
  BY <1>2
<1>e. "workspace delete" \in Commands /\ (IF Ok(Request("DELETE", r)) THEN 0 ELSE 1) \in {0, 1}
  BY DEF Commands
<1>5. cmd' \in Commands \cup {NoValue} /\ exit' \in {NoValue, 0, 1} /\ did' \in BOOLEAN
  BY <1>f, <1>e, FinishType
<1>6. HostTypeOK'
  BY <1>3, <1>4 DEF TypeOK, HostTypeOK
<1>7. QED
  BY <1>3, <1>5, <1>6 DEF TypeOK, serviceVars

\* db create adds a database with one of the ids the service may give.
LEMMA DbCreateType ==
  ASSUME TypeOK, DbCreate
  PROVE  TypeOK'
<1>1. PICK d \in DbIds \ dbs, done \in BOOLEAN :
        \E r \in Refused \cup Acked(Answer(200, d)) :
          /\ IF done
               THEN up /\ r \in Acked(Answer(200, d)) /\ dbs' = dbs \cup {d}
               ELSE r \in Refused /\ UNCHANGED dbs
          /\ Finish("db create", IF Uses(Request("POST", r)) THEN 0 ELSE 1, done)
  BY DEF DbCreate
<1>2. PICK r \in Refused \cup Acked(Answer(200, d)) :
          /\ IF done
               THEN up /\ r \in Acked(Answer(200, d)) /\ dbs' = dbs \cup {d}
               ELSE r \in Refused /\ UNCHANGED dbs
          /\ Finish("db create", IF Uses(Request("POST", r)) THEN 0 ELSE 1, done)
  BY <1>1
<1>3. UNCHANGED <<hostVars, clusters, configured, tables, rows, pc, pending>>
  BY DEF DbCreate
<1>4. dbs' \subseteq DbIds /\ dbs \subseteq dbs'
  BY <1>2 DEF TypeOK
<1>f. Finish("db create", IF Uses(Request("POST", r)) THEN 0 ELSE 1, done)
  BY <1>2
<1>e. "db create" \in Commands /\ (IF Uses(Request("POST", r)) THEN 0 ELSE 1) \in {0, 1}
  BY DEF Commands
<1>5. cmd' \in Commands \cup {NoValue} /\ exit' \in {NoValue, 0, 1} /\ did' \in BOOLEAN
  BY <1>f, <1>e, FinishType
<1>6. QED
  BY <1>3, <1>4, <1>5 DEF TypeOK, hostVars, HostTypeOK

\* db table create: the table is created only in a database that exists.
LEMMA DbTableCreateType ==
  ASSUME TypeOK, DbTableCreate
  PROVE  TypeOK'
<1>1. PICK d \in DbIds, parses \in BOOLEAN :
        IF ~parses
          THEN Finish("db table create", 1, FALSE) /\ UNCHANGED tables
          ELSE \E done \in BOOLEAN,
                  r \in Refused \cup Acked(Answer(200, d)) \cup {EmptyAnswer(404), EmptyAnswer(409)} :
                 /\ IF done
                      THEN /\ up /\ d \in dbs \ tables
                           /\ tables' = tables \cup {d}
                           /\ r \in Acked(Answer(200, d))
                      ELSE /\ r \in Refused
                                   \cup (IF up /\ d \notin dbs THEN {EmptyAnswer(404)} ELSE {})
                                   \cup (IF up /\ d \in tables THEN {EmptyAnswer(409)} ELSE {})
                           /\ UNCHANGED tables
                 /\ Finish("db table create", IF Ok(Request("POST", r)) THEN 0 ELSE 1, done)
  BY DEF DbTableCreate
<1>2. UNCHANGED <<hostVars, clusters, configured, dbs, rows, pc, pending>>
  BY DEF DbTableCreate
<1>3. /\ tables' \subseteq dbs'
      /\ cmd' \in Commands \cup {NoValue} /\ exit' \in {NoValue, 0, 1} /\ did' \in BOOLEAN
  <2>1. CASE ~parses
    <3>1. Finish("db table create", 1, FALSE) /\ UNCHANGED tables
      BY <1>1, <2>1
    <3>2. QED
      BY <1>2, <3>1, FinishType DEF TypeOK, Commands
  <2>2. CASE parses
    <3>1. PICK done \in BOOLEAN,
               r \in Refused \cup Acked(Answer(200, d)) \cup {EmptyAnswer(404), EmptyAnswer(409)} :
            /\ IF done
                 THEN /\ up /\ d \in dbs \ tables
                      /\ tables' = tables \cup {d}
                      /\ r \in Acked(Answer(200, d))
                 ELSE /\ r \in Refused
                              \cup (IF up /\ d \notin dbs THEN {EmptyAnswer(404)} ELSE {})
                              \cup (IF up /\ d \in tables THEN {EmptyAnswer(409)} ELSE {})
                      /\ UNCHANGED tables
            /\ Finish("db table create", IF Ok(Request("POST", r)) THEN 0 ELSE 1, done)
      BY <1>1, <2>2
    <3>2. tables' \subseteq dbs'
      <4>1. CASE done
        <5>1. d \in dbs /\ tables' = tables \cup {d}
          BY <3>1, <4>1
        <5>2. QED
          BY <1>2, <5>1 DEF TypeOK
      <4>2. CASE ~done
        BY <1>2, <3>1, <4>2 DEF TypeOK
      <4>3. QED
        BY <4>1, <4>2
    <3>f. Finish("db table create", IF Ok(Request("POST", r)) THEN 0 ELSE 1, done)
      BY <3>1
    <3>e. "db table create" \in Commands /\ (IF Ok(Request("POST", r)) THEN 0 ELSE 1) \in {0, 1}
      BY DEF Commands
    <3>h. cmd' \in Commands \cup {NoValue} /\ exit' \in {NoValue, 0, 1} /\ did' \in BOOLEAN
      BY <3>f, <3>e, FinishType, Zenon
    <3>3. QED
      BY <3>2, <3>h
  <2>3. QED
    BY <2>1, <2>2
<1>4. QED
  BY <1>2, <1>3 DEF TypeOK, hostVars, HostTypeOK

\* db insert stops at MaxRows.
LEMMA DbInsertType ==
  ASSUME TypeOK, DbInsert
  PROVE  TypeOK'
<1>1. rows < MaxRows
  BY DEF DbInsert
<1>2. PICK d \in DbIds, parses \in BOOLEAN :
        IF ~parses
          THEN Finish("db insert", 1, FALSE) /\ UNCHANGED rows
          ELSE \E done \in BOOLEAN, r \in Refused \cup Acked(Answer(200, "Ids")) \cup {EmptyAnswer(404)} :
                 /\ IF done
                      THEN /\ up /\ d \in tables
                           /\ rows' = rows + 1
                           /\ r \in Acked(Answer(200, "Ids"))
                      ELSE /\ r \in Refused \cup (IF up /\ d \notin tables THEN {EmptyAnswer(404)} ELSE {})
                           /\ UNCHANGED rows
                 /\ Finish("db insert", IF Uses(Request("POST", r)) THEN 0 ELSE 1, done)
  BY DEF DbInsert
<1>3. UNCHANGED <<hostVars, clusters, configured, dbs, tables, pc, pending>>
  BY DEF DbInsert
<1>4. /\ rows' \in 0..MaxRows
      /\ cmd' \in Commands \cup {NoValue} /\ exit' \in {NoValue, 0, 1} /\ did' \in BOOLEAN
  <2>1. CASE ~parses
    <3>1. Finish("db insert", 1, FALSE) /\ UNCHANGED rows
      BY <1>2, <2>1
    <3>2. QED
      BY <3>1, FinishType DEF TypeOK, Commands
  <2>2. CASE parses
    <3>1. PICK done \in BOOLEAN, r \in Refused \cup Acked(Answer(200, "Ids")) \cup {EmptyAnswer(404)} :
            /\ IF done
                 THEN /\ up /\ d \in tables
                      /\ rows' = rows + 1
                      /\ r \in Acked(Answer(200, "Ids"))
                 ELSE /\ r \in Refused \cup (IF up /\ d \notin tables THEN {EmptyAnswer(404)} ELSE {})
                      /\ UNCHANGED rows
            /\ Finish("db insert", IF Uses(Request("POST", r)) THEN 0 ELSE 1, done)
      BY <1>2, <2>2
    <3>2. rows' \in 0..MaxRows
      <4>1. CASE done
        <5>1. rows' = rows + 1
          BY <3>1, <4>1
        <5>2. rows \in 0..MaxRows
          BY DEF TypeOK
        <5>3. QED
          BY <1>1, <5>1, <5>2, MaxRowsAssumption, SMT
      <4>2. CASE ~done
        BY <3>1, <4>2 DEF TypeOK
      <4>3. QED
        BY <4>1, <4>2
    <3>f. Finish("db insert", IF Uses(Request("POST", r)) THEN 0 ELSE 1, done)
      BY <3>1
    <3>e. "db insert" \in Commands /\ (IF Uses(Request("POST", r)) THEN 0 ELSE 1) \in {0, 1}
      BY DEF Commands
    <3>h. cmd' \in Commands \cup {NoValue} /\ exit' \in {NoValue, 0, 1} /\ did' \in BOOLEAN
      BY <3>f, <3>e, FinishType, Zenon
    <3>3. QED
      BY <3>2, <3>h
  <2>3. QED
    BY <2>1, <2>2
<1>5. QED
  BY <1>3, <1>4 DEF TypeOK, hostVars, HostTypeOK

\* The service's own steps, and stuttering.
LEMMA EnvType ==
  ASSUME TypeOK, (HostNext /\ UNCHANGED <<serviceVars, cliVars>>) \/ UNCHANGED vars
  PROVE  TypeOK'
<1>1. CASE HostNext /\ UNCHANGED <<serviceVars, cliVars>>
  <2>1. HostTypeOK'
    BY <1>1, HostNextType DEF TypeOK
  <2>2. QED
    BY <1>1, <2>1 DEF TypeOK, serviceVars, cliVars
<1>2. CASE UNCHANGED vars
  BY <1>2 DEF TypeOK, vars, hostVars, serviceVars, cliVars, HostTypeOK
<1>3. QED
  BY <1>1, <1>2

(***************************************************************************)
(* Whatever commands the user types and whatever the service and other    *)
(* users do, the CLI's view of the service stays well formed: tables only *)
(* in existing databases (db table create checks dbs), settings only of   *)
(* registered clusters (PUT /api/settings/cluster/{id} is a 404           *)
(* otherwise), at most MaxRows rows, and bootstrap's pending id a         *)
(* cluster id or the "" default of ClusterAPI.bootstrap.                  *)
(***************************************************************************)
THEOREM TypeOKHolds == Spec => []TypeOK
<1>1. Init => TypeOK
  BY InitType
<1>2. TypeOK /\ [Next]_vars => TypeOK'
  BY ReadOnlyType, BootstrapPostType, BootstrapPutType, ClusterUpdateType,
     WorkspaceCreateType, WorkspaceDeleteType, DbCreateType, DbTableCreateType,
     DbInsertType, EnvType
  DEF Next, Command
<1>3. QED
  BY <1>1, <1>2, PTL DEF Spec

====
