---------------------------- MODULE ConfigResolve ----------------------------
(***************************************************************************)
(* How the mgn command line resolves the client it works with             *)
(* (config/manager.py and the group callback cli() of cli/main.py):       *)
(* ConfigManager.load() starts from _load_defaults(), merges the YAML     *)
(* file at config_path into it with the recursive _merge, and applies the *)
(* MGN_* environment variables; cli() then applies --api-url and --token  *)
(* (click fills them from the same variables when the flags are absent)   *)
(* and builds Client(base_url, token), whose constructor strips trailing  *)
(* slashes.  Every step can raise, which ends the command with a          *)
(* traceback.                                                              *)
(*                                                                         *)
(* A YAML value is a tagged record: a mapping, a string, an integer, null *)
(* or a (non-empty) list.  Strings are TLA+ strings, so rstrip("/") is    *)
(* modelled by what it does.                                               *)
(***************************************************************************)
EXTENDS Naturals, Sequences

YMap(f) == [tag |-> "map", map |-> f]
YStr(s) == [tag |-> "str", str |-> s]
YInt(n) == [tag |-> "int", int |-> n]
YNull   == [tag |-> "null"]
YList   == [tag |-> "list"]
IsMap(v) == v.tag = "map"

\* No file at config_path, and a key a mapping does not have.
Absent  == [tag |-> "absent"]
Missing == [tag |-> "missing"]

\* A mapping with only the keys whose value is not Missing.
Present(r) == [k \in {j \in DOMAIN r : r[j] # Missing} |-> r[k]]

DefaultUrl == "https://localhost:8090"

\* ConfigManager._load_defaults.
Defaults ==
  YMap([api      |-> YMap([base_url |-> YStr(DefaultUrl), token |-> YStr(""),
                           timeout |-> YInt(30)]),
        defaults |-> YMap([cluster |-> YStr(""), format |-> YStr("table")]),
        logging  |-> YMap([level |-> YStr("info")])])

\* The files the model tries: none, an empty one (safe_load gives None),
\* a list or a bare string, and mappings whose sections are mappings,
\* null or a string.
ApiFileValues ==
  {YNull, YStr("x")} \cup
  {YMap(Present(r)) : r \in [base_url : {Missing, YNull, YStr("f"), YStr("f/")},
                             token    : {Missing, YNull, YStr("t")},
                             timeout  : {Missing, YInt(5)}]}
DefaultsFileValues ==
  {YStr("x")} \cup {YMap(Present(r)) : r \in [cluster : {Missing, YStr("k")}]}
Files ==
  {Absent, YNull, YList, YStr("x")} \cup
  {YMap(Present(r)) : r \in [api      : {Missing} \cup ApiFileValues,
                             defaults : {Missing} \cup DefaultsFileValues,
                             logging  : {Missing, YStr("x")}]}

\* An unset environment variable and an absent flag.
NoEnv  == "<unset>"
NoFlag == "<none>"

\* Python's truth value of the string os.getenv or click hands over.
Truthy(s) == s \notin {NoEnv, NoFlag, ""}

\* str.rstrip("/").
RECURSIVE RStrip(_)
RStrip(s) ==
  IF s # "" /\ SubSeq(s, Len(s), Len(s)) = "/" THEN RStrip(SubSeq(s, 1, Len(s) - 1))
  ELSE s

VARIABLES
  file,        \* what yaml.safe_load reads from config_path
  envUrl,      \* MGN_API_URL
  envToken,    \* MGN_API_TOKEN
  envCluster,  \* MGN_DEFAULT_CLUSTER
  flagUrl,     \* --api-url
  flagToken,   \* --token
  pc,          \* "Load", "Merge", "Env", "Flags", "Client", "Done" or "Crashed"
  cfg,         \* the configuration dictionary being built
  client       \* the Client the commands get, NoClient before

inputs == <<file, envUrl, envToken, envCluster, flagUrl, flagToken>>
vars == <<inputs, pc, cfg, client>>

NoClient == [tag |-> "none"]

\* click's api_url and token: the flag, else the environment variable.
ApiUrlOpt == IF flagUrl # NoFlag THEN flagUrl ELSE envUrl
TokenOpt  == IF flagToken # NoFlag THEN flagToken ELSE envToken

\* The mapping m with key set to v.
Assign(m, key, v) == [k \in DOMAIN m \cup {key} |-> IF k = key THEN v ELSE m[k]]

\* `if s: config[sec][key] = s` on the top-level mapping c.
Put(c, sec, key, s) ==
  IF Truthy(s) THEN YMap([c.map EXCEPT ![sec] = YMap(Assign(c.map[sec].map, key, YStr(s)))])
  ELSE c

\* A truthy write into a section that is not a mapping raises TypeError.
WriteFails(c, writes) ==
  \E w \in writes : Truthy(w[3]) /\ ~IsMap(c.map[w[1]])

RECURSIVE Merge(_, _)

\* Mutant: `result = {}` instead of `base.copy()`: only the file's keys.
MergeOverOnly(base, over) ==
  [k \in DOMAIN over |->
     IF k \in DOMAIN base /\ IsMap(base[k]) /\ IsMap(over[k])
     THEN YMap(Merge(base[k].map, over[k].map)) ELSE over[k]]

\* Mutant: the merge without recursion, the file's section replacing the default.
MergeShallow(base, over) ==
  [k \in DOMAIN base \cup DOMAIN over |-> IF k \in DOMAIN over THEN over[k] ELSE base[k]]

\* ConfigManager._merge, on the mappings' contents.
Merge(base, over) ==
  [k \in DOMAIN base \cup DOMAIN over |->
     IF k \notin DOMAIN over THEN base[k]
     ELSE IF k \in DOMAIN base /\ IsMap(base[k]) /\ IsMap(over[k])
          THEN YMap(Merge(base[k].map, over[k].map))
          ELSE over[k]]

Init ==
  /\ file \in Files
  /\ envUrl \in {NoEnv, "", "e/"}
  /\ envToken \in {NoEnv, "", "te"}
  /\ envCluster \in {NoEnv, "c"}
  /\ flagUrl \in {NoFlag, "g"}
  /\ flagToken \in {NoFlag, "tg"}
  /\ pc = "Load"
  /\ cfg = YNull
  /\ client = NoClient

\* load(): config = self._load_defaults(); `if self.config_path.exists()`.
LoadDefaults ==
  /\ pc = "Load"
  /\ cfg' = Defaults
  /\ pc' = IF file = Absent THEN "Env" ELSE "Merge"
  /\ UNCHANGED <<inputs, client>>

\* Mutant: `file_config = yaml.safe_load(f)` without `or {}`.
MergeFileNoDefault ==
  /\ pc = "Merge"
  /\ IF IsMap(file)
       THEN cfg' = YMap(Merge(cfg.map, file.map)) /\ pc' = "Env"
       ELSE pc' = "Crashed" /\ UNCHANGED cfg
  /\ UNCHANGED <<inputs, client>>

\* `file_config = yaml.safe_load(f) or {}` and `self._merge(config,
\* file_config)`, whose override.items() raises on a document that is not
\* a mapping.
MergeFile ==
  /\ pc = "Merge"
  /\ LET loaded == IF file = YNull THEN YMap(<<>>) ELSE file
     IN  IF IsMap(loaded)
           THEN cfg' = YMap(Merge(cfg.map, loaded.map)) /\ pc' = "Env"
           ELSE pc' = "Crashed" /\ UNCHANGED cfg
  /\ UNCHANGED <<inputs, client>>

EnvWrites == {<<"api", "base_url", envUrl>>, <<"api", "token", envToken>>,
              <<"defaults", "cluster", envCluster>>}

\* Mutant: the overrides tested with `is not None` instead of truthiness.
ApplyEnvNotNone ==
  /\ pc = "Env"
  /\ LET PutSet(c, sec, key, s) ==
           IF s # NoEnv THEN YMap([c.map EXCEPT ![sec] = YMap(Assign(c.map[sec].map, key, YStr(s)))])
           ELSE c
     IN  IF \E w \in EnvWrites : w[3] # NoEnv /\ ~IsMap(cfg.map[w[1]])
           THEN pc' = "Crashed" /\ UNCHANGED cfg
           ELSE /\ cfg' = PutSet(PutSet(PutSet(cfg, "api", "base_url", envUrl),
                                        "api", "token", envToken),
                                 "defaults", "cluster", envCluster)
                /\ pc' = "Flags"
  /\ UNCHANGED <<inputs, client>>

\* _apply_env_overrides: `if url := os.getenv("MGN_API_URL")` and the two
\* others, each writing into its section.
ApplyEnv ==
  /\ pc = "Env"
  /\ IF WriteFails(cfg, EnvWrites)
       THEN pc' = "Crashed" /\ UNCHANGED cfg
       ELSE /\ cfg' = Put(Put(Put(cfg, "api", "base_url", envUrl),
                              "api", "token", envToken),
                          "defaults", "cluster", envCluster)
            /\ pc' = "Flags"
  /\ UNCHANGED <<inputs, client>>

\* cli(): `if api_url: cfg["api"]["base_url"] = api_url`, and the token.
MainOverrides ==
  /\ pc = "Flags"
  /\ IF WriteFails(cfg, {<<"api", "base_url", ApiUrlOpt>>, <<"api", "token", TokenOpt>>})
       THEN pc' = "Crashed" /\ UNCHANGED cfg
       ELSE /\ cfg' = Put(Put(cfg, "api", "base_url", ApiUrlOpt), "api", "token", TokenOpt)
            /\ pc' = "Client"
  /\ UNCHANGED <<inputs, client>>

\* Client(base_url=cfg.get("api", {}).get("base_url", ...), token=...):
\* .get on a section that is not a mapping raises AttributeError, and
\* base_url.rstrip("/") on a value that is not a string raises too.
MakeClient ==
  /\ pc = "Client"
  /\ LET api   == cfg.map["api"]
         Get(k, d) == IF k \in DOMAIN api.map THEN api.map[k] ELSE d
     IN  IF IsMap(api) /\ Get("base_url", YStr(DefaultUrl)).tag = "str"
           THEN /\ client' = [base_url |-> RStrip(Get("base_url", YStr(DefaultUrl)).str),
                              token    |-> Get("token", YStr("")),
                              timeout  |-> 30]
                /\ pc' = "Done"
           ELSE pc' = "Crashed" /\ UNCHANGED client
  /\ UNCHANGED <<inputs, cfg>>

Next == LoadDefaults \/ MergeFile \/ ApplyEnv \/ MainOverrides \/ MakeClient

Spec == Init /\ [][Next]_vars

-----------------------------------------------------------------------------
\* The tokens a client can carry: any string the inputs give, or null.
TokenValues == {YNull} \cup {YStr(t) : t \in {"", "t", "te", "tg"}}

TypeOK ==
  /\ pc \in {"Load", "Merge", "Env", "Flags", "Client", "Done", "Crashed"}
  /\ file \in Files
  /\ cfg = YNull \/ (IsMap(cfg) /\ DOMAIN Defaults.map \subseteq DOMAIN cfg.map)
  /\ client = NoClient \/ client \in [base_url : STRING, token : TokenValues, timeout : Nat]

\* The file's value at section s, key k, when both levels are mappings.
FileLeaf(s, k) ==
  IF IsMap(file) /\ s \in DOMAIN file.map /\ IsMap(file.map[s])
     /\ k \in DOMAIN file.map[s].map
  THEN file.map[s].map[k] ELSE Missing

\* The file's mapping after `or {}`.
FileMap == IF IsMap(file) THEN file.map ELSE <<>>

(***************************************************************************)
(* _merge is a deep merge: right after the file is merged, every section  *)
(* the file gives as a mapping holds the file's keys over the defaults',  *)
(* a section it gives as anything else is replaced by it, and the other   *)
(* sections are the defaults.  Stated path by path, without recursion.    *)
(***************************************************************************)
MergeMatchesReference ==
  (pc = "Env" /\ file # Absent) =>
    /\ DOMAIN cfg.map = DOMAIN Defaults.map \cup DOMAIN FileMap
    /\ \A s \in DOMAIN cfg.map :
         IF s \in DOMAIN FileMap /\ ~IsMap(FileMap[s]) THEN cfg.map[s] = FileMap[s]
         ELSE LET fileKeys == IF s \in DOMAIN FileMap THEN DOMAIN FileMap[s].map ELSE {}
              IN  /\ IsMap(cfg.map[s])
                  /\ DOMAIN cfg.map[s].map = DOMAIN Defaults.map[s].map \cup fileKeys
                  /\ \A k \in DOMAIN cfg.map[s].map :
                       cfg.map[s].map[k] = IF k \in fileKeys THEN FileMap[s].map[k]
                                           ELSE Defaults.map[s].map[k]

(***************************************************************************)
(* The client is built from the most specific setting: the flag, else the *)
(* environment variable (an empty one counts as unset), else the file,    *)
(* else the default; the URL without its trailing slashes.                *)
(***************************************************************************)
ClientFromPrecedence ==
  pc = "Done" =>
    /\ client.base_url =
         RStrip(IF Truthy(ApiUrlOpt) THEN ApiUrlOpt
                ELSE IF FileLeaf("api", "base_url") # Missing
                     THEN FileLeaf("api", "base_url").str
                     ELSE DefaultUrl)
    /\ client.token =
         IF Truthy(TokenOpt) THEN YStr(TokenOpt)
         ELSE IF FileLeaf("api", "token") # Missing THEN FileLeaf("api", "token")
         ELSE YStr("")

\* A configuration file that load() or cli() cannot use.
Malformed ==
  \/ file \in {YList, YStr("x")}
  \/ "api" \in DOMAIN FileMap /\ ~IsMap(FileMap["api"])
  \/ FileLeaf("api", "base_url") \notin {Missing} /\ FileLeaf("api", "base_url").tag # "str"
     /\ ~Truthy(ApiUrlOpt)
  \/ "defaults" \in DOMAIN FileMap /\ ~IsMap(FileMap["defaults"]) /\ Truthy(envCluster)

(***************************************************************************)
(* Startup fails exactly on the files it cannot use: a document that is   *)
(* not a mapping (an empty file is fine), an api section that is not a    *)
(* mapping, a base_url that is not a string unless a flag or variable     *)
(* replaces it, or a defaults section that is not a mapping when          *)
(* MGN_DEFAULT_CLUSTER writes into it.  A malformed logging section is    *)
(* harmless.                                                               *)
(***************************************************************************)
CrashIffMalformed ==
  pc \in {"Done", "Crashed"} => (pc = "Crashed" <=> Malformed)
====
