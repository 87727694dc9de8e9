---------------------------- MODULE Configuration ----------------------------
(***************************************************************************)
(* Where a setting comes from: built-in default, config.yaml, the .env     *)
(* files, the environment of the process, the caller's options and the     *)
(* project's project.yaml, in the three ways settings are loaded.          *)
(* internal/config/{config,options,dotenv,paths,project,project_merge}.go  *)
(*                                                                         *)
(* A world w gives what every layer says of one setting, as text: "none"   *)
(* if it says nothing, "" for a line without a value, "x" for what does    *)
(* not parse.  w.mode is "process" (Load), "workspace"                     *)
(* (LoadWorkspaceFromSpec) or "collection" (LoadForCollection).            *)
(***************************************************************************)
EXTENDS Naturals, Sequences, FiniteSetsExt

Digits == {"1", "2", "3", "4", "5", "6"}
Refused == "refused"
UsesProcessEnv(w) == w.mode = "process"

\* Given(v): the text is there and not empty.
Given(v) == v \notin {"none", ""}

FirstGiven(texts) ==
  LET given == {i \in DOMAIN texts : Given(texts[i])} IN
  IF given = {} THEN "none" ELSE texts[Min(given)]

-----------------------------------------------------------------------------
(* Files and environment.                                                  *)

\* ParseDotEnv: a later file overrides an earlier one, with an empty value too.
DotEnv(files) ==
  LET lines == {i \in DOMAIN files : files[i] # "none"} IN
  IF lines = {} THEN "none" ELSE files[Max(lines)]

\* isProcessEnvKey and applyEnvOverrides: what the keys of numbers accept.  The
\* numbers of validateProjectOverrides and ValidateCollectionSettings.
Keys == {"max_file_bytes", "stall_seconds", "stats_window", "chunking_version",
         "min_chunk_tokens", "debounce_seconds", "poll_interval_seconds"}
ReadsEnv(key) == key \notin {"min_chunk_tokens", "debounce_seconds"}
PositiveOnly(key) == key \notin {"stats_window", "chunking_version"}
ExportedNumber(key) == ReadsEnv(key) /\ key # "chunking_version"
Overridable(key) == key \notin {"stall_seconds", "stats_window", "chunking_version"}
Accepted(key) ==
  CASE key = "max_file_bytes" -> Digits
    [] key \in {"stats_window", "chunking_version"} -> Digits \cup {"0", "-1"}
    [] OTHER -> Digits \cup {"0"}

Exported(w) ==
  \/ w.kind = "number" /\ ExportedNumber(w.key)
  \/ w.kind \in {"address", "auto", "paths"}

\* The environment once loadDotEnvCandidates is through: it knows the .env of
\* the workspace's install directory, not the one beside a CONFIG_PATH elsewhere.
Environment(w) ==
  IF Exported(w) /\ ~Given(w.env) THEN DotEnv(<<w.workspace, w.envPath>>) ELSE w.env

\* Slip: the collection looks where a workspace looks.
SecretFilesOfWorkspace(w) == <<w.beside, w.workspace, w.envPath>>

\* dotEnvCandidatePaths, or the list LoadForCollection puts in its place.
SecretFiles(w) ==
  IF w.mode = "collection" THEN <<w.beside, w.envPath>>
                           ELSE <<w.beside, w.workspace, w.envPath>>

\* lookupSecret: the files before the environment.
LookupSecret(w) ==
  FirstGiven(<<DotEnv(SecretFiles(w)), IF UsesProcessEnv(w) THEN w.env ELSE "none">>)

-----------------------------------------------------------------------------
(* The settings.                                                           *)

\* applyAppDefaults: a zero in config.yaml is as good as no line.
FromYaml(w) == IF w.yaml \in {"none", "0"} THEN "6" ELSE w.yaml

\* applyEnvOverrides.
FromEnv(w) ==
  LET v == Environment(w)
      reads == UsesProcessEnv(w) /\ ReadsEnv(w.key) /\ Given(v) /\ v # "x"
  IN  IF reads /\ (PositiveOnly(w.key) => v \in Digits) THEN v ELSE FromYaml(w)

\* ParseProjectConfig and validateProjectOverrides: a key that is not the
\* project's to set, or a negative number.
Rejected(w) == w.project # "none" /\ (~Overridable(w.key) \/ w.project = "-1")

\* ApplyProjectOverrides, then ValidateCollectionSettings on the merged value: a
\* zero of a project is a zero.
Number(w) ==
  LET merged == IF w.project = "none" THEN FromEnv(w) ELSE w.project IN
  CASE w.mode # "collection" -> FromEnv(w)
    [] w.mode = "collection" /\ ~Rejected(w) /\ merged \in Accepted(w.key) -> merged
    [] OTHER -> Refused

\* applyProfileSecrets; w.key says whether the profile names a variable.  A
\* collection whose profile names one it does not find is refused.
ApiKey(w) ==
  LET found == IF w.key = "named" THEN LookupSecret(w) ELSE "none"
      key == FirstGiven(<<w.yaml, found>>)
  IN  IF w.mode = "collection" /\ w.key = "named" /\ ~Given(key) THEN Refused ELSE key

Token(w) ==
  FirstGiven(<<w.opts, IF UsesProcessEnv(w) THEN w.env ELSE "none", LookupSecret(w)>>)

Address(w) ==
  FirstGiven(<<w.opts, IF UsesProcessEnv(w) THEN Environment(w) ELSE "none", w.yaml, "6">>)

\* Load parses the variable; the daemon's loads are given the answer.
AutoIndex(w) == IF UsesProcessEnv(w) THEN Environment(w) = "1" ELSE w.opts = "1"

\* resolvePathContainmentMode and validateSettingsPaths: w.key is the place of
\* index and config.yaml; a collection may have them in the user directory.
Containment(w) ==
  IF Given(w.opts) THEN w.opts
  ELSE IF UsesProcessEnv(w) /\ Given(Environment(w)) THEN Environment(w) ELSE "warn"
Contained(w) ==
  \/ w.key = "workspace"
  \/ w.key = "allowlisted" /\ w.mode # "process"
  \/ w.key = "user" /\ w.mode = "collection"
Paths(w) == IF Containment(w) = "strict" /\ ~Contained(w) THEN Refused ELSE w.key

\* LoadWithOptions, for one setting.
Load(w) ==
  CASE w.kind = "number" -> Number(w)
    [] w.kind = "key" -> ApiKey(w)
    [] w.kind = "token" -> Token(w)
    [] w.kind = "address" -> Address(w)
    [] w.kind = "auto" -> IF AutoIndex(w) THEN "on" ELSE "off"
    [] w.kind = "paths" -> Paths(w)
=============================================================================
