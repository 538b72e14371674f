------------------------------ MODULE Startup ------------------------------
(***************************************************************************)
(* How the test command gets from its settings to the first spec: the      *)
(* config file, environment and flags are read into viper (cliconfig, cmd/ *)
(* test), config.Load resolves and validates them and builds the catalog,  *)
(* and process 1's suite setup compares the deployed API with the table    *)
(* and proves the default human's token (pkg/e2e, pkg/helper).  A setting  *)
(* is a viper path, as a tuple of its segments, in one of the layers.      *)
(***************************************************************************)
EXTENDS EntityCatalog

CONSTANTS
  Scenarios,     (* [source, file, table, deployed]: the settings in each layer, whether *)
                 (* there is a config file, the table, and what the API serves           *)
  RunIDs         (* how each run id is spelled: a sequence of classes of characters      *)

Unset == ""

\* viper's layers, highest first, with the unprefixed names that BindEnv binds as "alias";
\* "shell" is the unprefixed environment that only applyDefaults reads.
ViperLayers == <<"flag", "env", "alias", "file">>
Layers == Range(ViperLayers) \union {"shell"}

Chars == {"alnum", "-", "._:@+", "other"}
FileStates == {"absent", "readable", "unreadable"}

ASSUME StartupAssumption ==
  /\ \A s \in Scenarios :
       /\ s.file \in FileStates
       /\ s.table \in Seq(EntityDescriptor) /\ s.deployed \in Seq(ApiEntity)
       /\ \A setting \in DOMAIN s.source : s.source[setting] \in STRING
  /\ \A r \in DOMAIN RunIDs : RunIDs[r] \in Seq(Chars)
  /\ Unset \notin DOMAIN RunIDs

\* A literal is a string, which TLC finds and the provers have to be told.
ASSUME LiteralsAreStrings == {"", "a", "b"} \subseteq STRING

VARIABLES
  scenario,      \* what the run is given (fixed)
  pc,            \* the next step, or "ready", "listed", "refused"
  loaded,        \* the layers read so far
  cfg,           \* the Config, once unmarshaled
  rows,          \* the descriptor rows; the catalog's entries once it is built
  refusal        \* why the run was refused, or ""

vars == <<scenario, pc, loaded, cfg, rows, refusal>>

------------------------------------------------------------------------------
(* viper                                                                   *)

Sets(path, layer) == layer \in loaded /\ <<path, layer>> \in DOMAIN scenario.source

\* The value of the first layer of an order, among those that are there, that sets a path.
FirstOf(source, order, among, path) ==
  LET setting == {i \in DOMAIN order : order[i] \in among /\ <<path, order[i]>> \in DOMAIN source}
  IN  IF setting = {} THEN Unset
      ELSE source[<<path, order[CHOOSE i \in setting : \A j \in setting : i <= j]>>]

ViperGet_FileFirst(path) ==
  FirstOf(scenario.source, <<"file", "flag", "env", "alias">>, loaded, path)

ViperGet(path) == FirstOf(scenario.source, ViperLayers, loaded, path)

Shell(path) == FirstOf(scenario.source, <<"shell">>, {"shell"}, path)
Or(value, fallback) == IF value = Unset THEN fallback ELSE value

IsDryRun == ViperGet(<<"tests", "dryRun">>) = "true"

\* Durations in minutes; a bare number is refused unless it is zero.
Minutes(value) ==
  CASE value = "10m" -> 10 [] value = "5m" -> 5 [] value = "-1m" -> -1 [] OTHER -> 0
BareDuration(value) == value = "300"

------------------------------------------------------------------------------
(* The catalog: the table with the adapters and timeouts of viper          *)

\* A list is split at commas and blanks, and blank names are dropped.
ViperStringSlice(value) ==
  CASE value = " , " -> {} [] value = "a, b" -> {"a", "b"} [] OTHER -> {value}

TimeoutFields == {"Reconciled", "Deleted"}
SharedTimeoutKeys == {"adapter"}

\* A scalar where the map of a section, or of a kind's timeouts, belongs.
NotAMap(path) == \E l \in loaded : Sets(path, l)

\* A kind or a field under a section of the config file that the table does not have.
UnknownKey ==
  \E setting \in DOMAIN scenario.source :
    LET path == setting[1]
    IN  /\ setting[2] = "file" /\ "file" \in loaded
        /\ \/ /\ Len(path) > 1 /\ path[1] \in {"adapters", "timeouts"}
              /\ path[2] \notin KindsOf(rows)
              /\ ~(path[1] = "timeouts" /\ path[2] \in SharedTimeoutKeys)
           \/ /\ Len(path) = 3 /\ path[1] = "timeouts" /\ path[2] \in KindsOf(rows)
              /\ path[3] \notin TimeoutFields

OverlayFault(row) ==
  \/ ViperGet(<<"adapters", row.Kind>>) # Unset
     /\ ViperStringSlice(ViperGet(<<"adapters", row.Kind>>)) = {}
  \/ NotAMap(<<"timeouts", row.Kind>>)
  \/ \E f \in TimeoutFields : BareDuration(ViperGet(<<"timeouts", row.Kind, f>>))

\* cmp.Or: a zero timeout keeps the row's.
Overlay(row) ==
  [row EXCEPT
     !.RequiredAdapters = LET v == ViperGet(<<"adapters", row.Kind>>)
                          IN  IF v = Unset THEN @ ELSE ViperStringSlice(v),
     !.Timeouts = [f \in TimeoutFields |->
                     LET m == Minutes(ViperGet(<<"timeouts", row.Kind, f>>))
                     IN  IF m = 0 THEN @[f] ELSE m]]

Overlaid == [i \in DOMAIN rows |-> Overlay(rows[i])]

CatalogFails ==
  \/ NotAMap(<<"adapters">>) \/ NotAMap(<<"timeouts">>)
  \/ UnknownKey
  \/ \E i \in DOMAIN rows : OverlayFault(rows[i])
  \/ NewCatalogFails(Overlaid)

------------------------------------------------------------------------------
(* Config                                                                  *)

RunnerServiceAccount == "hyperfleet-e2e-runner"
AuthModes == {"NONE", "API", "EDGE", "EDGE+API"}
TenantModels == {"onprem", "oracle"}
LogLevels == {"debug", "info", "warn", "error"}

NoConfig ==
  [authMode |-> "", tenantModel |-> "", url |-> "", namespace |-> "", runID |-> "",
   brokerType |-> "", adapterRef |-> "", apiRef |-> "", serviceAccount |-> "",
   tokenNamespace |-> "", logLevel |-> "", interval |-> 0, processing |-> 0]

\* Where viper holds each field that it decodes as a string.
PathOf ==
  [authMode       |-> <<"auth_mode">>,
   tenantModel    |-> <<"tenant_model">>,
   url            |-> <<"api", "url">>,
   namespace      |-> <<"namespace">>,
   runID          |-> <<"runId">>,
   brokerType     |-> <<"brokerType">>,
   adapterRef     |-> <<"adapterDeployment", "chartRef">>,
   apiRef         |-> <<"apiDeployment", "chartRef">>,
   serviceAccount |-> <<"identity", "tokenRequest", "serviceAccountName">>,
   tokenNamespace |-> <<"identity", "tokenRequest", "namespace">>,
   logLevel       |-> <<"log", "level">>]

\* The durations, and what applyDefaults makes of a zero (ten seconds are rounded up).
Durations == {"interval", "processing"}
DurationPath ==
  [interval |-> <<"polling", "interval">>, processing |-> <<"timeouts", "adapter", "processing">>]
DefaultDuration == [interval |-> 1, processing |-> 5]

Unmarshaled ==
  [f \in DOMAIN NoConfig |->
     IF f \in Durations THEN Minutes(ViperGet(DurationPath[f])) ELSE ViperGet(PathOf[f])]

\* A duration without a unit, or a scalar where Config has a struct, which viper drops for
\* a variable that sets something within.
UnmarshalFails ==
  \/ \E f \in Durations : BareDuration(ViperGet(DurationPath[f]))
  \/ /\ ViperGet(DurationPath["processing"]) = Unset
     /\ \E path \in {<<"timeouts">>, <<"timeouts", "adapter">>} : Sets(path, "file")

\* The fields applyDefaults takes from the unprefixed environment when still empty.
FromShell == {"namespace", "runID", "brokerType", "adapterRef", "apiRef"}

\* No other unprefixed variable is read.
ASSUME ShellAssumption ==
  \A s \in Scenarios : \A setting \in DOMAIN s.source :
    setting[2] = "shell" => setting[1] \in {PathOf[f] : f \in FromShell}

DefaultOf(field) ==
  CASE field = "authMode"    -> "EDGE+API"
    [] field = "tenantModel" -> "onprem"
    [] field = "brokerType"  -> "googlepubsub"
    [] field = "logLevel"    -> "info"
    [] OTHER -> Unset

WithDefaults(c) ==
  LET base == [f \in DOMAIN c |->
                 IF f \in Durations THEN (IF c[f] = 0 THEN DefaultDuration[f] ELSE c[f])
                 ELSE Or(c[f], Or(IF f \in FromShell THEN Shell(PathOf[f]) ELSE Unset,
                                  DefaultOf(f)))]
      account == Or(base.serviceAccount,
                    IF base.authMode # "NONE" /\ ~IsDryRun THEN RunnerServiceAccount ELSE Unset)
  IN  [f \in DOMAIN c |->
         CASE f = "apiRef"         -> Or(base.apiRef, base.adapterRef)
           [] f = "serviceAccount" -> account
           [] f = "tokenNamespace" /\ account # Unset -> Or(base.tokenNamespace, base.namespace)
           [] OTHER                -> base[f]]

\* The default human: its tenant is the run id, the rest are literals of the code.
Spelling(value) ==
  IF value \in DOMAIN RunIDs THEN RunIDs[value] ELSE <<"other">>

\* LabelValueRegex, and the 63 characters a label value may have.
LabelValue(r) ==
  LET s == Spelling(r)
  IN  /\ s # << >> /\ Len(s) <= 63
      /\ s[1] = "alnum" /\ s[Len(s)] = "alnum"
      /\ \A i \in DOMAIN s : s[i] \in {"alnum", "-"}

\* safeValue, the characters the token issuer's helper accepts.
SafeValue(r) ==
  LET s == Spelling(r)
  IN  s # << >> /\ s[1] = "alnum" /\ \A i \in DOMAIN s : s[i] # "other"

\* Human.Validate of the default human.
HumanValid(c) == c.tenantModel \in TenantModels /\ c.runID # Unset /\ SafeValue(c.runID)

TokenRequestFault_AnyNamespace(c) ==
  LET authenticated == ~IsDryRun /\ c.authMode # "NONE"
  IN  \/ c.serviceAccount # Unset /\ authenticated /\
         (c.namespace = Unset \/ c.serviceAccount # RunnerServiceAccount)
      \/ c.serviceAccount # Unset /\ ~IsDryRun /\ c.tokenNamespace = Unset
      \/ c.serviceAccount = Unset /\ authenticated

TokenRequestFault(c) ==
  LET authenticated == ~IsDryRun /\ c.authMode # "NONE"
  IN  \/ c.serviceAccount # Unset /\ authenticated /\
         (c.namespace = Unset \/ c.tokenNamespace # c.namespace
            \/ c.serviceAccount # RunnerServiceAccount)
      \/ c.serviceAccount # Unset /\ ~IsDryRun /\ c.tokenNamespace = Unset
      \/ c.serviceAccount = Unset /\ authenticated

\* Validate's checks, in order: what each is about, and whether it fails.
Faults(c) ==
  <<<<"auth_mode",    c.authMode \notin AuthModes>>,
    <<"tenant_model", c.tenantModel \notin TenantModels>>,
    <<"url",          ~IsDryRun /\ c.url = Unset>>,
    <<"run id",       ~IsDryRun /\ (c.runID = Unset \/ ~LabelValue(c.runID))>>,
    <<"broker",       c.brokerType \notin {"googlepubsub", "rabbitmq"}>>,
    <<"processing",   c.processing <= 0>>,
    <<"interval",     c.interval <= 0>>,
    <<"tokenRequest", TokenRequestFault(c)>>>>

Failing(c) == {i \in DOMAIN Faults(c) : Faults(c)[i][2]}

------------------------------------------------------------------------------
(* The steps                                                               *)

Proceed(next) == pc' = next /\ UNCHANGED <<scenario, refusal>>

Refuse_Continues(why) ==
  /\ pc' = pc /\ refusal' = why
  /\ UNCHANGED <<scenario, loaded, cfg, rows>>

Refuse(why) ==
  /\ pc' = "refused" /\ refusal' = why
  /\ UNCHANGED <<scenario, loaded, cfg, rows>>

\* LoadConfig: a file that was named must be readable; the default one may be absent.
ReadConfigFile ==
  /\ pc = "file"
  /\ \/ scenario.file = "unreadable" /\ Refuse("file")
     \/ /\ scenario.file # "unreadable"
        /\ loaded' = (IF scenario.file = "readable" THEN {"file"} ELSE {})
        /\ Proceed("bind") /\ UNCHANGED <<cfg, rows>>

BindFlagsAndEnv ==
  /\ pc = "bind"
  /\ loaded' = loaded \union {"flag", "env", "alias"}
  /\ Proceed("unmarshal") /\ UNCHANGED <<cfg, rows>>

Unmarshal ==
  /\ pc = "unmarshal"
  /\ \/ UnmarshalFails /\ Refuse("settings")
     \/ /\ ~UnmarshalFails
        /\ cfg' = Unmarshaled
        /\ Proceed("catalog") /\ UNCHANGED <<loaded, rows>>

LoadEntityCatalog ==
  /\ pc = "catalog"
  /\ \/ CatalogFails /\ Refuse("catalog")
     \/ /\ ~CatalogFails
        /\ rows' = [i \in DOMAIN rows |-> Resolved(Overlaid, Overlaid[i])]
        /\ Proceed("defaults") /\ UNCHANGED <<loaded, cfg>>

ApplyDefaults ==
  /\ pc = "defaults"
  /\ cfg' = WithDefaults(cfg)
  /\ Proceed("validate") /\ UNCHANGED <<loaded, rows>>

ValidateConfig ==
  /\ pc = "validate"
  /\ \/ \E i \in Failing(cfg) :
          (\A j \in Failing(cfg) : i <= j) /\ Refuse(Faults(cfg)[i][1])
     \/ Failing(cfg) = {} /\ Proceed("run") /\ UNCHANGED <<loaded, cfg, rows>>

RunTests_IgnoresDryRun ==
  /\ pc = "run" /\ Proceed("guard") /\ UNCHANGED <<loaded, cfg, rows>>

\* In a dry run Ginkgo lists the specs and executes no setup node.
RunTests ==
  /\ pc = "run"
  /\ Proceed(IF IsDryRun THEN "listed" ELSE "guard")
  /\ UNCHANGED <<loaded, cfg, rows>>

\* The guard compares the table, as written, with what the release in the configured
\* namespace holds; reading it may fail.
ValidateAPIEntityConfig ==
  /\ pc = "guard"
  /\ \/ Refuse(IF cfg.namespace = Unset THEN "namespace" ELSE "helm")
     \/ /\ cfg.namespace # Unset
        /\ IF ApiEntityDiffs(scenario.table, scenario.deployed) # {}
           THEN Refuse("drift")
           ELSE Proceed("logging") /\ UNCHANGED <<loaded, cfg, rows>>

InitLogging ==
  /\ pc = "logging"
  /\ IF cfg.logLevel \notin LogLevels THEN Refuse("logging")
     ELSE /\ Proceed(IF cfg.authMode # "NONE" THEN "mint" ELSE "ready")
          /\ UNCHANGED <<loaded, cfg, rows>>

\* setUpHumanAuth: the default human is validated, then its token minted, which may fail.
MintDefaultHuman ==
  /\ pc = "mint"
  /\ \/ Refuse(IF HumanValid(cfg) THEN "issuer" ELSE "human")
     \/ HumanValid(cfg) /\ Proceed("check") /\ UNCHANGED <<loaded, cfg, rows>>

UsableURL(url) == url = "http://api"

\* CheckDefaultHuman: the API's address must parse, and a list must answer 200.
CheckDefaultHuman ==
  /\ pc = "check"
  /\ \/ Refuse("rejected")
     \/ UsableURL(cfg.url) /\ Proceed("ready") /\ UNCHANGED <<loaded, cfg, rows>>

------------------------------------------------------------------------------
(* The specification                                                       *)

Ended == pc \in {"ready", "listed", "refused"}

Init ==
  /\ scenario \in Scenarios
  /\ pc = "file" /\ loaded = {} /\ cfg = NoConfig /\ rows = scenario.table /\ refusal = ""

\* The specs run, or the command has returned.
Idle == Ended /\ UNCHANGED vars

Next ==
  \/ ReadConfigFile \/ BindFlagsAndEnv \/ Unmarshal \/ LoadEntityCatalog
  \/ ApplyDefaults \/ ValidateConfig \/ RunTests
  \/ ValidateAPIEntityConfig \/ InitLogging \/ MintDefaultHuman \/ CheckDefaultHuman
  \/ Idle

Spec == Init /\ [][Next]_vars

------------------------------------------------------------------------------
(* Properties                                                              *)

TypeOK ==
  /\ scenario.file \in FileStates
  /\ pc \in {"file", "bind", "unmarshal", "catalog", "defaults", "validate", "run", "guard",
             "logging", "mint", "check", "ready", "listed", "refused"}
  /\ loaded \subseteq Layers
  /\ DOMAIN cfg = DOMAIN NoConfig
  /\ DOMAIN rows = DOMAIN scenario.table
  /\ (refusal # "") <=> (pc = "refused")

\* The checks of Load, the drift guard, NewHyperFleetClient and Human.Validate are spread
\* over four packages and skip one another's cases (dry run, NONE); together they must
\* leave no spec with a wait that ends at once or polls without a pause, a human that cannot
\* be minted, a sweep without a label value, or a machine identity in a namespace other than
\* the one whose release was compared. And Human.Validate, with a character set of its own,
\* refuses nothing that Load accepted.
ReadyIsCoherent ==
  /\ pc = "ready" =>
       /\ cfg.interval > 0 /\ cfg.processing > 0
       /\ cfg.url # Unset /\ cfg.namespace # Unset /\ LabelValue(cfg.runID)
       /\ cfg.authMode # "NONE" =>
            /\ HumanValid(cfg) /\ UsableURL(cfg.url)
            /\ cfg.serviceAccount = RunnerServiceAccount
            /\ cfg.tokenNamespace = cfg.namespace
  /\ refusal # "human"

\* "listing specs stays cluster-free" (docs/architecture.md:259): a dry run gets to no
\* step that reads the cluster, and nothing only a cluster needs can refuse it.
ListingIsClusterFree ==
  IsDryRun =>
    /\ pc \notin {"guard", "logging", "mint", "check", "ready"}
    /\ refusal \notin {"url", "run id", "tokenRequest", "namespace"}

\* NewCatalog's loops accept exactly the tables the suite can route, wait and clean up by;
\* the overlay of config values is part of what they judge.
CatalogIsExact ==
  /\ pc = "catalog" =>
       (NewCatalogFails(Overlaid) <=> ~Usable(Overlaid))
  /\ pc \notin {"file", "bind", "unmarshal", "catalog", "refused"} =>
       \A i \in DOMAIN rows :
         rows[i].ParentKind # "" =>
           rows[i].ParentPlural = RowOf(rows, rows[i].ParentKind).Plural

\* The guard reports drift exactly when the API does not serve the table: no duplicate,
\* blank or moved entity hides behind another one.
DriftIsCaught ==
  /\ refusal = "drift" => ~Serves(scenario.deployed, scenario.table)
  /\ pc \in {"logging", "mint", "check", "ready"} => Serves(scenario.deployed, scenario.table)

\* "Priority order (highest to lowest): 1. CLI flags (`--api-url`) 2. Environment variables
\* (`HYPERFLEET_API_URL`, `NAMESPACE`) 3. Config file 4. Built-in defaults"
\* (docs/getting-started.md:142-146), whichever of viper, BindEnv, the catalog and
\* applyDefaults reads a setting.  The code keeps to it but for an unprefixed variable,
\* NAMESPACE among them, that only the config file precedes: applyDefaults (config.go:471-479)
\* does not look at it then, and the file's value stands (FileHidesVariable).  A duration
\* without a unit is refused where it counts, a zero one leaves the default, and what a layer
\* below has is never taken for either.
DocumentedOrder == <<"flag", "env", "alias", "shell", "file">>

FileHidesVariable(path) ==
  /\ <<path, "shell">> \in DOMAIN scenario.source /\ Sets(path, "file")
  /\ \A l \in {"flag", "env", "alias"} : ~Sets(path, l)

Prioritized(field) ==
  LET path == PathOf[field]
  IN  Or(IF FileHidesVariable(path) THEN scenario.source[<<path, "file">>]
         ELSE FirstOf(scenario.source, DocumentedOrder, loaded \union {"shell"}, path),
         DefaultOf(field))

Highest(path) == FirstOf(scenario.source, ViperLayers, loaded, path)

DurationFrom(path, duration, default) ==
  /\ ~BareDuration(Highest(path))
  /\ duration = IF Minutes(Highest(path)) = 0 THEN default ELSE Minutes(Highest(path))

RowFrom(row, written) ==
  LET adapters == Highest(<<"adapters", written.Kind>>)
  IN  /\ row.RequiredAdapters = IF adapters = Unset THEN written.RequiredAdapters
                                ELSE ViperStringSlice(adapters)
      /\ \A f \in TimeoutFields :
           DurationFrom(<<"timeouts", written.Kind, f>>, row.Timeouts[f], written.Timeouts[f])

WithDefaulted == {"validate", "run", "guard", "logging", "mint", "check", "ready", "listed"}

HighestLayerWins ==
  /\ pc \in WithDefaulted =>
       /\ \A f \in {"authMode", "tenantModel", "url", "namespace", "runID", "brokerType",
                    "adapterRef", "logLevel"} : cfg[f] = Prioritized(f)
       /\ cfg.apiRef = Or(Prioritized("apiRef"), Prioritized("adapterRef"))
       /\ \A f \in Durations : DurationFrom(DurationPath[f], cfg[f], DefaultDuration[f])
  /\ pc \in WithDefaulted \union {"defaults"} =>
       \A i \in DOMAIN rows : RowFrom(rows[i], scenario.table[i])
==============================================================================
