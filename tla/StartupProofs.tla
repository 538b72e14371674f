--------------------------- MODULE StartupProofs ---------------------------
(***************************************************************************)
(* Proofs about Startup, for every set of scenarios and of run ids.  The   *)
(* invariant carries what each check establishes to the step that relies   *)
(* on it: Config.Validate's to the suite setup, the guard's namespace and  *)
(* the minted human to the first spec.                                     *)
(***************************************************************************)
EXTENDS Startup, EntityCatalogProofs, TLAPS

\* What a configuration that passed Config.Validate satisfies.
Validated(c) ==
  /\ c.authMode \in AuthModes /\ c.tenantModel \in TenantModels
  /\ ~IsDryRun => c.url # Unset /\ c.runID # Unset /\ LabelValue(c.runID)
  /\ c.interval > 0 /\ c.processing > 0
  /\ ~TokenRequestFault(c)

AfterValidate == {"run", "guard", "logging", "mint", "check", "ready", "listed"}
AfterRun      == {"guard", "logging", "mint", "check", "ready"}
AfterGuard    == {"logging", "mint", "check", "ready"}

IInv ==
  /\ TypeOK
  /\ cfg.interval \in Int /\ cfg.processing \in Int
  /\ pc \in AfterValidate => Validated(cfg)
  /\ pc \in AfterRun => ~IsDryRun
  /\ pc \in AfterGuard => cfg.namespace # Unset
  /\ pc \in {"mint", "check"} => cfg.authMode # "NONE"
  /\ pc = "check" \/ (pc = "ready" /\ cfg.authMode # "NONE") => HumanValid(cfg)
  /\ pc = "ready" /\ cfg.authMode # "NONE" => UsableURL(cfg.url)
  /\ pc = "refused" /\ IsDryRun => refusal \notin {"url", "run id", "tokenRequest", "namespace"}
  /\ refusal # "human"

\* Every label value can be a claim of a token: a run id that Config.Validate accepts never
\* fails Human.Validate, though the two packages spell their character sets apart.
THEOREM LabelIsSafe ==
  ASSUME NEW r, LabelValue(r) PROVE SafeValue(r)
<1>1. /\ Spelling(r) # << >> /\ Spelling(r)[1] = "alnum"
      /\ \A i \in DOMAIN Spelling(r) : Spelling(r)[i] \in {"alnum", "-"}
  BY DEF LabelValue
<1> QED BY <1>1 DEF SafeValue

\* An unmarshaled configuration, and one with its defaults, has Config's fields.
LEMMA ConfigFields ==
  /\ DOMAIN Unmarshaled = DOMAIN NoConfig
  /\ \A c : DOMAIN WithDefaults(c) = DOMAIN c
<1>1. DOMAIN Unmarshaled = DOMAIN NoConfig BY DEF Unmarshaled
<1>2. ASSUME NEW c PROVE DOMAIN WithDefaults(c) = DOMAIN c BY DEF WithDefaults
<1> QED BY <1>1, <1>2

\* What is read from viper does not change while the layers do not.
LEMMA SameSettings ==
  ASSUME UNCHANGED <<scenario, loaded>> PROVE IsDryRun' = IsDryRun
BY DEF IsDryRun, ViperGet

\* What a validated configuration satisfies stays true while nothing is written.
LEMMA SameConfig ==
  ASSUME UNCHANGED <<scenario, loaded, cfg>>
  PROVE  /\ IsDryRun' <=> IsDryRun
         /\ Validated(cfg)' <=> Validated(cfg)
         /\ HumanValid(cfg)' <=> HumanValid(cfg)
         /\ UsableURL(cfg.url)' <=> UsableURL(cfg.url)
<1>1. IsDryRun' <=> IsDryRun BY SameSettings
<1>2. TokenRequestFault(cfg)' <=> TokenRequestFault(cfg) BY <1>1 DEF TokenRequestFault
<1>3. Validated(cfg)' <=> Validated(cfg) BY <1>1, <1>2 DEF Validated
<1> QED BY <1>1, <1>3 DEF HumanValid, UsableURL

\* The eight checks of Config.Validate, read off one by one.
LEMMA FaultList ==
  ASSUME NEW c
  PROVE  /\ DOMAIN Faults(c) = {1, 2, 3, 4, 5, 6, 7, 8}
         /\ Faults(c)[1][1] = "auth_mode" /\ Faults(c)[2][1] = "tenant_model"
         /\ Faults(c)[3][1] = "url" /\ Faults(c)[4][1] = "run id"
         /\ Faults(c)[5][1] = "broker" /\ Faults(c)[6][1] = "processing"
         /\ Faults(c)[7][1] = "interval" /\ Faults(c)[8][1] = "tokenRequest"
         /\ Faults(c)[1][2] <=> c.authMode \notin AuthModes
         /\ Faults(c)[2][2] <=> c.tenantModel \notin TenantModels
         /\ Faults(c)[3][2] <=> ~IsDryRun /\ c.url = Unset
         /\ Faults(c)[4][2] <=> ~IsDryRun /\ (c.runID = Unset \/ ~LabelValue(c.runID))
         /\ Faults(c)[6][2] <=> c.processing <= 0
         /\ Faults(c)[7][2] <=> c.interval <= 0
         /\ Faults(c)[8][2] <=> TokenRequestFault(c)
<1>1. DOMAIN Faults(c) = {1, 2, 3, 4, 5, 6, 7, 8} BY DEF Faults
<1>2. Faults(c)[3][2] <=> ~IsDryRun /\ c.url = Unset BY DEF Faults
<1>3. Faults(c)[4][2] <=> ~IsDryRun /\ (c.runID = Unset \/ ~LabelValue(c.runID)) BY DEF Faults
<1>4. Faults(c)[8][2] <=> TokenRequestFault(c) BY DEF Faults
<1>5. Faults(c)[1][2] <=> c.authMode \notin AuthModes BY DEF Faults
<1>6. Faults(c)[2][2] <=> c.tenantModel \notin TenantModels BY DEF Faults
<1>7. /\ Faults(c)[6][2] <=> c.processing <= 0
      /\ Faults(c)[7][2] <=> c.interval <= 0
  BY DEF Faults
<1>8. /\ Faults(c)[1][1] = "auth_mode" /\ Faults(c)[2][1] = "tenant_model"
      /\ Faults(c)[3][1] = "url" /\ Faults(c)[4][1] = "run id"
      /\ Faults(c)[5][1] = "broker" /\ Faults(c)[6][1] = "processing"
      /\ Faults(c)[7][1] = "interval" /\ Faults(c)[8][1] = "tokenRequest"
  BY DEF Faults
<1> QED BY <1>1, <1>2, <1>3, <1>4, <1>5, <1>6, <1>7, <1>8

\* A check of Config.Validate that fails in a dry run is none of those a cluster needs.
LEMMA DryFaults ==
  ASSUME NEW c, NEW i \in DOMAIN Faults(c), Faults(c)[i][2], IsDryRun
  PROVE  Faults(c)[i][1] \notin {"url", "run id", "tokenRequest", "namespace"}
<1>1. ~TokenRequestFault(c) BY DEF TokenRequestFault
<1>2. i \in {1, 2, 3, 4, 5, 6, 7, 8} BY FaultList
<1>3. i \notin {3, 4, 8} BY <1>1, FaultList
<1> QED BY <1>2, <1>3, FaultList

\* A duration that Config.Validate does not refuse is positive.
LEMMA NoFault ==
  ASSUME NEW c, c.interval \in Int, c.processing \in Int,
         \A i \in DOMAIN Faults(c) : ~Faults(c)[i][2]
  PROVE  Validated(c)
<1>1. ~Faults(c)[1][2] /\ ~Faults(c)[2][2] /\ ~Faults(c)[3][2] /\ ~Faults(c)[4][2]
      /\ ~Faults(c)[8][2]
  BY FaultList
<1>2. ~Faults(c)[6][2] /\ ~Faults(c)[7][2]
  BY FaultList
<1>3. c.interval > 0 /\ c.processing > 0
  <2>1. ~(c.processing <= 0) BY <1>2, FaultList
  <2>2. ~(c.interval <= 0) BY <1>2, FaultList
  <2> QED BY <2>1, <2>2
<1> QED BY <1>1, <1>3, FaultList DEF Validated

\* What WithDefaults makes of a duration.
LEMMA DefaultedDuration ==
  ASSUME NEW c, DOMAIN c = DOMAIN NoConfig, NEW f \in Durations
  PROVE  WithDefaults(c)[f] = IF c[f] = 0 THEN DefaultDuration[f] ELSE c[f]
<1>1. f \in DOMAIN c /\ f \notin {"apiRef", "serviceAccount", "tokenNamespace"}
  BY DEF NoConfig, Durations
<1> QED BY <1>1 DEF WithDefaults

\* The durations of a configuration are numbers of minutes, before its defaults and after.
LEMMA DurationsTyped ==
  /\ Unmarshaled.interval \in Int /\ Unmarshaled.processing \in Int
  /\ \A c : DOMAIN c = DOMAIN NoConfig /\ c.interval \in Int /\ c.processing \in Int =>
       WithDefaults(c).interval \in Int /\ WithDefaults(c).processing \in Int
<1>1. \A f \in Durations : Unmarshaled[f] \in Int
  BY DEF Unmarshaled, NoConfig, Durations, Minutes
<1>2. ASSUME NEW c, DOMAIN c = DOMAIN NoConfig, NEW f \in Durations
      PROVE  WithDefaults(c)[f] = IF c[f] = 0 THEN DefaultDuration[f] ELSE c[f]
  BY <1>2, DefaultedDuration
<1>3. DefaultDuration["interval"] \in Int /\ DefaultDuration["processing"] \in Int
  BY DEF DefaultDuration
<1>4. "interval" \in Durations /\ "processing" \in Durations
  BY DEF Durations
<1>5. ASSUME NEW c, DOMAIN c = DOMAIN NoConfig, c.interval \in Int, c.processing \in Int
      PROVE  WithDefaults(c).interval \in Int /\ WithDefaults(c).processing \in Int
  <2>1. /\ WithDefaults(c).interval \in {c.interval, DefaultDuration["interval"]}
        /\ WithDefaults(c).processing \in {c.processing, DefaultDuration["processing"]}
    BY <1>2, <1>4, <1>5
  <2> QED BY <1>3, <1>5, <2>1
<1> QED BY <1>1, <1>4, <1>5

LEMMA FaultNames ==
  ASSUME NEW c, NEW i \in DOMAIN Faults(c) PROVE Faults(c)[i][1] \notin {"", "human"}
BY FaultList

LEMMA LayersAre == Layers = {"flag", "env", "alias", "file", "shell"}
<1>1. DOMAIN ViperLayers = {1, 2, 3, 4} BY DEF ViperLayers
<1>2. /\ ViperLayers[1] = "flag" /\ ViperLayers[2] = "env"
      /\ ViperLayers[3] = "alias" /\ ViperLayers[4] = "file"
  BY DEF ViperLayers
<1>3. Range(ViperLayers) = {"flag", "env", "alias", "file"} BY <1>1, <1>2 DEF Range
<1> QED BY <1>3 DEF Layers

LEMMA InitIInv == Init => IInv
<1> SUFFICES ASSUME Init PROVE IInv
  OBVIOUS
<1>1. cfg.interval \in Int /\ cfg.processing \in Int
  <2>1. NoConfig.interval = 0 /\ NoConfig.processing = 0
    BY DEF NoConfig
  <2>2. cfg.interval = 0 /\ cfg.processing = 0
    BY <2>1 DEF Init
  <2> QED BY <2>2
<1>2. TypeOK
  BY StartupAssumption DEF Init, TypeOK, Layers
<1>3. pc = "file" /\ refusal = ""
  BY DEF Init
<1> QED BY <1>1, <1>2, <1>3 DEF IInv, AfterValidate, AfterRun, AfterGuard

\* One step per action; a refusal needs its reason to be one a dry run may have.
LEMMA NextIInv == IInv /\ [Next]_vars => IInv'
<1> SUFFICES ASSUME IInv, [Next]_vars PROVE IInv'
  OBVIOUS
<1> USE DEF AfterValidate, AfterRun, AfterGuard, Proceed, Refuse
<1>1. CASE ReadConfigFile
  BY <1>1, LayersAre DEF ReadConfigFile, IInv, TypeOK
<1>2. CASE BindFlagsAndEnv
  BY <1>2, LayersAre DEF BindFlagsAndEnv, IInv, TypeOK
<1>3. CASE Unmarshal
  BY <1>3, ConfigFields, DurationsTyped, SameSettings DEF Unmarshal, IInv, TypeOK
<1>4. CASE LoadEntityCatalog
  BY <1>4, SameSettings DEF LoadEntityCatalog, IInv, TypeOK
<1>5. CASE ApplyDefaults
  BY <1>5, ConfigFields, DurationsTyped, SameSettings DEF ApplyDefaults, IInv, TypeOK
<1>6. CASE ValidateConfig
  <2>1. ASSUME NEW i \in Failing(cfg), Refuse(Faults(cfg)[i][1]) PROVE IInv'
    <3>1. i \in DOMAIN Faults(cfg) /\ Faults(cfg)[i][2] BY DEF Failing
    <3>2. Faults(cfg)[i][1] \notin {"", "human"} BY <3>1, FaultNames
    <3>3. IsDryRun => Faults(cfg)[i][1] \notin {"url", "run id", "tokenRequest", "namespace"}
      BY <3>1, DryFaults
    <3> QED BY <2>1, <3>2, <3>3, SameConfig DEF IInv, TypeOK
  <2>2. ASSUME Failing(cfg) = {}, Proceed("run"), UNCHANGED <<loaded, cfg, rows>> PROVE IInv'
    <3>1. Validated(cfg) BY <2>2, NoFault DEF Failing, IInv
    <3> QED BY <1>6, <2>2, <3>1, SameConfig DEF IInv, TypeOK, ValidateConfig
  <2> QED BY <1>6, <2>1, <2>2 DEF ValidateConfig
<1>7. CASE RunTests
  BY <1>7, SameConfig DEF RunTests, IInv, TypeOK
<1>8. CASE ValidateAPIEntityConfig
  BY <1>8, SameConfig DEF ValidateAPIEntityConfig, IInv, TypeOK
<1>9. CASE InitLogging
  BY <1>9, SameConfig DEF InitLogging, IInv, TypeOK
<1>10. CASE MintDefaultHuman
  <2>1. HumanValid(cfg)
    <3>1. pc = "mint" BY <1>10 DEF MintDefaultHuman
    <3>2. /\ cfg.tenantModel \in TenantModels
          /\ cfg.runID # Unset /\ LabelValue(cfg.runID)
      BY <3>1 DEF IInv, Validated
    <3> QED BY <3>2, LabelIsSafe DEF HumanValid
  <2> QED BY <1>10, <2>1, SameConfig DEF MintDefaultHuman, IInv, TypeOK
<1>11. CASE CheckDefaultHuman
  BY <1>11, SameConfig DEF CheckDefaultHuman, IInv, TypeOK
<1>12. CASE Idle \/ UNCHANGED vars
  BY <1>12, SameConfig DEF Idle, vars, IInv, TypeOK
<1> QED
  BY <1>1, <1>2, <1>3, <1>4, <1>5, <1>6, <1>7, <1>8, <1>9, <1>10, <1>11, <1>12 DEF Next

LEMMA Invariance == Spec => []IInv
BY InitIInv, NextIInv, PTL DEF Spec

\* The state of the startup is well-formed, and it is refused exactly with a reason.
THEOREM TypeCorrect == Spec => []TypeOK
<1>1. IInv => TypeOK BY DEF IInv
<1> QED BY <1>1, Invariance, PTL

\* A first spec finds a usable address, a label value for the sweeps and, with
\* authentication, a human that can be minted and the machine identity in the namespace
\* whose release was compared; and no mint is refused for a value that Load accepted.
THEOREM ReadyCoherent == Spec => []ReadyIsCoherent
<1>1. IInv => ReadyIsCoherent
  BY DEF IInv, ReadyIsCoherent, Validated, TokenRequestFault, AfterValidate, AfterRun, AfterGuard
<1> QED BY <1>1, Invariance, PTL

\* A dry run reads nothing of the cluster and is refused nothing for the lack of one.
THEOREM ListingClusterFree == Spec => []ListingIsClusterFree
<1>1. IInv => ListingIsClusterFree
  BY DEF IInv, TypeOK, ListingIsClusterFree, AfterRun
<1> QED BY <1>1, Invariance, PTL

------------------------------------------------------------------------------
(* The catalog and the drift guard                                         *)

\* A layer that sets a path: its place in an order.
Setting(source, order, among, path) ==
  {i \in DOMAIN order : order[i] \in among /\ <<path, order[i]>> \in DOMAIN source}

\* FirstOf takes the value of the first of those layers.
LEMMA FirstSetting ==
  ASSUME NEW source, NEW order, DOMAIN order \subseteq Nat, NEW among, NEW path,
         NEW i \in Setting(source, order, among, path),
         \A j \in Setting(source, order, among, path) : i <= j
  PROVE  FirstOf(source, order, among, path) = source[<<path, order[i]>>]
<1> DEFINE S == Setting(source, order, among, path)
           first == CHOOSE k \in S : \A j \in S : k <= j
<1>1. S # {} /\ S \subseteq Nat
  BY DEF Setting
<1>2. first \in S /\ \A j \in S : first <= j
  OBVIOUS
<1>3. first = i
  BY <1>1, <1>2
<1>4. FirstOf(source, order, among, path) = source[<<path, order[first]>>]
  BY <1>1 DEF FirstOf, Setting
<1> QED BY <1>3, <1>4

LEMMA NoSetting ==
  ASSUME NEW source, NEW order, NEW among, NEW path,
         Setting(source, order, among, path) = {}
  PROVE  FirstOf(source, order, among, path) = Unset
BY DEF FirstOf, Setting

LEMMA ViperOrder ==
  /\ DOMAIN ViperLayers = {1, 2, 3, 4}
  /\ ViperLayers[1] = "flag" /\ ViperLayers[2] = "env"
  /\ ViperLayers[3] = "alias" /\ ViperLayers[4] = "file"
<1>1. DOMAIN ViperLayers = {1, 2, 3, 4} BY DEF ViperLayers
<1> QED BY <1>1 DEF ViperLayers

\* What viper answers is a value of one of the layers, or unset.
LEMMA ViperValue ==
  ASSUME scenario \in Scenarios, NEW path
  PROVE  ViperGet(path) \in STRING
<1> DEFINE S == Setting(scenario.source, ViperLayers, loaded, path)
<1>1. DOMAIN ViperLayers \subseteq Nat
  BY ViperOrder
<1>2. CASE S = {}
  <2>1. ViperGet(path) = Unset BY <1>2, NoSetting DEF ViperGet
  <2> QED BY <2>1, LiteralsAreStrings DEF Unset
<1>3. CASE S # {}
  <2>1. S \in SUBSET Nat
    BY <1>1 DEF Setting
  <2>2. PICK i \in S : \A j \in S : i <= j
    BY <1>3, <2>1, LeastNumber
  <2>3. ViperGet(path) = scenario.source[<<path, ViperLayers[i]>>]
    BY <1>1, <2>2, FirstSetting DEF ViperGet
  <2>4. <<path, ViperLayers[i]>> \in DOMAIN scenario.source
    BY DEF Setting
  <2> QED BY <2>3, <2>4, StartupAssumption
<1> QED BY <1>2, <1>3

LEMMA SliceTyped ==
  ASSUME NEW v \in STRING PROVE ViperStringSlice(v) \in SUBSET STRING
<1>1. CASE v = " , " BY <1>1 DEF ViperStringSlice
<1>2. CASE v = "a, b"
  <2>1. ViperStringSlice(v) = {"a", "b"} BY <1>2 DEF ViperStringSlice
  <2> QED BY <2>1, LiteralsAreStrings
<1>3. CASE v # " , " /\ v # "a, b" BY <1>3 DEF ViperStringSlice
<1> QED BY <1>1, <1>2, <1>3

\* The overlay writes adapters and timeouts only, and writes them well-typed.
LEMMA OverlaidRow ==
  ASSUME scenario \in Scenarios, NEW row \in EntityDescriptor
  PROVE  Overlay(row) \in EntityDescriptor
<1> DEFINE v == ViperGet(<<"adapters", row.Kind>>)
           adapters == IF v = Unset THEN row.RequiredAdapters ELSE ViperStringSlice(v)
           m(f) == Minutes(ViperGet(<<"timeouts", row.Kind, f>>))
           timeouts == [f \in TimeoutFields |-> IF m(f) = 0 THEN row.Timeouts[f] ELSE m(f)]
<1>1. adapters \in SUBSET STRING
  <2>1. v \in STRING BY ViperValue
  <2>2. ViperStringSlice(v) \in SUBSET STRING BY <2>1, SliceTyped
  <2> QED BY <2>2 DEF EntityDescriptor
<1>2. timeouts \in [Reconciled : Int, Deleted : Int]
  <2>1. \A f \in TimeoutFields : m(f) \in Int BY DEF Minutes
  <2>2. row.Timeouts.Reconciled \in Int /\ row.Timeouts.Deleted \in Int
    BY DEF EntityDescriptor
  <2>3. timeouts = [Reconciled |-> timeouts.Reconciled, Deleted |-> timeouts.Deleted]
    BY DEF TimeoutFields
  <2>4. timeouts.Reconciled \in Int /\ timeouts.Deleted \in Int
    BY <2>1, <2>2 DEF TimeoutFields
  <2> QED BY <2>3, <2>4
<1>3. Overlay(row) = [[row EXCEPT !.RequiredAdapters = adapters] EXCEPT !.Timeouts = timeouts]
  BY DEF Overlay
<1> HIDE DEF adapters, timeouts
<1> QED BY <1>1, <1>2, <1>3 DEF EntityDescriptor

LEMMA OverlaidTable ==
  ASSUME scenario \in Scenarios, rows \in Table
  PROVE  Overlaid \in Table
<1>1. DOMAIN rows = 1..Len(rows) /\ Len(rows) \in Nat
      /\ \A i \in DOMAIN rows : rows[i] \in EntityDescriptor
  BY TableRows
<1>2. \A i \in DOMAIN rows : Overlay(rows[i]) \in EntityDescriptor
  BY <1>1, OverlaidRow
<1>3. Overlaid \in [1..Len(rows) -> EntityDescriptor]
  BY <1>1, <1>2 DEF Overlaid
<1> QED BY <1>1, <1>3 DEF Table

\* Every parent's plural is the one of the parent's own row.
ParentsResolved(table) ==
  \A i \in DOMAIN table :
    table[i].ParentKind # "" =>
      table[i].ParentPlural = RowOf(table, table[i].ParentKind).Plural

\* Resolving an accepted table, row by row, leaves every row with its parent's plural.
LEMMA ResolvedTable ==
  ASSUME NEW table \in Table, ~NewCatalogFails(table)
  PROVE  ParentsResolved([i \in DOMAIN table |-> Resolved(table, table[i])])
<1> DEFINE new == [i \in DOMAIN table |-> Resolved(table, table[i])]
<1>1. Distinct(table) /\ Parented(table)
  BY AcceptsExactlyTheUsable, UsableParts
<1>2. \A i \in DOMAIN table : table[i] \in EntityDescriptor
  BY TableRows
<1>3. ASSUME NEW i \in DOMAIN table
      PROVE  /\ new[i].Kind = table[i].Kind /\ new[i].Plural = table[i].Plural
             /\ new[i].ParentKind = table[i].ParentKind
             /\ table[i].ParentKind \in KindsOf(table) =>
                  new[i].ParentPlural = RowOf(table, table[i].ParentKind).Plural
  BY <1>2, ResolvedRow
<1>4. DOMAIN new = DOMAIN table
  OBVIOUS
<1>5. KindsOf(new) = KindsOf(table)
  BY <1>3, <1>4 DEF KindsOf
<1> HIDE DEF new
<1>6. ASSUME NEW i \in DOMAIN new, new[i].ParentKind # ""
      PROVE  new[i].ParentPlural = RowOf(new, new[i].ParentKind).Plural
  <2> DEFINE parent == table[i].ParentKind
  <2>1. i \in DOMAIN table /\ new[i].ParentKind = parent
    BY <1>3, <1>4
  <2>2. table[i].Kind \in KindsOf(table) /\ RowOf(table, table[i].Kind) = table[i]
    BY <1>1, <2>1, OnlyRow
  <2>3. parent \in KindsOf(table)
    BY <1>1, <1>6, <2>1, <2>2 DEF Parented, Parent
  <2>4. new[i].ParentPlural = RowOf(table, parent).Plural
    BY <1>3, <2>1, <2>3
  <2>5. PICK j \in DOMAIN new : RowOf(new, parent) = new[j] /\ new[j].Kind = parent
    BY <1>5, <2>3, RowFound
  <2>6. j \in DOMAIN table /\ table[j].Kind = parent /\ new[j].Plural = table[j].Plural
    BY <1>3, <1>4, <2>5
  <2>7. RowOf(table, parent) = table[j]
    BY <1>1, <2>6, OnlyRow
  <2> QED BY <2>1, <2>4, <2>5, <2>6, <2>7
<1> QED BY <1>6 DEF ParentsResolved, new

BeforeCatalog == {"file", "bind", "unmarshal", "catalog"}

\* The table is read as it is written until the catalog is built of it, and what the guard
\* saw is what is deployed, which nothing here changes.
CatalogInv ==
  /\ scenario \in Scenarios
  /\ pc \in BeforeCatalog => rows = scenario.table
  /\ pc \notin BeforeCatalog \union {"refused"} => ParentsResolved(rows)
  /\ refusal = "drift" => ApiEntityDiffs(scenario.table, scenario.deployed) # {}
  /\ pc \in AfterGuard => ApiEntityDiffs(scenario.table, scenario.deployed) = {}

LEMMA TablesTyped ==
  ASSUME CatalogInv
  PROVE  /\ scenario.table \in Table /\ scenario.deployed \in Seq(ApiEntity)
         /\ pc = "catalog" => Overlaid \in Table
<1>1. scenario.table \in Table /\ scenario.deployed \in Seq(ApiEntity)
  BY StartupAssumption DEF CatalogInv, Table
<1>2. pc = "catalog" => rows \in Table
  BY <1>1 DEF CatalogInv, BeforeCatalog
<1> QED BY <1>1, <1>2, OverlaidTable DEF CatalogInv

LEMMA NoDriftFault ==
  ASSUME NEW c, NEW i \in DOMAIN Faults(c) PROVE Faults(c)[i][1] # "drift"
BY FaultList

LEMMA NextCatalogInv == CatalogInv /\ [Next]_vars => CatalogInv'
<1> SUFFICES ASSUME CatalogInv, [Next]_vars PROVE CatalogInv'
  OBVIOUS
<1> USE DEF BeforeCatalog, AfterGuard, Proceed, Refuse
<1>1. CASE ReadConfigFile BY <1>1 DEF ReadConfigFile, CatalogInv
<1>2. CASE BindFlagsAndEnv BY <1>2 DEF BindFlagsAndEnv, CatalogInv
<1>3. CASE Unmarshal BY <1>3 DEF Unmarshal, CatalogInv
<1>4. CASE LoadEntityCatalog
  <2>1. CASE CatalogFails /\ Refuse("catalog")
    BY <2>1 DEF CatalogInv
  <2>2. CASE ~(CatalogFails /\ Refuse("catalog"))
    <3>1. /\ pc = "catalog" /\ ~CatalogFails
          /\ rows' = [i \in DOMAIN rows |-> Resolved(Overlaid, Overlaid[i])]
          /\ pc' = "defaults" /\ UNCHANGED <<scenario, refusal>>
      BY <1>4, <2>2 DEF LoadEntityCatalog
    <3>2. DOMAIN Overlaid = DOMAIN rows
      BY DEF Overlaid
    <3>3. ~NewCatalogFails(Overlaid)
      BY <3>1 DEF CatalogFails
    <3>4. ParentsResolved(rows')
      BY <3>1, <3>2, <3>3, TablesTyped, ResolvedTable
    <3>5. ParentsResolved(rows)'
      BY <3>4 DEF ParentsResolved
    <3> QED BY <3>1, <3>5 DEF CatalogInv
  <2> QED BY <2>1, <2>2
<1>5. CASE ApplyDefaults BY <1>5 DEF ApplyDefaults, CatalogInv
<1>6. CASE ValidateConfig
  <2>1. ASSUME NEW i \in Failing(cfg), Refuse(Faults(cfg)[i][1]) PROVE CatalogInv'
    <3>1. Faults(cfg)[i][1] # "drift" BY NoDriftFault DEF Failing
    <3> QED BY <2>1, <3>1 DEF CatalogInv
  <2> QED BY <1>6, <2>1 DEF ValidateConfig, CatalogInv
<1>7. CASE RunTests BY <1>7 DEF RunTests, CatalogInv
<1>8. CASE ValidateAPIEntityConfig BY <1>8 DEF ValidateAPIEntityConfig, CatalogInv
<1>9. CASE InitLogging BY <1>9 DEF InitLogging, CatalogInv
<1>10. CASE MintDefaultHuman BY <1>10 DEF MintDefaultHuman, CatalogInv
<1>11. CASE CheckDefaultHuman BY <1>11 DEF CheckDefaultHuman, CatalogInv
<1>12. CASE Idle \/ UNCHANGED vars BY <1>12 DEF Idle, vars, CatalogInv
<1> QED
  BY <1>1, <1>2, <1>3, <1>4, <1>5, <1>6, <1>7, <1>8, <1>9, <1>10, <1>11, <1>12 DEF Next

LEMMA CatalogInvariance == Spec => []CatalogInv
<1>1. Init => CatalogInv BY DEF Init, CatalogInv, BeforeCatalog, AfterGuard
<1> QED BY <1>1, NextCatalogInv, PTL DEF Spec

\* NewCatalog accepts exactly the usable tables, and the catalog it builds gives every row
\* the plural of its parent's row, whatever the table and the settings are.
THEOREM CatalogExact == Spec => []CatalogIsExact
<1>1. CatalogInv => CatalogIsExact
  <2> SUFFICES ASSUME CatalogInv PROVE CatalogIsExact
    OBVIOUS
  <2>1. pc = "catalog" => (NewCatalogFails(Overlaid) <=> ~Usable(Overlaid))
    BY TablesTyped, AcceptsExactlyTheUsable
  <2> QED BY <2>1 DEF CatalogIsExact, CatalogInv, ParentsResolved, BeforeCatalog
<1> QED BY <1>1, CatalogInvariance, PTL

\* A run refused for drift has an API that does not serve its table, and a run that is past
\* the guard has one that does, whatever the table and the deployed entities are.
THEOREM DriftCaught == Spec => []DriftIsCaught
<1>1. CatalogInv => DriftIsCaught
  <2> SUFFICES ASSUME CatalogInv PROVE DriftIsCaught
    OBVIOUS
  <2>1. ApiEntityDiffs(scenario.table, scenario.deployed) = {} <=>
          Serves(scenario.deployed, scenario.table)
    BY TablesTyped, DiffsAreExact
  <2> QED BY <2>1 DEF DriftIsCaught, CatalogInv, AfterGuard
<1> QED BY <1>1, CatalogInvariance, PTL

------------------------------------------------------------------------------
(* The priority of the layers                                              *)

\* No setting is written blank.  A blank flag hides the layers below it from viper, while
\* applyDefaults still fills the field from the unprefixed environment: there the layers
\* have no one order.  (A blank environment variable is no setting, to viper as to the code.)
NoBlanks ==
  \A setting \in DOMAIN scenario.source : scenario.source[setting] # Unset

\* The five layers of viper and of applyDefaults in one order.
LEMMA FullOrder ==
  LET order == ViperLayers \o <<"shell">>
  IN  /\ DOMAIN order = {1, 2, 3, 4, 5}
      /\ \A i \in {1, 2, 3, 4} : order[i] = ViperLayers[i]
      /\ order[5] = "shell"
<1> DEFINE order == ViperLayers \o <<"shell">>
<1>1. Len(order) = 5 /\ order[5] = "shell"
  BY DEF ViperLayers
<1>2. /\ order[1] = "flag" /\ order[2] = "env" /\ order[3] = "alias" /\ order[4] = "file"
  BY DEF ViperLayers
<1>3. DOMAIN order = {1, 2, 3, 4, 5}
  BY DEF ViperLayers
<1> QED BY <1>1, <1>2, <1>3, ViperOrder

\* With an unprefixed variable as the last layer, viper's layers keep their order.
LEMMA ShellIsLast ==
  ASSUME "shell" \notin loaded, NEW path
  PROVE  LET all == FirstOf(scenario.source, ViperLayers \o <<"shell">>,
                            loaded \union {"shell"}, path)
         IN  IF Setting(scenario.source, ViperLayers, loaded, path) = {}
             THEN all = Shell(path) ELSE all = ViperGet(path)
<1> DEFINE source == scenario.source
           order  == ViperLayers \o <<"shell">>
           five   == loaded \union {"shell"}
           S == Setting(source, ViperLayers, loaded, path)
           A == Setting(source, order, five, path)
<1>1. DOMAIN order = {1, 2, 3, 4, 5} /\ order[5] = "shell"
      /\ \A i \in {1, 2, 3, 4} : order[i] = ViperLayers[i]
  BY FullOrder
<1>2. DOMAIN ViperLayers = {1, 2, 3, 4} /\ \A i \in {1, 2, 3, 4} : ViperLayers[i] # "shell"
  BY ViperOrder
<1> HIDE DEF order
<1>3. A \ {5} = S
  BY <1>1, <1>2 DEF Setting
<1>4. 5 \in A <=> <<path, "shell">> \in DOMAIN source
  BY <1>1 DEF Setting
<1>5. S \in SUBSET {1, 2, 3, 4}
  BY <1>2 DEF Setting
<1>6. DOMAIN order \subseteq Nat /\ DOMAIN ViperLayers \subseteq Nat
  BY <1>1, <1>2
<1>7. CASE S # {}
  <2> HIDE DEF source, five
  <2>1. PICK i \in S : \A j \in S : i <= j
    <3>1. S \in SUBSET Nat BY <1>5
    <3> HIDE DEF S
    <3> QED BY <1>7, <3>1, LeastNumber
  <2>2. i \in A /\ \A j \in A : i <= j
    BY <1>3, <1>5, <2>1
  <2>3. FirstOf(source, order, five, path) = source[<<path, order[i]>>]
    BY <1>6, <2>2, FirstSetting
  <2>4. FirstOf(source, ViperLayers, loaded, path) = source[<<path, ViperLayers[i]>>]
    BY <1>6, <2>1, FirstSetting
  <2>5. order[i] = ViperLayers[i]
    BY <1>1, <1>5
  <2> QED BY <1>7, <2>3, <2>4, <2>5 DEF ViperGet, order, source, five
<1>8. CASE S = {} /\ 5 \in A
  <2> DEFINE one == <<"shell">>
             B == Setting(source, one, {"shell"}, path)
  <2>1. DOMAIN one = {1} /\ one[1] = "shell"
    OBVIOUS
  <2> HIDE DEF one
  <2>2. 1 \in B /\ \A j \in B : 1 <= j
    BY <1>4, <1>8, <2>1 DEF Setting
  <2>3. Shell(path) = source[<<path, "shell">>]
    <3>1. DOMAIN one \subseteq Nat BY <2>1
    <3>2. FirstOf(source, one, {"shell"}, path) = source[<<path, one[1]>>]
      BY <2>2, <3>1, FirstSetting
    <3> QED BY <2>1, <3>2 DEF Shell, one
  <2>4. \A j \in A : 5 <= j
    BY <1>3, <1>8
  <2>5. FirstOf(source, order, five, path) = source[<<path, order[5]>>]
    <3> HIDE DEF source, five
    <3> QED BY <1>6, <1>8, <2>4, FirstSetting
  <2> QED BY <1>1, <1>8, <2>3, <2>5 DEF order
<1>9. CASE S = {} /\ 5 \notin A
  <2> DEFINE one == <<"shell">>
  <2>1. DOMAIN one = {1} /\ one[1] = "shell"
    OBVIOUS
  <2> HIDE DEF one
  <2>2. Setting(source, one, {"shell"}, path) = {}
    BY <1>4, <1>9, <2>1 DEF Setting
  <2>3. Shell(path) = Unset
    BY <2>2, NoSetting DEF Shell, one
  <2>4. A = {}
    BY <1>3, <1>9
  <2>5. FirstOf(source, order, five, path) = Unset
    BY <2>4, NoSetting
  <2> QED BY <1>9, <2>3, <2>5 DEF order
<1> QED BY <1>7, <1>8, <1>9

\* The value of the first layer of five that sets a path.
LEMMA FirstOfFive ==
  ASSUME NEW source, NEW order, DOMAIN order = {1, 2, 3, 4, 5}, NEW among, NEW path,
         NEW i \in Setting(source, order, among, path),
         \A j \in {1, 2, 3, 4, 5} : j < i => j \notin Setting(source, order, among, path)
  PROVE  FirstOf(source, order, among, path) = source[<<path, order[i]>>]
<1> DEFINE S == Setting(source, order, among, path)
<1>1. S \subseteq {1, 2, 3, 4, 5}
  BY DEF Setting
<1> HIDE DEF S
<1>2. \A j \in S : i <= j
  BY <1>1 DEF S
<1>3. DOMAIN order \subseteq Nat
  OBVIOUS
<1> QED BY <1>2, <1>3, FirstSetting DEF S

\* The order of the code is the documented one but where the file hides a variable.
LEMMA DocumentedButTheFile ==
  ASSUME "shell" \notin loaded, NEW path
  PROVE  FirstOf(scenario.source, ViperLayers \o <<"shell">>, loaded \union {"shell"}, path)
           = IF FileHidesVariable(path) THEN scenario.source[<<path, "file">>]
             ELSE FirstOf(scenario.source, DocumentedOrder, loaded \union {"shell"}, path)
<1> DEFINE source == scenario.source
           order  == ViperLayers \o <<"shell">>
           five   == loaded \union {"shell"}
           A == Setting(source, order, five, path)
           D == Setting(source, DocumentedOrder, five, path)
<1>1. /\ DOMAIN order = {1, 2, 3, 4, 5} /\ order[1] = "flag" /\ order[2] = "env"
      /\ order[3] = "alias" /\ order[4] = "file" /\ order[5] = "shell"
  BY FullOrder, ViperOrder
<1>2. /\ DOMAIN DocumentedOrder = {1, 2, 3, 4, 5}
      /\ DocumentedOrder[1] = "flag" /\ DocumentedOrder[2] = "env"
      /\ DocumentedOrder[3] = "alias" /\ DocumentedOrder[4] = "shell"
      /\ DocumentedOrder[5] = "file"
  BY DEF DocumentedOrder
<1> HIDE DEF order
<1>3. /\ A \subseteq {1, 2, 3, 4, 5}
      /\ 1 \in A <=> Sets(path, "flag")
      /\ 2 \in A <=> Sets(path, "env")
      /\ 3 \in A <=> Sets(path, "alias")
      /\ 4 \in A <=> Sets(path, "file")
      /\ 5 \in A <=> <<path, "shell">> \in DOMAIN source
  BY <1>1 DEF Setting, Sets
<1>4. /\ D \subseteq {1, 2, 3, 4, 5}
      /\ \A i \in {1, 2, 3} : i \in D <=> i \in A
      /\ 4 \in D <=> 5 \in A
      /\ 5 \in D <=> 4 \in A
  BY <1>1, <1>2 DEF Setting
<1>5. FileHidesVariable(path) <=> 5 \in A /\ 4 \in A /\ \A i \in {1, 2, 3} : i \notin A
  BY <1>3 DEF FileHidesVariable
<1>6. \A i \in A : (\A j \in {1, 2, 3, 4, 5} : j < i => j \notin A) =>
        FirstOf(source, order, five, path) = source[<<path, order[i]>>]
  BY <1>1, FirstOfFive
<1>7. \A i \in D : (\A j \in {1, 2, 3, 4, 5} : j < i => j \notin D) =>
        FirstOf(source, DocumentedOrder, five, path) = source[<<path, DocumentedOrder[i]>>]
  BY <1>2, FirstOfFive
<1>8. A = {} => FirstOf(source, order, five, path) = Unset
  BY NoSetting
<1>9. D = {} => FirstOf(source, DocumentedOrder, five, path) = Unset
  BY NoSetting
<1> DEFINE actual == FirstOf(source, order, five, path)
           stated == FirstOf(source, DocumentedOrder, five, path)
<1> HIDE DEF A, D, actual, stated, source, five
<1> SUFFICES actual = IF FileHidesVariable(path) THEN source[<<path, "file">>] ELSE stated
  BY DEF actual, stated, source, five, order
<1>10. CASE 1 \in A
  <2>1. actual = source[<<path, "flag">>]
    BY <1>1, <1>6, <1>10 DEF actual
  <2>2. stated = source[<<path, "flag">>]
    BY <1>2, <1>4, <1>7, <1>10 DEF stated
  <2> QED BY <1>5, <2>1, <2>2, <1>10
<1>11. CASE 1 \notin A /\ 2 \in A
  <2>1. actual = source[<<path, "env">>]
    BY <1>1, <1>6, <1>11 DEF actual
  <2>2. stated = source[<<path, "env">>]
    BY <1>2, <1>4, <1>7, <1>11 DEF stated
  <2> QED BY <1>5, <2>1, <2>2, <1>11
<1>12. CASE 1 \notin A /\ 2 \notin A /\ 3 \in A
  <2>1. actual = source[<<path, "alias">>]
    BY <1>1, <1>6, <1>12 DEF actual
  <2>2. stated = source[<<path, "alias">>]
    BY <1>2, <1>4, <1>7, <1>12 DEF stated
  <2> QED BY <1>5, <2>1, <2>2, <1>12
<1>13. CASE \A i \in {1, 2, 3} : i \notin A
  <2>1. CASE 4 \in A
    <3>1. actual = source[<<path, "file">>]
      BY <1>1, <1>6, <1>13, <2>1 DEF actual
    <3>2. CASE 5 \in A
      BY <1>5, <1>13, <2>1, <3>1, <3>2
    <3>3. CASE 5 \notin A
      <4>1. stated = source[<<path, "file">>]
        BY <1>2, <1>4, <1>7, <1>13, <2>1, <3>3 DEF stated
      <4> QED BY <1>5, <3>1, <3>3, <4>1
    <3> QED BY <3>2, <3>3
  <2>2. CASE 4 \notin A /\ 5 \in A
    <3>1. actual = source[<<path, "shell">>]
      BY <1>1, <1>6, <1>13, <2>2 DEF actual
    <3>2. stated = source[<<path, "shell">>]
      BY <1>2, <1>4, <1>7, <1>13, <2>2 DEF stated
    <3> QED BY <1>5, <2>2, <3>1, <3>2
  <2>3. CASE 4 \notin A /\ 5 \notin A
    <3>1. A = {} /\ D = {}
      BY <1>3, <1>4, <1>13, <2>3
    <3> QED BY <1>5, <1>8, <1>9, <2>3, <3>1 DEF actual, stated
  <2> QED BY <2>1, <2>2, <2>3
<1> QED BY <1>10, <1>11, <1>12, <1>13

\* The fields that applyDefaults decides one by one.
Plain == {"authMode", "tenantModel", "url", "namespace", "runID", "brokerType",
          "adapterRef", "logLevel"}

\* No unprefixed variable is read for a field that applyDefaults does not take one for.
LEMMA NoShell ==
  ASSUME scenario \in Scenarios, NEW field \in Plain \union {"apiRef"}, field \notin FromShell
  PROVE  Shell(PathOf[field]) = Unset
<1> DEFINE path == PathOf[field]
           one == <<"shell">>
<1>1. path \notin {PathOf[f] : f \in FromShell}
  BY DEF PathOf, Plain, FromShell
<1> HIDE DEF path
<1>2. <<path, "shell">> \notin DOMAIN scenario.source
  <2>1. <<path, "shell">>[1] = path /\ <<path, "shell">>[2] = "shell"
    OBVIOUS
  <2> QED BY <1>1, <2>1, ShellAssumption
<1>3. DOMAIN one = {1} /\ one[1] = "shell"
  OBVIOUS
<1> HIDE DEF one
<1>4. Setting(scenario.source, one, {"shell"}, path) = {}
  BY <1>2, <1>3 DEF Setting
<1> QED BY <1>4, NoSetting DEF Shell, one, path

\* What viper and applyDefaults make of one field is its highest setting, or the default.
LEMMA OnePriority ==
  ASSUME scenario \in Scenarios, "shell" \notin loaded, NoBlanks,
         NEW field \in Plain \union {"apiRef"}
  PROVE  Or(ViperGet(PathOf[field]),
            Or(IF field \in FromShell THEN Shell(PathOf[field]) ELSE Unset, DefaultOf(field)))
           = Prioritized(field)
<1> DEFINE path == PathOf[field]
           S == Setting(scenario.source, ViperLayers, loaded, path)
           all == FirstOf(scenario.source, ViperLayers \o <<"shell">>,
                          loaded \union {"shell"}, path)
<1>1. (IF field \in FromShell THEN Shell(path) ELSE Unset) = Shell(path)
  BY NoShell
<1>2. Prioritized(field) = Or(all, DefaultOf(field))
  BY DocumentedButTheFile DEF Prioritized
<1>3. CASE S = {}
  <2>1. all = Shell(path) BY <1>3, ShellIsLast
  <2>2. ViperGet(path) = Unset BY <1>3, NoSetting DEF ViperGet
  <2> HIDE DEF all, path
  <2> QED BY <1>1, <1>2, <2>1, <2>2 DEF Or, path
<1>4. CASE S # {}
  <2>1. all = ViperGet(path) BY <1>4, ShellIsLast
  <2>2. DOMAIN ViperLayers \subseteq Nat BY ViperOrder
  <2>3. S \in SUBSET Nat BY <2>2 DEF Setting
  <2>4. PICK i \in S : \A j \in S : i <= j BY <1>4, <2>3, LeastNumber
  <2>5. ViperGet(path) = scenario.source[<<path, ViperLayers[i]>>]
    BY <2>2, <2>4, FirstSetting DEF ViperGet
  <2>6. <<path, ViperLayers[i]>> \in DOMAIN scenario.source BY DEF Setting
  <2>7. ViperGet(path) # Unset BY <2>5, <2>6 DEF NoBlanks
  <2> HIDE DEF all, path
  <2> QED BY <1>2, <2>1, <2>7 DEF Or, path
<1> QED BY <1>3, <1>4

\* What WithDefaults makes of the fields that HighestLayerWins is about.
LEMMA Defaulted ==
  ASSUME NEW c, DOMAIN c = DOMAIN NoConfig
  PROVE  LET of(f) == Or(c[f], Or(IF f \in FromShell THEN Shell(PathOf[f]) ELSE Unset,
                                  DefaultOf(f)))
         IN  /\ \A f \in Plain : WithDefaults(c)[f] = of(f)
             /\ WithDefaults(c).apiRef = Or(of("apiRef"), of("adapterRef"))
<1> DEFINE of(f) == Or(c[f], Or(IF f \in FromShell THEN Shell(PathOf[f]) ELSE Unset,
                                DefaultOf(f)))
           base == [f \in DOMAIN c |->
                      IF f \in Durations THEN (IF c[f] = 0 THEN DefaultDuration[f] ELSE c[f])
                      ELSE of(f)]
<1>1. Plain \union {"apiRef"} \subseteq DOMAIN c
  BY DEF NoConfig, Plain
<1>2. \A f \in Plain \union {"apiRef"} :
        f \notin Durations \union {"serviceAccount", "tokenNamespace"}
  BY DEF Plain, Durations
<1>3. \A f \in Plain \union {"apiRef"} : base[f] = of(f)
  BY <1>1, <1>2
<1>4. "apiRef" \notin Plain /\ "adapterRef" \in Plain
  BY DEF Plain
<1>5. \A f \in Plain : WithDefaults(c)[f] = base[f]
  BY <1>1, <1>2, <1>4 DEF WithDefaults
<1>6. WithDefaults(c).apiRef = Or(base.apiRef, base.adapterRef)
  BY <1>1 DEF WithDefaults
<1> QED BY <1>3, <1>4, <1>5, <1>6

AfterDefaults == AfterValidate \union {"validate"}
AfterCatalog  == AfterDefaults \union {"defaults"}

\* A row after the overlay: the duration that viper answered was refused or taken.
OverlaidFrom(row, written) ==
  /\ ~OverlayFault(written)
  /\ row.RequiredAdapters = Overlay(written).RequiredAdapters
  /\ row.Timeouts = Overlay(written).Timeouts

\* Viper has all its layers before the config is unmarshaled, and reads no more of them.
LayerInv ==
  /\ TypeOK
  /\ CatalogInv
  /\ "shell" \notin loaded
  /\ pc \in {"catalog", "defaults"} => cfg = Unmarshaled
  /\ pc \in AfterDefaults => cfg = WithDefaults(Unmarshaled)
  /\ pc \in AfterCatalog \union {"catalog"} => ~UnmarshalFails
  /\ pc \in AfterCatalog => \A i \in DOMAIN rows : OverlaidFrom(rows[i], scenario.table[i])

\* What is unmarshaled, what defaults make of it and what the catalog overlays does not
\* change while the layers do not.
LEMMA SameUnmarshaled ==
  ASSUME UNCHANGED <<scenario, loaded>>
  PROVE  /\ Unmarshaled' = Unmarshaled /\ WithDefaults(Unmarshaled)' = WithDefaults(Unmarshaled)
         /\ UnmarshalFails' <=> UnmarshalFails
         /\ rows' = rows =>
              ((\A i \in DOMAIN rows : OverlaidFrom(rows[i], scenario.table[i]))' <=>
               (\A i \in DOMAIN rows : OverlaidFrom(rows[i], scenario.table[i])))
<1>1. Unmarshaled' = Unmarshaled BY DEF Unmarshaled, ViperGet
<1>2. UnmarshalFails' <=> UnmarshalFails BY DEF UnmarshalFails, ViperGet, Sets
<1>3. rows' = rows =>
        ((\A i \in DOMAIN rows : OverlaidFrom(rows[i], scenario.table[i]))' <=>
         (\A i \in DOMAIN rows : OverlaidFrom(rows[i], scenario.table[i])))
  BY DEF OverlaidFrom, OverlayFault, NotAMap, Overlay, ViperGet, Sets
<1> HIDE DEF Unmarshaled
<1>4. WithDefaults(Unmarshaled)' = WithDefaults(Unmarshaled)
  BY <1>1, SameSettings DEF WithDefaults, Shell
<1> QED BY <1>1, <1>2, <1>3, <1>4

\* Resolving the parents of an overlaid table leaves its adapters and timeouts.
LEMMA CatalogOverlays ==
  ASSUME CatalogInv, pc = "catalog", ~CatalogFails,
         NEW new, new = [i \in DOMAIN rows |-> Resolved(Overlaid, Overlaid[i])],
         NEW i \in DOMAIN new
  PROVE  OverlaidFrom(new[i], scenario.table[i])
<1>1. rows = scenario.table /\ scenario \in Scenarios /\ rows \in Table
  BY TablesTyped DEF CatalogInv, BeforeCatalog
<1>2. i \in DOMAIN rows /\ Overlaid[i] = Overlay(rows[i]) /\ rows[i] \in EntityDescriptor
  BY <1>1, TableRows DEF Overlaid
<1>3. Overlay(rows[i]) \in EntityDescriptor
  BY <1>1, <1>2, OverlaidRow
<1>4. new[i] = Resolved(Overlaid, Overlay(rows[i]))
  BY <1>2
<1>5. /\ new[i].RequiredAdapters = Overlay(rows[i]).RequiredAdapters
      /\ new[i].Timeouts = Overlay(rows[i]).Timeouts
  BY <1>3, <1>4, ResolvedRow
<1>6. ~OverlayFault(rows[i])
  BY <1>2 DEF CatalogFails
<1> QED BY <1>1, <1>5, <1>6 DEF OverlaidFrom

LEMMA NextLayerInv ==
  LayerInv /\ IInv /\ IInv' /\ CatalogInv' /\ [Next]_vars => LayerInv'
<1> SUFFICES ASSUME LayerInv, IInv, IInv', CatalogInv', [Next]_vars PROVE LayerInv'
  OBVIOUS
<1> USE DEF AfterCatalog, AfterDefaults, AfterValidate, Proceed, Refuse
<1>0. TypeOK' BY DEF IInv
<1>1. CASE ReadConfigFile BY <1>0, <1>1 DEF ReadConfigFile, LayerInv
<1>2. CASE BindFlagsAndEnv BY <1>0, <1>2 DEF BindFlagsAndEnv, LayerInv
<1>3. CASE Unmarshal BY <1>0, <1>3, SameUnmarshaled DEF Unmarshal, LayerInv
<1>4. CASE LoadEntityCatalog
  <2>1. CASE CatalogFails /\ Refuse("catalog")
    BY <1>0, <2>1, SameUnmarshaled DEF LayerInv
  <2>2. CASE ~(CatalogFails /\ Refuse("catalog"))
    <3>1. /\ pc = "catalog" /\ ~CatalogFails /\ CatalogInv
          /\ rows' = [i \in DOMAIN rows |-> Resolved(Overlaid, Overlaid[i])]
          /\ pc' = "defaults" /\ UNCHANGED <<scenario, loaded, cfg>>
      BY <1>4, <2>2 DEF LoadEntityCatalog, LayerInv
    <3>2. \A i \in DOMAIN rows' : OverlaidFrom(rows'[i], scenario.table[i])
      BY <3>1, CatalogOverlays
    <3>3. ASSUME NEW i \in DOMAIN rows' PROVE OverlaidFrom(rows[i], scenario.table[i])'
      <4>1. OverlayFault(scenario.table[i])' <=> OverlayFault(scenario.table[i])
        BY <3>1 DEF OverlayFault, NotAMap, ViperGet, Sets
      <4>2. Overlay(scenario.table[i])' = Overlay(scenario.table[i])
        BY <3>1 DEF Overlay, ViperGet
      <4> QED BY <3>2, <4>1, <4>2 DEF OverlaidFrom
    <3> QED BY <1>0, <3>1, <3>3, SameUnmarshaled DEF LayerInv
  <2> QED BY <2>1, <2>2
<1>5. CASE ApplyDefaults BY <1>0, <1>5, SameUnmarshaled DEF ApplyDefaults, LayerInv
<1>6. CASE ValidateConfig BY <1>0, <1>6, SameUnmarshaled DEF ValidateConfig, LayerInv
<1>7. CASE RunTests BY <1>0, <1>7, SameUnmarshaled DEF RunTests, LayerInv
<1>8. CASE ValidateAPIEntityConfig
  BY <1>0, <1>8, SameUnmarshaled DEF ValidateAPIEntityConfig, LayerInv
<1>9. CASE InitLogging BY <1>0, <1>9, SameUnmarshaled DEF InitLogging, LayerInv
<1>10. CASE MintDefaultHuman BY <1>0, <1>10, SameUnmarshaled DEF MintDefaultHuman, LayerInv
<1>11. CASE CheckDefaultHuman BY <1>0, <1>11, SameUnmarshaled DEF CheckDefaultHuman, LayerInv
<1>12. CASE Idle \/ UNCHANGED vars BY <1>0, <1>12, SameUnmarshaled DEF Idle, vars, LayerInv
<1> QED
  BY <1>1, <1>2, <1>3, <1>4, <1>5, <1>6, <1>7, <1>8, <1>9, <1>10, <1>11, <1>12 DEF Next

LEMMA LayerInvariance == Spec => []LayerInv
<1>1. Init => LayerInv
  BY InitIInv DEF Init, IInv, LayerInv, AfterCatalog, AfterDefaults, AfterValidate,
                  CatalogInv, BeforeCatalog, AfterGuard
<1> QED BY <1>1, NextLayerInv, Invariance, CatalogInvariance, PTL DEF Spec

\* What the durations of a configuration with its defaults are.
LEMMA DurationsPrioritized ==
  ASSUME ~UnmarshalFails, NEW f \in Durations
  PROVE  DurationFrom(DurationPath[f], WithDefaults(Unmarshaled)[f], DefaultDuration[f])
<1>1. DOMAIN Unmarshaled = DOMAIN NoConfig BY ConfigFields
<1>2. Unmarshaled[f] = Minutes(ViperGet(DurationPath[f]))
  BY DEF Unmarshaled, NoConfig, Durations
<1>3. WithDefaults(Unmarshaled)[f] =
        IF Unmarshaled[f] = 0 THEN DefaultDuration[f] ELSE Unmarshaled[f]
  BY <1>1, DefaultedDuration
<1>4. ~BareDuration(ViperGet(DurationPath[f])) BY DEF UnmarshalFails
<1>5. Highest(DurationPath[f]) = ViperGet(DurationPath[f]) BY DEF Highest, ViperGet
<1> QED BY <1>2, <1>3, <1>4, <1>5 DEF DurationFrom

\* What the adapters and the durations of an overlaid row are.
LEMMA RowPrioritized ==
  ASSUME NEW row, NEW written \in EntityDescriptor, OverlaidFrom(row, written)
  PROVE  RowFrom(row, written)
<1> DEFINE v == ViperGet(<<"adapters", written.Kind>>)
           m(f) == Minutes(ViperGet(<<"timeouts", written.Kind, f>>))
           timeouts == [f \in TimeoutFields |->
                          IF m(f) = 0 THEN written.Timeouts[f] ELSE m(f)]
           adapters == IF v = Unset THEN written.RequiredAdapters ELSE ViperStringSlice(v)
<1>1. Overlay(written) =
        [[written EXCEPT !.RequiredAdapters = adapters] EXCEPT !.Timeouts = timeouts]
  BY DEF Overlay
<1> HIDE DEF timeouts, adapters
<1>2. Overlay(written).RequiredAdapters = adapters /\ Overlay(written).Timeouts = timeouts
  BY <1>1 DEF EntityDescriptor
<1>3. row.RequiredAdapters = adapters /\ row.Timeouts = timeouts
  BY <1>2 DEF OverlaidFrom
<1>4. ASSUME NEW f \in TimeoutFields
      PROVE  DurationFrom(<<"timeouts", written.Kind, f>>, row.Timeouts[f], written.Timeouts[f])
  <2>1. ~BareDuration(ViperGet(<<"timeouts", written.Kind, f>>))
    BY DEF OverlaidFrom, OverlayFault
  <2>2. row.Timeouts[f] = IF m(f) = 0 THEN written.Timeouts[f] ELSE m(f)
    BY <1>3 DEF timeouts
  <2> QED BY <2>1, <2>2 DEF DurationFrom, Highest, ViperGet
<1> QED BY <1>3, <1>4 DEF RowFrom, Highest, ViperGet, adapters

\* One order of the layers for every setting of every configuration that is not written
\* blank, though viper, BindEnv, the catalog and applyDefaults read them apart.
THEOREM OneOrderOfLayers == Spec => [](NoBlanks => HighestLayerWins)
<1>1. ASSUME LayerInv, NoBlanks PROVE HighestLayerWins
  <2> DEFINE u == Unmarshaled
  <2>1. \A f \in Plain \union {"apiRef"} : u[f] = ViperGet(PathOf[f])
    BY DEF Unmarshaled, NoConfig, Plain, Durations
  <2>2. DOMAIN u = DOMAIN NoConfig BY ConfigFields
  <2>3. pc \in AfterDefaults =>
          \A f \in Durations : DurationFrom(DurationPath[f], cfg[f], DefaultDuration[f])
    BY <1>1, DurationsPrioritized DEF LayerInv, AfterCatalog
  <2> HIDE DEF u
  <2>4. \A f \in Plain \union {"apiRef"} :
          Or(u[f], Or(IF f \in FromShell THEN Shell(PathOf[f]) ELSE Unset, DefaultOf(f)))
            = Prioritized(f)
    BY <1>1, <2>1, OnePriority DEF LayerInv, CatalogInv
  <2>5. "adapterRef" \in Plain BY DEF Plain
  <2>6. /\ \A f \in Plain : WithDefaults(u)[f] = Prioritized(f)
        /\ WithDefaults(u).apiRef = Or(Prioritized("apiRef"), Prioritized("adapterRef"))
    BY <2>2, <2>4, <2>5, Defaulted
  <2>7. pc \in AfterDefaults => cfg = WithDefaults(u) BY <1>1 DEF LayerInv, u
  <2>8. ASSUME pc \in AfterCatalog, NEW i \in DOMAIN rows
        PROVE  RowFrom(rows[i], scenario.table[i])
    <3>1. scenario.table \in Table /\ i \in DOMAIN scenario.table
      BY <1>1, TablesTyped DEF LayerInv, TypeOK
    <3>2. scenario.table[i] \in EntityDescriptor BY <3>1, TableRows
    <3>3. OverlaidFrom(rows[i], scenario.table[i]) BY <1>1, <2>8 DEF LayerInv
    <3> QED BY <3>2, <3>3, RowPrioritized
  <2>9. WithDefaulted = AfterDefaults /\ WithDefaulted \union {"defaults"} = AfterCatalog
    BY DEF WithDefaulted, AfterCatalog, AfterDefaults, AfterValidate
  <2> QED BY <2>3, <2>6, <2>7, <2>8, <2>9 DEF HighestLayerWins, Plain
<1>2. LayerInv => (NoBlanks => HighestLayerWins) BY <1>1
<1> QED BY <1>2, LayerInvariance, PTL
=============================================================================
