------------------------------ MODULE MCStartup ------------------------------
(***************************************************************************)
(* Startup's scenarios for TLC, in three families: the settings of a CI    *)
(* run with up to two deviations; descriptor tables with an arbitrary      *)
(* third row; and deployments of up to three entities.                     *)
(***************************************************************************)
EXTENDS Startup, TLC

MCRunIDs ==
  [r \in {"run-1", "run.1", "-run", "run-", "run 1", "long"} |->
     CASE r = "run-1" -> <<"alnum", "-", "alnum">>
       [] r = "run.1" -> <<"alnum", "._:@+", "alnum">>
       [] r = "-run"  -> <<"-", "alnum">>
       [] r = "run-"  -> <<"alnum", "-">>
       [] r = "run 1" -> <<"alnum", "other", "alnum">>
       [] r = "long"  -> [i \in 1..64 |-> "alnum"]]

\* A release that serves a table.
Serving(table) ==
  [i \in DOMAIN table |->
     [Kind |-> table[i].Kind, Plural |-> table[i].Plural,
      ParentKind |-> table[i].ParentKind, OnParentDelete |-> table[i].OnParentDelete]]

------------------------------------------------------------------------------
(* Settings                                                                *)

CIRun ==
  <<<<"api", "url">>, "env">>     :> "http://api" @@
  <<<<"auth_mode">>, "file">>     :> "EDGE+API"   @@
  <<<<"tenant_model">>, "file">>  :> "onprem"     @@
  <<<<"namespace">>, "shell">>    :> "ns"         @@
  <<<<"runId">>, "shell">>        :> "run-1"

At(path, layers, values) == {<<<<path, layer>>, v>> : layer \in layers, v \in values}

Deviations ==
  LET account == <<"identity", "tokenRequest", "serviceAccountName">>
  IN  UNION {
        At(<<"api", "url">>, {"flag", "env"}, {Unset, "api:8000"}),
        At(<<"auth_mode">>, {"env", "alias"}, {"NONE", "API", "BOTH"}),
        At(<<"tenant_model">>, {"env", "alias"}, {"oracle", "gcp"}),
        At(<<"namespace">>, {"shell"}, {Unset}),
        At(<<"namespace">>, {"env", "file"}, {"other"}),
        At(<<"runId">>, {"shell"}, {Unset} \union DOMAIN MCRunIDs),
        At(<<"runId">>, {"file"}, {"run 1", "run-"}),
        At(<<"brokerType">>, {"file", "shell"}, {"rabbitmq", "kafka"}),
        At(<<"adapterDeployment", "chartRef">>, {"file", "shell"}, {"v1"}),
        At(<<"apiDeployment", "chartRef">>, {"shell"}, {"v2"}),
        At(account, {"env"}, {RunnerServiceAccount, "default"}),
        At(<<"identity", "tokenRequest", "namespace">>, {"file"}, {"other", "ns"}),
        At(<<"log", "level">>, {"flag", "env"}, {"debug", "verbose"}),
        At(DurationPath["interval"], {"env", "file"}, {"5m", "0s", "-1m", "300"}),
        At(DurationPath["processing"], {"env", "file"}, {"10m", "0s", "-1m", "300"}),
        At(<<"timeouts", "adapter">>, {"file"}, {"10m"}),
        At(<<"tests", "dryRun">>, {"flag", "alias"}, {"true", "false"}),
        At(<<"adapters">>, {"env"}, {"cl-job"}),
        At(<<"adapters", "Cluster">>, {"env", "alias", "file"}, {"a, b", " , "}),
        At(<<"adapters", "Clusters">>, {"env", "file"}, {"cl-job"}),
        At(<<"timeouts">>, {"env", "file"}, {"5m"}),
        At(<<"timeouts", "NodePool">>, {"env", "file"}, {"5m"}),
        At(<<"timeouts", "NodePools", "Deleted">>, {"file"}, {"5m"}),
        At(<<"timeouts", "Cluster", "Delete">>, {"file"}, {"5m"}),
        At(<<"timeouts", "Cluster", "Deleted">>, {"env", "file"}, {"5m", "0s", "-1m", "300"})}

\* A source with deviations; a file has no path below a scalar.
Deviating(ds) ==
  LET set  == [setting \in {d[1] : d \in ds} |->
                 (CHOOSE d \in ds : d[1] = setting)[2]]
      both == set @@ CIRun
  IN  [setting \in {s \in DOMAIN both : both[s] # Unset} |-> both[setting]]

WellFormed(source) ==
  \A s, t \in DOMAIN source :
    s[2] = "file" /\ t[2] = "file" /\ Len(s[1]) < Len(t[1]) =>
      \E i \in DOMAIN s[1] : s[1][i] # t[1][i]

Sources ==
  {source \in {Deviating({d, e}) : d, e \in Deviations} : WellFormed(source)}

Scenario(source, file, table, deployed) ==
  [source |-> source, file |-> file, table |-> table, deployed |-> deployed]

SettingScenarios ==
  {Scenario(source, "readable", EntityDescriptors, Serving(EntityDescriptors)) :
     source \in Sources}
  \union
  {Scenario(CIRun, file, EntityDescriptors, Serving(EntityDescriptors)) : file \in FileStates}

------------------------------------------------------------------------------
(* Tables and deployments                                                  *)

Waiting == CleanupPolicy({"WaitForHardDelete"}, << >>)
NotWaiting(children) == CleanupPolicy({"IgnoreNotFound"}, children)

Row(kind, plural, parent, policy, adapters, reconciled, deleted, cleanup) ==
  [NestedRow(kind, plural, parent, policy, adapters, cleanup)
     EXCEPT !.Timeouts = [Reconciled |-> reconciled, Deleted |-> deleted]]

Root  == Row("Cluster", "clusters", "", "", {"cl-job"}, 2, 2, Waiting)
Child == Row("NodePool", "nodepools", "Cluster", "cascade", {}, 0, 2, Waiting)

\* The timeouts and the policies that a row's timeouts may contradict.
Timings ==
  {<<{}, 0, 0, NotWaiting(<< >>)>>, <<{"x"}, 0, 2, Waiting>>, <<{"x"}, 2, 0, Waiting>>,
   <<{"x"}, 2, -1, NotWaiting(<< >>)>>,
   <<{}, 0, 0, NotWaiting(<<"NodePool">>)>>, <<{}, 0, 0, NotWaiting(<<"X">>)>>}

ThirdRows ==
  {Row(kind, plural, parent, policy, t[1], t[2], t[3], t[4]) :
     kind \in {"X", "Cluster", " "}, plural \in {"xs", "clusters", "a b"},
     parent \in {"", "Cluster", "NodePool", "X", "Ghost"},
     policy \in {"", "cascade", "orphan"}, t \in Timings}
  \union
  \* A row that states its parent's plural, rightly or not.
  {[Row("X", "xs", parent, "cascade", {}, 0, 0, NotWaiting(<< >>)) EXCEPT !.ParentPlural = p] :
     parent \in {"", "Cluster"}, p \in {"clusters", "nodepools"}}

\* A root, or a first row that closes a cycle with the second or the third.
FirstRows ==
  {Root} \union
  {[Root EXCEPT !.ParentKind = k, !.OnParentDelete = "cascade"] : k \in {"NodePool", "X"}}

TableScenarios ==
  {Scenario(CIRun, "readable", <<first, Child, third>>, Serving(<<first, Child, third>>)) :
     first \in FirstRows, third \in ThirdRows}

Entity(kind, plural, parent, policy) ==
  [Kind |-> kind, Plural |-> plural, ParentKind |-> parent, OnParentDelete |-> policy]

Entities ==
  {Entity("Cluster", "clusters", "", ""), Entity("Cluster", "clusters ", "", ""),
   Entity("Cluster", "", "", ""), Entity("Cluster", "nodepools", "", ""),
   Entity("NodePool", "nodepools", "Cluster", "cascade"),
   Entity("NodePool", "nodepools", "Cluster", "restrict"),
   Entity("NodePool", "nodepools", "", ""),
   Entity(" ", "nodepools", "", ""), Entity("Extra", "extras", "", ""),
   Entity("Extra", "clusters", "", "")}

DeploymentScenarios ==
  {Scenario(CIRun, "readable", <<Root, Child>>, deployed) :
     deployed \in UNION {[1..n -> Entities] : n \in 0..3}}

MCScenarios == SettingScenarios \union TableScenarios \union DeploymentScenarios
==============================================================================
