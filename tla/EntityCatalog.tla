--------------------------- MODULE EntityCatalog ---------------------------
(***************************************************************************)
(* What the suite makes of a descriptor table and of the entities a        *)
(* deployed API serves: NewCatalog (pkg/descriptor/descriptor.go) accepts  *)
(* or refuses the table, and apiEntityDiffs (pkg/helper/                   *)
(* api_entity_config.go) lists how the deployment differs from it.  Rows   *)
(* are the records of EntityTable; a deployed entity is a record           *)
(* [Kind, Plural, ParentKind, OnParentDelete].  A definition named after   *)
(* another one with a suffix is its mutated form.                          *)
(***************************************************************************)
EXTENDS EntityTable, FiniteSets, Functions

\* An entity of the deployed configuration.
ApiEntity ==
  [Kind : STRING, Plural : STRING, ParentKind : STRING, OnParentDelete : STRING]

\* What strings.TrimSpace does to the few strings of a table that it changes.
TrimSpace(s) ==
  CASE s = " " -> "" [] s = "clusters " -> "clusters" [] OTHER -> s

\* A plural that is one path segment: "a b" stands for those that escaping would change.
ValidSegment(s) == s \notin {"", ".", "..", " ", "a b"}

KindsOf(rows) == {rows[i].Kind : i \in DOMAIN rows}
RowOf(rows, kind) == rows[CHOOSE i \in DOMAIN rows : rows[i].Kind = kind]

------------------------------------------------------------------------------
(* NewCatalog                                                              *)

\* The first loop: every entry is named, routed and unlike the entries before it.
InsertFault_KeepsPlurals(rows) ==
  \E i \in DOMAIN rows :
    \/ TrimSpace(rows[i].Kind) = "" \/ ~ValidSegment(rows[i].Plural)
    \/ \E j \in 1..(i - 1) : rows[j].Kind = rows[i].Kind

InsertFault(rows) ==
  \E i \in DOMAIN rows :
    \/ TrimSpace(rows[i].Kind) = "" \/ ~ValidSegment(rows[i].Plural)
    \/ \E j \in 1..(i - 1) : rows[j].Kind = rows[i].Kind \/ rows[j].Plural = rows[i].Plural

\* The row with its ParentPlural resolved.
Resolved(rows, row) ==
  IF row.ParentKind \in KindsOf(rows)
  THEN [row EXCEPT !.ParentPlural = RowOf(rows, row.ParentKind).Plural]
  ELSE row

Validate(row) ==
  /\ TrimSpace(row.Kind) # "" /\ ValidSegment(row.Plural)
  /\ IF row.ParentKind = ""
     THEN row.ParentPlural = "" /\ row.OnParentDelete = ""
     ELSE ValidSegment(row.ParentPlural) /\ row.OnParentDelete \in {"cascade", "restrict"}
  /\ row.Timeouts.Reconciled >= 0 /\ row.Timeouts.Deleted >= 0
  /\ row.RequiredAdapters # {} => row.Timeouts.Reconciled # 0
  /\ row.Cleanup.WaitForHardDelete => row.Timeouts.Deleted > 0

\* The walk from a kind to its ancestors; a kind that is not there has no parent.
Ancestor(rows, kind) ==
  LET up[n \in 0..Len(rows)] ==
        IF n = 0 THEN kind
        ELSE IF up[n - 1] \in KindsOf(rows) THEN RowOf(rows, up[n - 1]).ParentKind ELSE ""
  IN  up

Cyclic_Itself(rows, kind) == Ancestor(rows, kind)[1] = kind

Cyclic(rows, kind) ==
  LET up == Ancestor(rows, kind)
  IN  \E n \in DOMAIN up : up[n] # "" /\ \E m \in 0..(n - 1) : up[m] = up[n]

\* The second loop visits the entries in an order the map chooses. It resolves the one
\* it visits and reads what no visit changes, so the order decides only whose fault is
\* reported.
RowFault(rows, row) ==
  \/ row.ParentKind # "" /\ row.ParentKind \notin KindsOf(rows)
  \/ row.ParentPlural \notin {"", Resolved(rows, row).ParentPlural}
  \/ ~Validate(Resolved(rows, row))
  \/ Cyclic(rows, row.Kind)
  \/ ~(Range(row.Cleanup.ChildKinds) \subseteq
         {rows[i].Kind : i \in {j \in DOMAIN rows : rows[j].ParentKind = row.Kind}})

NewCatalogFails(rows) ==
  InsertFault(rows) \/ \E i \in DOMAIN rows : RowFault(rows, rows[i])

------------------------------------------------------------------------------
(* structuralEntityDiffs and apiEntityDiffs: sets of <<kind, what is wrong>> *)

\* The entries indexed by kind: the first of each kind that has one.
Indexed(deployed) ==
  {i \in DOMAIN deployed :
     /\ TrimSpace(deployed[i].Kind) # ""
     /\ \A j \in 1..(i - 1) : deployed[j].Kind # deployed[i].Kind}

StructuralDiff(deployed, i) ==
  LET entity == deployed[i]
      plural == TrimSpace(entity.Plural)
  IN  CASE TrimSpace(entity.Kind) = ""     -> "without a kind"
        [] i \notin Indexed(deployed) /\ TrimSpace(entity.Kind) # "" -> "duplicate kind"
        [] i \in Indexed(deployed) /\ plural = "" -> "plural is empty"
        [] /\ i \in Indexed(deployed) /\ plural # ""
           /\ \E j \in Indexed(deployed) : j < i /\ TrimSpace(deployed[j].Plural) = plural
             -> "plural is already used"
        [] OTHER -> "none"

StructuralDiffs(deployed) ==
  {<<deployed[i].Kind, StructuralDiff(deployed, i)>> : i \in DOMAIN deployed}
    \ {<<deployed[i].Kind, "none">> : i \in DOMAIN deployed}

RowDiffs(row, deployed) ==
  LET mine == {i \in Indexed(deployed) : deployed[i].Kind = row.Kind}
  IN  IF mine = {} THEN {<<row.Kind, "missing">>}
      ELSE LET got == deployed[CHOOSE i \in mine : TRUE]
           IN  {<<row.Kind, field>> :
                  field \in {f \in {"Plural", "ParentKind", "OnParentDelete"} : got[f] # row[f]}}

ApiEntityDiffs_FieldsOnly(expected, deployed) ==
  IF deployed = << >> THEN {<<"", "missing or empty">>}
  ELSE UNION {RowDiffs(expected[i], deployed) : i \in DOMAIN expected}

ApiEntityDiffs(expected, deployed) ==
  IF deployed = << >> THEN {<<"", "missing or empty">>}
  ELSE StructuralDiffs(deployed) \union
       UNION {RowDiffs(expected[i], deployed) : i \in DOMAIN expected}

------------------------------------------------------------------------------
(* Reference definitions, not translated from the code: what a table must  *)
(* be for the suite to route, wait and clean up by it, and what a          *)
(* deployment must be to serve it.                                         *)

\* Every kind's resources have one place, every place one kind; parents exist, and no set
\* of kinds has all its parents within; a parent's plural, where the row gives one, is the
\* parent's; what is waited for has a deadline to wait with.
Usable(rows) ==
  LET kinds  == KindsOf(rows)
      parent == [k \in kinds |-> RowOf(rows, k).ParentKind]
  IN  /\ \A i, j \in DOMAIN rows :
           i # j => rows[i].Kind # rows[j].Kind /\ rows[i].Plural # rows[j].Plural
      /\ \A k \in kinds : parent[k] \in kinds \union {""}
      /\ \A s \in SUBSET kinds : (\A k \in s : parent[k] \in s) => s = {}
      /\ \A i \in DOMAIN rows :
           LET row == rows[i]
           IN  /\ TrimSpace(row.Kind) # "" /\ ValidSegment(row.Plural)
               /\ row.OnParentDelete \in (IF row.ParentKind = "" THEN {""}
                                                              ELSE {"cascade", "restrict"})
               /\ row.ParentPlural # "" =>
                    row.ParentKind # "" /\ row.ParentPlural = RowOf(rows, row.ParentKind).Plural
               /\ row.RequiredAdapters # {} => row.Timeouts.Reconciled > 0
               /\ row.Cleanup.WaitForHardDelete => row.Timeouts.Deleted > 0
               /\ row.Timeouts.Reconciled >= 0 /\ row.Timeouts.Deleted >= 0
               /\ \A c \in Range(row.Cleanup.ChildKinds) : c \in kinds /\ parent[c] = row.Kind

\* The deployment names every kind and every plural once, and serves the expected rows.
Serves(deployed, expected) ==
  /\ deployed # << >>
  /\ \A i \in DOMAIN deployed :
       /\ TrimSpace(deployed[i].Kind) # "" /\ TrimSpace(deployed[i].Plural) # ""
       /\ \A j \in DOMAIN deployed : i # j =>
            /\ deployed[i].Kind # deployed[j].Kind
            /\ TrimSpace(deployed[i].Plural) # TrimSpace(deployed[j].Plural)
  /\ \A e \in DOMAIN expected : \E d \in DOMAIN deployed :
       \A f \in {"Kind", "Plural", "ParentKind", "OnParentDelete"} :
         deployed[d][f] = expected[e][f]
==============================================================================
