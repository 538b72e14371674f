------------------------ MODULE EntityCatalogProofs ------------------------
(***************************************************************************)
(* Proofs about the checks of EntityCatalog, for tables and deployments of *)
(* any size: NewCatalog accepts exactly the usable tables, and the drift   *)
(* guard reports exactly the deployments that do not serve the table.      *)
(***************************************************************************)
EXTENDS EntityCatalog, FiniteSetTheorems, WellFoundedInduction, TLAPS

------------------------------------------------------------------------------
(* Natural numbers: induction stated with sets, which the provers can      *)
(* instantiate.                                                            *)

LEMMA LessThanIsWellFounded ==
  \E R : IsWellFoundedOn(R, Nat) /\ \A x, y \in Nat : y < x => <<y, x>> \in R
<1>1. IsWellFoundedOn(OpToRel(<, Nat), Nat)
  BY NatLessThanWellFounded
<1>2. \A x, y \in Nat : y < x => <<y, x>> \in OpToRel(<, Nat)
  BY DEF OpToRel
<1> QED BY <1>1, <1>2, Zenon

\* A set of naturals with a member has a least one.
LEMMA LeastNumber ==
  ASSUME NEW T \in SUBSET Nat, T # {}
  PROVE  \E x \in T : \A y \in T : x <= y
<1>1. PICK R : IsWellFoundedOn(R, Nat) /\ \A x, y \in Nat : y < x => <<y, x>> \in R
  BY LessThanIsWellFounded
<1>2. PICK x \in T : \A y \in T : ~(<<y, x>> \in R)
  BY <1>1, WFMin
<1>3. \A y \in T : ~(y < x)
  BY <1>1, <1>2
<1> QED BY <1>2, <1>3

\* A set that has 0 and, with each of its members, the next number has every number.
LEMMA Induction ==
  ASSUME NEW T, 0 \in T, \A n \in Nat : n \in T => n + 1 \in T
  PROVE  Nat \subseteq T
<1> SUFFICES ASSUME Nat \ T # {} PROVE FALSE
  OBVIOUS
<1>1. PICK x \in Nat \ T : \A y \in Nat \ T : x <= y
  BY LeastNumber
<1>2. x # 0 /\ x - 1 \in Nat
  BY <1>1
<1>3. x - 1 \in T
  BY <1>1, <1>2
<1> QED BY <1>1, <1>2, <1>3

------------------------------------------------------------------------------
(* The walk to the ancestors                                               *)

\* Where the walk goes from a kind.
Parent(rows, kind) == IF kind \in KindsOf(rows) THEN RowOf(rows, kind).ParentKind ELSE ""

\* A walk of a number of steps.
IsWalk(up, rows, kind, len) ==
  up = [n \in 0..len |-> IF n = 0 THEN kind ELSE Parent(rows, up[n - 1])]

\* The recursive function of Ancestor is defined: there is a walk of every length.
LEMMA WalkExists ==
  ASSUME NEW rows, NEW kind, NEW len \in Nat
  PROVE  \E up : IsWalk(up, rows, kind, len)
<1> DEFINE T == {m \in Nat : \E up : IsWalk(up, rows, kind, m)}
<1>1. 0 \in T
  <2>1. IsWalk([n \in 0..0 |-> kind], rows, kind, 0)
    BY DEF IsWalk
  <2> QED BY <2>1
<1>2. ASSUME NEW m \in Nat, m \in T PROVE m + 1 \in T
  <2>1. PICK up : IsWalk(up, rows, kind, m)
    BY <1>2
  <2> DEFINE longer == [n \in 0..(m + 1) |-> IF n = m + 1 THEN Parent(rows, up[m]) ELSE up[n]]
  <2>2. IsWalk(longer, rows, kind, m + 1)
    <3>1. ASSUME NEW n \in 0..(m + 1)
          PROVE  longer[n] = IF n = 0 THEN kind ELSE Parent(rows, longer[n - 1])
      <4>1. CASE n = m + 1
        <5>1. longer[n] = Parent(rows, up[m]) /\ longer[m] = up[m] /\ n - 1 = m /\ n # 0
          BY <4>1
        <5> QED BY <5>1
      <4>2. CASE n # m + 1
        <5>1. n \in 0..m /\ longer[n] = up[n] /\ (n # 0 => n - 1 \in 0..m /\ longer[n - 1] = up[n - 1])
          BY <4>2
        <5>2. up[n] = IF n = 0 THEN kind ELSE Parent(rows, up[n - 1])
          BY <2>1, <5>1 DEF IsWalk
        <5> QED BY <5>1, <5>2
      <4> QED BY <4>1, <4>2
    <3>2. longer = [n \in 0..(m + 1) |-> longer[n]]
      OBVIOUS
    <3> HIDE DEF longer
    <3> QED BY <3>1, <3>2 DEF IsWalk
  <2> HIDE DEF longer
  <2> QED BY <2>2
<1>3. Nat \subseteq T
  <2> HIDE DEF T
  <2> QED BY <1>1, <1>2, Induction
<1> QED BY <1>3

\* The walk starts at the kind and goes on to the parent of where it is.
LEMMA Walks ==
  ASSUME NEW rows, Len(rows) \in Nat, NEW kind
  PROVE  LET up == Ancestor(rows, kind)
         IN  /\ DOMAIN up = 0..Len(rows)
             /\ up[0] = kind
             /\ \A n \in 1..Len(rows) : up[n] = Parent(rows, up[n - 1])
<1> DEFINE up == CHOOSE g : IsWalk(g, rows, kind, Len(rows))
<1>1. Ancestor(rows, kind) = up
  BY DEF Ancestor, Parent, IsWalk
<1>2. IsWalk(up, rows, kind, Len(rows))
  BY WalkExists
<1> HIDE DEF up
<1>3. /\ DOMAIN up = 0..Len(rows)
      /\ up[0] = kind
      /\ \A n \in 1..Len(rows) : up[n] = Parent(rows, up[n - 1])
  <2>1. \A n \in 0..Len(rows) : up[n] = IF n = 0 THEN kind ELSE Parent(rows, up[n - 1])
    BY <1>2 DEF IsWalk
  <2> QED BY <1>2, <2>1 DEF IsWalk
<1> QED BY <1>1, <1>3

------------------------------------------------------------------------------
(* Tables                                                                  *)

Table == Seq(EntityDescriptor)

Distinct(rows) ==
  \A i, j \in DOMAIN rows :
    i # j => rows[i].Kind # rows[j].Kind /\ rows[i].Plural # rows[j].Plural

Named(rows) ==
  \A i \in DOMAIN rows : TrimSpace(rows[i].Kind) # "" /\ ValidSegment(rows[i].Plural)

\* No set of kinds has all its parents within.
Rooted(rows) ==
  \A s \in SUBSET KindsOf(rows) : (\A k \in s : Parent(rows, k) \in s) => s = {}

\* A table's rows.
LEMMA TableRows ==
  ASSUME NEW rows \in Table
  PROVE  /\ Len(rows) \in Nat /\ DOMAIN rows = 1..Len(rows)
         /\ \A i \in DOMAIN rows : rows[i] \in EntityDescriptor
BY DEF Table

\* The row found for a kind is one of that kind.
LEMMA RowFound ==
  ASSUME NEW rows, NEW kind \in KindsOf(rows)
  PROVE  \E i \in DOMAIN rows : RowOf(rows, kind) = rows[i] /\ rows[i].Kind = kind
<1> DEFINE mine == {i \in DOMAIN rows : rows[i].Kind = kind}
           found == CHOOSE i \in DOMAIN rows : rows[i].Kind = kind
<1>1. \E i \in DOMAIN rows : rows[i].Kind = kind
  BY DEF KindsOf
<1>2. found \in DOMAIN rows /\ rows[found].Kind = kind
  BY <1>1
<1>3. RowOf(rows, kind) = rows[found]
  BY DEF RowOf
<1> QED BY <1>2, <1>3

\* Where kinds are distinct, it is the only one.
LEMMA OnlyRow ==
  ASSUME NEW rows, Distinct(rows), NEW i \in DOMAIN rows
  PROVE  rows[i].Kind \in KindsOf(rows) /\ RowOf(rows, rows[i].Kind) = rows[i]
<1>1. rows[i].Kind \in KindsOf(rows)
  BY DEF KindsOf
<1>2. PICK j \in DOMAIN rows : RowOf(rows, rows[i].Kind) = rows[j] /\ rows[j].Kind = rows[i].Kind
  BY <1>1, RowFound
<1> QED BY <1>1, <1>2 DEF Distinct

\* A table has at most as many kinds as rows.
LEMMA KindCount ==
  ASSUME NEW rows \in Table
  PROVE  IsFiniteSet(KindsOf(rows)) /\ Cardinality(KindsOf(rows)) <= Len(rows)
<1> DEFINE f == [i \in 1..Len(rows) |-> rows[i].Kind]
<1>1. Len(rows) \in Nat /\ DOMAIN rows = 1..Len(rows)
  BY TableRows
<1>2. f \in Surjection(1..Len(rows), KindsOf(rows))
  BY <1>1 DEF Surjection, KindsOf
<1> HIDE DEF f
<1>3. IsFiniteSet(1..Len(rows)) /\ Cardinality(1..Len(rows)) = Len(rows)
  <2>1. 1 \in Int /\ Len(rows) \in Int
    BY <1>1
  <2>2. /\ IsFiniteSet(1..Len(rows))
        /\ Cardinality(1..Len(rows)) = IF 1 > Len(rows) THEN 0 ELSE Len(rows) - 1 + 1
    BY <2>1, FS_Interval
  <2> QED BY <1>1, <2>2
<1> QED BY <1>2, <1>3, FS_Surjection

\* A table whose kinds are named has no kind that is blank.
LEMMA NoBlankKind ==
  ASSUME NEW rows, Named(rows)
  PROVE  "" \notin KindsOf(rows)
<1>1. TrimSpace("") = ""
  BY DEF TrimSpace
<1> QED BY <1>1 DEF Named, KindsOf

\* A walk that never leaves a set of kinds meets itself: there are fewer kinds than steps.
LEMMA ClosedMeansCyclic ==
  ASSUME NEW rows \in Table, Named(rows),
         NEW s \in SUBSET KindsOf(rows), \A k \in s : Parent(rows, k) \in s,
         NEW kind \in s
  PROVE  Cyclic(rows, kind)
<1> DEFINE up == Ancestor(rows, kind)
           T  == {n \in Nat : n <= Len(rows) => up[n] \in s}
<1>1. Len(rows) \in Nat
  BY TableRows
<1>2. /\ DOMAIN up = 0..Len(rows) /\ up[0] = kind
      /\ \A n \in 1..Len(rows) : up[n] = Parent(rows, up[n - 1])
  BY <1>1, Walks
<1> HIDE DEF up
<1>3. 0 \in T
  BY <1>2
<1>4. ASSUME NEW n \in Nat, n \in T PROVE n + 1 \in T
  <2> SUFFICES ASSUME n + 1 <= Len(rows) PROVE up[n + 1] \in s
    OBVIOUS
  <2>1. up[n] \in s
    BY <1>1, <1>4
  <2>2. n + 1 \in 1..Len(rows) /\ (n + 1) - 1 = n
    BY <1>1
  <2>3. up[n + 1] = Parent(rows, up[n])
    BY <1>2, <2>2
  <2> QED BY <2>1, <2>3
<1>5. Nat \subseteq T
  <2> HIDE DEF T
  <2> QED BY <1>3, <1>4, Induction
<1>6. \A n \in 0..Len(rows) : up[n] \in s
  BY <1>1, <1>5
<1>7. IsFiniteSet(s) /\ Cardinality(s) \in Nat /\ Cardinality(s) <= Len(rows)
  <2>1. /\ IsFiniteSet(KindsOf(rows)) /\ Cardinality(KindsOf(rows)) <= Len(rows)
        /\ Cardinality(KindsOf(rows)) \in Nat
    BY KindCount, FS_CardinalityType
  <2>2. IsFiniteSet(s) /\ Cardinality(s) <= Cardinality(KindsOf(rows))
    BY <2>1, FS_Subset
  <2>3. Cardinality(s) \in Nat
    BY <2>2, FS_CardinalityType
  <2> QED BY <1>1, <2>1, <2>2, <2>3
<1>8. IsFiniteSet(0..Len(rows)) /\ Cardinality(0..Len(rows)) = Len(rows) + 1
  BY <1>1, FS_Interval
<1>9. [n \in 0..Len(rows) |-> up[n]] \in [0..Len(rows) -> s]
  BY <1>6
<1>10. \E m, n \in 0..Len(rows) : m # n /\ up[m] = up[n]
  <2> DEFINE f == [n \in 0..Len(rows) |-> up[n]]
  <2>1. \E m, n \in 0..Len(rows) : m # n /\ f[m] = f[n]
    <3> HIDE DEF f
    <3>1. f \in [0..Len(rows) -> s] /\ Cardinality(s) < Cardinality(0..Len(rows))
      BY <1>1, <1>7, <1>8, <1>9 DEF f
    <3> QED BY <1>7, <1>8, <3>1, FS_PigeonHole
  <2> QED BY <2>1
<1>11. \E n \in 0..Len(rows) : \E m \in 0..(n - 1) : up[m] = up[n]
  <2>1. PICK m, n \in 0..Len(rows) : m # n /\ up[m] = up[n]
    BY <1>10
  <2>2. CASE m < n
    BY <1>1, <2>1, <2>2
  <2>3. CASE n < m
    BY <1>1, <2>1, <2>3
  <2> QED BY <1>1, <2>1, <2>2, <2>3
<1>12. \A n \in 0..Len(rows) : up[n] # ""
  BY <1>6, NoBlankKind
<1> QED BY <1>2, <1>11, <1>12 DEF Cyclic, up

\* A walk that meets itself goes round in a set of kinds.
LEMMA CyclicMeansClosed ==
  ASSUME NEW rows \in Table, Named(rows), NEW kind, Cyclic(rows, kind)
  PROVE  ~Rooted(rows)
<1> DEFINE up == Ancestor(rows, kind)
<1>1. Len(rows) \in Nat
  BY TableRows
<1>2. /\ DOMAIN up = 0..Len(rows) /\ up[0] = kind
      /\ \A n \in 1..Len(rows) : up[n] = Parent(rows, up[n - 1])
  BY <1>1, Walks
<1>3. \E n \in DOMAIN up : up[n] # "" /\ \E m \in 0..(n - 1) : up[m] = up[n]
  BY DEF Cyclic
<1> HIDE DEF up
<1>4. PICK n \in 0..Len(rows) : up[n] # "" /\ \E m \in 0..(n - 1) : up[m] = up[n]
  BY <1>2, <1>3
<1>5. PICK m \in 0..(n - 1) : up[m] = up[n]
  BY <1>4
<1>6. "" \notin KindsOf(rows)
  BY NoBlankKind
<1> DEFINE T == {back \in Nat : back <= n => up[n - back] # ""}
<1>7. 0 \in T
  <2>1. n - 0 = n
    BY <1>1
  <2> QED BY <1>4, <2>1
<1>8. ASSUME NEW d \in Nat, d \in T PROVE d + 1 \in T
  <2>1. ASSUME d + 1 <= n PROVE up[n - (d + 1)] # ""
    <3>1. n - d \in 1..Len(rows) /\ (n - d) - 1 = n - (d + 1) /\ d <= n
      BY <1>1, <2>1
    <3>2. up[n - d] # "" /\ up[n - d] = Parent(rows, up[n - (d + 1)])
      BY <1>2, <1>8, <3>1
    <3> QED BY <1>6, <3>2 DEF Parent
  <2> DEFINE x == up[n - (d + 1)]
  <2>2. d + 1 \in Nat
    OBVIOUS
  <2>3. d + 1 <= n => x # ""
    BY <2>1
  <2>4. \A y : y = d + 1 => up[n - y] = x
    OBVIOUS
  <2> HIDE DEF x
  <2> QED BY <2>2, <2>3, <2>4
<1>9. Nat \subseteq T
  <2> HIDE DEF T
  <2> QED BY <1>7, <1>8, Induction
<1>10. \A i \in 0..n : up[i] # ""
  <2> SUFFICES ASSUME NEW i \in 0..n PROVE up[i] # ""
    OBVIOUS
  <2>1. n - i \in Nat /\ n - i <= n /\ n - (n - i) = i
    BY <1>1
  <2>2. n - i \in T
    BY <1>9, <2>1
  <2> QED BY <2>1, <2>2
<1>11. \A i \in 0..(n - 1) : up[i] \in KindsOf(rows) /\ Parent(rows, up[i]) = up[i + 1]
  <2> SUFFICES ASSUME NEW i \in 0..(n - 1)
               PROVE  up[i] \in KindsOf(rows) /\ Parent(rows, up[i]) = up[i + 1]
    OBVIOUS
  <2>1. i + 1 \in 1..Len(rows) /\ (i + 1) - 1 = i /\ i + 1 \in 0..n
    BY <1>1
  <2>2. up[i + 1] = Parent(rows, up[i]) /\ up[i + 1] # ""
    BY <1>2, <1>10, <2>1
  <2> QED BY <2>2 DEF Parent
<1> DEFINE s == {up[i] : i \in m..(n - 1)}
<1>12. s \subseteq KindsOf(rows)
  BY <1>1, <1>11
<1>13. s # {}
  <2>1. m \in m..(n - 1)
    BY <1>1
  <2> QED BY <2>1
<1>14. ASSUME NEW k \in s PROVE Parent(rows, k) \in s
  <2>1. PICK i \in m..(n - 1) : k = up[i]
    OBVIOUS
  <2>2. Parent(rows, k) = up[i + 1]
    BY <1>1, <1>11, <2>1
  <2>3. CASE i + 1 \in m..(n - 1)
    BY <2>2, <2>3
  <2>4. CASE i + 1 = n
    <3>1. m \in m..(n - 1)
      BY <1>1
    <3> QED BY <1>5, <2>2, <2>4, <3>1
  <2>5. i + 1 \in m..(n - 1) \/ i + 1 = n
    BY <1>1
  <2> QED BY <2>3, <2>4, <2>5
<1> HIDE DEF s
<1> QED BY <1>12, <1>13, <1>14 DEF Rooted

\* NewCatalog's walks find a cycle exactly where a set of kinds has all its parents within.
THEOREM WalksFindCycles ==
  ASSUME NEW rows \in Table, Named(rows)
  PROVE  (\A i \in DOMAIN rows : ~Cyclic(rows, rows[i].Kind)) <=> Rooted(rows)
<1>1. ASSUME Rooted(rows) PROVE \A i \in DOMAIN rows : ~Cyclic(rows, rows[i].Kind)
  BY <1>1, CyclicMeansClosed
<1>2. ASSUME ~Rooted(rows) PROVE \E i \in DOMAIN rows : Cyclic(rows, rows[i].Kind)
  <2>1. PICK s \in SUBSET KindsOf(rows) : (\A k \in s : Parent(rows, k) \in s) /\ s # {}
    BY <1>2 DEF Rooted
  <2>2. PICK kind \in s : TRUE
    BY <2>1
  <2>3. Cyclic(rows, kind)
    BY <2>1, ClosedMeansCyclic
  <2>4. PICK i \in DOMAIN rows : kind = rows[i].Kind
    BY DEF KindsOf
  <2> QED BY <2>3, <2>4
<1> QED BY <1>1, <1>2

------------------------------------------------------------------------------
(* NewCatalog                                                              *)

\* What Usable asks of one row.
Sound(rows, row) ==
  /\ row.OnParentDelete \in (IF row.ParentKind = "" THEN {""} ELSE {"cascade", "restrict"})
  /\ row.ParentPlural # "" =>
       row.ParentKind # "" /\ row.ParentPlural = RowOf(rows, row.ParentKind).Plural
  /\ row.RequiredAdapters # {} => row.Timeouts.Reconciled > 0
  /\ row.Cleanup.WaitForHardDelete => row.Timeouts.Deleted > 0
  /\ row.Timeouts.Reconciled >= 0 /\ row.Timeouts.Deleted >= 0
  /\ \A c \in Range(row.Cleanup.ChildKinds) : c \in KindsOf(rows) /\ Parent(rows, c) = row.Kind

Parented(rows) ==
  \A k \in KindsOf(rows) : Parent(rows, k) \in KindsOf(rows) \union {""}

\* Usable, part by part.
LEMMA UsableParts ==
  ASSUME NEW rows \in Table
  PROVE  Usable(rows) <=>
           /\ Distinct(rows) /\ Named(rows) /\ Parented(rows) /\ Rooted(rows)
           /\ \A i \in DOMAIN rows : Sound(rows, rows[i])
<1> DEFINE parent == [k \in KindsOf(rows) |-> RowOf(rows, k).ParentKind]
<1>1. \A k \in KindsOf(rows) : parent[k] = Parent(rows, k)
  BY DEF Parent
<1>2. Usable(rows) <=>
        /\ Distinct(rows) /\ Named(rows)
        /\ \A k \in KindsOf(rows) : parent[k] \in KindsOf(rows) \union {""}
        /\ \A s \in SUBSET KindsOf(rows) : (\A k \in s : parent[k] \in s) => s = {}
        /\ \A i \in DOMAIN rows :
             /\ rows[i].OnParentDelete \in (IF rows[i].ParentKind = "" THEN {""}
                                                                  ELSE {"cascade", "restrict"})
             /\ rows[i].ParentPlural # "" =>
                  /\ rows[i].ParentKind # ""
                  /\ rows[i].ParentPlural = RowOf(rows, rows[i].ParentKind).Plural
             /\ rows[i].RequiredAdapters # {} => rows[i].Timeouts.Reconciled > 0
             /\ rows[i].Cleanup.WaitForHardDelete => rows[i].Timeouts.Deleted > 0
             /\ rows[i].Timeouts.Reconciled >= 0 /\ rows[i].Timeouts.Deleted >= 0
             /\ \A c \in Range(rows[i].Cleanup.ChildKinds) :
                  c \in KindsOf(rows) /\ parent[c] = rows[i].Kind
  BY Zenon DEF Usable, Distinct, Named
<1> HIDE DEF parent
<1>3. Parented(rows) <=> \A k \in KindsOf(rows) : parent[k] \in KindsOf(rows) \union {""}
  BY <1>1 DEF Parented
<1>4. Rooted(rows) <=>
        \A s \in SUBSET KindsOf(rows) : (\A k \in s : parent[k] \in s) => s = {}
  BY <1>1 DEF Rooted
<1>5. ASSUME NEW i \in DOMAIN rows
      PROVE  (\A c \in Range(rows[i].Cleanup.ChildKinds) :
                c \in KindsOf(rows) /\ parent[c] = rows[i].Kind)
             <=> (\A c \in Range(rows[i].Cleanup.ChildKinds) :
                    c \in KindsOf(rows) /\ Parent(rows, c) = rows[i].Kind)
  BY <1>1
<1> QED BY <1>2, <1>3, <1>4, <1>5, Zenon DEF Sound

\* The first loop of NewCatalog.
LEMMA InsertParts ==
  ASSUME NEW rows \in Table
  PROVE  ~InsertFault(rows) <=> Distinct(rows) /\ Named(rows)
<1>1. DOMAIN rows = 1..Len(rows) /\ Len(rows) \in Nat
  BY TableRows
<1>2. ASSUME ~InsertFault(rows), NEW i \in DOMAIN rows, NEW j \in DOMAIN rows, i # j
      PROVE  rows[i].Kind # rows[j].Kind /\ rows[i].Plural # rows[j].Plural
  <2>1. i \in 1..(j - 1) \/ j \in 1..(i - 1)
    BY <1>1, <1>2
  <2> QED BY <1>2, <2>1 DEF InsertFault
<1>3. ASSUME ~InsertFault(rows) PROVE Named(rows)
  BY <1>3 DEF InsertFault, Named
<1>4. ASSUME Distinct(rows), Named(rows) PROVE ~InsertFault(rows)
  <2>1. \A i \in DOMAIN rows : \A j \in 1..(i - 1) : j \in DOMAIN rows /\ i # j
    BY <1>1
  <2> QED BY <1>4, <2>1 DEF InsertFault, Distinct, Named
<1> QED BY <1>2, <1>3, <1>4 DEF Distinct

\* Resolving a row sets its parent's plural and leaves the rest.
LEMMA ResolvedRow ==
  ASSUME NEW rows, NEW row \in EntityDescriptor
  PROVE  LET res == Resolved(rows, row)
         IN  /\ res.Kind = row.Kind /\ res.Plural = row.Plural
             /\ res.ParentKind = row.ParentKind /\ res.OnParentDelete = row.OnParentDelete
             /\ res.RequiredAdapters = row.RequiredAdapters
             /\ res.Cleanup = row.Cleanup /\ res.Timeouts = row.Timeouts
             /\ res.ParentPlural = IF row.ParentKind \in KindsOf(rows)
                                   THEN RowOf(rows, row.ParentKind).Plural
                                   ELSE row.ParentPlural
BY DEF Resolved, EntityDescriptor

\* The second loop of NewCatalog, one row: given what the first loop established, it finds
\* no fault exactly in a sound row with a known parent and no cycle above it.
LEMMA RowParts ==
  ASSUME NEW rows \in Table, Distinct(rows), Named(rows), NEW i \in DOMAIN rows
  PROVE  ~RowFault(rows, rows[i]) <=>
           /\ rows[i].ParentKind \in KindsOf(rows) \union {""}
           /\ ~Cyclic(rows, rows[i].Kind)
           /\ Sound(rows, rows[i])
<1> DEFINE row == rows[i]
           res == Resolved(rows, row)
           kinds == KindsOf(rows)
<1>1. row \in EntityDescriptor
  BY TableRows
<1>2. /\ res.Kind = row.Kind /\ res.Plural = row.Plural
      /\ res.ParentKind = row.ParentKind /\ res.OnParentDelete = row.OnParentDelete
      /\ res.RequiredAdapters = row.RequiredAdapters
      /\ res.Cleanup = row.Cleanup /\ res.Timeouts = row.Timeouts
      /\ res.ParentPlural = IF row.ParentKind \in kinds
                            THEN RowOf(rows, row.ParentKind).Plural ELSE row.ParentPlural
  BY <1>1, ResolvedRow
<1>3. "" \notin kinds /\ TrimSpace(row.Kind) # "" /\ ValidSegment(row.Plural)
  BY NoBlankKind DEF Named
<1>4. row.ParentKind \in kinds => ValidSegment(RowOf(rows, row.ParentKind).Plural)
  BY RowFound DEF Named
<1>5. row.Timeouts.Reconciled \in Int /\ row.Timeouts.Deleted \in Int
  BY <1>1 DEF EntityDescriptor
<1>6. Range(row.Cleanup.ChildKinds) \subseteq
        {rows[j].Kind : j \in {n \in DOMAIN rows : rows[n].ParentKind = row.Kind}}
      <=> \A c \in Range(row.Cleanup.ChildKinds) : c \in kinds /\ Parent(rows, c) = row.Kind
  <2>1. ASSUME NEW c
        PROVE  c \in {rows[j].Kind : j \in {n \in DOMAIN rows : rows[n].ParentKind = row.Kind}}
               <=> c \in kinds /\ Parent(rows, c) = row.Kind
    <3>1. ASSUME NEW j \in DOMAIN rows, rows[j].ParentKind = row.Kind, c = rows[j].Kind
          PROVE  c \in kinds /\ Parent(rows, c) = row.Kind
      BY <3>1, OnlyRow DEF Parent
    <3>2. ASSUME c \in kinds, Parent(rows, c) = row.Kind
          PROVE  \E j \in DOMAIN rows : rows[j].ParentKind = row.Kind /\ c = rows[j].Kind
      BY <3>2, RowFound DEF Parent
    <3> QED BY <3>1, <3>2
  <2> QED BY <2>1
<1> HIDE DEF row, res, kinds
<1>7. RowFault(rows, row) <=>
        \/ row.ParentKind # "" /\ row.ParentKind \notin kinds
        \/ row.ParentPlural \notin {"", res.ParentPlural}
        \/ ~Validate(res)
        \/ Cyclic(rows, row.Kind)
        \/ ~(\A c \in Range(row.Cleanup.ChildKinds) : c \in kinds /\ Parent(rows, c) = row.Kind)
  BY <1>6 DEF RowFault, res, kinds
<1>8. Validate(res) <=>
        /\ IF row.ParentKind = ""
           THEN res.ParentPlural = "" /\ row.OnParentDelete = ""
           ELSE ValidSegment(res.ParentPlural) /\ row.OnParentDelete \in {"cascade", "restrict"}
        /\ row.Timeouts.Reconciled >= 0 /\ row.Timeouts.Deleted >= 0
        /\ row.RequiredAdapters # {} => row.Timeouts.Reconciled # 0
        /\ row.Cleanup.WaitForHardDelete => row.Timeouts.Deleted > 0
  <2>1. Validate(res) <=>
          /\ TrimSpace(res.Kind) # "" /\ ValidSegment(res.Plural)
          /\ IF res.ParentKind = ""
             THEN res.ParentPlural = "" /\ res.OnParentDelete = ""
             ELSE ValidSegment(res.ParentPlural) /\ res.OnParentDelete \in {"cascade", "restrict"}
          /\ res.Timeouts.Reconciled >= 0 /\ res.Timeouts.Deleted >= 0
          /\ res.RequiredAdapters # {} => res.Timeouts.Reconciled # 0
          /\ res.Cleanup.WaitForHardDelete => res.Timeouts.Deleted > 0
    BY DEF Validate
  <2>2. TrimSpace(res.Kind) # "" /\ ValidSegment(res.Plural)
    BY <1>2, <1>3
  <2>3. /\ res.ParentKind = row.ParentKind /\ res.OnParentDelete = row.OnParentDelete
        /\ res.RequiredAdapters = row.RequiredAdapters
        /\ res.Cleanup = row.Cleanup /\ res.Timeouts = row.Timeouts
    BY <1>2
  <2> QED BY <2>1, <2>2, <2>3
<1>9. row.Timeouts.Reconciled >= 0 =>
        (row.Timeouts.Reconciled # 0 <=> row.Timeouts.Reconciled > 0)
  BY <1>5
<1>10. CASE row.ParentKind = ""
  <2>1. res.ParentPlural = row.ParentPlural
    BY <1>2, <1>3, <1>10
  <2> QED BY <1>7, <1>8, <1>9, <1>10, <2>1 DEF Sound, row, kinds
<1>11. CASE row.ParentKind \in kinds
  <2>1. /\ row.ParentKind # ""
        /\ res.ParentPlural = RowOf(rows, row.ParentKind).Plural
        /\ ValidSegment(res.ParentPlural)
    BY <1>2, <1>3, <1>4, <1>11
  <2> QED BY <1>7, <1>8, <1>9, <1>11, <2>1 DEF Sound, row, kinds
<1>12. CASE row.ParentKind \notin kinds \union {""}
  BY <1>7, <1>12 DEF row, kinds
<1> QED BY <1>10, <1>11, <1>12

\* NewCatalog accepts exactly the tables the suite can route, wait and clean up by, for
\* tables of any size: whatever order its second loop takes, and though it judges one row
\* at a time, what it accepts is distinct, rooted and consistent as a whole.
THEOREM AcceptsExactlyTheUsable ==
  ASSUME NEW rows \in Table
  PROVE  NewCatalogFails(rows) <=> ~Usable(rows)
<1>1. CASE ~(Distinct(rows) /\ Named(rows))
  BY <1>1, InsertParts, UsableParts DEF NewCatalogFails
<1>2. CASE Distinct(rows) /\ Named(rows)
  <2>1. ~InsertFault(rows)
    BY <1>2, InsertParts
  <2>2. Parented(rows) <=> \A i \in DOMAIN rows : rows[i].ParentKind \in KindsOf(rows) \union {""}
    <3>1. ASSUME NEW i \in DOMAIN rows
          PROVE  rows[i].Kind \in KindsOf(rows) /\ Parent(rows, rows[i].Kind) = rows[i].ParentKind
      BY <1>2, OnlyRow DEF Parent
    <3>2. \A k \in KindsOf(rows) : \E i \in DOMAIN rows : k = rows[i].Kind
      BY DEF KindsOf
    <3>3. ASSUME Parented(rows), NEW i \in DOMAIN rows
          PROVE  rows[i].ParentKind \in KindsOf(rows) \union {""}
      BY <3>1, <3>3 DEF Parented
    <3>4. ASSUME \A i \in DOMAIN rows : rows[i].ParentKind \in KindsOf(rows) \union {""}
          PROVE  Parented(rows)
      <4>1. ASSUME NEW k \in KindsOf(rows) PROVE Parent(rows, k) \in KindsOf(rows) \union {""}
        <5>1. PICK i \in DOMAIN rows : k = rows[i].Kind
          BY <3>2
        <5>2. Parent(rows, k) = rows[i].ParentKind
          BY <3>1, <5>1
        <5> QED BY <3>4, <5>2
      <4> QED BY <4>1 DEF Parented
    <3> QED BY <3>3, <3>4
  <2>3. Rooted(rows) <=> \A i \in DOMAIN rows : ~Cyclic(rows, rows[i].Kind)
    BY <1>2, WalksFindCycles
  <2>4. \A i \in DOMAIN rows :
          ~RowFault(rows, rows[i]) <=>
            /\ rows[i].ParentKind \in KindsOf(rows) \union {""}
            /\ ~Cyclic(rows, rows[i].Kind)
            /\ Sound(rows, rows[i])
    BY <1>2, RowParts
  <2>5. NewCatalogFails(rows) <=> \E i \in DOMAIN rows : RowFault(rows, rows[i])
    BY <2>1 DEF NewCatalogFails
  <2>6. Usable(rows) <=>
          Parented(rows) /\ Rooted(rows) /\ \A i \in DOMAIN rows : Sound(rows, rows[i])
    BY <1>2, UsableParts
  <2> QED BY <2>2, <2>3, <2>4, <2>5, <2>6
<1> QED BY <1>1, <1>2

------------------------------------------------------------------------------
(* The drift guard                                                         *)

Fields == {"Kind", "Plural", "ParentKind", "OnParentDelete"}

\* No two entries share a kind or a plural, and each has both.
Structured(deployed) ==
  \A i \in DOMAIN deployed :
    /\ TrimSpace(deployed[i].Kind) # "" /\ TrimSpace(deployed[i].Plural) # ""
    /\ \A j \in DOMAIN deployed : i # j =>
         /\ deployed[i].Kind # deployed[j].Kind
         /\ TrimSpace(deployed[i].Plural) # TrimSpace(deployed[j].Plural)

\* No entry has a structural difference exactly when each is named, once.
LEMMA StructureParts ==
  ASSUME NEW deployed \in Seq(ApiEntity)
  PROVE  /\ StructuralDiffs(deployed) = {} <=>
              \A i \in DOMAIN deployed : StructuralDiff(deployed, i) = "none"
         /\ (\A i \in DOMAIN deployed : StructuralDiff(deployed, i) = "none") <=>
              Structured(deployed)
<1>1. DOMAIN deployed = 1..Len(deployed) /\ Len(deployed) \in Nat
  OBVIOUS
<1>2. ASSUME NEW i \in DOMAIN deployed
      PROVE  StructuralDiff(deployed, i) = "none" <=>
               /\ TrimSpace(deployed[i].Kind) # ""
               /\ i \in Indexed(deployed)
               /\ TrimSpace(deployed[i].Plural) # ""
               /\ ~\E j \in Indexed(deployed) :
                     j < i /\ TrimSpace(deployed[j].Plural) = TrimSpace(deployed[i].Plural)
  BY DEF StructuralDiff
<1>3. StructuralDiffs(deployed) = {} <=>
        \A i \in DOMAIN deployed : StructuralDiff(deployed, i) = "none"
  <2>1. ASSUME StructuralDiffs(deployed) = {}, NEW i \in DOMAIN deployed
        PROVE  StructuralDiff(deployed, i) = "none"
    <3>1. \E j \in DOMAIN deployed :
            <<deployed[i].Kind, StructuralDiff(deployed, i)>> = <<deployed[j].Kind, "none">>
      BY <2>1, Zenon DEF StructuralDiffs
    <3> QED BY <3>1
  <2>2. ASSUME \A i \in DOMAIN deployed : StructuralDiff(deployed, i) = "none"
        PROVE  StructuralDiffs(deployed) = {}
    BY <2>2, Zenon DEF StructuralDiffs
  <2> QED BY <2>1, <2>2
<1>4. ASSUME \A i \in DOMAIN deployed : StructuralDiff(deployed, i) = "none"
      PROVE  Structured(deployed)
  <2>1. \A i \in DOMAIN deployed : i \in Indexed(deployed)
    BY <1>2, <1>4
  <2>2. ASSUME NEW i \in DOMAIN deployed, NEW j \in DOMAIN deployed, j < i
        PROVE  /\ deployed[i].Kind # deployed[j].Kind
               /\ TrimSpace(deployed[i].Plural) # TrimSpace(deployed[j].Plural)
    <3>1. j \in 1..(i - 1)
      BY <1>1, <2>2
    <3>2. deployed[i].Kind # deployed[j].Kind
      BY <2>1, <3>1 DEF Indexed
    <3> QED BY <1>2, <1>4, <2>1, <2>2, <3>2
  <2>3. \A i, j \in DOMAIN deployed : i # j => i < j \/ j < i
    BY <1>1
  <2> QED BY <1>2, <1>4, <2>2, <2>3 DEF Structured
<1>5. ASSUME Structured(deployed), NEW i \in DOMAIN deployed
      PROVE  StructuralDiff(deployed, i) = "none"
  <2>1. \A j \in 1..(i - 1) : j \in DOMAIN deployed /\ i # j
    BY <1>1
  <2>2. i \in Indexed(deployed)
    BY <1>5, <2>1 DEF Structured, Indexed
  <2>3. \A j \in Indexed(deployed) : j \in DOMAIN deployed /\ (j < i => i # j)
    <3>1. \A j \in Indexed(deployed) : j \in DOMAIN deployed
      BY DEF Indexed
    <3>2. \A j \in DOMAIN deployed : j < i => i # j
      BY <1>1
    <3> QED BY <3>1, <3>2
  <2> QED BY <1>2, <1>5, <2>2, <2>3 DEF Structured
<1> QED BY <1>3, <1>4, <1>5

\* Among distinct entries, the row of a kind differs in no field exactly when it is served.
LEMMA RowServed ==
  ASSUME NEW deployed \in Seq(ApiEntity), Structured(deployed), NEW row
  PROVE  RowDiffs(row, deployed) = {} <=>
           \E d \in DOMAIN deployed : \A f \in Fields : deployed[d][f] = row[f]
<1> DEFINE mine == {i \in Indexed(deployed) : deployed[i].Kind = row.Kind}
           chosen == CHOOSE i \in mine : TRUE
<1>1. DOMAIN deployed = 1..Len(deployed) /\ Len(deployed) \in Nat
  OBVIOUS
<1>2. \A i : i \in mine <=> i \in DOMAIN deployed /\ deployed[i].Kind = row.Kind
  <2>1. \A i \in DOMAIN deployed : \A j \in 1..(i - 1) : j \in DOMAIN deployed /\ i # j
    BY <1>1
  <2>2. \A i : i \in Indexed(deployed) <=> i \in DOMAIN deployed
    BY <2>1 DEF Indexed, Structured
  <2> QED BY <2>2
<1>3. RowDiffs(row, deployed) = {} <=>
        mine # {} /\ \A f \in {"Plural", "ParentKind", "OnParentDelete"} :
                        deployed[chosen][f] = row[f]
  BY DEF RowDiffs
<1>4. \A i, j \in mine : i = j
  BY <1>2 DEF Structured
<1>5. mine # {} => chosen \in mine
  OBVIOUS
<1>6. \A d \in DOMAIN deployed :
        (\A f \in Fields : deployed[d][f] = row[f]) <=>
          /\ deployed[d].Kind = row.Kind
          /\ \A f \in {"Plural", "ParentKind", "OnParentDelete"} : deployed[d][f] = row[f]
  BY DEF Fields
<1> HIDE DEF mine, chosen
<1> QED BY <1>2, <1>3, <1>4, <1>5, <1>6

\* The drift guard reports nothing exactly where the deployment serves the whole table,
\* for deployments and tables of any size.
THEOREM DiffsAreExact ==
  ASSUME NEW deployed \in Seq(ApiEntity), NEW expected \in Table
  PROVE  ApiEntityDiffs(expected, deployed) = {} <=> Serves(deployed, expected)
<1>1. CASE deployed = << >>
  BY <1>1 DEF ApiEntityDiffs, Serves
<1>2. CASE deployed # << >>
  <2>1. ApiEntityDiffs(expected, deployed) = {} <=>
          /\ StructuralDiffs(deployed) = {}
          /\ \A e \in DOMAIN expected : RowDiffs(expected[e], deployed) = {}
    BY <1>2 DEF ApiEntityDiffs
  <2>2. StructuralDiffs(deployed) = {} <=> Structured(deployed)
    BY StructureParts
  <2>3. Structured(deployed) =>
          \A e \in DOMAIN expected :
            RowDiffs(expected[e], deployed) = {} <=>
              \E d \in DOMAIN deployed : \A f \in Fields : deployed[d][f] = expected[e][f]
    BY RowServed
  <2>4. Serves(deployed, expected) <=>
          /\ Structured(deployed)
          /\ \A e \in DOMAIN expected :
               \E d \in DOMAIN deployed : \A f \in Fields : deployed[d][f] = expected[e][f]
    BY <1>2 DEF Serves, Structured, Fields
  <2> QED BY <2>1, <2>2, <2>3, <2>4
<1> QED BY <1>1, <1>2
=============================================================================
