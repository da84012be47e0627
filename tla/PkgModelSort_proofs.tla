------------------------- MODULE PkgModelSort_proofs -------------------------
(***************************************************************************)
(* Theorems about PkgModelSort, for any tree of nodes and any ranks.       *)
(***************************************************************************)
EXTENDS PkgModelSort, FiniteSetTheorems, TLAPS

-----------------------------------------------------------------------------
\* The comparison.

\* What each column compares, as a number.
Rank(column, n) == CASE column = "name"  -> NameRank[n]
                     [] column = "type"  -> TypeRank[n]
                     [] column = "size"  -> GetDecryptedSize(n)
                     [] column = "owner" -> OwnerRank[n]

\* Nodes that are compared by a column: all of them, or files by their owner.
Ranked(column, n) == n \in Nodes /\ (column = "owner" => n \in Files)

LEMMA RanksAreNumbers ==
  ASSUME NEW column \in Columns, NEW n, Ranked(column, n)
  PROVE  Rank(column, n) \in Nat /\ NameRank[n] \in Nat
BY RanksAssumption, NodesAssumption DEF Rank, Ranked, Columns, GetDecryptedSize, Nodes

\* A column orders the nodes it ranks by their rank first and by name then.
LEMMA ColumnIsLexical ==
  ASSUME NEW column \in Columns, NEW l, NEW r, Ranked(column, l), Ranked(column, r)
  PROVE  CompareByColumn(column, l, r) <=>
           \/ Rank(column, l) < Rank(column, r)
           \/ Rank(column, l) = Rank(column, r) /\ NameRank[l] < NameRank[r]
<1>1. /\ NameRank[l] \in Nat /\ NameRank[r] \in Nat
  BY RanksAreNumbers
<1>2. CASE column = "name"
  BY <1>1, <1>2 DEF CompareByColumn, CompareByName, Rank
<1>3. CASE column = "type"
  BY <1>3 DEF CompareByColumn, CompareBy, CompareByName, Rank
<1>4. CASE column = "size"
  BY <1>4 DEF CompareByColumn, CompareBy, CompareByName, Rank
<1>5. CASE column = "owner"
  <2>1. l \notin Dirs /\ r \notin Dirs
    BY <1>5, NodesAssumption DEF Ranked
  <2> QED BY <1>5, <2>1 DEF CompareByColumn, CompareByOwnerPkg, CompareBy, CompareByName, Rank
<1> QED BY <1>2, <1>3, <1>4, <1>5 DEF Columns

\* Directories are compared by name when the column is the owner.
LEMMA OwnersOfDirectories ==
  ASSUME NEW l \in Dirs, NEW r \in Dirs
  PROVE  CompareByColumn("owner", l, r) <=> NameRank[l] < NameRank[r]
BY DEF CompareByColumn, CompareByOwnerPkg, CompareByName

\* The key of a node: nodes of one kind are compared by key and name.
Key(column, n) == IF column = "owner" /\ n \in Dirs THEN 0 ELSE Rank(column, n)

LEMMA NodesAreLexical ==
  ASSUME NEW column \in Columns, NEW l \in Nodes, NEW r \in Nodes
  PROVE  /\ Key(column, l) \in Nat /\ NameRank[l] \in Nat
         /\ CompareNodes(column, l, r) <=>
              \/ l \in Dirs /\ r \notin Dirs
              \/ /\ l \in Dirs <=> r \in Dirs
                 /\ \/ Key(column, l) < Key(column, r)
                    \/ Key(column, l) = Key(column, r) /\ NameRank[l] < NameRank[r]
<1>1. \A n \in Nodes : ~(column = "owner" /\ n \in Dirs) => Ranked(column, n)
  BY DEF Ranked, Nodes
<1>2. Key(column, l) \in Nat /\ NameRank[l] \in Nat
  <2>1. NameRank[l] \in Nat
    BY RanksAssumption
  <2>2. CASE column = "owner" /\ l \in Dirs
    BY <2>1, <2>2 DEF Key
  <2>3. CASE ~(column = "owner" /\ l \in Dirs)
    BY <1>1, <2>1, <2>3, RanksAreNumbers DEF Key
  <2> QED BY <2>2, <2>3
<1>3. CASE ~(l \in Dirs <=> r \in Dirs)
  BY <1>2, <1>3 DEF CompareNodes
<1>4. CASE l \in Dirs <=> r \in Dirs
  <2>1. CASE column = "owner" /\ l \in Dirs
    <3>1. CompareNodes(column, l, r) <=> NameRank[l] < NameRank[r]
      BY <1>4, <2>1, OwnersOfDirectories DEF CompareNodes
    <3>2. Key(column, l) = 0 /\ Key(column, r) = 0
      BY <1>4, <2>1 DEF Key
    <3> QED BY <1>2, <1>4, <3>1, <3>2
  <2>2. CASE ~(column = "owner" /\ l \in Dirs)
    <3>1. CompareNodes(column, l, r) <=> CompareByColumn(column, l, r)
      BY <1>4 DEF CompareNodes
    <3>2. Key(column, l) = Rank(column, l) /\ Key(column, r) = Rank(column, r)
      BY <1>4, <2>2 DEF Key
    <3>3. Ranked(column, l) /\ Ranked(column, r)
      BY <1>1, <1>4, <2>2
    <3> QED BY <1>2, <1>4, <3>1, <3>2, <3>3, ColumnIsLexical
  <2> QED BY <2>1, <2>2
<1> QED BY <1>3, <1>4

\* CompareNodes is a strict weak order of all the nodes of the archive, for
\* any of them that a directory may hold: std::sort is defined for it.
THEOREM ComparisonIsStrictWeak ==
  ASSUME NEW column \in Columns, NEW S \in SUBSET Nodes
  PROVE  StrictWeakOrder(S, column)
<1> DEFINE K(n) == Key(column, n)
           before(l, r) == CompareNodes(column, l, r)
<1>1. \A n \in S : K(n) \in Nat /\ NameRank[n] \in Nat
  BY NodesAreLexical
<1>2. \A l, r \in S : before(l, r) <=>
              \/ l \in Dirs /\ r \notin Dirs
              \/ /\ l \in Dirs <=> r \in Dirs
                 /\ \/ K(l) < K(r)
                    \/ K(l) = K(r) /\ NameRank[l] < NameRank[r]
  BY NodesAreLexical
<1> HIDE DEF K, before
<1>3. \A l \in S : ~before(l, l)
  BY <1>1, <1>2
<1>4. \A l, m, r \in S : before(l, m) /\ before(m, r) => before(l, r)
  BY <1>1, <1>2
<1>5. \A l, m, r \in S :
        (~before(l, m) /\ ~before(m, l) /\ ~before(m, r) /\ ~before(r, m))
          => ~before(l, r) /\ ~before(r, l)
  BY <1>1, <1>2
<1> QED BY <1>3, <1>4, <1>5 DEF StrictWeakOrder, before

-----------------------------------------------------------------------------
\* Directories: their children, each exactly once.

ChildrenOf(d) == {n \in Nodes : ParentOf[n] = d}

\* A directory that was not loaded is empty.
Filled(kids, d) == kids[d] = <<>> \/ kids[d] \in SetToSeqs(ChildrenOf(d))

LEMMA ChildrenAreFinite == \A d : IsFiniteSet(ChildrenOf(d))
<1> SUFFICES ASSUME NEW d PROVE IsFiniteSet(ChildrenOf(d))
  OBVIOUS
<1>1. ChildrenOf(d) \in SUBSET Nodes
  BY DEF ChildrenOf
<1> QED BY <1>1, NodesAssumption, FS_Subset

\* A sequence with the elements of S, each once: its length, and where they are.
LEMMA ArrangementFacts ==
  ASSUME NEW S, IsFiniteSet(S), NEW s \in SetToSeqs(S)
  PROVE  /\ Len(s) \in Nat
         /\ \A i \in 1..Len(s) : s[i] \in S
         /\ \A n \in S : \E i \in 1..Len(s) : s[i] = n
         /\ {s[i] : i \in 1..Len(s)} = S
<1>1. Cardinality(S) \in Nat
  BY FS_CardinalityType
<1> DEFINE D == 1..Cardinality(S)
<1>2. s \in [D -> S] /\ \A i, j \in D : i # j => s[i] # s[j]
  BY DEF SetToSeqs
<1>3. IsFiniteSet(D) /\ Cardinality(D) = Cardinality(S)
  BY <1>1, FS_Interval
<1>4. s \in Injection(D, S)
  BY <1>2 DEF Injection, IsInjective
<1>5. s \in Surjection(D, S)
  BY <1>3, <1>4, FS_Injection
<1>6. \A n \in S : \E i \in D : s[i] = n
  BY <1>5 DEF Surjection
<1>7. Len(s) = Cardinality(S)
  BY <1>1, <1>2
<1> QED BY <1>1, <1>2, <1>6, <1>7

\* There is one.
LEMMA SomeArrangement ==
  ASSUME NEW S, IsFiniteSet(S)
  PROVE  SetToSeqs(S) # {}
<1>1. PICK f : f \in Bijection(1..Cardinality(S), S)
  BY FS_CardinalityType DEF ExistsBijection
<1>2. f \in SetToSeqs(S)
  BY <1>1 DEF Bijection, Injection, IsInjective, SetToSeqs
<1> QED BY <1>2

LEMMA NothingToArrange ==
  ASSUME NEW s \in SetToSeqs({})
  PROVE  s = <<>>
<1>1. Cardinality({}) = 0
  BY FS_EmptySet
<1> QED BY <1>1 DEF SetToSeqs

\* std::sort on one directory: what was in it is in it, in order.
LEMMA SortNodesFacts ==
  ASSUME NEW column, NEW kids, NEW d, Filled(kids, d), NEW t \in SortNodes(column, kids[d])
  PROVE  /\ InOrder(column, t)
         /\ t = <<>> \/ t \in SetToSeqs(ChildrenOf(d))
         /\ kids[d] # <<>> => t \in SetToSeqs(ChildrenOf(d))
         /\ kids[d] = <<>> => t = <<>>
<1>1. t \in SetToSeqs({kids[d][i] : i \in 1..Len(kids[d])}) /\ InOrder(column, t)
  BY DEF SortNodes
<1>2. CASE kids[d] = <<>>
  <2>1. {kids[d][i] : i \in 1..Len(kids[d])} = {}
    BY <1>2
  <2> QED BY <1>1, <1>2, <2>1, NothingToArrange
<1>3. CASE kids[d] # <<>>
  <2>1. kids[d] \in SetToSeqs(ChildrenOf(d))
    BY <1>3 DEF Filled
  <2> QED BY <1>1, <1>3, <2>1, ChildrenAreFinite, ArrangementFacts
<1> QED BY <1>2, <1>3

\* The row index() gives a node that is among the children is one of theirs,
\* and the node is shown there, in either order.
LEMMA IndexIsRight ==
  ASSUME NEW d, NEW s \in SetToSeqs(ChildrenOf(d)), NEW n \in ChildrenOf(d), NEW order
  PROVE  LET i == IndexOf(order, s, n)
         IN  /\ i.node = n
             /\ i.row \in 0..(Len(s) - 1)
             /\ s[translateVisibleLocation(order, s, i.row) + 1] = n
<1> DEFINE location == GetLocationOf(s, n)
<1>1. Len(s) \in Nat /\ \E i \in 1..Len(s) : s[i] = n
  BY ChildrenAreFinite, ArrangementFacts
<1>2. \E i \in 0..(Len(s) - 1) : s[i + 1] = n
  <2>1. PICK i \in 1..Len(s) : s[i] = n
    BY <1>1
  <2>2. i - 1 \in 0..(Len(s) - 1) /\ (i - 1) + 1 = i
    BY <1>1
  <2> QED BY <2>1, <2>2
<1>3. location \in 0..(Len(s) - 1) /\ s[location + 1] = n
  BY <1>2 DEF GetLocationOf
<1> HIDE DEF location
<1>4. /\ translateVisibleLocation(order, s, location) \in 0..(Len(s) - 1)
      /\ translateVisibleLocation(order, s, translateVisibleLocation(order, s, location)) = location
  BY <1>1, <1>3 DEF translateVisibleLocation
<1> QED BY <1>3, <1>4 DEF IndexOf, location

-----------------------------------------------------------------------------
\* The invariant.

DirSet == Dirs \cup {Root}

\* Every directory but the root is in the order of the sorted column: a click
\* that only changes the order may then leave the nodes where they are.
InColumnOrder == \A d \in Dirs : InOrder(m_iSortColumn, children[d])

\* All directories are loaded, or none is.
Whole(kids) == kids = Empty \/ \A d \in DirSet : kids[d] \in SetToSeqs(ChildrenOf(d))

SortInv == TypeOK /\ InColumnOrder /\ IndexesFollow /\ Whole(children)

\* A tree that was loaded or is empty, as sort finds it.
Tree(kids) == DOMAIN kids = DirSet /\ \A d \in DirSet : Filled(kids, d)

LEMMA TreeOfType == TypeOK <=> /\ Tree(children)
                               /\ m_iSortColumn \in Columns /\ m_SortOrder \in Orders
                               /\ m_bForceSort \in BOOLEAN
                               /\ persistent \subseteq [node : Nodes, row : Nat]
BY DEF TypeOK, Tree, Filled, DirSet, ChildrenOf

\* A directory with a row has all its children.
LEMMA RowsMeanFilled ==
  ASSUME Tree(children), NEW d \in DirSet, Rows(d) # {}
  PROVE  children[d] \in SetToSeqs(ChildrenOf(d))
<1>1. CASE children[d] = <<>>
  BY <1>1 DEF Rows
<1> QED BY <1>1 DEF Tree, Filled

\* All directories sorted.
LEMMA SortedFacts ==
  ASSUME NEW column, NEW kids, Tree(kids), NEW new \in Sorted(column, kids)
  PROVE  /\ Tree(new)
         /\ \A d \in Dirs : InOrder(column, new[d])
         /\ \A d \in DirSet : kids[d] # <<>> => new[d] \in SetToSeqs(ChildrenOf(d))
         /\ Whole(kids) => Whole(new)
<1>1. PICK t : /\ \A d \in Dirs : t[d] \in SortNodes(column, kids[d])
               /\ new = [d \in Dirs \cup {Root} |-> IF d = Root THEN kids[Root] ELSE t[d]]
  BY DEF Sorted
<1>2. DOMAIN new = DirSet /\ new[Root] = kids[Root]
  BY <1>1 DEF DirSet
<1>3. \A d \in Dirs : Filled(kids, d) /\ new[d] \in SortNodes(column, kids[d])
  BY <1>1, NodesAssumption DEF Tree, DirSet, Nodes
<1>4. ASSUME NEW d \in Dirs
      PROVE  /\ InOrder(column, new[d])
             /\ Filled(new, d)
             /\ kids[d] # <<>> => new[d] \in SetToSeqs(ChildrenOf(d))
             /\ kids[d] = <<>> => new[d] = <<>>
  <2>1. /\ InOrder(column, new[d])
        /\ new[d] = <<>> \/ new[d] \in SetToSeqs(ChildrenOf(d))
        /\ kids[d] # <<>> => new[d] \in SetToSeqs(ChildrenOf(d))
        /\ kids[d] = <<>> => new[d] = <<>>
    BY <1>3, SortNodesFacts
  <2> QED BY <2>1 DEF Filled
<1>5. ASSUME Whole(kids) PROVE Whole(new)
  <2>1. CASE kids = Empty
    <3>1. \A d \in DirSet : new[d] = <<>>
      BY <1>2, <1>4, <2>1 DEF Empty, DirSet
    <3>2. new = [d \in DirSet |-> new[d]]
      BY <1>1 DEF DirSet
    <3>3. new = Empty
      BY <3>1, <3>2 DEF Empty, DirSet
    <3> QED BY <3>3 DEF Whole
  <2>2. CASE \A d \in DirSet : kids[d] \in SetToSeqs(ChildrenOf(d))
    <3>1. ASSUME NEW d \in Dirs PROVE new[d] \in SetToSeqs(ChildrenOf(d))
      <4>1. CASE kids[d] = <<>>
        BY <1>4, <2>2, <4>1 DEF DirSet
      <4>2. CASE kids[d] # <<>>
        BY <1>4, <4>2
      <4> QED BY <4>1, <4>2
    <3> QED BY <1>2, <2>2, <3>1 DEF Whole, DirSet
  <2> QED BY <1>5, <2>1, <2>2 DEF Whole
<1> QED BY <1>2, <1>4, <1>5 DEF Tree, Filled, DirSet

\* sort, on a tree that is in order or that it will put in order, and with
\* no index of a directory that is empty.
LEMMA SortModelStep ==
  ASSUME SortInv, NEW kids, Tree(kids), Whole(kids), NEW force \in BOOLEAN,
         NEW column \in Columns, NEW order \in Orders,
         force \/ kids = children,
         \A i \in persistent : kids[ParentOf[i.node]] # <<>>,
         SortModel(kids, force, column, order)
  PROVE  SortInv'
<1> USE DEF SortInv
<1>1. CASE m_SortOrder = order /\ m_iSortColumn = column /\ ~force
  BY <1>1 DEF SortModel, TypeOK, InColumnOrder, IndexesFollow, Rows, NodeAt
<1>2. CASE ~(m_SortOrder = order /\ m_iSortColumn = column /\ ~force)
  <2>1. /\ m_SortOrder' = order
        /\ persistent' = {IndexOf(order, children'[ParentOf[i.node]], i.node) : i \in persistent}
    BY <1>2 DEF SortModel
  <2>2. /\ Tree(children')
        /\ InColumnOrder'
        /\ \A d \in DirSet : kids[d] # <<>> => children'[d] \in SetToSeqs(ChildrenOf(d))
        /\ m_iSortColumn' \in Columns /\ m_bForceSort' \in BOOLEAN
        /\ Whole(children')
    <3>1. CASE ShouldOrderColumn(column, order, force)
      <4>1. children' \in Sorted(column, kids) /\ m_iSortColumn' = column /\ m_bForceSort' = FALSE
        BY <1>2, <3>1 DEF SortModel
      <4> QED BY <4>1, SortedFacts DEF InColumnOrder
    <3>2. CASE ~ShouldOrderColumn(column, order, force)
      <4>1. kids = children
        BY <3>2 DEF ShouldOrderColumn
      <4>2. children' = kids /\ m_iSortColumn' = m_iSortColumn /\ m_bForceSort' = m_bForceSort
        BY <1>2, <3>2 DEF SortModel
      <4>3. InColumnOrder'
        BY <4>1, <4>2 DEF InColumnOrder
      <4> QED BY <4>1, <4>2, <4>3 DEF Tree, Filled, TypeOK
    <3> QED BY <3>1, <3>2
  <2>3. ASSUME NEW i \in persistent
        PROVE  /\ i.node \in Nodes /\ ParentOf[i.node] \in DirSet
               /\ i.node \in ChildrenOf(ParentOf[i.node])
               /\ children'[ParentOf[i.node]] \in SetToSeqs(ChildrenOf(ParentOf[i.node]))
    <3>1. i.node \in Nodes
      BY <2>3 DEF TypeOK
    <3>2. ParentOf[i.node] \in DirSet /\ i.node \in ChildrenOf(ParentOf[i.node])
      BY <3>1, NodesAssumption DEF DirSet, ChildrenOf
    <3> QED BY <2>2, <3>1, <3>2
  <2>4. ASSUME NEW k \in persistent'
        PROVE  /\ k \in [node : Nodes, row : Nat]
               /\ k.row \in Rows(ParentOf[k.node])' /\ NodeAt(ParentOf[k.node], k.row)' = k.node
    <3>1. PICK i \in persistent : k = IndexOf(order, children'[ParentOf[i.node]], i.node)
      BY <2>1
    <3> DEFINE s == children'[ParentOf[i.node]]
    <3>2. /\ k.node = i.node
          /\ k.row \in 0..(Len(s) - 1)
          /\ s[translateVisibleLocation(order, s, k.row) + 1] = i.node
      BY <2>3, <3>1, IndexIsRight
    <3>3. k = [node |-> k.node, row |-> k.row]
      BY <3>1 DEF IndexOf
    <3>4. k.row \in Nat
      BY <2>3, <3>2, ChildrenAreFinite, ArrangementFacts
    <3>5. k \in [node : Nodes, row : Nat]
      BY <2>3, <3>2, <3>3, <3>4
    <3> QED BY <2>1, <3>2, <3>5 DEF Rows, NodeAt
  <2>5. TypeOK'
    <3>1. persistent' \subseteq [node : Nodes, row : Nat]
      BY <2>4
    <3> QED BY <2>1, <2>2, <3>1 DEF TypeOK, Tree, Filled, DirSet, ChildrenOf
  <2>6. IndexesFollow'
    BY <2>4 DEF IndexesFollow
  <2> QED BY <2>2, <2>5, <2>6
<1> QED BY <1>1, <1>2

\* The empty tree, at the start and after a reset.
LEMMA EmptyIsATree ==
  Tree(Empty) /\ Whole(Empty) /\ \A d \in Dirs : \A column : InOrder(column, Empty[d])
BY DEF Tree, Whole, Filled, Empty, DirSet, InOrder

LEMMA InitSortInv == Init => SortInv
<1> SUFFICES ASSUME Init PROVE SortInv
  OBVIOUS
<1>1. TypeOK
  BY EmptyIsATree, TreeOfType DEF Init, Columns, Orders
<1> QED BY <1>1, EmptyIsATree DEF Init, SortInv, InColumnOrder, IndexesFollow

LEMMA LoadStep ==
  ASSUME SortInv, Load
  PROVE  SortInv'
<1> DEFINE loaded(s) == [d \in Dirs \cup {Root} |-> IF d = Root THEN s
                           ELSE CHOOSE t \in SetToSeqs({n \in Nodes : ParentOf[n] = d}) : TRUE]
<1>1. children = Empty
  BY DEF Load
<1>2. PICK s \in SetToSeqs(ChildrenOf(Root)) : SortModel(loaded(s), TRUE, "name", "ascending")
  BY DEF Load, ChildrenOf
<1>3. Tree(loaded(s))
  <2>1. ASSUME NEW d \in DirSet PROVE Filled(loaded(s), d)
    <3>1. CASE d = Root
      BY <3>1 DEF Filled, DirSet
    <3>2. CASE d # Root
      <4>1. loaded(s)[d] = CHOOSE t \in SetToSeqs(ChildrenOf(d)) : TRUE
        BY <3>2 DEF DirSet, ChildrenOf
      <4>2. SetToSeqs(ChildrenOf(d)) # {}
        BY SomeArrangement, ChildrenAreFinite
      <4> HIDE DEF loaded
      <4> QED BY <4>1, <4>2 DEF Filled
    <3> QED BY <3>1, <3>2
  <2> QED BY <2>1 DEF Tree, DirSet
<1>4. persistent = {}
  <2> SUFFICES ASSUME NEW i \in persistent PROVE FALSE
    OBVIOUS
  <2>1. ParentOf[i.node] \in DirSet /\ i.row \in Rows(ParentOf[i.node])
    BY NodesAssumption DEF SortInv, IndexesFollow, TypeOK, DirSet
  <2>2. children[ParentOf[i.node]] = <<>>
    BY <1>1, <2>1 DEF Empty, DirSet
  <2> QED BY <2>1, <2>2 DEF Rows
<1> HIDE DEF loaded
<1>5. Whole(loaded(s))
  <2>1. ASSUME NEW d \in DirSet PROVE loaded(s)[d] \in SetToSeqs(ChildrenOf(d))
    <3>1. CASE d = Root
      BY <1>2, <3>1 DEF DirSet, loaded
    <3>2. CASE d # Root
      <4>1. loaded(s)[d] = CHOOSE t \in SetToSeqs(ChildrenOf(d)) : TRUE
        BY <3>2 DEF DirSet, ChildrenOf, loaded
      <4>2. SetToSeqs(ChildrenOf(d)) # {}
        BY SomeArrangement, ChildrenAreFinite
      <4> QED BY <4>1, <4>2
    <3> QED BY <3>1, <3>2
  <2> QED BY <2>1 DEF Whole
<1> QED BY <1>2, <1>3, <1>4, <1>5, SortModelStep DEF Columns, Orders

LEMMA SortStep ==
  ASSUME SortInv, NEW column \in Columns, NEW order \in Orders, Sort(column, order)
  PROVE  SortInv'
<1>1. Tree(children) /\ Whole(children) /\ m_bForceSort \in BOOLEAN
  BY TreeOfType DEF SortInv
<1>2. \A i \in persistent : children[ParentOf[i.node]] # <<>>
  <2> SUFFICES ASSUME NEW i \in persistent, children[ParentOf[i.node]] = <<>> PROVE FALSE
    OBVIOUS
  <2>1. i.row \in Rows(ParentOf[i.node])
    BY DEF SortInv, IndexesFollow
  <2> QED BY <2>1 DEF Rows
<1> QED BY <1>1, <1>2, SortModelStep DEF Sort

LEMMA HoldStep ==
  ASSUME SortInv, NEW d \in DirSet, NEW row \in Rows(d), Hold(d, row)
  PROVE  SortInv'
<1> DEFINE n == NodeAt(d, row)
           s == children[d]
<1>1. Tree(children)
  BY TreeOfType DEF SortInv
<1>2. s \in SetToSeqs(ChildrenOf(d))
  BY <1>1, RowsMeanFilled
<1>3. Len(s) \in Nat /\ \A i \in 1..Len(s) : s[i] \in ChildrenOf(d)
  BY <1>2, ChildrenAreFinite, ArrangementFacts
<1>4. row \in Nat /\ translateVisibleLocation(m_SortOrder, s, row) + 1 \in 1..Len(s)
  BY <1>3 DEF Rows, translateVisibleLocation
<1>5. n \in ChildrenOf(d)
  BY <1>3, <1>4 DEF NodeAt
<1>6. n \in Nodes /\ ParentOf[n] = d
  BY <1>5 DEF ChildrenOf
<1>7. /\ UNCHANGED <<children, m_iSortColumn, m_SortOrder, m_bForceSort>>
      /\ persistent' = persistent \cup {[node |-> n, row |-> row]}
  BY DEF Hold
<1>8. TypeOK'
  BY <1>4, <1>6, <1>7 DEF SortInv, TypeOK
<1>9. InColumnOrder'
  BY <1>7 DEF SortInv, InColumnOrder
<1>10. IndexesFollow'
  <2> SUFFICES ASSUME NEW i \in persistent'
               PROVE  i.row \in Rows(ParentOf[i.node]) /\ NodeAt(ParentOf[i.node], i.row) = i.node
    BY <1>7 DEF IndexesFollow, Rows, NodeAt
  <2>1. CASE i \in persistent
    BY <2>1 DEF SortInv, IndexesFollow
  <2>2. CASE i = [node |-> n, row |-> row]
    BY <1>6, <2>2
  <2> QED BY <1>7, <2>1, <2>2
<1>11. Whole(children)'
  BY <1>7 DEF SortInv, Whole
<1> QED BY <1>8, <1>9, <1>10, <1>11 DEF SortInv

LEMMA ResetStep ==
  ASSUME SortInv, ResetModel
  PROVE  SortInv'
<1>1. TypeOK'
  BY EmptyIsATree DEF ResetModel, SortInv, TypeOK, Tree, Filled, DirSet, ChildrenOf
<1>2. InColumnOrder' /\ IndexesFollow'
  BY EmptyIsATree DEF ResetModel, InColumnOrder, IndexesFollow
<1>3. Whole(children)'
  BY EmptyIsATree DEF ResetModel
<1> QED BY <1>1, <1>2, <1>3 DEF SortInv

\* The types, the order by the sorted column and the persistent indexes hold
\* after any clicks, loads and resets, on any tree.
THEOREM SortInvariant == Spec => []SortInv
<1>1. SortInv /\ [Next]_vars => SortInv'
  <2> SUFFICES ASSUME SortInv, [Next]_vars PROVE SortInv'
    OBVIOUS
  <2>1. CASE \E column \in Columns, order \in Orders : Sort(column, order)
    BY <2>1, SortStep
  <2>2. CASE Load
    BY <2>2, LoadStep
  <2>3. CASE ResetModel
    BY <2>3, ResetStep
  <2>4. CASE \E d \in Dirs \cup {Root} : \E row \in Rows(d) : Hold(d, row)
    BY <2>4, HoldStep DEF DirSet
  <2>5. CASE UNCHANGED vars
    BY <2>5 DEF vars, SortInv, TypeOK, InColumnOrder, IndexesFollow, Rows, NodeAt, Whole
  <2> QED BY <2>1, <2>2, <2>3, <2>4, <2>5 DEF Next
<1> QED BY <1>1, InitSortInv, PTL DEF Spec

\* The state of the tree stays in its types: a directory holds all of its
\* children, each once, or is empty.
THEOREM TreeTypeCorrect == Spec => []TypeOK
<1>1. SortInv => TypeOK
  BY DEF SortInv
<1> QED BY <1>1, SortInvariant, PTL

\* Persistent indexes follow their nodes through every sort.
THEOREM IndexesFollowNodes == Spec => []IndexesFollow
<1>1. SortInv => IndexesFollow
  BY DEF SortInv
<1> QED BY <1>1, SortInvariant, PTL

\* Whatever std::sort is called with, the comparison is one it is defined for.
THEOREM SortIsDefined == Spec => []ComparisonIsSound
<1>1. SortInv => ComparisonIsSound
  <2> SUFFICES ASSUME SortInv, NEW column \in Columns, NEW d \in Dirs
               PROVE  StrictWeakOrder({children[d][i] : i \in 1..Len(children[d])}, column)
    BY DEF ComparisonIsSound
  <2>1. {children[d][i] : i \in 1..Len(children[d])} \in SUBSET Nodes
    <3>1. Filled(children, d)
      BY TreeOfType DEF SortInv, Tree, DirSet
    <3>2. CASE children[d] = <<>>
      BY <3>2
    <3>3. CASE children[d] \in SetToSeqs(ChildrenOf(d))
      <4>1. {children[d][i] : i \in 1..Len(children[d])} = ChildrenOf(d)
        BY <3>3, ChildrenAreFinite, ArrangementFacts
      <4> QED BY <4>1 DEF ChildrenOf
    <3> QED BY <3>1, <3>2, <3>3 DEF Filled
  <2> QED BY <2>1, ComparisonIsStrictWeak
<1> QED BY <1>1, SortInvariant, PTL

\* The rows of every directory below the root are in the order asked for.
THEOREM RowsAreInOrder == Spec => []ShownInOrder
<1>1. SortInv => ShownInOrder
  <2> SUFFICES ASSUME SortInv, NEW d \in Dirs,
                      NEW i \in 1..Len(Shown(d)), NEW j \in 1..Len(Shown(d)), i < j
               PROVE  IF m_SortOrder = "ascending"
                      THEN ~CompareNodes(m_iSortColumn, Shown(d)[j], Shown(d)[i])
                      ELSE ~CompareNodes(m_iSortColumn, Shown(d)[i], Shown(d)[j])
    BY DEF ShownInOrder
  <2> DEFINE s == children[d]
             place(k) == translateVisibleLocation(m_SortOrder, s, k - 1) + 1
  <2>1. Len(s) \in Nat
    <3>1. Filled(children, d)
      BY TreeOfType DEF SortInv, Tree, DirSet
    <3>2. CASE children[d] = <<>>
      BY <3>2
    <3>3. CASE children[d] \in SetToSeqs(ChildrenOf(d))
      BY <3>3, ChildrenAreFinite, ArrangementFacts
    <3> QED BY <3>1, <3>2, <3>3 DEF Filled
  <2>2. Len(Shown(d)) = Len(s) /\ \A k \in 1..Len(s) : Shown(d)[k] = s[place(k)]
    BY <2>1 DEF Shown, NodeAt
  <2>3. \A k, m \in 1..Len(s) : k < m => ~CompareNodes(m_iSortColumn, s[m], s[k])
    BY DEF SortInv, InColumnOrder, InOrder
  <2>4. CASE m_SortOrder = "ascending"
    <3>1. place(i) = i /\ place(j) = j
      BY <2>1, <2>2, <2>4 DEF translateVisibleLocation
    <3> QED BY <2>2, <2>3, <2>4, <3>1
  <2>5. CASE m_SortOrder # "ascending"
    <3>1. m_SortOrder = "descending"
      BY <2>5 DEF SortInv, TypeOK, Orders
    <3>2. /\ place(i) \in 1..Len(s) /\ place(j) \in 1..Len(s)
          /\ place(j) < place(i)
      BY <2>1, <2>2, <3>1 DEF translateVisibleLocation
    <3> QED BY <2>2, <2>3, <2>5, <3>2
  <2> QED BY <2>4, <2>5
<1> QED BY <1>1, SortInvariant, PTL
=============================================================================
