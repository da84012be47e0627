---------------------------- MODULE PkgModelSort ----------------------------
(***************************************************************************)
(* The order of PkgFileModel's tree (sources/pkgfilemodel.cpp: sort,       *)
(* index, translateVisibleLocation) and of the nodes of one directory      *)
(* (pkgfilemodelsorter.cpp).                                               *)
(*                                                                         *)
(* A directory keeps its children sorted in ascending order.  Descending   *)
(* order is only shown: the rows of a directory are counted from its other *)
(* end, and asking for the other order of the column that is sorted        *)
(* already moves no node.                                                  *)
(*                                                                         *)
(* The view holds persistent indexes (what is selected or expanded).  One  *)
(* keeps a pointer to its node and the row the node is shown at; sort has  *)
(* to give it the new row.                                                 *)
(***************************************************************************)
EXTENDS Integers, FiniteSets, Sequences, SequencesExt

CONSTANTS Files, Dirs,       \* the nodes, but for the root
          Root,
          ParentOf,          \* node -> its directory
          NameRank,          \* node -> place of its file name among all names
          TypeRank,          \* node -> place of its extension
          SizeOf,            \* file -> decrypted size
          OwnerRank          \* file -> place of its package's name

Nodes == Files \cup Dirs

ASSUME NodesAssumption ==
  /\ IsFiniteSet(Nodes)
  /\ Files \cap Dirs = {}
  /\ Root \notin Nodes
  /\ ParentOf \in [Nodes -> Dirs \cup {Root}]

\* Sizes are below 2^63: the narrowing to int64_t keeps them, and the
\* difference of two is one.
ASSUME RanksAssumption ==
  /\ NameRank \in [Nodes -> Nat]
  /\ TypeRank \in [Nodes -> Nat]
  /\ SizeOf \in [Files -> Nat]
  /\ OwnerRank \in [Files -> Nat]

Columns == {"name", "type", "size", "owner"}
Orders  == {"ascending", "descending"}

VARIABLES children,         \* m_vChildNodes of each directory
          m_iSortColumn, m_SortOrder, m_bForceSort,
          persistent        \* the indexes the view holds: [node, row]

vars == <<children, m_iSortColumn, m_SortOrder, m_bForceSort, persistent>>

-----------------------------------------------------------------------------
\* PkgFileModelSorter.

CompareByName(l, r) == NameRank[l] < NameRank[r]

GetDecryptedSize(n) == IF n \in Dirs THEN 0 ELSE SizeOf[n]

\* Ascending by rank, by name where the ranks of l and r are the same.
CompareBy(rankOfL, rankOfR, l, r) == \/ rankOfL < rankOfR
                                     \/ rankOfL = rankOfR /\ CompareByName(l, r)

\* The owners only compare files.
CompareByOwnerPkg(l, r) ==
  IF l \in Dirs \/ r \in Dirs THEN CompareByName(l, r)
  ELSE CompareBy(OwnerRank[l], OwnerRank[r], l, r)

CompareByColumn(column, l, r) ==
  CASE column = "name"  -> CompareByName(l, r)
    [] column = "type"  -> CompareBy(TypeRank[l], TypeRank[r], l, r)
    [] column = "size"  -> CompareBy(GetDecryptedSize(l), GetDecryptedSize(r), l, r)
    [] column = "owner" -> CompareByOwnerPkg(l, r)

CompareNodesMixed(column, l, r) == CompareByColumn(column, l, r)    \* mutant: one order for all
\* bool CompareNodes(l, r): directories go first.
CompareNodes(column, l, r) ==
  IF l \in Dirs <=> r \in Dirs
  THEN CompareByColumn(column, l, r)
  ELSE l \in Dirs

-----------------------------------------------------------------------------
\* The order of one directory.

InOrder(column, s) ==
  \A i, j \in 1..Len(s) : i < j => ~CompareNodes(column, s[j], s[i])

\* What std::sort may leave: nodes that compare equal come in any order.
SortNodes(column, s) == {t \in SetToSeqs({s[i] : i \in 1..Len(s)}) : InOrder(column, t)}

\* The children of every directory of m_DirectoryNodes sorted.  The root is
\* not one of them.
Sorted(column, kids) ==
  {[d \in Dirs \cup {Root} |-> IF d = Root THEN kids[Root] ELSE t[d]] :
     t \in {t \in [Dirs -> UNION {SortNodes(column, kids[d]) : d \in Dirs}] :
              \A d \in Dirs : t[d] \in SortNodes(column, kids[d])}}

-----------------------------------------------------------------------------
\* Rows.

\* int translateVisibleLocation(parent, row), its own inverse.  Rows count from 0.
translateVisibleLocation(order, kids, row) ==
  IF order = "descending" THEN Len(kids) - row - 1 ELSE row

\* QModelIndex index(row, column, parent): the node at a row of directory d.
NodeAt(d, row) == children[d][translateVisibleLocation(m_SortOrder, children[d], row) + 1]
Rows(d) == 0..(Len(children[d]) - 1)
\* The children of d as the view shows them.
Shown(d) == [i \in 1..Len(children[d]) |-> NodeAt(d, i - 1)]

\* QModelIndex index(node, column).
GetLocationFromOne(kids, n) == CHOOSE i \in 1..Len(kids) : kids[i] = n    \* mutant: counts from 1
GetLocationOf(kids, n) == CHOOSE i \in 0..(Len(kids) - 1) : kids[i + 1] = n
IndexOf(order, kids, n) ==
  [node |-> n, row |-> translateVisibleLocation(order, kids, GetLocationOf(kids, n))]

TypeOK ==
  /\ DOMAIN children = Dirs \cup {Root}
  /\ \A d \in Dirs \cup {Root} :
        \/ children[d] = <<>>
        \/ children[d] \in SetToSeqs({n \in Nodes : ParentOf[n] = d})
  /\ m_iSortColumn \in Columns
  /\ m_SortOrder \in Orders
  /\ m_bForceSort \in BOOLEAN
  /\ persistent \subseteq [node : Nodes, row : Nat]

Empty == [d \in Dirs \cup {Root} |-> <<>>]

Init ==
  /\ children = Empty
  /\ m_iSortColumn = "name"
  /\ m_SortOrder = "ascending"
  /\ m_bForceSort = TRUE
  /\ persistent = {}

-----------------------------------------------------------------------------
ShouldOrderColumnUnforced(column, order, force) ==    \* mutant: m_bForceSort is not looked at
  ~(m_iSortColumn = column /\ m_SortOrder # order)
ShouldOrderColumn(column, order, force) ==
  ~(m_iSortColumn = column /\ m_SortOrder # order /\ ~force)

\* void sort(column, order) on a tree whose directories hold kids.
SortModelEarlyIndexes(kids, force, column, order) ==    \* mutant: rows from before the order changes
  IF m_SortOrder = order /\ m_iSortColumn = column /\ ~force
  THEN children' = kids /\ UNCHANGED <<m_iSortColumn, m_SortOrder, m_bForceSort, persistent>>
  ELSE /\ IF ShouldOrderColumn(column, order, force)
          THEN /\ children' \in Sorted(column, kids)
               /\ m_iSortColumn' = column
               /\ m_bForceSort' = FALSE
          ELSE /\ children' = kids
               /\ UNCHANGED <<m_iSortColumn, m_bForceSort>>
       /\ m_SortOrder' = order
       /\ persistent' = {IndexOf(m_SortOrder, children'[ParentOf[i.node]], i.node) :
                           i \in persistent}
SortModel(kids, force, column, order) ==
  IF m_SortOrder = order /\ m_iSortColumn = column /\ ~force
  THEN children' = kids /\ UNCHANGED <<m_iSortColumn, m_SortOrder, m_bForceSort, persistent>>
  ELSE /\ IF ShouldOrderColumn(column, order, force)
          THEN /\ children' \in Sorted(column, kids)
               /\ m_iSortColumn' = column
               /\ m_bForceSort' = FALSE
          ELSE /\ children' = kids
               /\ UNCHANGED <<m_iSortColumn, m_bForceSort>>
       /\ m_SortOrder' = order
       /\ persistent' = {IndexOf(order, children'[ParentOf[i.node]], i.node) : i \in persistent}

\* The user clicks a header of the view.
Sort(column, order) == SortModel(children, m_bForceSort, column, order)

\* A load fills the directories, in the order of the packages and their
\* entries, and ends with a forced sort by name.  Only the order of the root
\* matters, for the sort puts the others in order.
Load ==
  /\ children = Empty
  /\ \E s \in SetToSeqs({n \in Nodes : ParentOf[n] = Root}) :
        SortModel([d \in Dirs \cup {Root} |-> IF d = Root THEN s
                     ELSE CHOOSE t \in SetToSeqs({n \in Nodes : ParentOf[n] = d}) : TRUE],
                  TRUE, "name", "ascending")

\* ResetModel.  The view lets go of its indexes; the column and the order stay.
ResetModel ==
  /\ children' = Empty
  /\ m_bForceSort' = TRUE
  /\ persistent' = {}
  /\ UNCHANGED <<m_iSortColumn, m_SortOrder>>

\* The view asks for the node at a row and keeps the index.
Hold(d, row) ==
  /\ persistent' = persistent \cup {[node |-> NodeAt(d, row), row |-> row]}
  /\ UNCHANGED <<children, m_iSortColumn, m_SortOrder, m_bForceSort>>

Next ==
  \/ \E column \in Columns, order \in Orders : Sort(column, order)
  \/ Load
  \/ ResetModel
  \/ \E d \in Dirs \cup {Root} : \E row \in Rows(d) : Hold(d, row)

Spec == Init /\ [][Next]_vars

-----------------------------------------------------------------------------
\* Properties.

\* What std::sort asks of its comparison, or it is undefined: for every column
\* and all nodes, irreflexive, transitive, and so that "neither is before the
\* other" is transitive too.
StrictWeakOrder(S, column) ==
  LET before(l, r) == CompareNodes(column, l, r)
  IN  /\ \A l \in S : ~before(l, l)
      /\ \A l, m, r \in S : before(l, m) /\ before(m, r) => before(l, r)
      /\ \A l, m, r \in S :
            (~before(l, m) /\ ~before(m, l) /\ ~before(m, r) /\ ~before(r, m))
              => ~before(l, r) /\ ~before(r, l)

\* The comparison std::sort is given for the children of a directory is one
\* it is defined for, by every column the user may click, in directories that
\* mix files and directories too.
ComparisonIsSound ==
  \A column \in Columns, d \in Dirs :
    StrictWeakOrder({children[d][i] : i \in 1..Len(children[d])}, column)

\* After any sequence of clicks, resets and loads the rows below every
\* directory are in the order last asked for, or by name after a load:
\* although a change of the order alone moves no node, and a reset keeps the
\* column and the order of the archive before.
ShownInOrder ==
  \A d \in Dirs :
    LET rows == Shown(d)
    IN  \A i, j \in 1..Len(rows) :
          i < j => IF m_SortOrder = "ascending"
                   THEN ~CompareNodes(m_iSortColumn, rows[j], rows[i])
                   ELSE ~CompareNodes(m_iSortColumn, rows[i], rows[j])

\* An index the view holds stays at the row its node is shown at: what is
\* selected or expanded is the same node before and after a sort.
IndexesFollow ==
  \A i \in persistent :
    LET d == ParentOf[i.node] IN i.row \in Rows(d) /\ NodeAt(d, i.row) = i.node

\* "Directories go first" (pkgfilemodelsorter.cpp:17), in ascending order and
\* in every directory the view shows.
DirectoriesFirst ==
  m_SortOrder = "ascending" =>
    \A d \in Dirs \cup {Root} : \A i, j \in 1..Len(children[d]) :
       (i < j /\ Shown(d)[j] \in Dirs) => Shown(d)[i] \in Dirs
=============================================================================
