---------------------------- MODULE MCMainWindow ----------------------------
\* Values for the constants of MainWindow: two folders with an index each.
EXTENDS MainWindow, TLC

CONSTANTS f1, f2, p1, p2, d1, o1, o2, o3, o4

MCFolders == {f1, f2}
MCPkgs    == {p1, p2}
MCDirs    == {d1}
MCObjs    == {o1, o2, o3}
MCObjsDrops == {o1, o2, o3, o4}

\* p1 has its entries in a directory, p2 at the root; the index of one folder
\* names both, that of the other one of them.
MCDirsOf  == p1 :> {d1} @@ p2 :> {}
MCIndexOf == f1 :> <<p2, p1>> @@ f2 :> <<p1>>

\* No directories, for the runs with nested handlers.
MCNoDirs   == {}
MCNoDirsOf == p1 :> {} @@ p2 :> {}

\* One folder, for the runs with nested handlers.
MCOneFolder     == {f1}
MCOneIndexOf    == f1 :> <<p2, p1>>

Symmetry      == Permutations(MCObjs)
SymmetryDrops == Permutations(MCObjsDrops)
=============================================================================
