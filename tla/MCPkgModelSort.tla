--------------------------- MODULE MCPkgModelSort ---------------------------
\* Values for the constants of PkgModelSort: a directory with a file beside
\* it at the root; below it two files and a directory with three more, as many
\* as itself and its siblings.
EXTENDS PkgModelSort, TLC

CONSTANTS top, f1, f2, f3, f4, f5, d1, d2

MCFiles == {top, f1, f2, f3, f4, f5}
MCDirs  == {d1, d2}

MCParentOf == top :> Root @@ d1 :> Root @@ d2 :> d1 @@ f1 :> d1 @@ f2 :> d1
              @@ f3 :> d2 @@ f4 :> d2 @@ f5 :> d2

\* By name d2 comes between f2 and f1, by owner f1 before f2; f3 and f4 have
\* the same name and the same size, but not the same owner.
MCNameRank  == top :> 3 @@ d1 :> 1 @@ d2 :> 2 @@ f1 :> 3 @@ f2 :> 1 @@ f3 :> 1 @@ f4 :> 1 @@ f5 :> 2
MCTypeRank  == top :> 1 @@ d1 :> 0 @@ d2 :> 0 @@ f1 :> 0 @@ f2 :> 1 @@ f3 :> 2 @@ f4 :> 1 @@ f5 :> 0
MCSizeOf    == top :> 0 @@ f1 :> 0 @@ f2 :> 7 @@ f3 :> 7 @@ f4 :> 7 @@ f5 :> 3
MCOwnerRank == top :> 1 @@ f1 :> 1 @@ f2 :> 2 @@ f3 :> 3 @@ f4 :> 4 @@ f5 :> 5
=============================================================================
