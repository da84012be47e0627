-------------------------- MODULE MCNodeExtraction --------------------------
\* Values for the constants of NodeExtraction: the directory da with two files
\* of one package and, below it, db with a file of another; x in both.
EXTENDS NodeExtraction, TLC

CONSTANTS p1, p2, f1, f2, f3, da, db, x, ey, y, b1, b2

MCPkgs  == {p1, p2}
MCFiles == {f1, f2, f3}
MCNames == {da, db, x, ey, y}
MCBufs  == {b1, b2}

MCOwnerOf == f1 :> p1 @@ f2 :> p1 @@ f3 :> p2
MCPathOf  == f1 :> <<da, x>> @@ f2 :> <<da, ey>> @@ f3 :> <<da, db, x>>

\* f2 is encrypted, and a texture once it is decrypted; f3 is a texture.
MCEncrypted == {f2}
MCTextures  == {f2, f3}
MCDecryptedName == [n \in MCNames |-> IF n = ey THEN y ELSE n]

\* Addresses are only compared.
MCSymmetry == Permutations(MCBufs)
=============================================================================
