------------------------ MODULE NodeExtraction_proofs ------------------------
(***************************************************************************)
(* Theorems about NodeExtraction, for any packages, files and selections.  *)
(***************************************************************************)
EXTENDS NodeExtraction, FiniteSetTheorems, SequenceTheorems, TLAPS

-----------------------------------------------------------------------------
\* What an extraction collects are files, each with its owner.

LEMMA BelowAreFiles == \A n \in Files \cup Dirs : \A t \in Below[n] : t.file \in Files
<1> SUFFICES ASSUME NEW n \in Files \cup Dirs, NEW t \in Below[n] PROVE t.file \in Files
  OBVIOUS
<1>1. CASE n \in Files
  BY <1>1 DEF Below, Item
<1>2. CASE n \notin Files
  BY <1>2 DEF Below, Item
<1> QED BY <1>1, <1>2

LEMMA WantedOfOwn == \A p : \A t \in WantedOf(p) : OwnerOf[t.file] = p
BY DEF WantedOf

-----------------------------------------------------------------------------
\* The buffers.

BuffersTyped ==
  /\ memory \in [Bufs -> Pkgs \cup {NoPkg}]
  /\ dataBuffer \in [Pkgs -> Bufs \cup {NoBuf}]
  /\ vPkgFiles \subseteq Pkgs

\* Between packages nothing is collected: what a package is asked for is its own.
CollectedOwn ==
  /\ pc \in {"idle", "next"} => m_vOutNodesData = {}
  /\ pc \in {"load", "write"} => /\ pkg \in Pkgs
                                 /\ \A t \in m_vOutNodesData : OwnerOf[t.file] = pkg

\* A vector is held only while its package is written; it is the one the
\* PkgFile points to.
PointsToOwn ==
  /\ m_vLoadedPkgFile # NoBuf => pc = "write"
  /\ pc = "write" => /\ m_vLoadedPkgFile \in Bufs
                     /\ dataBuffer[pkg] = m_vLoadedPkgFile
                     /\ memory[m_vLoadedPkgFile] = pkg
                     /\ \A t \in todo : OwnerOf[t.file] = pkg

BufferInv == BuffersTyped /\ CollectedOwn /\ PointsToOwn

LEMMA InitBufferInv == Init => BufferInv
BY DEF Init, BufferInv, BuffersTyped, CollectedOwn, PointsToOwn

LEMMA FreeIsTyped ==
  ASSUME BuffersTyped
  PROVE  Free \in [Bufs -> Pkgs \cup {NoPkg}]
BY DEF BuffersTyped, Free, Freed

LEMMA ExtractStep ==
  ASSUME BufferInv, NEW k, NEW ns \in SUBSET (Files \cup Dirs), Extract(k, ns)
  PROVE  BufferInv'
<1>1. vPkgFiles' \subseteq Pkgs
  <2>1. CASE k = "all"
    BY <2>1 DEF Extract
  <2>2. CASE k # "all"
    <3>1. vPkgFiles' = {OwnerOf[t.file] : t \in UNION {Below[n] : n \in ns}}
      BY <2>2 DEF Extract
    <3>2. \A t \in UNION {Below[n] : n \in ns} : t.file \in Files
      BY BelowAreFiles
    <3> QED BY <3>1, <3>2, FilesAssumption
  <2> QED BY <2>1, <2>2
<1>2. /\ pc = "idle" /\ pc' = "next"
      /\ UNCHANGED <<pkg, m_vOutNodesData, todo, m_vLoadedPkgFile, memory, dataBuffer>>
  BY DEF Extract, data
<1> QED BY <1>1, <1>2 DEF BufferInv, BuffersTyped, CollectedOwn, PointsToOwn

LEMMA NextPackageStep ==
  ASSUME BufferInv, NextPackage
  PROVE  BufferInv'
<1>1. PICK p \in vPkgFiles :
        /\ vPkgFiles' = vPkgFiles \ {p}
        /\ pkg' = p
        /\ m_vOutNodesData' = IF kind = "all" THEN {} ELSE m_vOutNodesData \cup WantedOf(p)
        /\ pc' = IF kind # "all" /\ m_vOutNodesData' = {} THEN "next" ELSE "load"
  BY DEF NextPackage
<1>2. /\ pc = "next"
      /\ UNCHANGED <<m_vLoadedPkgFile, memory, dataBuffer>>
  BY DEF NextPackage, data
<1>3. m_vLoadedPkgFile = NoBuf /\ m_vOutNodesData = {}
  BY <1>2 DEF BufferInv, PointsToOwn, CollectedOwn
<1>4. \A t \in m_vOutNodesData' : OwnerOf[t.file] = p
  BY <1>1, <1>3, WantedOfOwn
<1>5. CollectedOwn'
  BY <1>1, <1>4 DEF CollectedOwn, BufferInv, BuffersTyped
<1>6. PointsToOwn'
  BY <1>1, <1>2, <1>3 DEF PointsToOwn
<1>7. BuffersTyped'
  BY <1>1, <1>2 DEF BufferInv, BuffersTyped
<1> QED BY <1>5, <1>6, <1>7 DEF BufferInv

LEMMA LoadStep ==
  ASSUME BufferInv, LoadPkgFileData
  PROVE  BufferInv'
<1>1. PICK b \in Bufs : /\ memory' = [Free EXCEPT ![b] = pkg]
                        /\ m_vLoadedPkgFile' = b
                        /\ dataBuffer' = [dataBuffer EXCEPT ![pkg] = b]
  BY DEF LoadPkgFileData
<1>2. /\ pc = "load" /\ pc' = "write"
      /\ todo' = IF kind = "all" THEN WantedOf(pkg) ELSE m_vOutNodesData
      /\ UNCHANGED <<vPkgFiles, pkg, m_vOutNodesData>>
  BY DEF LoadPkgFileData
<1>3. pkg \in Pkgs /\ \A t \in m_vOutNodesData : OwnerOf[t.file] = pkg
  BY <1>2 DEF BufferInv, CollectedOwn
<1>4. Free \in [Bufs -> Pkgs \cup {NoPkg}]
  BY FreeIsTyped DEF BufferInv
<1>5. BuffersTyped'
  BY <1>1, <1>2, <1>3, <1>4 DEF BufferInv, BuffersTyped
<1>6. CollectedOwn'
  BY <1>2, <1>3 DEF CollectedOwn
<1>7. \A t \in todo' : OwnerOf[t.file] = pkg
  BY <1>2, <1>3, WantedOfOwn
<1>8. dataBuffer'[pkg] = b /\ memory'[b] = pkg
  BY <1>1, <1>3, <1>4 DEF BufferInv, BuffersTyped
<1>9. PointsToOwn'
  BY <1>1, <1>2, <1>7, <1>8 DEF PointsToOwn
<1> QED BY <1>5, <1>6, <1>9 DEF BufferInv

\* A return gives up the vector and what was collected.
LEMMA ReturnStep ==
  ASSUME BufferInv, NEW result, Return(result)
  PROVE  BufferInv'
BY FreeIsTyped DEF Return, BufferInv, BuffersTyped, CollectedOwn, PointsToOwn

LEMMA WriteStep ==
  ASSUME BufferInv, WriteEntry
  PROVE  BufferInv'
<1>1. /\ pc = "write" /\ todo' \subseteq todo
      /\ UNCHANGED <<pc, vPkgFiles, pkg, m_vOutNodesData, m_vLoadedPkgFile, memory, dataBuffer>>
  BY DEF WriteEntry, data
<1> QED BY <1>1 DEF BufferInv, BuffersTyped, CollectedOwn, PointsToOwn

LEMMA WrittenStep ==
  ASSUME BufferInv, PackageWritten
  PROVE  BufferInv'
<1>1. /\ pc = "write" /\ pc' = "next" /\ m_vOutNodesData' = {} /\ m_vLoadedPkgFile' = NoBuf
      /\ memory' = Free /\ vPkgFiles' = vPkgFiles
      /\ dataBuffer' = dataBuffer \/ dataBuffer' = [dataBuffer EXCEPT ![pkg] = NoBuf]
  BY DEF PackageWritten
<1>2. BuffersTyped'
  BY <1>1, FreeIsTyped DEF BufferInv, BuffersTyped
<1> QED BY <1>1, <1>2 DEF BufferInv, CollectedOwn, PointsToOwn

\* The invariant of the buffers over any sequence of extractions, failed
\* ones and extract all included, which leave PkgFiles pointing anywhere.
THEOREM BufferInvariant == Spec => []BufferInv
<1>1. BufferInv /\ [Next]_vars => BufferInv'
  <2> SUFFICES ASSUME BufferInv, [Next]_vars PROVE BufferInv'
    OBVIOUS
  <2>1. CASE ExtractNodes \/ ExtractPackages \/ ExtractSingleFileNode
    BY <2>1, ExtractStep DEF ExtractNodes, ExtractPackages, ExtractSingleFileNode
  <2>2. CASE NextPackage
    BY <2>2, NextPackageStep
  <2>3. CASE LoadPkgFileData
    BY <2>3, LoadStep
  <2>4. CASE ReadFails \/ WriteFails \/ Finish
    BY <2>4, ReturnStep DEF ReadFails, WriteFails, Finish
  <2>5. CASE ParseThrows
    BY <2>5 DEF ParseThrows, work, data, BufferInv, BuffersTyped, CollectedOwn, PointsToOwn
  <2>6. CASE WriteEntry
    BY <2>6, WriteStep
  <2>7. CASE PackageWritten
    BY <2>7, WrittenStep
  <2>8. CASE Terminated \/ UNCHANGED vars
    BY <2>8 DEF Terminated, vars, work, data, BufferInv, BuffersTyped, CollectedOwn, PointsToOwn
  <2> QED BY <2>1, <2>2, <2>3, <2>4, <2>5, <2>6, <2>7, <2>8 DEF Next
<1> QED BY <1>1, InitBufferInv, PTL DEF Spec

\* Nothing is ever decrypted from a vector that was freed, or from another
\* package's.
THEOREM OwnBytesAreRead == Spec => []ReadsOwnBytes
<1>1. BufferInv => ReadsOwnBytes
  BY FilesAssumption DEF BufferInv, PointsToOwn, ReadsOwnBytes
<1> QED BY <1>1, BufferInvariant, PTL

-----------------------------------------------------------------------------
\* Items: what an extraction is to write.

LEMMA PathFacts ==
  ASSUME NEW f \in Files
  PROVE  PathOf[f] \in Seq(Names) /\ PathOf[f] # <<>> /\ Len(PathOf[f]) \in Nat /\ Len(PathOf[f]) >= 1
<1>1. PathOf[f] \in Seq(Names) /\ PathOf[f] # <<>>
  BY FilesAssumption
<1> QED BY <1>1, EmptySeq

LEMMA ItemFacts ==
  ASSUME NEW f \in Files, NEW t \in ItemsOf(f)
  PROVE  t.file = f /\ t.path \in Paths
<1>1. PICK i \in 1..Len(PathOf[f]) : t = Item(f, i)
  BY DEF ItemsOf
<1>2. PathOf[f] \in Seq(Names) /\ Len(PathOf[f]) \in Nat
  BY PathFacts
<1>3. \A k \in i..Len(PathOf[f]) : PathOf[f][k] \in Names
  BY <1>2, ElementOfSeq
<1>4. SubSeq(PathOf[f], i, Len(PathOf[f])) \in Seq(Names)
  BY <1>2, <1>3, SubSeqProperties
<1> QED BY <1>1, <1>4 DEF Item, Paths

LEMMA BelowAreItems ==
  ASSUME NEW n \in Files \cup Dirs, NEW t \in Below[n]
  PROVE  t.file \in Files /\ t \in ItemsOf(t.file)
<1>1. CASE n \in Files
  <2>1. t = Item(n, Len(PathOf[n])) /\ t.file = n
    BY <1>1 DEF Below, Item
  <2>2. Len(PathOf[n]) \in 1..Len(PathOf[n])
    BY <1>1, PathFacts
  <2> QED BY <1>1, <2>1, <2>2 DEF ItemsOf
<1>2. CASE n \notin Files
  <2>1. PICK f \in Files : n \in Prefixes(PathOf[f]) /\ t = Item(f, Len(n))
    BY <1>2 DEF Below
  <2>2. PICK i \in 1..(Len(PathOf[f]) - 1) : n = SubSeq(PathOf[f], 1, i)
    BY <2>1 DEF Prefixes
  <2>3. PathOf[f] \in Seq(Names) /\ Len(PathOf[f]) \in Nat
    BY PathFacts
  <2>4. Len(n) = i
    <3>1. i \in Nat /\ 1 <= i /\ i <= Len(PathOf[f])
      BY <2>3
    <3> QED BY <2>2, <2>3, <3>1, SubSeqProperties
  <2>5. Len(n) \in 1..Len(PathOf[f])
    BY <2>3, <2>4
  <2> QED BY <2>1, <2>5 DEF Item, ItemsOf
<1> QED BY <1>1, <1>2

LEMMA WantedAreItems ==
  ASSUME nodes \subseteq Files \cup Dirs, NEW t \in Wanted
  PROVE  t.file \in Files /\ t \in ItemsOf(t.file) /\ t.path \in Paths /\ OwnerOf[t.file] \in Pkgs
<1>1. t.file \in Files /\ t \in ItemsOf(t.file)
  <2>1. CASE kind = "all"
    BY <2>1, PathFacts DEF Wanted, Item, ItemsOf
  <2>2. CASE kind # "all"
    BY <2>2, BelowAreItems DEF Wanted
  <2> QED BY <2>1, <2>2
<1> QED BY <1>1, ItemFacts, FilesAssumption

LEMMA ItemsAreFinite == IsFiniteSet(Items)
<1>1. ASSUME NEW f \in Files PROVE IsFiniteSet(ItemsOf(f))
  <2>1. IsFiniteSet(1..Len(PathOf[f]))
    BY PathFacts, FS_Interval
  <2> DEFINE g == [i \in 1..Len(PathOf[f]) |-> Item(f, i)]
  <2>2. g \in Surjection(1..Len(PathOf[f]), ItemsOf(f))
    BY DEF Surjection, ItemsOf
  <2> QED BY <2>1, <2>2, FS_Surjection
<1>2. IsFiniteSet({ItemsOf(f) : f \in Files})
  <2> DEFINE g == [f \in Files |-> ItemsOf(f)]
  <2>1. g \in Surjection(Files, {ItemsOf(f) : f \in Files})
    BY DEF Surjection
  <2> HIDE DEF g
  <2> QED BY <2>1, FilesAssumption, FS_Surjection
<1> QED BY <1>1, <1>2, FS_UNION DEF Items

LEMMA WantedIsFinite ==
  ASSUME nodes \subseteq Files \cup Dirs
  PROVE  IsFiniteSet(Wanted)
BY ItemsAreFinite, WantedAreItems, FS_Subset DEF Items

\* What is left on the disk for an item is its file, at one of its places.
LEMMA OutcomeFacts ==
  ASSUME NEW t, t.file \in Files, t.path \in Paths, NEW w \in Outcomes(t)
  PROVE  /\ w.file = t.file /\ w.path \in Places(t) /\ w.path \in Paths
         /\ w.form \in {"stored", "decrypted", "decompressed", "lost"}
<1> DEFINE Form == {"stored", "decrypted", "decompressed", "lost"}
           Good(v) == v.file = t.file /\ v.path \in Places(t) /\ v.form \in Form
                      /\ v = [file |-> v.file, path |-> v.path, form |-> v.form]
<1>1. \A v \in Decrypt(t) : Good(v)
  BY DEF Decrypt, Places
<1>2. ASSUME NEW v, Good(v) PROVE \A u \in Decompress(v) : Good(u)
  BY <1>2 DEF Decompress
<1>3. ASSUME NEW v, Good(v) PROVE \A u \in WriteBufferToFile(v) : Good(u)
  BY <1>3 DEF WriteBufferToFile
<1>4. PICK v \in UNION {Decompress(u) : u \in Decrypt(t)} : w \in WriteBufferToFile(v)
  BY DEF Outcomes
<1>5. Good(v)
  <2> HIDE DEF Good
  <2> QED BY <1>1, <1>2
<1>6. Good(w)
  <2> HIDE DEF Good
  <2> QED BY <1>3, <1>4, <1>5
<1>7. Fixed(t.path) \in Paths
  <2>1. t.path \in Seq(Names)
    BY DEF Paths
  <2>2. CASE t.path = <<>>
    <3>1. Fixed(t.path) = t.path
      BY <2>2 DEF Fixed
    <3> QED BY <3>1
  <2>3. CASE t.path # <<>>
    <3>1. Len(t.path) \in 1..Len(t.path) /\ t.path[Len(t.path)] \in Names
      BY <2>1, <2>3, EmptySeq, ElementOfSeq
    <3>2. DecryptedName[t.path[Len(t.path)]] \in Names
      BY <3>1, FilesAssumption
    <3> QED BY <2>1, <3>1, <3>2, ExceptSeq DEF Fixed, Paths
  <2> QED BY <2>2, <2>3
<1> QED BY <1>6, <1>7 DEF Places

-----------------------------------------------------------------------------
\* The loops: what an extraction has still to write.

Working == pc \in {"next", "load", "write"}

Left == {t \in Wanted : OwnerOf[t.file] \in vPkgFiles} \cup
        IF pc = "load" THEN WantedOf(pkg) ELSE IF pc = "write" THEN todo ELSE {}

Settled == Wanted \ Left

\* The place of an item was written, and by which file.
Covered(t) == \E w \in disk : /\ w.path \in Places(t)
                              /\ \E u \in Wanted : Collide(t, u) /\ w.file = u.file

LoopInv ==
  /\ pc \in {"load", "write"} => pkg \notin vPkgFiles
  /\ pc = "load" /\ kind # "all" => m_vOutNodesData = WantedOf(pkg)
  /\ pc = "write" => todo \subseteq WantedOf(pkg)
  /\ nodes \subseteq Files \cup Dirs
  /\ kind = "single" => \E f \in Files : nodes = {f}
  /\ Working => written = Settled
  /\ Working => \A t \in Settled : Covered(t)
  /\ Working /\ kind # "single" => m_iExtractionProgress = Cardinality(Settled)
  /\ Working /\ kind = "single" /\ Settled # {}
       => \E w \in disk : w.path = outResultPath /\ nodes = {w.file}

Results == SuccessIsComplete /\ ProgressIsExact /\ PreviewNamesItsFile

ExtractInv == BufferInv /\ LoopInv /\ Results

\* A step after which as much is left, and the disk is as it was.
LEMMA NothingWritten ==
  ASSUME LoopInv, Working, Working', Left' = Left, UNCHANGED <<kind, nodes, out>>,
         pc' \in {"load", "write"} => pkg' \notin vPkgFiles',
         pc' = "load" /\ kind # "all" => m_vOutNodesData' = WantedOf(pkg'),
         pc' = "write" => todo' \subseteq WantedOf(pkg')
  PROVE  LoopInv' /\ Results'
<1>1. Wanted' = Wanted /\ Settled' = Settled
  BY DEF Wanted, Below, Settled
<1>2. \A p : WantedOf(p)' = WantedOf(p)
  BY <1>1 DEF WantedOf
<1>3. \A t : Covered(t)' <=> Covered(t)
  BY <1>1 DEF Covered, out
<1>4. WantedOf(pkg)' = WantedOf(pkg')
  BY <1>1 DEF WantedOf
<1>5. LoopInv'
  BY <1>1, <1>3, <1>4 DEF LoopInv, out
<1>6. pc' # "idle"
  BY DEF Working
<1> QED BY <1>5, <1>6 DEF Results, SuccessIsComplete, ProgressIsExact, PreviewNamesItsFile, Done

\* At the start everything is left.
LEMMA ExtractLoop ==
  ASSUME NEW k \in Kinds, NEW ns \in SUBSET (Files \cup Dirs),
         k = "single" => \E f \in Files : ns = {f}, Extract(k, ns)
  PROVE  LoopInv' /\ Results'
<1>1. /\ kind' = k /\ nodes' = ns /\ pc' = "next"
      /\ m_iExtractionProgress' = 0 /\ written' = {}
      /\ vPkgFiles' = IF k = "all" THEN Pkgs
                      ELSE {OwnerOf[t.file] : t \in UNION {Below[n] : n \in ns}}
  BY DEF Extract
<1>2. \A t \in Wanted' : OwnerOf[t.file] \in vPkgFiles'
  <2>1. CASE k = "all"
    BY <1>1, <2>1, FilesAssumption DEF Wanted, Item
  <2>2. CASE k # "all"
    BY <1>1, <2>2 DEF Wanted, Below, Item
  <2> QED BY <2>1, <2>2
<1>3. Settled' = {}
  BY <1>1, <1>2 DEF Settled, Left
<1>4. Cardinality(Settled') = 0
  BY <1>3, FS_EmptySet
<1>5. LoopInv'
  BY <1>1, <1>3, <1>4 DEF LoopInv, Working
<1> QED BY <1>1, <1>5 DEF Results, SuccessIsComplete, ProgressIsExact, PreviewNamesItsFile, Done

\* The package moves from those to come to the one at hand, or has nothing.
LEMMA NextPackageLoop ==
  ASSUME BufferInv, LoopInv, NextPackage
  PROVE  LoopInv' /\ Results'
<1>1. PICK p \in vPkgFiles :
        /\ vPkgFiles' = vPkgFiles \ {p}
        /\ pkg' = p
        /\ m_vOutNodesData' = IF kind = "all" THEN {} ELSE m_vOutNodesData \cup WantedOf(p)
        /\ pc' = IF kind # "all" /\ m_vOutNodesData' = {} THEN "next" ELSE "load"
  BY DEF NextPackage
<1>2. pc = "next" /\ UNCHANGED <<kind, nodes, out>>
  BY DEF NextPackage, job
<1>3. kind # "all" => m_vOutNodesData' = WantedOf(p)
  BY <1>1, <1>2 DEF BufferInv, CollectedOwn
<1>4. Wanted' = Wanted
  BY <1>2 DEF Wanted, Below
<1>5. Left = {t \in Wanted : OwnerOf[t.file] \in vPkgFiles}
  BY <1>2 DEF Left
<1>6. WantedOf(p)' = WantedOf(p)
  BY <1>4 DEF WantedOf
<1>7. Left' = {t \in Wanted : OwnerOf[t.file] \in vPkgFiles \ {p}} \cup WantedOf(p)
  <2>1. CASE pc' = "load"
    BY <1>1, <1>4, <2>1 DEF Left, WantedOf
  <2>2. CASE pc' = "next"
    <3>1. WantedOf(p) = {}
      BY <1>1, <1>3, <2>2
    <3> QED BY <1>1, <1>4, <2>2, <3>1 DEF Left
  <2> QED BY <1>1, <2>1, <2>2
<1>8. Left' = Left
  BY <1>5, <1>7 DEF WantedOf
<1>9. Working /\ Working' /\ pc' \in {"next", "load"}
  BY <1>1, <1>2 DEF Working
<1> QED BY <1>1, <1>2, <1>3, <1>8, <1>9, NothingWritten

LEMMA LoadLoop ==
  ASSUME BufferInv, LoopInv, LoadPkgFileData
  PROVE  LoopInv' /\ Results'
<1>1. /\ pc = "load" /\ pc' = "write"
      /\ todo' = IF kind = "all" THEN WantedOf(pkg) ELSE m_vOutNodesData
      /\ UNCHANGED <<vPkgFiles, pkg, m_vOutNodesData, kind, nodes, out>>
  BY DEF LoadPkgFileData, job
<1>2. todo' = WantedOf(pkg)
  BY <1>1 DEF LoopInv
<1>3. Wanted' = Wanted
  BY <1>1 DEF Wanted, Below
<1>4. Left' = Left
  BY <1>1, <1>2, <1>3 DEF Left
<1>5. Working /\ Working'
  BY <1>1 DEF Working
<1>6. pkg' \notin vPkgFiles'
  BY <1>1 DEF LoopInv
<1> QED BY <1>1, <1>2, <1>4, <1>5, <1>6, NothingWritten

LEMMA WrittenLoop ==
  ASSUME LoopInv, PackageWritten
  PROVE  LoopInv' /\ Results'
<1>1. /\ pc = "write" /\ pc' = "next" /\ todo = {}
      /\ UNCHANGED <<vPkgFiles, pkg, kind, nodes, out>>
  BY DEF PackageWritten, job
<1>2. Wanted' = Wanted
  BY <1>1 DEF Wanted, Below
<1>3. Left' = Left
  BY <1>1, <1>2 DEF Left
<1>4. Working /\ Working'
  BY <1>1 DEF Working
<1> QED BY <1>1, <1>3, <1>4, NothingWritten

\* One item more is settled.  What was at its place is another's file there.
LEMMA WriteLoop ==
  ASSUME LoopInv, WriteEntry
  PROVE  LoopInv' /\ Results'
<1>1. PICK t \in todo : \E w \in Outcomes(t) :
        /\ disk' = {v \in disk : v.path # w.path} \cup {w}
        /\ outResultPath' = IF kind = "single" THEN w.path ELSE outResultPath
        /\ todo' = todo \ {t} /\ written' = written \cup {t}
  BY DEF WriteEntry
<1>2. PICK w \in Outcomes(t) :
        /\ disk' = {v \in disk : v.path # w.path} \cup {w}
        /\ outResultPath' = IF kind = "single" THEN w.path ELSE outResultPath
        /\ todo' = todo \ {t} /\ written' = written \cup {t}
  BY <1>1
<1>3. /\ pc = "write" /\ pc' = "write"
      /\ m_iExtractionProgress' = m_iExtractionProgress + (IF kind = "single" THEN 0 ELSE 1)
      /\ UNCHANGED <<kind, nodes, vPkgFiles, pkg>>
  BY DEF WriteEntry, job
<1>4. t \in Wanted /\ OwnerOf[t.file] = pkg /\ pkg \notin vPkgFiles
  BY <1>3 DEF LoopInv, WantedOf
<1>5. Wanted' = Wanted
  BY <1>3 DEF Wanted, Below
<1>6. WantedOf(pkg)' = WantedOf(pkg)
  BY <1>3, <1>5 DEF WantedOf
<1>7. Settled' = Settled \cup {t} /\ t \notin Settled
  BY <1>2, <1>3, <1>4, <1>5 DEF Settled, Left
<1>8. w.file = t.file /\ w.path \in Places(t)
  BY <1>4, WantedAreItems, OutcomeFacts DEF LoopInv
<1>9. ASSUME NEW u \in Settled' PROVE Covered(u)'
  <2>1. CASE u = t
    <3>1. Collide(t, t)
      BY <1>8 DEF Collide
    <3> QED BY <1>2, <1>4, <1>5, <1>8, <2>1, <3>1 DEF Covered
  <2>2. CASE u \in Settled
    <3>1. PICK v \in disk : /\ v.path \in Places(u)
                            /\ \E x \in Wanted : Collide(u, x) /\ v.file = x.file
      BY <1>3, <2>2 DEF LoopInv, Working, Covered
    <3>2. CASE v.path = w.path
      <4>1. Collide(u, t)
        BY <1>8, <3>1, <3>2 DEF Collide
      <4> QED BY <1>2, <1>4, <1>5, <1>8, <3>1, <3>2, <4>1 DEF Covered
    <3>3. CASE v.path # w.path
      BY <1>2, <1>5, <3>1, <3>3 DEF Covered
    <3> QED BY <3>2, <3>3
  <2> QED BY <1>7, <2>1, <2>2
<1>10. kind # "single" => m_iExtractionProgress' = Cardinality(Settled')
  <2>1. IsFiniteSet(Settled)
    BY WantedIsFinite, FS_Subset DEF Settled, LoopInv
  <2>2. Cardinality(Settled') = Cardinality(Settled) + 1
    BY <1>7, <2>1, FS_AddElement
  <2> QED BY <1>3, <2>2 DEF LoopInv, Working
<1>11. kind = "single" => \E v \in disk' : v.path = outResultPath' /\ nodes' = {v.file}
  <2> SUFFICES ASSUME kind = "single" PROVE w.path = outResultPath' /\ nodes' = {w.file}
    BY <1>2
  <2>1. PICK f \in Files : nodes = {f}
    BY DEF LoopInv
  <2>2. Wanted = Below[f]
    BY <2>1 DEF Wanted
  <2>3. t.file = f
    BY <1>4, <2>2 DEF Below, Item
  <2> QED BY <1>2, <1>3, <1>8, <2>1, <2>3
<1>12. LoopInv'
  BY <1>2, <1>3, <1>4, <1>6, <1>7, <1>9, <1>10, <1>11 DEF LoopInv, Working
<1> QED BY <1>3, <1>12 DEF Results, SuccessIsComplete, ProgressIsExact, PreviewNamesItsFile, Done

\* Success is reported when nothing is left; a failure claims nothing.
LEMMA ReturnLoop ==
  ASSUME LoopInv, NEW result \in BOOLEAN, Return(result),
         result => pc = "next" /\ vPkgFiles = {}
  PROVE  LoopInv' /\ Results'
<1>1. /\ pc' = "idle" /\ bExtracted' = result
      /\ UNCHANGED <<kind, nodes, m_iExtractionProgress, outResultPath, disk>>
  BY DEF Return, job, out
<1>2. Wanted' = Wanted
  BY <1>1 DEF Wanted, Below
<1>3. LoopInv'
  BY <1>1 DEF LoopInv, Working
<1>4. CASE result
  <2>1. Working /\ Settled = Wanted
    BY <1>4 DEF Working, Settled, Left
  <2>2. SuccessIsComplete'
    <3>1. \A t \in Wanted : Covered(t)
      BY <2>1 DEF LoopInv
    <3> QED BY <1>1, <1>2, <3>1 DEF SuccessIsComplete, Covered
  <2>3. ProgressIsExact'
    BY <1>1, <1>2, <2>1 DEF LoopInv, ProgressIsExact
  <2>4. PreviewNamesItsFile'
    <3> SUFFICES ASSUME kind = "single"
                 PROVE  \E w \in disk : w.path = outResultPath /\ nodes = {w.file}
      BY <1>1 DEF PreviewNamesItsFile
    <3>1. PICK f \in Files : nodes = {f}
      BY DEF LoopInv
    <3>2. Wanted = Below[f]
      BY <3>1 DEF Wanted
    <3>3. Settled # {}
      BY <2>1, <3>2 DEF Below
    <3> QED BY <2>1, <3>3 DEF LoopInv
  <2> QED BY <1>3, <2>2, <2>3, <2>4 DEF Results
<1>5. CASE ~result
  BY <1>1, <1>3, <1>5 DEF Results, SuccessIsComplete, ProgressIsExact, PreviewNamesItsFile, Done
<1> QED BY <1>4, <1>5

-----------------------------------------------------------------------------
\* The inductive invariant of the extractions.
THEOREM ExtractionInvariant == Spec => []ExtractInv
<1>1. Init => ExtractInv
  BY InitBufferInv
     DEF Init, ExtractInv, LoopInv, Working, Results, SuccessIsComplete, ProgressIsExact,
         PreviewNamesItsFile, Done
<1>2. BufferInv /\ ExtractInv /\ [Next]_vars => LoopInv' /\ Results'
  <2> SUFFICES ASSUME BufferInv, LoopInv, Results, [Next]_vars PROVE LoopInv' /\ Results'
    BY DEF ExtractInv
  <2>1. CASE ExtractNodes
    BY <2>1, ExtractLoop DEF ExtractNodes, Kinds
  <2>2. CASE ExtractPackages
    BY <2>2, ExtractLoop DEF ExtractPackages, Kinds
  <2>3. CASE ExtractSingleFileNode
    BY <2>3, ExtractLoop DEF ExtractSingleFileNode, Kinds
  <2>4. CASE NextPackage
    BY <2>4, NextPackageLoop
  <2>5. CASE LoadPkgFileData
    BY <2>5, LoadLoop
  <2>6. CASE ReadFails \/ WriteFails
    BY <2>6, ReturnLoop DEF ReadFails, WriteFails
  <2>7. CASE Finish
    BY <2>7, ReturnLoop DEF Finish
  <2>8. CASE ParseThrows
    BY <2>8 DEF ParseThrows, LoopInv, Working, Results, SuccessIsComplete, ProgressIsExact,
                PreviewNamesItsFile, Done, job, work, out
  <2>9. CASE WriteEntry
    BY <2>9, WriteLoop
  <2>10. CASE PackageWritten
    BY <2>10, WrittenLoop
  <2>11. CASE UNCHANGED vars
    <3>1. UNCHANGED <<kind, nodes, pc, vPkgFiles, pkg, m_vOutNodesData, todo,
                      m_iExtractionProgress, outResultPath, bExtracted, disk, written>>
      BY <2>11 DEF vars, job, work, out
    <3>2. Wanted' = Wanted
      BY <3>1 DEF Wanted, Below
    <3>3. WantedOf(pkg)' = WantedOf(pkg)
      BY <3>1, <3>2 DEF WantedOf
    <3>4. Left' = Left
      BY <3>1, <3>2, <3>3 DEF Left
    <3>5. Settled' = Settled /\ \A t : Covered(t)' <=> Covered(t)
      BY <3>1, <3>2, <3>4 DEF Settled, Covered
    <3>6. LoopInv'
      BY <3>1, <3>3, <3>5 DEF LoopInv, Working
    <3> QED BY <3>1, <3>2, <3>6 DEF Results, SuccessIsComplete, ProgressIsExact,
                                    PreviewNamesItsFile, Done
  <2>12. CASE Terminated
    BY <2>11, <2>12 DEF Terminated
  <2> QED BY <2>1, <2>2, <2>3, <2>4, <2>5, <2>6, <2>7, <2>8, <2>9, <2>10, <2>11, <2>12 DEF Next
<1>3. Init => LoopInv /\ Results
  BY <1>1 DEF ExtractInv
<1>4. BufferInv /\ LoopInv /\ Results <=> ExtractInv
  BY DEF ExtractInv
<1> QED BY <1>2, <1>3, <1>4, BufferInvariant, PTL DEF Spec

\* An extraction that reports success left a file at the place of everything
\* wanted, whatever the packages, directories and files selected.
THEOREM SuccessCompletes == Spec => []SuccessIsComplete
<1>1. ExtractInv => SuccessIsComplete
  BY DEF ExtractInv, Results
<1> QED BY <1>1, ExtractionInvariant, PTL

\* When no two of the files wanted collide, by their names in the output
\* directory before or after the extension is fixed, a success means that
\* every file is on the disk, at its own place.  Selected files of one name
\* from two directories are what violates EveryFileIsThere.
Apart == \A t, u \in Wanted : Collide(t, u) => t.file = u.file

THEOREM FilesApartAreAllThere ==
  Spec => [](Done /\ Apart => \A t \in Wanted : \E w \in disk : w.path \in Places(t) /\ w.file = t.file)
<1> DEFINE AllThere == \A t \in Wanted : \E w \in disk : w.path \in Places(t) /\ w.file = t.file
<1>1. SuccessIsComplete => (Done /\ Apart => AllThere)
  BY DEF SuccessIsComplete, Apart
<1> QED BY <1>1, SuccessCompletes, PTL

\* The progress of a finished extraction is the number of files wanted.
THEOREM ProgressExact == Spec => []ProgressIsExact
<1>1. ExtractInv => ProgressIsExact
  BY DEF ExtractInv, Results
<1> QED BY <1>1, ExtractionInvariant, PTL

\* A successful preview names a file that is there and is the node's.
THEOREM PreviewNames == Spec => []PreviewNamesItsFile
<1>1. ExtractInv => PreviewNamesItsFile
  BY DEF ExtractInv, Results
<1> QED BY <1>1, ExtractionInvariant, PTL

-----------------------------------------------------------------------------
\* The extractions implement ExtractionService.

Steps == Service!Ask \/ Service!Write \/ Service!Succeed \/ Service!Fail \/ Service!Throw

LEMMA WantedStays ==
  ASSUME UNCHANGED <<kind, nodes>>
  PROVE  Wanted' = Wanted
BY DEF Wanted, Below

\* A new extraction is asked for items, and wrote none.
LEMMA ExtractAsks ==
  ASSUME NEW k \in Kinds, NEW ns \in SUBSET (Files \cup Dirs), Extract(k, ns)
  PROVE  Service!Ask
<1>1. /\ kind' = k /\ nodes' = ns /\ pc = "idle" /\ pc' = "next"
      /\ written' = {} /\ bExtracted' = bExtracted
  BY DEF Extract
<1>2. ASSUME NEW t \in Wanted' PROVE t \in Items
  <2>1. CASE k = "all"
    BY <1>1, <1>2, <2>1, PathFacts DEF Wanted, Item, ItemsOf, Items
  <2>2. CASE k # "all"
    <3>1. PICK n \in ns : t \in Below[n]
      BY <1>1, <1>2, <2>2 DEF Wanted, Below
    <3> QED BY <3>1, BelowAreItems DEF Items
  <2> QED BY <2>1, <2>2
<1> QED BY <1>1, <1>2 DEF Service!Ask

\* What is written was wanted, and not written before.
LEMMA WriteWrites ==
  ASSUME LoopInv, WriteEntry
  PROVE  Service!Write
<1>1. PICK t \in todo : written' = written \cup {t}
  BY DEF WriteEntry
<1>2. pc = "write" /\ UNCHANGED <<kind, nodes, pc, bExtracted>>
  BY DEF WriteEntry, job
<1>3. t \in Wanted \ written
  BY <1>2 DEF LoopInv, Working, WantedOf, Settled, Left
<1> QED BY <1>1, <1>2, <1>3, WantedStays DEF Service!Write

\* A yes is given when nothing is left.
LEMMA FinishSucceeds ==
  ASSUME LoopInv, Finish
  PROVE  Service!Succeed
<1>1. /\ pc = "next" /\ vPkgFiles = {} /\ pc' = "idle" /\ bExtracted' = TRUE
      /\ UNCHANGED <<kind, nodes, written>>
  BY DEF Finish, Return, job, out
<1>2. written = Wanted
  BY <1>1 DEF LoopInv, Working, Settled, Left
<1> QED BY <1>1, <1>2, WantedStays DEF Service!Succeed

LEMMA FailureFails ==
  ASSUME ReadFails \/ WriteFails
  PROVE  Service!Fail
<1>1. /\ pc \in {"load", "write"} /\ pc' = "idle" /\ bExtracted' = FALSE
      /\ UNCHANGED <<kind, nodes, written>>
  BY DEF ReadFails, WriteFails, Return, job, out
<1> QED BY <1>1, WantedStays DEF Service!Fail

\* The steps between the packages are hidden.
LEMMA OthersStutter ==
  ASSUME UNCHANGED <<kind, nodes, written, bExtracted>>,
         pc = pc' \/ (Working /\ Working')
  PROVE  UNCHANGED Service!vars
BY WantedStays DEF Working, Service!vars

\* NodeExtraction implements ExtractionService: each of its steps is a step
\* of the service or changes nothing of it, for any packages, files and
\* selections, and whatever extractions failed before.
THEOREM ServiceIsImplemented == Spec => ServiceImplemented
<1>1. Init => Service!Init
  BY DEF Init, Service!Init, Wanted
<1>2. LoopInv /\ [Next]_vars => [Service!Next]_(Service!vars)
  <2> SUFFICES ASSUME LoopInv, [Next]_vars PROVE Steps \/ UNCHANGED Service!vars
    BY DEF Steps, Service!Next
  <2>1. CASE ExtractNodes
    BY <2>1, ExtractAsks DEF ExtractNodes, Kinds, Steps
  <2>2. CASE ExtractPackages
    BY <2>2, ExtractAsks DEF ExtractPackages, Kinds, Steps
  <2>3. CASE ExtractSingleFileNode
    BY <2>3, ExtractAsks DEF ExtractSingleFileNode, Kinds, Steps
  <2>4. CASE NextPackage
    <3>1. pc = "next" /\ pc' \in {"next", "load"}
      BY <2>4 DEF NextPackage
    <3> QED BY <2>4, <3>1, OthersStutter DEF NextPackage, Working, job, out
  <2>5. CASE LoadPkgFileData
    BY <2>5, OthersStutter DEF LoadPkgFileData, Working, job, out
  <2>6. CASE ReadFails \/ WriteFails
    BY <2>6, FailureFails DEF Steps
  <2>7. CASE ParseThrows
    <3>1. pc = "load" /\ pc' = "terminated" /\ UNCHANGED <<kind, nodes, written, bExtracted>>
      BY <2>7 DEF ParseThrows, job, out
    <3> QED BY <3>1, WantedStays DEF Service!Throw, Steps
  <2>8. CASE WriteEntry
    BY <2>8, WriteWrites DEF Steps
  <2>9. CASE PackageWritten
    BY <2>9, OthersStutter DEF PackageWritten, Working, job, out
  <2>10. CASE Finish
    BY <2>10, FinishSucceeds DEF Steps
  <2>11. CASE Terminated \/ UNCHANGED vars
    BY <2>11, OthersStutter DEF Terminated, vars, job, out
  <2> QED BY <2>1, <2>2, <2>3, <2>4, <2>5, <2>6, <2>7, <2>8, <2>9, <2>10, <2>11 DEF Next
<1>3. ExtractInv => LoopInv
  BY DEF ExtractInv
<1> QED BY <1>1, <1>2, <1>3, ExtractionInvariant, PTL DEF Spec, ServiceImplemented, Service!Spec

-----------------------------------------------------------------------------
\* Types: what BufferInv does not say of them.

IsItem(t) == t.file \in Files /\ t.path \in Paths
IsWritten(w) == IsItem(w) /\ w.form \in {"stored", "decrypted", "decompressed", "lost"}

RestTyped ==
  /\ kind \in Kinds \cup {"none"}
  /\ nodes \subseteq Files \cup Dirs
  /\ m_bAllowDecryption \in BOOLEAN /\ m_bAllowDecompression \in BOOLEAN
  /\ pc \in {"idle", "next", "load", "write", "terminated"}
  /\ pkg \in Pkgs \cup {NoPkg}
  /\ \A t \in m_vOutNodesData \cup todo : IsItem(t)
  /\ m_vLoadedPkgFile \in Bufs \cup {NoBuf}
  /\ m_iExtractionProgress \in Nat
  /\ outResultPath \in Paths
  /\ bExtracted \in BOOLEAN
  /\ \A w \in disk : IsWritten(w)

LEMMA WantedOfAreItems ==
  ASSUME RestTyped
  PROVE  \A p : \A t \in WantedOf(p) : IsItem(t)
BY WantedAreItems DEF WantedOf, IsItem, RestTyped

LEMMA ExtractTyped ==
  ASSUME RestTyped, NEW k \in Kinds, NEW ns \in SUBSET (Files \cup Dirs), Extract(k, ns)
  PROVE  RestTyped'
<1>1. outResultPath' \in Paths
  BY EmptySeq DEF Extract, Paths
<1>2. disk' \subseteq disk
  BY DEF Extract
<1>3. \A w \in disk' : IsWritten(w)
  BY <1>2 DEF RestTyped
<1>4. \A t \in m_vOutNodesData' \cup todo' : IsItem(t)
  BY DEF Extract, RestTyped
<1> QED BY <1>1, <1>3, <1>4 DEF Extract, RestTyped, data

LEMMA NextPackageTyped ==
  ASSUME BufferInv, RestTyped, NextPackage
  PROVE  RestTyped'
<1>1. PICK p \in vPkgFiles :
        /\ pkg' = p
        /\ m_vOutNodesData' = IF kind = "all" THEN {} ELSE m_vOutNodesData \cup WantedOf(p)
        /\ pc' = IF kind # "all" /\ m_vOutNodesData' = {} THEN "next" ELSE "load"
  BY DEF NextPackage
<1>2. UNCHANGED <<job, todo, data, out, bExtracted>>
  BY DEF NextPackage
<1>3. \A t \in m_vOutNodesData' \cup todo' : IsItem(t)
  BY <1>1, <1>2, WantedOfAreItems DEF RestTyped
<1>4. pkg' \in Pkgs
  BY <1>1 DEF BufferInv, BuffersTyped
<1> QED BY <1>1, <1>2, <1>3, <1>4 DEF RestTyped, job, data, out

LEMMA LoadTyped ==
  ASSUME RestTyped, LoadPkgFileData
  PROVE  RestTyped'
<1>1. /\ m_vLoadedPkgFile' \in Bufs /\ pc' = "write"
      /\ todo' = IF kind = "all" THEN WantedOf(pkg) ELSE m_vOutNodesData
      /\ UNCHANGED <<job, pkg, m_vOutNodesData, out, bExtracted>>
  BY DEF LoadPkgFileData
<1>2. \A t \in m_vOutNodesData' \cup todo' : IsItem(t)
  BY <1>1, WantedOfAreItems DEF RestTyped
<1> QED BY <1>1, <1>2 DEF RestTyped, job, out

LEMMA WriteTyped ==
  ASSUME RestTyped, WriteEntry
  PROVE  RestTyped'
<1>1. PICK t \in todo : \E w \in Outcomes(t) :
        /\ disk' = {v \in disk : v.path # w.path} \cup {w}
        /\ outResultPath' = IF kind = "single" THEN w.path ELSE outResultPath
        /\ todo' = todo \ {t} /\ written' = written \cup {t}
  BY DEF WriteEntry
<1>2. PICK w \in Outcomes(t) :
        /\ disk' = {v \in disk : v.path # w.path} \cup {w}
        /\ outResultPath' = IF kind = "single" THEN w.path ELSE outResultPath
        /\ todo' = todo \ {t} /\ written' = written \cup {t}
  BY <1>1
<1>3. IsItem(t)
  BY DEF RestTyped
<1>4. IsWritten(w)
  BY <1>3, OutcomeFacts DEF IsItem, IsWritten
<1>5. m_iExtractionProgress' \in Nat
  BY DEF WriteEntry, RestTyped
<1>6. \A v \in disk' : IsWritten(v)
  BY <1>2, <1>4 DEF RestTyped
<1>7. outResultPath' \in Paths
  BY <1>2, <1>4 DEF RestTyped, IsWritten, IsItem
<1>8. UNCHANGED <<job, pc, pkg, m_vOutNodesData, m_vLoadedPkgFile, bExtracted>>
  BY DEF WriteEntry, data
<1>9. \A u \in m_vOutNodesData' \cup todo' : IsItem(u)
  BY <1>2, <1>8 DEF RestTyped
<1> QED BY <1>5, <1>6, <1>7, <1>8, <1>9 DEF RestTyped, job

\* Every reachable state is of its types.
THEOREM ExtractionTypeCorrect == Spec => []TypeOK
<1>1. Init => RestTyped
  <2>1. <<>> \in Paths
    BY EmptySeq DEF Paths
  <2> SUFFICES ASSUME Init PROVE RestTyped
    OBVIOUS
  <2>2. kind \in Kinds \cup {"none"} /\ nodes \subseteq Files \cup Dirs
    BY DEF Init
  <2>3. \A t \in m_vOutNodesData \cup todo : IsItem(t)
    BY DEF Init
  <2>4. m_iExtractionProgress \in Nat /\ outResultPath \in Paths /\ \A w \in disk : IsWritten(w)
    BY <2>1 DEF Init
  <2>5. m_bAllowDecryption \in BOOLEAN /\ m_bAllowDecompression \in BOOLEAN /\ bExtracted \in BOOLEAN
    BY DEF Init
  <2> QED BY <2>2, <2>3, <2>4, <2>5 DEF Init, RestTyped
<1>2. BufferInv /\ RestTyped /\ [Next]_vars => RestTyped'
  <2> SUFFICES ASSUME BufferInv, RestTyped, [Next]_vars PROVE RestTyped'
    OBVIOUS
  <2>1. CASE ExtractNodes
    BY <2>1, ExtractTyped DEF ExtractNodes, Kinds
  <2>2. CASE ExtractPackages
    BY <2>2, ExtractTyped DEF ExtractPackages, Kinds
  <2>3. CASE ExtractSingleFileNode
    BY <2>3, ExtractTyped DEF ExtractSingleFileNode, Kinds
  <2>4. CASE NextPackage
    BY <2>4, NextPackageTyped
  <2>5. CASE LoadPkgFileData
    BY <2>5, LoadTyped
  <2>6. CASE ReadFails \/ WriteFails \/ Finish
    BY <2>6 DEF ReadFails, WriteFails, Finish, Return, RestTyped, job, out
  <2>7. CASE ParseThrows
    BY <2>7 DEF ParseThrows, RestTyped, job, work, data, out
  <2>8. CASE WriteEntry
    BY <2>8, WriteTyped
  <2>9. CASE PackageWritten
    BY <2>9 DEF PackageWritten, RestTyped, job, out
  <2>10. CASE Terminated \/ UNCHANGED vars
    BY <2>10 DEF Terminated, vars, RestTyped, job, work, data, out
  <2> QED BY <2>1, <2>2, <2>3, <2>4, <2>5, <2>6, <2>7, <2>8, <2>9, <2>10 DEF Next
<1>3. BufferInv /\ RestTyped => TypeOK
  BY FilesAssumption
     DEF BufferInv, BuffersTyped, CollectedOwn, PointsToOwn, RestTyped, IsWritten, IsItem, TypeOK
<1> QED BY <1>1, <1>2, <1>3, BufferInvariant, PTL DEF Spec
=============================================================================
