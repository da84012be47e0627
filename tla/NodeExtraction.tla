--------------------------- MODULE NodeExtraction ---------------------------
(***************************************************************************)
(* NodeExtractionMgr (sources/nodeextractionmgr.cpp) with the helper it    *)
(* hands every file to (specialfilehandler.cpp) and the two functions it   *)
(* touches the disk with (fsutils.cpp): how one extraction after another   *)
(* reads the packages it needs and writes their files.                     *)
(*                                                                         *)
(* A PkgFile does not own the bytes it decrypts: SetDataBuffer makes it    *)
(* point into a vector of the extraction, ReleaseDataBuffer makes it       *)
(* forget it.  The vector dies with the extraction, or with the loop body  *)
(* of ExtractPackages, whether the PkgFile still points to it or not.      *)
(*                                                                         *)
(* MainWindow says when an extraction runs and that the archive stays as   *)
(* it is meanwhile; here the archive is constant.                          *)
(***************************************************************************)
EXTENDS Naturals, FiniteSets, Sequences

CONSTANTS Pkgs, Files, Names,
          OwnerOf,          \* the package of a file
          PathOf,           \* its path inside the archive
          Encrypted,        \* files IsEncryptedFile recognizes
          Textures,         \* files IsLzmaTexture recognizes, once decrypted
          DecryptedName,    \* a file name as FixDecryptedExtension leaves it
          Bufs,             \* addresses of data buffers
          NoBuf, NoPkg

ASSUME FilesAssumption ==
  /\ IsFiniteSet(Files)
  /\ OwnerOf \in [Files -> Pkgs]
  /\ PathOf \in [Files -> Seq(Names) \ {<<>>}]
  /\ DecryptedName \in [Names -> Names]
  /\ Encrypted \subseteq Files /\ Textures \subseteq Files
  /\ NoBuf \notin Bufs /\ NoPkg \notin Pkgs

VARIABLES kind,               \* which extraction runs, or ran last
          nodes,              \* the nodes it is asked for
          m_bAllowDecryption, m_bAllowDecompression,
          pc,
          vPkgFiles,          \* packages it has not come to
          pkg,                \* the package it is at
          m_vOutNodesData,    \* what it collected: files, and where to write them
          todo,               \* what the loop over them has not come to
          m_vLoadedPkgFile,   \* the vector it read the package into, or NoBuf
          memory,             \* address -> package whose bytes are there, or NoPkg
          dataBuffer,         \* PkgFile -> the address it decrypts from, or NoBuf
          m_iExtractionProgress,
          outResultPath,      \* where a preview says it wrote the file
          bExtracted,         \* the result
          disk,               \* the files in the output directory
          written             \* history: what the extraction wrote so far

job  == <<kind, nodes, m_bAllowDecryption, m_bAllowDecompression>>
work == <<vPkgFiles, pkg, m_vOutNodesData, todo>>
data == <<m_vLoadedPkgFile, memory, dataBuffer>>
out  == <<m_iExtractionProgress, outResultPath, disk, written>>
vars == <<job, pc, work, data, out, bExtracted>>

-----------------------------------------------------------------------------
\* Nodes of the tree, and what an extraction collects below them.

Prefixes(s) == {SubSeq(s, 1, i) : i \in 1..(Len(s) - 1)}
Dirs == UNION {Prefixes(PathOf[f]) : f \in Files}
Kinds == {"nodes", "all", "single"}
Paths == Seq(Names)
LastOf(s) == s[Len(s)]

Item(f, from) == [file |-> f, path |-> SubSeq(PathOf[f], from, Len(PathOf[f]))]
ItemsOf(f) == {Item(f, i) : i \in 1..Len(PathOf[f])}
Items == UNION {ItemsOf(f) : f \in Files}

\* A file is written under its name alone (AddFileNode); the files below a
\* directory under their path from it, its own name included (AddDirectoryNode).
Below == [n \in Files \cup Dirs |->
  IF n \in Files THEN {Item(n, Len(PathOf[n]))}
  ELSE {Item(f, Len(n)) : f \in {f \in Files : n \in Prefixes(PathOf[f])}}]

\* All an extraction has to write, and the part of a package of it: only
\* the nodes of that package (HandleFileNode).
Wanted == IF kind = "all" THEN {Item(f, 1) : f \in Files} ELSE UNION {Below[n] : n \in nodes}
WantedOf(p) == {t \in Wanted : OwnerOf[t.file] = p}

TypeOK ==
  /\ kind \in Kinds \cup {"none"}
  /\ nodes \subseteq Files \cup Dirs
  /\ m_bAllowDecryption \in BOOLEAN /\ m_bAllowDecompression \in BOOLEAN
  /\ pc \in {"idle", "next", "load", "write", "terminated"}
  /\ m_vLoadedPkgFile # NoBuf <=> pc = "write"
  /\ m_vOutNodesData # {} => pc \in {"load", "write", "terminated"}
  /\ vPkgFiles \subseteq Pkgs
  /\ pkg \in Pkgs \cup {NoPkg}
  /\ \A t \in m_vOutNodesData \cup todo : t.file \in Files /\ t.path \in Paths
  /\ m_vLoadedPkgFile \in Bufs \cup {NoBuf}
  /\ memory \in [Bufs -> Pkgs \cup {NoPkg}]
  /\ dataBuffer \in [Pkgs -> Bufs \cup {NoBuf}]
  /\ m_iExtractionProgress \in Nat
  /\ outResultPath \in Paths
  /\ bExtracted \in BOOLEAN
  /\ \A w \in disk : /\ w.file \in Files /\ w.path \in Paths
                     /\ w.form \in {"stored", "decrypted", "decompressed", "lost"}

Init ==
  /\ kind = "none" /\ nodes = {}
  /\ m_bAllowDecryption = TRUE /\ m_bAllowDecompression = TRUE
  /\ pc = "idle"
  /\ vPkgFiles = {} /\ pkg = NoPkg
  /\ m_vOutNodesData = {} /\ todo = {}
  /\ m_vLoadedPkgFile = NoBuf
  /\ memory = [b \in Bufs |-> NoPkg]
  /\ dataBuffer = [p \in Pkgs |-> NoBuf]
  /\ m_iExtractionProgress = 0
  /\ outResultPath = <<>>
  /\ bExtracted = FALSE
  /\ disk = {} /\ written = {}

-----------------------------------------------------------------------------
\* The jobs of MainWindow: ExtractNodes, ExtractPackages on every package,
\* or ExtractSingleFileNode.  One preview after another goes to m_TempDir;
\* every other extraction is taken to go to an empty directory.
Extract(k, ns) ==
  /\ pc = "idle"
  /\ kind' = k /\ nodes' = ns
  /\ m_bAllowDecryption' \in BOOLEAN /\ m_bAllowDecompression' \in BOOLEAN
  /\ vPkgFiles' = IF k = "all" THEN Pkgs
                  ELSE {OwnerOf[t.file] : t \in UNION {Below[n] : n \in ns}}
  /\ pc' = "next"
  /\ m_iExtractionProgress' = 0
  /\ outResultPath' = <<>>
  /\ disk' = IF k = "single" /\ kind = "single" THEN disk ELSE {}
  /\ written' = {}
  /\ UNCHANGED <<pkg, m_vOutNodesData, todo, data, bExtracted>>

ExtractNodes == \E ns \in SUBSET (Files \cup Dirs) \ {{}} : Extract("nodes", ns)
ExtractPackages == Extract("all", {})
ExtractSingleFileNode == \E f \in Files : Extract("single", {f})

\* The loop comes to a package: AddNodes.  The package is skipped when
\* nothing was collected.  (ExtractPackages collects no nodes and skips none.)
NextPackage ==
  /\ pc = "next"
  /\ \E p \in vPkgFiles :
        /\ vPkgFiles' = vPkgFiles \ {p}
        /\ pkg' = p
        /\ m_vOutNodesData' = IF kind = "all" THEN {} ELSE m_vOutNodesData \cup WantedOf(p)
        /\ pc' = IF kind # "all" /\ m_vOutNodesData' = {} THEN "next" ELSE "load"
  /\ UNCHANGED <<job, todo, data, out, bExtracted>>

\* The vector of bytes at b, and that of the package before, if any, is freed.
Freed(b) == [memory EXCEPT ![b] = NoPkg]
Free == IF m_vLoadedPkgFile = NoBuf THEN memory ELSE Freed(m_vLoadedPkgFile)

LoadPkgFileDataKeepsSpan ==    \* mutant: the PkgFile keeps the buffer it has
  /\ pc = "load"
  /\ \E b \in {b \in Bufs : memory[b] = NoPkg} :
        /\ memory' = [Free EXCEPT ![b] = pkg]
        /\ m_vLoadedPkgFile' = b
        /\ dataBuffer' = IF dataBuffer[pkg] = NoBuf THEN [dataBuffer EXCEPT ![pkg] = b]
                                                    ELSE dataBuffer
  /\ todo' = IF kind = "all" THEN WantedOf(pkg) ELSE m_vOutNodesData
  /\ pc' = "write"
  /\ UNCHANGED <<job, vPkgFiles, pkg, m_vOutNodesData, out, bExtracted>>
\* The package is read into a new vector, the PkgFile is pointed to it, its
\* header decrypted and parsed again; the entries stay the same objects.
LoadPkgFileData ==
  /\ pc = "load"
  /\ \E b \in {b \in Bufs : memory[b] = NoPkg} :
        /\ memory' = [Free EXCEPT ![b] = pkg]
        /\ m_vLoadedPkgFile' = b
        /\ dataBuffer' = [dataBuffer EXCEPT ![pkg] = b]
  /\ todo' = IF kind = "all" THEN WantedOf(pkg) ELSE m_vOutNodesData
  /\ pc' = "write"
  /\ UNCHANGED <<job, vPkgFiles, pkg, m_vOutNodesData, out, bExtracted>>

\* The extraction returns; what belongs to it is freed.  No PkgFile is told.
Return(result) ==
  /\ pc' = "idle"
  /\ bExtracted' = result
  /\ vPkgFiles' = {} /\ pkg' = NoPkg
  /\ m_vOutNodesData' = {} /\ todo' = {}
  /\ memory' = Free /\ m_vLoadedPkgFile' = NoBuf
  /\ UNCHANGED <<job, dataBuffer, out>>

ReadFails == pc = "load" /\ Return(FALSE)

\* What is read is not the package any more, and Parse throws.
ParseThrows ==
  /\ pc = "load"
  /\ pc' = "terminated"
  /\ UNCHANGED <<job, work, data, out, bExtracted>>

-----------------------------------------------------------------------------
\* One file.

\* void FixDecryptedExtension(filePath)
Fixed(path) == [path EXCEPT ![Len(path)] = DecryptedName[@]]

\* SpecialFileHandler::DecryptFile, DecompressTexture: a failure is logged
\* and leaves no data.
Decrypt(t) ==
  IF m_bAllowDecryption /\ t.file \in Encrypted
  THEN {[file |-> t.file, path |-> Fixed(t.path), form |-> "decrypted"],
        [file |-> t.file, path |-> t.path, form |-> "lost"]}
  ELSE {[file |-> t.file, path |-> t.path, form |-> "stored"]}

IsTextureCompressed(w) ==
  /\ w.file \in Textures
  /\ w.form = IF w.file \in Encrypted THEN "decrypted" ELSE "stored"

Decompress(w) ==
  IF m_bAllowDecompression /\ IsTextureCompressed(w)
  THEN {[w EXCEPT !.form = "decompressed"], [w EXCEPT !.form = "lost"]}
  ELSE {w}

\* bool WriteBufferToFile: the file is opened; an error after that is lost.
WriteBufferToFile(w) == {w, [w EXCEPT !.form = "lost"]}

\* What WritePkgEntryInternal may leave in the output directory for t.
Outcomes(t) == UNION {WriteBufferToFile(w) : w \in UNION {Decompress(w) : w \in Decrypt(t)}}

WriteEntryForgetsPath ==    \* mutant: the path is taken before the extension is fixed
  /\ pc = "write"
  /\ \E t \in todo : \E w \in Outcomes(t) :
        /\ disk' = {v \in disk : v.path # w.path} \cup {w}
        /\ outResultPath' = IF kind = "single" THEN t.path ELSE outResultPath
        /\ todo' = todo \ {t} /\ written' = written \cup {t}
  /\ m_iExtractionProgress' = m_iExtractionProgress + (IF kind = "single" THEN 0 ELSE 1)
  /\ UNCHANGED <<job, pc, vPkgFiles, pkg, m_vOutNodesData, data, bExtracted>>
\* The loops of WriteNodesToDisk, WritePackageToDisk and WriteSingleNodeToDisk.
WriteEntry ==
  /\ pc = "write"
  /\ \E t \in todo : \E w \in Outcomes(t) :
        /\ disk' = {v \in disk : v.path # w.path} \cup {w}
        /\ outResultPath' = IF kind = "single" THEN w.path ELSE outResultPath
        /\ todo' = todo \ {t} /\ written' = written \cup {t}
  /\ m_iExtractionProgress' = m_iExtractionProgress + (IF kind = "single" THEN 0 ELSE 1)
  /\ UNCHANGED <<job, pc, vPkgFiles, pkg, m_vOutNodesData, data, bExtracted>>

WriteFailsIsSkipped ==         \* mutant: the loop goes on to the next entry
  /\ pc = "write"
  /\ \E t \in todo : todo' = todo \ {t}
  /\ UNCHANGED <<job, pc, vPkgFiles, pkg, m_vOutNodesData, data, out, bExtracted>>
\* An entry cannot be decrypted, or its directory or file not be created.
WriteFails ==
  /\ pc = "write"
  /\ todo # {}
  /\ Return(FALSE)

PackageWrittenKeepsNodes ==    \* mutant: what was collected is not cleared
  /\ pc = "write"
  /\ todo = {}
  /\ pc' = "next"
  /\ dataBuffer' = IF kind = "all" THEN dataBuffer ELSE [dataBuffer EXCEPT ![pkg] = NoBuf]
  /\ memory' = Free /\ m_vLoadedPkgFile' = NoBuf
  /\ UNCHANGED <<job, work, out, bExtracted>>
PackageWrittenIsLast ==        \* mutant: the loop is left after one package
  /\ pc = "write"
  /\ todo = {}
  /\ pc' = "next"
  /\ m_vOutNodesData' = {}
  /\ vPkgFiles' = {}
  /\ dataBuffer' = IF kind = "all" THEN dataBuffer ELSE [dataBuffer EXCEPT ![pkg] = NoBuf]
  /\ memory' = Free /\ m_vLoadedPkgFile' = NoBuf
  /\ UNCHANGED <<job, pkg, todo, out, bExtracted>>
\* The nodes collected are dropped and the buffer freed.  ExtractPackages
\* frees it without a ReleaseDataBuffer.
PackageWritten ==
  /\ pc = "write"
  /\ todo = {}
  /\ pc' = "next"
  /\ m_vOutNodesData' = {}
  /\ dataBuffer' = IF kind = "all" THEN dataBuffer ELSE [dataBuffer EXCEPT ![pkg] = NoBuf]
  /\ memory' = Free /\ m_vLoadedPkgFile' = NoBuf
  /\ UNCHANGED <<job, vPkgFiles, pkg, todo, out, bExtracted>>

Finish ==
  /\ pc = "next"
  /\ vPkgFiles = {}
  /\ Return(TRUE)

Terminated == pc = "terminated" /\ UNCHANGED vars

Next ==
  \/ ExtractNodes \/ ExtractPackages \/ ExtractSingleFileNode
  \/ NextPackage
  \/ LoadPkgFileData \/ ReadFails \/ ParseThrows
  \/ WriteEntry \/ WriteFails
  \/ PackageWritten \/ Finish
  \/ Terminated

Spec == Init /\ [][Next]_vars

-----------------------------------------------------------------------------
\* Properties.

Done == pc = "idle" /\ bExtracted

\* What is decrypted is always the bytes of the package the file belongs to,
\* in a vector that is alive: although PkgFiles are left pointing into freed
\* vectors by every failed extraction and by each extract all, and an address
\* is used again for another package.
ReadsOwnBytes ==
  pc = "write" => \A t \in todo : LET b == dataBuffer[OwnerOf[t.file]]
                                  IN b # NoBuf /\ memory[b] = OwnerOf[t.file]

\* Two of the things wanted may end up at the same place.
Places(t) == {t.path, Fixed(t.path)}
Collide(t, u) == Places(t) \cap Places(u) # {}

\* An extraction that reports success, of nodes of several packages, nested
\* directories and files below them, wrote something at the place of every
\* file: that file, or another one wanted at the same place.
SuccessIsComplete ==
  Done => \A t \in Wanted : \E w \in disk :
             /\ w.path \in Places(t)
             /\ \E u \in Wanted : Collide(t, u) /\ w.file = u.file

\* The progress a finished extraction shows is the number of files wanted:
\* no node is written twice when its directory spans packages.
ProgressIsExact ==
  (Done /\ kind # "single") => m_iExtractionProgress = Cardinality(Wanted)

\* A successful preview names a file that is there and holds the node that
\* was asked for, under the name it has after decryption, also when files of
\* other previews are in the directory.
PreviewNamesItsFile ==
  (Done /\ kind = "single") =>
     \E w \in disk : w.path = outResultPath /\ nodes = {w.file}

\* Extraction of individual entries (README.md): every file selected is on
\* the disk when the extraction reports success.
EveryFileIsThere ==
  (Done /\ nodes \subseteq Files) =>
     \A t \in Wanted : \E w \in disk : w.file = t.file

\* What CMainWindow may rely on, however directories spread over packages and
\* whatever extractions failed before: an extraction writes only what was
\* wanted, item after item, answers yes exactly when it wrote all, and any no
\* leaves what was written until then.
Service ==
  INSTANCE ExtractionService
  WITH Items  <- Items,
       state  <- IF pc \in {"idle", "terminated"} THEN pc ELSE "working",
       wanted <- Wanted,
       answer <- bExtracted

ServiceImplemented == Service!Spec
=============================================================================
