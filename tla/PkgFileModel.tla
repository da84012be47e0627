---------------------------- MODULE PkgFileModel ----------------------------
(***************************************************************************)
(* PkgFileModel (sources/pkgfilemodel.cpp): the loaded archive.  It keeps  *)
(* the tree of directory and file nodes the tree view shows, the PkgFile   *)
(* objects that own the entries the file nodes point to, the selection,    *)
(* the folder packages are read again from at extraction, the properties   *)
(* of the archive, the last error and three flags.                         *)
(*                                                                         *)
(* Its operations run on two sides: the window's thread (ResetModel, the   *)
(* selection) and the std::async thread of a load job (the steps of        *)
(* LoadPackage and LoadIndex).  Each operator below is one step of one of  *)
(* them, as far as it changes the model; MainWindow says when it happens.  *)
(*                                                                         *)
(* One entry stands for all the entries of a package: CreateChildren gives *)
(* them one directory, and they live and die with their PkgFile.           *)
(***************************************************************************)
EXTENDS Naturals, Sequences

CONSTANTS Pkgs,         \* package file names (the hash of a name stands for it)
          Folders,      \* folders that packages and indexes are read from
          Dirs,         \* directories inside the packages
          Objs,         \* addresses PkgFile objects are allocated at
          Index,        \* INDEX_FILENAME, the name of the index in its folder
          NoObj, NoFolder, NoRequest,
          DirsOf,       \* the directories on the path of a package's entries
          IndexOf       \* the packages the index of a folder names, in order

ASSUME NamesAssumption ==
  /\ NoObj \notin Objs
  /\ NoFolder \notin Folders
  /\ NoRequest \notin [folder : Folders, name : Pkgs \cup {Index}]
  /\ Index \notin Pkgs
  /\ Pkgs \cap Dirs = {}
  /\ DirsOf \in [Pkgs -> SUBSET Dirs]

\* An index names no package twice.  It may name none.
ASSUME IndexAssumption ==
  /\ IndexOf \in [Folders -> Seq(Pkgs)]
  /\ \A f \in Folders :
        \A i, j \in 1..Len(IndexOf[f]) : IndexOf[f][i] = IndexOf[f][j] => i = j

VARIABLES m_DirectoryNodes,    \* directory -> the load that created its node, or NoObj
          fileNodes,           \* the file nodes in the tree: [name, obj]
          m_PkgFiles,          \* package -> its PkgFile, or NoObj
          origin,              \* PkgFile -> the folder it was read from (history)
          m_SelectedNodes,     \* selected nodes, directories and files
          m_CurrentParentPath,
          m_CurFileProps,      \* the packages the properties were computed from
          m_szLastError,       \* what the last error is about, or NoRequest
          m_bGenerated, m_bIsBusy, m_bIsIndexLoaded

modelVars == <<m_DirectoryNodes, fileNodes, m_PkgFiles, origin, m_SelectedNodes,
               m_CurrentParentPath, m_CurFileProps, m_szLastError,
               m_bGenerated, m_bIsBusy, m_bIsIndexLoaded>>

treeVars  == <<m_DirectoryNodes, fileNodes, m_SelectedNodes>>
flagVars  == <<m_bGenerated, m_bIsIndexLoaded>>

\* A node is identified by its name and by the load that created it: the
\* same directory or package loaded again is another node.
Node    == [name : Pkgs \cup Dirs, obj : Objs]
\* What a load is asked for: a package or the index of a folder.
Request == [folder : Folders, name : Pkgs \cup {Index}]

ModelTypeOK ==
  /\ m_DirectoryNodes \in [Dirs -> Objs \cup {NoObj}]
  /\ fileNodes \in SUBSET Node
  /\ m_PkgFiles \in [Pkgs -> Objs \cup {NoObj}]
  /\ origin \in [Objs -> Folders \cup {NoFolder}]
  /\ m_SelectedNodes \in SUBSET Node
  /\ m_CurrentParentPath \in Folders \cup {NoFolder}
  /\ m_CurFileProps \in SUBSET Request
  /\ m_szLastError \in Request \cup {NoRequest}
  /\ m_bGenerated \in BOOLEAN
  /\ m_bIsBusy \in BOOLEAN
  /\ m_bIsIndexLoaded \in BOOLEAN

ModelInit ==
  /\ m_DirectoryNodes = [d \in Dirs |-> NoObj]
  /\ fileNodes = {}
  /\ m_PkgFiles = [p \in Pkgs |-> NoObj]
  /\ origin = [o \in Objs |-> NoFolder]
  /\ m_SelectedNodes = {}
  /\ m_CurrentParentPath = NoFolder
  /\ m_CurFileProps = {}
  /\ m_szLastError = NoRequest
  /\ m_bGenerated = FALSE
  /\ m_bIsBusy = FALSE
  /\ m_bIsIndexLoaded = FALSE

-----------------------------------------------------------------------------
\* What the model holds.

LoadedPkgs == {p \in Pkgs : m_PkgFiles[p] # NoObj}
LoadedFiles == {[name |-> p, obj |-> m_PkgFiles[p]] : p \in LoadedPkgs}
dirNodes == {[name |-> d, obj |-> m_DirectoryNodes[d]] :
               d \in {d \in Dirs : m_DirectoryNodes[d] # NoObj}}
treeNodes == fileNodes \cup dirNodes

IsDirectory(n) == n.name \in Dirs

\* The file nodes below a node, itself when it is one (GetDirChildrenFiles,
\* AddDirectoryNode).
FilesUnder(n) ==
  IF IsDirectory(n) THEN {f \in fileNodes : n.name \in DirsOf[f.name]} ELSE {n}

-----------------------------------------------------------------------------
\* Parts of ResetModel.
FreeNodesKeepsFiles ==    \* mutant: only the directory map is cleared
  m_DirectoryNodes' = [d \in Dirs |-> NoObj] /\ UNCHANGED fileNodes
FreeNodes == m_DirectoryNodes' = [d \in Dirs |-> NoObj] /\ fileNodes' = {}

ClearSelectionForgotten == UNCHANGED m_SelectedNodes    \* mutant
ClearSelection == m_SelectedNodes' = {}

ClearFlagsKeepsIndex ==   \* mutant: the index flag survives the archive
  m_bGenerated' = FALSE /\ m_bIsBusy' = FALSE /\ UNCHANGED m_bIsIndexLoaded
ClearFlags == m_bGenerated' = FALSE /\ m_bIsBusy' = FALSE /\ m_bIsIndexLoaded' = FALSE

\* void ResetModel().  The properties and the last error stay as they are.
ResetModel ==
  /\ FreeNodes
  /\ m_PkgFiles' = [p \in Pkgs |-> NoObj]
  /\ ClearSelection
  /\ m_CurrentParentPath' = NoFolder
  /\ ClearFlags
  /\ UNCHANGED <<origin, m_CurFileProps, m_szLastError>>

\* What both loads of a request do before the job starts: an archive that
\* was generated is dropped, anything else stays.
ResetIfGenerated ==
  IF m_bGenerated THEN ResetModel ELSE UNCHANGED modelVars

\* void OnSelectionChanged(selected, deselected)
OnSelectionChanged(selected, deselected) ==
  /\ m_SelectedNodes' = (m_SelectedNodes \cup selected) \ deselected
  /\ UNCHANGED <<m_DirectoryNodes, fileNodes, m_PkgFiles, origin,
                 m_CurrentParentPath, m_CurFileProps, m_szLastError,
                 m_bGenerated, m_bIsBusy, m_bIsIndexLoaded>>

-----------------------------------------------------------------------------
\* bool LoadPackage(pkgPath, provider, bIndependentLoad), in four steps.

SetBusy ==
  /\ m_bIsBusy' = TRUE
  /\ UNCHANGED <<treeVars, flagVars, m_PkgFiles, origin, m_CurrentParentPath,
                 m_CurFileProps, m_szLastError>>

\* void CreateChildren(pEntries, pkgPath): the directories of the path that
\* have no node get one, and the entry gets its file node in the last one.
CreateChildren(p, o) ==
  /\ m_DirectoryNodes' = [d \in Dirs |->
        IF d \in DirsOf[p] /\ m_DirectoryNodes[d] = NoObj
        THEN o ELSE m_DirectoryNodes[d]]
  /\ fileNodes' = fileNodes \cup {[name |-> p, obj |-> o]}

\* The package at folder/p is read, decrypted and parsed into object o.
ParsePackage(folder, p, o, independent) ==
  /\ CreateChildren(p, o)
  /\ origin' = [origin EXCEPT ![o] = folder]
  /\ m_CurFileProps' = IF independent THEN {[folder |-> folder, name |-> p]}
                                      ELSE m_CurFileProps
  /\ UNCHANGED <<m_PkgFiles, m_SelectedNodes, m_CurrentParentPath,
                 m_szLastError, flagVars, m_bIsBusy>>

PackageFailsStaysBusy(folder, p) ==    \* mutant: returns with the flag set
  /\ m_szLastError' = [folder |-> folder, name |-> p]
  /\ UNCHANGED <<treeVars, flagVars, m_PkgFiles, origin, m_CurrentParentPath,
                 m_CurFileProps, m_bIsBusy>>
PackageFailsSilently(folder, p) ==     \* mutant: does not set the error
  /\ m_bIsBusy' = FALSE
  /\ UNCHANGED <<treeVars, flagVars, m_PkgFiles, origin, m_CurrentParentPath,
                 m_CurFileProps, m_szLastError>>
\* The factory or the parser throws: nothing of the package is in the tree.
PackageFails(folder, p) ==
  /\ m_szLastError' = [folder |-> folder, name |-> p]
  /\ m_bIsBusy' = FALSE
  /\ UNCHANGED <<treeVars, flagVars, m_PkgFiles, origin, m_CurrentParentPath,
                 m_CurFileProps>>

\* The PkgFile goes into the map; one that was there under this name is freed.
PublishPackage(folder, p, o, independent) ==
  /\ m_PkgFiles' = [m_PkgFiles EXCEPT ![p] = o]
  /\ m_CurrentParentPath' = IF independent THEN folder ELSE m_CurrentParentPath
  /\ UNCHANGED <<treeVars, flagVars, origin, m_CurFileProps, m_szLastError,
                 m_bIsBusy>>

PackageLoaded ==
  /\ m_bIsBusy' = FALSE
  /\ m_bGenerated' = TRUE
  /\ UNCHANGED <<treeVars, m_PkgFiles, origin, m_CurrentParentPath,
                 m_CurFileProps, m_szLastError, m_bIsIndexLoaded>>

-----------------------------------------------------------------------------
\* bool LoadIndex(indexPath, provider, outLoadProgress, outPkgNum): SetBusy,
\* the read, LoadPackage on every package it names, and one of these ends.

IndexUnreadable(folder) ==
  /\ m_szLastError' = [folder |-> folder, name |-> Index]
  /\ m_bIsBusy' = FALSE
  /\ UNCHANGED <<treeVars, flagVars, m_PkgFiles, origin, m_CurrentParentPath,
                 m_CurFileProps>>

IndexLoadedWithoutPath(folder) ==    \* mutant: the parent path is not set
  /\ m_CurFileProps' = {[folder |-> origin[m_PkgFiles[p]], name |-> p] : p \in LoadedPkgs}
  /\ m_bIsIndexLoaded' = TRUE
  /\ m_bIsBusy' = FALSE
  /\ UNCHANGED <<treeVars, m_PkgFiles, origin, m_szLastError, m_bGenerated,
                 m_CurrentParentPath>>
IndexLoaded(folder) ==
  /\ m_CurFileProps' = {[folder |-> origin[m_PkgFiles[p]], name |-> p] : p \in LoadedPkgs}
  /\ m_CurrentParentPath' = folder
  /\ m_bIsIndexLoaded' = TRUE
  /\ m_bIsBusy' = FALSE
  /\ UNCHANGED <<treeVars, m_PkgFiles, origin, m_szLastError, m_bGenerated>>
=============================================================================
