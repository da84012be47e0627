----------------------------- MODULE MainWindow -----------------------------
(***************************************************************************)
(* CMainWindow (sources/layouts/mainwindow.cpp) over PkgFileModel: the     *)
(* user's requests, the std::async job each of them starts, and the loop   *)
(* in which the window's thread waits for the job while it keeps           *)
(* processing events.                                                      *)
(*                                                                         *)
(* A handler that starts a job does not return before the job has ended,   *)
(* but the events it processes meanwhile may start another handler, which  *)
(* then runs inside it.  So the window's thread is a stack of waiting      *)
(* handlers: jobs[depth] is the innermost one.  The handlers above the     *)
(* innermost one cannot return, while the threads of all of them run.      *)
(*                                                                         *)
(* What keeps a second handler out is CBusyWinWrapper, which disables the  *)
(* tree view and every menu action, and, for files dropped on the window   *)
(* (which stays enabled), the flag m_bIsBusy.  DropsDuringJobs says        *)
(* whether the user drops files while a job runs.                          *)
(***************************************************************************)
EXTENDS PkgFileModel

CONSTANTS MaxDepth,          \* bound on the handlers inside one another
          DropsDuringJobs    \* BOOLEAN: files are dropped while a job runs

ASSUME WindowAssumption ==
  /\ MaxDepth \in Nat \ {0}
  /\ DropsDuringJobs \in BOOLEAN

VARIABLES jobs,              \* the stack of handlers, 1..depth
          depth,
          widgetsEnabled,    \* tree view and menu actions (status bar hidden)
          archiveEnabled,    \* the actions on an archive: extract, preview, ...
          overrideCursor,    \* wait cursors pushed on the application
          title,             \* what the window's title names
          status             \* of the process

windowVars == <<depth, widgetsEnabled, archiveEnabled, overrideCursor, title, status>>
vars == <<modelVars, jobs, windowVars>>

LoadKinds    == {"package", "index"}
ExtractKinds == {"extract", "extractAll", "preview"}
Steps == {"call", "parse", "publish", "loaded",       \* LoadPackage
          "index", "read", "undo", "wrapUp",          \* LoadIndex
          "capture", "write",                         \* the extractions
          "ready", "thrown"}                          \* the std::future

Job == [kind    : {"none"} \cup LoadKinds \cup ExtractKinds,
        request : Request \cup {NoRequest},
        pc      : Steps \cup {"none"},
        todo    : Seq(Pkgs),                  \* packages still to load
        obj     : Objs \cup {NoObj},          \* the local pPkgFile
        nodes   : SUBSET Node,                \* nodes the extraction writes
        pkgs    : SUBSET Node,                \* PkgFiles it still has to go through
        path    : Folders \cup {NoFolder},    \* its copy of m_CurrentParentPath
        ok      : BOOLEAN]                    \* the value of the future

NoJob == [kind |-> "none", request |-> NoRequest, pc |-> "none", todo |-> <<>>,
          obj |-> NoObj, nodes |-> {}, pkgs |-> {}, path |-> NoFolder, ok |-> FALSE]

TypeOK ==
  /\ ModelTypeOK
  /\ jobs \in [1..MaxDepth -> Job]
  /\ depth \in 0..MaxDepth
  /\ widgetsEnabled \in BOOLEAN
  /\ archiveEnabled \in BOOLEAN
  /\ overrideCursor \in Nat
  /\ title \in Request \cup {NoRequest}
  /\ status \in {"running", "ended", "terminated", "undefined"}

Init ==
  /\ ModelInit
  /\ jobs = [d \in 1..MaxDepth |-> NoJob]
  /\ depth = 0
  /\ widgetsEnabled = TRUE
  /\ archiveEnabled = FALSE
  /\ overrideCursor = 0
  /\ title = NoRequest
  /\ status = "running"

-----------------------------------------------------------------------------
\* The handlers of the window's thread.

Running == status = "running"
Waiting == depth > 0

\* CBusyWinWrapper.
TakeWindowCursorOnly ==    \* mutant: the widgets stay enabled
  overrideCursor' = overrideCursor + 1 /\ UNCHANGED <<widgetsEnabled, archiveEnabled>>
TakeWindow ==
  /\ widgetsEnabled' = FALSE
  /\ archiveEnabled' = FALSE
  /\ overrideCursor' = overrideCursor + 1

GiveBackWindowTwice ==     \* mutant: the cursor is restored twice
  /\ widgetsEnabled' = TRUE
  /\ archiveEnabled' = TRUE
  /\ overrideCursor' = overrideCursor - 2
GiveBackWindowIfOk ==      \* mutant: only a job that succeeded
  /\ widgetsEnabled' = (widgetsEnabled \/ jobs[depth].ok)
  /\ archiveEnabled' = jobs[depth].ok
  /\ overrideCursor' = overrideCursor - 1
GiveBackWindow ==
  /\ widgetsEnabled' = TRUE
  /\ archiveEnabled' = TRUE
  /\ overrideCursor' = overrideCursor - 1

\* The wrapper's constructor and std::async: the handler starts waiting.
StartJob(job) ==
  /\ depth < MaxDepth
  /\ depth' = depth + 1
  /\ jobs' = [jobs EXCEPT ![depth + 1] = job]
  /\ TakeWindow
  /\ UNCHANGED <<title, status>>

\* void LoadPackage(pkgPath): the archive that is open is dropped first.
LoadPackage(folder, p) ==
  /\ ResetIfGenerated
  /\ StartJob([NoJob EXCEPT !.kind = "package", !.pc = "call", !.todo = <<p>>,
                            !.request = [folder |-> folder, name |-> p]])

\* OnFileOpen and OnRecentFileOpen.
OpenPackage(folder, p) ==
  /\ Running /\ widgetsEnabled
  /\ LoadPackage(folder, p)

\* dropEvent: the one gate is the model's busy flag.
DropPackage(folder, p) ==
  /\ Running /\ ~m_bIsBusy
  /\ Waiting => DropsDuringJobs
  /\ LoadPackage(folder, p)

\* OnIndexFileOpen, CLoadIndexDialog::OnOkayButton and OnIndexFileAccepted.
OpenIndex(folder) ==
  /\ Running /\ widgetsEnabled
  /\ ResetIfGenerated
  /\ StartJob([NoJob EXCEPT !.kind = "index", !.pc = "index",
                            !.request = [folder |-> folder, name |-> Index]])

\* OnSelectionChanged by a click, which replaces the selection, or by a
\* click with the control key, which toggles one node.
Select(n, toggle) ==
  /\ Running /\ widgetsEnabled
  /\ n \in treeNodes
  /\ IF toggle
     THEN OnSelectionChanged({n} \ m_SelectedNodes, {n} \cap m_SelectedNodes)
     ELSE OnSelectionChanged({n}, m_SelectedNodes \ {n})
  /\ UNCHANGED <<jobs, windowVars>>

OnExtractAll ==
  /\ Running /\ archiveEnabled
  /\ StartJob([NoJob EXCEPT !.kind = "extractAll", !.pc = "capture"])
  /\ UNCHANGED modelVars

OnExtractClick ==
  /\ Running /\ archiveEnabled
  /\ m_SelectedNodes # {}
  /\ StartJob([NoJob EXCEPT !.kind = "extract", !.pc = "capture"])
  /\ UNCHANGED modelVars

\* OnPreviewClick wants one selected file; OnItemDoubleClicked any file of
\* the tree.  (A selected directory gives an error box and nothing else.)
Preview(n) ==
  /\ Running
  /\ ~IsDirectory(n)
  /\ \/ archiveEnabled /\ m_SelectedNodes = {n}
     \/ widgetsEnabled /\ n \in fileNodes
  /\ StartJob([NoJob EXCEPT !.kind = "preview", !.pc = "capture", !.nodes = {n}])
  /\ UNCHANGED modelVars

FutureReadyIfOk(job) == job.pc = "ready" /\ job.ok    \* mutant: waits for success
FutureReady(job) == job.pc = "ready"

\* The innermost handler finds its future ready: the wrapper's destructor
\* enables every widget, and a successful load sets the title.
FinishJob ==
  /\ Running /\ Waiting
  /\ FutureReady(jobs[depth])
  /\ depth' = depth - 1
  /\ jobs' = [jobs EXCEPT ![depth] = NoJob]
  /\ GiveBackWindow
  /\ title' = IF jobs[depth].kind \in LoadKinds /\ jobs[depth].ok
              THEN jobs[depth].request ELSE title
  /\ UNCHANGED <<modelVars, status>>

\* future.get() throws what the job threw; no handler catches it.
JobThrows ==
  /\ Running /\ Waiting
  /\ jobs[depth].pc = "thrown"
  /\ status' = "terminated"
  /\ UNCHANGED <<modelVars, jobs, depth, widgetsEnabled, archiveEnabled,
                 overrideCursor, title>>

\* OnQuitButton: std::exit.
OnQuitButton ==
  /\ Running /\ widgetsEnabled
  /\ status' = "ended"
  /\ UNCHANGED <<modelVars, jobs, depth, widgetsEnabled, archiveEnabled,
                 overrideCursor, title>>

-----------------------------------------------------------------------------
\* The thread of the job at level d of the stack: loads.

At(d, step) == Running /\ d <= depth /\ jobs[d].pc = step

Independent(d) == jobs[d].kind = "package"
Folder(d) == jobs[d].request.folder
Pkg(d) == Head(jobs[d].todo)

\* Addresses no object has and no pointer that is still around holds.
NodeSets == {fileNodes, dirNodes, m_SelectedNodes, LoadedFiles} \cup
            {jobs[d].nodes : d \in 1..MaxDepth} \cup {jobs[d].pkgs : d \in 1..MaxDepth}
FreeObjs == {o \in Objs : /\ \A S \in NodeSets : \A n \in S : n.obj # o
                          /\ \A d \in 1..MaxDepth : jobs[d].obj # o}

CallLoadPackage(d) ==
  /\ At(d, "call")
  /\ SetBusy
  /\ jobs' = [jobs EXCEPT ![d].pc = "parse"]
  /\ UNCHANGED windowVars

Parse(d) ==
  /\ At(d, "parse")
  /\ \E o \in FreeObjs :
        /\ ParsePackage(Folder(d), Pkg(d), o, Independent(d))
        /\ jobs' = [jobs EXCEPT ![d].pc = "publish", ![d].obj = o]
  /\ UNCHANGED windowVars

ParseFails(d) ==
  /\ At(d, "parse")
  /\ PackageFails(Folder(d), Pkg(d))
  /\ jobs' = [jobs EXCEPT ![d].pc = IF Independent(d) THEN "ready" ELSE "undo"]
  /\ UNCHANGED windowVars

Publish(d) ==
  /\ At(d, "publish")
  /\ PublishPackage(Folder(d), Pkg(d), jobs[d].obj, Independent(d))
  /\ jobs' = [jobs EXCEPT ![d].pc = "loaded", ![d].obj = NoObj]
  /\ UNCHANGED windowVars

\* LoadPackage returns true: to the future, or to LoadIndex's loop.
Loaded(d) ==
  /\ At(d, "loaded")
  /\ PackageLoaded
  /\ jobs' = [jobs EXCEPT
        ![d].todo = Tail(jobs[d].todo),
        ![d].pc = IF Independent(d) THEN "ready"
                  ELSE IF Len(jobs[d].todo) > 1 THEN "call" ELSE "wrapUp",
        ![d].ok = Independent(d)]
  /\ UNCHANGED windowVars

CallLoadIndex(d) ==
  /\ At(d, "index")
  /\ SetBusy
  /\ jobs' = [jobs EXCEPT ![d].pc = "read"]
  /\ UNCHANGED windowVars

ReadIndex(d) ==
  /\ At(d, "read")
  /\ jobs' = [jobs EXCEPT
        ![d].pc   = IF IndexOf[Folder(d)] = <<>> THEN "wrapUp" ELSE "call",
        ![d].todo = IndexOf[Folder(d)]]
  /\ UNCHANGED <<modelVars, windowVars>>

ReadIndexFails(d) ==
  /\ At(d, "read")
  /\ IndexUnreadable(Folder(d))
  /\ jobs' = [jobs EXCEPT ![d].pc = "ready"]
  /\ UNCHANGED windowVars

\* DynamicIndexFileFactory throws outside of any try.
DetectIndexThrows(d) ==
  /\ At(d, "read")
  /\ jobs' = [jobs EXCEPT ![d].pc = "thrown"]
  /\ UNCHANGED <<modelVars, windowVars>>

UndoIndexKeepsPkgs(d) ==    \* mutant: only the flag is taken back
  /\ At(d, "undo")
  /\ m_bGenerated' = FALSE
  /\ jobs' = [jobs EXCEPT ![d].pc = "ready", ![d].todo = <<>>]
  /\ UNCHANGED <<treeVars, m_PkgFiles, origin, m_CurrentParentPath, m_CurFileProps,
                 m_szLastError, m_bIsBusy, m_bIsIndexLoaded, windowVars>>
\* One package failed: everything the index loaded so far is dropped.
UndoIndex(d) ==
  /\ At(d, "undo")
  /\ ResetModel
  /\ jobs' = [jobs EXCEPT ![d].pc = "ready", ![d].todo = <<>>]
  /\ UNCHANGED windowVars

WrapUpIndex(d) ==
  /\ At(d, "wrapUp")
  /\ IndexLoaded(Folder(d))
  /\ jobs' = [jobs EXCEPT ![d].pc = "ready", ![d].ok = TRUE]
  /\ UNCHANGED windowVars

-----------------------------------------------------------------------------
\* The thread of the job at level d: extractions.

FilesOf(nodes) == UNION {FilesUnder(n) : n \in nodes}

\* The nodes an extraction is to write, from the selection copied by value
\* (pointers), and the PkgFiles it needs, all of them for extract all.
Targets(d) == IF jobs[d].kind = "extract" THEN m_SelectedNodes ELSE jobs[d].nodes
Owners(d)  == IF jobs[d].kind = "extractAll" THEN LoadedPkgs
              ELSE {f.name : f \in FilesOf(Targets(d))}

\* A node or an object that the tree or the package map no longer holds is
\* freed: a thread that reads it has undefined behaviour.
Undefined ==
  /\ status' = "undefined"
  /\ UNCHANGED <<modelVars, jobs, depth, widgetsEnabled, archiveEnabled,
                 overrideCursor, title>>

Capture(d) ==
  /\ At(d, "capture")
  /\ Targets(d) \subseteq treeNodes
  /\ Owners(d) \subseteq LoadedPkgs
  /\ jobs' = [jobs EXCEPT
        ![d].nodes = Targets(d),
        ![d].pkgs  = {[name |-> p, obj |-> m_PkgFiles[p]] : p \in Owners(d)},
        ![d].path  = m_CurrentParentPath,
        ![d].pc    = IF Owners(d) = {} THEN "ready" ELSE "write",
        ![d].ok    = Owners(d) = {}]
  /\ UNCHANGED <<modelVars, windowVars>>

CaptureUndefined(d) ==
  /\ At(d, "capture")
  /\ ~ Targets(d) \subseteq treeNodes
  /\ Undefined

\* unordered_map::at finds no PkgFile for a node's owner.
CaptureThrows(d) ==
  /\ At(d, "capture")
  /\ Targets(d) \subseteq treeNodes
  /\ ~ Owners(d) \subseteq LoadedPkgs
  /\ jobs' = [jobs EXCEPT ![d].pc = "thrown"]
  /\ UNCHANGED <<modelVars, windowVars>>

\* Everything the extraction of package k reads still exists: the PkgFile,
\* the nodes, and the entries the nodes of this package point to.
Exists(d, k) ==
  /\ k \in LoadedFiles
  /\ jobs[d].nodes \subseteq treeNodes
  /\ \A f \in FilesOf(jobs[d].nodes) : f.name = k.name => f.obj = k.obj

\* The package is read again from the captured folder and its files written.
WritePackage(d) ==
  /\ At(d, "write")
  /\ \E k \in jobs[d].pkgs :
        /\ Exists(d, k)
        /\ jobs' = [jobs EXCEPT
              ![d].pkgs = @ \ {k},
              ![d].pc   = IF jobs[d].pkgs = {k} THEN "ready" ELSE "write",
              ![d].ok   = jobs[d].pkgs = {k}]
  /\ UNCHANGED <<modelVars, windowVars>>

\* The package cannot be read or a file not be written.
WriteFails(d) ==
  /\ At(d, "write")
  /\ \E k \in jobs[d].pkgs : Exists(d, k)
  /\ jobs' = [jobs EXCEPT ![d].pc = "ready"]
  /\ UNCHANGED <<modelVars, windowVars>>

\* What is read is not the package any more, and PkgFile::Parse throws.
WriteThrows(d) ==
  /\ At(d, "write")
  /\ \E k \in jobs[d].pkgs : Exists(d, k)
  /\ jobs' = [jobs EXCEPT ![d].pc = "thrown"]
  /\ UNCHANGED <<modelVars, windowVars>>

WriteUndefined(d) ==
  /\ At(d, "write")
  /\ \E k \in jobs[d].pkgs : ~ Exists(d, k)
  /\ Undefined

-----------------------------------------------------------------------------
Handler ==
  \/ \E folder \in Folders, p \in Pkgs : OpenPackage(folder, p)
  \/ \E folder \in Folders, p \in Pkgs : DropPackage(folder, p)
  \/ \E folder \in Folders : OpenIndex(folder)
  \/ \E n \in treeNodes, toggle \in BOOLEAN : Select(n, toggle)
  \/ OnExtractAll
  \/ OnExtractClick
  \/ \E n \in m_SelectedNodes \cup fileNodes : Preview(n)
  \/ OnQuitButton

Worker(d) ==
  \/ CallLoadPackage(d) \/ Parse(d) \/ ParseFails(d) \/ Publish(d) \/ Loaded(d)
  \/ CallLoadIndex(d) \/ ReadIndex(d) \/ ReadIndexFails(d) \/ DetectIndexThrows(d)
  \/ UndoIndex(d) \/ WrapUpIndex(d)
  \/ Capture(d) \/ CaptureUndefined(d) \/ CaptureThrows(d)
  \/ WritePackage(d) \/ WriteFails(d) \/ WriteThrows(d) \/ WriteUndefined(d)

\* A process that ended does nothing; of one with undefined behaviour
\* nothing more is said.
Stopped == ~ Running /\ UNCHANGED vars

Next ==
  \/ Handler
  \/ FinishJob
  \/ JobThrows
  \/ \E d \in 1..MaxDepth : Worker(d)
  \/ Stopped

Spec == Init /\ [][Next]_vars

\* A job's thread runs, its calls return, and the waiting loop polls its
\* future every 5 milliseconds.
Fairness ==
  /\ \A d \in 1..MaxDepth : WF_vars(Worker(d))
  /\ WF_vars(FinishJob \/ JobThrows)

FairSpec == Spec /\ Fairness

-----------------------------------------------------------------------------
\* Properties.

\* The packages in the map, by where they came from, and those of a request.
Held == {[folder |-> origin[m_PkgFiles[p]], name |-> p] : p \in LoadedPkgs}
Contents == [r \in Request |->
  IF r.name = Index
  THEN {[folder |-> r.folder, name |-> IndexOf[r.folder][i]] : i \in 1..Len(IndexOf[r.folder])}
  ELSE {r}]

Idle == Running /\ ~Waiting
Loading(d)    == d <= depth /\ jobs[d].kind \in LoadKinds /\ jobs[d].pc # "ready"
Extracting(d) == d <= depth /\ jobs[d].kind \in ExtractKinds /\ jobs[d].pc \notin {"ready", "thrown"}

\* CBusyWinWrapper keeps handlers from nesting: while a job runs, no second
\* handler starts another, so the model has one worker at most.
OneJobAtATime == ~DropsDuringJobs => depth <= 1

\* The same without the assumption, which the code does not enforce: README.md
\* promises to explore and extract from the archive that is open.
ExtractionSafe == status # "undefined"

\* No thread ever reads a node, an entry or a PkgFile that ResetModel or a
\* replaced package freed: the pointers the model hands to the extraction
\* threads stay good until they are done.
MemorySafe == ~DropsDuringJobs => status # "undefined"

\* The flag that gates drops never stays set without a load: it is set only
\* while a job that will clear it runs (every return of LoadPackage and
\* LoadIndex clears it), also when handlers nest and loads overlap.
BusySound == m_bIsBusy => \E d \in 1..MaxDepth : Loading(d)

\* Between jobs the window is usable: every job, failed ones too, gives back
\* the widgets and the cursor it took, in whatever order handlers nested.
IdleUsable ==
  /\ overrideCursor = depth
  /\ depth = 0 => widgetsEnabled

\* Every file node points into a PkgFile the model owns, or into the one a
\* job has parsed and not yet put into the map (single job).
NodesOwned ==
  depth <= 1 =>
    \A f \in fileNodes :
      \/ f \in LoadedFiles
      \/ \E d \in 1..depth : jobs[d].obj = f.obj /\ Pkg(d) = f.name

\* The selection never outlives the tree: ResetModel drops it with the nodes.
SelectionInTree == m_SelectedNodes \subseteq treeNodes

\* An extraction reads every package again from the folder it was loaded
\* from, although the model remembers one folder for all packages and reads
\* it after the load, on another thread.
ExtractsFromSource ==
  \A d \in 1..MaxDepth :
    (depth <= 1 /\ Extracting(d)) =>
       \A k \in jobs[d].pkgs : origin[k.obj] = jobs[d].path

\* The packages the title stands for: none before the first load.
Described == IF title = NoRequest THEN {} ELSE Contents[title]

\* Every index names a package.  One that names none sets the index flag and
\* leaves m_bGenerated alone, so the next load does not reset the flag.
NoEmptyIndex == \A f \in Folders : IndexOf[f] # <<>>

\* An idle window that holds packages holds all of what its title names and
\* nothing else, with folder, tree and index flag to match; one that holds
\* none has an empty tree and no index flag.  The properties always describe
\* what the title names.  That need not be loaded: after a failed load (line
\* 307 of mainwindow.cpp) both still name the archive LoadPackage dropped.
ArchiveCoherent ==
  Idle =>
    /\ m_bGenerated <=> Held # {}
    /\ m_bGenerated => /\ title # NoRequest
                       /\ Held = Contents[title]
                       /\ m_CurrentParentPath = title.folder
                       /\ fileNodes = LoadedFiles
    /\ ~m_bGenerated => treeNodes = {}
    /\ NoEmptyIndex => (m_bIsIndexLoaded <=> m_bGenerated /\ title.name = Index)
    /\ m_CurFileProps = Described

\* The message shown for a load that failed is about that load: about the
\* package or index asked for, or a package that index names.
LoadErrorIsOwn ==
  \A d \in 1..MaxDepth :
    (depth <= 1 /\ d <= depth /\ jobs[d].kind \in LoadKinds /\ jobs[d].pc = "ready" /\ ~jobs[d].ok)
      => /\ m_szLastError # NoRequest
         /\ m_szLastError.folder = jobs[d].request.folder
         /\ \/ m_szLastError = jobs[d].request
            \/ /\ jobs[d].kind = "index"
               /\ \E i \in 1..Len(IndexOf[Folder(d)]) : m_szLastError.name = IndexOf[Folder(d)][i]

\* "Could not detect index's game provider" (pkgfilemodel.cpp:479): an index
\* of no known provider makes the load fail with this error, and does not end
\* the process.
UndetectedIndexIsReported ==
  \A d \in 1..MaxDepth : jobs[d].kind = "index" => jobs[d].pc # "thrown"

\* A job never stays: the handler that waits for it returns, or the process
\* ends with the exception the job threw.
JobsEnd == Waiting ~> (~Waiting \/ ~Running)

\* An archive that is open is only replaced at the user's request: while an
\* extraction runs no step changes the packages, the tree or their folder.
ExtractionUndisturbed ==
  [][(\E d \in 1..MaxDepth : Extracting(d))
        => UNCHANGED <<m_PkgFiles, m_DirectoryNodes, fileNodes, m_CurrentParentPath>>]_vars

-----------------------------------------------------------------------------
\* The abstract session: while a load runs nothing is on offer, and between
\* loads what is in the package map.

LoadWaits == Waiting /\ jobs[1].kind \in LoadKinds

Session == INSTANCE ArchiveSession WITH
  Requests <- Request, Packages <- Request, Contents <- Contents, None <- NoRequest,
  archive <- IF LoadWaits THEN {} ELSE Held,
  request <- IF LoadWaits THEN jobs[1].request ELSE NoRequest,
  alive   <- Running

\* The window implements the session: packages come into the map one by one
\* and leave it when one of an index fails, but at the end of the job there
\* are all of them or none, and only a request changes what is on offer.
SessionImplemented == Session!Spec
=============================================================================
