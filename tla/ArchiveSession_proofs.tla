------------------------- MODULE ArchiveSession_proofs -------------------------
(***************************************************************************)
(* What the window shows of the archive, and that MainWindow implements    *)
(* ArchiveSession: for any packages, folders, indexes and depth of nesting,*)
(* when no files are dropped while a job runs.                             *)
(***************************************************************************)
EXTENDS MainWindow_proofs

-----------------------------------------------------------------------------
\* The inductive invariant.

\* Nothing is loaded.
Bare == /\ Held = {} /\ treeNodes = {} /\ ~m_bGenerated
        /\ NoEmptyIndex => ~m_bIsIndexLoaded

\* What r asks for is loaded, and everything the model says is about r.
Complete(r) ==
  /\ r \in Request
  /\ Held = Contents[r] /\ m_CurFileProps = Held /\ m_CurrentParentPath = r.folder
  /\ m_bGenerated <=> Held # {}
  /\ ~m_bGenerated => treeNodes = {}
  /\ NoEmptyIndex => (m_bIsIndexLoaded <=> r.name = Index)

\* The packages the load has not come to, as Contents names them.
Remaining == {[folder |-> jobs[1].request.folder, name |-> jobs[1].todo[i]] :
                i \in 1..Len(jobs[1].todo)}

\* The last error is about the request of the job.
OwnError == m_szLastError \in {jobs[1].request} \cup Contents[jobs[1].request]

\* Which load it is: the kind of the job and the file asked for agree.
LoadKind ==
  /\ jobs[1].kind = "index" <=> jobs[1].request.name = Index
  /\ jobs[1].pc \in {"index", "read", "undo", "wrapUp"} => jobs[1].kind = "index"

\* A load begins with nothing; at every package, what is in the map and what
\* remains make up what was asked for.
LoadProgress ==
  /\ jobs[1].pc \in {"index", "read"} => Bare
  /\ jobs[1].pc \in PackageSteps => Contents[jobs[1].request] = Held \cup Remaining
  /\ jobs[1].pc = "loaded" => [folder |-> jobs[1].request.folder, name |-> Pkg(1)] \in Held
  /\ jobs[1].pc = "publish" => /\ origin[jobs[1].obj] = jobs[1].request.folder
                               /\ [name |-> Pkg(1), obj |-> jobs[1].obj] \in fileNodes
  /\ jobs[1].pc = "wrapUp" => /\ Held = Contents[jobs[1].request]
                              /\ m_bGenerated <=> Held # {}
                              /\ ~m_bGenerated => treeNodes = {}

\* A package loaded alone sets properties and folder on its way.
LoadAlone ==
  jobs[1].kind = "package" =>
    /\ jobs[1].pc \in PackageSteps => Len(jobs[1].todo) = 1
    /\ jobs[1].pc \in {"call", "parse"} => Bare
    /\ jobs[1].pc \in {"publish", "loaded"} => m_CurFileProps = {jobs[1].request}
    /\ jobs[1].pc = "loaded" => m_CurrentParentPath = jobs[1].request.folder

\* How a load ends: with everything, or with nothing and an error of its own.
LoadEnd ==
  /\ jobs[1].pc = "undo" => OwnError
  /\ (jobs[1].pc = "ready" /\ jobs[1].ok) => Complete(jobs[1].request)
  /\ (jobs[1].pc = "ready" /\ ~jobs[1].ok) => Bare /\ OwnError
  /\ jobs[1].pc # "ready" => ~jobs[1].ok /\ (NoEmptyIndex => ~m_bIsIndexLoaded)

LoadInv == (depth = 1 /\ jobs[1].kind \in LoadKinds) =>
             LoadKind /\ LoadProgress /\ LoadAlone /\ LoadEnd

\* Outside of a load nothing is loaded, or what the title says.
RestInv == ~LoadWaits => Bare \/ Complete(title)

\* What an extraction still has to read came from the folder it reads.
SourceInv == (depth = 1 /\ jobs[1].kind \in ExtractKinds) =>
               \A k \in jobs[1].pkgs : origin[k.obj] = jobs[1].path

\* Every package in the map has its node in the tree.
Shown == LoadedFiles \subseteq fileNodes

SessionInv == LoadInv /\ RestInv /\ SourceInv /\ Shown

-----------------------------------------------------------------------------
\* Contents, and what the map holds.

LEMMA ContentsFacts ==
  ASSUME NEW r \in Request
  PROVE  /\ r.name # Index => Contents[r] = {r}
         /\ r.name = Index => Contents[r] =
              {[folder |-> r.folder, name |-> IndexOf[r.folder][i]] : i \in 1..Len(IndexOf[r.folder])}
         /\ \A k \in Contents[r] : k.folder = r.folder
         /\ NoEmptyIndex => Contents[r] # {}
<1>1. /\ r.name # Index => Contents[r] = {r}
      /\ r.name = Index => Contents[r] =
           {[folder |-> r.folder, name |-> IndexOf[r.folder][i]] : i \in 1..Len(IndexOf[r.folder])}
  BY DEF Contents
<1>2. \A k \in Contents[r] : k.folder = r.folder
  BY <1>1
<1>3. ASSUME NoEmptyIndex, r.name = Index PROVE Contents[r] # {}
  <2>1. IndexOf[r.folder] \in Seq(Pkgs) /\ IndexOf[r.folder] # <<>>
    BY <1>3, IndexAssumption DEF NoEmptyIndex, Request
  <2>2. \A s \in Seq(Pkgs) : s # <<>> => 1 \in 1..Len(s)
    OBVIOUS
  <2> QED BY <1>1, <1>3, <2>1, <2>2
<1> QED BY <1>1, <1>2, <1>3

\* The first of the packages to load is one of those remaining.
LEMMA HeadRemains ==
  ASSUME TypeInv, depth = 1, jobs[1].pc \in PackageSteps
  PROVE  /\ [folder |-> Folder(1), name |-> Pkg(1)] \in Remaining
         /\ Pkg(1) = jobs[1].todo[1] /\ 1 \in 1..Len(jobs[1].todo)
<1>1. jobs[1] \in Job /\ JobShape(jobs[1])
  BY WindowAssumption DEF TypeInv, TypeOK, Shape
<1>2. jobs[1].todo \in Seq(Pkgs) /\ jobs[1].todo # <<>>
  BY <1>1 DEF Job, JobShape
<1>3. \A s \in Seq(Pkgs) : s # <<>> => 1 \in 1..Len(s) /\ Head(s) = s[1]
  OBVIOUS
<1>4. Pkg(1) = jobs[1].todo[1] /\ 1 \in 1..Len(jobs[1].todo)
  BY <1>2, <1>3 DEF Pkg
<1> QED BY <1>4 DEF Remaining, Folder

\* All of the model but the selection and the busy flag, which the invariant
\* does not look at, and the last error, which only OwnError does.
contentVars == <<m_DirectoryNodes, fileNodes, m_PkgFiles, origin, m_CurrentParentPath,
                 m_CurFileProps, m_bGenerated, m_bIsIndexLoaded>>

LEMMA SameHeld ==
  ASSUME UNCHANGED <<m_PkgFiles, origin>>
  PROVE  Held' = Held /\ LoadedFiles' = LoadedFiles /\ LoadedPkgs' = LoadedPkgs
<1>1. LoadedPkgs' = LoadedPkgs
  BY DEF LoadedPkgs
<1> QED BY <1>1 DEF Held, LoadedFiles

LEMMA SameContent ==
  ASSUME UNCHANGED contentVars
  PROVE  /\ UNCHANGED <<Held, LoadedFiles, LoadedPkgs, treeNodes>>
         /\ Bare' = Bare /\ Shown' = Shown
         /\ \A r : Complete(r)' = Complete(r)
<1>1. UNCHANGED <<Held, LoadedFiles, LoadedPkgs>>
  BY SameHeld DEF contentVars
<1>2. treeNodes' = treeNodes
  BY DEF contentVars, treeNodes, dirNodes
<1>3. Bare' = Bare /\ Shown' = Shown
  BY <1>1, <1>2 DEF contentVars, Bare, Shown, NoEmptyIndex
<1>4. \A r : Complete(r)' = Complete(r)
  BY <1>1, <1>2 DEF contentVars, Complete, NoEmptyIndex, Contents
<1> QED BY <1>1, <1>2, <1>3, <1>4

\* ResetModel leaves nothing.
LEMMA ResetIsBare ==
  ASSUME ResetModel
  PROVE  Bare' /\ Shown'
<1>1. /\ fileNodes' = {} /\ m_DirectoryNodes' = [d \in Dirs |-> NoObj]
      /\ m_PkgFiles' = [p \in Pkgs |-> NoObj]
      /\ m_bGenerated' = FALSE /\ m_bIsIndexLoaded' = FALSE
  BY DEF ResetModel, FreeNodes, ClearFlags
<1>2. LoadedPkgs' = {}
  BY <1>1 DEF LoadedPkgs
<1>3. Held' = {} /\ LoadedFiles' = {}
  BY <1>2 DEF Held, LoadedFiles
<1>4. treeNodes' = {}
  BY <1>1 DEF treeNodes, dirNodes
<1> QED BY <1>1, <1>3, <1>4 DEF Bare, Shown

-----------------------------------------------------------------------------
\* The handlers and the end of a job.

LEMMA InitSession == Init => SessionInv
<1> SUFFICES ASSUME Init PROVE SessionInv
  OBVIOUS
<1>1. LoadedPkgs = {}
  BY DEF Init, ModelInit, LoadedPkgs
<1>2. Held = {} /\ LoadedFiles = {}
  BY <1>1 DEF Held, LoadedFiles
<1>3. treeNodes = {}
  BY DEF Init, ModelInit, treeNodes, dirNodes
<1>4. Bare /\ Shown
  BY <1>2, <1>3 DEF Init, ModelInit, Bare, Shown
<1> QED BY <1>4 DEF Init, SessionInv, LoadInv, RestInv, SourceInv, NoJob

\* A step that leaves all but the selection, the busy flag and the widgets.
LEMMA SameSession ==
  ASSUME SessionInv, UNCHANGED contentVars, UNCHANGED <<m_szLastError, jobs, depth, title>>
  PROVE  SessionInv'
<1>1. /\ UNCHANGED <<Held, LoadedFiles, LoadedPkgs, treeNodes>>
      /\ Bare' = Bare /\ Shown' = Shown
      /\ \A r : Complete(r)' = Complete(r)
  BY SameContent
<1>2. Complete(title)' = Complete(title) /\ Complete(jobs[1].request)' = Complete(jobs[1].request)
  BY <1>1 DEF contentVars, Complete, NoEmptyIndex, Contents
<1>3. RestInv' /\ SourceInv'
  BY <1>1, <1>2 DEF SessionInv, RestInv, SourceInv, LoadWaits, Waiting, contentVars
<1>4. Remaining' = Remaining /\ OwnError' = OwnError
  BY DEF Remaining, OwnError, Contents
<1>5. LoadKind' = LoadKind /\ LoadProgress' = LoadProgress
  BY <1>1, <1>4 DEF contentVars, LoadKind, LoadProgress, Pkg, Contents
<1>6. LoadAlone' = LoadAlone /\ LoadEnd' = LoadEnd
  BY <1>1, <1>2, <1>4 DEF contentVars, LoadAlone, LoadEnd, NoEmptyIndex
<1>7. LoadInv'
  BY <1>5, <1>6 DEF SessionInv, LoadInv
<1> QED BY <1>1, <1>3, <1>7 DEF SessionInv

\* When no job runs, what a load finds after ResetIfGenerated is nothing:
\* m_bGenerated tells whether there is something to drop.
LEMMA NothingBefore ==
  ASSUME TypeInv, SessionInv, depth = 0, ResetIfGenerated
  PROVE  Bare' /\ Shown'
<1>1. CASE m_bGenerated
  BY <1>1, ResetIsBare DEF ResetIfGenerated
<1>2. CASE ~m_bGenerated
  <2>1. UNCHANGED contentVars
    BY <1>2 DEF ResetIfGenerated, modelVars, contentVars
  <2>2. Bare \/ (Complete(title) /\ Held = {})
    BY <1>2 DEF SessionInv, RestInv, Complete, LoadWaits, Waiting
  <2>3. Bare
    <3>1. CASE Complete(title) /\ Held = {}
      <4>1. title \in Request /\ Contents[title] = {} /\ treeNodes = {}
        BY <1>2, <3>1 DEF Complete
      <4>2. ~NoEmptyIndex
        BY <4>1, ContentsFacts
      <4> QED BY <1>2, <3>1, <4>1, <4>2 DEF Bare
    <3> QED BY <2>2, <3>1
  <2> QED BY <2>1, <2>3, SameContent DEF SessionInv
<1> QED BY <1>1, <1>2

\* What is left to show of a step that leaves a load running.
LEMMA LoadRuns ==
  ASSUME depth' = 1, jobs'[1].kind \in LoadKinds, Shown',
         LoadKind', LoadProgress', LoadAlone', LoadEnd'
  PROVE  SessionInv'
<1>1. jobs'[1].kind \notin ExtractKinds
  BY DEF LoadKinds, ExtractKinds
<1> QED BY <1>1 DEF SessionInv, LoadInv, RestInv, SourceInv, LoadWaits, Waiting

LEMMA LoadPackageSession ==
  ASSUME TypeInv, SessionInv, depth = 0, NEW folder \in Folders, NEW p \in Pkgs,
         LoadPackage(folder, p)
  PROVE  SessionInv'
<1> DEFINE r == [folder |-> folder, name |-> p]
           job == [NoJob EXCEPT !.kind = "package", !.pc = "call", !.todo = <<p>>, !.request = r]
<1>1. StartJob(job) /\ Bare' /\ Shown'
  BY NothingBefore DEF LoadPackage
<1>2. depth' = 1 /\ jobs'[1] = job
  BY <1>1, WindowAssumption DEF StartJob, TypeInv, TypeOK
<1>3. /\ jobs'[1].kind = "package" /\ jobs'[1].pc = "call" /\ jobs'[1].todo = <<p>>
      /\ jobs'[1].request = r /\ jobs'[1].ok = FALSE
  BY <1>2 DEF NoJob
<1>4. r \in Request /\ r.name # Index
  BY NamesAssumption DEF Request
<1>5. LoadKind'
  BY <1>3, <1>4 DEF LoadKind
<1>6. LoadProgress'
  <2>1. Remaining' = {r}
    BY <1>3 DEF Remaining
  <2>2. Held' = {} /\ Contents[r] = {r}
    BY <1>1, <1>4, ContentsFacts DEF Bare
  <2> QED BY <1>3, <2>1, <2>2 DEF LoadProgress, Contents
<1>7. LoadAlone'
  BY <1>1, <1>3 DEF LoadAlone
<1>8. LoadEnd'
  BY <1>1, <1>3 DEF LoadEnd, Bare, NoEmptyIndex
<1> QED BY <1>1, <1>2, <1>3, <1>5, <1>6, <1>7, <1>8, LoadRuns DEF LoadKinds

LEMMA OpenIndexSession ==
  ASSUME TypeInv, SessionInv, depth = 0, NEW folder \in Folders, OpenIndex(folder)
  PROVE  SessionInv'
<1> DEFINE r == [folder |-> folder, name |-> Index]
           job == [NoJob EXCEPT !.kind = "index", !.pc = "index", !.request = r]
<1>1. StartJob(job) /\ Bare' /\ Shown'
  BY NothingBefore DEF OpenIndex
<1>2. depth' = 1 /\ jobs'[1] = job
  BY <1>1, WindowAssumption DEF StartJob, TypeInv, TypeOK
<1>3. /\ jobs'[1].kind = "index" /\ jobs'[1].pc = "index"
      /\ jobs'[1].request = r /\ jobs'[1].ok = FALSE
  BY <1>2 DEF NoJob
<1>4. LoadKind' /\ LoadProgress' /\ LoadAlone' /\ LoadEnd'
  BY <1>1, <1>3 DEF LoadKind, LoadProgress, LoadAlone, LoadEnd, PackageSteps, Bare, NoEmptyIndex
<1> QED BY <1>1, <1>2, <1>3, <1>4, LoadRuns DEF LoadKinds

LEMMA StartExtractionSession ==
  ASSUME TypeInv, SessionInv, depth = 0, NEW job, job.kind \in ExtractKinds, job.pkgs = {},
         StartJob(job), UNCHANGED modelVars
  PROVE  SessionInv'
<1>1. depth' = 1 /\ jobs'[1] = job /\ title' = title
  BY WindowAssumption DEF StartJob, TypeInv, TypeOK
<1>2. UNCHANGED contentVars
  BY DEF modelVars, contentVars
<1>3. Bare' = Bare /\ Shown' = Shown /\ UNCHANGED <<Held, treeNodes>>
  BY <1>2, SameContent
<1>4. Complete(title)' = Complete(title)
  BY <1>1, <1>2, <1>3 DEF contentVars, Complete, NoEmptyIndex, Contents
<1>5. RestInv' /\ SourceInv'
  BY <1>1, <1>3, <1>4 DEF SessionInv, RestInv, SourceInv, LoadWaits, Waiting
<1>6. LoadInv'
  BY <1>1 DEF LoadInv, LoadKinds, ExtractKinds
<1> QED BY <1>3, <1>5, <1>6 DEF SessionInv

LEMMA HandlerSession ==
  ASSUME ~DropsDuringJobs, TypeInv, QuietInv, SessionInv, Handler
  PROVE  SessionInv'
<1>1. (Running /\ (widgetsEnabled \/ archiveEnabled)) => depth = 0
  BY DEF QuietInv, Gate, TypeInv, TypeOK
<1>2. CASE \E folder \in Folders, p \in Pkgs : OpenPackage(folder, p) \/ DropPackage(folder, p)
  <2>1. depth = 0
    BY <1>1, <1>2 DEF OpenPackage, DropPackage, Waiting, TypeInv, TypeOK
  <2> QED BY <1>2, <2>1, LoadPackageSession DEF OpenPackage, DropPackage
<1>3. CASE \E folder \in Folders : OpenIndex(folder)
  <2>1. depth = 0
    BY <1>1, <1>3 DEF OpenIndex
  <2> QED BY <1>3, <2>1, OpenIndexSession
<1>4. CASE OnQuitButton \/ \E n \in treeNodes, toggle \in BOOLEAN : Select(n, toggle)
  <2>1. UNCHANGED contentVars /\ UNCHANGED <<m_szLastError, jobs, depth, title>>
    BY <1>4 DEF Select, OnSelectionChanged, OnQuitButton, modelVars, windowVars, contentVars
  <2> QED BY <2>1, SameSession
<1>5. CASE OnExtractAll
  <2> DEFINE job == [NoJob EXCEPT !.kind = "extractAll", !.pc = "capture"]
  <2>1. job.kind \in ExtractKinds /\ job.pkgs = {}
    BY DEF NoJob, ExtractKinds
  <2>2. StartJob(job) /\ UNCHANGED modelVars /\ depth = 0
    BY <1>1, <1>5 DEF OnExtractAll
  <2> HIDE DEF job
  <2> QED BY <2>1, <2>2, StartExtractionSession
<1>6. CASE OnExtractClick
  <2> DEFINE job == [NoJob EXCEPT !.kind = "extract", !.pc = "capture"]
  <2>1. job.kind \in ExtractKinds /\ job.pkgs = {}
    BY DEF NoJob, ExtractKinds
  <2>2. StartJob(job) /\ UNCHANGED modelVars /\ depth = 0
    BY <1>1, <1>6 DEF OnExtractClick
  <2> HIDE DEF job
  <2> QED BY <2>1, <2>2, StartExtractionSession
<1>7. ASSUME NEW n \in m_SelectedNodes \cup fileNodes, Preview(n)
      PROVE  SessionInv'
  <2> DEFINE job == [NoJob EXCEPT !.kind = "preview", !.pc = "capture", !.nodes = {n}]
  <2>1. job.kind \in ExtractKinds /\ job.pkgs = {}
    BY DEF NoJob, ExtractKinds
  <2>2. StartJob(job) /\ UNCHANGED modelVars /\ depth = 0
    BY <1>1, <1>7 DEF Preview
  <2> HIDE DEF job
  <2> QED BY <2>1, <2>2, StartExtractionSession
<1> QED BY <1>2, <1>3, <1>4, <1>5, <1>6, <1>7 DEF Handler

\* The job is done: a load that succeeded gives the window its title.
LEMMA FinishJobSession ==
  ASSUME TypeInv, QuietInv, SessionInv, FinishJob
  PROVE  SessionInv'
<1>1. depth = 1 /\ depth' = 0 /\ jobs[1].pc = "ready" /\ jobs[1] \in Job
  BY WindowAssumption DEF FinishJob, FutureReady, Waiting, QuietInv, Gate, TypeInv, TypeOK
<1>2. UNCHANGED contentVars
  BY DEF FinishJob, modelVars, contentVars
<1>3. Bare' = Bare /\ Shown' = Shown /\ UNCHANGED <<Held, treeNodes>>
  BY <1>2, SameContent
<1>4. \A r : Complete(r) /\ title' = r => Complete(title)'
  BY <1>2, <1>3 DEF contentVars, Complete, NoEmptyIndex, Contents
<1>5. Bare' \/ Complete(title)'
  <2>1. CASE jobs[1].kind \in LoadKinds
    <3>1. CASE jobs[1].ok
      <4>1. Complete(jobs[1].request) /\ title' = jobs[1].request
        BY <1>1, <2>1, <3>1 DEF SessionInv, LoadInv, LoadEnd, FinishJob
      <4> QED BY <1>4, <4>1
    <3>2. CASE ~jobs[1].ok
      BY <1>1, <1>3, <2>1, <3>2 DEF SessionInv, LoadInv, LoadEnd
    <3> QED BY <3>1, <3>2
  <2>2. CASE jobs[1].kind \notin LoadKinds
    <3>1. title' = title /\ (Bare \/ Complete(title))
      BY <1>1, <2>2 DEF FinishJob, SessionInv, RestInv, LoadWaits
    <3> QED BY <1>3, <1>4, <3>1
  <2> QED BY <2>1, <2>2
<1> QED BY <1>1, <1>3, <1>5 DEF SessionInv, LoadInv, RestInv, SourceInv
-----------------------------------------------------------------------------
\* The thread of a load.

\* What every step of a load starts from.
LEMMA LoadFacts ==
  ASSUME TypeInv, SessionInv, depth = 1, NEW step \in LoadSteps, At(1, step)
  PROVE  /\ jobs[1] \in Job /\ 1 \in DOMAIN jobs /\ jobs[1].pc = step /\ JobShape(jobs[1])
         /\ jobs[1].kind \in LoadKinds /\ jobs[1].request \in Request /\ Folder(1) \in Folders
         /\ LoadKind /\ LoadProgress /\ LoadAlone /\ LoadEnd
<1>1. /\ jobs[1] \in Job /\ 1 \in DOMAIN jobs /\ jobs[1].pc = step /\ JobShape(jobs[1])
      /\ jobs[1].kind \in LoadKinds /\ jobs[1].request \in Request /\ Folder(1) \in Folders
  BY AtFacts, WindowAssumption DEF TypeInv, TypeOK
<1> QED BY <1>1 DEF SessionInv, LoadInv

\* A step that changes of the content nothing, and of the job only the step,
\* going on in the middle of a load: LoadPackage and LoadIndex begin, or the
\* detection throws.
LEMMA BeginSession ==
  ASSUME TypeInv, SessionInv, depth = 1,
         CallLoadPackage(1) \/ CallLoadIndex(1) \/ DetectIndexThrows(1)
  PROVE  SessionInv'
<1>1. PICK step \in {"call", "index", "read"} : At(1, step)
  BY DEF CallLoadPackage, CallLoadIndex, DetectIndexThrows
<1>2. /\ jobs[1] \in Job /\ 1 \in DOMAIN jobs /\ jobs[1].pc = step
      /\ jobs[1].kind \in LoadKinds
      /\ LoadKind /\ LoadProgress /\ LoadAlone /\ LoadEnd
  BY <1>1, LoadFacts DEF LoadSteps, PackageSteps
<1>3. /\ jobs'[1].kind = jobs[1].kind /\ jobs'[1].request = jobs[1].request
      /\ jobs'[1].todo = jobs[1].todo /\ jobs'[1].ok = jobs[1].ok
      /\ jobs'[1].pc \in {"parse", "read", "thrown"}
      /\ jobs'[1].pc = "parse" => step = "call"
      /\ jobs'[1].pc = "read" => step = "index"
  BY <1>2 DEF CallLoadPackage, CallLoadIndex, DetectIndexThrows, At, Job
<1>4. UNCHANGED contentVars /\ depth' = 1
  BY DEF CallLoadPackage, CallLoadIndex, DetectIndexThrows, SetBusy, treeVars, flagVars,
     modelVars, windowVars, contentVars
<1>5. /\ UNCHANGED <<Held, treeNodes>> /\ Bare' = Bare /\ Shown'
      /\ Remaining' = Remaining
  BY <1>3, <1>4, SameContent DEF SessionInv, Remaining
<1>6. LoadKind' /\ LoadProgress'
  BY <1>2, <1>3, <1>5 DEF LoadKind, LoadProgress, PackageSteps, Contents
<1>7. LoadAlone' /\ LoadEnd'
  BY <1>2, <1>3, <1>4, <1>5 DEF LoadAlone, LoadEnd, PackageSteps, contentVars, NoEmptyIndex
<1> QED BY <1>2, <1>3, <1>4, <1>5, <1>6, <1>7, LoadRuns

\* The package parsed becomes nodes only: the object is at a free address.
LEMMA ParseSession ==
  ASSUME TypeInv, SessionInv, depth = 1, Parse(1)
  PROVE  SessionInv'
<1> DEFINE k == [folder |-> Folder(1), name |-> Pkg(1)]
<1>1. PICK o \in FreeObjs :
        /\ ParsePackage(Folder(1), Pkg(1), o, Independent(1))
        /\ jobs' = [jobs EXCEPT ![1].pc = "publish", ![1].obj = o]
  BY DEF Parse
<1>2. /\ jobs[1] \in Job /\ 1 \in DOMAIN jobs /\ jobs[1].pc = "parse"
      /\ jobs[1].kind \in LoadKinds /\ jobs[1].request \in Request
      /\ LoadKind /\ LoadProgress /\ LoadAlone /\ LoadEnd
  BY LoadFacts DEF Parse, LoadSteps, PackageSteps
<1>3. /\ jobs'[1].kind = jobs[1].kind /\ jobs'[1].request = jobs[1].request
      /\ jobs'[1].todo = jobs[1].todo /\ jobs'[1].ok = jobs[1].ok
      /\ jobs'[1].pc = "publish" /\ jobs'[1].obj = o
  BY <1>1, <1>2 DEF Job
<1>4. /\ fileNodes' = fileNodes \cup {[name |-> Pkg(1), obj |-> o]}
      /\ origin' = [origin EXCEPT ![o] = Folder(1)]
      /\ m_CurFileProps' = IF Independent(1) THEN {k} ELSE m_CurFileProps
      /\ UNCHANGED <<m_PkgFiles, m_bIsIndexLoaded, depth>>
  BY <1>1 DEF ParsePackage, CreateChildren, flagVars, Parse, windowVars
<1>5. o \in Objs /\ \A p \in LoadedPkgs : m_PkgFiles[p] # o
  <2>1. LoadedFiles \in NodeSets
    BY DEF NodeSets
  <2>2. o \in Objs /\ \A n \in LoadedFiles : n.obj # o
    BY <2>1 DEF FreeObjs
  <2>3. \A p \in LoadedPkgs : [name |-> p, obj |-> m_PkgFiles[p]] \in LoadedFiles
    BY DEF LoadedFiles
  <2> QED BY <2>2, <2>3
<1>6. LoadedPkgs' = LoadedPkgs /\ LoadedFiles' = LoadedFiles
  BY <1>4 DEF LoadedPkgs, LoadedFiles
<1>7. Held' = Held
  <2>1. origin \in [Objs -> Folders \cup {NoFolder}] /\ m_PkgFiles \in [Pkgs -> Objs \cup {NoObj}]
    BY DEF TypeInv, TypeOK, ModelTypeOK
  <2>2. \A p \in LoadedPkgs : origin'[m_PkgFiles[p]] = origin[m_PkgFiles[p]]
    BY <1>4, <1>5, <2>1 DEF LoadedPkgs
  <2> QED BY <1>4, <1>6, <2>2 DEF Held
<1>8. origin'[o] = jobs[1].request.folder
  BY <1>4, <1>5 DEF TypeInv, TypeOK, ModelTypeOK, Folder
<1>9. Remaining' = Remaining
  BY <1>3 DEF Remaining
<1>10. LoadKind' /\ LoadEnd'
  BY <1>2, <1>3, <1>4 DEF LoadKind, LoadEnd, NoEmptyIndex
<1>11. LoadProgress'
  <2>1. [name |-> Pkg(1)', obj |-> o] \in fileNodes'
    BY <1>3, <1>4 DEF Pkg
  <2> QED BY <1>2, <1>3, <1>7, <1>8, <1>9, <2>1 DEF LoadProgress, PackageSteps, Contents
<1>12. jobs[1].kind = "package" => k = jobs[1].request
  <2> SUFFICES ASSUME jobs[1].kind = "package" PROVE k = jobs[1].request
    OBVIOUS
  <2>1. jobs[1].request.name # Index
    BY <1>2 DEF LoadKind
  <2>2. k \in Contents[jobs[1].request]
    BY <1>2, HeadRemains DEF LoadProgress, PackageSteps
  <2> QED BY <1>2, <2>1, <2>2, ContentsFacts
<1>13. LoadAlone'
  BY <1>2, <1>3, <1>4, <1>12 DEF LoadAlone, Independent, PackageSteps
<1>14. Shown'
  BY <1>4, <1>6 DEF SessionInv, Shown
<1> QED BY <1>2, <1>3, <1>4, <1>10, <1>11, <1>13, <1>14, LoadRuns

\* What fails is what was asked for or what its index names.
LEMMA ParseFailsSession ==
  ASSUME TypeInv, SessionInv, depth = 1, ParseFails(1)
  PROVE  SessionInv'
<1>1. /\ jobs[1] \in Job /\ 1 \in DOMAIN jobs /\ jobs[1].pc = "parse"
      /\ jobs[1].kind \in LoadKinds
      /\ LoadKind /\ LoadProgress /\ LoadAlone /\ LoadEnd
  BY LoadFacts DEF ParseFails, LoadSteps, PackageSteps
<1>2. /\ jobs'[1].kind = jobs[1].kind /\ jobs'[1].request = jobs[1].request
      /\ jobs'[1].ok = jobs[1].ok
      /\ jobs'[1].pc = IF Independent(1) THEN "ready" ELSE "undo"
  BY <1>1 DEF ParseFails, Job
<1>3. UNCHANGED contentVars /\ depth' = 1
  BY DEF ParseFails, PackageFails, treeVars, flagVars, windowVars, contentVars
<1>4. UNCHANGED <<Held, treeNodes>> /\ Bare' = Bare /\ Shown'
  BY <1>3, SameContent DEF SessionInv
<1>5. OwnError'
  <2>1. m_szLastError' = [folder |-> Folder(1), name |-> Pkg(1)]
    BY DEF ParseFails, PackageFails
  <2>2. m_szLastError' \in Contents[jobs[1].request]
    BY <1>1, <2>1, HeadRemains DEF LoadProgress, PackageSteps
  <2> QED BY <1>2, <2>2 DEF OwnError, Contents
<1>6. jobs[1].kind = "package" => Bare
  BY <1>1 DEF LoadAlone
<1>7. ~jobs[1].ok /\ (NoEmptyIndex => ~m_bIsIndexLoaded)
  BY <1>1 DEF LoadEnd
<1>8. LoadKind' /\ LoadProgress' /\ LoadAlone' /\ LoadEnd'
  BY <1>1, <1>2, <1>3, <1>4, <1>5, <1>6, <1>7 DEF LoadKind, LoadProgress, LoadAlone, LoadEnd,
     Independent, LoadKinds, PackageSteps, contentVars, NoEmptyIndex
<1> QED BY <1>1, <1>2, <1>3, <1>4, <1>8, LoadRuns

\* The package goes from what remains to what is held.
LEMMA PublishSession ==
  ASSUME TypeInv, QuietInv, SessionInv, depth = 1, Publish(1)
  PROVE  SessionInv'
<1> DEFINE p == Pkg(1)
           o == jobs[1].obj
           k == [folder |-> jobs[1].request.folder, name |-> p]
<1>1. /\ jobs[1] \in Job /\ 1 \in DOMAIN jobs /\ jobs[1].pc = "publish" /\ o \in Objs
      /\ jobs[1].kind \in LoadKinds /\ p \in Pkgs
      /\ LoadKind /\ LoadProgress /\ LoadAlone /\ LoadEnd
  BY LoadFacts, AtFacts, WindowAssumption DEF Publish, LoadSteps, PackageSteps, JobShape
<1>2. /\ jobs'[1].kind = jobs[1].kind /\ jobs'[1].request = jobs[1].request
      /\ jobs'[1].todo = jobs[1].todo /\ jobs'[1].ok = jobs[1].ok
      /\ jobs'[1].pc = "loaded"
  <2>1. jobs' = [jobs EXCEPT ![1].pc = "loaded", ![1].obj = NoObj]
    BY DEF Publish
  <2> QED BY <1>1, <2>1 DEF Job
<1>3. /\ m_PkgFiles' = [m_PkgFiles EXCEPT ![p] = o]
      /\ m_CurrentParentPath' = IF Independent(1) THEN Folder(1) ELSE m_CurrentParentPath
      /\ UNCHANGED <<fileNodes, origin, m_CurFileProps, m_bIsIndexLoaded, depth>>
  BY DEF Publish, PublishPackage, treeVars, flagVars, windowVars
<1>4. m_PkgFiles \in [Pkgs -> Objs \cup {NoObj}] /\ m_PkgFiles[p] = NoObj /\ o # NoObj
  BY <1>1, HeadRemains, NamesAssumption
     DEF QuietInv, ToLoad, PackageSteps, TypeInv, TypeOK, ModelTypeOK
<1>5. LoadedPkgs' = LoadedPkgs \cup {p} /\ p \notin LoadedPkgs
  BY <1>1, <1>3, <1>4 DEF LoadedPkgs
<1>6. /\ m_PkgFiles'[p] = o
      /\ \A q \in LoadedPkgs : m_PkgFiles'[q] = m_PkgFiles[q]
  BY <1>1, <1>3, <1>4, <1>5 DEF LoadedPkgs
<1>7. Held' = Held \cup {k}
  <2>1. origin[o] = jobs[1].request.folder
    BY <1>1 DEF LoadProgress
  <2> QED BY <1>3, <1>5, <1>6, <2>1 DEF Held
<1>8. Shown'
  <2>1. [name |-> p, obj |-> o] \in fileNodes
    BY <1>1 DEF LoadProgress
  <2>2. LoadedFiles' = LoadedFiles \cup {[name |-> p, obj |-> o]}
    BY <1>5, <1>6 DEF LoadedFiles
  <2> QED BY <1>3, <2>1, <2>2 DEF SessionInv, Shown
<1>9. Remaining' = Remaining /\ k \in Remaining /\ Pkg(1)' = p
  BY <1>1, <1>2, HeadRemains DEF Remaining, PackageSteps, Folder, Pkg
<1>10. LoadProgress'
  <2>1. Contents[jobs[1].request] = Held \cup Remaining
    BY <1>1 DEF LoadProgress, PackageSteps
  <2> QED BY <1>2, <1>7, <1>9, <2>1 DEF LoadProgress, Contents
<1>11. LoadKind' /\ LoadAlone' /\ LoadEnd'
  BY <1>1, <1>2, <1>3 DEF LoadKind, LoadAlone, LoadEnd, Independent, Folder, PackageSteps,
     NoEmptyIndex
<1> QED BY <1>1, <1>2, <1>3, <1>8, <1>10, <1>11, LoadRuns

\* LoadPackage returns: a package alone is complete, an index goes on with
\* the next package or wraps up.
LEMMA LoadedSession ==
  ASSUME TypeInv, SessionInv, depth = 1, Loaded(1)
  PROVE  SessionInv'
<1> DEFINE s == jobs[1].todo
           r == jobs[1].request
<1>1. /\ jobs[1] \in Job /\ 1 \in DOMAIN jobs /\ jobs[1].pc = "loaded" /\ JobShape(jobs[1])
      /\ jobs[1].kind \in LoadKinds /\ r \in Request
      /\ LoadKind /\ LoadProgress /\ LoadAlone /\ LoadEnd
  BY LoadFacts DEF Loaded, LoadSteps, PackageSteps
<1>2. /\ jobs'[1].kind = jobs[1].kind /\ jobs'[1].request = r
      /\ jobs'[1].todo = Tail(s) /\ jobs'[1].ok = Independent(1)
      /\ jobs'[1].pc = IF Independent(1) THEN "ready" ELSE IF Len(s) > 1 THEN "call" ELSE "wrapUp"
  BY <1>1 DEF Loaded, Job
<1>3. /\ m_bGenerated' = TRUE /\ depth' = 1
      /\ UNCHANGED <<m_DirectoryNodes, fileNodes, m_PkgFiles, origin, m_CurrentParentPath,
                     m_CurFileProps, m_bIsIndexLoaded>>
  BY DEF Loaded, PackageLoaded, treeVars, windowVars
<1>4. Held' = Held /\ LoadedFiles' = LoadedFiles
  BY <1>3, SameHeld
<1>5. Shown'
  BY <1>3, <1>4 DEF SessionInv, Shown
<1>6. /\ s \in Seq(Pkgs) /\ s # <<>> /\ Pkg(1) = s[1] /\ Len(s) \in Nat /\ Len(s) >= 1
      /\ Len(Tail(s)) = Len(s) - 1 /\ \A i \in 1..Len(Tail(s)) : Tail(s)[i] = s[i + 1]
  <2>1. s \in Seq(Pkgs) /\ s # <<>> /\ Pkg(1) = s[1] /\ 1 \in 1..Len(s)
    BY <1>1, HeadRemains DEF Job, JobShape, PackageSteps
  <2>2. Len(s) \in Nat
    BY <2>1, LenProperties
  <2> QED BY <2>1, <2>2, HeadTailProperties
<1>7. Contents[r] = Held \cup Remaining'
  <2>1. [folder |-> r.folder, name |-> s[1]] \in Held /\ Contents[r] = Held \cup Remaining
    BY <1>1, <1>6 DEF LoadProgress, PackageSteps
  <2>2. Remaining' = {[folder |-> r.folder, name |-> s[i + 1]] : i \in 1..Len(Tail(s))}
    <3>1. Remaining' = {[folder |-> r.folder, name |-> Tail(s)[i]] : i \in 1..Len(Tail(s))}
      BY <1>2 DEF Remaining
    <3> QED BY <3>1, <1>6
  <2>3. Remaining = {[folder |-> r.folder, name |-> s[i]] : i \in 1..Len(s)}
    BY DEF Remaining
  <2>4. Remaining' \subseteq Remaining
    BY <1>6, <2>2, <2>3
  <2>5. ASSUME NEW i \in 1..Len(s), i # 1
        PROVE  [folder |-> r.folder, name |-> s[i]] \in Remaining'
    <3>1. i - 1 \in 1..Len(Tail(s)) /\ (i - 1) + 1 = i
      BY <1>6, <2>5
    <3> QED BY <2>2, <3>1
  <2>6. Remaining \subseteq {[folder |-> r.folder, name |-> s[1]]} \cup Remaining'
    BY <2>3, <2>5
  <2> QED BY <2>1, <2>4, <2>6
<1>8. Len(s) <= 1 => Remaining' = {}
  BY <1>2, <1>6 DEF Remaining
<1>9. Held # {}
  BY <1>1 DEF LoadProgress
<1>10. Len(s) <= 1 => Held = Contents[r]
  BY <1>7, <1>8
<1>11. LoadKind'
  BY <1>1, <1>2 DEF LoadKind, Independent, LoadKinds
<1>12. LoadProgress'
  <2>1. jobs'[1].pc = "wrapUp" => Held = Contents[r]
    BY <1>2, <1>6, <1>10
  <2>2. jobs'[1].pc = "wrapUp" => Held' = Contents'[jobs'[1].request] /\ (m_bGenerated' <=> Held' # {})
    BY <1>2, <1>3, <1>4, <1>9, <2>1 DEF Contents
  <2>3. Contents'[jobs'[1].request] = Held' \cup Remaining'
    BY <1>2, <1>4, <1>7 DEF Contents
  <2>4. jobs'[1].pc \in {"ready", "call", "wrapUp"} /\ m_bGenerated'
    BY <1>2, <1>3
  <2> QED BY <2>2, <2>3, <2>4 DEF LoadProgress
<1>13. LoadAlone'
  BY <1>1, <1>2 DEF LoadAlone, Independent, PackageSteps
<1>14. LoadEnd'
  <2>1. CASE jobs[1].kind # "package"
    BY <1>1, <1>2, <1>3, <2>1 DEF LoadEnd, Independent, NoEmptyIndex
  <2>2. CASE jobs[1].kind = "package"
    <3>1. /\ Len(s) = 1 /\ m_CurFileProps = {r} /\ m_CurrentParentPath = r.folder
          /\ r.name # Index /\ (NoEmptyIndex => ~m_bIsIndexLoaded)
      BY <1>1, <2>2 DEF LoadAlone, LoadKind, LoadEnd, PackageSteps
    <3>2. Held = {r} /\ Contents[r] = {r}
      BY <1>1, <1>10, <3>1, ContentsFacts
    <3>3. Complete(jobs[1].request)'
      BY <1>1, <1>2, <1>3, <1>4, <3>1, <3>2 DEF Complete, NoEmptyIndex, Contents
    <3> QED BY <1>2, <2>2, <3>3 DEF LoadEnd, Independent
  <2> QED BY <2>1, <2>2
<1> QED BY <1>1, <1>2, <1>3, <1>5, <1>11, <1>12, <1>13, <1>14, LoadRuns

\* The index is read: all its packages remain.
LEMMA ReadIndexSession ==
  ASSUME TypeInv, SessionInv, depth = 1, ReadIndex(1)
  PROVE  SessionInv'
<1> DEFINE r == jobs[1].request
           s == IndexOf[Folder(1)]
<1>1. /\ jobs[1] \in Job /\ 1 \in DOMAIN jobs /\ jobs[1].pc = "read"
      /\ jobs[1].kind \in LoadKinds /\ r \in Request /\ Folder(1) \in Folders
      /\ LoadKind /\ LoadProgress /\ LoadAlone /\ LoadEnd
  BY LoadFacts DEF ReadIndex, LoadSteps, PackageSteps
<1>2. /\ jobs'[1].kind = jobs[1].kind /\ jobs'[1].request = r
      /\ jobs'[1].todo = s /\ jobs'[1].ok = jobs[1].ok
      /\ jobs'[1].pc = IF s = <<>> THEN "wrapUp" ELSE "call"
  BY <1>1 DEF ReadIndex, Job
<1>3. UNCHANGED contentVars /\ depth' = 1
  BY DEF ReadIndex, modelVars, windowVars, contentVars
<1>4. UNCHANGED <<Held, treeNodes>> /\ Bare' = Bare /\ Shown'
  BY <1>3, SameContent DEF SessionInv
<1>5. Bare /\ jobs[1].kind = "index" /\ r.name = Index
  BY <1>1 DEF LoadProgress, LoadKind
<1>6. Contents[r] = Remaining'
  <2>1. Contents[r] = {[folder |-> r.folder, name |-> IndexOf[r.folder][i]] : i \in 1..Len(IndexOf[r.folder])}
    BY <1>1, <1>5, ContentsFacts
  <2>2. s = IndexOf[r.folder]
    BY DEF Folder
  <2>3. Remaining' = {[folder |-> r.folder, name |-> s[i]] : i \in 1..Len(s)}
    BY <1>2 DEF Remaining
  <2> QED BY <2>1, <2>2, <2>3
<1>7. Held' = {} /\ treeNodes' = {} /\ ~m_bGenerated' /\ (NoEmptyIndex => ~m_bIsIndexLoaded')
  BY <1>4, <1>5 DEF Bare, NoEmptyIndex
<1>8. s = <<>> => Contents[r] = {}
  BY <1>2, <1>6 DEF Remaining
<1>9. LoadKind' /\ LoadAlone' /\ LoadEnd'
  BY <1>1, <1>2, <1>5, <1>7 DEF LoadKind, LoadAlone, LoadEnd, NoEmptyIndex
<1>10. LoadProgress'
  BY <1>2, <1>6, <1>7, <1>8 DEF LoadProgress, PackageSteps, Contents
<1> QED BY <1>1, <1>2, <1>3, <1>4, <1>9, <1>10, LoadRuns

\* The index cannot be read, and the error names it.
LEMMA ReadIndexFailsSession ==
  ASSUME TypeInv, SessionInv, depth = 1, ReadIndexFails(1)
  PROVE  SessionInv'
<1>1. /\ jobs[1] \in Job /\ 1 \in DOMAIN jobs /\ jobs[1].pc = "read"
      /\ jobs[1].kind \in LoadKinds /\ jobs[1].request \in Request
      /\ LoadKind /\ LoadProgress /\ LoadAlone /\ LoadEnd
  BY LoadFacts DEF ReadIndexFails, LoadSteps, PackageSteps
<1>2. /\ jobs'[1].kind = jobs[1].kind /\ jobs'[1].request = jobs[1].request
      /\ jobs'[1].ok = jobs[1].ok /\ jobs'[1].pc = "ready"
  BY <1>1 DEF ReadIndexFails, Job
<1>3. UNCHANGED contentVars /\ depth' = 1
  BY DEF ReadIndexFails, IndexUnreadable, treeVars, flagVars, windowVars, contentVars
<1>4. UNCHANGED <<Held, treeNodes>> /\ Bare' = Bare /\ Shown'
  BY <1>3, SameContent DEF SessionInv
<1>5. Bare /\ jobs[1].kind = "index" /\ jobs[1].request.name = Index /\ ~jobs[1].ok
  BY <1>1 DEF LoadProgress, LoadKind, LoadEnd
<1>6. m_szLastError' = jobs[1].request
  BY <1>1, <1>5 DEF ReadIndexFails, IndexUnreadable, Request, Folder
<1>7. OwnError'
  BY <1>2, <1>6 DEF OwnError
<1>8. LoadKind' /\ LoadProgress' /\ LoadAlone' /\ LoadEnd'
  BY <1>1, <1>2, <1>4, <1>5, <1>7 DEF LoadKind, LoadProgress, LoadAlone, LoadEnd, PackageSteps
<1> QED BY <1>1, <1>2, <1>3, <1>4, <1>8, LoadRuns

\* A package of the index failed: what was loaded before it goes.
LEMMA UndoIndexSession ==
  ASSUME TypeInv, SessionInv, depth = 1, UndoIndex(1)
  PROVE  SessionInv'
<1>1. /\ jobs[1] \in Job /\ 1 \in DOMAIN jobs /\ jobs[1].pc = "undo"
      /\ jobs[1].kind \in LoadKinds
      /\ LoadKind /\ LoadProgress /\ LoadAlone /\ LoadEnd
  BY LoadFacts DEF UndoIndex, LoadSteps, PackageSteps
<1>2. /\ jobs'[1].kind = jobs[1].kind /\ jobs'[1].request = jobs[1].request
      /\ jobs'[1].ok = jobs[1].ok /\ jobs'[1].pc = "ready"
  BY <1>1 DEF UndoIndex, Job
<1>3. Bare' /\ Shown'
  BY ResetIsBare DEF UndoIndex
<1>4. m_szLastError' = m_szLastError /\ depth' = 1
  BY DEF UndoIndex, ResetModel, windowVars
<1>5. OwnError' /\ jobs[1].kind = "index" /\ ~jobs[1].ok
  BY <1>1, <1>2, <1>4 DEF LoadEnd, LoadKind, OwnError, Contents
<1>6. LoadKind' /\ LoadProgress' /\ LoadAlone' /\ LoadEnd'
  BY <1>1, <1>2, <1>3, <1>5 DEF LoadKind, LoadProgress, LoadAlone, LoadEnd, PackageSteps
<1> QED BY <1>1, <1>2, <1>3, <1>4, <1>6, LoadRuns

\* All packages of the index are there: properties, folder and flag follow.
LEMMA WrapUpSession ==
  ASSUME TypeInv, SessionInv, depth = 1, WrapUpIndex(1)
  PROVE  SessionInv'
<1>1. /\ jobs[1] \in Job /\ 1 \in DOMAIN jobs /\ jobs[1].pc = "wrapUp"
      /\ jobs[1].kind \in LoadKinds /\ jobs[1].request \in Request
      /\ LoadKind /\ LoadProgress /\ LoadAlone /\ LoadEnd
  BY LoadFacts DEF WrapUpIndex, LoadSteps, PackageSteps
<1>2. /\ jobs'[1].kind = jobs[1].kind /\ jobs'[1].request = jobs[1].request
      /\ jobs'[1].ok = TRUE /\ jobs'[1].pc = "ready"
  BY <1>1 DEF WrapUpIndex, Job
<1>3. /\ m_CurFileProps' = Held /\ m_CurrentParentPath' = jobs[1].request.folder
      /\ m_bIsIndexLoaded' = TRUE /\ depth' = 1
      /\ UNCHANGED <<m_DirectoryNodes, fileNodes, m_PkgFiles, origin, m_bGenerated>>
  BY DEF WrapUpIndex, IndexLoaded, Held, treeVars, windowVars, Folder
<1>4. Held' = Held /\ LoadedFiles' = LoadedFiles
  BY <1>3, SameHeld
<1>5. treeNodes' = treeNodes
  BY <1>3 DEF treeNodes, dirNodes
<1>6. Shown'
  BY <1>3, <1>4 DEF SessionInv, Shown
<1>7. /\ jobs[1].kind = "index" /\ jobs[1].request.name = Index
      /\ Held = Contents[jobs[1].request]
      /\ m_bGenerated <=> Held # {}
      /\ ~m_bGenerated => treeNodes = {}
  BY <1>1 DEF LoadKind, LoadProgress
<1>8. Complete(jobs[1].request)'
  BY <1>1, <1>2, <1>3, <1>4, <1>5, <1>7 DEF Complete, Contents
<1>9. LoadKind' /\ LoadProgress' /\ LoadAlone' /\ LoadEnd'
  BY <1>1, <1>2, <1>7, <1>8 DEF LoadKind, LoadProgress, LoadAlone, LoadEnd, PackageSteps
<1> QED BY <1>1, <1>2, <1>3, <1>6, <1>9, LoadRuns

-----------------------------------------------------------------------------
\* The thread of an extraction.

\* An extraction leaves the model and the window as they are, and stays one.
LEMMA ExtractionSteps ==
  ASSUME TypeInv, depth = 1,
         Capture(1) \/ CaptureThrows(1) \/ WritePackage(1) \/ WriteFails(1) \/ WriteThrows(1)
  PROVE  /\ UNCHANGED modelVars /\ UNCHANGED windowVars
         /\ jobs'[1].kind = jobs[1].kind /\ jobs'[1].request = jobs[1].request
         /\ ~Capture(1) => jobs'[1].path = jobs[1].path /\ jobs'[1].pkgs \subseteq jobs[1].pkgs
         /\ jobs[1].kind \notin LoadKinds /\ jobs[1] \in Job /\ 1 \in DOMAIN jobs
<1>1. jobs[1] \in Job /\ 1 \in DOMAIN jobs /\ JobShape(jobs[1])
  BY WindowAssumption DEF TypeInv, TypeOK, Shape
<1>2. UNCHANGED modelVars /\ UNCHANGED windowVars
  BY DEF Capture, CaptureThrows, WritePackage, WriteFails, WriteThrows
<1>3. jobs[1].pc \in {"capture", "write"}
  BY DEF Capture, CaptureThrows, WritePackage, WriteFails, WriteThrows, At
<1>4. jobs[1].kind \notin LoadKinds
  BY <1>1, <1>3 DEF JobShape, LoadKinds, ExtractKinds
<1>5. /\ jobs'[1].kind = jobs[1].kind /\ jobs'[1].request = jobs[1].request
      /\ ~Capture(1) => jobs'[1].path = jobs[1].path /\ jobs'[1].pkgs \subseteq jobs[1].pkgs
  <2>1. CASE CaptureThrows(1) \/ WriteFails(1) \/ WriteThrows(1)
    <3>1. PICK step \in {"ready", "thrown"} : jobs' = [jobs EXCEPT ![1].pc = step]
      BY <2>1 DEF CaptureThrows, WriteFails, WriteThrows
    <3> QED BY <1>1, <3>1 DEF Job
  <2>2. CASE WritePackage(1)
    <3>1. PICK k \in jobs[1].pkgs :
            jobs' = [jobs EXCEPT ![1].pkgs = @ \ {k},
                                 ![1].pc   = IF jobs[1].pkgs = {k} THEN "ready" ELSE "write",
                                 ![1].ok   = jobs[1].pkgs = {k}]
      BY <2>2 DEF WritePackage
    <3> QED BY <1>1, <3>1 DEF Job
  <2>3. CASE Capture(1)
    BY <1>1, <2>3 DEF Capture, Job
  <2> QED BY <2>1, <2>2, <2>3
<1> QED BY <1>1, <1>2, <1>4, <1>5

\* At Capture the folder is read once, for all the packages wanted: it is the
\* folder of each of them.
LEMMA CaptureSource ==
  ASSUME TypeInv, SessionInv, depth = 1, Capture(1), NEW k \in jobs'[1].pkgs
  PROVE  origin[k.obj] = jobs'[1].path
<1>1. jobs[1].kind \notin LoadKinds /\ jobs[1] \in Job /\ 1 \in DOMAIN jobs
  BY ExtractionSteps
<1>2. /\ jobs'[1].path = m_CurrentParentPath
      /\ jobs'[1].pkgs = {[name |-> p, obj |-> m_PkgFiles[p]] : p \in Owners(1)}
      /\ Owners(1) \subseteq LoadedPkgs
  BY <1>1 DEF Capture, Job
<1>3. PICK p \in LoadedPkgs : k = [name |-> p, obj |-> m_PkgFiles[p]]
  BY <1>2
<1>4. [folder |-> origin[k.obj], name |-> p] \in Held
  BY <1>3 DEF Held
<1>5. Complete(title)
  BY <1>1, <1>4 DEF SessionInv, RestInv, LoadWaits, Bare
<1>6. title \in Request /\ [folder |-> origin[k.obj], name |-> p] \in Contents[title]
      /\ m_CurrentParentPath = title.folder
  BY <1>4, <1>5 DEF Complete
<1>7. \A q \in Contents[title] : q.folder = title.folder
  BY <1>6, ContentsFacts
<1> QED BY <1>2, <1>6, <1>7

LEMMA ExtractionSession ==
  ASSUME TypeInv, SessionInv, depth = 1,
         Capture(1) \/ CaptureThrows(1) \/ WritePackage(1) \/ WriteFails(1) \/ WriteThrows(1)
  PROVE  SessionInv'
<1>1. /\ UNCHANGED modelVars /\ UNCHANGED windowVars
      /\ jobs'[1].kind = jobs[1].kind
      /\ jobs[1].kind \notin LoadKinds /\ jobs[1] \in Job /\ 1 \in DOMAIN jobs
  BY ExtractionSteps
<1>2. UNCHANGED contentVars /\ title' = title /\ depth' = 1 /\ origin' = origin
  BY <1>1 DEF modelVars, windowVars, contentVars
<1>3. Bare' = Bare /\ Shown' = Shown /\ UNCHANGED <<Held, treeNodes>>
  BY <1>2, SameContent
<1>4. Complete(title)' = Complete(title)
  BY <1>2, <1>3 DEF contentVars, Complete, NoEmptyIndex, Contents
<1>5. RestInv'
  BY <1>1, <1>3, <1>4 DEF SessionInv, RestInv, LoadWaits
<1>6. SourceInv'
  <2>1. CASE Capture(1)
    BY <1>2, <2>1, CaptureSource DEF SourceInv
  <2>2. CASE ~Capture(1)
    <3>1. jobs'[1].path = jobs[1].path /\ jobs'[1].pkgs \subseteq jobs[1].pkgs
      BY <2>2, ExtractionSteps
    <3> QED BY <1>1, <1>2, <3>1 DEF SessionInv, SourceInv
  <2> QED BY <2>1, <2>2
<1>7. LoadInv'
  BY <1>1 DEF LoadInv
<1> QED BY <1>3, <1>5, <1>6, <1>7 DEF SessionInv

-----------------------------------------------------------------------------
\* The invariant.

\* The one thread there is, which does nothing undefined.
LEMMA WorkerIsFirst ==
  ASSUME TypeInv, QuietInv, NEW d \in 1..MaxDepth, Worker(d)
  PROVE  /\ d = 1 /\ depth = 1
         /\ ~CaptureUndefined(1) /\ ~WriteUndefined(1)
<1>1. d <= depth
  BY DEF Worker, At, CallLoadPackage, Parse, ParseFails, Publish, Loaded, CallLoadIndex,
     ReadIndex, ReadIndexFails, DetectIndexThrows, UndoIndex, WrapUpIndex, Capture,
     CaptureUndefined, CaptureThrows, WritePackage, WriteFails, WriteThrows, WriteUndefined
<1>2. d = 1 /\ depth = 1
  BY <1>1, OneThread
<1> QED BY <1>2, NeverUndefined

LEMMA SessionStep ==
  ~DropsDuringJobs /\ TypeInv /\ QuietInv /\ SessionInv /\ [Next]_vars => SessionInv'
<1> SUFFICES ASSUME ~DropsDuringJobs, TypeInv, QuietInv, SessionInv, [Next]_vars
             PROVE  SessionInv'
  OBVIOUS
<1>1. CASE Handler
  BY <1>1, HandlerSession
<1>2. CASE FinishJob
  BY <1>2, FinishJobSession
<1>3. CASE JobThrows \/ UNCHANGED vars
  <2>1. UNCHANGED contentVars /\ UNCHANGED <<m_szLastError, jobs, depth, title>>
    BY <1>3 DEF JobThrows, vars, modelVars, windowVars, contentVars
  <2> QED BY <2>1, SameSession
<1>4. ASSUME NEW d \in 1..MaxDepth, Worker(d) PROVE SessionInv'
  <2>1. d = 1 /\ depth = 1 /\ ~CaptureUndefined(1) /\ ~WriteUndefined(1)
    BY <1>4, WorkerIsFirst
  <2> QED BY <1>4, <2>1, BeginSession, ParseSession, ParseFailsSession, PublishSession,
       LoadedSession, ReadIndexSession, ReadIndexFailsSession, UndoIndexSession,
       WrapUpSession, ExtractionSession DEF Worker
<1> QED BY <1>1, <1>2, <1>3, <1>4 DEF Next, Stopped

\* Without drops during jobs: what is loaded, and what the window says of it,
\* is all of one request or nothing, and a load that runs is on the way there.
THEOREM SessionInvariant == ~DropsDuringJobs => (Spec => []SessionInv)
<1> SUFFICES ASSUME ~DropsDuringJobs PROVE Spec => []SessionInv
  OBVIOUS
<1>1. TypeInv /\ QuietInv /\ SessionInv /\ [Next]_vars => SessionInv'
  BY SessionStep
<1>2. Spec => []QuietInv
  BY QuietInvariant
<1> QED BY <1>1, <1>2, InitSession, TypeInvariant, PTL DEF Spec

-----------------------------------------------------------------------------
\* Title and properties.

\* The properties are those of what the title names, but while a package
\* loaded alone is parsed and not yet done, and until the handler of a load
\* that succeeded sets the title.  A load that fails touches neither.
PropsInv ==
  \/ m_CurFileProps = Described
  \/ depth = 1 /\ jobs[1].kind = "package" /\ jobs[1].pc \in {"publish", "loaded"}
  \/ depth = 1 /\ jobs[1].kind \in LoadKinds /\ jobs[1].pc = "ready" /\ jobs[1].ok

LEMMA SameProps ==
  ASSUME m_CurFileProps = Described, UNCHANGED <<m_CurFileProps, title>>
  PROVE  PropsInv'
BY DEF PropsInv, Described, Contents

\* No handler touches either, and a job only starts when none runs.
LEMMA HandlerProps ==
  ASSUME ~DropsDuringJobs, TypeInv, QuietInv, PropsInv, Handler
  PROVE  PropsInv'
<1>1. UNCHANGED <<m_CurFileProps, title>>
  BY DEF Handler, OpenPackage, DropPackage, OpenIndex, LoadPackage, Select, OnExtractAll,
     OnExtractClick, Preview, OnQuitButton, StartJob, ResetIfGenerated, ResetModel,
     OnSelectionChanged, modelVars, windowVars
<1>2. CASE OnQuitButton \/ \E n \in treeNodes, toggle \in BOOLEAN : Select(n, toggle)
  <2>1. UNCHANGED <<jobs, depth>>
    BY <1>2 DEF OnQuitButton, Select, windowVars
  <2> QED BY <1>1, <2>1 DEF PropsInv, Described, Contents
<1>3. CASE depth = 0
  BY <1>1, <1>3, SameProps DEF PropsInv
<1>4. (Running /\ (widgetsEnabled \/ archiveEnabled)) => depth = 0
  BY DEF QuietInv, Gate, TypeInv, TypeOK
<1>5. depth = 0 \/ OnQuitButton \/ \E n \in treeNodes, toggle \in BOOLEAN : Select(n, toggle)
  <2>1. (\E folder \in Folders, p \in Pkgs : DropPackage(folder, p)) => depth = 0
    BY DEF DropPackage, Waiting, TypeInv, TypeOK
  <2>2. (\E n \in m_SelectedNodes \cup fileNodes : Preview(n)) => depth = 0
    BY <1>4 DEF Preview
  <2> QED BY <1>4, <2>1, <2>2 DEF Handler, OpenPackage, OpenIndex, OnExtractAll, OnExtractClick
<1> QED BY <1>2, <1>3, <1>5

\* A load that succeeded set the properties of what becomes the title; of any
\* other job both stay.
LEMMA FinishJobProps ==
  ASSUME TypeInv, QuietInv, SessionInv, PropsInv, FinishJob
  PROVE  PropsInv'
<1>1. depth = 1 /\ jobs[1].pc = "ready" /\ m_CurFileProps' = m_CurFileProps
  BY DEF FinishJob, FutureReady, Waiting, QuietInv, Gate, TypeInv, TypeOK, modelVars
<1>2. CASE jobs[1].kind \in LoadKinds /\ jobs[1].ok
  <2>1. Complete(jobs[1].request) /\ title' = jobs[1].request
    BY <1>1, <1>2 DEF SessionInv, LoadInv, LoadEnd, FinishJob
  <2>2. title' # NoRequest /\ m_CurFileProps = Contents[title']
    BY <2>1, NamesAssumption DEF Complete, Request
  <2> QED BY <1>1, <2>2 DEF PropsInv, Described, Contents
<1>3. CASE ~(jobs[1].kind \in LoadKinds /\ jobs[1].ok)
  BY <1>1, <1>3, SameProps DEF PropsInv, FinishJob
<1> QED BY <1>2, <1>3

LEMMA WorkerProps ==
  ASSUME TypeInv, QuietInv, SessionInv, PropsInv, NEW d \in 1..MaxDepth, Worker(d)
  PROVE  PropsInv'
<1>1. d = 1 /\ depth = 1 /\ ~CaptureUndefined(1) /\ ~WriteUndefined(1)
  BY WorkerIsFirst
<1>2. jobs[1] \in Job /\ 1 \in DOMAIN jobs
  BY WindowAssumption DEF TypeInv, TypeOK
<1>3. CASE CallLoadPackage(1) \/ ParseFails(1) \/ CallLoadIndex(1) \/ ReadIndex(1)
           \/ ReadIndexFails(1) \/ DetectIndexThrows(1) \/ UndoIndex(1)
  <2>1. UNCHANGED <<m_CurFileProps, title>>
    BY <1>3 DEF CallLoadPackage, ParseFails, CallLoadIndex, ReadIndex, ReadIndexFails,
       DetectIndexThrows, UndoIndex, SetBusy, PackageFails, IndexUnreadable, ResetModel,
       modelVars, windowVars
  <2>2. jobs[1].pc \in {"call", "parse", "index", "read", "undo"}
    BY <1>3 DEF CallLoadPackage, ParseFails, CallLoadIndex, ReadIndex, ReadIndexFails,
       DetectIndexThrows, UndoIndex, At
  <2> QED BY <2>1, <2>2, SameProps DEF PropsInv
<1>4. CASE Parse(1) \/ Publish(1) \/ Loaded(1)
  <2>1. jobs[1].pc \in {"parse", "publish", "loaded"} /\ title' = title /\ depth' = 1
    BY <1>1, <1>4 DEF Parse, Publish, Loaded, At, windowVars
  <2>2. CASE jobs[1].kind = "package"
    <3>1. CASE Parse(1)
      <4>1. PICK o \in FreeObjs : jobs' = [jobs EXCEPT ![1].pc = "publish", ![1].obj = o]
        BY <3>1 DEF Parse
      <4> QED BY <1>2, <2>1, <2>2, <4>1 DEF PropsInv, Job
    <3>2. CASE Publish(1)
      BY <1>2, <2>1, <2>2, <3>2 DEF Publish, PropsInv, Job
    <3>3. CASE Loaded(1)
      <4>1. jobs'[1].kind = "package" /\ jobs'[1].pc = "ready" /\ jobs'[1].ok
        BY <1>2, <2>2, <3>3 DEF Loaded, Independent, Job
      <4> QED BY <2>1, <4>1 DEF PropsInv, LoadKinds
    <3> QED BY <1>4, <3>1, <3>2, <3>3
  <2>3. CASE jobs[1].kind # "package"
    <3>1. m_CurFileProps' = m_CurFileProps
      BY <1>4, <2>3 DEF Parse, Publish, Loaded, ParsePackage, PublishPackage, PackageLoaded,
         Independent
    <3> QED BY <2>1, <2>3, <3>1, SameProps DEF PropsInv
  <2> QED BY <2>2, <2>3
<1>5. CASE WrapUpIndex(1)
  <2>1. jobs[1].kind \in LoadKinds
    BY <1>1, <1>5, LoadFacts DEF WrapUpIndex, LoadSteps, PackageSteps
  <2>2. jobs'[1].kind = jobs[1].kind /\ jobs'[1].pc = "ready" /\ jobs'[1].ok /\ depth' = 1
    BY <1>1, <1>2, <1>5 DEF WrapUpIndex, Job, windowVars
  <2> QED BY <2>1, <2>2 DEF PropsInv
<1>6. CASE Capture(1) \/ CaptureThrows(1) \/ WritePackage(1) \/ WriteFails(1) \/ WriteThrows(1)
  <2>1. jobs[1].kind \notin LoadKinds /\ UNCHANGED <<m_CurFileProps, title>>
    BY <1>1, <1>6, ExtractionSteps DEF modelVars, windowVars
  <2> QED BY <2>1, SameProps DEF PropsInv, LoadKinds
<1> QED BY <1>1, <1>3, <1>4, <1>5, <1>6 DEF Worker

\* Without drops during jobs, title and properties change together, when a
\* load that succeeded is done.
THEOREM PropsInvariant == ~DropsDuringJobs => (Spec => []PropsInv)
<1> SUFFICES ASSUME ~DropsDuringJobs PROVE Spec => []PropsInv
  OBVIOUS
<1>1. Init => PropsInv
  BY DEF Init, ModelInit, PropsInv, Described
<1>2. TypeInv /\ QuietInv /\ SessionInv /\ PropsInv /\ [Next]_vars => PropsInv'
  <2> SUFFICES ASSUME TypeInv, QuietInv, SessionInv, PropsInv, [Next]_vars PROVE PropsInv'
    OBVIOUS
  <2>1. CASE JobThrows \/ UNCHANGED vars
    <3>1. UNCHANGED <<m_CurFileProps, title, jobs, depth>>
      BY <2>1 DEF JobThrows, vars, modelVars, windowVars
    <3> QED BY <3>1 DEF PropsInv, Described, Contents
  <2> QED BY <2>1, HandlerProps, FinishJobProps, WorkerProps DEF Next, Stopped
<1>3. Spec => []QuietInv /\ []SessionInv
  BY QuietInvariant, SessionInvariant
<1> QED BY <1>1, <1>2, <1>3, TypeInvariant, PTL DEF Spec

-----------------------------------------------------------------------------
\* What follows for the window.

\* With no drops while a job runs, an idle window that holds packages holds
\* those its title names, with folder, tree and, when every index names a
\* package, index flag to match; one without packages has an empty tree; and
\* the properties always describe what the title names, which after a failed
\* load is the archive that was dropped for it.
THEOREM ArchiveIsCoherent == ~DropsDuringJobs => (Spec => []ArchiveCoherent)
<1> SUFFICES ASSUME ~DropsDuringJobs PROVE Spec => []ArchiveCoherent
  OBVIOUS
<1>1. TypeInv /\ QuietInv /\ SessionInv /\ PropsInv => ArchiveCoherent
  <2> SUFFICES ASSUME TypeInv, QuietInv, SessionInv, PropsInv, Idle
               PROVE  /\ m_bGenerated <=> Held # {}
                      /\ m_bGenerated => /\ title # NoRequest
                                         /\ Held = Contents[title]
                                         /\ m_CurrentParentPath = title.folder
                                         /\ fileNodes = LoadedFiles
                      /\ ~m_bGenerated => treeNodes = {}
                      /\ NoEmptyIndex => (m_bIsIndexLoaded <=> m_bGenerated /\ title.name = Index)
                      /\ m_CurFileProps = Described
    BY DEF ArchiveCoherent
  <2>1. depth = 0 /\ ~LoadWaits
    BY DEF Idle, LoadWaits, Waiting, TypeInv, TypeOK
  <2>2. fileNodes = LoadedFiles
    <3>1. Owned /\ LoadedFiles \subseteq fileNodes
      BY DEF QuietInv, SessionInv, Shown
    <3>2. fileNodes \subseteq LoadedFiles
      BY <2>1, <3>1 DEF Owned
    <3> QED BY <3>1, <3>2
  <2>3. m_CurFileProps = Described
    BY <2>1 DEF PropsInv
  <2>4. CASE Bare
    BY <2>3, <2>4 DEF Bare
  <2>5. CASE Complete(title)
    <3>1. title \in Request /\ title # NoRequest
      BY <2>5, NamesAssumption DEF Complete, Request
    <3>2. NoEmptyIndex => Held # {}
      BY <2>5, <3>1, ContentsFacts DEF Complete
    <3> QED BY <2>2, <2>3, <2>5, <3>1, <3>2 DEF Complete
  <2> QED BY <2>1, <2>4, <2>5 DEF SessionInv, RestInv
<1>2. Spec => []QuietInv /\ []SessionInv /\ []PropsInv
  BY QuietInvariant, SessionInvariant, PropsInvariant
<1> QED BY <1>1, <1>2, TypeInvariant, PTL

\* With no drops while a job runs, the folder an extraction captured is the
\* one each package it goes through was loaded from.
THEOREM SourceIsExtracted == ~DropsDuringJobs => (Spec => []ExtractsFromSource)
<1> SUFFICES ASSUME ~DropsDuringJobs PROVE Spec => []ExtractsFromSource
  OBVIOUS
<1>1. TypeInv /\ QuietInv /\ SessionInv => ExtractsFromSource
  <2> SUFFICES ASSUME TypeInv, QuietInv, SessionInv, NEW d \in 1..MaxDepth, Extracting(d),
                      NEW k \in jobs[d].pkgs
               PROVE  origin[k.obj] = jobs[d].path
    BY DEF ExtractsFromSource
  <2>1. d = 1 /\ depth = 1
    BY OneThread DEF Extracting
  <2> QED BY <2>1 DEF Extracting, SessionInv, SourceInv
<1>2. Spec => []QuietInv /\ []SessionInv
  BY QuietInvariant, SessionInvariant
<1> QED BY <1>1, <1>2, TypeInvariant, PTL

\* With no drops while a job runs, the error shown for a failed load is about
\* what was asked for or a package its index names.
THEOREM ErrorIsOfTheLoad == ~DropsDuringJobs => (Spec => []LoadErrorIsOwn)
<1> SUFFICES ASSUME ~DropsDuringJobs PROVE Spec => []LoadErrorIsOwn
  OBVIOUS
<1>1. TypeInv /\ QuietInv /\ SessionInv => LoadErrorIsOwn
  <2> SUFFICES ASSUME TypeInv, QuietInv, SessionInv, NEW d \in 1..MaxDepth, d <= depth,
                      jobs[d].kind \in LoadKinds, jobs[d].pc = "ready", ~jobs[d].ok
               PROVE  /\ m_szLastError # NoRequest
                      /\ m_szLastError.folder = jobs[d].request.folder
                      /\ \/ m_szLastError = jobs[d].request
                         \/ /\ jobs[d].kind = "index"
                            /\ \E i \in 1..Len(IndexOf[Folder(d)]) :
                                  m_szLastError.name = IndexOf[Folder(d)][i]
    BY DEF LoadErrorIsOwn
  <2>1. d = 1 /\ depth = 1
    BY OneThread
  <2> DEFINE r == jobs[1].request
  <2>2. r \in Request /\ LoadKind /\ m_szLastError \in {r} \cup Contents[r]
    BY <2>1 DEF SessionInv, LoadInv, LoadEnd, OwnError, TypeInv, Shape, JobShape
  <2>3. m_szLastError \in Request
    <3>1. Contents[r] \subseteq Request
      BY <2>2, IndexAssumption, ElementOfSeq, ContentsFacts DEF Request
    <3> QED BY <2>2, <3>1
  <2>4. m_szLastError # NoRequest
    BY <2>3, NamesAssumption DEF Request
  <2>5. m_szLastError.folder = r.folder
    BY <2>2, ContentsFacts
  <2>6. CASE m_szLastError = r
    BY <2>1, <2>4, <2>6
  <2>7. CASE m_szLastError # r
    <3>1. r.name = Index /\ jobs[1].kind = "index"
      BY <2>2, <2>7, ContentsFacts DEF LoadKind
    <3>2. PICK i \in 1..Len(IndexOf[r.folder]) :
            m_szLastError = [folder |-> r.folder, name |-> IndexOf[r.folder][i]]
      BY <2>2, <2>7, <3>1, ContentsFacts
    <3> QED BY <2>1, <2>4, <2>5, <3>1, <3>2 DEF Folder
  <2> QED BY <2>6, <2>7
<1>2. Spec => []QuietInv /\ []SessionInv
  BY QuietInvariant, SessionInvariant
<1> QED BY <1>1, <1>2, TypeInvariant, PTL

-----------------------------------------------------------------------------
\* MainWindow implements ArchiveSession.

\* What the session sees of the window: the archive on offer and the request.
offered == IF LoadWaits THEN {} ELSE Held
asked   == IF LoadWaits THEN jobs[1].request ELSE NoRequest

\* A step that leaves both, and the process running or not, is hidden.
LEMMA Hidden ==
  ASSUME UNCHANGED <<offered, asked, status>>
  PROVE  UNCHANGED Session!vars
BY DEF Session!vars, offered, asked, Running

\* A handler that starts a load asks for it.
LEMMA LoadAsks ==
  ASSUME TypeInv, Running, depth = 0, NEW job, StartJob(job), job.kind \in LoadKinds,
         job.request \in Request
  PROVE  \E r \in Request : Session!Ask(r)
<1>1. depth' = 1 /\ jobs'[1] = job /\ status' = status
  BY WindowAssumption DEF StartJob, TypeInv, TypeOK
<1>2. ~LoadWaits /\ LoadWaits'
  BY <1>1 DEF LoadWaits, Waiting
<1>3. Session!Ask(job.request)
  BY <1>1, <1>2 DEF Session!Ask, Running
<1> QED BY <1>3

\* An extraction that starts is hidden.
LEMMA ExtractionHidden ==
  ASSUME TypeInv, depth = 0, NEW job, StartJob(job), job.kind \in ExtractKinds,
         UNCHANGED modelVars
  PROVE  UNCHANGED Session!vars
<1>1. depth' = 1 /\ jobs'[1] = job /\ status' = status
  BY WindowAssumption DEF StartJob, TypeInv, TypeOK
<1>2. ~LoadWaits /\ ~LoadWaits'
  BY <1>1 DEF LoadWaits, Waiting, LoadKinds, ExtractKinds
<1>3. Held' = Held
  BY SameHeld DEF modelVars
<1> QED BY <1>1, <1>2, <1>3, Hidden DEF offered, asked

LEMMA HandlerImplements ==
  ASSUME ~DropsDuringJobs, TypeInv, QuietInv, Handler
  PROVE  (\E r \in Request : Session!Ask(r)) \/ Session!End \/ UNCHANGED Session!vars
<1>1. (Running /\ (widgetsEnabled \/ archiveEnabled)) => depth = 0
  BY DEF QuietInv, Gate, TypeInv, TypeOK
<1>2. ASSUME NEW folder \in Folders, NEW p \in Pkgs,
             OpenPackage(folder, p) \/ DropPackage(folder, p)
      PROVE  \E r \in Request : Session!Ask(r)
  <2> DEFINE job == [NoJob EXCEPT !.kind = "package", !.pc = "call", !.todo = <<p>>,
                                  !.request = [folder |-> folder, name |-> p]]
  <2>1. depth = 0 /\ Running /\ StartJob(job)
    BY <1>1, <1>2 DEF OpenPackage, DropPackage, LoadPackage, Waiting, TypeInv, TypeOK
  <2>2. job.kind \in LoadKinds /\ job.request \in Request
    BY DEF NoJob, LoadKinds, Request
  <2> HIDE DEF job
  <2> QED BY <2>1, <2>2, LoadAsks
<1>3. ASSUME NEW folder \in Folders, OpenIndex(folder)
      PROVE  \E r \in Request : Session!Ask(r)
  <2> DEFINE job == [NoJob EXCEPT !.kind = "index", !.pc = "index",
                                  !.request = [folder |-> folder, name |-> Index]]
  <2>1. depth = 0 /\ Running /\ StartJob(job)
    BY <1>1, <1>3 DEF OpenIndex
  <2>2. job.kind \in LoadKinds /\ job.request \in Request
    BY DEF NoJob, LoadKinds, Request
  <2> HIDE DEF job
  <2> QED BY <2>1, <2>2, LoadAsks
<1>4. CASE \E n \in treeNodes, toggle \in BOOLEAN : Select(n, toggle)
  <2>1. UNCHANGED <<m_PkgFiles, origin, jobs, depth, status>>
    BY <1>4 DEF Select, OnSelectionChanged, windowVars
  <2> QED BY <2>1, SameHeld, Hidden DEF offered, asked, LoadWaits, Waiting
<1>5. CASE OnQuitButton
  <2>1. UNCHANGED <<m_PkgFiles, origin, jobs, depth>> /\ Running /\ ~Running'
    BY <1>5 DEF OnQuitButton, modelVars, Running
  <2>2. Held' = Held /\ LoadWaits' = LoadWaits
    BY <2>1, SameHeld DEF LoadWaits, Waiting
  <2> QED BY <2>1, <2>2 DEF Session!End
<1>6. CASE OnExtractAll
  <2> DEFINE job == [NoJob EXCEPT !.kind = "extractAll", !.pc = "capture"]
  <2>1. job.kind \in ExtractKinds
    BY DEF NoJob, ExtractKinds
  <2>2. StartJob(job) /\ UNCHANGED modelVars /\ depth = 0
    BY <1>1, <1>6 DEF OnExtractAll
  <2> HIDE DEF job
  <2> QED BY <2>1, <2>2, ExtractionHidden
<1>7. CASE OnExtractClick
  <2> DEFINE job == [NoJob EXCEPT !.kind = "extract", !.pc = "capture"]
  <2>1. job.kind \in ExtractKinds
    BY DEF NoJob, ExtractKinds
  <2>2. StartJob(job) /\ UNCHANGED modelVars /\ depth = 0
    BY <1>1, <1>7 DEF OnExtractClick
  <2> HIDE DEF job
  <2> QED BY <2>1, <2>2, ExtractionHidden
<1>8. ASSUME NEW n \in m_SelectedNodes \cup fileNodes, Preview(n)
      PROVE  UNCHANGED Session!vars
  <2> DEFINE job == [NoJob EXCEPT !.kind = "preview", !.pc = "capture", !.nodes = {n}]
  <2>1. job.kind \in ExtractKinds
    BY DEF NoJob, ExtractKinds
  <2>2. StartJob(job) /\ UNCHANGED modelVars /\ depth = 0
    BY <1>1, <1>8 DEF Preview
  <2> HIDE DEF job
  <2> QED BY <2>1, <2>2, ExtractionHidden
<1> QED BY <1>2, <1>3, <1>4, <1>5, <1>6, <1>7, <1>8 DEF Handler

\* The end of a load is the answer: everything asked for, or nothing.  The
\* end of an extraction is hidden.
LEMMA FinishJobImplements ==
  ASSUME TypeInv, QuietInv, SessionInv, FinishJob
  PROVE  Session!Answer \/ UNCHANGED Session!vars
<1>1. depth = 1 /\ depth' = 0 /\ jobs[1].pc = "ready" /\ Running /\ status' = status
  BY DEF FinishJob, FutureReady, Waiting, QuietInv, Gate, TypeInv, TypeOK
<1>2. Held' = Held /\ ~LoadWaits'
  BY <1>1, SameHeld DEF FinishJob, modelVars, LoadWaits, Waiting
<1>3. CASE jobs[1].kind \in LoadKinds
  <2>1. LoadWaits
    BY <1>1, <1>3 DEF LoadWaits, Waiting
  <2>2. jobs[1].request \in Request /\ jobs[1].request # NoRequest
    BY <1>3, WindowAssumption, NamesAssumption DEF TypeInv, Shape, JobShape, Request
  <2>3. Held \in {Contents[jobs[1].request], {}}
    BY <1>1, <1>3 DEF SessionInv, LoadInv, LoadEnd, Complete, Bare
  <2>4. Session!Answer
    BY <1>1, <1>2, <2>1, <2>2, <2>3 DEF Session!Answer, Running
  <2> QED BY <2>4
<1>4. CASE jobs[1].kind \notin LoadKinds
  <2>1. ~LoadWaits
    BY <1>4 DEF LoadWaits
  <2> QED BY <1>1, <1>2, <2>1, Hidden DEF offered, asked
<1> QED BY <1>3, <1>4

\* While a load runs the session sees none of what its thread does.
LEMMA LoadStepHidden ==
  ASSUME TypeInv, depth = 1,
         \/ CallLoadPackage(1) \/ Parse(1) \/ ParseFails(1) \/ Publish(1) \/ Loaded(1)
         \/ CallLoadIndex(1) \/ ReadIndex(1) \/ ReadIndexFails(1) \/ DetectIndexThrows(1)
         \/ UndoIndex(1) \/ WrapUpIndex(1)
  PROVE  UNCHANGED Session!vars
<1>1. PICK step \in LoadSteps : At(1, step)
  BY DEF CallLoadPackage, Parse, ParseFails, Publish, Loaded, CallLoadIndex, ReadIndex,
     ReadIndexFails, DetectIndexThrows, UndoIndex, WrapUpIndex, LoadSteps, PackageSteps
<1>2. jobs[1] \in Job /\ 1 \in DOMAIN jobs /\ jobs[1].kind \in LoadKinds
  BY <1>1, AtFacts, WindowAssumption DEF TypeInv, TypeOK
<1>3. UNCHANGED windowVars
  BY DEF CallLoadPackage, Parse, ParseFails, Publish, Loaded, CallLoadIndex, ReadIndex,
     ReadIndexFails, DetectIndexThrows, UndoIndex, WrapUpIndex
<1>4. jobs'[1].kind = jobs[1].kind /\ jobs'[1].request = jobs[1].request
  <2>1. CASE CallLoadPackage(1) \/ ParseFails(1) \/ CallLoadIndex(1) \/ ReadIndexFails(1)
             \/ DetectIndexThrows(1)
    BY <1>2, <2>1 DEF CallLoadPackage, ParseFails, CallLoadIndex, ReadIndexFails,
       DetectIndexThrows, Job
  <2>2. CASE Parse(1) \/ Publish(1)
    <3>1. PICK next \in {"publish", "loaded"}, o \in Objs \cup {NoObj} :
            jobs' = [jobs EXCEPT ![1].pc = next, ![1].obj = o]
      BY <2>2 DEF Parse, Publish, FreeObjs
    <3> QED BY <1>2, <3>1 DEF Job
  <2>3. CASE Loaded(1)
    BY <1>2, <2>3 DEF Loaded, Job
  <2>4. CASE ReadIndex(1) \/ UndoIndex(1)
    BY <1>2, <2>4 DEF ReadIndex, UndoIndex, Job
  <2>5. CASE WrapUpIndex(1)
    BY <1>2, <2>5 DEF WrapUpIndex, Job
  <2> QED BY <2>1, <2>2, <2>3, <2>4, <2>5
<1>5. LoadWaits /\ LoadWaits' /\ status' = status
  BY <1>2, <1>3, <1>4 DEF windowVars, LoadWaits, Waiting
<1> QED BY <1>4, <1>5, Hidden DEF offered, asked

LEMMA ExtractionStepHidden ==
  ASSUME TypeInv, depth = 1,
         Capture(1) \/ CaptureThrows(1) \/ WritePackage(1) \/ WriteFails(1) \/ WriteThrows(1)
  PROVE  UNCHANGED Session!vars
<1>1. /\ UNCHANGED modelVars /\ UNCHANGED windowVars
      /\ jobs'[1].kind = jobs[1].kind /\ jobs[1].kind \notin LoadKinds
  BY ExtractionSteps
<1>2. Held' = Held
  BY <1>1, SameHeld DEF modelVars
<1>3. ~LoadWaits /\ ~LoadWaits' /\ status' = status
  BY <1>1 DEF LoadWaits, windowVars
<1> QED BY <1>2, <1>3, Hidden DEF offered, asked

\* future.get() throws, and the process ends with the request unanswered.
LEMMA ThrowEnds ==
  ASSUME JobThrows
  PROVE  Session!End
<1>1. UNCHANGED <<m_PkgFiles, origin, jobs, depth>> /\ Running /\ ~Running'
  BY DEF JobThrows, modelVars, Running
<1>2. Held' = Held /\ LoadWaits' = LoadWaits
  BY <1>1, SameHeld DEF LoadWaits, Waiting
<1> QED BY <1>1, <1>2 DEF Session!End

LEMMA StepImplements ==
  ~DropsDuringJobs /\ TypeInv /\ QuietInv /\ SessionInv /\ [Next]_vars
    => [Session!Next]_(Session!vars)
<1> SUFFICES ASSUME ~DropsDuringJobs, TypeInv, QuietInv, SessionInv, [Next]_vars
             PROVE  Session!Next \/ UNCHANGED Session!vars
  OBVIOUS
<1>1. CASE Handler
  BY <1>1, HandlerImplements DEF Session!Next
<1>2. CASE FinishJob
  BY <1>2, FinishJobImplements DEF Session!Next
<1>3. CASE JobThrows
  BY <1>3, ThrowEnds DEF Session!Next
<1>4. ASSUME NEW d \in 1..MaxDepth, Worker(d) PROVE UNCHANGED Session!vars
  <2>1. d = 1 /\ depth = 1 /\ ~CaptureUndefined(1) /\ ~WriteUndefined(1)
    BY <1>4, WorkerIsFirst
  <2> QED BY <1>4, <2>1, LoadStepHidden, ExtractionStepHidden DEF Worker
<1>5. CASE UNCHANGED vars
  <2>1. UNCHANGED <<m_PkgFiles, origin, jobs, depth, status>>
    BY <1>5 DEF vars, modelVars, windowVars
  <2> QED BY <2>1, SameHeld, Hidden DEF offered, asked, LoadWaits, Waiting
<1> QED BY <1>1, <1>2, <1>3, <1>4, <1>5 DEF Next, Stopped

\* With no drops while a job runs, every step of the window is a step of the
\* session or hidden: a request replaces the archive, and is answered with
\* all of its packages or none, whatever fails in between.
THEOREM SessionIsImplemented == ~DropsDuringJobs => (Spec => SessionImplemented)
<1> SUFFICES ASSUME ~DropsDuringJobs PROVE Spec => SessionImplemented
  OBVIOUS
<1>1. Init => Session!Init
  <2> SUFFICES ASSUME Init PROVE Session!Init
    OBVIOUS
  <2>1. ~LoadWaits /\ Held = {} /\ Running
    BY DEF Init, ModelInit, LoadWaits, Waiting, Held, LoadedPkgs, Running
  <2> QED BY <2>1 DEF Session!Init
<1>2. TypeInv /\ QuietInv /\ SessionInv /\ [Next]_vars => [Session!Next]_(Session!vars)
  BY StepImplements
<1>3. Spec => []QuietInv /\ []SessionInv
  BY QuietInvariant, SessionInvariant
<1> QED BY <1>1, <1>2, <1>3, TypeInvariant, PTL DEF Spec, SessionImplemented, Session!Spec
=============================================================================
