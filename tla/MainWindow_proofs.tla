-------------------------- MODULE MainWindow_proofs --------------------------
(***************************************************************************)
(* Theorems about MainWindow, for any packages, folders, indexes and depth *)
(* of nesting.                                                             *)
(***************************************************************************)
EXTENDS MainWindow, SequenceTheorems, TLAPS

-----------------------------------------------------------------------------
\* Type correctness and what the steps of a job rely on.

PackageSteps == {"call", "parse", "publish", "loaded"}
LoadSteps == PackageSteps \cup {"index", "read", "undo", "wrapUp"}

\* A job at a step of LoadPackage has a package to load, after Parse also the
\* object it was parsed into; only load jobs make these steps, and only
\* extractions those of an extraction.
JobShape(j) ==
  /\ j.pc \in PackageSteps => j.todo # <<>>
  /\ j.pc = "publish" => j.obj \in Objs
  /\ j.pc \in LoadSteps => j.kind \in LoadKinds
  /\ j.pc \in {"capture", "write"} => j.kind \in ExtractKinds
  /\ j.kind \in LoadKinds => j.request \in Request

Shape ==
  /\ \A d \in 1..MaxDepth :
        JobShape(jobs[d]) /\ (jobs[d].pc = "publish" => origin[jobs[d].obj] \in Folders)
  /\ \A p \in Pkgs : m_PkgFiles[p] # NoObj => origin[m_PkgFiles[p]] \in Folders
  /\ overrideCursor = depth

TypeInv == TypeOK /\ Shape

\* The constants, and a few facts about sequences of packages.
LEMMA SeqFacts ==
  ASSUME NEW s \in Seq(Pkgs), s # <<>>
  PROVE  Head(s) \in Pkgs /\ Tail(s) \in Seq(Pkgs) /\ (Len(s) > 1 => Tail(s) # <<>>)
<1>0. \A t \in Seq(Pkgs) : Len(t) # 0 => t # <<>>
  OBVIOUS
<1>1. Head(s) \in Pkgs /\ Tail(s) \in Seq(Pkgs) /\ Len(Tail(s)) = Len(s) - 1
  BY HeadTailProperties
<1>2. ASSUME Len(s) > 1 PROVE Tail(s) # <<>>
  <2>1. Len(Tail(s)) # 0
    BY <1>1, <1>2, LenProperties
  <2> QED BY <1>0, <1>1, <2>1
<1> QED BY <1>1, <1>2

\* The initial state.
LEMMA InitTypeInv == Init => TypeInv
<1> SUFFICES ASSUME Init PROVE TypeInv
  OBVIOUS
<1>1. ModelTypeOK
  BY NamesAssumption DEF Init, ModelInit, ModelTypeOK
<1>2. jobs \in [1..MaxDepth -> Job]
  <2>1. NoJob \in Job
    BY EmptySeq DEF NoJob, Job
  <2> QED BY <2>1 DEF Init
<1>3. TypeOK
  <2>1. depth \in 0..MaxDepth /\ overrideCursor \in Nat
    BY WindowAssumption DEF Init
  <2>2. /\ widgetsEnabled \in BOOLEAN /\ archiveEnabled \in BOOLEAN
        /\ title \in Request \cup {NoRequest}
        /\ status \in {"running", "ended", "terminated", "undefined"}
    BY DEF Init
  <2> QED BY <1>1, <1>2, <2>1, <2>2 DEF TypeOK
<1>4. Shape
  BY NamesAssumption DEF Init, ModelInit, NoJob, Shape, JobShape, PackageSteps, LoadSteps, LoadKinds
<1> QED BY <1>3, <1>4 DEF TypeInv

-----------------------------------------------------------------------------
\* What a step of one job leaves of the types, whatever it does to the model:
\* the jobs stay typed, and the window is not touched.
LEMMA WorkerTypes ==
  ASSUME TypeInv, NEW d \in 1..MaxDepth, NEW j \in Job,
         jobs' = [jobs EXCEPT ![d] = j], UNCHANGED windowVars, ModelTypeOK',
         JobShape(j), j.pc = "publish" => origin'[j.obj] \in Folders, \A p \in Pkgs : m_PkgFiles'[p] # NoObj => origin'[m_PkgFiles'[p]] \in Folders,
         \A o \in Objs : origin[o] \in Folders => origin'[o] \in Folders
  PROVE  TypeInv'
<1>1. TypeOK'
  BY DEF TypeInv, TypeOK, windowVars
<1>2. \A e \in 1..MaxDepth :
        JobShape(jobs'[e]) /\ (jobs'[e].pc = "publish" => origin'[jobs'[e].obj] \in Folders)
  BY DEF TypeInv, TypeOK, Shape, JobShape
<1>3. Shape'
  BY <1>2 DEF TypeInv, Shape, windowVars
<1> QED BY <1>1, <1>3 DEF TypeInv
-----------------------------------------------------------------------------
\* The handlers.

\* A packages map that is empty, or the same, points to packages with an origin.
OriginsKnown == \A p \in Pkgs : m_PkgFiles[p] # NoObj => origin[m_PkgFiles[p]] \in Folders

LEMMA ResetTypes ==
  ASSUME TypeInv, ResetModel
  PROVE  ModelTypeOK' /\ OriginsKnown' /\ origin' = origin
  BY NamesAssumption DEF TypeInv, TypeOK, ModelTypeOK, ResetModel, FreeNodes,
     ClearSelection, ClearFlags, OriginsKnown

LEMMA UnchangedTypes ==
  ASSUME TypeInv, UNCHANGED modelVars
  PROVE  ModelTypeOK' /\ OriginsKnown' /\ origin' = origin
  BY DEF TypeInv, TypeOK, ModelTypeOK, Shape, OriginsKnown, modelVars

LEMMA ResetIfTypes ==
  ASSUME TypeInv, ResetIfGenerated
  PROVE  ModelTypeOK' /\ OriginsKnown' /\ origin' = origin
  BY ResetTypes, UnchangedTypes DEF ResetIfGenerated

LEMMA StartJobTypes ==
  ASSUME TypeInv, NEW job \in Job, StartJob(job), JobShape(job), job.pc # "publish",
         ModelTypeOK', OriginsKnown', origin' = origin
  PROVE  TypeInv'
<1> USE WindowAssumption DEF StartJob, TakeWindow
<1>1. jobs' \in [1..MaxDepth -> Job] /\ depth' \in 0..MaxDepth /\ overrideCursor' \in Nat
  BY DEF TypeInv, TypeOK
<1>2. widgetsEnabled' \in BOOLEAN /\ archiveEnabled' \in BOOLEAN
  OBVIOUS
<1>3. TypeOK'
  BY <1>1, <1>2 DEF TypeInv, TypeOK
<1>4. \A e \in 1..MaxDepth :
        JobShape(jobs'[e]) /\ (jobs'[e].pc = "publish" => origin'[jobs'[e].obj] \in Folders)
  BY DEF TypeInv, TypeOK, Shape
<1>5. Shape'
  BY <1>4 DEF TypeInv, TypeOK, Shape, OriginsKnown
<1> QED BY <1>3, <1>5 DEF TypeInv

\* The jobs the handlers start.
LEMMA NewJobs ==
  /\ \A r \in Request, s \in Seq(Pkgs) :
       [NoJob EXCEPT !.kind = "package", !.pc = "call", !.todo = s, !.request = r] \in Job
  /\ \A r \in Request :
       [NoJob EXCEPT !.kind = "index", !.pc = "index", !.request = r] \in Job
  /\ \A k \in ExtractKinds : [NoJob EXCEPT !.kind = k, !.pc = "capture"] \in Job
  /\ \A k \in ExtractKinds, S \in SUBSET Node :
       [NoJob EXCEPT !.kind = k, !.pc = "capture", !.nodes = S] \in Job
  BY EmptySeq DEF NoJob, Job, Steps, LoadKinds

LEMMA LoadPackageTypes ==
  ASSUME TypeInv, NEW folder \in Folders, NEW p \in Pkgs, LoadPackage(folder, p)
  PROVE  TypeInv'
<1> DEFINE job == [NoJob EXCEPT !.kind = "package", !.pc = "call", !.todo = <<p>>,
                                !.request = [folder |-> folder, name |-> p]]
<1>1. <<p>> \in Seq(Pkgs) /\ <<p>> # <<>>
  OBVIOUS
<1>2. [folder |-> folder, name |-> p] \in Request
  BY DEF Request
<1>3. job \in Job
  BY <1>1, <1>2, NewJobs DEF LoadKinds
<1>4. JobShape(job) /\ job.pc # "publish"
  BY <1>1, <1>2 DEF JobShape, NoJob, PackageSteps, LoadSteps, LoadKinds
<1>5. ResetIfGenerated /\ StartJob(job)
  BY DEF LoadPackage
<1> HIDE DEF job
<1> QED BY <1>3, <1>4, <1>5, ResetIfTypes, StartJobTypes

LEMMA OpenIndexTypes ==
  ASSUME TypeInv, NEW folder \in Folders, OpenIndex(folder)
  PROVE  TypeInv'
<1> DEFINE job == [NoJob EXCEPT !.kind = "index", !.pc = "index",
                                !.request = [folder |-> folder, name |-> Index]]
<1>1. [folder |-> folder, name |-> Index] \in Request
  BY DEF Request
<1>2. job \in Job
  BY <1>1, NewJobs
<1>3. JobShape(job) /\ job.pc # "publish"
  BY <1>1 DEF JobShape, NoJob, PackageSteps, LoadSteps, LoadKinds
<1>4. ResetIfGenerated /\ StartJob(job)
  BY DEF OpenIndex
<1> HIDE DEF job
<1> QED BY <1>2, <1>3, <1>4, ResetIfTypes, StartJobTypes

\* An extraction starts: the model stays as it is.
LEMMA StartExtractionTypes ==
  ASSUME TypeInv, NEW job \in Job, job.pc = "capture", job.kind \in ExtractKinds,
         UNCHANGED modelVars, StartJob(job)
  PROVE  TypeInv'
<1>1. JobShape(job)
  BY DEF JobShape, PackageSteps, LoadSteps, LoadKinds, ExtractKinds
<1> QED BY <1>1, UnchangedTypes, StartJobTypes

LEMMA HandlerTypes ==
  ASSUME TypeInv, Handler
  PROVE  TypeInv'
<1>1. CASE \E folder \in Folders, p \in Pkgs : OpenPackage(folder, p) \/ DropPackage(folder, p)
  BY <1>1, LoadPackageTypes DEF OpenPackage, DropPackage
<1>2. CASE \E folder \in Folders : OpenIndex(folder)
  BY <1>2, OpenIndexTypes
<1>3. ASSUME NEW n \in treeNodes, NEW toggle \in BOOLEAN, Select(n, toggle)
      PROVE  TypeInv'
  <2>1. treeNodes \in SUBSET Node
    BY NamesAssumption DEF TypeInv, TypeOK, ModelTypeOK, treeNodes, dirNodes, Node
  <2>2. /\ m_SelectedNodes' \in SUBSET Node
        /\ UNCHANGED <<m_DirectoryNodes, fileNodes, m_PkgFiles, origin,
                       m_CurrentParentPath, m_CurFileProps, m_szLastError,
                       m_bGenerated, m_bIsBusy, m_bIsIndexLoaded, jobs, windowVars>>
    BY <1>3, <2>1 DEF Select, OnSelectionChanged, TypeInv, TypeOK, ModelTypeOK
  <2>3. ModelTypeOK'
    BY <2>2 DEF TypeInv, TypeOK, ModelTypeOK
  <2> QED BY <2>2, <2>3 DEF TypeInv, TypeOK, Shape, JobShape, windowVars
<1>4. CASE OnExtractAll
  <2> DEFINE job == [NoJob EXCEPT !.kind = "extractAll", !.pc = "capture"]
  <2>1. job \in Job /\ job.pc = "capture" /\ job.kind \in ExtractKinds
    BY NewJobs DEF NoJob, ExtractKinds
  <2>2. StartJob(job) /\ UNCHANGED modelVars
    BY <1>4 DEF OnExtractAll
  <2> HIDE DEF job
  <2> QED BY <2>1, <2>2, StartExtractionTypes
<1>5. CASE OnExtractClick
  <2> DEFINE job == [NoJob EXCEPT !.kind = "extract", !.pc = "capture"]
  <2>1. job \in Job /\ job.pc = "capture" /\ job.kind \in ExtractKinds
    BY NewJobs DEF NoJob, ExtractKinds
  <2>2. StartJob(job) /\ UNCHANGED modelVars
    BY <1>5 DEF OnExtractClick
  <2> HIDE DEF job
  <2> QED BY <2>1, <2>2, StartExtractionTypes
<1>6. ASSUME NEW n \in m_SelectedNodes \cup fileNodes, Preview(n)
      PROVE  TypeInv'
  <2> DEFINE job == [NoJob EXCEPT !.kind = "preview", !.pc = "capture", !.nodes = {n}]
  <2>1. {n} \in SUBSET Node
    BY DEF TypeInv, TypeOK, ModelTypeOK
  <2>2. job \in Job /\ job.pc = "capture" /\ job.kind \in ExtractKinds
    BY <2>1, NewJobs DEF NoJob, ExtractKinds
  <2>3. StartJob(job) /\ UNCHANGED modelVars
    BY <1>6 DEF Preview
  <2> HIDE DEF job
  <2> QED BY <2>2, <2>3, StartExtractionTypes
<1>7. CASE OnQuitButton
  <2>1. status' \in {"running", "ended", "terminated", "undefined"}
    BY <1>7 DEF OnQuitButton
  <2> QED BY <1>7, <2>1, UnchangedTypes DEF OnQuitButton, TypeInv, TypeOK, Shape, JobShape, OriginsKnown
<1> QED BY <1>1, <1>2, <1>3, <1>4, <1>5, <1>6, <1>7 DEF Handler

LEMMA FinishJobTypes ==
  ASSUME TypeInv, FinishJob
  PROVE  TypeInv'
<1>1. depth \in 1..MaxDepth
  BY WindowAssumption DEF FinishJob, Waiting, TypeInv, TypeOK
<1>2. depth' \in 0..MaxDepth /\ overrideCursor' \in Nat /\ overrideCursor' = depth'
  BY <1>1, WindowAssumption DEF FinishJob, GiveBackWindow, TypeInv, TypeOK, Shape
<1>3. NoJob \in Job
  BY EmptySeq DEF NoJob, Job
<1>4. jobs' \in [1..MaxDepth -> Job] /\ UNCHANGED modelVars /\ UNCHANGED status
  BY <1>1, <1>3 DEF FinishJob, TypeInv, TypeOK
<1>5. title' \in Request \cup {NoRequest}
  BY <1>1 DEF FinishJob, TypeInv, TypeOK, Job
<1>6. widgetsEnabled' \in BOOLEAN /\ archiveEnabled' \in BOOLEAN
  BY DEF FinishJob, GiveBackWindow
<1>7. TypeOK'
  BY <1>2, <1>4, <1>5, <1>6, UnchangedTypes DEF TypeInv, TypeOK
<1>8. \A e \in 1..MaxDepth :
        JobShape(jobs'[e]) /\ (jobs'[e].pc = "publish" => origin'[jobs'[e].obj] \in Folders)
  <2>1. JobShape(NoJob) /\ NoJob.pc # "publish"
    BY DEF JobShape, NoJob, PackageSteps, LoadSteps, LoadKinds
  <2>2. \A e \in 1..MaxDepth : jobs'[e] = NoJob \/ jobs'[e] = jobs[e]
    BY <1>1 DEF FinishJob, TypeInv, TypeOK
  <2> QED BY <1>4, <2>1, <2>2 DEF TypeInv, Shape, modelVars
<1> QED BY <1>2, <1>4, <1>7, <1>8, UnchangedTypes DEF TypeInv, Shape, OriginsKnown
-----------------------------------------------------------------------------
\* The threads.

\* The facts about job d that every step of its thread starts from.
LEMMA AtFacts ==
  ASSUME TypeInv, NEW d \in 1..MaxDepth, NEW step, At(d, step)
  PROVE  /\ jobs[d] \in Job /\ jobs[d].pc = step /\ JobShape(jobs[d])
         /\ step \in LoadSteps => /\ Folder(d) \in Folders /\ jobs[d].kind \in LoadKinds
                                  /\ jobs[d].request \in Request
         /\ step \in PackageSteps => Pkg(d) \in Pkgs
  BY SeqFacts DEF At, TypeInv, TypeOK, Shape, JobShape, Job, Folder, Request, Pkg,
     PackageSteps, LoadSteps

LEMMA LoadStepTypes ==
  ASSUME TypeInv, NEW d \in 1..MaxDepth,
         CallLoadPackage(d) \/ Parse(d) \/ ParseFails(d) \/ Publish(d) \/ Loaded(d)
  PROVE  TypeInv'
<1>1. CASE CallLoadPackage(d)
  <2> DEFINE j == [jobs[d] EXCEPT !.pc = "parse"]
  <2>1. j \in Job /\ JobShape(j) /\ j.pc # "publish"
    BY <1>1, AtFacts DEF CallLoadPackage, Job, JobShape, Steps, PackageSteps, LoadSteps
  <2>2. /\ jobs' = [jobs EXCEPT ![d] = j] /\ UNCHANGED windowVars
        /\ origin' = origin /\ m_PkgFiles' = m_PkgFiles
    BY <1>1 DEF CallLoadPackage, SetBusy
  <2>3. ModelTypeOK'
    BY <1>1 DEF CallLoadPackage, SetBusy, TypeInv, TypeOK, ModelTypeOK, treeVars, flagVars
  <2> HIDE DEF j
  <2> QED BY <2>1, <2>2, <2>3, WorkerTypes DEF TypeInv, Shape
<1>2. CASE Parse(d)
  <2>1. PICK o \in FreeObjs :
          /\ ParsePackage(Folder(d), Pkg(d), o, Independent(d))
          /\ jobs' = [jobs EXCEPT ![d].pc = "publish", ![d].obj = o]
    BY <1>2 DEF Parse
  <2> DEFINE j == [jobs[d] EXCEPT !.pc = "publish", !.obj = o]
  <2>2. /\ o \in Objs /\ jobs[d] \in Job /\ jobs[d].pc = "parse" /\ JobShape(jobs[d])
        /\ Folder(d) \in Folders /\ jobs[d].kind \in LoadKinds /\ Pkg(d) \in Pkgs
    BY <1>2, AtFacts DEF Parse, FreeObjs, PackageSteps, LoadSteps
  <2>3. origin' \in [Objs -> Folders \cup {NoFolder}] /\ origin'[o] \in Folders
        /\ \A x \in Objs : origin[x] \in Folders => origin'[x] \in Folders
    BY <2>1, <2>2 DEF ParsePackage, TypeInv, TypeOK, ModelTypeOK
  <2>4. j \in Job /\ JobShape(j) /\ origin'[j.obj] \in Folders
    BY <2>2, <2>3 DEF Job, JobShape, Steps, PackageSteps, LoadSteps
  <2>5. m_DirectoryNodes' \in [Dirs -> Objs \cup {NoObj}]
    BY <2>1, <2>2 DEF ParsePackage, CreateChildren, TypeInv, TypeOK, ModelTypeOK
  <2>6. fileNodes' \in SUBSET Node /\ m_CurFileProps' \in SUBSET Request
    BY <2>1, <2>2 DEF ParsePackage, CreateChildren, TypeInv, TypeOK, ModelTypeOK, Node, Request
  <2>7. ModelTypeOK' /\ m_PkgFiles' = m_PkgFiles
    BY <2>1, <2>3, <2>5, <2>6 DEF ParsePackage, TypeInv, TypeOK, ModelTypeOK, flagVars
  <2>8. \A p \in Pkgs : m_PkgFiles'[p] # NoObj => origin'[m_PkgFiles'[p]] \in Folders
    BY <2>3, <2>7 DEF TypeInv, TypeOK, ModelTypeOK, Shape
  <2>9. jobs' = [jobs EXCEPT ![d] = j] /\ UNCHANGED windowVars
    BY <1>2, <2>1 DEF Parse
  <2> HIDE DEF j
  <2> QED BY <2>3, <2>4, <2>7, <2>8, <2>9, WorkerTypes
<1>3. CASE ParseFails(d)
  <2> DEFINE j == [jobs[d] EXCEPT !.pc = IF Independent(d) THEN "ready" ELSE "undo"]
  <2>1. /\ jobs[d] \in Job /\ JobShape(jobs[d]) /\ jobs[d].kind \in LoadKinds
        /\ Folder(d) \in Folders /\ Pkg(d) \in Pkgs
    BY <1>3, AtFacts DEF ParseFails, PackageSteps, LoadSteps
  <2>2. j \in Job /\ JobShape(j) /\ j.pc # "publish"
    BY <2>1 DEF Job, JobShape, Steps, PackageSteps, LoadSteps
  <2>3. /\ jobs' = [jobs EXCEPT ![d] = j] /\ UNCHANGED windowVars
        /\ origin' = origin /\ m_PkgFiles' = m_PkgFiles
    BY <1>3 DEF ParseFails, PackageFails
  <2>4. ModelTypeOK'
    BY <1>3, <2>1 DEF ParseFails, PackageFails, TypeInv, TypeOK, ModelTypeOK, treeVars,
       flagVars, Request
  <2> HIDE DEF j
  <2> QED BY <2>2, <2>3, <2>4, WorkerTypes DEF TypeInv, Shape
<1>4. CASE Publish(d)
  <2> DEFINE j == [jobs[d] EXCEPT !.pc = "loaded", !.obj = NoObj]
  <2>1. /\ jobs[d] \in Job /\ JobShape(jobs[d]) /\ jobs[d].pc = "publish"
        /\ jobs[d].kind \in LoadKinds /\ Folder(d) \in Folders /\ Pkg(d) \in Pkgs
    BY <1>4, AtFacts DEF Publish, PackageSteps, LoadSteps
  <2>2. j \in Job /\ JobShape(j) /\ j.pc # "publish"
    BY <2>1 DEF Job, JobShape, Steps, PackageSteps, LoadSteps
  <2>3. jobs[d].obj \in Objs /\ origin[jobs[d].obj] \in Folders
    BY <2>1 DEF JobShape, TypeInv, Shape
  <2>4. /\ jobs' = [jobs EXCEPT ![d] = j] /\ UNCHANGED windowVars /\ origin' = origin
        /\ m_PkgFiles' = [m_PkgFiles EXCEPT ![Pkg(d)] = jobs[d].obj]
    BY <1>4 DEF Publish, PublishPackage
  <2>5. ModelTypeOK'
    BY <1>4, <2>1, <2>3 DEF Publish, PublishPackage, TypeInv, TypeOK, ModelTypeOK, treeVars, flagVars
  <2>6. \A p \in Pkgs : m_PkgFiles'[p] # NoObj => origin'[m_PkgFiles'[p]] \in Folders
    BY <2>1, <2>3, <2>4 DEF TypeInv, TypeOK, ModelTypeOK, Shape
  <2> HIDE DEF j
  <2> QED BY <2>2, <2>4, <2>5, <2>6, WorkerTypes
<1>5. CASE Loaded(d)
  <2> DEFINE next == IF Independent(d) THEN "ready"
                     ELSE IF Len(jobs[d].todo) > 1 THEN "call" ELSE "wrapUp"
             j == [jobs[d] EXCEPT !.todo = Tail(jobs[d].todo), !.pc = next, !.ok = Independent(d)]
  <2>1. /\ jobs[d] \in Job /\ JobShape(jobs[d]) /\ jobs[d].pc = "loaded"
        /\ jobs[d].kind \in LoadKinds
    BY <1>5, AtFacts DEF Loaded, PackageSteps, LoadSteps
  <2>2. /\ jobs[d].todo \in Seq(Pkgs) /\ Tail(jobs[d].todo) \in Seq(Pkgs)
        /\ Len(jobs[d].todo) > 1 => Tail(jobs[d].todo) # <<>>
    BY <2>1, SeqFacts DEF Job, JobShape, PackageSteps
  <2>3. next \in {"ready", "call", "wrapUp"} /\ (next = "call" => Len(jobs[d].todo) > 1)
    OBVIOUS
  <2>4. Independent(d) \in BOOLEAN
    BY DEF Independent
  <2> HIDE DEF next
  <2>5. j \in Job
    BY <2>1, <2>2, <2>3, <2>4 DEF Job, Steps
  <2>6. JobShape(j) /\ j.pc # "publish"
    BY <2>1, <2>2, <2>3 DEF Job, JobShape, PackageSteps, LoadSteps
  <2>7. /\ jobs' = [jobs EXCEPT ![d] = j] /\ UNCHANGED windowVars
        /\ origin' = origin /\ m_PkgFiles' = m_PkgFiles
    BY <1>5 DEF Loaded, PackageLoaded, next
  <2>8. ModelTypeOK'
    BY <1>5 DEF Loaded, PackageLoaded, TypeInv, TypeOK, ModelTypeOK, treeVars
  <2> HIDE DEF j
  <2> QED BY <2>5, <2>6, <2>7, <2>8, WorkerTypes DEF TypeInv, Shape
<1> QED BY <1>1, <1>2, <1>3, <1>4, <1>5
\* A step that changes only a job, which does not go on to publish.
LEMMA OnlyJobTypes ==
  ASSUME TypeInv, NEW d \in 1..MaxDepth, NEW j \in Job, JobShape(j), j.pc # "publish",
         jobs' = [jobs EXCEPT ![d] = j], UNCHANGED <<modelVars, windowVars>>
  PROVE  TypeInv'
<1>1. ModelTypeOK' /\ OriginsKnown' /\ origin' = origin
  BY UnchangedTypes
<1> QED BY <1>1, WorkerTypes DEF OriginsKnown

LEMMA IndexStepTypes ==
  ASSUME TypeInv, NEW d \in 1..MaxDepth,
         \/ CallLoadIndex(d) \/ ReadIndex(d) \/ ReadIndexFails(d)
         \/ DetectIndexThrows(d) \/ UndoIndex(d) \/ WrapUpIndex(d)
  PROVE  TypeInv'
<1>1. CASE CallLoadIndex(d)
  <2> DEFINE j == [jobs[d] EXCEPT !.pc = "read"]
  <2>1. j \in Job /\ JobShape(j) /\ j.pc # "publish"
    BY <1>1, AtFacts DEF CallLoadIndex, Job, JobShape, Steps, PackageSteps, LoadSteps
  <2>2. /\ jobs' = [jobs EXCEPT ![d] = j] /\ UNCHANGED windowVars
        /\ origin' = origin /\ m_PkgFiles' = m_PkgFiles
    BY <1>1 DEF CallLoadIndex, SetBusy
  <2>3. ModelTypeOK'
    BY <1>1 DEF CallLoadIndex, SetBusy, TypeInv, TypeOK, ModelTypeOK, treeVars, flagVars
  <2> HIDE DEF j
  <2> QED BY <2>1, <2>2, <2>3, WorkerTypes DEF TypeInv, Shape
<1>2. CASE ReadIndex(d)
  <2> DEFINE next == IF IndexOf[Folder(d)] = <<>> THEN "wrapUp" ELSE "call"
             j == [jobs[d] EXCEPT !.pc = next, !.todo = IndexOf[Folder(d)]]
  <2>1. /\ jobs[d] \in Job /\ JobShape(jobs[d]) /\ jobs[d].pc = "read"
        /\ jobs[d].kind \in LoadKinds /\ Folder(d) \in Folders
    BY <1>2, AtFacts DEF ReadIndex, LoadSteps
  <2>2. /\ IndexOf[Folder(d)] \in Seq(Pkgs)
        /\ next = "wrapUp" \/ (next = "call" /\ IndexOf[Folder(d)] # <<>>)
    BY <2>1, IndexAssumption
  <2> HIDE DEF next
  <2>3. j \in Job /\ JobShape(j) /\ j.pc # "publish"
    BY <2>1, <2>2 DEF Job, JobShape, Steps, PackageSteps, LoadSteps
  <2>4. jobs' = [jobs EXCEPT ![d] = j] /\ UNCHANGED <<modelVars, windowVars>>
    BY <1>2 DEF ReadIndex, next
  <2> HIDE DEF j
  <2> QED BY <2>3, <2>4, OnlyJobTypes
<1>3. CASE ReadIndexFails(d)
  <2> DEFINE j == [jobs[d] EXCEPT !.pc = "ready"]
  <2>1. /\ jobs[d] \in Job /\ JobShape(jobs[d]) /\ Folder(d) \in Folders
    BY <1>3, AtFacts DEF ReadIndexFails, LoadSteps
  <2>2. j \in Job /\ JobShape(j) /\ j.pc # "publish"
    BY <2>1 DEF Job, JobShape, Steps, PackageSteps, LoadSteps
  <2>3. /\ jobs' = [jobs EXCEPT ![d] = j] /\ UNCHANGED windowVars
        /\ origin' = origin /\ m_PkgFiles' = m_PkgFiles
    BY <1>3 DEF ReadIndexFails, IndexUnreadable
  <2>4. ModelTypeOK'
    BY <1>3, <2>1 DEF ReadIndexFails, IndexUnreadable, TypeInv, TypeOK, ModelTypeOK,
       treeVars, flagVars, Request
  <2> HIDE DEF j
  <2> QED BY <2>2, <2>3, <2>4, WorkerTypes DEF TypeInv, Shape
<1>4. CASE DetectIndexThrows(d)
  <2> DEFINE j == [jobs[d] EXCEPT !.pc = "thrown"]
  <2>1. j \in Job /\ JobShape(j) /\ j.pc # "publish"
    BY <1>4, AtFacts DEF DetectIndexThrows, Job, JobShape, Steps, PackageSteps, LoadSteps
  <2>2. jobs' = [jobs EXCEPT ![d] = j] /\ UNCHANGED <<modelVars, windowVars>>
    BY <1>4 DEF DetectIndexThrows
  <2> HIDE DEF j
  <2> QED BY <2>1, <2>2, OnlyJobTypes
<1>5. CASE UndoIndex(d)
  <2> DEFINE j == [jobs[d] EXCEPT !.pc = "ready", !.todo = <<>>]
  <2>1. jobs[d] \in Job /\ JobShape(jobs[d])
    BY <1>5, AtFacts DEF UndoIndex
  <2>2. j \in Job /\ JobShape(j) /\ j.pc # "publish"
    <3>1. j \in Job
      BY <2>1, EmptySeq DEF Job, Steps
    <3>2. j.pc = "ready" /\ j.kind = jobs[d].kind /\ j.request = jobs[d].request
      BY <2>1 DEF Job
    <3> HIDE DEF j
    <3> QED BY <2>1, <3>1, <3>2 DEF JobShape, PackageSteps, LoadSteps
  <2>3. jobs' = [jobs EXCEPT ![d] = j] /\ UNCHANGED windowVars
    BY <1>5 DEF UndoIndex
  <2>4. ModelTypeOK' /\ OriginsKnown' /\ origin' = origin
    BY <1>5, ResetTypes DEF UndoIndex
  <2> HIDE DEF j
  <2> QED BY <2>2, <2>3, <2>4, WorkerTypes DEF OriginsKnown
<1>6. CASE WrapUpIndex(d)
  <2> DEFINE j == [jobs[d] EXCEPT !.pc = "ready", !.ok = TRUE]
  <2>1. jobs[d] \in Job /\ JobShape(jobs[d]) /\ Folder(d) \in Folders
    BY <1>6, AtFacts DEF WrapUpIndex, LoadSteps
  <2>2. j \in Job /\ JobShape(j) /\ j.pc # "publish"
    <3>1. j \in Job
      BY <2>1 DEF Job, Steps
    <3>2. j.pc = "ready" /\ j.kind = jobs[d].kind /\ j.request = jobs[d].request
      BY <2>1 DEF Job
    <3> HIDE DEF j
    <3> QED BY <2>1, <3>1, <3>2 DEF JobShape, PackageSteps, LoadSteps
  <2>3. /\ jobs' = [jobs EXCEPT ![d] = j] /\ UNCHANGED windowVars
        /\ origin' = origin /\ m_PkgFiles' = m_PkgFiles
    BY <1>6 DEF WrapUpIndex, IndexLoaded
  <2>4. m_CurFileProps' \in SUBSET Request
    BY <1>6 DEF WrapUpIndex, IndexLoaded, LoadedPkgs, Request, TypeInv, Shape
  <2>5. ModelTypeOK'
    BY <1>6, <2>1, <2>4 DEF WrapUpIndex, IndexLoaded, TypeInv, TypeOK, ModelTypeOK, treeVars
  <2> HIDE DEF j
  <2> QED BY <2>2, <2>3, <2>5, WorkerTypes DEF TypeInv, Shape
<1> QED BY <1>1, <1>2, <1>3, <1>4, <1>5, <1>6

\* The process goes down, by an exception or by undefined behaviour.
LEMMA StatusTypes ==
  ASSUME TypeInv, status' \in {"running", "ended", "terminated", "undefined"},
         UNCHANGED <<modelVars, jobs, depth, widgetsEnabled, archiveEnabled,
                     overrideCursor, title>>
  PROVE  TypeInv'
  BY UnchangedTypes DEF TypeInv, TypeOK, Shape, OriginsKnown

LEMMA ExtractStepTypes ==
  ASSUME TypeInv, NEW d \in 1..MaxDepth,
         \/ Capture(d) \/ CaptureUndefined(d) \/ CaptureThrows(d)
         \/ WritePackage(d) \/ WriteFails(d) \/ WriteThrows(d) \/ WriteUndefined(d)
  PROVE  TypeInv'
<1>1. CASE Capture(d)
  <2> DEFINE S == {[name |-> p, obj |-> m_PkgFiles[p]] : p \in Owners(d)}
             next == IF Owners(d) = {} THEN "ready" ELSE "write"
             none == Owners(d) = {}
             j == [jobs[d] EXCEPT !.nodes = Targets(d), !.pkgs = S, !.path = m_CurrentParentPath,
                                  !.pc = next, !.ok = none]
  <2>1. jobs[d] \in Job /\ JobShape(jobs[d]) /\ jobs[d].pc = "capture"
    BY <1>1, AtFacts DEF Capture
  <2>2. Targets(d) \in SUBSET Node
    BY <2>1 DEF Targets, Job, TypeInv, TypeOK, ModelTypeOK
  <2>3. S \in SUBSET Node
    <3>1. \A p \in Owners(d) : p \in Pkgs /\ m_PkgFiles[p] \in Objs
      BY <1>1 DEF Capture, LoadedPkgs, TypeInv, TypeOK, ModelTypeOK
    <3>2. \A p \in Owners(d) : [name |-> p, obj |-> m_PkgFiles[p]] \in Node
      BY <3>1 DEF Node
    <3> QED BY <3>2
  <2>4. next \in {"ready", "write"} /\ none \in BOOLEAN
    OBVIOUS
  <2>5. jobs' = [jobs EXCEPT ![d] = j] /\ UNCHANGED <<modelVars, windowVars>>
    BY <1>1 DEF Capture
  <2> HIDE DEF S, next, none
  <2>6. m_CurrentParentPath \in Folders \cup {NoFolder}
    BY DEF TypeInv, TypeOK, ModelTypeOK
  <2>7. j \in Job
    BY <2>1, <2>2, <2>3, <2>4, <2>6 DEF Job, Steps
  <2>8. JobShape(j) /\ j.pc # "publish"
    BY <2>1, <2>4 DEF Job, JobShape, PackageSteps, LoadSteps
  <2> HIDE DEF j
  <2> QED BY <2>5, <2>7, <2>8, OnlyJobTypes
<1>2. CASE CaptureThrows(d) \/ WriteThrows(d)
  <2> DEFINE j == [jobs[d] EXCEPT !.pc = "thrown"]
  <2>1. j \in Job /\ JobShape(j) /\ j.pc # "publish"
    BY <1>2, AtFacts DEF CaptureThrows, WriteThrows, Job, JobShape, Steps, PackageSteps, LoadSteps
  <2>2. jobs' = [jobs EXCEPT ![d] = j] /\ UNCHANGED <<modelVars, windowVars>>
    BY <1>2 DEF CaptureThrows, WriteThrows
  <2> HIDE DEF j
  <2> QED BY <2>1, <2>2, OnlyJobTypes
<1>3. CASE WriteFails(d)
  <2> DEFINE j == [jobs[d] EXCEPT !.pc = "ready"]
  <2>1. j \in Job /\ JobShape(j) /\ j.pc # "publish"
    BY <1>3, AtFacts DEF WriteFails, Job, JobShape, Steps, PackageSteps, LoadSteps
  <2>2. jobs' = [jobs EXCEPT ![d] = j] /\ UNCHANGED <<modelVars, windowVars>>
    BY <1>3 DEF WriteFails
  <2> HIDE DEF j
  <2> QED BY <2>1, <2>2, OnlyJobTypes
<1>4. CASE WritePackage(d)
  <2>1. PICK k \in jobs[d].pkgs :
          jobs' = [jobs EXCEPT ![d].pkgs = @ \ {k},
                               ![d].pc   = IF jobs[d].pkgs = {k} THEN "ready" ELSE "write",
                               ![d].ok   = jobs[d].pkgs = {k}]
    BY <1>4 DEF WritePackage
  <2> DEFINE next == IF jobs[d].pkgs = {k} THEN "ready" ELSE "write"
             last == jobs[d].pkgs = {k}
             j == [jobs[d] EXCEPT !.pkgs = jobs[d].pkgs \ {k}, !.pc = next, !.ok = last]
  <2>2. jobs[d] \in Job /\ JobShape(jobs[d]) /\ jobs[d].pc = "write"
    BY <1>4, AtFacts DEF WritePackage
  <2>3. next \in {"ready", "write"} /\ last \in BOOLEAN
    OBVIOUS
  <2>4. jobs' = [jobs EXCEPT ![d] = j] /\ UNCHANGED <<modelVars, windowVars>>
    <3>1. jobs' = [jobs EXCEPT ![d] = j]
      BY <2>1
    <3>2. UNCHANGED <<modelVars, windowVars>>
      BY <1>4 DEF WritePackage
    <3> QED BY <3>1, <3>2
  <2> HIDE DEF next, last
  <2>5. j \in Job
    BY <2>2, <2>3 DEF Job, Steps
  <2>6. JobShape(j) /\ j.pc # "publish"
    <3>1. j.pc = next /\ j.kind = jobs[d].kind /\ j.request = jobs[d].request
      BY <2>2 DEF Job
    <3> HIDE DEF j
    <3> QED BY <2>2, <2>3, <3>1 DEF JobShape, PackageSteps, LoadSteps
  <2> HIDE DEF j
  <2> QED BY <2>4, <2>5, <2>6, OnlyJobTypes
<1>5. CASE CaptureUndefined(d) \/ WriteUndefined(d)
  <2>1. Undefined
    BY <1>5 DEF CaptureUndefined, WriteUndefined
  <2> QED BY <2>1, StatusTypes DEF Undefined
<1> QED BY <1>1, <1>2, <1>3, <1>4, <1>5

-----------------------------------------------------------------------------
LEMMA NextTypeInv == TypeInv /\ [Next]_vars => TypeInv'
<1> SUFFICES ASSUME TypeInv, [Next]_vars PROVE TypeInv'
  OBVIOUS
<1>1. CASE Handler
  BY <1>1, HandlerTypes
<1>2. CASE FinishJob
  BY <1>2, FinishJobTypes
<1>3. CASE JobThrows
  BY <1>3, StatusTypes DEF JobThrows
<1>4. ASSUME NEW d \in 1..MaxDepth, Worker(d) PROVE TypeInv'
  BY <1>4, LoadStepTypes, IndexStepTypes, ExtractStepTypes DEF Worker
<1>5. CASE UNCHANGED vars
  <2>1. UNCHANGED <<modelVars, jobs, windowVars>>
    BY <1>5 DEF vars
  <2> QED BY <2>1, UnchangedTypes DEF windowVars, TypeInv, TypeOK, Shape, OriginsKnown
<1> QED BY <1>1, <1>2, <1>3, <1>4, <1>5 DEF Next, Stopped

\* In every state every variable has its type, every job that is about to use
\* a package or an object has one, and the cursor counts the waiting handlers.
THEOREM TypeInvariant == Spec => []TypeInv
<1> QED BY InitTypeInv, NextTypeInv, PTL DEF Spec

THEOREM TypeCorrect == Spec => []TypeOK
<1>1. TypeInv => TypeOK
  BY DEF TypeInv
<1> QED BY <1>1, TypeInvariant, PTL
-----------------------------------------------------------------------------
\* Nested handlers or not: the busy flag, the widgets and the selection.

\* What a step of one job's thread can do to the flag: nothing, or set it and
\* go on loading, or clear it.
LEMMA WorkerBusy ==
  ASSUME TypeInv, NEW d \in 1..MaxDepth, Worker(d)
  PROVE  /\ UNCHANGED <<depth, widgetsEnabled, archiveEnabled, overrideCursor>>
         /\ \A e \in 1..MaxDepth : e # d => jobs'[e] = jobs[e]
         /\ jobs'[d].kind = jobs[d].kind
         /\ \/ m_bIsBusy' = FALSE
            \/ d <= depth /\ jobs[d].kind \in LoadKinds /\ jobs'[d].pc # "ready"
            \/ m_bIsBusy' = m_bIsBusy /\ jobs[d].kind \in ExtractKinds
            \/ m_bIsBusy' = m_bIsBusy /\ jobs' = jobs
<1> DEFINE Frame == /\ UNCHANGED <<depth, widgetsEnabled, archiveEnabled, overrideCursor>>
                    /\ \A e \in 1..MaxDepth : e # d => jobs'[e] = jobs[e]
                    /\ jobs'[d].kind = jobs[d].kind
<1>1. jobs \in [1..MaxDepth -> Job] /\ jobs[d] \in Job /\ JobShape(jobs[d])
  BY DEF TypeInv, TypeOK, Shape
<1>2. CASE CallLoadPackage(d) \/ Parse(d) \/ Publish(d) \/ CallLoadIndex(d) \/ ReadIndex(d)
           \/ DetectIndexThrows(d)
  <2>1. d <= depth /\ jobs[d].kind \in LoadKinds
    BY <1>1, <1>2 DEF CallLoadPackage, Parse, Publish, CallLoadIndex, ReadIndex,
       DetectIndexThrows, At, JobShape, LoadSteps, PackageSteps
  <2>2. Frame
    <3>1. CASE CallLoadPackage(d)
      BY <1>1, <3>1 DEF CallLoadPackage, windowVars, Job
    <3>2. CASE Parse(d)
      BY <1>1, <3>2 DEF Parse, windowVars, Job
    <3>3. CASE Publish(d)
      BY <1>1, <3>3 DEF Publish, windowVars, Job
    <3>4. CASE CallLoadIndex(d)
      BY <1>1, <3>4 DEF CallLoadIndex, windowVars, Job
    <3>5. CASE ReadIndex(d)
      BY <1>1, <3>5 DEF ReadIndex, windowVars, Job
    <3>6. CASE DetectIndexThrows(d)
      BY <1>1, <3>6 DEF DetectIndexThrows, windowVars, Job
    <3> QED BY <1>2, <3>1, <3>2, <3>3, <3>4, <3>5, <3>6
  <2>3. jobs'[d].pc # "ready"
    <3>1. CASE CallLoadPackage(d)
      BY <1>1, <3>1 DEF CallLoadPackage, Job
    <3>2. CASE Parse(d)
      BY <1>1, <3>2 DEF Parse, Job
    <3>3. CASE Publish(d)
      BY <1>1, <3>3 DEF Publish, Job
    <3>4. CASE CallLoadIndex(d)
      BY <1>1, <3>4 DEF CallLoadIndex, Job
    <3>5. CASE ReadIndex(d)
      BY <1>1, <3>5 DEF ReadIndex, Job
    <3>6. CASE DetectIndexThrows(d)
      BY <1>1, <3>6 DEF DetectIndexThrows, Job
    <3> QED BY <1>2, <3>1, <3>2, <3>3, <3>4, <3>5, <3>6
  <2> QED BY <2>1, <2>2, <2>3
<1>3. CASE ParseFails(d) \/ Loaded(d) \/ ReadIndexFails(d) \/ UndoIndex(d) \/ WrapUpIndex(d)
  <2>1. Frame
    <3>1. CASE ParseFails(d)
      BY <1>1, <3>1 DEF ParseFails, windowVars, Job
    <3>2. CASE Loaded(d)
      BY <1>1, <3>2 DEF Loaded, windowVars, Job
    <3>3. CASE ReadIndexFails(d)
      BY <1>1, <3>3 DEF ReadIndexFails, windowVars, Job
    <3>4. CASE UndoIndex(d)
      BY <1>1, <3>4 DEF UndoIndex, windowVars, Job
    <3>5. CASE WrapUpIndex(d)
      BY <1>1, <3>5 DEF WrapUpIndex, windowVars, Job
    <3> QED BY <1>3, <3>1, <3>2, <3>3, <3>4, <3>5
  <2>2. m_bIsBusy' = FALSE
    BY <1>3 DEF ParseFails, Loaded, ReadIndexFails, UndoIndex, WrapUpIndex, PackageFails,
       PackageLoaded, IndexUnreadable, ResetModel, ClearFlags, IndexLoaded
  <2> QED BY <2>1, <2>2
<1>4. CASE Capture(d) \/ CaptureThrows(d) \/ WritePackage(d) \/ WriteFails(d) \/ WriteThrows(d)
  <2>1. jobs[d].kind \in ExtractKinds
    BY <1>1, <1>4 DEF Capture, CaptureThrows, WritePackage, WriteFails, WriteThrows, At, JobShape
  <2>2. Frame
    <3>1. CASE Capture(d)
      BY <1>1, <3>1 DEF Capture, windowVars, Job
    <3>2. CASE WritePackage(d)
      <4>1. UNCHANGED windowVars
        BY <3>2 DEF WritePackage
      <4>2. PICK k \in jobs[d].pkgs :
              jobs' = [jobs EXCEPT ![d].pkgs = @ \ {k},
                                   ![d].pc   = IF jobs[d].pkgs = {k} THEN "ready" ELSE "write",
                                   ![d].ok   = jobs[d].pkgs = {k}]
        BY <3>2 DEF WritePackage
      <4>3. \A e \in 1..MaxDepth : e # d => jobs'[e] = jobs[e]
        BY <1>1, <4>2
      <4>4. jobs'[d].kind = jobs[d].kind
        BY <1>1, <4>2 DEF Job
      <4> QED BY <4>1, <4>3, <4>4 DEF windowVars
    <3>3. CASE CaptureThrows(d)
      BY <1>1, <3>3 DEF CaptureThrows, windowVars, Job
    <3>4. CASE WriteFails(d)
      BY <1>1, <3>4 DEF WriteFails, windowVars, Job
    <3>5. CASE WriteThrows(d)
      BY <1>1, <3>5 DEF WriteThrows, windowVars, Job
    <3> QED BY <1>4, <3>1, <3>2, <3>3, <3>4, <3>5
  <2>3. m_bIsBusy' = m_bIsBusy
    BY <1>4 DEF Capture, CaptureThrows, WritePackage, WriteFails, WriteThrows, modelVars
  <2> QED BY <2>1, <2>2, <2>3
<1>5. CASE CaptureUndefined(d) \/ WriteUndefined(d)
  BY <1>5 DEF CaptureUndefined, WriteUndefined, Undefined, modelVars
<1> QED BY <1>2, <1>3, <1>4, <1>5 DEF Worker

\* A handler that starts a job leaves the jobs below it, and does not set the flag.
LEMMA HandlerBusy ==
  ASSUME TypeInv, Handler
  PROVE  \/ /\ depth' = depth + 1
            /\ \A e \in 1..depth : jobs'[e] = jobs[e]
            /\ m_bIsBusy' => m_bIsBusy
            /\ overrideCursor' = overrideCursor + 1
         \/ UNCHANGED <<depth, jobs, m_bIsBusy, widgetsEnabled, overrideCursor>>
<1> USE DEF StartJob, TakeWindow, TypeInv, TypeOK
<1>1. ASSUME ResetIfGenerated PROVE m_bIsBusy' => m_bIsBusy
  BY <1>1 DEF ResetIfGenerated, ResetModel, ClearFlags, modelVars
<1>2. ASSUME NEW job, StartJob(job)
      PROVE  /\ depth' = depth + 1 /\ overrideCursor' = overrideCursor + 1
             /\ \A e \in 1..depth : jobs'[e] = jobs[e]
  BY <1>2, WindowAssumption
<1> HIDE DEF StartJob
<1>3. CASE \E folder \in Folders, p \in Pkgs : OpenPackage(folder, p) \/ DropPackage(folder, p)
  BY <1>1, <1>2, <1>3 DEF OpenPackage, DropPackage, LoadPackage
<1>4. CASE \E folder \in Folders : OpenIndex(folder)
  BY <1>1, <1>2, <1>4 DEF OpenIndex
<1>5. CASE \E n \in treeNodes, toggle \in BOOLEAN : Select(n, toggle)
  BY <1>5 DEF Select, OnSelectionChanged, windowVars
<1>6. CASE OnExtractAll \/ OnExtractClick \/ (\E n \in m_SelectedNodes \cup fileNodes : Preview(n))
  BY <1>2, <1>6 DEF OnExtractAll, OnExtractClick, Preview, modelVars
<1>7. CASE OnQuitButton
  BY <1>7 DEF OnQuitButton, modelVars
<1> QED BY <1>3, <1>4, <1>5, <1>6, <1>7 DEF Handler

LEMMA BusyStep == TypeInv /\ BusySound /\ [Next]_vars => BusySound'
<1> SUFFICES ASSUME TypeInv, BusySound, [Next]_vars PROVE BusySound'
  OBVIOUS
<1> USE DEF BusySound, Loading
<1>0. depth \in 0..MaxDepth /\ jobs \in [1..MaxDepth -> Job]
  BY DEF TypeInv, TypeOK
<1>1. CASE Handler
  <2>1. CASE /\ depth' = depth + 1
             /\ \A e \in 1..depth : jobs'[e] = jobs[e]
             /\ m_bIsBusy' => m_bIsBusy
    <3> SUFFICES ASSUME m_bIsBusy' PROVE \E e \in 1..MaxDepth : Loading(e)'
      OBVIOUS
    <3>1. PICK e \in 1..MaxDepth : Loading(e)
      BY <2>1
    <3>2. e <= depth' /\ jobs'[e] = jobs[e]
      BY <1>0, <2>1, <3>1, WindowAssumption
    <3> QED BY <3>1, <3>2
  <2>2. CASE UNCHANGED <<depth, jobs, m_bIsBusy, widgetsEnabled, overrideCursor>>
    BY <2>2
  <2> QED BY <1>1, <2>1, <2>2, HandlerBusy
<1>2. CASE FinishJob
  BY <1>0, <1>2, WindowAssumption DEF FinishJob, FutureReady, Waiting, modelVars
<1>3. CASE JobThrows
  BY <1>3 DEF JobThrows, modelVars
<1>4. ASSUME NEW d \in 1..MaxDepth, Worker(d) PROVE BusySound'
  <2> SUFFICES ASSUME m_bIsBusy' PROVE \E e \in 1..MaxDepth : Loading(e)'
    OBVIOUS
  <2>1. CASE m_bIsBusy' = m_bIsBusy
    <3>1. PICK e \in 1..MaxDepth : Loading(e)
      BY <2>1
    <3>2. CASE e # d
      BY <1>4, <3>1, <3>2, WorkerBusy
    <3>3. CASE e = d
      <4>1. jobs[d].kind \notin ExtractKinds
        BY <3>1, <3>3 DEF LoadKinds, ExtractKinds
      <4>2. jobs'[d].pc # "ready" \/ jobs' = jobs
        BY <1>4, <4>1, WorkerBusy
      <4> QED BY <1>4, <3>1, <3>3, <4>2, WorkerBusy
    <3> QED BY <3>2, <3>3
  <2>2. CASE d <= depth /\ jobs[d].kind \in LoadKinds /\ jobs'[d].pc # "ready"
    BY <1>4, <2>2, WorkerBusy
  <2> QED BY <1>4, <2>1, <2>2, WorkerBusy
<1>5. CASE UNCHANGED vars
  BY <1>5 DEF vars, modelVars, windowVars
<1> QED BY <1>1, <1>2, <1>3, <1>4, <1>5 DEF Next, Stopped

\* The flag that gates drops is set only while a load that will clear it
\* runs, whatever handlers nest.
THEOREM BusyIsSound == Spec => []BusySound
<1>1. Init => BusySound
  BY DEF Init, ModelInit, BusySound
<1> QED BY <1>1, BusyStep, TypeInvariant, PTL DEF Spec

\* When no handler waits the widgets are enabled and no wait cursor is left,
\* whatever handlers nested and however their jobs ended.
THEOREM IdleIsUsable == Spec => []IdleUsable
<1> DEFINE I == depth = 0 => widgetsEnabled
<1>1. Init => I
  BY DEF Init
<1>2. TypeInv /\ I /\ [Next]_vars => I'
  <2> SUFFICES ASSUME TypeInv, I, [Next]_vars PROVE I'
    OBVIOUS
  <2>1. CASE Handler
    BY <2>1, HandlerBusy DEF TypeInv, TypeOK
  <2>2. CASE FinishJob \/ JobThrows
    BY <2>2 DEF FinishJob, GiveBackWindow, JobThrows
  <2>3. ASSUME NEW d \in 1..MaxDepth, Worker(d) PROVE I'
    BY <2>3, WorkerBusy
  <2>4. CASE UNCHANGED vars
    BY <2>4 DEF vars, windowVars
  <2> QED BY <2>1, <2>2, <2>3, <2>4 DEF Next, Stopped
<1>3. TypeInv /\ I => IdleUsable
  BY DEF TypeInv, Shape, IdleUsable
<1> QED BY <1>1, <1>2, <1>3, TypeInvariant, PTL DEF Spec
-----------------------------------------------------------------------------
\* No drops while a job runs: what the widgets keep out, and what follows for
\* the pointers an extraction works with.

Empty == \A p \in Pkgs : m_PkgFiles[p] = NoObj

\* A handler that waits has the widgets disabled, so no second one runs.
Gate == /\ depth <= 1
        /\ depth = 1 => ~widgetsEnabled /\ ~archiveEnabled

\* Every file node is owned, or is the one that waits for Publish.
Owned == \A f \in fileNodes :
           \/ f \in LoadedFiles
           \/ depth = 1 /\ jobs[1].pc = "publish" /\ f = [name |-> Pkg(1), obj |-> jobs[1].obj]

\* Between loads, and until the first package is published, an archive that
\* is not generated is empty: what ResetIfGenerated relies on.
EmptyFirst ==
  /\ (~m_bGenerated /\ (depth = 0 \/ jobs[1].pc \in {"ready", "capture", "write"})) => Empty
  /\ (depth = 1 /\ jobs[1].pc \in {"index", "read"}) => Empty
  /\ (depth = 1 /\ jobs[1].pc \in {"call", "parse"} /\ jobs[1].kind = "package") => Empty
  /\ (depth = 1 /\ jobs[1].pc = "wrapUp" /\ ~m_bGenerated) => Empty

\* The packages a load still has to go through are distinct, and none of them
\* is in the map: Publish replaces nothing.
ToLoad ==
  depth = 1 =>
    /\ jobs[1].pc \in PackageSteps =>
         \A i, k \in 1..Len(jobs[1].todo) : jobs[1].todo[i] = jobs[1].todo[k] => i = k
    /\ jobs[1].pc \in {"call", "parse", "publish"} =>
         \A i \in 1..Len(jobs[1].todo) : m_PkgFiles[jobs[1].todo[i]] = NoObj
    /\ jobs[1].pc = "loaded" =>
         \A i \in 2..Len(jobs[1].todo) : m_PkgFiles[jobs[1].todo[i]] = NoObj

\* The nodes and PkgFiles an extraction has been handed are still there.
Handed ==
  depth = 1 =>
    /\ jobs[1].pc \in {"capture", "write"} => jobs[1].nodes \subseteq treeNodes
    /\ jobs[1].pc = "write" => jobs[1].pkgs \subseteq LoadedFiles

QuietInv == /\ Gate /\ SelectionInTree /\ Owned /\ EmptyFirst /\ ToLoad /\ Handed
            /\ status # "undefined"

\* The archive as these properties see it does not change.
archiveVars == <<m_DirectoryNodes, fileNodes, m_PkgFiles, m_SelectedNodes>>

LEMMA SameArchive ==
  ASSUME UNCHANGED archiveVars
  PROVE  /\ UNCHANGED <<treeNodes, LoadedPkgs, LoadedFiles>>
         /\ Empty' = Empty /\ SelectionInTree' = SelectionInTree
<1>1. UNCHANGED <<dirNodes, fileNodes, LoadedPkgs, m_PkgFiles, m_SelectedNodes>>
  BY DEF archiveVars, dirNodes, LoadedPkgs
<1>2. UNCHANGED <<treeNodes, LoadedFiles>>
  BY <1>1 DEF treeNodes, LoadedFiles
<1> QED BY <1>1, <1>2 DEF Empty, SelectionInTree

\* ResetModel leaves no node, no PkgFile and no selection.
LEMMA ResetEmpties ==
  ASSUME ResetModel
  PROVE  fileNodes' = {} /\ m_SelectedNodes' = {} /\ Empty' /\ m_bGenerated' = FALSE
  BY DEF ResetModel, FreeNodes, ClearSelection, ClearFlags, Empty

\* The selection stays in the tree when a package is added to it.
LEMMA ParseKeepsSelection ==
  ASSUME TypeInv, SelectionInTree, NEW d \in 1..MaxDepth, Parse(d)
  PROVE  SelectionInTree'
<1>1. PICK o \in FreeObjs : ParsePackage(Folder(d), Pkg(d), o, Independent(d))
  BY DEF Parse
<1>2. /\ fileNodes \subseteq fileNodes' /\ m_SelectedNodes' = m_SelectedNodes
      /\ \A x \in Dirs : m_DirectoryNodes[x] # NoObj => m_DirectoryNodes'[x] = m_DirectoryNodes[x]
  BY <1>1 DEF ParsePackage, CreateChildren
<1>3. dirNodes \subseteq dirNodes'
  BY <1>2 DEF dirNodes
<1> QED BY <1>2, <1>3 DEF SelectionInTree, treeNodes

LEMMA HandlerSelection ==
  ASSUME TypeInv, SelectionInTree, Handler
  PROVE  SelectionInTree'
<1>1. CASE ResetModel
  BY <1>1, ResetEmpties DEF SelectionInTree
<1>2. CASE UNCHANGED modelVars
  BY <1>2, SameArchive DEF archiveVars, modelVars
<1>3. ASSUME NEW n \in treeNodes, NEW toggle \in BOOLEAN, Select(n, toggle)
      PROVE  SelectionInTree'
  <2>1. treeNodes' = treeNodes /\ m_SelectedNodes' \subseteq m_SelectedNodes \cup {n}
    BY <1>3 DEF Select, OnSelectionChanged, treeNodes, dirNodes
  <2> QED BY <2>1 DEF SelectionInTree
<1>4. \/ ResetModel \/ UNCHANGED modelVars
      \/ \E n \in treeNodes, toggle \in BOOLEAN : Select(n, toggle)
  BY DEF Handler, OpenPackage, DropPackage, OpenIndex, LoadPackage, ResetIfGenerated,
     OnExtractAll, OnExtractClick, Preview, OnQuitButton
<1> QED BY <1>1, <1>2, <1>3, <1>4

\* Of a thread's steps only Parse, Publish and UndoIndex change the archive.
LEMMA WorkerSelection ==
  ASSUME TypeInv, SelectionInTree, NEW d \in 1..MaxDepth, Worker(d)
  PROVE  SelectionInTree'
<1>1. CASE Parse(d)
  BY <1>1, ParseKeepsSelection
<1>2. CASE UndoIndex(d)
  BY <1>2, ResetEmpties DEF UndoIndex, SelectionInTree
<1>3. CASE Publish(d)
  BY <1>3 DEF Publish, PublishPackage, treeVars, SelectionInTree, treeNodes, dirNodes
<1>4. CASE CallLoadPackage(d) \/ ParseFails(d) \/ Loaded(d) \/ CallLoadIndex(d)
           \/ ReadIndexFails(d) \/ WrapUpIndex(d)
  <2>1. UNCHANGED archiveVars
    BY <1>4 DEF CallLoadPackage, ParseFails, Loaded, CallLoadIndex, ReadIndexFails,
       WrapUpIndex, SetBusy, PackageFails, PackageLoaded, IndexUnreadable, IndexLoaded,
       treeVars, archiveVars
  <2> QED BY <2>1, SameArchive
<1>5. CASE ReadIndex(d) \/ DetectIndexThrows(d) \/ Capture(d) \/ CaptureUndefined(d)
           \/ CaptureThrows(d) \/ WritePackage(d) \/ WriteFails(d) \/ WriteThrows(d)
           \/ WriteUndefined(d)
  <2>1. UNCHANGED archiveVars
    BY <1>5 DEF ReadIndex, DetectIndexThrows, Capture, CaptureUndefined, CaptureThrows,
       WritePackage, WriteFails, WriteThrows, WriteUndefined, Undefined, modelVars, archiveVars
  <2> QED BY <2>1, SameArchive
<1> QED BY <1>1, <1>2, <1>3, <1>4, <1>5 DEF Worker

\* Nested handlers or not, every selected node is a node of the tree.
THEOREM SelectionIsInTree == Spec => []SelectionInTree
<1>1. Init => SelectionInTree
  BY DEF Init, ModelInit, SelectionInTree
<1>2. TypeInv /\ SelectionInTree /\ [Next]_vars => SelectionInTree'
  <2> SUFFICES ASSUME TypeInv, SelectionInTree, [Next]_vars PROVE SelectionInTree'
    OBVIOUS
  <2>1. CASE FinishJob \/ JobThrows \/ UNCHANGED vars
    <3>1. UNCHANGED archiveVars
      BY <2>1 DEF FinishJob, JobThrows, vars, modelVars, archiveVars
    <3> QED BY <3>1, SameArchive
  <2> QED BY <2>1, HandlerSelection, WorkerSelection DEF Next, Stopped
<1> QED BY <1>1, <1>2, TypeInvariant, PTL DEF Spec
-----------------------------------------------------------------------------
\* The handlers, when no other handler waits.

\* What a handler that starts a job leaves: one waiting handler, the new job.
LEMMA StartJobQuiet ==
  ASSUME TypeInv, NEW job, StartJob(job), depth = 0
  PROVE  depth' = 1 /\ jobs'[1] = job /\ Gate' /\ status' = status
<1>1. depth' = 1 /\ jobs'[1] = job /\ status' = status
  BY WindowAssumption DEF StartJob, TypeInv, TypeOK
<1>2. ~widgetsEnabled' /\ ~archiveEnabled'
  BY DEF StartJob, TakeWindow
<1> QED BY <1>1, <1>2 DEF Gate

\* Before a load there is nothing, once an archive that was generated is dropped.
LEMMA NothingLeft ==
  ASSUME TypeInv, QuietInv, depth = 0, ResetIfGenerated
  PROVE  Empty' /\ fileNodes' = {}
<1>1. CASE m_bGenerated
  BY <1>1, ResetEmpties DEF ResetIfGenerated
<1>2. CASE ~m_bGenerated
  <2>1. Empty /\ UNCHANGED modelVars
    BY <1>2 DEF QuietInv, EmptyFirst, ResetIfGenerated
  <2>2. LoadedFiles = {}
    BY <2>1 DEF Empty, LoadedFiles, LoadedPkgs
  <2>3. fileNodes = {}
    BY <2>2 DEF QuietInv, Owned
  <2> QED BY <2>1, <2>3 DEF modelVars, Empty
<1> QED BY <1>1, <1>2

LEMMA LoadPackageQuiet ==
  ASSUME TypeInv, QuietInv, depth = 0, NEW folder \in Folders, NEW p \in Pkgs,
         LoadPackage(folder, p), SelectionInTree'
  PROVE  QuietInv'
<1> DEFINE job == [NoJob EXCEPT !.kind = "package", !.pc = "call", !.todo = <<p>>,
                                !.request = [folder |-> folder, name |-> p]]
<1>1. job.pc = "call" /\ job.todo = <<p>>
  BY DEF NoJob
<1>2. StartJob(job) /\ ResetIfGenerated
  BY DEF LoadPackage
<1> HIDE DEF job
<1>3. depth' = 1 /\ jobs'[1] = job /\ Gate' /\ status' = status /\ Empty' /\ fileNodes' = {}
  BY <1>2, StartJobQuiet, NothingLeft
<1>4. Owned' /\ EmptyFirst' /\ Handed'
  BY <1>1, <1>3 DEF Owned, EmptyFirst, Handed
<1>5. ToLoad'
  BY <1>1, <1>3 DEF ToLoad, Empty
<1> QED BY <1>3, <1>4, <1>5 DEF QuietInv

LEMMA OpenIndexQuiet ==
  ASSUME TypeInv, QuietInv, depth = 0, NEW folder \in Folders, OpenIndex(folder), SelectionInTree'
  PROVE  QuietInv'
<1> DEFINE job == [NoJob EXCEPT !.kind = "index", !.pc = "index",
                                !.request = [folder |-> folder, name |-> Index]]
<1>1. job.pc = "index"
  BY DEF NoJob
<1>2. StartJob(job) /\ ResetIfGenerated
  BY DEF OpenIndex
<1> HIDE DEF job
<1>3. depth' = 1 /\ jobs'[1] = job /\ Gate' /\ status' = status /\ Empty' /\ fileNodes' = {}
  BY <1>2, StartJobQuiet, NothingLeft
<1>4. Owned' /\ EmptyFirst' /\ Handed' /\ ToLoad'
  BY <1>1, <1>3 DEF Owned, EmptyFirst, Handed, ToLoad, PackageSteps
<1> QED BY <1>3, <1>4 DEF QuietInv

LEMMA StartExtractionQuiet ==
  ASSUME TypeInv, QuietInv, depth = 0, NEW job, job.pc = "capture",
         job.nodes \subseteq treeNodes, StartJob(job), UNCHANGED modelVars
  PROVE  QuietInv'
<1>1. depth' = 1 /\ jobs'[1] = job /\ Gate' /\ status' = status
  BY StartJobQuiet
<1>2. UNCHANGED archiveVars /\ m_bGenerated' = m_bGenerated
  BY DEF modelVars, archiveVars
<1>3. UNCHANGED <<treeNodes, LoadedFiles, fileNodes>> /\ Empty' = Empty /\ SelectionInTree'
  BY <1>2, SameArchive DEF QuietInv, archiveVars
<1>4. Owned' /\ EmptyFirst' /\ Handed' /\ ToLoad'
  BY <1>1, <1>2, <1>3 DEF QuietInv, Owned, EmptyFirst, Handed, ToLoad, PackageSteps
<1> QED BY <1>1, <1>3, <1>4 DEF QuietInv

\* A step that leaves the jobs and the packages map alone.
LEMMA SameJobsQuiet ==
  ASSUME QuietInv, UNCHANGED <<jobs, depth, widgetsEnabled, archiveEnabled, m_PkgFiles,
                               fileNodes, m_DirectoryNodes, m_bGenerated>>,
         SelectionInTree', status' # "undefined"
  PROVE  QuietInv'
<1>1. UNCHANGED <<treeNodes, LoadedFiles>> /\ Empty' = Empty
  BY DEF treeNodes, dirNodes, LoadedFiles, LoadedPkgs, Empty
<1>2. Gate' /\ Owned' /\ EmptyFirst' /\ ToLoad' /\ Handed'
  BY <1>1 DEF QuietInv, Gate, Owned, EmptyFirst, ToLoad, Handed, Pkg
<1> QED BY <1>2 DEF QuietInv

LEMMA HandlerQuiet ==
  ASSUME ~DropsDuringJobs, TypeInv, QuietInv, Handler
  PROVE  QuietInv'
<1>1. SelectionInTree'
  BY HandlerSelection DEF QuietInv
<1>2. (Running /\ (widgetsEnabled \/ archiveEnabled)) => depth = 0
  BY DEF QuietInv, Gate, TypeInv, TypeOK
<1>3. CASE \E folder \in Folders, p \in Pkgs : OpenPackage(folder, p) \/ DropPackage(folder, p)
  <2>1. depth = 0
    BY <1>2, <1>3 DEF OpenPackage, DropPackage, Waiting, TypeInv, TypeOK
  <2> QED BY <1>1, <1>3, <2>1, LoadPackageQuiet DEF OpenPackage, DropPackage
<1>4. CASE \E folder \in Folders : OpenIndex(folder)
  <2>1. depth = 0
    BY <1>2, <1>4 DEF OpenIndex
  <2> QED BY <1>1, <1>4, <2>1, OpenIndexQuiet
<1>5. CASE \E n \in treeNodes, toggle \in BOOLEAN : Select(n, toggle)
  <2>1. /\ UNCHANGED <<jobs, depth, widgetsEnabled, archiveEnabled, m_PkgFiles,
                       fileNodes, m_DirectoryNodes, m_bGenerated>>
        /\ status' = status
    BY <1>5 DEF Select, OnSelectionChanged, windowVars
  <2>2. status # "undefined"
    BY DEF QuietInv
  <2> QED BY <1>1, <2>1, <2>2, SameJobsQuiet
<1>6. CASE OnExtractAll
  <2> DEFINE job == [NoJob EXCEPT !.kind = "extractAll", !.pc = "capture"]
  <2>1. job.pc = "capture" /\ job.nodes \subseteq treeNodes
    BY DEF NoJob
  <2>2. StartJob(job) /\ UNCHANGED modelVars /\ depth = 0
    BY <1>2, <1>6 DEF OnExtractAll
  <2> HIDE DEF job
  <2> QED BY <2>1, <2>2, StartExtractionQuiet
<1>7. CASE OnExtractClick
  <2> DEFINE job == [NoJob EXCEPT !.kind = "extract", !.pc = "capture"]
  <2>1. job.pc = "capture" /\ job.nodes \subseteq treeNodes
    BY DEF NoJob
  <2>2. StartJob(job) /\ UNCHANGED modelVars /\ depth = 0
    BY <1>2, <1>7 DEF OnExtractClick
  <2> HIDE DEF job
  <2> QED BY <2>1, <2>2, StartExtractionQuiet
<1>8. ASSUME NEW n \in m_SelectedNodes \cup fileNodes, Preview(n)
      PROVE  QuietInv'
  <2> DEFINE job == [NoJob EXCEPT !.kind = "preview", !.pc = "capture", !.nodes = {n}]
  <2>1. n \in treeNodes
    BY DEF QuietInv, SelectionInTree, treeNodes
  <2>2. job.pc = "capture" /\ job.nodes \subseteq treeNodes
    BY <2>1 DEF NoJob
  <2>3. StartJob(job) /\ UNCHANGED modelVars /\ depth = 0
    BY <1>2, <1>8 DEF Preview
  <2> HIDE DEF job
  <2> QED BY <2>2, <2>3, StartExtractionQuiet
<1>9. CASE OnQuitButton
  <2>1. status' # "undefined"
    BY <1>9 DEF OnQuitButton
  <2>2. UNCHANGED <<jobs, depth, widgetsEnabled, archiveEnabled, m_PkgFiles,
                    fileNodes, m_DirectoryNodes, m_bGenerated>>
    BY <1>9 DEF OnQuitButton, modelVars
  <2> QED BY <1>1, <2>1, <2>2, SameJobsQuiet
<1> QED BY <1>3, <1>4, <1>5, <1>6, <1>7, <1>8, <1>9 DEF Handler

\* The handler that waited returns: nothing is left to load or to write.
LEMMA FinishJobQuiet ==
  ASSUME TypeInv, QuietInv, FinishJob
  PROVE  QuietInv'
<1>1. depth = 1 /\ depth' = 0 /\ jobs[1].pc = "ready"
  BY DEF FinishJob, FutureReady, Waiting, QuietInv, Gate, TypeInv, TypeOK
<1>2. UNCHANGED archiveVars /\ UNCHANGED <<m_bGenerated, status>>
  BY DEF FinishJob, modelVars, archiveVars
<1>3. UNCHANGED <<treeNodes, LoadedFiles, fileNodes>> /\ Empty' = Empty /\ SelectionInTree'
  BY <1>2, SameArchive DEF QuietInv, archiveVars
<1>4. Owned' /\ Gate' /\ ToLoad' /\ Handed'
  BY <1>1, <1>3 DEF QuietInv, Owned, Gate, ToLoad, Handed
<1>5. EmptyFirst'
  BY <1>1, <1>2, <1>3 DEF QuietInv, EmptyFirst
<1> QED BY <1>2, <1>3, <1>4, <1>5 DEF QuietInv
-----------------------------------------------------------------------------
\* The one thread, while no other handler waits.

LEMMA OneThread ==
  ASSUME TypeInv, QuietInv, NEW d \in 1..MaxDepth, d <= depth
  PROVE  d = 1 /\ depth = 1
  BY DEF QuietInv, Gate, TypeInv, TypeOK

\* A step of the thread that leaves the archive alone and takes job 1 to j.
LEMMA JobStepQuiet ==
  ASSUME TypeInv, QuietInv, depth = 1, UNCHANGED windowVars, UNCHANGED archiveVars,
         NEW j, jobs'[1] = j, jobs[1].pc # "publish", j.pc # "publish",
         ~m_bGenerated' => (j.pc \in {"ready", "capture", "write"} => Empty),
         j.pc \in {"index", "read"} => Empty,
         (j.pc \in {"call", "parse"} /\ j.kind = "package") => Empty,
         (j.pc = "wrapUp" /\ ~m_bGenerated') => Empty,
         j.pc \in PackageSteps =>
           \A i, k \in 1..Len(j.todo) : j.todo[i] = j.todo[k] => i = k,
         j.pc \in {"call", "parse"} => \A i \in 1..Len(j.todo) : m_PkgFiles[j.todo[i]] = NoObj,
         j.pc # "loaded",
         j.pc \in {"capture", "write"} => j.nodes \subseteq treeNodes,
         j.pc = "write" => j.pkgs \subseteq LoadedFiles
  PROVE  QuietInv'
<1>1. UNCHANGED <<treeNodes, LoadedFiles, fileNodes, m_PkgFiles>> /\ Empty' = Empty
      /\ SelectionInTree'
  BY SameArchive DEF QuietInv, archiveVars
<1>2. depth' = 1 /\ Gate' /\ status' # "undefined"
  BY DEF QuietInv, Gate, windowVars
<1>3. Owned'
  BY <1>1, <1>2 DEF QuietInv, Owned
<1>4. EmptyFirst' /\ Handed'
  BY <1>1, <1>2 DEF EmptyFirst, Handed
<1>5. ToLoad'
  BY <1>1, <1>2 DEF ToLoad
<1> QED BY <1>1, <1>2, <1>3, <1>4, <1>5 DEF QuietInv

LEMMA ParseQuiet ==
  ASSUME TypeInv, QuietInv, Parse(1), depth = 1
  PROVE  QuietInv'
<1>1. PICK o \in FreeObjs :
        /\ ParsePackage(Folder(1), Pkg(1), o, Independent(1))
        /\ jobs' = [jobs EXCEPT ![1].pc = "publish", ![1].obj = o]
  BY DEF Parse
<1>2. jobs[1].pc = "parse" /\ jobs[1] \in Job /\ 1 \in DOMAIN jobs
  BY WindowAssumption DEF Parse, At, TypeInv, TypeOK
<1>3. jobs'[1].pc = "publish" /\ jobs'[1].obj = o /\ jobs'[1].todo = jobs[1].todo
  BY <1>1, <1>2 DEF Job
<1>4. m_PkgFiles' = m_PkgFiles /\ fileNodes' = fileNodes \cup {[name |-> Pkg(1), obj |-> o]}
  BY <1>1 DEF ParsePackage, CreateChildren
<1>5. LoadedFiles' = LoadedFiles
  BY <1>4 DEF LoadedFiles, LoadedPkgs
<1>6. SelectionInTree'
  BY ParseKeepsSelection, WindowAssumption DEF QuietInv
<1>7. depth' = 1 /\ Gate' /\ status' # "undefined"
  BY DEF QuietInv, Gate, windowVars, Parse
<1>8. Owned'
  BY <1>2, <1>3, <1>4, <1>5, <1>7 DEF QuietInv, Owned, Pkg
<1>9. EmptyFirst' /\ Handed'
  BY <1>3, <1>7 DEF EmptyFirst, Handed
<1>10. ToLoad'
  BY <1>2, <1>3, <1>4, <1>7 DEF QuietInv, ToLoad, PackageSteps
<1> QED BY <1>6, <1>7, <1>8, <1>9, <1>10 DEF QuietInv

LEMMA PublishQuiet ==
  ASSUME TypeInv, QuietInv, Publish(1), depth = 1
  PROVE  QuietInv'
<1> DEFINE s == jobs[1].todo
           p == Pkg(1)
           o == jobs[1].obj
<1>1. /\ jobs[1].pc = "publish" /\ jobs[1] \in Job /\ 1 \in DOMAIN jobs /\ JobShape(jobs[1])
      /\ p \in Pkgs
  BY AtFacts, WindowAssumption DEF Publish, TypeInv, TypeOK, PackageSteps, LoadSteps
<1>2. s \in Seq(Pkgs) /\ s # <<>> /\ o \in Objs
  BY <1>1 DEF JobShape, Job, PackageSteps
<1>3. Len(s) \in Nat /\ 1 \in 1..Len(s) /\ p = s[1]
  <2>1. \A t \in Seq(Pkgs) : t # <<>> => Len(t) \in Nat /\ Len(t) >= 1 /\ Head(t) = t[1]
    OBVIOUS
  <2> QED BY <1>2, <2>1 DEF Pkg
<1>4. m_PkgFiles[p] = NoObj
  BY <1>1, <1>3 DEF QuietInv, ToLoad
<1>5. /\ jobs'[1].pc = "loaded" /\ jobs'[1].todo = s
      /\ m_PkgFiles' = [m_PkgFiles EXCEPT ![p] = o] /\ fileNodes' = fileNodes
  <2>1. jobs' = [jobs EXCEPT ![1].pc = "loaded", ![1].obj = NoObj]
    BY DEF Publish
  <2> QED BY <1>1, <2>1 DEF Publish, PublishPackage, treeVars, Job
<1>6. m_PkgFiles \in [Pkgs -> Objs \cup {NoObj}]
  BY DEF TypeInv, TypeOK, ModelTypeOK
<1>7. LoadedFiles \subseteq LoadedFiles'
  <2>1. \A q \in Pkgs : m_PkgFiles[q] # NoObj => m_PkgFiles'[q] = m_PkgFiles[q]
    BY <1>4, <1>5, <1>6
  <2> QED BY <2>1 DEF LoadedFiles, LoadedPkgs
<1>8. [name |-> p, obj |-> o] \in LoadedFiles'
  BY <1>1, <1>2, <1>5, <1>6, NamesAssumption DEF LoadedFiles, LoadedPkgs
<1>9. depth' = 1 /\ Gate' /\ status' # "undefined"
  BY DEF QuietInv, Gate, windowVars, Publish
<1>10. Owned'
  BY <1>1, <1>5, <1>7, <1>8 DEF QuietInv, Owned
<1>11. EmptyFirst' /\ Handed'
  BY <1>5, <1>9 DEF EmptyFirst, Handed
<1>12. ToLoad'
  <2>1. \A i \in 2..Len(s) : i \in 1..Len(s) /\ i # 1
    BY <1>3
  <2>2. \A i, k \in 1..Len(s) : s[i] = s[k] => i = k
    BY <1>1 DEF QuietInv, ToLoad, PackageSteps
  <2>3. \A i \in 2..Len(s) : s[i] # p /\ m_PkgFiles[s[i]] = NoObj /\ s[i] \in Pkgs
    BY <1>1, <1>2, <1>3, <2>1, <2>2 DEF QuietInv, ToLoad
  <2>4. \A i \in 2..Len(s) : m_PkgFiles'[s[i]] = NoObj
    BY <1>5, <1>6, <2>3
  <2> QED BY <1>5, <1>9, <2>2, <2>4 DEF ToLoad
<1>13. SelectionInTree'
  BY DEF QuietInv, Publish, PublishPackage, treeVars, SelectionInTree, treeNodes, dirNodes
<1> QED BY <1>9, <1>10, <1>11, <1>12, <1>13 DEF QuietInv

LEMMA UndoQuiet ==
  ASSUME TypeInv, QuietInv, UndoIndex(1), depth = 1
  PROVE  QuietInv'
<1>1. jobs[1] \in Job /\ 1 \in DOMAIN jobs
  BY WindowAssumption DEF TypeInv, TypeOK
<1>2. jobs'[1].pc = "ready"
  BY <1>1 DEF UndoIndex, Job
<1>3. fileNodes' = {} /\ m_SelectedNodes' = {} /\ Empty'
  BY ResetEmpties DEF UndoIndex
<1>4. depth' = 1 /\ Gate' /\ status' # "undefined"
  BY DEF QuietInv, Gate, windowVars, UndoIndex
<1>5. Owned' /\ SelectionInTree'
  BY <1>3 DEF Owned, SelectionInTree
<1>6. EmptyFirst' /\ ToLoad' /\ Handed'
  BY <1>2, <1>3, <1>4 DEF EmptyFirst, ToLoad, Handed, PackageSteps
<1> QED BY <1>4, <1>5, <1>6 DEF QuietInv

LEMMA LoadedQuiet ==
  ASSUME TypeInv, QuietInv, Loaded(1), depth = 1
  PROVE  QuietInv'
<1> DEFINE s == jobs[1].todo
           next == IF Independent(1) THEN "ready" ELSE IF Len(s) > 1 THEN "call" ELSE "wrapUp"
           j == [jobs[1] EXCEPT !.todo = Tail(s), !.pc = next, !.ok = Independent(1)]
<1>1. jobs[1] \in Job /\ 1 \in DOMAIN jobs /\ jobs[1].pc = "loaded" /\ JobShape(jobs[1])
  BY AtFacts, WindowAssumption DEF Loaded, TypeInv, TypeOK
<1>2. jobs'[1] = j
  BY <1>1 DEF Loaded
<1>3. UNCHANGED windowVars /\ UNCHANGED archiveVars /\ m_bGenerated' = TRUE
  BY DEF Loaded, PackageLoaded, archiveVars, treeVars
<1>4. s \in Seq(Pkgs) /\ s # <<>>
  BY <1>1 DEF Job, JobShape, PackageSteps
<1>5. Len(s) \in Nat \ {0} /\ Len(Tail(s)) = Len(s) - 1
      /\ \A i \in 1..Len(Tail(s)) : Tail(s)[i] = s[i + 1]
  BY <1>4, HeadTailProperties, LenProperties
<1>6. /\ \A i, k \in 1..Len(s) : s[i] = s[k] => i = k
      /\ \A i \in 2..Len(s) : m_PkgFiles[s[i]] = NoObj
  BY <1>1 DEF QuietInv, ToLoad, PackageSteps
<1>7. /\ \A i \in 1..Len(Tail(s)) : i + 1 \in 1..Len(s) /\ i + 1 \in 2..Len(s) /\ i \in Int
      /\ \A i, k \in 1..Len(Tail(s)) : i + 1 = k + 1 => i = k
  BY <1>5
<1>8. /\ \A i, k \in 1..Len(Tail(s)) : Tail(s)[i] = Tail(s)[k] => i = k
      /\ \A i \in 1..Len(Tail(s)) : m_PkgFiles[Tail(s)[i]] = NoObj
  BY <1>5, <1>6, <1>7
<1>9. j.todo = Tail(s) /\ j.pc = next /\ j.kind = jobs[1].kind
  BY <1>1 DEF Job
<1>10. /\ next \in {"ready", "call", "wrapUp"}
       /\ next = "call" => jobs[1].kind # "package"
  BY DEF Independent
<1> HIDE DEF j, next
<1> QED BY <1>1, <1>2, <1>3, <1>8, <1>9, <1>10, JobStepQuiet

LEMMA LoadQuiet ==
  ASSUME TypeInv, QuietInv, depth = 1,
         \/ CallLoadPackage(1) \/ ParseFails(1) \/ CallLoadIndex(1) \/ ReadIndex(1)
         \/ ReadIndexFails(1) \/ DetectIndexThrows(1) \/ WrapUpIndex(1)
  PROVE  QuietInv'
<1>1. jobs[1] \in Job /\ 1 \in DOMAIN jobs /\ 1 \in 1..MaxDepth
  BY WindowAssumption DEF TypeInv, TypeOK
<1>2. CASE CallLoadPackage(1)
  <2> DEFINE j == [jobs[1] EXCEPT !.pc = "parse"]
  <2>1. jobs[1].pc = "call" /\ jobs'[1] = j
    BY <1>1, <1>2 DEF CallLoadPackage, At
  <2>2. j.pc = "parse" /\ j.todo = jobs[1].todo /\ j.kind = jobs[1].kind
    BY <1>1 DEF Job
  <2>3. UNCHANGED windowVars /\ UNCHANGED archiveVars
    BY <1>2 DEF CallLoadPackage, SetBusy, archiveVars, treeVars
  <2> HIDE DEF j
  <2>4. /\ j.kind = "package" => Empty
        /\ \A i, k \in 1..Len(j.todo) : j.todo[i] = j.todo[k] => i = k
        /\ \A i \in 1..Len(j.todo) : m_PkgFiles[j.todo[i]] = NoObj
    BY <2>1, <2>2 DEF QuietInv, EmptyFirst, ToLoad, PackageSteps
  <2> QED BY <2>1, <2>2, <2>3, <2>4, JobStepQuiet
<1>3. CASE ParseFails(1)
  <2> DEFINE next == IF Independent(1) THEN "ready" ELSE "undo"
             j == [jobs[1] EXCEPT !.pc = next]
  <2>1. jobs[1].pc = "parse" /\ jobs'[1] = j
    BY <1>1, <1>3 DEF ParseFails, At
  <2>2. j.pc = next
    BY <1>1 DEF Job
  <2>3. UNCHANGED windowVars /\ UNCHANGED archiveVars
    BY <1>3 DEF ParseFails, PackageFails, archiveVars, treeVars
  <2>4. next = "undo" \/ (next = "ready" /\ Empty)
    BY <2>1 DEF QuietInv, EmptyFirst, Independent
  <2> HIDE DEF j, next
  <2> QED BY <2>1, <2>2, <2>3, <2>4, JobStepQuiet DEF PackageSteps
<1>4. CASE CallLoadIndex(1)
  <2> DEFINE j == [jobs[1] EXCEPT !.pc = "read"]
  <2>1. jobs[1].pc = "index" /\ jobs'[1] = j
    BY <1>1, <1>4 DEF CallLoadIndex, At
  <2>2. j.pc = "read"
    BY <1>1 DEF Job
  <2>3. UNCHANGED windowVars /\ UNCHANGED archiveVars /\ Empty
    BY <1>4, <2>1 DEF CallLoadIndex, SetBusy, archiveVars, treeVars, QuietInv, EmptyFirst
  <2> HIDE DEF j
  <2> QED BY <2>1, <2>2, <2>3, JobStepQuiet DEF PackageSteps
<1>5. CASE ReadIndex(1)
  <2> DEFINE next == IF IndexOf[Folder(1)] = <<>> THEN "wrapUp" ELSE "call"
             j == [jobs[1] EXCEPT !.pc = next, !.todo = IndexOf[Folder(1)]]
  <2>1. jobs[1].pc = "read" /\ jobs'[1] = j
    BY <1>1, <1>5 DEF ReadIndex, At
  <2>2. j.pc = next /\ next \in {"wrapUp", "call"} /\ j.todo = IndexOf[Folder(1)]
    BY <1>1 DEF Job
  <2>3. UNCHANGED windowVars /\ UNCHANGED archiveVars /\ Empty
    BY <1>5, <2>1 DEF ReadIndex, modelVars, archiveVars, QuietInv, EmptyFirst
  <2>4. Folder(1) \in Folders
    BY <1>1, <1>5, AtFacts DEF ReadIndex, LoadSteps
  <2> HIDE DEF j, next
  <2>5. /\ \A i, k \in 1..Len(j.todo) : j.todo[i] = j.todo[k] => i = k
        /\ \A i \in 1..Len(j.todo) : j.todo[i] \in Pkgs
    BY <2>2, <2>4, IndexAssumption, ElementOfSeq
  <2> QED BY <2>1, <2>2, <2>3, <2>5, JobStepQuiet DEF Empty
<1>6. CASE ReadIndexFails(1) \/ DetectIndexThrows(1)
  <2> DEFINE next == IF ReadIndexFails(1) THEN "ready" ELSE "thrown"
             j == [jobs[1] EXCEPT !.pc = next]
  <2>1. jobs[1].pc = "read" /\ jobs'[1] = j
    BY <1>1, <1>6 DEF ReadIndexFails, DetectIndexThrows, At
  <2>2. j.pc = next /\ next \in {"ready", "thrown"}
    BY <1>1 DEF Job
  <2>3. UNCHANGED windowVars /\ UNCHANGED archiveVars /\ Empty
    BY <1>6, <2>1 DEF ReadIndexFails, DetectIndexThrows, IndexUnreadable, modelVars, treeVars,
       archiveVars, QuietInv, EmptyFirst
  <2> HIDE DEF j, next
  <2> QED BY <2>1, <2>2, <2>3, JobStepQuiet DEF PackageSteps
<1>7. CASE WrapUpIndex(1)
  <2> DEFINE j == [jobs[1] EXCEPT !.pc = "ready", !.ok = TRUE]
  <2>1. jobs[1].pc = "wrapUp" /\ jobs'[1] = j
    BY <1>1, <1>7 DEF WrapUpIndex, At
  <2>2. j.pc = "ready"
    BY <1>1 DEF Job
  <2>3. UNCHANGED windowVars /\ UNCHANGED archiveVars /\ m_bGenerated' = m_bGenerated
    BY <1>7 DEF WrapUpIndex, IndexLoaded, archiveVars, treeVars
  <2>4. ~m_bGenerated => Empty
    BY <2>1 DEF QuietInv, EmptyFirst
  <2> HIDE DEF j
  <2> QED BY <2>1, <2>2, <2>3, <2>4, JobStepQuiet DEF PackageSteps
<1> QED BY <1>2, <1>3, <1>4, <1>5, <1>6, <1>7

\* What an extraction is about to work with exists: the selection and the
\* nodes it was given are in the tree, and their packages in the map.
LEMMA TargetsExist ==
  ASSUME TypeInv, QuietInv, depth = 1, jobs[1].pc = "capture"
  PROVE  Targets(1) \subseteq treeNodes /\ fileNodes \subseteq LoadedFiles
<1>1. m_SelectedNodes \subseteq treeNodes /\ jobs[1].nodes \subseteq treeNodes
  BY DEF QuietInv, SelectionInTree, Handed
<1>2. fileNodes \subseteq LoadedFiles
  BY DEF QuietInv, Owned
<1> QED BY <1>1, <1>2 DEF Targets

LEMMA CaptureQuiet ==
  ASSUME TypeInv, QuietInv, depth = 1, Capture(1)
  PROVE  QuietInv'
<1> DEFINE S == {[name |-> p, obj |-> m_PkgFiles[p]] : p \in Owners(1)}
           next == IF Owners(1) = {} THEN "ready" ELSE "write"
           none == Owners(1) = {}
           j == [jobs[1] EXCEPT !.nodes = Targets(1), !.pkgs = S, !.path = m_CurrentParentPath,
                                !.pc = next, !.ok = none]
<1>1. jobs[1] \in Job /\ 1 \in DOMAIN jobs /\ jobs[1].pc = "capture"
  <2>1. At(1, "capture")
    BY DEF Capture
  <2> QED BY <2>1, WindowAssumption DEF At, TypeInv, TypeOK
<1>2. jobs'[1] = j
  BY <1>1 DEF Capture
<1>3. j.pc = next /\ j.nodes = Targets(1) /\ j.pkgs = S
  BY <1>1 DEF Job
<1>4. UNCHANGED windowVars /\ UNCHANGED archiveVars /\ m_bGenerated' = m_bGenerated
  BY DEF Capture, modelVars, archiveVars
<1>5. Targets(1) \subseteq treeNodes
  BY <1>1, TargetsExist
<1>6. S \subseteq LoadedFiles
  BY DEF Capture, LoadedFiles
<1>7. ~m_bGenerated => Empty
  BY <1>1 DEF QuietInv, EmptyFirst
<1>8. next \in {"ready", "write"}
  OBVIOUS
<1> HIDE DEF j, S, next
<1> QED BY <1>1, <1>2, <1>3, <1>4, <1>5, <1>6, <1>7, <1>8, JobStepQuiet DEF PackageSteps

LEMMA WriteQuiet ==
  ASSUME TypeInv, QuietInv, depth = 1,
         CaptureThrows(1) \/ WritePackage(1) \/ WriteFails(1) \/ WriteThrows(1)
  PROVE  QuietInv'
<1>1. jobs[1] \in Job /\ 1 \in DOMAIN jobs /\ jobs[1].pc \in {"capture", "write"}
  <2>1. At(1, "capture") \/ At(1, "write")
    BY DEF CaptureThrows, WritePackage, WriteFails, WriteThrows
  <2> QED BY <2>1, WindowAssumption DEF At, TypeInv, TypeOK
<1>2. UNCHANGED windowVars /\ UNCHANGED archiveVars /\ m_bGenerated' = m_bGenerated
  BY DEF CaptureThrows, WritePackage, WriteFails, WriteThrows, modelVars, archiveVars
<1>3. ~m_bGenerated => Empty
  BY <1>1 DEF QuietInv, EmptyFirst
<1>4. CASE CaptureThrows(1) \/ WriteThrows(1)
  <2> DEFINE j == [jobs[1] EXCEPT !.pc = "thrown"]
  <2>1. jobs'[1] = j /\ j.pc = "thrown"
    BY <1>1, <1>4 DEF CaptureThrows, WriteThrows, Job
  <2> HIDE DEF j
  <2> QED BY <1>1, <1>2, <2>1, JobStepQuiet DEF PackageSteps
<1>5. CASE WriteFails(1)
  <2> DEFINE j == [jobs[1] EXCEPT !.pc = "ready"]
  <2>1. jobs'[1] = j /\ j.pc = "ready"
    BY <1>1, <1>5 DEF WriteFails, Job
  <2> HIDE DEF j
  <2> QED BY <1>1, <1>2, <1>3, <2>1, JobStepQuiet DEF PackageSteps
<1>6. CASE WritePackage(1)
  <2>1. PICK k \in jobs[1].pkgs :
          jobs' = [jobs EXCEPT ![1].pkgs = @ \ {k},
                               ![1].pc   = IF jobs[1].pkgs = {k} THEN "ready" ELSE "write",
                               ![1].ok   = jobs[1].pkgs = {k}]
    BY <1>6 DEF WritePackage
  <2> DEFINE next == IF jobs[1].pkgs = {k} THEN "ready" ELSE "write"
             last == jobs[1].pkgs = {k}
             j == [jobs[1] EXCEPT !.pkgs = jobs[1].pkgs \ {k}, !.pc = next, !.ok = last]
  <2>2. jobs'[1] = j
    BY <1>1, <2>1
  <2>3. j.pc = next /\ j.nodes = jobs[1].nodes /\ j.pkgs = jobs[1].pkgs \ {k}
    BY <1>1 DEF Job
  <2>4. jobs[1].nodes \subseteq treeNodes /\ jobs[1].pkgs \subseteq LoadedFiles
    BY <1>6 DEF WritePackage, At, QuietInv, Handed
  <2>5. next \in {"ready", "write"}
    OBVIOUS
  <2> HIDE DEF j, next, last
  <2> QED BY <1>1, <1>2, <1>3, <2>2, <2>3, <2>4, <2>5, JobStepQuiet DEF PackageSteps
<1> QED BY <1>4, <1>5, <1>6

\* The thread never reads what is gone.
LEMMA NeverUndefined ==
  ASSUME TypeInv, QuietInv, depth = 1
  PROVE  ~CaptureUndefined(1) /\ ~WriteUndefined(1)
<1>1. ~CaptureUndefined(1)
  BY TargetsExist DEF CaptureUndefined, At
<1>2. ASSUME jobs[1].pc = "write", NEW k \in jobs[1].pkgs PROVE Exists(1, k)
  <2>1. jobs[1].nodes \subseteq treeNodes /\ k \in LoadedFiles /\ fileNodes \subseteq LoadedFiles
    BY <1>2 DEF QuietInv, Handed, Owned
  <2>2. FilesOf(jobs[1].nodes) \subseteq fileNodes
    <3> SUFFICES ASSUME NEW n \in jobs[1].nodes, NEW f \in FilesUnder(n) PROVE f \in fileNodes
      BY DEF FilesOf
    <3>1. CASE IsDirectory(n)
      BY <3>1 DEF FilesUnder
    <3>2. CASE ~IsDirectory(n)
      <4>1. f = n /\ n \in treeNodes
        BY <2>1, <3>2 DEF FilesUnder
      <4>2. n \notin dirNodes
        BY <3>2 DEF IsDirectory, dirNodes
      <4> QED BY <4>1, <4>2 DEF treeNodes
    <3> QED BY <3>1, <3>2
  <2>3. \A f \in LoadedFiles : f.name = k.name => f.obj = k.obj
    BY <2>1 DEF LoadedFiles
  <2> QED BY <2>1, <2>2, <2>3 DEF Exists
<1>3. ~WriteUndefined(1)
  BY <1>2 DEF WriteUndefined, At
<1> QED BY <1>1, <1>3

LEMMA QuietStep == ~DropsDuringJobs /\ TypeInv /\ QuietInv /\ [Next]_vars => QuietInv'
<1> SUFFICES ASSUME ~DropsDuringJobs, TypeInv, QuietInv, [Next]_vars PROVE QuietInv'
  OBVIOUS
<1>1. CASE Handler
  BY <1>1, HandlerQuiet
<1>2. CASE FinishJob
  BY <1>2, FinishJobQuiet
<1>3. CASE JobThrows \/ UNCHANGED vars
  <2>1. /\ UNCHANGED <<jobs, depth, widgetsEnabled, archiveEnabled, m_PkgFiles,
                       fileNodes, m_DirectoryNodes, m_bGenerated>>
        /\ UNCHANGED archiveVars
        /\ status' # "undefined"
    BY <1>3 DEF JobThrows, vars, modelVars, windowVars, archiveVars, QuietInv
  <2> QED BY <2>1, SameArchive, SameJobsQuiet DEF QuietInv
<1>4. ASSUME NEW d \in 1..MaxDepth, Worker(d) PROVE QuietInv'
  <2>1. d <= depth
    BY <1>4 DEF Worker, At, CallLoadPackage, Parse, ParseFails, Publish, Loaded, CallLoadIndex,
       ReadIndex, ReadIndexFails, DetectIndexThrows, UndoIndex, WrapUpIndex, Capture,
       CaptureUndefined, CaptureThrows, WritePackage, WriteFails, WriteThrows, WriteUndefined
  <2>2. d = 1 /\ depth = 1
    BY <2>1, OneThread
  <2> QED BY <1>4, <2>2, ParseQuiet, PublishQuiet, UndoQuiet, LoadedQuiet, LoadQuiet,
       CaptureQuiet, WriteQuiet, NeverUndefined DEF Worker
<1> QED BY <1>1, <1>2, <1>3, <1>4 DEF Next, Stopped

LEMMA InitQuiet == Init => QuietInv
<1> SUFFICES ASSUME Init PROVE QuietInv
  OBVIOUS
<1>1. depth = 0 /\ fileNodes = {} /\ m_SelectedNodes = {} /\ status = "running" /\ Empty
  BY DEF Init, ModelInit, Empty
<1> QED BY <1>1 DEF QuietInv, Gate, SelectionInTree, Owned, EmptyFirst, ToLoad, Handed

\* Without drops during jobs: the invariant the next theorems follow from.
THEOREM QuietInvariant == ~DropsDuringJobs => (Spec => []QuietInv)
<1> SUFFICES ASSUME ~DropsDuringJobs PROVE Spec => []QuietInv
  OBVIOUS
<1>1. TypeInv /\ QuietInv /\ [Next]_vars => QuietInv'
  BY QuietStep
<1> QED BY <1>1, InitQuiet, TypeInvariant, PTL DEF Spec

-----------------------------------------------------------------------------
\* With no drops while a job runs, the disabled widgets keep a second job out.
THEOREM OneJob == Spec => []OneJobAtATime
<1>1. CASE ~DropsDuringJobs
  <2>1. QuietInv => OneJobAtATime
    BY DEF QuietInv, Gate, OneJobAtATime
  <2>2. Spec => []QuietInv
    BY <1>1, QuietInvariant
  <2> QED BY <2>1, <2>2, PTL
<1>2. CASE DropsDuringJobs
  <2>1. TypeInv => OneJobAtATime
    BY <1>2 DEF OneJobAtATime
  <2> QED BY <2>1, TypeInvariant, PTL
<1> QED BY <1>1, <1>2

\* With no drops while a job runs, no thread reads a node or a PkgFile that
\* was freed.
THEOREM MemoryIsSafe == Spec => []MemorySafe
<1>1. CASE ~DropsDuringJobs
  <2>1. QuietInv => MemorySafe
    BY DEF QuietInv, MemorySafe
  <2>2. Spec => []QuietInv
    BY <1>1, QuietInvariant
  <2> QED BY <2>1, <2>2, PTL
<1>2. CASE DropsDuringJobs
  <2>1. TypeInv => MemorySafe
    BY <1>2 DEF MemorySafe
  <2> QED BY <2>1, TypeInvariant, PTL
<1> QED BY <1>1, <1>2

\* With no drops while a job runs, every file node points into a PkgFile the
\* model owns or is about to own.
THEOREM NodesAreOwned == ~DropsDuringJobs => (Spec => []NodesOwned)
<1> SUFFICES ASSUME ~DropsDuringJobs PROVE Spec => []NodesOwned
  OBVIOUS
<1>1. TypeInv /\ QuietInv => NodesOwned
  <2> SUFFICES ASSUME TypeInv, QuietInv, NEW f \in fileNodes, f \notin LoadedFiles
               PROVE  \E d \in 1..depth : jobs[d].obj = f.obj /\ Pkg(d) = f.name
    BY DEF NodesOwned
  <2>1. depth = 1 /\ f = [name |-> Pkg(1), obj |-> jobs[1].obj]
    BY DEF QuietInv, Owned
  <2>2. 1 \in 1..depth
    BY <2>1
  <2> QED BY <2>1, <2>2
<1>2. Spec => []QuietInv
  BY QuietInvariant
<1> QED BY <1>1, <1>2, TypeInvariant, PTL

\* With no drops while a job runs, a step taken while an extraction runs
\* leaves the packages, the tree and their folder as they are.
THEOREM ExtractionIsUndisturbed == ~DropsDuringJobs => (Spec => ExtractionUndisturbed)
<1> DEFINE Same == UNCHANGED <<m_PkgFiles, m_DirectoryNodes, fileNodes, m_CurrentParentPath>>
<1> SUFFICES ASSUME ~DropsDuringJobs PROVE Spec => ExtractionUndisturbed
  OBVIOUS
<1>1. ASSUME TypeInv, QuietInv, [Next]_vars, NEW e \in 1..MaxDepth, Extracting(e)
      PROVE  Same
  <2>1. e = 1 /\ depth = 1 /\ ~widgetsEnabled /\ ~archiveEnabled
    BY <1>1, OneThread DEF Extracting, QuietInv, Gate
  <2>2. CASE Handler
    <3>1. CASE OnExtractAll \/ OnExtractClick \/ OnQuitButton
               \/ \E n \in m_SelectedNodes \cup fileNodes : Preview(n)
      BY <3>1 DEF OnExtractAll, OnExtractClick, OnQuitButton, Preview, modelVars
    <3>2. CASE \E n \in treeNodes, toggle \in BOOLEAN : Select(n, toggle)
      BY <3>2 DEF Select, OnSelectionChanged
    <3>3. ~ \E folder \in Folders, p \in Pkgs : OpenPackage(folder, p) \/ DropPackage(folder, p)
      BY <2>1 DEF OpenPackage, DropPackage, Waiting
    <3>4. ~ \E folder \in Folders : OpenIndex(folder)
      BY <2>1 DEF OpenIndex
    <3> QED BY <2>2, <3>1, <3>2, <3>3, <3>4 DEF Handler
  <2>3. CASE FinishJob \/ JobThrows \/ UNCHANGED vars
    BY <2>3 DEF FinishJob, JobThrows, vars, modelVars
  <2>4. ASSUME NEW d \in 1..MaxDepth, Worker(d) PROVE Same
    <3>1. d <= depth
      BY <2>4 DEF Worker, At, CallLoadPackage, Parse, ParseFails, Publish, Loaded, CallLoadIndex,
         ReadIndex, ReadIndexFails, DetectIndexThrows, UndoIndex, WrapUpIndex, Capture,
         CaptureUndefined, CaptureThrows, WritePackage, WriteFails, WriteThrows, WriteUndefined
    <3>2. d = 1 /\ jobs[1].kind \notin LoadKinds
      BY <1>1, <2>1, <3>1, OneThread DEF Extracting, LoadKinds, ExtractKinds
    <3>3. jobs[1].pc \notin LoadSteps
      BY <1>1, <3>2 DEF TypeInv, Shape, JobShape
    <3>4. CASE Capture(1) \/ CaptureUndefined(1) \/ CaptureThrows(1) \/ WritePackage(1)
               \/ WriteFails(1) \/ WriteThrows(1) \/ WriteUndefined(1)
      BY <3>4 DEF Capture, CaptureUndefined, CaptureThrows, WritePackage, WriteFails,
         WriteThrows, WriteUndefined, Undefined, modelVars
    <3>5. \A step \in LoadSteps : ~At(1, step)
      BY <3>3 DEF At
    <3>6. ~(CallLoadPackage(1) \/ Parse(1) \/ ParseFails(1) \/ Publish(1) \/ Loaded(1))
      BY <3>5 DEF CallLoadPackage, Parse, ParseFails, Publish, Loaded, LoadSteps, PackageSteps
    <3>7. ~(CallLoadIndex(1) \/ ReadIndex(1) \/ ReadIndexFails(1) \/ DetectIndexThrows(1)
            \/ UndoIndex(1) \/ WrapUpIndex(1))
      BY <3>5 DEF CallLoadIndex, ReadIndex, ReadIndexFails, DetectIndexThrows, UndoIndex,
         WrapUpIndex, LoadSteps
    <3> QED BY <2>4, <3>2, <3>4, <3>6, <3>7 DEF Worker
  <2> QED BY <1>1, <2>2, <2>3, <2>4 DEF Next, Stopped
<1>2. TypeInv /\ QuietInv /\ [Next]_vars
        => [(\E d \in 1..MaxDepth : Extracting(d)) => Same]_vars
  BY <1>1
<1>3. Spec => []QuietInv
  BY QuietInvariant
<1> QED BY <1>2, <1>3, TypeInvariant, PTL DEF Spec, ExtractionUndisturbed
=============================================================================
