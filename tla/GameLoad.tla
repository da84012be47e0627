------------------------------- MODULE GameLoad -------------------------------
(***************************************************************************)
(* From the directory a user names to decrypted packages: the dialog that  *)
(* detects the game in a directory (LoadIndexDialog), the factory that     *)
(* opens its index (IndexFactory) and the one that opens the packages the  *)
(* index names (PkgFactory), with the dialog's provider.  A package opened *)
(* by itself is asked for without one, and its provider is guessed.        *)
(***************************************************************************)
EXTENDS LoadIndexDialog, PkgFactory, IndexFactory

CONSTANTS IndexIn,     \* directory -> the collections that open its index
          PkgsIn       \* directory -> the packages its index names

ASSUME GameAssumption ==
  /\ IndexIn \in [Directories -> SUBSET Collections]
  /\ PkgsIn \in [Directories -> Seq(PkgFiles)]

VARIABLES gameAt,      \* what LoadIndex is at
          todo,        \* the packages it still has to load
          m_PkgFiles   \* the PkgFiles of the model, in the order they came

gameVars == <<gameAt, todo, m_PkgFiles>>
allVars  == <<vars, factoryVars, indexVars, gameVars>>

GameTypeOK ==
  /\ TypeOK /\ FactoryTypeOK /\ IndexTypeOK
  /\ gameAt \in {"idle", "index", "packages", "terminated"}
  /\ todo \in Seq(PkgFiles)
  /\ m_PkgFiles \in Seq([file : PkgFiles, lock : Lock])

GameInit ==
  /\ Init /\ FactoryInit /\ IndexInit
  /\ gameAt = "idle"
  /\ todo = <<>>
  /\ m_PkgFiles = <<>>

\* The window waits for a job: its menu and the dialog are not available.
Free == gameAt = "idle" /\ factoryAt = "idle"

UseDialog ==
  /\ Free
  /\ \/ OnIndexFileOpen
     \/ \E dir \in Directories : NameDirectory(dir)
     \/ ClearLine
     \/ Cancel
  /\ UNCHANGED <<factoryVars, indexVars, gameVars>>

\* OnFileOpen, OnRecentFileOpen, dropEvent: a package alone.  What was open
\* is reset before, and in OnIndexFileAccepted.
OpenPackage ==
  /\ Free /\ ~open
  /\ \E f \in PkgFiles : LoadPackage(f, Unknown)
  /\ m_PkgFiles' = <<>>
  /\ UNCHANGED <<vars, indexVars, gameAt, todo>>

\* Ok, and OnIndexFileAccepted with the dialog's directory and provider.
OnIndexFileAccepted ==
  /\ Free
  /\ OnOkayButton
  /\ LoadIndex(IndexIn[accepted'.path])
  /\ gameAt' = "index"
  /\ todo' = <<>>
  /\ m_PkgFiles' = <<>>
  /\ UNCHANGED factoryVars

OpenIndex ==
  /\ gameAt = "index"
  /\ IndexStep
  /\ UNCHANGED <<vars, factoryVars, gameVars>>

\* What came of the index: its packages, an error, or an exception on the
\* job's thread, which ends the process.
IndexOpened ==
  /\ gameAt = "index" /\ Resting
  /\ gameAt' = CASE indexAt = "detected" -> "packages"
                 [] indexAt = "unreadable" -> "idle"
                 [] indexAt = "thrown" -> "terminated"
  /\ todo' = IF indexAt = "detected" THEN PkgsIn[accepted.path] ELSE <<>>
  /\ UNCHANGED <<vars, factoryVars, indexVars, m_PkgFiles>>

NextPackageGuesses ==    \* mutant: the provider is not passed on
  /\ gameAt = "packages" /\ factoryAt = "idle" /\ todo # <<>>
  /\ LoadPackage(Head(todo), Unknown)
  /\ todo' = Tail(todo)
  /\ UNCHANGED <<vars, indexVars, gameAt, m_PkgFiles>>
NextPackage ==
  /\ gameAt = "packages" /\ factoryAt = "idle" /\ todo # <<>>
  /\ LoadPackage(Head(todo), accepted.provider)
  /\ todo' = Tail(todo)
  /\ UNCHANGED <<vars, indexVars, gameAt, m_PkgFiles>>

\* The PkgFile LoadPackage has, with the key and layout it was given.
Handed == [file |-> file, lock |-> [key |-> m_pPkgFile.key, tfo |-> m_pPkgFile.tfo]]

OpenPkgFileGoesOn ==     \* mutant: LoadIndex does not look at what LoadPackage returns
  /\ FactoryStep
  /\ m_PkgFiles' = IF result' = "loaded" THEN Append(m_PkgFiles, Handed) ELSE m_PkgFiles
  /\ UNCHANGED <<vars, indexVars, gameAt, todo>>
\* The factory's part of LoadPackage and what comes of it: the PkgFile goes
\* into the map, or LoadIndex gives up and resets the model.  A package that
\* fails alone leaves the empty model it began with.
OpenPkgFile ==
  /\ FactoryStep
  /\ \/ /\ result' = "none"
        /\ UNCHANGED gameVars
     \/ /\ result' = "loaded"
        /\ m_PkgFiles' = Append(m_PkgFiles, Handed)
        /\ UNCHANGED <<gameAt, todo>>
     \/ /\ result' = "failed"
        /\ gameAt' = "idle" /\ todo' = <<>> /\ m_PkgFiles' = <<>>
  /\ UNCHANGED <<vars, indexVars>>

IndexDone ==
  /\ gameAt = "packages" /\ factoryAt = "idle" /\ todo = <<>>
  /\ gameAt' = "idle"
  /\ UNCHANGED <<vars, factoryVars, indexVars, todo, m_PkgFiles>>

Stopped == gameAt = "terminated" /\ UNCHANGED allVars

GameNext ==
  \/ UseDialog \/ OpenPackage \/ OnIndexFileAccepted
  \/ OpenIndex \/ IndexOpened \/ NextPackage \/ OpenPkgFile \/ IndexDone
  \/ Stopped

GameSpec == GameInit /\ [][GameNext]_allVars

-----------------------------------------------------------------------------
\* No provider is guessed for a package of an index: it is the one detected
\* in the very directory the index is loaded from, whatever the user typed
\* and corrected, and nothing changes it while the packages are loaded.
IndexIsNotGuessed ==
  gameAt \in {"index", "packages"} =>
    /\ accepted.provider # Unknown
    /\ accepted = GameDataIn(accepted.path)
    /\ gameAt = "packages" /\ factoryAt # "idle" => asked = accepted.provider

-----------------------------------------------------------------------------
\* The abstract opening: keys that are tried, headers and vectors are hidden.

LockOf(provider) == [key |-> KeyOf[provider], tfo |-> IsTfo(provider)]
Games == {dir \in Directories : WasGameDetected(GameDataIn(dir))}

Stage == CASE gameAt = "idle" -> IF factoryAt = "idle" THEN "rest" ELSE "package"
           [] gameAt = "terminated" -> "ended"
           [] OTHER -> gameAt

\* The package that is being opened and those after it.
Pending == IF factoryAt = "idle" THEN todo ELSE <<file>> \o todo

Opening == INSTANCE PackageOpening WITH
  Files    <- PkgFiles,
  Guesses  <- {LockOf(provider) : provider \in Providers},
  Games    <- Games,
  GameLock <- [dir \in Games |-> LockOf(ProviderIn[dir])],
  Named    <- PkgsIn,
  Readable <- {dir \in Directories : IndexIn[dir] # {}},
  NoGame   <- Empty,
  stage    <- Stage,
  game     <- accepted.path,
  pending  <- Pending,
  opened   <- m_PkgFiles

\* Whatever keys were tried and whatever they made of the bytes, a load opens
\* the packages it was asked for, in order, each with a key and layout that
\* open it and, below an index, with those of the game in its directory; it
\* leaves all of them in the model or none; and only an index that no
\* collection opens ends the process.
OpeningImplemented == Opening!Spec
=============================================================================
