--------------------------- MODULE GameLoad_proofs ---------------------------
(***************************************************************************)
(* Theorems about GameLoad: dialog and factory behave in it as they do     *)
(* alone, so what is proved of each holds of their composition, and the    *)
(* provider the dialog detected reaches every package of the index.        *)
(***************************************************************************)
EXTENDS GameLoad, LoadIndexDialog_proofs, PkgFactory_proofs

\* What the composition adds.  The dialog is not used while packages load,
\* and a package is only asked for when nothing is pending.
Carried ==
  /\ gameAt \in {"idle", "index", "packages", "terminated"}
  /\ todo \in Seq(PkgFiles)
  /\ m_PkgFiles \in Seq([file : PkgFiles, lock : Lock])
  /\ factoryAt # "idle" => file \in PkgFiles
  /\ gameAt \in {"index", "terminated"} => factoryAt = "idle"
  /\ gameAt # "packages" => todo = <<>>
  /\ gameAt = "index" \/ (gameAt = "idle" /\ factoryAt # "idle") => m_PkgFiles = <<>>
  /\ gameAt = "index" => indexAt # "idle" /\ indexOpens = IndexIn[accepted.path]
  /\ gameAt = "packages" /\ factoryAt # "idle" => asked = accepted.provider
  /\ gameAt \in {"index", "packages"} => /\ accepted.provider # Unknown
                                         /\ accepted = GameDataIn(accepted.path)
                                         /\ accepted.path \in Directories

IndexInv ==
  /\ IndexTypeOK
  /\ KnownIndexIsDetected
  /\ indexAt = "cs" => m_vIndexData = "cipher"
  /\ indexAt = "tfo" => m_vIndexData = "cipher" /\ "cs" \notin indexOpens

LEMMA ReadyToLoad ==
  ASSUME NEW f, NEW provider, LoadPackage(f, provider)
  PROVE  factoryAt = "idle" /\ factoryAt' # "idle" /\ asked' = provider /\ file' = f
BY DEF LoadPackage

\* A step of the composition is a step of each part, or leaves it alone.
LEMMA StepOfParts ==
  ASSUME FactoryInv, Carried, [GameNext]_allVars
  PROVE  [Next]_vars /\ [FactoryNext]_factoryVars
<1>1. CASE UseDialog
  BY <1>1 DEF UseDialog, Next
<1>2. CASE OpenPackage
  BY <1>2 DEF OpenPackage, FactoryNext
<1>3. CASE OnIndexFileAccepted
  BY <1>3 DEF OnIndexFileAccepted, Next
<1>4. CASE OpenIndex \/ IndexOpened \/ IndexDone \/ Stopped
  BY <1>4 DEF OpenIndex, IndexOpened, IndexDone, Stopped, allVars
<1>5. CASE NextPackage
  <2>1. Head(todo) \in PkgFiles
    BY <1>5 DEF NextPackage, Carried
  <2>2. accepted.provider \in Providers \cup {Unknown}
    BY <1>5, DirectoriesAssumption DEF NextPackage, Carried, GameDataIn
  <2> QED BY <1>5, <2>1, <2>2 DEF NextPackage, FactoryNext
<1>6. CASE OpenPkgFile
  BY <1>6 DEF OpenPkgFile, FactoryNext
<1>7. CASE UNCHANGED allVars
  BY <1>7 DEF allVars
<1> QED BY <1>1, <1>2, <1>3, <1>4, <1>5, <1>6, <1>7 DEF GameNext

LEMMA GameInitInv == GameInit => DialogInv /\ FactoryInv /\ IndexInv /\ Carried
<1> SUFFICES ASSUME GameInit PROVE DialogInv /\ FactoryInv /\ IndexInv /\ Carried
  OBVIOUS
<1>1. DialogInv /\ FactoryInv
  BY InitDialogInv, FactoryInitInv DEF GameInit
<1>2. IndexInv
  BY DEF GameInit, IndexInit, IndexInv, IndexTypeOK, KnownIndexIsDetected
<1>3. Carried
  BY DEF GameInit, FactoryInit, Carried
<1> QED BY <1>1, <1>2, <1>3

\* The opening of an index, whatever the collections make of its bytes.
LEMMA IndexStepInv ==
  ASSUME IndexInv, IndexStep
  PROVE  IndexInv'
<1> USE DEF IndexInv, IndexTypeOK, KnownIndexIsDetected, Collections, Parsed
<1>1. CASE ReadIndex
  BY <1>1 DEF ReadIndex
<1>2. CASE TestCsKeys
  BY <1>2 DEF TestCsKeys
<1>3. CASE TestTfoIndexKeys
  BY <1>3 DEF TestTfoIndexKeys
<1> QED BY <1>1, <1>2, <1>3 DEF IndexStep

\* What Ok hands on when it is used.
LEMMA OkHandsOn ==
  ASSUME DialogInv, OnOkayButton
  PROVE  /\ accepted'.provider # Unknown
         /\ accepted' = GameDataIn(accepted'.path)
         /\ accepted'.path \in Directories
BY DEF DialogInv, OkFits, OnOkayButton, WasGameDetected

LEMMA IndexInvStep ==
  ASSUME DialogInv, IndexInv, [GameNext]_allVars
  PROVE  IndexInv'
<1>1. CASE OnIndexFileAccepted
  <2>1. accepted'.path \in Directories
    BY <1>1, OkHandsOn DEF OnIndexFileAccepted
  <2>2. IndexIn[accepted'.path] \in SUBSET Collections
    BY <2>1, GameAssumption
  <2>3. LoadIndex(IndexIn[accepted'.path])
    BY <1>1 DEF OnIndexFileAccepted
  <2> QED BY <2>2, <2>3 DEF LoadIndex, IndexInv, IndexTypeOK, KnownIndexIsDetected
<1>2. CASE OpenIndex
  BY <1>2, IndexStepInv DEF OpenIndex
<1>3. CASE UNCHANGED indexVars
  BY <1>3 DEF indexVars, IndexInv, IndexTypeOK, KnownIndexIsDetected
<1>4. UseDialog \/ OpenPackage \/ IndexOpened \/ NextPackage \/ OpenPkgFile \/ IndexDone \/ Stopped
      \/ UNCHANGED allVars => UNCHANGED indexVars
  BY DEF UseDialog, OpenPackage, IndexOpened, NextPackage, OpenPkgFile, IndexDone, Stopped, allVars
<1> QED BY <1>1, <1>2, <1>3, <1>4 DEF GameNext

\* What the factory hands on opens the package that was asked for.
LEMMA HandedFits ==
  ASSUME FactoryInv, FactoryStep, result' = "loaded"
  PROVE  /\ factoryAt = "parse" /\ factoryAt' = "idle" /\ UNCHANGED file
         /\ Handed.lock \in file
         /\ m_DetectedProvider \in Providers
         /\ Handed.lock = LockOf(m_DetectedProvider)
         /\ asked # Unknown => m_DetectedProvider = asked
<1>1. factoryAt # "idle" => result = "none"
  BY DEF FactoryInv, FactoryTypeOK
<1>2. Parse
  BY <1>1 DEF FactoryStep, LoadBaseFileHeader, CreatePkgFile, TestCsKey, TestTfoKeys, TrySpecificProvider,
              LoadFullFileHeader, DecryptFullHeader, Fail
<1>3. factoryAt = "parse" /\ factoryAt' = "idle" /\ UNCHANGED file
  BY <1>2 DEF Parse, Fail
<1>4. m_pPkgFile.tfo \in BOOLEAN /\ ProviderFits /\ Found
  BY <1>3 DEF FactoryInv, FactoryTypeOK, Found
<1>5. m_pPkgFile.tfo = IsTfo(m_DetectedProvider)
  BY <1>4 DEF ProviderFits, IsTfo
<1> QED BY <1>3, <1>4, <1>5 DEF ProviderFits, Handed, LockOf

\* A step of the factory is for the package it was asked for, until it ends
\* with a result.
LEMMA FactoryStepFacts ==
  ASSUME FactoryInv, FactoryStep
  PROVE  /\ factoryAt # "idle" /\ UNCHANGED <<asked, file>>
         /\ factoryAt' # "idle" <=> result' = "none"
<1> USE DEF FactoryStep, LoadBaseFileHeader, CreatePkgFile, TestCsKey, TestTfoKeys, TrySpecificProvider,
            LoadFullFileHeader, DecryptFullHeader, Parse
<1>1. factoryAt # "idle" /\ UNCHANGED <<asked, file>>
  OBVIOUS
<1>2. result = "none"
  BY <1>1 DEF FactoryInv, FactoryTypeOK
<1>3. factoryAt' # "idle" <=> result' = "none"
  BY <1>2 DEF Fail, NextKey
<1> QED BY <1>1, <1>3

LEMMA CarriedStep ==
  ASSUME DialogInv, FactoryInv, IndexInv, Carried, [GameNext]_allVars
  PROVE  Carried'
<1>1. CASE UseDialog
  BY <1>1 DEF UseDialog, Free, Carried, gameVars, factoryVars
<1>2. CASE OpenPackage
  <2>1. PICK f \in PkgFiles : LoadPackage(f, Unknown)
    BY <1>2 DEF OpenPackage
  <2>2. file' \in PkgFiles
    BY <2>1, ReadyToLoad
  <2> QED BY <1>2, <2>2 DEF OpenPackage, Free, Carried
<1>3. CASE OnIndexFileAccepted
  BY <1>3, OkHandsOn DEF OnIndexFileAccepted, Free, Carried, factoryVars, LoadIndex
<1>4. CASE OpenIndex
  <2>1. indexAt' # "idle" /\ UNCHANGED indexOpens
    BY <1>4 DEF OpenIndex, IndexStep, ReadIndex, TestCsKeys, TestTfoIndexKeys
  <2> QED BY <1>4, <2>1 DEF OpenIndex, Carried, gameVars, factoryVars, vars
<1>5. CASE IndexOpened
  <2>1. PkgsIn[accepted.path] \in Seq(PkgFiles)
    BY <1>5, GameAssumption DEF IndexOpened, Carried
  <2>2. /\ gameAt' \in {"packages", "idle", "terminated"}
        /\ gameAt' # "packages" => todo' = <<>>
    <3>1. indexAt \in {"unreadable", "detected", "thrown"}
      BY <1>5 DEF IndexOpened, Resting, IndexInv, IndexTypeOK, Carried
    <3> QED BY <1>5, <3>1 DEF IndexOpened
  <2>3. factoryAt = "idle" /\ factoryAt' = "idle" /\ UNCHANGED <<accepted, m_PkgFiles>>
    BY <1>5 DEF IndexOpened, Carried, factoryVars, vars
  <2>4. todo' \in Seq(PkgFiles)
    BY <1>5, <2>1 DEF IndexOpened
  <2>5. /\ accepted.provider # Unknown /\ accepted = GameDataIn(accepted.path)
        /\ accepted.path \in Directories
    BY <1>5 DEF IndexOpened, Carried
  <2> QED BY <2>2, <2>3, <2>4, <2>5 DEF Carried
<1>6. CASE NextPackage
  BY <1>6, ReadyToLoad DEF NextPackage, Carried, vars
<1>7. CASE OpenPkgFile
  <2>1. UNCHANGED <<asked, file, accepted>> /\ factoryAt # "idle"
    BY <1>7, FactoryStepFacts DEF OpenPkgFile, vars
  <2>2. CASE gameAt' = "idle" /\ todo' = <<>> /\ m_PkgFiles' = <<>>
    BY <2>1, <2>2 DEF Carried
  <2>3. CASE UNCHANGED gameVars
    BY <1>7, <2>1, <2>3, FactoryStepFacts DEF OpenPkgFile, Carried, gameVars, indexVars
  <2>4. CASE result' = "loaded" /\ m_PkgFiles' = Append(m_PkgFiles, Handed) /\ UNCHANGED <<gameAt, todo>>
    <3>1. Handed \in [file : PkgFiles, lock : Lock]
      <4>1. Handed.lock \in file /\ file \in PkgFiles
        BY <1>7, <2>1, <2>4, HandedFits DEF OpenPkgFile, Carried
      <4>2. Handed.lock \in Lock
        BY <4>1, FactoryAssumption
      <4> QED BY <4>1, <4>2 DEF Handed
    <3>2. m_PkgFiles' \in Seq([file : PkgFiles, lock : Lock])
      BY <2>4, <3>1 DEF Carried
    <3>3. factoryAt' = "idle"
      BY <1>7, <2>4, HandedFits DEF OpenPkgFile
    <3> QED BY <1>7, <2>1, <2>4, <3>2, <3>3 DEF OpenPkgFile, Carried, indexVars
  <2> QED BY <1>7, <2>2, <2>3, <2>4 DEF OpenPkgFile
<1>8. CASE IndexDone
  BY <1>8 DEF IndexDone, Carried, vars, factoryVars
<1>9. CASE Stopped \/ UNCHANGED allVars
  BY <1>9 DEF Stopped, allVars, vars, factoryVars, indexVars, gameVars, Carried
<1> QED BY <1>1, <1>2, <1>3, <1>4, <1>5, <1>6, <1>7, <1>8, <1>9 DEF GameNext

\* The inductive invariant of the composition: that of each part, and what
\* is carried from the dialog to the packages.
THEOREM GameInvariant == GameSpec => [](DialogInv /\ FactoryInv /\ IndexInv /\ Carried)
<1> DEFINE Inv == DialogInv /\ FactoryInv /\ IndexInv /\ Carried
<1>1. Inv /\ [GameNext]_allVars => Inv'
  BY StepOfParts, NextDialogInv, FactoryNextInv, IndexInvStep, CarriedStep
<1>2. GameInit => Inv
  BY GameInitInv
<1> HIDE DEF Inv
<1>3. GameSpec => []Inv
  BY <1>1, <1>2, PTL DEF GameSpec
<1> QED BY <1>3 DEF Inv

\* In the composition the factory is used as PkgFactory says, and the dialog
\* as LoadIndexDialog says: what is proved of them alone holds of it.
THEOREM GameUsesItsParts == GameSpec => Spec /\ FactorySpec
<1>1. FactoryInv /\ Carried /\ [GameNext]_allVars => [Next]_vars /\ [FactoryNext]_factoryVars
  BY StepOfParts
<1>2. GameInit => Init /\ FactoryInit
  BY DEF GameInit
<1> QED BY <1>1, <1>2, GameInvariant, PTL DEF GameSpec, Spec, FactorySpec

\* Dialog, factories and what is between them stay in their types.
THEOREM GameTypeCorrect == GameSpec => []GameTypeOK
<1>1. DialogInv /\ FactoryInv /\ IndexInv /\ Carried => GameTypeOK
  BY DEF DialogInv, FactoryInv, IndexInv, Carried, GameTypeOK
<1> QED BY <1>1, GameInvariant, PTL

\* The provider of a package is one whose key and layout open it.
THEOREM ProviderDoesFit == GameSpec => []ProviderFits
<1>1. FactoryInv => ProviderFits
  BY DEF FactoryInv
<1> QED BY <1>1, GameInvariant, PTL

\* No header is decrypted or parsed through a pointer into a replaced vector.
THEOREM FreshHeaderIsParsed == GameSpec => []ParsesFreshHeader
<1>1. FactoryInv => ParsesFreshHeader
  BY DEF FactoryInv
<1> QED BY <1>1, GameInvariant, PTL

\* A guess passes a provider that opens the package over only after the key
\* right before its own threw, for any keys in any order.
THEOREM OnlyThrowsHidePackages == GameSpec => []MissedOnlyAfterThrow
<1>1. FactoryInv => MissedOnlyAfterThrow
  BY DEF FactoryInv
<1> QED BY <1>1, GameInvariant, PTL

\* An index that one of the collections opens is detected.
THEOREM KnownIndexDetected == GameSpec => []KnownIndexIsDetected
<1>1. IndexInv => KnownIndexIsDetected
  BY DEF IndexInv
<1> QED BY <1>1, GameInvariant, PTL

\* The packages of an index are opened with the provider detected for it.
THEOREM NoGuessForAnIndex == GameSpec => []IndexIsNotGuessed
<1>1. Carried => IndexIsNotGuessed
  BY DEF Carried, IndexIsNotGuessed
<1> QED BY <1>1, GameInvariant, PTL

-----------------------------------------------------------------------------
\* GameLoad implements PackageOpening.

openingVars == <<Stage, accepted.path, Pending, m_PkgFiles>>

StageIsAsNamed ==
  /\ gameAt = "idle" /\ factoryAt = "idle" => Stage = "rest"
  /\ gameAt = "idle" /\ factoryAt # "idle" => Stage = "package"
  /\ gameAt = "terminated" => Stage = "ended"
  /\ gameAt \in {"index", "packages"} => Stage = gameAt

LEMMA StageSeen == StageIsAsNamed /\ StageIsAsNamed'
<1>1. StageIsAsNamed
  BY DEF StageIsAsNamed, Stage
<1>2. StageIsAsNamed'
  BY DEF StageIsAsNamed, Stage
<1> QED BY <1>1, <1>2

LEMMA OneMore ==
  ASSUME NEW S, NEW f \in S, NEW s \in Seq(S)
  PROVE  /\ <<f>> \o s # <<>>
         /\ Head(<<f>> \o s) = f
         /\ Tail(<<f>> \o s) = s
OBVIOUS

\* What is pending while a package is opened.
LEMMA PendingFacts ==
  ASSUME Carried
  PROVE  /\ factoryAt # "idle" => /\ Pending # <<>>
                                  /\ Head(Pending) = file
                                  /\ Tail(Pending) = todo
         /\ factoryAt = "idle" => Pending = todo
<1>1. ASSUME factoryAt # "idle"
      PROVE  Pending # <<>> /\ Head(Pending) = file /\ Tail(Pending) = todo
  <2>1. file \in PkgFiles /\ todo \in Seq(PkgFiles)
    BY <1>1 DEF Carried
  <2>2. Pending = <<file>> \o todo
    BY <1>1 DEF Pending
  <2> QED BY <2>1, <2>2, OneMore
<1> QED BY <1>1 DEF Pending

LEMMA Hidden ==
  ASSUME UNCHANGED openingVars
  PROVE  UNCHANGED Opening!vars
BY DEF openingVars, Opening!vars

LEMMA InitImplements == GameInit => Opening!Init
<1> SUFFICES ASSUME GameInit PROVE Opening!Init
  OBVIOUS
<1>1. Stage = "rest" /\ Pending = <<>>
  BY StageSeen DEF StageIsAsNamed, GameInit, FactoryInit, Pending
<1>2. accepted.path = Empty /\ m_PkgFiles = <<>>
  BY DEF GameInit, Init, NoGame
<1> QED BY <1>1, <1>2 DEF Opening!Init

\* Outside of the factory, what is pending is what is still to load.
LEMMA DialogHidden ==
  ASSUME UseDialog
  PROVE  UNCHANGED openingVars
<1>1. UNCHANGED <<gameAt, todo, m_PkgFiles, factoryAt, file, accepted>>
  BY DEF UseDialog, gameVars, factoryVars, OnIndexFileOpen, NameDirectory, ClearLine, Cancel
<1> QED BY <1>1 DEF openingVars, Stage, Pending

LEMMA PackageAsks ==
  ASSUME Carried, OpenPackage
  PROVE  Opening!Next
<1>1. PICK f \in PkgFiles : LoadPackage(f, Unknown)
  BY DEF OpenPackage
<1>2. /\ gameAt = "idle" /\ factoryAt = "idle" /\ gameAt' = "idle" /\ factoryAt' # "idle"
      /\ file' = f /\ todo = <<>> /\ todo' = <<>> /\ m_PkgFiles' = <<>> /\ accepted' = accepted
  BY <1>1, ReadyToLoad DEF OpenPackage, Free, Carried, vars
<1>3. Stage = "rest" /\ Stage' = "package"
  BY <1>2, StageSeen DEF StageIsAsNamed
<1>4. Pending' = <<f>>
  BY <1>2 DEF Pending
<1>5. Opening!AskPackage(f)
  BY <1>2, <1>3, <1>4 DEF Opening!AskPackage
<1> QED BY <1>5 DEF Opening!Next

LEMMA OkAsks ==
  ASSUME DialogInv, Carried, OnIndexFileAccepted
  PROVE  Opening!Next
<1>1. /\ gameAt = "idle" /\ factoryAt = "idle" /\ gameAt' = "index" /\ factoryAt' = "idle"
      /\ todo = <<>> /\ todo' = <<>> /\ m_PkgFiles' = <<>>
  BY DEF OnIndexFileAccepted, Free, Carried, factoryVars
<1>2. Stage = "rest" /\ Stage' = "index" /\ Pending = <<>> /\ Pending' = <<>>
  BY <1>1, StageSeen DEF StageIsAsNamed, Pending
<1>3. accepted'.path \in Games
  BY OkHandsOn DEF OnIndexFileAccepted, Games, WasGameDetected
<1>4. Opening!AskIndex(accepted'.path)
  BY <1>1, <1>2 DEF Opening!AskIndex
<1> QED BY <1>3, <1>4 DEF Opening!Next

\* What an index turns out to be: one the library opens, one it does not,
\* or a file that cannot be read.
LEMMA IndexAnswers ==
  ASSUME IndexInv, Carried, IndexOpened
  PROVE  Opening!Next
<1>1. /\ gameAt = "index" /\ Stage = "index" /\ factoryAt = "idle" /\ factoryAt' = "idle"
      /\ todo = <<>> /\ Pending = <<>> /\ Pending' = todo'
      /\ UNCHANGED <<accepted, m_PkgFiles>>
  BY StageSeen DEF StageIsAsNamed, IndexOpened, Carried, Pending, factoryVars, vars
<1>2. indexOpens = IndexIn[accepted.path] /\ accepted.path \in Directories
  BY <1>1 DEF Carried
<1>3. indexAt \in {"unreadable", "detected", "thrown"}
  BY <1>1 DEF IndexOpened, Resting, IndexInv, IndexTypeOK, Carried
<1>4. CASE indexAt = "detected"
  <2>1. gameAt' = "packages" /\ todo' = PkgsIn[accepted.path]
    BY <1>4 DEF IndexOpened
  <2>2. accepted.path \in {dir \in Directories : IndexIn[dir] # {}}
    BY <1>2, <1>4 DEF IndexInv, KnownIndexIsDetected
  <2>3. Opening!ReadIndex
    BY <1>1, <2>1, <2>2, StageSeen DEF StageIsAsNamed, Opening!ReadIndex
  <2> QED BY <2>3 DEF Opening!Next
<1>5. CASE indexAt = "unreadable"
  <2>1. gameAt' = "idle" /\ todo' = <<>>
    BY <1>5 DEF IndexOpened
  <2>2. m_PkgFiles' = <<>>
    BY <1>1 DEF Carried
  <2>3. Opening!GiveUp
    BY <1>1, <2>1, <2>2, StageSeen DEF StageIsAsNamed, Opening!GiveUp
  <2> QED BY <2>3 DEF Opening!Next
<1>6. CASE indexAt = "thrown"
  <2>1. gameAt' = "terminated" /\ todo' = <<>>
    BY <1>6 DEF IndexOpened
  <2>2. accepted.path \notin {dir \in Directories : IndexIn[dir] # {}}
    BY <1>2, <1>6 DEF IndexInv, KnownIndexIsDetected
  <2>3. Opening!Die
    BY <1>1, <2>1, <2>2, StageSeen DEF StageIsAsNamed, Opening!Die
  <2> QED BY <2>3 DEF Opening!Next
<1> QED BY <1>3, <1>4, <1>5, <1>6

\* The next package leaves the queue for the factory.
LEMMA NextPackageHidden ==
  ASSUME Carried, NextPackage
  PROVE  UNCHANGED openingVars
<1>1. /\ gameAt = "packages" /\ gameAt' = "packages" /\ factoryAt = "idle" /\ factoryAt' # "idle"
      /\ file' = Head(todo) /\ todo' = Tail(todo) /\ todo # <<>> /\ todo \in Seq(PkgFiles)
      /\ UNCHANGED <<accepted, m_PkgFiles>>
  BY ReadyToLoad DEF NextPackage, Carried, vars
<1>2. <<Head(todo)>> \o Tail(todo) = todo
  BY <1>1
<1>3. Pending' = Pending
  BY <1>1, <1>2 DEF Pending
<1> QED BY <1>1, <1>3, StageSeen DEF StageIsAsNamed, openingVars

LEMMA FactoryAnswers ==
  ASSUME FactoryInv, Carried, OpenPkgFile
  PROVE  Opening!Next \/ UNCHANGED openingVars
<1>1. /\ FactoryStep /\ factoryAt # "idle" /\ UNCHANGED <<asked, file, accepted>>
      /\ factoryAt' # "idle" <=> result' = "none"
  BY FactoryStepFacts DEF OpenPkgFile, vars
<1>2. /\ gameAt \in {"idle", "packages"}
      /\ Stage = IF gameAt = "idle" THEN "package" ELSE "packages"
      /\ Pending # <<>> /\ Head(Pending) = file /\ Tail(Pending) = todo
  BY <1>1, StageSeen, PendingFacts DEF StageIsAsNamed, Carried
<1>3. CASE result' = "none"
  <2>1. UNCHANGED gameVars /\ factoryAt' # "idle"
    BY <1>1, <1>3 DEF OpenPkgFile
  <2> QED BY <1>1, <2>1 DEF openingVars, Stage, Pending, gameVars
<1>4. CASE result' = "loaded"
  <2>1. /\ factoryAt' = "idle" /\ UNCHANGED <<gameAt, todo>>
        /\ m_PkgFiles' = Append(m_PkgFiles, Handed)
    BY <1>1, <1>4, HandedFits DEF OpenPkgFile
  <2>2. Handed = [file |-> Head(Pending), lock |-> Handed.lock]
    BY <1>2 DEF Handed
  <2>3. Handed.lock \in Head(Pending) /\ Handed.lock \in Opening!LocksToTry
    <3>1. Handed.lock \in file /\ m_DetectedProvider \in Providers
          /\ Handed.lock = LockOf(m_DetectedProvider)
          /\ (asked # Unknown => m_DetectedProvider = asked)
      BY <1>1, <1>4, HandedFits
    <3>2. CASE gameAt = "idle"
      BY <1>2, <3>1, <3>2 DEF Opening!LocksToTry
    <3>3. CASE gameAt = "packages"
      <4>1. /\ accepted.path \in Games /\ m_DetectedProvider = ProviderIn[accepted.path]
        BY <1>1, <3>1, <3>3, DirectoriesAssumption DEF Carried, GameDataIn, Games, WasGameDetected
      <4> QED BY <1>2, <3>1, <3>3, <4>1 DEF Opening!LocksToTry
    <3> QED BY <1>2, <3>1, <3>2, <3>3
  <2>4. Pending' = Tail(Pending)
    BY <1>2, <2>1, PendingFacts DEF Pending
  <2>5. Stage' = IF Stage = "package" THEN "rest" ELSE Stage
    BY <1>2, <2>1, StageSeen DEF StageIsAsNamed
  <2>6. Opening!Open
    BY <1>1, <1>2, <2>1, <2>2, <2>3, <2>4, <2>5 DEF Opening!Open
  <2> QED BY <2>6 DEF Opening!Next
<1>5. CASE result' = "failed"
  <2>1. factoryAt' = "idle" /\ gameAt' = "idle" /\ todo' = <<>> /\ m_PkgFiles' = <<>>
    BY <1>1, <1>5 DEF OpenPkgFile
  <2>2. Stage' = "rest" /\ Pending' = <<>>
    BY <2>1, StageSeen DEF StageIsAsNamed, Pending
  <2>3. Opening!GiveUp
    BY <1>1, <1>2, <2>1, <2>2 DEF Opening!GiveUp
  <2> QED BY <2>3 DEF Opening!Next
<1> QED BY <1>3, <1>4, <1>5 DEF OpenPkgFile

LEMMA IndexFinishes ==
  ASSUME Carried, IndexDone
  PROVE  Opening!Next
<1>1. /\ gameAt = "packages" /\ gameAt' = "idle" /\ factoryAt = "idle" /\ factoryAt' = "idle"
      /\ Pending = <<>> /\ Pending' = <<>> /\ UNCHANGED <<accepted, m_PkgFiles>>
  BY DEF IndexDone, Pending, factoryVars, vars
<1>2. Opening!Finish
  BY <1>1, StageSeen DEF StageIsAsNamed, Opening!Finish
<1> QED BY <1>2 DEF Opening!Next

LEMMA OpeningStep ==
  ASSUME DialogInv, FactoryInv, IndexInv, Carried, [GameNext]_allVars
  PROVE  [Opening!Next]_(Opening!vars)
<1>1. CASE UseDialog
  BY <1>1, DialogHidden, Hidden
<1>2. CASE OpenPackage
  BY <1>2, PackageAsks
<1>3. CASE OnIndexFileAccepted
  BY <1>3, OkAsks
<1>4. CASE OpenIndex \/ Stopped \/ UNCHANGED allVars
  <2>1. UNCHANGED openingVars
    BY <1>4 DEF OpenIndex, Stopped, allVars, vars, factoryVars, gameVars, openingVars, Stage, Pending
  <2> QED BY <2>1, Hidden
<1>5. CASE IndexOpened
  BY <1>5, IndexAnswers
<1>6. CASE NextPackage
  BY <1>6, NextPackageHidden, Hidden
<1>7. CASE OpenPkgFile
  BY <1>7, FactoryAnswers, Hidden
<1>8. CASE IndexDone
  BY <1>8, IndexFinishes
<1> QED BY <1>1, <1>2, <1>3, <1>4, <1>5, <1>6, <1>7, <1>8 DEF GameNext

\* A load opens the packages it was asked for, each with a lock of its own
\* and, below an index, with the one of its directory's game, all or none:
\* for any directories, indexes, packages, keys and providers.
THEOREM OpeningIsImplemented == GameSpec => OpeningImplemented
<1>1. DialogInv /\ FactoryInv /\ IndexInv /\ Carried /\ [GameNext]_allVars => [Opening!Next]_(Opening!vars)
  BY OpeningStep
<1> QED BY <1>1, InitImplements, GameInvariant, PTL DEF GameSpec, OpeningImplemented, Opening!Spec
=============================================================================
