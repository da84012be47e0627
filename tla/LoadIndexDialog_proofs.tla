----------------------- MODULE LoadIndexDialog_proofs -----------------------
(***************************************************************************)
(* Theorems about LoadIndexDialog, for any directories and games in them.  *)
(***************************************************************************)
EXTENDS LoadIndexDialog, TLAPS

\* What Ok is enabled for, in an open dialog or one that was closed.
OkFits ==
  okEnabled =>
    /\ WasGameDetected(m_DetectedGameInfo)
    /\ m_DetectedGameInfo.path \in Directories
    /\ m_DetectedGameInfo = GameDataIn(m_DetectedGameInfo.path)
    /\ leGameDir # Empty => m_DetectedGameInfo = Detect(leGameDir)

\* A line that is not empty was looked at.
LineWasSeen == leGameDir # Empty => lblDetectStatus # "initial"

DialogInv == TypeOK /\ OkFits /\ LineWasSeen

LEMMA DetectFacts ==
  ASSUME NEW dir \in Directories
  PROVE  /\ Detect(dir) \in GameDataInfo
         /\ Detect(dir).path \in Directories
         /\ Detect(dir) = GameDataIn(Detect(dir).path)
<1>1. DataOf[dir] \in Directories
  BY DirectoriesAssumption
<1>2. \A other \in Directories : /\ GameDataIn(other) \in GameDataInfo
                                 /\ GameDataIn(other).path = other
  BY DirectoriesAssumption, ProvidersAssumption DEF GameDataIn, GameDataInfo
<1>3. Detect(dir) = GameDataIn(dir) \/ Detect(dir) = GameDataIn(DataOf[dir])
  BY DEF Detect
<1> QED BY <1>1, <1>2, <1>3

LEMMA InitDialogInv == Init => DialogInv
<1> SUFFICES ASSUME Init PROVE DialogInv
  OBVIOUS
<1>1. TypeOK
  <2>1. NoGame \in GameDataInfo
    BY DEF NoGame, GameDataInfo
  <2> QED BY <2>1 DEF Init, TypeOK
<1>2. OkFits /\ LineWasSeen
  BY DEF Init, OkFits, LineWasSeen
<1> QED BY <1>1, <1>2 DEF DialogInv

LEMMA NameDirectoryStep ==
  ASSUME DialogInv, NEW dir \in Directories, NameDirectory(dir)
  PROVE  DialogInv'
<1>1. /\ leGameDir' = dir /\ open' = open /\ accepted' = accepted
      /\ m_DetectedGameInfo' = Detect(dir)
      /\ okEnabled' = WasGameDetected(Detect(dir))
      /\ lblDetectStatus' \in {"detected", "noGame"}
  BY DEF NameDirectory, UpdateGameProviderLabel
<1>2. m_DetectedGameInfo' # NoGame
  BY <1>1, DetectFacts, DirectoriesAssumption, ProvidersAssumption DEF NoGame
<1>3. okEnabled' \in BOOLEAN
  BY <1>1 DEF WasGameDetected
<1>4. TypeOK'
  BY <1>1, <1>2, <1>3, DetectFacts DEF DialogInv, TypeOK
<1>5. OkFits'
  BY <1>1, DetectFacts DEF OkFits
<1>6. LineWasSeen'
  BY <1>1 DEF LineWasSeen
<1> QED BY <1>4, <1>5, <1>6 DEF DialogInv

LEMMA NextDialogInv == DialogInv /\ [Next]_vars => DialogInv'
<1> SUFFICES ASSUME DialogInv, [Next]_vars PROVE DialogInv'
  OBVIOUS
<1> USE DEF DialogInv, TypeOK, OkFits, LineWasSeen
<1>1. CASE OnIndexFileOpen
  BY <1>1 DEF OnIndexFileOpen, NoGame, GameDataInfo
<1>2. CASE \E dir \in Directories : NameDirectory(dir)
  BY <1>2, NameDirectoryStep
<1>3. CASE ClearLine
  BY <1>3 DEF ClearLine
<1>4. CASE OnOkayButton
  BY <1>4 DEF OnOkayButton
<1>5. CASE Cancel
  BY <1>5 DEF Cancel
<1>6. CASE UNCHANGED vars
  BY <1>6 DEF vars
<1> QED BY <1>1, <1>2, <1>3, <1>4, <1>5, <1>6 DEF Next

\* What Ok is for is an invariant of any use of the dialogs.
THEOREM DialogInvariant == Spec => []DialogInv
BY NextDialogInv, InitDialogInv, PTL DEF Spec

\* Ok hands on the game in the line, whatever was named and corrected before.
THEOREM OkFitsTheLine == Spec => []OkIsForTheLine
<1>1. DialogInv => OkIsForTheLine
  <2> SUFFICES ASSUME DialogInv, open, okEnabled, leGameDir # Empty
               PROVE  m_DetectedGameInfo.path = IF WasGameDetected(GameDataIn(leGameDir))
                                                THEN leGameDir ELSE DataOf[leGameDir]
    BY DEF DialogInv, OkFits, OkIsForTheLine
  <2>1. m_DetectedGameInfo = Detect(leGameDir)
    BY DEF DialogInv, OkFits
  <2> QED BY <2>1 DEF Detect, GameDataIn
<1> QED BY <1>1, DialogInvariant, PTL
=============================================================================
