--------------------------- MODULE LoadIndexDialog ---------------------------
(***************************************************************************)
(* CLoadIndexDialog (sources/layouts/loadindexdialog.cpp) with the         *)
(* GameDataInfo it keeps (gamedatainfo.cpp): the user types or browses to  *)
(* a directory, the dialog looks for a game in it, and Ok asks the window  *)
(* to load the game's index.  Each time it is opened it is a new dialog.   *)
(***************************************************************************)
EXTENDS GameProviders

CONSTANTS Directories,     \* directories the user may name, and their Data
          Empty,           \* the empty path
          DataOf,          \* a directory's subdirectory Data
          ProviderIn       \* the provider whose package is in the directory

ASSUME DirectoriesAssumption ==
  /\ Empty \notin Directories
  /\ DataOf \in [Directories -> Directories]
  /\ ProviderIn \in [Directories -> Providers \cup {Unknown}]

VARIABLES open,                  \* the dialog is shown
          leGameDir,             \* the line with the directory
          m_DetectedGameInfo,    \* [path, provider]
          okEnabled,
          lblDetectStatus,       \* what the label says
          accepted               \* what the window was last asked to load

vars == <<open, leGameDir, m_DetectedGameInfo, okEnabled, lblDetectStatus, accepted>>

GameDataInfo == [path : Directories \cup {Empty}, provider : Providers \cup {Unknown}]
NoGame == [path |-> Empty, provider |-> Unknown]

TypeOK ==
  /\ open \in BOOLEAN
  /\ leGameDir \in Directories \cup {Empty}
  /\ m_DetectedGameInfo \in GameDataInfo
  /\ okEnabled \in BOOLEAN
  /\ lblDetectStatus \in {"initial", "noDirectory", "noGame", "detected"}
  /\ accepted \in GameDataInfo
  /\ lblDetectStatus = "initial" <=> m_DetectedGameInfo = NoGame

Init ==
  /\ open = FALSE
  /\ leGameDir = Empty
  /\ m_DetectedGameInfo = NoGame
  /\ okEnabled = FALSE
  /\ lblDetectStatus = "initial"
  /\ accepted = NoGame

OnIndexFileOpenAgain ==    \* mutant: one dialog that is shown again, its label reset
  /\ ~open
  /\ open' = TRUE
  /\ leGameDir' = Empty
  /\ lblDetectStatus' = "initial"
  /\ UNCHANGED <<m_DetectedGameInfo, okEnabled, accepted>>
\* CMainWindow::OnIndexFileOpen, the constructor.
OnIndexFileOpen ==
  /\ ~open
  /\ open' = TRUE
  /\ leGameDir' = Empty
  /\ m_DetectedGameInfo' = NoGame
  /\ okEnabled' = FALSE
  /\ lblDetectStatus' = "initial"
  /\ UNCHANGED accepted

\* GameDataInfo::SetGameDataPath, with DetectGameProvider.
GameDataIn(dir) == [path |-> dir, provider |-> ProviderIn[dir]]
WasGameDetected(info) == info.provider # Unknown

\* The game UpdateGameProviderLabel finds: in the directory itself, or else
\* in its subdirectory Data, where there may be none.
Detect(dir) == IF WasGameDetected(GameDataIn(dir)) THEN GameDataIn(dir)
                                                   ELSE GameDataIn(DataOf[dir])

UpdateLabelKeepsOk(dir) ==    \* mutant: Ok is not disabled again
  /\ m_DetectedGameInfo' = Detect(dir)
  /\ okEnabled' = (okEnabled \/ WasGameDetected(Detect(dir)))
  /\ lblDetectStatus' = IF WasGameDetected(Detect(dir)) THEN "detected" ELSE "noGame"
UpdateGameProviderLabel(dir) ==
  /\ m_DetectedGameInfo' = Detect(dir)
  /\ okEnabled' = WasGameDetected(Detect(dir))
  /\ lblDetectStatus' = IF WasGameDetected(Detect(dir)) THEN "detected" ELSE "noGame"

\* OnBrowseGameDir, unless the user cancels, and OnGameDirLineEdited on a
\* text that is not empty.
NameDirectory(dir) ==
  /\ open
  /\ leGameDir' = dir
  /\ UpdateGameProviderLabel(dir)
  /\ UNCHANGED <<open, accepted>>

\* OnGameDirLineEdited on an empty text: only the label changes.
ClearLine ==
  /\ open
  /\ leGameDir # Empty
  /\ leGameDir' = Empty
  /\ lblDetectStatus' = "noDirectory"
  /\ UNCHANGED <<open, m_DetectedGameInfo, okEnabled, accepted>>

OnOkayButton ==
  /\ open /\ okEnabled
  /\ open' = FALSE
  /\ accepted' = m_DetectedGameInfo
  /\ UNCHANGED <<leGameDir, m_DetectedGameInfo, okEnabled, lblDetectStatus>>

Cancel ==
  /\ open
  /\ open' = FALSE
  /\ UNCHANGED <<leGameDir, m_DetectedGameInfo, okEnabled, lblDetectStatus, accepted>>

Next ==
  \/ OnIndexFileOpen
  \/ \E dir \in Directories : NameDirectory(dir)
  \/ ClearLine
  \/ OnOkayButton \/ Cancel

Spec == Init /\ [][Next]_vars

-----------------------------------------------------------------------------
\* Properties.

\* Ok hands the window a directory with a game in it, of that provider, and
\* while the line names a directory it is that directory or its Data, the
\* directory itself when both have one: whatever was typed, browsed to and
\* corrected before, in this dialog or an earlier one.
OkIsForTheLine ==
  (open /\ okEnabled) =>
    /\ WasGameDetected(m_DetectedGameInfo)
    /\ m_DetectedGameInfo = GameDataIn(m_DetectedGameInfo.path)
    /\ leGameDir # Empty =>
         m_DetectedGameInfo.path = IF WasGameDetected(GameDataIn(leGameDir))
                                   THEN leGameDir ELSE DataOf[leGameDir]

\* "No directory selected." (loadindexdialog.cpp:44): then there is nothing
\* for Ok to load.
NoDirectoryNoOk == (open /\ lblDetectStatus = "noDirectory") => ~okEnabled
=============================================================================
