---------------------------- MODULE WindowSettings ----------------------------
(***************************************************************************)
(* What CMainWindow (sources/layouts/mainwindow.cpp) keeps from one run of *)
(* the program to the next: the recent files with the menu that opens      *)
(* them, and the two options of the extraction.  LoadSettings and          *)
(* SaveSettings move them between the window and QSettings, which has one  *)
(* file (or registry key) per format.                                      *)
(*                                                                         *)
(* Of the loads only their ends matter here: a package that was loaded     *)
(* becomes the most recent file.  The process may crash at any step.       *)
(***************************************************************************)
EXTENDS Naturals, Sequences, Functions

CONSTANTS Files,           \* packages the user opens
          NoFile, NoSettings,
          Options,         \* the actions "decrypt e-files", "decompress textures"
          MaxRecent,       \* MAINWIN_RECENT_ITEMS_NUM
          FirstNative      \* what the native format may hold before the first run

Formats  == {"native", "ini"}
Settings == [recentfiles : Seq(Files), checked : [Options -> BOOLEAN]]

\* AddToRecentFiles sees to it that no list names a file twice.
ASSUME SettingsAssumption ==
  /\ NoFile \notin Files
  /\ NoSettings \notin Settings
  /\ MaxRecent \in Nat \ {0}
  /\ FirstNative \subseteq Settings \cup {NoSettings}
  /\ \A settings \in FirstNative \ {NoSettings} : IsInjective(settings.recentfiles)

VARIABLES process,              \* where the process is, or how it ended
          loading,              \* the package a job loads
          m_RecentFileNames,
          recentData,           \* the data of the first, second... recent action
          recentVisible,        \* how many of them, from the first, are visible
          menuEnabled,          \* menu_Open_Recent, the widget
          checked,              \* the state of the options' actions
          m_bShould,            \* m_bShouldDecrypt, m_bShouldDecompress
          stored,               \* format -> settings
          defaultFormat,        \* QSettings::defaultFormat, of the process
          saved,                \* what SaveSettings last wrote (history)
          opened,               \* files by recency, none dropped (history)
          forgotten             \* files cleared and not loaded since, in any process (history)

windowVars == <<loading, m_RecentFileNames, recentData, recentVisible, menuEnabled,
                checked, m_bShould>>
diskVars   == <<stored, defaultFormat, saved>>
pastVars   == <<opened, forgotten>>
vars       == <<process, windowVars, diskVars, pastVars>>

Ended == {"none", "exited", "exitedUnsaved", "crashed"}

TypeOK ==
  /\ process \in {"constructing", "starting", "running", "closing"} \cup Ended
  /\ loading \in Files \cup {NoFile}
  /\ m_RecentFileNames \in Seq(Files)
  /\ recentData \in [1..MaxRecent -> Files \cup {NoFile}]
  /\ recentVisible \in 0..MaxRecent
  /\ menuEnabled \in BOOLEAN
  /\ checked \in [Options -> BOOLEAN]
  /\ m_bShould \in [Options -> BOOLEAN]
  /\ stored \in [Formats -> Settings \cup {NoSettings}]
  /\ defaultFormat \in Formats
  /\ saved \in Settings \cup {NoSettings}
  /\ opened \in Seq(Files)
  /\ forgotten \in SUBSET Files
  /\ process \in Ended => loading = NoFile

HiddenActions == [i \in 1..MaxRecent |-> NoFile]
AllOptions == [o \in Options |-> TRUE]

Init ==
  /\ process = "none"
  /\ loading = NoFile
  /\ m_RecentFileNames = <<>>
  /\ recentData = HiddenActions /\ recentVisible = 0 /\ menuEnabled = TRUE
  /\ checked = AllOptions /\ m_bShould = AllOptions
  /\ \E first \in FirstNative : stored = [format \in Formats |->
                                  IF format = "native" THEN first ELSE NoSettings]
  /\ defaultFormat = "native"
  /\ saved = NoSettings
  /\ opened = <<>>
  /\ forgotten = {}

-----------------------------------------------------------------------------
\* The recent files.

Named(files) == Range(files)
AtMost(n) == IF n < MaxRecent THEN n ELSE MaxRecent
FirstRecent(files) == [i \in 1..AtMost(Len(files)) |-> files[i]]

\* removeAll and prepend, on names that are all different: f comes first,
\* the names above its old place go down by one, those below it stay.
PlaceOf(f, files) ==
  IF f \in Named(files) THEN CHOOSE i \in 1..Len(files) : files[i] = f ELSE Len(files) + 1
MoveToFront(f, files) ==
  [i \in 1..(IF f \in Named(files) THEN Len(files) ELSE Len(files) + 1) |->
     IF i = 1 THEN f ELSE IF i <= PlaceOf(f, files) THEN files[i - 1] ELSE files[i]]

UpdateMenuStaysEnabled(names) ==    \* mutant: the early return only returns
  IF names = <<>> THEN UNCHANGED <<menuEnabled, recentData, recentVisible>>
  ELSE /\ menuEnabled' = TRUE
       /\ recentVisible' = AtMost(Len(names))
       /\ recentData' = [i \in 1..MaxRecent |-> IF i <= Len(names) THEN names[i]
                                                ELSE recentData[i]]
\* void UpdateRecentFileActions(), on these names.  With none the actions
\* stay as they are, visible or not.
UpdateRecentFileActions(names) ==
  IF names = <<>> THEN menuEnabled' = FALSE /\ UNCHANGED <<recentData, recentVisible>>
  ELSE /\ menuEnabled' = TRUE
       /\ recentVisible' = AtMost(Len(names))
       /\ recentData' = [i \in 1..MaxRecent |-> IF i <= Len(names) THEN names[i]
                                                ELSE recentData[i]]

AddToRecentFilesCutFirst(f) ==    \* mutant: makes room before it looks for f
  LET room  == IF Len(m_RecentFileNames) < MaxRecent THEN m_RecentFileNames
               ELSE [i \in 1..(MaxRecent - 1) |-> m_RecentFileNames[i]]
      names == MoveToFront(f, room)
  IN  /\ m_RecentFileNames' = names
      /\ UpdateRecentFileActions(names)
\* void AddToRecentFiles(loadedFile)
AddToRecentFiles(f) ==
  LET names == FirstRecent(MoveToFront(f, m_RecentFileNames))
  IN  /\ m_RecentFileNames' = names
      /\ UpdateRecentFileActions(names)

-----------------------------------------------------------------------------
\* The settings.

\* What the window would save, or has restored.
Current == [recentfiles |-> m_RecentFileNames, checked |-> checked]

\* What LoadSettings reads from a file that is not there.
Defaults == [recentfiles |-> <<>>, checked |-> AllOptions]
Read(settings) == IF settings = NoSettings THEN Defaults ELSE settings

SaveSettingsOfNames(names) ==
  LET settings == [recentfiles |-> names, checked |-> checked]
  IN  /\ stored' = [stored EXCEPT ![defaultFormat] = settings]
      /\ saved' = settings
      /\ defaultFormat' = "ini"
\* void SaveSettings(): QSettings takes its format when it is constructed.
SaveSettings == SaveSettingsOfNames(m_RecentFileNames)

\* The constructor in a new process, with ConnectActions and
\* CreateRecentFilesMenu.
Start ==
  /\ process \in Ended
  /\ process' = "constructing"
  /\ m_RecentFileNames' = <<>>
  /\ recentData' = HiddenActions /\ recentVisible' = 0 /\ menuEnabled' = TRUE
  /\ checked' = AllOptions /\ m_bShould' = AllOptions
  /\ defaultFormat' = "native"
  /\ opened' = <<>>
  /\ UNCHANGED <<loading, stored, saved, forgotten>>

LoadSettingsUnconnected ==    \* mutant: called before ConnectActions
  /\ process = "constructing"
  /\ process' = "starting"
  /\ LET settings == Read(stored[defaultFormat])
     IN  /\ m_RecentFileNames' = settings.recentfiles
         /\ checked' = settings.checked
         /\ opened' = settings.recentfiles
         /\ UpdateRecentFileActions(settings.recentfiles)
  /\ defaultFormat' = "ini"
  /\ UNCHANGED <<loading, m_bShould, stored, saved, forgotten>>
\* void LoadSettings(), the end of the constructor: the QSettings exists
\* before it sets the default format, and setChecked emits toggled.
LoadSettings ==
  /\ process = "constructing"
  /\ process' = "starting"
  /\ LET settings == Read(stored[defaultFormat])
     IN  /\ m_RecentFileNames' = settings.recentfiles
         /\ checked' = settings.checked
         /\ m_bShould' = settings.checked
         /\ opened' = settings.recentfiles
         /\ UpdateRecentFileActions(settings.recentfiles)
  /\ defaultFormat' = "ini"
  /\ UNCHANGED <<loading, stored, saved, forgotten>>

\* main: the event loop begins.
Exec ==
  /\ process = "starting"
  /\ process' = "running"
  /\ UNCHANGED <<windowVars, diskVars, pastVars>>

-----------------------------------------------------------------------------
\* The user's actions.  While a package is loaded every menu action is
\* disabled and drops are refused; the window may still be closed.

Idle == process = "running" /\ loading = NoFile

\* LoadPackage, for a file chosen or dropped.
OpenFile(f) ==
  /\ Idle
  /\ loading' = f
  /\ UNCHANGED <<process, m_RecentFileNames, recentData, recentVisible, menuEnabled,
                 checked, m_bShould, diskVars, pastVars>>

OnRecentFileOpen(i) ==
  /\ Idle /\ menuEnabled
  /\ i <= recentVisible
  /\ OpenFile(recentData[i])

\* The end of LoadPackage after the wait, and of the process when the window
\* was closed meanwhile.
LoadEnds(ok) ==
  /\ process \in {"running", "closing"} /\ loading # NoFile
  /\ loading' = NoFile
  /\ IF ok
     THEN /\ AddToRecentFiles(loading)
          /\ opened' = MoveToFront(loading, opened)
          /\ forgotten' = forgotten \ {loading}
     ELSE UNCHANGED <<m_RecentFileNames, recentData, recentVisible, menuEnabled, pastVars>>
  /\ process' = IF process = "running" THEN "running"
                ELSE IF ok THEN "exitedUnsaved" ELSE "exited"
  /\ UNCHANGED <<checked, m_bShould, diskVars>>

ClearWithoutSaving ==    \* mutant: the settings are left for the exit to save
  /\ Idle /\ menuEnabled
  /\ m_RecentFileNames' = <<>>
  /\ UpdateRecentFileActions(<<>>)
  /\ opened' = <<>>
  /\ forgotten' = forgotten \cup Named(m_RecentFileNames)
  /\ UNCHANGED <<process, loading, checked, m_bShould, diskVars>>
\* OnRecentFileClear
ClearRecentFiles ==
  /\ Idle /\ menuEnabled
  /\ m_RecentFileNames' = <<>>
  /\ UpdateRecentFileActions(<<>>)
  /\ SaveSettingsOfNames(<<>>)
  /\ opened' = <<>>
  /\ forgotten' = forgotten \cup Named(m_RecentFileNames)
  /\ UNCHANGED <<process, loading, checked, m_bShould>>

\* OnDecryptToggle, OnDecompressToggle
Toggle(o) ==
  /\ Idle
  /\ checked' = [checked EXCEPT ![o] = ~checked[o]]
  /\ m_bShould' = [m_bShould EXCEPT ![o] = ~checked[o]]
  /\ UNCHANGED <<process, loading, m_RecentFileNames, recentData, recentVisible,
                 menuEnabled, diskVars, pastVars>>

QuitUnsaved ==           \* mutant: exits without HandleExit
  /\ Idle
  /\ process' = "exited"
  /\ UNCHANGED <<windowVars, diskVars, pastVars>>
OnQuitButton ==
  /\ Idle
  /\ SaveSettings
  /\ process' = "exited"
  /\ UNCHANGED <<windowVars, pastVars>>

closeEventExits ==       \* mutant: does not wait for the job
  /\ process = "running"
  /\ SaveSettings
  /\ process' = "exited"
  /\ UNCHANGED <<windowVars, pastVars>>
\* The window's frame: during a job the handler that waits goes on to its
\* end, and the process with it.
closeEvent ==
  /\ process = "running"
  /\ SaveSettings
  /\ process' = IF loading = NoFile THEN "exited" ELSE "closing"
  /\ UNCHANGED <<windowVars, pastVars>>

Crash ==
  /\ process \notin Ended
  /\ process' = "crashed"
  /\ loading' = NoFile
  /\ UNCHANGED <<m_RecentFileNames, recentData, recentVisible, menuEnabled, checked,
                 m_bShould, diskVars, pastVars>>

Next ==
  \/ Start \/ LoadSettings \/ Exec
  \/ \E f \in Files : OpenFile(f)
  \/ \E i \in 1..MaxRecent : OnRecentFileOpen(i)
  \/ \E ok \in BOOLEAN : LoadEnds(ok)
  \/ ClearRecentFiles
  \/ \E o \in Options : Toggle(o)
  \/ OnQuitButton \/ closeEvent \/ Crash

Spec == Init /\ [][Next]_vars

-----------------------------------------------------------------------------
\* Properties.

Alive == process \in {"starting", "running", "closing"}

\* A menu that is enabled offers exactly the recent files, in their
\* order: actions of a longer or a cleared list, which UpdateRecentFileActions
\* leaves behind, are never among those that can be triggered.
MenuOpensListed ==
  (Alive /\ menuEnabled) =>
    /\ recentVisible = AtMost(Len(m_RecentFileNames))
    /\ recentVisible > 0
    /\ \A i \in 1..recentVisible : recentData[i] = m_RecentFileNames[i]

\* The list is that of the last files loaded, none twice, whatever was
\* opened, failed to open, opened again or cut off: cutting after every load
\* loses nothing a list without a limit would have among its first.
ListIsRecency ==
  /\ FirstRecent(m_RecentFileNames) = FirstRecent(opened)
  /\ IsInjective(m_RecentFileNames)

\* What every start lists, whatever was saved before: LoadSettings reads the
\* native format, and no save writes it (the finding of SettingsSurvive).
NativeNames == Named(Read(stored["native"]).recentfiles)

\* A file that was cleared and not loaded again, in this process or a later
\* one, is neither listed nor offered nor in what the saves wrote, whatever
\* crashed since: unless the native settings name it, which bring it back at
\* the next start.
ClearedIsForgotten ==
  LET gone == forgotten \ NativeNames
  IN  /\ gone \cap Named(m_RecentFileNames) = {}
      /\ (Alive /\ menuEnabled) => \A i \in 1..recentVisible : recentData[i] \notin gone
      /\ gone \cap Named(Read(stored["ini"]).recentfiles) = {}

\* The extractions do what the menu shows as chosen, also for options that
\* were restored.
OptionsAgree == Alive => m_bShould = checked

\* A process that ended by Quit or by its window had saved everything the
\* window showed.  If the window was closed during a load that succeeded, it
\* lost that one file and nothing else.
ExitSaves ==
  /\ process = "exited" => saved = Current
  /\ process = "exitedUnsaved" =>
       /\ saved.checked = checked
       /\ \E f \in Files : m_RecentFileNames = FirstRecent(MoveToFront(f, saved.recentfiles))

\* LoadSettings restores what was saved: "settings.setDefaultFormat(
\* QSettings::IniFormat)" (mainwindow.cpp:516 and :552) is in both.
SettingsSurvive == (process = "starting" /\ saved # NoSettings) => Current = saved
=============================================================================
