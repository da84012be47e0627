------------------------ MODULE WindowSettings_proofs ------------------------
(***************************************************************************)
(* Theorems about WindowSettings, for any files, options and room for      *)
(* recent files, and any crashes and restarts.                             *)
(***************************************************************************)
EXTENDS WindowSettings, TLAPS

-----------------------------------------------------------------------------
\* Sequences of files.

Lists == {files \in Seq(Files) : IsInjective(files)}

LEMMA AtMostFacts ==
  ASSUME NEW n \in Nat
  PROVE  AtMost(n) \in 0..n /\ AtMost(n) <= MaxRecent /\ (n > 0 => AtMost(n) > 0)
         /\ AtMost(AtMost(n)) = AtMost(n)
BY SettingsAssumption DEF AtMost

LEMMA PlaceFacts ==
  ASSUME NEW files \in Lists, NEW f
  PROVE  /\ f \in Named(files) => /\ PlaceOf(f, files) \in 1..Len(files)
                                  /\ files[PlaceOf(f, files)] = f
         /\ f \notin Named(files) => PlaceOf(f, files) = Len(files) + 1
         /\ \A i \in 1..Len(files) : files[i] = f <=> i = PlaceOf(f, files)
         /\ \A i \in 1..Len(files) : files[i] \in Files
         /\ Len(files) \in Nat
         /\ DOMAIN files = 1..Len(files)
<1>1. /\ files \in Seq(Files) /\ DOMAIN files = 1..Len(files) /\ Len(files) \in Nat
      /\ \A i \in 1..Len(files) : files[i] \in Files
  BY DEF Lists
<1>2. \A i, j \in 1..Len(files) : files[i] = files[j] => i = j
  BY <1>1 DEF Lists, IsInjective
<1>3. f \in Named(files) <=> \E i \in 1..Len(files) : files[i] = f
  BY <1>1 DEF Named, Range
<1>4. CASE f \in Named(files)
  <2>1. PlaceOf(f, files) = CHOOSE i \in 1..Len(files) : files[i] = f
    BY <1>4 DEF PlaceOf
  <2>2. PlaceOf(f, files) \in 1..Len(files) /\ files[PlaceOf(f, files)] = f
    BY <1>3, <1>4, <2>1
  <2> QED BY <1>1, <1>2, <1>4, <2>2
<1>5. CASE f \notin Named(files)
  BY <1>1, <1>3, <1>5 DEF PlaceOf
<1> QED BY <1>4, <1>5

\* What moving a file to the front of a list gives.
LEMMA MoveFacts ==
  ASSUME NEW files \in Lists, NEW f \in Files
  PROVE  /\ MoveToFront(f, files) \in Lists
         /\ Len(MoveToFront(f, files)) = IF f \in Named(files) THEN Len(files) ELSE Len(files) + 1
         /\ Len(MoveToFront(f, files)) \in Nat \ {0}
         /\ MoveToFront(f, files)[1] = f
         /\ \A i \in 2..Len(MoveToFront(f, files)) : MoveToFront(f, files)[i] =
              IF i <= PlaceOf(f, files) THEN files[i - 1] ELSE files[i]
         /\ Named(MoveToFront(f, files)) \subseteq Named(files) \cup {f}
<1> DEFINE n == IF f \in Named(files) THEN Len(files) ELSE Len(files) + 1
           k == PlaceOf(f, files)
           m == MoveToFront(f, files)
           len == Len(files)
<1>1. len \in Nat /\ DOMAIN files = 1..len
  BY PlaceFacts
<1>2. /\ k \in 1..n /\ n \in Nat /\ n >= 1
      /\ \/ n = len /\ f \in Named(files)
         \/ n = len + 1 /\ k = n /\ f \notin Named(files)
  <2>1. CASE f \in Named(files)
    <3>1. n = len /\ k \in 1..len
      BY <2>1, PlaceFacts
    <3> HIDE DEF n, k, len
    <3> QED BY <1>1, <2>1, <3>1
  <2>2. CASE f \notin Named(files)
    <3>1. n = len + 1 /\ k = len + 1
      BY <2>2, PlaceFacts
    <3> HIDE DEF n, k, len
    <3> QED BY <1>1, <2>2, <3>1
  <2> QED BY <2>1, <2>2
<1>3. m = [i \in 1..n |-> IF i = 1 THEN f ELSE IF i <= k THEN files[i - 1] ELSE files[i]]
  BY DEF MoveToFront
<1>4. \A i \in 1..len : files[i] \in Files /\ (files[i] = f <=> i = k)
  BY PlaceFacts
<1>5. \A i, j \in 1..len : files[i] = files[j] => i = j
  BY <1>1 DEF Lists, IsInjective
<1> HIDE DEF n, k, m, len
\* Where a name of the new list comes from.
<1>6. /\ m[1] = f
      /\ \A i \in 2..n : m[i] = IF i <= k THEN files[i - 1] ELSE files[i]
  BY <1>2, <1>3
<1>7. ASSUME NEW i \in 2..n
      PROVE  \E j \in 1..len : j # k /\ m[i] = files[j] /\ j = IF i <= k THEN i - 1 ELSE i
  <2>1. CASE i <= k
    <3>1. i - 1 \in 1..len /\ i - 1 # k
      BY <1>1, <1>2, <2>1
    <3> QED BY <1>6, <2>1, <3>1
  <2>2. CASE i > k
    <3>1. i \in 1..len /\ i # k /\ ~(i <= k)
      BY <1>1, <1>2, <2>2
    <3> QED BY <1>6, <3>1
  <2> QED BY <1>2, <2>1, <2>2
<1>8. ASSUME NEW i \in 1..n PROVE i = 1 \/ i \in 2..n
  BY <1>2
<1>9. m \in Seq(Files) /\ Len(m) = n
  <2>1. ASSUME NEW i \in 1..n PROVE m[i] \in Files
    BY <1>4, <1>6, <1>7, <1>8
  <2>2. m \in [1..n -> Files]
    BY <1>3, <2>1
  <2> QED BY <1>2, <2>2
<1>10. IsInjective(m)
  <2> SUFFICES ASSUME NEW i \in 1..n, NEW j \in 1..n, m[i] = m[j], i < j PROVE FALSE
    BY <1>2, <1>3 DEF IsInjective
  <2>1. j \in 2..n
    BY <1>2
  <2>2. PICK b \in 1..len : b # k /\ m[j] = files[b] /\ b = IF j <= k THEN j - 1 ELSE j
    BY <1>7, <2>1
  <2>3. i \in 2..n
    BY <1>4, <1>6, <1>8, <2>2
  <2>4. PICK a \in 1..len : a # k /\ m[i] = files[a] /\ a = IF i <= k THEN i - 1 ELSE i
    BY <1>7, <2>3
  <2>5. a = b
    BY <1>5, <2>2, <2>4
  <2> QED BY <1>1, <1>2, <2>2, <2>4, <2>5
<1>11. Named(m) \subseteq Named(files) \cup {f}
  <2>1. Named(m) = {m[i] : i \in 1..n} /\ Named(files) = {files[i] : i \in 1..len}
    BY <1>1, <1>3 DEF Named, Range
  <2>2. ASSUME NEW i \in 1..n PROVE m[i] \in {f} \cup {files[j] : j \in 1..len}
    BY <1>6, <1>7, <1>8
  <2> QED BY <2>1, <2>2
<1>12. m \in Lists /\ Len(m) = n /\ n \in Nat \ {0}
  BY <1>2, <1>9, <1>10 DEF Lists
<1>13. \A i \in 2..Len(m) : m[i] = IF i <= k THEN files[i - 1] ELSE files[i]
  BY <1>6, <1>12
<1>14. /\ n = IF f \in Named(files) THEN Len(files) ELSE Len(files) + 1
       /\ k = PlaceOf(f, files) /\ m = MoveToFront(f, files)
  BY DEF n, k, m
<1> QED BY <1>6, <1>11, <1>12, <1>13, <1>14

LEMMA FirstFacts ==
  ASSUME NEW files \in Lists
  PROVE  /\ FirstRecent(files) \in Lists
         /\ Len(FirstRecent(files)) = AtMost(Len(files))
         /\ \A i \in 1..AtMost(Len(files)) : FirstRecent(files)[i] = files[i]
         /\ Named(FirstRecent(files)) \subseteq Named(files)
         /\ FirstRecent(FirstRecent(files)) = FirstRecent(files)
<1>1. /\ files \in Seq(Files) /\ Len(files) \in Nat /\ DOMAIN files = 1..Len(files)
      /\ \A i \in 1..Len(files) : files[i] \in Files
      /\ \A i, j \in 1..Len(files) : files[i] = files[j] => i = j
  BY DEF Lists, IsInjective
<1>2. AtMost(Len(files)) \in 0..Len(files) /\ AtMost(AtMost(Len(files))) = AtMost(Len(files))
  BY <1>1, AtMostFacts
<1>3. /\ FirstRecent(files) \in [1..AtMost(Len(files)) -> Files]
      /\ \A i \in 1..AtMost(Len(files)) : FirstRecent(files)[i] = files[i]
  BY <1>1, <1>2 DEF FirstRecent
<1>4. FirstRecent(files) \in Seq(Files) /\ Len(FirstRecent(files)) = AtMost(Len(files))
  BY <1>2, <1>3
<1>5. IsInjective(FirstRecent(files))
  BY <1>1, <1>2, <1>3 DEF IsInjective
<1>6. Named(FirstRecent(files)) \subseteq Named(files)
  BY <1>1, <1>2, <1>3 DEF Named, Range
<1>7. FirstRecent(FirstRecent(files)) = FirstRecent(files)
  BY <1>2, <1>3, <1>4 DEF FirstRecent
<1> QED BY <1>3, <1>4, <1>5, <1>6, <1>7 DEF Lists

\* Cutting a list before a file is moved to its front does not show.
LEMMA CutDoesNotShow ==
  ASSUME NEW short \in Lists, NEW long \in Lists, NEW f \in Files,
         FirstRecent(short) = FirstRecent(long)
  PROVE  FirstRecent(MoveToFront(f, short)) = FirstRecent(MoveToFront(f, long))
<1> DEFINE ms == MoveToFront(f, short)
           ml == MoveToFront(f, long)
<1>1. /\ Len(short) \in Nat /\ Len(long) \in Nat
      /\ AtMost(Len(short)) = AtMost(Len(long))
      /\ \A i \in 1..AtMost(Len(short)) : short[i] = long[i]
  <2>1. Len(short) \in Nat /\ Len(long) \in Nat
    BY DEF Lists
  <2>2. AtMost(Len(short)) = AtMost(Len(long))
    BY FirstFacts
  <2> QED BY <2>1, <2>2, FirstFacts
<1>2. AtMost(Len(ms)) = AtMost(Len(ml))
  <2>1. CASE Len(short) = Len(long) /\ Len(short) < MaxRecent
    <3>1. f \in Named(short) <=> f \in Named(long)
      BY <1>1, <2>1, PlaceFacts DEF AtMost
    <3> QED BY <2>1, <3>1, MoveFacts
  <2>2. CASE Len(short) >= MaxRecent /\ Len(long) >= MaxRecent
    BY <1>1, <2>2, MoveFacts, SettingsAssumption DEF AtMost
  <2> QED BY <1>1, <2>1, <2>2, SettingsAssumption DEF AtMost
<1>3. ASSUME NEW i \in 1..AtMost(Len(ms)) PROVE ms[i] = ml[i]
  <2>1. /\ Len(ms) \in Nat \ {0} /\ Len(ml) \in Nat \ {0}
        /\ i \in 1..Len(ms) /\ i \in 1..Len(ml) /\ i <= MaxRecent
    <3>1. Len(ms) \in Nat \ {0} /\ Len(ml) \in Nat \ {0}
      BY MoveFacts
    <3>2. /\ AtMost(Len(ms)) \in 0..Len(ms) /\ AtMost(Len(ms)) \in 0..Len(ml)
          /\ AtMost(Len(ms)) <= MaxRecent
      <4> HIDE DEF ms, ml
      <4> QED BY <1>2, <3>1, AtMostFacts
    <3> HIDE DEF ms, ml
    <3> QED BY <3>1, <3>2, SettingsAssumption
  <2>2. CASE i = 1
    BY <2>2, MoveFacts
  <2>3. CASE i > 1
    <3>1. /\ ms[i] = IF i <= PlaceOf(f, short) THEN short[i - 1] ELSE short[i]
          /\ ml[i] = IF i <= PlaceOf(f, long) THEN long[i - 1] ELSE long[i]
      <4>1. i \in 2..Len(ms) /\ i \in 2..Len(ml)
        BY <2>1, <2>3
      <4> QED BY <4>1, MoveFacts
    <3>2. /\ PlaceOf(f, short) \in 1..(Len(short) + 1) /\ PlaceOf(f, long) \in 1..(Len(long) + 1)
          /\ \A j \in 1..Len(short) : short[j] = f <=> j = PlaceOf(f, short)
          /\ \A j \in 1..Len(long) : long[j] = f <=> j = PlaceOf(f, long)
      BY <1>1, PlaceFacts
    <3>3. /\ \A j \in 1..AtMost(Len(short)) : j = PlaceOf(f, short) <=> j = PlaceOf(f, long)
          /\ AtMost(Len(short)) \in 0..Len(short) /\ AtMost(Len(short)) \in 0..Len(long)
      <4>1. AtMost(Len(short)) \in 0..Len(short) /\ AtMost(Len(short)) \in 0..Len(long)
        BY <1>1, AtMostFacts
      <4>2. \A j \in 1..AtMost(Len(short)) : short[j] = f <=> long[j] = f
        BY <1>1
      <4>3. ASSUME NEW j \in 1..AtMost(Len(short))
            PROVE  j = PlaceOf(f, short) <=> j = PlaceOf(f, long)
        <5>1. j \in 1..Len(short) /\ j \in 1..Len(long)
          BY <1>1, <4>1
        <5> QED BY <3>2, <4>2, <5>1
      <4> QED BY <4>1, <4>3
    <3>4. /\ i <= PlaceOf(f, short) \/ i <= AtMost(Len(short))
          /\ i <= PlaceOf(f, long) \/ i <= AtMost(Len(long))
          /\ i - 1 <= AtMost(Len(short))
      <4>1. Len(ms) <= Len(short) + 1 /\ Len(ml) <= Len(long) + 1
            /\ (f \in Named(short) => Len(ms) = Len(short))
            /\ (f \notin Named(short) => PlaceOf(f, short) = Len(short) + 1)
            /\ (f \in Named(long) => Len(ml) = Len(long))
            /\ (f \notin Named(long) => PlaceOf(f, long) = Len(long) + 1)
        BY <1>1, MoveFacts, PlaceFacts
      <4> QED BY <1>1, <2>1, <4>1, SettingsAssumption DEF AtMost
    <3>5. i <= PlaceOf(f, short) <=> i <= PlaceOf(f, long)
      BY <1>1, <2>1, <3>2, <3>3, <3>4
    <3> QED BY <1>1, <2>1, <2>3, <3>1, <3>4, <3>5
  <2> QED BY <2>1, <2>2, <2>3
<1>4. /\ FirstRecent(ms) = [i \in 1..AtMost(Len(ms)) |-> ms[i]]
      /\ FirstRecent(ml) = [i \in 1..AtMost(Len(ml)) |-> ml[i]]
  BY DEF FirstRecent
<1> HIDE DEF ms, ml
<1>5. FirstRecent(ms) = FirstRecent(ml)
  BY <1>2, <1>3, <1>4
<1> QED BY <1>5 DEF ms, ml

-----------------------------------------------------------------------------
\* The inductive invariant.

\* No list, in the window or in a file, names a file twice.
NamesDistinct ==
  /\ m_RecentFileNames \in Lists /\ opened \in Lists
  /\ \A format \in Formats : stored[format] # NoSettings => stored[format].recentfiles \in Lists

RecencyAgrees == FirstRecent(m_RecentFileNames) = FirstRecent(opened)

\* Unless it is under construction, the menu is for the list.
MenuFits ==
  Alive => /\ menuEnabled <=> m_RecentFileNames # <<>>
           /\ menuEnabled => /\ recentVisible = AtMost(Len(m_RecentFileNames))
                             /\ \A i \in 1..recentVisible : recentData[i] = m_RecentFileNames[i]

\* The one load of a process reads the native format; from then on every
\* save writes the ini format.
FormatKnown ==
  /\ process = "constructing" => defaultFormat = "native"
  /\ Alive => defaultFormat = "ini"

\* What was cleared is not in the window, nor in the file the saves write.
Forgets ==
  /\ (forgotten \ NativeNames) \cap Named(m_RecentFileNames) = {}
  /\ (forgotten \ NativeNames) \cap Named(Read(stored["ini"]).recentfiles) = {}

\* The window's last save, with the one file a load may have added since.
SavedOnClosing == (process = "closing" => saved = Current) /\ ExitSaves

SettingsInv == /\ TypeOK /\ NamesDistinct /\ RecencyAgrees /\ MenuFits
               /\ FormatKnown /\ Forgets /\ OptionsAgree /\ SavedOnClosing

LEMMA EmptyList == /\ <<>> \in Lists /\ Named(<<>>) = {} /\ Len(<<>>) = 0
                   /\ Defaults \in Settings /\ AllOptions \in [Options -> BOOLEAN]
                   /\ HiddenActions \in [1..MaxRecent -> Files \cup {NoFile}]
BY DEF Lists, IsInjective, Named, Range, Defaults, Settings, AllOptions, HiddenActions

LEMMA CurrentIsSettings == TypeOK => Current \in Settings
BY DEF TypeOK, Current, Settings

LEMMA InitSettingsInv == Init => SettingsInv
<1> SUFFICES ASSUME Init PROVE SettingsInv
  OBVIOUS
<1>1. PICK first \in FirstNative : stored = [format \in Formats |->
                                  IF format = "native" THEN first ELSE NoSettings]
  BY DEF Init
<1>2. TypeOK
  BY <1>1, EmptyList, SettingsAssumption DEF Init, TypeOK, Ended, Formats, Lists
<1>3. NamesDistinct
  <2>1. \A format \in Formats : stored[format] # NoSettings => stored[format].recentfiles \in Lists
    <3>1. first # NoSettings => first.recentfiles \in Seq(Files) /\ IsInjective(first.recentfiles)
      BY SettingsAssumption DEF Settings
    <3> QED BY <1>1, <3>1 DEF Lists, Formats
  <2> QED BY <2>1, EmptyList DEF Init, NamesDistinct
<1>4. RecencyAgrees /\ MenuFits /\ FormatKnown /\ Forgets /\ OptionsAgree /\ SavedOnClosing
  BY DEF Init, RecencyAgrees, MenuFits, FormatKnown, Forgets, OptionsAgree, SavedOnClosing,
     ExitSaves, Alive
<1> QED BY <1>2, <1>3, <1>4 DEF SettingsInv

\* The menu after UpdateRecentFileActions, wherever it is called.
LEMMA MenuAfterUpdate ==
  ASSUME TypeOK, NEW names \in Lists, UpdateRecentFileActions(names)
  PROVE  /\ menuEnabled' \in BOOLEAN /\ recentVisible' \in 0..MaxRecent
         /\ recentData' \in [1..MaxRecent -> Files \cup {NoFile}]
         /\ menuEnabled' <=> names # <<>>
         /\ menuEnabled' => /\ recentVisible' = AtMost(Len(names))
                            /\ \A i \in 1..recentVisible' : recentData'[i] = names[i]
<1>1. CASE names = <<>>
  BY <1>1 DEF UpdateRecentFileActions, TypeOK
<1>2. CASE names # <<>>
  <2>1. Len(names) \in Nat /\ \A i \in 1..Len(names) : names[i] \in Files
    BY DEF Lists
  <2>2. AtMost(Len(names)) \in 0..Len(names) /\ AtMost(Len(names)) <= MaxRecent
    BY <2>1, AtMostFacts
  <2>3. /\ menuEnabled' = TRUE /\ recentVisible' = AtMost(Len(names))
        /\ recentData' = [i \in 1..MaxRecent |-> IF i <= Len(names) THEN names[i] ELSE recentData[i]]
    BY <1>2 DEF UpdateRecentFileActions
  <2>4. recentData' \in [1..MaxRecent -> Files \cup {NoFile}]
    BY <2>1, <2>3, SettingsAssumption DEF TypeOK
  <2>5. \A i \in 1..AtMost(Len(names)) : recentData'[i] = names[i]
    BY <2>1, <2>2, <2>3, SettingsAssumption
  <2> QED BY <1>2, <2>1, <2>2, <2>3, <2>4, <2>5, SettingsAssumption
<1> QED BY <1>1, <1>2

-----------------------------------------------------------------------------
\* The steps.

LEMMA StartStep == SettingsInv /\ Start => SettingsInv'
<1> SUFFICES ASSUME SettingsInv, Start PROVE SettingsInv'
  OBVIOUS
<1>1. TypeOK'
  BY EmptyList, SettingsAssumption DEF SettingsInv, Start, TypeOK, Ended, Formats, Lists
<1>2. NamesDistinct'
  BY EmptyList DEF SettingsInv, Start, NamesDistinct
<1>3. RecencyAgrees' /\ MenuFits' /\ FormatKnown' /\ OptionsAgree' /\ SavedOnClosing'
  BY DEF Start, RecencyAgrees, MenuFits, FormatKnown, OptionsAgree, SavedOnClosing, ExitSaves, Alive
<1>4. Forgets'
  BY EmptyList DEF Start, SettingsInv, Forgets, NativeNames
<1> QED BY <1>1, <1>2, <1>3, <1>4 DEF SettingsInv

LEMMA LoadSettingsStep == SettingsInv /\ LoadSettings => SettingsInv'
<1> SUFFICES ASSUME SettingsInv, LoadSettings PROVE SettingsInv'
  OBVIOUS
<1> DEFINE settings == Read(stored[defaultFormat])
<1>1. settings \in Settings /\ settings.recentfiles \in Lists
  BY EmptyList DEF SettingsInv, TypeOK, NamesDistinct, Read, Defaults
<1>2. /\ process' = "starting" /\ m_RecentFileNames' = settings.recentfiles
      /\ checked' = settings.checked /\ m_bShould' = settings.checked
      /\ opened' = settings.recentfiles /\ defaultFormat' = "ini"
      /\ UpdateRecentFileActions(settings.recentfiles)
      /\ UNCHANGED <<loading, stored, saved, forgotten>>
      /\ process = "constructing"
  BY DEF LoadSettings
<1> HIDE DEF settings
<1>3. TypeOK'
  <2>1. /\ menuEnabled' \in BOOLEAN /\ recentVisible' \in 0..MaxRecent
        /\ recentData' \in [1..MaxRecent -> Files \cup {NoFile}]
    BY <1>1, <1>2, MenuAfterUpdate DEF SettingsInv
  <2>2. settings.recentfiles \in Seq(Files) /\ settings.checked \in [Options -> BOOLEAN]
    BY <1>1 DEF Settings
  <2> QED BY <1>2, <2>1, <2>2 DEF SettingsInv, TypeOK, Ended, Formats
<1>4. NamesDistinct'
  BY <1>1, <1>2 DEF SettingsInv, NamesDistinct
<1>5. RecencyAgrees' /\ FormatKnown' /\ OptionsAgree' /\ SavedOnClosing'
  BY <1>2 DEF RecencyAgrees, FormatKnown, OptionsAgree, SavedOnClosing, ExitSaves
<1>6. MenuFits'
  BY <1>1, <1>2, MenuAfterUpdate DEF SettingsInv, MenuFits
<1>7. Named(settings.recentfiles) = NativeNames
  BY <1>2 DEF SettingsInv, FormatKnown, NativeNames, settings
<1>8. Forgets'
  BY <1>2, <1>7 DEF SettingsInv, Forgets, NativeNames
<1> QED BY <1>3, <1>4, <1>5, <1>6, <1>8 DEF SettingsInv

\* SaveSettings, with the names the window has or with none.
LEMMA SaveFacts ==
  ASSUME SettingsInv, process = "running", NEW names \in Lists, SaveSettingsOfNames(names)
  PROVE  /\ NativeNames' = NativeNames /\ Read(stored'["ini"]).recentfiles = names
         /\ defaultFormat' = "ini"
         /\ stored' \in [Formats -> Settings \cup {NoSettings}] /\ defaultFormat' \in Formats
         /\ saved' \in Settings /\ saved' = [recentfiles |-> names, checked |-> checked]
         /\ \A format \in Formats : stored'[format] # NoSettings => stored'[format].recentfiles \in Lists
<1> DEFINE settings == [recentfiles |-> names, checked |-> checked]
<1>1. settings \in Settings /\ settings.recentfiles = names
  BY DEF SettingsInv, TypeOK, Settings, Lists
<1>2. stored' = [stored EXCEPT ![defaultFormat] = settings] /\ saved' = settings /\ defaultFormat' = "ini"
  BY DEF SaveSettingsOfNames
<1> HIDE DEF settings
<1>3. stored' \in [Formats -> Settings \cup {NoSettings}] /\ defaultFormat' \in Formats
  BY <1>1, <1>2 DEF SettingsInv, TypeOK, Formats
<1>4. \A format \in Formats : stored'[format] \in {stored[format], settings}
  BY <1>2 DEF SettingsInv, TypeOK
<1>5. \A format \in Formats : stored'[format] # NoSettings => stored'[format].recentfiles \in Lists
  BY <1>1, <1>4 DEF SettingsInv, NamesDistinct
<1>6. saved' = [recentfiles |-> names, checked |-> checked]
  BY <1>2 DEF settings
<1>7. stored'["native"] = stored["native"] /\ stored'["ini"] = settings
  <2>1. defaultFormat = "ini"
    BY DEF SettingsInv, FormatKnown, Alive
  <2> QED BY <1>2, <2>1 DEF SettingsInv, TypeOK, Formats
<1>8. NativeNames' = NativeNames /\ Read(stored'["ini"]).recentfiles = names
  BY <1>1, <1>7, SettingsAssumption DEF NativeNames, Read
<1> QED BY <1>1, <1>2, <1>3, <1>5, <1>6, <1>8

LEMMA LoadEndsStep ==
  ASSUME SettingsInv, NEW ok \in BOOLEAN, LoadEnds(ok)
  PROVE  SettingsInv'
<1>1. /\ process \in {"running", "closing"} /\ loading \in Files /\ loading' = NoFile
      /\ process' = IF process = "running" THEN "running" ELSE IF ok THEN "exitedUnsaved" ELSE "exited"
      /\ UNCHANGED <<checked, m_bShould, stored, defaultFormat, saved>>
  BY DEF LoadEnds, diskVars, SettingsInv, TypeOK
<1>2. CASE ok
  <2> DEFINE moved == MoveToFront(loading, m_RecentFileNames)
             names == FirstRecent(moved)
  <2>1. /\ m_RecentFileNames' = names /\ UpdateRecentFileActions(names)
        /\ opened' = MoveToFront(loading, opened) /\ forgotten' = forgotten \ {loading}
    BY <1>2 DEF LoadEnds, AddToRecentFiles
  <2>2. /\ m_RecentFileNames \in Lists /\ opened \in Lists
        /\ FirstRecent(m_RecentFileNames) = FirstRecent(opened)
    BY DEF SettingsInv, NamesDistinct, RecencyAgrees
  <2>3. /\ moved \in Lists /\ opened' \in Lists
        /\ Named(moved) \subseteq Named(m_RecentFileNames) \cup {loading}
    BY <1>1, <2>1, <2>2, MoveFacts
  <2>4. FirstRecent(moved) = FirstRecent(opened')
    BY <1>1, <2>1, <2>2, CutDoesNotShow
  <2> HIDE DEF moved
  <2>5. /\ names \in Lists /\ Named(names) \subseteq Named(moved)
        /\ FirstRecent(names) = FirstRecent(moved)
    BY <2>3, FirstFacts
  <2> HIDE DEF names
  <2>6. TypeOK'
    <3>1. /\ menuEnabled' \in BOOLEAN /\ recentVisible' \in 0..MaxRecent
          /\ recentData' \in [1..MaxRecent -> Files \cup {NoFile}]
      BY <2>1, <2>5, MenuAfterUpdate DEF SettingsInv
    <3> QED BY <1>1, <2>1, <2>3, <2>5, <3>1 DEF SettingsInv, TypeOK, Ended, Lists
  <2>7. NamesDistinct'
    BY <1>1, <2>1, <2>3, <2>5 DEF SettingsInv, NamesDistinct
  <2>8. RecencyAgrees'
    BY <2>1, <2>4, <2>5 DEF RecencyAgrees
  <2>9. MenuFits'
    BY <2>1, <2>5, MenuAfterUpdate DEF SettingsInv, MenuFits
  <2>10. Forgets' /\ FormatKnown'
    BY <1>1, <2>1, <2>3, <2>5 DEF SettingsInv, FormatKnown, Alive, Forgets, NativeNames
  <2>11. OptionsAgree' /\ SavedOnClosing'
    <3>1. OptionsAgree'
      BY <1>1, <1>2 DEF SettingsInv, OptionsAgree, Alive
    <3>2. process = "closing" => saved.recentfiles = m_RecentFileNames /\ saved.checked = checked
      BY DEF SettingsInv, SavedOnClosing, Current
    <3>3. m_RecentFileNames' = FirstRecent(MoveToFront(loading, m_RecentFileNames))
      BY <2>1 DEF moved, names
    <3>4. process' = "exitedUnsaved" => ExitSaves'
      BY <1>1, <1>2, <3>2, <3>3 DEF ExitSaves
    <3> QED BY <1>1, <1>2, <3>1, <3>4 DEF SavedOnClosing, ExitSaves
  <2> QED BY <2>6, <2>7, <2>8, <2>9, <2>10, <2>11 DEF SettingsInv
<1>3. CASE ~ok
  <2>1. UNCHANGED <<m_RecentFileNames, recentData, recentVisible, menuEnabled, opened, forgotten>>
    BY <1>3 DEF LoadEnds, pastVars
  <2>2. TypeOK'
    BY <1>1, <2>1 DEF SettingsInv, TypeOK, Ended
  <2>3. NamesDistinct' /\ RecencyAgrees' /\ FormatKnown' /\ Forgets'
    BY <1>1, <2>1 DEF SettingsInv, NamesDistinct, RecencyAgrees, FormatKnown, Alive, Forgets,
       NativeNames
  <2>4. MenuFits' /\ OptionsAgree'
    BY <1>1, <2>1 DEF SettingsInv, MenuFits, OptionsAgree, Alive
  <2>5. SavedOnClosing'
    BY <1>1, <1>3, <2>1 DEF SettingsInv, SavedOnClosing, ExitSaves, Current
  <2> QED BY <2>2, <2>3, <2>4, <2>5 DEF SettingsInv
<1> QED BY <1>2, <1>3

LEMMA ClearStep == SettingsInv /\ ClearRecentFiles => SettingsInv'
<1> SUFFICES ASSUME SettingsInv, ClearRecentFiles PROVE SettingsInv'
  OBVIOUS
<1>1. /\ process = "running" /\ m_RecentFileNames' = <<>> /\ opened' = <<>>
      /\ menuEnabled' = FALSE
      /\ SaveSettingsOfNames(<<>>)
      /\ UNCHANGED <<process, loading, checked, m_bShould, recentData, recentVisible>>
      /\ forgotten' = forgotten \cup Named(m_RecentFileNames)
  BY DEF ClearRecentFiles, Idle, UpdateRecentFileActions
<1>2. /\ stored' \in [Formats -> Settings \cup {NoSettings}] /\ defaultFormat' \in Formats
      /\ saved' \in Settings /\ saved' = [recentfiles |-> <<>>, checked |-> checked]
      /\ \A format \in Formats : stored'[format] # NoSettings => stored'[format].recentfiles \in Lists
      /\ defaultFormat' = "ini" /\ Read(stored'["ini"]).recentfiles = <<>>
  BY <1>1, EmptyList, SaveFacts
<1>3. Named(m_RecentFileNames) \subseteq Files
  BY DEF SettingsInv, NamesDistinct, Lists, Named, Range
<1>4. TypeOK'
  <2>1. m_RecentFileNames' \in Seq(Files) /\ opened' \in Seq(Files)
    BY <1>1
  <2>2. forgotten' \in SUBSET Files
    BY <1>1, <1>3 DEF SettingsInv, TypeOK
  <2> QED BY <1>1, <1>2, <2>1, <2>2 DEF SettingsInv, TypeOK, Ended
<1>5. NamesDistinct' /\ RecencyAgrees' /\ MenuFits'
  BY <1>1, <1>2, EmptyList DEF SettingsInv, NamesDistinct, RecencyAgrees, MenuFits
<1>6. Forgets' /\ FormatKnown'
  BY <1>1, <1>2, EmptyList DEF Forgets, FormatKnown
<1>7. OptionsAgree' /\ SavedOnClosing'
  BY <1>1 DEF SettingsInv, OptionsAgree, SavedOnClosing, ExitSaves, Alive
<1> QED BY <1>4, <1>5, <1>6, <1>7 DEF SettingsInv

LEMMA LeaveStep ==
  ASSUME SettingsInv, OnQuitButton \/ closeEvent
  PROVE  SettingsInv'
<1>1. /\ process = "running" /\ SaveSettingsOfNames(m_RecentFileNames)
      /\ process' = (IF loading = NoFile THEN "exited" ELSE "closing")
      /\ UNCHANGED <<loading, m_RecentFileNames, recentData, recentVisible, menuEnabled,
                     checked, m_bShould, opened, forgotten>>
  BY DEF OnQuitButton, closeEvent, SaveSettings, Idle, windowVars, pastVars
<1>2. /\ stored' \in [Formats -> Settings \cup {NoSettings}] /\ defaultFormat' \in Formats
      /\ saved' \in Settings /\ saved' = Current
      /\ \A format \in Formats : stored'[format] # NoSettings => stored'[format].recentfiles \in Lists
      /\ defaultFormat' = "ini" /\ NativeNames' = NativeNames
      /\ Read(stored'["ini"]).recentfiles = m_RecentFileNames
  BY <1>1, SaveFacts DEF SettingsInv, NamesDistinct, Current
<1>3. TypeOK'
  <2>1. process' \in {"exited", "closing"} /\ (process' \in Ended => loading' = NoFile)
    BY <1>1 DEF Ended
  <2>2. process' \in {"constructing", "starting", "running", "closing"} \cup Ended
    BY <2>1 DEF Ended
  <2> QED BY <1>1, <1>2, <2>1, <2>2 DEF SettingsInv, TypeOK
<1>4. NamesDistinct' /\ RecencyAgrees' /\ OptionsAgree'
  BY <1>1, <1>2 DEF SettingsInv, NamesDistinct, RecencyAgrees, OptionsAgree, Alive
<1>5. MenuFits'
  BY <1>1 DEF SettingsInv, MenuFits, Alive
<1>6. Forgets' /\ FormatKnown'
  BY <1>1, <1>2 DEF SettingsInv, Forgets, FormatKnown
<1>7. SavedOnClosing'
  BY <1>1, <1>2 DEF SavedOnClosing, ExitSaves, Current
<1> QED BY <1>3, <1>4, <1>5, <1>6, <1>7 DEF SettingsInv

\* Every step keeps the invariant.
THEOREM SettingsInvariant == Spec => []SettingsInv
<1>1. SettingsInv /\ [Next]_vars => SettingsInv'
  <2> SUFFICES ASSUME SettingsInv, [Next]_vars PROVE SettingsInv'
    OBVIOUS
  <2>1. CASE Start
    BY <2>1, StartStep
  <2>2. CASE LoadSettings
    BY <2>2, LoadSettingsStep
  <2>3. CASE Exec \/ Crash
    <3>1. /\ process' = "crashed" \/ (process = "starting" /\ process' = "running")
          /\ loading' \in {NoFile, loading} /\ (process' = "crashed" => loading' = NoFile)
          /\ UNCHANGED <<m_RecentFileNames, recentData, recentVisible, menuEnabled, checked, m_bShould,
                         stored, defaultFormat, saved, opened, forgotten>>
      BY <2>3 DEF Exec, Crash, windowVars, diskVars, pastVars
    <3>2. TypeOK'
      BY <3>1 DEF SettingsInv, TypeOK, Ended
    <3>3. NamesDistinct' /\ RecencyAgrees' /\ FormatKnown' /\ Forgets'
      BY <3>1 DEF SettingsInv, NamesDistinct, RecencyAgrees, FormatKnown, Alive, Forgets, NativeNames
    <3>4. MenuFits' /\ OptionsAgree' /\ SavedOnClosing'
      BY <3>1 DEF SettingsInv, MenuFits, OptionsAgree, SavedOnClosing, ExitSaves, Alive
    <3> QED BY <3>2, <3>3, <3>4 DEF SettingsInv
  <2>4. CASE (\E f \in Files : OpenFile(f)) \/ (\E i \in 1..MaxRecent : OnRecentFileOpen(i))
    <3>1. /\ process = "running"
          /\ loading' \in Files
          /\ UNCHANGED <<process, m_RecentFileNames, recentData, recentVisible, menuEnabled,
                         checked, m_bShould, stored, defaultFormat, saved, opened, forgotten>>
      <4>1. CASE \E f \in Files : OpenFile(f)
        BY <4>1 DEF OpenFile, Idle, diskVars, pastVars
      <4>2. CASE \E i \in 1..MaxRecent : OnRecentFileOpen(i)
        <5>1. PICK i \in 1..MaxRecent : OnRecentFileOpen(i)
          BY <4>2
        <5>2. i \in 1..recentVisible /\ menuEnabled /\ process = "running"
          BY <5>1 DEF OnRecentFileOpen, Idle, SettingsInv, TypeOK
        <5>3. recentData[i] \in Files
          <6>1. recentData[i] = m_RecentFileNames[i] /\ i <= AtMost(Len(m_RecentFileNames))
            BY <5>2 DEF SettingsInv, MenuFits, Alive, TypeOK
          <6>2. m_RecentFileNames \in Seq(Files) /\ Len(m_RecentFileNames) \in Nat
            BY DEF SettingsInv, TypeOK
          <6> QED BY <6>1, <6>2, AtMostFacts
        <5> QED BY <5>1, <5>2, <5>3 DEF OnRecentFileOpen, OpenFile, Idle, diskVars, pastVars
      <4> QED BY <2>4, <4>1, <4>2
    <3>2. TypeOK'
      BY <3>1 DEF SettingsInv, TypeOK, Ended
    <3>3. NamesDistinct' /\ RecencyAgrees' /\ FormatKnown' /\ Forgets'
      BY <3>1 DEF SettingsInv, NamesDistinct, RecencyAgrees, FormatKnown, Alive, Forgets, NativeNames
    <3>4. MenuFits' /\ OptionsAgree' /\ SavedOnClosing'
      BY <3>1 DEF SettingsInv, MenuFits, OptionsAgree, SavedOnClosing, ExitSaves, Alive
    <3> QED BY <3>2, <3>3, <3>4 DEF SettingsInv
  <2>5. CASE \E ok \in BOOLEAN : LoadEnds(ok)
    BY <2>5, LoadEndsStep
  <2>6. CASE ClearRecentFiles
    BY <2>6, ClearStep
  <2>7. CASE \E o \in Options : Toggle(o)
    <3>1. PICK o \in Options : Toggle(o)
      BY <2>7
    <3>2. TypeOK'
      BY <3>1 DEF Toggle, Idle, diskVars, pastVars, SettingsInv, TypeOK, Ended
    <3>3. NamesDistinct' /\ RecencyAgrees' /\ FormatKnown' /\ Forgets' /\ MenuFits'
      BY <3>1 DEF Toggle, Idle, diskVars, pastVars, SettingsInv, NamesDistinct, RecencyAgrees,
                  FormatKnown, Forgets, NativeNames, MenuFits, Alive
    <3>4. OptionsAgree' /\ SavedOnClosing'
      BY <3>1 DEF Toggle, Idle, SettingsInv, OptionsAgree, SavedOnClosing, ExitSaves, Alive
    <3> QED BY <3>2, <3>3, <3>4 DEF SettingsInv
  <2>8. CASE OnQuitButton \/ closeEvent
    BY <2>8, LeaveStep
  <2>9. CASE UNCHANGED vars
    <3>1. UNCHANGED <<process, windowVars, diskVars, pastVars>>
      BY <2>9 DEF vars
    <3>2. TypeOK'
      BY <3>1 DEF windowVars, diskVars, pastVars, SettingsInv, TypeOK
    <3>3. NamesDistinct' /\ RecencyAgrees' /\ FormatKnown' /\ Forgets' /\ MenuFits' /\ OptionsAgree'
      BY <3>1 DEF windowVars, diskVars, pastVars, SettingsInv, NamesDistinct, RecencyAgrees,
                  FormatKnown, Forgets, NativeNames, MenuFits, OptionsAgree, Alive
    <3>4. SavedOnClosing'
      BY <3>1 DEF windowVars, diskVars, SettingsInv, SavedOnClosing, ExitSaves, Current
    <3> QED BY <3>2, <3>3, <3>4 DEF SettingsInv
  <2> QED BY <2>1, <2>2, <2>3, <2>4, <2>5, <2>6, <2>7, <2>8, <2>9 DEF Next
<1> QED BY <1>1, InitSettingsInv, PTL DEF Spec

-----------------------------------------------------------------------------
\* The properties.

\* The state stays in its types, and no load is pending in a process that ended.
THEOREM SettingsTypeCorrect == Spec => []TypeOK
<1>1. SettingsInv => TypeOK
  BY DEF SettingsInv
<1> QED BY <1>1, SettingsInvariant, PTL

\* The recent files are the last ones loaded, for any room and any files.
THEOREM ListIsOfLastLoaded == Spec => []ListIsRecency
<1>1. SettingsInv => ListIsRecency
  BY DEF SettingsInv, RecencyAgrees, NamesDistinct, Lists, ListIsRecency
<1> QED BY <1>1, SettingsInvariant, PTL

\* An enabled menu offers the list, also after it was cleared.
THEOREM MenuIsForTheList == Spec => []MenuOpensListed
<1>1. SettingsInv => MenuOpensListed
  <2> SUFFICES ASSUME SettingsInv, Alive, menuEnabled
               PROVE  /\ recentVisible = AtMost(Len(m_RecentFileNames)) /\ recentVisible > 0
                      /\ \A i \in 1..recentVisible : recentData[i] = m_RecentFileNames[i]
    BY DEF MenuOpensListed
  <2>1. m_RecentFileNames # <<>> /\ m_RecentFileNames \in Seq(Files)
    BY DEF SettingsInv, MenuFits, TypeOK
  <2>2. Len(m_RecentFileNames) \in Nat /\ Len(m_RecentFileNames) > 0
    BY <2>1
  <2> QED BY <2>2, AtMostFacts DEF SettingsInv, MenuFits
<1> QED BY <1>1, SettingsInvariant, PTL

\* What was cleared in any process and not loaded since stays out of list,
\* menu and saved settings through exits, crashes and restarts, unless the
\* native settings, which every start reads and no save writes, name it.
THEOREM ClearedFilesAreForgotten == Spec => []ClearedIsForgotten
<1>1. SettingsInv => ClearedIsForgotten
  <2> SUFFICES ASSUME SettingsInv PROVE ClearedIsForgotten
    OBVIOUS
  <2>1. ASSUME Alive, menuEnabled, NEW i \in 1..recentVisible
        PROVE  recentData[i] \notin forgotten \ NativeNames
    <3>1. recentData[i] = m_RecentFileNames[i] /\ recentVisible = AtMost(Len(m_RecentFileNames))
      BY <2>1 DEF SettingsInv, MenuFits
    <3>2. m_RecentFileNames \in Seq(Files) /\ Len(m_RecentFileNames) \in Nat
      BY DEF SettingsInv, TypeOK
    <3>3. i \in 1..Len(m_RecentFileNames)
      BY <3>1, <3>2, AtMostFacts
    <3>4. m_RecentFileNames[i] \in Named(m_RecentFileNames)
      BY <3>2, <3>3 DEF Named, Range
    <3> QED BY <3>1, <3>4 DEF SettingsInv, Forgets
  <2> QED BY <2>1 DEF SettingsInv, Forgets, ClearedIsForgotten
<1> QED BY <1>1, SettingsInvariant, PTL

\* The options the extractions look at are those the menu shows.
THEOREM OptionsDoAgree == Spec => []OptionsAgree
<1>1. SettingsInv => OptionsAgree
  BY DEF SettingsInv
<1> QED BY <1>1, SettingsInvariant, PTL

\* An orderly end has saved what the window showed, but for the one file of
\* a load the window was closed in.
THEOREM OrderlyExitSaves == Spec => []ExitSaves
<1>1. SettingsInv => ExitSaves
  BY DEF SettingsInv, SavedOnClosing
<1> QED BY <1>1, SettingsInvariant, PTL
=============================================================================
