# A formal model of UnCSO2

UnCSO2 is a Qt program that opens the PKG archives of two games, shows their
files in a tree and extracts, decrypts and previews them. Its code is
sequential in the small. What is hard about it is that the user's requests run
on `std::async` threads while the window's thread keeps processing events, that
all of them share one `PkgFileModel` of raw pointers without a lock, and that
every path through a load, a failed load, a reset or an extraction must leave
that model in a state the next request can start from.

This directory holds TLA+ modules for those parts, TLC configurations that check
them on small instances, and proofs that TLAPS checks for every value of the
constants. `PROJECT.json` is the manifest: components, runs, mutants, the source
lines behind every definition, the hazards and the findings.

## 1. The system

| Component | State | Operations | Correct when |
|---|---|---|---|
| **Main window** (`layouts/mainwindow.cpp`, `busywinwrapper.cpp`) | enabled widgets, wait cursors, title; one waiting handler per job | open, drop, open index, select, extract, extract all, preview, quit | handlers do not nest; every job ends; widgets come back; a window that holds packages shows the title and properties of exactly these |
| **Archive model: loads** (`pkgfilemodel.cpp`, `archive*node.cpp`) | tree of nodes, `m_DirectoryNodes`, `m_PkgFiles`, selection, parent folder, properties, last error, three flags | `LoadPackage`, `LoadIndex`, `ResetModel`, `CreateChildren`, `OnSelectionChanged` | no pointer outlives what it points to; loads are all or nothing; the busy flag is exact |
| **Archive model: order** (`pkgfilemodel.cpp`, `pkgfilemodelsorter.cpp`) | order of each directory, column, order, force flag; the view's persistent indexes | `sort`, `index`, `rowCount`, reset | the comparison is one `std::sort` is defined for; rows are in the order asked for; indexes follow their node |
| **Extraction** (`nodeextractionmgr.cpp`, `specialfilehandler.cpp`, `fsutils.cpp`) | packages to go through, nodes collected, a data buffer per package, progress, the output directory | `ExtractNodes`, `ExtractPackages`, `ExtractSingleFileNode` | each file is decrypted from its own package's live bytes; success means all was written |
| **Load index dialog** (`layouts/loadindexdialog.cpp`, `gamedatainfo.cpp`) | the line, the game detected, whether Ok is enabled | browse, type, clear, ok, cancel | Ok is for the game in the line |
| **Package provider detection** (`dynpkgfilefactory.cpp`) | the header's vector, its backup, the `PkgFile` with keys, layout and the vector it points into | guess, try as asked, read the full header, decrypt | a package is handed on with a key that opens it; no pointer into a replaced vector is followed; a wrong key leaves nothing behind |
| **Index provider detection** (`dynindexfilefactory.cpp`) | the index's bytes, its key collection | try one collection, then the other | an index one of them opens is opened |
| **Settings and recent files** (`layouts/mainwindow.cpp`) | the recent files, their menu actions, two options, what is stored | load, save, add, clear, open, toggle, quit, close | the menu opens what is listed; the list is that of the last files; no crash brings back what was cleared; options do what they show |
| Tree view, error box, status bar, other dialogs, application | what they show | | not modelled: they show values they are given |
| libuncso2 | parsed packages and indexes | parse, decrypt | external: the submodule is not in the tree |

### How the components interact

* A handler of the window takes a `CBusyWinWrapper` (disables the tree view and
  the menu actions, pushes a wait cursor), starts a job with `std::async`, and
  then loops: `processEvents`, look whether the future is ready after 5 ms. It
  is still on the stack while the events it processes run **other** handlers.
* The job's thread writes the model (loads) or reads it (extractions: a copy of
  the selection, that is of raw node pointers, or pointers to the packages, and
  a copy of the parent folder). Nothing is locked.
* What keeps the two apart is the disabled widgets. The window itself stays
  enabled and accepts drops; `dropEvent` only looks at `PkgFileModel::m_bIsBusy`.
* The model owns the nodes (through the root) and the `PkgFile`s; a `PkgFile`
  owns its entries; file nodes and the selection point to them. `ResetModel`
  deletes them all.
* An extraction reads a package again from disk and lends its bytes to the
  `PkgFile` (`SetDataBuffer`), which may keep pointing to them after they die.
* The dialog hands the window a directory with the provider it detected there;
  `LoadIndex` tries its own two key collections on the index, and passes the
  dialog's provider on to the factory of every package the index names. A
  package opened alone is asked for with `GameProvider::Unknown` and guessed.
* A load that succeeds puts its file in the recent files; the settings are only
  written when the list is cleared and on exit.
* `future.get()` throws again what the job threw, and nothing up to `main`
  catches it.

### What is hard

Handlers that run inside other handlers; a job's thread beside the window's; a
flag set by the job and not by the handler that starts it; a load that fails
half way through an index; raw pointers that must not outlive a reset; buffers
that are freed while a `PkgFile` points to them; bytes decrypted in place with the
wrong key and tried again with the next; menu actions that outlive the list they
were made from; settings that must survive a crash; a sort that moves no node. The
`hazards` of `PROJECT.json` list each at its line with the properties that
would catch it.

## 2. The modules

| Module | Models |
|---|---|
| `PkgFileModel` | state and steps of the archive model: what `ResetModel`, each part of `LoadPackage` and `LoadIndex`, and the selection change |
| `MainWindow` | extends it with handlers, nested event loops, the jobs' threads, and when each step of the model happens |
| `ArchiveSession` | abstract: a request replaces the archive and is answered with all of its packages or with none |
| `PackageOpening` | abstract: packages are opened in order, each with a key and layout that fit it and its game, all or none |
| `NodeExtraction` | one extraction after another on a constant archive, with the files written |
| `ExtractionService` | abstract: an extraction writes what it is asked for, item after item, and answers yes when it wrote all |
| `PkgModelSort` | sorting, rows and persistent indexes |
| `GameProviders` | the providers and their keys |
| `LoadIndexDialog` | the dialog and the game detection |
| `PkgFactory` | `DynamicPkgFileFactory` with what `LoadPackage` does with it |
| `IndexFactory` | `DynamicIndexFileFactory` with the beginning of `LoadIndex` |
| `GameLoad` | composes the three: from a directory over its index to its packages |
| `WindowSettings` | recent files, options and settings over processes that end or crash |
| `…_proofs` | the theorems about the module of that name; `ArchiveSession_proofs` those on what `MainWindow` shows of the archive, and that it implements `ArchiveSession` |
| `MC*` | values of the constants for TLC |

`MainWindow` composes the window with the archive model and implements
`ArchiveSession`; `NodeExtraction` implements `ExtractionService`. `GameLoad`
composes the dialog with the two factories and implements `PackageOpening`. The
modules are about separate questions: `MainWindow` shows
(`ExtractionUndisturbed`) that the archive stays as it is under an extraction,
which is what `NodeExtraction` takes for granted; a load that is one of
`ParsePackage` and `PackageFails` in `PkgFileModel` is `PkgFactory` in detail, and
`ReadIndex` and `DetectIndexThrows` are `IndexFactory`; `PkgModelSort` keeps the
order of the nodes that `PkgFileModel` keeps as a set; of a load
`WindowSettings` only knows how it ends.

### MainWindow and PkgFileModel

`jobs[1..depth]` is the stack of handlers that wait in their loop, each with the
state of its job: the step its thread is at (`pc`), the packages it still has to
load, the object it parsed into, what an extraction captured, the value of its
future. `Worker(d)` is the thread at level `d`; threads of all levels run.
`FinishJob` is only possible at the top of the stack, because a handler lower
down is inside the other's `processEvents`.

A load goes through `call` (sets the flag) → `parse` → `publish` → `loaded`, an
index through `index` → `read` → a `call` … `loaded` per package → `wrapUp`, or
`undo` when one fails. Between `parse` and `publish` nodes point into an object
only a local `unique_ptr` owns. Extractions go through `capture` → `write` per
package. `ready` and `thrown` are the states of the future.

A node is `[name, obj]`, and `obj` is the load that made it: the same directory
or package loaded again is another node, so that "freed" can be said.
Reading something freed is undefined behaviour and ends the model with
`status = "undefined"`; `OnQuitButton` (`std::exit`) and a rethrown exception end
it too, which is why `Stopped` is an action of its own.

Abstractions: one entry stands for all of a package (they live and die with
their `PkgFile`); the hash of a package's name is the name (so it is taken to be
injective); progress bars and wording are left out. `origin` is a history
variable. A step of a job is atomic: that painting reads `m_vChildNodes` while
`CreateChildren` or `sort` changes it is a data race the model does not show
(listed as a hazard).

### NodeExtraction

`memory` says which package's bytes are at an address, `dataBuffer` where each
`PkgFile` decrypts from. `Return` frees the vector of the extraction and tells no
`PkgFile`, as the destructors do. A node collected is a file and a path: the
name alone for a file that was selected, the path from the directory for one
below a directory. `Outcomes` is what may end up on disk: encrypted files are
decrypted and renamed, textures decompressed, and every failure in there leaves
an empty or short file and no error. `WriteFails`, `ReadFails` and
`ParseThrows` are the failures the code does see. Packages come in any order
(the code iterates an `unordered_map`). `written` is a history variable: the
items the extraction wrote, which the code does not keep and the disk does not
tell when one file replaced another.

### PkgModelSort

A directory keeps its children in ascending order; descending order is a
mirrored row number. `Sorted` gives every order `std::sort` may leave, since it
is not stable. `persistent` is what the view holds. `parent()` is not modelled
(section 7).

### LoadIndexDialog, PkgFactory, IndexFactory, GameLoad

The directory the user names or else its `Data` is searched. Directories, the
game in each, its index and the packages the index names are constant.

A package file is the set of keys, each with a layout, that open it. Bytes are
`cipher` (as read), `plain` or `garbled`. `DecryptHeader` is of the library, so
`Decrypted` is what can be said of it from its uses: on the file's own bytes with
a key that opens it, it succeeds and leaves them decrypted; otherwise it returns
false, or throws before or after it changed the bytes. `TestCsKey` is one turn
of the loop over keys: the backup goes back after a *false* and does not after a
throw, because the `catch` goes on with the next key. `m_pPkgFile.span` is the
vector the `PkgFile` points into: `LoadFullFileHeader` replaces the vector with
the base header by a longer one and must point the `PkgFile` to it.
`IndexFactory` has the same for an index, with one backup that is always put
back. A provider stands for its entry key and its data key, which are always set
together.

`GameLoad` passes on the dialog's directory and provider, as
`OnIndexFileAccepted` does; an exception of the index factory ends the process
(finding 2), and the failure of one package ends the load and resets the model.
Of the model it keeps `m_PkgFiles`, the packages handed on with the key and layout
they were given, in the order they came.

### WindowSettings

`stored` has one file per format of `QSettings`, `defaultFormat` is the static the
code sets. `Start`, `LoadSettings` and `Exec` are the parts of a start; `Crash`
may come at any point, `closeEvent` also while a handler waits for a load, which
then runs to its end in a process that ends (`closing`). `saved`, `opened` and
`forgotten` are history variables: what was written last, all files by recency
without a limit, and the files cleared and not loaded since, in this process or
any before it: a start and a crash leave `forgotten` as it is.

## 3. The runs

| Run | Bounds | Shows |
|---|---|---|
| `window` | 2 folders, 2 packages, 1 directory, indexes naming both packages / one of them, 3 objects, depth 2, no drops during jobs | the safety of the whole session, that every job ends, and the refinement |
| `window_drops` | 1 folder, 2 packages, 4 objects, depth 2, drops during jobs | what still holds when handlers nest and loads overlap |
| `extraction` | 3 files of 2 packages, one nested directory, 2 buffers | any sequence of extractions with every failure |
| `sort` | 8 nodes in 3 levels, equal names and sizes among them | any sequence of clicks, loads and resets |
| `game` | 4 providers with 2 keys, 4 kinds of package, 7 directories, 4 games with their indexes | dialog, index and packages in any order |
| `settings` | 3 files, room for 2, 2 options | one process after another, with crashes |
| `window_unsafe`, `window_index`, `extraction_names`, `sort_root`, `dialog_line`, `settings_restart` | as their component | the six findings of section 6 |

**`window`.** `OneJobAtATime`: handlers do not nest. `MemorySafe`: no thread
reads a freed node, entry or package. `NodesOwned`: every file node of the tree
points into a package that is in the map or in the hands of the load that runs.
`ExtractsFromSource`: a package is read again from the folder it came from.
`ArchiveCoherent`: an idle window that holds packages holds all of what its title
names and nothing else, with folder, tree and index flag to match; one that holds
none has an empty tree and no index flag; and title and properties always name
the same archive. It does not say that this archive is loaded: after a failed load
(`mainwindow.cpp:307`) the handler returns before it sets the title, and title,
properties and the actions enabled again are those of the archive that
`ResetIfGenerated` dropped (section 7). `LoadErrorIsOwn`: the message of a
failed load is not that of an earlier one. `ExtractionUndisturbed` (a property
of steps): nothing changes the archive under an extraction. `JobsEnd`.
`SessionImplemented`: the window refines `ArchiveSession`, in every step. The
mapping shows an archive only between loads; the steps of a load are stutters,
its end is the answer.

**`window_drops`.** `BusySound`: the busy flag is only set while a load runs
that will clear it. `IdleUsable`: cursors and widgets are given back however
handlers nested. `SelectionInTree`: no selected node is outside the tree. Those
of `window` about the archive and its pointers need the gate: see the first finding.

**`extraction`.** `ReadsOwnBytes`: although failed extractions and every extract
all leave `PkgFile`s pointing to freed vectors whose addresses are used again,
nothing is decrypted from one. `SuccessIsComplete`: success means something was
written at the place of every file wanted. `ProgressIsExact`: no file is written
twice when a directory spans packages. `PreviewNamesItsFile`: the file a preview
opens is the one asked for, under the name it has after decryption.
`ServiceImplemented`: seen from the window, whatever happened in the extractions
before, one writes only what was wanted and answers yes exactly when it wrote all.
Reading packages, skipping them and their buffers are hidden; files found at the
same place are one item each, so this says nothing of the disk, as
`SuccessIsComplete` does.

**`sort`.** `ComparisonIsSound` (strict weak order), `ShownInOrder` (whatever
clicks, loads and resets came before, the rows are in the order asked for) and
`IndexesFollow` (a persistent index is at the row of its node).

**`game`.** `OkIsForTheLine`: Ok is for the game in the line, whatever was typed
and corrected before. `IndexIsNotGuessed`: every package of an index is opened
with the provider detected in the directory the index is loaded from.
`ProviderFits`: the provider reported and the key and layout of the `PkgFile`
belong together and open it; with two providers on one key the first is
reported, which the property allows. `ParsesFreshHeader`: no step decrypts
through a pointer into a replaced vector, and what is parsed was read afresh.
`KnownIndexIsDetected`: an index one of the collections opens is never given up.
`MissedOnlyAfterThrow`: the damage the missing restore in the `catch` can do. A
guess passes over a key that opens the package only right after a key that threw.
`OpeningImplemented`: with the keys, bytes and vectors hidden, a load opens what it
was asked for, in order, each package with a lock of its own and below an index
with that of the game in its directory; it stops at the first that fails and then
leaves nothing; and only an index that no collection opens ends the process.

**`settings`.** `MenuOpensListed`: an enabled menu offers the recent files in
their order. The actions of a longer or cleared list, which the early return of
`UpdateRecentFileActions` does not hide, stay visible in the menu after the list
was cleared, and `CBusyWinWrapper` enables them and the entry of the menu again
after the next load; what keeps them from being triggered is that the menu's
own widget stays disabled until the list has a file again. `ListIsRecency`: cutting the list after
every load loses nothing. `ClearedIsForgotten`: a file cleared and not loaded
again is neither listed, nor offered, nor in what is saved, in this process or a
later one, crashes between them included. It leaves out the files the native
settings name: the start reads them and no save overwrites them (finding 6), so
that they come back however often they are cleared. `OptionsAgree`: the extractions
follow the actions, restored ones too. `ExitSaves`: an orderly exit saved what the
window showed; a window closed during a load that succeeds loses that one file
and nothing else.

Each property has a mutant in the module, an operator beside the one it changes
(`…Forgotten`, `…KeepsSpan`, …; marked *mutant*), with which the run finds it
violated. The mutants are not part of any specification.

### Why the bounds are enough

Two folders tell "the folder of this package" from "the current folder"; two
packages make an index that fails half way, a selection over two owners and a
package replaced by another; three objects let a load run while the archive
before it is still pointed to, and four while two loads overlap. Depth 2 nests
one handler in another; `OneJobAtATime` at depth 2 rules out more. With one
entry per package a directory that is shared needs two packages only. Two
buffers make an address be used again by the other package. Three levels of
nodes with ties in every column reach every branch of the comparison. Four
providers with two keys make two of them share a key in one layout and a third
share it in the other; three keys in the loop let a throw come before, between
and after keys that open. Three files with room for two overflow the list, open a
file again that was cut off, and one that is last in a full list; the native
settings hold nothing, one file or more files than there is room for, so that some
cleared files are named there and some are not. Addresses
(`Objs`) are interchangeable: the other runs of the window use symmetry in them,
`window` does not, since it checks liveness. The buffers of the extraction runs
are addresses too, and symmetric.

### Fairness

`WF(Worker(d))` for each job: a job's thread is an OS thread that is never
suspended, its steps are always enabled until the future has a value, and calls
to the file system and the library are taken to return. `WF(FinishJob \/
JobThrows)`: the loop of the innermost handler looks at its future every 5 ms.
Nothing is assumed of the user: no handler has to be called, so neither file
dialogs nor clicks have fairness.

## 4. The proofs

For all values of the constants, from the named assumptions of each module
(`NamesAssumption`, `IndexAssumption`, `WindowAssumption`; `FilesAssumption`;
`NodesAssumption`, `RanksAssumption`; `ProvidersAssumption`,
`DirectoriesAssumption`, `FactoryAssumption`, `GameAssumption`;
`SettingsAssumption`):

| Module | Theorem | States |
|---|---|---|
| `MainWindow_proofs` | `TypeCorrect` | `TypeOK` |
| | `BusyIsSound`, `IdleIsUsable`, `SelectionIsInTree` | with drops during jobs too |
| | `QuietInvariant` | the inductive invariant without such drops |
| | `OneJob`, `MemoryIsSafe`, `NodesAreOwned`, `ExtractionIsUndisturbed` | without drops during jobs |
| `ArchiveSession_proofs` | `SessionInvariant` | the inductive invariant of the archive, without drops during jobs |
| | `PropsInvariant` | the properties are those of what the title names, without drops during jobs |
| | `ArchiveIsCoherent`, `SourceIsExtracted`, `ErrorIsOfTheLoad` | `ArchiveCoherent`, `ExtractsFromSource`, `LoadErrorIsOwn`, without drops during jobs |
| | `SessionIsImplemented` | `SessionImplemented` |
| `NodeExtraction_proofs` | `BufferInvariant`, `OwnBytesAreRead` | `ReadsOwnBytes` |
| | `ExtractionInvariant`, `SuccessCompletes`, `ProgressExact`, `PreviewNames` | `SuccessIsComplete`, `ProgressIsExact`, `PreviewNamesItsFile` |
| | `FilesApartAreAllThere` | a success is complete file by file when no two files wanted collide |
| | `ServiceIsImplemented` | `ServiceImplemented` |
| | `ExtractionTypeCorrect` | `TypeOK` |
| `PkgModelSort_proofs` | `ComparisonIsStrictWeak` | `CompareNodes` is a strict weak order, by any column and ranks |
| | `SortInvariant`, `TreeTypeCorrect`, `SortIsDefined`, `RowsAreInOrder`, `IndexesFollowNodes` | every property of the run `sort` |
| `LoadIndexDialog_proofs` | `DialogInvariant`, `OkFitsTheLine` | `OkIsForTheLine` |
| `PkgFactory_proofs` | `FactoryInvariant` | the inductive invariant of the package factory |
| `GameLoad_proofs` | `GameUsesItsParts` | `GameSpec` implies the specifications of its parts |
| | `GameInvariant`, `GameTypeCorrect`, `ProviderDoesFit`, `FreshHeaderIsParsed`, `OnlyThrowsHidePackages`, `KnownIndexDetected`, `NoGuessForAnIndex` | every other property of the run `game` |
| | `OpeningIsImplemented` | `OpeningImplemented` |
| `WindowSettings_proofs` | `SettingsInvariant`, `SettingsTypeCorrect`, `ListIsOfLastLoaded`, `MenuIsForTheList`, `ClearedFilesAreForgotten`, `OptionsDoAgree`, `OrderlyExitSaves` | every property of the run `settings` |

### MainWindow

`TypeInv` strengthens `TypeOK` by the shape of a job (at a step of `LoadPackage`
there is a package to load; after `Parse` the object is one, and its origin is
known) and by `overrideCursor = depth`, without which giving back a cursor could
leave the naturals. `BusySound` is inductive beside it: the step that clears the
flag is the last of a load, and a nested load that ends only makes it hold more.

`MemorySafe` is far from inductive. Its argument, `QuietInv`:

* `Gate` — with no job the depth is 0; with one, the widgets are disabled, and
  every handler but a drop wants them enabled; so there is one job at most;
* `SelectionInTree` — what an extraction will capture exists;
* `Owned` — every file node's package is in the map, or is the object of the job
  that is about to publish it, so that nodes, entries and packages exist together;
* `EmptyFirst` — a load starts on an empty archive: `ResetIfGenerated` leaves
  packages alone when `m_bGenerated` is not set, and it may be trusted because
  at every end of a job the flag is set if the map is not empty;
* `ToLoad` — a package of an index still to load is not in the map, because the
  index names none twice: `Publish` would otherwise free a package whose nodes
  stay in the tree;
* `Handed` — what an extraction captured is in the tree and in the map.

Each step of `Next` has a lemma under `QuietStep`; `NeverUndefined` shows that
the two actions to undefined behaviour are not enabled in `QuietInv`.
`ExtractionIsUndisturbed` follows from it: while the one job is an extraction no
action that changes the archive is enabled.

What the window shows of the archive needs to know how far a load is.
`SessionInv` (`ArchiveSession_proofs`), on top of `QuietInv`:

* `LoadInv` — a load begins with nothing loaded (`Bare`); at each package, what is
  in the map and what remains to load (`Remaining`) are together what was asked
  for (`LoadProgress`); a package loaded alone has set properties and folder when
  it comes to its end (`LoadAlone`); and a load ends with everything
  (`Complete(r)`: packages, properties, folder and flags are those of the request
  `r`) or with nothing and an error that names the request or one of its packages
  (`LoadEnd`);
* `RestInv` — when no load waits, nothing is loaded or `Complete(title)`;
* `SourceInv` — what an extraction has still to read came from its folder;
* `Shown` — every package in the map has its node in the tree.

`PropsInv` says the same of the properties without asking whether anything is
loaded: they describe what the title names, except between the assignment of the
one by the load's thread and that of the other by the handler after it. It holds
after a failed load because neither is assigned then, which is also why the two
may name an archive that was dropped.

`ArchiveCoherent` asks for the index flag only when every index names a package
(`NoEmptyIndex`). After one that names none `m_bGenerated` is not set, so that the
next load resets nothing and leaves the flag of the index behind; the rest of
`ArchiveCoherent` holds after such an index as well. In the refinement a handler that starts a load is `Ask`,
`FinishJob` of a load is `Answer`, an exception or quitting is `End`, and the rest
is hidden: the mapping shows no archive while a load waits, so the packages that
come one by one, and those undone again, do not appear. The answer is the
whole archive or nothing because of `LoadEnd`, and between loads no action
changes the map.

### NodeExtraction

`ReadsOwnBytes` speaks of the file about to be decrypted; `BufferInv` adds what
keeps it: between packages nothing is collected (`CollectedOwn`; with a node left
over from the package before, the next buffer would be used for a file of
another package), and a vector is held exactly while its package is written and
is then the one the `PkgFile` points to (`PointsToOwn`). What other `PkgFile`s
point to does not matter, which is why the missing `ReleaseDataBuffer` calls do
no harm.

`ExtractInv` is about the loops. `Left` is what an extraction has still to write:
what is wanted of the packages it has not come to, with all that is wanted of the
package it loads, or what the loop over its entries has not come to. `LoopInv` says
of the rest, `Settled`, that each item's place was written by its own file or by
one that collides with it (`Covered`), that their number is the progress, and
that the last preview's file is where it is said to be. All steps but one leave
`Left` as it is (`NothingWritten`); `WriteEntry` moves one item from it
(`WriteLoop`), and may overwrite what covered another one, but then the two
collide. When the loop over packages ends, `Left` is empty. The progress needs the
set wanted to be finite (`WantedIsFinite`, from finitely many files with paths of
finite length).

`ServiceIsImplemented` needs of this that what was written is `Settled` while an
extraction works: so `WriteEntry` writes an item that was not written, and
`Finish` says yes when all are. Each action maps to one of the service
(`ExtractAsks`, `WriteWrites`, `FinishSucceeds`, `FailureFails`) or is hidden
(`OthersStutter`).

`SuccessIsComplete` allows a place to hold another file than its own. That this is
all that is wrong with the promise of finding 3 is `FilesApartAreAllThere`: where
no two files wanted collide, a success leaves each of them at its place.

### PkgModelSort

Nodes of one kind are compared lexically, by a key of the column and then by
name (`NodesAreLexical`), and directories come first; so the comparison is a
strict weak order. `SortInv` is that every directory below the root is in
ascending order of `m_iSortColumn`, whatever `m_SortOrder` is (`InColumnOrder`),
beside the types and the indexes. This is what makes it right to move no node
when only the order changes, and why a load must force the sort. That an index
finds its node again needs that a sort loses none: an arrangement of a finite set
without repetitions reaches every element (`ArrangementFacts`, from
`FS_Injection`).

### LoadIndexDialog, PkgFactory and GameLoad

`OkFits` is `OkIsForTheLine` without its `open`, which a closed dialog keeps too.
`FactoryInvariant` relates the bytes to the keys: they are those of the file, or the
key before threw; the `PkgFile` points into the vector that is there; once a key
was found it opens the file. `GameSpec` implies `Spec` of the dialog and
`FactorySpec` (`GameUsesItsParts`), so their theorems carry over; what is left for
`GameInvariant` is the index and what the load has of the dialog: `accepted` does
not change while a load runs, since the dialog is not available.

`OpeningIsImplemented`: what `PackageOpening` calls pending is the package the
factory works on and those after it, so that `NextPackage` is hidden, like every
step of a factory that has no result. `Parse` of a package is `Open`: the key
and layout of the `PkgFile` are those of the provider (`ProviderFits`), which is
some provider for a package alone and the dialog's below an index (`HandedFits`).
An index ends the process only when no collection opens it
(`KnownIndexIsDetected`), which needs that the index factory still works on the
index of the directory that was accepted.

### WindowSettings

`SettingsInv` has that no list, in the window or stored, names a file twice
(`NamesDistinct`), that the list and the reference `opened` agree on the first
`MaxRecent` names (`RecencyAgrees`), that the menu is enabled exactly when the list
is not empty and then is the list's (`MenuFits`), and what a window that was closed
during a load still has to keep, its options and the list but for the file of that
load (`SavedOnClosing`). For what was cleared two parts more: once the window is
set up every save goes to the ini format (`FormatKnown`), so that what the next
start reads is what the first process found; and what was cleared is not named
there, in the window or in the ini file, unless the native settings name it
(`Forgets`). Moving a file to the front of
both lists keeps them in agreement wherever in `opened` the file was: the lemmas
on `MoveToFront` say at which place each name is afterwards.

### Only model-checked

* Liveness and everything with fairness (`JobsEnd`): TLAPS does not reason about
  `ENABLED` here.
* What `std::sort` computes is not proved: `SortNodes` is its specification.

## 5. Assumptions

* An index names no package twice (`IndexAssumption`).
* File dialogs and message boxes are modal; the events a waiting handler
  processes come from the main window only.
* A window closed by its frame while a job runs is modelled in `WindowSettings`,
  not in `MainWindow`.
* Parsing a package again keeps its entry objects: the code relies on it, for
  its nodes point to them (libuncso2 is not in the tree to confirm it).
* Parsing puts no node in the tree when it throws: the nodes are made after it.
* Extractions other than previews go to an empty directory; previews share
  the temporary one.
* Sizes are below 2^63 (`RanksAssumption`): `CompareBySize` narrows them unchecked.
* The directories the dialog looks at do not change while it is open, nor a
  package between the two reads of its header. `fs::is_regular_file`
  (`gamedatainfo.cpp:92`) may throw for a directory that cannot be read, and nothing
  up to `main` catches it: `GameDataIn` leaves that out.
* `DecryptHeader`, and `ValidateHeader` with `Parse` of an index, tell by a
  checksum whether they decrypted right: they succeed on untouched bytes with a key
  that opens them and on nothing else.
* The files of an archive are finitely many.
* Before the first run the native settings may hold anything; a stored list names
  no file twice. A settings file is written as a whole.
* A menu whose widget is disabled triggers none of its actions.

## 6. Findings

Six runs expect a violation, each of a promise of the repository:

1. `window_unsafe`: a package dropped during an extraction frees what the
   extraction reads (`mainwindow.cpp:130`: the drop is gated by `m_bIsBusy`,
   which extractions do not set).
2. `window_index`: an index of no known provider throws out of the load instead
   of "Could not detect index's game provider" (`pkgfilemodel.cpp:479`).
3. `extraction_names`: selected files of the same name overwrite each other, and
   the extraction reports success (`nodeextractionmgr.cpp:207`).
4. `sort_root`: the top level is never sorted (`pkgfilemodel.cpp:307`) although
   directories are to go first.
5. `dialog_line`: emptying the line leaves Ok enabled for the directory that
   was in it (`loadindexdialog.cpp:42`).
6. `settings_restart`: `LoadSettings` constructs its `QSettings` before it sets the
   default format (`mainwindow.cpp:515`), so that the only load of a process reads
   the native format and every save writes the ini format: nothing that was saved
   is restored. Clearing the recent files is saved there too, so files that the
   native settings name are listed again at the next start.

## 7. Not modelled

* `PkgFileModel::parent`: it changes nothing. It turns the parent's row round by the
  number of the parent's own children (`pkgfilemodel.cpp:204`) instead of that of its
  siblings, so that in descending order the row is another node's or negative. That
  can be read off the line, and the repository states nothing it should be held to.
* What the window should show after a failed load. When the archive that was open
  had been dropped for it, title and properties still name that archive and the
  actions for it are enabled (`mainwindow.cpp:307` to 314): the properties dialog
  shows it, and an extract all extracts nothing. `MainWindow` has this behaviour, and
  `ArchiveCoherent` is worded to allow it; no document says what should hold instead.
* The tree view, the error box, the status bar, the about and properties dialogs,
  icons and translations show values they are given; `data`, `headerData` and
  `flags` of the model do so for the view. The drag interface makes mime data of
  the selection.
* libuncso2: the submodule is not in the tree. Its decryption and parsing are
  external operators that say what the code here relies on.
* Load steps that are not atomic beside a window that paints: a race on
  `m_vChildNodes` (`pkgfilemodel.cpp:605`), undefined behaviour that no
  synchronization of the code excludes, and of which no document says what
  should hold.
* The geometry of the window and the last directories of the file dialogs: stored
  with the settings by the same two functions, for the next dialog to start at.
* More than one directory per package: the code takes the directory of its first
  entry for all of them (`pkgfilemodel.cpp:597` says that a package has only one),
  and `MainWindow` has one entry stand for a package.
* Closing the window by its frame in `MainWindow`: what it saves is in
  `WindowSettings`; that a destructor runs under a waiting handler is not modelled.

What could be added: that the load steps of `PkgFileModel` are refined by those of
`GameLoad` (one of its packages is `PackageOpening`'s `Open` or `GiveUp`), so that one
theorem goes from the bytes of a package to the window's title; and a module of
`CreateChildren` with its entries, for the race and for packages of several
directories.
