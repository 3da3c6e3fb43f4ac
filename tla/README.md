# A TLA+ model of qdeck

qdeck is a desktop program (Go, Gio) that opens Helm charts, shows the chart's default values beside up to
three columns of overrides, edits and saves those columns, and renders the chart. One UI thread draws frames;
everything slow runs in goroutines behind `async.Runner`; small preferences go to one JSON file. The
correctness questions are those of such programs: answers that arrive late, out of order or for something
that is no longer on screen; state read now and used later; a process that ends in the middle; and edits that
must reach a file without disturbing the rest of it.

Contents: [parts of the system](#1-parts-of-the-system) · [modules](#2-modules) · [runs](#3-runs-bounds-and-what-they-show) ·
[fairness](#4-fairness) · [proofs](#5-what-is-proved) · [disagreements found](#6-where-the-code-and-its-comments-disagree) ·
[not modelled](#7-what-is-not-modelled) · [plan](#8-what-is-left)

To check: `tlc -config X.cfg M` for each pair in section 3, `tlapm P.tla` for each module of proofs in section 5.

## 1. Parts of the system

| part | state | operations | what is hard | what makes it correct |
|---|---|---|---|---|
| `ui/async/runner.go` Runner | generation, cancel function, channel of one | RunWithTimeout, RunBlocking, Poll, Stop | superseded goroutines keep running; generation check and send are two steps; full channel; deadline against answer | newest answer only, once, never lost, window woken |
| `ui/async/debouncer.go` Debouncer | pending, timer, inFlight | Schedule, timer's flush, Flush | the write is outside the mutex; late timers; exit during a write | one write at a time, never older over newer, nothing forgotten |
| `infrastructure/storage`, `service/app_state_service.go` | `data.json` | Update, Load; add, remove, list; UI states with an LRU cap | concurrent read-modify-write; truncating writes and exit; index into a stale list | updates are atomic; a torn file is never overwritten; the clicked entry goes |
| override columns (`ui/page/values_controller*.go`, `ui/state/values_state.go`) | columns, rows, editors, six runners, cached helm command | select files, edit, clear, add, remove, save, poll | answers against columns that moved; rows that move under text; programmatic editor events; shared editor buffers | text, values, files and rows stay together; unsaved work stays marked |
| saving (`onSaveColumnValues`, `pollExportRunner`, overwrite dialog) | pendingSave, saveColumnIdx, dialog, ExportRunner | save, confirm, dismiss, export | one runner for three kinds of operation; superseded saves still write; foreign writes | the answer of a save takes the mark off a column only when its file holds what it shows |
| navigation (`ui/app.go`) | NavState, the runners of the Application and of the page | open a chart from repository, registry, disk, link, recents or drop; go back; breadcrumb | answers for a chart that was left; state read when the answer comes; a queued values file | the page shows what was asked for last, and the queued file goes with it |
| unsaved dialog, CloseGuard, native drop | pending action, one-slot channels, guard flag | guard, confirm, dismiss, close, drop | platform threads; one-slot channels; the shortcut works over the dialog | no unconfirmed loss, of the page or of the window |
| repository and chart services | `repositories.yaml`, index files, index cache, pull directories | add, remove, rename, update, list; ListCharts, preload, PullChart | truncating writes; reads without the mutex; cache fill against invalidation; directories shared by name | no update is lost; a listing is of the current index; a chart is the one asked for |
| documents (`service/yaml_*.go`, `ui/state/editor_state.go`) | parsed tree, cells, nullified keys, anchors, the file's bytes | type, clear, comment, nullify, anchor edits, parse, splice or encode | two writers of one file format; aliases; comments; passes that bring source lines back | the file holds what the table shows, and only edited lines change |
| collapse, search, focus, overlays (`ui/page/values_page*.go`, `ui/widget`) | visible rows, matches, focused cell, saved focus, dialogs | search, step, toggle, jump, menu, dialog, confirm | rows move between frames; a snapshot of the collapsed sections; focus that finds no editor | matches are visible; a search leaves no trace; what is confirmed is what was asked, while the chart is the same |
| template rendering, viewer, git badges, theme | read-only views | render, compare | second window | follow the page |

Interaction: pages call the controller or the Application (callbacks on the UI thread), those dispatch on a
Runner, the goroutine calls a service, and the next frame polls the Runner before it lays out. `data.json` is
reached through Runners, through Debouncers and from bare goroutines; `repositories.yaml` through the mutex of
RepoService and, for reading, around it. `PROJECT.json` lists every hazard of this code that we know of with
its line, and which property watches it.

## 2. Modules

| module | models | correspondence |
|---|---|---|
| `AsyncRunner` | Runner | An operation is its generation. `BeginDispatch`/`EndDispatch` are the two halves of `dispatch`, because goroutines read the generation and send without the mutex; `Return`, `CheckGeneration`, `Send`/`Abandon` (the `select`; with both cases ready either may win), `Invalidate` are the steps of the goroutine; `Expire` is the deadline. Dispatches and polls come from the UI thread, as for every runner but RecentValuesRunner. |
| `LatestOnly` | what a Runner promises | `Request`, `Answer`. `AsyncRunner!Implements` is the refinement: latest is the generation, answered is what Poll has returned. |
| `Debouncer` | Debouncer, with the Flush and exit of `app.go` and `main.go` | One action per critical section; `writers` are the calls of `write` between two of them. |
| `Positions` | what a loop over a list collects of it | `Ascending`: the collected places in ascending order, for the loops of `VisibleRows`, `MatchingEntries` and `slices.DeleteFunc`. |
| `AppData` | the updates of the app state service as operators | `Added` (with `Without` for `slices.DeleteFunc`), `Removed`, `Touched`. |
| `AtomicAppData` | `data.json` as one record changed by whole updates | abstract specification |
| `AppState` | JSONStore.Update under recent charts and the focus saver | An operation goes called → updating → loaded → writing → listing → answered or failed; `BeginWrite` truncates; `Restart` ends the process at any point. `Store` maps the file to the holder's old contents while it is being written. Its Runner is the promise of `LatestOnly`: only `current` is delivered. |
| `ValuesColumns` | the override columns | `phase` is the order of a frame: loads polled, parses and pickers polled, exports polled, headers, table. `slot` and `text` are editors as pointers to buffers, because a copied Gio editor shares its buffer. A runner is what it will deliver next. `rebuildEntries`, `Realigned`, `Grown`, `Populated` are the code's helpers in the code's order. Of saving it has what changes the columns: the operation ExportRunner will answer, `pendingSave`, `saveColumnIdx` and the overwrite dialog (`Dispatched`, `pollExportRunner`). A file can hold other keys than it held when it was last read. |
| `ValuesSave` | saving and exporting | What a column shows, what was read of a file and what a file holds are contents: the file's own, a new one for each edit, `Foreign`. Loads, the parse after an edit, the drain of a rebuild (`Layout`), clearing, adding and removing columns and another chart (`ResetState`) are actions, because each of them touches the mark, the column number or `pendingSave` of a save under way. `writers` are operations that have not finished, also those that were superseded. |
| `Navigation` | opening and leaving charts, the unsaved-changes dialog, CloseGuard, drops | A chart is its name and place at once; `runs` is what each Runner may still deliver, after a Stop as well. `shown` is ChartPath and ChartName, `asked` the history variable of what the user wanted. Each way to open a chart, each poll and each way to leave is an action; `doNavigateBack`, `doBreadcrumbClick` and `executePendingAction` are shared operators as they are shared functions. A pull reads the selected repository when its goroutine runs (`PullReadsRepo`), a save answers frames later or fails (`SaveArrives`, `SaveSwallowed`), a path that is dropped goes where the page and the zone send it (`PollDrop`), and the window closes past the guard as it was last set (`CloseWindow`). `seen` is whether a frame has begun with the edits, which is when the guard knows of them. |
| `Repositories` | RepoService, ChartService and the goroutines of `app.go` around them | An action of RepoService goes waiting → locked → downloaded → writing → listing with the file it read; a listing (`loadIndex`, `downloadIndex`, `StoreCharts`) and a pull are records of their own, because they run without the mutex. An index is the place and revision it was downloaded from, a directory the place and version it was unpacked from. A file that cannot be read is a step of its own (`LoadFile`): AddRepo takes it for a new one. |
| `YamlTree` | `yaml.Node` trees and anchors | A document is its nodes in file order, each with its path. `Off` holds nodes that left the tree while an alias still points to them, which is what pointers do in the code. |
| `YamlText` | the text and how a save writes it | A line is a record of what the passes look at: comments, blank lines, quoting, whose bytes. `planScalarSplice`, `PatchNodeTree` and the restoring passes are operators in the order the code applies them. A node keeps in `at` the line it was parsed from, also when anchor work has copied it elsewhere, and all passes compare with the tree as anchor work has left it, as the code does. |
| `Documents` | one override column over one file | Typing, clearing, comments, nullifying, anchors, the parse that follows, and the save, on one parsed tree. |
| `ValuesView` | what the page shows and where the keyboard is | An event is one frame; `Redraw` runs the page's steps in the order `Layout` calls them on a page record, so that what one step leaves for the next frame is in the state. Cells name their chart; `ResetState` keeps what the code keeps. |
| `MCValuesColumns`, `MCValuesSave`, `MCRepositories`, `MCDocuments`, `MCValuesView` | constants for TLC | files, tables and symmetries |
| `Async_proofs`, `Repositories_proofs`, `Navigation_proofs`, `AppState_proofs`, `ValuesSave_proofs`, `ValuesColumns_proofs`, `ValuesView_proofs`, `Documents_proofs` | proofs | section 5 |

Definitions named in `PROJECT.json` under "map" carry the lines they translate. Definitions whose comment
begins with "Mutant:" are not part of a model: each is a definition with a plausible mistake, by which the
properties are tested (put in the place of the definition below it, it makes one property fail).

Abstractions shared by all modules: payloads are identities or versions; notifications, logging and layout are
left out; time is nondeterminism (a deadline, a timer or a foreign write may come at any point it is armed).
Between components the Runner is its promise, `LatestOnly`, which `Async_proofs` shows it keeps.

Some promises hold only for a user who lets the program finish. Four modules say so with a variable that is
fixed at the start and says what kind of session this is: `careful` in `ValuesSave` and `AppState`, `calm` in
`Navigation` and `Repositories`. Both kinds are explored: the other kind shows that the remaining properties
need no such user. What goes wrong for an impatient one is in section 6.

## 3. Runs, bounds and what they show

| run | module, cfg | distinct states | shows |
|---|---|---|---|
| async_runner | AsyncRunner | 31,841 | order, at most once, newest never lost, wake-up, delivery (liveness), refinement of `LatestOnly` |
| debouncer | Debouncer | 551 | one writer, never backwards, watched, stored (liveness), flushed then saved |
| columns | MCValuesColumns, ValuesColumns | 557,961 | one column per file and loads and columns together, but for columns a save gave another file; rows for the first column's keys; cached command; realignment keeps text |
| save | MCValuesSave, ValuesSave | 813,932 | the answer of a save of values is taken for one while its chart is open; for a careful user it takes the mark off what is on disk |
| app_state | AppState | 646,805 | atomic updates (refinement of `AtomicAppData`), torn file kept, clicked entry removed, LRU |
| navigation | Navigation | 985,323 | the chart shown is the one asked for; a values file is recorded with its chart; edits a frame has begun with leave the page, or go with the window, only when confirmed; the wait for a saved focus ends |
| repositories | MCRepositories, Repositories | 2,482,607 | no update of `repositories.yaml` is lost; listings are current; the chart read is of the version asked for |
| documents | MCDocuments, Documents | 15,382 | the saved file holds what the table shows; aliases nobody edited survive; a value or an alias nobody edited keeps its line, with its bytes, comments and blank lines; value edits change only their lines; a parse keeps what was typed |
| views | MCValuesView, ValuesView | 82,272 | matches are visible; a search leaves no trace; typing keeps the keyboard; focus requests end (liveness); what is confirmed is what was asked, while the chart is the same |
| columns_remove | MCValuesColumns, ValuesColumnsRemove | — | counterexample: removal loses text |
| app_state_oci | AppState, AppStateOCI | — | counterexample: OCI entries dropped |
| documents_cleared | MCDocuments, DocumentsCleared | — | counterexample: a cleared key stays in the file |

Ten more configurations reproduce counterexamples discussed in section 6: `AsyncRunnerStop` (AsyncRunner),
`DebouncerExit` (Debouncer), `ValuesColumnsUnsaved` (MCValuesColumns), `ValuesSavePending` (MCValuesSave),
`NavigationClose` (Navigation), `RepositoriesMisread` (MCRepositories), `DocumentsNullified`, `DocumentsAnchors` and
`DocumentsUnlock` (MCDocuments), `ValuesViewCharts` (MCValuesView).

Bounds and why they are enough:

- `AsyncRunner`: `MaxOps = 3`, `BufferSize = 1`, `Timed = {1, 3}`: a zombie, the operation that superseded it and a third that
  drains between their steps; every mistake of one generation against the next needs at most three. One
  operation runs without a deadline, as RunBlocking does. The program creates every Runner with a buffer of one.
  The proofs lift all three bounds (`NoLostWakeup` speaks of buffers of one only; it is false above that).
- `Debouncer`: `MaxValues = 4`, `MaxFired = 2`: a write, a state that arrives during it, its successor and one more, with two
  timers that fired late. Lifted by the proofs.
- `ValuesColumns`: two files, one of which may come to hold the key of the other, two keys, one word, `MaxCustomColumns = 3`
  (the program's own), two runners at work at once, five acts of the user: enough to open, edit, save under another name, remove
  and add, which is what the interesting interleavings need. `DefaultKeys` is empty, so that every row comes and goes. Sessions of six acts
  were explored without saves. The proofs lift every bound.
- `ValuesSave`: two columns, two files, four acts, one foreign write: a save superseded by another or followed by another chart, with a
  write of another program between any two steps. The files are interchangeable. The proofs lift every bound.
- `AppState`: three charts (one OCI), a list of two, three keys with a cap of two, four operations, three UI-state saves:
  the limits are reached, and two recent-chart operations, a focus save and a restart overlap. The proofs lift every bound.
- `Navigation`: two repositories that both have a chart of one name, one chart on disk, one in a registry, one values file, five acts,
  one slot for drops (the program's). Two charts of one name are needed for a pull to read the wrong repository, one of each other kind for
  one answer to come in the place of another's; five acts open a chart, queue a file or a drop, open another, edit and leave.
  The proofs lift every bound.
- `Repositories`: two names, two places, two revisions, two goroutines of each kind, three acts: one action can
  overlap another, a listing and a pull, with a crash in between; names and places are interchangeable, which
  is sound because nothing distinguishes them. The proofs lift every bound.
- `Documents`: five files chosen for what they hold (comments, banner, encoding, a block scalar and blank lines; a list and a
  null; an anchored scalar; an anchored map that is merged; an anchored map with an alias), two edits, a parse or a save at any point. Two edits make one pass
  prepare what the next destroys; the hazards found needed one or two. Longer sessions were explored beyond the
  run while the properties were written, which is where `UneditedAliasKept`, `ValueEditsChangeOnlyTheirLines` and `TypedTextStays` got their exceptions (section 6).
  For `ValueEditsChangeOnlyTheirLines` the proofs lift every bound.
- `ValuesView`: nested sections, a leaf on its own, a comment row, an alias, two tables of rows, two queries with different
  matches, two columns, two charts, two attempts at focus, five events: collapse, search, step, rebuild, leave the search, another chart. The proofs lift every
  bound for the safety properties; `FocusAttemptsEnd` rests on two attempts.

`CHECK_DEADLOCK FALSE` stands where the bounded model stops: `Debouncer` (whose process exits), `AppState`, `Navigation`,
`Repositories`, `Documents` and `ValuesView` (when the bound on acts is used up and everything is answered). The other
runs check for deadlock. The type invariants of `AppState`, `Debouncer`, `Documents`, `Repositories`, `ValuesColumns` and
`ValuesSave` are not among the runs' properties; all of them are proved.

Every property of a passing run was broken by a mutant of the code under the same configuration; the pairs are
in `PROJECT.json`.

## 4. Fairness

`AsyncRunner`, `Debouncer` and `ValuesView` state liveness.

In the first two the following is assumed: the Go scheduler runs a goroutine that can run
(`CheckGeneration`, `Select`, `Invalidate`, `FlushTimer`), the UI thread finishes a dispatch it has begun,
an invalidated window gets a frame (`frame /\ Poll`; a frame without an invalidation is never assumed), an armed timer
fires, and a write to disk returns. Not assumed: that the user does anything, that an operation's function
returns, that a deadline passes, that the process exits. All assumptions are weak fairness: each step, once
enabled, stays enabled until it happens, `Select` because a waiting sender is released either by room in
the channel or by the end of its context.

`ValuesView` assumes that frames are drawn in which the editor a focus request waits for is not found
(`WF_vars(Redraw(Idle, FALSE) /\ UNCHANGED acts)`): the request itself asks for the next frame
(`values_page.go:536`). Nothing is assumed of frames that find it, so that `FocusAttemptsEnd` rests on the count of
attempts alone.

## 5. What is proved

TLAPS checks, for every value of the constants allowed by the assumptions named in the modules:

- `Async_proofs`, of the Runner: `TypeCorrect`, `InOrder`, `LatestKept`, `WakeupNotLost`, and `Refinement` (`Spec => Implements`).
  None of these is inductive: a result in the channel says nothing of the goroutine that may still send. The
  inductive invariant `IInv` (`RunnerInvariant`) adds `Started`: the goroutines started are exactly those of the
  generations so far, and the runner holds at most the newest `CancelFunc`; and `SentOnce`: what is in the channel
  or was delivered was sent by its goroutine, once in all.
- `Async_proofs`, of the Debouncer: `DebouncerInvariant`, then `DebouncerTypeCorrect`, `MutualExclusion`, `Watched`,
  `FlushSaves`, `NeverOlder`. The invariant adds `NothingVanishes`: the newest state waits, is being written or is stored; `NewerWaits`: what waits is newer than
  what is being written, and that is newer than what is stored; and `FlushOwns`: while Flush writes nobody else does,
  and after a Flush that was not skipped nothing waits.
- `Repositories_proofs`: `RepositoriesInvariant`, then `TypeCorrect`, `UpdatesKept` (`NoLostUpdate`), `ListingCurrent`, `RightVersion`.
  `NoLostUpdate` is about the holder of the mutex; it needs `AllBegun`: what an action has found out by the step it is at
  (an action that writes was not refused by the file it read). `ListingIsCurrent` says nothing of the listings still at work,
  so the invariant adds, for a calm session, that one thing happens at a time (`OneAtATime`), that what is
  in memory is the index on disk and that of the configured place (`CacheOfIndex`), the same of what a listing has read
  (`ListsOfIndex`), that an action has dropped the listing of what it changes (`ActionsPrepared`), that names on screen are configured, and
  that what was unpacked is of the version asked for.
- `Navigation_proofs`: `NavigationInvariant`, then `TypeCorrect`, `Shown`, `FocusEnds`, `Paired` and `Confirmed` (`UnsavedGoOnlyConfirmed`). `ShownIsAsked` speaks
  of a page with nothing under way; the invariant adds what is under way: one answer at a time (`OneAtATime`), of the chart asked for, for a
  page that has no defaults and no focus to wait for (`ForAsked`), where a pull that has not read its repository yet will read that of the chart asked for; and
  that a page with a chart's name shows it even while answers are missing (`NamedIsAsked`). `Confirmed` is of any session. It rests on `Watched`: where the platform
  can intercept a close, the guard is set over edits a frame has begun with, until a close is confirmed. The actions fall into a few kinds (`StepKinds`):
  every way to open a chart does what `Opens` says, every way to leave a page what `Leaves` says; `Accounted` is what each of them does to edits.

- `AppState_proofs`: `AppStateInvariant`, then `Refinement` (`Spec => Implements`), `UnreadableKept`, and `LeastRecentEvicted`. That updates are atomic rests
  on what the holder of the mutex knows (`Locked`): the file is as it was read until the holder truncates it, and what was
  read is such that the update applies; `JobsKnown` says what an operation is at each of its steps. `NewestLast` adds that at most one
  UI state is on its way and is newer than all that was read or stored, because one Debouncer writes them. The LRU has an
  invariant of its own on top of that one (`Kept`): stamps are distinct, and a UI state that is absent has a full cap of newer ones.
  Counting them needs the set of keys to be finite, which is an assumption of `AppData`. `RemovesTheClicked` (`ClickedIsRemoved`) needs three
  more invariants: no stored list names a chart twice (`Listed`), so that what is left of a list without one index does not name its chart, and
  a removal removes only that chart; what can still be delivered is an operation on the list (`Expected`); and for a careful user one such
  operation works at a time, the list shown is the list that will be stored next, and the index of a removal names the chart that was clicked
  until it is carried out, whatever saves of UI states, failures and restarts come between (`Clicked`). `TypeCorrect` adds to the types that every list
  stored, read or shown is within its limit.
- `ValuesSave_proofs`: `AnswerKnown` (`ValuesAnswerIsKnown`), which needs no careful user, only that operations are of charts that were opened (`Past`), so that
  `ResetState` parts every earlier answer from the chart; then `SaveInvariant`, `TypeCorrect` and `SavedOnDisk` (`SavedIsOnDisk`). `Counted` says that each operation writes
  once, so that the time of a file stays below the number of acts and foreign writes. For a careful user the invariant adds that one operation
  is under way at a time (`OneAtATime`), that its content is what the saved column goes on showing until the answer, whatever is loaded, drained, cleared, added or removed
  beside it (`Asked`), and that what was answered is on disk, or a foreign write is (`Answered`).
- `ValuesColumns_proofs`: `ColumnsInvariant`, then `FilesDiffer` (`OneColumnPerFile`), `RowsComplete` (`EveryKeyHasARow`), `CommandFresh`
  (`CommandMatchesFiles`) and `LoadsFollow` (`LoadIsOfShownFiles`). The four hold together: what had to be added is that a column that is not shown has no
  file, since +Values shows the next column without looking at it. The first and the last leave out the columns a save has given another file (`renamed`), because there the code
  breaks both (section 6). `OthersUntouched` (`OthersKeepTheirText`) rests on `Grid`: rows are of keys, there is
  an editor for every row, and every row of every column points to a cell. A key that stays has a row of its own in the old list and one in the new (`RowsOfKeys`,
  `LaidSays`); and the loop over the columns moves the texts of a column in its own turn only, because nobody else writes its cells (`RealignedShows`).
  `TypeCorrect` uses the same loop.
- `ValuesView_proofs`: `ViewInvariant`, then `Confirmed` (`ConfirmedIsAsked`) and `SearchKeepsKeyboard` (`TypingStaysInSearch`). The invariant is `Aimed`: every overlay that is open is for the
  column and the key it was opened for, on whichever chart that was, where a dialog about an anchor holds the anchor's name instead of the key. A frame is some
  twenty steps, of which most do not touch the overlays (`Apart`, one lemma for each kind of step) and the rest open and close them aimed
  (`OpenSound`, `CloseSound`) or hand over what was asked (`OverlaysTold`). `Confirmed` speaks of overlays answered on the chart they were opened on. The second theorem follows the keyboard through the frame of who is
  searching: no step before the focus request moves it (`Steady`), and the request is refused (`NoticeKeeps`).
  `SearchForgotten` (`SearchLeavesNoTrace`) has the inductive invariant `SnapshotKept`: while a search lasts, the snapshot it will restore is the set it found, but for
  the sections the user acted on (`Traced`); every step of the frame either carries it on or is the one that restores it (`Carries`). `MatchesShown`
  (`MatchesAreShown`) follows the frame to the end: the matches are counted after the search has opened the sections over them, and no step that is
  left collapses one or changes a row. It uses that the collected rows are exactly the visible ones, which the lemmas on `Ascending` give.

- `Documents_proofs`, of the documents. `TypeCorrect`: everything that is loaded, parsed, collected, spliced, encoded or brought back is a document or a text, which
  follows each operator of `YamlTree` and `YamlText` once (the lemmas whose names end in `Doc` and `Text`), and every row has a cell.
  `ValueEditsKeepTheRest` (`ValueEditsChangeOnlyTheirLines`) needs to know the tree a save works on: as long as no anchor was worked on it is the file's (`TreeKept`).
  In a file that parses, the tree walk of the writer and that of the reader both find a line where it stands (`SlotOfKey`, `EffectiveOfKey`), since each of its prefixes is the key of
  a container above it and of no alias. So every entry that is collected is either no edit or a plain scalar of the file that can be spliced (`EditedEntries`), and the save is
  a splice of just these. From it follow `ValueEditsAreShown` and `ValueEditsKeepAliases`: after such edits the file holds what every row
  shows, if it has no aliases, and every alias of it is still one. These two are `SavedShowsCells` and `UneditedAliasKept` for the saves that splice.

The assumption of `Documents` says of the files that are opened that they parse and that the reader of values and the reader of the tree see the same in them (`ReadersAgree`). The code sees to
that: `rewriteValuesFromNodeTree` takes the value of every scalar from the tree. `PlainFilesAgree` shows that every file without aliases satisfies it, so that it restricts aliased files
only; TLC evaluates it for the files of the runs, one of which has an alias and one a merge key.

A proof that a step keeps an invariant has one step per action and one leaf per conjunct the action can disturb. `Realigned` is a recursive
function, as are the loops of `YamlTree` and `YamlText`: that such a loop ends, and what each round makes of its subject (`RealignedSteps`, `Loop`), is shown by an induction of our own, from the well-foundedness of <
on the numbers (`Successors`), since the library's induction theorem takes an operator.

Only model-checked:

- the liveness properties (`LatestIsDelivered`, `ScheduledIsStored`, `FocusAttemptsEnd`): fairness and ENABLED are beyond the prover;
- `UneditedLinesKept`, and `SavedShowsCells` and `UneditedAliasKept` of saves that go through the encoder (of the others they are proved, see above), and `TypedTextStays`.
  What the encoder has written of one row must survive the deletions, renumberings and broken aliases of every later one; that is an induction over paths
  within an induction over entries, on trees in which aliases share nodes. The run has files in which each of these happens.

## 6. Where the code and its comments disagree

Three are runs that expect a violation, with the quoted line as a finding in `PROJECT.json`:

1. `onRemoveColumn` means to keep in-flight text; the copied editors share buffers with the column it resets (`values_controller_actions.go:442`; run columns_remove).
2. Recent OCI charts are dropped by the next add (`app_state_service.go:62`; run app_state_oci).
3. A cleared key never leaves the file: the splice looks at the entries that are there (`yaml_splice.go:133`; run documents_cleared).

Ten more have a configuration that reproduces the counterexample:

4. `ResetState` relies on Stop to keep stale results out; Stop only cancels (`runner.go:128`; AsyncRunnerStop).
5. `Flush` is meant for shutdown but returns while a write is in flight, with newer state pending (`debouncer.go:100`; DebouncerExit).
6. `HasUnsavedChanges` misses edits unmarked by the drain of a rebuild (`values_page.go:364`; ValuesColumnsUnsaved).
7. `pendingSave` is not always that of the deliverable export (`values_controller_actions.go:237`; ValuesSavePending).
8. A nullified section of a loaded file is written as a null with the section's children still below it (`editor_state.go:93-97`; DocumentsNullified).
9. A confirmed close may be asked again: a frame drawn between the confirmation and the end of the window sets the guard once more (`app.go:291`; NavigationClose).
10. AddRepo takes any error of reading `repositories.yaml` for an empty file, and writes the new entry as its only one (`repo_service.go:117-120`; RepositoriesMisread).
11. `onAnchorCreate` changes the tree "so the next save preserves the anchor" (`values_controller_actions.go:623`); the splice plan compares the entries with that tree, finds
    no edit, and the bytes of the source go back to the file (`yaml_format.go:32`; DocumentsAnchors). An alias that is set or unlocked and nothing else is lost the same way.
12. `ClearNodeAlias` promises that "the anchor definition elsewhere stays intact" (`yaml_anchors.go:160`); the local copy keeps the lines of what it was copied from, so that an edit
    of the copy is spliced into the anchor's line (`yaml_splice.go:48`; DocumentsUnlock).
13. `AnchorOpCol and AnchorOpKey identify the target cell` (`values_state.go:400`) only on their own chart: `ResetState` keeps the overlays, the breadcrumb above the page is not covered
    by them, and one answered on the next chart acts on that chart's cell (`values_controller.go:543`; ValuesViewCharts).

Other behaviour of the code that surprised us. Where a property says what was expected it is named; none of
them is in a run.

- Saving: Save As looks at no other column, so one file can be shown twice, and a removal, or another file selected for the column, leaves `saveColumnIdx` behind: the answer renames a column that
  was not saved, and its next save overwrites the wrong file (`values_controller.go:480`). The overwrite dialog survives `ResetState`; confirmed on the next chart, its answer takes the mark off that chart's
  column. A column whose mark a drain took off writes the bytes it was loaded from when it is saved (`Verbatim`). A file selected for a column names it at once: saving before the load is
  answered writes the old text to the new file.
- Navigation: the pull reads the selected repository when its goroutine runs, so another repository selected meanwhile gives the chart of the other under the name that was asked for (`app.go:1059`).
  A chart picked in a file dialog that was left open takes unsaved edits without asking. ResetState stops the page's runners, not the Application's, so the chart of an earlier click can arrive and
  be shown (`NoStaleChart`). A drop answered while a picker is open, or a click while a chart is loading, can put
  the defaults of the earlier chart under the later one. `onPendingValuesConsumed` tests IsLocalChart before IsOCIChart, so a
  registry chart is recorded by its pull path.
- Repositories: handlers invalidate the cache before the action runs, and a listing begun earlier stores the old index again
  (`chart_service.go:97`); a repository renamed to a name once used shows what is left of that name's index; pulled charts are
  told apart by chart name only; a crash between truncation and
  write empties `repositories.yaml`; ChartService reads it without the mutex.
- Documents: EnsurePath on a new key drops anchors that were declared; a value edit of an anchored scalar writes its line without the anchor; after anchor work source lines can be lost or keys written twice,
  and the later passes give a text with a key twice back as it is; clearing an item of a list moves the ones behind it, whose comments and aliases are then not kept (`UneditedLinesKept` leaves them out);
  the file's encoding
  is lost with the first parse of an edit (`values_service.go:643`); editing an anchored scalar leaves alias cells as they were
  (`CellsFollowAnchors`); clearing an anchored leaf, or unlocking its cell, leaves aliases without an anchor; SectionHeads are never applied and an
  inline comment that was deleted comes back; a section row can be written as an empty value (`SectionsAreSkipped`).
- Documents, after three edits or more: a column that was emptied loses its tree, and what is typed back into an alias is a value; typing over a null that a parse has seen goes
  through the encoder, since the cell has its own type, and so does every save of a file without lines; the parse of an older text takes away the row, and with it the text, of an alias that was made
  meanwhile, if the key was cleared before (`TypedTextStays` speaks of sessions without anchor work).
- Views: a section the search had opened and the user closed is open again after it (`TogglesSurviveSearch`); a new query jumps to
  the first match of the one before (`values_page_search.go:42`); a collapsed section inside a collapsed one keeps its header
  (`CollapsedHidesInside`); FocusedRow indexes visible rows, so that a collapse or a rebuild above moves it; a jump outside a search
  expands sections without saving that; a UI state that arrives during a search is lost with it.
- For an impatient user: `SavedIsOnDisk` fails for one who types while a save is running, `ClickedIsRemoved` for one who clicks
  twice before the list is refreshed. These are consequences of the design, not of a comment to the contrary.

What the properties do not catch, so that nobody reads more into a passing run than it says:

- `FlushedThenSaved` is about a Flush that finds no write in flight; with one in flight the state is lost (5. above).
- `EveryKeyHasARow` is about rows: values that arrive late for a blanked column are not looked at.
- `ClickedIsRemoved` is about a careful user: the index that is stale because two operations overlap is outside it.
- `ShownIsAsked`, `PairedWithShown`, `FocusWaitEnds`, `ListingIsCurrent` and `ReadIsAsked` are about a calm session. Overlapping clicks, passed deadlines and the race of a listing with an
  invalidation are outside them; `ReadIsAsked` is about versions, so that charts of one name from two repositories, and two pulls into one directory, are not told apart.
- `SavedShowsCells` looks at the nullified flags after `ClearNullified`, so that the flags of ancestors it also clears are taken as meant.
- `SearchLeavesNoTrace` leaves out the sections the user acted on during the search.

## 7. What is not modelled

Whole parts, with reasons in `PROJECT.json`: recent values files (the operations `AppState` checks for charts; LoadRecentValues
dispatches from a goroutine, which `AsyncRunner` does not model), template rendering and the viewer's window (one library call
on a copy, polled like every Runner), git comparison (one external command that decorates rows), vendored Gio, of
which `ValuesColumns` uses the two facts its header names.

Within modelled parts:

- Application: window geometry, notifications, columns after the first, validation of links. Credentials and login of repositories.
- Values and YAML: the types of values, block and flow layout, indentation, several documents in one file, two anchors of one name, files and defaults that
  disagree on whether a key is a map, a list or a value, escaping of flat keys, ComputeDiff.
- Page: the focus of comment rows, badges of the default-values side, pixels and scrolling (an editor is laid out or is not).
- Saving: the window of time in which `stat` succeeds and `open` fails.
- A result that a deadline swallows leaves `Loading` set; the pages have no timer that could be blamed, and no property says otherwise.

## 8. What is left

In order of what a mistake would cost the user:

1. `SavedShowsCells` through the encoder: an invariant of the tree between two entries (the rows written so far hold their values), then deletions and renumbering.
2. A composition of `Documents` with `ValuesSave`: what a superseded save writes, in bytes.
3. Anchors in a second column, and files that disagree with the defaults on a key's kind.
4. Recent values files, with a Runner that is dispatched from a goroutine.
5. The viewer and the template renderer.
