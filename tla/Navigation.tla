----------------------------- MODULE Navigation -----------------------------
(***************************************************************************)
(* Opening and leaving charts: ui/app.go with the parts of the values      *)
(* controller it drives (ResetState, LoadDefaultValues, the file picker,   *)
(* the saved focus), the pages that call it, the unsaved-changes dialog,   *)
(* the close guard and native file drops.                                  *)
(*                                                                         *)
(* A chart is a name, with its version, in a repository, or one of a       *)
(* registry or of the disk; a chart path stands for the chart found there. *)
(* A runner is the promise LatestOnly makes: what it may still deliver, or *)
(* NoChart.  Stop leaves a result that was sent deliverable.               *)
(*                                                                         *)
(* calm says what kind of session this is, fixed at the start: the user    *)
(* acts only when nothing is being loaded, saved, picked or dropped, and   *)
(* no deadline passes.  The other kind is explored too.                    *)
(***************************************************************************)
EXTENDS Naturals, Sequences

CONSTANTS
  Repos, Names,  \* repositories, and the names charts have in them
  OciCharts,     \* charts of registries
  LocalCharts,   \* charts on disk
  Files,         \* values files
  NoChart, NoRepo, NoFile,
  GuardWorks,    \* BOOLEAN: the platform can intercept a close
  DropCap,       \* dropChanSize of nativedrop
  MaxActs        \* bound on what the user does

Listed == [repo : Repos, name : Names]
\* Any chart has a name, and a name can be asked of any repository, or of none.
ChartNames == Names \union OciCharts \union LocalCharts \union {NoChart}
Charts == [repo : Repos \union {NoRepo}, name : ChartNames] \union OciCharts \union LocalCharts

\* What can be dropped, wherever it falls.
Paths == LocalCharts \union Files

ASSUME NavigationAssumption ==
  /\ NoChart \notin Charts \union Paths /\ NoFile \notin Paths
  /\ GuardWorks \in BOOLEAN /\ DropCap \in Nat \ {0} /\ MaxActs \in Nat
  /\ Names \cap (OciCharts \union LocalCharts \union {NoChart}) = {}
  /\ OciCharts \cap LocalCharts = {} /\ Charts \cap Files = {}

VARIABLES
  calm,         \* the kind of session
  page,         \* navState.CurrentPage
  nav,          \* navState: SelectedRepo, SelectedChart, IsLocalChart, IsOCIChart
  pendingFile,  \* navState.PendingValuesPath
  shown,        \* valuesState: ChartPath and ChartName
  asked,        \* the chart the user asked for last (history)
  defaults,     \* whose default values the page holds
  column,       \* the first column: its file, whether it has unsaved edits
  runs,         \* what each runner may still deliver
  repoRead,     \* the pulling goroutine has read the selected repository
  save,         \* ExportRunner may deliver a save; pendingSave is one
  picker,       \* what the open file picker is for, or "none"
  versions,     \* chartState: the selected chart, and whether versions are listed
  awaiting,     \* AwaitingFocusRestore
  dialog,       \* unsavedPending of the unsaved-changes dialog, or "none"
  guarded,      \* closeGuard's flag
  seen,         \* a frame has begun with the unsaved edits there are (history)
  closeSignal,  \* closeGuard.closes holds a signal
  window,       \* "open", "closing" (ActionClose performed), "closed"
  drops,        \* nativeDrop.drops
  recent,       \* the values entry recorded last, or NoFile
  acts

vars == <<calm, page, nav, pendingFile, shown, asked, defaults, column, runs, repoRead, save,
          picker, versions, awaiting, dialog, guarded, seen, closeSignal, window, drops, recent,
          acts>>

Runners == {"pull", "oci", "local", "defaults", "uiState", "versions"}
Dialogs == {"none", "navigateBack", "crumbRoot", "crumbRepo", "crumbChart", "windowClose"}

TypeOK ==
  /\ calm \in BOOLEAN /\ page \in {"repos", "charts", "values"}
  /\ nav \in [repo : Repos \union {NoRepo}, name : ChartNames, local : BOOLEAN, oci : BOOLEAN]
  /\ pendingFile \in Paths \union {NoFile}
  /\ shown \in [path : Charts \union {NoChart}, name : Charts \union {NoChart}]
  /\ asked \in Charts \union Files \union {NoChart} /\ defaults \in Charts \union {NoChart}
  /\ column \in [file : Paths \union {NoFile}, edited : BOOLEAN, loading : BOOLEAN]
  /\ runs \in [Runners -> Charts \union Files \union {NoChart}]
  /\ \A r \in Runners \ {"local"} : runs[r] \notin Files
  /\ repoRead \in BOOLEAN
  /\ save \in [running : BOOLEAN, pending : BOOLEAN]
  /\ picker \in {"none", "chart", "values", "column"}
  /\ versions \in [selected : ChartNames, listed : BOOLEAN]
  /\ awaiting \in BOOLEAN /\ dialog \in Dialogs
  /\ guarded \in BOOLEAN /\ seen \in BOOLEAN /\ closeSignal \in BOOLEAN
  /\ (guarded => GuardWorks)
  /\ window \in {"open", "closing", "closed"}
  /\ drops \in Seq(Paths) /\ Len(drops) <= DropCap
  /\ recent = NoFile \/ recent \in [file : Paths, local : BOOLEAN, chart : Charts]
  /\ acts \in 0..MaxActs

Unsaved == page = "values" /\ column.edited

\* The chart of the selected name, on disk, of a registry, or else in the
\* selected repository.
Selected == IF nav.name \in OciCharts \union LocalCharts /\ nav.local THEN nav.name
            ELSE [repo |-> nav.repo, name |-> nav.name]

Loading == column.loading \/ \E r \in Runners : runs[r] # NoChart

\* The program has still to answer something the user did.
Busy == Loading \/ save.running \/ picker # "none" \/ drops # <<>>

\* The user does something: a dialog takes the mouse away, and the keys but few.
Act == window # "closed" /\ acts < MaxActs /\ acts' = acts + 1 /\ (calm => ~Busy)
User == Act /\ dialog = "none"

Init ==
  /\ calm \in BOOLEAN
  /\ page = "repos"
  /\ nav = [repo |-> NoRepo, name |-> NoChart, local |-> FALSE, oci |-> FALSE]
  /\ pendingFile = NoFile
  /\ shown = [path |-> NoChart, name |-> NoChart]
  /\ asked = NoChart /\ defaults = NoChart
  /\ column = [file |-> NoFile, edited |-> FALSE, loading |-> FALSE]
  /\ runs = [r \in Runners |-> NoChart] /\ repoRead = FALSE
  /\ save = [running |-> FALSE, pending |-> FALSE]
  /\ picker = "none"
  /\ versions = [selected |-> NoChart, listed |-> FALSE]
  /\ awaiting = FALSE /\ dialog = "none"
  /\ guarded = FALSE /\ seen = FALSE /\ closeSignal = FALSE /\ window = "open"
  /\ drops = <<>> /\ recent = NoFile /\ acts = 0

-----------------------------------------------------------------------------
(* Opening a chart.                                                        *)

\* Stop of a runner that may have sent: its result may still be delivered.
Stopped(c) == {c, NoChart}

\* ResetState, then a dispatch of the runner r for chart c: the runners of the
\* Application go on, and so does what they will show.  Of a save only the
\* pending mark is taken back.
ResetAndRun(r, c) ==
  /\ \E d \in Stopped(runs["defaults"]), u \in Stopped(runs["uiState"]),
        reading \in {FALSE, column.loading}, saving \in {FALSE, save.running} :
       /\ runs' = [runs EXCEPT !["defaults"] = d, !["uiState"] = u, ![r] = c]
       /\ column' = [file |-> NoFile, edited |-> FALSE, loading |-> reading]
       /\ save' = [running |-> saving, pending |-> FALSE]
  /\ repoRead' = (r # "pull" /\ repoRead)
  /\ shown' = [shown EXCEPT !.name = NoChart]
  /\ defaults' = NoChart
  /\ awaiting' = FALSE
  /\ asked' = c

\* onSelectVersion: from the version list, a direct link or the recent charts.
onSelectVersion(c) ==
  /\ nav' = [repo |-> c.repo, name |-> c.name, local |-> FALSE, oci |-> FALSE]
  /\ page' = "values"
  /\ ResetAndRun("pull", c)

onOpenOCIChart(c) ==
  /\ nav' = [repo |-> NoRepo, name |-> c, local |-> TRUE, oci |-> TRUE]
  /\ page' = "values"
  /\ ResetAndRun("oci", c)

\* The page stays until the chart has been read.
onOpenLocalChart(c) ==
  /\ ResetAndRun("local", c)
  /\ UNCHANGED <<nav, page>>

openChartByRef(c, local) ==
  IF local THEN onOpenLocalChart(c)
  ELSE IF c \in OciCharts THEN onOpenOCIChart(c)
  ELSE onSelectVersion(c)

\* The recent charts of the repos page.
onSelectRecentChart(c) ==
  /\ User /\ page = "repos"
  /\ openChartByRef(c, c \in LocalCharts)
  /\ UNCHANGED <<calm, pendingFile, picker, versions, dialog, guarded, seen, closeSignal,
                 window, drops, recent>>

\* A link that is malformed, or whose repository is not configured, is refused.
onDirectLinkSubmit(c) ==
  /\ User /\ page = "repos"
  /\ IF c \in OciCharts THEN onOpenOCIChart(c) ELSE onSelectVersion(c)
  /\ UNCHANGED <<calm, pendingFile, picker, versions, dialog, guarded, seen, closeSignal,
                 window, drops, recent>>

onSelectRecentValuesEntry ==
  /\ User /\ page = "repos" /\ recent # NoFile
  /\ pendingFile' = recent.file
  /\ openChartByRef(recent.chart, recent.local)
  /\ UNCHANGED <<calm, picker, versions, dialog, guarded, seen, closeSignal, window, drops,
                 recent>>

\* The charts page.  Entering it selects a repository; a chart of the list
\* selects its versions, which replace what was listed when they arrive.
onSelectRepo(repo) ==
  /\ User /\ page = "repos"
  /\ page' = "charts"
  /\ nav' = [nav EXCEPT !.repo = repo, !.local = FALSE, !.oci = FALSE]
  /\ versions' = [selected |-> NoChart, listed |-> FALSE]
  /\ UNCHANGED <<calm, pendingFile, shown, asked, defaults, column, runs, repoRead, save, picker,
                 awaiting, dialog, guarded, seen, closeSignal, window, drops, recent>>

onSelectChart(name) ==
  /\ User /\ page = "charts" /\ versions.selected = NoChart
  /\ versions' = [versions EXCEPT !.selected = name]
  /\ runs' = [runs EXCEPT !["versions"] = [repo |-> nav.repo, name |-> name]]
  /\ UNCHANGED <<calm, page, nav, pendingFile, shown, asked, defaults, column, repoRead, save,
                 picker, awaiting, dialog, guarded, seen, closeSignal, window, drops, recent>>

\* An error leaves the list.
VersionsArrive ==
  /\ runs["versions"] # NoChart
  /\ runs' = [runs EXCEPT !["versions"] = NoChart]
  /\ versions' \in {versions, [versions EXCEPT !.listed = TRUE]}
  /\ UNCHANGED <<calm, page, nav, pendingFile, shown, asked, defaults, column, repoRead, save,
                 picker, awaiting, dialog, guarded, seen, closeSignal, window, drops, recent, acts>>

SelectVersion ==
  /\ User /\ page = "charts" /\ versions.selected # NoChart /\ versions.listed
  /\ onSelectVersion([repo |-> nav.repo, name |-> versions.selected])
  /\ UNCHANGED <<calm, pendingFile, picker, versions, dialog, guarded, seen, closeSignal,
                 window, drops, recent>>

-----------------------------------------------------------------------------
(* Answers.                                                                *)

\* The goroutine of a pull has begun: it pulls the name it was given from the
\* repository that is selected by now.
PullReadsRepo ==
  /\ runs["pull"] # NoChart /\ ~repoRead
  /\ runs' = [runs EXCEPT !["pull"] = [repo |-> nav.repo, name |-> @.name]]
  /\ repoRead' = TRUE
  /\ UNCHANGED <<calm, page, nav, pendingFile, shown, asked, defaults, column, save, picker,
                 versions, awaiting, dialog, guarded, seen, closeSignal, window, drops, recent,
                 acts>>

PullArrives ==
  /\ runs["pull"] # NoChart /\ repoRead
  /\ shown' = [path |-> runs["pull"], name |-> Selected]   \* the one selected by now
  /\ runs' = [runs EXCEPT !["pull"] = NoChart, !["defaults"] = runs["pull"]]
  /\ UNCHANGED <<calm, page, nav, pendingFile, asked, defaults, column, repoRead, save, picker,
                 versions, awaiting, dialog, guarded, seen, closeSignal, window, drops, recent,
                 acts>>

\* Mutant: the chart found takes the place of the selected one only when none
\* was selected.
KeepsSelected(c, oci) ==
  nav' = [nav EXCEPT !.name = IF @ = NoChart THEN c ELSE @, !.local = TRUE, !.oci = oci]
SelectsFound(c, oci) == nav' = [nav EXCEPT !.name = c, !.local = TRUE, !.oci = oci]

\* The answer takes the user to the values page.  A values file is no chart.
ShowFound(r, oci) ==
  LET c == runs[r]
  IN  /\ c \notin Files \union {NoChart}
      /\ SelectsFound(c, oci)
      /\ page' = "values"
      /\ shown' = [path |-> c, name |-> c]
      /\ runs' = [runs EXCEPT ![r] = NoChart, !["defaults"] = c]
      /\ UNCHANGED <<calm, pendingFile, asked, defaults, column, repoRead, save, picker, versions,
                     awaiting, dialog, guarded, seen, closeSignal, window, drops, recent, acts>>

applyLocalChartResult == ShowFound("local", nav.oci)

applyOCIChartResult == ShowFound("oci", TRUE)

\* An error is shown and changes nothing; a deadline may pass in silence.
ChartFails(r) ==
  /\ runs[r] # NoChart
  /\ r \in {"pull", "oci", "local", "defaults"}
  /\ runs' = [runs EXCEPT ![r] = NoChart]
  /\ UNCHANGED <<calm, page, nav, pendingFile, shown, asked, defaults, column, repoRead, save, picker,
                 versions, awaiting, dialog, guarded, seen, closeSignal, window, drops, recent, acts>>

\* The chart is the one selected by now, and IsLocalChart, tested first, is true
\* of registry charts too: they are recorded by the path they were pulled to.
onPendingValuesConsumed == [file |-> pendingFile, local |-> nav.local, chart |-> Selected]

\* pollDefaultValues: the saved focus is asked for, a queued values file is
\* loaded into the first column and recorded with the chart.
DefaultsArrive ==
  LET c == runs["defaults"]
  IN  /\ c # NoChart
      /\ defaults' = c
      /\ awaiting' = TRUE
      /\ runs' = [runs EXCEPT !["defaults"] = NoChart, !["uiState"] = shown.path]
      /\ IF pendingFile = NoFile THEN UNCHANGED <<column, recent>>
         ELSE /\ column' = [column EXCEPT !.file = pendingFile, !.loading = TRUE]
              /\ recent' = IF nav.name = NoChart THEN recent ELSE onPendingValuesConsumed
      /\ pendingFile' = NoFile
      /\ UNCHANGED <<calm, page, nav, shown, asked, repoRead, save, picker, versions, dialog,
                     guarded, seen, closeSignal, window, drops, acts>>

\* Mutant: an answer without a saved focus leaves the wait on.
FocusWaits == awaiting' = awaiting
\* pollChartUIState: dropped when the chart has changed, awaiting and all.
FocusIsOfShown == awaiting' = (awaiting /\ runs["uiState"] # shown.path)

UIStateArrives ==
  /\ runs["uiState"] # NoChart
  /\ FocusIsOfShown \/ awaiting' = FALSE   \* an error
  /\ runs' = [runs EXCEPT !["uiState"] = NoChart]
  /\ UNCHANGED <<calm, page, nav, pendingFile, shown, asked, defaults, column, repoRead, save,
                 picker, versions, dialog, guarded, seen, closeSignal, window, drops, recent, acts>>

\* A deadline that swallows the answer.
Swallowed(r) ==
  /\ ~calm /\ r \in {"uiState", "versions"} /\ runs[r] # NoChart
  /\ runs' = [runs EXCEPT ![r] = NoChart]
  /\ UNCHANGED <<calm, page, nav, pendingFile, shown, asked, defaults, column, repoRead, save, picker,
                 versions, awaiting, dialog, guarded, seen, closeSignal, window, drops, recent, acts>>

\* pollCustomValues of the first column: its file replaces what it held.  An
\* error, and a chart read as values, leaves the text.
ColumnArrives ==
  /\ column.loading
  /\ \E edited \in {column.edited} \union IF column.file \in LocalCharts THEN {} ELSE {FALSE} :
       column' = [column EXCEPT !.loading = FALSE, !.edited = edited]
  /\ UNCHANGED <<calm, page, nav, pendingFile, shown, asked, defaults, runs, repoRead, save,
                 picker, versions, awaiting, dialog, guarded, seen, closeSignal, window, drops,
                 recent, acts>>

-----------------------------------------------------------------------------
(* The values page.                                                        *)

\* New edits are unsaved, and no frame has begun with them.
Edit ==
  /\ User /\ page = "values" /\ defaults # NoChart
  /\ column' = [column EXCEPT !.edited = TRUE]
  /\ seen' = (seen /\ column.edited)
  /\ UNCHANGED <<calm, page, nav, pendingFile, shown, asked, defaults, runs, repoRead, save, picker,
                 versions, awaiting, dialog, guarded, closeSignal, window, drops, recent>>

\* The shortcut works over the dialog too.  pendingSave is set first; a text
\* that cannot be made, or a file that another program has written, ends the
\* save there.
Save ==
  /\ Act /\ Unsaved /\ defaults # NoChart
  /\ \E running \in {TRUE, save.running} : save' = [running |-> running, pending |-> TRUE]
  /\ UNCHANGED <<calm, page, nav, pendingFile, shown, asked, defaults, column, runs, repoRead,
                 picker, versions, awaiting, dialog, guarded, seen, closeSignal, window, drops,
                 recent>>

\* pollExportRunner: a success marks the column saved in its file, or the one
\* the user has chosen.
SaveArrives ==
  /\ save.running
  /\ save' = [running |-> FALSE, pending |-> FALSE]
  /\ \/ UNCHANGED column
     \/ /\ save.pending
        /\ \E f \in IF column.file = NoFile THEN Files ELSE {column.file} :
             column' = [column EXCEPT !.file = f, !.edited = FALSE]
  /\ UNCHANGED <<calm, page, nav, pendingFile, shown, asked, defaults, runs, repoRead, picker,
                 versions, awaiting, dialog, guarded, seen, closeSignal, window, drops, recent,
                 acts>>

\* A save that nothing is heard of again.
SaveSwallowed ==
  /\ ~calm /\ save.running
  /\ save' = [save EXCEPT !.running = FALSE]
  /\ UNCHANGED <<calm, page, nav, pendingFile, shown, asked, defaults, column, runs, repoRead, picker,
                 versions, awaiting, dialog, guarded, seen, closeSignal, window, drops, recent,
                 acts>>

\* OnColumnFilesSelected(0, ...): by a native drop or the picker.
SelectFile(f) ==
  /\ column' = [column EXCEPT !.file = f, !.loading = TRUE]
  /\ UNCHANGED <<nav, page, runs, repoRead, save, shown, defaults, awaiting, asked, pendingFile>>

-----------------------------------------------------------------------------
(* The file picker, which runs without a deadline.                         *)

OpenPicker(kind) ==
  /\ User
  /\ page = IF kind = "column" THEN "values" ELSE "repos"
  /\ picker' = kind
  /\ UNCHANGED <<calm, page, nav, pendingFile, shown, asked, defaults, column, runs, repoRead,
                 save, versions, awaiting, dialog, guarded, seen, closeSignal, window, drops, recent>>

onValuesFileDropped(f) ==
  /\ pendingFile' = f
  /\ UNCHANGED <<nav, page, runs, repoRead, save, shown, defaults, awaiting, asked, column>>

\* Nothing comes of the pick, or of the drop.
Ignored == UNCHANGED <<nav, page, runs, repoRead, save, shown, defaults, awaiting, asked, column,
                       pendingFile>>

PickerAnswers ==
  /\ picker # "none"
  /\ picker' = "none"
  /\ \/ /\ picker = "chart"
        /\ \E c \in LocalCharts : onOpenLocalChart(c)
        /\ UNCHANGED pendingFile
     \/ picker = "values" /\ \E f \in Files : onValuesFileDropped(f)
     \/ picker = "column" /\ \E f \in Files : SelectFile(f)
     \/ Ignored
  /\ UNCHANGED <<calm, versions, dialog, guarded, seen, closeSignal, window, drops, recent, acts>>

-----------------------------------------------------------------------------
(* Native drops.                                                           *)

\* Mutant: a full channel is not noticed.
SendAlways(x) == drops' = Append(drops, x)
\* A full channel discards.
sendDrop(x) == drops' = IF Len(drops) < DropCap THEN Append(drops, x) ELSE drops

Drop(x) ==
  /\ Act
  /\ sendDrop(x)
  /\ UNCHANGED <<calm, page, nav, pendingFile, shown, asked, defaults, column, runs, repoRead,
                 save, picker, versions, awaiting, dialog, guarded, seen, closeSignal, window, recent>>

\* pollExternalEvents after PollDrop: the page decides what is made of a path,
\* on the repos page where it fell, and nothing looks at what it is.
PollDrop ==
  /\ drops # <<>> /\ window # "closed"
  /\ drops' = Tail(drops)
  /\ LET x == Head(drops)
     IN  \/ page = "values" /\ SelectFile(x)
         \/ page = "repos" /\ onValuesFileDropped(x)
         \/ page # "values" /\ onOpenLocalChart(x) /\ UNCHANGED pendingFile
  /\ UNCHANGED <<calm, picker, versions, dialog, guarded, seen, closeSignal, window, recent, acts>>

-----------------------------------------------------------------------------
(* Leaving.                                                                *)

navigateToVersions ==
  /\ page' = "charts"
  /\ versions' = [versions EXCEPT !.selected = nav.name]
  /\ runs' = [runs EXCEPT !["versions"] = Selected]
  /\ UNCHANGED nav

resetToChartList ==
  /\ page' = "charts"
  /\ versions' = [selected |-> NoChart, listed |-> FALSE]
  /\ UNCHANGED <<nav, runs>>

\* onBackToRepos and the root of the breadcrumb; only the first reloads.
backToRepos ==
  /\ page' = "repos"
  /\ nav' = [nav EXCEPT !.local = FALSE, !.oci = FALSE]
  /\ pendingFile' = NoFile
  /\ UNCHANGED <<versions, runs>>

doNavigateBack ==
  \/ /\ page = "values" /\ nav.local /\ backToRepos
  \/ /\ page = "values" /\ ~nav.local
     /\ pendingFile' = NoFile /\ navigateToVersions
  \/ /\ page = "charts" /\ versions.selected # NoChart
     /\ resetToChartList /\ UNCHANGED pendingFile
  \/ /\ page = "charts" /\ versions.selected = NoChart
     /\ page' = "repos" /\ pendingFile' = NoFile /\ UNCHANGED <<nav, versions, runs>>

doBreadcrumbClick(segment) ==
  \/ segment = "crumbRoot" /\ backToRepos
  \/ segment = "crumbRepo" /\ nav.local /\ backToRepos
  \/ segment = "crumbRepo" /\ ~nav.local /\ resetToChartList /\ UNCHANGED pendingFile
  \/ /\ segment = "crumbChart" /\ ~nav.local
     /\ navigateToVersions /\ UNCHANGED pendingFile

\* updateBreadcrumb: every segment but the last can be clicked.
Segments ==
  CASE page = "repos" -> {}
    [] page = "charts" -> {"crumbRoot"} \union IF versions.selected # NoChart THEN {"crumbRepo"} ELSE {}
    [] OTHER -> {"crumbRoot", "crumbRepo"} \union IF nav.local THEN {} ELSE {"crumbChart"}

Leave(action) == IF action = "navigateBack" THEN doNavigateBack ELSE doBreadcrumbClick(action)

\* Mutant: only the back key is guarded.
GuardsBack(action) == action = "navigateBack" /\ Unsaved
\* guardUnsaved
guardUnsaved(action) == Unsaved

\* navigateBack, onBreadcrumbClick
AskToLeave(action) ==
  /\ User /\ page # "repos"
  /\ action \in Segments \union {"navigateBack"}
  /\ IF guardUnsaved(action)
     THEN dialog' = action /\ UNCHANGED <<page, nav, pendingFile, versions, runs>>
     ELSE Leave(action) /\ UNCHANGED dialog
  /\ UNCHANGED <<calm, shown, asked, defaults, column, repoRead, save, picker, awaiting, guarded,
                 seen, closeSignal, window, drops, recent>>

\* A confirmed close lifts the guard and asks the window to close.
executePendingAction ==
  IF dialog = "windowClose"
  THEN /\ guarded' = FALSE /\ window' = "closing"
       /\ UNCHANGED <<page, nav, pendingFile, versions, runs>>
  ELSE Leave(dialog) /\ UNCHANGED <<guarded, window>>

ConfirmUnsaved ==
  /\ Act /\ dialog # "none"
  /\ dialog' = "none"
  /\ executePendingAction
  /\ UNCHANGED <<calm, shown, asked, defaults, column, repoRead, save, picker, awaiting, seen,
                 closeSignal, drops, recent>>

DismissUnsaved ==
  /\ Act /\ dialog # "none"
  /\ dialog' = "none"
  /\ UNCHANGED <<calm, page, nav, pendingFile, shown, asked, defaults, column, runs, repoRead,
                 save, picker, versions, awaiting, guarded, seen, closeSignal, window, drops, recent>>

\* Mutant: only columns that have a file count.
GuardsFiles == GuardWorks /\ Unsaved /\ column.file # NoFile
\* SetGuarded, where the platform has a guard.
Guards == GuardWorks /\ Unsaved

\* A frame begins: the guard is set anew, a close attempt asks.
PollExternalEvents ==
  /\ window # "closed"
  /\ guarded' = Guards
  /\ seen' = Unsaved
  /\ closeSignal' = FALSE
  /\ dialog' = IF closeSignal THEN "windowClose" ELSE dialog
  /\ UNCHANGED <<calm, page, nav, pendingFile, shown, asked, defaults, column, runs, repoRead,
                 save, picker, versions, awaiting, window, drops, recent, acts>>

\* The platform's window procedure, for the user's close or the program's:
\* a guarded window stays open.
CloseWindow ==
  /\ \/ window = "closing" /\ UNCHANGED acts
     \/ window # "closed" /\ acts < MaxActs /\ acts' = acts + 1
  /\ IF guarded THEN closeSignal' = TRUE /\ window' = "open"
     ELSE window' = "closed" /\ UNCHANGED closeSignal
  /\ UNCHANGED <<calm, page, nav, pendingFile, shown, asked, defaults, column, runs, repoRead,
                 save, picker, versions, awaiting, dialog, guarded, seen, drops, recent>>

Next ==
  \/ \E c \in Listed \union OciCharts \union LocalCharts : onSelectRecentChart(c)
  \/ \E c \in Listed \union OciCharts : onDirectLinkSubmit(c)
  \/ \E repo \in Repos : onSelectRepo(repo)
  \/ \E name \in Names : onSelectChart(name)
  \/ onSelectRecentValuesEntry \/ SelectVersion
  \/ VersionsArrive \/ PullReadsRepo \/ PullArrives \/ DefaultsArrive \/ UIStateArrives
  \/ ColumnArrives \/ SaveArrives
  \/ applyLocalChartResult \/ applyOCIChartResult
  \/ \E r \in Runners : ChartFails(r) \/ Swallowed(r)
  \/ Edit \/ Save \/ SaveSwallowed
  \/ \E kind \in {"chart", "values", "column"} : OpenPicker(kind)
  \/ PickerAnswers
  \/ \E x \in Paths : Drop(x)
  \/ PollDrop
  \/ \E action \in Dialogs \ {"none", "windowClose"} : AskToLeave(action)
  \/ ConfirmUnsaved \/ DismissUnsaved \/ PollExternalEvents \/ CloseWindow

Spec == Init /\ [][Next]_vars

-----------------------------------------------------------------------------
(* Properties.                                                             *)

\* In a calm session the values page that has its chart shows the chart the
\* user asked for, under its own name, with its own default values.
ShownIsAsked ==
  calm /\ page = "values" /\ shown.name # NoChart /\ ~Loading =>
    /\ shown.path = asked /\ shown.name = asked /\ Selected = asked
    /\ defaults \in {asked, NoChart}

\* In a calm session a values file is recorded with the chart whose default
\* values it was laid over.
PairedWithShown ==
  [][calm /\ recent' # recent => recent'.chart = defaults']_vars

\* Edits that a frame has begun with are left, or closed with the window, only
\* when the user has said so in the dialog; otherwise they are saved, or
\* replaced by a file chosen for their column.  A chart that is picked in a
\* dialog left open takes them unasked.
UnsavedGoOnlyConfirmed ==
  [][GuardWorks /\ seen /\ Unsaved /\ window # "closed" /\ picker # "chart"
       /\ (~Unsaved' \/ window' = "closed") =>
       \/ dialog # "none" /\ dialog' = "none"
       \/ window = "closing"
       \/ page' = page /\ shown' = shown /\ (save'.running # save.running
                                           \/ column'.loading # column.loading)]_vars

\* In a calm session the wait for the saved focus has an answer under way.
FocusWaitEnds == calm /\ awaiting => runs["uiState"] = shown.path

\* "Stop all in-flight runners to prevent stale results from a previous
\* chart being applied after state is cleared."
NoStaleChart == [][shown'.path # shown.path => shown'.path = asked]_vars

\* "Disable the guard so the close goes through": a confirmed close is not
\* asked about again.
ClosesOnceConfirmed == [][window = "closing" => window' # "open"]_vars
=============================================================================
