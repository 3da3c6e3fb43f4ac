--------------------------- MODULE Navigation_proofs ---------------------------
(***************************************************************************)
(* What holds of opening and leaving charts for any number of charts,      *)
(* files, drops and acts: unsaved edits go only when the user has said so, *)
(* and in a calm session the values page shows, under its own name and     *)
(* with its own defaults, the chart that was asked for.                    *)
(***************************************************************************)
EXTENDS Navigation, SequenceTheorems, TLAPS

Named == [repo : Repos \union {NoRepo}, name : ChartNames]
NavT == [repo : Repos \union {NoRepo}, name : ChartNames, local : BOOLEAN, oci : BOOLEAN]
ShownT == [path : Charts \union {NoChart}, name : Charts \union {NoChart}]
ColumnT == [file : Paths \union {NoFile}, edited : BOOLEAN, loading : BOOLEAN]
SaveT == [running : BOOLEAN, pending : BOOLEAN]

\* What a runner can deliver: a pull a chart of a repository, and so on.
RunOf(r) ==
  CASE r = "pull" -> Named \union {NoChart}
    [] r = "oci" -> OciCharts \union {NoChart}
    [] r = "local" -> OciCharts \union LocalCharts \union Files \union {NoChart}
    [] OTHER -> Charts \union {NoChart}

RunsOf(f) ==
  /\ f \in [Runners -> Charts \union Files \union {NoChart}]
  /\ \A r \in Runners : f[r] \in RunOf(r)

\* A values entry names a chart by what it is.
RecentOf(x) ==
  \/ x = NoFile
  \/ /\ x \in [file : Paths, local : BOOLEAN, chart : Charts]
     /\ x.chart \in IF x.local THEN OciCharts \union LocalCharts ELSE Named

Kinds ==
  /\ RunsOf(runs) /\ RecentOf(recent)
  /\ nav.local => nav.name \in OciCharts \union LocalCharts

Types == TypeOK /\ Kinds

\* In a calm session one thing happens at a time: one answer is under way,
\* but for the file and the saved focus of a chart that has its defaults, and
\* none while a picker is open or a drop waits.
OneAtATime ==
  /\ \A r, s \in Runners : runs[r] # NoChart /\ runs[s] # NoChart => r = s
  /\ column.loading => \A r \in Runners \ {"uiState"} : runs[r] = NoChart
  /\ picker # "none" => ~Loading /\ drops = <<>>
  /\ drops # <<>> => ~Loading /\ Len(drops) = 1

\* What is under way is for the chart that was asked for, which has no defaults
\* on the page until they arrive, nor a saved focus to wait for.
ForAsked ==
  /\ \A r \in {"pull", "oci", "local", "defaults"} : runs[r] # NoChart =>
       runs[r] = asked /\ defaults = NoChart /\ ~awaiting
  /\ \A r \in {"pull", "oci", "defaults"} : runs[r] # NoChart => Selected = asked
  /\ runs["pull"] # NoChart => ~nav.local
  /\ runs["defaults"] # NoChart => shown.path = asked

\* A chart that has its name on the values page is the one asked for.
NamedIsAsked ==
  page = "values" /\ shown.name # NoChart =>
    /\ shown.path = asked /\ shown.name = asked /\ Selected = asked
    /\ defaults \in {asked, NoChart}

Calm == OneAtATime /\ ForAsked /\ NamedIsAsked /\ (awaiting => runs["uiState"] = shown.path)

\* Edits that a frame has begun with are guarded while the window is open,
\* until a close is confirmed.
Watched ==
  GuardWorks /\ seen /\ column.edited /\ window # "closed" => guarded \/ window = "closing"

IInv == Types /\ (calm => Calm) /\ Watched

-----------------------------------------------------------------------------
(* Runs and charts.                                                        *)

\* What the charts are, spelled out.
LEMMA ChartKinds ==
  /\ Named \subseteq Charts /\ OciCharts \subseteq Charts /\ LocalCharts \subseteq Charts
  /\ OciCharts \subseteq ChartNames /\ LocalCharts \subseteq ChartNames
  /\ Names \subseteq ChartNames /\ NoChart \in ChartNames
  /\ LocalCharts \subseteq Paths /\ Files \subseteq Paths
  /\ \A c \in Charts \union {NoChart} : c \notin Files
BY NavigationAssumption DEF Charts, Named, ChartNames, Paths

\* A result that is not of the disk is no values file.
LEMMA RunsOfCharts ==
  ASSUME NEW f, RunsOf(f), NEW r \in Runners
  PROVE  /\ f[r] \in Charts \union Files \union {NoChart}
         /\ r # "local" => f[r] \in Charts \union {NoChart} /\ f[r] \notin Files
<1>1. f[r] \in RunOf(r) /\ f[r] \in Charts \union Files \union {NoChart}
  BY DEF RunsOf
<1>2. r # "local" => f[r] \in Charts \union {NoChart}
  BY <1>1, ChartKinds DEF RunOf
<1> QED
  BY <1>1, <1>2, ChartKinds

\* One runner gets another result.
LEMMA RunUpdate ==
  ASSUME NEW f, RunsOf(f), NEW r \in Runners, NEW c \in RunOf(r)
  PROVE  RunsOf([f EXCEPT ![r] = c])
<1>1. c \in Charts \union Files \union {NoChart}
  BY ChartKinds DEF RunOf
<1> QED
  BY <1>1 DEF RunsOf

\* Nothing is a result of every runner.
LEMMA NothingRuns ==
  ASSUME NEW r
  PROVE  NoChart \in RunOf(r)
BY DEF RunOf

\* What TypeOK says of the runs.
LEMMA RunsTypes ==
  ASSUME RunsOf(runs')
  PROVE  /\ runs' \in [Runners -> Charts \union Files \union {NoChart}]
         /\ \A r \in Runners \ {"local"} : runs'[r] \notin Files
BY RunsOfCharts DEF RunsOf

\* The selected chart is a chart, on disk or of a registry when it is said so.
LEMMA SelectedKind ==
  ASSUME Types
  PROVE  /\ Selected \in Charts
         /\ Selected \in IF nav.local THEN OciCharts \union LocalCharts ELSE Named
<1>1. nav.repo \in Repos \union {NoRepo} /\ nav.name \in ChartNames
  BY DEF Types, TypeOK
<1>2. nav.local => Selected \in OciCharts \union LocalCharts
  BY DEF Types, Kinds, Selected
<1>3. ~nav.local => Selected \in Named
  BY <1>1 DEF Selected, Named
<1> QED
  BY <1>2, <1>3, ChartKinds

-----------------------------------------------------------------------------
(* Opening a chart.                                                        *)

\* What every way to open chart c does.
Opens(c) ==
  \E r \in {"pull", "oci", "local"} :
    /\ ResetAndRun(r, c) /\ c \in RunOf(r)
    /\ \/ r = "local" /\ UNCHANGED <<nav, page>>
       \/ /\ r # "local" /\ page' = "values" /\ nav' \in NavT /\ Selected' = c
          /\ nav'.local = (r = "oci") /\ (nav'.local => nav'.name \in OciCharts)

\* A chart of a repository is opened.
LEMMA VersionOpens ==
  ASSUME NEW c \in Named, onSelectVersion(c)
  PROVE  Opens(c)
<1>1. /\ nav' = [repo |-> c.repo, name |-> c.name, local |-> FALSE, oci |-> FALSE]
      /\ page' = "values" /\ ResetAndRun("pull", c)
  BY DEF onSelectVersion
<1>2. nav' \in NavT
  BY <1>1 DEF NavT, Named
<1>3. Selected' = c
  BY <1>1 DEF Selected, Named
<1>4. c \in RunOf("pull")
  BY DEF RunOf
<1> QED
  BY <1>1, <1>2, <1>3, <1>4 DEF Opens

\* A chart of a registry is opened.
LEMMA OCIOpens ==
  ASSUME NEW c \in OciCharts, onOpenOCIChart(c)
  PROVE  Opens(c)
<1>1. /\ nav' = [repo |-> NoRepo, name |-> c, local |-> TRUE, oci |-> TRUE]
      /\ page' = "values" /\ ResetAndRun("oci", c)
  BY DEF onOpenOCIChart
<1>2. nav' \in NavT
  BY <1>1, ChartKinds DEF NavT
<1>3. Selected' = c
  BY <1>1 DEF Selected
<1>4. c \in RunOf("oci")
  BY DEF RunOf
<1> QED
  BY <1>1, <1>2, <1>3, <1>4 DEF Opens

\* A path is read as a chart.
LEMMA LocalOpens ==
  ASSUME NEW c \in OciCharts \union LocalCharts \union Files, onOpenLocalChart(c)
  PROVE  Opens(c)
<1>1. ResetAndRun("local", c) /\ UNCHANGED <<nav, page>>
  BY DEF onOpenLocalChart
<1>2. c \in RunOf("local")
  BY DEF RunOf
<1> QED
  BY <1>1, <1>2 DEF Opens

\* A chart opened by what it is.
LEMMA OpenedByRef ==
  ASSUME NEW c, NEW local \in BOOLEAN, openChartByRef(c, local),
         c \in IF local THEN OciCharts \union LocalCharts ELSE Named \union OciCharts
  PROVE  Opens(c)
<1>1. CASE local
  BY <1>1, LocalOpens DEF openChartByRef
<1>2. CASE ~local /\ c \in OciCharts
  BY <1>2, OCIOpens DEF openChartByRef
<1>3. CASE ~local /\ c \notin OciCharts
  BY <1>3, VersionOpens DEF openChartByRef
<1> QED
  BY <1>1, <1>2, <1>3

\* The variables an opening writes keep their types.
LEMMA OpenTypes ==
  ASSUME Types, NEW c, Opens(c)
  PROVE  /\ page' \in {"repos", "charts", "values"} /\ nav' \in NavT /\ shown' \in ShownT
         /\ asked' \in Charts \union Files \union {NoChart}
         /\ defaults' \in Charts \union {NoChart}
         /\ column' \in ColumnT /\ RunsOf(runs') /\ save' \in SaveT
         /\ awaiting' \in BOOLEAN /\ repoRead' \in BOOLEAN
         /\ nav'.local => nav'.name \in OciCharts \union LocalCharts
<1>1. PICK r \in {"pull", "oci", "local"} :
        /\ ResetAndRun(r, c) /\ c \in RunOf(r)
        /\ \/ r = "local" /\ UNCHANGED <<nav, page>>
           \/ /\ r # "local" /\ page' = "values" /\ nav' \in NavT /\ Selected' = c
              /\ nav'.local = (r = "oci") /\ (nav'.local => nav'.name \in OciCharts)
  BY DEF Opens
<1>2. PICK d \in {runs["defaults"], NoChart}, u \in {runs["uiState"], NoChart},
           reading \in {FALSE, column.loading}, saving \in {FALSE, save.running} :
        /\ runs' = [runs EXCEPT !["defaults"] = d, !["uiState"] = u, ![r] = c]
        /\ column' = [file |-> NoFile, edited |-> FALSE, loading |-> reading]
        /\ save' = [running |-> saving, pending |-> FALSE]
  BY <1>1 DEF ResetAndRun, Stopped
<1>3. reading \in BOOLEAN /\ saving \in BOOLEAN
  BY DEF Types, TypeOK
<1>4. RunsOf(runs')
  <2>1. d \in RunOf("defaults") /\ u \in RunOf("uiState")
    BY NothingRuns DEF Types, Kinds, RunsOf, Runners
  <2>2. RunsOf([runs EXCEPT !["defaults"] = d])
    BY <2>1, RunUpdate DEF Types, Kinds, Runners
  <2>3. RunsOf([[runs EXCEPT !["defaults"] = d] EXCEPT !["uiState"] = u])
    BY <2>1, <2>2, RunUpdate DEF Runners
  <2>4. r \in Runners
    BY DEF Runners
  <2>5. RunsOf([[[runs EXCEPT !["defaults"] = d] EXCEPT !["uiState"] = u] EXCEPT ![r] = c])
    BY <1>1, <2>3, <2>4, RunUpdate
  <2> QED
    BY <1>2, <2>5
<1>5. /\ nav' \in NavT /\ page' \in {"repos", "charts", "values"}
      /\ nav'.local => nav'.name \in OciCharts \union LocalCharts
  BY <1>1 DEF Types, TypeOK, Kinds, NavT
<1>6. /\ shown' = [shown EXCEPT !.name = NoChart] /\ asked' = c /\ defaults' = NoChart
      /\ awaiting' = FALSE /\ repoRead' = (r # "pull" /\ repoRead)
  BY <1>1 DEF ResetAndRun
<1>7. shown' \in ShownT
  BY <1>6 DEF Types, TypeOK, ShownT
<1>8. column' \in ColumnT /\ save' \in SaveT
  BY <1>2, <1>3 DEF ColumnT, SaveT
<1>9. asked' \in Charts \union Files \union {NoChart}
  BY <1>1, <1>6, ChartKinds DEF RunOf
<1>10. repoRead' \in BOOLEAN
  BY <1>6 DEF Types, TypeOK
<1> QED
  BY <1>4, <1>5, <1>6, <1>7, <1>8, <1>9, <1>10

\* In a calm session nothing else is under way when a chart is opened.
LEMMA OpenCalm ==
  ASSUME Types, ~Loading, NEW c, Opens(c), picker' = "none", drops' = <<>>
  PROVE  Calm'
<1>1. PICK r \in {"pull", "oci", "local"} :
        /\ ResetAndRun(r, c)
        /\ \/ r = "local" /\ UNCHANGED <<nav, page>>
           \/ r # "local" /\ Selected' = c /\ nav'.local = (r = "oci")
  BY DEF Opens
<1>2. \A s \in Runners : runs[s] = NoChart
  BY DEF Loading
<1>3. /\ ~column'.loading
      /\ runs' = [runs EXCEPT !["defaults"] = NoChart, !["uiState"] = NoChart, ![r] = c]
      /\ shown' = [shown EXCEPT !.name = NoChart]
      /\ defaults' = NoChart /\ ~awaiting' /\ asked' = c
  <2>1. PICK d \in {runs["defaults"], NoChart}, u \in {runs["uiState"], NoChart},
             reading \in {FALSE, column.loading}, saving \in {FALSE, save.running} :
          /\ runs' = [runs EXCEPT !["defaults"] = d, !["uiState"] = u, ![r] = c]
          /\ column' = [file |-> NoFile, edited |-> FALSE, loading |-> reading]
    BY <1>1 DEF ResetAndRun, Stopped
  <2>2. d = NoChart /\ u = NoChart /\ ~reading
    BY <1>2, <2>1 DEF Loading, Runners
  <2>3. shown' = [shown EXCEPT !.name = NoChart] /\ defaults' = NoChart /\ ~awaiting' /\ asked' = c
    BY <1>1 DEF ResetAndRun
  <2> QED
    BY <2>1, <2>2, <2>3
<1>4. \A s \in Runners : runs'[s] = IF s = r THEN c ELSE NoChart
  BY <1>2, <1>3 DEF Types, TypeOK, Runners
<1>5. shown'.name = NoChart
  BY <1>3 DEF Types, TypeOK
<1>6. OneAtATime'
  BY <1>3, <1>4 DEF OneAtATime, Loading
<1>7. ForAsked'
  <2>1. \A s \in Runners : runs'[s] # NoChart => s = r /\ runs'[s] = asked'
    BY <1>3, <1>4
  <2>2. \A s \in {"pull", "oci", "local", "defaults"} : runs'[s] # NoChart =>
          runs'[s] = asked' /\ defaults' = NoChart /\ ~awaiting'
    BY <1>3, <2>1 DEF Runners
  <2>3. \A s \in {"pull", "oci", "defaults"} : runs'[s] # NoChart => Selected' = asked'
    BY <1>1, <1>3, <2>1 DEF Runners
  <2>4. runs'["pull"] # NoChart => ~nav'.local
    BY <1>1, <2>1 DEF Runners
  <2>5. runs'["defaults"] = NoChart
    BY <1>4 DEF Runners
  <2> QED
    BY <2>2, <2>3, <2>4, <2>5 DEF ForAsked
<1> QED
  BY <1>3, <1>5, <1>6, <1>7 DEF Calm, NamedIsAsked

-----------------------------------------------------------------------------
(* Leaving a page.                                                         *)

\* What every way to leave a page does.
Leaves ==
  /\ page' \in {"repos", "charts"} /\ pendingFile' \in {pendingFile, NoFile}
  /\ nav' \in {nav, [nav EXCEPT !.local = FALSE, !.oci = FALSE]}
  /\ \/ runs' = runs /\ versions' \in {versions, [selected |-> NoChart, listed |-> FALSE]}
     \/ /\ runs' = [runs EXCEPT !["versions"] = Selected]
        /\ versions' = [versions EXCEPT !.selected = nav.name]

\* The back key and every segment of the breadcrumb leave so.
LEMMA LeftByAction ==
  ASSUME NEW action, Leave(action)
  PROVE  Leaves
<1>2. CASE doNavigateBack
  BY <1>2 DEF doNavigateBack, navigateToVersions, resetToChartList, backToRepos, Leaves
<1>3. CASE doBreadcrumbClick(action)
  BY <1>3 DEF doBreadcrumbClick, navigateToVersions, resetToChartList, backToRepos, Leaves
<1> QED
  BY <1>2, <1>3 DEF Leave

\* The variables a leave writes keep their types.
LEMMA LeaveTypes ==
  ASSUME Types, Leaves
  PROVE  /\ page' \in {"repos", "charts", "values"} /\ pendingFile' \in Paths \union {NoFile}
         /\ nav' \in NavT /\ RunsOf(runs')
         /\ versions' \in [selected : ChartNames, listed : BOOLEAN]
         /\ nav'.local => nav'.name \in OciCharts \union LocalCharts
<1>1. page' \in {"repos", "charts", "values"} /\ pendingFile' \in Paths \union {NoFile}
      /\ nav' \in NavT /\ (nav'.local => nav'.name \in OciCharts \union LocalCharts)
  BY DEF Leaves, Types, TypeOK, Kinds, NavT
<1>2. CASE runs' = runs /\ versions' \in {versions, [selected |-> NoChart, listed |-> FALSE]}
  <2>1. versions \in [selected : ChartNames, listed : BOOLEAN] /\ RunsOf(runs)
    BY DEF Types, TypeOK, Kinds
  <2>2. versions' \in [selected : ChartNames, listed : BOOLEAN]
    <3>1. NoChart \in ChartNames
      BY ChartKinds
    <3>2. [selected |-> NoChart, listed |-> FALSE] \in [selected : ChartNames, listed : BOOLEAN]
      BY <3>1
    <3> QED
      BY <1>2, <2>1, <3>2
  <2> QED
    BY <1>1, <1>2, <2>1, <2>2
<1>3. CASE /\ runs' = [runs EXCEPT !["versions"] = Selected]
           /\ versions' = [versions EXCEPT !.selected = nav.name]
  <2>1. Selected \in RunOf("versions")
    BY SelectedKind DEF RunOf
  <2>2. RunsOf(runs')
    BY <1>3, <2>1, RunUpdate DEF Types, Kinds, Runners
  <2>3. versions' \in [selected : ChartNames, listed : BOOLEAN]
    BY <1>3 DEF Types, TypeOK
  <2> QED
    BY <1>1, <2>2, <2>3
<1> QED
  BY <1>2, <1>3 DEF Leaves

\* In a calm session nothing is under way when a page is left.
LEMMA LeaveCalm ==
  ASSUME Types, ~Busy, Leaves, awaiting => runs["uiState"] = shown.path,
         UNCHANGED <<asked, shown, defaults, column, picker, drops, awaiting>>
  PROVE  Calm'
<1>1. /\ \A r \in Runners : runs[r] = NoChart
      /\ ~column'.loading /\ picker' = "none" /\ drops' = <<>>
  BY DEF Busy, Loading
<1>2. \A r \in Runners \ {"versions"} : runs'[r] = NoChart
  BY <1>1 DEF Leaves, Types, TypeOK, Runners
<1>3. OneAtATime'
  BY <1>1, <1>2 DEF OneAtATime
<1>4. ForAsked'
  BY <1>2 DEF ForAsked, Runners
<1>5. page' # "values"
  BY DEF Leaves
<1>6. runs'["uiState"] = runs["uiState"]
  BY <1>1, <1>2 DEF Runners
<1> QED
  BY <1>3, <1>4, <1>5, <1>6 DEF Calm, NamedIsAsked

-----------------------------------------------------------------------------
(* Types.                                                                  *)

\* The program starts in the invariant.
LEMMA InitInv == Init => IInv
<1> SUFFICES ASSUME Init PROVE IInv
  OBVIOUS
<1> USE DEF Init
<1>1. TypeOK
  <2>1. drops \in Seq(Paths) /\ Len(drops) = 0
    OBVIOUS
  <2>2. /\ runs \in [Runners -> Charts \union Files \union {NoChart}]
        /\ \A r \in Runners \ {"local"} : runs[r] \notin Files
    BY ChartKinds
  <2>3. nav \in NavT /\ shown \in ShownT /\ column \in ColumnT /\ save \in SaveT
        /\ versions \in [selected : ChartNames, listed : BOOLEAN]
    BY ChartKinds DEF NavT, ShownT, ColumnT, SaveT
  <2>4. Len(drops) <= DropCap /\ acts \in 0..MaxActs
    BY <2>1, NavigationAssumption
  <2>5. /\ calm \in BOOLEAN /\ page \in {"repos", "charts", "values"}
        /\ pendingFile \in Paths \union {NoFile}
        /\ asked \in Charts \union Files \union {NoChart} /\ defaults \in Charts \union {NoChart}
        /\ picker \in {"none", "chart", "values", "column"}
        /\ awaiting \in BOOLEAN /\ repoRead \in BOOLEAN /\ dialog \in Dialogs
        /\ guarded \in BOOLEAN /\ seen \in BOOLEAN /\ closeSignal \in BOOLEAN
        /\ (guarded => GuardWorks)
        /\ window \in {"open", "closing", "closed"} /\ recent = NoFile
    BY DEF Dialogs
  <2> HIDE DEF Init
  <2> QED
    BY <2>1, <2>2, <2>3, <2>4, <2>5 DEF TypeOK, NavT, ShownT, ColumnT, SaveT
<1>2. Kinds
  <2>1. RunsOf(runs)
    BY NothingRuns DEF RunsOf
  <2> QED
    BY <2>1 DEF Kinds, RecentOf
<1>3. \A r \in Runners : runs[r] = NoChart
  OBVIOUS
<1>4. OneAtATime /\ ForAsked
  BY <1>3 DEF OneAtATime, ForAsked, Runners
<1>5. NamedIsAsked /\ ~awaiting
  BY DEF NamedIsAsked
<1>6. Watched
  BY DEF Watched
<1> QED
  BY <1>1, <1>2, <1>4, <1>5, <1>6 DEF IInv, Calm, Types

\* The types of a state whose parts that change have theirs.
LEMMA SameTypes ==
  ASSUME Types,
         page' \in {"repos", "charts", "values"}, nav' \in NavT, shown' \in ShownT,
         pendingFile' \in Paths \union {NoFile},
         asked' \in Charts \union Files \union {NoChart}, defaults' \in Charts \union {NoChart},
         column' \in ColumnT, RunsOf(runs'), save' \in SaveT,
         awaiting' \in BOOLEAN, repoRead' \in BOOLEAN,
         versions' \in [selected : ChartNames, listed : BOOLEAN],
         nav'.local => nav'.name \in OciCharts \union LocalCharts, RecentOf(recent'),
         acts' \in 0..MaxActs,
         UNCHANGED <<calm, picker, dialog, guarded, seen, closeSignal, window, drops>>
  PROVE  Types'
<1>1. /\ runs' \in [Runners -> Charts \union Files \union {NoChart}]
      /\ \A r \in Runners \ {"local"} : runs'[r] \notin Files
  BY RunsTypes
<1>2. recent' = NoFile \/ recent' \in [file : Paths, local : BOOLEAN, chart : Charts]
  BY DEF RecentOf
<1>3. TypeOK'
  BY <1>1, <1>2 DEF Types, TypeOK, NavT, ShownT, ColumnT, SaveT
<1> QED
  BY <1>3 DEF Types, Kinds

\* The types of what the charts are about.
LEMMA PartTypes ==
  ASSUME Types
  PROVE  /\ page \in {"repos", "charts", "values"} /\ nav \in NavT /\ shown \in ShownT
         /\ pendingFile \in Paths \union {NoFile}
         /\ asked \in Charts \union Files \union {NoChart} /\ defaults \in Charts \union {NoChart}
         /\ column \in ColumnT /\ RunsOf(runs) /\ save \in SaveT
         /\ awaiting \in BOOLEAN /\ repoRead \in BOOLEAN
         /\ versions \in [selected : ChartNames, listed : BOOLEAN]
         /\ nav.local => nav.name \in OciCharts \union LocalCharts
         /\ RecentOf(recent) /\ acts \in 0..MaxActs
BY DEF Types, TypeOK, Kinds, NavT, ShownT, ColumnT, SaveT

\* One act of the user more.
LEMMA ActTypes ==
  ASSUME Types, Act
  PROVE  acts' \in 0..MaxActs
BY NavigationAssumption DEF Types, TypeOK, Act

\* The user opens a chart, or a queued drop or an answered picker does.
OpenSteps ==
  \/ \E c \in Listed \union OciCharts \union LocalCharts : onSelectRecentChart(c)
  \/ \E c \in Listed \union OciCharts : onDirectLinkSubmit(c)
  \/ onSelectRecentValuesEntry \/ SelectVersion

\* The user's ways to open a chart differ in the values file they queue.
LEMMA OpenStepsEffect ==
  ASSUME Types, OpenSteps
  PROVE  /\ \E c : Opens(c)
         /\ Act /\ page \in {"repos", "charts"} /\ pendingFile' \in Paths \union {NoFile}
         /\ UNCHANGED <<calm, picker, versions, dialog, guarded, seen, closeSignal, window, drops,
                        recent>>
<1>1. Listed \subseteq Named
  BY ChartKinds DEF Listed, Named
<1>2. ASSUME NEW c \in Listed \union OciCharts \union LocalCharts, onSelectRecentChart(c)
      PROVE  Opens(c) /\ Act /\ page = "repos" /\ pendingFile' = pendingFile
  <2>1. /\ openChartByRef(c, c \in LocalCharts) /\ Act /\ page = "repos"
        /\ pendingFile' = pendingFile
    BY <1>2 DEF onSelectRecentChart, User
  <2>2. CASE c \in LocalCharts
    BY <2>1, <2>2, LocalOpens DEF openChartByRef
  <2>3. CASE c \notin LocalCharts /\ c \in OciCharts
    BY <2>1, <2>3, OCIOpens DEF openChartByRef
  <2>4. CASE c \notin LocalCharts /\ c \notin OciCharts
    BY <1>1, <2>1, <2>4, VersionOpens DEF openChartByRef
  <2> QED
    BY <2>1, <2>2, <2>3, <2>4
<1>3. ASSUME NEW c \in Listed \union OciCharts, onDirectLinkSubmit(c)
      PROVE  Opens(c) /\ Act /\ page = "repos" /\ pendingFile' = pendingFile
  BY <1>1, <1>3, VersionOpens, OCIOpens DEF onDirectLinkSubmit, User
<1>4. ASSUME onSelectRecentValuesEntry
      PROVE  Opens(recent.chart) /\ Act /\ page = "repos" /\ pendingFile' \in Paths
  <2>1. /\ recent.file \in Paths /\ recent.local \in BOOLEAN
        /\ recent.chart \in IF recent.local THEN OciCharts \union LocalCharts ELSE Named
    BY <1>4 DEF onSelectRecentValuesEntry, Types, Kinds, RecentOf
  <2>2. /\ openChartByRef(recent.chart, recent.local) /\ Act /\ page = "repos"
        /\ pendingFile' = recent.file
    BY <1>4 DEF onSelectRecentValuesEntry, User
  <2>3. Opens(recent.chart)
    BY <2>1, <2>2, OpenedByRef
  <2> QED
    BY <2>1, <2>2, <2>3
<1>5. ASSUME SelectVersion
      PROVE  \E c : Opens(c) /\ Act /\ page = "charts" /\ pendingFile' = pendingFile
  <2> DEFINE c == [repo |-> nav.repo, name |-> versions.selected]
  <2>1. c \in Named
    BY PartTypes DEF NavT, Named
  <2>2. onSelectVersion(c) /\ Act /\ page = "charts" /\ pendingFile' = pendingFile
    BY <1>5 DEF SelectVersion, User
  <2> HIDE DEF c
  <2> QED
    BY <2>1, <2>2, VersionOpens
<1>6. UNCHANGED <<calm, picker, versions, dialog, guarded, seen, closeSignal, window, drops, recent>>
  BY DEF OpenSteps, onSelectRecentChart, onDirectLinkSubmit, onSelectRecentValuesEntry, SelectVersion
<1>7. pendingFile \in Paths \union {NoFile}
  BY PartTypes
<1> QED
  BY <1>2, <1>3, <1>4, <1>5, <1>6, <1>7 DEF OpenSteps

\* Opening a chart keeps the types.
LEMMA OpenStepsTypes ==
  ASSUME Types, OpenSteps
  PROVE  Types'
<1>1. PICK c : Opens(c)
  BY OpenStepsEffect
<1>2. acts' \in 0..MaxActs
  BY OpenStepsEffect, ActTypes
<1>3. /\ pendingFile' \in Paths \union {NoFile}
      /\ UNCHANGED <<calm, picker, versions, dialog, guarded, seen, closeSignal, window, drops,
                     recent>>
  BY OpenStepsEffect
<1>4. versions' \in [selected : ChartNames, listed : BOOLEAN] /\ RecentOf(recent')
  BY <1>3, PartTypes
<1>5. Types'
  BY <1>1, <1>2, <1>3, <1>4, OpenTypes, SameTypes
<1> QED
  BY <1>5

\* Answers.
AnswerSteps ==
  \/ VersionsArrive \/ PullReadsRepo \/ PullArrives \/ DefaultsArrive \/ UIStateArrives
  \/ ColumnArrives \/ SaveArrives
  \/ applyLocalChartResult \/ applyOCIChartResult
  \/ \E r \in Runners : ChartFails(r) \/ Swallowed(r)

\* Answers keep the types.
LEMMA AnswerStepsTypes ==
  ASSUME Types, AnswerSteps
  PROVE  Types'
<1>1. CASE VersionsArrive
  <2>1. /\ runs' = [runs EXCEPT !["versions"] = NoChart]
        /\ versions' \in {versions, [versions EXCEPT !.listed = TRUE]}
        /\ UNCHANGED <<calm, page, nav, pendingFile, shown, asked, defaults, column, repoRead, save,
                       picker, awaiting, dialog, guarded, seen, closeSignal, window, drops, recent,
                       acts>>
    BY <1>1 DEF VersionsArrive
  <2>2. versions' \in [selected : ChartNames, listed : BOOLEAN]
    BY <2>1, PartTypes
  <2>3. RunsOf(runs')
    BY <2>1, PartTypes, NothingRuns, RunUpdate DEF Runners
  <2> QED
    BY <2>1, <2>2, <2>3, PartTypes, SameTypes
<1>2. CASE PullReadsRepo
  <2>1. /\ runs["pull"] # NoChart
        /\ runs' = [runs EXCEPT !["pull"] = [repo |-> nav.repo, name |-> runs["pull"].name]]
        /\ repoRead' = TRUE
        /\ UNCHANGED <<calm, page, nav, pendingFile, shown, asked, defaults, column, save, picker,
                       versions, awaiting, dialog, guarded, seen, closeSignal, window, drops, recent,
                       acts>>
    BY <1>2, PartTypes DEF PullReadsRepo, RunsOf
  <2>2. runs["pull"] \in Named
    BY <2>1, PartTypes DEF RunsOf, RunOf, Runners
  <2>3. [repo |-> nav.repo, name |-> runs["pull"].name] \in RunOf("pull")
    BY <2>2, PartTypes DEF Named, NavT, RunOf
  <2>4. RunsOf(runs')
    BY <2>1, <2>3, PartTypes, RunUpdate DEF Runners
  <2> QED
    BY <2>1, <2>4, PartTypes, SameTypes
<1>3. CASE PullArrives
  <2>1. /\ shown' = [path |-> runs["pull"], name |-> Selected]
        /\ runs' = [runs EXCEPT !["pull"] = NoChart, !["defaults"] = runs["pull"]]
        /\ UNCHANGED <<calm, page, nav, pendingFile, asked, defaults, column, repoRead, save, picker,
                       versions, awaiting, dialog, guarded, seen, closeSignal, window, drops, recent,
                       acts>>
    BY <1>3 DEF PullArrives
  <2>2. runs["pull"] \in Charts \union {NoChart}
    BY PartTypes, RunsOfCharts DEF Runners
  <2>3. runs["pull"] \in RunOf("defaults")
    BY <2>2 DEF RunOf
  <2>4. RunsOf([runs EXCEPT !["pull"] = NoChart])
    BY PartTypes, NothingRuns, RunUpdate DEF Runners
  <2>5. RunsOf([[runs EXCEPT !["pull"] = NoChart] EXCEPT !["defaults"] = runs["pull"]])
    BY <2>3, <2>4, RunUpdate DEF Runners
  <2>6. RunsOf(runs')
    BY <2>1, <2>5
  <2>7. shown' \in ShownT
    BY <2>1, <2>2, SelectedKind DEF ShownT
  <2> QED
    BY <2>1, <2>6, <2>7, PartTypes, SameTypes
<1>4. CASE DefaultsArrive
  <2>1. /\ defaults' = runs["defaults"] /\ awaiting' = TRUE /\ pendingFile' = NoFile
        /\ runs' = [runs EXCEPT !["defaults"] = NoChart, !["uiState"] = shown.path]
        /\ UNCHANGED <<calm, page, nav, shown, asked, repoRead, save, picker, versions, dialog,
                       guarded, seen, closeSignal, window, drops, acts>>
    BY <1>4 DEF DefaultsArrive
  <2>2. runs["defaults"] \in Charts \union {NoChart} /\ shown.path \in RunOf("uiState")
    BY PartTypes, RunsOfCharts DEF Runners, ShownT, RunOf
  <2>3. RunsOf([runs EXCEPT !["defaults"] = NoChart])
    BY PartTypes, NothingRuns, RunUpdate DEF Runners
  <2>4. RunsOf([[runs EXCEPT !["defaults"] = NoChart] EXCEPT !["uiState"] = shown.path])
    BY <2>2, <2>3, RunUpdate DEF Runners
  <2>5. RunsOf(runs')
    BY <2>1, <2>4
  <2>6. column' \in ColumnT /\ RecentOf(recent')
    <3>1. CASE pendingFile = NoFile
      BY <1>4, <3>1, PartTypes DEF DefaultsArrive
    <3>2. CASE pendingFile # NoFile
      <4>1. /\ column' = [column EXCEPT !.file = pendingFile, !.loading = TRUE]
            /\ recent' = IF nav.name = NoChart THEN recent ELSE onPendingValuesConsumed
        BY <1>4, <3>2 DEF DefaultsArrive
      <4>2. pendingFile \in Paths
        BY <3>2, PartTypes
      <4>3. column' \in ColumnT
        BY <4>1, <4>2, PartTypes DEF ColumnT
      <4>4. RecentOf(onPendingValuesConsumed)
        BY <4>2, SelectedKind, PartTypes DEF onPendingValuesConsumed, RecentOf, NavT
      <4> QED
        BY <4>1, <4>3, <4>4, PartTypes
    <3> QED
      BY <3>1, <3>2
  <2> QED
    BY <2>1, <2>2, <2>5, <2>6, PartTypes, SameTypes
<1>5. CASE UIStateArrives
  <2>1. /\ runs' = [runs EXCEPT !["uiState"] = NoChart] /\ awaiting' \in BOOLEAN
        /\ UNCHANGED <<calm, page, nav, pendingFile, shown, asked, defaults, column, repoRead, save,
                       picker, versions, dialog, guarded, seen, closeSignal, window, drops, recent,
                       acts>>
    BY <1>5 DEF UIStateArrives, FocusIsOfShown
  <2>2. RunsOf(runs')
    BY <2>1, PartTypes, NothingRuns, RunUpdate DEF Runners
  <2> QED
    BY <2>1, <2>2, PartTypes, SameTypes
<1>6. CASE ColumnArrives \/ SaveArrives
  <2>1. /\ column' \in ColumnT /\ save' \in SaveT
        /\ UNCHANGED <<calm, page, nav, pendingFile, shown, asked, defaults, runs, repoRead, picker,
                       versions, awaiting, dialog, guarded, seen, closeSignal, window, drops, recent,
                       acts>>
    <3>1. CASE ColumnArrives
      BY <3>1, PartTypes DEF ColumnArrives, ColumnT
    <3>2. CASE SaveArrives
      <4>1. /\ save' = [running |-> FALSE, pending |-> FALSE]
            /\ UNCHANGED <<calm, page, nav, pendingFile, shown, asked, defaults, runs, repoRead,
                           picker, versions, awaiting, dialog, guarded, seen, closeSignal, window,
                           drops, recent, acts>>
        BY <3>2 DEF SaveArrives
      <4>2. column' = column \/ \E f \in Paths : column' = [column EXCEPT !.file = f, !.edited = FALSE]
        BY <3>2, PartTypes DEF SaveArrives, ColumnT, Paths
      <4>3. column' \in ColumnT
        BY <4>2, PartTypes DEF ColumnT
      <4> QED
        BY <4>1, <4>3 DEF SaveT
    <3> QED
      BY <1>6, <3>1, <3>2
  <2> QED
    BY <2>1, PartTypes, SameTypes
<1>7. ASSUME NEW r \in {"local", "oci"}, NEW oci \in BOOLEAN, ShowFound(r, oci)
      PROVE  Types'
  <2>1. /\ runs[r] \notin Files \union {NoChart}
        /\ nav' = [nav EXCEPT !.name = runs[r], !.local = TRUE, !.oci = oci]
        /\ page' = "values"
        /\ shown' = [path |-> runs[r], name |-> runs[r]]
        /\ runs' = [runs EXCEPT ![r] = NoChart, !["defaults"] = runs[r]]
        /\ UNCHANGED <<calm, pendingFile, asked, defaults, column, repoRead, save, picker, versions,
                       awaiting, dialog, guarded, seen, closeSignal, window, drops, recent, acts>>
    BY <1>7 DEF ShowFound, SelectsFound
  <2>2. runs[r] \in OciCharts \union LocalCharts
    BY <2>1, PartTypes DEF RunsOf, RunOf, Runners
  <2>3. runs[r] \in RunOf("defaults") /\ runs[r] \in Charts /\ runs[r] \in ChartNames
    BY <2>2, ChartKinds DEF RunOf
  <2>4. RunsOf([runs EXCEPT ![r] = NoChart])
    BY PartTypes, NothingRuns, RunUpdate DEF Runners
  <2>5. RunsOf([[runs EXCEPT ![r] = NoChart] EXCEPT !["defaults"] = runs[r]])
    BY <2>3, <2>4, RunUpdate DEF Runners
  <2>6. RunsOf(runs')
    BY <2>1, <2>5
  <2>7. nav' \in NavT /\ shown' \in ShownT /\ nav'.name \in OciCharts \union LocalCharts
    BY <2>1, <2>2, <2>3, PartTypes DEF NavT, ShownT
  <2> QED
    BY <2>1, <2>6, <2>7, PartTypes, SameTypes
<1>8. nav.oci \in BOOLEAN
  BY PartTypes DEF NavT
<1>9. ASSUME NEW r \in Runners, ChartFails(r) \/ Swallowed(r) PROVE Types'
  <2>1. /\ runs' = [runs EXCEPT ![r] = NoChart]
        /\ UNCHANGED <<calm, page, nav, pendingFile, shown, asked, defaults, column, repoRead, save,
                       picker, versions, awaiting, dialog, guarded, seen, closeSignal, window, drops,
                       recent, acts>>
    BY <1>9 DEF ChartFails, Swallowed
  <2>2. RunsOf(runs')
    BY <2>1, PartTypes, NothingRuns, RunUpdate
  <2> QED
    BY <2>1, <2>2, PartTypes, SameTypes
<1> QED
  BY <1>1, <1>2, <1>3, <1>4, <1>5, <1>6, <1>7, <1>8, <1>9
     DEF AnswerSteps, applyLocalChartResult, applyOCIChartResult

\* A chart, a file for the chart or a file for the column, by picker or drop.
Chosen(f) ==
  \/ onOpenLocalChart(f) /\ UNCHANGED pendingFile
  \/ onValuesFileDropped(f) \/ SelectFile(f)

\* What is chosen keeps the types.
LEMMA ChosenTypes ==
  ASSUME Types, (\E f \in Paths : Chosen(f)) \/ Ignored
  PROVE  /\ page' \in {"repos", "charts", "values"} /\ nav' \in NavT /\ shown' \in ShownT
         /\ pendingFile' \in Paths \union {NoFile}
         /\ asked' \in Charts \union Files \union {NoChart}
         /\ defaults' \in Charts \union {NoChart}
         /\ column' \in ColumnT /\ RunsOf(runs') /\ save' \in SaveT
         /\ awaiting' \in BOOLEAN /\ repoRead' \in BOOLEAN
         /\ nav'.local => nav'.name \in OciCharts \union LocalCharts
<1>1. ASSUME NEW f \in Paths, onOpenLocalChart(f)
      PROVE  Opens(f)
  BY <1>1, LocalOpens DEF Paths
<1>2. CASE \E f \in Paths : onOpenLocalChart(f) /\ UNCHANGED pendingFile
  BY <1>1, <1>2, OpenTypes, PartTypes
<1>3. CASE \E f \in Paths : onValuesFileDropped(f)
  BY <1>3, PartTypes DEF onValuesFileDropped
<1>4. CASE \E f \in Paths : SelectFile(f)
  <2>1. column' \in ColumnT
    BY <1>4, PartTypes DEF SelectFile, ColumnT
  <2> QED
    BY <1>4, <2>1, PartTypes DEF SelectFile
<1>5. CASE Ignored
  BY <1>5, PartTypes DEF Ignored
<1> QED
  BY <1>2, <1>3, <1>4, <1>5 DEF Chosen

\* The types of the rest are theirs.
LEMMA RestTypes ==
  ASSUME Types,
         page' \in {"repos", "charts", "values"}, nav' \in NavT, shown' \in ShownT,
         pendingFile' \in Paths \union {NoFile},
         asked' \in Charts \union Files \union {NoChart}, defaults' \in Charts \union {NoChart},
         column' \in ColumnT, RunsOf(runs'), save' \in SaveT,
         awaiting' \in BOOLEAN, repoRead' \in BOOLEAN,
         versions' \in [selected : ChartNames, listed : BOOLEAN],
         nav'.local => nav'.name \in OciCharts \union LocalCharts, recent' = recent,
         acts' \in 0..MaxActs, calm' = calm,
         picker' \in {"none", "chart", "values", "column"}, dialog' \in Dialogs,
         guarded' \in BOOLEAN, guarded' => GuardWorks, seen' \in BOOLEAN, closeSignal' \in BOOLEAN,
         window' \in {"open", "closing", "closed"}, drops' \in Seq(Paths), Len(drops') <= DropCap
  PROVE  Types'
<1>1. /\ runs' \in [Runners -> Charts \union Files \union {NoChart}]
      /\ \A r \in Runners \ {"local"} : runs'[r] \notin Files
  BY RunsTypes
<1>2. calm \in BOOLEAN /\ RecentOf(recent)
      /\ (recent = NoFile \/ recent \in [file : Paths, local : BOOLEAN, chart : Charts])
  BY DEF Types, TypeOK, Kinds
<1>3. TypeOK'
  BY <1>1, <1>2 DEF TypeOK, NavT, ShownT, ColumnT, SaveT
<1>4. Kinds'
  BY <1>2 DEF Kinds
<1> QED
  BY <1>3, <1>4 DEF Types

\* The types of the window and what lies over the pages.
LEMMA OverTypes ==
  ASSUME Types
  PROVE  /\ calm \in BOOLEAN /\ picker \in {"none", "chart", "values", "column"}
         /\ dialog \in Dialogs /\ guarded \in BOOLEAN /\ (guarded => GuardWorks)
         /\ seen \in BOOLEAN /\ closeSignal \in BOOLEAN
         /\ window \in {"open", "closing", "closed"}
         /\ drops \in Seq(Paths) /\ Len(drops) <= DropCap
BY DEF Types, TypeOK

\* An answered picker or a drop that is looked at chooses, and nothing else.
LEMMA ChoiceSteps ==
  ASSUME Types, PickerAnswers \/ PollDrop
  PROVE  /\ (\E f \in Paths : Chosen(f)) \/ Ignored
         /\ UNCHANGED <<calm, versions, dialog, guarded, seen, closeSignal, window, recent, acts>>
         /\ picker' \in {picker, "none"} /\ drops' \in Seq(Paths) /\ Len(drops') <= DropCap
<1>1. CASE PickerAnswers
  <2>1. (\E f \in Paths : Chosen(f)) \/ Ignored
    BY <1>1 DEF PickerAnswers, Chosen, Paths
  <2>2. picker' = "none"
        /\ UNCHANGED <<calm, versions, dialog, guarded, seen, closeSignal, window, drops, recent, acts>>
    BY <1>1 DEF PickerAnswers
  <2> QED
    BY <2>1, <2>2, OverTypes
<1>2. CASE PollDrop
  <2>1. drops # <<>> /\ drops' = Tail(drops)
        /\ UNCHANGED <<calm, picker, versions, dialog, guarded, seen, closeSignal, window, recent,
                       acts>>
    BY <1>2 DEF PollDrop
  <2>2. drops' \in Seq(Paths) /\ Len(drops') <= DropCap /\ Head(drops) \in Paths
    BY <2>1, OverTypes, HeadTailProperties, NavigationAssumption
  <2>3. \E f \in Paths : Chosen(f)
    BY <1>2, <2>2 DEF PollDrop, Chosen
  <2> QED
    BY <2>1, <2>2, <2>3
<1> QED
  BY <1>1, <1>2

\* What comes of them keeps the types.
LEMMA ChoiceTypes ==
  ASSUME Types, PickerAnswers \/ PollDrop
  PROVE  Types'
<1>1. versions' \in [selected : ChartNames, listed : BOOLEAN] /\ acts' \in 0..MaxActs
  BY ChoiceSteps, PartTypes
<1>2. /\ calm' = calm /\ recent' = recent
      /\ picker' \in {"none", "chart", "values", "column"} /\ dialog' \in Dialogs
      /\ guarded' \in BOOLEAN /\ (guarded' => GuardWorks) /\ seen' \in BOOLEAN
      /\ closeSignal' \in BOOLEAN /\ window' \in {"open", "closing", "closed"}
      /\ drops' \in Seq(Paths) /\ Len(drops') <= DropCap
  BY ChoiceSteps, OverTypes
<1> QED
  BY <1>1, <1>2, ChoiceSteps, ChosenTypes, RestTypes

\* What the user does on a page.
PageSteps ==
  \/ \E repo \in Repos : onSelectRepo(repo)
  \/ \E name \in Names : onSelectChart(name)
  \/ Edit \/ Save \/ SaveSwallowed
  \/ \E kind \in {"chart", "values", "column"} : OpenPicker(kind)
  \/ \E x \in Paths : Drop(x)

\* What the user does on a page keeps the types.
LEMMA PageStepsTypes ==
  ASSUME Types, PageSteps
  PROVE  Types'
<1>1. acts' \in 0..MaxActs
  <2>1. Act \/ acts' = acts
    BY DEF PageSteps, onSelectRepo, onSelectChart, Edit, Save, SaveSwallowed, OpenPicker, Drop, User
  <2> QED
    BY <2>1, ActTypes, PartTypes
<1>2. ASSUME NEW repo \in Repos, onSelectRepo(repo) PROVE Types'
  <2>1. /\ page' = "charts" /\ nav' = [nav EXCEPT !.repo = repo, !.local = FALSE, !.oci = FALSE]
        /\ versions' = [selected |-> NoChart, listed |-> FALSE]
        /\ UNCHANGED <<calm, pendingFile, shown, asked, defaults, column, runs, repoRead, save,
                       picker, awaiting, dialog, guarded, seen, closeSignal, window, drops, recent>>
    BY <1>2 DEF onSelectRepo
  <2>2. nav' \in NavT /\ ~nav'.local
    BY <2>1, PartTypes DEF NavT
  <2>3. NoChart \in ChartNames
    BY ChartKinds
  <2>4. versions' \in [selected : ChartNames, listed : BOOLEAN]
    BY <2>1, <2>3
  <2> QED
    BY <1>1, <2>1, <2>2, <2>4, PartTypes, SameTypes
<1>3. ASSUME NEW name \in Names, onSelectChart(name) PROVE Types'
  <2>1. /\ versions' = [versions EXCEPT !.selected = name]
        /\ runs' = [runs EXCEPT !["versions"] = [repo |-> nav.repo, name |-> name]]
        /\ UNCHANGED <<calm, page, nav, pendingFile, shown, asked, defaults, column, repoRead, save,
                       picker, awaiting, dialog, guarded, seen, closeSignal, window, drops, recent>>
    BY <1>3 DEF onSelectChart
  <2>2. name \in ChartNames
    BY ChartKinds
  <2>3. versions' \in [selected : ChartNames, listed : BOOLEAN]
    BY <2>1, <2>2, PartTypes
  <2>4. [repo |-> nav.repo, name |-> name] \in Named
    BY <2>2, PartTypes DEF NavT, Named
  <2>5. [repo |-> nav.repo, name |-> name] \in RunOf("versions")
    BY <2>4, ChartKinds DEF RunOf
  <2>6. RunsOf(runs')
    BY <2>1, <2>5, PartTypes, RunUpdate DEF Runners
  <2> QED
    BY <1>1, <2>1, <2>3, <2>6, PartTypes, SameTypes
<1>4. CASE Edit \/ Save \/ SaveSwallowed
  <2>1. /\ column' \in ColumnT /\ save' \in SaveT /\ seen' \in BOOLEAN
        /\ UNCHANGED <<calm, page, nav, pendingFile, shown, asked, defaults, runs, repoRead, picker,
                       versions, awaiting, dialog, guarded, closeSignal, window, drops, recent>>
    <3>1. CASE Edit
      BY <3>1, PartTypes, OverTypes DEF Edit, ColumnT
    <3>2. CASE Save
      <4>1. \E b \in BOOLEAN : save' = [running |-> b, pending |-> TRUE]
        BY <3>2, PartTypes DEF Save, SaveT
      <4>2. save' \in SaveT
        BY <4>1 DEF SaveT
      <4> QED
        BY <3>2, <4>2, PartTypes, OverTypes DEF Save
    <3>3. CASE SaveSwallowed
      BY <3>3, PartTypes, OverTypes DEF SaveSwallowed, SaveT
    <3> QED
      BY <1>4, <3>1, <3>2, <3>3
  <2> QED
    BY <1>1, <2>1, PartTypes, OverTypes, RestTypes
<1>5. ASSUME NEW kind \in {"chart", "values", "column"}, OpenPicker(kind) PROVE Types'
  <2>1. picker' = kind
        /\ UNCHANGED <<calm, page, nav, pendingFile, shown, asked, defaults, column, runs, repoRead,
                       save, versions, awaiting, dialog, guarded, seen, closeSignal, window, drops,
                       recent>>
    BY <1>5 DEF OpenPicker
  <2> QED
    BY <1>1, <2>1, PartTypes, OverTypes, RestTypes
<1>6. ASSUME NEW x \in Paths, Drop(x) PROVE Types'
  <2>1. UNCHANGED <<calm, page, nav, pendingFile, shown, asked, defaults, column, runs, repoRead,
                    save, picker, versions, awaiting, dialog, guarded, seen, closeSignal, window,
                    recent>>
    BY <1>6 DEF Drop
  <2>2. drops' = IF Len(drops) < DropCap THEN Append(drops, x) ELSE drops
    BY <1>6 DEF Drop, sendDrop
  <2>3. drops \in Seq(Paths) /\ Len(drops) <= DropCap
    BY OverTypes
  <2>4. Append(drops, x) \in Seq(Paths) /\ Len(Append(drops, x)) = Len(drops) + 1
    BY <2>3, AppendProperties
  <2>5. drops' \in Seq(Paths) /\ Len(drops') <= DropCap
    BY <2>2, <2>3, <2>4, LenProperties, NavigationAssumption
  <2> QED
    BY <1>1, <2>1, <2>5, PartTypes, OverTypes, RestTypes
<1> QED
  BY <1>2, <1>3, <1>4, <1>5, <1>6 DEF PageSteps

\* Leaving a page, or being asked about it, keeps the types.
LEMMA AskToLeaveTypes ==
  ASSUME Types, NEW action \in Dialogs, AskToLeave(action)
  PROVE  Types'
<1>1. Act /\ UNCHANGED <<calm, shown, asked, defaults, column, repoRead, save, picker, awaiting,
                         guarded, seen, closeSignal, window, drops, recent>>
  BY DEF AskToLeave, User
<1>2. acts' \in 0..MaxActs
  BY <1>1, ActTypes
<1>3. CASE dialog' = action /\ UNCHANGED <<page, nav, pendingFile, versions, runs>>
  BY <1>1, <1>2, <1>3, PartTypes, OverTypes, RestTypes
<1>4. CASE Leaves /\ UNCHANGED dialog
  BY <1>1, <1>2, <1>4, LeaveTypes, PartTypes, OverTypes, RestTypes
<1> QED
  BY <1>3, <1>4, LeftByAction DEF AskToLeave

\* A confirmed action keeps the types.
LEMMA ConfirmUnsavedTypes ==
  ASSUME Types, ConfirmUnsaved
  PROVE  Types'
<1>1. Act /\ dialog' = "none"
      /\ UNCHANGED <<calm, shown, asked, defaults, column, repoRead, save, picker, awaiting, seen,
                     closeSignal, drops, recent>>
  BY DEF ConfirmUnsaved
<1>2. acts' \in 0..MaxActs /\ dialog' \in Dialogs
  BY <1>1, ActTypes DEF Dialogs
<1>3. CASE guarded' = FALSE /\ window' = "closing" /\ UNCHANGED <<page, nav, pendingFile, versions, runs>>
  <2>1. guarded' \in BOOLEAN /\ (guarded' => GuardWorks) /\ window' \in {"open", "closing", "closed"}
    BY <1>3
  <2>2. /\ page' \in {"repos", "charts", "values"} /\ nav' \in NavT /\ RunsOf(runs')
        /\ pendingFile' \in Paths \union {NoFile}
        /\ versions' \in [selected : ChartNames, listed : BOOLEAN]
        /\ nav'.local => nav'.name \in OciCharts \union LocalCharts
    BY <1>3, PartTypes
  <2> QED
    BY <1>1, <1>2, <2>1, <2>2, PartTypes, OverTypes, RestTypes
<1>4. CASE Leaves /\ UNCHANGED <<guarded, window>>
  BY <1>1, <1>2, <1>4, LeaveTypes, PartTypes, OverTypes, RestTypes
<1> QED
  BY <1>3, <1>4, LeftByAction DEF ConfirmUnsaved, executePendingAction

\* The window, and steps that leave the charts alone.
WindowSteps == DismissUnsaved \/ PollExternalEvents \/ CloseWindow \/ UNCHANGED vars

\* The window keeps the types.
LEMMA WindowStepsTypes ==
  ASSUME Types, WindowSteps
  PROVE  Types'
<1>1. UNCHANGED <<calm, page, nav, pendingFile, shown, asked, defaults, column, runs, repoRead, save,
                  picker, versions, awaiting, drops, recent>>
  BY DEF WindowSteps, DismissUnsaved, PollExternalEvents, CloseWindow, vars
<1>2. /\ dialog' \in Dialogs /\ guarded' \in BOOLEAN /\ seen' \in BOOLEAN
      /\ closeSignal' \in BOOLEAN
      /\ (guarded' => GuardWorks) /\ window' \in {"open", "closing", "closed"}
  <2>1. CASE DismissUnsaved
    BY <2>1, OverTypes DEF DismissUnsaved, Dialogs
  <2>2. CASE PollExternalEvents
    BY <2>2, OverTypes, NavigationAssumption, PartTypes
       DEF PollExternalEvents, Dialogs, Unsaved, Guards, ColumnT
  <2>3. CASE CloseWindow
    BY <2>3, OverTypes DEF CloseWindow
  <2>4. CASE UNCHANGED vars
    BY <2>4, OverTypes DEF vars
  <2> QED
    BY <2>1, <2>2, <2>3, <2>4 DEF WindowSteps
<1>3. acts' \in 0..MaxActs
  BY NavigationAssumption, PartTypes DEF WindowSteps, DismissUnsaved, PollExternalEvents,
     CloseWindow, vars, Act
<1> QED
  BY <1>1, <1>2, <1>3, PartTypes, OverTypes, RestTypes

\* Every step is of one of these kinds.
LEMMA StepKinds ==
  ASSUME [Next]_vars
  PROVE  \/ OpenSteps \/ AnswerSteps \/ PickerAnswers \/ PollDrop \/ PageSteps
         \/ \E action \in Dialogs : AskToLeave(action)
         \/ ConfirmUnsaved \/ WindowSteps
BY DEF Next, OpenSteps, AnswerSteps, PageSteps, WindowSteps

\* Every step keeps the types.
LEMMA StepTypes ==
  ASSUME Types, [Next]_vars
  PROVE  Types'
BY StepKinds, OpenStepsTypes, AnswerStepsTypes, ChoiceTypes, PageStepsTypes,
   AskToLeaveTypes, ConfirmUnsavedTypes, WindowStepsTypes

-----------------------------------------------------------------------------
(* A calm session.                                                         *)

calmVars == <<page, nav, shown, asked, defaults, column, runs, picker, awaiting, drops>>

\* In a calm session the user acts on a program at rest.
LEMMA ActsAtRest ==
  ASSUME calm, Act
  PROVE  /\ ~Busy /\ ~Loading /\ ~column.loading /\ picker = "none" /\ drops = <<>>
         /\ \A r \in Runners : runs[r] = NoChart
BY DEF Act, Busy, Loading

\* The selected chart stays while the navigation state does.
LEMMA SelectedKept ==
  ASSUME UNCHANGED nav
  PROVE  Selected' = Selected
BY DEF Selected

\* An answer that fails, or whose result the charts do not depend on.
LEMMA FewerRuns ==
  ASSUME Types, Calm, NEW r \in Runners \ {"uiState"}, runs' = [runs EXCEPT ![r] = NoChart],
         UNCHANGED <<page, nav, shown, asked, defaults, column, picker, awaiting, drops>>
  PROVE  Calm'
<1>1. \A s \in Runners : runs'[s] = IF s = r THEN NoChart ELSE runs[s]
  BY DEF Types, TypeOK
<1>2. OneAtATime'
  BY <1>1 DEF Calm, OneAtATime, Loading
<1>3. ForAsked'
  BY <1>1, SelectedKept DEF Calm, ForAsked, Runners
<1>4. NamedIsAsked'
  BY SelectedKept DEF Calm, NamedIsAsked
<1>5. runs'["uiState"] = runs["uiState"]
  BY <1>1 DEF Runners
<1> QED
  BY <1>2, <1>3, <1>4, <1>5 DEF Calm

\* A file is loaded into the column of a program at rest.
LEMMA LoadCalm ==
  ASSUME Calm, ~Loading, picker' = "none", drops' = <<>>,
         UNCHANGED <<page, nav, shown, asked, defaults, runs, awaiting>>
  PROVE  Calm'
<1>1. \A s \in Runners : runs'[s] = NoChart
  BY DEF Loading
<1>2. OneAtATime'
  BY <1>1 DEF OneAtATime
<1>3. ForAsked' /\ NamedIsAsked' /\ (awaiting' => runs'["uiState"] = shown'.path)
  BY SelectedKept DEF Calm, ForAsked, NamedIsAsked
<1> QED
  BY <1>2, <1>3 DEF Calm

\* A column that stays loading or not, and with it all that is under way.
LEMMA ColumnCalm ==
  ASSUME Calm, column'.loading => column.loading,
         UNCHANGED <<page, nav, shown, asked, defaults, runs, picker, awaiting, drops>>
  PROVE  Calm'
<1>1. OneAtATime'
  BY DEF Calm, OneAtATime, Loading
<1>2. ForAsked' /\ NamedIsAsked' /\ (awaiting' => runs'["uiState"] = shown'.path)
  BY SelectedKept DEF Calm, ForAsked, NamedIsAsked
<1> QED
  BY <1>1, <1>2 DEF Calm

\* In a calm session the user opens a chart when nothing is under way.
LEMMA OpenStepsCalm ==
  ASSUME Types, calm, Calm, OpenSteps
  PROVE  Calm'
<1>1. PICK c : Opens(c)
  BY OpenStepsEffect
<1>2. Act /\ UNCHANGED <<picker, drops>>
  BY OpenStepsEffect
<1>3. ~Loading /\ picker' = "none" /\ drops' = <<>>
  BY <1>2, ActsAtRest
<1> QED
  BY <1>1, <1>3, OpenCalm

\* What one answer under way leaves no room for.
LEMMA Alone ==
  ASSUME Calm, NEW r \in Runners, runs[r] # NoChart
  PROVE  /\ \A s \in Runners \ {r} : runs[s] = NoChart
         /\ picker = "none" /\ drops = <<>>
         /\ column.loading => r = "uiState"
BY DEF Calm, OneAtATime, Loading

\* The chart is there and its default values are asked for.
LEMMA FoundCalm ==
  ASSUME Types, Calm, NEW r \in {"pull", "oci", "local"}, runs[r] # NoChart,
         runs' = [runs EXCEPT ![r] = NoChart, !["defaults"] = runs[r]],
         shown' = [path |-> asked, name |-> asked], Selected' = asked,
         UNCHANGED <<asked, defaults, column, picker, awaiting, drops>>
  PROVE  Calm'
<1>1. /\ \A s \in Runners \ {r} : runs[s] = NoChart
      /\ picker = "none" /\ drops = <<>> /\ ~column.loading
  BY Alone DEF Runners
<1>2. runs[r] = asked /\ defaults = NoChart /\ ~awaiting
  BY DEF Calm, ForAsked
<1>3. \A s \in Runners : runs'[s] = IF s = "defaults" THEN asked ELSE NoChart
  BY <1>1, <1>2 DEF Types, TypeOK, Runners
<1>4. OneAtATime'
  BY <1>1, <1>3 DEF OneAtATime
<1>5. ForAsked'
  BY <1>2, <1>3 DEF ForAsked, Runners
<1>6. NamedIsAsked'
  BY <1>2 DEF NamedIsAsked
<1> QED
  BY <1>2, <1>4, <1>5, <1>6 DEF Calm

\* In a calm session an answer is for the chart that was asked for.
LEMMA AnswerStepsCalm ==
  ASSUME Types, calm, Calm, AnswerSteps
  PROVE  Calm'
<1>1. CASE VersionsArrive
  <2>1. /\ runs' = [runs EXCEPT !["versions"] = NoChart]
        /\ UNCHANGED <<page, nav, shown, asked, defaults, column, picker, awaiting, drops>>
    BY <1>1 DEF VersionsArrive
  <2> QED
    BY <2>1, FewerRuns DEF Runners
<1>2. CASE PullReadsRepo
  <2>1. /\ runs["pull"] # NoChart
        /\ runs' = [runs EXCEPT !["pull"] = [repo |-> nav.repo, name |-> runs["pull"].name]]
        /\ UNCHANGED <<page, nav, shown, asked, defaults, column, picker, awaiting, drops>>
    BY <1>2, PartTypes DEF PullReadsRepo, RunsOf
  <2>2. runs["pull"] = asked /\ Selected = asked /\ ~nav.local
    BY <2>1 DEF Calm, ForAsked
  <2>3. [repo |-> nav.repo, name |-> runs["pull"].name] = runs["pull"]
    BY <2>2 DEF Selected
  <2>4. runs' = runs
    BY <2>1, <2>3, PartTypes DEF RunsOf
  <2> QED
    BY <2>1, <2>4, ColumnCalm
<1>3. CASE PullArrives
  <2>1. /\ runs["pull"] # NoChart
        /\ shown' = [path |-> runs["pull"], name |-> Selected]
        /\ runs' = [runs EXCEPT !["pull"] = NoChart, !["defaults"] = runs["pull"]]
        /\ UNCHANGED <<nav, asked, defaults, column, picker, awaiting, drops>>
    BY <1>3 DEF PullArrives
  <2>2. runs["pull"] = asked /\ Selected = asked /\ Selected' = asked
    BY <2>1, SelectedKept DEF Calm, ForAsked
  <2> QED
    BY <2>1, <2>2, FoundCalm
<1>4. CASE DefaultsArrive
  <2>1. /\ runs["defaults"] # NoChart /\ defaults' = runs["defaults"] /\ awaiting'
        /\ runs' = [runs EXCEPT !["defaults"] = NoChart, !["uiState"] = shown.path]
        /\ UNCHANGED <<page, nav, shown, asked, picker, drops>>
    BY <1>4 DEF DefaultsArrive
  <2>2. /\ \A s \in Runners \ {"defaults"} : runs[s] = NoChart
        /\ picker = "none" /\ drops = <<>>
    BY <2>1, Alone DEF Runners
  <2>3. \A s \in Runners : runs'[s] = IF s = "uiState" THEN shown.path ELSE NoChart
    BY <2>1, <2>2 DEF Types, TypeOK, Runners
  <2>4. OneAtATime'
    BY <2>1, <2>2, <2>3 DEF OneAtATime
  <2>5. ForAsked'
    BY <2>3 DEF ForAsked, Runners
  <2>6. NamedIsAsked'
    BY <2>1, SelectedKept DEF Calm, ForAsked, NamedIsAsked
  <2>7. runs'["uiState"] = shown'.path
    BY <2>1, <2>3 DEF Runners
  <2> QED
    BY <2>4, <2>5, <2>6, <2>7 DEF Calm
<1>5. CASE UIStateArrives
  <2>1. /\ runs["uiState"] # NoChart /\ runs' = [runs EXCEPT !["uiState"] = NoChart]
        /\ UNCHANGED <<page, nav, shown, asked, defaults, column, picker, drops>>
    BY <1>5 DEF UIStateArrives
  <2>2. ~awaiting'
    BY <1>5 DEF UIStateArrives, FocusIsOfShown, Calm
  <2>3. /\ \A s \in Runners \ {"uiState"} : runs[s] = NoChart
        /\ picker = "none" /\ drops = <<>>
    BY <2>1, Alone DEF Runners
  <2>4. \A s \in Runners : runs'[s] = NoChart
    BY <2>1, <2>3 DEF Types, TypeOK, Runners
  <2>5. OneAtATime'
    BY <2>1, <2>3, <2>4 DEF OneAtATime
  <2>6. ForAsked'
    BY <2>4 DEF ForAsked, Runners
  <2>7. NamedIsAsked'
    BY <2>1, SelectedKept DEF Calm, NamedIsAsked
  <2> QED
    BY <2>2, <2>5, <2>6, <2>7 DEF Calm
<1>6. CASE ColumnArrives \/ SaveArrives
  <2>1. /\ column'.loading => column.loading
        /\ UNCHANGED <<page, nav, shown, asked, defaults, runs, picker, awaiting, drops>>
    BY <1>6, PartTypes DEF ColumnArrives, SaveArrives, ColumnT
  <2> QED
    BY <2>1, ColumnCalm
<1>7. ASSUME NEW r \in {"local", "oci"}, NEW oci, ShowFound(r, oci)
      PROVE  Calm'
  <2>1. /\ runs[r] \notin Files \union {NoChart}
        /\ nav' = [nav EXCEPT !.name = runs[r], !.local = TRUE, !.oci = oci]
        /\ shown' = [path |-> runs[r], name |-> runs[r]]
        /\ runs' = [runs EXCEPT ![r] = NoChart, !["defaults"] = runs[r]]
        /\ UNCHANGED <<asked, defaults, column, picker, awaiting, drops>>
    BY <1>7 DEF ShowFound, SelectsFound
  <2>2. runs[r] = asked
    BY <2>1 DEF Calm, ForAsked
  <2>3. runs[r] \in OciCharts \union LocalCharts
    BY <2>1, PartTypes DEF RunsOf, RunOf, Runners
  <2>4. Selected' = runs[r]
    BY <2>1, <2>3, PartTypes DEF Selected, NavT
  <2>5. shown' = [path |-> asked, name |-> asked] /\ Selected' = asked
    BY <2>1, <2>2, <2>4
  <2>6. r \in {"pull", "oci", "local"} /\ runs[r] # NoChart
    BY <2>1
  <2> QED
    BY <2>1, <2>5, <2>6, FoundCalm, Zenon
<1>8. ASSUME NEW r \in Runners, ChartFails(r)
      PROVE  Calm'
  <2>1. /\ r \in Runners \ {"uiState"} /\ runs' = [runs EXCEPT ![r] = NoChart]
        /\ UNCHANGED <<page, nav, shown, asked, defaults, column, picker, awaiting, drops>>
    BY <1>8 DEF ChartFails
  <2> QED
    BY <2>1, FewerRuns
<1>9. ASSUME NEW r \in Runners, Swallowed(r)
      PROVE  FALSE
  BY <1>9 DEF Swallowed
<1> QED
  BY <1>1, <1>2, <1>3, <1>4, <1>5, <1>6, <1>7, <1>8, <1>9
     DEF AnswerSteps, applyLocalChartResult, applyOCIChartResult

\* What a picker or a drop chooses comes to a program at rest.
LEMMA ChosenCalm ==
  ASSUME Types, Calm, ~Loading, picker' = "none", drops' = <<>>,
         (\E f \in Paths : Chosen(f)) \/ Ignored
  PROVE  Calm'
<1>1. ASSUME NEW f \in Paths, onOpenLocalChart(f)
      PROVE  Calm'
  <2>1. Opens(f)
    BY <1>1, LocalOpens DEF Paths
  <2> QED
    BY <2>1, OpenCalm
<1>2. CASE (\E f \in Paths : onValuesFileDropped(f) \/ SelectFile(f)) \/ Ignored
  <2>1. UNCHANGED <<page, nav, shown, asked, defaults, runs, awaiting>>
    BY <1>2 DEF onValuesFileDropped, SelectFile, Ignored
  <2> QED
    BY <2>1, LoadCalm
<1> QED
  BY <1>1, <1>2 DEF Chosen

\* In a calm session a picker is answered when nothing is under way.
LEMMA PickerAnswersCalm ==
  ASSUME Types, Calm, PickerAnswers
  PROVE  Calm'
<1>1. ~Loading /\ picker' = "none" /\ drops' = <<>>
  BY DEF PickerAnswers, Calm, OneAtATime
<1> QED
  BY <1>1, ChoiceSteps, ChosenCalm

\* In a calm session a drop is the only one, and nothing is under way.
LEMMA PollDropCalm ==
  ASSUME Types, Calm, PollDrop
  PROVE  Calm'
<1>1. drops # <<>> /\ drops' = Tail(drops) /\ picker' = picker
  BY DEF PollDrop
<1>2. ~Loading /\ Len(drops) = 1 /\ picker = "none"
  BY <1>1 DEF Calm, OneAtATime
<1>3. drops' = <<>>
  <2>1. drops' \in Seq(Paths) /\ Len(drops') = 0
    BY <1>1, <1>2, OverTypes, HeadTailProperties
  <2> QED
    BY <2>1, EmptySeq
<1> QED
  BY <1>1, <1>2, <1>3, ChoiceSteps, ChosenCalm

\* In a calm session the user acts on a page at rest.
LEMMA PageStepsCalm ==
  ASSUME Types, calm, Calm, PageSteps
  PROVE  Calm'
<1>1. CASE SaveSwallowed
  BY <1>1 DEF SaveSwallowed
<1>2. ASSUME Act
      PROVE  /\ ~Loading /\ ~column.loading /\ picker = "none" /\ drops = <<>>
             /\ \A r \in Runners : runs[r] = NoChart
  BY <1>2, ActsAtRest
<1>3. ASSUME NEW repo \in Repos, onSelectRepo(repo) PROVE Calm'
  <2>1. /\ page' = "charts" /\ Act
        /\ UNCHANGED <<shown, asked, defaults, column, runs, picker, awaiting, drops>>
    BY <1>3 DEF onSelectRepo, User
  <2>2. OneAtATime' /\ ForAsked'
    BY <1>2, <2>1 DEF OneAtATime, ForAsked, Runners
  <2> QED
    BY <2>1, <2>2 DEF Calm, NamedIsAsked
<1>4. ASSUME NEW name \in Names, onSelectChart(name) PROVE Calm'
  <2>1. /\ runs' = [runs EXCEPT !["versions"] = [repo |-> nav.repo, name |-> name]] /\ Act
        /\ UNCHANGED <<page, nav, shown, asked, defaults, column, picker, awaiting, drops>>
    BY <1>4 DEF onSelectChart, User
  <2>2. \A s \in Runners \ {"versions"} : runs'[s] = NoChart
    BY <1>2, <2>1 DEF Types, TypeOK
  <2>3. OneAtATime'
    BY <1>2, <2>1, <2>2 DEF OneAtATime
  <2>4. ForAsked'
    BY <2>2 DEF ForAsked, Runners
  <2>5. NamedIsAsked' /\ (awaiting' => runs'["uiState"] = shown'.path)
    BY <1>2, <2>1, <2>2, SelectedKept DEF Calm, NamedIsAsked, Runners
  <2> QED
    BY <2>3, <2>4, <2>5 DEF Calm
<1>5. CASE Edit \/ Save
  <2>1. Act /\ (column'.loading => column.loading)
        /\ UNCHANGED <<page, nav, shown, asked, defaults, runs, picker, awaiting, drops>>
    BY <1>5, PartTypes DEF Edit, Save, User, ColumnT
  <2> QED
    BY <2>1, ColumnCalm
<1>6. ASSUME NEW kind \in {"chart", "values", "column"}, OpenPicker(kind) PROVE Calm'
  <2>1. Act /\ UNCHANGED <<page, nav, shown, asked, defaults, column, runs, awaiting, drops>>
    BY <1>6 DEF OpenPicker, User
  <2>2. OneAtATime'
    BY <1>2, <2>1 DEF OneAtATime, Loading
  <2> QED
    BY <2>1, <2>2, SelectedKept DEF Calm, ForAsked, NamedIsAsked
<1>7. ASSUME NEW x \in Paths, Drop(x) PROVE Calm'
  <2>1. /\ Act /\ UNCHANGED <<page, nav, shown, asked, defaults, column, runs, picker, awaiting>>
        /\ drops' \in {Append(<<>>, x), <<>>}
    BY <1>2, <1>7 DEF Drop, sendDrop
  <2>2. drops' # <<>> => Len(drops') = 1
    BY <2>1
  <2>3. OneAtATime'
    BY <1>2, <2>1, <2>2 DEF OneAtATime, Loading
  <2> QED
    BY <2>1, <2>3, SelectedKept DEF Calm, ForAsked, NamedIsAsked
<1> QED
  BY <1>1, <1>3, <1>4, <1>5, <1>6, <1>7 DEF PageSteps

\* Steps that leave the charts alone.
LEMMA SameCalm ==
  ASSUME Calm, UNCHANGED calmVars
  PROVE  Calm'
BY SelectedKept DEF Calm, OneAtATime, Loading, ForAsked, NamedIsAsked, calmVars

\* In a calm session a page at rest is left.
LEMMA LeavingCalm ==
  ASSUME Types, calm, Calm, ConfirmUnsaved \/ \E action \in Dialogs : AskToLeave(action)
  PROVE  Calm'
<1>1. Act /\ UNCHANGED <<asked, shown, defaults, column, picker, drops, awaiting>>
  BY DEF ConfirmUnsaved, AskToLeave, User
<1>2. ~Busy
  BY <1>1, ActsAtRest
<1>3. CASE Leaves
  BY <1>1, <1>2, <1>3, LeaveCalm DEF Calm
<1>4. CASE UNCHANGED <<page, nav, runs>>
  BY <1>1, <1>4, SameCalm DEF calmVars
<1> QED
  BY <1>3, <1>4, LeftByAction DEF ConfirmUnsaved, executePendingAction, AskToLeave

\* The window leaves the charts alone.
LEMMA WindowStepsCalm ==
  ASSUME Calm, WindowSteps
  PROVE  Calm'
<1>1. UNCHANGED calmVars
  BY DEF WindowSteps, DismissUnsaved, PollExternalEvents, CloseWindow, vars, calmVars
<1> QED
  BY <1>1, SameCalm

\* Every step of a calm session leaves it in order.
LEMMA StepCalm ==
  ASSUME Types, calm, Calm, [Next]_vars
  PROVE  Calm'
BY StepKinds, OpenStepsCalm, AnswerStepsCalm, PickerAnswersCalm, PollDropCalm, PageStepsCalm,
   LeavingCalm, WindowStepsCalm

\* A session stays of its kind.
LEMMA CalmKept ==
  ASSUME [Next]_vars
  PROVE  calm' = calm
<1>1. CASE OpenSteps
  BY <1>1 DEF OpenSteps, onSelectRecentChart, onDirectLinkSubmit, onSelectRecentValuesEntry,
     SelectVersion
<1>2. CASE AnswerSteps
  BY <1>2 DEF AnswerSteps, VersionsArrive, PullReadsRepo, PullArrives, DefaultsArrive,
     UIStateArrives, ColumnArrives, SaveArrives, applyLocalChartResult, applyOCIChartResult,
     ShowFound, ChartFails, Swallowed
<1>3. CASE PickerAnswers \/ PollDrop
  BY <1>3 DEF PickerAnswers, PollDrop
<1>4. CASE PageSteps
  BY <1>4 DEF PageSteps, onSelectRepo, onSelectChart, Edit, Save, SaveSwallowed, OpenPicker, Drop
<1>5. CASE ConfirmUnsaved \/ \E action \in Dialogs : AskToLeave(action)
  BY <1>5 DEF ConfirmUnsaved, AskToLeave
<1>6. CASE WindowSteps
  BY <1>6 DEF WindowSteps, DismissUnsaved, PollExternalEvents, CloseWindow, vars
<1> QED
  BY <1>1, <1>2, <1>3, <1>4, <1>5, <1>6, StepKinds

-----------------------------------------------------------------------------
(* The guard.                                                              *)

\* A step that brings no new edits, keeps the guard and does not reopen or end
\* the window.
LEMMA StillWatched ==
  ASSUME Watched, column'.edited => column.edited,
         UNCHANGED <<guarded, seen, window>>
  PROVE  Watched'
BY DEF Watched

\* Edits that a frame has begun with stay guarded until a close is confirmed.
LEMMA StepWatched ==
  ASSUME Types, Watched, [Next]_vars
  PROVE  Watched'
<1>1. ASSUME NEW c, Opens(c) PROVE ~column'.edited
  BY <1>1 DEF Opens, ResetAndRun
<1>2. CASE OpenSteps
  <2>1. ~column'.edited /\ UNCHANGED <<guarded, seen, window>>
    BY <1>1, <1>2, OpenStepsEffect
  <2> QED
    BY <2>1, StillWatched
<1>3. CASE AnswerSteps
  <2>1. UNCHANGED <<guarded, seen, window>>
    BY <1>3 DEF AnswerSteps, VersionsArrive, PullReadsRepo, PullArrives, DefaultsArrive,
       UIStateArrives, ColumnArrives, SaveArrives, applyLocalChartResult, applyOCIChartResult,
       ShowFound, ChartFails, Swallowed
  <2>2. CASE ColumnArrives \/ SaveArrives \/ DefaultsArrive
    <3>1. column'.edited => column.edited
      BY <2>2, PartTypes DEF ColumnArrives, SaveArrives, DefaultsArrive, ColumnT
    <3> QED
      BY <2>1, <3>1, StillWatched
  <2>3. CASE UNCHANGED column
    BY <2>1, <2>3, StillWatched
  <2> QED
    BY <1>3, <2>2, <2>3 DEF AnswerSteps, VersionsArrive, PullReadsRepo, PullArrives,
       UIStateArrives, applyLocalChartResult, applyOCIChartResult, ShowFound, ChartFails, Swallowed
<1>4. CASE PickerAnswers \/ PollDrop
  <2>1. /\ (\E f \in Paths : Chosen(f)) \/ Ignored
        /\ UNCHANGED <<guarded, seen, window>>
    BY <1>4, ChoiceSteps
  <2>2. ASSUME NEW f \in Paths, onOpenLocalChart(f) PROVE ~column'.edited
    BY <1>1, <2>2, LocalOpens DEF Paths
  <2>3. ASSUME NEW f \in Paths, SelectFile(f) PROVE column'.edited = column.edited
    BY <2>3, PartTypes DEF SelectFile, ColumnT
  <2>4. column'.edited => column.edited
    BY <2>1, <2>2, <2>3 DEF Chosen, onValuesFileDropped, Ignored
  <2> QED
    BY <2>1, <2>4, StillWatched
<1>5. CASE PageSteps
  <2>1. CASE Edit
    <3>1. /\ seen' = (seen /\ column.edited) /\ UNCHANGED <<guarded, window>>
      BY <2>1 DEF Edit
    <3> QED
      BY <3>1 DEF Watched
  <2>2. CASE UNCHANGED <<column, guarded, seen, window>>
    BY <2>2, StillWatched
  <2> QED
    BY <1>5, <2>1, <2>2 DEF PageSteps, onSelectRepo, onSelectChart, Save, SaveSwallowed, OpenPicker, Drop
<1>6. CASE \E action \in Dialogs : AskToLeave(action)
  BY <1>6, StillWatched DEF AskToLeave
<1>7. CASE ConfirmUnsaved
  BY <1>7 DEF ConfirmUnsaved, executePendingAction, Watched
<1>8. CASE WindowSteps
  <2>1. CASE DismissUnsaved
    BY <2>1, StillWatched DEF DismissUnsaved
  <2>2. CASE PollExternalEvents
    BY <2>2 DEF PollExternalEvents, Watched, Guards
  <2>3. CASE CloseWindow
    BY <2>3 DEF CloseWindow, Watched
  <2>4. CASE UNCHANGED vars
    BY <2>4, StillWatched DEF vars
  <2> QED
    BY <1>8, <2>1, <2>2, <2>3, <2>4 DEF WindowSteps
<1> QED
  BY <1>2, <1>3, <1>4, <1>5, <1>6, <1>7, <1>8, StepKinds

-----------------------------------------------------------------------------
(* The theorems.                                                           *)

\* ui/app.go and what it drives keep the types, in a calm session what is
\* under way and what is shown are of the chart asked for last, and in any
\* session edits are guarded from the next frame on.
THEOREM NavigationInvariant == Spec => []IInv
<1>1. Init => IInv
  BY InitInv
<1>2. IInv /\ [Next]_vars => IInv'
  BY StepTypes, StepCalm, CalmKept, StepWatched DEF IInv
<1> QED
  BY <1>1, <1>2, PTL DEF Spec

\* The variables keep their types: the guard is set only where the platform
\* can intercept a close, and the channel of drops never holds more than it can.
THEOREM TypeCorrect == Spec => []TypeOK
<1>1. IInv => TypeOK
  BY DEF IInv, Types
<1> QED
  BY <1>1, NavigationInvariant, PTL

\* In a calm session the values page that has its chart shows the chart asked
\* for last, whatever was pulled, read, dropped, picked and left before.
THEOREM Shown == Spec => []ShownIsAsked
<1>1. IInv => ShownIsAsked
  BY DEF IInv, Calm, NamedIsAsked, ShownIsAsked
<1> QED
  BY <1>1, NavigationInvariant, PTL

\* In a calm session AwaitingFocusRestore is set only while the UI state of
\* the chart shown is on its way.
THEOREM FocusEnds == Spec => []FocusWaitEnds
<1>1. IInv => FocusWaitEnds
  BY DEF IInv, Calm, FocusWaitEnds
<1> QED
  BY <1>1, NavigationInvariant, PTL

\* Only the arrival of default values records a values file.
LEMMA RecordedByDefaults ==
  ASSUME [Next]_vars, recent' # recent
  PROVE  DefaultsArrive
<1>1. ~OpenSteps
  BY DEF OpenSteps, onSelectRecentChart, onDirectLinkSubmit, onSelectRecentValuesEntry, SelectVersion
<1>2. AnswerSteps => DefaultsArrive
  BY DEF AnswerSteps, VersionsArrive, PullReadsRepo, PullArrives, UIStateArrives, ColumnArrives,
     SaveArrives, applyLocalChartResult, applyOCIChartResult, ShowFound, ChartFails, Swallowed
<1>3. ~PickerAnswers /\ ~PollDrop
  BY DEF PickerAnswers, PollDrop
<1>4. ~PageSteps
  BY DEF PageSteps, onSelectRepo, onSelectChart, Edit, Save, SaveSwallowed, OpenPicker, Drop
<1>5. ~ConfirmUnsaved /\ ~\E action \in Dialogs : AskToLeave(action)
  BY DEF ConfirmUnsaved, AskToLeave
<1>6. ~WindowSteps
  BY DEF WindowSteps, DismissUnsaved, PollExternalEvents, CloseWindow, vars
<1> QED
  BY <1>1, <1>2, <1>3, <1>4, <1>5, <1>6, StepKinds

\* In a calm session onPendingValuesConsumed records a values file with the
\* chart whose default values have just arrived.
THEOREM Paired == Spec => PairedWithShown
<1>1. ASSUME IInv, [Next]_vars, calm, recent' # recent
      PROVE  recent'.chart = defaults'
  <2>1. DefaultsArrive
    BY <1>1, RecordedByDefaults
  <2>2. /\ runs["defaults"] # NoChart /\ defaults' = runs["defaults"]
        /\ recent' = onPendingValuesConsumed
    BY <1>1, <2>1 DEF DefaultsArrive
  <2>3. runs["defaults"] = asked /\ Selected = asked
    BY <1>1, <2>2 DEF IInv, Calm, ForAsked
  <2> QED
    BY <2>2, <2>3 DEF onPendingValuesConsumed
<1>2. IInv /\ [Next]_vars => [calm /\ recent' # recent => recent'.chart = defaults']_vars
  BY <1>1
<1> QED
  BY <1>2, NavigationInvariant, PTL DEF Spec, PairedWithShown

\* What may be made of edits in a step.
Accounted ==
  \/ dialog # "none" /\ dialog' = "none"
  \/ window = "closing"
  \/ page' = page /\ shown' = shown /\ (save'.running # save.running
                                        \/ column'.loading # column.loading)

\* A step that ends a page with unsaved edits, or the window with them.
LEMMA LostByStep ==
  ASSUME Types, Watched, [Next]_vars, GuardWorks, seen, Unsaved, window # "closed",
         picker # "chart", ~Unsaved' \/ window' = "closed"
  PROVE  Accounted
<1>1. page = "values" /\ column.edited
  BY DEF Unsaved
<1>2. CASE OpenSteps
  BY <1>1, <1>2, OpenStepsEffect
<1>3. CASE AnswerSteps
  <2>1. window' = window
    BY <1>3 DEF AnswerSteps, VersionsArrive, PullReadsRepo, PullArrives, DefaultsArrive,
       UIStateArrives, ColumnArrives, SaveArrives, applyLocalChartResult, applyOCIChartResult,
       ShowFound, ChartFails, Swallowed
  <2>2. CASE ColumnArrives
    BY <2>2, PartTypes DEF ColumnArrives, Accounted, ColumnT
  <2>3. CASE SaveArrives
    BY <2>3, PartTypes DEF SaveArrives, Accounted, SaveT
  <2>4. CASE DefaultsArrive
    <3>1. page' = page /\ column'.edited = column.edited
      BY <2>4, PartTypes DEF DefaultsArrive, ColumnT
    <3> QED
      BY <1>1, <2>1, <3>1 DEF Unsaved
  <2>5. CASE UNCHANGED column /\ page' \in {page, "values"}
    BY <1>1, <2>1, <2>5 DEF Unsaved
  <2> QED
    BY <1>3, <2>2, <2>3, <2>4, <2>5 DEF AnswerSteps, VersionsArrive, PullReadsRepo, PullArrives,
       UIStateArrives, applyLocalChartResult, applyOCIChartResult, ShowFound, ChartFails, Swallowed
<1>4. CASE PickerAnswers \/ PollDrop
  <2>1. window' = window
    BY <1>4, ChoiceSteps
  <2>2. \/ \E f \in Paths : onValuesFileDropped(f) \/ SelectFile(f)
        \/ Ignored
    <3>1. CASE PickerAnswers
      BY <3>1 DEF PickerAnswers, Paths
    <3>2. CASE PollDrop
      <4>1. Head(drops) \in Paths
        BY <3>2, OverTypes, HeadTailProperties DEF PollDrop
      <4> QED
        BY <1>1, <3>2, <4>1 DEF PollDrop
    <3> QED
      BY <1>4, <3>1, <3>2
  <2>3. page' = page /\ column'.edited = column.edited
    BY <2>2, PartTypes DEF onValuesFileDropped, SelectFile, Ignored, ColumnT
  <2> QED
    BY <1>1, <2>1, <2>3 DEF Unsaved
<1>5. CASE PageSteps
  <2>1. window' = window /\ page' = page /\ (column' = column \/ column'.edited)
    BY <1>1, <1>5, PartTypes DEF PageSteps, onSelectRepo, onSelectChart, Edit, Save, SaveSwallowed,
       OpenPicker, Drop, ColumnT
  <2> QED
    BY <1>1, <2>1 DEF Unsaved
<1>6. CASE \E action \in Dialogs : AskToLeave(action)
  BY <1>1, <1>6 DEF AskToLeave, guardUnsaved, Unsaved
<1>7. CASE ConfirmUnsaved
  BY <1>7 DEF ConfirmUnsaved, Accounted
<1>8. CASE WindowSteps
  <2>1. UNCHANGED <<page, column>>
    BY <1>8 DEF WindowSteps, DismissUnsaved, PollExternalEvents, CloseWindow, vars
  <2>2. window' = "closed"
    BY <1>1, <2>1 DEF Unsaved
  <2>3. ~guarded
    BY <1>8, <2>2 DEF WindowSteps, DismissUnsaved, PollExternalEvents, CloseWindow, vars
  <2> QED
    BY <1>1, <2>3 DEF Watched, Accounted
<1> QED
  BY <1>2, <1>3, <1>4, <1>5, <1>6, <1>7, <1>8, StepKinds

\* Where the platform can intercept a close, edits that a frame has begun with
\* go, in any session, only by the dialog of guardUnsaved, by a close confirmed
\* in it, by a save of them or by a file chosen in their place.
THEOREM Confirmed == Spec => UnsavedGoOnlyConfirmed
<1>1. IInv /\ [Next]_vars =>
        [GuardWorks /\ seen /\ Unsaved /\ window # "closed" /\ picker # "chart"
           /\ (~Unsaved' \/ window' = "closed") => Accounted]_vars
  BY LostByStep DEF IInv
<1> QED
  BY <1>1, NavigationInvariant, PTL DEF Spec, UnsavedGoOnlyConfirmed, Accounted
=============================================================================
