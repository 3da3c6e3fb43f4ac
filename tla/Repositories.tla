---------------------------- MODULE Repositories ----------------------------
(***************************************************************************)
(* Helm repositories and their charts: service/repo_service.go and         *)
(* service/chart_service.go, with the goroutines ui/app.go runs them in.   *)
(*                                                                         *)
(* RepoService reads, changes and writes repositories.yaml under its       *)
(* mutex, and downloads index files while it holds it.  ChartService reads *)
(* the same file and the index files without that mutex, keeps what it     *)
(* read of an index in memory, and unpacks pulled charts in a directory    *)
(* named after the chart.                                                  *)
(*                                                                         *)
(* Every repository publishes the one chart the model has; revision r of   *)
(* a repository holds its versions 1..r.  An index is the revision it was  *)
(* downloaded at, an unpacked chart the repository and version it is of.   *)
(*                                                                         *)
(* calm says what kind of session this is: in a calm one the user waits    *)
(* for the program, gives a repository a name no repository had before     *)
(* when he renames it, the program does not die, and repositories.yaml can *)
(* be read.                                                                *)
(***************************************************************************)
EXTENDS Naturals, FiniteSets

CONSTANTS
  Names, Urls,   \* names of repositories, and where they are
  NoUrl, None,
  MaxRev,        \* bound on the revisions of a repository
  MaxTasks,      \* bound on the goroutines at work
  MaxActs        \* bound on what the user does

ASSUME RepositoriesAssumption ==
  /\ NoUrl \notin Urls /\ None \notin [url : Urls, rev : Nat]
  /\ None \notin [url : Urls, version : Nat] /\ None \notin Urls
  /\ MaxRev \in Nat \ {0} /\ MaxTasks \in Nat /\ MaxActs \in Nat

VARIABLES
  calm,      \* the kind of session
  server,    \* the revision each repository is at
  config,    \* repositories.yaml: the URL of each name, or NoUrl
  torn,      \* repositories.yaml has been truncated and not yet written
  index,     \* the index files, by name
  cache,     \* chartCache
  ops,       \* the repository actions at work
  lists,     \* the ListCharts at work
  repos,     \* repoState.Repos
  pulls,     \* the PullChart at work, and the page waiting to read the chart
  dir,       \* what the chart's directory holds
  opened,    \* the chart on the values page: the version asked for, what was read
  acts

vars == <<calm, server, config, torn, index, cache, ops, lists, repos, pulls, dir, opened, acts>>

Index == [url : Urls, rev : 1..MaxRev]
Chart == [url : Urls, version : 1..MaxRev]
Configs == [Names -> Urls \union {NoUrl}]

Op == [kind : {"add", "remove", "rename", "update", "list"},
       name : Names, new : Names, url : Urls \union {NoUrl},
       pc : {"waiting", "locked", "downloaded", "writing", "listing"},
       file : Configs,
       read : BOOLEAN,         \* the file could be read
       latest : BOOLEAN]       \* no later dispatch has superseded it

Holding(o) == o.pc \in {"locked", "downloaded", "writing"}

TypeOK ==
  /\ calm \in BOOLEAN /\ server \in [Urls -> 1..MaxRev]
  /\ config \in Configs /\ torn \in BOOLEAN
  /\ index \in [Names -> Index \union {None}] /\ cache \in [Names -> Index \union {None}]
  /\ ops \subseteq Op /\ \A o, p \in ops : Holding(o) /\ Holding(p) => o = p
  /\ torn => \E o \in ops : o.pc = "writing"
  /\ lists \subseteq [name : Names, got : Index \union {None}, rest : SUBSET Names, live : BOOLEAN]
  /\ repos \subseteq Names
  /\ pulls \subseteq [url : Urls, version : 1..MaxRev, pc : {"pulling", "read"}, open : BOOLEAN]
  /\ dir \in Chart \union {None}
  /\ opened = None \/ opened \in [version : 1..MaxRev, read : Chart \union {None}]
  /\ acts \in 0..MaxActs

Idle == ops = {} /\ lists = {} /\ pulls = {}

User == acts < MaxActs /\ acts' = acts + 1 /\ (calm => Idle)

Configured == {n \in Names : config[n] # NoUrl}

\* The configuration helm or an earlier session left, with some indexes.
Init ==
  /\ calm \in BOOLEAN
  /\ server = [u \in Urls |-> 1]
  /\ config \in Configs /\ torn = FALSE
  /\ \E had \in SUBSET Configured :
       index = [n \in Names |-> IF n \in had THEN [url |-> config[n], rev |-> 1] ELSE None]
  /\ cache = [n \in Names |-> None]
  /\ ops = {} /\ lists = {} /\ pulls = {}
  /\ repos = Configured
  /\ dir = None /\ opened = None /\ acts = 0

-----------------------------------------------------------------------------
(* RepoService.                                                            *)

Superseded == {[o EXCEPT !.latest = FALSE] : o \in ops}

\* runRepoAction
Dispatch(kind, name, new, url) ==
  LET op == [kind |-> kind, name |-> name, new |-> new, url |-> url,
             pc |-> IF kind = "list" THEN "listing" ELSE "waiting",
             file |-> [n \in Names |-> NoUrl], read |-> TRUE, latest |-> TRUE]
  IN  Cardinality(ops) < MaxTasks /\ ops' = Superseded \union {op}

\* Mutant: the listing of an updated repository is kept.
KeepsListing(n) == cache' = cache
InvalidateChartCache(n) == cache' = [cache EXCEPT ![n] = None]

onAddRepo(n, u) ==
  /\ User
  /\ Dispatch("add", n, n, u)
  /\ UNCHANGED <<calm, server, config, torn, index, cache, lists, repos, pulls, dir, opened>>

onRemoveRepo(n) ==
  /\ User /\ n \in repos
  /\ InvalidateChartCache(n)
  /\ Dispatch("remove", n, n, NoUrl)
  /\ UNCHANGED <<calm, server, config, torn, index, lists, repos, pulls, dir, opened>>

\* Only the old name's listing is dropped.
onRenameRepo(n, m) ==
  /\ User /\ n \in repos /\ (calm => index[m] = None)
  /\ InvalidateChartCache(n)
  /\ Dispatch("rename", n, m, NoUrl)
  /\ UNCHANGED <<calm, server, config, torn, index, lists, repos, pulls, dir, opened>>

\* The listing is dropped before the new index is there.
onUpdateRepo(n) ==
  /\ User /\ n \in repos
  /\ InvalidateChartCache(n)
  /\ Dispatch("update", n, n, NoUrl)
  /\ UNCHANGED <<calm, server, config, torn, index, lists, repos, pulls, dir, opened>>

loadRepos ==
  /\ User
  /\ \E n \in Names : Dispatch("list", n, n, NoUrl)
  /\ UNCHANGED <<calm, server, config, torn, index, cache, lists, repos, pulls, dir, opened>>

Has(file, n) == file[n] # NoUrl

Refused(o, file) ==
  CASE o.kind = "add" -> Has(file, o.name)
    [] o.kind = "rename" -> ~Has(file, o.name) \/ Has(file, o.new)
    [] OTHER -> ~Has(file, o.name)

\* Mutant: the mutex is not held while an index is downloaded.
NotWriting == \A o \in ops : o.pc # "writing"
\* The mutex of RepoService is free.
Unlocked == \A o \in ops : ~Holding(o)

Moved(o, p) == ops' = (ops \ {o}) \union {p}

\* A superseded action that has not begun sees its context cancelled; an
\* action that fails is gone.
Cancelled(o) ==
  /\ o.pc = "waiting" /\ ~o.latest
  /\ ops' = ops \ {o}
  /\ UNCHANGED <<calm, server, config, torn, index, cache, lists, repos, pulls, dir, opened, acts>>

\* The lock is taken and the file read.
LoadFile(o) ==
  /\ o.pc = "waiting" /\ Unlocked
  /\ IF Refused(o, config) THEN ops' = ops \ {o}
     ELSE Moved(o, [o EXCEPT !.file = config,
                    !.pc = IF o.kind \in {"add", "update"} THEN "locked" ELSE "downloaded"])
  /\ UNCHANGED <<calm, server, config, torn, index, cache, lists, repos, pulls, dir, opened, acts>>

\* repositories.yaml cannot be read: AddRepo goes on with repo.NewFile(), the
\* others, and the listing after them, return the error.
MisreadFile(o) ==
  /\ ~calm /\ o.pc \in {"waiting", "listing"} /\ Unlocked
  /\ IF o.kind = "add" /\ o.pc = "waiting"
     THEN Moved(o, [o EXCEPT !.read = FALSE, !.pc = "locked"])
     ELSE ops' = ops \ {o}
  /\ UNCHANGED <<calm, server, config, torn, index, cache, lists, repos, pulls, dir, opened, acts>>

DownloadIndexFile(o) ==
  /\ o.pc = "locked"
  /\ LET u == IF o.kind = "add" THEN o.url ELSE o.file[o.name]
     IN  index' = [index EXCEPT ![o.name] = [url |-> u, rev |-> server[u]]]
  /\ Moved(o, [o EXCEPT !.pc = IF o.kind = "add" THEN "downloaded" ELSE "listing"])
  /\ UNCHANGED <<calm, server, config, torn, cache, lists, repos, pulls, dir, opened, acts>>

Fails(o) ==
  /\ o.pc \in {"locked", "downloaded"}
  /\ ops' = ops \ {o}
  /\ UNCHANGED <<calm, server, config, torn, index, cache, lists, repos, pulls, dir, opened, acts>>

\* What the action makes of the file it read.
Changed(o) ==
  CASE o.kind = "add" -> [o.file EXCEPT ![o.name] = o.url]
    [] o.kind = "remove" -> [o.file EXCEPT ![o.name] = NoUrl]
    [] OTHER -> [o.file EXCEPT ![o.name] = NoUrl, ![o.new] = o.file[o.name]]

\* os.WriteFile truncates, then writes.
BeginWrite(o) ==
  /\ o.pc = "downloaded"
  /\ torn' = TRUE
  /\ Moved(o, [o EXCEPT !.pc = "writing"])
  /\ UNCHANGED <<calm, server, config, index, cache, lists, repos, pulls, dir, opened, acts>>

EndWrite(o) ==
  /\ o.pc = "writing"
  /\ config' = Changed(o)
  /\ torn' = FALSE
  /\ Moved(o, [o EXCEPT !.pc = "listing"])
  /\ UNCHANGED <<calm, server, index, cache, lists, repos, pulls, dir, opened, acts>>

\* preloadCharts: the preload before it stops after the repository it is at.
Preload(names) ==
  LET stopped == {[l EXCEPT !.live = FALSE] : l \in lists}
      started == {[name |-> n, got |-> None, rest |-> names \ {n}, live |-> TRUE] : n \in names}
  IN  IF names = {} THEN lists' = stopped ELSE \E l \in started : lists' = stopped \union {l}

\* ListRepos after the action, in its goroutine; the answer is the newest
\* dispatch's.
ListRepos(o) ==
  /\ o.pc = "listing" /\ Unlocked
  /\ ops' = ops \ {o}
  /\ IF o.latest THEN repos' = Configured /\ Preload(Configured)
     ELSE UNCHANGED <<repos, lists>>
  /\ UNCHANGED <<calm, server, config, torn, index, cache, pulls, dir, opened, acts>>

-----------------------------------------------------------------------------
(* ChartService.ListCharts.                                                *)

\* onSelectRepo, resetToChartList
ListCharts(n) ==
  /\ User /\ n \in repos /\ cache[n] = None /\ Cardinality(lists) < MaxTasks
  /\ lists' = lists \union {[name |-> n, got |-> None, rest |-> {}, live |-> FALSE]}
  /\ UNCHANGED <<calm, server, config, torn, index, cache, ops, repos, pulls, dir, opened>>

\* The next repository of a preload, or the end.
Advanced(l) ==
  IF l.live /\ l.rest # {}
  THEN \E n \in l.rest :
         lists' = (lists \ {l}) \union {[l EXCEPT !.name = n, !.got = None, !.rest = l.rest \ {n}]}
  ELSE lists' = lists \ {l}

loadIndex(l) ==
  /\ l.got = None /\ cache[l.name] = None /\ index[l.name] # None
  /\ lists' = (lists \ {l}) \union {[l EXCEPT !.got = index[l.name]]}
  /\ UNCHANGED <<calm, server, config, torn, index, cache, ops, repos, pulls, dir, opened, acts>>

\* A missing index is downloaded, with the configuration found on disk.
downloadIndex(l) ==
  /\ l.got = None /\ cache[l.name] = None /\ index[l.name] = None
  /\ ~torn /\ Has(config, l.name)
  /\ LET u == config[l.name]
     IN  index' = [index EXCEPT ![l.name] = [url |-> u, rev |-> server[u]]]
  /\ UNCHANGED <<calm, server, config, torn, cache, ops, lists, repos, pulls, dir, opened, acts>>

\* Answered from memory, or failed.
Skip(l) ==
  /\ l.got = None /\ (cache[l.name] # None \/ index[l.name] = None)
  /\ Advanced(l)
  /\ UNCHANGED <<calm, server, config, torn, index, cache, ops, repos, pulls, dir, opened, acts>>

\* Whatever was invalidated since the index was read.
StoreCharts(l) ==
  /\ l.got # None
  /\ cache' = [cache EXCEPT ![l.name] = l.got]
  /\ Advanced(l)
  /\ UNCHANGED <<calm, server, config, torn, index, ops, repos, pulls, dir, opened, acts>>

-----------------------------------------------------------------------------
(* ChartService.PullChart, to open a version or to save it as an archive.  *)

\* Mutant: an unpacked chart is taken for any version.
AnyVersion(version) == dir # None
chartVersionMatches(version) == dir # None /\ dir.version = version

PullChart(n, version, open) ==
  /\ User /\ n \in repos /\ Cardinality(pulls) < MaxTasks
  /\ index[n] # None /\ version <= index[n].rev
  /\ Has(config, n) /\ ~torn
  /\ LET ready == chartVersionMatches(version)
         pull == [url |-> config[n], version |-> version, open |-> open,
                  pc |-> IF ready THEN "read" ELSE "pulling"]
     IN  /\ pulls' = pulls \union {pull}
         /\ dir' = IF ready THEN dir ELSE None
  /\ opened' = IF open THEN None ELSE opened
  /\ UNCHANGED <<calm, server, config, torn, index, cache, ops, lists, repos>>

Unpacked(p) ==
  /\ p.pc = "pulling"
  /\ dir' = [url |-> p.url, version |-> p.version]
  /\ pulls' = (pulls \ {p}) \union {[p EXCEPT !.pc = "read"]}
  /\ UNCHANGED <<calm, server, config, torn, index, cache, ops, lists, repos, opened, acts>>

PullFails(p) ==
  /\ p.pc = "pulling"
  /\ pulls' = pulls \ {p}
  /\ UNCHANGED <<calm, server, config, torn, index, cache, ops, lists, repos, dir, opened, acts>>

\* The values of an opened chart are read where it was unpacked; an archive
\* is made of what is there.
ReadChart(p) ==
  /\ p.pc = "read"
  /\ pulls' = pulls \ {p}
  /\ opened' = IF p.open THEN [version |-> p.version, read |-> dir] ELSE opened
  /\ UNCHANGED <<calm, server, config, torn, index, cache, ops, lists, repos, dir, acts>>

-----------------------------------------------------------------------------
(* The world.                                                              *)

Publish(u) ==
  /\ server[u] < MaxRev
  /\ server' = [server EXCEPT ![u] = @ + 1]
  /\ UNCHANGED <<calm, config, torn, index, cache, ops, lists, repos, pulls, dir, opened, acts>>

\* The program dies and is started again: a file it was writing is empty.
Restart ==
  /\ ~calm /\ ~Idle
  /\ config' = IF torn THEN [n \in Names |-> NoUrl] ELSE config
  /\ torn' = FALSE /\ ops' = {} /\ lists' = {} /\ pulls' = {}
  /\ cache' = [n \in Names |-> None]
  /\ repos' = {n \in Names : config'[n] # NoUrl}
  /\ opened' = None
  /\ UNCHANGED <<calm, server, index, dir, acts>>

Next ==
  \/ \E n \in Names :
       \/ onRemoveRepo(n) \/ onUpdateRepo(n) \/ ListCharts(n)
       \/ \E u \in Urls : onAddRepo(n, u)
       \/ \E m \in Names : onRenameRepo(n, m)
       \/ \E v \in 1..MaxRev, open \in BOOLEAN : PullChart(n, v, open)
  \/ loadRepos
  \/ \E o \in ops :
       \/ Cancelled(o) \/ LoadFile(o) \/ MisreadFile(o) \/ DownloadIndexFile(o)
       \/ Fails(o) \/ BeginWrite(o) \/ EndWrite(o) \/ ListRepos(o)
  \/ \E l \in lists : loadIndex(l) \/ downloadIndex(l) \/ Skip(l) \/ StoreCharts(l)
  \/ \E p \in pulls : Unpacked(p) \/ PullFails(p) \/ ReadChart(p)
  \/ \E u \in Urls : Publish(u)
  \/ Restart

Spec == Init /\ [][Next]_vars

-----------------------------------------------------------------------------
(* Properties.                                                             *)

\* While an action holds the mutex, what it read of repositories.yaml, if it
\* could, is what the file holds: nothing another action wrote is lost when it
\* writes.
NoLostUpdate == \A o \in ops : Holding(o) /\ o.read => o.file = config

\* Whatever an action adds, no repository is lost with it.  RepoService does
\* not keep this: AddRepo writes its entry alone over a file it could not read
\* (RepositoriesMisread.cfg).
AddKeepsTheRest == \A o \in ops : o.kind = "add" /\ Holding(o) => o.file = config

\* In a calm session a listing kept in memory is of the index on disk, and
\* the index is of the repository that has its name now.
ListingIsCurrent ==
  calm /\ Idle =>
    \A n \in Names : config[n] # NoUrl /\ cache[n] # None =>
      cache[n] = index[n] /\ index[n].url = config[n]

\* In a calm session the chart read is of the version that was asked for,
\* whatever an earlier pull, or an archive, left unpacked.
ReadIsAsked ==
  calm /\ opened # None => opened.read # None /\ opened.read.version = opened.version
=============================================================================
