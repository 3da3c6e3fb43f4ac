-------------------------- MODULE Repositories_proofs --------------------------
(***************************************************************************)
(* What holds of the repositories and the charts for any number of names,  *)
(* places, revisions and goroutines: RepoService loses no update, and in a *)
(* calm session what is listed and read is current.                        *)
(***************************************************************************)
EXTENDS Repositories, TLAPS

\* What an action has found out by the step it is at.
Begun(o) ==
  /\ o.kind = "add" => o.url \in Urls
  /\ o.pc = "waiting" => o.kind # "list" /\ \A n \in Names : o.file[n] = NoUrl
  /\ o.pc = "locked" => o.kind \in {"add", "update"}
  /\ o.pc \in {"downloaded", "writing"} => o.kind \in {"add", "remove", "rename"}
  /\ Holding(o) => ~Refused(o, o.file)

AllBegun == \A o \in ops : Begun(o)

\* In a calm session there is one action, which could read its file, or the
\* listings it leads to, or one pull.
OneAtATime ==
  /\ \A o, p \in ops : o = p
  /\ \A o \in ops : o.latest /\ o.read
  /\ ops # {} => lists = {}
  /\ \A p, q \in pulls : p = q

\* What is kept in memory is the index on disk, which is that of the place the
\* name stands for.
CacheOfIndex ==
  \A n \in Names :
    /\ cache[n] # None => config[n] # NoUrl /\ cache[n] = index[n]
    /\ config[n] # NoUrl /\ index[n] # None => index[n].url = config[n]

\* A listing at work is of configured names, and has read the index on disk.
ListsOfIndex ==
  \A l \in lists :
    /\ config[l.name] # NoUrl
    /\ \A n \in l.rest : config[n] # NoUrl
    /\ l.got # None => l.got = index[l.name]

\* An action has dropped the listing of what it changes, has found the new
\* name free, and knows the index it downloaded.
ActionsPrepared ==
  \A o \in ops :
    /\ o.kind \in {"remove", "rename", "update"} => cache[o.name] = None
    /\ o.kind = "rename" => index[o.new] = None
    /\ o.kind = "add" /\ o.pc \in {"downloaded", "writing"} =>
         index[o.name] # None /\ index[o.name].url = o.url

\* The names on screen are configured, but for the last step of an action.
ShownConfigured ==
  (\A o \in ops : o.pc # "listing") => \A n \in repos : config[n] # NoUrl

\* A chart that can be read is of the version asked for.
UnpackedIsAsked ==
  \A p \in pulls : p.pc = "read" => dir # None /\ dir.version = p.version

CalmInv ==
  calm => /\ OneAtATime /\ CacheOfIndex /\ ListsOfIndex /\ ActionsPrepared
          /\ ShownConfigured /\ UnpackedIsAsked

IInv == TypeOK /\ AllBegun /\ NoLostUpdate /\ CalmInv /\ ReadIsAsked

-----------------------------------------------------------------------------
(* What becomes of the actions at work.                                    *)

Kinds == {"add", "remove", "rename", "update", "list"}
Pcs == {"waiting", "locked", "downloaded", "writing", "listing"}

\* The same action, but for whether it is the newest.
Same(p, o) ==
  /\ p.kind = o.kind /\ p.name = o.name /\ p.new = o.new /\ p.url = o.url
  /\ p.pc = o.pc /\ p.file = o.file /\ p.read = o.read

\* An action that goes on keeps all but where it is.
LEMMA PcFacts ==
  ASSUME NEW o \in Op, NEW pc \in Pcs
  PROVE  /\ [o EXCEPT !.pc = pc] \in Op
         /\ [o EXCEPT !.pc = pc].pc = pc
         /\ [o EXCEPT !.pc = pc].kind = o.kind
         /\ [o EXCEPT !.pc = pc].name = o.name
         /\ [o EXCEPT !.pc = pc].new = o.new
         /\ [o EXCEPT !.pc = pc].url = o.url
         /\ [o EXCEPT !.pc = pc].file = o.file
         /\ [o EXCEPT !.pc = pc].read = o.read
         /\ [o EXCEPT !.pc = pc].latest = o.latest
BY DEF Op, Pcs

\* An action that is superseded is the same action.
LEMMA LatestFacts ==
  ASSUME NEW o \in Op
  PROVE  /\ [o EXCEPT !.latest = FALSE] \in Op
         /\ Same([o EXCEPT !.latest = FALSE], o)
BY DEF Op, Same

\* What runRepoAction starts.
LEMMA DispatchFacts ==
  ASSUME ops \subseteq Op, NEW kind \in Kinds, NEW name \in Names, NEW new \in Names,
         NEW url \in Urls \union {NoUrl}, Dispatch(kind, name, new, url)
  PROVE  \E op \in Op :
           /\ op.kind = kind /\ op.name = name /\ op.new = new /\ op.url = url
           /\ op.pc = (IF kind = "list" THEN "listing" ELSE "waiting") /\ op.latest
           /\ op.read /\ \A n \in Names : op.file[n] = NoUrl
           /\ ops' = Superseded \union {op}
<1> DEFINE op == [kind |-> kind, name |-> name, new |-> new, url |-> url,
                  pc |-> IF kind = "list" THEN "listing" ELSE "waiting",
                  file |-> [n \in Names |-> NoUrl], read |-> TRUE, latest |-> TRUE]
<1>1. [n \in Names |-> NoUrl] \in Configs
  BY DEF Configs
<1>2. op \in Op
  BY <1>1 DEF Op, Kinds
<1>3. ops' = Superseded \union {op}
  BY DEF Dispatch
<1> QED
  BY <1>2, <1>3

\* After a dispatch whoever holds the mutex is who held it.
LEMMA DispatchHolders ==
  ASSUME ops \subseteq Op, NEW op \in Op, ~Holding(op), ops' = Superseded \union {op}
  PROVE  /\ ops' \subseteq Op
         /\ \A p \in ops' : p = op \/ \E o \in ops : p = [o EXCEPT !.latest = FALSE] /\ Same(p, o)
         /\ \A o \in ops : \E p \in ops' : Same(p, o)
BY LatestFacts DEF Superseded

-----------------------------------------------------------------------------
(* Types, and the mutex.                                                   *)

\* The invariant holds at the start.
LEMMA InitInv == Init => IInv
<1> SUFFICES ASSUME Init PROVE IInv
  OBVIOUS
<1> USE RepositoriesAssumption DEF Init
<1>1. TypeOK
  <2>1. 1 \in 1..MaxRev
    OBVIOUS
  <2>2. server \in [Urls -> 1..MaxRev]
    BY <2>1
  <2>3. \A n \in Configured : config[n] \in Urls
    BY DEF Configured, Configs
  <2>4. index \in [Names -> Index \union {None}]
    BY <2>1, <2>3 DEF Index
  <2>5. cache \in [Names -> Index \union {None}] /\ repos \subseteq Names /\ acts \in 0..MaxActs
    BY DEF Configured
  <2>6. calm \in BOOLEAN /\ torn \in BOOLEAN
    BY Zenon
  <2>7. ops = {} /\ lists = {} /\ pulls = {} /\ ~torn
    OBVIOUS
  <2> QED
    BY <2>2, <2>4, <2>5, <2>6, <2>7 DEF TypeOK
<1>2. AllBegun /\ NoLostUpdate /\ ReadIsAsked
  BY DEF AllBegun, NoLostUpdate, ReadIsAsked
<1>3. CalmInv
  <2>1. OneAtATime /\ ListsOfIndex /\ ActionsPrepared /\ UnpackedIsAsked
    BY DEF OneAtATime, ListsOfIndex, ActionsPrepared, UnpackedIsAsked
  <2>2. CacheOfIndex
    <3> SUFFICES ASSUME NEW n \in Names
                 PROVE  /\ cache[n] = None
                        /\ config[n] # NoUrl /\ index[n] # None => index[n].url = config[n]
      BY DEF CacheOfIndex
    <3> QED
      OBVIOUS
  <2>3. ShownConfigured
    BY DEF ShownConfigured, Configured
  <2> QED
    BY <2>1, <2>2, <2>3 DEF CalmInv
<1> QED
  BY <1>1, <1>2, <1>3 DEF IInv

\* The parts of TypeOK that are not about the actions at work.
PlainTypes ==
  /\ calm \in BOOLEAN /\ server \in [Urls -> 1..MaxRev]
  /\ config \in Configs /\ torn \in BOOLEAN
  /\ index \in [Names -> Index \union {None}] /\ cache \in [Names -> Index \union {None}]
  /\ lists \subseteq [name : Names, got : Index \union {None}, rest : SUBSET Names, live : BOOLEAN]
  /\ repos \subseteq Names
  /\ pulls \subseteq [url : Urls, version : 1..MaxRev, pc : {"pulling", "read"}, open : BOOLEAN]
  /\ dir \in Chart \union {None}
  /\ opened = None \/ opened \in [version : 1..MaxRev, read : Chart \union {None}]
  /\ acts \in 0..MaxActs

\* The parts that are: at most one action holds the mutex, and a file that is
\* being written has its writer.
OpsTypes ==
  /\ ops \subseteq Op
  /\ \A o, p \in ops : Holding(o) /\ Holding(p) => o = p
  /\ torn => \E o \in ops : o.pc = "writing"

\* Actions that are dispatched change neither.
LEMMA DispatchOpsTypes ==
  ASSUME OpsTypes, NEW op \in Op, op.pc \in {"waiting", "listing"},
         ops' = Superseded \union {op}, torn' = torn
  PROVE  OpsTypes'
<1>1. ~Holding(op)
  BY DEF Holding
<1>2. /\ ops' \subseteq Op
      /\ \A p \in ops' : p = op \/ \E o \in ops : p = [o EXCEPT !.latest = FALSE] /\ Same(p, o)
      /\ \A o \in ops : \E p \in ops' : Same(p, o)
  BY <1>1, DispatchHolders DEF OpsTypes
<1>3. ASSUME NEW p \in ops', NEW q \in ops', Holding(p), Holding(q) PROVE p = q
  <2>1. PICK o \in ops : p = [o EXCEPT !.latest = FALSE] /\ Same(p, o)
    BY <1>1, <1>2, <1>3
  <2>2. PICK r \in ops : q = [r EXCEPT !.latest = FALSE] /\ Same(q, r)
    BY <1>1, <1>2, <1>3
  <2>3. Holding(o) /\ Holding(r)
    BY <1>3, <2>1, <2>2 DEF Holding, Same
  <2>4. o = r
    BY <2>3 DEF OpsTypes
  <2> QED
    BY <2>1, <2>2, <2>4
<1>4. torn' => \E p \in ops' : p.pc = "writing"
  BY <1>2 DEF OpsTypes, Same
<1> QED
  BY <1>2, <1>3, <1>4, Zenon DEF OpsTypes, Holding

\* An action that is no writer goes, or goes on.
LEMMA GoneOpsTypes ==
  ASSUME OpsTypes, NEW o \in ops, o.pc # "writing", ops' = ops \ {o}, torn' = torn
  PROVE  OpsTypes'
BY DEF OpsTypes, Holding

\* Likewise when it goes on: it takes the mutex only while that is free.
LEMMA MovedOpsTypes ==
  ASSUME OpsTypes, NEW o \in ops, NEW p \in Op, ops' = (ops \ {o}) \union {p},
         Holding(p) => Holding(o) \/ Unlocked, torn' <=> p.pc = "writing"
  PROVE  OpsTypes'
BY DEF OpsTypes, Holding, Unlocked

\* Nobody writes while the mutex is free, or somebody else has it.
LEMMA WriterHolds ==
  ASSUME OpsTypes
  PROVE  /\ Unlocked => ~torn
         /\ \A o \in ops : Holding(o) /\ o.pc # "writing" => ~torn
BY DEF OpsTypes, Unlocked, Holding

\* The actions that touch no action at work.
OtherSteps ==
  \/ \E n \in Names : ListCharts(n) \/ \E v \in 1..MaxRev, open \in BOOLEAN : PullChart(n, v, open)
  \/ \E l \in lists : loadIndex(l) \/ downloadIndex(l) \/ Skip(l) \/ StoreCharts(l)
  \/ \E p \in pulls : Unpacked(p) \/ PullFails(p) \/ ReadChart(p)
  \/ \E u \in Urls : Publish(u)
  \/ UNCHANGED vars

\* They leave the mutex and repositories.yaml alone.
LEMMA OtherFrame ==
  ASSUME OtherSteps
  PROVE  /\ ops' = ops /\ torn' = torn /\ config' = config /\ repos' = repos /\ calm' = calm
BY Zenon DEF OtherSteps, ListCharts, PullChart, loadIndex, downloadIndex, Skip, StoreCharts,
   Unpacked, PullFails, ReadChart, Publish, vars

\* The dispatches.
Dispatches ==
  \/ \E n \in Names : \/ onRemoveRepo(n) \/ onUpdateRepo(n)
                      \/ \E u \in Urls : onAddRepo(n, u)
                      \/ \E m \in Names : onRenameRepo(n, m)
  \/ loadRepos

\* What a dispatch leaves: the action it starts, and the listing it drops.
DispatchEffect(op) ==
  /\ op.pc \in {"waiting", "listing"} /\ op.latest /\ op.read
  /\ \A n \in Names : op.file[n] = NoUrl
  /\ op.pc = "waiting" => op.kind # "list"
  /\ op.kind = "add" => op.url \in Urls
  /\ ops' = Superseded \union {op}
  /\ \/ op.kind \in {"add", "list"} /\ cache' = cache
     \/ op.kind \in {"remove", "update", "rename"} /\ cache' = [cache EXCEPT ![op.name] = None]
  /\ op.kind = "rename" /\ calm => index[op.new] = None
  /\ op.kind = "add" => op.pc = "waiting"
  /\ acts < MaxActs /\ acts' = acts + 1 /\ (calm => Idle)
  /\ UNCHANGED <<calm, server, config, torn, index, lists, repos, pulls, dir, opened>>

\* Every dispatch has that effect.
LEMMA DispatchesEffect ==
  ASSUME OpsTypes, Dispatches
  PROVE  \E op \in Op : DispatchEffect(op)
<1> DEFINE Goal == \E op \in Op : DispatchEffect(op)
<1>1. ASSUME NEW n \in Names, onRemoveRepo(n)
      PROVE  Goal
  <2>1. PICK op \in Op :
          /\ op.kind = "remove" /\ op.name = n /\ op.new = n /\ op.url = NoUrl
          /\ op.pc = "waiting" /\ op.latest
          /\ op.read /\ \A k \in Names : op.file[k] = NoUrl
          /\ ops' = Superseded \union {op}
    <3>1. Dispatch("remove", n, n, NoUrl)
      BY <1>1 DEF onRemoveRepo
    <3> QED
      BY <3>1, DispatchFacts DEF OpsTypes, Kinds
  <2>2. DispatchEffect(op)
    BY <1>1, <2>1 DEF onRemoveRepo, User, InvalidateChartCache, DispatchEffect
  <2> QED
    BY <2>2
<1>2. ASSUME NEW n \in Names, onUpdateRepo(n)
      PROVE  Goal
  <2>1. PICK op \in Op :
          /\ op.kind = "update" /\ op.name = n /\ op.new = n /\ op.url = NoUrl
          /\ op.pc = "waiting" /\ op.latest
          /\ op.read /\ \A k \in Names : op.file[k] = NoUrl
          /\ ops' = Superseded \union {op}
    <3>1. Dispatch("update", n, n, NoUrl)
      BY <1>2 DEF onUpdateRepo
    <3> QED
      BY <3>1, DispatchFacts DEF OpsTypes, Kinds
  <2>2. DispatchEffect(op)
    BY <1>2, <2>1 DEF onUpdateRepo, User, InvalidateChartCache, DispatchEffect
  <2> QED
    BY <2>2
<1>3. ASSUME NEW n \in Names, NEW u \in Urls, onAddRepo(n, u)
      PROVE  Goal
  <2>1. PICK op \in Op :
          /\ op.kind = "add" /\ op.name = n /\ op.new = n /\ op.url = u
          /\ op.pc = "waiting" /\ op.latest
          /\ op.read /\ \A k \in Names : op.file[k] = NoUrl
          /\ ops' = Superseded \union {op}
    <3>1. Dispatch("add", n, n, u)
      BY <1>3 DEF onAddRepo
    <3> QED
      BY <3>1, DispatchFacts DEF OpsTypes, Kinds
  <2>2. DispatchEffect(op)
    BY <1>3, <2>1 DEF onAddRepo, User, DispatchEffect
  <2> QED
    BY <2>2
<1>4. ASSUME NEW n \in Names, NEW m \in Names, onRenameRepo(n, m)
      PROVE  Goal
  <2>1. PICK op \in Op :
          /\ op.kind = "rename" /\ op.name = n /\ op.new = m /\ op.url = NoUrl
          /\ op.pc = "waiting" /\ op.latest
          /\ op.read /\ \A k \in Names : op.file[k] = NoUrl
          /\ ops' = Superseded \union {op}
    <3>1. Dispatch("rename", n, m, NoUrl)
      BY <1>4 DEF onRenameRepo
    <3> QED
      BY <3>1, DispatchFacts DEF OpsTypes, Kinds
  <2>2. DispatchEffect(op)
    BY <1>4, <2>1 DEF onRenameRepo, User, InvalidateChartCache, DispatchEffect
  <2> QED
    BY <2>2
<1>5. ASSUME NEW n \in Names, Dispatch("list", n, n, NoUrl), loadRepos
      PROVE  Goal
  <2>1. PICK op \in Op :
          /\ op.kind = "list" /\ op.name = n /\ op.new = n /\ op.url = NoUrl
          /\ op.pc = "listing" /\ op.latest
          /\ op.read /\ \A k \in Names : op.file[k] = NoUrl
          /\ ops' = Superseded \union {op}
    BY <1>5, DispatchFacts DEF OpsTypes, Kinds
  <2>2. DispatchEffect(op)
    BY <1>5, <2>1 DEF loadRepos, User, DispatchEffect
  <2> QED
    BY <2>2
<1>6. loadRepos => Goal
  BY <1>5 DEF loadRepos
<1> QED
  BY <1>1, <1>2, <1>3, <1>4, <1>6 DEF Dispatches

\* No step gives the mutex two holders, or leaves a torn file with no writer.
LEMMA OpsTypesStep == config \in Configs /\ OpsTypes /\ [Next]_vars => OpsTypes'
<1> SUFFICES ASSUME config \in Configs, OpsTypes, [Next]_vars PROVE OpsTypes'
  OBVIOUS
<1>1. CASE Dispatches
  BY <1>1, DispatchesEffect, DispatchOpsTypes DEF DispatchEffect
<1>2. CASE OtherSteps
  BY <1>2, OtherFrame DEF OpsTypes, Holding
<1>3. ASSUME NEW o \in ops, Cancelled(o) \/ Fails(o) \/ ListRepos(o) PROVE OpsTypes'
  <2>1. o.pc # "writing" /\ ops' = ops \ {o} /\ torn' = torn
    BY <1>3 DEF Cancelled, Fails, ListRepos
  <2> QED
    BY <2>1, GoneOpsTypes
<1>4. ASSUME NEW o \in ops, LoadFile(o) PROVE OpsTypes'
  <2>1. o \in Op /\ o.pc = "waiting" /\ Unlocked /\ ~torn /\ torn' = torn
    BY <1>4, WriterHolds DEF LoadFile, OpsTypes
  <2>2. CASE Refused(o, config)
    BY <1>4, <2>1, <2>2, GoneOpsTypes DEF LoadFile
  <2>3. CASE ~Refused(o, config)
    <3> DEFINE p == [o EXCEPT !.file = config,
                     !.pc = IF o.kind \in {"add", "update"} THEN "locked" ELSE "downloaded"]
    <3>1. ops' = (ops \ {o}) \union {p}
      BY <1>4, <2>3 DEF LoadFile, Moved
    <3>2. p \in Op /\ p.pc # "writing"
      BY <2>1 DEF Op
    <3> QED
      BY <2>1, <3>1, <3>2, MovedOpsTypes
  <2> QED
    BY <2>2, <2>3
<1>5. ASSUME NEW o \in ops, DownloadIndexFile(o) PROVE OpsTypes'
  <2> DEFINE pc == IF o.kind = "add" THEN "downloaded" ELSE "listing"
  <2>1. o \in Op /\ o.pc = "locked" /\ Holding(o) /\ torn' = torn
        /\ ops' = (ops \ {o}) \union {[o EXCEPT !.pc = pc]}
    BY <1>5 DEF DownloadIndexFile, Moved, OpsTypes, Holding
  <2>2. [o EXCEPT !.pc = pc] \in Op /\ [o EXCEPT !.pc = pc].pc # "writing"
    BY <2>1, PcFacts DEF Pcs
  <2> QED
    BY <2>1, <2>2, WriterHolds, MovedOpsTypes
<1>6. ASSUME NEW o \in ops, BeginWrite(o) PROVE OpsTypes'
  <2>1. o \in Op /\ Holding(o) /\ torn'
        /\ ops' = (ops \ {o}) \union {[o EXCEPT !.pc = "writing"]}
    BY <1>6 DEF BeginWrite, Moved, OpsTypes, Holding
  <2>2. [o EXCEPT !.pc = "writing"] \in Op /\ [o EXCEPT !.pc = "writing"].pc = "writing"
    BY <2>1, PcFacts DEF Pcs
  <2> QED
    BY <2>1, <2>2, MovedOpsTypes
<1>7. ASSUME NEW o \in ops, EndWrite(o) PROVE OpsTypes'
  <2>1. o \in Op /\ Holding(o) /\ ~torn'
        /\ ops' = (ops \ {o}) \union {[o EXCEPT !.pc = "listing"]}
    BY <1>7 DEF EndWrite, Moved, OpsTypes, Holding
  <2>2. [o EXCEPT !.pc = "listing"] \in Op /\ [o EXCEPT !.pc = "listing"].pc # "writing"
    BY <2>1, PcFacts DEF Pcs
  <2> QED
    BY <2>1, <2>2, MovedOpsTypes
<1>8. CASE Restart
  BY <1>8 DEF Restart, OpsTypes
<1>9. ASSUME NEW o \in ops, MisreadFile(o) PROVE OpsTypes'
  <2> DEFINE p == [o EXCEPT !.read = FALSE, !.pc = "locked"]
  <2>1. o \in Op /\ o.pc # "writing" /\ Unlocked /\ ~torn /\ torn' = torn
    BY <1>9, WriterHolds DEF MisreadFile, OpsTypes
  <2>2. CASE ops' = ops \ {o}
    BY <2>1, <2>2, GoneOpsTypes
  <2>3. CASE ops' = (ops \ {o}) \union {p}
    <3>1. p \in Op /\ p.pc # "writing"
      BY <2>1 DEF Op
    <3> QED
      BY <2>1, <2>3, <3>1, MovedOpsTypes
  <2> QED
    BY <1>9, <2>2, <2>3 DEF MisreadFile, Moved
<1> QED
  BY <1>1, <1>2, <1>3, <1>4, <1>5, <1>6, <1>7, <1>8, <1>9 DEF Next, Dispatches, OtherSteps

\* The place an index is downloaded from is a place.
LEMMA DownloadPlace ==
  ASSUME OpsTypes, AllBegun, NEW o \in ops, o.pc = "locked"
  PROVE  (IF o.kind = "add" THEN o.url ELSE o.file[o.name]) \in Urls
<1>1. o \in Op /\ o.file \in Configs /\ o.name \in Names
  BY DEF OpsTypes, Op
<1>2. Begun(o) /\ Holding(o)
  BY DEF AllBegun, Holding
<1>3. CASE o.kind = "add"
  BY <1>2, <1>3 DEF Begun
<1>4. CASE o.kind # "add"
  <2>1. ~Refused(o, o.file)
    BY <1>2 DEF Begun
  <2>2. Has(o.file, o.name)
    BY <1>2, <1>4, <2>1 DEF Begun, Refused
  <2> QED
    BY <1>1, <1>4, <2>2 DEF Has, Configs
<1> QED
  BY <1>3, <1>4

\* What an action writes is a configuration.
LEMMA ChangedType ==
  ASSUME NEW o \in Op
  PROVE  Changed(o) \in Configs
BY DEF Op, Configs, Changed

\* A ListCharts at work.
Listing == [name : Names, got : Index \union {None}, rest : SUBSET Names, live : BOOLEAN]

\* The listings a preload starts are listings.
LEMMA PreloadType ==
  ASSUME lists \subseteq Listing, Preload(Configured)
  PROVE  lists' \subseteq Listing
<1>1. Configured \subseteq Names
  BY DEF Configured
<1>2. ASSUME NEW l \in lists PROVE [l EXCEPT !.live = FALSE] \in Listing
  BY DEF Listing
<1>3. ASSUME NEW n \in Configured
      PROVE  [name |-> n, got |-> None, rest |-> Configured \ {n}, live |-> TRUE] \in Listing
  BY <1>1 DEF Listing
<1> DEFINE stopped == {[l EXCEPT !.live = FALSE] : l \in lists}
           started == {[name |-> n, got |-> None, rest |-> Configured \ {n}, live |-> TRUE]
                         : n \in Configured}
<1>4. stopped \subseteq Listing /\ started \subseteq Listing
  BY <1>2, <1>3
<1>5. lists' = stopped \/ \E l \in started : lists' = stopped \union {l}
  BY DEF Preload
<1> HIDE DEF stopped, started
<1> QED
  BY <1>4, <1>5

\* So is the next one of a preload.
LEMMA AdvancedType ==
  ASSUME lists \subseteq Listing, NEW l \in lists, Advanced(l)
  PROVE  lists' \subseteq Listing
<1>1. ASSUME NEW n \in l.rest
      PROVE  [l EXCEPT !.name = n, !.got = None, !.rest = l.rest \ {n}] \in Listing
  BY DEF Listing
<1>2. \/ lists' = lists \ {l}
      \/ \E n \in l.rest :
           lists' = (lists \ {l}) \union {[l EXCEPT !.name = n, !.got = None, !.rest = l.rest \ {n}]}
  BY DEF Advanced
<1> QED
  BY <1>1, <1>2

\* Every step keeps the types.
LEMMA PlainTypesStep == PlainTypes /\ OpsTypes /\ AllBegun /\ [Next]_vars => PlainTypes'
<1> SUFFICES ASSUME PlainTypes, OpsTypes, AllBegun, [Next]_vars PROVE PlainTypes'
  OBVIOUS
<1> USE RepositoriesAssumption
<1>1. CASE Dispatches
  <2>1. PICK op \in Op : DispatchEffect(op)
    BY <1>1, DispatchesEffect
  <2>2. cache' \in [Names -> Index \union {None}]
    BY <2>1 DEF DispatchEffect, PlainTypes, Op
  <2>3. acts' \in 0..MaxActs
    BY <2>1 DEF DispatchEffect, PlainTypes
  <2> QED
    BY <2>1, <2>2, <2>3 DEF DispatchEffect, PlainTypes
<1>2. ASSUME NEW o \in ops, Cancelled(o) \/ LoadFile(o) \/ MisreadFile(o) \/ Fails(o) \/ BeginWrite(o)
      PROVE  PlainTypes'
  BY <1>2, Zenon DEF Cancelled, LoadFile, MisreadFile, Fails, BeginWrite, PlainTypes
<1>3. ASSUME NEW o \in ops, DownloadIndexFile(o) PROVE PlainTypes'
  <2> DEFINE u == IF o.kind = "add" THEN o.url ELSE o.file[o.name]
  <2>1. u \in Urls /\ o.name \in Names
    BY <1>3, DownloadPlace DEF DownloadIndexFile, OpsTypes, Op
  <2>2. [url |-> u, rev |-> server[u]] \in Index
    BY <2>1 DEF Index, PlainTypes
  <2>3. index' \in [Names -> Index \union {None}]
    BY <1>3, <2>1, <2>2 DEF DownloadIndexFile, PlainTypes
  <2> QED
    BY <1>3, <2>3 DEF DownloadIndexFile, PlainTypes
<1>4. ASSUME NEW o \in ops, EndWrite(o) PROVE PlainTypes'
  BY <1>4, ChangedType DEF EndWrite, PlainTypes, OpsTypes
<1>5. ASSUME NEW o \in ops, ListRepos(o) PROVE PlainTypes'
  <2>1. Configured \subseteq Names
    BY DEF Configured
  <2>2. lists \subseteq Listing
    BY DEF PlainTypes, Listing
  <2>3. lists' \subseteq Listing /\ repos' \subseteq Names
    BY <1>5, <2>1, <2>2, PreloadType DEF ListRepos, PlainTypes
  <2> QED
    BY <1>5, <2>3 DEF ListRepos, PlainTypes, Listing
<1>6. ASSUME NEW n \in Names, ListCharts(n) PROVE PlainTypes'
  <2>1. [name |-> n, got |-> None, rest |-> {}, live |-> FALSE] \in Listing
    BY DEF Listing
  <2>2. lists' \subseteq Listing
    BY <1>6, <2>1 DEF ListCharts, PlainTypes, Listing
  <2>3. acts' \in 0..MaxActs
    BY <1>6 DEF ListCharts, User, PlainTypes
  <2> QED
    BY <1>6, <2>2, <2>3 DEF ListCharts, PlainTypes, Listing
<1>7. ASSUME NEW l \in lists, loadIndex(l) PROVE PlainTypes'
  BY <1>7 DEF loadIndex, PlainTypes
<1>8. ASSUME NEW l \in lists, downloadIndex(l) PROVE PlainTypes'
  <2>1. l.name \in Names /\ config[l.name] \in Urls
    BY <1>8 DEF downloadIndex, Has, PlainTypes, Configs
  <2>2. [url |-> config[l.name], rev |-> server[config[l.name]]] \in Index
    BY <2>1 DEF Index, PlainTypes
  <2>3. index' \in [Names -> Index \union {None}]
    BY <1>8, <2>1, <2>2 DEF downloadIndex, PlainTypes
  <2> QED
    BY <1>8, <2>3 DEF downloadIndex, PlainTypes
<1>9. ASSUME NEW l \in lists, Skip(l) \/ StoreCharts(l) PROVE PlainTypes'
  <2>1. lists \subseteq Listing
    BY DEF PlainTypes, Listing
  <2>2. lists' \subseteq Listing
    BY <1>9, <2>1, AdvancedType DEF Skip, StoreCharts
  <2>3. l.got # None => l.name \in Names /\ l.got \in Index
    BY <2>1 DEF Listing
  <2>4. cache' \in [Names -> Index \union {None}]
    BY <1>9, <2>3 DEF Skip, StoreCharts, PlainTypes
  <2> QED
    BY <1>9, <2>2, <2>4 DEF Skip, StoreCharts, PlainTypes, Listing
<1>10. ASSUME NEW n \in Names, NEW v \in 1..MaxRev, NEW open \in BOOLEAN, PullChart(n, v, open)
       PROVE  PlainTypes'
  <2> DEFINE pull == [url |-> config[n], version |-> v, open |-> open,
                      pc |-> IF chartVersionMatches(v) THEN "read" ELSE "pulling"]
  <2>1. config[n] \in Urls
    BY <1>10 DEF PullChart, Has, PlainTypes, Configs
  <2>2. pull \in [url : Urls, version : 1..MaxRev, pc : {"pulling", "read"}, open : BOOLEAN]
    BY <2>1
  <2>3. pulls' = pulls \union {pull} /\ dir' \in {dir, None} /\ opened' \in {opened, None}
        /\ acts < MaxActs /\ acts' = acts + 1
        /\ UNCHANGED <<calm, server, config, torn, index, cache, lists, repos>>
    BY <1>10 DEF PullChart, User
  <2> QED
    BY <2>2, <2>3 DEF PlainTypes
<1>11. ASSUME NEW p \in pulls, Unpacked(p) \/ PullFails(p) PROVE PlainTypes'
  <2>1. /\ p.url \in Urls /\ p.version \in 1..MaxRev
        /\ [p EXCEPT !.pc = "read"] \in
             [url : Urls, version : 1..MaxRev, pc : {"pulling", "read"}, open : BOOLEAN]
    BY DEF PlainTypes
  <2>2. [url |-> p.url, version |-> p.version] \in Chart
    BY <2>1 DEF Chart
  <2> QED
    BY <1>11, <2>1, <2>2 DEF Unpacked, PullFails, PlainTypes
<1>12. ASSUME NEW p \in pulls, ReadChart(p) PROVE PlainTypes'
  <2>1. p.version \in 1..MaxRev
    BY DEF PlainTypes
  <2> QED
    BY <1>12, <2>1 DEF ReadChart, PlainTypes
<1>13. ASSUME NEW u \in Urls, Publish(u) PROVE PlainTypes'
  BY <1>13 DEF Publish, PlainTypes
<1>14. CASE Restart
  <2>1. config' \in Configs /\ cache' \in [Names -> Index \union {None}]
    BY <1>14 DEF Restart, PlainTypes, Configs
  <2>2. repos' \subseteq Names /\ lists' = {} /\ pulls' = {} /\ opened' = None /\ torn' = FALSE
    BY <1>14 DEF Restart
  <2> QED
    BY <1>14, <2>1, <2>2 DEF Restart, PlainTypes
<1>15. CASE UNCHANGED vars
  BY <1>15, Zenon DEF vars, PlainTypes
<1> QED
  BY <1>1, <1>2, <1>3, <1>4, <1>5, <1>6, <1>7, <1>8, <1>9, <1>10, <1>11, <1>12, <1>13, <1>14,
     <1>15 DEF Next, Dispatches

\* The two halves make the type invariant.
LEMMA TypesTogether == TypeOK <=> PlainTypes /\ OpsTypes
BY Zenon DEF TypeOK, PlainTypes, OpsTypes

-----------------------------------------------------------------------------
(* What the actions have found out, and what the one with the mutex read.  *)

\* Both at once.
HeldInv == AllBegun /\ NoLostUpdate

\* To be superseded changes nothing of what an action found out.
LEMMA SameHeld ==
  ASSUME NEW o, NEW p, Same(p, o), Begun(o), Holding(o) /\ o.read => o.file = config
  PROVE  Begun(p) /\ (Holding(p) /\ p.read => p.file = config)
BY DEF Same, Begun, Holding, Refused

\* An action goes on, and holds the mutex only if it did.
LEMMA MovedHeld ==
  ASSUME HeldInv, NEW o \in ops, NEW p, ops' = (ops \ {o}) \union {p}, config' = config,
         Begun(p), Holding(p) /\ p.read => p.file = config
  PROVE  HeldInv'
<1>1. \A q \in ops' : Begun(q) /\ (Holding(q) /\ q.read => q.file = config')
  BY DEF HeldInv, AllBegun, NoLostUpdate
<1> QED
  BY <1>1, Zenon DEF HeldInv, AllBegun, NoLostUpdate, Begun, Holding, Refused, Has

\* No step makes what the holder read of the file old.
LEMMA HeldStep == config \in Configs /\ OpsTypes /\ HeldInv /\ [Next]_vars => HeldInv'
<1> SUFFICES ASSUME config \in Configs, OpsTypes, HeldInv, [Next]_vars PROVE HeldInv'
  OBVIOUS
<1>1. CASE Dispatches
  <2>1. PICK op \in Op : DispatchEffect(op)
    BY <1>1, DispatchesEffect
  <2>2. ~Holding(op) /\ Begun(op)
    BY <2>1 DEF DispatchEffect, Holding, Begun
  <2>3. \A p \in ops' : p = op \/ \E o \in ops : Same(p, o)
    BY <2>1, <2>2, DispatchHolders DEF DispatchEffect, OpsTypes
  <2>4. \A p \in ops' : Begun(p) /\ (Holding(p) /\ p.read => p.file = config)
    BY <2>2, <2>3, SameHeld DEF HeldInv, AllBegun, NoLostUpdate
  <2>5. config' = config
    BY <2>1 DEF DispatchEffect
  <2> QED
    BY <2>4, <2>5, Zenon DEF HeldInv, AllBegun, NoLostUpdate, Begun, Holding, Refused, Has
<1>2. CASE OtherSteps
  BY <1>2, OtherFrame DEF HeldInv, AllBegun, NoLostUpdate, Begun, Holding, Refused, Has
<1>3. ASSUME NEW o \in ops, Cancelled(o) \/ Fails(o) \/ ListRepos(o) PROVE HeldInv'
  <2>1. ops' \subseteq ops /\ config' = config
    BY <1>3 DEF Cancelled, Fails, ListRepos
  <2> QED
    BY <2>1 DEF HeldInv, AllBegun, NoLostUpdate, Begun, Holding, Refused, Has
<1>4. ASSUME NEW o \in ops, LoadFile(o) PROVE HeldInv'
  <2>1. o \in Op /\ Begun(o) /\ config' = config
    BY <1>4 DEF LoadFile, OpsTypes, HeldInv, AllBegun
  <2>2. CASE Refused(o, config)
    <3>1. ops' \subseteq ops
      BY <1>4, <2>2 DEF LoadFile
    <3> QED
      BY <2>1, <3>1 DEF HeldInv, AllBegun, NoLostUpdate, Begun, Holding, Refused, Has
  <2>3. CASE ~Refused(o, config)
    <3> DEFINE p == [o EXCEPT !.file = config,
                     !.pc = IF o.kind \in {"add", "update"} THEN "locked" ELSE "downloaded"]
    <3>1. ops' = (ops \ {o}) \union {p}
      BY <1>4, <2>3 DEF LoadFile, Moved
    <3>2. /\ p.kind = o.kind /\ p.name = o.name /\ p.new = o.new /\ p.url = o.url
          /\ p.file = config
          /\ p.pc = IF o.kind \in {"add", "update"} THEN "locked" ELSE "downloaded"
      BY <2>1 DEF Op
    <3>3. ~Refused(p, p.file)
      BY <2>3, <3>2 DEF Refused
    <3>4. o.kind # "list"
      BY <1>4, <2>1 DEF LoadFile, Begun
    <3>5. Begun(p)
      BY <2>1, <3>2, <3>3, <3>4 DEF Begun, Op
    <3> QED
      BY <2>1, <3>1, <3>2, <3>5, MovedHeld
  <2> QED
    BY <2>2, <2>3
<1>5. ASSUME NEW o \in ops, DownloadIndexFile(o) \/ BeginWrite(o) PROVE HeldInv'
  <2> DEFINE pc == IF BeginWrite(o) THEN "writing"
                   ELSE IF o.kind = "add" THEN "downloaded" ELSE "listing"
             p == [o EXCEPT !.pc = pc]
  <2>1. /\ o \in Op /\ Begun(o) /\ config' = config /\ Holding(o) /\ (o.read => o.file = config)
    BY <1>5 DEF DownloadIndexFile, BeginWrite, OpsTypes, HeldInv, AllBegun, NoLostUpdate, Holding
  <2>2. ops' = (ops \ {o}) \union {p}
    BY <1>5 DEF DownloadIndexFile, BeginWrite, Moved
  <2>3. pc \in Pcs
    BY DEF Pcs
  <2>4. /\ p.kind = o.kind /\ p.name = o.name /\ p.new = o.new /\ p.url = o.url
        /\ p.file = o.file /\ p.read = o.read /\ p.pc = pc
    BY <2>1, <2>3, PcFacts
  <2>5. pc = "writing" => o.pc = "downloaded"
    BY <1>5 DEF BeginWrite
  <2>6. Begun(p)
    BY <2>1, <2>4, <2>5 DEF Begun, Holding, Refused
  <2> QED
    BY <2>1, <2>2, <2>4, <2>6, MovedHeld
<1>6. ASSUME NEW o \in ops, EndWrite(o) PROVE HeldInv'
  <2> DEFINE p == [o EXCEPT !.pc = "listing"]
  <2>1. o \in Op /\ Begun(o) /\ Holding(o) /\ ops' = (ops \ {o}) \union {p}
    BY <1>6 DEF EndWrite, Moved, OpsTypes, HeldInv, AllBegun, Holding
  <2>2. p.kind = o.kind /\ p.url = o.url /\ p.pc = "listing"
    BY <2>1, PcFacts DEF Pcs
  <2>3. \A q \in ops' : Begun(q) /\ ~Holding(q)
    BY <2>1, <2>2 DEF OpsTypes, HeldInv, AllBegun, Begun, Holding
  <2> QED
    BY <2>3, Zenon DEF HeldInv, AllBegun, NoLostUpdate, Begun, Holding, Refused, Has
<1>7. CASE Restart
  BY <1>7 DEF Restart, HeldInv, AllBegun, NoLostUpdate
<1>8. ASSUME NEW o \in ops, MisreadFile(o) PROVE HeldInv'
  <2> DEFINE p == [o EXCEPT !.read = FALSE, !.pc = "locked"]
  <2>1. o \in Op /\ Begun(o) /\ config' = config
    BY <1>8 DEF MisreadFile, OpsTypes, HeldInv, AllBegun
  <2>2. CASE ops' = ops \ {o}
    BY <2>1, <2>2 DEF HeldInv, AllBegun, NoLostUpdate, Begun, Holding, Refused, Has
  <2>3. CASE o.kind = "add" /\ o.pc = "waiting" /\ ops' = (ops \ {o}) \union {p}
    <3>1. /\ p.kind = o.kind /\ p.name = o.name /\ p.url = o.url /\ p.file = o.file
          /\ p.pc = "locked" /\ ~p.read
      BY <2>1 DEF Op
    <3>2. o.file[o.name] = NoUrl
      BY <2>1, <2>3 DEF Op, Begun
    <3>3. Begun(p)
      BY <2>1, <2>3, <3>1, <3>2 DEF Begun, Refused, Has
    <3> QED
      BY <2>1, <2>3, <3>1, <3>3, MovedHeld
  <2> QED
    BY <1>8, <2>2, <2>3 DEF MisreadFile, Moved
<1> QED
  BY <1>1, <1>2, <1>3, <1>4, <1>5, <1>6, <1>7, <1>8 DEF Next, Dispatches, OtherSteps

-----------------------------------------------------------------------------
(* Calm sessions.                                                          *)

\* What CalmInv says of a calm session.
Calm == /\ OneAtATime /\ CacheOfIndex /\ ListsOfIndex /\ ActionsPrepared
        /\ ShownConfigured /\ UnpackedIsAsked

\* No index, and no chart, is None.
LEMMA SomeIndex ==
  ASSUME NEW u \in Urls, NEW r \in 1..MaxRev
  PROVE  [url |-> u, rev |-> r] # None /\ [url |-> u, version |-> r] # None
BY RepositoriesAssumption

\* What a dispatch prepares, in a session where nothing else is at work.
LEMMA CalmDispatch ==
  ASSUME TypeOK, Calm, calm, Dispatches
  PROVE  Calm'
<1>1. PICK op \in Op : DispatchEffect(op)
  BY TypesTogether, DispatchesEffect
<1>2. ops = {} /\ lists = {} /\ pulls = {} /\ lists' = {} /\ pulls' = {}
  BY <1>1 DEF DispatchEffect, Idle
<1>3. ops' = {op} /\ op.latest /\ op.read
  BY <1>1, <1>2 DEF DispatchEffect, Superseded
<1>4. OneAtATime' /\ ListsOfIndex' /\ UnpackedIsAsked'
  BY <1>2, <1>3 DEF OneAtATime, ListsOfIndex, UnpackedIsAsked
<1>5. /\ \A n \in Names : cache'[n] \in {cache[n], None}
      /\ op.kind \in {"remove", "rename", "update"} => cache'[op.name] = None
  BY <1>1 DEF DispatchEffect, TypeOK, Op
<1>6. CacheOfIndex'
  BY <1>1, <1>5 DEF CacheOfIndex, DispatchEffect, Calm
<1>7. ActionsPrepared'
  BY <1>1, <1>3, <1>5 DEF ActionsPrepared, DispatchEffect
<1>8. ShownConfigured'
  BY <1>1, <1>2 DEF ShownConfigured, DispatchEffect, Calm
<1> QED
  BY <1>4, <1>6, <1>7, <1>8 DEF Calm

\* An action that goes without its listing, or goes on, and leaves the rest.
LEMMA CalmMoves ==
  ASSUME TypeOK, AllBegun, Calm, NEW o \in ops,
         Cancelled(o) \/ LoadFile(o) \/ Fails(o) \/ BeginWrite(o)
  PROVE  Calm'
<1>1. /\ o \in Op /\ ops = {o} /\ o.latest /\ o.read /\ o.pc # "listing" /\ Begun(o) /\ lists = {}
      /\ UNCHANGED <<config, index, cache, lists, repos, pulls, dir>>
  BY DEF Cancelled, LoadFile, Fails, BeginWrite, Calm, OneAtATime, TypeOK, AllBegun
<1>2. CASE ops' = ops \ {o}
  <2>1. ops' = {}
    BY <1>1, <1>2
  <2> QED
    BY <1>1, <2>1 DEF Calm, OneAtATime, CacheOfIndex, ListsOfIndex, ActionsPrepared,
       ShownConfigured, UnpackedIsAsked
<1>3. ASSUME NEW p, ops' = (ops \ {o}) \union {p},
             p.kind = o.kind, p.name = o.name, p.new = o.new, p.url = o.url,
             p.latest = o.latest, p.read = o.read,
             p.pc # "listing", p.kind = "add" => p.pc = "locked" \/ o.pc = "downloaded"
      PROVE  Calm'
  <2>1. ops' = {p}
    BY <1>1, <1>3
  <2>2. ActionsPrepared'
    BY <1>1, <1>3, <2>1 DEF Calm, ActionsPrepared
  <2> QED
    BY <1>1, <1>3, <2>1, <2>2 DEF Calm, OneAtATime, CacheOfIndex, ListsOfIndex,
       ShownConfigured, UnpackedIsAsked
<1>4. CASE LoadFile(o) /\ ~Refused(o, config)
  <2> DEFINE p == [o EXCEPT !.file = config,
                   !.pc = IF o.kind \in {"add", "update"} THEN "locked" ELSE "downloaded"]
  <2>1. ops' = (ops \ {o}) \union {p}
    BY <1>4 DEF LoadFile, Moved
  <2>2. /\ p.kind = o.kind /\ p.name = o.name /\ p.new = o.new /\ p.url = o.url
        /\ p.latest = o.latest /\ p.read = o.read /\ p.pc # "listing"
        /\ (p.kind = "add" => p.pc = "locked")
    BY <1>1 DEF Op
  <2> HIDE DEF p
  <2> QED
    BY <1>3, <2>1, <2>2
<1>5. CASE BeginWrite(o)
  <2> DEFINE p == [o EXCEPT !.pc = "writing"]
  <2>1. ops' = (ops \ {o}) \union {p} /\ o.pc = "downloaded"
    BY <1>5 DEF BeginWrite, Moved
  <2>2. /\ p.kind = o.kind /\ p.name = o.name /\ p.new = o.new /\ p.url = o.url
        /\ p.latest = o.latest /\ p.read = o.read /\ p.pc # "listing"
    BY <1>1, PcFacts DEF Pcs
  <2> HIDE DEF p
  <2> QED
    BY <1>3, <2>1, <2>2
<1> QED
  BY <1>2, <1>4, <1>5 DEF Cancelled, LoadFile, Fails

\* The index an action downloads is of nothing in memory, and of the place the
\* name stands for, or will.
LEMMA CalmDownload ==
  ASSUME TypeOK, AllBegun, NoLostUpdate, Calm, NEW o \in ops, DownloadIndexFile(o)
  PROVE  Calm'
<1> DEFINE u == IF o.kind = "add" THEN o.url ELSE o.file[o.name]
           pc == IF o.kind = "add" THEN "downloaded" ELSE "listing"
           p == [o EXCEPT !.pc = pc]
<1>1. /\ o \in Op /\ ops = {o} /\ o.latest /\ o.read /\ o.pc = "locked" /\ lists = {} /\ o.name \in Names
      /\ UNCHANGED <<config, cache, lists, repos, pulls, dir>>
  BY DEF DownloadIndexFile, Calm, OneAtATime, TypeOK, Op
<1>2. o.kind \in {"add", "update"} /\ ~Refused(o, config) /\ o.file = config
  BY <1>1 DEF AllBegun, Begun, Holding, NoLostUpdate
<1>3. u \in Urls
  BY <1>1, DownloadPlace, TypesTogether
<1>4. index' = [index EXCEPT ![o.name] = [url |-> u, rev |-> server[u]]]
  BY DEF DownloadIndexFile
<1>5. index'[o.name] # None /\ index'[o.name].url = u
      /\ \A n \in Names \ {o.name} : index'[n] = index[n]
  BY <1>1, <1>3, <1>4, SomeIndex DEF TypeOK
<1>6. ops' = {p}
  BY <1>1 DEF DownloadIndexFile, Moved
<1>7. /\ p.kind = o.kind /\ p.name = o.name /\ p.new = o.new /\ p.url = o.url
      /\ p.latest = o.latest /\ p.read = o.read /\ p.pc = pc
  <2>1. pc \in Pcs
    BY DEF Pcs
  <2> QED
    BY <1>1, <2>1, PcFacts
<1> HIDE DEF p
<1>8. cache[o.name] = None /\ (config[o.name] # NoUrl => u = config[o.name])
  BY <1>1, <1>2 DEF Calm, CacheOfIndex, ActionsPrepared, Refused, Has
<1>9. CacheOfIndex'
  <2> SUFFICES ASSUME NEW n \in Names
               PROVE  /\ cache[n] # None => config[n] # NoUrl /\ cache[n] = index'[n]
                      /\ config[n] # NoUrl /\ index'[n] # None => index'[n].url = config[n]
    BY <1>1 DEF CacheOfIndex
  <2> QED
    BY <1>5, <1>8 DEF Calm, CacheOfIndex
<1>10. ActionsPrepared'
  BY <1>1, <1>2, <1>5, <1>6, <1>7, <1>8 DEF ActionsPrepared
<1>11. OneAtATime' /\ ListsOfIndex' /\ ShownConfigured' /\ UnpackedIsAsked'
  BY <1>1, <1>6, <1>7 DEF Calm, OneAtATime, ListsOfIndex, ShownConfigured, UnpackedIsAsked
<1> QED
  BY <1>9, <1>10, <1>11 DEF Calm

\* What is written drops the listing of the old name, and gives the new one an
\* index of its place, or none.
LEMMA CalmWritten ==
  ASSUME TypeOK, AllBegun, NoLostUpdate, Calm, NEW o \in ops, EndWrite(o)
  PROVE  Calm'
<1> DEFINE p == [o EXCEPT !.pc = "listing"]
<1>1. /\ o \in Op /\ ops = {o} /\ o.latest /\ o.read /\ o.pc = "writing" /\ lists = {}
      /\ o.name \in Names /\ o.new \in Names
      /\ UNCHANGED <<index, cache, lists, repos, pulls, dir>>
  BY DEF EndWrite, Calm, OneAtATime, TypeOK, Op
<1>2. o.kind \in {"add", "remove", "rename"} /\ ~Refused(o, config) /\ o.file = config
  BY <1>1 DEF AllBegun, Begun, Holding, NoLostUpdate
<1>3. config' = Changed(o)
  BY DEF EndWrite
<1>4. ops' = {p}
  BY <1>1 DEF EndWrite, Moved
<1>5. /\ p.kind = o.kind /\ p.name = o.name /\ p.new = o.new /\ p.pc = "listing"
      /\ p.latest = o.latest /\ p.read = o.read
  BY <1>1, PcFacts DEF Pcs
<1> HIDE DEF p
<1>6. /\ o.kind = "add" => config' = [config EXCEPT ![o.name] = o.url] /\ config[o.name] = NoUrl
      /\ o.kind = "remove" => config' = [config EXCEPT ![o.name] = NoUrl]
      /\ o.kind = "rename" =>
           /\ config' = [config EXCEPT ![o.name] = NoUrl, ![o.new] = config[o.name]]
           /\ config[o.name] # NoUrl /\ config[o.new] = NoUrl
  BY <1>2, <1>3 DEF Changed, Refused, Has
<1>7. config \in [Names -> Urls \union {NoUrl}]
  BY DEF TypeOK, Configs
<1>8. CacheOfIndex'
  <2> SUFFICES ASSUME NEW n \in Names
               PROVE  /\ cache[n] # None => config'[n] # NoUrl /\ cache[n] = index[n]
                      /\ config'[n] # NoUrl /\ index[n] # None => index[n].url = config'[n]
    BY <1>1 DEF CacheOfIndex
  <2>1. CASE config'[n] = config[n]
    BY <2>1 DEF Calm, CacheOfIndex
  <2>2. CASE o.kind = "add" /\ n = o.name
    <3>1. cache[n] = None
      BY <1>6, <2>2 DEF Calm, CacheOfIndex
    <3>2. config'[n] = o.url /\ index[n].url = o.url
      BY <1>1, <1>6, <1>7, <2>2 DEF Calm, ActionsPrepared
    <3> QED
      BY <3>1, <3>2
  <2>3. CASE o.kind \in {"remove", "rename"} /\ n = o.name
    <3>1. cache[n] = None
      BY <1>1, <2>3 DEF Calm, ActionsPrepared
    <3>2. config'[n] = NoUrl
      BY <1>6, <1>7, <2>3
    <3> QED
      BY <3>1, <3>2
  <2>4. CASE o.kind = "rename" /\ n = o.new
    <3>1. cache[n] = None
      BY <1>6, <2>4 DEF Calm, CacheOfIndex
    <3>2. index[n] = None
      BY <1>1, <2>4 DEF Calm, ActionsPrepared
    <3> QED
      BY <3>1, <3>2
  <2> QED
    BY <1>2, <1>6, <1>7, <2>1, <2>2, <2>3, <2>4
<1>9. OneAtATime' /\ ListsOfIndex' /\ ShownConfigured' /\ UnpackedIsAsked'
  BY <1>1, <1>4, <1>5 DEF Calm, OneAtATime, ListsOfIndex, ShownConfigured, UnpackedIsAsked
<1>10. ActionsPrepared'
  BY <1>1, <1>4, <1>5 DEF Calm, ActionsPrepared
<1> QED
  BY <1>8, <1>9, <1>10 DEF Calm

\* The names shown after an action are the configured ones, and so are those
\* of the listings that follow.
LEMMA CalmListed ==
  ASSUME TypeOK, Calm, NEW o \in ops, ListRepos(o)
  PROVE  Calm'
<1>1. /\ ops = {o} /\ o.latest /\ lists = {} /\ ops' = {}
      /\ repos' = Configured /\ Preload(Configured)
      /\ UNCHANGED <<config, index, cache, pulls, dir>>
  BY DEF ListRepos, Calm, OneAtATime
<1>2. \A n \in Configured : n \in Names /\ config[n] # NoUrl
  BY DEF Configured
<1>3. \A l \in lists' : /\ l.name \in Configured /\ l.rest \subseteq Configured
                        /\ l.got = None
  <2> DEFINE started == {[name |-> n, got |-> None, rest |-> Configured \ {n}, live |-> TRUE]
                           : n \in Configured}
             stopped == {[l EXCEPT !.live = FALSE] : l \in lists}
  <2>1. stopped = {}
    BY <1>1
  <2>2. \A l \in started : l.name \in Configured /\ l.rest \subseteq Configured /\ l.got = None
    OBVIOUS
  <2>3. lists' = stopped \/ \E l \in started : lists' = stopped \union {l}
    BY <1>1 DEF Preload
  <2> HIDE DEF started, stopped
  <2> QED
    BY <2>1, <2>2, <2>3
<1>4. ListsOfIndex'
  BY <1>1, <1>2, <1>3 DEF ListsOfIndex
<1>5. OneAtATime' /\ CacheOfIndex' /\ ActionsPrepared' /\ ShownConfigured' /\ UnpackedIsAsked'
  BY <1>1, <1>2 DEF Calm, OneAtATime, CacheOfIndex, ActionsPrepared, ShownConfigured,
     UnpackedIsAsked
<1> QED
  BY <1>4, <1>5 DEF Calm

\* The listings: what they keep in memory is the index on disk.
LEMMA CalmAdvanced ==
  ASSUME lists \subseteq Listing, ListsOfIndex, NEW l \in lists, Advanced(l),
         UNCHANGED <<config, index>>
  PROVE  ListsOfIndex'
<1> DEFINE At(n) == [l EXCEPT !.name = n, !.got = None, !.rest = l.rest \ {n}]
<1>1. \A n \in l.rest : At(n).name = n /\ At(n).got = None /\ At(n).rest \subseteq l.rest
  BY DEF Listing
<1>2. \/ lists' = lists \ {l}
      \/ \E n \in l.rest : lists' = (lists \ {l}) \union {At(n)}
  BY DEF Advanced
<1> HIDE DEF At
<1>3. \A k \in lists' : k \in lists \/ (k.name \in l.rest /\ k.got = None /\ k.rest \subseteq l.rest)
  BY <1>1, <1>2
<1> QED
  BY <1>3 DEF ListsOfIndex

\* The steps of a listing at work.
LEMMA CalmListings ==
  ASSUME TypeOK, Calm, NEW l \in lists,
         loadIndex(l) \/ downloadIndex(l) \/ Skip(l) \/ StoreCharts(l)
  PROVE  Calm'
<1>1. /\ ops = {} /\ l.name \in Names /\ config[l.name] # NoUrl
      /\ l.got # None => l.got = index[l.name]
      /\ UNCHANGED <<config, ops, repos, pulls, dir>>
  BY DEF loadIndex, downloadIndex, Skip, StoreCharts, Calm, OneAtATime, ListsOfIndex, TypeOK
<1>2. lists \subseteq Listing
  BY DEF TypeOK, Listing
<1>3. OneAtATime' /\ ActionsPrepared' /\ ShownConfigured' /\ UnpackedIsAsked'
  BY <1>1 DEF Calm, OneAtATime, ActionsPrepared, ShownConfigured, UnpackedIsAsked
<1>4. CASE loadIndex(l)
  <2> DEFINE k == [l EXCEPT !.got = index[l.name]]
  <2>1. k.name = l.name /\ k.got = index[l.name] /\ k.rest = l.rest
    BY <1>2 DEF Listing
  <2>2. lists' = (lists \ {l}) \union {k} /\ UNCHANGED <<config, index, cache>>
    BY <1>4 DEF loadIndex
  <2> HIDE DEF k
  <2>3. ListsOfIndex'
    BY <2>1, <2>2 DEF Calm, ListsOfIndex
  <2> QED
    BY <1>3, <2>2, <2>3 DEF Calm, CacheOfIndex
<1>5. CASE downloadIndex(l)
  <2> DEFINE u == config[l.name]
  <2>1. u \in Urls
    BY <1>1 DEF TypeOK, Configs
  <2>2. /\ cache[l.name] = None /\ index[l.name] = None
        /\ index' = [index EXCEPT ![l.name] = [url |-> u, rev |-> server[u]]]
        /\ UNCHANGED <<cache, lists>>
    BY <1>5 DEF downloadIndex
  <2>3. index'[l.name].url = u /\ \A n \in Names \ {l.name} : index'[n] = index[n]
    BY <1>1, <2>2 DEF TypeOK
  <2>4. CacheOfIndex'
    BY <1>1, <2>2, <2>3 DEF Calm, CacheOfIndex
  <2>5. \A k \in lists : k.got # None => k.name # l.name
    BY <2>2 DEF Calm, ListsOfIndex
  <2>6. ListsOfIndex'
    BY <1>1, <1>2, <2>2, <2>3, <2>5 DEF Calm, ListsOfIndex, Listing
  <2> QED
    BY <1>3, <2>4, <2>6 DEF Calm
<1>6. CASE Skip(l) \/ StoreCharts(l)
  <2>1. ListsOfIndex'
    BY <1>2, <1>6, CalmAdvanced DEF Skip, StoreCharts, Calm
  <2>2. index' = index /\ \A n \in Names :
          cache'[n] = cache[n] \/ (n = l.name /\ l.got # None /\ cache'[n] = l.got)
    BY <1>6 DEF Skip, StoreCharts, TypeOK
  <2>3. CacheOfIndex'
    BY <1>1, <2>2 DEF Calm, CacheOfIndex
  <2> QED
    BY <1>3, <2>1, <2>3 DEF Calm
<1> QED
  BY <1>4, <1>5, <1>6

\* The user asks for a listing, or a chart, while nothing is at work.
LEMMA CalmAsked ==
  ASSUME TypeOK, Calm, calm, NEW n \in Names, NEW v \in 1..MaxRev, NEW open \in BOOLEAN,
         ListCharts(n) \/ PullChart(n, v, open)
  PROVE  Calm'
<1>1. /\ ops = {} /\ lists = {} /\ pulls = {} /\ n \in repos /\ config[n] # NoUrl
      /\ UNCHANGED <<config, index, cache, ops, repos>>
  BY DEF ListCharts, PullChart, User, Idle, Calm, ShownConfigured
<1>2. CacheOfIndex' /\ ActionsPrepared' /\ ShownConfigured'
  BY <1>1 DEF Calm, CacheOfIndex, ActionsPrepared, ShownConfigured
<1>3. CASE ListCharts(n)
  <2>1. lists' = {[name |-> n, got |-> None, rest |-> {}, live |-> FALSE]} /\ pulls' = pulls
    BY <1>1, <1>3 DEF ListCharts
  <2> QED
    BY <1>1, <1>2, <2>1 DEF Calm, OneAtATime, ListsOfIndex, UnpackedIsAsked
<1>4. CASE PullChart(n, v, open)
  <2> DEFINE ready == chartVersionMatches(v)
  <2>1. /\ pulls' = {[url |-> config[n], version |-> v, open |-> open,
                      pc |-> IF ready THEN "read" ELSE "pulling"]}
        /\ dir' = (IF ready THEN dir ELSE None) /\ lists' = lists
    BY <1>1, <1>4 DEF PullChart
  <2>2. UnpackedIsAsked'
    BY <2>1 DEF UnpackedIsAsked, chartVersionMatches
  <2> QED
    BY <1>1, <1>2, <2>1, <2>2 DEF Calm, OneAtATime, ListsOfIndex
<1> QED
  BY <1>3, <1>4

\* The steps of a pull at work.
LEMMA CalmPulls ==
  ASSUME TypeOK, Calm, NEW p \in pulls, Unpacked(p) \/ PullFails(p) \/ ReadChart(p)
  PROVE  Calm'
<1>1. /\ pulls = {p} /\ p.url \in Urls /\ p.version \in 1..MaxRev
      /\ UNCHANGED <<config, index, cache, ops, lists, repos>>
  BY DEF Unpacked, PullFails, ReadChart, Calm, OneAtATime, TypeOK
<1>2. /\ (\A o, q \in ops' : o = q) /\ (\A o \in ops' : o.latest /\ o.read)
      /\ (ops' # {} => lists' = {})
      /\ CacheOfIndex' /\ ListsOfIndex' /\ ActionsPrepared' /\ ShownConfigured'
  BY <1>1 DEF Calm, OneAtATime, CacheOfIndex, ListsOfIndex, ActionsPrepared, ShownConfigured
<1>3. CASE Unpacked(p)
  <2> DEFINE q == [p EXCEPT !.pc = "read"]
  <2>1. q.version = p.version
    BY DEF TypeOK
  <2>2. pulls' = {q} /\ dir' = [url |-> p.url, version |-> p.version]
    BY <1>1, <1>3 DEF Unpacked
  <2>3. dir' # None /\ dir'.version = p.version
    BY <1>1, <2>2, SomeIndex
  <2> HIDE DEF q
  <2>4. OneAtATime'
    BY <1>2, <2>2 DEF Calm, OneAtATime
  <2> QED
    BY <1>2, <2>1, <2>2, <2>3, <2>4 DEF Calm, UnpackedIsAsked
<1>4. CASE PullFails(p) \/ ReadChart(p)
  <2>1. pulls' = {}
    BY <1>1, <1>4 DEF PullFails, ReadChart
  <2>2. OneAtATime'
    BY <1>2, <2>1 DEF Calm, OneAtATime
  <2> QED
    BY <1>2, <2>1, <2>2 DEF Calm, UnpackedIsAsked
<1> QED
  BY <1>3, <1>4

-----------------------------------------------------------------------------
(* The theorems.                                                           *)

\* Every step keeps a calm session in order.
LEMMA CalmStep == IInv /\ [Next]_vars => CalmInv'
<1> SUFFICES ASSUME IInv, [Next]_vars, calm' PROVE Calm'
  BY Zenon DEF CalmInv, Calm
<1>1. CASE Restart \/ UNCHANGED vars \/ \E u \in Urls : Publish(u)
  <2>1. ~Restart
    BY DEF Restart
  <2>2. calm /\ UNCHANGED <<config, index, cache, ops, lists, repos, pulls, dir>>
    BY <1>1, <2>1 DEF Publish, vars
  <2>3. Calm
    BY <2>2 DEF IInv, CalmInv, Calm
  <2> QED
    BY <2>2, <2>3 DEF Calm, OneAtATime, CacheOfIndex, ListsOfIndex, ActionsPrepared,
       ShownConfigured, UnpackedIsAsked
<1>2. CASE Dispatches
  <2>1. calm
    BY <1>2, DispatchesEffect, TypesTogether DEF IInv, DispatchEffect
  <2> QED
    BY <1>2, <2>1, CalmDispatch DEF IInv, CalmInv, Calm
<1>3. ASSUME NEW o \in ops,
             \/ Cancelled(o) \/ LoadFile(o) \/ MisreadFile(o) \/ DownloadIndexFile(o)
             \/ Fails(o) \/ BeginWrite(o) \/ EndWrite(o) \/ ListRepos(o)
      PROVE  Calm'
  <2>1. calm /\ ~MisreadFile(o)
    BY <1>3 DEF Cancelled, LoadFile, MisreadFile, DownloadIndexFile, Fails, BeginWrite, EndWrite,
       ListRepos
  <2>2. TypeOK /\ AllBegun /\ NoLostUpdate /\ Calm
    BY <2>1 DEF IInv, CalmInv, Calm
  <2> QED
    BY <1>3, <2>1, <2>2, CalmMoves, CalmDownload, CalmWritten, CalmListed
<1>4. ASSUME NEW l \in lists, loadIndex(l) \/ downloadIndex(l) \/ Skip(l) \/ StoreCharts(l)
      PROVE  Calm'
  <2>1. calm
    BY <1>4 DEF loadIndex, downloadIndex, Skip, StoreCharts
  <2> QED
    BY <1>4, <2>1, CalmListings DEF IInv, CalmInv, Calm
<1>5. ASSUME NEW n \in Names, NEW v \in 1..MaxRev, NEW open \in BOOLEAN,
             ListCharts(n) \/ PullChart(n, v, open)
      PROVE  Calm'
  <2>1. calm
    BY <1>5 DEF ListCharts, PullChart
  <2> QED
    BY <1>5, <2>1, CalmAsked DEF IInv, CalmInv, Calm
<1>6. ASSUME NEW n \in Names, ListCharts(n) PROVE Calm'
  <2>1. 1 \in 1..MaxRev /\ TRUE \in BOOLEAN
    BY RepositoriesAssumption
  <2> QED
    BY <1>5, <1>6, <2>1
<1>7. ASSUME NEW p \in pulls, Unpacked(p) \/ PullFails(p) \/ ReadChart(p) PROVE Calm'
  <2>1. calm
    BY <1>7 DEF Unpacked, PullFails, ReadChart
  <2> QED
    BY <1>7, <2>1, CalmPulls DEF IInv, CalmInv, Calm
<1> QED
  BY <1>1, <1>2, <1>3, <1>4, <1>5, <1>6, <1>7 DEF Next, Dispatches

\* Every step leaves on the values page the version that was asked for.
LEMMA ReadStep == IInv /\ [Next]_vars => ReadIsAsked'
<1> SUFFICES ASSUME IInv, [Next]_vars, calm', opened' # None
             PROVE  opened'.read # None /\ opened'.read.version = opened'.version
  BY DEF ReadIsAsked
<1>1. CASE Restart
  BY <1>1 DEF Restart
<1>2. CASE opened' = opened /\ calm' = calm
  BY <1>2 DEF IInv, ReadIsAsked
<1>3. ASSUME NEW n \in Names, NEW v \in 1..MaxRev, NEW open \in BOOLEAN, PullChart(n, v, open)
      PROVE  opened' = opened /\ calm' = calm
  BY <1>3 DEF PullChart
<1>4. ASSUME NEW p \in pulls, ReadChart(p)
      PROVE  opened'.read # None /\ opened'.read.version = opened'.version
  <2>1. calm /\ p.pc = "read" /\ opened' \in {opened, [version |-> p.version, read |-> dir]}
    BY <1>4 DEF ReadChart
  <2>2. dir # None /\ dir.version = p.version
    BY <2>1 DEF IInv, CalmInv, UnpackedIsAsked
  <2>3. CASE opened' = opened
    BY <2>1, <2>3 DEF IInv, ReadIsAsked
  <2>4. CASE opened' = [version |-> p.version, read |-> dir]
    BY <2>2, <2>4
  <2> QED
    BY <2>1, <2>3, <2>4
<1>5. CASE Dispatches
  BY <1>2, <1>5, DispatchesEffect, TypesTogether DEF IInv, DispatchEffect
<1>6. ASSUME NEW o \in ops,
             \/ Cancelled(o) \/ LoadFile(o) \/ MisreadFile(o) \/ DownloadIndexFile(o)
             \/ Fails(o) \/ BeginWrite(o) \/ EndWrite(o) \/ ListRepos(o)
      PROVE  opened' = opened /\ calm' = calm
  BY <1>6 DEF Cancelled, LoadFile, MisreadFile, DownloadIndexFile, Fails, BeginWrite, EndWrite, ListRepos
<1>7. ASSUME NEW l \in lists, loadIndex(l) \/ downloadIndex(l) \/ Skip(l) \/ StoreCharts(l)
      PROVE  opened' = opened /\ calm' = calm
  BY <1>7 DEF loadIndex, downloadIndex, Skip, StoreCharts
<1>8. ASSUME NEW p \in pulls, Unpacked(p) \/ PullFails(p) PROVE opened' = opened /\ calm' = calm
  BY <1>8 DEF Unpacked, PullFails
<1>9. ASSUME NEW u \in Urls, Publish(u) PROVE opened' = opened /\ calm' = calm
  BY <1>9 DEF Publish
<1>10. ASSUME NEW n \in Names, ListCharts(n) PROVE opened' = opened /\ calm' = calm
  BY <1>10 DEF ListCharts
<1>11. CASE UNCHANGED vars
  BY <1>2, <1>11 DEF vars
<1> QED
  BY <1>1, <1>2, <1>3, <1>4, <1>5, <1>6, <1>7, <1>8, <1>9, <1>10, <1>11 DEF Next, Dispatches

\* Every state has the types, what the actions have found out, and in a calm
\* session what makes the listings and the charts current.
THEOREM RepositoriesInvariant == Spec => []IInv
<1>1. Init => IInv
  BY InitInv
<1>2. IInv /\ [Next]_vars => IInv'
  <2> SUFFICES ASSUME IInv, [Next]_vars PROVE IInv'
    OBVIOUS
  <2>1. PlainTypes /\ OpsTypes /\ HeldInv /\ config \in Configs
    BY TypesTogether DEF IInv, HeldInv, PlainTypes
  <2>2. PlainTypes' /\ OpsTypes' /\ HeldInv'
    BY <2>1, PlainTypesStep, OpsTypesStep, HeldStep DEF HeldInv
  <2>3. TypeOK'
    BY <2>2, Zenon DEF TypeOK, PlainTypes, OpsTypes
  <2>4. AllBegun' /\ NoLostUpdate'
    BY <2>2 DEF HeldInv
  <2> QED
    BY <2>3, <2>4, CalmStep, ReadStep DEF IInv
<1> QED
  BY <1>1, <1>2, PTL DEF Spec

\* The variables keep their types, the mutex of RepoService has one holder,
\* and a truncated repositories.yaml has the action that is writing it.
THEOREM TypeCorrect == Spec => []TypeOK
<1>1. IInv => TypeOK
  BY DEF IInv
<1> QED
  BY <1>1, RepositoriesInvariant, PTL

\* No add, remove or rename that could read repositories.yaml writes over what
\* another one wrote since.
THEOREM UpdatesKept == Spec => []NoLostUpdate
<1>1. IInv => NoLostUpdate
  BY DEF IInv
<1> QED
  BY <1>1, RepositoriesInvariant, PTL

\* In a calm session, once the program is idle, a listing in chartCache is of
\* the index on disk, which is of the repository that has the name.
THEOREM ListingCurrent == Spec => []ListingIsCurrent
<1>1. IInv => ListingIsCurrent
  BY DEF IInv, CalmInv, CacheOfIndex, ListingIsCurrent
<1> QED
  BY <1>1, RepositoriesInvariant, PTL

\* In a calm session PullChart and the page that reads the unpacked chart
\* agree on its version.
THEOREM RightVersion == Spec => []ReadIsAsked
<1>1. IInv => ReadIsAsked
  BY DEF IInv
<1> QED
  BY <1>1, RepositoriesInvariant, PTL

=============================================================================
