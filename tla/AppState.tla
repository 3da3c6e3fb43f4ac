------------------------------ MODULE AppState ------------------------------
(***************************************************************************)
(* infrastructure/storage/json_store.go under service/app_state_service.go: *)
(* data.json as the recent charts of ui/app.go and the focus saver of      *)
(* ui/page/values_controller.go use it.                                    *)
(*                                                                         *)
(* The Application lists, adds and removes recent charts through one       *)
(* Runner; the answer is the list read after the update.  An operation     *)
(* that was superseded, or whose deadline has passed, is not interrupted   *)
(* once it is past its check of the context: it may still write.  The      *)
(* focus saver writes the same file from another goroutine.  The process   *)
(* can end at any point, even between the truncation of the file and the   *)
(* write of its contents: closing the window waits for no goroutine.       *)
(*                                                                         *)
(* A careful user clicks the next chart only after the operation before    *)
(* has ended, and removes one only from a list that answered the last      *)
(* operation; careful is a property of the user, fixed at the start.       *)
(***************************************************************************)
EXTENDS AppData

CONSTANTS
  NoJob,     \* the job of an operation that was not called
  MaxTasks   \* bound on the operations, of all runs of the program

ASSUME AppStateAssumption == MaxTasks \in Nat \ {0}

VARIABLES
  careful,  \* what kind of user this is
  disk,     \* data.json
  mutex,    \* the operation that holds JSONStore.mu, 0 for none
  loaded,   \* what the holder has read
  called,   \* how many operations were called
  job,      \* what each of them is to do
  phase,    \* where its goroutine is
  current,  \* the one recentChartsRunner can still deliver, 0 for none
  answer,   \* the list it has read
  shown,    \* RepoPageState.RecentCharts
  fresh,    \* the list shown answered the last operation
  clock,    \* how often a UI state was stamped
  saved     \* for each key, the stamp of its last save that reached the disk

vars == <<careful, disk, mutex, loaded, called, job, phase, current, answer,
          shown, fresh, clock, saved>>

Tasks == 1..MaxTasks

Jobs == [do : {"list"}]
        \union [do : {"add"}, chart : Charts]
        \union [do : {"remove"}, chart : Charts, index : 1..MaxRecentCharts]
        \union [do : {"touch"}, key : Keys, at : 1..MaxTouches]

Lists == BoundedSeq(Charts, MaxRecentCharts)

\* Whatever was read or written, the stored list is within its limit.
TypeOK ==
  /\ careful \in BOOLEAN /\ fresh \in BOOLEAN
  /\ disk \in AppDataType \union {Unreadable}
  /\ mutex \in 0..MaxTasks /\ current \in 0..MaxTasks /\ called \in 0..MaxTasks
  /\ loaded \in AppDataType
  /\ job \in [Tasks -> Jobs \union {NoJob}]
  /\ phase \in [Tasks -> {"none", "called", "updating", "loaded", "writing",
                          "listing", "answered", "failed", "ended"}]
  /\ answer \in Lists /\ shown \in Lists
  /\ clock \in 0..MaxTouches
  /\ saved \in [Keys -> 0..MaxTouches]

\* The program starts with a call of loadRecentCharts.
Init ==
  /\ careful \in BOOLEAN
  /\ disk = Empty
  /\ mutex = 0
  /\ loaded = Empty
  /\ called = 1
  /\ job = [t \in Tasks |-> IF t = 1 THEN [do |-> "list"] ELSE NoJob]
  /\ phase = [t \in Tasks |-> IF t = 1 THEN "called" ELSE "none"]
  /\ current = 1
  /\ answer = <<>>
  /\ shown = <<>>
  /\ fresh = FALSE
  /\ clock = 0
  /\ saved = [k \in Keys |-> 0]

Live(t)   == phase[t] \notin {"none", "ended"}
Saving(t) == Live(t) /\ job[t].do = "touch"
Quiet     == \A t \in Tasks : Live(t) => Saving(t)
User      == careful => Quiet

-----------------------------------------------------------------------------
(* The calls, on the UI thread.                                            *)

Call(j) ==
  /\ called < MaxTasks
  /\ called' = called + 1
  /\ job' = [job EXCEPT ![called + 1] = j]

\* recentChartsRunner.RunWithTimeout: what the one before has answered is drained.
Dispatch(j) ==
  /\ Call(j)
  /\ current' = called + 1
  /\ phase' = [t \in Tasks |-> IF t = called + 1 THEN "called"
                               ELSE IF phase[t] \in {"answered", "failed"} THEN "ended"
                               ELSE phase[t]]
  /\ fresh' = FALSE
  /\ UNCHANGED <<careful, disk, mutex, loaded, answer, shown, clock, saved>>

loadRecentCharts == User /\ Dispatch([do |-> "list"])

addRecentChart(chart) == User /\ Dispatch([do |-> "add", chart |-> chart])

onRemoveRecentChart(i) ==
  /\ User /\ (careful => fresh)
  /\ Dispatch([do |-> "remove", chart |-> shown[i], index |-> i])

\* The Debouncer of the focus saver has one save at a time.
SaveChartUIState(key) ==
  /\ \A t \in Tasks : ~Saving(t)
  /\ clock < MaxTouches
  /\ clock' = clock + 1
  /\ Call([do |-> "touch", key |-> key, at |-> clock + 1])
  /\ phase' = [phase EXCEPT ![called + 1] = "updating"]
  /\ UNCHANGED <<careful, disk, mutex, loaded, current, answer, shown, fresh, saved>>

\* The answer is shown; a failure leaves the list as it is.
PollRecentCharts ==
  /\ current # 0 /\ phase[current] \in {"answered", "failed"}
  /\ shown' = IF phase[current] = "answered" THEN answer ELSE shown
  /\ fresh' = (phase[current] = "answered")
  /\ phase' = [phase EXCEPT ![current] = "ended"]
  /\ current' = 0
  /\ UNCHANGED <<careful, disk, mutex, loaded, called, job, answer, clock, saved>>

\* The deadline of the operation passes: nothing will be delivered.
Expire ==
  /\ current # 0
  /\ current' = 0
  /\ phase' = [phase EXCEPT ![current] = IF @ \in {"answered", "failed"} THEN "ended" ELSE @]
  /\ UNCHANGED <<careful, disk, mutex, loaded, called, job, answer, shown, fresh, clock, saved>>

-----------------------------------------------------------------------------
(* The operations, each in a goroutine of its own.                         *)

Cancelled(t) == job[t].do # "touch" /\ t # current

Finished(t, outcome) ==
  phase' = [phase EXCEPT ![t] = IF t = current THEN outcome ELSE "ended"]

Quietly == UNCHANGED <<careful, called, job, current, shown, fresh, clock>>

\* The checks of the context before the store is locked.
Begin(t) ==
  /\ phase[t] = "called"
  /\ \/ Cancelled(t) /\ Finished(t, "failed")
     \/ /\ ~Cancelled(t)
        /\ phase' = [phase EXCEPT ![t] = IF job[t].do = "list" THEN "listing" ELSE "updating"]
  /\ UNCHANGED <<disk, mutex, loaded, answer, saved>> /\ Quietly

\* Mutant: what cannot be unmarshalled is taken for a file that is not there.
loadedLeniently == IF disk = Unreadable THEN Empty ELSE disk

\* Unreadable stands for the error as well: Unmarshal fails.
loadLocked == disk

\* removeAt checks the index against the list it has read.
Applicable(t, data) ==
  data # Unreadable /\ (job[t].do = "remove" => job[t].index \in DOMAIN data.recents)

\* Mutant: only the write is locked.
LoadUnlocked(t) ==
  /\ phase[t] = "updating"
  /\ Applicable(t, loadLocked)
  /\ mutex' = t
  /\ loaded' = loadLocked
  /\ phase' = [phase EXCEPT ![t] = "loaded"]
  /\ UNCHANGED <<disk, answer, saved>> /\ Quietly

\* Update: lock and load.
Load(t) ==
  /\ phase[t] = "updating" /\ mutex = 0
  /\ Applicable(t, loadLocked)
  /\ mutex' = t
  /\ loaded' = loadLocked
  /\ phase' = [phase EXCEPT ![t] = "loaded"]
  /\ UNCHANGED <<disk, answer, saved>> /\ Quietly

LoadFails(t) ==
  /\ phase[t] = "updating" /\ mutex = 0
  /\ ~Applicable(t, loadLocked)
  /\ Finished(t, "failed")
  /\ UNCHANGED <<disk, mutex, loaded, answer, saved>> /\ Quietly

Updated(j, data) ==
  CASE j.do = "add"    -> Added(data, j.chart)
    [] j.do = "remove" -> Removed(data, j.index)
    [] j.do = "touch"  -> Touched(data, j.key, j.at)

\* os.WriteFile truncates the file.
BeginWrite(t) ==
  /\ phase[t] = "loaded"
  /\ disk' = Unreadable
  /\ phase' = [phase EXCEPT ![t] = "writing"]
  /\ UNCHANGED <<mutex, loaded, answer, saved>> /\ Quietly

EndWrite(t) ==
  /\ phase[t] = "writing"
  /\ disk' = Updated(job[t], loaded)
  /\ mutex' = 0
  /\ IF job[t].do = "touch"
     THEN /\ phase' = [phase EXCEPT ![t] = "ended"]
          /\ saved' = [saved EXCEPT ![job[t].key] = job[t].at]
     ELSE /\ phase' = [phase EXCEPT ![t] = "listing"]
          /\ UNCHANGED saved
  /\ UNCHANGED <<loaded, answer>> /\ Quietly

\* The file cannot be opened, or cannot be written to its end.
WriteFails(t) ==
  /\ phase[t] \in {"loaded", "writing"}
  /\ mutex' = 0
  /\ Finished(t, "failed")
  /\ UNCHANGED <<disk, loaded, answer, saved>> /\ Quietly

\* ListRecentCharts, after the update of the same operation.
ListRecentCharts(t) ==
  /\ phase[t] = "listing" /\ (Cancelled(t) \/ mutex = 0)
  /\ IF loadLocked = Unreadable
     THEN Finished(t, "failed") /\ UNCHANGED answer
     ELSE /\ Finished(t, "answered")
          /\ answer' = IF t = current THEN loadLocked.recents ELSE answer
  /\ UNCHANGED <<disk, mutex, loaded, saved>> /\ Quietly

-----------------------------------------------------------------------------

\* The process ends, wherever its goroutines are, and is started again.
Restart ==
  /\ Call([do |-> "list"])
  /\ phase' = [t \in Tasks |-> IF t = called + 1 THEN "called"
                               ELSE IF phase[t] = "none" THEN "none" ELSE "ended"]
  /\ current' = called + 1
  /\ mutex' = 0
  /\ shown' = <<>>
  /\ fresh' = FALSE
  /\ UNCHANGED <<careful, disk, loaded, answer, clock, saved>>

Next ==
  \/ loadRecentCharts \/ PollRecentCharts \/ Expire \/ Restart
  \/ \E chart \in Charts : addRecentChart(chart)
  \/ \E i \in DOMAIN shown : onRemoveRecentChart(i)
  \/ \E key \in Keys : SaveChartUIState(key)
  \/ \E t \in Tasks : Begin(t) \/ Load(t) \/ LoadFails(t) \/ BeginWrite(t) \/ EndWrite(t)
                        \/ WriteFails(t) \/ ListRecentCharts(t)

Spec == Init /\ [][Next]_vars

-----------------------------------------------------------------------------

\* "The store lock is held for the entire read-modify-write cycle, preventing
\* interleaved updates from concurrent callers": to the program, the file
\* changes by whole updates, none of which undoes another.
Store == INSTANCE AtomicAppData WITH
           data <- IF disk = Unreadable /\ mutex # 0 THEN loaded ELSE disk
Implements == Store!Spec

\* The UI states that are kept are the MaxChartUIStates ones saved last.
LeastRecentIsEvicted ==
  disk # Unreadable =>
    \A k \in Keys :
      \/ disk.touched[k] = saved[k]
      \/ /\ disk.touched[k] = 0
         /\ Cardinality({l \in Keys : saved[l] > saved[k]}) >= MaxChartUIStates

\* The step in which the update of operation t reaches the disk.
Commits(t, do) == phase[t] = "writing" /\ phase'[t] = "listing" /\ job[t].do = do

\* When a careful user removes a recent chart, the chart removed is the one
\* whose button was clicked, although only its index was passed on.
ClickedIsRemoved ==
  [][\A t \in Tasks : careful /\ Commits(t, "remove") =>
       /\ job[t].chart \notin Range(disk'.recents)
       /\ Range(loaded.recents) \ {job[t].chart} \subseteq Range(disk'.recents)]_vars

\* A file that was left half written is never overwritten, by this run of the
\* program or a later one: what can be saved by hand stays, and every later
\* update fails.
UnreadableIsKept == [](disk = Unreadable /\ mutex = 0 => [](disk = Unreadable))

\* "AddRecentChart adds a chart to the recent list, deduplicating and enforcing
\* max limit": the other charts stay while there is room.
AddKeepsOthers ==
  [][\A t \in Tasks : Commits(t, "add") /\ Len(loaded.recents) < MaxRecentCharts =>
       Range(loaded.recents) \subseteq Range(disk'.recents)]_vars
=============================================================================
