---------------------------- MODULE AppState_proofs ----------------------------
(***************************************************************************)
(* JSONStore.Update under any number of operations, charts and restarts is *)
(* an atomic update of data.json, a file that was left half written is     *)
(* never overwritten, the limits on what is kept hold, and the recent      *)
(* chart that was clicked is the one that is removed.                      *)
(***************************************************************************)
EXTENDS AppState, SequenceTheorems, FiniteSetTheorems, TLAPS

Phases == {"none", "called", "updating", "loaded", "writing",
           "listing", "answered", "failed", "ended"}

Shape ==
  /\ mutex \in 0..MaxTasks /\ called \in 0..MaxTasks /\ clock \in 0..MaxTouches
  /\ phase \in [Tasks -> Phases]
  /\ job = [t \in Tasks |-> job[t]]

\* Something an update can make of the data.
Known(j) ==
  /\ j.do \in {"list", "add", "remove", "touch"}
  /\ j.do = "add" => j.chart \in Charts
  /\ j.do = "touch" => j.key \in Keys /\ j.at \in 1..MaxTouches

\* Exactly the operations that were called have something to do, and one that
\* only lists does not update.
JobsKnown ==
  \A t \in Tasks :
    /\ phase[t] = "none" <=> t > called
    /\ phase[t] # "none" => Known(job[t])
    /\ phase[t] \in {"updating", "loaded", "writing"} => job[t].do # "list"

\* Who holds the mutex has read the file, which is as it was read until it is
\* truncated, and can apply its update to what it has read.
Locked ==
  \A t \in Tasks :
    /\ phase[t] \in {"loaded", "writing"} <=> mutex = t
    /\ phase[t] = "loaded" => disk = loaded
    /\ phase[t] = "writing" => disk = Unreadable
    /\ mutex = t => Applicable(t, loaded)

Stamped(data) == "touched" \in DOMAIN data /\ data.touched \in [Keys -> 0..clock]
Older(data)   == \A k \in Keys : data.touched[k] < clock

\* The one UI state on its way is newer than what was read and what is stored.
NewestLast ==
  /\ disk # Unreadable => Stamped(disk)
  /\ mutex # 0 => Stamped(loaded)
  /\ \A s, t \in Tasks : Saving(s) /\ Saving(t) => s = t
  /\ \A t \in Tasks : Saving(t) =>
       /\ job[t].at = clock
       /\ disk # Unreadable => Older(disk)
       /\ mutex # 0 => Older(loaded)

IInv == Shape /\ JobsKnown /\ Locked /\ NewestLast

-----------------------------------------------------------------------------
(* The invariant.                                                          *)

\* The program starts in the invariant.
LEMMA InitInv == Init => IInv
<1> SUFFICES ASSUME Init PROVE IInv
  OBVIOUS
<1> USE AppStateAssumption, AppDataAssumption DEF Init, Tasks
<1>1. Shape
  BY DEF Shape, Phases
<1>2. JobsKnown
  <2>1. \A t \in Tasks : phase[t] = IF t = 1 THEN "called" ELSE "none"
    OBVIOUS
  <2>2. job[1] = [do |-> "list"]
    OBVIOUS
  <2> QED
    BY <2>1, <2>2 DEF JobsKnown, Known
<1>3. Locked
  BY DEF Locked
<1>4. NewestLast
  <2>1. Stamped(disk)
    BY DEF Stamped, Empty
  <2>2. \A t \in Tasks : ~Saving(t)
    BY DEF Saving, Live
  <2> QED
    BY <2>1, <2>2 DEF NewestLast
<1> QED
  BY <1>1, <1>2, <1>3, <1>4 DEF IInv

\* A new operation takes a place nothing was called at.
LEMMA CallFacts ==
  ASSUME IInv, NEW j, Call(j)
  PROVE  /\ called + 1 \in Tasks /\ phase[called + 1] = "none" /\ mutex # called + 1
         /\ called' \in 0..MaxTasks
         /\ job' = [t \in Tasks |-> job'[t]] /\ job'[called + 1] = j
         /\ \A t \in Tasks : t # called + 1 => job'[t] = job[t]
<1>1. called + 1 \in Tasks /\ called' = called + 1 /\ called' \in 0..MaxTasks
  BY AppStateAssumption DEF IInv, Shape, Call, Tasks
<1>2. phase[called + 1] = "none"
  BY <1>1 DEF IInv, Shape, JobsKnown
<1>3. mutex # called + 1
  BY <1>1, <1>2 DEF IInv, Locked
<1>4. job' = [job EXCEPT ![called + 1] = j]
  BY DEF Call
<1>5. job' = [t \in Tasks |-> job'[t]] /\ job'[called + 1] = j
      /\ \A t \in Tasks : t # called + 1 => job'[t] = job[t]
  BY <1>1, <1>4 DEF IInv, Shape
<1> QED
  BY <1>1, <1>2, <1>3, <1>5

\* The operations called after one more call.
LEMMA CalledNext ==
  ASSUME Shape, NEW t \in Tasks
  PROVE  t > called + 1 <=> t > called /\ t # called + 1
BY AppStateAssumption DEF Shape, Tasks

\* Steps that neither take nor give back the mutex.
Aside ==
  /\ UNCHANGED <<disk, mutex, loaded, called, job, clock>>
  /\ phase' \in [Tasks -> Phases]
  /\ \A t \in Tasks :
       \/ phase'[t] = phase[t]
       \/ /\ phase[t] \in {"called", "updating", "listing", "answered", "failed"}
          /\ phase'[t] \in {"updating", "listing", "answered", "failed", "ended"}
          /\ phase'[t] = "updating" => job[t].do # "list"

\* They keep the invariant, whatever else they do.
LEMMA AsideInv == IInv /\ Aside => IInv'
<1> SUFFICES ASSUME IInv, Aside PROVE IInv'
  OBVIOUS
<1>1. Shape'
  BY DEF IInv, Shape, Aside
<1>2. JobsKnown'
  BY DEF IInv, JobsKnown, Aside
<1>3. Locked'
  BY DEF IInv, Locked, Aside, Applicable
<1>4. \A t \in Tasks : Saving(t)' => Saving(t)
  BY DEF Saving, Live, Aside
<1>5. NewestLast'
  BY <1>4 DEF IInv, NewestLast, Stamped, Older, Aside
<1> QED
  BY <1>1, <1>2, <1>3, <1>5 DEF IInv

\* Polls, deadlines and the steps of an operation before and after its update.
AsideSteps ==
  \/ PollRecentCharts \/ Expire
  \/ \E t \in Tasks : Begin(t) \/ LoadFails(t) \/ ListRecentCharts(t)
  \/ UNCHANGED vars

\* Polls, deadlines and the other steps of an operation are such steps.
LEMMA AsideStepsInv == IInv /\ AsideSteps => Aside
<1> SUFFICES ASSUME IInv, AsideSteps PROVE Aside
  OBVIOUS
<1>1. phase \in [Tasks -> Phases]
  BY DEF IInv, Shape
<1>2. CASE PollRecentCharts
  BY <1>1, <1>2 DEF PollRecentCharts, Aside, Phases
<1>3. CASE Expire
  BY <1>1, <1>3 DEF Expire, Aside, Phases
<1>4. ASSUME NEW t \in Tasks, Begin(t)
      PROVE  Aside
  BY <1>1, <1>4 DEF Begin, Quietly, Finished, Aside, Phases
<1>5. ASSUME NEW t \in Tasks, LoadFails(t)
      PROVE  Aside
  BY <1>1, <1>5 DEF LoadFails, Quietly, Finished, Aside, Phases
<1>6. ASSUME NEW t \in Tasks, ListRecentCharts(t)
      PROVE  Aside
  BY <1>1, <1>6 DEF ListRecentCharts, Quietly, Finished, Aside, Phases
<1>7. CASE UNCHANGED vars
  BY <1>1, <1>7 DEF vars, Aside
<1> QED
  BY <1>2, <1>3, <1>4, <1>5, <1>6, <1>7 DEF AsideSteps

\* What the user does with the recent charts.
DispatchSteps ==
  \/ loadRecentCharts \/ \E chart \in Charts : addRecentChart(chart)
  \/ \E i \in DOMAIN shown : onRemoveRecentChart(i)

\* They keep the invariant: a new operation has something to do.
LEMMA DispatchStepsInv == IInv /\ DispatchSteps => IInv'
<1> SUFFICES ASSUME IInv, DispatchSteps PROVE IInv'
  OBVIOUS
<1>1. PICK j : Known(j) /\ j.do # "touch" /\ Dispatch(j)
  BY DEF DispatchSteps, loadRecentCharts, addRecentChart, onRemoveRecentChart, Known
<1>2. /\ called + 1 \in Tasks /\ phase[called + 1] = "none" /\ mutex # called + 1
      /\ called' \in 0..MaxTasks /\ called' = called + 1
      /\ job' = [t \in Tasks |-> job'[t]] /\ job'[called + 1] = j
      /\ \A t \in Tasks : t # called + 1 => job'[t] = job[t]
  BY <1>1, CallFacts DEF Dispatch, Call
<1>3. /\ phase' = [t \in Tasks |-> IF t = called + 1 THEN "called"
                                  ELSE IF phase[t] \in {"answered", "failed"} THEN "ended"
                                  ELSE phase[t]]
      /\ UNCHANGED <<disk, mutex, loaded, clock>>
  BY <1>1 DEF Dispatch
<1>4. phase' \in [Tasks -> Phases]
  BY <1>3 DEF IInv, Shape, Phases
<1>5. Shape'
  BY <1>2, <1>3, <1>4 DEF IInv, Shape
<1>6. JobsKnown'
  <2>1. \A t \in Tasks : phase'[t] = IF t = called + 1 THEN "called"
                                     ELSE IF phase[t] \in {"answered", "failed"} THEN "ended"
                                     ELSE phase[t]
    BY <1>3
  <2> QED
    BY <1>1, <1>2, <2>1, CalledNext DEF JobsKnown, IInv, Phases
<1>7. Locked'
  BY <1>2, <1>3 DEF IInv, Locked, Applicable
<1>8. \A t \in Tasks : Saving(t)' => Saving(t) /\ job'[t] = job[t]
  BY <1>1, <1>2, <1>3 DEF Saving, Live
<1>9. NewestLast'
  BY <1>3, <1>8 DEF IInv, NewestLast, Stamped, Older
<1> QED
  BY <1>5, <1>6, <1>7, <1>9 DEF IInv

\* A UI state is stamped newer than every other.
LEMMA SaveInv == \A key \in Keys : IInv /\ SaveChartUIState(key) => IInv'
<1> SUFFICES ASSUME NEW key \in Keys, IInv, SaveChartUIState(key) PROVE IInv'
  OBVIOUS
<1> DEFINE j == [do |-> "touch", key |-> key, at |-> clock + 1]
<1>1. /\ \A t \in Tasks : ~Saving(t)
      /\ clock < MaxTouches /\ clock' = clock + 1 /\ Call(j)
      /\ phase' = [phase EXCEPT ![called + 1] = "updating"]
      /\ UNCHANGED <<disk, mutex, loaded>>
  BY DEF SaveChartUIState
<1>2. clock \in Nat /\ clock' \in 1..MaxTouches
  BY <1>1, AppDataAssumption DEF IInv, Shape
<1>3. /\ called + 1 \in Tasks /\ phase[called + 1] = "none" /\ mutex # called + 1
      /\ called' \in 0..MaxTasks /\ called' = called + 1
      /\ job' = [t \in Tasks |-> job'[t]] /\ job'[called + 1] = j
      /\ \A t \in Tasks : t # called + 1 => job'[t] = job[t]
  BY <1>1, CallFacts DEF Call
<1>4. \A t \in Tasks : phase'[t] = IF t = called + 1 THEN "updating" ELSE phase[t]
  BY <1>1 DEF IInv, Shape
<1>5. Shape'
  <2>1. phase' \in [Tasks -> Phases]
    BY <1>1 DEF IInv, Shape, Phases
  <2> QED
    BY <1>1, <1>2, <1>3, <2>1 DEF IInv, Shape
<1>6. Known(j) /\ j.do # "list"
  BY <1>2, <1>1 DEF Known
<1>7. JobsKnown'
  <2> HIDE DEF j
  <2> QED
    BY <1>3, <1>4, <1>6, CalledNext DEF JobsKnown, IInv
<1>8. Locked'
  BY <1>1, <1>3, <1>4 DEF IInv, Locked, Applicable
<1>9. \A t \in Tasks : Saving(t)' => t = called + 1
  BY <1>1, <1>3, <1>4 DEF Saving, Live
<1>10. ASSUME NEW d, Stamped(d)
       PROVE  /\ "touched" \in DOMAIN d /\ d.touched \in [Keys -> 0..clock']
              /\ \A k \in Keys : d.touched[k] < clock'
  BY <1>1, <1>2, <1>10 DEF Stamped
<1>11. disk' # Unreadable => Stamped(disk)' /\ Older(disk)'
  BY <1>1, <1>10 DEF IInv, NewestLast, Stamped, Older
<1>12. mutex' # 0 => Stamped(loaded)' /\ Older(loaded)'
  BY <1>1, <1>10 DEF IInv, NewestLast, Stamped, Older
<1>13. job'[called + 1].at = clock'
  BY <1>1, <1>3
<1>14. NewestLast'
  BY <1>9, <1>11, <1>12, <1>13 DEF NewestLast
<1> QED
  BY <1>5, <1>7, <1>8, <1>14 DEF IInv

\* An operation that reads the file holds the mutex, and nobody else does.
LEMMA LoadInv == \A t \in Tasks : IInv /\ Load(t) => IInv'
<1> SUFFICES ASSUME NEW t \in Tasks, IInv, Load(t) PROVE IInv'
  OBVIOUS
<1>1. /\ phase[t] = "updating" /\ mutex = 0 /\ mutex' = t /\ loaded' = disk
      /\ Applicable(t, disk)
      /\ phase' = [phase EXCEPT ![t] = "loaded"]
      /\ UNCHANGED <<disk, called, job, clock>>
  BY DEF Load, loadLocked, Quietly
<1>2. \A s \in Tasks : phase'[s] = IF s = t THEN "loaded" ELSE phase[s]
  BY <1>1 DEF IInv, Shape
<1>3. \A s \in Tasks : s # 0
  BY DEF Tasks
<1>4. Shape'
  BY <1>1 DEF IInv, Shape, Phases, Tasks
<1>5. JobsKnown'
  BY <1>1, <1>2 DEF IInv, JobsKnown
<1>6. Locked'
  BY <1>1, <1>2, <1>3 DEF IInv, Locked, Applicable
<1>7. \A s \in Tasks : Saving(s)' => Saving(s)
  BY <1>1, <1>2 DEF Saving, Live
<1>8. disk # Unreadable
  BY <1>1 DEF Applicable
<1>9. NewestLast'
  BY <1>1, <1>7, <1>8 DEF IInv, NewestLast, Stamped, Older
<1> QED
  BY <1>4, <1>5, <1>6, <1>9 DEF IInv

\* Truncating the file, which its writer has read.
LEMMA BeginWriteInv == \A t \in Tasks : IInv /\ BeginWrite(t) => IInv'
<1> SUFFICES ASSUME NEW t \in Tasks, IInv, BeginWrite(t) PROVE IInv'
  OBVIOUS
<1>1. /\ phase[t] = "loaded" /\ disk' = Unreadable
      /\ phase' = [phase EXCEPT ![t] = "writing"]
      /\ UNCHANGED <<mutex, loaded, called, job, clock>>
  BY DEF BeginWrite, Quietly
<1>2. \A s \in Tasks : phase'[s] = IF s = t THEN "writing" ELSE phase[s]
  BY <1>1 DEF IInv, Shape
<1>3. Shape'
  BY <1>1 DEF IInv, Shape, Phases
<1>4. JobsKnown'
  BY <1>1, <1>2 DEF IInv, JobsKnown
<1>5. Locked'
  BY <1>1, <1>2 DEF IInv, Locked, Applicable
<1>6. \A s \in Tasks : Saving(s)' => Saving(s)
  BY <1>1, <1>2 DEF Saving, Live
<1>7. NewestLast'
  BY <1>1, <1>6 DEF IInv, NewestLast, Stamped, Older
<1> QED
  BY <1>3, <1>4, <1>5, <1>7 DEF IInv

\* What an update makes of data that is stamped is stamped; one of a recent
\* chart leaves the stamps alone.
LEMMA UpdatedStamps ==
  ASSUME NEW j, Known(j), j.do # "list", NEW data, Stamped(data),
         clock \in Nat, j.do = "touch" => j.at = clock
  PROVE  /\ Stamped(Updated(j, data))
         /\ j.do # "touch" => Updated(j, data).touched = data.touched
<1>1. CASE j.do = "add"
  <2>1. PICK list : Updated(j, data) = [data EXCEPT !.recents = list]
    BY <1>1 DEF Updated, Added
  <2> QED
    BY <1>1, <2>1 DEF Stamped
<1>2. CASE j.do = "remove"
  <2>1. PICK list : Updated(j, data) = [data EXCEPT !.recents = list]
    BY <1>2 DEF Updated, Removed
  <2> QED
    BY <1>2, <2>1 DEF Stamped
<1>3. CASE j.do = "touch"
  <2> DEFINE put    == [data.touched EXCEPT ![j.key] = j.at]
             others == {k \in Keys \ {j.key} : put[k] > 0}
             oldest == {k \in others : \A l \in others : put[k] <= put[l]}
             without == [k \in Keys |-> IF k \in oldest THEN 0 ELSE put[k]]
  <2>1. Updated(j, data) = [data EXCEPT !.touched =
                              IF Cardinality(others) < MaxChartUIStates THEN put ELSE without]
    BY <1>3 DEF Updated, Touched
  <2>2. put \in [Keys -> 0..clock]
    BY <1>3 DEF Stamped, Known
  <2>3. without \in [Keys -> 0..clock]
    <3>1. \A k \in Keys : put[k] \in 0..clock
      BY <2>2
    <3> HIDE DEF put, oldest
    <3> QED
      BY <3>1
  <2> HIDE DEF put, without, others
  <2>4. Updated(j, data).touched \in [Keys -> 0..clock]
    BY <2>1, <2>2, <2>3 DEF Stamped
  <2>5. "touched" \in DOMAIN Updated(j, data)
    BY <2>1 DEF Stamped
  <2> QED
    BY <1>3, <2>4, <2>5 DEF Stamped
<1> QED
  BY <1>1, <1>2, <1>3 DEF Known

\* The update of the holder of the mutex reaches the disk.
LEMMA EndWriteInv == \A t \in Tasks : IInv /\ EndWrite(t) => IInv'
<1> SUFFICES ASSUME NEW t \in Tasks, IInv, EndWrite(t) PROVE IInv'
  OBVIOUS
<1>1. /\ phase[t] = "writing" /\ disk' = Updated(job[t], loaded) /\ mutex' = 0
      /\ phase' = [phase EXCEPT ![t] = IF job[t].do = "touch" THEN "ended" ELSE "listing"]
      /\ UNCHANGED <<loaded, called, job, clock>>
  BY DEF EndWrite, Quietly
<1>2. \A s \in Tasks : phase'[s] = IF s = t THEN (IF job[t].do = "touch" THEN "ended" ELSE "listing")
                                   ELSE phase[s]
  BY <1>1 DEF IInv, Shape
<1>3. mutex = t /\ t # 0
  BY <1>1 DEF IInv, Locked, Tasks
<1>4. Shape'
  BY <1>1, AppStateAssumption DEF IInv, Shape, Phases
<1>5. JobsKnown'
  BY <1>1, <1>2 DEF IInv, JobsKnown
<1>6. Locked'
  <2>1. \A s \in Tasks : s # 0
    BY DEF Tasks
  <2> QED
    BY <1>1, <1>2, <1>3, <2>1 DEF IInv, Locked
<1>7. /\ Known(job[t]) /\ job[t].do # "list" /\ Stamped(loaded)
      /\ job[t].do = "touch" => Saving(t) /\ job[t].at = clock
  BY <1>1, <1>3 DEF IInv, JobsKnown, NewestLast, Saving, Live
<1>8. /\ Stamped(disk)'
      /\ job[t].do # "touch" => disk'.touched = loaded.touched
  BY <1>1, <1>7, UpdatedStamps DEF IInv, Shape, Stamped
<1>9. \A s \in Tasks : Saving(s)' => Saving(s) /\ s # t /\ job[t].do # "touch"
  <2>1. ASSUME NEW s \in Tasks, Saving(s)'
        PROVE  Saving(s) /\ s # t
    BY <1>1, <1>2, <2>1 DEF Saving, Live
  <2>2. ASSUME NEW s \in Tasks, Saving(s), s # t
        PROVE  job[t].do # "touch"
    BY <1>7, <2>2 DEF IInv, NewestLast
  <2> QED
    BY <2>1, <2>2
<1>10. NewestLast'
  BY <1>1, <1>3, <1>8, <1>9 DEF IInv, NewestLast, Older
<1> QED
  BY <1>4, <1>5, <1>6, <1>10 DEF IInv

\* A write that fails leaves the file as it is and gives the mutex back.
LEMMA WriteFailsInv == \A t \in Tasks : IInv /\ WriteFails(t) => IInv'
<1> SUFFICES ASSUME NEW t \in Tasks, IInv, WriteFails(t) PROVE IInv'
  OBVIOUS
<1>1. PICK end \in {"failed", "ended"} : phase' = [phase EXCEPT ![t] = end]
  BY DEF WriteFails, Finished
<1>2. /\ phase[t] \in {"loaded", "writing"} /\ mutex' = 0
      /\ UNCHANGED <<disk, loaded, called, job, clock>>
  BY DEF WriteFails, Quietly
<1>3. \A s \in Tasks : phase'[s] = IF s = t THEN end ELSE phase[s]
  BY <1>1 DEF IInv, Shape
<1>4. mutex = t
  BY <1>2 DEF IInv, Locked
<1>5. Shape'
  BY <1>1, <1>2, AppStateAssumption DEF IInv, Shape, Phases
<1>6. JobsKnown'
  BY <1>2, <1>3 DEF IInv, JobsKnown
<1>7. Locked'
  <2>1. \A s \in Tasks : s # 0
    BY DEF Tasks
  <2> QED
    BY <1>2, <1>3, <1>4, <2>1 DEF IInv, Locked
<1>8. \A s \in Tasks : Saving(s)' => Saving(s)
  BY <1>2, <1>3 DEF Saving, Live
<1>9. NewestLast'
  BY <1>2, <1>8 DEF IInv, NewestLast, Stamped, Older
<1> QED
  BY <1>5, <1>6, <1>7, <1>9 DEF IInv

\* Every operation of the run before has ended.
LEMMA RestartInv == IInv /\ Restart => IInv'
<1> SUFFICES ASSUME IInv, Restart PROVE IInv'
  OBVIOUS
<1> DEFINE j == [do |-> "list"]
<1>1. /\ Call(j) /\ mutex' = 0 /\ UNCHANGED <<disk, loaded, clock>>
      /\ phase' = [t \in Tasks |-> IF t = called + 1 THEN "called"
                                   ELSE IF phase[t] = "none" THEN "none" ELSE "ended"]
  BY DEF Restart
<1>2. /\ called + 1 \in Tasks /\ phase[called + 1] = "none"
      /\ called' \in 0..MaxTasks /\ called' = called + 1
      /\ job' = [t \in Tasks |-> job'[t]] /\ job'[called + 1] = j
      /\ \A t \in Tasks : t # called + 1 => job'[t] = job[t]
  BY <1>1, CallFacts DEF Call
<1>3. \A t \in Tasks : phase'[t] = IF t = called + 1 THEN "called"
                                   ELSE IF phase[t] = "none" THEN "none" ELSE "ended"
  BY <1>1
<1>4. Shape'
  <2>1. phase' \in [Tasks -> Phases]
    BY <1>1 DEF Phases
  <2> QED
    BY <1>1, <1>2, <2>1, AppStateAssumption DEF IInv, Shape
<1>5. Known(j) /\ j.do = "list"
  BY DEF Known
<1>6. JobsKnown'
  <2> HIDE DEF j
  <2> QED
    BY <1>2, <1>3, <1>5, CalledNext DEF IInv, JobsKnown
<1>7. Locked'
  <2>1. \A s \in Tasks : s # 0
    BY DEF Tasks
  <2> QED
    BY <1>1, <1>3, <2>1 DEF Locked
<1>8. \A t \in Tasks : ~Saving(t)'
  BY <1>2, <1>3 DEF Saving, Live
<1>9. NewestLast'
  BY <1>1, <1>8 DEF IInv, NewestLast, Stamped
<1> QED
  BY <1>4, <1>6, <1>7, <1>9 DEF IInv

\* Every step is of one of these kinds.
LEMMA StepKinds ==
  ASSUME [Next]_vars
  PROVE  \/ AsideSteps \/ DispatchSteps \/ Restart
         \/ \E key \in Keys : SaveChartUIState(key)
         \/ \E t \in Tasks : Load(t) \/ BeginWrite(t) \/ EndWrite(t) \/ WriteFails(t)
BY DEF Next, AsideSteps, DispatchSteps

\* Every step keeps the invariant.
LEMMA StepInv == IInv /\ [Next]_vars => IInv'
BY StepKinds, AsideStepsInv, AsideInv, DispatchStepsInv, SaveInv, LoadInv, BeginWriteInv,
   EndWriteInv, WriteFailsInv, RestartInv

\* The invariant on which the rest of this module depends: who holds the mutex of
\* JSONStore has read the file as it is, whatever the other goroutines do.
THEOREM AppStateInvariant == Spec => []IInv
BY InitInv, StepInv, PTL DEF Spec

-----------------------------------------------------------------------------
(* The refinement.                                                         *)

\* The operators of AppData are the same to the abstract specification.
LEMMA SameUpdates ==
  ASSUME NEW data
  PROVE  /\ \A chart : Store!Added(data, chart) = Added(data, chart)
         /\ \A i : Store!Removed(data, i) = Removed(data, i)
         /\ \A key, at : Store!Touched(data, key, at) = Touched(data, key, at)
<1>1. ASSUME NEW chart PROVE Store!Added(data, chart) = Added(data, chart)
  BY DEF Store!Added, Added, Store!Capped, Capped, Store!Without, Without,
         Store!Ascending, Ascending, Store!Cardinality, Cardinality
<1>2. ASSUME NEW i PROVE Store!Removed(data, i) = Removed(data, i)
  BY DEF Store!Removed, Removed, Store!RemoveAt, RemoveAt
<1>3. ASSUME NEW key, NEW at PROVE Store!Touched(data, key, at) = Touched(data, key, at)
  BY DEF Store!Touched, Touched, Store!Cardinality, Cardinality
<1> QED
  BY <1>1, <1>2, <1>3

\* What the abstract data is of the file and what its writer has read.
Mapped == IF disk = Unreadable /\ mutex # 0 THEN loaded ELSE disk

\* A commit is an update of what was there as a whole.
LEMMA CommitMaps ==
  ASSUME IInv, NEW t \in Tasks, EndWrite(t)
  PROVE  /\ Mapped = loaded /\ loaded # Unreadable
         /\ \/ \E chart \in Charts : Mapped' = Added(loaded, chart)
            \/ \E i \in DOMAIN loaded.recents : Mapped' = Removed(loaded, i)
            \/ \E key \in Keys, at \in 1..MaxTouches :
                 (\A k \in Keys : loaded.touched[k] < at) /\ Mapped' = Touched(loaded, key, at)
<1>1. phase[t] = "writing" /\ disk' = Updated(job[t], loaded) /\ mutex' = 0
  BY DEF EndWrite
<1>2. mutex = t /\ t # 0 /\ disk = Unreadable /\ Applicable(t, loaded)
  BY <1>1 DEF IInv, Locked, Tasks
<1>3. Mapped = loaded /\ loaded # Unreadable /\ Mapped' = Updated(job[t], loaded)
  BY <1>1, <1>2 DEF Mapped, Applicable
<1>4. Known(job[t]) /\ job[t].do # "list"
  BY <1>1 DEF IInv, JobsKnown
<1>5. CASE job[t].do = "add"
  BY <1>3, <1>4, <1>5 DEF Known, Updated
<1>6. CASE job[t].do = "remove"
  BY <1>2, <1>3, <1>6 DEF Applicable, Updated
<1>7. CASE job[t].do = "touch"
  <2>1. Saving(t)
    BY <1>1, <1>7 DEF Saving, Live
  <2>2. job[t].at = clock /\ \A k \in Keys : loaded.touched[k] < clock
    BY <1>2, <2>1 DEF IInv, NewestLast, Older
  <2> QED
    BY <1>3, <1>4, <1>7, <2>2 DEF Known, Updated
<1> QED
  BY <1>3, <1>4, <1>5, <1>6, <1>7 DEF Known

\* Every other step leaves the data as they are, or loses them.
LEMMA OtherStepsMap ==
  ASSUME IInv, [Next]_vars, ~\E t \in Tasks : EndWrite(t)
  PROVE  Mapped' = Mapped \/ (Mapped # Unreadable /\ Mapped' = Unreadable)
<1>1. CASE AsideSteps \/ DispatchSteps \/ \E key \in Keys : SaveChartUIState(key)
  <2>1. UNCHANGED <<disk, mutex, loaded>>
    BY <1>1, AsideStepsInv
       DEF Aside, DispatchSteps, loadRecentCharts, addRecentChart, onRemoveRecentChart, Dispatch,
           SaveChartUIState
  <2> QED
    BY <2>1 DEF Mapped
<1>2. ASSUME NEW t \in Tasks, Load(t)
      PROVE  Mapped' = Mapped
  BY <1>2 DEF Load, loadLocked, Applicable, Mapped
<1>3. ASSUME NEW t \in Tasks, BeginWrite(t)
      PROVE  Mapped' = Mapped
  <2>1. phase[t] = "loaded" /\ disk' = Unreadable /\ UNCHANGED <<mutex, loaded>>
    BY <1>3 DEF BeginWrite
  <2>2. mutex = t /\ t # 0 /\ disk = loaded
    BY <2>1 DEF IInv, Locked, Tasks
  <2> QED
    BY <2>1, <2>2 DEF Mapped
<1>4. ASSUME NEW t \in Tasks, phase[t] \in {"loaded", "writing"}, mutex' = 0, disk' = disk
      PROVE  Mapped' = Mapped \/ (Mapped # Unreadable /\ Mapped' = Unreadable)
  <2>1. /\ mutex = t /\ t # 0 /\ loaded # Unreadable
        /\ phase[t] = "loaded" => disk = loaded
        /\ phase[t] = "writing" => disk = Unreadable
    BY <1>4 DEF IInv, Locked, Applicable, Tasks
  <2> QED
    BY <1>4, <2>1 DEF Mapped
<1>5. ASSUME NEW t \in Tasks, WriteFails(t)
      PROVE  Mapped' = Mapped \/ (Mapped # Unreadable /\ Mapped' = Unreadable)
  BY <1>4, <1>5 DEF WriteFails
<1>6. CASE Restart
  <2>1. mutex' = 0 /\ disk' = disk
    BY <1>6 DEF Restart
  <2>2. CASE mutex = 0
    BY <2>1, <2>2 DEF Mapped
  <2>3. CASE mutex # 0
    <3>1. mutex \in Tasks /\ phase[mutex] \in {"loaded", "writing"}
      BY <2>3 DEF IInv, Shape, Locked, Tasks
    <3> QED
      BY <1>4, <2>1, <3>1
  <2> QED
    BY <2>2, <2>3
<1> QED
  BY <1>1, <1>2, <1>3, <1>5, <1>6, StepKinds

\* Every step is an update as a whole, the loss of a file, or nothing.
LEMMA StepRefines == IInv /\ [Next]_vars => [Store!Next]_Mapped
<1> SUFFICES ASSUME IInv, [Next]_vars PROVE [Store!Next]_Mapped
  OBVIOUS
<1>1. ASSUME NEW t \in Tasks, EndWrite(t)
      PROVE  Store!Next
  <2>1. Mapped = loaded /\ loaded # Unreadable
    BY <1>1, CommitMaps
  <2>2. ASSUME NEW chart \in Charts, Mapped' = Added(loaded, chart)
        PROVE  Store!Next
    <3>1. Store!AddChart(chart)
      BY <2>1, <2>2, SameUpdates DEF Store!AddChart, Mapped
    <3> QED
      BY <2>1, <3>1 DEF Store!Next, Mapped
  <2>3. ASSUME NEW i \in DOMAIN loaded.recents, Mapped' = Removed(loaded, i)
        PROVE  Store!Next
    <3>1. Store!RemoveChart(i)
      BY <2>1, <2>3, SameUpdates DEF Store!RemoveChart, Mapped
    <3> QED
      BY <2>1, <3>1 DEF Store!Next, Mapped
  <2>4. ASSUME NEW key \in Keys, NEW at \in 1..MaxTouches,
               \A k \in Keys : loaded.touched[k] < at, Mapped' = Touched(loaded, key, at)
        PROVE  Store!Next
    <3>1. Store!Touch(key, at)
      BY <2>1, <2>4, SameUpdates DEF Store!Touch, Mapped
    <3> QED
      BY <2>1, <3>1 DEF Store!Next, Mapped
  <2> QED
    BY <1>1, <2>2, <2>3, <2>4, CommitMaps
<1>2. CASE ~\E t \in Tasks : EndWrite(t)
  BY <1>2, OtherStepsMap DEF Store!Next, Store!Lose, Mapped
<1> QED
  BY <1>1, <1>2

\* JSONStore.Update is atomic: to the program data.json changes by whole updates of
\* AppData, none of which undoes another, across crashes and restarts.
THEOREM Refinement == Spec => Implements
<1>1. Init => Store!Init
  BY DEF Init, Store!Init, Store!Empty, Empty
<1>2. IInv /\ [Next]_vars => [Store!Next]_Mapped
  BY StepRefines
<1> QED
  BY <1>1, <1>2, AppStateInvariant, PTL DEF Spec, Implements, Store!Spec, Mapped

-----------------------------------------------------------------------------
(* The torn file.                                                          *)

Torn == disk = Unreadable /\ mutex = 0

\* Nobody who has not read the file writes it, and it cannot be read.
LEMMA TornStays == IInv /\ Torn /\ [Next]_vars => Torn'
<1> SUFFICES ASSUME IInv, Torn, [Next]_vars PROVE Torn'
  OBVIOUS
<1>1. CASE AsideSteps \/ DispatchSteps \/ \E key \in Keys : SaveChartUIState(key)
  <2>1. UNCHANGED <<disk, mutex>>
    BY <1>1, AsideStepsInv
       DEF Aside, DispatchSteps, loadRecentCharts, addRecentChart, onRemoveRecentChart, Dispatch,
           SaveChartUIState
  <2> QED
    BY <2>1 DEF Torn
<1>2. CASE Restart
  BY <1>2 DEF Restart, Torn
<1>3. ASSUME NEW t \in Tasks, Load(t)
      PROVE  FALSE
  BY <1>3 DEF Load, loadLocked, Applicable, Torn
<1>4. ASSUME NEW t \in Tasks, BeginWrite(t) \/ EndWrite(t) \/ WriteFails(t)
      PROVE  FALSE
  <2>1. phase[t] \in {"loaded", "writing"}
    BY <1>4 DEF BeginWrite, EndWrite, WriteFails
  <2> QED
    BY <2>1 DEF IInv, Locked, Torn, Tasks
<1> QED
  BY <1>1, <1>2, <1>3, <1>4, StepKinds

\* A file that a crash or a failed write left half written is never overwritten,
\* because every update begins by reading it.
THEOREM UnreadableKept == Spec => UnreadableIsKept
<1>1. IInv /\ Torn /\ [Next]_vars => Torn'
  BY TornStays
<1>2. Torn => disk = Unreadable
  BY DEF Torn
<1> QED
  BY <1>1, <1>2, AppStateInvariant, PTL DEF Spec, UnreadableIsKept, Torn

-----------------------------------------------------------------------------
(* The limit on UI states.                                                 *)

Newer(k) == {l \in Keys : saved[l] > saved[k]}

\* The data have the last state saved of every key, but for keys that made
\* room for newer ones.
Faithful(data) ==
  \A k \in Keys :
    \/ data.touched[k] = saved[k]
    \/ data.touched[k] = 0 /\ Cardinality(Newer(k)) >= MaxChartUIStates

\* No two states have the same stamp, and one on its way has the newest.
Distinct ==
  /\ saved \in [Keys -> 0..clock]
  /\ \A k, l \in Keys : saved[k] = saved[l] /\ k # l => saved[k] = 0
  /\ \A t \in Tasks : Saving(t) => \A k \in Keys : saved[k] < clock

Kept ==
  /\ Distinct
  /\ disk # Unreadable => Faithful(disk)
  /\ mutex # 0 => Faithful(loaded)

\* The oldest of the other states makes room for the one that is saved.
LEMMA TouchFaithful ==
  ASSUME NEW key \in Keys, NEW data, Stamped(data), Older(data), Faithful(data), Distinct,
         clock \in Nat, \A k \in Keys : saved[k] < clock,
         saved' = [saved EXCEPT ![key] = clock]
  PROVE  \A k \in Keys :
           \/ Touched(data, key, clock).touched[k] = saved'[k]
           \/ /\ Touched(data, key, clock).touched[k] = 0
              /\ Cardinality(Newer(k)') >= MaxChartUIStates
<1> DEFINE put    == [data.touched EXCEPT ![key] = clock]
           others == {k \in Keys \ {key} : put[k] > 0}
           oldest == {k \in others : \A l \in others : put[k] <= put[l]}
           without == [k \in Keys |-> IF k \in oldest THEN 0 ELSE put[k]]
           kept == IF Cardinality(others) < MaxChartUIStates THEN put ELSE without
<1>1. Touched(data, key, clock).touched = kept
  <2>1. Touched(data, key, clock) = [data EXCEPT !.touched = kept]
    BY DEF Touched
  <2> HIDE DEF kept
  <2> QED
    BY <2>1 DEF Stamped
<1>2. \A k \in Keys : put[k] = IF k = key THEN clock ELSE data.touched[k]
  BY DEF Stamped
<1>3. \A k \in Keys : saved'[k] = IF k = key THEN clock ELSE saved[k]
  BY DEF Distinct
<1>4. \A k \in Keys : saved[k] \in Nat /\ data.touched[k] \in Nat /\ saved'[k] \in Nat
  BY <1>3 DEF Distinct, Stamped
<1>5. IsFiniteSet(Keys)
  BY AppDataAssumption
<1>6. \A k \in Keys : IsFiniteSet(Newer(k)) /\ IsFiniteSet(Newer(k)')
  BY <1>5, FS_Subset DEF Newer
<1> HIDE DEF put
<1>7. \A k \in others : k \in Keys /\ k # key /\ put[k] = saved[k] /\ saved[k] > 0
  BY <1>2, <1>4 DEF Faithful
<1>8. ASSUME NEW k \in oldest, Cardinality(others) >= MaxChartUIStates
      PROVE  Cardinality(Newer(k)') >= MaxChartUIStates
  <2> DEFINE newer == (others \ {k}) \union {key}
  <2>1. newer \subseteq Newer(k)'
    <3>1. k \in Keys /\ k # key /\ saved'[k] = saved[k] /\ saved[k] < clock
      BY <1>3, <1>7
    <3>2. ASSUME NEW l \in others \ {k}
          PROVE  l \in Keys /\ saved'[l] > saved'[k]
      <4>1. put[k] <= put[l] /\ saved[l] # saved[k]
        BY <1>7, <3>1 DEF Distinct
      <4> QED
        BY <1>3, <1>4, <1>7, <3>1, <4>1
    <3>3. saved'[key] > saved'[k]
      BY <1>3, <3>1
    <3> QED
      BY <3>2, <3>3 DEF Newer
  <2>2. IsFiniteSet(others) /\ k \in others /\ key \notin others
    BY <1>5, FS_Subset
  <2>3. IsFiniteSet(others \ {k}) /\ Cardinality(others \ {k}) = Cardinality(others) - 1
    BY <2>2, FS_RemoveElement
  <2>4. IsFiniteSet(newer) /\ Cardinality(newer) = Cardinality(others \ {k}) + 1
    BY <2>2, <2>3, FS_AddElement
  <2>5. Cardinality(others) \in Nat
    BY <2>2, FS_CardinalityType
  <2>6. Cardinality(newer) = Cardinality(others)
    BY <2>3, <2>4, <2>5
  <2>7. Cardinality(newer) <= Cardinality(Newer(k)') /\ Cardinality(Newer(k)') \in Nat
    <3>1. k \in Keys
      BY <1>7
    <3> HIDE DEF newer
    <3> QED
      BY <1>6, <2>1, <3>1, FS_Subset, FS_CardinalityType
  <2> QED
    BY <1>8, <2>5, <2>6, <2>7, AppDataAssumption
<1>9. ASSUME NEW k \in Keys, k # key, Cardinality(Newer(k)) >= MaxChartUIStates
      PROVE  Cardinality(Newer(k)') >= MaxChartUIStates
  <2>1. Newer(k) \subseteq Newer(k)'
    BY <1>3, <1>4, <1>9 DEF Newer
  <2> QED
    BY <1>6, <1>9, <2>1, FS_Subset, FS_CardinalityType, AppDataAssumption
<1>10. ASSUME NEW k \in Keys
       PROVE  kept[k] = saved'[k] \/ (kept[k] = 0 /\ Cardinality(Newer(k)') >= MaxChartUIStates)
  <2>1. kept[k] \in {put[k], 0}
    OBVIOUS
  <2>2. CASE k = key
    <3>1. k \notin oldest
      BY <2>2
    <3>2. kept[k] = put[k]
      BY <3>1
    <3> QED
      BY <1>2, <1>3, <2>2, <3>2
  <2>3. CASE k # key /\ k \in oldest /\ Cardinality(others) >= MaxChartUIStates
    <3>1. kept[k] = 0 \/ kept[k] = put[k]
      BY <2>1
    <3>2. put[k] = saved'[k]
      BY <1>3, <1>7, <2>3
    <3> QED
      BY <1>8, <2>3, <3>1, <3>2
  <2>4. CASE k # key /\ ~(k \in oldest /\ Cardinality(others) >= MaxChartUIStates)
    <3>1. kept[k] = put[k]
      <4>1. IsFiniteSet(others)
        BY <1>5, FS_Subset
      <4>2. Cardinality(others) \in Nat /\ MaxChartUIStates \in Nat
        BY <4>1, FS_CardinalityType, AppDataAssumption
      <4> QED
        BY <2>4, <4>2
    <3>2. put[k] = data.touched[k] /\ saved'[k] = saved[k]
      BY <1>2, <1>3, <2>4
    <3> QED
      BY <1>9, <2>4, <3>1, <3>2 DEF Faithful
  <2> QED
    BY <2>2, <2>3, <2>4
<1> QED
  BY <1>1, <1>10

\* Nothing was saved when the program starts.
LEMMA InitKept == Init => Kept
<1> SUFFICES ASSUME Init PROVE Kept
  OBVIOUS
<1>1. Distinct
  <2>1. \A t \in Tasks : ~Saving(t)
    BY DEF Init, Saving, Live
  <2> QED
    BY <2>1, AppDataAssumption DEF Init, Distinct
<1>2. Faithful(disk) /\ mutex = 0
  BY DEF Init, Empty, Faithful
<1> QED
  BY <1>1, <1>2 DEF Kept

\* A step that saves no UI state.
LEMMA KeptSame ==
  ASSUME Kept, UNCHANGED <<saved, clock>>, \A t \in Tasks : Saving(t)' => Saving(t),
         disk' # Unreadable => Faithful(disk'), mutex' # 0 => Faithful(loaded')
  PROVE  Kept'
<1>1. Distinct'
  BY DEF Kept, Distinct
<1>2. disk' # Unreadable => Faithful(disk)'
  BY DEF Faithful, Newer
<1>3. mutex' # 0 => Faithful(loaded)'
  BY DEF Faithful, Newer
<1> QED
  BY <1>1, <1>2, <1>3 DEF Kept

\* An update that reaches the disk.
LEMMA EndWriteKept == \A t \in Tasks : IInv /\ Kept /\ EndWrite(t) => Kept'
<1> SUFFICES ASSUME NEW t \in Tasks, IInv, Kept, EndWrite(t) PROVE Kept'
  OBVIOUS
<1>1. /\ phase[t] = "writing" /\ disk' = Updated(job[t], loaded) /\ mutex' = 0
      /\ phase' = [phase EXCEPT ![t] = IF job[t].do = "touch" THEN "ended" ELSE "listing"]
      /\ UNCHANGED <<loaded, called, job, clock>>
  BY DEF EndWrite, Quietly
<1>2. mutex = t /\ t # 0
  BY <1>1 DEF IInv, Locked, Tasks
<1>3. Known(job[t]) /\ job[t].do # "list" /\ Stamped(loaded) /\ Faithful(loaded) /\ Distinct
      /\ clock \in Nat
  BY <1>1, <1>2 DEF IInv, JobsKnown, NewestLast, Kept, Shape
<1>4. \A s \in Tasks : Saving(s)' => Saving(s) /\ s # t
  BY <1>1 DEF Saving, Live, IInv, Shape
<1>5. CASE job[t].do # "touch"
  <2>1. saved' = saved
    BY <1>5 DEF EndWrite
  <2>2. disk'.touched = loaded.touched
    BY <1>1, <1>3, <1>5, UpdatedStamps
  <2>3. Faithful(disk')
    BY <1>3, <2>2 DEF Faithful
  <2> QED
    BY <1>1, <1>4, <2>1, <2>3, KeptSame
<1>6. CASE job[t].do = "touch"
  <2> DEFINE key == job[t].key
  <2>1. Saving(t)
    BY <1>1, <1>6 DEF Saving, Live
  <2>2. job[t].at = clock /\ Older(loaded) /\ key \in Keys /\ clock \in 1..MaxTouches
    BY <1>2, <1>3, <1>6, <2>1 DEF IInv, NewestLast, Known
  <2>3. saved' = [saved EXCEPT ![key] = clock]
    BY <1>6, <2>2 DEF EndWrite
  <2>4. \A k \in Keys : saved[k] < clock
    BY <1>3, <2>1 DEF Distinct
  <2>5. disk' = Touched(loaded, key, clock)
    BY <1>1, <1>6, <2>2 DEF Updated
  <2> HIDE DEF key
  <2>6. Faithful(disk)'
    <3>1. \A k \in Keys :
            \/ Touched(loaded, key, clock).touched[k] = saved'[k]
            \/ /\ Touched(loaded, key, clock).touched[k] = 0
               /\ Cardinality(Newer(k)') >= MaxChartUIStates
      BY <1>3, <2>2, <2>3, <2>4, TouchFaithful
    <3> QED
      BY <2>5, <3>1 DEF Faithful
  <2>7. \A s \in Tasks : ~Saving(s)'
    BY <1>4, <2>1 DEF IInv, NewestLast
  <2>8. Distinct'
    <3>1. \A k \in Keys : saved'[k] = IF k = key THEN clock ELSE saved[k]
      BY <1>3, <2>3 DEF Distinct
    <3>2. saved' \in [Keys -> 0..clock]
      BY <1>3, <2>2, <2>3 DEF Distinct
    <3>3. \A k, l \in Keys : saved'[k] = saved'[l] /\ k # l => saved'[k] = 0
      <4> SUFFICES ASSUME NEW k \in Keys, NEW l \in Keys, saved'[k] = saved'[l], k # l
                   PROVE  saved'[k] = 0
        OBVIOUS
      <4>1. saved[k] < clock /\ saved[l] < clock /\ saved[k] \in Nat /\ saved[l] \in Nat
        BY <1>3, <2>4 DEF Distinct
      <4>2. k # key /\ l # key
        BY <3>1, <4>1, <1>3
      <4> QED
        BY <1>3, <3>1, <4>2 DEF Distinct
    <3> QED
      BY <1>1, <2>7, <3>2, <3>3 DEF Distinct
  <2> QED
    BY <1>1, <2>6, <2>8 DEF Kept
<1> QED
  BY <1>5, <1>6

\* Every step keeps the states that are to be kept.
LEMMA StepKept == IInv /\ Kept /\ [Next]_vars => Kept'
<1> SUFFICES ASSUME IInv, Kept, [Next]_vars PROVE Kept'
  OBVIOUS
<1>1. CASE AsideSteps
  <2>1. UNCHANGED saved
    BY <1>1 DEF AsideSteps, PollRecentCharts, Expire, Begin, LoadFails, ListRecentCharts, vars
  <2>2. Aside
    BY <1>1, AsideStepsInv
  <2>3. \A t \in Tasks : Saving(t)' => Saving(t)
    BY <2>2 DEF Saving, Live, Aside
  <2> QED
    BY <2>1, <2>2, <2>3, KeptSame DEF Aside, Kept
<1>2. CASE DispatchSteps
  <2>1. PICK j : j.do # "touch" /\ Dispatch(j)
    BY <1>2 DEF DispatchSteps, loadRecentCharts, addRecentChart, onRemoveRecentChart
  <2>2. UNCHANGED <<saved, clock, disk, mutex, loaded>>
    BY <2>1 DEF Dispatch
  <2>3. \A t \in Tasks : Saving(t)' => Saving(t)
    BY <2>1, CallFacts DEF Dispatch, Saving, Live
  <2> QED
    BY <2>2, <2>3, KeptSame DEF Kept
<1>3. ASSUME NEW key \in Keys, SaveChartUIState(key)
      PROVE  Kept'
  <2>1. clock' = clock + 1 /\ UNCHANGED <<saved, disk, mutex, loaded>> /\ clock \in Nat
    BY <1>3 DEF SaveChartUIState, IInv, Shape
  <2>2. Distinct'
    BY <2>1 DEF Kept, Distinct
  <2>3. /\ disk' # Unreadable => Faithful(disk)'
        /\ mutex' # 0 => Faithful(loaded)'
    BY <2>1 DEF Kept, Faithful, Newer
  <2> QED
    BY <2>2, <2>3 DEF Kept
<1>4. ASSUME NEW t \in Tasks, Load(t)
      PROVE  Kept'
  <2>1. /\ disk # Unreadable /\ loaded' = disk /\ UNCHANGED <<saved, clock, disk, job>>
        /\ phase[t] = "updating" /\ phase' = [phase EXCEPT ![t] = "loaded"]
    BY <1>4 DEF Load, loadLocked, Applicable, Quietly
  <2>2. \A s \in Tasks : Saving(s)' => Saving(s)
    BY <2>1 DEF Saving, Live, IInv, Shape
  <2> QED
    BY <2>1, <2>2, KeptSame DEF Kept
<1>5. ASSUME NEW t \in Tasks, BeginWrite(t)
      PROVE  Kept'
  <2>1. /\ disk' = Unreadable /\ UNCHANGED <<saved, clock, mutex, loaded, job>>
        /\ phase[t] = "loaded" /\ phase' = [phase EXCEPT ![t] = "writing"]
    BY <1>5 DEF BeginWrite, Quietly
  <2>2. \A s \in Tasks : Saving(s)' => Saving(s)
    BY <2>1 DEF Saving, Live, IInv, Shape
  <2> QED
    BY <2>1, <2>2, KeptSame DEF Kept
<1>6. ASSUME NEW t \in Tasks, EndWrite(t)
      PROVE  Kept'
  BY <1>6, EndWriteKept
<1>7. ASSUME NEW t \in Tasks, WriteFails(t)
      PROVE  Kept'
  <2>1. mutex' = 0 /\ UNCHANGED <<saved, clock, disk, job>> /\ phase[t] \in {"loaded", "writing"}
    BY <1>7 DEF WriteFails, Quietly
  <2>2. PICK end \in {"failed", "ended"} : phase' = [phase EXCEPT ![t] = end]
    BY <1>7 DEF WriteFails, Finished
  <2>3. \A s \in Tasks : Saving(s)' => Saving(s)
    BY <2>1, <2>2 DEF Saving, Live, IInv, Shape
  <2> QED
    BY <2>1, <2>3, KeptSame DEF Kept
<1>8. CASE Restart
  <2>1. mutex' = 0 /\ UNCHANGED <<saved, clock, disk>>
    BY <1>8 DEF Restart
  <2>2. \A s \in Tasks : ~Saving(s)'
    BY <1>8, CallFacts DEF Restart, Saving, Live
  <2> QED
    BY <2>1, <2>2, KeptSame DEF Kept
<1> QED
  BY <1>1, <1>2, <1>3, <1>4, <1>5, <1>6, <1>7, <1>8, StepKinds

\* The UI states kept under the limit are the ones saved last, for any number of
\* keys and any limit.
THEOREM LeastRecentEvicted == Spec => []LeastRecentIsEvicted
<1>1. IInv /\ Kept => LeastRecentIsEvicted
  BY DEF Kept, Faithful, Newer, LeastRecentIsEvicted
<1> QED
  BY <1>1, InitKept, StepKept, AppStateInvariant, PTL DEF Spec

-----------------------------------------------------------------------------
(* The list of recent charts.                                              *)

\* Of two numbers of a finite set the greater has more of the set below it.
LEMMA RankGrows ==
  ASSUME NEW S \in SUBSET Nat, IsFiniteSet(S), NEW i \in S, NEW j \in S, i < j
  PROVE  Cardinality({k \in S : k < i}) < Cardinality({k \in S : k < j})
<1> DEFINE I == {k \in S : k < i}
           J == {k \in S : k < j}
<1>1. IsFiniteSet(J)
  BY FS_Subset
<1>2. I \in SUBSET J /\ i \in J /\ i \notin I
  <2>1. \A k \in S : k < i => k < j
    OBVIOUS
  <2>2. ~(i < i)
    OBVIOUS
  <2> QED
    BY <2>1, <2>2
<1> HIDE DEF I, J
<1>3. IsFiniteSet(I) /\ Cardinality(I) <= Cardinality(J) /\ (Cardinality(J) = Cardinality(I) => J = I)
  BY <1>1, <1>2, FS_Subset
<1>4. Cardinality(I) \in Nat /\ Cardinality(J) \in Nat
  BY <1>1, <1>3, FS_CardinalityType
<1>5. Cardinality(I) < Cardinality(J)
  BY <1>2, <1>3, <1>4
<1> QED
  BY <1>5 DEF I, J

\* Ascending lists numbers of the set, none of them twice.
LEMMA AscendingLists ==
  ASSUME NEW S \in SUBSET Nat, IsFiniteSet(S)
  PROVE  /\ Ascending[S] \in Seq(S)
         /\ \A k, l \in 1..Len(Ascending[S]) : Ascending[S][k] = Ascending[S][l] => k = l
<1> DEFINE c == Cardinality(S)
           rank == [i \in S |-> Cardinality({j \in S : j < i})]
           s == Ascending[S]
<1>1. c \in Nat
  BY FS_CardinalityType
<1>2. \A i \in S : rank[i] \in 0..(c - 1)
  <2> TAKE i \in S
  <2> DEFINE I == {j \in S : j < i}
  <2>1. I \in SUBSET S /\ i \notin I
    OBVIOUS
  <2>2. rank[i] = Cardinality(I)
    OBVIOUS
  <2> HIDE DEF I, rank
  <2>3. IsFiniteSet(I) /\ Cardinality(I) <= c /\ (c = Cardinality(I) => S = I)
    BY <2>1, FS_Subset
  <2>4. Cardinality(I) \in Nat
    BY <2>3, FS_CardinalityType
  <2> HIDE DEF c
  <2> QED
    BY <1>1, <2>1, <2>2, <2>3, <2>4
<1>3. rank \in Injection(S, 0..(c - 1))
  <2>1. \A i, j \in S : i < j => rank[i] < rank[j]
    BY RankGrows
  <2>2. rank \in [S -> 0..(c - 1)]
    BY <1>2
  <2> HIDE DEF rank, c
  <2>3. \A i, j \in S : rank[i] = rank[j] => i = j
    BY <1>1, <1>2, <2>1
  <2> QED
    BY <2>2, <2>3 DEF Injection, IsInjective
<1>4. rank \in Surjection(S, 0..(c - 1))
  <2>1. IsFiniteSet(0..(c - 1)) /\ Cardinality(0..(c - 1)) = c
    <3>1. 0 \in Int /\ c - 1 \in Int /\ (0 > c - 1 => c = 0) /\ c - 1 - 0 + 1 = c
      BY <1>1
    <3> HIDE DEF c
    <3> QED
      BY <3>1, FS_Interval
  <2> HIDE DEF rank, c
  <2> QED
    BY <1>3, <2>1, FS_Injection DEF c
<1>5. s = [n \in 1..c |-> CHOOSE i \in S : Cardinality({j \in S : j < i}) = n - 1]
  BY DEF Ascending
<1>6. \A n \in 1..c : s[n] \in S /\ rank[s[n]] = n - 1
  <2> TAKE n \in 1..c
  <2> HIDE DEF c, s
  <2>1. n - 1 \in 0..(c - 1)
    BY <1>1
  <2>2. \E i \in S : rank[i] = n - 1
    BY <1>4, <2>1 DEF Surjection
  <2>3. s[n] = CHOOSE i \in S : Cardinality({j \in S : j < i}) = n - 1
    BY <1>5
  <2>4. s[n] \in S /\ Cardinality({j \in S : j < s[n]}) = n - 1
    BY <2>2, <2>3
  <2> QED
    BY <2>4
<1> HIDE DEF rank, c, s
<1>7. s \in [1..c -> S]
  <2>1. \A n \in 1..c : (CHOOSE i \in S : Cardinality({j \in S : j < i}) = n - 1) \in S
    BY <1>5, <1>6
  <2> QED
    BY <1>5, <2>1
<1>8. s \in Seq(S) /\ Len(s) = c
  <2>1. s \in Seq(S)
    BY <1>1, <1>7, SeqDef
  <2>2. DOMAIN s = 1..c /\ DOMAIN s = 1..Len(s) /\ Len(s) \in Nat
    BY <1>7, <2>1, LenProperties
  <2> QED
    BY <1>1, <2>1, <2>2
<1>9. ASSUME NEW k \in 1..c, NEW l \in 1..c, s[k] = s[l]
      PROVE  k = l
  <2>1. rank[s[k]] = k - 1 /\ rank[s[l]] = l - 1
    BY <1>6
  <2> QED
    BY <1>1, <1>9, <2>1
<1> QED
  BY <1>8, <1>9 DEF s

\* A list of charts, none of them twice.
Deduped(list) ==
  /\ list \in Seq(Charts)
  /\ \A i, k \in 1..Len(list) : list[i] = list[k] => i = k

\* Deleting from a list that names no chart twice leaves such a list, and none of
\* the deleted.
LEMMA WithoutDedupes ==
  ASSUME NEW list, Deduped(list), NEW deleted
  PROVE  /\ Deduped(Without(list, deleted))
         /\ \A n \in 1..Len(Without(list, deleted)) : Without(list, deleted)[n] \notin deleted
<1> DEFINE S == {i \in DOMAIN list : list[i] \notin deleted}
           kept == Ascending[S]
           rest == Without(list, deleted)
<1>1. Len(list) \in Nat /\ DOMAIN list = 1..Len(list)
  BY LenProperties DEF Deduped
<1>2. S \in SUBSET Nat /\ IsFiniteSet(S)
  <2>1. IsFiniteSet(1..Len(list))
    <3> DEFINE n == Len(list)
    <3>1. 1 \in Int /\ n \in Int
      BY <1>1
    <3> HIDE DEF n
    <3>2. IsFiniteSet(1..n)
      BY <3>1, FS_Interval
    <3> QED
      BY <3>2 DEF n
  <2>2. S \subseteq 1..Len(list)
    BY <1>1
  <2> QED
    BY <1>1, <2>1, <2>2, FS_Subset
<1> HIDE DEF S
<1>3. /\ kept \in Seq(S)
      /\ \A k, l \in 1..Len(kept) : kept[k] = kept[l] => k = l
  BY <1>2, AscendingLists
<1>4. Len(kept) \in Nat /\ DOMAIN kept = 1..Len(kept)
  BY <1>3, LenProperties
<1>5. rest = [n \in 1..Len(kept) |-> list[kept[n]]]
  BY <1>4 DEF Without, S
<1>6. \A n \in 1..Len(kept) :
        kept[n] \in 1..Len(list) /\ list[kept[n]] \in Charts \ deleted
  <2> TAKE n \in 1..Len(kept)
  <2>1. kept[n] \in S
    BY <1>3, ElementOfSeq
  <2>2. kept[n] \in 1..Len(list) /\ list[kept[n]] \notin deleted
    BY <1>1, <2>1 DEF S
  <2> QED
    BY <2>2, ElementOfSeq DEF Deduped
<1> HIDE DEF kept, rest
<1>7. rest \in [1..Len(kept) -> Charts]
  BY <1>5, <1>6
<1>8. rest \in Seq(Charts) /\ Len(rest) = Len(kept)
  <2>1. rest \in Seq(Charts)
    BY <1>4, <1>7, SeqDef
  <2>2. DOMAIN rest = 1..Len(kept) /\ DOMAIN rest = 1..Len(rest) /\ Len(rest) \in Nat
    BY <1>7, <2>1, LenProperties
  <2> QED
    BY <1>4, <2>1, <2>2
<1>9. \A n \in 1..Len(rest) : rest[n] = list[kept[n]]
  BY <1>5, <1>8
<1>10. ASSUME NEW i \in 1..Len(rest), NEW k \in 1..Len(rest), rest[i] = rest[k]
       PROVE  i = k
  <2>1. kept[i] = kept[k]
    BY <1>6, <1>8, <1>9, <1>10 DEF Deduped
  <2> QED
    BY <1>3, <1>8, <2>1
<1>11. \A n \in 1..Len(rest) : rest[n] \notin deleted
  BY <1>6, <1>8, <1>9
<1> QED
  BY <1>8, <1>10, <1>11 DEF Deduped, rest

\* A part of such a list is such a list.
LEMMA SubSeqDedupes ==
  ASSUME NEW list, Deduped(list), NEW m \in 1..Len(list) + 1, NEW n \in 0..Len(list)
  PROVE  /\ Deduped(SubSeq(list, m, n))
         /\ Len(SubSeq(list, m, n)) = IF m <= n THEN n - m + 1 ELSE 0
         /\ \A i \in 1..Len(SubSeq(list, m, n)) :
              m + i - 1 \in m..n /\ SubSeq(list, m, n)[i] = list[m + i - 1]
<1> DEFINE part == SubSeq(list, m, n)
<1>1. Len(list) \in Nat
  BY LenProperties DEF Deduped
<1>2. m \in Int /\ n \in Int /\ \A i \in m..n : i \in 1..Len(list)
  BY <1>1
<1>3. \A i \in m..n : list[i] \in Charts
  BY <1>2, ElementOfSeq DEF Deduped
<1>4. /\ part \in Seq(Charts)
      /\ Len(part) = IF m <= n THEN n - m + 1 ELSE 0
      /\ \A i \in 1..n - m + 1 : part[i] = list[m + i - 1]
  BY <1>2, <1>3, SubSeqProperties
<1> HIDE DEF part
<1>5. \A i \in 1..Len(part) : m + i - 1 \in m..n /\ part[i] = list[m + i - 1]
  BY <1>2, <1>4
<1>6. ASSUME NEW i \in 1..Len(part), NEW k \in 1..Len(part), part[i] = part[k]
      PROVE  i = k
  <2>1. list[m + i - 1] = list[m + k - 1] /\ m + i - 1 \in 1..Len(list) /\ m + k - 1 \in 1..Len(list)
    BY <1>2, <1>5, <1>6
  <2>2. m + i - 1 = m + k - 1
    BY <2>1 DEF Deduped
  <2> QED
    BY <1>2, <2>2
<1> QED
  BY <1>4, <1>5, <1>6 DEF Deduped, part

\* The list of an added chart, which is within its limit.
LEMMA AddedDedupes ==
  ASSUME NEW list, Deduped(list), NEW chart \in Charts
  PROVE  /\ Deduped(Capped(<<chart>> \o Without(list, OCICharts \union {chart})))
         /\ Len(Capped(<<chart>> \o Without(list, OCICharts \union {chart}))) <= MaxRecentCharts
<1> DEFINE rest == Without(list, OCICharts \union {chart})
           long == <<chart>> \o rest
<1>1. Deduped(rest) /\ \A n \in 1..Len(rest) : rest[n] # chart
  BY WithoutDedupes
<1>2. <<chart>> \in Seq(Charts) /\ Len(<<chart>>) = 1 /\ <<chart>>[1] = chart
  OBVIOUS
<1>3. rest \in Seq(Charts) /\ Len(rest) \in Nat
  BY <1>1, LenProperties DEF Deduped
<1> HIDE DEF rest
<1>4. /\ long \in Seq(Charts) /\ Len(long) = 1 + Len(rest)
      /\ \A i \in 1..1 + Len(rest) : long[i] = IF i <= 1 THEN chart ELSE rest[i - 1]
  <2>1. /\ long \in Seq(Charts) /\ Len(long) = Len(<<chart>>) + Len(rest)
        /\ \A i \in 1..Len(<<chart>>) + Len(rest) :
             long[i] = IF i <= Len(<<chart>>) THEN <<chart>>[i] ELSE rest[i - Len(<<chart>>)]
    BY <1>2, <1>3, ConcatProperties
  <2> HIDE DEF long
  <2> QED
    BY <1>2, <1>3, <2>1
<1> HIDE DEF long
<1>5. ASSUME NEW i \in 1..Len(long), NEW k \in 1..Len(long), long[i] = long[k]
      PROVE  i = k
  <2>1. ASSUME NEW n \in 1..Len(long), n # 1
        PROVE  n - 1 \in 1..Len(rest) /\ long[n] = rest[n - 1]
    BY <1>3, <1>4, <2>1
  <2>2. long[1] = chart
    BY <1>3, <1>4
  <2>3. i = 1 <=> k = 1
    BY <1>1, <1>5, <2>1, <2>2
  <2>4. CASE i # 1
    <3>1. i - 1 = k - 1
      BY <1>1, <1>5, <2>1, <2>3, <2>4 DEF Deduped
    <3> QED
      BY <1>3, <1>4, <3>1
  <2> QED
    BY <2>3, <2>4
<1>6. Deduped(long)
  BY <1>4, <1>5 DEF Deduped
<1> DEFINE n == IF Len(long) > MaxRecentCharts THEN MaxRecentCharts ELSE Len(long)
<1>7. n \in 0..Len(long) /\ n <= MaxRecentCharts /\ Capped(long) = SubSeq(long, 1, n)
  <2>1. Capped(long) = SubSeq(long, 1, n)
    BY DEF Capped
  <2> QED
    BY <1>3, <1>4, <2>1, AppDataAssumption
<1> HIDE DEF n
<1>8. 1 \in 1..Len(long) + 1
  BY <1>3, <1>4
<1>9. Deduped(Capped(long)) /\ Len(Capped(long)) <= MaxRecentCharts
  <2>1. /\ Deduped(SubSeq(long, 1, n))
        /\ Len(SubSeq(long, 1, n)) = IF 1 <= n THEN n - 1 + 1 ELSE 0
    BY <1>6, <1>7, <1>8, SubSeqDedupes
  <2>2. (IF 1 <= n THEN n - 1 + 1 ELSE 0) = n
    BY <1>3, <1>4, <1>7
  <2> QED
    BY <1>7, <2>1, <2>2
<1> QED
  BY <1>9 DEF long, rest

\* The list without the entry at an index: that chart is gone and the others stay.
LEMMA RemovedDedupes ==
  ASSUME NEW list, Deduped(list), NEW index \in 1..Len(list)
  PROVE  /\ Deduped(RemoveAt(list, index))
         /\ Len(RemoveAt(list, index)) = Len(list) - 1
         /\ list[index] \notin Range(RemoveAt(list, index))
         /\ Range(list) \ {list[index]} \subseteq Range(RemoveAt(list, index))
<1> DEFINE left == SubSeq(list, 1, index - 1)
           right == SubSeq(list, index + 1, Len(list))
           rest == RemoveAt(list, index)
<1>1. Len(list) \in Nat /\ DOMAIN list = 1..Len(list)
  BY LenProperties DEF Deduped
<1>2. /\ 1 \in 1..Len(list) + 1 /\ index - 1 \in 0..Len(list)
      /\ index + 1 \in 1..Len(list) + 1 /\ Len(list) \in 0..Len(list)
  BY <1>1
<1>3. /\ Deduped(left) /\ Len(left) = IF 1 <= index - 1 THEN index - 1 - 1 + 1 ELSE 0
      /\ \A i \in 1..Len(left) : left[i] = list[1 + i - 1]
  BY <1>2, SubSeqDedupes
<1>4. /\ Deduped(right)
      /\ Len(right) = IF index + 1 <= Len(list) THEN Len(list) - (index + 1) + 1 ELSE 0
      /\ \A i \in 1..Len(right) : right[i] = list[index + 1 + i - 1]
  BY <1>2, SubSeqDedupes
<1>5. /\ rest \in Seq(Charts) /\ Len(rest) = Len(left) + Len(right)
      /\ \A i \in 1..Len(left) + Len(right) :
           rest[i] = IF i <= Len(left) THEN left[i] ELSE right[i - Len(left)]
  <2>1. rest = left \o right
    BY DEF RemoveAt
  <2>2. left \in Seq(Charts) /\ right \in Seq(Charts)
    BY <1>3, <1>4 DEF Deduped
  <2> HIDE DEF left, right, rest
  <2> QED
    BY <2>1, <2>2, ConcatProperties
<1> HIDE DEF left, right, rest
<1>6. Len(left) = index - 1 /\ Len(right) = Len(list) - index
  <2>1. Len(left) = IF 1 <= index - 1 THEN index - 1 - 1 + 1 ELSE 0
    BY <1>3
  <2>2. Len(right) = IF index + 1 <= Len(list) THEN Len(list) - (index + 1) + 1 ELSE 0
    BY <1>4
  <2>3. (IF 1 <= index - 1 THEN index - 1 - 1 + 1 ELSE 0) = index - 1
    BY <1>1
  <2>4. (IF index + 1 <= Len(list) THEN Len(list) - (index + 1) + 1 ELSE 0) = Len(list) - index
    <3> DEFINE n == Len(list)
    <3>1. n \in Nat /\ index \in Nat /\ index <= n
      BY <1>1
    <3> HIDE DEF n
    <3>2. (IF index + 1 <= n THEN n - (index + 1) + 1 ELSE 0) = n - index
      BY <3>1
    <3> QED
      BY <3>2 DEF n
  <2> QED
    BY <2>1, <2>2, <2>3, <2>4
<1>7. /\ Len(rest) = Len(list) - 1
      /\ \A i \in 1..Len(list) - 1 : rest[i] = IF i < index THEN list[i] ELSE list[i + 1]
  <2>1. Len(rest) = Len(list) - 1
    BY <1>1, <1>5, <1>6
  <2>2. ASSUME NEW i \in 1..Len(list) - 1, i < index
        PROVE  rest[i] = list[i]
    <3>1. i \in 1..Len(left) /\ i \in 1..Len(left) + Len(right) /\ 1 + i - 1 = i
      BY <1>1, <1>6, <2>2
    <3> QED
      BY <1>3, <1>5, <3>1
  <2>3. ASSUME NEW i \in 1..Len(list) - 1, ~(i < index)
        PROVE  rest[i] = list[i + 1]
    <3>1. /\ i - Len(left) \in 1..Len(right) /\ i \in 1..Len(left) + Len(right)
          /\ ~(i <= Len(left)) /\ index + 1 + (i - Len(left)) - 1 = i + 1
      BY <1>1, <1>6, <2>3
    <3> QED
      BY <1>4, <1>5, <3>1
  <2> QED
    BY <2>1, <2>2, <2>3
<1>8. \A i \in 1..Len(rest) : \E k \in 1..Len(list) :
        k = (IF i < index THEN i ELSE i + 1) /\ k # index /\ rest[i] = list[k]
  BY <1>1, <1>7
<1>9. ASSUME NEW i \in 1..Len(rest), NEW k \in 1..Len(rest), rest[i] = rest[k]
      PROVE  i = k
  <2>1. (IF i < index THEN i ELSE i + 1) = (IF k < index THEN k ELSE k + 1)
    BY <1>8, <1>9 DEF Deduped
  <2> QED
    BY <1>1, <1>7, <2>1
<1>10. DOMAIN rest = 1..Len(rest)
  BY <1>5, LenProperties
<1>11. list[index] \notin Range(rest)
  BY <1>8, <1>10 DEF Deduped, Range
<1>12. ASSUME NEW k \in 1..Len(list), k # index
       PROVE  \E i \in 1..Len(rest) : rest[i] = list[k]
  <2>1. CASE k < index
    <3>1. k \in 1..Len(list) - 1
      BY <1>1, <2>1
    <3> QED
      BY <1>7, <2>1, <3>1
  <2>2. CASE ~(k < index)
    <3>1. k - 1 \in 1..Len(list) - 1 /\ ~(k - 1 < index) /\ (k - 1) + 1 = k
      BY <1>1, <1>12, <2>2
    <3> QED
      BY <1>7, <3>1
  <2> QED
    BY <2>1, <2>2
<1>13. Range(list) \ {list[index]} \subseteq Range(rest)
  BY <1>1, <1>10, <1>12 DEF Range
<1> QED
  BY <1>5, <1>7, <1>9, <1>11, <1>13 DEF Deduped, rest

-----------------------------------------------------------------------------
(* The chart that was clicked.                                             *)

Listing(data) == "recents" \in DOMAIN data /\ Deduped(data.recents)

\* What is stored, and what the holder of the mutex has read, names no chart twice;
\* what is added or removed is a chart.
Listed ==
  /\ disk # Unreadable => Listing(disk)
  /\ mutex # 0 => Listing(loaded)

\* Operations on the list of recent charts.
Working(t) == Live(t) /\ ~Saving(t)

\* Nothing can be read, or the list that will be stored next is this one.
Stands(list) == Mapped # Unreadable => Mapped.recents = list

Names(j) ==
  Mapped # Unreadable =>
    j.index \in 1..Len(Mapped.recents) /\ Mapped.recents[j.index] = j.chart

\* The operation that can still be delivered is one on the list.
Expected ==
  current # 0 => current \in Tasks /\ phase[current] # "none" /\ job[current].do # "touch"

\* The list of a careful user: one operation at a time, the answer and the list
\* shown after it are the list that is stored, and so the index of an operation
\* that removes names the chart that was clicked until it has removed it.
Clicked ==
  careful =>
    /\ \A s, t \in Tasks : Working(s) /\ Working(t) => s = t
    /\ \A t \in Tasks : phase[t] = "answered" => t = current /\ Stands(answer)
    /\ fresh => Quiet /\ Stands(shown)
    /\ \A t \in Tasks :
         phase[t] \in {"called", "updating", "loaded", "writing"} /\ job[t].do = "remove" =>
           Names(job[t])

\* The program starts with no list and one operation.
LEMMA InitClicked == Init => Listed /\ Expected /\ Clicked
<1> SUFFICES ASSUME Init PROVE Listed /\ Expected /\ Clicked
  OBVIOUS
<1> USE AppStateAssumption DEF Init, Tasks
<1>1. Listing(disk) /\ mutex = 0
  <2>1. <<>> \in Seq(Charts) /\ Len(<<>>) = 0
    BY EmptySeq
  <2> QED
    BY <2>1 DEF Listing, Empty, Deduped
<1>2. \A t \in Tasks : phase[t] = (IF t = 1 THEN "called" ELSE "none") /\ (t = 1 => job[t].do = "list")
  OBVIOUS
<1>3. ~fresh
  OBVIOUS
<1>4. \A t \in Tasks : Working(t) => t = 1
  BY <1>2 DEF Working, Live
<1> QED
  BY <1>1, <1>2, <1>3, <1>4 DEF Listed, Expected, Clicked

\* What an update makes of a list that names no chart twice is such a list, and
\* within the limit; saving a UI state leaves it as it was.
LEMMA UpdatedLists ==
  ASSUME NEW j, Known(j), j.do # "list", NEW data, Listing(data),
         j.do = "remove" => j.index \in DOMAIN data.recents
  PROVE  /\ Listing(Updated(j, data))
         /\ Len(data.recents) <= MaxRecentCharts => Len(Updated(j, data).recents) <= MaxRecentCharts
         /\ j.do = "touch" => Updated(j, data).recents = data.recents
         /\ j.do = "remove" => Updated(j, data).recents = RemoveAt(data.recents, j.index)
<1>1. CASE j.do = "add"
  <2> DEFINE list == Capped(<<j.chart>> \o Without(data.recents, OCICharts \union {j.chart}))
  <2>1. Updated(j, data) = [data EXCEPT !.recents = list]
    BY <1>1 DEF Updated, Added
  <2>2. Deduped(list) /\ Len(list) <= MaxRecentCharts
    BY <1>1, AddedDedupes DEF Known, Listing
  <2> HIDE DEF list
  <2> QED
    BY <1>1, <2>1, <2>2 DEF Listing
<1>2. CASE j.do = "remove"
  <2> DEFINE list == RemoveAt(data.recents, j.index)
  <2>1. Updated(j, data) = [data EXCEPT !.recents = list]
    BY <1>2 DEF Updated, Removed
  <2>2. j.index \in 1..Len(data.recents)
    BY <1>2, LenProperties DEF Listing, Deduped
  <2>3. Deduped(list) /\ Len(list) = Len(data.recents) - 1
    BY <2>2, RemovedDedupes DEF Listing
  <2> HIDE DEF list
  <2>4. Listing(Updated(j, data)) /\ Updated(j, data).recents = list
    BY <2>1, <2>3 DEF Listing
  <2>5. Len(data.recents) <= MaxRecentCharts => Len(list) <= MaxRecentCharts
    BY <2>3, LenProperties, AppDataAssumption DEF Listing, Deduped
  <2> QED
    BY <1>2, <2>4, <2>5 DEF list
<1>3. CASE j.do = "touch"
  <2>1. PICK stamps : Updated(j, data) = [data EXCEPT !.touched = stamps]
    BY <1>3 DEF Updated, Touched
  <2> QED
    BY <1>3, <2>1 DEF Listing
<1> QED
  BY <1>1, <1>2, <1>3 DEF Known

\* A step that begins no operation, changes no list and shows nothing.
LEMMA ClickedSame ==
  ASSUME Listed, Clicked, UNCHANGED <<careful, answer, shown, fresh, current>>,
         Mapped' # Unreadable => Mapped # Unreadable /\ Mapped'.recents = Mapped.recents,
         \A t \in Tasks : Working(t)' => Working(t),
         \A t \in Tasks : phase'[t] = "answered" => phase[t] = "answered",
         \A t \in Tasks :
           phase'[t] \in {"called", "updating", "loaded", "writing"} /\ job'[t].do = "remove" =>
             /\ phase[t] \in {"called", "updating", "loaded", "writing"} /\ job[t].do = "remove"
             /\ job'[t] = job[t]
  PROVE  Clicked'
<1> SUFFICES ASSUME careful PROVE Clicked'
  BY DEF Clicked
<1>1. \A list : Stands(list) => Stands(list)'
  BY DEF Stands
<1>2. Stands(shown) => Stands(shown)'
  BY DEF Stands
<1>3. Stands(answer) => Stands(answer)'
  BY DEF Stands
<1>4. Quiet => Quiet'
  BY DEF Quiet, Working
<1>5. ASSUME NEW t \in Tasks, phase'[t] \in {"called", "updating", "loaded", "writing"},
             job'[t].do = "remove"
      PROVE  Names(job[t])'
  BY <1>5 DEF Names, Clicked
<1> QED
  BY <1>2, <1>3, <1>4, <1>5 DEF Clicked

\* What leaves the stored list and its operations alone leaves Listed alone.
LEMMA ListedSame ==
  ASSUME Listed, UNCHANGED <<disk, mutex, loaded>>
  PROVE  Listed'
BY DEF Listed, Listing, Deduped

\* Every step leaves an operation on the list, or none, to be delivered.
LEMMA StepExpected == IInv /\ Expected /\ [Next]_vars => Expected'
<1> SUFFICES ASSUME IInv, Expected, [Next]_vars PROVE Expected'
  OBVIOUS
<1>1. CASE AsideSteps
  <2>1. current' \in {0, current}
    BY <1>1 DEF AsideSteps, PollRecentCharts, Expire, Begin, LoadFails, ListRecentCharts,
       Quietly, vars
  <2>2. Aside
    BY <1>1, AsideStepsInv
  <2> QED
    BY <2>1, <2>2 DEF Expected, Aside
<1>2. ASSUME NEW j, j.do # "touch", Call(j), current' = called + 1, phase'[called + 1] = "called"
      PROVE  Expected'
  BY <1>2, CallFacts DEF Expected
<1>3. CASE DispatchSteps
  <2>1. PICK j : j.do # "touch" /\ Dispatch(j)
    BY <1>3 DEF DispatchSteps, loadRecentCharts, addRecentChart, onRemoveRecentChart
  <2> QED
    BY <1>2, <2>1, CallFacts DEF Dispatch
<1>4. CASE Restart
  <2> DEFINE j == [do |-> "list"]
  <2>1. j.do # "touch" /\ Call(j) /\ current' = called + 1
    BY <1>4 DEF Restart
  <2>2. phase'[called + 1] = "called"
    BY <1>4, <2>1, CallFacts DEF Restart
  <2> HIDE DEF j
  <2> QED
    BY <1>2, <2>1, <2>2
<1>5. ASSUME NEW key \in Keys, SaveChartUIState(key)
      PROVE  Expected'
  <2>1. PICK j : Call(j)
    BY <1>5 DEF SaveChartUIState
  <2>2. phase' = [phase EXCEPT ![called + 1] = "updating"] /\ current' = current
    BY <1>5 DEF SaveChartUIState
  <2> QED
    BY <2>1, <2>2, CallFacts DEF Expected, IInv, Shape
<1>6. ASSUME NEW t \in Tasks, Load(t) \/ BeginWrite(t) \/ EndWrite(t) \/ WriteFails(t)
      PROVE  Expected'
  <2>1. UNCHANGED <<job, current>>
    BY <1>6 DEF Load, BeginWrite, EndWrite, WriteFails, Quietly
  <2>2. \A s \in Tasks : phase[s] # "none" => phase'[s] # "none"
    BY <1>6 DEF Load, BeginWrite, EndWrite, WriteFails, Finished, IInv, Shape
  <2> QED
    BY <2>1, <2>2 DEF Expected
<1> QED
  BY <1>1, <1>3, <1>4, <1>5, <1>6, StepKinds

\* Polls, deadlines and the steps of an operation before and after its update.
LEMMA AsideClicked == IInv /\ Expected /\ Clicked /\ AsideSteps => Clicked'
<1> SUFFICES ASSUME IInv, Expected, Clicked, AsideSteps, careful PROVE Clicked'
  BY DEF Clicked, AsideSteps, PollRecentCharts, Expire, Begin, LoadFails, ListRecentCharts,
         Quietly, vars
<1>1. Aside
  BY AsideStepsInv
<1>2. Mapped' = Mapped
  BY <1>1 DEF Aside, Mapped
<1>3. \A t \in Tasks : Working(t)' => Working(t)
  BY <1>1 DEF Aside, Working, Saving, Live
<1>4. \A s, t \in Tasks : Working(s)' /\ Working(t)' => s = t
  BY <1>3 DEF Clicked
<1>5. ASSUME NEW t \in Tasks, phase'[t] \in {"called", "updating", "loaded", "writing"},
             job'[t].do = "remove"
      PROVE  Names(job[t])'
  <2>1. job'[t] = job[t]
    BY <1>1 DEF Aside
  <2>2. phase[t] \in {"called", "updating", "loaded", "writing"}
    BY <1>5 DEF AsideSteps, PollRecentCharts, Expire, Begin, LoadFails,
       ListRecentCharts, Finished, IInv, Shape, vars
  <2> QED
    BY <1>2, <1>5, <2>1, <2>2 DEF Names, Clicked
<1>6. CASE PollRecentCharts
  <2>1. /\ current \in Tasks /\ phase[current] \in {"answered", "failed"}
        /\ shown' = (IF phase[current] = "answered" THEN answer ELSE shown)
        /\ fresh' = (phase[current] = "answered")
        /\ phase' = [phase EXCEPT ![current] = "ended"]
        /\ job' = job
    BY <1>6 DEF PollRecentCharts, Expected
  <2>2. ASSUME NEW t \in Tasks, phase'[t] = "answered"
        PROVE  FALSE
    <3>1. phase[t] = "answered" /\ t # current
      BY <2>1, <2>2 DEF IInv, Shape
    <3> QED
      BY <3>1 DEF Clicked
  <2>3. ASSUME fresh'
        PROVE  Quiet' /\ Stands(shown)'
    <3>1. phase[current] = "answered" /\ shown' = answer
      BY <2>1, <2>3
    <3>2. Stands(answer)
      BY <2>1, <3>1 DEF Clicked
    <3>3. Working(current) /\ phase'[current] = "ended"
      BY <2>1, <3>1, <1>6 DEF Working, Live, Saving, Expected, IInv, Shape, PollRecentCharts
    <3>4. \A t \in Tasks : ~Working(t)'
      BY <1>3, <2>1, <3>3 DEF Clicked, Working, Live
    <3> QED
      BY <1>2, <3>1, <3>2, <3>4 DEF Quiet, Working, Stands
  <2> QED
    BY <1>4, <1>5, <2>2, <2>3 DEF Clicked
<1>7. CASE ~PollRecentCharts
  <2>1. UNCHANGED <<shown, fresh>>
    BY <1>7 DEF AsideSteps, Expire, Begin, LoadFails, ListRecentCharts, Quietly, vars
  <2>2. fresh' => Quiet' /\ Stands(shown)'
    BY <1>2, <1>3, <2>1 DEF Clicked, Quiet, Working, Stands
  <2>3. ASSUME NEW t \in Tasks, phase'[t] = "answered"
        PROVE  t = current' /\ Stands(answer)'
    <3>1. CASE Expire
      <4>1. /\ current # 0 /\ current' = 0 /\ UNCHANGED answer
            /\ phase' = [phase EXCEPT ![current] = IF @ \in {"answered", "failed"} THEN "ended"
                                                   ELSE @]
        BY <3>1 DEF Expire
      <4>2. phase[t] = "answered" /\ t # current
        BY <2>3, <4>1 DEF IInv, Shape
      <4> QED
        BY <4>2 DEF Clicked
    <3>2. ASSUME NEW s \in Tasks, Begin(s) \/ LoadFails(s)
          PROVE  t = current' /\ Stands(answer)'
      <4>1. UNCHANGED <<current, answer>> /\ phase[t] = "answered"
        BY <2>3, <3>2 DEF Begin, LoadFails, Finished, Quietly, IInv, Shape
      <4> QED
        BY <1>2, <4>1 DEF Clicked, Stands
    <3>3. ASSUME NEW s \in Tasks, ListRecentCharts(s)
          PROVE  t = current' /\ Stands(answer)'
      <4>1. current' = current
        BY <3>3 DEF ListRecentCharts, Quietly
      <4>2. CASE t # s
        <5>1. phase[t] = "answered"
          BY <3>3, <2>3, <4>2 DEF ListRecentCharts, Finished, IInv, Shape
        <5>2. t = current /\ Stands(answer)
          BY <5>1 DEF Clicked
        <5>3. answer' = answer
          BY <3>3, <4>2, <5>2 DEF ListRecentCharts
        <5> QED
          BY <1>2, <4>1, <5>2, <5>3 DEF Stands
      <4>3. CASE t = s
        <5>1. t = current /\ answer' = disk.recents /\ disk # Unreadable
          BY <2>3, <3>3, <4>3 DEF ListRecentCharts, Finished, loadLocked, IInv, Shape
        <5> QED
          BY <1>2, <4>1, <5>1 DEF Stands, Mapped
      <4> QED
        BY <4>2, <4>3
    <3>4. CASE UNCHANGED vars
      BY <1>2, <2>3, <3>4 DEF Clicked, vars, Stands
    <3> QED
      BY <1>7, <3>1, <3>2, <3>3, <3>4 DEF AsideSteps
  <2> QED
    BY <1>4, <1>5, <2>2, <2>3 DEF Clicked
<1> QED
  BY <1>6, <1>7
\* An operation on the list begins: there is no other, and one that removes names the
\* chart that is shown.
LEMMA DispatchClicked ==
  ASSUME IInv, Listed, Clicked, NEW j, j.do # "touch", Dispatch(j), User,
         j.do = "remove" => (careful => fresh) /\ j.index \in DOMAIN shown
                            /\ j.chart = shown[j.index]
  PROVE  Clicked'
<1> SUFFICES ASSUME careful PROVE Clicked'
  BY DEF Dispatch, Clicked
<1>1. /\ Call(j) /\ fresh' = FALSE
      /\ phase' = [t \in Tasks |-> IF t = called + 1 THEN "called"
                                   ELSE IF phase[t] \in {"answered", "failed"} THEN "ended"
                                   ELSE phase[t]]
      /\ UNCHANGED <<careful, disk, mutex, loaded>>
  BY DEF Dispatch
<1>2. /\ called + 1 \in Tasks /\ phase[called + 1] = "none" /\ job'[called + 1] = j
      /\ \A t \in Tasks : t # called + 1 => job'[t] = job[t]
  BY <1>1, CallFacts
<1>3. \A t \in Tasks : phase'[t] = IF t = called + 1 THEN "called"
                                   ELSE IF phase[t] \in {"answered", "failed"} THEN "ended"
                                   ELSE phase[t]
  BY <1>1
<1>4. \A t \in Tasks : ~Working(t)
  BY DEF User, Quiet, Working
<1>5. ASSUME NEW t \in Tasks, Working(t)'
      PROVE  t = called + 1
  BY <1>2, <1>3, <1>4, <1>5 DEF Working, Saving, Live
<1>6. Mapped' = Mapped
  BY <1>1 DEF Mapped
<1>7. ASSUME j.do = "remove"
      PROVE  Names(j)'
  <2>1. Stands(shown) /\ j.index \in DOMAIN shown /\ j.chart = shown[j.index]
    BY <1>7 DEF Clicked
  <2>2. ASSUME Mapped # Unreadable
        PROVE  j.index \in 1..Len(Mapped.recents) /\ Mapped.recents[j.index] = j.chart
    <3>1. Listing(Mapped) /\ Mapped.recents = shown
      BY <2>1, <2>2 DEF Mapped, Listed, Stands
    <3>2. DOMAIN Mapped.recents = 1..Len(Mapped.recents)
      BY <3>1, LenProperties DEF Listing, Deduped
    <3> QED
      BY <2>1, <3>1, <3>2
  <2> QED
    BY <1>6, <2>2 DEF Names
<1>8. ASSUME NEW t \in Tasks, phase'[t] \in {"called", "updating", "loaded", "writing"},
             job'[t].do = "remove"
      PROVE  Names(job[t])'
  <2>1. t = called + 1
    BY <1>5, <1>8 DEF Working, Saving, Live
  <2> QED
    BY <1>2, <1>7, <1>8, <2>1 DEF Names
<1>9. \A t \in Tasks : phase'[t] # "answered"
  BY <1>3
<1> QED
  BY <1>1, <1>5, <1>8, <1>9 DEF Clicked

\* The update of an operation reaches the disk.
LEMMA EndWriteClicked ==
  ASSUME IInv, Listed, Expected, Clicked, NEW t \in Tasks, EndWrite(t)
  PROVE  Listed' /\ Clicked'
<1>1. /\ phase[t] = "writing" /\ disk' = Updated(job[t], loaded) /\ mutex' = 0
      /\ phase' = [phase EXCEPT ![t] = IF job[t].do = "touch" THEN "ended" ELSE "listing"]
      /\ UNCHANGED <<loaded, job, careful, answer, shown, fresh, current>>
  BY DEF EndWrite, Quietly
<1>2. \A s \in Tasks : phase'[s] = IF s = t THEN (IF job[t].do = "touch" THEN "ended" ELSE "listing")
                                   ELSE phase[s]
  BY <1>1 DEF IInv, Shape
<1>3. /\ mutex = t /\ t # 0 /\ Known(job[t]) /\ job[t].do # "list"
      /\ job[t].do = "remove" => job[t].index \in DOMAIN loaded.recents
  BY <1>1 DEF IInv, Locked, Tasks, JobsKnown, Applicable
<1>4. Listing(loaded) /\ Mapped = loaded /\ loaded # Unreadable
  BY <1>1, <1>3, CommitMaps DEF Listed
<1>5. /\ Listing(disk')
      /\ job[t].do = "touch" => disk'.recents = loaded.recents
  BY <1>1, <1>3, <1>4, UpdatedLists
<1>6. Listed'
  BY <1>1, <1>5 DEF Listed, Listing, Deduped
<1>7. \A s \in Tasks : Working(s)' => Working(s)
  BY <1>1, <1>2 DEF Working, Saving, Live
<1>8. CASE job[t].do = "touch"
  <2>1. Mapped' = disk'
    BY <1>1 DEF Mapped
  <2> QED
    BY <1>1, <1>2, <1>4, <1>5, <1>6, <1>7, <1>8, <2>1, ClickedSame
<1>9. CASE job[t].do # "touch"
  <2> SUFFICES ASSUME careful PROVE Clicked'
    BY <1>1, <1>6 DEF Clicked
  <2>1. Working(t)
    BY <1>1, <1>9 DEF Working, Saving, Live
  <2>2. \A s \in Tasks : Working(s) => s = t
    BY <2>1 DEF Clicked
  <2>3. ~fresh
    BY <2>1 DEF Clicked, Quiet, Working
  <2>4. ASSUME NEW s \in Tasks, phase'[s] = "answered"
        PROVE  FALSE
    <3>1. phase[s] = "answered" /\ s # t
      BY <1>2, <1>9, <2>4
    <3>2. s = current /\ s # 0
      BY <3>1 DEF Clicked, Tasks
    <3>3. Working(s)
      BY <3>1, <3>2 DEF Working, Saving, Live, Expected
    <3> QED
      BY <2>2, <3>1, <3>3
  <2>5. ASSUME NEW s \in Tasks, phase'[s] \in {"called", "updating", "loaded", "writing"},
               job'[s].do = "remove"
        PROVE  FALSE
    <3>1. phase[s] = phase'[s] /\ s # t /\ job[s].do = "remove"
      BY <1>1, <1>2, <1>9, <2>5
    <3>2. Working(s)
      BY <2>5, <3>1 DEF Working, Saving, Live
    <3> QED
      BY <2>2, <3>1, <3>2
  <2>6. \A s, u \in Tasks : Working(s)' /\ Working(u)' => s = u
    BY <1>7, <2>2
  <2> QED
    BY <1>1, <1>6, <2>3, <2>4, <2>5, <2>6 DEF Clicked
<1> QED
  BY <1>6, <1>8, <1>9

\* Every step keeps the list of a careful user.
LEMMA StepClicked ==
  IInv /\ Listed /\ Expected /\ Clicked /\ [Next]_vars => Listed' /\ Clicked'
<1> SUFFICES ASSUME IInv, Listed, Expected, Clicked, [Next]_vars PROVE Listed' /\ Clicked'
  OBVIOUS
<1>1. CASE AsideSteps
  BY <1>1, AsideStepsInv, AsideClicked, ListedSame DEF Aside
<1>2. CASE DispatchSteps
  <2>1. PICK j : /\ j.do # "touch" /\ Dispatch(j) /\ User
                 /\ j.do = "remove" => /\ (careful => fresh) /\ j.index \in DOMAIN shown
                                       /\ j.chart = shown[j.index]
    <3>1. CASE loadRecentCharts
      BY <3>1 DEF loadRecentCharts
    <3>2. ASSUME NEW chart \in Charts, addRecentChart(chart)
          PROVE  \E j : /\ j.do # "touch" /\ Dispatch(j) /\ User /\ j.do # "remove"
      BY <3>2 DEF addRecentChart
    <3>3. CASE \E i \in DOMAIN shown : onRemoveRecentChart(i)
      BY <3>3 DEF onRemoveRecentChart
    <3> QED
      BY <1>2, <3>1, <3>2, <3>3 DEF DispatchSteps
  <2>2. UNCHANGED <<disk, mutex, loaded>>
    BY <2>1 DEF Dispatch
  <2> QED
    BY <2>1, <2>2, DispatchClicked, ListedSame
<1>3. ASSUME NEW key \in Keys, SaveChartUIState(key)
      PROVE  Listed' /\ Clicked'
  <2>1. PICK j : j.do = "touch" /\ Call(j)
    BY <1>3 DEF SaveChartUIState
  <2>2. /\ phase' = [phase EXCEPT ![called + 1] = "updating"]
        /\ UNCHANGED <<careful, disk, mutex, loaded, current, answer, shown, fresh>>
    BY <1>3 DEF SaveChartUIState
  <2>3. /\ called + 1 \in Tasks /\ job'[called + 1] = j
        /\ \A t \in Tasks : t # called + 1 => job'[t] = job[t]
    BY <2>1, CallFacts
  <2>4. \A t \in Tasks : phase'[t] = IF t = called + 1 THEN "updating" ELSE phase[t]
    BY <2>2 DEF IInv, Shape
  <2>5. \A t \in Tasks : Working(t)' => Working(t)
    BY <2>1, <2>3, <2>4 DEF Working, Saving, Live
  <2>6. Mapped' = Mapped
    BY <2>2 DEF Mapped
  <2> QED
    BY <2>1, <2>2, <2>3, <2>4, <2>5, <2>6, ClickedSame, ListedSame
<1>4. ASSUME NEW t \in Tasks, Load(t)
      PROVE  Listed' /\ Clicked'
  <2>1. /\ disk # Unreadable /\ mutex = 0 /\ mutex' = t /\ loaded' = disk
        /\ phase[t] = "updating" /\ phase' = [phase EXCEPT ![t] = "loaded"]
        /\ UNCHANGED <<disk, job, careful, answer, shown, fresh, current>>
    BY <1>4 DEF Load, loadLocked, Applicable, Quietly
  <2>2. \A s \in Tasks : phase'[s] = IF s = t THEN "loaded" ELSE phase[s]
    BY <2>1 DEF IInv, Shape
  <2>3. Listed'
    BY <2>1 DEF Listed, Listing, Deduped
  <2>4. Mapped' = Mapped
    BY <2>1 DEF Mapped
  <2>5. \A s \in Tasks : Working(s)' => Working(s)
    BY <2>1, <2>2 DEF Working, Saving, Live
  <2> QED
    BY <2>1, <2>2, <2>3, <2>4, <2>5, ClickedSame
<1>5. ASSUME NEW t \in Tasks, BeginWrite(t)
      PROVE  Listed' /\ Clicked'
  <2>1. /\ disk' = Unreadable
        /\ phase[t] = "loaded" /\ phase' = [phase EXCEPT ![t] = "writing"]
        /\ UNCHANGED <<mutex, loaded, job, careful, answer, shown, fresh, current>>
    BY <1>5 DEF BeginWrite, Quietly
  <2>2. \A s \in Tasks : phase'[s] = IF s = t THEN "writing" ELSE phase[s]
    BY <2>1 DEF IInv, Shape
  <2>3. mutex = t /\ t # 0 /\ disk = loaded
    BY <2>1 DEF IInv, Locked, Tasks
  <2>4. Listed'
    BY <2>1 DEF Listed, Listing, Deduped
  <2>5. Mapped' = Mapped
    BY <2>1, <2>3 DEF Mapped
  <2>6. \A s \in Tasks : Working(s)' => Working(s)
    BY <2>1, <2>2 DEF Working, Saving, Live
  <2> QED
    BY <2>1, <2>2, <2>4, <2>5, <2>6, ClickedSame
<1>6. ASSUME NEW t \in Tasks, EndWrite(t)
      PROVE  Listed' /\ Clicked'
  BY <1>6, EndWriteClicked
<1>7. ASSUME NEW t \in Tasks, WriteFails(t)
      PROVE  Listed' /\ Clicked'
  <2>1. PICK end \in {"failed", "ended"} : phase' = [phase EXCEPT ![t] = end]
    BY <1>7 DEF WriteFails, Finished
  <2>2. /\ phase[t] \in {"loaded", "writing"} /\ mutex' = 0
        /\ UNCHANGED <<disk, loaded, job, careful, answer, shown, fresh, current>>
    BY <1>7 DEF WriteFails, Quietly
  <2>3. \A s \in Tasks : phase'[s] = IF s = t THEN end ELSE phase[s]
    BY <2>1 DEF IInv, Shape
  <2>4. Listed'
    BY <2>2 DEF Listed, Listing, Deduped
  <2>5. Mapped' # Unreadable => Mapped' = Mapped
    BY <2>2 DEF Mapped
  <2>6. \A s \in Tasks : Working(s)' => Working(s)
    BY <2>2, <2>3 DEF Working, Saving, Live
  <2> QED
    BY <2>2, <2>3, <2>4, <2>5, <2>6, ClickedSame
<1>8. CASE Restart
  <2> DEFINE j == [do |-> "list"]
  <2>1. /\ Call(j) /\ mutex' = 0 /\ UNCHANGED disk /\ fresh' = FALSE
        /\ phase' = [t \in Tasks |-> IF t = called + 1 THEN "called"
                                     ELSE IF phase[t] = "none" THEN "none" ELSE "ended"]
    BY <1>8 DEF Restart
  <2>2. j.do = "list"
    OBVIOUS
  <2> HIDE DEF j
  <2>3. job'[called + 1].do = "list"
    BY <2>1, <2>2, CallFacts
  <2>4. \A t \in Tasks : phase'[t] = IF t = called + 1 THEN "called"
                                     ELSE IF phase[t] = "none" THEN "none" ELSE "ended"
    BY <2>1
  <2>5. Listed'
    BY <2>1 DEF Listed, Listing, Deduped
  <2>6. \A t \in Tasks : Working(t)' => t = called + 1
    BY <2>4 DEF Working, Live
  <2> QED
    BY <2>1, <2>3, <2>4, <2>5, <2>6 DEF Clicked
<1> QED
  BY <1>1, <1>2, <1>3, <1>4, <1>5, <1>6, <1>7, <1>8, StepKinds

\* Only the writer itself ends its write.
LEMMA CommitIsEndWrite ==
  ASSUME IInv, [Next]_vars, NEW t \in Tasks, phase[t] = "writing", phase'[t] = "listing"
  PROVE  EndWrite(t)
<1>1. ~AsideSteps
  BY AsideStepsInv DEF Aside
<1>2. ~DispatchSteps
  <2> SUFFICES ASSUME DispatchSteps PROVE FALSE
    OBVIOUS
  <2>1. PICK j : Dispatch(j)
    BY DEF DispatchSteps, loadRecentCharts, addRecentChart, onRemoveRecentChart
  <2> QED
    BY <2>1 DEF Dispatch
<1>3. ~Restart
  BY DEF Restart
<1>4. \A key \in Keys : ~SaveChartUIState(key)
  BY DEF SaveChartUIState, IInv, Shape
<1>5. ASSUME NEW s \in Tasks, Load(s) \/ BeginWrite(s) \/ WriteFails(s)
      PROVE  FALSE
  BY <1>5 DEF Load, BeginWrite, WriteFails, Finished, IInv, Shape
<1>6. ASSUME NEW s \in Tasks, EndWrite(s)
      PROVE  s = t
  BY <1>6 DEF EndWrite, IInv, Shape
<1> QED
  BY <1>1, <1>2, <1>3, <1>4, <1>5, <1>6, StepKinds

\* A step of a careful user's program that removes a recent chart removes the one
\* that was clicked and no other.
LEMMA StepRemoves ==
  ASSUME IInv, Listed, Expected, Clicked, [Next]_vars
  PROVE  \A t \in Tasks : careful /\ Commits(t, "remove") =>
           /\ job[t].chart \notin Range(disk'.recents)
           /\ Range(loaded.recents) \ {job[t].chart} \subseteq Range(disk'.recents)
<1> SUFFICES ASSUME NEW t \in Tasks, careful, Commits(t, "remove")
             PROVE  /\ job[t].chart \notin Range(disk'.recents)
                    /\ Range(loaded.recents) \ {job[t].chart} \subseteq Range(disk'.recents)
  OBVIOUS
<1>1. phase[t] = "writing" /\ job[t].do = "remove" /\ EndWrite(t)
  BY CommitIsEndWrite DEF Commits
<1>2. disk' = Updated(job[t], loaded) /\ mutex = t /\ t # 0 /\ Known(job[t])
  BY <1>1 DEF EndWrite, IInv, Locked, Tasks, JobsKnown
<1>3. Mapped = loaded /\ loaded # Unreadable /\ Listing(loaded)
  BY <1>1, <1>2, CommitMaps DEF Listed
<1>4. Names(job[t])
  BY <1>1 DEF Clicked
<1>5. job[t].index \in 1..Len(loaded.recents) /\ loaded.recents[job[t].index] = job[t].chart
  BY <1>3, <1>4 DEF Names
<1>6. job[t].index \in DOMAIN loaded.recents
  BY <1>3, <1>5, LenProperties DEF Listing, Deduped
<1>7. disk'.recents = RemoveAt(loaded.recents, job[t].index)
  BY <1>1, <1>2, <1>3, <1>6, UpdatedLists
<1> QED
  BY <1>3, <1>5, <1>7, RemovedDedupes DEF Listing

\* A careful user who removes a recent chart removes the one that was clicked, for
\* any number of charts, operations, saves and restarts.
THEOREM RemovesTheClicked == Spec => ClickedIsRemoved
<1>1. IInv /\ Listed /\ Expected /\ Clicked /\ [Next]_vars =>
        [\A t \in Tasks : careful /\ Commits(t, "remove") =>
           /\ job[t].chart \notin Range(disk'.recents)
           /\ Range(loaded.recents) \ {job[t].chart} \subseteq Range(disk'.recents)]_vars
  BY StepRemoves
<1> QED
  BY <1>1, InitClicked, StepClicked, StepExpected, AppStateInvariant, PTL
     DEF Spec, ClickedIsRemoved
-----------------------------------------------------------------------------
(* Types, and with them the limit on recent charts.                        *)

\* The lists within the limit.
LEMMA ListsAreShort ==
  ASSUME NEW list
  PROVE  list \in Lists <=> list \in Seq(Charts) /\ Len(list) <= MaxRecentCharts
<1>1. ASSUME list \in Lists
      PROVE  list \in Seq(Charts) /\ Len(list) <= MaxRecentCharts
  <2>1. PICK m \in 0..MaxRecentCharts : list \in [1..m -> Charts]
    BY <1>1 DEF Lists, BoundedSeq, SeqOf
  <2>2. m \in Nat /\ m <= MaxRecentCharts
    BY AppDataAssumption
  <2>3. list \in Seq(Charts)
    BY <2>1, <2>2, SeqDef
  <2>4. DOMAIN list = 1..m /\ DOMAIN list = 1..Len(list) /\ Len(list) \in Nat
    BY <2>1, <2>3, LenProperties
  <2>5. Len(list) = m
    BY <2>2, <2>4
  <2> QED
    BY <2>2, <2>3, <2>5
<1>2. ASSUME list \in Seq(Charts), Len(list) <= MaxRecentCharts
      PROVE  list \in Lists
  <2>1. Len(list) \in 0..MaxRecentCharts /\ list \in [1..Len(list) -> Charts]
    BY <1>2, LenProperties, AppDataAssumption
  <2> QED
    BY <2>1 DEF Lists, BoundedSeq, SeqOf
<1> QED
  BY <1>1, <1>2

\* The list of no chart is one of them.
LEMMA NoChartIsShort == <<>> \in Lists
<1> DEFINE list == <<>>
<1>1. list \in Seq(Charts) /\ Len(list) = 0
  BY EmptySeq
<1> HIDE DEF list
<1>2. list \in Seq(Charts) /\ Len(list) <= MaxRecentCharts
  BY <1>1, AppDataAssumption
<1>3. list \in Lists
  BY <1>2, ListsAreShort
<1> QED
  BY <1>3 DEF list

\* What an update makes of data of the type is of the type.
LEMMA UpdatedType ==
  ASSUME NEW j \in Jobs, j.do # "list", NEW data \in AppDataType, Listing(data),
         j.do = "remove" => j.index \in DOMAIN data.recents
  PROVE  Updated(j, data) \in AppDataType
<1>1. data.recents \in Lists /\ data.touched \in [Keys -> 0..MaxTouches]
      /\ data = [recents |-> data.recents, touched |-> data.touched]
  BY DEF AppDataType, Lists
<1>2. Known(j)
  BY DEF Jobs, Known
<1>3. Updated(j, data).recents \in Lists
  <2>1. Listing(Updated(j, data)) /\ Len(Updated(j, data).recents) <= MaxRecentCharts
    BY <1>1, <1>2, ListsAreShort, UpdatedLists
  <2> QED
    BY <2>1, ListsAreShort DEF Listing, Deduped
<1>4. ASSUME NEW list, Updated(j, data) = [data EXCEPT !.recents = list]
      PROVE  Updated(j, data) \in AppDataType
  <2>1. list \in Lists
    BY <1>1, <1>3, <1>4
  <2> QED
    BY <1>1, <1>4, <2>1 DEF AppDataType, Lists
<1>5. CASE j.do = "add"
  <2> DEFINE list == Capped(<<j.chart>> \o Without(data.recents, OCICharts \union {j.chart}))
  <2>1. Updated(j, data) = [data EXCEPT !.recents = list]
    BY <1>5 DEF Updated, Added
  <2> HIDE DEF list
  <2> QED
    BY <1>4, <2>1
<1>6. CASE j.do = "remove"
  <2>1. Updated(j, data) = [data EXCEPT !.recents = RemoveAt(data.recents, j.index)]
    BY <1>6 DEF Updated, Removed
  <2> QED
    BY <1>4, <2>1
<1>7. CASE j.do = "touch"
  <2> DEFINE put    == [data.touched EXCEPT ![j.key] = j.at]
             others == {k \in Keys \ {j.key} : put[k] > 0}
             oldest == {k \in others : \A l \in others : put[k] <= put[l]}
             stamps == IF Cardinality(others) < MaxChartUIStates THEN put
                       ELSE [k \in Keys |-> IF k \in oldest THEN 0 ELSE put[k]]
  <2>1. Updated(j, data) = [data EXCEPT !.touched = stamps]
    BY <1>7 DEF Updated, Touched
  <2>2. j.key \in Keys /\ j.at \in 0..MaxTouches
    BY <1>7, AppDataAssumption DEF Jobs
  <2>3. put \in [Keys -> 0..MaxTouches]
    BY <1>1, <2>2
  <2> HIDE DEF put, oldest
  <2>4. stamps \in [Keys -> 0..MaxTouches]
    BY <2>3, AppDataAssumption
  <2> HIDE DEF stamps
  <2> QED
    BY <1>1, <2>1, <2>4 DEF AppDataType
<1> QED
  BY <1>2, <1>5, <1>6, <1>7 DEF Known

\* The part of the type invariant that no other proof has needed.  An operation
\* that was called has one of the jobs.
Typed ==
  /\ careful \in BOOLEAN /\ fresh \in BOOLEAN
  /\ disk \in AppDataType \union {Unreadable}
  /\ loaded \in AppDataType
  /\ current \in 0..MaxTasks
  /\ job \in [Tasks -> Jobs \union {NoJob}]
  /\ \A t \in Tasks : t <= called => job[t] \in Jobs
  /\ answer \in Lists /\ shown \in Lists
  /\ saved \in [Keys -> 0..MaxTouches]

\* The program starts with an empty store.
LEMMA InitTyped == Init => Typed
<1> SUFFICES ASSUME Init PROVE Typed
  OBVIOUS
<1>1. <<>> \in Lists
  BY NoChartIsShort
<1>2. Empty \in AppDataType
  BY <1>1, AppDataAssumption DEF Empty, AppDataType, Lists
<1> DEFINE j == [do |-> "list"]
<1>3. j \in Jobs
  BY DEF Jobs
<1>4. called = 1 /\ job = [t \in Tasks |-> IF t = 1 THEN j ELSE NoJob]
  BY DEF Init
<1> HIDE DEF j
<1>5. \A t \in Tasks : t <= called => t = 1
  BY <1>4 DEF Tasks
<1>6. saved \in [Keys -> 0..MaxTouches] /\ current \in 0..MaxTasks
  BY AppStateAssumption, AppDataAssumption DEF Init
<1> QED
  BY <1>1, <1>2, <1>3, <1>4, <1>5, <1>6 DEF Init, Typed

\* An operation that is called is one of the jobs.
LEMMA CallTyped ==
  ASSUME IInv, Typed, NEW j \in Jobs, Call(j)
  PROVE  /\ job' \in [Tasks -> Jobs \union {NoJob}] /\ called + 1 \in 0..MaxTasks
         /\ \A t \in Tasks : t <= called' => job'[t] \in Jobs
<1>1. called + 1 \in Tasks /\ called' = called + 1 /\ job'[called + 1] = j
      /\ \A t \in Tasks : t # called + 1 => job'[t] = job[t]
  BY CallFacts DEF Call
<1>2. \A t \in Tasks : t <= called' => t <= called \/ t = called + 1
  BY <1>1 DEF Tasks, IInv, Shape
<1>3. job' = [job EXCEPT ![called + 1] = j]
  BY DEF Call
<1> QED
  BY <1>1, <1>2, <1>3 DEF Typed, Tasks

\* Every step keeps the types.
LEMMA StepTyped == IInv /\ Listed /\ Typed /\ [Next]_vars => Typed'
<1> SUFFICES ASSUME IInv, Listed, Typed, [Next]_vars PROVE Typed'
  OBVIOUS
<1> USE DEF Typed
<1>1. CASE AsideSteps
  <2>1. Aside
    BY <1>1, AsideStepsInv
  <2>2. UNCHANGED <<careful, saved>>
    BY <1>1 DEF AsideSteps, PollRecentCharts, Expire, Begin, LoadFails, ListRecentCharts,
       Quietly, vars
  <2>3. current' \in {0, current} /\ fresh' \in BOOLEAN /\ shown' \in {shown, answer}
    BY <1>1 DEF AsideSteps, PollRecentCharts, Expire, Begin, LoadFails, ListRecentCharts,
       Quietly, vars
  <2>4. answer' = answer \/ (disk # Unreadable /\ answer' = disk.recents)
    BY <1>1 DEF AsideSteps, PollRecentCharts, Expire, Begin, LoadFails, ListRecentCharts,
       loadLocked, vars
  <2>5. answer' \in Lists
    BY <2>4 DEF AppDataType, Lists
  <2> QED
    BY <2>1, <2>2, <2>3, <2>5, AppStateAssumption DEF Aside
<1>2. CASE DispatchSteps
  <2>1. PICK j \in Jobs : Dispatch(j)
    <3>1. ASSUME NEW i \in DOMAIN shown, onRemoveRecentChart(i)
          PROVE  \E j \in Jobs : Dispatch(j)
      <4>1. shown \in Seq(Charts) /\ Len(shown) <= MaxRecentCharts /\ Len(shown) \in Nat
        BY ListsAreShort, LenProperties
      <4>2. i \in 1..Len(shown) /\ shown[i] \in Charts
        BY <4>1, LenProperties, ElementOfSeq
      <4>3. i \in 1..MaxRecentCharts
        BY <4>1, <4>2, AppDataAssumption
      <4>4. [do |-> "remove", chart |-> shown[i], index |-> i] \in Jobs
        BY <4>2, <4>3 DEF Jobs
      <4> QED
        BY <3>1, <4>4 DEF onRemoveRecentChart
    <3>2. CASE loadRecentCharts
      <4>1. [do |-> "list"] \in Jobs
        BY DEF Jobs
      <4> QED
        BY <3>2, <4>1 DEF loadRecentCharts
    <3>3. ASSUME NEW chart \in Charts, addRecentChart(chart)
          PROVE  \E j \in Jobs : Dispatch(j)
      <4>1. [do |-> "add", chart |-> chart] \in Jobs
        BY DEF Jobs
      <4> QED
        BY <3>3, <4>1 DEF addRecentChart
    <3> QED
      BY <1>2, <3>1, <3>2, <3>3 DEF DispatchSteps
  <2>2. Call(j) /\ current' = called + 1 /\ fresh' = FALSE
        /\ UNCHANGED <<careful, disk, loaded, answer, shown, saved>>
    BY <2>1 DEF Dispatch
  <2> QED
    BY <2>2, CallTyped
<1>3. CASE Restart
  <2> DEFINE j == [do |-> "list"]
  <2>1. Call(j) /\ current' = called + 1 /\ fresh' = FALSE /\ shown' = <<>>
        /\ UNCHANGED <<careful, disk, loaded, answer, saved>>
    BY <1>3 DEF Restart
  <2>2. j \in Jobs
    BY DEF Jobs
  <2>3. <<>> \in Lists
    BY NoChartIsShort
  <2> HIDE DEF j
  <2> QED
    BY <2>1, <2>2, <2>3, CallTyped
<1>4. ASSUME NEW key \in Keys, SaveChartUIState(key)
      PROVE  Typed'
  <2> DEFINE j == [do |-> "touch", key |-> key, at |-> clock + 1]
  <2>1. Call(j) /\ clock < MaxTouches
        /\ UNCHANGED <<careful, disk, loaded, current, answer, shown, fresh, saved>>
    BY <1>4 DEF SaveChartUIState
  <2>2. j \in Jobs
    <3>1. clock + 1 \in 1..MaxTouches
      BY <2>1, AppDataAssumption DEF IInv, Shape
    <3> QED
      BY <3>1 DEF Jobs
  <2> HIDE DEF j
  <2> QED
    BY <2>1, <2>2, CallTyped
<1>5. ASSUME NEW t \in Tasks, Load(t)
      PROVE  Typed'
  BY <1>5 DEF Load, loadLocked, Applicable, Quietly
<1>6. ASSUME NEW t \in Tasks, BeginWrite(t) \/ WriteFails(t)
      PROVE  Typed'
  BY <1>6 DEF BeginWrite, WriteFails, Quietly
<1>7. ASSUME NEW t \in Tasks, EndWrite(t)
      PROVE  Typed'
  <2> DEFINE j == job[t]
  <2>1. /\ disk' = Updated(j, loaded) /\ phase[t] = "writing"
        /\ saved' = saved \/ (j.do = "touch" /\ saved' = [saved EXCEPT ![j.key] = j.at])
        /\ UNCHANGED <<careful, loaded, called, job, current, answer, shown, fresh>>
    BY <1>7 DEF EndWrite, Quietly
  <2>2. mutex = t /\ t # 0 /\ Known(j) /\ j.do # "list"
        /\ (j.do = "remove" => j.index \in DOMAIN loaded.recents)
    BY <2>1 DEF IInv, Locked, Tasks, JobsKnown, Applicable
  <2>3. j \in Jobs
    <3>1. t <= called
      BY <2>1 DEF IInv, Shape, JobsKnown, Tasks
    <3> QED
      BY <3>1
  <2>4. Listing(loaded)
    BY <2>2 DEF Listed
  <2> HIDE DEF j
  <2>5. disk' \in AppDataType
    BY <2>1, <2>2, <2>3, <2>4, UpdatedType
  <2>6. saved' \in [Keys -> 0..MaxTouches]
    <3>1. j.do = "touch" => j.key \in Keys /\ j.at \in 0..MaxTouches
      BY <2>2, AppDataAssumption DEF Known
    <3> QED
      BY <2>1, <3>1
  <2> QED
    BY <2>1, <2>5, <2>6
<1> QED
  BY <1>1, <1>2, <1>3, <1>4, <1>5, <1>6, <1>7, StepKinds

\* Type correctness: whatever is written, read and shown, in any order, no list of
\* recent charts is longer than the limit and every job names a chart, an index or a
\* key that there is.
THEOREM TypeCorrect == Spec => []TypeOK
<1>1. IInv /\ Typed => TypeOK
  BY DEF IInv, Shape, Typed, TypeOK, Phases
<1> QED
  BY <1>1, InitTyped, StepTyped, InitClicked, StepClicked, StepExpected, AppStateInvariant, PTL
     DEF Spec
=============================================================================
