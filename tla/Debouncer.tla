------------------------------ MODULE Debouncer ------------------------------
(***************************************************************************)
(* ui/async/debouncer.go: coalesces the states the UI schedules into few   *)
(* writes, each on the goroutine of a time.AfterFunc timer, and a          *)
(* synchronous Flush for the shutdown path.                                *)
(*                                                                         *)
(* A scheduled state is named by its position in the order of the calls to *)
(* Schedule.  Each critical section of the code is one action; the writes  *)
(* run outside the mutex, between two of them.  Schedule and Flush are     *)
(* both called by the UI thread (app.go, values_controller.go).  The names *)
(* that AsyncRunner has too begin with debouncer here.                     *)
(***************************************************************************)
EXTENDS Naturals, FiniteSets

CONSTANTS
  MaxValues,  \* bound on the calls to Schedule
  MaxFired    \* bound on the timer goroutines waiting for the mutex

ASSUME DebouncerAssumption == MaxValues \in Nat /\ MaxFired \in Nat \ {0}

VARIABLES
  thread,    \* the UI thread: "running", "flushing" (writing inside Flush),
             \* "flushed" (Flush was its last call) or "exited"
  last,      \* the newest state scheduled, 0 before the first
  pending,   \* Debouncer.pending, 0 for nil
  armed,     \* the timer is armed
  fired,     \* timer goroutines that have not entered flush yet
  inFlight,  \* Debouncer.inFlight
  writers,   \* the calls of write that have not returned: who and what
  stored,    \* the state the last completed write left behind, 0 for none
  skipped    \* Flush found a write in flight and left the rest to it

debouncerVars == <<thread, last, pending, armed, fired, inFlight, writers, stored, skipped>>

Values == 1..MaxValues

\* A write has a value: neither the timer nor Flush starts one for nothing.
DebouncerTypeOK ==
  /\ thread \in {"running", "flushing", "flushed", "exited"}
  /\ last \in 0..MaxValues
  /\ pending \in 0..MaxValues
  /\ armed \in BOOLEAN
  /\ fired \in Nat
  /\ inFlight \in BOOLEAN
  /\ writers \subseteq [by : {"timer", "flush"}, value : Values]
  /\ stored \in 0..MaxValues
  /\ skipped \in BOOLEAN

DebouncerInit ==
  /\ thread = "running"
  /\ last = 0
  /\ pending = 0
  /\ armed = FALSE
  /\ fired = 0
  /\ inFlight = FALSE
  /\ writers = {}
  /\ stored = 0
  /\ skipped = FALSE

-----------------------------------------------------------------------------
(* The UI thread.                                                          *)

\* Mutant: the timer is created once and never reset.
ScheduleNoReset ==
  /\ thread \in {"running", "flushed"}
  /\ last < MaxValues
  /\ thread' = "running"
  /\ last' = last + 1
  /\ pending' = last + 1
  /\ armed' = (armed \/ last = 0)
  /\ UNCHANGED <<fired, inFlight, writers, stored, skipped>>

\* A newer state replaces the one that waits, and the timer starts over.
Schedule ==
  /\ thread \in {"running", "flushed"}
  /\ last < MaxValues
  /\ thread' = "running"
  /\ last' = last + 1
  /\ pending' = last + 1
  /\ armed' = TRUE
  /\ UNCHANGED <<fired, inFlight, writers, stored, skipped>>

\* The pending state leaves for a write, and with it the right to write.
StartWrite(who) ==
  /\ pending # 0
  /\ inFlight' = TRUE
  /\ writers' = writers \union {[by |-> who, value |-> pending]}
  /\ pending' = 0

\* Mutant: Flush that does not look at inFlight.
FlushUnguarded ==
  /\ thread \in {"running", "flushed"}
  /\ armed' = FALSE
  /\ skipped' = inFlight
  /\ \/ thread' = "flushing" /\ StartWrite("flush")
     \/ pending = 0 /\ thread' = "flushed" /\ UNCHANGED <<pending, inFlight, writers>>
  /\ UNCHANGED <<last, fired, stored>>

\* Mutant: Flush that stops the timer and leaves the pending state to it.
FlushStopsOnly ==
  /\ thread \in {"running", "flushed"}
  /\ armed' = FALSE
  /\ skipped' = inFlight
  /\ thread' = "flushed"
  /\ UNCHANGED <<pending, inFlight, writers, last, fired, stored>>

\* Flush up to its write: the timer stops; with a write in flight Flush
\* returns at once, whatever is pending.
Flush ==
  /\ thread \in {"running", "flushed"}
  /\ armed' = FALSE
  /\ skipped' = inFlight
  /\ \/ ~inFlight /\ thread' = "flushing" /\ StartWrite("flush")
     \/ (inFlight \/ pending = 0) /\ thread' = "flushed" /\ UNCHANGED <<pending, inFlight, writers>>
  /\ UNCHANGED <<last, fired, stored>>

\* Flush from the return of its write.  It does not look at pending again.
FlushDone(w) ==
  /\ thread = "flushing"
  /\ w.by = "flush"
  /\ writers' = writers \ {w}
  /\ stored' = w.value
  /\ inFlight' = FALSE
  /\ thread' = "flushed"
  /\ UNCHANGED <<last, pending, armed, fired, skipped>>

\* os.Exit once Flush returned: goroutines end where they are, and a write that
\* has not returned is taken not to have happened.
Exit ==
  /\ thread = "flushed"
  /\ thread' = "exited"
  /\ UNCHANGED <<last, pending, armed, fired, inFlight, writers, stored, skipped>>

-----------------------------------------------------------------------------
(* The timer and its goroutines.                                           *)

Running == thread # "exited"

Fire ==
  /\ Running
  /\ armed
  /\ fired < MaxFired
  /\ armed' = FALSE
  /\ fired' = fired + 1
  /\ UNCHANGED <<thread, last, pending, inFlight, writers, stored, skipped>>

\* Mutant: flush that starts a write whatever is in flight.
FlushTimerUnguarded ==
  /\ Running
  /\ fired > 0
  /\ fired' = fired - 1
  /\ \/ StartWrite("timer")
     \/ pending = 0 /\ UNCHANGED <<pending, inFlight, writers>>
  /\ UNCHANGED <<thread, last, armed, stored, skipped>>

\* flush up to its write: dropped while another write runs or nothing is pending.
FlushTimer ==
  /\ Running
  /\ fired > 0
  /\ fired' = fired - 1
  /\ \/ ~inFlight /\ StartWrite("timer")
     \/ (inFlight \/ pending = 0) /\ UNCHANGED <<pending, inFlight, writers>>
  /\ UNCHANGED <<thread, last, armed, stored, skipped>>

\* Mutant: flush that does not arm the timer again.
FlushTimerDoneNoRearm(w) ==
  /\ Running
  /\ w.by = "timer"
  /\ writers' = writers \ {w}
  /\ stored' = w.value
  /\ inFlight' = FALSE
  /\ UNCHANGED <<thread, last, pending, armed, fired, skipped>>

\* flush from the return of its write: work that arrived meanwhile arms the
\* timer again.
FlushTimerDone(w) ==
  /\ Running
  /\ w.by = "timer"
  /\ writers' = writers \ {w}
  /\ stored' = w.value
  /\ inFlight' = FALSE
  /\ armed' = (armed \/ pending # 0)
  /\ UNCHANGED <<thread, last, pending, fired, skipped>>

DebouncerNext ==
  \/ Schedule
  \/ Flush
  \/ Exit
  \/ Fire
  \/ FlushTimer
  \/ \E w \in writers : FlushDone(w) \/ FlushTimerDone(w)

DebouncerSpec == DebouncerInit /\ [][DebouncerNext]_debouncerVars

\* An armed timer goes off, its goroutine gets the mutex, and a write returns.
\* Nothing obliges the user to schedule, or the process to exit.
DebouncerLiveSpec ==
  /\ DebouncerSpec
  /\ WF_debouncerVars(Fire)
  /\ WF_debouncerVars(FlushTimer)
  /\ WF_debouncerVars(\E w \in writers : FlushDone(w) \/ FlushTimerDone(w))

-----------------------------------------------------------------------------
(* Properties.                                                             *)

\* "At most one write is in flight", of the timer goroutines and Flush
\* together, and inFlight says so.
OneWriter ==
  /\ inFlight <=> writers # {}
  /\ \A w1, w2 \in writers : w1 = w2

\* A write never replaces a state by an older one, so the last write to return
\* leaves the newest of all states written.
StoredAdvances == [][stored' >= stored]_debouncerVars

\* As long as the process lives, what waits is never forgotten: the timer is
\* armed or has fired, or the running write will look again.
PendingIsWatched ==
  pending # 0 =>
    \/ armed
    \/ fired > 0
    \/ \E w \in writers : w.by = "timer"

\* Every state scheduled is written, or a newer one is, unless the process ends.
ScheduledIsStored ==
  \A v \in Values : last = v ~> (stored >= v \/ thread = "exited")

\* An exit after Flush loses nothing if Flush found no write in flight.
FlushedThenSaved == (thread = "exited" /\ ~skipped) => stored = last

\* debouncer.go, of Flush: "Call from a shutdown path so the last scheduled
\* value isn't lost when the process exits within the debounce window."  A write
\* still running at the exit is given the benefit of the doubt.
NothingLostAtExit ==
  thread = "exited" => (stored = last \/ \E w \in writers : w.value = last)
=============================================================================
