---------------------------- MODULE AsyncRunner ----------------------------
(***************************************************************************)
(* ui/async/runner.go: one Runner[T].  The UI thread dispatches an         *)
(* operation, each in a goroutine of its own, and polls the result channel *)
(* once a frame.  A dispatch cancels the operation before it; a generation *)
(* counter tells the newest operation from the ones it superseded.         *)
(*                                                                         *)
(* An operation is named by its generation.  The critical section of       *)
(* dispatch is two steps, because goroutines read the generation and send  *)
(* on the channel without taking the mutex.                                *)
(***************************************************************************)
EXTENDS Naturals, Sequences

CONSTANTS
  MaxOps,      \* bound on the number of dispatches
  BufferSize,  \* capacity of the result channel, max(bufferSize, 1)
  Timed        \* the operations run by RunWithTimeout; the others RunBlocking

ASSUME RunnerAssumption ==
  /\ MaxOps \in Nat
  /\ BufferSize \in Nat \ {0}
  /\ Timed \subseteq 1..MaxOps

Ops == 1..MaxOps

VARIABLES
  ui,         \* "idle", or "locked" while dispatch holds the mutex
  gen,        \* Runner.gen
  cancelOf,   \* the operation whose CancelFunc is in Runner.cancel, 0 for nil
  results,    \* Runner.results, a channel of generations
  phase,      \* where each operation's goroutine is
  ctx,        \* the state of each operation's context
  frame,      \* a window invalidation not yet answered by a frame
  delivered,  \* the results Poll has returned, oldest first
  stopped     \* the operations that were current when Stop was called

vars == <<ui, gen, cancelOf, results, phase, ctx, frame, delivered, stopped>>

\* "sent": the result is in the channel; "woke": and the window was invalidated;
\* "exited": the goroutine ended without sending.
Phases == {"none", "running", "returned", "sending", "sent", "woke", "exited"}

\* The channel never holds more than its capacity, and the generation names a
\* dispatched operation.
TypeOK ==
  /\ ui \in {"idle", "locked"}
  /\ gen \in 0..MaxOps
  /\ cancelOf \in 0..MaxOps
  /\ results \in Seq(Ops)
  /\ Len(results) <= BufferSize
  /\ phase \in [Ops -> Phases]
  /\ ctx \in [Ops -> {"live", "cancelled", "expired"}]
  /\ frame \in BOOLEAN
  /\ delivered \in Seq(Ops)
  /\ stopped \subseteq Ops

Init ==
  /\ ui = "idle"
  /\ gen = 0
  /\ cancelOf = 0
  /\ results = <<>>
  /\ phase = [op \in Ops |-> "none"]
  /\ ctx = [op \in Ops |-> "live"]
  /\ frame = FALSE
  /\ delivered = <<>>
  /\ stopped = {}

-----------------------------------------------------------------------------
(* The UI thread.                                                          *)

\* r.cancel() on the operation the runner holds; a context ends only once.
Cancelled(op) ==
  [o \in Ops |-> IF o = op /\ ctx[o] = "live" THEN "cancelled" ELSE ctx[o]]

Drained == IF results = <<>> THEN <<>> ELSE Tail(results)

\* dispatch up to the drain: the mutex is taken, the previous operation is
\* cancelled and one stale result, if there is one, leaves the channel.
BeginDispatch ==
  /\ ui = "idle"
  /\ gen < MaxOps
  /\ ui' = "locked"
  /\ ctx' = Cancelled(cancelOf)
  /\ results' = Drained
  /\ UNCHANGED <<gen, cancelOf, phase, frame, delivered, stopped>>

\* Mutant: dispatch without r.gen.Add(1).
EndDispatchSameGeneration ==
  /\ ui = "locked"
  /\ ui' = "idle"
  /\ gen' = IF gen = 0 THEN 1 ELSE gen
  /\ cancelOf' = gen'
  /\ phase' = [phase EXCEPT ![gen'] = "running"]
  /\ UNCHANGED <<results, ctx, frame, delivered, stopped>>

\* The rest of dispatch: the generation advances and the goroutine starts.
EndDispatch ==
  /\ ui = "locked"
  /\ ui' = "idle"
  /\ gen' = gen + 1
  /\ cancelOf' = gen + 1
  /\ phase' = [phase EXCEPT ![gen + 1] = "running"]
  /\ UNCHANGED <<results, ctx, frame, delivered, stopped>>

\* Mutant: Poll without the generation comparison.
PollAnyGeneration ==
  /\ ui = "idle"
  /\ frame' = FALSE
  /\ results' = Drained
  /\ delivered' = IF results # <<>> THEN Append(delivered, Head(results)) ELSE delivered
  /\ UNCHANGED <<ui, gen, cancelOf, phase, ctx, stopped>>

\* Mutant: Poll treats a result whose context has ended as stale.
PollLiveOnly ==
  /\ ui = "idle"
  /\ frame' = FALSE
  /\ results' = Drained
  /\ delivered' = IF results # <<>> /\ Head(results) = gen /\ ctx[gen] = "live"
                  THEN Append(delivered, Head(results)) ELSE delivered
  /\ UNCHANGED <<ui, gen, cancelOf, phase, ctx, stopped>>

\* One frame: a result of the current generation reaches the caller, one of an
\* older generation is dropped.
Poll ==
  /\ ui = "idle"
  /\ frame' = FALSE
  /\ results' = Drained
  /\ delivered' = IF results # <<>> /\ Head(results) = gen
                  THEN Append(delivered, Head(results)) ELSE delivered
  /\ UNCHANGED <<ui, gen, cancelOf, phase, ctx, stopped>>

\* Stop cancels; it neither advances the generation nor drains the channel.
Stop ==
  /\ ui = "idle"
  /\ cancelOf # 0
  /\ ctx' = Cancelled(cancelOf)
  /\ cancelOf' = 0
  /\ stopped' = stopped \union {cancelOf}
  /\ UNCHANGED <<ui, gen, results, phase, frame, delivered>>

-----------------------------------------------------------------------------
(* The goroutine of one operation.                                         *)

Goto(op, from, to) ==
  /\ phase[op] = from
  /\ phase' = [phase EXCEPT ![op] = to]

\* fn returns, or panics and safeCall turns the panic into an error.
Return(op) ==
  /\ Goto(op, "running", "returned")
  /\ UNCHANGED <<ui, gen, cancelOf, results, ctx, frame, delivered, stopped>>

\* The first read of the generation: a superseded goroutine leaves here.
CheckGeneration(op) ==
  /\ Goto(op, "returned", IF gen = op THEN "sending" ELSE "exited")
  /\ UNCHANGED <<ui, gen, cancelOf, results, ctx, frame, delivered, stopped>>

\* Mutant: a result channel that never makes the sender wait.
SendUnbounded(op) ==
  /\ Goto(op, "sending", "sent")
  /\ results' = Append(results, op)
  /\ UNCHANGED <<ui, gen, cancelOf, ctx, frame, delivered, stopped>>

\* select, first case: the channel has room.
Send(op) ==
  /\ Goto(op, "sending", "sent")
  /\ Len(results) < BufferSize
  /\ results' = Append(results, op)
  /\ UNCHANGED <<ui, gen, cancelOf, ctx, frame, delivered, stopped>>

\* Mutant: a send that gives up instead of waiting for room.
AbandonWhenFull(op) ==
  /\ Goto(op, "sending", "exited")
  /\ ctx[op] # "live" \/ Len(results) = BufferSize
  /\ UNCHANGED <<ui, gen, cancelOf, results, ctx, frame, delivered, stopped>>

\* select, second case: ctx.Done.  With both cases ready Go picks either.
Abandon(op) ==
  /\ Goto(op, "sending", "exited")
  /\ ctx[op] # "live"
  /\ UNCHANGED <<ui, gen, cancelOf, results, ctx, frame, delivered, stopped>>

\* Mutant: the goroutine ends without waking the window.
InvalidateMissing(op) ==
  /\ Goto(op, "sent", "woke")
  /\ UNCHANGED <<ui, gen, cancelOf, results, ctx, frame, delivered, stopped>>

\* window.Invalidate, and the goroutine ends.
Invalidate(op) ==
  /\ Goto(op, "sent", "woke")
  /\ frame' = TRUE
  /\ UNCHANGED <<ui, gen, cancelOf, results, ctx, delivered, stopped>>

\* The deadline of RunWithTimeout passes while the goroutine still needs it.
Expire(op) ==
  /\ op \in Timed
  /\ phase[op] \in {"running", "returned", "sending"}
  /\ ctx[op] = "live"
  /\ ctx' = [ctx EXCEPT ![op] = "expired"]
  /\ UNCHANGED <<ui, gen, cancelOf, results, phase, frame, delivered, stopped>>

Select(op) == Send(op) \/ Abandon(op)

Next ==
  \/ BeginDispatch
  \/ EndDispatch
  \/ Poll
  \/ Stop
  \/ \E op \in Ops :
       \/ Return(op)
       \/ CheckGeneration(op)
       \/ Send(op)
       \/ Abandon(op)
       \/ Invalidate(op)
       \/ Expire(op)

Spec == Init /\ [][Next]_vars

\* The Go scheduler runs every goroutine that can run, dispatch finishes what
\* it started, and an invalidated window gets its frame.  Nothing is assumed of
\* the user (BeginDispatch, Stop), of fn (Return) or of the clock (Expire).
Fairness ==
  /\ WF_vars(EndDispatch)
  /\ WF_vars(frame /\ Poll)
  /\ \A op \in Ops :
       /\ WF_vars(CheckGeneration(op))
       /\ WF_vars(Select(op))
       /\ WF_vars(Invalidate(op))

LiveSpec == Spec /\ Fairness

-----------------------------------------------------------------------------
(* Properties.                                                             *)

Holds(s, op) == \E i \in 1..Len(s) : s[i] = op

\* Results reach the UI in dispatch order and each at most once: a zombie
\* goroutine never overtakes the operation that superseded it, although the
\* generation check in the goroutine and its send are separate steps.
DeliveredInOrder ==
  \A i, j \in 1..Len(delivered) : i < j => delivered[i] < delivered[j]

\* The newest operation's result, once in the channel, stays there until Poll
\* returns it: neither the drain of a dispatch nor the results of zombies cost
\* it, whatever became of its context.
LatestResultKept ==
  (ui = "idle" /\ gen > 0 /\ phase[gen] \in {"sent", "woke"})
    => Holds(results, gen) \/ Holds(delivered, gen)

\* A result waiting in the channel always has a frame coming: the window is
\* invalidated, or the goroutine that sent is about to do so.  This needs the
\* capacity of one that every NewRunner call in the program asks for, because
\* a frame receives one result only.
NoLostWakeup ==
  (BufferSize = 1 /\ results # <<>>) => (frame \/ \E op \in Ops : phase[op] = "sent")

\* An operation whose fn has returned is delivered, unless it is superseded or
\* its context ends before the send: a goroutine waiting on a channel that a
\* zombie's result fills is never left there.
LatestIsDelivered ==
  \A op \in Ops :
    (phase[op] = "returned" /\ ctx[op] = "live")
      ~> (gen # op \/ ctx[op] # "live" \/ Holds(delivered, op))

\* values_controller.go, ResetState: the runners are stopped "to prevent stale
\* results from a previous chart being applied after state is cleared".
NothingDeliveredAfterStop ==
  [][delivered' # delivered => delivered'[Len(delivered')] \notin stopped]_vars

-----------------------------------------------------------------------------
(* The Runner keeps the promise of LatestOnly.                             *)
Promise == INSTANCE LatestOnly WITH
             latest <- gen,
             answered <- {delivered[i] : i \in 1..Len(delivered)}

\* Every step of a Runner is, to its caller, a new request, the one answer of
\* the newest request, or nothing.
Implements == Promise!Spec
=============================================================================
