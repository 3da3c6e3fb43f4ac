----------------------------- MODULE Async_proofs -----------------------------
(***************************************************************************)
(* What holds of the two parts of ui/async.  Of a Runner for any number of *)
(* operations, any mixture of timed and blocking ones, and (where it is    *)
(* not said otherwise) any capacity of its channel; of a Debouncer for any *)
(* number of scheduled states.  Where both have one, the Debouncer's name  *)
(* begins with debouncer.                                                  *)
(***************************************************************************)
EXTENDS AsyncRunner, Debouncer, TLAPS

\* The goroutines started are exactly those of the generations so far, and the
\* runner holds at most the CancelFunc of the newest.
Started ==
  /\ \A op \in Ops : phase[op] = "none" <=> op > gen
  /\ cancelOf \in {0, gen}
  /\ ui = "locked" => gen < MaxOps

\* Only what was sent is in the channel or was delivered, once in all.
SentOnce ==
  /\ \A i \in 1..Len(results) : phase[results[i]] \in {"sent", "woke"}
  /\ \A i, j \in 1..Len(results) : i # j => results[i] # results[j]
  /\ \A i \in 1..Len(delivered) : phase[delivered[i]] \in {"sent", "woke"}
  /\ \A i \in 1..Len(results), j \in 1..Len(delivered) : results[i] # delivered[j]

IInv ==
  /\ TypeOK
  /\ Started
  /\ SentOnce
  /\ DeliveredInOrder
  /\ LatestResultKept
  /\ NoLostWakeup

-----------------------------------------------------------------------------
(* The two things dispatch and Poll do to the channel.                     *)

LEMMA DrainFacts ==
  ASSUME results \in Seq(Ops)
  PROVE  /\ Drained \in Seq(Ops)
         /\ Len(Drained) <= Len(results)
         /\ \A i \in 1..Len(Drained) : i + 1 \in 1..Len(results) /\ Drained[i] = results[i+1]
         /\ results # <<>> => Len(Drained) = Len(results) - 1
BY DEF Drained

LEMMA AppendFacts ==
  ASSUME NEW s \in Seq(Ops), NEW op \in Ops
  PROVE  /\ Append(s, op) \in Seq(Ops)
         /\ Len(Append(s, op)) = Len(s) + 1
         /\ \A i \in 1..Len(s) : Append(s, op)[i] = s[i]
         /\ Append(s, op)[Len(s) + 1] = op
OBVIOUS

LEMMA CancelledFacts ==
  ASSUME NEW op, TypeOK
  PROVE  Cancelled(op) \in [Ops -> {"live", "cancelled", "expired"}]
BY DEF Cancelled, TypeOK

LEMMA InitInv == Init => IInv
<1> SUFFICES ASSUME Init PROVE IInv
  OBVIOUS
<1> USE RunnerAssumption DEF Init
<1>1. TypeOK
  <2>1. results \in Seq(Ops) /\ delivered \in Seq(Ops) /\ Len(results) = 0
    OBVIOUS
  <2>2. phase \in [Ops -> Phases] /\ ctx \in [Ops -> {"live", "cancelled", "expired"}]
    BY DEF Phases
  <2>3. ui \in {"idle", "locked"} /\ gen \in 0..MaxOps /\ cancelOf \in 0..MaxOps
        /\ Len(results) <= BufferSize /\ stopped \subseteq Ops
    BY <2>1
  <2>4. frame \in BOOLEAN
    BY Zenon
  <2> QED
    BY <2>1, <2>2, <2>3, <2>4, Zenon DEF TypeOK
<1>2. Started
  BY DEF Started, Ops
<1>3. SentOnce
  BY DEF SentOnce
<1>4. DeliveredInOrder /\ LatestResultKept /\ NoLostWakeup
  BY DEF DeliveredInOrder, LatestResultKept, NoLostWakeup
<1> QED
  BY <1>1, <1>2, <1>3, <1>4 DEF IInv

-----------------------------------------------------------------------------
(* Each part of the invariant is kept by every step.                       *)

LEMMA TypeStep == TypeOK /\ Started /\ [Next]_vars => TypeOK'
<1> SUFFICES ASSUME TypeOK, Started, [Next]_vars PROVE TypeOK'
  OBVIOUS
<1> USE RunnerAssumption
<1>1. CASE BeginDispatch
  BY <1>1, DrainFacts, CancelledFacts DEF BeginDispatch, TypeOK
<1>2. CASE EndDispatch
  BY <1>2 DEF EndDispatch, TypeOK, Started, Phases, Ops
<1>3. CASE Poll
  <2>1. results # <<>> => Head(results) \in Ops
    BY DEF TypeOK
  <2>2. delivered' \in Seq(Ops)
    BY <1>3, <2>1, AppendFacts DEF Poll, TypeOK
  <2>3. results' \in Seq(Ops) /\ Len(results') <= BufferSize
    BY <1>3, DrainFacts DEF Poll, TypeOK
  <2> QED
    BY <1>3, <2>1, <2>2, <2>3 DEF Poll, TypeOK
<1>4. CASE Stop
  <2>1. cancelOf \in Ops
    BY <1>4 DEF Stop, TypeOK, Ops
  <2> QED
    BY <1>4, <2>1, CancelledFacts DEF Stop, TypeOK
<1>5. ASSUME NEW op \in Ops, Return(op) PROVE TypeOK'
  BY <1>5 DEF Return, Goto, TypeOK, Phases
<1>6. ASSUME NEW op \in Ops, CheckGeneration(op) PROVE TypeOK'
  BY <1>6 DEF CheckGeneration, Goto, TypeOK, Phases
<1>7. ASSUME NEW op \in Ops, Send(op) PROVE TypeOK'
  BY <1>7, AppendFacts DEF Send, Goto, TypeOK, Phases
<1>8. ASSUME NEW op \in Ops, Abandon(op) PROVE TypeOK'
  BY <1>8 DEF Abandon, Goto, TypeOK, Phases
<1>9. ASSUME NEW op \in Ops, Invalidate(op) PROVE TypeOK'
  BY <1>9 DEF Invalidate, Goto, TypeOK, Phases
<1>10. ASSUME NEW op \in Ops, Expire(op) PROVE TypeOK'
  BY <1>10 DEF Expire, TypeOK
<1>11. CASE UNCHANGED vars
  BY <1>11 DEF vars, TypeOK
<1> QED
  BY <1>1, <1>2, <1>3, <1>4, <1>5, <1>6, <1>7, <1>8, <1>9, <1>10, <1>11 DEF Next

LEMMA StartedStep == TypeOK /\ Started /\ [Next]_vars => Started'
<1> SUFFICES ASSUME TypeOK, Started, [Next]_vars PROVE Started'
  OBVIOUS
<1> USE RunnerAssumption DEF TypeOK, Started
<1>1. CASE BeginDispatch
  BY <1>1 DEF BeginDispatch
<1>2. CASE EndDispatch
  BY <1>2 DEF EndDispatch, Ops
<1>3. CASE Poll
  BY <1>3 DEF Poll
<1>4. CASE Stop
  BY <1>4 DEF Stop
<1>5. ASSUME NEW op \in Ops, Return(op) \/ CheckGeneration(op) \/ Send(op) \/ Abandon(op)
                              \/ Invalidate(op) PROVE Started'
  BY <1>5 DEF Return, CheckGeneration, Send, Abandon, Invalidate, Goto, Ops
<1>6. ASSUME NEW op \in Ops, Expire(op) PROVE Started'
  BY <1>6 DEF Expire
<1>7. CASE UNCHANGED vars
  BY <1>7 DEF vars
<1> QED
  BY <1>1, <1>2, <1>3, <1>4, <1>5, <1>6, <1>7 DEF Next

LEMMA SentOnceStep == TypeOK /\ Started /\ SentOnce /\ [Next]_vars => SentOnce'
<1> SUFFICES ASSUME TypeOK, Started, SentOnce, [Next]_vars PROVE SentOnce'
  OBVIOUS
<1> USE RunnerAssumption DEF TypeOK, SentOnce
<1>1. CASE BeginDispatch
  <2>1. results' = Drained /\ UNCHANGED <<phase, delivered>>
    BY <1>1 DEF BeginDispatch
  <2>2. \A i \in 1..Len(results') : results'[i] = results[i+1] /\ i + 1 \in 1..Len(results)
    BY <2>1, DrainFacts
  <2> QED
    BY <2>1, <2>2
<1>2. CASE EndDispatch
  <2>1. phase[gen + 1] = "none"
    BY <1>2 DEF EndDispatch, Started, Ops
  <2>2. \A i \in 1..Len(results) : results[i] \in Ops /\ results[i] # gen + 1
    BY <2>1
  <2>3. \A i \in 1..Len(delivered) : delivered[i] \in Ops /\ delivered[i] # gen + 1
    BY <2>1
  <2>4. \A o \in Ops : o # gen + 1 => phase'[o] = phase[o]
    BY <1>2 DEF EndDispatch
  <2>5. UNCHANGED <<results, delivered>>
    BY <1>2 DEF EndDispatch
  <2>6. \A i \in 1..Len(results') : phase'[results'[i]] \in {"sent", "woke"}
    BY <2>2, <2>4, <2>5
  <2>7. \A i \in 1..Len(delivered') : phase'[delivered'[i]] \in {"sent", "woke"}
    BY <2>3, <2>4, <2>5
  <2>8. \A i, j \in 1..Len(results') : i # j => results'[i] # results'[j]
    BY <2>5
  <2>9. \A i \in 1..Len(results'), j \in 1..Len(delivered') : results'[i] # delivered'[j]
    BY <2>5
  <2> QED
    BY <2>6, <2>7, <2>8, <2>9
<1>3. CASE Poll
  <2>1. CASE results # <<>> /\ Head(results) = gen
    <3>1. gen \in Ops /\ gen = results[1] /\ 1 \in 1..Len(results)
      BY <2>1
    <3>2. delivered' = Append(delivered, gen)
      BY <1>3, <2>1 DEF Poll
    <3>3. results' = Drained /\ UNCHANGED phase
      BY <1>3 DEF Poll
    <3>4. Len(delivered') = Len(delivered) + 1 /\ delivered'[Len(delivered) + 1] = gen
          /\ \A i \in 1..Len(delivered) : delivered'[i] = delivered[i]
      BY <3>1, <3>2, AppendFacts
    <3>5. \A i \in 1..Len(delivered') : i \in 1..Len(delivered) \/ i = Len(delivered) + 1
      BY <3>4
    <3>6. \A i \in 1..Len(results') : results'[i] = results[i+1] /\ i + 1 \in 1..Len(results)
                                      /\ results'[i] # gen
      BY <3>1, <3>3, DrainFacts
    <3>7. \A i \in 1..Len(results') : phase'[results'[i]] \in {"sent", "woke"}
      BY <3>3, <3>6
    <3>8. \A i, j \in 1..Len(results') : i # j => results'[i] # results'[j]
      BY <3>6
    <3>9. \A i \in 1..Len(delivered') : phase'[delivered'[i]] \in {"sent", "woke"}
      BY <3>1, <3>3, <3>4, <3>5
    <3>10. \A i \in 1..Len(results'), j \in 1..Len(delivered') : results'[i] # delivered'[j]
      BY <3>4, <3>5, <3>6
    <3> QED
      BY <3>7, <3>8, <3>9, <3>10
  <2>2. CASE ~(results # <<>> /\ Head(results) = gen)
    <3>1. results' = Drained /\ UNCHANGED <<phase, delivered>>
      BY <1>3, <2>2 DEF Poll
    <3>2. \A i \in 1..Len(results') : results'[i] = results[i+1] /\ i + 1 \in 1..Len(results)
      BY <3>1, DrainFacts
    <3> QED
      BY <3>1, <3>2
  <2> QED
    BY <2>1, <2>2
<1>4. CASE Stop
  BY <1>4 DEF Stop
<1>5. ASSUME NEW op \in Ops, Return(op) \/ CheckGeneration(op) \/ Abandon(op) \/ Invalidate(op)
      PROVE  SentOnce'
  <2>1. phase[op] = "sent" \/ phase[op] \notin {"sent", "woke"}
    BY <1>5 DEF Return, CheckGeneration, Abandon, Invalidate, Goto
  <2>2. \A o \in Ops : phase[o] \in {"sent", "woke"} => phase'[o] \in {"sent", "woke"}
    BY <1>5 DEF Return, CheckGeneration, Abandon, Invalidate, Goto
  <2>3. UNCHANGED <<results, delivered>>
    BY <1>5 DEF Return, CheckGeneration, Abandon, Invalidate
  <2> QED
    BY <2>2, <2>3
<1>6. ASSUME NEW op \in Ops, Send(op) PROVE SentOnce'
  <2>1. \A i \in 1..Len(results) : results[i] # op
    BY <1>6 DEF Send, Goto
  <2>2. \A i \in 1..Len(delivered) : delivered[i] # op
    BY <1>6 DEF Send, Goto
  <2>3. results' = Append(results, op) /\ UNCHANGED delivered
    BY <1>6 DEF Send
  <2>4. phase'[op] = "sent" /\ \A o \in Ops : o # op => phase'[o] = phase[o]
    BY <1>6 DEF Send, Goto
  <2>5. \A i \in 1..Len(results') : \/ i \in 1..Len(results) /\ results'[i] = results[i]
                                    \/ i = Len(results) + 1 /\ results'[i] = op
    BY <2>3, AppendFacts
  <2>6. \A i \in 1..Len(results') : phase'[results'[i]] \in {"sent", "woke"}
    BY <2>4, <2>5
  <2>7. \A i, j \in 1..Len(results') : i # j => results'[i] # results'[j]
    BY <2>1, <2>5
  <2>8. \A i \in 1..Len(delivered') : phase'[delivered'[i]] \in {"sent", "woke"}
    BY <2>2, <2>3, <2>4
  <2>9. \A i \in 1..Len(results'), j \in 1..Len(delivered') : results'[i] # delivered'[j]
    BY <2>2, <2>3, <2>5
  <2> QED
    BY <2>6, <2>7, <2>8, <2>9
<1>7. ASSUME NEW op \in Ops, Expire(op) PROVE SentOnce'
  BY <1>7 DEF Expire
<1>8. CASE UNCHANGED vars
  BY <1>8 DEF vars
<1> QED
  BY <1>1, <1>2, <1>3, <1>4, <1>5, <1>6, <1>7, <1>8 DEF Next

LEMMA OrderStep ==
  TypeOK /\ Started /\ SentOnce /\ DeliveredInOrder /\ [Next]_vars => DeliveredInOrder'
<1> SUFFICES ASSUME TypeOK, Started, SentOnce, DeliveredInOrder, [Next]_vars
             PROVE  DeliveredInOrder'
  OBVIOUS
<1> USE RunnerAssumption
<1>1. CASE Poll /\ results # <<>> /\ Head(results) = gen
  <2>1. gen \in Ops /\ gen = results[1] /\ 1 \in 1..Len(results)
    BY <1>1 DEF TypeOK
  <2>2. \A i \in 1..Len(delivered) : delivered[i] \in Ops /\ delivered[i] # gen
    BY <2>1 DEF SentOnce, TypeOK
  <2>3. \A i \in 1..Len(delivered) : delivered[i] < gen
    BY <2>2 DEF SentOnce, Started, TypeOK, Ops
  <2>4. delivered' = Append(delivered, gen)
    BY <1>1 DEF Poll
  <2>5. \A i \in 1..Len(delivered') :
          \/ i \in 1..Len(delivered) /\ delivered'[i] = delivered[i]
          \/ i = Len(delivered) + 1 /\ delivered'[i] = gen
    BY <2>1, <2>4, AppendFacts DEF TypeOK
  <2> QED
    BY <2>3, <2>5 DEF DeliveredInOrder
<1>2. CASE Poll /\ ~(results # <<>> /\ Head(results) = gen)
  BY <1>2 DEF Poll, DeliveredInOrder
<1>3. CASE BeginDispatch \/ EndDispatch \/ Stop
  BY <1>3 DEF BeginDispatch, EndDispatch, Stop, DeliveredInOrder
<1>4. ASSUME NEW op \in Ops, Return(op) \/ CheckGeneration(op) \/ Send(op) \/ Abandon(op)
                              \/ Invalidate(op) \/ Expire(op)
      PROVE  DeliveredInOrder'
  BY <1>4 DEF Return, CheckGeneration, Send, Abandon, Invalidate, Expire, DeliveredInOrder
<1>5. CASE UNCHANGED vars
  BY <1>5 DEF vars, DeliveredInOrder
<1> QED
  BY <1>1, <1>2, <1>3, <1>4, <1>5 DEF Next

LEMMA KeptStep ==
  TypeOK /\ Started /\ LatestResultKept /\ [Next]_vars => LatestResultKept'
<1> SUFFICES ASSUME TypeOK, Started, LatestResultKept, [Next]_vars PROVE LatestResultKept'
  OBVIOUS
<1> USE RunnerAssumption
<1>1. CASE BeginDispatch
  BY <1>1 DEF BeginDispatch, LatestResultKept
<1>2. CASE EndDispatch
  BY <1>2 DEF EndDispatch, LatestResultKept, TypeOK, Started, Ops
<1>3. CASE Poll
  <2>1. CASE results # <<>> /\ Head(results) = gen
    <3>1. gen \in Ops /\ delivered' = Append(delivered, gen)
      BY <1>3, <2>1 DEF Poll, TypeOK
    <3>2. delivered'[Len(delivered) + 1] = gen /\ Len(delivered') = Len(delivered) + 1
      BY <3>1, AppendFacts DEF TypeOK
    <3>3. Holds(delivered', gen)
      BY <3>2 DEF Holds, TypeOK
    <3> QED
      BY <1>3, <3>3 DEF Poll, LatestResultKept
  <2>2. CASE ~(results # <<>> /\ Head(results) = gen)
    <3>1. delivered' = delivered /\ UNCHANGED <<ui, gen, phase>> /\ results' = Drained
      BY <1>3, <2>2 DEF Poll
    <3>2. Holds(results, gen) => Holds(results', gen)
      <4> SUFFICES ASSUME NEW i \in 1..Len(results), results[i] = gen
                   PROVE  Holds(results', gen)
        BY DEF Holds
      <4>1. results # <<>>
        BY DEF TypeOK
      <4>2. i # 1
        BY <2>2, <4>1
      <4>3. i - 1 \in 1..Len(Drained) /\ Drained[i - 1] = results[i]
        BY <4>1, <4>2, DrainFacts DEF TypeOK
      <4> QED
        BY <3>1, <4>3 DEF Holds
    <3> QED
      BY <3>1, <3>2 DEF LatestResultKept
  <2> QED
    BY <2>1, <2>2
<1>4. CASE Stop
  BY <1>4 DEF Stop, LatestResultKept
<1>5. ASSUME NEW op \in Ops, Return(op) \/ CheckGeneration(op) \/ Abandon(op) \/ Invalidate(op)
                              \/ Expire(op)
      PROVE  LatestResultKept'
  BY <1>5 DEF Return, CheckGeneration, Abandon, Invalidate, Expire, Goto, LatestResultKept,
              TypeOK, Ops
<1>6. ASSUME NEW op \in Ops, Send(op) PROVE LatestResultKept'
  <2>1. results' = Append(results, op) /\ UNCHANGED <<ui, gen, delivered>>
        /\ phase' = [phase EXCEPT ![op] = "sent"]
    BY <1>6 DEF Send, Goto
  <2>2. \A i \in 1..Len(results) : i \in 1..Len(results') /\ results'[i] = results[i]
    BY <2>1, AppendFacts DEF TypeOK
  <2>3. Len(results) + 1 \in 1..Len(results') /\ results'[Len(results) + 1] = op
    BY <2>1, AppendFacts DEF TypeOK
  <2>4. Holds(results', op) /\ (Holds(results, gen) => Holds(results', gen))
    BY <2>2, <2>3 DEF Holds
  <2> QED
    BY <2>1, <2>4 DEF LatestResultKept, TypeOK, Ops
<1>7. CASE UNCHANGED vars
  BY <1>7 DEF vars, LatestResultKept
<1> QED
  BY <1>1, <1>2, <1>3, <1>4, <1>5, <1>6, <1>7 DEF Next

LEMMA WakeupStep == TypeOK /\ Started /\ SentOnce /\ NoLostWakeup /\ [Next]_vars => NoLostWakeup'
<1> SUFFICES ASSUME TypeOK, Started, NoLostWakeup, [Next]_vars,
                    BufferSize = 1, results' # <<>>
             PROVE  frame' = TRUE \/ \E op \in Ops : phase'[op] = "sent"
  BY DEF NoLostWakeup
<1> USE RunnerAssumption
<1>1. CASE BeginDispatch \/ Poll
  <2>1. results' = Drained
    BY <1>1 DEF BeginDispatch, Poll
  <2>2. Len(results) <= 1 /\ results \in Seq(Ops)
    BY DEF TypeOK
  <2> QED
    BY <2>1, <2>2 DEF Drained
<1>2. CASE EndDispatch
  <2>1. phase[gen + 1] = "none"
    BY <1>2 DEF EndDispatch, Started, TypeOK, Ops
  <2> QED
    BY <1>2, <2>1 DEF EndDispatch, NoLostWakeup, TypeOK
<1>3. CASE Stop
  BY <1>3 DEF Stop, NoLostWakeup
<1>4. ASSUME NEW op \in Ops, Return(op) \/ CheckGeneration(op) \/ Abandon(op) \/ Expire(op)
      PROVE  frame' = TRUE \/ \E o \in Ops : phase'[o] = "sent"
  BY <1>4 DEF Return, CheckGeneration, Abandon, Expire, Goto, NoLostWakeup, TypeOK
<1>5. ASSUME NEW op \in Ops, Send(op) PROVE \E o \in Ops : phase'[o] = "sent"
  BY <1>5 DEF Send, Goto, TypeOK
<1>6. ASSUME NEW op \in Ops, Invalidate(op) PROVE frame' = TRUE
  BY <1>6 DEF Invalidate
<1>7. CASE UNCHANGED vars
  BY <1>7 DEF vars, NoLostWakeup
<1> QED
  BY <1>1, <1>2, <1>3, <1>4, <1>5, <1>6, <1>7 DEF Next

-----------------------------------------------------------------------------
(* The theorems.                                                           *)

\* The inductive invariant holds of every reachable state of a Runner.
THEOREM RunnerInvariant == Spec => []IInv
<1>1. Init => IInv
  BY InitInv
<1>2. IInv /\ [Next]_vars => IInv'
  BY TypeStep, StartedStep, SentOnceStep, OrderStep, KeptStep, WakeupStep DEF IInv
<1> QED
  BY <1>1, <1>2, PTL DEF Spec

\* The channel never holds more than its capacity, and every variable has its type.
THEOREM TypeCorrect == Spec => []TypeOK
BY RunnerInvariant, PTL DEF IInv

\* Results arrive in dispatch order and at most once each, however goroutines
\* interleave with dispatch, Stop and Poll.
THEOREM InOrder == Spec => []DeliveredInOrder
BY RunnerInvariant, PTL DEF IInv

\* The newest result, once sent, waits for Poll.
THEOREM LatestKept == Spec => []LatestResultKept
BY RunnerInvariant, PTL DEF IInv

\* With the capacity of one the program uses, no result waits without a frame
\* on its way.
THEOREM WakeupNotLost == Spec => []NoLostWakeup
BY RunnerInvariant, PTL DEF IInv

\* A Runner implements LatestOnly, for every number of operations and every
\* capacity.
THEOREM Refinement == Spec => Implements
<1> DEFINE Answered == {delivered[i] : i \in 1..Len(delivered)}
<1>1. Init => Promise!Init
  BY DEF Init, Promise!Init
<1>2. IInv /\ [Next]_vars => [Promise!Next]_<<gen, Answered>>
  <2> SUFFICES ASSUME IInv, [Next]_vars PROVE Promise!Next \/ UNCHANGED <<gen, Answered>>
    OBVIOUS
  <2> USE RunnerAssumption DEF IInv
  <2>1. CASE Poll /\ results # <<>> /\ Head(results) = gen
    <3>1. gen \in Ops /\ gen = results[1] /\ 1 \in 1..Len(results)
      BY <2>1 DEF TypeOK
    <3>2. gen \notin Answered
      BY <3>1 DEF SentOnce
    <3>3. delivered' = Append(delivered, gen) /\ gen' = gen
      BY <2>1 DEF Poll
    <3>4. Answered' = Answered \union {gen}
      <4>1. Len(delivered') = Len(delivered) + 1 /\ delivered'[Len(delivered) + 1] = gen
            /\ \A i \in 1..Len(delivered) : delivered'[i] = delivered[i]
        BY <3>1, <3>3, AppendFacts DEF TypeOK
      <4>2. 1..Len(delivered') = 1..Len(delivered) \union {Len(delivered) + 1}
        BY <4>1 DEF TypeOK
      <4> QED
        BY <4>1, <4>2
    <3> QED
      BY <3>1, <3>2, <3>3, <3>4 DEF Promise!Next, Promise!Answer, Ops
  <2>2. CASE Poll /\ ~(results # <<>> /\ Head(results) = gen)
    BY <2>2 DEF Poll
  <2>3. CASE EndDispatch
    BY <2>3 DEF EndDispatch, Started, Promise!Next, Promise!Request
  <2>4. CASE BeginDispatch \/ Stop
    BY <2>4 DEF BeginDispatch, Stop
  <2>5. ASSUME NEW op \in Ops, Return(op) \/ CheckGeneration(op) \/ Send(op) \/ Abandon(op)
                                \/ Invalidate(op) \/ Expire(op)
        PROVE  UNCHANGED <<gen, Answered>>
    BY <2>5 DEF Return, CheckGeneration, Send, Abandon, Invalidate, Expire
  <2>6. CASE UNCHANGED vars
    BY <2>6 DEF vars
  <2> QED
    BY <2>1, <2>2, <2>3, <2>4, <2>5, <2>6 DEF Next
<1> QED
  BY <1>1, <1>2, RunnerInvariant, PTL DEF Spec, Implements, Promise!Spec

-----------------------------------------------------------------------------
(* The Debouncer. *)

\* The newest state is somewhere: waiting, being written, or stored.
NothingVanishes ==
  \/ stored = last
  \/ pending = last
  \/ \E w \in writers : w.value = last

\* What waits is newer than what is written, and that is newer than what is stored.
NewerWaits ==
  /\ stored <= last
  /\ pending # 0 => pending = last /\ stored < pending
  /\ \A w \in writers : stored < w.value /\ w.value <= last
  /\ \A w \in writers : pending # 0 => w.value < pending

\* While Flush writes nothing else does and nothing waits; once it has returned
\* without skipping, nothing waits and nothing is being written.
FlushOwns ==
  /\ thread = "flushing" => ~skipped /\ pending = 0
  /\ \A w \in writers : w.by = "flush" => thread = "flushing"
  /\ (thread \in {"flushed", "exited"} /\ ~skipped) => pending = 0 /\ writers = {}

DebouncerInv ==
  /\ DebouncerTypeOK
  /\ OneWriter
  /\ NothingVanishes
  /\ NewerWaits
  /\ FlushOwns
  /\ PendingIsWatched

LEMMA DebouncerInitial ==
  DebouncerInit => DebouncerInv
<1> SUFFICES ASSUME DebouncerInit PROVE DebouncerInv
  OBVIOUS
<1> USE DebouncerAssumption DEF DebouncerInit
<1>1. armed \in BOOLEAN /\ inFlight \in BOOLEAN /\ skipped \in BOOLEAN
  BY Zenon
<1>2. /\ thread \in {"running", "flushing", "flushed", "exited"}
      /\ last \in 0..MaxValues /\ pending \in 0..MaxValues /\ stored \in 0..MaxValues
      /\ fired \in Nat
      /\ writers \subseteq [by : {"timer", "flush"}, value : Values]
  OBVIOUS
<1>3. DebouncerTypeOK
  BY <1>1, <1>2, Zenon DEF DebouncerTypeOK
<1>4. OneWriter /\ NothingVanishes /\ FlushOwns /\ PendingIsWatched
  BY DEF OneWriter, NothingVanishes, FlushOwns, PendingIsWatched
<1>5. NewerWaits
  BY DEF NewerWaits
<1> QED
  BY <1>3, <1>4, <1>5 DEF DebouncerInv

\* What StartWrite does to the invariant's parts, whoever calls it.
LEMMA StartWriteFacts ==
  ASSUME NEW who \in {"timer", "flush"}, DebouncerInv, ~inFlight, StartWrite(who)
  PROVE  /\ pending \in Values /\ pending = last /\ stored < last
         /\ writers' = {[by |-> who, value |-> last]}
         /\ pending' = 0 /\ inFlight' = TRUE
<1>1. writers = {}
  BY DEF DebouncerInv, OneWriter
<1>2. pending \in Values /\ pending = last /\ stored < last
  BY DEF StartWrite, DebouncerInv, DebouncerTypeOK, NewerWaits, Values
<1> QED
  BY <1>1, <1>2 DEF StartWrite

LEMMA DebouncerStep ==
  DebouncerInv /\ [DebouncerNext]_debouncerVars => DebouncerInv'
<1> SUFFICES ASSUME DebouncerInv, [DebouncerNext]_debouncerVars PROVE DebouncerInv'
  OBVIOUS
<1> USE DebouncerAssumption
<1>1. CASE Schedule
  <2> USE <1>1 DEF Schedule, DebouncerInv
  <2>1. DebouncerTypeOK'
    <3>1. armed' \in BOOLEAN /\ inFlight' \in BOOLEAN /\ skipped' \in BOOLEAN
      BY Zenon DEF DebouncerTypeOK
    <3> QED
      BY <3>1 DEF DebouncerTypeOK
  <2>2. OneWriter' /\ PendingIsWatched'
    BY DEF OneWriter, PendingIsWatched
  <2>3. NothingVanishes'
    BY DEF NothingVanishes
  <2>4. NewerWaits'
    BY DEF NewerWaits, DebouncerTypeOK, Values
  <2>5. FlushOwns'
    BY DEF FlushOwns
  <2> QED
    BY <2>1, <2>2, <2>3, <2>4, <2>5
<1>2. CASE Flush /\ ~inFlight /\ StartWrite("flush")
  <2>1. /\ pending \in Values /\ pending = last /\ stored < last
        /\ writers' = {[by |-> "flush", value |-> last]}
        /\ pending' = 0 /\ inFlight' = TRUE
    BY <1>2, StartWriteFacts
  <2>2. thread' = "flushing" /\ armed' = FALSE /\ skipped' = inFlight
        /\ UNCHANGED <<last, fired, stored>>
    BY <1>2, <2>1 DEF Flush, Values
  <2>3. DebouncerTypeOK'
    <3>1. armed' \in BOOLEAN /\ inFlight' \in BOOLEAN /\ skipped' \in BOOLEAN
      BY <2>1, <2>2, Zenon DEF DebouncerInv, DebouncerTypeOK
    <3> QED
      BY <2>1, <2>2, <3>1 DEF DebouncerInv, DebouncerTypeOK
  <2>4. OneWriter'
    BY <2>1 DEF OneWriter
  <2>5. NothingVanishes'
    BY <2>1, <2>2 DEF NothingVanishes
  <2>6. NewerWaits'
    BY <2>1, <2>2 DEF NewerWaits, DebouncerInv, DebouncerTypeOK
  <2>7. FlushOwns' /\ PendingIsWatched'
    BY <1>2, <2>1, <2>2 DEF FlushOwns, PendingIsWatched
  <2> QED
    BY <2>3, <2>4, <2>5, <2>6, <2>7 DEF DebouncerInv
<1>3. CASE Flush /\ ~(~inFlight /\ StartWrite("flush"))
  <2>1. /\ thread' = "flushed" /\ armed' = FALSE /\ skipped' = inFlight
        /\ inFlight \/ pending = 0
        /\ UNCHANGED <<pending, inFlight, writers, last, fired, stored>>
        /\ thread \in {"running", "flushed"}
    BY <1>3 DEF Flush
  <2>2. DebouncerTypeOK'
    <3>1. armed' \in BOOLEAN /\ inFlight' \in BOOLEAN /\ skipped' \in BOOLEAN
      BY <2>1, Zenon DEF DebouncerInv, DebouncerTypeOK
    <3> QED
      BY <2>1, <3>1 DEF DebouncerInv, DebouncerTypeOK
  <2>3. OneWriter' /\ NothingVanishes' /\ NewerWaits'
    BY <2>1 DEF DebouncerInv, OneWriter, NothingVanishes, NewerWaits
  <2>4. \A w \in writers : w.by = "timer"
    BY <2>1 DEF DebouncerInv, FlushOwns, DebouncerTypeOK
  <2>5. FlushOwns' /\ PendingIsWatched'
    BY <2>1, <2>4 DEF DebouncerInv, FlushOwns, PendingIsWatched, OneWriter
  <2> QED
    BY <2>2, <2>3, <2>5 DEF DebouncerInv
<1>4. CASE Exit
  <2> USE <1>4 DEF Exit, DebouncerInv
  <2>1. DebouncerTypeOK'
    BY DEF DebouncerTypeOK
  <2>2. OneWriter' /\ NothingVanishes' /\ NewerWaits' /\ PendingIsWatched'
    BY DEF OneWriter, NothingVanishes, NewerWaits, PendingIsWatched
  <2>3. FlushOwns'
    BY DEF FlushOwns
  <2> QED
    BY <2>1, <2>2, <2>3
<1>5. CASE Fire
  <2> USE <1>5 DEF Fire, DebouncerInv
  <2>1. DebouncerTypeOK'
    <3>1. armed' \in BOOLEAN
      BY Zenon DEF DebouncerTypeOK
    <3> QED
      BY <3>1 DEF DebouncerTypeOK
  <2>2. OneWriter' /\ NothingVanishes' /\ NewerWaits' /\ FlushOwns'
    BY DEF OneWriter, NothingVanishes, NewerWaits, FlushOwns
  <2>3. PendingIsWatched'
    BY DEF PendingIsWatched, DebouncerTypeOK
  <2> QED
    BY <2>1, <2>2, <2>3
<1>6. CASE FlushTimer /\ ~inFlight /\ StartWrite("timer")
  <2>1. /\ pending \in Values /\ pending = last /\ stored < last
        /\ writers' = {[by |-> "timer", value |-> last]}
        /\ pending' = 0 /\ inFlight' = TRUE
    BY <1>6, StartWriteFacts
  <2>2. fired > 0 /\ fired' = fired - 1 /\ thread # "exited"
        /\ UNCHANGED <<thread, last, armed, stored, skipped>>
    BY <1>6 DEF FlushTimer, Running
  <2>3. DebouncerTypeOK'
    <3>1. inFlight' \in BOOLEAN
      BY <2>1, Zenon
    <3> QED
      BY <2>1, <2>2, <3>1 DEF DebouncerInv, DebouncerTypeOK
  <2>4. OneWriter' /\ NothingVanishes' /\ PendingIsWatched'
    BY <2>1, <2>2 DEF OneWriter, NothingVanishes, PendingIsWatched
  <2>5. NewerWaits'
    BY <2>1, <2>2 DEF NewerWaits, DebouncerInv, DebouncerTypeOK
  <2>6. FlushOwns'
    BY <2>1, <2>2 DEF FlushOwns, DebouncerInv, Values
  <2> QED
    BY <2>3, <2>4, <2>5, <2>6 DEF DebouncerInv
<1>7. CASE FlushTimer /\ ~(~inFlight /\ StartWrite("timer"))
  <2>1. /\ inFlight \/ pending = 0
        /\ fired > 0 /\ fired' = fired - 1
        /\ UNCHANGED <<thread, last, pending, armed, inFlight, writers, stored, skipped>>
    BY <1>7 DEF FlushTimer
  <2>2. DebouncerTypeOK'
    BY <2>1 DEF DebouncerInv, DebouncerTypeOK
  <2>3. OneWriter' /\ NothingVanishes' /\ NewerWaits' /\ FlushOwns'
    BY <2>1 DEF DebouncerInv, OneWriter, NothingVanishes, NewerWaits, FlushOwns
  <2>4. pending # 0 => \E w \in writers : w.by = "timer"
    BY <2>1 DEF DebouncerInv, OneWriter, FlushOwns, DebouncerTypeOK
  <2>5. PendingIsWatched'
    BY <2>1, <2>4 DEF PendingIsWatched
  <2> QED
    BY <2>2, <2>3, <2>5 DEF DebouncerInv
<1>8. ASSUME NEW w \in writers, FlushDone(w) \/ FlushTimerDone(w) PROVE DebouncerInv'
  <2>1. writers = {w} /\ w.value \in Values /\ stored < w.value /\ w.value <= last
    BY DEF DebouncerInv, OneWriter, DebouncerTypeOK, NewerWaits
  <2>2. writers' = {} /\ stored' = w.value /\ inFlight' = FALSE
        /\ UNCHANGED <<last, pending, fired, skipped>>
    BY <1>8, <2>1 DEF FlushDone, FlushTimerDone
  <2>3. \/ thread' = thread /\ thread # "exited" /\ armed' = (armed \/ pending # 0)
        \/ thread = "flushing" /\ thread' = "flushed" /\ armed' = armed
    BY <1>8 DEF FlushDone, FlushTimerDone, Running
  <2>4. DebouncerTypeOK'
    <3>1. armed' \in BOOLEAN
      BY <2>3, Zenon DEF DebouncerInv, DebouncerTypeOK
    <3>2. inFlight' \in BOOLEAN
      BY <2>2, Zenon
    <3> QED
      BY <2>1, <2>2, <2>3, <3>1, <3>2 DEF DebouncerInv, DebouncerTypeOK, Values
  <2>5. OneWriter'
    BY <2>2 DEF OneWriter
  <2>6. NothingVanishes'
    BY <2>1, <2>2 DEF DebouncerInv, NothingVanishes, DebouncerTypeOK, Values
  <2>7. NewerWaits'
    BY <2>1, <2>2 DEF DebouncerInv, NewerWaits, DebouncerTypeOK, Values
  <2>8. FlushOwns'
    BY <2>1, <2>2, <2>3 DEF DebouncerInv, FlushOwns
  <2>9. PendingIsWatched'
    BY <2>1, <2>2, <2>3 DEF DebouncerInv, PendingIsWatched, FlushOwns
  <2> QED
    BY <2>4, <2>5, <2>6, <2>7, <2>8, <2>9 DEF DebouncerInv
<1>9. CASE UNCHANGED debouncerVars
  BY <1>9 DEF debouncerVars, DebouncerInv, DebouncerTypeOK, OneWriter, NothingVanishes, NewerWaits, FlushOwns,
              PendingIsWatched
<1> QED
  BY <1>1, <1>2, <1>3, <1>4, <1>5, <1>6, <1>7, <1>8, <1>9 DEF DebouncerNext

-----------------------------------------------------------------------------
(* The theorems.                                                           *)

\* The inductive invariant holds of every reachable state of a Debouncer.
THEOREM DebouncerInvariant ==
  DebouncerSpec => []DebouncerInv
BY DebouncerInitial, DebouncerStep, PTL DEF DebouncerSpec

\* The variables keep their types: what waits, is written and is stored are values.
THEOREM DebouncerTypeCorrect ==
  DebouncerSpec => []DebouncerTypeOK
BY DebouncerInvariant, PTL DEF DebouncerInv

\* The timer's goroutines and Flush never write at the same time.
THEOREM MutualExclusion ==
  DebouncerSpec => []OneWriter
BY DebouncerInvariant, PTL DEF DebouncerInv

\* A state that waits always has something that will look at it.
THEOREM Watched ==
  DebouncerSpec => []PendingIsWatched
BY DebouncerInvariant, PTL DEF DebouncerInv

\* If Flush found no write in flight, the exit after it loses nothing.
THEOREM FlushSaves ==
  DebouncerSpec => []FlushedThenSaved
<1>1. DebouncerInv => FlushedThenSaved
  <2> SUFFICES ASSUME DebouncerInv, thread = "exited", ~skipped PROVE stored = last
    BY DEF FlushedThenSaved
  <2>1. pending = 0 /\ writers = {}
    BY DEF DebouncerInv, FlushOwns
  <2> QED
    BY <2>1 DEF DebouncerInv, NothingVanishes, NewerWaits, DebouncerTypeOK
<1> QED
  BY <1>1, DebouncerInvariant, PTL

\* A write never takes the stored state back to an older one.
THEOREM NeverOlder ==
  DebouncerSpec => StoredAdvances
<1>1. DebouncerInv /\ [DebouncerNext]_debouncerVars => [stored' >= stored]_debouncerVars
  <2> SUFFICES ASSUME DebouncerInv, [DebouncerNext]_debouncerVars PROVE stored' >= stored
    OBVIOUS
  <2>1. ASSUME NEW w \in writers, FlushDone(w) \/ FlushTimerDone(w) PROVE stored' >= stored
    BY <2>1 DEF FlushDone, FlushTimerDone, DebouncerInv, NewerWaits, DebouncerTypeOK, Values
  <2>2. CASE ~\E w \in writers : FlushDone(w) \/ FlushTimerDone(w)
    BY <2>2 DEF DebouncerInv, DebouncerTypeOK, DebouncerNext, debouncerVars, Schedule, Flush, Exit, Fire, FlushTimer
  <2> QED
    BY <2>1, <2>2
<1> QED
  BY <1>1, DebouncerInvariant, PTL DEF DebouncerSpec, StoredAdvances
=============================================================================
