------------------------------ MODULE AppData ------------------------------
(***************************************************************************)
(* What the updates of service/app_state_service.go make of AppData, the   *)
(* contents of data.json: the recent charts, newest first, and the         *)
(* LastTouchedAt of every chart whose UI state is kept.                    *)
(***************************************************************************)
EXTENDS Naturals, FiniteSets, SequencesExt, Positions

CONSTANTS
  Charts,            \* chart references that matchesChart tells apart
  OCICharts,         \* those from an OCI registry: no repository name
  Keys,              \* chart keys
  Unreadable,        \* the contents of a file that was partly written
  MaxRecentCharts,   \* maxRecentCharts
  MaxChartUIStates,  \* maxChartUIStates
  MaxTouches         \* bound on the saves of a UI state

ASSUME AppDataAssumption ==
  /\ OCICharts \subseteq Charts /\ IsFiniteSet(Keys)
  /\ MaxRecentCharts \in Nat \ {0} /\ MaxChartUIStates \in Nat \ {0} /\ MaxTouches \in Nat

\* 0: no state is kept for that key.
AppDataType == [recents : BoundedSeq(Charts, MaxRecentCharts), touched : [Keys -> 0..MaxTouches]]

Empty == [recents |-> <<>>, touched |-> [k \in Keys |-> 0]]

Capped(list) == SubSeq(list, 1, IF Len(list) > MaxRecentCharts THEN MaxRecentCharts ELSE Len(list))

\* slices.DeleteFunc: the entries that are not among the deleted.
Without(list, deleted) ==
  LET kept == Ascending[{i \in DOMAIN list : list[i] \notin deleted}]
  IN  [n \in DOMAIN kept |-> list[kept[n]]]

\* Prepend, dedupe, cap.  A chart that is not local and has no repository name
\* is dropped, whatever is added.
Added(data, chart) ==
  [data EXCEPT !.recents =
     Capped(<<chart>> \o Without(@, OCICharts \union {chart}))]

\* Mutant: an index counted from the end.
RemovedFromEnd(data, i) == [data EXCEPT !.recents = RemoveAt(@, Len(@) + 1 - i)]

Removed(data, i) == [data EXCEPT !.recents = RemoveAt(@, i)]

\* Mutant: the newest of the others makes room.
TouchedNewestGoes(data, key, at) ==
  LET put    == [data.touched EXCEPT ![key] = at]
      others == {k \in Keys \ {key} : put[k] > 0}
      room   == {k \in others : \A l \in others : put[k] >= put[l]}
  IN  [data EXCEPT !.touched =
         IF Cardinality(others) < MaxChartUIStates THEN put
         ELSE [k \in Keys |-> IF k \in room THEN 0 ELSE put[k]]]

\* The state that was touched longest ago makes room for a new one.
Touched(data, key, at) ==
  LET put    == [data.touched EXCEPT ![key] = at]
      others == {k \in Keys \ {key} : put[k] > 0}
      oldest == {k \in others : \A l \in others : put[k] <= put[l]}
  IN  [data EXCEPT !.touched =
         IF Cardinality(others) < MaxChartUIStates THEN put
         ELSE [k \in Keys |-> IF k \in oldest THEN 0 ELSE put[k]]]
=============================================================================
