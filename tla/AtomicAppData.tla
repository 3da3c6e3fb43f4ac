--------------------------- MODULE AtomicAppData ---------------------------
(***************************************************************************)
(* The promise of JSONStore.Update: an update takes effect at once and as  *)
(* a whole, on what the update before it left.  All of the data is lost    *)
(* when a write is not completed, and nothing takes effect after that.     *)
(***************************************************************************)
EXTENDS AppData

VARIABLE data

Init == data = Empty

AddChart(chart) == data' = Added(data, chart)

RemoveChart(i) == data' = Removed(data, i)

Touch(key, at) ==
  /\ \A k \in Keys : data.touched[k] < at
  /\ data' = Touched(data, key, at)

Lose == data' = Unreadable

Next ==
  /\ data # Unreadable
  /\ \/ \E chart \in Charts : AddChart(chart)
     \/ \E i \in DOMAIN data.recents : RemoveChart(i)
     \/ \E key \in Keys, at \in 1..MaxTouches : Touch(key, at)
     \/ Lose

Spec == Init /\ [][Next]_data
=============================================================================
