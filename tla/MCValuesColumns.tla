-------------------------- MODULE MCValuesColumns --------------------------
(* A chart with an empty values.yaml and two override files with keys of   *)
(* their own, of which b may have come to hold that of a: loading or       *)
(* clearing one moves the row of the other.                                *)
EXTENDS ValuesColumns, TLC

CONSTANTS a, b, w, tgz

TwoFiles == {a, b}
OneKeyEach == (a :> {{1}}) @@ (b :> {{2}, {1, 2}})
OneAtATime == {<<a>>, <<b>>}
=============================================================================
