---------------------------- MODULE MCValuesSave ----------------------------
(* Two override files, which nothing in the model tells apart.             *)
EXTENDS ValuesSave, TLC

CONSTANTS a, b

TwoFiles == {a, b}
AnyOrder == Permutations(TwoFiles)
=============================================================================
