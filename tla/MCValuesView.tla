---------------------------- MODULE MCValuesView ----------------------------
(***************************************************************************)
(* The table of the defaults is                                            *)
(*   a:            b:  (below a)                                           *)
(*     x (a leaf below b, with a foot comment)    y (a leaf on its own)    *)
(* and a column file adds z, a leaf below a, above y.  y is an alias of x. *)
(***************************************************************************)
EXTENDS ValuesView

MCParent == [k \in {"a", "b", "x", "y", "z"} |->
               CASE k = "b" -> "a" [] k = "x" -> "b" [] k = "z" -> "a" [] OTHER -> "none"]

Row(k, kind) == [key |-> k, kind |-> kind]

MCTop == <<Row("a", "section"), Row("b", "section"), Row("x", "leaf"), Row("none", "comment")>>
MCFirst == Append(MCTop, Row("y", "leaf"))
MCTables == {MCFirst, MCTop \o <<Row("z", "leaf"), Row("y", "leaf")>>}

MCHits == [q \in {"q1", "q2"} |-> IF q = "q1" THEN {"x"} ELSE {"b", "y"}]
MCAliases == [k \in {"y"} |-> "x"]
=============================================================================
