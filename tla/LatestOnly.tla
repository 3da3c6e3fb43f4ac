----------------------------- MODULE LatestOnly -----------------------------
(***************************************************************************)
(* The promise of a Runner (ui/async/runner.go) to the page that owns it:  *)
(* requests are numbered as they are made, a new request makes every older *)
(* one unanswerable, and the newest one is answered at most once.          *)
(***************************************************************************)
EXTENDS Naturals

CONSTANT MaxOps  \* bound on the number of requests

VARIABLES
  latest,    \* the number of the newest request, 0 before the first
  answered   \* the requests that were answered

Init == latest = 0 /\ answered = {}

Request ==
  /\ latest < MaxOps
  /\ latest' = latest + 1
  /\ UNCHANGED answered

Answer ==
  /\ latest > 0
  /\ latest \notin answered
  /\ answered' = answered \union {latest}
  /\ UNCHANGED latest

Next == Request \/ Answer

Spec == Init /\ [][Next]_<<latest, answered>>
=============================================================================
