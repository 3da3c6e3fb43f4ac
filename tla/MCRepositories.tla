--------------------------- MODULE MCRepositories ---------------------------
(* Repositories with the names, and the places, made interchangeable.      *)
EXTENDS Repositories, TLC

Symmetry == Permutations(Names) \union Permutations(Urls)
=============================================================================
