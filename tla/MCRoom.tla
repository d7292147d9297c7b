------------------------------- MODULE MCRoom -------------------------------
(***************************************************************************)
(* A small instance of Room for TLC.                                       *)
(***************************************************************************)
EXTENDS Room

\* Player ids are compared only for equality, and no property orders them.
Symmetry == Permutations(Players)

\* Bound: the run stops where the first rematch is asked.
FirstBattle == lastResult = NoResult \/ status = "finished"
=============================================================================
