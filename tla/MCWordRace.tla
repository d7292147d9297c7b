----------------------------- MODULE MCWordRace -----------------------------
(***************************************************************************)
(* Small instances of WordRace for TLC.                                    *)
(***************************************************************************)
EXTENDS WordRace, TLC

\* Players and slots are compared only for equality.
Symmetry == Permutations(Players) \cup Permutations(Slots)

\* Every two or more of the players can dance a battle (MIN_DANCERS_PER_BATTLE).
Pairs == {D \in SUBSET Players : Cardinality(D) >= 2}

\* The champion is no concern of the race.
NoChampion == champion = NoPlayer
=============================================================================
