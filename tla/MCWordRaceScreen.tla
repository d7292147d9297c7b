-------------------------- MODULE MCWordRaceScreen --------------------------
(* The instance of MCWordRace for WordRaceScreen. *)
EXTENDS MCWordRace, WordRaceScreen
=============================================================================
