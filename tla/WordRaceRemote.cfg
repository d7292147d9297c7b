CONSTANTS
    Players = {p1, p2}
    NoPlayer = NoPlayer
    Lineups <- Pairs
    RoundNumbers = {1}
    MaxBattles = 2
    Slots = {s1, s2}
    MaxStops = 1
    Local = FALSE
SYMMETRY Symmetry
CONSTRAINT NoChampion
SPECIFICATION RaceSpec
INVARIANT
    EndedOnce
PROPERTY
    SettledOnce
