CONSTANTS
    Players = {p1, p2, p3}
    NoPlayer = NoPlayer
    Lineups <- Pairs
    RoundNumbers = {1, 2}
    MaxBattles = 2
    Slots = {s1, s2}
    MaxStops = 2
    Local = TRUE
SYMMETRY Symmetry
CONSTRAINT NoChampion
SPECIFICATION ScreenSpec
INVARIANTS
    RaceTypeOK
    WordsMatchRace
    RaceGoesOn
    ScreenFollows
