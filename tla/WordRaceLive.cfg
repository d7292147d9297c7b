CONSTANTS
    Players = {p1, p2}
    NoPlayer = NoPlayer
    Lineups <- Pairs
    RoundNumbers = {1}
    MaxBattles = 2
    Slots = {}
    MaxStops = 1
    Local = FALSE
SPECIFICATION FairRaceSpec
PROPERTIES
    RoundSettles
    NothingLeaks
