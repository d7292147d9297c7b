CONSTANTS
    Players = {p1, p2, p3}
    NoPlayer = NoPlayer
    MaxPlayers = 3
    MinDancers = 2
    Songs = {s1}
    NoSong = NoSong
    WordRounds = 0
    VotePoints = 2
    WordBonusPoints = 1
SPECIFICATION Spec
INVARIANT
    NoRoundOfFailures
