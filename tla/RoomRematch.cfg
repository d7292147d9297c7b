CONSTANTS
    Players = {p1, p2, p3}
    NoPlayer = NoPlayer
    MaxPlayers = 2
    MinDancers = 2
    Songs = {s1}
    NoSong = NoSong
    WordRounds = 0
    VotePoints = 2
    WordBonusPoints = 1
SPECIFICATION FairSpec
PROPERTIES
    LastResultKept
    ImplementsContract
    TypingResolves
    TurnEnds
    BattleEnds
