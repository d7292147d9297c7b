CONSTANTS
    Players = {p1, p2, p3}
    NoPlayer = NoPlayer
    MaxPlayers = 3
    MinDancers = 2
    Songs = {s1}
    NoSong = NoSong
    WordRounds = 1
    VotePoints = 2
    WordBonusPoints = 1
SYMMETRY Symmetry
SPECIFICATION Spec
CONSTRAINT FirstBattle
INVARIANTS
    TypeOK
    HostIsEarliest
    ListsAgree
    ChooserCanChoose
    OneThingAtATime
PROPERTIES
    TurnIsKept
