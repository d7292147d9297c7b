CONSTANTS
    Players = {p1, p2, p3, p4, p5}
    NoPlayer = NoPlayer
    MaxPlayers = 5
    MinDancers = 2
    Songs = {s1}
    NoSong = NoSong
    WordRounds = 2
    VotePoints = 2
    WordBonusPoints = 1
SYMMETRY Symmetry
SPECIFICATION BattleSpec
CONSTRAINT OneBattle
INVARIANTS
    VotesCoherent
    EnoughDancers
    ResultFrozen
    VoteTold
    RecordAccounts
    RankingAsPromised
