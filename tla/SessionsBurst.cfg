CONSTANTS
    RoomOf <- TwoRooms
    PlayerOf <- Players
    MaxSockets = 1
    Burst = 2
    LongGrace = 0
    ShortGrace = 0
    CreatedGrace = 0
    Beacons = FALSE
SPECIFICATION FairSpec
PROPERTIES
    OnlyRequestsUnseat
    AbandonedSeatFreed
