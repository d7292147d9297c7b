CONSTANTS
    RoomOf <- TwoRooms
    PlayerOf <- Players
    MaxSockets = 2
    Burst = 1
    LongGrace = 1
    ShortGrace = 0
    CreatedGrace = 2
    Beacons = TRUE
SPECIFICATION Spec
INVARIANTS
    SessionsTypeOK
    BoundIsSeated
    NoGhostSeat
    TabsUpToDate
PROPERTIES
    GraceNeverPostponed
