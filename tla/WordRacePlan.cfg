CONSTANTS
    Songs = {0, 1, 7, 10, 19, 20, 23}
    Windows = {1, 3, 5}
    Gaps = {0, 3, 6}
    Rounds = {0, 1, 2, 3, 4}
    StartMargin = 10
    EndMargin = 85
    Words = {w1, w2, w3}
SPECIFICATION Spec
INVARIANTS
    RoundsFit
    AsManyAsFit
CHECK_DEADLOCK FALSE
SYMMETRY Alike
