CONSTANTS
    NumPlayers = 5
    Rotation <- Left
    FirstValue = 3
    ResetValues = {1, 4, 6}
    Leftover = {0}
    Rounds = 2
    Babuinos = {1, 2, 3, 4, 5, 6}
    N = 2
    B = 4
    Typed <- AbQa
    Quit = "q"
SPECIFICATION Spec
INVARIANT MainLeavesOthers
