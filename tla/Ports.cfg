SPECIFICATION Spec
SYMMETRY Symmetry
\* Coroutines whose behaviour is undefined may be all there are.
CHECK_DEADLOCK FALSE
CONSTANTS
    Pair = {p1, p2}
    Trio = {t1, t2, t3}
    MaxFd = 2
    MaxFile = 3
    BsdMaxFd = 1
    BsdMaxFile = 2
    QueueSize = 2
INVARIANTS DescriptorsOwned ReachesItsFile FreedOnlyByClose WaitersAreWoken
