SPECIFICATION Spec
CONSTANTS
    Nodes = {n1}
    Interval = 2
    Timeout = 2
    Failure = 4
    Latency = 1
    Copies = 1
    MaxTurns = 3
    Load <- MCLoad
    Clusters <- MCClusters
    Whole = 6
INVARIANTS
    TypeOK
    BeatIsHeard
    DeadIsNoticed
    AliveIsNoticed
    PlacementIsLeast
PROPERTIES
    ChosenAnswered
