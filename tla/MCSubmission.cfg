\* Seeded, live and unresolvable claims in one partition: every stop and restart; and the
\* worker alone, across deployments.
CONSTANTS
    Scenes = {"faults", "worker"}
    Claims = {h1, c1, x1}
    Seeded = {h1}
    Poison = {x1}
    Partitions = {p1}
    PartitionOf <- OnePartition
    Sources = {s1, s2}
    Calls = {k1, k2}
    Mode = "serving_endpoint"
    MaxStops = 1
    MaxAbandoned = 1
SPECIFICATION MCSpec
INVARIANTS NothingSkipped NothingLost HistoryUntouched AdjudicatedOnce
PROPERTIES WorkerReachesEveryClaim
\* Once every claim is handled and decided there may be nothing left to do.
CHECK_DEADLOCK FALSE
