\* The worker and the demo runner invoke for one claim around a deployment.
CONSTANTS
    Scenes = {"race"}
    Claims = {c1}
    Seeded = {}
    Poison = {}
    Partitions = {p1}
    PartitionOf <- OnePartition
    Sources = {s1, s2}
    Calls = {k1, k2}
    Mode = "serving_endpoint"
    MaxStops = 0
    MaxAbandoned = 0
SPECIFICATION MCSpec
INVARIANTS AdjudicatedOnce
