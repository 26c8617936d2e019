----------------------------- MODULE MCSubmission -----------------------------
(* Submission under three kinds of trouble, one in a behaviour: every stop, restart and     *)
(* late answer while the endpoint stays what it is; redeployments and stops while the       *)
(* worker alone invokes it; and redeployments while the demo runner invokes it as well.     *)
EXTENDS Submission, TLC

CONSTANT Scenes     \* of "faults", "worker" and "race"
VARIABLE scene

\* One partition, so that a message waits for every earlier one.
OnePartition == [c \in Claims |-> CHOOSE p \in Partitions : TRUE]

\* The worker alone: no history, every claim resolves, and the runner only inserts.
WorkerCalls == {CHOOSE k \in Calls : TRUE}
W == INSTANCE Submission WITH Seeded <- {}, Poison <- {}, Calls <- WorkerCalls,
                              Mode <- "in_process", MaxStops <- 2, MaxAbandoned <- 0
Unseeded == Submitted \cap Seeded = {}    \* bound: two of the claims are enough for it

MCInit ==
    /\ scene \in Scenes
    /\ IF scene = "worker" THEN W!Init ELSE Init
    /\ scene = "faults" => deployed = CHOOSE s \in Sources : TRUE

MCNext ==
    /\ UNCHANGED scene
    /\ \/ scene = "faults" /\ Next /\ UNCHANGED deployed
       \/ scene = "worker" /\ W!Next /\ Unseeded'
       \/ scene = "race" /\ Next

\* In the second scene the jobs are scheduled as Submission says.
WorkerFairness ==
    /\ WF_vars(scene = "worker" /\ W!Producer)
    /\ WF_vars(scene = "worker" /\ W!Worker)
    /\ \A k \in WorkerCalls : WF_vars(scene = "worker" /\ W!FinishCall(k))

MCSpec == MCInit /\ [][MCNext]_<<scene, vars>> /\ WorkerFairness

\* With the worker alone, every submitted claim is adjudicated in the end, whatever stops and
\* is deployed meanwhile (worker.py:11-14, producer.py:8-9).
WorkerReachesEveryClaim == scene = "worker" => W!EveryClaimAdjudicated
=============================================================================
