------------------------------ MODULE Submission ------------------------------
(***************************************************************************)
(* From a submitted claim to its recommendation: the demo runner that       *)
(* inserts claims (demo/src/runner.py), the change feed of public.claims,   *)
(* the checkpointed producer (services/src/producer.py), the                *)
(* claim.submitted topic, and the worker that asks the endpoint for a       *)
(* recommendation (services/src/worker.py, worker_core.py).                 *)
(*                                                                         *)
(* The endpoint's transaction is one step here; module Adjudications shows  *)
(* that its statements amount to one.                                       *)
(***************************************************************************)
EXTENDS Integers, Sequences, FiniteSets

CONSTANTS
    Claims,
    Seeded,           \* claims seeded with a FINAL synthetic_reference_baseline row
    Poison,           \* claims whose reference data does not resolve
    Partitions,       \* of the topic
    PartitionOf,      \* by key: the claim id
    Sources,          \* digests of authorities.py
    Calls,            \* endpoint invocations that can be in flight together
    Mode,             \* mode of the demo runner
    MaxStops,         \* bound: jobs that stop between two of their effects
    MaxAbandoned      \* bound: invocations whose caller stops waiting

ASSUME SubmissionAssumption ==
    /\ Seeded \subseteq Claims /\ Poison \subseteq Claims /\ IsFiniteSet(Claims)
    /\ PartitionOf \in [Claims -> Partitions]
    /\ Mode \in {"serving_endpoint", "in_process"}
    /\ MaxStops \in Nat /\ MaxAbandoned \in Nat

VARIABLES
    cdf,             \* cdf.lb_claims_history: its insert rows, in commit order
    producer,        \* the stream's checkpoint, its planned batch, and what is unsent
    topic,           \* claim.submitted
    offset,          \* the worker group's committed offsets
    worker,          \* the message in hand
    runner,          \* claims the demo runner has yet to invoke the endpoint for
    calls,           \* invocations in flight
    deployed,        \* the digest the endpoint runs with
    adjudications,   \* decision_status of the agent's adjudication of each id
    stops,           \* jobs stopped so far
    abandoned        \* invocations abandoned so far

feed == <<cdf, producer, topic>>
group == <<offset, worker>>
endpoint == <<calls, deployed, adjudications>>
bounds == <<stops, abandoned>>
vars == <<feed, group, runner, endpoint, bounds>>

Stop == stops < MaxStops /\ stops' = stops + 1
Abandon == abandoned < MaxAbandoned /\ abandoned' = abandoned + 1

Statuses == {"ABSENT", "RECOMMENDED", "FINAL"}
Submitted == {cdf[n] : n \in DOMAIN cdf}

-----------------------------------------------------------------------------
(* The demo runner *)

\* INSERT ... ON CONFLICT (claim_id) DO UPDATE, committed at once: only the rows
\* that were not there are inserts of the change feed.  Then the endpoint is
\* invoked for every claim of the backlog, except that in_process mode raises.
InsertBacklog(backlog) ==
    /\ runner = {} /\ \A k \in Calls : calls[k].caller # "runner"
    /\ \E new \in [1..Cardinality(backlog \ Submitted) -> backlog \ Submitted] :
         /\ \A m, n \in DOMAIN new : m # n => new[m] # new[n]
         /\ cdf' = cdf \o new
    /\ runner' = IF Mode = "serving_endpoint" THEN backlog ELSE {}
    /\ UNCHANGED <<producer, topic, group, endpoint, bounds>>

Free == [caller |-> "none"]
Call == [caller : {"worker", "runner", "gone"}, claim : Claims, source : Sources]

\* The request reaches an endpoint, which keeps the digest it runs with.
Invoked(k, caller, c) ==
    calls' = [calls EXCEPT ![k] = [caller |-> caller, claim |-> c, source |-> deployed]]

\* One claim after the other, without asking whether it has an adjudication.
RunnerInvoke(k) ==
    /\ calls[k] = Free /\ \A j \in Calls : calls[j].caller # "runner"
    /\ \E c \in runner : Invoked(k, "runner", c) /\ runner' = runner \ {c}
    /\ UNCHANGED <<feed, group, deployed, adjudications, bounds>>

\* More than ten failures, or a crash.
StopRunner ==
    /\ runner # {}
    /\ \A k \in Calls : calls[k].caller # "runner"
    /\ runner' = {}
    /\ UNCHANGED <<feed, group, endpoint, bounds>>

-----------------------------------------------------------------------------
(* The producer: a checkpointed stream with the availableNow trigger *)

\* The offsets log is written first: the batch is what has been inserted by now.
PlanBatch ==
    /\ producer.batch = producer.checkpoint
    /\ Len(cdf) > producer.checkpoint
    /\ producer' = [producer EXCEPT !.batch = Len(cdf),
                                    !.unsent = producer.checkpoint + 1..Len(cdf)]
    /\ UNCHANGED <<cdf, topic, group, runner, endpoint, bounds>>

\* The tasks of a batch write its rows in any order, each to its key's partition.
Emit(n) ==
    /\ n \in producer.unsent
    /\ topic' = [topic EXCEPT ![PartitionOf[cdf[n]]] = Append(@, cdf[n])]
    /\ producer' = [producer EXCEPT !.unsent = @ \ {n}]
    /\ UNCHANGED <<cdf, group, runner, endpoint, bounds>>

\* Faulty: the checkpoint advances with the plan, before the broker's acks.
CommitBatchEarly ==
    /\ producer.batch > producer.checkpoint
    /\ producer' = [producer EXCEPT !.checkpoint = producer.batch, !.unsent = {}]
    /\ UNCHANGED <<cdf, topic, group, runner, endpoint, bounds>>

\* The commits log is written after every row of the batch is acknowledged.
CommitBatch ==
    /\ producer.batch > producer.checkpoint
    /\ producer.unsent = {}
    /\ producer' = [producer EXCEPT !.checkpoint = producer.batch]
    /\ UNCHANGED <<cdf, topic, group, runner, endpoint, bounds>>

\* The next run repeats the planned batch, the rows already emitted included.
RestartProducer ==
    /\ producer.batch > producer.checkpoint
    /\ Stop
    /\ producer' = [producer EXCEPT !.unsent = producer.checkpoint + 1..producer.batch]
    /\ UNCHANGED <<cdf, topic, group, runner, endpoint, abandoned>>

-----------------------------------------------------------------------------
(* The worker *)

HasFinal(c) == c \in Seeded \/ \E s \in Sources : adjudications[c][s] = "FINAL"
HasAgent(c) == \E s \in Sources : adjudications[c][s] # "ABSENT"

\* Faulty: only the agent's own rows are looked for.
AdjudicateFinals(c) == ~HasAgent(c)

\* Faulty: only human decisions are looked for.
AdjudicateAgain(c) == ~HasFinal(c)

\* dedup_decision: ADJUDICATE, and neither SKIP_FINAL nor SKIP_AGENT.
DedupDecision(c) == ~HasFinal(c) /\ ~HasAgent(c)

Idle == [stage |-> "idle"]
InHand == [stage : {"adjudicate", "invoking", "handled"}, partition : Partitions,
           claim : Claims]

\* poll() returns the next message of some partition; lookup() reads what is
\* committed now, and the decision is not taken again.
Lookup(p) ==
    /\ worker = Idle
    /\ offset[p] < Len(topic[p])
    /\ LET c == topic[p][offset[p] + 1]
       IN  worker' = [stage |-> IF DedupDecision(c) THEN "adjudicate" ELSE "handled",
                      partition |-> p, claim |-> c]
    /\ UNCHANGED <<feed, offset, runner, endpoint, bounds>>

WorkerInvoke(k) ==
    /\ worker.stage = "adjudicate"
    /\ calls[k] = Free
    /\ Invoked(k, "worker", worker.claim)
    /\ worker' = [worker EXCEPT !.stage = "invoking"]
    /\ UNCHANGED <<feed, offset, runner, deployed, adjudications, bounds>>

\* Faulty: the offset is committed before the endpoint has answered.
CommitEarly ==
    /\ worker.stage \in {"adjudicate", "handled"}
    /\ offset' = [offset EXCEPT ![worker.partition] = @ + 1]
    /\ worker' = Idle
    /\ UNCHANGED <<feed, runner, endpoint, bounds>>

\* consumer.commit(msg), once the claim is invoked or skipped.
Commit ==
    /\ worker.stage = "handled"
    /\ offset' = [offset EXCEPT ![worker.partition] = @ + 1]
    /\ worker' = Idle
    /\ UNCHANGED <<feed, runner, endpoint, bounds>>

\* The run ends before the commit; the next one polls the message again.
RestartWorker ==
    /\ worker.stage \in {"adjudicate", "handled"}
    /\ Stop
    /\ worker' = Idle
    /\ UNCHANGED <<feed, offset, runner, endpoint, abandoned>>

-----------------------------------------------------------------------------
(* The endpoint *)

\* Faulty: an error of the endpoint is logged and the message taken as handled.
SwallowErrors(k, stage) ==
    IF calls[k].caller # "worker" THEN worker ELSE [worker EXCEPT !.stage = "handled"]

\* A reply, which reaches the caller if it still waits: the worker goes on to the
\* commit, or an exception ends its run without one.
WorkerAfter(k, stage) ==
    IF calls[k].caller # "worker" THEN worker
    ELSE IF stage = "handled" THEN [worker EXCEPT !.stage = "handled"] ELSE Idle

\* The transaction commits: ON CONFLICT (adjudication_id) DO NOTHING.
FinishCall(k) ==
    /\ calls[k] # Free /\ calls[k].claim \notin Poison
    /\ adjudications' = [adjudications EXCEPT ![calls[k].claim][calls[k].source] =
                           IF @ = "ABSENT" THEN "RECOMMENDED" ELSE @]
    /\ calls' = [calls EXCEPT ![k] = Free]
    /\ worker' = WorkerAfter(k, "handled")
    /\ UNCHANGED <<feed, offset, runner, deployed, bounds>>

\* The claim cannot be resolved, or the endpoint stops: rollback, and an error.
FailCall(k) ==
    /\ calls[k] # Free
    /\ IF calls[k].claim \in Poison THEN UNCHANGED stops ELSE Stop
    /\ calls' = [calls EXCEPT ![k] = Free]
    /\ worker' = WorkerAfter(k, "failed")
    /\ UNCHANGED <<feed, offset, runner, deployed, adjudications, abandoned>>

\* The caller times out or dies; the endpoint does not know and goes on.
AbandonCall(k) ==
    /\ calls[k].caller \in {"worker", "runner"}
    /\ Abandon
    /\ calls' = [calls EXCEPT ![k].caller = "gone"]
    /\ worker' = WorkerAfter(k, "failed")
    /\ UNCHANGED <<feed, offset, runner, deployed, adjudications, stops>>

Deploy(s) ==
    /\ s # deployed
    /\ deployed' = s
    /\ UNCHANGED <<feed, group, runner, calls, adjudications, bounds>>

\* An adjuster finalizes a recommendation.
Finalize(c, s) ==
    /\ adjudications[c][s] = "RECOMMENDED"
    /\ adjudications' = [adjudications EXCEPT ![c][s] = "FINAL"]
    /\ UNCHANGED <<feed, group, runner, calls, deployed, bounds>>

-----------------------------------------------------------------------------
Init ==
    /\ cdf \in [1..Cardinality(Seeded) -> Seeded]
    /\ Submitted = Seeded
    /\ producer = [checkpoint |-> 0, batch |-> 0, unsent |-> {}]
    /\ topic = [p \in Partitions |-> <<>>]
    /\ offset = [p \in Partitions |-> 0]
    /\ worker = Idle
    /\ runner = {}
    /\ calls = [k \in Calls |-> Free]
    /\ deployed \in Sources
    /\ adjudications = [c \in Claims |-> [s \in Sources |-> "ABSENT"]]
    /\ stops = 0
    /\ abandoned = 0

Producer == PlanBatch \/ (\E n \in DOMAIN cdf : Emit(n)) \/ CommitBatch
Worker == \/ \E p \in Partitions : Lookup(p)
          \/ \E k \in Calls : WorkerInvoke(k)
          \/ Commit
Adjusters == \E c \in Claims, s \in Sources : Finalize(c, s)

Next ==
    \/ \E backlog \in SUBSET (Claims \ Seeded) : InsertBacklog(backlog)
    \/ \E k \in Calls : RunnerInvoke(k)
    \/ StopRunner
    \/ Producer \/ RestartProducer
    \/ Worker \/ RestartWorker
    \/ \E k \in Calls : FinishCall(k) \/ FailCall(k) \/ AbandonCall(k)
    \/ \E s \in Sources : Deploy(s)
    \/ Adjusters

Spec == Init /\ [][Next]_vars

\* The producer and the worker are run every hour and go on while they can, and
\* every invocation ends.  Nothing is assumed of the demo runner, of deployments
\* or of adjusters, and no fault is bound to happen.
Fairness ==
    /\ WF_vars(Producer)
    /\ WF_vars(Worker)
    /\ \A k \in Calls : WF_vars(FinishCall(k))

FairSpec == Spec /\ Fairness

-----------------------------------------------------------------------------
(* Properties *)

\* Every variable holds a value of its table's, log's or job's shape.
TypeOK ==
    /\ cdf \in Seq(Claims)
    /\ producer \in [checkpoint : Nat, batch : Nat, unsent : SUBSET (1..Len(cdf))]
    /\ topic \in [Partitions -> Seq(Claims)]
    /\ offset \in [Partitions -> Nat]
    /\ worker \in {Idle} \cup InHand
    /\ runner \subseteq Claims
    /\ calls \in [Calls -> {Free} \cup Call]
    /\ deployed \in Sources
    /\ adjudications \in [Claims -> [Sources -> Statuses]]
    /\ stops \in 0..MaxStops /\ abandoned \in 0..MaxAbandoned

\* The claim needs no recommendation any more.
Adjudicated(c) == HasFinal(c) \/ HasAgent(c)

\* An offset is committed only past claims that are adjudicated, wherever the
\* worker stopped, whoever answered late and whichever claim failed: a message is
\* handled or delivered again, never dropped (worker.py:11-14, worker_core.py:60-64).
NothingSkipped ==
    \A p \in Partitions : \A n \in 1..offset[p] : Adjudicated(topic[p][n])

\* What the checkpoint has passed is on the topic: a run that stops half-way emits
\* rows again and loses none (producer.py:8-9).
NothingLost ==
    \A n \in 1..producer.checkpoint :
      \E m \in DOMAIN topic[PartitionOf[cdf[n]]] : topic[PartitionOf[cdf[n]]][m] = cdf[n]

\* The replay of the seeded history writes no recommendation beside its decisions
\* (worker_core.py:16-18).
HistoryUntouched ==
    \A c \in Seeded, s \in Sources : adjudications[c][s] = "ABSENT"

\* No claim has two adjudications, so that a race between the dedup check and the
\* write cannot double-adjudicate (worker_core.py:12-14).
AdjudicatedOnce ==
    \A c \in Claims :
      Cardinality({s \in Sources : adjudications[c][s] # "ABSENT"}) <= 1

\* Every submitted claim is adjudicated in the end.
EveryClaimAdjudicated ==
    \A c \in Claims : c \in Submitted ~> Adjudicated(c)
=============================================================================
