--------------------------- MODULE SubmissionProofs ---------------------------
(***************************************************************************)
(* For any claims, partitions, deployments, number of invocations in flight *)
(* and number of stops: no committed offset passes over a claim, nothing    *)
(* the checkpoint has passed is missing from the topic, and the seeded      *)
(* history is left alone; where the worker alone asks and waits, no claim   *)
(* has two adjudications.  That every claim is adjudicated stays with TLC.  *)
(***************************************************************************)
EXTENDS Submission, FiniteSetTheorems, SequenceTheorems, TLAPS

OnTopic(t, c) == \E m \in DOMAIN t[PartitionOf[c]] : t[PartitionOf[c]][m] = c

\* The rows of the planned batch are emitted or still to be, those before the
\* checkpoint emitted.
BatchKept ==
    /\ producer.checkpoint <= producer.batch /\ producer.batch <= Len(cdf)
    /\ \A n \in 1 .. producer.checkpoint : OnTopic(topic, cdf[n])
    /\ \A n \in 1 .. producer.batch : n \in producer.unsent \/ OnTopic(topic, cdf[n])

\* The message in hand is the next one of its partition, and once handled its claim is
\* adjudicated; the worker waits for at most one invocation, of that claim.
HandKept ==
    /\ \A p \in Partitions : offset[p] <= Len(topic[p])
    /\ worker.stage # "idle" =>
         /\ offset[worker.partition] < Len(topic[worker.partition])
         /\ topic[worker.partition][offset[worker.partition] + 1] = worker.claim
    /\ worker.stage = "handled" => Adjudicated(worker.claim)
    /\ \A k \in Calls : calls[k].caller = "worker" =>
         worker.stage = "invoking" /\ worker.claim = calls[k].claim
    /\ \A j, k \in Calls : calls[j].caller = "worker" /\ calls[k].caller = "worker" => j = k

\* Nobody is about to ask for, or asks for, a claim of the seeded history.
SeededSpared ==
    /\ runner \cap Seeded = {}
    /\ worker.stage \in {"adjudicate", "invoking"} => worker.claim \notin Seeded
    /\ \A k \in Calls : calls[k] # Free => calls[k].claim \notin Seeded

SubmissionInv ==
    TypeOK /\ BatchKept /\ HandKept /\ NothingSkipped /\ SeededSpared /\ HistoryUntouched

-----------------------------------------------------------------------------
(* The shapes of what the steps touch *)

\* What the worker has in hand.
LEMMA HandType ==
    ASSUME TypeOK
    PROVE  \/ worker = Idle /\ worker.stage = "idle"
           \/ /\ worker \in InHand
              /\ worker.stage \in {"adjudicate", "invoking", "handled"}
              /\ worker.partition \in Partitions /\ worker.claim \in Claims
              /\ \A stage : [worker EXCEPT !.stage = stage] =
                   [stage |-> stage, partition |-> worker.partition, claim |-> worker.claim]
<1>1. worker = Idle \/ worker \in InHand
  BY DEF TypeOK
<1>2. CASE worker = Idle
  BY <1>2 DEF Idle
<1>3. CASE worker \in InHand
  BY <1>3 DEF InHand
<1> QED BY <1>1, <1>2, <1>3

\* What an invocation is of.
LEMMA CallType ==
    ASSUME TypeOK, NEW k \in Calls
    PROVE  \/ calls[k] = Free /\ calls[k].caller = "none"
           \/ /\ calls[k] \in Call /\ calls[k].caller \in {"worker", "runner", "gone"}
              /\ calls[k].claim \in Claims /\ calls[k].source \in Sources
<1>1. calls[k] = Free \/ calls[k] \in Call
  BY DEF TypeOK
<1>2. CASE calls[k] = Free
  BY <1>2 DEF Free
<1>3. CASE calls[k] \in Call
  BY <1>3 DEF Call
<1> QED BY <1>1, <1>2, <1>3

\* The feed, and the planned batch within it.
LEMMA FeedType ==
    ASSUME TypeOK
    PROVE  /\ cdf \in Seq(Claims) /\ Len(cdf) \in Nat /\ DOMAIN cdf = 1 .. Len(cdf)
           /\ \A n \in 1 .. Len(cdf) : cdf[n] \in Claims /\ PartitionOf[cdf[n]] \in Partitions
           /\ producer.checkpoint \in Nat /\ producer.batch \in Nat
           /\ producer.unsent \subseteq 1 .. Len(cdf)
           /\ producer = [checkpoint |-> producer.checkpoint, batch |-> producer.batch,
                          unsent |-> producer.unsent]
<1>1. cdf \in Seq(Claims)
  BY DEF TypeOK
<1>2. Len(cdf) \in Nat /\ DOMAIN cdf = 1 .. Len(cdf)
  BY <1>1, LenProperties
<1>3. \A n \in 1 .. Len(cdf) : cdf[n] \in Claims
  BY <1>1, ElementOfSeq
<1>4. \A c \in Claims : PartitionOf[c] \in Partitions
  BY SubmissionAssumption DEF SubmissionAssumption
<1>5. producer \in [checkpoint : Nat, batch : Nat, unsent : SUBSET (1 .. Len(cdf))]
  BY DEF TypeOK
<1> QED BY <1>1, <1>2, <1>3, <1>4, <1>5

\* The topic and its offsets.
LEMMA TopicType ==
    ASSUME TypeOK, NEW p \in Partitions
    PROVE  /\ topic[p] \in Seq(Claims) /\ Len(topic[p]) \in Nat
           /\ DOMAIN topic[p] = 1 .. Len(topic[p])
           /\ \A n \in 1 .. Len(topic[p]) : topic[p][n] \in Claims
           /\ offset[p] \in Nat
<1>1. topic[p] \in Seq(Claims) /\ offset[p] \in Nat
  BY DEF TypeOK
<1> QED BY <1>1, LenProperties, ElementOfSeq

\* A claim is adjudicated by the seed or by an adjudication of any digest.
LEMMA AdjudicatedBy ==
    ASSUME NEW c
    PROVE  Adjudicated(c) <=> c \in Seeded \/ \E s \in Sources : adjudications[c][s] # "ABSENT"
  BY DEF Adjudicated, HasFinal, HasAgent

-----------------------------------------------------------------------------
(* The change feed and the producer *)

\* What a step of the runner's inserts or of the producer may do.
FeedStep ==
    /\ cdf' \in Seq(Claims)
    /\ producer' \in [checkpoint : Nat, batch : Nat, unsent : SUBSET (1 .. Len(cdf'))]
    /\ topic' \in [Partitions -> Seq(Claims)]
    /\ \A p \in Partitions : /\ Len(topic[p]) <= Len(topic'[p])
                             /\ \A n \in 1 .. Len(topic[p]) : topic'[p][n] = topic[p][n]
    /\ BatchKept'
    /\ runner' \subseteq Claims \ Seeded
    /\ stops' \in 0 .. MaxStops
    /\ UNCHANGED <<group, endpoint, abandoned>>

\* A step ahead of the worker breaks nothing.
LEMMA FeedStepKeeps ==
    ASSUME SubmissionInv, FeedStep
    PROVE  SubmissionInv'
<1>1. TypeOK
  BY DEF SubmissionInv
<1>2. TypeOK'
  BY <1>1 DEF TypeOK, FeedStep, group, endpoint
<1>3. BatchKept'
  BY DEF FeedStep
<1>4. \A c : Adjudicated(c) <=> Adjudicated(c)'
  BY DEF FeedStep, Adjudicated, HasFinal, HasAgent, endpoint
<1>5. \A p \in Partitions : /\ offset[p] \in Nat /\ offset[p] <= Len(topic[p])
                            /\ Len(topic[p]) \in Nat /\ Len(topic'[p]) \in Nat
                            /\ Len(topic[p]) <= Len(topic'[p])
                            /\ \A n \in 1 .. Len(topic[p]) : topic'[p][n] = topic[p][n]
  <2>1. \A p \in Partitions : topic'[p] \in Seq(Claims)
    BY DEF FeedStep
  <2>2. \A p \in Partitions : Len(topic'[p]) \in Nat
    BY <2>1, LenProperties
  <2>3. \A p \in Partitions : offset[p] <= Len(topic[p])
    BY DEF SubmissionInv, HandKept
  <2> QED BY <1>1, <2>2, <2>3, TopicType DEF FeedStep
<1>6. HandKept'
  <2>1. \A p \in Partitions : offset[p] <= Len(topic'[p])
    BY <1>5
  <2>2. worker.stage # "idle" =>
          /\ offset[worker.partition] < Len(topic'[worker.partition])
          /\ topic'[worker.partition][offset[worker.partition] + 1] = worker.claim
    BY <1>1, <1>5, HandType, SMTT(30) DEF SubmissionInv, HandKept
  <2>3. worker.stage = "handled" => Adjudicated(worker.claim)'
    BY <1>4 DEF SubmissionInv, HandKept, Adjudicated, HasFinal, HasAgent, FeedStep, endpoint, group
  <2> QED BY <2>1, <2>2, <2>3 DEF SubmissionInv, HandKept, FeedStep, group, endpoint
<1>7. NothingSkipped'
  <2>1. offset' = offset /\ adjudications' = adjudications
    BY DEF FeedStep, group, endpoint
  <2> SUFFICES ASSUME NEW p \in Partitions, NEW n \in 1 .. offset[p]
               PROVE  Adjudicated(topic[p][n])'
    BY <2>1 DEF NothingSkipped
  <2>2. topic'[p][n] = topic[p][n] /\ Adjudicated(topic[p][n])
    BY <1>5 DEF SubmissionInv, NothingSkipped
  <2> QED BY <2>1, <2>2 DEF Adjudicated, HasFinal, HasAgent
<1>8. SeededSpared' /\ HistoryUntouched'
  BY DEF SubmissionInv, SeededSpared, HistoryUntouched, FeedStep, group, endpoint
<1> QED BY <1>2, <1>3, <1>6, <1>7, <1>8 DEF SubmissionInv

\* The intake adds claims at the end of the feed.
LEMMA InsertBacklogKeeps ==
    ASSUME SubmissionInv, NEW backlog \in SUBSET (Claims \ Seeded), InsertBacklog(backlog)
    PROVE  SubmissionInv'
<1>1. TypeOK /\ BatchKept
  BY DEF SubmissionInv
<1> DEFINE fresh == backlog \ Submitted
<1>2. PICK new \in [1 .. Cardinality(fresh) -> fresh] : cdf' = cdf \o new
  BY DEF InsertBacklog
<1>3. UNCHANGED <<producer, topic, group, endpoint, bounds>>
  BY DEF InsertBacklog
<1>4. cdf' \in Seq(Claims) /\ Len(cdf) <= Len(cdf') /\ Len(cdf') \in Nat
      /\ \A n \in 1 .. Len(cdf) : cdf'[n] = cdf[n]
  <2>1. Cardinality(fresh) \in Nat /\ fresh \subseteq Claims
    <3>1. IsFiniteSet(fresh) /\ fresh \subseteq Claims
      BY FS_Subset, SubmissionAssumption DEF SubmissionAssumption
    <3> QED BY <3>1, FS_CardinalityType
  <2> HIDE DEF fresh
  <2>2. new \in [1 .. Cardinality(fresh) -> Claims]
    BY <1>2, <2>1
  <2>3. new \in Seq(Claims)
    BY <2>1, <2>2, SeqDef
  <2>4. /\ cdf \o new \in Seq(Claims) /\ Len(cdf \o new) = Len(cdf) + Len(new)
        /\ \A i \in 1 .. Len(cdf) + Len(new) :
             (cdf \o new)[i] = IF i <= Len(cdf) THEN cdf[i] ELSE new[i - Len(cdf)]
    BY <1>1, <2>3, FeedType, ConcatProperties
  <2>5. Len(new) \in Nat /\ Len(cdf) \in Nat
    BY <1>1, <2>3, FeedType, LenProperties
  <2> QED BY <1>2, <2>4, <2>5
<1>5. FeedStep
  <2>1. /\ producer' \in [checkpoint : Nat, batch : Nat, unsent : SUBSET (1 .. Len(cdf'))]
    BY <1>1, <1>3, <1>4, FeedType
  <2>2. runner' \subseteq Claims \ Seeded
    BY DEF InsertBacklog
  <2>3. BatchKept'
    <3>1. /\ \A n \in 1 .. producer.checkpoint : OnTopic(topic, cdf'[n])
          /\ \A n \in 1 .. producer.batch : n \in producer.unsent \/ OnTopic(topic, cdf'[n])
      BY <1>1, <1>4, FeedType DEF BatchKept
    <3>2. producer.checkpoint <= producer.batch /\ producer.batch <= Len(cdf')
      BY <1>1, <1>4, FeedType DEF BatchKept
    <3> QED BY <1>3, <3>1, <3>2 DEF BatchKept
  <2> QED BY <1>1, <1>3, <1>4, <2>1, <2>2, <2>3, TopicType DEF FeedStep, TypeOK, bounds
<1> QED BY <1>5, FeedStepKeeps

\* A runner that stops takes nothing with it.
LEMMA StopRunnerKeeps ==
    ASSUME SubmissionInv, StopRunner
    PROVE  SubmissionInv'
<1>1. TypeOK /\ BatchKept
  BY DEF SubmissionInv
<1>2. FeedStep
  BY <1>1, TopicType DEF FeedStep, StopRunner, BatchKept, TypeOK, feed, bounds
<1> QED BY <1>2, FeedStepKeeps

\* A step of the producer that leaves the topic alone.
LEMMA ProducerStepKeeps ==
    ASSUME SubmissionInv, BatchKept',
           producer' \in [checkpoint : Nat, batch : Nat, unsent : SUBSET (1 .. Len(cdf))],
           stops' \in 0 .. MaxStops,
           UNCHANGED <<cdf, topic, group, runner, endpoint, abandoned>>
    PROVE  SubmissionInv'
<1>1. TypeOK /\ runner \subseteq Claims \ Seeded
  BY DEF SubmissionInv, SeededSpared, TypeOK
<1>2. cdf' \in Seq(Claims) /\ topic' \in [Partitions -> Seq(Claims)]
  BY <1>1 DEF TypeOK
<1>3. FeedStep
  BY <1>1, <1>2, TopicType DEF FeedStep
<1> QED BY <1>3, FeedStepKeeps

\* The producer plans, emits, commits and restarts.
LEMMA ProducerKeeps ==
    ASSUME SubmissionInv, PlanBatch \/ CommitBatch \/ RestartProducer
    PROVE  SubmissionInv'
<1> DEFINE checkpoint == producer.checkpoint
           batch == producer.batch
<1>1. TypeOK /\ BatchKept
  BY DEF SubmissionInv
<1>2. /\ checkpoint \in Nat /\ batch \in Nat /\ Len(cdf) \in Nat
      /\ checkpoint <= batch /\ batch <= Len(cdf)
      /\ producer.unsent \subseteq 1 .. Len(cdf)
      /\ producer = [checkpoint |-> checkpoint, batch |-> batch, unsent |-> producer.unsent]
      /\ \A n \in 1 .. checkpoint : OnTopic(topic, cdf[n])
      /\ \A n \in 1 .. batch : n \in producer.unsent \/ OnTopic(topic, cdf[n])
  BY <1>1, FeedType DEF BatchKept
<1>3. stops \in 0 .. MaxStops /\ MaxStops \in Nat
  BY <1>1, SubmissionAssumption DEF TypeOK, SubmissionAssumption
<1>4. CASE PlanBatch
  <2>1. producer' = [checkpoint |-> checkpoint, batch |-> Len(cdf),
                     unsent |-> checkpoint + 1 .. Len(cdf)]
    BY <1>2, <1>4 DEF PlanBatch
  <2>2. UNCHANGED <<cdf, topic, group, runner, endpoint, bounds>>
    BY <1>4 DEF PlanBatch
  <2>3. BatchKept'
    BY <1>2, <2>1, <2>2 DEF BatchKept
  <2>4. producer' \in [checkpoint : Nat, batch : Nat, unsent : SUBSET (1 .. Len(cdf))]
    BY <1>2, <2>1
  <2> QED BY <1>3, <2>2, <2>3, <2>4, ProducerStepKeeps DEF bounds
<1>5. CASE CommitBatch
  <2>1. producer' = [checkpoint |-> batch, batch |-> batch, unsent |-> {}]
    BY <1>2, <1>5 DEF CommitBatch
  <2>2. UNCHANGED <<cdf, topic, group, runner, endpoint, bounds>> /\ producer.unsent = {}
    BY <1>5 DEF CommitBatch
  <2>3. BatchKept'
    BY <1>2, <2>1, <2>2 DEF BatchKept
  <2>4. producer' \in [checkpoint : Nat, batch : Nat, unsent : SUBSET (1 .. Len(cdf))]
    BY <1>2, <2>1
  <2> QED BY <1>3, <2>2, <2>3, <2>4, ProducerStepKeeps DEF bounds
<1>6. CASE RestartProducer
  <2>1. producer' = [checkpoint |-> checkpoint, batch |-> batch, unsent |-> checkpoint + 1 .. batch]
    BY <1>2, <1>6 DEF RestartProducer
  <2>2. UNCHANGED <<cdf, topic, group, runner, endpoint, abandoned>>
    BY <1>6 DEF RestartProducer
  <2>3. BatchKept'
    BY <1>2, <2>1, <2>2 DEF BatchKept
  <2>4. producer' \in [checkpoint : Nat, batch : Nat, unsent : SUBSET (1 .. Len(cdf))]
    BY <1>2, <2>1
  <2>5. stops' \in 0 .. MaxStops
    BY <1>3, <1>6 DEF RestartProducer, Stop
  <2> QED BY <2>2, <2>3, <2>4, <2>5, ProducerStepKeeps
<1> QED BY <1>4, <1>5, <1>6

\* The row goes to the end of its key's partition, and nowhere else.
LEMMA EmitKeeps ==
    ASSUME SubmissionInv, NEW n \in DOMAIN cdf, Emit(n)
    PROVE  SubmissionInv'
<1> DEFINE c == cdf[n]
           p == PartitionOf[c]
           longer == Append(topic[p], c)
<1>1. TypeOK /\ BatchKept /\ runner \subseteq Claims \ Seeded
  BY DEF SubmissionInv, SeededSpared, TypeOK
<1>2. c \in Claims /\ p \in Partitions /\ topic[p] \in Seq(Claims)
  BY <1>1, FeedType, TopicType
<1>3. /\ topic' = [topic EXCEPT ![p] = longer]
      /\ UNCHANGED <<cdf, group, runner, endpoint, bounds>>
  BY DEF Emit
<1> HIDE DEF c, p
<1>4. /\ longer \in Seq(Claims) /\ Len(longer) = Len(topic[p]) + 1
      /\ \A i \in 1 .. Len(topic[p]) : longer[i] = topic[p][i]
      /\ longer[Len(topic[p]) + 1] = c
  BY <1>2, AppendProperties
<1>5. /\ DOMAIN longer = 1 .. Len(topic[p]) + 1
      /\ \A q \in Partitions : DOMAIN topic[q] = 1 .. Len(topic[q]) /\ Len(topic[q]) \in Nat
  BY <1>1, <1>4, LenProperties, TopicType
<1> HIDE DEF longer
<1>6. topic \in [Partitions -> Seq(Claims)]
  BY <1>1 DEF TypeOK
<1>7. topic' \in [Partitions -> Seq(Claims)]
  BY <1>2, <1>3, <1>4, <1>6
<1>8. topic'[p] = longer /\ \A q \in Partitions : q # p => topic'[q] = topic[q]
  BY <1>2, <1>3, <1>6
<1>9. ASSUME NEW q \in Partitions
      PROVE  /\ Len(topic[q]) <= Len(topic'[q])
             /\ \A i \in 1 .. Len(topic[q]) : topic'[q][i] = topic[q][i]
  <2>1. CASE q = p
    BY <2>1, <1>4, <1>5, <1>8
  <2>2. CASE q # p
    BY <2>2, <1>5, <1>8
  <2> QED BY <2>1, <2>2
<1>10. ASSUME NEW d \in Claims, OnTopic(topic, d)
       PROVE  OnTopic(topic', d)
  <2>1. PartitionOf[d] \in Partitions
    BY SubmissionAssumption DEF SubmissionAssumption
  <2>2. PICK m \in DOMAIN topic[PartitionOf[d]] : topic[PartitionOf[d]][m] = d
    BY <1>10 DEF OnTopic
  <2>3. CASE PartitionOf[d] = p
    BY <2>2, <2>3, <1>4, <1>5, <1>2, <1>8 DEF OnTopic
  <2>4. CASE PartitionOf[d] # p
    BY <2>1, <2>2, <2>4, <1>8 DEF OnTopic
  <2> QED BY <2>3, <2>4
<1>11. OnTopic(topic', c)
  BY <1>2, <1>4, <1>5, <1>8 DEF OnTopic, p
<1>12. /\ producer' \in [checkpoint : Nat, batch : Nat, unsent : SUBSET (1 .. Len(cdf))]
       /\ producer'.checkpoint = producer.checkpoint /\ producer'.batch = producer.batch
       /\ producer'.unsent = producer.unsent \ {n}
  BY <1>1, FeedType DEF Emit
<1>13. BatchKept'
  <2>1. /\ producer.checkpoint <= producer.batch /\ producer.batch <= Len(cdf)
        /\ \A m \in 1 .. producer.batch : m \in 1 .. Len(cdf)
        /\ \A m \in 1 .. producer.checkpoint : m \in 1 .. Len(cdf)
        /\ \A m \in 1 .. Len(cdf) : cdf[m] \in Claims
    BY <1>1, FeedType DEF BatchKept
  <2>2. \A m \in 1 .. producer.checkpoint : OnTopic(topic', cdf[m])
    BY <1>1, <1>10, <2>1 DEF BatchKept
  <2>3. \A m \in 1 .. producer.batch : m \in producer'.unsent \/ OnTopic(topic', cdf[m])
    BY <1>1, <1>10, <1>11, <1>12, <2>1 DEF BatchKept, c
  <2> QED BY <1>3, <1>12, <2>1, <2>2, <2>3 DEF BatchKept
<1>14. FeedStep
  BY <1>1, <1>3, <1>7, <1>9, <1>12, <1>13 DEF FeedStep, TypeOK, bounds
<1> QED BY <1>14, FeedStepKeeps

-----------------------------------------------------------------------------
(* The worker, the runner's invocations and the endpoint *)

\* What a step beside the feed may do: an offset moves past a message that is handled,
\* and an adjudication that is there stays.
GroupStep ==
    /\ UNCHANGED feed
    /\ offset' \in [Partitions -> Nat]
    /\ worker' \in {Idle} \cup InHand
    /\ runner' \subseteq Claims
    /\ calls' \in [Calls -> {Free} \cup Call]
    /\ deployed' \in Sources
    /\ adjudications' \in [Claims -> [Sources -> Statuses]]
    /\ stops' \in 0 .. MaxStops /\ abandoned' \in 0 .. MaxAbandoned
    /\ \A c \in Claims, s \in Sources :
         adjudications[c][s] # "ABSENT" => adjudications'[c][s] # "ABSENT"
    /\ \A p \in Partitions :
         \/ offset'[p] = offset[p]
         \/ offset'[p] = offset[p] + 1 /\ worker.stage = "handled" /\ worker.partition = p
    /\ HandKept' /\ SeededSpared' /\ HistoryUntouched'

\* An adjudication once written stays.
LEMMA AdjudicatedStays ==
    ASSUME \A c \in Claims, s \in Sources :
             adjudications[c][s] # "ABSENT" => adjudications'[c][s] # "ABSENT",
           NEW c \in Claims, Adjudicated(c)
    PROVE  Adjudicated(c)'
<1>1. c \in Seeded \/ \E s \in Sources : adjudications[c][s] # "ABSENT"
  BY AdjudicatedBy
<1>2. c \in Seeded \/ \E s \in Sources : adjudications'[c][s] # "ABSENT"
  BY <1>1
<1> QED BY <1>2 DEF Adjudicated, HasFinal, HasAgent

\* A step of the worker or of an invocation, likewise.
LEMMA GroupStepKeeps ==
    ASSUME SubmissionInv, GroupStep
    PROVE  SubmissionInv'
<1>1. TypeOK
  BY DEF SubmissionInv
<1>2. TypeOK'
  BY <1>1 DEF TypeOK, GroupStep, feed
<1>3. BatchKept'
  BY DEF SubmissionInv, BatchKept, GroupStep, feed
<1>4. ASSUME NEW p \in Partitions, NEW n \in 1 .. offset'[p]
      PROVE  Adjudicated(topic[p][n])'
  <2>1. /\ offset[p] \in Nat /\ offset[p] <= Len(topic[p]) /\ Len(topic[p]) \in Nat
        /\ \A i \in 1 .. Len(topic[p]) : topic[p][i] \in Claims
    BY <1>1, TopicType DEF SubmissionInv, HandKept
  <2>2. CASE n \in 1 .. offset[p]
    <3>1. topic[p][n] \in Claims /\ Adjudicated(topic[p][n])
      BY <2>1, <2>2 DEF SubmissionInv, NothingSkipped
    <3>2. PICK c \in Claims : c = topic[p][n] /\ Adjudicated(c)'
      BY <3>1, AdjudicatedStays DEF GroupStep
    <3>3. topic' = topic
      BY DEF GroupStep, feed
    <3> QED BY <3>2, <3>3 DEF Adjudicated, HasFinal, HasAgent
  <2>3. CASE n = offset[p] + 1 /\ worker.stage = "handled" /\ worker.partition = p
    <3>1. topic[p][n] = worker.claim /\ worker.claim \in Claims /\ Adjudicated(worker.claim)
      BY <1>1, <2>3, HandType DEF SubmissionInv, HandKept
    <3>2. PICK c \in Claims : c = topic[p][n] /\ Adjudicated(c)'
      BY <3>1, AdjudicatedStays DEF GroupStep
    <3>3. topic' = topic
      BY DEF GroupStep, feed
    <3> QED BY <3>2, <3>3 DEF Adjudicated, HasFinal, HasAgent
  <2>4. \/ offset'[p] = offset[p]
        \/ offset'[p] = offset[p] + 1 /\ worker.stage = "handled" /\ worker.partition = p
    BY DEF GroupStep
  <2> QED BY <2>1, <2>2, <2>3, <2>4
<1>5. NothingSkipped'
  BY <1>4 DEF NothingSkipped
<1> QED BY <1>2, <1>3, <1>5 DEF SubmissionInv, GroupStep

\* The lookup handles a claim only if it is adjudicated.
LEMMA LookupKeeps ==
    ASSUME SubmissionInv, NEW p \in Partitions, Lookup(p)
    PROVE  SubmissionInv'
<1>1. TypeOK /\ HandKept /\ worker = Idle /\ worker.stage = "idle"
  BY DEF SubmissionInv, Lookup, Idle
<1> DEFINE c == topic[p][offset[p] + 1]
           stage == IF DedupDecision(c) THEN "adjudicate" ELSE "handled"
<1>2. offset[p] < Len(topic[p]) /\ c \in Claims
  <2>1. offset[p] < Len(topic[p])
    BY DEF Lookup
  <2>2. offset[p] + 1 \in 1 .. Len(topic[p])
    BY <1>1, <2>1, TopicType
  <2> QED BY <1>1, <2>1, <2>2, TopicType
<1>3. /\ worker' = [stage |-> stage, partition |-> p, claim |-> c]
      /\ UNCHANGED <<feed, offset, runner, endpoint, bounds>>
  BY DEF Lookup
<1>4. /\ stage = "adjudicate" => c \notin Seeded
      /\ stage = "handled" => Adjudicated(c)
  BY DEF DedupDecision, Adjudicated, HasFinal
<1> HIDE DEF c, stage
<1>5. stage \in {"adjudicate", "handled"}
  BY DEF stage
<1>6. /\ worker'.stage = stage /\ worker'.partition = p /\ worker'.claim = c
      /\ worker' \in InHand
  BY <1>2, <1>3, <1>5 DEF InHand
<1>7. \A k \in Calls : calls[k].caller # "worker"
  BY <1>1 DEF HandKept
<1>8. HandKept'
  <2>1. stage = "handled" => Adjudicated(worker.claim)'
    BY <1>3, <1>4, <1>6 DEF Adjudicated, HasFinal, HasAgent, endpoint
  <2> QED BY <1>1, <1>2, <1>3, <1>5, <1>6, <1>7, <2>1 DEF HandKept, feed, endpoint, c
<1>9. SeededSpared' /\ HistoryUntouched'
  BY <1>3, <1>4, <1>5, <1>6 DEF SubmissionInv, SeededSpared, HistoryUntouched, endpoint
<1>10. GroupStep
  BY <1>1, <1>3, <1>6, <1>8, <1>9 DEF GroupStep, TypeOK, endpoint, bounds
<1> QED BY <1>10, GroupStepKeeps

\* The message in hand leaves it, with its offset committed or not.
LEMMA HandEmptied ==
    ASSUME SubmissionInv, Commit \/ RestartWorker
    PROVE  SubmissionInv'
<1>1. TypeOK /\ HandKept /\ worker.stage \in {"adjudicate", "handled"}
  BY DEF SubmissionInv, Commit, RestartWorker
<1>2. /\ worker.partition \in Partitions
      /\ offset[worker.partition] < Len(topic[worker.partition])
  BY <1>1, HandType DEF HandKept
<1>3. worker' = Idle /\ worker'.stage = "idle" /\ UNCHANGED <<feed, runner, endpoint, abandoned>>
  BY DEF Commit, RestartWorker, Idle, bounds
<1>4. stops' \in 0 .. MaxStops
  BY <1>1, SubmissionAssumption
  DEF Commit, RestartWorker, Stop, bounds, TypeOK, SubmissionAssumption
<1>5. /\ offset' \in [Partitions -> Nat]
      /\ \A p \in Partitions :
           \/ offset'[p] = offset[p]
           \/ offset'[p] = offset[p] + 1 /\ worker.stage = "handled" /\ worker.partition = p
  BY <1>1, <1>2 DEF Commit, RestartWorker, TypeOK
<1>6. \A p \in Partitions : offset'[p] <= Len(topic[p])
  BY <1>1, <1>2, <1>5, TopicType DEF HandKept
<1>7. \A k \in Calls : calls[k].caller # "worker"
  BY <1>1 DEF HandKept
<1>8. HandKept' /\ SeededSpared' /\ HistoryUntouched'
  BY <1>3, <1>6, <1>7
  DEF SubmissionInv, HandKept, SeededSpared, HistoryUntouched, feed, endpoint
<1>9. GroupStep
  BY <1>1, <1>3, <1>4, <1>5, <1>8 DEF GroupStep, TypeOK, endpoint
<1> QED BY <1>9, GroupStepKeeps

\* A request for a claim that is not of the seeded history.
LEMMA InvokeKeeps ==
    ASSUME SubmissionInv, NEW k \in Calls, RunnerInvoke(k) \/ WorkerInvoke(k)
    PROVE  SubmissionInv'
<1>1. TypeOK /\ HandKept /\ SeededSpared /\ calls[k] = Free
  BY DEF SubmissionInv, RunnerInvoke, WorkerInvoke
<1>2. calls \in [Calls -> {Free} \cup Call] /\ deployed \in Sources
  BY <1>1 DEF TypeOK
<1>3. CASE RunnerInvoke(k)
  <2>1. PICK c \in runner : Invoked(k, "runner", c) /\ runner' = runner \ {c}
    BY <1>3 DEF RunnerInvoke
  <2> DEFINE call == [caller |-> "runner", claim |-> c, source |-> deployed]
  <2>2. call \in Call /\ call.caller = "runner" /\ call.claim = c /\ c \notin Seeded
    BY <1>1, <1>2, <2>1 DEF Call, TypeOK, SeededSpared
  <2>3. calls' = [calls EXCEPT ![k] = call]
    BY <2>1 DEF Invoked
  <2> HIDE DEF call
  <2>4. /\ calls' \in [Calls -> {Free} \cup Call] /\ calls'[k] = call
        /\ \A j \in Calls : j # k => calls'[j] = calls[j]
    BY <1>2, <2>2, <2>3
  <2>5. UNCHANGED <<feed, group, deployed, adjudications, bounds>>
    BY <1>3 DEF RunnerInvoke
  <2>6. \A j \in Calls : calls'[j].caller = "worker" => calls'[j] = calls[j]
    BY <2>2, <2>4
  <2>7. HandKept'
    BY <1>1, <2>2, <2>4, <2>5, <2>6
    DEF HandKept, feed, group, Adjudicated, HasFinal, HasAgent
  <2>8. SeededSpared' /\ HistoryUntouched'
    BY <1>1, <2>1, <2>2, <2>4, <2>5
    DEF SubmissionInv, SeededSpared, HistoryUntouched, group
  <2>9. GroupStep
    BY <1>1, <2>1, <2>4, <2>5, <2>7, <2>8 DEF GroupStep, TypeOK, group, bounds
  <2> QED BY <2>9, GroupStepKeeps
<1>4. CASE WorkerInvoke(k)
  <2> DEFINE c == worker.claim
             call == [caller |-> "worker", claim |-> c, source |-> deployed]
  <2>1. /\ worker.stage = "adjudicate" /\ worker \in InHand
        /\ c \in Claims /\ c \notin Seeded /\ worker.partition \in Partitions
        /\ worker' = [stage |-> "invoking", partition |-> worker.partition, claim |-> c]
    BY <1>1, <1>4, HandType DEF WorkerInvoke, SeededSpared, Idle
  <2>2. call \in Call /\ call.caller = "worker" /\ call.claim = c
    BY <1>2, <2>1 DEF Call
  <2>3. calls' = [calls EXCEPT ![k] = call]
    BY <1>4 DEF WorkerInvoke, Invoked
  <2> HIDE DEF call
  <2>4. /\ calls' \in [Calls -> {Free} \cup Call] /\ calls'[k] = call
        /\ \A j \in Calls : j # k => calls'[j] = calls[j]
    BY <1>2, <2>2, <2>3
  <2>5. UNCHANGED <<feed, offset, runner, deployed, adjudications, bounds>>
    BY <1>4 DEF WorkerInvoke
  <2>6. \A j \in Calls : calls[j].caller # "worker"
    BY <1>1, <2>1 DEF HandKept
  <2>7. /\ worker'.stage = "invoking" /\ worker'.partition = worker.partition
        /\ worker'.claim = c /\ worker' \in InHand
    BY <2>1 DEF InHand
  <2>8. HandKept'
    BY <1>1, <2>1, <2>2, <2>4, <2>5, <2>6, <2>7 DEF HandKept, feed
  <2>9. SeededSpared' /\ HistoryUntouched'
    BY <1>1, <2>1, <2>2, <2>4, <2>5, <2>7 DEF SubmissionInv, SeededSpared, HistoryUntouched
  <2>10. GroupStep
    BY <1>1, <2>4, <2>5, <2>7, <2>8, <2>9 DEF GroupStep, TypeOK, bounds
  <2> QED BY <2>10, GroupStepKeeps
<1> QED BY <1>3, <1>4

\* A reply reaches the worker if it waits for it: the worker goes on to the commit, its
\* claim adjudicated, or gives the message up.
LEMMA ReplyKeepsHand ==
    ASSUME SubmissionInv, NEW k \in Calls, calls[k] # Free,
           NEW stage \in {"handled", "failed"}, worker' = WorkerAfter(k, stage),
           calls'[k].caller # "worker",
           \A j \in Calls : j # k => calls'[j] = calls[j],
           UNCHANGED <<topic, offset>>,
           \A c \in Claims : Adjudicated(c) => Adjudicated(c)',
           \A c \in Claims : stage = "handled" /\ c = calls[k].claim => Adjudicated(c)'
    PROVE  /\ HandKept' /\ worker' \in {Idle} \cup InHand
           /\ worker'.stage \in {"adjudicate", "invoking"} => worker' = worker
<1>1. TypeOK /\ HandKept
  BY DEF SubmissionInv
<1>2. calls[k].caller \in {"worker", "runner", "gone"} /\ calls[k].claim \in Claims
  BY <1>1, CallType
<1>3. CASE calls[k].caller # "worker"
  <2>1. worker' = worker
    BY <1>3 DEF WorkerAfter
  <2>2. \A j \in Calls : calls'[j].caller = "worker" => calls'[j] = calls[j]
    OBVIOUS
  <2>3. worker'.stage = "handled" => Adjudicated(worker.claim)'
    <3>1. ASSUME worker.stage = "handled"
          PROVE  worker.claim \in Claims /\ Adjudicated(worker.claim)
      BY <1>1, <3>1, HandType DEF HandKept
    <3>2. ASSUME worker.stage = "handled"
          PROVE  Adjudicated(worker.claim)'
      <4>1. PICK c \in Claims : c = worker.claim /\ Adjudicated(c)'
        BY <3>1, <3>2
      <4> QED BY <2>1, <4>1 DEF Adjudicated, HasFinal, HasAgent
    <3> QED BY <2>1, <3>2
  <2>4. HandKept'
    BY <1>1, <2>1, <2>2, <2>3 DEF HandKept
  <2> QED BY <1>1, <2>1, <2>4 DEF TypeOK
<1>4. CASE calls[k].caller = "worker"
  <2>1. /\ worker.stage = "invoking" /\ worker.claim = calls[k].claim
        /\ worker \in InHand /\ worker.partition \in Partitions
        /\ \A st : [worker EXCEPT !.stage = st] =
             [stage |-> st, partition |-> worker.partition, claim |-> worker.claim]
    BY <1>1, <1>4, HandType DEF HandKept, Idle
  <2>2. \A j \in Calls : calls'[j].caller # "worker"
    BY <1>1, <1>4 DEF HandKept
  <2>3. CASE stage = "handled"
    <3>1. worker' = [stage |-> "handled", partition |-> worker.partition, claim |-> worker.claim]
      BY <1>4, <2>1, <2>3 DEF WorkerAfter
    <3>2. /\ worker'.stage = "handled" /\ worker'.partition = worker.partition
          /\ worker'.claim = worker.claim /\ worker' \in InHand
      BY <1>2, <2>1, <3>1 DEF InHand
    <3>3. Adjudicated(worker.claim)'
      <4>1. PICK c \in Claims : c = calls[k].claim /\ Adjudicated(c)'
        BY <1>2, <2>3
      <4> QED BY <2>1, <3>2, <4>1 DEF Adjudicated, HasFinal, HasAgent
    <3> QED BY <1>1, <2>1, <2>2, <3>2, <3>3 DEF HandKept
  <2>4. CASE stage = "failed"
    <3>1. worker' = Idle /\ worker'.stage = "idle"
      BY <1>4, <2>4 DEF WorkerAfter, Idle
    <3> QED BY <1>1, <2>2, <3>1 DEF HandKept
  <2> QED BY <2>3, <2>4
<1> QED BY <1>3, <1>4

\* What becomes of an invocation: it is over, or nobody waits for it any longer.
LEMMA ReplyKeeps ==
    ASSUME SubmissionInv, NEW k \in Calls, calls[k] # Free,
           NEW stage \in {"handled", "failed"}, worker' = WorkerAfter(k, stage),
           NEW call \in {Free} \cup Call, calls' = [calls EXCEPT ![k] = call],
           call = Free \/ (call.caller = "gone" /\ call.claim = calls[k].claim),
           UNCHANGED <<feed, offset, runner, deployed>>,
           adjudications' \in [Claims -> [Sources -> Statuses]],
           stops' \in 0 .. MaxStops, abandoned' \in 0 .. MaxAbandoned,
           \A c \in Claims, s \in Sources :
             adjudications[c][s] # "ABSENT" => adjudications'[c][s] # "ABSENT",
           \A c \in Claims : c # calls[k].claim => adjudications'[c] = adjudications[c],
           \A c \in Claims : stage = "handled" /\ c = calls[k].claim => Adjudicated(c)'
    PROVE  SubmissionInv'
<1>1. TypeOK /\ SeededSpared /\ HistoryUntouched
  BY DEF SubmissionInv
<1>2. calls[k].claim \in Claims /\ calls[k].claim \notin Seeded
  BY <1>1, CallType DEF SeededSpared
<1>3. calls \in [Calls -> {Free} \cup Call]
  BY <1>1 DEF TypeOK
<1>4. /\ calls' \in [Calls -> {Free} \cup Call] /\ calls'[k] = call
      /\ \A j \in Calls : j # k => calls'[j] = calls[j]
  BY <1>3
<1>5. calls'[k].caller # "worker"
  BY <1>4 DEF Free
<1>6. \A c \in Claims : Adjudicated(c) => Adjudicated(c)'
  BY AdjudicatedStays
<1>7. UNCHANGED <<topic, offset>>
  BY DEF feed
<1>8. /\ HandKept' /\ worker' \in {Idle} \cup InHand
      /\ worker'.stage \in {"adjudicate", "invoking"} => worker' = worker
  BY <1>4, <1>5, <1>6, <1>7, ReplyKeepsHand
<1>9. SeededSpared'
  BY <1>1, <1>2, <1>4, <1>8 DEF SeededSpared
<1>10. HistoryUntouched'
  <2>1. Seeded \subseteq Claims
    BY SubmissionAssumption DEF SubmissionAssumption
  <2> QED BY <1>1, <1>2, <2>1 DEF HistoryUntouched
<1>11. GroupStep
  BY <1>1, <1>4, <1>8, <1>9, <1>10 DEF GroupStep, TypeOK
<1> QED BY <1>11, GroupStepKeeps

\* An invocation that finishes leaves its claim adjudicated.
LEMMA FinishCallKeeps ==
    ASSUME SubmissionInv, NEW k \in Calls, FinishCall(k)
    PROVE  SubmissionInv'
<1> DEFINE c == calls[k].claim
           s == calls[k].source
           status == IF adjudications[c][s] = "ABSENT" THEN "RECOMMENDED" ELSE adjudications[c][s]
<1>1. TypeOK /\ calls[k] # Free
  BY DEF SubmissionInv, FinishCall
<1>2. c \in Claims /\ s \in Sources
  BY <1>1, CallType
<1>3. adjudications \in [Claims -> [Sources -> Statuses]] /\ adjudications[c] \in [Sources -> Statuses]
  BY <1>1, <1>2 DEF TypeOK
<1>4. adjudications' = [adjudications EXCEPT ![c] = [adjudications[c] EXCEPT ![s] = status]]
  BY DEF FinishCall
<1>5. status \in Statuses /\ status # "ABSENT"
  BY <1>2, <1>3 DEF Statuses
<1> HIDE DEF c, s, status
<1>6. /\ adjudications' \in [Claims -> [Sources -> Statuses]]
      /\ adjudications'[c][s] = status
      /\ \A d \in Claims : d # c => adjudications'[d] = adjudications[d]
      /\ \A d \in Claims, r \in Sources :
           adjudications[d][r] # "ABSENT" => adjudications'[d][r] # "ABSENT"
  BY <1>2, <1>3, <1>4, <1>5
<1>7. \A d \in Claims : d = c => Adjudicated(d)'
  BY <1>2, <1>5, <1>6 DEF Adjudicated, HasAgent
<1>8. /\ calls' = [calls EXCEPT ![k] = Free] /\ worker' = WorkerAfter(k, "handled")
      /\ UNCHANGED <<feed, offset, runner, deployed, bounds>>
  BY DEF FinishCall
<1>9. stops' \in 0 .. MaxStops /\ abandoned' \in 0 .. MaxAbandoned
  BY <1>1, <1>8 DEF TypeOK, bounds
<1> QED BY <1>1, <1>6, <1>7, <1>8, <1>9, ReplyKeeps DEF c

\* No adjudication is written for a caller that gets an error, or goes away.
LEMMA NoReplyKeeps ==
    ASSUME SubmissionInv, NEW k \in Calls, FailCall(k) \/ AbandonCall(k)
    PROVE  SubmissionInv'
<1>1. TypeOK /\ calls \in [Calls -> {Free} \cup Call]
      /\ stops \in 0 .. MaxStops /\ abandoned \in 0 .. MaxAbandoned
      /\ adjudications \in [Claims -> [Sources -> Statuses]]
  BY DEF SubmissionInv, TypeOK
<1>2. /\ calls[k] \in Call /\ calls[k] # Free
      /\ calls[k].claim \in Claims /\ calls[k].source \in Sources
  BY <1>1, CallType DEF FailCall, AbandonCall, Free
<1>3. /\ worker' = WorkerAfter(k, "failed")
      /\ UNCHANGED <<feed, offset, runner, deployed, adjudications>>
  BY DEF FailCall, AbandonCall
<1>4. stops' \in 0 .. MaxStops /\ abandoned' \in 0 .. MaxAbandoned
  BY <1>1, SubmissionAssumption DEF FailCall, AbandonCall, Stop, Abandon, SubmissionAssumption
<1>5. PICK call \in {Free} \cup Call :
        /\ calls' = [calls EXCEPT ![k] = call]
        /\ call = Free \/ (call.caller = "gone" /\ call.claim = calls[k].claim)
  <2>1. CASE FailCall(k)
    BY <2>1 DEF FailCall
  <2>2. CASE AbandonCall(k)
    <3> DEFINE gone == [caller |-> "gone", claim |-> calls[k].claim, source |-> calls[k].source]
    <3>1. calls[k] = [caller |-> calls[k].caller, claim |-> calls[k].claim,
                      source |-> calls[k].source]
      BY <1>2 DEF Call
    <3>2. calls' = [calls EXCEPT ![k] = gone]
      <4>1. [calls[k] EXCEPT !.caller = "gone"] = gone
        BY <3>1
      <4>2. calls' = [calls EXCEPT ![k] = [calls[k] EXCEPT !.caller = "gone"]]
        BY <2>2 DEF AbandonCall
      <4> QED BY <4>1, <4>2
    <3>3. gone \in Call /\ gone.caller = "gone" /\ gone.claim = calls[k].claim
      BY <1>2 DEF Call
    <3> HIDE DEF gone
    <3> QED BY <3>2, <3>3
  <2> QED BY <2>1, <2>2
<1>6. \A c \in Claims, s \in Sources :
        adjudications[c][s] # "ABSENT" => adjudications'[c][s] # "ABSENT"
  BY <1>3
<1> QED BY <1>1, <1>2, <1>3, <1>4, <1>5, <1>6, ReplyKeeps

\* The worker and the runner do not see a deployment or an adjuster's decision.
LEMMA OthersKeep ==
    ASSUME SubmissionInv, (\E s \in Sources : Deploy(s)) \/ Adjusters
    PROVE  SubmissionInv'
<1>1. /\ TypeOK /\ HandKept /\ SeededSpared /\ HistoryUntouched
      /\ UNCHANGED <<feed, group, runner, calls, bounds>>
      /\ adjudications \in [Claims -> [Sources -> Statuses]]
  BY DEF SubmissionInv, Deploy, Adjusters, Finalize, TypeOK
<1>2. /\ deployed' \in Sources
      /\ adjudications' \in [Claims -> [Sources -> Statuses]]
      /\ \A c \in Claims, s \in Sources :
           (adjudications[c][s] = "ABSENT") <=> (adjudications'[c][s] = "ABSENT")
  <2>1. CASE \E s \in Sources : Deploy(s)
    BY <1>1, <2>1 DEF Deploy
  <2>2. CASE Adjusters
    <3>1. PICK c \in Claims, s \in Sources : Finalize(c, s)
      BY <2>2 DEF Adjusters
    <3>2. adjudications' = [adjudications EXCEPT ![c] = [adjudications[c] EXCEPT ![s] = "FINAL"]]
      BY <3>1 DEF Finalize
    <3>3. deployed' = deployed /\ adjudications[c][s] = "RECOMMENDED"
          /\ "FINAL" \in Statuses /\ adjudications[c] \in [Sources -> Statuses]
      BY <1>1, <3>1 DEF Finalize, Statuses
    <3> QED BY <1>1, <3>2, <3>3 DEF TypeOK
  <2> QED BY <2>1, <2>2
<1>3. \A c \in Claims : Adjudicated(c) => Adjudicated(c)'
  BY <1>2, AdjudicatedStays
<1>4. worker.stage = "handled" => Adjudicated(worker.claim)'
  <2>1. ASSUME worker.stage = "handled"
        PROVE  worker.claim \in Claims /\ Adjudicated(worker.claim)
    BY <1>1, <2>1, HandType DEF HandKept
  <2>2. ASSUME worker.stage = "handled"
        PROVE  Adjudicated(worker.claim)'
    <3>1. PICK c \in Claims : c = worker.claim /\ Adjudicated(c)'
      BY <1>3, <2>1, <2>2
    <3> QED BY <1>1, <3>1 DEF Adjudicated, HasFinal, HasAgent, group
  <2> QED BY <2>2
<1>5. HandKept'
  BY <1>1, <1>4 DEF HandKept, group, feed
<1>6. SeededSpared'
  BY <1>1 DEF SeededSpared, group
<1>7. HistoryUntouched'
  BY <1>1, <1>2, SubmissionAssumption DEF HistoryUntouched, SubmissionAssumption
<1>8. GroupStep
  BY <1>1, <1>2, <1>5, <1>6, <1>7 DEF GroupStep, TypeOK, group, bounds
<1> QED BY <1>8, GroupStepKeeps

-----------------------------------------------------------------------------
(* The theorems *)

\* Nothing is planned, emitted or in hand at first.
LEMMA InitInvariant ==
    Init => SubmissionInv
<1> SUFFICES ASSUME Init PROVE SubmissionInv
  OBVIOUS
<1>1. Seeded \subseteq Claims /\ MaxStops \in Nat /\ MaxAbandoned \in Nat
      /\ Cardinality(Seeded) \in Nat
  <2>1. Seeded \subseteq Claims /\ IsFiniteSet(Claims) /\ MaxStops \in Nat /\ MaxAbandoned \in Nat
    BY SubmissionAssumption DEF SubmissionAssumption
  <2> QED BY <2>1, FS_Subset, FS_CardinalityType
<1>2. cdf \in Seq(Claims) /\ Len(cdf) \in Nat
  <2>1. cdf \in [1 .. Cardinality(Seeded) -> Claims]
    BY <1>1 DEF Init
  <2>2. cdf \in Seq(Claims)
    BY <1>1, <2>1, SeqDef
  <2> QED BY <2>2, LenProperties
<1>3. /\ <<>> \in Seq(Claims) /\ Len(<<>>) = 0
  BY EmptySeq
<1>4. producer = [checkpoint |-> 0, batch |-> 0, unsent |-> {}]
  BY DEF Init
<1>5. worker.stage = "idle" /\ worker = Idle /\ \A k \in Calls : calls[k] = Free /\ calls[k].caller = "none"
  BY DEF Init, Idle, Free
<1>6. TypeOK
  BY <1>1, <1>2, <1>3, <1>4, <1>5 DEF Init, TypeOK, Statuses
<1>7. BatchKept
  BY <1>2, <1>4 DEF BatchKept
<1>8. HandKept /\ NothingSkipped /\ SeededSpared
  BY <1>3, <1>5 DEF Init, HandKept, NothingSkipped, SeededSpared
<1>9. HistoryUntouched
  BY <1>1 DEF Init, HistoryUntouched
<1> QED BY <1>6, <1>7, <1>8, <1>9 DEF SubmissionInv

\* No step breaks the invariant.
LEMMA NextInvariant ==
    SubmissionInv /\ [Next]_vars => SubmissionInv'
<1> SUFFICES ASSUME SubmissionInv, [Next]_vars PROVE SubmissionInv'
  OBVIOUS
<1>1. CASE \E backlog \in SUBSET (Claims \ Seeded) : InsertBacklog(backlog)
  BY <1>1, InsertBacklogKeeps
<1>2. CASE \E k \in Calls : RunnerInvoke(k)
  BY <1>2, InvokeKeeps
<1>3. CASE StopRunner
  BY <1>3, StopRunnerKeeps
<1>4. CASE Producer \/ RestartProducer
  BY <1>4, ProducerKeeps, EmitKeeps DEF Producer
<1>5. CASE Worker \/ RestartWorker
  BY <1>5, LookupKeeps, InvokeKeeps, HandEmptied DEF Worker
<1>6. CASE \E k \in Calls : FinishCall(k) \/ FailCall(k) \/ AbandonCall(k)
  BY <1>6, FinishCallKeeps, NoReplyKeeps
<1>7. CASE (\E s \in Sources : Deploy(s)) \/ Adjusters
  BY <1>7, OthersKeep
<1>8. CASE UNCHANGED vars
  BY <1>8 DEF vars, feed, group, endpoint, bounds, SubmissionInv, TypeOK, BatchKept, HandKept,
              NothingSkipped, SeededSpared, HistoryUntouched, Adjudicated, HasFinal, HasAgent
<1> QED BY <1>1, <1>2, <1>3, <1>4, <1>5, <1>6, <1>7, <1>8 DEF Next

\* The invariant holds in every reachable state: what is in hand, planned or asked for
\* follows from what is committed.
THEOREM Invariance == Spec => []SubmissionInv
<1> QED BY InitInvariant, NextInvariant, PTL DEF Spec

\* Every variable keeps its table's, log's or job's shape.
THEOREM TypeCorrect == Spec => []TypeOK
<1>1. SubmissionInv => TypeOK
  BY DEF SubmissionInv
<1> QED BY <1>1, Invariance, PTL

\* No committed offset passes over a claim that is not adjudicated.
THEOREM NothingIsSkipped == Spec => []NothingSkipped
<1>1. SubmissionInv => NothingSkipped
  BY DEF SubmissionInv
<1> QED BY <1>1, Invariance, PTL

\* Whatever the producer's checkpoint has passed is on the topic.
THEOREM NothingIsLost == Spec => []NothingLost
<1>1. SubmissionInv => NothingLost
  BY DEF SubmissionInv, BatchKept, OnTopic, NothingLost
<1> QED BY <1>1, Invariance, PTL

\* No adjudication is written for a claim of the seeded history.
THEOREM HistoryIsUntouched == Spec => []HistoryUntouched
<1>1. SubmissionInv => HistoryUntouched
  BY DEF SubmissionInv
<1> QED BY <1>1, Invariance, PTL

-----------------------------------------------------------------------------
(* The worker alone *)

\* Only the worker asks the endpoint, and nobody has adjudicated the claim it asks for.
WorkerAlone ==
    /\ runner = {}
    /\ \A k \in Calls : calls[k].caller \in {"none", "worker"}
    /\ worker.stage \in {"adjudicate", "invoking"} => ~HasAgent(worker.claim)

\* The digests of a claim's adjudications are one.
OneDigest ==
    \A c \in Claims : \A s, t \in Sources :
      adjudications[c][s] # "ABSENT" /\ adjudications[c][t] # "ABSENT" => s = t

\* One digest is one adjudication.
LEMMA OncePerClaim ==
    ASSUME OneDigest
    PROVE  AdjudicatedOnce
<1> SUFFICES ASSUME NEW c \in Claims
             PROVE  Cardinality({s \in Sources : adjudications[c][s] # "ABSENT"}) <= 1
  BY DEF AdjudicatedOnce
<1> DEFINE digests == {s \in Sources : adjudications[c][s] # "ABSENT"}
<1>1. CASE digests = {}
  BY <1>1, FS_EmptySet
<1>2. CASE digests # {}
  <2>1. PICK s \in digests : TRUE
    BY <1>2
  <2>2. digests = {s}
    BY <2>1 DEF OneDigest
  <2> QED BY <2>2, FS_Singleton
<1> QED BY <1>1, <1>2

\* A reply is for the claim the worker has in hand, of which nothing is written yet.
LEMMA FinishCallOnce ==
    ASSUME SubmissionInv, WorkerAlone, OneDigest, NEW k \in Calls, FinishCall(k)
    PROVE  WorkerAlone' /\ OneDigest'
<1> DEFINE c == calls[k].claim
           s == calls[k].source
<1>1. TypeOK /\ HandKept /\ calls[k] # Free
  BY DEF SubmissionInv, FinishCall
<1>2. c \in Claims /\ s \in Sources /\ calls[k].caller = "worker"
  BY <1>1, CallType DEF WorkerAlone
<1>3. worker.stage = "invoking" /\ worker.claim = c
  BY <1>1, <1>2 DEF HandKept
<1>4. \A r \in Sources : adjudications[c][r] = "ABSENT"
  BY <1>3 DEF WorkerAlone, HasAgent
<1>5. adjudications \in [Claims -> [Sources -> Statuses]]
  BY <1>1 DEF TypeOK
<1>6. /\ \A d \in Claims : d # c => adjudications'[d] = adjudications[d]
      /\ \A r \in Sources : r # s => adjudications'[c][r] = "ABSENT"
  BY <1>2, <1>4, <1>5 DEF FinishCall
<1>7. OneDigest'
  BY <1>6 DEF OneDigest
<1>8. worker'.stage = "handled"
  BY <1>1, <1>2, <1>3, HandType DEF FinishCall, WorkerAfter
<1>9. runner' = {} /\ \A j \in Calls : calls'[j].caller \in {"none", "worker"}
  BY <1>1 DEF FinishCall, WorkerAlone, TypeOK, Free
<1> QED BY <1>7, <1>8, <1>9 DEF WorkerAlone

\* No step lets anybody else ask, or a claim be asked for that has an adjudication.
LEMMA WorkerAloneStep ==
    ASSUME Mode = "in_process", MaxAbandoned = 0,
           SubmissionInv, WorkerAlone, OneDigest, [Next]_vars
    PROVE  WorkerAlone' /\ OneDigest'
<1>1. TypeOK /\ HandKept
  BY DEF SubmissionInv
<1>2. CASE \E backlog \in SUBSET (Claims \ Seeded) : InsertBacklog(backlog)
  BY <1>2 DEF InsertBacklog, WorkerAlone, OneDigest, HasAgent, group, endpoint
<1>3. CASE (\E k \in Calls : RunnerInvoke(k)) \/ StopRunner
  BY <1>3 DEF RunnerInvoke, StopRunner, WorkerAlone
<1>4. CASE Producer \/ RestartProducer
  BY <1>4 DEF Producer, PlanBatch, Emit, CommitBatch, RestartProducer, WorkerAlone, OneDigest,
              HasAgent, group, endpoint
<1>5. CASE \E p \in Partitions : Lookup(p)
  <2>1. PICK p \in Partitions : Lookup(p)
    BY <1>5
  <2>2. UNCHANGED <<runner, calls, adjudications>>
    BY <2>1 DEF Lookup, endpoint
  <2>3. worker'.stage \in {"adjudicate", "invoking"} => ~HasAgent(worker'.claim)
    BY <2>1 DEF Lookup, DedupDecision
  <2> QED BY <2>2, <2>3 DEF WorkerAlone, OneDigest, HasAgent
<1>6. CASE \E k \in Calls : WorkerInvoke(k)
  <2>1. PICK k \in Calls : WorkerInvoke(k)
    BY <1>6
  <2>2. UNCHANGED <<runner, adjudications>> /\ worker' = [worker EXCEPT !.stage = "invoking"]
    BY <2>1 DEF WorkerInvoke
  <2>3. worker'.claim = worker.claim /\ worker.stage = "adjudicate"
    BY <1>1, <2>1, <2>2, HandType DEF WorkerInvoke
  <2>4. \A j \in Calls : calls'[j].caller \in {"none", "worker"}
    BY <1>1, <2>1 DEF WorkerInvoke, Invoked, TypeOK, WorkerAlone
  <2> QED BY <2>2, <2>3, <2>4 DEF WorkerAlone, OneDigest, HasAgent
<1>7. CASE Commit \/ RestartWorker
  BY <1>7 DEF Commit, RestartWorker, Idle, WorkerAlone, OneDigest, endpoint
<1>8. CASE \E k \in Calls : FinishCall(k)
  BY <1>8, FinishCallOnce
<1>9. CASE \E k \in Calls : FailCall(k)
  <2>1. PICK k \in Calls : FailCall(k)
    BY <1>9
  <2>2. UNCHANGED <<runner, adjudications>> /\ calls' = [calls EXCEPT ![k] = Free]
    BY <2>1 DEF FailCall
  <2>3. \A j \in Calls : calls'[j].caller \in {"none", "worker"}
    BY <1>1, <2>2 DEF TypeOK, WorkerAlone, Free
  <2>4. worker' = worker \/ worker'.stage = "idle"
    BY <2>1 DEF FailCall, WorkerAfter, Idle
  <2> QED BY <2>2, <2>3, <2>4 DEF WorkerAlone, OneDigest, HasAgent
<1>10. CASE \E k \in Calls : AbandonCall(k)
  BY <1>1, <1>10 DEF AbandonCall, Abandon, TypeOK
<1>11. CASE \E s \in Sources : Deploy(s)
  BY <1>11 DEF Deploy, WorkerAlone, OneDigest, HasAgent, group
<1>12. CASE Adjusters
  <2>1. PICK c \in Claims, s \in Sources : Finalize(c, s)
    BY <1>12 DEF Adjusters
  <2>2. UNCHANGED <<runner, calls, worker>>
    BY <2>1 DEF Finalize, group
  <2>3. \A d \in Claims, t \in Sources :
          adjudications'[d][t] # "ABSENT" => adjudications[d][t] # "ABSENT"
    BY <1>1, <2>1 DEF Finalize, TypeOK
  <2>4. worker.stage \in {"adjudicate", "invoking"} => worker.claim \in Claims
    BY <1>1, HandType
  <2> QED BY <2>2, <2>3, <2>4 DEF WorkerAlone, OneDigest, HasAgent
<1>13. CASE UNCHANGED vars
  BY <1>13 DEF vars, group, endpoint, WorkerAlone, OneDigest, HasAgent
<1> QED
  BY <1>2, <1>3, <1>4, <1>5, <1>6, <1>7, <1>8, <1>9, <1>10, <1>11, <1>12, <1>13 DEF Next, Worker

\* The worker's dedup check alone keeps a claim at one adjudication, across deployments,
\* restarts and redelivered messages, as long as the demo runner leaves the adjudication to
\* the worker and no invocation outlives its caller's wait (worker_core.py:12-14).
THEOREM WorkerAdjudicatesOnce ==
    ASSUME Mode = "in_process", MaxAbandoned = 0
    PROVE  Spec => []AdjudicatedOnce
<1>1. Init => WorkerAlone /\ OneDigest
  BY DEF Init, Idle, Free, WorkerAlone, OneDigest
<1>2. SubmissionInv /\ (WorkerAlone /\ OneDigest) /\ [Next]_vars => (WorkerAlone /\ OneDigest)'
  BY WorkerAloneStep
<1>3. OneDigest => AdjudicatedOnce
  BY OncePerClaim
<1> QED BY <1>1, <1>2, <1>3, Invariance, PTL DEF Spec

=============================================================================
