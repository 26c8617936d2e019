-------------------------------- MODULE FanOut --------------------------------
(***************************************************************************)
(* From a finalized decision to its cases: the outbox, the hourly relay     *)
(* that publishes it (services/src/relay.py), the claim.adjudicated topic,  *)
(* and the consumers that open settlements, investigations and supplier     *)
(* recoveries (services/src/consumers.py, consumer_core.py).                *)
(*                                                                         *)
(* The relay and the consumers are separate jobs that may stop between any  *)
(* two of their external effects.  Publishing is at least once; the cases   *)
(* are written behind ON CONFLICT on a case id made from the claim id.      *)
(***************************************************************************)
EXTENDS Integers, Sequences, FiniteSets, SequencesExt

CONSTANTS
    Claims,
    Adjudications,   \* adjudication ids: the event of one is adj-<id>
    ClaimOf,         \* claim_id of each adjudication
    Amounts,         \* approved amounts of an APPROVE
    Stored,          \* an amount as a numeric(18,2) column keeps it: in whole cents
    Groups,          \* the consumer groups there are
    Deployments,     \* the sets of them that run side by side
    MaxEvents,       \* max_events: rows one relay run fetches
    MaxFaults,       \* bound: crashes and failed deliveries
    None             \* no case

ASSUME FanOutAssumption ==
    /\ Groups \subseteq {"settlement", "investigation", "supplier-recovery", "notification"}
    /\ ClaimOf \in [Adjudications -> Claims]
    /\ Amounts \subseteq Nat
    /\ Stored \in [Amounts \cup {0} -> Nat] /\ Stored[0] = 0
    /\ MaxEvents \in Nat \ {0}
    /\ MaxFaults \in Nat
    /\ None \notin Adjudications \cup Claims \cup Nat

\* The fields of a claim.adjudicated payload that the consumers read.
Event == [adj : Adjudications, verdict : {"APPROVE", "DENY", "PEND"},
          approved : Amounts \cup {0}, supplier : BOOLEAN]

VARIABLES
    outbox,          \* the outbox in the order of created_at, each row with its state
    relay,           \* the relay's run
    topic,           \* claim.adjudicated, by key: the events of a claim, in order
    consumers,       \* each group's committed offsets and the action in hand
    settlements,     \* STL-<claim>: the amount
    investigations,  \* INV-<claim>: the adjudication it was opened from
    recoveries,      \* SRC-<claim>: the recovery amount
    faults           \* crashes and failed deliveries so far

cases == <<settlements, investigations, recoveries>>
vars == <<outbox, relay, topic, consumers, cases, faults>>

Fault == faults < MaxFaults /\ faults' = faults + 1

-----------------------------------------------------------------------------
(* The App's finalize transaction, as the outbox sees it *)

\* created_at is now(), the time the transaction began, so rows take their place
\* in the order when it begins and become visible, in any order, when it commits.
Row == [event : Event, state : {"open", "unpublished", "published"}]

BeginFinalize(a) ==
    /\ \A n \in DOMAIN outbox : outbox[n].event.adj # a
    /\ \E e \in Event :
         /\ e.adj = a
         /\ IF e.verdict = "APPROVE" THEN e.approved \in Amounts ELSE Stored[e.approved] = 0
         /\ outbox' = Append(outbox, [event |-> e, state |-> "open"])
    /\ UNCHANGED <<relay, topic, consumers, cases, faults>>

CommitFinalize(n) ==
    /\ outbox[n].state = "open"
    /\ outbox' = [outbox EXCEPT ![n].state = "unpublished"]
    /\ UNCHANGED <<relay, topic, consumers, cases, faults>>

RollbackFinalize(n) ==
    /\ outbox[n].state = "open"
    /\ Fault
    /\ outbox' = RemoveAt(outbox, n)
    /\ UNCHANGED <<relay, topic, consumers, cases>>

-----------------------------------------------------------------------------
(* The relay *)

\* queue: fetched and not yet produced; acked: delivered, not yet marked.
NoRun == [running |-> FALSE, queue |-> <<>>, acked |-> <<>>]
Run == [running : BOOLEAN, queue : Seq(Event), acked : Seq(Adjudications)]

Unpublished == {m \in DOMAIN outbox : outbox[m].state = "unpublished"}

\* Faulty: the window is taken before the rows already published are left out.
FetchedFromAll(n) == {m \in Unpublished : m <= n}

\* SELECT_UNPUBLISHED_SQL: ... WHERE published_at IS NULL ... ORDER BY created_at LIMIT n,
\* the rows by their places in the outbox.
Fetched(n) == {m \in Unpublished : Cardinality({k \in Unpublished : k < m}) < n}

Ascending(S) ==
    {q \in [1 .. Cardinality(S) -> S] : \A i, j \in DOMAIN q : i < j => q[i] < q[j]}

FetchUnpublished ==
    /\ ~relay.running
    /\ Fetched(MaxEvents) # {}
    /\ \E q \in Ascending(Fetched(MaxEvents)) :
         relay' = [running |-> TRUE, queue |-> [i \in DOMAIN q |-> outbox[q[i]].event],
                   acked |-> <<>>]
    /\ UNCHANGED <<outbox, topic, consumers, cases, faults>>

\* produce(topic, key = claim_id): the event goes to the end of its claim's.
Produced(event) == [topic EXCEPT ![ClaimOf[event.adj]] = Append(@, event)]

Marked(a) == [n \in DOMAIN outbox |->
                IF outbox[n].event.adj = a /\ outbox[n].state = "unpublished"
                THEN [outbox[n] EXCEPT !.state = "published"] ELSE outbox[n]]

\* The broker has the event and says so.
Deliver ==
    /\ relay.queue # <<>>
    /\ topic' = Produced(Head(relay.queue))
    /\ relay' = [relay EXCEPT !.queue = Tail(@),
                              !.acked = Append(@, Head(relay.queue).adj)]
    /\ UNCHANGED <<outbox, consumers, cases, faults>>

\* The delivery callback gets an error, whether or not the broker has the event:
\* the row stays unpublished and the run goes on.
FailDelivery ==
    /\ relay.queue # <<>>
    /\ Fault
    /\ topic' \in {topic, Produced(Head(relay.queue))}
    /\ relay' = [relay EXCEPT !.queue = Tail(@)]
    /\ UNCHANGED <<outbox, consumers, cases>>

\* MARK_PUBLISHED_SQL, in the delivery callback, on an autocommit connection.
MarkPublished ==
    /\ relay.acked # <<>>
    /\ outbox' = Marked(Head(relay.acked))
    /\ relay' = [relay EXCEPT !.acked = Tail(@)]
    /\ UNCHANGED <<topic, consumers, cases, faults>>

EndRun ==
    /\ relay.running /\ relay.queue = <<>> /\ relay.acked = <<>>
    /\ relay' = NoRun
    /\ UNCHANGED <<outbox, topic, consumers, cases, faults>>

\* What was fetched or acknowledged is forgotten; what was produced stays.
CrashRelay ==
    /\ relay.running
    /\ Fault
    /\ relay' = NoRun
    /\ UNCHANGED <<outbox, topic, consumers, cases>>

-----------------------------------------------------------------------------
(* The consumers *)

\* plan_action(settlement, event): an upsert for APPROVE.
Settled(c, e) ==
    IF e.verdict = "APPROVE" THEN [settlements EXCEPT ![c] = Stored[e.approved]] ELSE settlements

\* plan_action(investigation, event): DO NOTHING when the case is there.
Investigated(c, e) ==
    IF e.verdict = "PEND" /\ investigations[c] = None
    THEN [investigations EXCEPT ![c] = e.adj] ELSE investigations

\* Faulty: the recovery amounts of repeated deliveries add up.
RecoveredAgain(c, e) ==
    IF e.supplier
    THEN [recoveries EXCEPT ![c] = IF @ = None THEN Stored[e.approved] ELSE @ + Stored[e.approved]]
    ELSE recoveries

\* plan_action(supplier-recovery, event): DO NOTHING when the case is there.
Recovered(c, e) ==
    IF e.supplier /\ recoveries[c] = None
    THEN [recoveries EXCEPT ![c] = Stored[e.approved]] ELSE recoveries

\* Faulty: enable.auto.commit, so the job may stop after the commit and before
\* the action.
ApplyAutoCommitted(g, c) ==
    LET group == consumers[g]
        e == topic[c][group.offset[c] + 1]
    IN  /\ group.done = None
        /\ group.offset[c] < Len(topic[c])
        /\ consumers' = [consumers EXCEPT ![g].offset[c] = @ + 1]
        /\ \/ settlements' = Settled(c, e) /\ UNCHANGED faults
           \/ Fault /\ UNCHANGED settlements
        /\ UNCHANGED <<outbox, relay, topic, investigations, recoveries>>

\* The next event of claim c for a group, and its action, which commits at once.
\* The notification group only logs.
Apply(g, c) ==
    LET group == consumers[g]
        e == topic[c][group.offset[c] + 1]
    IN  /\ group.done = None
        /\ group.offset[c] < Len(topic[c])
        /\ settlements' = IF g = "settlement" THEN Settled(c, e) ELSE settlements
        /\ investigations' = IF g = "investigation" THEN Investigated(c, e)
                             ELSE investigations
        /\ recoveries' = IF g = "supplier-recovery" THEN Recovered(c, e) ELSE recoveries
        /\ consumers' = [consumers EXCEPT ![g].done = c]
        /\ UNCHANGED <<outbox, relay, topic, faults>>

\* consumer.commit(msg), only after the action is applied.
CommitOffset(g) ==
    LET group == consumers[g] IN
    /\ group.done # None
    /\ consumers' = [consumers EXCEPT ![g] =
          [offset |-> [group.offset EXCEPT ![group.done] = group.offset[group.done] + 1],
           done |-> None]]
    /\ UNCHANGED <<outbox, relay, topic, cases, faults>>

\* The job stops between the action and the commit: the event comes again.
CrashConsumer(g) ==
    /\ consumers[g].done # None
    /\ Fault
    /\ consumers' = [consumers EXCEPT ![g].done = None]
    /\ UNCHANGED <<outbox, relay, topic, cases>>

-----------------------------------------------------------------------------
Init ==
    /\ outbox = <<>>
    /\ relay = NoRun
    /\ topic = [c \in Claims |-> <<>>]
    /\ \E running \in Deployments :
         consumers = [g \in running |-> [offset |-> [c \in Claims |-> 0], done |-> None]]
    /\ settlements = [c \in Claims |-> None]
    /\ investigations = [c \in Claims |-> None]
    /\ recoveries = [c \in Claims |-> None]
    /\ faults = 0

Relay == FetchUnpublished \/ Deliver \/ MarkPublished \/ EndRun

Next ==
    \/ \E a \in Adjudications : BeginFinalize(a)
    \/ \E n \in DOMAIN outbox : CommitFinalize(n) \/ RollbackFinalize(n)
    \/ Relay \/ FailDelivery \/ CrashRelay
    \/ \E g \in DOMAIN consumers :
         \/ \E c \in Claims : Apply(g, c)
         \/ CommitOffset(g) \/ CrashConsumer(g)

Spec == Init /\ [][Next]_vars

\* Every job is scheduled again and again, and goes on while it can.  Nothing is
\* assumed of the adjusters, and no fault is bound to happen.
Fairness ==
    /\ WF_vars(Relay)
    /\ \A g \in Groups :
         /\ WF_vars(g \in DOMAIN consumers /\ CommitOffset(g))
         /\ \A c \in Claims : WF_vars(g \in DOMAIN consumers /\ Apply(g, c))

FairSpec == Spec /\ Fairness

-----------------------------------------------------------------------------
(* Properties *)

\* Every variable holds a value of its table's, job's or topic's shape.
TypeOK ==
    /\ outbox \in Seq(Row)
    /\ relay \in Run
    /\ topic \in [Claims -> Seq(Event)]
    /\ DOMAIN consumers \in Deployments
    /\ consumers \in [DOMAIN consumers -> [offset : [Claims -> Nat], done : Claims \cup {None}]]
    /\ settlements \in [Claims -> Nat \cup {None}]
    /\ investigations \in [Claims -> Adjudications \cup {None}]
    /\ recoveries \in [Claims -> Nat \cup {None}]
    /\ faults \in 0..MaxFaults

\* The events of claim c the App has committed.
Committed(c) ==
    {outbox[n].event : n \in {m \in DOMAIN outbox : /\ outbox[m].state # "open"
                                                   /\ ClaimOf[outbox[m].event.adj] = c}}

\* The events of claim c a group has handled.
Handled(g, c) == SubSeq(topic[c], 1, consumers[g].offset[c])

\* Seen from the departments, the relay, the broker, every repetition and every crash amount
\* to decisions that are made once, and cases that are opened once from what is decided
\* (consumer_core.py:13-20: a claim has one adjudication).
Depts == INSTANCE Departments WITH
    decided <- {outbox[n].event : n \in {m \in DOMAIN outbox : outbox[m].state # "open"}}

DepartmentsKept == Depts!Spec

\* No case without a decision: what is settled, investigated or recovered for a
\* claim is what a committed decision on that claim calls for, in whole cents.
CasesHaveCause ==
    \A c \in Claims :
      /\ settlements[c] # None =>
           \E e \in Committed(c) : e.verdict = "APPROVE" /\ Stored[e.approved] = settlements[c]
      /\ investigations[c] # None =>
           \E e \in Committed(c) : e.verdict = "PEND" /\ e.adj = investigations[c]
      /\ recoveries[c] # None =>
           \E e \in Committed(c) : e.supplier /\ Stored[e.approved] = recoveries[c]

\* Nothing is acknowledged before it is done, so that a crash repeats an event and
\* never loses one: a row is marked published only once the broker has its event
\* (relay.py:6-12), and an offset is committed only after the event's case is
\* written, whatever was delivered again (consumers.py:14-16).
AcknowledgedIsDone ==
    /\ \A n \in DOMAIN outbox :
         outbox[n].state = "published" =>
           outbox[n].event \in Range(topic[ClaimOf[outbox[n].event.adj]])
    /\ \A g \in DOMAIN consumers, c \in Claims : \A e \in Range(Handled(g, c)) :
         /\ g = "settlement" /\ e.verdict = "APPROVE" => settlements[c] # None
         /\ g = "investigation" /\ e.verdict = "PEND" => investigations[c] # None
         /\ g = "supplier-recovery" /\ e.supplier => recoveries[c] # None

\* Processing an event again is a no-op (consumer_core.py:17-20).
RedeliveryIsNoOp ==
    [][\A g \in DOMAIN consumers, c \in Claims :
         /\ Apply(g, c)
         /\ topic[c][consumers[g].offset[c] + 1] \in Range(Handled(g, c))
         => UNCHANGED cases]_vars

\* Every committed decision is published and reaches every consumer, in spite of
\* the relay's window, failed deliveries and crashes.
DecisionsArrive ==
    \A a \in Adjudications :
      (\E n \in DOMAIN outbox : outbox[n].event.adj = a /\ outbox[n].state = "unpublished")
      ~> /\ \E n \in DOMAIN outbox : outbox[n].event.adj = a /\ outbox[n].state = "published"
         /\ \A g \in DOMAIN consumers : \E e \in Range(Handled(g, ClaimOf[a])) : e.adj = a
=============================================================================
