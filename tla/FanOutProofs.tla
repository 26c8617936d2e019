----------------------------- MODULE FanOutProofs -----------------------------
(***************************************************************************)
(* For any claims, any number of adjudications of each, any window of the   *)
(* relay, any consumer groups side by side and any number of faults: no     *)
(* case is without a committed decision, nothing is acknowledged before it  *)
(* is done, and the relay fetches the oldest rows.  With one adjudication   *)
(* of each claim, a redelivered event changes nothing, and all of it        *)
(* implements the departments' specification.  That every decision arrives  *)
(* is left to TLC.                                                          *)
(***************************************************************************)
EXTENDS FanOut, FiniteSetTheorems, SequenceTheorems, WellFoundedInduction, TLAPS

\* A committed decision: its event has left the transaction that made it.
IsCommitted(e) == \E n \in DOMAIN outbox : outbox[n].event = e /\ outbox[n].state # "open"

\* An adjudication has one row.
OneRow == \A m, n \in DOMAIN outbox : outbox[m].event.adj = outbox[n].event.adj => m = n

\* Whatever the relay has fetched or the broker holds is a committed decision, in its
\* claim's place.
FromOutbox ==
    /\ \A i \in DOMAIN relay.queue : IsCommitted(relay.queue[i])
    /\ \A c \in Claims : \A i \in DOMAIN topic[c] :
         IsCommitted(topic[c][i]) /\ ClaimOf[topic[c][i].adj] = c

InTopic(t, e) == \E i \in DOMAIN t[ClaimOf[e.adj]] : t[ClaimOf[e.adj]][i] = e

\* Whatever the broker has acknowledged, and whatever is marked, is in the topic.
AtTheBroker ==
    /\ \A i \in DOMAIN relay.acked :
         \E n \in DOMAIN outbox : /\ outbox[n].event.adj = relay.acked[i]
                                 /\ outbox[n].state # "open" /\ InTopic(topic, outbox[n].event)
    /\ \A n \in DOMAIN outbox : outbox[n].state = "published" => InTopic(topic, outbox[n].event)

\* What a group's action leaves of an event.
Done(g, c, e) ==
    /\ g = "settlement" /\ e.verdict = "APPROVE" => settlements[c] # None
    /\ g = "investigation" /\ e.verdict = "PEND" => investigations[c] # None
    /\ g = "supplier-recovery" /\ e.supplier => recoveries[c] # None

\* A group's offset is behind the topic, the event in hand is the next one, and it
\* and all before it are done.
Reached(g, c) == consumers[g].offset[c] + (IF consumers[g].done = c THEN 1 ELSE 0)
OffsetsKept ==
    \A g \in DOMAIN consumers, c \in Claims :
      /\ Reached(g, c) <= Len(topic[c])
      /\ \A i \in 1 .. Reached(g, c) : Done(g, c, topic[c][i])

\* A case is what a committed decision on its claim calls for.
CasesGrounded ==
    \A c \in Claims :
      /\ settlements[c] # None =>
           \E e \in Event : /\ IsCommitted(e) /\ ClaimOf[e.adj] = c
                            /\ e.verdict = "APPROVE" /\ Stored[e.approved] = settlements[c]
      /\ investigations[c] # None =>
           \E e \in Event : /\ IsCommitted(e) /\ ClaimOf[e.adj] = c
                            /\ e.verdict = "PEND" /\ e.adj = investigations[c]
      /\ recoveries[c] # None =>
           \E e \in Event : /\ IsCommitted(e) /\ ClaimOf[e.adj] = c
                            /\ e.supplier /\ Stored[e.approved] = recoveries[c]

FanOutInv ==
    TypeOK /\ OneRow /\ FromOutbox /\ AtTheBroker /\ OffsetsKept /\ CasesGrounded

-----------------------------------------------------------------------------
(* The outbox's rows *)

LEMMA OutboxType ==
    ASSUME TypeOK
    PROVE  /\ Len(outbox) \in Nat /\ DOMAIN outbox = 1 .. Len(outbox)
           /\ \A n \in DOMAIN outbox : /\ outbox[n] \in Row
                                       /\ outbox[n].event \in Event
                                       /\ outbox[n].state \in {"open", "unpublished", "published"}
                                       /\ outbox[n].event.adj \in Adjudications
                                       /\ ClaimOf[outbox[n].event.adj] \in Claims
<1>1. outbox \in Seq(Row)
  BY DEF TypeOK
<1>2. Len(outbox) \in Nat /\ DOMAIN outbox = 1 .. Len(outbox)
  BY <1>1, LenProperties
<1>3. \A n \in DOMAIN outbox : outbox[n] \in Row
  BY <1>1, <1>2, ElementOfSeq
<1>4. \A row \in Row : /\ row.event \in Event
                       /\ row.state \in {"open", "unpublished", "published"}
  BY DEF Row
<1>5. \A e \in Event : e.adj \in Adjudications /\ ClaimOf[e.adj] \in Claims
  BY FanOutAssumption DEF FanOutAssumption, Event
<1> QED BY <1>2, <1>3, <1>4, <1>5

\* What a step of the outbox may do: the committed rows keep their events, and a row is
\* marked only when the broker has it.
OutboxStep ==
    /\ outbox' \in Seq(Row)
    /\ OneRow'
    /\ \A n \in DOMAIN outbox : outbox[n].state # "open" =>
         \E m \in DOMAIN outbox' : /\ outbox'[m].event = outbox[n].event
                                  /\ outbox'[m].state # "open"
    /\ \A m \in DOMAIN outbox' : outbox'[m].state = "published" => InTopic(topic, outbox'[m].event)
    /\ relay' \in Run
    /\ relay'.queue = relay.queue
    /\ \A i \in DOMAIN relay'.acked : \E j \in DOMAIN relay.acked : relay'.acked[i] = relay.acked[j]
    /\ faults' \in 0 .. MaxFaults
    /\ UNCHANGED <<topic, consumers, cases>>

LEMMA OutboxStepKeeps ==
    ASSUME FanOutInv, OutboxStep
    PROVE  FanOutInv'
<1>1. \A e : IsCommitted(e) => IsCommitted(e)'
  BY DEF OutboxStep, IsCommitted
<1>2. \A e : InTopic(topic, e) <=> InTopic(topic', e)
  BY DEF OutboxStep, InTopic
<1>3. TypeOK'
  BY DEF FanOutInv, TypeOK, OutboxStep, cases
<1>4. FromOutbox'
  BY <1>1 DEF FanOutInv, FromOutbox, OutboxStep
<1>5. AtTheBroker'
  <2>1. ASSUME NEW i \in DOMAIN relay'.acked
        PROVE  \E m \in DOMAIN outbox' : /\ outbox'[m].event.adj = relay'.acked[i]
                                        /\ outbox'[m].state # "open" /\ InTopic(topic, outbox'[m].event)
    <3>1. PICK j \in DOMAIN relay.acked : relay'.acked[i] = relay.acked[j]
      BY <2>1 DEF OutboxStep
    <3>2. PICK n \in DOMAIN outbox : /\ outbox[n].event.adj = relay.acked[j]
                                     /\ outbox[n].state # "open" /\ InTopic(topic, outbox[n].event)
      BY <3>1 DEF FanOutInv, AtTheBroker
    <3>3. PICK m \in DOMAIN outbox' : /\ outbox'[m].event = outbox[n].event
                                     /\ outbox'[m].state # "open"
      BY <3>2 DEF OutboxStep
    <3> QED BY <3>1, <3>2, <3>3
  <2>2. \A m \in DOMAIN outbox' : outbox'[m].state = "published" => InTopic(topic, outbox'[m].event)
    BY DEF OutboxStep
  <2> QED BY <2>1, <2>2, <1>2 DEF AtTheBroker
<1>6. OffsetsKept'
  BY DEF FanOutInv, OffsetsKept, Reached, Done, OutboxStep, cases
<1>7. CasesGrounded'
  BY <1>1 DEF FanOutInv, CasesGrounded, OutboxStep, cases
<1> QED BY <1>3, <1>4, <1>5, <1>6, <1>7 DEF FanOutInv, OutboxStep

LEMMA BeginFinalizeKeeps ==
    ASSUME FanOutInv, NEW a \in Adjudications, BeginFinalize(a)
    PROVE  OutboxStep /\ FanOutInv'
<1>1. PICK e \in Event : e.adj = a /\ outbox' = Append(outbox, [event |-> e, state |-> "open"])
  BY DEF BeginFinalize
<1>2. [event |-> e, state |-> "open"] \in Row
  BY DEF Row
<1>3. TypeOK /\ outbox \in Seq(Row)
  BY DEF FanOutInv, TypeOK
<1>4. /\ outbox' \in Seq(Row) /\ Len(outbox') = Len(outbox) + 1
      /\ \A n \in 1 .. Len(outbox) : outbox'[n] = outbox[n]
      /\ outbox'[Len(outbox) + 1] = [event |-> e, state |-> "open"]
  BY <1>1, <1>2, <1>3, AppendProperties
<1>5. /\ DOMAIN outbox' = 1 .. Len(outbox) + 1
      /\ DOMAIN outbox = 1 .. Len(outbox) /\ Len(outbox) \in Nat
  BY <1>3, <1>4, LenProperties
<1>6. OneRow'
  BY <1>1, <1>4, <1>5 DEF FanOutInv, OneRow, BeginFinalize
<1>7. \A m \in DOMAIN outbox' : outbox'[m].state = "published" => InTopic(topic, outbox'[m].event)
  BY <1>4, <1>5 DEF FanOutInv, AtTheBroker
<1>8. OutboxStep
  BY <1>3, <1>4, <1>5, <1>6, <1>7 DEF OutboxStep, BeginFinalize, TypeOK, cases
<1> QED BY <1>8, OutboxStepKeeps

LEMMA CommitFinalizeKeeps ==
    ASSUME FanOutInv, NEW n \in DOMAIN outbox, CommitFinalize(n)
    PROVE  OutboxStep /\ FanOutInv'
<1>1. TypeOK /\ outbox \in Seq(Row)
  BY DEF FanOutInv, TypeOK
<1>2. /\ DOMAIN outbox = 1 .. Len(outbox) /\ outbox[n] \in Row
  BY <1>1, OutboxType
<1>3. [outbox[n] EXCEPT !.state = "unpublished"] \in Row
  BY <1>2 DEF Row
<1>4. outbox' = [outbox EXCEPT ![n] = [outbox[n] EXCEPT !.state = "unpublished"]]
  BY DEF CommitFinalize
<1>5. outbox' \in Seq(Row) /\ DOMAIN outbox' = DOMAIN outbox
  BY <1>1, <1>2, <1>3, <1>4, ExceptSeq
<1>6. \A m \in DOMAIN outbox :
        /\ outbox'[m].event = outbox[m].event
        /\ outbox'[m].state = IF m = n THEN "unpublished" ELSE outbox[m].state
  BY <1>1, <1>2, <1>4, OutboxType DEF Row
<1>7. OneRow'
  BY <1>5, <1>6 DEF FanOutInv, OneRow
<1>8. \A m \in DOMAIN outbox' : outbox'[m].state = "published" => InTopic(topic, outbox'[m].event)
  BY <1>5, <1>6 DEF FanOutInv, AtTheBroker
<1>9. OutboxStep
  BY <1>1, <1>5, <1>6, <1>7, <1>8 DEF OutboxStep, CommitFinalize, TypeOK, cases
<1> QED BY <1>9, OutboxStepKeeps

\* What is left of a sequence without its n-th element.
LEMMA RemoveAtProperties ==
    ASSUME NEW S, NEW s \in Seq(S), NEW n \in 1 .. Len(s)
    PROVE  /\ RemoveAt(s, n) \in Seq(S)
           /\ Len(RemoveAt(s, n)) = Len(s) - 1
           /\ \A i \in 1 .. Len(s) - 1 :
                RemoveAt(s, n)[i] = IF i < n THEN s[i] ELSE s[i + 1]
<1> DEFINE before == SubSeq(s, 1, n - 1)
           after == SubSeq(s, n + 1, Len(s))
<1>1. Len(s) \in Nat /\ n \in Int /\ 1 <= n /\ n <= Len(s)
  BY LenProperties
<1>2. /\ \A i \in 1 .. n - 1 : s[i] \in S
      /\ \A i \in n + 1 .. Len(s) : s[i] \in S
  BY <1>1, ElementOfSeq
<1>3. /\ before \in Seq(S) /\ Len(before) = n - 1
      /\ \A i \in 1 .. n - 1 : before[i] = s[i]
  BY <1>1, <1>2, SubSeqProperties
<1>4. /\ after \in Seq(S) /\ Len(after) = Len(s) - n
      /\ \A i \in 1 .. Len(s) - n : after[i] = s[n + i]
  BY <1>1, <1>2, SubSeqProperties
<1> HIDE DEF before, after
<1>5. /\ before \o after \in Seq(S) /\ Len(before \o after) = Len(s) - 1
      /\ \A i \in 1 .. Len(s) - 1 :
           (before \o after)[i] = IF i <= n - 1 THEN before[i] ELSE after[i - (n - 1)]
  <2>1. Len(before) + Len(after) = Len(s) - 1
    BY <1>1, <1>3, <1>4
  <2>2. /\ before \o after \in Seq(S) /\ Len(before \o after) = Len(before) + Len(after)
        /\ \A i \in 1 .. Len(before) + Len(after) :
             (before \o after)[i] = IF i <= Len(before) THEN before[i] ELSE after[i - Len(before)]
    BY <1>3, <1>4, ConcatProperties
  <2> QED BY <2>1, <2>2, <1>3
<1>6. ASSUME NEW i \in 1 .. Len(s) - 1
      PROVE  (before \o after)[i] = IF i < n THEN s[i] ELSE s[i + 1]
  <2>1. CASE i < n
    BY <2>1, <1>1, <1>3, <1>5
  <2>2. CASE i >= n
    <3>1. i - (n - 1) \in 1 .. Len(s) - n /\ n + (i - (n - 1)) = i + 1
      BY <2>2, <1>1
    <3>2. after[i - (n - 1)] = s[i + 1]
      BY <3>1, <1>4
    <3> QED BY <2>2, <3>2, <1>1, <1>5
  <2>3. i < n \/ i >= n
    BY <1>1
  <2> QED BY <2>1, <2>2, <2>3
<1> QED BY <1>5, <1>6 DEF RemoveAt, before, after

LEMMA RollbackFinalizeKeeps ==
    ASSUME FanOutInv, NEW n \in DOMAIN outbox, RollbackFinalize(n)
    PROVE  OutboxStep /\ FanOutInv'
<1>1. TypeOK /\ outbox \in Seq(Row)
  BY DEF FanOutInv, TypeOK
<1>2. DOMAIN outbox = 1 .. Len(outbox) /\ Len(outbox) \in Nat
  BY <1>1, OutboxType
<1>3. /\ outbox' \in Seq(Row) /\ Len(outbox') = Len(outbox) - 1
      /\ \A i \in 1 .. Len(outbox) - 1 :
           outbox'[i] = IF i < n THEN outbox[i] ELSE outbox[i + 1]
  BY <1>1, <1>2, RemoveAtProperties DEF RollbackFinalize
<1>4. DOMAIN outbox' = 1 .. Len(outbox) - 1
  BY <1>3, LenProperties
<1>5. OneRow'
  <2> DEFINE Was(i) == IF i < n THEN i ELSE i + 1
  <2>1. \A i \in DOMAIN outbox' : Was(i) \in DOMAIN outbox /\ outbox'[i] = outbox[Was(i)]
    BY <1>2, <1>3, <1>4
  <2>2. \A i, j \in DOMAIN outbox' : Was(i) = Was(j) => i = j
    BY <1>2, <1>4
  <2> HIDE DEF Was
  <2> QED BY <2>1, <2>2 DEF FanOutInv, OneRow
<1>6. ASSUME NEW m \in DOMAIN outbox, outbox[m].state # "open"
      PROVE  \E i \in DOMAIN outbox' : outbox'[i] = outbox[m]
  <2>1. m # n
    BY <1>6 DEF RollbackFinalize
  <2>2. CASE m < n
    BY <2>2, <1>2, <1>3, <1>4
  <2>3. CASE m > n
    <3>1. m - 1 \in DOMAIN outbox' /\ outbox'[m - 1] = outbox[m]
      BY <2>3, <1>2, <1>3, <1>4
    <3> QED BY <3>1
  <2> QED BY <2>1, <2>2, <2>3, <1>2
<1>7. \A m \in DOMAIN outbox' : outbox'[m].state = "published" => InTopic(topic, outbox'[m].event)
  BY <1>2, <1>3, <1>4, SMTT(30) DEF FanOutInv, AtTheBroker
<1>8. faults' \in 0 .. MaxFaults
  BY <1>1, FanOutAssumption DEF RollbackFinalize, Fault, TypeOK, FanOutAssumption
<1>9. OutboxStep
  BY <1>1, <1>3, <1>5, <1>6, <1>7, <1>8 DEF OutboxStep, RollbackFinalize, TypeOK, cases
<1> QED BY <1>9, OutboxStepKeeps

-----------------------------------------------------------------------------
(* The relay *)

LEMMA RelayType ==
    ASSUME TypeOK
    PROVE  /\ relay.queue \in Seq(Event) /\ relay.acked \in Seq(Adjudications)
           /\ relay.running \in BOOLEAN
           /\ relay = [running |-> relay.running, queue |-> relay.queue, acked |-> relay.acked]
<1> DEFINE Events == Seq(Event)
           Ids == Seq(Adjudications)
<1>1. relay \in [running : BOOLEAN, queue : Events, acked : Ids]
  BY DEF TypeOK, Run
<1> HIDE DEF Events, Ids
<1>2. /\ relay.queue \in Events /\ relay.acked \in Ids /\ relay.running \in BOOLEAN
      /\ relay = [running |-> relay.running, queue |-> relay.queue, acked |-> relay.acked]
  BY <1>1
<1> QED BY <1>2 DEF Events, Ids

LEMMA RunShape ==
    ASSUME NEW running \in BOOLEAN, NEW queue \in Seq(Event), NEW acked \in Seq(Adjudications)
    PROVE  [running |-> running, queue |-> queue, acked |-> acked] \in Run
<1> DEFINE Events == Seq(Event)
           Ids == Seq(Adjudications)
<1>1. queue \in Events /\ acked \in Ids
  OBVIOUS
<1> HIDE DEF Events, Ids
<1>2. [running |-> running, queue |-> queue, acked |-> acked]
        \in [running : BOOLEAN, queue : Events, acked : Ids]
  BY <1>1
<1> QED BY <1>2 DEF Run, Events, Ids

\* What a step of the relay may do: the topic grows by committed decisions, and what is
\* fetched or acknowledged is known.
RelayStep ==
    /\ UNCHANGED <<outbox, consumers, cases>>
    /\ topic' \in [Claims -> Seq(Event)]
    /\ \A c \in Claims :
         /\ Len(topic[c]) <= Len(topic'[c])
         /\ \A i \in 1 .. Len(topic[c]) : topic'[c][i] = topic[c][i]
         /\ \A i \in DOMAIN topic'[c] : IsCommitted(topic'[c][i]) /\ ClaimOf[topic'[c][i].adj] = c
    /\ relay' \in Run
    /\ \A i \in DOMAIN relay'.queue : IsCommitted(relay'.queue[i])
    /\ \A i \in DOMAIN relay'.acked :
         \E n \in DOMAIN outbox : /\ outbox[n].event.adj = relay'.acked[i]
                                 /\ outbox[n].state # "open" /\ InTopic(topic', outbox[n].event)
    /\ faults' \in 0 .. MaxFaults

LEMMA TopicType ==
    ASSUME TypeOK, NEW c \in Claims
    PROVE  /\ topic[c] \in Seq(Event) /\ Len(topic[c]) \in Nat
           /\ DOMAIN topic[c] = 1 .. Len(topic[c])
           /\ \A i \in 1 .. Len(topic[c]) : topic[c][i] \in Event
<1>1. topic[c] \in Seq(Event)
  BY DEF TypeOK
<1> QED BY <1>1, LenProperties, ElementOfSeq

LEMMA ConsumersType ==
    ASSUME TypeOK, NEW g \in DOMAIN consumers
    PROVE  /\ consumers[g] \in [offset : [Claims -> Nat], done : Claims \cup {None}]
           /\ consumers[g].offset \in [Claims -> Nat]
           /\ consumers[g].done \in Claims \cup {None}
           /\ \A c \in Claims : consumers[g].offset[c] \in Nat /\ Reached(g, c) \in Nat
<1>1. consumers[g] \in [offset : [Claims -> Nat], done : Claims \cup {None}]
  BY DEF TypeOK
<1>2. /\ consumers[g].offset \in [Claims -> Nat]
      /\ consumers[g].done \in Claims \cup {None}
  BY <1>1
<1> QED BY <1>1, <1>2 DEF Reached

LEMMA RelayStepKeeps ==
    ASSUME FanOutInv, RelayStep
    PROVE  FanOutInv'
<1>1. TypeOK
  BY DEF FanOutInv
<1>2. \A e : IsCommitted(e) <=> IsCommitted(e)'
  BY DEF RelayStep, IsCommitted
<1>3. TypeOK'
  BY <1>1 DEF TypeOK, RelayStep, cases
<1>4. \A c \in Claims : /\ DOMAIN topic[c] = 1 .. Len(topic[c])
                        /\ DOMAIN topic'[c] = 1 .. Len(topic'[c])
                        /\ Len(topic[c]) \in Nat /\ Len(topic'[c]) \in Nat
  BY <1>1, <1>3, TopicType
<1>11. \A c \in Claims : /\ Len(topic[c]) <= Len(topic'[c])
                        /\ \A i \in 1 .. Len(topic[c]) : topic'[c][i] = topic[c][i]
  BY DEF RelayStep
<1>5. ASSUME NEW e, ClaimOf[e.adj] \in Claims, InTopic(topic, e)
      PROVE  InTopic(topic', e)
  <2>1. PICK i \in DOMAIN topic[ClaimOf[e.adj]] : topic[ClaimOf[e.adj]][i] = e
    BY <1>5 DEF InTopic
  <2>2. /\ i \in DOMAIN topic'[ClaimOf[e.adj]]
        /\ topic'[ClaimOf[e.adj]][i] = topic[ClaimOf[e.adj]][i]
    BY <2>1, <1>4, <1>11, <1>5
  <2> QED BY <2>1, <2>2 DEF InTopic
<1>6. OneRow'
  BY DEF FanOutInv, OneRow, RelayStep
<1>7. FromOutbox'
  BY <1>2 DEF FromOutbox, RelayStep
<1>8. AtTheBroker'
  <2>1. \A n \in DOMAIN outbox : outbox[n].state = "published" => InTopic(topic', outbox[n].event)
    BY <1>1, <1>5, OutboxType DEF FanOutInv, AtTheBroker
  <2> QED BY <2>1 DEF AtTheBroker, RelayStep
<1>9. OffsetsKept'
  <2>1. SUFFICES ASSUME NEW g \in DOMAIN consumers, NEW c \in Claims
                 PROVE  /\ Reached(g, c)' <= Len(topic'[c])
                        /\ \A i \in 1 .. Reached(g, c)' : Done(g, c, topic[c][i])'
    BY DEF OffsetsKept, RelayStep
  <2>2. Reached(g, c)' = Reached(g, c) /\ Reached(g, c) \in Nat
    BY <1>1, ConsumersType DEF Reached, RelayStep
  <2>3. Reached(g, c) <= Len(topic[c])
    BY DEF FanOutInv, OffsetsKept
  <2>4. \A i \in 1 .. Reached(g, c) : topic'[c][i] = topic[c][i]
    BY <1>4, <1>11, <2>2, <2>3
  <2>5. \A i \in 1 .. Reached(g, c) : Done(g, c, topic[c][i])
    BY DEF FanOutInv, OffsetsKept
  <2>6. \A i \in 1 .. Reached(g, c) : Done(g, c, topic[c][i])'
    BY <2>4, <2>5 DEF Done, RelayStep, cases
  <2>7. Len(topic[c]) <= Len(topic'[c]) /\ Len(topic[c]) \in Nat /\ Len(topic'[c]) \in Nat
    BY <1>4, <1>11
  <2> QED BY <2>2, <2>3, <2>6, <2>7
<1>10. CasesGrounded'
  BY <1>2 DEF FanOutInv, CasesGrounded, RelayStep, cases
<1> QED BY <1>3, <1>6, <1>7, <1>8, <1>9, <1>10 DEF FanOutInv

\* The event goes to the end of its claim's, and nowhere else.
LEMMA ProducedProperties ==
    ASSUME TypeOK, NEW e \in Event, NEW c \in Claims
    PROVE  /\ Produced(e) \in [Claims -> Seq(Event)]
           /\ Len(topic[c]) <= Len(Produced(e)[c])
           /\ \A i \in 1 .. Len(topic[c]) : Produced(e)[c][i] = topic[c][i]
           /\ \A i \in DOMAIN Produced(e)[c] :
                i \in DOMAIN topic[c] \/ (c = ClaimOf[e.adj] /\ Produced(e)[c][i] = e)
           /\ InTopic(Produced(e), e)
<1> DEFINE k == ClaimOf[e.adj]
           longer == Append(topic[k], e)
<1>1. k \in Claims
  BY FanOutAssumption DEF FanOutAssumption, Event
<1>2. topic \in [Claims -> Seq(Event)] /\ topic[k] \in Seq(Event)
  BY <1>1 DEF TypeOK
<1>3. /\ longer \in Seq(Event) /\ Len(longer) = Len(topic[k]) + 1
      /\ \A i \in 1 .. Len(topic[k]) : longer[i] = topic[k][i]
      /\ longer[Len(topic[k]) + 1] = e
  BY <1>2, AppendProperties
<1>4. Produced(e) = [topic EXCEPT ![k] = longer]
  BY DEF Produced
<1> HIDE DEF longer, k
<1>5. /\ DOMAIN topic[c] = 1 .. Len(topic[c]) /\ Len(topic[c]) \in Nat
      /\ DOMAIN topic[k] = 1 .. Len(topic[k]) /\ Len(topic[k]) \in Nat
  BY <1>1, TopicType
<1>6. DOMAIN longer = 1 .. Len(topic[k]) + 1
  BY <1>3, LenProperties
<1>7. Produced(e) \in [Claims -> Seq(Event)] /\ Produced(e)[k] = longer
  BY <1>1, <1>2, <1>3, <1>4
<1>8. c # k => Produced(e)[c] = topic[c]
  BY <1>2, <1>4
<1>9. InTopic(Produced(e), e)
  BY <1>3, <1>5, <1>6, <1>7, SMTT(30) DEF InTopic, k
<1>10. CASE c = k
  <2>1. \A i \in DOMAIN longer : i \in DOMAIN topic[k] \/ longer[i] = e
    BY <1>3, <1>5, <1>6
  <2> QED BY <1>3, <1>5, <1>7, <1>9, <1>10, <2>1 DEF k
<1>11. CASE c # k
  BY <1>5, <1>7, <1>8, <1>9, <1>11 DEF k
<1> QED BY <1>10, <1>11

\* The rows a run fetches become its queue, in their order.
LEMMA FetchUnpublishedKeeps ==
    ASSUME FanOutInv, FetchUnpublished
    PROVE  FanOutInv'
<1>1. TypeOK
  BY DEF FanOutInv
<1> DEFINE S == Fetched(MaxEvents)
<1>2. S \subseteq DOMAIN outbox /\ \A n \in S : outbox[n].state = "unpublished"
  BY DEF Fetched, Unpublished
<1> HIDE DEF S
<1>3. Cardinality(S) \in Nat
  <2>1. IsFiniteSet(DOMAIN outbox)
    <3>1. DOMAIN outbox = 1 .. Len(outbox) /\ 1 \in Int /\ Len(outbox) \in Int
      BY <1>1, OutboxType
    <3> QED BY <3>1, FS_Interval
  <2>2. IsFiniteSet(S)
    BY <1>2, <2>1, FS_Subset
  <2> QED BY <2>2, FS_CardinalityType
<1>4. PICK q \in Ascending(S) :
        relay' = [running |-> TRUE, queue |-> [i \in DOMAIN q |-> outbox[q[i]].event],
                  acked |-> <<>>]
  BY DEF FetchUnpublished, S
<1>5. q \in [1 .. Cardinality(S) -> S]
  BY <1>4 DEF Ascending
<1> DEFINE queue == [i \in DOMAIN q |-> outbox[q[i]].event]
<1>6. \A i \in DOMAIN q : outbox[q[i]].event \in Event /\ IsCommitted(outbox[q[i]].event)
  BY <1>1, <1>2, <1>5, OutboxType DEF IsCommitted
<1>7. queue \in [1 .. Cardinality(S) -> Event]
  BY <1>5, <1>6
<1>8. queue \in Seq(Event)
  BY <1>3, <1>7, SeqDef
<1>9. <<>> \in Seq(Adjudications) /\ DOMAIN <<>> = {}
  BY EmptySeq, LenProperties
<1>10. relay' \in Run
  BY <1>4, <1>8, <1>9, RunShape
<1>11. \A i \in DOMAIN relay'.queue : IsCommitted(relay'.queue[i])
  BY <1>4, <1>6
<1>12. DOMAIN relay'.acked = {}
  BY <1>4, <1>9
<1>13. RelayStep
  BY <1>1, <1>10, <1>11, <1>12, TopicType
  DEF RelayStep, FetchUnpublished, FanOutInv, FromOutbox, TypeOK, cases
<1> QED BY <1>13, RelayStepKeeps

\* The first event of the queue, produced or not, leaves it.
LEMMA QueueHead ==
    ASSUME FanOutInv, relay.queue # <<>>
    PROVE  /\ Head(relay.queue) \in Event /\ IsCommitted(Head(relay.queue))
           /\ Tail(relay.queue) \in Seq(Event)
           /\ \A i \in DOMAIN Tail(relay.queue) : IsCommitted(Tail(relay.queue)[i])
<1>1. relay.queue \in Seq(Event)
  BY RelayType DEF FanOutInv
<1>2. /\ Len(relay.queue) \in Nat \ {0} /\ DOMAIN relay.queue = 1 .. Len(relay.queue)
      /\ Head(relay.queue) = relay.queue[1]
  BY <1>1, EmptySeq, LenProperties
<1>3. /\ Head(relay.queue) \in Event /\ Tail(relay.queue) \in Seq(Event)
      /\ Len(Tail(relay.queue)) = Len(relay.queue) - 1
      /\ \A i \in 1 .. Len(Tail(relay.queue)) : Tail(relay.queue)[i] = relay.queue[i + 1]
  BY <1>1, HeadTailProperties
<1>4. DOMAIN Tail(relay.queue) = 1 .. Len(Tail(relay.queue))
  BY <1>3, LenProperties
<1>5. \A i \in DOMAIN relay.queue : IsCommitted(relay.queue[i])
  BY DEF FanOutInv, FromOutbox
<1>6. \A i \in 1 .. Len(Tail(relay.queue)) : i + 1 \in DOMAIN relay.queue
  BY <1>2, <1>3
<1>7. \A i \in DOMAIN Tail(relay.queue) : IsCommitted(Tail(relay.queue)[i])
  BY <1>3, <1>4, <1>5, <1>6
<1>8. IsCommitted(Head(relay.queue))
  BY <1>2, <1>5
<1> QED BY <1>3, <1>7, <1>8

LEMMA ProducedIsKnown ==
    ASSUME FanOutInv, NEW e \in Event, IsCommitted(e), NEW c \in Claims
    PROVE  \A i \in DOMAIN Produced(e)[c] :
             IsCommitted(Produced(e)[c][i]) /\ ClaimOf[Produced(e)[c][i].adj] = c
<1>1. TypeOK /\ \A i \in DOMAIN topic[c] : IsCommitted(topic[c][i]) /\ ClaimOf[topic[c][i].adj] = c
  BY DEF FanOutInv, FromOutbox
<1>2. DOMAIN topic[c] = 1 .. Len(topic[c])
  BY <1>1, TopicType
<1>3. /\ \A i \in 1 .. Len(topic[c]) : Produced(e)[c][i] = topic[c][i]
      /\ \A i \in DOMAIN Produced(e)[c] :
           i \in DOMAIN topic[c] \/ (c = ClaimOf[e.adj] /\ Produced(e)[c][i] = e)
  BY <1>1, ProducedProperties
<1> QED BY <1>1, <1>2, <1>3

\* What was in the topic stays in it.
LEMMA TopicKeeps ==
    ASSUME TypeOK, NEW e \in Event, NEW n \in DOMAIN outbox, InTopic(topic, outbox[n].event)
    PROVE  InTopic(Produced(e), outbox[n].event)
<1> DEFINE c == ClaimOf[outbox[n].event.adj]
<1>1. c \in Claims
  BY OutboxType
<1>2. PICK i \in DOMAIN topic[c] : topic[c][i] = outbox[n].event
  BY DEF InTopic
<1> HIDE DEF c
<1>3. /\ DOMAIN topic[c] = 1 .. Len(topic[c]) /\ Len(topic[c]) \in Nat
      /\ Len(topic[c]) <= Len(Produced(e)[c])
      /\ \A j \in 1 .. Len(topic[c]) : Produced(e)[c][j] = topic[c][j]
      /\ Produced(e)[c] \in Seq(Event)
  BY <1>1, TopicType, ProducedProperties
<1>4. DOMAIN Produced(e)[c] = 1 .. Len(Produced(e)[c]) /\ Len(Produced(e)[c]) \in Nat
  BY <1>3, LenProperties
<1>5. i \in DOMAIN Produced(e)[c] /\ Produced(e)[c][i] = outbox[n].event
  BY <1>2, <1>3, <1>4
<1> QED BY <1>5 DEF InTopic, c

\* The broker has the event, and says so or not.
LEMMA SendKeeps ==
    ASSUME FanOutInv, Deliver \/ FailDelivery
    PROVE  FanOutInv'
<1> DEFINE e == Head(relay.queue)
<1>1. TypeOK /\ relay.queue # <<>>
  BY DEF FanOutInv, Deliver, FailDelivery
<1>2. /\ e \in Event /\ IsCommitted(e) /\ Tail(relay.queue) \in Seq(Event)
      /\ \A i \in DOMAIN Tail(relay.queue) : IsCommitted(Tail(relay.queue)[i])
  BY <1>1, QueueHead
<1>3. /\ relay.acked \in Seq(Adjudications) /\ e.adj \in Adjudications
      /\ relay = [running |-> relay.running, queue |-> relay.queue, acked |-> relay.acked]
      /\ relay.running \in BOOLEAN
  BY <1>1, <1>2, RelayType DEF Event
<1>4. UNCHANGED <<outbox, consumers, cases>>
  BY DEF Deliver, FailDelivery
<1>5. topic' \in {topic, Produced(e)}
  BY DEF Deliver, FailDelivery
<1> HIDE DEF e
<1>6. /\ topic' \in [Claims -> Seq(Event)]
      /\ \A c \in Claims :
           /\ Len(topic[c]) <= Len(topic'[c])
           /\ \A i \in 1 .. Len(topic[c]) : topic'[c][i] = topic[c][i]
           /\ \A i \in DOMAIN topic'[c] : IsCommitted(topic'[c][i]) /\ ClaimOf[topic'[c][i].adj] = c
  <2>1. CASE topic' = topic
    BY <2>1, <1>1, TopicType DEF TypeOK, FanOutInv, FromOutbox
  <2>2. CASE topic' = Produced(e)
    <3>1. topic' \in [Claims -> Seq(Event)]
      <4>1. ASSUME NEW c \in Claims
            PROVE  Produced(e) \in [Claims -> Seq(Event)]
        BY <1>1, <1>2, ProducedProperties
      <4>2. ClaimOf[e.adj] \in Claims
        BY <1>3, FanOutAssumption DEF FanOutAssumption
      <4> QED BY <2>2, <4>1, <4>2
    <3>2. ASSUME NEW c \in Claims
          PROVE  /\ Len(topic[c]) <= Len(topic'[c])
                 /\ \A i \in 1 .. Len(topic[c]) : topic'[c][i] = topic[c][i]
                 /\ \A i \in DOMAIN topic'[c] :
                      IsCommitted(topic'[c][i]) /\ ClaimOf[topic'[c][i].adj] = c
      <4>1. /\ Len(topic[c]) <= Len(Produced(e)[c])
            /\ \A i \in 1 .. Len(topic[c]) : Produced(e)[c][i] = topic[c][i]
        BY <1>1, <1>2, ProducedProperties
      <4>2. \A i \in DOMAIN Produced(e)[c] :
              IsCommitted(Produced(e)[c][i]) /\ ClaimOf[Produced(e)[c][i].adj] = c
        BY <1>2, ProducedIsKnown
      <4> QED BY <2>2, <4>1, <4>2
    <3> QED BY <3>1, <3>2
  <2> QED BY <1>5, <2>1, <2>2
<1>7. \A n \in DOMAIN outbox :
        InTopic(topic, outbox[n].event) => InTopic(topic', outbox[n].event)
  BY <1>1, <1>2, <1>5, TopicKeeps
<1>8. \A i \in DOMAIN relay.acked :
        \E n \in DOMAIN outbox : /\ outbox[n].event.adj = relay.acked[i]
                                /\ outbox[n].state # "open" /\ InTopic(topic', outbox[n].event)
  BY <1>7 DEF FanOutInv, AtTheBroker
<1>9. CASE Deliver
  <2>1. relay' = [running |-> relay.running, queue |-> Tail(relay.queue),
                  acked |-> Append(relay.acked, e.adj)]
    BY <1>3, <1>9 DEF Deliver, e
  <2>2. /\ Append(relay.acked, e.adj) \in Seq(Adjudications)
        /\ Len(Append(relay.acked, e.adj)) = Len(relay.acked) + 1
        /\ \A i \in 1 .. Len(relay.acked) : Append(relay.acked, e.adj)[i] = relay.acked[i]
        /\ Append(relay.acked, e.adj)[Len(relay.acked) + 1] = e.adj
    BY <1>3, AppendProperties
  <2>3. /\ DOMAIN relay.acked = 1 .. Len(relay.acked) /\ Len(relay.acked) \in Nat
        /\ DOMAIN Append(relay.acked, e.adj) = 1 .. Len(relay.acked) + 1
    BY <1>3, <2>2, LenProperties
  <2>4. relay' \in Run
    BY <1>2, <1>3, <2>1, <2>2, RunShape
  <2>5. PICK n \in DOMAIN outbox : outbox[n].event = e /\ outbox[n].state # "open"
    BY <1>2 DEF IsCommitted
  <2>6. InTopic(topic', outbox[n].event)
    <3>1. ClaimOf[e.adj] \in Claims /\ topic' = Produced(e)
      BY <1>3, <1>9, FanOutAssumption DEF FanOutAssumption, Deliver, e
    <3> QED BY <1>1, <1>2, <2>5, <3>1, ProducedProperties
  <2>7. ASSUME NEW i \in DOMAIN Append(relay.acked, e.adj)
        PROVE  \E m \in DOMAIN outbox :
                 /\ outbox[m].event.adj = Append(relay.acked, e.adj)[i]
                 /\ outbox[m].state # "open" /\ InTopic(topic', outbox[m].event)
    <3>1. CASE i \in DOMAIN relay.acked
      BY <3>1, <1>8, <2>2, <2>3
    <3>2. CASE i = Len(relay.acked) + 1
      BY <3>2, <2>2, <2>5, <2>6
    <3> QED BY <3>1, <3>2, <2>3
  <2>8. faults' \in 0 .. MaxFaults
    BY <1>1, <1>9 DEF Deliver, TypeOK
  <2> QED BY <1>2, <1>4, <1>6, <2>1, <2>4, <2>7, <2>8, RelayStepKeeps DEF RelayStep
<1>10. CASE FailDelivery
  <2>1. relay' = [running |-> relay.running, queue |-> Tail(relay.queue), acked |-> relay.acked]
    BY <1>3, <1>10 DEF FailDelivery
  <2>2. relay' \in Run
    BY <1>2, <1>3, <2>1, RunShape
  <2>3. faults' \in 0 .. MaxFaults
    BY <1>1, <1>10, FanOutAssumption DEF FailDelivery, Fault, TypeOK, FanOutAssumption
  <2> QED BY <1>2, <1>4, <1>6, <1>8, <2>1, <2>2, <2>3, RelayStepKeeps DEF RelayStep
<1> QED BY <1>9, <1>10

LEMMA EndRunKeeps ==
    ASSUME FanOutInv, EndRun \/ CrashRelay
    PROVE  FanOutInv'
<1>1. TypeOK
  BY DEF FanOutInv
<1>2. <<>> \in Seq(Event) /\ <<>> \in Seq(Adjudications) /\ DOMAIN <<>> = {}
  BY EmptySeq, LenProperties
<1>3. relay' = [running |-> FALSE, queue |-> <<>>, acked |-> <<>>]
  BY DEF EndRun, CrashRelay, NoRun
<1>4. relay' \in Run
  BY <1>2, <1>3, RunShape
<1>5. faults' \in 0 .. MaxFaults /\ UNCHANGED <<outbox, topic, consumers, cases>>
  BY <1>1, FanOutAssumption DEF EndRun, CrashRelay, Fault, TypeOK, FanOutAssumption
<1>6. RelayStep
  BY <1>1, <1>2, <1>3, <1>4, <1>5, TopicType DEF RelayStep, FanOutInv, FromOutbox, TypeOK
<1> QED BY <1>6, RelayStepKeeps

\* The row of an acknowledged event is marked, and no other.
LEMMA MarkPublishedKeeps ==
    ASSUME FanOutInv, MarkPublished
    PROVE  OutboxStep /\ FanOutInv'
<1> DEFINE a == Head(relay.acked)
           rows == Marked(a)
<1>1. TypeOK /\ relay.acked \in Seq(Adjudications) /\ relay.queue \in Seq(Event)
  BY RelayType DEF FanOutInv
<1>2. relay.acked # <<>> /\ outbox' = rows
  BY DEF MarkPublished
<1>3. /\ a = relay.acked[1] /\ 1 \in DOMAIN relay.acked
      /\ Tail(relay.acked) \in Seq(Adjudications)
      /\ Len(Tail(relay.acked)) = Len(relay.acked) - 1
      /\ \A i \in 1 .. Len(Tail(relay.acked)) : Tail(relay.acked)[i] = relay.acked[i + 1]
      /\ DOMAIN relay.acked = 1 .. Len(relay.acked) /\ Len(relay.acked) \in Nat
  BY <1>1, <1>2, HeadTailProperties, EmptySeq, LenProperties
<1>4. DOMAIN Tail(relay.acked) = 1 .. Len(relay.acked) - 1
  BY <1>3, LenProperties
<1>5. relay' = [running |-> relay.running, queue |-> relay.queue, acked |-> Tail(relay.acked)]
  BY <1>1, RelayType DEF MarkPublished
<1>6. relay' \in Run
  BY <1>1, <1>3, <1>5, RelayType, RunShape
<1>7. DOMAIN rows = DOMAIN outbox
  BY DEF Marked
<1>8. \A n \in DOMAIN outbox :
        /\ rows[n] \in Row
        /\ rows[n].event = outbox[n].event
        /\ rows[n].state # outbox[n].state =>
             /\ rows[n].state = "published" /\ outbox[n].state # "open" /\ outbox[n].event.adj = a
  BY <1>1, OutboxType DEF Marked, Row
<1> HIDE DEF rows, a
<1>9. rows \in Seq(Row)
  <2>1. rows \in [1 .. Len(outbox) -> Row] /\ Len(outbox) \in Nat
    <3>1. rows = [n \in DOMAIN outbox |-> rows[n]]
      BY DEF rows, Marked
    <3> QED BY <3>1, <1>1, <1>7, <1>8, OutboxType
  <2> QED BY <2>1, SeqDef
<1>10. OneRow'
  BY <1>2, <1>7, <1>8 DEF FanOutInv, OneRow
<1>11. \A n \in DOMAIN outbox : outbox[n].state # "open" =>
         \E m \in DOMAIN rows : rows[m].event = outbox[n].event /\ rows[m].state # "open"
  BY <1>7, <1>8
<1>12. ASSUME NEW n \in DOMAIN rows, rows[n].state = "published"
       PROVE  InTopic(topic, rows[n].event)
  <2>1. CASE outbox[n].state = "published"
    BY <2>1, <1>7, <1>8, <1>12 DEF FanOutInv, AtTheBroker
  <2>2. CASE outbox[n].event.adj = a
    <3>1. PICK m \in DOMAIN outbox : outbox[m].event.adj = a /\ InTopic(topic, outbox[m].event)
      BY <1>3 DEF FanOutInv, AtTheBroker
    <3>2. m = n
      BY <3>1, <2>2, <1>7, <1>12 DEF FanOutInv, OneRow
    <3> QED BY <3>1, <3>2, <1>7, <1>8
  <2> QED BY <2>1, <2>2, <1>7, <1>8, <1>12
<1>13. OutboxStep
  <2>1. \A i \in DOMAIN relay'.acked : \E j \in DOMAIN relay.acked : relay'.acked[i] = relay.acked[j]
    BY <1>3, <1>4, <1>5
  <2>2. faults' \in 0 .. MaxFaults /\ UNCHANGED <<topic, consumers, cases>>
    BY <1>1 DEF MarkPublished, TypeOK
  <2> QED BY <1>2, <1>5, <1>6, <1>9, <1>10, <1>11, <1>12, <2>1, <2>2 DEF OutboxStep
<1> QED BY <1>13, OutboxStepKeeps

-----------------------------------------------------------------------------
(* The consumers *)

GroupState == [offset : [Claims -> Nat], done : Claims \cup {None}]

\* What a step of a consumer may do: its group goes no further than the topic and what
\* it has done, and the cases keep what they have.
ConsumerStep ==
    /\ UNCHANGED <<outbox, relay, topic>>
    /\ DOMAIN consumers' = DOMAIN consumers
    /\ consumers' \in [DOMAIN consumers -> GroupState]
    /\ settlements' \in [Claims -> Nat \cup {None}]
    /\ investigations' \in [Claims -> Adjudications \cup {None}]
    /\ recoveries' \in [Claims -> Nat \cup {None}]
    /\ faults' \in 0 .. MaxFaults
    /\ \A c \in Claims : /\ settlements[c] # None => settlements'[c] # None
                         /\ investigations[c] # None => investigations'[c] # None
                         /\ recoveries[c] # None => recoveries'[c] # None
    /\ \A g \in DOMAIN consumers, c \in Claims :
         \/ Reached(g, c)' <= Reached(g, c)
         \/ /\ Reached(g, c)' = Reached(g, c) + 1
            /\ Reached(g, c)' <= Len(topic[c])
            /\ \E e : e = topic[c][Reached(g, c) + 1] /\ Done(g, c, e)'
    /\ CasesGrounded'

LEMMA ConsumerStepKeeps ==
    ASSUME FanOutInv, ConsumerStep
    PROVE  FanOutInv'
<1>1. TypeOK
  BY DEF FanOutInv
<1>2. TypeOK'
  BY <1>1 DEF TypeOK, ConsumerStep, GroupState
<1>3. OneRow' /\ FromOutbox' /\ AtTheBroker' /\ CasesGrounded'
  BY DEF ConsumerStep, FanOutInv, OneRow, FromOutbox, AtTheBroker, IsCommitted
<1>4. OffsetsKept'
  <2>1. SUFFICES ASSUME NEW g \in DOMAIN consumers, NEW c \in Claims
                 PROVE  /\ Reached(g, c)' <= Len(topic[c])
                        /\ \A i \in 1 .. Reached(g, c)' : Done(g, c, topic[c][i])'
    BY DEF OffsetsKept, ConsumerStep
  <2>2. Reached(g, c) \in Nat /\ Reached(g, c)' \in Nat
    <3>1. consumers[g] \in GroupState /\ consumers'[g] \in GroupState
      BY <1>1, ConsumersType DEF ConsumerStep, GroupState
    <3> QED BY <3>1 DEF Reached, GroupState
  <2>3. /\ Reached(g, c) <= Len(topic[c]) /\ Len(topic[c]) \in Nat
        /\ \A i \in 1 .. Reached(g, c) : Done(g, c, topic[c][i])
    BY <1>1, TopicType DEF FanOutInv, OffsetsKept
  <2>4. \A i \in 1 .. Reached(g, c) : Done(g, c, topic[c][i])'
    BY <2>3 DEF Done, ConsumerStep
  <2>5. \/ Reached(g, c)' <= Reached(g, c)
        \/ /\ Reached(g, c)' = Reached(g, c) + 1
           /\ Reached(g, c)' <= Len(topic[c])
           /\ \E e : e = topic[c][Reached(g, c) + 1] /\ Done(g, c, e)'
    BY DEF ConsumerStep
  <2>6. CASE Reached(g, c)' <= Reached(g, c)
    BY <2>2, <2>3, <2>4, <2>6
  <2>7. CASE Reached(g, c)' = Reached(g, c) + 1
    <3>1. ASSUME NEW i \in 1 .. Reached(g, c)'
          PROVE  i \in 1 .. Reached(g, c) \/ i = Reached(g, c) + 1
      BY <2>2, <2>7
    <3>2. PICK e : e = topic[c][Reached(g, c) + 1] /\ Done(g, c, e)'
      BY <2>2, <2>5, <2>7
    <3>3. topic'[c][Reached(g, c) + 1] = e
      BY <3>2 DEF ConsumerStep
    <3>4. ASSUME NEW i \in 1 .. Reached(g, c)', i = Reached(g, c) + 1
          PROVE  Done(g, c, topic[c][i])'
      BY <3>2, <3>3, <3>4 DEF Done
    <3> QED BY <2>2, <2>4, <2>5, <2>7, <3>1, <3>4
  <2> QED BY <2>5, <2>6, <2>7
<1> QED BY <1>2, <1>3, <1>4 DEF FanOutInv

\* The action of an event writes the case it calls for, and no other.
LEMMA ApplyKeeps ==
    ASSUME FanOutInv, NEW g \in DOMAIN consumers, NEW c \in Claims, Apply(g, c)
    PROVE  FanOutInv'
<1> DEFINE n == consumers[g].offset[c] + 1
           e == topic[c][n]
<1>1. TypeOK /\ consumers[g].done = None /\ c # None
  BY FanOutAssumption DEF FanOutInv, Apply, FanOutAssumption
<1>2. /\ consumers[g] \in GroupState /\ consumers[g].offset[c] \in Nat
      /\ consumers[g].offset \in [Claims -> Nat]
      /\ Len(topic[c]) \in Nat /\ DOMAIN topic[c] = 1 .. Len(topic[c])
      /\ consumers \in [DOMAIN consumers -> GroupState]
  BY <1>1, ConsumersType, TopicType DEF GroupState, TypeOK
<1>3. n \in 1 .. Len(topic[c]) /\ Reached(g, c) = n - 1 /\ n \in Nat
  BY <1>1, <1>2 DEF Apply, Reached
<1>4. e \in Event /\ IsCommitted(e) /\ ClaimOf[e.adj] = c
  BY <1>1, <1>2, <1>3, TopicType DEF FanOutInv, FromOutbox
<1>5. /\ e.adj \in Adjudications /\ e.adj # None
      /\ Stored[e.approved] \in Nat /\ Stored[e.approved] # None
  <2>1. e.adj \in Adjudications /\ e.approved \in Amounts \cup {0}
    BY <1>4 DEF Event
  <2>2. Stored \in [Amounts \cup {0} -> Nat] /\ None \notin Adjudications \cup Nat
    BY FanOutAssumption
  <2>3. Stored[e.approved] \in Nat
    BY <2>1, <2>2
  <2> QED BY <2>1, <2>2, <2>3
<1>6. /\ settlements \in [Claims -> Nat \cup {None}]
      /\ investigations \in [Claims -> Adjudications \cup {None}]
      /\ recoveries \in [Claims -> Nat \cup {None}]
  BY <1>1 DEF TypeOK
<1>7. /\ UNCHANGED <<outbox, relay, topic, faults>>
      /\ consumers' = [consumers EXCEPT ![g].done = c]
      /\ settlements' = IF g = "settlement" THEN Settled(c, e) ELSE settlements
      /\ investigations' = IF g = "investigation" THEN Investigated(c, e) ELSE investigations
      /\ recoveries' = IF g = "supplier-recovery" THEN Recovered(c, e) ELSE recoveries
  BY DEF Apply
<1> HIDE DEF e, n
<1>8. \/ settlements' = settlements
      \/ settlements' = [settlements EXCEPT ![c] = Stored[e.approved]] /\ e.verdict = "APPROVE"
  BY <1>7 DEF Settled
<1>9. \/ investigations' = investigations
      \/ investigations' = [investigations EXCEPT ![c] = e.adj] /\ e.verdict = "PEND"
  BY <1>7 DEF Investigated
<1>10. \/ recoveries' = recoveries
       \/ recoveries' = [recoveries EXCEPT ![c] = Stored[e.approved]] /\ e.supplier
  BY <1>7 DEF Recovered
<1>11. /\ settlements' \in [Claims -> Nat \cup {None}]
       /\ investigations' \in [Claims -> Adjudications \cup {None}]
       /\ recoveries' \in [Claims -> Nat \cup {None}]
  BY <1>5, <1>6, <1>8, <1>9, <1>10
<1>12. \A d \in Claims : /\ settlements[d] # None => settlements'[d] # None
                         /\ investigations[d] # None => investigations'[d] # None
                         /\ recoveries[d] # None => recoveries'[d] # None
  BY <1>5, <1>6, <1>8, <1>9, <1>10
<1>13. /\ g = "settlement" /\ e.verdict = "APPROVE" => settlements'[c] # None
       /\ g = "investigation" /\ e.verdict = "PEND" => investigations'[c] # None
       /\ g = "supplier-recovery" /\ e.supplier => recoveries'[c] # None
  BY <1>5, <1>6, <1>7 DEF Settled, Investigated, Recovered
<1>14. /\ DOMAIN consumers' = DOMAIN consumers
       /\ \A f \in DOMAIN consumers : f # g => consumers'[f] = consumers[f]
       /\ consumers'[g].offset = consumers[g].offset /\ consumers'[g].done = c
       /\ consumers' \in [DOMAIN consumers -> GroupState]
  BY <1>2, <1>7 DEF GroupState
<1>15. ASSUME NEW f \in DOMAIN consumers, NEW d \in Claims
       PROVE  \/ Reached(f, d)' <= Reached(f, d)
              \/ /\ Reached(f, d)' = Reached(f, d) + 1
                 /\ Reached(f, d)' <= Len(topic[d])
                 /\ \E x : x = topic[d][Reached(f, d) + 1] /\ Done(f, d, x)'
  <2>1. Reached(f, d) \in Nat
    BY <1>1, ConsumersType
  <2>2. CASE f = g /\ d = c
    <3>1. Reached(g, c)' = n
      BY <1>2, <1>3, <1>14 DEF Reached, n
    <3>2. PICK x : x = e
      OBVIOUS
    <3>3. Done(g, c, x)'
      BY <1>13, <3>2 DEF Done
    <3>4. x = topic[c][Reached(g, c) + 1]
      BY <1>3, <3>2 DEF e
    <3>5. n = Reached(g, c) + 1 /\ n <= Len(topic[c])
      BY <1>2, <1>3
    <3> QED BY <2>2, <3>1, <3>3, <3>4, <3>5
  <2>3. CASE f # g
    BY <1>14, <2>1, <2>3 DEF Reached
  <2>4. CASE f = g /\ d # c
    <3>1. c # d /\ None # d
      BY <2>4, FanOutAssumption DEF FanOutAssumption
    <3>2. Reached(g, d) = consumers[g].offset[d] + 0
      BY <1>1, <3>1 DEF Reached
    <3>3. Reached(g, d)' = consumers[g].offset[d] + 0
      BY <1>14, <3>1 DEF Reached
    <3> QED BY <2>1, <2>4, <3>2, <3>3
  <2> QED BY <2>2, <2>3, <2>4
<1>16. CasesGrounded'
  <2>1. \A x : IsCommitted(x) <=> IsCommitted(x)'
    BY <1>7 DEF IsCommitted
  <2>2. ASSUME NEW d \in Claims, settlements'[d] # None
        PROVE  \E x \in Event : /\ IsCommitted(x) /\ ClaimOf[x.adj] = d
                                /\ x.verdict = "APPROVE" /\ Stored[x.approved] = settlements'[d]
    <3>1. CASE settlements'[d] = settlements[d]
      BY <2>2, <3>1 DEF FanOutInv, CasesGrounded
    <3>2. CASE settlements'[d] # settlements[d]
      BY <3>2, <1>4, <1>6, <1>8
    <3> QED BY <3>1, <3>2
  <2>3. ASSUME NEW d \in Claims, investigations'[d] # None
        PROVE  \E x \in Event : /\ IsCommitted(x) /\ ClaimOf[x.adj] = d
                                /\ x.verdict = "PEND" /\ x.adj = investigations'[d]
    <3>1. CASE investigations'[d] = investigations[d]
      BY <2>3, <3>1 DEF FanOutInv, CasesGrounded
    <3>2. CASE investigations'[d] # investigations[d]
      BY <3>2, <1>4, <1>6, <1>9
    <3> QED BY <3>1, <3>2
  <2>4. ASSUME NEW d \in Claims, recoveries'[d] # None
        PROVE  \E x \in Event : /\ IsCommitted(x) /\ ClaimOf[x.adj] = d
                                /\ x.supplier /\ Stored[x.approved] = recoveries'[d]
    <3>1. CASE recoveries'[d] = recoveries[d]
      BY <2>4, <3>1 DEF FanOutInv, CasesGrounded
    <3>2. CASE recoveries'[d] # recoveries[d]
      BY <3>2, <1>4, <1>6, <1>10
    <3> QED BY <3>1, <3>2
  <2> QED BY <2>1, <2>2, <2>3, <2>4 DEF CasesGrounded
<1>17. ConsumerStep
  BY <1>1, <1>7, <1>11, <1>12, <1>14, <1>15, <1>16 DEF ConsumerStep, TypeOK
<1> QED BY <1>17, ConsumerStepKeeps

\* The offset moves past the event in hand, which is done; or the event in hand is
\* forgotten and comes again.
LEMMA OffsetKeeps ==
    ASSUME FanOutInv, NEW g \in DOMAIN consumers, CommitOffset(g) \/ CrashConsumer(g)
    PROVE  FanOutInv'
<1> DEFINE c == consumers[g].done
<1>1. TypeOK /\ c # None
  BY DEF FanOutInv, CommitOffset, CrashConsumer
<1>2. /\ consumers[g] \in GroupState /\ consumers[g].offset \in [Claims -> Nat]
      /\ consumers \in [DOMAIN consumers -> GroupState] /\ c \in Claims
  BY <1>1, ConsumersType DEF GroupState, TypeOK
<1>3. UNCHANGED <<outbox, relay, topic, cases>> /\ faults' \in 0 .. MaxFaults
  BY <1>1, FanOutAssumption
  DEF CommitOffset, CrashConsumer, Fault, TypeOK, FanOutAssumption
<1>4. /\ DOMAIN consumers' = DOMAIN consumers
      /\ \A f \in DOMAIN consumers : f # g => consumers'[f] = consumers[f]
      /\ consumers'[g].done = None
      /\ \/ consumers'[g].offset = [consumers[g].offset EXCEPT ![c] = @ + 1]
         \/ consumers'[g].offset = consumers[g].offset
      /\ consumers' \in [DOMAIN consumers -> GroupState]
  <2>1. CASE CommitOffset(g)
    <3> DEFINE moved == [offset |-> [consumers[g].offset EXCEPT ![c] = @ + 1], done |-> None]
    <3>1. consumers[g] = [offset |-> consumers[g].offset, done |-> c]
      BY <1>2 DEF GroupState
    <3>2. [consumers[g].offset EXCEPT ![c] = @ + 1] \in [Claims -> Nat]
      BY <1>2
    <3>3. moved \in GroupState
      BY <3>2 DEF GroupState
    <3>4. consumers' = [consumers EXCEPT ![g] = moved]
      BY <1>2, <2>1, <3>1 DEF CommitOffset
    <3> HIDE DEF GroupState
    <3>5. consumers' \in [DOMAIN consumers -> GroupState]
      BY <1>2, <3>3, <3>4
    <3> QED BY <1>2, <3>4, <3>5
  <2>2. CASE CrashConsumer(g)
    BY <1>2, <2>2 DEF CrashConsumer, GroupState
  <2> QED BY <2>1, <2>2
<1> HIDE DEF c
<1>5. ASSUME NEW f \in DOMAIN consumers, NEW d \in Claims
      PROVE  Reached(f, d)' <= Reached(f, d)
  <2>1. Reached(f, d) \in Nat /\ consumers[f].offset[d] \in Nat
    BY <1>1, ConsumersType
  <2>2. CASE f # g
    BY <1>4, <2>1, <2>2 DEF Reached
  <2>3. CASE f = g /\ d = c
    <3>1. consumers'[g].offset[d] \in {consumers[g].offset[d], consumers[g].offset[d] + 1}
      BY <1>2, <1>4, <2>3
    <3>2. Reached(g, d) = consumers[g].offset[d] + 1
      BY <2>3 DEF Reached, c
    <3>3. Reached(g, d)' = consumers'[g].offset[d]
      BY <1>1, <1>2, <1>4, <2>3, FanOutAssumption, <2>1, <3>1 DEF Reached, FanOutAssumption
    <3> QED BY <2>1, <2>3, <3>1, <3>2, <3>3
  <2>4. CASE f = g /\ d # c
    <3>1. consumers'[g].offset[d] = consumers[g].offset[d]
      BY <1>2, <1>4, <2>4
    <3>2. Reached(g, d) = consumers[g].offset[d]
      BY <2>1, <2>4 DEF Reached, c
    <3>3. Reached(g, d)' = consumers'[g].offset[d]
      BY <1>4, <2>1, <2>4, <3>1, FanOutAssumption DEF Reached, FanOutAssumption
    <3> QED BY <2>1, <2>4, <3>1, <3>2, <3>3
  <2> QED BY <2>2, <2>3, <2>4
<1>6. CasesGrounded'
  BY <1>3 DEF FanOutInv, CasesGrounded, IsCommitted, cases
<1>7. ConsumerStep
  BY <1>1, <1>3, <1>4, <1>5, <1>6 DEF ConsumerStep, TypeOK, cases
<1> QED BY <1>7, ConsumerStepKeeps

-----------------------------------------------------------------------------
(* The theorems *)

LEMMA InitInvariant ==
    Init => FanOutInv
<1> SUFFICES ASSUME Init PROVE FanOutInv
  OBVIOUS
<1>1. /\ <<>> \in Seq(Event) /\ <<>> \in Seq(Row) /\ <<>> \in Seq(Adjudications)
      /\ DOMAIN <<>> = {} /\ Len(<<>>) = 0
  BY EmptySeq, LenProperties
<1>2. relay \in Run
  BY <1>1, RunShape DEF Init, NoRun
<1>3. PICK running \in Deployments :
        consumers = [g \in running |-> [offset |-> [c \in Claims |-> 0], done |-> None]]
  BY DEF Init
<1>4. TypeOK
  BY <1>1, <1>2, <1>3, FanOutAssumption DEF Init, TypeOK, FanOutAssumption
<1>5. OneRow /\ FromOutbox /\ AtTheBroker
  BY <1>1 DEF Init, NoRun, OneRow, FromOutbox, AtTheBroker
<1>6. \A g \in DOMAIN consumers, c \in Claims : Reached(g, c) = 0
  BY <1>3, FanOutAssumption DEF Reached, FanOutAssumption
<1>7. OffsetsKept
  BY <1>1, <1>6 DEF Init, OffsetsKept
<1>8. CasesGrounded
  BY DEF Init, CasesGrounded
<1> QED BY <1>4, <1>5, <1>7, <1>8 DEF FanOutInv

LEMMA NextInvariant ==
    FanOutInv /\ [Next]_vars => FanOutInv'
<1> SUFFICES ASSUME FanOutInv, [Next]_vars PROVE FanOutInv'
  OBVIOUS
<1>1. CASE \E a \in Adjudications : BeginFinalize(a)
  BY <1>1, BeginFinalizeKeeps
<1>2. CASE \E n \in DOMAIN outbox : CommitFinalize(n) \/ RollbackFinalize(n)
  BY <1>2, CommitFinalizeKeeps, RollbackFinalizeKeeps
<1>3. CASE Relay \/ FailDelivery \/ CrashRelay
  BY <1>3, FetchUnpublishedKeeps, SendKeeps, MarkPublishedKeeps, EndRunKeeps DEF Relay
<1>4. ASSUME NEW g \in DOMAIN consumers,
             (\E c \in Claims : Apply(g, c)) \/ CommitOffset(g) \/ CrashConsumer(g)
      PROVE  FanOutInv'
  BY <1>4, ApplyKeeps, OffsetKeeps
<1>5. CASE UNCHANGED vars
  BY <1>5 DEF vars, cases, FanOutInv, TypeOK, OneRow, FromOutbox, AtTheBroker, OffsetsKept,
              CasesGrounded, IsCommitted, Reached, Done
<1> QED BY <1>1, <1>2, <1>3, <1>4, <1>5 DEF Next

LEMMA CommittedEvents ==
    ASSUME TypeOK, NEW e, IsCommitted(e), NEW c, ClaimOf[e.adj] = c
    PROVE  e \in Committed(c)
  BY DEF IsCommitted, Committed

LEMMA CasesFollow ==
    FanOutInv => CasesHaveCause
  BY CommittedEvents DEF FanOutInv, CasesGrounded, CasesHaveCause

LEMMA AcknowledgementsFollow ==
    FanOutInv => AcknowledgedIsDone
<1> SUFFICES ASSUME FanOutInv PROVE AcknowledgedIsDone
  OBVIOUS
<1>1. TypeOK
  BY DEF FanOutInv
<1>2. \A n \in DOMAIN outbox : outbox[n].state = "published" =>
        outbox[n].event \in Range(topic[ClaimOf[outbox[n].event.adj]])
  BY DEF FanOutInv, AtTheBroker, InTopic, Range
<1>3. ASSUME NEW g \in DOMAIN consumers, NEW c \in Claims, NEW e \in Range(Handled(g, c))
      PROVE  Done(g, c, e)
  <2> DEFINE m == consumers[g].offset[c]
  <2>1. /\ m \in Nat /\ Reached(g, c) \in {m, m + 1}
        /\ Reached(g, c) <= Len(topic[c]) /\ Len(topic[c]) \in Nat
        /\ \A i \in 1 .. Len(topic[c]) : topic[c][i] \in Event
    BY <1>1, ConsumersType, TopicType DEF FanOutInv, OffsetsKept, Reached
  <2>2. /\ Handled(g, c) \in Seq(Event) /\ Len(Handled(g, c)) = m
        /\ \A i \in 1 .. m : Handled(g, c)[i] = topic[c][i]
    <3> HIDE DEF m
    <3>1. m \in Int /\ 1 \in Int /\ \A i \in 1 .. m : topic[c][i] \in Event
      BY <2>1
    <3>2. /\ SubSeq(topic[c], 1, m) \in Seq(Event)
          /\ Len(SubSeq(topic[c], 1, m)) = IF 1 <= m THEN m - 1 + 1 ELSE 0
          /\ \A i \in 1 .. m - 1 + 1 : SubSeq(topic[c], 1, m)[i] = topic[c][1 + i - 1]
      BY <3>1, SubSeqProperties
    <3>3. Handled(g, c) = SubSeq(topic[c], 1, m)
      BY DEF Handled, m
    <3> QED BY <2>1, <3>2, <3>3
  <2>3. DOMAIN Handled(g, c) = 1 .. m
    BY <2>2, LenProperties
  <2>4. PICK i \in 1 .. m : e = topic[c][i]
    BY <2>2, <2>3, <1>3 DEF Range
  <2>5. i \in 1 .. Reached(g, c)
    BY <2>1, <2>4
  <2> QED BY <2>4, <2>5 DEF FanOutInv, OffsetsKept
<1> QED BY <1>2, <1>3 DEF AcknowledgedIsDone, Done

\* The invariant holds in every reachable state: the relay, the broker and the groups
\* know nothing but committed decisions.
THEOREM Invariance == Spec => []FanOutInv
<1> QED BY InitInvariant, NextInvariant, PTL DEF Spec

\* Every variable keeps its table's, job's or topic's shape.
THEOREM TypeCorrect == Spec => []TypeOK
<1>1. FanOutInv => TypeOK
  BY DEF FanOutInv
<1> QED BY <1>1, Invariance, PTL

\* No case without a committed decision that calls for it.
THEOREM CasesAlwaysHaveCause == Spec => []CasesHaveCause
<1> QED BY CasesFollow, Invariance, PTL

\* Nothing is marked published, and no offset committed, before it is done.
THEOREM AcknowledgedIsAlwaysDone == Spec => []AcknowledgedIsDone
<1> QED BY AcknowledgementsFollow, Invariance, PTL

-----------------------------------------------------------------------------
(* Where a claim has one adjudication *)

\* A claim's committed events are one.
LEMMA OneEvent ==
    ASSUME FanOutInv, \A a, b \in Adjudications : ClaimOf[a] = ClaimOf[b] => a = b,
           NEW c \in Claims, NEW d, NEW e, IsCommitted(d), IsCommitted(e),
           ClaimOf[d.adj] = c, ClaimOf[e.adj] = c
    PROVE  d = e
<1>1. PICK m \in DOMAIN outbox : outbox[m].event = d
  BY DEF IsCommitted
<1>2. PICK n \in DOMAIN outbox : outbox[n].event = e
  BY DEF IsCommitted
<1>3. d.adj \in Adjudications /\ e.adj \in Adjudications
  BY <1>1, <1>2, OutboxType DEF FanOutInv
<1>4. m = n
  BY <1>1, <1>2, <1>3 DEF FanOutInv, OneRow
<1> QED BY <1>1, <1>2, <1>4

\* An event that has been handled has left its case, and the case is of that event: there is no
\* other it could be of.
LEMMA HandledAgain ==
    ASSUME FanOutInv, \A a, b \in Adjudications : ClaimOf[a] = ClaimOf[b] => a = b,
           NEW g \in DOMAIN consumers, NEW c \in Claims, Apply(g, c),
           topic[c][consumers[g].offset[c] + 1] \in Range(Handled(g, c))
    PROVE  UNCHANGED cases
<1> DEFINE e == topic[c][consumers[g].offset[c] + 1]
<1>1. TypeOK /\ AcknowledgedIsDone
  BY AcknowledgementsFollow DEF FanOutInv
<1>2. Done(g, c, e)
  BY <1>1 DEF AcknowledgedIsDone, Done
<1>3. IsCommitted(e) /\ ClaimOf[e.adj] = c
  <2>1. /\ consumers[g].offset[c] \in Nat /\ consumers[g].offset[c] < Len(topic[c])
        /\ DOMAIN topic[c] = 1 .. Len(topic[c]) /\ Len(topic[c]) \in Nat
    BY <1>1, ConsumersType, TopicType DEF Apply
  <2>2. consumers[g].offset[c] + 1 \in DOMAIN topic[c]
    BY <2>1
  <2> QED BY <2>2 DEF FanOutInv, FromOutbox
<1>4. ASSUME NEW d, IsCommitted(d), ClaimOf[d.adj] = c PROVE d = e
  BY <1>3, <1>4, OneEvent
<1> HIDE DEF e
<1>5. settlements' = settlements
  <2>1. CASE g = "settlement" /\ e.verdict = "APPROVE"
    <3>1. settlements[c] = Stored[e.approved]
      BY <1>2, <1>4, <2>1 DEF Done, FanOutInv, CasesGrounded
    <3>2. settlements' = [settlements EXCEPT ![c] = Stored[e.approved]]
      BY <2>1 DEF Apply, Settled, e
    <3> QED BY <1>1, <3>1, <3>2 DEF TypeOK
  <2>2. CASE ~(g = "settlement" /\ e.verdict = "APPROVE")
    BY <2>2 DEF Apply, Settled, e
  <2> QED BY <2>1, <2>2
<1>6. investigations' = investigations
  BY <1>2 DEF Done, Apply, Investigated, e
<1>7. recoveries' = recoveries
  BY <1>2 DEF Done, Apply, Recovered, e
<1> QED BY <1>5, <1>6, <1>7 DEF cases

\* "processing the same event twice is a no-op" (consumer_core.py:17-20), for any amounts, crashes
\* and redeliveries, as long as no two adjudications are of one claim.
THEOREM RedeliveryAlwaysNoOp ==
    ASSUME \A a, b \in Adjudications : ClaimOf[a] = ClaimOf[b] => a = b
    PROVE  Spec => RedeliveryIsNoOp
<1>1. FanOutInv =>
        \A g \in DOMAIN consumers, c \in Claims :
          /\ Apply(g, c)
          /\ topic[c][consumers[g].offset[c] + 1] \in Range(Handled(g, c))
          => UNCHANGED cases
  BY HandledAgain
<1> QED BY <1>1, Invariance, PTL DEF RedeliveryIsNoOp

-----------------------------------------------------------------------------
(* The fan-out implements the departments *)

Decided == {outbox[n].event : n \in {m \in DOMAIN outbox : outbox[m].state # "open"}}

LEMMA DecidedIsCommitted ==
    \A e : e \in Decided <=> IsCommitted(e)
BY DEF Decided, IsCommitted

\* A transaction that begins or is rolled back, and a row that is marked, decide nothing.
LEMMA NothingDecided ==
    ASSUME FanOutInv,
           \/ \E a \in Adjudications : BeginFinalize(a)
           \/ \E n \in DOMAIN outbox : RollbackFinalize(n)
           \/ MarkPublished
    PROVE  UNCHANGED <<Decided, cases>>
<1>1. TypeOK /\ outbox \in Seq(Row) /\ DOMAIN outbox = 1 .. Len(outbox) /\ Len(outbox) \in Nat
  BY OutboxType DEF FanOutInv, TypeOK
<1>2. OutboxStep
  BY BeginFinalizeKeeps, RollbackFinalizeKeeps, MarkPublishedKeeps
<1>3. ASSUME NEW m \in DOMAIN outbox', outbox'[m].state # "open"
      PROVE  \E n \in DOMAIN outbox : outbox[n].event = outbox'[m].event /\ outbox[n].state # "open"
  <2>1. CASE \E a \in Adjudications : BeginFinalize(a)
    <3>1. PICK row \in Row : row.state = "open" /\ outbox' = Append(outbox, row)
      <4>1. PICK e \in Event : outbox' = Append(outbox, [event |-> e, state |-> "open"])
        BY <2>1 DEF BeginFinalize
      <4>2. [event |-> e, state |-> "open"] \in Row
        BY DEF Row
      <4> QED BY <4>1, <4>2
    <3>2. /\ DOMAIN outbox' = 1 .. Len(outbox) + 1
          /\ \A n \in 1 .. Len(outbox) : outbox'[n] = outbox[n]
          /\ outbox'[Len(outbox) + 1] = row
      BY <1>1, <3>1, AppendProperties, LenProperties
    <3> QED BY <1>1, <1>3, <3>1, <3>2
  <2>2. CASE \E n \in DOMAIN outbox : RollbackFinalize(n)
    <3>1. PICK n \in DOMAIN outbox : outbox' = RemoveAt(outbox, n)
      BY <2>2 DEF RollbackFinalize
    <3>2. n \in 1 .. Len(outbox)
      BY <1>1
    <3>3. /\ outbox' \in Seq(Row) /\ Len(outbox') = Len(outbox) - 1
          /\ \A i \in 1 .. Len(outbox) - 1 :
               outbox'[i] = IF i < n THEN outbox[i] ELSE outbox[i + 1]
      BY <1>1, <3>1, <3>2, RemoveAtProperties
    <3>4. DOMAIN outbox' = 1 .. Len(outbox) - 1
      BY <3>3, LenProperties
    <3>5. m \in 1 .. Len(outbox) - 1
      BY <1>3, <3>4
    <3>6. CASE m < n
      BY <1>1, <1>3, <3>3, <3>5, <3>6
    <3>7. CASE ~ (m < n)
      <4>1. m + 1 \in DOMAIN outbox /\ outbox'[m] = outbox[m + 1]
        BY <1>1, <3>3, <3>5, <3>7
      <4> QED BY <1>3, <4>1
    <3> QED BY <3>6, <3>7
  <2>3. CASE MarkPublished
    <3>1. DOMAIN outbox' = DOMAIN outbox
      BY <2>3 DEF MarkPublished, Marked
    <3>2. outbox'[m].event = outbox[m].event
      BY <1>1, <2>3, <3>1, OutboxType DEF MarkPublished, Marked, Row
    <3>3. m \in DOMAIN outbox
      BY <3>1
    <3>4. outbox[m].state # "open"
      BY <1>3, <2>3, <3>3 DEF MarkPublished, Marked
    <3> QED BY <3>2, <3>3, <3>4
  <2> QED BY <2>1, <2>2, <2>3
<1>4. \A e : e \in Decided' <=> e \in Decided
  BY <1>2, <1>3 DEF Decided, OutboxStep
<1> QED BY <1>2, <1>4 DEF OutboxStep

\* A COMMIT is a decision, on an adjudication that had none.
LEMMA CommitDecides ==
    ASSUME FanOutInv, NEW n \in DOMAIN outbox, CommitFinalize(n)
    PROVE  \E e \in Event : Depts!Decide(e)
<1> DEFINE e == outbox[n].event
<1>1. TypeOK /\ e \in Event /\ outbox[n].state = "open"
  BY OutboxType DEF FanOutInv, CommitFinalize
<1>2. /\ DOMAIN outbox' = DOMAIN outbox
      /\ \A m \in DOMAIN outbox :
           /\ outbox'[m].event = outbox[m].event
           /\ outbox'[m].state = IF m = n THEN "unpublished" ELSE outbox[m].state
  BY <1>1, OutboxType DEF CommitFinalize, Row
<1>3. Decided' = Decided \cup {e}
  BY <1>2 DEF Decided
<1>4. \A d \in Decided : d.adj # e.adj
  BY <1>1 DEF Decided, FanOutInv, OneRow
<1>5. UNCHANGED cases
  BY DEF CommitFinalize
<1> HIDE DEF e
<1> QED BY <1>1, <1>3, <1>4, <1>5 DEF Depts!Decide, Decided, cases

\* The action of an event opens the case the event calls for, or finds it open and leaves it as
\* it is: there is no other decision it could have been opened from.
LEMMA ApplyOpens ==
    ASSUME FanOutInv, \A a, b \in Adjudications : ClaimOf[a] = ClaimOf[b] => a = b,
           NEW g \in DOMAIN consumers, NEW c \in Claims, Apply(g, c)
    PROVE  \/ UNCHANGED <<Decided, cases>>
           \/ \E e \in Decided : \/ Depts!OpenSettlement(e) \/ Depts!OpenInvestigation(e)
                                \/ Depts!OpenRecovery(e)
<1> DEFINE e == topic[c][consumers[g].offset[c] + 1]
<1>1. TypeOK
  BY DEF FanOutInv
<1>2. IsCommitted(e) /\ ClaimOf[e.adj] = c
  <2>1. /\ consumers[g].offset[c] \in Nat /\ consumers[g].offset[c] < Len(topic[c])
        /\ DOMAIN topic[c] = 1 .. Len(topic[c]) /\ Len(topic[c]) \in Nat
    BY <1>1, ConsumersType, TopicType DEF Apply
  <2>2. consumers[g].offset[c] + 1 \in DOMAIN topic[c]
    BY <2>1
  <2> QED BY <2>2 DEF FanOutInv, FromOutbox
<1>3. ASSUME NEW d, IsCommitted(d), ClaimOf[d.adj] = c PROVE d = e
  BY <1>2, <1>3, OneEvent
<1>4. e \in Decided /\ UNCHANGED Decided
  BY <1>2, DecidedIsCommitted DEF Apply, Decided
<1>5. /\ settlements' = IF g = "settlement" THEN Settled(c, e) ELSE settlements
      /\ investigations' = IF g = "investigation" THEN Investigated(c, e) ELSE investigations
      /\ recoveries' = IF g = "supplier-recovery" THEN Recovered(c, e) ELSE recoveries
  BY DEF Apply
<1> HIDE DEF e
<1>6. CASE g = "settlement" /\ e.verdict = "APPROVE"
  <2>1. settlements' = [settlements EXCEPT ![c] = Stored[e.approved]] /\ UNCHANGED <<investigations, recoveries>>
    BY <1>5, <1>6 DEF Settled
  <2>2. CASE settlements[c] = None
    BY <1>2, <1>4, <1>6, <2>1, <2>2 DEF Depts!OpenSettlement, Decided
  <2>3. CASE settlements[c] # None
    <3>1. settlements[c] = Stored[e.approved]
      BY <1>3, <2>3 DEF FanOutInv, CasesGrounded
    <3> QED BY <1>1, <1>4, <2>1, <3>1 DEF TypeOK, cases
  <2> QED BY <2>2, <2>3
<1>7. CASE g = "investigation" /\ e.verdict = "PEND" /\ investigations[c] = None
  BY <1>2, <1>4, <1>5, <1>7 DEF Depts!OpenInvestigation, Decided, Investigated
<1>8. CASE g = "supplier-recovery" /\ e.supplier /\ recoveries[c] = None
  BY <1>2, <1>4, <1>5, <1>8 DEF Depts!OpenRecovery, Decided, Recovered
<1>9. CASE /\ ~(g = "settlement" /\ e.verdict = "APPROVE")
           /\ ~(g = "investigation" /\ e.verdict = "PEND" /\ investigations[c] = None)
           /\ ~(g = "supplier-recovery" /\ e.supplier /\ recoveries[c] = None)
  BY <1>4, <1>5, <1>9 DEF Settled, Investigated, Recovered, cases
<1> QED BY <1>6, <1>7, <1>8, <1>9

\* Exactly once, seen from downstream: with one adjudication of each claim, the window and the
\* crashes of the relay, the repetitions of the broker and the crashes of the consumers
\* (relay.py:6-12, consumers.py:14-16, consumer_core.py:14-22) never open a case twice, change
\* one that is open, or open one that no decision calls for.
THEOREM FanOutImplementsDepartments ==
    ASSUME \A a, b \in Adjudications : ClaimOf[a] = ClaimOf[b] => a = b
    PROVE  Spec => DepartmentsKept
<1>1. Init => Depts!Init
  <2> SUFFICES ASSUME Init PROVE Depts!Init
    OBVIOUS
  <2>1. DOMAIN outbox = {}
    BY EmptySeq, LenProperties DEF Init
  <2>2. Decided = {}
    BY <2>1 DEF Decided
  <2>3. \A opened \in {settlements, investigations, recoveries} :
          \A c \in DOMAIN opened : opened[c] = None
    BY DEF Init
  <2> QED BY <2>2, <2>3 DEF Depts!Init, Decided
<1>2. FanOutInv /\ [Next]_vars
        => [Depts!Next]_<<Decided, settlements, investigations, recoveries>>
  <2> SUFFICES ASSUME FanOutInv, [Next]_vars
               PROVE  UNCHANGED <<Decided, cases>> \/ Depts!Next
    BY DEF cases
  <2>1. CASE (\E a \in Adjudications : BeginFinalize(a))
               \/ (\E n \in DOMAIN outbox : RollbackFinalize(n)) \/ MarkPublished
    BY <2>1, NothingDecided
  <2>2. CASE \E n \in DOMAIN outbox : CommitFinalize(n)
    BY <2>2, CommitDecides DEF Depts!Next
  <2>3. CASE FetchUnpublished \/ Deliver \/ EndRun \/ FailDelivery \/ CrashRelay
    BY <2>3 DEF FetchUnpublished, Deliver, EndRun, FailDelivery, CrashRelay, Decided
  <2>4. CASE \E g \in DOMAIN consumers, c \in Claims : Apply(g, c)
    BY <2>4, ApplyOpens DEF Depts!Next, Decided
  <2>5. CASE \E g \in DOMAIN consumers : CommitOffset(g) \/ CrashConsumer(g)
    BY <2>5 DEF CommitOffset, CrashConsumer, Decided
  <2>6. CASE UNCHANGED vars
    BY <2>6 DEF vars, Decided
  <2> QED BY <2>1, <2>2, <2>3, <2>4, <2>5, <2>6 DEF Next, Relay
<1> QED BY <1>1, <1>2, Invariance, PTL DEF Spec, DepartmentsKept, Depts!Spec, Decided

-----------------------------------------------------------------------------
(* The relay's window *)

\* Those of a set that are smaller.
Below(S, m) == {k \in S : k < m}

\* A set of natural numbers that is not empty has a least element.
LEMMA LeastOf ==
    ASSUME NEW T \in SUBSET Nat, T # {}
    PROVE  \E n \in T : \A m \in T : n <= m
<1>1. PICK n \in T : \A m \in T : ~ (<<m, n>> \in OpToRel(<, Nat))
  BY NatLessThanWellFounded, WFMin
<1>2. \A m \in T : ~ (m < n)
  BY <1>1 DEF OpToRel
<1> QED BY <1>2

\* One that is bounded has a greatest one.
LEMMA GreatestOf ==
    ASSUME NEW T \in SUBSET Nat, T # {}, NEW bound \in Nat, \A m \in T : m <= bound
    PROVE  \E n \in T : \A m \in T : m <= n
<1> DEFINE Rest == {bound - m : m \in T}
<1>1. Rest \in SUBSET Nat /\ Rest # {}
  <2>1. \A m \in T : bound - m \in Nat
    OBVIOUS
  <2> QED BY <2>1
<1>2. PICK r \in Rest : \A s \in Rest : r <= s
  <2> HIDE DEF Rest
  <2> QED BY <1>1, LeastOf
<1>3. PICK n \in T : r = bound - n
  OBVIOUS
<1>4. ASSUME NEW m \in T PROVE m <= n
  <2>1. bound - n <= bound - m
    BY <1>2, <1>3
  <2> QED BY <2>1
<1> QED BY <1>4

\* Fewer are smaller than a smaller one.
LEMMA BelowCounts ==
    ASSUME NEW S \in SUBSET Nat, IsFiniteSet(S)
    PROVE  /\ \A m \in S : /\ IsFiniteSet(Below(S, m)) /\ Cardinality(Below(S, m)) \in Nat
                           /\ Cardinality(Below(S, m)) < Cardinality(S)
           /\ \A m, n \in S : m < n => Cardinality(Below(S, m)) < Cardinality(Below(S, n))
<1>1. ASSUME NEW m \in S
      PROVE  /\ IsFiniteSet(Below(S, m)) /\ Cardinality(Below(S, m)) \in Nat
             /\ IsFiniteSet(Below(S, m) \cup {m})
             /\ Cardinality(Below(S, m) \cup {m}) = Cardinality(Below(S, m)) + 1
  <2>1. Below(S, m) \in SUBSET S /\ m \notin Below(S, m)
    BY DEF Below
  <2>2. IsFiniteSet(Below(S, m))
    BY <2>1, FS_Subset
  <2> QED BY <2>1, <2>2, FS_CardinalityType, FS_AddElement
<1>2. ASSUME NEW m \in S, NEW T \in SUBSET S, Below(S, m) \cup {m} \in SUBSET T
      PROVE  Cardinality(Below(S, m)) < Cardinality(T)
  <2> DEFINE l == Cardinality(Below(S, m) \cup {m})
             k == Cardinality(Below(S, m))
             t == Cardinality(T)
  <2>1. IsFiniteSet(T)
    BY FS_Subset
  <2>2. t \in Nat /\ l <= t
    BY <1>2, <2>1, FS_Subset, FS_CardinalityType
  <2>3. k \in Nat /\ l = k + 1
    BY <1>1
  <2> HIDE DEF l, k, t
  <2>4. k < t
    BY <2>2, <2>3
  <2> QED BY <2>4 DEF k, t
<1>3. ASSUME NEW m \in S, NEW n \in S, m < n
      PROVE  Below(S, m) \cup {m} \in SUBSET Below(S, n) /\ Below(S, n) \in SUBSET S
  <2>1. m \in Nat /\ n \in Nat
    OBVIOUS
  <2>2. ASSUME NEW k \in S, k < m PROVE k < n
    <3>1. k \in Nat
      OBVIOUS
    <3> QED BY <1>3, <2>1, <2>2, <3>1
  <2> QED BY <1>3, <2>2 DEF Below
<1>4. ASSUME NEW m \in S
      PROVE  /\ IsFiniteSet(Below(S, m)) /\ Cardinality(Below(S, m)) \in Nat
             /\ Cardinality(Below(S, m)) < Cardinality(S)
  <2>1. Below(S, m) \cup {m} \in SUBSET S /\ S \in SUBSET S
    BY DEF Below
  <2>2. Cardinality(Below(S, m)) < Cardinality(S)
    BY <1>2, <2>1
  <2> QED BY <1>1, <2>2
<1>5. ASSUME NEW m \in S, NEW n \in S, m < n
      PROVE  Cardinality(Below(S, m)) < Cardinality(Below(S, n))
  BY <1>2, <1>3, <1>5
<1> QED BY <1>4, <1>5

\* A finite set of natural numbers can be put in order, the least one first.
LEMMA AscendingOrder ==
    ASSUME NEW S \in SUBSET Nat, IsFiniteSet(S), S # {}
    PROVE  /\ Ascending(S) # {}
           /\ \A q \in Ascending(S) : 1 \in DOMAIN q /\ \A m \in S : q[1] <= m
<1> DEFINE size == Cardinality(S)
           rank == [m \in S |-> Cardinality(Below(S, m)) + 1]
<1>1. /\ size \in Nat \ {0} /\ IsFiniteSet(1 .. size) /\ Cardinality(1 .. size) = size
  <2>1. size \in Nat /\ size # 0
    BY FS_CardinalityType, FS_EmptySet
  <2> HIDE DEF size
  <2>2. 1 \in Int /\ size \in Int
    BY <2>1
  <2>3. IsFiniteSet(1 .. size) /\ Cardinality(1 .. size) = IF 1 > size THEN 0 ELSE size - 1 + 1
    BY <2>2, FS_Interval
  <2> QED BY <2>1, <2>3
<1>2. /\ rank \in [S -> 1 .. size]
      /\ \A m, n \in S : m < n => rank[m] < rank[n]
      /\ \A m \in S : rank[m] \in Nat
  <2>1. ASSUME NEW m \in S
        PROVE  Cardinality(Below(S, m)) + 1 \in 1 .. size /\ Cardinality(Below(S, m)) \in Nat
    <3> DEFINE k == Cardinality(Below(S, m))
    <3>1. k \in Nat /\ k < size
      BY BelowCounts
    <3> HIDE DEF k, size
    <3>2. k + 1 \in 1 .. size
      BY <1>1, <3>1
    <3> QED BY <3>1, <3>2 DEF k
  <2>2. rank \in [S -> 1 .. size]
    BY <2>1
  <2>3. ASSUME NEW m \in S, NEW n \in S, m < n PROVE rank[m] < rank[n]
    <3> DEFINE k == Cardinality(Below(S, m))
               l == Cardinality(Below(S, n))
    <3>1. k \in Nat /\ l \in Nat /\ k < l /\ rank[m] = k + 1 /\ rank[n] = l + 1
      BY <2>1, <2>3, BelowCounts
    <3> HIDE DEF k, l, rank
    <3> QED BY <3>1
  <2>4. \A m \in S : rank[m] \in Nat
    BY <2>1
  <2> QED BY <2>2, <2>3, <2>4
<1> HIDE DEF rank
<1>3. \A m, n \in S : rank[m] < rank[n] => m < n
  BY <1>2
<1>4. \A i \in 1 .. size : \E m \in S : rank[m] = i
  <2>1. rank \in Injection(S, 1 .. size)
    BY <1>2 DEF Injection, IsInjective
  <2>2. rank \in Surjection(S, 1 .. size)
    BY <1>1, <2>1, FS_Injection
  <2> QED BY <2>2 DEF Surjection
<1>5. Ascending(S) # {}
  <2> DEFINE order == [i \in 1 .. size |-> CHOOSE m \in S : rank[m] = i]
  <2>1. \A i \in 1 .. size : order[i] \in S /\ rank[order[i]] = i
    BY <1>4
  <2>2. order \in [1 .. size -> S] /\ DOMAIN order = 1 .. size
    BY <2>1
  <2> HIDE DEF order
  <2>3. ASSUME NEW i \in 1 .. size, NEW j \in 1 .. size, i < j
        PROVE  order[i] < order[j]
    <3>1. order[i] \in S /\ order[j] \in S /\ rank[order[i]] < rank[order[j]]
      BY <2>1, <2>3
    <3> QED BY <1>3, <3>1
  <2>4. order \in Ascending(S)
    BY <2>2, <2>3 DEF Ascending
  <2> QED BY <2>4
<1>6. ASSUME NEW q \in Ascending(S)
      PROVE  1 \in DOMAIN q /\ \A m \in S : q[1] <= m
  <2>1. /\ q \in [1 .. size -> S] /\ DOMAIN q = 1 .. size
        /\ \A i, j \in DOMAIN q : i < j => q[i] < q[j]
    BY <1>6 DEF Ascending
  <2> HIDE DEF size
  <2>2. \A i \in 1 .. size : q[i] \in S /\ q[i] \in Nat
    BY <2>1
  <2>3. q \in Injection(1 .. size, S)
    BY <2>1, <2>2 DEF Injection, IsInjective
  <2>4. q \in Surjection(1 .. size, S)
    BY <1>1, <2>3, FS_Injection DEF size
  <2>5. ASSUME NEW m \in S PROVE q[1] <= m
    <3>1. PICK i \in 1 .. size : q[i] = m
      BY <2>4 DEF Surjection
    <3>2. i = 1 \/ 1 < i
      BY <1>1
    <3> QED BY <1>1, <2>1, <2>2, <3>1, <3>2
  <2> QED BY <1>1, <2>1, <2>5
<1> QED BY <1>5, <1>6

\* What a run fetches are the oldest rows that are not published: at least one if there
\* is one, no more than it may, and none that is younger than a row it leaves.
WindowIsOldest ==
    Unpublished # {} =>
      /\ Cardinality(Fetched(MaxEvents)) \in 1 .. MaxEvents
      /\ Ascending(Fetched(MaxEvents)) # {}
      /\ \A q \in Ascending(Fetched(MaxEvents)) : \A m \in Unpublished : q[1] <= m
      /\ \A n \in Fetched(MaxEvents), m \in Unpublished \ Fetched(MaxEvents) : n < m

\* So a relay that starts finds the oldest row in its window, and rows that were not
\* delivered are fetched again before any that came later (SELECT_UNPUBLISHED_SQL).
THEOREM WindowAlwaysOldest == Spec => []WindowIsOldest
<1>1. TypeOK => WindowIsOldest
  <2> SUFFICES ASSUME TypeOK, Unpublished # {}
               PROVE  /\ Cardinality(Fetched(MaxEvents)) \in 1 .. MaxEvents
                      /\ Ascending(Fetched(MaxEvents)) # {}
                      /\ \A q \in Ascending(Fetched(MaxEvents)) : \A m \in Unpublished : q[1] <= m
                      /\ \A n \in Fetched(MaxEvents), m \in Unpublished \ Fetched(MaxEvents) : n < m
    BY DEF WindowIsOldest
  <2> DEFINE U == Unpublished
             S == Fetched(MaxEvents)
  <2>1. /\ Len(outbox) \in Nat /\ U \in SUBSET Nat /\ IsFiniteSet(U)
        /\ \A m \in U : m <= Len(outbox)
    <3>1. DOMAIN outbox = 1 .. Len(outbox) /\ Len(outbox) \in Nat
      BY OutboxType
    <3>2. U \in SUBSET Nat /\ \A m \in U : m <= Len(outbox)
      BY <3>1 DEF Unpublished
    <3> QED BY <3>1, <3>2, FS_BoundedSetOfNaturals
  <2>2. S = {m \in U : Cardinality(Below(U, m)) < MaxEvents}
    BY DEF Fetched, Below
  <2>3. MaxEvents \in Nat \ {0} /\ U # {}
    BY FanOutAssumption DEF FanOutAssumption
  <2> HIDE DEF U, S
  <2>4. \A n \in S, m \in U \ S : n < m
    <3> SUFFICES ASSUME NEW n \in S, NEW m \in U \ S, ~ (n < m) PROVE FALSE
      OBVIOUS
    <3>1. n \in U /\ m \in U /\ n # m /\ n \in Nat /\ m \in Nat
      BY <2>1, <2>2
    <3> DEFINE k == Cardinality(Below(U, m))
               l == Cardinality(Below(U, n))
    <3>2. k \in Nat /\ l \in Nat /\ k < l
      BY <2>1, <3>1, BelowCounts
    <3>3. l < MaxEvents
      BY <2>2
    <3> HIDE DEF k, l
    <3>4. k < MaxEvents
      BY <2>3, <3>2, <3>3
    <3> QED BY <2>2, <3>4 DEF k
  <2>5. PICK oldest \in U : \A m \in U : oldest <= m
    BY <2>1, <2>3, LeastOf
  <2>6. oldest \in S
    <3>1. ASSUME NEW k \in U PROVE ~ (k < oldest)
      <4>1. k \in Nat /\ oldest \in Nat /\ oldest <= k
        BY <2>1, <2>5
      <4> QED BY <4>1
    <3> DEFINE below == Below(U, oldest)
    <3>2. below = {}
      BY <3>1 DEF Below
    <3>3. Cardinality(Below(U, oldest)) = 0
      BY <3>2, FS_EmptySet
    <3> QED BY <2>2, <2>3, <3>3
  <2>7. S \in SUBSET U /\ S \in SUBSET Nat /\ IsFiniteSet(S) /\ S # {}
    <3>1. S \in SUBSET U
      BY <2>2
    <3> QED BY <2>1, <2>6, <3>1, FS_Subset
  <2>8. /\ Ascending(S) # {}
        /\ \A q \in Ascending(S) : 1 \in DOMAIN q /\ q[1] <= oldest
    BY <2>6, <2>7, AscendingOrder
  <2>9. ASSUME NEW q \in Ascending(S), NEW m \in U PROVE q[1] <= m
    <3>1. q[1] \in S
      BY <2>8 DEF Ascending
    <3>2. q[1] \in Nat /\ q[1] <= oldest /\ oldest <= m /\ oldest \in Nat /\ m \in Nat
      BY <2>1, <2>5, <2>7, <2>8, <3>1
    <3> QED BY <3>2
  <2>10. Cardinality(S) \in 1 .. MaxEvents
    <3>1. PICK last \in S : \A m \in S : m <= last
      BY <2>1, <2>7, GreatestOf
    <3>2. /\ IsFiniteSet(Below(U, last)) /\ Cardinality(Below(U, last)) \in Nat
          /\ Cardinality(Below(U, last)) < MaxEvents /\ last \notin Below(U, last)
      BY <2>1, <2>2, <2>7, BelowCounts DEF Below
    <3>3. S \in SUBSET (Below(U, last) \cup {last})
      BY <2>1, <2>7, <3>1 DEF Below
    <3> DEFINE k == Cardinality(Below(U, last))
               l == Cardinality(Below(U, last) \cup {last})
               s == Cardinality(S)
    <3>4. IsFiniteSet(Below(U, last) \cup {last}) /\ l = k + 1
      BY <3>2, FS_AddElement
    <3>5. s \in Nat /\ s # 0 /\ s <= l
      BY <2>7, <3>3, <3>4, FS_Subset, FS_CardinalityType, FS_EmptySet
    <3>6. k \in Nat /\ k < MaxEvents
      BY <3>2
    <3> HIDE DEF k, l, s
    <3>7. s \in 1 .. MaxEvents
      BY <2>3, <3>4, <3>5, <3>6
    <3> QED BY <3>7 DEF s
  <2> QED BY <2>4, <2>8, <2>9, <2>10 DEF U, S
<1> QED BY <1>1, TypeCorrect, PTL
=============================================================================
