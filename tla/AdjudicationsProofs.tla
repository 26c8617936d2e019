-------------------------- MODULE AdjudicationsProofs --------------------------
(* Theorems of Adjudications, and of Downstream, for every value of their constants. *)
EXTENDS Downstream, TLAPS

-----------------------------------------------------------------------------
(* Facts about the vocabulary *)

\* Every agent verdict has an operational form.
LEMMA OperationalVerdictType ==
    \A v \in AgentVerdicts : OperationalVerdict(v) \in OperationalVerdicts
  BY DEF AgentVerdicts, OperationalVerdict, OperationalVerdicts

\* The literal verdicts and dispositions the definitions use are of the types.
LEMMA VocabularyTypes ==
    /\ "DENY" \in OperationalVerdicts
    /\ "DENY" \in Dispositions
    /\ 0 \in Amounts
    /\ Amounts \subseteq Nat
  BY AdjudicationsAssumption DEF OperationalVerdicts, Dispositions, DenyDispositions

\* A column keeps an amount of money as an amount of money; what the tolerance lets
\* pass for an amount within the claim, or for nothing, it keeps as just that.
LEMMA StoredAmounts ==
    /\ \A a \in Amounts : Stored[a] \in Amounts
    /\ Stored[0] = 0
    /\ \A c \in Claims : \A a \in Amounts : a <= Claimed[c] + Tolerance => Stored[a] <= Claimed[c]
    /\ \A a \in Amounts : AmountsEqual(a, 0) => Stored[a] = 0
  <1>1. ASSUME NEW c \in Claims, NEW a \in Amounts, a <= Claimed[c] + Tolerance
        PROVE  Stored[a] <= Claimed[c]
    <2>1. Claimed[c] \in Amounts /\ Stored[Claimed[c]] = Claimed[c]
      BY AdjudicationsAssumption
    <2>2. a \in Nat /\ Claimed[c] \in Nat /\ Tolerance \in Nat
      BY <2>1, AdjudicationsAssumption
    <2>3. CASE a <= Claimed[c]
      <3>1. Stored[a] <= Stored[Claimed[c]]
        BY <2>1, <2>3, AdjudicationsAssumption
      <3> QED  BY <2>1, <3>1
    <2>4. CASE ~(a <= Claimed[c])
      <3>1. a - Claimed[c] <= Tolerance /\ Claimed[c] - a <= Tolerance
        BY <1>1, <2>2, <2>4
      <3>2. Stored[a] = Claimed[c]
        BY <2>1, <3>1, AdjudicationsAssumption
      <3> QED  BY <2>2, <3>2
    <2> QED  BY <2>3, <2>4
  <1>2. ASSUME NEW a \in Amounts, AmountsEqual(a, 0)
        PROVE  Stored[a] = 0
    <2>1. 0 \in Amounts /\ Stored[0] = 0 /\ a \in Nat /\ Tolerance \in Nat
      BY AdjudicationsAssumption
    <2>2. a - 0 <= Tolerance /\ 0 - a <= Tolerance
      BY <1>2, <2>1 DEF AmountsEqual
    <2> QED  BY <2>1, <2>2, AdjudicationsAssumption
  <1> QED  BY <1>1, <1>2, AdjudicationsAssumption

\* A recommendation the endpoint records is a version without a human.
LEMMA RecommendationType ==
    ASSUME NEW c \in Claims, NEW rec \in Recommendations(c)
    PROVE  /\ rec \in Record
           /\ rec.approved <= Claimed[c]
           /\ Stored[rec.approved] = rec.approved
           /\ rec.by = NoUser
           /\ rec.reason = FALSE
           /\ Enforced(rec)
  BY DEF Recommendations, Record

\* The projection of a version onto the adjudications row is a row.
LEMMA AdjudicationRowType ==
    ASSUME NEW rec \in Record
    PROVE  AdjudicationRow(rec) \in Row
  <1>1. OperationalVerdict(rec.verdict) \in OperationalVerdicts
    BY OperationalVerdictType DEF Record
  <1>2. rec.disposition \in Dispositions /\ Stored[rec.approved] \in Amounts
    BY StoredAmounts DEF Record
  <1> QED  BY <1>1, <1>2 DEF AdjudicationRow, Row

\* So is a finalized row.
LEMMA FinalRowType ==
    ASSUME NEW d \in Decision, NEW read \in Row, NEW row \in Row
    PROVE  FinalRow(d, read, row) \in Row
  <1>1. OperationalVerdict(d.verdict) \in OperationalVerdicts
    BY OperationalVerdictType DEF Decision
  <1>2. Differs(d, read) \in BOOLEAN
    BY DEF Differs, AmountsEqual
  <1>3. (Differs(d, read) /\ d.reason) \in BOOLEAN
    OBVIOUS
  <1>4. Stored[d.approved] \in Amounts
    BY StoredAmounts DEF Decision
  <1> QED  BY <1>1, <1>2, <1>3, <1>4 DEF FinalRow, Row, Decision

\* And the human version is a version.
LEMMA FinalRecordType ==
    ASSUME NEW d \in Decision, NEW read \in Row, NEW latest \in Record
    PROVE  FinalRecord(d, read, latest) \in Record
  <1>1. (d.verdict = "DENY" /\ d.disposition = "DUPLICATE") \in BOOLEAN
    OBVIOUS
  <1>2. (Differs(d, read) /\ d.reason) \in BOOLEAN
    OBVIOUS
  <1> QED  BY <1>1, <1>2 DEF FinalRecord, Record, Decision

LEMMA AdjudicatedEventType ==
    ASSUME NEW id \in AdjIds, NEW d \in Decision
    PROVE  AdjudicatedEvent(id, d) \in Event
  <1>1. OperationalVerdict(d.verdict) \in OperationalVerdicts
    BY OperationalVerdictType DEF Decision
  <1> QED  BY <1>1 DEF AdjudicatedEvent, Event, Decision

-----------------------------------------------------------------------------
(* What a step leaves alone *)

\* A step that writes no table keeps what the tables say.
LEMMA StoreKept ==
    ASSUME OneStory, \A id \in AdjIds : AgentEntry(id) /\ HumanEntry(id),
           UNCHANGED store
    PROVE  OneStory' /\ \A id \in AdjIds : (AgentEntry(id) /\ HumanEntry(id))'
  <1>1. adjudications' = adjudications /\ records' = records /\ outbox' = outbox
    BY DEF store
  <1>2. OneStory'
    BY <1>1 DEF OneStory, NoStory, RecommendedStory, FinalStory, EventsOf
  <1>3. \A id \in AdjIds : (AgentEntry(id) /\ HumanEntry(id))'
    BY <1>1 DEF AgentEntry, HumanEntry
  <1> QED  BY <1>2, <1>3

\* A step of somebody else that writes no adjudications row keeps what the
\* invocations know.
LEMMA InvocationsKept ==
    ASSUME \A k \in Calls : InvocationKnows(k), OneInserter,
           calls' = calls, adjudications' = adjudications
    PROVE  (\A k \in Calls : InvocationKnows(k)') /\ OneInserter'
  BY DEF InvocationKnows, OneInserter

\* And what the finalize transactions know.
LEMMA RequestsKept ==
    ASSUME \A r \in Requests : RequestKnows(r), OneHolder,
           requests' = requests, adjudications' = adjudications
    PROVE  (\A r \in Requests : RequestKnows(r)') /\ OneHolder'
  BY DEF RequestKnows, OneHolder

\* Invocations are idle or in one of the three stages of a transaction.
LEMMA CallStages ==
    ASSUME TypeOK, NEW k \in Calls
    PROVE  /\ calls[k] = IdleCall \/ calls[k] \in Call
           /\ calls[k] # IdleCall <=> calls[k].stage \in {"computed", "row", "record"}
           /\ IdleCall.stage = "idle"
  BY DEF TypeOK, IdleCall, Call

\* Requests are between requests, with a reply, or in one of the four stages.
LEMMA RequestStages ==
    ASSUME TypeOK, NEW r \in Requests
    PROVE  /\ requests[r].stage \in TxStages => requests[r] \in Tx
           /\ requests[r].stage \notin TxStages =>
                \E s \in Replies \cup {"idle"} : requests[r] = Replied(s)
           /\ \A s \in Replies \cup {"idle"} : Replied(s).stage \notin TxStages
  BY DEF TypeOK, Replied, Replies, Tx, TxStages

-----------------------------------------------------------------------------
(* The steps of an invocation *)

\* An invocation that starts has written nothing, so its record is all it knows.
LEMMA AdjudicateStep ==
    ASSUME IInv, NEW k \in Calls, Adjudicate(k)
    PROVE  IInv'
  <1> USE DEF IInv
  <1>0. PICK c \in Claims, s \in Sources : \E rec \in Recommendations(c) :
          calls' = [calls EXCEPT ![k] =
                     [stage |-> "computed", id |-> [claim |-> c, source |-> s],
                      record |-> rec, newRow |-> FALSE, newRecord |-> FALSE]]
    BY DEF Adjudicate
  <1>1. PICK rec \in Recommendations(c) :
          calls' = [calls EXCEPT ![k] =
                     [stage |-> "computed", id |-> [claim |-> c, source |-> s],
                      record |-> rec, newRow |-> FALSE, newRecord |-> FALSE]]
    BY <1>0
  <1>2. UNCHANGED <<adjudications, records, outbox, requests>>
    BY DEF Adjudicate, store
  <1>3. calls \in [Calls -> {IdleCall} \cup Call]
    BY DEF TypeOK
  <1>4. [claim |-> c, source |-> s] \in AdjIds
    BY <1>3 DEF AdjIds
  <1>5. calls'[k] \in Call
    BY <1>1, <1>3, <1>4, RecommendationType DEF Call
  <1>6. TypeOK'
    BY <1>1, <1>2, <1>3, <1>5 DEF TypeOK
  <1>7. /\ calls'[k].stage = "computed"
        /\ calls'[k].newRow = FALSE
        /\ calls'[k].record = rec
        /\ calls'[k].id.claim = c
        /\ \A j \in Calls \ {k} : calls'[j] = calls[j]
    BY <1>1, <1>3
  <1>8. \A j \in Calls : InvocationKnows(j)'
    BY <1>2, <1>7 DEF InvocationKnows
  <1>9. OneInserter'
    BY <1>7 DEF OneInserter
  <1> QED  BY <1>2, <1>6, <1>8, <1>9, StoreKept, RequestsKept DEF store

\* The INSERT finds the row or not, and nobody else has inserted it meanwhile.
LEMMA InsertAdjudicationStep ==
    ASSUME IInv, NEW k \in Calls, InsertAdjudication(k)
    PROVE  IInv'
  <1> USE DEF IInv
  <1>1. UNCHANGED <<adjudications, records, outbox, requests>>
    BY DEF InsertAdjudication, store
  <1>2. calls[k] \in Call /\ calls[k].stage = "computed"
    BY CallStages DEF InsertAdjudication, IdleCall
  <1>3. calls \in [Calls -> {IdleCall} \cup Call]
    BY DEF TypeOK
  <1>4. /\ calls'[k] = [calls[k] EXCEPT !.stage = "row",
                          !.newRow = (adjudications[calls[k].id].status = "ABSENT")]
        /\ \A j \in Calls \ {k} : calls'[j] = calls[j]
        /\ calls' \in [Calls -> {IdleCall} \cup Call]
    BY <1>2, <1>3 DEF InsertAdjudication, Call
  <1>5. /\ calls'[k] # IdleCall
        /\ calls'[k].stage = "row"
        /\ calls'[k].id = calls[k].id
        /\ calls'[k].record = calls[k].record
        /\ calls'[k].newRow <=> adjudications[calls[k].id].status = "ABSENT"
    BY <1>2, <1>4 DEF Call, IdleCall
  <1>6. TypeOK'
    BY <1>1, <1>4 DEF TypeOK
  <1>7. InvocationKnows(k)'
    BY <1>1, <1>2, <1>5 DEF InvocationKnows, IdleCall
  <1>8. \A j \in Calls : InvocationKnows(j)'
    BY <1>1, <1>4, <1>7, ZenonT(60) DEF InvocationKnows
  <1>9. OneInserter'
    BY <1>4, <1>5 DEF OneInserter, InsertAdjudication, InsertWaits
  <1> QED  BY <1>1, <1>6, <1>8, <1>9, StoreKept, RequestsKept DEF store

\* The record is inserted exactly when the row was.
LEMMA InsertDecisionRecordStep ==
    ASSUME IInv, NEW k \in Calls, InsertDecisionRecord(k)
    PROVE  IInv'
  <1> USE DEF IInv
  <1>1. UNCHANGED <<adjudications, records, outbox, requests>>
    BY DEF InsertDecisionRecord, store
  <1>2. calls[k] \in Call /\ calls[k].stage = "row"
    BY CallStages DEF InsertDecisionRecord, IdleCall
  <1>3. calls \in [Calls -> {IdleCall} \cup Call]
    BY DEF TypeOK
  <1>4. /\ calls'[k] = [calls[k] EXCEPT !.stage = "record",
                          !.newRecord = (records[calls[k].id] = <<>>)]
        /\ \A j \in Calls \ {k} : calls'[j] = calls[j]
        /\ calls' \in [Calls -> {IdleCall} \cup Call]
    BY <1>2, <1>3 DEF InsertDecisionRecord, Call
  <1>5. /\ calls'[k] # IdleCall
        /\ calls'[k].stage = "record"
        /\ calls'[k].id = calls[k].id
        /\ calls'[k].record = calls[k].record
        /\ calls'[k].newRow = calls[k].newRow
        /\ calls'[k].newRecord <=> records[calls[k].id] = <<>>
    BY <1>2, <1>4 DEF Call, IdleCall
  <1>6. TypeOK'
    BY <1>1, <1>4 DEF TypeOK
  <1>7. records[calls[k].id] = <<>> <=> adjudications[calls[k].id].status = "ABSENT"
    <2>1. calls[k].id \in AdjIds
      BY <1>2 DEF Call
    <2>2. /\ adjudications[calls[k].id].status \in {"ABSENT", "RECOMMENDED", "FINAL"}
          /\ records[calls[k].id] \in Seq(Record)
      BY <2>1 DEF TypeOK, Row
    <2> QED  BY <2>1, <2>2 DEF OneStory, NoStory, RecommendedStory, FinalStory
  <1>8. InvocationKnows(k)'
    <2>1. calls[k] # IdleCall
      BY <1>2, CallStages
    <2>2. calls'[k].newRow = calls'[k].newRecord
      <3>1. calls'[k].newRow \in BOOLEAN /\ calls'[k].newRecord \in BOOLEAN
        BY <1>4, <1>5, CallStages DEF Call
      <3>2. calls[k].newRow <=> adjudications[calls[k].id].status = "ABSENT"
        BY <1>2, <2>1 DEF InvocationKnows
      <3> QED  BY <1>5, <1>7, <3>1, <3>2
    <2> QED  BY <1>1, <1>2, <1>5, <2>1, <2>2 DEF InvocationKnows
  <1>9. \A j \in Calls : InvocationKnows(j)'
    BY <1>1, <1>4, <1>8, ZenonT(60) DEF InvocationKnows
  <1>10. OneInserter'
    <2>1. calls[k] # IdleCall
      BY <1>2, CallStages
    <2>2. \A j \in Calls : calls'[j] # IdleCall /\ calls'[j].newRow =>
            calls[j] # IdleCall /\ calls[j].newRow /\ calls'[j].id = calls[j].id
      BY <1>4, <1>5, <2>1
    <2> QED  BY <2>2 DEF OneInserter
  <1> QED  BY <1>1, <1>6, <1>9, <1>10, StoreKept, RequestsKept DEF store

\* An invocation that fails forgets what it knew.
LEMMA FailCallStep ==
    ASSUME IInv, NEW k \in Calls, FailCall(k)
    PROVE  IInv'
  <1> USE DEF IInv
  <1>1. UNCHANGED <<adjudications, records, outbox, requests>>
    BY DEF FailCall, store
  <1>2. /\ calls' \in [Calls -> {IdleCall} \cup Call]
        /\ calls'[k] = IdleCall
        /\ \A j \in Calls \ {k} : calls'[j] = calls[j]
    BY DEF FailCall, TypeOK
  <1>3. TypeOK'
    BY <1>1, <1>2 DEF TypeOK
  <1>4. \A j \in Calls : InvocationKnows(j)'
    BY <1>1, <1>2 DEF InvocationKnows
  <1>5. OneInserter'
    BY <1>2 DEF OneInserter
  <1> QED  BY <1>1, <1>3, <1>4, <1>5, StoreKept, RequestsKept DEF store

\* COMMIT: the row and its version appear together, or nothing does.
LEMMA CommitCallStep ==
    ASSUME IInv, NEW k \in Calls, CommitCall(k)
    PROVE  IInv'
  <1> USE DEF IInv
  <1> DEFINE call == calls[k]
  <1>1. call \in Call /\ call.stage = "record" /\ call # IdleCall
    BY CallStages DEF CommitCall, IdleCall
  <1>2. /\ call.id \in AdjIds
        /\ call.record \in Record
        /\ call.record \in Recommendations(call.id.claim)
        /\ call.newRow \in BOOLEAN
        /\ call.newRecord = call.newRow
        /\ call.newRow => adjudications[call.id].status = "ABSENT"
        /\ ~call.newRow => adjudications[call.id].status # "ABSENT"
    BY <1>1 DEF Call, InvocationKnows
  <1>3. UNCHANGED <<outbox, requests>>
    BY DEF CommitCall
  <1>4. /\ calls' \in [Calls -> {IdleCall} \cup Call]
        /\ calls'[k] = IdleCall
        /\ \A j \in Calls \ {k} : calls'[j] = calls[j]
    BY DEF CommitCall, TypeOK
  <1>5. OneInserter'
    BY <1>4 DEF OneInserter
  <1>6. CASE ~call.newRow
    <2>1. UNCHANGED <<adjudications, records>>
      BY <1>2, <1>6 DEF CommitCall
    <2>2. TypeOK'
      BY <1>3, <1>4, <2>1 DEF TypeOK
    <2>3. \A j \in Calls : InvocationKnows(j)'
      BY <1>4, <2>1 DEF InvocationKnows
    <2> QED  BY <1>3, <1>5, <2>1, <2>2, <2>3, StoreKept, RequestsKept DEF store
  <1>7. CASE call.newRow
    <2>1. /\ adjudications' = [adjudications EXCEPT ![call.id] = AdjudicationRow(call.record)]
          /\ records' = [records EXCEPT ![call.id] = <<call.record>>]
      BY <1>2, <1>7 DEF CommitCall
    <2>2. adjudications \in [AdjIds -> Row] /\ records \in [AdjIds -> Seq(Record)]
      BY DEF TypeOK
    <2>3. /\ adjudications'[call.id] = AdjudicationRow(call.record)
          /\ records'[call.id] = <<call.record>>
          /\ \A id \in AdjIds \ {call.id} : /\ adjudications'[id] = adjudications[id]
                                           /\ records'[id] = records[id]
      BY <1>2, <2>1, <2>2
    <2>4. TypeOK'
      <3>1. adjudications' \in [AdjIds -> Row]
        BY <1>2, <2>1, <2>2, AdjudicationRowType
      <3>2. records' \in [AdjIds -> Seq(Record)]
        BY <1>2, <2>1, <2>2
      <3> QED  BY <1>3, <1>4, <3>1, <3>2 DEF TypeOK
    <2>5. adjudications'[call.id].status = "RECOMMENDED"
      BY <2>3 DEF AdjudicationRow
    <2>6. OneStory'
      <3>1. PICK id \in AdjIds : id = call.id
        BY <1>2
      <3>2. EventsOf(id) = {} /\ EventsOf(id)' = {}
        BY <1>2, <1>3, <1>7, <3>1 DEF OneStory, NoStory, EventsOf
      <3>3. RecommendedStory(id)'
        <4>1. records'[id] = <<call.record>>
          BY <2>3, <3>1
        <4>2. Len(records'[id]) = 1 /\ records'[id][1] = call.record
          BY <4>1
        <4>3. adjudications'[id] = AdjudicationRow(records'[id][1])
          BY <2>3, <3>1, <4>2
        <4> QED  BY <3>2, <4>2, <4>3 DEF RecommendedStory, AdjudicationRow
      <3>4. \A other \in AdjIds \ {id} :
              /\ (adjudications[other].status = "ABSENT" => NoStory(other))'
              /\ (adjudications[other].status = "RECOMMENDED" => RecommendedStory(other))'
              /\ (adjudications[other].status = "FINAL" => FinalStory(other))'
        BY <1>3, <2>3, <3>1
           DEF OneStory, NoStory, RecommendedStory, FinalStory, EventsOf
      <3> QED  BY <2>5, <3>1, <3>3, <3>4 DEF OneStory
    <2>7. \A id \in AdjIds : (AgentEntry(id) /\ HumanEntry(id))'
      BY <1>2, <2>3, <2>5 DEF AgentEntry, HumanEntry
    <2>8. \A j \in Calls : InvocationKnows(j)'
      <3>1. SUFFICES ASSUME NEW j \in Calls, j # k, calls[j] # IdleCall
                     PROVE  InvocationKnows(j)'
        BY <1>4 DEF InvocationKnows
      <3>2. calls'[j] = calls[j]
        BY <1>4, <3>1
      <3>3. calls[j].id \in AdjIds
        BY <3>1, CallStages DEF Call
      <3>4. CASE calls[j].id # call.id
        <4>1. adjudications'[calls[j].id] = adjudications[calls[j].id]
          BY <2>3, <3>3, <3>4
        <4> QED  BY <3>2, <4>1 DEF InvocationKnows
      <3>5. CASE calls[j].id = call.id
        <4>1. ~calls[j].newRow
          BY <1>1, <1>7, <3>1, <3>5 DEF OneInserter
        <4>2. calls[j].stage = "computed"
          BY <1>2, <1>7, <3>1, <3>5, <4>1 DEF InvocationKnows
        <4> QED  BY <3>1, <3>2, <4>1, <4>2 DEF InvocationKnows
      <3> QED  BY <3>4, <3>5
    <2>9. \A r \in Requests : RequestKnows(r)'
      <3>1. \A r \in Requests : requests[r].stage \in TxStages =>
              requests[r].id \in AdjIds /\ requests[r].id # call.id
        BY <1>2, <1>7, RequestStages DEF Tx, RequestKnows
      <3> QED  BY <1>3, <2>3, <3>1 DEF RequestKnows
    <2>10. OneHolder'
      BY <1>3 DEF OneHolder
    <2> QED  BY <1>5, <2>4, <2>6, <2>7, <2>8, <2>9, <2>10
  <1> QED  BY <1>6, <1>7

-----------------------------------------------------------------------------
(* The steps of a finalize request *)

\* Every step of a handler before COMMIT writes no table: what matters is what
\* the handler knows after it.
LEMMA HandlerStep ==
    ASSUME IInv, NEW r \in Requests,
           UNCHANGED <<adjudications, records, outbox, calls>>,
           requests' \in [Requests -> {Replied(s) : s \in Replies \cup {"idle"}} \cup Tx],
           \A q \in Requests \ {r} : requests'[q] = requests[q],
           RequestKnows(r)',
           requests'[r].stage \in TxStages =>
             \A q \in Requests \ {r} :
               requests[q].stage \in TxStages => requests[q].id # requests'[r].id
    PROVE  IInv'
  <1> USE DEF IInv
  <1>1. TypeOK'
    BY DEF TypeOK
  <1>2. \A q \in Requests : RequestKnows(q)'
    BY DEF RequestKnows
  <1>3. OneHolder'
    BY DEF OneHolder
  <1> QED  BY <1>1, <1>2, <1>3, StoreKept, InvocationsKept DEF store

\* A handler that leaves its transaction with a reply knows nothing any more.
LEMMA ReplyStep ==
    ASSUME IInv, NEW r \in Requests, NEW s \in Replies,
           UNCHANGED <<adjudications, records, outbox, calls>>,
           requests' = [requests EXCEPT ![r] = Replied(s)]
    PROVE  IInv'
  <1>1. /\ requests' \in [Requests -> {Replied(t) : t \in Replies \cup {"idle"}} \cup Tx]
        /\ requests'[r] = Replied(s)
        /\ \A q \in Requests \ {r} : requests'[q] = requests[q]
    BY DEF IInv, TypeOK
  <1>2. requests'[r].stage \notin TxStages
    BY <1>1, RequestStages DEF IInv
  <1>3. RequestKnows(r)'
    BY <1>2 DEF RequestKnows
  <1> QED  BY <1>1, <1>2, <1>3, HandlerStep

\* A handler that goes on to its next statement knows what it knew.
LEMMA StatementStep ==
    ASSUME IInv, NEW r \in Requests, NEW s \in TxStages,
           requests[r].stage \in TxStages,
           UNCHANGED <<adjudications, records, outbox, calls>>,
           requests' = [requests EXCEPT ![r].stage = s]
    PROVE  IInv'
  <1>1. requests[r] \in Tx
    BY RequestStages DEF IInv
  <1>2. /\ requests'[r] = [requests[r] EXCEPT !.stage = s]
        /\ \A q \in Requests \ {r} : requests'[q] = requests[q]
    BY DEF IInv, TypeOK
  <1>3. /\ requests'[r] \in Tx
        /\ requests'[r].stage = s
        /\ requests'[r].id = requests[r].id
        /\ requests'[r].row = requests[r].row
        /\ requests'[r].decision = requests[r].decision
    BY <1>1, <1>2 DEF Tx
  <1>4. requests' \in [Requests -> {Replied(t) : t \in Replies \cup {"idle"}} \cup Tx]
    BY <1>2, <1>3 DEF IInv, TypeOK
  <1>5. RequestKnows(r)'
    <2>1. RequestKnows(r)
      BY DEF IInv
    <2> QED  BY <1>3, <2>1 DEF RequestKnows, ValidateFinalize, ConsistentDecision, Differs
  <1>6. \A q \in Requests \ {r} :
          requests[q].stage \in TxStages => requests[q].id # requests'[r].id
    BY <1>3 DEF IInv, OneHolder
  <1> QED  BY <1>2, <1>4, <1>5, <1>6, HandlerStep

\* The SELECT either ends in a reply or locks a recommendation that validates.
LEMMA SelectForFinalizeStep ==
    ASSUME IInv, NEW r \in Requests, SelectForFinalize(r)
    PROVE  IInv'
  <1>1. UNCHANGED <<adjudications, records, outbox, calls>>
    BY DEF SelectForFinalize, store
  <1> DEFINE Locks(id, d) ==
               /\ ~Locked(id)
               /\ adjudications[id].status \notin {"ABSENT", "FINAL"}
               /\ ValidateFinalize(d, adjudications[id], id.claim)
               /\ requests' = [requests EXCEPT ![r] =
                                 [stage |-> "locked", id |-> id,
                                  decision |-> d, row |-> adjudications[id]]]
  <1>2. \/ \E s \in Replies : requests' = [requests EXCEPT ![r] = Replied(s)]
        \/ \E id \in AdjIds, d \in Decision : Locks(id, d)
    <2>1. PICK id \in AdjIds, c \in Claims :
            \/ \E s \in Replies : requests' = [requests EXCEPT ![r] = Replied(s)]
            \/ /\ adjudications[id].status # "ABSENT" /\ id.claim = c /\ ~Locked(id)
               /\ adjudications[id].status # "FINAL"
               /\ \E d \in ValidDecisions(adjudications[id], c) :
                    requests' = [requests EXCEPT ![r] =
                      [stage |-> "locked", id |-> id, decision |-> d, row |-> adjudications[id]]]
      BY DEF SelectForFinalize, Replies
    <2> QED  BY <2>1 DEF ValidDecisions
  <1>3. CASE \E s \in Replies : requests' = [requests EXCEPT ![r] = Replied(s)]
    BY <1>1, <1>3, ReplyStep
  <1>4. CASE ~ \E s \in Replies : requests' = [requests EXCEPT ![r] = Replied(s)]
    <2>1. PICK id \in AdjIds, d \in Decision : Locks(id, d)
      BY <1>2, <1>4
    <2>2. adjudications[id] \in Row /\ adjudications[id].status = "RECOMMENDED"
      BY <2>1 DEF IInv, TypeOK, Row
    <2>3. /\ requests'[r] = [stage |-> "locked", id |-> id,
                             decision |-> d, row |-> adjudications[id]]
          /\ \A q \in Requests \ {r} : requests'[q] = requests[q]
      BY <2>1 DEF IInv, TypeOK
    <2>4. requests'[r] \in Tx
      BY <2>2, <2>3 DEF Tx, TxStages
    <2>5. requests' \in [Requests -> {Replied(t) : t \in Replies \cup {"idle"}} \cup Tx]
      BY <2>1, <2>3, <2>4 DEF IInv, TypeOK
    <2>6. RequestKnows(r)'
      BY <1>1, <2>1, <2>2, <2>3 DEF RequestKnows, ValidateFinalize, ConsistentDecision, Differs
    <2>7. \A q \in Requests \ {r} :
            requests[q].stage \in TxStages => requests[q].id # requests'[r].id
      BY <2>1, <2>3 DEF Locked
    <2> QED  BY <1>1, <2>3, <2>5, <2>6, <2>7, HandlerStep
  <1> QED  BY <1>3, <1>4

\* The UPDATE goes on, or finds that it has lost a race.
LEMMA FinalizeUpdateStep ==
    ASSUME IInv, NEW r \in Requests, FinalizeUpdate(r)
    PROVE  IInv'
  <1>1. UNCHANGED <<adjudications, records, outbox, calls>>
    BY DEF FinalizeUpdate, store
  <1>2. requests[r].stage \in TxStages
    BY DEF FinalizeUpdate, TxStages
  <1>3. CASE adjudications[requests[r].id].status = "RECOMMENDED"
    <2>1. requests' = [requests EXCEPT ![r].stage = "updated"]
      BY <1>3 DEF FinalizeUpdate
    <2> QED  BY <1>1, <1>2, <2>1, StatementStep DEF TxStages
  <1>4. CASE adjudications[requests[r].id].status # "RECOMMENDED"
    <2>1. requests' = [requests EXCEPT ![r] = Replied("already_final")]
      BY <1>4 DEF FinalizeUpdate
    <2> QED  BY <1>1, <2>1, ReplyStep DEF Replies
  <1> QED  BY <1>3, <1>4

\* The record's INSERT goes on, or finds no version to copy.
LEMMA DecisionRecordInsertStep ==
    ASSUME IInv, NEW r \in Requests, DecisionRecordInsert(r)
    PROVE  IInv'
  <1>1. UNCHANGED <<adjudications, records, outbox, calls>>
    BY DEF DecisionRecordInsert, store
  <1>2. requests[r].stage \in TxStages
    BY DEF DecisionRecordInsert, TxStages
  <1>3. CASE records[requests[r].id] # <<>>
    <2>1. requests' = [requests EXCEPT ![r].stage = "recorded"]
      BY <1>3 DEF DecisionRecordInsert
    <2> QED  BY <1>1, <1>2, <2>1, StatementStep DEF TxStages
  <1>4. CASE records[requests[r].id] = <<>>
    <2>1. requests' = [requests EXCEPT ![r] = Replied("failed")]
      BY <1>4 DEF DecisionRecordInsert
    <2> QED  BY <1>1, <2>1, ReplyStep DEF Replies
  <1> QED  BY <1>3, <1>4

LEMMA OutboxInsertStep ==
    ASSUME IInv, NEW r \in Requests, OutboxInsert(r)
    PROVE  IInv'
  BY StatementStep DEF OutboxInsert, TxStages, store

LEMMA FailFinalizeStep ==
    ASSUME IInv, NEW r \in Requests, FailFinalize(r)
    PROVE  IInv'
  BY ReplyStep DEF FailFinalize, Replies, store

\* Collapsing the vocabularies loses nothing: a decision departs from the row of
\* a recommendation in whole cents exactly when it departs from the recommendation.
LEMMA DiffersFromAgent ==
    ASSUME NEW d \in Decision, NEW agent \in Record,
           Stored[agent.approved] = agent.approved
    PROVE  Differs(d, AdjudicationRow(agent)) <=>
             \/ d.verdict # agent.verdict
             \/ d.disposition # agent.disposition
             \/ ~AmountsEqual(d.approved, agent.approved)
  <1>1. d.verdict \in AgentVerdicts /\ agent.verdict \in AgentVerdicts
    BY DEF Decision, Record
  <1>2. CanonicalVerdict(d.verdict) # CanonicalVerdict(OperationalVerdict(agent.verdict))
          <=> d.verdict # agent.verdict
    BY <1>1 DEF AgentVerdicts, CanonicalVerdict, OperationalVerdict
  <1> QED  BY <1>2 DEF Differs, AdjudicationRow

\* A decision that validates against the recommendation becomes a ruling over it.
LEMMA ValidDecisionRules ==
    ASSUME NEW id \in AdjIds, NEW d \in Decision, NEW agent \in Record,
           Stored[agent.approved] = agent.approved,
           ValidateFinalize(d, AdjudicationRow(agent), id.claim)
    PROVE  Ledger!Ruling(FinalRecord(d, AdjudicationRow(agent), agent), agent,
                         Claimed[id.claim])
  <1> DEFINE row == AdjudicationRow(agent)
             human == FinalRecord(d, row, agent)
  <1>1. /\ human.verdict = d.verdict
        /\ human.disposition = d.disposition
        /\ human.approved = d.approved
        /\ human.deterministic = agent.deterministic
        /\ human.duplicate <=> d.verdict = "DENY" /\ d.disposition = "DUPLICATE"
        /\ human.by = d.by
        /\ human.reason <=> Differs(d, row) /\ d.reason
    BY DEF FinalRecord, Record
  <1>2. human.reason <=> Differs(d, row)
    BY <1>1 DEF ValidateFinalize
  <1>3. /\ Coherent(d.verdict, d.disposition, AmountsEqual(d.approved, 0))
        /\ d.approved <= Claimed[id.claim] + Tolerance
        /\ d.by \in Users
    BY DEF ValidateFinalize, ConsistentDecision, Decision
  <1>4. Ledger!Coherent(d.verdict, d.disposition, Ledger!Close(d.approved, 0))
    BY <1>3 DEF Ledger!Coherent, Coherent, Ledger!DenyDispositions, DenyDispositions,
                Ledger!Close, AmountsEqual
  <1> HIDE DEF human, row
  <1>5. human.reason <=> \/ human.verdict # agent.verdict
                         \/ human.disposition # agent.disposition
                         \/ ~Ledger!Close(human.approved, agent.approved)
    BY <1>1, <1>2, DiffersFromAgent DEF row, Ledger!Close, AmountsEqual
  <1> QED  BY <1>1, <1>3, <1>4, <1>5 DEF Ledger!Ruling, human, row

\* The step that turns the recommendation `agent` into the decision d.
Finalizes(id, d, agent) ==
    LET row == AdjudicationRow(agent)
        human == FinalRecord(d, row, agent)
    IN  /\ adjudications[id] = row
        /\ records[id] = <<agent>>
        /\ Stored[agent.approved] = agent.approved
        /\ EventsOf(id) = {}
        /\ adjudications' = [adjudications EXCEPT ![id] = FinalRow(d, row, row)]
        /\ records' = [records EXCEPT ![id] = Append(<<agent>>, human)]
        /\ outbox' = outbox \cup {AdjudicatedEvent(id, d)}
        /\ human \in Record
        /\ Ledger!Ruling(human, agent, Claimed[id.claim])

\* That is what a COMMIT of a finalize transaction does.
LEMMA CommitFinalizeFacts ==
    ASSUME IInv, NEW r \in Requests, CommitFinalize(r)
    PROVE  \E id \in AdjIds, d \in Decision, agent \in Record :
             id = requests[r].id /\ Finalizes(id, d, agent)
  <1>1. requests[r] \in Tx /\ requests[r].stage \in TxStages
    BY RequestStages DEF IInv, CommitFinalize, TxStages
  <1>2. PICK id \in AdjIds : id = requests[r].id
    BY <1>1 DEF Tx
  <1>3. PICK d \in Decision : d = requests[r].decision
    BY <1>1 DEF Tx
  <1>4. /\ requests[r].row = adjudications[id]
        /\ adjudications[id].status = "RECOMMENDED"
        /\ ValidateFinalize(d, adjudications[id], id.claim)
    BY <1>1, <1>2, <1>3 DEF IInv, RequestKnows
  <1>5. RecommendedStory(id)
    BY <1>4 DEF IInv, OneStory
  <1>6. records[id] \in Seq(Record) /\ Len(records[id]) = 1
    BY <1>5 DEF RecommendedStory, IInv, TypeOK
  <1>7. PICK agent \in Record : agent = records[id][1] /\ records[id] = <<agent>>
    BY <1>6
  <1>8. adjudications[id] = AdjudicationRow(agent) /\ EventsOf(id) = {}
    BY <1>5, <1>7 DEF RecommendedStory
  <1> DEFINE row == AdjudicationRow(agent)
             human == FinalRecord(d, row, agent)
  <1>9. Stored[agent.approved] = agent.approved /\ Ledger!Ruling(human, agent, Claimed[id.claim])
    <2>1. agent \in Recommendations(id.claim) /\ id.claim \in Claims
      BY <1>4, <1>7 DEF IInv, AgentEntry, AdjIds
    <2>2. Stored[agent.approved] = agent.approved
      BY <2>1, RecommendationType
    <2> QED  BY <1>4, <1>8, <2>2, ValidDecisionRules
  <1>10. human \in Record
    BY AdjudicationRowType, FinalRecordType
  <1>11. adjudications' = [adjudications EXCEPT ![id] = FinalRow(d, row, row)]
    BY <1>2, <1>3, <1>4, <1>8 DEF CommitFinalize, IInv, TypeOK
  <1>12. records' = [records EXCEPT ![id] = Append(<<agent>>, human)]
    BY <1>2, <1>3, <1>4, <1>6, <1>7, <1>8 DEF CommitFinalize
  <1>13. outbox' = outbox \cup {AdjudicatedEvent(id, d)}
    <2>1. outbox' = OutboxWith(AdjudicatedEvent(id, d))
      BY <1>2, <1>3 DEF CommitFinalize
    <2>2. ~ \E e \in outbox : e.id = AdjudicatedEvent(id, d).id
      BY <1>8 DEF EventsOf, AdjudicatedEvent
    <2> QED  BY <2>1, <2>2 DEF OutboxWith
  <1> QED  BY <1>2, <1>7, <1>8, <1>9, <1>10, <1>11, <1>12, <1>13 DEF Finalizes

\* COMMIT: the final row, the human version and the event appear together.
LEMMA CommitFinalizeStep ==
    ASSUME IInv, NEW r \in Requests, CommitFinalize(r)
    PROVE  IInv'
  <1>1. PICK id \in AdjIds, d \in Decision, agent \in Record :
          id = requests[r].id /\ Finalizes(id, d, agent)
    BY CommitFinalizeFacts
  <1> DEFINE row == AdjudicationRow(agent)
             human == FinalRecord(d, row, agent)
             final == FinalRow(d, row, row)
             event == AdjudicatedEvent(id, d)
  <1>2. /\ adjudications[id] = row
        /\ records[id] = <<agent>>
        /\ Stored[agent.approved] = agent.approved
        /\ EventsOf(id) = {}
        /\ adjudications' = [adjudications EXCEPT ![id] = final]
        /\ records' = [records EXCEPT ![id] = Append(<<agent>>, human)]
        /\ outbox' = outbox \cup {event}
        /\ human \in Record
        /\ Ledger!Ruling(human, agent, Claimed[id.claim])
    BY <1>1 DEF Finalizes
  <1>3. /\ adjudications \in [AdjIds -> Row]
        /\ records \in [AdjIds -> Seq(Record)]
        /\ outbox \subseteq Event
    BY DEF IInv, TypeOK
  <1>4. row \in Row /\ final \in Row /\ event \in Event
    BY AdjudicationRowType, FinalRowType, AdjudicatedEventType
  <1>5. /\ final.status = "FINAL"
        /\ final.verdict = OperationalVerdict(d.verdict)
        /\ final.disposition = d.disposition
        /\ final.approved = Stored[d.approved]
        /\ final.by = d.by
        /\ final.reason = (Differs(d, row) /\ d.reason)
        /\ final.override = Differs(d, row)
        /\ final.recommendedVerdict = OperationalVerdict(agent.verdict)
        /\ final.recommendedDisposition = agent.disposition
    BY DEF FinalRow, AdjudicationRow
  <1>6. /\ human.verdict = d.verdict
        /\ human.disposition = d.disposition
        /\ human.approved = d.approved
        /\ human.by = d.by
        /\ human.reason = (Differs(d, row) /\ d.reason)
    BY DEF FinalRecord, Record
  <1>7. row.status = "RECOMMENDED"
    BY DEF AdjudicationRow
  <1>8. Differs(d, row) => d.reason
    BY <1>2, <1>6, DiffersFromAgent DEF Ledger!Ruling, Ledger!Close, AmountsEqual
  <1>9. event = [id |-> id, verdict |-> final.verdict, disposition |-> final.disposition,
                 approved |-> human.approved]
    BY <1>5, <1>6 DEF AdjudicatedEvent
  <1> HIDE DEF row, human, final, event
  <1>10. /\ adjudications'[id] = final
         /\ records'[id] = Append(<<agent>>, human)
         /\ \A other \in AdjIds \ {id} : /\ adjudications'[other] = adjudications[other]
                                        /\ records'[other] = records[other]
    BY <1>2, <1>3
  <1>11. /\ EventsOf(id)' = {event}
         /\ \A other \in AdjIds \ {id} : EventsOf(other)' = EventsOf(other)
    BY <1>2, <1>9 DEF EventsOf
  <1>12. /\ requests' \in [Requests -> {Replied(s) : s \in Replies \cup {"idle"}} \cup Tx]
         /\ requests'[r].stage \notin TxStages
         /\ \A q \in Requests \ {r} : requests'[q] = requests[q]
    <2>1. PICK s \in Replies : requests' = [requests EXCEPT ![r] = Replied(s)]
      BY DEF CommitFinalize, Replies
    <2> QED  BY <2>1, RequestStages DEF IInv, TypeOK
  <1>13. UNCHANGED <<calls>>
    BY DEF CommitFinalize
  <1>14. TypeOK'
    <2>1. adjudications' \in [AdjIds -> Row]
      BY <1>2, <1>3, <1>4
    <2>2. Append(<<agent>>, human) \in Seq(Record)
      BY <1>2
    <2>3. records' \in [AdjIds -> Seq(Record)]
      BY <1>2, <1>3, <2>2
    <2> QED  BY <1>2, <1>3, <1>4, <1>12, <1>13, <2>1, <2>3 DEF IInv, TypeOK
  <1>15. OneStory'
    <2>1. Len(records'[id]) = 2 /\ records'[id][2] = human
      BY <1>2, <1>10
    <2>2. FinalStory(id)'
      BY <1>5, <1>6, <1>9, <1>10, <1>11, <2>1 DEF FinalStory
    <2>3. \A other \in AdjIds \ {id} :
            /\ (adjudications[other].status = "ABSENT" => NoStory(other))'
            /\ (adjudications[other].status = "RECOMMENDED" => RecommendedStory(other))'
            /\ (adjudications[other].status = "FINAL" => FinalStory(other))'
      BY <1>10, <1>11 DEF IInv, OneStory, NoStory, RecommendedStory, FinalStory
    <2> QED  BY <1>5, <1>10, <2>2, <2>3 DEF OneStory
  <1>16. \A j \in Calls : InvocationKnows(j)'
    <2>1. \A j \in Calls : calls[j] # IdleCall => calls[j].id \in AdjIds
      BY CallStages DEF IInv, Call
    <2>2. \A j \in Calls : calls[j] # IdleCall =>
            (adjudications'[calls[j].id].status = "ABSENT"
              <=> adjudications[calls[j].id].status = "ABSENT")
      BY <1>2, <1>5, <1>7, <1>10, <2>1
    <2> QED  BY <1>13, <2>2 DEF IInv, InvocationKnows
  <1>17. OneInserter'
    BY <1>13 DEF IInv, OneInserter
  <1>18. \A q \in Requests : RequestKnows(q)'
    <2>1. \A q \in Requests \ {r} : requests[q].stage \in TxStages =>
            requests[q].id \in AdjIds \ {id}
      <3>1. requests[r].stage \in TxStages
        BY DEF CommitFinalize, TxStages
      <3> QED  BY <1>1, <3>1, RequestStages DEF IInv, OneHolder, Tx
    <2> QED  BY <1>10, <1>12, <2>1 DEF IInv, RequestKnows
  <1>19. OneHolder'
    BY <1>12 DEF IInv, OneHolder
  <1>20. \A other \in AdjIds : (AgentEntry(other) /\ HumanEntry(other))'
    <2>1. agent \in Recommendations(id.claim)
      BY <1>2, <1>7 DEF IInv, AgentEntry
    <2>2. records'[id][1] = agent /\ records'[id][2] = human
      BY <1>2, <1>10
    <2>3. (AgentEntry(id) /\ HumanEntry(id))'
      BY <1>2, <1>5, <1>8, <1>10, <2>1, <2>2 DEF AgentEntry, HumanEntry
    <2>4. \A other \in AdjIds \ {id} : (AgentEntry(other) /\ HumanEntry(other))'
      BY <1>10 DEF IInv, AgentEntry, HumanEntry
    <2> QED  BY <2>3, <2>4
  <1> QED  BY <1>14, <1>15, <1>16, <1>17, <1>18, <1>19, <1>20 DEF IInv

-----------------------------------------------------------------------------
(* The invariant *)

\* Before anything runs there is nothing to know.
LEMMA InitInvariant == Init => IInv
  <1> SUFFICES ASSUME Init PROVE IInv
    OBVIOUS
  <1>1. \A id \in AdjIds : adjudications[id] = NoRow /\ records[id] = <<>>
    BY DEF Init
  <1>2. TypeOK
    <2>1. NoRow \in Row
      BY VocabularyTypes DEF NoRow, Row
    <2>2. Replied("idle") \in {Replied(s) : s \in Replies \cup {"idle"}} \cup Tx
      OBVIOUS
    <2>3. requests \in [Requests -> {Replied(s) : s \in Replies \cup {"idle"}} \cup Tx]
      BY <2>2 DEF Init
    <2>4. adjudications \in [AdjIds -> Row] /\ records \in [AdjIds -> Seq(Record)]
      BY <2>1 DEF Init
    <2>5. calls \in [Calls -> {IdleCall} \cup Call]
      BY DEF Init
    <2> QED  BY <2>3, <2>4, <2>5 DEF Init, TypeOK
  <1>3. OneStory
    BY <1>1 DEF Init, OneStory, NoStory, EventsOf, NoRow
  <1>4. \A k \in Calls : calls[k] = IdleCall
    BY DEF Init
  <1>5. \A r \in Requests : requests[r].stage \notin TxStages
    BY DEF Init, Replied, TxStages
  <1>6. \A id \in AdjIds : AgentEntry(id) /\ HumanEntry(id)
    BY <1>1 DEF AgentEntry, HumanEntry, NoRow
  <1> QED  BY <1>2, <1>3, <1>4, <1>5, <1>6
           DEF IInv, InvocationKnows, OneInserter, RequestKnows, OneHolder

\* Every step preserves it.
LEMMA NextInvariant == IInv /\ [Next]_vars => IInv'
  <1> SUFFICES ASSUME IInv, [Next]_vars PROVE IInv'
    OBVIOUS
  <1>1. ASSUME NEW k \in Calls,
               Adjudicate(k) \/ InsertAdjudication(k) \/ InsertDecisionRecord(k)
                 \/ CommitCall(k) \/ FailCall(k)
        PROVE  IInv'
    BY <1>1, AdjudicateStep, InsertAdjudicationStep, InsertDecisionRecordStep,
       CommitCallStep, FailCallStep
  <1>3. ASSUME NEW r \in Requests,
               SelectForFinalize(r) \/ FinalizeUpdate(r) \/ DecisionRecordInsert(r)
                 \/ OutboxInsert(r) \/ CommitFinalize(r) \/ FailFinalize(r)
        PROVE  IInv'
    BY <1>3, SelectForFinalizeStep, FinalizeUpdateStep, DecisionRecordInsertStep,
       OutboxInsertStep, CommitFinalizeStep, FailFinalizeStep
  <1>4. CASE UNCHANGED vars
    <2>1. UNCHANGED store /\ UNCHANGED <<calls, requests>>
      BY <1>4 DEF vars, store
    <2>2. TypeOK'
      BY <2>1 DEF IInv, TypeOK, store
    <2> QED  BY <2>1, <2>2, StoreKept, InvocationsKept, RequestsKept DEF IInv, store
  <1> QED  BY <1>1, <1>3, <1>4 DEF Next

\* The store and its transactions always satisfy the inductive invariant.
THEOREM Invariance == Spec => []IInv
  BY InitInvariant, NextInvariant, PTL DEF Spec

\* Every variable keeps its table's or transaction's shape.
THEOREM TypeCorrect == Spec => []TypeOK
  <1>1. IInv => TypeOK
    BY DEF IInv
  <1> QED  BY <1>1, Invariance, PTL

\* The three tables tell one story of each adjudication.
THEOREM StoryIsOne == Spec => []OneStory
  <1>1. IInv => OneStory
    BY DEF IInv
  <1> QED  BY <1>1, Invariance, PTL

\* The two inserts of one endpoint transaction agree.
THEOREM InsertsAlwaysAgree == Spec => []InsertsAgree
  <1>1. IInv => InsertsAgree
    <2> SUFFICES ASSUME IInv, NEW k \in Calls, calls[k].stage = "record"
                 PROVE  calls[k].newRow = calls[k].newRecord
      BY DEF InsertsAgree
    <2>1. calls[k] # IdleCall
      BY CallStages DEF IInv
    <2> QED  BY <2>1 DEF IInv, InvocationKnows
  <1> QED  BY <1>1, Invariance, PTL

\* Every override is flagged and explained, over the agent's own baseline.
THEOREM OverridesExplained == Spec => []OverridesAreExplained
  <1>1. IInv => OverridesAreExplained
    <2> SUFFICES ASSUME IInv, NEW id \in AdjIds, adjudications[id].status = "FINAL"
                 PROVE  LET row == adjudications[id]
                            agent == records[id][1]
                            human == records[id][2]
                        IN  /\ human.deterministic = agent.deterministic
                            /\ row.recommendedVerdict = OperationalVerdict(agent.verdict)
                            /\ row.recommendedDisposition = agent.disposition
                            /\ row.override <=> \/ human.verdict # agent.verdict
                                               \/ human.disposition # agent.disposition
                                               \/ ~AmountsEqual(human.approved, agent.approved)
                            /\ row.override <=> row.reason
                            /\ human.by \in Users
      BY DEF OverridesAreExplained
    <2>1. FinalStory(id) /\ HumanEntry(id)
      BY DEF IInv, OneStory
    <2> QED  BY <2>1 DEF FinalStory, HumanEntry, Ledger!Ruling, Ledger!Close, AmountsEqual
  <1> QED  BY <1>1, Invariance, PTL

\* What the expectations find in an adjudication with a row: the row is what silver
\* expects, the agent's version what gold expects, and so is the human's, unless it
\* denies or pends at an amount that passes for nothing without being nothing.
LEMMA MedallionFinds ==
    ASSUME IInv, NEW id \in AdjIds, adjudications[id].status # "ABSENT"
    PROVE  /\ SilverInvariant(id, adjudications[id])
           /\ GoldInvariant(records[id][1])
           /\ Len(records[id]) # 1 =>
                LET human == records[id][2]
                IN  /\ Len(records[id]) = 2
                    /\ human.by \in Users /\ human.approved \in Amounts
                    /\ \/ GoldInvariant(human)
                       \/ /\ human.verdict # "APPROVE" /\ human.approved # 0
                          /\ AmountsEqual(human.approved, 0)
  <1>1. id.claim \in Claims
    BY DEF AdjIds
  <1>2. PICK agent \in Recommendations(id.claim) : agent = records[id][1]
    BY DEF IInv, AgentEntry
  <1>3. /\ Enforced(agent)
        /\ agent.approved \in Nat /\ Claimed[id.claim] \in Nat
        /\ agent.approved <= Claimed[id.claim]
        /\ Stored[agent.approved] = agent.approved
        /\ agent.verdict \in AgentVerdicts
    BY <1>1, <1>2, RecommendationType, AdjudicationsAssumption DEF Record
  <1>4. GoldInvariant(agent)
    BY <1>3 DEF GoldInvariant, Enforced, Coherent, DenyDispositions
  <1>5. CASE adjudications[id].status = "RECOMMENDED"
    <2>1. adjudications[id] = AdjudicationRow(agent) /\ Len(records[id]) = 1
      BY <1>2, <1>5 DEF IInv, OneStory, RecommendedStory
    <2>2. SilverInvariant(id, AdjudicationRow(agent))
      BY <1>3 DEF SilverInvariant, AdjudicationRow, Enforced, Coherent,
                  OperationalVerdict, AgentVerdicts
    <2> QED  BY <1>2, <1>4, <2>1, <2>2
  <1>6. CASE adjudications[id].status = "FINAL"
    <2>1. FinalStory(id) /\ HumanEntry(id) /\ records[id] \in Seq(Record)
      BY <1>6 DEF IInv, OneStory, TypeOK
    <2>2. Len(records[id]) = 2
      BY <2>1 DEF FinalStory
    <2>3. PICK human \in Record : human = records[id][2]
      BY <2>1, <2>2
    <2>4. Ledger!Ruling(human, agent, Claimed[id.claim])
      BY <1>2, <1>6, <2>1, <2>3 DEF HumanEntry
    <2>5. /\ Coherent(human.verdict, human.disposition, AmountsEqual(human.approved, 0))
          /\ human.approved <= Claimed[id.claim] + Tolerance
          /\ human.duplicate => human.verdict = "DENY"
          /\ human.by \in Users
          /\ human.verdict \in AgentVerdicts /\ human.approved \in Amounts
      BY <2>4 DEF Ledger!Ruling, Ledger!Coherent, Coherent, Ledger!Close, AmountsEqual,
                  Ledger!DenyDispositions, DenyDispositions, Record
    <2>6. /\ adjudications[id].verdict = OperationalVerdict(human.verdict)
          /\ adjudications[id].disposition = human.disposition
          /\ adjudications[id].approved = Stored[human.approved]
      BY <2>1, <2>3 DEF FinalStory
    <2>7. /\ Stored[human.approved] <= Claimed[id.claim]
          /\ AmountsEqual(human.approved, 0) => Stored[human.approved] = 0
      BY <1>1, <2>5, StoredAmounts
    <2>8. SilverInvariant(id, adjudications[id])
      BY <2>5, <2>6, <2>7 DEF SilverInvariant, Coherent, OperationalVerdict, AgentVerdicts
    <2>9. \/ GoldInvariant(human)
          \/ /\ human.verdict # "APPROVE" /\ human.approved # 0
             /\ AmountsEqual(human.approved, 0)
      BY <2>5 DEF GoldInvariant, Coherent
    <2> QED  BY <1>2, <1>4, <2>2, <2>3, <2>5, <2>8, <2>9
  <1> QED  BY <1>5, <1>6 DEF IInv, TypeOK, Row

\* No row stops the silver pipeline, at whatever amounts the tolerance lets through.
THEOREM SilverAlwaysSafe == Spec => []SilverSafe
  <1>1. IInv => SilverSafe
    BY MedallionFinds DEF SilverSafe
  <1> QED  BY <1>1, Invariance, PTL

\* A version that stops the gold pipeline is a human's, denies or pends, and carries an
\* amount above zero and below the tolerance (finalize.ts:74-76, 110, 113).
DustAlone ==
    \A id \in AdjIds : \A n \in 1..Len(records[id]) :
      ~GoldInvariant(records[id][n]) =>
        /\ records[id][n].by \in Users
        /\ records[id][n].verdict # "APPROVE"
        /\ 0 < records[id][n].approved /\ records[id][n].approved < Tolerance

\* Nothing but such an amount can stop the gold pipeline.
THEOREM GoldStopsOnDustAlone == Spec => []DustAlone
  <1>1. IInv => DustAlone
    <2> SUFFICES ASSUME IInv, NEW id \in AdjIds, NEW n \in 1..Len(records[id]),
                        ~GoldInvariant(records[id][n])
                 PROVE  /\ records[id][n].by \in Users
                        /\ records[id][n].verdict # "APPROVE"
                        /\ 0 < records[id][n].approved /\ records[id][n].approved < Tolerance
      BY DEF DustAlone
    <2>1. adjudications[id].status # "ABSENT"
      BY DEF IInv, OneStory, NoStory
    <2>2. Len(records[id]) # 1 /\ n # 1
      BY <2>1, MedallionFinds
    <2>3. Len(records[id]) = 2 /\ n = 2
      BY <2>1, <2>2, MedallionFinds
    <2>4. /\ records[id][n].by \in Users /\ records[id][n].approved \in Amounts
          /\ records[id][n].verdict # "APPROVE" /\ records[id][n].approved # 0
          /\ AmountsEqual(records[id][n].approved, 0)
      BY <2>1, <2>2, <2>3, MedallionFinds
    <2>5. records[id][n].approved \in Nat /\ Tolerance \in Nat
      BY <2>4, AdjudicationsAssumption
    <2> QED  BY <2>4, <2>5 DEF AmountsEqual
  <1> QED  BY <1>1, Invariance, PTL

\* So nothing stops the medallion pipelines where no such amount is ever submitted.
THEOREM MedallionSafeWithoutDust ==
    ASSUME \A a \in Amounts : a < Tolerance => a = 0
    PROVE  Spec => []MedallionSafe
  <1>1. SilverSafe /\ DustAlone /\ TypeOK => MedallionSafe
    <2> SUFFICES ASSUME DustAlone, TypeOK, NEW id \in AdjIds, NEW n \in 1..Len(records[id]),
                        ~GoldInvariant(records[id][n])
                 PROVE  FALSE
      BY DEF MedallionSafe
    <2>1. records[id][n].approved \in Amounts
      <3>1. records[id] \in Seq(Record)
        BY DEF TypeOK
      <3>2. records[id][n] \in Record
        BY <3>1
      <3> QED  BY <3>2 DEF Record
    <2>2. 0 < records[id][n].approved /\ records[id][n].approved < Tolerance
      BY DEF DustAlone
    <2>3. records[id][n].approved = 0
      BY <2>1, <2>2
    <2> QED  BY <2>2, <2>3
  <1> QED  BY <1>1, SilverAlwaysSafe, GoldStopsOnDustAlone, TypeCorrect, PTL

-----------------------------------------------------------------------------
(* First write wins *)

\* What a step leaves of an adjudication: the versions it has, and all of it if it is final.
Kept(id) ==
    /\ adjudications[id].status = "FINAL" =>
         /\ adjudications'[id] = adjudications[id]
         /\ records'[id] = records[id]
         /\ EventsOf(id)' = EventsOf(id)
    /\ \A n \in 1..Len(records[id]) :
         n <= Len(records'[id]) /\ records'[id][n] = records[id][n]

\* The argument is in who writes: an invocation's COMMIT only touches a row that was absent, a
\* finalize COMMIT only one that was a recommendation.
LEMMA StoreKeeps ==
    IInv /\ [Next]_vars => \A id \in AdjIds : Kept(id)
  <1>1. ASSUME IInv, UNCHANGED store, NEW id \in AdjIds
        PROVE  Kept(id)
    <2>1. records[id] \in Seq(Record)
      BY <1>1 DEF IInv, TypeOK
    <2> QED  BY <1>1, <2>1 DEF store, EventsOf, Kept
  <1>2. ASSUME IInv, NEW k \in Calls, CommitCall(k), NEW id \in AdjIds
        PROVE  Kept(id)
    <2>1. calls[k] \in Call /\ calls[k].stage = "record" /\ calls[k] # IdleCall
      BY <1>2, CallStages DEF CommitCall, IdleCall, IInv
    <2>2. /\ calls[k].newRow \in BOOLEAN
          /\ calls[k].newRow = calls[k].newRecord
          /\ calls[k].newRow => adjudications[calls[k].id].status = "ABSENT"
          /\ calls[k].id \in AdjIds
      BY <1>2, <2>1 DEF IInv, InvocationKnows, Call
    <2>3. /\ records[id] \in Seq(Record)
          /\ adjudications \in [AdjIds -> Row]
          /\ records \in [AdjIds -> Seq(Record)]
      BY <1>2 DEF IInv, TypeOK
    <2>4. EventsOf(id)' = EventsOf(id)
      BY <1>2 DEF CommitCall, EventsOf
    <2>5. CASE adjudications'[id] = adjudications[id] /\ records'[id] = records[id]
      BY <2>3, <2>4, <2>5 DEF Kept
    <2>6. CASE adjudications[id].status = "ABSENT"
      <3>1. Len(records[id]) = 0
        BY <1>2, <2>6 DEF IInv, OneStory, NoStory
      <3> QED  BY <2>6, <3>1 DEF Kept
    <2>7. (adjudications'[id] = adjudications[id] /\ records'[id] = records[id])
            \/ adjudications[id].status = "ABSENT"
      BY <1>2, <2>2, <2>3 DEF CommitCall
    <2> QED  BY <2>5, <2>6, <2>7
  <1>3. ASSUME IInv, NEW r \in Requests, CommitFinalize(r), NEW id \in AdjIds
        PROVE  Kept(id)
    <2>1. PICK ruled \in AdjIds, d \in Decision, agent \in Record :
            Finalizes(ruled, d, agent)
      BY <1>3, CommitFinalizeFacts
    <2> DEFINE human == FinalRecord(d, AdjudicationRow(agent), agent)
    <2>2. /\ records[id] \in Seq(Record)
          /\ adjudications \in [AdjIds -> Row]
          /\ records \in [AdjIds -> Seq(Record)]
      BY <1>3 DEF IInv, TypeOK
    <2>3. CASE id # ruled
      <3>1. adjudications'[id] = adjudications[id] /\ records'[id] = records[id]
        BY <2>1, <2>2, <2>3 DEF Finalizes
      <3>2. EventsOf(id)' = EventsOf(id)
        BY <2>1, <2>3 DEF Finalizes, EventsOf, AdjudicatedEvent
      <3> QED  BY <2>2, <3>1, <3>2 DEF Kept
    <2>4. CASE id = ruled
      <3>1. /\ adjudications[id].status = "RECOMMENDED"
            /\ records[id] = <<agent>>
            /\ human \in Record
        BY <2>1, <2>4 DEF Finalizes, AdjudicationRow
      <3>2. records'[id] = Append(<<agent>>, human)
        BY <2>1, <2>2, <2>4 DEF Finalizes
      <3> HIDE DEF human
      <3>3. Len(records'[id]) = 2 /\ records'[id][1] = agent
        BY <3>1, <3>2
      <3> QED  BY <3>1, <3>3 DEF Kept
    <2> QED  BY <2>3, <2>4
  <1>4. ASSUME IInv, [Next]_vars, NEW id \in AdjIds
        PROVE  Kept(id)
    <2>1. UNCHANGED store \/ (\E k \in Calls : CommitCall(k))
            \/ (\E r \in Requests : CommitFinalize(r))
      BY <1>4 DEF Next, vars, store, Adjudicate, InsertAdjudication, InsertDecisionRecord,
           FailCall, SelectForFinalize, FinalizeUpdate, DecisionRecordInsert,
           OutboxInsert, FailFinalize
    <2> QED  BY <1>1, <1>2, <1>3, <1>4, <2>1
  <1> QED  BY <1>4

\* A committed decision is changed by no step.
THEOREM FinalStays == Spec => FinalIsFinal
  <1>1. IInv /\ [Next]_vars => [\A id \in AdjIds : Kept(id)]_vars
    BY StoreKeeps
  <1>2. Spec => [][\A id \in AdjIds : Kept(id)]_vars
    BY <1>1, Invariance, PTL DEF Spec
  <1> QED  BY <1>2 DEF FinalIsFinal, Kept

-----------------------------------------------------------------------------
(* The store implements the ledger *)

\* The vocabulary of the ledger is the store's own.
LEMMA LedgerVocabulary ==
    /\ Ledger!Entry = Record
    /\ \A rec \in Record : Enforced(rec) => Ledger!Enforced(rec)
    /\ \A v : Ledger!OperationalVerdict(v) = OperationalVerdict(v)
  BY DEF Ledger!Entry, Record, Ledger!AgentVerdicts, AgentVerdicts,
         Ledger!Dispositions, Dispositions, Ledger!DenyDispositions, DenyDispositions,
         Ledger!Enforced, Enforced, Ledger!Coherent, Coherent,
         Ledger!OperationalVerdict, OperationalVerdict

\* An invocation's COMMIT proposes, or changes nothing.
LEMMA CommitCallProposes ==
    ASSUME IInv, NEW k \in Calls, CommitCall(k)
    PROVE  UNCHANGED <<records, outbox>> \/ \E id \in AdjIds : Ledger!Propose(id)
  <1>1. calls[k] \in Call /\ calls[k].stage = "record" /\ calls[k] # IdleCall
    BY CallStages DEF CommitCall, IdleCall, IInv
  <1>2. PICK id \in AdjIds : id = calls[k].id
    BY <1>1 DEF Call
  <1>3. PICK rec \in Recommendations(id.claim) : rec = calls[k].record
    BY <1>1, <1>2 DEF IInv, InvocationKnows
  <1>4. id.claim \in Claims
    BY DEF AdjIds
  <1>5. /\ rec \in Record /\ Enforced(rec)
        /\ rec.approved <= Claimed[id.claim]
        /\ rec.by = NoUser /\ ~rec.reason
    BY <1>4, RecommendationType
  <1>6. CASE ~calls[k].newRecord
    BY <1>6 DEF CommitCall
  <1>7. CASE calls[k].newRecord
    <2>1. adjudications[id].status = "ABSENT"
      BY <1>1, <1>2, <1>7 DEF IInv, InvocationKnows
    <2>2. records[id] = <<>>
      BY <2>1 DEF IInv, OneStory, NoStory
    <2>3. records' = [records EXCEPT ![id] = <<rec>>] /\ outbox' = outbox
      BY <1>2, <1>3, <1>7 DEF CommitCall
    <2>4. records'[id] = <<rec>>
      BY <2>3 DEF IInv, TypeOK
    <2>5. Len(records'[id]) = 1 /\ records'[id][1] = rec
      BY <2>4
    <2>6. [i \in AdjIds |-> Claimed[i.claim]][id] = Claimed[id.claim]
      OBVIOUS
    <2>7. records' = [records EXCEPT ![id] = <<records'[id][1]>>]
      BY <2>3, <2>5
    <2>8. records'[id][1] \in Ledger!Entry /\ Ledger!Enforced(records'[id][1])
      BY <1>5, <2>5, LedgerVocabulary
    <2>9. Ledger!Propose(id)
      BY <1>5, <2>2, <2>3, <2>5, <2>6, <2>7, <2>8 DEF Ledger!Propose
    <2> QED  BY <2>9
  <1> QED  BY <1>6, <1>7

\* A finalize COMMIT rules.
LEMMA CommitFinalizeRules ==
    ASSUME IInv, NEW r \in Requests, CommitFinalize(r)
    PROVE  \E id \in AdjIds : Ledger!Rule(id)
  <1>1. PICK id \in AdjIds, d \in Decision, agent \in Record : Finalizes(id, d, agent)
    BY CommitFinalizeFacts
  <1> DEFINE human == FinalRecord(d, AdjudicationRow(agent), agent)
  <1>2. /\ records[id] = <<agent>>
        /\ records' = [records EXCEPT ![id] = Append(<<agent>>, human)]
        /\ outbox' = outbox \cup {AdjudicatedEvent(id, d)}
        /\ human \in Record
        /\ Ledger!Ruling(human, agent, Claimed[id.claim])
    BY <1>1 DEF Finalizes
  <1>3. AdjudicatedEvent(id, d) =
          [id |-> id, verdict |-> OperationalVerdict(human.verdict),
           disposition |-> human.disposition, approved |-> human.approved]
    BY DEF AdjudicatedEvent, FinalRecord, Record
  <1> HIDE DEF human
  <1>4. records'[id] = Append(<<agent>>, human)
    BY <1>2 DEF IInv, TypeOK
  <1>5. /\ Len(records[id]) = 1 /\ records[id][1] = agent
        /\ Len(records'[id]) = 2 /\ records'[id][2] = human
    BY <1>2, <1>4
  <1>6. records' = [records EXCEPT ![id] = Append(records[id], human)]
    BY <1>2
  <1> QED  BY <1>2, <1>3, <1>5, <1>6, LedgerVocabulary DEF Ledger!Rule

\* Seen from outside, the store is the ledger: no interleaving of the statements
\* of the two transactions, and no failure of one, shows.
THEOREM StoreImplementsLedger == Spec => LedgerKept
  <1>1. Init => Ledger!Init
    BY DEF Init, Ledger!Init
  <1>2. IInv /\ [Next]_vars => [Ledger!Next]_<<records, outbox>>
    <2> SUFFICES ASSUME IInv, [Next]_vars
                 PROVE  UNCHANGED <<records, outbox>> \/ Ledger!Next
      OBVIOUS
    <2>1. UNCHANGED store \/ (\E k \in Calls : CommitCall(k))
            \/ (\E r \in Requests : CommitFinalize(r))
      BY DEF Next, vars, store, Adjudicate, InsertAdjudication, InsertDecisionRecord,
           FailCall, SelectForFinalize, FinalizeUpdate, DecisionRecordInsert,
           OutboxInsert, FailFinalize
    <2> QED  BY <2>1, CommitCallProposes, CommitFinalizeRules DEF Ledger!Next, store
  <1> QED  BY <1>1, <1>2, Invariance, PTL DEF Spec, LedgerKept, Ledger!Spec

-----------------------------------------------------------------------------
(* The departments downstream *)

\* An event is what the human version of its adjudication's record decides.
LEMMA EventIsRuling ==
    ASSUME IInv, NEW e \in outbox
    PROVE  /\ e.id \in AdjIds /\ e.id.claim \in Claims /\ Ruled(e.id.claim, e.id)
           /\ e.verdict = OperationalVerdict(records[e.id][2].verdict)
           /\ e.verdict = "APPROVE" => records[e.id][2].verdict = "APPROVE"
           /\ e.approved = records[e.id][2].approved
           /\ Stored[e.approved] \in Amounts /\ Stored[e.approved] <= Claimed[e.id.claim]
  <1>1. e \in Event /\ e.id \in AdjIds /\ e.approved \in Amounts
    BY DEF IInv, TypeOK, Event
  <1>2. e.id.claim \in Claims /\ adjudications[e.id] \in Row
    BY <1>1 DEF AdjIds, IInv, TypeOK
  <1>3. EventsOf(e.id) # {}
    BY DEF EventsOf
  <1>4. adjudications[e.id].status = "FINAL" /\ FinalStory(e.id)
    BY <1>1, <1>2, <1>3 DEF IInv, OneStory, NoStory, RecommendedStory, Row
  <1> DEFINE human == records[e.id][2]
  <1>5. human.by \in Users /\ human.approved <= Claimed[e.id.claim] + Tolerance
    BY <1>1, <1>4 DEF IInv, HumanEntry, Ledger!Ruling
  <1>6. /\ e.verdict = OperationalVerdict(human.verdict) /\ e.approved = human.approved
    BY <1>4 DEF FinalStory, EventsOf
  <1>7. e.verdict = "APPROVE" => human.verdict = "APPROVE"
    BY <1>6 DEF OperationalVerdict
  <1>8. Stored[e.approved] \in Amounts /\ Stored[e.approved] <= Claimed[e.id.claim]
    BY <1>1, <1>2, <1>5, <1>6, StoredAmounts
  <1> QED  BY <1>1, <1>2, <1>4, <1>5, <1>6, <1>7, <1>8 DEF Ruled

CasesType ==
    /\ settlements \in [Claims -> Amounts \cup {None}]
    /\ investigations \in [Claims -> AdjIds \cup {None}]
    /\ recoveries \in [Claims -> Amounts \cup {None}]

DownstreamInv == IInv /\ CasesType /\ CasesAreRuled

\* The writers leave every case its decision: a decision that is final is never changed.
LEMMA WritersKeepCases ==
    ASSUME DownstreamInv, [Next]_vars, UNCHANGED cases
    PROVE  DownstreamInv'
  <1>1. IInv' /\ CasesType'
    BY NextInvariant DEF DownstreamInv, CasesType, cases
  <1>2. \A id \in AdjIds : adjudications[id].status = "FINAL" =>
          adjudications'[id] = adjudications[id] /\ records'[id] = records[id]
    BY StoreKeeps DEF DownstreamInv, Kept
  <1>3. \A c \in Claims, id \in AdjIds : Ruled(c, id) =>
          Ruled(c, id)' /\ records'[id] = records[id]
    BY <1>2 DEF Ruled
  <1>4. Attributable \subseteq AdjIds
    BY DownstreamAssumption
  <1> QED  BY <1>1, <1>3, <1>4
      DEF DownstreamInv, CasesAreRuled, SettlementIsRuled, InvestigationIsRuled, RecoveryIsRuled, cases

\* A case is opened from an event, and an event is a ruling.
LEMMA OpenCaseKeeps ==
    ASSUME DownstreamInv, OpenCase
    PROVE  DownstreamInv'
  <1>1. IInv' /\ UNCHANGED <<adjudications, records>>
    <2>1. UNCHANGED vars
      BY DEF OpenCase
    <2>2. IInv'
      BY <2>1, NextInvariant DEF DownstreamInv
    <2> QED  BY <2>1, <2>2 DEF vars
  <1>2. PICK e \in outbox :
          \/ Depts!OpenSettlement(Payload(e)) \/ Depts!OpenInvestigation(Payload(e))
          \/ Depts!OpenRecovery(Payload(e))
    BY DEF OpenCase, Decided
  <1> DEFINE c == e.id.claim
             human == records[e.id][2]
  <1>3. /\ e.id \in AdjIds /\ c \in Claims /\ Ruled(c, e.id)
        /\ e.verdict = OperationalVerdict(human.verdict)
        /\ e.verdict = "APPROVE" => human.verdict = "APPROVE"
        /\ e.approved = human.approved
        /\ Stored[e.approved] \in Amounts /\ Stored[e.approved] <= Claimed[c]
    BY EventIsRuling DEF DownstreamInv
  <1>4. /\ Payload(e).adj = e.id /\ Payload(e).verdict = e.verdict
        /\ Payload(e).approved = e.approved /\ (Payload(e).supplier <=> e.id \in Attributable)
        /\ [id \in AdjIds |-> id.claim][e.id] = c
    BY <1>3 DEF Payload
  <1>5. \A d \in Claims, id \in AdjIds : Ruled(d, id)' <=> Ruled(d, id)
    BY <1>1 DEF Ruled
  <1>6. Attributable \subseteq AdjIds
    BY DownstreamAssumption
  <1> HIDE DEF c, human
  <1>7. CASE Depts!OpenSettlement(Payload(e))
    <2>1. /\ e.verdict = "APPROVE" /\ settlements' = [settlements EXCEPT ![c] = Stored[e.approved]]
          /\ UNCHANGED <<investigations, recoveries>>
      BY <1>4, <1>7 DEF Depts!OpenSettlement
    <2>2. settlements'[c] = Stored[e.approved] /\ \A d \in Claims \ {c} : settlements'[d] = settlements[d]
      BY <1>3, <2>1 DEF DownstreamInv, CasesType
    <2>3. CasesType'
      BY <1>3, <2>1 DEF DownstreamInv, CasesType
    <2>4. ASSUME NEW d \in Claims PROVE InvestigationIsRuled(d)' /\ RecoveryIsRuled(d)'
      BY <1>1, <1>5, <1>6, <2>1 DEF DownstreamInv, CasesAreRuled, InvestigationIsRuled, RecoveryIsRuled
    <2>5. ASSUME NEW d \in Claims \ {c} PROVE SettlementIsRuled(d)'
      BY <1>1, <1>5, <1>6, <2>2 DEF DownstreamInv, CasesAreRuled, SettlementIsRuled
    <2>6. SettlementIsRuled(c)'
      BY <1>1, <1>3, <1>5, <2>1, <2>2 DEF SettlementIsRuled, human
    <2>7. CasesAreRuled'
      BY <2>4, <2>5, <2>6 DEF CasesAreRuled
    <2> QED  BY <1>1, <2>3, <2>7 DEF DownstreamInv
  <1>8. CASE Depts!OpenInvestigation(Payload(e))
    <2>1. /\ e.verdict = "PEND" /\ investigations' = [investigations EXCEPT ![c] = e.id]
          /\ UNCHANGED <<settlements, recoveries>>
      BY <1>4, <1>8 DEF Depts!OpenInvestigation
    <2>2. investigations'[c] = e.id /\ \A d \in Claims \ {c} : investigations'[d] = investigations[d]
      BY <1>3, <2>1 DEF DownstreamInv, CasesType
    <2>3. CasesType'
      BY <1>3, <2>1 DEF DownstreamInv, CasesType
    <2>4. ASSUME NEW d \in Claims PROVE SettlementIsRuled(d)' /\ RecoveryIsRuled(d)'
      BY <1>1, <1>5, <1>6, <2>1 DEF DownstreamInv, CasesAreRuled, SettlementIsRuled, RecoveryIsRuled
    <2>5. ASSUME NEW d \in Claims \ {c} PROVE InvestigationIsRuled(d)'
      BY <1>1, <1>5, <1>6, <2>2 DEF DownstreamInv, CasesAreRuled, InvestigationIsRuled
    <2>6. InvestigationIsRuled(c)'
      BY <1>1, <1>3, <1>5, <2>1, <2>2 DEF InvestigationIsRuled, human
    <2>7. CasesAreRuled'
      BY <2>4, <2>5, <2>6 DEF CasesAreRuled
    <2> QED  BY <1>1, <2>3, <2>7 DEF DownstreamInv
  <1>9. CASE Depts!OpenRecovery(Payload(e))
    <2>1. /\ e.id \in Attributable /\ recoveries' = [recoveries EXCEPT ![c] = Stored[e.approved]]
          /\ UNCHANGED <<settlements, investigations>>
      BY <1>4, <1>9 DEF Depts!OpenRecovery
    <2>2. recoveries'[c] = Stored[e.approved] /\ \A d \in Claims \ {c} : recoveries'[d] = recoveries[d]
      BY <1>3, <2>1 DEF DownstreamInv, CasesType
    <2>3. CasesType'
      BY <1>3, <2>1 DEF DownstreamInv, CasesType
    <2>4. ASSUME NEW d \in Claims PROVE SettlementIsRuled(d)' /\ InvestigationIsRuled(d)'
      BY <1>1, <1>5, <1>6, <2>1 DEF DownstreamInv, CasesAreRuled, SettlementIsRuled, InvestigationIsRuled
    <2>5. ASSUME NEW d \in Claims \ {c} PROVE RecoveryIsRuled(d)'
      BY <1>1, <1>5, <1>6, <2>2 DEF DownstreamInv, CasesAreRuled, RecoveryIsRuled
    <2>6. RecoveryIsRuled(c)'
      BY <1>1, <1>3, <1>5, <2>1, <2>2 DEF RecoveryIsRuled, human
    <2>7. CasesAreRuled'
      BY <2>4, <2>5, <2>6 DEF CasesAreRuled
    <2> QED  BY <1>1, <2>3, <2>7 DEF DownstreamInv
  <1> QED  BY <1>2, <1>7, <1>8, <1>9

\* No money moves, and nobody is investigated, without an adjuster's ruling in the record
\* (finalize.ts:4-15, consumer_core.py:6-11), for any claims, amounts and number of adjudications
\* of a claim, and whatever transaction fails where.
THEOREM CasesAlwaysRuled == DownstreamSpec => []CasesAreRuled
  <1>1. DownstreamInit => DownstreamInv
    <2> SUFFICES ASSUME DownstreamInit PROVE DownstreamInv
      OBVIOUS
    <2>1. IInv
      BY InitInvariant DEF DownstreamInit
    <2> QED  BY <2>1
        DEF DownstreamInit, DownstreamInv, CasesType, CasesAreRuled, NoCase,
            SettlementIsRuled, InvestigationIsRuled, RecoveryIsRuled
  <1>2. DownstreamInv /\ [DownstreamNext]_downstreamVars => DownstreamInv'
    BY WritersKeepCases, OpenCaseKeeps DEF DownstreamNext, downstreamVars
  <1>3. DownstreamInv => CasesAreRuled
    BY DEF DownstreamInv
  <1> QED  BY <1>1, <1>2, <1>3, PTL DEF DownstreamSpec

\* The departments take nothing from the store's theorems: every behaviour with them is one of the
\* store's.
LEMMA DownstreamIsStore == DownstreamSpec => Spec
  <1>1. DownstreamInit => Init
    BY DEF DownstreamInit
  <1>2. [DownstreamNext]_downstreamVars => [Next]_vars
    BY DEF DownstreamNext, downstreamVars, OpenCase
  <1> QED  BY <1>1, <1>2, PTL DEF DownstreamSpec, Spec
=============================================================================
