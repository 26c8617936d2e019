---------------------------- MODULE Adjudications ----------------------------
(***************************************************************************)
(* The operational store of the claims service and its two writers:        *)
(*                                                                         *)
(*   - invocations of the adjudication endpoint (agent/src/agent.py), each *)
(*     of which computes a recommendation and writes the adjudication row  *)
(*     and version 1 of its decision record in one transaction             *)
(*     (agent/src/writer.py);                                              *)
(*   - adjusters' finalize requests (app/server/finalize.ts), each of      *)
(*     which makes one adjudication FINAL, appends the human version of    *)
(*     the decision record and inserts the claim.adjudicated outbox row in *)
(*     one transaction.                                                    *)
(*                                                                         *)
(* A transaction is a sequence of statements interleaved with everything   *)
(* else that runs.  Its writes stay with the transaction until COMMIT, as  *)
(* READ COMMITTED requires, and a failure at any statement drops them.     *)
(***************************************************************************)
EXTENDS Integers, Sequences, Verdicts

CONSTANTS
    Claims,               \* claim ids
    Sources,              \* digests of the versions of authorities.py that are served
    Calls,                \* endpoint invocations that can be in flight together
    Requests,             \* finalize requests that can be in flight together
    Users,                \* adjusters
    NoUser,               \* decided_by of a recommendation
    Amounts,              \* the amounts of money that occur, down to parts of a cent
    Stored,               \* an amount as a numeric(18,2) column keeps it: in whole cents
    Tolerance,            \* 1e-9: what finalize.ts compares amounts to
    Claimed               \* claimed_amount of each claim

ASSUME AdjudicationsAssumption ==
    /\ Amounts \subseteq Nat
    /\ 0 \in Amounts
    /\ Stored \in [Amounts -> Amounts] /\ Stored[0] = 0
    /\ \A a \in Amounts : Stored[Stored[a]] = Stored[a]
    /\ \A a, b \in Amounts : a <= b => Stored[a] <= Stored[b]
    /\ Tolerance \in Nat \ {0}
    /\ \A a, b \in Amounts :
         Stored[b] = b /\ a - b <= Tolerance /\ b - a <= Tolerance => Stored[a] = b
    /\ Claimed \in [Claims -> Amounts]
    /\ \A c \in Claims : Stored[Claimed[c]] = Claimed[c]
    /\ NoUser \notin Users

VARIABLES
    adjudications,   \* public.adjudications, by adjudication_id
    records,         \* public.adjudication_decision_records: the versions, in order
    outbox,          \* public.outbox
    calls,           \* the endpoint's transactions
    requests         \* the finalize transactions

store == <<adjudications, records, outbox>>
vars == <<adjudications, records, outbox, calls, requests>>

-----------------------------------------------------------------------------
(* Vocabulary *)

\* adjudication_id = "ADJ-" + a digest of claim_id and the authorities source:
\* one id for each pair.
AdjIds == [claim : Claims, source : Sources]

\* A version of the decision record: the decision it carries, the deterministic
\* baseline, and who decided it and whether a reason was given.
Record == [verdict : AgentVerdicts, disposition : Dispositions, approved : Amounts,
           deterministic : AgentVerdicts, duplicate : BOOLEAN,
           by : Users \cup {NoUser}, reason : BOOLEAN]

Row == [status : {"ABSENT", "RECOMMENDED", "FINAL"},
        verdict : OperationalVerdicts, disposition : Dispositions, approved : Amounts,
        recommendedVerdict : OperationalVerdicts, recommendedDisposition : Dispositions,
        override : BOOLEAN, by : Users \cup {NoUser}, reason : BOOLEAN]

Event == [id : AdjIds, verdict : OperationalVerdicts, disposition : Dispositions,
          approved : Amounts]

\* What an adjuster submits.
Decision == [verdict : AgentVerdicts, disposition : Dispositions, approved : Amounts,
             by : Users, reason : BOOLEAN]

\* No adjudication carries the id.
NoRow == [status |-> "ABSENT", verdict |-> "DENY", disposition |-> "DENY",
          approved |-> 0, recommendedVerdict |-> "DENY",
          recommendedDisposition |-> "DENY", override |-> FALSE,
          by |-> NoUser, reason |-> FALSE]

-----------------------------------------------------------------------------
(* The endpoint: adjudicate() and write_adjudication() *)

\* Every recommendation the endpoint may record for claim c: what
\* enforce_invariants lets through (DecisionRules shows it does), with the
\* settlement authority's amount, which is in whole cents and within the claim.
Recommendations(c) ==
    { rec \in [verdict : AgentVerdicts, disposition : Dispositions,
               approved : {a \in Amounts : a <= Claimed[c] /\ Stored[a] = a},
               deterministic : AgentVerdicts, duplicate : BOOLEAN,
               by : {NoUser}, reason : {FALSE}] : Enforced(rec) }

\* The projection of a recommendation onto the adjudications row.
AdjudicationRow(rec) ==
    [status |-> "RECOMMENDED",
     verdict |-> OperationalVerdict(rec.verdict),
     disposition |-> rec.disposition,
     approved |-> Stored[rec.approved],
     recommendedVerdict |-> OperationalVerdict(rec.verdict),
     recommendedDisposition |-> rec.disposition,
     override |-> FALSE, by |-> NoUser, reason |-> FALSE]

\* No transaction; and the stages of one: nothing written, the row's INSERT done,
\* the record's INSERT done.  newRow and newRecord are the two rowcounts.
IdleCall == [stage |-> "idle"]
Call == [stage : {"computed", "row", "record"}, id : AdjIds, record : Record,
         newRow : BOOLEAN, newRecord : BOOLEAN]

\* adjudicate() reads the digest it runs with first, then computes everything
\* the record needs; nothing is written yet.  Which versions of authorities.py are
\* being served, and when that changes, is left open: any may answer.
Adjudicate(k) ==
    /\ calls[k] = IdleCall
    /\ \E c \in Claims, s \in Sources : \E rec \in Recommendations(c) :
         calls' = [calls EXCEPT ![k] =
                     [stage |-> "computed", id |-> [claim |-> c, source |-> s],
                      record |-> rec, newRow |-> FALSE, newRecord |-> FALSE]]
    /\ UNCHANGED <<store, requests>>

\* Another transaction has inserted the row and not ended: an INSERT of the same
\* key waits for it.
InsertWaits(k) ==
    \E other \in Calls \ {k} :
        /\ calls[other] # IdleCall
        /\ calls[other].id = calls[k].id
        /\ calls[other].newRow

\* Faulty: ON CONFLICT DO UPDATE.
UpsertAdjudication(k) ==
    /\ calls[k].stage = "computed"
    /\ ~InsertWaits(k)
    /\ calls' = [calls EXCEPT ![k].stage = "row", ![k].newRow = TRUE]
    /\ UNCHANGED <<store, requests>>

\* Faulty: the connection is in autocommit mode, so the row is visible at once.
AutocommitAdjudication(k) ==
    LET call == calls[k]
        absent == adjudications[call.id].status = "ABSENT"
    IN  /\ call.stage = "computed"
        /\ calls' = [calls EXCEPT ![k].stage = "row", ![k].newRow = absent]
        /\ adjudications' = IF absent
                            THEN [adjudications EXCEPT ![call.id] = AdjudicationRow(call.record)]
                            ELSE adjudications
        /\ UNCHANGED <<records, outbox, requests>>

\* INSERT INTO adjudications ... ON CONFLICT (adjudication_id) DO NOTHING
InsertAdjudication(k) ==
    /\ calls[k].stage = "computed"
    /\ ~InsertWaits(k)
    /\ calls' = [calls EXCEPT ![k].stage = "row",
                   ![k].newRow = adjudications[calls[k].id].status = "ABSENT"]
    /\ UNCHANGED <<store, requests>>

\* INSERT INTO adjudication_decision_records ...
\*   ON CONFLICT (adjudication_id, record_version) DO NOTHING, record_version = 1
InsertDecisionRecord(k) ==
    /\ calls[k].stage = "row"
    /\ calls' = [calls EXCEPT ![k].stage = "record",
                   ![k].newRecord = records[calls[k].id] = <<>>]
    /\ UNCHANGED <<store, requests>>

\* COMMIT makes the rows the transaction inserted visible, and only those.  A
\* caller whose reply is lost afterwards does not know and may call again.
CommitCall(k) ==
    LET call == calls[k]
    IN  /\ call.stage = "record"
        /\ adjudications' = IF call.newRow
                            THEN [adjudications EXCEPT ![call.id] = AdjudicationRow(call.record)]
                            ELSE adjudications
        /\ records' = IF call.newRecord
                      THEN [records EXCEPT ![call.id] = <<call.record>>]
                      ELSE records
        /\ calls' = [calls EXCEPT ![k] = IdleCall]
        /\ UNCHANGED <<outbox, requests>>

\* An exception, a crash of the container or a lost connection: rollback.
FailCall(k) ==
    /\ calls[k] # IdleCall
    /\ calls' = [calls EXCEPT ![k] = IdleCall]
    /\ UNCHANGED <<store, requests>>

-----------------------------------------------------------------------------
(* The App: runFinalize() *)

AmountsEqual(a, b) == a - b < Tolerance /\ b - a < Tolerance

\* Faulty: an amount adjusted under the same verdict is no override.
DiffersInVerdict(d, row) ==
    \/ CanonicalVerdict(d.verdict) # CanonicalVerdict(row.recommendedVerdict)
    \/ d.disposition # row.recommendedDisposition

\* The decision is not the recommendation as it stands.
Differs(d, row) ==
    \/ CanonicalVerdict(d.verdict) # CanonicalVerdict(row.recommendedVerdict)
    \/ d.disposition # row.recommendedDisposition
    \/ ~AmountsEqual(d.approved, row.approved)

\* Faulty: a denial may keep its amount.
LooseDecision(d) ==
    \/ Coherent(d.verdict, d.disposition, AmountsEqual(d.approved, 0))
    \/ d.verdict = "DENY" /\ d.disposition \in DenyDispositions

\* verdict, disposition and amount agree with each other; an amount within the
\* tolerance is no amount.
ConsistentDecision(d) == Coherent(d.verdict, d.disposition, AmountsEqual(d.approved, 0))

\* Faulty: an override needs no reason.
ValidateWithoutReason(d, row, c) ==
    d.approved <= Claimed[c] + Tolerance /\ ConsistentDecision(d)

ValidateFinalize(d, row, c) ==
    /\ d.approved <= Claimed[c] + Tolerance
    /\ ConsistentDecision(d)
    /\ Differs(d, row) => d.reason

ValidDecisions(row, c) == {d \in Decision : ValidateFinalize(d, row, c)}

\* UPDATE ... SET decision_status = 'FINAL', ...: `read` is the row the SELECT
\* returned, from which the override was computed.
FinalRow(d, read, row) ==
    [row EXCEPT !.status = "FINAL",
                !.verdict = OperationalVerdict(d.verdict),
                !.disposition = d.disposition,
                !.approved = Stored[d.approved],
                !.override = Differs(d, read),
                !.by = d.by,
                !.reason = Differs(d, read) /\ d.reason]

\* The next version: the latest one copied forward, the human columns replaced.
FinalRecord(d, read, latest) ==
    [latest EXCEPT !.verdict = d.verdict,
                   !.disposition = d.disposition,
                   !.approved = d.approved,
                   !.duplicate = d.verdict = "DENY" /\ d.disposition = "DUPLICATE",
                   !.by = d.by,
                   !.reason = Differs(d, read) /\ d.reason]

\* buildAdjudicatedEvent: event_id is adj-<adjudication_id>.
AdjudicatedEvent(id, d) ==
    [id |-> id, verdict |-> OperationalVerdict(d.verdict),
     disposition |-> d.disposition, approved |-> d.approved]

Replies == {"finalized", "already_final", "not_found", "invalid", "failed"}
TxStages == {"locked", "updated", "recorded", "evented"}

\* A handler between requests, with the last reply it gave; and one inside its
\* transaction, after the SELECT, the UPDATE and each INSERT.
Replied(reply) == [stage |-> reply]
Tx == [stage : TxStages, id : AdjIds, decision : Decision, row : Row]

Locked(id) == \E r \in Requests : requests[r].stage \in TxStages /\ requests[r].id = id

\* BEGIN, then SELECT ... WHERE adjudication_id = $1 AND claim_id = $2 FOR UPDATE:
\* no row, a wait for the row's lock, or the row.  Until the next statement the
\* handler only computes: FINAL and a decision that does not validate roll back.
SelectForFinalize(r) ==
    /\ requests[r].stage \notin TxStages
    /\ \E id \in AdjIds, c \in Claims :
         LET row == adjudications[id]
             found == row.status # "ABSENT" /\ id.claim = c
         IN  \/ /\ ~found
                /\ requests' = [requests EXCEPT ![r] = Replied("not_found")]
             \/ /\ found /\ ~Locked(id)
                /\ row.status = "FINAL"
                /\ requests' = [requests EXCEPT ![r] = Replied("already_final")]
             \/ /\ found /\ ~Locked(id)
                /\ row.status # "FINAL"
                /\ \E d \in ValidDecisions(row, c) :
                     requests' = [requests EXCEPT ![r] =
                       [stage |-> "locked", id |-> id, decision |-> d, row |-> row]]
             \/ /\ found /\ ~Locked(id)
                /\ row.status # "FINAL"
                /\ ValidDecisions(row, c) # Decision
                /\ requests' = [requests EXCEPT ![r] = Replied("invalid")]
    /\ UNCHANGED <<store, calls>>

\* Faulty: the UPDATE runs on the pool instead of the transaction's client.
UpdateOnPool(r) ==
    LET req == requests[r]
    IN  /\ req.stage = "locked"
        /\ requests' = [requests EXCEPT ![r].stage = "updated"]
        /\ adjudications' = [adjudications EXCEPT ![req.id] =
                               FinalRow(req.decision, req.row, @)]
        /\ UNCHANGED <<records, outbox, calls>>

\* UPDATE ... WHERE decision_status = 'RECOMMENDED'; no row updated: roll back.
FinalizeUpdate(r) ==
    /\ requests[r].stage = "locked"
    /\ requests' = [requests EXCEPT ![r] =
         IF adjudications[@.id].status = "RECOMMENDED"
         THEN [@ EXCEPT !.stage = "updated"] ELSE Replied("already_final")]
    /\ UNCHANGED <<store, calls>>

\* INSERT INTO adjudication_decision_records SELECT ... ORDER BY record_version
\* DESC LIMIT 1: with no version to copy the handler throws and rolls back.
DecisionRecordInsert(r) ==
    /\ requests[r].stage = "updated"
    /\ requests' = [requests EXCEPT ![r] =
         IF records[@.id] # <<>> THEN [@ EXCEPT !.stage = "recorded"] ELSE Replied("failed")]
    /\ UNCHANGED <<store, calls>>

\* ON CONFLICT (event_id) DO NOTHING
OutboxWith(event) ==
    IF \E e \in outbox : e.id = event.id THEN outbox ELSE outbox \cup {event}

\* Faulty: the event goes out ahead of the transaction.
OutboxOnPool(r) ==
    /\ requests[r].stage = "recorded"
    /\ requests' = [requests EXCEPT ![r].stage = "evented"]
    /\ outbox' = OutboxWith(AdjudicatedEvent(requests[r].id, requests[r].decision))
    /\ UNCHANGED <<adjudications, records, calls>>

\* INSERT INTO outbox ...
OutboxInsert(r) ==
    /\ requests[r].stage = "recorded"
    /\ requests' = [requests EXCEPT ![r].stage = "evented"]
    /\ UNCHANGED <<store, calls>>

\* COMMIT: the three writes appear together.  The row's lock has kept the row and
\* its versions as the statements found them.  The reply may be lost on the way,
\* and then the adjuster is told the request failed.
CommitFinalize(r) ==
    LET req == requests[r]
        versions == records[req.id]
    IN  /\ req.stage = "evented"
        /\ adjudications' = [adjudications EXCEPT ![req.id] =
                               FinalRow(req.decision, req.row, @)]
        /\ records' = [records EXCEPT ![req.id] =
                         Append(@, FinalRecord(req.decision, req.row, versions[Len(versions)]))]
        /\ outbox' = OutboxWith(AdjudicatedEvent(req.id, req.decision))
        /\ \E reply \in {"finalized", "failed"} :
              requests' = [requests EXCEPT ![r] = Replied(reply)]
        /\ UNCHANGED <<calls>>

\* A crash of the App, a lost connection or a failed statement: rollback.
FailFinalize(r) ==
    /\ requests[r].stage \in TxStages
    /\ requests' = [requests EXCEPT ![r] = Replied("failed")]
    /\ UNCHANGED <<store, calls>>

-----------------------------------------------------------------------------
Init ==
    /\ adjudications = [id \in AdjIds |-> NoRow]
    /\ records = [id \in AdjIds |-> <<>>]
    /\ outbox = {}
    /\ calls = [k \in Calls |-> IdleCall]
    /\ requests = [r \in Requests |-> Replied("idle")]

Next ==
    \/ \E k \in Calls : \/ Adjudicate(k) \/ InsertAdjudication(k)
                        \/ InsertDecisionRecord(k) \/ CommitCall(k) \/ FailCall(k)
    \/ \E r \in Requests : \/ SelectForFinalize(r) \/ FinalizeUpdate(r)
                           \/ DecisionRecordInsert(r) \/ OutboxInsert(r)
                           \/ CommitFinalize(r) \/ FailFinalize(r)

Spec == Init /\ [][Next]_vars

-----------------------------------------------------------------------------
(* Properties *)

\* Every variable holds a value of its table's or transaction's shape.
TypeOK ==
    /\ adjudications \in [AdjIds -> Row]
    /\ records \in [AdjIds -> Seq(Record)]
    /\ outbox \subseteq Event
    /\ calls \in [Calls -> {IdleCall} \cup Call]
    /\ requests \in [Requests -> {Replied(s) : s \in Replies \cup {"idle"}} \cup Tx]

\* The event of an adjudication, as a set: no event, or events of its id.
EventsOf(id) == {e \in outbox : e.id = id}

\* The three tables tell one story of each adjudication, whatever transactions
\* interleave or fail: no row and no version; a recommendation and exactly the
\* version it came from; or a final decision, exactly two versions, and one event
\* with the same verdict, disposition and amount, which the row keeps in whole
\* cents.  (finalize.ts:4-15: ONE Postgres transaction; writer.py:165-169: "they
\* can never diverge".)
NoStory(id) == records[id] = <<>> /\ EventsOf(id) = {}

RecommendedStory(id) ==
    /\ Len(records[id]) = 1
    /\ adjudications[id] = AdjudicationRow(records[id][1])
    /\ EventsOf(id) = {}

FinalStory(id) ==
    LET row == adjudications[id]
        human == records[id][2]
    IN  /\ Len(records[id]) = 2
        /\ row.verdict = OperationalVerdict(human.verdict)
        /\ row.disposition = human.disposition
        /\ row.approved = Stored[human.approved]
        /\ row.by = human.by
        /\ row.reason = human.reason
        /\ EventsOf(id) = {[id |-> id, verdict |-> row.verdict,
                            disposition |-> row.disposition, approved |-> human.approved]}

OneStory ==
    \A id \in AdjIds :
      /\ adjudications[id].status = "ABSENT" => NoStory(id)
      /\ adjudications[id].status = "RECOMMENDED" => RecommendedStory(id)
      /\ adjudications[id].status = "FINAL" => FinalStory(id)

\* The audit shows both the math and the human: the human version keeps the
\* deterministic baseline of version 1 and the row keeps the recommendation, and
\* the override flag is raised exactly when verdict, disposition or amount of the
\* two versions differ, never without a reason (finalize.ts:78-86, 214-218).
OverridesAreExplained ==
    \A id \in AdjIds :
      adjudications[id].status = "FINAL" =>
        LET row == adjudications[id]
            agent == records[id][1]
            human == records[id][2]
        IN  /\ human.deterministic = agent.deterministic
            /\ row.recommendedVerdict = OperationalVerdict(agent.verdict)
            /\ row.recommendedDisposition = agent.disposition
            /\ row.override <=> \/ human.verdict # agent.verdict
                               \/ human.disposition # agent.disposition
                               \/ ~AmountsEqual(human.approved, agent.approved)
            /\ row.override <=> row.reason
            /\ human.by \in Users

\* What silver expects of every row and gold of every record version, on pain of
\* failing the pipeline's update (silver_adjudications_history.py:58-64,
\* gold_adjudication_decision_records.py:141-145).
SilverInvariant(id, row) ==
    /\ row.approved <= Claimed[id.claim]
    /\ \/ row.verdict = "APPROVE" /\ row.disposition \in ApproveDispositions
       \/ row.verdict = "DENY" /\ row.disposition \in DenyDispositions /\ row.approved = 0
       \/ /\ row.verdict = "PEND"
          /\ row.disposition = "PEND_INVESTIGATE"
          /\ row.approved = 0

GoldInvariant(rec) ==
    /\ rec.verdict = "APPROVE" \/ rec.approved = 0
    /\ rec.duplicate => rec.verdict = "DENY" /\ rec.approved = 0

\* No sequence of recommendations and overrides writes a row that stops the silver
\* pipeline: what the tolerance lets through is rounded away by the row's column.
SilverSafe ==
    \A id \in AdjIds :
      adjudications[id].status # "ABSENT" => SilverInvariant(id, adjudications[id])

\* Nor a record version that stops the gold one: "the final decision is validated to
\* be internally money-consistent so it cannot poison the silver/gold medallion
\* invariants" (finalize.ts:20-22).
MedallionSafe ==
    /\ SilverSafe
    /\ \A id \in AdjIds : \A n \in 1..Len(records[id]) : GoldInvariant(records[id][n])

\* First write wins: once an adjuster's decision is committed, no retry of the
\* endpoint and no later finalize request changes its row, its versions or its
\* event (finalize.ts:352-355), and a version once written is never rewritten.
FinalIsFinal ==
    [][\A id \in AdjIds :
         /\ adjudications[id].status = "FINAL" =>
              /\ adjudications'[id] = adjudications[id]
              /\ records'[id] = records[id]
              /\ EventsOf(id)' = EventsOf(id)
         /\ \A n \in 1..Len(records[id]) :
              n <= Len(records'[id]) /\ records'[id][n] = records[id][n]]_vars

\* The row, the human version and the event of a final decision carry one amount,
\* the one the adjuster decided (finalize.ts:5-7).
OneAmount ==
    \A id \in AdjIds :
      adjudications[id].status = "FINAL" =>
        /\ adjudications[id].approved = records[id][2].approved
        /\ \A e \in EventsOf(id) : e.approved = adjudications[id].approved

\* The two inserts of one endpoint transaction do the same thing: both write or
\* neither does (writer.py:171-173).
InsertsAgree ==
    \A k \in Calls :
      calls[k].stage = "record" => calls[k].newRow = calls[k].newRecord

\* Seen from outside, the statements of both transactions and their failures
\* amount to a ledger that takes one recommendation and one ruling for each
\* adjudication, each in one step, the ruling together with its event.
Ledger == INSTANCE DecisionLedger WITH
    Ids <- AdjIds, Cap <- [id \in AdjIds |-> Claimed[id.claim]],
    ledger <- records, announced <- outbox

LedgerKept == Ledger!Spec

-----------------------------------------------------------------------------
(* The inductive invariant *)

\* What an invocation's transaction knows of the committed tables: the row it has
\* inserted is still absent for everybody else, the row it has not was there.
InvocationKnows(k) ==
    LET call == calls[k]
        status == adjudications[call.id].status
    IN  call # IdleCall =>
          /\ call.record \in Recommendations(call.id.claim)
          /\ call.stage = "computed" => ~call.newRow
          /\ call.newRow => status = "ABSENT"
          /\ call.stage # "computed" /\ ~call.newRow => status # "ABSENT"
          /\ call.stage = "record" => call.newRow = call.newRecord

\* At most one open transaction has inserted the row of an adjudication.
OneInserter ==
    \A j, k \in Calls :
      /\ j # k
      /\ calls[j] # IdleCall /\ calls[j].newRow
      /\ calls[k] # IdleCall /\ calls[k].newRow
      => calls[j].id # calls[k].id

\* A finalize transaction works on the row as it stands, and the row is still a
\* recommendation.
RequestKnows(r) ==
    LET req == requests[r]
    IN  req.stage \in TxStages =>
          /\ req.row = adjudications[req.id]
          /\ req.row.status = "RECOMMENDED"
          /\ ValidateFinalize(req.decision, req.row, req.id.claim)

\* At most one open transaction holds the lock on a row.
OneHolder ==
    \A q, r \in Requests :
      q # r /\ requests[q].stage \in TxStages /\ requests[r].stage \in TxStages
      => requests[q].id # requests[r].id

\* Where the entries of an adjudication come from.
AgentEntry(id) ==
    adjudications[id].status # "ABSENT" => records[id][1] \in Recommendations(id.claim)

HumanEntry(id) ==
    LET row == adjudications[id]
        agent == records[id][1]
        human == records[id][2]
    IN  row.status = "FINAL" =>
          /\ row.recommendedVerdict = OperationalVerdict(agent.verdict)
          /\ row.recommendedDisposition = agent.disposition
          /\ row.override <=> row.reason
          /\ Ledger!Ruling(human, agent, Claimed[id.claim])

IInv ==
    /\ TypeOK
    /\ OneStory
    /\ \A k \in Calls : InvocationKnows(k)
    /\ OneInserter
    /\ \A r \in Requests : RequestKnows(r)
    /\ OneHolder
    /\ \A id \in AdjIds : AgentEntry(id) /\ HumanEntry(id)
=============================================================================
