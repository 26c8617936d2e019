------------------------------- MODULE Downstream -------------------------------
(***************************************************************************)
(* The store and its writers with the departments that live on its outbox:  *)
(* from a claim's recommendation to the money that leaves the house.  The   *)
(* relay, the broker and the consumers between them are taken at what they  *)
(* promise (Departments), which FanOut is shown to keep where a claim has   *)
(* one adjudication.                                                        *)
(***************************************************************************)
EXTENDS Adjudications

CONSTANTS
    Attributable,   \* the adjudications whose row names a supplier to recover from
    None            \* no case

ASSUME DownstreamAssumption ==
    /\ Attributable \subseteq AdjIds
    /\ None \notin Amounts \cup AdjIds

VARIABLES
    settlements,     \* STL-<claim>: the amount
    investigations,  \* INV-<claim>: the adjudication it was opened from
    recoveries       \* SRC-<claim>: the recovery amount

cases == <<settlements, investigations, recoveries>>
downstreamVars == <<vars, cases>>

\* What the departments read of an event in the outbox.
Payload(e) == [adj |-> e.id, verdict |-> e.verdict, approved |-> e.approved,
               supplier |-> e.id \in Attributable]

Decided == {Payload(e) : e \in outbox}

Depts == INSTANCE Departments WITH
    Event <- [adj : AdjIds, verdict : OperationalVerdicts, approved : Amounts,
              supplier : BOOLEAN],
    ClaimOf <- [id \in AdjIds |-> id.claim],
    decided <- Decided

\* A department opens a case, while the writers are anywhere in their transactions.
OpenCase ==
    /\ UNCHANGED vars
    /\ \E e \in Decided :
         Depts!OpenSettlement(e) \/ Depts!OpenInvestigation(e) \/ Depts!OpenRecovery(e)

NoCase == [c \in Claims |-> None]

DownstreamInit == Init /\ settlements = NoCase /\ investigations = NoCase /\ recoveries = NoCase

DownstreamNext ==
    \/ Next /\ UNCHANGED cases
    \/ OpenCase

DownstreamSpec == DownstreamInit /\ [][DownstreamNext]_downstreamVars

-----------------------------------------------------------------------------

\* The final decision on claim c that an adjuster has made and the record keeps.
Ruled(c, id) == id.claim = c /\ adjudications[id].status = "FINAL" /\ records[id][2].by \in Users

SettlementIsRuled(c) ==
    settlements[c] # None =>
      \E id \in AdjIds :
        /\ Ruled(c, id) /\ records[id][2].verdict = "APPROVE"
        /\ settlements[c] = Stored[records[id][2].approved] /\ settlements[c] <= Claimed[c]

InvestigationIsRuled(c) ==
    investigations[c] # None =>
      /\ investigations[c] \in AdjIds /\ Ruled(c, investigations[c])
      /\ OperationalVerdict(records[investigations[c]][2].verdict) = "PEND"

RecoveryIsRuled(c) ==
    recoveries[c] # None =>
      \E id \in Attributable :
        /\ Ruled(c, id)
        /\ recoveries[c] = Stored[records[id][2].approved] /\ recoveries[c] <= Claimed[c]

\* No money moves, and nobody is investigated, without an adjuster: what is settled or
\* recovered on a claim is what the human version of a decision record grants, in whole cents
\* and within the claim, and an investigation is one an adjuster has asked for, though any
\* transaction may fail at any statement (finalize.ts:4-15, events.py:115-121).
CasesAreRuled ==
    \A c \in Claims : SettlementIsRuled(c) /\ InvestigationIsRuled(c) /\ RecoveryIsRuled(c)
=============================================================================
