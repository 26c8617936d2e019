------------------------------ MODULE Departments ------------------------------
(***************************************************************************)
(* What the fan-out promises the departments downstream: a decision on a    *)
(* claim is made once and stands; it opens the settlement, the              *)
(* investigation or the supplier recovery it calls for at most once; and a  *)
(* case, once open, is never written again.                                 *)
(***************************************************************************)
CONSTANTS
    Event,     \* the claim.adjudicated payloads
    ClaimOf,   \* claim_id of each adjudication
    Stored,    \* an amount as a numeric(18,2) column keeps it: in whole cents
    None       \* no case

VARIABLES
    decided,         \* the decisions made
    settlements,     \* STL-<claim>: the amount
    investigations,  \* INV-<claim>: the adjudication it was opened from
    recoveries       \* SRC-<claim>: the recovery amount

\* A decision on an adjudication that had none.
Decide(e) ==
    /\ \A d \in decided : d.adj # e.adj
    /\ decided' = decided \cup {e}
    /\ UNCHANGED <<settlements, investigations, recoveries>>

OpenSettlement(e) ==
    LET c == ClaimOf[e.adj] IN
    /\ e.verdict = "APPROVE"
    /\ settlements[c] = None
    /\ settlements' = [settlements EXCEPT ![c] = Stored[e.approved]]
    /\ UNCHANGED <<decided, investigations, recoveries>>

OpenInvestigation(e) ==
    LET c == ClaimOf[e.adj] IN
    /\ e.verdict = "PEND"
    /\ investigations[c] = None
    /\ investigations' = [investigations EXCEPT ![c] = e.adj]
    /\ UNCHANGED <<decided, settlements, recoveries>>

OpenRecovery(e) ==
    LET c == ClaimOf[e.adj] IN
    /\ e.supplier
    /\ recoveries[c] = None
    /\ recoveries' = [recoveries EXCEPT ![c] = Stored[e.approved]]
    /\ UNCHANGED <<decided, settlements, investigations>>

\* No case is open before anything is decided.
Init ==
    /\ decided = {}
    /\ \A cases \in {settlements, investigations, recoveries} :
         \A c \in DOMAIN cases : cases[c] = None

Next ==
    \/ \E e \in Event : Decide(e)
    \/ \E e \in decided : OpenSettlement(e) \/ OpenInvestigation(e) \/ OpenRecovery(e)

Spec == Init /\ [][Next]_<<decided, settlements, investigations, recoveries>>
=============================================================================
