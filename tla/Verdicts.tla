------------------------------- MODULE Verdicts -------------------------------
(* The verdicts and dispositions every part of the claims service speaks of.   *)
CONSTANT ApproveDispositions   \* APPROVE_DISPOSITIONS: CREDIT, REPLACEMENT, REWORK

DenyDispositions == {"DENY", "DUPLICATE"}

ASSUME VerdictsAssumption ==
    ApproveDispositions \cap (DenyDispositions \cup {"PEND_INVESTIGATE"}) = {}

AgentVerdicts == {"APPROVE", "DENY", "PEND_INVESTIGATE"}
OperationalVerdicts == {"APPROVE", "DENY", "PEND"}
Dispositions == ApproveDispositions \cup DenyDispositions \cup {"PEND_INVESTIGATE"}

\* The agent's PEND_INVESTIGATE is stored as PEND on adjudications.verdict.
OperationalVerdict(v) == IF v = "PEND_INVESTIGATE" THEN "PEND" ELSE v

\* Both vocabularies collapsed, to ask whether a human changed the verdict.
CanonicalVerdict(v) == IF v = "PEND_INVESTIGATE" THEN "PEND" ELSE v

\* The disposition is of the verdict's class, and only an APPROVE carries money:
\* any other verdict needs an amount that is taken for nothing.
Coherent(verdict, disposition, nothing) ==
    \/ verdict = "APPROVE" /\ disposition \in ApproveDispositions
    \/ verdict = "DENY" /\ disposition \in DenyDispositions /\ nothing
    \/ /\ verdict = "PEND_INVESTIGATE"
       /\ disposition = "PEND_INVESTIGATE"
       /\ nothing

\* What enforce_invariants leaves of a recommendation, whatever the model
\* answered: a duplicate is denied as one, an ineligible claim is never approved
\* and an eligible one never denied.
Enforced(rec) ==
    /\ Coherent(rec.verdict, rec.disposition, rec.approved = 0)
    /\ rec.duplicate => /\ rec.deterministic = "DENY"
                        /\ rec.verdict = "DENY"
                        /\ rec.disposition = "DUPLICATE"
    /\ rec.verdict = "APPROVE" => rec.deterministic = "APPROVE"
    /\ rec.verdict = "DENY" => rec.deterministic # "APPROVE"
=============================================================================
