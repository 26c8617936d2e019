------------------------------- MODULE Scorers -------------------------------
(***************************************************************************)
(* The money-safety scorers of the offline evaluation (eval/src/scorers.py) *)
(* on what the agent returns.  A version is promoted only if every record   *)
(* satisfies them, so they and enforce_invariants must agree on what safe   *)
(* is, whatever the language model answers.                                 *)
(***************************************************************************)
EXTENDS DecisionRules

\* A duplicate is denied as one, and pays nothing.
NoPayableDuplicate(r, f) ==
    f.duplicate => r.verdict = "DENY" /\ r.disposition = "DUPLICATE" /\ r.approved = 0

\* The estimate is what the settlement authority arrived at, payable or not.
AmountMatchesAuthority(r, f) == r.estimate = f.amount

\* A claim type without an authority has to be held.
VerdictMatchesEligibility(r, f) ==
    IF f.duplicate THEN r.verdict = "DENY"
    ELSE IF ~Resolved(f) THEN r.verdict = "PEND_INVESTIGATE"
    ELSE IF Eligible(f) THEN r.verdict \in {"APPROVE", "PEND_INVESTIGATE"}
    ELSE r.verdict # "APPROVE"

\* Whatever the model answers, the gate's money-safety scorers pass what
\* enforce_invariants has left of it; but for one answer, the denial of a claim type
\* no authority covers, which the invariants let stand and the scorer does not
\* (scorers.py:79-89, decision_record.py:299-322).
SafeOnEveryRecord ==
    stage = "enforced" =>
      LET r == recommendation IN
      /\ NoPayableDuplicate(r, facts)
      /\ AmountMatchesAuthority(r, facts)
      /\ \/ VerdictMatchesEligibility(r, facts)
         \/ ~facts.duplicate /\ ~Resolved(facts) /\ answer.verdict = "DENY" /\ r.approved = 0
=============================================================================
