---------------------------- MODULE DecisionRules ----------------------------
(***************************************************************************)
(* How one recommendation is made: the authorities' outcome                 *)
(* (agent/src/decision_record.py, disposition_rules.py), the answer of the  *)
(* language model or the fallback for it (agent/src/agent.py), and the      *)
(* enforcement of the money invariants on that answer.                      *)
(*                                                                         *)
(* Nothing is known of the answer but its schema.  What is left of it is    *)
(* what module Adjudications takes every recommendation to be: Enforced.    *)
(***************************************************************************)
EXTENDS Integers, Verdicts

CONSTANTS
    Amounts,              \* the amounts the settlement authority may arrive at
    MillProperties        \* measured properties that are not the coating supplier's

CoatingProperties == {"coating_adhesion", "coating_weight_g_m2"}

ASSUME DecisionRulesAssumption ==
    /\ ApproveDispositions = {"CREDIT", "REPLACEMENT", "REWORK"}
    /\ Amounts \subseteq Nat /\ 0 \in Amounts
    /\ MillProperties \cap CoatingProperties = {}

\* What the deterministic core hands on: the outputs of the conformance, coverage
\* and settlement authorities and of the duplicate gate.
Facts == [claimType : {"material_nonconformance", "coating_warranty", "other"},
          nonconforming : SUBSET (MillProperties \cup CoatingProperties),
          covered : BOOLEAN, amount : Amounts, overClaim : BOOLEAN, partial : BOOLEAN,
          duplicate : BOOLEAN]

\* What the Recommendation schema admits.
Answer == [verdict : AgentVerdicts, disposition : Dispositions,
           estimate : Amounts, supplier : BOOLEAN]

Recommendation == [verdict : AgentVerdicts, disposition : Dispositions,
                   estimate : Amounts, supplier : BOOLEAN, approved : Amounts]

-----------------------------------------------------------------------------
(* The rules, R1 to R7 *)

\* R5's predicate, from conformance alone.
SupplierAttributable(f) ==
    /\ f.claimType = "material_nonconformance"
    /\ f.nonconforming \cap CoatingProperties # {}

OverClaimPartial(f) == f.overClaim /\ f.partial

ApproveDisposition(f) ==
    IF SupplierAttributable(f) THEN "REPLACEMENT"
    ELSE IF OverClaimPartial(f) THEN "REWORK" ELSE "CREDIT"

\* A claim type without an authority is neither eligible nor ineligible.
Resolved(f) == f.claimType # "other"

Eligible(f) ==
    \/ f.claimType = "material_nonconformance" /\ f.nonconforming # {}
    \/ f.claimType = "coating_warranty" /\ f.covered

\* R1, R2, R4 and R5 to R7, in their order.
DeterministicOutcome(f) ==
    IF f.duplicate
    THEN [verdict |-> "DENY", disposition |-> "DUPLICATE", payable |-> FALSE]
    ELSE IF ~Resolved(f)
    THEN [verdict |-> "PEND_INVESTIGATE", disposition |-> "PEND_INVESTIGATE",
          payable |-> FALSE]
    ELSE IF ~Eligible(f)
    THEN [verdict |-> "DENY", disposition |-> "DENY", payable |-> FALSE]
    ELSE [verdict |-> "APPROVE", disposition |-> ApproveDisposition(f), payable |-> TRUE]

\* The recommendation without a language model, and the fallback when it cannot
\* be reached or its answer is not of the schema.
DefaultRecommendation(f) ==
    LET det == DeterministicOutcome(f)
    IN  [verdict |-> det.verdict, disposition |-> det.disposition,
         estimate |-> f.amount, supplier |-> SupplierAttributable(f)]

-----------------------------------------------------------------------------
(* enforce_invariants *)

\* Faulty: an unresolved claim may be approved, as nothing says it is ineligible.
PayUnresolved(a, f) ==
    LET det == DeterministicOutcome(f)
    IN  IF f.duplicate THEN "DENY"
        ELSE IF a.verdict = "APPROVE" /\ Resolved(f) /\ ~Eligible(f) THEN det.verdict
        ELSE IF a.verdict = "DENY" /\ det.verdict = "APPROVE" THEN "PEND_INVESTIGATE"
        ELSE a.verdict

\* A duplicate is denied, an ineligible or unresolved claim is not approved, an
\* eligible one is held rather than denied; and otherwise the answer stands.
EnforcedVerdict(a, f) ==
    LET det == DeterministicOutcome(f)
    IN  IF f.duplicate THEN "DENY"
        ELSE IF a.verdict = "APPROVE" /\ ~det.payable THEN det.verdict
        ELSE IF a.verdict = "DENY" /\ det.verdict = "APPROVE" THEN "PEND_INVESTIGATE"
        ELSE a.verdict

\* The answer's disposition, normalised to the class of the enforced verdict.
EnforcedDisposition(a, f) ==
    LET det == DeterministicOutcome(f)
        verdict == EnforcedVerdict(a, f)
    IN  IF f.duplicate THEN "DUPLICATE"
        ELSE IF verdict = "PEND_INVESTIGATE" THEN "PEND_INVESTIGATE"
        ELSE IF verdict = "DENY"
        THEN IF verdict = a.verdict /\ a.disposition \in DenyDispositions
             THEN a.disposition ELSE "DENY"
        ELSE IF a.disposition \in ApproveDispositions THEN a.disposition
        ELSE IF det.disposition \in ApproveDispositions THEN det.disposition
        ELSE "CREDIT"

\* Faulty: supplier routing is left to the model.
RoutedByModel(a, f) ==
    [verdict |-> EnforcedVerdict(a, f), disposition |-> EnforcedDisposition(a, f),
     estimate |-> f.amount, supplier |-> a.supplier,
     approved |-> IF EnforcedVerdict(a, f) = "APPROVE" THEN f.amount ELSE 0]

EnforceInvariants(a, f) ==
    [verdict |-> EnforcedVerdict(a, f), disposition |-> EnforcedDisposition(a, f),
     estimate |-> f.amount, supplier |-> SupplierAttributable(f),
     approved |-> IF EnforcedVerdict(a, f) = "APPROVE" THEN f.amount ELSE 0]

\* Faulty: only corrections of money are recorded.
MoneyViolations(a, f) ==
    { v \in {"cannot_approve_ineligible_claim", "settlement_estimate_overridden"} :
        \/ /\ v = "cannot_approve_ineligible_claim"
           /\ a.verdict = "APPROVE" /\ ~DeterministicOutcome(f).payable
        \/ v = "settlement_estimate_overridden" /\ a.estimate # f.amount }

ViolationKinds ==
    {"duplicate_must_be_deny_duplicate", "cannot_approve_ineligible_claim",
     "cannot_deny_eligible_claim", "invalid_approve_disposition",
     "settlement_estimate_overridden", "supplier_attributable_overridden"}

\* The violations recorded with the decision.
Violations(a, f) ==
    LET det == DeterministicOutcome(f)
    IN  { v \in ViolationKinds :
            \/ /\ v = "duplicate_must_be_deny_duplicate"
               /\ f.duplicate
               /\ a.verdict # "DENY" \/ a.disposition # "DUPLICATE"
            \/ /\ v = "cannot_approve_ineligible_claim"
               /\ ~f.duplicate /\ ~det.payable
               /\ a.verdict = "APPROVE"
            \/ /\ v = "cannot_deny_eligible_claim"
               /\ ~f.duplicate /\ det.verdict = "APPROVE"
               /\ a.verdict = "DENY"
            \/ /\ v = "invalid_approve_disposition"
               /\ EnforcedVerdict(a, f) = "APPROVE"
               /\ a.disposition \notin ApproveDispositions
            \/ v = "settlement_estimate_overridden" /\ a.estimate # f.amount
            \/ /\ v = "supplier_attributable_overridden"
               /\ a.supplier # SupplierAttributable(f) }

-----------------------------------------------------------------------------
(* ClaimsAgent.adjudicate, up to the write *)

VARIABLES
    stage,           \* how far the invocation is
    facts,           \* of the deterministic core
    answer,          \* of the model, or the fallback
    recommendation   \* what enforce_invariants has made of it

vars == <<stage, facts, answer, recommendation>>

\* Until there is an answer, and a recommendation, the baseline stands for them.
Init ==
    /\ stage = "core"
    /\ facts \in Facts
    /\ answer = DefaultRecommendation(facts)
    /\ recommendation = EnforceInvariants(answer, facts)

\* The structured call's answer, whatever it is, or the fallback.
LlmRecommendation ==
    /\ stage = "core"
    /\ stage' = "answered"
    /\ answer' \in Answer \cup {DefaultRecommendation(facts)}
    /\ UNCHANGED <<facts, recommendation>>

\* A 403 of the endpoint is not recovered from: the invocation fails.
Forbidden ==
    /\ stage = "core"
    /\ stage' = "failed"
    /\ UNCHANGED <<facts, answer, recommendation>>

Enforce ==
    /\ stage = "answered"
    /\ stage' = "enforced"
    /\ recommendation' = EnforceInvariants(answer, facts)
    /\ UNCHANGED <<facts, answer>>

Next == LlmRecommendation \/ Forbidden \/ Enforce
Spec == Init /\ [][Next]_vars

-----------------------------------------------------------------------------
(* Properties *)

\* Every variable holds a value of its schema.
TypeOK ==
    /\ stage \in {"core", "answered", "enforced", "failed"}
    /\ facts \in Facts
    /\ answer \in Answer
    /\ recommendation \in Recommendation

\* The fields of the decision record the operational store depends on.
RecordOf(r, f) ==
    [verdict |-> r.verdict, disposition |-> r.disposition, approved |-> r.approved,
     deterministic |-> DeterministicOutcome(f).verdict, duplicate |-> f.duplicate]

\* Whatever the model answers, what is recorded is Enforced: what module
\* Adjudications assumes of a recommendation, this module provides
\* (decision_record.py:12-19).
ContractKept == stage = "enforced" => Enforced(RecordOf(recommendation, facts))

\* The model can hold money and can neither move nor make it: the amount is the
\* authorities' unless the claim is held, and the supplier is charged on the
\* authorities' word only (decision_record.py:276-294).
ModelOnlyHolds ==
    stage = "enforced" =>
      LET default == EnforceInvariants(DefaultRecommendation(facts), facts)
      IN  /\ recommendation.supplier = default.supplier
          /\ recommendation.approved # default.approved =>
               recommendation.verdict = "PEND_INVESTIGATE" /\ recommendation.approved = 0

\* The fallback passes the invariants untouched (agent_tools.py:166-168).
FallbackIsClean ==
    LET default == DefaultRecommendation(facts)
    IN  /\ Violations(default, facts) = {}
        /\ EnforceInvariants(default, facts).verdict = default.verdict
        /\ EnforceInvariants(default, facts).disposition = default.disposition

\* A recommendation that has been enforced has no violation left in it: enforcing
\* it again changes nothing.
Corrected(r) == [verdict |-> r.verdict, disposition |-> r.disposition,
                 estimate |-> r.estimate, supplier |-> r.supplier]

EnforcementSettles ==
    stage = "enforced" =>
      /\ Violations(Corrected(recommendation), facts) = {}
      /\ EnforceInvariants(Corrected(recommendation), facts) = recommendation

\* The verdict, the amount and the routing are never corrected without a violation
\* on the record (decision_record.py:17-19).
CorrectionsRecorded ==
    stage = "enforced" /\ Violations(answer, facts) = {} =>
      /\ recommendation.verdict = answer.verdict
      /\ recommendation.estimate = answer.estimate
      /\ recommendation.supplier = answer.supplier
=============================================================================
