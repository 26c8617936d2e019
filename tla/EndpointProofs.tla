---------------------------- MODULE EndpointProofs ----------------------------
(* That enforcement keeps its contract and the scorers', for every amount and    *)
(* every property; and that a payment is bounded, and the policy it is made by   *)
(* read forward, for every calendar, coil, claim and policy source; and that the *)
(* duplicate gate denies and passes claims as it says, for every calendar,       *)
(* window, limit and set of claims.                                              *)
EXTENDS Endpoint, Recursions, FiniteSetTheorems, TLAPS

\* The deterministic outcome is of the vocabulary, and payable exactly when it
\* approves a claim that is no duplicate (deterministic_outcome).
LEMMA OutcomeType ==
    ASSUME NEW f \in Facts
    PROVE  LET det == DeterministicOutcome(f)
           IN  /\ det.verdict \in AgentVerdicts
               /\ det.disposition \in Dispositions
               /\ det.payable \in BOOLEAN
               /\ det.payable <=> det.verdict = "APPROVE"
               /\ f.duplicate => det.verdict = "DENY" /\ det.disposition = "DUPLICATE"
               /\ ~f.duplicate => det.disposition # "DUPLICATE"
               /\ det.verdict = "APPROVE" => det.disposition \in ApproveDispositions
               /\ ~f.duplicate /\ det.verdict = "DENY" => det.disposition = "DENY"
               /\ det.verdict = "PEND_INVESTIGATE" => det.disposition = "PEND_INVESTIGATE"
<1>1. ApproveDisposition(f) \in ApproveDispositions
  BY DecisionRulesAssumption DEF ApproveDisposition
<1>2. f.duplicate \in BOOLEAN
  BY DEF Facts
<1> QED
  BY <1>1, <1>2, DecisionRulesAssumption
     DEF DeterministicOutcome, AgentVerdicts, Dispositions, DenyDispositions

\* What enforcement leaves of any answer of the schema (enforce_invariants).
LEMMA EnforcedType ==
    ASSUME NEW f \in Facts, NEW a \in Answer
    PROVE  /\ EnforcedVerdict(a, f) \in AgentVerdicts
           /\ EnforcedDisposition(a, f) \in Dispositions
           /\ EnforcedVerdict(a, f) = "APPROVE" =>
                /\ DeterministicOutcome(f).verdict = "APPROVE"
                /\ EnforcedDisposition(a, f) \in ApproveDispositions
           /\ EnforcedVerdict(a, f) = "DENY" =>
                /\ DeterministicOutcome(f).verdict # "APPROVE"
                /\ EnforcedDisposition(a, f) \in DenyDispositions
           /\ EnforcedVerdict(a, f) = "PEND_INVESTIGATE" =>
                EnforcedDisposition(a, f) = "PEND_INVESTIGATE"
           /\ f.duplicate => /\ EnforcedVerdict(a, f) = "DENY"
                             /\ EnforcedDisposition(a, f) = "DUPLICATE"
<1> DEFINE det == DeterministicOutcome(f)
<1> DEFINE v == EnforcedVerdict(a, f)
<1> DEFINE d == EnforcedDisposition(a, f)
<1>1. a.verdict \in AgentVerdicts /\ a.disposition \in Dispositions /\ f.duplicate \in BOOLEAN
  BY DEF Answer, Facts
<1>2. /\ det.verdict \in AgentVerdicts
      /\ det.disposition \in Dispositions
      /\ det.payable \in BOOLEAN
      /\ det.payable <=> det.verdict = "APPROVE"
      /\ f.duplicate => det.verdict = "DENY"
      /\ det.verdict = "APPROVE" => det.disposition \in ApproveDispositions
  BY OutcomeType
<1>3. v = IF f.duplicate THEN "DENY"
          ELSE IF a.verdict = "APPROVE" /\ ~det.payable THEN det.verdict
          ELSE IF a.verdict = "DENY" /\ det.verdict = "APPROVE" THEN "PEND_INVESTIGATE"
          ELSE a.verdict
  BY DEF EnforcedVerdict
<1>4. /\ v \in AgentVerdicts
      /\ v = "APPROVE" => det.verdict = "APPROVE"
      /\ v = "DENY" => det.verdict # "APPROVE"
      /\ f.duplicate => v = "DENY"
  <2> HIDE DEF det, v
  <2> QED BY <1>1, <1>2, <1>3 DEF AgentVerdicts
<1>5. d = IF f.duplicate THEN "DUPLICATE"
          ELSE IF v = "PEND_INVESTIGATE" THEN "PEND_INVESTIGATE"
          ELSE IF v = "DENY"
          THEN IF v = a.verdict /\ a.disposition \in DenyDispositions
               THEN a.disposition ELSE "DENY"
          ELSE IF a.disposition \in ApproveDispositions THEN a.disposition
          ELSE IF det.disposition \in ApproveDispositions THEN det.disposition
          ELSE "CREDIT"
  BY DEF EnforcedDisposition
<1>6. /\ d \in Dispositions
      /\ v = "APPROVE" => d \in ApproveDispositions
      /\ v = "DENY" => d \in DenyDispositions
      /\ v = "PEND_INVESTIGATE" => d = "PEND_INVESTIGATE"
      /\ f.duplicate => d = "DUPLICATE"
  <2> HIDE DEF det, v, d
  <2> QED BY <1>1, <1>2, <1>4, <1>5, DecisionRulesAssumption
             DEF AgentVerdicts, Dispositions, DenyDispositions
<1> QED BY <1>4, <1>6

\* The enforced recommendation, field by field.
LEMMA EnforcedFields ==
    ASSUME NEW f \in Facts, NEW a \in Answer
    PROVE  LET r == EnforceInvariants(a, f)
           IN  /\ r \in Recommendation
               /\ r.verdict = EnforcedVerdict(a, f)
               /\ r.disposition = EnforcedDisposition(a, f)
               /\ r.estimate = f.amount
               /\ r.supplier = SupplierAttributable(f)
               /\ r.approved = IF r.verdict = "APPROVE" THEN f.amount ELSE 0
<1>1. f.amount \in Amounts /\ 0 \in Amounts
  BY DecisionRulesAssumption DEF Facts
<1>2. SupplierAttributable(f) \in BOOLEAN
  BY DEF SupplierAttributable
<1> QED
  BY <1>1, <1>2, EnforcedType DEF EnforceInvariants, Recommendation

\* The baseline is an answer of the schema.
LEMMA DefaultType ==
    ASSUME NEW f \in Facts
    PROVE  /\ DefaultRecommendation(f) \in Answer
           /\ DefaultRecommendation(f).verdict = DeterministicOutcome(f).verdict
           /\ DefaultRecommendation(f).disposition = DeterministicOutcome(f).disposition
           /\ DefaultRecommendation(f).estimate = f.amount
           /\ DefaultRecommendation(f).supplier = SupplierAttributable(f)
<1>1. f.amount \in Amounts /\ SupplierAttributable(f) \in BOOLEAN
  BY DEF Facts, SupplierAttributable
<1> QED BY <1>1, OutcomeType DEF DefaultRecommendation, Answer

-----------------------------------------------------------------------------
\* The inductive invariant: what has been enforced is the enforcement of the
\* answer in hand.
IInv == TypeOK /\ (stage = "enforced" => recommendation = EnforceInvariants(answer, facts))

\* The invocation keeps the inductive invariant (ClaimsAgent.adjudicate).
THEOREM Invariance == Spec => []IInv
<1>1. Init => IInv
  <2> SUFFICES ASSUME Init PROVE IInv
    OBVIOUS
  <2>1. facts \in Facts /\ stage = "core"
    BY DEF Init
  <2>2. answer \in Answer
    BY <2>1, DefaultType DEF Init
  <2>3. recommendation \in Recommendation
    BY <2>1, <2>2, EnforcedFields DEF Init
  <2> QED BY <2>1, <2>2, <2>3 DEF IInv, TypeOK
<1>2. IInv /\ [Next]_vars => IInv'
  <2> SUFFICES ASSUME IInv, [Next]_vars PROVE IInv'
    OBVIOUS
  <2> USE DEF IInv, TypeOK
  <2>1. CASE LlmRecommendation
    BY <2>1, DefaultType DEF LlmRecommendation
  <2>2. CASE Forbidden
    BY <2>2 DEF Forbidden
  <2>3. CASE Enforce
    BY <2>3, EnforcedFields DEF Enforce
  <2>4. CASE UNCHANGED vars
    BY <2>4 DEF vars
  <2> QED BY <2>1, <2>2, <2>3, <2>4 DEF Next
<1> QED BY <1>1, <1>2, PTL DEF Spec

\* Every variable keeps to its schema.
THEOREM TypeCorrect == Spec => []TypeOK
<1>1. IInv => TypeOK
  BY DEF IInv
<1> QED BY <1>1, Invariance, PTL

\* What is recorded is Enforced whatever the model answers: the assumption that
\* module Adjudications makes of recommendations (decision_record.py:12-19).
THEOREM ContractAlwaysKept == Spec => []ContractKept
<1>1. IInv => ContractKept
  <2> SUFFICES ASSUME IInv, stage = "enforced"
               PROVE  Enforced(RecordOf(recommendation, facts))
    BY DEF ContractKept
  <2>1. facts \in Facts /\ answer \in Answer
        /\ recommendation = EnforceInvariants(answer, facts)
    BY DEF IInv, TypeOK
  <2>2. /\ recommendation.verdict = EnforcedVerdict(answer, facts)
        /\ recommendation.disposition = EnforcedDisposition(answer, facts)
        /\ recommendation.approved =
             IF recommendation.verdict = "APPROVE" THEN facts.amount ELSE 0
    BY <2>1, EnforcedFields
  <2>3. facts.duplicate => DeterministicOutcome(facts).verdict = "DENY"
    BY <2>1, OutcomeType
  <2> DEFINE rec == RecordOf(recommendation, facts)
  <2>4. /\ rec.verdict = EnforcedVerdict(answer, facts)
        /\ rec.disposition = EnforcedDisposition(answer, facts)
        /\ rec.approved = IF rec.verdict = "APPROVE" THEN facts.amount ELSE 0
        /\ rec.deterministic = DeterministicOutcome(facts).verdict
        /\ rec.duplicate = facts.duplicate
    BY <2>2 DEF RecordOf
  <2> HIDE DEF rec
  <2>5. Coherent(rec.verdict, rec.disposition, rec.approved = 0)
    BY <2>1, <2>4, EnforcedType DEF Coherent, AgentVerdicts
  <2> QED
    BY <2>1, <2>3, <2>4, <2>5, EnforcedType DEF Enforced, rec
<1> QED BY <1>1, Invariance, PTL

\* The model's answer holds money at most, and never routes a recovery
\* (decision_record.py:276-294).
THEOREM ModelAlwaysOnlyHolds == Spec => []ModelOnlyHolds
<1>1. IInv => ModelOnlyHolds
  <2> SUFFICES ASSUME IInv, stage = "enforced"
               PROVE  LET default == EnforceInvariants(DefaultRecommendation(facts), facts)
                      IN  /\ recommendation.supplier = default.supplier
                          /\ recommendation.approved # default.approved =>
                               /\ recommendation.verdict = "PEND_INVESTIGATE"
                               /\ recommendation.approved = 0
    BY DEF ModelOnlyHolds
  <2> DEFINE default == EnforceInvariants(DefaultRecommendation(facts), facts)
  <2>1. facts \in Facts /\ answer \in Answer
        /\ recommendation = EnforceInvariants(answer, facts)
    BY DEF IInv, TypeOK
  <2>2. /\ recommendation.verdict = EnforcedVerdict(answer, facts)
        /\ recommendation.supplier = SupplierAttributable(facts)
        /\ recommendation.approved =
             IF recommendation.verdict = "APPROVE" THEN facts.amount ELSE 0
    BY <2>1, EnforcedFields
  <2>3. /\ default.verdict = EnforcedVerdict(DefaultRecommendation(facts), facts)
        /\ default.supplier = SupplierAttributable(facts)
        /\ default.approved = IF default.verdict = "APPROVE" THEN facts.amount ELSE 0
    BY <2>1, DefaultType, EnforcedFields
  <2>4. EnforcedVerdict(DefaultRecommendation(facts), facts)
          = DeterministicOutcome(facts).verdict
    BY <2>1, DefaultType, OutcomeType DEF EnforcedVerdict, AgentVerdicts
  <2>5. /\ recommendation.verdict \in AgentVerdicts
        /\ recommendation.verdict = "APPROVE" =>
             DeterministicOutcome(facts).verdict = "APPROVE"
        /\ recommendation.verdict = "DENY" =>
             DeterministicOutcome(facts).verdict # "APPROVE"
    BY <2>1, <2>2, EnforcedType
  <2> QED
    <3> HIDE DEF default
    <3> SUFFICES /\ recommendation.supplier = default.supplier
                 /\ recommendation.approved # default.approved =>
                      /\ recommendation.verdict = "PEND_INVESTIGATE"
                      /\ recommendation.approved = 0
      BY DEF default
    <3> QED BY <2>2, <2>3, <2>4, <2>5 DEF AgentVerdicts
<1> QED BY <1>1, Invariance, PTL

\* The fallback passes the invariants untouched (agent_tools.py:166-168).
THEOREM FallbackAlwaysClean == Spec => []FallbackIsClean
<1>1. IInv => FallbackIsClean
  <2> SUFFICES ASSUME IInv PROVE FallbackIsClean
    OBVIOUS
  <2> DEFINE default == DefaultRecommendation(facts)
  <2> DEFINE det == DeterministicOutcome(facts)
  <2>1. facts \in Facts
    BY DEF IInv, TypeOK
  <2>2. /\ default \in Answer
        /\ default.verdict = det.verdict /\ default.disposition = det.disposition
        /\ default.estimate = facts.amount
        /\ default.supplier = SupplierAttributable(facts)
    BY <2>1, DefaultType
  <2>3. EnforcedVerdict(default, facts) = det.verdict
    BY <2>1, <2>2, OutcomeType DEF EnforcedVerdict, AgentVerdicts
  <2>4. EnforcedDisposition(default, facts) = det.disposition
    BY <2>1, <2>2, <2>3, OutcomeType
       DEF EnforcedDisposition, AgentVerdicts, DenyDispositions
  <2>5. Violations(default, facts) = {}
    BY <2>1, <2>2, <2>3, OutcomeType DEF Violations, ViolationKinds
  <2>6. /\ EnforceInvariants(default, facts).verdict = default.verdict
        /\ EnforceInvariants(default, facts).disposition = default.disposition
    BY <2>1, <2>2, <2>3, <2>4, EnforcedFields
  <2> QED BY <2>5, <2>6 DEF FallbackIsClean
<1> QED BY <1>1, Invariance, PTL

\* Nothing is left to correct after enforcement (enforce_invariants).
THEOREM EnforcementAlwaysSettles == Spec => []EnforcementSettles
<1>1. IInv => EnforcementSettles
  <2> SUFFICES ASSUME IInv, stage = "enforced"
               PROVE  /\ Violations(Corrected(recommendation), facts) = {}
                      /\ EnforceInvariants(Corrected(recommendation), facts) = recommendation
    BY DEF EnforcementSettles
  <2> DEFINE c == Corrected(recommendation)
  <2> DEFINE det == DeterministicOutcome(facts)
  <2>1. facts \in Facts /\ answer \in Answer
        /\ recommendation = EnforceInvariants(answer, facts)
    BY DEF IInv, TypeOK
  <2>2. /\ recommendation \in Recommendation
        /\ recommendation.verdict = EnforcedVerdict(answer, facts)
        /\ recommendation.disposition = EnforcedDisposition(answer, facts)
        /\ recommendation.estimate = facts.amount
        /\ recommendation.supplier = SupplierAttributable(facts)
    BY <2>1, EnforcedFields
  <2>3. /\ c \in Answer
        /\ c.verdict = EnforcedVerdict(answer, facts)
        /\ c.disposition = EnforcedDisposition(answer, facts)
        /\ c.estimate = facts.amount
        /\ c.supplier = SupplierAttributable(facts)
    BY <2>2 DEF Corrected, Recommendation, Answer
  <2> HIDE DEF c
  <2>4. /\ det.payable <=> det.verdict = "APPROVE"
        /\ c.verdict \in AgentVerdicts
        /\ c.verdict = "APPROVE" => /\ det.verdict = "APPROVE"
                                    /\ c.disposition \in ApproveDispositions
        /\ c.verdict = "DENY" => /\ det.verdict # "APPROVE"
                                 /\ c.disposition \in DenyDispositions
        /\ c.verdict = "PEND_INVESTIGATE" => c.disposition = "PEND_INVESTIGATE"
        /\ facts.duplicate => c.verdict = "DENY" /\ c.disposition = "DUPLICATE"
    BY <2>1, <2>3, EnforcedType, OutcomeType
  <2>5. EnforcedVerdict(c, facts) = c.verdict
    BY <2>4 DEF EnforcedVerdict
  <2>6. EnforcedDisposition(c, facts) = c.disposition
    BY <2>4, <2>5 DEF EnforcedDisposition, AgentVerdicts
  <2>7. Violations(c, facts) = {}
    BY <2>3, <2>4, <2>5 DEF Violations, ViolationKinds
  <2>8. EnforceInvariants(c, facts) = EnforceInvariants(answer, facts)
    BY <2>3, <2>5, <2>6 DEF EnforceInvariants
  <2> QED BY <2>1, <2>7, <2>8 DEF c
<1> QED BY <1>1, Invariance, PTL

\* No correction of verdict, amount or routing goes unrecorded
\* (decision_record.py:17-19).
THEOREM CorrectionsAlwaysRecorded == Spec => []CorrectionsRecorded
<1>1. IInv => CorrectionsRecorded
  <2> SUFFICES ASSUME IInv, stage = "enforced", Violations(answer, facts) = {}
               PROVE  /\ recommendation.verdict = answer.verdict
                      /\ recommendation.estimate = answer.estimate
                      /\ recommendation.supplier = answer.supplier
    BY DEF CorrectionsRecorded
  <2> DEFINE det == DeterministicOutcome(facts)
  <2>1. facts \in Facts /\ answer \in Answer
        /\ recommendation = EnforceInvariants(answer, facts)
    BY DEF IInv, TypeOK
  <2>2. /\ "duplicate_must_be_deny_duplicate" \notin Violations(answer, facts)
        /\ "cannot_approve_ineligible_claim" \notin Violations(answer, facts)
        /\ "cannot_deny_eligible_claim" \notin Violations(answer, facts)
        /\ "settlement_estimate_overridden" \notin Violations(answer, facts)
        /\ "supplier_attributable_overridden" \notin Violations(answer, facts)
    OBVIOUS
  <2>3. /\ facts.duplicate => answer.verdict = "DENY"
        /\ ~facts.duplicate /\ ~det.payable => answer.verdict # "APPROVE"
        /\ ~facts.duplicate /\ det.verdict = "APPROVE" => answer.verdict # "DENY"
        /\ answer.estimate = facts.amount
        /\ answer.supplier = SupplierAttributable(facts)
    BY <2>2 DEF Violations, ViolationKinds
  <2>4. EnforcedVerdict(answer, facts) = answer.verdict
    BY <2>3 DEF EnforcedVerdict
  <2> QED BY <2>1, <2>3, <2>4, EnforcedFields
<1> QED BY <1>1, Invariance, PTL

\* The money-safety scorers pass what enforcement has left of any answer, but for the
\* denial of a claim type without an authority (scorers.py:79-89).
THEOREM RecordsAlwaysSafe == Spec => []SafeOnEveryRecord
<1>1. IInv => SafeOnEveryRecord
  <2> SUFFICES ASSUME IInv, stage = "enforced"
               PROVE  SafeOnEveryRecord
    BY DEF SafeOnEveryRecord
  <2> DEFINE det == DeterministicOutcome(facts)
  <2>1. facts \in Facts /\ answer \in Answer
        /\ recommendation = EnforceInvariants(answer, facts)
    BY DEF IInv, TypeOK
  <2>2. /\ recommendation.verdict = EnforcedVerdict(answer, facts)
        /\ recommendation.disposition = EnforcedDisposition(answer, facts)
        /\ recommendation.estimate = facts.amount
        /\ recommendation.approved =
             IF recommendation.verdict = "APPROVE" THEN facts.amount ELSE 0
    BY <2>1, EnforcedFields
  <2>3. facts.duplicate \in BOOLEAN /\ answer.verdict \in AgentVerdicts
    BY <2>1 DEF Facts, Answer
  <2>4. /\ recommendation.verdict \in AgentVerdicts
        /\ facts.duplicate => /\ recommendation.verdict = "DENY"
                              /\ recommendation.disposition = "DUPLICATE"
    BY <2>1, <2>2, EnforcedType
  <2>5. /\ det.verdict = IF facts.duplicate THEN "DENY"
                         ELSE IF ~Resolved(facts) THEN "PEND_INVESTIGATE"
                         ELSE IF ~Eligible(facts) THEN "DENY" ELSE "APPROVE"
        /\ det.payable <=> det.verdict = "APPROVE"
    BY <2>3 DEF DeterministicOutcome
  <2>6. recommendation.verdict =
          IF facts.duplicate THEN "DENY"
          ELSE IF answer.verdict = "APPROVE" /\ ~det.payable THEN det.verdict
          ELSE IF answer.verdict = "DENY" /\ det.verdict = "APPROVE" THEN "PEND_INVESTIGATE"
          ELSE answer.verdict
    BY <2>2 DEF EnforcedVerdict
  <2>7. NoPayableDuplicate(recommendation, facts)
    BY <2>2, <2>4 DEF NoPayableDuplicate
  <2>8. \/ VerdictMatchesEligibility(recommendation, facts)
        \/ ~facts.duplicate /\ ~Resolved(facts) /\ answer.verdict = "DENY"
           /\ recommendation.approved = 0
    <3> HIDE DEF det
    <3> QED BY <2>2, <2>3, <2>4, <2>5, <2>6 DEF VerdictMatchesEligibility, AgentVerdicts
  <2> QED
    BY <2>2, <2>7, <2>8 DEF SafeOnEveryRecord, AmountMatchesAuthority
<1> QED BY <1>1, Invariance, PTL

-----------------------------------------------------------------------------
(* The deterministic core *)

Versions == UNION {Sources[i].warranties : i \in 1..Len(Sources)}

\* The record of an invocation that has statements left to execute.
CoreRecord ==
    [at : Statements, claim : Incoming, spec : 0..Len(Sources), warranty : 0..Len(Sources),
     terms : Versions \cup {None}, duplicate : BOOLEAN, seen : SUBSET Others,
     cited : 0..Len(Sources), versions : SUBSET Versions, aborted : BOOLEAN]

\* The tables are of one source, of which the loader has as many left.
OneSource ==
    /\ policy \in [Tables -> 1..Len(Sources)]
    /\ \A t, u \in Tables : policy[t] = policy[u]

\* What each statement has left for the next ones.
Known ==
    LET now == policy["spec_params"]
        terms == core.at \in {"resolved", "gate", "clauses", "precedent", "complete"}
        clauses == core.at \in {"clauses", "precedent", "complete"}
    IN  /\ core.at # "start" => core.claim.coil \in DOMAIN Coils
        /\ IF core.at \in {"start", "coil"} THEN core.spec = 0 ELSE core.spec \in 1..now
        /\ IF terms THEN /\ core.warranty \in core.spec..now
                         /\ core.terms \in Sources[core.warranty].warranties
                         /\ Applies(core.terms)
           ELSE core.warranty = 0
        /\ IF clauses
           THEN /\ core.cited \in core.warranty..now
                /\ core.claim.type = "coating_warranty" =>
                     core.versions = ClausesInForce(core.cited)
           ELSE core.cited = 0

\* The inductive invariant of the core.
CoreInv ==
    /\ OneSource
    /\ submitted \subseteq Others
    /\ "at" \in DOMAIN core
    /\ Reading => core \in CoreRecord /\ Known

\* An invocation has no source yet, and what it is for is a claim; the tables are all
\* of the first source.
LEMMA CoreStarts == EndpointInit => CoreInv
<1> SUFFICES ASSUME EndpointInit PROVE CoreInv
  OBVIOUS
<1> USE DEF EndpointInit
<1>1. OneSource
  BY EndpointAssumption DEF OneSource
<1>2. submitted \subseteq Others
  OBVIOUS
<1>3. CASE \E c \in Incoming : core = Begun(c)
  <2>1. PICK c \in Incoming : core = Begun(c)
    BY <1>3
  <2>2. core \in CoreRecord
    BY <2>1, EndpointAssumption DEF Begun, CoreRecord, Statements
  <2>3. Known
    BY <2>1 DEF Begun, Known
  <2> QED BY <1>1, <1>2, <2>1, <2>2, <2>3 DEF CoreInv, Begun
<1>4. CASE core = [at |-> "handed", aborted |-> FALSE]
  <2>1. ~Reading
    BY <1>4 DEF Reading, Statements
  <2> QED BY <1>1, <1>2, <1>4, <2>1 DEF CoreInv
<1> QED BY <1>3, <1>4

\* A statement that fails ends the reading.
LEMMA FailureEnds == Fails /\ "at" \in DOMAIN core => ~Reading' /\ ("at" \in DOMAIN core)'
<1> SUFFICES ASSUME Fails, "at" \in DOMAIN core
             PROVE  ~Reading' /\ ("at" \in DOMAIN core)'
  OBVIOUS
<1> QED BY DEF Fails, Reading, Statements

\* The core's statements, and whatever is committed between them, keep its invariant.
LEMMA CoreStep == CoreInv /\ [EndpointNext]_endpointVars => CoreInv'
<1> SUFFICES ASSUME CoreInv, [EndpointNext]_endpointVars PROVE CoreInv'
  OBVIOUS
<1> USE DEF CoreInv
<1>0. core' \in CoreRecord => ("at" \in DOMAIN core)'
  BY DEF CoreRecord
<1> DEFINE now == policy["spec_params"]
<1>1. /\ policy \in [Tables -> 1..Len(Sources)]
      /\ \A t \in Tables : policy[t] = now
      /\ now \in 1..Len(Sources) /\ now \in 0..Len(Sources) /\ Len(Sources) \in Nat
      /\ now = policy["spec_params"]
  BY EndpointAssumption DEF OneSource, Tables
<1> HIDE DEF now
<1>2. \A i \in 1..Len(Sources) : Sources[i].warranties \subseteq Versions
  BY DEF Versions
<1>3. UNCHANGED world => OneSource' /\ submitted' \subseteq Others
  BY DEF world, OneSource
<1>4. CASE FindCoil
  <2>1. At("start") /\ UNCHANGED world /\ Reading /\ core \in CoreRecord /\ Known
    BY <1>4 DEF FindCoil, At, Reading, Statements
  <2>2. CASE Fails
    BY <2>1, <2>2, <1>3, FailureEnds
  <2>3. CASE core.claim.coil \in DOMAIN Coils /\ core' = [core EXCEPT !.at = "coil"]
    <3>1. core' \in CoreRecord
      BY <2>1, <2>3 DEF CoreRecord, Statements
    <3>2. Known'
      BY <2>1, <2>3 DEF Known, At, CoreRecord
    <3> QED BY <1>0, <1>3, <2>1, <3>1, <3>2
  <2> QED BY <1>4, <2>2, <2>3 DEF FindCoil
<1>5. CASE ResolveSpec
  <2>1. At("coil") /\ UNCHANGED world /\ Reading /\ core \in CoreRecord /\ Known
    BY <1>5 DEF ResolveSpec, At, Reading, Statements
  <2>2. CASE Fails
    BY <2>1, <2>2, <1>3, FailureEnds
  <2>3. CASE core' = [core EXCEPT !.at = "spec", !.spec = now]
    <3>1. core' \in CoreRecord
      BY <1>1, <2>1, <2>3 DEF CoreRecord, Statements
    <3>2. Known'
      BY <1>1, <2>1, <2>3 DEF Known, At, CoreRecord, world
    <3> QED BY <1>0, <1>3, <2>1, <3>1, <3>2
  <2> QED BY <1>1, <1>5, <2>2, <2>3 DEF ResolveSpec
<1>6. CASE ResolveWarranty
  <2>1. At("spec") /\ UNCHANGED world /\ Reading /\ core \in CoreRecord /\ Known
    BY <1>6 DEF ResolveWarranty, At, Reading, Statements
  <2>2. CASE Fails
    BY <2>1, <2>2, <1>3, FailureEnds
  <2>3. ASSUME NEW v \in Sources[now].warranties, Applies(v),
               core' = [core EXCEPT !.at = "resolved", !.terms = v, !.warranty = now]
        PROVE  CoreInv'
    <3>1. v \in Versions
      BY <1>1, <1>2
    <3>2. core' \in CoreRecord
      BY <1>1, <2>1, <2>3, <3>1 DEF CoreRecord, Statements
    <3>3. /\ core'.at = "resolved" /\ core'.claim = core.claim /\ core'.spec = core.spec
          /\ core'.warranty = now /\ core'.terms = v /\ core'.cited = core.cited
      BY <2>1, <2>3 DEF CoreRecord
    <3>4. Applies(core.terms)'
      BY <3>3, <2>3 DEF Applies, Coil
    <3>5. Known'
      BY <1>1, <2>1, <2>3, <3>3, <3>4 DEF Known, At, world
    <3> QED BY <1>0, <1>3, <2>1, <3>2, <3>5
  <2>4. policy["warranty_terms"] = now
    BY <1>1 DEF Tables
  <2> QED BY <1>6, <2>2, <2>3, <2>4 DEF ResolveWarranty
<1>7. CASE CheckDuplicate
  <2>1. /\ At("resolved") /\ UNCHANGED world /\ Reading /\ core \in CoreRecord /\ Known
        /\ core'.at = "gate"
    BY <1>7 DEF CheckDuplicate, At, Reading, Statements, CoreRecord
  <2>2. PICK duplicate \in BOOLEAN :
          core' = [core EXCEPT !.at = "gate", !.seen = submitted, !.duplicate = duplicate]
    BY <1>7 DEF CheckDuplicate
  <2>3. core' \in CoreRecord
    BY <2>1, <2>2 DEF CoreRecord, Statements
  <2>4. /\ core'.claim = core.claim /\ core'.spec = core.spec /\ core'.terms = core.terms
        /\ core'.warranty = core.warranty /\ core'.cited = core.cited
    BY <2>1, <2>2 DEF CoreRecord
  <2>5. Applies(core.terms) => Applies(core.terms)'
    BY <2>4 DEF Applies, Coil
  <2>6. Known'
    BY <2>1, <2>4, <2>5 DEF Known, At, world
  <2> QED BY <1>0, <1>3, <2>1, <2>3, <2>6
<1>8. CASE RetrieveClauses
  <2> DEFINE versions == IF core.claim.type = "coating_warranty" THEN ClausesInForce(now) ELSE {}
  <2>1. At("gate") /\ UNCHANGED world /\ Reading /\ core \in CoreRecord /\ Known
    BY <1>8 DEF RetrieveClauses, At, Reading, Statements
  <2>2. policy["warranty_clauses"] = now /\ policy["spec_clauses"] = now
    BY <1>1 DEF Tables
  <2>3. core' = [core EXCEPT !.at = "clauses", !.cited = now, !.versions = versions]
    BY <1>8, <2>2 DEF RetrieveClauses
  <2>4. versions \subseteq Versions
    BY <1>1, <1>2 DEF ClausesInForce
  <2> HIDE DEF versions
  <2>5. core' \in CoreRecord
    BY <1>1, <2>1, <2>3, <2>4 DEF CoreRecord, Statements
  <2>6. /\ core'.at = "clauses" /\ core'.claim = core.claim /\ core'.spec = core.spec
        /\ core'.warranty = core.warranty /\ core'.terms = core.terms
        /\ core'.cited = now /\ core'.versions = versions
    BY <2>1, <2>3 DEF CoreRecord
  <2>7. Applies(core.terms) => Applies(core.terms)'
    BY <2>6 DEF Applies, Coil
  <2>8. core.claim.type = "coating_warranty" =>
          core'.versions = ClausesInForce(core.cited)'
    BY <2>6 DEF versions, ClausesInForce, Applies, Coil
  <2>9. Known'
    BY <1>1, <2>1, <2>6, <2>7, <2>8 DEF Known, At, world
  <2> QED BY <1>0, <1>3, <2>1, <2>5, <2>9
<1>9. CASE FindPrecedent \/ CustomerHeatRisk
  <2>1. /\ UNCHANGED world /\ Reading /\ core \in CoreRecord /\ Known
        /\ core.at \in {"clauses", "precedent"}
    BY <1>9 DEF FindPrecedent, CustomerHeatRisk, Advisory, At, Reading, Statements
  <2>2. PICK at \in {"precedent", "complete"}, aborted \in BOOLEAN :
          core' = [core EXCEPT !.at = at, !.aborted = aborted]
    BY <1>9 DEF FindPrecedent, CustomerHeatRisk, Advisory
  <2>3. core' \in CoreRecord
    BY <2>1, <2>2 DEF CoreRecord, Statements
  <2>4. /\ core'.at = at /\ core'.claim = core.claim /\ core'.spec = core.spec
        /\ core'.terms = core.terms /\ core'.warranty = core.warranty
        /\ core'.cited = core.cited /\ core'.versions = core.versions
    BY <2>1, <2>2 DEF CoreRecord
  <2>5. /\ Applies(core.terms) => Applies(core.terms)'
        /\ ClausesInForce(core.cited)' = ClausesInForce(core.cited)
    BY <2>4 DEF Applies, ClausesInForce, Coil
  <2>6. Known'
    BY <2>1, <2>4, <2>5 DEF Known, world
  <2> QED BY <1>0, <1>3, <2>1, <2>3, <2>6
<1>10. CASE HandOver
  <2>1. ~Reading' /\ ("at" \in DOMAIN core)' /\ UNCHANGED world
    BY <1>10 DEF HandOver, Reading, Statements
  <2> QED BY <1>3, <2>1
<1>11. CASE Rules \/ Write
  <2>1. /\ UNCHANGED world
        /\ core.at = "handed"
        /\ \/ core' = core
           \/ core' = [core EXCEPT !.at = "not_written"]
           \/ core' = [core EXCEPT !.at = "written"]
    BY <1>11 DEF Rules, Write, At
  <2>2. core'.at \in {"handed", "not_written", "written"} /\ ("at" \in DOMAIN core)'
    BY <2>1
  <2>3. ~Reading'
    BY <2>2 DEF Reading, Statements
  <2> QED BY <1>3, <2>1, <2>2, <2>3
<1>12. CASE \E c \in Others : Submit(c)
  <2>1. submitted' \subseteq Others /\ UNCHANGED <<core, policy>>
    BY <1>12 DEF Submit
  <2> QED BY <2>1 DEF OneSource, Reading, Known, Applies, ClausesInForce, Coil
<1>13. CASE RunIntake
  <2>1. Reading /\ core \in CoreRecord /\ Known /\ UNCHANGED <<core, submitted>>
    BY <1>13 DEF RunIntake
  <2>2. /\ now < Len(Sources)
        /\ policy' = [t \in Tables |-> policy[t] + 1]
    BY <1>1, <1>13 DEF RunIntake, Tables
  <2>3. /\ policy' \in [Tables -> 1..Len(Sources)]
        /\ \A t \in Tables : policy'[t] = now + 1
        /\ policy'["spec_params"] = now + 1
    BY <1>1, <2>2 DEF Tables
  <2>4. OneSource'
    BY <2>3 DEF OneSource
  <2>5. Applies(core.terms)' = Applies(core.terms)
        /\ ClausesInForce(core.cited)' = ClausesInForce(core.cited)
    BY <2>1 DEF Applies, ClausesInForce, Coil
  <2>6. Known'
    <3>1. core.spec \in Nat /\ core.warranty \in Nat /\ core.cited \in Nat
      BY <1>1, <2>1 DEF CoreRecord
    <3> QED BY <1>1, <2>1, <2>3, <2>5, <3>1 DEF Known
  <2>7. Reading' /\ (core \in CoreRecord)'
    BY <2>1 DEF Reading
  <2> QED BY <2>1, <2>4, <2>6, <2>7
<1>14. CASE UNCHANGED endpointVars
  BY <1>14, <1>3 DEF endpointVars, world, Reading, Known, Applies, ClausesInForce, Coil
<1> QED
  BY <1>4, <1>5, <1>6, <1>7, <1>8, <1>9, <1>10, <1>11, <1>12, <1>13, <1>14 DEF EndpointNext

\* The core's invariant holds throughout.
THEOREM CoreInvariance == EndpointSpec => []CoreInv
BY CoreStarts, CoreStep, PTL DEF EndpointSpec

\* An invocation reads forward through the sources, and cites the version it settles
\* by (authorities_runtime.py:84-91, policy_intake.py:274-310, retrieval.py:57-65).
THEOREM AlwaysReadsForward == EndpointSpec => []ReadsForward
<1>1. CoreInv => ReadsForward
  <2> SUFFICES ASSUME CoreInv PROVE ReadsForward
    OBVIOUS
  <2> DEFINE now == policy["spec_params"]
  <2>1. now \in 1..Len(Sources) /\ Len(Sources) \in Nat
    BY EndpointAssumption DEF CoreInv, OneSource, Tables
  <2> HIDE DEF now
  <2>2. ASSUME Reading
        PROVE  /\ core.spec \in 0..now
               /\ core.warranty # 0 => core.warranty \in core.spec..now
               /\ core.cited # 0 => core.cited \in core.warranty..now
    BY <2>1, <2>2 DEF CoreInv, Known, now
  <2>3. ASSUME core.at \in {"clauses", "precedent", "complete"},
               core.claim.type = "coating_warranty", core.cited = core.warranty
        PROVE  core.versions = {core.terms}
    <3>1. /\ Known /\ core.spec \in 1..now /\ core.warranty \in core.spec..now
          /\ core.versions = ClausesInForce(core.warranty)
          /\ core.terms \in Sources[core.warranty].warranties /\ Applies(core.terms)
          /\ core.claim.coil \in DOMAIN Coils
      BY <2>3 DEF CoreInv, Reading, Statements, Known, now
    <3>2. core.warranty \in 1..Len(Sources) /\ Coil.ship \in Dates
      BY <2>1, <3>1, EndpointAssumption DEF Coil
    <3>3. \A v \in Sources[core.warranty].warranties : Applies(v) => v = core.terms
      BY <3>1, <3>2, OneVersionAtATime DEF Applies
    <3> QED BY <3>1, <3>3 DEF ClausesInForce
  <2> QED
    BY <2>2, <2>3 DEF ReadsForward, CoreInv, OneSource, now
<1> QED BY <1>1, CoreInvariance, PTL

-----------------------------------------------------------------------------
(* The money *)

\* A core that has gathered its facts has a claim, a coil and terms of some source.
LEMMA GatheredTypes ==
    ASSUME CoreInv, Gathered
    PROVE  /\ core.claim \in Incoming
           /\ Coil.ship \in Dates /\ Coil.tonnage \in Nat /\ Coil.price \in Nat
           /\ DOMAIN Coil.measured \subseteq MillProperties \cup CoatingProperties
           /\ core.terms.duration \in Nat /\ core.terms.full \in Nat /\ core.terms.cap \in Nat
           /\ core.duplicate \in BOOLEAN
           /\ core.warranty \in 1..Len(Sources)
<1>1. /\ core \in CoreRecord /\ core.claim.coil \in DOMAIN Coils
      /\ core.spec \in 1..policy["spec_params"]
      /\ core.warranty \in core.spec..policy["spec_params"]
      /\ core.terms \in Sources[core.warranty].warranties
  BY DEF CoreInv, Gathered, Reading, Statements, Known
<1>2. policy["spec_params"] \in 1..Len(Sources) /\ Len(Sources) \in Nat
  BY EndpointAssumption DEF CoreInv, OneSource, Tables
<1>3. core.warranty \in 1..Len(Sources)
  BY <1>1, <1>2
<1>4. core.claim \in Incoming /\ core.duplicate \in BOOLEAN
  BY <1>1 DEF CoreRecord
<1> QED BY <1>1, <1>3, <1>4, EndpointAssumption DEF Coil

\* A date's month and day are numbers.
LEMMA DateParts == ASSUME NEW d \in Dates PROVE d.month \in Int /\ d.day \in Int
BY AuthoritiesAssumption DEF Dates

\* The months the endpoint counts are floor(months_between), as its docstring says,
\* except exactly when shipment and claim are both on the last day of their months and
\* the claim's month is the shorter: then they are one less (authorities.py:27-33,
\* generate.py:261).
THEOREM MonthsDifferAtMonthEnds ==
    ASSUME NEW ship \in Dates, NEW date \in Dates
    PROVE  IF LastOfMonth(ship) /\ LastOfMonth(date)
                /\ MonthDays[date.month] < MonthDays[ship.month]
           THEN CompletedMonths(ship, date) = MonthsBetween(ship, date) - 1
           ELSE CompletedMonths(ship, date) = MonthsBetween(ship, date)
<1>1. /\ ship.month \in Int /\ ship.day \in Int
      /\ date.month \in Int /\ date.day \in Int
  BY DateParts
<1>2. CASE LastOfMonth(ship) /\ LastOfMonth(date)
  BY <1>1, <1>2 DEF MonthsBetween, CompletedMonths, LastOfMonth
<1>3. CASE ~(LastOfMonth(ship) /\ LastOfMonth(date))
  BY <1>3 DEF MonthsBetween, CompletedMonths
<1> QED BY <1>2, <1>3

\* A rounded quotient of numbers is a number.
LEMMA RoundedIsNat ==
    ASSUME NEW n \in Nat, NEW d \in Nat \ {0}
    PROVE  Rounded(n, d) \in Nat
<1>1. (2 * n + d) \div (2 * d) \in Nat
  OBVIOUS
<1> QED BY <1>1 DEF Rounded

\* Rounding a share of an amount gives no more than the amount.
LEMMA RoundedShare ==
    ASSUME NEW n \in Nat, NEW d \in Nat \ {0}, NEW k \in Nat, n <= k * d
    PROVE  Rounded(n, d) \in 0..k
<1>1. k * d \in Nat /\ 2 * n + d <= k * (2 * d) + d
  OBVIOUS
<1> DEFINE q == (2 * n + d) \div (2 * d)
<1>2. q \in Nat /\ q * (2 * d) <= 2 * n + d
  OBVIOUS
<1>3. (2 * d) * q <= (2 * d) * k + d
  BY <1>1, <1>2
<1>4. ASSUME q >= k + 1 PROVE FALSE
  <2>1. (2 * d) * q >= (2 * d) * (k + 1)
    BY <1>2, <1>4
  <2>2. (2 * d) * (k + 1) = (2 * d) * k + 2 * d
    OBVIOUS
  <2> QED BY <1>2, <1>3, <2>1, <2>2
<1> QED BY <1>2, <1>4 DEF Rounded

\* Rounding keeps the order.
LEMMA RoundedMonotone ==
    ASSUME NEW m \in Nat, NEW n \in Nat, m <= n, NEW d \in Nat \ {0}
    PROVE  Rounded(m, d) <= Rounded(n, d)
<1> DEFINE p == (2 * m + d) \div (2 * d)
<1> DEFINE q == (2 * n + d) \div (2 * d)
<1>1. p \in Nat /\ (2 * d) * p <= 2 * m + d
  OBVIOUS
<1>2. q \in Nat /\ 2 * n + d < (2 * d) * (q + 1)
  OBVIOUS
<1>3. ASSUME p >= q + 1 PROVE FALSE
  <2>1. (2 * d) * p >= (2 * d) * (q + 1)
    BY <1>1, <1>2, <1>3
  <2> QED BY <1>1, <1>2, <2>1
<1> QED BY <1>1, <1>2, <1>3 DEF Rounded

\* The proration factor is a number, and a share unless the warranty has expired
\* (authorities.py:108-116).
LEMMA FactorIsShare ==
    ASSUME NEW terms, terms.duration \in Nat, terms.full \in Nat, NEW e \in Int
    PROVE  /\ ProrationFactor(terms, e) \in Nat
           /\ e <= terms.duration => ProrationFactor(terms, e) \in 0..Scale
<1>1. Scale \in Nat
  BY AuthoritiesAssumption
<1>2. CASE terms.full < e /\ terms.full < terms.duration
  <2> DEFINE left == Larger(0, terms.duration - e)
  <2> DEFINE span == terms.duration - terms.full
  <2>1. left \in Nat /\ span \in Nat \ {0} /\ left <= span
    BY <1>2 DEF Larger
  <2> HIDE DEF left, span
  <2>2. Scale * left \in Nat /\ Scale * left <= Scale * span
    BY <1>1, <2>1
  <2>3. Rounded(Scale * left, span) \in 0..Scale
    BY <1>1, <2>1, <2>2, RoundedShare
  <2>4. ProrationFactor(terms, e) = Rounded(Scale * left, span)
    BY <1>2 DEF ProrationFactor, left, span
  <2> QED BY <1>1, <2>3, <2>4
<1>3. CASE terms.full < e /\ terms.duration < terms.full
  <2> DEFINE over == e - terms.duration
  <2> DEFINE span == terms.full - terms.duration
  <2>1. over \in Nat /\ span \in Nat \ {0} /\ ~(e <= terms.duration)
    BY <1>3
  <2> HIDE DEF over, span
  <2>2. Scale * over \in Nat
    BY <1>1, <2>1
  <2>3. Rounded(Scale * over, span) \in Nat
    BY <2>1, <2>2, RoundedIsNat
  <2>4. ProrationFactor(terms, e) = Rounded(Scale * over, span)
    BY <1>3 DEF ProrationFactor, over, span
  <2> QED BY <2>1, <2>3, <2>4
<1>4. CASE e <= terms.full \/ terms.duration = terms.full
  BY <1>1, <1>4 DEF ProrationFactor
<1> QED BY <1>2, <1>3, <1>4

\* And while the warranty lasts it falls as the months rise.
LEMMA FactorFalls ==
    ASSUME NEW terms, terms.duration \in Nat, terms.full \in Nat,
           NEW e \in Int, NEW g \in Int, e <= g, g <= terms.duration
    PROVE  ProrationFactor(terms, g) <= ProrationFactor(terms, e)
<1>1. Scale \in Nat /\ ProrationFactor(terms, g) \in 0..Scale
      /\ ProrationFactor(terms, e) \in 0..Scale
  BY AuthoritiesAssumption, FactorIsShare
<1>2. CASE e <= terms.full
  BY <1>1, <1>2 DEF ProrationFactor
<1>3. CASE terms.full < e
  <2> DEFINE early == Larger(0, terms.duration - e)
  <2> DEFINE late == Larger(0, terms.duration - g)
  <2> DEFINE span == terms.duration - terms.full
  <2>1. early \in Nat /\ late \in Nat /\ late <= early /\ span \in Nat \ {0}
    BY <1>3 DEF Larger
  <2>2. /\ ProrationFactor(terms, g) = Rounded(Scale * late, span)
        /\ ProrationFactor(terms, e) = Rounded(Scale * early, span)
    BY <1>3 DEF ProrationFactor
  <2> HIDE DEF early, late, span
  <2>3. Scale * late \in Nat /\ Scale * early \in Nat /\ Scale * late <= Scale * early
    BY <1>1, <2>1
  <2> QED BY <2>1, <2>2, <2>3, RoundedMonotone
<1> QED BY <1>2, <1>3

\* The months count up with the date of the claim.
LEMMA MonthsRise ==
    ASSUME NEW s \in Dates, NEW c \in Dates, NEW d \in Dates, NotAfter(c, d)
    PROVE  /\ CompletedMonths(s, c) \in Int /\ CompletedMonths(s, d) \in Int
           /\ CompletedMonths(s, c) <= CompletedMonths(s, d)
BY DateParts DEF CompletedMonths, NotAfter

\* What is settled is within the claim, the shipment and the cap, and grows with the
\* factor (authorities.py:135-151).
LEMMA SettlementBounds ==
    ASSUME NEW coil, coil.tonnage \in Nat, coil.price \in Nat, NEW cap \in Nat,
           NEW claim, claim.tonnage \in Nat, claim.freight \in Nat,
           NEW lower \in 0..Scale, NEW factor \in 0..Scale, lower <= factor
    PROVE  LET settled == Settlement(coil, cap, claim, factor).approved
           IN  /\ settled \in Nat
               /\ settled <= claim.tonnage * coil.price + claim.freight
               /\ settled <= coil.tonnage * coil.price + cap
               /\ Settlement(coil, cap, claim, lower).approved <= settled
<1> DEFINE base == CoveredTonnage(coil, claim) * coil.price
<1> DEFINE freight == FreightAmount(cap, claim)
<1>1. Scale \in Nat \ {0}
  BY AuthoritiesAssumption
<1>2. /\ base \in Nat
      /\ base <= claim.tonnage * coil.price
      /\ base <= coil.tonnage * coil.price
  <2>1. /\ CoveredTonnage(coil, claim) \in Nat
        /\ CoveredTonnage(coil, claim) <= claim.tonnage
        /\ CoveredTonnage(coil, claim) <= coil.tonnage
    BY DEF CoveredTonnage, Smaller
  <2> HIDE DEF CoveredTonnage
  <2> QED BY <2>1
<1>3. freight \in Nat /\ freight <= claim.freight /\ freight <= cap
  BY DEF FreightAmount, Smaller
<1>4. /\ Share(claim, lower) \in 0..Scale /\ Share(claim, factor) \in 0..Scale
      /\ Share(claim, lower) <= Share(claim, factor)
  BY <1>1 DEF Share
<1>5. /\ Settlement(coil, cap, claim, factor).approved
           = Rounded(base * Share(claim, factor), Scale) + freight
      /\ Settlement(coil, cap, claim, lower).approved
           = Rounded(base * Share(claim, lower), Scale) + freight
  BY DEF Settlement
<1> HIDE DEF base, freight
<1>6. /\ base * Share(claim, lower) \in Nat /\ base * Share(claim, factor) \in Nat
      /\ base * Share(claim, lower) <= base * Share(claim, factor)
      /\ base * Share(claim, lower) <= base * Scale
      /\ base * Share(claim, factor) <= base * Scale
  BY <1>1, <1>2, <1>4
<1>7. /\ Rounded(base * Share(claim, factor), Scale) \in 0..base
      /\ Rounded(base * Share(claim, lower), Scale) \in 0..base
      /\ Rounded(base * Share(claim, lower), Scale)
           <= Rounded(base * Share(claim, factor), Scale)
  BY <1>1, <1>2, <1>6, RoundedShare, RoundedMonotone
<1>8. claim.tonnage * coil.price \in Nat /\ coil.tonnage * coil.price \in Nat
  OBVIOUS
<1> QED BY <1>2, <1>3, <1>5, <1>7, <1>8

\* Whatever the factor, what is settled is a number; and without proration the factor
\* does not count.
LEMMA SettlementIsNat ==
    ASSUME NEW coil, coil.tonnage \in Nat, coil.price \in Nat, NEW cap \in Nat,
           NEW claim, claim.tonnage \in Nat, claim.freight \in Nat, NEW factor \in Nat
    PROVE  LET settled == Settlement(coil, cap, claim, factor).approved
           IN  /\ settled \in Nat
               /\ claim.type # "coating_warranty" =>
                    settled = Settlement(coil, cap, claim, Scale).approved
<1> DEFINE base == CoveredTonnage(coil, claim) * coil.price
<1> DEFINE freight == FreightAmount(cap, claim)
<1>1. Scale \in Nat \ {0}
  BY AuthoritiesAssumption
<1>2. CoveredTonnage(coil, claim) \in Nat /\ freight \in Nat
  BY DEF CoveredTonnage, FreightAmount, Smaller
<1>3. base \in Nat
  <2> HIDE DEF CoveredTonnage
  <2> QED BY <1>2
<1>4. \A k : Settlement(coil, cap, claim, k).approved
              = Rounded(base * Share(claim, k), Scale) + freight
  BY DEF Settlement
<1> HIDE DEF base, freight
<1>5. Share(claim, factor) \in Nat /\ base * Share(claim, factor) \in Nat
  <2>1. Share(claim, factor) \in Nat
    BY <1>1 DEF Share
  <2> HIDE DEF Share
  <2> QED BY <1>3, <2>1
<1>6. claim.type # "coating_warranty" => Share(claim, factor) = Share(claim, Scale)
  BY DEF Share
<1>7. Rounded(base * Share(claim, factor), Scale) \in Nat
  BY <1>1, <1>5, RoundedIsNat
<1> QED BY <1>2, <1>4, <1>6, <1>7

\* The two flags of a settlement.
LEMMA SettlementFlags ==
    ASSUME NEW coil, coil.tonnage \in Nat, coil.price \in Nat, NEW cap \in Nat,
           NEW claim, claim.tonnage \in Nat, claim.freight \in Nat, NEW factor,
           Settlement(coil, cap, claim, factor).approved \in Nat
    PROVE  LET s == Settlement(coil, cap, claim, factor)
           IN  /\ s.overClaim \in BOOLEAN
               /\ s.partial \in BOOLEAN
               /\ s.partial <=> s.approved < claim.tonnage * coil.price + claim.freight
<1> DEFINE s == Settlement(coil, cap, claim, factor)
<1>1. s.overClaim = (claim.tonnage > coil.tonnage \/ claim.freight > cap)
  BY Zenon DEF Settlement
<1>2. s.partial = (s.approved < claim.tonnage * coil.price + claim.freight)
  BY Zenon DEF Settlement
<1>3. s.approved \in Nat /\ claim.tonnage * coil.price + claim.freight \in Nat
  OBVIOUS
<1> HIDE DEF s
<1>4. s.overClaim \in BOOLEAN
  BY <1>1
<1>5. (s.approved < claim.tonnage * coil.price + claim.freight) \in BOOLEAN
  BY <1>3
<1>6. s.partial \in BOOLEAN
  BY <1>2, <1>5, Zenon
<1>7. s.partial <=> s.approved < claim.tonnage * coil.price + claim.freight
  BY <1>2, Zenon
<1> QED BY <1>4, <1>6, <1>7 DEF s

\* The claim, had it been dated otherwise.
Dated(d) == [core.claim EXCEPT !.date = d]

\* What the facts of the claim say of it on another date.
LEMMA FactsOnDate ==
    ASSUME CoreInv, Gathered, NEW d \in Dates, NEW duplicate \in BOOLEAN
    PROVE  LET f == FactsOf(Dated(d), core.spec, core.terms, duplicate)
               months == CompletedMonths(Coil.ship, d)
               factor == ProrationFactor(core.terms, months)
           IN  /\ f.claimType = core.claim.type
               /\ f.nonconforming =
                    Nonconforming(Sources[core.spec].specs[Coil.grade], Coil.measured)
               /\ f.covered => ~(months > core.terms.duration)
               /\ \A c \in Dates :
                    /\ NotAfter(c, d)
                    /\ f.covered
                    => FactsOf(Dated(c), core.spec, core.terms, duplicate).covered
               /\ f.covered \in BOOLEAN
               /\ f.amount = Settlement(Coil, core.terms.cap, core.claim, factor).approved
               /\ f.overClaim = Settlement(Coil, core.terms.cap, core.claim, factor).overClaim
               /\ f.partial = Settlement(Coil, core.terms.cap, core.claim, factor).partial
               /\ f.duplicate = duplicate
<1>1. /\ core.claim \in Incoming /\ DOMAIN core.claim = ClaimFields
      /\ Coil.ship \in Dates
      /\ core.terms.duration \in Nat
  BY GatheredTypes, EndpointAssumption
<1>2. ASSUME NEW c \in Dates
      PROVE  /\ Dated(c).date = c /\ Dated(c).type = core.claim.type
             /\ Dated(c).coil = core.claim.coil /\ Dated(c).tonnage = core.claim.tonnage
             /\ Dated(c).freight = core.claim.freight
             /\ Dated(c).site = core.claim.site /\ Dated(c).coast = core.claim.coast
  BY <1>1 DEF Dated, ClaimFields
<1>3. ASSUME NEW c \in Dates
      PROVE  FactsOf(Dated(c), core.spec, core.terms, duplicate).covered
               <=> /\ ~(CompletedMonths(Coil.ship, c) > core.terms.duration)
                   /\ core.claim.site \notin core.terms.excluded
                   /\ ~(core.claim.coast < core.terms.coast)
  BY <1>2 DEF FactsOf, Exclusions, Coil
<1>4. ASSUME NEW c \in Dates, NotAfter(c, d)
      PROVE  CompletedMonths(Coil.ship, d) > core.terms.duration
               \/ ~(CompletedMonths(Coil.ship, c) > core.terms.duration)
  BY <1>1, <1>4, MonthsRise
<1>5. /\ CoveredTonnage(Coil, Dated(d)) = CoveredTonnage(Coil, core.claim)
      /\ \A factor : Share(Dated(d), factor) = Share(core.claim, factor)
      /\ \A cap : FreightAmount(cap, Dated(d)) = FreightAmount(cap, core.claim)
  BY <1>2 DEF CoveredTonnage, Share, FreightAmount
<1>6. \A factor : Settlement(Coil, core.terms.cap, Dated(d), factor)
                   = Settlement(Coil, core.terms.cap, core.claim, factor)
  BY <1>2, <1>5 DEF Settlement
<1>7. Coils[Dated(d).coil] = Coil
  BY <1>2 DEF Coil
<1> DEFINE f == FactsOf(Dated(d), core.spec, core.terms, duplicate)
<1>8. /\ f.claimType = core.claim.type
      /\ f.nonconforming =
           Nonconforming(Sources[core.spec].specs[Coil.grade], Coil.measured)
      /\ f.covered \in BOOLEAN
      /\ f.duplicate = duplicate
  BY <1>2, <1>7 DEF FactsOf
<1>9. LET factor == ProrationFactor(core.terms, CompletedMonths(Coil.ship, d))
      IN  /\ f.amount = Settlement(Coil, core.terms.cap, core.claim, factor).approved
          /\ f.overClaim = Settlement(Coil, core.terms.cap, core.claim, factor).overClaim
          /\ f.partial = Settlement(Coil, core.terms.cap, core.claim, factor).partial
  BY <1>2, <1>6, <1>7 DEF FactsOf
<1> HIDE DEF f
<1>10. /\ f.covered => ~(CompletedMonths(Coil.ship, d) > core.terms.duration)
       /\ \A c \in Dates :
            NotAfter(c, d) /\ f.covered =>
              FactsOf(Dated(c), core.spec, core.terms, duplicate).covered
  BY <1>3, <1>4 DEF f
<1> QED BY <1>8, <1>9, <1>10 DEF f

\* A payment is within claim, shipment and cap and falls with the date, and an estimate
\* is partial exactly when it falls short of the claim, for every amount in cents and
\* whatever warranty is loaded, also one that ends before its full coverage
\* (authorities.py:108-116, 135-151).
THEOREM PaymentAlwaysBounded ==
    ASSUME Amounts = Nat
    PROVE  EndpointSpec => []PaymentBounded
<1>1. CoreInv => PaymentBounded
  <2> SUFFICES ASSUME CoreInv, Gathered PROVE PaymentBounded
    BY DEF PaymentBounded
  <2> DEFINE f == CoreFacts
  <2> DEFINE claimed == core.claim.tonnage * Coil.price + core.claim.freight
  <2> DEFINE shipped == Coil.tonnage * Coil.price + core.terms.cap
  <2> DEFINE on(d) == FactsOf(Dated(d), core.spec, core.terms, FALSE)
  <2> DEFINE months(d) == CompletedMonths(Coil.ship, d)
  <2> DEFINE factor(d) == ProrationFactor(core.terms, months(d))
  <2> DEFINE settled(d) == Settlement(Coil, core.terms.cap, core.claim, factor(d))
  <2> DEFINE whole == Settlement(Coil, core.terms.cap, core.claim, Scale)
  <2>1. /\ core.claim \in Incoming /\ Coil.ship \in Dates
        /\ Coil.tonnage \in Nat /\ Coil.price \in Nat
        /\ core.terms.duration \in Nat /\ core.terms.full \in Nat /\ core.terms.cap \in Nat
        /\ core.duplicate \in BOOLEAN
        /\ DOMAIN Coil.measured \subseteq MillProperties \cup CoatingProperties
    BY GatheredTypes
  <2>2. /\ DOMAIN core.claim = ClaimFields /\ core.claim.date \in Dates
        /\ core.claim.tonnage \in Nat /\ core.claim.freight \in Nat
        /\ core.claim.type \in {"material_nonconformance", "coating_warranty", "other"}
    BY <2>1, EndpointAssumption
  <2>3. \A d \in Dates : /\ months(d) \in Int /\ factor(d) \in Nat
                         /\ months(d) <= core.terms.duration => factor(d) \in 0..Scale
    BY <2>1, DateParts, FactorIsShare DEF CompletedMonths
  <2>4. ASSUME NEW c \in Dates, NEW d \in Dates, NotAfter(c, d),
               months(d) <= core.terms.duration
        PROVE  months(c) <= core.terms.duration /\ factor(d) <= factor(c)
    <3>1. months(c) <= months(d)
      BY <2>1, <2>4, MonthsRise
    <3>2. months(c) <= core.terms.duration
      BY <2>1, <2>3, <2>4, <3>1
    <3> QED BY <2>1, <2>3, <2>4, <3>1, <3>2, FactorFalls
  <2> HIDE DEF factor, months
  <2>5. Scale \in Nat
    BY AuthoritiesAssumption
  <2>6. /\ whole.approved <= claimed /\ whole.approved <= shipped
        /\ \A d \in Dates :
             /\ settled(d).approved \in Nat
             /\ core.claim.type # "coating_warranty" => settled(d).approved = whole.approved
             /\ months(d) <= core.terms.duration =>
                  settled(d).approved <= claimed /\ settled(d).approved <= shipped
    <3>1. whole.approved <= claimed /\ whole.approved <= shipped
      BY <2>1, <2>2, <2>5, SettlementBounds
    <3>2. \A d \in Dates :
             /\ settled(d).approved \in Nat
             /\ core.claim.type # "coating_warranty" => settled(d).approved = whole.approved
      BY <2>1, <2>2, <2>3, SettlementIsNat
    <3>3. \A d \in Dates : months(d) <= core.terms.duration =>
             settled(d).approved <= claimed /\ settled(d).approved <= shipped
      BY <2>1, <2>2, <2>3, SettlementBounds
    <3> QED BY <3>1, <3>2, <3>3
  <2>7. core.claim = Dated(core.claim.date)
    BY <2>1, EndpointAssumption DEF Dated, ClaimFields
  <2>8. f = FactsOf(Dated(core.claim.date), core.spec, core.terms, core.duplicate)
    BY <2>7 DEF CoreFacts
  <2>9. /\ f.claimType = core.claim.type
        /\ f.nonconforming =
             Nonconforming(Sources[core.spec].specs[Coil.grade], Coil.measured)
        /\ f.covered \in BOOLEAN
        /\ f.duplicate = core.duplicate
        /\ f.amount = settled(core.claim.date).approved
        /\ f.overClaim = settled(core.claim.date).overClaim
        /\ f.partial = settled(core.claim.date).partial
    BY <2>1, <2>2, <2>8, FactsOnDate DEF factor, months
  <2>10. /\ settled(core.claim.date).overClaim \in BOOLEAN
         /\ settled(core.claim.date).partial <=> settled(core.claim.date).approved < claimed
         /\ settled(core.claim.date).partial \in BOOLEAN
    BY <2>1, <2>2, <2>6, SettlementFlags
  <2>11. f \in Facts
    <3>1. f.nonconforming \subseteq MillProperties \cup CoatingProperties
      BY <2>1, <2>9 DEF Nonconforming
    <3>2. f = [claimType |-> f.claimType, nonconforming |-> f.nonconforming,
               covered |-> f.covered, amount |-> f.amount, overClaim |-> f.overClaim,
               partial |-> f.partial, duplicate |-> f.duplicate]
      BY <2>8 DEF FactsOf
    <3>3. f.amount \in Amounts
      BY <2>2, <2>6, <2>9
    <3> HIDE DEF f, settled
    <3> QED BY <2>1, <2>2, <2>9, <2>10, <3>1, <3>2, <3>3 DEF Facts
  <2>12. ASSUME NEW d \in Dates
         PROVE  /\ on(d).claimType = core.claim.type
                /\ on(d).nonconforming = f.nonconforming
                /\ on(d).amount = settled(d).approved
                /\ on(d).covered => ~(months(d) > core.terms.duration)
                /\ on(d).covered \in BOOLEAN /\ on(d).duplicate = FALSE
    BY <2>9, FactsOnDate DEF factor, months
  <2>13. ASSUME NEW d \in Dates, NotAfter(core.claim.date, d), on(d).covered
         PROVE  on(core.claim.date).covered
    BY <2>2, <2>13, FactsOnDate
  <2>14. ASSUME NEW d \in Dates
         PROVE  PaidAt(d) = IF DeterministicOutcome(on(d)).payable THEN on(d).amount ELSE 0
    BY DEF PaidAt, Dated
  <2> HIDE DEF on, settled, f
  <2>15. ASSUME NEW d \in Dates
         PROVE  DeterministicOutcome(on(d)).payable
                  <=> \/ /\ core.claim.type = "material_nonconformance"
                         /\ f.nonconforming # {}
                      \/ core.claim.type = "coating_warranty" /\ on(d).covered
    BY <2>12 DEF DeterministicOutcome, Resolved, Eligible
  <2>16. ASSUME NEW d \in Dates, DeterministicOutcome(on(d)).payable
         PROVE  core.claim.type # "coating_warranty" \/ months(d) <= core.terms.duration
    <3>1. CASE core.claim.type = "coating_warranty"
      <4>1. on(d).covered
        BY <2>15, <2>16, <3>1, Zenon
      <4>2. ~(months(d) > core.terms.duration)
        BY <2>12, <4>1, Zenon
      <4> QED BY <2>1, <2>3, <4>2
    <3> QED BY <3>1
  <2>17. ASSUME NEW d \in Dates, NotAfter(core.claim.date, d)
         PROVE  PaidAt(d) <= PaidAt(core.claim.date)
    <3> DEFINE c == core.claim.date
    <3>1. c \in Dates /\ settled(c).approved \in Nat /\ settled(d).approved \in Nat
      BY <2>2, <2>6
    <3>2. CASE ~DeterministicOutcome(on(d)).payable
      <4>1. PaidAt(d) = 0
        BY <2>14, <3>2, Zenon
      <4>2. PaidAt(c) = on(c).amount \/ PaidAt(c) = 0
        BY <2>14, <3>1, Zenon
      <4>3. on(c).amount \in Nat
        BY <2>12, <3>1
      <4> QED BY <4>1, <4>2, <4>3
    <3>3. CASE DeterministicOutcome(on(d)).payable
      <4>1. DeterministicOutcome(on(c)).payable
        BY <2>13, <2>15, <2>17, <3>1, <3>3
      <4>2. settled(d).approved <= settled(c).approved
        <5>1. CASE core.claim.type # "coating_warranty"
          BY <2>6, <3>1, <5>1
        <5>2. CASE core.claim.type = "coating_warranty"
          <6>1. months(d) <= core.terms.duration
            BY <2>16, <3>3, <5>2
          <6>2. factor(d) <= factor(c) /\ factor(c) \in 0..Scale /\ factor(d) \in 0..Scale
            BY <2>3, <2>4, <2>17, <3>1, <6>1
          <6> QED BY <2>1, <2>2, <6>2, SettlementBounds DEF settled
        <5> QED BY <5>1, <5>2
      <4> QED BY <2>12, <2>14, <3>1, <3>3, <4>1, <4>2
    <3> QED BY <3>2, <3>3
  <2>18. PaidAt(core.claim.date) <= Smaller(claimed, shipped)
    <3> DEFINE c == core.claim.date
    <3>1. claimed \in Nat /\ shipped \in Nat
      BY <2>1, <2>2
    <3> HIDE DEF claimed, shipped
    <3>2. CASE ~DeterministicOutcome(on(c)).payable
      BY <2>2, <2>14, <3>1, <3>2 DEF Smaller
    <3>3. CASE DeterministicOutcome(on(c)).payable
      <4>1. settled(c).approved <= claimed /\ settled(c).approved <= shipped
        BY <2>2, <2>6, <2>16, <3>3
      <4> QED BY <2>2, <2>12, <2>14, <3>3, <4>1 DEF Smaller
    <3> QED BY <3>2, <3>3
  <2>19. f.partial <=> f.amount < claimed
    BY <2>2, <2>9, <2>10
  <2> QED BY <2>11, <2>17, <2>18, <2>19 DEF PaymentBounded, f
<1> QED BY <1>1, CoreInvariance, PTL

-----------------------------------------------------------------------------
(* The duplicate gate *)

\* The days before each month, up to one.
DaysBefore(N, before) ==
    /\ before \in [0..N -> Nat] /\ before[0] = 0
    /\ \A m \in 1..N : before[m] = before[m - 1] + MonthDays[m - 1]

\* A date's number of days is made of them.
LEMMA DayNumberIs ==
    ASSUME NEW d \in Dates
    PROVE  /\ d.month \in Nat /\ d.day \in 1..MonthDays[d.month]
           /\ \A m \in 0..d.month : MonthDays[m] \in Nat \ {0}
           /\ \E before : DaysBefore(d.month, before) /\ DayNumber(d) = before[d.month] + d.day
<1> DEFINE N == d.month
           step == [x \in Nat \X (1..N) |-> x[1] + MonthDays[x[2] - 1]]
           Body(h) == [m \in 0..N |-> IF m = 0 THEN 0 ELSE h[m - 1] + MonthDays[m - 1]]
           before == CHOOSE h : h = Body(h)
<1>1. N \in DOMAIN MonthDays /\ d.day \in 1..MonthDays[N]
  BY DEF Dates
<1>2. N \in Nat /\ \A m \in 0..N : MonthDays[m] \in Nat \ {0}
  BY <1>1, AuthoritiesAssumption
<1>3. PICK f \in [0..N -> Nat] : f[0] = 0 /\ \A n \in 1..N : f[n] = step[<<f[n - 1], n>>]
  <2>1. step \in [Nat \X (1..N) -> Nat]
    <3>1. \A k \in Nat, m \in 1..N : k + MonthDays[m - 1] \in Nat
      BY <1>2
    <3> HIDE DEF N
    <3> QED BY <3>1
  <2> HIDE DEF step, N
  <2>2. Unfolds(Nat, 0, N, step)
    BY <1>2, <2>1, Recursion
  <2> QED BY <2>2 DEF Unfolds
<1>4. f = Body(f)
  <2>1. ASSUME NEW m \in 0..N PROVE f[m] = Body(f)[m]
    <3>1. CASE m = 0
      BY <1>3, <3>1
    <3>2. CASE m # 0
      <4>1. m \in 1..N /\ f[m - 1] \in Nat
        BY <1>2, <1>3, <3>2
      <4>2. step[<<f[m - 1], m>>] = f[m - 1] + MonthDays[m - 1]
        BY <4>1
      <4> QED BY <1>3, <3>2, <4>1, <4>2
    <3> QED BY <3>1, <3>2
  <2> HIDE DEF N
  <2> QED BY <2>1
<1>5. before = Body(before)
  <2> HIDE DEF Body
  <2> QED BY <1>4
<1>6. DayNumber(d) = before[N] + d.day
  BY DEF DayNumber
<1> HIDE DEF before
<1>7. before[0] = 0 /\ \A m \in 1..N : before[m] = before[m - 1] + MonthDays[m - 1]
  <2>1. \A m \in 0..N : before[m] = IF m = 0 THEN 0 ELSE before[m - 1] + MonthDays[m - 1]
    <3> HIDE DEF N
    <3> QED BY <1>5
  <2> HIDE DEF N
  <2> QED BY <1>2, <2>1
<1>8. \A m \in 0..N : before[m] \in Nat
  <2>1. before[0] \in Nat /\ Keeps(Nat, N, before)
    BY <1>2, <1>7 DEF Keeps
  <2> HIDE DEF N
  <2>2. StaysIn(Nat, N, before)
    BY <1>2, <2>1, Induction
  <2> QED BY <2>2 DEF StaysIn
<1>9. before \in [0..N -> Nat]
  <2> HIDE DEF N
  <2> QED BY <1>5, <1>8
<1>10. DaysBefore(N, before)
  BY <1>7, <1>9 DEF DaysBefore
<1> QED BY <1>1, <1>2, <1>6, <1>10

\* There are as many days before a month whatever date they are counted for.
LEMMA DaysBeforeAgree ==
    ASSUME NEW M \in Nat, NEW N \in Nat, M <= N, NEW g, NEW h, DaysBefore(M, g), DaysBefore(N, h)
    PROVE  g[M] = h[M]
<1> DEFINE Differ == {m \in 0..M : g[m] # h[m]}
<1> SUFFICES ASSUME Differ # {} PROVE FALSE
  OBVIOUS
<1>1. PICK m \in Differ : \A k \in Differ : m <= k
  <2>1. Differ \subseteq Nat
    OBVIOUS
  <2> HIDE DEF Differ
  <2> QED BY <2>1, Least
<1>2. m \in 0..M /\ m # 0 /\ m \in 1..M /\ m \in 1..N /\ m - 1 \in 0..M /\ ~(m <= m - 1)
  BY DEF DaysBefore
<1>3. m - 1 \notin Differ
  <2> HIDE DEF Differ
  <2> QED BY <1>1, <1>2
<1> QED BY <1>2, <1>3 DEF DaysBefore

\* And there are not fewer days before a later month.
LEMMA DaysBeforeGrow ==
    ASSUME NEW N \in Nat, NEW h, DaysBefore(N, h), NEW k \in 0..N,
           \A m \in 0..N : MonthDays[m] \in Nat
    PROVE  h[k] <= h[N]
<1> DEFINE Fewer == {m \in k..N : ~(h[k] <= h[m])}
<1>0. \A m \in 0..N : h[m] \in Nat
  BY DEF DaysBefore
<1> SUFFICES ASSUME Fewer # {} PROVE FALSE
  OBVIOUS
<1>1. PICK m \in Fewer : \A n \in Fewer : m <= n
  <2>1. Fewer \subseteq Nat
    OBVIOUS
  <2> HIDE DEF Fewer
  <2> QED BY <2>1, Least
<1>2. m \in k..N /\ m # k /\ m \in 1..N /\ m - 1 \in k..N /\ m - 1 \in 0..N /\ ~(m <= m - 1)
  BY <1>0
<1>3. m - 1 \notin Fewer
  <2> HIDE DEF Fewer
  <2> QED BY <1>1, <1>2
<1>4. h[m] = h[m - 1] + MonthDays[m - 1] /\ MonthDays[m - 1] \in Nat
  BY <1>2 DEF DaysBefore
<1> QED BY <1>0, <1>2, <1>3, <1>4

\* Counted in days, dates keep their order.
LEMMA DaysInOrder ==
    ASSUME NEW c \in Dates, NEW d \in Dates, DayNumber(c) <= DayNumber(d)
    PROVE  NotAfter(c, d)
<1>1. PICK g : DaysBefore(c.month, g) /\ DayNumber(c) = g[c.month] + c.day
  BY DayNumberIs
<1>2. PICK h : DaysBefore(d.month, h) /\ DayNumber(d) = h[d.month] + d.day
  BY DayNumberIs
<1>3. /\ c.month \in Nat /\ d.month \in Nat /\ c.day \in Nat /\ d.day \in Nat
      /\ d.day <= MonthDays[d.month] /\ c.day >= 1 /\ d.day >= 1
      /\ MonthDays[d.month] \in Nat
      /\ \A m \in 0..c.month : MonthDays[m] \in Nat
  BY DayNumberIs
<1>4. g[c.month] \in Nat /\ h[d.month] \in Nat
  BY <1>1, <1>2, <1>3 DEF DaysBefore
<1>5. CASE c.month = d.month
  <2>1. g[c.month] = h[c.month]
    BY <1>1, <1>2, <1>3, <1>5, DaysBeforeAgree
  <2> QED BY <1>1, <1>2, <1>3, <1>4, <1>5, <2>1 DEF NotAfter
<1>6. CASE d.month < c.month
  <2>1. h[d.month] = g[d.month]
    BY <1>1, <1>2, <1>3, <1>6, DaysBeforeAgree
  <2>2. d.month + 1 \in 1..c.month /\ d.month + 1 \in 0..c.month
    BY <1>3, <1>6
  <2>3. g[d.month + 1] = g[d.month] + MonthDays[d.month]
    BY <1>1, <1>3, <2>2 DEF DaysBefore
  <2>4. g[d.month + 1] <= g[c.month]
    BY <1>1, <1>3, <2>2, DaysBeforeGrow
  <2> QED BY <1>1, <1>2, <1>3, <1>4, <2>1, <2>3, <2>4
<1>7. CASE c.month < d.month
  BY <1>7 DEF NotAfter
<1> QED BY <1>3, <1>5, <1>6, <1>7

\* It is a number.
LEMMA DayNumberType == ASSUME NEW d \in Dates PROVE DayNumber(d) \in Int
<1>1. PICK h : DaysBefore(d.month, h) /\ DayNumber(d) = h[d.month] + d.day
  BY DayNumberIs
<1>2. d.month \in Nat /\ d.day \in Int
  BY DayNumberIs, DateParts
<1> QED BY <1>1, <1>2 DEF DaysBefore

\* The query's first rows leave out a match only for more rows that are as similar.
LEMMA CandidatesCatch ==
    ASSUME NEW claim, NEW others, IsFiniteSet(others), NEW rows \in Candidates(claim, others),
           NEW c \in others, Matches(claim, c), c \notin rows
    PROVE  Cardinality({d \in Blocked(claim, others) : Similarity(claim, d) >= Threshold}) > Limit
<1> DEFINE blocked == Blocked(claim, others)
           Similar == {d \in blocked : Similarity(claim, d) >= Threshold}
<1>1. blocked \in SUBSET others /\ c \in blocked /\ Similarity(claim, c) >= Threshold
  BY DEF Blocked, Matches
<1>2. /\ rows \in SUBSET blocked /\ Cardinality(rows) = Smaller(Limit, Cardinality(blocked))
      /\ \A r \in rows : Similarity(claim, r) >= Similarity(claim, c)
  BY <1>1 DEF Candidates
<1>3. IsFiniteSet(blocked) /\ IsFiniteSet(Similar) /\ IsFiniteSet(rows)
  <2>1. IsFiniteSet(blocked)
    BY <1>1, FS_Subset
  <2>2. Similar \in SUBSET blocked
    OBVIOUS
  <2> QED BY <1>2, <2>1, <2>2, FS_Subset
<1>4. rows \cup {c} \subseteq Similar
  <2>1. \A d \in blocked : Similarity(claim, d) \in Int
    BY DEF Similarity, Threshold
  <2> QED BY <1>1, <1>2, <2>1 DEF Threshold
<1>5. IsFiniteSet(rows \cup {c}) /\ Cardinality(rows \cup {c}) = Cardinality(rows) + 1
  BY <1>3, FS_AddElement
<1>6. Cardinality(rows \cup {c}) <= Cardinality(Similar)
  BY <1>3, <1>4, FS_Subset
<1>7. Cardinality(rows \cup {c}) <= Cardinality(blocked)
  BY <1>1, <1>2, <1>3, FS_Subset
<1>8. Cardinality(rows) \in Nat /\ Cardinality(blocked) \in Nat /\ Cardinality(Similar) \in Nat
  BY <1>3, FS_CardinalityType
<1>9. Cardinality(rows) = Limit
  BY <1>2, <1>5, <1>7, <1>8, AuthoritiesAssumption DEF Smaller
<1> QED BY <1>5, <1>6, <1>8, <1>9, AuthoritiesAssumption

\* check_duplicate_claim (duplicate.py:44-45, 89-98): for every calendar, window, limit and set of
\* claims, in whatever order they come in: a claim is denied as a duplicate only of one that is not
\* later, and one with an identical claim in its window passes only when more rows than the
\* query's limit are as similar.
THEOREM DuplicatesAlwaysCaught == EndpointSpec => []DuplicatesAreCaught
<1> DEFINE Caught(claim, seen, duplicate) ==
             /\ duplicate =>
                  \E c \in seen :
                    /\ NotAfter(c.date, claim.date)
                    /\ DaysAfter(claim, c) <= WindowDays
                    /\ c.coil = claim.coil /\ c.defect = claim.defect
             /\ (\E c \in seen : Matches(claim, c)) =>
                  \/ duplicate
                  \/ Cardinality({c \in Blocked(claim, seen) :
                                   Similarity(claim, c) >= Threshold}) > Limit
           Gated == Gathered /\ ~At("resolved")
<1>1. DuplicatesAreCaught <=> (Gated => Caught(core.claim, core.seen, core.duplicate))
  BY DEF DuplicatesAreCaught
<1>2. EndpointInit => DuplicatesAreCaught
  BY DEF EndpointInit, Begun, DuplicatesAreCaught, Gathered
<1>3. CoreInv /\ DuplicatesAreCaught /\ [EndpointNext]_endpointVars => DuplicatesAreCaught'
  <2> SUFFICES ASSUME CoreInv, DuplicatesAreCaught, [EndpointNext]_endpointVars, Gated'
               PROVE  Caught(core'.claim, core'.seen, core'.duplicate)
    BY DEF DuplicatesAreCaught
  <2>1. core'.at \in {"gate", "clauses", "precedent", "complete"}
    BY DEF Gathered, At
  <2>2. CASE CheckDuplicate
    <3>1. core \in CoreRecord /\ submitted \subseteq Others /\ core.claim \in Incoming
      BY <2>2 DEF CheckDuplicate, At, CoreInv, Reading, Statements, CoreRecord
    <3>2. PICK rows \in Candidates(core.claim, submitted) :
            core' = [core EXCEPT !.at = "gate", !.seen = submitted,
                                 !.duplicate = \E c \in rows : Matches(core.claim, c)]
      BY <2>2 DEF CheckDuplicate
    <3>3. /\ core'.claim = core.claim /\ core'.seen = submitted
          /\ core'.duplicate <=> \E c \in rows : Matches(core.claim, c)
      BY <3>1, <3>2 DEF CoreRecord
    <3>4. ASSUME NEW c \in rows, Matches(core.claim, c)
          PROVE  /\ c \in submitted /\ NotAfter(c.date, core.claim.date)
                 /\ DaysAfter(core.claim, c) <= WindowDays
                 /\ c.coil = core.claim.coil /\ c.defect = core.claim.defect
      <4>1. c \in submitted
        BY DEF Candidates, Blocked
      <4>2. c.date \in Dates /\ core.claim.date \in Dates
        BY <3>1, <4>1, EndpointAssumption
      <4>3. DayNumber(c.date) \in Int /\ DayNumber(core.claim.date) \in Int
        BY <4>2, DayNumberType
      <4>4. DaysAfter(core.claim, c) \in 0..WindowDays /\ WindowDays \in Nat
        BY <3>4, AuthoritiesAssumption DEF Matches, WithinWindow
      <4>5. DayNumber(c.date) <= DayNumber(core.claim.date)
        BY <4>3, <4>4 DEF DaysAfter
      <4> QED BY <3>4, <4>1, <4>2, <4>4, <4>5, DaysInOrder DEF Matches
    <3>5. ASSUME NEW c \in submitted, Matches(core.claim, c), ~core'.duplicate
          PROVE  Cardinality({d \in Blocked(core.claim, submitted) :
                               Similarity(core.claim, d) >= Threshold}) > Limit
      <4>1. c \notin rows
        BY <3>3, <3>5
      <4>2. IsFiniteSet(submitted)
        BY <3>1, EndpointAssumption, FS_Subset
      <4> QED BY <3>5, <4>1, <4>2, CandidatesCatch
    <3> QED BY <3>3, <3>4, <3>5
  <2>3. CASE /\ core'.claim = core.claim /\ core'.seen = core.seen
             /\ core'.duplicate = core.duplicate /\ Gated
    BY <1>1, <2>3
  <2>4. CASE RetrieveClauses
    <3>1. core \in CoreRecord /\ Gated
      BY <2>4 DEF RetrieveClauses, At, CoreInv, Reading, Statements, Gathered
    <3>2. /\ core'.claim = core.claim /\ core'.seen = core.seen
          /\ core'.duplicate = core.duplicate
      BY <2>4, <3>1 DEF RetrieveClauses, CoreRecord
    <3> QED BY <2>3, <3>1, <3>2
  <2>5. CASE FindPrecedent \/ CustomerHeatRisk
    <3>1. core \in CoreRecord /\ Gated
      BY <2>5 DEF FindPrecedent, CustomerHeatRisk, Advisory, At, CoreInv, Reading, Statements,
         Gathered
    <3>2. /\ core'.claim = core.claim /\ core'.seen = core.seen
          /\ core'.duplicate = core.duplicate
      BY <2>5, <3>1 DEF FindPrecedent, CustomerHeatRisk, Advisory, CoreRecord
    <3> QED BY <2>3, <3>1, <3>2
  <2>6. CASE UNCHANGED core
    BY <1>1, <2>6 DEF Gathered, At
  <2>7. CASE FindCoil \/ ResolveSpec
    <3>1. core'.at \in {"coil", "spec", "failed"}
      BY <2>7 DEF FindCoil, ResolveSpec, Fails, At, CoreInv, Reading, Statements, CoreRecord
    <3> QED BY <2>1, <3>1
  <2>8. CASE ResolveWarranty
    <3>1. core'.at \in {"resolved", "failed"}
      BY <2>8 DEF ResolveWarranty, Fails, At, CoreInv, Reading, Statements, CoreRecord
    <3> QED BY <2>1, <3>1
  <2>9. CASE HandOver
    BY <2>1, <2>9 DEF HandOver
  <2>10. CASE Write
    <3>1. core'.at \in {"written", "not_written"}
      BY <2>10 DEF Write, CoreInv
    <3> QED BY <2>1, <3>1
  <2> QED
    BY <2>2, <2>4, <2>5, <2>6, <2>7, <2>8, <2>9, <2>10
       DEF EndpointNext, endpointVars, Rules, Submit, RunIntake
<1> QED BY <1>2, <1>3, CoreStarts, CoreStep, PTL DEF EndpointSpec
=============================================================================
