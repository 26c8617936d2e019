------------------------------- MODULE Endpoint --------------------------------
(***************************************************************************)
(* One invocation of the adjudication endpoint: the deterministic core      *)
(* (agent/src/agent.py, agent_tools.py) with the policy it resolves         *)
(* (resolution.py, authorities_runtime.py), the duplicate gate, the clauses *)
(* it cites and the advisory lookups (retrieval.py, heat_risk.py).  Its     *)
(* facts go to the rules of module DecisionRules, and the write follows.    *)
(*                                                                         *)
(* All statements are of one transaction at READ COMMITTED: each sees what  *)
(* is committed when it starts, so claims may come in and policy_intake.py  *)
(* may load another source between any two.  A statement that fails aborts  *)
(* the transaction, and every later one fails.  The synced reference tables *)
(* (coils, certificates, risk) do not change meanwhile.                     *)
(***************************************************************************)
EXTENDS Scorers, Authorities, Sequences

CONSTANTS
    Incoming,      \* the claims an invocation may be for
    Others,        \* the other claims that may be submitted
    Coils,         \* reference.heats_coils and mill_test_certs, by coil
    Sources        \* the policy sources, in the order they are loaded

ClaimFields == {"id", "type", "coil", "date", "tonnage", "freight", "site", "coast", "defect",
                "narrative"}

ASSUME EndpointAssumption ==
    /\ Len(Sources) \in Nat \ {0} /\ IsFiniteSet(Others)
    /\ \A c \in Incoming \cup Others :
         /\ c = [x \in ClaimFields |-> c[x]]
         /\ c.date \in Dates /\ c.tonnage \in Nat /\ c.freight \in Nat
         /\ c.type \in {"material_nonconformance", "coating_warranty", "other"}
    /\ \A k \in DOMAIN Coils :
         /\ Coils[k].ship \in Dates /\ Coils[k].tonnage \in Nat /\ Coils[k].price \in Nat
         /\ DOMAIN Coils[k].measured \subseteq MillProperties \cup CoatingProperties
    /\ \A i \in 1..Len(Sources) : \A v \in Sources[i].warranties :
         v.duration \in Nat /\ v.full \in Nat /\ v.cap \in Nat

Tables == {"spec_params", "warranty_terms", "spec_clauses", "warranty_clauses"}

VARIABLES
    core,          \* the invocation, up to where its facts are handed on
    submitted,     \* the other rows of public.claims
    policy         \* the source each policy table has been loaded from

world == <<submitted, policy>>
endpointVars == <<vars, core, world>>

None == [none |-> TRUE]
Coil == Coils[core.claim.coil]

\* The core's statements, by what has been executed.
Statements == {"start", "coil", "spec", "resolved", "gate", "clauses", "precedent",
               "complete"}

\* The invocation has executed its statements up to this one.
At(statement) == core.at = statement

\* The invocation is at its start.
Begun(claim) ==
    [at |-> "start", claim |-> claim, spec |-> 0, warranty |-> 0, terms |-> None,
     duplicate |-> FALSE, seen |-> {}, cited |-> 0, versions |-> {}, aborted |-> FALSE]

\* A lookup of the core finds nothing: the invocation fails.
Fails == core' = [core EXCEPT !.at = "failed"]

-----------------------------------------------------------------------------
(* resolve_once *)

\* fetch_measured and the resolver's first query.
FindCoil ==
    /\ At("start")
    /\ IF core.claim.coil \in DOMAIN Coils THEN core' = [core EXCEPT !.at = "coil"]
       ELSE Fails
    /\ UNCHANGED <<vars, world>>

\* The grade's parameters.
ResolveSpec ==
    /\ At("coil")
    /\ LET source == policy["spec_params"]
       IN  IF Coil.grade \in DOMAIN Sources[source].specs
           THEN core' = [core EXCEPT !.at = "spec", !.spec = source] ELSE Fails
    /\ UNCHANGED <<vars, world>>

\* A version in force on a date.
InForce(version, date) == NotAfter(version.from, date) /\ ~NotAfter(version.to, date)

\* The sources are dated so that on each date at most one version is in force; the
\* loader takes that from the documents (lakebase/src/policy_source.json).
ASSUME OneVersionAtATime ==
    \A i \in 1..Len(Sources) : \A v, w \in Sources[i].warranties : \A d \in Dates :
      InForce(v, d) /\ InForce(w, d) => v = w

\* The version in force at the shipment.
Applies(version) == InForce(version, Coil.ship)

\* The warranty's terms: of the versions in force the one that came last.
ResolveWarranty ==
    /\ At("spec")
    /\ LET source == policy["warranty_terms"]
           versions == {v \in Sources[source].warranties : Applies(v)}
       IN  IF versions = {} THEN Fails
           ELSE \E v \in versions :
                  /\ \A w \in versions : NotAfter(w.from, v.from)
                  /\ core' = [core EXCEPT !.at = "resolved", !.terms = v,
                                          !.warranty = source]
    /\ UNCHANGED <<vars, world>>

-----------------------------------------------------------------------------
(* The gate, and what the recommendation cites *)

\* check_duplicate_claim: some row the query returns is the same claim.
CheckDuplicate ==
    /\ At("resolved")
    /\ \E rows \in Candidates(core.claim, submitted) :
         core' = [core EXCEPT !.at = "gate", !.seen = submitted,
                              !.duplicate = \E c \in rows : Matches(core.claim, c)]
    /\ UNCHANGED <<vars, world>>

\* The clauses of the versions in force at the shipment.
ClausesInForce(source) == {v \in Sources[source].warranties : Applies(v)}

\* retrieve_policy_clauses: filtered by what was resolved, not by the version.
RetrieveClauses ==
    /\ At("gate")
    /\ LET warranty == core.claim.type = "coating_warranty"
           source == policy[IF warranty THEN "warranty_clauses" ELSE "spec_clauses"]
       IN  core' = [core EXCEPT !.at = "clauses", !.cited = source,
                      !.versions = IF warranty THEN ClausesInForce(source) ELSE {}]
    /\ UNCHANGED <<vars, world>>

-----------------------------------------------------------------------------
(* Advisory lookups *)

\* An advisory lookup, up to one statement: it succeeds, fails before its
\* statement (the embedding) or in it, and is caught in any case.
Advisory(before, after) ==
    /\ At(before)
    /\ \E aborted \in BOOLEAN :
         /\ core.aborted => aborted
         /\ core' = [core EXCEPT !.at = after, !.aborted = aborted]
    /\ UNCHANGED <<vars, world>>

FindPrecedent == Advisory("clauses", "precedent")
CustomerHeatRisk == Advisory("precedent", "complete")

-----------------------------------------------------------------------------
(* The facts, and the write *)

\* The facts of a claim on the resolved policy.
FactsOf(claim, spec, terms, duplicate) ==
    LET coil == Coils[claim.coil]
        factor == ProrationFactor(terms, CompletedMonths(coil.ship, claim.date))
        settlement == Settlement(coil, terms.cap, claim, factor)
    IN  [claimType |-> claim.type,
         nonconforming |-> Nonconforming(Sources[spec].specs[coil.grade], coil.measured),
         covered |-> Exclusions(terms, coil.ship, claim) = {},
         amount |-> settlement.approved,
         overClaim |-> settlement.overClaim, partial |-> settlement.partial,
         duplicate |-> duplicate]

CoreFacts == FactsOf(core.claim, core.spec, core.terms, core.duplicate)

\* The facts are handed on; nothing else of the core is needed any more.
HandOver ==
    /\ At("complete")
    /\ facts' = CoreFacts
    /\ stage' = "core"
    /\ answer' = DefaultRecommendation(CoreFacts)
    /\ recommendation' = EnforceInvariants(DefaultRecommendation(CoreFacts), CoreFacts)
    /\ core' = [at |-> "handed", aborted |-> core.aborted]
    /\ UNCHANGED world

\* The model, and the enforcement of the rules on its answer.
Rules ==
    /\ At("handed")
    /\ Next
    /\ UNCHANGED <<core, world>>

\* write_adjudication, whose statements fail if the transaction is aborted.
Write ==
    /\ At("handed")
    /\ stage = "enforced"
    /\ core' = [core EXCEPT !.at = IF core.aborted THEN "not_written" ELSE "written"]
    /\ UNCHANGED <<vars, world>>

-----------------------------------------------------------------------------
(* The world meanwhile; it stands still when the invocation reads it no more *)

Reading == core.at \in Statements

Submit(c) ==
    /\ Reading
    /\ submitted' = submitted \cup {c}
    /\ UNCHANGED <<vars, core, policy>>

\* Faulty: one table after the other.
IntakeTable ==
    /\ Reading
    /\ \E t \in Tables : /\ policy[t] < Len(Sources)
                         /\ policy' = [policy EXCEPT ![t] = @ + 1]
    /\ UNCHANGED <<vars, core, submitted>>

\* run_intake: the rows of the next source, in one transaction, and no others stay.
RunIntake ==
    /\ Reading
    /\ \A t \in Tables : policy[t] < Len(Sources)
    /\ policy' = [t \in Tables |-> policy[t] + 1]
    /\ UNCHANGED <<vars, core, submitted>>

-----------------------------------------------------------------------------
NoFacts == [claimType |-> "other", nonconforming |-> {}, covered |-> FALSE, amount |-> 0,
            overClaim |-> FALSE, partial |-> FALSE, duplicate |-> FALSE]

\* An invocation for some claim; or one whose core has handed on any facts at all,
\* so that the rules are checked beyond what these claims can give rise to.
EndpointInit ==
    /\ policy = [t \in Tables |-> 1]
    /\ \/ /\ facts = NoFacts
          /\ \E c \in Incoming : core = Begun(c)
          /\ submitted \in SUBSET Others
          /\ stage = "core"
          /\ answer = DefaultRecommendation(facts)
          /\ recommendation = EnforceInvariants(answer, facts)
       \/ /\ Init
          /\ core = [at |-> "handed", aborted |-> FALSE]
          /\ submitted = {}

EndpointNext ==
    \/ FindCoil \/ ResolveSpec \/ ResolveWarranty
    \/ CheckDuplicate \/ RetrieveClauses \/ FindPrecedent \/ CustomerHeatRisk
    \/ HandOver \/ Rules \/ Write
    \/ \E c \in Others : Submit(c)
    \/ RunIntake

EndpointSpec == EndpointInit /\ [][EndpointNext]_endpointVars
-----------------------------------------------------------------------------
(* Properties *)

\* The core has everything its facts are made from.
Gathered == core.at \in {"resolved", "gate", "clauses", "precedent", "complete"}

\* What the authorities would pay for the claim if it were dated so.
PaidAt(date) ==
    LET f == FactsOf([core.claim EXCEPT !.date = date], core.spec, core.terms, FALSE)
    IN  IF DeterministicOutcome(f).payable THEN f.amount ELSE 0

\* A payment is bounded by what was claimed, by what was shipped and by the cap, and is
\* never more for a later claim: not at the end of the full coverage, not in the month
\* the factor reaches nothing, not at the end of the warranty, not for a claim dated
\* before its shipment, not under a warranty that ends before its full coverage, whose
\* factor exceeds one (authorities.py:108-116, 135-151). The estimate, payable or not,
\* is partial exactly when it falls short of the claim, and the facts are some the rules
\* are checked for.
PaymentBounded ==
    Gathered =>
      LET f == CoreFacts
          date == core.claim.date
          claimed == core.claim.tonnage * Coil.price + core.claim.freight
      IN  /\ f \in Facts
          /\ f.partial <=> f.amount < claimed
          /\ PaidAt(date) <= Smaller(claimed, Coil.tonnage * Coil.price + core.terms.cap)
          /\ \A d \in Dates : NotAfter(date, d) => PaidAt(d) <= PaidAt(date)

\* A claim that is denied as a duplicate is the later of two, or of the same day, in
\* whatever order they are submitted and adjudicated; and one that has an identical
\* claim in its window is denied, though the query returns only Limit of the coil's
\* rows, unless as many other rows are at least as similar (duplicate.py:44-45, 89-98).
DuplicatesAreCaught ==
    Gathered /\ ~At("resolved") =>
      /\ core.duplicate =>
           \E c \in core.seen :
             /\ NotAfter(c.date, core.claim.date)
             /\ DaysAfter(core.claim, c) <= WindowDays
             /\ c.coil = core.claim.coil /\ c.defect = core.claim.defect
      /\ (\E c \in core.seen : Matches(core.claim, c)) =>
           \/ core.duplicate
           \/ Cardinality({c \in Blocked(core.claim, core.seen) :
                            Similarity(core.claim, c) >= Threshold}) > Limit

\* The four tables are always of one source; an invocation during an intake reads
\* forward, its terms never older than its parameters, nor its citations older than
\* either; and if no intake came between, it cites the version the claim is settled by,
\* looked up by date in another statement (authorities_runtime.py:84-91,
\* policy_intake.py:274-310, retrieval.py:57-65, resolution.py:37-42).
ReadsForward ==
    /\ \A t, u \in Tables : policy[t] = policy[u]
    /\ Reading =>
         LET now == policy["spec_params"]
         IN  /\ core.spec \in 0..now
             /\ core.warranty # 0 => core.warranty \in core.spec..now
             /\ core.cited # 0 => core.cited \in core.warranty..now
    /\ /\ core.at \in {"clauses", "precedent", "complete"}
       /\ core.claim.type = "coating_warranty" /\ core.cited = core.warranty
       => core.versions = {core.terms}

\* An advisory lookup that fails never costs the claim its recommendation
\* (agent_tools.py:136).
AdvisoryNeverBlocks == ~At("not_written")
=============================================================================
