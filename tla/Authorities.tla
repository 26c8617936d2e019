----------------------------- MODULE Authorities ------------------------------
(***************************************************************************)
(* The deterministic authorities that decide the money of a claim           *)
(* (agent/src/authorities.py) and the duplicate gate (agent/src/duplicate.py): *)
(* pure functions of a claim, its coil and the policy resolved for it.      *)
(*                                                                         *)
(* A date is a month and a day of it.  Prices are in cents, so amounts are  *)
(* integers; a proration factor counts in parts of Scale (1/1,000,000 in    *)
(* the code, which rounds it to six digits).                                *)
(***************************************************************************)
EXTENDS Integers, FiniteSets

CONSTANTS
    MonthDays,     \* the number of days of each month
    Scale,         \* parts of a proration factor
    WindowDays,    \* window_days of the duplicate gate
    Limit          \* LIMIT of its blocking query

ASSUME AuthoritiesAssumption ==
    /\ DOMAIN MonthDays \subseteq Nat
    /\ \A m \in DOMAIN MonthDays : MonthDays[m] \in Nat \ {0} /\ 0..m \subseteq DOMAIN MonthDays
    /\ Scale \in Nat \ {0}
    /\ WindowDays \in Nat
    /\ Limit \in Nat \ {0}

Dates == UNION {[month : {m}, day : 1..MonthDays[m]] : m \in DOMAIN MonthDays}

\* round(n / d), for d > 0.
Rounded(n, d) == (2 * n + d) \div (2 * d)

Smaller(a, b) == IF a <= b THEN a ELSE b
Larger(a, b) == IF a <= b THEN b ELSE a

-----------------------------------------------------------------------------
(* Dates *)

\* Whole months completed between shipment and claim.
CompletedMonths(ship, claim) ==
    claim.month - ship.month - (IF claim.day < ship.day THEN 1 ELSE 0)

LastOfMonth(d) == d.day = MonthDays[d.month]

\* floor(months_between), which the pipelines' history is generated with and which the
\* docstring of completed_months claims to match: two last days of months are whole
\* months apart.
MonthsBetween(ship, claim) ==
    IF LastOfMonth(ship) /\ LastOfMonth(claim) THEN claim.month - ship.month
    ELSE claim.month - ship.month - (IF claim.day < ship.day THEN 1 ELSE 0)

\* The days from the first day of month 0 on.
DayNumber(d) ==
    LET before[m \in 0..d.month] == IF m = 0 THEN 0 ELSE before[m - 1] + MonthDays[m - 1]
    IN  before[d.month] + d.day

NotAfter(d, e) == \/ d.month < e.month
                  \/ d.month = e.month /\ d.day <= e.day

-----------------------------------------------------------------------------
(* Conformance, coverage, settlement *)

\* A measured property that is present and out of the range its grade's spec gives
\* it; a tolerance around an ordered value, a minimum and a required adhesion are
\* ranges as well.
Nonconforming(spec, measured) ==
    {p \in DOMAIN measured : measured[p] \notin spec[p].low..spec[p].high}

\* The exclusions a claim hits.
Exclusions(terms, ship, claim) ==
    {x \in {"duration_expired", "excluded_site", "coast_distance"} :
       \/ x = "duration_expired" /\ CompletedMonths(ship, claim.date) > terms.duration
       \/ x = "excluded_site" /\ claim.site \in terms.excluded
       \/ x = "coast_distance" /\ claim.coast < terms.coast}

\* Full coverage first, then linear down to nothing at the end of the warranty.  A
\* warranty that ends before its full coverage does, which the loader lets pass, gives
\* a quotient of two negatives after both: a factor above Scale.
ProrationFactor(terms, elapsed) ==
    IF elapsed <= terms.full THEN Scale
    ELSE IF terms.duration = terms.full THEN 0
    ELSE IF terms.duration > terms.full
    THEN Rounded(Scale * Larger(0, terms.duration - elapsed), terms.duration - terms.full)
    ELSE Rounded(Scale * (elapsed - terms.duration), terms.full - terms.duration)

\* Tonnage is covered up to what was shipped.
CoveredTonnage(coil, claim) == Smaller(claim.tonnage, coil.tonnage)

\* Faulty: a factor of nothing counts as no factor.
TruthyShare(claim, factor) ==
    IF claim.type = "coating_warranty" /\ factor # 0 THEN factor ELSE Scale

\* A warranty claim is prorated, and a factor of 0 is one.
Share(claim, factor) == IF claim.type = "coating_warranty" THEN factor ELSE Scale

\* Freight is covered up to the cap, and not at all for a warranty claim.
FreightAmount(cap, claim) ==
    IF claim.type = "coating_warranty" THEN 0 ELSE Smaller(claim.freight, cap)

Settlement(coil, cap, claim, factor) ==
    LET base == CoveredTonnage(coil, claim) * coil.price
        approved == Rounded(base * Share(claim, factor), Scale) + FreightAmount(cap, claim)
        claimed == claim.tonnage * coil.price + claim.freight
    IN  [approved |-> approved, claimed |-> claimed,
         overClaim |-> claim.tonnage > coil.tonnage \/ claim.freight > cap,
         partial |-> approved < claimed]

-----------------------------------------------------------------------------
(* The duplicate gate *)

DaysAfter(incoming, candidate) == DayNumber(incoming.date) - DayNumber(candidate.date)

\* pg_trgm's similarity of two narratives, from which on they are the same text.
Threshold == 2
Similarity(incoming, candidate) ==
    IF incoming.narrative = candidate.narrative THEN Threshold + 1 ELSE Threshold - 1

\* The candidate is of the same day or of up to WindowDays before.
WithinWindow(incoming, candidate) == DaysAfter(incoming, candidate) \in 0..WindowDays

\* duplicate_decision: the same identity, not a similar text.
Matches(incoming, candidate) ==
    /\ incoming.coil = candidate.coil
    /\ WithinWindow(incoming, candidate)
    /\ incoming.defect = candidate.defect
    /\ incoming.freight = candidate.freight
    /\ incoming.tonnage = candidate.tonnage
    /\ Similarity(incoming, candidate) >= Threshold

\* The rows BLOCKING_SQL selects: of this coil and in the window.
Blocked(incoming, others) ==
    {c \in others : c.coil = incoming.coil /\ WithinWindow(incoming, c)}

\* Faulty: any Limit of them, in no order.
AnyCandidates(incoming, others) ==
    LET blocked == Blocked(incoming, others)
    IN  {rows \in SUBSET blocked :
           Cardinality(rows) = Smaller(Limit, Cardinality(blocked))}

\* Its first Limit rows by similarity, ties in any order.
Candidates(incoming, others) ==
    LET blocked == Blocked(incoming, others)
    IN  {rows \in SUBSET blocked :
           /\ Cardinality(rows) = Smaller(Limit, Cardinality(blocked))
           /\ \A c \in rows, d \in blocked \ rows :
                Similarity(incoming, c) >= Similarity(incoming, d)}
=============================================================================
