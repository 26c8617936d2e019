------------------------------- MODULE Datasets -------------------------------
(***************************************************************************)
(* What the evaluation asks: the entity-safe holdout of the adjudicated     *)
(* history (eval/src/build_dataset.py), the mixed held-out set that only    *)
(* takes rows the live rules still decide as history did                    *)
(* (eval/src/heldout.py), and how the ablation samples it                   *)
(* (eval/src/ablation.py).                                                  *)
(***************************************************************************)
EXTENDS Integers, FiniteSets, SequencesExt

CONSTANTS
    Histories,         \* gold.adjudications_history as sequences of entities' rows
    Policies,          \* how often policies are loaded: 0 .. Policies
    HoldoutSize, MinimumRare, SampleSize,
    NormalCounts,      \* quota of each normal stratum
    NarrativeCounts    \* and of each narrative stratum

\* A row is what the generator labelled it, and the rule that decides its claim now
\* under each policy version; AmountMoved is a rule's outcome at another amount.
Labels == {"clean", "in_spec", "out_of_warranty", "duplicate", "over_claim",
           "supplier_attributable", "fraud_cluster"}
Rules == {"R1", "R2", "R4", "R5", "R6", "R7", "AmountMoved"}
Row == [id : Nat, label : Labels, coating : BOOLEAN, rule : [0 .. Policies -> Rules]]

CriticalStrata == <<"clean_approve", "in_spec_deny", "warranty_exclusion", "duplicate", "over_claim">>

ASSUME DatasetsAssumption ==
    /\ Histories \subseteq Seq(Seq(Row) \ {<<>>})
    /\ \A h \in Histories : \A g, f \in DOMAIN h : \A n \in DOMAIN h[g], m \in DOMAIN h[f] :
         h[g][n].id = h[f][m].id => g = f /\ n = m
    /\ Policies \in Nat /\ HoldoutSize \in Nat /\ MinimumRare \in Nat /\ SampleSize \in Nat
    /\ DOMAIN NormalCounts \subseteq {"R7_credit", "R5_supplier_attributable", "R6_over_claim_partial",
                                      "R4_ineligible", "R1_duplicate", "fraud_ring"}
    /\ DOMAIN NormalCounts \cap DOMAIN NarrativeCounts = {}
    /\ NormalCounts \in [DOMAIN NormalCounts -> Nat]
    /\ NarrativeCounts \in [DOMAIN NarrativeCounts -> Nat] /\ IsFiniteSet(DOMAIN NarrativeCounts)

VARIABLES
    history,   \* its entities, most recently finalized first
    policy,    \* the policy version in force
    holdout,   \* of the entities, in the order they are taken
    build,     \* the held-out set being built
    heldout,   \* the managed dataset: the records merged into it
    sample     \* of the dataset, for an ablation

datasetVars == <<history, policy, holdout, build, heldout, sample>>

\* A row's place: its entity, and its place in it.
Rows == UNION {{<<g, n>> : n \in DOMAIN history[g]} : g \in DOMAIN history}
RowAt(place) == history[place[1]][place[2]]

-----------------------------------------------------------------------------
(* stable_holdout *)

Stratum(row) ==
    CASE row.label = "duplicate" -> "duplicate"
      [] row.label = "in_spec" -> "in_spec_deny"
      [] row.label = "out_of_warranty" -> "warranty_exclusion"
      [] row.label = "over_claim" -> "over_claim"
      [] row.label = "clean" -> "clean_approve"
      [] OTHER -> "claim_type"

Matching(g, stratum) ==
    Cardinality({n \in DOMAIN history[g] : Stratum(history[g][n]) = stratum})

\* What has been taken: entities, how many rows they have, how many the stratum at hand has
\* got of them, and the strata that got enough.
TookNothing == [entities |-> <<>>, size |-> 0, rows |-> 0, met |-> {}]

Took(taken, g) == \E n \in DOMAIN taken.entities : taken.entities[n] = g
TakeEntity(taken, g) ==
    [taken EXCEPT !.entities = Append(@, g), !.size = @ + Len(history[g])]

\* Faulty: only room is looked for.
FitsAgain(taken, g) == taken.size + Len(history[g]) <= HoldoutSize

\* An entity is taken whole, once, and only while there is room for all of it.
Fits(taken, g) == ~Took(taken, g) /\ taken.size + Len(history[g]) <= HoldoutSize

\* One with a row of the stratum, until there are enough of its rows ...
TryFor(stratum, taken, g) ==
    IF (taken.rows = 0 \/ taken.rows < MinimumRare) /\ Matching(g, stratum) > 0 /\ Fits(taken, g)
    THEN [TakeEntity(taken, g) EXCEPT !.rows = @ + Matching(g, stratum)]
    ELSE taken

\* ... of all entities in turn.
TriedFor(stratum, taken) ==
    LET tried[g \in 0 .. Len(history)] ==
            IF g = 0 THEN [taken EXCEPT !.rows = 0] ELSE TryFor(stratum, tried[g - 1], g)
    IN  tried
TakeStratum(taken, stratum) ==
    LET after == TriedFor(stratum, taken)[Len(history)] IN
    IF after.rows < MinimumRare THEN after ELSE [after EXCEPT !.met = @ \cup {stratum}]

\* The critical strata first, ...
Critical ==
    LET after[k \in 0 .. Len(CriticalStrata)] ==
            IF k = 0 THEN TookNothing ELSE TakeStratum(after[k - 1], CriticalStrata[k])
    IN  after

\* ... then whatever fits; ...
TakeRest(taken) ==
    LET tried[g \in 0 .. Len(history)] ==
            IF g = 0 THEN taken
            ELSE IF Fits(tried[g - 1], g) THEN TakeEntity(tried[g - 1], g) ELSE tried[g - 1]
    IN  tried

\* ... with enough rows of each stratum and exactly so many of all, or none.
StableHoldout ==
    LET all == TakeRest(Critical[Len(CriticalStrata)])[Len(history)] IN
    IF all.met = Range(CriticalStrata) /\ all.size = HoldoutSize THEN all.entities ELSE <<>>

BuildHoldout ==
    /\ holdout = <<>>
    /\ holdout' = StableHoldout
    /\ UNCHANGED <<history, policy, build, heldout, sample>>

-----------------------------------------------------------------------------
(* heldout.py *)

\* What was decided: verdict and disposition, as the generator wrote them.
Gold(row) ==
    CASE row.label \in {"in_spec", "out_of_warranty"} -> <<"DENY", "DENY">>
      [] row.label = "duplicate" -> <<"DENY", "DUPLICATE">>
      [] row.label = "fraud_cluster" -> <<"PEND", "PEND_INVESTIGATE">>
      [] row.label = "supplier_attributable" -> <<"APPROVE", "REPLACEMENT">>
      [] row.label = "over_claim" -> <<"APPROVE", "REWORK">>
      [] row.label = "clean" -> <<"APPROVE", "CREDIT">>

\* What the rules decide (decision_record.py: deterministic_outcome).
Structured(rule) ==
    CASE rule = "R1" -> <<"DENY", "DUPLICATE">>
      [] rule = "R2" -> <<"PEND", "PEND_INVESTIGATE">>
      [] rule = "R4" -> <<"DENY", "DENY">>
      [] rule = "R5" -> <<"APPROVE", "REPLACEMENT">>
      [] rule = "R6" -> <<"APPROVE", "REWORK">>
      [] rule = "R7" -> <<"APPROVE", "CREDIT">>
      [] rule = "AmountMoved" -> <<"APPROVE", "another amount">>

NormalStratum(row) ==
    LET gold == Gold(row) IN
    CASE gold[1] = "PEND" -> "fraud_ring"
      [] gold[2] = "DUPLICATE" -> "R1_duplicate"
      [] gold = <<"DENY", "DENY">> -> "R4_ineligible"
      [] gold[2] = "REPLACEMENT" -> "R5_supplier_attributable"
      [] gold[2] = "REWORK" -> "R6_over_claim_partial"
      [] gold[2] = "CREDIT" -> "R7_credit"

\* Faulty: a normal row need only be paid alike.
PaidAlike(record, version) ==
    LET structured == Structured(record.row.rule[version]) IN
    record.group = "normal" /\ record.stratum # "fraud_ring" =>
      (structured[1] = "APPROVE") = (Gold(record.row)[1] = "APPROVE")

\* A normal row is decided as it was, but for a fraud ring no rule sees; a narrative
\* row, whose fields all say it is covered, is not denied by them.
ValidateGateResult(record, version) ==
    LET structured == Structured(record.row.rule[version]) IN
    IF record.group = "narrative" THEN structured[1] # "DENY"
    ELSE record.stratum # "fraud_ring" => structured = Gold(record.row)

NormalRecord(row) == [group |-> "normal", stratum |-> NormalStratum(row), row |-> row]
NarrativeRecord(row, stratum) == [group |-> "narrative", stratum |-> stratum, row |-> row]

\* Rows are tried in the order of their places.
NotAfter(p, q) == p[1] < q[1] \/ (p[1] = q[1] /\ p[2] <= q[2])
First(count, places) == {p \in places : Cardinality({q \in places : NotAfter(q, p)}) <= count}

\* Rows are tried until their number is the quota: a quota of nothing is never met.
UpTo(quota, places) == IF quota = 0 THEN places ELSE First(quota, places)

\* The first rows of a stratum that pass the gate, up to its quota.
LiveRows(stratum, reads) ==
    UpTo(NormalCounts[stratum],
         {p \in Rows : /\ NormalStratum(RowAt(p)) = stratum
                       /\ ValidateGateResult(NormalRecord(RowAt(p)), reads[p])})

\* Approved coating claims whose rows pass as every kind of narrative row.
NarrativeNeeded == Max({NarrativeCounts[s] : s \in DOMAIN NarrativeCounts} \cup {0})
LiveNarrativeSources(reads) ==
    UpTo(NarrativeNeeded,
         {p \in Rows : /\ RowAt(p).coating /\ Gold(RowAt(p))[1] = "APPROVE"
                       /\ \A s \in DOMAIN NarrativeCounts :
                            ValidateGateResult(NarrativeRecord(RowAt(p), s), reads[p])})

NormalOf(places) == {NormalRecord(RowAt(p)) : p \in places}
NarrativeOf(stratum, places) ==
    {NarrativeRecord(RowAt(p), stratum) : p \in First(NarrativeCounts[stratum], places)}
RecordsOf(normal, narrative) ==
    (UNION {NormalOf(normal[s]) : s \in DOMAIN NormalCounts})
    \cup (UNION {NarrativeOf(s, narrative) : s \in DOMAIN NarrativeCounts})

NotBuilding == [at |-> "idle", since |-> 0, records |-> {}]

\* Each pass reads the live policy row by row, on a connection that commits each read:
\* rows of one pass may find different versions in force.
Reads(turns) == [turns -> build.since .. policy]

BeginSelection ==
    /\ build.at = "idle"
    /\ build' = [at |-> "selecting", since |-> policy, records |-> {}]
    /\ UNCHANGED <<history, policy, holdout, heldout, sample>>

Refused == NotBuilding

\* Too few rows for a quota refuse the whole set.
SelectLiveSources ==
    /\ build.at = "selecting"
    /\ \E reads \in Reads(Rows) :
         LET normal == [s \in DOMAIN NormalCounts |-> LiveRows(s, reads)]
             narrative == LiveNarrativeSources(reads)
             filled == /\ \A s \in DOMAIN NormalCounts : Cardinality(normal[s]) = NormalCounts[s]
                       /\ Cardinality(narrative) = NarrativeNeeded
         IN  build' = IF filled
                      THEN [at |-> "validating", since |-> policy,
                            records |-> RecordsOf(normal, narrative)]
                      ELSE Refused
    /\ UNCHANGED <<history, policy, holdout, heldout, sample>>

\* Every record again, on a connection of its own, before anything is written.
ValidateLive ==
    /\ build.at = "validating"
    /\ \E reads \in Reads(build.records) :
         build' = IF \A record \in build.records : ValidateGateResult(record, reads[record])
                  THEN [build EXCEPT !.at = "valid"] ELSE Refused
    /\ UNCHANGED <<history, policy, holdout, heldout, sample>>

\* Records are merged: those of an earlier build stay.
MergeRecords ==
    /\ build.at = "valid"
    /\ heldout' = heldout \cup build.records
    /\ build' = NotBuilding
    /\ UNCHANGED <<history, policy, holdout, sample>>

\* A policy intake, by another program.
LoadPolicy ==
    /\ policy < Policies
    /\ policy' = policy + 1
    /\ UNCHANGED <<history, holdout, build, heldout, sample>>

-----------------------------------------------------------------------------
(* ablation.py *)

\* What a record expects: the class of its disposition, and the claim's type.
SampleStratum(record) ==
    <<IF record.group = "narrative" THEN "DENY" ELSE Gold(record.row)[1], record.row.coating>>
SampleStrata == <<<<"APPROVE", TRUE>>, <<"APPROVE", FALSE>>, <<"DENY", TRUE>>, <<"DENY", FALSE>>,
                  <<"PEND", TRUE>>, <<"PEND", FALSE>>>>

\* A record is the i-th of its stratum g; rounds of one record of every stratum that
\* has one left.
RoundFirst(p, q) == p[2] < q[2] \/ (p[2] = q[2] /\ p[1] < q[1])

Held(g) == Cardinality({r \in heldout : SampleStratum(r) = SampleStrata[g]})

StratifiedSample ==
    /\ Cardinality(heldout) >= SampleSize
    /\ LET places == UNION {{<<g, i>> : i \in 1 .. Held(g)} : g \in DOMAIN SampleStrata} IN
       sample' = {q \in places : Cardinality({p \in places : RoundFirst(p, q)}) < SampleSize}
    /\ UNCHANGED <<history, policy, holdout, build, heldout>>

-----------------------------------------------------------------------------

DatasetsInit ==
    /\ history \in Histories
    /\ policy = 0 /\ holdout = <<>> /\ build = NotBuilding /\ heldout = {} /\ sample = {}

DatasetsNext ==
    \/ BuildHoldout \/ BeginSelection \/ SelectLiveSources \/ ValidateLive \/ MergeRecords
    \/ LoadPolicy \/ StratifiedSample

DatasetsSpec == DatasetsInit /\ [][DatasetsNext]_datasetVars

Occurring == {RowAt(p) : p \in Rows}
Records == {NormalRecord(row) : row \in {r \in Occurring : NormalStratum(r) \in DOMAIN NormalCounts}}
           \cup {NarrativeRecord(row, s) : row \in Occurring, s \in DOMAIN NarrativeCounts}

\* Types: a selection holds exactly the quotas' records, and nothing is kept of a refused build.
DatasetsTypeOK ==
    /\ policy \in 0 .. Policies
    /\ holdout \in Seq(DOMAIN history)
    /\ build.at \in {"idle", "selecting", "validating", "valid"} /\ build.since \in 0 .. policy
    /\ \A record \in build.records \cup heldout : record \in Records
    /\ build.at \in {"idle", "selecting"} => build.records = {}
    /\ build.at \in {"validating", "valid"} =>
         \A s \in DOMAIN NormalCounts :
           Cardinality({r \in build.records : r.stratum = s}) = NormalCounts[s]
    /\ sample \subseteq (DOMAIN SampleStrata) \X (1 .. Cardinality(heldout))
    /\ Cardinality(sample) \in {0, SampleSize}

\* stable_holdout: a claim and its duplicates are on one side of the split, whole and once,
\* the holdout has exactly its size, and every critical stratum has its minimum in it.
HoldoutRows == {p \in Rows : p[1] \in Range(holdout)}
HoldoutIsEntitySafe ==
    holdout # <<>> =>
      /\ IsInjective(holdout)
      /\ Cardinality(HoldoutRows) = HoldoutSize
      /\ \A k \in DOMAIN CriticalStrata :
           Cardinality({p \in HoldoutRows : Stratum(RowAt(p)) = CriticalStrata[k]}) >= MinimumRare

\* _validate_gate_result: a record enters the managed set labelled with the rule that decided
\* its claim under a policy in force while the set was validated, and a narrative row's fields
\* do not deny it by themselves, whatever was loaded while the set was built.
IsItsRule(record, version) ==
    LET rule == record.row.rule[version] IN
    IF record.group = "narrative" THEN rule \notin {"R1", "R4"}
    ELSE CASE record.stratum = "R1_duplicate" -> rule = "R1"
           [] record.stratum = "R4_ineligible" -> rule = "R4"
           [] record.stratum = "R5_supplier_attributable" -> rule = "R5"
           [] record.stratum = "R6_over_claim_partial" -> rule = "R6"
           [] record.stratum = "R7_credit" -> rule = "R7"
           [] record.stratum = "fraud_ring" -> TRUE
StrataAreRules == [][
    \A record \in heldout' \ heldout :
      \E version \in build.since .. policy : IsItsRule(record, version)]_datasetVars
=============================================================================
