---------------------------- MODULE DecisionLedger ----------------------------
(***************************************************************************)
(* What the operational store promises of the decisions on claims: a ledger *)
(* that takes, for each adjudication, one recommendation and then one human *)
(* ruling, and announces the ruling in the very step that takes it.         *)
(***************************************************************************)
EXTENDS Integers, Sequences, Verdicts

CONSTANTS
    Ids,        \* adjudications
    Cap,        \* the claimed amount of each
    Amounts,
    Tolerance,  \* amounts closer than this are one to a human's decision
    Users,
    NoUser      \* decided_by of a recommendation

VARIABLES
    ledger,     \* the entries of each adjudication, in order
    announced   \* the claim.adjudicated events

Entry == [verdict : AgentVerdicts, disposition : Dispositions, approved : Amounts,
          deterministic : AgentVerdicts, duplicate : BOOLEAN,
          by : Users \cup {NoUser}, reason : BOOLEAN]

\* The agent's entry is the first of its adjudication.  (The step is stated as a
\* relation between the ledger before and after: the new entry is read off it.)
Propose(id) ==
    LET p == ledger'[id][1]
    IN  /\ ledger[id] = <<>>
        /\ Len(ledger'[id]) = 1
        /\ ledger' = [ledger EXCEPT ![id] = <<p>>]
        /\ p \in Entry /\ Enforced(p)
        /\ p.approved <= Cap[id]
        /\ p.by = NoUser /\ ~p.reason
        /\ UNCHANGED announced

Close(a, b) == a - b < Tolerance /\ b - a < Tolerance

\* A human's entry: coherent and within the claim as far as the tolerance tells,
\* over the same deterministic baseline, with a reason exactly when it departs
\* from the recommendation; and the event that announces it.
Ruling(h, p, cap) ==
    /\ Coherent(h.verdict, h.disposition, Close(h.approved, 0))
    /\ h.approved <= cap + Tolerance
    /\ h.deterministic = p.deterministic
    /\ h.duplicate <=> h.verdict = "DENY" /\ h.disposition = "DUPLICATE"
    /\ h.by \in Users
    /\ h.reason <=> \/ h.verdict # p.verdict
                    \/ h.disposition # p.disposition
                    \/ ~Close(h.approved, p.approved)

Rule(id) ==
    LET h == ledger'[id][2]
    IN  /\ Len(ledger[id]) = 1
        /\ Len(ledger'[id]) = 2
        /\ ledger' = [ledger EXCEPT ![id] = Append(@, h)]
        /\ h \in Entry
        /\ Ruling(h, ledger[id][1], Cap[id])
        /\ announced' = announced \cup
             {[id |-> id, verdict |-> OperationalVerdict(h.verdict),
               disposition |-> h.disposition, approved |-> h.approved]}

Init ==
    /\ ledger = [id \in Ids |-> <<>>]
    /\ announced = {}

Next == \E id \in Ids : Propose(id) \/ Rule(id)

Spec == Init /\ [][Next]_<<ledger, announced>>
=============================================================================
