----------------------------- MODULE HeatClusters -----------------------------
(***************************************************************************)
(* The fraud graph (agent/src/fraud_graph.py, run by fraud_graph_job.py):   *)
(* claims that share a heat are joined by union-find, and every customer    *)
(* and heat is scored by how few customers its cluster's claims come from.  *)
(* A claim is its id, its customer and its heat; 0 stands for none.         *)
(*                                                                         *)
(* The edges are united one by one, in any order, of which the code's is    *)
(* one; nothing else touches what the job has read.                         *)
(***************************************************************************)
EXTENDS Integers, SequencesExt

CONSTANT Networks    \* the sequences of claims that may be current when the job runs

\* Of a larger heat, the rounded score would no longer tell half from a little more.
LargestHeat == 15000

Claim == [id : Nat \ {0}, customer : Nat, heat : Nat]

\* A claim is current once, and a heat, which is a handful of coils, has few of them.
ASSUME HeatClustersAssumption ==
    \A claims \in Networks :
      /\ claims \in Seq(Claim)
      /\ \A i, j \in DOMAIN claims : claims[i].id = claims[j].id => i = j
      /\ \A i \in DOMAIN claims : claims[i].heat # 0 =>
           Cardinality({c \in ToSet(claims) : c.heat = claims[i].heat}) <= LargestHeat

VARIABLES
    network,      \* gold.claims_current, with the heats of the coil master
    parent,       \* of every claim in the forest of union-find
    edges,        \* those that are yet to be united
    scored,       \* the job has run
    published     \* gold.customer_heat_risk

heatVars == <<network, parent, edges, scored, published>>

-----------------------------------------------------------------------------
(* The edges *)

Ids(claims) == {c.id : c \in ToSet(claims)}

\* members[0] of each group: the first claim of its heat.
Firsts(claims) ==
    {claims[i] : i \in {i \in DOMAIN claims :
        claims[i].heat # 0 /\ \A k \in 1 .. i - 1 : claims[k].heat # claims[i].heat}}

ChainEdges(first, group) == {<<first.id, other.id>> : other \in group \ {first}}

BuildEdges(claims) ==
    UNION {ChainEdges(first, {c \in ToSet(claims) : c.heat = first.heat}) :
             first \in Firsts(claims)}

-----------------------------------------------------------------------------
(* Union-find *)

\* find: a parent is never larger than its child.  Path compression, which changes no
\* root, is left out.
Roots(forest) ==
    LET root[n \in DOMAIN forest] == IF forest[n] = n THEN n ELSE root[forest[n]] IN root

Find(forest, x) == Roots(forest)[x]

\* Faulty: the two claims are joined, and not their roots.
DirectUnion(forest, edge) == [forest EXCEPT ![Max({edge[1], edge[2]})] = Min({edge[1], edge[2]})]

Union(forest, edge) ==
    LET roots == {Find(forest, edge[1]), Find(forest, edge[2])}
    IN  [forest EXCEPT ![Max(roots)] = Min(roots)]

ConnectedComponents ==
    \E edge \in edges :
      /\ parent' = Union(parent, edge)
      /\ edges' = edges \ {edge}
      /\ UNCHANGED <<network, scored, published>>

-----------------------------------------------------------------------------
(* The scores *)

\* min(1, 1.5 * (1 - customers / claims)), rounded to ten-thousandths.
RiskScore(claims, customers) ==
    Min({10000, (30000 * (claims - customers) + claims) \div (2 * claims)})

IsHighRisk(score, claims) == score >= 7500 /\ claims >= 3

Customers(claims) == {c.customer : c \in claims} \ {0}

\* The row of a claim's customer and heat.
RiskRow(claims, roots, claim) ==
    LET cluster == {c \in ToSet(claims) : roots[c.id] = roots[claim.id]}
        size == Cardinality(cluster)
        customers == Cardinality(Customers(cluster))
        score == RiskScore(size, customers)
    IN  [customer |-> claim.customer, heat |-> claim.heat, cluster_id |-> roots[claim.id],
         cluster_size |-> size, n_customers |-> customers, risk_score |-> score,
         high_risk |-> IsHighRisk(score, size)]

\* Claims without a customer or a heat get none.
Scorable(claims) == {c \in ToSet(claims) : c.customer # 0 /\ c.heat # 0}

\* Of a customer's rows for a heat the riskiest stays.
ScoreClusters(claims, roots) ==
    LET rows == {RiskRow(claims, roots, c) : c \in Scorable(claims)}
        Better(r, s) == r.customer = s.customer /\ r.heat = s.heat /\ r.risk_score > s.risk_score
    IN  {s \in rows : ~\E r \in rows : Better(r, s)}

FraudGraphJob ==
    /\ edges = {} /\ ~scored
    /\ scored' = TRUE
    /\ published' = ScoreClusters(network, Roots(parent))
    /\ UNCHANGED <<network, parent, edges>>

-----------------------------------------------------------------------------
HeatInit ==
    /\ network \in Networks
    /\ parent = [n \in Ids(network) |-> n]
    /\ edges = BuildEdges(network)
    /\ scored = FALSE /\ published = {}

HeatNext == ConnectedComponents \/ FraudGraphJob

HeatSpec == HeatInit /\ [][HeatNext]_heatVars

-----------------------------------------------------------------------------
\* fraud_graph.py's documentation: "the fraud signal (customer concentration) inside each heat
\* cluster".  Every customer of a heat has one row; it counts the claims and customers of that
\* heat and of no other, is named by the heat's smallest claim, and is high by the rule of
\* is_high_risk, a score of 0.75 or more on three or more claims: when there are three claims
\* and at least two of them to a customer (fraud_graph.py:27-45, 78-89).  It is not the rule
\* that the comment of the dashboard's view states, a score of 0.6 or more
\* (gold_analytics.sql:130): five claims of three customers score 0.6 and are not high.
RiskIsOfTheHeat ==
    scored =>
      \A claim \in Scorable(network) :
        LET ofHeat == {c \in ToSet(network) : c.heat = claim.heat}
            size == Cardinality(ofHeat)
            customers == Cardinality(Customers(ofHeat))
        IN  \E row \in published :
              /\ {r \in published : r.customer = claim.customer /\ r.heat = claim.heat} = {row}
              /\ row.cluster_id = Min({c.id : c \in ofHeat})
              /\ row.cluster_size = size /\ row.n_customers = customers
              /\ row.high_risk <=> size >= 3 /\ 2 * customers <= size
=============================================================================
