----------------------------- MODULE MCOperations -----------------------------
\* The operators' programs, which share no state in the models: one of them is at work in a
\* behaviour, and the others stand still.
EXTENDS Release, Harness, Datasets, SyncedTables, Refresh, PriorClaims, HeatClusters

VARIABLE scene    \* which

allVars ==
    <<scene, releaseVars, harnessVars, datasetVars, tableVars, refreshVars, priorVars, heatVars>>

Scenes == {"release", "harness", "datasets", "tables", "refresh", "corpus", "clusters"}

\* Release: a version's grades, which pass, are unsafe, or are safe and no better.
Graded(d, c, a, v) == [m \in {"duplicate", "citations", "amount", "verdict"} |->
    CASE m = "duplicate" -> d [] m = "citations" -> c [] m = "amount" -> a [] m = "verdict" -> v]
MCOutcomes == {Graded(1, 1, 1, 1), Graded(0, 0, 1, 1), Graded(1, 1, 1, 0)}

\* Datasets: seven entities in any order of the first three; the rule of one depends on the policy.
Ruled(before, after) == [v \in 0 .. Policies |-> IF v = 0 THEN before ELSE after]
Of(id, label, coating, before, after) ==
    [id |-> id, label |-> label, coating |-> coating, rule |-> Ruled(before, after)]
MCHistories ==
    {<<es[p[1]], es[p[2]], es[p[3]], <<Of(6, "in_spec", FALSE, "R4", "R4")>>,
       <<Of(7, "out_of_warranty", TRUE, "R4", "R7")>>, <<Of(8, "over_claim", TRUE, "R6", "AmountMoved")>>,
       <<Of(9, "fraud_cluster", FALSE, "R5", "R5")>>>> :
     p \in {q \in [1 .. 3 -> 1 .. 3] : q[1] # q[2] /\ q[2] # q[3] /\ q[1] # q[3]},
     es \in {<< <<Of(1, "clean", TRUE, "R7", after)>>,
               <<Of(2, "clean", TRUE, "R7", "R7"), Of(3, "duplicate", TRUE, "R1", "R1")>>,
               <<Of(4, "supplier_attributable", FALSE, "R5", "R5")>>>> : after \in {"R4", "R5"}}}
MCNormalCounts == [s \in {"R7_credit", "R4_ineligible", "R1_duplicate", "fraud_ring"} |-> 1]
MCNarrativeCounts == [s \in {"excluded_environment"} |-> 1]

\* SyncedTables: a plain table, and the corpus, which needs its index.
MCOrder == <<"customers", "corpus">>
MCTablesOf == [c \in Consumers |-> IF c = "app" THEN {"customers", "corpus"} ELSE {"corpus"}]

\* HeatClusters: four claims, in two orders, of up to two customers and heats.
MCNetworks == {[i \in 1 .. 4 |-> [id |-> ids[i], customer |-> of[i][1], heat |-> of[i][2]]] :
    ids \in {<<1, 2, 3, 4>>, <<3, 1, 4, 2>>}, of \in [1 .. 4 -> (0 .. 2) \X (0 .. 2)]}

\* What a scene starts from may vary; the others have one beginning.
Init ==
    /\ scene \in Scenes
    /\ ReleaseInit /\ TablesInit /\ RefreshInit
    /\ IF scene = "harness" THEN HarnessInit
       ELSE /\ harness = [at |-> "over", candidate |-> 1]
            /\ worker = "none" /\ pipe = NewPipe /\ outcome = "none"
            /\ rows = [c \in 1 .. Candidates |-> <<>>]
            /\ mlruns = [c \in 1 .. Candidates |-> "none"]
    /\ DatasetsInit /\ (scene # "datasets" => history = CHOOSE h \in Histories : TRUE)
    /\ PriorInit /\ (scene # "corpus" => <<narratives, provenance>> =
                       <<CHOOSE n \in [CorpusClaims -> Texts] : TRUE, CHOOSE p \in Provenances : TRUE>>)
    /\ IF scene = "clusters" THEN HeatInit
       ELSE /\ network = <<>> /\ parent = <<>> /\ edges = {}
            /\ scored = FALSE /\ published = {}

Still(others) == UNCHANGED <<scene, others>>

\* Bound: while several promote, nothing is registered or evaluated.
Undisturbed ==
    (\E p, q \in Promoters : p # q /\ promoters[p] # NoPromotion /\ promoters[q] # NoPromotion)
      => registrar = "idle" /\ evaluator = Idle

Next ==
    \/ /\ scene = "release" /\ ReleaseNext /\ Undisturbed'
       /\ Still(<<harnessVars, datasetVars, tableVars, refreshVars, priorVars, heatVars>>)
    \/ /\ scene = "harness" /\ HarnessNext
       /\ Still(<<releaseVars, datasetVars, tableVars, refreshVars, priorVars, heatVars>>)
    \/ /\ scene = "datasets" /\ DatasetsNext
       /\ Still(<<releaseVars, harnessVars, tableVars, refreshVars, priorVars, heatVars>>)
    \/ /\ scene = "tables" /\ TablesNext
       /\ Still(<<releaseVars, harnessVars, datasetVars, refreshVars, priorVars, heatVars>>)
    \/ /\ scene = "refresh" /\ RefreshNext
       /\ Still(<<releaseVars, harnessVars, datasetVars, tableVars, priorVars, heatVars>>)
    \/ /\ scene = "corpus" /\ PriorNext
       /\ Still(<<releaseVars, harnessVars, datasetVars, tableVars, refreshVars, heatVars>>)
    \/ /\ scene = "clusters" /\ HeatNext
       /\ Still(<<releaseVars, harnessVars, datasetVars, tableVars, refreshVars, priorVars>>)

Spec == Init /\ [][Next]_allVars /\ HarnessFairness

\* The release alone.
ReleaseAlone == scene = "release" /\ Init /\ [][Next]_allVars
=============================================================================
