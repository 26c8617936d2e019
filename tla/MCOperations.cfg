CONSTANTS
    Promoters = {p1, p2}
    MoneySafetyMetrics = {"duplicate", "citations"}
    QualityMetrics = {"verdict", "amount"}
    BootstrapMetrics = {"duplicate", "amount"}
    URIs = {"version"}
    Top = 1
    Outcomes <- MCOutcomes
    MaxVersions = 2
    MaxRuns = 2
    Candidates = 3
    Claims = 4
    EarlyFailureLimit = 2
    Histories <- MCHistories
    Policies = 1
    HoldoutSize = 7
    MinimumRare = 1
    SampleSize = 5
    NormalCounts <- MCNormalCounts
    NarrativeCounts <- MCNarrativeCounts
    TableOrder <- MCOrder
    Corpus = "corpus"
    TablesOf <- MCTablesOf
    MaxPrincipals = 2
    MaxChanges = 3
    CorpusClaims = {1, 2}
    Texts = {t1, t2}
    Provenances = {m1, m2}
    Networks <- MCNetworks
SPECIFICATION Spec
INVARIANTS
    ReleasedIsGated
    AnswersAreTheirOwn WorkersAreContained ReportsAreComplete
    HoldoutIsEntitySafe
    SuccessMeansReadable
    SeededOnce BootstrapFindsItsInputs RefreshReachesEverything
    EmbeddingsMatch RiskIsOfTheHeat
PROPERTIES
    MovesAreJudged StrataAreRules AblationEnds
CHECK_DEADLOCK FALSE
