\* Evaluations of what an alias names, while versions are registered.
CONSTANTS
    Promoters = {p1}
    MoneySafetyMetrics = {"duplicate", "citations"}
    QualityMetrics = {"verdict", "amount"}
    BootstrapMetrics = {"duplicate", "amount"}
    URIs = {"version", "@candidate"}
    Top = 1
    Outcomes <- MCOutcomes
    MaxVersions = 2
    MaxRuns = 2
    Candidates = 3
    Claims = 4
    EarlyFailureLimit = 2
    Histories <- MCHistories
    Policies = 1
    HoldoutSize = 7
    MinimumRare = 1
    SampleSize = 5
    NormalCounts <- MCNormalCounts
    NarrativeCounts <- MCNarrativeCounts
    TableOrder <- MCOrder
    Corpus = "corpus"
    TablesOf <- MCTablesOf
    MaxPrincipals = 2
    MaxChanges = 3
    CorpusClaims = {1, 2}
    Texts = {t1, t2}
    Provenances = {m1, m2}
    Networks <- MCNetworks
SPECIFICATION ReleaseAlone
INVARIANTS ScoredIsTagged
CHECK_DEADLOCK FALSE
