\* Claims at every boundary of a warranty, a policy source loaded and identical claims
\* submitted between any two statements; then every facts with every answer.
CONSTANTS
    MonthDays <- Calendar
    Scale = 4
    WindowDays = 1
    Limit = 1
    Incoming <- IncomingClaims
    Others <- OtherClaims
    Coils <- CoilTable
    Sources <- PolicySources
    Amounts = {0, 1, 2, 3}
    MillProperties = {"yield_mpa"}
    ApproveDispositions = {"CREDIT", "REPLACEMENT", "REWORK"}
SPECIFICATION EndpointSpec
INVARIANTS ContractKept ModelOnlyHolds CorrectionsRecorded SafeOnEveryRecord
           PaymentBounded DuplicatesAreCaught ReadsForward
\* An invocation ends when its recommendation is written or it fails.
CHECK_DEADLOCK FALSE
