\* The same claims, and lookups that fail in their statement.
CONSTANTS
    MonthDays <- Calendar
    Scale = 4
    WindowDays = 1
    Limit = 1
    Incoming <- IncomingClaims
    Others <- OtherClaims
    Coils <- CoilTable
    Sources <- PolicySources
    Amounts = {0, 1, 2, 3}
    MillProperties = {"yield_mpa"}
    ApproveDispositions = {"CREDIT", "REPLACEMENT", "REWORK"}
SPECIFICATION EndpointSpec
INVARIANTS AdvisoryNeverBlocks
\* An invocation ends when its recommendation is written or it fails.
CHECK_DEADLOCK FALSE
