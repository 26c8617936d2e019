\* A backlog longer than the relay's window: two claims with an adjudication each,
\* every redelivery and every crash, and each of the four consumers in turn.
CONSTANTS
    Claims = {c1, c2}
    Adjudications = {a1, a2}
    ClaimOf <- OneEach
    Amounts = {1}
    Stored <- MCStored
    Groups = {"settlement", "investigation", "supplier-recovery", "notification"}
    Deployments <- OneAtATime
    MaxEvents = 1
    MaxFaults = 2
    None = None
SPECIFICATION FairSpec
INVARIANTS AcknowledgedIsDone
PROPERTIES DepartmentsKept DecisionsArrive
\* Once every adjudication is decided and handled there is nothing left to do.
CHECK_DEADLOCK FALSE
