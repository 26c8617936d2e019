\* Two adjudications of one claim, decided differently.
CONSTANTS
    Claims = {c1}
    Adjudications = {a1, a2}
    ClaimOf <- AllOfOne
    Amounts = {1, 3}
    Stored <- MCStored
    Groups = {"settlement"}
    Deployments <- OneAtATime
    MaxEvents = 2
    MaxFaults = 1
    None = None
SPECIFICATION Spec
PROPERTIES RedeliveryIsNoOp
\* Once every adjudication is decided and handled there is nothing left to do.
CHECK_DEADLOCK FALSE
