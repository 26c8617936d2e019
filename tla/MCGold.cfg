\* An adjuster denies a claim at an amount that passes for nothing.
CONSTANTS
    Claims = {c1}
    Sources = {s1}
    Calls = {k1}
    Requests = {r1}
    Users = {u1}
    NoUser = NoUser
    Amounts = {0, 1, 8}
    Stored <- MCStored
    Tolerance <- MCTolerance
    Claimed <- MCClaimed
    ApproveDispositions = {"CREDIT"}
SPECIFICATION Spec
INVARIANTS MedallionSafe
