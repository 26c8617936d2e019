\* An adjuster decides on an amount that is not in whole cents.
CONSTANTS
    Claims = {c1}
    Sources = {s1}
    Calls = {k1}
    Requests = {r1}
    Users = {u1}
    NoUser = NoUser
    Amounts = {0, 4, 8}
    Stored <- MCStored
    Tolerance <- MCTolerance
    Claimed <- MCClaimed
    ApproveDispositions = {"CREDIT"}
SPECIFICATION Spec
INVARIANTS OneAmount
