\* One claim.  Two invocations of the endpoint against one adjuster; and two
\* adjusters' requests against one invocation; with the departments downstream.
CONSTANTS
    Claims = {c1}
    Sources = {s1}
    Calls = {k1, k2}
    Requests = {r1, r2}
    Users = {u1, u2}
    NoUser = NoUser
    Amounts = {0, 1, 4, 8, 9, 10, 16}
    Stored <- MCStored
    Tolerance <- MCTolerance
    Claimed <- MCClaimed
    ApproveDispositions = {"CREDIT"}
    Attributable <- MCAttributable
    None = None
SPECIFICATION MCSpec
INVARIANTS IInv OneStory OverridesAreExplained SilverSafe CasesAreRuled
PROPERTIES FinalIsFinal LedgerKept
SYMMETRY StoreSymmetry
