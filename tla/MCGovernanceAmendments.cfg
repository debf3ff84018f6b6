SPECIFICATION Spec
CONSTANTS
    withdrawal = withdrawal
    swap = swap
    ceiling = ceiling
    N = 3
    Policies = {withdrawal, swap}
    Rules = {ceiling}
    Genesis <- GenesisPolicies
    Changes <- ProposedChanges
    MaxProposals = 2
    MaxCrashes = 1
INVARIANTS
    AmendmentsHadAQuorum
    LawIsOne
    VotesDecide
PROPERTIES
    VerdictsStand
CHECK_DEADLOCK FALSE
