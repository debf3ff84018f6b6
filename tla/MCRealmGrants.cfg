SPECIFICATION Spec
CONSTANTS
    Roots = {root1, root2}
    Recoveries = {guardian}
    RecoveryAliases = {guardian, helper}
    DeviceIds = {phone}
    DeviceRefs = {refA}
    Sessions = {session1}
    SessionRefs = {session1, refS}
    Realms = {realmB}
    RecoveryRefs = {}
    None = None
    MaxEvents = 5
    MaxCrashes = 1
    ProposedTypes <- GrantTypes
INVARIANTS
    ActiveAuthoritiesAreIssued
    GrantsFollowTheLog
PROPERTIES
    RolesAreConfined
