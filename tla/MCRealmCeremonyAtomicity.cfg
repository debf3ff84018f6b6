SPECIFICATION Spec
CONSTANTS
    Roots = {root1}
    Recoveries = {guardian}
    RecoveryAliases = {guardian}
    DeviceIds = {phone, tablet}
    DeviceRefs = {refA, refB}
    Sessions = {}
    SessionRefs = {}
    Realms = {}
    RecoveryRefs = {case1}
    None = None
    MaxEvents = 6
    MaxCrashes = 0
    ProposedTypes <- CeremonyTypes
PROPERTIES
    FailedCeremonyLeavesNoMutation
