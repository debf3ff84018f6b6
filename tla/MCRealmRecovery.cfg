SPECIFICATION Spec
CONSTANTS
    Roots = {root1}
    Recoveries = {guardian}
    RecoveryAliases = {guardian}
    DeviceIds = {phone, tablet}
    DeviceRefs = {phone, refA}
    Sessions = {}
    SessionRefs = {}
    Realms = {}
    RecoveryRefs = {case1, case2}
    None = None
    MaxEvents = 6
    MaxCrashes = 1
    ProposedTypes <- RecoveryTypes
INVARIANTS
    ProjectionIsReplay
    LegalHistory
    SignersWereAuthorized
    
    DevicesAreFound
    CeremonyKeepsADevice
PROPERTIES
    CompletedCeremonyReplacesDevice
