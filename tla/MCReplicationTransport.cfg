SPECIFICATION Spec
CONSTANTS
    root1 = root1
    root2 = root2
    phone = phone
    refA = refA
    web = web
    webRef = webRef
    remote = remote
    Roots = {root1, root2}
    Recoveries = {}
    RecoveryAliases = {}
    DeviceIds = {phone}
    DeviceRefs = {refA}
    Sessions = {}
    SessionRefs = {}
    Realms = {}
    RecoveryRefs = {}
    None = None
    SourceEvents <- OwnEvents
    PeerEvents = {}
    LocalCommands = {}
    Deliveries = {delivery1}
    CommandIds = {}
    MaxEvents = 3
    MaxBatches = 3
    MaxRestarts = 1
INVARIANTS
    ReplicaCanCatchUp
PROPERTIES
    TracksSource
