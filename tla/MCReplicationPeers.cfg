SPECIFICATION Spec
CONSTANTS
    root1 = root1
    root2 = root2
    phone = phone
    refA = refA
    web = web
    webRef = webRef
    remote = remote
    Roots = {root1, root2}
    Recoveries = {}
    RecoveryAliases = {}
    DeviceIds = {phone}
    DeviceRefs = {refA}
    Sessions = {web}
    SessionRefs = {webRef}
    Realms = {remote}
    RecoveryRefs = {}
    None = None
    SourceEvents <- FewOwnEvents
    PeerEvents <- ForeignEvents
    LocalCommands <- ClientCommands
    Deliveries = {delivery1}
    CommandIds = {command1}
    MaxEvents = 3
    MaxBatches = 2
    MaxRestarts = 1
INVARIANTS
    HashContinuity
    AnswersAreTrue
    RefusalsStand
PROPERTIES
    NoParallelWritePath
    RetriesAreAnsweredAlike
