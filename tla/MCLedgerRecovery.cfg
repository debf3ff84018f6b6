SPECIFICATION Spec
CONSTANTS
    alice = alice
    bob = bob
    admin = admin
    Backends = {"file", "replicated"}
    Registrants = {alice}
    CapsuleOwners = {bob}
    Admin = admin
    InitialLedgers <- AllLedgers
    None = None
    Torn = Torn
    MaxEvents = 3
    MaxEpoch = 1
    MaxBoots = 3
INVARIANTS
    AnsweredEventsSurvive
    LiveStateIsReplay
    RefusalsAreExplained
PROPERTIES
    StandbyBootsAPastState
CHECK_DEADLOCK FALSE
