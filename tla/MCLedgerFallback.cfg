SPECIFICATION Spec
CONSTANTS
    alice = alice
    bob = bob
    admin = admin
    Backends = {"replicated"}
    Registrants = {alice}
    CapsuleOwners = {bob}
    Admin = admin
    InitialLedgers <- AdmittedOne
    None = None
    Torn = Torn
    MaxEvents = 4
    MaxEpoch = 0
    MaxBoots = 3
INVARIANTS
    HistorySuffices
CHECK_DEADLOCK FALSE
