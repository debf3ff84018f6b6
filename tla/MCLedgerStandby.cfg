SPECIFICATION Spec
CONSTANTS
    alice = alice
    bob = bob
    admin = admin
    Backends = {"replicated"}
    Registrants = {alice}
    CapsuleOwners = {bob}
    Admin = admin
    InitialLedgers <- AdmittedOne
    None = None
    Torn = Torn
    MaxEvents = 3
    MaxEpoch = 0
    MaxBoots = 2
PROPERTIES
    StandbyRejectsMutations
CHECK_DEADLOCK FALSE
