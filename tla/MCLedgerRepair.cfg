SPECIFICATION Spec
CONSTANTS
    alice = alice
    bob = bob
    admin = admin
    Backends = {"file"}
    Registrants = {alice}
    CapsuleOwners = {bob}
    Admin = admin
    InitialLedgers <- NewLedger
    None = None
    Torn = Torn
    MaxEvents = 4
    MaxEpoch = 0
    MaxBoots = 3
PROPERTIES
    RepairedLedgerBoots
CHECK_DEADLOCK FALSE
