SPECIFICATION ServicesSpec
CONSTANTS
    Covered = {a}
    RingSize = 1
    MaxHours = 2
    Assets = {y, z}
    Absent = absent
    NaN = nan
    Statements <- StatedAmounts
    Constitution <- WithdrawalRules
    Ceiling <- TransferCeiling
    Treasury = 1
    DailyMax = 1
    AuditSize = 3
    MaxDays = 1
    Validators = 3
    PrimarySubnet = "primary"
    OtherSubnets = {"branch"}
    MaxEpochs = 2
    SigningKeys = {k1}
    AnyKey = "any"
    Policies = {"deny", "allow"}
    AuthorizationIds = {z1}
    SettlementKeys = {t1}
    AuthRequests = {"challenge"}
    ProofTTL = 1
    MaxProofs = 1
    MaxIdentityEvents = 3
    Networks = {"network"}
    AutoAllocate = TRUE
    MaxWaiting = 2
    MaxWrites = 2
    Subjects = {"subject"}
    Values = {"granted", "revoked"}
    MaxHistory = 2
    MaxBackups = 1
    MaxClaims = 3
    Wishes = {a}
    Roots = {r1, r2}
    Intents = {i1}
    Evidence = {e1}
    GrantIds = {g1, g2}
    Credentials = {k1, k2}
    Handoffs = {h1}
    TTL = 1
    MaxTime = 1
    FirstPasskey = k1
    Aliases = {x}
    Owners = {o1, o2}
    MaxCompletions = 2
    MaxAccounts = 2
    MaxPairings = 1
    Registrations = {q1, q2}
    Sellers = {s1, s2}
    Listings = {l1, l2}
    Nodes = {n1, n2}
    JoinIds = {j1, j2}
    Names = {d1}
    ClaimIds = {c1, c2, c3}
    Abouts = {b1, b2}
CHECK_DEADLOCK FALSE
INVARIANTS
    ServicesTypeOK
    
    DailyLimitKept
    ApprovalsExecuteOnce
    RegistrationsAreUnique
    LogsReplay
    NamespacesAreUnique
    RestoresAreTrue
    SnapshotsRebuildTheReplay
    DisclosedClaimsStand
    SettlementsAreExplained
PROPERTIES
    OverdueIntentsClose
    ReceiptsStand
    ProofsAreWorthOneUse
    OnlyReadySellersLaunch
