------------------------------ MODULE NodeServices ------------------------------
(***************************************************************************)
(* The services of a node beside its realm.  They share the process and    *)
(* its clock, and none reads or writes what belongs to another, so a       *)
(* behaviour is one of a single service: family says whose.  The           *)
(* registration of identities is extended, the others are instances; a     *)
(* constant is described in the module of the service it is for.  Backups  *)
(* come with their proofs, which NodeServicesProofs cites.                 *)
(***************************************************************************)
EXTENDS ConnectRegistration, Sequences

CONSTANTS
    Wishes, Covered, RingSize, MaxHours,
    Assets, Absent, NaN, Statements, Constitution, Ceiling, Treasury, DailyMax,
    AuditSize, MaxDays,
    Validators, Roots, Intents, Evidence, PrimarySubnet, OtherSubnets, MaxEpochs,
    GrantIds, SigningKeys, AnyKey, Policies, AuthorizationIds, SettlementKeys,
    FirstPasskey, AuthRequests, ProofTTL, MaxProofs,
    Sellers, Listings,
    Nodes, MaxIdentityEvents,
    JoinIds, Networks, Names, AutoAllocate, MaxWaiting, MaxWrites,
    Subjects, Values, MaxHistory, MaxBackups,
    ClaimIds, Abouts, MaxClaims

VARIABLES
    family,
    hour, intents, stream, sent,
    day, audit,
    epochs, subnets, federationRoot, receipts,
    grants, authorizations, externalProofs, settled, settlements,
    deadline, bindings, keys, approvals, executions,
    passkeys, authChallenges, verifying, session, identityProofs, codes, tokens, consumedProofs,
    sellers, listings,
    log, identity, capsules, running, mail, made,
    store, waiting, dns, writes,
    history, records, backups, restored,
    claimHistory

I == INSTANCE SettlementIntents
P == INSTANCE SettlementPolicy WITH Accounts <- Owners
F == INSTANCE SettlementFederation WITH
        N <- Validators, Proofs <- Evidence, Primary <- PrimarySubnet, Others <- OtherSubnets
A == INSTANCE AuthorityRuntime WITH
        Keys <- SigningKeys, References <- Evidence, proofs <- externalProofs
N == INSTANCE IntentApprovals WITH consumed <- executions
C == INSTANCE ConnectProofs WITH
        Passkeys <- Credentials, Primary <- FirstPasskey, Challenges <- AuthRequests,
        challenges <- authChallenges, proofs <- identityProofs, consumed <- consumedProofs
M == INSTANCE MarketplaceSellers
E == INSTANCE IdentityEvents WITH
        Keys <- Credentials, Primary <- FirstPasskey, MaxEvents <- MaxIdentityEvents,
        restored <- capsules
J == INSTANCE NetworkJoin WITH Ids <- JoinIds
B == INSTANCE RealmBackupsProofs WITH MaxEvents <- MaxHistory
L == INSTANCE SubjectClaims

ASSUME ServicesAssumption ==
    /\ I!SettlementAssumption /\ P!PolicyAssumption /\ F!FederationAssumption
    /\ A!AuthorityAssumption /\ N!ApprovalAssumption /\ C!ProofsAssumption
    /\ E!IdentityAssumption /\ J!JoinAssumption /\ B!BackupsAssumption /\ L!ClaimsAssumption

-----------------------------------------------------------------------------

iVars == <<hour, intents, stream, sent>>
pVars == <<day, audit>>
fVars == <<epochs, subnets, federationRoot, receipts>>
aVars == <<grants, authorizations, externalProofs, settled, settlements>>
nVars == <<deadline, bindings, keys, approvals, executions>>
rVars == <<reservations, challenges, handoffs, completing, accounts, pairings>>
cVars == <<passkeys, authChallenges, verifying, session, identityProofs, codes, tokens,
           consumedProofs>>
mVars == <<sellers, listings>>
eVars == <<log, identity, capsules, running, mail, made>>
jVars == <<store, waiting, dns, writes>>
bVars == <<history, records, backups, restored>>
lVars == <<claimHistory>>

servicesVars ==
    <<family, now, iVars, pVars, fVars, aVars, nVars, rVars, cVars, mVars, eVars, jVars, bVars,
      lVars>>

\* Only the service of the family has more than one initial state.
ServicesInit ==
    /\ family \in {"intents", "policy", "federation", "authority", "approvals",
                   "registration", "proofs", "sellers", "events", "join", "backups", "claims"}
    /\ now = 0
    /\ I!Init /\ P!Init
    /\ F!Init /\ (family = "federation" \/ epochs = <<CHOOSE root \in Roots : TRUE>>)
    /\ A!Init
    /\ N!Init /\ (family = "approvals" \/ DOMAIN keys \cup DOMAIN bindings = {})
    /\ Init /\ C!Init /\ M!Init /\ E!Init /\ J!Init /\ B!Init /\ L!Init

ServicesNext ==
    \/ /\ family = "intents" /\ I!Next
       /\ UNCHANGED <<family, now, pVars, fVars, aVars, nVars, rVars, cVars,
                     mVars, eVars, jVars, bVars, lVars>>
    \/ /\ family = "policy" /\ P!Next
       /\ UNCHANGED <<family, now, iVars, fVars, aVars, nVars, rVars, cVars,
                     mVars, eVars, jVars, bVars, lVars>>
    \/ /\ family = "federation" /\ F!Next
       /\ UNCHANGED <<family, now, iVars, pVars, aVars, nVars, rVars, cVars,
                     mVars, eVars, jVars, bVars, lVars>>
    \/ /\ family = "authority" /\ A!Next
       /\ UNCHANGED <<family, iVars, pVars, fVars, nVars, rVars, cVars, mVars,
                     eVars, jVars, bVars, lVars>>
    \/ /\ family = "approvals" /\ N!Next
       /\ UNCHANGED <<family, iVars, pVars, fVars, aVars, rVars, cVars, mVars,
                     eVars, jVars, bVars, lVars>>
    \/ /\ family = "registration" /\ Next
       /\ UNCHANGED <<family, iVars, pVars, fVars, aVars, nVars, cVars, mVars,
                     eVars, jVars, bVars, lVars>>
    \/ /\ family = "proofs" /\ C!Next
       /\ UNCHANGED <<family, iVars, pVars, fVars, aVars, nVars, rVars, mVars,
                     eVars, jVars, bVars, lVars>>
    \/ /\ family = "sellers" /\ M!Next
       /\ UNCHANGED <<family, now, iVars, pVars, fVars, aVars, nVars, rVars,
                     cVars, eVars, jVars, bVars, lVars>>
    \/ /\ family = "events" /\ E!Next
       /\ UNCHANGED <<family, now, iVars, pVars, fVars, aVars, nVars, rVars,
                     cVars, mVars, jVars, bVars, lVars>>
    \/ /\ family = "join" /\ J!Next
       /\ UNCHANGED <<family, now, iVars, pVars, fVars, aVars, nVars, rVars,
                     cVars, mVars, eVars, bVars, lVars>>
    \/ /\ family = "backups" /\ B!Next
       /\ UNCHANGED <<family, now, iVars, pVars, fVars, aVars, nVars, rVars,
                     cVars, mVars, eVars, jVars, lVars>>
    \/ /\ family = "claims" /\ L!Next
       /\ UNCHANGED <<family, now, iVars, pVars, fVars, aVars, nVars, rVars,
                     cVars, mVars, eVars, jVars, bVars>>

\* The interval of the sweep keeps firing, as SettlementIntents has it.
ServicesSpec ==
    /\ ServicesInit /\ [][ServicesNext]_servicesVars
    /\ WF_iVars(family = "intents" /\ I!ExpireStale)

-----------------------------------------------------------------------------

\* The types of the services' records.
ServicesTypeOK ==
    /\ I!TypeOK /\ P!TypeOK /\ F!TypeOK /\ A!TypeOK /\ N!TypeOK /\ TypeOK
    /\ C!TypeOK /\ M!TypeOK /\ E!TypeOK /\ J!TypeOK /\ B!TypeOK /\ L!TypeOK

\* A verdict on an intent is final (SettlementIntents).
VerdictsAreFinal == I!VerdictsAreFinal

\* Overdue intents are closed by the sweep (SettlementIntents).
OverdueIntentsClose == I!OverdueIntentsClose

\* Withdrawals that pass stay within the limit of the day (SettlementPolicy).
DailyLimitKept == P!DailyLimitKept

\* Receipts stay as issued and verifiable (SettlementFederation).
ReceiptsStand == F!ReceiptsStand

\* Settlements on recorded authorizations can be explained (AuthorityRuntime).
SettlementsAreExplained == A!SettlementsAreExplained

\* An approval executes once in a life of the process (IntentApprovals).
ApprovalsExecuteOnce == N!ApprovalsExecuteOnce

\* Proofs are exchanged and answered for once (ConnectProofs).
ProofsAreWorthOneUse == C!ProofsAreWorthOneUse

\* Sellers launch with what it takes (MarketplaceSellers).
OnlyReadySellersLaunch == M!OnlyReadySellersLaunch

\* What a node has logged gives its identity back (IdentityEvents).
LogsReplay == E!LogsReplay

\* Names and requests are stored once, whatever overlaps (NetworkJoin).
NamespacesAreUnique == J!NamespacesAreUnique

\* Restores are true, and snapshots that verify rebuild the replay (RealmBackups).
RestoresAreTrue == B!RestoresAreTrue
SnapshotsRebuildTheReplay == B!SnapshotsRebuildTheReplay

\* Proofs disclose claims that stand (SubjectClaims).
DisclosedClaimsStand == L!DisclosedClaimsStand

=============================================================================
