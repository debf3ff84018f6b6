-------------------------- MODULE RealmEventRegistry --------------------------
(***************************************************************************)
(* The contract of every canonical realm event, as src/node/               *)
(* realm-event-registry.js states it: which authority may issue the event, *)
(* which transitions it is valid for, and what it does to the projection   *)
(* CurrentAuthorityState.  The module is pure: it declares no variable.    *)
(* RealmPipeline and RealmReplication build their steps from Permits and   *)
(* ApplyEntry.                                                             *)
(*                                                                         *)
(* Names.  A device, a recovery authority and a session have an id and a   *)
(* reference (authorityRef), and the code matches a name against either.   *)
(* Nothing keeps an id apart from the reference of another record: filters *)
(* compare ids with ids and references with references, lookups take the   *)
(* first match of the list, and endings take every match.  A root goes by  *)
(* one name.  Public keys, capabilities, labels, timestamps and claim      *)
(* scopes are data no decision of this layer reads.                        *)
(***************************************************************************)
EXTENDS Naturals

CONSTANTS
    Roots,            \* names of root authorities
    Recoveries,       \* ids of recovery authorities
    RecoveryAliases,  \* authority references of recovery authorities
    DeviceIds,        \* device ids
    DeviceRefs,       \* device authority references
    Sessions,         \* session ids
    SessionRefs,      \* session authority references
    Realms,           \* remote realm ids
    RecoveryRefs,     \* references of recovery cases
    None              \* an absent value (null or undefined)

\* The absent value is not a name.  The sets of names may share members.
ASSUME NamesAssumption ==
    None \notin Roots \cup Recoveries \cup RecoveryAliases \cup DeviceIds \cup DeviceRefs
                \cup RecoveryRefs

DeviceNames   == DeviceIds \cup DeviceRefs
RecoveryNames == Recoveries \cup RecoveryAliases
SessionNames  == Sessions \cup SessionRefs

Signers == Roots \cup RecoveryNames \cup DeviceNames

-----------------------------------------------------------------------------
(* Event payloads: the fields the contracts read. *)

\* Any signer may create the first root; nothing depends on which one does, so it
\* is a root here.  Only a recovery authority's events carry a recovery reference
\* that is read.
RootCreated     == [type: {"ROOT_AUTHORITY_CREATED"}, signer: Roots, root: Roots]
RootRotated     == [type: {"AUTHORITY_ROTATED"}, signer: Signers, root: Roots]
DeviceIssued    ==
    [type: {"DEVICE_KEY_ISSUED"}, device: DeviceIds, ref: DeviceRefs,
     signer: Signers \ RecoveryNames, recoveryRef: {None}]
        \cup [type: {"DEVICE_KEY_ISSUED"}, device: DeviceIds, ref: DeviceRefs,
              signer: RecoveryNames, recoveryRef: RecoveryRefs]
DeviceRevoked   ==
    [type: {"DEVICE_KEY_REVOKED"}, target: DeviceNames,
     signer: Signers \ RecoveryNames, recoveryRef: {None}]
        \cup [type: {"DEVICE_KEY_REVOKED"}, target: DeviceNames,
              signer: RecoveryNames, recoveryRef: RecoveryRefs]
SessionIssued   == [type: {"SESSION_AUTHORITY_ISSUED"}, signer: Signers,
                    session: Sessions, ref: SessionRefs]
SessionExpired  == [type: {"SESSION_AUTHORITY_EXPIRED"}, signer: Signers, target: SessionNames]
RecoveryIssued  == [type: {"RECOVERY_AUTHORITY_ISSUED"}, signer: Signers,
                    recovery: Recoveries, ref: RecoveryAliases]
RecoveryRevoked == [type: {"RECOVERY_AUTHORITY_REVOKED"}, signer: Signers,
                    target: RecoveryNames]
RecoveryExecuted == [type: {"RECOVERY_EXECUTED"}, signer: Signers, recoveryRef: RecoveryRefs,
                     oldId: DeviceIds, oldRef: DeviceNames, newId: DeviceIds]
TrustEstablished == [type: {"FEDERATION_TRUST_ESTABLISHED"}, signer: Signers, realm: Realms]
TrustUpdated     == [type: {"FEDERATION_TRUST_UPDATED"}, signer: Signers, realm: Realms]
TrustRevoked     == [type: {"FEDERATION_TRUST_REVOKED"}, signer: Signers, realm: Realms]

Event == RootCreated \cup RootRotated \cup DeviceIssued \cup DeviceRevoked
         \cup SessionIssued \cup SessionExpired \cup RecoveryIssued \cup RecoveryRevoked
         \cup RecoveryExecuted \cup TrustEstablished \cup TrustUpdated \cup TrustRevoked

-----------------------------------------------------------------------------
(* CurrentAuthorityState. *)

\* A record of one of the projection's lists, with the sequence number of the event
\* that issued it: a list holds its records in that order.
Record(ids, refs, ended) == [id: ids, ref: refs, status: {"active", ended}, since: Nat]

Device   == Record(DeviceIds, DeviceRefs, "revoked")
Recovery == Record(Recoveries, RecoveryAliases, "revoked")
Session  == Record(Sessions, SessionRefs, "expired")

RecoveryCase == [recoveryRef: RecoveryRefs, oldId: DeviceIds, oldRef: DeviceNames,
                 newId: DeviceIds]

AuthorityState ==
    [root: Roots \cup {None},
     recoveries: SUBSET Recovery,
     devices: SUBSET Device,
     sessions: SUBSET Session,
     trusts: [Realms -> {"none", "active", "revoked"}],
     lastRecovery: RecoveryCase \cup {None},
     lastSequence: Nat]

EmptyAuthorityState ==
    [root         |-> None,
     recoveries   |-> {},
     devices      |-> {},
     sessions     |-> {},
     trusts       |-> [t \in Realms |-> "none"],
     lastRecovery |-> None,
     lastSequence |-> 0]

GoesBy(r, name) == name \in {r.id, r.ref}

\* find: the first record of the list that goes by the name.
FirstOf(records, name) ==
    {r \in records : /\ GoesBy(r, name)
                     /\ \A q \in records : GoesBy(q, name) => r.since <= q.since}

FindDevice(s, name) == FirstOf(s.devices, name)

IsActiveRoot(s, who)     == s.root = who
IsActiveDevice(s, who)   == \E d \in FindDevice(s, who) : d.status = "active"

\* Slip: a revoked recovery authority still counts as one.
IsKnownRecovery(s, who)  == \E r \in FirstOf(s.recoveries, who) : TRUE

IsActiveRecovery(s, who) == \E r \in FirstOf(s.recoveries, who) : r.status = "active"

-----------------------------------------------------------------------------
(* requiredAuthority: the policy of each event type. *)

RootEvents == {"AUTHORITY_ROTATED", "DEVICE_KEY_ISSUED", "DEVICE_KEY_REVOKED",
               "SESSION_AUTHORITY_ISSUED", "SESSION_AUTHORITY_EXPIRED",
               "RECOVERY_AUTHORITY_ISSUED", "RECOVERY_AUTHORITY_REVOKED",
               "FEDERATION_TRUST_ESTABLISHED", "FEDERATION_TRUST_UPDATED",
               "FEDERATION_TRUST_REVOKED"}
DeviceEvents   == {"DEVICE_KEY_REVOKED", "SESSION_AUTHORITY_ISSUED",
                   "SESSION_AUTHORITY_EXPIRED"}
RecoveryEvents == {"RECOVERY_EXECUTED", "DEVICE_KEY_ISSUED", "DEVICE_KEY_REVOKED"}

\* Slip: the policy of the root's events lets devices sign them too.
CanIssueAsRootOrDevice(s, signer, type) ==
    \/ type = "ROOT_AUTHORITY_CREATED" /\ s.root = None
    \/ type \in RootEvents /\ (IsActiveRoot(s, signer) \/ IsActiveDevice(s, signer))
    \/ type \in RecoveryEvents /\ IsActiveRecovery(s, signer)

CanIssue(s, signer, type) ==
    \/ type = "ROOT_AUTHORITY_CREATED" /\ s.root = None
    \/ type \in RootEvents /\ IsActiveRoot(s, signer)
    \/ type \in DeviceEvents /\ IsActiveDevice(s, signer)
    \/ type \in RecoveryEvents /\ IsActiveRecovery(s, signer)

-----------------------------------------------------------------------------
(* validateTransition of the contracts that have one. *)

\* Slip: the recovery reference is not compared.
InSomeRecoveryCase(s, e) == s.lastRecovery # None

\* The event belongs to the recovery case recorded in lastRecovery, which no
\* event ever clears.
InRecoveryCase(s, e) ==
    s.lastRecovery # None /\ s.lastRecovery.recoveryRef = e.recoveryRef

ValidDeviceIssued(s, e) ==
    \/ IsActiveRoot(s, e.signer)
    \/ InRecoveryCase(s, e) /\ s.lastRecovery.newId = e.device

\* A device that is neither root nor recovery authority revokes a name of its own; a
\* recovery authority only the old device of the recovery case.
ValidDeviceRevoked(s, e) ==
    \E d \in FindDevice(s, e.target) :
        /\ d.status = "active"
        /\ \/ IsActiveRoot(s, e.signer)
           \/ IsActiveRecovery(s, e.signer)
           \/ \E own \in FindDevice(s, e.signer) : GoesBy(own, e.target)
        /\ IsActiveRecovery(s, e.signer) =>
              /\ InRecoveryCase(s, e)
              /\ s.lastRecovery.oldId = d.id \/ s.lastRecovery.oldRef = d.ref

ValidRecoveryIssued(s, e)  == ~ IsActiveRecovery(s, e.recovery)
ValidRecoveryRevoked(s, e) == IsActiveRecovery(s, e.target)

\* Slip: the replacement may be active already.
ValidRecoveryExecutedOfAny(s, e) == IsActiveDevice(s, e.oldId)

ValidRecoveryExecuted(s, e) ==
    /\ IsActiveDevice(s, e.oldId)
    /\ ~ IsActiveDevice(s, e.newId)

ValidTransition(s, e) ==
    /\ e.type = "ROOT_AUTHORITY_CREATED"     => s.root = None
    /\ e.type = "DEVICE_KEY_ISSUED"          => ValidDeviceIssued(s, e)
    /\ e.type = "DEVICE_KEY_REVOKED"         => ValidDeviceRevoked(s, e)
    /\ e.type = "RECOVERY_AUTHORITY_ISSUED"  => ValidRecoveryIssued(s, e)
    /\ e.type = "RECOVERY_AUTHORITY_REVOKED" => ValidRecoveryRevoked(s, e)
    /\ e.type = "RECOVERY_EXECUTED"          => ValidRecoveryExecuted(s, e)

Permits(s, e) == CanIssue(s, e.signer, e.type) /\ ValidTransition(s, e)

-----------------------------------------------------------------------------
(* apply: the projection after the event, field by field. *)

\* Slip: a rotation leaves the old root in place.
RootAfterCreationOnly(s, e) ==
    IF e.type = "ROOT_AUTHORITY_CREATED" THEN e.root ELSE s.root

RootAfter(s, e) ==
    IF e.type \in {"ROOT_AUTHORITY_CREATED", "AUTHORITY_ROTATED"} THEN e.root ELSE s.root

NewRecord(id, ref, since) ==
    [id |-> id, ref |-> ref, status |-> "active", since |-> since]

\* Slip: only the record with the same id makes way.
WithRecordById(records, new) == {r \in records : r.id # new.id} \cup {new}

\* The new record takes the place of every record that has its id or its
\* reference, whatever their status.
WithRecord(records, new) ==
    {r \in records : r.id # new.id /\ r.ref # new.ref} \cup {new}

\* Slip: only ids are compared.
EndedById(records, name, ended) ==
    {IF r.id = name THEN [r EXCEPT !.status = ended] ELSE r : r \in records}

\* Every record that goes by the name ends.
Ended(records, name, ended) ==
    {IF GoesBy(r, name) THEN [r EXCEPT !.status = ended] ELSE r : r \in records}

DevicesAfter(s, e, sequence) ==
    IF e.type = "DEVICE_KEY_ISSUED"
    THEN WithRecord(s.devices, NewRecord(e.device, e.ref, sequence))
    ELSE IF e.type = "DEVICE_KEY_REVOKED" THEN Ended(s.devices, e.target, "revoked")
    ELSE s.devices

RecoveriesAfter(s, e, sequence) ==
    IF e.type = "RECOVERY_AUTHORITY_ISSUED"
    THEN WithRecord(s.recoveries, NewRecord(e.recovery, e.ref, sequence))
    ELSE IF e.type = "RECOVERY_AUTHORITY_REVOKED" THEN Ended(s.recoveries, e.target, "revoked")
    ELSE s.recoveries

\* A new session takes the place of the one with its id only.
SessionsAfter(s, e, sequence) ==
    IF e.type = "SESSION_AUTHORITY_ISSUED"
    THEN {x \in s.sessions : x.id # e.session} \cup {NewRecord(e.session, e.ref, sequence)}
    ELSE IF e.type = "SESSION_AUTHORITY_EXPIRED" THEN Ended(s.sessions, e.target, "expired")
    ELSE s.sessions

\* An update revives a revoked trust; revoking what was never established does nothing.
TrustsAfter(s, e) ==
    [x \in Realms |->
        IF /\ e.type \in {"FEDERATION_TRUST_ESTABLISHED", "FEDERATION_TRUST_UPDATED"}
           /\ e.realm = x
        THEN "active"
        ELSE IF e.type = "FEDERATION_TRUST_REVOKED" /\ e.realm = x /\ s.trusts[x] # "none"
        THEN "revoked"
        ELSE s.trusts[x]]

LastRecoveryAfter(s, e) ==
    IF e.type = "RECOVERY_EXECUTED"
    THEN [recoveryRef |-> e.recoveryRef, oldId |-> e.oldId, oldRef |-> e.oldRef,
          newId |-> e.newId]
    ELSE s.lastRecovery

\* One event of the log: applyAuthorityEvent, which also records its sequence.
ApplyEntry(s, entry) ==
    [root         |-> RootAfter(s, entry.event),
     recoveries   |-> RecoveriesAfter(s, entry.event, entry.sequence),
     devices      |-> DevicesAfter(s, entry.event, entry.sequence),
     sessions     |-> SessionsAfter(s, entry.event, entry.sequence),
     trusts       |-> TrustsAfter(s, entry.event),
     lastRecovery |-> LastRecoveryAfter(s, entry.event),
     lastSequence |-> entry.sequence]

=============================================================================
