----------------------------- MODULE RealmPipeline -----------------------------
(***************************************************************************)
(* One realm: the canonical event log, the projection derived from it, and *)
(* the ways an event gets in.  acceptAndApplyRealmEvent validates a        *)
(* proposal and applies it; executeRecoveryCeremony pushes three proposals *)
(* through it one by one; a restart rebuilds the projection from the log,  *)
(* event by event, without validating the events again.                    *)
(*                                                                         *)
(* A proposal may be old, early or a duplicate: any sequence number and    *)
(* any previous hash may be claimed in any state.  A rejected proposal     *)
(* changes nothing and is a stuttering step.  The node runs one handler at *)
(* a time, so nothing interleaves with a ceremony but a crash.             *)
(*                                                                         *)
(* The hash of the last event is represented by its position: events are   *)
(* never removed and the hash covers all of them, so on one log the two    *)
(* determine each other (RealmReplication compares hashes of two logs).    *)
(***************************************************************************)
EXTENDS RealmEventRegistry, Sequences

CONSTANTS
    ProposedTypes,  \* the event types proposed in a run
    MaxEvents,      \* bound on the length of the log
    MaxCrashes      \* bound on the number of crashes

ASSUME BoundsAssumption == MaxEvents \in Nat /\ MaxCrashes \in Nat

VARIABLES
    event_log,    \* ledger.event_log, as the store keeps it
    authority,    \* ledger.current_authority_state
    mode,         \* "live", or "booting" while history is replayed
    cursor,       \* events replayed by the boot in progress
    ceremony,     \* the recovery ceremony being executed, or None
    crashes,      \* crashes so far
    projections   \* history variable: projections[i + 1] is the projection
                  \* the node held when it had accepted i events

vars == <<event_log, authority, mode, cursor, ceremony, crashes, projections>>

LogEntry == [event: Event, sequence: Nat]

Ceremony == [signer: RecoveryNames, recoveryRef: RecoveryRefs, oldId: DeviceIds,
             newId: DeviceIds, newRef: DeviceRefs, keyed: BOOLEAN,
             start: Nat, next: {"issue", "revoke"}]

Init ==
    /\ event_log = <<>>
    /\ authority = EmptyAuthorityState
    /\ mode = "live"
    /\ cursor = 0
    /\ ceremony = None
    /\ crashes = 0
    /\ projections = <<EmptyAuthorityState>>

-----------------------------------------------------------------------------
(* Acceptance. *)

\* Slip: a proposal may skip sequence numbers.
InSequenceWithGaps(sequence, previous) ==
    /\ sequence > authority.lastSequence
    /\ previous \in {None, Len(event_log)}

\* validateSequence and validatePreviousEventHash: the sequence must be the next
\* one; a previous hash is compared only when the proposal has one.
InSequence(sequence, previous) ==
    /\ sequence = authority.lastSequence + 1
    /\ previous \in {None, Len(event_log)}

\* What acceptAndApplyRealmEvent does with a proposal the validator accepts.
AppendAndApply(e, sequence) ==
    LET entry == [event |-> e, sequence |-> sequence]
        next  == ApplyEntry(authority, entry)
    IN  /\ Len(event_log) < MaxEvents
        /\ event_log' = Append(event_log, entry)
        /\ authority' = next
        /\ projections' = Append(projections, next)

Accept(e, sequence, previous) ==
    /\ InSequence(sequence, previous)
    /\ Permits(authority, e)
    /\ AppendAndApply(e, sequence)

\* A proposal of one of the given events, made by anyone, at any time.
Propose(events) ==
    /\ mode = "live"
    /\ ceremony = None
    /\ \E sequence \in 1 .. MaxEvents, previous \in {None} \cup 0 .. MaxEvents :
          /\ InSequence(sequence, previous)
          /\ \E e \in events :
                /\ e.type \in ProposedTypes
                /\ Accept(e, sequence, previous)
    /\ UNCHANGED <<mode, cursor, ceremony, crashes>>

\* A proposal that is out of sequence is refused, like one the registry does not
\* permit; nothing changes.
RejectProposal ==
    /\ mode = "live"
    /\ ceremony = None
    /\ \E sequence \in 1 .. MaxEvents, previous \in {None} \cup 0 .. MaxEvents :
          ~ InSequence(sequence, previous)
    /\ UNCHANGED vars

CreateRoot             == Propose(RootCreated)
RotateAuthority        == Propose(RootRotated)
IssueDeviceKey         == Propose(DeviceIssued)
RevokeDeviceKey        == Propose(DeviceRevoked)
IssueSession           == Propose(SessionIssued)
ExpireSession          == Propose(SessionExpired)
IssueRecoveryAuthority == Propose(RecoveryIssued)
RevokeRecoveryAuthority == Propose(RecoveryRevoked)
ExecuteRecovery        == Propose(RecoveryExecuted)
EstablishTrust         == Propose(TrustEstablished)
UpdateTrust            == Propose(TrustUpdated)
RevokeTrust            == Propose(TrustRevoked)

-----------------------------------------------------------------------------
(* The recovery ceremony: RECOVERY_EXECUTED, then DEVICE_KEY_ISSUED for the   *)
(* new device, then DEVICE_KEY_REVOKED for the old one, with consecutive      *)
(* sequence numbers.  A rejected proposal ends it; what was accepted stays.   *)

CeremonyExecution(c, oldRef) ==
    [type |-> "RECOVERY_EXECUTED", signer |-> c.signer, recoveryRef |-> c.recoveryRef,
     oldId |-> c.oldId, oldRef |-> oldRef, newId |-> c.newId]

\* Slip: the old device is revoked before the new one is issued.
CeremonyRevokeFirst(c) ==
    [type |-> "DEVICE_KEY_REVOKED", signer |-> c.signer, target |-> c.oldId,
     recoveryRef |-> c.recoveryRef]

CeremonyIssue(c) ==
    [type |-> "DEVICE_KEY_ISSUED", signer |-> c.signer, device |-> c.newId,
     ref |-> c.newRef, recoveryRef |-> c.recoveryRef]

CeremonyRevoke(c) ==
    [type |-> "DEVICE_KEY_REVOKED", signer |-> c.signer, target |-> c.oldId,
     recoveryRef |-> c.recoveryRef]

\* The first proposal is accepted.  (If it is rejected, nothing has happened.)
BeginCeremony ==
    /\ "RECOVERY_CEREMONY" \in ProposedTypes
    /\ mode = "live"
    /\ ceremony = None
    /\ Len(event_log) + 3 <= MaxEvents
    /\ \E c \in [signer: RecoveryNames, recoveryRef: RecoveryRefs, oldId: DeviceIds,
                 newId: DeviceIds, newRef: DeviceRefs, keyed: BOOLEAN,
                 start: {authority.lastSequence + 1}, next: {"issue"}] :
          /\ \E d \in FindDevice(authority, c.oldId) :
                Accept(CeremonyExecution(c, d.ref), c.start, None)
          /\ ceremony' = c
    /\ UNCHANGED <<mode, cursor, crashes>>

\* validatePayload: DEVICE_KEY_ISSUED requires a public key, which the caller
\* may not have given for the new device.
IssueAccepted(c)  == c.keyed /\ Permits(authority, CeremonyIssue(c))
RevokeAccepted(c) == Permits(authority, CeremonyRevoke(c))

CeremonyIssuesDevice ==
    /\ ceremony # None
    /\ ceremony.next = "issue"
    /\ IssueAccepted(ceremony)
    /\ Accept(CeremonyIssue(ceremony), ceremony.start + 1, None)
    /\ ceremony' = [ceremony EXCEPT !.next = "revoke"]
    /\ UNCHANGED <<mode, cursor, crashes>>

CeremonyRevokesDevice ==
    /\ ceremony # None
    /\ ceremony.next = "revoke"
    /\ Accept(CeremonyRevoke(ceremony), ceremony.start + 2, None)
    /\ ceremony' = None
    /\ UNCHANGED <<mode, cursor, crashes>>

\* A proposal of the ceremony is rejected: the result is ok = false.
CeremonyFails ==
    /\ ceremony # None
    /\ \/ ceremony.next = "issue" /\ ~ IssueAccepted(ceremony)
       \/ ceremony.next = "revoke" /\ ~ RevokeAccepted(ceremony)
    /\ ceremony' = None
    /\ UNCHANGED <<event_log, authority, mode, cursor, crashes, projections>>

-----------------------------------------------------------------------------
(* Crash and restart.  The log survives; the projection is rebuilt from it.   *)

\* Slip: the restart applies the log to a projection it did not empty.
CrashKeepingProjection ==
    /\ crashes < MaxCrashes
    /\ mode' = "booting"
    /\ cursor' = 0
    /\ ceremony' = None
    /\ crashes' = crashes + 1
    /\ UNCHANGED <<event_log, authority, projections>>

Crash ==
    /\ crashes < MaxCrashes
    /\ mode' = "booting"
    /\ cursor' = 0
    /\ authority' = EmptyAuthorityState
    /\ ceremony' = None
    /\ crashes' = crashes + 1
    /\ UNCHANGED <<event_log, projections>>

ReplayEvent ==
    /\ mode = "booting"
    /\ cursor < Len(event_log)
    /\ authority' = ApplyEntry(authority, event_log[cursor + 1])
    /\ cursor' = cursor + 1
    /\ UNCHANGED <<event_log, mode, ceremony, crashes, projections>>

FinishBoot ==
    /\ mode = "booting"
    /\ cursor = Len(event_log)
    /\ mode' = "live"
    /\ cursor' = 0
    /\ UNCHANGED <<event_log, authority, ceremony, crashes, projections>>

-----------------------------------------------------------------------------
Next ==
    \/ RejectProposal
    \/ CreateRoot \/ RotateAuthority
    \/ IssueDeviceKey \/ RevokeDeviceKey
    \/ IssueSession \/ ExpireSession
    \/ IssueRecoveryAuthority \/ RevokeRecoveryAuthority \/ ExecuteRecovery
    \/ EstablishTrust \/ UpdateTrust \/ RevokeTrust
    \/ BeginCeremony \/ CeremonyIssuesDevice \/ CeremonyRevokesDevice \/ CeremonyFails
    \/ Crash \/ ReplayEvent \/ FinishBoot

Spec == Init /\ [][Next]_vars

-----------------------------------------------------------------------------
(* Properties.                                                                *)

\* Every variable has the shape the code gives it.
TypeOK ==
    /\ event_log \in Seq(LogEntry)
    /\ authority \in AuthorityState
    /\ mode \in {"live", "booting"}
    /\ cursor \in 0 .. Len(event_log)
    /\ ceremony \in Ceremony \cup {None}
    /\ crashes \in 0 .. MaxCrashes
    /\ projections \in Seq(AuthorityState)

\* The history variable is the replay of the log: it starts from the empty
\* projection and each entry takes one projection to the next.
ReplayOfLog ==
    /\ Len(projections) = Len(event_log) + 1
    /\ projections[1] = EmptyAuthorityState
    /\ \A i \in 1 .. Len(event_log) :
          projections[i + 1] = ApplyEntry(projections[i], event_log[i])

\* "If replay and stored projection disagree, replay wins": they never disagree.
\* A live node, whatever crashed before, mid-ceremony and mid-boot included,
\* holds the replay of its whole log; a booting one, of the part it has read.
ProjectionIsReplay ==
    /\ ReplayOfLog
    /\ authority = projections[IF mode = "live" THEN Len(event_log) + 1 ELSE cursor + 1]

\* Replay does not validate again, so the log must hold no event that the
\* projection of the events before it does not permit, in gapless sequence.
LegalHistory ==
    /\ Len(projections) = Len(event_log) + 1
    /\ \A i \in 1 .. Len(event_log) :
          /\ event_log[i].sequence = i
          /\ Permits(projections[i], event_log[i].event)

(* The next properties read the log alone, without the projection.            *)

TrustTypes == {"FEDERATION_TRUST_ESTABLISHED", "FEDERATION_TRUST_UPDATED",
               "FEDERATION_TRUST_REVOKED"}

\* The root after the first i events of a log.
IsRootAt(log, who, i) ==
    \E j \in 1 .. i :
        /\ log[j].event.type \in {"ROOT_AUTHORITY_CREATED", "AUTHORITY_ROTATED"}
        /\ log[j].event.root = who
        /\ \A k \in j + 1 .. i :
              log[k].event.type \notin {"ROOT_AUTHORITY_CREATED", "AUTHORITY_ROTATED"}

\* The record a log's j-th event made, of a device, a recovery authority or a session.
DeviceOf(log, j)   == NewRecord(log[j].event.device, log[j].event.ref, j)
RecoveryOf(log, j) == NewRecord(log[j].event.recovery, log[j].event.ref, j)
SessionOf(log, j)  == NewRecord(log[j].event.session, log[j].event.ref, j)

\* The event e ends the record: it revokes it by one of its names, or issues another
\* under its id or its reference.
EndsDevice(d, e) ==
    \/ e.type = "DEVICE_KEY_REVOKED" /\ GoesBy(d, e.target)
    \/ e.type = "DEVICE_KEY_ISSUED" /\ (e.device = d.id \/ e.ref = d.ref)

EndsRecovery(r, e) ==
    \/ e.type = "RECOVERY_AUTHORITY_REVOKED" /\ GoesBy(r, e.target)
    \/ e.type = "RECOVERY_AUTHORITY_ISSUED" /\ (e.recovery = r.id \/ e.ref = r.ref)

EndsSession(x, e) ==
    \/ e.type = "SESSION_AUTHORITY_EXPIRED" /\ GoesBy(x, e.target)
    \/ e.type = "SESSION_AUTHORITY_ISSUED" /\ e.session = x.id

\* The records the first i events of a log issued and did not end.
DevicesAt(log, i) ==
    {DeviceOf(log, j) : j \in
        {j \in 1 .. i : /\ log[j].event.type = "DEVICE_KEY_ISSUED"
                       /\ \A k \in j + 1 .. i : ~ EndsDevice(DeviceOf(log, j), log[k].event)}}

RecoveriesAt(log, i) ==
    {RecoveryOf(log, j) : j \in
        {j \in 1 .. i : /\ log[j].event.type = "RECOVERY_AUTHORITY_ISSUED"
                       /\ \A k \in j + 1 .. i :
                             ~ EndsRecovery(RecoveryOf(log, j), log[k].event)}}

SessionsAt(log, i) ==
    {SessionOf(log, j) : j \in
        {j \in 1 .. i : /\ log[j].event.type = "SESSION_AUTHORITY_ISSUED"
                       /\ \A k \in j + 1 .. i : ~ EndsSession(SessionOf(log, j), log[k].event)}}

\* One of the records goes by that name.
Named(records, who) == \E r \in records : GoesBy(r, who)

\* "Revoked devices cannot create accepted events": whoever signed an accepted
\* event was, in the log before it, the root, or a device or recovery authority
\* issued and not revoked since; only the first event creates a root.
SignersWereAuthorized ==
    \A i \in 1 .. Len(event_log) :
        LET e == event_log[i].event
        IN  \/ i = 1 /\ e.type = "ROOT_AUTHORITY_CREATED"
            \/ /\ e.type # "ROOT_AUTHORITY_CREATED"
               /\ \/ IsRootAt(event_log, e.signer, i - 1)
                  \/ Named(DevicesAt(event_log, i - 1), e.signer)
                  \/ Named(RecoveriesAt(event_log, i - 1), e.signer)

\* The j-th event is the last RECOVERY_EXECUTED before the i-th.
IsRecoveryCaseAt(log, j, i) ==
    /\ j \in 1 .. i - 1
    /\ log[j].event.type = "RECOVERY_EXECUTED"
    /\ \A k \in j + 1 .. i - 1 : log[k].event.type # "RECOVERY_EXECUTED"

\* What a signer who is not the root changes about devices is the revocation of a name
\* of its own, or belongs to the last recovery executed before: it issues the
\* replacement that recovery names, or revokes the device it names as lost.
DeviceChangesAreBacked ==
    \A i \in 1 .. Len(event_log) :
        LET e == event_log[i].event
        IN  (/\ e.type \in {"DEVICE_KEY_ISSUED", "DEVICE_KEY_REVOKED"}
             /\ ~ IsRootAt(event_log, e.signer, i - 1))
            => \/ /\ e.type = "DEVICE_KEY_REVOKED"
                  /\ \E d \in DevicesAt(event_log, i - 1) :
                        GoesBy(d, e.signer) /\ GoesBy(d, e.target)
               \/ \E j \in 1 .. i - 1 :
                     LET recovery == event_log[j].event
                     IN  /\ IsRecoveryCaseAt(event_log, j, i)
                         /\ recovery.recoveryRef = e.recoveryRef
                         /\ IF e.type = "DEVICE_KEY_ISSUED"
                            THEN recovery.newId = e.device
                            ELSE \E d \in DevicesAt(event_log, i - 1) :
                                    /\ GoesBy(d, e.target)
                                    /\ recovery.oldId = d.id \/ recovery.oldRef = d.ref

ActiveOf(records) == {r \in records : r.status = "active"}

\* The projection agrees with the log about who is active, record by record: the
\* active devices and recovery authorities are exactly those the log issued and did
\* not end, and the root is the last one created or rotated to.
ActiveAuthoritiesAreIssued ==
    mode = "live" =>
        LET n == Len(event_log)
        IN  /\ ActiveOf(authority.devices) = DevicesAt(event_log, n)
            /\ ActiveOf(authority.recoveries) = RecoveriesAt(event_log, n)
            /\ \A r \in Roots : (authority.root = r) = IsRootAt(event_log, r, n)

\* The i-th event is the last of the log about the trust in realm x.
LastOfTrust(log, x, i, n) ==
    /\ log[i].event.type \in TrustTypes /\ log[i].event.realm = x
    /\ \A k \in i + 1 .. n : log[k].event.type \in TrustTypes => log[k].event.realm # x

\* The active sessions are those the log issued and did not end, under the id or the
\* reference; a federation trust is active exactly when the last event about it
\* established or updated it: an update revives a revoked trust, and ending what was
\* never issued is accepted and does nothing.
GrantsFollowTheLog ==
    mode = "live" =>
        LET n == Len(event_log)
        IN  /\ ActiveOf(authority.sessions) = SessionsAt(event_log, n)
            /\ \A x \in Realms :
                  (authority.trusts[x] = "active")
                    = \E i \in 1 .. n : /\ LastOfTrust(event_log, x, i, n)
                                       /\ event_log[i].event.type # "FEDERATION_TRUST_REVOKED"

\* "Device and session authorities must be constrained by role": while there is a
\* root, a step that changes the root, the recovery authorities or the federation
\* trusts records an event that root signed, and a step that changes a session one
\* an active device or the root signed.
RolesAreConfined ==
    [][(mode = "live" /\ mode' = "live" /\ authority.root # None /\ authority' # authority) =>
          LET signer == event_log'[Len(event_log')].event.signer
          IN  /\ \/ signer = authority.root
                 \/ /\ authority'.root = authority.root
                    /\ authority'.recoveries = authority.recoveries
                    /\ authority'.trusts = authority.trusts
              /\ \/ signer = authority.root \/ IsActiveDevice(authority, signer)
                 \/ authority'.sessions = authority.sessions]_vars

\* findDevice returns the first match, and ids may equal other devices' references.
\* A device is nevertheless found under each of its names, unless an older device
\* goes by that name the other way round: as its reference, if it is this one's id, as
\* its id, if it is this one's reference.  That one device is found instead, and when
\* it is revoked the younger one cannot act under the name.
DevicesAreFound ==
    \A d \in authority.devices :
        /\ \/ FindDevice(authority, d.id) = {d}
           \/ \E c \in authority.devices :
                 c.since < d.since /\ c.ref = d.id /\ FindDevice(authority, d.id) = {c}
        /\ \/ FindDevice(authority, d.ref) = {d}
           \/ \E c \in authority.devices :
                 c.since < d.since /\ c.id = d.ref /\ FindDevice(authority, d.ref) = {c}

\* The ceremony issues before it revokes: wherever a crash interrupts it, and
\* however it fails, the old device is found active, or there is an active record
\* with the id of its replacement.
CeremonyKeepsADevice ==
    ceremony # None =>
        \/ IsActiveDevice(authority, ceremony.oldId)
        \/ \E d \in ActiveOf(authority.devices) : d.id = ceremony.newId

\* A ceremony that ends well has left no active device under the old one's id, and the
\* new device active; unless the new one's reference is the old one's id: the last
\* event of the ceremony then revokes both.
CompletedCeremonyReplacesDevice ==
    [][CeremonyRevokesDevice =>
          /\ ~ Named(ActiveOf(authority'.devices), ceremony.oldId)
          /\ (\E d \in ActiveOf(authority'.devices) :
                 d.id = ceremony.newId /\ d.ref = ceremony.newRef)
                <=> ceremony.newRef # ceremony.oldId]_vars

\* "A recovery attempt may fail. Failure must not mutate authority state."
\* (docs/architecture/recovery-ceremony-protocol-adr-0070.md)  The code keeps the
\* proposals accepted before the rejected one.
FailedCeremonyLeavesNoMutation ==
    [][CeremonyFails => Len(event_log) = ceremony.start - 1]_vars

=============================================================================
