-------------------------- MODULE RealmPipelineProofs --------------------------
(***************************************************************************)
(* What RealmPipeline guarantees for every set of names and every bound.   *)
(***************************************************************************)
EXTENDS RealmPipeline, RealmEventRegistryProofs

-----------------------------------------------------------------------------
(* The history. *)

\* The projection the node holds while it is in the given mode.
Held == projections[IF mode = "live" THEN Len(event_log) + 1 ELSE cursor + 1]

\* The inductive invariant.  Acceptance reads the held projection, so the facts
\* about the history need the fact that it is the last of them; the boot reads
\* the history, so the converse holds too.  A ceremony exists on a live node only.
HistoryInv ==
    /\ TypeOK
    /\ ReplayOfLog
    /\ LegalHistory
    /\ authority = Held
    /\ ceremony # None => mode = "live"

LEMMA LastSequenceIsLength ==
    ASSUME HistoryInv, mode = "live"
    PROVE  authority.lastSequence = Len(event_log)
<1>1. CASE Len(event_log) = 0
  BY <1>1 DEF HistoryInv, Held, ReplayOfLog, EmptyAuthorityState
<1>2. CASE Len(event_log) # 0
  <2> DEFINE n == Len(event_log)
  <2>1. n \in 1 .. n /\ n \in Nat
    BY <1>2 DEF HistoryInv, TypeOK
  <2>2. projections[n + 1] = ApplyEntry(projections[n], event_log[n])
    BY <2>1 DEF HistoryInv, ReplayOfLog
  <2>3. event_log[n].sequence = n
    BY <2>1 DEF HistoryInv, LegalHistory
  <2> QED BY <2>2, <2>3 DEF HistoryInv, Held, ApplyEntry
<1> QED BY <1>1, <1>2

\* Accepting an event extends a legal history by one legal event.
LEMMA AcceptKeepsHistory ==
    ASSUME HistoryInv, mode = "live", mode' = mode,
           NEW e \in Event, NEW sequence, NEW previous,
           Accept(e, sequence, previous)
    PROVE  /\ event_log' \in Seq(LogEntry) /\ Len(event_log') = Len(event_log) + 1
           /\ authority' \in AuthorityState
           /\ projections' \in Seq(AuthorityState)
           /\ ReplayOfLog' /\ LegalHistory' /\ authority' = Held'
<1> DEFINE n     == Len(event_log)
           entry == [event |-> e, sequence |-> sequence]
<1>1. n \in Nat /\ event_log \in Seq(LogEntry) /\ projections \in Seq(AuthorityState)
         /\ Len(projections) = n + 1
  BY DEF HistoryInv, TypeOK, ReplayOfLog
<1>2. sequence = n + 1
  BY LastSequenceIsLength DEF Accept, InSequence
<1>3. entry \in LogEntry
  BY <1>1, <1>2 DEF LogEntry
<1>4. event_log' = Append(event_log, entry) /\ authority' = ApplyEntry(authority, entry)
         /\ projections' = Append(projections, authority')
  BY DEF Accept, AppendAndApply
<1>5. authority = projections[n + 1] /\ authority \in AuthorityState
  BY DEF HistoryInv, Held, TypeOK
<1>6. authority' \in AuthorityState
  BY <1>3, <1>4, <1>5, ApplyEntryType DEF LogEntry
<1> HIDE DEF entry
<1>7. /\ event_log' \in Seq(LogEntry) /\ Len(event_log') = n + 1
      /\ projections' \in Seq(AuthorityState) /\ Len(projections') = n + 2
  BY <1>1, <1>3, <1>4, <1>6
<1>8. /\ \A i \in 1 .. n : event_log'[i] = event_log[i]
      /\ event_log'[n + 1] = entry
      /\ \A i \in 1 .. n + 1 : projections'[i] = projections[i]
      /\ projections'[n + 2] = authority'
  BY <1>1, <1>3, <1>4, <1>6
<1>9. ReplayOfLog'
  <2>1. projections'[1] = EmptyAuthorityState
    BY <1>1, <1>8 DEF HistoryInv, ReplayOfLog
  <2>2. ASSUME NEW i \in 1 .. n + 1
        PROVE  projections'[i + 1] = ApplyEntry(projections'[i], event_log'[i])
    <3>1. CASE i \in 1 .. n
      BY <1>1, <1>8, <3>1 DEF HistoryInv, ReplayOfLog
    <3>2. CASE i = n + 1
      BY <1>1, <1>4, <1>5, <1>8, <3>2
    <3> QED BY <1>1, <3>1, <3>2
  <2> QED BY <1>1, <1>7, <2>1, <2>2 DEF ReplayOfLog
<1>10. LegalHistory'
  <2>1. ASSUME NEW i \in 1 .. n + 1
        PROVE  event_log'[i].sequence = i /\ Permits(projections'[i], event_log'[i].event)
    <3>1. CASE i \in 1 .. n
      BY <1>1, <1>8, <3>1 DEF HistoryInv, LegalHistory
    <3>2. CASE i = n + 1
      <4>1. entry.sequence = n + 1 /\ entry.event = e
        BY <1>2 DEF entry
      <4>2. Permits(authority, e)
        BY DEF Accept
      <4> QED BY <1>1, <1>5, <1>8, <3>2, <4>1, <4>2
    <3> QED BY <1>1, <3>1, <3>2
  <2> QED BY <1>1, <1>7, <2>1 DEF LegalHistory
<1>11. authority' = Held'
  BY <1>1, <1>7, <1>8 DEF Held
<1> QED BY <1>6, <1>7, <1>9, <1>10, <1>11

LEMMA InitHistory == Init => HistoryInv
<1> SUFFICES ASSUME Init PROVE HistoryInv
  OBVIOUS
<1>1. event_log \in Seq(LogEntry) /\ Len(event_log) = 0
         /\ projections \in Seq(AuthorityState) /\ Len(projections) = 1
         /\ projections[1] = EmptyAuthorityState
  BY EmptyIsState DEF Init
<1> QED
  BY <1>1, EmptyIsState, BoundsAssumption
     DEF Init, HistoryInv, TypeOK, ReplayOfLog, LegalHistory, Held

\* The proposals of the recovery ceremony are events.
LEMMA ExecutionIsEvent ==
    ASSUME NEW c \in Ceremony, NEW oldRef \in DeviceNames
    PROVE  CeremonyExecution(c, oldRef) \in Event
<1>1. CeremonyExecution(c, oldRef) \in RecoveryExecuted
  BY DEF Ceremony, CeremonyExecution, RecoveryExecuted, Signers
<1> QED BY <1>1 DEF Event

LEMMA CeremonyEvents ==
    ASSUME NEW c \in Ceremony
    PROVE  CeremonyIssue(c) \in Event /\ CeremonyRevoke(c) \in Event
<1>1. CeremonyIssue(c) \in DeviceIssued
  BY DEF Ceremony, CeremonyIssue, DeviceIssued
<1>2. CeremonyRevoke(c) \in DeviceRevoked
  BY DEF Ceremony, CeremonyRevoke, DeviceRevoked, DeviceNames
<1> QED BY <1>1, <1>2 DEF Event

\* A live step that accepts an event and leaves the mode alone.
LEMMA AcceptKeepsHistoryInv ==
    ASSUME HistoryInv, mode = "live",
           NEW e \in Event, NEW sequence, NEW previous, Accept(e, sequence, previous),
           UNCHANGED <<mode, cursor, crashes>>,
           ceremony' \in Ceremony \cup {None}
    PROVE  HistoryInv'
<1>1. /\ event_log' \in Seq(LogEntry) /\ Len(event_log') = Len(event_log) + 1
      /\ authority' \in AuthorityState
      /\ projections' \in Seq(AuthorityState)
      /\ ReplayOfLog' /\ LegalHistory' /\ authority' = Held'
  BY AcceptKeepsHistory
<1>2. Len(event_log) \in Nat /\ cursor \in 0 .. Len(event_log) /\ crashes \in 0 .. MaxCrashes
  BY DEF HistoryInv, TypeOK
<1>3. TypeOK'
  BY <1>1, <1>2 DEF TypeOK
<1> QED BY <1>1, <1>3 DEF HistoryInv

LEMMA ProposeKeepsHistoryInv ==
    ASSUME HistoryInv, NEW events \in SUBSET Event, Propose(events)
    PROVE  HistoryInv'
<1>1. PICK e, sequence, previous : e \in events /\ Accept(e, sequence, previous)
  BY DEF Propose
<1>2. ceremony' \in Ceremony \cup {None}
  BY DEF Propose
<1>3. mode = "live" /\ UNCHANGED <<mode, cursor, crashes>>
  BY DEF Propose
<1> QED BY <1>1, <1>2, <1>3, AcceptKeepsHistoryInv

\* Steps that leave the history alone and read the log at most.
LEMMA BootKeepsHistoryInv ==
    ASSUME HistoryInv, Crash \/ ReplayEvent \/ FinishBoot
    PROVE  HistoryInv'
<1> DEFINE n == Len(event_log)
<1>1. n \in Nat /\ event_log \in Seq(LogEntry) /\ projections \in Seq(AuthorityState)
         /\ Len(projections) = n + 1 /\ crashes \in Nat /\ cursor \in 0 .. n
         /\ projections[1] = EmptyAuthorityState
  BY BoundsAssumption DEF HistoryInv, TypeOK, ReplayOfLog
<1>2. UNCHANGED <<event_log, projections>>
  BY DEF Crash, ReplayEvent, FinishBoot
<1>3. ReplayOfLog' /\ LegalHistory'
  BY <1>2 DEF HistoryInv, ReplayOfLog, LegalHistory
<1>4. CASE Crash
  BY <1>1, <1>2, <1>3, <1>4, EmptyIsState, BoundsAssumption
     DEF Crash, HistoryInv, TypeOK, Held
<1>5. CASE ReplayEvent
  <2>1. cursor + 1 \in 1 .. n /\ mode = "booting" /\ ceremony = None
    BY <1>1, <1>5 DEF ReplayEvent, HistoryInv, TypeOK
  <2>2. authority = projections[cursor + 1]
    BY <2>1 DEF HistoryInv, Held
  <2>3. authority' = projections[cursor + 2]
    BY <1>1, <1>5, <2>1, <2>2 DEF ReplayEvent, HistoryInv, ReplayOfLog
  <2>4. authority' \in AuthorityState
    BY <1>1, <2>1, <2>3
  <2> QED BY <1>1, <1>2, <1>3, <1>5, <2>1, <2>3, <2>4 DEF ReplayEvent, HistoryInv, TypeOK, Held
<1>6. CASE FinishBoot
  BY <1>1, <1>2, <1>3, <1>6 DEF FinishBoot, HistoryInv, TypeOK, Held
<1> QED BY <1>4, <1>5, <1>6

LEMMA NextKeepsHistory == HistoryInv /\ [Next]_vars => HistoryInv'
<1> SUFFICES ASSUME HistoryInv, [Next]_vars PROVE HistoryInv'
  OBVIOUS
<1> USE DEF HistoryInv
<1>1. CASE UNCHANGED vars \/ RejectProposal
  BY <1>1 DEF vars, RejectProposal, TypeOK, ReplayOfLog, LegalHistory, Held
<1>2. CASE CreateRoot \/ RotateAuthority \/ IssueDeviceKey \/ RevokeDeviceKey
              \/ IssueSession \/ ExpireSession \/ IssueRecoveryAuthority
              \/ RevokeRecoveryAuthority \/ ExecuteRecovery
              \/ EstablishTrust \/ UpdateTrust \/ RevokeTrust
  <2>1. PICK events \in SUBSET Event : Propose(events)
    BY <1>2 DEF CreateRoot, RotateAuthority, IssueDeviceKey, RevokeDeviceKey, IssueSession,
                ExpireSession, IssueRecoveryAuthority, RevokeRecoveryAuthority,
                ExecuteRecovery, EstablishTrust, UpdateTrust, RevokeTrust, Event
  <2> QED BY <2>1, ProposeKeepsHistoryInv
<1>3. CASE BeginCeremony
  <2>1. PICK c \in Ceremony :
           /\ \E d \in FindDevice(authority, c.oldId) :
                 Accept(CeremonyExecution(c, d.ref), c.start, None)
           /\ ceremony' = c
    BY <1>3 DEF BeginCeremony, Ceremony, TypeOK, AuthorityState
  <2>2. PICK d \in FindDevice(authority, c.oldId) :
           Accept(CeremonyExecution(c, d.ref), c.start, None)
    BY <2>1
  <2>3. d.ref \in DeviceNames
    BY DEF FindDevice, FirstOf, TypeOK, AuthorityState, Device, Record, DeviceNames
  <2> QED
    BY <1>3, <2>1, <2>2, <2>3, ExecutionIsEvent, AcceptKeepsHistoryInv DEF BeginCeremony
<1>4. CASE CeremonyIssuesDevice
  <2>1. ceremony \in Ceremony /\ mode = "live"
    BY <1>4 DEF CeremonyIssuesDevice, TypeOK
  <2>2. ceremony' \in Ceremony
    BY <1>4, <2>1 DEF CeremonyIssuesDevice, Ceremony
  <2>3. CeremonyIssue(ceremony) \in Event
    BY <2>1, CeremonyEvents
  <2> QED BY <1>4, <2>1, <2>2, <2>3, AcceptKeepsHistoryInv DEF CeremonyIssuesDevice
<1>5. CASE CeremonyRevokesDevice
  <2>1. ceremony \in Ceremony /\ mode = "live"
    BY <1>5 DEF CeremonyRevokesDevice, TypeOK
  <2>2. CeremonyRevoke(ceremony) \in Event
    BY <2>1, CeremonyEvents
  <2> QED BY <1>5, <2>1, <2>2, AcceptKeepsHistoryInv DEF CeremonyRevokesDevice
<1>6. CASE CeremonyFails
  BY <1>6 DEF CeremonyFails, TypeOK, ReplayOfLog, LegalHistory, Held
<1>7. CASE Crash \/ ReplayEvent \/ FinishBoot
  BY <1>7, BootKeepsHistoryInv
<1> QED BY <1>1, <1>2, <1>3, <1>4, <1>5, <1>6, <1>7 DEF Next

LEMMA HistoryAlways == Spec => []HistoryInv
  BY InitHistory, NextKeepsHistory, PTL DEF Spec

\* Every variable keeps the shape the code gives it, in every run of a realm.
THEOREM TypeCorrect == Spec => []TypeOK
<1>1. HistoryInv => TypeOK
  BY DEF HistoryInv
<1> QED BY <1>1, HistoryAlways, PTL

\* A node holds the replay of its log, whatever crashes and failed ceremonies came
\* before: rebuildAuthorityStateOnLedger and applyCanonicalAuthorityProjection agree.
THEOREM ProjectionCorrect == Spec => []ProjectionIsReplay
<1>1. HistoryInv => ProjectionIsReplay
  BY DEF HistoryInv, ProjectionIsReplay, Held
<1> QED BY <1>1, HistoryAlways, PTL

\* The log never holds an event that the events before it do not permit, so replay
\* needs no validation of its own.
THEOREM HistoryIsLegal == Spec => []LegalHistory
<1>1. HistoryInv => LegalHistory
  BY DEF HistoryInv
<1> QED BY <1>1, HistoryAlways, PTL

-----------------------------------------------------------------------------
(* The recovery ceremony. *)

\* Where a ceremony stands.  That the new device was not found active when it began
\* gives it another id than the old one's, so revoking that id leaves the new device
\* active unless its reference is that id.
CeremonyInv ==
    ceremony # None =>
        \/ /\ ceremony.next = "issue"
           /\ IsActiveDevice(authority, ceremony.oldId)
           /\ ~ IsActiveDevice(authority, ceremony.newId)
        \/ /\ ceremony.next = "revoke"
           /\ \E d \in ActiveOf(authority.devices) :
                 d.id = ceremony.newId /\ d.ref = ceremony.newRef
           /\ ceremony.newId # ceremony.oldId

LEMMA BeginKeepsCeremony ==
    ASSUME HistoryInv, BeginCeremony
    PROVE  CeremonyInv'
<1>1. PICK c \in Ceremony :
         /\ \E d \in FindDevice(authority, c.oldId) :
               Accept(CeremonyExecution(c, d.ref), c.start, None)
         /\ ceremony' = c /\ c.next = "issue"
  BY DEF BeginCeremony, Ceremony, HistoryInv, TypeOK, AuthorityState
<1>2. PICK d \in FindDevice(authority, c.oldId) :
         Accept(CeremonyExecution(c, d.ref), c.start, None)
  BY <1>1
<1> DEFINE e     == CeremonyExecution(c, d.ref)
           entry == [event |-> e, sequence |-> c.start]
<1>3. e.type = "RECOVERY_EXECUTED" /\ e.oldId = c.oldId /\ e.newId = c.newId
  BY DEF CeremonyExecution
<1>4. Permits(authority, e) /\ authority' = ApplyEntry(authority, entry)
  BY <1>2 DEF Accept, AppendAndApply
<1> HIDE DEF e
<1>5. IsActiveDevice(authority, c.oldId) /\ ~ IsActiveDevice(authority, c.newId)
  BY <1>3, <1>4 DEF Permits, ValidTransition, ValidRecoveryExecuted
<1>6. authority'.devices = authority.devices
  BY <1>3, <1>4 DEF ApplyEntry, DevicesAfter
<1> QED BY <1>1, <1>5, <1>6 DEF CeremonyInv, IsActiveDevice, FindDevice

LEMMA IssueKeepsCeremony ==
    ASSUME HistoryInv, CeremonyInv, CeremonyIssuesDevice
    PROVE  CeremonyInv'
<1> DEFINE c     == ceremony
           e     == CeremonyIssue(c)
           entry == [event |-> e, sequence |-> c.start + 1]
<1>1. c \in Ceremony /\ c.next = "issue"
  BY DEF CeremonyIssuesDevice, HistoryInv, TypeOK
<1>2. ceremony' = [ceremony EXCEPT !.next = "revoke"]
  BY DEF CeremonyIssuesDevice
<1>3. /\ ceremony'.next = "revoke" /\ ceremony'.newId = c.newId /\ ceremony'.oldId = c.oldId
      /\ ceremony'.newRef = c.newRef
  BY <1>1, <1>2, Zenon DEF Ceremony
<1>4. c.newId # c.oldId
  BY <1>1 DEF CeremonyInv, CeremonyIssuesDevice
<1> DEFINE new == NewRecord(c.newId, c.newRef, c.start + 1)
<1>5. authority'.devices = WithRecord(authority.devices, new)
  BY DEF CeremonyIssuesDevice, Accept, AppendAndApply, ApplyEntry, DevicesAfter, CeremonyIssue
<1>6. new \in ActiveOf(authority'.devices) /\ new.id = c.newId /\ new.ref = c.newRef
  BY <1>5 DEF WithRecord, NewRecord, ActiveOf
<1> QED BY <1>3, <1>4, <1>6 DEF CeremonyInv

\* The last proposal of a ceremony takes every device that goes by the old one's id.
LEMMA RevokeReplacesDevice ==
    ASSUME HistoryInv, CeremonyInv, CeremonyRevokesDevice
    PROVE  /\ ~ Named(ActiveOf(authority'.devices), ceremony.oldId)
           /\ (\E d \in ActiveOf(authority'.devices) :
                  d.id = ceremony.newId /\ d.ref = ceremony.newRef)
                 <=> ceremony.newRef # ceremony.oldId
<1> DEFINE c == ceremony
<1>1. c.newId # c.oldId
      /\ \E d \in ActiveOf(authority.devices) : d.id = c.newId /\ d.ref = c.newRef
  BY DEF CeremonyInv, CeremonyRevokesDevice, HistoryInv, TypeOK, Ceremony
<1>2. authority'.devices = Ended(authority.devices, c.oldId, "revoked")
  BY DEF CeremonyRevokesDevice, Accept, AppendAndApply, ApplyEntry, DevicesAfter,
         CeremonyRevoke
<1>3. authority.devices \in SUBSET Record(DeviceIds, DeviceRefs, "revoked")
  BY DEF HistoryInv, TypeOK, AuthorityState, Device
<1>4. ActiveOf(authority'.devices)
         = {d \in ActiveOf(authority.devices) : ~ GoesBy(d, c.oldId)}
  BY <1>2, <1>3, ActiveAfterEnding DEF ActiveOf
<1>5. ~ Named(ActiveOf(authority'.devices), c.oldId)
  BY <1>4 DEF Named
<1>6. (\E d \in ActiveOf(authority'.devices) : d.id = c.newId /\ d.ref = c.newRef)
         <=> c.newRef # c.oldId
  BY <1>1, <1>4 DEF GoesBy
<1> QED BY <1>5, <1>6

LEMMA CeremonyAlways == Spec => []CeremonyInv
<1>1. Init => CeremonyInv
  BY DEF Init, CeremonyInv
<1>2. HistoryInv /\ CeremonyInv /\ [Next]_vars => CeremonyInv'
  <2> SUFFICES ASSUME HistoryInv, CeremonyInv, [Next]_vars PROVE CeremonyInv'
    OBVIOUS
  <2>1. CASE BeginCeremony
    BY <2>1, BeginKeepsCeremony
  <2>2. CASE CeremonyIssuesDevice
    BY <2>2, IssueKeepsCeremony
  <2>3. CASE ~ BeginCeremony /\ ~ CeremonyIssuesDevice
    <3>1. ceremony' = None \/ UNCHANGED <<ceremony, authority>>
      BY <2>3 DEF HistoryInv, TypeOK, Next, vars, RejectProposal, CreateRoot,
         RotateAuthority, IssueDeviceKey, RevokeDeviceKey, IssueSession, ExpireSession,
         IssueRecoveryAuthority, RevokeRecoveryAuthority, ExecuteRecovery, EstablishTrust,
         UpdateTrust, RevokeTrust, Propose, CeremonyRevokesDevice, CeremonyFails, Crash,
         ReplayEvent, FinishBoot
    <3> QED BY <3>1 DEF CeremonyInv
  <2> QED BY <2>1, <2>2, <2>3
<1> QED BY <1>1, <1>2, HistoryAlways, PTL DEF Spec

\* At every point of a ceremony, the ones a crash or a rejection stops it at included,
\* the old device or its replacement is active.
THEOREM CeremonyNeverStrands == Spec => []CeremonyKeepsADevice
<1>1. CeremonyInv => CeremonyKeepsADevice
  BY DEF CeremonyInv, CeremonyKeepsADevice
<1> QED BY <1>1, CeremonyAlways, PTL

\* A ceremony that reports success has ended the old device under every name it gave,
\* and replaced it unless the new device goes by the old one's id.
THEOREM CeremonyReplaces == Spec => CompletedCeremonyReplacesDevice
<1>1. HistoryInv /\ CeremonyInv /\ [Next]_vars
        => [CeremonyRevokesDevice =>
              /\ ~ Named(ActiveOf(authority'.devices), ceremony.oldId)
              /\ (\E d \in ActiveOf(authority'.devices) :
                     d.id = ceremony.newId /\ d.ref = ceremony.newRef)
                    <=> ceremony.newRef # ceremony.oldId]_vars
  BY RevokeReplacesDevice
<1> QED BY <1>1, HistoryAlways, CeremonyAlways, PTL DEF Spec, CompletedCeremonyReplacesDevice

-----------------------------------------------------------------------------
(* Roles. *)

\* An event a signer other than the root may issue leaves the root, the recovery
\* authorities and the trusts alone; one that is no device's, the sessions too.
LEMMA LesserEvents ==
    ASSUME NEW s \in AuthorityState, NEW entry, s.root # None,
           CanIssue(s, entry.event.signer, entry.event.type),
           entry.event.signer # s.root
    PROVE  LET next == ApplyEntry(s, entry)
           IN  /\ next.root = s.root
               /\ next.recoveries = s.recoveries
               /\ next.trusts = s.trusts
               /\ IsActiveDevice(s, entry.event.signer) \/ next.sessions = s.sessions
<1> DEFINE e == entry.event
<1>1. e.type \in DeviceEvents \cup RecoveryEvents
      /\ (IsActiveDevice(s, e.signer) \/ e.type \in RecoveryEvents)
  BY DEF CanIssue, IsActiveRoot
<1> HIDE DEF e
<1>2. RootAfter(s, e) = s.root
  BY <1>1 DEF RootAfter, DeviceEvents, RecoveryEvents
<1>3. RecoveriesAfter(s, e, entry.sequence) = s.recoveries
  BY <1>1 DEF RecoveriesAfter, DeviceEvents, RecoveryEvents
<1>4. TrustsAfter(s, e) = s.trusts
  BY <1>1 DEF TrustsAfter, DeviceEvents, RecoveryEvents, AuthorityState
<1>5. e.type \in RecoveryEvents => SessionsAfter(s, e, entry.sequence) = s.sessions
  BY DEF SessionsAfter, RecoveryEvents
<1> QED BY <1>1, <1>2, <1>3, <1>4, <1>5 DEF ApplyEntry, e

\* The authority policies confine devices, recovery authorities and the root to their
\* roles, step by step.
THEOREM RolesConfined == Spec => RolesAreConfined
<1> DEFINE Step ==
       (mode = "live" /\ mode' = "live" /\ authority.root # None /\ authority' # authority) =>
          LET signer == event_log'[Len(event_log')].event.signer
          IN  /\ \/ signer = authority.root
                 \/ /\ authority'.root = authority.root
                    /\ authority'.recoveries = authority.recoveries
                    /\ authority'.trusts = authority.trusts
              /\ \/ signer = authority.root \/ IsActiveDevice(authority, signer)
                 \/ authority'.sessions = authority.sessions
<1>1. HistoryInv /\ [Next]_vars => [Step]_vars
  <2> SUFFICES ASSUME HistoryInv, [Next]_vars, mode = "live", mode' = "live",
                      authority.root # None, authority' # authority
               PROVE  Step
    OBVIOUS
  <2>1. PICK e, sequence, previous : Accept(e, sequence, previous)
    BY DEF Next, vars, RejectProposal, CreateRoot, RotateAuthority, IssueDeviceKey,
         RevokeDeviceKey, IssueSession, ExpireSession, IssueRecoveryAuthority,
         RevokeRecoveryAuthority, ExecuteRecovery, EstablishTrust, UpdateTrust, RevokeTrust,
         Propose, BeginCeremony, CeremonyIssuesDevice, CeremonyRevokesDevice, CeremonyFails,
         FinishBoot, Crash, ReplayEvent
  <2> DEFINE entry == [event |-> e, sequence |-> sequence]
  <2>2. /\ event_log' = Append(event_log, entry)
        /\ authority' = ApplyEntry(authority, entry)
        /\ CanIssue(authority, e.signer, e.type)
    BY <2>1 DEF Accept, AppendAndApply, Permits
  <2>3. event_log'[Len(event_log')] = entry
    <3>1. event_log \in Seq(LogEntry)
      BY DEF HistoryInv, TypeOK
    <3> QED BY <2>2, <3>1
  <2>4. entry.event = e /\ authority \in AuthorityState
    BY DEF HistoryInv, TypeOK
  <2> HIDE DEF entry
  <2> QED BY <2>2, <2>3, <2>4, LesserEvents
<1> QED BY <1>1, HistoryAlways, PTL DEF Spec, RolesAreConfined

-----------------------------------------------------------------------------
(* The projection and the log agree. *)

\* What one more event makes of the records that stand: it ends some and adds one.
LEMMA DevicesGrow ==
    ASSUME NEW log, NEW n \in Nat
    PROVE  DevicesAt(log, n + 1)
              = {d \in DevicesAt(log, n) : ~ EndsDevice(d, log[n + 1].event)}
                   \cup (IF log[n + 1].event.type = "DEVICE_KEY_ISSUED"
                         THEN {DeviceOf(log, n + 1)} ELSE {})
<1> DEFINE Stands(j, i) ==
              /\ log[j].event.type = "DEVICE_KEY_ISSUED"
              /\ \A k \in j + 1 .. i : ~ EndsDevice(DeviceOf(log, j), log[k].event)
<1>1. \A j \in 1 .. n :
         Stands(j, n + 1) <=> /\ Stands(j, n)
                              /\ ~ EndsDevice(DeviceOf(log, j), log[n + 1].event)
  OBVIOUS
<1>2. Stands(n + 1, n + 1) <=> log[n + 1].event.type = "DEVICE_KEY_ISSUED"
  OBVIOUS
<1>3. 1 .. n + 1 = 1 .. n \cup {n + 1}
  OBVIOUS
<1>4. \A i, r : r \in DevicesAt(log, i) <=> \E j \in 1 .. i : Stands(j, i) /\ r = DeviceOf(log, j)
  BY DEF DevicesAt
<1> HIDE DEF Stands
<1> QED BY <1>1, <1>2, <1>3, <1>4

LEMMA RecoveriesGrow ==
    ASSUME NEW log, NEW n \in Nat
    PROVE  RecoveriesAt(log, n + 1)
              = {r \in RecoveriesAt(log, n) : ~ EndsRecovery(r, log[n + 1].event)}
                   \cup (IF log[n + 1].event.type = "RECOVERY_AUTHORITY_ISSUED"
                         THEN {RecoveryOf(log, n + 1)} ELSE {})
<1> DEFINE Stands(j, i) ==
              /\ log[j].event.type = "RECOVERY_AUTHORITY_ISSUED"
              /\ \A k \in j + 1 .. i : ~ EndsRecovery(RecoveryOf(log, j), log[k].event)
<1>1. \A j \in 1 .. n :
         Stands(j, n + 1) <=> /\ Stands(j, n)
                              /\ ~ EndsRecovery(RecoveryOf(log, j), log[n + 1].event)
  OBVIOUS
<1>2. Stands(n + 1, n + 1) <=> log[n + 1].event.type = "RECOVERY_AUTHORITY_ISSUED"
  OBVIOUS
<1>3. 1 .. n + 1 = 1 .. n \cup {n + 1}
  OBVIOUS
<1>4. \A i, r : r \in RecoveriesAt(log, i) <=> \E j \in 1 .. i : Stands(j, i) /\ r = RecoveryOf(log, j)
  BY DEF RecoveriesAt
<1> HIDE DEF Stands
<1> QED BY <1>1, <1>2, <1>3, <1>4

LEMMA SessionsGrow ==
    ASSUME NEW log, NEW n \in Nat
    PROVE  SessionsAt(log, n + 1)
              = {x \in SessionsAt(log, n) : ~ EndsSession(x, log[n + 1].event)}
                   \cup (IF log[n + 1].event.type = "SESSION_AUTHORITY_ISSUED"
                         THEN {SessionOf(log, n + 1)} ELSE {})
<1> DEFINE Stands(j, i) ==
              /\ log[j].event.type = "SESSION_AUTHORITY_ISSUED"
              /\ \A k \in j + 1 .. i : ~ EndsSession(SessionOf(log, j), log[k].event)
<1>1. \A j \in 1 .. n :
         Stands(j, n + 1) <=> /\ Stands(j, n)
                              /\ ~ EndsSession(SessionOf(log, j), log[n + 1].event)
  OBVIOUS
<1>2. Stands(n + 1, n + 1) <=> log[n + 1].event.type = "SESSION_AUTHORITY_ISSUED"
  OBVIOUS
<1>3. 1 .. n + 1 = 1 .. n \cup {n + 1}
  OBVIOUS
<1>4. \A i, r : r \in SessionsAt(log, i) <=> \E j \in 1 .. i : Stands(j, i) /\ r = SessionOf(log, j)
  BY DEF SessionsAt
<1> HIDE DEF Stands
<1> QED BY <1>1, <1>2, <1>3, <1>4

\* What a case of the log's last RECOVERY_EXECUTED records.
CaseOf(e) == [recoveryRef |-> e.recoveryRef, oldId |-> e.oldId, oldRef |-> e.oldRef,
              newId |-> e.newId]

\* No two devices of the list share an id, a reference or the event that issued them.
DistinctDevices(s, i) ==
    /\ \A c, d \in s.devices : c.id = d.id \/ c.ref = d.ref \/ c.since = d.since => c = d
    /\ \A d \in s.devices : d.since <= i

\* Whoever is active in the projection s is active in the log's first i events, and
\* conversely; grants and recovery cases are those of the log.
Agrees(log, s, i) ==
    /\ s.root = None => i = 0
    /\ s.root # None => IsRootAt(log, s.root, i)
    /\ \A who : IsRootAt(log, who, i) => s.root = who
    /\ ActiveOf(s.devices) = DevicesAt(log, i)
    /\ ActiveOf(s.recoveries) = RecoveriesAt(log, i)
    /\ ActiveOf(s.sessions) = SessionsAt(log, i)
    /\ \A x \in Realms :
          (s.trusts[x] = "active")
            <=> \E j \in 1 .. i : LastOfTrust(log, x, j, i)
                                /\ log[j].event.type # "FEDERATION_TRUST_REVOKED"
    /\ s.lastRecovery # None =>
          \E j \in 1 .. i :
             IsRecoveryCaseAt(log, j, i + 1) /\ s.lastRecovery = CaseOf(log[j].event)
    /\ DistinctDevices(s, i)

LEMMA SignersHaveNames ==
    ASSUME NEW e \in Event, e.type # "ROOT_AUTHORITY_CREATED"
    PROVE  e.signer \in Signers /\ e.signer # None
  BY NamesAssumption
     DEF Event, RootCreated, RootRotated, DeviceIssued, DeviceRevoked, SessionIssued,
         SessionExpired, RecoveryIssued, RecoveryRevoked, RecoveryExecuted,
         TrustEstablished, TrustUpdated, TrustRevoked, Signers, DeviceNames, RecoveryNames

\* Nobody is found active whose record is not.
LEMMA FoundIsActive ==
    ASSUME NEW s, NEW who
    PROVE  /\ IsActiveDevice(s, who) => Named(ActiveOf(s.devices), who)
           /\ IsActiveRecovery(s, who) => Named(ActiveOf(s.recoveries), who)
  BY DEF IsActiveDevice, IsActiveRecovery, FindDevice, FirstOf, Named, ActiveOf

\* The three lists after an event.
LEMMA EntryKeepsDevices ==
    ASSUME NEW log, NEW n \in Nat, NEW s \in AuthorityState,
           ActiveOf(s.devices) = DevicesAt(log, n), DistinctDevices(s, n),
           log[n + 1] \in LogEntry, log[n + 1].sequence = n + 1
    PROVE  LET next == ApplyEntry(s, log[n + 1])
           IN  ActiveOf(next.devices) = DevicesAt(log, n + 1) /\ DistinctDevices(next, n + 1)
<1> DEFINE e    == log[n + 1].event
           next == ApplyEntry(s, log[n + 1])
           new  == DeviceOf(log, n + 1)
<1>1. next.devices = DevicesAfter(s, e, n + 1) /\ e \in Event
  BY DEF ApplyEntry, LogEntry
<1>2. s.devices \in SUBSET Record(DeviceIds, DeviceRefs, "revoked")
  BY DEF AuthorityState, Device
<1>2a. \A d \in s.devices : d.since \in Nat
  BY <1>2 DEF Record
<1>3. new = NewRecord(e.device, e.ref, n + 1) /\ new.id = e.device /\ new.ref = e.ref
         /\ new.status = "active" /\ new.since = n + 1
  BY DEF DeviceOf, NewRecord
<1>4. DevicesAt(log, n + 1)
         = {d \in ActiveOf(s.devices) : ~ EndsDevice(d, e)}
              \cup (IF e.type = "DEVICE_KEY_ISSUED" THEN {new} ELSE {})
  BY DevicesGrow
<1> HIDE DEF e, next, new
<1>5. CASE e.type = "DEVICE_KEY_ISSUED"
  <2>1. next.devices = WithRecord(s.devices, new)
    BY <1>1, <1>3, <1>5 DEF DevicesAfter
  <2>2. ActiveOf(next.devices)
           = {d \in ActiveOf(s.devices) : d.id # new.id /\ d.ref # new.ref} \cup {new}
    BY <1>3, <2>1, ActiveAfterIssuing DEF ActiveOf
  <2>3. \A d \in ActiveOf(s.devices) :
           EndsDevice(d, e) <=> ~ (d.id # new.id /\ d.ref # new.ref)
    BY <1>3, <1>5 DEF EndsDevice
  <2>4. ActiveOf(next.devices) = DevicesAt(log, n + 1)
    BY <1>4, <1>5, <2>2, <2>3
  <2>5. DistinctDevices(next, n + 1)
    <3>1. ASSUME NEW c \in next.devices, NEW d \in next.devices,
                 c.id = d.id \/ c.ref = d.ref \/ c.since = d.since
          PROVE  c = d
      BY <1>2a, <1>3, <2>1, <3>1 DEF WithRecord, DistinctDevices
    <3>2. \A d \in next.devices : d.since <= n + 1
      BY <1>2a, <1>3, <2>1 DEF WithRecord, DistinctDevices
    <3> QED BY <3>1, <3>2 DEF DistinctDevices
  <2> QED BY <2>4, <2>5 DEF next
<1>6. CASE e.type = "DEVICE_KEY_REVOKED"
  <2>1. next.devices = Ended(s.devices, e.target, "revoked")
    BY <1>1, <1>6 DEF DevicesAfter
  <2>2. ActiveOf(next.devices) = {d \in ActiveOf(s.devices) : ~ GoesBy(d, e.target)}
    BY <1>2, <2>1, ActiveAfterEnding DEF ActiveOf
  <2>3. \A d \in ActiveOf(s.devices) : EndsDevice(d, e) <=> GoesBy(d, e.target)
    BY <1>6 DEF EndsDevice
  <2>4. ActiveOf(next.devices) = DevicesAt(log, n + 1)
    BY <1>4, <1>6, <2>2, <2>3
  <2>5. ASSUME NEW d \in next.devices
        PROVE  \E c \in s.devices :
                  /\ c.id = d.id /\ c.ref = d.ref /\ c.since = d.since
                  /\ d = IF GoesBy(c, e.target) THEN [c EXCEPT !.status = "revoked"] ELSE c
    BY <1>2, <2>1 DEF Ended, Record
  <2>6. ASSUME NEW c \in next.devices, NEW d \in next.devices,
               c.id = d.id \/ c.ref = d.ref \/ c.since = d.since
        PROVE  c = d
    <3>1. PICK c0 \in s.devices :
             /\ c0.id = c.id /\ c0.ref = c.ref /\ c0.since = c.since
             /\ c = IF GoesBy(c0, e.target) THEN [c0 EXCEPT !.status = "revoked"] ELSE c0
      BY <2>5
    <3>2. PICK d0 \in s.devices :
             /\ d0.id = d.id /\ d0.ref = d.ref /\ d0.since = d.since
             /\ d = IF GoesBy(d0, e.target) THEN [d0 EXCEPT !.status = "revoked"] ELSE d0
      BY <2>5
    <3>3. c0 = d0
      BY <2>6, <3>1, <3>2 DEF DistinctDevices
    <3> QED BY <3>1, <3>2, <3>3
  <2>7. \A d \in next.devices : d.since <= n + 1
    BY <1>2a, <2>5 DEF DistinctDevices
  <2> QED BY <2>4, <2>6, <2>7 DEF next, DistinctDevices
<1>7. CASE e.type \notin {"DEVICE_KEY_ISSUED", "DEVICE_KEY_REVOKED"}
  <2>1. next.devices = s.devices
    BY <1>1, <1>7 DEF DevicesAfter
  <2>2. \A d \in ActiveOf(s.devices) : ~ EndsDevice(d, e)
    BY <1>7 DEF EndsDevice
  <2> QED BY <1>2a, <1>4, <1>7, <2>1, <2>2 DEF next, DistinctDevices
<1> QED BY <1>5, <1>6, <1>7

LEMMA EntryKeepsRecoveries ==
    ASSUME NEW log, NEW n \in Nat, NEW s \in AuthorityState,
           ActiveOf(s.recoveries) = RecoveriesAt(log, n),
           log[n + 1] \in LogEntry, log[n + 1].sequence = n + 1
    PROVE  ActiveOf(ApplyEntry(s, log[n + 1]).recoveries) = RecoveriesAt(log, n + 1)
<1> DEFINE e    == log[n + 1].event
           next == RecoveriesAfter(s, e, n + 1)
           new  == RecoveryOf(log, n + 1)
<1>1. ApplyEntry(s, log[n + 1]).recoveries = next
  BY DEF ApplyEntry
<1>2. s.recoveries \in SUBSET Record(Recoveries, RecoveryAliases, "revoked")
  BY DEF AuthorityState, Recovery
<1>3. new = NewRecord(e.recovery, e.ref, n + 1) /\ new.id = e.recovery /\ new.ref = e.ref
         /\ new.status = "active"
  BY DEF RecoveryOf, NewRecord
<1>4. RecoveriesAt(log, n + 1)
         = {r \in ActiveOf(s.recoveries) : ~ EndsRecovery(r, e)}
              \cup (IF e.type = "RECOVERY_AUTHORITY_ISSUED" THEN {new} ELSE {})
  BY RecoveriesGrow
<1> HIDE DEF e, new
<1>5. CASE e.type = "RECOVERY_AUTHORITY_ISSUED"
  <2>1. next = WithRecord(s.recoveries, new)
    BY <1>3, <1>5 DEF RecoveriesAfter
  <2>2. ActiveOf(next)
           = {r \in ActiveOf(s.recoveries) : r.id # new.id /\ r.ref # new.ref} \cup {new}
    BY <1>3, <2>1, ActiveAfterIssuing DEF ActiveOf
  <2>3. \A r \in ActiveOf(s.recoveries) :
           EndsRecovery(r, e) <=> ~ (r.id # new.id /\ r.ref # new.ref)
    BY <1>3, <1>5 DEF EndsRecovery
  <2> HIDE DEF next
  <2> QED BY <1>1, <1>4, <1>5, <2>2, <2>3
<1>6. CASE e.type = "RECOVERY_AUTHORITY_REVOKED"
  <2>1. next = Ended(s.recoveries, e.target, "revoked")
    BY <1>6 DEF RecoveriesAfter
  <2>2. ActiveOf(next) = {r \in ActiveOf(s.recoveries) : ~ GoesBy(r, e.target)}
    BY <1>2, <2>1, ActiveAfterEnding DEF ActiveOf
  <2>3. \A r \in ActiveOf(s.recoveries) : EndsRecovery(r, e) <=> GoesBy(r, e.target)
    BY <1>6 DEF EndsRecovery
  <2> HIDE DEF next
  <2> QED BY <1>1, <1>4, <1>6, <2>2, <2>3
<1>7. CASE e.type \notin {"RECOVERY_AUTHORITY_ISSUED", "RECOVERY_AUTHORITY_REVOKED"}
  <2>1. next = s.recoveries
    BY <1>7 DEF RecoveriesAfter
  <2>2. \A r \in ActiveOf(s.recoveries) : ~ EndsRecovery(r, e)
    BY <1>7 DEF EndsRecovery
  <2> HIDE DEF next
  <2> QED BY <1>1, <1>4, <1>7, <2>1, <2>2
<1> QED BY <1>5, <1>6, <1>7

LEMMA EntryKeepsSessions ==
    ASSUME NEW log, NEW n \in Nat, NEW s \in AuthorityState,
           ActiveOf(s.sessions) = SessionsAt(log, n),
           log[n + 1] \in LogEntry, log[n + 1].sequence = n + 1
    PROVE  ActiveOf(ApplyEntry(s, log[n + 1]).sessions) = SessionsAt(log, n + 1)
<1> DEFINE e    == log[n + 1].event
           next == SessionsAfter(s, e, n + 1)
           new  == SessionOf(log, n + 1)
<1>1. ApplyEntry(s, log[n + 1]).sessions = next
  BY DEF ApplyEntry
<1>2. s.sessions \in SUBSET Record(Sessions, SessionRefs, "expired")
  BY DEF AuthorityState, Session
<1>3. new = NewRecord(e.session, e.ref, n + 1) /\ new.id = e.session /\ new.status = "active"
  BY DEF SessionOf, NewRecord
<1>4. SessionsAt(log, n + 1)
         = {x \in ActiveOf(s.sessions) : ~ EndsSession(x, e)}
              \cup (IF e.type = "SESSION_AUTHORITY_ISSUED" THEN {new} ELSE {})
  BY SessionsGrow
<1> HIDE DEF e, new
<1>5. CASE e.type = "SESSION_AUTHORITY_ISSUED"
  <2>1. next = {x \in s.sessions : x.id # new.id} \cup {new}
    BY <1>3, <1>5 DEF SessionsAfter
  <2>2. ActiveOf(next) = {x \in ActiveOf(s.sessions) : x.id # new.id} \cup {new}
    BY <1>3, <2>1 DEF ActiveOf
  <2>3. \A x \in ActiveOf(s.sessions) : EndsSession(x, e) <=> x.id = new.id
    BY <1>3, <1>5 DEF EndsSession
  <2> HIDE DEF next
  <2> QED BY <1>1, <1>4, <1>5, <2>2, <2>3
<1>6. CASE e.type = "SESSION_AUTHORITY_EXPIRED"
  <2>1. next = Ended(s.sessions, e.target, "expired")
    BY <1>6 DEF SessionsAfter
  <2>2. ActiveOf(next) = {x \in ActiveOf(s.sessions) : ~ GoesBy(x, e.target)}
    BY <1>2, <2>1, ActiveAfterEnding DEF ActiveOf
  <2>3. \A x \in ActiveOf(s.sessions) : EndsSession(x, e) <=> GoesBy(x, e.target)
    BY <1>6 DEF EndsSession
  <2> HIDE DEF next
  <2> QED BY <1>1, <1>4, <1>6, <2>2, <2>3
<1>7. CASE e.type \notin {"SESSION_AUTHORITY_ISSUED", "SESSION_AUTHORITY_EXPIRED"}
  <2>1. next = s.sessions
    BY <1>7 DEF SessionsAfter
  <2>2. \A x \in ActiveOf(s.sessions) : ~ EndsSession(x, e)
    BY <1>7 DEF EndsSession
  <2> HIDE DEF next
  <2> QED BY <1>1, <1>4, <1>7, <2>1, <2>2
<1> QED BY <1>5, <1>6, <1>7

\* Applying a permitted event keeps the agreement: each part is about a field of its own.
LEMMA EntryAgrees ==
    ASSUME NEW log, NEW n \in Nat, NEW s \in AuthorityState, Agrees(log, s, n),
           log[n + 1] \in LogEntry, log[n + 1].sequence = n + 1, Permits(s, log[n + 1].event)
    PROVE  Agrees(log, ApplyEntry(s, log[n + 1]), n + 1)
<1> DEFINE e    == log[n + 1].event
           next == ApplyEntry(s, log[n + 1])
<1>1. e \in Event /\ log[n + 1].event = e
  BY DEF LogEntry
<1>2. /\ next.root = RootAfter(s, e)
      /\ next.trusts = TrustsAfter(s, e)
      /\ next.lastRecovery = LastRecoveryAfter(s, e)
  BY <1>1 DEF ApplyEntry
<1>3. ActiveOf(next.devices) = DevicesAt(log, n + 1) /\ DistinctDevices(next, n + 1)
  BY EntryKeepsDevices DEF Agrees
<1>4. ActiveOf(next.recoveries) = RecoveriesAt(log, n + 1)
  BY EntryKeepsRecoveries DEF Agrees
<1>5. ActiveOf(next.sessions) = SessionsAt(log, n + 1)
  BY EntryKeepsSessions DEF Agrees
<1> HIDE DEF e, next
<1>6. next.root # None
  <2>1. CASE e.type \in {"ROOT_AUTHORITY_CREATED", "AUTHORITY_ROTATED"}
    BY <1>1, <1>2, <2>1, EventShapes, NamesAssumption DEF RootAfter
  <2>2. CASE e.type \notin {"ROOT_AUTHORITY_CREATED", "AUTHORITY_ROTATED"}
    <3>1. SUFFICES ASSUME s.root = None PROVE FALSE
      BY <1>2, <2>2 DEF RootAfter
    <3>2. n = 0
      BY <3>1 DEF Agrees
    <3>3. ActiveOf(s.devices) = {} /\ ActiveOf(s.recoveries) = {}
      BY <3>2 DEF Agrees, DevicesAt, RecoveriesAt
    <3>4. ~ IsActiveDevice(s, e.signer) /\ ~ IsActiveRecovery(s, e.signer)
      BY <3>3, FoundIsActive DEF Named
    <3>5. e.type # "ROOT_AUTHORITY_CREATED" => e.signer # None
      BY <1>1, SignersHaveNames
    <3> QED BY <1>1, <2>2, <3>1, <3>4, <3>5 DEF Permits, CanIssue, IsActiveRoot
  <2> QED BY <2>1, <2>2
<1>7. IsRootAt(log, next.root, n + 1)
  <2>1. CASE e.type \in {"ROOT_AUTHORITY_CREATED", "AUTHORITY_ROTATED"}
    BY <1>1, <1>2, <2>1 DEF RootAfter, IsRootAt
  <2>2. CASE e.type \notin {"ROOT_AUTHORITY_CREATED", "AUTHORITY_ROTATED"}
    <3>1. next.root = s.root /\ IsRootAt(log, s.root, n)
      BY <1>2, <1>6, <2>2 DEF RootAfter, Agrees
    <3> QED BY <1>1, <2>2, <3>1 DEF IsRootAt
  <2> QED BY <2>1, <2>2
<1>8. ASSUME NEW who, IsRootAt(log, who, n + 1) PROVE next.root = who
  <2>1. CASE e.type \in {"ROOT_AUTHORITY_CREATED", "AUTHORITY_ROTATED"}
    BY <1>1, <1>2, <1>8, <2>1 DEF IsRootAt, RootAfter
  <2>2. CASE e.type \notin {"ROOT_AUTHORITY_CREATED", "AUTHORITY_ROTATED"}
    <3>1. IsRootAt(log, who, n)
      BY <1>1, <1>8, <2>2 DEF IsRootAt
    <3> QED BY <1>2, <2>2, <3>1 DEF Agrees, RootAfter
  <2> QED BY <2>1, <2>2
<1>9. ASSUME NEW x \in Realms
      PROVE  (next.trusts[x] = "active")
                <=> \E j \in 1 .. n + 1 : LastOfTrust(log, x, j, n + 1)
                                        /\ log[j].event.type # "FEDERATION_TRUST_REVOKED"
  <2>1. CASE e.type \in TrustTypes /\ e.realm = x
    <3>1. LastOfTrust(log, x, n + 1, n + 1)
      BY <1>1, <2>1 DEF LastOfTrust
    <3>2. \A j \in 1 .. n : ~ LastOfTrust(log, x, j, n + 1)
      BY <1>1, <2>1 DEF LastOfTrust
    <3>3. (next.trusts[x] = "active") <=> (e.type # "FEDERATION_TRUST_REVOKED")
      BY <1>2, <2>1 DEF TrustsAfter, TrustTypes
    <3> QED BY <1>1, <3>1, <3>2, <3>3
  <2>2. CASE ~ (e.type \in TrustTypes /\ e.realm = x)
    <3>1. next.trusts[x] = s.trusts[x]
      BY <1>2, <2>2 DEF TrustsAfter, TrustTypes
    <3>2. ~ LastOfTrust(log, x, n + 1, n + 1)
      BY <1>1, <2>2 DEF LastOfTrust
    <3>3. \A j \in 1 .. n : LastOfTrust(log, x, j, n + 1) <=> LastOfTrust(log, x, j, n)
      BY <1>1, <2>2 DEF LastOfTrust
    <3> QED BY <3>1, <3>2, <3>3 DEF Agrees
  <2> QED BY <2>1, <2>2
<1>10. ASSUME next.lastRecovery # None
       PROVE  \E j \in 1 .. n + 1 :
                 /\ IsRecoveryCaseAt(log, j, n + 2)
                 /\ next.lastRecovery = CaseOf(log[j].event)
  <2>1. CASE e.type = "RECOVERY_EXECUTED"
    <3>1. IsRecoveryCaseAt(log, n + 1, n + 2)
      BY <1>1, <2>1 DEF IsRecoveryCaseAt
    <3> QED BY <1>1, <1>2, <2>1, <3>1 DEF LastRecoveryAfter, CaseOf
  <2>2. CASE e.type # "RECOVERY_EXECUTED"
    <3>1. next.lastRecovery = s.lastRecovery
      BY <1>2, <2>2 DEF LastRecoveryAfter
    <3>2. \A j \in 1 .. n : IsRecoveryCaseAt(log, j, n + 1) => IsRecoveryCaseAt(log, j, n + 2)
      BY <1>1, <2>2 DEF IsRecoveryCaseAt
    <3> QED BY <1>10, <3>1, <3>2 DEF Agrees
  <2> QED BY <2>1, <2>2
<1>11. n + 1 + 1 = n + 2
  OBVIOUS
<1> QED BY <1>3, <1>4, <1>5, <1>6, <1>7, <1>8, <1>9, <1>10, <1>11 DEF Agrees, next

\* What happened up to the i-th event depends on no later event.
LEMMA AgreesByPrefix ==
    ASSUME NEW log, NEW longer, NEW s \in AuthorityState, NEW i \in Nat,
           \A j \in 1 .. i : longer[j] = log[j],
           Agrees(log, s, i)
    PROVE  Agrees(longer, s, i)
<1>1. \A who : IsRootAt(longer, who, i) <=> IsRootAt(log, who, i)
  BY DEF IsRootAt
<1>2. \A j \in 1 .. i : /\ DeviceOf(longer, j) = DeviceOf(log, j)
                        /\ RecoveryOf(longer, j) = RecoveryOf(log, j)
                        /\ SessionOf(longer, j) = SessionOf(log, j)
  BY DEF DeviceOf, RecoveryOf, SessionOf
<1>3. \A j \in 1 .. i : \A k \in j + 1 .. i : longer[k] = log[k]
  OBVIOUS
<1>4. DevicesAt(longer, i) = DevicesAt(log, i)
  BY <1>2, <1>3, Zenon DEF DevicesAt
<1>5. RecoveriesAt(longer, i) = RecoveriesAt(log, i)
  BY <1>2, <1>3, Zenon DEF RecoveriesAt
<1>6. SessionsAt(longer, i) = SessionsAt(log, i)
  BY <1>2, <1>3, Zenon DEF SessionsAt
<1>7. \A x : \A j \in 1 .. i : LastOfTrust(longer, x, j, i) <=> LastOfTrust(log, x, j, i)
  BY DEF LastOfTrust
<1>8. \A j \in 1 .. i : IsRecoveryCaseAt(log, j, i + 1) => IsRecoveryCaseAt(longer, j, i + 1)
  BY DEF IsRecoveryCaseAt
<1>9. /\ s.root = None => i = 0
      /\ s.root # None => IsRootAt(longer, s.root, i)
      /\ \A who : IsRootAt(longer, who, i) => s.root = who
  BY <1>1, Zenon DEF Agrees
<1>10. \A x \in Realms :
          (s.trusts[x] = "active")
            <=> \E j \in 1 .. i : LastOfTrust(longer, x, j, i)
                                /\ longer[j].event.type # "FEDERATION_TRUST_REVOKED"
  BY <1>7, Zenon DEF Agrees
<1>11. s.lastRecovery # None =>
          \E j \in 1 .. i :
             IsRecoveryCaseAt(longer, j, i + 1) /\ s.lastRecovery = CaseOf(longer[j].event)
  BY <1>8, Zenon DEF Agrees
<1> QED BY <1>4, <1>5, <1>6, <1>9, <1>10, <1>11, Zenon DEF Agrees

LEMMA EmptyAgrees == ASSUME NEW log PROVE Agrees(log, EmptyAuthorityState, 0)
  BY DEF Agrees, EmptyAuthorityState, IsRootAt, ActiveOf, DevicesAt, RecoveriesAt, SessionsAt,
         DistinctDevices

LogAgrees ==
    \A i \in 0 .. Len(event_log) : Agrees(event_log, projections[i + 1], i)

\* A step keeps the history or extends it by one event.
LEMMA HistoryGrows ==
    ASSUME HistoryInv, [Next]_vars
    PROVE  \/ UNCHANGED <<event_log, projections>>
           \/ /\ Len(event_log') = Len(event_log) + 1
              /\ \A i \in 1 .. Len(event_log) : event_log'[i] = event_log[i]
              /\ \A i \in 1 .. Len(event_log) + 1 : projections'[i] = projections[i]
<1>1. UNCHANGED <<event_log, projections>> \/ \E e, sequence : AppendAndApply(e, sequence)
  BY DEF Next, vars, RejectProposal, CreateRoot, RotateAuthority, IssueDeviceKey,
         RevokeDeviceKey, IssueSession, ExpireSession, IssueRecoveryAuthority,
         RevokeRecoveryAuthority, ExecuteRecovery, EstablishTrust, UpdateTrust, RevokeTrust,
         Propose, BeginCeremony, CeremonyIssuesDevice, CeremonyRevokesDevice, CeremonyFails,
         FinishBoot, Crash, ReplayEvent, Accept
<1>2. ASSUME NEW e, NEW sequence, AppendAndApply(e, sequence)
      PROVE  /\ Len(event_log') = Len(event_log) + 1
             /\ \A i \in 1 .. Len(event_log) : event_log'[i] = event_log[i]
             /\ \A i \in 1 .. Len(event_log) + 1 : projections'[i] = projections[i]
  <2>1. event_log \in Seq(LogEntry) /\ projections \in Seq(AuthorityState)
           /\ Len(projections) = Len(event_log) + 1
    BY DEF HistoryInv, TypeOK, ReplayOfLog
  <2>2. PICK entry, next : event_log' = Append(event_log, entry)
                           /\ projections' = Append(projections, next)
    BY <1>2 DEF AppendAndApply
  <2> QED BY <2>1, <2>2
<1> QED BY <1>1, <1>2

LEMMA LogAgreesAlways == Spec => []LogAgrees
<1>1. Init => LogAgrees
  <2> SUFFICES ASSUME Init PROVE LogAgrees
    OBVIOUS
  <2>1. Len(event_log) = 0 /\ projections[1] = EmptyAuthorityState
    BY DEF Init
  <2> QED BY <2>1, EmptyAgrees DEF LogAgrees
<1>2. HistoryInv /\ LogAgrees /\ [Next]_vars => LogAgrees'
  <2> SUFFICES ASSUME HistoryInv, LogAgrees, [Next]_vars PROVE LogAgrees'
    OBVIOUS
  <2>1. CASE UNCHANGED <<event_log, projections>>
    BY <2>1 DEF LogAgrees
  <2>2. CASE /\ Len(event_log') = Len(event_log) + 1
             /\ \A i \in 1 .. Len(event_log) : event_log'[i] = event_log[i]
             /\ \A i \in 1 .. Len(event_log) + 1 : projections'[i] = projections[i]
    <3> DEFINE n == Len(event_log)
    <3>1. n \in Nat /\ projections \in Seq(AuthorityState) /\ Len(projections) = n + 1
      BY DEF HistoryInv, TypeOK, ReplayOfLog
    <3>2. ASSUME NEW i \in 0 .. n
          PROVE  Agrees(event_log', projections'[i + 1], i)
      <4>1. projections'[i + 1] = projections[i + 1] /\ projections[i + 1] \in AuthorityState
        BY <2>2, <3>1
      <4>2. Agrees(event_log, projections[i + 1], i)
        BY <3>2 DEF LogAgrees
      <4>3. i \in Nat /\ \A j \in 1 .. i : event_log'[j] = event_log[j]
        BY <2>2, <3>1
      <4> QED BY <4>1, <4>2, <4>3, AgreesByPrefix
    <3>3. HistoryInv'
      BY NextKeepsHistory
    <3>4. /\ event_log'[n + 1] \in LogEntry
          /\ event_log'[n + 1].sequence = n + 1
          /\ projections'[n + 1] \in AuthorityState
          /\ Permits(projections'[n + 1], event_log'[n + 1].event)
          /\ projections'[n + 2] = ApplyEntry(projections'[n + 1], event_log'[n + 1])
      BY <2>2, <3>1, <3>3 DEF HistoryInv, TypeOK, ReplayOfLog, LegalHistory
    <3>5. Agrees(event_log', projections'[n + 1], n)
      BY <3>1, <3>2
    <3>6. Agrees(event_log', projections'[n + 2], n + 1)
      BY <3>1, <3>4, <3>5, EntryAgrees
    <3> QED BY <2>2, <3>1, <3>2, <3>6 DEF LogAgrees
  <2> QED BY <2>1, <2>2, HistoryGrows
<1> QED BY <1>1, <1>2, HistoryAlways, PTL DEF Spec

\* The agreement of a live node's projection with its log.
LEMMA HeldAgrees ==
    ASSUME HistoryInv, LogAgrees, mode = "live"
    PROVE  Agrees(event_log, authority, Len(event_log))
<1>1. Len(event_log) \in Nat
  BY DEF HistoryInv, TypeOK
<1> QED BY <1>1 DEF HistoryInv, Held, LogAgrees

-----------------------------------------------------------------------------
(* Signers, devices and grants. *)

\* "Revoked devices cannot create accepted events": every accepted event was signed by
\* an authority that the log before it had made active and not yet ended.
THEOREM SignersAuthorized == Spec => []SignersWereAuthorized
<1>1. HistoryInv /\ LogAgrees => SignersWereAuthorized
  <2> SUFFICES ASSUME HistoryInv, LogAgrees, NEW i \in 1 .. Len(event_log)
               PROVE  LET e == event_log[i].event
                      IN  \/ i = 1 /\ e.type = "ROOT_AUTHORITY_CREATED"
                          \/ /\ e.type # "ROOT_AUTHORITY_CREATED"
                             /\ \/ IsRootAt(event_log, e.signer, i - 1)
                                \/ Named(DevicesAt(event_log, i - 1), e.signer)
                                \/ Named(RecoveriesAt(event_log, i - 1), e.signer)
    BY DEF SignersWereAuthorized
  <2> DEFINE e == event_log[i].event
             s == projections[i]
  <2>1. i - 1 \in 0 .. Len(event_log) /\ (i - 1) + 1 = i /\ e \in Event
    <3>1. event_log \in Seq(LogEntry) /\ event_log[i] \in LogEntry
      BY DEF HistoryInv, TypeOK
    <3> QED BY <3>1 DEF LogEntry
  <2>2. Agrees(event_log, s, i - 1)
    BY <2>1 DEF LogAgrees
  <2>3. CanIssue(s, e.signer, e.type)
    BY DEF HistoryInv, LegalHistory, Permits
  <2>4. e.type = "ROOT_AUTHORITY_CREATED" => i = 1
    BY <2>1, <2>2, <2>3 DEF CanIssue, RootEvents, DeviceEvents, RecoveryEvents, Agrees
  <2>5. CASE e.type # "ROOT_AUTHORITY_CREATED"
    <3>1. IsActiveRoot(s, e.signer) => IsRootAt(event_log, e.signer, i - 1)
      BY <2>1, <2>2, <2>5, SignersHaveNames DEF IsActiveRoot, Agrees
    <3>2. IsActiveDevice(s, e.signer) => Named(DevicesAt(event_log, i - 1), e.signer)
      BY <2>2, FoundIsActive DEF Agrees
    <3>3. IsActiveRecovery(s, e.signer) => Named(RecoveriesAt(event_log, i - 1), e.signer)
      BY <2>2, FoundIsActive DEF Agrees
    <3> QED BY <2>3, <2>5, <3>1, <3>2, <3>3 DEF CanIssue
  <2> QED BY <2>4, <2>5
<1> QED BY <1>1, HistoryAlways, LogAgreesAlways, PTL

\* A device is found under each of its names unless an older one goes by that name the
\* other way round: the filters of DEVICE_KEY_ISSUED keep ids apart from ids and
\* references from references, and findDevice takes the first match.
THEOREM DevicesFound == Spec => []DevicesAreFound
<1>1. HistoryInv /\ LogAgrees => DevicesAreFound
  <2> SUFFICES ASSUME HistoryInv, LogAgrees, NEW d \in authority.devices
               PROVE  /\ \/ FindDevice(authority, d.id) = {d}
                         \/ \E c \in authority.devices :
                               /\ c.since < d.since /\ c.ref = d.id
                               /\ FindDevice(authority, d.id) = {c}
                      /\ \/ FindDevice(authority, d.ref) = {d}
                         \/ \E c \in authority.devices :
                               /\ c.since < d.since /\ c.id = d.ref
                               /\ FindDevice(authority, d.ref) = {c}
    BY DEF DevicesAreFound
  <2>1. \E i \in Nat : DistinctDevices(authority, i)
    <3> DEFINE i == IF mode = "live" THEN Len(event_log) ELSE cursor
    <3>1. i \in 0 .. Len(event_log) /\ authority = projections[i + 1]
      BY DEF HistoryInv, TypeOK, Held
    <3> QED BY <3>1 DEF LogAgrees, Agrees
  <2>2. \A a, b \in authority.devices : a.id = b.id \/ a.ref = b.ref \/ a.since = b.since => a = b
    BY <2>1 DEF DistinctDevices
  <2>3. \A a \in authority.devices : a.since \in Nat
    BY DEF HistoryInv, TypeOK, AuthorityState, Device, Record
  <2>4. ASSUME NEW c \in authority.devices, c.ref = d.id
        PROVE  FindDevice(authority, d.id) = IF c.since < d.since THEN {c} ELSE {d}
    <3>1. \A a \in authority.devices : GoesBy(a, d.id) <=> a = c \/ a = d
      BY <2>2, <2>4 DEF GoesBy
    <3>2. c.since = d.since => c = d
      BY <2>2
    <3> QED BY <2>3, <3>1, <3>2 DEF FindDevice, FirstOf
  <2>5. ASSUME \A c \in authority.devices : c.ref # d.id
        PROVE  FindDevice(authority, d.id) = {d}
    <3>1. \A a \in authority.devices : GoesBy(a, d.id) <=> a = d
      BY <2>2, <2>5 DEF GoesBy
    <3> QED BY <2>3, <3>1 DEF FindDevice, FirstOf
  <2>6. ASSUME NEW c \in authority.devices, c.id = d.ref
        PROVE  FindDevice(authority, d.ref) = IF c.since < d.since THEN {c} ELSE {d}
    <3>1. \A a \in authority.devices : GoesBy(a, d.ref) <=> a = c \/ a = d
      BY <2>2, <2>6 DEF GoesBy
    <3>2. c.since = d.since => c = d
      BY <2>2
    <3> QED BY <2>3, <3>1, <3>2 DEF FindDevice, FirstOf
  <2>7. ASSUME \A c \in authority.devices : c.id # d.ref
        PROVE  FindDevice(authority, d.ref) = {d}
    <3>1. \A a \in authority.devices : GoesBy(a, d.ref) <=> a = d
      BY <2>2, <2>7 DEF GoesBy
    <3> QED BY <2>3, <3>1 DEF FindDevice, FirstOf
  <2>8. \/ FindDevice(authority, d.id) = {d}
        \/ \E c \in authority.devices :
              c.since < d.since /\ c.ref = d.id /\ FindDevice(authority, d.id) = {c}
    BY <2>4, <2>5
  <2>9. \/ FindDevice(authority, d.ref) = {d}
        \/ \E c \in authority.devices :
              c.since < d.since /\ c.id = d.ref /\ FindDevice(authority, d.ref) = {c}
    BY <2>6, <2>7
  <2> QED BY <2>8, <2>9
<1> QED BY <1>1, HistoryAlways, LogAgreesAlways, PTL

\* A live node's projection has active whom its log issued and did not end: the filters
\* of the registry's apply functions, and the replay, lose and revive nobody.
THEOREM ActiveAsIssued == Spec => []ActiveAuthoritiesAreIssued
<1>1. HistoryInv /\ LogAgrees => ActiveAuthoritiesAreIssued
  <2> SUFFICES ASSUME HistoryInv, LogAgrees, mode = "live"
               PROVE  ActiveAuthoritiesAreIssued
    BY DEF ActiveAuthoritiesAreIssued
  <2>1. Agrees(event_log, authority, Len(event_log))
    BY HeldAgrees
  <2>2. ASSUME NEW r \in Roots
        PROVE  (authority.root = r) <=> IsRootAt(event_log, r, Len(event_log))
    BY <2>1, NamesAssumption DEF Agrees
  <2>3. \A r \in Roots : (authority.root = r) = IsRootAt(event_log, r, Len(event_log))
    BY <2>2, Zenon DEF IsRootAt
  <2> QED BY <2>1, <2>3 DEF Agrees, ActiveAuthoritiesAreIssued
<1> QED BY <1>1, HistoryAlways, LogAgreesAlways, PTL

\* Sessions stand as the log left them, under both their names, and federation trusts
\* follow the last event about them; an expiry or a revocation of what was never issued
\* is accepted and leaves nothing behind.
THEOREM GrantsAsLogged == Spec => []GrantsFollowTheLog
<1>1. HistoryInv /\ LogAgrees => GrantsFollowTheLog
  <2> SUFFICES ASSUME HistoryInv, LogAgrees, mode = "live"
               PROVE  GrantsFollowTheLog
    BY DEF GrantsFollowTheLog
  <2> DEFINE n == Len(event_log)
  <2>1. Agrees(event_log, authority, n)
    BY HeldAgrees
  <2>2. ActiveOf(authority.sessions) = SessionsAt(event_log, n)
    BY <2>1 DEF Agrees
  <2>3. \A x \in Realms :
           (authority.trusts[x] = "active")
             <=> \E i \in 1 .. n : /\ LastOfTrust(event_log, x, i, n)
                                   /\ event_log[i].event.type # "FEDERATION_TRUST_REVOKED"
    BY <2>1 DEF Agrees
  <2> QED BY <2>2, <2>3, Zenon DEF GrantsFollowTheLog
<1> QED BY <1>1, HistoryAlways, LogAgreesAlways, PTL

\* Devices change only by the root, by a device for a name of its own, or as the last
\* recovery says: validateTransition of DEVICE_KEY_ISSUED and DEVICE_KEY_REVOKED.
THEOREM DeviceChangesBacked == Spec => []DeviceChangesAreBacked
<1>1. HistoryInv /\ LogAgrees => DeviceChangesAreBacked
  <2> DEFINE e(i) == event_log[i].event
             Backed(i) ==
                \/ /\ e(i).type = "DEVICE_KEY_REVOKED"
                   /\ \E d \in DevicesAt(event_log, i - 1) :
                         GoesBy(d, e(i).signer) /\ GoesBy(d, e(i).target)
                \/ \E j \in 1 .. i - 1 :
                      LET recovery == event_log[j].event
                      IN  /\ IsRecoveryCaseAt(event_log, j, i)
                          /\ recovery.recoveryRef = e(i).recoveryRef
                          /\ IF e(i).type = "DEVICE_KEY_ISSUED"
                             THEN recovery.newId = e(i).device
                             ELSE \E d \in DevicesAt(event_log, i - 1) :
                                     /\ GoesBy(d, e(i).target)
                                     /\ recovery.oldId = d.id \/ recovery.oldRef = d.ref
  <2> SUFFICES ASSUME HistoryInv, LogAgrees, NEW i \in 1 .. Len(event_log),
                      e(i).type \in {"DEVICE_KEY_ISSUED", "DEVICE_KEY_REVOKED"},
                      ~ IsRootAt(event_log, e(i).signer, i - 1)
               PROVE  Backed(i)
    BY Zenon DEF DeviceChangesAreBacked
  <2> DEFINE ev == event_log[i].event
             s  == projections[i]
  <2>1. i - 1 \in 0 .. Len(event_log) /\ (i - 1) + 1 = i /\ ev \in Event
    <3>1. event_log \in Seq(LogEntry) /\ event_log[i] \in LogEntry
      BY DEF HistoryInv, TypeOK
    <3> QED BY <3>1 DEF LogEntry
  <2>1a. s \in AuthorityState
    <3>1. projections \in Seq(AuthorityState) /\ Len(projections) = Len(event_log) + 1
             /\ Len(event_log) \in Nat
      BY DEF HistoryInv, TypeOK, ReplayOfLog
    <3> QED BY <3>1
  <2>2. Agrees(event_log, s, i - 1)
    BY <2>1 DEF LogAgrees
  <2>3. Permits(s, ev)
    BY DEF HistoryInv, LegalHistory
  <2>4. ActiveOf(s.devices) = DevicesAt(event_log, i - 1)
    BY <2>2 DEF Agrees
  <2> HIDE DEF ev, s
  <2>5. ~ IsActiveRoot(s, ev.signer)
    BY <2>1, <2>2, SignersHaveNames DEF Agrees, IsActiveRoot, ev
  <2>6. ASSUME InRecoveryCase(s, ev)
        PROVE  \E j \in 1 .. i - 1 :
                  /\ IsRecoveryCaseAt(event_log, j, i)
                  /\ event_log[j].event.recoveryRef = ev.recoveryRef
                  /\ event_log[j].event.newId = s.lastRecovery.newId
                  /\ event_log[j].event.oldId = s.lastRecovery.oldId
                  /\ event_log[j].event.oldRef = s.lastRecovery.oldRef
    <3>1. PICK j \in 1 .. i - 1 :
             /\ IsRecoveryCaseAt(event_log, j, i - 1 + 1)
             /\ s.lastRecovery = CaseOf(event_log[j].event)
      BY <2>2, <2>6 DEF Agrees, InRecoveryCase
    <3>2. IsRecoveryCaseAt(event_log, j, i)
      BY <2>1, <3>1
    <3> QED BY <2>6, <3>1, <3>2 DEF InRecoveryCase, CaseOf
  <2>7. CASE ev.type = "DEVICE_KEY_ISSUED"
    <3>1. InRecoveryCase(s, ev) /\ s.lastRecovery.newId = ev.device
      BY <2>3, <2>5, <2>7 DEF Permits, ValidTransition, ValidDeviceIssued
    <3> QED BY <2>6, <2>7, <3>1 DEF ev
  <2>8. CASE ev.type = "DEVICE_KEY_REVOKED"
    <3>1. PICK d \in FindDevice(s, ev.target) :
             /\ d.status = "active"
             /\ \/ IsActiveRecovery(s, ev.signer)
                \/ \E own \in FindDevice(s, ev.signer) : GoesBy(own, ev.target)
             /\ IsActiveRecovery(s, ev.signer) =>
                   /\ InRecoveryCase(s, ev)
                   /\ s.lastRecovery.oldId = d.id \/ s.lastRecovery.oldRef = d.ref
      BY <2>3, <2>5, <2>8 DEF Permits, ValidTransition, ValidDeviceRevoked
    <3>2. d \in DevicesAt(event_log, i - 1) /\ GoesBy(d, ev.target)
      BY <2>4, <3>1 DEF FindDevice, FirstOf, ActiveOf
    <3>3. CASE IsActiveRecovery(s, ev.signer)
      BY <2>6, <2>8, <3>1, <3>2, <3>3 DEF ev
    <3>4. CASE ~ IsActiveRecovery(s, ev.signer)
      <4>1. IsActiveDevice(s, ev.signer)
        BY <2>3, <2>5, <2>8, <3>4 DEF Permits, CanIssue
      <4>2. PICK own \in FindDevice(s, ev.signer) : GoesBy(own, ev.target)
        BY <3>1, <3>4
      <4>3. PICK found \in FindDevice(s, ev.signer) : found.status = "active"
        BY <4>1 DEF IsActiveDevice
      <4>4. own \in s.devices /\ found \in s.devices
               /\ own.since <= found.since /\ found.since <= own.since
        BY <4>2, <4>3 DEF FindDevice, FirstOf
      <4>4a. own.since \in Nat /\ found.since \in Nat
        BY <2>1a, <4>4 DEF AuthorityState, Device, Record
      <4>4b. own = found
        BY <2>2, <4>4, <4>4a DEF Agrees, DistinctDevices
      <4> QED BY <2>4, <2>8, <4>2, <4>3, <4>4b DEF FindDevice, FirstOf, ActiveOf, ev
    <3> QED BY <3>3, <3>4
  <2> QED BY <2>7, <2>8 DEF ev
<1> QED BY <1>1, HistoryAlways, LogAgreesAlways, PTL

=============================================================================
