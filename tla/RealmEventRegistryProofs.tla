----------------------- MODULE RealmEventRegistryProofs -----------------------
(***************************************************************************)
(* What apply makes of a projection, for every set of names: the lemmas    *)
(* the proofs about RealmPipeline and RealmReplication share.              *)
(***************************************************************************)
EXTENDS RealmEventRegistry, Induction

-----------------------------------------------------------------------------
(* The projection. *)

\* The payload of an event of each type, and so the fields apply reads.
LEMMA EventShapes ==
    ASSUME NEW e \in Event
    PROVE  /\ e.type \in {"ROOT_AUTHORITY_CREATED", "AUTHORITY_ROTATED"} => e.root \in Roots
           /\ e.type = "DEVICE_KEY_ISSUED" => e.device \in DeviceIds /\ e.ref \in DeviceRefs
           /\ e.type = "RECOVERY_AUTHORITY_ISSUED" =>
                 e.recovery \in Recoveries /\ e.ref \in RecoveryAliases
           /\ e.type = "SESSION_AUTHORITY_ISSUED" =>
                 e.session \in Sessions /\ e.ref \in SessionRefs
           /\ e.type = "RECOVERY_EXECUTED" =>
                 /\ e.recoveryRef \in RecoveryRefs
                 /\ e.oldId \in DeviceIds
                 /\ e.oldRef \in DeviceNames
                 /\ e.newId \in DeviceIds
  BY DEF Event, RootCreated, RootRotated, DeviceIssued, DeviceRevoked, SessionIssued,
         SessionExpired, RecoveryIssued, RecoveryRevoked, RecoveryExecuted,
         TrustEstablished, TrustUpdated, TrustRevoked

LEMMA EmptyIsState == EmptyAuthorityState \in AuthorityState
  BY DEF EmptyAuthorityState, AuthorityState

LEMMA NewRecordType ==
    ASSUME NEW ids, NEW refs, NEW ended,
           NEW id \in ids, NEW ref \in refs, NEW since \in Nat
    PROVE  NewRecord(id, ref, since) \in Record(ids, refs, ended)
  BY DEF NewRecord, Record

LEMMA WithRecordType ==
    ASSUME NEW R, NEW records \in SUBSET R, NEW new \in R
    PROVE  WithRecord(records, new) \in SUBSET R
  BY DEF WithRecord

LEMMA EndedType ==
    ASSUME NEW ids, NEW refs, NEW ended, NEW records \in SUBSET Record(ids, refs, ended),
           NEW name
    PROVE  Ended(records, name, ended) \in SUBSET Record(ids, refs, ended)
  BY DEF Ended, Record

\* apply takes a projection to a projection, and records the sequence.
LEMMA ApplyEntryType ==
    ASSUME NEW s \in AuthorityState, NEW entry \in [event : Event, sequence : Nat]
    PROVE  /\ ApplyEntry(s, entry) \in AuthorityState
           /\ ApplyEntry(s, entry).lastSequence = entry.sequence
<1> DEFINE e == entry.event
           n == entry.sequence
<1>0. e \in Event /\ n \in Nat
  OBVIOUS
<1>0a. s.devices \in SUBSET Device /\ s.recoveries \in SUBSET Recovery
          /\ s.sessions \in SUBSET Session
  BY DEF AuthorityState
<1> HIDE DEF e, n
<1>1. RootAfter(s, e) \in Roots \cup {None}
  BY <1>0, EventShapes DEF RootAfter, AuthorityState
<1>2. RecoveriesAfter(s, e, n) \in SUBSET Recovery
  <2>1. e.type = "RECOVERY_AUTHORITY_ISSUED" => NewRecord(e.recovery, e.ref, n) \in Recovery
    BY <1>0, EventShapes, NewRecordType DEF Recovery
  <2>2. Ended(s.recoveries, e.target, "revoked") \in SUBSET Recovery
    BY <1>0a, EndedType DEF Recovery
  <2> QED BY <1>0a, <2>1, <2>2, WithRecordType DEF RecoveriesAfter
<1>3. DevicesAfter(s, e, n) \in SUBSET Device
  <2>1. e.type = "DEVICE_KEY_ISSUED" => NewRecord(e.device, e.ref, n) \in Device
    BY <1>0, EventShapes, NewRecordType DEF Device
  <2>2. Ended(s.devices, e.target, "revoked") \in SUBSET Device
    BY <1>0a, EndedType DEF Device
  <2> QED BY <1>0a, <2>1, <2>2, WithRecordType DEF DevicesAfter
<1>4. SessionsAfter(s, e, n) \in SUBSET Session
  <2>1. e.type = "SESSION_AUTHORITY_ISSUED" => NewRecord(e.session, e.ref, n) \in Session
    BY <1>0, EventShapes, NewRecordType DEF Session
  <2>2. Ended(s.sessions, e.target, "expired") \in SUBSET Session
    BY <1>0a, EndedType DEF Session
  <2> QED BY <1>0a, <2>1, <2>2 DEF SessionsAfter
<1>5. TrustsAfter(s, e) \in [Realms -> {"none", "active", "revoked"}]
  BY DEF TrustsAfter, AuthorityState
<1>6. LastRecoveryAfter(s, e) \in RecoveryCase \cup {None}
  BY <1>0, EventShapes DEF LastRecoveryAfter, RecoveryCase, AuthorityState
<1> QED
  BY <1>0, <1>1, <1>2, <1>3, <1>4, <1>5, <1>6 DEF ApplyEntry, AuthorityState, e, n

\* What issuing leaves active: the records whose names it does not take, and the new one.
LEMMA ActiveAfterIssuing ==
    ASSUME NEW records, NEW new, new.status = "active"
    PROVE  {r \in WithRecord(records, new) : r.status = "active"}
              = {r \in {q \in records : q.status = "active"} :
                    r.id # new.id /\ r.ref # new.ref} \cup {new}
  BY DEF WithRecord

\* What ending leaves active: the records that do not go by the name.
LEMMA ActiveAfterEnding ==
    ASSUME NEW ids, NEW refs, NEW ended, ended # "active",
           NEW records \in SUBSET Record(ids, refs, ended), NEW name
    PROVE  {r \in Ended(records, name, ended) : r.status = "active"}
              = {r \in {q \in records : q.status = "active"} : ~ GoesBy(r, name)}
<1>1. \A r \in records : [r EXCEPT !.status = ended].status = ended
  BY DEF Record
<1> QED BY <1>1 DEF Ended

-----------------------------------------------------------------------------
(* The replay of a log. *)

\* states[i + 1] is the projection after the first i entries of the log.
Replays(log, states) ==
    /\ Len(states) = Len(log) + 1
    /\ states[1] = EmptyAuthorityState
    /\ \A i \in 1 .. Len(log) : states[i + 1] = ApplyEntry(states[i], log[i])

\* Logs that agree up to a point have the same projection there.
LEMMA ReplaysAgree ==
    ASSUME NEW E, NEW log \in Seq(E), NEW other \in Seq(E), NEW states, NEW others,
           Replays(log, states), Replays(other, others),
           NEW n \in 0 .. Len(log), n <= Len(other),
           \A i \in 1 .. n : log[i] = other[i]
    PROVE  states[n + 1] = others[n + 1]
<1> DEFINE T == {m \in Nat : m <= n => states[m + 1] = others[m + 1]}
<1>1. 0 \in T
  BY DEF Replays
<1>2. ASSUME NEW m \in Nat, m \in T PROVE m + 1 \in T
  <2> SUFFICES ASSUME m + 1 <= n PROVE states[(m + 1) + 1] = others[(m + 1) + 1]
    OBVIOUS
  <2>1. m + 1 \in 1 .. Len(log) /\ m + 1 \in 1 .. Len(other) /\ m + 1 \in 1 .. n
    OBVIOUS
  <2>2. states[m + 1] = others[m + 1]
    BY <1>2
  <2> QED BY <2>1, <2>2 DEF Replays
<1> HIDE DEF T
<1>3. n \in T
  BY <1>1, <1>2, InductionOnSet
<1> QED BY <1>3 DEF T

\* A log grows by one entry, its replay by what apply makes of the last projection.
LEMMA ReplayExtends ==
    ASSUME NEW E, NEW log \in Seq(E), NEW states \in Seq(AuthorityState),
           Replays(log, states), NEW entry \in E,
           NEW next, next = ApplyEntry(states[Len(states)], entry), next \in AuthorityState
    PROVE  Replays(Append(log, entry), Append(states, next))
<1> DEFINE n  == Len(log)
           l2 == Append(log, entry)
           s2 == Append(states, next)
<1>1. n \in Nat /\ Len(states) = n + 1
  BY DEF Replays
<1>2. /\ Len(l2) = n + 1 /\ Len(s2) = n + 2
      /\ \A i \in 1 .. n : l2[i] = log[i]
      /\ l2[n + 1] = entry
      /\ \A i \in 1 .. n + 1 : s2[i] = states[i]
      /\ s2[n + 2] = next
  BY <1>1
<1>3. s2[1] = EmptyAuthorityState
  BY <1>1, <1>2 DEF Replays
<1>4. ASSUME NEW i \in 1 .. n + 1
      PROVE  s2[i + 1] = ApplyEntry(s2[i], l2[i])
  <2>1. CASE i \in 1 .. n
    <3>1. i \in 1 .. n + 1 /\ i + 1 \in 1 .. n + 1
      BY <1>1, <2>1
    <3>2. s2[i] = states[i] /\ s2[i + 1] = states[i + 1] /\ l2[i] = log[i]
      BY <1>2, <2>1, <3>1
    <3>3. states[i + 1] = ApplyEntry(states[i], log[i])
      BY <2>1 DEF Replays
    <3> QED BY <3>2, <3>3
  <2>2. CASE i = n + 1
    <3>1. s2[i] = states[n + 1] /\ l2[i] = entry /\ s2[i + 1] = next
      BY <1>1, <1>2, <2>2
    <3> QED BY <1>1, <3>1
  <2> QED BY <1>1, <2>1, <2>2
<1> HIDE DEF l2, s2
<1>5. Replays(l2, s2)
  BY <1>1, <1>2, <1>3, <1>4 DEF Replays
<1> QED BY <1>5 DEF l2, s2

=============================================================================
