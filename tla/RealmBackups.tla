------------------------------ MODULE RealmBackups ------------------------------
(***************************************************************************)
(* Snapshots of the authority projection (realm-snapshot.js), backups of a *)
(* realm and their restore (realm-backup-restore.js) and the integrity     *)
(* check a restore ends with (realm-integrity-check.js), as an operator    *)
(* uses them: backups and snapshots rot at rest, and a restored history is *)
(* taken for the realm's and goes on from there.                           *)
(*                                                                         *)
(* An event says of one subject what is known of it, and says it twice:    *)
(* in the fields the hash covers (realmEventHashMaterial) and in the       *)
(* envelope, which is what the replay applies (applyAuthorityEvent); they  *)
(* agree where the realm made the event, and nothing compares them later.  *)
(* A hash is chained over all events before it, so it is represented by    *)
(* the hashed fields of them all.  Only events of the realm's own          *)
(* contracts are here, and their sequences are their places: envelopes     *)
(* that lose their sequence or have no known type are left out, as are     *)
(* version fields and the heads of federated realms.                       *)
(***************************************************************************)
EXTENDS Naturals, Sequences, FiniteSets, SequencesExt

CONSTANTS
    Subjects,
    Values,         \* what may be known of a subject
    MaxEvents,      \* bound: events of a history
    MaxBackups      \* bound: backups of a run

BackupsAssumption == MaxEvents \in Nat /\ MaxBackups \in Nat

VARIABLES
    history,    \* the realm's event_log
    records,    \* the command execution store: hashes of the events it refers to
    backups,    \* backup artifacts, each with the history it was made of
    restored    \* what the last restore gave, from which backup and with which records

backupVars == <<history, records, backups, restored>>

Nothing == "nothing"
NoHash == <<>>      \* null, in the place of a hash
Contents == [subject : Subjects, value : Values]
Events == [subject : Subjects, value : Values, envelope : Values]

\* assembleRealmEvent: the fields beside the envelope are copies of it.
NewEvent(content) ==
    [subject |-> content.subject, value |-> content.value, envelope |-> content.value]

Prefix(h, n) == SubSeq(h, 1, IF n < Len(h) THEN n ELSE Len(h))

\* realmEventHashMaterial, of each event of a history.
Hashed(h) == [i \in DOMAIN h |-> [subject |-> h[i].subject, value |-> h[i].value]]

\* The stored form of a history: each event with its hash.
Stored(h) == [i \in DOMAIN h |-> [event |-> h[i], hash |-> Prefix(Hashed(h), i)]]

EventsOf(log) == [i \in DOMAIN log |-> log[i].event]

\* verifyRealmEventHistory
ChainHolds(log) == \A i \in DOMAIN log : log[i].hash = Prefix(Hashed(EventsOf(log)), i)

\* latestRealmEventHash: null for an empty history.
LatestHash(log) == IF log = <<>> THEN NoHash ELSE log[Len(log)].hash

\* What the envelope says is applied, whatever the hashed fields say.
ApplyAuthorityEvent(projection, e) == [projection EXCEPT ![e.subject] = e.envelope]

\* buildCurrentAuthorityState
Replay(h) == FoldLeft(ApplyAuthorityEvent, [s \in Subjects |-> Nothing], h)

\* createRealmSnapshot: of any sequence number, beyond the last event too; that one has
\* no head and does not verify later.
Snapshot(h, last) ==
    [last |-> last, head |-> IF last \in DOMAIN h THEN Prefix(Hashed(h), last) ELSE NoHash,
     projection |-> Replay(Prefix(h, last))]

\* Slip: the projection is taken as it is in the file.
SnapshotHeadHolds(log, s) ==
    /\ ChainHolds(log)
    /\ IF s.last = 0 THEN s.head = NoHash
       ELSE s.last \in DOMAIN log /\ log[s.last].hash = s.head

\* verifyRealmSnapshot
SnapshotHolds(log, s) ==
    /\ ChainHolds(log)
    /\ IF s.last = 0 THEN s.head = NoHash
       ELSE s.last \in DOMAIN log /\ log[s.last].hash = s.head
    /\ s.projection = Replay(Prefix(EventsOf(log), s.last))

\* rebuildFromSnapshot, of a snapshot that verified: the rest of the history on top.
Rebuilt(h, s) ==
    FoldLeft(ApplyAuthorityEvent, s.projection, SubSeq(h, s.last + 1, Len(h)))

\* Slip: the chain vouches for the history, the head is not compared.
ChainedBackupHolds(b) ==
    /\ ChainHolds(b.log)
    /\ \A s \in b.snapshot : SnapshotHolds(b.log, s)

\* verifyBackupArtifact: a head that is missing is not asked for; a snapshot alone
\* verifies as a cache, from which nothing is restored.
BackupHolds(b) ==
    /\ ChainHolds(b.log)
    /\ b.head # NoHash => b.head = LatestHash(b.log)
    /\ \A s \in b.snapshot : SnapshotHolds(b.log, s)

\* verifyCommandExecutionBoundary, when a store is supplied.
RecordsHold(log, known) == \A hash \in known : \E i \in DOMAIN log : log[i].hash = hash

Init ==
    /\ history = <<>>
    /\ records = {}
    /\ backups = {} /\ restored = {}

\* A command appends an event; its execution record may be kept.
AppendEvent(content, recorded) ==
    /\ Len(history) < MaxEvents
    /\ history' = Append(history, NewEvent(content))
    /\ records' = IF recorded THEN records \cup {Hashed(history')} ELSE records
    /\ UNCHANGED <<backups, restored>>

\* createBackupArtifact, with a snapshot of the history up to some event or without.
TakeBackup(included) ==
    /\ Cardinality(backups) < MaxBackups
    /\ backups' = backups \cup
          {[log |-> Stored(history), head |-> LatestHash(Stored(history)), of |-> history,
            snapshot |-> {Snapshot(history, last) : last \in included}]}
    /\ UNCHANGED <<history, records, restored>>

\* What rot does to an artifact: its tail or its head is lost, an event changes, in the
\* hashed fields or in the envelope, or the snapshot's projection.
Rotten(b) ==
    {[b EXCEPT !.log = SubSeq(@, 1, n)] : n \in 0..(Len(b.log) - 1)}
        \cup {[b EXCEPT !.head = NoHash]}
        \cup {[b EXCEPT !.log = [@ EXCEPT ![i].event = e]] : i \in DOMAIN b.log, e \in Events}
        \cup {[b EXCEPT !.log = RemoveAt(@, i)] : i \in DOMAIN b.log}
        \cup {[b EXCEPT !.snapshot = {[s EXCEPT !.projection[e.subject] = e.value]}] :
                s \in b.snapshot, e \in Contents}

Rot(b) ==
    /\ \E r \in Rotten(b) : backups' = (backups \ {b}) \cup {r}
    /\ UNCHANGED <<history, records, restored>>

\* restoreRealmFromBackup, with the execution store or without, and what it gives taken
\* for the realm.
Restore(b, supplied) ==
    /\ BackupHolds(b)
    /\ supplied => RecordsHold(b.log, records)
    /\ history' = EventsOf(b.log)
    /\ restored' = {[history |-> history', from |-> b,
                     answered |-> IF supplied THEN records ELSE {}]}
    /\ UNCHANGED <<records, backups>>

Next ==
    \/ \E content \in Contents, recorded \in BOOLEAN : AppendEvent(content, recorded)
    \/ \E included \in {{}} \cup {{last} : last \in 0..MaxEvents} : TakeBackup(included)
    \/ \E b \in backups : Rot(b) \/ \E supplied \in BOOLEAN : Restore(b, supplied)

Spec == Init /\ [][Next]_backupVars

-----------------------------------------------------------------------------

TypeOK ==
    /\ history \in Seq(Events) /\ Len(history) <= MaxEvents
    /\ \A hash \in records : hash \in Seq(Contents)
    /\ \A b \in backups : EventsOf(b.log) \in Seq(Events) /\ b.of \in Seq(Events)

\* A restore gives the history that was backed up, or less of it, as far as the hashed
\* fields tell: less only when the artifact had lost its head as well, and never less
\* than the execution records it was given answer for.  For the envelopes, which the
\* replay applies, only a snapshot in the artifact vouches: up to where it was made, the
\* restored realm stands as the one that was backed up did.
RestoresAreTrue ==
    \A r \in restored :
        /\ IsPrefix(Hashed(r.history), Hashed(r.from.of))
        /\ r.from.head # NoHash => Hashed(r.history) = Hashed(r.from.of)
        /\ \A hash \in r.answered : IsPrefix(hash, Hashed(r.history))
        /\ \A s \in r.from.snapshot :
              s = Snapshot(r.from.of, s.last)
                 => Replay(Prefix(r.history, s.last)) = Replay(Prefix(r.from.of, s.last))

\* A snapshot that verifies against the realm as it is now, after events, restores and
\* rot, rebuilds what the whole history says.
SnapshotsRebuildTheReplay ==
    \A s \in UNION {b.snapshot : b \in backups} :
        SnapshotHolds(Stored(history), s) => Rebuilt(history, s) = Replay(history)

=============================================================================
