--------------------------- MODULE RealmBackupsProofs ---------------------------
(***************************************************************************)
(* RestoresAreTrue and SnapshotsRebuildTheReplay, for histories of any     *)
(* length and any number of backups, whatever rot does to them and however *)
(* often the realm was restored.                                           *)
(***************************************************************************)
EXTENDS RealmBackups, Induction, SequenceTheorems

History == Seq(Events)
Hashes  == Seq(Contents)

Entries == [event : Events, hash : Hashes]

\* An artifact, of whose snapshots nothing is said here.
Artifact(b) ==
    \E snapshots : b \in [log : Seq(Entries), head : Hashes, of : History, snapshot : snapshots]

\* What rot leaves true of an artifact, as it changes no hash: an entry's hash is one of
\* the history that was backed up, and the head is the hash of all of it or gone.
FromItsHistory(b) ==
    /\ \A i \in DOMAIN b.log : \E n \in 0..Len(b.of) : b.log[i].hash = SubSeq(Hashed(b.of), 1, n)
    /\ b.head \in {NoHash, Hashed(b.of)}

BackupInv ==
    /\ history \in History
    /\ records \subseteq Hashes
    /\ \A b \in backups : Artifact(b) /\ FromItsHistory(b)
    /\ RestoresAreTrue

-----------------------------------------------------------------------------

LEMMA SubSeqIsPrefix ==
    ASSUME NEW S, NEW h \in Seq(S), NEW n \in 0..Len(h)
    PROVE  /\ SubSeq(h, 1, n) \in Seq(S) /\ Len(SubSeq(h, 1, n)) = n
           /\ IsPrefix(SubSeq(h, 1, n), h)
<1>1. /\ SubSeq(h, 1, n) \in Seq(S) /\ Len(SubSeq(h, 1, n)) = n
      /\ \A i \in 1..n : SubSeq(h, 1, n)[i] = h[i]
  BY SubSeqProperties
<1>2. SubSeq(SubSeq(h, 1, n), 1, Len(SubSeq(h, 1, n))) = SubSeq(h, 1, n)
  BY <1>1, SubSeqFull
<1> QED BY <1>1, <1>2 DEF IsPrefix

LEMMA WholeIsPrefix ==
    ASSUME NEW S, NEW h \in Seq(S)
    PROVE  SubSeq(h, 1, Len(h)) = h /\ Prefix(h, Len(h)) = h /\ IsPrefix(h, h)
  BY SubSeqFull DEF Prefix, IsPrefix

LEMMA LengthIsUnique == \A m, n \in Nat : 1..m = 1..n => m = n
<1>1. ASSUME NEW m \in Nat, NEW n \in Nat, 1..m = 1..n
      PROVE  m <= n
  <2>1. m = 0 \/ m \in 1..m
    OBVIOUS
  <2> QED BY <1>1, <2>1
<1> QED BY <1>1

LEMMA EventsAreHistory ==
    ASSUME NEW log \in Seq(Entries)
    PROVE  EventsOf(log) \in History /\ Len(EventsOf(log)) = Len(log)
<1>1. Len(log) \in Nat /\ DOMAIN log = 1..Len(log) /\ \A i \in 1..Len(log) : log[i] \in Entries
  BY LenProperties
<1>2. EventsOf(log) \in [1..Len(log) -> Events]
  BY <1>1 DEF EventsOf, Entries
<1>3. EventsOf(log) \in Seq(Events)
  BY <1>1, <1>2, SeqDef
<1>4. DOMAIN EventsOf(log) = 1..Len(EventsOf(log)) /\ Len(EventsOf(log)) \in Nat
  BY <1>3, LenProperties
<1>5. DOMAIN EventsOf(log) = 1..Len(log)
  BY <1>2
<1>6. Len(EventsOf(log)) = Len(log)
  BY <1>1, <1>4, <1>5, LengthIsUnique
<1> QED BY <1>3, <1>6 DEF History

\* The hashed fields of a history are as many as its events.
LEMMA HashedType ==
    ASSUME NEW h \in History
    PROVE  Hashed(h) \in Hashes /\ Hashed(h) \in Seq(Contents) /\ Len(Hashed(h)) = Len(h)
<1>1. Len(h) \in Nat /\ DOMAIN h = 1..Len(h) /\ \A i \in 1..Len(h) : h[i] \in Events
  BY LenProperties DEF History
<1>2. Hashed(h) \in [1..Len(h) -> Contents]
  BY <1>1 DEF Hashed, Events, Contents
<1>3. Hashed(h) \in Seq(Contents)
  BY <1>1, <1>2, SeqDef
<1>4. DOMAIN Hashed(h) = 1..Len(Hashed(h)) /\ Len(Hashed(h)) \in Nat
  BY <1>3, LenProperties
<1>5. DOMAIN Hashed(h) = 1..Len(h)
  BY <1>2
<1>6. Len(Hashed(h)) = Len(h)
  BY <1>1, <1>4, <1>5, LengthIsUnique
<1> QED BY <1>3, <1>6 DEF Hashes

\* What a chain that holds says of the whole log: its latest hash is that of all its
\* hashed fields, and each hash is a prefix of them.
LEMMA ChainTells ==
    ASSUME NEW log \in Seq(Entries), ChainHolds(log)
    PROVE  /\ log # <<>> => log[Len(log)].hash = Hashed(EventsOf(log))
           /\ \A i \in DOMAIN log : IsPrefix(log[i].hash, Hashed(EventsOf(log)))
<1> DEFINE told == Hashed(EventsOf(log))
<1>1. told \in Seq(Contents) /\ Len(told) = Len(log)
  BY EventsAreHistory, HashedType
<1>2. log # <<>> => Len(log) \in DOMAIN log
  OBVIOUS
<1>3. \A i \in DOMAIN log : i \in 0..Len(told)
  BY <1>1, LenProperties
<1>4. \A i \in DOMAIN log : log[i].hash = Prefix(told, i)
  BY DEF ChainHolds
<1> HIDE DEF told
<1>5. \A i \in DOMAIN log : log[i].hash = SubSeq(told, 1, i)
  BY <1>1, <1>3, <1>4 DEF Prefix
<1>6. log # <<>> => log[Len(log)].hash = told
  BY <1>1, <1>2, <1>5, WholeIsPrefix
<1>7. \A i \in DOMAIN log : IsPrefix(log[i].hash, told)
  BY <1>1, <1>3, <1>5, SubSeqIsPrefix
<1> QED BY <1>6, <1>7 DEF told

\* What a backup that verifies restores.
LEMMA HeldBackupIsTrue ==
    ASSUME NEW b, Artifact(b), FromItsHistory(b), BackupHolds(b)
    PROVE  /\ IsPrefix(Hashed(EventsOf(b.log)), Hashed(b.of))
           /\ b.head # NoHash => Hashed(EventsOf(b.log)) = Hashed(b.of)
<1>1. /\ b.log \in Seq(Entries) /\ b.of \in History /\ ChainHolds(b.log)
      /\ Hashed(b.of) \in Seq(Contents) /\ Len(Hashed(b.of)) = Len(b.of)
  BY HashedType DEF Artifact, BackupHolds
<1>2. CASE b.log = <<>>
  <2>1. Hashed(EventsOf(b.log)) = <<>>
    BY <1>2 DEF EventsOf, Hashed
  <2>2. b.head = NoHash
    BY <1>2 DEF BackupHolds, LatestHash
  <2>3. IsPrefix(<<>>, Hashed(b.of))
    BY <1>1, SubSeqIsPrefix DEF IsPrefix
  <2> QED BY <2>1, <2>2, <2>3
<1>3. CASE b.log # <<>>
  <2>1. b.log[Len(b.log)].hash = Hashed(EventsOf(b.log)) /\ Len(b.log) \in DOMAIN b.log
    BY <1>1, <1>3, ChainTells
  <2>2. \E n \in 0..Len(Hashed(b.of)) : Hashed(EventsOf(b.log)) = SubSeq(Hashed(b.of), 1, n)
    BY <1>1, <2>1 DEF FromItsHistory
  <2>3. b.head # NoHash => b.head = Hashed(EventsOf(b.log))
    BY <1>3, <2>1 DEF BackupHolds, LatestHash
  <2> QED BY <1>1, <2>2, <2>3, SubSeqIsPrefix DEF FromItsHistory
<1> QED BY <1>2, <1>3

\* An artifact whose hashes are those of another one, for the same history.
LEMMA HashesKept ==
    ASSUME NEW b, FromItsHistory(b), NEW r, NEW log \in Seq(Entries), NEW snapshots,
           r.log = log, r.of = b.of, r.head \in {NoHash, b.head},
           r \in [log : Seq(Entries), head : Hashes, of : History, snapshot : snapshots],
           \A j \in DOMAIN log : \E k \in DOMAIN b.log : log[j].hash = b.log[k].hash
    PROVE  Artifact(r) /\ FromItsHistory(r)
<1>1. Artifact(r)
  BY DEF Artifact
<1>2. \A j \in DOMAIN r.log : \E n \in 0..Len(r.of) : r.log[j].hash = SubSeq(Hashed(r.of), 1, n)
  BY DEF FromItsHistory
<1>3. r.head \in {NoHash, Hashed(r.of)}
  BY DEF FromItsHistory
<1> QED BY <1>1, <1>2, <1>3 DEF FromItsHistory

\* One entry of a log lost.
LEMMA EntryLost ==
    ASSUME NEW S, NEW log \in Seq(S), NEW i \in DOMAIN log
    PROVE  /\ RemoveAt(log, i) \in Seq(S) /\ Len(RemoveAt(log, i)) = Len(log) - 1
           /\ \A j \in DOMAIN RemoveAt(log, i) :
                 \E k \in DOMAIN log : RemoveAt(log, i)[j] = log[k]
<1> DEFINE before == SubSeq(log, 1, i - 1)
           after == SubSeq(log, i + 1, Len(log))
<1>1. DOMAIN log = 1..Len(log) /\ Len(log) \in Nat /\ \A k \in 1..Len(log) : log[k] \in S
  BY LenProperties, ElementOfSeq
<1>2. before \in Seq(S) /\ Len(before) = i - 1 /\ \A j \in 1..(i - 1) : before[j] = log[j]
  BY <1>1, SubSeqProperties
<1>3. after \in Seq(S) /\ Len(after) = Len(log) - i
      /\ \A j \in 1..(Len(log) - i) : after[j] = log[i + j]
  BY <1>1, SubSeqProperties
<1>4. RemoveAt(log, i) = before \o after
  BY DEF RemoveAt
<1> HIDE DEF before, after
<1> DEFINE rest == before \o after
<1>5. rest \in Seq(S) /\ Len(rest) = Len(log) - 1 /\ DOMAIN rest = 1..(Len(log) - 1)
      /\ \A j \in 1..(Len(log) - 1) : rest[j] = IF j <= i - 1 THEN log[j] ELSE log[j + 1]
  <2>1. rest \in Seq(S) /\ Len(rest) = Len(before) + Len(after)
        /\ \A j \in 1..(Len(before) + Len(after)) :
               rest[j] = IF j <= Len(before) THEN before[j] ELSE after[j - Len(before)]
    BY <1>2, <1>3, ConcatProperties
  <2> HIDE DEF rest
  <2>2. Len(before) + Len(after) = Len(log) - 1
    BY <1>1, <1>2, <1>3
  <2>3. ASSUME NEW j \in 1..(Len(log) - 1)
        PROVE  rest[j] = IF j <= i - 1 THEN log[j] ELSE log[j + 1]
    <3>1. CASE j <= i - 1
      BY <1>1, <1>2, <2>1, <2>2, <3>1
    <3>2. CASE ~ j <= i - 1
      <4>1. rest[j] = after[j - (i - 1)] /\ j - (i - 1) \in 1..(Len(log) - i)
        BY <1>1, <1>2, <2>1, <2>2, <3>2
      <4>2. i + (j - (i - 1)) = j + 1
        BY <1>1
      <4> QED BY <1>3, <3>2, <4>1, <4>2
    <3> QED BY <3>1, <3>2
  <2>4. DOMAIN rest = 1..(Len(log) - 1)
    BY <2>1, <2>2, LenProperties
  <2> QED BY <2>1, <2>2, <2>3, <2>4
<1> HIDE DEF rest
<1>6. \A j \in DOMAIN rest : \E k \in DOMAIN log : rest[j] = log[k]
  <2> TAKE j \in DOMAIN rest
  <2>1. CASE j <= i - 1
    <3>1. rest[j] = log[j] /\ j \in DOMAIN log
      BY <1>1, <1>5, <2>1
    <3> QED BY <3>1
  <2>2. CASE ~ j <= i - 1
    <3>1. rest[j] = log[j + 1] /\ j + 1 \in DOMAIN log
      BY <1>1, <1>5, <2>2
    <3> QED BY <3>1
  <2> QED BY <2>1, <2>2
<1>7. RemoveAt(log, i) = rest
  BY <1>4 DEF rest
<1> QED BY <1>5, <1>6, <1>7

LEMMA RotKeeps ==
    ASSUME NEW b, Artifact(b), FromItsHistory(b), NEW r \in Rotten(b)
    PROVE  Artifact(r) /\ FromItsHistory(r)
<1> PICK snapshots : b \in [log : Seq(Entries), head : Hashes, of : History, snapshot : snapshots]
  BY DEF Artifact
<1>a. b.log \in Seq(Entries) /\ DOMAIN b.log = 1..Len(b.log) /\ Len(b.log) \in Nat
      /\ \A k \in DOMAIN b.log : b.log[k] \in Entries
  BY LenProperties, ElementOfSeq
<1>1. ASSUME NEW n \in 0..(Len(b.log) - 1), r = [b EXCEPT !.log = SubSeq(@, 1, n)]
      PROVE  Artifact(r) /\ FromItsHistory(r)
  <2> DEFINE log == SubSeq(b.log, 1, n)
  <2>1. log \in Seq(Entries) /\ Len(log) = n /\ DOMAIN log = 1..n
        /\ \A j \in DOMAIN log : j \in DOMAIN b.log /\ log[j] = b.log[j]
    BY <1>a, SubSeqProperties, LenProperties
  <2> HIDE DEF log
  <2>2. r \in [log : Seq(Entries), head : Hashes, of : History, snapshot : snapshots]
        /\ r.log = log /\ r.of = b.of /\ r.head = b.head
    BY <1>1, <2>1 DEF log
  <2> QED BY <2>1, <2>2, HashesKept
<1>2. ASSUME r = [b EXCEPT !.head = NoHash]
      PROVE  Artifact(r) /\ FromItsHistory(r)
  <2>1. NoHash \in Hashes
    BY EmptySeq DEF NoHash, Hashes
  <2>2. r \in [log : Seq(Entries), head : Hashes, of : History, snapshot : snapshots]
        /\ r.log = b.log /\ r.of = b.of /\ r.head = NoHash
    BY <1>2, <2>1
  <2> QED BY <1>a, <2>2, HashesKept
<1>3. ASSUME NEW i \in DOMAIN b.log, NEW e \in Events,
             r = [b EXCEPT !.log = [@ EXCEPT ![i].event = e]]
      PROVE  Artifact(r) /\ FromItsHistory(r)
  <2> DEFINE entry == [b.log[i] EXCEPT !.event = e]
             log == [b.log EXCEPT ![i] = entry]
  <2>1. entry \in Entries /\ entry.hash = b.log[i].hash
    BY <1>a DEF Entries
  <2>2. r = [b EXCEPT !.log = log]
    BY <1>3
  <2> HIDE DEF entry
  <2>3. log \in Seq(Entries) /\ DOMAIN log = DOMAIN b.log
        /\ \A j \in DOMAIN log : log[j].hash = b.log[j].hash
    BY <1>a, <2>1, ExceptSeq, LenProperties
  <2> HIDE DEF log
  <2>4. r \in [log : Seq(Entries), head : Hashes, of : History, snapshot : snapshots]
        /\ r.log = log /\ r.of = b.of /\ r.head = b.head
    BY <2>2, <2>3
  <2> QED BY <2>3, <2>4, HashesKept
<1>4. ASSUME NEW i \in DOMAIN b.log, r = [b EXCEPT !.log = RemoveAt(@, i)]
      PROVE  Artifact(r) /\ FromItsHistory(r)
  <2> DEFINE log == RemoveAt(b.log, i)
  <2>1. log \in Seq(Entries) /\ \A j \in DOMAIN log : \E k \in DOMAIN b.log : log[j] = b.log[k]
    BY <1>a, EntryLost
  <2> HIDE DEF log
  <2>2. r \in [log : Seq(Entries), head : Hashes, of : History, snapshot : snapshots]
        /\ r.log = log /\ r.of = b.of /\ r.head = b.head
    BY <1>4, <2>1 DEF log
  <2>3. \A j \in DOMAIN log : \E k \in DOMAIN b.log : log[j].hash = b.log[k].hash
    BY <2>1
  <2> QED BY <2>1, <2>2, <2>3, HashesKept
<1>5. ASSUME NEW s \in b.snapshot, NEW e \in Contents,
             r = [b EXCEPT !.snapshot = {[s EXCEPT !.projection[e.subject] = e.value]}]
      PROVE  Artifact(r) /\ FromItsHistory(r)
  <2>1. r \in [log : Seq(Entries), head : Hashes, of : History,
               snapshot : {{[s EXCEPT !.projection[e.subject] = e.value]}}]
        /\ r.log = b.log /\ r.of = b.of /\ r.head = b.head
    BY <1>5
  <2> QED BY <1>a, <2>1, HashesKept
<1> QED BY <1>1, <1>2, <1>3, <1>4, <1>5 DEF Rotten

-----------------------------------------------------------------------------

\* A history is taken apart into entries that tell their own place in it.
LEMMA StoredIsArtifact ==
    ASSUME NEW h \in History, NEW b, NEW snapshots,
           b = [log |-> Stored(h), head |-> LatestHash(Stored(h)), of |-> h,
                snapshot |-> snapshots]
    PROVE  Artifact(b) /\ FromItsHistory(b)
<1> DEFINE log == Stored(h)
<1>1. DOMAIN h = 1..Len(h) /\ Len(h) \in Nat /\ \A i \in DOMAIN h : h[i] \in Events
  BY LenProperties, ElementOfSeq DEF History
<1>a. PICK told : told = Hashed(h)
  OBVIOUS
<1>b. told \in Seq(Contents) /\ Len(told) = Len(h)
  BY <1>a, HashedType
<1>2. \A i \in DOMAIN h : Prefix(told, i) = SubSeq(told, 1, i) /\ Prefix(told, i) \in Hashes
  BY <1>1, <1>b, SubSeqIsPrefix DEF Prefix, Hashes
<1>3. log \in [1..Len(h) -> Entries] /\ \A i \in DOMAIN h : log[i].hash = SubSeq(told, 1, i)
  BY <1>1, <1>2, <1>a DEF Stored, Entries
<1>4. log \in Seq(Entries)
  BY <1>1, <1>3, SeqDef
<1>5. DOMAIN log = 1..Len(h) /\ DOMAIN log = 1..Len(log) /\ Len(log) \in Nat
  BY <1>3, <1>4, LenProperties
<1>6. Len(log) = Len(h)
  BY <1>1, <1>5, LengthIsUnique
<1>7. LatestHash(log) = told
  <2>1. CASE log = <<>>
    <3>1. Len(told) = 0
      BY <1>6, <1>b, <2>1
    <3>2. told = <<>>
      BY <1>b, <3>1, EmptySeq
    <3> QED BY <2>1, <3>2 DEF LatestHash, NoHash
  <2>2. CASE log # <<>>
    <3>1. Len(h) \in DOMAIN h
      BY <1>1, <1>4, <1>6, <2>2, EmptySeq
    <3>2. log[Len(log)].hash = SubSeq(told, 1, Len(told))
      BY <1>3, <1>6, <1>b, <3>1
    <3> QED BY <1>b, <2>2, <3>2, WholeIsPrefix DEF LatestHash
  <2> QED BY <2>1, <2>2
<1> HIDE DEF log
<1>8. b = [log |-> log, head |-> told, of |-> h, snapshot |-> snapshots]
  BY <1>7 DEF log
<1>9. b \in [log : Seq(Entries), head : Hashes, of : History, snapshot : {snapshots}]
  BY <1>4, <1>8, <1>b DEF Hashes
<1>10. b.log = log /\ b.head = told /\ b.of = h
  BY <1>8
<1>11. \A i \in DOMAIN b.log : \E n \in 0..Len(b.of) : b.log[i].hash = SubSeq(told, 1, n)
  BY <1>1, <1>3, <1>5, <1>10
<1> QED BY <1>9, <1>10, <1>11, <1>a DEF Artifact, FromItsHistory

LEMMA BackupInit == Init => BackupInv
  BY EmptySeq DEF Init, BackupInv, RestoresAreTrue, History

LEMMA BackupNext == BackupInv /\ [Next]_backupVars => BackupInv'
<1> SUFFICES ASSUME BackupInv, [Next]_backupVars PROVE BackupInv'
  OBVIOUS
<1>1. ASSUME NEW content \in Contents, NEW recorded \in BOOLEAN, AppendEvent(content, recorded)
      PROVE  BackupInv'
  <2>1. history' \in History
    <3>1. NewEvent(content) \in Events
      BY DEF NewEvent, Contents, Events
    <3> QED BY <1>1, <3>1 DEF AppendEvent, BackupInv, History
  <2>2. records' \subseteq Hashes
    BY <1>1, <2>1, HashedType DEF AppendEvent, BackupInv
  <2>3. backups' = backups /\ restored' = restored
    BY <1>1 DEF AppendEvent
  <2> QED BY <2>1, <2>2, <2>3 DEF BackupInv, RestoresAreTrue
<1>2. ASSUME NEW included, TakeBackup(included) PROVE BackupInv'
  <2> DEFINE b == [log |-> Stored(history), head |-> LatestHash(Stored(history)), of |-> history,
                   snapshot |-> {Snapshot(history, last) : last \in included}]
  <2>1. Artifact(b) /\ FromItsHistory(b)
    BY StoredIsArtifact DEF BackupInv
  <2>2. backups' = backups \cup {b} /\ UNCHANGED <<history, records, restored>>
    BY <1>2 DEF TakeBackup
  <2> HIDE DEF b
  <2> QED BY <2>1, <2>2 DEF BackupInv, RestoresAreTrue
<1>3. ASSUME NEW b \in backups, Rot(b) PROVE BackupInv'
  <2>1. \A r \in Rotten(b) : Artifact(r) /\ FromItsHistory(r)
    BY RotKeeps DEF BackupInv
  <2>2. \E r \in Rotten(b) : backups' = (backups \ {b}) \cup {r}
    BY <1>3 DEF Rot
  <2>3. UNCHANGED <<history, records, restored>>
    BY <1>3 DEF Rot
  <2> QED BY <2>1, <2>2, <2>3 DEF BackupInv, RestoresAreTrue
<1>4. ASSUME NEW b \in backups, NEW supplied \in BOOLEAN, Restore(b, supplied)
      PROVE  BackupInv'
  <2>1. Artifact(b) /\ FromItsHistory(b) /\ BackupHolds(b)
    BY <1>4 DEF Restore, BackupInv
  <2>2. b.log \in Seq(Entries) /\ ChainHolds(b.log)
    BY <2>1 DEF Artifact, BackupHolds
  <2>3. history' = EventsOf(b.log) /\ history' \in History
    BY <1>4, <2>2, EventsAreHistory DEF Restore
  <2> DEFINE r == [history |-> history', from |-> b, answered |-> IF supplied THEN records ELSE {}]
  <2>4. restored' = {r} /\ UNCHANGED <<records, backups>>
    BY <1>4 DEF Restore
  <2>5. /\ IsPrefix(Hashed(history'), Hashed(b.of))
        /\ b.head # NoHash => Hashed(history') = Hashed(b.of)
    BY <2>1, <2>3, HeldBackupIsTrue
  <2>6. ASSUME supplied, NEW hash \in records PROVE IsPrefix(hash, Hashed(history'))
    <3>1. \E i \in DOMAIN b.log : b.log[i].hash = hash
      BY <1>4, <2>6 DEF Restore, RecordsHold
    <3> QED BY <2>2, <2>3, <3>1, ChainTells
  <2>a. ASSUME NEW s \in b.snapshot, s = Snapshot(b.of, s.last)
        PROVE  Replay(Prefix(history', s.last)) = Replay(Prefix(b.of, s.last))
    <3>1. s.projection = Replay(Prefix(EventsOf(b.log), s.last))
      BY <2>1 DEF BackupHolds, SnapshotHolds
    <3>2. s.projection = Replay(Prefix(b.of, s.last))
      BY <2>a DEF Snapshot
    <3> QED BY <2>3, <3>1, <3>2
  <2>7. /\ IsPrefix(Hashed(r.history), Hashed(r.from.of))
        /\ r.from.head # NoHash => Hashed(r.history) = Hashed(r.from.of)
        /\ \A hash \in r.answered : IsPrefix(hash, Hashed(r.history))
        /\ \A s \in r.from.snapshot :
              s = Snapshot(r.from.of, s.last)
                 => Replay(Prefix(r.history, s.last)) = Replay(Prefix(r.from.of, s.last))
    BY <2>5, <2>6, <2>a
  <2> HIDE DEF r
  <2>8. RestoresAreTrue'
    BY <2>4, <2>7 DEF RestoresAreTrue
  <2> QED BY <2>3, <2>4, <2>8 DEF BackupInv
<1>5. CASE UNCHANGED backupVars
  BY <1>5 DEF backupVars, BackupInv, RestoresAreTrue
<1> QED BY <1>1, <1>2, <1>3, <1>4, <1>5 DEF Next

\* Whatever rot did to a backup: a restore that is let through (restoreRealmFromBackup)
\* gives the hashed fields of the history that was backed up, a prefix of them only if the
\* head is gone too, and answers for the execution records it was given; and where the
\* artifact has a snapshot as it was made, the envelopes up to it replay as they did.
THEOREM RestoresTrue == Spec => []RestoresAreTrue
<1>1. BackupInv => RestoresAreTrue
  BY DEF BackupInv
<1> QED BY BackupInit, BackupNext, <1>1, PTL DEF Spec

-----------------------------------------------------------------------------
(* What a snapshot that verifies rebuilds.                                    *)

Projections == [Subjects -> Values \cup {Nothing}]

\* The projections a history runs through from one of them.
RunStates(start, h, states) ==
    /\ states \in [0 .. Len(h) -> Projections]
    /\ states[0] = start
    /\ \A i \in 1 .. Len(h) : states[i] = ApplyAuthorityEvent(states[i - 1], h[i])

LEMMA ApplyTyped ==
    ASSUME NEW projection \in Projections, NEW e \in Events
    PROVE  ApplyAuthorityEvent(projection, e) \in Projections
  BY DEF ApplyAuthorityEvent, Projections, Events

\* A fold over a history is the last projection of its run: it empties the set of
\* positions from the largest down, which is one event after the other.
LEMMA RunUnfolds ==
    ASSUME NEW start \in Projections, NEW h \in History
    PROVE  \E states : /\ RunStates(start, h, states)
                       /\ FoldLeft(ApplyAuthorityEvent, start, h) = states[Len(h)]
<1> DEFINE k    == Len(h)
           step == [p \in (1 .. k) \X Projections |-> ApplyAuthorityEvent(p[2], h[p[1]])]
           Equation(f) == f = [s \in SUBSET DOMAIN h |->
                                 IF s = {} THEN start
                                 ELSE ApplyAuthorityEvent(f[s \ {Max(s)}], h[Max(s)])]
<1>1. k \in Nat /\ DOMAIN h = 1 .. k /\ \A i \in 1 .. k : h[i] \in Events
  BY DEF History
<1>2. FoldLeft(ApplyAuthorityEvent, start, h) = (CHOOSE f : Equation(f))[DOMAIN h]
  BY Zenon DEF FoldLeft, MapThenFoldSet
<1>3. step \in [(1 .. k) \X Projections -> Projections]
  <2>1. ASSUME NEW p \in (1 .. k) \X Projections
        PROVE  ApplyAuthorityEvent(p[2], h[p[1]]) \in Projections
    <3>1. p[1] \in 1 .. k /\ p[2] \in Projections
      OBVIOUS
    <3> QED BY <1>1, <3>1, ApplyTyped
  <2> QED BY <2>1
<1>4. \A n \in 1 .. k : \A x \in Projections : step[<<n, x>>] = ApplyAuthorityEvent(x, h[n])
  <2> HIDE DEF k
  <2> QED OBVIOUS
<1> HIDE DEF k, step
<1>5. PICK g \in [SUBSET (1 .. k) -> Projections] : FoldEquation(g, k, start, step)
  <2>1. FoldSolved(Projections, k, start, step)
    BY <1>1, <1>3, FoldExists
  <2> QED BY <2>1 DEF FoldSolved
<1>6. ASSUME NEW s \in SUBSET (1 .. k), s # {}
      PROVE  g[s] = ApplyAuthorityEvent(g[s \ {Max(s)}], h[Max(s)])
  <2>1. Max(s) \in 1 .. k
    BY <1>1, <1>6, LargestIsElement
  <2>2. g[s \ {Max(s)}] \in Projections
    <3>1. s \ {Max(s)} \in SUBSET (1 .. k)
      OBVIOUS
    <3> QED BY <1>5, <3>1
  <2>3. g[s] = step[<<Max(s), g[s \ {Max(s)}]>>]
    BY <1>5, <1>6 DEF FoldEquation
  <2> QED BY <1>4, <2>1, <2>2, <2>3
<1>7. Equation(g)
  <2>1. g[{}] = start
    BY <1>5 DEF FoldEquation
  <2>2. \A s \in SUBSET (1 .. k) :
           g[s] = IF s = {} THEN start ELSE ApplyAuthorityEvent(g[s \ {Max(s)}], h[Max(s)])
    BY <1>6, <2>1, Zenon
  <2>3. g = [s \in SUBSET (1 .. k) |-> g[s]]
    BY <1>5
  <2>4. DOMAIN h = 1 .. k
    BY <1>1
  <2> QED BY <2>2, <2>3, <2>4, Zenon
<1>8. PICK f : f = (CHOOSE x : Equation(x))
  OBVIOUS
<1>9. f = [s \in SUBSET (1 .. k) |->
             IF s = {} THEN start ELSE ApplyAuthorityEvent(f[s \ {Max(s)}], h[Max(s)])]
  <2>1. Equation(f)
    BY <1>7, <1>8, Zenon
  <2> QED BY <1>1, <2>1, Zenon
<1> DEFINE states == [n \in 0 .. k |-> f[1 .. n]]
<1>10. \A n \in 0 .. k : states[n] = f[1 .. n]
  OBVIOUS
<1>11. states[0] = start
  <2>1. {} \in SUBSET (1 .. k) /\ 1 .. 0 = {} /\ 0 \in 0 .. k
    BY <1>1
  <2>2. f[{}] = start
    BY <1>9, <2>1, Zenon
  <2> QED BY <1>10, <2>1, <2>2
<1>12. ASSUME NEW n \in 1 .. k
       PROVE  states[n] = ApplyAuthorityEvent(states[n - 1], h[n])
  <2>1. n - 1 \in Nat /\ (n - 1) + 1 = n /\ n \in 0 .. k /\ n - 1 \in 0 .. k
    BY <1>1
  <2>2. Max(1 .. n) = n /\ (1 .. n) \ {n} = 1 .. n - 1
    BY <2>1, LargestOfInterval
  <2>3. 1 .. n \in SUBSET (1 .. k) /\ 1 .. n # {}
    <3>1. k \in Nat /\ n \in 1 .. n /\ \A i \in 1 .. n : i \in 1 .. k
      BY <1>1
    <3> HIDE DEF states
    <3> QED BY <3>1
  <2>4. f[1 .. n] = ApplyAuthorityEvent(f[(1 .. n) \ {Max(1 .. n)}], h[Max(1 .. n)])
    BY <1>9, <2>3, Zenon
  <2> QED BY <1>10, <2>1, <2>2, <2>4
<1>13. states = [n \in 0 .. k |-> states[n]]
  OBVIOUS
<1> HIDE DEF states
<1>14. \A n \in 1 .. k : states[n - 1] \in Projections => states[n] \in Projections
  BY <1>1, <1>12, ApplyTyped
<1>15. \A n \in 0 .. k : states[n] \in Projections
  BY <1>1, <1>11, <1>14, StepsTyped
<1>16. RunStates(start, h, states)
  BY <1>11, <1>12, <1>13, <1>15 DEF RunStates, k
<1>17. FoldLeft(ApplyAuthorityEvent, start, h) = states[k]
  <2>1. k \in 0 .. k
    BY <1>1
  <2> QED BY <1>1, <1>2, <1>8, <1>10, <2>1, Zenon
<1> QED BY <1>16, <1>17 DEF k

\* A run is determined by where it starts.
LEMMA RunDetermined ==
    ASSUME NEW start \in Projections, NEW h \in History, NEW states, RunStates(start, h, states)
    PROVE  FoldLeft(ApplyAuthorityEvent, start, h) = states[Len(h)]
<1>1. PICK others : /\ RunStates(start, h, others)
                    /\ FoldLeft(ApplyAuthorityEvent, start, h) = others[Len(h)]
  BY RunUnfolds
<1>2. PICK k : k = Len(h)
  OBVIOUS
<1>3. others[0] = states[0]
  BY <1>1 DEF RunStates
<1>4. \A n \in 1 .. k : others[n - 1] = states[n - 1] => others[n] = states[n]
  BY <1>1, <1>2 DEF RunStates
<1>5. k \in Nat
  BY <1>2 DEF History
<1>6. others[k] = states[k]
  BY ONLY <1>3, <1>4, <1>5, StepsAgree
<1> QED BY <1>1, <1>2, <1>6

\* A history goes on from what its beginning gives.
LEMMA RunsJoin ==
    ASSUME NEW h \in History, NEW last \in 0 .. Len(h)
    PROVE  FoldLeft(ApplyAuthorityEvent, Replay(Prefix(h, last)), SubSeq(h, last + 1, Len(h)))
              = Replay(h)
<1>1. PICK nothing : nothing = [s \in Subjects |-> Nothing]
  OBVIOUS
<1>2. nothing \in Projections
  BY <1>1 DEF Projections
<1>3. \A g : Replay(g) = FoldLeft(ApplyAuthorityEvent, nothing, g)
  BY <1>1, Zenon DEF Replay
<1>4. PICK states : RunStates(nothing, h, states) /\ Replay(h) = states[Len(h)]
  BY <1>2, <1>3, RunUnfolds
<1>5. PICK k : k = Len(h)
  OBVIOUS
<1>6. k \in Nat /\ last \in Nat /\ last <= k
  BY <1>5 DEF History
<1>7. /\ states \in [0 .. k -> Projections] /\ states[0] = nothing
      /\ \A i \in 1 .. k : states[i] = ApplyAuthorityEvent(states[i - 1], h[i])
  BY <1>4, <1>5 DEF RunStates
<1>8. PICK head : head = Prefix(h, last)
  OBVIOUS
<1>9. /\ head \in History /\ Len(head) = last
      /\ \A i \in 1 .. last : head[i] = h[i]
  <2>1. head = SubSeq(h, 1, last)
    BY <1>5, <1>6, <1>8 DEF Prefix
  <2> QED BY <1>5, <1>6, <2>1, SubSeqProperties, SubSeqIsPrefix DEF History
<1>10. PICK rest : rest = SubSeq(h, last + 1, k)
  OBVIOUS
<1>11. /\ rest \in History /\ Len(rest) = k - last
       /\ \A i \in 1 .. k - last : rest[i] = h[last + i]
  <2>1. h \in Seq(Events) /\ last + 1 \in 1 .. Len(h) + 1 /\ k \in 0 .. Len(h)
    BY <1>5, <1>6 DEF History
  <2>2. \A m \in 1 .. Len(h) + 1, n \in 0 .. Len(h) :
           /\ SubSeq(h, m, n) \in Seq(Events)
           /\ Len(SubSeq(h, m, n)) = IF m <= n THEN n - m + 1 ELSE 0
           /\ \A i \in 1 .. n - m + 1 : SubSeq(h, m, n)[i] = h[m + i - 1]
    BY SubSeqProperties DEF History
  <2>3. PICK m : m = last + 1
    OBVIOUS
  <2>4. /\ rest \in Seq(Events) /\ Len(rest) = (IF m <= k THEN k - m + 1 ELSE 0)
        /\ \A i \in 1 .. k - m + 1 : rest[i] = h[m + i - 1]
    BY <1>10, <2>1, <2>2, <2>3
  <2>5. k - m + 1 = k - last /\ (m <= k \/ k - last = 0)
    BY <1>6, <2>3
  <2>6. \A i \in 1 .. k - last : m + i - 1 = last + i
    BY <1>6, <2>3
  <2> QED BY <2>4, <2>5, <2>6 DEF History
<1>12. Replay(head) = states[last]
  <2> DEFINE first == [n \in 0 .. last |-> states[n]]
  <2>1. \A n \in 0 .. last : n \in 0 .. k
    BY <1>6
  <2>2. first \in [0 .. last -> Projections] /\ first[0] = nothing
    BY <1>6, <1>7, <2>1
  <2>3. \A i \in 1 .. last : i \in 1 .. k /\ first[i] = states[i] /\ first[i - 1] = states[i - 1]
    BY <1>6
  <2>4. RunStates(nothing, head, first)
    BY <1>7, <1>9, <2>2, <2>3 DEF RunStates
  <2>5. first[last] = states[last]
    BY <1>6
  <2> HIDE DEF first
  <2> QED BY <1>2, <1>3, <1>9, <2>4, <2>5, RunDetermined
<1>13. states[last] \in Projections
  BY <1>6, <1>7
<1>14. FoldLeft(ApplyAuthorityEvent, states[last], rest) = states[k]
  <2> DEFINE later == [n \in 0 .. k - last |-> states[last + n]]
  <2>1. \A n \in 0 .. k - last : last + n \in 0 .. k
    BY <1>6
  <2>2. later \in [0 .. k - last -> Projections] /\ later[0] = states[last]
    BY <1>6, <1>7, <2>1
  <2>3. \A i \in 1 .. k - last : /\ last + i \in 1 .. k /\ (last + i) - 1 = last + (i - 1)
                                 /\ i \in 0 .. k - last /\ i - 1 \in 0 .. k - last
    BY <1>6
  <2>4. \A i \in 1 .. k - last : later[i] = ApplyAuthorityEvent(later[i - 1], rest[i])
    <3>1. \A n \in 0 .. k - last : later[n] = states[last + n]
      OBVIOUS
    <3> HIDE DEF later
    <3> QED BY <1>7, <1>11, <2>3, <3>1
  <2>5. later[k - last] = states[k]
    <3>1. k - last \in 0 .. k - last /\ last + (k - last) = k
      BY <1>6
    <3> QED BY <3>1
  <2> HIDE DEF later
  <2>6. RunStates(states[last], rest, later)
    BY <1>11, <2>2, <2>4 DEF RunStates
  <2> QED BY <1>11, <1>13, <2>5, <2>6, RunDetermined
<1> QED BY <1>4, <1>5, <1>8, <1>10, <1>12, <1>14

\* A stored history has the events it was stored from.
LEMMA StoredEvents ==
    ASSUME NEW h \in History
    PROVE  EventsOf(Stored(h)) = h /\ DOMAIN Stored(h) = DOMAIN h
<1>1. DOMAIN Stored(h) = DOMAIN h /\ \A i \in DOMAIN h : Stored(h)[i].event = h[i]
  BY DEF Stored
<1>2. h = [i \in DOMAIN h |-> h[i]]
  BY DEF History
<1> QED BY <1>1, <1>2 DEF EventsOf

\* What verifies against a history rebuilds it.
LEMMA VerifiedRebuilds == BackupInv => SnapshotsRebuildTheReplay
<1> SUFFICES ASSUME BackupInv, NEW s, SnapshotHolds(Stored(history), s)
             PROVE  Rebuilt(history, s) = Replay(history)
  BY DEF SnapshotsRebuildTheReplay
<1>1. history \in History
  BY DEF BackupInv
<1>2. s.last \in 0 .. Len(history)
  <2>1. s.last = 0 \/ s.last \in DOMAIN history
    BY <1>1, StoredEvents DEF SnapshotHolds
  <2> QED BY <1>1, <2>1 DEF History
<1>3. s.projection = Replay(Prefix(history, s.last))
  BY <1>1, StoredEvents DEF SnapshotHolds
<1> QED BY <1>1, <1>2, <1>3, RunsJoin, Zenon DEF Rebuilt

\* A snapshot that verifies against the realm's history rebuilds what the whole of it says,
\* wherever the snapshot was made, however the artifact has rotted and whatever the realm
\* was restored to.
THEOREM SnapshotsRebuild == Spec => []SnapshotsRebuildTheReplay
BY VerifiedRebuilds, BackupInit, BackupNext, PTL DEF Spec

-----------------------------------------------------------------------------
(* The types: histories grow to MaxEvents, and what a restore gives is no      *)
(* longer than the history that was backed up.                                 *)

BackupsTyped ==
    /\ BackupInv
    /\ Len(history) <= MaxEvents
    /\ \A b \in backups : Len(b.log) <= MaxEvents

\* Rot makes no log longer.
LEMMA RotShortens ==
    ASSUME NEW b, Artifact(b), NEW r \in Rotten(b)
    PROVE  Len(r.log) <= Len(b.log)
<1> PICK snapshots : b \in [log : Seq(Entries), head : Hashes, of : History, snapshot : snapshots]
  BY DEF Artifact
<1>a. b.log \in Seq(Entries) /\ Len(b.log) \in Nat /\ DOMAIN b.log = 1..Len(b.log)
      /\ \A k \in DOMAIN b.log : b.log[k] \in Entries
  BY LenProperties, ElementOfSeq
<1>1. ASSUME NEW n \in 0..(Len(b.log) - 1), r = [b EXCEPT !.log = SubSeq(@, 1, n)]
      PROVE  Len(r.log) <= Len(b.log)
  <2>1. r.log = SubSeq(b.log, 1, n)
    BY <1>1
  <2>2. Len(SubSeq(b.log, 1, n)) = n
    BY <1>a, SubSeqProperties
  <2> QED BY <1>a, <2>1, <2>2
<1>2. ASSUME NEW i \in DOMAIN b.log, NEW e \in Events,
             r = [b EXCEPT !.log = [@ EXCEPT ![i].event = e]]
      PROVE  Len(r.log) <= Len(b.log)
  <2>1. PICK entry \in Entries : entry = [b.log[i] EXCEPT !.event = e]
    BY <1>a DEF Entries
  <2>2. r.log = [b.log EXCEPT ![i] = entry]
    BY <1>2, <2>1
  <2>3. r.log \in Seq(Entries) /\ Len(r.log) = Len(b.log)
    BY <1>a, <2>1, <2>2, ExceptSeq
  <2> QED BY <1>a, <2>3
<1>3. ASSUME NEW i \in DOMAIN b.log, r = [b EXCEPT !.log = RemoveAt(@, i)]
      PROVE  Len(r.log) <= Len(b.log)
  <2>1. r.log = RemoveAt(b.log, i)
    BY <1>3
  <2>2. Len(RemoveAt(b.log, i)) = Len(b.log) - 1
    BY <1>a, EntryLost
  <2> QED BY <1>a, <2>1, <2>2
<1>4. ASSUME r.log = b.log PROVE Len(r.log) <= Len(b.log)
  BY <1>a, <1>4
<1> QED BY <1>1, <1>2, <1>3, <1>4 DEF Rotten

LEMMA BackupsTypedInit == BackupsAssumption /\ Init => BackupsTyped
<1> SUFFICES ASSUME BackupsAssumption, Init PROVE BackupsTyped
  OBVIOUS
<1>1. history = <<>> /\ backups = {} /\ BackupInv
  BY BackupInit DEF Init
<1> QED BY <1>1 DEF BackupsTyped, BackupsAssumption

LEMMA BackupsTypedNext ==
    BackupsAssumption /\ BackupsTyped /\ [Next]_backupVars => BackupsTyped'
<1> SUFFICES ASSUME BackupsAssumption, BackupsTyped, [Next]_backupVars PROVE BackupsTyped'
  OBVIOUS
<1> DEFINE Bounded == /\ Len(history) <= MaxEvents
                      /\ \A b \in backups : Len(b.log) <= MaxEvents
<1>0. Bounded /\ BackupInv /\ MaxEvents \in Nat
  BY DEF BackupsTyped, BackupsAssumption
<1>1. ASSUME NEW content \in Contents, NEW recorded, AppendEvent(content, recorded)
      PROVE  Bounded'
  <2>1. Len(history) < MaxEvents /\ backups' = backups
        /\ history' = Append(history, NewEvent(content))
    BY <1>1 DEF AppendEvent
  <2>2. history \in Seq(Events) /\ NewEvent(content) \in Events
    BY <1>0 DEF BackupInv, History, NewEvent, Contents, Events
  <2>3. Len(history') <= MaxEvents
    BY <1>0, <2>1, <2>2
  <2> QED BY <1>0, <2>1, <2>3
<1>2. ASSUME NEW included, TakeBackup(included) PROVE Bounded'
  <2>1. PICK b : b = [log |-> Stored(history), head |-> LatestHash(Stored(history)),
                      of |-> history,
                      snapshot |-> {Snapshot(history, last) : last \in included}]
    OBVIOUS
  <2>2. backups' = backups \cup {b} /\ history' = history
    BY <1>2, <2>1 DEF TakeBackup
  <2>3. Artifact(b) /\ history \in History
    BY <1>0, <2>1, StoredIsArtifact DEF BackupInv
  <2>4. b.log \in Seq(Entries) /\ b.log = Stored(history)
    BY <2>1, <2>3 DEF Artifact
  <2>5. Len(b.log) = Len(history)
    <3>1. DOMAIN b.log = 1..Len(b.log) /\ Len(b.log) \in Nat
      BY <2>4, LenProperties
    <3>2. DOMAIN b.log = 1..Len(history) /\ Len(history) \in Nat
      BY <2>3, <2>4, LenProperties DEF Stored, History
    <3> QED BY <3>1, <3>2, LengthIsUnique
  <2> QED BY <1>0, <2>2, <2>5
<1>3. ASSUME NEW b \in backups, Rot(b) PROVE Bounded'
  <2>1. PICK r \in Rotten(b) : backups' = (backups \ {b}) \cup {r} /\ history' = history
    BY <1>3 DEF Rot
  <2>2. Artifact(b)
    BY <1>0 DEF BackupInv
  <2>3. Artifact(r)
    BY <1>0, <2>1, RotKeeps DEF BackupInv
  <2>4. Len(r.log) <= Len(b.log)
    BY <2>2, RotShortens
  <2>5. Len(r.log) \in Nat /\ Len(b.log) \in Nat
    BY <2>2, <2>3, LenProperties DEF Artifact
  <2>6. Len(r.log) <= MaxEvents
    BY <1>0, <2>4, <2>5
  <2> QED BY <1>0, <2>1, <2>6
<1>4. ASSUME NEW b \in backups, NEW supplied, Restore(b, supplied) PROVE Bounded'
  <2>1. history' = EventsOf(b.log) /\ backups' = backups
    BY <1>4 DEF Restore
  <2>2. b.log \in Seq(Entries)
    BY <1>0 DEF BackupInv, Artifact
  <2>3. Len(history') = Len(b.log)
    BY <2>1, <2>2, EventsAreHistory
  <2> QED BY <1>0, <2>1, <2>3
<1>5. ASSUME UNCHANGED backupVars PROVE Bounded'
  BY <1>0, <1>5 DEF backupVars
<1> HIDE DEF Bounded
<1>6. Bounded'
  BY <1>1, <1>2, <1>3, <1>4, <1>5 DEF Next
<1>7. BackupInv'
  BY <1>0, BackupNext
<1> QED BY <1>6, <1>7 DEF BackupsTyped, Bounded

LEMMA BackupsTypes == BackupsTyped => TypeOK
<1> SUFFICES ASSUME BackupsTyped PROVE TypeOK
  OBVIOUS
<1>1. \A b \in backups : EventsOf(b.log) \in History /\ b.of \in History
  BY EventsAreHistory DEF BackupsTyped, BackupInv, Artifact
<1> QED BY <1>1 DEF BackupsTyped, BackupInv, History, Hashes, TypeOK

=============================================================================
