------------------------- MODULE RealmReplicationProofs -------------------------
(***************************************************************************)
(* What a realm that receives another realm's history guarantees, for any  *)
(* names, events, commands and delivery ids and for every bound: whatever  *)
(* arrives, in whatever order and how often.                               *)
(***************************************************************************)
EXTENDS RealmReplication, RealmEventRegistryProofs

-----------------------------------------------------------------------------
(* Histories as prefixes. *)

LEMMA SubSeqShape ==
    ASSUME NEW S, NEW log \in Seq(S), NEW i \in Nat, i <= Len(log)
    PROVE  /\ SubSeq(log, 1, i) \in Seq(S)
           /\ Len(SubSeq(log, 1, i)) = i
           /\ \A j \in 1 .. i : SubSeq(log, 1, i)[j] = log[j]
  OBVIOUS

LEMMA SameSequence ==
    ASSUME NEW S, NEW a \in Seq(S), NEW b \in Seq(S), Len(a) = Len(b),
           \A j \in 1 .. Len(a) : a[j] = b[j]
    PROVE  a = b
  OBVIOUS

LEMMA PrefixByIndex ==
    ASSUME NEW S, NEW h \in Seq(S), NEW log \in Seq(S)
    PROVE  IsPrefixOf(h, log) <=> /\ Len(h) <= Len(log)
                                  /\ \A j \in 1 .. Len(h) : h[j] = log[j]
<1>1. ASSUME Len(h) <= Len(log), \A j \in 1 .. Len(h) : h[j] = log[j]
      PROVE  h = SubSeq(log, 1, Len(h))
  <2>1. Len(h) \in Nat
    OBVIOUS
  <2>2. /\ SubSeq(log, 1, Len(h)) \in Seq(S) /\ Len(SubSeq(log, 1, Len(h))) = Len(h)
        /\ \A j \in 1 .. Len(h) : SubSeq(log, 1, Len(h))[j] = log[j]
    BY <1>1, <2>1, SubSeqShape
  <2> QED BY <1>1, <2>2, SameSequence
<1>2. ASSUME Len(h) <= Len(log), h = SubSeq(log, 1, Len(h))
      PROVE  \A j \in 1 .. Len(h) : h[j] = log[j]
  <2>1. Len(h) \in Nat
    OBVIOUS
  <2>2. \A j \in 1 .. Len(h) : SubSeq(log, 1, Len(h))[j] = log[j]
    BY <1>2, <2>1, SubSeqShape
  <2> QED BY <1>2, <2>2
<1> QED BY <1>1, <1>2 DEF IsPrefixOf

\* What is a prefix stays one when the log grows by an entry; the log is a prefix of itself.
LEMMA PrefixOfLonger ==
    ASSUME NEW S, NEW log \in Seq(S), NEW entry \in S, NEW h \in Seq(S), IsPrefixOf(h, log)
    PROVE  IsPrefixOf(h, Append(log, entry))
<1>1. Len(h) <= Len(log) /\ \A j \in 1 .. Len(h) : h[j] = log[j]
  BY PrefixByIndex
<1>2. Append(log, entry) \in Seq(S) /\ Len(h) <= Len(Append(log, entry))
  BY <1>1
<1>3. \A j \in 1 .. Len(h) : h[j] = Append(log, entry)[j]
  BY <1>1
<1> QED BY <1>2, <1>3, PrefixByIndex

LEMMA PrefixOfItself ==
    ASSUME NEW S, NEW log \in Seq(S)
    PROVE  IsPrefixOf(log, log)
  BY PrefixByIndex

LEMMA SubSeqOfLonger ==
    ASSUME NEW S, NEW log \in Seq(S), NEW entry \in S, NEW i \in 0 .. Len(log)
    PROVE  SubSeq(Append(log, entry), 1, i) = SubSeq(log, 1, i)
<1>1. /\ i \in Nat /\ i <= Len(log) /\ i <= Len(Append(log, entry))
      /\ Append(log, entry) \in Seq(S)
  OBVIOUS
<1>2. /\ SubSeq(log, 1, i) \in Seq(S) /\ Len(SubSeq(log, 1, i)) = i
      /\ \A j \in 1 .. i : SubSeq(log, 1, i)[j] = log[j]
  BY <1>1, SubSeqShape
<1>3. /\ SubSeq(Append(log, entry), 1, i) \in Seq(S)
      /\ Len(SubSeq(Append(log, entry), 1, i)) = i
      /\ \A j \in 1 .. i : SubSeq(Append(log, entry), 1, i)[j] = Append(log, entry)[j]
  BY <1>1, SubSeqShape
<1>4. \A j \in 1 .. i : Append(log, entry)[j] = log[j]
  BY <1>1
<1> QED BY <1>2, <1>3, <1>4, SameSequence

LEMMA Appended ==
    ASSUME NEW S, NEW log \in Seq(S), NEW entry \in S
    PROVE  /\ Append(log, entry) \in Seq(S) /\ Len(Append(log, entry)) = Len(log) + 1
           /\ \A i \in 1 .. Len(log) : Append(log, entry)[i] = log[i]
           /\ Append(log, entry)[Len(log) + 1] = entry
  OBVIOUS

LEMMA Concatenated ==
    ASSUME NEW S, NEW a \in Seq(S), NEW b \in Seq(S)
    PROVE  /\ a \o b \in Seq(S) /\ DOMAIN (a \o b) = 1 .. Len(a) + Len(b)
           /\ \A n \in 1 .. Len(a) : (a \o b)[n] = a[n]
           /\ \A n \in Len(a) + 1 .. Len(a) + Len(b) : (a \o b)[n] = b[n - Len(a)]
  OBVIOUS

-----------------------------------------------------------------------------
(* The inductive invariant. *)

\* The receiver holds the last projection of the replay of its log.
ReceiverInv ==
    /\ event_log \in Hash /\ projections \in Seq(AuthorityState)
    /\ Replays(event_log, projections)
    /\ authority = projections[Len(projections)]
    /\ authority.lastSequence = Len(event_log)

\* The envelope of an event on the transport is a reading of its payload.
Carried(event) ==
    /\ event.entry.event \in CarriedEvents
    /\ event.executed.event \in Misreadings[event.entry.event]

TransportInv ==
    /\ source_log \in Hash
    /\ \A i \in 1 .. Len(source_log) : source_log[i].event \in SourceEvents
    /\ batches \subseteq Batch
    /\ \A b \in batches : \A k \in DOMAIN b.events : Carried(b.events[k])

\* What verifyTransportEnvelope establishes of a batch by itself.
Chained(b) ==
    \A k \in DOMAIN b.events :
        /\ b.events[k].previous = IF k = 1 THEN b.previous ELSE b.events[k - 1].hash
        /\ b.events[k].hash = Append(b.events[k].previous, b.events[k].entry)

HashesOf(b, n) == {ExecutedHash(b.events[k]) : k \in 1 .. n}

\* What the store has of an event of a batch that was accepted.
AcceptedRecord(b, k) ==
    [id |-> TransportCommandId(b, k), intent |-> TransportIntent(b, k),
     accepted |-> {ExecutedHash(b.events[k])}]

\* The events of the batch that are done were accepted, one by one, and are the last
\* of the log.
ReceivingInv ==
    receiving # None =>
        /\ receiving \in [batch : batches, done : Nat, accepted : SUBSET Hash]
        /\ receiving.done < Len(receiving.batch.events)
        /\ Chained(receiving.batch)
        /\ HashContinuity
        /\ \A k \in 1 .. receiving.done : AcceptedRecord(receiving.batch, k) \in executions
        /\ receiving.accepted = HashesOf(receiving.batch, receiving.done)

TransportIntents ==
    [event : TransportEvent, previous : Hash, head : Hash, delivery : Deliveries \cup {None}]

\* An accepted event is in the log.  A refused one was refused where its history ends:
\* the log has grown since, or would refuse it again.
TransportRecord(r) ==
    /\ r = [id |-> r.id, intent |-> r.intent, accepted |-> r.accepted]
    /\ r.intent \in TransportIntents
    /\ r.id \in (Deliveries \cup Hash) \X Hash
    /\ r.id[2] = r.intent.event.hash
    /\ r.intent.event.hash = Append(r.intent.event.previous, r.intent.event.entry)
    /\ \/ /\ r.accepted = {ExecutedHash(r.intent.event)}
          /\ IsPrefixOf(ExecutedHash(r.intent.event), event_log)
       \/ /\ r.accepted = {}
          /\ Len(r.intent.event.previous) <= Len(event_log)
          /\ r.intent.event.previous = event_log
                => ~ Accepts(r.intent.event.executed, event_log)

CommandRecord(r) ==
    /\ r = [id |-> r.id, intent |-> r.intent, accepted |-> r.accepted]
    /\ r.id \in CommandIds /\ r.intent \in Command
    /\ \/ r.accepted = {}
       \/ \E i \in DOMAIN event_log :
             /\ r.accepted = {SubSeq(event_log, 1, i)}
             /\ event_log[i] = [event |-> r.intent.event, sequence |-> r.intent.sequence]

ExecutionsInv ==
    /\ \A r \in executions : TransportRecord(r) \/ CommandRecord(r)
    /\ \A r, s \in executions : r.id = s.id => r = s

\* What an answer ok rests on: the records it would be repeated from.
Backed(request, accepted) ==
    \/ /\ request \in Batch /\ request.events # <<>>
       /\ \A k \in DOMAIN request.events : AcceptedRecord(request, k) \in executions
       /\ accepted = HashesOf(request, Len(request.events))
    \/ /\ request \in [id : CommandIds, command : Command]
       /\ accepted # {}
       /\ [id |-> request.id, intent |-> request.command, accepted |-> accepted] \in executions

AnswersInv ==
    \A a \in answers :
        /\ a \in [request : Request, ok : BOOLEAN, accepted : SUBSET Hash]
        /\ \A h \in a.accepted : IsPrefixOf(h, event_log)
        /\ a.ok => Backed(a.request, a.accepted)

ReplicationInv ==
    /\ ReceiverInv
    /\ TransportInv
    /\ ReceivingInv
    /\ ExecutionsInv
    /\ AnswersInv

-----------------------------------------------------------------------------
(* Events on the transport. *)

LEMMA ExecutedHashType ==
    ASSUME NEW event \in TransportEvent
    PROVE  /\ event.entry \in LogEntry /\ event.executed \in LogEntry
           /\ event.previous \in Hash /\ event.hash \in Hash
           /\ event.previous \in Seq(LogEntry) /\ Len(event.previous) \in Nat
           /\ ExecutedHash(event) \in Hash
           /\ Len(ExecutedHash(event)) = Len(event.previous) + 1
           /\ ExecutedHash(event)[Len(event.previous) + 1] = event.executed
<1>1. /\ event.entry \in LogEntry /\ event.executed \in LogEntry
      /\ event.previous \in Seq(LogEntry) /\ event.hash \in Seq(LogEntry)
  BY DEF TransportEvent, Hash
<1>2. /\ Append(event.previous, event.executed) \in Seq(LogEntry)
      /\ Len(Append(event.previous, event.executed)) = Len(event.previous) + 1
      /\ Append(event.previous, event.executed)[Len(event.previous) + 1] = event.executed
  BY <1>1
<1> QED BY <1>1, <1>2 DEF ExecutedHash, Hash

LEMMA MisreadingsAreEvents ==
    ASSUME NEW e \in CarriedEvents
    PROVE  e \in Event /\ e \in Misreadings[e] /\ Misreadings[e] \subseteq Event
<1>1. e \in Event
  BY ReplicationAssumption
<1>2. SamePayload(e, e)
  BY DEF SamePayload
<1> QED BY <1>1, <1>2 DEF Misreadings

-----------------------------------------------------------------------------
(* Steps of the receiver's log. *)

LogGrows ==
    \/ UNCHANGED receiver
    \/ \E entry \in LogEntry : event_log' = Append(event_log, entry)

LEMMA ReplicationInit == Init => ReplicationInv
<1> SUFFICES ASSUME Init PROVE ReplicationInv
  OBVIOUS
<1>1. ReceiverInv
  <2>1. /\ event_log = <<>> /\ projections = <<EmptyAuthorityState>>
        /\ authority = EmptyAuthorityState
    BY DEF Init
  <2>2. Len(event_log) = 0 /\ Len(projections) = 1 /\ projections[1] = EmptyAuthorityState
        /\ event_log \in Hash /\ projections \in Seq(AuthorityState)
    BY <2>1, EmptyIsState DEF Hash
  <2>3. authority.lastSequence = 0
    BY <2>1 DEF EmptyAuthorityState
  <2>4. Replays(event_log, projections)
    BY <2>2 DEF Replays
  <2> QED BY <2>1, <2>2, <2>3, <2>4 DEF ReceiverInv
<1>2. TransportInv /\ ReceivingInv /\ ExecutionsInv /\ AnswersInv
  BY DEF Hash, Init, TransportInv, ReceivingInv, ExecutionsInv, AnswersInv
<1> QED BY <1>1, <1>2 DEF ReplicationInv

LEMMA ReceiverTypes ==
    ASSUME ReceiverInv
    PROVE  /\ Len(event_log) \in Nat
           /\ Len(projections) = Len(event_log) + 1
           /\ authority \in AuthorityState
  BY DEF ReceiverInv, Replays, Hash

\* An accepted entry is the next one of the log, and the projection follows.
LEMMA AppendKeepsReceiver ==
    ASSUME ReceiverInv, NEW entry \in LogEntry, NEW previous,
           Accepts(entry, previous), AppendAndApply(entry)
    PROVE  /\ ReceiverInv' /\ event_log' = Append(event_log, entry)
           /\ entry.sequence = Len(event_log) + 1
<1> DEFINE next == ApplyEntry(authority, entry)
<1>1. /\ Len(projections) = Len(event_log) + 1 /\ authority \in AuthorityState
      /\ Len(event_log) \in Nat
  BY ReceiverTypes
<1>2. entry.sequence = Len(event_log) + 1
  BY DEF ReceiverInv, Accepts
<1>3. next \in AuthorityState /\ next.lastSequence = entry.sequence
  BY <1>1, ApplyEntryType DEF LogEntry
<1>4. /\ event_log' = Append(event_log, entry) /\ authority' = next
      /\ projections' = Append(projections, next)
  BY DEF AppendAndApply
<1> HIDE DEF next
<1>5. Replays(event_log', projections')
  <2>1. event_log \in Seq(LogEntry) /\ projections \in Seq(AuthorityState)
    BY DEF ReceiverInv, Hash
  <2>2. next = ApplyEntry(projections[Len(projections)], entry)
    BY DEF ReceiverInv, next
  <2> QED BY <1>3, <1>4, <2>1, <2>2, ReplayExtends DEF ReceiverInv
<1>6. /\ event_log' \in Hash /\ Len(event_log') = Len(event_log) + 1
      /\ projections' \in Seq(AuthorityState)
      /\ projections'[Len(projections')] = next
  BY <1>1, <1>3, <1>4 DEF ReceiverInv, Hash
<1> QED BY <1>2, <1>3, <1>4, <1>5, <1>6 DEF ReceiverInv

LEMMA UnchangedReceiver ==
    ASSUME ReceiverInv, UNCHANGED receiver
    PROVE  ReceiverInv' /\ LogGrows
  BY DEF ReceiverInv, LogGrows, receiver

\* Prefixes, records and answers survive what happens to the log.
LEMMA PrefixesStand ==
    ASSUME event_log \in Hash, LogGrows, NEW h \in Hash, IsPrefixOf(h, event_log)
    PROVE  IsPrefixOf(h, event_log')
  BY PrefixOfLonger DEF LogGrows, receiver, Hash

LEMMA RecordsStand ==
    ASSUME ReceiverInv, LogGrows, NEW r
    PROVE  /\ TransportRecord(r) => TransportRecord(r)'
           /\ CommandRecord(r) => CommandRecord(r)'
<1>1. CASE UNCHANGED receiver
  BY <1>1 DEF receiver, TransportRecord, CommandRecord, Accepts
<1>2. CASE \E entry \in LogEntry : event_log' = Append(event_log, entry)
  <2>1. PICK entry \in LogEntry : event_log' = Append(event_log, entry)
    BY <1>2
  <2>2. event_log \in Seq(LogEntry) /\ event_log' \in Seq(LogEntry)
        /\ Len(event_log') = Len(event_log) + 1
    BY <2>1 DEF ReceiverInv, Hash
  <2>3. ASSUME TransportRecord(r) PROVE TransportRecord(r)'
    <3>0. r.intent.event \in TransportEvent
      BY <2>3 DEF TransportRecord, TransportIntents
    <3>1. /\ ExecutedHash(r.intent.event) \in Hash
          /\ r.intent.event.previous \in Hash /\ Len(r.intent.event.previous) \in Nat
      BY <3>0, ExecutedHashType
    <3>2. CASE IsPrefixOf(ExecutedHash(r.intent.event), event_log)
                  /\ r.accepted = {ExecutedHash(r.intent.event)}
      <4>1. IsPrefixOf(ExecutedHash(r.intent.event), event_log')
        BY <2>2, <3>1, <3>2, PrefixesStand DEF Hash
      <4> QED BY <2>3, <3>2, <4>1 DEF TransportRecord
    <3>3. CASE Len(r.intent.event.previous) <= Len(event_log) /\ r.accepted = {}
      <4>1. Len(event_log) \in Nat /\ Len(r.intent.event.previous) < Len(event_log')
        BY <2>2, <3>1, <3>3
      <4>2. Len(r.intent.event.previous) <= Len(event_log')
            /\ r.intent.event.previous # event_log'
        BY <2>2, <3>1, <4>1
      <4> QED BY <2>3, <3>3, <4>2 DEF TransportRecord
    <3> QED BY <2>3, <3>2, <3>3 DEF TransportRecord
  <2>4. ASSUME CommandRecord(r) PROVE CommandRecord(r)'
    <3>1. CASE r.accepted = {}
      BY <2>4, <3>1 DEF CommandRecord
    <3>2. CASE r.accepted # {}
      <4>1. PICK i \in DOMAIN event_log :
               /\ r.accepted = {SubSeq(event_log, 1, i)}
               /\ event_log[i] = [event |-> r.intent.event, sequence |-> r.intent.sequence]
        BY <2>4, <3>2 DEF CommandRecord
      <4>2. i \in 0 .. Len(event_log) /\ i \in DOMAIN event_log' /\ event_log'[i] = event_log[i]
        BY <2>1, <2>2
      <4>3. SubSeq(event_log', 1, i) = SubSeq(event_log, 1, i)
        BY <2>1, <2>2, <4>2, SubSeqOfLonger
      <4> QED BY <2>4, <4>1, <4>2, <4>3 DEF CommandRecord
    <3> QED BY <3>1, <3>2
  <2> QED BY <2>3, <2>4
<1> QED BY <1>1, <1>2 DEF LogGrows

\* A step that takes no record and no batch away keeps the answers it leaves.
LEMMA AnswersStand ==
    ASSUME ReceiverInv, AnswersInv, LogGrows, executions \subseteq executions',
           answers' \subseteq answers
    PROVE  AnswersInv'
<1> SUFFICES ASSUME NEW a \in answers'
             PROVE  /\ a \in [request : Request, ok : BOOLEAN, accepted : SUBSET Hash]
                    /\ \A h \in a.accepted : IsPrefixOf(h, event_log')
                    /\ a.ok => Backed(a.request, a.accepted)'
  BY DEF AnswersInv
<1>1. /\ a \in [request : Request, ok : BOOLEAN, accepted : SUBSET Hash]
      /\ \A h \in a.accepted : h \in Hash /\ IsPrefixOf(h, event_log)
      /\ a.ok => Backed(a.request, a.accepted)
  BY DEF AnswersInv
<1>2. \A h \in a.accepted : IsPrefixOf(h, event_log')
  BY <1>1, PrefixesStand DEF ReceiverInv
<1>3. a.ok => Backed(a.request, a.accepted)'
  BY <1>1 DEF Backed
<1> QED BY <1>1, <1>2, <1>3

LEMMA AnswerKeepsAnswers ==
    ASSUME ReceiverInv, AnswersInv, LogGrows, executions \subseteq executions',
           NEW request \in Request, NEW ok \in BOOLEAN, NEW accepted \in SUBSET Hash,
           Answer(request, ok, accepted),
           \A h \in accepted : IsPrefixOf(h, event_log'),
           ok => Backed(request, accepted)'
    PROVE  AnswersInv'
<1> DEFINE new == [request |-> request, ok |-> ok, accepted |-> accepted]
<1>1. \A a \in answers' : a \in answers \/ a = new
  BY DEF Answer
<1>2. /\ new \in [request : Request, ok : BOOLEAN, accepted : SUBSET Hash]
      /\ new.request = request /\ (new.ok <=> ok) /\ new.accepted = accepted
  OBVIOUS
<1> HIDE DEF new
<1>3. ASSUME NEW a \in answers', a \in answers
      PROVE  /\ a \in [request : Request, ok : BOOLEAN, accepted : SUBSET Hash]
             /\ \A h \in a.accepted : IsPrefixOf(h, event_log')
             /\ a.ok => Backed(a.request, a.accepted)'
  <2>1. /\ a \in [request : Request, ok : BOOLEAN, accepted : SUBSET Hash]
        /\ \A h \in a.accepted : h \in Hash /\ IsPrefixOf(h, event_log)
        /\ a.ok => Backed(a.request, a.accepted)
    BY <1>3 DEF AnswersInv
  <2>2. \A h \in a.accepted : IsPrefixOf(h, event_log')
    BY <2>1, PrefixesStand DEF ReceiverInv
  <2>3. a.ok => Backed(a.request, a.accepted)'
    BY <2>1 DEF Backed
  <2> QED BY <2>1, <2>2, <2>3
<1>4. \A a \in answers' : /\ a \in [request : Request, ok : BOOLEAN, accepted : SUBSET Hash]
                          /\ \A h \in a.accepted : IsPrefixOf(h, event_log')
                          /\ a.ok => Backed(a.request, a.accepted)'
  BY <1>1, <1>2, <1>3
<1> QED BY <1>4 DEF AnswersInv

-----------------------------------------------------------------------------
(* executeCommand. *)

LEMMA ExecuteCases ==
    ASSUME NEW id, NEW intent, NEW admitted \in BOOLEAN, NEW entry, NEW previous,
           Execute(id, intent, admitted, entry, previous)
    PROVE  \/ /\ Recorded(id) # {} /\ UNCHANGED receiver /\ executions' = executions
              /\ Outcome(id, intent, admitted, entry, previous)
                    = UNION {r.accepted : r \in {x \in Recorded(id) : x.intent = intent}}
           \/ /\ Recorded(id) = {} /\ admitted /\ Accepts(entry, previous)
              /\ AppendAndApply(entry)
              /\ Outcome(id, intent, admitted, entry, previous) = {Append(event_log, entry)}
              /\ executions' = executions \cup
                    {[id |-> id, intent |-> intent, accepted |-> {Append(event_log, entry)}]}
           \/ /\ Recorded(id) = {} /\ ~ (admitted /\ Accepts(entry, previous))
              /\ UNCHANGED receiver
              /\ Outcome(id, intent, admitted, entry, previous) = {}
              /\ executions' = executions \cup
                    {[id |-> id, intent |-> intent, accepted |-> {}]}
<1>1. CASE Recorded(id) # {}
  BY <1>1 DEF Execute, Outcome
<1>2. CASE Recorded(id) = {} /\ admitted /\ Accepts(entry, previous)
  <2>1. Outcome(id, intent, admitted, entry, previous) = {Append(event_log, entry)}
    BY <1>2 DEF Outcome
  <2> QED BY <1>2, <2>1 DEF Execute
<1>3. CASE Recorded(id) = {} /\ ~ (admitted /\ Accepts(entry, previous))
  <2>1. Outcome(id, intent, admitted, entry, previous) = {}
    BY <1>3 DEF Outcome
  <2> QED BY <1>3, <2>1 DEF Execute
<1> QED BY <1>1, <1>2, <1>3

\* One more record, under an id that had none.
LEMMA RecordAdded ==
    ASSUME ReceiverInv, ExecutionsInv, LogGrows, NEW new, Recorded(new.id) = {},
           executions' = executions \cup {new}, TransportRecord(new)' \/ CommandRecord(new)'
    PROVE  ExecutionsInv'
<1>1. \A r \in executions : TransportRecord(r)' \/ CommandRecord(r)'
  BY RecordsStand DEF ExecutionsInv
<1>2. \A r \in executions : r.id # new.id
  BY DEF Recorded
<1> QED BY <1>1, <1>2 DEF ExecutionsInv

LEMMA RecordsKept ==
    ASSUME ReceiverInv, ExecutionsInv, LogGrows, executions' = executions
    PROVE  ExecutionsInv'
<1>1. \A r \in executions : TransportRecord(r)' \/ CommandRecord(r)'
  BY RecordsStand DEF ExecutionsInv
<1> QED BY <1>1 DEF ExecutionsInv

\* The fingerprint of a command is never that of a transported event.
LEMMA IntentsDiffer == Command \cap TransportIntents = {}
<1>1. \A c \in Command : "type" \in DOMAIN c
  BY DEF Command
<1>2. \A i \in TransportIntents : "type" \notin DOMAIN i
  BY DEF TransportIntents
<1> QED BY <1>1, <1>2

\* The next event of a batch that is being received.
LEMMA NextEvent ==
    ASSUME ReplicationInv, receiving # None,
           NEW b, b = receiving.batch, NEW k, k = receiving.done + 1
    PROVE  /\ b \in batches /\ b \in Batch /\ k \in 1 .. Len(b.events) /\ Chained(b)
           /\ b.events \in Seq(TransportEvent)
           /\ b.events[k] \in TransportEvent
           /\ Carried(b.events[k])
           /\ Len(b.events[k].previous) = Len(event_log)
           /\ b.events[k].previous = event_log
                 => \A n \in 1 .. k - 1 : b.events[n].executed = b.events[n].entry
           /\ b.events[k].hash = Append(b.events[k].previous, b.events[k].entry)
           /\ TransportIntent(b, k) \in TransportIntents
           /\ TransportCommandId(b, k) \in (Deliveries \cup Hash) \X Hash
           /\ TransportCommandId(b, k)[2] = b.events[k].hash
<1>1. /\ receiving \in [batch : batches, done : Nat, accepted : SUBSET Hash]
      /\ receiving.done < Len(b.events) /\ Chained(b) /\ HashContinuity
  BY DEF ReplicationInv, ReceivingInv
<1>2. b \in batches /\ b \in Batch
  BY <1>1 DEF ReplicationInv, TransportInv
<1>3. /\ b.events \in Seq(TransportEvent) /\ b.previous \in Hash /\ b.head \in Hash
      /\ b.delivery \in Deliveries \cup {None}
  BY <1>2 DEF Batch
<1>4. k \in 1 .. Len(b.events) /\ k \in DOMAIN b.events /\ k - 1 = receiving.done
  BY <1>1, <1>3
<1>5. b.events[k] \in TransportEvent
  BY <1>3, <1>4
<1>6. /\ b.events[k].entry \in LogEntry /\ b.events[k].previous \in Hash
      /\ b.events[k].hash \in Hash
  BY <1>5 DEF TransportEvent
<1>7. Carried(b.events[k])
  BY <1>2, <1>4 DEF ReplicationInv, TransportInv
<1>8. /\ Len(b.events[k].previous) = Len(event_log)
      /\ b.events[k].previous = event_log
            => \A n \in 1 .. k - 1 : b.events[n].executed = b.events[n].entry
  <2>1. b.events[k].previous = IF k = 1 THEN b.previous ELSE b.events[k - 1].hash
    BY <1>1, <1>4 DEF Chained
  <2>2. CASE k = 1
    <3>1. event_log = b.previous
      BY <1>1, <1>4, <2>2 DEF HashContinuity
    <3> QED BY <2>1, <2>2, <3>1
  <2>3. CASE k # 1
    <3>1. PICK last \in TransportEvent : last = b.events[k - 1]
      BY <1>3, <1>4, <2>3
    <3>2. /\ event_log = ExecutedHash(last)
          /\ \A n \in 1 .. k - 2 : b.events[n].executed = b.events[n].entry
      BY <1>1, <1>4, <2>3, <3>1 DEF HashContinuity
    <3>3. last.hash = Append(last.previous, last.entry)
      BY <1>1, <1>4, <2>3, <3>1 DEF Chained
    <3>4. /\ Len(last.hash) = Len(last.previous) + 1
          /\ last.hash[Len(last.previous) + 1] = last.entry
      BY <3>3, ExecutedHashType
    <3>5. /\ Len(event_log) = Len(last.previous) + 1
          /\ event_log[Len(last.previous) + 1] = last.executed
      BY <3>2, ExecutedHashType
    <3>6. b.events[k].previous = event_log => last.executed = last.entry
      BY <2>1, <2>3, <3>1, <3>4, <3>5
    <3>7. Len(b.events[k].previous) = Len(event_log)
      BY <2>1, <2>3, <3>1, <3>4, <3>5
    <3>8. ASSUME b.events[k].previous = event_log, NEW n \in 1 .. k - 1
          PROVE  b.events[n].executed = b.events[n].entry
      <4>1. n = k - 1 \/ n \in 1 .. k - 2
        BY <1>4
      <4> QED BY <3>1, <3>2, <3>6, <3>8, <4>1
    <3> QED BY <3>7, <3>8
  <2> QED BY <2>2, <2>3
<1>9. b.events[k].hash = Append(b.events[k].previous, b.events[k].entry)
  BY <1>1, <1>4 DEF Chained
<1>10. TransportIntent(b, k) \in TransportIntents
  BY <1>3, <1>5 DEF TransportIntent, TransportIntents
<1>11. /\ TransportCommandId(b, k) \in (Deliveries \cup Hash) \X Hash
       /\ TransportCommandId(b, k)[2] = b.events[k].hash
  BY <1>3, <1>6 DEF TransportCommandId
<1> QED BY <1>1, <1>2, <1>3, <1>4, <1>5, <1>6, <1>7, <1>8, <1>9, <1>10, <1>11

EventOutcome(b, k) ==
    Outcome(TransportCommandId(b, k), TransportIntent(b, k), TRUE,
            b.events[k].executed, b.events[k].previous)

\* It is accepted now and recorded, or nothing happens to the log: a record of it that says
\* accepted would be of an event that is in the log already.
LEMMA EventCases ==
    ASSUME ReplicationInv, receiving # None,
           NEW b, b = receiving.batch, NEW k, k = receiving.done + 1,
           Execute(TransportCommandId(b, k), TransportIntent(b, k), TRUE,
                   b.events[k].executed, b.events[k].previous)
    PROVE  /\ ReceiverInv' /\ LogGrows /\ ExecutionsInv' /\ executions \subseteq executions'
           /\ \/ /\ EventOutcome(b, k) = {ExecutedHash(b.events[k])}
                 /\ b.events[k].previous = event_log
                 /\ event_log' = ExecutedHash(b.events[k])
                 /\ AcceptedRecord(b, k) \in executions'
              \/ EventOutcome(b, k) = {} /\ UNCHANGED receiver
<1> DEFINE id     == TransportCommandId(b, k)
           intent == TransportIntent(b, k)
           event  == b.events[k]
<1>a. PICK accept :
         accept = [id |-> id, intent |-> intent, accepted |-> {Append(event_log, event.executed)}]
  OBVIOUS
<1>r. PICK refuse : refuse = [id |-> id, intent |-> intent, accepted |-> {}]
  OBVIOUS
<1>1. /\ b \in batches /\ b \in Batch /\ k \in 1 .. Len(b.events)
      /\ event \in TransportEvent /\ Len(event.previous) = Len(event_log)
      /\ event.hash = Append(event.previous, event.entry)
      /\ intent \in TransportIntents
      /\ id \in (Deliveries \cup Hash) \X Hash
      /\ id[2] = event.hash
  BY NextEvent
<1>2. ReceiverInv /\ ExecutionsInv /\ event_log \in Seq(LogEntry) /\ Len(event_log) \in Nat
  BY ReceiverTypes DEF ReplicationInv, ReceiverInv, Hash
<1>3. intent.event = event
  BY DEF TransportIntent
<1>4. /\ ExecutedHash(event) \in Hash /\ Len(ExecutedHash(event)) = Len(event_log) + 1
      /\ event.executed \in LogEntry /\ event.previous \in Hash /\ event.previous # None
  BY <1>1, ExecutedHashType, ReplicationAssumption
<1>5. CASE /\ Recorded(id) # {} /\ UNCHANGED receiver /\ executions' = executions
           /\ EventOutcome(b, k)
                 = UNION {r.accepted : r \in {x \in Recorded(id) : x.intent = intent}}
  <2>1. ReceiverInv' /\ LogGrows
    BY <1>2, <1>5, UnchangedReceiver
  <2>2. ASSUME NEW r \in Recorded(id), r.intent = intent PROVE r.accepted = {}
    <3>1. TransportRecord(r)
      BY <1>1, <1>2, <2>2, IntentsDiffer DEF Recorded, ExecutionsInv, CommandRecord
    <3>2. ~ IsPrefixOf(ExecutedHash(event), event_log)
      <4>1. ~ Len(ExecutedHash(event)) <= Len(event_log)
        BY <1>2, <1>4
      <4> QED BY <4>1 DEF IsPrefixOf
    <3> QED BY <1>3, <2>2, <3>1, <3>2 DEF TransportRecord
  <2>3. EventOutcome(b, k) = {}
    BY <1>5, <2>2
  <2> QED BY <1>2, <1>5, <2>1, <2>3, RecordsKept
<1>6. CASE /\ Recorded(id) = {} /\ Accepts(event.executed, event.previous)
           /\ AppendAndApply(event.executed)
           /\ EventOutcome(b, k) = {Append(event_log, event.executed)}
           /\ executions' = executions \cup {accept}
  <2>0. event.previous = event_log /\ Append(event_log, event.executed) = ExecutedHash(event)
    BY <1>4, <1>6 DEF Accepts, ExecutedHash
  <2>1. ReceiverInv' /\ event_log' = ExecutedHash(event)
    BY <1>2, <1>4, <1>6, <2>0, AppendKeepsReceiver
  <2>2. LogGrows
    BY <1>4, <2>0, <2>1 DEF LogGrows
  <2>3. /\ accept.id = id /\ accept.intent = intent /\ accept.accepted = {ExecutedHash(event)}
        /\ accept = [id |-> accept.id, intent |-> accept.intent, accepted |-> accept.accepted]
        /\ accept = AcceptedRecord(b, k)
    BY <1>a, <2>0 DEF AcceptedRecord
  <2>4. IsPrefixOf(ExecutedHash(event), event_log')
    BY <1>4, <2>1, PrefixOfItself DEF Hash
  <2>5. TransportRecord(accept)'
    BY <1>1, <1>3, <2>3, <2>4 DEF TransportRecord
  <2>6. ExecutionsInv'
    BY <1>2, <1>6, <2>2, <2>3, <2>5, RecordAdded
  <2> QED BY <1>6, <2>0, <2>1, <2>2, <2>3, <2>6
<1>7. CASE /\ Recorded(id) = {} /\ ~ Accepts(event.executed, event.previous)
           /\ UNCHANGED receiver
           /\ EventOutcome(b, k) = {}
           /\ executions' = executions \cup {refuse}
  <2>1. ReceiverInv' /\ LogGrows
    BY <1>2, <1>7, UnchangedReceiver
  <2>2. refuse.id = id /\ refuse.intent = intent /\ refuse.accepted = {}
    BY <1>r
  <2>3. event_log' = event_log /\ authority' = authority
    BY <1>7 DEF receiver
  <2>4. event.previous = event_log => ~ Accepts(refuse.intent.event.executed, event_log)'
    BY <1>3, <1>7, <2>2, <2>3 DEF Accepts
  <2>5. TransportRecord(refuse)'
    <3>1. /\ refuse = [id |-> refuse.id, intent |-> refuse.intent, accepted |-> refuse.accepted]
          /\ refuse.intent \in TransportIntents
          /\ refuse.id \in (Deliveries \cup Hash) \X Hash
          /\ refuse.id[2] = refuse.intent.event.hash
      BY <1>r, <1>1, <1>3, <2>2
    <3>2. /\ refuse.intent.event = event
          /\ event.hash = Append(event.previous, event.entry)
          /\ Len(event.previous) <= Len(event_log')
      <4>1. Len(event.previous) = Len(event_log') /\ Len(event_log') \in Nat
        BY <1>1, <1>2, <2>3
      <4>2. Len(event.previous) <= Len(event_log')
        BY <4>1
      <4> QED BY <1>1, <1>3, <2>2, <4>2
    <3> QED BY <2>2, <2>3, <2>4, <3>1, <3>2 DEF TransportRecord
  <2>6. ExecutionsInv'
    BY <1>2, <1>7, <2>1, <2>2, <2>5, RecordAdded
  <2> QED BY <1>7, <2>1, <2>6
<1>8. \/ /\ Recorded(id) # {} /\ UNCHANGED receiver /\ executions' = executions
         /\ EventOutcome(b, k)
               = UNION {r.accepted : r \in {x \in Recorded(id) : x.intent = intent}}
      \/ /\ Recorded(id) = {} /\ Accepts(event.executed, event.previous)
         /\ AppendAndApply(event.executed)
         /\ EventOutcome(b, k) = {Append(event_log, event.executed)}
         /\ executions' = executions \cup {accept}
      \/ /\ Recorded(id) = {} /\ ~ Accepts(event.executed, event.previous)
         /\ UNCHANGED receiver
         /\ EventOutcome(b, k) = {}
         /\ executions' = executions \cup {refuse}
  <2> HIDE DEF id, intent, event
  <2>1. TRUE \in BOOLEAN
    OBVIOUS
  <2>2. Execute(id, intent, TRUE, event.executed, event.previous)
    BY DEF id, intent, event
  <2>3. EventOutcome(b, k) = Outcome(id, intent, TRUE, event.executed, event.previous)
    BY Zenon DEF EventOutcome, id, intent, event
  <2> QED BY <1>a, <1>r, <2>1, <2>2, <2>3, ExecuteCases
<1> QED BY <1>5, <1>6, <1>7, <1>8

-----------------------------------------------------------------------------
(* The transport. *)

LEMMA BatchOfType ==
    ASSUME NEW log \in Hash, \A n \in 1 .. Len(log) : log[n].event \in CarriedEvents,
           NEW i \in 0 .. Len(log), NEW j \in i .. Len(log), NEW d \in Deliveries \cup {None}
    PROVE  /\ BatchOf(log, i, j, d) \in Batch
           /\ \A k \in DOMAIN BatchOf(log, i, j, d).events :
                 Carried(BatchOf(log, i, j, d).events[k])
<1>1. log \in Seq(LogEntry) /\ i \in Nat /\ j \in Nat /\ i <= j /\ j <= Len(log) /\ j - i \in Nat
  BY DEF Hash
<1>2. \A n \in Nat : n <= Len(log) => SubSeq(log, 1, n) \in Hash
  BY <1>1, SubSeqShape DEF Hash
<1>3. ASSUME NEW k \in 1 .. j - i
      PROVE  /\ log[i + k] \in LogEntry /\ log[i + k].event \in CarriedEvents
             /\ SubSeq(log, 1, i + k - 1) \in Hash /\ SubSeq(log, 1, i + k) \in Hash
  <2>1. i + k \in 1 .. Len(log) /\ i + k - 1 \in Nat /\ i + k - 1 <= Len(log) /\ i + k \in Nat
    BY <1>1
  <2> QED BY <1>1, <1>2, <2>1
<1> DEFINE events == [k \in 1 .. j - i |-> [entry    |-> log[i + k],
                                            executed |-> log[i + k],
                                            previous |-> SubSeq(log, 1, i + k - 1),
                                            hash     |-> SubSeq(log, 1, i + k)]]
<1>4. \A k \in 1 .. j - i : /\ events[k] \in TransportEvent
                            /\ events[k].entry = log[i + k] /\ events[k].executed = log[i + k]
  BY <1>3 DEF TransportEvent
<1>a. \A k \in 1 .. j - i : Carried(events[k])
  BY <1>3, <1>4, MisreadingsAreEvents DEF Carried
<1>5. DOMAIN events = 1 .. j - i
  OBVIOUS
<1>6. events = [k \in 1 .. j - i |-> events[k]]
  OBVIOUS
<1>7. BatchOf(log, i, j, d)
         = [delivery |-> d, previous |-> SubSeq(log, 1, i), events |-> events,
            head |-> SubSeq(log, 1, j)]
  BY DEF BatchOf
<1> HIDE DEF events
<1>8. events \in Seq(TransportEvent)
  BY <1>1, <1>4, <1>6
<1>9. SubSeq(log, 1, i) \in Hash /\ SubSeq(log, 1, j) \in Hash
  BY <1>1, <1>2
<1>10. BatchOf(log, i, j, d) \in Batch /\ BatchOf(log, i, j, d).events = events
  BY <1>7, <1>8, <1>9 DEF Batch
<1> QED BY <1>5, <1>10, <1>a

\* The events a batch that lost its k-th one arrives with: no others than it had.
WithoutEvent(events, k) == SubSeq(events, 1, k - 1) \o SubSeq(events, k + 1, Len(events))

LEMMA LostEvents ==
    ASSUME NEW b \in Batch, NEW k \in DOMAIN b.events
    PROVE  /\ WithoutEvent(b.events, k) \in Seq(TransportEvent)
           /\ \A n \in DOMAIN WithoutEvent(b.events, k) :
                 \E m \in DOMAIN b.events : WithoutEvent(b.events, k)[n] = b.events[m]
<1> DEFINE kept == WithoutEvent(b.events, k)
<1>1. b.events \in Seq(TransportEvent)
  BY DEF Batch
<1>2. k \in 1 .. Len(b.events) /\ Len(b.events) \in Nat /\ DOMAIN b.events = 1 .. Len(b.events)
  BY <1>1
<1>3. /\ kept \in Seq(TransportEvent) /\ DOMAIN kept = 1 .. Len(b.events) - 1
      /\ \A n \in 1 .. k - 1 : kept[n] = b.events[n]
      /\ \A n \in k .. Len(b.events) - 1 : kept[n] = b.events[n + 1]
  <2>1. /\ SubSeq(b.events, 1, k - 1) \in Seq(TransportEvent)
        /\ Len(SubSeq(b.events, 1, k - 1)) = k - 1
        /\ \A n \in 1 .. k - 1 : SubSeq(b.events, 1, k - 1)[n] = b.events[n]
    BY <1>1, <1>2, SubSeqShape
  <2>2. /\ SubSeq(b.events, k + 1, Len(b.events)) \in Seq(TransportEvent)
        /\ Len(SubSeq(b.events, k + 1, Len(b.events))) = Len(b.events) - k
        /\ \A n \in 1 .. Len(b.events) - k :
              SubSeq(b.events, k + 1, Len(b.events))[n] = b.events[k + n]
    BY <1>1, <1>2
  <2>3. /\ kept \in Seq(TransportEvent) /\ DOMAIN kept = 1 .. Len(b.events) - 1
        /\ \A n \in 1 .. k - 1 : kept[n] = SubSeq(b.events, 1, k - 1)[n]
        /\ \A n \in k .. Len(b.events) - 1 :
              kept[n] = SubSeq(b.events, k + 1, Len(b.events))[n - (k - 1)]
    <3> DEFINE first == SubSeq(b.events, 1, k - 1)
               rest  == SubSeq(b.events, k + 1, Len(b.events))
    <3>1. /\ first \in Seq(TransportEvent) /\ rest \in Seq(TransportEvent)
          /\ Len(first) = k - 1 /\ Len(rest) = Len(b.events) - k
      BY <2>1, <2>2
    <3>2. /\ (k - 1) + (Len(b.events) - k) = Len(b.events) - 1 /\ (k - 1) + 1 = k
      BY <1>2
    <3> HIDE DEF first, rest
    <3>3. kept = first \o rest
      BY DEF kept, WithoutEvent, first, rest
    <3>4. /\ first \o rest \in Seq(TransportEvent)
          /\ DOMAIN (first \o rest) = 1 .. Len(first) + Len(rest)
          /\ \A n \in 1 .. Len(first) : (first \o rest)[n] = first[n]
          /\ \A n \in Len(first) + 1 .. Len(first) + Len(rest) :
                (first \o rest)[n] = rest[n - Len(first)]
      BY <3>1, Concatenated
    <3>5. /\ kept \in Seq(TransportEvent) /\ DOMAIN kept = 1 .. Len(b.events) - 1
          /\ \A n \in 1 .. k - 1 : kept[n] = first[n]
          /\ \A n \in k .. Len(b.events) - 1 : kept[n] = rest[n - (k - 1)]
      BY <3>1, <3>2, <3>3, <3>4
    <3> QED BY <3>5 DEF first, rest
  <2>4. \A n \in k .. Len(b.events) - 1 :
           n - (k - 1) \in 1 .. Len(b.events) - k /\ k + (n - (k - 1)) = n + 1
    BY <1>2
  <2> QED BY <2>1, <2>2, <2>3, <2>4
<1> HIDE DEF kept
<1>a. ASSUME NEW n \in DOMAIN kept PROVE \E m \in DOMAIN b.events : kept[n] = b.events[m]
  <2>1. CASE n \in 1 .. k - 1
    BY <1>2, <1>3, <2>1
  <2>2. CASE n \in k .. Len(b.events) - 1
    <3>1. n + 1 \in DOMAIN b.events
      BY <1>2, <2>2
    <3> QED BY <1>3, <2>2, <3>1
  <2> QED BY <1>2, <1>3, <2>1, <2>2
<1> QED BY <1>3, <1>a DEF kept

\* A batch one of whose events is another.
LEMMA AlteredEvent ==
    ASSUME NEW b \in Batch, NEW k \in DOMAIN b.events, NEW new \in TransportEvent, NEW c,
           c = WithEvent(b, k, new)
    PROVE  /\ c \in Batch /\ DOMAIN c.events = DOMAIN b.events
           /\ \A n \in DOMAIN b.events : c.events[n] = IF n = k THEN new ELSE b.events[n]
<1>1. b.events \in Seq(TransportEvent)
  BY DEF Batch
<1>2. /\ [b.events EXCEPT ![k] = new] \in Seq(TransportEvent)
      /\ DOMAIN [b.events EXCEPT ![k] = new] = DOMAIN b.events
      /\ \A n \in DOMAIN b.events :
            [b.events EXCEPT ![k] = new][n] = IF n = k THEN new ELSE b.events[n]
  BY <1>1
<1>3. c \in Batch /\ c.events = [b.events EXCEPT ![k] = new]
  BY <1>2 DEF Batch, WithEvent
<1> QED BY <1>2, <1>3

\* A batch damaged in an event keeps the hashes, and its envelopes are still readings of
\* their payloads.
LEMMA DamagedEvent ==
    ASSUME TransportInv, NEW b \in batches, NEW k \in DOMAIN b.events,
           NEW new \in TransportEvent, Carried(new), new.hash = b.events[k].hash,
           Send(WithEvent(b, k, new))
    PROVE  \E c \in Batch :
              /\ Send(c)
              /\ \A n \in DOMAIN c.events :
                    /\ Carried(c.events[n])
                    /\ \E m \in DOMAIN b.events : c.events[n].hash = b.events[m].hash
<1>1. b \in Batch /\ \A n \in DOMAIN b.events : Carried(b.events[n])
  BY DEF TransportInv
<1>2. PICK c : c = WithEvent(b, k, new)
  OBVIOUS
<1>3. /\ c \in Batch /\ DOMAIN c.events = DOMAIN b.events
      /\ \A n \in DOMAIN b.events : c.events[n] = IF n = k THEN new ELSE b.events[n]
  BY <1>1, <1>2, AlteredEvent
<1>4. ASSUME NEW n \in DOMAIN c.events
      PROVE  Carried(c.events[n]) /\ c.events[n].hash = b.events[n].hash
  BY <1>1, <1>3
<1> QED BY <1>2, <1>3, <1>4

LEMMA Damaged ==
    ASSUME TransportInv, DamageBatch
    PROVE  \E b \in batches, c \in Batch :
              /\ Send(c)
              /\ \A n \in DOMAIN c.events :
                    /\ Carried(c.events[n])
                    /\ \E m \in DOMAIN b.events : c.events[n].hash = b.events[m].hash
<1>1. PICK b \in batches : \E k \in DOMAIN b.events :
         \/ Send([b EXCEPT !.events = SubSeq(@, 1, k - 1) \o SubSeq(@, k + 1, Len(@))])
         \/ \E e \in CarriedEvents : Send(WithEvent(b, k,
               [b.events[k] EXCEPT !.entry.event = e, !.executed.event = e]))
         \/ \E f \in Misreadings[b.events[k].entry.event] : Send(WithEvent(b, k,
               [b.events[k] EXCEPT !.executed.event = f]))
         \/ \E n \in 1 .. MaxEvents : Send(WithEvent(b, k,
               [b.events[k] EXCEPT !.executed.sequence = n]))
  BY Zenon DEF DamageBatch
<1>2. PICK k \in DOMAIN b.events :
         \/ Send([b EXCEPT !.events = SubSeq(@, 1, k - 1) \o SubSeq(@, k + 1, Len(@))])
         \/ \E e \in CarriedEvents : Send(WithEvent(b, k,
               [b.events[k] EXCEPT !.entry.event = e, !.executed.event = e]))
         \/ \E f \in Misreadings[b.events[k].entry.event] : Send(WithEvent(b, k,
               [b.events[k] EXCEPT !.executed.event = f]))
         \/ \E n \in 1 .. MaxEvents : Send(WithEvent(b, k,
               [b.events[k] EXCEPT !.executed.sequence = n]))
  BY <1>1
<1>3. /\ b \in Batch /\ b.events \in Seq(TransportEvent) /\ b.events[k] \in TransportEvent
      /\ \A n \in DOMAIN b.events : Carried(b.events[n])
  BY DEF TransportInv, Batch
<1>4. /\ b.events[k].entry.event \in CarriedEvents
      /\ b.events[k].executed.event \in Misreadings[b.events[k].entry.event]
  BY <1>3 DEF Carried
<1>5. CASE Send([b EXCEPT !.events = SubSeq(@, 1, k - 1) \o SubSeq(@, k + 1, Len(@))])
  <2>1. PICK kept : kept = WithoutEvent(b.events, k)
    OBVIOUS
  <2>2. PICK c : c = [b EXCEPT !.events = kept]
    OBVIOUS
  <2>3. Send(c)
    BY <1>5, <2>1, <2>2 DEF WithoutEvent
  <2>4. /\ kept \in Seq(TransportEvent)
        /\ \A n \in DOMAIN kept : \E m \in DOMAIN b.events : kept[n] = b.events[m]
    BY <1>3, <2>1, LostEvents
  <2>5. c \in Batch /\ c.events = kept
    BY <1>3, <2>2, <2>4 DEF Batch
  <2> QED BY <1>3, <2>3, <2>4, <2>5
<1>6. ASSUME NEW e \in CarriedEvents,
             Send(WithEvent(b, k,
                     [b.events[k] EXCEPT !.entry.event = e, !.executed.event = e]))
      PROVE  \E c \in Batch :
                /\ Send(c)
                /\ \A n \in DOMAIN c.events :
                      /\ Carried(c.events[n])
                      /\ \E m \in DOMAIN b.events : c.events[n].hash = b.events[m].hash
  <2>1. PICK new : new = [b.events[k] EXCEPT !.entry.event = e, !.executed.event = e]
    OBVIOUS
  <2>2. /\ new \in TransportEvent /\ new.hash = b.events[k].hash
        /\ new.entry.event = e /\ new.executed.event = e
    BY <1>3, <2>1, MisreadingsAreEvents DEF TransportEvent, LogEntry
  <2>3. Carried(new)
    BY <2>2, MisreadingsAreEvents DEF Carried
  <2> QED BY <1>6, <2>1, <2>2, <2>3, DamagedEvent
<1>7. ASSUME NEW f \in Misreadings[b.events[k].entry.event],
             Send(WithEvent(b, k, [b.events[k] EXCEPT !.executed.event = f]))
      PROVE  \E c \in Batch :
                /\ Send(c)
                /\ \A n \in DOMAIN c.events :
                      /\ Carried(c.events[n])
                      /\ \E m \in DOMAIN b.events : c.events[n].hash = b.events[m].hash
  <2>1. PICK new : new = [b.events[k] EXCEPT !.executed.event = f]
    OBVIOUS
  <2>2. f \in Event
    BY <1>4, MisreadingsAreEvents
  <2>3. /\ new \in TransportEvent /\ new.hash = b.events[k].hash
        /\ new.entry = b.events[k].entry /\ new.executed.event = f
    BY <1>3, <2>1, <2>2 DEF TransportEvent, LogEntry
  <2>4. Carried(new)
    BY <1>4, <2>3 DEF Carried
  <2> QED BY <1>7, <2>1, <2>3, <2>4, DamagedEvent
<1>8. ASSUME NEW n \in 1 .. MaxEvents,
             Send(WithEvent(b, k, [b.events[k] EXCEPT !.executed.sequence = n]))
      PROVE  \E c \in Batch :
                /\ Send(c)
                /\ \A x \in DOMAIN c.events :
                      /\ Carried(c.events[x])
                      /\ \E m \in DOMAIN b.events : c.events[x].hash = b.events[m].hash
  <2>1. PICK new : new = [b.events[k] EXCEPT !.executed.sequence = n]
    OBVIOUS
  <2>2. /\ new \in TransportEvent /\ new.hash = b.events[k].hash
        /\ new.entry = b.events[k].entry /\ new.executed.event = b.events[k].executed.event
    <3>1. n \in Nat
      BY ReplicationAssumption
    <3> QED BY <1>3, <2>1, <3>1 DEF TransportEvent, LogEntry
  <2>3. Carried(new)
    BY <1>4, <2>2 DEF Carried
  <2> QED BY <1>8, <2>1, <2>2, <2>3, DamagedEvent
<1> QED BY <1>2, <1>5, <1>6, <1>7, <1>8

LEMMA SendKeepsTransport ==
    ASSUME TransportInv, NEW b \in Batch,
           \A k \in DOMAIN b.events : Carried(b.events[k]), Send(b)
    PROVE  TransportInv'
  BY DEF TransportInv, Send

LEMMA SendsKeepTransport ==
    ASSUME TransportInv, SendHistory \/ SendForeignHistory \/ DamageBatch
    PROVE  TransportInv' /\ \E b : Send(b)
<1>0. /\ source_log \in Hash /\ source_log \in Seq(LogEntry) /\ Len(source_log) \in Nat
      /\ \A i \in 1 .. Len(source_log) : source_log[i].event \in CarriedEvents
  BY DEF TransportInv, Hash, CarriedEvents
<1>1. CASE SendHistory
  <2>1. PICK i \in 0 .. Len(source_log), d \in Deliveries \cup {None} :
           \E j \in i + 1 .. Len(source_log) : Send(BatchOf(source_log, i, j, d))
    BY <1>1 DEF SendHistory
  <2>2. PICK j \in i + 1 .. Len(source_log) : Send(BatchOf(source_log, i, j, d))
    BY <2>1
  <2>3. j \in i .. Len(source_log)
    BY <1>0
  <2>4. PICK b : b = BatchOf(source_log, i, j, d)
    OBVIOUS
  <2>5. /\ b \in Batch
        /\ \A k \in DOMAIN b.events : Carried(b.events[k])
    BY <1>0, <2>3, <2>4, BatchOfType
  <2> QED BY <2>2, <2>4, <2>5, SendKeepsTransport
<1>2. CASE SendForeignHistory
  <2>1. PICK j \in 0 .. Len(source_log), e \in PeerEvents, d \in Deliveries \cup {None} :
           LET log == Append(SubSeq(source_log, 1, j), [event |-> e, sequence |-> j + 1])
           IN  \E i \in 0 .. j : Send(BatchOf(log, i, j + 1, d))
    BY <1>2 DEF SendForeignHistory
  <2>2. PICK log : log = Append(SubSeq(source_log, 1, j), [event |-> e, sequence |-> j + 1])
    OBVIOUS
  <2>3. PICK i \in 0 .. j : Send(BatchOf(log, i, j + 1, d))
    BY <2>1, <2>2
  <2>4. /\ j \in Nat /\ j <= Len(source_log)
        /\ SubSeq(source_log, 1, j) \in Seq(LogEntry) /\ Len(SubSeq(source_log, 1, j)) = j
        /\ \A n \in 1 .. j : SubSeq(source_log, 1, j)[n] = source_log[n]
    BY <1>0, SubSeqShape
  <2>5. [event |-> e, sequence |-> j + 1] \in LogEntry /\ e \in CarriedEvents
    BY <2>4, ReplicationAssumption DEF LogEntry, CarriedEvents
  <2>6. /\ log \in Hash /\ Len(log) = j + 1
        /\ \A n \in 1 .. j : log[n] = source_log[n]
        /\ log[j + 1].event = e
    BY <2>2, <2>4, <2>5 DEF Hash
  <2>7. \A n \in 1 .. Len(log) : log[n].event \in CarriedEvents
    <3> SUFFICES ASSUME NEW n \in 1 .. j + 1 PROVE log[n].event \in CarriedEvents
      BY <2>6
    <3>1. CASE n \in 1 .. j
      <4>1. n \in 1 .. Len(source_log) /\ log[n] = source_log[n]
        BY <1>0, <2>4, <2>6, <3>1
      <4> QED BY <1>0, <4>1
    <3>2. CASE n = j + 1
      BY <2>5, <2>6, <3>2
    <3> QED BY <2>4, <3>1, <3>2
  <2>8. i \in 0 .. Len(log) /\ j + 1 \in i .. Len(log)
    BY <2>4, <2>6
  <2>9. PICK b : b = BatchOf(log, i, j + 1, d)
    OBVIOUS
  <2>10. /\ b \in Batch
         /\ \A k \in DOMAIN b.events : Carried(b.events[k])
    BY <2>6, <2>7, <2>8, <2>9, BatchOfType
  <2> QED BY <2>3, <2>9, <2>10, SendKeepsTransport
<1>3. CASE DamageBatch
  <2>1. PICK c \in Batch : Send(c) /\ \A n \in DOMAIN c.events : Carried(c.events[n])
    BY <1>3, Damaged
  <2> QED BY <2>1, SendKeepsTransport
<1> QED BY <1>1, <1>2, <1>3

LEMMA SourceKeepsTransport ==
    ASSUME TransportInv, SourceAccepts
    PROVE  TransportInv'
<1>1. PICK e \in SourceEvents :
         source_log' = Append(source_log, [event |-> e, sequence |-> Len(source_log) + 1])
  BY DEF SourceAccepts
<1>2. batches' = batches
  BY DEF SourceAccepts
<1>3. source_log \in Seq(LogEntry) /\ Len(source_log) \in Nat
  BY DEF TransportInv, Hash
<1>4. [event |-> e, sequence |-> Len(source_log) + 1] \in LogEntry
  BY <1>3, ReplicationAssumption DEF LogEntry, CarriedEvents
<1>5. /\ source_log' \in Hash /\ Len(source_log') = Len(source_log) + 1
      /\ \A i \in 1 .. Len(source_log) : source_log'[i] = source_log[i]
      /\ source_log'[Len(source_log) + 1].event = e
  BY <1>1, <1>3, <1>4 DEF Hash
<1>6. ASSUME NEW i \in 1 .. Len(source_log) + 1
      PROVE  source_log'[i].event \in SourceEvents
  <2>1. CASE i \in 1 .. Len(source_log)
    BY <1>5, <2>1 DEF TransportInv
  <2>2. CASE i = Len(source_log) + 1
    BY <1>5, <2>2
  <2> QED BY <1>3, <2>1, <2>2
<1> QED BY <1>2, <1>5, <1>6 DEF TransportInv

-----------------------------------------------------------------------------
(* Every step keeps the invariant. *)

\* What a batch in execution rests on, while the log stays as it is.
LEMMA ReceivingStands ==
    ASSUME ReceivingInv, receiving' = receiving, event_log' = event_log,
           executions \subseteq executions', batches \subseteq batches'
    PROVE  ReceivingInv'
  BY DEF ReceivingInv, HashContinuity

\* A record of an event of a batch: of the event itself, whoever sent it.
LEMMA BatchRecord ==
    ASSUME ExecutionsInv, NEW b \in Batch, NEW k \in DOMAIN b.events, NEW r \in executions,
           r.intent = TransportIntent(b, k)
    PROVE  /\ TransportRecord(r) /\ r.intent.event = b.events[k]
           /\ \/ /\ r.accepted = {ExecutedHash(b.events[k])}
                 /\ IsPrefixOf(ExecutedHash(b.events[k]), event_log)
              \/ r.accepted = {}
<1>1. /\ b.events[k] \in TransportEvent /\ b.previous \in Hash /\ b.head \in Hash
      /\ b.delivery \in Deliveries \cup {None}
  BY DEF Batch
<1>2. TransportIntent(b, k) \in TransportIntents /\ TransportIntent(b, k).event = b.events[k]
  BY <1>1 DEF TransportIntent, TransportIntents
<1>3. TransportRecord(r)
  BY <1>2, IntentsDiffer DEF ExecutionsInv, CommandRecord
<1> QED BY <1>2, <1>3 DEF TransportRecord

\* What the batch in execution was given so far is in the log.
LEMMA ReceivedStands ==
    ASSUME ReplicationInv, receiving # None
    PROVE  \A h \in receiving.accepted : h \in Hash /\ IsPrefixOf(h, event_log)
<1>1. PICK b : b = receiving.batch
  OBVIOUS
<1>2. /\ receiving.done \in Nat /\ receiving.done < Len(b.events) /\ b \in Batch
      /\ \A k \in 1 .. receiving.done : AcceptedRecord(b, k) \in executions
      /\ receiving.accepted = HashesOf(b, receiving.done)
      /\ receiving.accepted \subseteq Hash
  BY <1>1 DEF ReplicationInv, ReceivingInv, TransportInv
<1>3. ASSUME NEW k \in 1 .. receiving.done 
      PROVE  IsPrefixOf(ExecutedHash(b.events[k]), event_log)
  <2>1. k \in DOMAIN b.events
    BY <1>2 DEF Batch
  <2>2. PICK r : r = AcceptedRecord(b, k)
    OBVIOUS
  <2>3. /\ r \in executions /\ r.intent = TransportIntent(b, k)
        /\ r.accepted = {ExecutedHash(b.events[k])}
    BY <1>2, <2>2 DEF AcceptedRecord
  <2> QED BY <1>2, <2>1, <2>3, BatchRecord DEF ReplicationInv
<1> QED BY <1>2, <1>3 DEF HashesOf

LEMMA ReceiveKeepsInv ==
    ASSUME ReplicationInv, ReceiveBatch
    PROVE  ReplicationInv' /\ LogGrows
<1>1. /\ ReceiverInv /\ TransportInv /\ ExecutionsInv /\ AnswersInv
      /\ UNCHANGED <<source_log, batches, receiver, executions, answers>>
  BY DEF ReplicationInv, ReceiveBatch
<1>2. ReceiverInv' /\ LogGrows
  BY <1>1, UnchangedReceiver
<1>3. TransportInv' /\ ExecutionsInv' /\ AnswersInv'
  BY <1>1, <1>2, RecordsKept, AnswersStand DEF TransportInv
<1>4. ReceivingInv'
  <2>1. PICK b \in batches : /\ VerifiedEnvelope(b) /\ b.events # <<>>
                             /\ receiving' = [batch |-> b, done |-> 0, accepted |-> {}]
    BY DEF ReceiveBatch
  <2>2. Chained(b) /\ b.previous = event_log
    BY <2>1 DEF VerifiedEnvelope, Chained
  <2>3. b.events \in Seq(TransportEvent) /\ 0 < Len(b.events)
    BY <1>1, <2>1 DEF TransportInv, Batch
  <2>4. batches' = batches /\ event_log' = event_log
    BY <1>1 DEF receiver
  <2>5. HashContinuity'
    <3>1. \A n \in 1 .. 0 - 1 : b.events[n].executed = b.events[n].entry
      OBVIOUS
    <3> QED BY <2>1, <2>2, <2>4, <3>1 DEF HashContinuity
  <2>6. {} = HashesOf(b, 0)
    BY DEF HashesOf
  <2>7. \A k \in 1 .. 0 : AcceptedRecord(b, k) \in executions'
    OBVIOUS
  <2> QED BY <2>1, <2>2, <2>3, <2>4, <2>5, <2>6, <2>7 DEF ReceivingInv
<1> QED BY <1>2, <1>3, <1>4 DEF ReplicationInv

LEMMA BatchesAreNoCommands == Batch \cap [id : CommandIds, command : Command] = {}
<1>1. \A b \in Batch : "head" \in DOMAIN b
  BY DEF Batch
<1>2. \A c \in [id : CommandIds, command : Command] : "head" \notin DOMAIN c
  OBVIOUS
<1> QED BY <1>1, <1>2

LEMMA ExecuteKeepsInv ==
    ASSUME ReplicationInv, ExecuteEvent
    PROVE  /\ ReplicationInv' /\ LogGrows
           /\ \A a \in answers : a.ok => a \in answers'
<1>0. PICK b, k : b = receiving.batch /\ k = receiving.done + 1
  OBVIOUS
<1>1. /\ receiving # None
      /\ Execute(TransportCommandId(b, k), TransportIntent(b, k), TRUE,
                 b.events[k].executed, b.events[k].previous)
      /\ IF EventOutcome(b, k) # {} /\ k < Len(b.events)
         THEN /\ receiving' = [batch |-> b, done |-> k,
                               accepted |-> receiving.accepted \cup EventOutcome(b, k)]
              /\ UNCHANGED answers
         ELSE /\ receiving' = None
              /\ Answer(b, EventOutcome(b, k) # {}, receiving.accepted \cup EventOutcome(b, k))
      /\ UNCHANGED <<source_log, batches>>
  BY <1>0 DEF ExecuteEvent, EventOutcome
<1>2. /\ ReceiverInv' /\ LogGrows /\ ExecutionsInv' /\ executions \subseteq executions'
      /\ \/ /\ EventOutcome(b, k) = {ExecutedHash(b.events[k])}
            /\ b.events[k].previous = event_log
            /\ event_log' = ExecutedHash(b.events[k])
            /\ AcceptedRecord(b, k) \in executions'
         \/ EventOutcome(b, k) = {} /\ UNCHANGED receiver
  BY <1>0, <1>1, EventCases
<1>3. /\ b \in batches /\ b \in Batch /\ k \in 1 .. Len(b.events) /\ Chained(b)
      /\ b.events \in Seq(TransportEvent) /\ b.events[k] \in TransportEvent
      /\ ExecutedHash(b.events[k]) \in Hash
  BY <1>0, <1>1, NextEvent, ExecutedHashType
<1>4. /\ receiving.done = k - 1
      /\ \A j \in 1 .. k - 1 : AcceptedRecord(b, j) \in executions
      /\ receiving.accepted = HashesOf(b, k - 1)
      /\ receiving.accepted \in SUBSET Hash
  BY <1>0, <1>1 DEF ReplicationInv, ReceivingInv
<1>5. \A h \in receiving.accepted : IsPrefixOf(h, event_log')
  BY <1>1, <1>2, ReceivedStands, PrefixesStand DEF ReplicationInv, ReceiverInv
<1>6. ReceiverInv /\ AnswersInv /\ b \in Request /\ Len(b.events) \in Nat
  BY <1>3 DEF ReplicationInv, Request
<1>7. TransportInv'
  BY <1>1 DEF ReplicationInv, TransportInv
<1>8. CASE EventOutcome(b, k) = {ExecutedHash(b.events[k])}
  <2>1. PICK accepted : accepted = receiving.accepted \cup EventOutcome(b, k)
    OBVIOUS
  <2>2. /\ event_log' = ExecutedHash(b.events[k]) /\ b.events[k].previous = event_log
        /\ AcceptedRecord(b, k) \in executions'
    BY <1>2, <1>8
  <2>3. \A j \in 1 .. k : AcceptedRecord(b, j) \in executions'
    BY <1>2, <1>3, <1>4, <2>2
  <2>4. accepted = HashesOf(b, k) /\ accepted \in SUBSET Hash
    BY <1>3, <1>4, <1>8, <2>1 DEF HashesOf
  <2>5. \A h \in accepted : IsPrefixOf(h, event_log')
    <3>1. IsPrefixOf(ExecutedHash(b.events[k]), event_log')
      BY <1>3, <2>2, PrefixOfItself DEF Hash
    <3> QED BY <1>5, <1>8, <2>1, <3>1
  <2>6. CASE k < Len(b.events)
    <3>1. receiving' = [batch |-> b, done |-> k, accepted |-> accepted] /\ answers' = answers
      BY <1>1, <1>8, <2>1, <2>6
    <3>2. HashContinuity'
      <4>1. \A n \in 1 .. k - 1 : b.events[n].executed = b.events[n].entry
        BY <1>0, <1>1, <2>2, NextEvent
      <4> QED BY <1>3, <2>2, <3>1, <4>1 DEF HashContinuity
    <3>3. receiving' \in [batch : batches', done : Nat, accepted : SUBSET Hash]
      BY <1>1, <1>3, <2>4, <3>1
    <3>4. ReceivingInv'
      BY <1>3, <2>3, <2>4, <2>6, <3>1, <3>2, <3>3 DEF ReceivingInv
    <3>5. AnswersInv'
      BY <1>2, <1>6, <3>1, AnswersStand
    <3> QED BY <1>2, <1>7, <3>1, <3>4, <3>5 DEF ReplicationInv
  <2>7. CASE ~ k < Len(b.events)
    <3>1. receiving' = None /\ Answer(b, TRUE, accepted)
      BY <1>1, <1>8, <2>1, <2>7
    <3>2. k = Len(b.events) /\ b.events # <<>>
      BY <1>3, <1>6, <2>7
    <3>3. Backed(b, accepted)'
      <4>1. \A j \in DOMAIN b.events : AcceptedRecord(b, j) \in executions'
        BY <1>3, <2>3, <3>2
      <4> QED BY <1>3, <2>4, <3>2, <4>1 DEF Backed
    <3>4. AnswersInv'
      BY <1>2, <1>6, <2>4, <2>5, <3>1, <3>3, AnswerKeepsAnswers
    <3>5. ReceivingInv'
      BY <3>1 DEF ReceivingInv
    <3>6. ASSUME NEW a \in answers, a.ok, a.request = b
          PROVE  a = [request |-> b, ok |-> TRUE, accepted |-> accepted]
      <4>1. Backed(b, a.accepted) /\ a \in [request : Request, ok : BOOLEAN, accepted : SUBSET Hash]
        BY <1>6, <3>6 DEF AnswersInv
      <4>2. a.accepted = HashesOf(b, Len(b.events))
        BY <1>3, <4>1, BatchesAreNoCommands DEF Backed
      <4> QED BY <2>4, <3>2, <3>6, <4>1, <4>2
    <3>7. \A a \in answers : a.ok => a \in answers'
      BY <3>1, <3>6 DEF Answer
    <3> QED BY <1>2, <1>7, <3>4, <3>5, <3>7 DEF ReplicationInv
  <2> QED BY <2>6, <2>7
<1>9. CASE EventOutcome(b, k) = {} /\ UNCHANGED receiver
  <2>1. receiving' = None /\ Answer(b, FALSE, receiving.accepted)
    BY <1>1, <1>9
  <2>2. AnswersInv'
    BY <1>2, <1>4, <1>5, <1>6, <2>1, AnswerKeepsAnswers
  <2>3. ReceivingInv'
    BY <2>1 DEF ReceivingInv
  <2>4. ASSUME NEW a \in answers, a.ok PROVE a.request # b
    <3>1. SUFFICES ASSUME a.request = b PROVE FALSE
      OBVIOUS
    <3>2. Backed(b, a.accepted)
      BY <1>6, <2>4, <3>1 DEF AnswersInv
    <3>3. AcceptedRecord(b, k) \in executions
      BY <1>3, <3>2, BatchesAreNoCommands DEF Backed
    <3>4. IsPrefixOf(ExecutedHash(b.events[k]), event_log)
      <4>1. PICK r : r = AcceptedRecord(b, k)
        OBVIOUS
      <4>2. r.intent = TransportIntent(b, k) /\ r.accepted = {ExecutedHash(b.events[k])}
        BY <4>1 DEF AcceptedRecord
      <4>3. k \in DOMAIN b.events /\ r \in executions /\ r.accepted # {}
        BY <1>3, <3>3, <4>1, <4>2
      <4> QED BY <1>3, <4>2, <4>3, BatchRecord DEF ReplicationInv
    <3>5. Len(ExecutedHash(b.events[k])) = Len(event_log) + 1 /\ Len(event_log) \in Nat
      <4>1. Len(b.events[k].previous) = Len(event_log)
        BY <1>0, <1>1, NextEvent
      <4>2. Len(ExecutedHash(b.events[k])) = Len(b.events[k].previous) + 1
        BY <1>3, ExecutedHashType
      <4> QED BY <1>6, <4>1, <4>2, ReceiverTypes
    <3> QED BY <3>4, <3>5 DEF IsPrefixOf
  <2>5. \A a \in answers : a.ok => a \in answers'
    BY <2>1, <2>4 DEF Answer
  <2> QED BY <1>2, <1>7, <2>2, <2>3, <2>5 DEF ReplicationInv
<1> QED BY <1>2, <1>8, <1>9

\* A request answered ok, and answered again as it was, keeps its answer.
LEMMA AnsweredAlike ==
    ASSUME AnswersInv, NEW request, NEW ok \in BOOLEAN, NEW accepted,
           Answer(request, ok, accepted),
           \A a \in answers : (a.ok /\ a.request = request) => ok /\ a.accepted = accepted
    PROVE  \A a \in answers : a.ok => a \in answers'
<1> SUFFICES ASSUME NEW a \in answers, a.ok PROVE a \in answers'
  OBVIOUS
<1>1. a \in [request : Request, ok : BOOLEAN, accepted : SUBSET Hash]
  BY DEF AnswersInv
<1>2. CASE a.request # request
  BY <1>2 DEF Answer
<1>3. CASE a.request = request
  <2>1. ok /\ a.accepted = accepted
    BY <1>3
  <2>2. a = [request |-> request, ok |-> ok, accepted |-> accepted]
    BY <1>1, <1>3, <2>1
  <2> QED BY <2>1, <2>2 DEF Answer
<1> QED BY <1>2, <1>3

\* The steps that only answer.
LEMMA AnsweringKeepsInv ==
    ASSUME ReplicationInv, NEW b \in batches, NEW ok \in BOOLEAN, NEW accepted \in SUBSET Hash,
           Answer(b, ok, accepted), \A h \in accepted : IsPrefixOf(h, event_log),
           ok => Backed(b, accepted),
           UNCHANGED <<source_log, batches, receiver, executions, receiving>>
    PROVE  ReplicationInv' /\ LogGrows
<1>1. /\ ReceiverInv /\ TransportInv /\ ExecutionsInv /\ AnswersInv /\ ReceivingInv
      /\ b \in Request
  BY DEF ReplicationInv, TransportInv, Request
<1>2. ReceiverInv' /\ LogGrows /\ event_log' = event_log
  BY <1>1, UnchangedReceiver DEF receiver
<1>3. TransportInv' /\ ExecutionsInv' /\ ReceivingInv'
  BY <1>1, <1>2, RecordsKept, ReceivingStands DEF TransportInv
<1>4. /\ \A h \in accepted : IsPrefixOf(h, event_log')
      /\ ok => Backed(b, accepted)'
  BY <1>2 DEF Backed
<1>5. AnswersInv'
  BY <1>1, <1>2, <1>4, AnswerKeepsAnswers
<1> QED BY <1>2, <1>3, <1>5 DEF ReplicationInv

LEMMA RefusingKeepsInv ==
    ASSUME ReplicationInv, NEW b \in batches, Answer(b, FALSE, {}),
           UNCHANGED <<source_log, batches, receiver, executions, receiving>>
    PROVE  ReplicationInv' /\ LogGrows
<1>1. PICK ok \in BOOLEAN : ok = FALSE
  OBVIOUS
<1>2. PICK accepted \in SUBSET Hash : accepted = {}
  OBVIOUS
<1>3. Answer(b, ok, accepted) /\ ~ ok
  BY <1>1, <1>2
<1>4. \A h \in accepted : IsPrefixOf(h, event_log)
  BY <1>2
<1> QED BY <1>3, <1>4, AnsweringKeepsInv

\* What the store says of a batch all of whose commands it has, with the same intents.
LEMMA RepeatedRecords ==
    ASSUME ReplicationInv, NEW b \in batches, AllRecorded(b),
           \A k \in DOMAIN b.events : \A r \in Recorded(TransportCommandId(b, k)) :
              r.intent = TransportIntent(b, k),
           NEW accepted,
           accepted = UNION {r.accepted : r \in UNION {Recorded(TransportCommandId(b, k)) :
                                                         k \in DOMAIN b.events}},
           NEW ok \in BOOLEAN,
           ok <=> \A k \in DOMAIN b.events :
                     \E r \in Recorded(TransportCommandId(b, k)) : r.accepted # {}
    PROVE  /\ accepted \in SUBSET Hash
           /\ \A h \in accepted : IsPrefixOf(h, event_log)
           /\ ok => Backed(b, accepted)
<1>1. /\ b \in Batch /\ b.events \in Seq(TransportEvent) /\ b.events # <<>>
      /\ DOMAIN b.events = 1 .. Len(b.events)
      /\ ExecutionsInv
  BY DEF ReplicationInv, TransportInv, Batch, AllRecorded
<1>2. ASSUME NEW k \in DOMAIN b.events, NEW r \in Recorded(TransportCommandId(b, k))
      PROVE  /\ r \in executions /\ r.id = TransportCommandId(b, k)
             /\ ExecutedHash(b.events[k]) \in Hash
             /\ r = [id |-> r.id, intent |-> r.intent, accepted |-> r.accepted]
             /\ \/ /\ r.accepted = {ExecutedHash(b.events[k])}
                   /\ IsPrefixOf(ExecutedHash(b.events[k]), event_log)
                \/ r.accepted = {}
  <2>1. r \in executions /\ r.id = TransportCommandId(b, k) /\ r.intent = TransportIntent(b, k)
    BY DEF Recorded
  <2>2. ExecutedHash(b.events[k]) \in Hash
    <3>1. b.events[k] \in TransportEvent
      BY <1>1
    <3> QED BY <3>1, ExecutedHashType
  <2> QED BY <1>1, <2>1, <2>2, BatchRecord DEF TransportRecord
<1>3. ASSUME NEW h \in accepted
      PROVE  /\ h \in Hash /\ IsPrefixOf(h, event_log)
             /\ \E k \in DOMAIN b.events : h = ExecutedHash(b.events[k])
  <2>1. PICK k \in DOMAIN b.events : \E r \in Recorded(TransportCommandId(b, k)) : h \in r.accepted
    OBVIOUS
  <2>2. PICK r \in Recorded(TransportCommandId(b, k)) : h \in r.accepted
    BY <2>1
  <2> QED BY <1>2, <2>2
<1>4. ASSUME ok PROVE Backed(b, accepted)
  <2>1. ASSUME NEW k \in DOMAIN b.events
        PROVE  AcceptedRecord(b, k) \in executions /\ ExecutedHash(b.events[k]) \in accepted
    <3>1. PICK r \in Recorded(TransportCommandId(b, k)) : r.accepted # {}
      BY <1>4
    <3>2. /\ r \in executions /\ r.id = TransportCommandId(b, k)
          /\ r = [id |-> r.id, intent |-> r.intent, accepted |-> r.accepted]
          /\ r.accepted = {ExecutedHash(b.events[k])}
      BY <1>2, <3>1
    <3>3. r = AcceptedRecord(b, k)
      BY <3>2 DEF AcceptedRecord
    <3> QED BY <3>2, <3>3
  <2>2. accepted = {ExecutedHash(b.events[k]) : k \in DOMAIN b.events}
    BY Zenon, <1>3, <2>1
  <2>3. accepted = HashesOf(b, Len(b.events))
    BY <1>1, <2>2 DEF HashesOf
  <2> QED BY <1>1, <2>1, <2>3 DEF Backed
<1> QED BY <1>3, <1>4

LEMMA RepeatKeepsInv ==
    ASSUME ReplicationInv, RepeatAnswer
    PROVE  ReplicationInv' /\ LogGrows /\ \A a \in answers : a.ok => a \in answers'
<1>1. PICK b \in batches :
         /\ AllRecorded(b)
         /\ LET Records(k) == Recorded(TransportCommandId(b, k))
                mismatch   == \E k \in DOMAIN b.events : \E r \in Records(k) :
                                 r.intent # TransportIntent(b, k)
                accepted   == UNION {r.accepted : r \in UNION {Records(k) : k \in DOMAIN b.events}}
                ok         == \A k \in DOMAIN b.events : \E r \in Records(k) : r.accepted # {}
            IN  IF mismatch THEN Answer(b, FALSE, {}) ELSE Answer(b, ok, accepted)
  BY DEF RepeatAnswer
<1>2. UNCHANGED <<source_log, batches, receiver, executions, receiving>>
  BY DEF RepeatAnswer
<1>3. AnswersInv /\ ExecutionsInv /\ b \in Batch
  BY DEF ReplicationInv, TransportInv
<1>a. ASSUME NEW a \in answers, a.ok, a.request = b
      PROVE  /\ \A k \in DOMAIN b.events : AcceptedRecord(b, k) \in executions
             /\ a.accepted = HashesOf(b, Len(b.events))
  BY <1>a, <1>3, BatchesAreNoCommands DEF AnswersInv, Backed
<1>b. ASSUME NEW k \in DOMAIN b.events, AcceptedRecord(b, k) \in executions,
             NEW r \in Recorded(TransportCommandId(b, k))
      PROVE  r.intent = TransportIntent(b, k) /\ r.accepted # {}
  BY <1>b, <1>3 DEF ExecutionsInv, Recorded, AcceptedRecord
<1>4. CASE \E k \in DOMAIN b.events : \E r \in Recorded(TransportCommandId(b, k)) :
              r.intent # TransportIntent(b, k)
  <2>1. Answer(b, FALSE, {})
    BY <1>1, <1>4
  <2>2. ReplicationInv' /\ LogGrows
    BY <1>2, <2>1, RefusingKeepsInv
  <2>3. \A a \in answers : ~ (a.ok /\ a.request = b)
    BY <1>4, <1>a, <1>b
  <2> QED BY <1>3, <2>1, <2>2, <2>3, AnsweredAlike
<1>5. CASE \A k \in DOMAIN b.events : \A r \in Recorded(TransportCommandId(b, k)) :
              r.intent = TransportIntent(b, k)
  <2>1. PICK accepted :
           accepted = UNION {r.accepted : r \in UNION {Recorded(TransportCommandId(b, k)) :
                                                         k \in DOMAIN b.events}}
    OBVIOUS
  <2>2. PICK ok \in BOOLEAN :
           ok <=> \A k \in DOMAIN b.events :
                     \E r \in Recorded(TransportCommandId(b, k)) : r.accepted # {}
    OBVIOUS
  <2>3. Answer(b, ok, accepted)
    BY <1>1, <1>5, <2>1, <2>2
  <2>4. /\ accepted \in SUBSET Hash /\ \A h \in accepted : IsPrefixOf(h, event_log)
        /\ ok => Backed(b, accepted)
    BY <1>1, <1>5, <2>1, <2>2, RepeatedRecords
  <2>5. ReplicationInv' /\ LogGrows
    BY <1>2, <2>3, <2>4, AnsweringKeepsInv
  <2>6. ASSUME NEW a \in answers, a.ok, a.request = b PROVE ok /\ a.accepted = accepted
    <3>1. \A k \in DOMAIN b.events : Recorded(TransportCommandId(b, k)) # {}
      BY <1>1 DEF AllRecorded
    <3>2. \A k \in DOMAIN b.events :
             \E r \in Recorded(TransportCommandId(b, k)) : r.accepted # {}
      BY <1>a, <1>b, <2>6, <3>1
    <3>3. ok
      BY <2>2, <3>2
    <3>4. accepted = HashesOf(b, Len(b.events))
      BY <1>3, <2>4, <3>3, BatchesAreNoCommands DEF Backed
    <3> QED BY <1>a, <2>6, <3>3, <3>4
  <2> QED BY <1>3, <2>3, <2>5, <2>6, AnsweredAlike
<1> QED BY <1>4, <1>5

LEMMA RefuseKeepsInv ==
    ASSUME ReplicationInv, RefuseBatch
    PROVE  ReplicationInv' /\ LogGrows /\ \A a \in answers : a.ok => a \in answers'
<1>1. PICK b \in batches : ~ AllRecorded(b) /\ Answer(b, FALSE, {})
  BY DEF RefuseBatch
<1>2. UNCHANGED <<source_log, batches, receiver, executions, receiving>>
  BY DEF RefuseBatch
<1>3. AnswersInv /\ b \in Batch
  BY DEF ReplicationInv, TransportInv
<1>4. ReplicationInv' /\ LogGrows
  BY <1>1, <1>2, RefusingKeepsInv
<1>5. ASSUME NEW a \in answers, a.ok, a.request = b PROVE FALSE
  <2>1. b.events # <<>> /\ \A k \in DOMAIN b.events : AcceptedRecord(b, k) \in executions
    BY <1>5, <1>3, BatchesAreNoCommands DEF AnswersInv, Backed
  <2>2. ASSUME NEW k \in DOMAIN b.events PROVE Recorded(TransportCommandId(b, k)) # {}
    <3>1. AcceptedRecord(b, k).id = TransportCommandId(b, k)
      BY DEF AcceptedRecord
    <3> QED BY <2>1, <3>1 DEF Recorded
  <2> QED BY <1>1, <2>1, <2>2 DEF AllRecorded
<1> QED BY <1>1, <1>3, <1>4, <1>5, AnsweredAlike

\* A command a client sends, again or for the first time.
LEMMA SubmitKeepsInv ==
    ASSUME ReplicationInv, SubmitCommand
    PROVE  ReplicationInv' /\ LogGrows /\ \A a \in answers : a.ok => a \in answers'
<1>1. PICK id \in CommandIds, kind \in LocalCommands, sequence \in 1 .. MaxEvents,
           evidence \in BOOLEAN :
         LET command  == [type |-> kind.type, event |-> kind.event, sequence |-> sequence,
                          evidence |-> evidence]
             entry    == [event |-> kind.event, sequence |-> sequence]
             accepted == Outcome(id, command, Admitted(command), entry, None)
         IN  /\ kind.type = "SUBMIT_REALM_EVENT" => evidence
             /\ Execute(id, command, Admitted(command), entry, None)
             /\ Answer([id |-> id, command |-> command], accepted # {}, accepted)
  BY DEF SubmitCommand
<1>2. PICK command : command = [type |-> kind.type, event |-> kind.event,
                                sequence |-> sequence, evidence |-> evidence]
  OBVIOUS
<1>3. PICK entry : entry = [event |-> kind.event, sequence |-> sequence]
  OBVIOUS
<1>4. PICK accepted : accepted = Outcome(id, command, Admitted(command), entry, None)
  OBVIOUS
<1>5. PICK request : request = [id |-> id, command |-> command]
  OBVIOUS
<1>6. /\ Execute(id, command, Admitted(command), entry, None)
      /\ Answer(request, accepted # {}, accepted)
  BY <1>1, <1>2, <1>3, <1>4, <1>5
<1>7. UNCHANGED <<source_log, batches, receiving>>
  BY DEF SubmitCommand
<1>8. /\ command \in Command /\ entry \in LogEntry /\ command.type \in CommandTypes
      /\ entry = [event |-> command.event, sequence |-> command.sequence]
      /\ entry.sequence = sequence
  <2>1. kind \in CommandKind /\ kind.type \in CommandTypes /\ kind.event \in Event
    BY ReplicationAssumption DEF CommandKind
  <2>2. sequence \in Nat
    BY ReplicationAssumption
  <2> QED BY <1>2, <1>3, <2>1, <2>2 DEF Command, LogEntry
<1>9. /\ request \in [id : CommandIds, command : Command] /\ request \in Request
      /\ request.id = id /\ request.command = command
  BY <1>5, <1>8 DEF Request
<1>10. Admitted(command) \in BOOLEAN
  <2>1. /\ DeviceSigned(command) \in BOOLEAN /\ RealmRecognized(command) \in BOOLEAN
    BY <1>8 DEF DeviceSigned, RealmRecognized, IsActiveDevice, Command
  <2> QED BY <1>8, <2>1 DEF Admitted, CommandTypes
<1>11. /\ ReceiverInv /\ TransportInv /\ ExecutionsInv /\ AnswersInv /\ receiving' = None
       /\ event_log \in Seq(LogEntry) /\ Len(event_log) \in Nat
  BY <1>7, ReceiverTypes DEF ReplicationInv, SubmitCommand, ReceiverInv, Hash
<1>12. TransportInv' /\ ReceivingInv'
  BY <1>7, <1>11 DEF TransportInv, ReceivingInv
<1>13. PICK new : new = [id |-> id, intent |-> command, accepted |-> accepted]
  OBVIOUS
<1>14. /\ new.id = id /\ new.intent = command /\ new.accepted = accepted
       /\ new = [id |-> new.id, intent |-> new.intent, accepted |-> new.accepted]
  BY <1>13
\* What is enough for the answer.
<1>15. ASSUME ReceiverInv', ExecutionsInv', LogGrows, executions \subseteq executions',
              accepted \in SUBSET Hash, \A h \in accepted : IsPrefixOf(h, event_log'),
              accepted # {} => new \in executions',
              \A a \in answers : (a.ok /\ a.request = request)
                 => accepted # {} /\ a.accepted = accepted
       PROVE  ReplicationInv' /\ LogGrows /\ \A a \in answers : a.ok => a \in answers'
  <2>1. accepted # {} => Backed(request, accepted)'
    BY <1>9, <1>13, <1>15 DEF Backed
  <2>2. AnswersInv'
    <3>1. PICK ok \in BOOLEAN : ok <=> accepted # {}
      OBVIOUS
    <3>2. Answer(request, ok, accepted)
      BY <1>6, <3>1
    <3>3. ok => Backed(request, accepted)'
      BY <2>1, <3>1
    <3> QED BY <1>9, <1>11, <1>15, <3>2, <3>3, AnswerKeepsAnswers
  <2>3. \A a \in answers : a.ok => a \in answers'
    <3>1. PICK ok \in BOOLEAN : ok <=> accepted # {}
      OBVIOUS
    <3>2. Answer(request, ok, accepted)
      BY <1>6, <3>1
    <3>3. \A a \in answers : (a.ok /\ a.request = request) => ok /\ a.accepted = accepted
      BY <1>15, <3>1
    <3> QED BY <1>11, <3>2, <3>3, AnsweredAlike
  <2> QED BY <1>12, <1>15, <2>2, <2>3 DEF ReplicationInv
\* A request answered ok has a record of its own.
<1>16. ASSUME NEW a \in answers, a.ok, a.request = request
       PROVE  /\ a.accepted # {}
              /\ \E r \in Recorded(id) : r.intent = command /\ r.accepted = a.accepted
  <2>1. Backed(request, a.accepted)
    BY <1>11, <1>16 DEF AnswersInv
  <2>2. PICK r : r = [id |-> id, intent |-> command, accepted |-> a.accepted]
    OBVIOUS
  <2>3. a.accepted # {} /\ r \in executions
    BY <1>9, <2>1, <2>2, BatchesAreNoCommands DEF Backed
  <2>4. r \in Recorded(id) /\ r.intent = command /\ r.accepted = a.accepted
    BY <2>2, <2>3 DEF Recorded
  <2> QED BY <2>3, <2>4
<1>17. CASE /\ Recorded(id) # {} /\ UNCHANGED receiver /\ executions' = executions
            /\ accepted = UNION {r.accepted : r \in {x \in Recorded(id) : x.intent = command}}
  <2>1. ReceiverInv' /\ LogGrows /\ event_log' = event_log
    BY <1>11, <1>17, UnchangedReceiver DEF receiver
  <2>2. ExecutionsInv'
    BY <1>11, <1>17, <2>1, RecordsKept
  <2>3. ASSUME NEW r \in Recorded(id), r.intent = command
        PROVE  CommandRecord(r) /\ accepted = r.accepted /\ r \in executions /\ r.id = id
    <3>1. r \in executions /\ r.id = id /\ CommandRecord(r)
      BY <1>8, <1>11, <2>3, IntentsDiffer DEF Recorded, ExecutionsInv, TransportRecord
    <3>2. \A x \in Recorded(id) : x = r
      BY <1>11, <3>1 DEF Recorded, ExecutionsInv
    <3>3. {x \in Recorded(id) : x.intent = command} = {r}
      BY <2>3, <3>2
    <3> QED BY <1>17, <3>1, <3>3
  <2>4. CASE \A r \in Recorded(id) : r.intent # command
    <3>1. accepted = {}
      BY <1>17, <2>4
    <3>2. \A a \in answers : ~ (a.ok /\ a.request = request)
      BY <1>16, <2>4
    <3> QED BY <1>15, <1>17, <2>1, <2>2, <3>1, <3>2
  <2>5. CASE \E r \in Recorded(id) : r.intent = command
    <3>1. PICK r \in Recorded(id) : r.intent = command
      BY <2>5
    <3>2. CommandRecord(r) /\ accepted = r.accepted /\ r \in executions /\ r.id = id
      BY <2>3, <3>1
    <3>3. r = new
      BY <1>13, <3>1, <3>2 DEF CommandRecord
    <3>4. accepted \in SUBSET Hash /\ \A h \in accepted : IsPrefixOf(h, event_log)
      <4>1. ASSUME NEW i \in DOMAIN event_log
            PROVE  /\ SubSeq(event_log, 1, i) \in Hash
                   /\ IsPrefixOf(SubSeq(event_log, 1, i), event_log)
        <5>1. i \in Nat /\ i <= Len(event_log)
          BY <1>11
        <5>2. SubSeq(event_log, 1, i) \in Hash /\ Len(SubSeq(event_log, 1, i)) = i
          BY <1>11, <5>1, SubSeqShape DEF Hash
        <5> QED BY <5>1, <5>2 DEF IsPrefixOf
      <4> QED BY <3>2, <4>1 DEF CommandRecord
    <3>5. \A a \in answers : (a.ok /\ a.request = request)
             => accepted # {} /\ a.accepted = accepted
      BY <1>16, <2>3
    <3> QED BY <1>15, <1>17, <2>1, <2>2, <3>2, <3>3, <3>4, <3>5
  <2> QED BY <2>4, <2>5
\* Nothing was answered ok under an id that has no record.
<1>18. Recorded(id) = {} => \A a \in answers : ~ (a.ok /\ a.request = request)
  BY <1>16
<1>19. CASE /\ Recorded(id) = {} /\ Accepts(entry, None) /\ AppendAndApply(entry)
            /\ accepted = {Append(event_log, entry)}
            /\ executions' = executions \cup {new}
  <2>1. ReceiverInv' /\ event_log' = Append(event_log, entry)
    BY <1>8, <1>11, <1>19, AppendKeepsReceiver
  <2>2. LogGrows
    BY <1>8, <2>1 DEF LogGrows
  <2>3. /\ event_log' \in Hash /\ event_log' \in Seq(LogEntry)
        /\ Len(event_log') = Len(event_log) + 1
        /\ Len(event_log) + 1 \in DOMAIN event_log'
        /\ event_log'[Len(event_log) + 1] = entry
    BY <1>8, <1>11, <2>1 DEF Hash
  <2>4. SubSeq(event_log', 1, Len(event_log) + 1) = event_log'
    <3>1. IsPrefixOf(event_log', event_log')
      BY <2>3, PrefixOfItself
    <3> QED BY <2>3, <3>1 DEF IsPrefixOf
  <2>5. CommandRecord(new)'
    BY <1>8, <1>14, <1>19, <2>1, <2>3, <2>4 DEF CommandRecord
  <2>6. ExecutionsInv'
    BY <1>11, <1>14, <1>19, <2>2, <2>5, RecordAdded
  <2>7. accepted \in SUBSET Hash /\ \A h \in accepted : IsPrefixOf(h, event_log')
    BY <1>19, <2>1, <2>3, PrefixOfItself
  <2> QED BY <1>15, <1>18, <1>19, <2>1, <2>2, <2>6, <2>7
<1>20. CASE /\ Recorded(id) = {} /\ UNCHANGED receiver /\ accepted = {}
            /\ executions' = executions \cup {new}
  <2>1. ReceiverInv' /\ LogGrows
    BY <1>11, <1>20, UnchangedReceiver
  <2>2. CommandRecord(new)'
    BY <1>8, <1>14, <1>20 DEF CommandRecord
  <2>3. ExecutionsInv'
    BY <1>11, <1>14, <1>20, <2>1, <2>2, RecordAdded
  <2> QED BY <1>15, <1>18, <1>20, <2>1, <2>3
<1>21. \/ /\ Recorded(id) # {} /\ UNCHANGED receiver /\ executions' = executions
          /\ accepted = UNION {r.accepted : r \in {x \in Recorded(id) : x.intent = command}}
       \/ /\ Recorded(id) = {} /\ Accepts(entry, None) /\ AppendAndApply(entry)
          /\ accepted = {Append(event_log, entry)}
          /\ executions' = executions \cup {new}
       \/ /\ Recorded(id) = {} /\ UNCHANGED receiver /\ accepted = {}
          /\ executions' = executions \cup {new}
  <2>1. PICK admitted \in BOOLEAN : admitted <=> Admitted(command)
    BY <1>10
  <2>2. PICK previous : previous = None
    OBVIOUS
  <2>3. admitted = Admitted(command)
    BY <1>10, <2>1
  <2>4. Execute(id, command, admitted, entry, previous)
    BY <1>6, <2>2, <2>3
  <2>5. accepted = Outcome(id, command, admitted, entry, previous)
    BY <1>4, <2>2, <2>3
  <2>6. \/ /\ Recorded(id) # {} /\ UNCHANGED receiver /\ executions' = executions
           /\ Outcome(id, command, admitted, entry, previous)
                 = UNION {r.accepted : r \in {x \in Recorded(id) : x.intent = command}}
        \/ /\ Recorded(id) = {} /\ admitted /\ Accepts(entry, previous)
           /\ AppendAndApply(entry)
           /\ Outcome(id, command, admitted, entry, previous) = {Append(event_log, entry)}
           /\ executions' = executions \cup
                 {[id |-> id, intent |-> command, accepted |-> {Append(event_log, entry)}]}
        \/ /\ Recorded(id) = {} /\ ~ (admitted /\ Accepts(entry, previous))
           /\ UNCHANGED receiver /\ Outcome(id, command, admitted, entry, previous) = {}
           /\ executions' = executions \cup {[id |-> id, intent |-> command, accepted |-> {}]}
    BY <2>4, ExecuteCases
  <2> QED BY <1>13, <2>2, <2>5, <2>6
<1> QED BY <1>17, <1>19, <1>20, <1>21

LEMMA RestartKeepsInv ==
    ASSUME ReplicationInv, Restart
    PROVE  ReplicationInv' /\ LogGrows
<1>1. /\ ReceiverInv /\ TransportInv /\ UNCHANGED <<source_log, batches, receiver>>
      /\ executions' = {} /\ receiving' = None /\ answers' = {}
  BY DEF ReplicationInv, Restart
<1>2. ReceiverInv' /\ LogGrows
  BY <1>1, UnchangedReceiver
<1>3. TransportInv' /\ ReceivingInv' /\ ExecutionsInv' /\ AnswersInv'
  BY <1>1 DEF TransportInv, ReceivingInv, ExecutionsInv, AnswersInv
<1> QED BY <1>2, <1>3 DEF ReplicationInv

\* Of a step with the invariant before it: the invariant after it, what happens to the log,
\* and what happens to the answers.
LEMMA StepOfReplication ==
    ASSUME ReplicationInv, [Next]_vars
    PROVE  /\ ReplicationInv' /\ LogGrows
           /\ restarts' = restarts => \A a \in answers : a.ok => a \in answers'
<1>1. CASE SourceAccepts
  <2>1. /\ ReceiverInv /\ ExecutionsInv /\ AnswersInv /\ ReceivingInv /\ TransportInv
        /\ UNCHANGED <<batches, receiver, executions, receiving, answers>>
    BY <1>1 DEF ReplicationInv, SourceAccepts
  <2>2. ReceiverInv' /\ LogGrows /\ event_log' = event_log
    BY <2>1, UnchangedReceiver DEF receiver
  <2> QED BY <1>1, <2>1, <2>2, SourceKeepsTransport, RecordsKept, AnswersStand,
             ReceivingStands DEF ReplicationInv
<1>2. CASE SendHistory \/ SendForeignHistory \/ DamageBatch
  <2>1. TransportInv' /\ \E b : Send(b)
    BY <1>2, SendsKeepTransport DEF ReplicationInv
  <2>2. /\ ReceiverInv /\ ExecutionsInv /\ AnswersInv /\ ReceivingInv
        /\ UNCHANGED <<receiver, executions, receiving, answers>> /\ batches \subseteq batches'
    BY <2>1 DEF ReplicationInv, Send
  <2>3. ReceiverInv' /\ LogGrows /\ event_log' = event_log
    BY <2>2, UnchangedReceiver DEF receiver
  <2> QED BY <2>1, <2>2, <2>3, RecordsKept, AnswersStand, ReceivingStands DEF ReplicationInv
<1>3. CASE ReceiveBatch
  BY <1>3, ReceiveKeepsInv DEF ReceiveBatch
<1>4. CASE ExecuteEvent
  BY <1>4, ExecuteKeepsInv
<1>5. CASE RepeatAnswer
  BY <1>5, RepeatKeepsInv
<1>6. CASE RefuseBatch
  BY <1>6, RefuseKeepsInv
<1>7. CASE SubmitCommand
  BY <1>7, SubmitKeepsInv
<1>8. CASE Restart
  <2>1. restarts' # restarts
    BY <1>8 DEF Restart
  <2> QED BY <1>8, <2>1, RestartKeepsInv
<1>9. CASE UNCHANGED vars
  <2>1. /\ ReceiverInv /\ ExecutionsInv /\ AnswersInv /\ ReceivingInv /\ TransportInv
        /\ UNCHANGED <<source_log, batches, receiver, executions, receiving, answers>>
    BY <1>9 DEF ReplicationInv, vars
  <2>2. ReceiverInv' /\ LogGrows /\ event_log' = event_log
    BY <2>1, UnchangedReceiver DEF receiver
  <2>3. TransportInv'
    BY <2>1 DEF TransportInv
  <2> QED BY <2>1, <2>2, <2>3, RecordsKept, AnswersStand, ReceivingStands DEF ReplicationInv
<1> QED BY <1>1, <1>2, <1>3, <1>4, <1>5, <1>6, <1>7, <1>8, <1>9 DEF Next

-----------------------------------------------------------------------------
(* The source. *)

\* The history of the source: every event was permitted by the history before it.
SourceInv ==
    \E states \in Seq(AuthorityState) :
        /\ Replays(source_log, states)
        /\ source_authority = states[Len(states)]
        /\ \A i \in 1 .. Len(source_log) : /\ source_log[i].sequence = i
                                           /\ Permits(states[i], source_log[i].event)

LEMMA SourceInit == Init => SourceInv
<1> SUFFICES ASSUME Init PROVE SourceInv
  OBVIOUS
<1> DEFINE states == <<EmptyAuthorityState>>
<1>1. source_log = <<>> /\ source_authority = EmptyAuthorityState
  BY DEF Init
<1>2. /\ states \in Seq(AuthorityState) /\ Len(states) = 1 /\ Len(source_log) = 0
      /\ states[1] = EmptyAuthorityState
  BY <1>1, EmptyIsState
<1> HIDE DEF states
<1>3. Replays(source_log, states)
  BY <1>2 DEF Replays
<1> QED BY <1>1, <1>2, <1>3 DEF SourceInv

LEMMA StepOfSource ==
    ASSUME SourceInv, TransportInv, [Next]_vars
    PROVE  SourceInv'
<1>1. CASE UNCHANGED <<source_log, source_authority>>
  BY <1>1 DEF SourceInv
<1>2. CASE SourceAccepts
  <2>1. PICK states \in Seq(AuthorityState) :
           /\ Replays(source_log, states)
           /\ source_authority = states[Len(states)]
           /\ \A i \in 1 .. Len(source_log) : /\ source_log[i].sequence = i
                                              /\ Permits(states[i], source_log[i].event)
    BY DEF SourceInv
  <2>2. PICK e \in SourceEvents :
           LET entry == [event |-> e, sequence |-> Len(source_log) + 1]
           IN  /\ Permits(source_authority, e)
               /\ source_log' = Append(source_log, entry)
               /\ source_authority' = ApplyEntry(source_authority, entry)
    BY <1>2 DEF SourceAccepts
  <2>3. PICK entry : entry = [event |-> e, sequence |-> Len(source_log) + 1]
    OBVIOUS
  <2>4. /\ Permits(source_authority, e)
        /\ source_log' = Append(source_log, entry)
        /\ source_authority' = ApplyEntry(source_authority, entry)
    BY <2>2, <2>3
  <2>5. /\ source_log \in Seq(LogEntry) /\ Len(source_log) \in Nat
        /\ Len(states) = Len(source_log) + 1
        /\ source_authority \in AuthorityState
    BY <2>1 DEF TransportInv, Hash, Replays
  <2>6. /\ entry \in LogEntry /\ entry.event = e /\ entry.sequence = Len(source_log) + 1
    BY <2>3, <2>5, ReplicationAssumption DEF LogEntry, CarriedEvents
  <2>7. source_authority' \in AuthorityState
    BY <2>4, <2>5, <2>6, ApplyEntryType DEF LogEntry
  <2>8. PICK longer : longer = Append(states, source_authority')
    OBVIOUS
  <2>9. /\ longer \in Seq(AuthorityState) /\ Len(longer) = Len(source_log) + 2
        /\ longer[Len(longer)] = source_authority'
        /\ \A i \in 1 .. Len(source_log) + 1 : longer[i] = states[i]
    BY <2>5, <2>7, <2>8
  <2>10. Replays(source_log', longer)
    BY <2>1, <2>4, <2>5, <2>6, <2>7, <2>8, ReplayExtends
  <2>11. /\ Len(source_log') = Len(source_log) + 1
         /\ source_log'[Len(source_log) + 1] = entry
         /\ \A i \in 1 .. Len(source_log) : source_log'[i] = source_log[i]
    BY <2>4, <2>5, <2>6
  <2>12. ASSUME NEW i \in 1 .. Len(source_log) + 1
         PROVE  source_log'[i].sequence = i /\ Permits(longer[i], source_log'[i].event)
    <3>1. CASE i \in 1 .. Len(source_log)
      BY <2>1, <2>9, <2>11, <3>1
    <3>2. CASE i = Len(source_log) + 1
      <4>1. longer[i] = source_authority
        BY <2>1, <2>5, <2>9, <3>2
      <4> QED BY <2>4, <2>6, <2>11, <3>2, <4>1
    <3> QED BY <2>5, <3>1, <3>2
  <2> QED BY <2>9, <2>10, <2>11, <2>12 DEF SourceInv
<1>3. SourceAccepts \/ UNCHANGED <<source_log, source_authority>>
  BY DEF Next, SendHistory, SendForeignHistory, DamageBatch, Send, ReceiveBatch, ExecuteEvent,
         RepeatAnswer, RefuseBatch, SubmitCommand, Restart, vars
<1> QED BY <1>1, <1>2, <1>3

-----------------------------------------------------------------------------
(* What follows of the properties. *)

\* The invariant of every reachable state.
THEOREM ReplicationInvariant == Spec => [](ReplicationInv /\ SourceInv)
<1>1. Init => ReplicationInv /\ SourceInv
  BY ReplicationInit, SourceInit
<1>2. (ReplicationInv /\ SourceInv) /\ [Next]_vars => (ReplicationInv /\ SourceInv)'
  BY StepOfReplication, StepOfSource DEF ReplicationInv
<1> QED BY <1>1, <1>2, PTL DEF Spec

\* A batch in execution was applied as a prefix of itself on the history it starts from
\* (receiveEventBatch), whatever was sent, damaged, repeated or interrupted.
THEOREM AppliedHashesMatch == Spec => []HashContinuity
<1>1. ReplicationInv => HashContinuity
  BY DEF ReplicationInv, ReceivingInv, HashContinuity
<1> QED BY <1>1, ReplicationInvariant, PTL

\* A refusal in the execution store is one the receiver would make again (executeCommand).
THEOREM RefusalsAreRight == Spec => []RefusalsStand
<1>1. ReplicationInv => RefusalsStand
  <2> SUFFICES ASSUME ReplicationInv, NEW r \in executions, r.accepted = {},
                      r.id \notin CommandIds, r.intent.event.previous = event_log
               PROVE  ~ Accepts(r.intent.event.executed, event_log)
    BY DEF RefusalsStand
  <2>1. TransportRecord(r)
    BY DEF ReplicationInv, ExecutionsInv, CommandRecord
  <2> QED BY <2>1 DEF TransportRecord
<1> QED BY <1>1, ReplicationInvariant, PTL

\* What a batch or a command was told of accepted events is so (receiveEventBatch,
\* handleApiRequest), also when it is repeated from the store.
THEOREM AnswersHold == Spec => []AnswersAreTrue
<1>1. ReplicationInv => AnswersAreTrue
  <2> SUFFICES ASSUME ReplicationInv, NEW a \in answers
               PROVE  /\ \A h \in a.accepted : IsPrefixOf(h, event_log)
                      /\ a.ok => IF a.request \in Batch
                                 THEN a.accepted = {ExecutedHash(a.request.events[k]) :
                                                       k \in DOMAIN a.request.events}
                                 ELSE \E i \in DOMAIN event_log :
                                         /\ event_log[i] = [event    |-> a.request.command.event,
                                                            sequence |-> a.request.command.sequence]
                                         /\ a.accepted = {SubSeq(event_log, 1, i)}
    BY DEF AnswersAreTrue
  <2>1. /\ a \in [request : Request, ok : BOOLEAN, accepted : SUBSET Hash]
        /\ \A h \in a.accepted : IsPrefixOf(h, event_log)
        /\ a.ok => Backed(a.request, a.accepted)
    BY DEF ReplicationInv, AnswersInv
  <2>2. ASSUME a.ok, a.request \in Batch
        PROVE  a.accepted = {ExecutedHash(a.request.events[k]) : k \in DOMAIN a.request.events}
    <3>1. a.accepted = HashesOf(a.request, Len(a.request.events))
      BY <2>1, <2>2, BatchesAreNoCommands DEF Backed
    <3>2. DOMAIN a.request.events = 1 .. Len(a.request.events)
      BY <2>2 DEF Batch
    <3> QED BY <3>1, <3>2 DEF HashesOf
  <2>3. ASSUME a.ok, a.request \notin Batch
        PROVE  \E i \in DOMAIN event_log :
                  /\ event_log[i] = [event    |-> a.request.command.event,
                                     sequence |-> a.request.command.sequence]
                  /\ a.accepted = {SubSeq(event_log, 1, i)}
    <3>1. PICK r : r = [id |-> a.request.id, intent |-> a.request.command,
                        accepted |-> a.accepted]
      OBVIOUS
    <3>2. /\ r \in executions /\ r.intent \in Command /\ r.accepted # {}
          /\ r.intent = a.request.command /\ r.accepted = a.accepted
      BY <2>1, <2>3, <3>1 DEF Backed
    <3>3. CommandRecord(r)
      BY <3>2, IntentsDiffer DEF ReplicationInv, ExecutionsInv, TransportRecord
    <3> QED BY <3>2, <3>3 DEF CommandRecord
  <2> QED BY <2>1, <2>2, <2>3
<1> QED BY <1>1, ReplicationInvariant, PTL

\* A request answered ok is answered the same however often it is sent again, until the
\* execution store is lost (executeCommand, cachedBatchReplay).
THEOREM RetriesAnsweredAlike == Spec => RetriesAreAnsweredAlike
<1>1. ReplicationInv /\ [Next]_vars
         => [restarts' = restarts => \A a \in answers : a.ok => a \in answers']_vars
  BY StepOfReplication
<1> QED BY <1>1, ReplicationInvariant, PTL DEF Spec, RetriesAreAnsweredAlike

\* The realm can always catch up with the source it follows: nothing the store remembers
\* and nothing in the projection stands in the way of the next event (executeCommand,
\* acceptRealmEvent).
THEOREM CatchingUpStaysPossible == Spec => []ReplicaCanCatchUp
<1>1. ReplicationInv /\ SourceInv => ReplicaCanCatchUp
  <2> SUFFICES ASSUME ReplicationInv, SourceInv, Len(event_log) < Len(source_log),
                      event_log = SubSeq(source_log, 1, Len(event_log)),
                      NEW next, next = SubSeq(source_log, 1, Len(event_log) + 1)
               PROVE  /\ Accepts(next[Len(next)], event_log)
                      /\ \A r \in executions :
                            (r.id \notin CommandIds /\ r.id[2] = next)
                               => r.intent.event.executed # r.intent.event.entry
    BY DEF ReplicaCanCatchUp
  <2>1. PICK n : n = Len(event_log)
    OBVIOUS
  <2>2. /\ n \in Nat /\ n + 1 \in Nat /\ n + 1 <= Len(source_log) /\ n <= Len(source_log)
        /\ event_log \in Seq(LogEntry) /\ source_log \in Seq(LogEntry)
    BY <2>1, ReceiverTypes DEF ReplicationInv, ReceiverInv, TransportInv, Hash
  <2>3. /\ next \in Seq(LogEntry) /\ Len(next) = n + 1
        /\ \A j \in 1 .. n + 1 : next[j] = source_log[j]
    BY <2>1, <2>2, SubSeqShape
  <2>4. \A j \in 1 .. n : event_log[j] = source_log[j]
    <3>1. \A j \in 1 .. n : SubSeq(source_log, 1, n)[j] = source_log[j]
      BY <2>2, SubSeqShape
    <3> QED BY <2>1, <3>1
  <2>5. PICK entry \in LogEntry : entry = source_log[n + 1]
    BY <2>2
  <2>6. next[Len(next)] = entry
    BY <2>2, <2>3, <2>5
  <2>7. PICK states \in Seq(AuthorityState) :
           /\ Replays(source_log, states)
           /\ \A i \in 1 .. Len(source_log) : /\ source_log[i].sequence = i
                                              /\ Permits(states[i], source_log[i].event)
    BY DEF SourceInv
  <2>8. entry.sequence = n + 1 /\ Permits(states[n + 1], entry.event)
    BY <2>2, <2>5, <2>7
  <2>9. projections[n + 1] = states[n + 1]
    <3>1. Replays(event_log, projections) /\ n \in 0 .. Len(event_log)
      BY <2>1, <2>2 DEF ReplicationInv, ReceiverInv
    <3>2. /\ event_log \in Seq(LogEntry) /\ source_log \in Seq(LogEntry)
          /\ Replays(source_log, states) /\ n <= Len(source_log)
          /\ \A j \in 1 .. n : event_log[j] = source_log[j]
      BY <2>2, <2>4, <2>7
    <3> QED BY ONLY <3>1, <3>2, ReplaysAgree
  <2>10. authority = projections[n + 1] /\ authority.lastSequence = n
    BY <2>1, ReceiverTypes DEF ReplicationInv, ReceiverInv
  <2>11. Accepts(entry, event_log)
    BY <2>8, <2>9, <2>10 DEF Accepts
  <2>12. next = Append(event_log, entry)
    <3>1. /\ Append(event_log, entry) \in Seq(LogEntry)
          /\ Len(Append(event_log, entry)) = n + 1
          /\ \A j \in 1 .. n : Append(event_log, entry)[j] = event_log[j]
          /\ Append(event_log, entry)[n + 1] = entry
      BY <2>1, <2>2
    <3>2. \A j \in 1 .. n + 1 : Append(event_log, entry)[j] = next[j]
      BY <2>2, <2>3, <2>4, <2>5, <3>1
    <3> QED BY <2>3, <3>1, <3>2, SameSequence
  <2>13. ASSUME NEW r \in executions, r.id \notin CommandIds, r.id[2] = next,
                r.intent.event.executed = r.intent.event.entry
         PROVE  FALSE
    <3>1. TransportRecord(r)
      BY <2>13 DEF ReplicationInv, ExecutionsInv, CommandRecord
    <3>2. PICK previous \in Seq(LogEntry), last \in LogEntry :
             previous = r.intent.event.previous /\ last = r.intent.event.entry
      BY <3>1 DEF TransportRecord, TransportIntents, TransportEvent, Hash
    <3>3. r.intent.event.hash = next /\ next = Append(previous, last)
      BY <2>13, <3>1, <3>2 DEF TransportRecord
    <3>4. previous = event_log /\ last = entry
      <4>1. Append(previous, last) = Append(event_log, entry)
        BY <2>12, <3>3
      <4>2. Len(previous) = n /\ last = entry
        <5>1. /\ Len(Append(previous, last)) = Len(previous) + 1 /\ Len(previous) \in Nat
              /\ Append(previous, last)[Len(previous) + 1] = last
          OBVIOUS
        <5>2. /\ Len(Append(event_log, entry)) = n + 1
              /\ Append(event_log, entry)[n + 1] = entry
          BY <2>1, <2>2
        <5> QED BY <2>2, <4>1, <5>1, <5>2
      <4>3. \A j \in 1 .. n : previous[j] = event_log[j]
        <5>1. \A j \in 1 .. Len(previous) : Append(previous, last)[j] = previous[j]
          OBVIOUS
        <5>2. \A j \in 1 .. n : Append(event_log, entry)[j] = event_log[j]
          BY <2>1, <2>2
        <5> QED BY <4>1, <4>2, <5>1, <5>2
      <4> QED BY <2>1, <2>2, <4>2, <4>3, SameSequence
    <3>5. ~ IsPrefixOf(next, event_log)
      BY <2>1, <2>2, <2>3 DEF IsPrefixOf
    <3>6. ExecutedHash(r.intent.event) = next
      BY <2>13, <3>2, <3>3 DEF ExecutedHash
    <3> QED BY <2>11, <2>13, <3>1, <3>2, <3>4, <3>5, <3>6 DEF TransportRecord
  <2> QED BY <2>6, <2>11, <2>13
<1> QED BY <1>1, ReplicationInvariant, PTL

\* The variables keep the shapes the code gives them.
THEOREM TypeCorrect == Spec => []TypeOK
<1> DEFINE RestartsOK == restarts \in 0 .. MaxRestarts
<1>1. Init => RestartsOK
  BY ReplicationAssumption DEF Init
<1>2. RestartsOK /\ [Next]_vars => RestartsOK'
  <2> SUFFICES ASSUME RestartsOK, [Next]_vars PROVE RestartsOK'
    OBVIOUS
  <2>1. CASE Restart
    BY <2>1, ReplicationAssumption DEF Restart
  <2>2. CASE UNCHANGED restarts
    BY <2>2
  <2> QED BY <2>1, <2>2 DEF Next, SourceAccepts, SendHistory, SendForeignHistory, DamageBatch,
             Send, ReceiveBatch, ExecuteEvent, RepeatAnswer, RefuseBatch, SubmitCommand, vars
<1>3. ReplicationInv /\ SourceInv /\ RestartsOK => TypeOK
  <2> SUFFICES ASSUME ReplicationInv, SourceInv, RestartsOK PROVE TypeOK
    OBVIOUS
  <2>1. /\ source_log \in Seq(LogEntry) /\ batches \subseteq Batch
        /\ event_log \in Hash /\ projections \in Seq(AuthorityState)
        /\ authority \in AuthorityState
    BY ReceiverTypes DEF ReplicationInv, ReceiverInv, TransportInv, Hash
  <2>2. source_authority \in AuthorityState
    <3>1. PICK states \in Seq(AuthorityState) :
             Replays(source_log, states) /\ source_authority = states[Len(states)]
      BY DEF SourceInv
    <3>2. Len(states) = Len(source_log) + 1 /\ Len(source_log) \in Nat
      BY <2>1, <3>1 DEF Replays
    <3> QED BY <3>1, <3>2
  <2>3. ASSUME NEW r \in executions
        PROVE  /\ r.id \in CommandIds \cup ((Deliveries \cup Hash) \X Hash)
               /\ r.accepted \subseteq Hash
    <3>1. CASE TransportRecord(r)
      <4>0. r.intent.event \in TransportEvent
        BY <3>1 DEF TransportRecord, TransportIntents
      <4>1. ExecutedHash(r.intent.event) \in Hash
        BY <4>0, ExecutedHashType
      <4> QED BY <3>1, <4>1 DEF TransportRecord
    <3>2. CASE CommandRecord(r)
      <4>1. ASSUME NEW i \in DOMAIN event_log PROVE SubSeq(event_log, 1, i) \in Hash
        BY <2>1, SubSeqShape DEF Hash
      <4> QED BY <3>2, <4>1 DEF CommandRecord
    <3> QED BY <3>1, <3>2 DEF ReplicationInv, ExecutionsInv
  <2>4. receiving # None => /\ receiving.batch \in batches
                            /\ receiving.done \in 0 .. Len(receiving.batch.events) - 1
                            /\ receiving.accepted \subseteq Hash
    <3> SUFFICES ASSUME receiving # None
                 PROVE  /\ receiving.batch \in batches
                        /\ receiving.done \in 0 .. Len(receiving.batch.events) - 1
                        /\ receiving.accepted \subseteq Hash
      OBVIOUS
    <3>1. /\ receiving.batch \in batches /\ receiving.done \in Nat
          /\ receiving.done < Len(receiving.batch.events)
          /\ receiving.accepted \subseteq Hash
      BY DEF ReplicationInv, ReceivingInv
    <3>2. Len(receiving.batch.events) \in Nat
      BY <2>1, <3>1 DEF Batch
    <3> QED BY <3>1, <3>2
  <2>5. \A a \in answers : a.request \in Request /\ a.ok \in BOOLEAN /\ a.accepted \subseteq Hash
    BY DEF ReplicationInv, AnswersInv
  <2> QED BY <2>1, <2>2, <2>3, <2>4, <2>5 DEF TypeOK, RestartsOK
<1>4. Spec => []RestartsOK
  BY <1>1, <1>2, PTL DEF Spec
<1> QED BY <1>3, <1>4, ReplicationInvariant, PTL

-----------------------------------------------------------------------------
(* No write path beside the pipeline. *)

\* All a step does to the receiver's ledger is to accept one of the known events.
LEMMA LedgerStep ==
    ASSUME ReplicationInv, [Next]_vars
    PROVE  \/ UNCHANGED receiver
           \/ \E entry \in LogEntry, previous \in Hash \cup {None} :
                 /\ entry.event \in KnownEvents
                 /\ Accepts(entry, previous) /\ AppendAndApply(entry)
<1>0. event_log \in Hash
  BY DEF ReplicationInv, ReceiverInv
<1>1. CASE ExecuteEvent
  <2>0. PICK b, k : b = receiving.batch /\ k = receiving.done + 1
    OBVIOUS
  <2>1. /\ receiving # None
        /\ Execute(TransportCommandId(b, k), TransportIntent(b, k), TRUE,
                   b.events[k].executed, b.events[k].previous)
    BY <1>1, <2>0 DEF ExecuteEvent
  <2>2. /\ b.events[k].executed \in LogEntry /\ b.events[k].previous \in Hash
        /\ b.events[k].executed.event \in KnownEvents
    <3>1. b.events[k] \in TransportEvent /\ Carried(b.events[k])
      BY <2>0, <2>1, NextEvent
    <3> QED BY <3>1, ExecutedHashType DEF Carried, KnownEvents
  <2>3. PICK id, intent : id = TransportCommandId(b, k) /\ intent = TransportIntent(b, k)
    OBVIOUS
  <2>4. \/ UNCHANGED receiver
        \/ /\ Accepts(b.events[k].executed, b.events[k].previous)
           /\ AppendAndApply(b.events[k].executed)
    BY <2>1 DEF Execute
  <2> QED BY <2>2, <2>4
<1>2. CASE SubmitCommand
  <2>1. PICK id \in CommandIds, kind \in LocalCommands, sequence \in 1 .. MaxEvents,
             evidence \in BOOLEAN :
           LET command == [type |-> kind.type, event |-> kind.event, sequence |-> sequence,
                           evidence |-> evidence]
               entry   == [event |-> kind.event, sequence |-> sequence]
           IN  Execute(id, command, Admitted(command), entry, None)
    BY <1>2 DEF SubmitCommand
  <2>2. PICK entry : entry = [event |-> kind.event, sequence |-> sequence]
    OBVIOUS
  <2>3. UNCHANGED receiver \/ (Accepts(entry, None) /\ AppendAndApply(entry))
    BY <2>1, <2>2 DEF Execute
  <2>4. entry \in LogEntry /\ entry.event \in KnownEvents
    <3>1. kind.event \in Event /\ sequence \in Nat
      BY ReplicationAssumption DEF CommandKind
    <3> QED BY <2>2, <3>1 DEF LogEntry, KnownEvents
  <2> QED BY <2>3, <2>4
<1>3. CASE UNCHANGED receiver
  BY <1>3
<1> QED BY <1>1, <1>2, <1>3 DEF Next, SourceAccepts, SendHistory, SendForeignHistory,
           DamageBatch, Send, ReceiveBatch, RepeatAnswer, RefuseBatch, Restart, vars, receiver

\* The registry of the pipeline is the same.
LEMMA SamePermits ==
    ASSUME NEW s, NEW e
    PROVE  Permits(s, e) <=> Pipeline!Permits(s, e)
<1>0. /\ FindDevice(s, e.signer) = Pipeline!FindDevice(s, e.signer)
      /\ \A who : /\ IsActiveRoot(s, who) <=> Pipeline!IsActiveRoot(s, who)
                  /\ FindDevice(s, who) = Pipeline!FindDevice(s, who)
                  /\ IsActiveDevice(s, who) <=> Pipeline!IsActiveDevice(s, who)
                  /\ IsActiveRecovery(s, who) <=> Pipeline!IsActiveRecovery(s, who)
  BY DEF IsActiveRoot, FindDevice, IsActiveDevice, IsActiveRecovery, FirstOf, GoesBy,
         Pipeline!IsActiveRoot, Pipeline!FindDevice, Pipeline!IsActiveDevice,
         Pipeline!IsActiveRecovery, Pipeline!FirstOf, Pipeline!GoesBy
<1>1. CanIssue(s, e.signer, e.type) <=> Pipeline!CanIssue(s, e.signer, e.type)
  BY <1>0 DEF CanIssue, RootEvents, DeviceEvents, RecoveryEvents, Pipeline!CanIssue,
              Pipeline!RootEvents, Pipeline!DeviceEvents, Pipeline!RecoveryEvents
<1>2. ValidDeviceIssued(s, e) <=> Pipeline!ValidDeviceIssued(s, e)
  BY <1>0 DEF ValidDeviceIssued, InRecoveryCase, Pipeline!ValidDeviceIssued,
              Pipeline!InRecoveryCase
<1>3. ValidDeviceRevoked(s, e) <=> Pipeline!ValidDeviceRevoked(s, e)
  BY <1>0 DEF ValidDeviceRevoked, InRecoveryCase, GoesBy, Pipeline!ValidDeviceRevoked,
              Pipeline!InRecoveryCase, Pipeline!GoesBy
<1>4. ValidTransition(s, e) <=> Pipeline!ValidTransition(s, e)
  BY <1>0, <1>2, <1>3 DEF ValidTransition, ValidRecoveryIssued, ValidRecoveryRevoked,
         ValidRecoveryExecuted, Pipeline!ValidTransition, Pipeline!ValidRecoveryIssued,
         Pipeline!ValidRecoveryRevoked, Pipeline!ValidRecoveryExecuted
<1> QED BY <1>1, <1>4 DEF Permits, Pipeline!Permits

LEMMA SameApply ==
    ASSUME NEW s, NEW entry
    PROVE  ApplyEntry(s, entry) = Pipeline!ApplyEntry(s, entry)
<1> DEFINE e == entry.event
           n == entry.sequence
<1>0. /\ \A records, name, ended :
            Ended(records, name, ended) = Pipeline!Ended(records, name, ended)
      /\ \A id, ref, since : NewRecord(id, ref, since) = Pipeline!NewRecord(id, ref, since)
      /\ \A records, new : WithRecord(records, new) = Pipeline!WithRecord(records, new)
  BY DEF Ended, NewRecord, WithRecord, GoesBy, Pipeline!Ended, Pipeline!NewRecord,
         Pipeline!WithRecord, Pipeline!GoesBy
<1>1. RootAfter(s, e) = Pipeline!RootAfter(s, e)
  BY DEF RootAfter, Pipeline!RootAfter
<1>2. DevicesAfter(s, e, n) = Pipeline!DevicesAfter(s, e, n)
  BY Zenon, <1>0 DEF DevicesAfter, Pipeline!DevicesAfter
<1>3. RecoveriesAfter(s, e, n) = Pipeline!RecoveriesAfter(s, e, n)
  BY Zenon, <1>0 DEF RecoveriesAfter, Pipeline!RecoveriesAfter
<1>4. SessionsAfter(s, e, n) = Pipeline!SessionsAfter(s, e, n)
  BY Zenon, <1>0 DEF SessionsAfter, Pipeline!SessionsAfter
<1>5. TrustsAfter(s, e) = Pipeline!TrustsAfter(s, e)
  BY DEF TrustsAfter, Pipeline!TrustsAfter
<1>6. LastRecoveryAfter(s, e) = Pipeline!LastRecoveryAfter(s, e)
  BY DEF LastRecoveryAfter, Pipeline!LastRecoveryAfter
<1> QED BY <1>1, <1>2, <1>3, <1>4, <1>5, <1>6 DEF ApplyEntry, Pipeline!ApplyEntry

\* What the receiver accepts is a proposal the pipeline accepts.
LEMMA AcceptanceIsAProposal ==
    ASSUME ReceiverInv, NEW entry \in LogEntry, NEW previous \in Hash \cup {None},
           entry.event \in KnownEvents,
           Accepts(entry, previous), AppendAndApply(entry)
    PROVE  Pipeline!Next
<1> DEFINE e == entry.event
           Types == {x.type : x \in KnownEvents}
<1>1. /\ Len(event_log) \in Nat /\ entry.sequence = Len(event_log) + 1
      /\ entry.sequence = authority.lastSequence + 1
      /\ Permits(authority, e)
  BY ReceiverTypes DEF ReceiverInv, Accepts
<1>2. /\ Len(event_log) < MaxEvents
      /\ event_log' = Append(event_log, entry)
      /\ authority' = ApplyEntry(authority, entry)
      /\ projections' = Append(projections, ApplyEntry(authority, entry))
  BY DEF AppendAndApply
<1>3. entry.sequence \in 1 .. MaxEvents
  BY <1>1, <1>2, ReplicationAssumption
<1>4. e \in Event /\ e.type \in Types /\ entry = [event |-> e, sequence |-> entry.sequence]
  BY DEF LogEntry, KnownEvents
<1>5. Pipeline!InSequence(entry.sequence, None)
  BY <1>1 DEF Pipeline!InSequence
<1>6. Pipeline!Accept(e, entry.sequence, None)
  BY <1>1, <1>2, <1>4, <1>5, SamePermits, SameApply
     DEF Pipeline!Accept, Pipeline!AppendAndApply
<1> HIDE DEF e
<1>7. ASSUME NEW events, e \in events PROVE Pipeline!Propose(events)
  BY <1>3, <1>4, <1>5, <1>6, <1>7 DEF Pipeline!Propose
<1> QED
  BY <1>4, <1>7 DEF Event, Pipeline!Next, Pipeline!CreateRoot, Pipeline!RotateAuthority,
     Pipeline!IssueDeviceKey, Pipeline!RevokeDeviceKey, Pipeline!IssueSession,
     Pipeline!ExpireSession, Pipeline!IssueRecoveryAuthority,
     Pipeline!RevokeRecoveryAuthority, Pipeline!ExecuteRecovery, Pipeline!EstablishTrust,
     Pipeline!UpdateTrust, Pipeline!RevokeTrust,
     RootCreated, RootRotated, DeviceIssued, DeviceRevoked, SessionIssued, SessionExpired,
     RecoveryIssued, RecoveryRevoked, RecoveryExecuted, TrustEstablished, TrustUpdated,
     TrustRevoked, RecoveryNames, DeviceNames, SessionNames, Pipeline!RecoveryNames,
     Pipeline!DeviceNames, Pipeline!SessionNames,
     Pipeline!RootCreated, Pipeline!RootRotated, Pipeline!DeviceIssued,
     Pipeline!DeviceRevoked, Pipeline!SessionIssued, Pipeline!SessionExpired,
     Pipeline!RecoveryIssued, Pipeline!RecoveryRevoked, Pipeline!RecoveryExecuted,
     Pipeline!TrustEstablished, Pipeline!TrustUpdated, Pipeline!TrustRevoked, Signers,
     Pipeline!Signers

\* Whatever arrives and whatever clients send, the receiver's log and projection change
\* only as acceptAndApplyRealmEvent changes them.
THEOREM OnlyThePipelineWrites == Spec => NoParallelWritePath
<1>1. Init => Pipeline!Init
  BY DEF Init, Pipeline!Init, EmptyAuthorityState, Pipeline!EmptyAuthorityState
<1>2. ReplicationInv /\ [Next]_vars => [Pipeline!Next]_(Pipeline!vars)
  <2> SUFFICES ASSUME ReplicationInv, [Next]_vars PROVE Pipeline!Next \/ UNCHANGED Pipeline!vars
    OBVIOUS
  <2>1. CASE UNCHANGED receiver
    BY <2>1 DEF receiver, Pipeline!vars
  <2> QED BY <2>1, LedgerStep, AcceptanceIsAProposal DEF ReplicationInv
<1> QED BY <1>1, <1>2, ReplicationInvariant, PTL
     DEF Spec, NoParallelWritePath, Pipeline!Spec

-----------------------------------------------------------------------------
(* A replica of the source. *)

\* Every hash on the transport, also of a damaged event, is one the source computed.
HashesAreHistory ==
    \A b \in batches : \A k \in DOMAIN b.events : IsPrefixOf(b.events[k].hash, source_log)

LEMMA HistoryOfBatch ==
    ASSUME source_log \in Hash, NEW i \in 0 .. Len(source_log),
           NEW j \in i .. Len(source_log), NEW d, NEW b, b = BatchOf(source_log, i, j, d)
    PROVE  \A k \in DOMAIN b.events : IsPrefixOf(b.events[k].hash, source_log)
<1>1. DOMAIN b.events = 1 .. j - i
  BY DEF BatchOf
<1>2. ASSUME NEW k \in 1 .. j - i PROVE IsPrefixOf(b.events[k].hash, source_log)
  <2>1. b.events[k].hash = SubSeq(source_log, 1, i + k)
    BY DEF BatchOf
  <2>2. i + k \in Nat /\ i + k <= Len(source_log)
    BY DEF Hash
  <2>3. Len(SubSeq(source_log, 1, i + k)) = i + k
    BY <2>2, SubSeqShape DEF Hash
  <2> QED BY <2>1, <2>2, <2>3 DEF IsPrefixOf
<1> QED BY <1>1, <1>2

LEMMA StepOfHistory ==
    ASSUME PeerEvents = {}, ReplicationInv, HashesAreHistory, [Next]_vars
    PROVE  HashesAreHistory'
<1>0. source_log \in Hash /\ source_log \in Seq(LogEntry) /\ batches \subseteq Batch
  BY DEF ReplicationInv, TransportInv, Hash
<1>a. ASSUME NEW b, Send(b), \A k \in DOMAIN b.events : IsPrefixOf(b.events[k].hash, source_log)
      PROVE  HashesAreHistory'
  BY <1>a DEF Send, HashesAreHistory
<1>1. CASE SourceAccepts
  <2>1. PICK e \in SourceEvents :
           source_log' = Append(source_log, [event |-> e, sequence |-> Len(source_log) + 1])
    BY <1>1 DEF SourceAccepts
  <2>2. batches' = batches /\ [event |-> e, sequence |-> Len(source_log) + 1] \in LogEntry
    BY <1>0, <1>1, ReplicationAssumption DEF SourceAccepts, LogEntry, CarriedEvents
  <2>3. ASSUME NEW b \in batches, NEW k \in DOMAIN b.events
        PROVE  IsPrefixOf(b.events[k].hash, source_log')
    <3>1. b.events[k] \in TransportEvent
      BY <1>0 DEF Batch
    <3>2. b.events[k].hash \in Seq(LogEntry)
      BY <3>1 DEF TransportEvent, Hash
    <3>3. IsPrefixOf(b.events[k].hash, source_log)
      BY DEF HashesAreHistory
    <3> QED BY <1>0, <2>1, <2>2, <3>2, <3>3, PrefixOfLonger
  <2> QED BY <2>2, <2>3 DEF HashesAreHistory
<1>2. CASE SendHistory
  <2>1. PICK i \in 0 .. Len(source_log), d \in Deliveries \cup {None} :
           \E j \in i + 1 .. Len(source_log) : Send(BatchOf(source_log, i, j, d))
    BY <1>2 DEF SendHistory
  <2>2. PICK j \in i + 1 .. Len(source_log) : Send(BatchOf(source_log, i, j, d))
    BY <2>1
  <2>3. j \in i .. Len(source_log)
    BY <1>0
  <2>4. PICK b : b = BatchOf(source_log, i, j, d)
    OBVIOUS
  <2> QED BY <1>0, <1>a, <2>2, <2>3, <2>4, HistoryOfBatch
<1>3. CASE SendForeignHistory
  BY <1>3 DEF SendForeignHistory
<1>4. CASE DamageBatch
  <2>1. PICK b \in batches, c \in Batch :
           /\ Send(c)
           /\ \A n \in DOMAIN c.events : \E m \in DOMAIN b.events :
                 c.events[n].hash = b.events[m].hash
    BY <1>4, Damaged DEF ReplicationInv
  <2>2. \A n \in DOMAIN b.events : IsPrefixOf(b.events[n].hash, source_log)
    BY DEF HashesAreHistory
  <2> QED BY <1>a, <2>1, <2>2
<1>5. CASE UNCHANGED <<source_log, batches>>
  BY <1>5 DEF HashesAreHistory
<1> QED BY <1>1, <1>2, <1>3, <1>4, <1>5
     DEF Next, ReceiveBatch, ExecuteEvent, RepeatAnswer, RefuseBatch, SubmitCommand, Restart, vars

\* The source goes on: what the receiver shares with it stays as it is.
LEMMA SourceGoesOn ==
    ASSUME ReplicationInv, PartsByAMisreading, SourceAccepts
    PROVE  PartsByAMisreading' /\ Replica!Extend
<1>1. PICK e \in SourceEvents :
         source_log' = Append(source_log, [event |-> e, sequence |-> Len(source_log) + 1])
  BY DEF SourceAccepts
<1>2. PICK entry : entry = [event |-> e, sequence |-> Len(source_log) + 1]
  OBVIOUS
<1>3. /\ source_log \in Seq(LogEntry) /\ event_log \in Seq(LogEntry)
      /\ Len(source_log) \in Nat /\ Len(event_log) \in Nat /\ event_log' = event_log
  BY DEF ReplicationInv, TransportInv, ReceiverInv, Hash, SourceAccepts, receiver
<1>4. entry \in LogEntry
  BY <1>2, <1>3, ReplicationAssumption DEF LogEntry, CarriedEvents
<1>5. /\ source_log' \in Seq(LogEntry) /\ Len(source_log') = Len(source_log) + 1
      /\ \A i \in 1 .. Len(source_log) : source_log'[i] = source_log[i]
  BY <1>1, <1>2, <1>3, <1>4
<1>6. Replica!Continues(source_log', source_log)
  <2>1. SubSeq(Append(source_log, entry), 1, Len(source_log))
           = SubSeq(source_log, 1, Len(source_log))
    BY <1>3, <1>4, SubSeqOfLonger
  <2>2. SubSeq(source_log, 1, Len(source_log)) = source_log
    BY <1>3, PrefixOfItself DEF IsPrefixOf
  <2> QED BY <1>1, <1>2, <1>3, <1>5, <2>1, <2>2 DEF Replica!Continues
<1>7. CASE IsPrefixOf(event_log, source_log)
  <2>1. IsPrefixOf(event_log, source_log')
    BY <1>1, <1>2, <1>3, <1>4, <1>7, PrefixOfLonger
  <2>2. SharedHistory' = SharedHistory
    BY <1>3, <1>7, <2>1 DEF SharedHistory
  <2> QED BY <1>3, <1>5, <1>6, <2>1, <2>2 DEF PartsByAMisreading, Replica!Extend
<1>8. CASE ~ IsPrefixOf(event_log, source_log)
  <2>1. /\ Len(event_log) <= Len(source_log)
        /\ event_log[Len(event_log)].event \in Misreadings[source_log[Len(event_log)].event]
    BY <1>8 DEF PartsByAMisreading
  <2>2. PICK i \in 1 .. Len(event_log) : event_log[i] # source_log[i]
    BY <1>3, <1>8, <2>1, PrefixByIndex
  <2>3. Len(event_log) \in 1 .. Len(source_log) /\ source_log'[i] = source_log[i]
    BY <1>3, <1>5, <2>1, <2>2
  <2>4. ~ IsPrefixOf(event_log, source_log')
    BY <1>3, <1>5, <2>2, <2>3, PrefixByIndex
  <2>5. /\ Len(event_log) <= Len(source_log')
        /\ event_log[Len(event_log)].event \in Misreadings[source_log'[Len(event_log)].event]
    BY <1>3, <1>5, <2>1, <2>3
  <2>6. SharedHistory' = SharedHistory
    BY <1>3, <1>8, <2>4 DEF SharedHistory
  <2> QED BY <1>3, <1>5, <1>6, <2>5, <2>6 DEF PartsByAMisreading, Replica!Extend
<1> QED BY <1>7, <1>8

\* An event is accepted only where the receiver's history is the source's: the receiver
\* copies the source's next event, or parts from it by a misreading of that event.
LEMMA EventAccepted ==
    ASSUME ReplicationInv, HashesAreHistory, UNCHANGED source_log,
           NEW b \in batches, NEW k \in DOMAIN b.events,
           b.events[k] \in TransportEvent, Carried(b.events[k]),
           b.events[k].hash = Append(b.events[k].previous, b.events[k].entry),
           b.events[k].previous = event_log, event_log' = ExecutedHash(b.events[k])
    PROVE  PartsByAMisreading' /\ (Replica!Copy \/ UNCHANGED <<source_log, SharedHistory>>)
<1>1. PICK event \in TransportEvent : event = b.events[k]
  OBVIOUS
<1>2. /\ source_log \in Seq(LogEntry) /\ event_log \in Seq(LogEntry)
      /\ Len(source_log) \in Nat /\ Len(event_log) \in Nat
      /\ event.entry \in LogEntry /\ event.executed \in LogEntry
  BY ExecutedHashType DEF ReplicationInv, TransportInv, ReceiverInv, Hash
<1>3. PICK n : n = Len(event_log)
  OBVIOUS
<1>4. /\ event.hash \in Seq(LogEntry) /\ Len(event.hash) = n + 1
      /\ \A i \in 1 .. n : event.hash[i] = event_log[i]
      /\ event.hash[n + 1] = event.entry
  <2>1. PICK entry \in LogEntry : entry = event.entry
    BY <1>2
  <2>2. event.hash = Append(event_log, entry)
    BY <1>1, <2>1
  <2>3. /\ Append(event_log, entry) \in Seq(LogEntry)
        /\ Len(Append(event_log, entry)) = Len(event_log) + 1
        /\ \A i \in 1 .. Len(event_log) : Append(event_log, entry)[i] = event_log[i]
        /\ Append(event_log, entry)[Len(event_log) + 1] = entry
    BY <1>2, Appended
  <2> QED BY <1>3, <2>1, <2>2, <2>3
<1>5. IsPrefixOf(event.hash, source_log)
  BY <1>1 DEF HashesAreHistory
<1>6. /\ n + 1 <= Len(source_log)
      /\ \A i \in 1 .. n : event_log[i] = source_log[i]
      /\ source_log[n + 1] = event.entry
  <2>1. /\ n + 1 <= Len(source_log)
        /\ \A i \in 1 .. n + 1 : event.hash[i] = source_log[i]
    BY <1>2, <1>4, <1>5, PrefixByIndex
  <2> QED BY <1>2, <1>3, <1>4, <2>1
<1>7. IsPrefixOf(event_log, source_log)
  BY <1>2, <1>3, <1>6, PrefixByIndex
<1>8. /\ event_log' \in Seq(LogEntry) /\ Len(event_log') = n + 1
      /\ event_log'[n + 1] = event.executed
      /\ event_log' = Append(event_log, event.executed)
  BY <1>1, <1>2, <1>3 DEF ExecutedHash
<1>9. SubSeq(event_log', 1, n) = event_log
  <2>1. SubSeq(Append(event_log, event.executed), 1, n) = SubSeq(event_log, 1, n)
    BY <1>2, <1>3, SubSeqOfLonger
  <2>2. SubSeq(event_log, 1, n) = event_log
    BY <1>2, <1>3, PrefixOfItself DEF IsPrefixOf
  <2> QED BY <1>8, <2>1, <2>2
<1>10. PartsByAMisreading'
  BY <1>1, <1>2, <1>3, <1>6, <1>8 DEF PartsByAMisreading, Carried
<1>11. CASE IsPrefixOf(event_log', source_log')
  <2>1. SharedHistory = event_log /\ SharedHistory' = event_log'
    BY <1>7, <1>11 DEF SharedHistory
  <2>2. Replica!Continues(event_log', event_log)
    BY <1>2, <1>3, <1>8, <1>9 DEF Replica!Continues
  <2> QED BY <1>10, <1>11, <2>1, <2>2 DEF Replica!Copy, IsPrefixOf
<1>12. CASE ~ IsPrefixOf(event_log', source_log')
  <2>1. SharedHistory = event_log
    BY <1>7 DEF SharedHistory
  <2>2. SharedHistory' = SubSeq(event_log', 1, Len(event_log') - 1)
    BY <1>12 DEF SharedHistory
  <2>3. SharedHistory' = event_log
    BY <1>2, <1>3, <1>8, <1>9, <2>2
  <2> QED BY <1>10, <2>1, <2>3
<1> QED BY <1>11, <1>12

\* Where nobody else continues the history and no client writes, the receiver's history is
\* at every moment a prefix of the source's that only grows: lost, damaged, repeated, early
\* and late batches (receiveEventBatch), retried commands and restarts never make them differ,
\* but for one last event whose envelope was damaged under a good hash: with the source's
\* payload, and a signer or a type the source did not give it (normalizeRealmEventProposal).
THEOREM ReplicaTracksSource ==
    ASSUME PeerEvents = {}, LocalCommands = {}
    PROVE  Spec => TracksSource
<1>1. Init => HashesAreHistory /\ PartsByAMisreading /\ Replica!Init
  <2> SUFFICES ASSUME Init PROVE HashesAreHistory /\ PartsByAMisreading /\ Replica!Init
    OBVIOUS
  <2>1. batches = {} /\ event_log = <<>> /\ source_log = <<>>
    BY DEF Init
  <2>2. <<>> \in Seq(LogEntry)
    OBVIOUS
  <2>3. IsPrefixOf(event_log, source_log)
    BY <2>1, <2>2, PrefixOfItself
  <2> QED BY <2>1, <2>3 DEF HashesAreHistory, PartsByAMisreading, Replica!Init, SharedHistory
<1>2. ReplicationInv /\ HashesAreHistory /\ [Next]_vars => HashesAreHistory'
  BY StepOfHistory
<1>3. ReplicationInv /\ HashesAreHistory /\ PartsByAMisreading /\ [Next]_vars
         => PartsByAMisreading' /\ [Replica!Next]_<<source_log, SharedHistory>>
  <2> SUFFICES ASSUME ReplicationInv, HashesAreHistory, PartsByAMisreading, [Next]_vars
               PROVE  /\ PartsByAMisreading'
                      /\ Replica!Next \/ UNCHANGED <<source_log, SharedHistory>>
    OBVIOUS
  <2>1. CASE SourceAccepts
    BY <2>1, SourceGoesOn DEF Replica!Next
  <2>2. CASE UNCHANGED <<source_log, receiver>>
    BY <2>2 DEF receiver, PartsByAMisreading, SharedHistory
  <2>3. CASE ExecuteEvent
    <3>0. PICK b, k : b = receiving.batch /\ k = receiving.done + 1
      OBVIOUS
    <3>1. /\ receiving # None /\ source_log' = source_log
          /\ Execute(TransportCommandId(b, k), TransportIntent(b, k), TRUE,
                     b.events[k].executed, b.events[k].previous)
      BY <2>3, <3>0 DEF ExecuteEvent
    <3>2. \/ /\ b.events[k].previous = event_log
             /\ event_log' = ExecutedHash(b.events[k])
          \/ UNCHANGED receiver
      BY <3>0, <3>1, EventCases
    <3>3. /\ b \in batches /\ k \in 1 .. Len(b.events) /\ b.events \in Seq(TransportEvent)
          /\ b.events[k] \in TransportEvent /\ Carried(b.events[k])
          /\ b.events[k].hash = Append(b.events[k].previous, b.events[k].entry)
      BY <3>0, <3>1, NextEvent
    <3>4. k \in DOMAIN b.events
      BY <3>3
    <3>5. CASE b.events[k].previous = event_log /\ event_log' = ExecutedHash(b.events[k])
      BY <3>1, <3>3, <3>4, <3>5, EventAccepted DEF Replica!Next
    <3> QED BY <2>2, <3>1, <3>2, <3>5
  <2>4. ~ SubmitCommand
    BY DEF SubmitCommand
  <2> QED BY <2>1, <2>2, <2>3, <2>4
       DEF Next, SendHistory, SendForeignHistory, DamageBatch, Send, ReceiveBatch,
           RepeatAnswer, RefuseBatch, Restart, vars
<1> QED BY <1>1, <1>2, <1>3, ReplicationInvariant, PTL
     DEF Spec, TracksSource, Replica!Spec

=============================================================================
