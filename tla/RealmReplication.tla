--------------------------- MODULE RealmReplication ---------------------------
(***************************************************************************)
(* A realm that receives another realm's history.  Batches of events       *)
(* travel on a transport that may lose, duplicate, delay, reorder and      *)
(* damage them.  receiveEventBatch checks the hash chain of a batch from   *)
(* the receiver's own head, then submits its events one by one as commands *)
(* of executeCommand, which remembers the outcome of every command id.     *)
(* Clients submit commands of their own through handleApiRequest: events,  *)
(* events a device signed, and the recognition of a remote realm.          *)
(*                                                                         *)
(* A hash covers the event and the hash before it, so it stands for the    *)
(* whole history up to the event: it is represented by that history.  An   *)
(* event states its type, signer and sequence twice: in the fields beside  *)
(* the payload, which the hash covers (realmEventHashMaterial), and in its *)
(* envelope, which executing the event reads (normalizeRealmEventProposal).*)
(* Nothing compares the two.  A damaged event is one whose content is not  *)
(* what its hash says, or whose envelope is not what the other fields say. *)
(*                                                                         *)
(* The receiver runs one request at a time; a restart may interrupt it     *)
(* between two events.  It keeps the log, and the projection with it       *)
(* (RealmPipeline shows that a boot restores it), and loses the            *)
(* execution store, a Map in memory.                                       *)
(***************************************************************************)
EXTENDS RealmEventRegistry, Sequences, FiniteSets

CONSTANTS
    SourceEvents,   \* events the source may accept
    PeerEvents,     \* events an unrelated realm may claim to continue a history with
    LocalCommands,  \* commands of clients: their type and the event they propose
    Deliveries,     \* delivery ids a sender may put on a batch
    CommandIds,     \* command ids of clients
    MaxEvents,      \* bound on the length of a log
    MaxBatches,     \* bound on the batches in flight
    MaxRestarts     \* bound on the restarts

\* COMMAND_TYPES.  EXECUTE_RECOVERY_CEREMONY is in RealmPipeline.
CommandTypes == {"SUBMIT_REALM_EVENT", "SUBMIT_DEVICE_EVENT", "RECOGNIZE_REMOTE_REALM"}

CommandKind ==
    {c \in [type: CommandTypes, event: Event] :
        c.type = "RECOGNIZE_REMOTE_REALM" => c.event.type = "FEDERATION_TRUST_ESTABLISHED"}

CarriedEvents == SourceEvents \cup PeerEvents

LogEntry == [event: Event, sequence: Nat]

Hash == Seq(LogEntry)

ASSUME ReplicationAssumption ==
    /\ CarriedEvents \subseteq Event
    /\ LocalCommands \subseteq CommandKind
    /\ None \notin Deliveries \cup CommandIds
    /\ None \notin Hash
    /\ MaxEvents \in Nat /\ MaxBatches \in Nat /\ MaxRestarts \in Nat

VARIABLES
    source_log,        \* the history of the source
    source_authority,  \* its projection
    batches,           \* the batches ever sent: any of them may arrive, again and again
    event_log,         \* the receiver's ledger.event_log
    authority,         \* its ledger.current_authority_state
    projections,       \* history variable: the projection after each event of event_log
    executions,        \* the execution store: command id, intent fingerprint, outcome
    receiving,         \* the batch being executed and how many events are done, or None
    answers,           \* history variable: the requests told of accepted events, and what
                       \* they were told last, since the last restart
    restarts           \* restarts so far

receiver == <<event_log, authority, projections>>
vars == <<source_log, source_authority, batches, receiver, executions, receiving,
          answers, restarts>>

\* entry is what the hash covers, executed what the envelope makes of the payload.
TransportEvent == [entry: LogEntry, executed: LogEntry, previous: Hash, hash: Hash]

\* The id and the hash an event gets when it is accepted.
ExecutedHash(event) == Append(event.previous, event.executed)

Batch == [delivery: Deliveries \cup {None}, previous: Hash, events: Seq(TransportEvent),
          head: Hash]

Init ==
    /\ source_log = <<>>
    /\ source_authority = EmptyAuthorityState
    /\ batches = {}
    /\ event_log = <<>>
    /\ authority = EmptyAuthorityState
    /\ projections = <<EmptyAuthorityState>>
    /\ executions = {}
    /\ receiving = None
    /\ answers = {}
    /\ restarts = 0

-----------------------------------------------------------------------------
(* The source and the transport. *)

SourceAccepts ==
    /\ Len(source_log) < MaxEvents
    /\ \E e \in SourceEvents :
          LET entry == [event |-> e, sequence |-> Len(source_log) + 1]
          IN  /\ Permits(source_authority, e)
              /\ source_log' = Append(source_log, entry)
              /\ source_authority' = ApplyEntry(source_authority, entry)
    /\ UNCHANGED <<batches, receiver, executions, receiving, answers, restarts>>

\* The batch of the events after the first i of a log, up to the j-th.
BatchOf(log, i, j, delivery) ==
    [delivery |-> delivery,
     previous |-> SubSeq(log, 1, i),
     events   |-> [k \in 1 .. j - i |-> [entry    |-> log[i + k],
                                         executed |-> log[i + k],
                                         previous |-> SubSeq(log, 1, i + k - 1),
                                         hash     |-> SubSeq(log, 1, i + k)]],
     head     |-> SubSeq(log, 1, j)]

Send(b) ==
    /\ batches' = batches \cup {b}
    /\ Cardinality(batches') <= MaxBatches
    /\ UNCHANGED <<source_log, source_authority, receiver, executions, receiving, answers,
                   restarts>>

SendHistory ==
    \E i \in 0 .. Len(source_log), delivery \in Deliveries \cup {None} :
        \E j \in i + 1 .. Len(source_log) : Send(BatchOf(source_log, i, j, delivery))

\* Another realm continues the history its own way, with a valid hash chain.
SendForeignHistory ==
    \E j \in 0 .. Len(source_log), e \in PeerEvents, delivery \in Deliveries \cup {None} :
        /\ j < MaxEvents
        /\ LET log == Append(SubSeq(source_log, 1, j), [event |-> e, sequence |-> j + 1])
           IN  \E i \in 0 .. j : Send(BatchOf(log, i, j + 1, delivery))

Issuings == {"DEVICE_KEY_ISSUED", "SESSION_AUTHORITY_ISSUED", "RECOVERY_AUTHORITY_ISSUED"}
Endings  == {"DEVICE_KEY_REVOKED", "SESSION_AUTHORITY_EXPIRED", "RECOVERY_AUTHORITY_REVOKED"}
Trusts   == {"FEDERATION_TRUST_ESTABLISHED", "FEDERATION_TRUST_UPDATED",
             "FEDERATION_TRUST_REVOKED"}

\* The name an event of an ending type takes from the payload of e: the id of what e
\* issues if it ends things of that kind, and otherwise the authority reference.
NameToEnd(e, type) ==
    CASE e.type = "DEVICE_KEY_ISSUED" /\ type = "DEVICE_KEY_REVOKED" -> e.device
      [] e.type = "SESSION_AUTHORITY_ISSUED" /\ type = "SESSION_AUTHORITY_EXPIRED" -> e.session
      [] e.type = "RECOVERY_AUTHORITY_ISSUED" /\ type = "RECOVERY_AUTHORITY_REVOKED" -> e.recovery
      [] e.type \in Endings -> e.target
      [] OTHER -> e.ref

\* The payload of e, read as one of f's type.  The recovery reference is in the payload
\* whoever signs, and read of recovery authorities only.
SamePayload(e, f) ==
    /\ \/ /\ f.type = e.type
          /\ \A field \in DOMAIN e \ {"signer", "recoveryRef"} : f[field] = e[field]
       \/ /\ e.type \in Issuings \cup Endings /\ f.type \in Endings
          /\ f.target = NameToEnd(e, f.type)
       \/ /\ e.type = "SESSION_AUTHORITY_EXPIRED" /\ f.type = "SESSION_AUTHORITY_ISSUED"
          /\ f.session = e.target
       \/ e.type \in Trusts /\ f.type \in Trusts /\ f.realm = e.realm
    /\ "recoveryRef" \in DOMAIN e \cap DOMAIN f =>
          \/ f.recoveryRef = e.recoveryRef
          \/ e.type # "RECOVERY_EXECUTED" /\ None \in {e.recoveryRef, f.recoveryRef}

\* What an event may be executed as when only its envelope is damaged: with another
\* signer, or as another type its payload has the fields of.
Misreadings == [e \in CarriedEvents |-> {f \in Event : SamePayload(e, f)}]

WithEvent(b, k, event) == [b EXCEPT !.events[k] = event]

\* A batch loses an event, an event its content, or an envelope its signer, type or
\* sequence, on the way.  (The hash before the event is in the envelope too: changed, it
\* gets the event refused, as a changed sequence does.)
DamageBatch ==
    \E b \in batches : \E k \in DOMAIN b.events :
        LET event == b.events[k]
        IN  \/ Send([b EXCEPT !.events = SubSeq(@, 1, k - 1) \o SubSeq(@, k + 1, Len(@))])
            \/ \E e \in CarriedEvents \ {event.entry.event} :
                  Send(WithEvent(b, k, [event EXCEPT !.entry.event = e, !.executed.event = e]))
            \/ \E f \in Misreadings[event.entry.event] \ {event.executed.event} :
                  Send(WithEvent(b, k, [event EXCEPT !.executed.event = f]))
            \/ \E n \in (1 .. MaxEvents) \ {event.executed.sequence} :
                  Send(WithEvent(b, k, [event EXCEPT !.executed.sequence = n]))

-----------------------------------------------------------------------------
(* executeCommand. *)

\* Slip: the sequence of a proposal is not checked (the option skipSequenceCheck).
AcceptsAnySequence(entry, previous) ==
    /\ previous \in {None, event_log}
    /\ Permits(authority, entry.event)

\* Slip: the hash a proposal is to continue is not compared with the last one.
AcceptsAnyPrevious(entry, previous) ==
    /\ entry.sequence = authority.lastSequence + 1
    /\ Permits(authority, entry.event)

\* acceptRealmEvent: the proposal is the next in sequence, it continues the log (a
\* client's proposal need not say so) and the authority state permits it.
Accepts(entry, previous) ==
    /\ entry.sequence = authority.lastSequence + 1
    /\ previous \in {None, event_log}
    /\ Permits(authority, entry.event)

AppendAndApply(entry) ==
    LET next == ApplyEntry(authority, entry)
    IN  /\ Len(event_log) < MaxEvents
        /\ event_log' = Append(event_log, entry)
        /\ authority' = next
        /\ projections' = Append(projections, next)

Recorded(id) == {r \in executions : r.id = id}

\* Slip: the recorded intent is not compared.
OutcomeOfId(id, intent, admitted, entry, previous) ==
    IF Recorded(id) # {}
    THEN UNION {r.accepted : r \in Recorded(id)}
    ELSE IF admitted /\ Accepts(entry, previous) THEN {Append(event_log, entry)} ELSE {}

\* The ids of the events a command gets accepted, none when it is refused: what was
\* recorded for it, nothing when the recorded intent is another one, and otherwise
\* the outcome of executing it now, if the command is admitted to acceptRealmEvent.
Outcome(id, intent, admitted, entry, previous) ==
    IF Recorded(id) # {}
    THEN UNION {r.accepted : r \in {x \in Recorded(id) : x.intent = intent}}
    ELSE IF admitted /\ Accepts(entry, previous) THEN {Append(event_log, entry)} ELSE {}

\* Slip: the execution is not recorded.
ExecuteUnrecorded(id, intent, admitted, entry, previous) ==
    /\ IF admitted /\ Accepts(entry, previous) THEN AppendAndApply(entry) ELSE UNCHANGED receiver
    /\ UNCHANGED executions

Execute(id, intent, admitted, entry, previous) ==
    IF Recorded(id) # {}
    THEN UNCHANGED <<receiver, executions>>
    ELSE /\ executions' = executions \cup
                {[id |-> id, intent |-> intent,
                  accepted |-> Outcome(id, intent, admitted, entry, previous)]}
         /\ IF admitted /\ Accepts(entry, previous)
            THEN AppendAndApply(entry)
            ELSE UNCHANGED receiver

-----------------------------------------------------------------------------
(* receiveEventBatch. *)

\* Slip: the batch may start anywhere.
VerifiedAnyHead(b) ==
    /\ \A k \in DOMAIN b.events :
          /\ b.events[k].previous = IF k = 1 THEN b.previous ELSE b.events[k - 1].hash
          /\ b.events[k].hash = Append(b.events[k].previous, b.events[k].entry)
    /\ b.head = IF b.events = <<>> THEN b.previous ELSE b.events[Len(b.events)].hash

\* verifyTransportEnvelope: the batch starts at the receiver's head, each event
\* follows the one before it and has the hash of its content (its envelope is not
\* looked at), and the last hash is the head the batch announces.
VerifiedEnvelope(b) ==
    /\ b.previous = event_log
    /\ \A k \in DOMAIN b.events :
          /\ b.events[k].previous = IF k = 1 THEN b.previous ELSE b.events[k - 1].hash
          /\ b.events[k].hash = Append(b.events[k].previous, b.events[k].entry)
    /\ b.head = IF b.events = <<>> THEN b.previous ELSE b.events[Len(b.events)].hash

\* The command of the k-th event: its id, the fingerprint of its intent.
TransportCommandId(b, k) ==
    <<IF b.delivery = None THEN b.head ELSE b.delivery, b.events[k].hash>>

TransportIntent(b, k) ==
    [event |-> b.events[k], previous |-> b.previous, head |-> b.head, delivery |-> b.delivery]

\* A refusal that calls no event accepted says nothing that could be wrong.
Answer(request, ok, accepted) ==
    answers' = {a \in answers : a.request # request}
                \cup (IF ok \/ accepted # {}
                      THEN {[request |-> request, ok |-> ok, accepted |-> accepted]}
                      ELSE {})

ReceiveBatch ==
    /\ receiving = None
    /\ \E b \in batches :
          /\ VerifiedEnvelope(b)
          /\ b.events # <<>>
          /\ receiving' = [batch |-> b, done |-> 0, accepted |-> {}]
    /\ UNCHANGED <<source_log, source_authority, batches, receiver, executions, answers,
                   restarts>>

\* The next event of the batch: the batch ends when it is the last or is refused.
ExecuteEvent ==
    /\ receiving # None
    /\ LET b        == receiving.batch
           k        == receiving.done + 1
           id       == TransportCommandId(b, k)
           event    == b.events[k]
           intent   == TransportIntent(b, k)
           outcome  == Outcome(id, intent, TRUE, event.executed, event.previous)
           accepted == receiving.accepted \cup outcome
       IN  /\ Execute(id, intent, TRUE, event.executed, event.previous)
           /\ IF outcome # {} /\ k < Len(b.events)
              THEN /\ receiving' = [batch |-> b, done |-> k, accepted |-> accepted]
                   /\ UNCHANGED answers
              ELSE /\ receiving' = None
                   /\ Answer(b, outcome # {}, accepted)
    /\ UNCHANGED <<source_log, source_authority, batches, restarts>>

\* cachedBatchReplay: every command of the batch has been executed before.
AllRecorded(b) ==
    /\ b.events # <<>>
    /\ \A k \in DOMAIN b.events : Recorded(TransportCommandId(b, k)) # {}

RepeatAnswer ==
    /\ receiving = None
    /\ \E b \in batches :
          /\ ~ VerifiedEnvelope(b)
          /\ AllRecorded(b)
          /\ LET Records(k) == Recorded(TransportCommandId(b, k))
                 mismatch   == \E k \in DOMAIN b.events : \E r \in Records(k) :
                                  r.intent # TransportIntent(b, k)
                 accepted   == UNION {r.accepted : r \in UNION {Records(k) : k \in DOMAIN b.events}}
                 ok         == \A k \in DOMAIN b.events : \E r \in Records(k) : r.accepted # {}
             IN  IF mismatch THEN Answer(b, FALSE, {}) ELSE Answer(b, ok, accepted)
    /\ UNCHANGED <<source_log, source_authority, batches, receiver, executions, receiving,
                   restarts>>

RefuseBatch ==
    /\ receiving = None
    /\ \E b \in batches :
          /\ ~ VerifiedEnvelope(b)
          /\ ~ AllRecorded(b)
          /\ Answer(b, FALSE, {})
    /\ UNCHANGED <<source_log, source_authority, batches, receiver, executions, receiving,
                   restarts>>

-----------------------------------------------------------------------------
(* handleApiRequest: a client sends a command under a command id, any number  *)
(* of times.  evidence is whether the evidence in it is good: the signature   *)
(* of a device's event; the history of a remote realm, its root, and the      *)
(* policy for it.                                                             *)

Command == [type: CommandTypes, event: Event, sequence: Nat, evidence: BOOLEAN]

\* submitDeviceEvent: the signer is an active device now, and its key signed the event.
DeviceSigned(c) == c.evidence /\ IsActiveDevice(authority, c.event.signer)

\* recognizeRemoteRealm: the remote history verifies, its root is active and the one
\* claimed, and the local policy admits realm and root.
RealmRecognized(c) == c.evidence

\* Whether executeRealmCommand gets as far as acceptRealmEvent.
Admitted(c) ==
    CASE c.type = "SUBMIT_REALM_EVENT"     -> TRUE
      [] c.type = "SUBMIT_DEVICE_EVENT"    -> DeviceSigned(c)
      [] c.type = "RECOGNIZE_REMOTE_REALM" -> RealmRecognized(c)

SubmitCommand ==
    /\ receiving = None
    /\ \E id \in CommandIds, kind \in LocalCommands, sequence \in 1 .. MaxEvents,
          evidence \in BOOLEAN :
          LET command  == [type |-> kind.type, event |-> kind.event, sequence |-> sequence,
                           evidence |-> evidence]
              entry    == [event |-> kind.event, sequence |-> sequence]
              accepted == Outcome(id, command, Admitted(command), entry, None)
          IN  /\ kind.type = "SUBMIT_REALM_EVENT" => evidence
              /\ Execute(id, command, Admitted(command), entry, None)
              /\ Answer([id |-> id, command |-> command], accepted # {}, accepted)
    /\ UNCHANGED <<source_log, source_authority, batches, receiving, restarts>>

\* The receiver restarts, possibly in the middle of a batch.
Restart ==
    /\ restarts < MaxRestarts
    /\ restarts' = restarts + 1
    /\ executions' = {}
    /\ receiving' = None
    /\ answers' = {}
    /\ UNCHANGED <<source_log, source_authority, batches, receiver>>

-----------------------------------------------------------------------------
Next ==
    \/ SourceAccepts
    \/ SendHistory \/ SendForeignHistory \/ DamageBatch
    \/ ReceiveBatch \/ ExecuteEvent \/ RepeatAnswer \/ RefuseBatch
    \/ SubmitCommand
    \/ Restart

Spec == Init /\ [][Next]_vars

-----------------------------------------------------------------------------
(* Properties.                                                                *)

Request == Batch \cup [id: CommandIds, command: Command]

\* Every variable has the shape the code gives it.
TypeOK ==
    /\ source_log \in Seq(LogEntry)
    /\ source_authority \in AuthorityState
    /\ batches \subseteq Batch
    /\ event_log \in Hash
    /\ authority \in AuthorityState
    /\ projections \in Seq(AuthorityState)
    /\ \A r \in executions :
          /\ r.id \in CommandIds \cup ((Deliveries \cup Hash) \X Hash)
          /\ r.accepted \subseteq Hash
    /\ receiving # None => /\ receiving.batch \in batches
                           /\ receiving.done \in 0 .. Len(receiving.batch.events) - 1
                           /\ receiving.accepted \subseteq Hash
    /\ \A a \in answers : a.request \in Request /\ a.ok \in BOOLEAN /\ a.accepted \subseteq Hash
    /\ restarts \in 0 .. MaxRestarts

KnownEvents ==
    CarriedEvents \cup {c.event : c \in LocalCommands}
                  \cup (UNION {Misreadings[e] : e \in CarriedEvents})

\* "Transport and API helpers must not create parallel write paths" (ADR-0076):
\* whatever arrives, in whatever order, the receiver's log and projection change
\* only as RealmPipeline lets a proposal change them.
Pipeline == INSTANCE RealmPipeline WITH
    ProposedTypes <- {e.type : e \in KnownEvents},
    MaxCrashes <- 0, mode <- "live", cursor <- 0, ceremony <- None, crashes <- 0

NoParallelWritePath == Pipeline!Spec

IsPrefixOf(h, log) == Len(h) <= Len(log) /\ h = SubSeq(log, 1, Len(h))

\* What the receiver shares with the source: all of its log, or all but the last event.
SharedHistory ==
    IF IsPrefixOf(event_log, source_log) THEN event_log ELSE SubSeq(event_log, 1, Len(event_log) - 1)

Replica == INSTANCE PrefixReplication WITH
    Entries <- LogEntry, source <- source_log, replica <- SharedHistory

\* The event the histories part with is the source's event at that place, with another
\* signer or of another type that its payload fits.
PartsByAMisreading ==
    ~ IsPrefixOf(event_log, source_log) =>
        LET n == Len(event_log)
        IN  /\ n <= Len(source_log)
            /\ event_log[n].event \in Misreadings[source_log[n].event]

\* Without foreign or local writers the receiver is a replica of the source: damaged,
\* repeated, early and late batches never make the two histories differ, but for one
\* event, whose envelope was damaged under a good hash.  Nothing follows such an event.
TracksSource == Replica!Spec /\ []PartsByAMisreading

\* A batch is applied as a prefix of itself, on the history it starts from: the ids the
\* receiver computes are the ones the batch came with, but for the event applied last,
\* whose envelope may say something else than the fields the hash covers.
HashContinuity ==
    receiving # None =>
        LET b == receiving.batch
            n == receiving.done
        IN  /\ event_log = IF n = 0 THEN b.previous ELSE ExecutedHash(b.events[n])
            /\ \A k \in 1 .. n - 1 : b.events[k].executed = b.events[k].entry

\* Every id an answer calls accepted is in the log, and a batch or command answered
\* ok has every event of its own there, as it was executed and where it was to be, also
\* when the answer is repeated from the store and after other writers moved the head.
AnswersAreTrue ==
    \A a \in answers :
        /\ \A h \in a.accepted : IsPrefixOf(h, event_log)
        /\ a.ok => IF a.request \in Batch
                   THEN a.accepted = {ExecutedHash(a.request.events[k]) :
                                         k \in DOMAIN a.request.events}
                   ELSE \E i \in DOMAIN event_log :
                           /\ event_log[i] = [event    |-> a.request.command.event,
                                              sequence |-> a.request.command.sequence]
                           /\ a.accepted = {SubSeq(event_log, 1, i)}

\* "received batch + local previous head = continuous history. Otherwise:
\* TRANSPORT_HISTORY_GAP" (docs/architecture/realm-replication-transport-adr-0075.md):
\* a batch answered ok reaches, in the receiver's log, the head it announces.  The
\* code answers from the store without looking at the chain: a batch whose last
\* event was refused, and then got lost in a second delivery, is answered ok.
OkMeansHeadReached ==
    \A a \in answers : (a.ok /\ a.request \in Batch) => IsPrefixOf(a.request.head, event_log)

\* "Same command_id, same result, no duplicate event": a request answered ok is
\* answered the same however often it is sent again, until the store is lost.
RetriesAreAnsweredAlike ==
    [][restarts' = restarts => \A a \in answers : a.ok => a \in answers']_vars

\* A refusal stays recorded for good.  For a transported event that is right: where
\* its history ends at the receiver's head, the receiver would refuse it again, as its
\* envelope states it.
RefusalsStand ==
    \A r \in executions :
        (r.accepted = {} /\ r.id \notin CommandIds)
            => ~ (/\ r.intent.event.previous = event_log
                  /\ Accepts(r.intent.event.executed, event_log))

\* The source's history is locked out by damaged envelopes only: while the receiver holds
\* a part of it, the next event is acceptable, and a record of the store that answers in
\* its place is of a copy whose envelope said something else.  A delivery id under which
\* no such copy came gets the event in.
ReplicaCanCatchUp ==
    (/\ Len(event_log) < Len(source_log)
     /\ event_log = SubSeq(source_log, 1, Len(event_log)))
        => LET next == SubSeq(source_log, 1, Len(event_log) + 1)
           IN  /\ Accepts(next[Len(next)], event_log)
               /\ \A r \in executions :
                     (r.id \notin CommandIds /\ r.id[2] = next)
                        => r.intent.event.executed # r.intent.event.entry

=============================================================================
