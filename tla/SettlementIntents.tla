--------------------------- MODULE SettlementIntents ---------------------------
(***************************************************************************)
(* The lifecycle of cross-chain intents (settlement/intent-resolution.js), *)
(* the routes that open and reject them, the sweep that expires them every *)
(* five minutes, and the stream of settlement events (event-bus.js) that   *)
(* tells clients and peers about it.                                       *)
(*                                                                         *)
(* An intent's id is a hash of what was asked for and of a nonce: the hour *)
(* for a deposit, the account's nonce for a withdrawal, which is the same  *)
(* for ever.  The model keeps the hash's input as the id.  A tick of the   *)
(* clock is an hour.                                                       *)
(***************************************************************************)
EXTENDS Integers, Sequences, FiniteSets, SequencesExt, Keyed

CONSTANTS
    Wishes,     \* an account, a network, an asset and, of a withdrawal, an amount
    Covered,    \* the withdrawals that the account's balance covers
    TTL,        \* hours until an intent expires (INTENT_TTL_MS)
    RingSize,   \* events the stream keeps (1000)
    MaxHours    \* bound: the last hour of the clock

SettlementAssumption ==
    /\ Covered \subseteq Wishes
    /\ TTL \in Nat
    /\ RingSize \in Nat \ {0}
    /\ MaxHours \in Nat

VARIABLES
    hour,       \* the wall clock
    intents,    \* ledger.intent_registry: the intents that exist, by id
    stream,     \* ledger.settlement_events, oldest first
    sent        \* the events broadcast to the peers

settlementVars == <<hour, intents, stream, sent>>

Kinds == {"deposit", "withdrawal"}
Ids == [kind : Kinds, wish : Wishes, nonce : 0..MaxHours]
Open == {"PENDING", "OBSERVING"}
Closed == {"FULFILLED", "REJECTED", "EXPIRED"}
Events == {"CREATED", "OBSERVED", "FULFILLED", "REJECTED", "EXPIRED"}

\* What an emitted event tells: its type and the state the intent is in.
Event(type, id, state) == [type |-> type, id |-> id, state |-> state]

\* Slip: the ring is cut before the new event is pushed.
RingCutTooEarly(events) ==
    SubSeq(events, IF Len(events) > RingSize + 1 THEN Len(events) - RingSize ELSE 1,
           Len(events))

\* The ring of the last RingSize events.
Ring(events) ==
    SubSeq(events, IF Len(events) > RingSize THEN Len(events) - RingSize + 1 ELSE 1,
           Len(events))

\* Only the events that settle an intent go to the peers.
Broadcast == {"FULFILLED", "REJECTED"}

\* SettlementEventBus.emit, for the events in this order.
Emit(events) ==
    /\ stream' = Ring(stream \o events)
    /\ sent' = sent \cup {e \in ToSet(events) : e.type \in Broadcast}

Init ==
    /\ hour = 0
    /\ intents = <<>>
    /\ stream = <<>>
    /\ sent = {}

\* POST /api/intents/deposit and /withdraw: idempotent for one id, whatever has
\* become of the intent since.
CreateIntent(id) ==
    /\ id.nonce = (IF id.kind = "deposit" THEN hour ELSE 0)
    /\ id.kind = "withdrawal" => id.wish \in Covered
    /\ IF id \in DOMAIN intents
       THEN UNCHANGED <<intents, stream, sent>>
       ELSE /\ intents' = Put(intents, id, [state |-> "PENDING", expires |-> hour + TTL])
            /\ Emit(<<Event("CREATED", id, "PENDING")>>)
    /\ UNCHANGED hour

\* observe: a first observation starts the watch; one of a closed intent is told
\* as well (the observations themselves are not kept here).
Observe(id) ==
    /\ id \in DOMAIN intents
    /\ LET state == IF intents[id].state = "PENDING" THEN "OBSERVING" ELSE intents[id].state
       IN  /\ intents' = [intents EXCEPT ![id].state = state]
           /\ Emit(<<Event("OBSERVED", id, state)>>)
    /\ UNCHANGED hour

Overdue(id) == hour > intents[id].expires

\* fulfill: a late call finds the intent expired, says so in the record and
\* throws, without an event.
Fulfill(id) ==
    /\ id \in DOMAIN intents
    /\ intents[id].state \notin {"FULFILLED", "REJECTED"}
    /\ IF Overdue(id)
       THEN /\ intents' = [intents EXCEPT ![id].state = "EXPIRED"]
            /\ UNCHANGED <<stream, sent>>
       ELSE /\ intents' = [intents EXCEPT ![id].state = "FULFILLED"]
            /\ Emit(<<Event("FULFILLED", id, "FULFILLED")>>)
    /\ UNCHANGED hour

\* Slip: only a second rejection is refused.
RejectUnlessRejected(id) ==
    /\ id \in DOMAIN intents
    /\ intents[id].state # "REJECTED"
    /\ intents' = [intents EXCEPT ![id].state = "REJECTED"]
    /\ Emit(<<Event("REJECTED", id, "REJECTED")>>)
    /\ UNCHANGED hour

\* POST /api/intents/:intent_id/reject: also of an intent that has expired.
Reject(id) ==
    /\ id \in DOMAIN intents
    /\ intents[id].state \notin {"FULFILLED", "REJECTED"}
    /\ intents' = [intents EXCEPT ![id].state = "REJECTED"]
    /\ Emit(<<Event("REJECTED", id, "REJECTED")>>)
    /\ UNCHANGED hour

\* Slip: the sweep looks at the intents nobody has seen on their network only.
StaleUnlessObserved ==
    {id \in DOMAIN intents : intents[id].state = "PENDING" /\ Overdue(id)}

Stale == {id \in DOMAIN intents : intents[id].state \in Open /\ Overdue(id)}

\* expireStale, from the interval: all that are overdue, in registry order.
ExpireStale ==
    /\ Stale # {}
    /\ intents' = [id \in DOMAIN intents |->
                      IF id \in Stale THEN [intents[id] EXCEPT !.state = "EXPIRED"]
                      ELSE intents[id]]
    /\ Emit([i \in 1..Cardinality(Stale) |->
                Event("EXPIRED", SetToSeq(Stale)[i], "EXPIRED")])
    /\ UNCHANGED hour

\* POST /api/network/settlement-event: a peer's event joins the stream, as often
\* as it is sent, and is not passed on.
ReceiveSettlementEvent(e) ==
    /\ stream' = Ring(Append(stream, e))
    /\ UNCHANGED <<hour, intents, sent>>

\* What peers send: the settlement of an intent of this node or of theirs.
PeerEvents ==
    {Event(type, [kind |-> "deposit", wish |-> w, nonce |-> 0], type) :
        type \in Broadcast, w \in Wishes}

Tick ==
    /\ hour < MaxHours
    /\ hour' = hour + 1
    /\ UNCHANGED <<intents, stream, sent>>

Next ==
    \/ \E id \in Ids : CreateIntent(id)
    \/ \E id \in DOMAIN intents : Observe(id) \/ Fulfill(id) \/ Reject(id)
    \/ ExpireStale
    \/ \E e \in PeerEvents : ReceiveSettlementEvent(e)
    \/ Tick

\* The interval keeps firing.  That time passes is not needed once an intent is overdue.
Fairness == WF_settlementVars(ExpireStale)

Spec == Init /\ [][Next]_settlementVars /\ Fairness

-----------------------------------------------------------------------------

TypeOK ==
    /\ hour \in 0..MaxHours
    /\ DOMAIN intents \subseteq Ids
    /\ \A id \in DOMAIN intents :
          intents[id] \in [state : Open \cup Closed, expires : Nat]
    /\ Len(stream) <= RingSize
    /\ \A i \in DOMAIN stream : stream[i].type \in Events /\ stream[i].id \in Ids

\* A verdict is the last thing that happens to an intent, whoever comes late (a
\* sweep, an observation, a retry of the request that opened it): what the peers
\* were told of an intent is what it is, so they never hear two verdicts.
VerdictsAreFinal ==
    \A e \in sent : e.id \in DOMAIN intents /\ intents[e.id].state = e.state

\* An intent whose time is up does not stay open, whether it was observed, and whatever
\* else arrives: there comes a moment at which no overdue intent is open.
OverdueIntentsClose ==
    LET Late == {id \in DOMAIN intents : Overdue(id) /\ intents[id].state \in Open}
    IN  Late # {} ~> Late = {}

=============================================================================
