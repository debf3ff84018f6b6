----------------------------- MODULE IdentityEvents -----------------------------
(***************************************************************************)
(* One identity on several nodes: the events that give it its keys, how    *)
(* applyEvent in server.js applies and logs them, how a node sends some of *)
(* them to its peers, once and without an answer, and how a boot replays   *)
(* the log.                                                                *)
(*                                                                         *)
(* A key stands for a passkey with its credential and address, or for an   *)
(* address that was proposed or bootstrapped alone; of an account only its *)
(* keys are kept.  The roots and files that a boot compares are those of   *)
(* RealmLedgerStore and left out here.  Of a registration, an enrollment   *)
(* or a pairing only the event it ends with is here; ConnectRegistration   *)
(* and ConnectProofs have the rest.                                        *)
(***************************************************************************)
EXTENDS Integers, Sequences, FiniteSets, SequencesExt

CONSTANTS
    Nodes,
    Keys,
    Primary,        \* the passkey of the registration
    MaxEvents       \* bound: events of a run

IdentityAssumption == Primary \in Keys /\ MaxEvents \in Nat

VARIABLES
    log,        \* ledger.event_log of each node
    identity,   \* the account and the proposals of each node
    restored,   \* nodes whose account was rebuilt from a capsule since their boot
    running,    \* nodes that are up; a boot that throws leaves its node down
    mail,       \* events under way to a peer
    made        \* how many events there have been, the id of the last

identityVars == <<log, identity, restored, running, mail, made>>

Types == {"GENESIS", "PASSKEY_ADDED", "PASSKEY_REVOKED", "NATIVE_CONTROLLER_BOOTSTRAPPED",
          "CONTROLLER_BINDING_PROPOSED", "CONTROLLER_BINDING_APPROVED"}

\* Of an approval, the proposal it names.
Event(type, key, proposal) ==
    [id |-> made + 1, type |-> type, key |-> key, proposal |-> proposal]

NoIdentity == [known |-> FALSE, keys |-> [k \in Keys |-> "absent"], proposals |-> {}]

\* The keys an account is made with.
OnlyKey(key) == [k \in Keys |-> IF k = key THEN "active" ELSE "absent"]

Init ==
    /\ log = [n \in Nodes |-> <<>>]
    /\ identity = [n \in Nodes |-> NoIdentity]
    /\ restored = {}
    /\ running = Nodes
    /\ mail = {}
    /\ made = 0

\* The cases of applyEvent that throw: the account they name must be there.
Throws(s, e) == e.type \in {"PASSKEY_ADDED", "PASSKEY_REVOKED"} /\ ~ s.known

Activated(s, key) == [s EXCEPT !.keys[key] = "active"]

\* What applyEvent does to the identity: a GENESIS replaces an account that is there,
\* an approval of a proposal that is not known does nothing, and neither does one for an
\* account that is not there, though the proposal is then approved.
After(s, e) ==
    CASE e.type = "GENESIS" -> [s EXCEPT !.known = TRUE, !.keys = OnlyKey(e.key)]
      [] e.type = "PASSKEY_ADDED" -> Activated(s, e.key)
      [] e.type = "PASSKEY_REVOKED" ->
            [s EXCEPT !.keys[e.key] = IF @ = "absent" THEN @ ELSE "revoked"]
      [] e.type = "NATIVE_CONTROLLER_BOOTSTRAPPED" -> [Activated(s, e.key) EXCEPT !.known = TRUE]
      [] e.type = "CONTROLLER_BINDING_PROPOSED" ->
            [s EXCEPT !.proposals = @ \cup {[id |-> e.id, key |-> e.key]}]
      [] e.type = "CONTROLLER_BINDING_APPROVED" ->
            IF s.known /\ \E p \in s.proposals : p.id = e.proposal
            THEN Activated(s, e.key) ELSE s

\* The replay of a log at boot: where it ends, and whether nothing threw.
Replay(events) ==
    FoldLeft(LAMBDA r, e : [ok |-> r.ok /\ ~ Throws(r.state, e), state |-> After(r.state, e)],
             [ok |-> TRUE, state |-> NoIdentity], events)

\* applyEvent of a live node: the identity first, then the log.
ApplyAndLog(n, e) ==
    /\ ~ Throws(identity[n], e)
    /\ identity' = [identity EXCEPT ![n] = After(@, e)]
    /\ log' = [log EXCEPT ![n] = Append(@, e)]

\* An event that a route of n makes, and sends to the peers or keeps to itself.
Make(n, e, peers) ==
    /\ n \in running /\ made < MaxEvents
    /\ ApplyAndLog(n, e)
    /\ made' = made + 1
    /\ mail' = mail \cup {[to |-> m, event |-> e] : m \in peers}
    /\ UNCHANGED <<restored, running>>

Peers(n) == Nodes \ {n}
Active(n) == {k \in Keys : identity[n].keys[k] = "active"}

\* Registration: an address is new, so there is one GENESIS of it at most.
Register(n) == made = 0 /\ Make(n, Event("GENESIS", Primary, 0), Peers(n))

\* Enrollment of a passkey that has no account here, which a revoked one has not.
AddPasskey(n, k) ==
    /\ identity[n].known /\ k \notin Active(n)
    /\ Make(n, Event("PASSKEY_ADDED", k, 0), Peers(n))

RevokePasskey(n, k) ==
    /\ k \in Active(n) /\ Cardinality(Active(n)) > 1
    /\ Make(n, Event("PASSKEY_REVOKED", k, 0), Peers(n))

\* POST native/bootstrap: also creates the account, when the request asks for that.
BootstrapNative(n, k) ==
    /\ k \notin Active(n)
    /\ Make(n, Event("NATIVE_CONTROLLER_BOOTSTRAPPED", k, 0), {})

\* device-pairings/:id/registration/complete
ProposeBinding(n, k) ==
    /\ identity[n].known /\ k \notin Active(n)
    /\ Make(n, Event("CONTROLLER_BINDING_PROPOSED", k, 0), Peers(n))

\* POST controller-bindings/proposals: any key, one that is active too, and told to nobody.
ProposeKey(n, k) ==
    /\ identity[n].known
    /\ Make(n, Event("CONTROLLER_BINDING_PROPOSED", k, 0), {})

\* controller-bindings/proposals/:id/approve: of any proposal, as often as asked, and
\* told to nobody.
ApproveBinding(n, p) ==
    /\ identity[n].known
    /\ Make(n, Event("CONTROLLER_BINDING_APPROVED", p.key, p.id), {})

\* rememberVerifiedCapsuleOwner: an account without an event, from a browser's capsule.
RestoreFromCapsule(n, k) ==
    /\ n \in running /\ made > 0 /\ ~ identity[n].known
    /\ \E m \in Nodes : identity[m].keys[k] # "absent"
    /\ identity' = [identity EXCEPT ![n].known = TRUE, ![n].keys = OnlyKey(k)]
    /\ restored' = restored \cup {n}
    /\ UNCHANGED <<log, running, mail, made>>

IsLogged(n, e) == e \in ToSet(log[n])

\* Slip: the event is logged, then applied.
LogAndApply(m) ==
    /\ mail' = mail \ {m}
    /\ log' = [log EXCEPT ![m.to] = IF IsLogged(m.to, m.event) THEN @ ELSE Append(@, m.event)]
    /\ identity' = [identity EXCEPT ![m.to] =
                      IF IsLogged(m.to, m.event) \/ Throws(@, m.event) THEN @
                      ELSE After(@, m.event)]

\* POST /api/network/broadcast: what throws is neither logged nor sent again.
Receive(m) ==
    /\ mail' = mail \ {m}
    /\ IF IsLogged(m.to, m.event) \/ Throws(identity[m.to], m.event)
       THEN UNCHANGED <<log, identity>>
       ELSE ApplyAndLog(m.to, m.event)

Deliver(m) ==
    /\ m.to \in running
    /\ Receive(m)
    /\ UNCHANGED <<restored, running, made>>

\* The peer is down or cannot be reached.
Lose(m) ==
    /\ mail' = mail \ {m}
    /\ UNCHANGED <<log, identity, restored, running, made>>

\* The process ends and boots from its log; events are written when they are logged.
Reboot(n) ==
    /\ n \in running
    /\ IF Replay(log[n]).ok
       THEN /\ identity' = [identity EXCEPT ![n] = Replay(log[n]).state]
            /\ restored' = restored \ {n}
            /\ UNCHANGED running
       ELSE running' = running \ {n} /\ UNCHANGED <<identity, restored>>
    /\ UNCHANGED <<log, mail, made>>

Next ==
    \/ \E n \in Nodes :
          \/ Register(n)
          \/ \E k \in Keys :
                \/ AddPasskey(n, k) \/ RevokePasskey(n, k) \/ BootstrapNative(n, k)
                \/ ProposeBinding(n, k) \/ ProposeKey(n, k) \/ RestoreFromCapsule(n, k)
          \/ \E p \in identity[n].proposals : ApproveBinding(n, p)
          \/ Reboot(n)
    \/ \E m \in mail : Deliver(m) \/ Lose(m)

Spec == Init /\ [][Next]_identityVars

-----------------------------------------------------------------------------

TypeOK ==
    /\ made \in 0..MaxEvents
    /\ restored \subseteq Nodes /\ running \subseteq Nodes
    /\ \A n \in Nodes :
          /\ identity[n].known \in BOOLEAN
          /\ identity[n].keys \in [Keys -> {"absent", "active", "revoked"}]
          /\ \A p \in identity[n].proposals : p.id \in 1..made /\ p.key \in Keys
          /\ \A i \in DOMAIN log[n] : log[n][i].type \in Types /\ log[n][i].id \in 1..made
    /\ \A m \in mail : m.to \in Nodes /\ m.event.id \in 1..made

\* What a node has logged, from its own routes or from peers, in whatever order and
\* with whatever lost, can be replayed and gives the keys the node had: only an account
\* that was rebuilt from a capsule, which no event tells, keeps a node from booting or
\* changes when it does.
LogsReplay ==
    /\ \A n \in Nodes \ restored :
          n \in running /\ Replay(log[n]) = [ok |-> TRUE, state |-> identity[n]]
    /\ \A n \in Nodes, i, j \in 1..MaxEvents :
          (i \in DOMAIN log[n] /\ j \in DOMAIN log[n] /\ log[n][i].id = log[n][j].id) => i = j

=============================================================================
