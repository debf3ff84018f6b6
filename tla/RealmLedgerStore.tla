--------------------------- MODULE RealmLedgerStore ---------------------------
(***************************************************************************)
(* How a node keeps its ledger on disk and gets it back.  applyEvent       *)
(* changes the accounts, appends the event to the log in memory, computes  *)
(* the state root and writes files one after the other; start reads them,  *)
(* replays the log and refuses to run when the saved root is not the       *)
(* replayed one.  A crash may come between two writes or in the middle of  *)
(* one.  The root also changes without an event: by the administrator a    *)
(* boot adds, owners remembered from a capsule, and an amendment of the    *)
(* constitution, a file of its own whose epoch every boot counts from 0.   *)
(*                                                                         *)
(* The file backend keeps everything in ledger_db.json.  The replicated    *)
(* one appends events to realm_event_log.jsonl and writes                  *)
(* realm_snapshot.json and ledger_db.json beside it; a standby copies the  *)
(* first two.  The node is single-threaded and writes synchronously: only  *)
(* a crash or the standby's copying comes between two writes.              *)
(*                                                                         *)
(* A state root is a hash of every account's balance and nonce, of the     *)
(* constitution and its epoch: it is represented by what it covers.  Nonces *)
(* stay 0; a constitution is the number of its amendments.                 *)
(***************************************************************************)
EXTENDS Naturals, SequencesExt, FiniteSets

CONSTANTS
    Backends,       \* the storage backends: "file", "replicated"
    Registrants,    \* accounts that register with the node
    CapsuleOwners,  \* accounts a capsule may bring in
    Admin,          \* the account a boot adds
    InitialLedgers, \* what ledger_db.json may hold at the start, None included
    None,           \* no file, no value
    Torn,           \* a file whose write was cut short
    MaxEvents,      \* bound on the length of the log
    MaxEpoch,       \* bound on the constitutional epoch
    MaxBoots        \* bound on the boots

ASSUME StoreAssumption ==
    /\ Backends \subseteq {"file", "replicated"}
    /\ MaxEvents \in Nat /\ MaxEpoch \in Nat /\ MaxBoots \in Nat

\* The administrator's address is a hash of a label, a registrant's one of its key.
ASSUME NamesAssumption ==
    /\ IsFiniteSet(Registrants \cup CapsuleOwners)
    /\ Admin \notin Registrants

VARIABLES
    backend,       \* SL1_LEDGER_BACKEND
    log_file,      \* the lines of realm_event_log.jsonl; Torn stands for half a line
    snapshot,      \* realm_snapshot.json
    ledger_db,     \* ledger_db.json
    constitution,  \* constitution.json
    mode,          \* "down", "live" or "refused"
    ledger,        \* the node's memory: event_log, accounts, state_root, law
    writes,        \* the file writes the node has yet to do
    request,       \* the event it will answer when they are done, or None
    standby,       \* a standby node: its copies, its memory
    boots,         \* boots so far
    answered,      \* history variable: the events answered, in order
    mishaps        \* history variable: what has gone wrong since the last good boot

disk == <<log_file, snapshot, ledger_db, constitution>>
node == <<mode, ledger, writes, request>>
history == <<answered, mishaps>>
vars == <<backend, disk, node, standby, boots, history>>

Names == Registrants \cup CapsuleOwners \cup {Admin}

\* The fields of an account that the root, the backfill and the repair look at.
Account == [balance: {0, 1000, 5000}, credential: BOOLEAN]

Accounts == UNION {[S -> Account] : S \in SUBSET Names}

\* Only an account without a credential is admitted without a registration.
Event == [type: {"SYSTEM_GENESIS"}]
    \cup [type: {"GENESIS"}, account: Names, backfilled: BOOLEAN]
    \cup [type: {"PASSKEY_ADDED"}, account: Names]
    \cup [type: {"ACCOUNT_PROVENANCE_ADMISSION"}, account: Names,
          state: {record \in Account : ~ record.credential}]

Genesis(a) == [type |-> "GENESIS", account |-> a, backfilled |-> FALSE]
Passkey(a) == [type |-> "PASSKEY_ADDED", account |-> a]
SystemGenesis == [type |-> "SYSTEM_GENESIS"]
NoAccounts == [a \in {} |-> [balance |-> 0, credential |-> FALSE]]

\* The constitution in force and its epoch: ledger.governance as the root reads it.
Law == [root: Nat, epoch: Nat]

StateRoot(accounts, law) ==
    [balances |-> [a \in DOMAIN accounts |-> accounts[a].balance], law |-> law]

Root == [balances: UNION {[S -> {0, 1000, 5000}] : S \in SUBSET Names}, law: Law]

Ledger == [event_log: Seq(Event), accounts: Accounts, state_root: Root \cup {None}, law: Law]

Snapshot == [accounts: Accounts, state_root: Root]

FileWrite == [file: {"log"}, content: Event]
    \cup [file: {"snapshot"}, content: Snapshot]
    \cup [file: {"ledger_db"}, content: Ledger]
    \cup [file: {"constitution"}, content: Nat]

\* No log holds an event twice (a request with a known event is answered without a change).
ASSUME LedgersAssumption ==
    /\ InitialLedgers \subseteq Ledger \cup {None}
    /\ \A db \in InitialLedgers \ {None} : \A i, j \in DOMAIN db.event_log :
          db.event_log[i] = db.event_log[j] => i = j
    /\ \A v \in {None, Torn} : v \notin Event /\ v \notin Ledger /\ v \notin Snapshot
                              /\ v \notin Root /\ v \notin Nat

-----------------------------------------------------------------------------
(* applyEvent on the accounts.                                                *)

With(accounts, a, record) ==
    [x \in DOMAIN accounts \cup {a} |-> IF x = a THEN record ELSE accounts[x]]

ApplyEvent(accounts, e) ==
    CASE e.type = "GENESIS" ->
            With(accounts, e.account, [balance |-> 1000, credential |-> TRUE])
      [] e.type = "ACCOUNT_PROVENANCE_ADMISSION" /\ e.account \notin DOMAIN accounts ->
            With(accounts, e.account, e.state)
      [] OTHER -> accounts

\* PASSKEY_ADDED throws when its account does not exist.
Applies(accounts, e) == e.type = "PASSKEY_ADDED" => e.account \in DOMAIN accounts

Replay(log) == FoldLeft(ApplyEvent, NoAccounts, log)

Replayable(log) == \A i \in DOMAIN log : Applies(Replay(SubSeq(log, 1, i - 1)), log[i])

-----------------------------------------------------------------------------
(* Reading the files: loadBootstrap and the start of start.                   *)

\* readJsonFile: a file that cannot be parsed is a file that does not exist.
Readable(file, fallback) == IF file \in {None, Torn} THEN fallback ELSE file

NoLedger == [event_log |-> <<>>, accounts |-> NoAccounts, state_root |-> None]

Bootstrap(log, saved, db) ==
    LET legacy == Readable(db, NoLedger)
        latest == Readable(saved, [accounts |-> NoAccounts, state_root |-> None])
    IN  CASE backend = "file" ->
               [event_log |-> legacy.event_log, accounts |-> legacy.accounts,
                state_root |-> legacy.state_root, migrated |-> FALSE]
          [] backend = "replicated" /\ log # <<>> ->
               [event_log |-> log, accounts |-> latest.accounts,
                state_root |-> latest.state_root, migrated |-> FALSE]
          [] OTHER ->
               IF legacy.event_log # <<>>
               THEN [event_log |-> legacy.event_log, accounts |-> legacy.accounts,
                     state_root |-> legacy.state_root, migrated |-> TRUE]
               ELSE [event_log |-> <<>>, accounts |-> NoAccounts, state_root |-> None,
                     migrated |-> FALSE]

Known(log) == {log[i].account : i \in {j \in DOMAIN log : log[j].type = "GENESIS"}}

Admitted(log) ==
    {log[i].account : i \in {j \in DOMAIN log : log[j].type = "ACCOUNT_PROVENANCE_ADMISSION"}}

\* The log a boot replays: an empty one begins with genesis.json, and accounts of the
\* file whose credential no event knows are backfilled at its end.
History(b) ==
    LET log    == IF b.event_log = <<>> THEN <<SystemGenesis>> ELSE b.event_log
        legacy == {a \in DOMAIN b.accounts : b.accounts[a].credential /\ a \notin Known(log)}
        Backfilled(a) == [type |-> "GENESIS", account |-> a, backfilled |-> TRUE]
    IN  log \o SetToSeq({Backfilled(a) : a \in legacy})

\* Slip: the accounts are the saved ones.
BootedAccountsSaved(b) == b.accounts

BootedAccounts(b) == Replay(History(b))

WithAdmin(accounts) ==
    IF Admin \in DOMAIN accounts THEN accounts
    ELSE With(accounts, Admin, [balance |-> 5000, credential |-> FALSE])

\* The governance engine reads the constitution when the process starts, and nothing
\* restores its epoch.
BootLaw(c) == [root |-> c, epoch |-> 0]

\* Slip: the root is compared after the administrator was added.
BootsWithAdmin(b, c) ==
    /\ c # Torn
    /\ Torn \notin Range(b.event_log)
    /\ Replayable(History(b))
    /\ b.state_root \in {None, StateRoot(WithAdmin(BootedAccounts(b)), BootLaw(c))}

\* The boot comes up: the constitution and every line of the log can be read, every
\* event applied, and the replayed root is the saved one.
Boots(b, c) ==
    /\ c # Torn
    /\ Torn \notin Range(b.event_log)
    /\ Replayable(History(b))
    /\ b.state_root \in {None, StateRoot(BootedAccounts(b), BootLaw(c))}

\* The ledger a node starts with was saved under the root its log gives.
ASSUME FirstBootAssumption ==
    \A db \in InitialLedgers \ {None} :
       /\ Replayable(History(db))
       /\ db.state_root = StateRoot(BootedAccounts(db), BootLaw(0))

-----------------------------------------------------------------------------
(* The node.                                                                  *)

EmptyLedger == [event_log |-> <<>>, accounts |-> NoAccounts, state_root |-> None,
                law |-> BootLaw(0)]

Init ==
    /\ backend \in Backends
    /\ log_file = <<>>
    /\ snapshot = None
    /\ ledger_db \in InitialLedgers
    /\ constitution = 0
    /\ mode = "down"
    /\ ledger = EmptyLedger
    /\ writes = <<>>
    /\ request = None
    /\ standby = [mode |-> "down", log |-> <<>>, snapshot |-> None, accounts |-> NoAccounts]
    /\ boots = 0
    /\ answered = Readable(ledger_db, EmptyLedger).event_log
    /\ mishaps = {}

LineWrite(e) == [file |-> "log", content |-> e]

RecordEvent(e) == IF backend = "replicated" THEN <<LineWrite(e)>> ELSE <<>>

SaveSnapshot(l) ==
    LET full == [file |-> "ledger_db", content |-> l]
        brief == [file |-> "snapshot",
                  content |-> [accounts |-> l.accounts, state_root |-> l.state_root]]
    IN  IF backend = "replicated" THEN <<brief, full>> ELSE <<full>>

\* A boot replays the log and compares roots; it adds the administrator, and writes
\* the log file when the events came from the older ledger_db.json.
Boot ==
    /\ mode = "down"
    /\ boots < MaxBoots
    /\ boots' = boots + 1
    /\ LET b   == Bootstrap(log_file, snapshot, ledger_db)
           log == History(b)
       IN  IF Boots(b, constitution)
           THEN /\ mode' = "live"
                /\ ledger' = [event_log  |-> log,
                              accounts   |-> WithAdmin(BootedAccounts(b)),
                              state_root |-> StateRoot(BootedAccounts(b), BootLaw(constitution)),
                              law        |-> BootLaw(constitution)]
                /\ writes' = IF b.migrated THEN [i \in DOMAIN log |-> LineWrite(log[i])]
                             ELSE <<>>
                /\ mishaps' = IF b.migrated THEN mishaps
                              ELSE mishaps \ {"untold root", "amendment", "interrupted save"}
           ELSE /\ mode' = "refused"
                /\ UNCHANGED <<ledger, writes, mishaps>>
    /\ UNCHANGED <<backend, disk, request, standby, answered>>

Serving == mode = "live" /\ writes = <<>>

\* A root that covers what a replay of the log does not give.
Untold(l) ==
    IF l.state_root.balances = StateRoot(Replay(l.event_log), l.law).balances THEN {}
    ELSE {"untold root"}

Save(l, before) ==
    /\ ledger' = l
    /\ writes' = before \o SaveSnapshot(l)
    /\ mishaps' = mishaps \cup Untold(l)
                   \cup (IF l.law = ledger.law THEN {} ELSE {"amendment"})
    /\ UNCHANGED <<backend, disk, mode, standby, boots, answered>>

Rooted(log, accounts, law) ==
    [event_log |-> log, accounts |-> accounts, state_root |-> StateRoot(accounts, law),
     law |-> law]

\* Slip: only ledger_db.json is written.
ApplyRequestUnrecorded(e) ==
    /\ Serving
    /\ Len(ledger.event_log) < MaxEvents
    /\ e \notin Range(ledger.event_log)
    /\ Applies(ledger.accounts, e)
    /\ request' = e
    /\ Save(Rooted(Append(ledger.event_log, e), ApplyEvent(ledger.accounts, e), ledger.law),
            <<>>)

\* applyEvent on a new event.  An event it cannot apply throws before any change.
ApplyRequest(e) ==
    /\ Serving
    /\ Len(ledger.event_log) < MaxEvents
    /\ e \notin Range(ledger.event_log)
    /\ Applies(ledger.accounts, e)
    /\ request' = e
    /\ Save(Rooted(Append(ledger.event_log, e), ApplyEvent(ledger.accounts, e), ledger.law),
            RecordEvent(e))

Request ==
    \/ \E a \in Registrants : ApplyRequest(Genesis(a))
    \/ \E a \in Registrants \cup CapsuleOwners : ApplyRequest(Passkey(a))

\* rememberVerifiedCapsuleOwner.
Remember ==
    /\ Serving
    /\ \E a \in CapsuleOwners \ DOMAIN ledger.accounts :
          LET owner == [balance |-> 0, credential |-> FALSE]
          IN  Save(Rooted(ledger.event_log, With(ledger.accounts, a, owner), ledger.law), <<>>)
    /\ UNCHANGED request

\* A vote that ratifies enacts: the constitution is written, then the ledger with its
\* new epoch under the old root.  The route that collects votes saves again under the
\* new root; the route of a single vote does not.
Amend ==
    /\ Serving
    /\ ledger.law.epoch < MaxEpoch
    /\ LET law     == [root |-> ledger.law.root + 1, epoch |-> ledger.law.epoch + 1]
           enacted == [ledger EXCEPT !.law = law]
           amended == [file |-> "constitution", content |-> law.root]
       IN  \/ Save(enacted, <<amended>>)
           \/ Save(Rooted(ledger.event_log, ledger.accounts, law),
                   <<amended>> \o SaveSnapshot(enacted))
    /\ UNCHANGED request

\* Governance and federation save the ledger without an event and without a new root.
SaveOnly ==
    /\ Serving
    /\ Save(ledger, <<>>)
    /\ UNCHANGED request

\* One file write; the request is answered after the last one.
Write ==
    /\ writes # <<>>
    /\ LET w == Head(writes)
       IN  /\ log_file' = IF w.file = "log" THEN Append(log_file, w.content) ELSE log_file
           /\ snapshot' = IF w.file = "snapshot" THEN w.content ELSE snapshot
           /\ ledger_db' = IF w.file = "ledger_db" THEN w.content ELSE ledger_db
           /\ constitution' = IF w.file = "constitution" THEN w.content ELSE constitution
    /\ writes' = Tail(writes)
    /\ IF Len(writes) = 1 /\ request # None
       THEN answered' = Append(answered, request) /\ request' = None
       ELSE UNCHANGED <<answered, request>>
    /\ UNCHANGED <<backend, mode, ledger, standby, boots, mishaps>>

Interruption(torn) ==
    CASE writes = <<>> -> {}
      [] Head(writes).file = "log" /\ request = None -> {"interrupted migration"}
      [] torn /\ Head(writes).file = "ledger_db" -> {"interrupted save", "torn ledger"}
      [] OTHER -> {"interrupted save"}

\* The process stops, at rest, between two writes or in the middle of one: a file is
\* truncated before it is written, a line may be appended in part.
Crash ==
    /\ mode = "live"
    /\ mode' = "down"
    /\ ledger' = EmptyLedger
    /\ writes' = <<>>
    /\ request' = None
    /\ \E torn \in IF writes = <<>> THEN {FALSE} ELSE BOOLEAN :
          LET file == IF torn THEN Head(writes).file ELSE "none"
          IN  /\ log_file' = IF file = "log" THEN Append(log_file, Torn) ELSE log_file
              /\ snapshot' = IF file = "snapshot" THEN Torn ELSE snapshot
              /\ ledger_db' = IF file = "ledger_db" THEN Torn ELSE ledger_db
              /\ constitution' = IF file = "constitution" THEN Torn ELSE constitution
              /\ mishaps' = mishaps \cup Interruption(torn)
    /\ UNCHANGED <<backend, standby, boots, answered>>

-----------------------------------------------------------------------------
(* The operator, while the node is down.                                      *)

\* realm-admit-orphan-accounts: accounts of ledger_db.json without an event that
\* created them get one at the end of the log, if the root stays what it was.
AdmitOrphans ==
    /\ mode \in {"down", "refused"}
    /\ ledger_db \notin {None, Torn}
    /\ LET db       == ledger_db
           orphans  == {a \in DOMAIN db.accounts \ Known(db.event_log) :
                           ~ db.accounts[a].credential}
           Admit(a) == [type |-> "ACCOUNT_PROVENANCE_ADMISSION", account |-> a,
                        state |-> db.accounts[a]]
           admitted == {Admit(a) : a \in orphans \ Admitted(db.event_log)}
       IN  /\ admitted # {}
           /\ db.state_root \in {None, StateRoot(db.accounts, db.law)}
           /\ ledger_db' = [db EXCEPT !.event_log = @ \o SetToSeq(admitted)]
    /\ mode' = "down"
    /\ UNCHANGED <<backend, log_file, snapshot, constitution, ledger, writes, request, standby,
                   boots, history>>

DeleteSnapshot ==
    /\ mode \in {"down", "refused"}
    /\ snapshot # None
    /\ snapshot' = None
    /\ mode' = "down"
    /\ UNCHANGED <<backend, log_file, ledger_db, constitution, ledger, writes, request, standby,
                   boots, history>>

-----------------------------------------------------------------------------
(* A standby of the replicated backend, on another machine, with a            *)
(* constitution.json of its own that nothing amends.                          *)

StandbyCopiesLog ==
    /\ backend = "replicated"
    /\ standby.mode = "down"
    /\ standby' = [standby EXCEPT !.mode = "copying", !.log = log_file]
    /\ UNCHANGED <<backend, disk, node, boots, history>>

\* The snapshot is copied after the log, if there is one, and the standby boots.  (Its
\* copy of the log is not read again: the next boot copies a later one.)
StandbyBoots ==
    /\ standby.mode = "copying"
    /\ LET copied == IF snapshot = None THEN standby.snapshot ELSE snapshot
           b      == Bootstrap(standby.log, copied, None)
       IN  standby' = [standby EXCEPT
               !.log      = <<>>,
               !.snapshot = copied,
               !.mode     = IF Boots(b, 0) THEN "live" ELSE "down",
               !.accounts = IF Boots(b, 0) THEN WithAdmin(BootedAccounts(b)) ELSE NoAccounts]
    /\ UNCHANGED <<backend, disk, node, boots, history>>

\* applyEvent changes the accounts and only then finds that it must not write.
StandbyRequest ==
    /\ standby.mode = "live"
    /\ \E a \in Registrants :
          standby' = [standby EXCEPT !.accounts = ApplyEvent(@, Genesis(a))]
    /\ UNCHANGED <<backend, disk, node, boots, history>>

StandbyStops ==
    /\ standby.mode = "live"
    /\ standby' = [standby EXCEPT !.mode = "down", !.accounts = NoAccounts]
    /\ UNCHANGED <<backend, disk, node, boots, history>>

-----------------------------------------------------------------------------
Next ==
    \/ Boot \/ Request \/ Remember \/ Amend \/ SaveOnly \/ Write \/ Crash
    \/ AdmitOrphans \/ DeleteSnapshot
    \/ StandbyCopiesLog \/ StandbyBoots \/ StandbyRequest \/ StandbyStops

Spec == Init /\ [][Next]_vars

-----------------------------------------------------------------------------
(* Properties.                                                                *)

\* Every variable has the shape the code gives it.
TypeOK ==
    /\ log_file \in Seq(Event \cup {Torn})
    /\ snapshot \in {None, Torn} \/ snapshot \in Snapshot
    /\ ledger_db \in {None, Torn} \/ ledger_db \in Ledger
    /\ constitution \in Nat \cup {Torn}
    /\ mode \in {"down", "live", "refused"}
    /\ ledger \in Ledger
    /\ writes \in Seq(FileWrite)
    /\ writes # <<>> => mode = "live"
    /\ request = None \/ request \in Event
    /\ standby.mode \in {"down", "copying", "live"} /\ standby.accounts \in Accounts
    /\ standby.log \in Seq(Event \cup {Torn})
    /\ standby.snapshot \in {None, Torn} \/ standby.snapshot \in Snapshot
    /\ boots \in 0 .. MaxBoots
    /\ answered \in Seq(Event)
    /\ mishaps \subseteq {"untold root", "amendment", "interrupted save",
                          "interrupted migration", "torn ledger"}

\* The events, each of them once and in this order, are in the log.
Kept(events, log) ==
    /\ Range(events) \subseteq Range(log)
    /\ \A i, j \in DOMAIN events : \A p, q \in DOMAIN log :
          log[p] = events[i] /\ log[q] = events[j] => (i <= j <=> p <= q)

\* "Unacceptable: an identity disappears" (ADR-0063).  Every event the node answered is
\* once in the log it boots with, in the order of the answers, whatever is interrupted or
\* deleted.  Two accidents of the code are excepted: a migration cut short, whose part
\* of the log the next boot takes for the whole, and ledger_db.json cut short in the
\* file backend, which the next boot takes for a ledger that never existed.
AnsweredEventsSurvive ==
    (/\ mode = "live"
     /\ "interrupted migration" \notin mishaps
     /\ backend = "file" => "torn ledger" \notin mishaps)
        => Kept(answered, ledger.event_log)

\* "event_log_is_canonical" (ADR-0063): whatever files the node boots from, the accounts
\* that registered are exactly what a replay of its log gives.
LiveStateIsReplay ==
    mode = "live" =>
        \A a \in Registrants \ CapsuleOwners :
            LET replayed == Replay(ledger.event_log)
            IN  /\ a \in DOMAIN ledger.accounts <=> a \in DOMAIN replayed
                /\ a \in DOMAIN replayed => ledger.accounts[a] = replayed[a]

\* A boot that refuses to run has a cause: a root was saved that covers accounts the log
\* does not tell, the constitution was amended, or, with the replicated backend, a crash
\* came between the writes of one event.  With the file backend a crash is no cause.
RefusalsAreExplained ==
    mode = "refused" => \/ mishaps \cap {"untold root", "amendment"} # {}
                        \/ backend = "replicated" /\ mishaps # {}

\* A state the standby boots into is one the primary's log went through, also when it
\* copies the files while the primary writes them.
StandbyBootsAPastState ==
    [][(standby.mode = "copying" /\ standby'.mode = "live") =>
        \E k \in 0 .. Len(log_file) :
            standby'.accounts = WithAdmin(Replay(SubSeq(log_file, 1, k)))]_vars

\* "Standby Issuer: reject mutations" (ADR-0063): a request does not change the state a
\* standby serves.
StandbyRejectsMutations ==
    [][(standby.mode = "live" /\ standby'.mode = "live")
        => standby'.accounts = standby.accounts]_vars

\* "It appends an ACCOUNT_PROVENANCE_ADMISSION event [...] so replay reproduces it
\* [...] and the existing snapshot stays valid" (realm-admit-orphan-accounts.js): a
\* repaired ledger that nothing else happened to boots.
RepairedLedgerBoots ==
    [][(backend = "file" /\ mode = "down" /\ mode' = "refused")
        => \A i \in DOMAIN ledger_db.event_log :
              ledger_db.event_log[i].type # "ACCOUNT_PROVENANCE_ADMISSION"]_vars

\* "If any check fails, the snapshot must be rejected and the system must fall back to
\* full replay from event history" (ADR-0074): while every root saved was a root of the
\* log and of the first constitution, and the log can be read, a boot comes up.
HistorySuffices ==
    (mode = "refused" /\ Torn \notin Range(log_file))
        => mishaps \cap {"untold root", "amendment"} # {}

=============================================================================
