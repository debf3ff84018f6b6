--------------------------- MODULE NodeServicesProofs ---------------------------
(***************************************************************************)
(* What the services of a node guarantee, for every value of their         *)
(* constants: first what is proved of a service by itself, then that it    *)
(* holds of the node that runs them all, where a step of ServicesNext is a *)
(* step of a service or leaves its variables, all but the clock, alone.    *)
(***************************************************************************)
EXTENDS NodeServices, Induction, FiniteSetTheorems

-----------------------------------------------------------------------------
(* Settlement intents: VerdictsAreFinal, for any number of wishes, any TTL and *)
(* any ring.                                                                   *)

\* The states that no operation leaves.
Verdicts == {"FULFILLED", "REJECTED"}

\* What makes it inductive: an event that was broadcast tells a verdict, and every
\* operation that changes a state looks at it first.
IntentsInv ==
    /\ I!SettlementAssumption
    /\ hour \in Int
    /\ intents \in [DOMAIN intents -> [state : I!Open \cup I!Closed, expires : Int]]
    /\ I!VerdictsAreFinal
    /\ \A e \in sent : e.state \in Verdicts

LEMMA IntentsInit == I!SettlementAssumption /\ I!Init => IntentsInv
  BY DEF I!Init, IntentsInv, I!VerdictsAreFinal

\* Of one emitted event the peers hear if it is of their types.
LEMMA EmitsOne ==
    ASSUME NEW type, NEW id, NEW state, I!Emit(<<I!Event(type, id, state)>>)
    PROVE  /\ type \notin I!Broadcast => sent' = sent
           /\ type \in I!Broadcast => sent' = sent \cup {I!Event(type, id, state)}
<1>1. I!ToSet(<<I!Event(type, id, state)>>) = {I!Event(type, id, state)}
  BY DEF I!ToSet
<1>2. I!Event(type, id, state).type = type
  BY DEF I!Event
<1> QED BY <1>1, <1>2 DEF I!Emit

LEMMA EmitsExpiries ==
    ASSUME NEW n, NEW ids, I!Emit([i \in 1..n |-> I!Event("EXPIRED", ids[i], "EXPIRED")])
    PROVE  sent' = sent
  BY DEF I!Emit, I!ToSet, I!Event, I!Broadcast

\* A step that changes the state of one open intent.
LEMMA OneChange ==
    ASSUME IntentsInv, NEW id \in DOMAIN intents, NEW state \in I!Open \cup I!Closed,
           intents' = [intents EXCEPT ![id].state = state],
           hour' = hour,
           state = intents[id].state \/ intents[id].state \notin Verdicts,
           sent' = sent
               \/ \E e : sent' = sent \cup {e} /\ e.id = id /\ e.state = state /\ state \in Verdicts
    PROVE  IntentsInv'
<1>1. /\ DOMAIN intents' = DOMAIN intents
      /\ intents'[id].state = state
      /\ \A other \in DOMAIN intents : other # id => intents'[other] = intents[other]
      /\ intents' \in [DOMAIN intents' -> [state : I!Open \cup I!Closed, expires : Int]]
  BY DEF IntentsInv
<1>2. \A e \in sent : e.id \in DOMAIN intents' /\ intents'[e.id].state = e.state
  BY <1>1 DEF IntentsInv, I!VerdictsAreFinal
<1> QED BY <1>1, <1>2 DEF IntentsInv, I!VerdictsAreFinal

LEMMA IntentsNext == IntentsInv /\ [I!Next]_(I!settlementVars) => IntentsInv'
<1> SUFFICES ASSUME IntentsInv, [I!Next]_(I!settlementVars) PROVE IntentsInv'
  OBVIOUS
<1>1. ASSUME NEW id \in I!Ids, I!CreateIntent(id) PROVE IntentsInv'
  <2>1. CASE id \in DOMAIN intents
    BY <1>1, <2>1 DEF I!CreateIntent, IntentsInv, I!VerdictsAreFinal
  <2>2. CASE id \notin DOMAIN intents
    <3>1. sent' = sent /\ hour' = hour
      BY <1>1, <2>2, EmitsOne DEF I!CreateIntent, I!Broadcast
    <3>2. intents' = I!Put(intents, id, [state |-> "PENDING", expires |-> hour + TTL])
      BY <1>1, <2>2 DEF I!CreateIntent
    <3>3. [state |-> "PENDING", expires |-> hour + TTL]
             \in [state : I!Open \cup I!Closed, expires : Int]
      BY DEF IntentsInv, I!SettlementAssumption, I!Open
    <3>4. /\ intents' \in [DOMAIN intents' -> [state : I!Open \cup I!Closed, expires : Int]]
          /\ \A other \in DOMAIN intents : other \in DOMAIN intents' /\ intents'[other] = intents[other]
      BY <2>2, <3>2, <3>3 DEF I!Put, IntentsInv
    <3> QED BY <3>1, <3>4 DEF IntentsInv, I!VerdictsAreFinal
  <2> QED BY <2>1, <2>2
<1>2. ASSUME NEW id \in DOMAIN intents, I!Observe(id) PROVE IntentsInv'
  <2> DEFINE state == IF intents[id].state = "PENDING" THEN "OBSERVING" ELSE intents[id].state
  <2>1. /\ intents' = [intents EXCEPT ![id].state = state]
        /\ hour' = hour /\ I!Emit(<<I!Event("OBSERVED", id, state)>>)
    BY <1>2 DEF I!Observe
  <2>2. sent' = sent
    BY <2>1, EmitsOne DEF I!Broadcast
  <2>3. /\ state \in I!Open \cup I!Closed
        /\ state = intents[id].state \/ intents[id].state \notin Verdicts
    BY DEF IntentsInv, I!Open, Verdicts
  <2> HIDE DEF state
  <2> QED BY <2>1, <2>2, <2>3, OneChange
<1>3. ASSUME NEW id \in DOMAIN intents, I!Fulfill(id) PROVE IntentsInv'
  <2>1. hour' = hour /\ intents[id].state \notin Verdicts
    BY <1>3 DEF I!Fulfill, Verdicts
  <2>2. CASE I!Overdue(id)
    BY <1>3, <2>1, <2>2, OneChange DEF I!Fulfill, I!Closed
  <2>3. CASE ~ I!Overdue(id)
    BY <1>3, <2>1, <2>3, EmitsOne, OneChange DEF I!Fulfill, I!Broadcast, Verdicts, I!Closed, I!Event
  <2> QED BY <2>2, <2>3
<1>4. ASSUME NEW id \in DOMAIN intents, I!Reject(id) PROVE IntentsInv'
  <2>1. sent' = sent \cup {I!Event("REJECTED", id, "REJECTED")}
    BY <1>4, EmitsOne DEF I!Reject, I!Broadcast
  <2>2. /\ intents' = [intents EXCEPT ![id].state = "REJECTED"]
        /\ hour' = hour /\ intents[id].state \notin Verdicts
    BY <1>4 DEF I!Reject, Verdicts
  <2>3. /\ I!Event("REJECTED", id, "REJECTED").id = id
        /\ I!Event("REJECTED", id, "REJECTED").state = "REJECTED"
    BY DEF I!Event
  <2>4. "REJECTED" \in I!Open \cup I!Closed /\ "REJECTED" \in Verdicts
    BY DEF I!Closed, Verdicts
  <2> QED BY <2>1, <2>2, <2>3, <2>4, OneChange
<1>5. CASE I!ExpireStale
  <2>1. sent' = sent /\ hour' = hour
    BY <1>5, EmitsExpiries DEF I!ExpireStale
  <2>2. intents' = [id \in DOMAIN intents |->
                      IF id \in I!Stale THEN [intents[id] EXCEPT !.state = "EXPIRED"]
                      ELSE intents[id]]
    BY <1>5 DEF I!ExpireStale
  <2>3. intents' \in [DOMAIN intents' -> [state : I!Open \cup I!Closed, expires : Int]]
    BY <2>2 DEF IntentsInv, I!Closed
  <2>4. \A id \in DOMAIN intents : intents[id].state \in Verdicts => id \notin I!Stale
    BY DEF I!Stale, I!Open, Verdicts
  <2>5. I!VerdictsAreFinal'
    BY <2>1, <2>2, <2>4 DEF IntentsInv, I!VerdictsAreFinal
  <2> QED BY <2>1, <2>3, <2>5 DEF IntentsInv
<1>6. ASSUME NEW e \in I!PeerEvents, I!ReceiveSettlementEvent(e) PROVE IntentsInv'
  BY <1>6 DEF I!ReceiveSettlementEvent, IntentsInv, I!VerdictsAreFinal
<1>7. CASE I!Tick
  BY <1>7 DEF I!Tick, IntentsInv, I!VerdictsAreFinal
<1>8. CASE UNCHANGED I!settlementVars
  BY <1>8 DEF I!settlementVars, IntentsInv, I!VerdictsAreFinal
<1> QED BY <1>1, <1>2, <1>3, <1>4, <1>5, <1>6, <1>7, <1>8 DEF I!Next

\* However late a sweep, an observation, a rejection or a repeated request comes: what the
\* peers were told of an intent is what it is.
THEOREM VerdictsStand == I!Spec => []I!VerdictsAreFinal
<1>1. IntentsInv => I!VerdictsAreFinal
  BY DEF IntentsInv
<1> QED BY ServicesAssumption, IntentsInit, IntentsNext, <1>1, PTL DEF I!Spec

-----------------------------------------------------------------------------
(* Joining: NamespacesAreUnique, for any number of requests, names and         *)
(* networks and any number of requests that await the provider at once.        *)
Stores == [requests : SUBSET J!Requests, artifacts : SUBSET J!Artifacts]

Waiters == [store : Stores, request : J!Requests, new : BOOLEAN, set : BOOLEAN]

\* What makes it inductive: the copies that are written back are consistent themselves,
\* each with the request it was made for.  Lost updates lose whole updates.
JoinInv ==
    /\ store \in Stores /\ J!Consistent(store)
    /\ \A w \in waiting :
          w \in Waiters /\ J!Consistent(w.store) /\ w.request \in w.store.requests

LEMMA AllocationTyped ==
    ASSUME NEW r \in J!Requests
    PROVE  /\ J!Allocation(r) \in J!Artifacts
           /\ J!Allocation(r).request = r.id /\ J!Allocation(r).network = r.network
  BY DEF J!Allocation, J!Requests, J!Artifacts

\* A store stays consistent with a request whose id and name are new.
LEMMA AddsRequest ==
    ASSUME NEW s \in Stores, J!Consistent(s), NEW r \in J!Requests,
           ~ \E q \in s.requests : q.id = r.id, ~ J!NamespaceConflict(s, r)
    PROVE  /\ J!WithRequest(s, r) \in Stores /\ J!Consistent(J!WithRequest(s, r))
           /\ r \in J!WithRequest(s, r).requests
<1> DEFINE t == J!WithRequest(s, r)
<1>1. t \in Stores /\ t.requests = s.requests \cup {r} /\ t.artifacts = s.artifacts
  BY DEF J!WithRequest, Stores
<1> HIDE DEF t
<1>2. \A q \in t.requests : ~ J!NamespaceConflict(t, q)
  BY <1>1 DEF J!NamespaceConflict, J!Consistent
<1>3. \A a \in t.artifacts : ~ J!AllocationConflict(t, a)
  BY <1>1 DEF J!AllocationConflict, J!Consistent
<1>4. \A p, q \in t.requests : p.id = q.id => p = q
  BY <1>1 DEF J!Consistent
<1>5. \A a \in t.artifacts : \E q \in t.requests : q.id = a.request /\ q.network = a.network
  BY <1>1 DEF J!Consistent
<1> QED BY <1>1, <1>2, <1>3, <1>4, <1>5 DEF J!Consistent, t

\* And with an artifact of a request it has, if the name is not allocated to another.
LEMMA AddsArtifact ==
    ASSUME NEW s \in Stores, J!Consistent(s), NEW r \in s.requests, NEW a \in J!Artifacts,
           a.request = r.id, a.network = r.network, ~ J!AllocationConflict(s, a)
    PROVE  J!WithArtifact(s, a) \in Stores /\ J!Consistent(J!WithArtifact(s, a))
           /\ J!WithArtifact(s, a).requests = s.requests
<1> DEFINE t == J!WithArtifact(s, a)
<1>1. t \in Stores /\ t.requests = s.requests /\ t.artifacts = s.artifacts \cup {a}
  BY DEF J!WithArtifact, Stores
<1> HIDE DEF t
<1>2. \A q \in t.requests : ~ J!NamespaceConflict(t, q)
  BY <1>1 DEF J!NamespaceConflict, J!Consistent
<1>3. \A b \in t.artifacts : ~ J!AllocationConflict(t, b)
  BY <1>1 DEF J!AllocationConflict, J!Consistent
<1>4. \A b \in t.artifacts : \E q \in t.requests : q.id = b.request /\ q.network = b.network
  BY <1>1 DEF J!Consistent
<1> QED BY <1>1, <1>2, <1>3, <1>4 DEF J!Consistent, t

\* A step that writes a consistent store and lets requests end their wait.
LEMMA Writes ==
    ASSUME JoinInv, NEW s \in Stores, J!Consistent(s), store' = s \/ store' = store,
           waiting' \subseteq waiting
    PROVE  JoinInv'
  BY DEF JoinInv, J!Consistent, J!NamespaceConflict, J!AllocationConflict

\* A step in which one more request starts to await the provider.
LEMMA Waits ==
    ASSUME JoinInv, NEW s \in Stores, J!Consistent(s), NEW r \in s.requests, NEW new \in BOOLEAN,
           J!Await(s, r, new)
    PROVE  JoinInv'
<1> DEFINE w == [store |-> s, request |-> r, new |-> new, set |-> FALSE]
<1>1. store' = store /\ waiting' = waiting \cup {w}
  BY DEF J!Await
<1>2. w \in Waiters /\ w.store = s /\ w.request = r
  BY DEF Waiters, Stores
<1> HIDE DEF w
<1> QED BY <1>1, <1>2 DEF JoinInv

LEMMA JoinInit == J!Init => JoinInv
  BY DEF J!Init, JoinInv, J!EmptyStore, Stores, J!Consistent

LEMMA Returns ==
    ASSUME JoinInv, NEW w \in waiting, J!AllocationReturns(w)
    PROVE  JoinInv'
<1>1. /\ w \in Waiters /\ w.store \in Stores /\ w.request \in J!Requests
      /\ J!Consistent(w.store) /\ w.request \in w.store.requests
  BY DEF JoinInv, Waiters
<1>2. waiting' \subseteq waiting
  BY DEF J!AllocationReturns
<1> DEFINE a == J!Allocation(w.request)
<1>3. CASE J!AllocationConflict(w.store, a)
  BY <1>1, <1>2, <1>3, Writes DEF J!AllocationReturns, J!Save
<1>4. CASE ~ J!AllocationConflict(w.store, a)
  <2>1. store' = J!WithArtifact(w.store, a)
    BY <1>4 DEF J!AllocationReturns, J!Save
  <2> QED BY <1>1, <1>2, <1>4, <2>1, AddsArtifact, AllocationTyped, Writes
<1> QED BY <1>3, <1>4

LEMMA JoinNext == JoinInv /\ [J!Next]_(J!joinVars) => JoinInv'
<1> SUFFICES ASSUME JoinInv, [J!Next]_(J!joinVars) PROVE JoinInv'
  OBVIOUS
<1>0. store \in Stores /\ J!Consistent(store)
  BY DEF JoinInv
<1>1. ASSUME NEW r \in J!Requests, J!SubmitJoinRequest(r) PROVE JoinInv'
  <2>1. /\ J!WithRequest(store, r) \in Stores /\ J!Consistent(J!WithRequest(store, r))
        /\ r \in J!WithRequest(store, r).requests
    BY <1>0, <1>1, AddsRequest DEF J!SubmitJoinRequest
  <2>2. CASE J!Await(J!WithRequest(store, r), r, TRUE)
    BY <2>1, <2>2, Waits
  <2>3. CASE J!Save(J!WithRequest(store, r)) /\ UNCHANGED <<waiting, dns>>
    BY <2>1, <2>3, Writes DEF J!Save
  <2> QED BY <1>1, <2>2, <2>3 DEF J!SubmitJoinRequest
<1>2. ASSUME NEW r \in J!Requests, J!RepeatJoinRequest(r) PROVE JoinInv'
  BY <1>0, <1>2, Waits DEF J!RepeatJoinRequest
<1>3. ASSUME NEW w \in waiting, J!ProviderSetsRecord(w) PROVE JoinInv'
  <2> DEFINE v == [w EXCEPT !.set = TRUE]
  <2>1. store' = store /\ waiting' = (waiting \ {w}) \cup {v}
    BY <1>3 DEF J!ProviderSetsRecord
  <2>2. v \in Waiters /\ v.store = w.store /\ v.request = w.request
    BY DEF JoinInv, Waiters
  <2> HIDE DEF v
  <2> QED BY <2>1, <2>2 DEF JoinInv
<1>4. ASSUME NEW w \in waiting, J!AllocationFails(w) PROVE JoinInv'
  <2>1. w.store \in Stores /\ J!Consistent(w.store)
    BY DEF JoinInv, Waiters
  <2> QED BY <1>0, <1>4, <2>1, Writes DEF J!AllocationFails, J!Save
<1>5. ASSUME NEW w \in waiting, J!AllocationReturns(w) PROVE JoinInv'
  BY <1>5, Returns
<1>6. ASSUME NEW r \in store.requests, NEW name \in Names, NEW allocated \in BOOLEAN,
             J!RecordArtifact(r, name, allocated)
      PROVE  JoinInv'
  <2> DEFINE a == [request |-> r.id, network |-> r.network, name |-> name,
                   allocated |-> allocated]
  <2>1. r \in J!Requests
    BY DEF JoinInv, Stores
  <2>2. a \in J!Artifacts /\ a.request = r.id /\ a.network = r.network
    BY <2>1 DEF J!Requests, J!Artifacts
  <2>3. ~ J!AllocationConflict(store, a) /\ store' = J!WithArtifact(store, a) /\ waiting' = waiting
    BY <1>6 DEF J!RecordArtifact, J!Save
  <2> HIDE DEF a
  <2> QED BY <1>0, <2>2, <2>3, AddsArtifact, Writes
<1>7. CASE J!Crash
  <2>1. J!EmptyStore \in Stores /\ J!Consistent(J!EmptyStore)
    BY DEF J!EmptyStore, Stores, J!Consistent
  <2> QED BY <1>7, <2>1, Writes DEF J!Crash, J!Save
<1>8. CASE UNCHANGED J!joinVars
  BY <1>0, <1>8, Writes DEF J!joinVars
<1> QED BY <1>1, <1>2, <1>3, <1>4, <1>5, <1>6, <1>7, <1>8 DEF J!Next

\* Whatever copies of the store the waiting requests write back, and whenever the process
\* ends: the store never holds a name or a request id twice.
THEOREM NamesAllocatedOnce == J!Spec => []J!NamespacesAreUnique
<1>1. JoinInv => J!NamespacesAreUnique
  BY DEF JoinInv, J!NamespacesAreUnique
<1> QED BY JoinInit, JoinNext, <1>1, PTL DEF J!Spec

-----------------------------------------------------------------------------
(* Registration: RegistrationsAreUnique, for any number of aliases, requests,  *)
(* handoffs and passkeys, and any overlap of completions.                      *)

\* Cleaning up and releasing only end reservations.
LEMMA ReleasedIsLess ==
    ASSUME NEW reserved, NEW gone
    PROVE  DOMAIN Released(reserved, gone) \subseteq DOMAIN reserved
  BY DEF Released, Restrict

LEMMA LiveIsLess ==
    ASSUME NEW collection
    PROVE  /\ DOMAIN Live(collection) \subseteq DOMAIN collection
           /\ \A key \in DOMAIN Live(collection) : Live(collection)[key] = collection[key]
  BY DEF Live, Restrict

LEMMA KeptIsLess == DOMAIN Kept \subseteq DOMAIN reservations
  BY ReleasedIsLess, LiveIsLess DEF Kept

\* Records of registrations are made whole and end whole.
Reserved == [owner : Owners, until : Nat]
HandoffRecords == [alias : Aliases, owner : Owners, until : Nat, complete : BOOLEAN]
Completions == [request : Registrations, alias : Aliases, owner : Owners,
                credential : Credentials]
AccountRecords == [alias : Aliases, keys : SUBSET Credentials, reserved : BOOLEAN]
Pairings == [account : Int, credential : Credentials, approved : BOOLEAN]

RegistrationsTyped ==
    /\ DOMAIN reservations \subseteq Aliases
    /\ reservations \in [DOMAIN reservations -> Reserved]
    /\ DOMAIN challenges \subseteq Registrations
    /\ challenges \in [DOMAIN challenges -> Record]
    /\ DOMAIN handoffs \subseteq Handoffs
    /\ handoffs \in [DOMAIN handoffs -> HandoffRecords]
    /\ completing \subseteq Completions
    /\ accounts \in Seq(AccountRecords) /\ Len(accounts) <= MaxAccounts
    /\ pairings \subseteq Pairings /\ \A p \in pairings : p.account \in DOMAIN accounts

LEMMA UnchangedRegistrations == RegistrationsTyped /\ UNCHANGED rVars => RegistrationsTyped'
  BY DEF rVars, RegistrationsTyped

\* An account's passkeys change, and nothing else of the accounts.
LEMMA KeysChanged ==
    ASSUME RegistrationsTyped, NEW i \in DOMAIN accounts, NEW held \in SUBSET Credentials,
           accounts' = [accounts EXCEPT ![i].keys = held]
    PROVE  /\ accounts' \in Seq(AccountRecords) /\ Len(accounts') = Len(accounts)
           /\ DOMAIN accounts' = DOMAIN accounts
           /\ accounts'[i].keys = held
           /\ \A j \in DOMAIN accounts : /\ accounts'[j].alias = accounts[j].alias
                                         /\ accounts'[j].reserved = accounts[j].reserved
                                         /\ j # i => accounts'[j].keys = accounts[j].keys
<1>0. accounts \in Seq(AccountRecords)
  BY DEF RegistrationsTyped
<1>1. accounts[i] \in AccountRecords
  BY <1>0
<1>2. PICK new : new = [accounts[i] EXCEPT !.keys = held]
  OBVIOUS
<1>3. /\ new \in AccountRecords /\ new.keys = held
      /\ new.alias = accounts[i].alias /\ new.reserved = accounts[i].reserved
  BY <1>1, <1>2 DEF AccountRecords
<1>4. accounts' = [accounts EXCEPT ![i] = new]
  BY <1>2, Zenon
<1>5. /\ accounts' \in Seq(AccountRecords) /\ Len(accounts') = Len(accounts)
      /\ DOMAIN accounts' = DOMAIN accounts
      /\ accounts'[i] = new /\ \A j \in DOMAIN accounts : j # i => accounts'[j] = accounts[j]
  BY <1>0, <1>3, <1>4
<1> QED BY <1>3, <1>5

LEMMA PasskeysOf ==
    ASSUME RegistrationsTyped, NEW i \in DOMAIN accounts, NEW credential \in Credentials
    PROVE  /\ i \in Int
           /\ accounts[i].keys \cup {credential} \in SUBSET Credentials
           /\ accounts[i].keys \ {credential} \in SUBSET Credentials
<1>1. i \in Int /\ accounts[i] \in AccountRecords
  BY DEF RegistrationsTyped
<1>2. accounts[i].keys \in SUBSET Credentials
  BY <1>1 DEF AccountRecords
<1> QED BY <1>1, <1>2

LEMMA ApprovedPairing ==
    ASSUME NEW p \in Pairings
    PROVE  \E q \in Pairings : /\ q = [p EXCEPT !.approved = TRUE]
                               /\ q.approved /\ q.account = p.account
                               /\ q.credential = p.credential
<1>1. PICK q : q = [p EXCEPT !.approved = TRUE]
  OBVIOUS
<1>2. /\ q \in Pairings /\ q.approved = TRUE /\ q.account = p.account
      /\ q.credential = p.credential
  BY <1>1 DEF Pairings
<1> QED BY <1>1, <1>2

\* The account that a completion makes.
LEMMA AccountOf ==
    ASSUME RegistrationsTyped, NEW c \in completing, CompletionSucceeds(c)
    PROVE  \E new \in AccountRecords :
              /\ new.keys = {c.credential} /\ new.alias = c.alias
              /\ new.reserved = (/\ c.alias \in DOMAIN Live(reservations)
                                 /\ reservations[c.alias].owner = c.owner)
              /\ accounts' = Append(accounts, new)
<1>1. PICK holds \in BOOLEAN : holds = (/\ c.alias \in DOMAIN Live(reservations)
                                        /\ reservations[c.alias].owner = c.owner)
  BY Zenon
<1>2. accounts' = Append(accounts,
          [alias |-> c.alias, keys |-> {c.credential}, reserved |-> holds])
  BY <1>1 DEF CompletionSucceeds
<1>3. c.credential \in Credentials /\ c.alias \in Aliases
  BY DEF RegistrationsTyped, Completions
<1>4. PICK new \in AccountRecords :
          new = [alias |-> c.alias, keys |-> {c.credential}, reserved |-> holds]
  BY <1>3 DEF AccountRecords
<1>5. new.keys = {c.credential} /\ new.alias = c.alias /\ new.reserved = holds
  BY <1>4
<1> QED BY <1>1, <1>2, <1>4, <1>5, Zenon

\* Of a collection, a cleanup leaves a part.
LEMMA ReleasedTyped ==
    ASSUME NEW S, NEW T, NEW reserved \in [S -> T], NEW gone
    PROVE  Released(reserved, gone) \in [DOMAIN Released(reserved, gone) -> T]
  BY DEF Released, Restrict

LEMMA LiveTyped ==
    ASSUME NEW S, NEW T, NEW collection \in [S -> T]
    PROVE  Live(collection) \in [DOMAIN Live(collection) -> T]
  BY DEF Live, Restrict

LEMMA PutTyped ==
    ASSUME NEW S, NEW T, NEW All, S \subseteq All, NEW collection \in [S -> T],
           NEW key \in All, NEW record \in T
    PROVE  /\ Put(collection, key, record) \in [DOMAIN Put(collection, key, record) -> T]
           /\ DOMAIN Put(collection, key, record) \subseteq All
  BY DEF Put

LEMMA CleanedTyped ==
    ASSUME RegistrationsTyped
    PROVE  /\ DOMAIN Kept \subseteq Aliases /\ Kept \in [DOMAIN Kept -> Reserved]
           /\ DOMAIN Live(reservations) \subseteq Aliases
           /\ Live(reservations) \in [DOMAIN Live(reservations) -> Reserved]
           /\ DOMAIN Live(challenges) \subseteq Registrations
           /\ Live(challenges) \in [DOMAIN Live(challenges) -> Record]
           /\ DOMAIN Live(handoffs) \subseteq Handoffs
           /\ Live(handoffs) \in [DOMAIN Live(handoffs) -> HandoffRecords]
<1>1. /\ DOMAIN Live(reservations) \subseteq Aliases
      /\ Live(reservations) \in [DOMAIN Live(reservations) -> Reserved]
  BY LiveIsLess, LiveTyped DEF RegistrationsTyped
<1>2. DOMAIN Kept \subseteq Aliases /\ Kept \in [DOMAIN Kept -> Reserved]
  BY <1>1, ReleasedIsLess, ReleasedTyped DEF Kept
<1>3. /\ DOMAIN Live(challenges) \subseteq Registrations
      /\ Live(challenges) \in [DOMAIN Live(challenges) -> Record]
  BY LiveIsLess, LiveTyped DEF RegistrationsTyped
<1>4. /\ DOMAIN Live(handoffs) \subseteq Handoffs
      /\ Live(handoffs) \in [DOMAIN Live(handoffs) -> HandoffRecords]
  BY LiveIsLess, LiveTyped DEF RegistrationsTyped
<1> QED BY <1>1, <1>2, <1>3, <1>4

\* What a completion leaves when it ends.
LEMMA FinishedTyped ==
    ASSUME RegistrationsTyped, NEW c, Finished(c)
    PROVE  /\ DOMAIN reservations' \subseteq Aliases
           /\ reservations' \in [DOMAIN reservations' -> Reserved]
           /\ DOMAIN challenges' \subseteq Registrations
           /\ challenges' \in [DOMAIN challenges' -> Record]
<1>1. /\ DOMAIN reservations' \subseteq Aliases
      /\ reservations' \in [DOMAIN reservations' -> Reserved]
  BY CleanedTyped, ReleasedIsLess, ReleasedTyped DEF Finished
<1>2. challenges' = [q \in DOMAIN challenges \ {c.request} |-> challenges[q]]
  BY DEF Finished
<1> QED BY <1>1, <1>2 DEF RegistrationsTyped

LEMMA RegistrationsStep ==
    ASSUME RegistrationsTyped, now \in 0 .. MaxTime, Next
    PROVE  RegistrationsTyped'
<1>0. \A owner \in Owners : Reservation(owner) \in Reserved
  BY RegistrationAssumption DEF Reservation, Reserved
<1>1. ASSUME NEW q \in Registrations, NEW alias \in Aliases, NEW owner \in Owners,
             RegistrationOptions(q, alias, owner)
      PROVE  RegistrationsTyped'
  <2>1. [alias |-> alias, owner |-> owner, until |-> now + TTL] \in Record
    BY RegistrationAssumption DEF Record
  <2>2. /\ reservations' = Put(Kept, alias, Reservation(owner))
        /\ challenges' = Put(Live(challenges), q,
                              [alias |-> alias, owner |-> owner, until |-> now + TTL])
        /\ handoffs' = Live(handoffs) /\ UNCHANGED <<completing, accounts, pairings>>
    BY <1>1 DEF RegistrationOptions
  <2>3. /\ DOMAIN reservations' \subseteq Aliases
        /\ reservations' \in [DOMAIN reservations' -> Reserved]
    <3>1. PICK reservation \in Reserved : reservation = Reservation(owner)
      BY <1>0
    <3>2. PICK kept : kept = Kept
      OBVIOUS
    <3>3. DOMAIN kept \subseteq Aliases /\ kept \in [DOMAIN kept -> Reserved]
      BY <3>2, CleanedTyped
    <3>4. reservations' = Put(kept, alias, reservation)
      BY <2>2, <3>1, <3>2
    <3> QED BY ONLY <3>3, <3>4, alias \in Aliases, reservation \in Reserved, PutTyped
  <2>4. /\ DOMAIN challenges' \subseteq Registrations
        /\ challenges' \in [DOMAIN challenges' -> Record]
    <3>1. PICK live : live = Live(challenges)
      OBVIOUS
    <3>2. PICK new \in Record :
              new = [alias |-> alias, owner |-> owner, until |-> now + TTL]
      BY <2>1
    <3>3. DOMAIN live \subseteq Registrations /\ live \in [DOMAIN live -> Record]
      BY <3>1, CleanedTyped
    <3>4. challenges' = Put(live, q, new)
      BY <2>2, <3>1, <3>2
    <3> QED BY ONLY <3>3, <3>4, q \in Registrations, new \in Record, PutTyped
  <2> QED BY <2>2, <2>3, <2>4, CleanedTyped DEF RegistrationsTyped
<1>2. ASSUME NEW q \in Registrations, ReleaseRegistration(q) PROVE RegistrationsTyped'
  <2>1. /\ reservations' = Released(Kept, {challenges[q]})
        /\ challenges' = [r \in DOMAIN Live(challenges) \ {q} |-> challenges[r]]
        /\ handoffs' = Live(handoffs) /\ UNCHANGED <<completing, accounts, pairings>>
    BY <1>2 DEF ReleaseRegistration
  <2>2. /\ DOMAIN reservations' \subseteq Aliases
        /\ reservations' \in [DOMAIN reservations' -> Reserved]
    BY <2>1, CleanedTyped, ReleasedIsLess, ReleasedTyped
  <2>3. /\ DOMAIN challenges' \subseteq Registrations
        /\ challenges' \in [DOMAIN challenges' -> Record]
    BY <2>1, LiveIsLess DEF RegistrationsTyped
  <2> QED BY <2>1, <2>2, <2>3, CleanedTyped DEF RegistrationsTyped
<1>3. ASSUME NEW q \in Registrations, NEW credential \in Credentials,
             BeginCompletion(q, credential)
      PROVE  RegistrationsTyped'
  <2>1. q \in DOMAIN challenges /\ challenges[q] \in Record
    BY <1>3, LiveIsLess DEF BeginCompletion, RegistrationsTyped
  <2>2. PICK c \in Completions :
            c = [request |-> q, alias |-> challenges[q].alias, owner |-> challenges[q].owner,
                 credential |-> credential]
    BY <2>1 DEF Record, Completions
  <2>3. /\ completing' = completing \cup {c}
        /\ reservations' = Kept /\ challenges' = Live(challenges) /\ handoffs' = Live(handoffs)
        /\ accounts' = accounts /\ pairings' = pairings
    BY <1>3, <2>2 DEF BeginCompletion, Cleanup
  <2> QED BY <2>3, CleanedTyped DEF RegistrationsTyped
<1>4. ASSUME NEW c \in completing, CompletionRefused(c) PROVE RegistrationsTyped'
  BY <1>4 DEF CompletionRefused, RegistrationsTyped
<1>5. ASSUME NEW c \in completing, CompletionFails(c) PROVE RegistrationsTyped'
  <2>1. /\ completing' \subseteq completing /\ UNCHANGED <<handoffs, accounts, pairings>>
        /\ Finished(c)
    BY <1>5 DEF CompletionFails
  <2> QED BY <2>1, FinishedTyped DEF RegistrationsTyped
<1>6. ASSUME NEW c \in completing, CompletionSucceeds(c) PROVE RegistrationsTyped'
  <2>1. PICK new \in AccountRecords : accounts' = Append(accounts, new)
    BY <1>6, AccountOf
  <2>2. /\ completing' \subseteq completing /\ UNCHANGED <<handoffs, pairings>>
        /\ Len(accounts) < MaxAccounts /\ Finished(c)
    BY <1>6 DEF CompletionSucceeds
  <2>3. /\ accounts' \in Seq(AccountRecords) /\ Len(accounts') <= MaxAccounts
        /\ DOMAIN accounts \subseteq DOMAIN accounts'
    BY ONLY <2>1, <2>2, RegistrationAssumption, RegistrationsTyped DEF RegistrationsTyped
  <2> QED BY <2>2, <2>3, FinishedTyped DEF RegistrationsTyped
<1>7. ASSUME NEW h \in Handoffs, NEW alias \in Aliases, NEW prior \in Owners \cup {"none"},
             NEW owner \in Owners, CreateHandoff(h, alias, prior, owner)
      PROVE  RegistrationsTyped'
  <2>1. [alias |-> alias, owner |-> owner, until |-> now + TTL, complete |-> FALSE]
            \in HandoffRecords
    BY RegistrationAssumption DEF HandoffRecords
  <2>2. /\ reservations' = Put(Kept, alias, Reservation(owner))
        /\ handoffs' = Put(Live(handoffs), h, [alias |-> alias, owner |-> owner,
                                               until |-> now + TTL, complete |-> FALSE])
        /\ challenges' = Live(challenges) /\ UNCHANGED <<completing, accounts, pairings>>
    BY <1>7 DEF CreateHandoff
  <2>3. /\ DOMAIN reservations' \subseteq Aliases
        /\ reservations' \in [DOMAIN reservations' -> Reserved]
    <3>1. PICK reservation \in Reserved : reservation = Reservation(owner)
      BY <1>0
    <3>2. PICK kept : kept = Kept
      OBVIOUS
    <3>3. DOMAIN kept \subseteq Aliases /\ kept \in [DOMAIN kept -> Reserved]
      BY <3>2, CleanedTyped
    <3>4. reservations' = Put(kept, alias, reservation)
      BY <2>2, <3>1, <3>2
    <3> QED BY ONLY <3>3, <3>4, alias \in Aliases, reservation \in Reserved, PutTyped
  <2>4. /\ DOMAIN handoffs' \subseteq Handoffs
        /\ handoffs' \in [DOMAIN handoffs' -> HandoffRecords]
    <3>1. PICK live : live = Live(handoffs)
      OBVIOUS
    <3>2. PICK new \in HandoffRecords :
              new = [alias |-> alias, owner |-> owner, until |-> now + TTL, complete |-> FALSE]
      BY <2>1
    <3>3. DOMAIN live \subseteq Handoffs /\ live \in [DOMAIN live -> HandoffRecords]
      BY <3>1, CleanedTyped
    <3>4. handoffs' = Put(live, h, new)
      BY <2>2, <3>1, <3>2
    <3> QED BY ONLY <3>3, <3>4, h \in Handoffs, new \in HandoffRecords, PutTyped
  <2> QED BY <2>2, <2>3, <2>4, CleanedTyped DEF RegistrationsTyped
<1>8. ASSUME NEW h \in Handoffs, CompleteHandoff(h) PROVE RegistrationsTyped'
  <2>1. PICK live : live = Live(handoffs)
    OBVIOUS
  <2>2. /\ h \in DOMAIN live
        /\ handoffs' = [live EXCEPT ![h].complete = TRUE, ![h].until = now + 1]
        /\ reservations' = Released(Kept, {handoffs[h]})
        /\ challenges' = Live(challenges) /\ UNCHANGED <<completing, accounts, pairings>>
    BY <1>8, <2>1 DEF CompleteHandoff
  <2>3. DOMAIN live \subseteq Handoffs /\ live \in [DOMAIN live -> HandoffRecords]
    BY <2>1, CleanedTyped
  <2>4. /\ DOMAIN handoffs' \subseteq Handoffs
        /\ handoffs' \in [DOMAIN handoffs' -> HandoffRecords]
    <3>1. now + 1 \in Nat
      BY RegistrationAssumption
    <3> QED BY ONLY <2>2, <2>3, <3>1 DEF HandoffRecords
  <2>5. /\ DOMAIN reservations' \subseteq Aliases
        /\ reservations' \in [DOMAIN reservations' -> Reserved]
    BY <2>2, CleanedTyped, ReleasedIsLess, ReleasedTyped
  <2> QED BY <2>2, <2>4, <2>5, CleanedTyped DEF RegistrationsTyped
<1>9. CASE Restart
  BY <1>9 DEF Restart, RegistrationsTyped
<1>10. CASE Tick
  BY <1>10 DEF Tick, RegistrationsTyped
<1>11. ASSUME NEW i \in DOMAIN accounts, NEW held \in SUBSET Credentials,
              accounts' = [accounts EXCEPT ![i].keys = held], pairings' \subseteq Pairings,
              \A p \in pairings' : p.account \in DOMAIN accounts, OnlyAccounts
       PROVE  RegistrationsTyped'
  <2>1. /\ accounts' \in Seq(AccountRecords) /\ Len(accounts') = Len(accounts)
        /\ DOMAIN accounts' = DOMAIN accounts
    BY <1>11, KeysChanged
  <2> QED BY <1>11, <2>1 DEF RegistrationsTyped, OnlyAccounts
<1>12. ASSUME NEW i \in DOMAIN accounts, NEW credential \in Credentials,
              EnrollPasskey(i, credential) \/ RevokePasskey(i, credential)
       PROVE  RegistrationsTyped'
  <2>1. /\ accounts[i].keys \cup {credential} \in SUBSET Credentials
        /\ accounts[i].keys \ {credential} \in SUBSET Credentials
    BY PasskeysOf
  <2>2. /\ pairings' \subseteq Pairings /\ \A p \in pairings' : p.account \in DOMAIN accounts
        /\ OnlyAccounts
    BY <1>12 DEF EnrollPasskey, RevokePasskey, RegistrationsTyped
  <2> QED BY <1>11, <1>12, <2>1, <2>2 DEF EnrollPasskey, RevokePasskey
<1>13. ASSUME NEW i \in DOMAIN accounts, NEW credential \in Credentials,
              ProposePairing(i, credential)
       PROVE  RegistrationsTyped'
  <2>1. PICK p \in Pairings :
            p = [account |-> i, credential |-> credential, approved |-> FALSE]
    BY PasskeysOf DEF Pairings
  <2>2. p.account = i /\ pairings' = pairings \cup {p} /\ accounts' = accounts
    BY <1>13, <2>1 DEF ProposePairing
  <2> QED BY <1>13, <2>2 DEF RegistrationsTyped, ProposePairing, OnlyAccounts
<1>14. ASSUME NEW p \in pairings, ApprovePairing(p) PROVE RegistrationsTyped'
  <2>1. p \in Pairings /\ p.account \in DOMAIN accounts
    BY DEF RegistrationsTyped
  <2>2. PICK q \in Pairings : q = [p EXCEPT !.approved = TRUE] /\ q.account = p.account
    BY <2>1, ApprovedPairing
  <2>3. /\ pairings' = (pairings \ {p}) \cup {q} /\ OnlyAccounts
        /\ accounts' = [accounts EXCEPT ![p.account].keys =
                            accounts[p.account].keys \cup {p.credential}]
    BY <1>14, <2>1, <2>2 DEF ApprovePairing
  <2>4. accounts[p.account].keys \cup {p.credential} \in SUBSET Credentials
    <3>1. p.credential \in Credentials
      BY <2>1 DEF Pairings
    <3> QED BY <2>1, <3>1, PasskeysOf
  <2>5. pairings' \subseteq Pairings /\ \A r \in pairings' : r.account \in DOMAIN accounts
    BY <2>1, <2>2, <2>3 DEF RegistrationsTyped
  <2> QED BY <1>11, <2>1, <2>3, <2>4, <2>5
<1> QED BY <1>1, <1>2, <1>3, <1>4, <1>5, <1>6, <1>7, <1>8, <1>9, <1>10, <1>12, <1>13, <1>14
        DEF Next


\* The services agree on how time passes.
ClockTicks == now' = now \/ (now < MaxTime /\ now' = now + 1)

LEMMA RegistrationClock == Next => ClockTicks
  BY DEF ClockTicks, Next, RegistrationOptions, ReleaseRegistration, BeginCompletion,
         CompletionRefused, CompletionFails, CompletionSucceeds, CreateHandoff,
         CompleteHandoff, EnrollPasskey, RevokePasskey, ProposePairing, ApprovePairing,
         OnlyAccounts, Restart, Tick

\* What makes it inductive: the alias of an account that was registered while its alias
\* was reserved is reserved for nobody any more, and is never available again.
UniqueInv ==
    /\ RegistrationsAreUnique
    /\ \A i \in DOMAIN accounts :
          accounts[i].reserved => accounts[i].alias \notin DOMAIN reservations

RegistrationInv == now \in 0 .. MaxTime /\ RegistrationsTyped /\ UniqueInv

\* A step that ends reservations only and changes no account.
LEMMA FewerReservations ==
    ASSUME UniqueInv, accounts' = accounts, pairings' = pairings,
           DOMAIN reservations' \subseteq DOMAIN reservations
    PROVE  UniqueInv'
  BY DEF UniqueInv, RegistrationsAreUnique

\* A step that reserves an alias that no account has, or that is reserved already.
LEMMA OneMoreReservation ==
    ASSUME UniqueInv, NEW alias, NEW owner,
           accounts' = accounts, pairings' = pairings,
           reservations' = Put(Kept, alias, Reservation(owner)),
           alias \in DOMAIN Kept \/ AliasAvailable(alias, owner)
    PROVE  UniqueInv'
<1>1. DOMAIN reservations' = DOMAIN Kept \cup {alias}
  BY DEF Put
<1>2. \A i \in DOMAIN accounts : accounts[i].reserved => accounts[i].alias # alias
  BY KeptIsLess DEF AliasAvailable, UniqueInv
<1> QED BY <1>1, <1>2, KeptIsLess DEF UniqueInv, RegistrationsAreUnique

\* A step that changes the passkeys of one account: one that it gets is owned by nobody,
\* or comes by a pairing of the account.
LEMMA PasskeysChange ==
    ASSUME RegistrationsTyped, UniqueInv, NEW i \in DOMAIN accounts,
           NEW held \in SUBSET Credentials,
           accounts' = [accounts EXCEPT ![i].keys = held], reservations' = reservations,
           \A p \in pairings : p.approved =>
               \E q \in pairings' : /\ q.approved /\ q.account = p.account
                                    /\ q.credential = p.credential,
           \A credential \in held \ accounts[i].keys :
               \/ Unowned(credential)
               \/ \E q \in pairings' : q.approved /\ q.account = i /\ q.credential = credential
    PROVE  UniqueInv'
<1>1. /\ DOMAIN accounts' = DOMAIN accounts
      /\ accounts'[i].keys = held
      /\ \A j \in DOMAIN accounts :
            /\ accounts'[j].alias = accounts[j].alias
            /\ accounts'[j].reserved = accounts[j].reserved
            /\ j # i => accounts'[j].keys = accounts[j].keys
  BY KeysChanged
<1> DEFINE Paired(j, k, credential) ==
             \E q \in pairings' : /\ q.approved /\ q.account \in {j, k}
                                  /\ q.credential = credential
<1>2. ASSUME NEW j \in DOMAIN accounts, NEW k \in DOMAIN accounts, j # k,
             NEW credential \in accounts[j].keys \cap accounts[k].keys
      PROVE  Paired(j, k, credential)
  <2>1. PICK p \in pairings : p.approved /\ p.account \in {j, k} /\ p.credential = credential
    BY <1>2 DEF UniqueInv, RegistrationsAreUnique
  <2> QED BY <2>1
<1>3. ASSUME NEW j \in DOMAIN accounts, j # i, NEW credential \in held \cap accounts[j].keys
      PROVE  Paired(i, j, credential) /\ Paired(j, i, credential)
  <2>1. CASE credential \in accounts[i].keys
    BY <1>2, <1>3, <2>1
  <2>2. CASE credential \notin accounts[i].keys
    BY <1>3, <2>2 DEF Unowned
  <2> QED BY <2>1, <2>2
<1>4. ASSUME NEW j \in DOMAIN accounts', NEW k \in DOMAIN accounts', j # k
      PROVE  /\ \A credential \in accounts'[j].keys \cap accounts'[k].keys :
                   Paired(j, k, credential)
             /\ accounts'[j].alias = accounts'[k].alias
                   => ~ (accounts'[j].reserved /\ accounts'[k].reserved)
  <2>1. accounts'[j].alias = accounts'[k].alias
            => ~ (accounts'[j].reserved /\ accounts'[k].reserved)
    BY <1>1, <1>4 DEF UniqueInv, RegistrationsAreUnique
  <2>2. CASE j = i
    BY <1>1, <1>3, <1>4, <2>1, <2>2
  <2>3. CASE k = i
    BY <1>1, <1>3, <1>4, <2>1, <2>3
  <2>4. CASE j # i /\ k # i
    BY <1>1, <1>2, <1>4, <2>1, <2>4
  <2> QED BY <2>2, <2>3, <2>4
<1>5. RegistrationsAreUnique'
  BY <1>4 DEF RegistrationsAreUnique
<1> QED BY <1>1, <1>5 DEF UniqueInv

LEMMA RegistrationInit == Init => RegistrationInv
  BY RegistrationAssumption
     DEF Init, RegistrationInv, RegistrationsTyped, UniqueInv, RegistrationsAreUnique

LEMMA RegistrationSucceeds ==
    ASSUME RegistrationsTyped, UniqueInv, NEW c \in completing, CompletionSucceeds(c)
    PROVE  UniqueInv'
<1> DEFINE holds == /\ c.alias \in DOMAIN Live(reservations)
                    /\ reservations[c.alias].owner = c.owner
<1>1. PICK new \in AccountRecords :
          /\ new.keys = {c.credential} /\ new.alias = c.alias /\ new.reserved = holds
          /\ accounts' = Append(accounts, new)
  BY AccountOf DEF CompletionSucceeds
<1>2. reservations' = Released(Live(reservations), {c}) /\ pairings' = pairings
  BY DEF CompletionSucceeds, Finished
<1>3. DOMAIN reservations' \subseteq DOMAIN reservations
  BY <1>2, ReleasedIsLess, LiveIsLess
<1>4. \A i \in DOMAIN accounts : c.credential \notin accounts[i].keys
  BY DEF CompletionSucceeds, Unowned
<1>5. \A i \in DOMAIN accounts : accounts[i].alias = c.alias => ~ (accounts[i].reserved /\ holds)
  BY LiveIsLess DEF UniqueInv
<1>6. holds => c.alias \notin DOMAIN reservations'
  BY <1>2, LiveIsLess DEF Released, Restrict
<1> HIDE DEF holds
<1>7. /\ DOMAIN accounts' = DOMAIN accounts \cup {Len(accounts) + 1}
      /\ Len(accounts) + 1 \notin DOMAIN accounts
      /\ \A i \in DOMAIN accounts : accounts'[i] = accounts[i]
      /\ accounts'[Len(accounts) + 1] = new
  BY <1>1 DEF RegistrationsTyped
<1>8. RegistrationsAreUnique'
  BY <1>1, <1>2, <1>4, <1>5, <1>7 DEF UniqueInv, RegistrationsAreUnique
<1>9. \A i \in DOMAIN accounts' :
          accounts'[i].reserved => accounts'[i].alias \notin DOMAIN reservations'
  BY <1>1, <1>3, <1>6, <1>7 DEF UniqueInv
<1> QED BY <1>8, <1>9 DEF UniqueInv

LEMMA RegistrationNext == RegistrationInv /\ [Next]_registrationVars => RegistrationInv'
<1> SUFFICES ASSUME RegistrationInv, [Next]_registrationVars PROVE RegistrationInv'
  OBVIOUS
<1>0. RegistrationsTyped /\ UniqueInv /\ now \in 0 .. MaxTime
  BY DEF RegistrationInv
<1>1. ASSUME NEW q \in Registrations, NEW alias \in Aliases, NEW owner \in Owners,
             RegistrationOptions(q, alias, owner)
      PROVE  UniqueInv'
  BY <1>0, <1>1, OneMoreReservation DEF RegistrationOptions
<1>2. ASSUME NEW q \in Registrations, ReleaseRegistration(q) PROVE UniqueInv'
  BY <1>0, <1>2, FewerReservations, ReleasedIsLess, KeptIsLess DEF ReleaseRegistration
<1>3. ASSUME NEW q \in Registrations, NEW credential \in Credentials,
             BeginCompletion(q, credential)
      PROVE  UniqueInv'
  BY <1>0, <1>3, FewerReservations, KeptIsLess DEF BeginCompletion, Cleanup
<1>4. ASSUME NEW c \in completing, CompletionRefused(c) PROVE UniqueInv'
  BY <1>0, <1>4, FewerReservations DEF CompletionRefused
<1>5. ASSUME NEW c \in completing, CompletionFails(c) PROVE UniqueInv'
  BY <1>0, <1>5, FewerReservations, ReleasedIsLess, LiveIsLess DEF CompletionFails, Finished
<1>6. ASSUME NEW c \in completing, CompletionSucceeds(c) PROVE UniqueInv'
  BY <1>0, <1>6, RegistrationSucceeds
<1>7. ASSUME NEW h \in Handoffs, NEW alias \in Aliases, NEW prior \in Owners \cup {"none"},
             NEW owner \in Owners, CreateHandoff(h, alias, prior, owner)
      PROVE  UniqueInv'
  BY <1>0, <1>7, OneMoreReservation DEF CreateHandoff, TransferAllowed, HoldsAlias
<1>8. ASSUME NEW h \in Handoffs, CompleteHandoff(h) PROVE UniqueInv'
  BY <1>0, <1>8, FewerReservations, ReleasedIsLess, KeptIsLess DEF CompleteHandoff
<1>9. ASSUME Restart PROVE UniqueInv'
  <2>1. DOMAIN reservations' \subseteq DOMAIN reservations
    <3>1. reservations' = <<>>
      BY <1>9 DEF Restart
    <3> QED BY <3>1
  <2> QED BY <1>0, <1>9, <2>1, FewerReservations DEF Restart
<1>10. ASSUME Tick \/ UNCHANGED registrationVars PROVE UniqueInv'
  BY <1>0, <1>10, FewerReservations DEF Tick, registrationVars
<1>11. ASSUME NEW i \in DOMAIN accounts, NEW credential \in Credentials,
              EnrollPasskey(i, credential) \/ RevokePasskey(i, credential)
       PROVE  UniqueInv'
  <2>1. /\ accounts[i].keys \cup {credential} \in SUBSET Credentials
        /\ accounts[i].keys \ {credential} \in SUBSET Credentials
    BY <1>0, PasskeysOf
  <2>2. CASE EnrollPasskey(i, credential)
    BY <1>0, <2>1, <2>2, PasskeysChange DEF EnrollPasskey, OnlyAccounts
  <2>3. CASE RevokePasskey(i, credential)
    BY <1>0, <2>1, <2>3, PasskeysChange DEF RevokePasskey, OnlyAccounts
  <2> QED BY <1>11, <2>2, <2>3
<1>12. ASSUME NEW i \in DOMAIN accounts, NEW credential \in Credentials,
              ProposePairing(i, credential)
       PROVE  UniqueInv'
  <2>1. /\ accounts' = accounts /\ reservations' = reservations
        /\ pairings \subseteq pairings'
    BY <1>12 DEF ProposePairing, OnlyAccounts
  <2> QED BY ONLY <1>0, <2>1 DEF UniqueInv, RegistrationsAreUnique
<1>13. ASSUME NEW p \in pairings, ApprovePairing(p) PROVE UniqueInv'
  <2>1. p \in Pairings /\ p.account \in DOMAIN accounts
    BY <1>0 DEF RegistrationsTyped, Pairings
  <2>2. PICK q \in Pairings : /\ q = [p EXCEPT !.approved = TRUE]
                              /\ q.approved /\ q.account = p.account
                              /\ q.credential = p.credential
    BY <2>1, ApprovedPairing
  <2>3. /\ pairings' = (pairings \ {p}) \cup {q} /\ reservations' = reservations
        /\ accounts' = [accounts EXCEPT ![p.account].keys =
                            accounts[p.account].keys \cup {p.credential}]
    BY <1>13, <2>1, <2>2 DEF ApprovePairing, OnlyAccounts
  <2>4. accounts[p.account].keys \cup {p.credential} \in SUBSET Credentials
    <3>1. p.credential \in Credentials
      BY <2>1 DEF Pairings
    <3> QED BY <1>0, <2>1, <3>1, PasskeysOf
  <2> QED BY ONLY <1>0, <2>1, <2>2, <2>3, <2>4, PasskeysChange
<1>14. CASE Next
  <2>1. UniqueInv'
    BY <1>1, <1>2, <1>3, <1>4, <1>5, <1>6, <1>7, <1>8, <1>9, <1>10, <1>11, <1>12, <1>13,
       <1>14 DEF Next
  <2>2. now' \in 0 .. MaxTime
    BY <1>0, <1>14, RegistrationAssumption, RegistrationClock DEF ClockTicks
  <2> QED BY <1>0, <1>14, <2>1, <2>2, RegistrationsStep DEF RegistrationInv
<1>15. CASE UNCHANGED registrationVars
  <2>1. now' = now /\ UNCHANGED rVars
    BY <1>15 DEF registrationVars, rVars
  <2>2. RegistrationsTyped'
    BY ONLY <1>0, <2>1, UnchangedRegistrations
  <2>3. UniqueInv'
    BY <1>10, <1>15
  <2> QED BY <1>0, <2>1, <2>2, <2>3 DEF RegistrationInv
<1> QED BY <1>14, <1>15

\* However completions, enrollments, pairings, revocations, releases, handoffs, expiries and
\* restarts interleave: accounts share a passkey only by an approved pairing, and no alias
\* has two accounts that held its reservation.
THEOREM RegistrationsUnique == Spec => []RegistrationsAreUnique
<1>1. RegistrationInv => RegistrationsAreUnique
  BY DEF RegistrationInv, UniqueInv
<1> QED BY RegistrationInit, RegistrationNext, <1>1, PTL DEF Spec

-----------------------------------------------------------------------------
(* Approvals: ApprovalsExecuteOnce, for any number of intents and credentials. *)

\* Inductive as it stands, with the counters' type: what was consumed is still known,
\* and what is known is never created anew.
ApprovalInv ==
    /\ executions \in [N!ReplayKey -> Nat]
    /\ N!ApprovalsExecuteOnce

LEMMA ApprovalInit == N!Init => ApprovalInv
  BY DEF N!Init, ApprovalInv, N!ApprovalsExecuteOnce

LEMMA ApprovalNext == ApprovalInv /\ [N!Next]_(N!approvalVars) => ApprovalInv'
<1> SUFFICES ASSUME ApprovalInv, [N!Next]_(N!approvalVars) PROVE ApprovalInv'
  OBVIOUS
<1> USE DEF ApprovalInv, N!ApprovalsExecuteOnce
<1>1. ASSUME NEW c \in Credentials, N!RevokePasskey(c) PROVE ApprovalInv'
  BY <1>1 DEF N!RevokePasskey
<1>2. ASSUME NEW i \in Intents, NEW c \in Credentials, N!CreateIntentApproval(i, c)
      PROVE ApprovalInv'
  BY <1>2 DEF N!CreateIntentApproval, N!Put
<1>3. ASSUME NEW k \in N!ReplayKey, N!ConsumeIntentApproval(k) PROVE ApprovalInv'
  BY <1>3 DEF N!ConsumeIntentApproval, N!ApprovalHolds
<1>4. ASSUME NEW k \in N!ReplayKey, N!RevokeIntentApproval(k) PROVE ApprovalInv'
  BY <1>4 DEF N!RevokeIntentApproval
<1>5. CASE N!Restart
  BY <1>5 DEF N!Restart
<1>6. CASE N!Tick
  BY <1>6 DEF N!Tick
<1>7. CASE UNCHANGED N!approvalVars
  BY <1>7 DEF N!approvalVars
<1> QED BY <1>1, <1>2, <1>3, <1>4, <1>5, <1>6, <1>7 DEF N!Next

\* However often an assertion is sent again, and whatever is done to the approval, the
\* passkey or the clock in between: in one life of the process it executes once.
THEOREM ApprovedOnce == N!Spec => []N!ApprovalsExecuteOnce
<1>1. ApprovalInv => N!ApprovalsExecuteOnce
  BY DEF ApprovalInv
<1> QED BY ApprovalInit, ApprovalNext, <1>1, PTL DEF N!Spec

-----------------------------------------------------------------------------

LEMMA AuthorityClock == A!Next => ClockTicks
  BY DEF ClockTicks, A!Next, A!CreateControlGrant, A!RevokeControlGrant,
         A!CreateAuthorization, A!RecordExternalProof, A!ExecuteMarketplaceSettlement, A!Tick

LEMMA ProofsClock == C!Next => ClockTicks
  BY DEF ClockTicks, C!Next, C!AuthenticationOptions, C!BeginAuthentication,
         C!VerificationFails, C!FinishAuthentication, C!FinishEnrollment, C!IssueUnasserted,
         C!EnrollmentOptions, C!BeginEnrollment, C!RevokePasskey, C!Gossip, C!Exchange,
         C!Introspect, C!Restart, C!Tick

LEMMA ApprovalsClock == N!Next => ClockTicks
  BY DEF ClockTicks, N!Next, N!RevokePasskey, N!CreateIntentApproval,
         N!ConsumeIntentApproval, N!RevokeIntentApproval, N!Restart, N!Tick

\* What a step of the node is for each of the services proved about.
LEMMA StepOfServices ==
    ASSUME [ServicesNext]_servicesVars
    PROVE  /\ I!Next \/ UNCHANGED iVars
           /\ N!Next \/ (UNCHANGED nVars /\ ClockTicks)
           /\ J!Next \/ UNCHANGED jVars
           /\ B!Next \/ UNCHANGED bVars
           /\ Next \/ (UNCHANGED rVars /\ ClockTicks)
           /\ A!Next \/ (UNCHANGED aVars /\ ClockTicks)
           /\ C!Next \/ (UNCHANGED cVars /\ ClockTicks)
           /\ M!Next \/ UNCHANGED mVars
           /\ F!Next \/ UNCHANGED fVars
           /\ P!Next \/ UNCHANGED pVars
           /\ E!Next \/ UNCHANGED eVars
           /\ L!Next \/ UNCHANGED lVars
<1>1. CASE UNCHANGED servicesVars
  BY <1>1 DEF servicesVars, ClockTicks
<1>2. CASE ServicesNext
  BY <1>2, AuthorityClock, RegistrationClock, ProofsClock, ApprovalsClock, ZenonT(60)
     DEF ServicesNext, ClockTicks
<1> QED BY <1>1, <1>2

-----------------------------------------------------------------------------

\* A verdict on an intent that the peers were told of is final in the node.
THEOREM ServicesVerdicts == ServicesSpec => []VerdictsAreFinal
<1>1. ServicesInit => IntentsInv
  BY ServicesAssumption, IntentsInit DEF ServicesInit
<1>2. IntentsInv /\ [ServicesNext]_servicesVars => IntentsInv'
  BY StepOfServices, IntentsNext DEF iVars, I!settlementVars
<1>3. IntentsInv => VerdictsAreFinal
  BY DEF IntentsInv, VerdictsAreFinal
<1> QED BY <1>1, <1>2, <1>3, PTL DEF ServicesSpec

\* An approval executes once in a life of the node, whatever its other services do.
THEOREM ServicesApproveOnce == ServicesSpec => []ApprovalsExecuteOnce
<1>1. ServicesInit => ApprovalInv
  BY ApprovalInit DEF ServicesInit
<1>2. ApprovalInv /\ [ServicesNext]_servicesVars => ApprovalInv'
  <2>1. UNCHANGED nVars => (ApprovalInv => ApprovalInv')
    BY DEF nVars, ApprovalInv, N!ApprovalsExecuteOnce, N!ReplayKey
  <2> QED BY <2>1, StepOfServices, ApprovalNext
<1>3. ApprovalInv => ApprovalsExecuteOnce
  BY DEF ApprovalInv, ApprovalsExecuteOnce
<1> QED BY <1>1, <1>2, <1>3, PTL DEF ServicesSpec

LEMMA RegistrationsStayOnce == ServicesSpec => []RegistrationInv
<1>1. ServicesInit => RegistrationInv
  BY RegistrationInit DEF ServicesInit
<1>2. RegistrationInv /\ [ServicesNext]_servicesVars => RegistrationInv'
  <2> SUFFICES ASSUME RegistrationInv, [ServicesNext]_servicesVars PROVE RegistrationInv'
    OBVIOUS
  <2>1. CASE Next
    BY <2>1, RegistrationNext
  <2>2. CASE UNCHANGED rVars /\ ClockTicks
    <3>1. now' \in 0 .. MaxTime
      BY ONLY <2>2, RegistrationInv, RegistrationAssumption DEF RegistrationInv, ClockTicks
    <3>2. RegistrationsTyped' /\ UniqueInv'
      BY <2>2, UnchangedRegistrations, FewerReservations DEF rVars, RegistrationInv
    <3> QED BY <3>1, <3>2 DEF RegistrationInv
  <2> QED BY <2>1, <2>2, StepOfServices
<1> QED BY <1>1, <1>2, PTL DEF ServicesSpec

\* Passkeys are shared by pairings only, and no alias has two accounts that held it,
\* whatever else the node does.
THEOREM ServicesRegisterOnce == ServicesSpec => []RegistrationsAreUnique
<1>1. RegistrationInv => RegistrationsAreUnique
  BY DEF RegistrationInv, UniqueInv
<1> QED BY RegistrationsStayOnce, <1>1, PTL DEF ServicesSpec

\* Names and requests are stored once in the node's inbox.
THEOREM ServicesAllocateOnce == ServicesSpec => []NamespacesAreUnique
<1>1. ServicesInit => JoinInv
  BY JoinInit DEF ServicesInit
<1>2. JoinInv /\ [ServicesNext]_servicesVars => JoinInv'
  BY StepOfServices, JoinNext DEF jVars, J!joinVars
<1>3. JoinInv => NamespacesAreUnique
  BY DEF JoinInv, NamespacesAreUnique, J!NamespacesAreUnique
<1> QED BY <1>1, <1>2, <1>3, PTL DEF ServicesSpec

\* A restore of the node's realm has what the history that was backed up has, of what the
\* chain of its hashes covers.
THEOREM ServicesRestoreTruly == ServicesSpec => []RestoresAreTrue
<1>1. ServicesInit => B!BackupInv
  BY B!BackupInit DEF ServicesInit
<1>2. B!BackupInv /\ [ServicesNext]_servicesVars => B!BackupInv'
  BY StepOfServices, B!BackupNext DEF bVars, B!backupVars
<1>3. B!BackupInv => RestoresAreTrue
  BY DEF B!BackupInv, RestoresAreTrue
<1> QED BY <1>1, <1>2, <1>3, PTL DEF ServicesSpec

\* A snapshot of the node's realm that verifies rebuilds what the whole history says.
THEOREM ServicesRebuildReplay == ServicesSpec => []SnapshotsRebuildTheReplay
<1>1. ServicesInit => B!BackupInv
  BY B!BackupInit DEF ServicesInit
<1>2. B!BackupInv /\ [ServicesNext]_servicesVars => B!BackupInv'
  BY StepOfServices, B!BackupNext DEF bVars, B!backupVars
<1>3. B!BackupInv => SnapshotsRebuildTheReplay
  BY B!VerifiedRebuilds DEF SnapshotsRebuildTheReplay
<1> QED BY <1>1, <1>2, <1>3, PTL DEF ServicesSpec

-----------------------------------------------------------------------------

\* Of the authority runtime: grants are replaced and revoked but never forgotten, what is
\* recorded as authorized rests on some, and so does what named it when it settled.
AuthorizedByGrants ==
    /\ \A x \in DOMAIN authorizations :
          /\ authorizations[x].matched \subseteq DOMAIN grants
          /\ authorizations[x].status = "authorized" => authorizations[x].matched # {}
    /\ SettlementsAreExplained

\* A step that changes grants only, and forgets none.
LEMMA GrantsStay ==
    ASSUME AuthorizedByGrants, DOMAIN grants \subseteq DOMAIN grants',
           UNCHANGED <<authorizations, settlements>>
    PROVE  AuthorizedByGrants'
  BY DEF AuthorizedByGrants, SettlementsAreExplained, A!SettlementsAreExplained, A!Explained

\* A step that settles on an authorization: a record, or one that was brought along.
LEMMA SettlesExplained ==
    ASSUME AuthorizedByGrants, NEW key, NEW id, NEW a, NEW named \in BOOLEAN, NEW reference,
           A!ExecuteMarketplaceSettlement(key, id, a, named, reference),
           named => \E x \in DOMAIN authorizations : a = authorizations[x]
    PROVE  AuthorizedByGrants'
<1>1. PICK s : s = [named |-> named, grants |-> a.matched]
  OBVIOUS
<1>2. s.named = named /\ s.grants = a.matched
  BY <1>1
<1>3. /\ settlements' = A!Put(settlements, id, s) /\ a.status = "authorized"
      /\ UNCHANGED <<grants, authorizations>>
  BY <1>1 DEF A!ExecuteMarketplaceSettlement, A!VerifyAuthorization
<1>4. named => a.matched # {} /\ a.matched \subseteq DOMAIN grants
  BY <1>3 DEF AuthorizedByGrants
<1>5. \A other \in DOMAIN settlements' :
          \/ other = id /\ settlements'[other] = s
          \/ other \in DOMAIN settlements /\ settlements'[other] = settlements[other]
  BY <1>3 DEF A!Put
<1> QED BY ONLY <1>2, <1>3, <1>4, <1>5, AuthorizedByGrants
       DEF AuthorizedByGrants, SettlementsAreExplained, A!SettlementsAreExplained, A!Explained

LEMMA AuthorizedNext == AuthorizedByGrants /\ A!Next => AuthorizedByGrants'
<1> SUFFICES ASSUME AuthorizedByGrants, A!Next PROVE AuthorizedByGrants'
  OBVIOUS
<1>1. ASSUME NEW id, NEW key, NEW policy, NEW until,
             A!CreateControlGrant(id, key, policy, until) \/ A!RevokeControlGrant(id)
      PROVE  AuthorizedByGrants'
  <2>1. DOMAIN grants \subseteq DOMAIN grants' /\ UNCHANGED <<authorizations, settlements>>
    BY <1>1 DEF A!CreateControlGrant, A!RevokeControlGrant, A!Put
  <2> QED BY <2>1, GrantsStay
<1>2. ASSUME NEW id, NEW key, NEW holds \in BOOLEAN, NEW until,
             A!CreateAuthorization(id, key, holds, until)
      PROVE  AuthorizedByGrants'
  <2>1. PICK a : a = [matched |-> A!Allowing(key), until |-> until,
                      status |-> IF A!Permitted(key, holds) THEN "authorized" ELSE "denied"]
    OBVIOUS
  <2>2. a.matched \subseteq DOMAIN grants /\ (a.status = "authorized" => a.matched # {})
    BY <2>1 DEF A!Permitted, A!Allowing, A!WithPolicy, A!InForce
  <2>3. authorizations' = A!Put(authorizations, id, a) /\ UNCHANGED <<grants, settlements>>
    BY <1>2, <2>1 DEF A!CreateAuthorization
  <2>4. \A x \in DOMAIN authorizations' :
            \/ authorizations'[x] = a
            \/ x \in DOMAIN authorizations /\ authorizations'[x] = authorizations[x]
    BY <2>3 DEF A!Put
  <2> QED BY ONLY <2>2, <2>3, <2>4, AuthorizedByGrants
         DEF AuthorizedByGrants, SettlementsAreExplained, A!SettlementsAreExplained, A!Explained
<1>3. ASSUME NEW reference, NEW status, NEW duplicate,
             A!RecordExternalProof(reference, status, duplicate) \/ A!Tick
      PROVE  AuthorizedByGrants'
  BY <1>3, GrantsStay DEF A!RecordExternalProof, A!Tick
<1>4. ASSUME NEW key, NEW id, NEW x \in DOMAIN authorizations, NEW reference,
             A!ExecuteMarketplaceSettlement(key, id, authorizations[x], TRUE, reference)
      PROVE  AuthorizedByGrants'
  BY <1>4, SettlesExplained
<1>5. ASSUME NEW key, NEW id, NEW a, NEW reference,
             A!ExecuteMarketplaceSettlement(key, id, a, FALSE, reference)
      PROVE  AuthorizedByGrants'
  BY <1>5, SettlesExplained
<1> QED BY <1>1, <1>2, <1>3, <1>4, <1>5 DEF A!Next

\* What settled on an authorization that the node has on record can be explained, by grants
\* that it has, however they were revoked, replaced and the authorization too since.
THEOREM ServicesSettleOnGrants == ServicesSpec => []SettlementsAreExplained
<1>1. ServicesInit => AuthorizedByGrants
  BY DEF ServicesInit, A!Init, AuthorizedByGrants, SettlementsAreExplained,
         A!SettlementsAreExplained
<1>2. AuthorizedByGrants /\ [ServicesNext]_servicesVars => AuthorizedByGrants'
  <2>1. AuthorizedByGrants /\ UNCHANGED aVars => AuthorizedByGrants'
    BY GrantsStay DEF aVars
  <2> QED BY <2>1, AuthorizedNext, StepOfServices
<1>3. AuthorizedByGrants => SettlementsAreExplained
  BY DEF AuthorizedByGrants
<1> QED BY <1>1, <1>2, <1>3, PTL DEF ServicesSpec

-----------------------------------------------------------------------------

ProofRecords == [passkey : Credentials, until : Int, exchanged : 0..1, introspected : 0..1]

\* Of the Connect proofs: a code in store is for a proof that nothing was exchanged for
\* yet, a token for one that was not introspected, and neither outlives its proof.  What
\* leaves the store never returns.
UnusedProofs ==
    /\ now \in Int
    /\ \A v \in verifying : v.passkey \in Credentials
    /\ identityProofs \in Seq(ProofRecords)
    /\ \A i \in codes : /\ i \in DOMAIN identityProofs /\ identityProofs[i].exchanged = 0
                        /\ identityProofs[i].until > now
    /\ \A i \in tokens : /\ i \in DOMAIN identityProofs /\ identityProofs[i].introspected = 0
                         /\ identityProofs[i].until > now

\* Where another service is looked at there are no proofs.
StoreOfProofs == UnusedProofs /\ (family = "proofs" \/ (codes = {} /\ tokens = {}))

LEMMA CountsAreInt ==
    ASSUME NEW rows \in Seq(ProofRecords)
    PROVE  \A i \in DOMAIN rows : rows[i].introspected \in Int
<1>1. \A i \in DOMAIN rows : rows[i] \in ProofRecords
  OBVIOUS
<1> QED BY <1>1 DEF ProofRecords

LEMMA ClockIsInt == now \in Int /\ ClockTicks => now' \in Int
  BY DEF ClockTicks

\* A step that issues no proof and puts nothing into the store.
LEMMA NothingIssued ==
    ASSUME UnusedProofs, now' = now, codes' \subseteq codes, tokens' \subseteq tokens,
           identityProofs' = identityProofs,
           \A v \in verifying' : v \in verifying \/ v.passkey \in Credentials
    PROVE  UnusedProofs'
  BY DEF UnusedProofs

\* A tick, with which what ends leaves the store.
LEMMA ProofsExpire ==
    ASSUME UnusedProofs, ClockTicks, identityProofs' = identityProofs, verifying' = verifying,
           codes' \subseteq codes, tokens' \subseteq tokens,
           \A i \in codes' \cup tokens' : identityProofs[i].until > now'
    PROVE  UnusedProofs'
  BY ClockIsInt DEF UnusedProofs

LEMMA ProofIssued ==
    ASSUME UnusedProofs, NEW p \in Credentials, C!IssueProof(p), now' = now,
           verifying' \subseteq verifying
    PROVE  /\ UnusedProofs'
           /\ \A i \in DOMAIN identityProofs :
                 i \in DOMAIN identityProofs' /\ identityProofs'[i] = identityProofs[i]
<1> DEFINE new == [passkey |-> p, until |-> now + ProofTTL, exchanged |-> 0,
                   introspected |-> 0]
           last == Len(identityProofs) + 1
<1>1. /\ identityProofs' = Append(identityProofs, new)
      /\ codes' = codes \cup {last} /\ tokens' = tokens \cup {last}
  BY DEF C!IssueProof
<1>2. /\ new \in ProofRecords /\ new.exchanged = 0 /\ new.introspected = 0
      /\ new.until > now
  BY ServicesAssumption DEF UnusedProofs, ProofRecords, C!ProofsAssumption
<1> HIDE DEF new
<1>3. /\ identityProofs' \in Seq(ProofRecords)
      /\ last \in DOMAIN identityProofs' /\ identityProofs'[last] = new
      /\ \A i \in DOMAIN identityProofs :
            i \in DOMAIN identityProofs' /\ identityProofs'[i] = identityProofs[i]
  BY <1>1, <1>2 DEF UnusedProofs
<1> HIDE DEF last
<1> QED BY <1>1, <1>2, <1>3 DEF UnusedProofs

\* What a step of the service does to the proofs that are issued already: one is answered
\* for before its end, and by an introspection only while its passkey is not revoked.
ProofsStep ==
    \A j \in DOMAIN identityProofs :
        /\ j \in DOMAIN identityProofs'
        /\ identityProofs'[j] # identityProofs[j] =>
              /\ identityProofs[j].until > now
              /\ identityProofs'[j].introspected > identityProofs[j].introspected
                    => passkeys[identityProofs[j].passkey] # "revoked"

\* A code is exchanged: it leaves the store with the step that counts.
LEMMA CodeExchanged ==
    ASSUME UnusedProofs, NEW i, C!Exchange(i)
    PROVE  UnusedProofs' /\ ProofsStep
<1>1. /\ i \in DOMAIN identityProofs /\ identityProofs[i].exchanged = 0
      /\ identityProofs[i].until > now
      /\ identityProofs \in Seq(ProofRecords) /\ identityProofs[i] \in ProofRecords
  BY DEF C!Exchange, UnusedProofs
<1>2. PICK changed : changed = [identityProofs[i] EXCEPT !.exchanged = @ + 1]
  OBVIOUS
<1>3. /\ changed \in ProofRecords
      /\ changed.introspected = identityProofs[i].introspected
      /\ changed.until = identityProofs[i].until
      /\ identityProofs[i].introspected \in Int
  BY <1>1, <1>2 DEF ProofRecords
<1>4. identityProofs' = [identityProofs EXCEPT ![i] = changed] /\ codes' = codes \ {i}
      /\ UNCHANGED <<now, verifying, tokens>>
  BY <1>2 DEF C!Exchange
<1>5. identityProofs' \in Seq(ProofRecords) /\ DOMAIN identityProofs' = DOMAIN identityProofs
      /\ \A j \in DOMAIN identityProofs :
            identityProofs'[j] = IF j = i THEN changed ELSE identityProofs[j]
  BY <1>1, <1>3, <1>4
<1>6. UnusedProofs'
  BY <1>3, <1>4, <1>5 DEF UnusedProofs
<1>7. ProofsStep
  BY <1>1, <1>3, <1>5 DEF ProofsStep
<1> QED BY <1>6, <1>7

LEMMA TokenAnswered ==
    ASSUME UnusedProofs, NEW i, C!Introspect(i)
    PROVE  UnusedProofs' /\ ProofsStep
<1>1. /\ i \in DOMAIN identityProofs /\ identityProofs[i].introspected = 0
      /\ identityProofs[i].until > now
      /\ identityProofs \in Seq(ProofRecords) /\ identityProofs[i] \in ProofRecords
  BY DEF C!Introspect, UnusedProofs
<1>2. tokens' = tokens \ {i} /\ UNCHANGED <<now, verifying, codes>>
  BY DEF C!Introspect
<1>3. CASE C!ProofHolds(i)
  <2>1. PICK changed : changed = [identityProofs[i] EXCEPT !.introspected = @ + 1]
    OBVIOUS
  <2>2. /\ changed \in ProofRecords /\ changed.exchanged = identityProofs[i].exchanged
        /\ changed.until = identityProofs[i].until
    BY <1>1, <2>1 DEF ProofRecords
  <2>3. identityProofs' = [identityProofs EXCEPT ![i] = changed]
    BY <1>3, <2>1 DEF C!Introspect
  <2>4. identityProofs' \in Seq(ProofRecords) /\ DOMAIN identityProofs' = DOMAIN identityProofs
        /\ \A j \in DOMAIN identityProofs :
              identityProofs'[j] = IF j = i THEN changed ELSE identityProofs[j]
    BY <1>1, <2>2, <2>3
  <2>5. passkeys[identityProofs[i].passkey] # "revoked"
    BY <1>3 DEF C!ProofHolds
  <2>6. UnusedProofs'
    BY <1>2, <2>2, <2>4 DEF UnusedProofs
  <2>7. ProofsStep
    BY <1>1, <2>4, <2>5 DEF ProofsStep
  <2> QED BY <2>6, <2>7
<1>4. CASE ~ C!ProofHolds(i)
  <2>1. identityProofs' = identityProofs
    BY <1>4 DEF C!Introspect
  <2> QED BY <1>2, <2>1, NothingIssued DEF ProofsStep
<1> QED BY <1>3, <1>4

LEMMA ProofsNext ==
    ASSUME UnusedProofs, C!Next
    PROVE  UnusedProofs' /\ ProofsStep
<1>1. CASE \/ \E ch \in AuthRequests, purpose \in {"authorize", "manage"},
                 capsule \in Credentials \cup {C!Nobody} :
                    C!AuthenticationOptions(ch, purpose, capsule)
           \/ \E ch \in AuthRequests, p \in Credentials :
                 C!BeginAuthentication(ch, p) \/ C!BeginEnrollment(ch, p)
           \/ \E v \in verifying : C!VerificationFails(v) \/ C!FinishEnrollment(v)
           \/ \E ch \in AuthRequests : C!EnrollmentOptions(ch)
           \/ \E p \in Credentials : C!RevokePasskey(p)
           \/ \E p \in Credentials, status \in {"active", "revoked"} : C!Gossip(p, status)
  <2>1. UNCHANGED <<now, identityProofs, codes, tokens>>
    BY <1>1 DEF C!AuthenticationOptions, C!BeginAuthentication, C!BeginEnrollment,
       C!VerificationFails, C!FinishEnrollment, C!EnrollmentOptions, C!RevokePasskey, C!Gossip
  <2>2. ASSUME NEW ch, NEW p \in Credentials,
               C!BeginAuthentication(ch, p) \/ C!BeginEnrollment(ch, p)
        PROVE  \E v : verifying' = verifying \cup {v} /\ v.passkey \in Credentials
    <3>1. \A purpose : [challenge |-> ch, passkey |-> p, purpose |-> purpose].passkey = p
      OBVIOUS
    <3>2. \E purpose : verifying' = verifying \cup
                          {[challenge |-> ch, passkey |-> p, purpose |-> purpose]}
      BY <2>2 DEF C!BeginAuthentication, C!BeginEnrollment
    <3> QED BY <3>1, <3>2
  <2>3. \/ verifying' \subseteq verifying
        \/ \E v : verifying' = verifying \cup {v} /\ v.passkey \in Credentials
    BY <1>1, <2>2 DEF C!AuthenticationOptions, C!VerificationFails, C!FinishEnrollment,
       C!EnrollmentOptions, C!RevokePasskey, C!Gossip
  <2> QED BY <2>1, <2>3, NothingIssued DEF ProofsStep
<1>2. ASSUME NEW v \in verifying, C!FinishAuthentication(v) PROVE UnusedProofs' /\ ProofsStep
  <2>1. now' = now /\ verifying' \subseteq verifying /\ v.passkey \in Credentials
    BY <1>2 DEF C!FinishAuthentication, UnusedProofs
  <2>2. CASE C!IssueProof(v.passkey)
    BY <2>1, <2>2, ProofIssued DEF ProofsStep
  <2>3. CASE UNCHANGED <<identityProofs, codes, tokens>>
    BY <2>1, <2>3, NothingIssued DEF ProofsStep
  <2> QED BY <1>2, <2>2, <2>3 DEF C!FinishAuthentication
<1>3. CASE C!IssueUnasserted
  <2>1. FirstPasskey \in Credentials
    BY ServicesAssumption DEF C!ProofsAssumption
  <2>2. now' = now /\ verifying' = verifying /\ C!IssueProof(FirstPasskey)
    BY <1>3 DEF C!IssueUnasserted
  <2> QED BY <2>1, <2>2, ProofIssued DEF ProofsStep
<1>4. ASSUME NEW i, C!Exchange(i) PROVE UnusedProofs' /\ ProofsStep
  BY <1>4, CodeExchanged
<1>5. ASSUME NEW i, C!Introspect(i) PROVE UnusedProofs' /\ ProofsStep
  BY <1>5, TokenAnswered
<1>6. CASE C!Restart
  BY <1>6, NothingIssued DEF C!Restart, ProofsStep
<1>7. CASE C!Tick
  <2>1. /\ identityProofs' = identityProofs /\ verifying' = verifying /\ now' = now + 1
        /\ codes' \subseteq codes /\ tokens' \subseteq tokens
        /\ \A i \in codes' \cup tokens' : identityProofs[i].until > now + 1
    BY <1>7 DEF C!Tick
  <2>2. ClockTicks
    BY <1>7, ProofsClock DEF C!Next
  <2> QED BY <2>1, <2>2, ProofsExpire DEF ProofsStep
<1> QED BY <1>1, <1>2, <1>3, <1>4, <1>5, <1>6, <1>7 DEF C!Next

\* Only this service's own clock moves while it holds proofs.
LEMMA StepOfProofs ==
    ASSUME [ServicesNext]_servicesVars
    PROVE  /\ family' = family
           /\ \/ family = "proofs" /\ C!Next
              \/ UNCHANGED cVars /\ now' = now
              \/ family # "proofs" /\ UNCHANGED cVars /\ ClockTicks
<1>1. CASE UNCHANGED servicesVars
  BY <1>1 DEF servicesVars
<1>2. CASE ServicesNext
  BY <1>2, AuthorityClock, RegistrationClock, ApprovalsClock, ZenonT(60) DEF ServicesNext
<1> QED BY <1>1, <1>2

LEMMA StoreNext ==
    ASSUME StoreOfProofs, [ServicesNext]_servicesVars
    PROVE  /\ StoreOfProofs'
           /\ ProofsStep \/ identityProofs' = identityProofs
<1>1. CASE family = "proofs" /\ C!Next
  BY <1>1, StepOfProofs, ProofsNext DEF StoreOfProofs
<1>2. CASE UNCHANGED cVars /\ now' = now
  BY <1>2, StepOfProofs, NothingIssued DEF StoreOfProofs, cVars
<1>3. CASE family # "proofs" /\ UNCHANGED cVars /\ ClockTicks
  BY <1>3, StepOfProofs, ProofsExpire DEF StoreOfProofs, cVars
<1> QED BY <1>1, <1>2, <1>3, StepOfProofs

\* A proof is exchanged once and introspected once, and never after its end; what is
\* answered for by introspection is not of a passkey that is revoked by then, by whomever.
\* The exchange does not ask for that.
THEOREM ServicesProofsOnce == ServicesSpec => ProofsAreWorthOneUse
<1> DEFINE Once == \A i \in DOMAIN identityProofs' :
                      /\ identityProofs'[i].exchanged <= 1 /\ identityProofs'[i].introspected <= 1
                      /\ (i \in DOMAIN identityProofs
                              /\ identityProofs'[i] # identityProofs[i]) =>
                            /\ identityProofs[i].until > now
                            /\ identityProofs'[i].introspected > identityProofs[i].introspected
                                  => passkeys[identityProofs[i].passkey] # "revoked"
<1>1. ServicesInit => StoreOfProofs
  BY DEF ServicesInit, C!Init, UnusedProofs, StoreOfProofs
<1>2. StoreOfProofs /\ [ServicesNext]_servicesVars => StoreOfProofs'
  BY StoreNext
<1>3. StoreOfProofs /\ [ServicesNext]_servicesVars => [Once]_(C!proofsVars)
  <2> SUFFICES ASSUME StoreOfProofs, [ServicesNext]_servicesVars PROVE Once
    OBVIOUS
  <2>1. UnusedProofs'
    BY <1>2 DEF StoreOfProofs
  <2>2. ASSUME NEW i \in DOMAIN identityProofs'
        PROVE  identityProofs'[i].exchanged <= 1 /\ identityProofs'[i].introspected <= 1
    <3>1. identityProofs'[i] \in ProofRecords
      BY <2>1 DEF UnusedProofs
    <3> QED BY <3>1 DEF ProofRecords
  <2>3. ASSUME NEW i \in DOMAIN identityProofs, identityProofs'[i] # identityProofs[i]
        PROVE  /\ identityProofs[i].until > now
               /\ identityProofs'[i].introspected > identityProofs[i].introspected
                     => passkeys[identityProofs[i].passkey] # "revoked"
    <3>1. ProofsStep
      BY <2>3, StoreNext
    <3> QED BY <2>3, <3>1 DEF ProofsStep
  <2> QED BY <2>2, <2>3
<1> QED BY <1>1, <1>2, <1>3, PTL
        DEF ServicesSpec, ProofsAreWorthOneUse, C!ProofsAreWorthOneUse

-----------------------------------------------------------------------------

SellersTyped == sellers \in [DOMAIN sellers -> M!Seller]

\* What a refresh leaves: the identity and the payout, and an activation that is the
\* checklist's answer.
LEMMA RefreshTells ==
    ASSUME NEW seller \in M!Seller, NEW s, NEW offers
    PROVE  LET r == M!Refreshed(seller, s, offers)
           IN  /\ r \in M!Seller
               /\ r.identity = seller.identity /\ r.payout = seller.payout
               /\ r.activation = "ready_to_launch" => M!Ready(r, s, offers)
  BY DEF M!Refreshed, M!Ready, M!Seller, M!Statuses

\* A step in which at most s changes, to a record that a refresh left.
LaunchesReady(s) ==
    /\ s \in DOMAIN sellers' /\ sellers'[s] \in M!Seller
    /\ sellers'[s].activation = "ready_to_launch" => M!Ready(sellers'[s], s, listings')
    /\ DOMAIN sellers' = DOMAIN sellers \cup {s}
    /\ \A t \in DOMAIN sellers \ {s} : sellers'[t] = sellers[t]

\* Every step of the service is such a step for one seller.
LEMMA SellersNext ==
    ASSUME SellersTyped, M!Next
    PROVE  \E s \in Sellers : LaunchesReady(s) /\ sellers' \in [DOMAIN sellers' -> M!Seller]
<1>1. ASSUME NEW s \in Sellers, NEW identified \in BOOLEAN, NEW payout \in BOOLEAN,
             NEW status \in M!Statuses, M!UpsertSeller(s, identified, payout, status)
      PROVE  LaunchesReady(s) /\ sellers' \in [DOMAIN sellers' -> M!Seller]
  <2> DEFINE seller == [identity |-> identified, payout |-> payout, status |-> status,
                        activation |-> "not_ready"]
             refreshed == M!Refreshed(seller, s, listings)
  <2>1. seller \in M!Seller
    BY DEF M!Seller
  <2>2. /\ refreshed \in M!Seller
        /\ refreshed.activation = "ready_to_launch" => M!Ready(refreshed, s, listings)
    BY <2>1, RefreshTells
  <2>3. sellers' = M!Put(sellers, s, refreshed) /\ listings' = listings
    BY <1>1 DEF M!UpsertSeller
  <2> HIDE DEF refreshed
  <2> QED BY <2>2, <2>3 DEF LaunchesReady, SellersTyped, M!Put
<1>2. ASSUME NEW l \in Listings, NEW s \in Sellers, NEW offered \in BOOLEAN,
             M!UpsertListing(l, s, offered)
      PROVE  LaunchesReady(s) /\ sellers' \in [DOMAIN sellers' -> M!Seller]
  <2> DEFINE refreshed == M!Refreshed(sellers[s], s, listings')
  <2>1. s \in DOMAIN sellers /\ sellers[s] \in M!Seller
    BY <1>2 DEF M!UpsertListing, SellersTyped
  <2>2. /\ refreshed \in M!Seller
        /\ refreshed.activation = "ready_to_launch" => M!Ready(refreshed, s, listings')
    BY <2>1, RefreshTells
  <2>3. sellers' = [sellers EXCEPT ![s] = refreshed]
    BY <1>2 DEF M!UpsertListing
  <2> HIDE DEF refreshed
  <2> QED BY <2>1, <2>2, <2>3 DEF LaunchesReady, SellersTyped
<1>3. ASSUME NEW s \in Sellers, M!ActivateSeller(s)
      PROVE  LaunchesReady(s) /\ sellers' \in [DOMAIN sellers' -> M!Seller]
  <2> DEFINE refreshed == M!Refreshed(sellers[s], s, listings)
             launched == IF refreshed.activation = "ready_to_launch"
                         THEN [refreshed EXCEPT !.status = "active"] ELSE refreshed
  <2>1. s \in DOMAIN sellers /\ sellers[s] \in M!Seller
    BY <1>3 DEF M!ActivateSeller, SellersTyped
  <2>2. /\ refreshed \in M!Seller
        /\ refreshed.activation = "ready_to_launch" => M!Ready(refreshed, s, listings)
    BY <2>1, RefreshTells
  <2>3. sellers' = [sellers EXCEPT ![s] = launched] /\ listings' = listings
    BY <1>3 DEF M!ActivateSeller
  <2> HIDE DEF refreshed
  <2>4. /\ launched \in M!Seller
        /\ launched.activation = "ready_to_launch" => M!Ready(launched, s, listings)
    BY <2>2 DEF M!Seller, M!Statuses, M!Ready
  <2> HIDE DEF launched
  <2> QED BY <2>1, <2>3, <2>4 DEF LaunchesReady, SellersTyped
<1> QED BY <1>1, <1>2, <1>3 DEF M!Next

\* No seller is shown as ready and active that lacks something at that moment.
THEOREM ServicesLaunchReady == ServicesSpec => OnlyReadySellersLaunch
<1> DEFINE Ready == \A s \in DOMAIN sellers :
                       (/\ sellers[s].status # "active" /\ sellers'[s].status = "active"
                        /\ sellers'[s].activation = "ready_to_launch")
                           => M!Ready(sellers'[s], s, listings')
<1>1. ServicesInit => SellersTyped
  BY DEF ServicesInit, M!Init, SellersTyped
<1>2. SellersTyped /\ [ServicesNext]_servicesVars => SellersTyped'
  BY StepOfServices, SellersNext DEF SellersTyped, mVars
<1>3. SellersTyped /\ [ServicesNext]_servicesVars => [Ready]_(M!sellersVars)
  BY StepOfServices, SellersNext DEF LaunchesReady, mVars
<1> QED BY <1>1, <1>2, <1>3, PTL
        DEF ServicesSpec, OnlyReadySellersLaunch, M!OnlyReadySellersLaunch

-----------------------------------------------------------------------------

FirstHistory(root) == <<[epoch |-> 0, root |-> root]>>

\* Of the federation: a receipt names an epoch that there was, and the history of the
\* primary subnet is the law of the boot, as its registry is not told of another.
ReceiptsKept ==
    /\ epochs \in Seq(Roots) /\ epochs # <<>>
    /\ receipts \in [DOMAIN receipts -> [quorum : BOOLEAN, epoch : Nat, root : Roots]]
    /\ \A id \in DOMAIN receipts : F!ValidInItsEpoch(receipts[id])
    /\ PrimarySubnet \in DOMAIN subnets /\ DOMAIN subnets[PrimarySubnet] = {"status", "root", "epoch", "history"}
    /\ subnets[PrimarySubnet].history = FirstHistory(epochs[1])

\* A step that keeps the receipts and all epochs, and does nothing to that history.
LEMMA ReceiptsUntouched ==
    ASSUME ReceiptsKept, receipts' = receipts, epochs' \in Seq(Roots),
           Len(epochs') >= Len(epochs), \A e \in DOMAIN epochs : epochs'[e] = epochs[e],
           PrimarySubnet \in DOMAIN subnets',
           DOMAIN subnets'[PrimarySubnet] = {"status", "root", "epoch", "history"},
           subnets'[PrimarySubnet].history = subnets[PrimarySubnet].history
    PROVE  ReceiptsKept'
<1>1. epochs' # <<>> /\ epochs'[1] = epochs[1]
  BY DEF ReceiptsKept
<1>2. \A id \in DOMAIN receipts : F!ValidInItsEpoch(receipts[id])'
  BY DEF ReceiptsKept, F!ValidInItsEpoch
<1> QED BY <1>1, <1>2 DEF ReceiptsKept

\* A registered receipt stays, and verifies where it has to.
ReceiptsStay ==
    \A id \in DOMAIN receipts : id \in DOMAIN receipts' /\ receipts'[id] = receipts[id]

LEMMA FederationNext ==
    ASSUME ReceiptsKept, F!Next
    PROVE  ReceiptsKept' /\ ReceiptsStay
<1>1. ASSUME NEW id \in OtherSubnets, NEW root \in Roots, F!RegisterSubnet(id, root)
      PROVE  ReceiptsKept' /\ ReceiptsStay
  <2>1. subnets' = F!Put(subnets, id, F!Subnet(root)) /\ UNCHANGED <<epochs, receipts>>
    BY <1>1 DEF F!RegisterSubnet, F!Register
  <2>2. PrimarySubnet \in DOMAIN subnets' /\ subnets'[PrimarySubnet] = subnets[PrimarySubnet]
    BY ServicesAssumption, <2>1 DEF F!FederationAssumption, F!Put, ReceiptsKept
  <2> QED BY <2>1, <2>2, ReceiptsUntouched DEF ReceiptsKept, ReceiptsStay
<1>2. ASSUME NEW id \in OtherSubnets, NEW root \in Roots, NEW epoch,
             F!UpdateSubnetConstitution(id, root, epoch)
      PROVE  ReceiptsKept' /\ ReceiptsStay
  <2>1. PrimarySubnet \in DOMAIN subnets' /\ subnets'[PrimarySubnet] = subnets[PrimarySubnet]
        /\ UNCHANGED <<epochs, receipts>>
    BY ServicesAssumption, <1>2 DEF F!FederationAssumption, F!UpdateSubnetConstitution, F!Register, ReceiptsKept
  <2> QED BY <2>1, ReceiptsUntouched DEF ReceiptsKept, ReceiptsStay
<1>3. ASSUME NEW id \in F!SubnetIds, NEW status \in F!Statuses, F!SetSubnetStatus(id, status)
      PROVE  ReceiptsKept' /\ ReceiptsStay
  <2>1. PrimarySubnet \in DOMAIN subnets'
        /\ DOMAIN subnets'[PrimarySubnet] = {"status", "root", "epoch", "history"}
        /\ subnets'[PrimarySubnet].history = subnets[PrimarySubnet].history
        /\ UNCHANGED <<epochs, receipts>>
    BY <1>3 DEF F!SetSubnetStatus, F!Register, ReceiptsKept
  <2> QED BY <2>1, ReceiptsUntouched DEF ReceiptsKept, ReceiptsStay
<1>4. ASSUME NEW root \in Roots, F!Enact(root) PROVE ReceiptsKept' /\ ReceiptsStay
  <2>1. epochs' = Append(epochs, root) /\ UNCHANGED <<subnets, receipts>>
    BY <1>4 DEF F!Enact
  <2>2. epochs' \in Seq(Roots) /\ Len(epochs') >= Len(epochs)
        /\ \A e \in DOMAIN epochs : epochs'[e] = epochs[e]
    BY <2>1 DEF ReceiptsKept
  <2> QED BY <2>1, <2>2, ReceiptsUntouched DEF ReceiptsKept, ReceiptsStay
<1>5. ASSUME NEW intent \in Intents, NEW proof \in Evidence, NEW quorum \in BOOLEAN,
             F!IssueReceipt(intent, proof, quorum)
      PROVE  ReceiptsKept' /\ ReceiptsStay
  <2> DEFINE id == F!ReceiptId(intent, proof, "FINALIZED")
             r == F!Receipt(quorum)
  <2>1. r \in [quorum : BOOLEAN, epoch : Nat, root : Roots]
        /\ r.epoch = Len(epochs) - 1 /\ r.root = epochs[Len(epochs)]
    BY DEF ReceiptsKept, F!Receipt
  <2>2. F!ValidInItsEpoch(r)
    BY <2>1 DEF F!ValidInItsEpoch, ReceiptsKept
  <2>3. UNCHANGED <<epochs, subnets>>
        /\ receipts' = IF id \in DOMAIN receipts THEN receipts ELSE F!Put(receipts, id, r)
    BY <1>5 DEF F!IssueReceipt
  <2> HIDE DEF id, r
  <2>4. CASE id \in DOMAIN receipts
    BY <2>3, <2>4, ReceiptsUntouched DEF ReceiptsKept, ReceiptsStay
  <2>5. CASE id \notin DOMAIN receipts
    <3>1. /\ receipts' \in [DOMAIN receipts' -> [quorum : BOOLEAN, epoch : Nat, root : Roots]]
          /\ \A other \in DOMAIN receipts' :
                receipts'[other] = r
                    \/ (other \in DOMAIN receipts /\ receipts'[other] = receipts[other])
          /\ ReceiptsStay
      BY <2>1, <2>3, <2>5 DEF ReceiptsKept, ReceiptsStay, F!Put
    <3>2. \A other \in DOMAIN receipts' : F!ValidInItsEpoch(receipts[other])'
      BY <2>2, <2>3, <3>1 DEF ReceiptsKept, F!ValidInItsEpoch
    <3> QED BY <2>3, <3>1, <3>2 DEF ReceiptsKept
  <2> QED BY <2>4, <2>5
<1>6. \A ok, late : F!QuorumMet(ok, late) \in BOOLEAN
  BY DEF F!QuorumMet
<1> QED BY <1>1, <1>2, <1>3, <1>4, <1>5, <1>6 DEF F!Next

\* A receipt stays as it was issued and verifies under the law of its time.
THEOREM ServicesReceiptsStand == ServicesSpec => ReceiptsStand
<1> DEFINE Stand == \A id \in DOMAIN receipts :
                       /\ id \in DOMAIN receipts' /\ receipts'[id] = receipts[id]
                       /\ F!ValidInItsEpoch(receipts[id])'
                       /\ Len(epochs') = 1 => F!ValidInSubnet(receipts[id], PrimarySubnet)'
<1>1. ServicesInit => ReceiptsKept
  <2> SUFFICES ASSUME F!Init PROVE ReceiptsKept
    BY DEF ServicesInit
  <2>1. PICK root \in Roots : epochs = <<root>>
    BY DEF F!Init
  <2>2. subnets[PrimarySubnet] = F!Subnet(root) /\ PrimarySubnet \in DOMAIN subnets /\ receipts = <<>>
    BY <2>1 DEF F!Init
  <2>3. DOMAIN F!Subnet(root) = {"status", "root", "epoch", "history"}
        /\ F!Subnet(root).history = FirstHistory(root)
    BY DEF F!Subnet, FirstHistory
  <2>4. epochs \in Seq(Roots) /\ epochs # <<>> /\ epochs[1] = root
    BY <2>1
  <2> QED BY <2>2, <2>3, <2>4 DEF ReceiptsKept
<1>2. ReceiptsKept /\ [ServicesNext]_servicesVars => ReceiptsKept' /\ ReceiptsStay
  <2>1. ReceiptsKept /\ UNCHANGED fVars => ReceiptsKept' /\ ReceiptsStay
    BY ReceiptsUntouched DEF fVars, ReceiptsKept, ReceiptsStay
  <2> QED BY <2>1, StepOfServices, FederationNext
<1>3. ReceiptsKept /\ [ServicesNext]_servicesVars => [Stand]_(F!federationVars)
  <2> SUFFICES ASSUME ReceiptsKept, [ServicesNext]_servicesVars PROVE Stand
    OBVIOUS
  <2>1. ReceiptsKept' /\ ReceiptsStay
    BY <1>2
  <2>2. ASSUME NEW id \in DOMAIN receipts
        PROVE  /\ id \in DOMAIN receipts' /\ receipts'[id] = receipts[id]
               /\ F!ValidInItsEpoch(receipts[id])'
    BY <2>1 DEF ReceiptsKept, ReceiptsStay, F!ValidInItsEpoch
  <2>3. ASSUME NEW id \in DOMAIN receipts, Len(epochs') = 1
        PROVE  F!ValidInSubnet(receipts[id], PrimarySubnet)'
    <3>1. receipts'[id] \in [quorum : BOOLEAN, epoch : Nat, root : Roots]
          /\ receipts'[id] = receipts[id]
      BY <2>1 DEF ReceiptsKept, ReceiptsStay
    <3>2. receipts'[id].epoch = 0 /\ receipts'[id].root = epochs'[1]
      BY <2>2, <2>3, <3>1 DEF F!ValidInItsEpoch, ReceiptsKept
    <3>3. PrimarySubnet \in DOMAIN subnets'
          /\ subnets'[PrimarySubnet].history = FirstHistory(epochs'[1])
      BY <2>1 DEF ReceiptsKept
    <3>4. 1 \in DOMAIN FirstHistory(epochs'[1])
          /\ FirstHistory(epochs'[1])[1] = [epoch |-> receipts'[id].epoch, root |-> receipts'[id].root]
      BY <3>2 DEF FirstHistory
    <3> QED BY <3>1, <3>3, <3>4 DEF F!ValidInSubnet
  <2> QED BY <2>2, <2>3
<1> QED BY <1>1, <1>2, <1>3, PTL DEF ServicesSpec, ReceiptsStand, F!ReceiptsStand

-----------------------------------------------------------------------------
(* Identity events: LogsReplay, for any number of nodes, keys and events.      *)

\* The identities and the events of a run of m events.
IdentityStates(m) ==
    [known : BOOLEAN, keys : [Credentials -> {"absent", "active", "revoked"}],
     proposals : SUBSET [id : 1 .. m, key : Credentials]]

LoggedEvents(m) == [id : 1 .. m, type : E!Types, key : Credentials, proposal : 0 .. m]

\* What the replay of a log has at each of its events.
ReplayResults(m) == [ok : BOOLEAN, state : IdentityStates(m)]

ReplayStart == [ok |-> TRUE, state |-> E!NoIdentity]

ReplayStep(result, e) ==
    [ok |-> result.ok /\ ~ E!Throws(result.state, e), state |-> E!After(result.state, e)]

ReplayRun(m, events, results) ==
    /\ results \in [0 .. Len(events) -> ReplayResults(m)]
    /\ results[0] = ReplayStart
    /\ \A i \in 1 .. Len(events) : results[i] = ReplayStep(results[i - 1], events[i])

LEMMA KeyActivated ==
    ASSUME NEW m \in Nat, NEW s \in IdentityStates(m), NEW key \in Credentials
    PROVE  E!Activated(s, key) \in IdentityStates(m)
<1>1. E!Activated(s, key) = [known |-> s.known, keys |-> [s.keys EXCEPT ![key] = "active"],
                             proposals |-> s.proposals]
  BY DEF E!Activated, IdentityStates
<1>2. [s.keys EXCEPT ![key] = "active"] \in [Credentials -> {"absent", "active", "revoked"}]
  BY DEF IdentityStates
<1> QED BY <1>1, <1>2 DEF IdentityStates

LEMMA AfterTyped ==
    ASSUME NEW m \in Nat, NEW s \in IdentityStates(m), NEW e \in LoggedEvents(m)
    PROVE  E!After(s, e) \in IdentityStates(m)
<1>1. /\ s.keys \in [Credentials -> {"absent", "active", "revoked"}]
      /\ s.proposals \in SUBSET [id : 1 .. m, key : Credentials]
      /\ e.key \in Credentials /\ e.id \in 1 .. m
  BY DEF IdentityStates, LoggedEvents
<1>2. E!Activated(s, e.key) \in IdentityStates(m)
  BY <1>1, KeyActivated
<1>3. CASE e.type = "GENESIS"
  <2>1. E!OnlyKey(e.key) \in [Credentials -> {"absent", "active", "revoked"}]
    BY DEF E!OnlyKey
  <2>2. [s EXCEPT !.known = TRUE, !.keys = E!OnlyKey(e.key)] \in IdentityStates(m)
    BY <2>1 DEF IdentityStates
  <2> QED BY <1>3, <2>2 DEF E!After
<1>4. CASE e.type = "PASSKEY_ADDED"
  BY <1>2, <1>4 DEF E!After
<1>5. CASE e.type = "PASSKEY_REVOKED"
  <2> DEFINE keep == IF s.keys[e.key] = "absent" THEN s.keys[e.key] ELSE "revoked"
  <2>1. E!After(s, e) = [s EXCEPT !.keys[e.key] = keep]
    BY <1>5 DEF E!After, IdentityStates
  <2>2. keep \in {"absent", "active", "revoked"}
    BY <1>1
  <2> HIDE DEF keep
  <2>3. [s.keys EXCEPT ![e.key] = keep] \in [Credentials -> {"absent", "active", "revoked"}]
    BY <1>1, <2>2
  <2>4. [s EXCEPT !.keys[e.key] = keep]
           = [known |-> s.known, keys |-> [s.keys EXCEPT ![e.key] = keep],
              proposals |-> s.proposals]
    BY DEF IdentityStates
  <2> QED BY <2>1, <2>3, <2>4 DEF IdentityStates
<1>6. CASE e.type = "NATIVE_CONTROLLER_BOOTSTRAPPED"
  <2>1. [E!Activated(s, e.key) EXCEPT !.known = TRUE] \in IdentityStates(m)
    BY <1>2 DEF IdentityStates
  <2> QED BY <1>6, <2>1 DEF E!After
<1>7. CASE e.type = "CONTROLLER_BINDING_PROPOSED"
  <2>1. s.proposals \cup {[id |-> e.id, key |-> e.key]} \in SUBSET [id : 1 .. m, key : Credentials]
    BY <1>1
  <2>2. [s EXCEPT !.proposals = s.proposals \cup {[id |-> e.id, key |-> e.key]}]
           \in IdentityStates(m)
    BY <2>1 DEF IdentityStates
  <2> QED BY <1>7, <2>2 DEF E!After
<1>8. CASE e.type = "CONTROLLER_BINDING_APPROVED"
  BY <1>2, <1>8 DEF E!After
<1> QED BY <1>3, <1>4, <1>5, <1>6, <1>7, <1>8 DEF LoggedEvents, E!Types

LEMMA ReplayStepTyped ==
    ASSUME NEW m \in Nat, NEW result \in ReplayResults(m), NEW e \in LoggedEvents(m)
    PROVE  ReplayStep(result, e) \in ReplayResults(m)
<1>1. E!After(result.state, e) \in IdentityStates(m)
  BY AfterTyped DEF ReplayResults
<1>2. (result.ok /\ ~ E!Throws(result.state, e)) \in BOOLEAN
  OBVIOUS
<1> QED BY <1>1, <1>2 DEF ReplayStep, ReplayResults

LEMMA ReplayStartTyped ==
    ASSUME NEW m \in Nat
    PROVE  ReplayStart \in ReplayResults(m)
<1>1. E!NoIdentity \in IdentityStates(m)
  BY DEF E!NoIdentity, IdentityStates
<1> QED BY <1>1 DEF ReplayStart, ReplayResults

\* The replay of a log is the last of its results: the fold empties the set of positions
\* from the largest down, which is one event after the other.
LEMMA ReplayUnfolds ==
    ASSUME NEW m \in Nat, NEW events \in Seq(LoggedEvents(m))
    PROVE  \E results : ReplayRun(m, events, results) /\ E!Replay(events) = results[Len(events)]
<1> DEFINE k    == Len(events)
           step == [p \in (1 .. k) \X ReplayResults(m) |-> ReplayStep(p[2], events[p[1]])]
           Equation(f) == f = [s \in SUBSET DOMAIN events |->
                                 IF s = {} THEN ReplayStart
                                 ELSE ReplayStep(f[s \ {Max(s)}], events[Max(s)])]
<1>1. k \in Nat /\ DOMAIN events = 1 .. k /\ \A i \in 1 .. k : events[i] \in LoggedEvents(m)
  OBVIOUS
<1>2. E!Replay(events) = (CHOOSE f : Equation(f))[DOMAIN events]
  BY Zenon DEF E!Replay, E!FoldLeft, E!MapThenFoldSet, E!Max, Max, ReplayStart, ReplayStep
<1>3. step \in [(1 .. k) \X ReplayResults(m) -> ReplayResults(m)]
  <2>1. ASSUME NEW p \in (1 .. k) \X ReplayResults(m)
        PROVE  ReplayStep(p[2], events[p[1]]) \in ReplayResults(m)
    <3>1. p[1] \in 1 .. k /\ p[2] \in ReplayResults(m)
      OBVIOUS
    <3> QED BY <1>1, <3>1, ReplayStepTyped
  <2> QED BY <2>1
<1>4. \A n \in 1 .. k : \A x \in ReplayResults(m) : step[<<n, x>>] = ReplayStep(x, events[n])
  <2> HIDE DEF k
  <2> QED OBVIOUS
<1> HIDE DEF k, step
<1>5. PICK g \in [SUBSET (1 .. k) -> ReplayResults(m)] : FoldEquation(g, k, ReplayStart, step)
  <2>1. FoldSolved(ReplayResults(m), k, ReplayStart, step)
    BY <1>1, <1>3, ReplayStartTyped, FoldExists
  <2> QED BY <2>1 DEF FoldSolved
<1>6. ASSUME NEW s \in SUBSET (1 .. k), s # {}
      PROVE  g[s] = ReplayStep(g[s \ {Max(s)}], events[Max(s)])
  <2>1. Max(s) \in 1 .. k
    BY <1>1, <1>6, LargestIsElement
  <2>2. g[s \ {Max(s)}] \in ReplayResults(m)
    <3>1. s \ {Max(s)} \in SUBSET (1 .. k)
      OBVIOUS
    <3> QED BY <1>5, <3>1
  <2>3. g[s] = step[<<Max(s), g[s \ {Max(s)}]>>]
    BY <1>5, <1>6 DEF FoldEquation
  <2> QED BY <1>4, <2>1, <2>2, <2>3
<1>7. Equation(g)
  <2>1. g[{}] = ReplayStart
    BY <1>5 DEF FoldEquation
  <2>2. \A s \in SUBSET (1 .. k) :
           g[s] = IF s = {} THEN ReplayStart ELSE ReplayStep(g[s \ {Max(s)}], events[Max(s)])
    BY <1>6, <2>1, Zenon
  <2>3. g = [s \in SUBSET (1 .. k) |-> g[s]]
    BY <1>5
  <2>4. DOMAIN events = 1 .. k
    BY <1>1
  <2> QED BY <2>2, <2>3, <2>4, Zenon
<1>8. PICK f : f = (CHOOSE x : Equation(x))
  OBVIOUS
<1>9. f = [s \in SUBSET (1 .. k) |->
             IF s = {} THEN ReplayStart ELSE ReplayStep(f[s \ {Max(s)}], events[Max(s)])]
  <2>1. Equation(f)
    BY <1>7, <1>8, Zenon
  <2> QED BY <1>1, <2>1, Zenon
<1> DEFINE results == [n \in 0 .. k |-> f[1 .. n]]
<1>10. \A n \in 0 .. k : results[n] = f[1 .. n]
  OBVIOUS
<1>11. results[0] = ReplayStart
  <2>1. {} \in SUBSET (1 .. k) /\ 1 .. 0 = {} /\ 0 \in 0 .. k
    BY <1>1
  <2>2. f[{}] = ReplayStart
    BY <1>9, <2>1, Zenon
  <2> QED BY <1>10, <2>1, <2>2
<1>12. ASSUME NEW n \in 1 .. k
       PROVE  results[n] = ReplayStep(results[n - 1], events[n])
  <2> HIDE DEF results
  <2>1. n - 1 \in Nat /\ (n - 1) + 1 = n /\ n \in 0 .. k /\ n - 1 \in 0 .. k
    BY <1>1
  <2>2. Max(1 .. n) = n /\ (1 .. n) \ {n} = 1 .. n - 1
    BY <2>1, LargestOfInterval
  <2>3. 1 .. n \in SUBSET (1 .. k) /\ 1 .. n # {}
    <3>1. k \in Nat /\ n \in 1 .. n /\ \A i \in 1 .. n : i \in 1 .. k
      BY <1>1
    <3> QED BY <3>1
  <2>4. f[1 .. n] = ReplayStep(f[(1 .. n) \ {Max(1 .. n)}], events[Max(1 .. n)])
    BY <1>9, <2>3, Zenon
  <2> QED BY <1>10, <2>1, <2>2, <2>4
<1>13. results = [n \in 0 .. k |-> results[n]]
  OBVIOUS
<1> HIDE DEF results
<1>14. \A n \in 1 .. k : results[n - 1] \in ReplayResults(m) => results[n] \in ReplayResults(m)
  BY <1>1, <1>12, ReplayStepTyped
<1>15. \A n \in 0 .. k : results[n] \in ReplayResults(m)
  <2>1. results[0] \in ReplayResults(m)
    BY <1>11, ReplayStartTyped
  <2> QED BY <1>1, <1>14, <2>1, StepsTyped
<1>16. ReplayRun(m, events, results)
  BY <1>11, <1>12, <1>13, <1>15 DEF ReplayRun, k
<1>17. E!Replay(events) = results[k]
  <2>1. k \in 0 .. k
    BY <1>1
  <2> QED BY <1>1, <1>2, <1>8, <1>10, <2>1, Zenon
<1> QED BY <1>16, <1>17 DEF k

\* The results of a log are determined by it.
LEMMA ReplayDetermined ==
    ASSUME NEW m \in Nat, NEW events \in Seq(LoggedEvents(m)),
           NEW results, ReplayRun(m, events, results)
    PROVE  E!Replay(events) = results[Len(events)]
<1>1. PICK others : ReplayRun(m, events, others) /\ E!Replay(events) = others[Len(events)]
  BY ReplayUnfolds
<1>2. PICK k : k = Len(events)
  OBVIOUS
<1>3. others[0] = results[0]
  BY <1>1 DEF ReplayRun
<1>4. \A n \in 1 .. k : others[n - 1] = results[n - 1] => others[n] = results[n]
  BY <1>1, <1>2 DEF ReplayRun
<1>5. k \in Nat
  BY <1>2
<1>6. others[k] = results[k]
  BY ONLY <1>3, <1>4, <1>5, StepsAgree
<1> QED BY <1>1, <1>2, <1>6

\* An event at the end of a log is applied to what the log gives.
LEMMA ReplayAppends ==
    ASSUME NEW m \in Nat, NEW events \in Seq(LoggedEvents(m)), NEW e \in LoggedEvents(m)
    PROVE  E!Replay(Append(events, e)) = ReplayStep(E!Replay(events), e)
<1>1. PICK longer : longer = Append(events, e)
  OBVIOUS
<1>2. PICK k : k = Len(events)
  OBVIOUS
<1>3. /\ k \in Nat
      /\ longer \in Seq(LoggedEvents(m)) /\ Len(longer) = k + 1
      /\ \A i \in 1 .. k : longer[i] = events[i]
      /\ longer[k + 1] = e
  BY <1>1, <1>2
<1>4. PICK results : ReplayRun(m, longer, results) /\ E!Replay(longer) = results[Len(longer)]
  BY <1>3, ReplayUnfolds
<1> DEFINE first == [n \in 0 .. k |-> results[n]]
<1>5. \A n \in 0 .. k : n \in 0 .. k + 1
  BY <1>3
<1>6. \A i \in 1 .. k : i \in 1 .. k + 1 /\ first[i] = results[i] /\ first[i - 1] = results[i - 1]
  BY <1>3
<1>7. first \in [0 .. k -> ReplayResults(m)] /\ first[0] = ReplayStart /\ first[k] = results[k]
  BY <1>3, <1>4, <1>5 DEF ReplayRun
<1> HIDE DEF first
<1>8. ReplayRun(m, events, first)
  BY <1>2, <1>3, <1>4, <1>6, <1>7 DEF ReplayRun
<1>9. E!Replay(events) = results[k]
  BY <1>2, <1>7, <1>8, ReplayDetermined
<1>10. results[k + 1] = ReplayStep(results[k], longer[k + 1])
  <2>1. k + 1 \in 1 .. k + 1 /\ (k + 1) - 1 = k
    BY <1>3
  <2> QED BY <1>3, <1>4, <2>1 DEF ReplayRun
<1> QED BY <1>1, <1>3, <1>4, <1>9, <1>10

\* The events that are logged or under way.
Told == {x.event : x \in mail} \cup UNION {E!ToSet(log[n]) : n \in Nodes}

EventsTyped ==
    /\ E!IdentityAssumption
    /\ made \in 0 .. MaxIdentityEvents
    /\ capsules \subseteq Nodes /\ running \subseteq Nodes
    /\ log \in [Nodes -> Seq(LoggedEvents(made))]
    /\ identity \in [Nodes -> IdentityStates(made)]
    /\ \A x \in mail : x.to \in Nodes /\ x.event \in LoggedEvents(made)

\* The node boots to what it is: what its log gives is its identity.
Reboots(n) == n \in running /\ E!Replay(log[n]) = [ok |-> TRUE, state |-> identity[n]]

EventsInv ==
    /\ EventsTyped
    /\ \A n \in Nodes \ capsules : Reboots(n)
    /\ \A x, y \in Told : x.id = y.id => x = y
    /\ \A n \in Nodes : \A i, j \in DOMAIN log[n] : log[n][i].id = log[n][j].id => i = j

LEMMA MoreEvents ==
    ASSUME NEW m \in Nat
    PROVE  /\ IdentityStates(m) \subseteq IdentityStates(m + 1)
           /\ LoggedEvents(m) \subseteq LoggedEvents(m + 1)
<1>1. 1 .. m \subseteq 1 .. m + 1 /\ 0 .. m \subseteq 0 .. m + 1
  OBVIOUS
<1>2. LoggedEvents(m) \subseteq LoggedEvents(m + 1)
  BY <1>1 DEF LoggedEvents
<1>3. [id : 1 .. m, key : Credentials] \subseteq [id : 1 .. m + 1, key : Credentials]
  BY <1>1
<1>4. SUBSET [id : 1 .. m, key : Credentials] \subseteq SUBSET [id : 1 .. m + 1, key : Credentials]
  BY <1>3
<1>5. IdentityStates(m) \subseteq IdentityStates(m + 1)
  BY <1>4 DEF IdentityStates
<1> QED BY <1>2, <1>5

\* What applyEvent does at a node that is up, of an event its log does not have: the
\* identity and the log go on together, and no id comes twice.
LEMMA ApplyKeepsReplay ==
    ASSUME EventsInv, NEW n \in Nodes, NEW e, E!ApplyAndLog(n, e),
           n \in running, UNCHANGED <<capsules, running>>,
           made' \in 0 .. MaxIdentityEvents, made' \in {made, made + 1},
           e \in LoggedEvents(made'),
           \A x \in E!ToSet(log[n]) : x.id # e.id,
           \A x \in mail' : x \in mail \/ (x.to \in Nodes /\ x.event = e),
           \A x \in Told : x.id = e.id => x = e
    PROVE  EventsInv'
<1>1. PICK m : m = made'
  OBVIOUS
<1>2. m \in Nat /\ made \in Nat
  BY <1>1 DEF EventsInv, EventsTyped, E!IdentityAssumption
<1>3. /\ IdentityStates(made) \subseteq IdentityStates(m)
      /\ LoggedEvents(made) \subseteq LoggedEvents(m)
  BY <1>1, <1>2, MoreEvents
<1>4. Seq(LoggedEvents(made)) \subseteq Seq(LoggedEvents(m))
  BY <1>3
<1>5. /\ log \in [Nodes -> Seq(LoggedEvents(m))]
      /\ identity \in [Nodes -> IdentityStates(m)]
      /\ \A x \in mail : x.to \in Nodes /\ x.event \in LoggedEvents(m)
      /\ e \in LoggedEvents(m)
  BY <1>1, <1>3, <1>4 DEF EventsInv, EventsTyped
<1>6. /\ ~ E!Throws(identity[n], e)
      /\ identity' = [identity EXCEPT ![n] = E!After(@, e)]
      /\ log' = [log EXCEPT ![n] = Append(@, e)]
  BY DEF E!ApplyAndLog
<1>7. PICK was : was = log[n]
  OBVIOUS
<1>8. PICK is : is = Append(was, e)
  OBVIOUS
<1>9. was \in Seq(LoggedEvents(m)) /\ is \in Seq(LoggedEvents(m))
  BY <1>5, <1>7, <1>8
<1>10. PICK k : k = Len(was)
  OBVIOUS
<1>11. /\ k \in Nat /\ DOMAIN was = 1 .. k /\ DOMAIN is = 1 .. k + 1
       /\ is[k + 1] = e /\ \A i \in 1 .. k : is[i] = was[i]
  BY <1>8, <1>9, <1>10
<1>12. /\ log' \in [Nodes -> Seq(LoggedEvents(m))] /\ log'[n] = is
       /\ \A other \in Nodes : other # n => log'[other] = log[other]
  BY <1>5, <1>6, <1>7, <1>8, <1>9
<1>13. E!After(identity[n], e) \in IdentityStates(m)
  BY <1>2, <1>5, AfterTyped
<1>14. /\ identity' \in [Nodes -> IdentityStates(m)]
       /\ identity'[n] = E!After(identity[n], e)
       /\ \A other \in Nodes : other # n => identity'[other] = identity[other]
  BY <1>5, <1>6, <1>13
<1>15. EventsTyped'
  <2>1. \A x \in mail' : x.to \in Nodes /\ x.event \in LoggedEvents(m)
    BY <1>5
  <2> QED BY <1>1, <1>12, <1>14, <2>1 DEF EventsInv, EventsTyped
<1>16. ASSUME NEW other \in Nodes \ capsules'
       PROVE  Reboots(other)'
  <2>1. CASE other = n
    <3>1. E!Replay(was) = [ok |-> TRUE, state |-> identity[n]]
      BY <1>7, <1>16, <2>1 DEF EventsInv, Reboots
    <3>2. E!Replay(is) = ReplayStep(E!Replay(was), e)
      BY <1>2, <1>5, <1>8, <1>9, ReplayAppends
    <3>3. E!Replay(is) = [ok |-> TRUE, state |-> E!After(identity[n], e)]
      <4>1. PICK r : r = E!Replay(was)
        OBVIOUS
      <4>2. r.ok = TRUE /\ r.state = identity[n]
        BY <3>1, <4>1
      <4>3. (r.ok /\ ~ E!Throws(identity[n], e)) = TRUE
        BY <1>6, <4>2
      <4>4. E!Replay(is) = [ok |-> r.ok /\ ~ E!Throws(r.state, e),
                            state |-> E!After(r.state, e)]
        BY <3>2, <4>1 DEF ReplayStep
      <4> QED BY <4>2, <4>3, <4>4, Zenon
    <3> QED BY <1>12, <1>14, <2>1, <3>3 DEF Reboots
  <2>2. CASE other # n
    BY <1>12, <1>14, <1>16, <2>2 DEF EventsInv, Reboots
  <2> QED BY <2>1, <2>2
<1>17. \A x \in Told' : x \in Told \/ x = e
  <2>1. \A i \in 1 .. k + 1 : i = k + 1 \/ i \in 1 .. k
    BY <1>11
  <2>2. E!ToSet(is) \subseteq E!ToSet(was) \cup {e}
    BY <1>11, <2>1 DEF E!ToSet
  <2>3. \A other \in Nodes : E!ToSet(log'[other]) \subseteq E!ToSet(log[other]) \cup {e}
    BY <1>7, <1>12, <2>2
  <2> QED BY <2>3 DEF Told
<1>18. \A x, y \in Told' : x.id = y.id => x = y
  BY <1>17 DEF EventsInv
<1>19. ASSUME NEW other \in Nodes, NEW i \in DOMAIN log'[other], NEW j \in DOMAIN log'[other],
              log'[other][i].id = log'[other][j].id
       PROVE  i = j
  <2>1. CASE other = n
    <3>1. \A x \in 1 .. k : was[x].id # e.id
      BY <1>7, <1>11 DEF E!ToSet
    <3>2. \A x, y \in 1 .. k : was[x].id = was[y].id => x = y
      BY <1>7, <1>11 DEF EventsInv
    <3>3. i \in 1 .. k + 1 /\ j \in 1 .. k + 1 /\ is[i].id = is[j].id
      BY <1>11, <1>12, <1>19, <2>1
    <3>4. (i = k + 1 \/ i \in 1 .. k) /\ (j = k + 1 \/ j \in 1 .. k)
      BY <1>11, <3>3
    <3> QED BY <1>11, <3>1, <3>2, <3>3, <3>4
  <2>2. CASE other # n
    BY <1>12, <1>19, <2>2 DEF EventsInv
  <2> QED BY <2>1, <2>2
<1> QED BY <1>15, <1>16, <1>18, <1>19 DEF EventsInv

\* An event that a route makes is new everywhere.
LEMMA MakeKeepsReplay ==
    ASSUME EventsInv, NEW n \in Nodes, NEW type \in E!Types, NEW key \in Credentials,
           NEW proposal \in 0 .. made, NEW peers \in SUBSET Nodes,
           E!Make(n, E!Event(type, key, proposal), peers)
    PROVE  EventsInv'
<1>1. PICK e : e = E!Event(type, key, proposal)
  OBVIOUS
<1>2. made \in Nat /\ made < MaxIdentityEvents /\ MaxIdentityEvents \in Nat /\ made' = made + 1
  BY DEF EventsInv, EventsTyped, E!Make, E!IdentityAssumption
<1>3. e \in LoggedEvents(made') /\ e.id = made + 1
  BY <1>1, <1>2 DEF E!Event, LoggedEvents
<1>4. \A x \in Told : x \in LoggedEvents(made)
  BY DEF Told, E!ToSet, EventsInv, EventsTyped
<1>5. \A x \in Told : x.id # e.id
  BY <1>2, <1>3, <1>4 DEF LoggedEvents
<1>6. \A x \in E!ToSet(log[n]) : x \in Told
  BY DEF Told
<1>7. /\ n \in running /\ E!ApplyAndLog(n, e) /\ UNCHANGED <<capsules, running>>
      /\ \A x \in mail' : x \in mail \/ (x.to \in Nodes /\ x.event = e)
  BY <1>1 DEF E!Make
<1>8. made' \in 0 .. MaxIdentityEvents
  BY <1>2
<1> QED BY <1>2, <1>3, <1>5, <1>6, <1>7, <1>8, ApplyKeepsReplay

LEMMA EventsNext == EventsInv /\ [E!Next]_(E!identityVars) => EventsInv'
<1> SUFFICES ASSUME EventsInv, [E!Next]_(E!identityVars) PROVE EventsInv'
  OBVIOUS
<1>a. /\ made \in 0 .. MaxIdentityEvents /\ made \in Nat /\ 0 \in 0 .. made
      /\ FirstPasskey \in Credentials
  BY DEF EventsInv, EventsTyped, E!IdentityAssumption
<1>b. \A n \in Nodes : E!Peers(n) \in SUBSET Nodes /\ {} \in SUBSET Nodes
  BY DEF E!Peers
<1>1. ASSUME NEW n \in Nodes, E!Register(n) PROVE EventsInv'
  BY <1>1, <1>a, <1>b, MakeKeepsReplay DEF E!Register, E!Types
<1>2. ASSUME NEW n \in Nodes, NEW k \in Credentials, E!AddPasskey(n, k) PROVE EventsInv'
  BY <1>2, <1>a, <1>b, MakeKeepsReplay DEF E!AddPasskey, E!Types
<1>3. ASSUME NEW n \in Nodes, NEW k \in Credentials, E!RevokePasskey(n, k) PROVE EventsInv'
  BY <1>3, <1>a, <1>b, MakeKeepsReplay DEF E!RevokePasskey, E!Types
<1>4. ASSUME NEW n \in Nodes, NEW k \in Credentials, E!BootstrapNative(n, k) PROVE EventsInv'
  BY <1>4, <1>a, <1>b, MakeKeepsReplay DEF E!BootstrapNative, E!Types
<1>5. ASSUME NEW n \in Nodes, NEW k \in Credentials, E!ProposeBinding(n, k) PROVE EventsInv'
  BY <1>5, <1>a, <1>b, MakeKeepsReplay DEF E!ProposeBinding, E!Types
<1>12. ASSUME NEW n \in Nodes, NEW k \in Credentials, E!ProposeKey(n, k) PROVE EventsInv'
  BY <1>12, <1>a, <1>b, MakeKeepsReplay DEF E!ProposeKey, E!Types
<1>6. ASSUME NEW n \in Nodes, NEW p \in identity[n].proposals, E!ApproveBinding(n, p)
      PROVE  EventsInv'
  <2>1. p.id \in 1 .. made /\ p.key \in Credentials
    BY DEF EventsInv, EventsTyped, IdentityStates
  <2>2. p.id \in 0 .. made
    BY <2>1
  <2> QED BY <1>6, <1>b, <2>1, <2>2, MakeKeepsReplay DEF E!ApproveBinding, E!Types
<1>7. ASSUME NEW n \in Nodes, NEW k \in Credentials, E!RestoreFromCapsule(n, k)
      PROVE  EventsInv'
  <2>1. /\ identity' = [identity EXCEPT ![n].known = TRUE, ![n].keys = E!OnlyKey(k)]
        /\ capsules' = capsules \cup {n} /\ UNCHANGED <<log, running, mail, made>>
    BY <1>7 DEF E!RestoreFromCapsule
  <2>2. identity[n] \in IdentityStates(made) /\ identity \in [Nodes -> IdentityStates(made)]
    BY DEF EventsInv, EventsTyped
  <2>3. PICK s : s = [identity[n] EXCEPT !.known = TRUE, !.keys = E!OnlyKey(k)]
    OBVIOUS
  <2>4. s \in IdentityStates(made)
    <3>1. E!OnlyKey(k) \in [Credentials -> {"absent", "active", "revoked"}]
      BY DEF E!OnlyKey
    <3> QED BY <2>2, <2>3, <3>1 DEF IdentityStates
  <2>5. identity' = [identity EXCEPT ![n] = s]
    BY <2>1, <2>2, <2>3 DEF IdentityStates
  <2>6. /\ identity' \in [Nodes -> IdentityStates(made)]
        /\ \A other \in Nodes : other # n => identity'[other] = identity[other]
    BY <2>2, <2>4, <2>5
  <2>7. EventsTyped'
    BY <2>1, <2>6 DEF EventsInv, EventsTyped
  <2>8. \A other \in Nodes \ capsules' : Reboots(other)'
    BY <2>1, <2>6 DEF EventsInv, Reboots
  <2>9. Told' = Told
    BY <2>1 DEF Told
  <2> QED BY <2>1, <2>7, <2>8, <2>9 DEF EventsInv
<1>8. ASSUME NEW n \in Nodes, E!Reboot(n) PROVE EventsInv'
  <2>1. UNCHANGED <<log, mail, made>> /\ n \in running
    BY <1>8 DEF E!Reboot
  <2>2. Told' = Told
    BY <2>1 DEF Told
  <2>3. CASE E!Replay(log[n]).ok
    <3>1. /\ identity' = [identity EXCEPT ![n] = E!Replay(log[n]).state]
          /\ capsules' = capsules \ {n} /\ running' = running
      BY <1>8, <2>3 DEF E!Reboot
    <3>2. log[n] \in Seq(LoggedEvents(made))
      BY DEF EventsInv, EventsTyped
    <3>3. PICK results : /\ ReplayRun(made, log[n], results)
                         /\ E!Replay(log[n]) = results[Len(log[n])]
      BY <1>a, <3>2, ReplayUnfolds
    <3>4. E!Replay(log[n]) \in ReplayResults(made)
      <4>1. Len(log[n]) \in 0 .. Len(log[n])
        BY <3>2
      <4> QED BY <3>3, <4>1 DEF ReplayRun
    <3>5. PICK r : r = E!Replay(log[n])
      OBVIOUS
    <3>6. r.state \in IdentityStates(made) /\ r = [ok |-> TRUE, state |-> r.state]
      BY <2>3, <3>4, <3>5 DEF ReplayResults
    <3>7. /\ identity' \in [Nodes -> IdentityStates(made)] /\ identity'[n] = r.state
          /\ \A other \in Nodes : other # n => identity'[other] = identity[other]
      BY <3>1, <3>5, <3>6 DEF EventsInv, EventsTyped
    <3>8. EventsTyped'
      BY <2>1, <3>1, <3>7 DEF EventsInv, EventsTyped
    <3>9. ASSUME NEW other \in Nodes \ capsules' PROVE Reboots(other)'
      <4>1. CASE other = n
        BY <2>1, <3>1, <3>5, <3>6, <3>7, <4>1 DEF Reboots
      <4>2. CASE other # n
        BY <2>1, <3>1, <3>7, <3>9, <4>2 DEF EventsInv, Reboots
      <4> QED BY <4>1, <4>2
    <3> QED BY <2>1, <2>2, <3>8, <3>9 DEF EventsInv
  <2>4. CASE ~ E!Replay(log[n]).ok
    <3>1. running' = running \ {n} /\ UNCHANGED <<identity, capsules>>
      BY <1>8, <2>4 DEF E!Reboot
    <3>2. n \in capsules
      <4>1. Reboots(n) => E!Replay(log[n]).ok = TRUE
        BY DEF Reboots
      <4> QED BY <2>4, <4>1 DEF EventsInv
    <3>3. EventsTyped' /\ \A other \in Nodes \ capsules' : Reboots(other)'
      BY <2>1, <3>1, <3>2 DEF EventsInv, EventsTyped, Reboots
    <3> QED BY <2>1, <2>2, <3>3 DEF EventsInv
  <2> QED BY <2>3, <2>4
<1>c. ASSUME UNCHANGED <<log, identity, capsules, running, made>>, mail' \subseteq mail
      PROVE  EventsInv'
  <2>1. Told' \subseteq Told
    BY <1>c DEF Told
  <2>2. EventsTyped'
    BY <1>c DEF EventsInv, EventsTyped
  <2> QED BY <1>c, <2>1, <2>2 DEF EventsInv, Reboots
<1>9. ASSUME NEW x \in mail, E!Deliver(x) PROVE EventsInv'
  <2>1. /\ x.to \in running /\ mail' = mail \ {x} /\ UNCHANGED <<capsules, running, made>>
    BY <1>9 DEF E!Deliver, E!Receive
  <2>2. CASE E!IsLogged(x.to, x.event) \/ E!Throws(identity[x.to], x.event)
    BY <1>9, <1>c, <2>1, <2>2 DEF E!Deliver, E!Receive
  <2>3. CASE ~ (E!IsLogged(x.to, x.event) \/ E!Throws(identity[x.to], x.event))
    <3>1. E!ApplyAndLog(x.to, x.event)
      BY <1>9, <2>3 DEF E!Deliver, E!Receive
    <3>2. x.to \in Nodes /\ x.event \in LoggedEvents(made)
      BY DEF EventsInv, EventsTyped
    <3>3. x.event \in Told
      BY DEF Told
    <3>4. \A y \in Told : y.id = x.event.id => y = x.event
      BY <3>3 DEF EventsInv
    <3>5. \A y \in E!ToSet(log[x.to]) : y \in Told
      BY <3>2 DEF Told
    <3>6. \A y \in E!ToSet(log[x.to]) : y.id # x.event.id
      BY <2>3, <3>4, <3>5 DEF E!IsLogged
    <3> QED BY <1>a, <2>1, <3>1, <3>2, <3>4, <3>6, ApplyKeepsReplay
  <2> QED BY <2>2, <2>3
<1>10. ASSUME NEW x \in mail, E!Lose(x) PROVE EventsInv'
  BY <1>10, <1>c DEF E!Lose
<1>11. CASE UNCHANGED E!identityVars
  BY <1>11, <1>c DEF E!identityVars
<1> QED BY <1>1, <1>2, <1>3, <1>4, <1>5, <1>6, <1>7, <1>8, <1>9, <1>10, <1>11, <1>12 DEF E!Next

LEMMA EventsInit == E!IdentityAssumption /\ E!Init => EventsInv
<1> SUFFICES ASSUME E!IdentityAssumption, E!Init PROVE EventsInv
  OBVIOUS
<1>1. /\ log = [n \in Nodes |-> <<>>] /\ identity = [n \in Nodes |-> E!NoIdentity]
      /\ capsules = {} /\ running = Nodes /\ mail = {} /\ made = 0
  BY DEF E!Init
<1>2. made \in 0 .. MaxIdentityEvents /\ made \in Nat
  BY <1>1 DEF E!IdentityAssumption
<1>3. <<>> \in Seq(LoggedEvents(made)) /\ Len(<<>>) = 0 /\ DOMAIN <<>> = {}
  OBVIOUS
<1>4. E!NoIdentity \in IdentityStates(made)
  BY DEF E!NoIdentity, IdentityStates
<1>5. EventsTyped
  BY <1>1, <1>2, <1>3, <1>4 DEF EventsTyped
<1>6. PICK empty : empty = <<>>
  OBVIOUS
<1>7. empty \in Seq(LoggedEvents(made)) /\ Len(empty) = 0
  BY <1>3, <1>6
<1>8. E!Replay(empty) = ReplayStart
  <2>1. PICK results : ReplayRun(made, empty, results) /\ E!Replay(empty) = results[Len(empty)]
    BY <1>2, <1>7, ReplayUnfolds
  <2> QED BY <1>7, <2>1 DEF ReplayRun
<1>9. \A n \in Nodes : Reboots(n)
  BY <1>1, <1>6, <1>8 DEF Reboots, ReplayStart
<1>10. Told = {}
  BY <1>1, <1>3 DEF Told, E!ToSet
<1> QED BY <1>1, <1>3, <1>5, <1>9, <1>10 DEF EventsInv

\* Whatever is lost, delayed or delivered out of order among any number of nodes: what a
\* node has logged boots to the identity it has, unless that was rebuilt from a capsule.
THEOREM ServicesReplay == ServicesSpec => []LogsReplay
<1>1. ServicesInit => EventsInv
  BY ServicesAssumption, EventsInit DEF ServicesInit
<1>2. EventsInv /\ [ServicesNext]_servicesVars => EventsInv'
  BY StepOfServices, EventsNext DEF eVars, E!identityVars
<1>3. EventsInv => LogsReplay
  <2> SUFFICES ASSUME EventsInv PROVE E!LogsReplay
    BY DEF LogsReplay
  <2>1. \A n \in Nodes \ capsules :
           n \in running /\ E!Replay(log[n]) = [ok |-> TRUE, state |-> identity[n]]
    BY DEF EventsInv, Reboots
  <2>2. \A n \in Nodes, i, j \in 1 .. MaxIdentityEvents :
           (i \in DOMAIN log[n] /\ j \in DOMAIN log[n] /\ log[n][i].id = log[n][j].id) => i = j
    BY DEF EventsInv
  <2> QED BY <2>1, <2>2 DEF E!LogsReplay
<1> QED BY <1>1, <1>2, <1>3, PTL DEF ServicesSpec

-----------------------------------------------------------------------------
(* Settlement policy: DailyLimitKept, for any amounts, constitution and limit. *)

Allowances ==
    {e \in [day : 0 .. MaxDays, allows : {TRUE}, account : Owners, asset : Assets,
            amount : Int, charged : Int] : e.charged <= e.amount}

AuditEntries == Allowances \cup [day : 0 .. MaxDays, allows : {FALSE}]

\* The fields of entries that are added up.
Sums == {"amount", "charged"}

\* What an account was allowed to withdraw of an asset in a day, as a log tells it.
Spent(entries, field, account, asset, d) ==
    P!FoldLeft(LAMBDA sum, e : IF /\ e.allows /\ e.account = account /\ e.asset = asset
                                  /\ e.day = d
                               THEN sum + e[field] ELSE sum, 0, entries)

SpentStep(sum, e, field, account, asset, d) ==
    IF /\ e.allows /\ e.account = account /\ e.asset = asset
       /\ e.day = d
    THEN sum + e[field] ELSE sum

SpentRun(entries, field, account, asset, d, sums) ==
    /\ sums \in [0 .. Len(entries) -> Int]
    /\ sums[0] = 0
    /\ \A i \in 1 .. Len(entries) :
          sums[i] = SpentStep(sums[i - 1], entries[i], field, account, asset, d)

LEMMA AllowanceTyped ==
    ASSUME NEW e \in AuditEntries
    PROVE  /\ e.day \in 0 .. MaxDays /\ e.allows \in BOOLEAN
           /\ e.allows => /\ e["amount"] \in Int /\ e["charged"] \in Int
                          /\ e["charged"] <= e["amount"]
<1>1. CASE e \in Allowances
  BY <1>1 DEF Allowances
<1>2. CASE e \in [day : 0 .. MaxDays, allows : {FALSE}]
  BY <1>2
<1> QED BY <1>1, <1>2 DEF AuditEntries

LEMMA SpentStepTyped ==
    ASSUME NEW sum \in Int, NEW e \in AuditEntries, NEW field \in Sums, NEW account,
           NEW asset, NEW d
    PROVE  SpentStep(sum, e, field, account, asset, d) \in Int
<1>1. e.allows => e[field] \in Int
  BY AllowanceTyped DEF Sums
<1>2. CASE e.allows /\ e.account = account /\ e.asset = asset /\ e.day = d
  BY <1>1, <1>2 DEF SpentStep
<1>3. CASE ~ (e.allows /\ e.account = account /\ e.asset = asset /\ e.day = d)
  BY <1>3 DEF SpentStep
<1> QED BY <1>2, <1>3

\* The sum of a log is the last of its sums, counted from the oldest entry.
LEMMA SpentUnfolds ==
    ASSUME NEW entries \in Seq(AuditEntries), NEW field \in Sums, NEW account,
           NEW asset, NEW d
    PROVE  \E sums : /\ SpentRun(entries, field, account, asset, d, sums)
                     /\ Spent(entries, field, account, asset, d) = sums[Len(entries)]
<1> DEFINE k    == Len(entries)
           step == [p \in (1 .. k) \X Int |->
                      SpentStep(p[2], entries[p[1]], field, account, asset, d)]
           Equation(f) == f = [s \in SUBSET DOMAIN entries |->
                                 IF s = {} THEN 0
                                 ELSE SpentStep(f[s \ {Max(s)}], entries[Max(s)], field,
                                                account, asset, d)]
<1>1. k \in Nat /\ DOMAIN entries = 1 .. k /\ \A i \in 1 .. k : entries[i] \in AuditEntries
  OBVIOUS
<1>2. Spent(entries, field, account, asset, d) = (CHOOSE f : Equation(f))[DOMAIN entries]
  BY Zenon DEF Spent, P!FoldLeft, P!MapThenFoldSet, P!Max, Max, SpentStep
<1>3. step \in [(1 .. k) \X Int -> Int]
  <2>1. ASSUME NEW p \in (1 .. k) \X Int
        PROVE  SpentStep(p[2], entries[p[1]], field, account, asset, d) \in Int
    <3>1. p[1] \in 1 .. k /\ p[2] \in Int
      OBVIOUS
    <3> QED BY <1>1, <3>1, SpentStepTyped
  <2> QED BY <2>1
<1>4. \A n \in 1 .. k : \A x \in Int :
         step[<<n, x>>] = SpentStep(x, entries[n], field, account, asset, d)
  <2> HIDE DEF k
  <2> QED OBVIOUS
<1> HIDE DEF k, step
<1>5. PICK g \in [SUBSET (1 .. k) -> Int] : FoldEquation(g, k, 0, step)
  <2>1. 0 \in Int
    OBVIOUS
  <2>2. FoldSolved(Int, k, 0, step)
    BY <1>1, <1>3, <2>1, FoldExists
  <2> QED BY <2>2 DEF FoldSolved
<1>6. ASSUME NEW s \in SUBSET (1 .. k), s # {}
      PROVE  g[s] = SpentStep(g[s \ {Max(s)}], entries[Max(s)], field, account, asset, d)
  <2>1. Max(s) \in 1 .. k
    BY <1>1, <1>6, LargestIsElement
  <2>2. g[s \ {Max(s)}] \in Int
    <3>1. s \ {Max(s)} \in SUBSET (1 .. k)
      OBVIOUS
    <3> QED BY <1>5, <3>1
  <2>3. g[s] = step[<<Max(s), g[s \ {Max(s)}]>>]
    BY <1>5, <1>6 DEF FoldEquation
  <2> QED BY <1>4, <2>1, <2>2, <2>3
<1>7. Equation(g)
  <2>1. g[{}] = 0
    BY <1>5 DEF FoldEquation
  <2>2. \A s \in SUBSET (1 .. k) :
           g[s] = IF s = {} THEN 0
                  ELSE SpentStep(g[s \ {Max(s)}], entries[Max(s)], field, account, asset, d)
    BY <1>6, <2>1, Zenon
  <2>3. g = [s \in SUBSET (1 .. k) |-> g[s]]
    BY <1>5
  <2>4. DOMAIN entries = 1 .. k
    BY <1>1
  <2> QED BY <2>2, <2>3, <2>4, Zenon
<1>8. PICK f : f = (CHOOSE x : Equation(x))
  OBVIOUS
<1>9. f = [s \in SUBSET (1 .. k) |->
             IF s = {} THEN 0
             ELSE SpentStep(f[s \ {Max(s)}], entries[Max(s)], field, account, asset, d)]
  <2>1. Equation(f)
    BY <1>7, <1>8, Zenon
  <2> QED BY <1>1, <2>1, Zenon
<1> DEFINE sums == [n \in 0 .. k |-> f[1 .. n]]
<1>10. \A n \in 0 .. k : sums[n] = f[1 .. n]
  OBVIOUS
<1>11. sums[0] = 0
  <2>1. {} \in SUBSET (1 .. k) /\ 1 .. 0 = {} /\ 0 \in 0 .. k
    BY <1>1
  <2>2. f[{}] = 0
    BY <1>9, <2>1, Zenon
  <2> QED BY <1>10, <2>1, <2>2
<1>12. ASSUME NEW n \in 1 .. k
       PROVE  sums[n] = SpentStep(sums[n - 1], entries[n], field, account, asset, d)
  <2> HIDE DEF sums
  <2>1. n - 1 \in Nat /\ (n - 1) + 1 = n /\ n \in 0 .. k /\ n - 1 \in 0 .. k
    BY <1>1
  <2>2. Max(1 .. n) = n /\ (1 .. n) \ {n} = 1 .. n - 1
    BY <2>1, LargestOfInterval
  <2>3. 1 .. n \in SUBSET (1 .. k) /\ 1 .. n # {}
    <3>1. k \in Nat /\ n \in 1 .. n /\ \A i \in 1 .. n : i \in 1 .. k
      BY <1>1
    <3> QED BY <3>1
  <2>4. f[1 .. n] = SpentStep(f[(1 .. n) \ {Max(1 .. n)}], entries[Max(1 .. n)], field,
                               account, asset, d)
    BY <1>9, <2>3, Zenon
  <2> QED BY <1>10, <2>1, <2>2, <2>4
<1>13. sums = [n \in 0 .. k |-> sums[n]]
  OBVIOUS
<1> HIDE DEF sums
<1>14. \A n \in 1 .. k : sums[n - 1] \in Int => sums[n] \in Int
  BY <1>1, <1>12, SpentStepTyped
<1>15. \A n \in 0 .. k : sums[n] \in Int
  <2>1. sums[0] \in Int
    BY <1>11
  <2> QED BY <1>1, <1>14, <2>1, StepsTyped
<1>16. SpentRun(entries, field, account, asset, d, sums)
  BY <1>11, <1>12, <1>13, <1>15 DEF SpentRun, k
<1>17. Spent(entries, field, account, asset, d) = sums[k]
  <2>1. k \in 0 .. k
    BY <1>1
  <2> QED BY <1>1, <1>2, <1>8, <1>10, <2>1, Zenon
<1> QED BY <1>16, <1>17 DEF k

LEMMA SpentDetermined ==
    ASSUME NEW entries \in Seq(AuditEntries), NEW field \in Sums, NEW account,
           NEW asset, NEW d,
           NEW sums, SpentRun(entries, field, account, asset, d, sums)
    PROVE  Spent(entries, field, account, asset, d) = sums[Len(entries)]
<1>1. PICK others : /\ SpentRun(entries, field, account, asset, d, others)
                    /\ Spent(entries, field, account, asset, d) = others[Len(entries)]
  BY SpentUnfolds
<1>2. PICK k : k = Len(entries)
  OBVIOUS
<1>3. others[0] = sums[0]
  BY <1>1 DEF SpentRun
<1>4. \A n \in 1 .. k : others[n - 1] = sums[n - 1] => others[n] = sums[n]
  BY <1>1, <1>2 DEF SpentRun
<1>5. k \in Nat
  BY <1>2
<1>6. others[k] = sums[k]
  BY ONLY <1>3, <1>4, <1>5, StepsAgree
<1> QED BY <1>1, <1>2, <1>6

\* One more entry adds what it allows.
LEMMA SpentAppends ==
    ASSUME NEW entries \in Seq(AuditEntries), NEW e \in AuditEntries,
           NEW field \in Sums, NEW account, NEW asset, NEW d
    PROVE  /\ Spent(entries, field, account, asset, d) \in Int
           /\ Spent(Append(entries, e), field, account, asset, d)
                 = SpentStep(Spent(entries, field, account, asset, d), e, field, account, asset,
                             d)
<1>1. PICK longer : longer = Append(entries, e)
  OBVIOUS
<1>2. PICK k : k = Len(entries)
  OBVIOUS
<1>3. /\ k \in Nat
      /\ longer \in Seq(AuditEntries) /\ Len(longer) = k + 1
      /\ \A i \in 1 .. k : longer[i] = entries[i]
      /\ longer[k + 1] = e
  BY <1>1, <1>2
<1>4. PICK sums : /\ SpentRun(longer, field, account, asset, d, sums)
                  /\ Spent(longer, field, account, asset, d) = sums[Len(longer)]
  BY <1>3, SpentUnfolds
<1> DEFINE first == [n \in 0 .. k |-> sums[n]]
<1>5. \A n \in 0 .. k : n \in 0 .. k + 1
  BY <1>3
<1>6. \A i \in 1 .. k : i \in 1 .. k + 1 /\ first[i] = sums[i] /\ first[i - 1] = sums[i - 1]
  BY <1>3
<1>7. first \in [0 .. k -> Int] /\ first[0] = 0 /\ first[k] = sums[k]
  BY <1>3, <1>4, <1>5 DEF SpentRun
<1> HIDE DEF first
<1>8. SpentRun(entries, field, account, asset, d, first)
  BY <1>2, <1>3, <1>4, <1>6, <1>7 DEF SpentRun
<1>9. Spent(entries, field, account, asset, d) = sums[k] /\ sums[k] \in Int
  <2>1. first[k] \in Int
    BY <1>3, <1>7
  <2> QED BY <1>2, <1>7, <1>8, <2>1, SpentDetermined
<1>10. sums[k + 1] = SpentStep(sums[k], longer[k + 1], field, account, asset, d)
  <2>1. k + 1 \in 1 .. k + 1 /\ (k + 1) - 1 = k
    BY <1>3
  <2> QED BY <1>3, <1>4, <2>1 DEF SpentRun
<1> QED BY <1>1, <1>3, <1>4, <1>9, <1>10

\* Without an entry of another day a log tells the same of the day.
LEMMA SpentForgets ==
    ASSUME NEW entries \in Seq(AuditEntries), entries # <<>>, NEW field \in Sums,
           NEW account, NEW asset, NEW d, entries[1].day # d
    PROVE  Spent(Tail(entries), field, account, asset, d)
               = Spent(entries, field, account, asset, d)
<1>1. PICK k : k = Len(entries) - 1
  OBVIOUS
<1>2. PICK rest : rest = Tail(entries)
  OBVIOUS
<1>3. /\ k \in Nat /\ Len(entries) = k + 1
      /\ rest \in Seq(AuditEntries) /\ Len(rest) = k
      /\ \A i \in 1 .. k : rest[i] = entries[i + 1]
  BY <1>1, <1>2
<1>4. PICK sums : /\ SpentRun(entries, field, account, asset, d, sums)
                  /\ Spent(entries, field, account, asset, d) = sums[k + 1]
  BY <1>3, SpentUnfolds
<1>5. PICK less : /\ SpentRun(rest, field, account, asset, d, less)
                  /\ Spent(rest, field, account, asset, d) = less[k]
  BY <1>3, SpentUnfolds
<1>6. /\ sums[0] = 0
      /\ \A i \in 1 .. k + 1 :
            sums[i] = SpentStep(sums[i - 1], entries[i], field, account, asset, d)
  BY <1>3, <1>4 DEF SpentRun
<1>7. /\ less[0] = 0
      /\ \A i \in 1 .. k : less[i] = SpentStep(less[i - 1], rest[i], field, account, asset, d)
  BY <1>3, <1>5 DEF SpentRun
<1>8. sums[1] = 0
  <2>1. 1 \in 1 .. k + 1 /\ 1 - 1 = 0
    BY <1>3
  <2>2. SpentStep(0, entries[1], field, account, asset, d) = 0
    BY Zenon DEF SpentStep
  <2> QED BY <1>6, <2>1, <2>2
<1> DEFINE shifted == [n \in 0 .. k |-> sums[n + 1]]
<1>9. \A n \in 0 .. k : shifted[n] = sums[n + 1]
  OBVIOUS
<1>10. 0 \in 0 .. k /\ k \in 0 .. k /\ 0 + 1 = 1
  BY <1>3
<1> HIDE DEF shifted
<1>11. less[0] = shifted[0]
  BY <1>7, <1>8, <1>9, <1>10
<1>12. ASSUME NEW n \in 1 .. k, less[n - 1] = shifted[n - 1]
       PROVE  less[n] = shifted[n]
  <2>1. n - 1 \in 0 .. k /\ n \in 0 .. k /\ n + 1 \in 1 .. k + 1
        /\ (n + 1) - 1 = n /\ (n - 1) + 1 = n
    BY <1>3
  <2>2. less[n - 1] = sums[n]
    BY <1>9, <1>12, <2>1
  <2>3. less[n] = SpentStep(sums[n], entries[n + 1], field, account, asset, d)
    BY <1>3, <1>7, <2>2
  <2>4. sums[n + 1] = SpentStep(sums[n], entries[n + 1], field, account, asset, d)
    BY <1>6, <2>1
  <2> QED BY <1>9, <2>1, <2>3, <2>4
<1>13. less[k] = shifted[k]
  <2>1. \A n \in 1 .. k : less[n - 1] = shifted[n - 1] => less[n] = shifted[n]
    BY <1>12
  <2> QED BY ONLY <1>3, <1>11, <2>1, StepsAgree
<1> QED BY <1>2, <1>4, <1>5, <1>9, <1>10, <1>13

\* Of a day of which a log has no entries it tells nothing.
LEMMA SpentOnNoDay ==
    ASSUME NEW entries \in Seq(AuditEntries), NEW field \in Sums, NEW account, NEW asset,
           NEW d, \A i \in DOMAIN entries : entries[i].day # d
    PROVE  Spent(entries, field, account, asset, d) = 0
<1>1. PICK k : k = Len(entries)
  OBVIOUS
<1>2. PICK sums : /\ SpentRun(entries, field, account, asset, d, sums)
                  /\ Spent(entries, field, account, asset, d) = sums[k]
  BY <1>1, SpentUnfolds
<1>3. k \in Nat /\ k \in 0 .. k /\ \A i \in 1 .. k : i \in DOMAIN entries
  BY <1>1
<1>4. \A i \in 1 .. k : sums[i] = SpentStep(sums[i - 1], entries[i], field, account, asset, d)
  BY <1>1, <1>2 DEF SpentRun
<1>5. \A i \in 1 .. k : sums[i] = sums[i - 1]
  BY <1>3, <1>4, Zenon DEF SpentStep
<1> DEFINE V == {0}
<1>6. sums[0] \in V
  BY <1>2 DEF SpentRun
<1>7. \A i \in 1 .. k : sums[i - 1] \in V => sums[i] \in V
  BY <1>5
<1> HIDE DEF V
<1>8. \A n \in 0 .. k : sums[n] \in V
  BY ONLY <1>3, <1>6, <1>7, StepsTyped
<1> QED BY <1>2, <1>3, <1>8 DEF V

\* No more is charged than was allowed.
LEMMA ChargedIsLess ==
    ASSUME NEW entries \in Seq(AuditEntries), NEW account, NEW asset, NEW d
    PROVE  /\ Spent(entries, "charged", account, asset, d) \in Int
           /\ Spent(entries, "amount", account, asset, d) \in Int
           /\ Spent(entries, "charged", account, asset, d)
                 <= Spent(entries, "amount", account, asset, d)
<1>1. PICK k : k = Len(entries)
  OBVIOUS
<1>2. k \in Nat /\ k \in 0 .. k /\ 0 \in 0 .. k
      /\ \A i \in 1 .. k : entries[i] \in AuditEntries /\ i \in 0 .. k /\ i - 1 \in 0 .. k
  BY <1>1
<1>3. "charged" \in Sums /\ "amount" \in Sums
  BY DEF Sums
<1>4. PICK less : /\ SpentRun(entries, "charged", account, asset, d, less)
                  /\ Spent(entries, "charged", account, asset, d) = less[k]
  BY <1>1, <1>3, SpentUnfolds
<1>5. PICK sums : /\ SpentRun(entries, "amount", account, asset, d, sums)
                  /\ Spent(entries, "amount", account, asset, d) = sums[k]
  BY <1>1, <1>3, SpentUnfolds
<1>6. /\ less \in [0 .. k -> Int] /\ less[0] = 0
      /\ \A i \in 1 .. k :
            less[i] = SpentStep(less[i - 1], entries[i], "charged", account, asset, d)
  BY <1>1, <1>4 DEF SpentRun
<1>7. /\ sums \in [0 .. k -> Int] /\ sums[0] = 0
      /\ \A i \in 1 .. k :
            sums[i] = SpentStep(sums[i - 1], entries[i], "amount", account, asset, d)
  BY <1>1, <1>5 DEF SpentRun
<1> DEFINE V == {p \in Int \X Int : p[1] <= p[2]}
           a == [n \in 0 .. k |-> <<less[n], sums[n]>>]
<1>8. \A n \in 0 .. k : less[n] \in Int /\ sums[n] \in Int
  BY <1>6, <1>7
<1>9. \A n \in 0 .. k : a[n] \in V <=> less[n] <= sums[n]
  BY <1>8
<1> HIDE DEF V, a
<1>10. a[0] \in V
  BY <1>2, <1>6, <1>7, <1>9
<1>11. ASSUME NEW n \in 1 .. k, a[n - 1] \in V
       PROVE  a[n] \in V
  <2>1. PICK e \in AuditEntries : e = entries[n]
    BY <1>2
  <2>2. /\ less[n - 1] <= sums[n - 1] /\ less[n - 1] \in Int /\ sums[n - 1] \in Int
        /\ n \in 0 .. k
    BY <1>2, <1>8, <1>9, <1>11
  <2>3. /\ less[n] = SpentStep(less[n - 1], e, "charged", account, asset, d)
        /\ sums[n] = SpentStep(sums[n - 1], e, "amount", account, asset, d)
    BY <1>6, <1>7, <2>1
  <2>4. CASE e.allows /\ e.account = account /\ e.asset = asset /\ e.day = d
    <3>1. less[n] = less[n - 1] + e["charged"] /\ sums[n] = sums[n - 1] + e["amount"]
      BY <2>3, <2>4, Zenon DEF SpentStep
    <3>2. e["charged"] \in Int /\ e["amount"] \in Int /\ e["charged"] <= e["amount"]
      BY <2>4, AllowanceTyped
    <3>3. less[n] <= sums[n]
      BY ONLY <2>2, <3>1, <3>2
    <3> QED BY <1>9, <2>2, <3>3
  <2>5. CASE ~ (e.allows /\ e.account = account /\ e.asset = asset /\ e.day = d)
    <3>1. less[n] = less[n - 1] /\ sums[n] = sums[n - 1]
      BY <2>3, <2>5, Zenon DEF SpentStep
    <3> QED BY <1>9, <2>2, <3>1
  <2> QED BY <2>4, <2>5
<1>12. a[k] \in V
  <2>1. \A n \in 1 .. k : a[n - 1] \in V => a[n] \in V
    BY <1>11
  <2>2. \A n \in 0 .. k : a[n] \in V
    BY ONLY <1>2, <1>10, <2>1, StepsTyped
  <2> QED BY <1>2, <2>2
<1> QED BY <1>2, <1>4, <1>5, <1>8, <1>9, <1>12

\* Entries stand in the order of their days, so that one of an earlier day at the head of
\* the log tells that only such have been forgotten.
InOrder(entries, d) ==
    /\ \A i \in DOMAIN entries : entries[i].day <= d
    /\ \A i, j \in DOMAIN entries : i <= j => entries[i].day <= entries[j].day

WithinLimit(entries, d) ==
    \A account \in Owners, asset \in Assets :
        Spent(entries, "charged", account, asset, d) <= DailyMax

\* What an evaluation adds was compared with the limit together with what it adds to.
PolicyInv ==
    /\ P!PolicyAssumption
    /\ day \in 0 .. MaxDays
    /\ audit \in Seq(AuditEntries) /\ Len(audit) <= AuditSize
    /\ InOrder(audit, day)
    /\ P!TellsAllOfToday => WithinLimit(audit, day)

\* What an amount is charged: itself, but nothing when it is no number or only expected.
ChargedFor(e, stated) ==
    /\ stated.amount = Absent => e["charged"] <= 0
    /\ stated.amount = NaN => e["charged"] = 0
    /\ stated.amount \in Int => e["charged"] = stated.amount

IsEntryOf(e, request) ==
    /\ e.day = day
    /\ audit' = IF Len(Append(audit, e)) > AuditSize THEN Tail(Append(audit, e))
                ELSE Append(audit, e)
    /\ e.allows => /\ e.account = request.account /\ e.asset = request.asset
                   /\ ~ P!OverTheDailyLimit(request)
                   /\ ChargedFor(e, request.stated)

LEMMA EntryTyped ==
    ASSUME P!PolicyAssumption, day \in 0 .. MaxDays, NEW request \in P!Requests,
           P!Evaluate(request)
    PROVE  \E e \in AuditEntries : IsEntryOf(e, request)
<1>1. PICK stated : stated = request.stated
  OBVIOUS
<1>2. /\ stated.amount \in Int \cup {Absent, NaN} /\ stated.expected \in Int \cup {Absent, NaN}
      /\ request.account \in Owners /\ request.asset \in Assets
      /\ Absent \notin Int /\ NaN \notin Int /\ Absent # NaN
  <2>1. /\ request.stated \in Statements
        /\ request.account \in Owners /\ request.asset \in Assets
    BY DEF P!Requests
  <2> QED BY <1>1, <2>1 DEF P!PolicyAssumption
<1>3. PICK one : one = P!Or(stated.amount, P!Or(stated.expected, 0))
  OBVIOUS
<1>4. PICK amount : amount = IF one = NaN THEN 0 ELSE one
  OBVIOUS
<1>5. PICK charged : charged = IF stated.amount = Absent /\ amount > 0 THEN 0 ELSE amount
  OBVIOUS
<1>6. /\ one \in Int \cup {NaN}
      /\ stated.amount # Absent => one = stated.amount
  BY <1>2, <1>3 DEF P!Or
<1>7. amount \in Int /\ (one \in Int => amount = one) /\ (one = NaN => amount = 0)
  BY <1>2, <1>4, <1>6
<1>8. /\ charged \in Int /\ charged <= amount
      /\ stated.amount = Absent => charged <= 0
      /\ stated.amount # Absent => charged = amount
  BY <1>5, <1>7
<1>9. audit' = (LET entry == IF request.type = "withdrawal" /\ P!Passes(request)
                             THEN [day |-> day, allows |-> TRUE, account |-> request.account,
                                   asset |-> request.asset, amount |-> amount,
                                   charged |-> charged]
                             ELSE [day |-> day, allows |-> FALSE]
                    all   == Append(audit, entry)
                IN  IF Len(all) > AuditSize THEN Tail(all) ELSE all)
  BY <1>1, <1>3, <1>4, <1>5, Zenon DEF P!Evaluate, P!Audited
<1>10. CASE request.type = "withdrawal" /\ P!Passes(request)
  <2>1. PICK e : e = [day |-> day, allows |-> TRUE, account |-> request.account,
                      asset |-> request.asset, amount |-> amount, charged |-> charged]
    OBVIOUS
  <2>2. e \in AuditEntries
    BY <1>2, <1>7, <1>8, <2>1 DEF AuditEntries, Allowances
  <2>3. audit' = IF Len(Append(audit, e)) > AuditSize THEN Tail(Append(audit, e))
                 ELSE Append(audit, e)
    BY <1>9, <1>10, <2>1, Zenon
  <2>4. ~ P!OverTheDailyLimit(request)
    BY <1>10 DEF P!Passes, P!CodeRulesPass
  <2>5. e.day = day /\ e.account = request.account /\ e.asset = request.asset
        /\ e["charged"] = charged
    BY <2>1
  <2>6. ChargedFor(e, request.stated)
    BY <1>1, <1>2, <1>6, <1>7, <1>8, <2>5 DEF ChargedFor
  <2> QED BY <2>2, <2>3, <2>4, <2>5, <2>6 DEF IsEntryOf
<1>11. CASE ~ (request.type = "withdrawal" /\ P!Passes(request))
  <2>1. PICK e : e = [day |-> day, allows |-> FALSE]
    OBVIOUS
  <2>2. e \in AuditEntries /\ e.day = day /\ ~ e.allows
    BY <2>1 DEF AuditEntries
  <2>3. audit' = IF Len(Append(audit, e)) > AuditSize THEN Tail(Append(audit, e))
                 ELSE Append(audit, e)
    BY <1>9, <1>11, <2>1, Zenon
  <2> QED BY <2>2, <2>3 DEF IsEntryOf
<1> QED BY <1>10, <1>11

\* The limit is asked of what was allowed with the amount, and so of what was charged.
LEMMA LimitAsked ==
    ASSUME P!PolicyAssumption, NEW request \in P!Requests, NEW e \in AuditEntries, e.allows,
           ChargedFor(e, request.stated), ~ P!OverTheDailyLimit(request),
           NEW allowed \in Int, P!PassedToday(request.account, request.asset) = allowed,
           NEW charged \in Int, charged <= allowed, charged <= DailyMax
    PROVE  charged + e["charged"] <= DailyMax
<1>1. PICK asked : asked = request.stated.amount
  OBVIOUS
<1>2. /\ asked \in Int \cup {Absent, NaN} /\ DailyMax \in Nat
      /\ Absent \notin Int /\ NaN \notin Int
  <2>1. request.stated \in Statements
    BY DEF P!Requests
  <2> QED BY <1>1, <2>1 DEF P!PolicyAssumption
<1>3. e["charged"] \in Int
  BY AllowanceTyped
<1>4. CASE asked \in Int
  <2>1. e["charged"] = asked
    BY <1>1, <1>4 DEF ChargedFor
  <2>2. ~ (allowed + asked > DailyMax)
    BY <1>1, <1>2, <1>4 DEF P!OverTheDailyLimit, P!Or
  <2> QED BY ONLY <1>2, <1>4, <2>1, <2>2, charged \in Int, allowed \in Int, charged <= allowed
<1>5. CASE asked \in {Absent, NaN}
  <2>1. e["charged"] <= 0
    BY <1>1, <1>5 DEF ChargedFor
  <2> QED BY <1>2, <1>3, <2>1
<1> QED BY <1>2, <1>4, <1>5

\* The entry that an evaluation writes stays within the limit.
LEMMA EntryCharged ==
    ASSUME PolicyInv, NEW request \in P!Requests, NEW e \in AuditEntries,
           IsEntryOf(e, request), WithinLimit(audit, day),
           NEW account \in Owners, NEW asset \in Assets
    PROVE  SpentStep(Spent(audit, "charged", account, asset, day), e, "charged",
                     account, asset, day) <= DailyMax
<1>1. PICK charged : charged = Spent(audit, "charged", account, asset, day)
  OBVIOUS
<1>2. PICK allowed : allowed = Spent(audit, "amount", account, asset, day)
  OBVIOUS
<1>3. charged \in Int /\ allowed \in Int /\ charged <= allowed /\ charged <= DailyMax
  BY <1>1, <1>2, ChargedIsLess DEF PolicyInv, WithinLimit
<1>4. CASE e.allows /\ e.account = account /\ e.asset = asset /\ e.day = day
  <2>1. /\ request.account = account /\ request.asset = asset
        /\ ~ P!OverTheDailyLimit(request)
        /\ ChargedFor(e, request.stated)
    BY <1>4 DEF IsEntryOf
  <2>2. P!PassedToday(request.account, request.asset) = allowed
    <3>1. P!PassedToday(account, asset) = allowed
      BY <1>2, Zenon DEF P!PassedToday, P!Today, Spent
    <3> QED BY <2>1, <3>1, Zenon
  <2>3. charged + e["charged"] <= DailyMax
    BY <1>3, <1>4, <2>1, <2>2, LimitAsked DEF PolicyInv
  <2> QED BY <1>1, <1>4, <2>3, Zenon DEF SpentStep
<1>5. CASE ~ (e.allows /\ e.account = account /\ e.asset = asset /\ e.day = day)
  <2>1. SpentStep(charged, e, "charged", account, asset, day) = charged
    BY <1>5, Zenon DEF SpentStep
  <2> QED BY <1>1, <1>3, <2>1
<1> QED BY <1>4, <1>5

\* A log to which an entry of today is appended stays in order.
LEMMA OrderKept ==
    ASSUME NEW entries \in Seq(AuditEntries), NEW d \in Int, InOrder(entries, d),
           NEW e \in AuditEntries, e.day = d
    PROVE  InOrder(Append(entries, e), d)
<1>1. PICK n : n = Len(entries)
  OBVIOUS
<1>2. PICK longer : longer = Append(entries, e)
  OBVIOUS
<1>3. /\ n \in Nat /\ DOMAIN entries = 1 .. n /\ DOMAIN longer = 1 .. n + 1
      /\ \A i \in 1 .. n : longer[i] = entries[i]
      /\ longer[n + 1] = e
  BY <1>1, <1>2
<1>4. ASSUME NEW i \in 1 .. n + 1 PROVE longer[i].day <= d
  BY <1>3 DEF InOrder
<1>5. ASSUME NEW i \in 1 .. n + 1, NEW j \in 1 .. n + 1, i <= j
      PROVE  longer[i].day <= longer[j].day
  <2>1. CASE j = n + 1
    BY <1>3, <1>4, <2>1
  <2>2. CASE j \in 1 .. n
    <3>1. i \in 1 .. n
      BY <1>3, <1>5, <2>2
    <3> QED BY <1>3, <1>5, <2>2, <3>1 DEF InOrder
  <2> QED BY <1>3, <2>1, <2>2
<1> QED BY <1>2, <1>3, <1>4, <1>5 DEF InOrder

LEMMA OrderOfTail ==
    ASSUME NEW entries \in Seq(AuditEntries), entries # <<>>, NEW d \in Int,
           InOrder(entries, d)
    PROVE  InOrder(Tail(entries), d)
<1>1. PICK n : n = Len(entries)
  OBVIOUS
<1>2. PICK rest : rest = Tail(entries)
  OBVIOUS
<1>3. /\ n \in Nat /\ DOMAIN entries = 1 .. n /\ DOMAIN rest = 1 .. n - 1
      /\ \A i \in 1 .. n - 1 : rest[i] = entries[i + 1] /\ i + 1 \in 1 .. n
  BY <1>1, <1>2
<1> QED BY <1>2, <1>3 DEF InOrder

LEMMA PolicyNext == PolicyInv /\ [P!Next]_(P!policyVars) => PolicyInv'
<1> SUFFICES ASSUME PolicyInv, [P!Next]_(P!policyVars) PROVE PolicyInv'
  OBVIOUS
<1>0. /\ audit \in Seq(AuditEntries) /\ Len(audit) <= AuditSize
      /\ day \in 0 .. MaxDays /\ day \in Int
      /\ AuditSize \in Nat \ {0} /\ DailyMax \in Nat /\ MaxDays \in Nat
      /\ InOrder(audit, day)
  BY DEF PolicyInv, P!PolicyAssumption
<1>1. ASSUME NEW request \in P!Requests, P!Evaluate(request) PROVE PolicyInv'
  <2>1. PICK e \in AuditEntries : IsEntryOf(e, request)
    BY <1>0, <1>1, EntryTyped DEF PolicyInv
  <2>2. PICK longer : longer = Append(audit, e)
    OBVIOUS
  <2>3. /\ audit' = IF Len(longer) > AuditSize THEN Tail(longer) ELSE longer
        /\ day' = day /\ e.day = day
    BY <1>1, <2>1, <2>2 DEF IsEntryOf, P!Evaluate
  <2>4. /\ longer \in Seq(AuditEntries) /\ Len(longer) = Len(audit) + 1 /\ longer # <<>>
        /\ InOrder(longer, day)
    BY <1>0, <2>2, <2>3, OrderKept
  <2>5. ASSUME WithinLimit(audit, day) PROVE WithinLimit(longer, day)
    <3>1. ASSUME NEW account \in Owners, NEW asset \in Assets
          PROVE  Spent(longer, "charged", account, asset, day) <= DailyMax
      <4>1. SpentStep(Spent(audit, "charged", account, asset, day), e, "charged",
                      account, asset, day) <= DailyMax
        BY <2>1, <2>5, EntryCharged
      <4>2. "charged" \in Sums
        BY DEF Sums
      <4> QED BY <1>0, <2>2, <4>1, <4>2, SpentAppends
    <3> QED BY <3>1 DEF WithinLimit
  <2>6. CASE Len(longer) > AuditSize
    <3>1. audit' = Tail(longer)
      BY <2>3, <2>6
    <3>2. /\ Len(audit) = AuditSize /\ Len(audit') = AuditSize
          /\ audit' \in Seq(AuditEntries) /\ audit'[1] = longer[2]
          /\ longer[1] = audit[1] /\ 1 \in DOMAIN longer /\ 2 \in DOMAIN longer
          /\ longer[1] \in AuditEntries /\ longer[2] \in AuditEntries
      BY <1>0, <2>2, <2>4, <2>6, <3>1
    <3>3. longer[1].day <= longer[2].day /\ longer[1].day \in Int /\ longer[2].day \in Int
      BY <2>4, <3>2, AllowanceTyped DEF InOrder
    <3>4. InOrder(audit', day)
      BY <1>0, <2>4, <3>1, OrderOfTail
    <3>5. ASSUME P!TellsAllOfToday' PROVE WithinLimit(audit', day)
      <4>1. longer[2].day < day
        BY <1>0, <2>3, <3>2, <3>5 DEF P!TellsAllOfToday
      <4>2. longer[1].day < day
        BY <1>0, <3>3, <4>1
      <4>3. WithinLimit(longer, day)
        <5>1. P!TellsAllOfToday
          BY <3>2, <4>2 DEF P!TellsAllOfToday
        <5> QED BY <2>5, <5>1 DEF PolicyInv
      <4>4. longer[1].day # day
        BY <1>0, <3>3, <4>2
      <4>5. ASSUME NEW account \in Owners, NEW asset \in Assets
            PROVE  Spent(audit', "charged", account, asset, day) <= DailyMax
        <5>1. "charged" \in Sums
          BY DEF Sums
        <5>2. Spent(Tail(longer), "charged", account, asset, day)
                 = Spent(longer, "charged", account, asset, day)
          BY <2>4, <4>4, <5>1, SpentForgets
        <5> QED BY <3>1, <4>3, <5>2 DEF WithinLimit
      <4> QED BY <4>5 DEF WithinLimit
    <3> QED BY <1>0, <2>3, <3>2, <3>4, <3>5 DEF PolicyInv
  <2>7. CASE ~ (Len(longer) > AuditSize)
    <3>1. audit' = longer /\ Len(longer) <= AuditSize /\ Len(audit) < AuditSize
      BY <1>0, <2>3, <2>4, <2>7
    <3>2. WithinLimit(audit', day)
      BY <2>5, <3>1 DEF PolicyInv, P!TellsAllOfToday
    <3> QED BY <1>0, <2>3, <2>4, <3>1, <3>2 DEF PolicyInv
  <2> QED BY <2>6, <2>7
<1>2. CASE P!NextDay
  <2>1. day' \in 0 .. MaxDays /\ audit' = audit /\ day' = day + 1
    BY <1>0, <1>2 DEF P!NextDay
  <2>2. \A i \in DOMAIN audit : audit[i].day \in Int /\ audit[i].day <= day
    <3>1. \A i \in DOMAIN audit : audit[i] \in AuditEntries
      BY <1>0
    <3> QED BY <1>0, <3>1, AllowanceTyped DEF InOrder
  <2>3. InOrder(audit, day')
    BY <1>0, <2>1, <2>2 DEF InOrder
  <2>4. \A i \in DOMAIN audit : audit[i].day # day'
    BY <1>0, <2>1, <2>2
  <2>5. ASSUME NEW account \in Owners, NEW asset \in Assets
        PROVE  Spent(audit, "charged", account, asset, day') <= DailyMax
    <3>1. "charged" \in Sums
      BY DEF Sums
    <3>2. Spent(audit, "charged", account, asset, day') = 0
      BY <1>0, <2>4, <3>1, SpentOnNoDay
    <3> QED BY <1>0, <3>2
  <2>6. WithinLimit(audit, day')
    BY <2>5 DEF WithinLimit
  <2> QED BY <1>0, <2>1, <2>3, <2>6 DEF PolicyInv
<1>3. CASE UNCHANGED P!policyVars
  BY <1>3 DEF P!policyVars, PolicyInv, P!TellsAllOfToday
<1> QED BY <1>1, <1>2, <1>3 DEF P!Next

LEMMA PolicyInit == P!PolicyAssumption /\ P!Init => PolicyInv
<1> SUFFICES ASSUME P!PolicyAssumption, P!Init PROVE PolicyInv
  OBVIOUS
<1>1. PICK none : none = <<>>
  OBVIOUS
<1>2. /\ audit = none /\ none \in Seq(AuditEntries) /\ Len(none) = 0 /\ day = 0
      /\ DOMAIN none = {}
  BY <1>1 DEF P!Init
<1>3. MaxDays \in Nat /\ AuditSize \in Nat /\ DailyMax \in Nat
  BY DEF P!PolicyAssumption
<1>4. ASSUME NEW account \in Owners, NEW asset \in Assets
      PROVE  Spent(audit, "charged", account, asset, day) <= DailyMax
  <2>1. "charged" \in Sums
    BY DEF Sums
  <2>2. \A i \in DOMAIN none : none[i].day # 0
    BY <1>2
  <2>3. Spent(none, "charged", account, asset, 0) = 0
    BY <1>2, <2>1, <2>2, SpentOnNoDay
  <2> QED BY <1>2, <1>3, <2>3
<1>5. InOrder(audit, day)
  BY <1>2 DEF InOrder
<1> QED BY <1>2, <1>3, <1>4, <1>5 DEF PolicyInv, WithinLimit

\* Whatever is evaluated in between, of other accounts, assets, types and days, dry runs,
\* amounts below zero or no amounts, and until the log has forgotten entries of today: what
\* an account was let withdraw of an asset today stays within the limit of the day, but for
\* amounts that were only expected.
THEOREM ServicesKeepDailyLimit == ServicesSpec => []DailyLimitKept
<1>1. ServicesInit => PolicyInv
  BY ServicesAssumption, PolicyInit DEF ServicesInit
<1>2. PolicyInv /\ [ServicesNext]_servicesVars => PolicyInv'
  BY StepOfServices, PolicyNext DEF pVars, P!policyVars
<1>3. PolicyInv => DailyLimitKept
  <2> SUFFICES ASSUME PolicyInv, P!TellsAllOfToday, NEW account \in Owners,
                      NEW asset \in Assets
               PROVE  P!Today("charged", account, asset) <= DailyMax
    BY Zenon DEF DailyLimitKept, P!DailyLimitKept
  <2>1. P!Today("charged", account, asset) = Spent(audit, "charged", account, asset, day)
    BY Zenon DEF P!Today, Spent
  <2>2. Spent(audit, "charged", account, asset, day) <= DailyMax
    BY DEF PolicyInv, WithinLimit
  <2> QED BY <2>1, <2>2
<1> QED BY <1>1, <1>2, <1>3, PTL DEF ServicesSpec

-----------------------------------------------------------------------------
(* Subject claims: DisclosedClaimsStand, for streams of any length.            *)

Claims ==
    [id : ClaimIds, about : Abouts, status : {"active", "issued", "superseded", "revoked"}]

ClaimStates == [seen : SUBSET ClaimIds, claims : Seq(Claims)]

ClaimStart == [seen |-> {}, claims |-> <<>>]

ClaimRun(states) ==
    /\ states \in [0 .. Len(claimHistory) -> ClaimStates]
    /\ states[0] = ClaimStart
    /\ \A i \in 1 .. Len(claimHistory) : states[i] = L!Derive(states[i - 1], claimHistory[i])

LEMMA ClaimEventTells ==
    ASSUME L!ClaimsAssumption, NEW event \in L!ClaimEvent
    PROVE  /\ event.id \in ClaimIds /\ event.about \in Abouts
           /\ event.type \in {"malformed", "issued", "superseded", "revoked"}
           /\ event.target \in ClaimIds => event.type \in {"superseded", "revoked"}
  BY DEF L!ClaimEvent, L!ClaimsAssumption

\* What an accepted event leaves of the claims there were.
LEMMA AppliedTells ==
    ASSUME L!ClaimsAssumption, NEW claims \in Seq(Claims), NEW event \in L!ClaimEvent,
           event.type # "malformed"
    PROVE  /\ L!Applied(claims, event) \in Seq(Claims)
           /\ Len(L!Applied(claims, event))
                 = Len(claims) + IF event.type = "revoked" THEN 0 ELSE 1
           /\ \A c \in 1 .. Len(claims) :
                 LET claim == L!Applied(claims, event)[c]
                 IN  /\ claim.id = claims[c].id /\ claim.about = claims[c].about
                     /\ c \in L!Targets(claims, event) => claim.status = event.type
                     /\ c \notin L!Targets(claims, event) => claim.status = claims[c].status
           /\ event.type # "revoked" =>
                 L!Applied(claims, event)[Len(claims) + 1]
                    = [id |-> event.id, about |-> event.about, status |-> "active"]
<1> DEFINE ended == [i \in DOMAIN claims |->
                       IF i \in L!Targets(claims, event)
                       THEN [claims[i] EXCEPT !.status = event.type] ELSE claims[i]]
           new == [id |-> event.id, about |-> event.about, status |-> "active"]
<1>1. L!Applied(claims, event) = IF event.type = "revoked" THEN ended ELSE Append(ended, new)
  BY DEF L!Applied
<1>2. PICK k : k = Len(claims)
  OBVIOUS
<1>3. k \in Nat /\ DOMAIN claims = 1 .. k /\ \A c \in 1 .. k : claims[c] \in Claims
  BY <1>2
<1>4. /\ event.id \in ClaimIds /\ event.about \in Abouts
      /\ event.type \in {"issued", "superseded", "revoked"}
  BY ClaimEventTells
<1>5. ASSUME NEW c \in 1 .. k
      PROVE  /\ ended[c] \in Claims
             /\ ended[c].id = claims[c].id /\ ended[c].about = claims[c].about
             /\ c \in L!Targets(claims, event) => ended[c].status = event.type
             /\ c \notin L!Targets(claims, event) => ended[c].status = claims[c].status
  <2>1. claims[c] \in Claims
    BY <1>3
  <2>2. CASE c \in L!Targets(claims, event)
    <3>1. ended[c] = [claims[c] EXCEPT !.status = event.type]
      BY <1>3, <2>2
    <3> HIDE DEF ended
    <3> QED BY <1>4, <2>1, <2>2, <3>1 DEF Claims
  <2>3. CASE c \notin L!Targets(claims, event)
    <3>1. ended[c] = claims[c]
      BY <1>3, <2>3
    <3> HIDE DEF ended
    <3> QED BY <2>1, <2>3, <3>1
  <2> QED BY <2>2, <2>3
<1>6. ended = [c \in 1 .. k |-> ended[c]]
  BY <1>3
<1>7. new \in Claims
  BY <1>4 DEF Claims
<1> HIDE DEF ended, new
<1>8. ended \in [1 .. k -> Claims]
  BY <1>5, <1>6
<1>9. ended \in Seq(Claims) /\ Len(ended) = k
  BY <1>3, <1>8
<1>10. /\ Append(ended, new) \in Seq(Claims) /\ Len(Append(ended, new)) = k + 1
       /\ Append(ended, new)[k + 1] = new
       /\ \A c \in 1 .. k : Append(ended, new)[c] = ended[c]
  BY <1>3, <1>7, <1>9
<1>11. CASE event.type = "revoked"
  <2>1. L!Applied(claims, event) = ended
    BY <1>1, <1>11
  <2> QED BY <1>2, <1>3, <1>5, <1>9, <1>11, <2>1
<1>12. CASE event.type # "revoked"
  <2>1. L!Applied(claims, event) = Append(ended, new)
    BY <1>1, <1>12
  <2> QED BY <1>2, <1>3, <1>5, <1>10, <1>12, <2>1 DEF new
<1> QED BY <1>11, <1>12

LEMMA DeriveTyped ==
    ASSUME L!ClaimsAssumption, NEW projection \in ClaimStates, NEW event \in L!ClaimEvent
    PROVE  L!Derive(projection, event) \in ClaimStates
<1>1. projection.claims \in Seq(Claims) /\ projection.seen \cup {event.id} \in SUBSET ClaimIds
  BY ClaimEventTells DEF ClaimStates
<1>2. CASE L!Accepted(projection, event)
  <2>1. L!Applied(projection.claims, event) \in Seq(Claims)
    BY <1>1, <1>2, AppliedTells DEF L!Accepted
  <2> QED BY <1>1, <1>2, <2>1 DEF L!Derive, ClaimStates
<1>3. CASE ~ L!Accepted(projection, event)
  BY <1>1, <1>3 DEF L!Derive, ClaimStates
<1> QED BY <1>2, <1>3

\* The projection is the last state of the loop over the stream.
LEMMA ProjectionUnfolds ==
    ASSUME L!ClaimsAssumption, L!TypeOK
    PROVE  \E states : ClaimRun(states) /\ L!Projection = states[Len(claimHistory)]
<1> DEFINE k    == Len(claimHistory)
           step == [p \in (1 .. k) \X ClaimStates |-> L!Derive(p[2], claimHistory[p[1]])]
           Equation(f) == f = [s \in SUBSET DOMAIN claimHistory |->
                                 IF s = {} THEN ClaimStart
                                 ELSE L!Derive(f[s \ {Max(s)}], claimHistory[Max(s)])]
<1>1. /\ k \in Nat /\ DOMAIN claimHistory = 1 .. k
      /\ \A i \in 1 .. k : claimHistory[i] \in L!ClaimEvent
  BY DEF L!TypeOK
<1>2. L!Projection = (CHOOSE f : Equation(f))[DOMAIN claimHistory]
  BY Zenon DEF L!Projection, L!FoldLeft, L!MapThenFoldSet, L!Max, Max, ClaimStart
<1>3. step \in [(1 .. k) \X ClaimStates -> ClaimStates]
  <2>1. ASSUME NEW p \in (1 .. k) \X ClaimStates
        PROVE  L!Derive(p[2], claimHistory[p[1]]) \in ClaimStates
    <3>1. p[1] \in 1 .. k /\ p[2] \in ClaimStates
      OBVIOUS
    <3> QED BY <1>1, <3>1, DeriveTyped
  <2> QED BY <2>1
<1>4. \A n \in 1 .. k : \A x \in ClaimStates : step[<<n, x>>] = L!Derive(x, claimHistory[n])
  <2> HIDE DEF k
  <2> QED OBVIOUS
<1> HIDE DEF k, step
<1>s. ClaimStart \in ClaimStates
  <2>1. <<>> \in Seq(Claims)
    OBVIOUS
  <2> QED BY <2>1 DEF ClaimStart, ClaimStates
<1>5. PICK g \in [SUBSET (1 .. k) -> ClaimStates] : FoldEquation(g, k, ClaimStart, step)
  <2>1. FoldSolved(ClaimStates, k, ClaimStart, step)
    BY <1>1, <1>3, <1>s, FoldExists
  <2> QED BY <2>1 DEF FoldSolved
<1>6. ASSUME NEW s \in SUBSET (1 .. k), s # {}
      PROVE  g[s] = L!Derive(g[s \ {Max(s)}], claimHistory[Max(s)])
  <2>1. Max(s) \in 1 .. k
    BY <1>1, <1>6, LargestIsElement
  <2>2. g[s \ {Max(s)}] \in ClaimStates
    <3>1. s \ {Max(s)} \in SUBSET (1 .. k)
      OBVIOUS
    <3> QED BY <1>5, <3>1
  <2>3. g[s] = step[<<Max(s), g[s \ {Max(s)}]>>]
    BY <1>5, <1>6 DEF FoldEquation
  <2> QED BY <1>4, <2>1, <2>2, <2>3
<1>7. Equation(g)
  <2>1. g[{}] = ClaimStart
    BY <1>5 DEF FoldEquation
  <2>2. \A s \in SUBSET (1 .. k) :
           g[s] = IF s = {} THEN ClaimStart
                  ELSE L!Derive(g[s \ {Max(s)}], claimHistory[Max(s)])
    BY <1>6, <2>1, Zenon
  <2>3. g = [s \in SUBSET (1 .. k) |-> g[s]]
    BY <1>5
  <2>4. DOMAIN claimHistory = 1 .. k
    BY <1>1
  <2> QED BY <2>2, <2>3, <2>4, Zenon
<1>8. PICK f : f = (CHOOSE x : Equation(x))
  OBVIOUS
<1>9. f = [s \in SUBSET (1 .. k) |->
             IF s = {} THEN ClaimStart ELSE L!Derive(f[s \ {Max(s)}], claimHistory[Max(s)])]
  <2>1. Equation(f)
    BY <1>7, <1>8, Zenon
  <2> QED BY <1>1, <2>1, Zenon
<1> DEFINE states == [n \in 0 .. k |-> f[1 .. n]]
<1>10. \A n \in 0 .. k : states[n] = f[1 .. n]
  OBVIOUS
<1>11. states[0] = ClaimStart
  <2>1. {} \in SUBSET (1 .. k) /\ 1 .. 0 = {} /\ 0 \in 0 .. k
    BY <1>1
  <2>2. f[{}] = ClaimStart
    BY <1>9, <2>1, Zenon
  <2> QED BY <1>10, <2>1, <2>2
<1>12. ASSUME NEW n \in 1 .. k
       PROVE  states[n] = L!Derive(states[n - 1], claimHistory[n])
  <2> HIDE DEF states
  <2>1. n - 1 \in Nat /\ (n - 1) + 1 = n /\ n \in 0 .. k /\ n - 1 \in 0 .. k
    BY <1>1
  <2>2. Max(1 .. n) = n /\ (1 .. n) \ {n} = 1 .. n - 1
    BY <2>1, LargestOfInterval
  <2>3. 1 .. n \in SUBSET (1 .. k) /\ 1 .. n # {}
    <3>1. k \in Nat /\ n \in 1 .. n /\ \A i \in 1 .. n : i \in 1 .. k
      BY <1>1
    <3> QED BY <3>1
  <2>4. f[1 .. n] = L!Derive(f[(1 .. n) \ {Max(1 .. n)}], claimHistory[Max(1 .. n)])
    BY <1>9, <2>3, Zenon
  <2> QED BY <1>10, <2>1, <2>2, <2>4
<1>13. states = [n \in 0 .. k |-> states[n]]
  OBVIOUS
<1> HIDE DEF states
<1>14. \A n \in 1 .. k : states[n - 1] \in ClaimStates => states[n] \in ClaimStates
  BY <1>1, <1>12, DeriveTyped
<1>15. \A n \in 0 .. k : states[n] \in ClaimStates
  <2>1. states[0] \in ClaimStates
    BY <1>11, <1>s
  <2> QED BY <1>1, <1>14, <2>1, StepsTyped
<1>16. ClaimRun(states)
  BY <1>11, <1>12, <1>13, <1>15 DEF ClaimRun, k
<1>17. L!Projection = states[k]
  <2>1. k \in 0 .. k
    BY <1>1
  <2> QED BY <1>1, <1>2, <1>8, <1>10, <2>1, Zenon
<1> QED BY <1>16, <1>17 DEF k

\* Of the first n events one after the i-th ends the claim that the i-th made.
EndedIn(n, i) ==
    \E j \in i + 1 .. n : /\ L!Fresh(j)
                          /\ claimHistory[j].target = claimHistory[i].id
                          /\ claimHistory[j].about = claimHistory[i].about

\* The i-th event made the claim, which is active only if none of the first n ended it.
MadeBy(claim, i, n) ==
    /\ L!Fresh(i) /\ claimHistory[i].type \in {"issued", "superseded"}
    /\ claimHistory[i].id = claim.id /\ claimHistory[i].about = claim.about
    /\ claim.status = "active" => ~ EndedIn(n, i)

\* The claims of a state, when the stream had n events.
ClaimsTell(state, n) ==
    /\ state.seen = {claimHistory[j].id : j \in 1 .. n}
    /\ \A c \in 1 .. Len(state.claims) : \E i \in 1 .. n : MadeBy(state.claims[c], i, n)
    /\ \A i \in 1 .. n :
          L!Fresh(i) /\ claimHistory[i].type = "issued" =>
             \E c \in 1 .. Len(state.claims) :
                /\ state.claims[c].id = claimHistory[i].id
                /\ state.claims[c].about = claimHistory[i].about
                /\ state.claims[c].status = "active" \/ EndedIn(n, i)

\* One turn of the loop.
LEMMA ClaimStep ==
    ASSUME L!ClaimsAssumption, L!TypeOK, NEW k \in Nat, k + 1 <= Len(claimHistory),
           NEW state \in ClaimStates, ClaimsTell(state, k),
           NEW next, next = L!Derive(state, claimHistory[k + 1])
    PROVE  ClaimsTell(next, k + 1)
<1>1. PICK event : event = claimHistory[k + 1]
  OBVIOUS
<1>2. /\ event \in L!ClaimEvent
      /\ event.id \in ClaimIds /\ event.about \in Abouts
      /\ event.type \in {"malformed", "issued", "superseded", "revoked"}
      /\ event.target \in ClaimIds => event.type \in {"superseded", "revoked"}
  <2>1. event \in L!ClaimEvent
    BY <1>1 DEF L!TypeOK
  <2> QED BY <2>1, ClaimEventTells
<1>3. PICK claims : claims = state.claims
  OBVIOUS
<1>4. PICK m : m = Len(claims)
  OBVIOUS
<1>5. /\ claims \in Seq(Claims) /\ m \in Nat /\ DOMAIN claims = 1 .. m
      /\ \A c \in 1 .. m : claims[c].id \in ClaimIds
  <2>1. claims \in Seq(Claims)
    BY <1>3 DEF ClaimStates
  <2>2. m \in Nat /\ DOMAIN claims = 1 .. m /\ \A c \in 1 .. m : claims[c] \in Claims
    BY <1>4, <2>1
  <2> QED BY <2>1, <2>2 DEF Claims
<1>6. /\ state.seen = {claimHistory[j].id : j \in 1 .. k}
      /\ \A c \in 1 .. m : \E i \in 1 .. k : MadeBy(claims[c], i, k)
      /\ \A i \in 1 .. k :
            L!Fresh(i) /\ claimHistory[i].type = "issued" =>
               \E c \in 1 .. m : /\ claims[c].id = claimHistory[i].id
                                 /\ claims[c].about = claimHistory[i].about
                                 /\ claims[c].status = "active" \/ EndedIn(k, i)
  BY <1>3, <1>4 DEF ClaimsTell
<1>7. \A i \in 1 .. k + 1 : i = k + 1 \/ i \in 1 .. k
  OBVIOUS
<1>8. \A i \in 1 .. k : i \in 1 .. k + 1 /\ i # k + 1
  OBVIOUS
<1>9. k + 1 \in 1 .. k + 1 /\ (k + 1) - 1 = k
  OBVIOUS
<1>10. next.seen = {claimHistory[j].id : j \in 1 .. k + 1}
  <2>1. next.seen = state.seen \cup {event.id}
    BY <1>1 DEF L!Derive
  <2> QED BY <1>1, <1>6, <1>7, <1>8, <1>9, <2>1
<1>11. L!Fresh(k + 1) <=> event.id \notin state.seen
  BY <1>1, <1>6, <1>9 DEF L!Fresh
\* A claim is ended by what ended it before or by this event.
<1>12. ASSUME NEW i \in 1 .. k
       PROVE  EndedIn(k + 1, i) <=>
                 EndedIn(k, i) \/ (/\ L!Fresh(k + 1) /\ event.target = claimHistory[i].id
                                   /\ event.about = claimHistory[i].about)
  <2>1. \A j \in i + 1 .. k + 1 : j = k + 1 \/ j \in i + 1 .. k
    OBVIOUS
  <2>2. k + 1 \in i + 1 .. k + 1 /\ \A j \in i + 1 .. k : j \in i + 1 .. k + 1
    OBVIOUS
  <2> QED BY <1>1, <2>1, <2>2 DEF EndedIn
<1>13. ~ EndedIn(k + 1, k + 1)
  <2>1. (k + 1) + 1 .. k + 1 = {}
    OBVIOUS
  <2> QED BY <2>1 DEF EndedIn
<1>14. \A c \in 1 .. m : c \in L!Targets(claims, event)
                          <=> event.target = claims[c].id /\ event.about = claims[c].about
  BY <1>5 DEF L!Targets
<1>15. CASE ~ L!Accepted(state, event)
  <2>1. next.claims = claims
    BY <1>1, <1>3, <1>15 DEF L!Derive
  \* A fresh event that is not accepted ends nothing and issues nothing.
  <2>2. ASSUME L!Fresh(k + 1), NEW c \in 1 .. m
        PROVE  ~ (event.target = claims[c].id /\ event.about = claims[c].about)
    BY <1>2, <1>3, <1>5, <1>11, <1>14, <1>15, <2>2 DEF L!Accepted
  <2>3. ~ (L!Fresh(k + 1) /\ event.type = "issued")
    BY <1>11, <1>15 DEF L!Accepted
  <2>4. ASSUME NEW c \in 1 .. m
        PROVE  \E i \in 1 .. k + 1 : MadeBy(claims[c], i, k + 1)
    <3>1. PICK i \in 1 .. k : MadeBy(claims[c], i, k)
      BY <1>6
    <3>2. MadeBy(claims[c], i, k + 1)
      BY <1>12, <2>2, <3>1 DEF MadeBy
    <3> QED BY <1>8, <3>2
  <2>5. ASSUME NEW i \in 1 .. k + 1, L!Fresh(i), claimHistory[i].type = "issued"
        PROVE  \E c \in 1 .. m : /\ claims[c].id = claimHistory[i].id
                                 /\ claims[c].about = claimHistory[i].about
                                 /\ claims[c].status = "active" \/ EndedIn(k + 1, i)
    <3>1. i \in 1 .. k
      BY <1>1, <1>7, <2>3, <2>5
    <3> QED BY <1>6, <1>12, <2>5, <3>1
  <2> QED BY <1>4, <1>10, <2>1, <2>4, <2>5 DEF ClaimsTell
<1>16. CASE L!Accepted(state, event)
  <2>1. PICK after : after = L!Applied(claims, event)
    OBVIOUS
  <2>2. next.claims = after
    BY <1>1, <1>3, <1>16, <2>1 DEF L!Derive
  <2>3. L!Fresh(k + 1) /\ event.type # "malformed"
    BY <1>11, <1>16 DEF L!Accepted
  <2>4. /\ after \in Seq(Claims)
        /\ Len(after) = m + IF event.type = "revoked" THEN 0 ELSE 1
        /\ \A c \in 1 .. m :
              /\ after[c].id = claims[c].id /\ after[c].about = claims[c].about
              /\ c \in L!Targets(claims, event) => after[c].status = event.type
              /\ c \notin L!Targets(claims, event) => after[c].status = claims[c].status
        /\ event.type # "revoked" =>
              after[m + 1] = [id |-> event.id, about |-> event.about, status |-> "active"]
    BY <1>2, <1>4, <1>5, <2>1, <2>3, AppliedTells
  <2>5. ASSUME NEW c \in 1 .. m
        PROVE  \E i \in 1 .. k + 1 : MadeBy(after[c], i, k + 1)
    <3>1. PICK i \in 1 .. k : MadeBy(claims[c], i, k)
      BY <1>6
    <3>2. after[c].status = "active" =>
             /\ claims[c].status = "active"
             /\ ~ (event.target = claims[c].id /\ event.about = claims[c].about)
      BY <1>2, <1>14, <2>4
    <3>3. MadeBy(after[c], i, k + 1)
      BY <1>12, <2>4, <3>1, <3>2 DEF MadeBy
    <3> QED BY <1>8, <3>3
  <2>6. ASSUME event.type # "revoked"
        PROVE  MadeBy(after[m + 1], k + 1, k + 1)
    BY <1>1, <1>2, <1>13, <2>3, <2>4, <2>6 DEF MadeBy
  <2>7. \A c \in 1 .. Len(after) : c \in 1 .. m \/ (event.type # "revoked" /\ c = m + 1)
    BY <1>5, <2>4
  <2>8. \A c \in 1 .. Len(after) : \E i \in 1 .. k + 1 : MadeBy(after[c], i, k + 1)
    BY <1>9, <2>5, <2>6, <2>7
  <2>9. \A c \in 1 .. m : c \in 1 .. Len(after)
    BY <1>5, <2>4
  <2>10. ASSUME NEW i \in 1 .. k + 1, L!Fresh(i), claimHistory[i].type = "issued"
         PROVE  \E c \in 1 .. Len(after) :
                   /\ after[c].id = claimHistory[i].id /\ after[c].about = claimHistory[i].about
                   /\ after[c].status = "active" \/ EndedIn(k + 1, i)
    <3>1. CASE i \in 1 .. k
      <4>1. PICK c \in 1 .. m : /\ claims[c].id = claimHistory[i].id
                                /\ claims[c].about = claimHistory[i].about
                                /\ claims[c].status = "active" \/ EndedIn(k, i)
        BY <1>6, <2>10, <3>1
      <4>2. after[c].status = "active" \/ EndedIn(k + 1, i)
        BY <1>12, <1>14, <2>3, <2>4, <3>1, <4>1
      <4> QED BY <2>4, <2>9, <4>1, <4>2
    <3>2. CASE i = k + 1
      <4>1. m + 1 \in 1 .. Len(after) /\ event.type # "revoked"
        BY <1>1, <1>5, <2>4, <2>10, <3>2
      <4> QED BY <1>1, <2>4, <3>2, <4>1
    <3> QED BY <1>7, <3>1, <3>2
  <2> QED BY <1>10, <2>2, <2>8, <2>10 DEF ClaimsTell
<1> QED BY <1>15, <1>16

LEMMA ProjectionTells ==
    ASSUME L!ClaimsAssumption, L!TypeOK
    PROVE  L!Projection \in ClaimStates /\ ClaimsTell(L!Projection, Len(claimHistory))
<1>1. PICK states : ClaimRun(states) /\ L!Projection = states[Len(claimHistory)]
  BY ProjectionUnfolds
<1>2. PICK k : k = Len(claimHistory)
  OBVIOUS
<1>3. /\ k \in Nat /\ states \in [0 .. k -> ClaimStates] /\ states[0] = ClaimStart
      /\ \A i \in 1 .. k : states[i] = L!Derive(states[i - 1], claimHistory[i])
  BY <1>1, <1>2 DEF ClaimRun, L!TypeOK
<1> DEFINE T == {n \in Nat : n <= k => ClaimsTell(states[n], n)}
<1>4. 0 \in T
  <2>1. 1 .. 0 = {} /\ Len(<<>>) = 0
    OBVIOUS
  <2>2. states[0].seen = {} /\ states[0].claims = <<>>
    BY <1>3 DEF ClaimStart
  <2> QED BY <2>1, <2>2 DEF ClaimsTell
<1>5. ASSUME NEW n \in Nat, n \in T PROVE n + 1 \in T
  <2> SUFFICES ASSUME n + 1 <= k PROVE ClaimsTell(states[n + 1], n + 1)
    OBVIOUS
  <2>1. /\ n \in 0 .. k /\ n + 1 \in 1 .. k /\ (n + 1) - 1 = n
        /\ ClaimsTell(states[n], n)
    BY <1>3, <1>5
  <2> HIDE DEF T
  <2>2. states[n] \in ClaimStates /\ states[n + 1] = L!Derive(states[n], claimHistory[n + 1])
    BY <1>3, <2>1
  <2> QED BY <1>2, <2>1, <2>2, ClaimStep
<1> HIDE DEF T
<1>6. k \in T
  BY <1>3, <1>4, <1>5, InductionOnSet
<1>7. k \in 0 .. k
  BY <1>3
<1> QED BY <1>1, <1>2, <1>3, <1>6, <1>7 DEF T

\* The first of some positions is one of them.
LEMMA FirstIsElement ==
    ASSUME NEW s \in SUBSET Nat, s # {}
    PROVE  L!Min(s) \in s
<1>1. PICK x \in s : \A y \in s : x <= y
  BY SmallestElement
<1> QED BY <1>1 DEF L!Min

LEMMA ClaimsStand == L!ClaimsAssumption /\ L!TypeOK => L!DisclosedClaimsStand
<1> SUFFICES ASSUME L!ClaimsAssumption, L!TypeOK PROVE L!DisclosedClaimsStand
  OBVIOUS
<1>1. PICK k : k = Len(claimHistory)
  OBVIOUS
<1>2. k \in Nat /\ DOMAIN claimHistory = 1 .. k
  BY <1>1 DEF L!TypeOK
<1>3. PICK claims : claims = L!Projection.claims
  OBVIOUS
<1>4. /\ claims \in Seq(Claims)
      /\ \A c \in 1 .. Len(claims) : \E i \in 1 .. k : MadeBy(claims[c], i, k)
      /\ \A i \in 1 .. k :
            L!Fresh(i) /\ claimHistory[i].type = "issued" =>
               \E c \in 1 .. Len(claims) :
                  /\ claims[c].id = claimHistory[i].id
                  /\ claims[c].about = claimHistory[i].about
                  /\ claims[c].status = "active" \/ EndedIn(k, i)
  BY <1>1, <1>3, ProjectionTells DEF ClaimStates, ClaimsTell
<1>5. /\ Len(claims) \in Nat /\ DOMAIN claims = 1 .. Len(claims)
      /\ \A c \in 1 .. Len(claims) : claims[c] \in Claims
  BY <1>4
<1>6. \A i \in 1 .. k : L!Stands(i) <=> L!Fresh(i) /\ ~ EndedIn(k, i)
  BY <1>1 DEF L!Stands, EndedIn
<1>7. ASSUME NEW about \in Abouts
      PROVE  /\ L!Disclosed(about) # "none" =>
                   \E i \in DOMAIN claimHistory :
                      /\ L!Stands(i) /\ claimHistory[i].about = about
                      /\ claimHistory[i].id = L!Disclosed(about)
                      /\ claimHistory[i].type \in {"issued", "superseded"}
             /\ L!Disclosed(about) = "none" =>
                   ~ \E i \in DOMAIN claimHistory :
                        /\ L!Stands(i) /\ claimHistory[i].about = about
                        /\ claimHistory[i].type = "issued"
  <2>1. PICK active : active = {i \in DOMAIN claims : /\ claims[i].about = about
                                                      /\ claims[i].status = "active"}
    OBVIOUS
  <2>2. L!Disclosed(about) = IF active = {} THEN "none" ELSE claims[L!Min(active)].id
    BY <1>3, <2>1 DEF L!Disclosed
  <2>3. CASE active = {}
    <3>1. L!Disclosed(about) = "none"
      BY <2>2, <2>3
    <3>2. ASSUME NEW i \in 1 .. k, L!Stands(i), claimHistory[i].about = about,
                 claimHistory[i].type = "issued"
          PROVE  FALSE
      <4>1. PICK c \in 1 .. Len(claims) : /\ claims[c].about = about
                                          /\ claims[c].status = "active"
        BY <1>4, <1>6, <3>2
      <4> QED BY <1>5, <2>1, <2>3, <4>1
    <3> QED BY <1>2, <3>1, <3>2
  <2>4. CASE active # {}
    <3>1. PICK c : c = L!Min(active)
      OBVIOUS
    <3>2. c \in active
      <4>1. active \in SUBSET Nat
        BY <1>5, <2>1
      <4> QED BY <2>4, <3>1, <4>1, FirstIsElement
    <3>3. /\ c \in 1 .. Len(claims) /\ claims[c].about = about /\ claims[c].status = "active"
          /\ L!Disclosed(about) = claims[c].id
      BY <1>5, <2>1, <2>2, <2>4, <3>1, <3>2
    <3>4. claims[c].id \in ClaimIds
      BY <1>5, <3>3 DEF Claims
    <3>5. PICK i \in 1 .. k : MadeBy(claims[c], i, k)
      BY <1>4, <3>3
    <3>6. /\ L!Stands(i) /\ claimHistory[i].about = about
          /\ claimHistory[i].id = L!Disclosed(about)
          /\ claimHistory[i].type \in {"issued", "superseded"}
      BY <1>6, <3>3, <3>5 DEF MadeBy
    <3>7. L!Disclosed(about) # "none"
      BY <3>3, <3>4 DEF L!ClaimsAssumption
    <3> QED BY <1>2, <3>6, <3>7
  <2> QED BY <2>3, <2>4
<1> QED BY <1>7 DEF L!DisclosedClaimsStand

\* Whatever stream of events the node has, with ids reused, claims ended twice and ends that
\* come before what they end: what a proof discloses of a subject is a claim that stands,
\* and one that was issued and stands is not passed over.
THEOREM ServicesDiscloseTruly == ServicesSpec => []DisclosedClaimsStand
<1>1. ServicesInit => L!TypeOK
  BY DEF ServicesInit, L!Init, L!TypeOK
<1>2. L!TypeOK /\ [ServicesNext]_servicesVars => L!TypeOK'
  <2> SUFFICES ASSUME L!TypeOK, [ServicesNext]_servicesVars PROVE L!TypeOK'
    OBVIOUS
  <2>1. CASE L!Next
    BY <2>1 DEF L!TypeOK, L!Next, L!AppendClaim
  <2>2. CASE UNCHANGED lVars
    BY <2>2 DEF lVars, L!TypeOK
  <2> QED BY <2>1, <2>2, StepOfServices
<1>3. L!TypeOK => DisclosedClaimsStand
  BY ServicesAssumption, ClaimsStand DEF DisclosedClaimsStand
<1> QED BY <1>1, <1>2, <1>3, PTL DEF ServicesSpec

-----------------------------------------------------------------------------
(* The types of the services' records.                                         *)

LEMMA ClockTyped == ServicesSpec => [](now \in 0 .. MaxTime)
<1>1. RegistrationInv => now \in 0 .. MaxTime
  BY DEF RegistrationInv
<1> QED BY RegistrationsStayOnce, <1>1, PTL

LEMMA PolicyTyped == ServicesSpec => []P!TypeOK
<1>1. ServicesInit => PolicyInv
  BY ServicesAssumption, PolicyInit DEF ServicesInit
<1>2. PolicyInv /\ [ServicesNext]_servicesVars => PolicyInv'
  BY StepOfServices, PolicyNext DEF pVars, P!policyVars
<1>3. PolicyInv => P!TypeOK
  <2> SUFFICES ASSUME PolicyInv PROVE P!TypeOK
    OBVIOUS
  <2>1. \A i \in DOMAIN audit : audit[i] \in AuditEntries
    BY DEF PolicyInv
  <2> QED BY <2>1 DEF PolicyInv, P!TypeOK, AuditEntries, Allowances
<1> QED BY <1>1, <1>2, <1>3, PTL DEF ServicesSpec

LEMMA ClaimsTyped == ServicesSpec => []L!TypeOK
<1>1. ServicesInit => L!TypeOK
  BY DEF ServicesInit, L!Init, L!TypeOK
<1>2. L!TypeOK /\ L!Next => L!TypeOK'
  BY DEF L!TypeOK, L!Next, L!AppendClaim
<1>3. L!TypeOK /\ UNCHANGED lVars => L!TypeOK'
  BY DEF lVars, L!TypeOK
<1>4. L!TypeOK /\ [ServicesNext]_servicesVars => L!TypeOK'
  BY <1>2, <1>3, StepOfServices
<1> QED BY <1>1, <1>4, PTL DEF ServicesSpec

LEMMA IdentitiesTyped == ServicesSpec => []E!TypeOK
<1>1. ServicesInit => EventsInv
  BY ServicesAssumption, EventsInit DEF ServicesInit
<1>2. EventsInv /\ [ServicesNext]_servicesVars => EventsInv'
  BY StepOfServices, EventsNext DEF eVars, E!identityVars
<1>3. EventsInv => E!TypeOK
  <2> SUFFICES ASSUME EventsTyped PROVE E!TypeOK
    BY DEF EventsInv
  <2>1. /\ made \in 0 .. MaxIdentityEvents
        /\ capsules \subseteq Nodes /\ running \subseteq Nodes
        /\ \A x \in mail : x.to \in Nodes /\ x.event.id \in 1 .. made
    BY DEF EventsTyped, LoggedEvents
  <2>2. ASSUME NEW n \in Nodes
        PROVE  /\ identity[n].known \in BOOLEAN
               /\ identity[n].keys \in [Credentials -> {"absent", "active", "revoked"}]
               /\ \A p \in identity[n].proposals : p.id \in 1 .. made /\ p.key \in Credentials
    <3>1. identity[n] \in IdentityStates(made)
      BY DEF EventsTyped
    <3> QED BY <3>1 DEF IdentityStates
  <2>3. ASSUME NEW n \in Nodes, NEW i \in DOMAIN log[n]
        PROVE  log[n][i].type \in E!Types /\ log[n][i].id \in 1 .. made
    <3>1. log[n] \in Seq(LoggedEvents(made))
      BY DEF EventsTyped
    <3>2. log[n][i] \in LoggedEvents(made)
      BY <3>1
    <3> QED BY <3>2 DEF LoggedEvents, E!Types
  <2> QED BY <2>1, <2>2, <2>3 DEF E!TypeOK
<1> QED BY <1>1, <1>2, <1>3, PTL DEF ServicesSpec


\* The store and its copies are typed by JoinInv; the provider has the requests of a name.
LEMMA JoinTyped == ServicesSpec => []J!TypeOK
<1> DEFINE Provided == dns \in [Names -> SUBSET JoinIds] /\ writes \in 0 .. MaxWrites
<1>1. ServicesInit => JoinInv /\ Provided
  <2>1. ServicesInit => 0 \in 0 .. MaxWrites
    BY ServicesAssumption DEF J!JoinAssumption
  <2> QED BY <2>1, JoinInit DEF ServicesInit, J!Init
<1>2. JoinInv /\ Provided /\ [ServicesNext]_servicesVars => (JoinInv /\ Provided)'
  <2> SUFFICES ASSUME JoinInv, Provided, [ServicesNext]_servicesVars
               PROVE  (JoinInv /\ Provided)'
    OBVIOUS
  <2>1. JoinInv'
    BY StepOfServices, JoinNext DEF jVars, J!joinVars
  <2>2. \A s : J!Save(s) => writes' \in 0 .. MaxWrites
    BY ServicesAssumption DEF J!Save, J!JoinAssumption
  <2>3. ASSUME NEW w \in waiting, J!ProviderSetsRecord(w) PROVE Provided'
    <3>1. w \in Waiters /\ w.request \in J!Requests
      BY DEF JoinInv, Waiters
    <3>2. w.request.id \in JoinIds
      BY <3>1 DEF J!Requests
    <3> QED BY <2>3, <3>2 DEF J!ProviderSetsRecord
  <2>4. ASSUME UNCHANGED dns, UNCHANGED writes \/ \E s : J!Save(s) PROVE Provided'
    <3>1. writes' \in 0 .. MaxWrites
      BY ONLY <2>2, <2>4, Provided
    <3>2. dns' \in [Names -> SUBSET JoinIds]
      BY ONLY <2>4, Provided
    <3> QED BY <3>1, <3>2
  <2>5. J!Next => \/ UNCHANGED dns /\ (UNCHANGED writes \/ \E s : J!Save(s))
                  \/ \E w \in waiting : J!ProviderSetsRecord(w)
    <3>1. ASSUME NEW r, J!SubmitJoinRequest(r) \/ J!RepeatJoinRequest(r)
          PROVE  UNCHANGED dns /\ (UNCHANGED writes \/ \E s : J!Save(s))
      BY <3>1, Zenon DEF J!SubmitJoinRequest, J!RepeatJoinRequest, J!Await
    <3>2. ASSUME NEW w, J!AllocationFails(w) \/ J!AllocationReturns(w)
          PROVE  UNCHANGED dns /\ (UNCHANGED writes \/ \E s : J!Save(s))
      BY <3>2, Zenon DEF J!AllocationFails, J!AllocationReturns
    <3>3. ASSUME NEW r, NEW name, NEW allocated, J!RecordArtifact(r, name, allocated)
          PROVE  UNCHANGED dns /\ (UNCHANGED writes \/ \E s : J!Save(s))
      BY <3>3, Zenon DEF J!RecordArtifact
    <3>4. J!Crash => UNCHANGED dns /\ (UNCHANGED writes \/ \E s : J!Save(s))
      BY Zenon DEF J!Crash
    <3> QED BY <3>1, <3>2, <3>3, <3>4, Zenon DEF J!Next
  <2>6. UNCHANGED jVars => UNCHANGED dns /\ UNCHANGED writes
    BY DEF jVars
  <2>7. Provided'
    BY <2>3, <2>4, <2>5, <2>6, StepOfServices
  <2> QED BY <2>1, <2>7
<1>3. JoinInv /\ Provided => J!TypeOK
  BY DEF JoinInv, J!TypeOK, J!AStore, Stores, Waiters
<1> QED BY <1>1, <1>2, <1>3, PTL DEF ServicesSpec

\* A listing is stored for a seller there is, and no seller is ever removed.
LEMMA SellersAlwaysTyped == ServicesSpec => []M!TypeOK
<1>1. ServicesInit => SellersTyped /\ M!TypeOK
  BY DEF ServicesInit, M!Init, M!TypeOK, SellersTyped
<1>2. SellersTyped /\ M!TypeOK /\ M!Next => SellersTyped' /\ M!TypeOK'
  <2> SUFFICES ASSUME SellersTyped, M!TypeOK, M!Next PROVE SellersTyped' /\ M!TypeOK'
    OBVIOUS
  <2>1. PICK s \in Sellers : LaunchesReady(s) /\ sellers' \in [DOMAIN sellers' -> M!Seller]
    BY SellersNext
  <2>2. SellersTyped'
    BY <2>1 DEF SellersTyped
  <2>3. /\ DOMAIN sellers' \subseteq Sellers /\ DOMAIN sellers \subseteq DOMAIN sellers'
        /\ \A t \in DOMAIN sellers' : sellers'[t] \in M!Seller
    <3>1. DOMAIN sellers \subseteq Sellers
      BY DEF M!TypeOK
    <3> QED BY ONLY <2>1, <3>1 DEF LaunchesReady
  <2>4. ASSUME listings' = listings PROVE M!TypeOK'
    <3>1. /\ DOMAIN listings \subseteq Listings
          /\ \A l \in DOMAIN listings : listings[l].seller \in DOMAIN sellers
      BY DEF M!TypeOK
    <3> QED BY ONLY <2>3, <2>4, <3>1 DEF M!TypeOK
  <2>5. ASSUME NEW l \in Listings, NEW t \in Sellers, NEW offered \in BOOLEAN,
               M!UpsertListing(l, t, offered)
        PROVE  M!TypeOK'
    <3>1. listings' = M!Put(listings, l, [seller |-> t, offered |-> offered])
          /\ t \in DOMAIN sellers
      BY <2>5 DEF M!UpsertListing
    <3>2. /\ DOMAIN listings' \subseteq Listings
          /\ \A k \in DOMAIN listings' : listings'[k].seller \in DOMAIN sellers
      BY <3>1 DEF M!Put, M!TypeOK
    <3> QED BY <2>3, <3>2 DEF M!TypeOK
  <2> QED BY <2>2, <2>4, <2>5 DEF M!Next, M!UpsertSeller, M!ActivateSeller
<1>3. SellersTyped /\ M!TypeOK /\ UNCHANGED mVars => SellersTyped' /\ M!TypeOK'
  BY DEF mVars, M!TypeOK, SellersTyped
<1>4. SellersTyped /\ M!TypeOK /\ [ServicesNext]_servicesVars => SellersTyped' /\ M!TypeOK'
  BY <1>2, <1>3, StepOfServices
<1> QED BY <1>1, <1>4, PTL DEF ServicesSpec

\* A subnet's record is one of its registration, and what is changed in it stays typed; an
\* epoch is told of while there is room for one.
SubnetRecords == [status : F!Statuses, root : Roots, epoch : 0 .. MaxEpochs,
                  history : Seq(F!EpochRecord)]

FederationTyped ==
    /\ ReceiptsKept
    /\ Len(epochs) \in 1 .. MaxEpochs
    /\ DOMAIN subnets \subseteq F!SubnetIds
    /\ subnets \in [DOMAIN subnets -> SubnetRecords]

LEMMA SubnetRegistered == ASSUME NEW root \in Roots PROVE F!Subnet(root) \in SubnetRecords
<1>1. 0 \in 0 .. MaxEpochs
  BY ServicesAssumption DEF F!FederationAssumption
<1>2. [epoch |-> 0, root |-> root] \in F!EpochRecord
  BY <1>1 DEF F!EpochRecord
<1>3. <<[epoch |-> 0, root |-> root]>> \in Seq(F!EpochRecord)
  BY <1>2
<1> QED BY <1>1, <1>3 DEF F!Subnet, SubnetRecords, F!Statuses

LEMMA SubnetsTyped ==
    ASSUME FederationTyped, F!Next
    PROVE  DOMAIN subnets' \subseteq F!SubnetIds /\ subnets' \in [DOMAIN subnets' -> SubnetRecords]
<1> DEFINE Typed == /\ DOMAIN subnets \subseteq F!SubnetIds
                    /\ subnets \in [DOMAIN subnets -> SubnetRecords]
<1>0. Typed
  BY DEF FederationTyped
<1>1. ASSUME NEW id \in OtherSubnets, NEW root \in Roots, F!RegisterSubnet(id, root)
      PROVE  Typed'
  <2>1. PICK subnet \in SubnetRecords : subnet = F!Subnet(root)
    BY SubnetRegistered
  <2>2. subnets' = F!Put(subnets, id, subnet) /\ id \in F!SubnetIds
    BY <1>1, <2>1 DEF F!RegisterSubnet, F!Register, F!SubnetIds
  <2> QED BY ONLY <1>0, <2>1, <2>2 DEF F!Put
<1>2. ASSUME NEW id \in OtherSubnets, NEW root \in Roots, id \in DOMAIN subnets,
             subnets[id].epoch < MaxEpochs - 1,
             F!UpdateSubnetConstitution(id, root, subnets[id].epoch + 1)
      PROVE  Typed'
  <2>1. PICK subnet \in SubnetRecords : subnet = subnets[id]
    BY <1>0, <1>2
  <2>2. subnet.epoch + 1 \in 0 .. MaxEpochs /\ subnet.history \in Seq(F!EpochRecord)
    BY <1>2, <2>1, ServicesAssumption DEF SubnetRecords, F!FederationAssumption
  <2>3. PICK told \in F!EpochRecord : told = [epoch |-> subnet.epoch + 1, root |-> root]
    BY <2>2 DEF F!EpochRecord
  <2>4. PICK longer : longer = Append(subnet.history, told)
    OBVIOUS
  <2>5. longer \in Seq(F!EpochRecord)
    <3>1. PICK before : before = subnet.history
      OBVIOUS
    <3> QED BY <2>2, <2>3, <2>4, <3>1
  <2>6. subnets' = [subnets EXCEPT ![id].root = root, ![id].epoch = subnet.epoch + 1,
                                   ![id].history = longer]
    BY <1>2, <2>1, <2>3, <2>4 DEF F!UpdateSubnetConstitution, F!Register
  <2>7. [subnet EXCEPT !.root = root, !.epoch = subnet.epoch + 1, !.history = longer]
            \in SubnetRecords
    BY ONLY <2>2, <2>5, subnet \in SubnetRecords, root \in Roots
       DEF SubnetRecords
  <2> QED BY ONLY <1>0, <1>2, <2>1, <2>6, <2>7
<1>3. ASSUME NEW id \in F!SubnetIds, NEW status \in F!Statuses, F!SetSubnetStatus(id, status)
      PROVE  Typed'
  <2>1. id \in DOMAIN subnets /\ subnets' = [subnets EXCEPT ![id].status = status]
    BY <1>3 DEF F!SetSubnetStatus, F!Register
  <2> QED BY ONLY <1>0, <2>1, status \in F!Statuses DEF SubnetRecords
<1>4. ASSUME subnets' = subnets PROVE Typed'
  BY <1>0, <1>4
<1> HIDE DEF Typed
<1>5. \A root : F!Enact(root) => subnets' = subnets
  BY DEF F!Enact
<1>6. \A intent, proof, quorum : F!IssueReceipt(intent, proof, quorum) => subnets' = subnets
  BY DEF F!IssueReceipt
<1>7. Typed'
  <2>1. CASE \E id \in OtherSubnets, root \in Roots : F!RegisterSubnet(id, root)
    BY <1>1, <2>1, Zenon
  <2>2. CASE \E id \in OtherSubnets, root \in Roots :
                /\ id \in DOMAIN subnets /\ subnets[id].epoch < MaxEpochs - 1
                /\ F!UpdateSubnetConstitution(id, root, subnets[id].epoch + 1)
    BY <1>2, <2>2, Zenon
  <2>3. CASE \E id \in F!SubnetIds, status \in F!Statuses : F!SetSubnetStatus(id, status)
    BY <1>3, <2>3, Zenon
  <2>4. CASE \E intent \in Intents, proof \in Evidence, quorum \in BOOLEAN :
                F!IssueReceipt(intent, proof, quorum)
    BY <1>4, <1>6, <2>4, Zenon
  <2>5. \A ok, late : F!QuorumMet(ok, late) \in BOOLEAN
    BY DEF F!QuorumMet
  <2> QED BY <1>4, <1>5, <2>1, <2>2, <2>3, <2>4, <2>5 DEF F!Next
<1> QED BY <1>7 DEF Typed

LEMMA ReceiptsTyped == ServicesSpec => []F!TypeOK
<1>1. ServicesInit => FederationTyped
  <2> SUFFICES ASSUME F!Init PROVE FederationTyped
    BY DEF ServicesInit
  <2>1. PICK root \in Roots : epochs = <<root>>
    BY DEF F!Init
  <2>2. subnets = [id \in {PrimarySubnet} |-> F!Subnet(root)] /\ receipts = <<>>
    BY <2>1 DEF F!Init
  <2>3. PICK subnet \in SubnetRecords : subnet = F!Subnet(root)
    BY SubnetRegistered
  <2>4. DOMAIN F!Subnet(root) = {"status", "root", "epoch", "history"}
        /\ F!Subnet(root).history = FirstHistory(root)
    BY DEF F!Subnet, FirstHistory
  <2>5. epochs \in Seq(Roots) /\ epochs # <<>> /\ epochs[1] = root /\ Len(epochs) = 1
    BY <2>1
  <2>6. ReceiptsKept
    BY <2>2, <2>4, <2>5 DEF ReceiptsKept
  <2> QED BY <2>2, <2>3, <2>5, <2>6, ServicesAssumption
          DEF FederationTyped, F!SubnetIds, F!FederationAssumption
<1>2. FederationTyped /\ F!Next => FederationTyped'
  <2> SUFFICES ASSUME FederationTyped, F!Next PROVE FederationTyped'
    OBVIOUS
  <2>1. ReceiptsKept'
    BY FederationNext DEF FederationTyped
  <2>2. \/ epochs' = epochs
        \/ Len(epochs) < MaxEpochs /\ \E root \in Roots : epochs' = Append(epochs, root)
    BY DEF F!Next, F!RegisterSubnet, F!UpdateSubnetConstitution, F!SetSubnetStatus, F!Register,
           F!Enact, F!IssueReceipt
  <2>3. Len(epochs') \in 1 .. MaxEpochs
    BY <2>2, ServicesAssumption DEF FederationTyped, ReceiptsKept, F!FederationAssumption
  <2> QED BY <2>1, <2>3, SubnetsTyped DEF FederationTyped
<1>3. FederationTyped /\ UNCHANGED fVars => FederationTyped'
  <2> SUFFICES ASSUME FederationTyped, UNCHANGED fVars PROVE FederationTyped'
    OBVIOUS
  <2>1. UNCHANGED epochs /\ UNCHANGED subnets /\ UNCHANGED receipts
    BY DEF fVars
  <2>2. ReceiptsKept'
    BY <2>1, ReceiptsUntouched DEF FederationTyped, ReceiptsKept
  <2> QED BY <2>1, <2>2 DEF FederationTyped
<1>4. FederationTyped => F!TypeOK
  <2> SUFFICES ASSUME FederationTyped PROVE F!TypeOK
    OBVIOUS
  <2>1. \A e \in DOMAIN epochs : epochs[e] \in Roots
    BY DEF FederationTyped, ReceiptsKept
  <2>2. ASSUME NEW id \in DOMAIN subnets
        PROVE  /\ subnets[id].status \in F!Statuses /\ subnets[id].root \in Roots
               /\ \A i \in DOMAIN subnets[id].history :
                     subnets[id].history[i] \in F!EpochRecord
    <3>1. subnets[id] \in SubnetRecords
      BY DEF FederationTyped
    <3>2. subnets[id].history \in Seq(F!EpochRecord)
      BY <3>1 DEF SubnetRecords
    <3> QED BY <3>1, <3>2 DEF SubnetRecords
  <2>3. \A id \in DOMAIN receipts : receipts[id].quorum \in BOOLEAN
    BY DEF FederationTyped, ReceiptsKept
  <2> QED BY <2>1, <2>2, <2>3 DEF FederationTyped, F!TypeOK
<1>5. FederationTyped /\ [ServicesNext]_servicesVars => FederationTyped'
  BY <1>2, <1>3, StepOfServices
<1> QED BY <1>1, <1>4, <1>5, PTL DEF ServicesSpec

\* A grant is replaced and revoked as a whole record, and so is an authorization.
GrantsTyped ==
    /\ DOMAIN grants \subseteq GrantIds /\ grants \in [DOMAIN grants -> A!Grants]
    /\ DOMAIN authorizations \subseteq AuthorizationIds
    /\ authorizations \in [DOMAIN authorizations -> A!Authorizations]
    /\ DOMAIN externalProofs \subseteq Evidence
    /\ settled \subseteq SettlementKeys /\ DOMAIN settlements \subseteq SettlementKeys

LEMMA GrantsNext ==
    ASSUME GrantsTyped, now \in 0 .. MaxTime, A!Next
    PROVE  GrantsTyped'
<1>1. ASSUME NEW id \in GrantIds, NEW key \in SigningKeys \cup {AnyKey}, NEW policy \in Policies,
             NEW until \in (now + 1) .. (MaxTime + 1), A!CreateControlGrant(id, key, policy, until)
      PROVE  GrantsTyped'
  <2>1. until \in 0 .. (MaxTime + 1)
    BY ServicesAssumption DEF A!AuthorityAssumption
  <2>2. PICK grant \in A!Grants : grant = [key |-> key, policy |-> policy, status |-> "active",
                                           until |-> until]
    BY <2>1 DEF A!Grants
  <2>3. grants' = A!Put(grants, id, grant)
        /\ UNCHANGED <<authorizations, externalProofs, settled, settlements>>
    BY <1>1, <2>2 DEF A!CreateControlGrant
  <2>4. DOMAIN grants' \subseteq GrantIds /\ grants' \in [DOMAIN grants' -> A!Grants]
    BY <2>3 DEF A!Put, GrantsTyped
  <2> QED BY <2>3, <2>4 DEF GrantsTyped
<1>2. ASSUME NEW id \in GrantIds, A!RevokeControlGrant(id) PROVE GrantsTyped'
  <2>1. id \in DOMAIN grants /\ grants' = [grants EXCEPT ![id].status = "revoked"]
        /\ UNCHANGED <<authorizations, externalProofs, settled, settlements>>
    BY <1>2 DEF A!RevokeControlGrant
  <2>2. DOMAIN grants' \subseteq GrantIds /\ grants' \in [DOMAIN grants' -> A!Grants]
    BY <2>1 DEF GrantsTyped, A!Grants
  <2> QED BY <2>1, <2>2 DEF GrantsTyped
<1>3. ASSUME NEW id \in AuthorizationIds, NEW key \in SigningKeys, NEW holds \in BOOLEAN,
             NEW until \in 1 .. (MaxTime + 1), A!CreateAuthorization(id, key, holds, until)
      PROVE  GrantsTyped'
  <2>1. PICK matched \in SUBSET GrantIds : matched = A!Allowing(key)
    BY DEF A!Allowing, A!WithPolicy, A!InForce, GrantsTyped
  <2>2. PICK status \in {"authorized", "denied"} :
            status = IF A!Permitted(key, holds) THEN "authorized" ELSE "denied"
    BY Zenon
  <2>3. PICK a \in A!Authorizations :
            a = [matched |-> matched, until |-> until, status |-> status]
    BY DEF A!Authorizations
  <2>4. authorizations' = A!Put(authorizations, id, a)
        /\ UNCHANGED <<grants, externalProofs, settled, settlements>>
    BY <1>3, <2>1, <2>2, <2>3 DEF A!CreateAuthorization
  <2>5. /\ DOMAIN authorizations' \subseteq AuthorizationIds
        /\ authorizations' \in [DOMAIN authorizations' -> A!Authorizations]
    BY <2>4 DEF A!Put, GrantsTyped
  <2> QED BY <2>4, <2>5 DEF GrantsTyped
<1>4. ASSUME NEW reference \in Evidence, NEW status, NEW duplicate,
             A!RecordExternalProof(reference, status, duplicate)
      PROVE  GrantsTyped'
  <2>1. externalProofs' = A!Put(externalProofs, reference, status)
        /\ UNCHANGED <<grants, authorizations, settled, settlements>>
    BY <1>4 DEF A!RecordExternalProof
  <2>2. DOMAIN externalProofs' \subseteq Evidence
    BY <2>1 DEF A!Put, GrantsTyped
  <2> QED BY <2>1, <2>2 DEF GrantsTyped
<1>5. ASSUME NEW key \in SettlementKeys, NEW id \in SettlementKeys, NEW a, NEW named,
             NEW reference, A!ExecuteMarketplaceSettlement(key, id, a, named, reference)
      PROVE  GrantsTyped'
  <2>1. settled' = settled \cup {key} /\ DOMAIN settlements' = DOMAIN settlements \cup {id}
        /\ UNCHANGED <<grants, authorizations, externalProofs>>
    BY <1>5 DEF A!ExecuteMarketplaceSettlement, A!Put
  <2> QED BY <2>1 DEF GrantsTyped
<1>6. CASE A!Tick
  BY <1>6 DEF A!Tick, GrantsTyped
<1> QED BY <1>1, <1>2, <1>3, <1>4, <1>5, <1>6 DEF A!Next

LEMMA AuthorityTyped == ServicesSpec => []A!TypeOK
<1>1. ServicesInit => GrantsTyped
  BY DEF ServicesInit, A!Init, GrantsTyped
<1>2. GrantsTyped /\ UNCHANGED aVars => GrantsTyped'
  BY DEF aVars, GrantsTyped
<1>3. GrantsTyped /\ now \in 0 .. MaxTime /\ [ServicesNext]_servicesVars => GrantsTyped'
  BY <1>2, GrantsNext, StepOfServices
<1>4. GrantsTyped /\ now \in 0 .. MaxTime => A!TypeOK
  BY DEF GrantsTyped, A!TypeOK
<1> QED BY ClockTyped, <1>1, <1>3, <1>4, PTL DEF ServicesSpec

\* Keys, bindings and approvals change their status and nothing else.
ApprovalsKept ==
    /\ DOMAIN keys \subseteq Credentials /\ keys \in [DOMAIN keys -> {"active", "revoked"}]
    /\ DOMAIN bindings \subseteq Credentials
    /\ bindings \in [DOMAIN bindings -> {"active", "revoked"}]
    /\ DOMAIN approvals \subseteq N!ReplayKey
    /\ approvals \in [DOMAIN approvals -> {"pending", "executed", "revoked"}]

LEMMA ApprovalsTyped == ServicesSpec => []N!TypeOK
<1>1. ServicesInit => ApprovalInv /\ ApprovalsKept
  BY ApprovalInit DEF ServicesInit, N!Init, ApprovalsKept
<1>2. ApprovalInv /\ [ServicesNext]_servicesVars => ApprovalInv'
  <2>1. ApprovalInv /\ UNCHANGED nVars => ApprovalInv'
    BY DEF nVars, ApprovalInv, N!ApprovalsExecuteOnce
  <2> QED BY <2>1, StepOfServices, ApprovalNext
<1>3. ApprovalsKept /\ N!Next => ApprovalsKept'
  <2> SUFFICES ASSUME ApprovalsKept, N!Next PROVE ApprovalsKept'
    OBVIOUS
  <2>1. ASSUME NEW c \in Credentials, N!RevokePasskey(c) PROVE ApprovalsKept'
    BY <2>1 DEF N!RevokePasskey, ApprovalsKept
  <2>2. ASSUME NEW i \in Intents, NEW c \in Credentials, N!CreateIntentApproval(i, c)
        PROVE  ApprovalsKept'
    <3>1. PICK k \in N!ReplayKey : k = <<i, c>>
      BY DEF N!ReplayKey
    <3>2. approvals' = N!Put(approvals, k, "pending") /\ UNCHANGED <<keys, bindings>>
      BY <2>2, <3>1 DEF N!CreateIntentApproval
    <3> QED BY ONLY <3>2, k \in N!ReplayKey, ApprovalsKept DEF N!Put, ApprovalsKept
  <2>3. ASSUME NEW k \in N!ReplayKey, N!ConsumeIntentApproval(k) \/ N!RevokeIntentApproval(k)
        PROVE  ApprovalsKept'
    BY <2>3 DEF N!ConsumeIntentApproval, N!RevokeIntentApproval, ApprovalsKept
  <2>4. CASE N!Restart
    BY <2>4 DEF N!Restart, ApprovalsKept
  <2>5. CASE N!Tick
    BY <2>5 DEF N!Tick, ApprovalsKept
  <2> QED BY <2>1, <2>2, <2>3, <2>4, <2>5 DEF N!Next
<1>4. ApprovalsKept /\ UNCHANGED nVars => ApprovalsKept'
  BY DEF nVars, ApprovalsKept
<1>5. ApprovalsKept /\ [ServicesNext]_servicesVars => ApprovalsKept'
  BY <1>3, <1>4, StepOfServices
<1>6. ApprovalInv /\ ApprovalsKept /\ now \in 0 .. MaxTime => N!TypeOK
  BY DEF ApprovalInv, ApprovalsKept, N!TypeOK
<1> QED BY ClockTyped, <1>1, <1>2, <1>5, <1>6, PTL DEF ServicesSpec

\* The events of the stream, a peer's too, are of intents that could be.
StreamEvents == [type : I!Events, id : I!Ids, state : I!Open \cup I!Closed]

IntentRecords == [state : I!Open \cup I!Closed, expires : Nat]

StreamTyped ==
    /\ hour \in 0 .. MaxHours
    /\ DOMAIN intents \subseteq I!Ids /\ IsFiniteSet(DOMAIN intents)
    /\ intents \in [DOMAIN intents -> IntentRecords]
    /\ stream \in Seq(StreamEvents) /\ Len(stream) <= RingSize

LEMMA SetIsSequence ==
    ASSUME NEW S, IsFiniteSet(S)
    PROVE  I!Cardinality(S) \in Nat /\ I!SetToSeq(S) \in [1 .. I!Cardinality(S) -> S]
<1>1. I!Cardinality(S) = Cardinality(S)
  BY DEF I!Cardinality, Cardinality
<1>2. Cardinality(S) \in Nat /\ ExistsBijection(1 .. Cardinality(S), S)
  BY FS_CardinalityType
<1>3. PICK f \in [1 .. Cardinality(S) -> S] : I!IsInjective(f)
  BY <1>2 DEF ExistsBijection, Bijection, Injection, IsInjective, I!IsInjective
<1>4. I!SetToSeq(S) \in [1 .. Cardinality(S) -> S]
  BY <1>1, <1>3 DEF I!SetToSeq
<1> QED BY <1>1, <1>2, <1>4

LEMMA EventTyped ==
    ASSUME NEW type \in I!Events, NEW id \in I!Ids, NEW state \in I!Open \cup I!Closed
    PROVE  I!Event(type, id, state) \in StreamEvents
  BY DEF I!Event, StreamEvents

\* The ring keeps the last events, and no more than it has room for.
LEMMA RingTyped ==
    ASSUME NEW events \in Seq(StreamEvents)
    PROVE  I!Ring(events) \in Seq(StreamEvents) /\ Len(I!Ring(events)) <= RingSize
<1>1. RingSize \in Nat \ {0}
  BY ServicesAssumption DEF I!SettlementAssumption
<1>2. PICK first : first = IF Len(events) > RingSize THEN Len(events) - RingSize + 1 ELSE 1
  OBVIOUS
<1>3. Len(events) \in Nat /\ first \in 1 .. (Len(events) + 1)
      /\ Len(events) - first + 1 <= RingSize
  BY <1>1, <1>2
<1>4. I!Ring(events) = SubSeq(events, first, Len(events))
  BY <1>2 DEF I!Ring
<1>5. SubSeq(events, first, Len(events)) \in Seq(StreamEvents)
      /\ Len(SubSeq(events, first, Len(events))) <= RingSize
  BY ONLY <1>1, <1>3, events \in Seq(StreamEvents)
<1> QED BY <1>4, <1>5

LEMMA EmitTyped ==
    ASSUME StreamTyped, NEW events \in Seq(StreamEvents), I!Emit(events)
    PROVE  stream' \in Seq(StreamEvents) /\ Len(stream') <= RingSize
<1>1. stream \o events \in Seq(StreamEvents)
  BY DEF StreamTyped
<1> QED BY <1>1, RingTyped DEF I!Emit

LEMMA EmitOneTyped ==
    ASSUME StreamTyped, NEW type \in I!Events, NEW id \in I!Ids,
           NEW state \in I!Open \cup I!Closed, I!Emit(<<I!Event(type, id, state)>>)
    PROVE  stream' \in Seq(StreamEvents) /\ Len(stream') <= RingSize
<1>1. PICK e \in StreamEvents : e = I!Event(type, id, state)
  BY EventTyped
<1>2. <<e>> \in Seq(StreamEvents)
  OBVIOUS
<1> QED BY <1>1, <1>2, EmitTyped

\* A step that changes the state of one intent.
LEMMA StateChanged ==
    ASSUME StreamTyped, NEW id \in DOMAIN intents, NEW state \in I!Open \cup I!Closed,
           intents' = [intents EXCEPT ![id].state = state], hour' = hour,
           stream' \in Seq(StreamEvents), Len(stream') <= RingSize
    PROVE  StreamTyped'
<1>1. DOMAIN intents' = DOMAIN intents /\ intents' \in [DOMAIN intents' -> IntentRecords]
  BY DEF StreamTyped, IntentRecords
<1> QED BY <1>1 DEF StreamTyped

LEMMA StreamNext ==
    ASSUME StreamTyped, I!Next
    PROVE  StreamTyped'
<1>1. ASSUME NEW id \in I!Ids, I!CreateIntent(id) PROVE StreamTyped'
  <2>1. CASE id \in DOMAIN intents
    BY <1>1, <2>1 DEF I!CreateIntent, StreamTyped
  <2>2. CASE id \notin DOMAIN intents
    <3>1. hour' = hour /\ I!Emit(<<I!Event("CREATED", id, "PENDING")>>)
          /\ intents' = I!Put(intents, id, [state |-> "PENDING", expires |-> hour + TTL])
      BY <1>1, <2>2 DEF I!CreateIntent
    <3>2. stream' \in Seq(StreamEvents) /\ Len(stream') <= RingSize
      BY <3>1, EmitOneTyped DEF I!Events, I!Open
    <3>3. [state |-> "PENDING", expires |-> hour + TTL] \in IntentRecords
      BY ServicesAssumption DEF IntentRecords, I!Open, StreamTyped, I!SettlementAssumption
    <3>4. DOMAIN intents' = DOMAIN intents \cup {id}
          /\ intents' \in [DOMAIN intents' -> IntentRecords]
      BY <3>1, <3>3 DEF I!Put, StreamTyped
    <3>5. IsFiniteSet(DOMAIN intents')
      BY <3>4, FS_AddElement DEF StreamTyped
    <3> QED BY <3>1, <3>2, <3>4, <3>5 DEF StreamTyped
  <2> QED BY <2>1, <2>2
<1>2. ASSUME NEW id \in DOMAIN intents, I!Observe(id) PROVE StreamTyped'
  <2>1. PICK state : state = IF intents[id].state = "PENDING" THEN "OBSERVING"
                             ELSE intents[id].state
    OBVIOUS
  <2>2. /\ intents' = [intents EXCEPT ![id].state = state] /\ hour' = hour
        /\ I!Emit(<<I!Event("OBSERVED", id, state)>>)
    BY <1>2, <2>1 DEF I!Observe
  <2>3. state \in I!Open \cup I!Closed /\ id \in I!Ids
    BY <2>1 DEF StreamTyped, IntentRecords, I!Open
  <2>4. stream' \in Seq(StreamEvents) /\ Len(stream') <= RingSize
    BY <2>2, <2>3, EmitOneTyped DEF I!Events
  <2> QED BY <2>2, <2>3, <2>4, StateChanged
<1>3. ASSUME NEW id \in DOMAIN intents, I!Fulfill(id) PROVE StreamTyped'
  <2>1. id \in I!Ids
    BY DEF StreamTyped
  <2>2. CASE I!Overdue(id)
    <3>1. /\ intents' = [intents EXCEPT ![id].state = "EXPIRED"] /\ hour' = hour
          /\ stream' = stream
      BY <1>3, <2>2 DEF I!Fulfill
    <3>2. "EXPIRED" \in I!Open \cup I!Closed
      BY DEF I!Closed
    <3> QED BY <3>1, <3>2, StateChanged DEF StreamTyped
  <2>3. CASE ~ I!Overdue(id)
    <3>1. /\ intents' = [intents EXCEPT ![id].state = "FULFILLED"] /\ hour' = hour
          /\ I!Emit(<<I!Event("FULFILLED", id, "FULFILLED")>>)
      BY <1>3, <2>3 DEF I!Fulfill
    <3>2. "FULFILLED" \in I!Open \cup I!Closed /\ "FULFILLED" \in I!Events
      BY DEF I!Closed, I!Events
    <3> QED BY <2>1, <3>1, <3>2, EmitOneTyped, StateChanged
  <2> QED BY <2>2, <2>3
<1>4. ASSUME NEW id \in DOMAIN intents, I!Reject(id) PROVE StreamTyped'
  <2>1. /\ intents' = [intents EXCEPT ![id].state = "REJECTED"] /\ hour' = hour
        /\ I!Emit(<<I!Event("REJECTED", id, "REJECTED")>>)
    BY <1>4 DEF I!Reject
  <2>2. "REJECTED" \in I!Open \cup I!Closed /\ "REJECTED" \in I!Events /\ id \in I!Ids
    BY DEF I!Closed, I!Events, StreamTyped
  <2> QED BY <2>1, <2>2, EmitOneTyped, StateChanged
<1>5. CASE I!ExpireStale
  <2>1. PICK stale, k, ids : stale = I!Stale /\ k = I!Cardinality(stale) /\ ids = I!SetToSeq(stale)
    OBVIOUS
  <2>2. stale \subseteq DOMAIN intents /\ stale \subseteq I!Ids
    BY <2>1 DEF I!Stale, StreamTyped
  <2>3. IsFiniteSet(stale)
    BY <2>2, FS_Subset DEF StreamTyped
  <2>4. k \in Nat /\ ids \in [1 .. k -> stale]
    BY <2>1, <2>3, SetIsSequence
  <2>5. PICK events : events = [i \in 1 .. k |-> I!Event("EXPIRED", ids[i], "EXPIRED")]
    OBVIOUS
  <2>6. \A i \in 1 .. k : I!Event("EXPIRED", ids[i], "EXPIRED") \in StreamEvents
    BY <2>2, <2>4, EventTyped DEF I!Events, I!Closed
  <2>7. events \in Seq(StreamEvents)
    BY ONLY <2>4, <2>5, <2>6
  <2>8. /\ I!Emit(events) /\ hour' = hour
        /\ intents' = [id \in DOMAIN intents |->
                          IF id \in stale THEN [intents[id] EXCEPT !.state = "EXPIRED"]
                          ELSE intents[id]]
    BY <1>5, <2>1, <2>5 DEF I!ExpireStale
  <2>9. DOMAIN intents' = DOMAIN intents /\ intents' \in [DOMAIN intents' -> IntentRecords]
    BY <2>8 DEF StreamTyped, IntentRecords, I!Closed
  <2> QED BY <2>7, <2>8, <2>9, EmitTyped DEF StreamTyped
<1>6. ASSUME NEW e \in I!PeerEvents, I!ReceiveSettlementEvent(e) PROVE StreamTyped'
  <2>1. PICK type \in I!Broadcast, w \in Wishes :
            e = I!Event(type, [kind |-> "deposit", wish |-> w, nonce |-> 0], type)
    BY DEF I!PeerEvents
  <2>2. [kind |-> "deposit", wish |-> w, nonce |-> 0] \in I!Ids
    BY ServicesAssumption DEF I!Ids, I!Kinds, I!SettlementAssumption
  <2>3. type \in I!Events /\ type \in I!Open \cup I!Closed
    BY DEF I!Broadcast, I!Events, I!Closed
  <2>4. e \in StreamEvents
    BY <2>1, <2>2, <2>3, EventTyped
  <2>5. Append(stream, e) \in Seq(StreamEvents)
    BY <2>4 DEF StreamTyped
  <2>6. stream' = I!Ring(Append(stream, e)) /\ UNCHANGED <<hour, intents>>
    BY <1>6 DEF I!ReceiveSettlementEvent
  <2>7. stream' \in Seq(StreamEvents) /\ Len(stream') <= RingSize
    BY <2>5, <2>6, RingTyped
  <2> QED BY <2>6, <2>7 DEF StreamTyped
<1>7. CASE I!Tick
  BY <1>7, ServicesAssumption DEF I!Tick, StreamTyped, I!SettlementAssumption
<1> QED BY <1>1, <1>2, <1>3, <1>4, <1>5, <1>6, <1>7 DEF I!Next

LEMMA IntentsTyped == ServicesSpec => []I!TypeOK
<1>1. ServicesInit => StreamTyped
  BY ServicesAssumption, FS_EmptySet DEF ServicesInit, I!Init, StreamTyped, I!SettlementAssumption
<1>2. StreamTyped /\ UNCHANGED iVars => StreamTyped'
  BY DEF iVars, StreamTyped
<1>3. StreamTyped /\ [ServicesNext]_servicesVars => StreamTyped'
  BY <1>2, StreamNext, StepOfServices
<1>4. StreamTyped => I!TypeOK
  <2> SUFFICES ASSUME StreamTyped PROVE I!TypeOK
    OBVIOUS
  <2>1. ASSUME NEW i \in DOMAIN stream
        PROVE  stream[i].type \in I!Events /\ stream[i].id \in I!Ids
    <3>1. stream[i] \in StreamEvents
      BY DEF StreamTyped
    <3> QED BY <3>1 DEF StreamEvents
  <2> QED BY <2>1 DEF StreamTyped, IntentRecords, I!TypeOK
<1> QED BY <1>1, <1>3, <1>4, PTL DEF ServicesSpec

LEMMA RegistrationsAlwaysTyped == ServicesSpec => []TypeOK
<1>1. RegistrationInv => TypeOK
  <2> SUFFICES ASSUME RegistrationsTyped, now \in 0 .. MaxTime PROVE TypeOK
    BY DEF RegistrationInv
  <2>1. \A i \in DOMAIN accounts : accounts[i] \in AccountRecords
    BY DEF RegistrationsTyped
  <2>2. ASSUME NEW p \in pairings
        PROVE  p \in [account : DOMAIN accounts, credential : Credentials, approved : BOOLEAN]
    <3>1. p \in Pairings /\ p.account \in DOMAIN accounts
      BY DEF RegistrationsTyped
    <3> QED BY <3>1 DEF Pairings
  <2>3. \A alias \in DOMAIN reservations :
           reservations[alias] \in [owner : Owners, until : Nat]
    BY DEF RegistrationsTyped, Reserved
  <2>4. \A q \in DOMAIN challenges : challenges[q] \in Record
    BY DEF RegistrationsTyped
  <2> QED BY <2>1, <2>2, <2>3, <2>4 DEF RegistrationsTyped, AccountRecords, TypeOK
<1> QED BY RegistrationsStayOnce, <1>1, PTL

LEMMA BackupsAlwaysTyped == ServicesSpec => []B!TypeOK
<1>1. ServicesInit => B!BackupsTyped
  BY ServicesAssumption, B!BackupsTypedInit DEF ServicesInit
<1>2. B!BackupsTyped /\ [ServicesNext]_servicesVars => B!BackupsTyped'
  BY ServicesAssumption, StepOfServices, B!BackupsTypedNext DEF bVars, B!backupVars
<1>3. B!BackupsTyped => B!TypeOK
  BY B!BackupsTypes
<1> QED BY <1>1, <1>2, <1>3, PTL DEF ServicesSpec

\* Of the Connect issuer: what it keeps is of proofs it issued, and of the passkeys one is
\* always active, as the last one is never revoked.
ChallengeRecords == [purpose : C!Purposes, capsule : Credentials \cup {C!Nobody}]

ChallengesTyped ==
    /\ DOMAIN authChallenges \subseteq AuthRequests
    /\ authChallenges \in [DOMAIN authChallenges -> ChallengeRecords]

PasskeysTyped == passkeys \in [Credentials -> {"absent", "active", "revoked"}]

ConsumedTyped ==
    /\ Len(identityProofs) <= MaxProofs
    /\ consumedProofs \subseteq DOMAIN identityProofs

LEMMA WithoutTyped ==
    ASSUME ChallengesTyped, NEW ch, authChallenges' = C!WithoutChallenge(ch)
    PROVE  ChallengesTyped'
  BY DEF ChallengesTyped, C!WithoutChallenge, C!Restrict

LEMMA ChallengesNext == ChallengesTyped /\ C!Next => ChallengesTyped'
<1> SUFFICES ASSUME ChallengesTyped, C!Next PROVE ChallengesTyped'
  OBVIOUS
<1>1. ASSUME NEW ch \in AuthRequests, NEW purpose \in C!Purposes,
             NEW capsule \in Credentials \cup {C!Nobody},
             authChallenges' = C!Put(authChallenges, ch, [purpose |-> purpose, capsule |-> capsule])
      PROVE  ChallengesTyped'
  <2>1. PICK record \in ChallengeRecords : record = [purpose |-> purpose, capsule |-> capsule]
    BY DEF ChallengeRecords
  <2>2. authChallenges' = C!Put(authChallenges, ch, record)
    BY <1>1, <2>1
  <2> QED BY <2>2 DEF C!Put, ChallengesTyped
<1>2. ASSUME NEW ch \in AuthRequests, NEW purpose \in {"authorize", "manage"},
             NEW capsule \in Credentials \cup {C!Nobody},
             C!AuthenticationOptions(ch, purpose, capsule)
      PROVE  ChallengesTyped'
  BY <1>1, <1>2 DEF C!AuthenticationOptions, C!Purposes
<1>3. ASSUME NEW ch \in AuthRequests, C!EnrollmentOptions(ch) PROVE ChallengesTyped'
  BY <1>1, <1>3 DEF C!EnrollmentOptions, C!Purposes
<1>4. ASSUME authChallenges' = authChallenges PROVE ChallengesTyped'
  BY <1>4 DEF ChallengesTyped
<1>5. ASSUME authChallenges' = <<>> PROVE ChallengesTyped'
  BY <1>5 DEF ChallengesTyped
<1>6. ASSUME NEW v, C!VerificationFails(v) \/ C!FinishAuthentication(v) \/ C!FinishEnrollment(v)
      PROVE  ChallengesTyped'
  BY <1>4, <1>6, WithoutTyped
     DEF C!VerificationFails, C!FinishAuthentication, C!FinishEnrollment
<1>7. ASSUME NEW ch, NEW p, \/ C!BeginAuthentication(ch, p) \/ C!BeginEnrollment(ch, p)
                            \/ C!IssueUnasserted \/ C!RevokePasskey(p) \/ C!Gossip(ch, p)
                            \/ C!Exchange(p) \/ C!Introspect(p)
      PROVE  ChallengesTyped'
  BY <1>4, <1>7 DEF C!BeginAuthentication, C!BeginEnrollment, C!IssueUnasserted,
     C!RevokePasskey, C!Gossip, C!Exchange, C!Introspect
<1>8. CASE C!Restart \/ C!Tick
  BY <1>5, <1>8 DEF C!Restart, C!Tick
<1> QED BY <1>2, <1>3, <1>6, <1>7, <1>8 DEF C!Next

LEMMA PasskeysNext ==
    ASSUME UnusedProofs, PasskeysTyped, C!Next
    PROVE  PasskeysTyped'
<1>1. ASSUME NEW p \in Credentials, NEW status \in {"active", "revoked"},
             passkeys' = [passkeys EXCEPT ![p] = status]
      PROVE  PasskeysTyped'
  BY <1>1 DEF PasskeysTyped
<1>2. ASSUME NEW v \in verifying, C!FinishEnrollment(v) PROVE PasskeysTyped'
  BY <1>1, <1>2 DEF C!FinishEnrollment, UnusedProofs
<1>3. ASSUME passkeys' = passkeys PROVE PasskeysTyped'
  BY <1>3 DEF PasskeysTyped
<1>4. ASSUME NEW x, NEW y, NEW z,
             \/ C!AuthenticationOptions(x, y, z) \/ C!BeginAuthentication(x, y)
             \/ C!VerificationFails(x) \/ C!FinishAuthentication(x) \/ C!IssueUnasserted
             \/ C!EnrollmentOptions(x) \/ C!BeginEnrollment(x, y) \/ C!Exchange(x)
             \/ C!Introspect(x) \/ C!Restart \/ C!Tick
      PROVE  PasskeysTyped'
  BY <1>3, <1>4 DEF C!AuthenticationOptions, C!BeginAuthentication, C!VerificationFails,
     C!FinishAuthentication, C!IssueUnasserted, C!EnrollmentOptions, C!BeginEnrollment,
     C!Exchange, C!Introspect, C!Restart, C!Tick
<1>5. ASSUME NEW p \in Credentials, C!RevokePasskey(p) PROVE PasskeysTyped'
  BY <1>1, <1>5 DEF C!RevokePasskey
<1>6. ASSUME NEW p \in Credentials, NEW status \in {"active", "revoked"}, C!Gossip(p, status)
      PROVE  PasskeysTyped'
  BY <1>1, <1>6 DEF C!Gossip
<1> QED BY <1>2, <1>4, <1>5, <1>6 DEF C!Next

LEMMA ConsumedNext ==
    ASSUME UnusedProofs, ConsumedTyped, C!Next
    PROVE  ConsumedTyped'
<1>0. MaxProofs \in Nat
  BY ServicesAssumption DEF C!ProofsAssumption
<1>1. ASSUME NEW p, C!IssueProof(p), consumedProofs' = consumedProofs PROVE ConsumedTyped'
  <2>1. PICK new : identityProofs' = Append(identityProofs, new)
                   /\ Len(identityProofs) < MaxProofs
    BY <1>1 DEF C!IssueProof
  <2>2. Len(identityProofs') <= MaxProofs /\ DOMAIN identityProofs \subseteq DOMAIN identityProofs'
    BY ONLY <1>0, <2>1, UnusedProofs DEF UnusedProofs
  <2> QED BY <1>1, <2>2 DEF ConsumedTyped
<1>2. ASSUME identityProofs' = identityProofs, consumedProofs' \subseteq consumedProofs
      PROVE  ConsumedTyped'
  BY <1>2 DEF ConsumedTyped
<1>3. ASSUME NEW i, NEW row, i \in DOMAIN identityProofs,
             identityProofs' = [identityProofs EXCEPT ![i] = row],
             consumedProofs' \subseteq consumedProofs \cup {i}
      PROVE  ConsumedTyped'
  <2>1. DOMAIN identityProofs' = DOMAIN identityProofs
        /\ Len(identityProofs') = Len(identityProofs)
    BY <1>3 DEF UnusedProofs
  <2> QED BY <1>3, <2>1 DEF ConsumedTyped
<1>4. ASSUME NEW i, C!Exchange(i) PROVE ConsumedTyped'
  <2>1. PICK row : identityProofs' = [identityProofs EXCEPT ![i] = row]
    BY <1>4 DEF C!Exchange
  <2>2. i \in DOMAIN identityProofs /\ consumedProofs' = consumedProofs
    BY <1>4 DEF C!Exchange, UnusedProofs
  <2> QED BY <1>3, <2>1, <2>2
<1>5. ASSUME NEW i, C!Introspect(i) PROVE ConsumedTyped'
  <2>1. i \in DOMAIN identityProofs
    BY <1>5 DEF C!Introspect, UnusedProofs
  <2>2. CASE C!ProofHolds(i)
    <3>1. PICK row : identityProofs' = [identityProofs EXCEPT ![i] = row]
      BY <1>5, <2>2 DEF C!Introspect
    <3>2. consumedProofs' = consumedProofs \cup {i}
      BY <1>5, <2>2 DEF C!Introspect
    <3> QED BY <1>3, <2>1, <3>1, <3>2
  <2>3. CASE ~ C!ProofHolds(i)
    BY <1>2, <1>5, <2>3 DEF C!Introspect
  <2> QED BY <2>2, <2>3
<1>6. ASSUME NEW v, C!FinishAuthentication(v) PROVE ConsumedTyped'
  BY <1>1, <1>2, <1>6 DEF C!FinishAuthentication
<1>7. CASE C!IssueUnasserted
  BY <1>1, <1>7 DEF C!IssueUnasserted
<1>8. ASSUME NEW x, NEW y, NEW z,
             \/ C!AuthenticationOptions(x, y, z) \/ C!BeginAuthentication(x, y)
             \/ C!VerificationFails(x) \/ C!FinishEnrollment(x)
             \/ C!EnrollmentOptions(x) \/ C!BeginEnrollment(x, y) \/ C!RevokePasskey(x)
             \/ C!Gossip(x, y) \/ C!Restart \/ C!Tick
      PROVE  ConsumedTyped'
  BY <1>2, <1>8 DEF C!AuthenticationOptions, C!BeginAuthentication, C!VerificationFails,
     C!FinishEnrollment, C!EnrollmentOptions, C!BeginEnrollment, C!RevokePasskey, C!Gossip,
     C!Restart, C!Tick
<1> QED BY <1>4, <1>5, <1>6, <1>7, <1>8 DEF C!Next

LEMMA ConnectTyped == ServicesSpec => []C!TypeOK
<1> DEFINE Typed == StoreOfProofs /\ ChallengesTyped /\ PasskeysTyped /\ ConsumedTyped
<1>1. ServicesInit => Typed
  <2> SUFFICES ASSUME C!Init, now = 0 PROVE Typed
    BY DEF ServicesInit
  <2>1. FirstPasskey \in Credentials /\ MaxProofs \in Nat
    BY ServicesAssumption DEF C!ProofsAssumption
  <2> QED BY <2>1 DEF C!Init, StoreOfProofs, UnusedProofs, PasskeysTyped, ChallengesTyped,
          ConsumedTyped
<1>2. ASSUME UnusedProofs, ChallengesTyped, PasskeysTyped, ConsumedTyped, C!Next
      PROVE  (ChallengesTyped /\ PasskeysTyped /\ ConsumedTyped)'
  BY <1>2, ChallengesNext, PasskeysNext, ConsumedNext
<1>3. ASSUME ChallengesTyped, PasskeysTyped, ConsumedTyped, UNCHANGED cVars
      PROVE  (ChallengesTyped /\ PasskeysTyped /\ ConsumedTyped)'
  BY <1>3 DEF cVars, ChallengesTyped, PasskeysTyped, ConsumedTyped
<1>4. Typed /\ [ServicesNext]_servicesVars => Typed'
  BY <1>2, <1>3, StepOfServices, StoreNext DEF StoreOfProofs
<1>5. Typed /\ now \in 0 .. MaxTime => C!TypeOK
  <2> SUFFICES ASSUME Typed, now \in 0 .. MaxTime PROVE C!TypeOK
    OBVIOUS
  <2>1. codes \cup tokens \cup consumedProofs \subseteq DOMAIN identityProofs
    BY DEF StoreOfProofs, UnusedProofs, ConsumedTyped
  <2> QED BY <2>1 DEF ChallengesTyped, PasskeysTyped, ConsumedTyped, ChallengeRecords, C!TypeOK
<1> QED BY ClockTyped, <1>1, <1>4, <1>5, PTL DEF ServicesSpec

\* The records of all services have their types, whatever the values of the constants: above
\* all, every intent named in the stream could be, a pairing is of an account, and what was
\* consumed of proofs was issued.
THEOREM ServicesTypesCorrect == ServicesSpec => []ServicesTypeOK
BY IntentsTyped, PolicyTyped, ReceiptsTyped, AuthorityTyped, ApprovalsTyped,
   RegistrationsAlwaysTyped, ConnectTyped, SellersAlwaysTyped, IdentitiesTyped, JoinTyped,
   BackupsAlwaysTyped, ClaimsTyped, PTL DEF ServicesTypeOK

=============================================================================
