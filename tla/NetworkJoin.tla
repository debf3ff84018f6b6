------------------------------- MODULE NetworkJoin -------------------------------
(***************************************************************************)
(* The inbox in which a bridge collects requests to join the network and   *)
(* the names allocated for them (server.js, the routes under               *)
(* /api/sl1/network/join-requests).  Every request reads the store's file, *)
(* changes the copy and writes it back; one that gets a name awaits the    *)
(* DNS provider in between, and what others wrote meanwhile is lost.       *)
(*                                                                         *)
(* A request stands for its hash: two declarations under one id differ.    *)
(* The evidence of an artifact and the hash it may claim are left out.     *)
(***************************************************************************)
EXTENDS Naturals, FiniteSets

CONSTANTS
    Ids,          \* request ids, which the nodes choose
    Networks,
    Names,        \* domain names inside the namespace's zone
    AutoAllocate, \* SL1_NAMESPACE_AUTO_ALLOCATE
    MaxWaiting,   \* bound: requests that await the provider at once
    MaxWrites     \* bound: writes of the store

JoinAssumption == MaxWaiting \in Nat /\ MaxWrites \in Nat

VARIABLES
    store,      \* the file: join_requests and namespace_artifacts
    waiting,    \* requests that await the DNS provider, with their copy of the store
    dns,        \* the provider's A records: for which request each name is set
    writes      \* how often the store was written

joinVars == <<store, waiting, dns, writes>>

\* A name is asked for as requested_fqdn or is only the host_domain of the request; a
\* request with status pending_dns wants it allocated.
Requests == [id : Ids, network : Networks, name : Names, requested : BOOLEAN,
             pending : BOOLEAN]

\* A dns_allocated artifact, and an issuer_reachable or _unreachable one.
Artifacts == [request : Ids, network : Networks, name : Names, allocated : BOOLEAN]

EmptyStore == [requests |-> {}, artifacts |-> {}]

Init ==
    /\ store = EmptyStore
    /\ waiting = {}
    /\ dns = [name \in Names |-> {}]
    /\ writes = 0

Allocation(r) == [request |-> r.id, network |-> r.network, name |-> r.name, allocated |-> TRUE]

\* Of one network a name is allocated to one request.
AllocationConflict(s, a) ==
    /\ a.allocated
    /\ \E b \in s.artifacts : /\ b.allocated /\ b.network = a.network /\ b.name = a.name
                              /\ b.request # a.request

\* The name of a request is that of another one.
NamespaceConflict(s, r) ==
    /\ r.requested
    /\ \E q \in s.requests : /\ q.requested /\ q.network = r.network /\ q.name = r.name
                             /\ q.id # r.id

WithRequest(s, r) == [s EXCEPT !.requests = @ \cup {r}]

\* recordNamespaceArtifact, of an artifact that is there already too.
WithArtifact(s, a) == [s EXCEPT !.artifacts = @ \cup {a}]

Save(s) == writes < MaxWrites /\ store' = s /\ writes' = writes + 1

\* allocateNamespaceDns up to its first await.
Await(s, r, new) ==
    /\ Cardinality(waiting) < MaxWaiting
    /\ waiting' = waiting \cup {[store |-> s, request |-> r, new |-> new, set |-> FALSE]}
    /\ UNCHANGED <<store, dns, writes>>

WantsName(r, s) == AutoAllocate /\ r.pending /\ Allocation(r) \notin s.artifacts

\* POST join-requests of a new request: with a name to allocate it is stored after
\* the provider has answered.  An address outside the zone is refused before.
SubmitJoinRequest(r) ==
    /\ ~ \E q \in store.requests : q.id = r.id
    /\ ~ NamespaceConflict(store, r)
    /\ \/ WantsName(r, store) /\ Await(WithRequest(store, r), r, TRUE)
       \/ Save(WithRequest(store, r)) /\ UNCHANGED <<waiting, dns>>

\* The same request again: its allocation is tried again.
RepeatJoinRequest(r) ==
    /\ r \in store.requests
    /\ WantsName(r, store)
    /\ Await(store, r, FALSE)

\* upsertCloudflareARecord, at the provider: whoever has the name already.
ProviderSetsRecord(w) ==
    /\ ~ w.set
    /\ dns' = [dns EXCEPT ![w.request.name] = {w.request.id}]
    /\ waiting' = (waiting \ {w}) \cup {[w EXCEPT !.set = TRUE]}
    /\ UNCHANGED <<store, writes>>

\* The provider fails or its answer is lost: a new request is stored without a name.
AllocationFails(w) ==
    /\ waiting' = waiting \ {w}
    /\ IF w.new THEN Save(w.store) ELSE UNCHANGED <<store, writes>>
    /\ UNCHANGED dns

\* Slip: the store is read again, and the conflicts are not looked for again.
SaveFreshStore(w) ==
    /\ w.set
    /\ waiting' = waiting \ {w}
    /\ IF AllocationConflict(w.store, Allocation(w.request))
       THEN IF w.new THEN Save(WithRequest(store, w.request)) ELSE UNCHANGED <<store, writes>>
       ELSE Save(WithArtifact(WithRequest(store, w.request), Allocation(w.request)))
    /\ UNCHANGED dns

\* The allocation is recorded in the copy, unless that has the name for another
\* request, and the copy is written.
AllocationReturns(w) ==
    /\ w.set
    /\ waiting' = waiting \ {w}
    /\ IF AllocationConflict(w.store, Allocation(w.request))
       THEN IF w.new THEN Save(w.store) ELSE UNCHANGED <<store, writes>>
       ELSE Save(WithArtifact(w.store, Allocation(w.request)))
    /\ UNCHANGED dns

\* POST join-requests/:requestId/artifacts, of any name, without an await.
RecordArtifact(r, name, allocated) ==
    LET a == [request |-> r.id, network |-> r.network, name |-> name, allocated |-> allocated]
    IN  /\ r \in store.requests
        /\ ~ AllocationConflict(store, a) /\ a \notin store.artifacts
        /\ Save(WithArtifact(store, a))
        /\ UNCHANGED <<waiting, dns>>

\* The process ends, at worst while it writes the file, which is then read as empty.
Crash ==
    /\ waiting' = {}
    /\ UNCHANGED dns
    /\ UNCHANGED <<store, writes>> \/ Save(EmptyStore)

Next ==
    \/ \E r \in Requests : SubmitJoinRequest(r) \/ RepeatJoinRequest(r)
    \/ \E w \in waiting : ProviderSetsRecord(w) \/ AllocationFails(w) \/ AllocationReturns(w)
    \/ \E r \in store.requests, name \in Names, allocated \in BOOLEAN :
          RecordArtifact(r, name, allocated)
    \/ Crash

Spec == Init /\ [][Next]_joinVars

-----------------------------------------------------------------------------

AStore(s) == s.requests \subseteq Requests /\ s.artifacts \subseteq Artifacts

TypeOK ==
    /\ AStore(store)
    /\ \A w \in waiting : AStore(w.store) /\ w.request \in w.store.requests
    /\ dns \in [Names -> SUBSET Ids]
    /\ writes \in 0..MaxWrites

\* "requested_fqdn must map to one pending namespace request", "requested_fqdn must
\* resolve to one active namespace allocation" and "join_requests_are_immutable".
Consistent(s) ==
    /\ \A q, r \in s.requests : q.id = r.id => q = r
    /\ \A r \in s.requests : ~ NamespaceConflict(s, r)
    /\ \A a \in s.artifacts : ~ AllocationConflict(s, a)
    /\ \A a \in s.artifacts : \E r \in s.requests : r.id = a.request /\ r.network = a.network

\* Whatever the requests that await the provider overwrite, and whenever the process
\* ends: the store holds each name and each id once, and no artifact without its request.
NamespacesAreUnique == Consistent(store)

=============================================================================
