-------------------------- MODULE ConnectRegistration --------------------------
(***************************************************************************)
(* Registration of identities at the Connect issuer: challenges, the       *)
(* reservation of aliases and the handoff of a registration to another     *)
(* device (connect-runtime-store.js and the routes of server.js).  The     *)
(* store is in memory; the accounts are the GENESIS events.                *)
(*                                                                         *)
(* A completion is two steps: what the route reads before it awaits the    *)
(* verification of the attestation, and what it does with the result.      *)
(* Every route begins by dropping what has expired, with the reservations  *)
(* of the dropped challenges and handoffs.  A registration without an      *)
(* alias reserves nothing and is left out.                                 *)
(*                                                                         *)
(* An account keeps the passkeys that are not revoked.  They come by its   *)
(* registration, an enrollment or the approval of a paired device, each    *)
(* route with its own look-up, and go by a revocation.  What precedes the  *)
(* look-up of an enrollment or a pairing is in ConnectProofs; accounts and *)
(* passkeys that peers gossip, which are not looked up, are in             *)
(* IdentityEvents.                                                         *)
(***************************************************************************)
EXTENDS Integers, Sequences, FiniteSets, Functions, SequencesExt, Keyed

CONSTANTS
    Aliases,
    Owners,         \* tokens that own reservations (browserOwnerToken)
    Registrations,  \* ids of registration requests
    Handoffs,       \* ids of device handoffs
    Credentials,    \* passkeys that devices attest
    MaxCompletions, \* bound: completions that await their verification
    MaxAccounts,    \* bound: accounts of a run
    MaxPairings,    \* bound: paired devices of a run
    TTL,            \* how long challenges, handoffs and reservations last
    MaxTime         \* bound: the last moment

ASSUME RegistrationAssumption ==
    /\ TTL \in Nat \ {0} /\ MaxTime \in Nat
    /\ MaxCompletions \in Nat /\ MaxAccounts \in Nat /\ MaxPairings \in Nat

VARIABLES
    now,
    reservations,   \* aliasReservations: owner and end, by alias
    challenges,     \* registrationChallenges
    handoffs,       \* deviceHandoffs that register
    completing,     \* completions that await their verification
    accounts,       \* ledger.accounts, and whether the alias was still reserved for it
    pairings        \* ledger.controller_binding_proposals of paired devices

registrationVars ==
    <<now, reservations, challenges, handoffs, completing, accounts, pairings>>

Record == [alias : Aliases, owner : Owners, until : Nat]

Init ==
    /\ now = 0
    /\ reservations = <<>> /\ challenges = <<>> /\ handoffs = <<>>
    /\ completing = {}
    /\ accounts = <<>>
    /\ pairings = {}

\* MemoryConnectRuntimeStore.isExpired, for a collection.
Live(collection) ==
    Restrict(collection, {key \in DOMAIN collection : collection[key].until > now})

\* releaseAliasReservation, for the records of one alias and owner each.
Released(reserved, records) ==
    Restrict(reserved, {alias \in DOMAIN reserved :
        ~ \E r \in records : r.alias = alias /\ r.owner = reserved[alias].owner})

Expired ==
    {challenges[q] : q \in DOMAIN challenges \ DOMAIN Live(challenges)}
        \cup {handoffs[h] : h \in DOMAIN handoffs \ DOMAIN Live(handoffs)}

\* The reservations that cleanupSl1eArtifacts leaves: an expired record takes a
\* reservation with it that its owner has renewed meanwhile.
Kept == Released(Live(reservations), Expired)

Cleanup ==
    /\ reservations' = Kept
    /\ challenges' = Live(challenges)
    /\ handoffs' = Live(handoffs)

HoldsAlias(alias, owner) ==
    alias \in DOMAIN Kept /\ Kept[alias].owner = owner

\* Slip: only the reservations are looked at.
AliasUnreserved(alias, owner) == alias \in DOMAIN Kept => HoldsAlias(alias, owner)

AliasAvailable(alias, owner) ==
    /\ \A i \in DOMAIN accounts : accounts[i].alias # alias
    /\ alias \in DOMAIN Kept => HoldsAlias(alias, owner)

Reservation(owner) == [owner |-> owner, until |-> now + TTL]

\* GET registration/options: the same browser may ask again for its alias.
RegistrationOptions(q, alias, owner) ==
    /\ q \notin DOMAIN challenges /\ ~ \E c \in completing : c.request = q
    /\ AliasAvailable(alias, owner)
    /\ reservations' = Put(Kept, alias, Reservation(owner))
    /\ challenges' = Put(Live(challenges), q,
                          [alias |-> alias, owner |-> owner, until |-> now + TTL])
    /\ handoffs' = Live(handoffs)
    /\ UNCHANGED <<now, completing, accounts, pairings>>

\* POST registration/:id/release
ReleaseRegistration(q) ==
    /\ q \in DOMAIN Live(challenges)
    /\ reservations' = Released(Kept, {challenges[q]})
    /\ challenges' = [r \in DOMAIN Live(challenges) \ {q} |-> challenges[r]]
    /\ handoffs' = Live(handoffs)
    /\ UNCHANGED <<now, completing, accounts, pairings>>

\* POST registration/complete, up to the await.
BeginCompletion(q, credential) ==
    /\ Cardinality(completing) < MaxCompletions
    /\ q \in DOMAIN Live(challenges)
    /\ completing' = completing \cup
          {[request |-> q, alias |-> challenges[q].alias, owner |-> challenges[q].owner,
            credential |-> credential]}
    /\ Cleanup
    /\ UNCHANGED <<now, accounts, pairings>>

\* What ends a completion: the reservation and the challenge go, whoever they
\* belong to by now.
Finished(c) ==
    /\ reservations' = Released(Live(reservations), {c})
    /\ challenges' = [q \in DOMAIN challenges \ {c.request} |-> challenges[q]]

\* The attestation is not verified, or its passkey has an account: the challenge may
\* be used again.
CompletionRefused(c) ==
    /\ completing' = completing \ {c}
    /\ UNCHANGED <<now, reservations, challenges, handoffs, accounts, pairings>>

\* verifyRegistrationResponse or the GENESIS throws.
CompletionFails(c) ==
    /\ completing' = completing \ {c}
    /\ Finished(c)
    /\ UNCHANGED <<now, handoffs, accounts, pairings>>

\* findCredentialOwner, through accountCredentials: a passkey that its account revoked has
\* no owner.
Unowned(credential) == \A i \in DOMAIN accounts : credential \notin accounts[i].keys

\* The GENESIS is applied with the alias the challenge was made for; only the
\* passkey is looked up again.
CompletionSucceeds(c) ==
    /\ Len(accounts) < MaxAccounts
    /\ Unowned(c.credential)
    /\ completing' = completing \ {c}
    /\ accounts' = Append(accounts,
          [alias |-> c.alias, keys |-> {c.credential},
           reserved |-> c.alias \in DOMAIN Live(reservations)
                           /\ reservations[c.alias].owner = c.owner])
    /\ Finished(c)
    /\ UNCHANGED <<now, handoffs, pairings>>

OnlyAccounts ==
    UNCHANGED <<now, reservations, challenges, handoffs, completing>>

\* PASSKEY_ADDED, by identity/:id/passkeys/registration/complete.
EnrollPasskey(i, credential) ==
    /\ Unowned(credential)
    /\ accounts' = [accounts EXCEPT ![i].keys = @ \cup {credential}]
    /\ OnlyAccounts /\ UNCHANGED pairings

\* PASSKEY_REVOKED, by a route or from a peer, which may tell of the last one too.
RevokePasskey(i, credential) ==
    /\ credential \in accounts[i].keys
    /\ accounts' = [accounts EXCEPT ![i].keys = @ \ {credential}]
    /\ OnlyAccounts /\ UNCHANGED pairings

\* CONTROLLER_BINDING_PROPOSED, by device-pairings/:id/registration/complete.
ProposePairing(i, credential) ==
    /\ Cardinality(pairings) < MaxPairings
    /\ Unowned(credential)
    /\ pairings' = pairings \cup {[account |-> i, credential |-> credential, approved |-> FALSE]}
    /\ OnlyAccounts /\ UNCHANGED accounts

\* CONTROLLER_BINDING_APPROVED: as often as asked, and without another look-up.
ApprovePairing(p) ==
    /\ accounts' = [accounts EXCEPT ![p.account].keys = @ \cup {p.credential}]
    /\ pairings' = (pairings \ {p}) \cup {[p EXCEPT !.approved = TRUE]}
    /\ OnlyAccounts

\* transferAliasReservation: from its owner, or anew when nobody holds it.
TransferAllowed(alias, from, to) ==
    IF alias \in DOMAIN Kept THEN HoldsAlias(alias, from) ELSE AliasAvailable(alias, to)

\* POST device-handoff that registers, with a reservation to take over or without.
CreateHandoff(h, alias, prior, owner) ==
    /\ h \notin DOMAIN handoffs
    /\ IF prior \in Owners THEN TransferAllowed(alias, prior, owner)
       ELSE AliasAvailable(alias, owner)
    /\ reservations' = Put(Kept, alias, Reservation(owner))
    /\ handoffs' = Put(Live(handoffs), h,
                        [alias |-> alias, owner |-> owner, until |-> now + TTL,
                         complete |-> FALSE])
    /\ challenges' = Live(challenges)
    /\ UNCHANGED <<now, completing, accounts, pairings>>

\* POST device-handoff/:id/complete: once; it stays for the desktop to poll.
CompleteHandoff(h) ==
    /\ h \in DOMAIN Live(handoffs) /\ ~ handoffs[h].complete
    /\ handoffs' = [Live(handoffs) EXCEPT ![h].complete = TRUE, ![h].until = now + 1]
    /\ reservations' = Released(Kept, {handoffs[h]})
    /\ challenges' = Live(challenges)
    /\ UNCHANGED <<now, completing, accounts, pairings>>

\* The process ends: the store is in memory, the accounts are replayed.
Restart ==
    /\ reservations' = <<>> /\ challenges' = <<>> /\ handoffs' = <<>>
    /\ completing' = {}
    /\ UNCHANGED <<now, accounts, pairings>>

Tick ==
    /\ now < MaxTime
    /\ now' = now + 1
    /\ UNCHANGED <<reservations, challenges, handoffs, completing, accounts, pairings>>

Next ==
    \/ \E q \in Registrations, alias \in Aliases, owner \in Owners :
          RegistrationOptions(q, alias, owner)
    \/ \E q \in Registrations : ReleaseRegistration(q)
    \/ \E q \in Registrations, credential \in Credentials : BeginCompletion(q, credential)
    \/ \E c \in completing :
          CompletionRefused(c) \/ CompletionFails(c) \/ CompletionSucceeds(c)
    \/ \E h \in Handoffs, alias \in Aliases, prior \in Owners \cup {"none"}, owner \in Owners :
          CreateHandoff(h, alias, prior, owner)
    \/ \E h \in Handoffs : CompleteHandoff(h)
    \/ \E i \in DOMAIN accounts, credential \in Credentials :
          \/ EnrollPasskey(i, credential) \/ RevokePasskey(i, credential)
          \/ ProposePairing(i, credential)
    \/ \E p \in pairings : ApprovePairing(p)
    \/ Restart
    \/ Tick

Spec == Init /\ [][Next]_registrationVars

-----------------------------------------------------------------------------

TypeOK ==
    /\ now \in 0..MaxTime
    /\ DOMAIN reservations \subseteq Aliases
    /\ \A alias \in DOMAIN reservations :
          reservations[alias] \in [owner : Owners, until : Nat]
    /\ DOMAIN challenges \subseteq Registrations
    /\ \A q \in DOMAIN challenges : challenges[q] \in Record
    /\ DOMAIN handoffs \subseteq Handoffs
    /\ Len(accounts) <= MaxAccounts
    /\ \A i \in DOMAIN accounts :
          accounts[i] \in [alias : Aliases, keys : SUBSET Credentials, reserved : BOOLEAN]
    /\ pairings \subseteq [account : DOMAIN accounts, credential : Credentials,
                           approved : BOOLEAN]

\* However registrations overlap, with each other, with enrollments, pairings and
\* revocations, with releases, handoffs, expiries and restarts: two accounts have a
\* passkey in common, one that neither has revoked, only when the approval of a pairing
\* gave it to one of them, and of the accounts of one alias at most one was registered
\* while the alias was still reserved for it.
RegistrationsAreUnique ==
    \A i, j \in DOMAIN accounts :
        i # j =>
            /\ \A credential \in accounts[i].keys \cap accounts[j].keys :
                  \E p \in pairings :
                      p.approved /\ p.account \in {i, j} /\ p.credential = credential
            /\ accounts[i].alias = accounts[j].alias
                  => ~ (accounts[i].reserved /\ accounts[j].reserved)

=============================================================================
