---------------------------- MODULE AuthorityRuntime ----------------------------
(***************************************************************************)
(* From grants to a settled purchase: control grants and their revocation, *)
(* the resolution of a capability, policy decisions, authorizations        *)
(* (authority-runtime.js, capability-resolution.js, policy-artifacts.js),  *)
(* external proofs (external-proof-runtime.js) and marketplace settlements *)
(* (marketplace-flow-runtime.js), as the events of server.js apply them.   *)
(*                                                                         *)
(* One entity, one capability and scope: grants differ in the key they are *)
(* bound to.  The ids of grants, authorizations and settlement proofs and  *)
(* the idempotency key of a settlement may be chosen by the caller, the    *)
(* hashes the code makes otherwise being one choice, so a grant may be     *)
(* issued again and an authorization replaced.  A settlement may name an   *)
(* authorization and an external proof, or bring them along.               *)
(***************************************************************************)
EXTENDS Integers, FiniteSets, Keyed

CONSTANTS
    GrantIds,
    Keys,           \* addresses of proof keys
    AnyKey,         \* a grant that names no key
    Policies,       \* some of the four policies of a grant
    AuthorizationIds,
    References,     \* what external proofs refer to: a domain, a type and an id
    SettlementKeys, \* idempotency keys, and ids of settlement proofs
    MaxTime         \* bound: the last moment

AuthorityAssumption ==
    /\ AnyKey \notin Keys
    /\ Policies \subseteq {"deny", "require_quorum", "require_approval", "allow"}
    /\ MaxTime \in Nat

VARIABLES
    now,            \* the time of the next event
    grants,         \* ledger.control_grants (and capability_grants, its copy), by id
    authorizations, \* ledger.authorizations, by id
    proofs,         \* ledger.external_proofs: their status, by reference
    settled,        \* ledger.settlement_idempotency_keys
    settlements     \* ledger.settlement_proofs: their lineage, by id

authorityVars == <<now, grants, authorizations, proofs, settled, settlements>>

Grants == [key : Keys \cup {AnyKey}, policy : Policies, status : {"active", "revoked"},
           until : 0..(MaxTime + 1)]

\* What is looked at of an authorization; expires_at may be chosen, or be no date, which
\* never comes.
Authorizations ==
    [matched : SUBSET GrantIds, until : 1..(MaxTime + 1), status : {"authorized", "denied"}]

Init ==
    /\ now = 0
    /\ grants = <<>>
    /\ authorizations = <<>>
    /\ proofs = <<>>
    /\ settled = {} /\ settlements = <<>>

\* CONTROL_GRANT_CREATED: a grant of the same id is replaced, a revoked one too.
CreateControlGrant(id, key, policy, until) ==
    /\ grants' = Put(grants, id, [key |-> key, policy |-> policy, status |-> "active",
                                  until |-> until])
    /\ UNCHANGED <<now, authorizations, proofs, settled, settlements>>

\* CONTROL_GRANT_REVOKED
RevokeControlGrant(id) ==
    /\ id \in DOMAIN grants
    /\ grants' = [grants EXCEPT ![id].status = "revoked"]
    /\ UNCHANGED <<now, authorizations, proofs, settled, settlements>>

\* decideCapability: the grants in force for the key, of which the strictest decide.
InForce(key) ==
    {id \in DOMAIN grants :
        /\ grants[id].status = "active" /\ grants[id].until > now
        /\ grants[id].key \in {AnyKey, key}}

WithPolicy(key, policy) == {id \in InForce(key) : grants[id].policy = policy}

\* The grants that a decision to allow rests on; none when it is another decision.
Allowing(key) ==
    IF \E id \in InForce(key) : grants[id].policy # "allow" THEN {}
    ELSE WithPolicy(key, "allow")

\* Slip: what no grant forbids is allowed.
PermittedByDefault(key, holds) ==
    /\ \A id \in InForce(key) : grants[id].policy = "allow"
    /\ holds

\* isAllow.  Whether the decision of the policy allows it and the binding to an approval
\* holds is an input: both are looked up by their ids.
Permitted(key, holds) == Allowing(key) # {} /\ holds

\* AUTHORIZATION_CREATED: a denial is recorded as well.
CreateAuthorization(id, key, holds, until) ==
    /\ authorizations' = Put(authorizations, id,
          [matched |-> Allowing(key), until |-> until,
           status |-> IF Permitted(key, holds) THEN "authorized" ELSE "denied"])
    /\ UNCHANGED <<now, grants, proofs, settled, settlements>>

\* verifyAuthorization, of a record or of one that the caller gives: the grants it names
\* must be there and active, whatever else they say now.
VerifyAuthorization(a) ==
    /\ a.status = "authorized" /\ a.until > now
    /\ \A id \in a.matched : id \in DOMAIN grants /\ grants[id].status = "active"

\* EXTERNAL_PROOF_RECORDED: a reference is accepted once, unless the submitter
\* allows a duplicate, which replaces the proof.
RecordExternalProof(reference, status, duplicate) ==
    /\ duplicate \/ reference \notin DOMAIN proofs
    /\ proofs' = Put(proofs, reference, status)
    /\ UNCHANGED <<now, grants, authorizations, settled, settlements>>

\* verifyExternalProof, of a record or, when none is named, of one the caller gives with
\* the fact, path and finality of some record.
VerifyExternalProof(reference) ==
    IF reference \in References THEN reference \in DOMAIN proofs /\ proofs[reference] = "verified"
    ELSE DOMAIN proofs # {}

\* MARKETPLACE_SETTLEMENT_RECORDED: named tells whether the authorization is a record.
\* That its policy decision is recorded and allows is an input as well.
ExecuteMarketplaceSettlement(key, id, a, named, reference) ==
    /\ VerifyAuthorization(a) /\ VerifyExternalProof(reference)
    /\ key \notin settled
    /\ settled' = settled \cup {key}
    /\ settlements' = Put(settlements, id, [named |-> named, grants |-> a.matched])
    /\ UNCHANGED <<now, grants, authorizations, proofs>>

\* explainSettlement: the lineage of a settlement is complete when it has grants, and when
\* the authorization has an id and a capability, as those that are recorded have.
Explained(s) == s.grants # {}

Tick ==
    /\ now < MaxTime
    /\ now' = now + 1
    /\ UNCHANGED <<grants, authorizations, proofs, settled, settlements>>

Next ==
    \/ \E id \in GrantIds, key \in Keys \cup {AnyKey}, policy \in Policies,
          until \in (now + 1)..(MaxTime + 1) : CreateControlGrant(id, key, policy, until)
    \/ \E id \in GrantIds : RevokeControlGrant(id)
    \/ \E id \in AuthorizationIds, key \in Keys, holds \in BOOLEAN, until \in 1..(MaxTime + 1) :
          CreateAuthorization(id, key, holds, until)
    \/ \E reference \in References, status \in {"verified", "pending"}, duplicate \in BOOLEAN :
          RecordExternalProof(reference, status, duplicate)
    \/ \E key, id \in SettlementKeys, reference \in References \cup {"given"} :
          \/ \E x \in DOMAIN authorizations :
                ExecuteMarketplaceSettlement(key, id, authorizations[x], TRUE, reference)
          \/ \E a \in Authorizations :
                ExecuteMarketplaceSettlement(key, id, a, FALSE, reference)
    \/ Tick

Spec == Init /\ [][Next]_authorityVars

-----------------------------------------------------------------------------

TypeOK ==
    /\ now \in 0..MaxTime
    /\ DOMAIN grants \subseteq GrantIds /\ \A id \in DOMAIN grants : grants[id] \in Grants
    /\ DOMAIN authorizations \subseteq AuthorizationIds
    /\ \A id \in DOMAIN authorizations : authorizations[id] \in Authorizations
    /\ DOMAIN proofs \subseteq References
    /\ settled \subseteq SettlementKeys
    /\ DOMAIN settlements \subseteq SettlementKeys

\* However grants are revoked, expire and are issued again, and authorizations are denied
\* and replaced, between the decision and its use: a settlement that named a recorded
\* authorization is one that explainSettlement can explain, by grants that the node has.
\* One that brought its authorization along need not be.
SettlementsAreExplained ==
    \A id \in DOMAIN settlements :
        settlements[id].named =>
            Explained(settlements[id]) /\ settlements[id].grants \subseteq DOMAIN grants

=============================================================================
