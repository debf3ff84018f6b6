------------------------------ MODULE ConnectProofs ------------------------------
(***************************************************************************)
(* Authentication at the Connect issuer, for one identity: challenges and  *)
(* their assertions, the proofs issued for them with a code and a token    *)
(* each, the exchange of codes, the introspection of tokens, identity      *)
(* sessions, and the enrollment and revocation of passkeys (server.js,     *)
(* connect-runtime-store.js, identity-proof-runtime.js).                   *)
(*                                                                         *)
(* An authentication is two steps, before and after it awaits the          *)
(* verification of the assertion.  Expired records are dropped when time   *)
(* passes: nothing reads one that has expired.  The signature counters of  *)
(* the passkeys are left out.  Both the exchange and the introspection     *)
(* answer that the proof is active.                                        *)
(***************************************************************************)
EXTENDS Integers, Sequences, FiniteSets, Functions, Keyed

CONSTANTS
    Passkeys,       \* passkeys of the identity
    Primary,        \* the one it was registered with
    Challenges,     \* ids of authentication and enrollment requests
    ProofTTL,       \* how long a proof and its session last; a challenge lasts a tick
    MaxProofs,      \* bound: proofs of a run
    MaxTime         \* bound: the last moment

ProofsAssumption ==
    /\ Primary \in Passkeys
    /\ ProofTTL \in Nat \ {0} /\ MaxProofs \in Nat /\ MaxTime \in Nat

VARIABLES
    now,
    passkeys,       \* the status of the identity's keys and controller bindings
    challenges,     \* authChallenges and, for passkeys, registrationChallenges
    verifying,      \* requests that await the verification of what the device sent
    session,        \* until when an identity session token is good; 0 for none
    proofs,         \* the proofs issued, in order, and the active answers of each route
    codes,          \* authorizationCodes: of which proofs
    tokens,         \* proofTokens
    consumed        \* consumedProofs

proofsVars ==
    <<now, passkeys, challenges, verifying, session, proofs, codes, tokens, consumed>>

Purposes == {"authorize", "manage", "enroll"}
Nobody == "nobody"

Init ==
    /\ now = 0
    /\ passkeys = [p \in Passkeys |-> IF p = Primary THEN "active" ELSE "absent"]
    /\ challenges = <<>>
    /\ verifying = {}
    /\ session = 0
    /\ proofs = <<>>
    /\ codes = {} /\ tokens = {} /\ consumed = {}

\* accountCredentials: the passkeys that are not revoked.
Active == {p \in Passkeys : passkeys[p] = "active"}

\* GET authentication/options: a capsule that the browser keeps may name a passkey;
\* verifiedCapsuleOwner refuses one that is revoked here.
AuthenticationOptions(ch, purpose, capsule) ==
    /\ ch \notin DOMAIN challenges /\ ~ \E v \in verifying : v.challenge = ch
    /\ capsule # Nobody => passkeys[capsule] # "revoked"
    /\ Active # {} \/ capsule # Nobody
    /\ challenges' = Put(challenges, ch, [purpose |-> purpose, capsule |-> capsule])
    /\ UNCHANGED <<now, passkeys, verifying, session, proofs, codes, tokens, consumed>>

\* verifySl1eAuthenticationChallenge up to its await: the passkey is an active one, or
\* that of the challenge's capsule, whatever has happened to it since.
BeginAuthentication(ch, p) ==
    /\ ch \in DOMAIN challenges /\ challenges[ch].purpose # "enroll"
    /\ p \in Active \/ challenges[ch].capsule = p
    /\ verifying' = verifying \cup
          {[challenge |-> ch, passkey |-> p, purpose |-> challenges[ch].purpose]}
    /\ UNCHANGED <<now, passkeys, challenges, session, proofs, codes, tokens, consumed>>

WithoutChallenge(ch) == Restrict(challenges, DOMAIN challenges \ {ch})

\* The verification ends without success: the challenge stays, unless it was one of an
\* enrollment and the verification threw.
VerificationFails(v) ==
    /\ verifying' = verifying \ {v}
    /\ \/ UNCHANGED challenges
       \/ v.purpose = "enroll" /\ challenges' = WithoutChallenge(v.challenge)
    /\ UNCHANGED <<now, passkeys, session, proofs, codes, tokens, consumed>>

\* issueSl1eProof: a code and a token for one proof.
IssueProof(p) ==
    /\ Len(proofs) < MaxProofs
    /\ proofs' = Append(proofs, [passkey |-> p, until |-> now + ProofTTL,
                                 exchanged |-> 0, introspected |-> 0])
    /\ codes' = codes \cup {Len(proofs) + 1}
    /\ tokens' = tokens \cup {Len(proofs) + 1}

\* authorize/complete, and identity/:id/authentication/complete, which gives a session.
FinishAuthentication(v) ==
    /\ v.purpose # "enroll"
    /\ verifying' = verifying \ {v}
    /\ challenges' = WithoutChallenge(v.challenge)
    /\ IF v.purpose = "authorize"
       THEN IssueProof(v.passkey) /\ UNCHANGED session
       ELSE session' = now + ProofTTL /\ UNCHANGED <<proofs, codes, tokens>>
    /\ UNCHANGED <<now, passkeys, consumed>>

\* GET authorize/complete: a proof for the first account, without an assertion.
IssueUnasserted ==
    /\ IssueProof(Primary)
    /\ UNCHANGED <<now, passkeys, challenges, verifying, session, consumed>>

InSession == session > now

EnrollmentOptions(ch) ==
    /\ InSession
    /\ ch \notin DOMAIN challenges /\ ~ \E v \in verifying : v.challenge = ch
    /\ challenges' = Put(challenges, ch, [purpose |-> "enroll", capsule |-> Nobody])
    /\ UNCHANGED <<now, passkeys, verifying, session, proofs, codes, tokens, consumed>>

BeginEnrollment(ch, p) ==
    /\ InSession
    /\ ch \in DOMAIN challenges /\ challenges[ch].purpose = "enroll"
    /\ verifying' = verifying \cup {[challenge |-> ch, passkey |-> p, purpose |-> "enroll"]}
    /\ UNCHANGED <<now, passkeys, challenges, session, proofs, codes, tokens, consumed>>

\* PASSKEY_ADDED: a passkey that was revoked may be enrolled again.
FinishEnrollment(v) ==
    /\ v.purpose = "enroll" /\ passkeys[v.passkey] # "active"
    /\ verifying' = verifying \ {v}
    /\ passkeys' = [passkeys EXCEPT ![v.passkey] = "active"]
    /\ challenges' = WithoutChallenge(v.challenge)
    /\ UNCHANGED <<now, session, proofs, codes, tokens, consumed>>

\* PASSKEY_REVOKED, on request: never of the last one.
RevokePasskey(p) ==
    /\ InSession
    /\ p \in Active /\ Cardinality(Active) > 1
    /\ passkeys' = [passkeys EXCEPT ![p] = "revoked"]
    /\ UNCHANGED <<now, challenges, verifying, session, proofs, codes, tokens, consumed>>

\* A PASSKEY_ADDED or PASSKEY_REVOKED from a peer, which asks for no session, and is
\* applied to the last passkey as well.
Gossip(p, status) ==
    /\ status = "revoked" => passkeys[p] # "absent"
    /\ passkeys' = [passkeys EXCEPT ![p] = status]
    /\ UNCHANGED <<now, challenges, verifying, session, proofs, codes, tokens, consumed>>

\* POST authorization-code/exchange, in the context it was made for: active, whatever
\* has become of the passkey.
Exchange(i) ==
    /\ i \in codes
    /\ codes' = codes \ {i}
    /\ proofs' = [proofs EXCEPT ![i].exchanged = @ + 1]
    /\ UNCHANGED <<now, passkeys, challenges, verifying, session, tokens, consumed>>

\* Slip: whether the passkey still controls the identity is not asked.
UnconsumedOnly(i) == i \notin consumed

\* verifyIdentityProof: of a proof that has not expired, as its token has not.
ProofHolds(i) == passkeys[proofs[i].passkey] # "revoked" /\ i \notin consumed

\* POST proofs/introspect: the token is used up, whatever the answer.
Introspect(i) ==
    /\ i \in tokens
    /\ tokens' = tokens \ {i}
    /\ IF ProofHolds(i)
       THEN /\ consumed' = consumed \cup {i}
            /\ proofs' = [proofs EXCEPT ![i].introspected = @ + 1]
       ELSE UNCHANGED <<consumed, proofs>>
    /\ UNCHANGED <<now, passkeys, challenges, verifying, session, codes>>

\* The process ends: the store is lost; session tokens are only signed, and the
\* passkeys are replayed.
Restart ==
    /\ challenges' = <<>> /\ verifying' = {}
    /\ codes' = {} /\ tokens' = {} /\ consumed' = {}
    /\ UNCHANGED <<now, passkeys, session, proofs>>

\* Time passes: challenges expire with the tick, proofs at their end.
Tick ==
    /\ now < MaxTime
    /\ now' = now + 1
    /\ challenges' = <<>>
    /\ LET Unexpired(ids) == {i \in ids : proofs[i].until > now + 1}
       IN  /\ codes' = Unexpired(codes)
           /\ tokens' = Unexpired(tokens)
           /\ consumed' = Unexpired(consumed)
    /\ UNCHANGED <<passkeys, verifying, session, proofs>>

Next ==
    \/ \E ch \in Challenges, purpose \in {"authorize", "manage"},
          capsule \in Passkeys \cup {Nobody} : AuthenticationOptions(ch, purpose, capsule)
    \/ \E ch \in Challenges, p \in Passkeys : BeginAuthentication(ch, p)
    \/ \E v \in verifying :
          VerificationFails(v) \/ FinishAuthentication(v) \/ FinishEnrollment(v)
    \/ IssueUnasserted
    \/ \E ch \in Challenges : EnrollmentOptions(ch)
    \/ \E ch \in Challenges, p \in Passkeys : BeginEnrollment(ch, p)
    \/ \E p \in Passkeys : RevokePasskey(p)
    \/ \E p \in Passkeys, status \in {"active", "revoked"} : Gossip(p, status)
    \/ \E i \in DOMAIN proofs : Exchange(i) \/ Introspect(i)
    \/ Restart
    \/ Tick

Spec == Init /\ [][Next]_proofsVars

-----------------------------------------------------------------------------

TypeOK ==
    /\ now \in 0..MaxTime
    /\ passkeys \in [Passkeys -> {"absent", "active", "revoked"}]
    /\ DOMAIN challenges \subseteq Challenges
    /\ \A ch \in DOMAIN challenges :
          challenges[ch] \in [purpose : Purposes, capsule : Passkeys \cup {Nobody}]
    /\ Len(proofs) <= MaxProofs
    /\ codes \cup tokens \cup consumed \subseteq DOMAIN proofs

\* A proof is answered for as active twice at most, by one exchange of its code and by one
\* introspection of its token, through overlapping authentications, retries, expiries,
\* gossip and restarts, and never after its end.  The introspection is never active for a
\* passkey that is revoked by then, though it authenticated, by its capsule too, or the
\* proof was exchanged before; the exchange may be.
ProofsAreWorthOneUse ==
    [][\A i \in DOMAIN proofs' :
          /\ proofs'[i].exchanged <= 1 /\ proofs'[i].introspected <= 1
          /\ (i \in DOMAIN proofs /\ proofs'[i] # proofs[i]) =>
                /\ proofs[i].until > now
                /\ proofs'[i].introspected > proofs[i].introspected
                      => passkeys[proofs[i].passkey] # "revoked"]_proofsVars

=============================================================================
