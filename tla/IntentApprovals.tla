----------------------------- MODULE IntentApprovals -----------------------------
(***************************************************************************)
(* The approval of an intent by a passkey (intent-approval-runtime.js):    *)
(* how a credential is found, how an approval is made from an assertion,   *)
(* consumed, revoked and expires.  Approvals and replay keys are kept in   *)
(* memory and in no event, so a boot starts without; PASSKEY_REVOKED in    *)
(* server.js ends a credential.                                            *)
(*                                                                         *)
(* One entity.  An intent stands for its hash, nonce and audience included.*)
(***************************************************************************)
EXTENDS Integers, FiniteSets, Keyed

CONSTANTS
    Intents,
    Credentials,    \* passkeys of the entity, each with a controller of its own
    MaxTime         \* bound: the last moment

ApprovalAssumption == MaxTime \in Nat

VARIABLES
    now,
    deadline,   \* expires_at of the intents
    bindings,   \* controller_bindings: the status of the explicit ones
    keys,       \* the passkeys of the account: their status
    approvals,  \* ledger.intent_approvals, by replay key
    consumed    \* for each replay key, how often its approval was consumed since the boot

approvalVars == <<now, deadline, bindings, keys, approvals, consumed>>

\* What must not be used twice: an intent approved with a credential.
ReplayKey == Intents \X Credentials

Init ==
    /\ now = 0
    /\ deadline \in [Intents -> 1..MaxTime]
    /\ \E enrolled, bound \in SUBSET Credentials :
          /\ keys = [c \in enrolled |-> "active"]
          /\ bindings = [c \in bound |-> "active"]
    /\ approvals = <<>>
    /\ consumed = [k \in ReplayKey |-> 0]

\* PASSKEY_REVOKED: the account's key and, if there is one, the binding.
RevokePasskey(c) ==
    /\ keys' = [k \in DOMAIN keys |-> IF k = c THEN "revoked" ELSE keys[k]]
    /\ bindings' = [b \in DOMAIN bindings |-> IF b = c THEN "revoked" ELSE bindings[b]]
    /\ UNCHANGED <<now, deadline, approvals, consumed>>

\* findCredentialBinding: an active binding first, and failing that the account's
\* keys, whose status is not looked at.
Bound(c) == (c \in DOMAIN bindings /\ bindings[c] = "active") \/ c \in DOMAIN keys

\* Slip: a repeated assertion makes the approval pending again.
RepeatIntentApproval(i, c) ==
    /\ deadline[i] > now /\ Bound(c)
    /\ approvals' = Put(approvals, <<i, c>>, "pending")
    /\ UNCHANGED <<now, deadline, bindings, keys, consumed>>

\* createIntentApproval: once for a replay key, whatever became of the approval.
CreateIntentApproval(i, c) ==
    /\ deadline[i] > now /\ Bound(c)
    /\ <<i, c>> \notin DOMAIN approvals
    /\ approvals' = Put(approvals, <<i, c>>, "pending")
    /\ UNCHANGED <<now, deadline, bindings, keys, consumed>>

\* verifyIntentApproval, with the context of the intent and credential themselves.
ApprovalHolds(k) ==
    k \in DOMAIN approvals /\ approvals[k] = "pending" /\ deadline[k[1]] > now

\* consumeIntentApproval
ConsumeIntentApproval(k) ==
    /\ ApprovalHolds(k)
    /\ approvals' = [approvals EXCEPT ![k] = "executed"]
    /\ consumed' = [consumed EXCEPT ![k] = @ + 1]
    /\ UNCHANGED <<now, deadline, bindings, keys>>

\* revokeIntentApproval: of any approval, an executed one as well.
RevokeIntentApproval(k) ==
    /\ k \in DOMAIN approvals
    /\ approvals' = [approvals EXCEPT ![k] = "revoked"]
    /\ UNCHANGED <<now, deadline, bindings, keys, consumed>>

\* A boot forgets the approvals and their replay keys; revocations are replayed.
Restart ==
    /\ approvals # <<>>
    /\ approvals' = <<>>
    /\ consumed' = [k \in ReplayKey |-> 0]
    /\ UNCHANGED <<now, deadline, bindings, keys>>

Tick ==
    /\ now < MaxTime
    /\ now' = now + 1
    /\ UNCHANGED <<deadline, bindings, keys, approvals, consumed>>

Next ==
    \/ \E c \in Credentials : RevokePasskey(c)
    \/ \E i \in Intents, c \in Credentials : CreateIntentApproval(i, c)
    \/ \E k \in ReplayKey : ConsumeIntentApproval(k) \/ RevokeIntentApproval(k)
    \/ Restart
    \/ Tick

Spec == Init /\ [][Next]_approvalVars

-----------------------------------------------------------------------------

TypeOK ==
    /\ now \in 0..MaxTime
    /\ \A status \in {keys, bindings} :
          /\ DOMAIN status \subseteq Credentials
          /\ \A c \in DOMAIN status : status[c] \in {"active", "revoked"}
    /\ DOMAIN approvals \subseteq ReplayKey
    /\ \A k \in DOMAIN approvals : approvals[k] \in {"pending", "executed", "revoked"}
    /\ consumed \in [ReplayKey -> Nat]

\* "Previously issued artifacts must still be checked by expiry, replay,
\* revocation": in one life of the process an assertion executes at most once, however
\* often it is sent again and whatever was done to the approval or the passkey in
\* between; what was consumed stays out of use, revoked or not.
ApprovalsExecuteOnce ==
    \A k \in ReplayKey :
        /\ consumed[k] <= 1
        /\ consumed[k] = 1 => k \in DOMAIN approvals /\ approvals[k] # "pending"

=============================================================================
