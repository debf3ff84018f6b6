-------------------------- MODULE SettlementFederation --------------------------
(***************************************************************************)
(* What a settlement is certified by: the attestations of the local        *)
(* validators (settlement/attestations.js), the receipts of the node       *)
(* (receipt.js) with the constitutional epoch they were issued in, and the *)
(* registry of subnets under whose epochs a receipt is verified            *)
(* (federation.js).  The epochs are those of the governance engine, here   *)
(* only a growing list of constitution roots.                              *)
(***************************************************************************)
EXTENDS Integers, Sequences, FiniteSets, Keyed

CONSTANTS
    N,          \* validators of the attestation engine
    Roots,      \* digests of constitutions
    Intents,    \* fulfilled intents
    Proofs,     \* fingerprints of settlement proofs
    Primary,    \* this node's own subnet
    Others,     \* ids of further subnets
    MaxEpochs   \* bound: epochs of a run

FederationAssumption ==
    N \in Nat \ {0} /\ Primary \notin Others /\ MaxEpochs \in Nat \ {0}

VARIABLES
    epochs,         \* the governance engine's epochs: epochs[e + 1] is epoch e's root
    subnets,        \* ledger.federation.subnets
    federationRoot, \* ledger.federation.federation_root, before the hash
    receipts        \* ledger.receipts by receipt_id, the hash of its domain

federationVars == <<epochs, subnets, federationRoot, receipts>>

SubnetIds == {Primary} \cup Others
Statuses == {"ACTIVE", "PAUSED", "SUSPENDED"}
EpochRecord == [epoch : 0..MaxEpochs, root : Roots]

\* _recomputeFederationRoot: the roots and epochs of the active subnets.
RootOf(registry) ==
    {[id |-> s, root |-> registry[s].root, epoch |-> registry[s].epoch] :
        s \in {t \in DOMAIN registry : registry[t].status = "ACTIVE"}}

\* A subnet as it is registered.
Subnet(root) ==
    [status |-> "ACTIVE", root |-> root, epoch |-> 0,
     history |-> <<[epoch |-> 0, root |-> root]>>]

\* The boot: one epoch, which the primary subnet is told of, its number aside.
Init ==
    /\ \E root \in Roots : epochs = <<root>>
    /\ subnets = [id \in {Primary} |-> Subnet(epochs[1])]
    /\ federationRoot = RootOf(subnets)
    /\ receipts = <<>>

\* What every operation of the registry ends with.
Register(registry) ==
    /\ subnets' = registry
    /\ federationRoot' = RootOf(registry)
    /\ UNCHANGED <<epochs, receipts>>

\* POST /api/federation/subnets; without a root it gets the node's own.
RegisterSubnet(id, root) ==
    /\ id \notin DOMAIN subnets
    /\ Register(Put(subnets, id, Subnet(root)))

\* updateSubnetConstitution, which no route calls.
UpdateSubnetConstitution(id, root, epoch) ==
    /\ id \in DOMAIN subnets
    /\ Register([subnets EXCEPT ![id].root = root, ![id].epoch = epoch,
                    ![id].history = Append(@, [epoch |-> epoch, root |-> root])])

\* setSubnetStatus, which no route calls.
SetSubnetStatus(id, status) ==
    /\ id \in DOMAIN subnets
    /\ Register([subnets EXCEPT ![id].status = status])

\* An amendment is enacted; nobody tells the registry.
Enact(root) ==
    /\ Len(epochs) < MaxEpochs
    /\ epochs' = Append(epochs, root)
    /\ UNCHANGED <<subnets, federationRoot, receipts>>

Quorum == (2 * N + 2) \div 3

\* collectAttestations: the validators judge one proof alike; the moment in which
\* one signs may differ from the moment it reports, and its signature then fails.
QuorumMet(acceptable, reportedLate) ==
    /\ (IF acceptable THEN N ELSE 0) >= Quorum
    /\ reportedLate = {}

ReceiptId(intent, proof, verdict) ==
    [intent |-> intent, proof |-> proof, verdict |-> verdict]

\* A receipt says under which constitution it was issued.
Receipt(quorum) ==
    [quorum |-> quorum, epoch |-> Len(epochs) - 1, root |-> epochs[Len(epochs)]]

\* Slip: a receipt issued again is written again.
ReissueReceipt(intent, proof, quorum) ==
    LET id == ReceiptId(intent, proof, "FINALIZED")
    IN  /\ receipts' = Put(receipts, id, Receipt(quorum))
        /\ UNCHANGED <<epochs, subnets, federationRoot>>

\* ReceiptEngine.issue: idempotent; a quorum that was not met is told, not refused.
IssueReceipt(intent, proof, quorum) ==
    LET id == ReceiptId(intent, proof, "FINALIZED")
    IN  /\ receipts' = IF id \in DOMAIN receipts THEN receipts
                       ELSE Put(receipts, id, Receipt(quorum))
        /\ UNCHANGED <<epochs, subnets, federationRoot>>

\* verifyReceiptEpoch.
ValidInItsEpoch(r) == r.epoch + 1 \in DOMAIN epochs /\ epochs[r.epoch + 1] = r.root

\* verifyReceiptSubnet: the first record of the epoch counts.
ValidInSubnet(r, id) ==
    LET history == subnets[id].history
    IN  /\ id \in DOMAIN subnets
        /\ \E i \in DOMAIN history :
              /\ history[i] = [epoch |-> r.epoch, root |-> r.root]
              /\ \A j \in 1..(i - 1) : history[j].epoch # r.epoch

Next ==
    \/ \E id \in Others, root \in Roots : RegisterSubnet(id, root)
    \/ \E id \in Others, root \in Roots :
          /\ id \in DOMAIN subnets /\ subnets[id].epoch < MaxEpochs - 1
          /\ UpdateSubnetConstitution(id, root, subnets[id].epoch + 1)
    \/ \E id \in SubnetIds, status \in Statuses : SetSubnetStatus(id, status)
    \/ \E root \in Roots : Enact(root)
    \/ \E intent \in Intents, proof \in Proofs, ok \in BOOLEAN, late \in SUBSET (1..N) :
          IssueReceipt(intent, proof, QuorumMet(ok, late))

Spec == Init /\ [][Next]_federationVars

-----------------------------------------------------------------------------

TypeOK ==
    /\ Len(epochs) \in 1..MaxEpochs /\ \A e \in DOMAIN epochs : epochs[e] \in Roots
    /\ DOMAIN subnets \subseteq SubnetIds
    /\ \A id \in DOMAIN subnets :
          /\ subnets[id].status \in Statuses /\ subnets[id].root \in Roots
          /\ \A i \in DOMAIN subnets[id].history : subnets[id].history[i] \in EpochRecord
    /\ \A id \in DOMAIN receipts : receipts[id].quorum \in BOOLEAN

\* A receipt is a judgment under the law of its time: whatever is enacted later and
\* whoever asks for it again, it stays as it was issued and keeps verifying in its
\* epoch; under the primary subnet it does while the law is that of the boot.
ReceiptsStand ==
    [][\A id \in DOMAIN receipts :
          /\ id \in DOMAIN receipts' /\ receipts'[id] = receipts[id]
          /\ ValidInItsEpoch(receipts[id])'
          /\ Len(epochs') = 1 => ValidInSubnet(receipts[id], Primary)']_federationVars

=============================================================================
