-------------------------- MODULE MCRealmReplication --------------------------
(***************************************************************************)
(* Instances of RealmReplication: a source alone with an unreliable        *)
(* transport, and one with a foreign realm and local clients beside it.    *)
(***************************************************************************)
EXTENDS RealmReplication

CONSTANTS root1, root2, phone, refA, web, webRef, remote   \* the names the events use

CreateRoot(r) == [type |-> "ROOT_AUTHORITY_CREATED", signer |-> r, root |-> r]
IssuePhone(r) == [type |-> "DEVICE_KEY_ISSUED", device |-> phone, ref |-> refA, signer |-> r,
                  recoveryRef |-> None]
RevokePhone(r) == [type |-> "DEVICE_KEY_REVOKED", target |-> phone, signer |-> r,
                   recoveryRef |-> None]

OwnEvents     == {CreateRoot(root1), IssuePhone(root1), RevokePhone(root1)}
FewOwnEvents  == {CreateRoot(root1), IssuePhone(root1)}
ForeignEvents == {CreateRoot(root2)}

Commands(type, events) == {[type |-> type, event |-> e] : e \in events}

OpenSession(d) == [type |-> "SESSION_AUTHORITY_ISSUED", signer |-> d, session |-> web,
                   ref |-> webRef]
Trust(r)       == [type |-> "FEDERATION_TRUST_ESTABLISHED", signer |-> r, realm |-> remote]

ClientCommands ==
    Commands("SUBMIT_REALM_EVENT", {IssuePhone(root1), CreateRoot(root2)})
    \cup Commands("SUBMIT_DEVICE_EVENT", {OpenSession(phone)})
    \cup Commands("RECOGNIZE_REMOTE_REALM", {Trust(root1)})

=============================================================================
