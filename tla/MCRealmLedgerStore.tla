-------------------------- MODULE MCRealmLedgerStore --------------------------
(***************************************************************************)
(* Instances of RealmLedgerStore for TLC.                                  *)
(***************************************************************************)
EXTENDS RealmLedgerStore

CONSTANTS alice, bob, admin

AdminAccount == [balance |-> 5000, credential |-> FALSE]

Saved(log, accounts) ==
    [event_log |-> log, accounts |-> accounts, state_root |-> StateRoot(accounts, BootLaw(0)),
     law |-> BootLaw(0)]

\* A ledger whose administrator was admitted into its log.
AdmittedLedger ==
    LET Admission == [type |-> "ACCOUNT_PROVENANCE_ADMISSION", account |-> admin,
                      state |-> AdminAccount]
    IN  Saved(<<SystemGenesis, Admission>>, [a \in {admin} |-> AdminAccount])

\* A ledger from before there was a log.
AccountsOnly ==
    Saved(<<>>, [a \in {alice} |-> [balance |-> 1000, credential |-> TRUE]])

AllLedgers  == {None, AdmittedLedger, AccountsOnly}
NewLedger   == {None}
AdmittedOne == {AdmittedLedger}

=============================================================================
