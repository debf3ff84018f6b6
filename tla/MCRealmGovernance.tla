--------------------------- MODULE MCRealmGovernance ---------------------------
(***************************************************************************)
(* An instance of RealmGovernance for TLC.                                 *)
(***************************************************************************)
EXTENDS RealmGovernance

CONSTANTS withdrawal, swap, ceiling

GenesisPolicies == [p \in {withdrawal} |-> <<[id |-> ceiling, amended |-> FALSE]>>]

\* Changes that need, enable and undo each other.
ProposedChanges ==
    {[type |-> "AMEND_RULE", policy |-> withdrawal, rule |-> ceiling],
     [type |-> "REMOVE_RULE", policy |-> withdrawal, rule |-> ceiling],
     [type |-> "ADD_POLICY", policy |-> swap],
     [type |-> "ADD_RULE", policy |-> swap, rule |-> ceiling],
     [type |-> "REMOVE_POLICY", policy |-> swap]}

=============================================================================
