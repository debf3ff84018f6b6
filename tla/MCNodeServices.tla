----------------------------- MODULE MCNodeServices -----------------------------
(***************************************************************************)
(* Small instances of the services of a node.                              *)
(***************************************************************************)
EXTENDS NodeServices

\* An amount of which the rules read different numbers, a negative one, one that is no
\* number, and one that is only expected.
StatedAmounts ==
    { [amount |-> 1, expected |-> 2, context |-> 2],
      [amount |-> -1, expected |-> Absent, context |-> Absent],
      [amount |-> NaN, expected |-> Absent, context |-> 2],
      [amount |-> Absent, expected |-> 2, context |-> Absent] }

\* Of withdrawals only, a rule of each kind: a large one is denied unless it is cosigned.
WithdrawalRules ==
    [type \in {"withdrawal"} |->
        << [action |-> "require", field |-> "asset", values |-> Assets],
           [action |-> "allow", field |-> "lacks", values |-> {"nothing"}],
           [action |-> "deny", field |-> "amount", values |-> {2}] >>]

TransferCeiling ==
    [type \in {"deposit", "withdrawal", "transfer"} |-> IF type = "withdrawal" THEN 2 ELSE 1]

=============================================================================
