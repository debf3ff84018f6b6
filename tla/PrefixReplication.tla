--------------------------- MODULE PrefixReplication ---------------------------
(***************************************************************************)
(* What replication of an append-only history promises: the source only    *)
(* ever appends to its history, and the replica holds a prefix of it that  *)
(* only ever grows.                                                        *)
(***************************************************************************)
EXTENDS Naturals, Sequences

CONSTANT Entries   \* what a history is made of

VARIABLES
    source,    \* the history of the source
    replica    \* the history of the replica

\* long continues short, by at least one entry.
Continues(long, short) ==
    /\ Len(long) > Len(short)
    /\ SubSeq(long, 1, Len(short)) = short

Init == source = <<>> /\ replica = <<>>

Extend ==
    /\ source' \in Seq(Entries)
    /\ Continues(source', source)
    /\ UNCHANGED replica

Copy ==
    /\ Continues(replica', replica)
    /\ Len(replica') <= Len(source)
    /\ replica' = SubSeq(source, 1, Len(replica'))
    /\ UNCHANGED source

Next == Extend \/ Copy

Spec == Init /\ [][Next]_<<source, replica>>

=============================================================================
