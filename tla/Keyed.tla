--------------------------------- MODULE Keyed ---------------------------------
(***************************************************************************)
(* Records kept by a key, as the Maps and objects of the node keep them: a *)
(* function whose domain is the set of keys in use.                        *)
(***************************************************************************)

\* The record takes the place of the one that has the key.
Put(records, key, record) ==
    [k \in DOMAIN records \cup {key} |-> IF k = key THEN record ELSE records[k]]

=============================================================================
