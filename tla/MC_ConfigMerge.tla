------------------------------ MODULE MC_ConfigMerge ------------------------------
(***************************************************************************)
(* Two keys, two values: a header, unnamed sections that set one key or   *)
(* both (so that a later one overrides an earlier one and the header),     *)
(* and named sections, up to four of them in any order.                   *)
(***************************************************************************)
EXTENDS ConfigMerge

MergeHeaders == {[key \in {"a"} |-> 0], [key \in {"a", "b"} |-> 0]}

MergeSections ==
    {[name |-> "", cfg |-> [key \in {"a"} |-> 1]],
     [name |-> "", cfg |-> [key \in {"a", "b"} |-> 2]],
     [name |-> "support", cfg |-> [key \in {"b"} |-> 1]],
     [name |-> "support", cfg |-> [key \in {"a"} |-> 2]]}

=============================================================================
