------------------------------ MODULE WriteOnce ------------------------------
(***************************************************************************)
(* What every table of the store promises, whatever fills it: a key that   *)
(* has a value keeps it.  The tables of market data and of snapshots are   *)
(* protected by triggers and by an upsert that keeps the stored row.       *)
(***************************************************************************)
CONSTANTS
    Keys,       \* the primary keys of the table
    Values,     \* what a row can hold
    Absent      \* no row under this key

VARIABLE table

Init == table = [k \in Keys |-> Absent]

\* One transaction gives values to any keys that have none.
Next ==
    /\ table' \in [Keys -> Values \cup {Absent}]
    /\ \A k \in Keys : table[k] # Absent => table'[k] = table[k]

Spec == Init /\ [][Next]_table
=============================================================================
