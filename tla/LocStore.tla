------------------------------ MODULE LocStore ------------------------------
(***************************************************************************)
(* What a store of entries promises, that of the binary file and that of   *)
(* the text file, with bytes, cells, searching and splicing left out: a    *)
(* table of entries held in memory, in which an update replaces the values *)
(* and the text of one entry and touches no other, and a saved copy on     *)
(* disk, which a save first empties and then replaces by the whole table.  *)
(* A restart or a refresh goes back to the saved copy.                     *)
(***************************************************************************)
EXTENDS Integers, Sequences

CONSTANTS
  InitTable,  \* the entries of the file the program starts with
  Change      \* what an update asks for: entries [hash, val1, val2, text]

VARIABLES
  current,    \* the table in memory
  saved       \* the table on disk

storeVars == << current, saved >>

Init == current = InitTable /\ saved = InitTable

\* The first entry with the hash is replaced, in its place.
FirstWith(table, hash) ==
  { i \in DOMAIN table : /\ table[i].hash = hash
                         /\ \A j \in 1 .. i - 1 : table[j].hash # hash }

Put ==
  /\ \E c \in Change : \E i \in FirstWith(current, c.hash) :
       current' = [current EXCEPT ![i] = c]
  /\ UNCHANGED saved

Empty == saved' = << >> /\ UNCHANGED current

Save == saved' = current /\ UNCHANGED current

Reload == current' = saved /\ UNCHANGED saved

Next == Put \/ Empty \/ Save \/ Reload

Spec == Init /\ [][Next]_storeVars

=============================================================================
