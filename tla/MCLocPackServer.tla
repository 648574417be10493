--------------------------- MODULE MCLocPackServer ---------------------------
(***************************************************************************)
(* A small instance of LocPackServer: two entries.  A text or a value is   *)
(* given by its letter in the .locpack file, and Bytes says what it is in  *)
(* the .locpackbin file, where two bytes 2 in a row begin a hash.          *)
(***************************************************************************)
EXTENDS LocPackServer

MCIntAtom == {"0", "1"}
MCAtom == MCIntAtom \cup {"", "Hash", "Val1", "Val2", "String",
                          "hash1", "HASH1", "hash2", "hash3", "a", "bc"}

Bytes(atom) ==
  CASE atom \in {"hash1", "HASH1"} -> << 2, 2, 1, 0 >>
    [] atom = "hash2" -> << 2, 2, 1, 1 >>
    [] atom = "hash3" -> << 2, 2, 0, 0 >>
    [] atom \in {"0", ""} -> << >>
    [] atom = "a" -> << 1 >>
    [] atom = "bc" -> << 0, 1 >>

Value(atom) == IF atom = "0" THEN << 0 >> ELSE << 1 >>

Both(hash, val1, text) ==
  [bin |-> [hash |-> Bytes(hash), val1 |-> Value(val1), val2 |-> Value("0"),
            text |-> Bytes(text)],
   csv |-> [hash |-> hash, val1 |-> val1, val2 |-> "0",
            text |-> << << text >> >>]]

First  == Both("hash1", "0", "a")
Second == Both("hash2", "0", "a")

MCInitEntry == {First, Second}

MCInitTable == << [First.bin EXCEPT !.hash = << 2, 2, 0, 1 >>],
                  [Second.bin EXCEPT !.hash = << 2, 2, 1, 1 >>] >>

\* The first entry stands there twice: only its first row is updated.
MCInitText == << << "Hash", "Val1", "Val2", "String" >>,
                 << "hash1", "0", "0", "a" >>, << "hash2", "0", "0", "a" >>,
                 << "hash1", "0", "0", "bc" >> >>

\* The same bytes in upper case, and a hash neither file knows, among them.
MCUpdate == { Both("hash1", "1", "bc"), Both("hash2", "1", ""),
              Both("HASH1", "0", ""), Both("hash3", "1", "a") }

MCFewUpdates == { Both("hash1", "1", "bc"), Both("hash2", "1", "") }

MCLimit == {1, -1}

\* The theorem about the agreement of the two files applies to this instance.
ASSUME InstanceAssumption == SameEntries /\ Bin!ProperFile

=============================================================================
