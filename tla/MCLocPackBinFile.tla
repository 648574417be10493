-------------------------- MODULE MCLocPackBinFile --------------------------
(***************************************************************************)
(* Small instances of LocPackBinFile: bytes are 0..2, a hash has four of   *)
(* them, val1 and val2 one, and the length field counts to 8.  Two bytes 2 *)
(* in a row begin a hash and occur nowhere else, so that no text or value  *)
(* looks like a hash.                                                      *)
(***************************************************************************)
EXTENDS LocPackBinFile

Entry(hash, val1, text) ==
  [hash |-> hash, val1 |-> << val1 >>, val2 |-> << 0 >>, text |-> text]

\* Two entries, with hashes in the byte order of the .locpackbin file.
MCInitTable == << Entry(<< 2, 2, 0, 1 >>, 0, << 1 >>),
                  Entry(<< 2, 2, 1, 1 >>, 1, << >>) >>

\* The same hashes in the byte order of the .locpack file.
FirstHash  == << 2, 2, 1, 0 >>
SecondHash == << 2, 2, 1, 1 >>

\* Texts shorter than, as long as and longer than those they replace.
MCRequest ==
  { Entry(h, v, s) : h \in {FirstHash, SecondHash}, v \in {0, 1},
                     s \in {<< >>, << 1 >>, << 0, 1, 0, 1 >>} }
  \cup { Entry(<< 2, 2, 0, 0 >>, 0, << 1 >>),   \* not in the file
         Entry(<< >>, 0, << 1 >>),              \* too short to convert
         Entry(<< 2, 2 >>, 1, << 1 >>) }        \* converts to a short string

\* For the run with disk faults: one text is longer than a length can say.
MCFewRequests ==
  { Entry(FirstHash, 0, << >>), Entry(SecondHash, 0, << 1, 1 >>),
    Entry(SecondHash, 1, << 0, 1, 0, 1, 0, 0, 0, 1, 1, 0, 1, 1 >>) }

\* Two updates that change the lengths of two different entries.
MCTwoRequests ==
  { Entry(FirstHash, 0, << 1, 1 >>), Entry(SecondHash, 0, << >>) }

\* The theorems about tables apply to these instances.
ASSUME ProperFileAssumption == ProperFile

=============================================================================
