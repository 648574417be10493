------------------------------- MODULE LocCsv -------------------------------
(***************************************************************************)
(* The text of a .locpack file and the table rapidcsv holds of it, with    *)
(* the separator settings LocPackFile uses: comma, no trimming, no quoting *)
(* on output.                                                              *)
(*                                                                         *)
(* A string is the sequence of its lines, and a line the sequence of the   *)
(* atoms between its commas; an atom is a piece of text with neither.  The *)
(* string "a" is << << "a" >> >>, "a,b" is << << "a", "b" >> >>, and       *)
(* "a<newline>b" is << << "a" >>, << "b" >> >>.  A quoted field, commas    *)
(* included, reads and writes back unchanged and so is an atom as well.    *)
(* The text of a file is a sequence of lines too.  Carriage returns, which *)
(* ParseCsv drops outside of quotes and the parsers remove from the text,  *)
(* are left out.                                                           *)
(***************************************************************************)
EXTENDS Integers, SequencesExt

CONSTANTS
  Atom,      \* pieces of text, the empty one ("") among them
  IntAtom    \* those that std::stoi accepts

ASSUME AtomAssumption == IntAtom \subseteq Atom /\ "" \in Atom

Str(atom) == << << atom >> >>

\* ParseCsv: every comma ends a cell and every line break a row.
Parse(text) ==
  [i \in 1 .. Len(text) |-> [j \in 1 .. Len(text[i]) |-> Str(text[i][j])]]

\* Two strings with a comma in between.
WithComma(s, u) ==
  SubSeq(s, 1, Len(s) - 1) \o << s[Len(s)] \o u[1] >> \o SubSeq(u, 2, Len(u))

RowText(row) ==
  LET upTo[n \in 1 .. Len(row)] ==
        IF n = 1 THEN row[1] ELSE WithComma(upTo[n - 1], row[n])
  IN  upTo[Len(row)]

\* WriteCsv: the cells of a row as they are, separated by commas.
Written(doc) == FlattenSeq([i \in 1 .. Len(doc) |-> RowText(doc[i])])

\* vector::resize on a row: cut, or pad with empty cells.
Resized(row, n) ==
  [j \in 1 .. n |-> IF j <= Len(row) THEN row[j] ELSE Str("")]

ColumnCount(doc) == IF doc = << >> THEN 0 ELSE Len(doc[1])

\* The first half of SetRow: the row exists, and every row has room for the
\* new one if the first row has not.
MakeRoom(doc, i, n) ==
  LET padded == [k \in 1 .. i |->
                   IF k <= Len(doc) THEN doc[k]
                   ELSE Resized(<< >>, ColumnCount(doc))]
      tall   == IF i <= Len(doc) THEN doc ELSE padded
  IN  IF n > ColumnCount(tall)
      THEN [k \in 1 .. Len(tall) |-> Resized(tall[k], n)]
      ELSE tall

\* The second half: cells are overwritten from the left, and a cell the row
\* does not have makes .at() throw, the cells before it already changed.
\* Cells beyond the new row stay as they are.
SetRow(doc, i, new) ==
  [MakeRoom(doc, i, Len(new)) EXCEPT ![i] =
     [j \in 1 .. Len(@) |-> IF j <= Len(new) THEN new[j] ELSE @[j]]]

SetRowThrows(doc, i, new) == Len(MakeRoom(doc, i, Len(new))[i]) < Len(new)

\* std::stoi looks at the start of a string.
IsInt(s) == s[1][1] \in IntAtom

\* findHashIndex: the first row whose first cell is the hash, if there is one.
HashRow(doc, hash) ==
  { i \in 1 .. Len(doc) : /\ doc[i][1] = Str(hash)
                         /\ \A k \in 1 .. i - 1 : doc[k][1] # Str(hash) }

\* A row as a LocaleLine: hash, content, character and unknown.
LocaleLine(row) ==
  [hash |-> row[1], content |-> row[4], character |-> row[2], unknown |-> row[3]]

\* A row both parsers take: four cells, and integers where they belong.
Takes(row) == Len(row) >= 4 /\ IsInt(row[2]) /\ IsInt(row[3])

\* parseLocPackRange skips the other rows.
RangeLines(doc) ==
  LET good == SelectSeq(doc, Takes)
  IN  [i \in 1 .. Len(good) |-> LocaleLine(good[i])]

\* parseLocPackWhole takes the rows in turn and stops at the first of them.
FirstBadRow(doc) ==
  { i \in 1 .. Len(doc) : /\ ~ Takes(doc[i])
                         /\ \A k \in 1 .. i - 1 : Takes(doc[k]) }

=============================================================================
