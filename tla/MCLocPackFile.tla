---------------------------- MODULE MCLocPackFile ----------------------------
(***************************************************************************)
(* Small instances of LocPackFile: a header and two entries.               *)
(***************************************************************************)
EXTENDS LocPackFile

MCIntAtom == {"1", "2"}
MCAtom == MCIntAtom \cup {"", "Hash", "Val1", "Val2", "String",
                          "h1", "h2", "h3", "a", "b"}

Header == << "Hash", "Val1", "Val2", "String" >>

MCInitText == << Header, << "h1", "1", "1", "a" >>, << "h2", "1", "1", "a" >> >>

\* What another program leaves: one text changed, an entry inserted in front
\* (every row moves), a header lost and a row cut short, a text with a comma,
\* which makes five cells.
MCVersion ==
  { << Header, << "h1", "1", "1", "a" >>, << "h2", "1", "1", "b" >> >>,
    << Header, << "h3", "1", "1", "a" >>, << "h1", "1", "1", "a" >> >>,
    << << "h1", "1", "1", "a" >>, << "h2" >> >>,
    << << "h1", "1", "1", "b", "a" >> >> }

MCAmount == {10, -1}

Update(hash, text) == [hash |-> hash, val1 |-> "2", val2 |-> "1", text |-> text]

\* What may stand behind the end of a short row: a string that is a number.
MCStrayText == { Str("2") }

MCRequest == { Update("h1", Str("b")), Update("h2", Str("")) }

=============================================================================
