---------------------------- MODULE LocBinFormat ----------------------------
(***************************************************************************)
(* The byte format of a .locpackbin file, as LocPackBinFile.cpp reads and  *)
(* rewrites it.  One entry is                                              *)
(*                                                                         *)
(*    hash | val1 | val2 | length (two bytes, little endian) | text        *)
(*                                                                         *)
(* and the file is a run of entries with nothing in between.  There is no  *)
(* index: an entry is found by searching the whole file for its hash.      *)
(*                                                                         *)
(* The sizes are parameters so that TLC can work with short files.  In the *)
(* source Base = 256, HalfLen = 8 and ValLen = 4, hence the offsets 24 and *)
(* 26 that the code spells out.  Positions are 1-based here.               *)
(***************************************************************************)
EXTENDS Integers, Sequences

CONSTANTS
  Base,      \* number of values of a byte
  HalfLen,   \* bytes in one half of a hash
  ValLen     \* bytes in val1 and in val2

\* The sizes the offset arithmetic of the code needs to make sense.
ASSUME FormatAssumption ==
  /\ Base \in Nat \ {0, 1}
  /\ HalfLen \in Nat \ {0}
  /\ ValLen \in Nat \ {0}

Byte == 0 .. Base - 1

HashLen   == 2 * HalfLen
LenOff    == HashLen + 2 * ValLen    \* 24 in the source
HeaderLen == LenOff + 2              \* 26 in the source
LenMod    == Base * Base             \* the length field is a uint16_t

(***************************************************************************)
(* Hashes.  A client names an entry by the hex digits of the .locpack      *)
(* file; a pair of digits is one byte here.  convertHash splits the string *)
(* in the middle and takes HalfLen bytes of each half in reverse order:    *)
(* it throws (substr past the end) when a half is more than one byte       *)
(* short, and a half that is exactly one byte short yields a short result, *)
(* after which the decoding loop reads past the end of the string.  Hashes *)
(* have an even number of bytes, so that both halves have the same length. *)
(***************************************************************************)
HalfOf(hash) == Len(hash) \div 2

Convertible(hash) == HalfOf(hash) >= HalfLen - 1

ReversedHalf(half) ==
  LET n == IF Len(half) < HalfLen THEN Len(half) ELSE HalfLen
  IN  [i \in 1 .. n |-> half[n + 1 - i]]

convertHash(hash) ==
  ReversedHalf(SubSeq(hash, 1, HalfOf(hash)))
    \o ReversedHalf(SubSeq(hash, HalfOf(hash) + 1, Len(hash)))

\* The HashLen bytes the search looks for: what lies behind a short
\* converted string is whatever the memory holds.
HashBytes(hash) ==
  { convertHash(hash) \o garbage :
      garbage \in [1 .. HashLen - Len(convertHash(hash)) -> Byte] }

\* std::ranges::search: the first place where the bytes occur, anywhere in
\* the file, if there is one.
Matches(bytes, hb) ==
  { p \in 1 .. Len(bytes) - Len(hb) + 1 :
      \A i \in 1 .. Len(hb) : bytes[p + i - 1] = hb[i] }

FirstMatch(bytes, hb) ==
  { p \in Matches(bytes, hb) : \A q \in Matches(bytes, hb) : p <= q }

HasLength(bytes, p) == p + LenOff + 1 <= Len(bytes)

StoredLength(bytes, p) == bytes[p + LenOff] + Base * bytes[p + LenOff + 1]

\* Mutants: the two bytes of the length, or the text, are not counted.
SizeWithoutLength(bytes, p) == LenOff + StoredLength(bytes, p)
SizeWithoutText(bytes, p) == HeaderLen

OldTotalSize(bytes, p) == HeaderLen + StoredLength(bytes, p)

\* The sizes updateEntry may compute: a length field behind the end of the
\* vector reads as anything.
OldTotalSizes(bytes, p) ==
  IF HasLength(bytes, p) THEN {OldTotalSize(bytes, p)}
  ELSE HeaderLen .. HeaderLen + LenMod - 1

\* Mutants: the length as one digit of any size, and cut to its low byte.
LengthInOneByte(n) == << n, 0 >>
LengthLowByte(n) == << n % Base, 0 >>

\* newLen is a uint16_t: the length of a text of LenMod bytes or more wraps.
LengthField(n) == << n % Base, (n \div Base) % Base >>

\* The part of a text that its length leaves.
StoredText(text) == SubSeq(text, 1, Len(text) % LenMod)

NewEntry(hb, r) ==
  hb \o r.val1 \o r.val2 \o LengthField(Len(r.text)) \o r.text

\* fileContents.erase and fileContents.insert
Erase(bytes, p, n) ==
  SubSeq(bytes, 1, p - 1) \o SubSeq(bytes, p + n, Len(bytes))

Insert(bytes, p, new) ==
  SubSeq(bytes, 1, p - 1) \o new \o SubSeq(bytes, p, Len(bytes))

\* getTextByHash, for a hash that is already converted: the text it returns,
\* if the hash is found.
getTextByHash(bytes, hb) ==
  { SubSeq(bytes, p + HeaderLen, p + HeaderLen + StoredLength(bytes, p) - 1) :
      p \in FirstMatch(bytes, hb) }

(***************************************************************************)
(* The reading of a file as a table of entries, for the properties: the    *)
(* walk a reader of the format makes from length to length.  A file that   *)
(* does not divide into entries ends in Torn.                              *)
(***************************************************************************)
Torn == [hash |-> << >>, val1 |-> << >>, val2 |-> << >>, text |-> << >>]

EntryAt(bytes, p) ==
  [hash |-> SubSeq(bytes, p, p + HashLen - 1),
   val1 |-> SubSeq(bytes, p + HashLen, p + HashLen + ValLen - 1),
   val2 |-> SubSeq(bytes, p + HashLen + ValLen, p + LenOff - 1),
   text |-> SubSeq(bytes, p + HeaderLen,
                   p + HeaderLen + StoredLength(bytes, p) - 1)]

Decode(bytes) ==
  LET next(p) == p + HeaderLen + StoredLength(bytes, p)
      from[p \in 1 .. Len(bytes) + 1] ==
        IF p = Len(bytes) + 1 THEN << >>
        ELSE IF HasLength(bytes, p) /\ next(p) <= Len(bytes) + 1
             THEN << EntryAt(bytes, p) >> \o from[next(p)]
             ELSE << Torn >>
  IN  from[1]

Encode(table) ==
  LET upTo[n \in 0 .. Len(table)] ==
        IF n = 0 THEN << >>
        ELSE upTo[n - 1] \o NewEntry(table[n].hash, table[n])
  IN  upTo[Len(table)]

=============================================================================
