------------------------- MODULE LocPackBinFileProofs -------------------------
(***************************************************************************)
(* Theorems about LocPackBinFile, for every table, every set of requests   *)
(* and all sizes of the format.  They begin with the format: what the      *)
(* operators of LocBinFormat return, and what erasing an entry and         *)
(* inserting its new form does to a file of any length; the last part is   *)
(* about files that are tables of entries, and LocStore.                   *)
(***************************************************************************)
EXTENDS LocPackBinFile, LoopTheorems, SequenceTheorems, TLAPS

LEMMA Sizes ==
  /\ Base \in Nat /\ Base >= 2
  /\ HashLen \in Nat /\ HashLen >= 2
  /\ LenOff \in Nat /\ LenOff >= HashLen
  /\ HeaderLen = LenOff + 2
  /\ LenOff = HashLen + 2 * ValLen
  /\ LenMod \in Nat
BY FormatAssumption DEF HashLen, LenOff, HeaderLen, LenMod

\* The same without the arithmetic, for the leaves that need no more.
LEMMA HeaderIsNat ==
  HeaderLen \in Nat /\ HashLen \in Nat /\ 1 <= HashLen /\ HashLen <= HeaderLen
BY Sizes

LEMMA LenOffIsNat == LenOff \in Nat /\ HeaderLen = LenOff + 2
BY Sizes

LEMMA ByteIsNat == \A b \in Byte : b \in Nat
BY DEF Byte

LEMMA ProductIsNat ==
  ASSUME NEW m \in Nat, NEW n \in Nat
  PROVE  m * n \in Nat
OBVIOUS

LEMMA DivMod ==
  ASSUME NEW b \in Int, b > 0, NEW n \in Int
  PROVE  n = b * (n \div b) + (n % b)
BY SMTT(30)

LEMMA FunctionIsSeq ==
  ASSUME NEW S, NEW n \in Nat, NEW f \in [1 .. n -> S]
  PROVE  f \in Seq(S) /\ Len(f) = n
<1>1. f \in Seq(S)
  BY SeqDef
<1>2. DOMAIN f = 1 .. n /\ DOMAIN f = 1 .. Len(f) /\ Len(f) \in Nat
  BY <1>1, LenProperties
<1> QED
  BY <1>1, <1>2

\* A part of a string of bytes.
LEMMA Piece ==
  ASSUME NEW s \in Seq(Byte), NEW m \in Int, NEW n \in Int,
         m >= 1, n <= Len(s)
  PROVE  /\ SubSeq(s, m, n) \in Seq(Byte)
         /\ Len(SubSeq(s, m, n)) = IF m <= n THEN n - m + 1 ELSE 0
         /\ \A i \in 1 .. n - m + 1 : SubSeq(s, m, n)[i] = s[m + i - 1]
<1>1. Len(s) \in Nat
  BY LenProperties
<1>2. \A i \in m .. n : s[i] \in Byte
  BY <1>1, ElementOfSeq
<1> QED
  BY <1>2, SubSeqProperties

-----------------------------------------------------------------------------
(* Hashes.                                                                 *)

\* reverseChars and the cut to HalfLen bytes.
LEMMA ReversedHalfType ==
  ASSUME NEW half \in Seq(Byte)
  PROVE  /\ ReversedHalf(half) \in Seq(Byte)
         /\ Len(ReversedHalf(half)) <= HalfLen
<1> DEFINE n == IF Len(half) < HalfLen THEN Len(half) ELSE HalfLen
<1>1. n \in Nat /\ n <= HalfLen /\ n <= Len(half)
  BY LenProperties, FormatAssumption
<1>2. \A i \in 1 .. n : half[n + 1 - i] \in Byte
  BY <1>1, ElementOfSeq
<1>3. [i \in 1 .. n |-> half[n + 1 - i]] \in [1 .. n -> Byte]
  BY <1>2
<1>4. ReversedHalf(half) \in [1 .. n -> Byte]
  BY <1>3 DEF ReversedHalf
<1> QED
  BY <1>1, <1>4, SeqDef, LenProperties

LEMMA ConvertedType ==
  ASSUME NEW hash \in Seq(Byte)
  PROVE  /\ convertHash(hash) \in Seq(Byte)
         /\ Len(convertHash(hash)) \in 0 .. HashLen
<1>1. Len(hash) \in Nat /\ HalfOf(hash) \in Nat /\ HalfOf(hash) <= Len(hash)
  BY LenProperties DEF HalfOf
<1> DEFINE front == SubSeq(hash, 1, HalfOf(hash))
           back  == SubSeq(hash, HalfOf(hash) + 1, Len(hash))
<1>2. front \in Seq(Byte) /\ back \in Seq(Byte)
  BY <1>1, Piece
<1>3. /\ ReversedHalf(front) \in Seq(Byte) /\ Len(ReversedHalf(front)) <= HalfLen
      /\ ReversedHalf(back) \in Seq(Byte) /\ Len(ReversedHalf(back)) <= HalfLen
  BY <1>2, ReversedHalfType
<1> HIDE DEF front, back
<1>4. /\ ReversedHalf(front) \o ReversedHalf(back) \in Seq(Byte)
      /\ Len(ReversedHalf(front) \o ReversedHalf(back)) <= HashLen
      /\ Len(ReversedHalf(front) \o ReversedHalf(back)) \in Nat
  BY <1>3, ConcatProperties, LenProperties, FormatAssumption DEF HashLen
<1> QED
  BY <1>4, Sizes DEF convertHash, front, back

LEMMA HashBytesType ==
  ASSUME NEW hash \in Seq(Byte), NEW hb \in HashBytes(hash)
  PROVE  hb \in Seq(Byte) /\ Len(hb) = HashLen
<1> DEFINE n == HashLen - Len(convertHash(hash))
<1>1. /\ convertHash(hash) \in Seq(Byte)
      /\ n \in Nat /\ Len(convertHash(hash)) + n = HashLen
  BY ConvertedType, Sizes
<1>2. PICK garbage \in [1 .. n -> Byte] : hb = convertHash(hash) \o garbage
  BY DEF HashBytes
<1>3. garbage \in Seq(Byte) /\ Len(garbage) = n
  BY <1>1, <1>2, FunctionIsSeq
<1> QED
  BY <1>1, <1>2, <1>3, ConcatProperties

-----------------------------------------------------------------------------
(* The pieces of an update.                                                *)

LEMMA LengthFieldType ==
  ASSUME NEW n \in Nat
  PROVE  LengthField(n) \in Seq(Byte) /\ Len(LengthField(n)) = 2
<1>1. n % Base \in Byte /\ (n \div Base) % Base \in Byte
  BY Sizes DEF Byte
<1> QED
  BY <1>1 DEF LengthField

LEMMA StoredLengthType ==
  ASSUME NEW bytes \in Seq(Byte), NEW p \in Nat \ {0}, HasLength(bytes, p)
  PROVE  StoredLength(bytes, p) \in Nat
<1>1. p + LenOff \in 1 .. Len(bytes) /\ p + LenOff + 1 \in 1 .. Len(bytes)
  BY Sizes, LenProperties DEF HasLength
<1>2. bytes[p + LenOff] \in Nat /\ bytes[p + LenOff + 1] \in Nat
  BY <1>1, ElementOfSeq, ByteIsNat
<1>3. Base * bytes[p + LenOff + 1] \in Nat
  BY <1>2, Sizes, ProductIsNat
<1> QED
  BY <1>2, <1>3 DEF StoredLength

LEMMA OldTotalSizesType ==
  ASSUME NEW bytes \in Seq(Byte), NEW p \in Nat \ {0},
         NEW size \in OldTotalSizes(bytes, p)
  PROVE  size \in Nat /\ size >= HeaderLen
<1>1. CASE HasLength(bytes, p)
  BY <1>1, StoredLengthType, Sizes DEF OldTotalSizes, OldTotalSize
<1>2. CASE ~ HasLength(bytes, p)
  BY <1>2, Sizes DEF OldTotalSizes
<1> QED
  BY <1>1, <1>2

LEMMA FirstMatchType ==
  ASSUME NEW bytes \in Seq(Byte), NEW hb \in Seq(Byte),
         NEW p \in FirstMatch(bytes, hb)
  PROVE  /\ p \in Nat \ {0} /\ p + Len(hb) - 1 <= Len(bytes)
         /\ \A i \in 1 .. Len(hb) : bytes[p + i - 1] = hb[i]
         /\ \A q \in Matches(bytes, hb) : p <= q
BY LenProperties DEF FirstMatch, Matches

LEMMA DivModRange ==
  ASSUME NEW b \in Nat \ {0}, NEW n \in Nat
  PROVE  /\ n = b * (n \div b) + (n % b)
         /\ n \div b \in Nat /\ n % b \in 0 .. b - 1
BY DivMod, SMTT(30)

\* Two remainders of one number.
LEMMA OneRemainder ==
  ASSUME NEW d \in Nat \ {0}, NEW a \in Nat, NEW b \in Nat,
         NEW x \in Nat, NEW y \in Nat, x < d, y < d, d * a + x = d * b + y
  PROVE  x = y
<1>1. CASE a = b
  BY <1>1
<1>2. ASSUME NEW m \in Nat, NEW n \in Nat, m < n
      PROVE  d * n >= d * m + d
  <2>1. n - m - 1 \in Nat /\ n = m + 1 + (n - m - 1)
    BY <1>2
  <2>2. d * (n - m - 1) \in Nat /\ d * m \in Nat
    BY <2>1, ProductIsNat
  <2>3. d * (m + 1 + (n - m - 1)) = d * m + d + d * (n - m - 1)
    BY <2>1, SMTT(30)
  <2> QED
    BY <2>1, <2>2, <2>3, SMTT(30)
<1>3. d * a \in Nat /\ d * b \in Nat
  BY ProductIsNat
<1>4. CASE a < b
  BY <1>2, <1>3, <1>4
<1>5. CASE b < a
  BY <1>2, <1>3, <1>5
<1> QED
  BY <1>1, <1>4, <1>5

\* The two bytes of the length give it back as far as they can.
LEMMA LengthWraps ==
  ASSUME NEW n \in Nat
  PROVE  /\ (n % Base) + Base * ((n \div Base) % Base) = n % LenMod
         /\ n % LenMod \in Nat /\ n % LenMod < LenMod
         /\ n % LenMod <= n
<1> DEFINE q == n \div Base
           r == n % Base
           k == q \div Base
           s == q % Base
           m == r + Base * s
<1>0. Base \in Nat \ {0} /\ LenMod = Base * Base /\ LenMod \in Nat \ {0}
  <2>1. Base \in Nat /\ Base >= 2
    BY Sizes
  <2> QED
    BY <2>1, SMTT(30) DEF LenMod
<1>1. n = Base * q + r /\ q \in Nat /\ r \in 0 .. Base - 1
  BY <1>0, DivMod
<1>2. q = Base * k + s /\ k \in Nat /\ s \in 0 .. Base - 1
  BY <1>0, <1>1, DivMod
<1> HIDE DEF q, r, k, s
<1>3. n = LenMod * k + m
  BY <1>0, <1>1, <1>2, SMTT(30)
<1>4. m \in Nat /\ m < LenMod
  <2>1. Base * s \in Nat
    BY <1>0, <1>2, ProductIsNat
  <2>2. Base * s <= Base * (Base - 1)
    BY <1>0, <1>2, SMTT(30)
  <2>3. Base * (Base - 1) = LenMod - Base
    BY <1>0, SMTT(30)
  <2> QED
    BY <1>0, <1>1, <2>1, <2>2, <2>3
<1>5. /\ n = LenMod * (n \div LenMod) + (n % LenMod)
      /\ n \div LenMod \in Nat /\ n % LenMod \in 0 .. LenMod - 1
  BY <1>0, DivModRange, Zenon
<1>6. n % LenMod = m
  <2> DEFINE a == n \div LenMod
             x == n % LenMod
  <2>1. /\ a \in Nat /\ x \in Nat /\ x < LenMod
        /\ LenMod * a + x = LenMod * k + m
    BY <1>0, <1>3, <1>5
  <2> HIDE DEF a, x, m
  <2>2. x = m
    BY <1>0, <1>2, <1>4, <2>1, OneRemainder
  <2> QED
    BY <2>2 DEF x
<1>7. n % LenMod <= n
  <2> DEFINE a == n \div LenMod
             x == n % LenMod
  <2>1. LenMod * a \in Nat /\ n = LenMod * a + x /\ x \in Int
    BY <1>0, <1>5, ProductIsNat
  <2> HIDE DEF a, x
  <2>2. x <= n
    BY <2>1
  <2> QED
    BY <2>2 DEF x
<1>8. (n % Base) + Base * ((n \div Base) % Base) = m
  BY DEF q, r, s
<1> QED
  BY <1>0, <1>4, <1>6, <1>7, <1>8

LEMMA EraseProperties ==
  ASSUME NEW bytes \in Seq(Byte), NEW p \in Nat \ {0}, NEW n \in Nat,
         p + n - 1 <= Len(bytes)
  PROVE  /\ Erase(bytes, p, n) \in Seq(Byte)
         /\ Len(Erase(bytes, p, n)) = Len(bytes) - n
         /\ \A i \in 1 .. p - 1 : Erase(bytes, p, n)[i] = bytes[i]
         /\ \A i \in p .. Len(bytes) - n : Erase(bytes, p, n)[i] = bytes[i + n]
<1> DEFINE front == SubSeq(bytes, 1, p - 1)
           back  == SubSeq(bytes, p + n, Len(bytes))
<1>0. Len(bytes) \in Nat
  BY LenProperties
<1>1. /\ front \in Seq(Byte) /\ Len(front) = p - 1
      /\ \A i \in 1 .. p - 1 : front[i] = bytes[i]
  BY <1>0, Piece
<1>2. /\ back \in Seq(Byte) /\ Len(back) = Len(bytes) - n - (p - 1)
      /\ \A i \in 1 .. Len(bytes) - (p + n) + 1 : back[i] = bytes[p + n + i - 1]
  BY <1>0, Piece
<1> HIDE DEF front, back
<1>3. /\ front \o back \in Seq(Byte)
      /\ Len(front \o back) = Len(bytes) - n
      /\ \A i \in 1 .. Len(bytes) - n :
           (front \o back)[i] = IF i <= p - 1 THEN front[i] ELSE back[i - (p - 1)]
  <2>1. Len(front) + Len(back) = Len(bytes) - n
    BY <1>0, <1>1, <1>2
  <2>2. /\ front \o back \in Seq(Byte)
        /\ Len(front \o back) = Len(front) + Len(back)
        /\ \A i \in 1 .. Len(front) + Len(back) :
             (front \o back)[i] = IF i <= Len(front) THEN front[i]
                                  ELSE back[i - Len(front)]
    BY <1>1, <1>2, ConcatProperties
  <2> QED
    BY <1>1, <2>1, <2>2, Zenon
<1>4. Erase(bytes, p, n) = front \o back
  BY DEF Erase, front, back
<1>5. ASSUME NEW i \in p .. Len(bytes) - n
      PROVE  (front \o back)[i] = bytes[i + n]
  <2>1. (front \o back)[i] = back[i - p + 1]
    BY <1>0, <1>3
  <2>2. i - p + 1 \in 1 .. Len(bytes) - (p + n) + 1
    BY <1>0
  <2>3. back[i - p + 1] = bytes[p + n + (i - p + 1) - 1]
    BY <1>2, <2>2
  <2>4. p + n + (i - p + 1) - 1 = i + n
    BY <1>0
  <2> QED
    BY <2>1, <2>3, <2>4
<1>6. \A i \in 1 .. p - 1 : (front \o back)[i] = bytes[i]
  BY <1>0, <1>1, <1>3
<1> QED
  BY <1>3, <1>4, <1>5, <1>6

LEMMA InsertProperties ==
  ASSUME NEW bytes \in Seq(Byte), NEW new \in Seq(Byte),
         NEW p \in Nat \ {0}, p <= Len(bytes) + 1
  PROVE  /\ Insert(bytes, p, new) \in Seq(Byte)
         /\ Len(Insert(bytes, p, new)) = Len(bytes) + Len(new)
         /\ \A i \in 1 .. p - 1 : Insert(bytes, p, new)[i] = bytes[i]
         /\ \A i \in 1 .. Len(new) : Insert(bytes, p, new)[p + i - 1] = new[i]
         /\ \A i \in p .. Len(bytes) :
              Insert(bytes, p, new)[i + Len(new)] = bytes[i]
<1> DEFINE front == SubSeq(bytes, 1, p - 1)
           back  == SubSeq(bytes, p, Len(bytes))
<1>0. Len(bytes) \in Nat /\ Len(new) \in Nat
  BY LenProperties
<1>1. /\ front \in Seq(Byte) /\ Len(front) = p - 1
      /\ \A i \in 1 .. p - 1 : front[i] = bytes[i]
  BY <1>0, Piece
<1>2. /\ back \in Seq(Byte) /\ Len(back) = Len(bytes) - (p - 1)
      /\ \A i \in 1 .. Len(bytes) - p + 1 : back[i] = bytes[p + i - 1]
  BY <1>0, Piece
<1> HIDE DEF front, back
<1>3. /\ front \o new \in Seq(Byte)
      /\ Len(front \o new) = p - 1 + Len(new)
      /\ \A i \in 1 .. p - 1 + Len(new) :
           (front \o new)[i] = IF i <= p - 1 THEN front[i] ELSE new[i - (p - 1)]
  <2>1. /\ front \o new \in Seq(Byte)
        /\ Len(front \o new) = Len(front) + Len(new)
        /\ \A i \in 1 .. Len(front) + Len(new) :
             (front \o new)[i] = IF i <= Len(front) THEN front[i]
                                 ELSE new[i - Len(front)]
    BY <1>1, ConcatProperties
  <2> QED
    BY <1>1, <2>1, Zenon
<1> DEFINE whole == (front \o new) \o back
<1>4. /\ whole \in Seq(Byte)
      /\ Len(whole) = Len(bytes) + Len(new)
      /\ \A i \in 1 .. Len(bytes) + Len(new) :
           whole[i] = IF i <= p - 1 + Len(new) THEN (front \o new)[i]
                      ELSE back[i - (p - 1 + Len(new))]
  <2>1. Len(front \o new) + Len(back) = Len(bytes) + Len(new)
    BY <1>0, <1>2, <1>3
  <2> HIDE DEF whole
  <2>2. /\ whole \in Seq(Byte)
        /\ Len(whole) = Len(front \o new) + Len(back)
        /\ \A i \in 1 .. Len(front \o new) + Len(back) :
             whole[i] = IF i <= Len(front \o new) THEN (front \o new)[i]
                        ELSE back[i - Len(front \o new)]
    BY <1>2, <1>3, ConcatProperties, ZenonT(40) DEF whole
  <2> QED
    BY <1>3, <2>1, <2>2
<1>5. Insert(bytes, p, new) = whole
  BY DEF Insert, front, back
<1> HIDE DEF whole
<1>6. \A i \in 1 .. p - 1 : whole[i] = bytes[i]
  BY <1>0, <1>1, <1>3, <1>4
<1>7. \A i \in 1 .. Len(new) : whole[p + i - 1] = new[i]
  <2> SUFFICES ASSUME NEW i \in 1 .. Len(new)
               PROVE  whole[p + i - 1] = new[i]
    OBVIOUS
  <2>1. PICK k \in Nat : k = p + i - 1
    BY <1>0
  <2>2. /\ k \in 1 .. p - 1 + Len(new) /\ k \in 1 .. Len(bytes) + Len(new)
        /\ k <= p - 1 + Len(new)
        /\ ~ (k <= p - 1) /\ k - (p - 1) = i
    BY <1>0, <2>1
  <2>3. whole[k] = (front \o new)[k]
    BY <1>4, <2>2
  <2>4. (front \o new)[k] = new[k - (p - 1)]
    BY <1>3, <2>2
  <2> QED
    BY <2>1, <2>2, <2>3, <2>4
<1>8. \A i \in p .. Len(bytes) : whole[i + Len(new)] = bytes[i]
  <2> SUFFICES ASSUME NEW i \in p .. Len(bytes)
               PROVE  whole[i + Len(new)] = bytes[i]
    OBVIOUS
  <2>1. /\ i + Len(new) \in 1 .. Len(bytes) + Len(new)
        /\ i + Len(new) > p - 1 + Len(new)
        /\ i + Len(new) - (p - 1 + Len(new)) = i - p + 1
        /\ i - p + 1 \in 1 .. Len(bytes) - p + 1 /\ p + (i - p + 1) - 1 = i
    BY <1>0
  <2>2. whole[i + Len(new)] = back[i + Len(new) - (p - 1 + Len(new))]
    BY <1>0, <1>4, <2>1, SMTT(30)
  <2>3. back[i - p + 1] = bytes[p + (i - p + 1) - 1]
    BY <1>2, <2>1
  <2> QED
    BY <2>1, <2>2, <2>3
<1> QED
  BY <1>4, <1>5, <1>6, <1>7, <1>8

LEMMA Joined ==
  ASSUME NEW s \in Seq(Byte), NEW u \in Seq(Byte)
  PROVE  /\ s \o u \in Seq(Byte)
         /\ Len(s \o u) = Len(s) + Len(u)
         /\ \A i \in 1 .. Len(s) : (s \o u)[i] = s[i]
         /\ \A i \in 1 .. Len(u) : (s \o u)[Len(s) + i] = u[i]
<1>1. Len(s) \in Nat /\ Len(u) \in Nat
  BY LenProperties
<1>2. /\ s \o u \in Seq(Byte)
      /\ Len(s \o u) = Len(s) + Len(u)
      /\ \A k \in 1 .. Len(s) + Len(u) :
           (s \o u)[k] = IF k <= Len(s) THEN s[k] ELSE u[k - Len(s)]
  BY ConcatProperties
<1>3. ASSUME NEW i \in 1 .. Len(u)
      PROVE  (s \o u)[Len(s) + i] = u[i]
  <2>1. PICK k \in Nat : k = Len(s) + i
    BY <1>1
  <2>2. k \in 1 .. Len(s) + Len(u) /\ ~ (k <= Len(s)) /\ k - Len(s) = i
    BY <1>1, <2>1
  <2> QED
    BY <1>2, <2>1, <2>2
<1> QED
  BY <1>1, <1>2, <1>3

\* What a request has to look like; hb are the bytes found in the file.
EntryBytes(hb, r) ==
  /\ hb \in Seq(Byte) /\ Len(hb) = HashLen
  /\ r.val1 \in [1 .. ValLen -> Byte] /\ r.val2 \in [1 .. ValLen -> Byte]
  /\ r.text \in Seq(Byte)

\* The fields and the text are where the offsets of the code look for them.
LEMMA NewEntryProperties ==
  ASSUME NEW hb, NEW r, EntryBytes(hb, r)
  PROVE  /\ NewEntry(hb, r) \in Seq(Byte)
         /\ Len(NewEntry(hb, r)) = HeaderLen + Len(r.text)
         /\ \A i \in 1 .. HashLen : NewEntry(hb, r)[i] = hb[i]
         /\ \A i \in 1 .. ValLen : NewEntry(hb, r)[HashLen + i] = r.val1[i]
         /\ \A i \in 1 .. ValLen :
              NewEntry(hb, r)[HashLen + ValLen + i] = r.val2[i]
         /\ NewEntry(hb, r)[LenOff + 1] = Len(r.text) % Base
         /\ NewEntry(hb, r)[LenOff + 2] = (Len(r.text) \div Base) % Base
         /\ \A i \in 1 .. Len(r.text) : NewEntry(hb, r)[HeaderLen + i] = r.text[i]
<1> DEFINE field == LengthField(Len(r.text))
           a == hb \o r.val1
           b == a \o r.val2
           c == b \o field
<1>1. /\ r.val1 \in Seq(Byte) /\ Len(r.val1) = ValLen
      /\ r.val2 \in Seq(Byte) /\ Len(r.val2) = ValLen
  BY FunctionIsSeq, FormatAssumption DEF EntryBytes
<1>2. Len(r.text) \in Nat /\ r.text \in Seq(Byte)
  BY LenProperties DEF EntryBytes
<1>3. field \in Seq(Byte) /\ Len(field) = 2
  BY <1>2, LengthFieldType
<1>4. field[1] = Len(r.text) % Base /\ field[2] = (Len(r.text) \div Base) % Base
  BY DEF LengthField
<1> HIDE DEF field
<1>5. /\ a \in Seq(Byte) /\ Len(a) = HashLen + ValLen
      /\ \A i \in 1 .. HashLen : a[i] = hb[i]
      /\ \A i \in 1 .. ValLen : a[HashLen + i] = r.val1[i]
  <2>1. hb \in Seq(Byte) /\ Len(hb) = HashLen
    BY DEF EntryBytes
  <2>2. /\ a \in Seq(Byte) /\ Len(a) = Len(hb) + Len(r.val1)
        /\ \A i \in 1 .. Len(hb) : a[i] = hb[i]
        /\ \A i \in 1 .. Len(r.val1) : a[Len(hb) + i] = r.val1[i]
    BY <1>1, <2>1, Joined, Zenon
  <2> QED
    BY <1>1, <2>1, <2>2, Zenon
<1> HIDE DEF a
<1>6. /\ b \in Seq(Byte) /\ Len(b) = LenOff
      /\ \A i \in 1 .. HashLen + ValLen : b[i] = a[i]
      /\ \A i \in 1 .. ValLen : b[HashLen + ValLen + i] = r.val2[i]
  <2>1. /\ b \in Seq(Byte) /\ Len(b) = Len(a) + Len(r.val2)
        /\ \A i \in 1 .. Len(a) : b[i] = a[i]
        /\ \A i \in 1 .. Len(r.val2) : b[Len(a) + i] = r.val2[i]
    BY <1>1, <1>5, Joined, Zenon
  <2>2. HashLen + ValLen + ValLen = LenOff
    BY Sizes, FormatAssumption
  <2> HIDE DEF b
  <2> QED
    BY <1>1, <1>5, <2>1, <2>2
<1> HIDE DEF b
<1>7. /\ c \in Seq(Byte) /\ Len(c) = HeaderLen
      /\ \A i \in 1 .. LenOff : c[i] = b[i]
      /\ \A i \in 1 .. 2 : c[LenOff + i] = field[i]
  <2>1. Len(b) + Len(field) = HeaderLen
    BY <1>3, <1>6, Sizes
  <2>2. /\ c \in Seq(Byte) /\ Len(c) = Len(b) + Len(field)
        /\ \A i \in 1 .. Len(b) : c[i] = b[i]
        /\ \A i \in 1 .. Len(field) : c[Len(b) + i] = field[i]
    BY <1>3, <1>6, Joined, Zenon
  <2> HIDE DEF c
  <2> QED
    BY <1>3, <1>6, <2>1, <2>2
<1> HIDE DEF c
<1>8. /\ c \o r.text \in Seq(Byte) /\ Len(c \o r.text) = HeaderLen + Len(r.text)
      /\ \A i \in 1 .. HeaderLen : (c \o r.text)[i] = c[i]
      /\ \A i \in 1 .. Len(r.text) : (c \o r.text)[HeaderLen + i] = r.text[i]
  BY <1>2, <1>7, Joined
<1>9. NewEntry(hb, r) = c \o r.text
  BY DEF NewEntry, a, b, c, field
<1>10. \A i \in 1 .. HashLen : (c \o r.text)[i] = hb[i]
  <2> SUFFICES ASSUME NEW i \in 1 .. HashLen
               PROVE  (c \o r.text)[i] = hb[i]
    OBVIOUS
  <2>1. /\ i \in 1 .. HeaderLen /\ i \in 1 .. LenOff
        /\ i \in 1 .. HashLen + ValLen
    BY Sizes, FormatAssumption
  <2> QED
    BY <1>5, <1>6, <1>7, <1>8, <2>1
<1>12. \A i \in 1 .. ValLen : (c \o r.text)[HashLen + i] = r.val1[i]
  <2> SUFFICES ASSUME NEW i \in 1 .. ValLen
               PROVE  (c \o r.text)[HashLen + i] = r.val1[i]
    OBVIOUS
  <2>1. PICK k \in Nat : k = HashLen + i
    BY HeaderIsNat
  <2>2. k \in 1 .. HeaderLen /\ k \in 1 .. LenOff /\ k \in 1 .. HashLen + ValLen
    BY <2>1, Sizes, FormatAssumption
  <2> QED
    BY <1>5, <1>6, <1>7, <1>8, <2>1, <2>2
<1>13. \A i \in 1 .. ValLen : (c \o r.text)[HashLen + ValLen + i] = r.val2[i]
  <2> SUFFICES ASSUME NEW i \in 1 .. ValLen
               PROVE  (c \o r.text)[HashLen + ValLen + i] = r.val2[i]
    OBVIOUS
  <2>1. PICK k \in Nat : k = HashLen + ValLen + i
    BY HeaderIsNat, FormatAssumption
  <2>2. k \in 1 .. HeaderLen /\ k \in 1 .. LenOff
    BY <2>1, Sizes, FormatAssumption
  <2> QED
    BY <1>6, <1>7, <1>8, <2>1, <2>2
<1>11. /\ (c \o r.text)[LenOff + 1] = field[1]
       /\ (c \o r.text)[LenOff + 2] = field[2]
  <2>1. LenOff + 1 \in 1 .. HeaderLen /\ LenOff + 2 \in 1 .. HeaderLen
    BY Sizes
  <2>2. c[LenOff + 1] = field[1] /\ c[LenOff + 2] = field[2]
    BY <1>7
  <2> QED
    BY <1>8, <2>1, <2>2
<1> QED
  BY <1>4, <1>8, <1>9, <1>10, <1>11, <1>12, <1>13

-----------------------------------------------------------------------------
(* An entry is replaced.                                                   *)

Replaced(bytes, p, n, new) == Insert(Erase(bytes, p, n), p, new)

\* The file after has new where bytes has n bytes from p on, and is otherwise
\* the same: bytes in front stay in place, bytes behind move together.
OnlyReplaced(bytes, p, n, new, after) ==
  /\ after \in Seq(Byte)
  /\ Len(after) = Len(bytes) - n + Len(new)
  /\ \A i \in 1 .. p - 1 : after[i] = bytes[i]
  /\ \A i \in 1 .. Len(new) : after[p + i - 1] = new[i]
  /\ \A i \in p + n .. Len(bytes) : after[i - n + Len(new)] = bytes[i]

\* The erase and the insertion of updateEntry touch nothing but the n bytes at
\* p: every byte in front stays where it is, and every byte behind moves by
\* the difference of the lengths and keeps its value.
THEOREM RestUntouched ==
  ASSUME NEW bytes \in Seq(Byte), NEW p \in Nat \ {0}, NEW n \in Nat,
         NEW new \in Seq(Byte), p + n - 1 <= Len(bytes)
  PROVE  OnlyReplaced(bytes, p, n, new, Replaced(bytes, p, n, new))
<1> DEFINE cut == Erase(bytes, p, n)
<1>0. Len(bytes) \in Nat /\ Len(new) \in Nat
  BY LenProperties
<1>1. /\ cut \in Seq(Byte) /\ Len(cut) = Len(bytes) - n
      /\ \A i \in 1 .. p - 1 : cut[i] = bytes[i]
      /\ \A i \in p .. Len(bytes) - n : cut[i] = bytes[i + n]
  BY EraseProperties
<1> HIDE DEF cut
<1>2. /\ Insert(cut, p, new) \in Seq(Byte)
      /\ Len(Insert(cut, p, new)) = Len(cut) + Len(new)
      /\ \A i \in 1 .. p - 1 : Insert(cut, p, new)[i] = cut[i]
      /\ \A i \in 1 .. Len(new) : Insert(cut, p, new)[p + i - 1] = new[i]
      /\ \A i \in p .. Len(cut) : Insert(cut, p, new)[i + Len(new)] = cut[i]
  <2>1. p <= Len(cut) + 1
    BY <1>0, <1>1
  <2> QED
    BY <1>1, <2>1, InsertProperties, Zenon
<1>3. Replaced(bytes, p, n, new) = Insert(cut, p, new)
  BY DEF Replaced, cut
<1>4. ASSUME NEW i \in p + n .. Len(bytes)
      PROVE  Insert(cut, p, new)[i - n + Len(new)] = bytes[i]
  <2>1. i - n \in p .. Len(cut) /\ i - n \in p .. Len(bytes) - n /\ i - n + n = i
    BY <1>0, <1>1
  <2> QED
    BY <1>1, <1>2, <2>1
<1>5. \A i \in 1 .. p - 1 : Insert(cut, p, new)[i] = bytes[i]
  BY <1>1, <1>2
<1> QED
  BY <1>0, <1>1, <1>2, <1>3, <1>4, <1>5 DEF OnlyReplaced

StartsWith(new, hb) == \A i \in 1 .. HashLen : new[i] = hb[i]

\* A place counted from q is one counted from p.
LEMMA Offset ==
  ASSUME NEW len \in Nat, NEW p \in Nat, NEW q \in Nat, NEW i \in 1 .. len,
         q < p, q + i - 1 >= p
  PROVE  q + i - p \in 1 .. len /\ q + i - 1 = p + (q + i - p) - 1
OBVIOUS

\* The entry stays the first with its hash: no earlier place of the file can
\* begin to match, since a match there would lie in bytes that did not change.
LEMMA FirstMatchStays ==
  ASSUME NEW bytes \in Seq(Byte), NEW new \in Seq(Byte),
         NEW hb \in Seq(Byte), Len(hb) = HashLen,
         NEW p \in FirstMatch(bytes, hb), NEW n \in Nat,
         p + n - 1 <= Len(bytes), Len(new) >= HashLen,
         StartsWith(new, hb)
  PROVE  FirstMatch(Replaced(bytes, p, n, new), hb) = {p}
<1> DEFINE after == Replaced(bytes, p, n, new)
<1>0. Len(bytes) \in Nat /\ Len(new) \in Nat
  BY LenProperties
<1>1. /\ p \in Nat \ {0} /\ p + Len(hb) - 1 <= Len(bytes)
      /\ \A i \in 1 .. Len(hb) : bytes[p + i - 1] = hb[i]
      /\ \A q \in Matches(bytes, hb) : p <= q
  BY FirstMatchType, Zenon
<1>2. /\ after \in Seq(Byte) /\ Len(after) = Len(bytes) - n + Len(new)
      /\ \A i \in 1 .. p - 1 : after[i] = bytes[i]
      /\ \A i \in 1 .. Len(new) : after[p + i - 1] = new[i]
  <2>1. p \in Nat \ {0}
    BY <1>1
  <2>2. OnlyReplaced(bytes, p, n, new, after)
    BY <2>1, RestUntouched, Zenon
  <2> QED
    BY <2>2, Zenon DEF OnlyReplaced
<1> HIDE DEF after
<1>3. ASSUME NEW i \in 1 .. HashLen
      PROVE  after[p + i - 1] = hb[i]
  <2>1. i \in 1 .. Len(new)
    BY <1>0, HeaderIsNat
  <2> QED
    BY <1>2, <2>1, Zenon DEF StartsWith
<1>4. p \in Matches(after, hb)
  <2>1. p <= Len(after) - Len(hb) + 1
    BY <1>0, <1>1, <1>2, HeaderIsNat
  <2>2. Len(after) - Len(hb) + 1 \in Int
    BY <1>0, <1>2, HeaderIsNat
  <2> QED
    BY <1>1, <1>3, <2>1, <2>2, SMTT(30) DEF Matches
<1>5. ASSUME NEW q \in Matches(after, hb), q < p
      PROVE  FALSE
  <2>1. /\ q \in Nat \ {0} /\ \A i \in 1 .. HashLen : after[q + i - 1] = hb[i]
    BY <1>0, <1>2, HeaderIsNat DEF Matches
  <2>2. ASSUME NEW i \in 1 .. HashLen
        PROVE  bytes[q + i - 1] = hb[i]
    <3>1. CASE q + i - 1 < p
      <4>1. q + i - 1 \in 1 .. p - 1
        BY <1>1, <2>1, <3>1, HeaderIsNat
      <4> QED
        BY <1>2, <2>1, <4>1
    <3>2. CASE q + i - 1 >= p
      <4>1. PICK k \in 1 .. HashLen : q + i - 1 = p + k - 1
        <5>1. p \in Nat /\ q \in Nat /\ HashLen \in Nat
          BY <1>1, <2>1, HeaderIsNat
        <5>2. q + i - p \in 1 .. HashLen /\ q + i - 1 = p + (q + i - p) - 1
          BY <1>5, <3>2, <5>1, Offset
        <5> QED
          BY <5>2, Zenon
      <4>2. after[p + k - 1] = hb[k]
        BY <1>3
      <4>3. bytes[p + k - 1] = hb[k]
        BY <1>1
      <4> QED
        BY <2>1, <4>1, <4>2, <4>3
    <3> QED
      BY <1>1, <2>1, <3>1, <3>2, HeaderIsNat
  <2>3. q <= Len(bytes) - Len(hb) + 1
    BY <1>0, <1>1, <1>5, <2>1, HeaderIsNat
  <2>4. q \in Matches(bytes, hb)
    BY <1>0, <2>1, <2>2, <2>3, HeaderIsNat DEF Matches
  <2> QED
    BY <1>1, <1>5, <2>1, <2>4
<1>6. \A q \in Matches(after, hb) : q \in Int
  BY <1>0, <1>2, HeaderIsNat DEF Matches
<1>7. \A q \in Matches(after, hb) : p <= q
  BY <1>1, <1>5, <1>6
<1>8. \A q \in FirstMatch(after, hb) : q = p
  BY <1>1, <1>4, <1>6, <1>7 DEF FirstMatch
<1>9. p \in FirstMatch(after, hb)
  BY <1>4, <1>7 DEF FirstMatch
<1> QED
  BY <1>8, <1>9 DEF after

LEMMA NewEntryLength ==
  ASSUME NEW hb, NEW r, EntryBytes(hb, r)
  PROVE  StoredLength(NewEntry(hb, r), 1) = Len(r.text) % LenMod
<1>1. Len(r.text) \in Nat
  BY LenProperties, Zenon DEF EntryBytes
<1>2. (Len(r.text) % Base) + Base * ((Len(r.text) \div Base) % Base)
        = Len(r.text) % LenMod
  BY <1>1, LengthWraps, Zenon
<1>3. 1 + LenOff = LenOff + 1 /\ 1 + LenOff + 1 = LenOff + 2
  BY Sizes
<1>4. /\ NewEntry(hb, r)[LenOff + 1] = Len(r.text) % Base
      /\ NewEntry(hb, r)[LenOff + 2] = (Len(r.text) \div Base) % Base
  BY NewEntryProperties
<1>5. StoredLength(NewEntry(hb, r), 1)
        = NewEntry(hb, r)[1 + LenOff] + Base * NewEntry(hb, r)[1 + LenOff + 1]
  BY Zenon DEF StoredLength
<1> QED
  BY <1>2, <1>3, <1>4, <1>5, Zenon

\* The part of a text that is read back.
LEMMA StoredTextProperties ==
  ASSUME NEW text \in Seq(Byte)
  PROVE  /\ StoredText(text) \in Seq(Byte)
         /\ Len(StoredText(text)) = Len(text) % LenMod
         /\ Len(StoredText(text)) <= Len(text)
         /\ \A i \in 1 .. Len(StoredText(text)) :
              i \in 1 .. Len(text) /\ StoredText(text)[i] = text[i]
         /\ Len(text) < LenMod => StoredText(text) = text
<1> DEFINE m == Len(text) % LenMod
<1>1. Len(text) \in Nat
  BY LenProperties
<1>2. m \in Nat /\ m <= Len(text)
  BY <1>1, LengthWraps
<1>6. Len(text) < LenMod => m = Len(text)
  BY <1>1, Sizes
<1> HIDE DEF m
<1>3. StoredText(text) = SubSeq(text, 1, m)
  BY DEF StoredText, m
<1>4. /\ SubSeq(text, 1, m) \in Seq(Byte) /\ Len(SubSeq(text, 1, m)) = m
      /\ \A i \in 1 .. m : SubSeq(text, 1, m)[i] = text[i]
  <2>1. /\ SubSeq(text, 1, m) \in Seq(Byte)
        /\ Len(SubSeq(text, 1, m)) = IF 1 <= m THEN m - 1 + 1 ELSE 0
        /\ \A i \in 1 .. m - 1 + 1 : SubSeq(text, 1, m)[i] = text[1 + i - 1]
    BY <1>2, Piece
  <2> QED
    BY <1>2, <2>1
<1>5. ASSUME Len(text) < LenMod
      PROVE  SubSeq(text, 1, m) = text
  BY <1>4, <1>5, <1>6, SeqEqual
<1>7. \A i \in 1 .. m : i \in 1 .. Len(text)
  BY <1>1, <1>2
<1> QED
  BY <1>2, <1>3, <1>4, <1>5, <1>7 DEF m

\* new lies at p in a file, and s behind the first a bytes of new.
Lies(bytes, p, new) ==
  /\ bytes \in Seq(Byte) /\ new \in Seq(Byte) /\ p \in Nat \ {0}
  /\ p + Len(new) - 1 <= Len(bytes)
  /\ \A k \in 1 .. Len(new) : bytes[p + k - 1] = new[k]

PartOf(new, a, s) ==
  /\ a \in Nat /\ s \in Seq(Byte) /\ a + Len(s) <= Len(new)
  /\ \A i \in 1 .. Len(s) : new[a + i] = s[i]

\* A piece of an entry, found in a file.
LEMMA PieceOfEntry ==
  ASSUME NEW bytes, NEW new, NEW p, NEW a, NEW s,
         Lies(bytes, p, new), PartOf(new, a, s)
  PROVE  SubSeq(bytes, p + a, p + a + Len(s) - 1) = s
<1>0. /\ bytes \in Seq(Byte) /\ new \in Seq(Byte) /\ p \in Nat \ {0}
      /\ p + Len(new) - 1 <= Len(bytes)
      /\ \A k \in 1 .. Len(new) : bytes[p + k - 1] = new[k]
      /\ a \in Nat /\ s \in Seq(Byte) /\ a + Len(s) <= Len(new)
      /\ \A i \in 1 .. Len(s) : new[a + i] = s[i]
  BY Zenon DEF Lies, PartOf
<1> DEFINE m == p + a
           l == p + a + Len(s) - 1
           read == SubSeq(bytes, m, l)
<1>1. Len(s) \in Nat /\ Len(new) \in Nat /\ Len(bytes) \in Nat
  BY <1>0, LenProperties
<1>2. /\ m \in Int /\ l \in Int /\ m >= 1 /\ l <= Len(bytes)
      /\ l - m + 1 = Len(s) /\ (m <= l <=> Len(s) >= 1)
  BY <1>0, <1>1
<1> HIDE DEF l
<1>3. /\ read \in Seq(Byte)
      /\ Len(read) = IF m <= l THEN l - m + 1 ELSE 0
      /\ \A i \in 1 .. l - m + 1 : read[i] = bytes[m + i - 1]
  <2> HIDE DEF m
  <2>1. /\ SubSeq(bytes, m, l) \in Seq(Byte)
        /\ Len(SubSeq(bytes, m, l)) = IF m <= l THEN l - m + 1 ELSE 0
    BY <1>0, <1>2, Piece, Zenon
  <2>2. \A i \in 1 .. l - m + 1 : SubSeq(bytes, m, l)[i] = bytes[m + i - 1]
    BY <1>0, <1>2, Piece, SMTT(30)
  <2> QED
    BY <2>1, <2>2, Zenon
<1> HIDE DEF read
<1>4. Len(read) = Len(s)
  BY <1>1, <1>2, <1>3
<1>5. ASSUME NEW i \in 1 .. Len(s)
      PROVE  read[i] = s[i]
  <2>1. read[i] = bytes[m + i - 1]
    BY <1>2, <1>3, Zenon
  <2>2. /\ a + i \in 1 .. Len(new)
        /\ p + (a + i) - 1 = m + i - 1
    BY <1>0, <1>1
  <2>3. bytes[p + (a + i) - 1] = new[a + i]
    BY <1>0, <2>2, Zenon
  <2> QED
    BY <1>0, <2>1, <2>2, <2>3
<1> QED
  <2>1. read = s
    BY <1>0, <1>3, <1>4, <1>5, SeqEqual
  <2> QED
    BY <2>1 DEF read, m, l

\* An entry that lies in a file, at whatever place, is read back from there.
StoredEntry(hb, r) ==
  [hash |-> hb, val1 |-> r.val1, val2 |-> r.val2, text |-> StoredText(r.text)]

LEMMA StoredRead ==
  ASSUME NEW after, NEW hb, NEW r, EntryBytes(hb, r),
         NEW p, Lies(after, p, NewEntry(hb, r))
  PROVE  /\ HasLength(after, p)
         /\ StoredLength(after, p) = Len(StoredText(r.text))
         /\ EntryAt(after, p) = StoredEntry(hb, r)
<1> DEFINE new == NewEntry(hb, r)
<1>1. /\ hb \in Seq(Byte) /\ Len(hb) = HashLen
      /\ r.val1 \in Seq(Byte) /\ Len(r.val1) = ValLen
      /\ r.val2 \in Seq(Byte) /\ Len(r.val2) = ValLen
      /\ r.text \in Seq(Byte) /\ Len(r.text) \in Nat
      /\ ValLen \in Nat
  BY FunctionIsSeq, LenProperties, FormatAssumption DEF EntryBytes
<1>2. /\ new \in Seq(Byte) /\ Len(new) = HeaderLen + Len(r.text)
      /\ \A i \in 1 .. HashLen : new[i] = hb[i]
      /\ \A i \in 1 .. ValLen : new[HashLen + i] = r.val1[i]
      /\ \A i \in 1 .. ValLen : new[HashLen + ValLen + i] = r.val2[i]
      /\ \A i \in 1 .. Len(r.text) : new[HeaderLen + i] = r.text[i]
  <2>1. /\ NewEntry(hb, r) \in Seq(Byte)
        /\ Len(NewEntry(hb, r)) = HeaderLen + Len(r.text)
    BY NewEntryProperties, Zenon
  <2>2. \A i \in 1 .. HashLen : NewEntry(hb, r)[i] = hb[i]
    BY NewEntryProperties, ZenonT(40)
  <2>3. \A i \in 1 .. ValLen : NewEntry(hb, r)[HashLen + i] = r.val1[i]
    BY NewEntryProperties
  <2>4. \A i \in 1 .. ValLen : NewEntry(hb, r)[HashLen + ValLen + i] = r.val2[i]
    BY NewEntryProperties
  <2>5. \A i \in 1 .. Len(r.text) : NewEntry(hb, r)[HeaderLen + i] = r.text[i]
    BY NewEntryProperties
  <2> QED
    BY <2>1, <2>2, <2>3, <2>4, <2>5, Zenon DEF new
<1>17. /\ StoredText(r.text) \in Seq(Byte)
       /\ Len(StoredText(r.text)) <= Len(r.text)
       /\ \A i \in 1 .. Len(StoredText(r.text)) :
            i \in 1 .. Len(r.text) /\ StoredText(r.text)[i] = r.text[i]
  BY <1>1, StoredTextProperties, Zenon
<1>18. Len(StoredText(r.text)) \in Nat
  BY <1>17, LenProperties
<1>3. StoredLength(new, 1) = Len(StoredText(r.text))
  BY <1>1, NewEntryLength, StoredTextProperties, Zenon
<1>5. /\ after \in Seq(Byte) /\ new \in Seq(Byte) /\ p \in Nat \ {0}
      /\ p + Len(new) - 1 <= Len(after)
      /\ \A k \in 1 .. Len(new) : after[p + k - 1] = new[k]
  BY Zenon DEF Lies, new
<1> HIDE DEF new
<1>4. p \in Nat \ {0} /\ Len(new) \in Nat /\ Len(after) \in Nat
  BY <1>1, <1>2, <1>5, LenProperties, Zenon
<1>9. Lies(after, p, new)
  BY DEF new
<1>15. Len(new) = HeaderLen + Len(r.text) /\ Len(r.text) \in Nat
  BY <1>1, <1>2, Zenon
<1>16. /\ HashLen \in Nat /\ ValLen \in Nat /\ HeaderLen \in Nat
       /\ HashLen + ValLen \in Nat
       /\ p + 0 = p /\ p + (HashLen + ValLen) = p + HashLen + ValLen
       /\ p + (HashLen + ValLen) + ValLen - 1 = p + LenOff - 1
       /\ 0 + HashLen <= Len(new) /\ HashLen + ValLen <= Len(new)
       /\ HashLen + ValLen + ValLen <= Len(new)
       /\ HeaderLen + Len(r.text) <= Len(new)
       /\ 1 + LenOff \in 1 .. Len(new) /\ 1 + LenOff + 1 \in 1 .. Len(new)
       /\ p + (1 + LenOff) - 1 = p + LenOff
       /\ p + (1 + LenOff + 1) - 1 = p + LenOff + 1
       /\ Len(new) >= HashLen
  <2> DEFINE len == Len(new)
             text == Len(r.text)
  <2>1. /\ HashLen \in Nat /\ ValLen \in Nat /\ LenOff \in Nat
        /\ HeaderLen = LenOff + 2 /\ LenOff = HashLen + 2 * ValLen
    BY Sizes, FormatAssumption
  <2>2. len = HeaderLen + text /\ text \in Nat
    BY <1>15, Zenon
  <2> HIDE DEF len, text
  <2>3. /\ HashLen \in Nat /\ ValLen \in Nat /\ HeaderLen \in Nat
        /\ HashLen + ValLen \in Nat
        /\ p + 0 = p /\ p + (HashLen + ValLen) = p + HashLen + ValLen
        /\ p + (HashLen + ValLen) + ValLen - 1 = p + LenOff - 1
        /\ 0 + HashLen <= len /\ HashLen + ValLen <= len
        /\ HashLen + ValLen + ValLen <= len /\ HeaderLen + text <= len
        /\ 1 + LenOff \in 1 .. len /\ 1 + LenOff + 1 \in 1 .. len
        /\ p + (1 + LenOff) - 1 = p + LenOff
        /\ p + (1 + LenOff + 1) - 1 = p + LenOff + 1
        /\ len >= HashLen
    BY <1>4, <2>1, <2>2
  <2> QED
    BY <2>3, Zenon DEF len, text
<1>8. StoredLength(after, p) = Len(StoredText(r.text))
  <2>1. /\ 1 + LenOff \in 1 .. Len(new) /\ 1 + LenOff + 1 \in 1 .. Len(new)
        /\ p + (1 + LenOff) - 1 = p + LenOff
        /\ p + (1 + LenOff + 1) - 1 = p + LenOff + 1
    BY <1>16, Zenon
  <2>2. /\ after[p + (1 + LenOff) - 1] = new[1 + LenOff]
        /\ after[p + (1 + LenOff + 1) - 1] = new[1 + LenOff + 1]
    BY <1>5, <2>1, Zenon
  <2> QED
    BY <1>3, <2>1, <2>2, Zenon DEF StoredLength
<1>10. SubSeq(after, p, p + HashLen - 1) = hb
  <2>1. 0 \in Nat /\ 0 + Len(hb) <= Len(new) /\ p + 0 = p /\ Len(hb) = HashLen
    BY <1>1, <1>16
  <2>2. \A i \in 1 .. Len(hb) : new[0 + i] = hb[i]
    BY <1>1, <1>2
  <2>3. SubSeq(after, p + 0, p + 0 + Len(hb) - 1) = hb
    BY <1>1, <1>9, <2>1, <2>2, PieceOfEntry, Zenon DEF PartOf
  <2> QED
    BY <2>1, <2>3, Zenon
<1>11. SubSeq(after, p + HashLen, p + HashLen + ValLen - 1) = r.val1
  <2>1. HashLen \in Nat /\ HashLen + ValLen <= Len(new)
    BY <1>16, Zenon
  <2>2. HashLen + Len(r.val1) <= Len(new) /\ Len(r.val1) = ValLen
    BY <1>1, <2>1, Zenon
  <2>3. \A i \in 1 .. Len(r.val1) : new[HashLen + i] = r.val1[i]
    BY <1>2, <2>2, Zenon
  <2>4. SubSeq(after, p + HashLen, p + HashLen + Len(r.val1) - 1) = r.val1
    BY <1>1, <1>9, <2>1, <2>2, <2>3, PieceOfEntry, Zenon DEF PartOf
  <2> QED
    BY <2>2, <2>4, Zenon
<1>12. SubSeq(after, p + HashLen + ValLen, p + LenOff - 1) = r.val2
  <2>1. /\ HashLen + ValLen \in Nat /\ HashLen + ValLen + ValLen <= Len(new)
        /\ p + (HashLen + ValLen) = p + HashLen + ValLen
        /\ p + (HashLen + ValLen) + ValLen - 1 = p + LenOff - 1
    BY <1>16, Zenon
  <2>2. HashLen + ValLen + Len(r.val2) <= Len(new) /\ Len(r.val2) = ValLen
    BY <1>1, <2>1, Zenon
  <2>3. \A i \in 1 .. Len(r.val2) : new[HashLen + ValLen + i] = r.val2[i]
    BY <1>2, <2>2, Zenon
  <2>4. SubSeq(after, p + (HashLen + ValLen),
               p + (HashLen + ValLen) + Len(r.val2) - 1) = r.val2
    BY <1>1, <1>9, <2>1, <2>2, <2>3, PieceOfEntry, Zenon DEF PartOf
  <2> QED
    BY <2>1, <2>2, <2>4, Zenon
<1>13. SubSeq(after, p + HeaderLen,
              p + HeaderLen + Len(StoredText(r.text)) - 1) = StoredText(r.text)
  <2>1. HeaderLen \in Nat /\ HeaderLen + Len(StoredText(r.text)) <= Len(new)
    BY <1>15, <1>16, <1>17, <1>18
  <2>2. \A i \in 1 .. Len(StoredText(r.text)) :
          new[HeaderLen + i] = StoredText(r.text)[i]
    BY <1>2, <1>17, Zenon
  <2> QED
    BY <1>9, <1>17, <2>1, <2>2, PieceOfEntry, Zenon DEF PartOf
<1>14. EntryAt(after, p) = StoredEntry(hb, r)
  BY <1>8, <1>10, <1>11, <1>12, <1>13, Zenon DEF EntryAt, StoredEntry
<1>6. HasLength(after, p)
  <2>1. p + (1 + LenOff + 1) - 1 <= p + Len(new) - 1 /\ LenOff \in Nat
    BY <1>4, <1>16, LenOffIsNat
  <2> QED
    BY <1>4, <1>5, <1>16, <2>1 DEF HasLength
<1> QED
  BY <1>6, <1>8, <1>14 DEF new

\* One whose text is not too long is read back whole.
LEMMA EntryRead ==
  ASSUME NEW after, NEW hb, NEW r, EntryBytes(hb, r), Len(r.text) < LenMod,
         NEW p, Lies(after, p, NewEntry(hb, r))
  PROVE  /\ HasLength(after, p) /\ StoredLength(after, p) = Len(r.text)
         /\ OldTotalSize(after, p) = Len(NewEntry(hb, r))
         /\ EntryAt(after, p) = EntryOf(hb, r)
<1>1. r.text \in Seq(Byte)
  BY DEF EntryBytes
<1>2. StoredText(r.text) = r.text
  BY <1>1, StoredTextProperties
<1>3. /\ HasLength(after, p) /\ StoredLength(after, p) = Len(r.text)
      /\ EntryAt(after, p) = EntryOf(hb, r)
  BY <1>2, StoredRead, Zenon DEF StoredEntry, EntryOf
<1>4. Len(NewEntry(hb, r)) = HeaderLen + Len(r.text)
  BY NewEntryProperties, Zenon
<1> QED
  BY <1>3, <1>4, Zenon DEF OldTotalSize

\* What updateEntry wrote is read back, every field of it, and the entry is
\* still the first with its hash: whatever else is in the file and however long
\* the old entry was taken to be, if the erased bytes lie inside the file.  Of
\* the text it is what the two bytes of its length leave, all of it if they can.
THEOREM EntryReadsBack ==
  ASSUME NEW bytes \in Seq(Byte), NEW hb, NEW r, EntryBytes(hb, r),
         NEW p \in FirstMatch(bytes, hb), NEW n \in Nat,
         p + n - 1 <= Len(bytes)
  PROVE  LET after == Replaced(bytes, p, n, NewEntry(hb, r))
         IN  /\ FirstMatch(after, hb) = {p}
             /\ EntryAt(after, p) = StoredEntry(hb, r)
<1> DEFINE new == NewEntry(hb, r)
           after == Replaced(bytes, p, n, new)
<1>1. hb \in Seq(Byte) /\ Len(hb) = HashLen
  BY Zenon DEF EntryBytes
<1>2. /\ new \in Seq(Byte) /\ Len(new) = HeaderLen + Len(r.text)
      /\ \A i \in 1 .. HashLen : new[i] = hb[i]
  <2>1. /\ NewEntry(hb, r) \in Seq(Byte)
        /\ Len(NewEntry(hb, r)) = HeaderLen + Len(r.text)
    BY NewEntryProperties, Zenon
  <2>2. \A i \in 1 .. HashLen : NewEntry(hb, r)[i] = hb[i]
    BY NewEntryProperties, ZenonT(40)
  <2> QED
    BY <2>1, <2>2, Zenon DEF new
<1> HIDE DEF new
<1>3. p \in Nat \ {0}
  BY <1>1, FirstMatchType, Zenon
<1>4. Len(new) \in Nat /\ Len(bytes) \in Nat /\ Len(new) >= HashLen
  <2>1. Len(r.text) \in Nat
    BY LenProperties, Zenon DEF EntryBytes
  <2> QED
    BY <1>2, <2>1, HeaderIsNat, LenProperties
<1>5. OnlyReplaced(bytes, p, n, new, after)
  BY <1>2, <1>3, RestUntouched, Zenon
<1>6. FirstMatch(after, hb) = {p}
  <2>1. StartsWith(new, hb)
    BY <1>2, Zenon DEF StartsWith
  <2> QED
    BY <1>1, <1>2, <1>4, <2>1, FirstMatchStays
<1> HIDE DEF after
<1>7. Lies(after, p, new)
  BY <1>2, <1>3, <1>4, <1>5 DEF Lies, OnlyReplaced
<1>8. EntryAt(after, p) = StoredEntry(hb, r)
  BY <1>7, StoredRead, Zenon DEF new
<1> QED
  BY <1>6, <1>8 DEF after, new

-----------------------------------------------------------------------------
(* The edits of a call record that the actions make.                       *)

CallsOK == op \in [Thread -> CallRecord]

BytesOK == fileContents \in Seq(Byte) /\ disk \in Seq(Byte)

LEMMA IdleRecord == Idle \in CallRecord
BY EmptySeq DEF Idle, CallRecord, PC

LEMMA NewRecord ==
  ASSUME NEW r \in Request
  PROVE  [Idle EXCEPT !.pc = "search", !.req = r] \in CallRecord
BY IdleRecord DEF CallRecord, PC

LEMMA MovedRecord ==
  ASSUME NEW c \in CallRecord, NEW pc \in PC
  PROVE  [c EXCEPT !.pc = pc] \in CallRecord
BY DEF CallRecord

LEMMA DoneRecord ==
  ASSUME NEW c \in CallRecord, NEW ok \in BOOLEAN
  PROVE  /\ [c EXCEPT !.pc = "done", !.ok = ok] \in CallRecord
         /\ [c EXCEPT !.pc = "done", !.output = << >>, !.ok = ok] \in CallRecord
<1>1. << >> \in Seq(Byte)
  BY EmptySeq
<1> QED
  BY <1>1 DEF CallRecord, PC

LEMMA FetchedRecord ==
  ASSUME NEW c \in CallRecord, NEW bytes \in Seq(Byte)
  PROVE  [c EXCEPT !.pc = "write", !.output = bytes] \in CallRecord
BY DEF CallRecord, PC

LEMMA FoundRecord ==
  ASSUME NEW c \in CallRecord, NEW p \in Nat, NEW n \in Nat,
         NEW new \in Seq(Byte)
  PROVE  [c EXCEPT !.pc = "erase", !.findIdx = p, !.oldTotalSize = n,
                   !.newEntry = new] \in CallRecord
BY DEF CallRecord, PC

LEMMA BecomeOK ==
  ASSUME CallsOK, NEW t \in Thread, NEW c \in CallRecord, Become(t, c)
  PROVE  CallsOK'
BY DEF CallsOK, Become

LEMMA GotoOK ==
  ASSUME CallsOK, NEW t \in Thread, NEW pc \in PC, Goto(t, pc)
  PROVE  CallsOK'
<1>1. [op[t] EXCEPT !.pc = pc] \in CallRecord
  BY MovedRecord DEF CallsOK
<1> QED
  BY <1>1, BecomeOK, Zenon DEF Goto

LEMMA ThrowOK ==
  ASSUME CallsOK, NEW t \in Thread, Throw(t)
  PROVE  CallsOK'
<1>1. [op[t] EXCEPT !.pc = "done", !.ok = FALSE] \in CallRecord
  BY DoneRecord DEF CallsOK
<1> QED
  BY <1>1, BecomeOK, Zenon DEF Throw

LEMMA ReturnOK ==
  ASSUME CallsOK, NEW t \in Thread, Return(t) \/ Saved(t)
  PROVE  CallsOK'
<1>1. /\ [op[t] EXCEPT !.pc = "done", !.ok = TRUE] \in CallRecord
      /\ [op[t] EXCEPT !.pc = "done", !.output = << >>, !.ok = TRUE] \in CallRecord
  BY DoneRecord DEF CallsOK
<1> QED
  BY <1>1, BecomeOK, Zenon DEF Return, Saved

\* A request, and the bytes that were found for it, make an entry.
LEMMA RequestBytes ==
  ASSUME NEW r \in Request, NEW hb \in HashBytes(r.hash)
  PROVE  EntryBytes(hb, r)
<1>1. /\ r.hash \in Seq(Byte) /\ r.text \in Seq(Byte)
      /\ r.val1 \in [1 .. ValLen -> Byte] /\ r.val2 \in [1 .. ValLen -> Byte]
  BY RequestAssumption
<1>2. hb \in Seq(Byte) /\ Len(hb) = HashLen
  BY <1>1, HashBytesType, Zenon
<1> QED
  BY <1>1, <1>2, Zenon DEF EntryBytes

-----------------------------------------------------------------------------
(* Type correctness.                                                       *)

\* A call past the search has a request and a place in the file.
Placed(c) ==
  /\ c.pc # "idle" => c.req \in Request
  /\ c.pc \in {"erase", "insert"} => c.findIdx >= 1
  /\ c.pc = "erase" => c.oldTotalSize >= HeaderLen

Located == \A t \in Thread : Placed(op[t])

TypeInv == BytesOK /\ running \in BOOLEAN /\ CallsOK /\ Located

LEMMA NextCases ==
  ASSUME Next
  PROVE  \/ \E t \in Thread : \E r \in Request : Call(t, r)
         \/ \E t \in Thread : Step(t)
         \/ \E t \in Thread : Finish(t)
         \/ Crash \/ Restart
BY Zenon DEF Next

\* What the search finds.
LEMMA FoundPlace ==
  ASSUME TypeInv, NEW t \in Thread, Found(t)
  PROVE  \E hb \in HashBytes(op[t].req.hash), p \in Nat \ {0}, n \in Nat :
           /\ p \in FirstMatch(fileContents, hb) /\ n >= HeaderLen
           /\ NewEntry(hb, op[t].req) \in Seq(Byte)
           /\ Become(t, [op[t] EXCEPT !.pc = "erase", !.findIdx = p,
                                      !.oldTotalSize = n,
                                      !.newEntry = NewEntry(hb, op[t].req)])
<1>1. PICK hb \in HashBytes(op[t].req.hash) :
      \E p \in FirstMatch(fileContents, hb) :
      \E n \in OldTotalSizes(fileContents, p) :
        Become(t, [op[t] EXCEPT !.pc = "erase", !.findIdx = p,
                                !.oldTotalSize = n,
                                !.newEntry = NewEntry(hb, op[t].req)])
  BY Zenon DEF Found
<1>2. op[t].req \in Request /\ fileContents \in Seq(Byte)
  BY DEF Found, At, TypeInv, Located, Placed, BytesOK
<1>3. EntryBytes(hb, op[t].req)
  BY <1>2, RequestBytes, Zenon
<1>4. NewEntry(hb, op[t].req) \in Seq(Byte)
  BY <1>3, NewEntryProperties, Zenon
<1>5. PICK p \in FirstMatch(fileContents, hb) :
      \E n \in OldTotalSizes(fileContents, p) :
        Become(t, [op[t] EXCEPT !.pc = "erase", !.findIdx = p,
                                !.oldTotalSize = n,
                                !.newEntry = NewEntry(hb, op[t].req)])
  BY <1>1, Zenon
<1>6. p \in Nat \ {0}
  BY <1>2, <1>3, FirstMatchType, Zenon DEF EntryBytes
<1>7. \A n \in OldTotalSizes(fileContents, p) : n \in Nat /\ n >= HeaderLen
  BY <1>2, <1>6, OldTotalSizesType, Zenon
<1> QED
  BY <1>4, <1>5, <1>6, <1>7, Zenon

\* A call that goes on as c keeps its types if c does.
LEMMA CallStep ==
  ASSUME TypeInv, NEW t \in Thread, NEW c \in CallRecord, Placed(c),
         Become(t, c), fileContents' \in Seq(Byte), disk' \in Seq(Byte),
         running' \in BOOLEAN
  PROVE  TypeInv'
<1>1. CallsOK'
  BY BecomeOK, Zenon DEF TypeInv
<1>2. op' = [op EXCEPT ![t] = c] /\ op \in [Thread -> CallRecord]
  BY Zenon DEF Become, TypeInv, CallsOK
<1>3. Located'
  BY <1>2, Zenon DEF Located, TypeInv
<1> QED
  BY <1>1, <1>3, Zenon DEF TypeInv, BytesOK

LEMMA MovePlaced ==
  ASSUME TypeInv, NEW t \in Thread, NEW ok \in BOOLEAN,
         op[t].pc # "idle", NEW pc \in PC \ {"erase"},
         pc = "insert" => op[t].pc = "erase"
  PROVE  /\ [op[t] EXCEPT !.pc = pc] \in CallRecord
         /\ Placed([op[t] EXCEPT !.pc = pc])
         /\ [op[t] EXCEPT !.pc = "done", !.ok = ok] \in CallRecord
         /\ Placed([op[t] EXCEPT !.pc = "done", !.ok = ok])
         /\ [op[t] EXCEPT !.pc = "done", !.output = << >>, !.ok = ok]
               \in CallRecord
         /\ Placed([op[t] EXCEPT !.pc = "done", !.output = << >>, !.ok = ok])
<1>1. op[t] \in CallRecord /\ Placed(op[t])
  BY DEF TypeInv, CallsOK, Located
<1>2. /\ [op[t] EXCEPT !.pc = pc] \in CallRecord
      /\ [op[t] EXCEPT !.pc = "done", !.ok = ok] \in CallRecord
      /\ [op[t] EXCEPT !.pc = "done", !.output = << >>, !.ok = ok]
            \in CallRecord
  BY <1>1, MovedRecord, DoneRecord
<1>3. op[t].req \in Request
  BY <1>1 DEF Placed
<1>4. Placed([op[t] EXCEPT !.pc = pc])
  BY <1>1, <1>3 DEF Placed, CallRecord
<1>5. /\ Placed([op[t] EXCEPT !.pc = "done", !.ok = ok])
      /\ Placed([op[t] EXCEPT !.pc = "done", !.output = << >>, !.ok = ok])
  BY <1>1, <1>3 DEF Placed, CallRecord
<1> QED
  BY <1>2, <1>4, <1>5

\* The bytes that EraseOld and InsertNew leave, for a call t at that point.
LEMMA EraseBytes ==
  ASSUME TypeInv, NEW t \in Thread, EraseOld(t)
  PROVE  /\ fileContents' \in Seq(Byte)
         /\ op[t].findIdx \in Nat \ {0} /\ op[t].oldTotalSize \in Nat
         /\ op[t].findIdx + op[t].oldTotalSize - 1 <= Len(fileContents)
<1>1. /\ op[t].pc = "erase" /\ Overshoot(t) <= 0
      /\ fileContents' = Erase(fileContents, op[t].findIdx, op[t].oldTotalSize)
  BY Zenon DEF EraseOld, At
<1>2. op[t] \in CallRecord /\ Placed(op[t]) /\ fileContents \in Seq(Byte)
  BY DEF TypeInv, CallsOK, Located, BytesOK
<1>3. op[t].findIdx \in Nat \ {0} /\ op[t].oldTotalSize \in Nat
  BY <1>1, <1>2 DEF Placed, CallRecord
<1>4. op[t].findIdx + op[t].oldTotalSize - 1 <= Len(fileContents)
  BY <1>1, <1>2, <1>3, LenProperties DEF Overshoot
<1>5. fileContents' \in Seq(Byte)
  BY <1>1, <1>2, <1>3, <1>4, EraseProperties, Zenon
<1> QED
  BY <1>3, <1>4, <1>5

LEMMA CutBytes ==
  ASSUME TypeInv, NEW t \in Thread, At(t, "erase"), Overshoot(t) > 0
  PROVE  SubSeq(fileContents, 1, op[t].findIdx - 1 - Overshoot(t)) \in Seq(Byte)
<1>1. op[t] \in CallRecord /\ Placed(op[t]) /\ op[t].pc = "erase"
      /\ fileContents \in Seq(Byte)
  BY DEF TypeInv, CallsOK, Located, BytesOK, At
<1>2. op[t].findIdx \in Nat \ {0} /\ op[t].oldTotalSize \in Nat
      /\ op[t].oldTotalSize >= HeaderLen /\ Len(fileContents) \in Nat
  BY <1>1, LenProperties DEF Placed, CallRecord
<1> DEFINE last == op[t].findIdx - 1 - Overshoot(t)
<1>3. last \in Int /\ last <= Len(fileContents)
  BY <1>2, HeaderIsNat, SMTT(30) DEF Overshoot
<1> HIDE DEF last
<1>4. SubSeq(fileContents, 1, last) \in Seq(Byte)
  BY <1>1, <1>3, Piece
<1> QED
  BY <1>4 DEF last

LEMMA InsertBytes ==
  ASSUME TypeInv, NEW t \in Thread, InsertNew(t)
  PROVE  /\ fileContents' \in Seq(Byte)
         /\ op[t].findIdx \in Nat \ {0} /\ op[t].newEntry \in Seq(Byte)
         /\ op[t].findIdx <= Len(fileContents) + 1
<1>1. /\ op[t].pc = "insert" /\ op[t].findIdx <= Len(fileContents) + 1
      /\ fileContents' = Insert(fileContents, op[t].findIdx, op[t].newEntry)
  BY Zenon DEF InsertNew, At
<1>2. op[t] \in CallRecord /\ Placed(op[t]) /\ fileContents \in Seq(Byte)
  BY DEF TypeInv, CallsOK, Located, BytesOK
<1>3. op[t].findIdx \in Nat \ {0} /\ op[t].newEntry \in Seq(Byte)
  BY <1>1, <1>2 DEF Placed, CallRecord
<1>4. fileContents' \in Seq(Byte)
  BY <1>1, <1>2, <1>3, InsertProperties, Zenon
<1> QED
  BY <1>1, <1>3, <1>4

\* What a write finds in the vector is bytes.
LEMMA WrittenBytes ==
  ASSUME TypeInv, NEW t \in Thread, NEW bytes \in Written(t)
  PROVE  bytes \in Seq(Byte)
<1>1. /\ fileContents \in Seq(Byte) /\ op[t].output \in Seq(Byte)
      /\ << >> \in Seq(Byte) /\ Len(op[t].output) \in Nat
  BY LenProperties, EmptySeq DEF TypeInv, BytesOK, CallsOK, CallRecord
<1> DEFINE n == Len(op[t].output)
<1>2. ASSUME NEW old \in {op[t].output, fileContents, << >>},
             NEW stray \in [1 .. n -> Stray], bytes = SubSeq(old \o stray, 1, n)
      PROVE  bytes \in Seq(Byte)
  <2>1. old \in Seq(Byte) /\ Len(old) \in Nat
    BY <1>1, LenProperties
  <2>2. stray \in [1 .. n -> Byte]
    BY RequestAssumption
  <2>3. stray \in Seq(Byte) /\ Len(stray) = n
    BY <1>1, <2>2, FunctionIsSeq
  <2>4. /\ old \o stray \in Seq(Byte)
        /\ Len(old \o stray) = Len(old) + Len(stray)
    BY <2>1, <2>3, ConcatProperties, Zenon
  <2>5. n <= Len(old \o stray)
    BY <1>1, <2>1, <2>3, <2>4
  <2>6. SubSeq(old \o stray, 1, n) \in Seq(Byte)
    BY <1>1, <2>4, <2>5, Piece
  <2> QED
    BY <1>2, <2>6
<1>3. CASE fileContents = op[t].output
  <2>1. bytes \in {fileContents}
    BY <1>3 DEF Written
  <2> QED
    BY <1>1, <2>1
<1>4. CASE fileContents # op[t].output
  <2>1. \E old \in {op[t].output, fileContents, << >>} :
        \E stray \in [1 .. n -> Stray] : bytes = SubSeq(old \o stray, 1, n)
    BY <1>4, SMT DEF Written
  <2> QED
    BY <1>2, <2>1, Zenon
<1> QED
  BY <1>3, <1>4

LEMMA WriteBytes ==
  ASSUME TypeInv, NEW bytes \in Seq(Byte)
  PROVE  /\ bytes \o SubSeq(disk, Len(bytes) + 1, Len(disk)) \in Seq(Byte)
         /\ \A n \in 0 .. Len(bytes) - 1 : SubSeq(bytes, 1, n) \in Seq(Byte)
<1>1. disk \in Seq(Byte) /\ Len(bytes) \in Nat /\ Len(disk) \in Nat
  BY LenProperties DEF TypeInv, BytesOK
<1>2. SubSeq(disk, Len(bytes) + 1, Len(disk)) \in Seq(Byte)
  BY <1>1, Piece
<1>3. bytes \o SubSeq(disk, Len(bytes) + 1, Len(disk)) \in Seq(Byte)
  BY <1>2, ConcatProperties, Zenon
<1>4. ASSUME NEW n \in 0 .. Len(bytes) - 1
      PROVE  SubSeq(bytes, 1, n) \in Seq(Byte)
  BY <1>1, Piece
<1> QED
  BY <1>3, <1>4

\* The bytes that an insertion past the end leaves.
LEMMA StrayBytes ==
  ASSUME TypeInv, NEW t \in Thread, op[t].pc = "insert",
         op[t].findIdx > Len(fileContents) + 1,
         NEW stray \in [1 .. op[t].findIdx - 1 - Len(fileContents) -> Stray]
  PROVE  /\ SubSeq(fileContents \o stray \o op[t].newEntry,
                   1, Len(fileContents) + Len(op[t].newEntry)) \in Seq(Byte)
<1>1. /\ fileContents \in Seq(Byte) /\ op[t].newEntry \in Seq(Byte)
      /\ op[t].findIdx \in Nat
  BY DEF TypeInv, BytesOK, CallsOK, CallRecord
<1>2. Len(fileContents) \in Nat /\ Len(op[t].newEntry) \in Nat
  BY <1>1, LenProperties
<1> DEFINE gap == op[t].findIdx - 1 - Len(fileContents)
           after == fileContents \o stray \o op[t].newEntry
           last == Len(fileContents) + Len(op[t].newEntry)
<1>3. gap \in Nat /\ stray \in [1 .. gap -> Byte]
  BY <1>1, <1>2, RequestAssumption
<1>4. stray \in Seq(Byte) /\ Len(stray) = gap
  BY <1>3, FunctionIsSeq
<1>5. /\ fileContents \o stray \in Seq(Byte)
      /\ Len(fileContents \o stray) = Len(fileContents) + gap
  BY <1>1, <1>4, ConcatProperties
<1>6. /\ after \in Seq(Byte)
      /\ Len(after) = Len(fileContents \o stray) + Len(op[t].newEntry)
  BY <1>1, <1>5, ConcatProperties, Zenon
<1>7. last \in Int /\ last <= Len(after)
  BY <1>2, <1>3, <1>5, <1>6
<1>8. SubSeq(after, 1, last) \in Seq(Byte)
  <2> HIDE DEF after, last
  <2>1. 1 \in Int /\ 1 >= 1
    OBVIOUS
  <2> QED
    BY <1>6, <1>7, <2>1, Piece, Zenon
<1> QED
  BY <1>8

\* One step of updateEntry.
LEMMA StepTyped ==
  ASSUME TypeInv, NEW t \in Thread, Step(t)
  PROVE  TypeInv'
<1>0. /\ fileContents \in Seq(Byte) /\ disk \in Seq(Byte)
      /\ running \in BOOLEAN /\ << >> \in Seq(Byte)
  BY EmptySeq, Zenon DEF TypeInv, BytesOK
<1>1. ASSUME NEW pc \in PC \ {"erase"}, Goto(t, pc), op[t].pc # "idle",
             pc = "insert" => op[t].pc = "erase",
             fileContents' \in Seq(Byte), disk' \in Seq(Byte),
             UNCHANGED running
      PROVE  TypeInv'
  BY <1>0, <1>1, MovePlaced, CallStep, Zenon DEF Goto
<1>2. ASSUME Throw(t), op[t].pc # "idle"
      PROVE  TypeInv'
  <2>1. /\ [op[t] EXCEPT !.pc = "done", !.ok = FALSE] \in CallRecord
        /\ Placed([op[t] EXCEPT !.pc = "done", !.ok = FALSE])
    BY <1>2, MovePlaced DEF PC
  <2> QED
    BY <1>0, <1>2, <2>1, CallStep, Zenon DEF Throw
<1>3. ASSUME Return(t) \/ Saved(t), op[t].pc # "idle",
             UNCHANGED << fileContents, running >>, disk' \in Seq(Byte)
      PROVE  TypeInv'
  <2>1. /\ [op[t] EXCEPT !.pc = "done", !.ok = TRUE] \in CallRecord
        /\ Placed([op[t] EXCEPT !.pc = "done", !.ok = TRUE])
        /\ [op[t] EXCEPT !.pc = "done", !.output = << >>, !.ok = TRUE]
              \in CallRecord
        /\ Placed([op[t] EXCEPT !.pc = "done", !.output = << >>, !.ok = TRUE])
    BY <1>3, MovePlaced DEF PC
  <2> QED
    BY <1>0, <1>3, <2>1, CallStep, Zenon DEF Return, Saved
<1>4. ASSUME Die
      PROVE  TypeInv'
  BY <1>4, Zenon DEF Die, TypeInv, BytesOK, CallsOK, Located
<1>5. CASE BadHash(t) \/ NotFound(t)
  BY <1>2, <1>5 DEF BadHash, NotFound, At
<1>6. CASE Found(t)
  <2>1. PICK hb \in HashBytes(op[t].req.hash), p \in Nat \ {0}, n \in Nat :
          /\ p \in FirstMatch(fileContents, hb) /\ n >= HeaderLen
          /\ NewEntry(hb, op[t].req) \in Seq(Byte)
          /\ Become(t, [op[t] EXCEPT !.pc = "erase", !.findIdx = p,
                                     !.oldTotalSize = n,
                                     !.newEntry = NewEntry(hb, op[t].req)])
    BY <1>6, FoundPlace, Zenon
  <2>2. op[t] \in CallRecord /\ op[t].req \in Request
    BY <1>6 DEF TypeInv, CallsOK, Located, Placed, Found, At
  <2> DEFINE c == [op[t] EXCEPT !.pc = "erase", !.findIdx = p,
                                !.oldTotalSize = n,
                                !.newEntry = NewEntry(hb, op[t].req)]
  <2>3. c \in CallRecord
    BY <2>1, <2>2, FoundRecord, Zenon
  <2>4. Placed(c)
    BY <2>1, <2>2 DEF Placed, CallRecord
  <2>5. UNCHANGED << fileContents, disk, running >>
    BY <1>6, Zenon DEF Found
  <2> QED
    BY <1>0, <2>1, <2>3, <2>4, <2>5, CallStep, Zenon
<1>7. CASE EraseOld(t)
  <2>1. /\ op[t].pc = "erase" /\ Goto(t, "insert") /\ UNCHANGED << disk, running >>
        /\ op[t].pc # "idle" /\ "insert" \in PC \ {"erase"}
    BY <1>7 DEF EraseOld, At, PC
  <2> QED
    BY <1>0, <1>1, <1>7, <2>1, EraseBytes, Zenon
<1>8. CASE ErasePastEnd(t)
  <2>1. CASE Die
    BY <1>4, <2>1
  <2>2. CASE ~ Die
    <3>1. /\ At(t, "erase") /\ Overshoot(t) > 0 /\ Goto(t, "insert")
          /\ fileContents' =
               SubSeq(fileContents, 1, op[t].findIdx - 1 - Overshoot(t))
          /\ UNCHANGED << disk, running >>
      BY <1>8, <2>2, Zenon DEF ErasePastEnd
    <3>2. /\ op[t].pc = "erase" /\ op[t].pc # "idle"
          /\ "insert" \in PC \ {"erase"}
      BY <3>1 DEF At, PC
    <3> QED
      BY <1>0, <1>1, <3>1, <3>2, CutBytes, Zenon
  <2> QED
    BY <2>1, <2>2
<1>9. CASE InsertNew(t)
  <2>1. /\ Goto(t, "open") /\ UNCHANGED << disk, running >>
        /\ op[t].pc # "idle" /\ "open" \in PC \ {"erase"} /\ "open" # "insert"
    BY <1>9 DEF InsertNew, At, PC
  <2> QED
    BY <1>0, <1>1, <1>9, <2>1, InsertBytes, Zenon
<1>10. CASE InsertPastEnd(t)
  <2>1. CASE Die
    BY <1>4, <2>1
  <2>2. CASE ~ Die
    <3>1. PICK stray \in [1 .. op[t].findIdx - 1 - Len(fileContents) -> Stray] :
            fileContents' = SubSeq(fileContents \o stray \o op[t].newEntry,
                                   1, Len(fileContents) + Len(op[t].newEntry))
      BY <1>10, <2>2, Zenon DEF InsertPastEnd
    <3>2. /\ op[t].pc = "insert" /\ op[t].findIdx > Len(fileContents) + 1
          /\ Goto(t, "open") /\ UNCHANGED << disk, running >>
          /\ op[t].pc # "idle" /\ "open" \in PC \ {"erase"} /\ "open" # "insert"
      BY <1>10, <2>2 DEF InsertPastEnd, At, PC
    <3>3. fileContents' \in Seq(Byte)
      BY <3>1, <3>2, StrayBytes
    <3> QED
      BY <1>0, <1>1, <3>2, <3>3, Zenon
  <2> QED
    BY <2>1, <2>2
<1>11. CASE OpenOutput(t)
  <2>1. /\ Goto(t, "fetch") /\ disk' = << >> /\ UNCHANGED << fileContents, running >>
        /\ op[t].pc # "idle" /\ "fetch" \in PC \ {"erase"} /\ "fetch" # "insert"
    BY <1>11 DEF OpenOutput, At, PC
  <2> QED
    BY <1>0, <1>1, <2>1, Zenon
<1>12. CASE OpenFails(t)
  <2>1. op[t].pc # "idle" /\ Return(t) /\ UNCHANGED << fileContents, disk, running >>
    BY <1>12 DEF OpenFails, At
  <2> QED
    BY <1>0, <1>3, <2>1, Zenon
<1>13. CASE FetchOutput(t)
  <2> DEFINE c == [op[t] EXCEPT !.pc = "write", !.output = fileContents]
  <2>1. /\ op[t] \in CallRecord /\ Placed(op[t]) /\ op[t].pc = "fetch"
        /\ Become(t, c) /\ UNCHANGED << fileContents, disk, running >>
    BY <1>13 DEF FetchOutput, At, TypeInv, CallsOK, Located
  <2>2. c \in CallRecord
    BY <1>0, <2>1, FetchedRecord
  <2>3. Placed(c)
    BY <2>1 DEF Placed, CallRecord
  <2> QED
    BY <1>0, <2>1, <2>2, <2>3, CallStep, Zenon
<1>14. CASE WriteOutput(t)
  <2>1. /\ op[t].pc # "idle" /\ Saved(t) /\ UNCHANGED << fileContents, running >>
    BY <1>14 DEF WriteOutput, At
  <2>2. PICK bytes \in Written(t) :
          disk' = bytes \o SubSeq(disk, Len(bytes) + 1, Len(disk))
    BY <1>14, Zenon DEF WriteOutput
  <2>3. bytes \in Seq(Byte)
    BY WrittenBytes
  <2>4. disk' \in Seq(Byte)
    BY <2>2, <2>3, WriteBytes, Zenon
  <2> QED
    BY <1>0, <1>3, <2>1, <2>4, Zenon
<1>15. CASE WriteFails(t)
  <2>1. /\ op[t].pc # "idle" /\ Saved(t) /\ UNCHANGED << fileContents, running >>
    BY <1>15 DEF WriteFails, At
  <2>2. PICK bytes \in Written(t) :
          \E n \in 0 .. Len(bytes) - 1 : disk' = SubSeq(bytes, 1, n)
    BY <1>15, Zenon DEF WriteFails
  <2>3. bytes \in Seq(Byte)
    BY WrittenBytes
  <2>4. disk' \in Seq(Byte)
    BY <2>2, <2>3, WriteBytes, Zenon
  <2> QED
    BY <1>0, <1>3, <2>1, <2>4, Zenon
<1> QED
  BY <1>5, <1>6, <1>7, <1>8, <1>9, <1>10, <1>11, <1>12, <1>13, <1>14, <1>15,
     Zenon
  DEF Step

LEMMA TypeStep ==
  ASSUME TypeInv, [Next]_binVars
  PROVE  TypeInv'
<1>0. /\ fileContents \in Seq(Byte) /\ disk \in Seq(Byte) /\ running \in BOOLEAN
  BY Zenon DEF TypeInv, BytesOK
<1>1. ASSUME NEW t \in Thread, NEW r \in Request, Call(t, r)
      PROVE  TypeInv'
  <2>1. [Idle EXCEPT !.pc = "search", !.req = r] \in CallRecord
    BY NewRecord
  <2>2. Placed([Idle EXCEPT !.pc = "search", !.req = r])
    BY DEF Placed, Idle
  <2> QED
    BY <1>0, <1>1, <2>1, <2>2, CallStep, Zenon DEF Call
<1>2. ASSUME NEW t \in Thread, Finish(t)
      PROVE  TypeInv'
  <2>1. Placed(Idle)
    BY DEF Placed, Idle
  <2> QED
    BY <1>0, <1>2, <2>1, IdleRecord, CallStep, Zenon DEF Finish
<1>3. CASE Crash
  BY <1>3, Zenon DEF Crash, Die, TypeInv, BytesOK, CallsOK, Located
<1>4. CASE Restart
  BY <1>4, IdleRecord DEF Restart, TypeInv, BytesOK, CallsOK, Located, Placed, Idle
<1>5. CASE UNCHANGED binVars
  BY <1>5, Zenon DEF binVars, TypeInv, BytesOK, CallsOK, Located
<1> QED
  BY <1>1, <1>2, <1>3, <1>4, <1>5, StepTyped, NextCases, Zenon

LEMMA TypeInit == Init => TypeInv
BY IdleRecord, InitTableAssumption
DEF Init, TypeInv, BytesOK, CallsOK, Located, Placed, Idle

\* The auxiliary variable.
SpoiltOK == spoilt \in BOOLEAN

LEMMA SpoiltStep ==
  ASSUME SpoiltOK, [Next]_binVars
  PROVE  SpoiltOK'
<1> USE DEF SpoiltOK
<1>1. CASE UNCHANGED binVars
  BY <1>1 DEF binVars
<1>2. ASSUME NEW t \in Thread, InsertNew(t)
      PROVE  spoilt' \in BOOLEAN
  <2>1. spoilt' = (spoilt \/ Len(op[t].req.text) >= LenMod)
    BY <1>2, Zenon DEF InsertNew
  <2> QED
    BY <2>1, Zenon
<1>3. ASSUME NEW t \in Thread, InsertPastEnd(t)
      PROVE  spoilt' \in BOOLEAN
  BY <1>3, Zenon DEF InsertPastEnd, Die
<1>4. ASSUME NEW t \in Thread, Step(t), ~ InsertNew(t), ~ InsertPastEnd(t)
      PROVE  spoilt' \in BOOLEAN
  BY <1>4, Zenon DEF Step, BadHash, NotFound, Found, Throw, EraseOld, ErasePastEnd,
    Die, OpenOutput, OpenFails, FetchOutput, WriteOutput, WriteFails
<1>5. CASE Crash \/ Restart
  BY <1>5, Zenon DEF Crash, Die, Restart
<1>6. ASSUME NEW t \in Thread, Finish(t) \/ \E r \in Request : Call(t, r)
      PROVE  spoilt' \in BOOLEAN
  BY <1>6, Zenon DEF Finish, Call
<1> QED
  BY <1>1, <1>2, <1>3, <1>4, <1>5, <1>6, NextCases, Zenon

\* The vector, the file and the locals of every call keep their types, through
\* every fault, crash and restart: the splices and the truncated writes of
\* updateEntry never produce anything but a string of bytes.
THEOREM TypeCorrect == Spec => []TypeOK
<1>1. TypeInv /\ SpoiltOK => TypeOK
  BY Zenon DEF TypeInv, TypeOK, BytesOK, CallsOK, SpoiltOK
<1>2. TypeInv /\ SpoiltOK /\ [Next]_binVars => TypeInv' /\ SpoiltOK'
  BY TypeStep, SpoiltStep, Zenon
<1>3. Init => TypeInv /\ SpoiltOK
  BY TypeInit DEF Init, SpoiltOK
<1> QED
  BY <1>1, <1>2, <1>3, PTL DEF Spec

-----------------------------------------------------------------------------
(* Memory and disk.                                                        *)

OneThread == \A t, u \in Thread : t = u

\* What holds during a save of the only thread: from its open to its write the
\* file is empty, and what it has fetched to write is the vector.
SyncAt(c, bytes, file) ==
  /\ c.pc \notin {"insert", "open", "fetch", "write"} => file = bytes
  /\ c.pc \in {"fetch", "write"} => file = << >>
  /\ c.pc = "write" => c.output = bytes

\* Without a thread nothing is ever written.
SyncInv ==
  /\ \A t \in Thread : SyncAt(op[t], fileContents, disk)
  /\ Thread = {} => disk = fileContents

\* A step of the only thread.
LEMMA SyncBecome ==
  ASSUME OneThread, CallsOK, NEW t \in Thread, NEW c, Become(t, c),
         SyncAt(c, fileContents', disk')
  PROVE  SyncInv'
<1>1. \A u \in Thread : u = t
  BY DEF OneThread
<1>2. op'[t] = c
  BY DEF Become, CallsOK
<1>3. \A u \in Thread : SyncAt(op'[u], fileContents', disk')
  BY <1>1, <1>2 DEF SyncAt
<1> QED
  BY <1>3 DEF SyncInv

\* A step to pc that changes neither.
LEMMA SyncQuiet ==
  ASSUME SyncInv, NEW t \in Thread, NEW c,
         op[t].pc \notin {"insert", "open", "fetch", "write"},
         c.pc \notin {"fetch", "write"}, UNCHANGED << fileContents, disk >>
  PROVE  SyncAt(c, fileContents', disk')
<1>1. disk = fileContents
  BY DEF SyncInv, SyncAt
<1> QED
  BY <1>1 DEF SyncAt

LEMMA SyncStep ==
  ASSUME OneThread, Fault = {}, TypeInv, SyncInv, [Next]_binVars
  PROVE  SyncInv'
<1>0. CallsOK
  BY Zenon DEF TypeInv
<1>1. ASSUME NEW t \in Thread, NEW r \in Request, Call(t, r)
      PROVE  SyncInv'
  <2> DEFINE c == [Idle EXCEPT !.pc = "search", !.req = r]
  <2>1. /\ op[t].pc \notin {"insert", "open", "fetch", "write"}
        /\ Become(t, c) /\ UNCHANGED << fileContents, disk >>
        /\ c.pc \notin {"fetch", "write"}
    BY <1>1 DEF Call, At, Idle
  <2> HIDE DEF c
  <2> QED
    BY <1>0, <2>1, SyncQuiet, SyncBecome
<1>2. ASSUME NEW t \in Thread, Finish(t)
      PROVE  SyncInv'
  <2>1. /\ op[t].pc \notin {"insert", "open", "fetch", "write"}
        /\ Become(t, Idle) /\ UNCHANGED << fileContents, disk >>
        /\ Idle.pc \notin {"fetch", "write"}
    BY <1>2 DEF Finish, At, Idle
  <2> QED
    BY <1>0, <2>1, SyncQuiet, SyncBecome
<1>3. CASE Die
  BY <1>3 DEF Die, SyncInv, SyncAt
<1>4. CASE Restart
  BY <1>4 DEF Restart, SyncInv, SyncAt, Idle
<1>5. CASE UNCHANGED binVars
  BY <1>5 DEF binVars, SyncInv, SyncAt
<1>6. ASSUME NEW t \in Thread, Step(t)
      PROVE  SyncInv'
  <2>0. op[t] \in CallRecord
    BY <1>0 DEF CallsOK
  <2>1. CASE BadHash(t) \/ NotFound(t) \/ Found(t)
    <3>1. PICK c : /\ Become(t, c) /\ c.pc \notin {"fetch", "write"}
                   /\ UNCHANGED << fileContents, disk >>
      BY <2>0, <2>1 DEF BadHash, NotFound, Found, Throw, CallRecord
    <3>2. op[t].pc \notin {"insert", "open", "fetch", "write"}
      BY <2>1 DEF BadHash, NotFound, Found, At
    <3> QED
      BY <1>0, <3>1, <3>2, SyncQuiet, SyncBecome
  <2>2. ASSUME NEW pc \in {"insert", "open"}, Goto(t, pc)
        PROVE  SyncInv'
    <3>1. SyncAt([op[t] EXCEPT !.pc = pc], fileContents', disk')
      BY <2>0, <2>2 DEF SyncAt, CallRecord
    <3> QED
      BY <1>0, <2>2, <3>1, SyncBecome DEF Goto
  <2>3. CASE EraseOld(t) \/ ErasePastEnd(t) \/ InsertNew(t) \/ InsertPastEnd(t)
    BY <1>3, <2>2, <2>3, Zenon
    DEF EraseOld, ErasePastEnd, InsertNew, InsertPastEnd
  <2>4. CASE OpenOutput(t)
    <3>1. /\ Become(t, [op[t] EXCEPT !.pc = "fetch"]) /\ disk' = << >>
          /\ UNCHANGED fileContents
      BY <2>4 DEF OpenOutput, Goto
    <3>2. SyncAt([op[t] EXCEPT !.pc = "fetch"], fileContents', disk')
      BY <2>0, <3>1 DEF SyncAt, CallRecord
    <3> QED
      BY <1>0, <3>1, <3>2, SyncBecome
  <2>5. CASE FetchOutput(t)
    <3> DEFINE c == [op[t] EXCEPT !.pc = "write", !.output = fileContents]
    <3>1. /\ op[t].pc = "fetch" /\ Become(t, c)
          /\ UNCHANGED << fileContents, disk >>
      BY <2>5 DEF FetchOutput, At
    <3>2. disk = << >>
      BY <3>1 DEF SyncInv, SyncAt
    <3>3. SyncAt(c, fileContents', disk')
      BY <2>0, <3>1, <3>2 DEF SyncAt, CallRecord
    <3> QED
      BY <1>0, <3>1, <3>3, SyncBecome
  <2>6. CASE WriteOutput(t)
    <3> DEFINE c == [op[t] EXCEPT !.pc = "done", !.output = << >>, !.ok = TRUE]
    <3>1. /\ op[t].pc = "write" /\ UNCHANGED fileContents /\ Become(t, c)
          /\ \E bytes \in Written(t) :
               disk' = bytes \o SubSeq(disk, Len(bytes) + 1, Len(disk))
      BY <2>6, Zenon DEF WriteOutput, At, Saved
    <3>2. disk = << >> /\ op[t].output = fileContents
      BY <3>1 DEF SyncInv, SyncAt
    <3>3. disk' = fileContents
                    \o SubSeq(disk, Len(fileContents) + 1, Len(disk))
      BY <3>1, <3>2 DEF Written
    <3>4. fileContents \in Seq(Byte) /\ Len(fileContents) \in Nat
      BY LenProperties DEF TypeInv, BytesOK
    <3>5. SubSeq(disk, Len(fileContents) + 1, Len(disk)) = << >>
      <4>1. /\ Len(disk) \in Int /\ Len(fileContents) + 1 \in Int
            /\ Len(disk) < Len(fileContents) + 1
        BY <3>2, <3>4, EmptySeq
      <4> QED
        BY <4>1, SubSeqEmpty
    <3>6. disk' = fileContents
      BY <3>3, <3>4, <3>5, ConcatEmptySeq, Zenon
    <3>7. SyncAt(c, fileContents', disk')
      BY <2>0, <3>1, <3>6 DEF SyncAt, CallRecord
    <3> QED
      BY <1>0, <3>1, <3>7, SyncBecome
  <2>7. CASE OpenFails(t) \/ WriteFails(t)
    BY <2>7 DEF OpenFails, WriteFails
  <2> QED
    BY <1>6, <2>1, <2>3, <2>4, <2>5, <2>6, <2>7, Zenon DEF Step
<1> QED
  BY <1>1, <1>2, <1>3, <1>4, <1>5, <1>6, NextCases, Zenon DEF Crash

\* As long as updates do not overlap and no open and no write fails, the file is
\* the vector whenever no call is between its erase and the end of its save:
\* every change of the vector is followed by a truncation and a complete write,
\* and a crash in between is followed by a load of what is there.
THEOREM MemoryOnDisk ==
  ASSUME OneThread, Fault = {}
  PROVE  Spec => []InSync
<1>1. Init => TypeInv /\ SyncInv
  BY TypeInit DEF Init, SyncInv, SyncAt, Idle
<1>2. TypeInv /\ SyncInv /\ [Next]_binVars => TypeInv' /\ SyncInv'
  BY TypeStep, SyncStep, Zenon
<1>3. SyncInv => InSync
  BY DEF SyncInv, SyncAt, InSync
<1> QED
  BY <1>1, <1>2, <1>3, PTL DEF Spec

-----------------------------------------------------------------------------
(* Texts of any length.                                                    *)

\* The entry of r is found under one of the hashes r may stand for: what was
\* stored of it, and all of it.
StoredThere(bytes, r) ==
  \E hb \in HashBytes(r.hash) : \E p \in FirstMatch(bytes, hb) :
    FirstMatch(bytes, hb) = {p} /\ EntryAt(bytes, p) = StoredEntry(hb, r)

ReadsBack(bytes, r) ==
  \E hb \in HashBytes(r.hash) : \E p \in FirstMatch(bytes, hb) :
    FirstMatch(bytes, hb) = {p} /\ EntryAt(bytes, p) = EntryOf(hb, r)

LEMMA StoredWhole ==
  ASSUME NEW bytes, NEW r \in Request, Len(r.text) < LenMod,
         StoredThere(bytes, r)
  PROVE  ReadsBack(bytes, r)
<1>1. r.text \in Seq(Byte)
  BY RequestAssumption
<1>2. StoredText(r.text) = r.text
  BY <1>1, StoredTextProperties
<1>3. \A hb : StoredEntry(hb, r) = EntryOf(hb, r)
  BY <1>2 DEF StoredEntry, EntryOf
<1> QED
  BY <1>3, Zenon DEF StoredThere, ReadsBack

\* And with the entry the text.
LEMMA TextOfEntry ==
  ASSUME NEW bytes, NEW r, StoredThere(bytes, r)
  PROVE  \E hb \in HashBytes(r.hash) :
           getTextByHash(bytes, hb) = {StoredText(r.text)}
<1>0. PICK hb \in HashBytes(r.hash) : \E p \in FirstMatch(bytes, hb) :
        FirstMatch(bytes, hb) = {p} /\ EntryAt(bytes, p) = StoredEntry(hb, r)
  BY Zenon DEF StoredThere
<1>1. PICK p \in FirstMatch(bytes, hb) :
        FirstMatch(bytes, hb) = {p} /\ EntryAt(bytes, p) = StoredEntry(hb, r)
  BY <1>0
<1>2. EntryAt(bytes, p).text = StoredText(r.text)
  BY <1>1 DEF StoredEntry
<1>3. getTextByHash(bytes, hb) = {EntryAt(bytes, p).text}
  BY <1>1 DEF getTextByHash, EntryAt
<1> QED
  BY <1>2, <1>3

\* The last insertion was no further than the end of the vector.
InFull(bytes, c) == c.findIdx + Len(c.newEntry) - 1 <= Len(bytes)

\* What a call knows of the vector, at each of its statements.
Ready(bytes, c) ==
  /\ c.pc = "erase" =>
       \E hb \in HashBytes(c.req.hash) :
         c.findIdx \in FirstMatch(bytes, hb) /\ c.newEntry = NewEntry(hb, c.req)
  /\ c.pc = "insert" /\ c.findIdx <= Len(bytes) + 1 =>
       StoredThere(Insert(bytes, c.findIdx, c.newEntry), c.req)
  /\ /\ c.pc \in {"open", "fetch", "write"} \/ (c.pc = "done" /\ c.ok = TRUE)
     /\ InFull(bytes, c)
     => StoredThere(bytes, c.req)

TextInv == \A t \in Thread : Ready(fileContents, op[t])

\* With a single thread it is enough to look at the call that made the step.
LEMMA TextBecome ==
  ASSUME NEW w, Thread = {w}, CallsOK, NEW t \in Thread, NEW c, Become(t, c),
         Ready(fileContents', c)
  PROVE  TextInv'
<1>1. op'[t] = c /\ \A u \in Thread : u = t
  BY DEF Become, CallsOK
<1> QED
  BY <1>1, Zenon DEF TextInv

\* The call moves on and the vector stays.
LEMMA TextMoves ==
  ASSUME NEW c \in CallRecord, NEW bytes, Ready(bytes, c)
  PROVE  /\ c.pc = "open" => Ready(bytes, [c EXCEPT !.pc = "fetch"])
         /\ c.pc = "fetch" =>
              \A o : Ready(bytes, [c EXCEPT !.pc = "write", !.output = o])
         /\ c.pc \in {"open", "write"} =>
              /\ Ready(bytes, [c EXCEPT !.pc = "done", !.ok = TRUE])
              /\ Ready(bytes, [c EXCEPT !.pc = "done", !.output = << >>,
                                        !.ok = TRUE])
         /\ Ready(bytes, [c EXCEPT !.pc = "done", !.ok = FALSE])
BY DEF Ready, InFull, CallRecord

\* The splice of EraseOld and InsertNew.
LEMMA EraseReady ==
  ASSUME TypeInv, TextInv, NEW t \in Thread, EraseOld(t)
  PROVE  Ready(fileContents', [op[t] EXCEPT !.pc = "insert"])
<1>1. /\ op[t].pc = "erase"
      /\ fileContents' = Erase(fileContents, op[t].findIdx, op[t].oldTotalSize)
  BY Zenon DEF EraseOld, At
<1>2. op[t] \in CallRecord /\ op[t].req \in Request /\ fileContents \in Seq(Byte)
  BY <1>1 DEF TypeInv, CallsOK, BytesOK, Located, Placed
<1>3. /\ op[t].oldTotalSize \in Nat
      /\ op[t].findIdx + op[t].oldTotalSize - 1 <= Len(fileContents)
  BY EraseBytes, Zenon
<1>4. PICK hb \in HashBytes(op[t].req.hash) :
        /\ op[t].findIdx \in FirstMatch(fileContents, hb)
        /\ op[t].newEntry = NewEntry(hb, op[t].req)
  BY <1>1, Zenon DEF TextInv, Ready
<1> DEFINE after == Replaced(fileContents, op[t].findIdx, op[t].oldTotalSize,
                             NewEntry(hb, op[t].req))
<1>5. /\ FirstMatch(after, hb) = {op[t].findIdx}
      /\ EntryAt(after, op[t].findIdx) = StoredEntry(hb, op[t].req)
  <2>1. EntryBytes(hb, op[t].req)
    BY <1>2, RequestBytes, Zenon
  <2> QED
    BY <1>2, <1>3, <1>4, <2>1, EntryReadsBack
<1>6. StoredThere(Insert(fileContents', op[t].findIdx, op[t].newEntry), op[t].req)
  <2>1. after = Insert(fileContents', op[t].findIdx, op[t].newEntry)
    BY <1>1, <1>4, Zenon DEF Replaced
  <2> HIDE DEF after
  <2>2. op[t].findIdx \in FirstMatch(after, hb)
    BY <1>5
  <2> QED
    BY <1>5, <2>1, <2>2, Zenon DEF StoredThere
<1> DEFINE c == [op[t] EXCEPT !.pc = "insert"]
<1>7. /\ c.pc = "insert" /\ c.findIdx = op[t].findIdx
      /\ c.newEntry = op[t].newEntry /\ c.req = op[t].req
  BY <1>2 DEF CallRecord
<1> HIDE DEF c
<1>8. Ready(fileContents', c)
  BY <1>6, <1>7 DEF Ready
<1> QED
  BY <1>8 DEF c

LEMMA CutArithmetic ==
  ASSUME NEW f \in Nat \ {0}, NEW n \in Nat, NEW l \in Nat, NEW over \in Int,
         over = f + n - 1 - l, over > 0, f - 1 >= over
  PROVE  f - 1 - over \in Nat /\ f - 1 - over <= l /\ f - 1 - over + 1 < f
OBVIOUS

\* What libstdc++ leaves of an erase past the end is too short for the insert.
LEMMA CutReady ==
  ASSUME TypeInv, NEW t \in Thread, At(t, "erase"), Overshoot(t) > 0,
         op[t].findIdx - 1 >= Overshoot(t),
         fileContents' = SubSeq(fileContents, 1, op[t].findIdx - 1 - Overshoot(t))
  PROVE  Ready(fileContents', [op[t] EXCEPT !.pc = "insert"])
<1>1. op[t] \in CallRecord /\ Placed(op[t]) /\ op[t].pc = "erase"
      /\ fileContents \in Seq(Byte)
  BY DEF TypeInv, CallsOK, Located, BytesOK, At
<1>2. op[t].findIdx \in Nat \ {0} /\ op[t].oldTotalSize \in Nat
      /\ op[t].oldTotalSize >= HeaderLen /\ Len(fileContents) \in Nat
  BY <1>1, LenProperties DEF Placed, CallRecord
<1> DEFINE last == op[t].findIdx - 1 - Overshoot(t)
<1>3. last \in Nat /\ last <= Len(fileContents) /\ last + 1 < op[t].findIdx
  <2>1. /\ Overshoot(t) \in Int
        /\ Overshoot(t)
             = op[t].findIdx + op[t].oldTotalSize - 1 - Len(fileContents)
    BY <1>2 DEF Overshoot
  <2> QED
    BY <1>2, <2>1, CutArithmetic, Zenon
<1> HIDE DEF last
<1>4. Len(SubSeq(fileContents, 1, last)) = last
  BY <1>1, <1>3, Piece
<1>5. ~ (op[t].findIdx <= Len(fileContents') + 1)
  BY <1>2, <1>3, <1>4 DEF last
<1> DEFINE c == [op[t] EXCEPT !.pc = "insert"]
<1>6. c.pc = "insert" /\ c.findIdx = op[t].findIdx
  BY <1>1 DEF CallRecord
<1> HIDE DEF c
<1>7. Ready(fileContents', c)
  BY <1>5, <1>6 DEF Ready
<1> QED
  BY <1>7 DEF c

\* The insertion makes the entry readable.
LEMMA InsertReady ==
  ASSUME TypeInv, TextInv, NEW t \in Thread, InsertNew(t)
  PROVE  Ready(fileContents', [op[t] EXCEPT !.pc = "open"])
<1>1. /\ op[t].pc = "insert" /\ op[t].findIdx <= Len(fileContents) + 1
      /\ fileContents' = Insert(fileContents, op[t].findIdx, op[t].newEntry)
  BY Zenon DEF InsertNew, At
<1>2. op[t] \in CallRecord
  BY DEF TypeInv, CallsOK
<1>3. StoredThere(fileContents', op[t].req)
  BY <1>1, Zenon DEF TextInv, Ready
<1> DEFINE c == [op[t] EXCEPT !.pc = "open"]
<1>4. c.pc = "open" /\ c.req = op[t].req
  BY <1>2 DEF CallRecord
<1> HIDE DEF c
<1>5. Ready(fileContents', c)
  BY <1>3, <1>4 DEF Ready
<1> QED
  BY <1>5 DEF c

\* An insertion past the end cuts the entry short.
LEMMA StrayReady ==
  ASSUME TypeInv, NEW t \in Thread, InsertPastEnd(t), ~ Die
  PROVE  /\ Become(t, [op[t] EXCEPT !.pc = "open"])
         /\ Ready(fileContents', [op[t] EXCEPT !.pc = "open"])
<1>1. PICK stray \in [1 .. op[t].findIdx - 1 - Len(fileContents) -> Stray] :
        fileContents' = SubSeq(fileContents \o stray \o op[t].newEntry,
                               1, Len(fileContents) + Len(op[t].newEntry))
  BY Zenon DEF InsertPastEnd
<1>2. /\ op[t].pc = "insert" /\ op[t].findIdx > Len(fileContents) + 1
      /\ Become(t, [op[t] EXCEPT !.pc = "open"])
  BY Zenon DEF InsertPastEnd, At, Goto
<1>3. Len(fileContents') <= Len(fileContents) + Len(op[t].newEntry)
  BY <1>1, <1>2, StrayBytes
<1>4. op[t] \in CallRecord /\ fileContents \in Seq(Byte)
      /\ fileContents' \in Seq(Byte)
  BY <1>1, <1>2, StrayBytes DEF TypeInv, CallsOK, BytesOK
<1>5. op[t].findIdx \in Nat /\ op[t].newEntry \in Seq(Byte)
  BY <1>4 DEF CallRecord
<1>6. /\ Len(fileContents) \in Nat /\ Len(fileContents') \in Nat
      /\ Len(op[t].newEntry) \in Nat
  BY <1>4, <1>5, LenProperties
<1>7. ~ (op[t].findIdx + Len(op[t].newEntry) - 1 <= Len(fileContents'))
  BY <1>2, <1>3, <1>5, <1>6
<1> DEFINE c == [op[t] EXCEPT !.pc = "open"]
<1>8. /\ c.pc = "open" /\ c.findIdx = op[t].findIdx
      /\ c.newEntry = op[t].newEntry
  BY <1>4 DEF CallRecord
<1> HIDE DEF c
<1>9. Ready(fileContents', c)
  BY <1>7, <1>8 DEF Ready, InFull
<1> QED
  BY <1>2, <1>9 DEF c

\* The search leaves the call ready for the erase.
LEMMA FoundReady ==
  ASSUME NEW c \in CallRecord, NEW bytes, NEW hb \in HashBytes(c.req.hash),
         NEW p \in FirstMatch(bytes, hb), NEW n
  PROVE  Ready(bytes, [c EXCEPT !.pc = "erase", !.findIdx = p,
                                !.oldTotalSize = n,
                                !.newEntry = NewEntry(hb, c.req)])
<1> DEFINE d == [c EXCEPT !.pc = "erase", !.findIdx = p, !.oldTotalSize = n,
                          !.newEntry = NewEntry(hb, c.req)]
<1>1. /\ d.pc = "erase" /\ d.findIdx = p /\ d.req = c.req
      /\ d.newEntry = NewEntry(hb, c.req)
  BY DEF CallRecord
<1> HIDE DEF d
<1>2. Ready(bytes, d)
  BY <1>1 DEF Ready
<1> QED
  BY <1>2 DEF d

LEMMA TextStep ==
  ASSUME NEW w, Thread = {w}, TypeInv, TextInv, [Next]_binVars
  PROVE  TextInv'
<1>0. CallsOK
  BY Zenon DEF TypeInv
<1>1. ASSUME NEW t \in Thread, NEW r \in Request, Call(t, r)
      PROVE  TextInv'
  <2>1. Ready(fileContents', [Idle EXCEPT !.pc = "search", !.req = r])
    BY DEF Ready, Idle
  <2> QED
    BY <1>0, <1>1, <2>1, TextBecome, Zenon DEF Call
<1>2. ASSUME NEW t \in Thread, Finish(t)
      PROVE  TextInv'
  <2>1. Ready(fileContents', Idle)
    BY DEF Ready, Idle
  <2> QED
    BY <1>0, <1>2, <2>1, TextBecome, Zenon DEF Finish
<1>3. CASE Die
  BY <1>3, Zenon DEF Die, TextInv
<1>4. CASE Restart
  BY <1>4 DEF Restart, TextInv, Ready, Idle
<1>5. CASE UNCHANGED binVars
  BY <1>5, Zenon DEF binVars, TextInv
<1>6. ASSUME NEW t \in Thread, Step(t)
      PROVE  TextInv'
  <2>0. op[t] \in CallRecord /\ Ready(fileContents, op[t])
    BY <1>0, Zenon DEF CallsOK, TextInv
  <2>1. ASSUME NEW c, Become(t, c), Ready(fileContents', c)
        PROVE  TextInv'
    BY <1>0, <2>1, TextBecome, Zenon
  <2>2. CASE BadHash(t) \/ NotFound(t)
    <3>1. Throw(t)
      BY <2>2, Zenon DEF BadHash, NotFound
    <3> QED
      BY <2>0, <2>1, <3>1, TextMoves, Zenon DEF Throw
  <2>3. CASE Found(t)
    <3>1. PICK hb \in HashBytes(op[t].req.hash), p \in Nat \ {0}, n \in Nat :
            /\ p \in FirstMatch(fileContents, hb)
            /\ Become(t, [op[t] EXCEPT !.pc = "erase", !.findIdx = p,
                                       !.oldTotalSize = n,
                                       !.newEntry = NewEntry(hb, op[t].req)])
      BY <2>3, FoundPlace, Zenon
    <3>2. fileContents' = fileContents
      BY <2>3, Zenon DEF Found
    <3> QED
      BY <2>0, <2>1, <3>1, <3>2, FoundReady, Zenon
  <2>4. CASE EraseOld(t)
    <3>1. Become(t, [op[t] EXCEPT !.pc = "insert"])
      BY <2>4, Zenon DEF EraseOld, Goto
    <3>2. Ready(fileContents', [op[t] EXCEPT !.pc = "insert"])
      BY <2>4, EraseReady
    <3> QED
      BY <2>1, <3>1, <3>2, Zenon
  <2>5. CASE ErasePastEnd(t)
    <3>1. CASE Die
      BY <1>3, <3>1
    <3>2. CASE ~ Die
      <4>1. /\ Become(t, [op[t] EXCEPT !.pc = "insert"])
            /\ At(t, "erase") /\ Overshoot(t) > 0
            /\ op[t].findIdx - 1 >= Overshoot(t)
            /\ fileContents' =
                 SubSeq(fileContents, 1, op[t].findIdx - 1 - Overshoot(t))
        BY <2>5, <3>2, Zenon DEF ErasePastEnd, Goto
      <4> QED
        BY <2>1, <4>1, CutReady, Zenon
    <3> QED
      BY <3>1, <3>2
  <2>6. CASE InsertNew(t)
    <3>1. Become(t, [op[t] EXCEPT !.pc = "open"])
      BY <2>6, Zenon DEF InsertNew, Goto
    <3> QED
      BY <2>1, <2>6, <3>1, InsertReady, Zenon
  <2>7. CASE InsertPastEnd(t)
    <3>1. CASE Die
      BY <1>3, <3>1
    <3>2. CASE ~ Die
      BY <2>1, <2>7, <3>2, StrayReady, Zenon
    <3> QED
      BY <3>1, <3>2
  <2>8. CASE OpenOutput(t)
    <3>1. /\ op[t].pc = "open" /\ fileContents' = fileContents
          /\ Become(t, [op[t] EXCEPT !.pc = "fetch"])
      BY <2>8, Zenon DEF OpenOutput, Goto, At
    <3> QED
      BY <2>0, <2>1, <3>1, TextMoves, Zenon
  <2>9. CASE FetchOutput(t)
    <3>1. /\ op[t].pc = "fetch" /\ fileContents' = fileContents
          /\ Become(t, [op[t] EXCEPT !.pc = "write", !.output = fileContents])
      BY <2>9, Zenon DEF FetchOutput, At
    <3> QED
      BY <2>0, <2>1, <3>1, TextMoves, Zenon
  <2>10. CASE OpenFails(t) \/ WriteOutput(t) \/ WriteFails(t)
    <3>1. /\ op[t].pc \in {"open", "write"} /\ fileContents' = fileContents
          /\ \/ Become(t, [op[t] EXCEPT !.pc = "done", !.ok = TRUE])
             \/ Become(t, [op[t] EXCEPT !.pc = "done", !.output = << >>,
                                        !.ok = TRUE])
      BY <2>10, Zenon DEF OpenFails, WriteOutput, WriteFails, Return, Saved, At
    <3> QED
      BY <2>0, <2>1, <3>1, TextMoves, Zenon
  <2> QED
    BY <1>6, <2>2, <2>3, <2>4, <2>5, <2>6, <2>7, <2>8, <2>9, <2>10, Zenon DEF Step
<1> QED
  BY <1>1, <1>2, <1>3, <1>4, <1>5, <1>6, NextCases, Zenon DEF Crash

\* A single worker's updateEntry leaves a vector from which what was stored of
\* the text reads back, under the hash it was asked for: for every file, in
\* entries or not, whatever the old length field said, however long the text,
\* and through failing saves and restarts.  Only where the old entry reached
\* past the end of the vector, and so the new one was inserted behind it, is
\* there nothing to say.
THEOREM TextsReadBack ==
  ASSUME NEW w, Thread = {w}
  PROVE  Spec => []VariableLength
<1>1. Init => TypeInv /\ TextInv
  <2>1. Init => TextInv
    BY DEF Init, TextInv, Ready, Idle
  <2> QED
    BY <2>1, TypeInit
<1>2. TypeInv /\ TextInv /\ [Next]_binVars => TypeInv' /\ TextInv'
  BY TypeStep, TextStep, Zenon
<1>3. TypeInv /\ TextInv => VariableLength
  <2> SUFFICES ASSUME TypeInv, TextInv, NEW t \in Thread,
                      op[t].pc = "done", op[t].ok, InFull(fileContents, op[t])
               PROVE  \E hb \in HashBytes(op[t].req.hash) :
                        getTextByHash(fileContents, hb)
                          = {StoredText(op[t].req.text)}
    BY Zenon DEF VariableLength, InFull
  <2>1. StoredThere(fileContents, op[t].req)
    BY DEF TextInv, Ready, TypeInv, CallsOK, CallRecord
  <2> QED
    BY <2>1, TextOfEntry, Zenon
<1> QED
  BY <1>1, <1>2, <1>3, PTL DEF Spec

-----------------------------------------------------------------------------
(* Files that are tables.                                                  *)

\* The bytes are those of the entries of t, one behind the other: entry i
\* begins at s[i].
LaidOut(bytes, t, s) ==
  /\ bytes \in Seq(Byte) /\ t \in Seq(Known)
  /\ s \in [1 .. Len(t) + 1 -> Nat \ {0}]
  /\ s[1] = 1 /\ s[Len(t) + 1] = Len(bytes) + 1
  /\ \A i \in 1 .. Len(t) : /\ s[i + 1] = s[i] + Len(Image(t[i]))
                            /\ Lies(bytes, s[i], Image(t[i]))

LEMMA KnownEntry ==
  ASSUME ProperFile, NEW e \in Known
  PROVE  EntryBytes(e.hash, e) /\ e = EntryOf(e.hash, e) /\ Len(e.text) < LenMod
<1>1. WellFormed(e)
  BY Zenon DEF ProperFile
<1> QED
  BY <1>1 DEF WellFormed, EntryBytes, EntryOf

LEMMA ImageProperties ==
  ASSUME ProperFile, NEW e \in Known
  PROVE  /\ Image(e) \in Seq(Byte) /\ Len(Image(e)) \in Nat
         /\ Len(Image(e)) >= HeaderLen
         /\ e.hash \in Seq(Byte) /\ Len(e.hash) = HashLen
         /\ \A i \in 1 .. HashLen : Image(e)[i] = e.hash[i]
<1>1. EntryBytes(e.hash, e)
  BY KnownEntry
<1>2. /\ Image(e) \in Seq(Byte) /\ Len(Image(e)) = HeaderLen + Len(e.text)
      /\ \A i \in 1 .. HashLen : Image(e)[i] = e.hash[i]
  <2>0. PICK hb : hb = e.hash
    OBVIOUS
  <2>1. EntryBytes(hb, e) /\ Image(e) = NewEntry(hb, e)
    BY <1>1, <2>0, Zenon DEF Image
  <2>2. /\ NewEntry(hb, e) \in Seq(Byte)
        /\ Len(NewEntry(hb, e)) = HeaderLen + Len(e.text)
    BY <2>1, NewEntryProperties, Zenon
  <2>3. \A i \in 1 .. HashLen : NewEntry(hb, e)[i] = hb[i]
    BY <2>1, NewEntryProperties, ZenonT(40)
  <2> QED
    BY <2>0, <2>1, <2>2, <2>3, Zenon
<1>3. Len(e.text) \in Nat
  BY <1>1, LenProperties, Zenon DEF EntryBytes
<1>4. e.hash \in Seq(Byte) /\ Len(e.hash) = HashLen
  BY <1>1, Zenon DEF EntryBytes
<1> QED
  BY <1>2, <1>3, <1>4, HeaderIsNat

LEMMA EntryOfTable ==
  ASSUME ProperFile, NEW bytes, NEW t, NEW s, LaidOut(bytes, t, s),
         NEW i \in 1 .. Len(t)
  PROVE  /\ t[i] \in Known
         /\ s[i] \in Nat \ {0} /\ s[i + 1] = s[i] + Len(Image(t[i]))
         /\ Lies(bytes, s[i], Image(t[i]))
         /\ HasLength(bytes, s[i])
         /\ OldTotalSize(bytes, s[i]) = Len(Image(t[i]))
         /\ EntryAt(bytes, s[i]) = t[i]
<1>1. Len(t) \in Nat /\ i \in 1 .. Len(t) + 1
  BY LenProperties DEF LaidOut
<1>2. t[i] \in Known /\ s[i] \in Nat \ {0}
  BY <1>1, ElementOfSeq DEF LaidOut
<1>4. /\ s[i + 1] = s[i] + Len(Image(t[i])) /\ Lies(bytes, s[i], Image(t[i]))
  BY Zenon DEF LaidOut
<1>5. PICK hb, e, p : hb = t[i].hash /\ e = t[i] /\ p = s[i]
  OBVIOUS
<1>3. EntryBytes(hb, e) /\ Len(e.text) < LenMod
  BY <1>2, <1>5, KnownEntry, Zenon
<1>8. e = EntryOf(hb, e)
  BY <1>2, <1>5, KnownEntry, Zenon
<1>6. Lies(bytes, p, NewEntry(hb, e)) /\ Image(t[i]) = NewEntry(hb, e)
  BY <1>4, <1>5, Zenon DEF Image
<1>7. /\ HasLength(bytes, p)
      /\ OldTotalSize(bytes, p) = Len(NewEntry(hb, e))
      /\ EntryAt(bytes, p) = EntryOf(hb, e)
  BY <1>3, <1>6, EntryRead, Zenon
<1> QED
  BY <1>2, <1>4, <1>5, <1>6, <1>7, <1>8, Zenon

\* Entries come in their order.
LEMMA Rising ==
  ASSUME ProperFile, NEW bytes, NEW t, NEW s, LaidOut(bytes, t, s)
  PROVE  \A j \in 1 .. Len(t) + 1 : \A i \in 1 .. j : s[i] <= s[j]
<1>0. Len(t) \in Nat
  BY LenProperties DEF LaidOut
<1> DEFINE T == { m \in Nat : m <= Len(t) =>
                     \A i \in 1 .. m + 1 : s[i] <= s[m + 1] }
<1>1. 0 \in T
  BY <1>0 DEF LaidOut
<1>2. ASSUME NEW m \in T
      PROVE  m + 1 \in T
  <2> SUFFICES ASSUME m + 1 <= Len(t), NEW i \in 1 .. m + 2
               PROVE  s[i] <= s[m + 2]
    BY <1>0
  <2>1. m + 1 \in 1 .. Len(t) /\ m + 1 \in 1 .. Len(t) + 1
        /\ m + 2 \in 1 .. Len(t) + 1 /\ i \in 1 .. Len(t) + 1 /\ m + 1 + 1 = m + 2
    BY <1>0
  <2>2. s[m + 1] \in Nat /\ s[m + 2] \in Nat /\ s[i] \in Nat
    BY <2>1 DEF LaidOut
  <2>3. s[m + 2] = s[m + 1] + Len(Image(t[m + 1])) /\ Len(Image(t[m + 1])) \in Nat
    BY <2>1, EntryOfTable, ImageProperties
  <2>4. CASE i = m + 2
    BY <2>2, <2>4
  <2>5. CASE i # m + 2
    <3>1. s[i] <= s[m + 1]
      BY <1>0, <2>5
    <3> QED
      BY <2>2, <2>3, <3>1
  <2> QED
    BY <2>4, <2>5
<1>3. T = Nat
  <2>1. T \in SUBSET Nat
    OBVIOUS
  <2> HIDE DEF T
  <2> QED
    BY <1>1, <1>2, <2>1, Induction, Zenon
<1> SUFFICES ASSUME NEW j \in 1 .. Len(t) + 1, NEW i \in 1 .. j
             PROVE  s[i] <= s[j]
  OBVIOUS
<1>4. j - 1 \in T
  <2> HIDE DEF T
  <2> QED
    BY <1>0, <1>3
<1> QED
  BY <1>0, <1>4

\* Every byte belongs to an entry.
LEMMA Covering ==
  ASSUME ProperFile, NEW bytes, NEW t, NEW s, LaidOut(bytes, t, s),
         NEW p \in 1 .. Len(bytes)
  PROVE  \E i \in 1 .. Len(t) : s[i] <= p /\ p < s[i + 1]
<1>0. /\ Len(t) \in Nat /\ Len(bytes) \in Nat
      /\ s \in [1 .. Len(t) + 1 -> Nat \ {0}]
      /\ s[1] = 1 /\ s[Len(t) + 1] = Len(bytes) + 1
  BY LenProperties DEF LaidOut
<1> DEFINE T == { m \in Nat : m <= Len(t) /\ p < s[m + 1] }
<1>1. Len(t) \in T
  BY <1>0
<1>2. PICK m \in T : \A n \in T : m <= n
  <2>1. T \in SUBSET Nat /\ T # {}
    BY <1>1
  <2> HIDE DEF T
  <2> QED
    BY <2>1, LeastNat, Zenon
<1>3. m # 0
  BY <1>0, <1>2
<1>4. m - 1 \in Nat /\ m - 1 <= Len(t) /\ ~ (m - 1 \in T) /\ m - 1 + 1 = m
  <2>1. m \in Nat /\ m <= Len(t)
    OBVIOUS
  <2>2. ASSUME m - 1 \in T
        PROVE  FALSE
    <3>1. m <= m - 1
      BY <1>2, <2>2
    <3> QED
      BY <2>1, <3>1
  <2> QED
    BY <1>0, <1>3, <2>1, <2>2
<1>5. m \in 1 .. Len(t) /\ m \in 1 .. Len(t) + 1 /\ p < s[m + 1]
  BY <1>0, <1>2, <1>3
<1>6. s[m] <= p
  BY <1>0, <1>4, <1>5
<1> QED
  BY <1>5, <1>6

\* What the search finds in an entry, or across its end, is its beginning.
LEMMA AlignedInPair ==
  ASSUME ProperFile, NEW bytes, NEW d \in Known, NEW e \in Known,
         NEW a \in Nat \ {0}, Lies(bytes, a, Image(d)),
         NEW c, c = a + Len(Image(d)), c = Len(bytes) + 1 \/ Lies(bytes, c, Image(e)),
         NEW r \in Searchable, NEW hb \in HashBytes(r.hash),
         NEW p \in Matches(bytes, hb), a <= p, p < c
  PROVE  p = a /\ d.hash = hb
<1> DEFINE both == Image(d) \o Image(e)
<1>0. bytes \in Seq(Byte) /\ Len(bytes) \in Nat
  BY LenProperties DEF Lies
<1>1. hb \in Seq(Byte) /\ Len(hb) = HashLen
  BY RequestAssumption, HashBytesType DEF Searchable
<1>2. /\ p \in Nat /\ p + HashLen - 1 <= Len(bytes)
      /\ \A k \in 1 .. HashLen : bytes[p + k - 1] = hb[k]
  BY <1>0, <1>1, HeaderIsNat DEF Matches
<1>3. PICK l : l = Len(Image(d))
  OBVIOUS
<1>4. PICK m : m = Len(Image(e))
  OBVIOUS
<1>5. /\ Image(d) \in Seq(Byte) /\ l \in Nat /\ l >= HeaderLen
      /\ d.hash \in Seq(Byte) /\ Len(d.hash) = HashLen
      /\ \A k \in 1 .. HashLen : Image(d)[k] = d.hash[k]
  BY <1>3, ImageProperties
<1>6. Image(e) \in Seq(Byte) /\ m \in Nat /\ m >= HeaderLen
  BY <1>4, ImageProperties
<1>7. /\ Len(both) = l + m
      /\ \A k \in 1 .. l : both[k] = Image(d)[k]
      /\ \A k \in 1 .. m : both[l + k] = Image(e)[k]
  BY <1>3, <1>4, <1>5, <1>6, Joined
<1>8. \A k \in 1 .. l : bytes[a + k - 1] = Image(d)[k]
  BY <1>3, Zenon DEF Lies
<1>9. c = Len(bytes) + 1 \/ \A k \in 1 .. m : bytes[c + k - 1] = Image(e)[k]
  BY <1>4, Zenon DEF Lies
<1> HIDE DEF both
<1>10. PICK q \in 1 .. l : q = p - a + 1
  BY <1>2, <1>3, <1>5
<1>11. HashLen \in Nat /\ 1 <= HashLen /\ HashLen <= HeaderLen /\ HeaderLen \in Nat
  BY HeaderIsNat
<1>12. ASSUME NEW k \in 1 .. HashLen
       PROVE  both[q + k - 1] = hb[k]
  <2>1. PICK x \in Nat : x = q + k - 1
    BY <1>5, <1>10, <1>11
  <2>2. p + k - 1 = a + x - 1
    BY <1>2, <1>5, <1>10, <1>11, <2>1
  <2>3. bytes[a + x - 1] = hb[k]
    BY <1>2, <2>2
  <2>4. CASE x <= l
    <3>1. x \in 1 .. l
      BY <1>5, <1>10, <1>11, <2>1, <2>4
    <3> QED
      BY <1>7, <1>8, <2>1, <2>3, <3>1
  <2>5. CASE x > l
    <3>1. PICK y \in Nat : y = x - l
      BY <1>5, <2>1, <2>5
    <3>4. c = a + l
      BY <1>3
    <3>0. /\ l \in Nat /\ a \in Nat /\ q \in Nat /\ k \in Nat
          /\ x = q + k - 1 /\ x > l /\ y = x - l
      BY <1>5, <1>10, <1>11, <2>1, <2>5, <3>1
    <3>7. y >= 1 /\ l + y = q + k - 1
      BY <3>0
    <3>5. c + y - 1 = a + x - 1
      BY <3>0, <3>4
    <3>6. y <= m
      BY <1>5, <1>6, <1>10, <1>11, <2>1, <3>1, SMTT(30)
    <3>2. y \in 1 .. m /\ l + y = q + k - 1 /\ c + y - 1 = a + x - 1
      BY <1>6, <3>1, <3>5, <3>6, <3>7
    <3>3. c # Len(bytes) + 1
      BY <1>0, <1>2, <1>3, <1>5, <1>11, <2>1, <2>2, <2>5
    <3> QED
      BY <1>7, <1>9, <2>3, <3>2, <3>3, SMTT(30)
  <2> QED
    BY <1>5, <2>1, <2>4, <2>5
<1>13. q \in Matches(both, hb)
  <2>1. q \in 1 .. Len(both) - Len(hb) + 1
    BY <1>1, <1>5, <1>6, <1>7, <1>10, <1>11
  <2> QED
    BY <1>1, <1>12, <2>1 DEF Matches
<1>14. q \in {1, l + 1}
  BY <1>3, <1>13, Zenon DEF ProperFile, Unambiguous, both
<1>15. q = 1 /\ p = a
  BY <1>2, <1>5, <1>10, <1>14
<1>16. ASSUME NEW k \in 1 .. HashLen
       PROVE  d.hash[k] = hb[k]
  <2>1. q + k - 1 = k /\ k \in 1 .. l
    BY <1>5, <1>11, <1>15
  <2> QED
    BY <1>5, <1>7, <1>12, <2>1
<1> QED
  BY <1>1, <1>5, <1>15, <1>16, SeqEqual

LEMMA Aligned ==
  ASSUME ProperFile, NEW bytes, NEW t, NEW s, LaidOut(bytes, t, s),
         NEW r \in Searchable, NEW hb \in HashBytes(r.hash),
         NEW p \in Matches(bytes, hb)
  PROVE  \E i \in 1 .. Len(t) : p = s[i] /\ t[i].hash = hb
<1>0. /\ bytes \in Seq(Byte) /\ Len(bytes) \in Nat /\ Len(t) \in Nat
      /\ s[Len(t) + 1] = Len(bytes) + 1
  BY LenProperties DEF LaidOut
<1>1. hb \in Seq(Byte) /\ Len(hb) = HashLen
  BY RequestAssumption, HashBytesType DEF Searchable
<1>2. p \in 1 .. Len(bytes)
  BY <1>0, <1>1, HeaderIsNat DEF Matches
<1>3. PICK i \in 1 .. Len(t) : s[i] <= p /\ p < s[i + 1]
  BY <1>2, Covering
<1>4. PICK a, c, d : a = s[i] /\ c = s[i + 1] /\ d = t[i]
  OBVIOUS
<1>9. /\ t[i] \in Known /\ s[i] \in Nat \ {0}
      /\ s[i + 1] = s[i] + Len(Image(t[i])) /\ Lies(bytes, s[i], Image(t[i]))
  BY EntryOfTable
<1>5. /\ d \in Known /\ a \in Nat \ {0} /\ c = a + Len(Image(d))
      /\ Lies(bytes, a, Image(d))
  BY <1>4, <1>9
<1>6. \E e \in Known : c = Len(bytes) + 1 \/ Lies(bytes, c, Image(e))
  <2>1. CASE i < Len(t)
    <3>1. i + 1 \in 1 .. Len(t)
      BY <1>0, <2>1
    <3> QED
      BY <1>4, <3>1, EntryOfTable, Zenon
  <2>2. CASE i = Len(t)
    BY <1>0, <1>4, <1>5, <2>2
  <2> QED
    BY <1>0, <2>1, <2>2
<1>7. PICK e \in Known : c = Len(bytes) + 1 \/ Lies(bytes, c, Image(e))
  BY <1>6
<1>8. p = a /\ d.hash = hb
  <2>1. a <= p /\ p < c
    BY <1>3, <1>4
  <2> QED
    BY <1>5, <1>7, <2>1, AlignedInPair
<1> QED
  BY <1>4, <1>8

LEMMA EntryMatches ==
  ASSUME ProperFile, NEW bytes, NEW t, NEW s, LaidOut(bytes, t, s),
         NEW i \in 1 .. Len(t)
  PROVE  s[i] \in Matches(bytes, t[i].hash)
<1>0. bytes \in Seq(Byte) /\ Len(bytes) \in Nat
  BY LenProperties DEF LaidOut
<1> DEFINE e == t[i]
           p == s[i]
<1>1. e \in Known /\ p \in Nat \ {0} /\ Lies(bytes, p, Image(e))
  BY EntryOfTable, Zenon
<1> HIDE DEF e, p
<1>2. /\ Len(Image(e)) \in Nat /\ Len(Image(e)) >= HeaderLen
      /\ Len(e.hash) = HashLen
      /\ \A k \in 1 .. HashLen : Image(e)[k] = e.hash[k]
  BY <1>1, ImageProperties
<1>3. /\ p + Len(Image(e)) - 1 <= Len(bytes)
      /\ \A k \in 1 .. Len(Image(e)) : bytes[p + k - 1] = Image(e)[k]
  BY <1>1, Zenon DEF Lies
<1>4. p \in 1 .. Len(bytes) - Len(e.hash) + 1
  BY <1>0, <1>1, <1>2, <1>3, HeaderIsNat
<1>5. ASSUME NEW k \in 1 .. Len(e.hash)
      PROVE  bytes[p + k - 1] = e.hash[k]
  <2>1. k \in 1 .. Len(Image(e)) /\ k \in 1 .. HashLen
    BY <1>2, HeaderIsNat
  <2> QED
    BY <1>2, <1>3, <2>1
<1> QED
  BY <1>4, <1>5 DEF Matches, e, p

\* FirstMatch in the file is FirstWith in the table.
LEMMA FirstOfTable ==
  ASSUME ProperFile, NEW bytes, NEW t, NEW s, LaidOut(bytes, t, s),
         NEW r \in Searchable, NEW hb \in HashBytes(r.hash),
         NEW p \in FirstMatch(bytes, hb)
  PROVE  \E i \in 1 .. Len(t) : /\ p = s[i] /\ t[i].hash = hb
                                /\ \A j \in 1 .. i - 1 : t[j].hash # hb
<1>0. Len(t) \in Nat /\ s \in [1 .. Len(t) + 1 -> Nat \ {0}]
  BY LenProperties DEF LaidOut
<1>1. p \in Matches(bytes, hb) /\ \A q \in Matches(bytes, hb) : p <= q
  BY DEF FirstMatch
<1>2. PICK i \in 1 .. Len(t) : p = s[i] /\ t[i].hash = hb
  BY <1>1, Aligned
<1>3. ASSUME NEW j \in 1 .. i - 1, t[j].hash = hb
      PROVE  FALSE
  <2>1. j \in 1 .. Len(t) /\ j + 1 \in 1 .. i /\ i \in 1 .. Len(t) + 1
    BY <1>0
  <2>2. p <= s[j]
    BY <1>1, <1>3, <2>1, EntryMatches
  <2>3. s[j + 1] <= s[i]
    BY <2>1, Rising
  <2>4. /\ s[j] \in Nat /\ s[j + 1] = s[j] + Len(Image(t[j]))
        /\ Len(Image(t[j])) \in Nat /\ Len(Image(t[j])) >= HeaderLen
    BY <2>1, EntryOfTable, ImageProperties
  <2> QED
    BY <1>0, <1>2, <2>1, <2>2, <2>3, <2>4, HeaderIsNat
<1> QED
  BY <1>2, <1>3

\* What lies in a file still lies there after a change in front of it or
\* behind it.
LEMMA LiesStill ==
  ASSUME NEW bytes, NEW p \in Nat \ {0}, NEW n \in Nat, NEW new \in Seq(Byte),
         NEW after, bytes \in Seq(Byte), p + n - 1 <= Len(bytes),
         OnlyReplaced(bytes, p, n, new, after)
  PROVE  /\ Lies(after, p, new)
         /\ \A q, x : Lies(bytes, q, x) /\ q + Len(x) <= p => Lies(after, q, x)
         /\ \A q, x : Lies(bytes, q, x) /\ p + n <= q =>
              Lies(after, q - n + Len(new), x)
<1>1. /\ after \in Seq(Byte)
      /\ Len(after) = Len(bytes) - n + Len(new)
      /\ \A i \in 1 .. p - 1 : after[i] = bytes[i]
      /\ \A i \in 1 .. Len(new) : after[p + i - 1] = new[i]
      /\ \A i \in p + n .. Len(bytes) : after[i - n + Len(new)] = bytes[i]
  BY Zenon DEF OnlyReplaced
<1>2. PICK l : l = Len(bytes)
  OBVIOUS
<1>3. PICK m : m = Len(new)
  OBVIOUS
<1>4. l \in Nat /\ m \in Nat /\ Len(after) = l - n + m /\ p + n - 1 <= l
  BY <1>1, <1>2, <1>3, LenProperties
<1>5. Lies(after, p, new)
  BY <1>1, <1>3, <1>4, SMTT(30) DEF Lies
<1>6. ASSUME NEW q, NEW x, Lies(bytes, q, x)
      PROVE  /\ q \in Nat \ {0} /\ x \in Seq(Byte) /\ Len(x) \in Nat
             /\ q + Len(x) - 1 <= l
             /\ \A k \in 1 .. Len(x) : bytes[q + k - 1] = x[k]
  BY <1>2, <1>6, LenProperties DEF Lies
<1>7. ASSUME NEW q, NEW x, Lies(bytes, q, x), q + Len(x) <= p
      PROVE  Lies(after, q, x)
  <2>1. /\ q \in Nat \ {0} /\ x \in Seq(Byte) /\ Len(x) \in Nat
        /\ \A k \in 1 .. Len(x) : bytes[q + k - 1] = x[k]
    BY <1>6, <1>7
  <2>2. ASSUME NEW k \in 1 .. Len(x)
        PROVE  after[q + k - 1] = x[k]
    <3>1. q + k - 1 \in 1 .. p - 1
      BY <1>7, <2>1
    <3> QED
      BY <1>1, <2>1, <3>1
  <2>3. q + Len(x) - 1 <= Len(after)
    BY <1>4, <1>7, <2>1
  <2> QED
    BY <1>1, <2>1, <2>2, <2>3 DEF Lies
<1>8. ASSUME NEW q, NEW x, Lies(bytes, q, x), p + n <= q
      PROVE  Lies(after, q - n + m, x)
  <2>1. /\ q \in Nat \ {0} /\ x \in Seq(Byte) /\ Len(x) \in Nat
        /\ q + Len(x) - 1 <= l
        /\ \A k \in 1 .. Len(x) : bytes[q + k - 1] = x[k]
    BY <1>6, <1>8
  <2>2. ASSUME NEW k \in 1 .. Len(x)
        PROVE  after[q - n + m + k - 1] = x[k]
    <3>1. PICK y : y = q + k - 1
      OBVIOUS
    <3>2. y \in p + n .. l /\ y - n + m = q - n + m + k - 1
      BY <1>4, <1>8, <2>1, <3>1
    <3>3. after[y - n + m] = bytes[y]
      BY <1>1, <1>2, <1>3, <3>2, Zenon
    <3> QED
      BY <2>1, <3>1, <3>2, <3>3
  <2>3. /\ q - n + m \in Nat \ {0} /\ q - n + m + Len(x) - 1 <= Len(after)
    <3>1. PICK k : k = Len(x)
      OBVIOUS
    <3>2. k \in Nat /\ q + k - 1 <= l /\ q \in Nat
      BY <2>1, <3>1
    <3>3. q - n + m \in Nat \ {0} /\ q - n + m + k - 1 <= l - n + m
      BY <1>4, <1>8, <3>2
    <3> QED
      BY <1>4, <3>1, <3>3
  <2> QED
    BY <1>1, <2>1, <2>2, <2>3 DEF Lies
<1> QED
  BY <1>3, <1>5, <1>7, <1>8

\* An update in the file is an update of the table.
LEMMA ReplaceEntry ==
  ASSUME ProperFile, NEW bytes, NEW t, NEW s, LaidOut(bytes, t, s),
         NEW i \in 1 .. Len(t), NEW e \in Known
  PROVE  \E z : LaidOut(Replaced(bytes, s[i], Len(Image(t[i])), Image(e)),
                        [t EXCEPT ![i] = e], z)
<1> DEFINE after == Replaced(bytes, s[i], Len(Image(t[i])), Image(e))
           u == [t EXCEPT ![i] = e]
<1>0. /\ bytes \in Seq(Byte) /\ Len(bytes) \in Nat
      /\ t \in Seq(Known) /\ Len(t) \in Nat
      /\ s \in [1 .. Len(t) + 1 -> Nat \ {0}]
      /\ s[1] = 1 /\ s[Len(t) + 1] = Len(bytes) + 1
  BY LenProperties DEF LaidOut
<1>1. PICK p : p = s[i]
  OBVIOUS
<1>2. PICK n : n = Len(Image(t[i]))
  OBVIOUS
<1>3. PICK m : m = Len(Image(e))
  OBVIOUS
<1>4. /\ p \in Nat \ {0} /\ n \in Nat /\ m \in Nat /\ Image(e) \in Seq(Byte)
      /\ s[i + 1] = p + n /\ p + n - 1 <= Len(bytes)
  <2>1. /\ t[i] \in Known /\ s[i] \in Nat \ {0}
        /\ s[i + 1] = s[i] + Len(Image(t[i])) /\ Lies(bytes, s[i], Image(t[i]))
    BY EntryOfTable
  <2>2. Len(Image(t[i])) \in Nat
    BY <2>1, ImageProperties
  <2>3. s[i] + Len(Image(t[i])) - 1 <= Len(bytes)
    BY <2>1, Zenon DEF Lies
  <2> QED
    BY <1>1, <1>2, <1>3, <2>1, <2>2, <2>3, ImageProperties
<1>5. OnlyReplaced(bytes, p, n, Image(e), after)
  BY <1>0, <1>1, <1>2, <1>4, RestUntouched
<1> HIDE DEF after
<1>6. /\ Lies(after, p, Image(e))
      /\ \A q, x : Lies(bytes, q, x) /\ q + Len(x) <= p => Lies(after, q, x)
      /\ \A q, x : Lies(bytes, q, x) /\ p + n <= q => Lies(after, q - n + m, x)
  BY <1>0, <1>3, <1>4, <1>5, LiesStill
<1>7. after \in Seq(Byte) /\ Len(after) = Len(bytes) - n + m
  BY <1>3, <1>5 DEF OnlyReplaced
<1>8. /\ u \in Seq(Known) /\ Len(u) = Len(t)
      /\ \A j \in 1 .. Len(t) : u[j] = IF j = i THEN e ELSE t[j]
  BY <1>0, ExceptSeq
<1> HIDE DEF u
<1> DEFINE z == [j \in 1 .. Len(t) + 1 |-> IF j <= i THEN s[j] ELSE s[j] - n + m]
<1>9. \A j \in 1 .. Len(t) + 1 : i < j => s[j] >= p + n
  <2>1. ASSUME NEW j \in 1 .. Len(t) + 1, i < j
        PROVE  s[j] >= p + n
    <3>1. i + 1 \in 1 .. j
      BY <1>0, <2>1
    <3>2. s[i + 1] <= s[j]
      BY <3>1, Rising
    <3> QED
      BY <1>0, <1>4, <3>2
  <2> QED
    BY <2>1
<1>10. \A j \in 1 .. Len(t) + 1 : s[j] \in Nat \ {0}
  BY <1>0
<1>11. z \in [1 .. Len(t) + 1 -> Nat \ {0}]
  BY <1>4, <1>9, <1>10, SMTT(30)
<1>12. z[1] = 1 /\ z[Len(t) + 1] = Len(after) + 1
  BY <1>0, <1>4, <1>7
<1>13. ASSUME NEW j \in 1 .. Len(t)
       PROVE  z[j + 1] = z[j] + Len(Image(u[j])) /\ Lies(after, z[j], Image(u[j]))
  <2>1. /\ t[j] \in Known /\ s[j] \in Nat \ {0} /\ Lies(bytes, s[j], Image(t[j]))
        /\ s[j + 1] = s[j] + Len(Image(t[j]))
    BY EntryOfTable
  <2>2. Len(Image(t[j])) \in Nat
    BY <2>1, ImageProperties
  <2>3. j \in 1 .. Len(t) + 1 /\ j + 1 \in 1 .. Len(t) + 1
    BY <1>0
  <2>4. CASE j = i
    <3>1. u[j] = e /\ z[j] = p /\ z[j + 1] = p + n - n + m
      BY <1>1, <1>4, <1>8, <2>3, <2>4, SMTT(30)
    <3>2. p + n - n + m = p + m
      BY <1>4
    <3> QED
      BY <1>3, <1>6, <3>1, <3>2
  <2>5. CASE j < i
    <3>1. u[j] = t[j] /\ z[j] = s[j] /\ z[j + 1] = s[j + 1]
      BY <1>0, <1>8, <2>3, <2>5
    <3>2. s[j + 1] <= p
      <4>1. j + 1 \in 1 .. i /\ i \in 1 .. Len(t) + 1
        BY <1>0, <2>5
      <4> QED
        BY <1>1, <4>1, Rising
    <3> QED
      BY <1>6, <2>1, <3>1, <3>2
  <2>6. CASE j > i
    <3>1. u[j] = t[j] /\ z[j] = s[j] - n + m /\ z[j + 1] = s[j + 1] - n + m
      BY <1>0, <1>8, <2>3, <2>6
    <3>2. p + n <= s[j]
      BY <1>4, <1>9, <1>10, <2>3, <2>6
    <3>3. z[j + 1] = z[j] + Len(Image(u[j]))
      BY <1>4, <2>1, <2>2, <3>1, SMTT(30)
    <3> QED
      BY <1>6, <2>1, <3>1, <3>2, <3>3
  <2> QED
    BY <1>0, <2>4, <2>5, <2>6
<1> HIDE DEF z
<1>14. LaidOut(after, u, z)
  BY <1>7, <1>8, <1>11, <1>12, <1>13 DEF LaidOut
<1> QED
  BY <1>14 DEF after, u

\* The table without its i-th entry.
Without(t, i) == [j \in 1 .. Len(t) - 1 |-> IF j < i THEN t[j] ELSE t[j + 1]]

\* Between the erase and the insert the file is a table too.
LEMMA RemoveEntry ==
  ASSUME ProperFile, NEW bytes, NEW t, NEW s, LaidOut(bytes, t, s),
         NEW i \in 1 .. Len(t)
  PROVE  \E z : LaidOut(Erase(bytes, s[i], Len(Image(t[i]))), Without(t, i), z)
<1> DEFINE after == Erase(bytes, s[i], Len(Image(t[i])))
           u == Without(t, i)
<1>0. /\ bytes \in Seq(Byte) /\ Len(bytes) \in Nat
      /\ t \in Seq(Known) /\ Len(t) \in Nat
      /\ s \in [1 .. Len(t) + 1 -> Nat \ {0}]
      /\ s[1] = 1 /\ s[Len(t) + 1] = Len(bytes) + 1
  BY LenProperties DEF LaidOut
<1>1. PICK p : p = s[i]
  OBVIOUS
<1>2. PICK n : n = Len(Image(t[i]))
  OBVIOUS
<1>4. /\ p \in Nat \ {0} /\ n \in Nat
      /\ s[i + 1] = p + n /\ p + n - 1 <= Len(bytes)
  <2>1. /\ t[i] \in Known /\ s[i] \in Nat \ {0}
        /\ s[i + 1] = s[i] + Len(Image(t[i])) /\ Lies(bytes, s[i], Image(t[i]))
    BY EntryOfTable
  <2>2. Len(Image(t[i])) \in Nat
    BY <2>1, ImageProperties
  <2>3. s[i] + Len(Image(t[i])) - 1 <= Len(bytes)
    BY <2>1, Zenon DEF Lies
  <2> QED
    BY <1>1, <1>2, <2>1, <2>2, <2>3
<1>3. << >> \in Seq(Byte) /\ Len(<< >>) = 0
  BY EmptySeq
<1>5. OnlyReplaced(bytes, p, n, << >>, after)
  <2>0. after = Erase(bytes, p, n)
    BY <1>1, <1>2, Zenon
  <2> HIDE DEF after
  <2>5. /\ Erase(bytes, p, n) \in Seq(Byte)
        /\ Len(Erase(bytes, p, n)) = Len(bytes) - n
        /\ \A k \in 1 .. p - 1 : Erase(bytes, p, n)[k] = bytes[k]
        /\ \A k \in p .. Len(bytes) - n : Erase(bytes, p, n)[k] = bytes[k + n]
    BY <1>0, <1>4, EraseProperties, Zenon
  <2>1. /\ after \in Seq(Byte) /\ Len(after) = Len(bytes) - n
        /\ \A k \in 1 .. p - 1 : after[k] = bytes[k]
        /\ \A k \in p .. Len(bytes) - n : after[k] = bytes[k + n]
    BY <2>0, <2>5, Zenon
  <2>2. ASSUME NEW k \in p + n .. Len(bytes)
        PROVE  after[k - n + 0] = bytes[k]
    <3>1. PICK x : x = k - n
      OBVIOUS
    <3>2. x \in p .. Len(bytes) - n /\ x + n = k /\ k - n + 0 = x
      BY <1>0, <1>4, <3>1
    <3> QED
      BY <2>1, <3>2
  <2>3. Len(after) = Len(bytes) - n + 0
    BY <1>0, <1>4, <2>1
  <2>4. \A k \in 1 .. 0 : after[p + k - 1] = << >>[k]
    OBVIOUS
  <2> QED
    BY <1>3, <2>1, <2>2, <2>3, <2>4 DEF OnlyReplaced
<1> HIDE DEF after
<1>6. /\ \A q, x : Lies(bytes, q, x) /\ q + Len(x) <= p => Lies(after, q, x)
      /\ \A q, x : Lies(bytes, q, x) /\ p + n <= q => Lies(after, q - n + 0, x)
  BY <1>0, <1>3, <1>4, <1>5, LiesStill
<1>7. after \in Seq(Byte) /\ Len(after) = Len(bytes) - n
  BY <1>0, <1>3, <1>4, <1>5 DEF OnlyReplaced
<1>8. /\ u \in Seq(Known) /\ Len(u) = Len(t) - 1
      /\ \A j \in 1 .. Len(t) - 1 : u[j] = IF j < i THEN t[j] ELSE t[j + 1]
  <2>1. \A j \in 1 .. Len(t) : t[j] \in Known
    BY <1>0, ElementOfSeq
  <2>2. u \in [1 .. Len(t) - 1 -> Known]
    BY <1>0, <2>1 DEF Without
  <2>3. Len(t) - 1 \in Nat
    BY <1>0
  <2>4. u \in Seq(Known) /\ Len(u) = Len(t) - 1
    <3> HIDE DEF u
    <3> QED
      BY <2>2, <2>3, FunctionIsSeq
  <2> QED
    BY <2>4 DEF Without
<1> HIDE DEF u
<1> DEFINE z == [j \in 1 .. Len(t) |-> IF j <= i THEN s[j] ELSE s[j + 1] - n]
<1>9. \A j \in 1 .. Len(t) + 1 : i < j => s[j] >= p + n
  <2>1. ASSUME NEW j \in 1 .. Len(t) + 1, i < j
        PROVE  s[j] >= p + n
    <3>1. i + 1 \in 1 .. j
      BY <1>0, <2>1
    <3>2. s[i + 1] <= s[j]
      BY <3>1, Rising
    <3> QED
      BY <1>0, <1>4, <3>2
  <2> QED
    BY <2>1
<1>10. \A j \in 1 .. Len(t) + 1 : s[j] \in Nat \ {0}
  BY <1>0
<1>11. z \in [1 .. Len(t) -> Nat \ {0}]
  <2>1. ASSUME NEW j \in 1 .. Len(t)
        PROVE  (IF j <= i THEN s[j] ELSE s[j + 1] - n) \in Nat \ {0}
    <3>1. j \in 1 .. Len(t) + 1 /\ j + 1 \in 1 .. Len(t) + 1
      BY <1>0
    <3> QED
      BY <1>4, <1>9, <1>10, <3>1, SMTT(30)
  <2> QED
    BY <2>1
<1>12. z[1] = 1 /\ z[Len(t)] = Len(after) + 1
  <2>1. z[1] = s[1]
    BY <1>0
  <2>2. CASE i = Len(t)
    BY <1>0, <1>1, <1>4, <1>7, <2>1, <2>2, SMTT(30)
  <2>3. CASE i # Len(t)
    BY <1>0, <1>4, <1>7, <2>1, <2>3
  <2> QED
    BY <2>2, <2>3
<1>13. ASSUME NEW j \in 1 .. Len(t) - 1
       PROVE  z[j + 1] = z[j] + Len(Image(u[j])) /\ Lies(after, z[j], Image(u[j]))
  <2>0. j \in 1 .. Len(t) /\ j + 1 \in 1 .. Len(t)
    BY <1>0
  <2>5. CASE j < i
    <3>0. /\ t[j] \in Known /\ s[j] \in Nat \ {0} /\ Lies(bytes, s[j], Image(t[j]))
          /\ s[j + 1] = s[j] + Len(Image(t[j]))
      BY <2>0, EntryOfTable
    <3>1. u[j] = t[j] /\ z[j] = s[j] /\ z[j + 1] = s[j + 1]
      BY <1>0, <1>8, <2>0, <2>5
    <3>2. s[j + 1] <= p
      <4>1. j + 1 \in 1 .. i /\ i \in 1 .. Len(t) + 1
        BY <1>0, <2>5
      <4> QED
        BY <1>1, <4>1, Rising
    <3> QED
      BY <1>6, <3>0, <3>1, <3>2
  <2>6. CASE j >= i
    <3>0. /\ t[j + 1] \in Known /\ s[j + 1] \in Nat \ {0}
          /\ Lies(bytes, s[j + 1], Image(t[j + 1]))
          /\ s[j + 1 + 1] = s[j + 1] + Len(Image(t[j + 1]))
      BY <2>0, EntryOfTable
    <3>1. u[j] = t[j + 1]
      BY <1>0, <1>8, <2>0, <2>6
    <3>2. z[j] = s[j + 1] - n
      <4>1. CASE j = i
        BY <1>1, <1>4, <2>0, <4>1
      <4>2. CASE j # i
        BY <2>0, <2>6, <4>2
      <4> QED
        BY <4>1, <4>2
    <3>3. z[j + 1] = s[j + 1 + 1] - n
      BY <2>0, <2>6
    <3>4. p + n <= s[j + 1]
      <4>1. j + 1 \in 1 .. Len(t) + 1 /\ i < j + 1
        BY <1>0, <2>6
      <4> QED
        BY <1>4, <1>9, <1>10, <4>1
    <3>5. Len(Image(t[j + 1])) \in Nat /\ s[j + 1] - n + 0 = s[j + 1] - n
      BY <1>4, <3>0, ImageProperties
    <3>6. z[j + 1] = z[j] + Len(Image(u[j]))
      BY <1>4, <3>0, <3>1, <3>2, <3>3, <3>5
    <3> QED
      BY <1>6, <3>0, <3>1, <3>2, <3>4, <3>5, <3>6
  <2> QED
    BY <1>0, <2>5, <2>6
<1> HIDE DEF z
<1>14. LaidOut(after, u, z)
  <2>1. 1 .. Len(u) + 1 = 1 .. Len(t) /\ Len(u) + 1 = Len(t)
    BY <1>0, <1>8
  <2> QED
    BY <1>7, <1>8, <1>11, <1>12, <1>13, <2>1 DEF LaidOut
<1> QED
  BY <1>14 DEF after, u

\* An entry more at the end.
LEMMA AppendEntry ==
  ASSUME ProperFile, NEW bytes, NEW t, NEW s, LaidOut(bytes, t, s), NEW e \in Known
  PROVE  \E z : LaidOut(bytes \o Image(e), Append(t, e), z)
<1> DEFINE after == bytes \o Image(e)
           u == Append(t, e)
<1>0. /\ bytes \in Seq(Byte) /\ Len(bytes) \in Nat
      /\ t \in Seq(Known) /\ Len(t) \in Nat
      /\ s \in [1 .. Len(t) + 1 -> Nat \ {0}]
      /\ s[1] = 1 /\ s[Len(t) + 1] = Len(bytes) + 1
  BY LenProperties DEF LaidOut
<1>1. PICK m : m = Len(Image(e))
  OBVIOUS
<1>2. m \in Nat /\ Image(e) \in Seq(Byte)
  BY <1>1, ImageProperties
<1>3. /\ after \in Seq(Byte) /\ Len(after) = Len(bytes) + m
      /\ \A i \in 1 .. Len(bytes) : after[i] = bytes[i]
      /\ \A i \in 1 .. m : after[Len(bytes) + i] = Image(e)[i]
  BY <1>0, <1>1, <1>2, Joined
<1> HIDE DEF after
<1>4. ASSUME NEW q, NEW x, Lies(bytes, q, x)
      PROVE  Lies(after, q, x)
  <2>1. /\ q \in Nat \ {0} /\ x \in Seq(Byte) /\ Len(x) \in Nat
        /\ q + Len(x) - 1 <= Len(bytes)
        /\ \A k \in 1 .. Len(x) : bytes[q + k - 1] = x[k]
    BY <1>4, LenProperties DEF Lies
  <2>2. ASSUME NEW k \in 1 .. Len(x)
        PROVE  after[q + k - 1] = x[k]
    <3>1. q + k - 1 \in 1 .. Len(bytes)
      BY <1>0, <2>1
    <3> QED
      BY <1>3, <2>1, <3>1
  <2>3. q + Len(x) - 1 <= Len(after)
    BY <1>0, <1>2, <1>3, <2>1
  <2> QED
    BY <1>3, <2>1, <2>2, <2>3 DEF Lies
<1>5. Lies(after, Len(bytes) + 1, Image(e))
  <2>1. ASSUME NEW k \in 1 .. m
        PROVE  after[Len(bytes) + 1 + k - 1] = Image(e)[k]
    <3>1. Len(bytes) + 1 + k - 1 = Len(bytes) + k
      BY <1>0
    <3> QED
      BY <1>3, <3>1
  <2> QED
    BY <1>0, <1>1, <1>2, <1>3, <2>1, SMTT(30) DEF Lies
<1>6. /\ u \in Seq(Known) /\ Len(u) = Len(t) + 1
      /\ \A j \in 1 .. Len(t) : u[j] = t[j]
      /\ u[Len(t) + 1] = e
  BY <1>0, AppendProperties
<1> HIDE DEF u
<1> DEFINE z == [j \in 1 .. Len(t) + 2 |-> IF j <= Len(t) + 1 THEN s[j]
                                           ELSE Len(bytes) + 1 + m]
<1>7. z \in [1 .. Len(t) + 2 -> Nat \ {0}]
  <2>1. ASSUME NEW j \in 1 .. Len(t) + 2
        PROVE  (IF j <= Len(t) + 1 THEN s[j] ELSE Len(bytes) + 1 + m) \in Nat \ {0}
    <3>1. Len(bytes) + 1 + m \in Nat \ {0}
      BY <1>0, <1>2
    <3>2. j <= Len(t) + 1 => s[j] \in Nat \ {0}
      BY <1>0
    <3> QED
      BY <3>1, <3>2
  <2> QED
    BY <2>1
<1>8. /\ z[1] = 1 /\ z[Len(t) + 2] = Len(after) + 1
      /\ \A j \in 1 .. Len(t) + 1 : z[j] = s[j]
  BY <1>0, <1>2, <1>3
<1> HIDE DEF z
<1>9. ASSUME NEW j \in 1 .. Len(t) + 1
      PROVE  z[j + 1] = z[j] + Len(Image(u[j])) /\ Lies(after, z[j], Image(u[j]))
  <2>1. CASE j <= Len(t)
    <3>1. /\ Lies(bytes, s[j], Image(t[j])) /\ s[j + 1] = s[j] + Len(Image(t[j]))
      <4>1. PICK k \in 1 .. Len(t) : k = j
        BY <1>0, <2>1
      <4>2. /\ Lies(bytes, s[k], Image(t[k])) /\ s[k + 1] = s[k] + Len(Image(t[k]))
        BY EntryOfTable
      <4> QED
        BY <4>1, <4>2
    <3>2. z[j] = s[j] /\ z[j + 1] = s[j + 1] /\ u[j] = t[j]
      BY <1>0, <1>6, <1>8, <2>1
    <3> QED
      BY <1>4, <3>1, <3>2
  <2>2. CASE j = Len(t) + 1
    <3>1. z[j] = Len(bytes) + 1 /\ u[j] = e
      BY <1>0, <1>6, <1>8, <2>2
    <3>2. z[j + 1] = Len(bytes) + 1 + m
      <4>1. j + 1 = Len(t) + 2 /\ Len(bytes) + m + 1 = Len(bytes) + 1 + m
        BY <1>0, <1>2, <2>2
      <4> QED
        BY <1>3, <1>8, <4>1
    <3> QED
      BY <1>1, <1>5, <3>1, <3>2
  <2> QED
    BY <1>0, <2>1, <2>2
<1>10. LaidOut(after, u, z)
  <2>1. 1 .. Len(u) + 1 = 1 .. Len(t) + 2 /\ Len(u) + 1 = Len(t) + 2
    BY <1>0, <1>6
  <2> QED
    BY <1>3, <1>6, <1>7, <1>8, <1>9, <2>1 DEF LaidOut
<1> QED
  BY <1>10 DEF after, u

\* The walk of Decode from p on, when g is the walk from each later place.
NextEntry(bytes, p) == p + HeaderLen + StoredLength(bytes, p)

WalkFrom(bytes, g, p) ==
  IF p = Len(bytes) + 1 THEN << >>
  ELSE IF HasLength(bytes, p) /\ NextEntry(bytes, p) <= Len(bytes) + 1
       THEN << EntryAt(bytes, p) >> \o g[NextEntry(bytes, p)]
       ELSE << Torn >>

Walks(bytes, g, m) ==
  g = [p \in Len(bytes) + 1 - m .. Len(bytes) + 1 |-> WalkFrom(bytes, g, p)]

LEMMA WalkExists ==
  ASSUME NEW bytes \in Seq(Byte)
  PROVE  \E g : Walks(bytes, g, Len(bytes))
<1> DEFINE L == Len(bytes)
           T == { m \in Nat : m <= L => \E g : Walks(bytes, g, m) }
<1>0. L \in Nat
  BY LenProperties
<1>1. 0 \in T
  <2> DEFINE g == [p \in L + 1 - 0 .. L + 1 |-> << >>]
  <2>1. \A p \in L + 1 - 0 .. L + 1 : WalkFrom(bytes, g, p) = << >>
    BY <1>0 DEF WalkFrom
  <2>2. Walks(bytes, g, 0)
    BY <2>1 DEF Walks
  <2> QED
    BY <2>2
<1>2. ASSUME NEW m \in T
      PROVE  m + 1 \in T
  <2> SUFFICES ASSUME m + 1 <= L
               PROVE  \E h : Walks(bytes, h, m + 1)
    OBVIOUS
  <2>1. PICK g : Walks(bytes, g, m)
    BY <1>0
  <2>2. PICK a \in Nat : a = L - m /\ a >= 1
    BY <1>0
  <2>3. g = [p \in a + 1 .. L + 1 |-> WalkFrom(bytes, g, p)]
    <3>1. L + 1 - m = a + 1
      BY <1>0, <2>2
    <3> QED
      BY <2>1, <3>1 DEF Walks
  <2> DEFINE h == [p \in a .. L + 1 |-> IF p = a THEN WalkFrom(bytes, g, p) ELSE g[p]]
  <2>4. ASSUME NEW p \in a .. L + 1
        PROVE  WalkFrom(bytes, h, p) = WalkFrom(bytes, g, p)
    <3>1. ASSUME p # L + 1, HasLength(bytes, p), NextEntry(bytes, p) <= L + 1
          PROVE  h[NextEntry(bytes, p)] = g[NextEntry(bytes, p)]
      <4>1. StoredLength(bytes, p) \in Nat
        BY <1>0, <2>2, <3>1, StoredLengthType
      <4>2. PICK q : q = NextEntry(bytes, p)
        OBVIOUS
      <4>3. q \in a + 1 .. L + 1 /\ q \in a .. L + 1 /\ q # a
        BY <1>0, <2>2, <3>1, <4>1, <4>2, HeaderIsNat DEF NextEntry
      <4> QED
        BY <4>2, <4>3
    <3> HIDE DEF h
    <3> QED
      BY <3>1, Zenon DEF WalkFrom
  <2>5. ASSUME NEW p \in a .. L + 1
        PROVE  h[p] = WalkFrom(bytes, h, p)
    <3>1. CASE p = a
      BY <2>4, <3>1
    <3>2. CASE p # a
      <4>1. p \in a + 1 .. L + 1
        BY <1>0, <2>2, <3>2
      <4>2. h[p] = g[p]
        BY <3>2
      <4>3. g[p] = WalkFrom(bytes, g, p)
        BY <2>3, <4>1
      <4> QED
        BY <2>4, <4>2, <4>3
    <3> QED
      BY <3>1, <3>2
  <2>6. h = [p \in a .. L + 1 |-> WalkFrom(bytes, h, p)]
    BY <2>5
  <2>7. L + 1 - (m + 1) = a
    BY <1>0, <2>2
  <2>8. Walks(bytes, h, m + 1)
    BY <2>6, <2>7 DEF Walks
  <2> QED
    BY <2>8
<1>3. T = Nat
  <2>1. T \in SUBSET Nat
    OBVIOUS
  <2> HIDE DEF T
  <2> QED
    BY <1>1, <1>2, <2>1, Induction, Zenon
<1>4. L \in T
  BY <1>0, <1>3
<1> QED
  BY <1>0, <1>4

\* So Decode is such a walk.
LEMMA DecodeWalks ==
  ASSUME NEW bytes \in Seq(Byte)
  PROVE  \E g : /\ Decode(bytes) = g[1]
                /\ \A p \in 1 .. Len(bytes) + 1 : g[p] = WalkFrom(bytes, g, p)
<1> DEFINE next(p) == p + HeaderLen + StoredLength(bytes, p)
           G(g) == [p \in 1 .. Len(bytes) + 1 |->
                      IF p = Len(bytes) + 1 THEN << >>
                      ELSE IF HasLength(bytes, p) /\ next(p) <= Len(bytes) + 1
                           THEN << EntryAt(bytes, p) >> \o g[next(p)]
                           ELSE << Torn >>]
           from == CHOOSE g : g = G(g)
<1>1. Decode(bytes) = from[1]
  BY Zenon DEF Decode
<1>2. \A g : G(g) = [p \in 1 .. Len(bytes) + 1 |-> WalkFrom(bytes, g, p)]
  BY Zenon DEF WalkFrom, NextEntry
<1>3. Len(bytes) + 1 - Len(bytes) = 1
  BY LenProperties
<1>4. \E g : g = G(g)
  <2>1. PICK g : Walks(bytes, g, Len(bytes))
    BY WalkExists
  <2>2. g = [p \in 1 .. Len(bytes) + 1 |-> WalkFrom(bytes, g, p)]
    BY <1>3, <2>1 DEF Walks
  <2> HIDE DEF G
  <2> QED
    BY <1>2, <2>2, Zenon
<1>5. from = G(from)
  <2> HIDE DEF G
  <2> QED
    BY <1>4, Zenon
<1>6. from = [p \in 1 .. Len(bytes) + 1 |-> WalkFrom(bytes, from, p)]
  BY <1>2, <1>5, Zenon
<1> HIDE DEF from
<1>7. \A p \in 1 .. Len(bytes) + 1 : from[p] = WalkFrom(bytes, from, p)
  BY <1>6
<1> QED
  BY <1>1, <1>7, Zenon

\* The table is read back from its bytes.
LEMMA DecodeLaidOut ==
  ASSUME ProperFile, NEW bytes, NEW t, NEW s, LaidOut(bytes, t, s)
  PROVE  Decode(bytes) = t
<1>0. /\ bytes \in Seq(Byte) /\ Len(bytes) \in Nat
      /\ t \in Seq(Known) /\ Len(t) \in Nat
      /\ s \in [1 .. Len(t) + 1 -> Nat \ {0}]
      /\ s[1] = 1 /\ s[Len(t) + 1] = Len(bytes) + 1
  BY LenProperties DEF LaidOut
<1>1. PICK g : /\ Decode(bytes) = g[1]
               /\ \A p \in 1 .. Len(bytes) + 1 : g[p] = WalkFrom(bytes, g, p)
  BY <1>0, DecodeWalks
<1>8. PICK n : n = Len(t)
  OBVIOUS
<1>9. PICK l : l = Len(bytes)
  OBVIOUS
<1>10. /\ n \in Nat /\ l \in Nat /\ s \in [1 .. n + 1 -> Nat \ {0}]
       /\ s[1] = 1 /\ s[n + 1] = l + 1
  BY <1>0, <1>8, <1>9
<1> DEFINE T == { m \in Nat : m <= n => g[s[n + 1 - m]] = SubSeq(t, n + 1 - m, n) }
<1>2. 0 \in T
  <2>1. g[l + 1] = << >>
    <3>1. l + 1 \in 1 .. Len(bytes) + 1 /\ l + 1 = Len(bytes) + 1
      BY <1>9, <1>10
    <3> QED
      BY <1>1, <3>1, Zenon DEF WalkFrom
  <2>2. SubSeq(t, n + 1, n) = << >>
    BY <1>10, SubSeqEmpty
  <2>3. n + 1 - 0 = n + 1
    BY <1>10
  <2> QED
    BY <1>10, <2>1, <2>2, <2>3
<1>3. ASSUME NEW m \in T
      PROVE  m + 1 \in T
  <2>0. m \in Nat /\ (m <= n => g[s[n + 1 - m]] = SubSeq(t, n + 1 - m, n))
    OBVIOUS
  <2> SUFFICES ASSUME m + 1 <= n
               PROVE  g[s[n + 1 - (m + 1)]] = SubSeq(t, n + 1 - (m + 1), n)
    OBVIOUS
  <2> HIDE DEF T
  <2>1. PICK i : i = n - m
    OBVIOUS
  <2>2. i \in 1 .. n /\ n + 1 - (m + 1) = i /\ n + 1 - m = i + 1 /\ m <= n
    BY <1>10, <2>0, <2>1
  <2>3. g[s[i + 1]] = SubSeq(t, i + 1, n)
    BY <2>0, <2>2
  <2>13. i \in 1 .. Len(t)
    BY <1>8, <2>2
  <2>4. /\ t[i] \in Known /\ s[i] \in Nat \ {0}
        /\ s[i + 1] = s[i] + Len(Image(t[i])) /\ HasLength(bytes, s[i])
        /\ OldTotalSize(bytes, s[i]) = Len(Image(t[i]))
        /\ EntryAt(bytes, s[i]) = t[i]
    BY <2>13, EntryOfTable
  <2>5. Len(Image(t[i])) \in Nat /\ Len(Image(t[i])) >= HeaderLen
    BY <2>4, ImageProperties
  <2>7. s[i + 1] <= l + 1 /\ s[i + 1] \in Nat
    <3>1. n + 1 \in 1 .. Len(t) + 1 /\ i + 1 \in 1 .. n + 1
      BY <1>8, <1>10, <2>2
    <3>2. s[i + 1] <= s[n + 1]
      BY <3>1, Rising
    <3> QED
      BY <1>10, <3>1, <3>2
  <2>8. NextEntry(bytes, s[i]) = s[i + 1]
    <3>0. PICK p, k : p = s[i] /\ k = StoredLength(bytes, s[i])
      OBVIOUS
    <3>1. k \in Nat /\ p \in Nat
      BY <1>0, <2>4, <3>0, StoredLengthType
    <3>2. p + HeaderLen + k = p + (HeaderLen + k)
      BY <3>1, HeaderIsNat
    <3> QED
      BY <2>4, <3>0, <3>2 DEF NextEntry, OldTotalSize
  <2>9. s[i] \in 1 .. Len(bytes) + 1 /\ s[i] # Len(bytes) + 1
    BY <1>9, <1>10, <2>4, <2>5, <2>7, HeaderIsNat
  <2>14. s[i + 1] <= Len(bytes) + 1
    BY <1>9, <2>7
  <2>10. g[s[i]] = WalkFrom(bytes, g, s[i])
    BY <1>1, <2>9, Zenon
  <2>11. g[s[i]] = << t[i] >> \o g[s[i + 1]]
    BY <2>4, <2>8, <2>9, <2>10, <2>14, Zenon DEF WalkFrom
  <2>12. SubSeq(t, i, n) = << t[i] >> \o SubSeq(t, i + 1, n)
    BY <1>0, <1>8, <1>10, <2>13, SubSeqRecursiveFirst
  <2> QED
    BY <2>2, <2>3, <2>11, <2>12
<1>4. T = Nat
  <2>1. T \in SUBSET Nat
    OBVIOUS
  <2> HIDE DEF T
  <2> QED
    BY <1>2, <1>3, <2>1, Induction, Zenon
<1>5. n \in T
  BY <1>4, <1>10
<1>6. n + 1 - n = 1 /\ n <= n
  BY <1>10
<1>7. g[1] = SubSeq(t, 1, n)
  BY <1>5, <1>6, <1>10
<1> QED
  BY <1>0, <1>1, <1>7, <1>8, SubSeqFull

LEMMA EmptyFile == \E s : LaidOut(<< >>, << >>, s)
<1> DEFINE s == [i \in 1 .. 1 |-> 1]
<1>1. << >> \in Seq(Byte) /\ << >> \in Seq(Known) /\ Len(<< >>) = 0
  BY EmptySeq
<1>2. s \in [1 .. 1 -> Nat \ {0}] /\ s[1] = 1
  OBVIOUS
<1> HIDE DEF s
<1>3. LaidOut(<< >>, << >>, s)
  BY <1>1, <1>2 DEF LaidOut
<1> QED
  BY <1>3

\* The files of the first i entries.
LEMMA JoinExists ==
  ASSUME NEW n \in Nat, NEW F \in [1 .. n -> Seq(Byte)]
  PROVE  \E h : h = [i \in 0 .. n |-> IF i = 0 THEN << >> ELSE h[i - 1] \o F[i]]
<1> DEFINE S == Seq(Byte)
           f == [k \in Nat |-> [b \in S |-> IF k < n THEN b \o F[k + 1] ELSE b]]
<1>1. << >> \in S
  BY EmptySeq
<1>2. ASSUME NEW k \in Nat, NEW b \in S
      PROVE  (IF k < n THEN b \o F[k + 1] ELSE b) \in S
  <2>1. CASE k < n
    <3>1. F[k + 1] \in Seq(Byte)
      BY <2>1
    <3>2. b \o F[k + 1] \in Seq(Byte)
      BY <3>1, ConcatProperties
    <3> QED
      BY <2>1, <3>2
  <2>2. CASE ~ (k < n)
    BY <2>2
  <2> QED
    BY <2>1, <2>2
<1> HIDE DEF S
<1>3. f \in [Nat -> [S -> S]]
  BY <1>2
<1>6. \A k \in Nat : \A b \in S : k < n => f[k][b] = b \o F[k + 1]
  OBVIOUS
<1> HIDE DEF f
<1> DEFINE e == Loop(S, << >>, f)
<1>4. e \in [Nat -> S] /\ e[0] = << >> /\ \A k \in Nat : e[k + 1] = f[k][e[k]]
  BY <1>1, <1>3, Iterate
<1> HIDE DEF e
<1> DEFINE h == [i \in 0 .. n |-> e[i]]
<1>5. ASSUME NEW i \in 0 .. n
      PROVE  e[i] = IF i = 0 THEN << >> ELSE h[i - 1] \o F[i]
  <2>1. CASE i = 0
    BY <1>4, <2>1
  <2>2. CASE i # 0
    <3>1. PICK k \in Nat : k = i - 1
      BY <2>2
    <3>2. k \in 0 .. n /\ k < n /\ k + 1 = i
      BY <2>2, <3>1
    <3>3. e[k + 1] = f[k][e[k]] /\ e[k] \in S
      BY <1>4
    <3>4. f[k][e[k]] = e[k] \o F[k + 1]
      BY <1>6, <3>2, <3>3
    <3>5. h[i - 1] = e[k]
      BY <3>1, <3>2
    <3> QED
      BY <2>2, <3>2, <3>3, <3>4, <3>5
  <2> QED
    BY <2>1, <2>2
<1>7. h = [i \in 0 .. n |-> IF i = 0 THEN << >> ELSE h[i - 1] \o F[i]]
  BY <1>5
<1> QED
  BY <1>7

\* The file at the start is its table.
LEMMA EncodeLaidOut ==
  ASSUME ProperFile
  PROVE  \E s : LaidOut(Encode(InitTable), InitTable, s)
<1> DEFINE G(h) == [n \in 0 .. Len(InitTable) |->
                      IF n = 0 THEN << >>
                      ELSE h[n - 1] \o NewEntry(InitTable[n].hash, InitTable[n])]
           upTo == CHOOSE h : h = G(h)
<1>1. Encode(InitTable) = upTo[Len(InitTable)]
  BY Zenon DEF Encode
<1>2. PICK t : t = InitTable
  OBVIOUS
<1>3. PICK n : n = Len(t)
  OBVIOUS
<1>4. /\ t \in Seq(Known) /\ n \in Nat /\ \A i \in 1 .. n : t[i] \in Known
  BY <1>2, <1>3, LenProperties, ElementOfSeq DEF ProperFile
<1>5. \A h : G(h) = [i \in 0 .. n |-> IF i = 0 THEN << >>
                                      ELSE h[i - 1] \o Image(t[i])]
  BY <1>2, <1>3, Zenon DEF Image
<1> HIDE DEF G
<1>6. upTo = G(upTo)
  <2> DEFINE F == [i \in 1 .. n |-> Image(t[i])]
  <2>1. F \in [1 .. n -> Seq(Byte)]
    BY <1>4, ImageProperties
  <2>2. ASSUME NEW h
        PROVE  G(h) = [i \in 0 .. n |-> IF i = 0 THEN << >> ELSE h[i - 1] \o F[i]]
    <3>1. ASSUME NEW i \in 0 .. n
          PROVE  (IF i = 0 THEN << >> ELSE h[i - 1] \o Image(t[i]))
                   = (IF i = 0 THEN << >> ELSE h[i - 1] \o F[i])
      BY <1>4
    <3> HIDE DEF F
    <3>2. [i \in 0 .. n |-> IF i = 0 THEN << >> ELSE h[i - 1] \o Image(t[i])]
            = [i \in 0 .. n |-> IF i = 0 THEN << >> ELSE h[i - 1] \o F[i]]
      BY <3>1
    <3> QED
      BY <1>5, <3>2, Zenon
  <2> HIDE DEF F
  <2>3. \E h : h = [i \in 0 .. n |-> IF i = 0 THEN << >> ELSE h[i - 1] \o F[i]]
    BY <1>4, <2>1, JoinExists
  <2> QED
    BY <2>2, <2>3, Zenon
<1> HIDE DEF upTo
<1>7. upTo = [i \in 0 .. n |-> IF i = 0 THEN << >> ELSE upTo[i - 1] \o Image(t[i])]
  BY <1>5, <1>6, Zenon
<1>14. upTo[0] = << >> /\ \A i \in 1 .. n : upTo[i] = upTo[i - 1] \o Image(t[i])
  <2>1. 0 \in 0 .. n
    BY <1>4
  <2>2. ASSUME NEW i \in 1 .. n
        PROVE  i \in 0 .. n /\ i # 0
    BY <1>4
  <2> QED
    BY <1>7, <2>1, <2>2
<1> DEFINE P(i) == \E s : LaidOut(upTo[i], SubSeq(t, 1, i), s)
           T == { m \in Nat : m <= n => P(m) }
<1>8. P(0)
  <2>1. upTo[0] = << >>
    BY <1>4, <1>14
  <2>2. SubSeq(t, 1, 0) = << >>
    BY SubSeqEmpty
  <2> QED
    BY <2>1, <2>2, EmptyFile
<1>15. ASSUME NEW i \in 1 .. n, NEW j, j = i - 1, P(j)
       PROVE  P(i)
  <2>1. PICK s : LaidOut(upTo[j], SubSeq(t, 1, j), s)
    BY <1>15
  <2>2. PICK e \in Known : e = t[i]
    BY <1>4
  <2>3. PICK b, u : b = upTo[j] /\ u = SubSeq(t, 1, j)
    OBVIOUS
  <2>4. PICK z : LaidOut(b \o Image(e), Append(u, e), z)
    BY <2>1, <2>3, AppendEntry
  <2>5. upTo[i] = b \o Image(e)
    BY <1>14, <1>15, <2>2, <2>3
  <2>6. SubSeq(t, 1, i) = Append(u, e)
    <3>1. 1 \in 1 .. Len(t) /\ i \in 1 .. Len(t)
      BY <1>3, <1>4
    <3>2. SubSeq(t, 1, i) = SubSeq(t, 1, i - 1) \o << t[i] >>
      BY <1>4, <3>1, SubSeqRecursiveSecond
    <3>3. u \in Seq(Known)
      BY <2>1, <2>3 DEF LaidOut
    <3>4. Append(u, e) = u \o << e >>
      BY <3>3, AppendIsConcat
    <3> QED
      BY <1>15, <2>2, <2>3, <3>2, <3>4
  <2> QED
    BY <2>4, <2>5, <2>6
<1> HIDE DEF P
<1>9. ASSUME NEW m \in T
      PROVE  m + 1 \in T
  <2>1. ASSUME m + 1 <= n
        PROVE  P(m + 1)
    <3>1. PICK i : i = m + 1
      OBVIOUS
    <3>2. i \in 1 .. n /\ m = i - 1 /\ P(m)
      BY <1>4, <2>1, <3>1
    <3>3. P(i)
      BY <1>15, <3>2, Zenon
    <3> QED
      BY <3>1, <3>3, Zenon
  <2> QED
    BY <2>1
<1>10. T = Nat
  <2>0. 0 \in T
    BY <1>8
  <2>1. T \in SUBSET Nat
    OBVIOUS
  <2> HIDE DEF T
  <2> QED
    BY <1>9, <2>0, <2>1, Induction, Zenon
<1>11. n \in T
  BY <1>4, <1>10
<1>12. \E s : LaidOut(upTo[n], SubSeq(t, 1, n), s)
  BY <1>4, <1>11 DEF P
<1>13. SubSeq(t, 1, n) = t
  BY <1>3, <1>4, SubSeqFull
<1> QED
  BY <1>1, <1>2, <1>3, <1>12, <1>13

-----------------------------------------------------------------------------
(* The store as a table.                                                   *)

Tabled(bytes) == \E t : \E s : LaidOut(bytes, t, s)

\* Where a single worker's call is going to work.
Aimed(bytes, c) ==
  /\ c.pc = "erase" =>
       /\ c.req \in Searchable
       /\ \E hb \in HashBytes(c.req.hash) :
            /\ c.findIdx \in FirstMatch(bytes, hb)
            /\ c.oldTotalSize \in OldTotalSizes(bytes, c.findIdx)
            /\ c.newEntry = NewEntry(hb, c.req)
  /\ c.pc = "insert" => c.findIdx <= Len(bytes) + 1

\* A single worker's save, from the open to the write.
Saving(c, bytes, file) ==
  /\ c.pc \in {"fetch", "write"} => file = << >>
  /\ c.pc = "write" => c.output = bytes

SettledOf(bytes, c) ==
  IF c.pc = "insert" THEN Insert(bytes, c.findIdx, c.newEntry) ELSE bytes

TableInv ==
  /\ Tabled(fileContents) /\ Tabled(Settled) /\ Tabled(disk)
  /\ \A t \in Thread : /\ Aimed(fileContents, op[t])
                       /\ Saving(op[t], fileContents, disk)

\* A step of LocStore, or one that it does not see.
StoreStep == [Store!Next]_(Store!storeVars)

LEMMA TabledFramed ==
  ASSUME ProperFile, NEW bytes, Tabled(bytes)
  PROVE  Framed(bytes)
<1>1. PICK t, s : LaidOut(bytes, t, s)
  BY DEF Tabled
<1>2. Decode(bytes) = t /\ t \in Seq(Known)
  BY <1>1, DecodeLaidOut DEF LaidOut
<1>3. ASSUME NEW i \in 1 .. Len(t)
      PROVE  t[i] # Torn
  <2>1. t[i] \in Known
    BY <1>2, ElementOfSeq
  <2>2. Len(t[i].hash) = HashLen
    BY <2>1, ImageProperties
  <2>3. Len(Torn.hash) = 0
    BY DEF Torn
  <2> QED
    BY <2>2, <2>3, HeaderIsNat
<1>4. DOMAIN t = 1 .. Len(t)
  BY <1>2, LenProperties
<1> QED
  BY <1>2, <1>3, <1>4 DEF Framed

LEMMA SettledOne ==
  ASSUME NEW w, Thread = {w}
  PROVE  /\ Settled = SettledOf(fileContents, op[w])
         /\ Settled' = SettledOf(fileContents', op'[w])
<1>1. ASSUME op[w].pc = "insert"
      PROVE  (CHOOSE u \in Thread : op[u].pc = "insert") = w
  BY <1>1
<1>2. ASSUME op'[w].pc = "insert"
      PROVE  (CHOOSE u \in Thread : op'[u].pc = "insert") = w
  BY <1>2
<1> QED
  BY <1>1, <1>2 DEF Settled, SettledOf

\* The steps of LocStore.
LEMMA Stutters ==
  ASSUME Settled' = Settled, disk' = disk
  PROVE  StoreStep
<1>1. Decode(Settled)' = Decode(Settled)
  OBVIOUS
<1> QED
  BY <1>1 DEF StoreStep, Store!storeVars

\* In the table t, updateEntry may put e for the i-th entry.
MayPut(t, i, e) ==
  \E r \in Request : \E hb \in HashBytes(r.hash) :
    /\ e = EntryOf(hb, r) /\ i \in DOMAIN t /\ t[i].hash = hb
    /\ \A j \in 1 .. i - 1 : t[j].hash # hb

LEMMA Puts ==
  ASSUME disk' = disk, NEW t, NEW i, NEW e, MayPut(t, i, e),
         Decode(Settled) = t, Decode(Settled') = [t EXCEPT ![i] = e]
  PROVE  StoreStep
<1> PICK r \in Request : \E hb \in HashBytes(r.hash) :
        /\ e = EntryOf(hb, r) /\ i \in DOMAIN t /\ t[i].hash = hb
        /\ \A j \in 1 .. i - 1 : t[j].hash # hb
  BY DEF MayPut
<1>0. PICK hb \in HashBytes(r.hash) :
        /\ e = EntryOf(hb, r) /\ i \in DOMAIN t /\ t[i].hash = hb
        /\ \A j \in 1 .. i - 1 : t[j].hash # hb
  OBVIOUS
<1>1. e \in UNION { { EntryOf(h, q) : h \in HashBytes(q.hash) } : q \in Request }
  BY <1>0
<1>2. e.hash = hb
  BY <1>0 DEF EntryOf
<1>3. i \in Store!FirstWith(Decode(Settled), e.hash)
  BY <1>0, <1>2 DEF Store!FirstWith
<1>4. Decode(Settled)' = [Decode(Settled) EXCEPT ![i] = e]
  OBVIOUS
<1>5. Decode(disk)' = Decode(disk)
  OBVIOUS
<1>6. Store!Put
  BY <1>1, <1>3, <1>4, <1>5, Zenon DEF Store!Put
<1> QED
  BY <1>6, Zenon DEF StoreStep, Store!Next

LEMMA Empties ==
  ASSUME ProperFile, Settled' = Settled, disk' = << >>
  PROVE  StoreStep
<1>1. Decode(<< >>) = << >>
  BY EmptyFile, DecodeLaidOut
<1>2. Decode(disk)' = << >> /\ Decode(Settled)' = Decode(Settled)
  BY <1>1
<1>3. Store!Empty
  BY <1>2, Zenon DEF Store!Empty
<1> QED
  BY <1>3, Zenon DEF StoreStep, Store!Next

LEMMA Saves ==
  ASSUME Settled' = Settled, disk' = Settled
  PROVE  StoreStep
<1>1. Decode(disk)' = Decode(Settled) /\ Decode(Settled)' = Decode(Settled)
  OBVIOUS
<1>2. Store!Save
  BY <1>1, Zenon DEF Store!Save
<1> QED
  BY <1>2, Zenon DEF StoreStep, Store!Next

LEMMA Reloads ==
  ASSUME Settled' = disk, disk' = disk
  PROVE  StoreStep
<1>1. Decode(Settled)' = Decode(disk) /\ Decode(disk)' = Decode(disk)
  OBVIOUS
<1>2. Store!Reload
  BY <1>1, Zenon DEF Store!Reload
<1> QED
  BY <1>2, Zenon DEF StoreStep, Store!Next

\* The call of the worker goes on as c.
LEMMA TableBecome ==
  ASSUME NEW w, Thread = {w}, CallsOK, NEW c, Become(w, c),
         Tabled(fileContents'), Tabled(SettledOf(fileContents', c)), Tabled(disk'),
         Aimed(fileContents', c), Saving(c, fileContents', disk')
  PROVE  TableInv' /\ Settled' = SettledOf(fileContents', c)
<1>1. op'[w] = c
  BY DEF Become, CallsOK
<1>2. Settled' = SettledOf(fileContents', c)
  BY <1>1, SettledOne
<1>3. \A t \in Thread : /\ Aimed(fileContents', op'[t])
                        /\ Saving(op'[t], fileContents', disk')
  BY <1>1
<1> QED
  BY <1>2, <1>3 DEF TableInv

\* A statement that changes neither the vector nor the file, outside the window
\* from the erase to the insert.
LEMMA TableQuiet ==
  ASSUME NEW w, Thread = {w}, CallsOK, TableInv, NEW c, Become(w, c),
         op[w].pc # "insert", c.pc \notin {"insert", "fetch", "write"},
         fileContents' = fileContents, disk' = disk,
         Aimed(fileContents, c)
  PROVE  TableInv' /\ StoreStep
<1>1. Settled = fileContents
  BY SettledOne DEF SettledOf
<1>2. SettledOf(fileContents', c) = fileContents
  BY DEF SettledOf
<1>3. Tabled(fileContents) /\ Tabled(disk)
  BY DEF TableInv
<1>4. TableInv' /\ Settled' = fileContents
  BY <1>2, <1>3, TableBecome DEF Saving
<1> QED
  BY <1>1, <1>4, Stutters

\* The entry that an update of this file makes.
LEMMA NewIsKnown ==
  ASSUME NEW d \in Known, NEW r \in Searchable, NEW hb \in HashBytes(r.hash),
         d.hash = hb, Len(r.text) < LenMod
  PROVE  EntryOf(hb, r) \in Known /\ Image(EntryOf(hb, r)) = NewEntry(hb, r)
<1> DEFINE start == { InitTable[i] : i \in DOMAIN InitTable }
           fits == { q \in Searchable : Len(q.text) < LenMod }
           hashes == { e.hash : e \in start }
           news == UNION { { EntryOf(h, q) : h \in HashBytes(q.hash) \cap hashes } :
                             q \in fits }
<1>0. Known = start \cup news
  BY Zenon DEF Known
<1>3. hb \in hashes
  <2>1. d.hash \in hashes
    <3> HIDE DEF start
    <3>1. CASE d \in start
      BY <3>1
    <3>2. CASE d \in news
      <4>1. PICK q \in fits, h \in hashes : d = EntryOf(h, q)
        BY <3>2
      <4> QED
        BY <4>1 DEF EntryOf
    <3> QED
      BY <1>0, <3>1, <3>2
  <2> QED
    BY <2>1
<1>4. EntryOf(hb, r) \in Known
  <2>1. hb \in HashBytes(r.hash) \cap hashes /\ r \in fits
    BY <1>3
  <2> HIDE DEF hashes, start, fits
  <2> QED
    BY <1>0, <2>1
<1>5. Image(EntryOf(hb, r)) = NewEntry(hb, r)
  BY DEF Image, EntryOf, NewEntry
<1> QED
  BY <1>4, <1>5

\* The erase of the first entry with the hash, and what the insertion will do.
LEMMA EraseSpot ==
  ASSUME ProperFile, NEW c \in CallRecord, NEW bytes, Tabled(bytes),
         c.pc = "erase", Aimed(bytes, c)
  PROVE  \E t, s, hb : \E i \in 1 .. Len(t) :
           /\ LaidOut(bytes, t, s)
           /\ c.req \in Searchable /\ hb \in HashBytes(c.req.hash)
           /\ t[i].hash = hb /\ \A j \in 1 .. i - 1 : t[j].hash # hb
           /\ c.findIdx = s[i] /\ c.oldTotalSize = Len(Image(t[i]))
           /\ c.newEntry = NewEntry(hb, c.req)
<1>1. PICK t, s : LaidOut(bytes, t, s)
  BY DEF Tabled
<1>2. c.req \in Searchable
  BY DEF Aimed
<1>3. PICK hb \in HashBytes(c.req.hash) :
        /\ c.findIdx \in FirstMatch(bytes, hb)
        /\ c.oldTotalSize \in OldTotalSizes(bytes, c.findIdx)
        /\ c.newEntry = NewEntry(hb, c.req)
  BY DEF Aimed
<1>4. PICK r \in Searchable : r = c.req
  BY <1>2
<1>5. PICK p \in FirstMatch(bytes, hb) : p = c.findIdx
  BY <1>3
<1>6. hb \in HashBytes(r.hash)
  BY <1>4
<1>7. PICK i \in 1 .. Len(t) : /\ p = s[i] /\ t[i].hash = hb
                               /\ \A j \in 1 .. i - 1 : t[j].hash # hb
  <2>1. \E i \in 1 .. Len(t) : /\ p = s[i] /\ t[i].hash = hb
                              /\ \A j \in 1 .. i - 1 : t[j].hash # hb
    BY <1>1, <1>6, FirstOfTable
  <2> QED
    BY <2>1, Zenon
<1>8. /\ t[i] \in Known /\ HasLength(bytes, s[i])
      /\ OldTotalSize(bytes, s[i]) = Len(Image(t[i]))
  BY <1>1, EntryOfTable
<1>9. c.oldTotalSize = Len(Image(t[i]))
  BY <1>3, <1>5, <1>7, <1>8, Zenon DEF OldTotalSizes
<1> QED
  BY <1>1, <1>2, <1>3, <1>4, <1>5, <1>7, <1>9, Zenon

\* If the text of the request is not too long, that is an entry.
LEMMA EraseAim ==
  ASSUME ProperFile, NEW c \in CallRecord, NEW bytes, Tabled(bytes),
         c.pc = "erase", Aimed(bytes, c), Len(c.req.text) < LenMod
  PROVE  \E t, s, hb : \E i \in 1 .. Len(t) : \E e \in Known :
           /\ LaidOut(bytes, t, s)
           /\ c.req \in Searchable /\ hb \in HashBytes(c.req.hash)
           /\ t[i].hash = hb /\ \A j \in 1 .. i - 1 : t[j].hash # hb
           /\ e = EntryOf(hb, c.req)
           /\ c.findIdx = s[i] /\ c.oldTotalSize = Len(Image(t[i]))
           /\ c.newEntry = Image(e)
<1>1. PICK t, s, hb : \E i \in 1 .. Len(t) :
           /\ LaidOut(bytes, t, s)
           /\ c.req \in Searchable /\ hb \in HashBytes(c.req.hash)
           /\ t[i].hash = hb /\ \A j \in 1 .. i - 1 : t[j].hash # hb
           /\ c.findIdx = s[i] /\ c.oldTotalSize = Len(Image(t[i]))
           /\ c.newEntry = NewEntry(hb, c.req)
  BY EraseSpot
<1>2. PICK i \in 1 .. Len(t) :
           /\ LaidOut(bytes, t, s)
           /\ c.req \in Searchable /\ hb \in HashBytes(c.req.hash)
           /\ t[i].hash = hb /\ \A j \in 1 .. i - 1 : t[j].hash # hb
           /\ c.findIdx = s[i] /\ c.oldTotalSize = Len(Image(t[i]))
           /\ c.newEntry = NewEntry(hb, c.req)
  BY <1>1
<1>3. PICK r \in Searchable : r = c.req
  BY <1>2
<1>4. PICK d \in Known : d = t[i] /\ d.hash = hb
  BY <1>2, EntryOfTable
<1>5. hb \in HashBytes(r.hash) /\ Len(r.text) < LenMod
  BY <1>2, <1>3
<1>6. PICK e \in Known : e = EntryOf(hb, r)
  BY <1>4, <1>5, NewIsKnown, Zenon
<1>7. Image(e) = NewEntry(hb, r)
  BY <1>4, <1>5, <1>6, NewIsKnown, Zenon
<1> QED
  BY <1>2, <1>3, <1>6, <1>7, Zenon

LEMMA TableErase ==
  ASSUME NEW w, Thread = {w}, ProperFile, ShortTexts, TypeInv, TableInv,
         EraseOld(w)
  PROVE  TableInv' /\ StoreStep
<1>0. CallsOK
  BY DEF TypeInv
<1>1. PICK b : b = op[w]
  OBVIOUS
<1>2. /\ b \in CallRecord /\ b.pc = "erase" /\ Tabled(fileContents) /\ Tabled(disk)
      /\ Aimed(fileContents, b)
  BY <1>1 DEF TypeInv, CallsOK, TableInv, EraseOld, At
<1>22. Len(b.req.text) < LenMod
  BY <1>2 DEF Aimed, Searchable, ShortTexts
<1>3. PICK t, s, hb : \E i \in 1 .. Len(t) : \E e \in Known :
           /\ LaidOut(fileContents, t, s)
           /\ b.req \in Searchable /\ hb \in HashBytes(b.req.hash)
           /\ t[i].hash = hb /\ \A j \in 1 .. i - 1 : t[j].hash # hb
           /\ e = EntryOf(hb, b.req)
           /\ b.findIdx = s[i] /\ b.oldTotalSize = Len(Image(t[i]))
           /\ b.newEntry = Image(e)
  BY <1>2, <1>22, EraseAim
<1>4. PICK i \in 1 .. Len(t), e \in Known :
           /\ LaidOut(fileContents, t, s)
           /\ b.req \in Searchable /\ hb \in HashBytes(b.req.hash)
           /\ t[i].hash = hb /\ \A j \in 1 .. i - 1 : t[j].hash # hb
           /\ e = EntryOf(hb, b.req)
           /\ b.findIdx = s[i] /\ b.oldTotalSize = Len(Image(t[i]))
           /\ b.newEntry = Image(e)
  BY <1>3
<1>5. /\ fileContents' = Erase(fileContents, s[i], Len(Image(t[i])))
      /\ disk' = disk /\ Become(w, [b EXCEPT !.pc = "insert"])
  BY <1>1, <1>4 DEF EraseOld, Goto
<1> DEFINE c == [b EXCEPT !.pc = "insert"]
<1>6. /\ c.pc = "insert" /\ c.findIdx = s[i] /\ c.newEntry = Image(e)
  BY <1>2, <1>4 DEF CallRecord
<1> HIDE DEF c
<1>7. PICK y : LaidOut(fileContents', Without(t, i), y)
  BY <1>4, <1>5, RemoveEntry
<1>8. PICK z : LaidOut(Replaced(fileContents, s[i], Len(Image(t[i])), Image(e)),
                       [t EXCEPT ![i] = e], z)
  BY <1>4, ReplaceEntry
<1>9. SettledOf(fileContents', c) =
        Replaced(fileContents, s[i], Len(Image(t[i])), Image(e))
  BY <1>5, <1>6, Zenon DEF SettledOf, Replaced
<1>10. c.findIdx <= Len(fileContents') + 1
  <2>1. /\ s[i] \in Nat \ {0} /\ Lies(fileContents, s[i], Image(t[i]))
        /\ t[i] \in Known
    BY <1>4, EntryOfTable
  <2>2. Len(Image(t[i])) \in Nat
    BY <2>1, ImageProperties
  <2>3. PICK n \in Nat, p \in Nat \ {0} : n = Len(Image(t[i])) /\ p = s[i]
    BY <2>1, <2>2
  <2>4. fileContents \in Seq(Byte) /\ p + n - 1 <= Len(fileContents)
    BY <2>1, <2>3 DEF Lies
  <2>5. Len(fileContents') = Len(fileContents) - n
    BY <1>5, <2>3, <2>4, EraseProperties
  <2>6. Len(fileContents) \in Nat
    BY <2>4, LenProperties
  <2> QED
    BY <1>6, <2>3, <2>4, <2>5, <2>6
<1>11. Aimed(fileContents', c)
  BY <1>6, <1>10 DEF Aimed
<1>12. /\ Tabled(fileContents') /\ Tabled(SettledOf(fileContents', c)) /\ Tabled(disk')
  BY <1>2, <1>5, <1>7, <1>8, <1>9, Zenon DEF Tabled
<1>13. Saving(c, fileContents', disk') /\ Become(w, c)
  BY <1>5, <1>6 DEF c, Saving
<1>14. TableInv' /\ Settled' = SettledOf(fileContents', c)
  BY <1>0, <1>11, <1>12, <1>13, TableBecome, Zenon
<1>15. Decode(Settled') = [t EXCEPT ![i] = e]
  BY <1>8, <1>9, <1>14, DecodeLaidOut, Zenon
<1>16. Settled = fileContents
  BY <1>1, <1>2, SettledOne DEF SettledOf
<1>17. Decode(Settled) = t
  BY <1>4, <1>16, DecodeLaidOut, Zenon
<1>18. i \in DOMAIN t
  BY <1>4, LenProperties DEF LaidOut
<1>19. PICK r \in Request : r = b.req
  BY <1>4 DEF Searchable
<1>20. hb \in HashBytes(r.hash) /\ e = EntryOf(hb, r)
  BY <1>4, <1>19
<1>21. StoreStep
  <2>1. MayPut(t, i, e)
    BY <1>4, <1>18, <1>20, Zenon DEF MayPut
  <2>2. Decode(Settled') = [t EXCEPT ![i] = e] /\ Decode(Settled) = t
    BY <1>15, <1>17, Zenon
  <2> QED
    BY <1>5, <2>1, <2>2, Puts, Zenon
<1> QED
  BY <1>14, <1>21

\* In a proper file no entry reaches past the end of the vector.
LEMMA NoOvershoot ==
  ASSUME NEW w, Thread = {w}, ProperFile, TypeInv, TableInv, op[w].pc = "erase"
  PROVE  Overshoot(w) <= 0
<1>1. PICK b \in CallRecord : b = op[w]
  BY DEF TypeInv, CallsOK
<1>2. Tabled(fileContents) /\ Aimed(fileContents, b) /\ b.pc = "erase"
  BY <1>1 DEF TableInv
<1>3. PICK u, s, hb : \E i \in 1 .. Len(u) :
         /\ LaidOut(fileContents, u, s)
         /\ b.req \in Searchable /\ hb \in HashBytes(b.req.hash)
         /\ u[i].hash = hb /\ \A j \in 1 .. i - 1 : u[j].hash # hb
         /\ b.findIdx = s[i] /\ b.oldTotalSize = Len(Image(u[i]))
         /\ b.newEntry = NewEntry(hb, b.req)
  BY <1>2, EraseSpot
<1>4. PICK i \in 1 .. Len(u) :
         /\ LaidOut(fileContents, u, s)
         /\ b.findIdx = s[i] /\ b.oldTotalSize = Len(Image(u[i]))
  BY <1>3
<1>5. Lies(fileContents, s[i], Image(u[i])) /\ s[i] \in Nat /\ u[i] \in Known
  BY <1>4, EntryOfTable
<1>6. Len(Image(u[i])) \in Nat /\ Len(fileContents) \in Nat
  BY <1>5, ImageProperties, LenProperties DEF TypeInv, BytesOK
<1> QED
  BY <1>1, <1>4, <1>5, <1>6 DEF Overshoot, Lies

\* A save that nothing disturbs ends with the vector on disk.
LEMMA WholeWrite ==
  ASSUME NEW w, op[w].output = fileContents, fileContents \in Seq(Byte),
         disk = << >>, WriteOutput(w)
  PROVE  disk' = fileContents
<1>0. /\ op[w].output = fileContents
      /\ fileContents \in Seq(Byte) /\ disk = << >>
  OBVIOUS
<1>1. disk' = fileContents \o SubSeq(disk, Len(fileContents) + 1, Len(disk))
  BY <1>0 DEF WriteOutput, Written
<1>2. Len(disk) = 0 /\ Len(fileContents) \in Nat
  BY <1>0, LenProperties
<1>3. SubSeq(disk, Len(fileContents) + 1, Len(disk)) = << >>
  BY <1>2
<1> QED
  BY <1>0, <1>1, <1>3, ConcatEmptySeq

LEMMA WholeVector ==
  ASSUME NEW w \in Thread, TypeInv, TableInv, WriteOutput(w)
  PROVE  disk' = fileContents
<1>1. /\ op[w].output = fileContents
      /\ fileContents \in Seq(Byte) /\ disk = << >>
  BY DEF WriteOutput, At, TypeInv, BytesOK, TableInv, Saving
<1> QED
  BY <1>1, WholeWrite

LEMMA TableStep ==
  ASSUME NEW w, Thread = {w}, "write" \notin Fault, ProperFile, ShortTexts,
         TypeInv, TableInv, [Next]_binVars
  PROVE  TableInv' /\ StoreStep
<1>0. CallsOK /\ op[w] \in CallRecord /\ fileContents \in Seq(Byte) /\ disk \in Seq(Byte)
  BY DEF TypeInv, CallsOK, BytesOK
<1>1. /\ Tabled(fileContents) /\ Tabled(Settled) /\ Tabled(disk)
      /\ Aimed(fileContents, op[w]) /\ Saving(op[w], fileContents, disk)
  BY DEF TableInv
<1>2. Settled = SettledOf(fileContents, op[w])
  BY SettledOne
<1>3. ASSUME NEW c, Become(w, c), op[w].pc # "insert",
             c.pc \notin {"erase", "insert", "fetch", "write"},
             fileContents' = fileContents, disk' = disk
      PROVE  TableInv' /\ StoreStep
  <2>1. Aimed(fileContents, c)
    BY <1>3 DEF Aimed
  <2>2. c.pc \notin {"insert", "fetch", "write"}
    BY <1>3
  <2> QED
    BY <1>0, <1>3, <2>1, <2>2, TableQuiet, Zenon
<1>4. CASE UNCHANGED << fileContents, disk, op >>
  <2>1. Settled' = Settled
    BY <1>4, Zenon DEF Settled
  <2>2. TableInv'
    BY <1>4, <2>1, Zenon DEF TableInv
  <2> QED
    BY <1>4, <2>1, <2>2, Stutters
<1>5. ASSUME NEW t \in Thread, NEW r \in Request, Call(t, r)
      PROVE  TableInv' /\ StoreStep
  <2> DEFINE c == [Idle EXCEPT !.pc = "search", !.req = r]
  <2>1. c.pc = "search"
    BY DEF Idle
  <2>2. /\ Become(w, c) /\ op[w].pc # "insert"
        /\ fileContents' = fileContents /\ disk' = disk
    BY <1>5 DEF Call, At
  <2> HIDE DEF c
  <2> QED
    BY <1>3, <2>1, <2>2
<1>6. ASSUME NEW t \in Thread, Finish(t)
      PROVE  TableInv' /\ StoreStep
  <2>1. Idle.pc = "idle"
    BY DEF Idle
  <2>2. /\ Become(w, Idle) /\ op[w].pc # "insert"
        /\ fileContents' = fileContents /\ disk' = disk
    BY <1>6 DEF Finish, At
  <2> QED
    BY <1>3, <2>1, <2>2
<1>7. CASE Die
  BY <1>4, <1>7 DEF Die
<1>8. CASE Restart
  <2>1. op'[w] = Idle /\ fileContents' = disk /\ disk' = disk
    BY <1>8 DEF Restart
  <2>2. Idle.pc = "idle"
    BY DEF Idle
  <2>3. Settled' = disk
    BY <2>1, <2>2, SettledOne DEF SettledOf
  <2>4. TableInv'
    BY <1>1, <2>1, <2>2, <2>3 DEF TableInv, Aimed, Saving
  <2> QED
    BY <2>1, <2>3, <2>4, Reloads
<1>9. CASE UNCHANGED binVars
  BY <1>4, <1>9 DEF binVars
<1>10. ASSUME NEW t \in Thread, Step(t)
       PROVE  TableInv' /\ StoreStep
  <2>0. t = w
    OBVIOUS
  <2>1. ASSUME NEW ok, Become(w, [op[w] EXCEPT !.pc = "done", !.ok = ok]),
               op[w].pc # "insert", fileContents' = fileContents, disk' = disk
        PROVE  TableInv' /\ StoreStep
    <3> DEFINE c == [op[w] EXCEPT !.pc = "done", !.ok = ok]
    <3>1. c.pc = "done"
      BY <1>0 DEF CallRecord
    <3> HIDE DEF c
    <3>2. Become(w, c)
      BY <2>1 DEF c
    <3> QED
      BY <1>3, <2>1, <3>1, <3>2
  <2>2. CASE BadHash(t) \/ NotFound(t) \/ OpenFails(t)
    <3>1. PICK ok \in BOOLEAN : Become(w, [op[w] EXCEPT !.pc = "done", !.ok = ok])
      BY <2>0, <2>2 DEF BadHash, NotFound, OpenFails, Throw, Return
    <3>2. op[w].pc # "insert" /\ fileContents' = fileContents /\ disk' = disk
      BY <2>0, <2>2 DEF BadHash, NotFound, OpenFails, Throw, At
    <3> QED
      BY <2>1, <3>1, <3>2, Zenon
  <2>3. CASE Found(t)
    <3>1. /\ At(w, "search") /\ Convertible(op[w].req.hash)
          /\ fileContents' = fileContents /\ disk' = disk
      BY <2>0, <2>3 DEF Found
    <3>2. PICK hb \in HashBytes(op[w].req.hash) :
            \E p \in FirstMatch(fileContents, hb) :
            \E n \in OldTotalSizes(fileContents, p) :
              Become(w, [op[w] EXCEPT !.pc = "erase", !.findIdx = p,
                                      !.oldTotalSize = n,
                                      !.newEntry = NewEntry(hb, op[w].req)])
      BY <2>0, <2>3, Zenon DEF Found
    <3>3. PICK p \in FirstMatch(fileContents, hb) :
            \E n \in OldTotalSizes(fileContents, p) :
              Become(w, [op[w] EXCEPT !.pc = "erase", !.findIdx = p,
                                      !.oldTotalSize = n,
                                      !.newEntry = NewEntry(hb, op[w].req)])
      BY <3>2, Zenon
    <3>4. PICK n \in OldTotalSizes(fileContents, p) :
              Become(w, [op[w] EXCEPT !.pc = "erase", !.findIdx = p,
                                      !.oldTotalSize = n,
                                      !.newEntry = NewEntry(hb, op[w].req)])
      BY <3>3, Zenon
    <3> DEFINE c == [op[w] EXCEPT !.pc = "erase", !.findIdx = p,
                                  !.oldTotalSize = n,
                                  !.newEntry = NewEntry(hb, op[w].req)]
    <3>5. /\ c.pc = "erase" /\ c.req = op[w].req /\ c.findIdx = p
          /\ c.oldTotalSize = n /\ c.newEntry = NewEntry(hb, op[w].req)
      BY <1>0 DEF CallRecord
    <3> HIDE DEF c
    <3>6. op[w].req \in Searchable
      <4>1. op[w].req \in Request
        BY <3>1 DEF TypeInv, Located, Placed, At
      <4> QED
        BY <3>1, <4>1 DEF Searchable
    <3>7. Aimed(fileContents, c)
      BY <3>5, <3>6 DEF Aimed
    <3>8. /\ Become(w, c) /\ c.pc \notin {"insert", "fetch", "write"}
          /\ op[w].pc # "insert"
      BY <3>1, <3>4, <3>5 DEF c, At
    <3> QED
      BY <1>0, <3>1, <3>7, <3>8, TableQuiet, Zenon
  <2>4. CASE EraseOld(t)
    BY <2>0, <2>4, TableErase
  <2>5. CASE ErasePastEnd(t)
    <3>1. op[w].pc = "erase" /\ Overshoot(w) > 0
      BY <2>0, <2>5 DEF ErasePastEnd, At
    <3>2. Overshoot(w) <= 0 /\ Overshoot(w) \in Int
      <4>1. Len(fileContents) \in Nat
        BY <1>0, LenProperties
      <4> QED
        BY <1>0, <3>1, <4>1, NoOvershoot DEF Overshoot, CallRecord
    <3> QED
      BY <3>1, <3>2
  <2>6. CASE InsertNew(t)
    <3>1. /\ op[w].pc = "insert" /\ disk' = disk
          /\ fileContents' = Insert(fileContents, op[w].findIdx, op[w].newEntry)
          /\ Become(w, [op[w] EXCEPT !.pc = "open"])
      BY <2>0, <2>6 DEF InsertNew, At, Goto
    <3>2. fileContents' = Settled
      BY <1>2, <3>1 DEF SettledOf
    <3> DEFINE c == [op[w] EXCEPT !.pc = "open"]
    <3>3. c.pc = "open"
      BY <1>0 DEF CallRecord
    <3> HIDE DEF c
    <3>4. SettledOf(fileContents', c) = fileContents' /\ Aimed(fileContents', c)
      BY <3>3 DEF SettledOf, Aimed
    <3>5. Tabled(fileContents') /\ Tabled(SettledOf(fileContents', c)) /\ Tabled(disk')
      BY <1>1, <3>1, <3>2, <3>4
    <3>6. Become(w, c) /\ Saving(c, fileContents', disk')
      BY <3>1, <3>3 DEF c, Saving
    <3>7. TableInv' /\ Settled' = SettledOf(fileContents', c)
      BY <1>0, <3>4, <3>5, <3>6, TableBecome, Zenon
    <3> QED
      BY <3>1, <3>2, <3>4, <3>7, Stutters
  <2>7. CASE InsertPastEnd(t)
    <3>1. op[w].pc = "insert" /\ op[w].findIdx > Len(fileContents) + 1
      BY <2>0, <2>7 DEF InsertPastEnd, At
    <3>2. op[w].findIdx <= Len(fileContents) + 1
      BY <1>1, <3>1 DEF Aimed
    <3>3. op[w].findIdx \in Nat /\ Len(fileContents) \in Nat
      BY <1>0, LenProperties DEF CallRecord
    <3> QED
      BY <3>1, <3>2, <3>3
  <2>8. CASE OpenOutput(t)
    <3>1. /\ op[w].pc = "open" /\ disk' = << >> /\ fileContents' = fileContents
          /\ Become(w, [op[w] EXCEPT !.pc = "fetch"])
      BY <2>0, <2>8 DEF OpenOutput, At, Goto
    <3> DEFINE c == [op[w] EXCEPT !.pc = "fetch"]
    <3>2. c.pc = "fetch"
      BY <1>0 DEF CallRecord
    <3> HIDE DEF c
    <3>3. /\ SettledOf(fileContents', c) = fileContents' /\ Aimed(fileContents', c)
          /\ Saving(c, fileContents', disk')
      BY <3>1, <3>2 DEF SettledOf, Aimed, Saving
    <3>4. Tabled(<< >>)
      BY EmptyFile DEF Tabled
    <3>5. Become(w, c)
      BY <3>1 DEF c
    <3>6. TableInv' /\ Settled' = SettledOf(fileContents', c)
      BY <1>0, <1>1, <3>1, <3>3, <3>4, <3>5, TableBecome
    <3>7. Settled' = Settled
      BY <1>2, <3>1, <3>3, <3>6 DEF SettledOf
    <3> QED
      BY <3>1, <3>6, <3>7, Empties
  <2>11. CASE FetchOutput(t)
    <3> DEFINE c == [op[w] EXCEPT !.pc = "write", !.output = fileContents]
    <3>1. /\ op[w].pc = "fetch" /\ disk' = disk /\ fileContents' = fileContents
          /\ Become(w, c)
      BY <2>0, <2>11 DEF FetchOutput, At
    <3>2. c.pc = "write" /\ c.output = fileContents
      BY <1>0 DEF CallRecord
    <3> HIDE DEF c
    <3>3. /\ SettledOf(fileContents', c) = fileContents' /\ Aimed(fileContents', c)
          /\ Saving(c, fileContents', disk')
      BY <1>1, <3>1, <3>2 DEF SettledOf, Aimed, Saving
    <3>6. TableInv' /\ Settled' = SettledOf(fileContents', c)
      BY <1>0, <1>1, <3>1, <3>3, TableBecome
    <3>7. Settled' = Settled
      BY <1>2, <3>1, <3>3, <3>6 DEF SettledOf
    <3> QED
      BY <3>1, <3>6, <3>7, Stutters
  <2>9. CASE WriteOutput(t)
    <3> DEFINE c == [op[w] EXCEPT !.pc = "done", !.output = << >>, !.ok = TRUE]
    <3>1. /\ op[w].pc = "write" /\ fileContents' = fileContents /\ Become(w, c)
      BY <2>0, <2>9 DEF WriteOutput, At, Saved
    <3>2. disk' = fileContents
      BY <2>0, <2>9, WholeVector
    <3>3. c.pc = "done"
      BY <1>0 DEF CallRecord
    <3> HIDE DEF c
    <3>4. SettledOf(fileContents', c) = fileContents' /\ Aimed(fileContents', c)
      BY <3>3 DEF SettledOf, Aimed
    <3>5. Become(w, c) /\ Saving(c, fileContents', disk')
      BY <3>1, <3>3 DEF Saving
    <3>6. Tabled(fileContents') /\ Tabled(SettledOf(fileContents', c)) /\ Tabled(disk')
      BY <1>1, <3>1, <3>2, <3>4
    <3>7. TableInv' /\ Settled' = SettledOf(fileContents', c)
      BY <1>0, <3>4, <3>5, <3>6, TableBecome, Zenon
    <3>8. Settled = fileContents
      BY <1>2, <3>1 DEF SettledOf
    <3> QED
      BY <3>1, <3>2, <3>4, <3>7, <3>8, Saves
  <2>10. CASE WriteFails(t)
    BY <2>10 DEF WriteFails
  <2> QED
    BY <1>10, <2>2, <2>3, <2>4, <2>5, <2>6, <2>7, <2>8, <2>9, <2>10, <2>11,
       Zenon
    DEF Step
<1> QED
  BY <1>5, <1>6, <1>7, <1>8, <1>9, <1>10, NextCases, Zenon DEF Crash

LEMMA TableInit ==
  ASSUME NEW w, Thread = {w}, ProperFile, Init
  PROVE  TableInv /\ Store!Init
<1>1. /\ fileContents = Encode(InitTable) /\ disk = Encode(InitTable)
      /\ op[w] = Idle /\ Idle.pc = "idle"
  BY DEF Init, Idle
<1>2. Settled = fileContents
  BY <1>1, SettledOne DEF SettledOf
<1>3. PICK s : LaidOut(Encode(InitTable), InitTable, s)
  BY EncodeLaidOut
<1>4. Decode(Encode(InitTable)) = InitTable
  BY <1>3, DecodeLaidOut, Zenon
<1>5. Tabled(Encode(InitTable))
  BY <1>3 DEF Tabled
<1>6. TableInv
  BY <1>1, <1>2, <1>5 DEF TableInv, Aimed, Saving
<1> QED
  BY <1>1, <1>2, <1>4, <1>6 DEF Store!Init

\* A single worker's updates of a proper file are steps of LocStore: read as a
\* table of entries, the vector changes in one entry, the first with the hash,
\* and the file on disk is emptied and then replaced by the whole table.
\* Updates that fail, files that do not open, crashes and restarts included; not
\* a text too long for its length, which leaves bytes that are no entry.
THEOREM StoreIsImplemented ==
  ASSUME NEW w, Thread = {w}, "write" \notin Fault, ProperFile, ShortTexts
  PROVE  Spec => ImplementsStore
<1>1. Init => TypeInv /\ TableInv /\ Store!Init
  BY TypeInit, TableInit
<1>2. TypeInv /\ TableInv /\ [Next]_binVars =>
        TypeInv' /\ TableInv' /\ [Store!Next]_(Store!storeVars)
  BY TypeStep, TableStep DEF StoreStep
<1> QED
  BY <1>1, <1>2, PTL DEF Spec, ImplementsStore, Store!Spec

-----------------------------------------------------------------------------
(* Files that a write left unfinished: tables that end within an entry.    *)

\* The bytes are the first bytes of whole.
Cut(bytes, whole) ==
  /\ bytes \in Seq(Byte) /\ whole \in Seq(Byte) /\ Len(bytes) <= Len(whole)
  /\ \A k \in 1 .. Len(bytes) : bytes[k] = whole[k]

\* Of the table u in whole, the bytes lack some, but not all, of the last entry.
LacksEnd(bytes, whole, u) ==
  /\ Cut(bytes, whole) /\ Len(u) # 0 /\ Len(bytes) < Len(whole)
  /\ Len(whole) - Len(Image(u[Len(u)])) < Len(bytes)

Broken(bytes) ==
  \E whole, u, z : LaidOut(whole, u, z) /\ LacksEnd(bytes, whole, u)

Sound(bytes) == Tabled(bytes) \/ Broken(bytes)

LEMMA CutErase ==
  ASSUME NEW bytes, NEW whole, Cut(bytes, whole),
         NEW p \in Nat \ {0}, NEW n \in Nat, p + n - 1 <= Len(bytes)
  PROVE  /\ Cut(Erase(bytes, p, n), Erase(whole, p, n))
         /\ Len(Erase(bytes, p, n)) = Len(bytes) - n
         /\ Len(Erase(whole, p, n)) = Len(whole) - n
<1> DEFINE b == Erase(bytes, p, n)
           w == Erase(whole, p, n)
<1>0. /\ bytes \in Seq(Byte) /\ whole \in Seq(Byte) /\ Len(bytes) \in Nat
      /\ Len(whole) \in Nat /\ Len(bytes) <= Len(whole)
      /\ \A k \in 1 .. Len(bytes) : bytes[k] = whole[k]
  BY LenProperties DEF Cut
<1>1. /\ b \in Seq(Byte) /\ Len(b) = Len(bytes) - n
      /\ \A i \in 1 .. p - 1 : b[i] = bytes[i]
      /\ \A i \in p .. Len(bytes) - n : b[i] = bytes[i + n]
  BY <1>0, EraseProperties
<1>2. p + n - 1 <= Len(whole)
  BY <1>0
<1>3. /\ w \in Seq(Byte) /\ Len(w) = Len(whole) - n
      /\ \A i \in 1 .. p - 1 : w[i] = whole[i]
      /\ \A i \in p .. Len(whole) - n : w[i] = whole[i + n]
  BY <1>0, <1>2, EraseProperties
<1> HIDE DEF b, w
<1>4. ASSUME NEW k \in 1 .. Len(b)
      PROVE  b[k] = w[k]
  <2>1. CASE k < p
    BY <1>0, <1>1, <1>3, <2>1
  <2>2. CASE k >= p
    <3>1. /\ k \in p .. Len(bytes) - n /\ k \in p .. Len(whole) - n
          /\ k + n \in 1 .. Len(bytes)
      BY <1>0, <1>1, <2>2
    <3> QED
      BY <1>0, <1>1, <1>3, <3>1
  <2> QED
    BY <1>0, <1>1, <2>1, <2>2
<1> QED
  BY <1>0, <1>1, <1>3, <1>4 DEF Cut, b, w

\* An insertion in both, at a place that both have.
AlikeInsert(bytes, whole, p, new) ==
  /\ Cut(Insert(bytes, p, new), Insert(whole, p, new))
  /\ Len(Insert(bytes, p, new)) = Len(bytes) + Len(new)
  /\ Len(Insert(whole, p, new)) = Len(whole) + Len(new)

LEMMA CutInsert ==
  ASSUME NEW bytes, NEW whole, Cut(bytes, whole), NEW new \in Seq(Byte),
         NEW p \in Nat \ {0}, p <= Len(bytes) + 1
  PROVE  AlikeInsert(bytes, whole, p, new)
<1> DEFINE b == Insert(bytes, p, new)
           w == Insert(whole, p, new)
<1>0. /\ bytes \in Seq(Byte) /\ whole \in Seq(Byte) /\ Len(bytes) \in Nat
      /\ Len(whole) \in Nat /\ Len(bytes) <= Len(whole) /\ Len(new) \in Nat
      /\ \A k \in 1 .. Len(bytes) : bytes[k] = whole[k]
  BY LenProperties DEF Cut
<1>1. /\ b \in Seq(Byte) /\ Len(b) = Len(bytes) + Len(new)
      /\ \A i \in 1 .. p - 1 : b[i] = bytes[i]
      /\ \A i \in 1 .. Len(new) : b[p + i - 1] = new[i]
      /\ \A i \in p .. Len(bytes) : b[i + Len(new)] = bytes[i]
  BY <1>0, InsertProperties, ZenonT(40)
<1>2. p <= Len(whole) + 1
  BY <1>0
<1>3. /\ w \in Seq(Byte) /\ Len(w) = Len(whole) + Len(new)
      /\ \A i \in 1 .. p - 1 : w[i] = whole[i]
      /\ \A i \in 1 .. Len(new) : w[p + i - 1] = new[i]
      /\ \A i \in p .. Len(whole) : w[i + Len(new)] = whole[i]
  BY <1>0, <1>2, InsertProperties, ZenonT(40)
<1> HIDE DEF b, w
<1>4. ASSUME NEW k \in 1 .. Len(b)
      PROVE  b[k] = w[k]
  <2>1. CASE k < p
    BY <1>0, <1>1, <1>3, <2>1
  <2>2. CASE k >= p /\ k < p + Len(new)
    <3>1. PICK i \in 1 .. Len(new) : i = k - p + 1
      BY <1>0, <2>2
    <3>2. k = p + i - 1
      BY <3>1
    <3> QED
      BY <1>1, <1>3, <3>2
  <2>3. CASE k >= p + Len(new)
    <3>1. PICK i \in p .. Len(bytes) : i = k - Len(new)
      BY <1>0, <1>1, <2>3
    <3>2. k = i + Len(new) /\ i \in p .. Len(whole) /\ i \in 1 .. Len(bytes)
      BY <1>0, <3>1
    <3> QED
      BY <1>0, <1>1, <1>3, <3>2
  <2> QED
    BY <1>0, <1>1, <2>1, <2>2, <2>3
<1>5. Cut(b, w)
  BY <1>0, <1>1, <1>3, <1>4 DEF Cut
<1> QED
  BY <1>1, <1>3, <1>5, Zenon DEF AlikeInsert, b, w

\* What is read of an entry that is all there.
LEMMA EntryThatLies ==
  ASSUME ProperFile, NEW e \in Known, NEW bytes, NEW p, Lies(bytes, p, Image(e))
  PROVE  /\ HasLength(bytes, p) /\ OldTotalSize(bytes, p) = Len(Image(e))
         /\ EntryAt(bytes, p) = e /\ NextEntry(bytes, p) = p + Len(Image(e))
<1>1. PICK hb, d : hb = e.hash /\ d = e
  OBVIOUS
<1>2. EntryBytes(hb, d) /\ Len(d.text) < LenMod /\ d = EntryOf(hb, d)
  BY <1>1, KnownEntry, Zenon
<1>3. Lies(bytes, p, NewEntry(hb, d)) /\ Image(e) = NewEntry(hb, d)
  BY <1>1, Zenon DEF Image
<1>4. /\ HasLength(bytes, p)
      /\ OldTotalSize(bytes, p) = Len(NewEntry(hb, d))
      /\ EntryAt(bytes, p) = EntryOf(hb, d)
  BY <1>2, <1>3, EntryRead
<1>5. NextEntry(bytes, p) = p + OldTotalSize(bytes, p)
  <2>0. bytes \in Seq(Byte) /\ p \in Nat \ {0}
    BY DEF Lies
  <2>1. PICK k : k = StoredLength(bytes, p)
    OBVIOUS
  <2>2. k \in Nat
    BY <1>4, <2>0, <2>1, StoredLengthType
  <2>3. p + HeaderLen + k = p + (HeaderLen + k)
    BY <2>0, <2>2, HeaderIsNat
  <2> QED
    BY <2>1, <2>3 DEF NextEntry, OldTotalSize
<1> QED
  BY <1>1, <1>2, <1>3, <1>4, <1>5, Zenon

\* All entries but the last are there ...
LEMMA BrokenEntry ==
  ASSUME ProperFile, NEW bytes, NEW whole, NEW u, NEW z, LaidOut(whole, u, z),
         LacksEnd(bytes, whole, u), NEW i \in 1 .. Len(u), i < Len(u)
  PROVE  u[i] \in Known /\ Lies(bytes, z[i], Image(u[i])) /\ z[i + 1] <= Len(bytes)
<1>0. /\ bytes \in Seq(Byte) /\ whole \in Seq(Byte) /\ Len(bytes) \in Nat
      /\ Len(whole) \in Nat /\ Len(u) \in Nat /\ z[Len(u) + 1] = Len(whole) + 1
      /\ \A k \in 1 .. Len(bytes) : bytes[k] = whole[k]
      /\ Len(whole) - Len(Image(u[Len(u)])) < Len(bytes)
  BY LenProperties DEF LacksEnd, Cut, LaidOut
<1>1. /\ u[i] \in Known /\ z[i] \in Nat \ {0} /\ Lies(whole, z[i], Image(u[i]))
      /\ z[i + 1] = z[i] + Len(Image(u[i]))
  BY EntryOfTable
<1>2. PICK n \in 1 .. Len(u) : n = Len(u)
  BY <1>0
<1>3. /\ u[n] \in Known /\ z[n] \in Nat \ {0}
      /\ z[n + 1] = z[n] + Len(Image(u[n]))
  BY EntryOfTable
<1>4. Len(Image(u[i])) \in Nat /\ Len(Image(u[n])) \in Nat
  BY <1>1, <1>3, ImageProperties
<1>5. z[i + 1] <= z[n]
  <2>1. n \in 1 .. Len(u) + 1 /\ i + 1 \in 1 .. n
    BY <1>0, <1>2
  <2> QED
    BY <2>1, Rising
<1>6. z[n] <= Len(bytes)
  BY <1>0, <1>2, <1>3, <1>4
<1>7. z[i + 1] <= Len(bytes)
  BY <1>0, <1>1, <1>3, <1>4, <1>5, <1>6, SMTT(30)
<1>8. PICK l, p : l = Len(Image(u[i])) /\ p = z[i]
  OBVIOUS
<1>9. p + l - 1 <= Len(bytes) /\ p \in Nat \ {0} /\ l \in Nat
  BY <1>0, <1>1, <1>4, <1>7, <1>8, SMTT(30)
<1>10. ASSUME NEW k \in 1 .. l
       PROVE  bytes[p + k - 1] = Image(u[i])[k]
  <2>1. p + k - 1 \in 1 .. Len(bytes)
    BY <1>0, <1>9
  <2>2. whole[p + k - 1] = Image(u[i])[k]
    BY <1>1, <1>8 DEF Lies
  <2> QED
    BY <1>0, <2>1, <2>2
<1>11. Lies(bytes, z[i], Image(u[i]))
  BY <1>0, <1>1, <1>8, <1>9, <1>10 DEF Lies
<1> QED
  BY <1>1, <1>7, <1>11

\* ... and the last reaches past the end.
LEMMA BrokenLast ==
  ASSUME ProperFile, NEW bytes, NEW whole, NEW u, NEW z, LaidOut(whole, u, z),
         LacksEnd(bytes, whole, u)
  PROVE  /\ Len(u) \in 1 .. Len(u)
         /\ z[Len(u)] \in 1 .. Len(bytes)
         /\ \A size \in OldTotalSizes(bytes, z[Len(u)]) :
              size \in Nat /\ z[Len(u)] + size - 1 > Len(bytes)
<1>0. /\ bytes \in Seq(Byte) /\ whole \in Seq(Byte) /\ Len(bytes) \in Nat
      /\ Len(whole) \in Nat /\ Len(u) \in Nat /\ z[Len(u) + 1] = Len(whole) + 1
      /\ \A k \in 1 .. Len(bytes) : bytes[k] = whole[k]
      /\ Len(whole) - Len(Image(u[Len(u)])) < Len(bytes)
      /\ Len(bytes) < Len(whole) /\ Len(u) # 0
  BY LenProperties DEF LacksEnd, Cut, LaidOut
<1>1. PICK n \in 1 .. Len(u) : n = Len(u)
  BY <1>0
<1>2. PICK p, l : p = z[n] /\ l = Len(Image(u[n]))
  OBVIOUS
<1>3. /\ u[n] \in Known /\ p \in Nat \ {0} /\ z[n + 1] = p + l
      /\ HasLength(whole, p) /\ OldTotalSize(whole, p) = l
  BY <1>2, EntryOfTable
<1>4. l \in Nat
  BY <1>2, <1>3, ImageProperties
<1>5. p + l = Len(whole) + 1 /\ p \in 1 .. Len(bytes)
  BY <1>0, <1>1, <1>2, <1>3, <1>4
<1>6. ASSUME NEW size \in OldTotalSizes(bytes, p)
      PROVE  size \in Nat /\ p + size - 1 > Len(bytes)
  <2>0. size \in Nat /\ size >= HeaderLen
    BY <1>0, <1>3, OldTotalSizesType
  <2>1. CASE HasLength(bytes, p)
    <3>1. p + LenOff + 1 <= Len(bytes)
      BY <2>1 DEF HasLength
    <3>2. p + LenOff \in 1 .. Len(bytes) /\ p + LenOff + 1 \in 1 .. Len(bytes)
      BY <1>0, <1>3, <3>1, LenOffIsNat, SMTT(30)
    <3>3. bytes[p + LenOff] = whole[p + LenOff] /\ bytes[p + LenOff + 1] = whole[p + LenOff + 1]
      BY <1>0, <3>2
    <3>4. OldTotalSize(bytes, p) = l
      BY <1>3, <3>3 DEF OldTotalSize, StoredLength
    <3>5. size = l
      BY <2>1, <3>4, Zenon DEF OldTotalSizes
    <3> QED
      BY <1>0, <1>3, <1>4, <1>5, <3>5
  <2>2. CASE ~ HasLength(bytes, p)
    BY <1>0, <1>3, <2>0, <2>2, LenOffIsNat DEF HasLength
  <2> QED
    BY <2>1, <2>2
<1> QED
  BY <1>1, <1>2, <1>5, <1>6

\* The walk of a reader gets stuck.
Stops(q) == q \in Seq(Known \cup {Torn}) /\ \E j \in 1 .. Len(q) : q[j] = Torn

LEMMA StopsBehind ==
  ASSUME NEW e \in Known, NEW q, Stops(q)
  PROVE  Stops(<< e >> \o q)
<1> DEFINE S == Known \cup {Torn}
           r == << e >> \o q
<1>0. << e >> \in Seq(S) /\ Len(<< e >>) = 1
  OBVIOUS
<1>1. q \in Seq(S) /\ Len(q) \in Nat
  BY LenProperties DEF Stops
<1>2. PICK j \in 1 .. Len(q) : q[j] = Torn
  BY DEF Stops
<1> HIDE DEF S
<1>3. /\ r \in Seq(S) /\ Len(r) = 1 + Len(q)
      /\ \A i \in 1 .. 1 + Len(q) : r[i] = IF i <= 1 THEN << e >>[i] ELSE q[i - 1]
  BY <1>0, <1>1, ConcatProperties
<1>4. j + 1 \in 1 .. 1 + Len(q) /\ ~ (j + 1 <= 1) /\ j + 1 - 1 = j
  BY <1>1
<1> HIDE DEF r
<1>5. r[j + 1] = Torn
  BY <1>2, <1>3, <1>4
<1>6. j + 1 \in 1 .. Len(r)
  BY <1>3, <1>4
<1>7. r \in Seq(Known \cup {Torn})
  BY <1>3 DEF S
<1> QED
  BY <1>5, <1>6, <1>7 DEF Stops, r

LEMMA BrokenNotFramed ==
  ASSUME ProperFile, NEW bytes, Broken(bytes)
  PROVE  ~ Framed(bytes)
<1>1. PICK whole, u, z : LaidOut(whole, u, z) /\ LacksEnd(bytes, whole, u)
  BY DEF Broken
<1>2. /\ bytes \in Seq(Byte) /\ Len(bytes) \in Nat /\ Len(u) \in Nat
      /\ z \in [1 .. Len(u) + 1 -> Nat \ {0}] /\ z[1] = 1
  BY <1>1, LenProperties DEF LacksEnd, Cut, LaidOut
<1>3. PICK g : /\ Decode(bytes) = g[1]
               /\ \A p \in 1 .. Len(bytes) + 1 : g[p] = WalkFrom(bytes, g, p)
  BY <1>2, DecodeWalks
<1>4. PICK n \in 1 .. Len(u) : n = Len(u)
  BY <1>1, BrokenLast
<1>5. n \in Nat /\ n >= 1
  BY <1>2
<1>6. Stops(g[z[n]])
  <2>1. PICK p : p = z[n]
    OBVIOUS
  <2>2. /\ p \in 1 .. Len(bytes)
        /\ \A size \in OldTotalSizes(bytes, p) : size \in Nat /\ p + size - 1 > Len(bytes)
    BY <1>1, <1>4, <2>1, BrokenLast
  <2>3. ~ (HasLength(bytes, p) /\ NextEntry(bytes, p) <= Len(bytes) + 1)
    <3> SUFFICES ASSUME HasLength(bytes, p), NextEntry(bytes, p) <= Len(bytes) + 1
                 PROVE  FALSE
      OBVIOUS
    <3>1. OldTotalSize(bytes, p) \in OldTotalSizes(bytes, p)
      BY DEF OldTotalSizes
    <3>2. p + OldTotalSize(bytes, p) - 1 > Len(bytes) /\ OldTotalSize(bytes, p) \in Nat
      BY <2>2, <3>1
    <3>3. PICK k : k = StoredLength(bytes, p)
      OBVIOUS
    <3>4. k \in Nat
      BY <1>2, <2>2, <3>3, StoredLengthType
    <3>5. p + (HeaderLen + k) - 1 > Len(bytes) /\ p + HeaderLen + k <= Len(bytes) + 1
      BY <3>2, <3>3 DEF OldTotalSize, NextEntry
    <3> QED
      BY <1>2, <2>2, <3>4, <3>5, HeaderIsNat
  <2>4. p \in 1 .. Len(bytes) + 1 /\ p # Len(bytes) + 1
    BY <1>2, <2>2
  <2>5. g[p] = << Torn >>
    BY <1>3, <2>3, <2>4, Zenon DEF WalkFrom
  <2>6. Stops(<< Torn >>)
    <3>1. << Torn >> \in Seq(Known \cup {Torn}) /\ Len(<< Torn >>) = 1 /\ << Torn >>[1] = Torn
      OBVIOUS
    <3> QED
      BY <3>1 DEF Stops
  <2> QED
    BY <2>1, <2>5, <2>6
<1> DEFINE T == { m \in Nat : m < n => Stops(g[z[n - m]]) }
<1>7. 0 \in T
  <2>1. n - 0 = n
    BY <1>5
  <2> QED
    BY <1>6, <2>1
<1>8. ASSUME NEW m \in T
      PROVE  m + 1 \in T
  <2>0. m \in Nat /\ (m < n => Stops(g[z[n - m]]))
    OBVIOUS
  <2> SUFFICES ASSUME m + 1 < n
               PROVE  Stops(g[z[n - (m + 1)]])
    OBVIOUS
  <2> HIDE DEF T
  <2>1. PICK i : i = n - (m + 1)
    OBVIOUS
  <2>2. i \in 1 .. n /\ i < n /\ n - m = i + 1 /\ m < n
    BY <1>5, <2>0, <2>1
  <2>3. Stops(g[z[i + 1]])
    BY <2>0, <2>2
  <2>4. i \in 1 .. Len(u) /\ i < Len(u)
    BY <1>4, <2>2
  <2>5. u[i] \in Known /\ Lies(bytes, z[i], Image(u[i])) /\ z[i + 1] <= Len(bytes)
    BY <1>1, <2>4, BrokenEntry
  <2>6. PICK e \in Known : e = u[i]
    BY <2>5
  <2>7. PICK p : p = z[i]
    OBVIOUS
  <2>8. Lies(bytes, p, Image(e))
    BY <2>5, <2>6, <2>7
  <2>9. /\ HasLength(bytes, p) /\ EntryAt(bytes, p) = e
        /\ NextEntry(bytes, p) = p + Len(Image(e))
    BY <2>8, EntryThatLies
  <2>10. z[i + 1] = p + Len(Image(e)) /\ p \in Nat \ {0}
    BY <1>1, <2>4, <2>6, <2>7, EntryOfTable
  <2>11. Len(Image(e)) \in Nat
    BY ImageProperties
  <2>12. NextEntry(bytes, p) = z[i + 1] /\ NextEntry(bytes, p) <= Len(bytes) + 1
    BY <1>2, <2>5, <2>9, <2>10, <2>11
  <2>13. p \in 1 .. Len(bytes) + 1 /\ p # Len(bytes) + 1
    BY <1>2, <2>5, <2>10, <2>11
  <2>14. g[p] = WalkFrom(bytes, g, p)
    BY <1>3, <2>13, Zenon
  <2>15. g[p] = << e >> \o g[z[i + 1]]
    BY <2>9, <2>12, <2>13, <2>14, Zenon DEF WalkFrom
  <2>16. PICK q : q = g[z[i + 1]]
    OBVIOUS
  <2>17. Stops(<< e >> \o q)
    BY <2>3, <2>16, StopsBehind
  <2> QED
    BY <2>1, <2>7, <2>15, <2>16, <2>17
<1>9. T = Nat
  <2>1. T \in SUBSET Nat
    OBVIOUS
  <2> HIDE DEF T
  <2> QED
    BY <1>7, <1>8, <2>1, Induction, Zenon
<1>10. n - 1 \in T
  BY <1>5, <1>9
<1>11. n - 1 < n /\ n - (n - 1) = 1
  BY <1>5
<1>12. Stops(g[1])
  BY <1>2, <1>10, <1>11
<1>13. PICK q : q = Decode(bytes)
  OBVIOUS
<1>14. Stops(q)
  BY <1>3, <1>12, <1>13
<1>15. DOMAIN q = 1 .. Len(q)
  BY <1>14, LenProperties DEF Stops
<1> QED
  BY <1>13, <1>14, <1>15 DEF Framed, Stops

LEMMA FirstBytes ==
  ASSUME NEW bytes \in Seq(Byte), NEW n \in Nat, n <= Len(bytes)
  PROVE  /\ SubSeq(bytes, 1, n) \in Seq(Byte) /\ Len(SubSeq(bytes, 1, n)) = n
         /\ \A k \in 1 .. n : SubSeq(bytes, 1, n)[k] = bytes[k]
<1>1. /\ SubSeq(bytes, 1, n) \in Seq(Byte)
      /\ Len(SubSeq(bytes, 1, n)) = IF 1 <= n THEN n - 1 + 1 ELSE 0
      /\ \A k \in 1 .. n - 1 + 1 : SubSeq(bytes, 1, n)[k] = bytes[1 + k - 1]
  BY Piece
<1>2. n - 1 + 1 = n /\ (~ (1 <= n) => n = 0) /\ \A k \in 1 .. n : 1 + k - 1 = k
  OBVIOUS
<1> QED
  BY <1>1, <1>2

\* The first i entries are a table of their own.
LEMMA FirstEntries ==
  ASSUME ProperFile, NEW whole, NEW u, NEW z, LaidOut(whole, u, z),
         NEW i \in 1 .. Len(u)
  PROVE  \E s : LaidOut(SubSeq(whole, 1, z[i + 1] - 1), SubSeq(u, 1, i), s)
<1> DEFINE n == z[i + 1] - 1
           front == SubSeq(whole, 1, n)
           t == SubSeq(u, 1, i)
           s == [j \in 1 .. i + 1 |-> z[j]]
<1>0. /\ whole \in Seq(Byte) /\ Len(whole) \in Nat
      /\ u \in Seq(Known) /\ Len(u) \in Nat
      /\ z \in [1 .. Len(u) + 1 -> Nat \ {0}]
      /\ z[1] = 1 /\ z[Len(u) + 1] = Len(whole) + 1
  BY LenProperties DEF LaidOut
<1>1. i \in Nat /\ i >= 1 /\ i <= Len(u) /\ i + 1 \in 1 .. Len(u) + 1
  BY <1>0
<1>2. n \in Nat /\ n <= Len(whole)
  <2>1. Len(u) + 1 \in 1 .. Len(u) + 1 /\ i + 1 \in 1 .. Len(u) + 1
    BY <1>0, <1>1
  <2>2. z[i + 1] <= z[Len(u) + 1]
    BY <2>1, Rising
  <2> QED
    BY <1>0, <1>1, <2>2, SMTT(30)
<1>3. /\ front \in Seq(Byte) /\ Len(front) = n
      /\ \A k \in 1 .. n : front[k] = whole[k]
  BY <1>0, <1>2, FirstBytes
<1>4. /\ t \in Seq(Known) /\ Len(t) = i
      /\ \A j \in 1 .. i : t[j] = u[j]
  <2>1. \A j \in 1 .. i : u[j] \in Known
    BY <1>0, <1>1, ElementOfSeq
  <2>2. /\ SubSeq(u, 1, i) \in Seq(Known)
        /\ Len(SubSeq(u, 1, i)) = IF 1 <= i THEN i - 1 + 1 ELSE 0
        /\ \A j \in 1 .. i - 1 + 1 : SubSeq(u, 1, i)[j] = u[1 + j - 1]
    BY <1>1, <2>1, SubSeqProperties
  <2>3. i - 1 + 1 = i /\ \A j \in 1 .. i : 1 + j - 1 = j
    BY <1>1
  <2> QED
    BY <1>1, <2>2, <2>3
<1> HIDE DEF front, t
<1>5. s \in [1 .. i + 1 -> Nat \ {0}] /\ s[1] = 1 /\ s[i + 1] = n + 1
  <2>1. \A j \in 1 .. i + 1 : z[j] \in Nat \ {0}
    BY <1>0, <1>1
  <2>2. z[i + 1] = n + 1
    BY <2>1, <1>1
  <2> QED
    BY <1>0, <1>1, <2>1, <2>2
<1>6. ASSUME NEW j \in 1 .. i
      PROVE  s[j + 1] = s[j] + Len(Image(t[j])) /\ Lies(front, s[j], Image(t[j]))
  <2>1. PICK k \in 1 .. Len(u) : k = j
    BY <1>0, <1>1
  <2>2. PICK p, l : p = z[k] /\ l = Len(Image(u[k]))
    OBVIOUS
  <2>3. /\ u[k] \in Known /\ p \in Nat \ {0} /\ z[k + 1] = p + l
        /\ Lies(whole, p, Image(u[k]))
    BY <2>2, EntryOfTable
  <2>4. l \in Nat
    BY <2>2, <2>3, ImageProperties
  <2>5. s[j] = p /\ s[j + 1] = p + l /\ t[j] = u[k]
    BY <1>1, <1>4, <2>1, <2>2, <2>3
  <2>6. p + l <= n + 1
    <3>1. i + 1 \in 1 .. Len(u) + 1 /\ k + 1 \in 1 .. i + 1
      BY <1>1, <2>1
    <3>2. z[k + 1] <= z[i + 1]
      BY <3>1, Rising
    <3> QED
      BY <1>2, <1>5, <2>3, <2>4, <3>2
  <2> HIDE DEF n, s
  <2>7. \A h \in 1 .. l : front[p + h - 1] = Image(u[k])[h]
    <3>1. \A h \in 1 .. l : p + h - 1 \in 1 .. n
      BY <1>2, <2>3, <2>4, <2>6
    <3>2. \A h \in 1 .. l : whole[p + h - 1] = Image(u[k])[h]
      BY <2>2, <2>3 DEF Lies
    <3> QED
      BY <1>3, <3>1, <3>2
  <2>8. p + l - 1 <= Len(front)
    BY <1>2, <1>3, <2>3, <2>4, <2>6
  <2>9. Lies(front, p, Image(u[k]))
    BY <1>3, <2>2, <2>3, <2>7, <2>8 DEF Lies
  <2> QED
    BY <2>2, <2>5, <2>9
<1> HIDE DEF s
<1>7. LaidOut(front, t, s)
  BY <1>3, <1>4, <1>5, <1>6 DEF LaidOut
<1> QED
  BY <1>7 DEF front, t

\* Whatever part of a table is written, it is sound.
LEMMA SoundCut ==
  ASSUME ProperFile, NEW bytes, NEW whole, NEW u, NEW z, LaidOut(whole, u, z),
         Cut(bytes, whole)
  PROVE  Sound(bytes)
<1>0. /\ bytes \in Seq(Byte) /\ Len(bytes) \in Nat
      /\ whole \in Seq(Byte) /\ Len(whole) \in Nat /\ Len(bytes) <= Len(whole)
      /\ \A k \in 1 .. Len(bytes) : bytes[k] = whole[k]
      /\ u \in Seq(Known) /\ Len(u) \in Nat /\ z \in [1 .. Len(u) + 1 -> Nat \ {0}]
  BY LenProperties DEF Cut, LaidOut
<1>1. CASE Len(bytes) = 0
  <2>1. bytes = << >>
    BY <1>0, <1>1, EmptySeq
  <2> QED
    BY <2>1, EmptyFile DEF Sound, Tabled
<1>2. CASE Len(bytes) # 0
  <2>1. Len(bytes) \in 1 .. Len(whole)
    BY <1>0, <1>2
  <2>2. PICK i \in 1 .. Len(u) : z[i] <= Len(bytes) /\ Len(bytes) < z[i + 1]
    BY <2>1, Covering
  <2> DEFINE n == z[i + 1] - 1
             front == SubSeq(whole, 1, n)
             t == SubSeq(u, 1, i)
  <2>3. PICK s : LaidOut(front, t, s)
    BY FirstEntries
  <2>4. PICK p, l : p = z[i] /\ l = Len(Image(u[i]))
    OBVIOUS
  <2>5. /\ u[i] \in Known /\ p \in Nat \ {0} /\ z[i + 1] = p + l
    BY <2>4, EntryOfTable
  <2>6. l \in Nat
    BY <2>4, <2>5, ImageProperties
  <2>7. n \in Nat /\ n = p + l - 1 /\ Len(bytes) <= n /\ p <= Len(bytes)
    BY <1>0, <2>2, <2>4, <2>5, <2>6, SMTT(30)
  <2>12. n <= Len(whole)
    <3>1. Len(u) + 1 \in 1 .. Len(u) + 1 /\ i + 1 \in 1 .. Len(u) + 1
      BY <1>0
    <3>2. z[i + 1] <= z[Len(u) + 1] /\ z[Len(u) + 1] = Len(whole) + 1
      BY <3>1, Rising DEF LaidOut
    <3> QED
      BY <1>0, <2>5, <2>6, <2>7, <3>2
  <2> HIDE DEF n
  <2>8. /\ front \in Seq(Byte) /\ Len(front) = n
        /\ \A k \in 1 .. n : front[k] = whole[k]
    BY <1>0, <2>7, <2>12, FirstBytes
  <2>9. Len(t) = i /\ t[i] = u[i] /\ i # 0
    <3>1. \A j \in 1 .. i : u[j] \in Known
      BY <1>0, ElementOfSeq
    <3>2. /\ Len(SubSeq(u, 1, i)) = IF 1 <= i THEN i - 1 + 1 ELSE 0
          /\ \A j \in 1 .. i - 1 + 1 : SubSeq(u, 1, i)[j] = u[1 + j - 1]
      BY <3>1, SubSeqProperties
    <3>3. i - 1 + 1 = i /\ 1 <= i /\ i \in 1 .. i /\ 1 + i - 1 = i
      BY <1>0
    <3> QED
      BY <3>2, <3>3
  <2> HIDE DEF front, t
  <2>10. CASE Len(bytes) = n
    <3>1. bytes = front
      BY <1>0, <2>7, <2>8, <2>10, SeqEqual
    <3> QED
      BY <2>3, <3>1 DEF Sound, Tabled
  <2>11. CASE Len(bytes) # n
    <3>1. Cut(bytes, front)
      BY <1>0, <2>7, <2>8 DEF Cut
    <3>2. Len(bytes) < Len(front) /\ Len(front) - l < Len(bytes)
      BY <1>0, <2>5, <2>6, <2>7, <2>8, <2>11
    <3>3. LacksEnd(bytes, front, t)
      BY <2>4, <2>9, <3>1, <3>2 DEF LacksEnd
    <3> QED
      BY <2>3, <3>3 DEF Sound, Broken
  <2> QED
    BY <2>10, <2>11
<1> QED
  BY <1>1, <1>2

LEMMA SoundPrefix ==
  ASSUME ProperFile, NEW bytes, Sound(bytes), NEW n \in Nat, n <= Len(bytes)
  PROVE  Sound(SubSeq(bytes, 1, n))
<1> DEFINE part == SubSeq(bytes, 1, n)
<1>1. PICK whole, u, z : LaidOut(whole, u, z) /\ Cut(bytes, whole)
  <2>1. CASE Tabled(bytes)
    <3>1. PICK t, s : LaidOut(bytes, t, s)
      BY <2>1 DEF Tabled
    <3>2. bytes \in Seq(Byte) /\ Len(bytes) \in Nat
      BY <3>1, LenProperties DEF LaidOut
    <3>3. Cut(bytes, bytes)
      BY <3>2 DEF Cut
    <3> QED
      BY <3>1, <3>3
  <2>2. CASE Broken(bytes)
    BY <2>2 DEF Broken, LacksEnd
  <2> QED
    BY <2>1, <2>2 DEF Sound
<1>2. /\ bytes \in Seq(Byte) /\ Len(bytes) \in Nat
      /\ whole \in Seq(Byte) /\ Len(whole) \in Nat /\ Len(bytes) <= Len(whole)
      /\ \A k \in 1 .. Len(bytes) : bytes[k] = whole[k]
  BY <1>1, LenProperties DEF Cut
<1>3. /\ part \in Seq(Byte) /\ Len(part) = n
      /\ \A k \in 1 .. n : part[k] = bytes[k]
  BY <1>2, FirstBytes
<1> HIDE DEF part
<1>4. Cut(part, whole)
  BY <1>2, <1>3 DEF Cut
<1>5. Sound(part)
  BY <1>1, <1>4, SoundCut
<1> QED
  BY <1>5 DEF part

LEMMA CutMatches ==
  ASSUME NEW bytes, NEW whole, Cut(bytes, whole), NEW hb \in Seq(Byte),
         NEW p \in Matches(bytes, hb)
  PROVE  p \in Matches(whole, hb)
<1>0. /\ Len(bytes) \in Nat /\ Len(whole) \in Nat /\ Len(bytes) <= Len(whole)
      /\ Len(hb) \in Nat /\ \A k \in 1 .. Len(bytes) : bytes[k] = whole[k]
  BY LenProperties DEF Cut
<1>1. /\ p \in 1 .. Len(bytes) - Len(hb) + 1
      /\ \A i \in 1 .. Len(hb) : bytes[p + i - 1] = hb[i]
  BY DEF Matches
<1>2. p \in 1 .. Len(whole) - Len(hb) + 1
  BY <1>0, <1>1
<1>3. \A i \in 1 .. Len(hb) : p + i - 1 \in 1 .. Len(bytes)
  BY <1>0, <1>1
<1>4. \A i \in 1 .. Len(hb) : whole[p + i - 1] = hb[i]
  BY <1>0, <1>1, <1>3
<1> QED
  BY <1>2, <1>4 DEF Matches

\* An update of an entry that is all there leaves the last one as broken as it
\* was.
LEMMA BrokenErase ==
  ASSUME ProperFile, NEW bytes, NEW whole, NEW u, NEW z, LaidOut(whole, u, z),
         LacksEnd(bytes, whole, u), NEW i \in 1 .. Len(u), i < Len(u),
         NEW e \in Known
  PROVE  /\ Broken(Erase(bytes, z[i], Len(Image(u[i]))))
         /\ Broken(Replaced(bytes, z[i], Len(Image(u[i])), Image(e)))
<1>0. /\ bytes \in Seq(Byte) /\ Len(bytes) \in Nat
      /\ whole \in Seq(Byte) /\ Len(whole) \in Nat /\ Cut(bytes, whole)
      /\ u \in Seq(Known) /\ Len(u) \in Nat
      /\ Len(bytes) < Len(whole) /\ Len(whole) - Len(Image(u[Len(u)])) < Len(bytes)
  BY LenProperties DEF Cut, LaidOut, LacksEnd
<1>1. PICK p, l : p = z[i] /\ l = Len(Image(u[i]))
  OBVIOUS
<1>2. PICK m, last : m = Len(u) /\ last = Len(Image(u[Len(u)]))
  OBVIOUS
<1>3. m \in Nat /\ m \in 1 .. Len(u) /\ m - 1 \in Nat /\ m # 0 /\ m - 1 # 0
  BY <1>0, <1>2
<1>4. last \in Nat
  <2>1. u[m] \in Known
    BY <1>3, EntryOfTable
  <2> QED
    BY <1>2, <2>1, ImageProperties
<1>5. u[i] \in Known /\ Lies(bytes, p, Image(u[i]))
  BY <1>1, BrokenEntry
<1>6. l \in Nat /\ p \in Nat \ {0} /\ p + l - 1 <= Len(bytes)
  BY <1>1, <1>5, ImageProperties DEF Lies
<1>7. Image(e) \in Seq(Byte) /\ Len(Image(e)) \in Nat
  BY ImageProperties
<1> DEFINE b == Erase(bytes, p, l)
           w == Erase(whole, p, l)
           b2 == Replaced(bytes, p, l, Image(e))
           w2 == Replaced(whole, p, l, Image(e))
           t == Without(u, i)
           t2 == [u EXCEPT ![i] = e]
<1>8. Cut(b, w) /\ Len(b) = Len(bytes) - l /\ Len(w) = Len(whole) - l
  BY <1>0, <1>6, CutErase
<1>9. PICK y : LaidOut(w, t, y)
  BY <1>1, RemoveEntry
<1>10. PICK x : LaidOut(w2, t2, x)
  BY <1>1, ReplaceEntry
<1>11. /\ Cut(b2, w2) /\ Len(b2) = Len(b) + Len(Image(e))
       /\ Len(w2) = Len(w) + Len(Image(e))
  <2>1. p <= Len(b) + 1
    BY <1>0, <1>6, <1>8
  <2> HIDE DEF b, w
  <2>2. PICK new \in Seq(Byte) : new = Image(e)
    BY <1>7
  <2>3. AlikeInsert(b, w, p, new)
    <3>1. p \in Nat \ {0} /\ Cut(b, w)
      BY <1>6, <1>8, Zenon
    <3> QED
      BY <2>1, <3>1, CutInsert, Zenon
  <2>4. b2 = Insert(b, p, new) /\ w2 = Insert(w, p, new)
    BY <2>2, Zenon DEF Replaced, b, w
  <2> HIDE DEF b2, w2
  <2> QED
    BY <2>2, <2>3, <2>4, Zenon DEF AlikeInsert
<1>12. Len(t) = m - 1 /\ t[m - 1] = u[m]
  <2>1. Len(t) = m - 1 /\ t \in [1 .. m - 1 -> {IF j < i THEN u[j] ELSE u[j + 1] : j \in 1 .. m - 1}]
    <3>1. t = [j \in 1 .. m - 1 |-> IF j < i THEN u[j] ELSE u[j + 1]]
      BY <1>2 DEF Without
    <3> HIDE DEF t
    <3>2. t \in [1 .. m - 1 -> {IF j < i THEN u[j] ELSE u[j + 1] : j \in 1 .. m - 1}]
      BY <3>1
    <3> QED
      BY <1>3, <3>2, FunctionIsSeq
  <2>2. m - 1 \in 1 .. Len(u) - 1 /\ ~ (m - 1 < i) /\ m - 1 + 1 = m
    BY <1>2, <1>3
  <2> QED
    BY <2>1, <2>2 DEF Without
<1>13. Len(t2) = m /\ t2[m] = u[m]
  <2>1. i # m
    BY <1>2
  <2> QED
    BY <1>0, <1>2, <1>3, <2>1, ExceptSeq
<1> HIDE DEF b, w, b2, w2, t, t2
<1>14. LacksEnd(b, w, t)
  <2>1. Len(b) < Len(w) /\ Len(w) - last < Len(b)
    BY <1>0, <1>2, <1>4, <1>6, <1>8
  <2>2. Len(Image(t[Len(t)])) = last
    BY <1>2, <1>12
  <2> QED
    BY <1>3, <1>8, <1>12, <2>1, <2>2 DEF LacksEnd
<1>15. LacksEnd(b2, w2, t2)
  <2>1. Len(b2) < Len(w2) /\ Len(w2) - last < Len(b2)
    BY <1>0, <1>2, <1>4, <1>6, <1>7, <1>8, <1>11, SMTT(30)
  <2>2. Len(Image(t2[Len(t2)])) = last
    BY <1>2, <1>13
  <2> QED
    BY <1>3, <1>11, <1>13, <2>1, <2>2 DEF LacksEnd
<1>16. Broken(b) /\ Broken(b2)
  BY <1>9, <1>10, <1>14, <1>15, Zenon DEF Broken
<1> QED
  BY <1>1, <1>16 DEF b, b2

\* The vector of a single worker, before, after and at the end of the splice: a
\* table throughout or broken throughout, if what is inserted is an entry.
AlikeOver(bytes, p, n, new, entry) ==
  \/ /\ Tabled(bytes) /\ Tabled(Erase(bytes, p, n))
     /\ entry => Tabled(Replaced(bytes, p, n, new))
  \/ /\ Broken(bytes) /\ Broken(Erase(bytes, p, n))
     /\ entry => Broken(Replaced(bytes, p, n, new))

LEMMA EraseSound ==
  ASSUME ProperFile, NEW c \in CallRecord, NEW bytes, Sound(bytes),
         c.pc = "erase", Aimed(bytes, c)
  PROVE  /\ Tabled(bytes) => c.findIdx + c.oldTotalSize - 1 <= Len(bytes)
         /\ c.findIdx + c.oldTotalSize - 1 <= Len(bytes) =>
              AlikeOver(bytes, c.findIdx, c.oldTotalSize, c.newEntry,
                        Len(c.req.text) < LenMod)
<1> DEFINE short == Len(c.req.text) < LenMod
<1>1. ASSUME Tabled(bytes)
      PROVE  /\ c.findIdx + c.oldTotalSize - 1 <= Len(bytes)
             /\ AlikeOver(bytes, c.findIdx, c.oldTotalSize, c.newEntry, short)
  <2>1. PICK t, s, hb : \E i \in 1 .. Len(t) :
             /\ LaidOut(bytes, t, s)
             /\ c.req \in Searchable /\ hb \in HashBytes(c.req.hash)
             /\ t[i].hash = hb /\ \A j \in 1 .. i - 1 : t[j].hash # hb
             /\ c.findIdx = s[i] /\ c.oldTotalSize = Len(Image(t[i]))
             /\ c.newEntry = NewEntry(hb, c.req)
    BY <1>1, EraseSpot
  <2>2. PICK i \in 1 .. Len(t) :
             /\ LaidOut(bytes, t, s)
             /\ c.findIdx = s[i] /\ c.oldTotalSize = Len(Image(t[i]))
    BY <2>1
  <2>3. Lies(bytes, s[i], Image(t[i]))
    BY <2>2, EntryOfTable
  <2>4. Tabled(Erase(bytes, s[i], Len(Image(t[i]))))
    BY <2>2, RemoveEntry DEF Tabled
  <2>5. ASSUME short
        PROVE  Tabled(Replaced(bytes, c.findIdx, c.oldTotalSize, c.newEntry))
    <3>1. PICK u, x, h : \E k \in 1 .. Len(u) : \E e \in Known :
             /\ LaidOut(bytes, u, x)
             /\ c.req \in Searchable /\ h \in HashBytes(c.req.hash)
             /\ u[k].hash = h /\ \A j \in 1 .. k - 1 : u[j].hash # h
             /\ e = EntryOf(h, c.req)
             /\ c.findIdx = x[k] /\ c.oldTotalSize = Len(Image(u[k]))
             /\ c.newEntry = Image(e)
      BY <1>1, <2>5, EraseAim
    <3>2. PICK k \in 1 .. Len(u), e \in Known :
             /\ LaidOut(bytes, u, x)
             /\ c.findIdx = x[k] /\ c.oldTotalSize = Len(Image(u[k]))
             /\ c.newEntry = Image(e)
      BY <3>1
    <3>3. Tabled(Replaced(bytes, x[k], Len(Image(u[k])), Image(e)))
      BY <3>2, ReplaceEntry DEF Tabled
    <3> QED
      BY <3>2, <3>3, Zenon
  <2> HIDE DEF short
  <2>6. AlikeOver(bytes, c.findIdx, c.oldTotalSize, c.newEntry, short)
    BY <1>1, <2>2, <2>4, <2>5, Zenon DEF AlikeOver
  <2> QED
    BY <2>2, <2>3, <2>6 DEF Lies
<1>2. ASSUME Broken(bytes), c.findIdx + c.oldTotalSize - 1 <= Len(bytes)
      PROVE  AlikeOver(bytes, c.findIdx, c.oldTotalSize, c.newEntry, short)
  <2>1. PICK whole, u, z : LaidOut(whole, u, z) /\ LacksEnd(bytes, whole, u)
    BY <1>2 DEF Broken
  <2>2. PICK r \in Searchable : r = c.req
    BY DEF Aimed
  <2>3. PICK hb \in HashBytes(r.hash) :
          /\ c.findIdx \in FirstMatch(bytes, hb)
          /\ c.oldTotalSize \in OldTotalSizes(bytes, c.findIdx)
          /\ c.newEntry = NewEntry(hb, r)
    BY <2>2 DEF Aimed
  <2>4. hb \in Seq(Byte)
    <3>1. r \in Request
      BY DEF Searchable
    <3> QED
      BY <3>1, RequestBytes DEF EntryBytes
  <2>5. PICK p \in Matches(bytes, hb) : p = c.findIdx
    BY <2>3 DEF FirstMatch
  <2>6. p \in Matches(whole, hb)
    BY <2>1, <2>4, CutMatches DEF LacksEnd
  <2>7. PICK i \in 1 .. Len(u) : p = z[i] /\ u[i].hash = hb
    BY <2>1, <2>6, Aligned
  <2>8. PICK size : size = c.oldTotalSize /\ size \in OldTotalSizes(bytes, p)
    BY <2>3, <2>5
  <2>9. i < Len(u)
    <3>1. CASE i = Len(u)
      <4>1. size \in Nat /\ z[Len(u)] + size - 1 > Len(bytes)
        BY <2>1, <2>7, <2>8, <3>1, BrokenLast
      <4>2. z[Len(u)] + size - 1 <= Len(bytes)
        BY <1>2, <2>5, <2>7, <2>8, <3>1
      <4>3. z[Len(u)] \in Nat /\ Len(bytes) \in Nat
        <5>1. z[Len(u)] \in 1 .. Len(bytes) /\ bytes \in Seq(Byte)
          BY <2>1, BrokenLast DEF LacksEnd, Cut
        <5> QED
          BY <5>1, LenProperties
      <4> QED
        BY <4>1, <4>2, <4>3
    <3>2. Len(u) \in Nat
      BY <2>1, LenProperties DEF LaidOut
    <3> QED
      BY <3>1, <3>2
  <2>10. u[i] \in Known /\ Lies(bytes, z[i], Image(u[i]))
    BY <2>1, <2>9, BrokenEntry
  <2>11. PICK d \in Known : d = u[i]
    BY <2>10
  <2>12. HasLength(bytes, p) /\ OldTotalSize(bytes, p) = Len(Image(d))
    BY <2>7, <2>10, <2>11, EntryThatLies
  <2>13. size = Len(Image(u[i]))
    BY <2>8, <2>11, <2>12, Zenon DEF OldTotalSizes
  <2>14. d.hash = hb
    BY <2>7, <2>11
  <2>15. ASSUME short
         PROVE  Broken(Replaced(bytes, z[i], Len(Image(u[i])), NewEntry(hb, r)))
    <3>1. Len(r.text) < LenMod
      BY <2>2, <2>15
    <3>2. PICK e \in Known : e = EntryOf(hb, r)
      BY <2>14, <3>1, NewIsKnown, Zenon
    <3>3. Image(e) = NewEntry(hb, r)
      BY <2>14, <3>1, <3>2, NewIsKnown, Zenon
    <3>4. Broken(Replaced(bytes, z[i], Len(Image(u[i])), Image(e)))
      BY <2>1, <2>9, BrokenErase
    <3> QED
      BY <3>3, <3>4
  <2>16. Broken(Erase(bytes, z[i], Len(Image(u[i]))))
    BY <2>1, <2>9, <2>10, BrokenErase
  <2> HIDE DEF short
  <2> QED
    BY <1>2, <2>3, <2>5, <2>7, <2>8, <2>13, <2>15, <2>16 DEF AlikeOver
<1> QED
  BY <1>1, <1>2 DEF Sound

\* A step of the running process that leaves a file in entries in entries, as
\* long as only entries were inserted.
FramingStep ==
  running /\ running' /\ ~ spoilt' /\ Framed(fileContents) => Framed(fileContents')

\* The vector is sound, and stays so through the call c; or the insertion that
\* comes next is not that of an entry, or ends the process.
FrameReady(bytes, c) ==
  \/ c.pc = "insert" /\ c.findIdx > Len(bytes) + 1
  \/ /\ Sound(bytes)
     /\ c.pc = "erase" => Aimed(bytes, c)
     /\ c.pc = "insert" =>
          LET after == Insert(bytes, c.findIdx, c.newEntry)
          IN  \/ Tabled(bytes) /\ Tabled(after)
              \/ Broken(bytes) /\ Broken(after)
              \/ Len(c.req.text) >= LenMod

FrameInv ==
  ~ spoilt =>
    /\ Sound(disk)
    /\ running => \A t \in Thread : /\ FrameReady(fileContents, op[t])
                                    /\ Saving(op[t], fileContents, disk)

LEMMA FrameBecome ==
  ASSUME NEW w, Thread = {w}, CallsOK, NEW c, Become(w, c), Sound(disk'),
         FrameReady(fileContents', c), Saving(c, fileContents', disk')
  PROVE  FrameInv'
<1>1. op'[w] = c
  BY DEF Become, CallsOK
<1> QED
  BY <1>1 DEF FrameInv

LEMMA SameFrame ==
  ASSUME fileContents' = fileContents
  PROVE  FramingStep
BY DEF FramingStep, Framed

LEMMA SpoiltStays ==
  ASSUME [Next]_binVars, spoilt
  PROVE  spoilt'
<1>1. ASSUME NEW t \in Thread, Step(t)
      PROVE  spoilt'
  BY <1>1, Zenon
  DEF Step, BadHash, NotFound, Found, EraseOld, ErasePastEnd, InsertNew,
      InsertPastEnd, OpenOutput, OpenFails, FetchOutput, WriteOutput,
      WriteFails, Throw, Die
<1> QED
  BY <1>1, Zenon DEF Next, binVars, Call, Finish, Crash, Restart, Die

LEMMA FrameUnspoilt ==
  ASSUME NEW w, Thread = {w}, ProperFile, TypeInv, FrameInv, [Next]_binVars,
         ~ spoilt, ~ spoilt'
  PROVE  FrameInv' /\ FramingStep
<1>0. CallsOK /\ op[w] \in CallRecord /\ fileContents \in Seq(Byte) /\ disk \in Seq(Byte)
  BY DEF TypeInv, CallsOK, BytesOK
<1>1. Sound(disk)
  BY DEF FrameInv
<1>2. running => /\ FrameReady(fileContents, op[w])
                 /\ Saving(op[w], fileContents, disk)
  BY DEF FrameInv
<1>3. ASSUME running, op[w].pc # "insert"
      PROVE  Sound(fileContents)
  BY <1>2, <1>3 DEF FrameReady
<1>4. Sound(<< >>)
  BY EmptyFile DEF Sound, Tabled
<1>5. ASSUME NEW c, Become(w, c), running, op[w].pc # "insert",
             c.pc \notin {"erase", "insert", "fetch", "write"},
             fileContents' = fileContents, Sound(disk')
      PROVE  FrameInv' /\ FramingStep
  <2>1. FrameReady(fileContents', c)
    BY <1>3, <1>5 DEF FrameReady
  <2>2. Saving(c, fileContents', disk')
    BY <1>5 DEF Saving
  <2>3. FrameInv'
    BY <1>0, <1>5, <2>1, <2>2, FrameBecome
  <2> QED
    BY <1>5, <2>3, SameFrame
<1>6. CASE running' = FALSE /\ disk' = disk
  BY <1>1, <1>6 DEF FrameInv, FramingStep
<1>7. CASE Die
  BY <1>6, <1>7 DEF Die
<1>8. CASE Restart
  <2>1. op'[w] = Idle /\ fileContents' = disk /\ disk' = disk /\ ~ running
    BY <1>8 DEF Restart
  <2>2. Idle.pc = "idle"
    BY DEF Idle
  <2>3. FrameReady(disk, Idle) /\ Saving(Idle, disk, disk)
    BY <1>1, <2>2 DEF FrameReady, Saving
  <2>4. FrameInv'
    BY <1>1, <2>1, <2>2, <2>3 DEF FrameInv
  <2> QED
    BY <2>1, <2>4 DEF FramingStep
<1>9. CASE UNCHANGED binVars
  <2>1. fileContents' = fileContents /\ disk' = disk /\ op' = op /\ running' = running
    BY <1>9 DEF binVars
  <2> QED
    BY <2>1, SameFrame DEF FrameInv
<1>10. ASSUME NEW t \in Thread, NEW r \in Request, Call(t, r)
       PROVE  FrameInv' /\ FramingStep
  <2> DEFINE c == [Idle EXCEPT !.pc = "search", !.req = r]
  <2>1. c.pc = "search"
    BY DEF Idle
  <2>2. /\ Become(w, c) /\ op[w].pc # "insert" /\ running
        /\ fileContents' = fileContents /\ disk' = disk
    BY <1>10 DEF Call, At
  <2> HIDE DEF c
  <2> QED
    BY <1>1, <1>5, <2>1, <2>2
<1>11. ASSUME NEW t \in Thread, Finish(t)
       PROVE  FrameInv' /\ FramingStep
  <2>1. Idle.pc = "idle"
    BY DEF Idle
  <2>2. /\ Become(w, Idle) /\ op[w].pc # "insert" /\ running
        /\ fileContents' = fileContents /\ disk' = disk
    BY <1>11 DEF Finish, At
  <2> QED
    BY <1>1, <1>5, <2>1, <2>2
<1>12. ASSUME NEW t \in Thread, Step(t)
       PROVE  FrameInv' /\ FramingStep
  <2>0. t = w
    OBVIOUS
  <2>1. ASSUME NEW ok, Become(w, [op[w] EXCEPT !.pc = "done", !.ok = ok]), running,
               op[w].pc # "insert", fileContents' = fileContents, Sound(disk')
        PROVE  FrameInv' /\ FramingStep
    <3> DEFINE c == [op[w] EXCEPT !.pc = "done", !.ok = ok]
    <3>1. c.pc = "done"
      BY <1>0 DEF CallRecord
    <3> HIDE DEF c
    <3>2. Become(w, c)
      BY <2>1 DEF c
    <3> QED
      BY <1>5, <2>1, <3>1, <3>2
  <2>2. CASE BadHash(t) \/ NotFound(t) \/ OpenFails(t)
    <3>1. PICK ok \in BOOLEAN : Become(w, [op[w] EXCEPT !.pc = "done", !.ok = ok])
      BY <2>0, <2>2 DEF BadHash, NotFound, OpenFails, Throw, Return
    <3>2. /\ op[w].pc # "insert" /\ running /\ fileContents' = fileContents
          /\ disk' = disk
      BY <2>0, <2>2 DEF BadHash, NotFound, OpenFails, Throw, At
    <3>3. Sound(disk')
      BY <1>1, <3>2
    <3> QED
      BY <2>1, <3>1, <3>2, <3>3, Zenon
  <2>3. CASE Found(t)
    <3>1. /\ At(w, "search") /\ Convertible(op[w].req.hash)
          /\ fileContents' = fileContents /\ disk' = disk
      BY <2>0, <2>3 DEF Found
    <3>2. PICK hb \in HashBytes(op[w].req.hash) :
            \E p \in FirstMatch(fileContents, hb) :
            \E n \in OldTotalSizes(fileContents, p) :
              Become(w, [op[w] EXCEPT !.pc = "erase", !.findIdx = p,
                                      !.oldTotalSize = n,
                                      !.newEntry = NewEntry(hb, op[w].req)])
      BY <2>0, <2>3, Zenon DEF Found
    <3>3. PICK p \in FirstMatch(fileContents, hb) :
            \E n \in OldTotalSizes(fileContents, p) :
              Become(w, [op[w] EXCEPT !.pc = "erase", !.findIdx = p,
                                      !.oldTotalSize = n,
                                      !.newEntry = NewEntry(hb, op[w].req)])
      BY <3>2, Zenon
    <3>4. PICK n \in OldTotalSizes(fileContents, p) :
              Become(w, [op[w] EXCEPT !.pc = "erase", !.findIdx = p,
                                      !.oldTotalSize = n,
                                      !.newEntry = NewEntry(hb, op[w].req)])
      BY <3>3, Zenon
    <3> DEFINE c == [op[w] EXCEPT !.pc = "erase", !.findIdx = p,
                                  !.oldTotalSize = n,
                                  !.newEntry = NewEntry(hb, op[w].req)]
    <3>5. /\ c.pc = "erase" /\ c.req = op[w].req /\ c.findIdx = p
          /\ c.oldTotalSize = n /\ c.newEntry = NewEntry(hb, op[w].req)
      BY <1>0 DEF CallRecord
    <3> HIDE DEF c
    <3>6. op[w].req \in Searchable
      <4>1. op[w].req \in Request
        BY <3>1 DEF TypeInv, Located, Placed, At
      <4> QED
        BY <3>1, <4>1 DEF Searchable
    <3>7. Aimed(fileContents, c)
      BY <3>5, <3>6 DEF Aimed
    <3>8. Become(w, c) /\ running /\ op[w].pc # "insert"
      BY <3>1, <3>4 DEF c, At
    <3>9. FrameReady(fileContents, c)
      BY <1>3, <3>5, <3>7, <3>8 DEF FrameReady
    <3>10. /\ FrameReady(fileContents', c) /\ Sound(disk')
           /\ Saving(c, fileContents', disk')
      BY <1>1, <3>1, <3>5, <3>9 DEF Saving
    <3>11. FrameInv'
      BY <1>0, <3>8, <3>10, FrameBecome, Zenon
    <3> QED
      BY <3>1, <3>11, SameFrame
  <2>4. CASE EraseOld(t)
    <3>1. PICK b \in CallRecord : b = op[w]
      BY <1>0
    <3>2. /\ running /\ b.pc = "erase" /\ b.findIdx + b.oldTotalSize - 1 - Len(fileContents) <= 0
          /\ fileContents' = Erase(fileContents, b.findIdx, b.oldTotalSize)
          /\ disk' = disk /\ Become(w, [b EXCEPT !.pc = "insert"])
      BY <2>0, <2>4, <3>1 DEF EraseOld, At, Overshoot, Goto
    <3>3. Sound(fileContents) /\ Aimed(fileContents, b)
      BY <1>2, <3>1, <3>2 DEF FrameReady
    <3>4. b.findIdx \in Nat /\ b.oldTotalSize \in Nat /\ Len(fileContents) \in Nat
      BY <1>0, LenProperties DEF CallRecord
    <3>5. b.findIdx + b.oldTotalSize - 1 <= Len(fileContents)
      BY <3>2, <3>4
    <3>6. AlikeOver(fileContents, b.findIdx, b.oldTotalSize, b.newEntry,
                    Len(b.req.text) < LenMod)
      BY <3>2, <3>3, <3>5, EraseSound
    <3>13. Len(b.req.text) < LenMod \/ Len(b.req.text) >= LenMod
      <4>1. PICK r \in Request : r = b.req
        BY <3>2, <3>3 DEF Aimed, Searchable
      <4>2. Len(r.text) \in Nat
        BY RequestAssumption, LenProperties
      <4> QED
        BY <4>1, <4>2, Sizes
    <3> DEFINE c == [b EXCEPT !.pc = "insert"]
    <3>7. /\ c.pc = "insert" /\ c.findIdx = b.findIdx /\ c.newEntry = b.newEntry
          /\ c.req = b.req
      BY DEF CallRecord
    <3> HIDE DEF c
    <3>8. Replaced(fileContents, b.findIdx, b.oldTotalSize, b.newEntry)
            = Insert(fileContents', c.findIdx, c.newEntry)
      BY <3>2, <3>7, Zenon DEF Replaced
    <3>9. FrameReady(fileContents', c)
      BY <3>2, <3>6, <3>7, <3>8, <3>13, Zenon DEF FrameReady, AlikeOver, Sound
    <3>10. Become(w, c) /\ Sound(disk') /\ Saving(c, fileContents', disk')
      BY <1>1, <3>2, <3>7 DEF c, Saving
    <3>11. FrameInv'
      BY <1>0, <3>9, <3>10, FrameBecome, Zenon
    <3>12. FramingStep
      <4>1. Framed(fileContents) => Tabled(fileContents')
        BY <3>2, <3>6, BrokenNotFramed DEF AlikeOver
      <4>2. PICK bytes : bytes = fileContents'
        OBVIOUS
      <4>3. Tabled(bytes) => Framed(bytes)
        BY TabledFramed
      <4> QED
        BY <4>1, <4>2, <4>3 DEF FramingStep, Framed
    <3> QED
      BY <3>11, <3>12
  <2>5. CASE ErasePastEnd(t)
    <3>1. PICK b \in CallRecord : b = op[w]
      BY <1>0
    <3>2. PICK over : over = b.findIdx + b.oldTotalSize - 1 - Len(fileContents)
      OBVIOUS
    <3>3. /\ running /\ b.pc = "erase" /\ over > 0
          /\ \/ Die
             \/ /\ b.findIdx - 1 >= over
                /\ fileContents' = SubSeq(fileContents, 1, b.findIdx - 1 - over)
                /\ disk' = disk /\ Become(w, [b EXCEPT !.pc = "insert"])
      BY <2>0, <2>5, <3>1, <3>2 DEF ErasePastEnd, At, Overshoot, Goto
    <3>4. CASE ~ Die
      <4>1. Sound(fileContents) /\ Aimed(fileContents, b)
        BY <1>2, <3>1, <3>3 DEF FrameReady
      <4>2. b.findIdx \in Nat /\ b.oldTotalSize \in Nat /\ Len(fileContents) \in Nat
        BY <1>0, LenProperties DEF CallRecord
      <4>3. ~ Framed(fileContents)
        <5>1. ~ Tabled(fileContents)
          BY <3>2, <3>3, <4>1, <4>2, EraseSound
        <5> QED
          BY <4>1, <5>1, BrokenNotFramed DEF Sound
      <4>4. Len(fileContents') = b.findIdx - 1 - over
        <5>1. PICK n \in Nat : n = b.findIdx - 1 - over
          BY <3>2, <3>3, <3>4, <4>2
        <5>2. n <= Len(fileContents)
          <6>1. b.findIdx <= Len(fileContents) + 1
            <7>1. PICK hb \in HashBytes(b.req.hash) : b.findIdx \in FirstMatch(fileContents, hb)
              BY <3>3, <4>1 DEF Aimed
            <7>2. b.req \in Request
              BY <3>3, <4>1 DEF Aimed, Searchable
            <7>3. hb \in Seq(Byte)
              BY <7>1, <7>2, RequestBytes DEF EntryBytes
            <7>4. Len(hb) \in Nat /\ b.findIdx \in 1 .. Len(fileContents) - Len(hb) + 1
              BY <7>1, <7>3, LenProperties DEF FirstMatch, Matches
            <7> QED
              BY <4>2, <7>4
          <6> QED
            BY <3>2, <3>3, <4>2, <5>1, <6>1
        <5> QED
          BY <1>0, <3>3, <3>4, <5>1, <5>2, FirstBytes
      <4> DEFINE c == [b EXCEPT !.pc = "insert"]
      <4>5. c.pc = "insert" /\ c.findIdx = b.findIdx
        BY DEF CallRecord
      <4> HIDE DEF c
      <4>6. c.findIdx > Len(fileContents') + 1
        BY <3>2, <3>3, <4>2, <4>4, <4>5
      <4>7. FrameReady(fileContents', c)
        BY <4>5, <4>6 DEF FrameReady
      <4>8. Become(w, c) /\ Sound(disk') /\ Saving(c, fileContents', disk')
        BY <1>1, <3>3, <3>4, <4>5 DEF c, Saving
      <4>9. FrameInv'
        BY <1>0, <4>7, <4>8, FrameBecome, Zenon
      <4> QED
        BY <4>3, <4>9 DEF FramingStep
    <3> QED
      BY <1>7, <3>4
  <2>6. CASE InsertNew(t)
    <3>1. PICK b \in CallRecord : b = op[w]
      BY <1>0
    <3>2. /\ running /\ b.pc = "insert" /\ disk' = disk
          /\ b.findIdx <= Len(fileContents) + 1
          /\ fileContents' = Insert(fileContents, b.findIdx, b.newEntry)
          /\ Become(w, [b EXCEPT !.pc = "open"])
          /\ ~ (Len(b.req.text) >= LenMod)
      BY <2>0, <2>6, <3>1 DEF InsertNew, At, Goto
    <3>3. ~ (b.findIdx > Len(fileContents) + 1)
      <4>1. b.findIdx \in Nat /\ Len(fileContents) \in Nat
        BY <1>0, LenProperties DEF CallRecord
      <4> QED
        BY <3>2, <4>1
    <3>4. \/ Tabled(fileContents) /\ Tabled(fileContents')
          \/ Broken(fileContents) /\ Broken(fileContents')
      BY <1>2, <3>1, <3>2, <3>3 DEF FrameReady
    <3> DEFINE c == [b EXCEPT !.pc = "open"]
    <3>5. c.pc = "open"
      BY DEF CallRecord
    <3> HIDE DEF c
    <3>6. FrameReady(fileContents', c)
      BY <3>4, <3>5 DEF FrameReady, Sound
    <3>7. Become(w, c) /\ Sound(disk') /\ Saving(c, fileContents', disk')
      BY <1>1, <3>2, <3>5 DEF c, Saving
    <3>8. FrameInv'
      BY <1>0, <3>6, <3>7, FrameBecome, Zenon
    <3>9. FramingStep
      <4>0. PICK before : before = fileContents
        OBVIOUS
      <4>1. Framed(fileContents) => Tabled(fileContents')
        <5>1. Broken(before) => ~ Framed(before)
          BY BrokenNotFramed
        <5> QED
          BY <3>4, <4>0, <5>1, Zenon
      <4>2. PICK bytes : bytes = fileContents'
        OBVIOUS
      <4>3. Tabled(bytes) => Framed(bytes)
        BY TabledFramed
      <4> QED
        BY <4>1, <4>2, <4>3 DEF FramingStep, Framed
    <3> QED
      BY <3>8, <3>9
  <2>7. CASE InsertPastEnd(t)
    BY <1>7, <2>7 DEF InsertPastEnd
  <2>8. CASE OpenOutput(t)
    <3>1. /\ op[w].pc = "open" /\ disk' = << >> /\ fileContents' = fileContents
          /\ Become(w, [op[w] EXCEPT !.pc = "fetch"]) /\ running
      BY <2>0, <2>8 DEF OpenOutput, At, Goto
    <3> DEFINE c == [op[w] EXCEPT !.pc = "fetch"]
    <3>2. c.pc = "fetch"
      BY <1>0 DEF CallRecord
    <3> HIDE DEF c
    <3>3. FrameReady(fileContents', c) /\ Saving(c, fileContents', disk')
      BY <1>3, <3>1, <3>2 DEF FrameReady, Saving
    <3>4. Become(w, c) /\ Sound(disk')
      BY <1>4, <3>1 DEF c
    <3>5. FrameInv'
      BY <1>0, <3>1, <3>3, <3>4, FrameBecome
    <3> QED
      BY <3>1, <3>5, SameFrame
  <2>11. CASE FetchOutput(t)
    <3> DEFINE c == [op[w] EXCEPT !.pc = "write", !.output = fileContents]
    <3>1. /\ op[w].pc = "fetch" /\ disk' = disk /\ fileContents' = fileContents
          /\ Become(w, c) /\ running
      BY <2>0, <2>11 DEF FetchOutput, At
    <3>2. c.pc = "write" /\ c.output = fileContents
      BY <1>0 DEF CallRecord
    <3> HIDE DEF c
    <3>3. FrameReady(fileContents', c) /\ Saving(c, fileContents', disk')
      BY <1>2, <1>3, <3>1, <3>2 DEF FrameReady, Saving
    <3>4. FrameInv'
      BY <1>0, <1>1, <3>1, <3>3, FrameBecome
    <3> QED
      BY <3>1, <3>4, SameFrame
  <2>12. ASSUME Saved(w), op[w].pc # "insert", running,
                fileContents' = fileContents, Sound(disk')
         PROVE  FrameInv' /\ FramingStep
    <3> DEFINE c == [op[w] EXCEPT !.pc = "done", !.output = << >>, !.ok = TRUE]
    <3>1. c.pc = "done"
      BY <1>0 DEF CallRecord
    <3>2. Become(w, c)
      BY <2>12 DEF Saved
    <3> HIDE DEF c
    <3> QED
      BY <1>5, <2>12, <3>1, <3>2
  <2>9. CASE WriteOutput(t)
    <3>1. /\ op[w].pc = "write" /\ fileContents' = fileContents /\ running
          /\ Saved(w)
      BY <2>0, <2>9 DEF WriteOutput, At
    <3>2. disk' = fileContents
      <4>1. op[w].output = fileContents /\ disk = << >>
        BY <1>2, <3>1 DEF Saving
      <4> QED
        BY <1>0, <2>0, <2>9, <4>1, WholeWrite
    <3>3. Sound(disk') /\ op[w].pc # "insert"
      BY <1>3, <3>1, <3>2
    <3> QED
      BY <2>12, <3>1, <3>3
  <2>10. CASE WriteFails(t)
    <3>1. /\ op[w].pc = "write" /\ fileContents' = fileContents /\ running
          /\ Saved(w)
          /\ \E bytes \in Written(w) : \E n \in 0 .. Len(bytes) - 1 :
               disk' = SubSeq(bytes, 1, n)
      BY <2>0, <2>10 DEF WriteFails, At
    <3>6. Written(w) = {fileContents}
      BY <1>2, <3>1 DEF Saving, Written
    <3>2. PICK n \in 0 .. Len(fileContents) - 1 : disk' = SubSeq(fileContents, 1, n)
      BY <3>1, <3>6
    <3>3. n \in Nat /\ n <= Len(fileContents)
      BY <1>0, LenProperties
    <3>4. Sound(fileContents) /\ op[w].pc # "insert"
      BY <1>3, <3>1
    <3>5. Sound(disk')
      BY <3>2, <3>3, <3>4, SoundPrefix
    <3> QED
      BY <2>12, <3>1, <3>4, <3>5
  <2> QED
    BY <1>12, <2>2, <2>3, <2>4, <2>5, <2>6, <2>7, <2>8, <2>9, <2>10, <2>11, Zenon
    DEF Step
<1> QED
  BY <1>7, <1>8, <1>9, <1>10, <1>11, <1>12, NextCases, Zenon DEF Crash

LEMMA FrameStep ==
  ASSUME NEW w, Thread = {w}, ProperFile, TypeInv, FrameInv, [Next]_binVars
  PROVE  FrameInv' /\ FramingStep
<1>1. CASE spoilt'
  BY <1>1 DEF FrameInv, FramingStep
<1>2. CASE ~ spoilt'
  <2>1. ~ spoilt
    BY <1>2, SpoiltStays
  <2> QED
    BY <1>2, <2>1, FrameUnspoilt
<1> QED
  BY <1>1, <1>2

LEMMA FrameInit ==
  ASSUME NEW w, Thread = {w}, ProperFile, Init
  PROVE  FrameInv
<1>1. /\ fileContents = Encode(InitTable) /\ disk = Encode(InitTable)
      /\ op[w] = Idle /\ Idle.pc = "idle"
  BY DEF Init, Idle
<1>2. Sound(Encode(InitTable))
  BY EncodeLaidOut DEF Sound, Tabled
<1> QED
  BY <1>1, <1>2 DEF FrameInv, FrameReady, Saving

\* No statement of a single worker's updateEntry makes a file that divides into
\* entries into one that does not, as long as every insertion was that of an
\* entry: it erases to where the next entry begins, and writes a length that is
\* the length of the text.  Failing writes are included: what a restart then
\* loads is the first entries of the table, or ends within an entry and so does
\* not divide into entries to begin with.
THEOREM FramingIsKept ==
  ASSUME NEW w, Thread = {w}, ProperFile
  PROVE  Spec => KeepsFraming
<1>1. Init => TypeInv /\ FrameInv
  BY TypeInit, FrameInit
<1>2. TypeInv /\ FrameInv /\ [Next]_binVars => TypeInv' /\ FrameInv' /\ FramingStep
  BY TypeStep, FrameStep
<1>3. FramingStep => (running /\ running' /\ ~ spoilt' /\ Framed(fileContents)
                        => Framed(fileContents'))
  BY DEF FramingStep
<1> QED
  BY <1>1, <1>2, <1>3, PTL DEF Spec, KeepsFraming

-----------------------------------------------------------------------------
(* For the server, whose workers make the calls.                           *)

\* A statement of a call is not its end, and not another call.
LEMMA SameCall ==
  ASSUME CallsOK, NEW t \in Thread, Step(t)
  PROVE  /\ running /\ op[t].pc \notin {"idle", "done"}
         /\ op'[t].req = op[t].req /\ op'[t].pc # "idle"
         /\ \A u \in Thread \ {t} : op'[u] = op[u]
<1>0. op[t] \in CallRecord
  BY DEF CallsOK
<1>1. /\ running /\ op[t].pc \notin {"idle", "done"}
  BY DEF Step, BadHash, NotFound, Found, EraseOld, ErasePastEnd, InsertNew,
         InsertPastEnd, OpenOutput, OpenFails, FetchOutput, WriteOutput,
         WriteFails, At
<1>2. ASSUME UNCHANGED op
      PROVE  /\ op'[t].req = op[t].req /\ op'[t].pc # "idle"
             /\ \A u \in Thread \ {t} : op'[u] = op[u]
  BY <1>1, <1>2
<1>3. ASSUME NEW c, Become(t, c), c.req = op[t].req, c.pc # "idle"
      PROVE  /\ op'[t].req = op[t].req /\ op'[t].pc # "idle"
             /\ \A u \in Thread \ {t} : op'[u] = op[u]
  BY <1>3 DEF Become, CallsOK
<1>4. ASSUME Throw(t) \/ Return(t)
      PROVE  /\ op'[t].req = op[t].req /\ op'[t].pc # "idle"
             /\ \A u \in Thread \ {t} : op'[u] = op[u]
  <2>1. PICK ok \in BOOLEAN : Become(t, [op[t] EXCEPT !.pc = "done", !.ok = ok])
    BY <1>4 DEF Throw, Return
  <2> DEFINE c == [op[t] EXCEPT !.pc = "done", !.ok = ok]
  <2>2. c.req = op[t].req /\ c.pc # "idle"
    BY <1>0 DEF CallRecord
  <2> HIDE DEF c
  <2> QED
    BY <1>3, <2>1, <2>2 DEF c
<1>5. ASSUME Found(t)
      PROVE  /\ op'[t].req = op[t].req /\ op'[t].pc # "idle"
             /\ \A u \in Thread \ {t} : op'[u] = op[u]
  BY <1>0, <1>1, <1>5 DEF Found, Become, CallsOK, CallRecord
<1>6. \/ UNCHANGED op \/ Throw(t) \/ Return(t) \/ Found(t)
      \/ Goto(t, "insert") \/ Goto(t, "open") \/ Goto(t, "fetch")
      \/ FetchOutput(t) \/ Saved(t)
  BY Zenon DEF Step, BadHash, NotFound, EraseOld, ErasePastEnd, InsertNew,
     InsertPastEnd, OpenOutput, OpenFails, WriteOutput, WriteFails, Die
<1>7. ASSUME Goto(t, "insert") \/ Goto(t, "open") \/ Goto(t, "fetch")
      PROVE  /\ op'[t].req = op[t].req /\ op'[t].pc # "idle"
             /\ \A u \in Thread \ {t} : op'[u] = op[u]
  BY <1>0, <1>7 DEF Goto, Become, CallsOK, CallRecord
<1>9. ASSUME FetchOutput(t) \/ Saved(t)
      PROVE  /\ op'[t].req = op[t].req /\ op'[t].pc # "idle"
             /\ \A u \in Thread \ {t} : op'[u] = op[u]
  <2>1. PICK c : /\ Become(t, c)
                 /\ \/ c = [op[t] EXCEPT !.pc = "write", !.output = fileContents]
                    \/ c = [op[t] EXCEPT !.pc = "done", !.output = << >>, !.ok = TRUE]
    BY <1>9 DEF FetchOutput, Saved
  <2>2. c.req = op[t].req /\ c.pc # "idle"
    BY <1>0, <2>1 DEF CallRecord
  <2> QED
    BY <1>3, <2>1, <2>2
<1>8. /\ op'[t].req = op[t].req /\ op'[t].pc # "idle"
      /\ \A u \in Thread \ {t} : op'[u] = op[u]
  BY <1>2, <1>4, <1>5, <1>6, <1>7, <1>9, Zenon
<1> QED
  BY <1>1, <1>8

\* Before the constructor the vector is empty and nobody calls.
LEMMA InvBeforeStart ==
  ASSUME fileContents = << >>, disk = Encode(InitTable), running = FALSE,
         op = [t \in Thread |-> Idle]
  PROVE  TypeInv /\ TextInv
<1>1. CallsOK /\ Located
  BY IdleRecord DEF CallsOK, Located, Placed, Idle
<1>2. TextInv
  BY DEF TextInv, Ready, Idle
<1> QED
  BY <1>1, <1>2, EmptySeq, InitTableAssumption DEF TypeInv, BytesOK

LEMMA SyncRestart ==
  ASSUME Restart
  PROVE  SyncInv'
<1>1. Idle.pc = "idle"
  BY DEF Idle
<1>2. fileContents' = disk' /\ \A t \in Thread : op'[t] = Idle
  BY DEF Restart
<1> QED
  BY <1>1, <1>2 DEF SyncInv, SyncAt

\* In a proper file every entry is inserted in full.
Landed(c) == c.pc \in {"open", "fetch", "write"} \/ (c.pc = "done" /\ c.ok = TRUE)

FullInv == \A t \in Thread : Landed(op[t]) => InFull(fileContents, op[t])

LEMMA FullBecome ==
  ASSUME NEW w, Thread = {w}, CallsOK, NEW c, Become(w, c),
         Landed(c) => InFull(fileContents', c)
  PROVE  FullInv'
<1>1. op'[w] = c
  BY DEF Become, CallsOK
<1> QED
  BY <1>1 DEF FullInv

LEMMA FullStep ==
  ASSUME NEW w, Thread = {w}, TypeInv, TableInv, FullInv, [Next]_binVars
  PROVE  FullInv'
<1>0. CallsOK /\ op[w] \in CallRecord /\ fileContents \in Seq(Byte)
  BY DEF TypeInv, CallsOK, BytesOK
<1>1. ASSUME UNCHANGED << fileContents, op >>
      PROVE  FullInv'
  BY <1>1, Zenon DEF FullInv
<1>2. CASE Restart
  BY <1>2 DEF Restart, FullInv, Landed, Idle
<1>3. ASSUME NEW t \in Thread, (\E r \in Request : Call(t, r)) \/ Finish(t)
      PROVE  FullInv'
  <2>1. PICK c : Become(w, c) /\ c.pc \in {"search", "idle"}
    <3>1. \A r : [Idle EXCEPT !.pc = "search", !.req = r].pc = "search"
      BY DEF Idle
    <3>2. Idle.pc = "idle" /\ t = w
      BY DEF Idle
    <3> QED
      BY <1>3, <3>1, <3>2 DEF Call, Finish
  <2> QED
    BY <1>0, <2>1, FullBecome DEF Landed
<1>4. ASSUME NEW t \in Thread, Step(t)
      PROVE  FullInv'
  <2>0. t = w
    OBVIOUS
  <2>1. CASE BadHash(t) \/ NotFound(t)
    <3>1. Throw(w)
      BY <2>0, <2>1 DEF BadHash, NotFound
    <3> QED
      BY <1>0, <3>1 DEF Throw, Become, CallsOK, CallRecord, FullInv, Landed
  <2>2. CASE Found(t)
    <3>1. op'[w].pc = "erase"
      BY <1>0, <2>0, <2>2 DEF Found, Become, CallsOK, CallRecord
    <3> QED
      BY <3>1 DEF FullInv, Landed
  <2>3. CASE EraseOld(t) \/ ErasePastEnd(t)
    <3>1. Goto(w, "insert") \/ Die
      BY <2>0, <2>3 DEF EraseOld, ErasePastEnd
    <3>2. CASE Goto(w, "insert")
      BY <1>0, <3>2 DEF Goto, Become, CallsOK, CallRecord, FullInv, Landed
    <3> QED
      BY <1>1, <3>1, <3>2, Zenon DEF Die
  <2>4. CASE InsertNew(t)
    <3>1. PICK c \in CallRecord : c = [op[w] EXCEPT !.pc = "open"]
      BY <1>0 DEF CallRecord, PC
    <3>2. c.findIdx = op[w].findIdx /\ c.newEntry = op[w].newEntry
      BY <1>0, <3>1 DEF CallRecord
    <3>3. /\ c.findIdx <= Len(fileContents) + 1 /\ Become(w, c) /\ At(w, "insert")
          /\ fileContents' = Insert(fileContents, c.findIdx, c.newEntry)
      BY <2>0, <2>4, <3>1, <3>2 DEF InsertNew, Goto
    <3>4. c.findIdx \in Nat \ {0} /\ c.newEntry \in Seq(Byte)
      <4>1. op[w].findIdx >= 1 /\ op[w].findIdx \in Nat
        BY <1>0, <3>3 DEF TypeInv, Located, Placed, At, CallRecord
      <4> QED
        BY <3>2, <4>1 DEF CallRecord
    <3>5. Len(fileContents') = Len(fileContents) + Len(c.newEntry)
      BY <1>0, <3>3, <3>4, InsertProperties
    <3>6. Len(fileContents) \in Nat /\ Len(c.newEntry) \in Nat
      BY <1>0, <3>4, LenProperties
    <3>7. InFull(fileContents', c)
      BY <3>3, <3>4, <3>5, <3>6 DEF InFull
    <3> QED
      BY <1>0, <3>3, <3>7, FullBecome
  <2>5. CASE InsertPastEnd(t)
    <3>1. op[w].findIdx > Len(fileContents) + 1 /\ op[w].pc = "insert"
      BY <2>0, <2>5 DEF InsertPastEnd, At
    <3>2. op[w].findIdx <= Len(fileContents) + 1
      BY <3>1 DEF TableInv, Aimed
    <3>3. op[w].findIdx \in Nat /\ Len(fileContents) \in Nat
      BY <1>0, LenProperties DEF CallRecord
    <3> QED
      BY <3>1, <3>2, <3>3
  <2>6. ASSUME fileContents' = fileContents, Landed(op[w]), NEW c, Become(w, c),
               c.findIdx = op[w].findIdx, c.newEntry = op[w].newEntry
        PROVE  FullInv'
    <3>1. InFull(fileContents', c)
      BY <2>6 DEF FullInv, InFull
    <3> QED
      BY <1>0, <2>6, <3>1, FullBecome
  <2>7. CASE OpenOutput(t) \/ OpenFails(t) \/ FetchOutput(t)
    <3>1. fileContents' = fileContents /\ Landed(op[w])
      BY <2>0, <2>7 DEF OpenOutput, OpenFails, FetchOutput, At, Landed
    <3>2. PICK c : /\ Become(w, c)
                   /\ \/ c = [op[w] EXCEPT !.pc = "fetch"]
                      \/ c = [op[w] EXCEPT !.pc = "done", !.ok = TRUE]
                      \/ c = [op[w] EXCEPT !.pc = "write", !.output = fileContents]
      BY <2>0, <2>7 DEF OpenOutput, OpenFails, FetchOutput, Goto, Return
    <3>3. c.findIdx = op[w].findIdx /\ c.newEntry = op[w].newEntry
      BY <1>0, <3>2 DEF CallRecord
    <3> QED
      BY <2>6, <3>1, <3>2, <3>3
  <2>8. CASE WriteOutput(t) \/ WriteFails(t)
    <3>1. fileContents' = fileContents /\ Landed(op[w])
      BY <2>0, <2>8 DEF WriteOutput, WriteFails, At, Landed
    <3>2. PICK c : /\ Become(w, c)
                   /\ c = [op[w] EXCEPT !.pc = "done", !.output = << >>, !.ok = TRUE]
      BY <2>0, <2>8 DEF WriteOutput, WriteFails, Saved
    <3>3. c.findIdx = op[w].findIdx /\ c.newEntry = op[w].newEntry
      BY <1>0, <3>2 DEF CallRecord
    <3> QED
      BY <2>6, <3>1, <3>2, <3>3
  <2> QED
    BY <1>4, <2>1, <2>2, <2>3, <2>4, <2>5, <2>7, <2>8, Zenon DEF Step
<1> QED
  BY <1>1, <1>2, <1>3, <1>4, NextCases, Zenon DEF Crash, Die, binVars

\* What the caller of an updateEntry that returned finds.
LEMMA ReturnedCall ==
  ASSUME NEW t, Thread = {t}, ShortTexts, TypeInv, TextInv, FullInv, SyncInv,
         op[t].pc = "done", op[t].ok = TRUE, op[t].req \in Request
  PROVE  disk = fileContents /\ ReadsBack(fileContents, op[t].req)
<1>1. StoredThere(fileContents, op[t].req)
  BY DEF TextInv, Ready, FullInv, Landed
<1>2. PICK r \in Request : r = op[t].req
  OBVIOUS
<1>3. Len(r.text) < LenMod
  BY DEF ShortTexts
<1>4. ReadsBack(fileContents, op[t].req)
  BY <1>1, <1>2, <1>3, StoredWhole
<1>5. disk = fileContents
  BY DEF SyncInv, SyncAt
<1> QED
  BY <1>4, <1>5

LEMMA OneFirstMatch ==
  ASSUME NEW bytes, NEW hb, NEW p \in FirstMatch(bytes, hb)
  PROVE  FirstMatch(bytes, hb) = {p}
<1>1. ASSUME NEW q \in FirstMatch(bytes, hb)
      PROVE  q = p
  <2>1. /\ q \in Matches(bytes, hb) /\ p \in Matches(bytes, hb)
        /\ q <= p /\ p <= q
    BY DEF FirstMatch
  <2>2. q \in Int /\ p \in Int
    BY <2>1 DEF Matches
  <2> QED
    BY <2>1, <2>2
<1> QED
  BY <1>1, Zenon

\* A statement of another entry's update.  First, what the erase and the insert
\* make of the table.
LEMMA ErasedTable ==
  ASSUME NEW w, Thread = {w}, ProperFile, ShortTexts, TypeInv, TableInv,
         EraseOld(w)
  PROVE  \E t, s, z, hb : \E i \in 1 .. Len(t) : \E e \in Known :
           /\ LaidOut(fileContents, t, s) /\ LaidOut(Settled', [t EXCEPT ![i] = e], z)
           /\ hb \in HashBytes(op[w].req.hash) /\ t[i].hash = hb /\ e.hash = hb
<1>1. PICK b \in CallRecord : b = op[w]
  BY DEF TypeInv, CallsOK
<1>2. b.pc = "erase" /\ Tabled(fileContents) /\ Aimed(fileContents, b)
  BY <1>1 DEF TableInv, EraseOld, At
<1>11. Len(b.req.text) < LenMod
  BY <1>2 DEF Aimed, Searchable, ShortTexts
<1>3. PICK t, s, hb : \E i \in 1 .. Len(t) : \E e \in Known :
           /\ LaidOut(fileContents, t, s)
           /\ b.req \in Searchable /\ hb \in HashBytes(b.req.hash)
           /\ t[i].hash = hb /\ \A j \in 1 .. i - 1 : t[j].hash # hb
           /\ e = EntryOf(hb, b.req)
           /\ b.findIdx = s[i] /\ b.oldTotalSize = Len(Image(t[i]))
           /\ b.newEntry = Image(e)
  BY <1>2, <1>11, EraseAim
<1>4. PICK i \in 1 .. Len(t), e \in Known :
           /\ LaidOut(fileContents, t, s)
           /\ hb \in HashBytes(b.req.hash) /\ t[i].hash = hb
           /\ e = EntryOf(hb, b.req)
           /\ b.findIdx = s[i] /\ b.oldTotalSize = Len(Image(t[i]))
           /\ b.newEntry = Image(e)
  BY <1>3
<1> DEFINE c == [b EXCEPT !.pc = "insert"]
<1>5. c.pc = "insert" /\ c.findIdx = s[i] /\ c.newEntry = Image(e)
  BY <1>4 DEF CallRecord
<1>6. /\ fileContents' = Erase(fileContents, s[i], Len(Image(t[i])))
      /\ Become(w, c)
  BY <1>1, <1>4 DEF EraseOld, Goto
<1> HIDE DEF c
<1>7. op'[w] = c
  BY <1>6 DEF Become, TypeInv, CallsOK
<1>8. Settled' = Replaced(fileContents, s[i], Len(Image(t[i])), Image(e))
  BY <1>5, <1>6, <1>7, SettledOne, Zenon DEF SettledOf, Replaced
<1>9. PICK z : LaidOut(Settled', [t EXCEPT ![i] = e], z)
  BY <1>4, <1>8, ReplaceEntry
<1>10. e.hash = hb /\ hb \in HashBytes(op[w].req.hash)
  BY <1>1, <1>4 DEF EntryOf
<1> QED
  BY <1>4, <1>9, <1>10, Zenon

\* The entry of r in a table, the first with its hash.
InTable(t, r) ==
  \E hb \in HashBytes(r.hash) : \E i \in 1 .. Len(t) :
    t[i] = EntryOf(hb, r) /\ \A j \in 1 .. i - 1 : t[j].hash # hb

LEMMA FoundInTable ==
  ASSUME ProperFile, NEW bytes, NEW t, NEW s, LaidOut(bytes, t, s),
         NEW r, NEW q \in Searchable, q.hash = r.hash
  PROVE  ReadsBack(bytes, r) <=> InTable(t, r)
<1>0. Len(t) \in Nat /\ s \in [1 .. Len(t) + 1 -> Nat \ {0}]
  BY LenProperties DEF LaidOut
<1>1. ASSUME ReadsBack(bytes, r)
      PROVE  InTable(t, r)
  <2>1. PICK hb \in HashBytes(r.hash) : \E p \in FirstMatch(bytes, hb) :
          FirstMatch(bytes, hb) = {p} /\ EntryAt(bytes, p) = EntryOf(hb, r)
    BY <1>1, Zenon DEF ReadsBack
  <2>2. PICK p \in FirstMatch(bytes, hb) : EntryAt(bytes, p) = EntryOf(hb, r)
    BY <2>1
  <2>3. hb \in HashBytes(q.hash)
    BY <2>1
  <2>4. PICK i \in 1 .. Len(t) : /\ p = s[i] /\ t[i].hash = hb
                                 /\ \A j \in 1 .. i - 1 : t[j].hash # hb
    <3>1. \E i \in 1 .. Len(t) : /\ p = s[i] /\ t[i].hash = hb
                                /\ \A j \in 1 .. i - 1 : t[j].hash # hb
      BY <2>3, FirstOfTable
    <3> QED
      BY <3>1
  <2>5. EntryAt(bytes, s[i]) = t[i]
    BY <2>4, EntryOfTable
  <2> QED
    BY <2>1, <2>2, <2>4, <2>5, Zenon DEF InTable
<1>2. ASSUME InTable(t, r)
      PROVE  ReadsBack(bytes, r)
  <2>1. PICK hb \in HashBytes(r.hash) : \E i \in 1 .. Len(t) :
          t[i] = EntryOf(hb, r) /\ \A j \in 1 .. i - 1 : t[j].hash # hb
    BY <1>2, Zenon DEF InTable
  <2>2. PICK i \in 1 .. Len(t) :
          t[i] = EntryOf(hb, r) /\ \A j \in 1 .. i - 1 : t[j].hash # hb
    BY <2>1
  <2>3. hb \in HashBytes(q.hash) /\ t[i].hash = hb
    BY <2>1, <2>2 DEF EntryOf
  <2>4. s[i] \in Matches(bytes, hb) /\ EntryAt(bytes, s[i]) = EntryOf(hb, r)
    BY <2>2, <2>3, EntryMatches, EntryOfTable
  <2>5. ASSUME NEW p \in Matches(bytes, hb)
        PROVE  s[i] <= p
    <3>1. PICK k \in 1 .. Len(t) : p = s[k] /\ t[k].hash = hb
      BY <2>3, <2>5, Aligned
    <3>2. ~ (k \in 1 .. i - 1)
      BY <2>2, <3>1
    <3>3. i \in 1 .. k /\ k \in 1 .. Len(t) + 1
      BY <1>0, <3>2
    <3> QED
      BY <3>1, <3>3, Rising
  <2>6. s[i] \in FirstMatch(bytes, hb)
    BY <2>4, <2>5 DEF FirstMatch
  <2>7. \A p \in FirstMatch(bytes, hb) : p = s[i]
    <3>1. ASSUME NEW p \in FirstMatch(bytes, hb)
          PROVE  p = s[i]
      <4>1. p \in Matches(bytes, hb) /\ \A k \in Matches(bytes, hb) : p <= k
        BY DEF FirstMatch
      <4>2. p <= s[i] /\ s[i] <= p
        BY <2>4, <2>5, <4>1, Zenon
      <4>3. p \in Int /\ s[i] \in Int
        BY <1>0, <4>1 DEF Matches
      <4> QED
        BY <4>2, <4>3
    <3> QED
      BY <3>1, Zenon
  <2> QED
    BY <2>1, <2>4, <2>6, <2>7, Zenon DEF ReadsBack
<1> QED
  BY <1>1, <1>2

\* What is known of an entry nobody is at work on: the vector holds it, and the
\* disk does, save for the time in which it is being written.
Kept(w, r) ==
  /\ running => ReadsBack(Settled, r)
  /\ ~ (running /\ op[w].pc \in {"fetch", "write"}) => ReadsBack(disk, r)

LEMMA OtherErased ==
  ASSUME NEW w, Thread = {w}, ProperFile, ShortTexts, TypeInv, TableInv,
         EraseOld(w), NEW r, NEW q \in Searchable, q.hash = r.hash, ReadsBack(Settled, r),
         HashBytes(op[w].req.hash) \cap HashBytes(r.hash) = {}
  PROVE  ReadsBack(Settled', r)
<1>1. PICK t, s, z, hb : \E i \in 1 .. Len(t) : \E e \in Known :
           /\ LaidOut(fileContents, t, s) /\ LaidOut(Settled', [t EXCEPT ![i] = e], z)
           /\ hb \in HashBytes(op[w].req.hash) /\ t[i].hash = hb /\ e.hash = hb
  BY ErasedTable
<1>2. PICK i \in 1 .. Len(t), e \in Known :
           /\ LaidOut(fileContents, t, s) /\ LaidOut(Settled', [t EXCEPT ![i] = e], z)
           /\ hb \in HashBytes(op[w].req.hash) /\ t[i].hash = hb /\ e.hash = hb
  BY <1>1
<1>3. Settled = fileContents
  BY SettledOne DEF SettledOf, EraseOld, At
<1>4. InTable(t, r)
  BY <1>2, <1>3, FoundInTable, Zenon
<1>5. PICK h \in HashBytes(r.hash) : \E k \in 1 .. Len(t) :
        t[k] = EntryOf(h, r) /\ \A j \in 1 .. k - 1 : t[j].hash # h
  BY <1>4, Zenon DEF InTable
<1>6. PICK k \in 1 .. Len(t) :
        t[k] = EntryOf(h, r) /\ \A j \in 1 .. k - 1 : t[j].hash # h
  BY <1>5
<1>7. h # hb /\ t[k].hash = h
  BY <1>2, <1>5, <1>6 DEF EntryOf
<1> DEFINE u == [t EXCEPT ![i] = e]
<1>8. t \in Seq(Known) /\ Len(t) \in Nat
  BY <1>2, LenProperties DEF LaidOut
<1>9. /\ Len(u) = Len(t) /\ \A j \in 1 .. Len(t) : u[j] = IF j = i THEN e ELSE t[j]
  BY <1>8, ExceptSeq
<1> HIDE DEF u
<1>10. u[k] = EntryOf(h, r)
  BY <1>2, <1>6, <1>7, <1>9
<1>11. \A j \in 1 .. k - 1 : u[j].hash # h
  <2>1. \A j \in 1 .. k - 1 : j \in 1 .. Len(t)
    BY <1>8
  <2> QED
    BY <1>2, <1>6, <1>7, <1>9, <2>1
<1>12. InTable(u, r)
  BY <1>5, <1>9, <1>10, <1>11, Zenon DEF InTable
<1>13. LaidOut(Settled', u, z)
  BY <1>2 DEF u
<1> QED
  BY <1>12, <1>13, FoundInTable, Zenon

\* No statement of another entry's update, and no restart, loses the entry of r.
LEMMA OtherKept ==
  ASSUME NEW w, Thread = {w}, "write" \notin Fault, ProperFile, ShortTexts,
         TypeInv, TableInv, [Next]_binVars, NEW r, NEW q \in Searchable, q.hash = r.hash, Kept(w, r),
         running /\ op[w].pc = "erase" =>
           HashBytes(op[w].req.hash) \cap HashBytes(r.hash) = {},
         running /\ op[w].pc \in {"fetch", "write"} => running'
  PROVE  Kept(w, r)'
<1>0. CallsOK /\ op[w] \in CallRecord
  BY DEF TypeInv, CallsOK
<1>1. /\ Settled = SettledOf(fileContents, op[w])
      /\ Settled' = SettledOf(fileContents', op'[w])
  BY SettledOne
<1>2. CASE UNCHANGED << fileContents, disk, op >> /\ (running' => running)
  <2>1. Settled' = Settled
    BY <1>1, <1>2
  <2> QED
    BY <1>2, <2>1, Zenon DEF Kept
<1>3. ASSUME running, running', NEW c, Become(w, c),
             op[w].pc \notin {"insert", "fetch", "write"}, c.pc # "insert",
             fileContents' = fileContents, disk' = disk
      PROVE  Kept(w, r)'
  <2>1. op'[w] = c
    BY <1>0, <1>3 DEF Become, CallsOK
  <2>2. Settled' = Settled
    BY <1>1, <1>3, <2>1 DEF SettledOf
  <2> QED
    BY <1>3, <2>2, Zenon DEF Kept
<1>4. ASSUME NEW t \in Thread, NEW u \in Request, Call(t, u)
      PROVE  Kept(w, r)'
  <2> DEFINE c == [Idle EXCEPT !.pc = "search", !.req = u]
  <2>1. c.pc = "search"
    BY DEF Idle
  <2>2. /\ Become(w, c) /\ op[w].pc \notin {"insert", "fetch", "write"} /\ running /\ running'
        /\ fileContents' = fileContents /\ disk' = disk
    BY <1>4 DEF Call, At
  <2> HIDE DEF c
  <2> QED
    BY <1>3, <2>1, <2>2
<1>5. ASSUME NEW t \in Thread, Finish(t)
      PROVE  Kept(w, r)'
  <2>1. Idle.pc = "idle"
    BY DEF Idle
  <2>2. /\ Become(w, Idle) /\ op[w].pc \notin {"insert", "fetch", "write"}
        /\ running /\ running'
        /\ fileContents' = fileContents /\ disk' = disk
    BY <1>5 DEF Finish, At
  <2> QED
    BY <1>3, <2>1, <2>2
<1>6. CASE Restart
  <2>1. op'[w] = Idle /\ fileContents' = disk /\ disk' = disk /\ ~ running
    BY <1>6 DEF Restart
  <2>2. Idle.pc = "idle"
    BY DEF Idle
  <2>3. Settled' = disk
    BY <1>1, <2>1, <2>2 DEF SettledOf
  <2>4. ReadsBack(disk, r)
    BY <2>1 DEF Kept
  <2> QED
    BY <2>1, <2>3, <2>4, Zenon DEF Kept
<1>7. CASE Die \/ UNCHANGED binVars
  BY <1>2, <1>7 DEF Die, binVars
<1>8. ASSUME NEW t \in Thread, Step(t)
      PROVE  Kept(w, r)'
  <2>0. t = w
    OBVIOUS
  <2>1. ASSUME NEW ok, Become(w, [op[w] EXCEPT !.pc = "done", !.ok = ok]),
               op[w].pc \notin {"insert", "fetch", "write"}, running, running',
               fileContents' = fileContents, disk' = disk
        PROVE  Kept(w, r)'
    <3> DEFINE c == [op[w] EXCEPT !.pc = "done", !.ok = ok]
    <3>1. c.pc = "done"
      BY <1>0 DEF CallRecord
    <3> HIDE DEF c
    <3>2. Become(w, c)
      BY <2>1 DEF c
    <3> QED
      BY <1>3, <2>1, <3>1, <3>2
  <2>2. CASE BadHash(t) \/ NotFound(t) \/ OpenFails(t)
    <3>1. PICK ok \in BOOLEAN : Become(w, [op[w] EXCEPT !.pc = "done", !.ok = ok])
      BY <2>0, <2>2 DEF BadHash, NotFound, OpenFails, Throw, Return
    <3>2. /\ op[w].pc \notin {"insert", "fetch", "write"} /\ running /\ running'
          /\ fileContents' = fileContents /\ disk' = disk
      BY <2>0, <2>2 DEF BadHash, NotFound, OpenFails, Throw, At
    <3> QED
      BY <2>1, <3>1, <3>2, Zenon
  <2>3. CASE Found(t)
    <3>1. PICK hb, p, n :
            Become(w, [op[w] EXCEPT !.pc = "erase", !.findIdx = p,
                                    !.oldTotalSize = n,
                                    !.newEntry = NewEntry(hb, op[w].req)])
      BY <2>0, <2>3, Zenon DEF Found
    <3> DEFINE c == [op[w] EXCEPT !.pc = "erase", !.findIdx = p,
                                  !.oldTotalSize = n,
                                  !.newEntry = NewEntry(hb, op[w].req)]
    <3>2. c.pc = "erase"
      BY <1>0 DEF CallRecord
    <3>3. Become(w, c)
      BY <3>1
    <3> HIDE DEF c
    <3>4. /\ op[w].pc \notin {"insert", "fetch", "write"} /\ running /\ running'
          /\ fileContents' = fileContents /\ disk' = disk
      BY <2>0, <2>3 DEF Found, At
    <3> QED
      BY <1>3, <3>2, <3>3, <3>4
  <2>4. CASE EraseOld(t)
    <3>1. running /\ running' /\ disk' = disk /\ op[w].pc = "erase"
      BY <2>0, <2>4 DEF EraseOld, At
    <3>2. EraseOld(w)
      BY <2>0, <2>4
    <3>3. ReadsBack(Settled', r)
      BY <3>1, <3>2, OtherErased DEF Kept
    <3>4. ReadsBack(disk, r)
      BY <3>1 DEF Kept
    <3> QED
      BY <3>1, <3>3, <3>4 DEF Kept
  <2>5. CASE ErasePastEnd(t)
    <3>1. op[w].pc = "erase" /\ Overshoot(w) > 0
      BY <2>0, <2>5 DEF ErasePastEnd, At
    <3>2. Overshoot(w) <= 0 /\ Overshoot(w) \in Int
      <4>1. Len(fileContents) \in Nat
        BY LenProperties DEF TypeInv, BytesOK
      <4> QED
        BY <1>0, <3>1, <4>1, NoOvershoot DEF Overshoot, CallRecord
    <3> QED
      BY <3>1, <3>2
  <2>6. ASSUME NEW c, Become(w, c), c.pc \in {"open", "fetch", "write"},
               running, running',
               c.pc = "open" => disk' = disk,
               c.pc = "open" => op[w].pc \notin {"fetch", "write"},
               fileContents' = Settled
        PROVE  Kept(w, r)'
    <3>1. op'[w] = c
      BY <1>0, <2>6 DEF Become, CallsOK
    <3>2. Settled' = Settled
      BY <1>1, <2>6, <3>1 DEF SettledOf
    <3> QED
      BY <2>6, <3>1, <3>2, Zenon DEF Kept
  <2>7. CASE InsertNew(t)
    <3>1. /\ op[w].pc = "insert" /\ disk' = disk /\ running /\ running'
          /\ fileContents' = Insert(fileContents, op[w].findIdx, op[w].newEntry)
          /\ Become(w, [op[w] EXCEPT !.pc = "open"])
      BY <2>0, <2>7 DEF InsertNew, At, Goto
    <3>2. fileContents' = Settled
      BY <1>1, <3>1 DEF SettledOf
    <3> DEFINE c == [op[w] EXCEPT !.pc = "open"]
    <3>3. c.pc = "open"
      BY <1>0 DEF CallRecord
    <3>4. Become(w, c)
      BY <3>1
    <3> HIDE DEF c
    <3> QED
      BY <2>6, <3>1, <3>2, <3>3, <3>4
  <2>8. CASE InsertPastEnd(t)
    <3>1. op[w].pc = "insert" /\ op[w].findIdx > Len(fileContents) + 1
      BY <2>0, <2>8 DEF InsertPastEnd, At
    <3>2. op[w].findIdx <= Len(fileContents) + 1
      BY <3>1 DEF TableInv, Aimed
    <3>3. op[w].findIdx \in Nat /\ Len(fileContents) \in Nat
      BY <1>0, LenProperties DEF CallRecord, TypeInv, BytesOK
    <3> QED
      BY <3>1, <3>2, <3>3
  <2>9. CASE OpenOutput(t)
    <3>1. /\ op[w].pc = "open" /\ fileContents' = fileContents
          /\ running /\ running'
          /\ Become(w, [op[w] EXCEPT !.pc = "fetch"])
      BY <2>0, <2>9 DEF OpenOutput, At, Goto
    <3>2. fileContents' = Settled
      BY <1>1, <3>1 DEF SettledOf
    <3> DEFINE c == [op[w] EXCEPT !.pc = "fetch"]
    <3>3. c.pc = "fetch"
      BY <1>0 DEF CallRecord
    <3>4. Become(w, c)
      BY <3>1
    <3> HIDE DEF c
    <3> QED
      BY <2>6, <3>1, <3>2, <3>3, <3>4
  <2>12. CASE FetchOutput(t)
    <3> DEFINE c == [op[w] EXCEPT !.pc = "write", !.output = fileContents]
    <3>1. /\ op[w].pc = "fetch" /\ fileContents' = fileContents
          /\ running /\ running' /\ Become(w, c)
      BY <2>0, <2>12 DEF FetchOutput, At
    <3>2. fileContents' = Settled
      BY <1>1, <3>1 DEF SettledOf
    <3>3. c.pc = "write"
      BY <1>0 DEF CallRecord
    <3> HIDE DEF c
    <3> QED
      BY <2>6, <3>1, <3>2, <3>3
  <2>10. CASE WriteOutput(t)
    <3>1. /\ op[w].pc = "write" /\ fileContents' = fileContents
          /\ running /\ running' /\ Saved(w)
      BY <2>0, <2>10 DEF WriteOutput, At
    <3>2. disk' = fileContents
      BY <2>0, <2>10, WholeVector
    <3>3. op'[w].pc = "done"
      BY <1>0, <3>1 DEF Saved, Become, CallsOK, CallRecord
    <3>4. Settled = fileContents /\ Settled' = fileContents
      BY <1>1, <3>1, <3>3 DEF SettledOf
    <3> QED
      BY <3>1, <3>2, <3>4, Zenon DEF Kept
  <2>11. CASE WriteFails(t)
    BY <2>11 DEF WriteFails
  <2> QED
    BY <1>8, <2>2, <2>3, <2>4, <2>5, <2>7, <2>8, <2>9, <2>10, <2>11, <2>12, Zenon
    DEF Step
<1> QED
  BY <1>4, <1>5, <1>6, <1>7, <1>8, NextCases, Zenon DEF Crash

\* Before the constructor: the vector is empty, and the disk holds the table.
LEMMA TableBeforeStart ==
  ASSUME NEW w, Thread = {w}, ProperFile, fileContents = << >>,
         disk = Encode(InitTable), op = [t \in Thread |-> Idle]
  PROVE  TableInv
<1>1. Tabled(<< >>) /\ Tabled(Encode(InitTable))
  BY EmptyFile, EncodeLaidOut, Zenon DEF Tabled
<1>2. op[w] = Idle /\ Idle.pc = "idle"
  BY DEF Idle
<1>3. Settled = fileContents
  BY <1>2, SettledOne DEF SettledOf
<1>4. Aimed(fileContents, op[w])
  BY <1>2 DEF Aimed
<1>5. Saving(op[w], fileContents, disk)
  BY <1>2 DEF Saving
<1> QED
  BY <1>1, <1>2, <1>3, <1>4, <1>5 DEF TableInv

\* A call that has found its entry is carried out, or dies with the process.
LEMMA OnwardCall ==
  ASSUME NEW w \in Thread, CallsOK, Step(w),
         op[w].pc \in {"erase", "insert", "open", "fetch", "write"}, running'
  PROVE  \/ op'[w].pc \in {"insert", "open", "fetch", "write"}
         \/ op'[w].pc = "done" /\ op'[w].ok = TRUE
<1>0. op[w] \in CallRecord
  BY DEF CallsOK
<1>1. ASSUME NEW pc, Goto(w, pc)
      PROVE  op'[w].pc = pc
  BY <1>0, <1>1 DEF Goto, Become, CallsOK, CallRecord
<1>2. ASSUME Return(w) \/ Saved(w)
      PROVE  op'[w].pc = "done" /\ op'[w].ok = TRUE
  <2>1. PICK c : /\ Become(w, c)
                 /\ \/ c = [op[w] EXCEPT !.pc = "done", !.ok = TRUE]
                    \/ c = [op[w] EXCEPT !.pc = "done", !.output = << >>, !.ok = TRUE]
    BY <1>2 DEF Return, Saved
  <2>2. c.pc = "done" /\ c.ok = TRUE
    BY <1>0, <2>1 DEF CallRecord
  <2>3. op'[w] = c
    BY <2>1 DEF Become, CallsOK
  <2> QED
    BY <2>2, <2>3
<1>6. ASSUME FetchOutput(w)
      PROVE  op'[w].pc = "write"
  BY <1>0, <1>6 DEF FetchOutput, Become, CallsOK, CallRecord
<1>3. ~ BadHash(w) /\ ~ NotFound(w) /\ ~ Found(w)
  BY DEF BadHash, NotFound, Found, At
<1>4. ~ Die
  BY Zenon DEF Die
<1>5. \/ Goto(w, "insert") \/ Goto(w, "open") \/ Goto(w, "fetch")
      \/ Return(w) \/ Saved(w) \/ FetchOutput(w)
  BY <1>3, <1>4, Zenon
  DEF Step, EraseOld, ErasePastEnd, InsertNew, InsertPastEnd, OpenOutput,
      OpenFails, WriteOutput, WriteFails
<1> QED
  BY <1>1, <1>2, <1>5, <1>6

===============================================================================
