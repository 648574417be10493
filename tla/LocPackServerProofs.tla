------------------------- MODULE LocPackServerProofs -------------------------
(***************************************************************************)
(* Theorems about LocPackServer.  The steps of the two stores are those of *)
(* LocPackBinFile and LocPackFile, so what has been proved of them is      *)
(* brought here by instances of their proof modules.                       *)
(***************************************************************************)
EXTENDS LocPackServer, TLAPS

BinP == INSTANCE LocPackBinFileProofs WITH
  Thread <- Worker, op <- binOp, Fault <- BinFault,
  Request <- { u.bin : u \in Update }

CsvP == INSTANCE LocPackFileProofs WITH
  Thread <- Worker, op <- csvOp, Fault <- CsvFault, Amount <- Limit,
  Request <- { u.csv : u \in Update }

-----------------------------------------------------------------------------
(* Bin and BinP, Csv and CsvP are two instances of one module each, and    *)
(* say the same.                                                           *)

LEMMA BinFacts ==
  BinP!FormatAssumption /\ BinP!RequestAssumption /\ BinP!InitTableAssumption
<1>1. Bin!FormatAssumption /\ Bin!RequestAssumption /\ Bin!InitTableAssumption
  BY ServerAssumption
<1>2. BinP!FormatAssumption
  BY <1>1 DEF Bin!FormatAssumption, BinP!FormatAssumption
<1>3. BinP!RequestAssumption
  BY <1>1 DEF Bin!RequestAssumption, BinP!RequestAssumption, Bin!Byte, BinP!Byte
<1>4. BinP!InitTableAssumption
  BY <1>1 DEF Bin!InitTableAssumption, BinP!InitTableAssumption,
     Bin!Byte, BinP!Byte, Bin!Encode, BinP!Encode,
     Bin!NewEntry, BinP!NewEntry, Bin!LengthField, BinP!LengthField
<1> QED
  BY <1>2, <1>3, <1>4

LEMMA CsvFacts == CsvP!AtomAssumption /\ CsvP!FileAssumption
BY ServerAssumption
DEF Csv!AtomAssumption, Csv!FileAssumption, CsvP!AtomAssumption,
    CsvP!FileAssumption, Csv!Text, CsvP!Text

LEMMA SameSizes ==
  /\ Bin!Byte = BinP!Byte /\ Bin!HashLen = BinP!HashLen
  /\ Bin!LenOff = BinP!LenOff /\ Bin!HeaderLen = BinP!HeaderLen
  /\ Bin!LenMod = BinP!LenMod
BY DEF Bin!Byte, BinP!Byte, Bin!HashLen, BinP!HashLen, Bin!LenOff, BinP!LenOff,
       Bin!HeaderLen, BinP!HeaderLen, Bin!LenMod, BinP!LenMod

LEMMA SameHashes ==
  ASSUME NEW hash
  PROVE  /\ Bin!Convertible(hash) = BinP!Convertible(hash)
         /\ Bin!HashBytes(hash) = BinP!HashBytes(hash)
<1>1. /\ Bin!HalfOf(hash) = BinP!HalfOf(hash)
      /\ Bin!Convertible(hash) = BinP!Convertible(hash)
  BY DEF Bin!HalfOf, BinP!HalfOf, Bin!Convertible, BinP!Convertible
<1>2. Bin!convertHash(hash) = BinP!convertHash(hash)
  BY DEF Bin!HalfOf, BinP!HalfOf, Bin!ReversedHalf, BinP!ReversedHalf,
     Bin!convertHash, BinP!convertHash
<1> QED
  BY <1>1, <1>2, SameSizes DEF Bin!HashBytes, BinP!HashBytes

LEMMA SameBytes ==
  ASSUME NEW bytes, NEW hb, NEW p
  PROVE  /\ Bin!Matches(bytes, hb) = BinP!Matches(bytes, hb)
         /\ Bin!FirstMatch(bytes, hb) = BinP!FirstMatch(bytes, hb)
         /\ Bin!OldTotalSizes(bytes, p) = BinP!OldTotalSizes(bytes, p)
         /\ Bin!EntryAt(bytes, p) = BinP!EntryAt(bytes, p)
<1>1. /\ Bin!Matches(bytes, hb) = BinP!Matches(bytes, hb)
      /\ Bin!FirstMatch(bytes, hb) = BinP!FirstMatch(bytes, hb)
  BY DEF Bin!Matches, BinP!Matches, Bin!FirstMatch, BinP!FirstMatch
<1>2. Bin!StoredLength(bytes, p) = BinP!StoredLength(bytes, p)
  BY SameSizes, Zenon DEF Bin!StoredLength, BinP!StoredLength
<1>3. Bin!OldTotalSizes(bytes, p) = BinP!OldTotalSizes(bytes, p)
  <2>1. /\ Bin!HasLength(bytes, p) = BinP!HasLength(bytes, p)
        /\ Bin!OldTotalSize(bytes, p) = BinP!OldTotalSize(bytes, p)
    BY <1>2, SameSizes
    DEF Bin!HasLength, BinP!HasLength, Bin!OldTotalSize, BinP!OldTotalSize
  <2> QED
    BY <2>1, SameSizes DEF Bin!OldTotalSizes, BinP!OldTotalSizes
<1>4. Bin!EntryAt(bytes, p) = BinP!EntryAt(bytes, p)
  BY <1>2, SameSizes, Zenon DEF Bin!EntryAt, BinP!EntryAt
<1> QED
  BY <1>1, <1>3, <1>4

LEMMA SameEntry ==
  ASSUME NEW hb, NEW r
  PROVE  Bin!NewEntry(hb, r) = BinP!NewEntry(hb, r)
BY DEF Bin!NewEntry, BinP!NewEntry, Bin!LengthField, BinP!LengthField

LEMMA SameBinStep ==
  ASSUME NEW w \in Worker
  PROVE  Bin!Step(w) <=> BinP!Step(w)
<1> USE DEF Bin!At, BinP!At, Bin!Become, BinP!Become, Bin!Goto, BinP!Goto,
            Bin!Throw, BinP!Throw, Bin!Return, BinP!Return, Bin!Die, BinP!Die,
            Bin!Overshoot, BinP!Overshoot
<1>1. /\ Bin!BadHash(w) <=> BinP!BadHash(w)
      /\ Bin!NotFound(w) <=> BinP!NotFound(w)
  BY SameHashes, SameBytes, Zenon
  DEF Bin!BadHash, BinP!BadHash, Bin!NotFound, BinP!NotFound
<1>2. Bin!Found(w) <=> BinP!Found(w)
  BY DEF Bin!Found, BinP!Found, Bin!Convertible, BinP!Convertible,
     Bin!HalfOf, BinP!HalfOf, Bin!ReversedHalf, BinP!ReversedHalf,
     Bin!convertHash, BinP!convertHash, Bin!HashBytes, BinP!HashBytes,
     Bin!Matches, BinP!Matches, Bin!FirstMatch, BinP!FirstMatch,
     Bin!Byte, BinP!Byte, Bin!HashLen, BinP!HashLen, Bin!LenOff, BinP!LenOff,
     Bin!HeaderLen, BinP!HeaderLen, Bin!LenMod, BinP!LenMod,
     Bin!HasLength, BinP!HasLength, Bin!StoredLength, BinP!StoredLength,
     Bin!OldTotalSize, BinP!OldTotalSize, Bin!OldTotalSizes, BinP!OldTotalSizes,
     Bin!NewEntry, BinP!NewEntry, Bin!LengthField, BinP!LengthField
<1>3. /\ Bin!EraseOld(w) <=> BinP!EraseOld(w)
      /\ Bin!ErasePastEnd(w) <=> BinP!ErasePastEnd(w)
  BY DEF Bin!EraseOld, BinP!EraseOld, Bin!ErasePastEnd, BinP!ErasePastEnd,
         Bin!Erase, BinP!Erase
<1>4. /\ Bin!InsertNew(w) <=> BinP!InsertNew(w)
      /\ Bin!InsertPastEnd(w) <=> BinP!InsertPastEnd(w)
  BY SameSizes, Zenon
  DEF Bin!InsertNew, BinP!InsertNew, Bin!InsertPastEnd, BinP!InsertPastEnd,
      Bin!Insert, BinP!Insert
<1>5. /\ Bin!OpenOutput(w) <=> BinP!OpenOutput(w)
      /\ Bin!OpenFails(w) <=> BinP!OpenFails(w)
      /\ Bin!FetchOutput(w) <=> BinP!FetchOutput(w)
  BY DEF Bin!OpenOutput, BinP!OpenOutput, Bin!OpenFails, BinP!OpenFails,
         Bin!FetchOutput, BinP!FetchOutput
<1>6. /\ Bin!WriteOutput(w) <=> BinP!WriteOutput(w)
      /\ Bin!WriteFails(w) <=> BinP!WriteFails(w)
  <2>1. Bin!Written(w) = BinP!Written(w)
    BY DEF Bin!Written, BinP!Written
  <2>2. Bin!Saved(w) <=> BinP!Saved(w)
    BY Zenon DEF Bin!Saved, BinP!Saved
  <2>3. Bin!WriteOutput(w) <=> BinP!WriteOutput(w)
    BY <2>1, <2>2, Zenon DEF Bin!WriteOutput, BinP!WriteOutput
  <2>4. Bin!WriteFails(w) <=> BinP!WriteFails(w)
    BY <2>1, <2>2, Zenon DEF Bin!WriteFails, BinP!WriteFails
  <2> QED
    BY <2>3, <2>4
<1> QED
  BY <1>1, <1>2, <1>3, <1>4, <1>5, <1>6, Zenon DEF Bin!Step, BinP!Step

LEMMA SameBinCalls ==
  ASSUME NEW w \in Worker
  PROVE  /\ Bin!Idle = BinP!Idle
         /\ \A r : Bin!Call(w, r) <=> BinP!Call(w, r)
         /\ Bin!Finish(w) <=> BinP!Finish(w)
BY DEF Bin!At, BinP!At, Bin!Become, BinP!Become, Bin!Idle, BinP!Idle,
   Bin!Call, BinP!Call, Bin!Finish, BinP!Finish

LEMMA SameBinRestart == Bin!Restart <=> BinP!Restart
BY DEF Bin!Idle, BinP!Idle, Bin!Restart, BinP!Restart

LEMMA SameRows ==
  ASSUME NEW rows
  PROVE  /\ Csv!Parse(rows) = CsvP!Parse(rows)
         /\ Csv!Written(rows) = CsvP!Written(rows)
         /\ Csv!RangeLines(rows) = CsvP!RangeLines(rows)
         /\ Csv!FirstBadRow(rows) = CsvP!FirstBadRow(rows)
         /\ \A hash : Csv!HashRow(rows, hash) = CsvP!HashRow(rows, hash)
         /\ \A s : Csv!Lengthened(rows, s) = CsvP!Lengthened(rows, s)
<1>1. Csv!Parse(rows) = CsvP!Parse(rows)
  BY DEF Csv!Parse, CsvP!Parse, Csv!Str, CsvP!Str
<1>2. Csv!Written(rows) = CsvP!Written(rows)
  BY DEF Csv!Written, CsvP!Written, Csv!FlattenSeq, CsvP!FlattenSeq,
     Csv!RowText, CsvP!RowText, Csv!WithComma, CsvP!WithComma
<1>3. Csv!RangeLines(rows) = CsvP!RangeLines(rows)
  BY DEF Csv!RangeLines, CsvP!RangeLines, Csv!Takes, CsvP!Takes,
     Csv!IsInt, CsvP!IsInt, Csv!LocaleLine, CsvP!LocaleLine
<1>4. Csv!FirstBadRow(rows) = CsvP!FirstBadRow(rows)
  BY DEF Csv!FirstBadRow, CsvP!FirstBadRow, Csv!Takes, CsvP!Takes,
     Csv!IsInt, CsvP!IsInt
<1>5. \A hash : Csv!HashRow(rows, hash) = CsvP!HashRow(rows, hash)
  BY DEF Csv!HashRow, CsvP!HashRow, Csv!Str, CsvP!Str
<1>6. \A s : Csv!Lengthened(rows, s) = CsvP!Lengthened(rows, s)
  BY DEF Csv!Lengthened, CsvP!Lengthened
<1> QED
  BY <1>1, <1>2, <1>3, <1>4, <1>5, <1>6

LEMMA SameNewRow ==
  ASSUME NEW r
  PROVE  Csv!NewRow(r) = CsvP!NewRow(r)
BY DEF Csv!NewRow, CsvP!NewRow, Csv!Str, CsvP!Str

LEMMA SameCsvStep ==
  ASSUME NEW w \in Worker
  PROVE  Csv!Step(w) <=> CsvP!Step(w)
<1> USE DEF Csv!At, CsvP!At, Csv!Become, CsvP!Become, Csv!Goto, CsvP!Goto,
            Csv!Return, CsvP!Return, Csv!Throw, CsvP!Throw,
            Csv!fileVars, CsvP!fileVars, Csv!docVars, CsvP!docVars,
            Csv!auxVars, CsvP!auxVars, Csv!Stop, CsvP!Stop, Csv!Idle, CsvP!Idle,
            Csv!Stamp, CsvP!Stamp, Csv!FileBecomes, CsvP!FileBecomes
<1>1. /\ Csv!StatMissing(w) <=> CsvP!StatMissing(w)
      /\ Csv!StatExists(w) <=> CsvP!StatExists(w)
      /\ Csv!TimeFails(w) <=> CsvP!TimeFails(w)
      /\ Csv!StatCurrent(w) <=> CsvP!StatCurrent(w)
      /\ Csv!StatNewer(w) <=> CsvP!StatNewer(w)
  BY DEF Csv!StatMissing, CsvP!StatMissing, Csv!StatExists, CsvP!StatExists,
     Csv!TimeFails, CsvP!TimeFails, Csv!StatCurrent, CsvP!StatCurrent,
     Csv!StatNewer, CsvP!StatNewer, Csv!AfterRefresh, CsvP!AfterRefresh
<1>2. /\ Csv!ReadFile(w) <=> CsvP!ReadFile(w)
      /\ Csv!RereadFails(w) <=> CsvP!RereadFails(w)
      /\ Csv!ReplaceDoc(w) <=> CsvP!ReplaceDoc(w)
      /\ Csv!NoteTime(w) <=> CsvP!NoteTime(w)
  BY SameRows, Zenon
  DEF Csv!ReadFile, CsvP!ReadFile, Csv!RereadFails, CsvP!RereadFails,
      Csv!ReplaceDoc, CsvP!ReplaceDoc, Csv!NoteTime, CsvP!NoteTime,
      Csv!AfterRefresh, CsvP!AfterRefresh
<1>3. /\ Csv!ScanRange(w) <=> CsvP!ScanRange(w)
      /\ Csv!ScanWhole(w) <=> CsvP!ScanWhole(w)
  BY SameRows, Zenon DEF Csv!ScanRange, CsvP!ScanRange, Csv!ScanWhole,
     CsvP!ScanWhole, Csv!Result, CsvP!Result
<1>4. Csv!ScanShortRow(w) <=> CsvP!ScanShortRow(w)
  BY SameRows, Zenon DEF Csv!ScanShortRow, CsvP!ScanShortRow,
     Csv!Result, CsvP!Result, Csv!Str, CsvP!Str
<1>5. Csv!Find(w) <=> CsvP!Find(w)
  BY DEF Csv!Find, CsvP!Find, Csv!HashRow, CsvP!HashRow, Csv!Str, CsvP!Str
<1>6. Csv!FindFails(w) <=> CsvP!FindFails(w)
  BY SameRows, Zenon DEF Csv!FindFails, CsvP!FindFails
<1>7. Csv!SetDoc(w) <=> CsvP!SetDoc(w)
  BY DEF Csv!SetDoc, CsvP!SetDoc, Csv!NewRow, CsvP!NewRow, Csv!SetRow, CsvP!SetRow,
     Csv!SetRowThrows, CsvP!SetRowThrows, Csv!MakeRoom, CsvP!MakeRoom,
     Csv!Resized, CsvP!Resized, Csv!ColumnCount, CsvP!ColumnCount,
     Csv!Str, CsvP!Str
<1>8. /\ Csv!OpenSave(w) <=> CsvP!OpenSave(w)
      /\ Csv!OpenFails(w) <=> CsvP!OpenFails(w)
  BY DEF Csv!OpenSave, CsvP!OpenSave, Csv!OpenFails, CsvP!OpenFails
<1>9. /\ Csv!WriteSave(w) <=> CsvP!WriteSave(w)
      /\ Csv!WriteFails(w) <=> CsvP!WriteFails(w)
  <2>1. Csv!SavedTexts(w) = CsvP!SavedTexts(w)
    <3>1. /\ Csv!Written(held[w]) = CsvP!Written(held[w])
          /\ Csv!Written(doc) = CsvP!Written(doc)
      BY SameRows, Zenon
    <3> QED
      BY <3>1 DEF Csv!SavedTexts, CsvP!SavedTexts
  <2>2. /\ Csv!Fill(w) <=> CsvP!Fill(w)
        /\ Csv!GoAstray(w) <=> CsvP!GoAstray(w)
    BY <2>1, Zenon DEF Csv!Fill, CsvP!Fill, Csv!GoAstray, CsvP!GoAstray,
       Csv!LetGo, CsvP!LetGo
  <2> QED
    BY <2>1, <2>2, Zenon DEF Csv!WriteSave, CsvP!WriteSave, Csv!WriteFails,
       CsvP!WriteFails, Csv!LetGo, CsvP!LetGo
<1> QED
  BY <1>1, <1>2, <1>3, <1>4, <1>5, <1>6, <1>7, <1>8, <1>9, Zenon
  DEF Csv!Step, CsvP!Step

LEMMA SameCsvCalls ==
  ASSUME NEW w \in Worker
  PROVE  /\ \A kind, req, n : Csv!Call(w, kind, req, n) <=> CsvP!Call(w, kind, req, n)
         /\ Csv!Finish(w) <=> CsvP!Finish(w)
         /\ Csv!Stop <=> CsvP!Stop
BY DEF Csv!At, CsvP!At, Csv!Become, CsvP!Become, Csv!Idle, CsvP!Idle,
   Csv!fileVars, CsvP!fileVars, Csv!docVars, CsvP!docVars,
   Csv!auxVars, CsvP!auxVars,
   Csv!Call, CsvP!Call, Csv!Finish, CsvP!Finish, Csv!Stop, CsvP!Stop

LEMMA SameCsvProgram ==
  /\ Csv!Init <=> CsvP!Init
  /\ Csv!Environment <=> CsvP!Environment
  /\ Csv!StartRead <=> CsvP!StartRead
  /\ Csv!StartStat <=> CsvP!StartStat
  /\ Csv!StartFails <=> CsvP!StartFails
  /\ Csv!Crash <=> CsvP!Crash
<1> USE DEF Csv!fileVars, CsvP!fileVars, Csv!docVars, CsvP!docVars,
            Csv!auxVars, CsvP!auxVars, Csv!Idle, CsvP!Idle, Csv!Stop, CsvP!Stop
<1>1. Csv!Init <=> CsvP!Init
  BY DEF Csv!Init, CsvP!Init
<1>2. Csv!Environment <=> CsvP!Environment
  BY DEF Csv!Environment, CsvP!Environment, Csv!Edit, CsvP!Edit,
     Csv!Delete, CsvP!Delete, Csv!Saving, CsvP!Saving, Csv!Stamp, CsvP!Stamp,
     Csv!FileBecomes, CsvP!FileBecomes
<1>3. Csv!StartRead <=> CsvP!StartRead
  BY SameRows, Zenon DEF Csv!StartRead, CsvP!StartRead
<1>4. /\ Csv!StartStat <=> CsvP!StartStat
      /\ Csv!StartFails <=> CsvP!StartFails
      /\ Csv!Crash <=> CsvP!Crash
  BY DEF Csv!StartStat, CsvP!StartStat, Csv!StartFails, CsvP!StartFails,
     Csv!Crash, CsvP!Crash
<1> QED
  BY <1>1, <1>2, <1>3, <1>4

-----------------------------------------------------------------------------
(* The steps of the server are steps of the stores.                        *)

LEMMA NextCases ==
  ASSUME Next
  PROVE  \/ Start \/ Environment \/ Crash
         \/ \E w \in Worker :
              \/ AnswerAtOnce(w)
              \/ \E u \in Update : PostUpdate(w, u)
              \/ \E limit \in Limit : GetRange(w, limit)
              \/ GetSearch(w)
              \/ BinStep(w) \/ BinThrew(w) \/ BinReturned(w)
              \/ CsvStep(w) \/ UpdateDone(w) \/ RangeDone(w) \/ SearchDone(w)
              \/ Reply(w)
BY Zenon DEF Next, Work

BinMoves == [BinP!Next]_(BinP!binVars)

LEMMA BinMove ==
  ASSUME running \in BOOLEAN, [Next]_vars
  PROVE  BinMoves
<1>1. UNCHANGED binVars => BinMoves
  BY Zenon DEF binVars, BinP!binVars, BinMoves
<1>2. ASSUME NEW w \in Worker,
             \/ \E u \in Update : BinP!Call(w, u.bin)
             \/ BinP!Step(w) \/ BinP!Finish(w)
      PROVE  BinMoves
  BY <1>2, Zenon DEF BinP!Next, BinMoves
<1>3. BinP!Restart => BinMoves
  BY Zenon DEF BinP!Next, BinMoves
<1>4. ASSUME running' = FALSE, UNCHANGED << fileContents, disk, binOp, spoilt >>
      PROVE  BinMoves
  <2>1. CASE running = TRUE
    BY <1>4, <2>1, Zenon DEF BinP!Next, BinP!Crash, BinP!Die, BinMoves
  <2>2. CASE running = FALSE
    BY <1>1, <1>4, <2>2, Zenon DEF binVars
  <2> QED
    BY <2>1, <2>2
<1>5. CASE Start
  BY <1>1, <1>3, <1>5, SameBinRestart, Zenon DEF Start
<1>6. CASE Environment \/ UNCHANGED vars
  BY <1>1, <1>6, Zenon DEF Environment, vars
<1>7. CASE Crash
  BY <1>4, <1>7, Zenon DEF Crash
<1>8. ASSUME NEW w \in Worker
      PROVE  /\ AnswerAtOnce(w) \/ GetSearch(w) \/ UpdateDone(w)
                  \/ RangeDone(w) \/ SearchDone(w) \/ Reply(w) => BinMoves
             /\ \A limit \in Limit : GetRange(w, limit) => BinMoves
  BY <1>1, Zenon DEF AnswerAtOnce, GetRange, GetSearch, UpdateDone, RangeDone,
     SearchDone, Reply
<1>9. ASSUME NEW w \in Worker
      PROVE  /\ BinStep(w) \/ BinThrew(w) \/ BinReturned(w) => BinMoves
             /\ \A u \in Update : PostUpdate(w, u) => BinMoves
  BY <1>2, SameBinStep, SameBinCalls, Zenon
  DEF BinStep, BinThrew, BinReturned, PostUpdate
<1>10. ASSUME NEW w \in Worker
       PROVE  CsvStep(w) => BinMoves
  BY <1>1, <1>4, Zenon DEF CsvStep, binVars
<1> QED
  BY <1>5, <1>6, <1>7, <1>8, <1>9, <1>10, NextCases, Zenon

\* What a step does to the text store: a step of LocPackFile, or the end of
\* the process in the other store, or the beginning of an update, which
\* LocPackFile bounds in its own way.
CsvMoves ==
  \/ [CsvP!Next]_(CsvP!csvVars)
  \/ CsvP!Stop /\ UNCHANGED outages
  \/ \E w \in Worker :
       BinReturned(w) /\ CsvP!Call(w, "update", task[w].update.csv, 0)

LEMMA CsvMove ==
  ASSUME [Next]_vars
  PROVE  CsvMoves
<1>1. UNCHANGED csvVars => CsvMoves
  BY Zenon DEF csvVars, CsvMoves, CsvP!csvVars, CsvP!fileVars,
     CsvP!docVars, CsvP!auxVars
<1>2. ASSUME NEW w \in Worker,
             \/ \E n \in Limit : CsvP!CallRange(w, n)
             \/ CsvP!CallWhole(w) \/ CsvP!Step(w) \/ CsvP!Finish(w)
      PROVE  CsvMoves
  BY <1>2, Zenon DEF CsvP!Next, CsvMoves
<1>3. CASE Start
  BY <1>1, <1>3, SameCsvProgram, Zenon DEF Start, CsvP!Next, CsvMoves
<1>4. CASE Environment
  BY <1>4, SameCsvProgram, Zenon DEF Environment, CsvP!Next, CsvMoves
<1>5. CASE Crash
  BY <1>5, SameCsvProgram, Zenon DEF Crash, CsvP!Next, CsvMoves
<1>6. ASSUME NEW w \in Worker
      PROVE  /\ AnswerAtOnce(w) \/ BinThrew(w) \/ Reply(w) => CsvMoves
             /\ \A u \in Update : PostUpdate(w, u) => CsvMoves
  BY <1>1, ZenonT(40) DEF AnswerAtOnce, BinThrew, Reply, PostUpdate
<1>7. ASSUME NEW w \in Worker
      PROVE  /\ GetSearch(w) => CsvMoves
             /\ \A limit \in Limit : GetRange(w, limit) => CsvMoves
  BY <1>2, SameCsvCalls, Zenon DEF GetSearch, GetRange, Csv!CallRange,
     CsvP!CallRange, Csv!CallWhole, CsvP!CallWhole
<1>8. ASSUME NEW w \in Worker
      PROVE  CsvStep(w) \/ UpdateDone(w) \/ RangeDone(w) \/ SearchDone(w) => CsvMoves
  BY <1>2, SameCsvStep, SameCsvCalls, Zenon
  DEF CsvStep, UpdateDone, RangeDone, SearchDone
<1>9. ASSUME NEW w \in Worker
      PROVE  BinReturned(w) => CsvMoves
  BY SameCsvCalls, Zenon DEF BinReturned, CsvMoves
<1>10. ASSUME NEW w \in Worker
       PROVE  BinStep(w) => CsvMoves
  BY <1>1, SameCsvCalls, Zenon DEF BinStep, CsvMoves
<1> QED
  BY <1>1, <1>3, <1>4, <1>5, <1>6, <1>7, <1>8, <1>9, <1>10, NextCases, Zenon DEF vars

-----------------------------------------------------------------------------
(* The stores keep their types under the server's steps.                   *)

LEMMA BinTypeStep ==
  ASSUME BinP!TypeInv, BinP!SpoiltOK, [Next]_vars
  PROVE  BinP!TypeInv' /\ BinP!SpoiltOK'
<1>1. running \in BOOLEAN
  BY Zenon DEF BinP!TypeInv
<1>2. [BinP!Next]_(BinP!binVars)
  BY <1>1, BinMove, Zenon DEF BinMoves
<1> QED
  BY <1>2, BinFacts, BinP!TypeStep, BinP!SpoiltStep, Zenon

LEMMA CsvUpdate ==
  ASSUME NEW u \in Update
  PROVE  u.csv \in { v.csv : v \in Update }
OBVIOUS

LEMMA CsvTypeStep ==
  ASSUME CsvP!TypeOK, [Next]_vars,
         \A w \in Worker : BinReturned(w) => task[w].update \in Update
  PROVE  CsvP!TypeOK'
<1>1. CASE [CsvP!Next]_(CsvP!csvVars)
  BY <1>1, CsvFacts, CsvP!FlagsStep, CsvP!ClocksStep, CsvP!CallsStep, Zenon
  DEF CsvP!TypeOK
<1>2. CASE CsvP!Stop /\ UNCHANGED outages
  <2>1. outages' \in Nat
    BY <1>2 DEF CsvP!TypeOK, CsvP!ClocksOK
  <2> QED
    BY <1>2, <2>1, CsvFacts, CsvP!TypeStop, Zenon
<1>3. ASSUME NEW w \in Worker, BinReturned(w),
             CsvP!Call(w, "update", task[w].update.csv, 0)
      PROVE  CsvP!TypeOK'
  <2>1. task[w].update.csv \in { u.csv : u \in Update } \cup {NoRequest}
    BY <1>3, CsvUpdate, Zenon
  <2>2. "update" \in {"update", "range", "whole"} /\ 0 \in Int
    OBVIOUS
  <2> QED
    BY <1>3, <2>1, <2>2, CsvFacts, CsvP!TypeCall, Zenon
<1> QED
  BY <1>1, <1>2, <1>3, CsvMove, Zenon DEF CsvMoves

-----------------------------------------------------------------------------
(* The requests.                                                           *)

TaskFields == {"pc", "route", "update", "limit", "code", "body"}

Codes == {200, 204, 400, 405, 500}

IsTask(c) ==
  /\ DOMAIN c = TaskFields
  /\ c.pc \in {"idle", "bin", "csv", "reply"}
  /\ c.route \in {"none", "update", "range", "search"}
  /\ c.update \in Update \cup {NoRequest}
  /\ c.code \in IF c.pc = "reply" THEN Codes ELSE {0}
  /\ c.pc = "bin" => c.route = "update"
  /\ c.route = "update" => c.update \in Update

TasksOK == DOMAIN task = Worker /\ \A w \in Worker : IsTask(task[w])

SuspectOK == suspect \subseteq { u.bin.hash : u \in Update \cup InitEntry }

LEMMA FreeIsTask == IsTask(Free)
BY DEF IsTask, Free, TaskFields

LEMMA TaskBecomes ==
  ASSUME TasksOK, NEW w \in Worker, NEW c, IsTask(c),
         task' = [task EXCEPT ![w] = c]
  PROVE  TasksOK'
<1>1. DOMAIN task' = Worker /\ \A v \in Worker : task'[v] = IF v = w THEN c ELSE task[v]
  BY DEF TasksOK
<1> QED
  BY <1>1, Zenon DEF TasksOK

LEMMA Begun ==
  ASSUME TasksOK, NEW w \in Worker, NEW pc \in {"bin", "csv"},
         NEW route \in {"update", "range", "search"},
         NEW update \in Update \cup {NoRequest}, NEW limit,
         Begin(w, pc, route, update, limit),
         pc = "bin" => route = "update", route = "update" => update \in Update
  PROVE  /\ TasksOK'
         /\ task'[w].pc = pc /\ task'[w].route = route /\ task'[w].update = update
         /\ \A v \in Worker \ {w} : task'[v] = task[v]
<1> DEFINE c == [Free EXCEPT !.pc = pc, !.route = route, !.update = update,
                             !.limit = limit]
<1>1. /\ DOMAIN c = TaskFields /\ c.code = 0
      /\ c.pc = pc /\ c.route = route /\ c.update = update
  BY DEF Free, TaskFields
<1>2. task' = [task EXCEPT ![w] = c]
  BY Zenon DEF Begin
<1> HIDE DEF c
<1>3. IsTask(c)
  BY <1>1 DEF IsTask
<1>4. TasksOK'
  BY <1>2, <1>3, TaskBecomes, Zenon
<1>5. task'[w] = c /\ \A v \in Worker \ {w} : task'[v] = task[v]
  BY <1>2 DEF TasksOK
<1> QED
  BY <1>1, <1>4, <1>5

LEMMA Responded ==
  ASSUME TasksOK, NEW w \in Worker, NEW code \in Codes, NEW body,
         Respond(w, code, body), task[w].pc # "reply"
  PROVE  /\ TasksOK'
         /\ task'[w].pc = "reply" /\ task'[w].code = code
         /\ task'[w].route = task[w].route /\ task'[w].update = task[w].update
         /\ \A v \in Worker \ {w} : task'[v] = task[v]
<1> DEFINE c == [task[w] EXCEPT !.pc = "reply", !.code = code, !.body = body]
<1>0. DOMAIN task[w] = TaskFields
  BY DEF TasksOK, IsTask
<1>1. /\ DOMAIN c = TaskFields /\ c.code = code
      /\ c.pc = "reply" /\ c.route = task[w].route /\ c.update = task[w].update
  BY <1>0 DEF TaskFields
<1>2. task' = [task EXCEPT ![w] = c]
  BY DEF Respond, TasksOK
<1> HIDE DEF c
<1>3. IsTask(c)
  BY <1>1 DEF IsTask, TasksOK
<1>4. TasksOK'
  BY <1>2, <1>3, TaskBecomes, Zenon
<1>5. task'[w] = c /\ \A v \in Worker \ {w} : task'[v] = task[v]
  BY <1>2 DEF TasksOK
<1> QED
  BY <1>1, <1>4, <1>5

LEMMA Abandoned ==
  ASSUME TasksOK, SuspectOK, Abandon
  PROVE  /\ TasksOK' /\ SuspectOK'
         /\ \A w \in Worker : task'[w] = Free
<1>1. \A w \in Worker : task'[w] = Free
  BY DEF Abandon
<1>2. TasksOK'
  BY <1>1, FreeIsTask DEF TasksOK, Abandon
<1>3. \A w \in InFlight : task[w].update \in Update
  BY DEF InFlight, TasksOK, IsTask
<1>4. SuspectOK'
  BY <1>3 DEF SuspectOK, Abandon, InFlight
<1> QED
  BY <1>1, <1>2, <1>4

\* What the steps do to the request of w, and to no other.
LEMMA AnsweredAtOnce ==
  ASSUME TasksOK, NEW w \in Worker, AnswerAtOnce(w)
  PROVE  /\ TasksOK'
         /\ task'[w].pc = "reply" /\ task'[w].route = "none"
         /\ \A v \in Worker \ {w} : task'[v] = task[v]
<1>1. PICK code \in Codes :
        task' = [task EXCEPT ![w] = [Free EXCEPT !.pc = "reply", !.code = code]]
  BY DEF AnswerAtOnce, Codes
<1> DEFINE c == [Free EXCEPT !.pc = "reply", !.code = code]
<1>2. /\ DOMAIN c = TaskFields /\ c.code = code /\ c.pc = "reply"
      /\ c.route = "none" /\ c.update = NoRequest
  BY DEF Free, TaskFields
<1>3. task' = [task EXCEPT ![w] = c]
  BY <1>1
<1> HIDE DEF c
<1>4. IsTask(c)
  BY <1>2 DEF IsTask
<1>5. TasksOK'
  BY <1>3, <1>4, TaskBecomes, Zenon
<1>6. task'[w] = c /\ \A v \in Worker \ {w} : task'[v] = task[v]
  BY <1>3 DEF TasksOK
<1> QED
  BY <1>2, <1>5, <1>6

LEMMA Passed ==
  ASSUME TasksOK, NEW w \in Worker, BinReturned(w)
  PROVE  /\ TasksOK'
         /\ task'[w].pc = "csv" /\ task'[w].route = "update"
         /\ task'[w].update = task[w].update /\ task[w].update \in Update
         /\ \A v \in Worker \ {w} : task'[v] = task[v]
<1> DEFINE c == [task[w] EXCEPT !.pc = "csv"]
<1>1. task' = [task EXCEPT ![w] = c] /\ task[w].pc = "bin"
  BY DEF BinReturned, At
<1>2. /\ DOMAIN task[w] = TaskFields /\ task[w].route = "update"
      /\ task[w].update \in Update /\ task[w].code = 0
  BY <1>1 DEF TasksOK, IsTask
<1>3. /\ DOMAIN c = TaskFields /\ c.code = 0 /\ c.pc = "csv"
      /\ c.route = "update" /\ c.update = task[w].update
  BY <1>2 DEF TaskFields
<1> HIDE DEF c
<1>4. IsTask(c)
  BY <1>2, <1>3 DEF IsTask
<1>5. TasksOK'
  BY <1>1, <1>4, TaskBecomes, Zenon
<1>6. task'[w] = c /\ \A v \in Worker \ {w} : task'[v] = task[v]
  BY <1>1 DEF TasksOK
<1> QED
  BY <1>2, <1>3, <1>5, <1>6

LEMMA Replied ==
  ASSUME TasksOK, NEW w \in Worker, Reply(w)
  PROVE  /\ TasksOK' /\ task'[w] = Free
         /\ \A v \in Worker \ {w} : task'[v] = task[v]
<1>1. TasksOK'
  BY FreeIsTask, TaskBecomes, Zenon DEF Reply
<1>2. task'[w] = Free /\ \A v \in Worker \ {w} : task'[v] = task[v]
  BY DEF Reply, TasksOK
<1> QED
  BY <1>1, <1>2

LEMMA TaskStep ==
  ASSUME TasksOK, SuspectOK, [Next]_vars
  PROVE  TasksOK' /\ SuspectOK'
<1>1. CASE UNCHANGED << task, suspect >>
  BY <1>1, Zenon DEF TasksOK, SuspectOK
<1>2. CASE Abandon
  BY <1>2, Abandoned
<1>3. CASE Start \/ Environment \/ UNCHANGED vars
  BY <1>1, <1>3, Zenon DEF Start, Environment, vars
<1>4. CASE Crash
  BY <1>2, <1>4, Zenon DEF Crash
<1>5. ASSUME NEW w \in Worker, BinStep(w) \/ CsvStep(w)
      PROVE  TasksOK' /\ SuspectOK'
  BY <1>1, <1>2, <1>5, Zenon DEF BinStep, CsvStep
<1>6. UNCHANGED suspect => SuspectOK'
  BY Zenon DEF SuspectOK
<1>7. ASSUME NEW w \in Worker, AnswerAtOnce(w) \/ BinReturned(w) \/ Reply(w)
      PROVE  TasksOK' /\ SuspectOK'
  BY <1>6, <1>7, AnsweredAtOnce, Passed, Replied, ZenonT(40)
  DEF AnswerAtOnce, BinReturned, Reply
<1>8. ASSUME NEW w \in Worker, NEW u \in Update, PostUpdate(w, u)
      PROVE  TasksOK' /\ SuspectOK'
  <2>1. Begin(w, "bin", "update", u, 0) /\ UNCHANGED suspect
    BY <1>8, Zenon DEF PostUpdate
  <2> QED
    BY <1>6, <2>1, Begun
<1>9. ASSUME NEW w \in Worker, NEW limit, NEW route \in {"range", "search"},
             Begin(w, "csv", route, NoRequest, limit), UNCHANGED suspect
      PROVE  TasksOK' /\ SuspectOK'
  BY <1>6, <1>9, Begun
<1>10. ASSUME NEW w \in Worker, NEW code \in {200, 500}, NEW body,
              Respond(w, code, body), At(w, "bin") \/ At(w, "csv")
       PROVE  TasksOK'
  BY <1>10, Responded DEF At, Codes
<1>11. ASSUME NEW w \in Worker, BinThrew(w) \/ RangeDone(w) \/ SearchDone(w)
       PROVE  TasksOK' /\ SuspectOK'
  BY <1>6, <1>10, <1>11 DEF BinThrew, RangeDone, SearchDone
<1>12. ASSUME NEW w \in Worker, UpdateDone(w)
       PROVE  TasksOK' /\ SuspectOK'
  <2>1. TasksOK'
    BY <1>10, <1>12 DEF UpdateDone
  <2>2. task[w].update \in Update
    BY <1>12 DEF UpdateDone, TasksOK, IsTask
  <2>3. suspect' \subseteq suspect \cup {task[w].update.bin.hash}
    BY <1>12 DEF UpdateDone
  <2> QED
    BY <2>1, <2>2, <2>3 DEF SuspectOK
<1>13. ASSUME NEW w \in Worker
       PROVE  /\ GetSearch(w) => TasksOK' /\ SuspectOK'
              /\ \A limit \in Limit : GetRange(w, limit) => TasksOK' /\ SuspectOK'
  BY <1>9 DEF GetSearch, GetRange
<1> QED
  BY <1>3, <1>4, <1>5, <1>7, <1>8, <1>11, <1>12, <1>13, NextCases, Zenon

-----------------------------------------------------------------------------
(* Types.                                                                  *)

ServerTypes ==
  BinP!TypeInv /\ BinP!SpoiltOK /\ CsvP!TypeOK /\ TasksOK /\ SuspectOK

LEMMA TypesInit == Init => ServerTypes
<1> SUFFICES ASSUME Init PROVE ServerTypes
  OBVIOUS
<1>1. BinP!TypeInv /\ BinP!SpoiltOK
  <2>1. Bin!Encode(InitTable) = BinP!Encode(InitTable) /\ Bin!Idle = BinP!Idle
    BY DEF Bin!Encode, BinP!Encode, Bin!NewEntry, BinP!NewEntry,
           Bin!LengthField, BinP!LengthField, Bin!Idle, BinP!Idle
  <2>2. /\ fileContents = << >> /\ disk = BinP!Encode(InitTable)
        /\ running = FALSE /\ binOp = [w \in Worker |-> BinP!Idle]
        /\ spoilt = FALSE
    BY <2>1 DEF Init
  <2> QED
    BY <2>2, BinFacts, BinP!InvBeforeStart, Zenon DEF BinP!SpoiltOK
<1>2. CsvP!TypeOK
  BY CsvFacts, SameCsvProgram, CsvP!TypeInit, Zenon DEF Init
<1>3. TasksOK /\ SuspectOK
  BY FreeIsTask DEF Init, TasksOK, SuspectOK
<1> QED
  BY <1>1, <1>2, <1>3 DEF ServerTypes

LEMMA TypesStep ==
  ASSUME ServerTypes, [Next]_vars
  PROVE  ServerTypes'
<1>1. BinP!TypeInv' /\ BinP!SpoiltOK'
  BY BinTypeStep, Zenon DEF ServerTypes
<1>2. \A w \in Worker : BinReturned(w) => task[w].update \in Update
  BY Passed, Zenon DEF ServerTypes
<1>3. CsvP!TypeOK'
  BY <1>2, CsvTypeStep, Zenon DEF ServerTypes
<1>4. TasksOK' /\ SuspectOK'
  BY TaskStep, Zenon DEF ServerTypes
<1> QED
  BY <1>1, <1>3, <1>4, Zenon DEF ServerTypes

\* The types of the server's state and of both stores, for any number of
\* workers: through every order of their requests, each request's update is one
\* that was posted, a status is set exactly when the answer is ready, and the
\* stores' own types survive what LocPackServer does to them, a death in
\* the other store included.
THEOREM TypeCorrect == Spec => []TypeOK
<1>1. ServerTypes => TypeOK
  <2> SUFFICES ASSUME ServerTypes PROVE TypeOK
    OBVIOUS
  <2>1. Bin!TypeOK
    BY Zenon DEF ServerTypes, BinP!TypeInv, BinP!BytesOK, BinP!CallsOK,
       BinP!SpoiltOK, Bin!TypeOK, BinP!Byte, Bin!Byte, Bin!CallRecord, BinP!CallRecord,
       Bin!PC, BinP!PC
  <2>2. Csv!TypeOK
    BY Zenon DEF ServerTypes, CsvP!TypeOK, CsvP!FlagsOK, CsvP!ClocksOK,
       CsvP!CallsOK, Csv!TypeOK, Csv!FlagsOK, Csv!ClocksOK, Csv!CallsOK,
       Csv!CallRecord, CsvP!CallRecord, Csv!PC, CsvP!PC
  <2>3. \A w \in Worker : IsTask(task[w])
    BY Zenon DEF ServerTypes, TasksOK
  <2> QED
    BY <2>1, <2>2, <2>3 DEF TypeOK, ServerTypes, SuspectOK, IsTask, Codes
<1> QED
  BY <1>1, TypesInit, TypesStep, PTL DEF Spec

-----------------------------------------------------------------------------
(* What "Update Successful" means.                                         *)

\* The conditions on the constants: one worker, no silent failure of a write,
\* nobody else at the .locpack file, texts whose length fits into its two
\* bytes, a .locpackbin file that the search for the bytes of a hash cannot
\* misread, and a .locpack file of four columns whose cells hold no comma and
\* no line break.
Intact(w) ==
  /\ Worker = {w}
  /\ BinFault = {} /\ "write" \notin CsvFault /\ Version = {}
  /\ Bin!ShortTexts /\ Bin!ProperFile
  /\ CsvP!PlainWorld(4)

LEMMA SameTable == Bin!Encode(InitTable) = BinP!Encode(InitTable)
BY DEF Bin!Encode, BinP!Encode, Bin!NewEntry, BinP!NewEntry,
       Bin!LengthField, BinP!LengthField

LEMMA SameProperFile == Bin!ProperFile <=> BinP!ProperFile
<1>1. \A hb, r : Bin!EntryOf(hb, r) = BinP!EntryOf(hb, r)
  BY DEF Bin!EntryOf, BinP!EntryOf
<1>2. Bin!Searchable = BinP!Searchable
  BY DEF Bin!Searchable, BinP!Searchable, Bin!Convertible, BinP!Convertible,
     Bin!HalfOf, BinP!HalfOf
<1>3. \A hash : Bin!HashBytes(hash) = BinP!HashBytes(hash)
  BY SameHashes
<1>4. Bin!Known = BinP!Known
  <2>1. { r \in Bin!Searchable : Len(r.text) < Bin!LenMod }
          = { r \in BinP!Searchable : Len(r.text) < BinP!LenMod }
    <3>1. Bin!LenMod = BinP!LenMod
      BY SameSizes
    <3> QED
      BY <1>2, <3>1
  <2> QED
    BY <1>1, <1>3, <2>1 DEF Bin!Known, BinP!Known
<1>5. \A e : Bin!Image(e) = BinP!Image(e)
  BY SameEntry DEF Bin!Image, BinP!Image
<1>6. \A e : Bin!WellFormed(e) <=> BinP!WellFormed(e)
  BY SameSizes, Zenon DEF Bin!WellFormed, BinP!WellFormed
<1>7. \A bytes, hb : Bin!Matches(bytes, hb) = BinP!Matches(bytes, hb)
  BY SameBytes
<1>8. Bin!Unambiguous <=> BinP!Unambiguous
  <2> DEFINE Old(d, e, hb) == Bin!Matches(Bin!Image(d) \o Bin!Image(e), hb)
                                \subseteq {1, Len(Bin!Image(d)) + 1}
             New(d, e, hb) == BinP!Matches(BinP!Image(d) \o BinP!Image(e), hb)
                                \subseteq {1, Len(BinP!Image(d)) + 1}
  <2>1. ASSUME NEW d, NEW e, NEW hb
        PROVE  Old(d, e, hb) <=> New(d, e, hb)
    <3>1. Bin!Image(d) = BinP!Image(d) /\ Bin!Image(e) = BinP!Image(e)
      BY <1>5
    <3> QED
      BY <1>7, <3>1
  <2> HIDE DEF Old, New
  <2>2. (\A d, e \in Bin!Known : \A r \in Bin!Searchable :
         \A hb \in Bin!HashBytes(r.hash) : Old(d, e, hb))
          <=> (\A d, e \in BinP!Known : \A r \in BinP!Searchable :
               \A hb \in BinP!HashBytes(r.hash) : New(d, e, hb))
    BY <1>2, <1>3, <1>4, <2>1, Zenon
  <2> QED
    BY <2>2 DEF Bin!Unambiguous, BinP!Unambiguous, Old, New
<1> QED
  BY <1>4, <1>6, <1>8, Zenon DEF Bin!ProperFile, BinP!ProperFile

LEMMA BinWorld ==
  ASSUME NEW w, Intact(w)
  PROVE  /\ Worker = {w} /\ BinP!OneThread
         /\ BinFault = {} /\ "write" \notin BinFault
         /\ BinP!ProperFile /\ BinP!ShortTexts
<1>1. BinP!ProperFile
  BY SameProperFile, Zenon DEF Intact
<1>2. BinP!ShortTexts
  BY SameSizes, Zenon DEF Intact, Bin!ShortTexts, BinP!ShortTexts
<1> QED
  BY <1>1, <1>2 DEF Intact, BinP!OneThread

\* The store a request is in works on the update of the request.
Linked(w) ==
  /\ running => phase = "up"
  /\ ~ Serving => task[w].pc = "idle"
  /\ task[w].pc = "bin" => binOp[w].req = task[w].update.bin
  /\ task[w].pc = "csv" /\ task[w].route = "update" =>
       csvOp[w].kind = "update" /\ csvOp[w].req = task[w].update.csv

BinHolds(u) == disk = fileContents /\ BinP!ReadsBack(fileContents, u.bin)

\* What has been done for the request so far.
Backed(w) ==
  /\ task[w].pc = "csv" /\ task[w].route = "update" => BinHolds(task[w].update)
  /\ task[w].pc = "reply" /\ task[w].route = "update" /\ task[w].code = 200 =>
       BinHolds(task[w].update) /\ CsvP!RowThere(content, task[w].update.csv)

SyncedInv == running => BinP!SyncInv

OkInv(w) ==
  /\ ServerTypes /\ SyncedInv /\ BinP!TextInv
  /\ BinP!TableInv /\ BinP!FullInv /\ CsvP!PlainInv(4)
  /\ Linked(w) /\ Backed(w)

\* Neither side can be broken by a request that has ended.
LEMMA AtRest ==
  ASSUME NEW w, task'[w].pc = "idle", (running => phase = "up")'
  PROVE  Linked(w)' /\ Backed(w)'
BY DEF Linked, Backed

\* A step of the program or its environment that leaves the requests alone.
LEMMA OutsideStep ==
  ASSUME NEW w \in Worker, ServerTypes, Linked(w), Backed(w), Version = {},
         Start \/ Environment
  PROVE  Linked(w)' /\ Backed(w)'
<1>1. CASE Start
  <2>1. ~ Serving
    BY <1>1 DEF Start, Serving, Csv!StartRead, Csv!StartStat, Csv!StartFails,
       Bin!Restart, Linked
  <2>2. task'[w].pc = "idle"
    BY <1>1, <2>1, Zenon DEF Start, Linked
  <2>3. (running => phase = "up")'
    BY <1>1 DEF Start, Linked, Csv!StartRead, Csv!StartStat, Csv!StartFails,
       Bin!Restart, binVars, csvVars
  <2> QED
    BY <2>2, <2>3, AtRest
<1>2. CASE Environment
  <2>1. /\ UNCHANGED << fileContents, disk, running, binOp, task >>
        /\ UNCHANGED << content, phase, csvOp >>
    BY <1>2 DEF Environment, binVars, Csv!Environment, Csv!Delete
  <2> QED
    BY <2>1, Zenon DEF Linked, Backed, BinHolds, Serving
<1> QED
  BY <1>1, <1>2

\* A death of the process, in either store or between two requests.
LEMMA DeathStep ==
  ASSUME NEW w \in Worker, ServerTypes, Abandon, running' = FALSE
  PROVE  Linked(w)' /\ Backed(w)'
<1>1. task'[w].pc = "idle"
  BY Abandoned DEF ServerTypes, Free
<1> QED
  BY <1>1, AtRest

\* Steps of the worker that begin or end a request, or carry it from one store
\* to the other.
LEMMA AnsweredStep ==
  ASSUME NEW w \in Worker, ServerTypes, Linked(w), AnswerAtOnce(w) \/ Reply(w)
  PROVE  Linked(w)' /\ Backed(w)'
<1>1. /\ UNCHANGED << running, phase >> /\ Serving
  BY DEF AnswerAtOnce, Reply, binVars, csvVars, At
<1>2. CASE AnswerAtOnce(w)
  <2>1. task'[w].pc = "reply" /\ task'[w].route = "none"
    BY <1>2, AnsweredAtOnce DEF ServerTypes
  <2> QED
    BY <1>1, <2>1 DEF Linked, Backed, Serving
<1>3. CASE Reply(w)
  <2>1. task'[w].pc = "idle"
    BY <1>3, Replied DEF ServerTypes, Free
  <2> QED
    BY <1>1, <2>1, AtRest DEF Linked
<1> QED
  BY <1>2, <1>3

LEMMA PostedStep ==
  ASSUME NEW w \in Worker, ServerTypes, Linked(w), NEW u \in Update, PostUpdate(w, u)
  PROVE  Linked(w)' /\ Backed(w)'
<1>1. UNCHANGED << running, phase >> /\ Serving
  BY DEF PostUpdate, Bin!Call, csvVars, At
<1>2. task'[w].pc = "bin" /\ task'[w].update = u
  BY Begun DEF ServerTypes, PostUpdate
<1>3. binOp'[w].req = u.bin
  <2>1. DOMAIN binOp = Worker
    BY DEF ServerTypes, BinP!TypeInv, BinP!CallsOK
  <2> DEFINE c == [Bin!Idle EXCEPT !.pc = "search", !.req = u.bin]
  <2>2. c.req = u.bin
    BY DEF Bin!Idle
  <2>3. binOp' = [binOp EXCEPT ![w] = c]
    BY Zenon DEF PostUpdate, Bin!Call, Bin!Become
  <2> HIDE DEF c
  <2> QED
    BY <2>1, <2>2, <2>3
<1> QED
  BY <1>1, <1>2, <1>3 DEF Linked, Backed, Serving

LEMMA ReadingStep ==
  ASSUME NEW w \in Worker, ServerTypes, Linked(w),
         GetSearch(w) \/ \E limit \in Limit : GetRange(w, limit)
  PROVE  Linked(w)' /\ Backed(w)'
<1>1. UNCHANGED << running, phase >> /\ Serving
  BY DEF GetSearch, GetRange, Csv!CallRange, Csv!CallWhole, Csv!Call, binVars, At
<1>2. task'[w].pc = "csv" /\ task'[w].route # "update"
  BY Begun DEF ServerTypes, GetSearch, GetRange
<1> QED
  BY <1>1, <1>2 DEF Linked, Backed, Serving

\* The binary file has the update when its store has returned, and the
\* text store is called with the same update.
LEMMA PassedStep ==
  ASSUME NEW w \in Worker, Intact(w), ServerTypes, Linked(w), SyncedInv,
         BinP!TextInv, BinP!FullInv, BinReturned(w)
  PROVE  Linked(w)' /\ Backed(w)'
<1>1. /\ UNCHANGED << running, phase, fileContents, disk >> /\ Serving
      /\ task[w].pc = "bin" /\ binOp[w].pc = "done" /\ binOp[w].ok
  BY DEF BinReturned, Bin!Finish, Csv!Call, At
<1>2. /\ task'[w].pc = "csv" /\ task'[w].update = task[w].update
  BY Passed DEF ServerTypes
<1>3. BinHolds(task[w].update)
  <2>1. binOp[w].ok = TRUE
    BY <1>1 DEF ServerTypes, BinP!TypeInv, BinP!CallsOK, BinP!CallRecord
  <2>2. BinP!SyncInv
    BY <1>1 DEF SyncedInv, Serving
  <2>3. Worker = {w} /\ BinP!ShortTexts /\ BinP!TypeInv
    BY BinWorld, Zenon DEF ServerTypes
  <2>4. /\ task[w].update \in Update
        /\ binOp[w].req = task[w].update.bin
    BY <1>1 DEF Linked, ServerTypes, TasksOK, IsTask
  <2>5. binOp[w].req \in { u.bin : u \in Update }
    BY <2>4
  <2>6. disk = fileContents /\ BinP!ReadsBack(fileContents, binOp[w].req)
    BY <1>1, <2>1, <2>2, <2>3, <2>5, BinFacts, BinP!ReturnedCall, Zenon
  <2> QED
    BY <2>4, <2>6 DEF BinHolds
<1>4. csvOp'[w].kind = "update" /\ csvOp'[w].req = task[w].update.csv
  <2>1. DOMAIN csvOp = Worker
    BY DEF ServerTypes, CsvP!TypeOK, CsvP!CallsOK
  <2> DEFINE c == [Csv!Idle EXCEPT !.pc = "stat", !.kind = "update",
                                   !.req = task[w].update.csv, !.amount = 0]
  <2>2. c.kind = "update" /\ c.req = task[w].update.csv
    BY DEF Csv!Idle
  <2>3. csvOp' = [csvOp EXCEPT ![w] = c]
    BY Zenon DEF BinReturned, Csv!Call, Csv!Become
  <2> HIDE DEF c
  <2> QED
    BY <2>1, <2>2, <2>3
<1> QED
  BY <1>1, <1>2, <1>3, <1>4, Zenon DEF Linked, Backed, BinHolds, Serving

LEMMA BinStepLinked ==
  ASSUME NEW w \in Worker, ServerTypes, Linked(w), BinStep(w)
  PROVE  Linked(w)' /\ Backed(w)'
<1>1. CASE running' = FALSE
  <2>1. Abandon
    BY <1>1, Zenon DEF BinStep
  <2> QED
    BY <1>1, <2>1, DeathStep
<1>2. CASE running' # FALSE
  <2>1. /\ UNCHANGED << phase, csvOp, task >> /\ running'
        /\ Serving /\ task[w].pc = "bin"
    <3>1. running' \in BOOLEAN
      BY TypesStep, Zenon DEF ServerTypes, BinP!TypeInv, Next, Work
    <3> QED
      BY <1>2, <3>1 DEF BinStep, csvVars, At
  <2>2. binOp'[w].req = binOp[w].req
    <3>1. BinP!Step(w) /\ BinP!CallsOK
      BY SameBinStep, Zenon DEF BinStep, ServerTypes, BinP!TypeInv
    <3> QED
      BY <3>1, BinFacts, BinP!SameCall, Zenon
  <2> QED
    BY <2>1, <2>2 DEF Linked, Backed, Serving
<1> QED
  BY <1>1, <1>2

LEMMA CsvStepLinked ==
  ASSUME NEW w \in Worker, ServerTypes, Linked(w), Backed(w), CsvStep(w)
  PROVE  Linked(w)' /\ Backed(w)'
<1>1. CASE phase' # "up"
  <2>1. Abandon /\ running' = FALSE
    BY <1>1, Zenon DEF CsvStep
  <2> QED
    BY <2>1, DeathStep
<1>2. CASE phase' = "up"
  <2>1. /\ UNCHANGED << running, fileContents, disk, task >>
        /\ Serving /\ task[w].pc = "csv"
    BY <1>2 DEF CsvStep, binVars, At
  <2>2. csvOp'[w].kind = csvOp[w].kind /\ csvOp'[w].req = csvOp[w].req
    <3>1. CsvP!Step(w) /\ CsvP!CallsOK
      BY SameCsvStep, Zenon DEF CsvStep, ServerTypes, CsvP!TypeOK
    <3> QED
      BY <1>2, <3>1, CsvFacts, CsvP!SameCall, Zenon
  <2>3. Linked(w)'
    BY <1>2, <2>1, <2>2 DEF Linked, Serving
  <2>4. Backed(w)'
    BY <2>1 DEF Backed, BinHolds
  <2> QED
    BY <2>3, <2>4
<1> QED
  BY <1>1, <1>2

\* The answers.  Only that of a successful update says anything of the files.
LEMMA FailedStep ==
  ASSUME NEW w \in Worker, ServerTypes, Linked(w),
         BinThrew(w) \/ RangeDone(w) \/ SearchDone(w)
  PROVE  Linked(w)' /\ Backed(w)'
<1>1. UNCHANGED << running, phase >> /\ Serving /\ task[w].pc # "reply"
  BY DEF BinThrew, RangeDone, SearchDone, Bin!Finish, Csv!Finish, binVars,
         csvVars, At
<1>2. \/ task[w].route # "update"
      \/ Respond(w, 500, << >>)
  BY DEF BinThrew, RangeDone, SearchDone
<1>3. PICK code \in Codes : \E body : Respond(w, code, body)
                                    /\ (task[w].route # "update" \/ code = 500)
  BY <1>2 DEF BinThrew, RangeDone, SearchDone, Codes
<1>4. PICK body : Respond(w, code, body)
  BY <1>3
<1>5. /\ task'[w].pc = "reply" /\ task'[w].code = code
      /\ task'[w].route = task[w].route
  BY <1>1, <1>4, Responded DEF ServerTypes
<1> QED
  BY <1>1, <1>3, <1>5 DEF Linked, Backed, Serving

LEMMA UpdatedStep ==
  ASSUME NEW w \in Worker, ServerTypes, Linked(w), Backed(w), CsvP!PlainInv(4),
         Version = {}, "write" \notin CsvFault, UpdateDone(w)
  PROVE  Linked(w)' /\ Backed(w)'
<1> DEFINE code == IF csvOp[w].ok THEN 200 ELSE 500
<1>1. /\ UNCHANGED << running, phase, fileContents, disk, content >> /\ Serving
      /\ task[w].pc = "csv" /\ task[w].route = "update" /\ csvOp[w].pc = "done"
  BY DEF UpdateDone, Csv!Finish, Csv!fileVars, binVars, At
<1>2. /\ task'[w].pc = "reply" /\ task'[w].code = code
      /\ task'[w].update = task[w].update
  <2>1. Respond(w, code, << >>) /\ code \in Codes
    BY DEF UpdateDone, Codes
  <2> HIDE DEF code
  <2> QED
    BY <1>1, <2>1, Responded DEF ServerTypes
<1>3. BinHolds(task[w].update)
  BY <1>1 DEF Backed
<1>4. csvOp[w].ok => CsvP!RowThere(content, task[w].update.csv)
  <2>1. csvOp[w].kind = "update" /\ csvOp[w].req = task[w].update.csv
    BY <1>1 DEF Linked
  <2> SUFFICES ASSUME csvOp[w].ok
               PROVE  CsvP!RowThere(content, task[w].update.csv)
    OBVIOUS
  <2>2. CsvP!RowThere(content, csvOp[w].req)
    BY <1>1, <2>1, CsvFacts, CsvP!SavedRow, Zenon
  <2> QED
    BY <2>1, <2>2
<1>5. Linked(w)'
  BY <1>1, <1>2 DEF Linked, Serving
<1>6. code = 200 => csvOp[w].ok
  OBVIOUS
<1> HIDE DEF code
<1>7. Backed(w)'
  BY <1>1, <1>2, <1>3, <1>4, <1>6, Zenon DEF Backed, BinHolds
<1> QED
  BY <1>5, <1>7

LEMMA RequestStep ==
  ASSUME NEW w, Intact(w), OkInv(w), [Next]_vars
  PROVE  Linked(w)' /\ Backed(w)'
<1>0. /\ w \in Worker /\ Worker = {w} /\ Version = {} /\ "write" \notin CsvFault
      /\ ServerTypes /\ SyncedInv /\ BinP!TextInv /\ BinP!FullInv
      /\ CsvP!PlainInv(4) /\ Linked(w) /\ Backed(w)
  BY DEF Intact, OkInv
<1>1. CASE UNCHANGED vars
  BY <1>0, <1>1, Zenon
  DEF vars, binVars, csvVars, Linked, Backed, BinHolds, Serving
<1>2. CASE Start \/ Environment
  BY <1>0, <1>2, OutsideStep, Zenon
<1>3. CASE Crash
  BY <1>0, <1>3, DeathStep, Zenon DEF Crash
<1>4. ASSUME AnswerAtOnce(w) \/ Reply(w)
      PROVE  Linked(w)' /\ Backed(w)'
  BY <1>0, <1>4, AnsweredStep, Zenon
<1>5. ASSUME NEW u \in Update, PostUpdate(w, u)
      PROVE  Linked(w)' /\ Backed(w)'
  BY <1>0, <1>5, PostedStep, Zenon
<1>6. ASSUME GetSearch(w) \/ \E limit \in Limit : GetRange(w, limit)
      PROVE  Linked(w)' /\ Backed(w)'
  BY <1>0, <1>6, ReadingStep, Zenon
<1>7. ASSUME BinStep(w)
      PROVE  Linked(w)' /\ Backed(w)'
  BY <1>0, <1>7, BinStepLinked, Zenon
<1>8. ASSUME BinReturned(w)
      PROVE  Linked(w)' /\ Backed(w)'
  BY <1>0, <1>8, PassedStep, Zenon
<1>9. ASSUME CsvStep(w)
      PROVE  Linked(w)' /\ Backed(w)'
  BY <1>0, <1>9, CsvStepLinked, Zenon
<1>10. ASSUME BinThrew(w) \/ RangeDone(w) \/ SearchDone(w)
       PROVE  Linked(w)' /\ Backed(w)'
  BY <1>0, <1>10, FailedStep, Zenon
<1>11. ASSUME UpdateDone(w)
       PROVE  Linked(w)' /\ Backed(w)'
  BY <1>0, <1>11, UpdatedStep, Zenon
<1>12. \A v \in Worker : v = w
  BY <1>0
<1> QED
  BY <1>1, <1>2, <1>3, <1>4, <1>5, <1>6, <1>7, <1>8, <1>9, <1>10, <1>11, <1>12,
     NextCases, Zenon

LEMMA BinStores ==
  ASSUME NEW w, Intact(w), OkInv(w), [Next]_vars
  PROVE  SyncedInv' /\ BinP!TextInv' /\ BinP!TableInv' /\ BinP!FullInv'
<1>0. /\ BinP!TypeInv /\ BinP!TextInv /\ BinP!TableInv /\ BinP!FullInv
      /\ running \in BOOLEAN /\ (running => BinP!SyncInv)
  BY Zenon DEF OkInv, ServerTypes, SyncedInv, BinP!TypeInv
<1>1. [BinP!Next]_(BinP!binVars)
  BY <1>0, BinMove, Zenon DEF BinMoves
<1>2. BinP!TextInv' /\ BinP!FullInv'
  BY <1>0, <1>1, BinWorld, BinFacts, BinP!TextStep, BinP!FullStep, Zenon
<1>3. BinP!TableInv'
  BY <1>0, <1>1, BinWorld, BinFacts, BinP!TableStep, Zenon
<1>4. SyncedInv'
  <2>1. CASE running = TRUE
    BY <1>0, <1>1, <2>1, BinWorld, BinFacts, BinP!SyncStep, Zenon DEF SyncedInv
  <2>2. CASE running = FALSE
    <3>1. running' => BinP!Restart
      BY <1>1, <2>2 DEF BinP!Next, BinP!binVars, BinP!Crash, BinP!Call,
         BinP!Finish, BinP!At, BinP!Step, BinP!BadHash, BinP!NotFound,
         BinP!Found, BinP!EraseOld, BinP!ErasePastEnd, BinP!InsertNew,
         BinP!InsertPastEnd, BinP!OpenOutput, BinP!OpenFails,
         BinP!FetchOutput, BinP!WriteOutput, BinP!WriteFails
    <3> QED
      BY <3>1, BinFacts, BinP!SyncRestart, Zenon DEF SyncedInv
  <2> QED
    BY <1>0, <2>1, <2>2
<1> QED
  BY <1>2, <1>3, <1>4

LEMMA CsvStore ==
  ASSUME NEW w, Intact(w), OkInv(w), [Next]_vars
  PROVE  CsvP!PlainInv(4)'
<1>0. /\ CsvP!PlainInv(4) /\ CsvP!PlainWorld(4) /\ CsvP!OneThread
      /\ ServerTypes
  BY DEF Intact, OkInv, CsvP!OneThread
<1>1. CASE [CsvP!Next]_(CsvP!csvVars)
  BY <1>0, <1>1, CsvFacts, CsvP!PlainStep, Zenon
<1>2. CASE CsvP!Stop /\ UNCHANGED outages
  <2>1. outages' \in Nat
    BY <1>0, <1>2 DEF CsvP!PlainInv, CsvP!TypeOK, CsvP!ClocksOK
  <2> QED
    BY <1>0, <1>2, <2>1, CsvFacts, CsvP!PlainStop, Zenon
<1>3. ASSUME NEW v \in Worker, BinReturned(v),
             CsvP!Call(v, "update", task[v].update.csv, 0)
      PROVE  CsvP!PlainInv(4)'
  <2>1. task[v].update \in Update
    BY <1>0, <1>3, Passed, Zenon DEF ServerTypes
  <2>2. task[v].update.csv \in { u.csv : u \in Update }
    BY <2>1, CsvUpdate
  <2> QED
    BY <1>0, <1>3, <2>2, CsvFacts, CsvP!PlainCall, Zenon
<1> QED
  BY <1>1, <1>2, <1>3, CsvMove, Zenon DEF CsvMoves

LEMMA OkStep ==
  ASSUME NEW w, Intact(w), OkInv(w), [Next]_vars
  PROVE  OkInv(w)'
<1>1. ServerTypes'
  BY TypesStep, Zenon DEF OkInv
<1> QED
  BY <1>1, RequestStep, BinStores, CsvStore, Zenon DEF OkInv

LEMMA OkInit ==
  ASSUME NEW w, Intact(w), Init
  PROVE  OkInv(w)
<1>1. ServerTypes
  BY TypesInit
<1>0. Worker = {w} /\ BinP!ProperFile
  BY BinWorld
<1>2. BinP!TextInv /\ BinP!FullInv
  BY DEF Init, Bin!Idle, BinP!TextInv, BinP!Ready, BinP!FullInv, BinP!Landed
<1>5. BinP!TableInv
  <2>1. Bin!Encode(InitTable) = BinP!Encode(InitTable) /\ Bin!Idle = BinP!Idle
    BY SameTable, SameBinCalls, <1>0
  <2>2. /\ fileContents = << >> /\ disk = BinP!Encode(InitTable)
        /\ binOp = [v \in Worker |-> BinP!Idle]
    BY <2>1 DEF Init
  <2> QED
    BY <1>0, <2>2, BinFacts, BinP!TableBeforeStart, Zenon
<1>3. CsvP!PlainInv(4)
  BY CsvFacts, SameCsvProgram, CsvP!PlainInit, Zenon DEF Init, Intact
<1>4. SyncedInv /\ Linked(w) /\ Backed(w)
  BY DEF Init, Intact, SyncedInv, Linked, Backed, Serving, Free
<1> QED
  BY <1>1, <1>2, <1>3, <1>4, <1>5 DEF OkInv

\* What the stores' proofs say of the files is what InBin and InText say.
EntryFields == {"hash", "val1", "val2", "text"}

LEMMA RenamedEntry ==
  ASSUME NEW r, DOMAIN r = EntryFields, NEW hb
  PROVE  [r EXCEPT !.hash = hb] = BinP!EntryOf(hb, r)
BY DEF EntryFields, BinP!EntryOf

LEMMA UpdateFields ==
  ASSUME NEW u \in Update
  PROVE  DOMAIN u.bin = EntryFields
<1>1. u.bin \in [hash : Seq(BinP!Byte), val1 : [1 .. ValLen -> BinP!Byte],
                 val2 : [1 .. ValLen -> BinP!Byte], text : Seq(BinP!Byte)]
  BY BinFacts DEF BinP!RequestAssumption
<1> QED
  BY <1>1 DEF EntryFields

LEMMA HeldFields ==
  ASSUME NEW bytes, NEW u, BinHas(bytes, u)
  PROVE  DOMAIN u.bin = EntryFields
<1>1. PICK hb, p : Bin!EntryAt(bytes, p) = [u.bin EXCEPT !.hash = hb]
  BY Zenon DEF BinHas
<1>2. DOMAIN Bin!EntryAt(bytes, p) = EntryFields
  BY DEF Bin!EntryAt, EntryFields
<1>3. DOMAIN [u.bin EXCEPT !.hash = hb] = DOMAIN u.bin
  OBVIOUS
<1> QED
  BY <1>1, <1>2, <1>3

LEMMA HasIsReadsBack ==
  ASSUME NEW bytes, NEW u, DOMAIN u.bin = EntryFields
  PROVE  BinHas(bytes, u) <=> BinP!ReadsBack(bytes, u.bin)
<1>0. \A hb : [u.bin EXCEPT !.hash = hb] = BinP!EntryOf(hb, u.bin)
  BY RenamedEntry
<1>1. /\ Bin!HashBytes(u.bin.hash) = BinP!HashBytes(u.bin.hash)
      /\ \A hb : Bin!FirstMatch(bytes, hb) = BinP!FirstMatch(bytes, hb)
      /\ \A p : Bin!EntryAt(bytes, p) = BinP!EntryAt(bytes, p)
  BY SameHashes, SameBytes, Zenon
<1>2. ASSUME NEW hb, NEW p \in BinP!FirstMatch(bytes, hb)
      PROVE  BinP!FirstMatch(bytes, hb) = {p}
  BY BinFacts, BinP!OneFirstMatch, Zenon
<1>3. BinHas(bytes, u)
        <=> \E hb \in BinP!HashBytes(u.bin.hash) : \E p \in BinP!FirstMatch(bytes, hb) :
              BinP!EntryAt(bytes, p) = BinP!EntryOf(hb, u.bin)
  <2> DEFINE Old(hb, p) == Bin!EntryAt(bytes, p) = [u.bin EXCEPT !.hash = hb]
             New(hb, p) == BinP!EntryAt(bytes, p) = BinP!EntryOf(hb, u.bin)
  <2>1. \A hb, p : Old(hb, p) <=> New(hb, p)
    BY <1>0, <1>1
  <2> HIDE DEF Old, New
  <2>2. (\E hb \in Bin!HashBytes(u.bin.hash) :
         \E p \in Bin!FirstMatch(bytes, hb) : Old(hb, p))
          <=> (\E hb \in BinP!HashBytes(u.bin.hash) :
               \E p \in BinP!FirstMatch(bytes, hb) : New(hb, p))
    BY <1>1, <2>1, Zenon
  <2> QED
    BY <2>2 DEF BinHas, Old, New
<1> QED
  BY <1>2, <1>3, Zenon DEF BinP!ReadsBack

LEMMA HasIsRowThere ==
  ASSUME NEW text, NEW u
  PROVE  TextHas(text, u) <=> CsvP!RowThere(text, u.csv)
<1>1. /\ Csv!Parse(text) = CsvP!Parse(text)
      /\ Csv!HashRow(CsvP!Parse(text), u.csv.hash)
           = CsvP!HashRow(CsvP!Parse(text), u.csv.hash)
      /\ Csv!NewRow(u.csv) = CsvP!NewRow(u.csv)
  BY SameRows, SameNewRow, Zenon
<1> QED
  BY <1>1, Zenon DEF TextHas, CsvP!RowThere, CsvP!RowIn

LEMMA BinHoldsUpdate ==
  ASSUME NEW u \in Update, BinHolds(u)
  PROVE  InBin(u)
BY UpdateFields, HasIsReadsBack, Zenon DEF BinHolds, InBin

LEMMA TextHoldsUpdate ==
  ASSUME NEW u, CsvP!RowThere(content, u.csv), exists
  PROVE  InText(u)
BY HasIsRowThere, Zenon DEF InText

\* With one worker, no failure of a write that goes unnoticed and nobody else
\* at the .locpack file, "Update Successful" is the truth for every table
\* that the search cannot misread, every text that its length can describe and
\* every sequence of requests, crashes and restarts: the vector
\* and the .locpackbin file hold the entry as it was posted, the first with its
\* hash, and the .locpack file holds its row, if it has not been deleted.  The
\* order of the two stores, the exceptions of the first and of the second, and
\* the status that is made of them (handle update of LocPackServer) fit together.
THEOREM UpdatesReachBoth ==
  ASSUME NEW w, Intact(w)
  PROVE  Spec => []OkMeansBoth
<1>1. Init => OkInv(w)
  BY OkInit
<1>2. OkInv(w) /\ [Next]_vars => OkInv(w)'
  BY OkStep
<1>3. OkInv(w) => OkMeansBoth
  <2> SUFFICES ASSUME OkInv(w), NEW v \in Worker, At(v, "reply"),
                      task[v].route = "update", task[v].code = 200
               PROVE  InBin(task[v].update) /\ (exists => InText(task[v].update))
    BY DEF OkMeansBoth
  <2>1. v = w
    BY DEF Intact
  <2>2. task[w].update \in Update
    BY <2>1 DEF OkInv, ServerTypes, TasksOK, IsTask
  <2>3. /\ BinHolds(task[w].update)
        /\ CsvP!RowThere(content, task[w].update.csv)
    BY <2>1 DEF OkInv, Backed, At
  <2> QED
    BY <2>1, <2>2, <2>3, BinHoldsUpdate, TextHoldsUpdate, Zenon
<1> QED
  BY <1>1, <1>2, <1>3, PTL DEF Spec

-----------------------------------------------------------------------------
(* The two files agree.                                                    *)

\* The conditions of the theorem: beside those for OkMeansBoth, the two files say
\* the same at the start.
Agreeing(w) == Intact(w) /\ SameEntries

\* What SameEntries says of one entry, in terms of the stores' proofs.
LEMMA EntryStart ==
  ASSUME SameEntries, NEW e \in InitEntry
  PROVE  /\ DOMAIN e.bin = EntryFields
         /\ BinP!ReadsBack(BinP!Encode(InitTable), e.bin)
         /\ CsvP!RowThere(InitText, e.csv)
<1>1. BinHas(Bin!Encode(InitTable), e) /\ TextHas(InitText, e)
  BY Zenon DEF SameEntries
<1> QED
  BY <1>1, HeldFields, HasIsReadsBack, HasIsRowThere, SameTable, Zenon

LEMMA EntryUpdates ==
  ASSUME SameEntries, NEW e \in InitEntry
  PROVE  /\ \E q \in BinP!Searchable : q.hash = e.bin.hash
         /\ e.csv.hash \in Atom
         /\ \A u \in Update :
              /\ u.csv.hash \in Atom
              /\ u.csv.hash = e.csv.hash => u.bin.hash = e.bin.hash
              /\ u.bin.hash = e.bin.hash /\ u.csv.hash # e.csv.hash =>
                   CsvP!HashRow(CsvP!Parse(InitText), u.csv.hash) = {}
              /\ u.bin.hash # e.bin.hash =>
                   BinP!HashBytes(u.bin.hash) \cap BinP!HashBytes(e.bin.hash) = {}
<1>1. \A u \in Update : u.csv.hash \in Atom
  <2>1. \A r \in { u.csv : u \in Update } : r.hash \in Atom
    BY CsvFacts DEF CsvP!FileAssumption
  <2> QED
    BY <2>1
<1>2. PICK u \in Update : u.bin.hash = e.bin.hash /\ u.csv.hash = e.csv.hash
  BY Zenon DEF SameEntries
<1>3. BinP!Convertible(u.bin.hash)
  BY <1>2, SameHashes DEF SameEntries
<1>4. u.bin \in BinP!Searchable
  BY <1>3 DEF BinP!Searchable
<1>5. \A v \in Update :
        /\ v.csv.hash = e.csv.hash => v.bin.hash = e.bin.hash
        /\ v.bin.hash = e.bin.hash /\ v.csv.hash # e.csv.hash =>
             Csv!HashRow(Csv!Parse(InitText), v.csv.hash) = {}
        /\ v.bin.hash # e.bin.hash =>
             Bin!HashBytes(v.bin.hash) \cap Bin!HashBytes(e.bin.hash) = {}
  BY Zenon DEF SameEntries
<1>6. \A h : Csv!HashRow(Csv!Parse(InitText), h)
               = CsvP!HashRow(CsvP!Parse(InitText), h)
  BY SameRows, Zenon
<1>7. \A h : Bin!HashBytes(h) = BinP!HashBytes(h)
  BY SameHashes
<1> QED
  BY <1>1, <1>2, <1>4, <1>5, <1>6, <1>7, Zenon

\* A store in which no request of the worker is has no call of it.
Resting(w) ==
  /\ Serving /\ task[w].pc # "bin" => binOp[w].pc = "idle"
  /\ task[w].pc # "csv" => csvOp[w].pc = "idle"
  /\ task[w].pc = "csv" /\ task[w].route # "update" => csvOp[w].kind # "update"

\* The request of w has changed, or is about to change, the entry e.
Changed(w, e) ==
  /\ task[w].route = "update" /\ task[w].update.bin.hash = e.bin.hash
  /\ \/ task[w].pc = "csv"
     \/ task[w].pc = "bin" /\ binOp[w].pc \in {"erase", "insert", "open", "fetch", "write"}
     \/ task[w].pc = "bin" /\ binOp[w].pc = "done" /\ binOp[w].ok = TRUE

\* Both files have the entry e, as it was at the start or as u would write it.
KeptAs(w, e, u) ==
  /\ u \in InitEntry \cup Update
  /\ u.bin.hash = e.bin.hash /\ u.csv.hash = e.csv.hash
  /\ BinP!Kept(w, u.bin) /\ CsvP!RowKept(w, u.csv)

Accounted(w, e) ==
  e.bin.hash \in suspect \/ Changed(w, e) \/ \E u : KeptAs(w, e, u)

\* No request for an entry of the start spells its hash as a row of the
\* .locpack file that is not its own.
NoOtherRow ==
  \A e \in InitEntry : \A u \in Update :
    u.bin.hash = e.bin.hash /\ u.csv.hash # e.csv.hash => CsvP!NoRow(u.csv.hash)

AgreeInv(w) ==
  /\ OkInv(w) /\ Resting(w) /\ CsvP!UpdateAlike(w) /\ NoOtherRow
  /\ \A e \in InitEntry : Accounted(w, e)

LEMMA AgreeInit ==
  ASSUME NEW w, Agreeing(w), Init
  PROVE  AgreeInv(w)
<1>0. Intact(w) /\ SameEntries /\ Worker = {w}
  BY DEF Agreeing, Intact
<1>1. OkInv(w)
  BY <1>0, OkInit
<1>2. /\ fileContents = << >> /\ disk = BinP!Encode(InitTable) /\ running = FALSE
      /\ binOp = [v \in Worker |-> BinP!Idle]
      /\ task[w] = Free
  BY <1>0, SameTable, SameBinCalls DEF Init
<1>3. /\ content = InitText /\ doc = << >> /\ phase = "down"
      /\ csvOp[w] = CsvP!Idle /\ CsvP!Idle.pc = "idle"
  BY <1>0, SameCsvProgram DEF Init, CsvP!Init, CsvP!Idle
<1>5. Resting(w) /\ CsvP!UpdateAlike(w)
  BY <1>2, <1>3 DEF Resting, Serving, CsvP!UpdateAlike, CsvP!Updated, Free
<1>6. NoOtherRow
  <2>1. \A h : CsvP!HashRow(<< >>, h) = {}
    BY CsvFacts, CsvP!NoRowsInEmpty, Zenon
  <2> QED
    BY <1>0, <1>3, <2>1, EntryUpdates, Zenon DEF NoOtherRow, CsvP!NoRow
<1>7. ASSUME NEW e \in InitEntry
      PROVE  KeptAs(w, e, e)
  <2>1. BinP!ReadsBack(disk, e.bin) /\ CsvP!RowThere(content, e.csv)
    BY <1>0, <1>2, <1>3, EntryStart, Zenon
  <2>2. BinP!Kept(w, e.bin)
    BY <1>2, <2>1, Zenon DEF BinP!Kept
  <2>3. ~ CsvP!DocCounts(w)
    BY <1>3 DEF CsvP!DocCounts
  <2>4. CsvP!RowKept(w, e.csv)
    BY <2>1, <2>3, Zenon DEF CsvP!RowKept
  <2> QED
    BY <2>2, <2>4, Zenon DEF KeptAs
<1> QED
  BY <1>1, <1>5, <1>6, <1>7, Zenon DEF AgreeInv, Accounted

\* What a step is to the two stores.
LEMMA StoresMove ==
  ASSUME NEW w, Intact(w), OkInv(w), [Next]_vars
  PROVE  [BinP!Next]_(BinP!binVars) /\ CsvP!Moved(w)
<1>0. /\ w \in Worker /\ Worker = {w} /\ Version = {} /\ "write" \notin CsvFault
      /\ CsvP!PlainInv(4) /\ CsvP!CallsOK /\ running \in BOOLEAN
  BY Zenon DEF Intact, OkInv, ServerTypes, CsvP!TypeOK, BinP!TypeInv
<1>1. [BinP!Next]_(BinP!binVars)
  BY <1>0, BinMove, Zenon DEF BinMoves
<1>2. CASE [CsvP!Next]_(CsvP!csvVars)
  BY <1>0, <1>1, <1>2, CsvFacts, CsvP!Moves, Zenon
<1>3. CASE CsvP!Stop
  BY <1>0, <1>1, <1>3, CsvFacts, CsvP!StopMoves, Zenon DEF CsvP!Moved
<1>4. ASSUME NEW v \in Worker, CsvP!Call(v, "update", task[v].update.csv, 0)
      PROVE  [BinP!Next]_(BinP!binVars) /\ CsvP!Moved(w)
  <2>1. v = w
    BY <1>0
  <2> QED
    BY <1>0, <1>1, <1>4, <2>1, CsvFacts, CsvP!CallMoves, Zenon DEF CsvP!Moved
<1> QED
  BY <1>2, <1>3, <1>4, CsvMove, Zenon DEF CsvMoves

LEMMA AgreeStores ==
  ASSUME NEW w, Agreeing(w), AgreeInv(w), [Next]_vars
  PROVE  CsvP!UpdateAlike(w)' /\ NoOtherRow'
<1>0. Intact(w) /\ SameEntries /\ Worker = {w} /\ CsvP!PlainWorld(4)
  BY DEF Agreeing, Intact
<1>1. OkInv(w) /\ CsvP!PlainInv(4) /\ CsvP!UpdateAlike(w) /\ NoOtherRow
  BY Zenon DEF AgreeInv, OkInv
<1>2. CsvP!Moved(w)
  BY <1>0, <1>1, StoresMove, Zenon
<1>4. CsvP!UpdateAlike(w)'
  BY <1>0, <1>1, <1>2, CsvFacts, CsvP!UpdateAlikeStep, Zenon
<1>5. ASSUME NEW e \in InitEntry, NEW u \in Update,
             u.bin.hash = e.bin.hash, u.csv.hash # e.csv.hash
      PROVE  CsvP!NoRow(u.csv.hash)'
  <2>1. u.csv.hash \in Atom
    BY <1>0, EntryUpdates, Zenon
  <2>2. CsvP!NoRow(u.csv.hash)
    BY <1>1, <1>5, Zenon DEF NoOtherRow
  <2> QED
    BY <1>0, <1>1, <1>2, <2>1, <2>2, CsvFacts, CsvP!NoRowStep, Zenon
<1> QED
  BY <1>4, <1>5, Zenon DEF NoOtherRow

\* The end of the process, which takes the requests with it.
Died == Abandon /\ running' = FALSE

LEMMA StepKinds ==
  ASSUME NEW w, Intact(w), OkInv(w), [Next]_vars
  PROVE  \/ Died
         \/ UpdateDone(w)
         \/ UNCHANGED suspect /\ (running => running') /\ (phase = "up" => phase' = "up")
<1> DEFINE Alive == UNCHANGED suspect /\ (running => running')
                      /\ (phase = "up" => phase' = "up")
<1>0. /\ Worker = {w} /\ ServerTypes /\ running' \in BOOLEAN
  <2>1. ServerTypes'
    BY TypesStep, Zenon DEF OkInv
  <2> QED
    BY <2>1 DEF Intact, OkInv, ServerTypes, BinP!TypeInv
<1>1. CASE UNCHANGED vars
  BY <1>1, Zenon DEF vars, binVars, csvVars
<1>2. CASE Start
  BY <1>2 DEF Start, Csv!StartRead, Csv!StartStat, Csv!StartFails, Bin!Restart,
     binVars, csvVars
<1>3. CASE Environment
  BY <1>3, Zenon DEF Environment, Csv!Environment, Csv!Edit, Csv!Delete, binVars
<1>4. CASE Crash
  BY <1>4, Zenon DEF Crash, Died
<1>5. ASSUME NEW v \in Worker, AnswerAtOnce(v) \/ Reply(v)
      PROVE  Alive
  <2>1. UNCHANGED << suspect, running, phase >>
    BY <1>5 DEF AnswerAtOnce, Reply, binVars, csvVars
  <2> QED
    BY <2>1
<1>6. ASSUME NEW v \in Worker, NEW u \in Update, PostUpdate(v, u)
      PROVE  Alive
  <2>1. UNCHANGED << suspect, running, phase >>
    BY <1>6 DEF PostUpdate, Bin!Call, csvVars
  <2> QED
    BY <2>1
<1>7. ASSUME NEW v \in Worker, GetSearch(v) \/ \E limit \in Limit : GetRange(v, limit)
      PROVE  Alive
  <2>1. UNCHANGED << suspect, running, phase >>
    BY <1>7 DEF GetSearch, GetRange, Csv!CallRange, Csv!CallWhole, Csv!Call, binVars
  <2> QED
    BY <2>1
<1>8. ASSUME NEW v \in Worker, BinStep(v)
      PROVE  Alive \/ Died
  <2>1. CASE running'
    BY <1>8, <2>1, Zenon DEF BinStep, csvVars
  <2>2. CASE ~ running'
    BY <1>0, <1>8, <2>2, Zenon DEF BinStep, Died
  <2> QED
    BY <2>1, <2>2
<1>9. ASSUME NEW v \in Worker, BinThrew(v) \/ BinReturned(v)
      PROVE  Alive
  <2>1. UNCHANGED << suspect, running, phase >>
    BY <1>9 DEF BinThrew, BinReturned, Bin!Finish, Csv!Call, csvVars
  <2> QED
    BY <2>1
<1>10. ASSUME NEW v \in Worker, CsvStep(v)
       PROVE  Alive \/ Died
  BY <1>10, Zenon DEF CsvStep, Died, binVars
<1>11. ASSUME NEW v \in Worker, RangeDone(v) \/ SearchDone(v)
       PROVE  Alive
  <2>1. UNCHANGED << suspect, running, phase >>
    BY <1>11 DEF RangeDone, SearchDone, Csv!Finish, binVars
  <2> QED
    BY <2>1
<1>12. \A v \in Worker : v = w
  BY <1>0
<1> HIDE DEF Alive
<1>13. Died \/ UpdateDone(w) \/ Alive
  BY <1>1, <1>2, <1>3, <1>4, <1>5, <1>6, <1>7, <1>8, <1>9, <1>10, <1>11, <1>12,
     NextCases, Zenon DEF Alive
<1> QED
  BY <1>13 DEF Alive

LEMMA RestingDeath ==
  ASSUME NEW w \in Worker, ServerTypes, Abandon, running' = FALSE, Csv!Stop
  PROVE  Resting(w)'
<1>1. task'[w].pc = "idle"
  BY Abandoned DEF ServerTypes, Free
<1>2. csvOp'[w].pc = "idle"
  BY DEF Csv!Stop, Csv!Idle
<1> QED
  BY <1>1, <1>2 DEF Resting, Serving

LEMMA RestingStart ==
  ASSUME NEW w \in Worker, ServerTypes, Linked(w), Resting(w), Start
  PROVE  Resting(w)'
<1>1. ~ Serving
  BY DEF Start, Serving, Csv!StartRead, Csv!StartStat, Csv!StartFails,
     Bin!Restart, Linked
<1>2. UNCHANGED task /\ task[w].pc = "idle"
  BY <1>1, Zenon DEF Start, Linked
<1>3. csvOp'[w].pc = "idle"
  <2>1. csvOp[w].pc = "idle"
    BY <1>2 DEF Resting
  <2>2. UNCHANGED csvOp \/ csvOp' = [v \in Worker |-> Csv!Idle]
    BY DEF Start, Csv!StartRead, Csv!StartStat, Csv!StartFails, Csv!Stop, csvVars
  <2> QED
    BY <2>1, <2>2 DEF Csv!Idle
<1>4. Serving' => binOp'[w].pc = "idle"
  <2>1. CASE Bin!Restart
    BY <2>1 DEF Bin!Restart, Bin!Idle
  <2>2. CASE ~ Bin!Restart
    <3>1. UNCHANGED running /\ phase # "up"
      BY <2>2 DEF Start, Csv!StartRead, Csv!StartStat, Csv!StartFails, binVars
    <3> QED
      BY <3>1 DEF Linked, Serving
  <2> QED
    BY <2>1, <2>2
<1> QED
  BY <1>2, <1>3, <1>4 DEF Resting

LEMMA RestingAnswered ==
  ASSUME NEW w \in Worker, ServerTypes, Resting(w), AnswerAtOnce(w) \/ Reply(w)
  PROVE  Resting(w)'
<1>1. UNCHANGED << binOp, csvOp >> /\ Serving /\ task[w].pc \in {"idle", "reply"}
  BY DEF AnswerAtOnce, Reply, binVars, csvVars, At
<1>2. task'[w].pc \in {"idle", "reply"}
  BY AnsweredAtOnce, Replied DEF ServerTypes, Free
<1> QED
  BY <1>1, <1>2 DEF Resting

LEMMA RestingPosted ==
  ASSUME NEW w \in Worker, ServerTypes, Resting(w), NEW u \in Update,
         PostUpdate(w, u)
  PROVE  Resting(w)'
<1>1. task'[w].pc = "bin"
  BY Begun DEF ServerTypes, PostUpdate
<1>2. UNCHANGED csvOp /\ task[w].pc = "idle"
  BY DEF PostUpdate, csvVars, At
<1> QED
  BY <1>1, <1>2 DEF Resting

LEMMA RestingReading ==
  ASSUME NEW w \in Worker, ServerTypes, Resting(w),
         GetSearch(w) \/ \E limit \in Limit : GetRange(w, limit)
  PROVE  Resting(w)'
<1>1. task'[w].pc = "csv"
  BY Begun DEF ServerTypes, GetSearch, GetRange
<1>2. UNCHANGED binOp /\ binOp[w].pc = "idle"
  BY DEF GetSearch, GetRange, binVars, At, Resting
<1>3. csvOp'[w].kind # "update"
  <2>1. PICK kind, limit : /\ kind \in {"range", "whole"}
                           /\ Csv!Call(w, kind, NoRequest, limit)
    BY DEF GetSearch, GetRange, Csv!CallRange, Csv!CallWhole
  <2>2. DOMAIN csvOp = Worker
    BY DEF ServerTypes, CsvP!TypeOK, CsvP!CallsOK
  <2> DEFINE c == [Csv!Idle EXCEPT !.pc = "stat", !.kind = kind,
                                   !.req = NoRequest, !.amount = limit]
  <2>3. c.kind = kind
    BY DEF Csv!Idle
  <2>4. csvOp' = [csvOp EXCEPT ![w] = c]
    BY <2>1, Zenon DEF Csv!Call, Csv!Become
  <2> HIDE DEF c
  <2> QED
    BY <2>1, <2>2, <2>3, <2>4
<1> QED
  BY <1>1, <1>2, <1>3 DEF Resting

LEMMA RestingBin ==
  ASSUME NEW w \in Worker, ServerTypes, Resting(w), BinStep(w)
  PROVE  Resting(w)'
<1>1. CASE running'
  <2>1. UNCHANGED << csvOp, task >> /\ task[w].pc = "bin"
    BY <1>1 DEF BinStep, csvVars, At
  <2> QED
    BY <2>1 DEF Resting
<1>2. CASE ~ running'
  <2>1. running' = FALSE
    <3>1. ServerTypes'
      BY TypesStep, Zenon DEF Next, Work
    <3> QED
      BY <1>2, <3>1 DEF ServerTypes, BinP!TypeInv
  <2>2. Abandon /\ Csv!Stop
    BY <1>2, Zenon DEF BinStep
  <2> QED
    BY <2>1, <2>2, RestingDeath
<1> QED
  BY <1>1, <1>2

LEMMA RestingCsv ==
  ASSUME NEW w \in Worker, ServerTypes, Resting(w), CsvStep(w)
  PROVE  Resting(w)'
<1>0. CsvP!Step(w) /\ CsvP!CallsOK
  BY SameCsvStep, Zenon DEF CsvStep, ServerTypes, CsvP!TypeOK
<1>1. CASE phase' = "up"
  <2>1. UNCHANGED << binOp, task >> /\ Serving /\ task[w].pc = "csv"
    BY <1>1 DEF CsvStep, binVars, At
  <2>2. csvOp'[w].kind = csvOp[w].kind
    BY <1>0, <1>1, CsvFacts, CsvP!SameCall, Zenon
  <2> QED
    BY <2>1, <2>2 DEF Resting
<1>2. CASE phase' # "up"
  <2>1. Csv!Stop
    BY <1>0, <1>2, SameCsvCalls, CsvFacts, CsvP!SameCall, Zenon
  <2>2. Abandon /\ running' = FALSE
    BY <1>2, Zenon DEF CsvStep
  <2> QED
    BY <2>1, <2>2, RestingDeath
<1> QED
  BY <1>1, <1>2

LEMMA BinRest ==
  ASSUME NEW w \in Worker, ServerTypes, Bin!Finish(w)
  PROVE  binOp'[w].pc = "idle"
BY DEF Bin!Finish, Bin!Become, Bin!Idle, ServerTypes, BinP!TypeInv, BinP!CallsOK

LEMMA CsvRest ==
  ASSUME NEW w \in Worker, ServerTypes, Csv!Finish(w)
  PROVE  csvOp'[w] = CsvP!Idle /\ CsvP!Idle.pc = "idle"
BY DEF Csv!Finish, Csv!Become, Csv!Idle, CsvP!Idle, ServerTypes, CsvP!TypeOK,
   CsvP!CallsOK

LEMMA RestingReturned ==
  ASSUME NEW w \in Worker, ServerTypes, Resting(w), BinThrew(w) \/ BinReturned(w)
  PROVE  Resting(w)'
<1>1. binOp'[w].pc = "idle"
  BY BinRest DEF BinThrew, BinReturned
<1>2. task[w].pc = "bin" /\ csvOp[w].pc = "idle"
  BY DEF BinThrew, BinReturned, At, Resting
<1>3. CASE BinThrew(w)
  <2>1. task'[w].pc = "reply"
    BY <1>2, <1>3, Responded DEF ServerTypes, BinThrew, Codes
  <2>2. UNCHANGED csvOp
    BY <1>3 DEF BinThrew, csvVars
  <2> QED
    BY <1>1, <1>2, <2>1, <2>2 DEF Resting
<1>4. CASE BinReturned(w)
  <2>1. task'[w].pc = "csv" /\ task'[w].route = "update"
    BY <1>4, Passed DEF ServerTypes
  <2> QED
    BY <1>1, <2>1 DEF Resting
<1> QED
  BY <1>3, <1>4

LEMMA RestingDone ==
  ASSUME NEW w \in Worker, ServerTypes, Resting(w),
         UpdateDone(w) \/ RangeDone(w) \/ SearchDone(w)
  PROVE  Resting(w)'
<1>1. csvOp'[w].pc = "idle"
  BY CsvRest DEF UpdateDone, RangeDone, SearchDone
<1>2. UNCHANGED binOp /\ binOp[w].pc = "idle" /\ task[w].pc = "csv"
  BY DEF UpdateDone, RangeDone, SearchDone, binVars, At, Resting
<1>3. PICK code, body : code \in Codes /\ Respond(w, code, body)
  BY DEF UpdateDone, RangeDone, SearchDone, Codes
<1>4. task'[w].pc = "reply"
  BY <1>2, <1>3, Responded DEF ServerTypes
<1> QED
  BY <1>1, <1>2, <1>4 DEF Resting

LEMMA RestingStep ==
  ASSUME NEW w, Intact(w), OkInv(w), Resting(w), [Next]_vars
  PROVE  Resting(w)'
<1>0. w \in Worker /\ Worker = {w} /\ ServerTypes /\ Linked(w)
  BY DEF Intact, OkInv
<1>1. CASE UNCHANGED vars \/ Environment
  <2>1. UNCHANGED << task, binOp, csvOp, phase, running >>
    BY <1>1 DEF vars, binVars, csvVars, Environment, Csv!Environment, Csv!Edit,
       Csv!Delete
  <2> QED
    BY <2>1 DEF Resting, Serving
<1>2. CASE Start
  BY <1>0, <1>2, RestingStart, Zenon
<1>3. CASE Crash
  BY <1>0, <1>3, RestingDeath, Zenon DEF Crash, Csv!Crash
<1>4. ASSUME AnswerAtOnce(w) \/ Reply(w)
      PROVE  Resting(w)'
  BY <1>0, <1>4, RestingAnswered, Zenon
<1>5. ASSUME NEW u \in Update, PostUpdate(w, u)
      PROVE  Resting(w)'
  BY <1>0, <1>5, RestingPosted, Zenon
<1>6. ASSUME GetSearch(w) \/ \E limit \in Limit : GetRange(w, limit)
      PROVE  Resting(w)'
  BY <1>0, <1>6, RestingReading, Zenon
<1>7. ASSUME BinStep(w)
      PROVE  Resting(w)'
  BY <1>0, <1>7, RestingBin, Zenon
<1>8. ASSUME CsvStep(w)
      PROVE  Resting(w)'
  BY <1>0, <1>8, RestingCsv, Zenon
<1>9. ASSUME BinThrew(w) \/ BinReturned(w)
      PROVE  Resting(w)'
  BY <1>0, <1>9, RestingReturned, Zenon
<1>10. ASSUME UpdateDone(w) \/ RangeDone(w) \/ SearchDone(w)
       PROVE  Resting(w)'
  BY <1>0, <1>10, RestingDone, Zenon
<1>11. \A v \in Worker : v = w
  BY <1>0
<1> QED
  BY <1>1, <1>2, <1>3, <1>4, <1>5, <1>6, <1>7, <1>8, <1>9, <1>10, <1>11,
     NextCases, Zenon

\* The store that is at work is at work on the update of the request.
LEMMA AtWork ==
  ASSUME NEW w, Intact(w), OkInv(w), Resting(w)
  PROVE  /\ running /\ binOp[w].pc # "idle" =>
              /\ task[w].pc = "bin" /\ task[w].route = "update"
              /\ task[w].update \in Update /\ binOp[w].req = task[w].update.bin
         /\ csvOp[w].pc # "idle" => task[w].pc = "csv" /\ Serving
         /\ csvOp[w].pc \in {"find", "set", "open", "write"} =>
              /\ task[w].route = "update" /\ task[w].update \in Update
              /\ csvOp[w].req = task[w].update.csv
<1>0. /\ w \in Worker /\ IsTask(task[w]) /\ Linked(w)
  BY Zenon DEF Intact, OkInv, ServerTypes, TasksOK
<1>1. csvOp[w].pc \in {"find", "set", "open", "write"} => csvOp[w].kind = "update"
  BY <1>0 DEF OkInv, CsvP!PlainInv, CsvP!SaveInv, CsvP!CallKind
<1>2. running => Serving
  BY <1>0 DEF Linked, Serving
<1>3. running /\ binOp[w].pc # "idle" => task[w].pc = "bin"
  BY <1>2 DEF Resting
<1>4. csvOp[w].pc # "idle" => task[w].pc = "csv" /\ Serving
  BY <1>0 DEF Resting, Linked
<1> QED
  BY <1>0, <1>1, <1>3, <1>4 DEF Resting, Linked, IsTask

\* A step that is not part of an update of the entry keeps it in both files.
LEMMA KeptStep ==
  ASSUME NEW w, Agreeing(w), AgreeInv(w), [Next]_vars,
         NEW e \in InitEntry, ~ Changed(w, e), NEW u, KeptAs(w, e, u),
         running /\ binOp[w].pc \in {"fetch", "write"} => running',
         csvOp[w].pc = "write" => phase' = "up"
  PROVE  KeptAs(w, e, u)'
<1>0. /\ Intact(w) /\ SameEntries /\ Worker = {w} /\ w \in Worker
      /\ "write" \notin BinFault /\ CsvP!PlainWorld(4)
      /\ BinP!ProperFile /\ BinP!ShortTexts
  BY BinWorld DEF Agreeing, Intact
<1>1. /\ OkInv(w) /\ BinP!TypeInv /\ BinP!TableInv /\ Resting(w)
      /\ CsvP!PlainInv(4)
  BY Zenon DEF AgreeInv, OkInv, ServerTypes
<1>2. [BinP!Next]_(BinP!binVars) /\ CsvP!Moved(w)
  BY <1>0, <1>1, StoresMove, Zenon
<1>3. /\ u \in InitEntry \cup Update
      /\ u.bin.hash = e.bin.hash /\ u.csv.hash = e.csv.hash
      /\ BinP!Kept(w, u.bin) /\ CsvP!RowKept(w, u.csv)
  BY Zenon DEF KeptAs
<1>4. BinP!Kept(w, u.bin)'
  <2>1. PICK q \in BinP!Searchable : q.hash = e.bin.hash
    BY <1>0, EntryUpdates, Zenon
  <2>2. ASSUME running, binOp[w].pc = "erase"
        PROVE  BinP!HashBytes(binOp[w].req.hash) \cap BinP!HashBytes(u.bin.hash) = {}
    <3>1. /\ task[w].pc = "bin" /\ task[w].route = "update"
          /\ task[w].update \in Update /\ binOp[w].req = task[w].update.bin
      BY <1>0, <1>1, <2>2, AtWork
    <3>2. task[w].update.bin.hash # e.bin.hash
      BY <2>2, <3>1 DEF Changed
    <3>3. BinP!HashBytes(task[w].update.bin.hash) \cap BinP!HashBytes(e.bin.hash) = {}
      BY <1>0, <3>1, <3>2, EntryUpdates, Zenon
    <3> QED
      BY <1>3, <3>1, <3>3
  <2>3. q.hash = u.bin.hash
    BY <1>3, <2>1
  <2>4. BinP!Kept(w, u.bin)
    BY <1>3
  <2> QED
    BY <1>0, <1>1, <1>2, <2>2, <2>3, <2>4, BinFacts, BinP!OtherKept, Zenon
<1>5. CsvP!RowKept(w, u.csv)'
  <2>1. u.csv.hash \in Atom
    BY <1>0, <1>3, EntryUpdates
  <2>2. ASSUME csvOp[w].pc = "set"
        PROVE  csvOp[w].req.hash # u.csv.hash
    <3>1. /\ task[w].pc = "csv" /\ task[w].route = "update"
          /\ task[w].update \in Update /\ csvOp[w].req = task[w].update.csv
      BY <1>0, <1>1, <2>2, AtWork
    <3>2. task[w].update.bin.hash # e.bin.hash
      BY <3>1 DEF Changed
    <3>3. task[w].update.csv.hash # e.csv.hash
      BY <1>0, <3>1, <3>2, EntryUpdates, Zenon
    <3> QED
      BY <1>3, <3>1, <3>3
  <2>3. CsvP!RowKept(w, u.csv)
    BY <1>3
  <2> QED
    BY <1>0, <1>1, <1>2, <2>1, <2>2, <2>3, CsvFacts, CsvP!OtherRowKept, Zenon
<1> QED
  BY <1>3, <1>4, <1>5, Zenon DEF KeptAs

\* An update that has begun to change the entry goes on until it is done or the
\* process dies.
LEMMA ChangedStep ==
  ASSUME NEW w, Intact(w), OkInv(w), [Next]_vars, NEW e, Changed(w, e),
         ~ Died, ~ UpdateDone(w)
  PROVE  Changed(w, e)'
<1>0. /\ w \in Worker /\ Worker = {w} /\ ServerTypes /\ Linked(w)
      /\ running' \in BOOLEAN
  <2>1. ServerTypes'
    BY TypesStep, Zenon DEF OkInv
  <2> QED
    BY <2>1 DEF Intact, OkInv, ServerTypes, BinP!TypeInv
<1>1. /\ task[w].pc \in {"bin", "csv"} /\ task[w].route = "update" /\ Serving
      /\ task[w].update.bin.hash = e.bin.hash
  BY <1>0 DEF Changed, Linked
<1>2. ASSUME UNCHANGED << task, binOp >>
      PROVE  Changed(w, e)'
  BY <1>2 DEF Changed
<1>3. CASE UNCHANGED vars \/ Environment
  BY <1>2, <1>3, Zenon DEF vars, binVars, Environment
<1>4. ~ Start
  BY <1>1 DEF Start, Serving, Csv!StartRead, Csv!StartStat, Csv!StartFails,
     Bin!Restart
<1>5. ~ Crash
  BY Zenon DEF Crash, Died
<1>6. /\ ~ AnswerAtOnce(w) /\ ~ Reply(w) /\ ~ GetSearch(w)
      /\ \A u \in Update : ~ PostUpdate(w, u)
      /\ \A limit \in Limit : ~ GetRange(w, limit)
  BY <1>1 DEF AnswerAtOnce, Reply, GetSearch, PostUpdate, GetRange, At
<1>7. ~ BinThrew(w) /\ ~ RangeDone(w) /\ ~ SearchDone(w)
  BY <1>1 DEF BinThrew, RangeDone, SearchDone, At, Changed
<1>8. ASSUME BinStep(w)
      PROVE  Changed(w, e)'
  <2>1. running' /\ UNCHANGED task /\ task[w].pc = "bin"
    BY <1>0, <1>8 DEF BinStep, Died, At
  <2>2. BinP!Step(w) /\ BinP!CallsOK
    BY <1>0, <1>8, SameBinStep, Zenon DEF BinStep, ServerTypes, BinP!TypeInv
  <2>3. binOp[w].pc # "done"
    BY <1>0, <2>2, BinFacts, BinP!SameCall, Zenon
  <2>4. binOp[w].pc \in {"erase", "insert", "open", "fetch", "write"}
    BY <2>1, <2>3 DEF Changed
  <2>5. \/ binOp'[w].pc \in {"insert", "open", "fetch", "write"}
        \/ binOp'[w].pc = "done" /\ binOp'[w].ok = TRUE
    BY <1>0, <2>1, <2>2, <2>4, BinFacts, BinP!OnwardCall, Zenon
  <2> QED
    BY <1>1, <2>1, <2>5 DEF Changed
<1>9. ASSUME BinReturned(w)
      PROVE  Changed(w, e)'
  <2>1. /\ task'[w].pc = "csv" /\ task'[w].route = "update"
        /\ task'[w].update = task[w].update
    BY <1>0, <1>9, Passed, Zenon DEF ServerTypes
  <2> QED
    BY <1>1, <2>1 DEF Changed
<1>10. ASSUME CsvStep(w)
       PROVE  Changed(w, e)'
  BY <1>2, <1>10, Zenon DEF CsvStep, Died, binVars
<1>11. \A v \in Worker : v = w
  BY <1>0
<1> QED
  BY <1>3, <1>4, <1>5, <1>6, <1>7, <1>8, <1>9, <1>10, <1>11, NextCases, Zenon

\* The process dies: the entry is suspect, or no store was at work on it.
LEMMA DiedStep ==
  ASSUME NEW w, Agreeing(w), AgreeInv(w), [Next]_vars, Died,
         NEW e \in InitEntry
  PROVE  Accounted(w, e)'
<1>0. w \in Worker /\ Worker = {w} /\ Abandon
  BY DEF Agreeing, Intact, Died
<1>1. CASE HalfSaved
  BY <1>0, <1>1 DEF Abandon, Accounted
<1>2. CASE ~ HalfSaved
  <2>1. suspect' = suspect \cup { task[v].update.bin.hash : v \in InFlight }
    BY <1>0, <1>2, Zenon DEF Abandon
  <2>2. binOp[w].pc \notin {"fetch", "write"} /\ csvOp[w].pc # "write"
    BY <1>0, <1>2 DEF HalfSaved
  <2>3. CASE Changed(w, e)
    <3>1. w \in InFlight /\ task[w].update.bin.hash = e.bin.hash
      BY <1>0, <2>3 DEF Changed, InFlight
    <3> QED
      BY <2>1, <3>1 DEF Accounted
  <2>4. CASE e.bin.hash \in suspect
    BY <2>1, <2>4 DEF Accounted
  <2>5. ASSUME ~ Changed(w, e), NEW u, KeptAs(w, e, u)
        PROVE  Accounted(w, e)'
    <3>1. KeptAs(w, e, u)'
      BY <2>2, <2>5, KeptStep, Zenon
    <3> QED
      BY <3>1, Zenon DEF Accounted
  <2>6. Accounted(w, e)
    BY Zenon DEF AgreeInv
  <2> QED
    BY <2>3, <2>4, <2>5, <2>6, Zenon DEF Accounted
<1> QED
  BY <1>1, <1>2

\* An update that has ended well is what both files now say of its entry.
LEMMA DoneKept ==
  ASSUME NEW w, Agreeing(w), AgreeInv(w), UpdateDone(w), csvOp[w].ok,
         NEW e \in InitEntry, NEW u, u = task[w].update, u.bin.hash = e.bin.hash
  PROVE  KeptAs(w, e, u)'
<1>0. /\ Intact(w) /\ SameEntries /\ w \in Worker /\ Worker = {w}
      /\ OkInv(w) /\ Resting(w) /\ CsvP!PlainInv(4) /\ ServerTypes
      /\ NoOtherRow /\ CsvP!UpdateAlike(w) /\ Linked(w) /\ Backed(w)
  BY Zenon DEF Agreeing, Intact, AgreeInv, OkInv
<1>1. /\ UNCHANGED << running, phase, fileContents, disk, binOp, content, doc >>
      /\ Serving
      /\ task[w].pc = "csv" /\ task[w].route = "update" /\ csvOp[w].pc = "done"
  BY DEF UpdateDone, Csv!Finish, Csv!fileVars, Csv!docVars, binVars, At
<1>2. u \in Update /\ u.bin.hash = e.bin.hash
  BY <1>0, <1>1 DEF ServerTypes, TasksOK, IsTask
<1>3. csvOp[w].kind = "update" /\ csvOp[w].req = u.csv
  BY <1>0, <1>1 DEF Linked
<1>4. CsvP!RowThere(content, csvOp[w].req)
  BY <1>0, <1>1, <1>3, CsvFacts, CsvP!SavedRow, Zenon DEF Intact
<1>5. CsvP!RowThere(content, u.csv)
  BY <1>3, <1>4
<1>6. doc = CsvP!Parse(content)
  BY <1>0, <1>1, <1>3 DEF CsvP!UpdateAlike, CsvP!Updated
<1>7. u.csv.hash = e.csv.hash
  <2>1. CsvP!HashRow(CsvP!Parse(content), u.csv.hash) # {}
    BY <1>5 DEF CsvP!RowThere, CsvP!RowIn
  <2> QED
    BY <1>0, <1>2, <2>1, Zenon DEF NoOtherRow, CsvP!NoRow
<1>8. CsvP!RowKept(w, u.csv)'
  <2>1. CsvP!RowThere(content', u.csv) /\ CsvP!RowIn(doc', u.csv)
    BY <1>1, <1>5, <1>6, Zenon DEF CsvP!RowThere
  <2> QED
    BY <2>1 DEF CsvP!RowKept
<1>9. BinP!Kept(w, u.bin)'
  <2>1. disk = fileContents /\ BinP!ReadsBack(fileContents, u.bin)
    BY <1>0, <1>1 DEF Backed, BinHolds
  <2>2. binOp[w].pc = "idle"
    BY <1>0, <1>1 DEF Resting
  <2>3. BinP!Settled' = fileContents'
    <3>1. BinP!Settled' = BinP!SettledOf(fileContents', binOp'[w])
      BY <1>0, BinFacts, BinP!SettledOne, Zenon
    <3> QED
      BY <1>1, <2>2, <3>1 DEF BinP!SettledOf
  <2> QED
    BY <1>1, <2>1, <2>3, Zenon DEF BinP!Kept
<1> QED
  BY <1>2, <1>7, <1>8, <1>9, Zenon DEF KeptAs

LEMMA DoneStep ==
  ASSUME NEW w, Agreeing(w), AgreeInv(w), [Next]_vars, UpdateDone(w),
         NEW e \in InitEntry
  PROVE  Accounted(w, e)'
<1>1. PICK u : u = task[w].update
  OBVIOUS
<1>2. /\ UNCHANGED << running, phase >> /\ Serving /\ csvOp[w].pc = "done"
      /\ suspect' = IF csvOp[w].ok THEN suspect \ {u.bin.hash}
                    ELSE suspect \cup {u.bin.hash}
  BY <1>1 DEF UpdateDone, Csv!Finish, Csv!fileVars, binVars, At
<1>3. CASE u.bin.hash = e.bin.hash
  <2>1. CASE csvOp[w].ok
    <3>1. KeptAs(w, e, u)'
      BY <1>1, <1>3, <2>1, DoneKept, Zenon
    <3> QED
      BY <3>1, Zenon DEF Accounted
  <2>2. CASE ~ csvOp[w].ok
    BY <1>2, <1>3, <2>2 DEF Accounted
  <2> QED
    BY <2>1, <2>2
<1>4. CASE u.bin.hash # e.bin.hash
  <2>1. CASE e.bin.hash \in suspect
    BY <1>2, <1>4, <2>1 DEF Accounted
  <2>2. ~ Changed(w, e)
    BY <1>1, <1>4 DEF Changed
  <2>3. ASSUME NEW v, KeptAs(w, e, v)
        PROVE  Accounted(w, e)'
    <3>1. /\ running /\ binOp[w].pc \in {"fetch", "write"} => running'
          /\ csvOp[w].pc = "write" => phase' = "up"
      BY <1>2
    <3>2. KeptAs(w, e, v)'
      BY <2>2, <2>3, <3>1, KeptStep, Zenon
    <3> QED
      BY <3>2, Zenon DEF Accounted
  <2>4. Accounted(w, e)
    BY Zenon DEF AgreeInv
  <2> QED
    BY <2>1, <2>2, <2>3, <2>4, Zenon DEF Accounted
<1> QED
  BY <1>3, <1>4

\* Every other step.
LEMMA LivingStep ==
  ASSUME NEW w, Agreeing(w), AgreeInv(w), [Next]_vars, ~ Died, ~ UpdateDone(w),
         NEW e \in InitEntry
  PROVE  Accounted(w, e)'
<1>0. Intact(w) /\ OkInv(w) /\ Resting(w)
  BY Zenon DEF Agreeing, AgreeInv
<1>1. UNCHANGED suspect /\ (running => running') /\ (phase = "up" => phase' = "up")
  BY <1>0, StepKinds, Zenon
<1>2. CASE e.bin.hash \in suspect
  BY <1>1, <1>2 DEF Accounted
<1>3. CASE Changed(w, e)
  <2>1. Changed(w, e)'
    BY <1>0, <1>3, ChangedStep, Zenon
  <2> QED
    BY <2>1, Zenon DEF Accounted
<1>4. ASSUME ~ Changed(w, e), NEW u, KeptAs(w, e, u)
      PROVE  Accounted(w, e)'
  <2>1. csvOp[w].pc = "write" => phase' = "up"
    <3>1. csvOp[w].pc = "write" => Serving
      BY <1>0, AtWork
    <3> QED
      BY <1>1, <3>1 DEF Serving
  <2>2. running /\ binOp[w].pc \in {"fetch", "write"} => running'
    BY <1>1
  <2>3. KeptAs(w, e, u)'
    BY <1>4, <2>1, <2>2, KeptStep, Zenon
  <2> QED
    BY <2>3, Zenon DEF Accounted
<1>5. Accounted(w, e)
  BY Zenon DEF AgreeInv
<1> QED
  BY <1>2, <1>3, <1>4, <1>5, Zenon DEF Accounted

LEMMA AgreeStep ==
  ASSUME NEW w, Agreeing(w), AgreeInv(w), [Next]_vars
  PROVE  AgreeInv(w)'
<1>0. Intact(w) /\ OkInv(w) /\ Resting(w)
  BY Zenon DEF Agreeing, AgreeInv
<1>1. OkInv(w)'
  BY <1>0, OkStep
<1>2. CsvP!UpdateAlike(w)' /\ NoOtherRow'
  BY AgreeStores, Zenon
<1>3. Resting(w)'
  BY <1>0, RestingStep
<1>4. ASSUME NEW e \in InitEntry
      PROVE  Accounted(w, e)'
  BY DiedStep, DoneStep, LivingStep, Zenon
<1> QED
  BY <1>1, <1>2, <1>3, <1>4, Zenon DEF AgreeInv

\* With nothing under way, what is kept is what both files say.
LEMMA KeptAgrees ==
  ASSUME NEW w, Agreeing(w), AgreeInv(w), Serving, InFlight = {}, exists,
         NEW e \in InitEntry, NEW u, KeptAs(w, e, u)
  PROVE  InBin(u) /\ InText(u)
<1>0. /\ Intact(w) /\ OkInv(w) /\ Resting(w) /\ SameEntries
      /\ w \in Worker /\ Worker = {w} /\ IsTask(task[w]) /\ running
  BY Zenon DEF Agreeing, Intact, AgreeInv, OkInv, ServerTypes, TasksOK, Serving
<1>1. task[w].pc # "bin" /\ ~ (task[w].pc = "csv" /\ task[w].route = "update")
  BY <1>0 DEF InFlight, IsTask
<1>2. binOp[w].pc = "idle"
  BY <1>0, <1>1 DEF Resting
<1>3. csvOp[w].pc # "write"
  BY <1>0, <1>1, AtWork
<1>4. InBin(u)
  <2>1. BinP!ReadsBack(disk, u.bin)
    BY <1>2, Zenon DEF KeptAs, BinP!Kept
  <2>2. disk = fileContents
    <3>1. BinP!SyncInv
      BY <1>0 DEF OkInv, SyncedInv
    <3> QED
      BY <1>0, <1>2, <3>1 DEF BinP!SyncInv, BinP!SyncAt
  <2>3. DOMAIN u.bin = EntryFields
    BY <1>0, EntryStart, UpdateFields DEF KeptAs
  <2> QED
    BY <2>1, <2>2, <2>3, HasIsReadsBack, Zenon DEF InBin
<1>5. InText(u)
  <2>1. CsvP!RowThere(content, u.csv)
    BY <1>3, Zenon DEF KeptAs, CsvP!RowKept
  <2> QED
    BY <2>1, TextHoldsUpdate
<1> QED
  BY <1>4, <1>5

\* For every table, every text, every number of entries and updates, and every
\* sequence of requests, failing opens, crashes and restarts of one worker:
\* when no update is under way, the .locpackbin file, the vector loaded from
\* it and the .locpack file say the same of each entry that was in both at the
\* start, unless the last update of it failed half way or the process died in
\* an update of it or in a save.  So an update, which goes to the one store and
\* then to the other with nothing to undo the first (handle update of
\* LocPackServer), never disturbs the entries it is not about, in either file,
\* and one update that succeeds repairs its own.
THEOREM FilesAgree ==
  ASSUME NEW w, Agreeing(w)
  PROVE  Spec => []StoresAgree
<1>1. Init => AgreeInv(w)
  BY AgreeInit
<1>2. AgreeInv(w) /\ [Next]_vars => AgreeInv(w)'
  BY AgreeStep
<1>3. AgreeInv(w) => StoresAgree
  <2> SUFFICES ASSUME AgreeInv(w), Serving, InFlight = {}, exists,
                      NEW e \in InitEntry, e.bin.hash \notin suspect
               PROVE  \E u \in InitEntry \cup Update :
                        /\ u.bin.hash = e.bin.hash /\ u.csv.hash = e.csv.hash
                        /\ InBin(u) /\ InText(u)
    BY Zenon DEF StoresAgree
  <2>1. ~ Changed(w, e)
    BY DEF Changed, InFlight, Agreeing, Intact
  <2>2. Accounted(w, e)
    BY Zenon DEF AgreeInv
  <2>3. PICK u : KeptAs(w, e, u)
    BY <2>1, <2>2, Zenon DEF Accounted
  <2>4. InBin(u) /\ InText(u)
    BY <2>3, KeptAgrees, Zenon
  <2> QED
    BY <2>3, <2>4, Zenon DEF KeptAs
<1> QED
  BY <1>1, <1>2, <1>3, PTL DEF Spec

-----------------------------------------------------------------------------
(* Both stores keep their promises inside the server.                      *)

LEMMA TextComesAndGoes ==
  ASSUME CsvP!CallsOK, [Next]_vars
  PROVE  CsvP!ComesAndGoes
<1>1. CASE [CsvP!Next]_(CsvP!csvVars)
  BY <1>1, CsvFacts, CsvP!Phases, Zenon
<1>2. CASE CsvP!Stop
  BY <1>2 DEF CsvP!Stop, CsvP!fileVars, CsvP!ComesAndGoes
<1>3. ASSUME NEW w \in Worker, CsvP!Call(w, "update", task[w].update.csv, 0)
      PROVE  CsvP!ComesAndGoes
  BY <1>3 DEF CsvP!Call, CsvP!fileVars, CsvP!ComesAndGoes
<1> QED
  BY <1>1, <1>2, <1>3, CsvMove, Zenon DEF CsvMoves

LEMMA SameDecode == \A bytes : Bin!Decode(bytes) = BinP!Decode(bytes)
BY DEF Bin!Decode, BinP!Decode, Bin!HasLength, BinP!HasLength, Bin!EntryAt,
       BinP!EntryAt, Bin!StoredLength, BinP!StoredLength, Bin!HeaderLen,
       BinP!HeaderLen, Bin!LenOff, BinP!LenOff, Bin!HashLen, BinP!HashLen,
       Bin!Torn, BinP!Torn

LEMMA SameRowEntries == \A rows : Csv!Entries(rows) = CsvP!Entries(rows)
BY DEF Csv!Entries, CsvP!Entries, Csv!Entry, CsvP!Entry

LEMMA SameChanges ==
  /\ UNION { { Bin!EntryOf(hb, r) : hb \in Bin!HashBytes(r.hash) } :
             r \in { u.bin : u \in Update } }
       = UNION { { BinP!EntryOf(hb, r) : hb \in BinP!HashBytes(r.hash) } :
                 r \in { u.bin : u \in Update } }
  /\ { Csv!Entry(Csv!NewRow(r)) : r \in { u.csv : u \in Update } }
       = { CsvP!Entry(CsvP!NewRow(r)) : r \in { u.csv : u \in Update } }
<1>1. \A hb, r : Bin!EntryOf(hb, r) = BinP!EntryOf(hb, r)
  BY DEF Bin!EntryOf, BinP!EntryOf
<1>2. \A hash : Bin!HashBytes(hash) = BinP!HashBytes(hash)
  BY SameHashes
<1>3. \A r : Csv!Entry(Csv!NewRow(r)) = CsvP!Entry(CsvP!NewRow(r))
  BY SameNewRow DEF Csv!Entry, CsvP!Entry
<1> QED
  BY <1>1, <1>2, <1>3

LEMMA SameBinStore ==
  ASSUME BinP!StoreStep
  PROVE  [Bin!Store!Next]_(Bin!Store!storeVars)
<1>1. /\ Bin!Settled = BinP!Settled
      /\ Bin!Settled' = BinP!Settled'
  BY DEF Bin!Settled, BinP!Settled, Bin!Insert, BinP!Insert
<1>2. /\ Bin!Decode(Bin!Settled) = BinP!Decode(BinP!Settled)
      /\ Bin!Decode(Bin!Settled)' = BinP!Decode(BinP!Settled)'
      /\ Bin!Decode(disk) = BinP!Decode(disk)
      /\ Bin!Decode(disk)' = BinP!Decode(disk)'
  BY <1>1, SameDecode
<1>3. \A table, hash : Bin!Store!FirstWith(table, hash)
                          = BinP!Store!FirstWith(table, hash)
  BY DEF Bin!Store!FirstWith, BinP!Store!FirstWith
<1> QED
  BY <1>2, <1>3, SameChanges, Zenon
  DEF BinP!StoreStep, Bin!Store!Next, BinP!Store!Next, Bin!Store!storeVars,
      BinP!Store!storeVars, Bin!Store!Put, BinP!Store!Put, Bin!Store!Empty,
      BinP!Store!Empty, Bin!Store!Save, BinP!Store!Save, Bin!Store!Reload,
      BinP!Store!Reload

LEMMA SameCsvStore ==
  /\ CsvP!Store!Init => Csv!Store!Init
  /\ CsvP!TextStep => [Csv!Store!Next]_(Csv!Store!storeVars)
<1>1. /\ Csv!Parse(content) = CsvP!Parse(content)
      /\ Csv!Parse(content)' = CsvP!Parse(content)'
      /\ Csv!Parse(InitText) = CsvP!Parse(InitText)
  BY SameRows
<1>2. \A table, hash : Csv!Store!FirstWith(table, hash)
                          = CsvP!Store!FirstWith(table, hash)
  BY DEF Csv!Store!FirstWith, CsvP!Store!FirstWith
<1> QED
  BY <1>1, <1>2, SameRowEntries, SameChanges, Zenon
  DEF CsvP!TextStep, Csv!Store!Next, CsvP!Store!Next, Csv!Store!storeVars,
      CsvP!Store!storeVars, Csv!Store!Put, CsvP!Store!Put, Csv!Store!Empty,
      CsvP!Store!Empty, Csv!Store!Save, CsvP!Store!Save, Csv!Store!Reload,
      CsvP!Store!Reload, Csv!Store!Init, CsvP!Store!Init

\* Whatever requests one worker carries through the two stores, and however one
\* store's death or a crash ends both, each file is a LocStore of its own: only
\* updates change entries, each the first with its hash, and no start of the
\* server brings back anything but the file (the constructor and the update
\* route of LocPackServer).  The vector has not been loaded at first, so of the
\* binary store it is the steps that are those of LocStore.
THEOREM StoresAreImplemented ==
  ASSUME NEW w, Intact(w)
  PROVE  Spec => StoresImplemented
<1>0. /\ BinP!ProperFile /\ BinP!ShortTexts /\ Worker = {w}
      /\ "write" \notin BinFault /\ CsvP!PlainWorld(4)
  BY BinWorld DEF Intact
<1> DEFINE Inv == OkInv(w)
<1>1. Init => Inv /\ Csv!Store!Init
  <2> SUFFICES ASSUME Init PROVE Inv /\ Csv!Store!Init
    OBVIOUS
  <2>1. OkInv(w)
    BY OkInit
  <2>2. CsvP!Store!Init
    BY SameCsvProgram DEF Init, CsvP!Init, CsvP!Store!Init
  <2> QED
    BY <2>1, <2>2, SameCsvStore
<1>2. Inv /\ [Next]_vars => Inv' /\ [Bin!Store!Next]_(Bin!Store!storeVars)
                                 /\ [Csv!Store!Next]_(Csv!Store!storeVars)
  <2> SUFFICES ASSUME Inv, [Next]_vars
               PROVE  Inv' /\ BinP!StoreStep /\ CsvP!TextStep
    BY SameBinStore, SameCsvStore, Zenon
  <2>1. OkInv(w)'
    BY OkStep
  <2>2. [BinP!Next]_(BinP!binVars) /\ CsvP!Moved(w)
    BY StoresMove, Zenon
  <2>3. BinP!TypeInv /\ BinP!TableInv /\ CsvP!PlainInv(4) /\ CsvP!CallsOK
    BY Zenon DEF OkInv, ServerTypes, CsvP!TypeOK
  <2>4. BinP!StoreStep
    BY <1>0, <2>2, <2>3, BinFacts, BinP!TableStep, Zenon
  <2>5. CsvP!ComesAndGoes
    BY <2>3, TextComesAndGoes, Zenon
  <2>6. CsvP!TextStep
    BY <1>0, <2>2, <2>3, <2>5, CsvFacts, CsvP!MovedTextStep, Zenon
  <2> QED
    BY <2>1, <2>4, <2>6
<1> HIDE DEF Inv
<1> QED
  BY <1>1, <1>2, PTL DEF Spec, StoresImplemented, Csv!ImplementsStore,
     Csv!Store!Spec

=============================================================================
