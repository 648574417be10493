-------------------------- MODULE LocPackFileProofs --------------------------
(***************************************************************************)
(* Theorems about LocPackFile, for any number of threads, any texts and    *)
(* every way a save can fail.                                              *)
(***************************************************************************)
EXTENDS LocPackFile, SequenceTheorems, LoopTheorems

-----------------------------------------------------------------------------
(* The edits of a call record that the actions make.                       *)

LEMMA IdleRecord == Idle \in CallRecord
BY DEF Idle, CallRecord, PC

LEMMA NewRecord ==
  ASSUME NEW kind \in {"update", "range", "whole"},
         NEW req \in Request \cup {NoRequest}, NEW amount \in Int
  PROVE  [Idle EXCEPT !.pc = "stat", !.kind = kind,
                      !.req = req, !.amount = amount] \in CallRecord
BY DEF Idle, CallRecord, PC

LEMMA MovedRecord ==
  ASSUME NEW c \in CallRecord, NEW pc \in PC
  PROVE  [c EXCEPT !.pc = pc] \in CallRecord
BY DEF CallRecord

LEMMA SecondPassRecord ==
  ASSUME NEW c \in CallRecord
  PROVE  /\ [c EXCEPT !.pass = 2] \in CallRecord
         /\ [c EXCEPT !.pc = "stat", !.pass = 2] \in CallRecord
BY DEF CallRecord, PC

LEMMA ReadRecord ==
  ASSUME NEW c \in CallRecord, NEW n \in Nat
  PROVE  [c EXCEPT !.pc = "read", !.statTime = n] \in CallRecord
BY DEF CallRecord, PC

LEMMA RowRecord ==
  ASSUME NEW c \in CallRecord, NEW n \in Nat
  PROVE  [c EXCEPT !.pc = "set", !.row = n] \in CallRecord
BY DEF CallRecord, PC

LEMMA ReturnedRecord ==
  ASSUME NEW c \in CallRecord, NEW ok \in BOOLEAN
  PROVE  [c EXCEPT !.pc = "done", !.ok = ok] \in CallRecord
BY DEF CallRecord, PC

LEMMA ResultRecord ==
  ASSUME NEW c \in CallRecord, NEW tainted \in BOOLEAN
  PROVE  [c EXCEPT !.pc = "done", !.ok = TRUE, !.tainted = tainted]
           \in CallRecord
BY DEF CallRecord, PC

LEMMA SetRecord ==
  ASSUME NEW c \in CallRecord, NEW pc \in {"done", "open"},
         NEW tainted \in BOOLEAN
  PROVE  [c EXCEPT !.pc = pc, !.tainted = tainted] \in CallRecord
BY DEF CallRecord, PC

LEMMA RefreshedRecord ==
  ASSUME CallsOK, NEW t \in Thread
  PROVE  AfterRefresh(t) \in CallRecord
<1>1. op[t] \in CallRecord
  BY DEF CallsOK
<1>2. /\ [op[t] EXCEPT !.pc = "scan"] \in CallRecord
      /\ [op[t] EXCEPT !.pc = "find"] \in CallRecord
  BY <1>1, MovedRecord DEF PC
<1>3. [op[t] EXCEPT !.pc = "stat", !.pass = 2] \in CallRecord
  BY <1>1, SecondPassRecord
<1> QED
  BY <1>2, <1>3, Zenon DEF AfterRefresh

LEMMA BecomeOK ==
  ASSUME CallsOK, NEW t \in Thread, NEW c \in CallRecord, Become(t, c)
  PROVE  CallsOK'
BY DEF CallsOK, Become

LEMMA GotoOK ==
  ASSUME CallsOK, NEW t \in Thread, NEW pc \in PC, Goto(t, pc)
  PROVE  CallsOK'
<1>1. op[t] \in CallRecord
  BY DEF CallsOK
<1>2. [op[t] EXCEPT !.pc = pc] \in CallRecord
  BY <1>1, MovedRecord
<1> QED
  BY <1>2, BecomeOK DEF Goto

LEMMA ReturnOK ==
  ASSUME CallsOK, NEW t \in Thread, NEW ok \in BOOLEAN, Return(t, ok)
  PROVE  CallsOK'
<1>1. op[t] \in CallRecord
  BY DEF CallsOK
<1>2. [op[t] EXCEPT !.pc = "done", !.ok = ok] \in CallRecord
  BY <1>1, ReturnedRecord
<1> QED
  BY <1>2, BecomeOK DEF Return

LEMMA ThrowOK ==
  ASSUME CallsOK, NEW t \in Thread, Throw(t)
  PROVE  CallsOK'
BY ReturnOK DEF Throw

LEMMA CallOK ==
  ASSUME CallsOK, NEW t \in Thread, NEW kind \in {"update", "range", "whole"},
         NEW req \in Request \cup {NoRequest}, NEW amount \in Int,
         Call(t, kind, req, amount)
  PROVE  CallsOK'
BY NewRecord, BecomeOK, Zenon DEF Call

LEMMA StopOK ==
  ASSUME Stop
  PROVE  CallsOK'
BY IdleRecord DEF Stop, CallsOK

-----------------------------------------------------------------------------
(* Type correctness, one part of the type invariant at a time.             *)

LEMMA NextCases ==
  ASSUME Next
  PROVE  \/ Environment
         \/ StartRead \/ StartStat \/ StartFails \/ Crash
         \/ \E t \in Thread : \E r \in Request : CallUpdate(t, r)
         \/ \E t \in Thread : \E n \in Amount : CallRange(t, n)
         \/ \E t \in Thread : CallWhole(t)
         \/ \E t \in Thread : Step(t)
         \/ \E t \in Thread : Finish(t)
BY Zenon DEF Next

\* The steps of refreshDocument.
Refresh(t) ==
  \/ StatMissing(t) \/ StatExists(t)
  \/ TimeFails(t) \/ StatCurrent(t) \/ StatNewer(t)
  \/ ReadFile(t) \/ RereadFails(t) \/ ReplaceDoc(t) \/ NoteTime(t)

LEMMA StepCases ==
  ASSUME NEW t \in Thread, Step(t)
  PROVE  \/ Refresh(t)
         \/ ScanRange(t) \/ ScanWhole(t) \/ ScanShortRow(t)
         \/ Find(t) \/ FindFails(t) \/ SetDoc(t)
         \/ OpenSave(t) \/ OpenFails(t) \/ WriteSave(t) \/ WriteFails(t)
BY Zenon DEF Step, Refresh

LEMMA FlagsStep ==
  ASSUME FlagsOK, [Next]_csvVars
  PROVE  FlagsOK'
<1> USE DEF FlagsOK, fileVars, docVars, auxVars
<1>1. CASE Environment
  BY <1>1, Zenon DEF Environment, Edit, Delete, FileBecomes
<1>2. CASE StartRead \/ StartStat \/ StartFails \/ Crash
  BY <1>2, Zenon DEF StartRead, StartStat, StartFails, Crash, Stop
<1>3. ASSUME NEW t \in Thread,
             \/ \E r \in Request : CallUpdate(t, r)
             \/ \E n \in Amount : CallRange(t, n)
             \/ CallWhole(t)
      PROVE  FlagsOK'
  BY <1>3, Zenon DEF CallUpdate, CallRange, CallWhole, Call
<1>4. ASSUME NEW t \in Thread, Step(t)
      PROVE  FlagsOK'
  <2>1. CASE Refresh(t)
    BY <2>1, Zenon DEF Refresh, StatMissing, StatExists, TimeFails, StatCurrent,
       StatNewer, ReadFile, RereadFails, ReplaceDoc, NoteTime
  <2>3. CASE ScanRange(t) \/ ScanWhole(t) \/ ScanShortRow(t)
    BY <2>3, Zenon DEF ScanRange, ScanWhole, ScanShortRow, Stop
  <2>4. CASE Find(t) \/ FindFails(t) \/ SetDoc(t)
    BY <2>4, Zenon DEF Find, FindFails, SetDoc
  <2>5. CASE OpenSave(t) \/ OpenFails(t) \/ WriteFails(t) \/ GoAstray(t)
    BY <2>5, Zenon DEF OpenSave, OpenFails, WriteFails, GoAstray, FileBecomes,
       LetGo, Stop
  <2>6. CASE Fill(t)
    <3>1. exists' = TRUE
      BY <2>6, Zenon DEF Fill, FileBecomes
    <3>2. unsaved' = (unsaved /\ t \in freed)
      BY <2>6, Zenon DEF Fill
    <3> QED
      BY <3>1, <3>2
  <2> QED
    BY <1>4, <2>1, <2>3, <2>4, <2>5, <2>6, StepCases, Zenon DEF WriteSave
<1>5. ASSUME NEW t \in Thread, Finish(t)
      PROVE  FlagsOK'
  BY <1>5, Zenon DEF Finish
<1>6. CASE UNCHANGED csvVars
  BY <1>6, Zenon DEF csvVars
<1> QED
  BY <1>1, <1>2, <1>3, <1>4, <1>5, <1>6, NextCases, Zenon

LEMMA ClocksStep ==
  ASSUME ClocksOK, CallsOK, [Next]_csvVars
  PROVE  ClocksOK'
<1> USE DEF ClocksOK, fileVars, docVars, auxVars
<1>1. CASE Environment
  BY <1>1 DEF Environment, Edit, Delete, Stamp
<1>2. CASE StartRead \/ StartStat \/ StartFails \/ Crash
  BY <1>2 DEF StartRead, StartStat, StartFails, Crash, Stop
<1>3. ASSUME NEW t \in Thread,
             \/ \E r \in Request : CallUpdate(t, r)
             \/ \E n \in Amount : CallRange(t, n)
             \/ CallWhole(t)
      PROVE  ClocksOK'
  BY <1>3, Zenon DEF CallUpdate, CallRange, CallWhole, Call
<1>4. ASSUME NEW t \in Thread, Step(t)
      PROVE  ClocksOK'
  <2>1. CASE Refresh(t)
    <3>1. op[t].statTime \in Nat
      BY DEF CallsOK, CallRecord
    <3> QED
      BY <2>1, <3>1, Zenon DEF Refresh, StatMissing, StatExists, TimeFails,
         StatCurrent, StatNewer, ReadFile, RereadFails, ReplaceDoc, NoteTime
  <2>4. CASE ScanRange(t) \/ ScanWhole(t) \/ ScanShortRow(t)
    BY <2>4, Zenon DEF ScanRange, ScanWhole, ScanShortRow, Stop
  <2>5. CASE Find(t) \/ FindFails(t) \/ SetDoc(t)
    BY <2>5, Zenon DEF Find, FindFails, SetDoc
  <2>6. CASE OpenSave(t)
    BY <2>6 DEF OpenSave, Stamp
  <2>7. CASE OpenFails(t)
    BY <2>7, Zenon DEF OpenFails
  <2>8. CASE Fill(t) \/ WriteFails(t)
    <3>1. /\ UNCHANGED << phase, lastLoadTime, outages >>
          /\ mtime' = mtime \/ mtime' = mtime + 1
      BY <2>8, Zenon DEF Fill, WriteFails, Stamp
    <3> QED
      BY <3>1
  <2>9. CASE GoAstray(t)
    BY <2>9, Zenon DEF GoAstray, Stop
  <2> QED
    BY <1>4, <2>1, <2>4, <2>5, <2>6, <2>7, <2>8, <2>9, StepCases, Zenon
    DEF WriteSave
<1>5. ASSUME NEW t \in Thread, Finish(t)
      PROVE  ClocksOK'
  BY <1>5, Zenon DEF Finish
<1>6. CASE UNCHANGED csvVars
  BY <1>6, Zenon DEF csvVars
<1> QED
  BY <1>1, <1>2, <1>3, <1>4, <1>5, <1>6, NextCases, Zenon

LEMMA CallsStep ==
  ASSUME FlagsOK, ClocksOK, CallsOK, [Next]_csvVars
  PROVE  CallsOK'
<1>1. CASE Environment
  BY <1>1, Zenon DEF Environment, Edit, Delete, CallsOK
<1>2. CASE StartRead \/ StartStat
  BY <1>2, Zenon DEF StartRead, StartStat, CallsOK
<1>3. CASE StartFails \/ Crash
  BY <1>3, StopOK, Zenon DEF StartFails, Crash
<1>4. ASSUME NEW t \in Thread, NEW r \in Request, CallUpdate(t, r)
      PROVE  CallsOK'
  <2>1. Call(t, "update", r, 0)
    BY <1>4, Zenon DEF CallUpdate
  <2>2. r \in Request \cup {NoRequest} /\ 0 \in Int
    OBVIOUS
  <2> QED
    BY <2>1, <2>2, CallOK, Zenon
<1>5. ASSUME NEW t \in Thread, NEW n \in Amount, CallRange(t, n)
      PROVE  CallsOK'
  <2>1. Call(t, "range", NoRequest, n)
    BY <1>5, Zenon DEF CallRange
  <2>2. n \in Int /\ NoRequest \in Request \cup {NoRequest}
    BY FileAssumption
  <2> QED
    BY <2>1, <2>2, CallOK, Zenon
<1>6. ASSUME NEW t \in Thread, CallWhole(t)
      PROVE  CallsOK'
  <2>1. Call(t, "whole", NoRequest, 0)
    BY <1>6, Zenon DEF CallWhole
  <2>2. 0 \in Int /\ NoRequest \in Request \cup {NoRequest}
    OBVIOUS
  <2> QED
    BY <2>1, <2>2, CallOK, Zenon
<1>7. ASSUME NEW t \in Thread, Step(t)
      PROVE  CallsOK'
  <2>0. op[t] \in CallRecord /\ AfterRefresh(t) \in CallRecord
    BY RefreshedRecord DEF CallsOK
  <2>1. CASE StatMissing(t)
    <3>1. [op[t] EXCEPT !.pass = 2] \in CallRecord
      BY <2>0, SecondPassRecord
    <3> QED
      BY <2>1, <3>1, ThrowOK, BecomeOK DEF StatMissing
  <2>2. CASE StatCurrent(t) \/ NoteTime(t)
    BY <2>0, <2>2, BecomeOK, Zenon DEF StatCurrent, NoteTime
  <2>3. CASE StatNewer(t)
    <3>1. mtime \in Nat
      BY DEF ClocksOK
    <3>2. [op[t] EXCEPT !.pc = "read", !.statTime = mtime] \in CallRecord
      BY <2>0, <3>1, ReadRecord, Zenon
    <3> QED
      BY <2>3, <3>2, BecomeOK, Zenon DEF StatNewer
  <2>4. CASE StatExists(t) \/ ReadFile(t) \/ ReplaceDoc(t)
    <3>1. "time" \in PC /\ "assign" \in PC /\ "note" \in PC
      BY DEF PC
    <3> QED
      BY <2>4, <3>1, GotoOK, Zenon DEF StatExists, ReadFile, ReplaceDoc
  <2>5. CASE TimeFails(t) \/ RereadFails(t) \/ FindFails(t) \/ OpenFails(t)
    BY <2>5, ThrowOK, Zenon DEF TimeFails, RereadFails, FindFails, OpenFails
  <2>6. ASSUME NEW out, NEW tainted \in BOOLEAN, Result(t, out, tainted)
        PROVE  CallsOK'
    <3>2. [op[t] EXCEPT !.pc = "done", !.ok = TRUE, !.tainted = tainted]
            \in CallRecord
      BY <2>0, ResultRecord, Zenon
    <3> QED
      BY <2>6, <3>2, BecomeOK, Zenon DEF Result
  <2>7. CASE ScanRange(t) \/ ScanWhole(t) \/ ScanShortRow(t)
    <3>1. unsaved \in BOOLEAN /\ TRUE \in BOOLEAN
      BY DEF FlagsOK
    <3> QED
      BY <2>6, <2>7, <3>1, ThrowOK, StopOK, Zenon
      DEF ScanRange, ScanWhole, ScanShortRow
  <2>8. CASE Find(t)
    <3>1. PICK i \in HashRow(doc, op[t].req.hash) :
            Become(t, [op[t] EXCEPT !.pc = "set", !.row = i])
      BY <2>8, Zenon DEF Find
    <3>2. i \in Nat
      BY <3>1 DEF HashRow
    <3>3. [op[t] EXCEPT !.pc = "set", !.row = i] \in CallRecord
      BY <2>0, <3>2, RowRecord, Zenon
    <3> QED
      BY <3>1, <3>3, BecomeOK, Zenon
  <2>9. CASE SetDoc(t)
    <3>1. unsaved \in BOOLEAN
      BY DEF FlagsOK
    <3>2. PICK pc \in {"done", "open"} :
            Become(t, [op[t] EXCEPT !.pc = pc, !.tainted = unsaved])
      BY <2>9, Zenon DEF SetDoc
    <3>3. [op[t] EXCEPT !.pc = pc, !.tainted = unsaved] \in CallRecord
      BY <2>0, <3>1, SetRecord, Zenon
    <3> QED
      BY <3>2, <3>3, BecomeOK, Zenon
  <2>10. CASE OpenSave(t)
    <3>1. Goto(t, "write") /\ "write" \in PC
      BY <2>10 DEF OpenSave, PC
    <3> QED
      BY <3>1, GotoOK, Zenon
  <2>11. CASE WriteSave(t) \/ WriteFails(t)
    <3>1. TRUE \in BOOLEAN
      OBVIOUS
    <3> QED
      BY <2>11, <3>1, ReturnOK, ThrowOK, StopOK, Zenon
      DEF WriteSave, WriteFails, Fill, GoAstray
  <2> QED
    BY <1>7, <2>1, <2>2, <2>3, <2>4, <2>5, <2>7, <2>8, <2>9, <2>10, <2>11,
       Zenon DEF Step
<1>8. ASSUME NEW t \in Thread, Finish(t)
      PROVE  CallsOK'
  BY <1>8, IdleRecord, BecomeOK, Zenon DEF Finish
<1>9. CASE UNCHANGED csvVars
  BY <1>9, Zenon DEF csvVars, CallsOK
<1> QED
  BY <1>1, <1>2, <1>3, <1>4, <1>5, <1>6, <1>7, <1>8, <1>9, NextCases, Zenon

LEMMA TypeInit == Init => TypeOK
<1> SUFFICES ASSUME Init PROVE TypeOK
  OBVIOUS
<1>1. FlagsOK
  BY Zenon DEF Init, FlagsOK
<1>2. ClocksOK
  BY DEF Init, ClocksOK
<1>3. CallsOK
  BY IdleRecord DEF Init, CallsOK
<1> QED
  BY <1>1, <1>2, <1>3, Zenon DEF TypeOK

\* The state has its types in every reachable state: the time stamps that
\* refreshDocument compares are numbers, and every call is at one of the
\* statements of updateEntry or of the two parsers, with locals of the types
\* those statements work on.
THEOREM TypeCorrect == Spec => []TypeOK
<1>1. TypeOK /\ [Next]_csvVars => TypeOK'
  BY FlagsStep, ClocksStep, CallsStep, Zenon DEF TypeOK
<1> QED
  BY <1>1, TypeInit, PTL DEF Spec

-----------------------------------------------------------------------------
(* The document is up to date.                                             *)

\* The worker is alone: no other call changes the document between two
\* statements of this one.
OneThread == \A t, u \in Thread : t = u

\* Every thread has its locals, and no document is freed under a save.
LocalsOK ==
  /\ DOMAIN since = Thread /\ DOMAIN answer = Thread /\ DOMAIN held = Thread
  /\ freed = {}

LEMMA LocalsStep ==
  ASSUME OneThread, LocalsOK, [Next]_csvVars
  PROVE  LocalsOK'
<1> USE DEF LocalsOK, fileVars, docVars, auxVars
<1>1. CASE Environment
  BY <1>1 DEF Environment, Edit, Delete, FileBecomes
<1>2. CASE StartRead \/ StartStat \/ StartFails \/ Crash
  BY <1>2 DEF StartRead, StartStat, StartFails, Crash, Stop
<1>3. ASSUME NEW t \in Thread,
             \/ \E r \in Request : CallUpdate(t, r)
             \/ \E n \in Amount : CallRange(t, n)
             \/ CallWhole(t)
      PROVE  LocalsOK'
  BY <1>3 DEF CallUpdate, CallRange, CallWhole, Call
<1>4. ASSUME NEW t \in Thread, Step(t)
      PROVE  LocalsOK'
  <2>1. CASE \/ StatMissing(t) \/ StatExists(t) \/ TimeFails(t)
             \/ StatCurrent(t) \/ StatNewer(t) \/ RereadFails(t) \/ NoteTime(t)
             \/ Find(t) \/ FindFails(t) \/ SetDoc(t) \/ OpenFails(t)
    BY <2>1, Zenon DEF StatMissing, StatExists, TimeFails, StatCurrent, StatNewer,
       RereadFails, NoteTime, Find, FindFails, SetDoc, OpenFails
  <2>2. CASE ReadFile(t)
    BY <2>2 DEF ReadFile
  <2>3. CASE ReplaceDoc(t)
    <3>1. \A u \in Thread : op[u].pc # "write"
      BY <2>3 DEF ReplaceDoc, At, OneThread
    <3> QED
      BY <2>3, <3>1 DEF ReplaceDoc
  <2>4. CASE ScanRange(t) \/ ScanWhole(t) \/ ScanShortRow(t)
    BY <2>4 DEF ScanRange, ScanWhole, ScanShortRow, Result, Stop
  <2>5. CASE OpenSave(t)
    BY <2>5 DEF OpenSave, FileBecomes
  <2>6. CASE WriteSave(t) \/ WriteFails(t)
    BY <2>6 DEF WriteSave, WriteFails, Fill, GoAstray, LetGo, FileBecomes
  <2> QED
    BY <1>4, <2>1, <2>2, <2>3, <2>4, <2>5, <2>6, Zenon DEF Step
<1>5. ASSUME NEW t \in Thread, Finish(t)
      PROVE  LocalsOK'
  BY <1>5 DEF Finish
<1>6. CASE UNCHANGED csvVars
  BY <1>6, Zenon DEF csvVars
<1> QED
  BY <1>1, <1>2, <1>3, <1>4, <1>5, <1>6, NextCases, Zenon

LEMMA LocalsInit == Init => LocalsOK
BY DEF Init, LocalsOK

\* The save of a single worker has the document for itself.
LEMMA OwnSave ==
  ASSUME LocalsOK, NEW t \in Thread, WriteSave(t)
  PROVE  /\ At(t, "write") /\ FileBecomes(Written(doc), {t}) /\ Stamp
         /\ Return(t, TRUE) /\ answer' = [answer EXCEPT ![t] = Written(doc)]
         /\ unsaved' = FALSE /\ UNCHANGED << phase, doc, lastLoadTime, outages >>
<1>1. t \notin freed
  BY DEF LocalsOK
<1>2. At(t, "write") /\ Fill(t)
  BY <1>1, Zenon DEF WriteSave, GoAstray
<1>3. SavedTexts(t) = {Written(doc)}
  BY <1>1, Zenon DEF SavedTexts
<1>4. PICK text \in SavedTexts(t) :
        FileBecomes(text, {t}) /\ answer' = [answer EXCEPT ![t] = text]
  BY <1>2, Zenon DEF Fill
<1>5. text = Written(doc)
  BY <1>3, <1>4
<1>6. unsaved' = FALSE
  BY <1>1, <1>2 DEF Fill
<1>7. Stamp /\ Return(t, TRUE) /\ UNCHANGED << phase, doc, lastLoadTime, outages >>
  BY <1>2, Zenon DEF Fill, LetGo
<1> QED
  BY <1>2, <1>4, <1>5, <1>6, <1>7, Zenon

LEMMA OwnFailure ==
  ASSUME LocalsOK, NEW t \in Thread, WriteFails(t)
  PROVE  /\ At(t, "write") /\ "write" \in Fault
         /\ \/ UNCHANGED << fileVars, since >>
            \/ /\ Stamp
               /\ \E n \in 1 .. Len(Written(doc)) - 1 :
                    FileBecomes(SubSeq(Written(doc), 1, n), {t})
         /\ \E ok \in BOOLEAN : Return(t, ok)
         /\ answer' = [answer EXCEPT ![t] = Written(doc)]
         /\ UNCHANGED << phase, doc, lastLoadTime, outages, unsaved >>
<1>1. SavedTexts(t) = {Written(doc)}
  BY Zenon DEF LocalsOK, SavedTexts
<1>2. PICK text \in SavedTexts(t) :
        /\ \/ UNCHANGED << fileVars, since >>
           \/ /\ \E n \in 1 .. Len(text) - 1 : FileBecomes(SubSeq(text, 1, n), {t})
              /\ Stamp
        /\ answer' = [answer EXCEPT ![t] = text]
  BY Zenon DEF WriteFails
<1>3. text = Written(doc)
  BY <1>1, <1>2
<1>4. /\ At(t, "write") /\ "write" \in Fault /\ \E ok \in BOOLEAN : Return(t, ok)
      /\ UNCHANGED << phase, doc, lastLoadTime, outages, unsaved >>
  BY Zenon DEF WriteFails, LetGo
<1> QED
  BY <1>2, <1>3, <1>4, Zenon

\* The document's time stamp is not ahead of the file's, and the constructor's
\* document is the file's until its time is asked for.
StampBehind == lastLoadTime <= mtime

FreshStart == phase = "loaded" => doc = Parse(content)

\* What a call that reads the file again knows of it: the time it has noted is
\* later than the document's, and not ahead of the file's; while it is still
\* the file's, what was read then is what the file says.
Rereading == {"read", "assign", "note"}

Fetched(t) ==
  /\ phase # "up" => op[t].pc = "idle"
  /\ op[t].pc \in Rereading =>
       lastLoadTime < op[t].statTime /\ op[t].statTime <= mtime
  /\ op[t].pc = "assign" /\ op[t].statTime = mtime => held[t] = Parse(content)
  /\ op[t].pc = "note" /\ op[t].statTime = mtime => doc = Parse(content)

CacheInv ==
  /\ TypeOK /\ LocalsOK /\ StampBehind /\ FreshStart /\ UpToDate
  /\ \A t \in Thread : Fetched(t)

LEMMA CacheInit == Init => CacheInv
<1> SUFFICES ASSUME Init PROVE CacheInv
  OBVIOUS
<1>1. StampBehind /\ FreshStart /\ UpToDate /\ \A t \in Thread : Fetched(t)
  BY DEF Init, StampBehind, FreshStart, UpToDate, Fetched, Rereading, Idle
<1> QED
  BY <1>1, TypeInit, LocalsInit, Zenon DEF CacheInv

\* The file's time never goes back, and with a fine clock it tells every change.
LEMMA FileMoves ==
  ASSUME TypeOK, LocalsOK, [Next]_csvVars
  PROVE  /\ mtime \in Nat /\ mtime' \in Nat /\ mtime' >= mtime
         /\ FineClock /\ mtime' = mtime => content' = content
<1> USE DEF fileVars, docVars, auxVars
<1>0. mtime \in Nat
  BY DEF TypeOK, ClocksOK
<1>1. CASE UNCHANGED << mtime, content >>
  BY <1>0, <1>1
<1>2. CASE Stamp
  BY <1>0, <1>2 DEF Stamp
<1>3. CASE Environment
  BY <1>1, <1>2, <1>3, Zenon DEF Environment, Edit, Delete
<1>4. CASE StartRead \/ StartStat \/ StartFails \/ Crash
  BY <1>1, <1>4, Zenon DEF StartRead, StartStat, StartFails, Crash, Stop
<1>5. ASSUME NEW t \in Thread,
             \/ \E r \in Request : CallUpdate(t, r)
             \/ \E n \in Amount : CallRange(t, n)
             \/ CallWhole(t) \/ Finish(t)
      PROVE  UNCHANGED << mtime, content >>
  BY <1>5, Zenon DEF CallUpdate, CallRange, CallWhole, Call, Finish
<1>6. ASSUME NEW t \in Thread, Step(t)
      PROVE  UNCHANGED << mtime, content >> \/ Stamp
  <2>1. CASE Refresh(t)
    BY <2>1, Zenon DEF Refresh, StatMissing, StatExists, TimeFails, StatCurrent,
       StatNewer, ReadFile, RereadFails, ReplaceDoc, NoteTime
  <2>2. CASE ScanRange(t) \/ ScanWhole(t) \/ ScanShortRow(t)
    BY <2>2, Zenon DEF ScanRange, ScanWhole, ScanShortRow, Stop
  <2>3. CASE \/ Find(t) \/ FindFails(t) \/ SetDoc(t)
             \/ OpenSave(t) \/ OpenFails(t)
    BY <2>3, Zenon DEF Find, FindFails, SetDoc, OpenSave, OpenFails
  <2>4. CASE WriteSave(t)
    BY <2>4, OwnSave, Zenon
  <2>5. CASE WriteFails(t)
    BY <2>5, OwnFailure, Zenon
  <2> QED
    BY <1>6, <2>1, <2>2, <2>3, <2>4, <2>5, StepCases, Zenon
<1>7. CASE UNCHANGED csvVars
  BY <1>1, <1>7, Zenon DEF csvVars
<1> QED
  BY <1>1, <1>2, <1>3, <1>4, <1>5, <1>6, <1>7, NextCases, Zenon

\* Where a statement takes the call.
LEMMA PcMoves ==
  ASSUME CallsOK, NEW t \in Thread, Step(t)
  PROVE  \/ Stop
         \/ StatNewer(t) \/ ReadFile(t) \/ ReplaceDoc(t)
         \/ op'[t].pc \notin Rereading
<1>0. op[t] \in CallRecord
  BY DEF CallsOK
<1> USE DEF Rereading
<1>1. ASSUME NEW c, Become(t, c), c.pc \notin Rereading
      PROVE  op'[t].pc \notin Rereading
  BY <1>1 DEF Become, CallsOK
<1>2. ASSUME NEW ok, Return(t, ok)
      PROVE  op'[t].pc \notin Rereading
  <2>1. [op[t] EXCEPT !.pc = "done", !.ok = ok].pc \notin Rereading
    BY <1>0 DEF CallRecord
  <2> QED
    BY <1>1, <1>2, <2>1, Zenon DEF Return
<1>3. CASE StatMissing(t)
  <2>1. op[t].pc = "stat"
    BY <1>3, Zenon DEF StatMissing, At
  <2>2. [op[t] EXCEPT !.pass = 2].pc \notin Rereading
    BY <1>0, <2>1 DEF CallRecord
  <2> QED
    BY <1>1, <1>2, <1>3, <2>2, Zenon DEF StatMissing, Throw
<1>4. CASE StatExists(t)
  <2>1. [op[t] EXCEPT !.pc = "time"].pc \notin Rereading
    BY <1>0 DEF CallRecord
  <2> QED
    BY <1>1, <1>4, <2>1, Zenon DEF StatExists, Goto
<1>5. CASE StatCurrent(t) \/ NoteTime(t)
  <2>1. AfterRefresh(t).pc \notin Rereading
    BY <1>0 DEF AfterRefresh, CallRecord
  <2> QED
    BY <1>1, <1>5, <2>1, Zenon DEF StatCurrent, NoteTime
<1>6. CASE TimeFails(t) \/ RereadFails(t) \/ FindFails(t) \/ OpenFails(t)
  BY <1>2, <1>6, Zenon DEF TimeFails, RereadFails, FindFails, OpenFails, Throw
<1>7. CASE ScanRange(t) \/ ScanWhole(t) \/ ScanShortRow(t)
  <2>1. ASSUME NEW out, NEW tainted, Result(t, out, tainted)
        PROVE  op'[t].pc \notin Rereading
    <3>1. [op[t] EXCEPT !.pc = "done", !.ok = TRUE,
                        !.tainted = tainted].pc \notin Rereading
      BY <1>0 DEF CallRecord
    <3> QED
      BY <1>1, <2>1, <3>1, Zenon DEF Result
  <2> QED
    BY <1>2, <1>7, <2>1, Zenon DEF ScanRange, ScanWhole, ScanShortRow, Throw
<1>8. CASE Find(t)
  <2>1. PICK i \in HashRow(doc, op[t].req.hash) :
          Become(t, [op[t] EXCEPT !.pc = "set", !.row = i])
    BY <1>8, Zenon DEF Find
  <2>2. [op[t] EXCEPT !.pc = "set", !.row = i].pc \notin Rereading
    BY <1>0 DEF CallRecord
  <2> QED
    BY <1>1, <2>1, <2>2, Zenon
<1>9. CASE SetDoc(t)
  <2>1. PICK pc \in {"done", "open"} :
          Become(t, [op[t] EXCEPT !.pc = pc, !.tainted = unsaved])
    BY <1>9, Zenon DEF SetDoc
  <2>2. [op[t] EXCEPT !.pc = pc, !.tainted = unsaved].pc \notin Rereading
    BY <1>0 DEF CallRecord
  <2> QED
    BY <1>1, <2>1, <2>2, Zenon
<1>10. CASE OpenSave(t)
  <2>1. [op[t] EXCEPT !.pc = "write"].pc \notin Rereading
    BY <1>0 DEF CallRecord
  <2> QED
    BY <1>1, <1>10, <2>1, Zenon DEF OpenSave, Goto
<1>11. CASE WriteSave(t) \/ WriteFails(t)
  BY <1>2, <1>11, Zenon DEF WriteSave, WriteFails, Fill, GoAstray, Throw
<1> QED
  BY <1>3, <1>4, <1>5, <1>6, <1>7, <1>8, <1>9, <1>10, <1>11, Zenon DEF Step

\* A statement of a call runs in a program that is up.
LEMMA StepUp ==
  ASSUME NEW t \in Thread, Step(t)
  PROVE  phase = "up" /\ (phase' = phase \/ Stop)
<1>1. CASE Refresh(t)
  BY <1>1, Zenon DEF Refresh, StatMissing, StatExists, TimeFails, StatCurrent,
     StatNewer, ReadFile, RereadFails, ReplaceDoc, NoteTime, At
<1>2. CASE ScanRange(t) \/ ScanWhole(t) \/ ScanShortRow(t)
  BY <1>2, Zenon DEF ScanRange, ScanWhole, ScanShortRow, At
<1>3. CASE Find(t) \/ FindFails(t) \/ SetDoc(t) \/ OpenSave(t) \/ OpenFails(t)
  BY <1>3, Zenon DEF Find, FindFails, SetDoc, OpenSave, OpenFails, At
<1>4. CASE WriteSave(t) \/ WriteFails(t)
  BY <1>4, Zenon DEF WriteSave, WriteFails, Fill, GoAstray, At
<1> QED
  BY <1>1, <1>2, <1>3, <1>4, StepCases, Zenon

LEMMA FetchedStep ==
  ASSUME FineClock, OneThread, CacheInv, [Next]_csvVars, NEW t \in Thread
  PROVE  Fetched(t)'
<1> USE DEF fileVars, docVars, auxVars, Rereading
<1>0. /\ TypeOK /\ CallsOK /\ LocalsOK /\ Fetched(t)
      /\ op[t] \in CallRecord /\ op[t].statTime \in Nat /\ lastLoadTime \in Nat
  BY DEF CacheInv, TypeOK, ClocksOK, CallsOK, CallRecord
<1>1. /\ mtime \in Nat /\ mtime' \in Nat /\ mtime' >= mtime
      /\ mtime' = mtime => content' = content
  BY <1>0, FileMoves
<1>2. CASE UNCHANGED << phase, op, lastLoadTime, doc, held >>
  BY <1>0, <1>1, <1>2 DEF Fetched
<1>3. CASE Environment \/ UNCHANGED csvVars
  BY <1>2, <1>3, Zenon DEF Environment, Edit, Delete, csvVars
<1>4. CASE StartRead \/ StartStat
  <2>1. op[t].pc = "idle" /\ op' = op
    BY <1>0, <1>4 DEF Fetched, StartRead, StartStat
  <2> QED
    BY <2>1 DEF Fetched
<1>5. CASE Stop
  BY <1>5 DEF Stop, Fetched, Idle
<1>6. CASE StartFails \/ Crash
  BY <1>5, <1>6, Zenon DEF StartFails, Crash
<1>7. ASSUME phase' = "up", op'[t].pc \notin Rereading
      PROVE  Fetched(t)'
  BY <1>7 DEF Fetched
<1>8. ASSUME NEW kind, NEW req, NEW n, Call(t, kind, req, n)
      PROVE  Fetched(t)'
  <2>1. op'[t].pc = "stat" /\ phase' = "up"
    BY <1>0, <1>8 DEF Call, At, Become, Idle, CallsOK
  <2> QED
    BY <1>7, <2>1
<1>9. CASE Finish(t)
  <2>1. op'[t].pc = "idle" /\ phase' = "up"
    BY <1>0, <1>9 DEF Finish, At, Become, Idle, CallsOK
  <2> QED
    BY <1>7, <2>1
<1>10. CASE StatNewer(t)
  <2>1. /\ op'[t].pc = "read" /\ op'[t].statTime = mtime /\ phase' = "up"
        /\ mtime' = mtime /\ lastLoadTime' = lastLoadTime /\ mtime > lastLoadTime
    BY <1>0, <1>10 DEF StatNewer, At, Become, CallsOK, CallRecord
  <2> QED
    BY <1>0, <1>1, <2>1 DEF Fetched
<1>11. CASE ReadFile(t)
  <2>1. /\ Become(t, [op[t] EXCEPT !.pc = "assign"]) /\ op[t].pc = "read"
        /\ UNCHANGED << mtime, lastLoadTime, content >> /\ phase' = "up"
        /\ held'[t] = Parse(content)
    BY <1>0, <1>11 DEF ReadFile, At, Goto, LocalsOK
  <2>2. op'[t].pc = "assign" /\ op'[t].statTime = op[t].statTime
    BY <1>0, <2>1 DEF Become, CallsOK, CallRecord
  <2> QED
    BY <1>0, <2>1, <2>2 DEF Fetched
<1>12. CASE ReplaceDoc(t)
  <2>1. /\ Become(t, [op[t] EXCEPT !.pc = "note"]) /\ op[t].pc = "assign"
        /\ UNCHANGED << mtime, lastLoadTime, content >> /\ phase' = "up"
        /\ doc' = held[t]
    BY <1>0, <1>12 DEF ReplaceDoc, At, Goto
  <2>2. op'[t].pc = "note" /\ op'[t].statTime = op[t].statTime
    BY <1>0, <2>1 DEF Become, CallsOK, CallRecord
  <2> QED
    BY <1>0, <2>1, <2>2 DEF Fetched
<1>13. CASE Step(t)
  <2>1. CASE op'[t].pc \notin Rereading /\ phase' = "up"
    BY <1>7, <2>1
  <2> QED
    BY <1>0, <1>5, <1>10, <1>11, <1>12, <1>13, <2>1, PcMoves, StepUp, Zenon
<1>14. \A u \in Thread : u = t
  BY DEF OneThread
<1> QED
  BY <1>3, <1>4, <1>6, <1>8, <1>9, <1>13, <1>14, NextCases, Zenon
  DEF CallUpdate, CallRange, CallWhole

LEMMA BehindStep ==
  ASSUME CacheInv, [Next]_csvVars
  PROVE  StampBehind'
<1> USE DEF fileVars, docVars, auxVars
<1>0. /\ TypeOK /\ LocalsOK /\ StampBehind /\ lastLoadTime \in Nat
      /\ mtime \in Nat /\ mtime' \in Nat /\ mtime' >= mtime
  BY FileMoves DEF CacheInv, TypeOK, ClocksOK
<1>1. CASE UNCHANGED lastLoadTime
  BY <1>0, <1>1 DEF StampBehind
<1>2. CASE \E t \in Thread : NoteTime(t)
  <2>1. PICK t \in Thread : NoteTime(t)
    BY <1>2
  <2>2. Fetched(t) /\ op[t].pc = "note"
    BY <2>1 DEF CacheInv, NoteTime, At
  <2>3. op[t].statTime <= mtime
    BY <2>2 DEF Fetched, Rereading
  <2> QED
    BY <2>1, <2>3 DEF NoteTime, StampBehind
<1>3. CASE StartStat
  BY <1>0, <1>3 DEF StartStat, StampBehind
<1>4. CASE Environment \/ StartRead \/ StartFails \/ Crash \/ UNCHANGED csvVars
  BY <1>1, <1>4, Zenon DEF Environment, Edit, Delete, StartRead, StartFails,
     Crash, Stop, csvVars
<1>5. ASSUME NEW t \in Thread,
             \/ \E r \in Request : CallUpdate(t, r)
             \/ \E n \in Amount : CallRange(t, n)
             \/ CallWhole(t) \/ Finish(t)
      PROVE  StampBehind'
  BY <1>1, <1>5, Zenon DEF CallUpdate, CallRange, CallWhole, Call, Finish
<1>6. ASSUME NEW t \in Thread, Step(t)
      PROVE  StampBehind'
  <2>1. CASE Refresh(t)
    BY <1>1, <1>2, <2>1, Zenon DEF Refresh, StatMissing, StatExists, TimeFails,
       StatCurrent, StatNewer, ReadFile, RereadFails, ReplaceDoc
  <2>2. CASE ScanRange(t) \/ ScanWhole(t) \/ ScanShortRow(t)
    BY <1>1, <2>2, Zenon DEF ScanRange, ScanWhole, ScanShortRow, Stop
  <2>3. CASE \/ Find(t) \/ FindFails(t) \/ SetDoc(t)
             \/ OpenSave(t) \/ OpenFails(t)
    BY <1>1, <2>3, Zenon DEF Find, FindFails, SetDoc, OpenSave, OpenFails
  <2>4. CASE WriteSave(t) \/ WriteFails(t)
    BY <1>0, <1>1, <2>4, OwnSave, OwnFailure, Zenon
  <2> QED
    BY <1>6, <2>1, <2>2, <2>3, <2>4, StepCases, Zenon
<1> QED
  BY <1>2, <1>3, <1>4, <1>5, <1>6, NextCases, Zenon

LEMMA FineStamp ==
  ASSUME TypeOK, StampBehind, FineClock, Stamp, UNCHANGED lastLoadTime
  PROVE  lastLoadTime' # mtime'
BY DEF StampBehind, Stamp, TypeOK, ClocksOK

LEMMA FreshStep ==
  ASSUME QuietStart, FreshStart, [Next]_csvVars
  PROVE  FreshStart'
<1> USE DEF FreshStart, fileVars, docVars, auxVars
<1>1. CASE Environment
  BY <1>1, Zenon DEF Environment, Edit, Delete
<1>2. CASE StartRead \/ StartStat
  BY <1>2 DEF StartRead, StartStat
<1>3. CASE StartFails \/ Crash
  BY <1>3 DEF StartFails, Crash, Stop
<1>4. ASSUME NEW t \in Thread,
             \/ \E r \in Request : CallUpdate(t, r)
             \/ \E n \in Amount : CallRange(t, n)
             \/ CallWhole(t)
      PROVE  FreshStart'
  BY <1>4, Zenon DEF CallUpdate, CallRange, CallWhole, Call
<1>5. ASSUME NEW t \in Thread, Step(t)
      PROVE  FreshStart'
  <2>1. phase' = "up" \/ phase' = "down"
    BY <1>5, StepUp DEF Stop
  <2> QED
    BY <2>1
<1>6. ASSUME NEW t \in Thread, Finish(t)
      PROVE  FreshStart'
  BY <1>6, Zenon DEF Finish
<1>7. CASE UNCHANGED csvVars
  BY <1>7, Zenon DEF csvVars
<1> QED
  BY <1>1, <1>2, <1>3, <1>4, <1>5, <1>6, <1>7, NextCases, Zenon

LEMMA UpToDateStep ==
  ASSUME FineClock, CacheInv, [Next]_csvVars
  PROVE  UpToDate'
<1> USE DEF fileVars, docVars, auxVars
<1>1. ASSUME UNCHANGED << fileVars, phase, doc, lastLoadTime, unsaved >>
      PROVE  UpToDate'
  BY <1>1, Zenon DEF UpToDate, CacheInv
<1>2. ASSUME Stamp, UNCHANGED lastLoadTime
      PROVE  UpToDate'
  BY <1>2, FineStamp, Zenon DEF UpToDate, CacheInv
<1>3. ASSUME Stop
      PROVE  UpToDate'
  BY <1>3 DEF UpToDate, Stop
<1>4. CASE Environment
  <2>1. CASE \E text \in Version : Edit(text)
    BY <1>2, <2>1, Zenon DEF Edit
  <2>2. CASE Delete
    BY <2>2, Zenon DEF Delete, UpToDate
  <2> QED
    BY <1>4, <2>1, <2>2, Zenon DEF Environment
<1>5. CASE StartRead
  BY <1>5 DEF StartRead, UpToDate
<1>6. CASE StartStat
  BY <1>6, Zenon DEF StartStat, UpToDate, CacheInv, FreshStart
<1>7. CASE StartFails \/ Crash
  BY <1>3, <1>7, Zenon DEF StartFails, Crash
<1>8. ASSUME NEW t \in Thread,
             \/ \E r \in Request : CallUpdate(t, r)
             \/ \E n \in Amount : CallRange(t, n)
             \/ CallWhole(t)
      PROVE  UpToDate'
  BY <1>1, <1>8, Zenon DEF CallUpdate, CallRange, CallWhole, Call
<1>9. ASSUME NEW t \in Thread, Step(t)
      PROVE  UpToDate'
  <2>1. CASE \/ StatMissing(t) \/ StatExists(t) \/ TimeFails(t)
             \/ StatCurrent(t) \/ StatNewer(t) \/ ReadFile(t) \/ RereadFails(t)
             \/ Find(t) \/ FindFails(t) \/ OpenFails(t)
    BY <1>1, <2>1, Zenon DEF StatMissing, StatExists, TimeFails, StatCurrent,
       StatNewer, ReadFile, RereadFails, Find, FindFails, OpenFails
  <2>2. CASE ReplaceDoc(t)
    <3>1. Fetched(t) /\ op[t].pc = "assign" /\ op[t] \in CallRecord
      BY <2>2 DEF CacheInv, ReplaceDoc, At, TypeOK, CallsOK
    <3>2. lastLoadTime < op[t].statTime /\ op[t].statTime <= mtime
      BY <3>1 DEF Fetched, Rereading
    <3>3. lastLoadTime # mtime
      BY <3>1, <3>2 DEF CacheInv, TypeOK, ClocksOK, CallRecord
    <3> QED
      BY <2>2, <3>3, Zenon DEF ReplaceDoc, UpToDate
  <2>7. CASE NoteTime(t)
    <3>1. Fetched(t) /\ op[t].pc = "note"
      BY <2>7 DEF CacheInv, NoteTime, At
    <3> QED
      BY <2>7, <3>1, Zenon DEF Fetched, NoteTime, UpToDate
  <2>3. CASE ScanRange(t) \/ ScanWhole(t) \/ ScanShortRow(t)
    BY <1>1, <1>3, <2>3, Zenon DEF ScanRange, ScanWhole, ScanShortRow
  <2>4. CASE SetDoc(t)
    BY <2>4, Zenon DEF SetDoc, UpToDate
  <2>5. CASE OpenSave(t)
    BY <1>2, <2>5, Zenon DEF OpenSave
  <2>6. CASE WriteSave(t) \/ WriteFails(t)
    BY <1>1, <1>2, <2>6, OwnSave, OwnFailure, Zenon DEF CacheInv
  <2> QED
    BY <1>9, <2>1, <2>2, <2>3, <2>4, <2>5, <2>6, <2>7, Zenon DEF Step
<1>10. ASSUME NEW t \in Thread, Finish(t)
       PROVE  UpToDate'
  BY <1>1, <1>10, Zenon DEF Finish
<1>11. CASE UNCHANGED csvVars
  BY <1>1, <1>11, Zenon DEF csvVars
<1> QED
  BY <1>4, <1>5, <1>6, <1>7, <1>8, <1>9, <1>10, <1>11, NextCases, Zenon

LEMMA CacheStep ==
  ASSUME FineClock, QuietStart, OneThread, CacheInv, [Next]_csvVars
  PROVE  CacheInv'
<1>1. TypeOK'
  BY FlagsStep, ClocksStep, CallsStep, Zenon DEF CacheInv, TypeOK
<1>2. LocalsOK' /\ StampBehind' /\ FreshStart'
  BY LocalsStep, BehindStep, FreshStep, Zenon DEF CacheInv
<1>3. \A t \in Thread : Fetched(t)'
  BY FetchedStep
<1> QED
  BY <1>1, <1>2, <1>3, UpToDateStep, Zenon DEF CacheInv

\* refreshDocument of a single worker works when no two writes of the file
\* carry the same time and nobody writes it while the constructor runs: whatever
\* the other programs do between its calls on the file system, with failing
\* saves and crashes, a document whose time stamp is the file's, and that has
\* no row a failed save left behind, is what the file says.  (No assumption
\* can be dropped: csv_stale finds the violation without the two about time,
\* and without either one; with two threads an older document can come to stand
\* under a newer time stamp.)
THEOREM CacheIsCurrent ==
  ASSUME FineClock, QuietStart, OneThread
  PROVE  Spec => []UpToDate
<1>1. Init => CacheInv
  BY CacheInit
<1>2. CacheInv /\ [Next]_csvVars => CacheInv'
  BY CacheStep
<1>3. CacheInv => UpToDate
  BY Zenon DEF CacheInv
<1> QED
  BY <1>1, <1>2, <1>3, PTL DEF Spec

-----------------------------------------------------------------------------
(* A call works on a version of the file that was there while it ran.      *)

\* What the document is when a call reads it, ...
ReadDoc(t) == unsaved \/ \E c \in since[t] : doc = Parse(c)

\* ... and when it saves it.
ChangedDoc(t) ==
  \/ op[t].tainted
  \/ \E c \in since[t] : \E i \in HashRow(Parse(c), op[t].req.hash) :
       doc = SetRow(Parse(c), i, NewRow(op[t].req))

CallStarted(t) ==
  /\ phase # "up" => op[t].pc = "idle"
  /\ op[t].pc # "done" => ~ op[t].ok
  /\ op[t].pc \in {"stat", "time", "read", "assign", "note",
                   "scan", "find", "set", "open"} => content \in since[t]

CallKind(t) ==
  /\ op[t].pc \in {"find", "set", "open", "write"} => op[t].kind = "update"
  /\ op[t].pc = "scan" => op[t].kind # "update"

CallDoc(t) ==
  /\ op[t].pc = "assign" => \E c \in since[t] : held[t] = Parse(c)
  /\ op[t].pc \in {"note", "scan", "find", "set"} => ReadDoc(t)
  /\ op[t].pc = "set" => op[t].row \in HashRow(doc, op[t].req.hash)
  /\ op[t].pc \in {"open", "write"} => ChangedDoc(t)

CallAnswer(t) ==
  op[t].pc = "done" /\ op[t].ok /\ ~ op[t].tainted
    => \E c \in since[t] :
         IF op[t].kind = "update"
         THEN answer[t] \in UpdatedTexts(c, op[t].req)
         ELSE answer[t] = RangeLines(Parse(c))

CallInv(t) == CallStarted(t) /\ CallKind(t) /\ CallDoc(t) /\ CallAnswer(t)

VersionInv == CacheInv /\ \A t \in Thread : CallInv(t)

\* A call that is not at one of its statements has nothing to show.
LEMMA IdleCall ==
  ASSUME NEW t \in Thread, op'[t] = Idle
  PROVE  CallInv(t)'
BY DEF Idle, CallInv, CallStarted, CallKind, CallDoc, CallAnswer

LEMMA FailedCall ==
  ASSUME NEW t \in Thread, op'[t].pc = "done", ~ op'[t].ok, phase' = "up"
  PROVE  CallInv(t)'
BY DEF CallInv, CallStarted, CallKind, CallDoc, CallAnswer

\* What leaves the call and the document alone and notes what is written.
LEMMA CallUntouched ==
  ASSUME NEW t \in Thread, CallInv(t),
         UNCHANGED << phase, docVars, op, answer, unsaved >>,
         since[t] \subseteq since'[t],
         content' = content \/ op[t].pc = "idle" \/ content' \in since'[t]
  PROVE  CallInv(t)'
<1>1. CallStarted(t)'
  BY DEF CallInv, CallStarted
<1>2. CallKind(t)'
  BY DEF CallInv, CallKind
<1>3. CallDoc(t)'
  BY DEF CallInv, CallDoc, ReadDoc, ChangedDoc, docVars
<1>4. CallAnswer(t)'
  BY Zenon DEF CallInv, CallAnswer
<1> QED
  BY <1>1, <1>2, <1>3, <1>4 DEF CallInv

LEMMA ThrownCall ==
  ASSUME CallsOK, NEW t \in Thread, Throw(t), phase' = "up"
  PROVE  CallInv(t)'
<1>1. op'[t].pc = "done" /\ ~ op'[t].ok
  BY DEF Throw, Return, Become, CallsOK, CallRecord
<1> QED
  BY <1>1, FailedCall

\* The document that refreshDocument leaves is one the call may read.
LEMMA RefreshedCall ==
  ASSUME CallsOK, NEW t \in Thread, CallInv(t), Become(t, AfterRefresh(t)),
         op[t].pc \in {"time", "note"}, phase' = "up",
         UNCHANGED << content, since, answer >>,
         ReadDoc(t)'
  PROVE  CallInv(t)'
<1>1. op[t] \in CallRecord /\ ~ op[t].ok /\ content \in since[t]
  BY DEF CallsOK, CallInv, CallStarted
<1>2. /\ op'[t].ok = op[t].ok /\ op'[t].kind = op[t].kind
      /\ op'[t].pc = IF op[t].kind # "update" THEN "scan"
                     ELSE IF op[t].pass = 1 THEN "stat" ELSE "find"
  BY <1>1 DEF Become, AfterRefresh, CallsOK, CallRecord
<1>3. CallStarted(t)'
  BY <1>1, <1>2 DEF CallStarted
<1>4. CallKind(t)'
  BY <1>2 DEF CallKind
<1>5. CallDoc(t)'
  BY <1>2 DEF CallDoc
<1>6. CallAnswer(t)'
  BY <1>1, <1>2 DEF CallAnswer
<1> QED
  BY <1>3, <1>4, <1>5, <1>6 DEF CallInv

\* A scan that answers has read a version of its own time, ...
LEMMA ScannedCall ==
  ASSUME CallsOK, LocalsOK, NEW t \in Thread, CallInv(t), At(t, "scan"),
         Result(t, RangeLines(doc), unsaved), UNCHANGED << phase, since >>
  PROVE  CallInv(t)'
<1>1. /\ op[t] \in CallRecord /\ op[t].pc = "scan" /\ op[t].kind # "update"
      /\ ReadDoc(t) /\ phase = "up"
  BY DEF CallsOK, CallInv, CallKind, CallDoc, At
<1>2. /\ op'[t].pc = "done" /\ op'[t].kind = op[t].kind
      /\ op'[t].tainted = unsaved /\ answer'[t] = RangeLines(doc)
  BY <1>1 DEF Result, Become, CallsOK, CallRecord, LocalsOK
<1>3. CallAnswer(t)'
  BY <1>1, <1>2 DEF CallAnswer, ReadDoc
<1>4. CallStarted(t)' /\ CallKind(t)' /\ CallDoc(t)'
  BY <1>1, <1>2 DEF CallStarted, CallKind, CallDoc
<1> QED
  BY <1>3, <1>4 DEF CallInv

\* ... or it is tainted and has nothing to show.
LEMMA TaintedCall ==
  ASSUME CallsOK, NEW t \in Thread, CallInv(t), At(t, "scan"),
         NEW out, Result(t, out, TRUE), UNCHANGED phase
  PROVE  CallInv(t)'
<1>1. op[t] \in CallRecord /\ op[t].pc = "scan" /\ phase = "up"
  BY DEF CallsOK, At
<1>2. /\ op'[t].pc = "done" /\ op'[t].kind = op[t].kind /\ op'[t].tainted
  BY <1>1 DEF Result, Become, CallsOK, CallRecord
<1>3. CallAnswer(t)'
  BY <1>2 DEF CallAnswer
<1>4. CallStarted(t)' /\ CallKind(t)' /\ CallDoc(t)'
  BY <1>1, <1>2 DEF CallStarted, CallKind, CallDoc
<1> QED
  BY <1>3, <1>4 DEF CallInv

LEMMA FoundCall ==
  ASSUME CallsOK, NEW t \in Thread, CallInv(t), Find(t)
  PROVE  CallInv(t)'
<1>1. PICK i \in HashRow(doc, op[t].req.hash) :
        Become(t, [op[t] EXCEPT !.pc = "set", !.row = i])
  BY Zenon DEF Find
<1>2. /\ op[t] \in CallRecord /\ op[t].pc = "find" /\ phase = "up"
      /\ ReadDoc(t) /\ op[t].kind = "update" /\ ~ op[t].ok
      /\ content \in since[t]
  BY DEF CallsOK, CallInv, CallStarted, CallKind, CallDoc, Find, At
<1>3. /\ op'[t].pc = "set" /\ op'[t].row = i /\ op'[t].ok = op[t].ok
      /\ op'[t].kind = op[t].kind /\ op'[t].req = op[t].req
  BY <1>1, <1>2 DEF Become, CallsOK, CallRecord
<1>4. UNCHANGED << content, phase, doc, unsaved, since >>
  BY Zenon DEF Find, fileVars, docVars, auxVars
<1>5. CallStarted(t)' /\ CallKind(t)' /\ CallAnswer(t)'
  BY <1>2, <1>3, <1>4 DEF CallStarted, CallKind, CallAnswer
<1>6. CallDoc(t)'
  BY <1>1, <1>2, <1>3, <1>4 DEF CallDoc, ReadDoc
<1> QED
  BY <1>5, <1>6 DEF CallInv

LEMMA SetCall ==
  ASSUME CallsOK, FlagsOK, NEW t \in Thread, CallInv(t), SetDoc(t)
  PROVE  CallInv(t)'
<1>1. PICK pc \in {"done", "open"} :
        Become(t, [op[t] EXCEPT !.pc = pc, !.tainted = unsaved])
  BY Zenon DEF SetDoc
<1>2. /\ op[t] \in CallRecord /\ op[t].pc = "set" /\ phase = "up"
      /\ ReadDoc(t) /\ op[t].kind = "update" /\ ~ op[t].ok
      /\ content \in since[t] /\ op[t].row \in HashRow(doc, op[t].req.hash)
  BY DEF CallsOK, CallInv, CallStarted, CallKind, CallDoc, SetDoc, At
<1>3. /\ op'[t].pc = pc /\ op'[t].ok = op[t].ok /\ op'[t].tainted = unsaved
      /\ op'[t].kind = op[t].kind /\ op'[t].req = op[t].req
  BY <1>1, <1>2 DEF Become, CallsOK, CallRecord
<1>4. /\ UNCHANGED << content, phase, since >>
      /\ doc' = SetRow(doc, op[t].row, NewRow(op[t].req))
  BY Zenon DEF SetDoc, fileVars, auxVars
<1>5. CallStarted(t)' /\ CallKind(t)' /\ CallAnswer(t)'
  BY <1>2, <1>3, <1>4 DEF CallStarted, CallKind, CallAnswer
<1>6. NewRow(op'[t].req) = NewRow(op[t].req)
  BY <1>3
<1>7. ChangedDoc(t)'
  BY <1>2, <1>3, <1>4, <1>6 DEF ChangedDoc, ReadDoc
<1>8. CallDoc(t)'
  BY <1>3, <1>7 DEF CallDoc
<1> QED
  BY <1>5, <1>8 DEF CallInv

LEMMA OpenedCall ==
  ASSUME CallsOK, LocalsOK, NEW t \in Thread, CallInv(t), OpenSave(t)
  PROVE  CallInv(t)'
<1>1. /\ op[t] \in CallRecord /\ op[t].pc = "open" /\ phase = "up"
      /\ ChangedDoc(t) /\ op[t].kind = "update" /\ ~ op[t].ok
  BY DEF CallsOK, CallInv, CallStarted, CallKind, CallDoc, OpenSave, At
<1>2. Become(t, [op[t] EXCEPT !.pc = "write"])
  BY Zenon DEF OpenSave, Goto
<1>3. /\ op'[t].pc = "write" /\ op'[t].ok = op[t].ok
      /\ op'[t].tainted = op[t].tainted
      /\ op'[t].kind = op[t].kind /\ op'[t].req = op[t].req
  BY <1>1, <1>2 DEF Become, CallsOK, CallRecord
<1>4. UNCHANGED << phase, doc >> /\ since'[t] = since[t]
  BY DEF OpenSave, FileBecomes, docVars
<1>5. CallStarted(t)' /\ CallKind(t)' /\ CallAnswer(t)'
  BY <1>1, <1>3, <1>4 DEF CallStarted, CallKind, CallAnswer
<1>6. ChangedDoc(t)'
  BY <1>1, <1>3, <1>4 DEF ChangedDoc
<1>7. CallDoc(t)'
  BY <1>3, <1>6 DEF CallDoc
<1> QED
  BY <1>5, <1>7 DEF CallInv

LEMMA SavedCall ==
  ASSUME CallsOK, LocalsOK, NEW t \in Thread, CallInv(t), At(t, "write"),
         NEW ok \in BOOLEAN, Return(t, ok),
         answer' = [answer EXCEPT ![t] = Written(doc)],
         UNCHANGED phase, since'[t] = since[t]
  PROVE  CallInv(t)'
<1>1. /\ op[t] \in CallRecord /\ op[t].pc = "write" /\ phase = "up"
      /\ ChangedDoc(t) /\ op[t].kind = "update"
  BY DEF CallsOK, CallInv, CallStarted, CallKind, CallDoc, At
<1>2. /\ op'[t].pc = "done" /\ op'[t].tainted = op[t].tainted
      /\ op'[t].kind = op[t].kind /\ op'[t].req = op[t].req
  BY <1>1 DEF Return, Become, CallsOK, CallRecord
<1>3. answer'[t] = Written(doc)
  BY DEF LocalsOK
<1>4. CallAnswer(t)'
  BY <1>1, <1>2, <1>3 DEF CallAnswer, ChangedDoc, UpdatedTexts
<1>5. CallStarted(t)' /\ CallKind(t)' /\ CallDoc(t)'
  BY <1>1, <1>2 DEF CallStarted, CallKind, CallDoc
<1> QED
  BY <1>4, <1>5 DEF CallInv

\* One statement of the call.
LEMMA VersionOfStep ==
  ASSUME CacheInv, NEW t \in Thread, CallInv(t), Step(t)
  PROVE  CallInv(t)'
<1> USE DEF fileVars, docVars, auxVars
<1>0. CallsOK /\ FlagsOK /\ ClocksOK /\ LocalsOK /\ op[t] \in CallRecord
  BY DEF CacheInv, TypeOK, CallsOK
<1>1. ASSUME NEW pc, At(t, pc), UNCHANGED phase, Throw(t)
      PROVE  CallInv(t)'
  BY <1>0, <1>1, ThrownCall, Zenon DEF At
<1>2. CASE StatMissing(t)
  <2>1. CASE Throw(t)
    BY <1>1, <1>2, <2>1, Zenon DEF StatMissing
  <2>2. CASE Become(t, [op[t] EXCEPT !.pass = 2])
    <3>1. /\ op'[t].pc = "stat" /\ op'[t].ok = op[t].ok /\ op[t].pc = "stat"
      BY <1>0, <1>2, <2>2 DEF StatMissing, At, Become, CallsOK, CallRecord
    <3>2. UNCHANGED << content, phase, since >>
      BY <1>2, Zenon DEF StatMissing
    <3> QED
      BY <3>1, <3>2 DEF CallInv, CallStarted, CallKind, CallDoc, CallAnswer
  <2> QED
    BY <1>2, <2>1, <2>2, Zenon DEF StatMissing
<1>3. CASE StatCurrent(t)
  <2>1. unsaved \/ doc = Parse(content)
    BY <1>0, <1>3 DEF StatCurrent, At, CacheInv, UpToDate, StampBehind, ClocksOK
  <2>2. /\ op[t].pc = "time" /\ phase' = "up"
        /\ Become(t, AfterRefresh(t))
        /\ UNCHANGED << content, since, answer, unsaved, doc >>
    BY <1>3 DEF StatCurrent, At
  <2>3. content \in since[t]
    BY <2>2 DEF CallInv, CallStarted
  <2>4. ReadDoc(t)'
    BY <2>1, <2>2, <2>3 DEF ReadDoc
  <2> QED
    BY <1>0, <2>2, <2>4, RefreshedCall
<1>4. CASE StatNewer(t)
  <2>1. Become(t, [op[t] EXCEPT !.pc = "read", !.statTime = mtime])
    BY <1>4, Zenon DEF StatNewer
  <2>2. op'[t].pc = "read" /\ op'[t].ok = op[t].ok /\ op[t].pc = "time"
    BY <1>0, <1>4, <2>1 DEF StatNewer, At, Become, CallsOK, CallRecord
  <2>3. UNCHANGED << content, phase, since >>
    BY <1>4, Zenon DEF StatNewer
  <2> QED
    BY <2>2, <2>3 DEF CallInv, CallStarted, CallKind, CallDoc, CallAnswer
<1>5. CASE StatExists(t)
  <2>1. Become(t, [op[t] EXCEPT !.pc = "time"]) /\ op[t].pc = "stat"
    BY <1>5, Zenon DEF StatExists, Goto, At
  <2>2. op'[t].pc = "time" /\ op'[t].ok = op[t].ok
    BY <1>0, <2>1 DEF Become, CallsOK, CallRecord
  <2>3. UNCHANGED << content, phase, since >>
    BY <1>5, Zenon DEF StatExists
  <2> QED
    BY <2>1, <2>2, <2>3 DEF CallInv, CallStarted, CallKind, CallDoc, CallAnswer
<1>15. CASE ReadFile(t)
  <2>1. /\ Become(t, [op[t] EXCEPT !.pc = "assign"]) /\ op[t].pc = "read"
        /\ held'[t] = Parse(content) /\ UNCHANGED << content, phase, since >>
    BY <1>0, <1>15 DEF ReadFile, Goto, At, LocalsOK
  <2>2. op'[t].pc = "assign" /\ op'[t].ok = op[t].ok
    BY <1>0, <2>1 DEF Become, CallsOK, CallRecord
  <2>3. content \in since[t]
    BY <2>1 DEF CallInv, CallStarted
  <2> QED
    BY <2>1, <2>2, <2>3 DEF CallInv, CallStarted, CallKind, CallDoc, CallAnswer
<1>16. CASE ReplaceDoc(t)
  <2>1. /\ Become(t, [op[t] EXCEPT !.pc = "note"]) /\ op[t].pc = "assign"
        /\ doc' = held[t] /\ UNCHANGED << content, phase, since >>
    BY <1>16 DEF ReplaceDoc, Goto, At
  <2>2. op'[t].pc = "note" /\ op'[t].ok = op[t].ok
    BY <1>0, <2>1 DEF Become, CallsOK, CallRecord
  <2>3. ReadDoc(t)'
    BY <2>1 DEF CallInv, CallDoc, ReadDoc
  <2> QED
    BY <2>1, <2>2, <2>3 DEF CallInv, CallStarted, CallKind, CallDoc, CallAnswer
<1>17. CASE NoteTime(t)
  <2>1. /\ op[t].pc = "note" /\ phase' = "up" /\ Become(t, AfterRefresh(t))
        /\ UNCHANGED << content, since, answer, unsaved, doc >>
    BY <1>17 DEF NoteTime, At
  <2>2. ReadDoc(t)'
    BY <2>1 DEF CallInv, CallDoc, ReadDoc
  <2> QED
    BY <1>0, <2>1, <2>2, RefreshedCall
<1>6. CASE TimeFails(t) \/ RereadFails(t) \/ FindFails(t) \/ OpenFails(t)
  BY <1>1, <1>6, Zenon DEF TimeFails, RereadFails, FindFails, OpenFails
<1>7. CASE ScanRange(t) \/ ScanWhole(t)
  BY <1>0, <1>1, <1>7, ScannedCall, Zenon DEF ScanRange, ScanWhole
<1>8. CASE ScanShortRow(t)
  <2>1. CASE Stop
    BY <2>1, IdleCall DEF Stop
  <2> QED
    BY <1>0, <1>1, <1>8, <2>1, TaintedCall, Zenon DEF ScanShortRow
<1>9. CASE Find(t)
  BY <1>0, <1>9, FoundCall
<1>10. CASE SetDoc(t)
  BY <1>0, <1>10, SetCall
<1>11. CASE OpenSave(t)
  BY <1>0, <1>11, OpenedCall
<1>12. ASSUME NEW text, FileBecomes(text, {t})
       PROVE  since'[t] = since[t]
  BY <1>12 DEF FileBecomes, LocalsOK
<1>13. CASE WriteSave(t)
  <2>1. TRUE \in BOOLEAN
    OBVIOUS
  <2> QED
    BY <1>0, <1>12, <1>13, <2>1, OwnSave, SavedCall, Zenon
<1>14. CASE WriteFails(t)
  BY <1>0, <1>12, <1>14, OwnFailure, SavedCall, Zenon
<1> QED
  BY <1>2, <1>3, <1>4, <1>5, <1>6, <1>7, <1>8, <1>9, <1>10, <1>11, <1>13, <1>14,
     <1>15, <1>16, <1>17, Zenon DEF Step

LEMMA VersionStep ==
  ASSUME OneThread, VersionInv, [Next]_csvVars, NEW t \in Thread
  PROVE  CallInv(t)'
<1> USE DEF fileVars, docVars, auxVars
<1>0. CallInv(t) /\ CacheInv /\ LocalsOK /\ CallsOK /\ CallStarted(t)
  BY DEF VersionInv, CacheInv, TypeOK, CallInv
<1>1. CASE \E text \in Version : Edit(text)
  <2>1. PICK text \in Version : Edit(text)
    BY <1>1
  <2>2. /\ since[t] \subseteq since'[t]
        /\ op[t].pc = "idle" \/ content' \in since'[t]
    BY <2>1 DEF Edit, FileBecomes
  <2>3. UNCHANGED << phase, docVars, op, answer, unsaved >>
    BY <2>1, Zenon DEF Edit
  <2> QED
    BY <1>0, <2>2, <2>3, CallUntouched
<1>2. CASE Delete \/ UNCHANGED csvVars
  <2>1. UNCHANGED << content, phase, docVars, op, answer, unsaved, since >>
    BY <1>2, Zenon DEF Delete, csvVars
  <2> QED
    BY <1>0, <2>1, CallUntouched
<1>3. CASE StartRead \/ StartStat
  <2>1. op[t].pc = "idle" /\ UNCHANGED op
    BY <1>0, <1>3 DEF StartRead, StartStat, CallStarted
  <2> QED
    BY <1>0, <2>1 DEF CallInv, CallStarted, CallKind, CallDoc, CallAnswer
<1>4. CASE StartFails \/ Crash
  BY <1>4, IdleCall DEF StartFails, Crash, Stop
<1>5. ASSUME NEW kind, NEW req, NEW amount, Call(t, kind, req, amount)
      PROVE  CallInv(t)'
  <2>1. /\ op'[t].pc = "stat" /\ ~ op'[t].ok
        /\ content' \in since'[t] /\ phase' = "up"
    BY <1>0, <1>5 DEF Call, At, Become, Idle, CallsOK, LocalsOK
  <2> QED
    BY <2>1 DEF CallInv, CallStarted, CallKind, CallDoc, CallAnswer
<1>6. CASE Step(t)
  BY <1>0, <1>6, VersionOfStep
<1>7. CASE Finish(t)
  <2>1. op'[t] = Idle
    BY <1>0, <1>7 DEF Finish, Become, CallsOK
  <2> QED
    BY <2>1, IdleCall
<1>8. \A u \in Thread : u = t
  BY DEF OneThread
<1> QED
  BY <1>1, <1>2, <1>3, <1>4, <1>5, <1>6, <1>7, <1>8, NextCases, Zenon
  DEF Environment, CallUpdate, CallRange, CallWhole

LEMMA VersionInit == Init => \A t \in Thread : CallInv(t)
BY DEF Init, Idle, CallInv, CallStarted, CallKind, CallDoc, CallAnswer

\* With the one worker thread that main() starts, a range, a whole or an
\* update that succeeds has used a version of the file that was there at some
\* moment of the call, unless it found rows of an earlier update whose save
\* failed: no answer is older than the call, and no save writes back rows
\* that another program had replaced before the call began.  The assumptions
\* about time stamps are those of CacheIsCurrent; with two threads
\* csv_two_threads finds the violation.
THEOREM AnswersAreCurrent ==
  ASSUME FineClock, QuietStart, OneThread
  PROVE  Spec => []UsesVersionOfCall
<1>1. Init => VersionInv
  BY CacheInit, VersionInit, Zenon DEF VersionInv
<1>2. VersionInv /\ [Next]_csvVars => VersionInv'
  BY CacheStep, VersionStep, Zenon DEF VersionInv
<1>3. VersionInv => UsesVersionOfCall
  BY DEF VersionInv, CallInv, CallAnswer, UsesVersionOfCall, At
<1> QED
  BY <1>1, <1>2, <1>3, PTL DEF Spec

-----------------------------------------------------------------------------
(* The text and the table.                                                 *)

\* A line as a row of the table.
Cells(line) == [j \in 1 .. Len(line) |-> Str(line[j])]

LEMMA StrIsSeq ==
  ASSUME NEW atom \in Atom
  PROVE  /\ Str(atom) \in Seq(Seq(Atom)) /\ Len(Str(atom)) = 1
         /\ Str(atom)[1] = << atom >> /\ Str(atom)[1][1] = atom
BY DEF Str

LEMMA CellsProperties ==
  ASSUME NEW line \in Seq(Atom)
  PROVE  /\ Cells(line) \in Seq(Seq(Seq(Atom))) /\ Len(Cells(line)) = Len(line)
         /\ \A j \in 1 .. Len(line) : Cells(line)[j] = Str(line[j])
<1>1. Len(line) \in Nat /\ \A j \in 1 .. Len(line) : line[j] \in Atom
  BY LenProperties, ElementOfSeq
<1>2. \A j \in 1 .. Len(line) : Str(line[j]) \in Seq(Seq(Atom))
  BY <1>1, StrIsSeq
<1>3. Cells(line) \in [1 .. Len(line) -> Seq(Seq(Atom))]
  BY <1>2 DEF Cells
<1>4. Cells(line) \in Seq(Seq(Seq(Atom)))
  BY <1>1, <1>3, SeqDef
<1>5. DOMAIN Cells(line) = 1 .. Len(line)
  BY <1>3
<1>6. DOMAIN Cells(line) = 1 .. Len(Cells(line)) /\ Len(Cells(line)) \in Nat
  BY <1>4, LenProperties
<1>7. Len(Cells(line)) = Len(line)
  BY <1>1, <1>5, <1>6
<1> QED
  BY <1>4, <1>7, Zenon DEF Cells

\* A cell is added to the text of a row.
LEMMA CellAdded ==
  ASSUME NEW start \in Seq(Atom), NEW atom \in Atom
  PROVE  WithComma(<< start >>, Str(atom)) = << start \o << atom >> >>
<1> DEFINE s == << start >>
           u == << << atom >> >>
           both == << start \o << atom >> >>
<1>1. /\ s \in Seq(Seq(Atom)) /\ Len(s) = 1 /\ s[1] = start /\ u[1] = << atom >>
      /\ Len(u) = 1
  OBVIOUS
<1>2. SubSeq(s, 1, Len(s) - 1) = << >> /\ SubSeq(u, 2, Len(u)) = << >>
  <2>1. Len(s) - 1 \in Int /\ Len(s) - 1 < 1 /\ Len(u) \in Int /\ Len(u) < 2
    BY <1>1
  <2> QED
    BY <2>1, SubSeqEmpty
<1>3. both \in Seq(Seq(Atom))
  <2>1. << atom >> \in Seq(Atom)
    OBVIOUS
  <2>2. start \o << atom >> \in Seq(Atom)
    BY <2>1, ConcatProperties
  <2> QED
    BY <2>2
<1>4. WithComma(s, u)
        = SubSeq(s, 1, Len(s) - 1) \o << s[Len(s)] \o u[1] >> \o SubSeq(u, 2, Len(u))
  BY Zenon DEF WithComma
<1>5. << >> \o both = both /\ both \o << >> = both
  BY <1>3, ConcatEmptySeq
<1>6. << s[Len(s)] \o u[1] >> = both
  BY <1>1
<1> HIDE DEF s, u, both
<1>7. WithComma(s, u) = both
  BY <1>2, <1>4, <1>5, <1>6, Zenon
<1> QED
  BY <1>7 DEF s, u, both, Str

\* Saving a row of plain cells: the atoms with commas between them.
LEMMA RowTextOfCells ==
  ASSUME NEW line \in Seq(Atom), Len(line) >= 1
  PROVE  RowText(Cells(line)) = << line >>
<1> DEFINE row == Cells(line)
           G(g) == [n \in 1 .. Len(row) |->
                      IF n = 1 THEN row[1] ELSE WithComma(g[n - 1], row[n])]
           upTo == CHOOSE g : g = G(g)
           E == [n \in 1 .. Len(row) |-> << SubSeq(line, 1, n) >>]
<1>1. RowText(row) = upTo[Len(row)]
  BY DEF RowText
<1>2. /\ Len(row) = Len(line) /\ Len(line) \in Nat
      /\ \A j \in 1 .. Len(line) : row[j] = Str(line[j]) /\ line[j] \in Atom
  BY CellsProperties, LenProperties, ElementOfSeq
<1> HIDE DEF row
<1>3. SubSeq(line, 1, 1) = << line[1] >>
  <2>1. SubSeq(line, 1, 1) = SubSeq(line, 1, 1 - 1) \o << line[1] >>
    BY <1>2, SubSeqRecursiveSecond
  <2>2. SubSeq(line, 1, 1 - 1) = << >>
    BY SubSeqEmpty
  <2>3. << line[1] >> \in Seq(Atom)
    BY <1>2
  <2> QED
    BY <2>1, <2>2, <2>3, ConcatEmptySeq
<1>4. ASSUME NEW n \in 1 .. Len(row), n # 1
      PROVE  WithComma(<< SubSeq(line, 1, n - 1) >>, row[n])
               = << SubSeq(line, 1, n) >>
  <2>1. n \in 1 .. Len(line) /\ row[n] = Str(line[n]) /\ line[n] \in Atom
    BY <1>2, <1>4
  <2>2. SubSeq(line, 1, n) = SubSeq(line, 1, n - 1) \o << line[n] >>
    <3>1. 1 \in 1 .. Len(line)
      BY <1>2
    <3> QED
      BY <1>2, <2>1, <3>1, SubSeqRecursiveSecond
  <2>3. SubSeq(line, 1, n - 1) \in Seq(Atom)
    <3>1. \A i \in 1 .. n - 1 : line[i] \in Atom
      BY <1>2, <2>1
    <3> QED
      BY <1>2, <2>1, <3>1, SubSeqProperties
  <2> QED
    BY <2>1, <2>2, <2>3, CellAdded
<1>5. ASSUME NEW n \in 1 .. Len(row)
      PROVE  E[n] = IF n = 1 THEN row[1] ELSE WithComma(E[n - 1], row[n])
  <2>1. CASE n = 1
    BY <1>2, <1>3, <2>1 DEF Str
  <2>2. CASE n # 1
    <3>1. n - 1 \in 1 .. Len(row)
      BY <1>2, <2>2
    <3>2. E[n - 1] = << SubSeq(line, 1, n - 1) >>
      BY <3>1
    <3> QED
      BY <1>4, <2>2, <3>2
  <2> QED
    BY <2>1, <2>2
<1>6. upTo = G(upTo)
  <2>1. E = G(E)
    BY <1>5
  <2> QED
    BY <2>1
<1> HIDE DEF upTo
<1> DEFINE T == { n \in Nat : n + 1 <= Len(row) => upTo[n + 1] = E[n + 1] }
<1>7. 0 \in T
  <2>1. 1 \in 1 .. Len(row)
    BY <1>2
  <2>2. upTo[1] = row[1]
    BY <1>6, <2>1
  <2>3. E[1] = << SubSeq(line, 1, 1) >>
    BY <2>1
  <2> QED
    BY <1>2, <1>3, <2>1, <2>2, <2>3 DEF Str
<1>8. ASSUME NEW n \in T
      PROVE  n + 1 \in T
  <2> SUFFICES ASSUME n + 1 + 1 <= Len(row)
               PROVE  upTo[n + 1 + 1] = E[n + 1 + 1]
    OBVIOUS
  <2>1. n + 1 + 1 \in 1 .. Len(row) /\ n + 1 \in 1 .. Len(row) /\ n + 1 + 1 # 1
        /\ n + 1 + 1 - 1 = n + 1
    BY <1>2
  <2>2. upTo[n + 1] = E[n + 1]
    BY <2>1
  <2>3. upTo[n + 1 + 1] = WithComma(upTo[n + 1 + 1 - 1], row[n + 1 + 1])
    BY <1>6, <2>1
  <2> HIDE DEF E
  <2>4. E[n + 1 + 1] = WithComma(E[n + 1 + 1 - 1], row[n + 1 + 1])
    BY <1>5, <2>1
  <2> QED
    BY <2>1, <2>2, <2>3, <2>4, Zenon
<1>9. T = Nat
  <2>1. T \in SUBSET Nat
    OBVIOUS
  <2> QED
    BY <1>7, <1>8, <2>1, Induction
<1>10. upTo[Len(row)] = E[Len(row)]
  <2>1. Len(row) - 1 \in Nat /\ Len(row) - 1 + 1 = Len(row)
        /\ Len(row) - 1 + 1 <= Len(row)
    BY <1>2
  <2>2. Len(row) - 1 \in T
    BY <1>9, <2>1, Zenon
  <2> HIDE DEF E
  <2> QED
    BY <2>1, <2>2
<1>11. E[Len(row)] = << SubSeq(line, 1, Len(line)) >>
  BY <1>2
<1> QED
  BY <1>1, <1>10, <1>11, SubSeqFull DEF row

LEMMA TextLines ==
  ASSUME NEW text \in Text
  PROVE  /\ Len(text) \in Nat
         /\ \A i \in 1 .. Len(text) : text[i] \in Seq(Atom) /\ Len(text[i]) >= 1
<1>1. \A i \in 1 .. Len(text) : text[i] \in Seq(Atom) \ {<< >>}
  BY ElementOfSeq DEF Text
<1>2. ASSUME NEW line \in Seq(Atom) \ {<< >>}
      PROVE  Len(line) >= 1
  BY <1>2, EmptySeq
<1> QED
  BY <1>1, <1>2, LenProperties DEF Text

LEMMA ParsedText ==
  ASSUME NEW text \in Text
  PROVE  /\ Parse(text) \in Seq(Seq(Seq(Seq(Atom))))
         /\ Len(Parse(text)) = Len(text)
         /\ \A i \in 1 .. Len(text) : Parse(text)[i] = Cells(text[i])
<1>1. /\ Len(text) \in Nat
      /\ \A i \in 1 .. Len(text) : text[i] \in Seq(Atom) /\ Len(text[i]) >= 1
  BY TextLines
<1>2. Parse(text) = [i \in 1 .. Len(text) |-> Cells(text[i])]
  BY Zenon DEF Parse, Cells
<1>3. \A i \in 1 .. Len(text) : Cells(text[i]) \in Seq(Seq(Seq(Atom)))
  BY <1>1, CellsProperties
<1>4. Parse(text) \in [1 .. Len(text) -> Seq(Seq(Seq(Atom)))]
  BY <1>2, <1>3
<1>5. Parse(text) \in Seq(Seq(Seq(Seq(Atom)))) /\ DOMAIN Parse(text) = 1 .. Len(text)
  BY <1>1, <1>4, SeqDef
<1>6. DOMAIN Parse(text) = 1 .. Len(Parse(text)) /\ Len(Parse(text)) \in Nat
  BY <1>5, LenProperties
<1>7. Len(Parse(text)) = Len(text)
  BY <1>1, <1>5, <1>6
<1> QED
  BY <1>2, <1>5, <1>7, Zenon

\* One line after the other.
LEMMA LinesFlattened ==
  ASSUME NEW text \in Text
  PROVE  FlattenSeq([i \in 1 .. Len(text) |-> << text[i] >>]) = text
<1> DEFINE seqs == [i \in 1 .. Len(text) |-> << text[i] >>]
           G(g) == [i \in 1 .. Len(seqs) |->
                      IF i = 1 THEN seqs[i] ELSE g[i - 1] \o seqs[i]]
           flatten == CHOOSE g : g = G(g)
           E == [i \in 1 .. Len(seqs) |-> SubSeq(text, 1, i)]
<1>1. FlattenSeq(seqs) = IF Len(seqs) = 0 THEN seqs ELSE flatten[Len(seqs)]
  BY DEF FlattenSeq
<1>2. /\ Len(text) \in Nat /\ text \in Seq(Seq(Atom))
      /\ \A i \in 1 .. Len(text) : text[i] \in Seq(Atom)
  <2>1. Seq(Atom) \ {<< >>} \subseteq Seq(Atom)
    OBVIOUS
  <2>2. text \in Seq(Seq(Atom))
    BY <2>1, SeqMonotonic DEF Text
  <2> QED
    BY <2>2, TextLines
<1>3. /\ Len(seqs) = Len(text)
      /\ \A i \in 1 .. Len(text) : seqs[i] = << text[i] >>
  <2>1. \A i \in 1 .. Len(text) : << text[i] >> \in Seq(Seq(Atom))
    BY <1>2
  <2>2. seqs \in [1 .. Len(text) -> Seq(Seq(Atom))]
    BY <2>1
  <2>3. seqs \in Seq(Seq(Seq(Atom))) /\ DOMAIN seqs = 1 .. Len(text)
    BY <1>2, <2>2, SeqDef
  <2>4. DOMAIN seqs = 1 .. Len(seqs) /\ Len(seqs) \in Nat
    BY <2>3, LenProperties
  <2>5. Len(seqs) = Len(text)
    BY <1>2, <2>3, <2>4
  <2> QED
    BY <2>5
<1>4. CASE Len(text) = 0
  <2>1. seqs = << >> /\ text = << >>
    BY <1>2, <1>4, EmptySeq
  <2> QED
    BY <1>1, <1>3, <1>4, <2>1
<1>5. CASE Len(text) # 0
  <2> HIDE DEF seqs
  <2>1. SubSeq(text, 1, 1) = << text[1] >>
    <3>1. SubSeq(text, 1, 1) = SubSeq(text, 1, 1 - 1) \o << text[1] >>
      BY <1>2, <1>5, SubSeqRecursiveSecond
    <3>2. SubSeq(text, 1, 1 - 1) = << >>
      BY SubSeqEmpty
    <3>3. << text[1] >> \in Seq(Seq(Atom))
      BY <1>2, <1>5
    <3> QED
      BY <3>1, <3>2, <3>3, ConcatEmptySeq
  <2>2. ASSUME NEW i \in 1 .. Len(seqs)
        PROVE  E[i] = IF i = 1 THEN seqs[i] ELSE E[i - 1] \o seqs[i]
    <3>1. CASE i = 1
      BY <1>3, <2>1, <3>1
    <3>2. CASE i # 1
      <4>1. i - 1 \in 1 .. Len(seqs) /\ i \in 1 .. Len(text) /\ 1 \in 1 .. Len(text)
        BY <1>2, <1>3, <3>2
      <4>2. E[i - 1] = SubSeq(text, 1, i - 1) /\ E[i] = SubSeq(text, 1, i)
        BY <4>1
      <4>3. SubSeq(text, 1, i) = SubSeq(text, 1, i - 1) \o << text[i] >>
        BY <1>2, <4>1, SubSeqRecursiveSecond
      <4> QED
        BY <1>3, <3>2, <4>1, <4>2, <4>3
    <3> QED
      BY <3>1, <3>2
  <2>3. flatten = G(flatten)
    <3>1. E = G(E)
      BY <2>2
    <3> QED
      BY <3>1
  <2> HIDE DEF flatten
  <2>9. ASSUME NEW i \in 1 .. Len(seqs)
        PROVE  flatten[i] = IF i = 1 THEN seqs[i] ELSE flatten[i - 1] \o seqs[i]
    BY <2>3
  <2> DEFINE T == { n \in Nat : n + 1 <= Len(seqs) => flatten[n + 1] = E[n + 1] }
  <2>4. 0 \in T
    <3>1. 1 \in 1 .. Len(seqs)
      BY <1>2, <1>3, <1>5
    <3>2. flatten[1] = seqs[1]
      BY <2>3, <3>1
    <3>3. E[1] = seqs[1]
      BY <2>2, <3>1
    <3> QED
      BY <3>2, <3>3
  <2>5. ASSUME NEW n \in T
        PROVE  n + 1 \in T
    <3> SUFFICES ASSUME n + 1 + 1 <= Len(seqs)
                 PROVE  flatten[n + 1 + 1] = E[n + 1 + 1]
      OBVIOUS
    <3>1. /\ n + 1 + 1 \in 1 .. Len(seqs) /\ n + 1 \in 1 .. Len(seqs)
          /\ n + 1 + 1 # 1 /\ n + 1 + 1 - 1 = n + 1
      BY <1>2, <1>3
    <3>2. flatten[n + 1] = E[n + 1]
      BY <3>1
    <3> HIDE DEF E
    <3>3. PICK k \in 1 .. Len(seqs) : k = n + 1 + 1
      BY <3>1
    <3>4. k # 1 /\ k - 1 = n + 1
      BY <3>1, <3>3
    <3>5. flatten[k] = flatten[k - 1] \o seqs[k]
      BY <2>9, <3>4
    <3>6. E[k] = E[k - 1] \o seqs[k]
      BY <2>2, <3>4
    <3> QED
      BY <3>2, <3>3, <3>4, <3>5, <3>6, Zenon
  <2>6. T = Nat
    <3>1. T \in SUBSET Nat
      OBVIOUS
    <3> QED
      BY <2>4, <2>5, <3>1, Induction
  <2>7. flatten[Len(seqs)] = E[Len(seqs)]
    <3>1. /\ Len(seqs) - 1 \in Nat /\ Len(seqs) - 1 + 1 = Len(seqs)
          /\ Len(seqs) - 1 + 1 <= Len(seqs)
      BY <1>2, <1>3, <1>5
    <3>2. Len(seqs) - 1 \in T
      BY <2>6, <3>1, Zenon
    <3> HIDE DEF E
    <3> QED
      BY <3>1, <3>2
  <2>8. E[Len(seqs)] = text
    <3>1. E[Len(seqs)] = SubSeq(text, 1, Len(text))
      BY <1>2, <1>3, <1>5
    <3> QED
      BY <1>2, <3>1, SubSeqFull
  <2> QED
    BY <1>1, <1>3, <1>5, <2>7, <2>8, Zenon DEF seqs
<1> QED
  BY <1>4, <1>5

\* Loading a file and saving the document writes the file as it was.
THEOREM SavedAsLoaded ==
  ASSUME NEW text \in Text
  PROVE  Written(Parse(text)) = text
<1>1. /\ Len(Parse(text)) = Len(text)
      /\ \A i \in 1 .. Len(text) : RowText(Parse(text)[i]) = << text[i] >>
  BY ParsedText, TextLines, RowTextOfCells
<1>2. [i \in 1 .. Len(Parse(text)) |-> RowText(Parse(text)[i])]
        = [i \in 1 .. Len(text) |-> << text[i] >>]
  BY <1>1
<1> QED
  BY <1>2, LinesFlattened, Zenon DEF Written

\* A file of K columns.
Columns(K) == { text \in Text : \A i \in 1 .. Len(text) : Len(text[i]) = K }

\* A line whose first four atoms are new.
NewLine(line, new) ==
  [j \in 1 .. Len(line) |-> IF j <= 4 THEN new[j] ELSE line[j]]

LEMMA NewLineProperties ==
  ASSUME NEW line \in Seq(Atom), Len(line) >= 4, NEW new \in Seq(Atom), Len(new) = 4
  PROVE  /\ NewLine(line, new) \in Seq(Atom) \ {<< >>}
         /\ Len(NewLine(line, new)) = Len(line)
         /\ \A j \in 1 .. Len(line) :
              NewLine(line, new)[j] = IF j <= 4 THEN new[j] ELSE line[j]
<1>1. /\ Len(line) \in Nat /\ \A j \in 1 .. Len(line) : line[j] \in Atom
      /\ \A j \in 1 .. 4 : new[j] \in Atom
  BY LenProperties, ElementOfSeq
<1>2. NewLine(line, new) \in [1 .. Len(line) -> Atom]
  BY <1>1 DEF NewLine
<1>3. NewLine(line, new) \in Seq(Atom) /\ DOMAIN NewLine(line, new) = 1 .. Len(line)
  BY <1>1, <1>2, SeqDef
<1>4. /\ DOMAIN NewLine(line, new) = 1 .. Len(NewLine(line, new))
      /\ Len(NewLine(line, new)) \in Nat
  BY <1>3, LenProperties
<1>5. Len(NewLine(line, new)) = Len(line)
  BY <1>1, <1>3, <1>4
<1>6. NewLine(line, new) # << >>
  BY <1>1, <1>5, EmptySeq
<1> QED
  BY <1>3, <1>5, <1>6, Zenon DEF NewLine

\* SetRow, on the document of such a file and with a row of four plain cells,
\* replaces the first four atoms of one line.
LEMMA RowReplaced ==
  ASSUME NEW K \in Nat, K >= 4, NEW text \in Columns(K), NEW i \in 1 .. Len(text),
         NEW new \in Seq(Atom), Len(new) = 4
  PROVE  LET after == [text EXCEPT ![i] = NewLine(text[i], new)]
         IN  /\ after \in Columns(K) /\ Len(after) = Len(text)
             /\ \A k \in 1 .. Len(text) :
                  after[k] = IF k = i THEN NewLine(text[i], new) ELSE text[k]
             /\ SetRow(Parse(text), i, Cells(new)) = Parse(after)
             /\ ~ SetRowThrows(Parse(text), i, Cells(new))
<1> DEFINE line == NewLine(text[i], new)
           after == [text EXCEPT ![i] = line]
           table == Parse(text)
<1>1. /\ text \in Text /\ Len(text) \in Nat
      /\ \A k \in 1 .. Len(text) : text[k] \in Seq(Atom) /\ Len(text[k]) = K
  BY TextLines DEF Columns
<1>2. line \in Seq(Atom) \ {<< >>} /\ Len(line) = K
  BY <1>1, NewLineProperties
<1>3. \A j \in 1 .. K : line[j] = IF j <= 4 THEN new[j] ELSE text[i][j]
  <2>1. text[i] \in Seq(Atom) /\ Len(text[i]) = K /\ Len(text[i]) >= 4
    BY <1>1
  <2>2. \A j \in 1 .. Len(text[i]) :
          NewLine(text[i], new)[j] = IF j <= 4 THEN new[j] ELSE text[i][j]
    BY <2>1, NewLineProperties, Zenon
  <2> QED
    BY <2>1, <2>2
<1> HIDE DEF line
<1>4. /\ after \in Text /\ Len(after) = Len(text)
      /\ \A k \in 1 .. Len(text) : after[k] = IF k = i THEN line ELSE text[k]
  BY <1>1, <1>2, ExceptSeq DEF Text
<1>5. after \in Columns(K)
  BY <1>1, <1>2, <1>4 DEF Columns
<1>6. /\ table \in Seq(Seq(Seq(Seq(Atom)))) /\ Len(table) = Len(text)
      /\ \A k \in 1 .. Len(text) : table[k] = Cells(text[k])
  BY <1>1, ParsedText
<1>7. /\ Parse(after) \in Seq(Seq(Seq(Seq(Atom)))) /\ Len(Parse(after)) = Len(text)
      /\ \A k \in 1 .. Len(text) :
           Parse(after)[k] = IF k = i THEN Cells(line) ELSE Cells(text[k])
  <2>1. /\ Parse(after) \in Seq(Seq(Seq(Seq(Atom))))
        /\ Len(Parse(after)) = Len(after)
        /\ \A k \in 1 .. Len(after) : Parse(after)[k] = Cells(after[k])
    BY <1>4, ParsedText, Zenon
  <2> QED
    BY <1>4, <2>1
<1> HIDE DEF after, table
<1>8. /\ Len(Cells(new)) = 4 /\ \A j \in 1 .. 4 : Cells(new)[j] = Str(new[j])
  BY CellsProperties
<1>9. MakeRoom(table, i, 4) = table
  <2>1. ColumnCount(table) = K
    <3>1. table # << >> /\ 1 \in 1 .. Len(text)
      BY <1>1, <1>6, EmptySeq
    <3>2. Len(table[1]) = K
      BY <1>1, <1>6, <3>1, CellsProperties
    <3> QED
      BY <3>1, <3>2 DEF ColumnCount
  <2>2. i <= Len(table) /\ ~ (4 > K)
    BY <1>1, <1>6
  <2> QED
    BY <2>1, <2>2 DEF MakeRoom
<1>10. table[i] = Cells(text[i]) /\ Len(table[i]) = K
  BY <1>1, <1>6, CellsProperties
<1>11. [j \in 1 .. Len(table[i]) |-> IF j <= 4 THEN Cells(new)[j] ELSE table[i][j]]
         = Cells(line)
  <2>1. Cells(line) = [j \in 1 .. K |-> Str(line[j])]
    BY <1>2, Zenon DEF Cells
  <2>2. ASSUME NEW j \in 1 .. K
        PROVE  (IF j <= 4 THEN Cells(new)[j] ELSE table[i][j]) = Str(line[j])
    <3>1. table[i][j] = Str(text[i][j])
      BY <1>1, <1>10, CellsProperties
    <3> QED
      BY <1>3, <1>8, <3>1
  <2> QED
    BY <1>10, <2>1, <2>2
<1>12. SetRow(table, i, Cells(new)) = [table EXCEPT ![i] = Cells(line)]
  BY <1>8, <1>9, <1>11 DEF SetRow
<1>13. Cells(line) \in Seq(Seq(Seq(Atom)))
  BY <1>2, CellsProperties
<1>14. [table EXCEPT ![i] = Cells(line)] = Parse(after)
  <2> DEFINE d == [table EXCEPT ![i] = Cells(line)]
  <2>1. i \in 1 .. Len(table)
    BY <1>6
  <2>2. /\ d \in Seq(Seq(Seq(Seq(Atom)))) /\ Len(d) = Len(table)
        /\ \A k \in 1 .. Len(table) : d[k] = IF k = i THEN Cells(line) ELSE table[k]
    BY <1>6, <1>13, <2>1, ExceptSeq
  <2> HIDE DEF d
  <2>3. \A k \in 1 .. Len(d) : d[k] = Parse(after)[k]
    BY <1>6, <1>7, <2>2
  <2>4. Len(d) = Len(Parse(after))
    BY <1>6, <1>7, <2>2
  <2>5. d = Parse(after)
    BY <1>7, <2>2, <2>3, <2>4, SeqEqual, ZenonT(40)
  <2> QED
    BY <2>5 DEF d
<1>15. ~ SetRowThrows(table, i, Cells(new))
  BY <1>8, <1>9, <1>10 DEF SetRowThrows
<1> QED
  BY <1>4, <1>5, <1>12, <1>14, <1>15 DEF after, table, line

\* Texts of one line and one atom: no comma, no line break.
PlainUpdate(r) == \E atom \in Atom : r.text = Str(atom)

PlainRequests == \A r \in Request : PlainUpdate(r)

NewAtoms(r) == << r.hash, r.val1, r.val2, r.text[1][1] >>

LEMMA NewRowCells ==
  ASSUME NEW r \in Request, PlainUpdate(r)
  PROVE  /\ NewAtoms(r) \in Seq(Atom) /\ Len(NewAtoms(r)) = 4
         /\ NewAtoms(r)[1] = r.hash
         /\ NewRow(r) = Cells(NewAtoms(r))
<1>1. /\ r.hash \in Atom /\ r.val1 \in Atom /\ r.val2 \in Atom
  BY FileAssumption, AtomAssumption
<1>2. PICK atom \in Atom : r.text = Str(atom)
  BY DEF PlainUpdate
<1>3. r.text[1][1] = atom
  BY <1>2, StrIsSeq
<1>4. NewAtoms(r) \in Seq(Atom) /\ Len(NewAtoms(r)) = 4 /\ NewAtoms(r)[1] = r.hash
  BY <1>1, <1>3 DEF NewAtoms
<1>5. NewRow(r) = Cells(NewAtoms(r))
  BY <1>2, <1>3, <1>4 DEF NewRow, Cells, NewAtoms
<1> QED
  BY <1>4, <1>5

\* The document holds the row of r.
Holds(table, r) ==
  \E i \in HashRow(table, r.hash) : SubSeq(table[i], 1, 4) = NewRow(r)

Table(K) == { Parse(text) : text \in Columns(K) }

\* The row of a hash is the first line that begins with it.
LEMMA HashLine ==
  ASSUME NEW K \in Nat, K >= 4, NEW text \in Columns(K), NEW hash \in Atom
  PROVE  HashRow(Parse(text), hash)
           = { i \in 1 .. Len(text) : /\ text[i][1] = hash
                                     /\ \A k \in 1 .. i - 1 : text[k][1] # hash }
<1>1. /\ Len(text) \in Nat /\ Len(Parse(text)) = Len(text)
      /\ \A k \in 1 .. Len(text) : Parse(text)[k] = Cells(text[k])
      /\ \A k \in 1 .. Len(text) : text[k] \in Seq(Atom) /\ Len(text[k]) = K
  BY ParsedText, TextLines DEF Columns
<1>2. ASSUME NEW k \in 1 .. Len(text)
      PROVE  Parse(text)[k][1] = Str(hash) <=> text[k][1] = hash
  <2>1. 1 \in 1 .. Len(text[k]) /\ text[k] \in Seq(Atom)
    BY <1>1
  <2>2. Parse(text)[k][1] = Str(text[k][1])
    BY <1>1, <2>1, CellsProperties
  <2> QED
    BY <2>2 DEF Str
<1>3. \A i \in 1 .. Len(text) : \A k \in 1 .. i - 1 : k \in 1 .. Len(text)
  BY <1>1
<1> QED
  BY <1>1, <1>2, <1>3 DEF HashRow

\* What the update of a row leaves.
LEMMA RowSaved ==
  ASSUME NEW K \in Nat, K >= 4, NEW table \in Table(K),
         NEW r \in Request, PlainUpdate(r), NEW i \in HashRow(table, r.hash)
  PROVE  /\ SetRow(table, i, NewRow(r)) \in Table(K)
         /\ Holds(SetRow(table, i, NewRow(r)), r)
         /\ ~ SetRowThrows(table, i, NewRow(r))
<1>1. PICK text \in Columns(K) : table = Parse(text)
  BY DEF Table
<1> DEFINE new == NewAtoms(r)
           after == [text EXCEPT ![i] = NewLine(text[i], new)]
<1>2. new \in Seq(Atom) /\ Len(new) = 4 /\ new[1] = r.hash /\ NewRow(r) = Cells(new)
  BY NewRowCells
<1> HIDE DEF new
<1>3. r.hash \in Atom
  BY FileAssumption
<1>4. /\ i \in 1 .. Len(text) /\ text[i][1] = r.hash
      /\ \A k \in 1 .. i - 1 : text[k][1] # r.hash
  BY <1>1, <1>3, HashLine
<1>5. /\ after \in Columns(K) /\ Len(after) = Len(text)
      /\ \A k \in 1 .. Len(text) :
           after[k] = IF k = i THEN NewLine(text[i], new) ELSE text[k]
      /\ SetRow(Parse(text), i, Cells(new)) = Parse(after)
      /\ ~ SetRowThrows(Parse(text), i, Cells(new))
  BY <1>2, <1>4, RowReplaced
<1> HIDE DEF after
<1>6. /\ Len(text) \in Nat /\ text[i] \in Seq(Atom) /\ Len(text[i]) = K
  BY <1>4, TextLines DEF Columns
<1>7. /\ NewLine(text[i], new) \in Seq(Atom) /\ Len(NewLine(text[i], new)) = K
      /\ \A j \in 1 .. K : NewLine(text[i], new)[j]
                             = IF j <= 4 THEN new[j] ELSE text[i][j]
  <2>1. Len(text[i]) >= 4
    BY <1>6
  <2>2. /\ NewLine(text[i], new) \in Seq(Atom) \ {<< >>}
        /\ Len(NewLine(text[i], new)) = Len(text[i])
        /\ \A j \in 1 .. Len(text[i]) : NewLine(text[i], new)[j]
                             = IF j <= 4 THEN new[j] ELSE text[i][j]
    BY <1>2, <1>6, <2>1, NewLineProperties, Zenon
  <2> QED
    BY <1>6, <2>2
<1>8. i \in HashRow(Parse(after), r.hash)
  <2>1. after[i][1] = r.hash
    BY <1>2, <1>4, <1>5, <1>7
  <2>2. \A k \in 1 .. i - 1 : after[k][1] # r.hash
    BY <1>4, <1>5, <1>6
  <2>3. HashRow(Parse(after), r.hash)
          = { k \in 1 .. Len(after) : /\ after[k][1] = r.hash
                                     /\ \A j \in 1 .. k - 1 : after[j][1] # r.hash }
    BY <1>3, <1>5, HashLine
  <2> QED
    BY <1>4, <1>5, <2>1, <2>2, <2>3
<1>9. SubSeq(Parse(after)[i], 1, 4) = NewRow(r)
  <2> DEFINE line == NewLine(text[i], new)
             row == Cells(line)
             first == SubSeq(row, 1, 4)
  <2>1. Parse(after)[i] = row
    BY <1>4, <1>5, ParsedText DEF Columns
  <2>2. /\ row \in Seq(Seq(Seq(Atom))) /\ Len(row) = K
        /\ \A j \in 1 .. K : row[j] = Str(line[j])
    BY <1>7, CellsProperties
  <2>3. /\ Cells(new) \in Seq(Seq(Seq(Atom))) /\ Len(Cells(new)) = 4
        /\ \A j \in 1 .. 4 : Cells(new)[j] = Str(new[j])
    BY <1>2, CellsProperties
  <2>4. \A j \in 1 .. 4 : row[j] = Cells(new)[j]
    BY <1>7, <2>2, <2>3
  <2> HIDE DEF row, line
  <2>5. \A j \in 1 .. 4 : row[j] \in Seq(Seq(Atom))
    BY <2>2, ElementOfSeq
  <2>6. /\ first \in Seq(Seq(Seq(Atom))) /\ Len(first) = 4
        /\ \A j \in 1 .. 4 : first[j] = row[j]
    <3>1. /\ first \in Seq(Seq(Seq(Atom)))
          /\ Len(first) = IF 1 <= 4 THEN 4 - 1 + 1 ELSE 0
          /\ \A j \in 1 .. 4 - 1 + 1 : first[j] = row[1 + j - 1]
      BY <2>5, SubSeqProperties
    <3> HIDE DEF first
    <3> QED
      BY <3>1
  <2> HIDE DEF first
  <2>7. \A j \in 1 .. Len(first) : first[j] = Cells(new)[j]
    BY <2>4, <2>6
  <2>8. first = Cells(new)
    BY <2>3, <2>6, <2>7, SeqEqual
  <2> QED
    BY <1>2, <2>1, <2>8 DEF first
<1> QED
  BY <1>1, <1>2, <1>5, <1>8, <1>9 DEF Table, Holds

LEMMA EmptyTable ==
  ASSUME NEW K \in Nat
  PROVE  << >> \in Columns(K) /\ << >> \in Table(K)
<1>1. << >> \in Columns(K)
  BY EmptySeq DEF Columns, Text
<1>2. Parse(<< >>) = << >>
  <2>1. Parse(<< >>) \in Seq(Seq(Seq(Seq(Atom)))) /\ Len(Parse(<< >>)) = 0
    BY <1>1, ParsedText, EmptySeq DEF Columns
  <2> QED
    BY <2>1, EmptySeq
<1> QED
  BY <1>1, <1>2 DEF Table

\* What a save that breaks off leaves.
LEMMA PartOfText ==
  ASSUME NEW K \in Nat, NEW text \in Columns(K), NEW n \in 1 .. Len(text) - 1
  PROVE  SubSeq(text, 1, n) \in Columns(K)
<1>1. /\ Len(text) \in Nat
      /\ \A i \in 1 .. Len(text) : text[i] \in Seq(Atom) \ {<< >>} /\ Len(text[i]) = K
  BY LenProperties, ElementOfSeq DEF Columns, Text
<1>2. /\ n \in Int /\ n >= 1 /\ \A i \in 1 .. n : i \in 1 .. Len(text)
  BY <1>1
<1>3. \A i \in 1 .. n : text[i] \in Seq(Atom) \ {<< >>}
  BY <1>1, <1>2
<1>4. /\ SubSeq(text, 1, n) \in Text
      /\ Len(SubSeq(text, 1, n)) = IF 1 <= n THEN n - 1 + 1 ELSE 0
      /\ \A i \in 1 .. n - 1 + 1 : SubSeq(text, 1, n)[i] = text[1 + i - 1]
  BY <1>2, <1>3, SubSeqProperties DEF Text
<1>5. Len(SubSeq(text, 1, n)) = n /\ \A i \in 1 .. n : SubSeq(text, 1, n)[i] = text[i]
  BY <1>2, <1>4
<1> QED
  BY <1>1, <1>2, <1>4, <1>5 DEF Columns

-----------------------------------------------------------------------------
(* The row is in what an update writes.                                    *)

\* All texts of the .locpack file have K columns.
PlainWorld(K) ==
  /\ K \in Nat /\ K >= 4
  /\ InitText \in Columns(K) /\ Version \subseteq Columns(K)
  /\ PlainRequests

PlainFile(K) == content \in Columns(K) /\ doc \in Table(K)

PlainHeld(K) == \A t \in Thread : held[t] \in Table(K)

SaveStarted(t) ==
  /\ phase # "up" => op[t].pc = "idle"
  /\ op[t].pc # "done" => ~ op[t].ok
  /\ op[t].pc # "idle" /\ op[t].kind = "update" => op[t].req \in Request

\* What a call that updates knows of the document, and of the file when no
\* other program writes it.
SaveDoc(t) ==
  /\ op[t].pc = "assign" /\ Version = {} => held[t] = Parse(content)
  /\ op[t].pc = "set" => op[t].row \in HashRow(doc, op[t].req.hash)
  /\ op[t].pc \in {"open", "write"} => Holds(doc, op[t].req)

SaveDone(t) ==
  op[t].pc = "done" /\ op[t].ok /\ op[t].kind = "update"
    => /\ Holds(Parse(answer[t]), op[t].req)
       /\ Version = {} /\ "write" \notin Fault => content = answer[t]

SaveInv(t) == SaveStarted(t) /\ CallKind(t) /\ SaveDoc(t) /\ SaveDone(t)

LEMMA PlainFileStep ==
  ASSUME NEW K, PlainWorld(K), OneThread, PlainFile(K), PlainHeld(K),
         CallsOK, LocalsOK,
         \A t \in Thread : SaveInv(t), [Next]_csvVars
  PROVE  PlainFile(K)'
<1> USE DEF fileVars, docVars, auxVars
<1>0. K \in Nat /\ K >= 4 /\ content \in Columns(K) /\ doc \in Table(K)
  BY DEF PlainWorld, PlainFile
<1>1. CASE Environment
  BY <1>0, <1>1 DEF Environment, Edit, Delete, FileBecomes, PlainWorld, PlainFile
<1>2. CASE StartRead
  BY <1>0, <1>2 DEF StartRead, PlainFile, Table
<1>3. CASE StartStat \/ StartFails \/ Crash
  BY <1>0, <1>3, Zenon DEF StartStat, StartFails, Crash, Stop, PlainFile
<1>4. ASSUME NEW t \in Thread,
             \/ \E r \in Request : CallUpdate(t, r)
             \/ \E n \in Amount : CallRange(t, n)
             \/ CallWhole(t)
             \/ Finish(t)
      PROVE  PlainFile(K)'
  BY <1>0, <1>4, Zenon DEF CallUpdate, CallRange, CallWhole, Call, Finish, PlainFile
<1>5. ASSUME NEW t \in Thread, Step(t)
      PROVE  PlainFile(K)'
  <2>0. SaveInv(t)
    OBVIOUS
  <2>1. CASE \/ StatMissing(t) \/ StatExists(t) \/ TimeFails(t)
             \/ StatCurrent(t) \/ StatNewer(t) \/ ReadFile(t) \/ RereadFails(t)
             \/ NoteTime(t) \/ Find(t) \/ FindFails(t) \/ OpenFails(t)
    BY <1>0, <2>1, Zenon DEF StatMissing, StatExists, TimeFails, StatCurrent,
       StatNewer, ReadFile, RereadFails, NoteTime, Find, FindFails, OpenFails,
       PlainFile
  <2>2. CASE ScanRange(t) \/ ScanWhole(t) \/ ScanShortRow(t)
    BY <1>0, <2>2, Zenon DEF ScanRange, ScanWhole, ScanShortRow, Stop, PlainFile
  <2>3. CASE ReplaceDoc(t)
    BY <1>0, <2>3, Zenon DEF ReplaceDoc, PlainFile, PlainHeld
  <2>4. CASE SetDoc(t)
    <3>1. op[t].pc = "set"
      BY <2>4, Zenon DEF SetDoc, At
    <3>2. op[t].kind = "update" /\ op[t].row \in HashRow(doc, op[t].req.hash)
      BY <2>0, <3>1 DEF SaveInv, SaveDoc, CallKind
    <3>3. op[t].req \in Request /\ PlainUpdate(op[t].req)
      BY <2>0, <3>1, <3>2 DEF SaveInv, SaveStarted, PlainWorld, PlainRequests
    <3>4. SetRow(doc, op[t].row, NewRow(op[t].req)) \in Table(K)
      BY <1>0, <3>2, <3>3, RowSaved, Zenon
    <3> QED
      BY <1>0, <2>4, <3>4, Zenon DEF SetDoc, PlainFile
  <2>5. CASE OpenSave(t)
    BY <1>0, <2>5, EmptyTable DEF OpenSave, FileBecomes, PlainFile
  <2>6. CASE WriteSave(t) \/ WriteFails(t)
    <3>1. PICK text \in Columns(K) : doc = Parse(text)
      BY <1>0 DEF Table
    <3>2. Written(doc) = text
      BY <3>1, SavedAsLoaded DEF Columns
    <3>3. doc' = doc /\ (\/ content' = content \/ content' = Written(doc)
             \/ \E n \in 1 .. Len(Written(doc)) - 1 :
                  content' = SubSeq(Written(doc), 1, n))
      BY <2>6, OwnSave, OwnFailure, Zenon DEF FileBecomes
    <3> QED
      BY <1>0, <3>2, <3>3, PartOfText DEF PlainFile
  <2> QED
    BY <1>5, <2>1, <2>2, <2>3, <2>4, <2>5, <2>6, Zenon DEF Step
<1>6. CASE UNCHANGED csvVars
  BY <1>0, <1>6, Zenon DEF csvVars, PlainFile
<1> QED
  BY <1>1, <1>2, <1>3, <1>4, <1>5, <1>6, NextCases, Zenon

LEMMA PlainHeldStep ==
  ASSUME NEW K, PlainWorld(K), OneThread, PlainFile(K), PlainHeld(K),
         LocalsOK, [Next]_csvVars
  PROVE  PlainHeld(K)'
<1> USE DEF fileVars, docVars, auxVars
<1>0. /\ content \in Columns(K) /\ << >> \in Table(K) /\ DOMAIN held = Thread
      /\ Parse(content) \in Table(K)
  BY EmptyTable DEF PlainWorld, PlainFile, Table, LocalsOK
<1>1. CASE UNCHANGED held
  BY <1>1, Zenon DEF PlainHeld
<1>2. CASE held' = [u \in Thread |-> << >>]
  BY <1>0, <1>2 DEF PlainHeld
<1>3. ASSUME NEW t \in Thread, NEW rows \in Table(K),
             held' = [held EXCEPT ![t] = rows]
      PROVE  PlainHeld(K)'
  BY <1>0, <1>3 DEF PlainHeld
<1>4. CASE \/ Environment \/ StartRead \/ StartStat \/ StartFails \/ Crash
           \/ UNCHANGED csvVars
  BY <1>1, <1>2, <1>4, Zenon DEF Environment, Edit, Delete, StartRead, StartStat,
     StartFails, Crash, Stop, csvVars
<1>5. ASSUME NEW t \in Thread,
             \/ \E r \in Request : CallUpdate(t, r)
             \/ \E n \in Amount : CallRange(t, n)
             \/ CallWhole(t) \/ Finish(t)
      PROVE  PlainHeld(K)'
  BY <1>1, <1>5, Zenon DEF CallUpdate, CallRange, CallWhole, Call, Finish
<1>6. ASSUME NEW t \in Thread, Step(t)
      PROVE  PlainHeld(K)'
  <2>1. CASE \/ StatMissing(t) \/ StatExists(t) \/ TimeFails(t)
             \/ StatCurrent(t) \/ StatNewer(t) \/ RereadFails(t) \/ NoteTime(t)
             \/ Find(t) \/ FindFails(t) \/ SetDoc(t)
             \/ OpenSave(t) \/ OpenFails(t)
    BY <1>1, <2>1, Zenon DEF StatMissing, StatExists, TimeFails, StatCurrent,
       StatNewer, RereadFails, NoteTime, Find, FindFails, SetDoc, OpenSave,
       OpenFails
  <2>2. CASE ReadFile(t)
    BY <1>0, <1>3, <2>2, Zenon DEF ReadFile
  <2>3. CASE ReplaceDoc(t)
    <3>1. held' = [u \in Thread |-> << >>]
      BY <2>3 DEF ReplaceDoc, OneThread
    <3> QED
      BY <1>2, <3>1
  <2>4. CASE ScanRange(t) \/ ScanWhole(t) \/ ScanShortRow(t)
    BY <1>1, <1>2, <2>4, Zenon DEF ScanRange, ScanWhole, ScanShortRow, Stop
  <2>5. CASE WriteSave(t) \/ WriteFails(t)
    BY <1>0, <1>2, <1>3, <2>5, Zenon DEF WriteSave, WriteFails, Fill, GoAstray,
       LetGo, Stop
  <2> QED
    BY <1>6, <2>1, <2>2, <2>3, <2>4, <2>5, Zenon DEF Step
<1> QED
  BY <1>4, <1>5, <1>6, NextCases, Zenon

LEMMA IdleSave ==
  ASSUME NEW t \in Thread, op'[t] = Idle
  PROVE  SaveInv(t)'
BY DEF Idle, SaveInv, SaveStarted, CallKind, SaveDoc, SaveDone

LEMMA FailedSave ==
  ASSUME CallsOK, NEW t \in Thread, Throw(t), SaveInv(t), op[t].pc # "idle",
         phase' = "up"
  PROVE  SaveInv(t)'
<1>1. /\ op'[t].pc = "done" /\ ~ op'[t].ok /\ op'[t].kind = op[t].kind
      /\ op'[t].req = op[t].req
  BY DEF Throw, Return, Become, CallsOK, CallRecord
<1> QED
  BY <1>1 DEF SaveInv, SaveStarted, CallKind, SaveDoc, SaveDone

\* One statement of the call.
LEMMA SaveOfStep ==
  ASSUME NEW K, PlainWorld(K), PlainFile(K), CallsOK, LocalsOK,
         NEW t \in Thread, SaveInv(t), Step(t)
  PROVE  SaveInv(t)'
<1> USE DEF fileVars, docVars, auxVars
<1>0. /\ K \in Nat /\ K >= 4 /\ content \in Columns(K) /\ doc \in Table(K)
      /\ op[t] \in CallRecord /\ SaveStarted(t) /\ CallKind(t)
      /\ SaveDoc(t) /\ SaveDone(t)
  BY DEF PlainWorld, PlainFile, CallsOK, SaveInv
<1>1. ASSUME NEW pc, pc # "idle", At(t, pc), UNCHANGED phase, Throw(t)
      PROVE  SaveInv(t)'
  BY <1>1, FailedSave, Zenon DEF At
<1>2. CASE StatMissing(t)
  <2>1. CASE Throw(t)
    BY <1>1, <1>2, <2>1, Zenon DEF StatMissing
  <2>2. CASE Become(t, [op[t] EXCEPT !.pass = 2])
    <3>1. /\ op'[t].pc = "stat" /\ op'[t].ok = op[t].ok /\ op[t].pc = "stat"
          /\ op'[t].kind = op[t].kind /\ op'[t].req = op[t].req
      BY <1>0, <1>2, <2>2 DEF StatMissing, At, Become, CallsOK, CallRecord
    <3>2. UNCHANGED phase
      BY <1>2, Zenon DEF StatMissing
    <3> QED
      BY <1>0, <3>1, <3>2 DEF SaveInv, SaveStarted, CallKind, SaveDoc, SaveDone
  <2> QED
    BY <1>2, <2>1, <2>2, Zenon DEF StatMissing
<1>3. CASE StatCurrent(t) \/ NoteTime(t)
  <2>1. /\ Become(t, AfterRefresh(t)) /\ op[t].pc \in {"time", "note"}
        /\ phase' = "up"
    BY <1>3 DEF StatCurrent, NoteTime, At
  <2>2. /\ op'[t].pc = IF op[t].kind # "update" THEN "scan"
                       ELSE IF op[t].pass = 1 THEN "stat" ELSE "find"
        /\ op'[t].ok = op[t].ok /\ op'[t].kind = op[t].kind
        /\ op'[t].req = op[t].req
    BY <1>0, <2>1 DEF Become, AfterRefresh, CallsOK, CallRecord
  <2> QED
    BY <1>0, <2>1, <2>2 DEF SaveInv, SaveStarted, CallKind, SaveDoc, SaveDone
<1>4. CASE StatNewer(t)
  <2>1. Become(t, [op[t] EXCEPT !.pc = "read", !.statTime = mtime])
    BY <1>4, Zenon DEF StatNewer
  <2>2. /\ op'[t].pc = "read" /\ op'[t].ok = op[t].ok /\ op[t].pc = "time"
        /\ op'[t].kind = op[t].kind /\ op'[t].req = op[t].req /\ phase' = "up"
    BY <1>0, <1>4, <2>1 DEF StatNewer, At, Become, CallsOK, CallRecord
  <2> QED
    BY <1>0, <2>2 DEF SaveInv, SaveStarted, CallKind, SaveDoc, SaveDone
<1>12. CASE StatExists(t) \/ ReplaceDoc(t)
  <2>1. PICK pc \in {"time", "note"} :
          /\ Become(t, [op[t] EXCEPT !.pc = pc])
          /\ op[t].pc \in {"stat", "assign"} /\ phase' = "up"
    BY <1>12, Zenon DEF StatExists, ReplaceDoc, At, Goto
  <2>2. /\ op'[t].pc = pc /\ op'[t].ok = op[t].ok
        /\ op'[t].kind = op[t].kind /\ op'[t].req = op[t].req
    BY <1>0, <2>1 DEF Become, CallsOK, CallRecord
  <2> QED
    BY <1>0, <2>1, <2>2 DEF SaveInv, SaveStarted, CallKind, SaveDoc, SaveDone
<1>13. CASE ReadFile(t)
  <2>1. /\ Become(t, [op[t] EXCEPT !.pc = "assign"]) /\ op[t].pc = "read"
        /\ phase' = "up" /\ held'[t] = Parse(content) /\ content' = content
    BY <1>13 DEF ReadFile, At, Goto, LocalsOK
  <2>2. /\ op'[t].pc = "assign" /\ op'[t].ok = op[t].ok
        /\ op'[t].kind = op[t].kind /\ op'[t].req = op[t].req
    BY <1>0, <2>1 DEF Become, CallsOK, CallRecord
  <2> QED
    BY <1>0, <2>1, <2>2 DEF SaveInv, SaveStarted, CallKind, SaveDoc, SaveDone
<1>5. CASE TimeFails(t) \/ RereadFails(t) \/ FindFails(t) \/ OpenFails(t)
  BY <1>1, <1>5, Zenon DEF TimeFails, RereadFails, FindFails, OpenFails
<1>6. CASE ScanRange(t) \/ ScanWhole(t)
  <2>1. CASE Throw(t)
    BY <1>1, <1>6, <2>1, Zenon DEF ScanRange, ScanWhole
  <2>2. CASE Result(t, RangeLines(doc), unsaved)
    <3>1. /\ op'[t].pc = "done" /\ op[t].pc = "scan" /\ phase' = "up"
          /\ op'[t].kind = op[t].kind /\ op'[t].req = op[t].req
      BY <1>0, <1>6, <2>2 DEF Result, Become, ScanRange, ScanWhole, At,
         CallsOK, CallRecord
    <3> QED
      BY <1>0, <3>1 DEF SaveInv, SaveStarted, CallKind, SaveDoc, SaveDone
  <2> QED
    BY <1>6, <2>1, <2>2, Zenon DEF ScanRange, ScanWhole
<1>7. CASE ScanShortRow(t)
  <2>1. CASE Stop
    BY <2>1, IdleSave DEF Stop
  <2>2. ASSUME NEW out, Result(t, out, TRUE), UNCHANGED phase, At(t, "scan")
        PROVE  SaveInv(t)'
    <3>1. /\ op'[t].pc = "done" /\ op[t].pc = "scan" /\ phase' = "up"
          /\ op'[t].kind = op[t].kind /\ op'[t].req = op[t].req
      BY <1>0, <2>2 DEF Result, Become, At, CallsOK, CallRecord
    <3> QED
      BY <1>0, <3>1 DEF SaveInv, SaveStarted, CallKind, SaveDoc, SaveDone
  <2> QED
    BY <1>1, <1>7, <2>1, <2>2, Zenon DEF ScanShortRow
<1>8. CASE Find(t)
  <2>1. PICK i \in HashRow(doc, op[t].req.hash) :
          Become(t, [op[t] EXCEPT !.pc = "set", !.row = i])
    BY <1>8, Zenon DEF Find
  <2>2. /\ op'[t].pc = "set" /\ op'[t].row = i /\ op'[t].ok = op[t].ok
        /\ op'[t].kind = op[t].kind /\ op'[t].req = op[t].req
        /\ op[t].pc = "find" /\ phase' = "up" /\ doc' = doc
    BY <1>0, <1>8, <2>1 DEF Find, At, Become, CallsOK, CallRecord
  <2> QED
    BY <1>0, <2>1, <2>2 DEF SaveInv, SaveStarted, CallKind, SaveDoc, SaveDone
<1>9. CASE SetDoc(t)
  <2>1. op[t].pc = "set" /\ phase' = "up"
    BY <1>9, Zenon DEF SetDoc, At
  <2>2. op[t].kind = "update" /\ op[t].row \in HashRow(doc, op[t].req.hash)
    BY <1>0, <2>1 DEF SaveDoc, CallKind
  <2>3. op[t].req \in Request /\ PlainUpdate(op[t].req)
    BY <1>0, <2>1, <2>2 DEF SaveStarted, PlainWorld, PlainRequests
  <2>4. Holds(doc', op[t].req)
        /\ ~ SetRowThrows(doc, op[t].row, NewRow(op[t].req))
    <3>1. doc' = SetRow(doc, op[t].row, NewRow(op[t].req))
      BY <1>9, Zenon DEF SetDoc
    <3> QED
      BY <1>0, <2>2, <2>3, <3>1, RowSaved, Zenon
  <2>5. Become(t, [op[t] EXCEPT !.pc = "open", !.tainted = unsaved])
    BY <1>9, <2>4, Zenon DEF SetDoc
  <2>6. /\ op'[t].pc = "open" /\ op'[t].ok = op[t].ok
        /\ op'[t].kind = op[t].kind /\ op'[t].req = op[t].req
    BY <1>0, <2>5 DEF Become, CallsOK, CallRecord
  <2>7. SaveDoc(t)'
    BY <2>4, <2>6 DEF SaveDoc
  <2> QED
    BY <1>0, <2>1, <2>2, <2>3, <2>6, <2>7
    DEF SaveInv, SaveStarted, CallKind, SaveDone
<1>10. CASE OpenSave(t)
  <2>1. Become(t, [op[t] EXCEPT !.pc = "write"])
    BY <1>10, Zenon DEF OpenSave, Goto
  <2>2. /\ op'[t].pc = "write" /\ op'[t].ok = op[t].ok
        /\ op'[t].kind = op[t].kind /\ op'[t].req = op[t].req
        /\ op[t].pc = "open" /\ phase' = "up" /\ doc' = doc
    BY <1>0, <1>10, <2>1 DEF OpenSave, At, Become, CallsOK, CallRecord
  <2> QED
    BY <1>0, <2>2 DEF SaveInv, SaveStarted, CallKind, SaveDoc, SaveDone
<1>11. CASE WriteSave(t) \/ WriteFails(t)
  <2>1. /\ \E ok \in BOOLEAN : Return(t, ok)
        /\ op[t].pc = "write" /\ phase' = "up" /\ doc' = doc
        /\ answer' = [answer EXCEPT ![t] = Written(doc)]
        /\ "write" \notin Fault => content' = Written(doc)
    BY <1>11, OwnSave, OwnFailure, Zenon DEF At, FileBecomes
  <2>2. /\ op'[t].pc = "done" /\ op'[t].kind = op[t].kind
        /\ op'[t].req = op[t].req /\ answer'[t] = Written(doc)
    BY <1>0, <2>1 DEF Return, Become, CallsOK, CallRecord, LocalsOK
  <2>3. PICK text \in Columns(K) : doc = Parse(text)
    BY <1>0 DEF Table
  <2>4. Parse(Written(doc)) = doc
    BY <2>3, SavedAsLoaded DEF Columns
  <2>5. Holds(doc, op[t].req)
    BY <1>0, <2>1 DEF SaveDoc
  <2>6. SaveDone(t)'
    BY <2>1, <2>2, <2>4, <2>5 DEF SaveDone
  <2> QED
    BY <1>0, <2>1, <2>2, <2>6 DEF SaveInv, SaveStarted, CallKind, SaveDoc
<1> QED
  BY <1>2, <1>3, <1>4, <1>5, <1>6, <1>7, <1>8, <1>9, <1>10, <1>11,
     <1>12, <1>13, Zenon DEF Step

LEMMA CallSave ==
  ASSUME CallsOK, NEW t \in Thread, NEW kind, NEW req, NEW amount,
         Call(t, kind, req, amount), kind = "update" => req \in Request
  PROVE  SaveInv(t)'
<1>1. /\ op'[t].pc = "stat" /\ ~ op'[t].ok /\ phase' = "up"
      /\ op'[t].kind = kind /\ op'[t].req = req
  BY DEF Call, At, Become, Idle, CallsOK
<1> QED
  BY <1>1 DEF SaveInv, SaveStarted, CallKind, SaveDoc, SaveDone

LEMMA SaveStep ==
  ASSUME NEW K, PlainWorld(K), OneThread, PlainFile(K), CallsOK, LocalsOK,
         \A t \in Thread : SaveInv(t), [Next]_csvVars, NEW t \in Thread
  PROVE  SaveInv(t)'
<1> USE DEF fileVars, docVars, auxVars
<1>0. SaveInv(t) /\ SaveStarted(t) /\ CallKind(t) /\ SaveDoc(t) /\ SaveDone(t)
  BY DEF SaveInv
<1>1. CASE Environment \/ UNCHANGED csvVars
  <2>1. /\ UNCHANGED << phase, doc, held, op, answer >>
        /\ content' = content \/ Version # {}
    BY <1>1, Zenon DEF Environment, Edit, Delete, csvVars
  <2> QED
    BY <1>0, <2>1 DEF SaveInv, SaveStarted, CallKind, SaveDoc, SaveDone
<1>2. CASE StartRead \/ StartStat
  <2>1. op[t].pc = "idle" /\ UNCHANGED op
    BY <1>0, <1>2 DEF StartRead, StartStat, SaveStarted
  <2> QED
    BY <1>0, <2>1 DEF SaveInv, SaveStarted, CallKind, SaveDoc, SaveDone
<1>3. CASE StartFails \/ Crash
  BY <1>3, IdleSave DEF StartFails, Crash, Stop
<1>4. ASSUME NEW kind, NEW req, NEW amount, Call(t, kind, req, amount),
             kind = "update" => req \in Request
      PROVE  SaveInv(t)'
  BY <1>4, CallSave
<1>5. CASE Step(t)
  BY <1>0, <1>5, SaveOfStep
<1>6. CASE Finish(t)
  <2>1. op'[t] = Idle
    BY <1>6 DEF Finish, Become, CallsOK
  <2> QED
    BY <2>1, IdleSave
<1>7. \A u \in Thread : u = t
  BY DEF OneThread
<1>8. "range" # "update" /\ "whole" # "update"
  OBVIOUS
<1> QED
  BY <1>1, <1>2, <1>3, <1>4, <1>5, <1>6, <1>7, <1>8, NextCases, Zenon
  DEF CallUpdate, CallRange, CallWhole

LEMMA SaveInit ==
  ASSUME NEW K, PlainWorld(K), Init
  PROVE  PlainFile(K) /\ PlainHeld(K) /\ \A t \in Thread : SaveInv(t)
<1>1. PlainFile(K) /\ PlainHeld(K)
  BY EmptyTable DEF Init, PlainFile, PlainHeld, PlainWorld
<1>2. \A t \in Thread : SaveInv(t)
  BY DEF Init, Idle, SaveInv, SaveStarted, CallKind, SaveDoc, SaveDone
<1> QED
  BY <1>1, <1>2

PlainInv(K) ==
  /\ TypeOK /\ LocalsOK /\ PlainFile(K) /\ PlainHeld(K)
  /\ \A t \in Thread : SaveInv(t)

LEMMA PlainStep ==
  ASSUME NEW K, PlainWorld(K), OneThread, PlainInv(K), [Next]_csvVars
  PROVE  PlainInv(K)'
<1>0. CallsOK /\ LocalsOK
  BY Zenon DEF PlainInv, TypeOK
<1>1. TypeOK' /\ LocalsOK'
  BY <1>0, FlagsStep, ClocksStep, CallsStep, LocalsStep, Zenon DEF PlainInv, TypeOK
<1>2. PlainFile(K)' /\ PlainHeld(K)'
  BY <1>0, PlainFileStep, PlainHeldStep, Zenon DEF PlainInv
<1>3. \A t \in Thread : SaveInv(t)'
  BY <1>0, SaveStep, Zenon DEF PlainInv
<1> QED
  BY <1>1, <1>2, <1>3, Zenon DEF PlainInv

LEMMA PlainInit ==
  ASSUME NEW K, PlainWorld(K), Init
  PROVE  PlainInv(K)
BY TypeInit, LocalsInit, SaveInit, Zenon DEF PlainInv

\* With one worker thread, and while no text holds a comma or a line break, an
\* update that returns has set out to write a file in which the row of its
\* hash begins with what it was called with, whatever the other programs put
\* into the file meanwhile, as long as it keeps its K columns: the reload of
\* refreshDocument, the row index and the document that is saved fit together.
THEOREM RowsAreSaved ==
  ASSUME NEW K, PlainWorld(K), OneThread
  PROVE  Spec => []ChangesSaved
<1>1. Init => PlainInv(K)
  BY PlainInit
<1>2. PlainInv(K) /\ [Next]_csvVars => PlainInv(K)'
  BY PlainStep
<1>3. PlainInv(K) => ChangesSaved
  <2> SUFFICES ASSUME PlainInv(K), NEW t \in Thread,
                      At(t, "done"), op[t].ok, op[t].kind = "update"
               PROVE  \E i \in HashRow(Parse(answer[t]), op[t].req.hash) :
                        SubSeq(Parse(answer[t])[i], 1, 4) = NewRow(op[t].req)
    BY Zenon DEF ChangesSaved
  <2>1. SaveDone(t) /\ op[t].pc = "done"
    BY Zenon DEF PlainInv, SaveInv, At
  <2>2. Holds(Parse(answer[t]), op[t].req)
    BY <2>1, Zenon DEF SaveDone
  <2> QED
    BY <2>2, Zenon DEF Holds
<1> QED
  BY <1>1, <1>2, <1>3, PTL DEF Spec

-----------------------------------------------------------------------------
(* For the server, which bounds its calls in its own way, and which may    *)
(* also die in the other store.                                            *)

\* A statement of a call is not its end, and not another call.
LEMMA SameCall ==
  ASSUME CallsOK, NEW t \in Thread, Step(t)
  PROVE  /\ phase = "up" /\ op[t].pc \notin {"idle", "done"}
         /\ phase' # "up" => Stop /\ UNCHANGED outages
         /\ phase' = "up" =>
              /\ op'[t].kind = op[t].kind /\ op'[t].req = op[t].req
              /\ op'[t].pc # "idle"
              /\ \A u \in Thread \ {t} : op'[u] = op[u]
<1>0. op[t] \in CallRecord
  BY DEF CallsOK
<1> USE DEF fileVars, docVars, auxVars
<1>1. phase = "up" /\ op[t].pc \notin {"idle", "done"}
  BY DEF Step, StatMissing, StatExists, TimeFails, StatCurrent, StatNewer,
         ReadFile, RereadFails, ReplaceDoc, NoteTime,
         ScanRange, ScanWhole, ScanShortRow, Find, FindFails, SetDoc,
         OpenSave, OpenFails, WriteSave, WriteFails, At
<1>2. ASSUME NEW c, Become(t, c), c.kind = op[t].kind, c.req = op[t].req,
             c.pc # "idle", phase' = phase
      PROVE  /\ phase' = "up"
             /\ op'[t].kind = op[t].kind /\ op'[t].req = op[t].req
             /\ op'[t].pc # "idle"
             /\ \A u \in Thread \ {t} : op'[u] = op[u]
  BY <1>1, <1>2 DEF Become, CallsOK
<1>3. CASE Stop /\ UNCHANGED outages
  BY <1>1, <1>3 DEF Stop
<1>4. CASE \E ok \in BOOLEAN : Return(t, ok) /\ phase' = phase
  <2>1. PICK ok \in BOOLEAN : Return(t, ok) /\ phase' = phase
    BY <1>4
  <2> DEFINE c == [op[t] EXCEPT !.pc = "done", !.ok = ok]
  <2>2. c.kind = op[t].kind /\ c.req = op[t].req /\ c.pc # "idle"
    BY <1>0 DEF CallRecord
  <2>3. Become(t, c)
    BY <2>1, Zenon DEF Return
  <2> HIDE DEF c
  <2> QED
    BY <1>1, <1>2, <2>1, <2>2, <2>3
<1>5. CASE Become(t, AfterRefresh(t)) /\ phase' = phase
  <2>1. /\ AfterRefresh(t).kind = op[t].kind /\ AfterRefresh(t).req = op[t].req
        /\ AfterRefresh(t).pc # "idle"
    BY <1>0 DEF AfterRefresh, CallRecord
  <2> QED
    BY <1>1, <1>2, <1>5, <2>1
<1>6. CASE StatMissing(t) \/ StatNewer(t)
  <2>1. \/ Throw(t) /\ phase' = phase
        \/ /\ \/ Become(t, [op[t] EXCEPT !.pass = 2])
              \/ Become(t, [op[t] EXCEPT !.pc = "read", !.statTime = mtime])
           /\ phase' = phase
    BY <1>6, Zenon DEF StatMissing, StatNewer
  <2>2. CASE Become(t, [op[t] EXCEPT !.pass = 2]) /\ phase' = phase
    BY <1>0, <1>1, <2>2 DEF Become, CallsOK, CallRecord
  <2>3. CASE /\ Become(t, [op[t] EXCEPT !.pc = "read", !.statTime = mtime])
             /\ phase' = phase
    BY <1>0, <1>1, <2>3 DEF Become, CallsOK, CallRecord
  <2> QED
    BY <1>4, <2>1, <2>2, <2>3, Zenon DEF Throw
<1>7. CASE StatCurrent(t) \/ NoteTime(t)
  BY <1>5, <1>7, Zenon DEF StatCurrent, NoteTime
<1>8. CASE TimeFails(t) \/ RereadFails(t) \/ FindFails(t) \/ OpenFails(t)
  BY <1>4, <1>8, Zenon DEF TimeFails, RereadFails, FindFails, OpenFails, Throw
<1>9. CASE ScanRange(t) \/ ScanWhole(t) \/ ScanShortRow(t)
  <2>1. \/ Throw(t) /\ phase' = phase
        \/ Stop /\ UNCHANGED outages
        \/ \E out : Result(t, out, unsaved) /\ phase' = phase
        \/ \E out : Result(t, out, TRUE) /\ phase' = phase
    BY <1>9, Zenon DEF ScanRange, ScanWhole, ScanShortRow
  <2>2. ASSUME NEW out, NEW tainted, Result(t, out, tainted), phase' = phase
        PROVE  /\ phase' = "up"
               /\ op'[t].kind = op[t].kind /\ op'[t].req = op[t].req
               /\ op'[t].pc # "idle"
               /\ \A u \in Thread \ {t} : op'[u] = op[u]
    BY <1>0, <1>1, <2>2 DEF Result, Become, CallsOK, CallRecord
  <2>3. CASE Throw(t) /\ phase' = phase
    <3>1. \E ok \in BOOLEAN : Return(t, ok) /\ phase' = phase
      BY <2>3, Zenon DEF Throw
    <3> QED
      BY <1>4, <3>1, Zenon
  <2>4. CASE \/ \E out : Result(t, out, unsaved) /\ phase' = phase
             \/ \E out : Result(t, out, TRUE) /\ phase' = phase
    <3>1. phase' # "up" => Stop /\ UNCHANGED outages
      BY <1>1, <2>4, Zenon
    <3>2. phase' = "up" =>
              /\ op'[t].kind = op[t].kind /\ op'[t].req = op[t].req
              /\ op'[t].pc # "idle"
              /\ \A u \in Thread \ {t} : op'[u] = op[u]
      BY <2>2, <2>4, Zenon
    <3> QED
      BY <1>1, <3>1, <3>2, Zenon
  <2> QED
    BY <1>3, <2>1, <2>3, <2>4, Zenon
<1>10. CASE Find(t)
  BY <1>0, <1>1, <1>10 DEF Find, Become, CallsOK, CallRecord
<1>11. CASE SetDoc(t)
  <2>1. PICK pc \in {"done", "open"} :
          Become(t, [op[t] EXCEPT !.pc = pc, !.tainted = unsaved])
    BY <1>11 DEF SetDoc
  <2>2. phase' = phase
    BY <1>11, Zenon DEF SetDoc
  <2> QED
    BY <1>0, <1>1, <2>1, <2>2 DEF Become, CallsOK, CallRecord
<1>12. CASE StatExists(t) \/ ReadFile(t) \/ ReplaceDoc(t) \/ OpenSave(t)
  <2>1. PICK pc \in {"time", "assign", "note", "write"} :
          Become(t, [op[t] EXCEPT !.pc = pc]) /\ phase' = phase
    BY <1>12, Zenon DEF StatExists, ReadFile, ReplaceDoc, OpenSave, Goto
  <2> QED
    BY <1>0, <1>1, <2>1 DEF Become, CallsOK, CallRecord
<1>13. CASE WriteSave(t) \/ WriteFails(t)
  <2>1. TRUE \in BOOLEAN /\ FALSE \in BOOLEAN
    OBVIOUS
  <2> QED
    BY <1>3, <1>4, <1>13, <2>1, Zenon
    DEF WriteSave, WriteFails, Fill, GoAstray, Throw
<1> QED
  BY <1>3, <1>6, <1>7, <1>8, <1>9, <1>10, <1>11, <1>12, <1>13, Zenon DEF Step

LEMMA TypeStop ==
  ASSUME TypeOK, Stop, outages' \in Nat
  PROVE  TypeOK'
<1>1. FlagsOK' /\ ClocksOK'
  BY DEF Stop, fileVars, TypeOK, FlagsOK, ClocksOK
<1> QED
  BY <1>1, StopOK DEF TypeOK

LEMMA TypeCall ==
  ASSUME TypeOK, NEW t \in Thread, NEW kind \in {"update", "range", "whole"},
         NEW req \in Request \cup {NoRequest}, NEW amount \in Int,
         Call(t, kind, req, amount)
  PROVE  TypeOK'
<1>1. FlagsOK'
  BY Zenon DEF Call, fileVars, TypeOK, FlagsOK
<1>2. ClocksOK'
  BY Zenon DEF Call, fileVars, TypeOK, ClocksOK
<1>3. CallsOK'
  BY CallOK DEF TypeOK
<1> QED
  BY <1>1, <1>2, <1>3 DEF TypeOK

LEMMA PlainStop ==
  ASSUME NEW K, PlainWorld(K), PlainInv(K), Stop, outages' \in Nat
  PROVE  PlainInv(K)'
<1>1. TypeOK'
  BY TypeStop DEF PlainInv
<1>2. LocalsOK' /\ PlainFile(K)'
  BY DEF Stop, fileVars, PlainInv, LocalsOK, PlainFile
<1>4. PlainHeld(K)'
  BY EmptyTable DEF Stop, PlainHeld, PlainWorld
<1>3. \A t \in Thread : SaveInv(t)'
  BY IdleSave DEF Stop
<1> QED
  BY <1>1, <1>2, <1>3, <1>4, Zenon DEF PlainInv

LEMMA PlainCall ==
  ASSUME NEW K, OneThread, PlainInv(K), NEW t \in Thread, NEW req \in Request,
         Call(t, "update", req, 0)
  PROVE  PlainInv(K)'
<1>1. TypeOK'
  BY TypeCall DEF PlainInv
<1>2. LocalsOK' /\ PlainFile(K)' /\ PlainHeld(K)'
  BY DEF Call, fileVars, docVars, PlainInv, LocalsOK, PlainFile, PlainHeld
<1>3. ASSUME NEW u \in Thread
      PROVE  SaveInv(u)'
  <2>1. u = t /\ "update" # "range"
    BY <1>3 DEF OneThread
  <2> QED
    BY <2>1, CallSave DEF PlainInv, TypeOK
<1> QED
  BY <1>1, <1>2, <1>3, Zenon DEF PlainInv

\* With four columns there is nothing behind the new row.
RowIn(table, r) ==
  \E i \in HashRow(table, r.hash) : table[i] = NewRow(r)

RowThere(text, r) == RowIn(Parse(text), r)

LEMMA SavedRow ==
  ASSUME PlainInv(4), Version = {}, "write" \notin Fault, NEW t \in Thread,
         op[t].pc = "done", op[t].ok, op[t].kind = "update"
  PROVE  RowThere(content, op[t].req)
<1>1. Holds(Parse(content), op[t].req)
  BY DEF PlainInv, SaveInv, SaveDone
<1>2. PICK i \in HashRow(Parse(content), op[t].req.hash) :
        SubSeq(Parse(content)[i], 1, 4) = NewRow(op[t].req)
  BY <1>1, Zenon DEF Holds
<1>3. content \in Text /\ \A k \in 1 .. Len(content) : Len(content[k]) = 4
  BY DEF PlainInv, PlainFile, Columns
<1>4. i \in 1 .. Len(content)
  BY <1>3, ParsedText DEF HashRow
<1>5. Parse(content)[i] = Cells(content[i]) /\ content[i] \in Seq(Atom)
  BY <1>3, <1>4, ParsedText, TextLines
<1>6. /\ Cells(content[i]) \in Seq(Seq(Seq(Atom)))
      /\ Len(Cells(content[i])) = 4
  BY <1>3, <1>4, <1>5, CellsProperties
<1>7. SubSeq(Parse(content)[i], 1, 4) = Parse(content)[i]
  BY <1>5, <1>6, SubSeqFull
<1> QED
  BY <1>2, <1>7, Zenon DEF RowThere, RowIn

\* The update of one row leaves those of the other hashes.
LEMMA OtherRows ==
  ASSUME NEW K \in Nat, K >= 4, NEW table \in Table(K),
         NEW q \in Request, PlainUpdate(q), NEW i \in HashRow(table, q.hash),
         NEW h \in Atom, h # q.hash
  PROVE  /\ HashRow(SetRow(table, i, NewRow(q)), h) = HashRow(table, h)
         /\ \A k \in HashRow(table, h) : SetRow(table, i, NewRow(q))[k] = table[k]
<1>1. PICK text \in Columns(K) : table = Parse(text)
  BY DEF Table
<1> DEFINE new == NewAtoms(q)
           line == NewLine(text[i], new)
           after == [text EXCEPT ![i] = line]
<1>2. new \in Seq(Atom) /\ Len(new) = 4 /\ new[1] = q.hash /\ NewRow(q) = Cells(new)
  BY NewRowCells
<1> HIDE DEF new
<1>3. q.hash \in Atom
  BY FileAssumption
<1>4. i \in 1 .. Len(text) /\ text[i][1] = q.hash
  BY <1>1, <1>3, HashLine
<1>5. /\ after \in Columns(K) /\ Len(after) = Len(text)
      /\ \A k \in 1 .. Len(text) : after[k] = IF k = i THEN line ELSE text[k]
      /\ SetRow(Parse(text), i, Cells(new)) = Parse(after)
  BY <1>2, <1>4, RowReplaced
<1>6. line[1] = q.hash
  <2>1. /\ Len(text) \in Nat /\ text[i] \in Seq(Atom) /\ Len(text[i]) >= 4
        /\ Len(text[i]) \in Nat
    BY <1>4, TextLines, LenProperties DEF Columns
  <2>2. \A j \in 1 .. Len(text[i]) : line[j] = IF j <= 4 THEN new[j] ELSE text[i][j]
    BY <1>2, <2>1, NewLineProperties, Zenon
  <2> QED
    BY <1>2, <2>1, <2>2
<1> HIDE DEF line, after
<1>7. Len(text) \in Nat
  BY LenProperties DEF Columns, Text
<1>8. \A k \in 1 .. Len(text) : after[k][1] = text[k][1]
  BY <1>4, <1>5, <1>6
<1>9. HashRow(Parse(after), h) = HashRow(Parse(text), h)
  <2>1. /\ HashRow(Parse(after), h)
             = { k \in 1 .. Len(after) : /\ after[k][1] = h
                                        /\ \A j \in 1 .. k - 1 : after[j][1] # h }
        /\ HashRow(Parse(text), h)
             = { k \in 1 .. Len(text) : /\ text[k][1] = h
                                       /\ \A j \in 1 .. k - 1 : text[j][1] # h }
    BY <1>5, HashLine
  <2>2. \A k \in 1 .. Len(text) : \A j \in 1 .. k - 1 : j \in 1 .. Len(text)
    BY <1>7
  <2>3. ASSUME NEW k \in 1 .. Len(text)
        PROVE  (after[k][1] = h /\ \A j \in 1 .. k - 1 : after[j][1] # h)
                 <=> (text[k][1] = h /\ \A j \in 1 .. k - 1 : text[j][1] # h)
    BY <1>8, <2>2
  <2>4. Len(after) = Len(text)
    BY <1>5
  <2> QED
    BY <2>1, <2>3, <2>4, Zenon
<1>10. ASSUME NEW k \in HashRow(Parse(text), h)
       PROVE  Parse(after)[k] = Parse(text)[k]
  <2>1. k \in 1 .. Len(text) /\ text[k][1] = h
    BY HashLine
  <2>2. after[k] = text[k]
    BY <1>4, <1>5, <2>1
  <2>3. /\ \A j \in 1 .. Len(text) : Parse(text)[j] = Cells(text[j])
        /\ \A j \in 1 .. Len(after) : Parse(after)[j] = Cells(after[j])
    BY <1>5, ParsedText, Zenon DEF Columns
  <2> QED
    BY <1>5, <2>1, <2>2, <2>3
<1>11. SetRow(table, i, NewRow(q)) = Parse(after)
  BY <1>1, <1>2, <1>5
<1> QED
  BY <1>1, <1>9, <1>10, <1>11

\* The document is as good as the file: a call that is at work on it, or that is
\* going to look at the time stamps, takes it for the file's rows.
DocCounts(w) ==
  \/ phase = "loaded"
  \/ /\ phase = "up"
     /\ \/ op[w].pc \in {"note", "find", "set", "open", "write"}
        \/ ~ (mtime > lastLoadTime)

Updated(w) == op[w].pc = "done" /\ op[w].ok /\ op[w].kind = "update"

\* What the steps of a single worker do to the text and to the document.
Quiet(w) ==
  /\ UNCHANGED << content, doc >>
  /\ op[w].pc # "write" /\ op'[w].pc # "write"
  /\ DocCounts(w)' => DocCounts(w)
  /\ Updated(w)' => Updated(w)

Ended(w) == phase' = "down" /\ op'[w] = Idle /\ UNCHANGED << content, doc >>

Loaded(w) ==
  /\ doc' = Parse(content) /\ content' = content
  /\ op[w].pc # "write" /\ op'[w].pc \notin {"write", "done"}

RowSet(w) ==
  /\ phase = "up" /\ op[w].pc = "set" /\ op'[w].pc # "write" /\ ~ Updated(w)'
  /\ op[w].req \in Request /\ op[w].row \in HashRow(doc, op[w].req.hash)
  /\ doc' = SetRow(doc, op[w].row, NewRow(op[w].req)) /\ content' = content

Emptied(w) ==
  /\ phase = "up" /\ op[w].pc = "open" /\ op'[w].pc = "write"
  /\ content' = << >> /\ doc' = doc

Filled(w) ==
  /\ phase = "up" /\ op[w].pc = "write"
  /\ content' = Written(doc) /\ doc' = doc

Moved(w) ==
  \/ UNCHANGED csvVars
  \/ Quiet(w) \/ Ended(w) \/ Loaded(w) \/ RowSet(w) \/ Emptied(w) \/ Filled(w)

LEMMA CallMoves ==
  ASSUME NEW w, Thread = {w}, CallsOK, NEW kind, NEW req, NEW amount,
         Call(w, kind, req, amount)
  PROVE  Quiet(w)
<1>1. /\ op[w].pc = "idle" /\ op'[w].pc = "stat"
      /\ UNCHANGED << content, doc, phase, mtime, lastLoadTime >>
  BY DEF Call, At, Become, Idle, CallsOK, fileVars, docVars
<1> QED
  BY <1>1 DEF Quiet, DocCounts, Updated

LEMMA StopMoves ==
  ASSUME NEW w, Thread = {w}, Stop
  PROVE  Ended(w)
BY DEF Stop, Ended, fileVars

LEMMA Moves ==
  ASSUME NEW w, Thread = {w}, Version = {}, "write" \notin Fault,
         PlainInv(4), [Next]_csvVars
  PROVE  Moved(w)
<1> USE DEF fileVars, docVars, auxVars, Moved
<1>0. /\ w \in Thread /\ CallsOK /\ op[w] \in CallRecord
      /\ SaveStarted(w) /\ CallKind(w) /\ SaveDoc(w) /\ LocalsOK
  BY DEF PlainInv, TypeOK, CallsOK, SaveInv
<1>1. CASE Environment
  <2>1. /\ UNCHANGED << content, doc, op, phase, mtime, lastLoadTime >>
        /\ op[w].pc # "write"
    BY <1>0, <1>1, Zenon DEF Environment, Edit, Delete, Saving
  <2> QED
    BY <2>1, Zenon DEF Quiet, DocCounts, Updated
<1>2. CASE StartRead
  <2>1. doc' = Parse(content) /\ UNCHANGED << content, op >> /\ op[w].pc = "idle"
    BY <1>0, <1>2 DEF StartRead, SaveStarted
  <2> QED
    BY <2>1 DEF Loaded
<1>3. CASE StartStat
  <2>1. /\ phase = "loaded" /\ op[w].pc = "idle"
        /\ UNCHANGED << content, doc, op >>
    BY <1>0, <1>3 DEF StartStat, SaveStarted
  <2> QED
    BY <2>1 DEF Quiet, DocCounts, Updated
<1>4. Stop => Ended(w)
  BY StopMoves
<1>5. CASE StartFails \/ Crash
  BY <1>4, <1>5 DEF StartFails, Crash
<1>6. ASSUME NEW kind, NEW req, NEW amount, Call(w, kind, req, amount)
      PROVE  Quiet(w)
  BY <1>0, <1>6, CallMoves
<1>7. CASE Finish(w)
  <2>1. /\ op[w].pc = "done" /\ op'[w].pc = "idle"
        /\ UNCHANGED << content, doc, phase, mtime, lastLoadTime >>
    BY <1>0, <1>7 DEF Finish, At, Become, Idle, CallsOK
  <2> QED
    BY <2>1 DEF Quiet, DocCounts, Updated
<1>8. ASSUME Throw(w), op[w].pc # "write",
             UNCHANGED << content, doc, phase, mtime, lastLoadTime >>
      PROVE  Quiet(w)
  <2>1. op'[w].pc = "done" /\ ~ op'[w].ok
    BY <1>0, <1>8 DEF Throw, Return, Become, CallsOK, CallRecord
  <2> QED
    BY <1>8, <2>1 DEF Quiet, DocCounts, Updated
<1>9. ASSUME op[w].pc # "write", op'[w].pc \in {"stat", "time", "read", "assign"},
             UNCHANGED << content, doc, phase, mtime, lastLoadTime >>
      PROVE  Quiet(w)
  BY <1>9 DEF Quiet, DocCounts, Updated
<1>10. AfterRefresh(w).pc \in {"stat", "scan", "find"}
  BY <1>0 DEF AfterRefresh, CallRecord
<1>11. CASE StatMissing(w)
  <2>1. /\ op[w].pc = "stat"
        /\ UNCHANGED << content, doc, phase, mtime, lastLoadTime >>
        /\ Throw(w) \/ Become(w, [op[w] EXCEPT !.pass = 2])
    BY <1>11 DEF StatMissing, At
  <2>2. ASSUME Become(w, [op[w] EXCEPT !.pass = 2])
        PROVE  op'[w].pc = "stat"
    BY <1>0, <2>1, <2>2 DEF Become, CallsOK, CallRecord
  <2> QED
    BY <1>8, <1>9, <2>1, <2>2
<1>12. CASE StatCurrent(w)
  <2>1. /\ op[w].pc = "time" /\ phase = "up" /\ ~ (mtime > lastLoadTime)
        /\ UNCHANGED << content, doc, phase, mtime, lastLoadTime >>
        /\ op'[w] = AfterRefresh(w)
    BY <1>0, <1>12 DEF StatCurrent, At, Become, CallsOK
  <2> QED
    BY <1>10, <2>1 DEF Quiet, DocCounts, Updated
<1>13. CASE StatExists(w) \/ StatNewer(w) \/ ReadFile(w)
  <2>1. /\ op[w].pc # "write" /\ op'[w].pc \in {"time", "read", "assign"}
        /\ UNCHANGED << content, doc, phase, mtime, lastLoadTime >>
    BY <1>0, <1>13 DEF StatExists, StatNewer, ReadFile, At, Goto, Become,
       CallsOK, CallRecord
  <2> QED
    BY <1>9, <2>1
<1>14. CASE ReplaceDoc(w)
  <2>1. /\ op[w].pc = "assign" /\ doc' = held[w] /\ content' = content
        /\ op'[w].pc = "note"
    BY <1>0, <1>14 DEF ReplaceDoc, At, Goto, Become, CallsOK, CallRecord
  <2>2. held[w] = Parse(content)
    BY <1>0, <2>1 DEF SaveDoc
  <2> QED
    BY <2>1, <2>2 DEF Loaded
<1>24. CASE NoteTime(w)
  <2>1. /\ op[w].pc = "note" /\ phase = "up"
        /\ UNCHANGED << content, doc, phase, mtime >>
        /\ op'[w] = AfterRefresh(w)
    BY <1>0, <1>24 DEF NoteTime, At, Become, CallsOK
  <2> QED
    BY <1>10, <2>1 DEF Quiet, DocCounts, Updated
<1>15. CASE TimeFails(w) \/ RereadFails(w) \/ FindFails(w) \/ OpenFails(w)
  BY <1>8, <1>15 DEF TimeFails, RereadFails, FindFails, OpenFails, At
<1>16. CASE ScanRange(w) \/ ScanWhole(w) \/ ScanShortRow(w)
  <2>1. /\ op[w].pc = "scan" /\ op[w].kind \in {"range", "whole"}
    BY <1>16 DEF ScanRange, ScanWhole, ScanShortRow, At
  <2>2. \/ Stop
        \/ /\ Throw(w) \/ \E out, tainted : Result(w, out, tainted)
           /\ UNCHANGED << content, doc, phase, mtime, lastLoadTime >>
    BY <1>16, Zenon DEF ScanRange, ScanWhole, ScanShortRow
  <2>3. ASSUME NEW out, NEW tainted, Result(w, out, tainted),
               UNCHANGED << content, doc, phase, mtime, lastLoadTime >>
        PROVE  Quiet(w)
    <3>1. op'[w].pc = "done" /\ op'[w].kind = op[w].kind
      BY <1>0, <2>3 DEF Result, Become, CallsOK, CallRecord
    <3> QED
      BY <2>1, <2>3, <3>1 DEF Quiet, DocCounts, Updated
  <2> QED
    BY <1>4, <1>8, <2>1, <2>2, <2>3
<1>17. CASE Find(w)
  <2>1. /\ op[w].pc = "find" /\ phase = "up" /\ op'[w].pc = "set"
        /\ UNCHANGED << content, doc, phase, mtime, lastLoadTime >>
    BY <1>0, <1>17 DEF Find, At, Become, CallsOK, CallRecord
  <2> QED
    BY <2>1 DEF Quiet, DocCounts, Updated
<1>18. CASE SetDoc(w)
  <2>1. /\ phase = "up" /\ op[w].pc = "set" /\ content' = content
        /\ doc' = SetRow(doc, op[w].row, NewRow(op[w].req))
        /\ \E pc \in {"done", "open"} :
             Become(w, [op[w] EXCEPT !.pc = pc, !.tainted = unsaved])
    BY <1>18 DEF SetDoc, At
  <2>2. op'[w].pc \in {"done", "open"} /\ op'[w].ok = op[w].ok
    BY <1>0, <2>1 DEF Become, CallsOK, CallRecord
  <2>3. ~ op[w].ok /\ op[w].kind = "update" /\ op[w].req \in Request
    BY <1>0, <2>1 DEF SaveStarted, CallKind
  <2>4. op[w].row \in HashRow(doc, op[w].req.hash)
    BY <1>0, <2>1 DEF SaveDoc
  <2> QED
    BY <2>1, <2>2, <2>3, <2>4 DEF RowSet, Updated
<1>19. CASE OpenSave(w)
  <2>1. /\ phase = "up" /\ op[w].pc = "open" /\ op'[w].pc = "write"
        /\ content' = << >> /\ doc' = doc
    BY <1>0, <1>19 DEF OpenSave, At, FileBecomes, Goto, Become, CallsOK, CallRecord
  <2> QED
    BY <2>1 DEF Emptied
<1>20. CASE WriteSave(w)
  BY <1>0, <1>20, OwnSave DEF At, FileBecomes, Filled
<1>21. ~ WriteFails(w)
  BY DEF WriteFails
<1>22. ASSUME Step(w)
       PROVE  Moved(w)
  BY <1>11, <1>12, <1>13, <1>14, <1>15, <1>16, <1>17, <1>18, <1>19, <1>20, <1>21,
     <1>22, <1>24, Zenon DEF Step
<1>23. \A t \in Thread : t = w
  OBVIOUS
<1> QED
  BY <1>1, <1>2, <1>3, <1>5, <1>6, <1>7, <1>22, <1>23, NextCases, Zenon
  DEF CallUpdate, CallRange, CallWhole

\* What is known of a row nobody is at work on: the file has it, save for the time
\* in which it is being written, and so has the document when it counts.
RowKept(w, r) ==
  /\ op[w].pc # "write" => RowThere(content, r)
  /\ DocCounts(w) => RowIn(doc, r)

LEMMA OtherRowIn ==
  ASSUME NEW table \in Table(4), NEW q \in Request, PlainUpdate(q),
         NEW i \in HashRow(table, q.hash), NEW r, r.hash \in Atom, r.hash # q.hash,
         RowIn(table, r)
  PROVE  RowIn(SetRow(table, i, NewRow(q)), r)
<1> DEFINE after == SetRow(table, i, NewRow(q))
<1>1. 4 \in Nat /\ 4 >= 4
  OBVIOUS
<1>2. /\ HashRow(after, r.hash) = HashRow(table, r.hash)
      /\ \A k \in HashRow(table, r.hash) : after[k] = table[k]
  BY <1>1, OtherRows, Zenon
<1> HIDE DEF after
<1>3. RowIn(after, r)
  BY <1>2, Zenon DEF RowIn
<1> QED
  BY <1>3 DEF after

\* What is saved is what was in the document.
LEMMA SavedTable ==
  ASSUME NEW table \in Table(4)
  PROVE  Parse(Written(table)) = table
<1>1. PICK text \in Columns(4) : table = Parse(text)
  BY DEF Table
<1>2. Written(table) = text
  BY <1>1, SavedAsLoaded DEF Columns
<1> QED
  BY <1>1, <1>2

\* No statement of another row's update, no start and no end of the process loses
\* the row, unless the process ends while the file is being written.
LEMMA OtherRowKept ==
  ASSUME NEW w, Thread = {w}, PlainWorld(4), PlainInv(4),
         Moved(w),
         NEW r, r.hash \in Atom, RowKept(w, r),
         op[w].pc = "set" => op[w].req.hash # r.hash,
         op[w].pc = "write" => phase' = "up"
  PROVE  RowKept(w, r)'
<1> USE DEF RowThere
<1>0. doc \in Table(4)
  BY DEF PlainInv, PlainFile
<1>1. CASE UNCHANGED csvVars
  BY <1>1, Zenon DEF csvVars, fileVars, docVars, RowKept, DocCounts
<1>2. CASE Quiet(w)
  BY <1>2, Zenon DEF Quiet, RowKept
<1>3. CASE Ended(w)
  BY <1>3 DEF Ended, RowKept, DocCounts
<1>4. CASE Loaded(w)
  BY <1>4 DEF Loaded, RowKept
<1>5. CASE RowSet(w)
  <2>1. /\ RowIn(doc, r) /\ RowIn(Parse(content), r)
        /\ op[w].req \in Request /\ op[w].row \in HashRow(doc, op[w].req.hash)
        /\ r.hash # op[w].req.hash
    BY <1>5 DEF RowSet, RowKept, DocCounts
  <2>2. PlainUpdate(op[w].req)
    BY <2>1 DEF PlainWorld, PlainRequests
  <2>3. RowIn(doc', r)
    BY <1>0, <1>5, <2>1, <2>2, OtherRowIn, Zenon DEF RowSet
  <2> QED
    BY <1>5, <2>1, <2>3 DEF RowSet, RowKept
<1>6. CASE Emptied(w)
  <2>1. RowIn(doc, r)
    BY <1>6 DEF Emptied, RowKept, DocCounts
  <2> QED
    BY <1>6, <2>1 DEF Emptied, RowKept
<1>7. CASE Filled(w)
  <2>1. RowIn(doc, r)
    BY <1>7 DEF Filled, RowKept, DocCounts
  <2>2. Parse(content') = doc
    BY <1>0, <1>7, SavedTable DEF Filled
  <2> QED
    BY <1>7, <2>1, <2>2 DEF Filled, RowKept
<1> QED
  BY <1>1, <1>2, <1>3, <1>4, <1>5, <1>6, <1>7 DEF Moved

\* A hash the file does not know; updates add none.
NoRow(h) == HashRow(Parse(content), h) = {} /\ HashRow(doc, h) = {}

LEMMA NoRowsInEmpty ==
  ASSUME NEW h
  PROVE  HashRow(<< >>, h) = {} /\ HashRow(Parse(<< >>), h) = {}
<1>1. << >> \in Text
  BY EmptySeq DEF Text
<1>2. Len(<< >>) = 0 /\ Len(Parse(<< >>)) = 0
  BY <1>1, ParsedText, EmptySeq
<1> QED
  BY <1>2 DEF HashRow

LEMMA NoRowStep ==
  ASSUME NEW w, Thread = {w}, PlainWorld(4), PlainInv(4),
         Moved(w),
         NEW h \in Atom, NoRow(h)
  PROVE  NoRow(h)'
<1>0. doc \in Table(4)
  BY DEF PlainInv, PlainFile
<1>1. CASE UNCHANGED << content, doc >>
  BY <1>1, Zenon DEF NoRow
<1>2. CASE UNCHANGED csvVars \/ Quiet(w) \/ Ended(w)
  BY <1>1, <1>2, Zenon DEF csvVars, fileVars, docVars, Quiet, Ended
<1>3. CASE Loaded(w)
  BY <1>3 DEF Loaded, NoRow
<1>4. CASE RowSet(w)
  <2>1. /\ op[w].req \in Request /\ op[w].row \in HashRow(doc, op[w].req.hash)
        /\ content' = content /\ doc' = SetRow(doc, op[w].row, NewRow(op[w].req))
    BY <1>4 DEF RowSet
  <2>2. PlainUpdate(op[w].req)
    BY <2>1 DEF PlainWorld, PlainRequests
  <2>3. h # op[w].req.hash
    BY <2>1 DEF NoRow
  <2>4. 4 \in Nat /\ 4 >= 4
    OBVIOUS
  <2>5. HashRow(doc', h) = HashRow(doc, h)
    BY <1>0, <2>1, <2>2, <2>3, <2>4, OtherRows, Zenon
  <2> QED
    BY <2>1, <2>5 DEF NoRow
<1>5. CASE Emptied(w)
  BY <1>5, NoRowsInEmpty DEF Emptied, NoRow
<1>6. CASE Filled(w)
  <2>1. Parse(content') = doc /\ doc' = doc
    BY <1>0, <1>6, SavedTable DEF Filled
  <2> QED
    BY <2>1 DEF NoRow
<1> QED
  BY <1>2, <1>3, <1>4, <1>5, <1>6 DEF Moved

\* An update that succeeded leaves the document and the file alike.
UpdateAlike(w) == Updated(w) => doc = Parse(content)

LEMMA UpdateAlikeStep ==
  ASSUME NEW w, Thread = {w}, PlainInv(4), UpdateAlike(w),
         Moved(w)
  PROVE  UpdateAlike(w)'
<1>0. doc \in Table(4)
  BY DEF PlainInv, PlainFile
<1>1. CASE UNCHANGED csvVars
  BY <1>1, Zenon DEF csvVars, fileVars, docVars, UpdateAlike, Updated
<1>2. CASE Quiet(w)
  BY <1>2, Zenon DEF Quiet, UpdateAlike
<1>3. CASE Ended(w)
  BY <1>3 DEF Ended, UpdateAlike, Updated, Idle
<1>4. CASE Loaded(w) \/ RowSet(w) \/ Emptied(w)
  BY <1>4 DEF Loaded, RowSet, Emptied, UpdateAlike, Updated
<1>5. CASE Filled(w)
  BY <1>0, <1>5, SavedTable DEF Filled, UpdateAlike
<1> QED
  BY <1>1, <1>2, <1>3, <1>4, <1>5 DEF Moved

-----------------------------------------------------------------------------
(* The text store is a LocStore.                                           *)

LEMMA EntriesProperties ==
  ASSUME NEW rows \in Seq(Seq(Seq(Seq(Atom))))
  PROVE  /\ DOMAIN Entries(rows) = 1 .. Len(rows)
         /\ \A k \in 1 .. Len(rows) :
              Entries(rows)[k] = Entry(rows[k]) /\ Entries(rows)[k].hash = rows[k][1]
<1>1. DOMAIN rows = 1 .. Len(rows)
  BY LenProperties
<1>2. DOMAIN Entries(rows) = 1 .. Len(rows)
      /\ \A k \in 1 .. Len(rows) : Entries(rows)[k] = Entry(rows[k])
  BY <1>1 DEF Entries
<1>3. \A row : Entry(row).hash = row[1]
  BY DEF Entry
<1> QED
  BY <1>2, <1>3

\* The row of a hash is the first entry with it.
LEMMA RowIsFirst ==
  ASSUME NEW rows \in Seq(Seq(Seq(Seq(Atom)))), NEW hash, NEW i \in HashRow(rows, hash)
  PROVE  i \in Store!FirstWith(Entries(rows), Str(hash))
<1>1. Len(rows) \in Nat
  BY LenProperties
<1>2. /\ i \in 1 .. Len(rows) /\ rows[i][1] = Str(hash)
      /\ \A k \in 1 .. i - 1 : rows[k][1] # Str(hash)
  BY DEF HashRow
<1>3. \A k \in 1 .. i - 1 : k \in 1 .. Len(rows)
  BY <1>1, <1>2
<1>4. \A k \in 1 .. i - 1 : Entries(rows)[k].hash # Str(hash)
  BY <1>2, <1>3, EntriesProperties
<1>5. i \in DOMAIN Entries(rows) /\ Entries(rows)[i].hash = Str(hash)
  BY <1>2, EntriesProperties
<1> QED
  BY <1>4, <1>5 DEF Store!FirstWith

\* With four columns SetRow replaces the whole row.
LEMMA RowIsSet ==
  ASSUME NEW table \in Table(4), NEW q \in Request, PlainUpdate(q),
         NEW i \in HashRow(table, q.hash)
  PROVE  Entries(SetRow(table, i, NewRow(q)))
           = [Entries(table) EXCEPT ![i] = Entry(NewRow(q))]
<1>1. PICK text \in Columns(4) : table = Parse(text)
  BY DEF Table
<1> DEFINE new == NewAtoms(q)
           line == NewLine(text[i], new)
           after == [text EXCEPT ![i] = line]
           rows == SetRow(table, i, NewRow(q))
<1>2. new \in Seq(Atom) /\ Len(new) = 4 /\ NewRow(q) = Cells(new)
  BY NewRowCells
<1> HIDE DEF new
<1>3. text \in Text /\ Len(text) \in Nat /\ table \in Seq(Seq(Seq(Seq(Atom))))
      /\ Len(table) = Len(text)
      /\ \A k \in 1 .. Len(text) : table[k] = Cells(text[k])
  BY <1>1, ParsedText, LenProperties DEF Columns, Text
<1>4. i \in 1 .. Len(text)
  BY <1>3 DEF HashRow
<1>5. line = new
  <2>1. text[i] \in Seq(Atom) /\ Len(text[i]) = 4
    BY <1>1, <1>3, <1>4, TextLines DEF Columns
  <2>2. line = [j \in 1 .. 4 |-> new[j]]
    BY <2>1 DEF NewLine
  <2>3. new = [j \in 1 .. 4 |-> new[j]]
    BY <1>2
  <2> QED
    BY <2>2, <2>3
<1>6. /\ after \in Columns(4) /\ Len(after) = Len(text)
      /\ \A k \in 1 .. Len(text) : after[k] = IF k = i THEN line ELSE text[k]
      /\ SetRow(Parse(text), i, Cells(new)) = Parse(after)
  BY <1>1, <1>2, <1>4, RowReplaced
<1> HIDE DEF line, after
<1>7. /\ rows \in Seq(Seq(Seq(Seq(Atom)))) /\ Len(rows) = Len(text)
      /\ \A k \in 1 .. Len(text) : rows[k] = IF k = i THEN NewRow(q) ELSE table[k]
  <2>1. rows = Parse(after) /\ after \in Text
    BY <1>1, <1>2, <1>6 DEF Columns
  <2>2. /\ Parse(after) \in Seq(Seq(Seq(Seq(Atom)))) /\ Len(Parse(after)) = Len(after)
        /\ \A k \in 1 .. Len(after) : Parse(after)[k] = Cells(after[k])
    BY <2>1, ParsedText
  <2> QED
    BY <1>2, <1>3, <1>5, <1>6, <2>1, <2>2
<1> HIDE DEF rows
<1>8. /\ DOMAIN Entries(rows) = 1 .. Len(text)
      /\ \A k \in 1 .. Len(text) :
           Entries(rows)[k] = IF k = i THEN Entry(NewRow(q)) ELSE Entry(table[k])
  <2>1. /\ DOMAIN Entries(rows) = 1 .. Len(rows)
        /\ \A k \in 1 .. Len(rows) : Entries(rows)[k] = Entry(rows[k])
    BY <1>7, EntriesProperties
  <2>2. DOMAIN Entries(rows) = 1 .. Len(text)
    BY <1>7, <2>1
  <2>3. ASSUME NEW k \in 1 .. Len(text)
        PROVE  Entries(rows)[k] = IF k = i THEN Entry(NewRow(q)) ELSE Entry(table[k])
    <3>1. Entries(rows)[k] = Entry(rows[k])
      BY <1>7, <2>1
    <3>2. CASE k = i
      BY <1>7, <3>1, <3>2
    <3>3. CASE k # i
      BY <1>7, <3>1, <3>3
    <3> QED
      BY <3>2, <3>3
  <2> QED
    BY <2>2, <2>3
<1>9. /\ DOMAIN Entries(table) = 1 .. Len(text)
      /\ \A k \in 1 .. Len(text) : Entries(table)[k] = Entry(table[k])
  BY <1>3, EntriesProperties
<1>10. Entries(rows) = [k \in 1 .. Len(text) |-> Entries(rows)[k]]
  BY <1>8 DEF Entries
<1>11. [Entries(table) EXCEPT ![i] = Entry(NewRow(q))]
         = [k \in 1 .. Len(text) |-> IF k = i THEN Entry(NewRow(q)) ELSE Entry(table[k])]
  BY <1>4, <1>9
<1> QED
  BY <1>8, <1>10, <1>11 DEF rows

\* The program starts with what the file holds, and ends without touching it.
ComesAndGoes ==
  /\ phase = "down" /\ phase' # "down" =>
       doc' = Parse(content) /\ content' = content
  /\ phase # "down" /\ phase' = "down" => content' = content

LEMMA Phases ==
  ASSUME CallsOK, [Next]_csvVars
  PROVE  ComesAndGoes
<1> USE DEF fileVars, docVars, auxVars
<1>1. UNCHANGED csvVars => UNCHANGED phase
  BY DEF csvVars
<1>2. Environment => UNCHANGED phase
  BY DEF Environment, Edit, Delete
<1>3. StartRead => doc' = Parse(content) /\ content' = content /\ phase = "down"
                     /\ phase' = "loaded"
  BY DEF StartRead
<1>4. StartStat => phase = "loaded" /\ phase' = "up"
  BY DEF StartStat
<1>5. StartFails \/ Crash => phase # "down" /\ content' = content
  BY DEF StartFails, Crash, Stop
<1>6. ASSUME NEW t \in Thread,
             \/ \E r \in Request : CallUpdate(t, r)
             \/ \E n \in Amount : CallRange(t, n)
             \/ CallWhole(t) \/ Finish(t)
      PROVE  UNCHANGED phase
  BY <1>6 DEF CallUpdate, CallRange, CallWhole, Call, Finish
<1>7. ASSUME NEW t \in Thread, Step(t)
      PROVE  phase = "up" /\ (phase' # "up" => content' = content)
  <2>1. phase = "up" /\ (phase' # "up" => Stop)
    BY <1>7, SameCall, Zenon
  <2> QED
    BY <2>1 DEF Stop
<1> QED
  BY <1>1, <1>2, <1>3, <1>4, <1>5, <1>6, <1>7, NextCases DEF ComesAndGoes

\* The steps of LocStore.
TextStep == [Store!Next]_(Store!storeVars)

InMemory == IF phase = "down" THEN Parse(content) ELSE doc

LEMMA MovedTextStep ==
  ASSUME NEW w, PlainWorld(4), PlainInv(4), Moved(w), ComesAndGoes
  PROVE  TextStep
<1>0. doc \in Table(4)
  BY DEF PlainInv, PlainFile
<1>1. Moved(w)
  OBVIOUS
<1>2. ASSUME InMemory' = InMemory, content' = content
      PROVE  TextStep
  BY <1>2, Zenon DEF TextStep, InMemory, Store!storeVars
<1>3. ASSUME InMemory' = Parse(content), content' = content
      PROVE  TextStep
  BY <1>3, Zenon DEF TextStep, InMemory, Store!Next, Store!Reload
<1>4. ASSUME InMemory' = InMemory, Parse(content') = InMemory
      PROVE  TextStep
  BY <1>4, Zenon DEF TextStep, InMemory, Store!Next, Store!Save
<1>5. ASSUME InMemory' = InMemory, content' = << >>
      PROVE  TextStep
  <2>1. Entries(Parse(<< >>)) = << >>
    <3>1. << >> \in Text /\ Len(<< >>) = 0
      BY EmptySeq DEF Text
    <3>2. Parse(<< >>) = << >>
      BY <3>1 DEF Parse
    <3> QED
      BY <3>2 DEF Entries
  <2> QED
    BY <1>5, <2>1, Zenon DEF TextStep, InMemory, Store!Next, Store!Empty
<1>6. CASE phase' = "down"
  <2>1. content' = content
    <3>1. CASE phase = "down"
      BY <1>1, <3>1 DEF Moved, csvVars, fileVars, Quiet, Ended, Loaded, RowSet,
         Emptied, Filled
    <3>2. CASE phase # "down"
      BY <1>6, <3>2 DEF ComesAndGoes
    <3> QED
      BY <3>1, <3>2
  <2> QED
    BY <1>3, <1>6, <2>1 DEF InMemory
<1>7. CASE phase = "down" /\ phase' # "down"
  <2>1. doc' = Parse(content) /\ content' = content
    BY <1>7 DEF ComesAndGoes
  <2> QED
    BY <1>3, <1>7, <2>1 DEF InMemory
<1>8. CASE phase # "down" /\ phase' # "down"
  <2>0. InMemory = doc /\ InMemory' = doc'
    BY <1>8 DEF InMemory
  <2>1. CASE UNCHANGED csvVars \/ Quiet(w)
    <3>1. UNCHANGED << content, doc >>
      BY <2>1 DEF csvVars, fileVars, docVars, Quiet
    <3> QED
      BY <1>2, <2>0, <3>1
  <2>2. CASE Loaded(w)
    BY <1>3, <2>0, <2>2 DEF Loaded
  <2>3. CASE RowSet(w)
    <3>1. /\ op[w].req \in Request /\ op[w].row \in HashRow(doc, op[w].req.hash)
          /\ doc' = SetRow(doc, op[w].row, NewRow(op[w].req)) /\ content' = content
      BY <2>3 DEF RowSet
    <3>2. PICK q, i : /\ q \in Request
                      /\ i \in HashRow(doc, q.hash)
                      /\ doc' = SetRow(doc, i, NewRow(q))
      BY <3>1
    <3>3. Entries(doc') = [Entries(doc) EXCEPT ![i] = Entry(NewRow(q))]
      BY <1>0, <3>2, RowIsSet DEF PlainWorld, PlainRequests
    <3>4. Entry(NewRow(q)).hash = Str(q.hash)
      BY DEF Entry, NewRow
    <3>5. i \in Store!FirstWith(Entries(doc), Entry(NewRow(q)).hash)
      <4>1. doc \in Seq(Seq(Seq(Seq(Atom))))
        BY <1>0, ParsedText DEF Table, Columns
      <4> QED
        BY <3>2, <3>4, <4>1, RowIsFirst
    <3>6. Entries(InMemory') = [Entries(InMemory) EXCEPT ![i] = Entry(NewRow(q))]
          /\ i \in Store!FirstWith(Entries(InMemory), Entry(NewRow(q)).hash)
      BY <2>0, <3>3, <3>5
    <3>7. Entry(NewRow(q)) \in { Entry(NewRow(r)) : r \in Request }
      BY <3>2
    <3> QED
      BY <3>1, <3>6, <3>7, Zenon DEF TextStep, InMemory, Store!Next, Store!Put
  <2>4. CASE Emptied(w)
    BY <1>5, <2>0, <2>4 DEF Emptied
  <2>5. CASE Filled(w)
    <3>1. Parse(content') = doc
      BY <1>0, <2>5, SavedTable DEF Filled
    <3> QED
      BY <1>4, <2>0, <2>5, <3>1 DEF Filled
  <2>6. ~ Ended(w)
    BY <1>8 DEF Ended
  <2> QED
    BY <1>1, <2>1, <2>2, <2>3, <2>4, <2>5, <2>6 DEF Moved
<1> QED
  BY <1>6, <1>7, <1>8

LEMMA TextStoreStep ==
  ASSUME NEW w, Thread = {w}, Version = {}, "write" \notin Fault, PlainWorld(4),
         PlainInv(4), [Next]_csvVars
  PROVE  TextStep
<1>1. ComesAndGoes
  BY Phases DEF PlainInv, TypeOK
<1> QED
  BY <1>1, Moves, MovedTextStep

\* With one thread, no silent failure of a write, nobody else at the file and
\* four columns, the text store implements LocStore, as the binary store does:
\* for every file, request and clock, however coarse, an update replaces
\* the first row of its hash and no other, the file is emptied and then holds the
\* document row for row, and no refresh, failed open, crash or restart
\* brings back anything but the file.
THEOREM TextStoreIsImplemented ==
  ASSUME NEW w, Thread = {w}, Version = {}, "write" \notin Fault, PlainWorld(4)
  PROVE  Spec => ImplementsStore
<1>1. Init => PlainInv(4) /\ Store!Init
  <2>1. Init => PlainInv(4)
    BY PlainInit
  <2>2. Init => Store!Init
    BY DEF Init, Store!Init
  <2> QED
    BY <2>1, <2>2
<1>2. PlainInv(4) /\ [Next]_csvVars => PlainInv(4)' /\ [Store!Next]_(Store!storeVars)
  BY PlainStep, TextStoreStep DEF OneThread, TextStep
<1> QED
  BY <1>1, <1>2, PTL DEF Spec, ImplementsStore, Store!Spec

=============================================================================
