----------------------------- MODULE LocPackFile -----------------------------
(***************************************************************************)
(* LocPackFile: the .locpack file, which other programs edit, and the      *)
(* document the server keeps of it.  Every operation first compares the    *)
(* file's modification time with the one noted at the last load and reads  *)
(* the file again when it is newer; an update changes one row of the       *)
(* document and saves the whole document over the file.                    *)
(*                                                                         *)
(* Between any two steps another program may write or delete the file.     *)
(* The environment is described by three constants: FineClock (no two      *)
(* writes carry the same time stamp), QuietStart (nobody writes the file   *)
(* while the constructor runs) and Fault (the ways a save can fail).       *)
(*                                                                         *)
(* A step is one call on the file system or one statement that uses the    *)
(* document, a loop over its rows included; the three calls of a statement *)
(* that parses or saves are three steps where the order of threads shows.  *)
(* With one worker thread that is exact.  With several, an assignment of   *)
(* the document frees the one that a save may be walking through, which is *)
(* modelled; the other overlaps of two statements on the document are data *)
(* races, which this module leaves out.                                    *)
(***************************************************************************)
EXTENDS LocCsv

CONSTANTS
  Thread,      \* the worker threads
  Request,     \* the updates that may be asked for
  NoRequest,   \* no update
  Amount,      \* the values of the amount parameter of a range
  Version,     \* the texts other programs write
  InitText,    \* the text of the file at the start
  StrayText,   \* what memory that is not the program's to read may look like:
               \* a string, or the text of a whole document
  Fault,       \* how a save can fail: a subset of {"open", "write"}
  FineClock,   \* every write of the file has a time stamp of its own
  QuietStart,  \* no edit while the constructor runs
  MaxTime,     \* bound: no edit and no update begins after this many writes
  MaxOutage    \* bound: crashes and deletions of the file together

\* The text of a file: lines of atoms, none without a field.
Text == Seq(Seq(Atom) \ {<< >>})

ASSUME FileAssumption ==
  /\ Request \subseteq [hash : Atom, val1 : IntAtom, val2 : IntAtom,
                        text : Text \ {<< >>}]
  /\ NoRequest \notin Request
  /\ Amount \subseteq Int
  /\ InitText \in Text /\ Version \subseteq Text
  /\ StrayText \subseteq Text \ {<< >>}
  /\ FineClock \in BOOLEAN /\ QuietStart \in BOOLEAN
  /\ MaxTime \in Nat /\ MaxOutage \in Nat

VARIABLES
  exists,        \* the file is there
  content,       \* its text
  mtime,         \* its time of last modification
  phase,         \* the process: "down", "loaded" (inside the constructor), "up"
  doc,           \* the document: rows of cells
  held,          \* held[t]: a document that only thread t still knows: the one
                 \* it has read and not yet put in the place of doc, or the one
                 \* its save goes through when another thread has replaced it
  freed,         \* the threads whose save goes through such a document
  lastLoadTime,  \* the time stamp the document is taken to have
  op,            \* op[t]: the call thread t is in
  answer,        \* answer[t]: what that call returned, or set out to save
  outages,       \* crashes and deletions so far
  unsaved,       \* auxiliary: the document has rows the file never got
  since          \* auxiliary: since[t], the texts the file has had since
                 \* the call of t began

fileVars == << exists, content, mtime >>
docVars  == << doc, held, freed >>
auxVars  == << outages, unsaved, since >>
csvVars  == << fileVars, phase, docVars, lastLoadTime, op, answer, auxVars >>

Idle == [pc |-> "idle", kind |-> "none", req |-> NoRequest, amount |-> 0,
         pass |-> 1, statTime |-> 0, row |-> 0, ok |-> FALSE, tainted |-> FALSE]

Init ==
  /\ exists = TRUE /\ content = InitText /\ mtime = 0
  /\ phase = "down" /\ doc = << >> /\ lastLoadTime = 0
  /\ held = [t \in Thread |-> << >>] /\ freed = {}
  /\ op = [t \in Thread |-> Idle]
  /\ answer = [t \in Thread |-> << >>]
  /\ outages = 0 /\ unsaved = FALSE
  /\ since = [t \in Thread |-> {}]

-----------------------------------------------------------------------------
\* A write of the file.
Stamp ==
  \/ mtime' = mtime + 1
  \/ ~ FineClock /\ mtime' = mtime

\* The threads in writers change the file themselves.
FileBecomes(text, writers) ==
  /\ exists' = TRUE
  /\ content' = text
  /\ since' = [t \in Thread |->
                 IF op[t].pc = "idle" \/ t \in writers THEN since[t]
                 ELSE since[t] \cup {text}]

Saving == \E t \in Thread : op[t].pc = "write"

\* Another program writes the file.  An edit in the short time between the
\* truncation and the write of a save is left out.
Edit(text) ==
  /\ mtime < MaxTime
  /\ ~ Saving
  /\ QuietStart => phase # "loaded"
  /\ FileBecomes(text, {})
  /\ Stamp
  /\ UNCHANGED << phase, docVars, lastLoadTime, op, answer, outages, unsaved >>

Delete ==
  /\ exists /\ ~ Saving
  /\ outages < MaxOutage /\ outages' = outages + 1
  /\ exists' = FALSE
  /\ UNCHANGED << content, mtime, phase, docVars, lastLoadTime, op, answer,
                  unsaved, since >>

-----------------------------------------------------------------------------
\* The constructor reads the file, then asks for its modification time; it
\* throws, and the program ends, when the file is not there.
StartRead ==
  /\ phase = "down" /\ exists
  /\ phase' = "loaded"
  /\ doc' = Parse(content)
  /\ unsaved' = FALSE
  /\ UNCHANGED << fileVars, held, freed, lastLoadTime, op, answer, outages,
                  since >>

StartStat ==
  /\ phase = "loaded" /\ exists
  /\ phase' = "up"
  /\ lastLoadTime' = mtime
  /\ UNCHANGED << fileVars, docVars, op, answer, auxVars >>

Stop ==
  /\ phase' = "down"
  /\ op' = [t \in Thread |-> Idle]
  /\ answer' = [t \in Thread |-> << >>]
  /\ since' = [t \in Thread |-> {}]
  /\ held' = [t \in Thread |-> << >>] /\ freed' = {}
  /\ UNCHANGED << fileVars, doc, lastLoadTime, unsaved >>

StartFails ==
  /\ phase = "loaded" /\ ~ exists
  /\ Stop
  /\ UNCHANGED outages

Crash ==
  /\ phase = "up"
  /\ outages < MaxOutage /\ outages' = outages + 1
  /\ Stop

-----------------------------------------------------------------------------
At(t, pc) == phase = "up" /\ op[t].pc = pc

\* The call of t goes on as c.
Become(t, c) == op' = [op EXCEPT ![t] = c]

Goto(t, pc) == Become(t, [op[t] EXCEPT !.pc = pc])

Return(t, ok) == Become(t, [op[t] EXCEPT !.pc = "done", !.ok = ok])

Throw(t) == Return(t, FALSE)

Call(t, kind, req, amount) ==
  /\ At(t, "idle")
  /\ Become(t, [Idle EXCEPT !.pc = "stat", !.kind = kind,
                            !.req = req, !.amount = amount])
  /\ since' = [since EXCEPT ![t] = {content}]
  /\ UNCHANGED << fileVars, phase, docVars, lastLoadTime, answer, outages, unsaved >>

CallUpdate(t, r) == mtime < MaxTime /\ Call(t, "update", r, 0)
CallRange(t, n)  == Call(t, "range", NoRequest, n)
CallWhole(t)     == Call(t, "whole", NoRequest, 0)

\* Mutant: the refresh of findHashIndex is counted on and never ends.
RefreshAgain(t) ==
  IF op[t].kind # "update" THEN [op[t] EXCEPT !.pc = "scan"]
  ELSE [op[t] EXCEPT !.pc = "stat", !.pass = @ + 1]

\* What follows a refreshDocument that did its work: updateEntry refreshes,
\* then findHashIndex does so again.
AfterRefresh(t) ==
  IF op[t].kind # "update" THEN [op[t] EXCEPT !.pc = "scan"]
  ELSE IF op[t].pass = 1 THEN [op[t] EXCEPT !.pc = "stat", !.pass = 2]
  ELSE [op[t] EXCEPT !.pc = "find"]

\* refreshDocument asks whether there is a file.  updateEntry ignores the
\* first FALSE; every other caller throws.
StatMissing(t) ==
  /\ At(t, "stat")
  /\ ~ exists
  /\ IF op[t].kind = "update" /\ op[t].pass = 1
     THEN Become(t, [op[t] EXCEPT !.pass = 2])
     ELSE Throw(t)
  /\ UNCHANGED << fileVars, phase, docVars, lastLoadTime, answer, auxVars >>

StatExists(t) ==
  /\ At(t, "stat")
  /\ exists
  /\ Goto(t, "time")
  /\ UNCHANGED << fileVars, phase, docVars, lastLoadTime, answer, auxVars >>

\* It asks for the file's time; last_write_time throws when the file has gone.
TimeFails(t) ==
  /\ At(t, "time")
  /\ ~ exists
  /\ Throw(t)
  /\ UNCHANGED << fileVars, phase, docVars, lastLoadTime, answer, auxVars >>

\* Mutant: the document is kept without a look at the time.
StatIgnoresTime(t) ==
  /\ At(t, "time")
  /\ exists
  /\ Become(t, AfterRefresh(t))
  /\ UNCHANGED << fileVars, phase, docVars, lastLoadTime, answer, auxVars >>

StatCurrent(t) ==
  /\ At(t, "time")
  /\ exists /\ ~ (mtime > lastLoadTime)
  /\ Become(t, AfterRefresh(t))
  /\ UNCHANGED << fileVars, phase, docVars, lastLoadTime, answer, auxVars >>

StatNewer(t) ==
  /\ At(t, "time")
  /\ exists /\ mtime > lastLoadTime
  /\ Become(t, [op[t] EXCEPT !.pc = "read", !.statTime = mtime])
  /\ UNCHANGED << fileVars, phase, docVars, lastLoadTime, answer, auxVars >>

\* A newer file is read as it is now into newDoc, ...
ReadFile(t) ==
  /\ At(t, "read")
  /\ exists
  /\ held' = [held EXCEPT ![t] = Parse(content)]
  /\ Goto(t, "assign")
  /\ UNCHANGED << fileVars, phase, doc, freed, lastLoadTime, answer, auxVars >>

\* (rapidcsv throws when it cannot open it)
RereadFails(t) ==
  /\ At(t, "read")
  /\ ~ exists
  /\ Throw(t)
  /\ UNCHANGED << fileVars, phase, docVars, lastLoadTime, answer, auxVars >>

\* Mutant: newDoc is dropped.
ReplaceForgotten(t) ==
  /\ At(t, "assign")
  /\ unsaved' = FALSE
  /\ held' = [held EXCEPT ![t] = << >>]
  /\ Goto(t, "note")
  /\ UNCHANGED << fileVars, phase, doc, freed, lastLoadTime, answer, outages,
                  since >>

\* ... which then replaces doc and frees the document that was there; a save
\* on another thread that has begun keeps going through that one.
ReplaceDoc(t) ==
  LET writers == { u \in Thread : op[u].pc = "write" }
  IN  /\ At(t, "assign")
      /\ doc' = held[t]
      /\ freed' = freed \cup writers
      /\ held' = [u \in Thread |-> IF u = t THEN << >>
                                  ELSE IF u \in writers \ freed THEN doc
                                  ELSE held[u]]
      /\ unsaved' = FALSE
      /\ Goto(t, "note")
      /\ UNCHANGED << fileVars, phase, lastLoadTime, answer, outages, since >>

\* ... and gets the time noted before.
NoteTime(t) ==
  /\ At(t, "note")
  /\ lastLoadTime' = op[t].statTime
  /\ Become(t, AfterRefresh(t))
  /\ UNCHANGED << fileVars, phase, docVars, answer, auxVars >>

\* A call that answers; tainted: with rows that no file ever held.
Result(t, out, tainted) ==
  /\ Become(t, [op[t] EXCEPT !.pc = "done", !.ok = TRUE, !.tainted = tainted])
  /\ answer' = [answer EXCEPT ![t] = out]

\* parseLocPackRange: offset and amount play no part in what is returned,
\* but reserve() throws on a negative amount.
ScanRange(t) ==
  /\ At(t, "scan") /\ op[t].kind = "range"
  /\ IF op[t].amount < 0
     THEN Throw(t) /\ UNCHANGED answer
     ELSE Result(t, RangeLines(doc), unsaved)
  /\ UNCHANGED << fileVars, phase, docVars, lastLoadTime, auxVars >>

\* parseLocPackWhole: every row is taken, or stoi throws on the first that
\* holds no integers.
ScanWhole(t) ==
  /\ At(t, "scan") /\ op[t].kind = "whole"
  /\ \/ FirstBadRow(doc) = {} /\ Result(t, RangeLines(doc), unsaved)
     \/ /\ \E i \in FirstBadRow(doc) : Len(doc[i]) >= 4
        /\ Throw(t)
        /\ UNCHANGED answer
  /\ UNCHANGED << fileVars, phase, docVars, lastLoadTime, auxVars >>

\* The rows when the string behind the end of each short one is s.
Lengthened(rows, s) ==
  [i \in DOMAIN rows |->
     [j \in 1 .. IF Len(rows[i]) < 4 THEN 4 ELSE Len(rows[i]) |->
        IF j <= Len(rows[i]) THEN rows[i][j] ELSE s]]

\* It reads the fourth cell of a row without asking whether there is one: the
\* process dies, or what is there makes the call throw, or is taken for a string.
ScanShortRow(t) ==
  /\ At(t, "scan") /\ op[t].kind = "whole"
  /\ \E i \in FirstBadRow(doc) : Len(doc[i]) < 4
  /\ \/ Stop /\ UNCHANGED outages
     \/ /\ \/ Throw(t) /\ UNCHANGED answer
           \/ \E s \in StrayText :
                /\ FirstBadRow(Lengthened(doc, s)) = {}
                /\ Result(t, RangeLines(Lengthened(doc, s)), TRUE)
        /\ UNCHANGED << fileVars, phase, docVars, lastLoadTime, auxVars >>

Find(t) ==
  /\ At(t, "find")
  /\ \E i \in HashRow(doc, op[t].req.hash) :
       Become(t, [op[t] EXCEPT !.pc = "set", !.row = i])
  /\ UNCHANGED << fileVars, phase, docVars, lastLoadTime, answer, auxVars >>

\* "Hash not found in .locpack"
FindFails(t) ==
  /\ At(t, "find")
  /\ HashRow(doc, op[t].req.hash) = {}
  /\ Throw(t)
  /\ UNCHANGED << fileVars, phase, docVars, lastLoadTime, answer, auxVars >>

NewRow(r) == << Str(r.hash), Str(r.val1), Str(r.val2), r.text >>

\* Mutant: the index is taken to be that of a row below the header.
SetDocBelow(t) ==
  /\ At(t, "set")
  /\ LET new == NewRow(op[t].req)
     IN  /\ doc' = SetRow(doc, op[t].row + 1, new)
         /\ Become(t, [op[t] EXCEPT
                         !.pc = IF SetRowThrows(doc, op[t].row + 1, new)
                                THEN "done" ELSE "open",
                         !.tainted = unsaved])
  /\ unsaved' = TRUE
  /\ UNCHANGED << fileVars, phase, held, freed, lastLoadTime, answer, outages,
                  since >>

SetDoc(t) ==
  /\ At(t, "set")
  /\ LET new == NewRow(op[t].req)
     IN  /\ doc' = SetRow(doc, op[t].row, new)
         /\ Become(t, [op[t] EXCEPT
                         !.pc = IF SetRowThrows(doc, op[t].row, new)
                                THEN "done" ELSE "open",
                         !.tainted = unsaved])
  /\ unsaved' = TRUE
  /\ UNCHANGED << fileVars, phase, held, freed, lastLoadTime, answer, outages,
                  since >>

\* doc->Save() takes the document that is there now and opens the file, which
\* empties it, ...
OpenSave(t) ==
  /\ At(t, "open")
  /\ FileBecomes(<< >>, {t})
  /\ Stamp
  /\ Goto(t, "write")
  /\ UNCHANGED << phase, docVars, lastLoadTime, answer, outages, unsaved >>

OpenFails(t) ==
  /\ At(t, "open")
  /\ "open" \in Fault
  /\ Throw(t)
  /\ UNCHANGED << fileVars, phase, docVars, lastLoadTime, answer, auxVars >>

\* ... and writes its rows, or, once it is freed, whatever is there.
SavedTexts(t) ==
  IF t \in freed THEN {Written(held[t])} \cup StrayText ELSE {Written(doc)}

\* The save lets go of its document.
LetGo(t) ==
  /\ held' = [held EXCEPT ![t] = << >>] /\ freed' = freed \ {t}
  /\ UNCHANGED doc

\* lastLoadTime stays: the next call reads the file again.
Fill(t) ==
  /\ \E text \in SavedTexts(t) :
       /\ FileBecomes(text, {t})
       /\ answer' = [answer EXCEPT ![t] = text]
  /\ Stamp
  /\ Return(t, TRUE)
  /\ unsaved' = (unsaved /\ t \in freed)
  /\ LetGo(t)
  /\ UNCHANGED << phase, lastLoadTime, outages >>

\* The way through a freed document may also end the process, or in a throw.
GoAstray(t) ==
  /\ t \in freed
  /\ \/ Stop /\ UNCHANGED outages
     \/ /\ Throw(t)
        /\ LetGo(t)
        /\ UNCHANGED << fileVars, phase, lastLoadTime, answer, auxVars >>

WriteSave(t) ==
  /\ At(t, "write")
  /\ Fill(t) \/ GoAstray(t)

\* The disk is full: a write throws, or the last buffer is lost when the
\* stream is destroyed, and nobody learns of it.
WriteFails(t) ==
  /\ At(t, "write")
  /\ "write" \in Fault
  /\ \E text \in SavedTexts(t) :
       /\ \/ UNCHANGED << fileVars, since >>
          \/ /\ \E n \in 1 .. Len(text) - 1 :
                  FileBecomes(SubSeq(text, 1, n), {t})
             /\ Stamp
       /\ answer' = [answer EXCEPT ![t] = text]
  /\ \E ok \in BOOLEAN : Return(t, ok)
  /\ LetGo(t)
  /\ UNCHANGED << phase, lastLoadTime, outages, unsaved >>

Finish(t) ==
  /\ At(t, "done")
  /\ Become(t, Idle)
  /\ answer' = [answer EXCEPT ![t] = << >>]
  /\ since' = [since EXCEPT ![t] = {}]
  /\ UNCHANGED << fileVars, phase, docVars, lastLoadTime, outages, unsaved >>

Step(t) ==
  \/ StatMissing(t) \/ StatExists(t)
  \/ TimeFails(t) \/ StatCurrent(t) \/ StatNewer(t)
  \/ ReadFile(t) \/ RereadFails(t) \/ ReplaceDoc(t) \/ NoteTime(t)
  \/ ScanRange(t) \/ ScanWhole(t) \/ ScanShortRow(t)
  \/ Find(t) \/ FindFails(t) \/ SetDoc(t)
  \/ OpenSave(t) \/ OpenFails(t) \/ WriteSave(t) \/ WriteFails(t)

Environment == (\E text \in Version : Edit(text)) \/ Delete

Next ==
  \/ Environment
  \/ StartRead \/ StartStat \/ StartFails \/ Crash
  \/ \E t \in Thread : \/ \E r \in Request : CallUpdate(t, r)
                       \/ \E n \in Amount : CallRange(t, n)
                       \/ CallWhole(t)
                       \/ Step(t)
                       \/ Finish(t)

Spec == Init /\ [][Next]_csvVars

-----------------------------------------------------------------------------
PC == {"idle", "stat", "time", "read", "assign", "note", "scan",
       "find", "set", "open", "write", "done"}

CallRecord == [pc : PC, kind : {"none", "update", "range", "whole"},
          req : Request \cup {NoRequest}, amount : Int, pass : {1, 2},
          statTime : Nat, row : Nat, ok : BOOLEAN, tainted : BOOLEAN]

\* The state apart from the text and the rows.
FlagsOK == exists \in BOOLEAN /\ unsaved \in BOOLEAN

ClocksOK ==
  /\ mtime \in Nat /\ lastLoadTime \in Nat /\ outages \in Nat
  /\ phase \in {"down", "loaded", "up"}

CallsOK == op \in [Thread -> CallRecord]

TypeOK == FlagsOK /\ ClocksOK /\ CallsOK

\* "Method used to check if the currently loaded document is still up to
\* date": when the time stamps of document and file agree, so that
\* refreshDocument would keep the document, the document is what the file
\* says, unless an update changed a row and its save did not happen (yet).
UpToDate ==
  phase = "up" /\ exists /\ lastLoadTime = mtime /\ ~ unsaved
    => doc = Parse(content)

\* What the update r makes of the text c of the file: the row of its hash
\* replaced, every other row kept.
UpdatedTexts(c, r) ==
  { Written(SetRow(Parse(c), i, NewRow(r))) : i \in HashRow(Parse(c), r.hash) }

\* A call that succeeds has worked on a version of the file that was there
\* at some moment of the call: no read answers with rows older than itself,
\* and no save writes back rows that had been replaced before the call began.
\* Left out are calls that found rows of an earlier update whose save failed,
\* or that read behind the end of a row.
UsesVersionOfCall ==
  \A t \in Thread :
    At(t, "done") /\ op[t].ok /\ ~ op[t].tainted
      => \E c \in since[t] :
           IF op[t].kind = "update"
           THEN answer[t] \in UpdatedTexts(c, op[t].req)
           ELSE answer[t] = RangeLines(Parse(c))

\* "Save the changes to the file" (updateEntry): what a call that returns
\* normally set out to write holds the row it was called with, in
\* the first cells of the row of its hash.
ChangesSaved ==
  \A t \in Thread :
    At(t, "done") /\ op[t].ok /\ op[t].kind = "update"
      => \E i \in HashRow(Parse(answer[t]), op[t].req.hash) :
           SubSeq(Parse(answer[t])[i], 1, 4) = NewRow(op[t].req)

\* A table of four columns as the entries of LocStore.
Entry(row) ==
  [hash |-> row[1], val1 |-> row[2], val2 |-> row[3], text |-> row[4]]

Entries(rows) == [i \in DOMAIN rows |-> Entry(rows[i])]

\* A program that is down holds the table that it is going to read.
Store == INSTANCE LocStore WITH
  InitTable <- Entries(Parse(InitText)),
  current   <- Entries(IF phase = "down" THEN Parse(content) ELSE doc),
  saved     <- Entries(Parse(content)),
  Change    <- { Entry(NewRow(r)) : r \in Request }

\* Left to itself, the text store keeps the promise of the binary one: an update
\* replaces the first row of its hash in the document and nothing else ever
\* moves, a save empties the file and then writes exactly the document, and
\* what a refresh or a restart brings back is the file as it is.
ImplementsStore == Store!Spec

=============================================================================
