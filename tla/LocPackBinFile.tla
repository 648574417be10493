--------------------------- MODULE LocPackBinFile ---------------------------
(***************************************************************************)
(* LocPackBinFile: the binary file held in memory as one vector of bytes,  *)
(* and updateEntry, which any worker thread of the server calls without a  *)
(* lock.  The steps of a call that another thread, or a crash, can come    *)
(* between are actions of their own.                                       *)
(*                                                                         *)
(* Disk: opening the ofstream empties the file, the write fills it; neither*)
(* result is looked at.  A write that reaches the disk late or in part     *)
(* leaves a prefix.  The file is read once, by the constructor.            *)
(*                                                                         *)
(* Undefined behaviour: an access past the end of the vector.  A read      *)
(* yields any length.  An erase past the end stops the process or, as in   *)
(* libstdc++, cuts the vector short.  The insertion that follows stops the *)
(* process or lengthens the vector by the size of the new entry: stray     *)
(* bytes stand between the old end and the place of the entry, of which    *)
(* only what fits into the new length is kept.  A save that another thread *)
(* changes the vector under writes its old bytes, its new ones or others.  *)
(***************************************************************************)
EXTENDS LocBinFormat

CONSTANTS
  Thread,     \* the worker threads
  Request,    \* the updates that may be asked for
  NoRequest,  \* no update
  InitTable,  \* the entries of the file at the start
  Stray,      \* the bytes that memory beside the vector may hold
  MaxBytes,   \* bound: no update begins on a vector longer than this
  Fault       \* what may go wrong on disk: a subset of {"open", "write"}

ASSUME RequestAssumption ==
  /\ Request \subseteq [hash : Seq(Byte), val1 : [1 .. ValLen -> Byte],
                        val2 : [1 .. ValLen -> Byte], text : Seq(Byte)]
  /\ \A r \in Request : Len(r.hash) % 2 = 0
  /\ NoRequest \notin Request
  /\ Stray \subseteq Byte /\ MaxBytes \in Nat

ASSUME InitTableAssumption == Encode(InitTable) \in Seq(Byte)

VARIABLES
  fileContents,  \* the vector of bytes
  disk,          \* the bytes of the file
  running,       \* the process is up
  op,            \* op[t]: the call of updateEntry that thread t is in
  spoilt         \* auxiliary: bytes that are no entry have been inserted

binVars == << fileContents, disk, running, op, spoilt >>

Idle == [pc |-> "idle", req |-> NoRequest, findIdx |-> 0,
         oldTotalSize |-> 0, newEntry |-> << >>, output |-> << >>,
         ok |-> FALSE]

Init ==
  /\ fileContents = Encode(InitTable)
  /\ disk = Encode(InitTable)
  /\ running = TRUE
  /\ op = [t \in Thread |-> Idle]
  /\ spoilt = FALSE

At(t, pc) == running /\ op[t].pc = pc

\* The call of t goes on as c.
Become(t, c) == op' = [op EXCEPT ![t] = c]

Goto(t, pc) == Become(t, [op[t] EXCEPT !.pc = pc])

Throw(t) ==
  /\ Become(t, [op[t] EXCEPT !.pc = "done", !.ok = FALSE])
  /\ UNCHANGED << fileContents, disk, running, spoilt >>

\* Undefined behaviour or a kill ends the process.
Die == running' = FALSE /\ UNCHANGED << fileContents, disk, op, spoilt >>

-----------------------------------------------------------------------------
Call(t, r) ==
  /\ At(t, "idle")
  /\ Len(fileContents) <= MaxBytes
  /\ Become(t, [Idle EXCEPT !.pc = "search", !.req = r])
  /\ UNCHANGED << fileContents, disk, running, spoilt >>

\* convertHash throws std::out_of_range.
BadHash(t) ==
  /\ At(t, "search")
  /\ ~ Convertible(op[t].req.hash)
  /\ Throw(t)

\* "Hash not found for update."
NotFound(t) ==
  /\ At(t, "search")
  /\ Convertible(op[t].req.hash)
  /\ \E hb \in HashBytes(op[t].req.hash) : Matches(fileContents, hb) = {}
  /\ Throw(t)

\* The place and the length of the old entry, and the bytes of the new one.
Found(t) ==
  /\ At(t, "search")
  /\ Convertible(op[t].req.hash)
  /\ \E hb \in HashBytes(op[t].req.hash) :
     \E p \in FirstMatch(fileContents, hb) :
     \E oldTotalSize \in OldTotalSizes(fileContents, p) :
       Become(t, [op[t] EXCEPT !.pc = "erase",
                               !.findIdx = p,
                               !.oldTotalSize = oldTotalSize,
                               !.newEntry = NewEntry(hb, op[t].req)])
  /\ UNCHANGED << fileContents, disk, running, spoilt >>

\* Bytes by which the old entry reaches past the end of the vector.
Overshoot(t) ==
  op[t].findIdx + op[t].oldTotalSize - 1 - Len(fileContents)

EraseOld(t) ==
  /\ At(t, "erase")
  /\ Overshoot(t) <= 0
  /\ fileContents' = Erase(fileContents, op[t].findIdx, op[t].oldTotalSize)
  /\ Goto(t, "insert")
  /\ UNCHANGED << disk, running, spoilt >>

ErasePastEnd(t) ==
  /\ At(t, "erase")
  /\ Overshoot(t) > 0
  /\ \/ Die
     \/ /\ op[t].findIdx - 1 >= Overshoot(t)
        /\ fileContents' =
             SubSeq(fileContents, 1, op[t].findIdx - 1 - Overshoot(t))
        /\ Goto(t, "insert")
        /\ UNCHANGED << disk, running, spoilt >>

InsertNew(t) ==
  /\ At(t, "insert")
  /\ op[t].findIdx <= Len(fileContents) + 1
  /\ fileContents' = Insert(fileContents, op[t].findIdx, op[t].newEntry)
  /\ spoilt' = (spoilt \/ Len(op[t].req.text) >= LenMod)
  /\ Goto(t, "open")
  /\ UNCHANGED << disk, running >>

InsertPastEnd(t) ==
  /\ At(t, "insert")
  /\ op[t].findIdx > Len(fileContents) + 1
  /\ \/ Die
     \/ /\ \E stray \in [1 .. op[t].findIdx - 1 - Len(fileContents) -> Stray] :
             fileContents' = SubSeq(fileContents \o stray \o op[t].newEntry,
                                    1, Len(fileContents) + Len(op[t].newEntry))
        /\ spoilt' = TRUE
        /\ Goto(t, "open")
        /\ UNCHANGED << disk, running >>

Return(t) == Become(t, [op[t] EXCEPT !.pc = "done", !.ok = TRUE])

\* Mutant: the file is opened without truncation.
OpenWithoutTruncation(t) ==
  /\ At(t, "open")
  /\ Goto(t, "fetch")
  /\ UNCHANGED << fileContents, disk, running, spoilt >>

\* std::ofstream output(filePath, std::ios::binary) truncates.
OpenOutput(t) ==
  /\ At(t, "open")
  /\ disk' = << >>
  /\ Goto(t, "fetch")
  /\ UNCHANGED << fileContents, running, spoilt >>

\* The open fails: output.write does nothing and nobody asks.
OpenFails(t) ==
  /\ At(t, "open")
  /\ "open" \in Fault
  /\ Return(t)
  /\ UNCHANGED << fileContents, disk, running, spoilt >>

\* The arguments of output.write: where the bytes are, and how many.
FetchOutput(t) ==
  /\ At(t, "fetch")
  /\ Become(t, [op[t] EXCEPT !.pc = "write", !.output = fileContents])
  /\ UNCHANGED << fileContents, disk, running, spoilt >>

\* What the write finds there: if another thread has changed the vector since,
\* the old bytes, the new ones or others, and behind the new ones anything.
Written(t) ==
  LET n == Len(op[t].output)
  IN  IF fileContents = op[t].output THEN {fileContents}
      ELSE { SubSeq(bytes \o stray, 1, n) :
               bytes \in {op[t].output, fileContents, << >>},
               stray \in [1 .. n -> Stray] }

Saved(t) ==
  Become(t, [op[t] EXCEPT !.pc = "done", !.output = << >>, !.ok = TRUE])

\* The stream writes from the start of the file: bytes that another thread
\* wrote further on since the open stay.
WriteOutput(t) ==
  /\ At(t, "write")
  /\ \E bytes \in Written(t) :
       disk' = bytes \o SubSeq(disk, Len(bytes) + 1, Len(disk))
  /\ Saved(t)
  /\ UNCHANGED << fileContents, running, spoilt >>

WriteFails(t) ==
  /\ At(t, "write")
  /\ "write" \in Fault
  /\ \E bytes \in Written(t) : \E n \in 0 .. Len(bytes) - 1 :
       disk' = SubSeq(bytes, 1, n)
  /\ Saved(t)
  /\ UNCHANGED << fileContents, running, spoilt >>

\* The caller has the result.
Finish(t) ==
  /\ At(t, "done")
  /\ Become(t, Idle)
  /\ UNCHANGED << fileContents, disk, running, spoilt >>

Step(t) ==
  \/ BadHash(t) \/ NotFound(t) \/ Found(t)
  \/ EraseOld(t) \/ ErasePastEnd(t)
  \/ InsertNew(t) \/ InsertPastEnd(t)
  \/ OpenOutput(t) \/ OpenFails(t)
  \/ FetchOutput(t) \/ WriteOutput(t) \/ WriteFails(t)

Crash == running /\ Die

\* The constructor: loadBinaryFile reads the whole file, whatever its size.
Restart ==
  /\ ~ running
  /\ running' = TRUE
  /\ fileContents' = disk
  /\ op' = [t \in Thread |-> Idle]
  /\ UNCHANGED << disk, spoilt >>

Next ==
  \/ \E t \in Thread : \/ \E r \in Request : Call(t, r)
                       \/ Step(t)
                       \/ Finish(t)
  \/ Crash
  \/ Restart

Spec == Init /\ [][Next]_binVars

-----------------------------------------------------------------------------
PC == {"idle", "search", "erase", "insert", "open", "fetch", "write",
       "done"}

CallRecord == [pc : PC, req : Request \cup {NoRequest}, findIdx : Nat,
               oldTotalSize : Nat, newEntry : Seq(Byte), output : Seq(Byte),
               ok : BOOLEAN]

\* The vector and the file hold bytes, and a call's locals have the types of
\* the variables of updateEntry.
TypeOK ==
  /\ fileContents \in Seq(Byte)
  /\ disk \in Seq(Byte)
  /\ running \in BOOLEAN
  /\ op \in [Thread -> CallRecord]
  /\ spoilt \in BOOLEAN

\* Outside the window from the erase to the end of the save, the file on disk
\* is byte for byte the vector: what a restart loads is what clients were
\* shown (the erase, insert and write at the end of updateEntry).
InSync ==
  running /\ (\A t \in Thread : op[t].pc \notin {"insert", "open", "fetch", "write"})
    => disk = fileContents

\* An updateEntry that returned has left a file from which the entry's text
\* reads back as far as the length field can tell of it, whatever the lengths of
\* the old and the new text ("handles variable length", main.cpp): whole, if it
\* is shorter than LenMod, and otherwise as little as the wrapped length says,
\* even behind the remains of longer texts.  Left out is an entry that was
\* inserted past the end of the vector, and so not in full.
VariableLength ==
  \A t \in Thread :
    running /\ op[t].pc = "done" /\ op[t].ok
      /\ op[t].findIdx + Len(op[t].newEntry) - 1 <= Len(fileContents)
      => \E hb \in HashBytes(op[t].req.hash) :
           getTextByHash(fileContents, hb) = {StoredText(op[t].req.text)}

\* A file that divides into entries.
Framed(bytes) == \A i \in DOMAIN Decode(bytes) : Decode(bytes)[i] # Torn

\* No step of a running process makes a file that divides into entries into
\* one that does not, as long as every insertion was that of an entry: only a
\* bad save and a restart can, and an update of the file they leave may reach
\* past its end (the erase must end where the next entry begins, and the new
\* length must match the new text).
KeepsFraming ==
  [][running /\ running' /\ ~ spoilt' /\ Framed(fileContents)
       => Framed(fileContents')]_binVars

\* The vector as the caller sees it: between the erase and the insert the
\* new entry counts as present.
Settled ==
  IF \E t \in Thread : op[t].pc = "insert"
  THEN LET t == CHOOSE u \in Thread : op[u].pc = "insert"
       IN  Insert(fileContents, op[t].findIdx, op[t].newEntry)
  ELSE fileContents

\* The entry that a request asks for, under the bytes of its hash.
EntryOf(hb, r) ==
  [hash |-> hb, val1 |-> r.val1, val2 |-> r.val2, text |-> r.text]

Store == INSTANCE LocStore WITH
  current <- Decode(Settled),
  saved   <- Decode(disk),
  Change  <- UNION { { EntryOf(hb, r) : hb \in HashBytes(r.hash) } : r \in Request }

\* The bytes, read as a table of entries, behave as LocStore: an update
\* replaces the first entry with the hash and nothing else ever moves.
ImplementsStore == Store!Spec

(***************************************************************************)
(* What updateEntry takes for granted of the file and of what it is asked  *)
(* to write, since it looks for a hash in all bytes of the file.           *)
(***************************************************************************)
\* Requests that get as far as the search.
Searchable == { r \in Request : Convertible(r.hash) }

\* The entries that a table can come to hold: updates add no hash, and an entry
\* whose length wraps is none.
Known ==
  LET start == { InitTable[i] : i \in DOMAIN InitTable }
      hashes == { e.hash : e \in start }
      fits == { r \in Searchable : Len(r.text) < LenMod }
  IN  start \cup UNION { { EntryOf(hb, r) : hb \in HashBytes(r.hash) \cap hashes } :
                           r \in fits }

Image(e) == NewEntry(e.hash, e)

\* The length of a text fits into its two bytes.
WellFormed(e) ==
  /\ e \in [hash : Seq(Byte), val1 : [1 .. ValLen -> Byte],
            val2 : [1 .. ValLen -> Byte], text : Seq(Byte)]
  /\ Len(e.hash) = HashLen
  /\ Len(e.text) < LenMod

\* In two entries, one behind the other, the bytes of a hash that may be
\* asked for are found nowhere but where an entry begins.
Unambiguous ==
  \A d, e \in Known : \A r \in Searchable : \A hb \in HashBytes(r.hash) :
    Matches(Image(d) \o Image(e), hb) \subseteq {1, Len(Image(d)) + 1}

\* No text is longer than its length can say.
ShortTexts == \A r \in Request : Len(r.text) < LenMod

ProperFile ==
  /\ InitTable \in Seq(Known)
  /\ \A e \in Known : WellFormed(e)
  /\ Unambiguous

=============================================================================
