---------------------------- MODULE LocPackServer ----------------------------
(***************************************************************************)
(* LocPackServer: the routes of the HTTP server over the two stores, the   *)
(* .locpack file (LocPackFile) and the .locpackbin file (LocPackBinFile).  *)
(* Crow runs a handler from start to end on one of its worker threads; an  *)
(* update goes to the binary file first and to the text file second, and   *)
(* nothing undoes the first half when the second fails.                    *)
(*                                                                         *)
(* The steps of the stores are those of the two modules; here a worker     *)
(* carries a request through them.  The two stores spell the same update   *)
(* differently, so a request carries both spellings: the same JSON body as *)
(* bytes for the one and as strings for the other.                         *)
(***************************************************************************)
EXTENDS Integers, Sequences

CONSTANTS
  Base, HalfLen, ValLen, Atom, IntAtom,  \* see LocBinFormat and LocCsv
  Worker,      \* the threads of Crow that run handlers
  Update,      \* updates: records [bin, csv], the request in both spellings
  InitEntry,   \* the entries at the start, as updates that would write them
  InitTable,   \* the same as a table of the .locpackbin file
  InitText,    \* the same as the text of the .locpack file
  NoRequest,   \* no update
  Limit,       \* values of the limit parameter
  Version,     \* texts other programs write into the .locpack file
  Stray, StrayText,    \* what memory beside the stores' own may hold
  MaxBytes, BinFault, CsvFault, FineClock, QuietStart, MaxTime, MaxOutage

VARIABLES
  fileContents, disk, running, binOp, spoilt,     \* LocPackBinFile
  exists, content, mtime, phase, doc, held, freed,    \* LocPackFile
  lastLoadTime, csvOp, answer, outages, unsaved, since,
  task,      \* task[w]: the request worker w handles
  suspect    \* auxiliary: hashes whose last update got only half way

Bin == INSTANCE LocPackBinFile WITH
  Thread <- Worker, op <- binOp, Fault <- BinFault,
  Request <- { u.bin : u \in Update }

Csv == INSTANCE LocPackFile WITH
  Thread <- Worker, op <- csvOp, Fault <- CsvFault, Amount <- Limit,
  Request <- { u.csv : u \in Update }

\* What the two stores assume of their constants.
ASSUME ServerAssumption ==
  /\ Bin!FormatAssumption /\ Bin!RequestAssumption /\ Bin!InitTableAssumption
  /\ Csv!AtomAssumption /\ Csv!FileAssumption

binVars == << fileContents, disk, running, binOp, spoilt >>
csvVars == << exists, content, mtime, phase, doc, held, freed, lastLoadTime,
              csvOp, answer, outages, unsaved, since >>
vars == << binVars, csvVars, task, suspect >>

Free == [pc |-> "idle", route |-> "none", update |-> NoRequest,
         limit |-> 0, code |-> 0, body |-> << >>]

\* The program has not been started.
Init ==
  /\ Csv!Init
  /\ fileContents = << >> /\ disk = Bin!Encode(InitTable) /\ running = FALSE
  /\ binOp = [w \in Worker |-> Bin!Idle] /\ spoilt = FALSE
  /\ task = [w \in Worker |-> Free]
  /\ suspect = {}

Serving == phase = "up" /\ running

At(w, pc) == Serving /\ task[w].pc = pc

-----------------------------------------------------------------------------
\* main: the members of the server are constructed in their order, the
\* text file before the binary file.
Start ==
  \/ /\ Csv!StartRead \/ Csv!StartStat \/ Csv!StartFails
     /\ UNCHANGED << binVars, task, suspect >>
  \/ /\ phase = "up"
     /\ Bin!Restart
     /\ UNCHANGED << csvVars, task, suspect >>

\* Another program works on the .locpack file.
Environment == Csv!Environment /\ UNCHANGED << binVars, task, suspect >>

InFlight == { w \in Worker : task[w].pc \in {"bin", "csv"}
                             /\ task[w].route = "update" }

\* A file that a save has emptied and not yet filled.
HalfSaved ==
  \E w \in Worker : binOp[w].pc \in {"fetch", "write"} \/ csvOp[w].pc = "write"

\* The process ends under the requests it was working on.
Abandon ==
  /\ task' = [w \in Worker |-> Free]
  /\ suspect' = IF HalfSaved THEN { e.bin.hash : e \in InitEntry }
                ELSE suspect \cup { task[w].update.bin.hash : w \in InFlight }

Crash ==
  /\ Csv!Crash
  /\ running' = FALSE
  /\ Abandon
  /\ UNCHANGED << fileContents, disk, binOp, spoilt >>

-----------------------------------------------------------------------------
Begin(w, pc, route, update, limit) ==
  task' = [task EXCEPT ![w] = [Free EXCEPT !.pc = pc, !.route = route,
                                           !.update = update, !.limit = limit]]

\* Mutant: the status is forgotten.
RespondWithoutCode(w, code, body) ==
  task' = [task EXCEPT ![w].pc = "reply", ![w].body = body]

Respond(w, code, body) ==
  task' = [task EXCEPT ![w].pc = "reply", ![w].code = code, ![w].body = body]

\* Answers that need neither store: the preflight, a wrong method, a body that
\* is not JSON or lacks a field, a number that is none, a search for nothing.
AnswerAtOnce(w) ==
  /\ At(w, "idle")
  /\ \E code \in {200, 204, 400, 405, 500} :
       task' = [task EXCEPT ![w] = [Free EXCEPT !.pc = "reply", !.code = code]]
  /\ UNCHANGED << binVars, csvVars, suspect >>

PostUpdate(w, u) ==
  /\ At(w, "idle") /\ mtime < MaxTime
  /\ Bin!Call(w, u.bin)
  /\ Begin(w, "bin", "update", u, 0)
  /\ UNCHANGED << csvVars, suspect >>

GetRange(w, limit) ==
  /\ At(w, "idle")
  /\ Csv!CallRange(w, limit)
  /\ Begin(w, "csv", "range", NoRequest, limit)
  /\ UNCHANGED << binVars, suspect >>

GetSearch(w) ==
  /\ At(w, "idle")
  /\ Csv!CallWhole(w)
  /\ Begin(w, "csv", "search", NoRequest, 0)
  /\ UNCHANGED << binVars, suspect >>

BinStep(w) ==
  /\ At(w, "bin")
  /\ Bin!Step(w)
  /\ IF running'
     THEN UNCHANGED << csvVars, task, suspect >>
     ELSE Csv!Stop /\ Abandon /\ UNCHANGED outages

\* The exception goes to the catch of the route; the text file is not touched.
BinThrew(w) ==
  /\ At(w, "bin") /\ binOp[w].pc = "done" /\ ~ binOp[w].ok
  /\ Bin!Finish(w)
  /\ Respond(w, 500, << >>)
  /\ UNCHANGED << csvVars, suspect >>

\* Mutant: the update stops after the binary file.
BinOnly(w) ==
  /\ At(w, "bin") /\ binOp[w].pc = "done" /\ binOp[w].ok
  /\ Bin!Finish(w)
  /\ Respond(w, 200, << >>)
  /\ UNCHANGED << csvVars, suspect >>

BinReturned(w) ==
  /\ At(w, "bin") /\ binOp[w].pc = "done" /\ binOp[w].ok
  /\ Bin!Finish(w)
  /\ Csv!Call(w, "update", task[w].update.csv, 0)
  /\ task' = [task EXCEPT ![w].pc = "csv"]
  /\ UNCHANGED suspect

CsvStep(w) ==
  /\ At(w, "csv")
  /\ Csv!Step(w)
  /\ IF phase' = "up"
     THEN UNCHANGED << binVars, task, suspect >>
     ELSE /\ running' = FALSE /\ Abandon
          /\ UNCHANGED << fileContents, disk, binOp, spoilt >>

\* The range route drops the header and rows without a hash.  It has no use
\* for limit.
Shown(lines) ==
  SelectSeq(lines, LAMBDA line :
    line.hash # Csv!Str("Hash") /\ line.hash # Csv!Str(""))

\* Mutant: the error of the second store is swallowed.
UpdateAlwaysOk(w) ==
  /\ At(w, "csv") /\ csvOp[w].pc = "done" /\ task[w].route = "update"
  /\ Csv!Finish(w)
  /\ Respond(w, 200, << >>)
  /\ suspect' = suspect \ {task[w].update.bin.hash}
  /\ UNCHANGED binVars

\* 200 "Update Successful", or 500 from the catch of the route.
UpdateDone(w) ==
  /\ At(w, "csv") /\ csvOp[w].pc = "done" /\ task[w].route = "update"
  /\ Csv!Finish(w)
  /\ Respond(w, IF csvOp[w].ok THEN 200 ELSE 500, << >>)
  /\ LET hash == task[w].update.bin.hash
     IN  suspect' = IF csvOp[w].ok THEN suspect \ {hash}
                    ELSE suspect \cup {hash}
  /\ UNCHANGED binVars

RangeDone(w) ==
  /\ At(w, "csv") /\ csvOp[w].pc = "done" /\ task[w].route = "range"
  /\ Csv!Finish(w)
  /\ IF csvOp[w].ok
     THEN Respond(w, 200, Shown(answer[w]))
     ELSE Respond(w, 500, << >>)
  /\ UNCHANGED << binVars, suspect >>

\* Mutant: nobody catches, and the worker is left with the request.
SearchLost(w) ==
  /\ At(w, "csv") /\ csvOp[w].pc = "done" /\ task[w].route = "search"
  /\ csvOp[w].ok
  /\ Csv!Finish(w)
  /\ Respond(w, 200, << >>)
  /\ UNCHANGED << binVars, suspect >>

\* The route has no catch, Crow's router has one.  What the loop collects goes
\* into res, and what is returned is results, which stays empty.
SearchDone(w) ==
  /\ At(w, "csv") /\ csvOp[w].pc = "done" /\ task[w].route = "search"
  /\ Csv!Finish(w)
  /\ Respond(w, IF csvOp[w].ok THEN 200 ELSE 500, << >>)
  /\ UNCHANGED << binVars, suspect >>

Reply(w) ==
  /\ At(w, "reply")
  /\ task' = [task EXCEPT ![w] = Free]
  /\ UNCHANGED << binVars, csvVars, suspect >>

Work(w) ==
  \/ BinStep(w) \/ BinThrew(w) \/ BinReturned(w)
  \/ CsvStep(w) \/ UpdateDone(w) \/ RangeDone(w) \/ SearchDone(w)
  \/ Reply(w)

Next ==
  \/ Start \/ Environment \/ Crash
  \/ \E w \in Worker : \/ AnswerAtOnce(w)
                       \/ \E u \in Update : PostUpdate(w, u)
                       \/ \E limit \in Limit : GetRange(w, limit)
                       \/ GetSearch(w)
                       \/ Work(w)

Spec == Init /\ [][Next]_vars

\* A worker that has a request goes on with it.
FairSpec == Spec /\ \A w \in Worker : WF_vars(Work(w))

-----------------------------------------------------------------------------
\* The server's own state, beside that of the stores.
TypeOK ==
  /\ Bin!TypeOK /\ Csv!TypeOK
  /\ \A w \in Worker :
       /\ task[w].pc \in {"idle", "bin", "csv", "reply"}
       /\ task[w].route \in {"none", "update", "range", "search"}
       /\ task[w].update \in Update \cup {NoRequest}
       /\ task[w].code \in IF task[w].pc = "reply"
                          THEN {200, 204, 400, 405, 500} ELSE {0}
  /\ suspect \subseteq { u.bin.hash : u \in Update \cup InitEntry }

\* What update u asks for, as the search for its hash finds it in the bytes of
\* a .locpackbin file, and as a row of the text of a .locpack file.
BinHas(bytes, u) ==
  \E hb \in Bin!HashBytes(u.bin.hash) : \E p \in Bin!FirstMatch(bytes, hb) :
    Bin!EntryAt(bytes, p) = [u.bin EXCEPT !.hash = hb]

TextHas(text, u) ==
  LET rows == Csv!Parse(text)
  IN  \E i \in Csv!HashRow(rows, u.csv.hash) : rows[i] = Csv!NewRow(u.csv)

\* It is in the binary store, in memory and on disk, and in the .locpack file.
InBin(u) == disk = fileContents /\ BinHas(fileContents, u)

InText(u) == exists /\ TextHas(content, u)

\* What StoresAgree takes for granted: at the start each of InitEntry is in both
\* files, it may be updated, and no other update is taken for one of it: two
\* requests with the same string have the same bytes, the .locpack file knows
\* one string for them, and other bytes never convert to the same hash.
SameEntries ==
  \A e \in InitEntry :
    /\ BinHas(Bin!Encode(InitTable), e) /\ TextHas(InitText, e)
    /\ \E u \in Update : u.bin.hash = e.bin.hash /\ u.csv.hash = e.csv.hash
    /\ Bin!Convertible(e.bin.hash)
    /\ \A u \in Update :
         /\ u.csv.hash = e.csv.hash => u.bin.hash = e.bin.hash
         /\ u.bin.hash = e.bin.hash /\ u.csv.hash # e.csv.hash =>
              Csv!HashRow(Csv!Parse(InitText), u.csv.hash) = {}
         /\ u.bin.hash # e.bin.hash =>
              Bin!HashBytes(u.bin.hash) \cap Bin!HashBytes(e.bin.hash) = {}

\* "Update Successful" is answered when both files hold the update.
OkMeansBoth ==
  \A w \in Worker :
    At(w, "reply") /\ task[w].route = "update" /\ task[w].code = 200
      => InBin(task[w].update) /\ (exists => InText(task[w].update))

\* With no update under way, the two files say the same of every entry, except
\* of those whose last update failed half way or was cut off by a crash: the
\* order of the two stores, their errors and a restart leave nothing else
\* behind, and one successful update makes an entry whole again.
StoresAgree ==
  Serving /\ InFlight = {} /\ exists
    => \A e \in InitEntry :
         e.bin.hash \in suspect
           \/ \E u \in InitEntry \cup Update :
                /\ u.bin.hash = e.bin.hash /\ u.csv.hash = e.csv.hash
                /\ InBin(u) /\ InText(u)

\* Driven by the routes, each store does what a LocStore does: an update replaces
\* the first entry with its hash and nothing else ever moves, whatever the
\* other store, its errors, a crash or a restart does in between. The vector
\* has not been read at first: of the binary store it is the steps that are.
StoresImplemented ==
  /\ [][Bin!Store!Next]_(Bin!Store!storeVars)
  /\ Csv!ImplementsStore

\* Every request that a worker takes up is answered (or dies with the process).
Answered ==
  \A w \in Worker : task[w].pc # "idle" ~> task[w].pc = "idle"

=============================================================================
