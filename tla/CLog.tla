--------------------------------- MODULE CLog ---------------------------------
(* The C programs logappend and logread (G21/proj1SRSD): no lock, and a log    *)
(* kept in two places, the entries and an encrypted header that counts them.   *)
(* A single logappend appends its entry and then rewrites the header; a batch  *)
(* keeps a context per log, buffers its entries and rewrites the headers when  *)
(* it ends. Whatever runs at the same time, and wherever it is killed, a       *)
(* reader should be given a history or nothing.                                *)
(*                                                                             *)
(* A log is known by its path, and one file may go by several.                 *)
(*                                                                             *)
(* Cryptography is perfect: a header or an entry decrypts under the key it was *)
(* made with only, and tags do not repeat. The salt of a log and the tag of an *)
(* entry are named by the process that drew them. A read of the header or of   *)
(* the entries is one step. The buffer of a batch goes out entry by entry.     *)
EXTENDS Gallery

CONSTANTS
  Singles, Batches, Readers,   \* the processes, by what main() makes of them
  Logs, Paths, FileOf,         \* the files, and the names they are given
  Tokens,
  Commands,                    \* the well-formed command lines that may be given
  Queries,                     \* the well-formed queries that may be asked
  CanFail,                     \* processes whose writes may fail
  CanCrash,                    \* processes that may be killed
  MaxLines,                    \* bound: lines in a batch file
  NoSalt, NoHeader, NoTag, NoKey, NoCmd, NoAnswer

Writers == Singles \cup Batches
Procs   == Writers \cup Readers

ASSUME CProcsAssumption == Singles \cap Batches = {} /\ Writers \cap Readers = {}
ASSUME CCommandsAssumption == Commands \subseteq [path: Paths, token: Tokens, entry: Entry]
ASSUME CQueriesAssumption == Queries \subseteq [path: Paths, token: Tokens]
ASSUME CPathsAssumption == FileOf \in [Paths -> Logs]
ASSUME CNullsAssumption == NoSalt \notin Writers /\ NoTag \notin [by: Writers, line: Nat \ {0}]

Tag == [by: Writers, line: Nat \ {0}]
Key == [token: Tokens, salt: Writers]

Sealed(text) == [key: Key, text: text]
HeaderText   == [total_entries: Nat, last_timestamp: Nat, last_tag: Tag \cup {NoTag}]
Header       == Sealed(HeaderText)
Rec          == [seq: Nat, prev_tag: Tag \cup {NoTag}, tag: Tag, body: Sealed(Entry)]

ASSUME CHeaderAssumption == NoHeader \notin Header

\* What follows the last readable entry: part of an EntryMetadata, or more than that.
Ending == {"clean", "metadata", "entry"}
File == [exists: BOOLEAN, salt: Writers \cup {NoSalt}, header: Header \cup {NoHeader},
         recs: Seq(Rec), tail: Ending]
NoFile == [exists |-> FALSE, salt |-> NoSalt, header |-> NoHeader,
           recs |-> << >>, tail |-> "clean"]
EmptyFile == [exists |-> TRUE, salt |-> NoSalt, header |-> NoHeader,
              recs |-> << >>, tail |-> "clean"]

Context == [authenticated: BOOLEAN, state_loaded: BOOLEAN, header_dirty: BOOLEAN,
            key: Key \cup {NoKey}, total_entries: Nat, last_timestamp: Nat,
            last_tag: Tag \cup {NoTag}, loc: [Person -> Place]]
NewContext == [authenticated |-> FALSE, state_loaded |-> FALSE, header_dirty |-> FALSE,
               key |-> NoKey, total_entries |-> 0, last_timestamp |-> 0,
               last_tag |-> NoTag, loc |-> [w \in Person |-> Absent]]

VARIABLES
  files,      \* log -> the file on disk
  pc,         \* where each process is
  cmd,        \* the command or query it is on
  lines,      \* batch lines taken
  ctx,        \* writer -> path -> its LogContext
  buf,        \* writer -> path -> entries in the stdio buffer of ctx->fd
  header,     \* reader: the header it has read
  answer,     \* reader: the history its answer was computed from
  accepted,   \* log -> the entries process_command let through, in order (history)
  disturbed   \* what happened that a careful user avoids (history)

vars == <<files, pc, cmd, lines, ctx, buf, header, answer, accepted, disturbed>>

Init == /\ files     = [l \in Logs |-> NoFile]
        /\ pc        = [p \in Procs |-> "idle"]
        /\ cmd       = [p \in Procs |-> NoCmd]
        /\ lines     = [p \in Procs |-> 0]
        /\ ctx       = [p \in Writers |-> [t \in Paths |-> NewContext]]
        /\ buf       = [p \in Writers |-> [t \in Paths |-> << >>]]
        /\ header    = [p \in Readers |-> NoHeader]
        /\ answer    = [p \in Readers |-> NoAnswer]
        /\ accepted  = [l \in Logs |-> << >>]
        /\ disturbed = {}

------------------------------------------------------------------------------
GoTo(p, where) == pc' = [pc EXCEPT ![p] = where]
Path(p) == cmd[p].path
Log(p)  == FileOf[Path(p)]
Ctx(p)  == ctx[p][Path(p)]

gen_key(token, salt) == [token |-> token, salt |-> salt]
crypt(key, text)     == [key |-> key, text |-> text]
decrypt(key, block)  == block.key = key

\* logread's
decrypt_data(key, block) == block.key = key

\* A single process exits where a batch goes on to its next line.
NextOrDone(p) == IF p \in Batches THEN "next" ELSE "done"

\* What becomes of file f when an entry is written to its end: behind a fragment
\* it cannot be read, and before there is a header it lies where that will be, to
\* be overwritten in whole if it is short.
Put(f, r) ==
  CASE f.tail # "clean" -> {[f EXCEPT !.tail = "entry"]}
    [] f.tail = "clean" /\ f.salt = NoSalt -> {[f EXCEPT !.tail = t] : t \in Ending}
    [] OTHER            -> {[f EXCEPT !.recs = Append(@, r)]}

\* Only some of the bytes of an entry get there.
Cut(f) == {[f EXCEPT !.tail = IF @ = "clean" THEN t ELSE "entry"] : t \in {"metadata", "entry"}}

\* die() and die_integrity() in a single process, die() in a line of a batch.
Refuse(p) == /\ GoTo(p, NextOrDone(p))
             /\ UNCHANGED <<files, cmd, lines, ctx, buf, header, answer, accepted, disturbed>>

\* exit(111) in the middle of a batch: stdio's buffers still go out, no header does.
Abort(p) == /\ GoTo(p, "exiting")
            /\ disturbed' = disturbed \cup {"abort"}
            /\ UNCHANGED <<files, cmd, ctx, buf, header, answer, accepted>>

Active(p) == p \in Writers /\ pc[p] \notin {"idle", "done"}

------------------------------------------------------------------------------
Start(p) ==
  /\ pc[p] = "idle" /\ p \in Writers
  /\ GoTo(p, "next")
  /\ disturbed' = IF \E q \in Writers : Active(q) THEN disturbed \cup {"overlap"} ELSE disturbed
  /\ UNCHANGED <<files, cmd, lines, ctx, buf, header, answer, accepted>>

CanTake(p) == pc[p] = "next" /\ (p \in Batches => lines[p] < MaxLines)

\* parse_args dies: an ordinary refused line.
BadLine(p) ==
  /\ CanTake(p)
  /\ lines' = [lines EXCEPT ![p] = @ + 1]
  /\ GoTo(p, NextOrDone(p))
  /\ UNCHANGED <<files, cmd, ctx, buf, header, answer, accepted, disturbed>>

\* A line of the batch file holds a -B.
NestedBatch(p) == /\ CanTake(p) /\ p \in Batches
                  /\ lines' = [lines EXCEPT ![p] = @ + 1]
                  /\ Abort(p)

NextLine(p) ==
  /\ CanTake(p)
  /\ \E c \in Commands : cmd' = [cmd EXCEPT ![p] = c]
  /\ lines' = [lines EXCEPT ![p] = @ + 1]
  /\ GoTo(p, "authenticate")
  /\ UNCHANGED <<files, ctx, buf, header, answer, accepted, disturbed>>

SetCtx(p, c) == ctx' = [ctx EXCEPT ![p][Path(p)] = c]

\* The header is there and decrypts under the token.
Opens(f, token) == f.header # NoHeader /\ decrypt(gen_key(token, f.salt), f.header)

\* authenticate_log: a context is authenticated once, whatever token a later line
\* gives; a missing file is made; else the header must decrypt.
Authenticate(p) ==
  LET f == files[Log(p)] IN
  /\ pc[p] = "authenticate"
  /\ \/ /\ Ctx(p).authenticated
        /\ GoTo(p, "load") /\ UNCHANGED ctx
     \/ /\ ~Ctx(p).authenticated /\ ~f.exists
        /\ GoTo(p, "open") /\ UNCHANGED ctx
     \/ /\ ~Ctx(p).authenticated /\ f.exists /\ Opens(f, cmd[p].token)
        /\ GoTo(p, "load")
        /\ SetCtx(p, [Ctx(p) EXCEPT !.authenticated  = TRUE,
                                    !.key            = f.header.key,
                                    !.total_entries  = f.header.text.total_entries,
                                    !.last_timestamp = f.header.text.last_timestamp,
                                    !.last_tag       = f.header.text.last_tag])
     \/ /\ ~Ctx(p).authenticated /\ f.exists /\ ~Opens(f, cmd[p].token)
        /\ GoTo(p, NextOrDone(p)) /\ UNCHANGED ctx
  /\ UNCHANGED <<files, cmd, lines, buf, header, answer, accepted, disturbed>>

\* fopen(.., "wb") creates the log, or empties one that has come into being since.
OpenNew(p) ==
  /\ pc[p] = "open"
  /\ files' = [files EXCEPT ![Log(p)] = EmptyFile]
  /\ GoTo(p, "create")
  /\ UNCHANGED <<cmd, lines, ctx, buf, header, answer, accepted, disturbed>>

NewKey(p) == gen_key(cmd[p].token, p)

EmptyHeader == [total_entries |-> 0, last_timestamp |-> 0, last_tag |-> NoTag]

\* Mutant of WriteNew: the key goes into the header and not into the context.
WriteNewForgetsKey(p) ==
  /\ pc[p] = "create"
  /\ files' = [files EXCEPT ![Log(p)].salt = p, ![Log(p)].header = crypt(NewKey(p), EmptyHeader)]
  /\ SetCtx(p, [NewContext EXCEPT !.authenticated = TRUE])
  /\ GoTo(p, "load")
  /\ UNCHANGED <<cmd, lines, buf, header, answer, accepted, disturbed>>

\* Salt and empty header go out when the file is closed, over what others appended.
WriteNew(p) ==
  /\ pc[p] = "create"
  /\ files' = [files EXCEPT ![Log(p)].salt = p, ![Log(p)].header = crypt(NewKey(p), EmptyHeader)]
  /\ SetCtx(p, [NewContext EXCEPT !.authenticated = TRUE, !.key = NewKey(p)])
  /\ GoTo(p, "load")
  /\ UNCHANGED <<cmd, lines, buf, header, answer, accepted, disturbed>>

\* No file handle or no salt: authenticate_log returns 0.
OpenFails(p) == pc[p] = "open" /\ p \in CanFail /\ Refuse(p)

\* The file stays too short to hold a header: the write fails at fclose(), which
\* nobody looks at, or the header cannot be made and authenticate_log returns 0.
WriteNewFails(p) ==
  /\ pc[p] = "create" /\ p \in CanFail
  /\ \/ /\ SetCtx(p, [NewContext EXCEPT !.authenticated = TRUE, !.key = NewKey(p)])
        /\ GoTo(p, "load")
     \/ /\ GoTo(p, NextOrDone(p))
        /\ UNCHANGED ctx
  /\ disturbed' = disturbed \cup {"failure"}
  /\ UNCHANGED <<files, cmd, lines, buf, header, answer, accepted>>

Linked(rs, i) == i > 1 => rs[i].prev_tag = rs[i-1].tag

\* load_state's pass over the entries, down to the count in the header.
Loads(key, total_entries, f) ==
  /\ f.tail # "entry"
  /\ \A i \in 1..Len(f.recs) : /\ f.recs[i].seq = i
                               /\ Linked(f.recs, i)
                               /\ decrypt(key, f.recs[i].body)
  /\ Len(f.recs) = total_entries

Entries(rs) == [i \in 1..Len(rs) |-> rs[i].body.text]

\* Each entry carries where it left its person.
LastPlace(es, w) == CHOOSE pl \in Place : PlacedAt(es, Len(es), w, pl)

\* load_state: a log whose header counts no entry is not looked at.
Load(p) ==
  LET c == Ctx(p)  f == files[Log(p)] IN
  /\ pc[p] = "load"
  /\ \/ /\ c.state_loaded
        /\ GoTo(p, "process") /\ UNCHANGED <<ctx, disturbed>>
     \/ /\ ~c.state_loaded /\ c.total_entries = 0
        /\ GoTo(p, "process")
        /\ SetCtx(p, [c EXCEPT !.state_loaded = TRUE])
        /\ UNCHANGED disturbed
     \/ /\ ~c.state_loaded /\ c.total_entries > 0 /\ Loads(c.key, c.total_entries, f)
        /\ GoTo(p, "process")
        /\ SetCtx(p, [c EXCEPT !.state_loaded = TRUE,
                               !.loc = [w \in Person |-> LastPlace(Entries(f.recs), w)]])
        /\ UNCHANGED disturbed
     \/ /\ ~c.state_loaded /\ c.total_entries > 0 /\ ~Loads(c.key, c.total_entries, f)
        /\ IF p \in Batches THEN GoTo(p, "exiting") /\ disturbed' = disturbed \cup {"abort"}
                            ELSE GoTo(p, "done") /\ UNCHANGED disturbed
        /\ UNCHANGED ctx
  /\ UNCHANGED <<files, cmd, lines, buf, header, answer, accepted>>

get_last_timestamp(c)  == IF c.total_entries = 0 THEN -1 ELSE c.last_timestamp
get_person_state(c, w) == c.loc[w]

\* Mutant of Accepts: the timestamp is checked, the transition is not.
AcceptsLater(c, e) == get_last_timestamp(c) < e.timestamp

\* The timestamp and transition checks of process_command.
Accepts(c, e) == /\ get_last_timestamp(c) < e.timestamp
                 /\ get_person_state(c, e.who) = From(e)

Reject(p) == pc[p] = "process" /\ ~Accepts(Ctx(p), cmd[p].entry) /\ Refuse(p)

\* Mutant of NewRec: the key is derived again from the token of the line.
NewRecRekeyed(p) ==
  [seq |-> Ctx(p).total_entries + 1, prev_tag |-> Ctx(p).last_tag,
   tag |-> [by |-> p, line |-> lines[p]],
   body |-> crypt(gen_key(cmd[p].token, Ctx(p).key.salt), cmd[p].entry)]

\* Under the key of the context, whatever token the line gives.
NewRec(p) ==
  [seq |-> Ctx(p).total_entries + 1, prev_tag |-> Ctx(p).last_tag,
   tag |-> [by |-> p, line |-> lines[p]], body |-> crypt(Ctx(p).key, cmd[p].entry)]

\* Mutant of Advanced: update_person_state is left out.
AdvancedKeepsPlace(p) ==
  [Ctx(p) EXCEPT !.total_entries  = @ + 1,
                 !.last_timestamp = cmd[p].entry.timestamp,
                 !.last_tag       = NewRec(p).tag,
                 !.header_dirty   = TRUE]

update_person_state(c, e) == [c EXCEPT !.loc[e.who] = To(e)]

\* The context after append_log and update_person_state.
Advanced(p) ==
  update_person_state([Ctx(p) EXCEPT !.total_entries  = @ + 1,
                                     !.last_timestamp = cmd[p].entry.timestamp,
                                     !.last_tag       = NewRec(p).tag,
                                     !.header_dirty   = TRUE], cmd[p].entry)

\* append_log: the entry is in stdio's hands, a single process closes at once.
AppendLog(p) ==
  /\ pc[p] = "process" /\ Accepts(Ctx(p), cmd[p].entry)
  /\ buf' = [buf EXCEPT ![p][Path(p)] = Append(@, NewRec(p))]
  /\ SetCtx(p, Advanced(p))
  /\ accepted' = [accepted EXCEPT ![Log(p)] = Append(@, cmd[p].entry)]
  /\ GoTo(p, IF p \in Batches THEN "next" ELSE "closing")
  /\ UNCHANGED <<files, cmd, lines, header, answer, disturbed>>

\* No file handle, random bytes or cipher: die(), before anything has changed.
AppendDies(p) == pc[p] = "process" /\ p \in CanFail /\ Refuse(p)

------------------------------------------------------------------------------
\* A full buffer, fclose() or exit().
Flush(p, t) ==
  /\ buf[p][t] # << >>
  /\ \E f \in Put(files[FileOf[t]], Head(buf[p][t])) : files' = [files EXCEPT ![FileOf[t]] = f]
  /\ buf' = [buf EXCEPT ![p][t] = Tail(@)]
  /\ UNCHANGED <<pc, cmd, lines, ctx, header, answer, accepted, disturbed>>

\* The write fails; nobody looks at what fclose() returns.
FlushFails(p, t) ==
  /\ buf[p][t] # << >> /\ p \in CanFail
  /\ \E f \in {files[FileOf[t]]} \cup Cut(files[FileOf[t]]) : files' = [files EXCEPT ![FileOf[t]] = f]
  /\ buf' = [buf EXCEPT ![p][t] = Tail(@)]
  /\ disturbed' = disturbed \cup {"failure"}
  /\ UNCHANGED <<pc, cmd, lines, ctx, header, answer, accepted>>

EndOfFile(p) == /\ pc[p] = "next" /\ p \in Batches
                /\ GoTo(p, "closing")
                /\ UNCHANGED <<files, cmd, lines, ctx, buf, header, answer, accepted, disturbed>>

HeaderOf(c) == [total_entries |-> c.total_entries, last_timestamp |-> c.last_timestamp,
                last_tag |-> c.last_tag]

\* Mutant of UpdateHeader: the header goes out ahead of the entries it counts.
UpdateHeaderFirst(p, t) ==
  LET c == ctx[p][t] IN
  /\ pc[p] = "closing" /\ c.header_dirty
  /\ \/ /\ files[FileOf[t]].salt = NoSalt
        /\ GoTo(p, "exiting") /\ UNCHANGED <<files, ctx>>
     \/ /\ files' = IF files[FileOf[t]].salt = NoSalt THEN files
                    ELSE [files EXCEPT ![FileOf[t]].header = crypt(c.key, HeaderOf(c))]
        /\ ctx' = [ctx EXCEPT ![p][t].header_dirty = FALSE]
        /\ UNCHANGED pc
  /\ UNCHANGED <<cmd, lines, buf, header, answer, accepted, disturbed>>

\* update_header, once the entries are out. In a file too short to hold a salt it
\* dies, or takes the bytes of an entry for one: then nobody can read the header.
UpdateHeader(p, t) ==
  LET c == ctx[p][t] IN
  /\ pc[p] = "closing" /\ c.header_dirty /\ buf[p][t] = << >>
  /\ \/ /\ files[FileOf[t]].salt = NoSalt
        /\ GoTo(p, "exiting") /\ UNCHANGED <<files, ctx>>
     \/ /\ files' = IF files[FileOf[t]].salt = NoSalt THEN files
                    ELSE [files EXCEPT ![FileOf[t]].header = crypt(c.key, HeaderOf(c))]
        /\ ctx' = [ctx EXCEPT ![p][t].header_dirty = FALSE]
        /\ UNCHANGED pc
  /\ UNCHANGED <<cmd, lines, buf, header, answer, accepted, disturbed>>

\* Nor here: the old header stays, or a part of the new one is written over it.
UpdateHeaderFails(p, t) ==
  /\ pc[p] = "closing" /\ p \in CanFail /\ ctx[p][t].header_dirty /\ buf[p][t] = << >>
  /\ files[FileOf[t]].salt # NoSalt
  /\ \/ UNCHANGED files
     \/ files' = [files EXCEPT ![FileOf[t]].header = NoHeader]
  /\ ctx' = [ctx EXCEPT ![p][t].header_dirty = FALSE]
  /\ disturbed' = disturbed \cup {"failure"}
  /\ UNCHANGED <<pc, cmd, lines, buf, header, answer, accepted>>

Exit(p) ==
  /\ \A t \in Paths : buf[p][t] = << >>
  /\ \/ pc[p] = "exiting"
     \/ pc[p] = "closing" /\ \A t \in Paths : ~ctx[p][t].header_dirty
  /\ GoTo(p, "done")
  /\ UNCHANGED <<files, cmd, lines, ctx, buf, header, answer, accepted, disturbed>>

\* Killed: what stdio holds is lost, a write under way may be cut.
Crash(p) ==
  /\ p \in CanCrash /\ Active(p)
  /\ \/ UNCHANGED files
     \/ \E t \in Paths : /\ buf[p][t] # << >>
                         /\ \E f \in Cut(files[FileOf[t]]) : files' = [files EXCEPT ![FileOf[t]] = f]
     \/ \E t \in Paths : /\ pc[p] = "closing" /\ ctx[p][t].header_dirty
                         /\ buf[p][t] = << >> /\ files[FileOf[t]].salt # NoSalt
                         /\ files' = [files EXCEPT ![FileOf[t]].header = NoHeader]
  /\ buf' = [buf EXCEPT ![p] = [t \in Paths |-> << >>]]
  /\ GoTo(p, "done")
  /\ disturbed' = disturbed \cup {"crash"}
  /\ UNCHANGED <<cmd, lines, ctx, header, answer, accepted>>

------------------------------------------------------------------------------
Ask(p) == /\ pc[p] = "idle" /\ p \in Readers
          /\ \E q \in Queries : cmd' = [cmd EXCEPT ![p] = q]
          /\ GoTo(p, "header")
          /\ UNCHANGED <<files, lines, ctx, buf, header, answer, accepted, disturbed>>

ReadHeader(p) ==
  LET f == files[Log(p)] IN
  /\ pc[p] = "header"
  /\ IF f.header # NoHeader /\ decrypt_data(gen_key(cmd[p].token, f.salt), f.header)
       THEN header' = [header EXCEPT ![p] = f.header] /\ GoTo(p, "entries")
       ELSE GoTo(p, "refused") /\ UNCHANGED header
  /\ UNCHANGED <<files, cmd, lines, ctx, buf, answer, accepted, disturbed>>

\* Mutant of Reads: entries are decrypted and counted, not chained.
ReadsUnchained(h, f) ==
  /\ Len(f.recs) >= h.text.total_entries
  /\ \A i \in 1..h.text.total_entries :
       /\ decrypt_data(h.key, f.recs[i].body)
       /\ i > 1 => f.recs[i].body.text.timestamp > f.recs[i-1].body.text.timestamp

\* logread's loop takes as many entries as the header it read counts, and
\* process_line wants the timestamps to grow.
Reads(h, f) ==
  /\ Len(f.recs) >= h.text.total_entries
  /\ \A i \in 1..h.text.total_entries :
       /\ f.recs[i].seq = i
       /\ IF i = 1 THEN f.recs[i].prev_tag = NoTag ELSE Linked(f.recs, i)
       /\ decrypt_data(h.key, f.recs[i].body)
       /\ i > 1 => f.recs[i].body.text.timestamp > f.recs[i-1].body.text.timestamp

ReadEntries(p) ==
  LET f == files[Log(p)]  h == header[p] IN
  /\ pc[p] = "entries"
  /\ IF Reads(h, f)
       THEN /\ answer' = [answer EXCEPT ![p] = Entries(SubSeq(f.recs, 1, h.text.total_entries))]
            /\ GoTo(p, "done")
       ELSE GoTo(p, "refused") /\ UNCHANGED answer
  /\ UNCHANGED <<files, cmd, lines, ctx, buf, header, accepted, disturbed>>

Write(p) == \/ Start(p) \/ BadLine(p) \/ NestedBatch(p) \/ NextLine(p)
            \/ Authenticate(p) \/ OpenNew(p) \/ OpenFails(p)
            \/ WriteNew(p) \/ WriteNewFails(p) \/ Load(p) \/ Reject(p) \/ AppendLog(p) \/ AppendDies(p)
            \/ EndOfFile(p) \/ Exit(p) \/ Crash(p)
            \/ \E t \in Paths : \/ Flush(p, t) \/ FlushFails(p, t)
                                \/ UpdateHeader(p, t) \/ UpdateHeaderFails(p, t)

ReadLog(p) == Ask(p) \/ ReadHeader(p) \/ ReadEntries(p)

Next == \/ \E p \in Writers : Write(p)
        \/ \E p \in Readers : ReadLog(p)

Spec == Init /\ [][Next]_vars

------------------------------------------------------------------------------
\* Type invariant.
TypeOK ==
  /\ files \in [Logs -> File]
  /\ pc \in [Procs -> {"idle", "next", "authenticate", "open", "create", "load", "process",
                       "closing", "exiting", "done", "header", "entries", "refused"}]
  /\ cmd \in [Procs -> Commands \cup Queries \cup {NoCmd}]
  /\ lines \in [Procs -> Nat]
  /\ ctx \in [Writers -> [Paths -> Context]]
  /\ buf \in [Writers -> [Paths -> Seq(Rec)]]
  /\ header \in [Readers -> Header \cup {NoHeader}]
  /\ answer \in [Readers -> Seq(Entry) \cup {NoAnswer}]
  /\ accepted \in [Logs -> Seq(Entry)]
  /\ disturbed \subseteq {"overlap", "abort", "failure", "crash"}

(* Without any lock, and wherever writers are killed or fail, a reader is never *)
(* answered from entries that do not make a history of the gallery: entries of  *)
(* writers that overlapped do not fit into one chain.                           *)
AnswersAreHistories == \A p \in Readers : answer[p] # NoAnswer => ValidLog(answer[p])

Idle == \A p \in Writers : ~Active(p)

(* Writers run one at a time, and none is killed, fails or exits from a batch:  *)
(* then between them the header counts the entries, which are those accepted,   *)
(* in one chain under one key, that of the token that founded the log, for the  *)
(* next writer to load, though a batch never looks at the token of later lines. *)
CleanLogLoads ==
  disturbed = {} /\ Idle => \A l \in Logs :
    LET f == files[l] IN
    \/ ~f.exists /\ accepted[l] = << >>
    \/ /\ f.tail = "clean" /\ Entries(f.recs) = accepted[l]
       /\ f.header # NoHeader /\ f.header.key.salt = f.salt
       /\ Loads(f.header.key, f.header.text.total_entries, f)
       /\ f.recs # << >> => LET last == f.recs[Len(f.recs)] IN
            /\ f.header.text.last_tag = last.tag
            /\ f.header.text.last_timestamp = last.body.text.timestamp

(* The context a batch keeps for a log over its lines agrees with every entry   *)
(* accepted, though none of them need have reached the file; as long as writers *)
(* run one at a time, and none is killed, fails or exits from a batch.          *)
ContextCurrent ==
  disturbed = {} => \A p \in Writers, t \in Paths :
    LET c == ctx[p][t]  es == accepted[FileOf[t]] IN
    pc[p] = "next" /\ c.state_loaded =>
      /\ c.total_entries = Len(es)
      /\ es # << >> => c.last_timestamp = es[Len(es)].timestamp
      /\ \A w \in Person : PlacedAt(es, Len(es), w, c.loc[w])

\* The file has been created and its header is yet to be written.
BeingMade(l) == files[l] = EmptyFile /\ \E w \in Writers : pc[w] = "create" /\ Log(w) = l

(* While writers run one at a time, and none is killed, fails or exits from a   *)
(* batch, a reader is refused for one of three reasons only: there is no log,   *)
(* it is just being made, or the token is not the log's. Once the header has    *)
(* been read the answer is certain: it never counts an entry that is not in the *)
(* file, and what the writer does next takes nothing back.                      *)
ReaderServed ==
  [][\A p \in Readers :
       pc[p] \in {"header", "entries"} /\ pc'[p] = "refused" /\ disturbed = {} =>
         LET f == files[Log(p)] IN
         /\ pc[p] = "header"
         /\ \/ ~f.exists
            \/ BeingMade(Log(p))
            \/ f.header # NoHeader /\ f.header.key.token # cmd[p].token]_vars

(* process_command validates every command in full (its comment), by the state  *)
(* in memory: what it accepts may follow what it has accepted before.           *)
AcceptedAreLegal == disturbed = {} => \A l \in Logs : ValidLog(accepted[l])

(* Headers are updated after a batch completes (run_batch's comment), also      *)
(* when a line makes the batch exit: what it accepted is in the next header.    *)
BatchUpdatesHeaders ==
  disturbed \subseteq {"abort"} /\ Idle => \A l \in Logs :
    files[l].exists => files[l].header.text.total_entries = Len(accepted[l])
===============================================================================
