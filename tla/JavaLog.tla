------------------------------- MODULE JavaLog -------------------------------
(* The Java programs LogAppend and LogRead (G01/SRSD_GalleryLog): no lock, no  *)
(* state kept between the lines of a batch; every command finds out whether    *)
(* the log exists, then either creates it or loads, checks and appends. What   *)
(* keeps a reader from being told nonsense is the chain of record hashes and   *)
(* CREATE_NEW alone.                                                           *)
(*                                                                             *)
(* Cryptography is perfect: a record decrypts under the key it was made with   *)
(* only, and its hash is as good as its name, the line it was written for. The *)
(* salt of a log is named by the process that drew it. One readAllBytes, one   *)
(* append and one flush of the new file are each one step; a write that is not *)
(* reported may have left nothing, part of its bytes or all of them.           *)
EXTENDS Gallery

CONSTANTS
  Singles, Batches, Readers,   \* the processes, by what main() makes of them
  Logs, Tokens,
  Commands,                    \* the well-formed command lines that may be given
  Queries,                     \* the well-formed queries that may be asked
  CanFail,                     \* processes whose writes may fail
  CanCrash,                    \* processes that may be killed
  MaxLines,                    \* bound: lines in a batch file
  NoSalt, NoHash, NoCmd, NoAnswer, Lost

Writers == Singles \cup Batches
Procs   == Writers \cup Readers

ASSUME JProcsAssumption == Singles \cap Batches = {} /\ Writers \cap Readers = {}
ASSUME JCommandsAssumption == Commands \subseteq [log: Logs, token: Tokens, entry: Entry]
ASSUME JQueriesAssumption == Queries \subseteq [log: Logs, token: Tokens, mode: {"S", "R"}]

Hash == [by: Writers, line: Nat \ {0}]                          \* hashRecordBytes()
Key  == [token: Tokens, salt: Writers]                          \* CryptoService's
Rec  == [key: Key, prev: Hash \cup {NoHash}, hash: Hash, entry: Entry]

\* No salt: shorter than a header. A tail that is not clean: part of a record at
\* the end of the file, and whatever was appended to it.
File   == [exists: BOOLEAN, salt: Writers \cup {NoSalt}, recs: Seq(Rec),
           tail: {"clean", "fragment"}]
NoFile == [exists |-> FALSE, salt |-> NoSalt, recs |-> << >>, tail |-> "clean"]
EmptyFile == [exists |-> TRUE, salt |-> NoSalt, recs |-> << >>, tail |-> "clean"]

ASSUME JNullsAssumption ==
  NoSalt \notin Writers /\ NoHash \notin Hash /\ Lost \notin Seq([token: Tokens, entry: Entry])

VARIABLES
  files,      \* log -> the file on disk
  pc,         \* where each process is
  cmd,        \* the command or query it is on
  lines,      \* lines taken
  loaded,     \* writer -> the records loadFullData returned
  answer,     \* reader: the events its answer was computed from
  accepted,   \* log -> the entries reported as appended, in order (history)
  disturbed   \* what happened that a careful user avoids (history)

vars == <<files, pc, cmd, lines, loaded, answer, accepted, disturbed>>

Init == /\ files     = [l \in Logs |-> NoFile]
        /\ pc        = [p \in Procs |-> "idle"]
        /\ cmd       = [p \in Procs |-> NoCmd]
        /\ lines     = [p \in Procs |-> 0]
        /\ loaded    = [p \in Writers |-> << >>]
        /\ answer    = [p \in Readers |-> NoAnswer]
        /\ accepted  = [l \in Logs |-> << >>]
        /\ disturbed = {}

------------------------------------------------------------------------------
GoTo(p, where) == pc' = [pc EXCEPT ![p] = where]
Log(p)  == cmd[p].log
Active(p) == p \in Writers /\ pc[p] \notin {"idle", "done"}

\* A single process exits where a batch goes on to its next line.
NextOrDone(p) == IF p \in Batches THEN "next" ELSE "done"

\* tryAppend returns false, or validate() and parse() did not let the line pass.
Refuse(p) == /\ GoTo(p, NextOrDone(p))
             /\ UNCHANGED <<files, cmd, lines, loaded, answer, accepted, disturbed>>

Entries(rs) == [i \in 1..Len(rs) |-> rs[i].entry]

\* The state machine after each of the events, refusals aside.
StateAfter(es) ==
  LET st[i \in 0..Len(es)] == IF i = 0 THEN EmptyState ELSE Applied(st[i-1], es[i])
  IN  st

\* Mutant of MayFollow: the loop over the old events stops one short.
MayFollowOneShort(es, e) ==
  LET n == IF es = << >> THEN 0 ELSE Len(es) - 1 IN CanApply(StateAfter(es)[n], e)

\* validateAndApply(newEvent) after the old events.
MayFollow(es, e) == CanApply(StateAfter(es)[Len(es)], e)

\* validateAndApply accepts the events one after the other.
Replays(es) == \A i \in 1..Len(es) : CanApply(StateAfter(es)[i-1], es[i])

\* Mutant of Loads: a file shorter than a header is an empty log.
LoadsShort(f, token) ==
  /\ f.tail = "clean"
  /\ \A i \in 1..Len(f.recs) :
       /\ f.recs[i].key = [token |-> token, salt |-> f.salt]
       /\ f.recs[i].prev = IF i = 1 THEN NoHash ELSE f.recs[i-1].hash

\* loadFullData does not throw: header, framing, decryption and chain are sound.
Loads(f, token) ==
  /\ f.salt # NoSalt /\ f.tail = "clean"
  /\ \A i \in 1..Len(f.recs) :
       /\ f.recs[i].key = [token |-> token, salt |-> f.salt]
       /\ f.recs[i].prev = IF i = 1 THEN NoHash ELSE f.recs[i-1].hash

------------------------------------------------------------------------------
Start(p) ==
  /\ pc[p] = "idle" /\ p \in Writers
  /\ GoTo(p, "next")
  /\ disturbed' = IF \E q \in Writers : Active(q) THEN disturbed \cup {"overlap"} ELSE disturbed
  /\ UNCHANGED <<files, cmd, lines, loaded, answer, accepted>>

CanTake(p) == pc[p] = "next" /\ (p \in Batches => lines[p] < MaxLines)

\* parse() throws or validate() objects; a line with -B is one of these.
BadLine(p) ==
  /\ CanTake(p)
  /\ lines' = [lines EXCEPT ![p] = @ + 1]
  /\ GoTo(p, NextOrDone(p))
  /\ UNCHANGED <<files, cmd, loaded, answer, accepted, disturbed>>

NextLine(p) ==
  /\ CanTake(p)
  /\ \E c \in Commands : cmd' = [cmd EXCEPT ![p] = c]
  /\ lines' = [lines EXCEPT ![p] = @ + 1]
  /\ GoTo(p, "check")
  /\ UNCHANGED <<files, loaded, answer, accepted, disturbed>>

EndOfFile(p) == /\ pc[p] = "next" /\ p \in Batches
                /\ GoTo(p, "done")
                /\ UNCHANGED <<files, cmd, lines, loaded, answer, accepted, disturbed>>

\* Files.exists() decides, once.
Check(p) == /\ pc[p] = "check"
            /\ GoTo(p, IF files[Log(p)].exists THEN "load" ELSE "create")
            /\ UNCHANGED <<files, cmd, lines, loaded, answer, accepted, disturbed>>

\* Mutant of Create: the file is opened with CREATE and TRUNCATE_EXISTING.
CreateTruncates(p) ==
  /\ pc[p] = "create" /\ MayFollow(<< >>, cmd[p].entry)
  /\ files' = [files EXCEPT ![Log(p)] = EmptyFile]
  /\ GoTo(p, "fill")
  /\ UNCHANGED <<cmd, lines, loaded, answer, accepted, disturbed>>

\* CREATE_NEW: the file is there, and empty until the stream is closed.
Create(p) ==
  /\ pc[p] = "create" /\ MayFollow(<< >>, cmd[p].entry)
  /\ ~files[Log(p)].exists
  /\ files' = [files EXCEPT ![Log(p)] = EmptyFile]
  /\ GoTo(p, "fill")
  /\ UNCHANGED <<cmd, lines, loaded, answer, accepted, disturbed>>

\* The first event is not valid, or the log has come into being since Check.
CreateRefused(p) == /\ pc[p] = "create"
                    /\ \/ ~MayFollow(<< >>, cmd[p].entry)
                       \/ files[Log(p)].exists
                    /\ Refuse(p)

Reported(p) == /\ accepted' = [accepted EXCEPT ![Log(p)] = Append(@, cmd[p].entry)]
               /\ GoTo(p, NextOrDone(p))

\* Mutant of Fill: the record stays in the buffer.
FillHeaderOnly(p) ==
  /\ pc[p] = "fill"
  /\ files' = [files EXCEPT ![Log(p)].salt = p]
  /\ Reported(p)
  /\ UNCHANGED <<cmd, lines, loaded, answer, disturbed>>

\* The first record of a log that p founds.
FirstRec(p) == [key |-> [token |-> cmd[p].token, salt |-> p], prev |-> NoHash,
                hash |-> [by |-> p, line |-> lines[p]], entry |-> cmd[p].entry]

Filled(p) == [files[Log(p)] EXCEPT !.salt = p, !.recs = << FirstRec(p) >>]

\* The close flushes header and first record.
Fill(p) ==
  /\ pc[p] = "fill"
  /\ files' = [files EXCEPT ![Log(p)] = Filled(p)]
  /\ Reported(p)
  /\ UNCHANGED <<cmd, lines, loaded, answer, disturbed>>

\* What a process that does not get to report it leaves: less than a header, all
\* of it, a bit more, or header and record.
PartlyFilled(p) == {files[Log(p)],
                    [files[Log(p)] EXCEPT !.salt = p],
                    [files[Log(p)] EXCEPT !.salt = p, !.tail = "fragment"],
                    Filled(p)}

\* A write throws, or the close after the last: `Invalid.`, and the file stays.
FillFails(p) ==
  /\ pc[p] = "fill" /\ p \in CanFail
  /\ \E f \in PartlyFilled(p) : files' = [files EXCEPT ![Log(p)] = f]
  /\ disturbed' = disturbed \cup {"failure"}
  /\ GoTo(p, NextOrDone(p))
  /\ UNCHANGED <<cmd, lines, loaded, answer, accepted>>

\* Everything append() does before it opens the file for writing.
Load(p) ==
  LET f == files[Log(p)] IN
  /\ pc[p] = "load"
  /\ Loads(f, cmd[p].token)
  /\ Replays(Entries(f.recs))
  /\ MayFollow(Entries(f.recs), cmd[p].entry)
  /\ loaded' = [loaded EXCEPT ![p] = f.recs]
  /\ GoTo(p, "append")
  /\ UNCHANGED <<files, cmd, lines, answer, accepted, disturbed>>

LoadRefused(p) ==
  LET f == files[Log(p)] IN
  /\ pc[p] = "load"
  /\ ~ (/\ Loads(f, cmd[p].token)
        /\ Replays(Entries(f.recs))
        /\ MayFollow(Entries(f.recs), cmd[p].entry))
  /\ Refuse(p)

\* Mutant of NewRec: the record is linked to what is last in the file by now.
NewRecRelinked(p) ==
  LET rs == files[Log(p)].recs IN
  [key  |-> [token |-> cmd[p].token, salt |-> files[Log(p)].salt],
   prev |-> IF rs = << >> THEN NoHash ELSE rs[Len(rs)].hash,
   hash |-> [by |-> p, line |-> lines[p]], entry |-> cmd[p].entry]

\* Mutant of NewRec: every record is written as if it were the first.
NewRecUnlinked(p) ==
  [key  |-> [token |-> cmd[p].token, salt |-> files[Log(p)].salt],
   prev |-> NoHash,
   hash |-> [by |-> p, line |-> lines[p]], entry |-> cmd[p].entry]

NewRec(p) ==
  LET rs == loaded[p] IN
  [key  |-> [token |-> cmd[p].token, salt |-> files[Log(p)].salt],
   prev |-> IF rs = << >> THEN NoHash ELSE rs[Len(rs)].hash,
   hash |-> [by |-> p, line |-> lines[p]], entry |-> cmd[p].entry]

\* It goes to the end of the file, wherever that is by now.
Extended(p) == IF files[Log(p)].tail = "clean"
                 THEN [files[Log(p)] EXCEPT !.recs = Append(@, NewRec(p))]
                 ELSE files[Log(p)]

AppendRec(p) ==
  /\ pc[p] = "append"
  /\ files' = [files EXCEPT ![Log(p)] = Extended(p)]
  /\ Reported(p)
  /\ UNCHANGED <<cmd, lines, loaded, answer, disturbed>>

\* What a process that does not get to report its record leaves.
PartlyExtended(p) == {files[Log(p)],
                      [files[Log(p)] EXCEPT !.tail = "fragment"],
                      Extended(p)}

\* channel.write() throws, or close() when all the bytes are out: `Invalid.`
AppendFails(p) ==
  /\ pc[p] = "append" /\ p \in CanFail
  /\ \E f \in PartlyExtended(p) : files' = [files EXCEPT ![Log(p)] = f]
  /\ disturbed' = disturbed \cup {"failure"}
  /\ GoTo(p, NextOrDone(p))
  /\ UNCHANGED <<cmd, lines, loaded, answer, accepted>>

\* Killed: anywhere, in the middle of a write, or after it and before the report.
Crash(p) ==
  /\ p \in CanCrash /\ Active(p)
  /\ \/ UNCHANGED files
     \/ pc[p] = "fill" /\ \E f \in PartlyFilled(p) : files' = [files EXCEPT ![Log(p)] = f]
     \/ pc[p] = "append" /\ \E f \in PartlyExtended(p) : files' = [files EXCEPT ![Log(p)] = f]
  /\ GoTo(p, "done")
  /\ disturbed' = disturbed \cup {"crash"}
  /\ UNCHANGED <<cmd, lines, loaded, answer, accepted>>

------------------------------------------------------------------------------
Ask(p) == /\ pc[p] = "idle" /\ p \in Readers
          /\ \E q \in Queries : cmd' = [cmd EXCEPT ![p] = q]
          /\ GoTo(p, "read")
          /\ UNCHANGED <<files, lines, loaded, answer, accepted, disturbed>>

\* Only the state query replays the events; room history trusts them.
Read(p) ==
  LET f == files[Log(p)] IN
  /\ pc[p] = "read"
  /\ IF f.exists /\ Loads(f, cmd[p].token) /\ (cmd[p].mode = "S" => Replays(Entries(f.recs)))
       THEN answer' = [answer EXCEPT ![p] = Entries(f.recs)] /\ GoTo(p, "done")
       ELSE GoTo(p, "refused") /\ UNCHANGED answer
  /\ UNCHANGED <<files, cmd, lines, loaded, accepted, disturbed>>

Write(p) == \/ Start(p) \/ BadLine(p) \/ NextLine(p) \/ EndOfFile(p) \/ Check(p)
            \/ Create(p) \/ CreateRefused(p) \/ Fill(p) \/ FillFails(p)
            \/ Load(p) \/ LoadRefused(p) \/ AppendRec(p) \/ AppendFails(p) \/ Crash(p)

Next == \/ \E p \in Writers : Write(p)
        \/ \E p \in Readers : Ask(p) \/ Read(p)

Spec == Init /\ [][Next]_vars

------------------------------------------------------------------------------
\* Type invariant.
TypeOK ==
  /\ files \in [Logs -> File]
  /\ pc \in [Procs -> {"idle", "next", "check", "create", "fill", "load", "append",
                       "done", "read", "refused"}]
  /\ cmd \in [Procs -> Commands \cup Queries \cup {NoCmd}]
  /\ lines \in [Procs -> Nat]
  /\ loaded \in [Writers -> Seq(Rec)]
  /\ answer \in [Readers -> Seq(Entry) \cup {NoAnswer}]
  /\ accepted \in [Logs -> Seq(Entry)]
  /\ disturbed \subseteq {"overlap", "failure", "crash"}

(* A log that loads at all is a history of the gallery, though writers overlap, *)
(* fail and are killed, and though -R answers without replaying what it loaded: *)
(* two entries validated against the same log never fit into one chain.         *)
ReadableIsHistory ==
  /\ \A l \in Logs, k \in Tokens : Loads(files[l], k) => ValidLog(Entries(files[l].recs))
  /\ \A p \in Readers : answer[p] # NoAnswer => ValidLog(answer[p])

Idle == \A p \in Writers : ~Active(p)

(* Writers run one at a time, and none is killed or fails: then between them a  *)
(* log loads, under the token that founded it, as exactly what was accepted.    *)
CleanLogReads ==
  disturbed = {} /\ Idle => \A l \in Logs :
    \/ ~files[l].exists /\ accepted[l] = << >>
    \/ /\ \E k \in Tokens : Loads(files[l], k)
       /\ Entries(files[l].recs) = accepted[l]

(* Nothing is ever taken out of a log again, and a log founded by two processes *)
(* at once is founded once: no step of anybody changes or removes a record, the *)
(* salt, or the fragment at which reading stops.                                *)
AppendOnly ==
  [][\A l \in Logs :
       /\ files[l].exists => files'[l].exists
       /\ files[l].salt # NoSalt => files'[l].salt = files[l].salt
       /\ Len(files'[l].recs) >= Len(files[l].recs)
       /\ SubSeq(files'[l].recs, 1, Len(files[l].recs)) = files[l].recs
       /\ files[l].tail # "clean" => files'[l].tail # "clean"]_vars

(* While writers run one at a time and none is killed or fails, an entry is     *)
(* refused only if it may not follow those accepted, or for its token.          *)
RefusalJustified ==
  [][\A p \in Writers :
       pc[p] \in {"create", "load"} /\ pc'[p] = NextOrDone(p) /\ disturbed' = {} =>
         LET es == accepted[Log(p)] IN
         \/ ~Follows(es, Len(es), cmd[p].entry)
         \/ es # << >> /\ files[Log(p)].recs[1].key.token # cmd[p].token]_vars

(* A reader with the token of the log is answered while a single writer works   *)
(* on it, from the moment the first entry is there.                             *)
ReaderServed ==
  [][\A p \in Readers :
       pc[p] = "read" /\ pc'[p] = "refused" /\ disturbed = {} =>
         \/ files[Log(p)].recs = << >>
         \/ files[Log(p)].recs[1].key.token # cmd[p].token]_vars

Recorded(f) == [i \in 1..Len(f.recs) |->
                  [token |-> f.recs[i].key.token, entry |-> f.recs[i].entry]]

(* The processes implement the fragile ledger: a log is what it loads as, or is *)
(* lost. A fork or a fragment may cost the log, but never changes what it says, *)
(* never brings back one that was lost, and leaves no acknowledged entry out of *)
(* one that still loads.                                                        *)
F == INSTANCE FragileLedger WITH
       ledger <- [l \in Logs |-> LET f == files[l] IN
                    IF f.salt = NoSalt \/ \E k \in Tokens : Loads(f, k)
                      THEN Recorded(f) ELSE Lost],
       acked  <- [l \in Logs |-> {accepted[l][i] : i \in 1..Len(accepted[l])}]
ImplementsFragileLedger == F!LedgerSpec
===============================================================================
