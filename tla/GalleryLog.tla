------------------------------ MODULE GalleryLog ------------------------------
(* The Rust programs logappend and logread (src/gallery-log): processes that   *)
(* share log files and their flock'ed .lock companions. A single logappend     *)
(* runs one command, a batch one runs the lines of a file and keeps the lock,  *)
(* the replayed state and the last hash of the log it is on from one line to   *)
(* the next; a logread answers one query under a shared lock.                  *)
(*                                                                             *)
(* Cryptography is perfect: a record passes its MAC under the key it was       *)
(* written with and under no other, and Hash is injective (a hash is the       *)
(* contents it stands for). A file is its readable records and whether a       *)
(* fragment of a record follows them: nothing behind a fragment can be parsed, *)
(* so what is written there is lost. A missing file is an empty one.           *)
EXTENDS Gallery

CONSTANTS
  Singles, Batches, Readers,   \* the processes, by what main() makes of them
  Logs, Keys,
  Commands,                    \* the well-formed command lines that may be given
  Queries,                     \* the well-formed queries that may be asked
  CanFail,                     \* processes whose append_entry may return an error
  CanCrash,                    \* processes that may be killed
  MaxLines,                    \* bound: lines in a batch file
  NoLog, NoCache, NoCmd, NoAnswer

Writers == Singles \cup Batches
Procs   == Writers \cup Readers

ASSUME ProcsAssumption == Singles \cap Batches = {} /\ Writers \cap Readers = {}
ASSUME CommandsAssumption == Commands \subseteq [log: Logs, key: Keys, entry: Entry]
ASSUME QueriesAssumption ==
  Queries \subseteq [log: Logs, key: Keys, mode: {"State", "RoomHistory", "Intersection"}]
ASSUME MaxLinesAssumption == MaxLines \in Nat
ASSUME NullsAssumption == NoLog \notin Logs /\ NoCache \notin [log: Logs, key: Keys]

Content == [key: Keys, entry: Entry]
Digest  == Seq(Content)               \* hash values
Record  == [key: Keys, entry: Entry, prev: Digest]
File    == [recs: Seq(Record), torn: BOOLEAN]

Zero    == << >>                      \* [0u8; 32]
Hash(r) == Append(r.prev, [key |-> r.key, entry |-> r.entry])
NoFile  == [recs |-> << >>, torn |-> FALSE]

VARIABLES
  files,      \* log -> the file on disk
  acked,      \* log -> contents whose append_entry returned Ok (history)
  answer,     \* reader -> the entries its answer was computed from (history)
  pc,         \* where each process is
  cmd,        \* the command or query it is on
  held,       \* the log whose lock it holds
  cache,      \* batch: the (log, key) its state and last_hash belong to
  buf,        \* the bytes load_log read
  n,          \* records scanned, then entries replayed
  last_hash, state,
  lines,      \* batch lines taken
  outcome     \* what it last reported

shared == <<files, acked, answer>>
vars   == <<shared, pc, cmd, held, cache, buf, n, last_hash, state, lines, outcome>>

Init == /\ files     = [l \in Logs |-> NoFile]
        /\ acked     = [l \in Logs |-> {}]
        /\ answer    = [p \in Readers |-> NoAnswer]
        /\ pc        = [p \in Procs |-> "next"]
        /\ cmd       = [p \in Procs |-> NoCmd]
        /\ held      = [p \in Procs |-> NoLog]
        /\ cache     = [p \in Procs |-> NoCache]
        /\ buf       = [p \in Procs |-> NoFile]
        /\ n         = [p \in Procs |-> 0]
        /\ last_hash = [p \in Procs |-> Zero]
        /\ state     = [p \in Procs |-> EmptyState]
        /\ lines     = [p \in Procs |-> 0]
        /\ outcome   = [p \in Procs |-> "none"]

------------------------------------------------------------------------------
GoTo(p, where)   == pc' = [pc EXCEPT ![p] = where]
Report(p, what)  == outcome' = [outcome EXCEPT ![p] = what]

\* A single process exits where a batch goes on to its next line.
NextOrDone(p) == IF p \in Batches THEN "next" ELSE "done"

\* `log`, and the state computed from it, go out of scope.
Forget(p) == /\ buf'       = [buf EXCEPT ![p] = NoFile]
             /\ n'         = [n EXCEPT ![p] = 0]
             /\ last_hash' = [last_hash EXCEPT ![p] = Zero]
             /\ state'     = [state EXCEPT ![p] = EmptyState]

\* Exit, however it comes about: the kernel drops the lock.
Exit(p, what) == /\ GoTo(p, "done")
                 /\ Report(p, what)
                 /\ held'  = [held EXCEPT ![p] = NoLog]
                 /\ cache' = [cache EXCEPT ![p] = NoCache]
                 /\ Forget(p)

\* A failure on the way to a loaded log: the lock is a local and is dropped.
GiveUp(p, what) == /\ GoTo(p, NextOrDone(p))
                   /\ Report(p, what)
                   /\ held' = [held EXCEPT ![p] = NoLog]
                   /\ Forget(p)
                   /\ UNCHANGED <<shared, cmd, cache, lines>>

\* The command was decided: a single exits, a batch keeps lock, state and hash.
Finish(p, what) == /\ GoTo(p, NextOrDone(p))
                   /\ Report(p, what)
                   /\ held' = IF p \in Batches THEN held ELSE [held EXCEPT ![p] = NoLog]
                   /\ UNCHANGED <<cmd, cache, buf, n, lines>>

------------------------------------------------------------------------------
\* A command line that parse_args refuses: no lock is taken, none is dropped.
BadLine(p) ==
  /\ pc[p] = "next"
  /\ p \in Batches => lines[p] < MaxLines
  /\ lines' = [lines EXCEPT ![p] = @ + 1]
  /\ GoTo(p, NextOrDone(p))
  /\ Report(p, "invalid")
  /\ UNCHANGED <<shared, cmd, held, cache, buf, n, last_hash, state>>

\* Mutant of NextLine: the old lock is kept while the new one is waited for.
NextLineKeepsLock(p) ==
  /\ pc[p] = "next" /\ p \in Writers
  /\ p \in Batches => lines[p] < MaxLines
  /\ \E c \in Commands :
       /\ cmd' = [cmd EXCEPT ![p] = c]
       /\ IF cache[p] = [log |-> c.log, key |-> c.key]
            THEN GoTo(p, "apply") /\ UNCHANGED <<cache, last_hash, state>>
            ELSE /\ GoTo(p, "lock")
                 /\ cache'     = [cache EXCEPT ![p] = NoCache]
                 /\ last_hash' = [last_hash EXCEPT ![p] = Zero]
                 /\ state'     = [state EXCEPT ![p] = EmptyState]
  /\ lines' = [lines EXCEPT ![p] = @ + 1]
  /\ Report(p, "none")
  /\ UNCHANGED <<shared, held, buf, n>>

\* The next command. Off the cached log, the old lock goes before the new one comes.
NextLine(p) ==
  /\ pc[p] = "next" /\ p \in Writers
  /\ p \in Batches => lines[p] < MaxLines
  /\ \E c \in Commands :
       /\ cmd' = [cmd EXCEPT ![p] = c]
       /\ IF cache[p] = [log |-> c.log, key |-> c.key]
            THEN GoTo(p, "apply") /\ UNCHANGED <<held, cache, last_hash, state>>
            ELSE /\ GoTo(p, "lock")
                 /\ held'      = [held EXCEPT ![p] = NoLog]
                 /\ cache'     = [cache EXCEPT ![p] = NoCache]
                 /\ last_hash' = [last_hash EXCEPT ![p] = Zero]
                 /\ state'     = [state EXCEPT ![p] = EmptyState]
  /\ lines' = [lines EXCEPT ![p] = @ + 1]
  /\ Report(p, "none")
  /\ UNCHANGED <<shared, buf, n>>

EndOfFile(p) == /\ pc[p] = "next" /\ p \in Batches
                /\ Exit(p, "none")
                /\ UNCHANGED <<shared, cmd, lines>>

Ask(p) == /\ pc[p] = "next" /\ p \in Readers
          /\ \E q \in Queries : cmd' = [cmd EXCEPT ![p] = q]
          /\ GoTo(p, "lock")
          /\ UNCHANGED <<shared, held, cache, buf, n, last_hash, state, lines, outcome>>

\* Mutant of Free: one shared lock on either side is enough.
FreeIfShared(p, l) == \A q \in Procs \ {p} : held[q] = l => p \in Readers \/ q \in Readers

\* flock(LOCK_EX) by a writer, flock(LOCK_SH) by a reader; it waits while it must.
Free(p, l) == \A q \in Procs \ {p} : held[q] = l => p \in Readers /\ q \in Readers

Lock(p) == /\ pc[p] = "lock"
           /\ Free(p, cmd[p].log)
           /\ held' = [held EXCEPT ![p] = cmd[p].log]
           /\ GoTo(p, "read")
           /\ UNCHANGED <<shared, cmd, cache, buf, n, last_hash, state, lines, outcome>>

\* The lock file or the log cannot be opened or read.
IoError(p) == pc[p] \in {"lock", "read"} /\ GiveUp(p, "invalid")

Read(p) == /\ pc[p] = "read"
           /\ buf' = [buf EXCEPT ![p] = files[cmd[p].log]]
           /\ GoTo(p, "scan")
           /\ UNCHANGED <<shared, cmd, held, cache, n, last_hash, state, lines, outcome>>

\* load_log's loop: MAC, decryption under the previous hash, and the stored link.
Authentic(p, r) == r.key = cmd[p].key /\ r.prev = last_hash[p]

Scan(p) ==
  /\ pc[p] = "scan" /\ n[p] < Len(buf[p].recs)
  /\ LET r == buf[p].recs[n[p] + 1] IN
       IF Authentic(p, r)
         THEN /\ last_hash' = [last_hash EXCEPT ![p] = Hash(r)]
              /\ n' = [n EXCEPT ![p] = @ + 1]
              /\ UNCHANGED <<shared, pc, cmd, held, cache, buf, state, lines, outcome>>
         ELSE GiveUp(p, "integrity")

\* -R and -I are answered from the entries without replaying them.
Replays(p) == p \in Writers \/ cmd[p].mode = "State"

EndScan(p) ==
  /\ pc[p] = "scan" /\ n[p] = Len(buf[p].recs)
  /\ IF buf[p].torn
       THEN GiveUp(p, "integrity")
       ELSE /\ GoTo(p, IF Replays(p) THEN "replay" ELSE "answer")
            /\ n' = [n EXCEPT ![p] = 0]
            /\ UNCHANGED <<shared, cmd, held, cache, buf, last_hash, state, lines, outcome>>

\* compute_state's loop
Replay(p) ==
  /\ pc[p] = "replay" /\ n[p] < Len(buf[p].recs)
  /\ LET e == buf[p].recs[n[p] + 1].entry IN
       IF CanApply(state[p], e)
         THEN /\ state' = [state EXCEPT ![p] = Applied(@, e)]
              /\ n' = [n EXCEPT ![p] = @ + 1]
              /\ UNCHANGED <<shared, pc, cmd, held, cache, buf, last_hash, lines, outcome>>
         ELSE GiveUp(p, "integrity")

\* Mutant of EndReplay: the guard of the lock goes out of scope with the load.
EndReplayUnlocks(p) ==
  /\ pc[p] = "replay" /\ n[p] = Len(buf[p].recs)
  /\ IF p \in Readers
       THEN GoTo(p, "answer") /\ UNCHANGED <<held, cache, buf, n>>
       ELSE /\ GoTo(p, "apply")
            /\ held' = [held EXCEPT ![p] = NoLog]
            /\ cache' = IF p \in Batches
                          THEN [cache EXCEPT ![p] = [log |-> cmd[p].log, key |-> cmd[p].key]]
                          ELSE cache
            /\ buf' = [buf EXCEPT ![p] = NoFile]
            /\ n' = [n EXCEPT ![p] = 0]
  /\ UNCHANGED <<shared, cmd, last_hash, state, lines, outcome>>

EndReplay(p) ==
  /\ pc[p] = "replay" /\ n[p] = Len(buf[p].recs)
  /\ IF p \in Readers
       THEN GoTo(p, "answer") /\ UNCHANGED <<cache, buf, n>>
       ELSE /\ GoTo(p, "apply")
            /\ cache' = IF p \in Batches
                          THEN [cache EXCEPT ![p] = [log |-> cmd[p].log, key |-> cmd[p].key]]
                          ELSE cache
            /\ buf' = [buf EXCEPT ![p] = NoFile]
            /\ n' = [n EXCEPT ![p] = 0]
  /\ UNCHANGED <<shared, cmd, held, last_hash, state, lines, outcome>>

\* Mutant of Apply: the entry is validated against a copy of the state.
ApplyToCopy(p) ==
  /\ pc[p] = "apply"
  /\ IF CanApply(state[p], cmd[p].entry)
       THEN /\ GoTo(p, "append")
            /\ UNCHANGED <<shared, cmd, held, cache, buf, n, last_hash, state, lines, outcome>>
       ELSE Finish(p, "invalid") /\ UNCHANGED <<shared, last_hash, state>>

\* Mutant of Apply: the time is taken over before the transition is checked.
ApplyHalf(p) ==
  /\ pc[p] = "apply"
  /\ IF CanApply(state[p], cmd[p].entry)
       THEN /\ state' = [state EXCEPT ![p] = Applied(@, cmd[p].entry)]
            /\ GoTo(p, "append")
            /\ UNCHANGED <<shared, cmd, held, cache, buf, n, last_hash, lines, outcome>>
       ELSE /\ state' = [state EXCEPT ![p].last_timestamp = cmd[p].entry.timestamp]
            /\ Finish(p, "invalid")
            /\ UNCHANGED <<shared, last_hash>>

\* state.apply(&entry) comes before the append, in a single and in a batch.
Apply(p) ==
  /\ pc[p] = "apply"
  /\ IF CanApply(state[p], cmd[p].entry)
       THEN /\ state' = [state EXCEPT ![p] = Applied(@, cmd[p].entry)]
            /\ GoTo(p, "append")
            /\ UNCHANGED <<shared, cmd, held, cache, buf, n, last_hash, lines, outcome>>
       ELSE Finish(p, "invalid") /\ UNCHANGED <<shared, last_hash, state>>

\* Mutant of NewRecord: the link is to whatever is last in the file by now.
NewRecordRelinked(p) ==
  LET rs == files[cmd[p].log].recs IN
  [key |-> cmd[p].key, entry |-> cmd[p].entry,
   prev |-> IF rs = << >> THEN Zero ELSE Hash(rs[Len(rs)])]

NewRecord(p) == [key |-> cmd[p].key, entry |-> cmd[p].entry, prev |-> last_hash[p]]

\* Mutant of Written: the file is truncated when it is opened.
WrittenFresh(f, r) == [recs |-> <<r>>, torn |-> FALSE]

\* O_APPEND puts the record behind whatever is there, a fragment included.
Written(f, r) == IF f.torn THEN f ELSE [recs |-> Append(f.recs, r), torn |-> FALSE]
Torn(f)       == [recs |-> f.recs, torn |-> TRUE]

\* Mutant of AppendEntry: the caller keeps the hash it passed in.
AppendKeepsHash(p) ==
  /\ pc[p] = "append"
  /\ files' = [files EXCEPT ![cmd[p].log] = Written(@, NewRecord(p))]
  /\ acked' = [acked EXCEPT ![cmd[p].log] =
                 @ \cup {[key |-> cmd[p].key, entry |-> cmd[p].entry]}]
  /\ Finish(p, "ok")
  /\ UNCHANGED <<answer, state, last_hash>>

AppendEntry(p) ==
  /\ pc[p] = "append"
  /\ files' = [files EXCEPT ![cmd[p].log] = Written(@, NewRecord(p))]
  /\ acked' = [acked EXCEPT ![cmd[p].log] =
                 @ \cup {[key |-> cmd[p].key, entry |-> cmd[p].entry]}]
  /\ last_hash' = [last_hash EXCEPT ![p] = Hash(NewRecord(p))]
  /\ Finish(p, "ok")
  /\ UNCHANGED <<answer, state>>

\* open or write_all fails: no byte of the record, or some of them, are written.
AppendFails(p) ==
  /\ pc[p] = "append" /\ p \in CanFail
  /\ \/ UNCHANGED files
     \/ files' = [files EXCEPT ![cmd[p].log] = Torn(@)]
  /\ Finish(p, "invalid")
  /\ UNCHANGED <<acked, answer, last_hash, state>>

Answer(p) ==
  /\ pc[p] = "answer"
  /\ answer' = [answer EXCEPT ![p] =
       [log     |-> cmd[p].log,
        entries |-> [i \in 1..Len(buf[p].recs) |-> buf[p].recs[i].entry]]]
  /\ Exit(p, "ok")
  /\ UNCHANGED <<files, acked, cmd, lines>>

\* Killed. In the middle of write_all, any part of the record may have gone out.
Crash(p) ==
  /\ pc[p] # "done" /\ p \in CanCrash
  /\ \/ UNCHANGED files
     \/ pc[p] = "append" /\ \/ files' = [files EXCEPT ![cmd[p].log] = Torn(@)]
                            \/ files' = [files EXCEPT ![cmd[p].log] = Written(@, NewRecord(p))]
  /\ Exit(p, "crashed")
  /\ UNCHANGED <<acked, answer, cmd, lines>>

\* What a process does of its own accord, no system call failing.
Work(p) == \/ BadLine(p) \/ NextLine(p) \/ EndOfFile(p) \/ Ask(p)
           \/ Lock(p) \/ Read(p) \/ Scan(p) \/ EndScan(p)
           \/ Replay(p) \/ EndReplay(p) \/ Apply(p)
           \/ AppendEntry(p) \/ Answer(p)

Step(p) == Work(p) \/ IoError(p) \/ AppendFails(p)

Next == \E p \in Procs : Step(p) \/ Crash(p)

Spec == Init /\ [][Next]_vars

\* Every process the operating system runs does its work; nothing has to fail,
\* and nobody can count on an error to be let out of a wait.
FairSpec == Spec /\ \A p \in Procs : WF_vars(Work(p))

------------------------------------------------------------------------------
Contents(rs) == [i \in 1..Len(rs) |-> [key |-> rs[i].key, entry |-> rs[i].entry]]
Entries(rs)  == [i \in 1..Len(rs) |-> rs[i].entry]
HashAt(rs, i) == IF i = 0 THEN Zero ELSE Hash(rs[i])

\* What load_log checks of the bytes alone, for somebody with the right key.
Chained(rs) == \A i \in 1..Len(rs) : rs[i].prev = HashAt(rs, i-1)
OneKey(rs)  == \A i \in 1..Len(rs) : rs[i].key = rs[1].key

\* Type invariant.
TypeOK ==
  /\ files \in [Logs -> File]
  /\ acked \in [Logs -> SUBSET Content]
  /\ answer \in [Readers -> [log: Logs, entries: Seq(Entry)] \cup {NoAnswer}]
  /\ pc \in [Procs -> {"next", "lock", "read", "scan", "replay", "apply", "append",
                       "answer", "done"}]
  /\ cmd \in [Procs -> Commands \cup Queries \cup {NoCmd}]
  /\ held \in [Procs -> Logs \cup {NoLog}]
  /\ cache \in [Procs -> [log: Logs, key: Keys] \cup {NoCache}]
  /\ buf \in [Procs -> File]
  /\ n \in [Procs -> Nat]
  /\ last_hash \in [Procs -> Digest]
  /\ state \in [Procs -> GalleryState]
  /\ lines \in [Procs -> Nat]
  /\ outcome \in [Procs -> {"none", "ok", "invalid", "integrity", "crashed"}]

(* Load, validate and append happen on one version of the file: what was read  *)
(* is still the file while it is scanned, replayed and answered from; the      *)
(* state an entry is validated on is that of the file at that moment; and when *)
(* the record is about to be written the entry may still follow the last       *)
(* record in the file, whose hash is the one it will be linked to (the         *)
(* critical section of run_single, run_batch and logread).                     *)
SnapshotCurrent ==
  \A p \in Procs :
    LET f   == files[cmd[p].log]
        len == Len(f.recs) IN
    /\ pc[p] \in {"scan", "replay", "answer"} => buf[p] = f
    /\ pc[p] \in {"apply", "append"} => ~f.torn /\ last_hash[p] = HashAt(f.recs, len)
    /\ pc[p] = "apply" => Computes(state[p], Entries(f.recs), len)
    /\ pc[p] = "append" => Follows(Entries(f.recs), len, cmd[p].entry)

(* What a batch carries from line to line agrees with the file it has not read *)
(* again: the cached state is what the log replays to, and the cached hash is  *)
(* that of its last record, whatever lines were refused in between.            *)
CacheCoherent ==
  \A p \in Batches :
    LET f == files[cache[p].log] IN
    pc[p] = "next" /\ cache[p] # NoCache =>
      /\ ~f.torn
      /\ held[p] = cache[p].log
      /\ last_hash[p] = HashAt(f.recs, Len(f.recs))
      /\ Computes(state[p], Entries(f.recs), Len(f.recs))

(* Whoever holds the token can load any log that carries no fragment: one key, *)
(* an unbroken chain, and entries that compute_state replays to the end.       *)
LogReplays ==
  \A l \in Logs : LET rs == files[l].recs IN Chained(rs) /\ OneKey(rs) /\ ValidLog(Entries(rs))

(* An entry whose logappend reported success can be read back.                 *)
Durable ==
  \A l \in Logs : \A c \in acked[l] :
    \E i \in 1..Len(files[l].recs) : c = Contents(files[l].recs)[i]

(* The README's promise for the diagnostic `integrity violation`: a MAC does   *)
(* not verify (bytes that are no record, or another token), or a link of the   *)
(* hash chain is broken. Nobody tampers with files here.                       *)
IntegrityMeansBroken ==
  \A p \in Procs : outcome[p] = "integrity" =>
    LET f == files[cmd[p].log] IN
    \/ f.torn
    \/ ~Chained(f.recs)
    \/ \E i \in 1..Len(f.recs) : f.recs[i].key # cmd[p].key

(* A command is refused as invalid by the state machine only when its entry may *)
(* not follow the log as it is at that moment, also when the decision is taken *)
(* on a state cached lines ago.                                                *)
RefusalJustified ==
  [][\A p \in Writers :
       pc[p] = "apply" /\ outcome'[p] = "invalid" =>
         LET rs == files[cmd[p].log].recs IN
         ~Follows(Entries(rs), Len(rs), cmd[p].entry)]_vars

(* The processes implement the ledger: a log is what its records say.          *)
L == INSTANCE Ledger WITH ledger <- [l \in Logs |-> Contents(files[l].recs)]
ImplementsLedger == L!LedgerSpec

(* Every process ends: nobody waits for a lock for ever, whoever was killed    *)
(* while holding one, and a batch that changes logs never waits for one lock   *)
(* while it keeps another.                                                     *)
Termination == <>(\A p \in Procs : pc[p] = "done")
===============================================================================
