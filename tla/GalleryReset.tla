----------------------------- MODULE GalleryReset -----------------------------
(* GalleryLog beside reset.sh, which removes every file of the log directory,  *)
(* logs and .lock companions alike, and takes no lock. A lock is therefore no  *)
(* longer one with its log: flock() locks the file that open() returned, which *)
(* may have lost its name since, while the next open() creates another. What a *)
(* process has open survives; what it opens by name is what is there now.      *)
(*                                                                             *)
(* Opening a log and reading it, or writing to it, is one step: a file removed *)
(* in between is as good as removed right after. The script runs once.         *)
EXTENDS GalleryLog

CONSTANT InLogsDir   \* the logs in the directory that reset.sh empties

ASSUME InLogsDirAssumption == InLogsDir \subseteq Logs

VARIABLES
  there,   \* log -> its lock file has a name
  made,    \* log -> lock files created so far: the last one is the named one
  fd,      \* process -> which of them it has open, 0 if none
  reset,   \* reset.sh has been started
  todo,    \* the files it has found and not removed yet
  met      \* it removed a file while a process had a lock file open (history)

resetVars == <<there, made, fd, reset, todo, met>>
allVars   == <<vars, resetVars>>

InitR == /\ Init
         /\ there = [l \in Logs |-> FALSE]
         /\ made  = [l \in Logs |-> 0]
         /\ fd    = [p \in Procs |-> 0]
         /\ reset = FALSE
         /\ todo  = {}
         /\ met   = FALSE

\* lock_log_exclusive and lock_log_shared: open(create), then flock().
OpenLock(p) ==
  LET l == cmd[p].log IN
  /\ pc[p] = "lock" /\ fd[p] = 0
  /\ there' = [there EXCEPT ![l] = TRUE]
  /\ made'  = [made EXCEPT ![l] = IF there[l] THEN @ ELSE @ + 1]
  /\ fd'    = [fd EXCEPT ![p] = made'[l]]
  /\ UNCHANGED <<vars, reset, todo, met>>

\* Mutant of FreeFile: an exclusive lock does not wait for readers.
FreeFileOfWriters(p, l) ==
  \A q \in Procs \ {p} : held[q] = l /\ fd[q] = fd[p] => q \in Readers

\* As Free, of the file that p has open.
FreeFile(p, l) ==
  \A q \in Procs \ {p} : held[q] = l /\ fd[q] = fd[p] => p \in Readers /\ q \in Readers

Flock(p) ==
  /\ pc[p] = "lock" /\ fd[p] # 0
  /\ FreeFile(p, cmd[p].log)
  /\ held' = [held EXCEPT ![p] = cmd[p].log]
  /\ GoTo(p, "read")
  /\ UNCHANGED <<shared, cmd, cache, buf, n, last_hash, state, lines, outcome, resetVars>>

\* Mutant of Closing: the handle goes at the end of every step.
ClosingAlways(p) == /\ fd' = [fd EXCEPT ![p] = 0]
                    /\ UNCHANGED <<there, made, reset, todo, met>>

\* The handle is closed when the lock is dropped, or not got.
Closing(p) == /\ fd' = [fd EXCEPT ![p] = IF held'[p] = NoLog THEN 0 ELSE @]
              /\ UNCHANGED <<there, made, reset, todo, met>>

WorkR(p) ==
  \/ OpenLock(p) \/ Flock(p)
  \/ /\ \/ NextLine(p) \/ EndOfFile(p) \/ Ask(p)
        \/ Read(p) \/ Scan(p) \/ EndScan(p)
        \/ Replay(p) \/ EndReplay(p) \/ Apply(p)
        \/ AppendEntry(p) \/ Answer(p)
     /\ Closing(p)

\* Processes are killed; lines that are refused, and system calls that fail, are
\* left to GalleryLog.
StepR(p) == WorkR(p) \/ (Crash(p) /\ Closing(p))

------------------------------------------------------------------------------
\* The shell expands the glob before the loop starts.
ResetStart ==
  /\ ~reset
  /\ reset' = TRUE
  /\ todo' = {<<l, "log">> : l \in {k \in InLogsDir : files[k] # NoFile}}
               \cup {<<l, "lock">> : l \in {k \in InLogsDir : there[k]}}
  /\ UNCHANGED <<vars, there, made, fd, met>>

\* rm -f; the name of a log sorts before that of its lock file.
Remove(f) ==
  /\ f \in todo
  /\ f[2] = "lock" => <<f[1], "log">> \notin todo
  /\ todo' = todo \ {f}
  /\ IF f[2] = "log"
       THEN files' = [files EXCEPT ![f[1]] = NoFile] /\ UNCHANGED there
       ELSE there' = [there EXCEPT ![f[1]] = FALSE] /\ UNCHANGED files
  /\ met' = (met \/ \E p \in Procs : fd[p] # 0 /\ cmd[p].log = f[1])
  /\ UNCHANGED <<acked, answer, pc, cmd, held, cache, buf, n, last_hash, state, lines,
                 outcome, made, fd, reset>>

Reset == ResetStart \/ \E f \in todo : Remove(f)

NextR == Reset \/ \E p \in Procs : StepR(p)

SpecR == InitR /\ [][NextR]_allVars

\* As in GalleryLog; nobody has to run the script, or to finish it.
FairSpecR == SpecR /\ \A p \in Procs : WF_allVars(WorkR(p))

------------------------------------------------------------------------------
\* Type invariant of what is added.
TypeOKR ==
  /\ there \in [Logs -> BOOLEAN]
  /\ made \in [Logs -> Nat]
  /\ fd \in [Procs -> Nat]
  /\ \A p \in Procs : held[p] # NoLog => fd[p] \in 1..made[held[p]]
  /\ reset \in BOOLEAN
  /\ todo \subseteq Logs \X {"log", "lock"}
  /\ met \in BOOLEAN

(* Removing lock files beside the programs breaks their exclusion, and two     *)
(* writers may extend one log unaware of each other. Even so whatever load_log *)
(* lets pass is a history of the gallery: a record names the contents it was   *)
(* validated against, and anything else before it breaks the chain.            *)
ReadableIsHistory ==
  \A l \in Logs : LET f == files[l] IN
    ~f.torn /\ Chained(f.recs) /\ OneKey(f.recs) => ValidLog(Entries(f.recs))

(* A reset that removes nothing of a log whose lock file somebody has open is  *)
(* harmless: each log goes on from what is there, or starts afresh, as one     *)
(* chain of legal entries under one token, and nobody works from bytes that    *)
(* are no longer the file's.                                                   *)
CleanReset == ~met => LogReplays /\ SnapshotCurrent
===============================================================================
