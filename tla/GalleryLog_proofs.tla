--------------------------- MODULE GalleryLog_proofs ---------------------------
(* Proofs about GalleryLog, for any processes, logs, tokens, commands and      *)
(* bounds. The inductive invariant says, for each process, what its position   *)
(* in the code implies about the lock it holds, the part of the file it has    *)
(* been through and the state it has computed.                                 *)
EXTENDS GalleryLog, Gallery_proofs, SequenceTheorems

AllUnder(rs, k) == \A i \in 1..Len(rs) : rs[i].key = k

\* The lock held, and the entry cached, at each position.
Holding(p) ==
  /\ pc[p] \in {"read", "scan", "replay", "apply", "append", "answer"} => held[p] = cmd[p].log
  /\ pc[p] \in {"lock", "done"} => held[p] = NoLog
  /\ pc[p] = "next" => held[p] = IF cache[p] = NoCache THEN NoLog ELSE cache[p].log
  /\ pc[p] \in {"lock", "read", "scan", "replay", "answer", "done"} => cache[p] = NoCache
  /\ p \notin Batches => cache[p] = NoCache
  /\ p \in Batches /\ pc[p] \in {"apply", "append"} =>
       cache[p] = [log |-> cmd[p].log, key |-> cmd[p].key]

\* Writers run commands, readers ask queries.
Working(p) ==
  /\ pc[p] \notin {"next", "done"} => cmd[p] \in IF p \in Writers THEN Commands ELSE Queries
  /\ pc[p] \in {"apply", "append"} => p \in Writers
  /\ pc[p] = "answer" => p \in Readers

\* Nothing is left over from an earlier load.
Fresh(p) ==
  /\ pc[p] \in {"next", "lock", "read", "apply", "append"} => n[p] = 0
  /\ pc[p] \in {"lock", "read"} \/ (pc[p] = "next" /\ p \in Readers) =>
       last_hash[p] = Zero
  /\ pc[p] \in {"lock", "read", "scan"} \/ (pc[p] = "next" /\ p \in Readers) =>
       state[p] = EmptyState
  /\ pc[p] \notin {"next", "done"} \/ (pc[p] = "next" /\ p \in Readers) =>
       outcome[p] = "none"

\* load_log and compute_state in progress.
Loading(p) ==
  LET rs == buf[p].recs IN
  /\ pc[p] \in {"scan", "replay", "answer"} => buf[p] = files[cmd[p].log]
  /\ pc[p] = "scan" =>
       /\ n[p] \in 0..Len(rs)
       /\ last_hash[p] = HashAt(rs, n[p])
       /\ \A i \in 1..n[p] : rs[i].key = cmd[p].key
  /\ pc[p] \in {"replay", "answer"} => ~buf[p].torn /\ AllUnder(rs, cmd[p].key)
  /\ pc[p] = "replay" =>
       /\ n[p] \in 0..Len(rs)
       /\ last_hash[p] = HashAt(rs, Len(rs))
       /\ Computes(state[p], Entries(rs), n[p])

\* Lock held, log loaded: hash, key and state are those of the file.
Coherent(p, l, k) ==
  LET rs == files[l].recs IN
  /\ ~files[l].torn
  /\ AllUnder(rs, k)
  /\ last_hash[p] = HashAt(rs, Len(rs))
  /\ Computes(state[p], Entries(rs), Len(rs))

\* The state is one entry ahead of the file.
Ahead(p, l, k, e) ==
  LET rs == files[l].recs IN
  /\ ~files[l].torn
  /\ AllUnder(rs, k)
  /\ last_hash[p] = HashAt(rs, Len(rs))
  /\ Follows(Entries(rs), Len(rs), e)
  /\ Computes(state[p], Append(Entries(rs), e), Len(rs) + 1)

Loaded(p) ==
  /\ pc[p] = "apply" => Coherent(p, cmd[p].log, cmd[p].key)
  /\ pc[p] = "next" /\ cache[p] # NoCache => Coherent(p, cache[p].log, cache[p].key)
  /\ pc[p] = "append" => Ahead(p, cmd[p].log, cmd[p].key, cmd[p].entry)

ProcInv(p) == Holding(p) /\ Working(p) /\ Fresh(p) /\ Loading(p) /\ Loaded(p)

Exclusive == \A p, q \in Procs :
  p # q /\ held[p] = held[q] /\ held[p] # NoLog => p \in Readers /\ q \in Readers

Alarm(p) == outcome[p] = "integrity" =>
  /\ cmd[p] \in Commands \cup Queries
  /\ \/ files[cmd[p].log].torn
     \/ \E i \in 1..Len(files[cmd[p].log].recs) :
          files[cmd[p].log].recs[i].key # cmd[p].key

IInv == /\ TypeOK
        /\ \A p \in Procs : ProcInv(p)
        /\ Exclusive
        /\ LogReplays
        /\ Durable
        /\ \A p \in Procs : Alarm(p)

------------------------------------------------------------------------------
(* Types of the helpers *)

LEMMA CommandType ==
  /\ \A c \in Commands : c.log \in Logs /\ c.key \in Keys /\ c.entry \in Entry
  /\ \A q \in Queries : q.log \in Logs /\ q.key \in Keys
BY CommandsAssumption, QueriesAssumption

LEMMA HashType == \A r \in Record : Hash(r) \in Digest
BY DEF Record, Hash, Digest, Content

LEMMA FileType ==
  ASSUME NEW f \in File, NEW r \in Record
  PROVE  Written(f, r) \in File /\ Torn(f) \in File
BY DEF File, Written, Torn

LEMMA InitialType == NoFile \in File /\ Zero \in Digest /\ EmptyState \in GalleryState
BY EmptyStateType DEF NoFile, File, Zero, Digest

LEMMA NewRecordType ==
  ASSUME TypeOK, NEW p \in Procs, cmd[p] \in Commands
  PROVE  NewRecord(p) \in Record
BY CommandType DEF TypeOK, NewRecord, Record

------------------------------------------------------------------------------
(* Type correctness needs to know who runs what. *)

TypeInv == TypeOK /\ \A p \in Procs : Working(p)

LEMMA InitTypeInv == Init => TypeInv
BY InitialType DEF Init, TypeInv, TypeOK, Working, NoFile

LEMMA NextTypeInv == TypeInv /\ [Next]_vars => TypeInv'
<1> SUFFICES ASSUME TypeInv, [Next]_vars PROVE TypeInv' OBVIOUS
<1> USE DEF TypeInv
<1>1. CASE UNCHANGED vars
  BY <1>1 DEF vars, shared, TypeOK, Working
<1>2. ASSUME NEW p \in Procs, BadLine(p) PROVE TypeInv'
  BY <1>2 DEF BadLine, GoTo, Report, NextOrDone, shared, TypeOK, Working
<1>3. ASSUME NEW p \in Procs, NextLine(p) PROVE TypeInv'
  <2>1. PICK c \in Commands :
          /\ cmd' = [cmd EXCEPT ![p] = c]
          /\ \/ GoTo(p, "apply") /\ UNCHANGED <<held, cache, last_hash, state>>
             \/ /\ GoTo(p, "lock")
                /\ held'      = [held EXCEPT ![p] = NoLog]
                /\ cache'     = [cache EXCEPT ![p] = NoCache]
                /\ last_hash' = [last_hash EXCEPT ![p] = Zero]
                /\ state'     = [state EXCEPT ![p] = EmptyState]
    BY <1>3 DEF NextLine
  <2>2. /\ p \in Writers
        /\ lines' = [lines EXCEPT ![p] = @ + 1]
        /\ outcome' = [outcome EXCEPT ![p] = "none"]
        /\ UNCHANGED <<files, acked, answer, buf, n>>
    BY <1>3 DEF NextLine, Report, shared
  <2>3. /\ pc' = [pc EXCEPT ![p] = "apply"] \/ pc' = [pc EXCEPT ![p] = "lock"]
        /\ held' \in [Procs -> Logs \cup {NoLog}]
        /\ cache' \in [Procs -> [log: Logs, key: Keys] \cup {NoCache}]
        /\ last_hash' \in [Procs -> Digest]
        /\ state' \in [Procs -> GalleryState]
    <3>1. CASE GoTo(p, "apply") /\ UNCHANGED <<held, cache, last_hash, state>>
      BY <3>1 DEF GoTo, TypeOK
    <3>2. CASE /\ GoTo(p, "lock")
               /\ held'      = [held EXCEPT ![p] = NoLog]
               /\ cache'     = [cache EXCEPT ![p] = NoCache]
               /\ last_hash' = [last_hash EXCEPT ![p] = Zero]
               /\ state'     = [state EXCEPT ![p] = EmptyState]
      BY <3>2, InitialType DEF GoTo, TypeOK
    <3> QED BY <2>1, <3>1, <3>2
  <2>4. TypeOK'
    <3>1. pc' \in [Procs -> {"next", "lock", "read", "scan", "replay", "apply", "append",
                             "answer", "done"}]
      BY <2>3 DEF TypeOK
    <3>2. cmd' \in [Procs -> Commands \cup Queries \cup {NoCmd}] BY <2>1 DEF TypeOK
    <3>3. lines' \in [Procs -> Nat] BY <2>2 DEF TypeOK
    <3> QED BY <2>2, <2>3, <3>1, <3>2, <3>3 DEF TypeOK
  <2>5. \A q \in Procs : Working(q)' BY <2>1, <2>2, <2>3, ProcsAssumption DEF Working, TypeOK
  <2> QED BY <2>4, <2>5
<1>4. ASSUME NEW p \in Procs, EndOfFile(p) PROVE TypeInv'
  BY <1>4, InitialType DEF EndOfFile, Exit, Forget, GoTo, Report, shared, TypeOK, Working
<1>5. ASSUME NEW p \in Procs, Ask(p) PROVE TypeInv'
  BY <1>5, ProcsAssumption DEF Ask, GoTo, Report, shared, TypeOK, Working
<1>6. ASSUME NEW p \in Procs, Lock(p) PROVE TypeInv'
  BY <1>6, CommandType DEF Lock, GoTo, shared, TypeOK, Working
<1>7. ASSUME NEW p \in Procs, NEW what \in {"invalid", "integrity"}, GiveUp(p, what)
      PROVE TypeInv'
  BY <1>7, InitialType
     DEF GiveUp, Forget, GoTo, Report, NextOrDone, shared, TypeOK, Working
<1>8. ASSUME NEW p \in Procs, Read(p) PROVE TypeInv'
  BY <1>8, CommandType DEF Read, GoTo, shared, TypeOK, Working
<1>9. ASSUME NEW p \in Procs, Scan(p) PROVE TypeInv'
  <2>1. buf[p].recs[n[p]+1] \in Record BY <1>9 DEF Scan, TypeOK, File
  <2>2. Hash(buf[p].recs[n[p]+1]) \in Digest BY <2>1, HashType
  <2>3. CASE Authentic(p, buf[p].recs[n[p]+1])
    <3>1. /\ last_hash' = [last_hash EXCEPT ![p] = Hash(buf[p].recs[n[p]+1])]
          /\ n' = [n EXCEPT ![p] = @ + 1]
          /\ UNCHANGED <<shared, pc, cmd, held, cache, buf, state, lines, outcome>>
      BY <1>9, <2>3 DEF Scan
    <3> QED BY <3>1, <2>2 DEF shared, TypeOK, Working
  <2>4. CASE ~Authentic(p, buf[p].recs[n[p]+1])
    BY <1>9, <1>7, <2>4 DEF Scan
  <2> QED BY <2>3, <2>4
<1>10. ASSUME NEW p \in Procs, EndScan(p) PROVE TypeInv'
  <2>1. CASE buf[p].torn BY <1>10, <1>7, <2>1 DEF EndScan
  <2>2. CASE ~buf[p].torn
    <3>1. p \in Writers \/ p \in Readers BY DEF Procs
    <3>2. /\ pc[p] = "scan"
          /\ n' = [n EXCEPT ![p] = 0]
          /\ UNCHANGED <<shared, cmd, held, cache, buf, last_hash, state, lines, outcome>>
          /\ \/ pc' = [pc EXCEPT ![p] = "replay"]
             \/ pc' = [pc EXCEPT ![p] = "answer"] /\ p \in Readers
      BY <1>10, <2>2, <3>1 DEF EndScan, Replays, GoTo
    <3> QED BY <3>2 DEF shared, TypeOK, Working
  <2> QED BY <2>1, <2>2
<1>11. ASSUME NEW p \in Procs, Replay(p) PROVE TypeInv'
  <2>0. buf[p].recs[n[p]+1] \in Record BY <1>11 DEF Replay, TypeOK, File
  <2>1. buf[p].recs[n[p]+1].entry \in Entry BY <2>0 DEF Record
  <2>2. Applied(state[p], buf[p].recs[n[p]+1].entry) \in GalleryState
    BY <2>1, AppliedType DEF TypeOK
  <2>3. CASE CanApply(state[p], buf[p].recs[n[p]+1].entry)
    <3>1. /\ state' = [state EXCEPT ![p] = Applied(@, buf[p].recs[n[p]+1].entry)]
          /\ n' = [n EXCEPT ![p] = @ + 1]
          /\ UNCHANGED <<shared, pc, cmd, held, cache, buf, last_hash, lines, outcome>>
      BY <1>11, <2>3 DEF Replay
    <3> QED BY <3>1, <2>2 DEF shared, TypeOK, Working
  <2>4. CASE ~CanApply(state[p], buf[p].recs[n[p]+1].entry)
    BY <1>11, <1>7, <2>4 DEF Replay
  <2> QED BY <2>3, <2>4
<1>12. ASSUME NEW p \in Procs, EndReplay(p) PROVE TypeInv'
  <2>1. CASE p \in Readers
    BY <1>12, <2>1 DEF EndReplay, GoTo, shared, TypeOK, Working
  <2>2. CASE p \notin Readers
    <3>1. p \in Writers /\ [log |-> cmd[p].log, key |-> cmd[p].key] \in [log: Logs, key: Keys]
      BY <1>12, <2>2, CommandType DEF EndReplay, Procs, Working
    <3>2. /\ pc[p] = "replay"
          /\ pc' = [pc EXCEPT ![p] = "apply"]
          /\ \/ cache' = cache
             \/ cache' = [cache EXCEPT ![p] = [log |-> cmd[p].log, key |-> cmd[p].key]]
          /\ buf' = [buf EXCEPT ![p] = NoFile]
          /\ n' = [n EXCEPT ![p] = 0]
          /\ UNCHANGED <<shared, cmd, held, last_hash, state, lines, outcome>>
      BY <1>12, <2>2 DEF EndReplay, GoTo
    <3>3. cache' \in [Procs -> [log: Logs, key: Keys] \cup {NoCache}]
      BY <3>1, <3>2 DEF TypeOK
    <3> QED BY <3>1, <3>2, <3>3, InitialType DEF shared, TypeOK, Working
  <2> QED BY <2>1, <2>2
<1>13. ASSUME NEW p \in Procs, NEW what \in {"ok", "invalid"}, Finish(p, what),
              files' \in [Logs -> File], acked' \in [Logs -> SUBSET Content],
              answer' = answer, last_hash' \in [Procs -> Digest],
              state' \in [Procs -> GalleryState]
       PROVE TypeInv'
  BY <1>13 DEF Finish, GoTo, Report, NextOrDone, TypeOK, Working
<1>14. ASSUME NEW p \in Procs, Apply(p) PROVE TypeInv'
  <2>1. cmd[p] \in Commands /\ Applied(state[p], cmd[p].entry) \in GalleryState
    BY <1>14, AppliedType, CommandType DEF Apply, TypeOK, Working
  <2>2. CASE CanApply(state[p], cmd[p].entry)
    BY <1>14, <2>1, <2>2 DEF Apply, GoTo, shared, TypeOK, Working
  <2>3. CASE ~CanApply(state[p], cmd[p].entry)
    <3>1. Finish(p, "invalid") /\ UNCHANGED <<shared, last_hash, state>>
      BY <1>14, <2>3 DEF Apply
    <3> QED BY <1>13, <3>1 DEF shared, TypeOK
  <2> QED BY <2>2, <2>3
<1>15. ASSUME NEW p \in Procs, AppendEntry(p) PROVE TypeInv'
  <2>1. cmd[p] \in Commands BY <1>15 DEF AppendEntry, Working
  <2>2. NewRecord(p) \in Record BY <2>1, NewRecordType
  <2>3. /\ Written(files[cmd[p].log], NewRecord(p)) \in File
        /\ Hash(NewRecord(p)) \in Digest
        /\ [key |-> cmd[p].key, entry |-> cmd[p].entry] \in Content
    BY <2>1, <2>2, FileType, HashType, CommandType DEF TypeOK, Content
  <2> QED BY <1>15, <1>13, <2>1, <2>3 DEF AppendEntry, TypeOK
<1>16. ASSUME NEW p \in Procs, AppendFails(p) PROVE TypeInv'
  <2>1. cmd[p] \in Commands BY <1>16 DEF AppendFails, Working
  <2>2. \A l \in Logs : Torn(files[l]) \in File
    BY <2>1, NewRecordType, FileType DEF TypeOK
  <2>3. files' \in [Logs -> File]
    <3>1. files \in [Logs -> File] BY DEF TypeOK
    <3>2. \/ files' = files
          \/ files' = [files EXCEPT ![cmd[p].log] = Torn(@)]
      BY <1>16 DEF AppendFails
    <3> QED BY <2>2, <3>1, <3>2
  <2>4. Finish(p, "invalid") /\ UNCHANGED <<acked, answer, last_hash, state>>
    BY <1>16 DEF AppendFails
  <2> QED BY <1>13, <2>3, <2>4 DEF TypeOK
<1>17. ASSUME NEW p \in Procs, Answer(p) PROVE TypeInv'
  <2>1. p \in Readers /\ cmd[p].log \in Logs
    BY <1>17, CommandType DEF Answer, Working
  <2>0. buf[p].recs \in Seq(Record) BY DEF TypeOK, File
  <2>2. [i \in 1..Len(buf[p].recs) |-> buf[p].recs[i].entry] \in Seq(Entry)
    <3>1. Len(buf[p].recs) \in Nat BY <2>0
    <3>2. \A i \in 1..Len(buf[p].recs) : buf[p].recs[i] \in Record BY <2>0
    <3>3. \A i \in 1..Len(buf[p].recs) : buf[p].recs[i].entry \in Entry BY <3>2 DEF Record
    <3> QED BY <3>1, <3>3
  <2> QED BY <1>17, <2>1, <2>2, InitialType
          DEF Answer, Exit, Forget, GoTo, Report, TypeOK, Working
<1>18. ASSUME NEW p \in Procs, Crash(p) PROVE TypeInv'
  <2>1. files' \in [Logs -> File]
    <3>1. CASE pc[p] = "append"
      <4>1. cmd[p] \in Commands BY <3>1 DEF Working
      <4>2. NewRecord(p) \in Record BY <4>1, NewRecordType
      <4>3. /\ Torn(files[cmd[p].log]) \in File
            /\ Written(files[cmd[p].log], NewRecord(p)) \in File
        BY <4>1, <4>2, FileType, CommandType DEF TypeOK
      <4> QED BY <1>18, <4>3 DEF Crash, TypeOK
    <3>2. CASE pc[p] # "append" BY <1>18, <3>2 DEF Crash, TypeOK
    <3> QED BY <3>1, <3>2
  <2> QED BY <1>18, <2>1, InitialType
          DEF Crash, Exit, Forget, GoTo, Report, TypeOK, Working
<1> QED
  BY <1>1, <1>2, <1>3, <1>4, <1>5, <1>6, <1>7, <1>8, <1>9, <1>10, <1>11, <1>12,
     <1>14, <1>15, <1>16, <1>17, <1>18
  DEF Next, Step, Work, IoError

\* Every reachable state is well typed.
THEOREM TypeCorrect == Spec => []TypeOK
<1>1. Spec => []TypeInv BY InitTypeInv, NextTypeInv, PTL DEF Spec
<1>2. TypeInv => TypeOK BY DEF TypeInv
<1> QED BY <1>1, <1>2, PTL

------------------------------------------------------------------------------
(* What a step of one process leaves alone *)

Untouched(q) ==
  /\ pc'[q] = pc[q] /\ cmd'[q] = cmd[q] /\ held'[q] = held[q] /\ cache'[q] = cache[q]
  /\ buf'[q] = buf[q] /\ n'[q] = n[q] /\ last_hash'[q] = last_hash[q]
  /\ state'[q] = state[q] /\ outcome'[q] = outcome[q]

LEMMA OthersUntouched ==
  ASSUME TypeOK, NEW p \in Procs, Step(p) \/ Crash(p), NEW q \in Procs, q # p
  PROVE  Untouched(q)
<1> USE DEF Untouched, TypeOK
<1>1. CASE BadLine(p) BY <1>1 DEF BadLine, GoTo, Report
<1>2. CASE NextLine(p)
  <2>1. PICK c \in Commands :
          /\ cmd' = [cmd EXCEPT ![p] = c]
          /\ \/ GoTo(p, "apply") /\ UNCHANGED <<held, cache, last_hash, state>>
             \/ /\ GoTo(p, "lock")
                /\ held'      = [held EXCEPT ![p] = NoLog]
                /\ cache'     = [cache EXCEPT ![p] = NoCache]
                /\ last_hash' = [last_hash EXCEPT ![p] = Zero]
                /\ state'     = [state EXCEPT ![p] = EmptyState]
    BY <1>2 DEF NextLine
  <2>2. outcome' = [outcome EXCEPT ![p] = "none"] /\ UNCHANGED <<buf, n>>
    BY <1>2 DEF NextLine, Report
  <2> QED BY <2>1, <2>2 DEF GoTo
<1>3. CASE EndOfFile(p) BY <1>3 DEF EndOfFile, Exit, Forget, GoTo, Report
<1>4. CASE Ask(p) BY <1>4 DEF Ask, GoTo
<1>5. CASE Lock(p) BY <1>5 DEF Lock, GoTo
<1>6. ASSUME NEW what, GiveUp(p, what) PROVE Untouched(q)
  BY <1>6 DEF GiveUp, Forget, GoTo, Report
<1>7. CASE IoError(p) BY <1>7, <1>6 DEF IoError
<1>8. CASE Read(p) BY <1>8 DEF Read, GoTo
<1>9. CASE Scan(p)
  <2> DEFINE r == buf[p].recs[n[p]+1]
  <2>1. CASE Authentic(p, r)
    <3>1. /\ last_hash' = [last_hash EXCEPT ![p] = Hash(r)]
          /\ n' = [n EXCEPT ![p] = @ + 1]
          /\ UNCHANGED <<pc, cmd, held, cache, buf, state, outcome>>
      BY <1>9, <2>1 DEF Scan
    <3> QED BY <3>1
  <2>2. CASE ~Authentic(p, r) BY <1>9, <2>2, <1>6 DEF Scan
  <2> QED BY <2>1, <2>2
<1>10. CASE EndScan(p)
  <2>1. CASE buf[p].torn BY <1>10, <1>6, <2>1 DEF EndScan
  <2>2. CASE ~buf[p].torn BY <1>10, <2>2 DEF EndScan, GoTo
  <2> QED BY <2>1, <2>2
<1>11. CASE Replay(p)
  <2> DEFINE e == buf[p].recs[n[p]+1].entry
  <2>1. CASE CanApply(state[p], e)
    <3>1. /\ state' = [state EXCEPT ![p] = Applied(@, e)]
          /\ n' = [n EXCEPT ![p] = @ + 1]
          /\ UNCHANGED <<pc, cmd, held, cache, buf, last_hash, outcome>>
      BY <1>11, <2>1 DEF Replay
    <3> QED BY <3>1
  <2>2. CASE ~CanApply(state[p], e) BY <1>11, <2>2, <1>6 DEF Replay
  <2> QED BY <2>1, <2>2
<1>12. CASE EndReplay(p) BY <1>12 DEF EndReplay, GoTo
<1>13. ASSUME NEW what, Finish(p, what),
              last_hash'[q] = last_hash[q], state'[q] = state[q]
       PROVE Untouched(q)
  BY <1>13 DEF Finish, GoTo, Report
<1>14. CASE Apply(p)
  <2>1. CASE CanApply(state[p], cmd[p].entry)
    BY <1>14, <2>1 DEF Apply, GoTo
  <2>2. CASE ~CanApply(state[p], cmd[p].entry)
    BY <1>14, <1>13, <2>2 DEF Apply
  <2> QED BY <2>1, <2>2
<1>15. CASE AppendEntry(p) BY <1>15, <1>13 DEF AppendEntry
<1>16. CASE AppendFails(p) BY <1>16, <1>13 DEF AppendFails
<1>17. CASE Answer(p) BY <1>17 DEF Answer, Exit, Forget, GoTo, Report
<1>18. CASE Crash(p) BY <1>18 DEF Crash, Exit, Forget, GoTo, Report
<1> QED BY <1>1, <1>2, <1>3, <1>4, <1>5, <1>7, <1>8, <1>9, <1>10, <1>11, <1>12,
           <1>14, <1>15, <1>16, <1>17, <1>18 DEF Step, Work

\* Only a process about to append changes a file, and only the log it is on.
FilesStep(p) ==
  \/ files' = files
  \/ /\ pc[p] = "append"
     /\ \/ files' = [files EXCEPT ![cmd[p].log] = Torn(@)]
        \/ files' = [files EXCEPT ![cmd[p].log] = Written(@, NewRecord(p))]

LEMMA FilesChange ==
  ASSUME NEW p \in Procs, Step(p) \/ Crash(p) PROVE FilesStep(p)
BY DEF FilesStep, Step, Work, Crash, BadLine, NextLine, EndOfFile, Ask, Lock, IoError, Read, Scan,
       EndScan, Replay, EndReplay, Apply, AppendEntry, AppendFails, Answer, GiveUp, shared

\* A lock is taken by Lock alone.
LEMMA HeldChange ==
  ASSUME TypeOK, NEW p \in Procs, Step(p) \/ Crash(p)
  PROVE  held'[p] \in {held[p], NoLog} \/ Lock(p)
BY DEF TypeOK, Step, Work, Crash, BadLine, NextLine, EndOfFile, Ask, IoError, Read, Scan,
       EndScan, Replay, EndReplay, Apply, AppendEntry, AppendFails, Answer, GiveUp, Exit, Finish

------------------------------------------------------------------------------
(* Sequences of records and what they say *)

LEMMA EntriesOfRecords ==
  ASSUME NEW rs \in Seq(Record)
  PROVE  /\ Entries(rs) \in Seq(Entry)
         /\ Len(Entries(rs)) = Len(rs)
         /\ \A i \in 1..Len(rs) : Entries(rs)[i] = rs[i].entry /\ rs[i] \in Record
<1>1. Len(rs) \in Nat OBVIOUS
<1>2. \A i \in 1..Len(rs) : rs[i] \in Record OBVIOUS
<1>3. \A i \in 1..Len(rs) : rs[i].entry \in Entry BY <1>2 DEF Record
<1>4. Entries(rs) = [i \in 1..Len(rs) |-> rs[i].entry] BY DEF Entries
<1> QED BY <1>1, <1>2, <1>3, <1>4

LEMMA Extended ==
  ASSUME NEW rs \in Seq(Record), NEW r \in Record
  PROVE  /\ Append(rs, r) \in Seq(Record)
         /\ Len(Append(rs, r)) = Len(rs) + 1
         /\ \A i \in 1..Len(rs) : Append(rs, r)[i] = rs[i]
         /\ Append(rs, r)[Len(rs) + 1] = r
OBVIOUS

LEMMA ExtendedEntries ==
  ASSUME NEW rs \in Seq(Record), NEW r \in Record
  PROVE  \A i \in 1..(Len(rs) + 1) :
           Entries(Append(rs, r))[i] = Append(Entries(rs), r.entry)[i]
<1> DEFINE rt == Append(rs, r)
<1>1. /\ rt \in Seq(Record) /\ Len(rt) = Len(rs) + 1
      /\ \A i \in 1..Len(rs) : rt[i] = rs[i]
      /\ rt[Len(rs) + 1] = r
  BY Extended
<1>2. \A i \in 1..(Len(rs) + 1) : Entries(rt)[i] = rt[i].entry
  BY <1>1, EntriesOfRecords
<1>3. Entries(rs) \in Seq(Entry) /\ Len(Entries(rs)) = Len(rs)
      /\ \A i \in 1..Len(rs) : Entries(rs)[i] = rs[i].entry
  BY EntriesOfRecords
<1>4. r.entry \in Entry BY DEF Record
<1>5. \A i \in 1..Len(rs) : Append(Entries(rs), r.entry)[i] = rs[i].entry
  BY <1>3, <1>4
<1>6. Append(Entries(rs), r.entry)[Len(rs) + 1] = r.entry BY <1>3, <1>4
<1>7. ASSUME NEW i \in 1..(Len(rs) + 1)
      PROVE  Entries(rt)[i] = Append(Entries(rs), r.entry)[i]
  <2>1. i \in 1..Len(rs) \/ i = Len(rs) + 1 OBVIOUS
  <2>2. CASE i \in 1..Len(rs) BY <1>1, <1>2, <1>5, <2>2
  <2>3. CASE i = Len(rs) + 1 BY <1>1, <1>2, <1>6, <2>3
  <2> QED BY <2>1, <2>2, <2>3
<1> QED BY <1>7

------------------------------------------------------------------------------
(* The other processes *)

LEMMA OtherHolds ==
  ASSUME TypeOK, Exclusive, NEW p \in Procs, ProcInv(p), FilesStep(p),
         NEW q \in Procs, q # p, held[q] # NoLog
  PROVE  files'[held[q]] = files[held[q]]
<1>1. CASE files' = files BY <1>1
<1>2. CASE pc[p] = "append"
  <2>1. /\ held[p] = cmd[p].log /\ p \in Writers /\ cmd[p].log \in Logs
    BY <1>2, CommandType DEF ProcInv, Holding, Working
  <2>2. held[q] # cmd[p].log
    BY <2>1, ProcsAssumption, NullsAssumption DEF Exclusive
  <2> QED BY <2>1, <2>2 DEF FilesStep, TypeOK
<1> QED BY <1>1, <1>2 DEF FilesStep

LEMMA Frame ==
  ASSUME TypeOK, NEW q \in Procs, ProcInv(q), Untouched(q),
         held[q] # NoLog => files'[held[q]] = files[held[q]]
  PROVE  ProcInv(q)'
<1>1. Holding(q)' BY DEF ProcInv, Holding, Untouched
<1>2. Working(q)' BY DEF ProcInv, Working, Untouched
<1>3. Fresh(q)' BY DEF ProcInv, Fresh, Untouched
<1>4. ASSUME pc[q] \in {"scan", "replay", "answer", "apply", "append"}
      PROVE  held[q] = cmd[q].log /\ held[q] # NoLog
  BY <1>4, CommandType, NullsAssumption DEF ProcInv, Holding, Working
<1>5. Loading(q)'
  <2>1. pc[q] \in {"scan", "replay", "answer"} => files'[cmd[q].log] = files[cmd[q].log]
    BY <1>4
  <2> QED BY <2>1 DEF ProcInv, Loading, Untouched
<1>6. Loaded(q)'
  <2>1. pc[q] \in {"apply", "append"} => files'[cmd[q].log] = files[cmd[q].log]
    BY <1>4
  <2>2. pc[q] = "next" /\ cache[q] # NoCache => files'[cache[q].log] = files[cache[q].log]
    <3>1. CASE pc[q] = "next" /\ cache[q] # NoCache
      <4>1. held[q] = cache[q].log /\ cache[q].log # NoLog
        BY <3>1, NullsAssumption DEF ProcInv, Holding, TypeOK
      <4> QED BY <4>1
    <3> QED BY <3>1
  <2> QED BY <2>1, <2>2 DEF ProcInv, Loaded, Coherent, Ahead, Untouched
<1> QED BY <1>1, <1>2, <1>3, <1>5, <1>6 DEF ProcInv

------------------------------------------------------------------------------
(* The process that takes the step *)

\* Nothing is claimed of a process that has ended, or of a batch between two
\* lines that holds no lock.
LEMMA AtDone ==
  ASSUME NEW p \in Procs, pc'[p] = "done", held'[p] = NoLog, cache'[p] = NoCache
  PROVE  ProcInv(p)'
BY DEF ProcInv, Holding, Working, Fresh, Loading, Loaded

LEMMA AtIdle ==
  ASSUME NEW p \in Batches, pc'[p] = "next", held'[p] = NoLog, cache'[p] = NoCache,
         n'[p] = 0
  PROVE  ProcInv(p)'
<1>1. p \notin Readers BY ProcsAssumption DEF Writers
<1> QED BY <1>1 DEF ProcInv, Holding, Working, Fresh, Loading, Loaded

LEMMA SelfGiveUp ==
  ASSUME TypeOK, NEW p \in Procs, ProcInv(p), NEW what, GiveUp(p, what),
         pc[p] \in {"lock", "read", "scan", "replay"}
  PROVE  ProcInv(p)'
<1>1. /\ pc'[p] = IF p \in Batches THEN "next" ELSE "done"
      /\ held'[p] = NoLog /\ cache'[p] = cache[p] /\ n'[p] = 0
  BY DEF GiveUp, Forget, GoTo, NextOrDone, TypeOK
<1>2. cache[p] = NoCache BY DEF ProcInv, Holding
<1> QED BY <1>1, <1>2, AtDone, AtIdle

LEMMA SelfExit ==
  ASSUME TypeOK, NEW p \in Procs, NEW what, Exit(p, what) PROVE ProcInv(p)'
<1>1. pc'[p] = "done" /\ held'[p] = NoLog /\ cache'[p] = NoCache
  BY DEF Exit, GoTo, TypeOK
<1> QED BY <1>1, AtDone

LEMMA SelfBadLine ==
  ASSUME TypeOK, NEW p \in Procs, ProcInv(p), BadLine(p) PROVE ProcInv(p)'
<1>1. /\ pc[p] = "next" /\ pc'[p] = IF p \in Batches THEN "next" ELSE "done"
      /\ UNCHANGED <<files, cmd, held, cache, buf, n, last_hash, state>>
  BY DEF BadLine, GoTo, NextOrDone, TypeOK, shared
<1>2. CASE p \in Batches
  <2>1. p \notin Readers BY <1>2, ProcsAssumption DEF Writers
  <2> QED BY <1>1, <1>2, <2>1 DEF ProcInv, Holding, Working, Fresh, Loading, Loaded, Coherent
<1>3. CASE p \notin Batches
  <2>1. cache[p] = NoCache /\ held[p] = NoLog BY <1>1, <1>3 DEF ProcInv, Holding
  <2> QED BY <1>1, <1>3, <2>1, AtDone
<1> QED BY <1>2, <1>3

LEMMA SelfNextLine ==
  ASSUME TypeOK, NEW p \in Procs, ProcInv(p), NextLine(p) PROVE ProcInv(p)'
<1>1. /\ pc[p] = "next" /\ p \in Writers /\ p \notin Readers /\ n[p] = 0
      /\ outcome'[p] = "none"
      /\ UNCHANGED <<files, buf, n>>
  BY ProcsAssumption DEF NextLine, Report, TypeOK, shared, ProcInv, Fresh
<1>2. PICK c \in Commands :
        /\ cmd' = [cmd EXCEPT ![p] = c]
        /\ IF cache[p] = [log |-> c.log, key |-> c.key]
             THEN GoTo(p, "apply") /\ UNCHANGED <<held, cache, last_hash, state>>
             ELSE /\ GoTo(p, "lock")
                  /\ held'      = [held EXCEPT ![p] = NoLog]
                  /\ cache'     = [cache EXCEPT ![p] = NoCache]
                  /\ last_hash' = [last_hash EXCEPT ![p] = Zero]
                  /\ state'     = [state EXCEPT ![p] = EmptyState]
  BY DEF NextLine
<1>3. cmd'[p] = c BY <1>2 DEF TypeOK
<1>4. CASE cache[p] = [log |-> c.log, key |-> c.key]
  <2>1. cache[p] # NoCache BY <1>4, CommandType, NullsAssumption
  <2>2. /\ pc'[p] = "apply" /\ UNCHANGED <<held, cache, last_hash, state>>
    BY <1>2, <1>4 DEF GoTo, TypeOK
  <2>3. held[p] = c.log /\ cache[p].log = c.log /\ cache[p].key = c.key
    BY <1>1, <1>4, <2>1 DEF ProcInv, Holding
  <2>4. p \in Batches BY <2>1 DEF ProcInv, Holding
  <2>5. Coherent(p, c.log, c.key) BY <1>1, <2>1, <2>3 DEF ProcInv, Loaded
  <2>6. Coherent(p, c.log, c.key)' BY <1>1, <2>2, <2>5 DEF Coherent
  <2> QED BY <1>1, <1>3, <1>4, <2>2, <2>3, <2>4, <2>6
          DEF ProcInv, Holding, Working, Fresh, Loading, Loaded
<1>5. CASE cache[p] # [log |-> c.log, key |-> c.key]
  <2>1. /\ pc'[p] = "lock" /\ held'[p] = NoLog /\ cache'[p] = NoCache
        /\ last_hash'[p] = Zero /\ state'[p] = EmptyState
    BY <1>2, <1>5 DEF GoTo, TypeOK
  <2> QED BY <1>1, <1>3, <2>1 DEF ProcInv, Holding, Working, Fresh, Loading, Loaded
<1> QED BY <1>4, <1>5

LEMMA SelfAsk ==
  ASSUME TypeOK, NEW p \in Procs, ProcInv(p), Ask(p) PROVE ProcInv(p)'
<1>1. PICK q \in Queries : cmd' = [cmd EXCEPT ![p] = q] BY DEF Ask
<1>2. /\ pc[p] = "next" /\ pc'[p] = "lock" /\ cmd'[p] \in Queries /\ p \in Readers
      /\ UNCHANGED <<files, held, cache, buf, n, last_hash, state, outcome>>
  BY <1>1 DEF Ask, GoTo, TypeOK, shared
<1>3. p \notin Writers BY <1>2, ProcsAssumption
<1>4. cache[p] = NoCache /\ held[p] = NoLog
  BY <1>2, <1>3 DEF ProcInv, Holding, Writers
<1> QED BY <1>2, <1>3, <1>4 DEF ProcInv, Holding, Working, Fresh, Loading, Loaded

LEMMA SelfLock ==
  ASSUME TypeOK, NEW p \in Procs, ProcInv(p), Lock(p) PROVE ProcInv(p)'
<1>1. /\ pc[p] = "lock" /\ pc'[p] = "read" /\ held'[p] = cmd[p].log
      /\ UNCHANGED <<files, cmd, cache, buf, n, last_hash, state, outcome>>
  BY DEF Lock, GoTo, TypeOK, shared
<1> QED BY <1>1 DEF ProcInv, Holding, Working, Fresh, Loading, Loaded

LEMMA SelfRead ==
  ASSUME TypeOK, NEW p \in Procs, ProcInv(p), Read(p) PROVE ProcInv(p)'
<1>1. /\ pc[p] = "read" /\ pc'[p] = "scan" /\ buf'[p] = files[cmd[p].log]
      /\ UNCHANGED <<files, cmd, held, cache, n, last_hash, state, outcome>>
  BY DEF Read, GoTo, TypeOK, shared
<1>2. cmd[p].log \in Logs BY <1>1, CommandType DEF ProcInv, Working
<1>3. buf'[p].recs \in Seq(Record) BY <1>1, <1>2 DEF TypeOK, File
<1>4. n[p] = 0 /\ last_hash[p] = Zero /\ state[p] = EmptyState
  BY <1>1 DEF ProcInv, Fresh
<1>5. Loading(p)' BY <1>1, <1>3, <1>4 DEF Loading, HashAt
<1> QED BY <1>1, <1>4, <1>5 DEF ProcInv, Holding, Working, Fresh, Loaded

LEMMA SelfScan ==
  ASSUME TypeOK, NEW p \in Procs, ProcInv(p), Scan(p) PROVE ProcInv(p)'
<1> DEFINE rs == buf[p].recs
           r  == rs[n[p]+1]
<1>1. CASE Authentic(p, r)
  <2>1. /\ pc[p] = "scan" /\ n[p] < Len(rs)
        /\ last_hash' = [last_hash EXCEPT ![p] = Hash(r)]
        /\ n' = [n EXCEPT ![p] = n[p] + 1]
        /\ UNCHANGED <<files, pc, cmd, held, cache, buf, state, outcome>>
    BY <1>1 DEF Scan, shared
  <2>2. last_hash'[p] = Hash(r) /\ n'[p] = n[p] + 1 BY <2>1 DEF TypeOK
  <2>3. r.key = cmd[p].key BY <1>1 DEF Authentic
  <2>4. n[p] \in Nat /\ Len(rs) \in Nat BY DEF TypeOK, File
  <2>5. Loading(p)'
    <3>1. n'[p] \in 0..Len(rs) BY <2>1, <2>2, <2>4
    <3>2. \A i \in 1..n'[p] : rs[i].key = cmd[p].key
      BY <2>1, <2>2, <2>3, <2>4 DEF ProcInv, Loading
    <3>3. last_hash'[p] = HashAt(rs, n'[p]) BY <2>2, <2>4 DEF HashAt
    <3>4. buf[p] = files[cmd[p].log] BY <2>1 DEF ProcInv, Loading
    <3> QED BY <2>1, <3>1, <3>2, <3>3, <3>4 DEF Loading
  <2> QED BY <2>1, <2>2, <2>5 DEF ProcInv, Holding, Working, Fresh, Loaded
<1>2. CASE ~Authentic(p, r)
  BY <1>2, SelfGiveUp DEF Scan
<1> QED BY <1>1, <1>2

LEMMA SelfEndScan ==
  ASSUME TypeOK, NEW p \in Procs, ProcInv(p), EndScan(p) PROVE ProcInv(p)'
<1> DEFINE rs == buf[p].recs
<1>1. CASE buf[p].torn BY <1>1, SelfGiveUp DEF EndScan
<1>2. CASE ~buf[p].torn
  <2>1. /\ pc[p] = "scan" /\ n[p] = Len(rs)
        /\ pc'[p] = "replay" \/ (pc'[p] = "answer" /\ p \notin Writers)
        /\ n'[p] = 0
        /\ UNCHANGED <<files, cmd, held, cache, buf, last_hash, state, outcome>>
    BY <1>2 DEF EndScan, Replays, GoTo, TypeOK, shared
  <2>2. buf[p] = files[cmd[p].log] /\ last_hash[p] = HashAt(rs, Len(rs))
        /\ AllUnder(rs, cmd[p].key) /\ state[p] = EmptyState
    BY <2>1 DEF ProcInv, Loading, Fresh, AllUnder
  <2>3. Len(rs) \in Nat BY DEF TypeOK, File
  <2>4. Loading(p)' BY <1>2, <2>1, <2>2, <2>3, ComputesEmpty DEF Loading
  <2> QED BY <2>1, <2>4 DEF ProcInv, Holding, Working, Fresh, Loaded, Procs
<1> QED BY <1>1, <1>2

LEMMA SelfReplay ==
  ASSUME TypeOK, NEW p \in Procs, ProcInv(p), Replay(p) PROVE ProcInv(p)'
<1> DEFINE rs == buf[p].recs
           e  == rs[n[p]+1].entry
<1>1. CASE CanApply(state[p], e)
  <2>1. /\ pc[p] = "replay" /\ n[p] < Len(rs)
        /\ state' = [state EXCEPT ![p] = Applied(state[p], e)]
        /\ n' = [n EXCEPT ![p] = n[p] + 1]
        /\ UNCHANGED <<files, pc, cmd, held, cache, buf, last_hash, outcome>>
    BY <1>1 DEF Replay, shared
  <2>2. state'[p] = Applied(state[p], e) /\ n'[p] = n[p] + 1 BY <2>1 DEF TypeOK
  <2>3. n[p] \in Nat /\ rs \in Seq(Record) /\ Len(rs) \in Nat BY DEF TypeOK, File
  <2>4. Entries(rs)[n[p]+1] = e /\ e \in Entry
    BY <2>1, <2>3, EntriesOfRecords
  <2>5. Computes(state[p], Entries(rs), n[p]) BY <2>1 DEF ProcInv, Loading
  <2>6. Computes(state'[p], Entries(rs), n'[p])
    BY <2>2, <2>3, <2>4, <2>5, ApplyComputes DEF TypeOK
  <2>7. Loading(p)' BY <2>1, <2>2, <2>3, <2>6 DEF ProcInv, Loading
  <2> QED BY <2>1, <2>7 DEF ProcInv, Holding, Working, Fresh, Loaded
<1>2. CASE ~CanApply(state[p], e) BY <1>2, SelfGiveUp DEF Replay
<1> QED BY <1>1, <1>2

LEMMA SelfEndReplay ==
  ASSUME TypeOK, NEW p \in Procs, ProcInv(p), EndReplay(p) PROVE ProcInv(p)'
<1> DEFINE rs == buf[p].recs
<1>1. /\ pc[p] = "replay" /\ n[p] = Len(rs)
      /\ UNCHANGED <<files, cmd, held, last_hash, state, outcome>>
  BY DEF EndReplay, shared
<1>2. /\ buf[p] = files[cmd[p].log] /\ ~buf[p].torn /\ AllUnder(rs, cmd[p].key)
      /\ last_hash[p] = HashAt(rs, Len(rs))
      /\ Computes(state[p], Entries(rs), Len(rs))
  BY <1>1 DEF ProcInv, Loading
<1>3. CASE p \in Readers
  <2>1. pc'[p] = "answer" /\ UNCHANGED <<cache, buf, n>>
    BY <1>3 DEF EndReplay, GoTo, TypeOK
  <2>2. p \notin Writers BY <1>3, ProcsAssumption
  <2>3. Loading(p)' BY <1>1, <1>2, <2>1 DEF Loading
  <2> QED BY <1>1, <1>3, <2>1, <2>2, <2>3 DEF ProcInv, Holding, Working, Fresh, Loaded
<1>4. CASE p \notin Readers
  <2>1. /\ pc'[p] = "apply" /\ n'[p] = 0
        /\ cache' = IF p \in Batches
                      THEN [cache EXCEPT ![p] = [log |-> cmd[p].log, key |-> cmd[p].key]]
                      ELSE cache
    BY <1>4 DEF EndReplay, GoTo, TypeOK
  <2>2. p \in Writers BY <1>4 DEF Procs
  <2>3. p \in Batches => cache'[p] = [log |-> cmd[p].log, key |-> cmd[p].key]
    BY <2>1 DEF TypeOK
  <2>4. p \notin Batches => cache'[p] = cache[p] BY <2>1
  <2>5. Coherent(p, cmd[p].log, cmd[p].key)' BY <1>1, <1>2 DEF Coherent
  <2> QED BY <1>1, <2>1, <2>2, <2>3, <2>4, <2>5
          DEF ProcInv, Holding, Working, Fresh, Loading, Loaded
<1> QED BY <1>3, <1>4

\* A command that is over: the single process ends, the batch stays coherent.
LEMMA SelfFinish ==
  ASSUME TypeOK, NEW p \in Procs, ProcInv(p), NEW what, Finish(p, what),
         pc[p] \in {"apply", "append"},
         p \in Batches => Coherent(p, cmd[p].log, cmd[p].key)'
  PROVE  ProcInv(p)'
<1>1. /\ pc'[p] = IF p \in Batches THEN "next" ELSE "done"
      /\ held'[p] = IF p \in Batches THEN held[p] ELSE NoLog
      /\ UNCHANGED <<cmd, cache, n>>
  BY DEF Finish, GoTo, NextOrDone, TypeOK
<1>2. CASE p \in Batches
  <2>1. cache[p] = [log |-> cmd[p].log, key |-> cmd[p].key] /\ held[p] = cmd[p].log
    BY <1>2 DEF ProcInv, Holding
  <2>2. cmd[p] \in Commands /\ cache[p] # NoCache /\ p \notin Readers
    BY <1>2, <2>1, CommandType, NullsAssumption, ProcsAssumption
    DEF ProcInv, Working, Writers
  <2>3. cache[p].log = cmd[p].log /\ cache[p].key = cmd[p].key BY <2>1
  <2>4. n[p] = 0 BY DEF ProcInv, Fresh
  <2>5. Coherent(p, cache[p].log, cache[p].key)' BY <1>1, <1>2, <2>3
  <2> QED BY <1>1, <1>2, <2>1, <2>2, <2>3, <2>4, <2>5
          DEF ProcInv, Holding, Working, Fresh, Loading, Loaded
<1>3. CASE p \notin Batches
  BY <1>1, <1>3, AtDone DEF ProcInv, Holding
<1> QED BY <1>2, <1>3

LEMMA SelfApply ==
  ASSUME TypeOK, NEW p \in Procs, ProcInv(p), Apply(p) PROVE ProcInv(p)'
<1> DEFINE c  == cmd[p]
           rs == files[c.log].recs
<1>1. /\ pc[p] = "apply" /\ p \in Writers /\ c \in Commands
      /\ Coherent(p, c.log, c.key)
  BY DEF Apply, ProcInv, Working, Loaded
<1>2. c.log \in Logs /\ c.entry \in Entry BY <1>1, CommandType
<1>3. rs \in Seq(Record) /\ Len(rs) \in Nat BY <1>2 DEF TypeOK, File
<1>4. CASE CanApply(state[p], c.entry)
  <2>1. /\ pc' = [pc EXCEPT ![p] = "append"]
        /\ state' = [state EXCEPT ![p] = Applied(state[p], c.entry)]
        /\ UNCHANGED <<files, cmd, held, cache, buf, n, last_hash, outcome>>
    BY <1>4 DEF Apply, GoTo, shared
  <2>2. pc'[p] = "append" /\ state'[p] = Applied(state[p], c.entry) BY <2>1 DEF TypeOK
  <2> DEFINE es == Entries(rs)
             et == Append(es, c.entry)
  <2>3. Computes(state[p], es, Len(rs)) BY <1>1 DEF Coherent
  <2>4. es \in Seq(Entry) /\ Len(es) = Len(rs) BY <1>3, EntriesOfRecords
  <2>5. /\ \A i \in 1..Len(rs) : es[i] = et[i]
        /\ et[Len(rs)+1] = c.entry
    BY <1>2, <1>3, <2>4
  <2>6. Computes(state[p], et, Len(rs)) BY <1>3, <2>3, <2>5, ComputesPrefix
  <2>7. Computes(state'[p], et, Len(rs)+1)
    BY <1>2, <1>3, <2>2, <2>5, <2>6, ApplyComputes DEF TypeOK
  <2>8. Follows(es, Len(rs), c.entry) BY <1>2, <1>3, <1>4, <2>3, ApplyIffFollows
  <2>9. Ahead(p, c.log, c.key, c.entry)'
    BY <1>1, <2>1, <2>7, <2>8 DEF Coherent, Ahead
  <2> QED BY <1>1, <2>1, <2>2, <2>9 DEF ProcInv, Holding, Working, Fresh, Loading, Loaded
<1>5. CASE ~CanApply(state[p], c.entry)
  <2>1. Finish(p, "invalid") /\ UNCHANGED <<files, cmd, last_hash, state>>
    BY <1>5 DEF Apply, Finish, shared
  <2>2. Coherent(p, c.log, c.key)' BY <1>1, <2>1 DEF Coherent
  <2> QED BY <1>1, <2>1, <2>2, SelfFinish
<1> QED BY <1>4, <1>5

\* The file catches up with the state.
LEMMA SelfAppendEntry ==
  ASSUME TypeOK, NEW p \in Procs, ProcInv(p), AppendEntry(p) PROVE ProcInv(p)'
<1> DEFINE c  == cmd[p]
           rs == files[c.log].recs
           r  == NewRecord(p)
           rt == Append(rs, r)
<1>1. /\ pc[p] = "append" /\ c \in Commands /\ Ahead(p, c.log, c.key, c.entry)
  BY DEF AppendEntry, ProcInv, Working, Loaded
<1>2. c.log \in Logs /\ r \in Record BY <1>1, CommandType, NewRecordType
<1>3. rs \in Seq(Record) /\ Len(rs) \in Nat BY <1>2 DEF TypeOK, File
<1>4. r.key = c.key /\ r.entry = c.entry BY DEF NewRecord
<1>5. ~files[c.log].torn /\ AllUnder(rs, c.key)
      /\ Computes(state[p], Append(Entries(rs), c.entry), Len(rs) + 1)
  BY <1>1 DEF Ahead
<1>6. files'[c.log] = [recs |-> rt, torn |-> FALSE]
  BY <1>2, <1>5 DEF AppendEntry, Written, TypeOK
<1>7. last_hash'[p] = Hash(r) /\ state' = state /\ cmd' = cmd
  BY DEF AppendEntry, Finish, TypeOK
<1>8. /\ Len(rt) = Len(rs) + 1 /\ rt[Len(rs)+1] = r
      /\ \A i \in 1..Len(rs) : rt[i] = rs[i]
  BY <1>2, <1>3, Extended
<1>9. Computes(state[p], Entries(rt), Len(rs) + 1)
  <2>1. \A i \in 1..(Len(rs) + 1) : Append(Entries(rs), c.entry)[i] = Entries(rt)[i]
    BY <1>2, <1>3, <1>4, ExtendedEntries
  <2>2. Len(rs) + 1 \in Nat BY <1>3
  <2> QED BY <1>5, <2>1, <2>2, ComputesPrefix
<1> HIDE DEF rt
<1>10. HashAt(rt, Len(rt)) = Hash(r) BY <1>3, <1>8 DEF HashAt
<1>11. AllUnder(rt, c.key)
  <2>1. ASSUME NEW i \in 1..Len(rt) PROVE rt[i].key = c.key
    <3>1. i \in 1..Len(rs) \/ i = Len(rs) + 1 BY <1>3, <1>8
    <3> QED BY <1>4, <1>5, <1>8, <3>1 DEF AllUnder
  <2> QED BY <2>1 DEF AllUnder
<1>12. Coherent(p, c.log, c.key)'
  BY <1>6, <1>7, <1>8, <1>9, <1>10, <1>11 DEF Coherent
<1>13. Finish(p, "ok") BY DEF AppendEntry
<1> QED BY <1>1, <1>7, <1>12, <1>13, SelfFinish

LEMMA SelfAppendFails ==
  ASSUME TypeOK, CanFail \cap Batches = {}, NEW p \in Procs, ProcInv(p), AppendFails(p)
  PROVE  ProcInv(p)'
<1>1. pc[p] = "append" /\ p \notin Batches /\ Finish(p, "invalid") BY DEF AppendFails
<1> QED BY <1>1, SelfFinish

LEMMA SelfStep ==
  ASSUME TypeOK, CanFail \cap Batches = {}, NEW p \in Procs, ProcInv(p), Step(p) \/ Crash(p)
  PROVE  ProcInv(p)'
BY SelfBadLine, SelfNextLine, SelfExit, SelfAsk, SelfLock, SelfGiveUp, SelfRead, SelfScan,
   SelfEndScan, SelfReplay, SelfEndReplay, SelfApply, SelfAppendEntry, SelfAppendFails
DEF Step, Work, EndOfFile, IoError, Answer, Crash

------------------------------------------------------------------------------
(* The shared state *)

LEMMA KeepsExclusive ==
  ASSUME TypeOK, Exclusive, NEW p \in Procs, Step(p) \/ Crash(p)
  PROVE  Exclusive'
<1>1. \A q \in Procs : q # p => held'[q] = held[q] BY OthersUntouched DEF Untouched
<1>2. CASE held'[p] \in {held[p], NoLog}
  BY <1>1, <1>2 DEF Exclusive
<1>3. CASE Lock(p)
  <2>1. held'[p] = cmd[p].log BY <1>3 DEF Lock, TypeOK
  <2>2. \A q \in Procs \ {p} : held[q] = cmd[p].log => p \in Readers /\ q \in Readers
    BY <1>3 DEF Lock, Free
  <2> QED BY <1>1, <2>1, <2>2 DEF Exclusive
<1> QED BY <1>2, <1>3, HeldChange

\* The only way a log's records change: the next record is put behind them.
LEMMA RecordsChange ==
  ASSUME TypeOK, NEW p \in Procs, ProcInv(p), Step(p) \/ Crash(p), NEW l \in Logs
  PROVE  \/ files'[l].recs = files[l].recs
         \/ /\ pc[p] = "append" /\ l = cmd[p].log
            /\ files'[l].recs = Append(files[l].recs, NewRecord(p))
<1>1. CASE files' = files BY <1>1
<1>2. CASE pc[p] = "append" /\ files' = [files EXCEPT ![cmd[p].log] = Torn(@)]
  BY <1>2 DEF Torn, TypeOK
<1>3. CASE pc[p] = "append" /\ files' = [files EXCEPT ![cmd[p].log] = Written(@, NewRecord(p))]
  <2>1. CASE l # cmd[p].log BY <1>3, <2>1 DEF TypeOK
  <2>2. CASE l = cmd[p].log
    <3>1. files'[l] = Written(files[l], NewRecord(p)) BY <1>3, <2>2 DEF TypeOK
    <3>2. ~files[l].torn BY <1>3, <2>2 DEF ProcInv, Loaded, Ahead
    <3> QED BY <1>3, <2>2, <3>1, <3>2 DEF Written
  <2> QED BY <2>1, <2>2
<1> QED BY <1>1, <1>2, <1>3, FilesChange DEF FilesStep

\* A fragment stays.
LEMMA TornStays ==
  ASSUME TypeOK, NEW p \in Procs, Step(p) \/ Crash(p), NEW l \in Logs, files[l].torn
  PROVE  files'[l].torn
<1>1. CASE files' = files BY <1>1
<1>2. CASE files' = [files EXCEPT ![cmd[p].log] = Torn(@)] BY <1>2 DEF Torn, TypeOK
<1>3. CASE files' = [files EXCEPT ![cmd[p].log] = Written(@, NewRecord(p))]
  BY <1>3 DEF Written, TypeOK
<1> QED BY <1>1, <1>2, <1>3, FilesChange DEF FilesStep

LEMMA KeepsLogReplays ==
  ASSUME TypeOK, LogReplays, NEW p \in Procs, ProcInv(p), Step(p) \/ Crash(p)
  PROVE  LogReplays'
<1> SUFFICES ASSUME NEW l \in Logs
             PROVE  /\ Chained(files'[l].recs) /\ OneKey(files'[l].recs)
                    /\ ValidLog(Entries(files'[l].recs))
  BY DEF LogReplays
<1> DEFINE rs == files[l].recs
           r  == NewRecord(p)
           rt == Append(rs, r)
<1>1. CASE files'[l].recs = rs BY <1>1 DEF LogReplays
<1>2. CASE pc[p] = "append" /\ l = cmd[p].log /\ files'[l].recs = rt
  <2>1. cmd[p] \in Commands /\ Ahead(p, l, cmd[p].key, cmd[p].entry)
    BY <1>2 DEF ProcInv, Working, Loaded
  <2>2. r \in Record /\ cmd[p].entry \in Entry BY <2>1, NewRecordType, CommandType
  <2>3. rs \in Seq(Record) /\ Len(rs) \in Nat BY DEF TypeOK, File
  <2>4. r.key = cmd[p].key /\ r.entry = cmd[p].entry /\ r.prev = last_hash[p]
    BY DEF NewRecord
  <2>5. /\ rt \in Seq(Record) /\ Len(rt) = Len(rs) + 1 /\ rt[Len(rs)+1] = r
        /\ \A i \in 1..Len(rs) : rt[i] = rs[i]
    BY <2>2, <2>3, Extended
  <2>6. Chained(rs) /\ ValidLog(Entries(rs)) BY DEF LogReplays
  <2>7. AllUnder(rs, cmd[p].key) /\ last_hash[p] = HashAt(rs, Len(rs))
        /\ Follows(Entries(rs), Len(rs), cmd[p].entry)
    BY <2>1 DEF Ahead
  <2>8. \A i \in 1..(Len(rs)+1) : Entries(rt)[i] = Append(Entries(rs), r.entry)[i]
    BY <2>2, <2>3, ExtendedEntries
  <2>9. Entries(rs) \in Seq(Entry) /\ Len(Entries(rs)) = Len(rs)
    BY <2>3, EntriesOfRecords
  <2>10. Len(Entries(rt)) = Len(rs) + 1
    BY <2>5, EntriesOfRecords
  <2>11. \A i \in 1..Len(rs) : Entries(rt)[i] = Entries(rs)[i]
    BY <2>2, <2>3, <2>4, <2>8, <2>9
  <2>12. Entries(rt)[Len(rs)+1] = cmd[p].entry
    BY <2>2, <2>3, <2>4, <2>8, <2>9
  <2> HIDE DEF rt, r
  <2>13. Chained(rt)
    <3>1. ASSUME NEW i \in 1..Len(rt) PROVE rt[i].prev = HashAt(rt, i-1)
      <4>1. CASE i \in 1..Len(rs)
        <5>1. rs[i].prev = HashAt(rs, i-1) BY <2>6, <4>1 DEF Chained
        <5>2. i-1 \in 1..Len(rs) \/ i-1 = 0 BY <2>3, <4>1
        <5>3. HashAt(rt, i-1) = HashAt(rs, i-1) BY <2>5, <5>2 DEF HashAt
        <5> QED BY <2>5, <4>1, <5>1, <5>3
      <4>2. CASE i = Len(rs) + 1
        <5>1. HashAt(rt, Len(rs)) = HashAt(rs, Len(rs)) BY <2>3, <2>5 DEF HashAt
        <5> QED BY <2>3, <2>4, <2>5, <2>7, <4>2, <5>1
      <4>3. i \in 1..Len(rs) \/ i = Len(rs) + 1 BY <2>3, <2>5
      <4> QED BY <4>1, <4>2, <4>3
    <3> QED BY <3>1 DEF Chained
  <2>14. OneKey(rt)
    <3>1. ASSUME NEW i \in 1..Len(rt) PROVE rt[i].key = cmd[p].key
      <4>1. i \in 1..Len(rs) \/ i = Len(rs) + 1 BY <2>3, <2>5
      <4> QED BY <2>4, <2>5, <2>7, <4>1 DEF AllUnder
    <3>2. Len(rt) > 0 BY <2>3, <2>5
    <3>3. Len(rt) \in Nat BY <2>3, <2>5
    <3>4. 1 \in 1..Len(rt) BY <3>2, <3>3
    <3>5. rt[1].key = cmd[p].key BY <3>1, <3>4
    <3> QED BY <3>1, <3>5 DEF OneKey
  <2>15. ValidLog(Entries(rt))
    <3>1. ASSUME NEW i \in 1..Len(Entries(rt))
          PROVE  Follows(Entries(rt), i-1, Entries(rt)[i])
      <4>1. CASE i \in 1..Len(rs)
        <5>1. Follows(Entries(rs), i-1, Entries(rs)[i])
          BY <2>6, <2>9, <4>1 DEF ValidLog
        <5>2. i-1 \in Nat /\ \A j \in 1..(i-1) : Entries(rs)[j] = Entries(rt)[j]
          BY <2>3, <2>11, <4>1
        <5>3. Entries(rt)[i] = Entries(rs)[i] BY <2>11, <4>1
        <5> QED BY <5>1, <5>2, <5>3, FollowsPrefix
      <4>2. CASE i = Len(rs) + 1
        <5>1. Follows(Entries(rt), Len(rs), cmd[p].entry)
          BY <2>3, <2>7, <2>11, FollowsPrefix
        <5>2. i - 1 = Len(rs) BY <2>3, <4>2
        <5> QED BY <2>12, <4>2, <5>1, <5>2
      <4>3. i \in 1..Len(rs) \/ i = Len(rs) + 1 BY <2>3, <2>10
      <4> QED BY <4>1, <4>2, <4>3
    <3> QED BY <3>1 DEF ValidLog
  <2> QED BY <1>2, <2>13, <2>14, <2>15
<1> QED BY <1>1, <1>2, RecordsChange

LEMMA ContentsOfRecords ==
  ASSUME NEW rs \in Seq(Record)
  PROVE  /\ Contents(rs) \in Seq(Content)
         /\ Len(Contents(rs)) = Len(rs)
         /\ \A i \in 1..Len(rs) :
              Contents(rs)[i] = [key |-> rs[i].key, entry |-> rs[i].entry]
<1>1. Len(rs) \in Nat OBVIOUS
<1>2. \A i \in 1..Len(rs) : rs[i] \in Record OBVIOUS
<1>3. \A i \in 1..Len(rs) : [key |-> rs[i].key, entry |-> rs[i].entry] \in Content
  BY <1>2 DEF Record, Content
<1>4. Contents(rs) = [i \in 1..Len(rs) |-> [key |-> rs[i].key, entry |-> rs[i].entry]]
  BY DEF Contents
<1> QED BY <1>1, <1>3, <1>4

\* An acknowledged content is in the file when it is acknowledged.
LEMMA AckedChange ==
  ASSUME TypeOK, NEW p \in Procs, ProcInv(p), Step(p) \/ Crash(p), NEW l \in Logs
  PROVE  \/ acked'[l] = acked[l]
         \/ /\ acked'[l] = acked[l] \cup {[key |-> cmd[p].key, entry |-> cmd[p].entry]}
            /\ pc[p] = "append" /\ l = cmd[p].log
            /\ files'[l].recs = Append(files[l].recs, NewRecord(p))
<1>1. CASE acked' = acked BY <1>1
<1>2. CASE AppendEntry(p)
  <2>1. CASE l # cmd[p].log BY <1>2, <2>1 DEF AppendEntry, TypeOK
  <2>2. CASE l = cmd[p].log
    <3>1. /\ files'[l] = Written(files[l], NewRecord(p)) /\ pc[p] = "append"
          /\ acked'[l] = acked[l] \cup {[key |-> cmd[p].key, entry |-> cmd[p].entry]}
      BY <1>2, <2>2 DEF AppendEntry, TypeOK
    <3>2. ~files[l].torn BY <3>1, <2>2 DEF ProcInv, Loaded, Ahead
    <3> QED BY <2>2, <3>1, <3>2 DEF Written
  <2> QED BY <2>1, <2>2
<1>3. acked' = acked \/ AppendEntry(p)
  BY DEF Step, Work, Crash, BadLine, NextLine, EndOfFile, Ask, Lock, IoError, Read, Scan,
         EndScan, Replay, EndReplay, Apply, AppendFails, Answer, GiveUp, shared
<1> QED BY <1>1, <1>2, <1>3

LEMMA KeepsDurable ==
  ASSUME TypeOK, Durable, NEW p \in Procs, ProcInv(p), Step(p) \/ Crash(p)
  PROVE  Durable'
<1> SUFFICES ASSUME NEW l \in Logs, NEW c \in acked'[l]
             PROVE  \E i \in 1..Len(files'[l].recs) : c = Contents(files'[l].recs)[i]
  BY DEF Durable
<1> DEFINE rs == files[l].recs
           r  == NewRecord(p)
           rt == Append(rs, r)
<1>1. rs \in Seq(Record) /\ Len(rs) \in Nat BY DEF TypeOK, File
<1>2. ASSUME c \in acked[l], files'[l].recs = rs
      PROVE  \E i \in 1..Len(files'[l].recs) : c = Contents(files'[l].recs)[i]
  BY <1>2 DEF Durable
<1>3. ASSUME pc[p] = "append", l = cmd[p].log, files'[l].recs = rt
      PROVE  /\ Len(rt) = Len(rs) + 1
             /\ \A i \in 1..Len(rs) : Contents(rt)[i] = Contents(rs)[i]
             /\ Contents(rt)[Len(rs)+1] = [key |-> cmd[p].key, entry |-> cmd[p].entry]
  <2>1. cmd[p] \in Commands BY <1>3 DEF ProcInv, Working
  <2>2. r \in Record BY <2>1, NewRecordType
  <2>3. /\ rt \in Seq(Record) /\ Len(rt) = Len(rs) + 1 /\ rt[Len(rs)+1] = r
        /\ \A i \in 1..Len(rs) : rt[i] = rs[i]
    BY <1>1, <2>2, Extended
  <2>4. r.key = cmd[p].key /\ r.entry = cmd[p].entry BY DEF NewRecord
  <2>5. \A i \in 1..Len(rs) : Contents(rs)[i] = [key |-> rs[i].key, entry |-> rs[i].entry]
    BY <1>1, ContentsOfRecords
  <2>6. \A i \in 1..Len(rt) : Contents(rt)[i] = [key |-> rt[i].key, entry |-> rt[i].entry]
    BY <2>3, ContentsOfRecords
  <2>7. ASSUME NEW i \in 1..Len(rs) PROVE Contents(rt)[i] = Contents(rs)[i]
    <3>1. i \in 1..Len(rt) /\ rt[i] = rs[i] BY <1>1, <2>3
    <3> QED BY <2>5, <2>6, <3>1
  <2>8. Contents(rt)[Len(rs)+1] = [key |-> cmd[p].key, entry |-> cmd[p].entry]
    <3>1. Len(rs) + 1 \in 1..Len(rt) BY <1>1, <2>3
    <3> QED BY <2>3, <2>4, <2>6, <3>1
  <2> QED BY <2>3, <2>7, <2>8
<1>4. CASE acked'[l] = acked[l] /\ files'[l].recs = rs BY <1>2, <1>4
<1>5. CASE pc[p] = "append" /\ l = cmd[p].log /\ files'[l].recs = rt
  <2>1. /\ Len(rt) = Len(rs) + 1
        /\ \A i \in 1..Len(rs) : Contents(rt)[i] = Contents(rs)[i]
        /\ Contents(rt)[Len(rs)+1] = [key |-> cmd[p].key, entry |-> cmd[p].entry]
    BY <1>3, <1>5
  <2>2. CASE c \in acked[l]
    <3>1. PICK i \in 1..Len(rs) : c = Contents(rs)[i] BY <2>2 DEF Durable
    <3>2. i \in 1..Len(rt) BY <1>1, <2>1
    <3> QED BY <1>5, <2>1, <3>1, <3>2
  <2>3. CASE c = [key |-> cmd[p].key, entry |-> cmd[p].entry]
    <3>1. Len(rs) + 1 \in 1..Len(rt) BY <1>1, <2>1
    <3> QED BY <1>5, <2>1, <2>3, <3>1
  <2>4. c \in acked[l] \/ c = [key |-> cmd[p].key, entry |-> cmd[p].entry]
    BY AckedChange
  <2> QED BY <2>2, <2>3, <2>4
<1> QED BY <1>4, <1>5, AckedChange, RecordsChange

------------------------------------------------------------------------------
(* Alarms *)

\* What justifies an alarm stays.
LEMMA AlarmStays ==
  ASSUME TypeOK, NEW p \in Procs, ProcInv(p), Step(p) \/ Crash(p),
         NEW q \in Procs, Alarm(q), outcome'[q] = outcome[q], cmd'[q] = cmd[q]
  PROVE  Alarm(q)'
<1> SUFFICES ASSUME outcome[q] = "integrity" PROVE Alarm(q)' BY DEF Alarm
<1> DEFINE l == cmd[q].log
<1>1. cmd[q] \in Commands \cup Queries /\ l \in Logs BY CommandType DEF Alarm
<1>2. CASE files[l].torn BY <1>1, <1>2, TornStays DEF Alarm
<1>3. CASE \E i \in 1..Len(files[l].recs) : files[l].recs[i].key # cmd[q].key
  <2>1. PICK i \in 1..Len(files[l].recs) : files[l].recs[i].key # cmd[q].key BY <1>3
  <2>2. CASE files'[l].recs = files[l].recs BY <1>1, <2>1, <2>2 DEF Alarm
  <2>3. CASE pc[p] = "append" /\ files'[l].recs = Append(files[l].recs, NewRecord(p))
    <3>1. cmd[p] \in Commands BY <2>3 DEF ProcInv, Working
    <3>2. NewRecord(p) \in Record /\ files[l].recs \in Seq(Record)
      BY <1>1, <3>1, NewRecordType DEF TypeOK, File
    <3>3. /\ Len(files'[l].recs) = Len(files[l].recs) + 1
          /\ files'[l].recs[i] = files[l].recs[i]
      BY <2>1, <2>3, <3>2, Extended
    <3>4. i \in 1..Len(files'[l].recs) BY <2>1, <3>2, <3>3
    <3> QED BY <1>1, <2>1, <3>3, <3>4 DEF Alarm
  <2> QED BY <1>1, <2>2, <2>3, RecordsChange
<1> QED BY <1>2, <1>3 DEF Alarm

\* What makes load_log or compute_state fail on a log that replays.
LEMMA ScanAlarm ==
  ASSUME TypeOK, LogReplays, NEW p \in Procs, ProcInv(p), pc[p] = "scan",
         n[p] < Len(buf[p].recs), ~Authentic(p, buf[p].recs[n[p] + 1])
  PROVE  \E i \in 1..Len(files[cmd[p].log].recs) :
           files[cmd[p].log].recs[i].key # cmd[p].key
<1> DEFINE rs == files[cmd[p].log].recs
<1>1. /\ buf[p] = files[cmd[p].log] /\ last_hash[p] = HashAt(rs, n[p]) /\ n[p] \in Nat
  BY DEF ProcInv, Loading
<1>2. cmd[p].log \in Logs BY CommandType DEF ProcInv, Working
<1>3. rs \in Seq(Record) /\ Len(rs) \in Nat BY <1>2 DEF TypeOK, File
<1>4. n[p] + 1 \in 1..Len(rs) BY <1>1, <1>3
<1>5. Chained(rs) BY <1>2 DEF LogReplays
<1>6. rs[n[p]+1].prev = HashAt(rs, n[p]) BY <1>1, <1>4, <1>5 DEF Chained
<1>7. rs[n[p]+1].key # cmd[p].key BY <1>1, <1>6 DEF Authentic
<1> QED BY <1>4, <1>7

LEMMA NeverRefusesReplay ==
  ASSUME TypeOK, LogReplays, NEW p \in Procs, ProcInv(p), pc[p] = "replay",
         n[p] < Len(buf[p].recs)
  PROVE  CanApply(state[p], buf[p].recs[n[p] + 1].entry)
<1> DEFINE rs == files[cmd[p].log].recs
           e  == rs[n[p]+1].entry
<1>1. /\ buf[p] = files[cmd[p].log] /\ n[p] \in Nat /\ Computes(state[p], Entries(rs), n[p])
  BY DEF ProcInv, Loading
<1>2. cmd[p].log \in Logs BY CommandType DEF ProcInv, Working
<1>3. rs \in Seq(Record) /\ Len(rs) \in Nat BY <1>2 DEF TypeOK, File
<1>4. n[p] + 1 \in 1..Len(rs) BY <1>1, <1>3
<1>5. ValidLog(Entries(rs)) BY <1>2 DEF LogReplays
<1>6. Entries(rs)[n[p]+1] = e /\ e \in Entry /\ Len(Entries(rs)) = Len(rs)
  BY <1>3, <1>4, EntriesOfRecords DEF Record
<1>7. Follows(Entries(rs), n[p], e) BY <1>1, <1>4, <1>5, <1>6 DEF ValidLog
<1> QED BY <1>1, <1>6, <1>7, ApplyIffFollows

LEMMA SelfAlarm ==
  ASSUME TypeOK, LogReplays, NEW p \in Procs, ProcInv(p), Alarm(p), Step(p) \/ Crash(p)
  PROVE  Alarm(p)'
<1>1. ASSUME outcome'[p] # "integrity" PROVE Alarm(p)' BY <1>1 DEF Alarm
<1>2. ASSUME outcome'[p] = outcome[p], cmd'[p] = cmd[p] PROVE Alarm(p)'
  BY <1>2, AlarmStays
<1>3. ASSUME GiveUp(p, "integrity"), pc[p] \in {"scan", "replay"},
             files[cmd[p].log].torn \/
             \E i \in 1..Len(files[cmd[p].log].recs) :
               files[cmd[p].log].recs[i].key # cmd[p].key
      PROVE  Alarm(p)'
  <2>1. cmd' = cmd /\ files' = files BY <1>3 DEF GiveUp, shared
  <2>2. cmd[p] \in Commands \cup Queries BY <1>3 DEF ProcInv, Working
  <2> QED BY <1>3, <2>1, <2>2 DEF Alarm
<1>4. CASE Scan(p)
  <2>1. CASE Authentic(p, buf[p].recs[n[p]+1])
    BY <1>2, <1>4, <2>1 DEF Scan
  <2>2. CASE ~Authentic(p, buf[p].recs[n[p]+1])
    BY <1>3, <1>4, <2>2, ScanAlarm DEF Scan
  <2> QED BY <2>1, <2>2
<1>5. CASE EndScan(p)
  <2>1. CASE buf[p].torn
    <3>1. buf[p] = files[cmd[p].log] BY <1>5 DEF EndScan, ProcInv, Loading
    <3> QED BY <1>3, <1>5, <2>1, <3>1 DEF EndScan
  <2>2. CASE ~buf[p].torn BY <1>2, <1>5, <2>2 DEF EndScan
  <2> QED BY <2>1, <2>2
<1>6. CASE Replay(p) BY <1>2, <1>6, NeverRefusesReplay DEF Replay
<1>7. CASE Ask(p)
  <2>1. outcome'[p] = "none" BY <1>7 DEF Ask, ProcInv, Fresh
  <2> QED BY <1>1, <2>1
<1>8. CASE Lock(p) \/ Read(p) \/ EndReplay(p)
  BY <1>2, <1>8 DEF Lock, Read, EndReplay
<1>9. CASE Apply(p)
  <2>1. CASE CanApply(state[p], cmd[p].entry) BY <1>2, <1>9, <2>1 DEF Apply
  <2>2. CASE ~CanApply(state[p], cmd[p].entry)
    BY <1>1, <1>9, <2>2 DEF Apply, Finish, Report, TypeOK
  <2> QED BY <2>1, <2>2
<1>10. CASE BadLine(p) \/ NextLine(p) \/ EndOfFile(p) \/ IoError(p) \/ AppendEntry(p)
            \/ AppendFails(p) \/ Answer(p) \/ Crash(p)
  BY <1>1, <1>10 DEF BadLine, NextLine, EndOfFile, IoError, AppendEntry, AppendFails, Answer,
                     Crash, GiveUp, Finish, Exit, Report, TypeOK
<1> QED BY <1>4, <1>5, <1>6, <1>7, <1>8, <1>9, <1>10 DEF Step, Work

------------------------------------------------------------------------------
(* The inductive invariant, as long as no batch survives a failed append *)

LEMMA InitIInv == Init => IInv
<1> SUFFICES ASSUME Init PROVE IInv OBVIOUS
<1>1. TypeOK BY InitTypeInv DEF TypeInv
<1>2. \A l \in Logs : files[l].recs = << >> /\ acked[l] = {} BY DEF Init, NoFile
<1>3. \A p \in Procs : ProcInv(p)
  BY DEF Init, ProcInv, Holding, Working, Fresh, Loading, Loaded
<1>4. Exclusive BY DEF Init, Exclusive
<1>5. LogReplays
  <2>1. Chained(<< >>) /\ OneKey(<< >>) /\ Len(Entries(<< >>)) = 0
    BY DEF Chained, OneKey, Entries
  <2> QED BY <1>2, <2>1 DEF LogReplays, ValidLog
<1>6. Durable BY <1>2 DEF Durable
<1>7. \A p \in Procs : Alarm(p) BY DEF Init, Alarm
<1> QED BY <1>1, <1>3, <1>4, <1>5, <1>6, <1>7 DEF IInv

LEMMA NextIInv ==
  ASSUME CanFail \cap Batches = {} PROVE IInv /\ [Next]_vars => IInv'
<1> SUFFICES ASSUME IInv, [Next]_vars PROVE IInv' OBVIOUS
<1>1. CASE UNCHANGED vars
  BY <1>1 DEF vars, shared, IInv, TypeOK, ProcInv, Holding, Working, Fresh, Loading, Loaded,
              Coherent, Ahead, Exclusive, LogReplays, Durable, Alarm
<1>2. ASSUME NEW p \in Procs, Step(p) \/ Crash(p) PROVE IInv'
  <2>1. TypeOK'
    <3>1. TypeInv BY DEF IInv, TypeInv, ProcInv
    <3>2. Next BY <1>2 DEF Next
    <3> QED BY <3>1, <3>2, NextTypeInv DEF TypeInv
  <2>2. ASSUME NEW q \in Procs PROVE ProcInv(q)'
    <3>1. CASE q = p BY <1>2, <3>1, SelfStep DEF IInv
    <3>2. CASE q # p
      <4>1. Untouched(q) BY <1>2, <3>2, OthersUntouched DEF IInv
      <4>2. FilesStep(p) BY <1>2, FilesChange
      <4>3. held[q] # NoLog => files'[held[q]] = files[held[q]]
        BY <3>2, <4>2, OtherHolds DEF IInv
      <4> QED BY <4>1, <4>3, Frame DEF IInv
    <3> QED BY <3>1, <3>2
  <2>3. Exclusive' BY <1>2, KeepsExclusive DEF IInv
  <2>4. LogReplays' BY <1>2, KeepsLogReplays DEF IInv
  <2>5. Durable' BY <1>2, KeepsDurable DEF IInv
  <2>6. ASSUME NEW q \in Procs PROVE Alarm(q)'
    <3>1. CASE q = p BY <1>2, <3>1, SelfAlarm DEF IInv
    <3>2. CASE q # p
      <4>1. Untouched(q) BY <1>2, <3>2, OthersUntouched DEF IInv
      <4> QED BY <1>2, <4>1, AlarmStays DEF IInv, Untouched
    <3> QED BY <3>1, <3>2
  <2> QED BY <2>1, <2>2, <2>3, <2>4, <2>5, <2>6 DEF IInv
<1> QED BY <1>1, <1>2 DEF Next

LEMMA Invariance == ASSUME CanFail \cap Batches = {} PROVE Spec => []IInv
<1>1. IInv /\ [Next]_vars => IInv' BY NextIInv
<1> QED BY <1>1, InitIInv, PTL DEF Spec

------------------------------------------------------------------------------
(* The properties *)

\* What every process has read, replayed and validated is the log as it is now.
LEMMA SnapshotStep == (\A p \in Procs : ProcInv(p)) => SnapshotCurrent
<1> SUFFICES ASSUME NEW p \in Procs, ProcInv(p)
             PROVE  LET f   == files[cmd[p].log]
                        len == Len(f.recs) IN
                    /\ pc[p] \in {"scan", "replay", "answer"} => buf[p] = f
                    /\ pc[p] \in {"apply", "append"} =>
                         ~f.torn /\ last_hash[p] = HashAt(f.recs, len)
                    /\ pc[p] = "apply" => Computes(state[p], Entries(f.recs), len)
                    /\ pc[p] = "append" => Follows(Entries(f.recs), len, cmd[p].entry)
  BY DEF SnapshotCurrent
<1>1. Loading(p) /\ Loaded(p) BY DEF ProcInv
<1>2. pc[p] \in {"scan", "replay", "answer"} => buf[p] = files[cmd[p].log]
  BY <1>1 DEF Loading
<1>3. CASE pc[p] = "apply" BY <1>1, <1>3 DEF Loaded, Coherent
<1>4. CASE pc[p] = "append" BY <1>1, <1>4 DEF Loaded, Ahead
<1> QED BY <1>2, <1>3, <1>4

\* A log is not changed between the moment it is read and the answer or the
\* append that depends on it: at the append the entry still may follow what is
\* in the file, and is linked to its last record. A batch whose append fails
\* carries on with a state ahead of the file, hence the assumption.
THEOREM SnapshotsAreCurrent ==
  ASSUME CanFail \cap Batches = {} PROVE Spec => []SnapshotCurrent
<1>1. IInv => SnapshotCurrent BY SnapshotStep DEF IInv
<1> QED BY <1>1, Invariance, PTL

\* The state and hash a batch carries from line to line are those of the file.
THEOREM CachesAreCoherent ==
  ASSUME CanFail \cap Batches = {} PROVE Spec => []CacheCoherent
<1>1. ASSUME IInv, NEW p \in Batches, pc[p] = "next", cache[p] # NoCache
      PROVE  /\ ~files[cache[p].log].torn
             /\ held[p] = cache[p].log
             /\ last_hash[p] = HashAt(files[cache[p].log].recs, Len(files[cache[p].log].recs))
             /\ Computes(state[p], Entries(files[cache[p].log].recs),
                         Len(files[cache[p].log].recs))
  <2>1. ProcInv(p) BY <1>1 DEF IInv, Procs, Writers
  <2> QED BY <1>1, <2>1 DEF ProcInv, Holding, Loaded, Coherent
<1>2. IInv => CacheCoherent BY <1>1 DEF CacheCoherent
<1> QED BY <1>2, Invariance, PTL

\* Every log is one unbroken chain under one token that replays to the end.
THEOREM LogsReplay ==
  ASSUME CanFail \cap Batches = {} PROVE Spec => []LogReplays
<1>1. IInv => LogReplays BY DEF IInv
<1> QED BY <1>1, Invariance, PTL

\* An entry reported as written stays readable.
THEOREM AcknowledgedIsDurable ==
  ASSUME CanFail \cap Batches = {} PROVE Spec => []Durable
<1>1. IInv => Durable BY DEF IInv
<1> QED BY <1>1, Invariance, PTL

\* `integrity violation` is reported only of a log that is damaged, or that is
\* under another token.
THEOREM AlarmsAreTrue ==
  ASSUME CanFail \cap Batches = {} PROVE Spec => []IntegrityMeansBroken
<1>1. IInv => IntegrityMeansBroken BY DEF IInv, Alarm, IntegrityMeansBroken
<1> QED BY <1>1, Invariance, PTL

\* A process that decides on an entry decides as the file says.
LEMMA RefusalStep ==
  ASSUME IInv, [Next]_vars, NEW p \in Writers, pc[p] = "apply", outcome'[p] = "invalid"
  PROVE  ~Follows(Entries(files[cmd[p].log].recs), Len(files[cmd[p].log].recs), cmd[p].entry)
<1> DEFINE rs == files[cmd[p].log].recs
<1>1. p \in Procs /\ ProcInv(p) /\ TypeOK BY DEF IInv, Procs
<1>2. outcome[p] = "none" BY <1>1 DEF ProcInv, Fresh
<1>3. PICK q \in Procs : Step(q) \/ Crash(q) BY <1>2 DEF Next, vars
<1>4. q = p BY <1>1, <1>2, <1>3, OthersUntouched DEF Untouched
<1>5. ~Crash(p) BY <1>1 DEF Crash, Exit, Report, TypeOK
<1>6. Apply(p)
  BY <1>3, <1>4, <1>5 DEF Step, Work, BadLine, NextLine, EndOfFile, Ask, Lock, IoError, Read, Scan,
                          EndScan, Replay, EndReplay, AppendEntry, AppendFails, Answer
<1>7. ~CanApply(state[p], cmd[p].entry)
  <2> SUFFICES ASSUME CanApply(state[p], cmd[p].entry) PROVE FALSE OBVIOUS
  <2>1. UNCHANGED outcome BY <1>6 DEF Apply
  <2> QED BY <1>2, <2>1
<1>8. cmd[p] \in Commands /\ Coherent(p, cmd[p].log, cmd[p].key)
  BY <1>1 DEF ProcInv, Working, Loaded
<1>9. cmd[p].entry \in Entry /\ Len(rs) \in Nat
  BY <1>1, <1>8, CommandType DEF TypeOK, File
<1> QED BY <1>7, <1>8, <1>9, ApplyIffFollows DEF Coherent

\* The state machine refuses only what may not follow the log as it is now.
THEOREM RefusalsAreJustified ==
  ASSUME CanFail \cap Batches = {} PROVE Spec => RefusalJustified
<1>1. IInv /\ [Next]_vars =>
        [\A p \in Writers :
           pc[p] = "apply" /\ outcome'[p] = "invalid" =>
             LET rs == files[cmd[p].log].recs IN
             ~Follows(Entries(rs), Len(rs), cmd[p].entry)]_vars
  BY RefusalStep
<1> QED BY <1>1, Invariance, PTL DEF Spec, RefusalJustified

------------------------------------------------------------------------------
(* The processes implement the ledger *)

Mapped == [l \in Logs |-> Contents(files[l].recs)]

LEMMA InitLedger == Init => L!LedgerInit
<1> SUFFICES ASSUME Init PROVE L!LedgerInit OBVIOUS
<1>1. Contents(<< >>) = << >> BY DEF Contents
<1>2. \A l \in Logs : Contents(files[l].recs) = << >> BY <1>1 DEF Init, NoFile
<1> QED BY <1>2 DEF Init, L!LedgerInit

\* Nothing the ledger shows changes in the steps that neither append nor answer.
LEMMA HiddenStep ==
  ASSUME UNCHANGED <<files, acked, answer>> PROVE UNCHANGED L!ledgerVars
BY DEF L!ledgerVars

\* The ledger speaks of the same gallery.
LEMMA SameFollows ==
  ASSUME NEW es, NEW m, NEW e PROVE L!Follows(es, m, e) <=> Follows(es, m, e)
BY DEF L!Follows, L!PlacedAt, L!LastAbout, L!From, L!To, L!Outside,
       Follows, PlacedAt, LastAbout, From, To, Outside

\* A record behind the others is a commit.
LEMMA CommitStep ==
  ASSUME TypeOK, NEW p \in Procs, ProcInv(p), pc[p] = "append",
         files' = [files EXCEPT ![cmd[p].log] = Written(@, NewRecord(p))],
         \/ acked' = acked
         \/ acked' = [acked EXCEPT ![cmd[p].log] =
                         @ \cup {[key |-> cmd[p].key, entry |-> cmd[p].entry]}],
         answer' = answer
  PROVE  L!Commit(cmd[p].log, cmd[p].key, cmd[p].entry)
<1> DEFINE c  == cmd[p]
           rs == files[c.log].recs
           r  == NewRecord(p)
           rt == Append(rs, r)
           x  == [key |-> c.key, entry |-> c.entry]
<1>1. c \in Commands /\ Ahead(p, c.log, c.key, c.entry) BY DEF ProcInv, Working, Loaded
<1>2. c.log \in Logs /\ c.key \in Keys /\ c.entry \in Entry /\ r \in Record
  BY <1>1, CommandType, NewRecordType
<1>3. rs \in Seq(Record) /\ Len(rs) \in Nat BY <1>2 DEF TypeOK, File
<1>4. ~files[c.log].torn /\ AllUnder(rs, c.key) /\ Follows(Entries(rs), Len(rs), c.entry)
  BY <1>1 DEF Ahead
<1>5. files'[c.log].recs = rt BY <1>2, <1>4 DEF Written, TypeOK
<1>6. /\ Contents(rs) \in Seq(Content) /\ Len(Contents(rs)) = Len(rs)
      /\ \A i \in 1..Len(rs) : Contents(rs)[i] = [key |-> rs[i].key, entry |-> rs[i].entry]
  BY <1>3, ContentsOfRecords
<1>7. Mapped[c.log] = Contents(rs) BY <1>2 DEF Mapped
<1>8. L!UnderKey(Contents(rs), c.key)
  <2>1. ASSUME NEW i \in 1..Len(rs) PROVE Contents(rs)[i].key = rs[i].key
    <3>1. Contents(rs)[i] = [key |-> rs[i].key, entry |-> rs[i].entry] BY <1>6
    <3> QED BY <3>1
  <2> QED BY <1>4, <1>6, <2>1 DEF L!UnderKey, AllUnder
<1>9. L!EntriesOf(Contents(rs)) = Entries(rs)
  <2>1. ASSUME NEW i \in 1..Len(rs) PROVE Contents(rs)[i].entry = rs[i].entry
    <3>1. Contents(rs)[i] = [key |-> rs[i].key, entry |-> rs[i].entry] BY <1>6
    <3> QED BY <3>1
  <2>2. Len(Contents(rs)) = Len(rs) BY <1>6
  <2> QED BY <2>1, <2>2 DEF L!EntriesOf, Entries
<1>10. Contents(rt) = Append(Contents(rs), x)
  <2>1. /\ rt \in Seq(Record) /\ Len(rt) = Len(rs) + 1 /\ rt[Len(rs)+1] = r
        /\ \A i \in 1..Len(rs) : rt[i] = rs[i]
    BY <1>2, <1>3, Extended
  <2>2. /\ Contents(rt) \in Seq(Content) /\ Len(Contents(rt)) = Len(rt)
        /\ \A i \in 1..Len(rt) : Contents(rt)[i] = [key |-> rt[i].key, entry |-> rt[i].entry]
    BY <2>1, ContentsOfRecords
  <2>3. x \in Content BY <1>2 DEF Content
  <2>4. r.key = c.key /\ r.entry = c.entry BY DEF NewRecord
  <2>5. /\ Append(Contents(rs), x) \in Seq(Content)
        /\ Len(Append(Contents(rs), x)) = Len(rs) + 1
        /\ \A i \in 1..Len(rs) : Append(Contents(rs), x)[i] = Contents(rs)[i]
        /\ Append(Contents(rs), x)[Len(rs)+1] = x
    BY <1>6, <2>3
  <2>6. ASSUME NEW i \in 1..(Len(rs)+1) PROVE Contents(rt)[i] = Append(Contents(rs), x)[i]
    <3>1. CASE i \in 1..Len(rs)
      <4>1. i \in 1..Len(rt) /\ rt[i] = rs[i] BY <1>3, <2>1, <3>1
      <4>2. Contents(rt)[i] = [key |-> rs[i].key, entry |-> rs[i].entry] BY <2>2, <4>1
      <4>3. Append(Contents(rs), x)[i] = [key |-> rs[i].key, entry |-> rs[i].entry]
        BY <1>6, <2>5, <3>1
      <4> QED BY <4>2, <4>3
    <3>2. CASE i = Len(rs) + 1
      <4>1. i \in 1..Len(rt) /\ rt[i] = r BY <1>3, <2>1, <3>2
      <4>2. Contents(rt)[i] = [key |-> r.key, entry |-> r.entry] BY <2>2, <4>1
      <4> QED BY <2>4, <2>5, <3>2, <4>2
    <3>3. i \in 1..Len(rs) \/ i = Len(rs) + 1 BY <1>3
    <3> QED BY <3>1, <3>2, <3>3
  <2>7. Len(Contents(rt)) = Len(Append(Contents(rs), x)) BY <2>1, <2>2, <2>5
  <2>8. Len(Contents(rt)) = Len(rs) + 1 BY <2>1, <2>2
  <2>9. \A i \in 1..Len(Contents(rt)) : Contents(rt)[i] = Append(Contents(rs), x)[i]
    BY <2>6, <2>8
  <2> HIDE DEF rt, x, rs
  <2> QED BY <2>2, <2>5, <2>7, <2>9, SeqEqual
<1>11. Mapped' = [Mapped EXCEPT ![c.log] = Append(@, x)]
  <2>1. ASSUME NEW l \in Logs PROVE Mapped'[l] = [Mapped EXCEPT ![c.log] = Append(@, x)][l]
    <3>1. CASE l = c.log
      <4>1. Mapped'[l] = Contents(rt) BY <1>5, <3>1 DEF Mapped
      <4> QED BY <1>7, <1>10, <3>1, <4>1 DEF Mapped
    <3>2. CASE l # c.log
      <4>1. files'[l] = files[l] BY <3>2 DEF TypeOK
      <4> QED BY <3>2, <4>1 DEF Mapped
    <3> QED BY <3>1, <3>2
  <2> QED BY <2>1 DEF Mapped
<1>12. L!UnderKey(Mapped[c.log], c.key) BY <1>7, <1>8
<1>13. Follows(L!EntriesOf(Mapped[c.log]), Len(Mapped[c.log]), c.entry)
  BY <1>4, <1>6, <1>7, <1>9
<1>14. \/ acked' = [acked EXCEPT ![c.log] = @ \cup {x}]
       \/ acked' = acked
  OBVIOUS
<1>15. /\ L!UnderKey([l \in Logs |-> Contents(files[l].recs)][c.log], c.key)
       /\ L!Follows(L!EntriesOf([l \in Logs |-> Contents(files[l].recs)][c.log]),
                    Len([l \in Logs |-> Contents(files[l].recs)][c.log]), c.entry)
  BY <1>12, <1>13, SameFollows DEF Mapped
<1>16. [l \in Logs |-> Contents(files[l].recs)]'
         = [[l \in Logs |-> Contents(files[l].recs)] EXCEPT ![c.log] = Append(@, x)]
  BY <1>11 DEF Mapped
<1> QED BY <1>14, <1>15, <1>16 DEF L!Commit

\* An answer is a query.
LEMMA QueryStep ==
  ASSUME TypeOK, NEW p \in Procs, ProcInv(p), Answer(p)
  PROVE  L!Query(p, cmd[p].log, cmd[p].key)
<1> DEFINE c  == cmd[p]
           rs == files[c.log].recs
<1>1. /\ p \in Readers /\ c \in Queries /\ buf[p] = files[c.log] /\ AllUnder(rs, c.key)
  BY ProcsAssumption DEF Answer, ProcInv, Working, Loading, Procs
<1>2. c.log \in Logs /\ c.key \in Keys BY <1>1, CommandType
<1>3. rs \in Seq(Record) /\ Len(rs) \in Nat BY <1>2 DEF TypeOK, File
<1>4. /\ Len(Contents(rs)) = Len(rs)
      /\ \A i \in 1..Len(rs) : Contents(rs)[i] = [key |-> rs[i].key, entry |-> rs[i].entry]
  BY <1>3, ContentsOfRecords
<1>5. \A i \in 1..Len(rs) :
        Contents(rs)[i].key = rs[i].key /\ Contents(rs)[i].entry = rs[i].entry
  <2>1. ASSUME NEW i \in 1..Len(rs)
        PROVE  Contents(rs)[i].key = rs[i].key /\ Contents(rs)[i].entry = rs[i].entry
    <3>1. Contents(rs)[i] = [key |-> rs[i].key, entry |-> rs[i].entry] BY <1>4
    <3> QED BY <3>1
  <2> QED BY <2>1
<1>6. L!UnderKey(Contents(rs), c.key) BY <1>1, <1>4, <1>5 DEF L!UnderKey, AllUnder
<1>7. L!EntriesOf(Contents(rs)) = [i \in 1..Len(rs) |-> rs[i].entry]
  BY <1>4, <1>5 DEF L!EntriesOf
<1>8. [l \in Logs |-> Contents(files[l].recs)][c.log] = Contents(rs) BY <1>2
<1>9. answer' = [answer EXCEPT ![p] =
                   [log |-> c.log, entries |-> [i \in 1..Len(rs) |-> rs[i].entry]]]
  BY <1>1 DEF Answer
<1>10. UNCHANGED <<files, acked>> BY DEF Answer
<1> QED BY <1>6, <1>7, <1>8, <1>9, <1>10 DEF L!Query

LEMMA LedgerStep == IInv /\ [Next]_vars => [L!LedgerNext]_(L!ledgerVars)
<1> SUFFICES ASSUME IInv, [Next]_vars PROVE [L!LedgerNext]_(L!ledgerVars) OBVIOUS
<1>1. CASE UNCHANGED vars BY <1>1, HiddenStep DEF vars, shared
<1>2. ASSUME NEW p \in Procs, Step(p) \/ Crash(p) PROVE [L!LedgerNext]_(L!ledgerVars)
  <2>1. TypeOK /\ ProcInv(p) BY DEF IInv
  <2>2. pc[p] = "append" =>
          cmd[p].log \in Logs /\ cmd[p].key \in Keys /\ cmd[p].entry \in Entry
    BY <2>1, CommandType DEF ProcInv, Working
  <2>3. L!Entry = Entry BY DEF L!Entry, Entry
  <2>4. ASSUME pc[p] = "append", L!Commit(cmd[p].log, cmd[p].key, cmd[p].entry)
        PROVE  L!LedgerNext
    BY <2>2, <2>3, <2>4 DEF L!LedgerNext
  <2>5. CASE AppendEntry(p)
    <3>1. L!Commit(cmd[p].log, cmd[p].key, cmd[p].entry)
      BY <2>1, <2>5, CommitStep DEF AppendEntry
    <3> QED BY <2>4, <2>5, <3>1 DEF AppendEntry
  <2>6. CASE Answer(p)
    <3>1. L!Query(p, cmd[p].log, cmd[p].key) BY <2>1, <2>6, QueryStep
    <3>2. p \in Readers /\ cmd[p].log \in Logs /\ cmd[p].key \in Keys
      BY <2>1, <2>6, CommandType, ProcsAssumption DEF Answer, ProcInv, Working
    <3> QED BY <3>1, <3>2 DEF L!LedgerNext
  <2>7. ASSUME pc[p] = "append", files' = [files EXCEPT ![cmd[p].log] = Torn(@)],
               UNCHANGED <<acked, answer>>
        PROVE  UNCHANGED L!ledgerVars
    <3>1. [l \in Logs |-> Contents(files[l].recs)]' = [l \in Logs |-> Contents(files[l].recs)]
      <4>1. \A l \in Logs : files'[l].recs = files[l].recs BY <2>1, <2>7 DEF Torn, TypeOK
      <4> QED BY <4>1
    <3> QED BY <2>7, <3>1 DEF L!ledgerVars
  <2>8. CASE AppendFails(p)
    <3>1. CASE UNCHANGED files BY <2>8, <3>1, HiddenStep DEF AppendFails
    <3>2. CASE files' = [files EXCEPT ![cmd[p].log] = Torn(@)]
      BY <2>7, <2>8, <3>2 DEF AppendFails
    <3> QED BY <2>8, <3>1, <3>2 DEF AppendFails
  <2>9. CASE Crash(p)
    <3>1. CASE UNCHANGED files BY <2>9, <3>1, HiddenStep DEF Crash
    <3>2. CASE pc[p] = "append" /\ files' = [files EXCEPT ![cmd[p].log] = Torn(@)]
      BY <2>7, <2>9, <3>2 DEF Crash
    <3>3. CASE /\ pc[p] = "append"
               /\ files' = [files EXCEPT ![cmd[p].log] = Written(@, NewRecord(p))]
      <4>1. L!Commit(cmd[p].log, cmd[p].key, cmd[p].entry)
        BY <2>1, <2>9, <3>3, CommitStep DEF Crash
      <4> QED BY <2>4, <3>3, <4>1
    <3> QED BY <2>9, <3>1, <3>2, <3>3 DEF Crash
  <2>10. CASE \/ BadLine(p) \/ NextLine(p) \/ EndOfFile(p) \/ Ask(p) \/ Lock(p)
              \/ IoError(p) \/ Read(p) \/ Scan(p) \/ EndScan(p) \/ Replay(p)
              \/ EndReplay(p) \/ Apply(p)
    <3>1. UNCHANGED <<files, acked, answer>>
      BY <2>10 DEF BadLine, NextLine, EndOfFile, Ask, Lock, IoError, Read, Scan, EndScan,
                   Replay, EndReplay, Apply, GiveUp, shared
    <3> QED BY <3>1, HiddenStep
  <2> QED BY <1>2, <2>5, <2>6, <2>8, <2>9, <2>10 DEF Step, Work
<1> QED BY <1>1, <1>2 DEF Next

\* The processes together are the ledger.
THEOREM Refinement ==
  ASSUME CanFail \cap Batches = {} PROVE Spec => ImplementsLedger
<1>1. Init => L!LedgerInit BY InitLedger
<1>2. IInv /\ [Next]_vars => [L!LedgerNext]_(L!ledgerVars) BY LedgerStep
<1> QED BY <1>1, <1>2, Invariance, PTL DEF Spec, ImplementsLedger, L!LedgerSpec
================================================================================
