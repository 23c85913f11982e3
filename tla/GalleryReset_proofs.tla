-------------------------- MODULE GalleryReset_proofs --------------------------
(* Proofs about GalleryReset, where locks may exclude nobody. Two arguments:   *)
(* whatever is removed, a process goes by the contents its last hash names,    *)
(* and puts that hash into what it appends; and as long as no log is emptied   *)
(* or unlocked under somebody's feet the locks are those of GalleryLog, whose  *)
(* invariant holds.                                                            *)
EXTENDS GalleryReset, GalleryLog_proofs

------------------------------------------------------------------------------
(* The inductive invariant *)

\* The entries of the contents that a hash names.
Said(d) == [i \in 1..Len(d) |-> d[i].entry]

\* What a process has computed, and the hash that it goes by.
GoesBy(p) ==
  LET rs == buf[p].recs  d == last_hash[p] IN
  /\ pc[p] = "scan" =>
       /\ n[p] \in 0..Len(rs) /\ d = HashAt(rs, n[p])
       /\ \A i \in 1..n[p] : rs[i].prev = HashAt(rs, i-1)
  /\ pc[p] = "replay" =>
       /\ n[p] \in 0..Len(rs) /\ d = HashAt(rs, Len(rs)) /\ Chained(rs)
       /\ Computes(state[p], Entries(rs), n[p])
  /\ pc[p] = "apply" \/ (pc[p] = "next" /\ cache[p] # NoCache) =>
       Computes(state[p], Said(d), Len(d))
  /\ pc[p] = "append" =>
       /\ Follows(Said(d), Len(d), cmd[p].entry)
       /\ Computes(state[p], Append(Said(d), cmd[p].entry), Len(d) + 1)

\* Where a process is, without a word about the files.
Sits(p) == Holding(p) /\ Working(p) /\ Fresh(p) /\ GoesBy(p)

\* The lock file a process has open.
Handle(p) ==
  /\ fd[p] # 0 => cmd[p] \in Commands \cup Queries /\ fd[p] \in 1..made[cmd[p].log]
  /\ held[p] # NoLog => fd[p] # 0 /\ held[p] = cmd[p].log
  /\ fd[p] # 0 /\ held[p] = NoLog => pc[p] = "lock"

\* A record was validated against the contents that its link names.
Meant(r) == Follows(Said(r.prev), Len(r.prev), r.entry)

\* As long as nothing was removed that somebody has open, a lock file that is open
\* is the one with the name, and GalleryLog's invariant holds.
Named(p) == fd[p] # 0 => there[cmd[p].log] /\ fd[p] = made[cmd[p].log]

Unmet == /\ \A p \in Procs : ProcInv(p) /\ Named(p)
         /\ Exclusive
         /\ LogReplays

RInv == /\ TypeOK /\ TypeOKR
        /\ \A p \in Procs : Sits(p) /\ Handle(p)
        /\ \A l \in Logs : \A i \in 1..Len(files[l].recs) : Meant(files[l].recs[i])
        /\ ~met => Unmet

\* What a process does besides opening and taking its lock.
Runs(p) ==
  \/ NextLine(p) \/ EndOfFile(p) \/ Ask(p)
  \/ Read(p) \/ Scan(p) \/ EndScan(p)
  \/ Replay(p) \/ EndReplay(p) \/ Apply(p)
  \/ AppendEntry(p) \/ Answer(p) \/ Crash(p)

LEMMA StepsOfR ==
  ASSUME NEW p \in Procs, StepR(p)
  PROVE  OpenLock(p) \/ Flock(p) \/ (Runs(p) /\ Closing(p))
BY DEF StepR, WorkR, Runs

LEMMA RunsIsStep == ASSUME NEW p \in Procs, Runs(p) PROVE Step(p) \/ Crash(p)
BY DEF Runs, Step, Work

------------------------------------------------------------------------------
(* What a hash stands for *)

LEMMA SaidType ==
  ASSUME NEW d \in Digest
  PROVE  /\ Len(d) \in Nat
         /\ Said(d) \in Seq(Entry)
         /\ Len(Said(d)) = Len(d)
         /\ \A i \in 1..Len(d) : Said(d)[i] = d[i].entry
<1>1. Len(d) \in Nat /\ \A i \in 1..Len(d) : d[i] \in Content BY DEF Digest
<1>2. \A i \in 1..Len(d) : d[i].entry \in Entry BY <1>1 DEF Content
<1> QED BY <1>1, <1>2 DEF Said

LEMMA SaidNext ==
  ASSUME NEW d \in Digest, NEW c \in Content
  PROVE  /\ Append(d, c) \in Digest
         /\ Len(Append(d, c)) = Len(d) + 1
         /\ \A i \in 1..(Len(d) + 1) : Append(Said(d), c.entry)[i] = Said(Append(d, c))[i]
<1> DEFINE dc == Append(d, c)
<1>1. /\ dc \in Digest /\ Len(dc) = Len(d) + 1 /\ dc[Len(d)+1] = c
      /\ \A i \in 1..Len(d) : dc[i] = d[i]
  BY DEF Digest
<1>2. /\ Len(d) \in Nat /\ Said(d) \in Seq(Entry) /\ Len(Said(d)) = Len(d)
      /\ \A i \in 1..Len(d) : Said(d)[i] = d[i].entry
  BY SaidType
<1>3. c.entry \in Entry BY DEF Content
<1>4. /\ \A i \in 1..Len(d) : Append(Said(d), c.entry)[i] = d[i].entry
      /\ Append(Said(d), c.entry)[Len(d)+1] = c.entry
  BY <1>2, <1>3
<1> HIDE DEF dc
<1>5. \A i \in 1..(Len(d) + 1) : Said(dc)[i] = dc[i].entry BY <1>1, SaidType
<1>6. ASSUME NEW i \in 1..(Len(d) + 1) PROVE Append(Said(d), c.entry)[i] = Said(dc)[i]
  <2>1. i \in 1..Len(d) \/ i = Len(d) + 1 BY <1>2
  <2>2. CASE i \in 1..Len(d) BY <1>1, <1>4, <1>5, <2>2
  <2>3. CASE i = Len(d) + 1 BY <1>1, <1>4, <1>5, <2>3
  <2> QED BY <2>1, <2>2, <2>3
<1> QED BY <1>1, <1>6 DEF dc

\* The hash of an unbroken chain names what is in the chain.
LEMMA HashOfChain ==
  ASSUME NEW rs \in Seq(Record), NEW m \in 0..Len(rs),
         \A i \in 1..m : rs[i].prev = HashAt(rs, i-1)
  PROVE  \A k \in 0..m : /\ HashAt(rs, k) \in Digest
                         /\ Len(HashAt(rs, k)) = k
                         /\ \A j \in 1..k : HashAt(rs, k)[j].entry = rs[j].entry
<1> DEFINE Good(k) == /\ HashAt(rs, k) \in Digest
                      /\ Len(HashAt(rs, k)) = k
                      /\ \A j \in 1..k : HashAt(rs, k)[j].entry = rs[j].entry
           S == {k \in Nat : k <= m => Good(k)}
<1>1. 0 \in S
  <2>1. HashAt(rs, 0) = << >> BY DEF HashAt, Zero
  <2>2. << >> \in Digest /\ Len(<< >>) = 0 BY DEF Digest
  <2> QED BY <2>1, <2>2
<1>2. ASSUME NEW k \in Nat, k \in S PROVE k + 1 \in S
  <2> SUFFICES ASSUME k + 1 <= m PROVE Good(k + 1) OBVIOUS
  <2>0. m \in Nat /\ Len(rs) \in Nat /\ m <= Len(rs) OBVIOUS
  <2>1. k + 1 \in 1..m /\ k + 1 \in 1..Len(rs) BY <2>0
  <2>2. Good(k) BY <2>0, <1>2
  <2>3. rs[k+1] \in Record BY <2>1
  <2>4. rs[k+1].prev = HashAt(rs, k) BY <2>1
  <2> DEFINE d == HashAt(rs, k)
             c == [key |-> rs[k+1].key, entry |-> rs[k+1].entry]
  <2>5. c \in Content /\ c.entry = rs[k+1].entry BY <2>3 DEF Record, Content
  <2>6. HashAt(rs, k+1) = Append(d, c) BY <2>4 DEF HashAt, Hash
  <2>7. d \in Digest /\ Len(d) = k /\ \A j \in 1..k : d[j].entry = rs[j].entry BY <2>2
  <2> HIDE DEF d, c
  <2>8. /\ Append(d, c) \in Digest /\ Len(Append(d, c)) = k + 1
        /\ \A j \in 1..k : Append(d, c)[j] = d[j]
        /\ Append(d, c)[k+1] = c
    BY <2>5, <2>7 DEF Digest
  <2>9. ASSUME NEW j \in 1..(k+1) PROVE Append(d, c)[j].entry = rs[j].entry
    <3>1. j \in 1..k \/ j = k + 1 OBVIOUS
    <3> QED BY <2>5, <2>7, <2>8, <3>1
  <2> QED BY <2>6, <2>8, <2>9
<1>3. Nat \subseteq S
  <2> HIDE DEF S
  <2> QED BY <1>1, <1>2, NatSetInduction
<1> QED BY <1>3

------------------------------------------------------------------------------
(* The process that takes the step, whatever has become of the files *)

LEMMA SitsDone ==
  ASSUME NEW p \in Procs, pc'[p] = "done", held'[p] = NoLog, cache'[p] = NoCache
  PROVE  Sits(p)'
BY DEF Sits, Holding, Working, Fresh, GoesBy

LEMMA SitsIdle ==
  ASSUME NEW p \in Batches, pc'[p] = "next", held'[p] = NoLog, cache'[p] = NoCache,
         n'[p] = 0
  PROVE  Sits(p)'
<1>1. p \notin Readers BY ProcsAssumption DEF Writers
<1> QED BY <1>1 DEF Sits, Holding, Working, Fresh, GoesBy

LEMMA SitsGiveUp ==
  ASSUME TypeOK, NEW p \in Procs, Sits(p), NEW what, GiveUp(p, what),
         pc[p] \in {"scan", "replay"}
  PROVE  Sits(p)'
<1>1. /\ pc'[p] = IF p \in Batches THEN "next" ELSE "done"
      /\ held'[p] = NoLog /\ cache'[p] = cache[p] /\ n'[p] = 0
  BY DEF GiveUp, Forget, GoTo, NextOrDone, TypeOK
<1>2. cache[p] = NoCache BY DEF Sits, Holding
<1> QED BY <1>1, <1>2, SitsDone, SitsIdle

LEMMA SitsExit ==
  ASSUME TypeOK, NEW p \in Procs, NEW what, Exit(p, what) PROVE Sits(p)'
<1>1. pc'[p] = "done" /\ held'[p] = NoLog /\ cache'[p] = NoCache
  BY DEF Exit, GoTo, TypeOK
<1> QED BY <1>1, SitsDone

LEMMA SitsNextLine ==
  ASSUME TypeOK, NEW p \in Procs, Sits(p), NextLine(p) PROVE Sits(p)'
<1>1. /\ pc[p] = "next" /\ p \in Writers /\ p \notin Readers /\ n[p] = 0
      /\ outcome'[p] = "none"
      /\ UNCHANGED <<buf, n>>
  BY ProcsAssumption DEF NextLine, Report, TypeOK, shared, Sits, Fresh
<1>2. PICK c \in Commands :
        /\ cmd' = [cmd EXCEPT ![p] = c]
        /\ IF cache[p] = [log |-> c.log, key |-> c.key]
             THEN GoTo(p, "apply") /\ UNCHANGED <<held, cache, last_hash, state>>
             ELSE /\ GoTo(p, "lock")
                  /\ held'      = [held EXCEPT ![p] = NoLog]
                  /\ cache'     = [cache EXCEPT ![p] = NoCache]
                  /\ last_hash' = [last_hash EXCEPT ![p] = Zero]
                  /\ state'     = [state EXCEPT ![p] = EmptyState]
  BY DEF NextLine
<1>3. cmd'[p] = c BY <1>2 DEF TypeOK
<1>4. CASE cache[p] = [log |-> c.log, key |-> c.key]
  <2>1. cache[p] # NoCache BY <1>4, CommandType, NullsAssumption
  <2>2. pc'[p] = "apply" /\ UNCHANGED <<held, cache, last_hash, state>>
    BY <1>2, <1>4 DEF GoTo, TypeOK
  <2>3. held[p] = c.log /\ p \in Batches
    BY <1>1, <1>4, <2>1 DEF Sits, Holding
  <2>4. Computes(state[p], Said(last_hash[p]), Len(last_hash[p]))
    BY <1>1, <2>1 DEF Sits, GoesBy
  <2> QED BY <1>1, <1>3, <1>4, <2>2, <2>3, <2>4 DEF Sits, Holding, Working, Fresh, GoesBy
<1>5. CASE cache[p] # [log |-> c.log, key |-> c.key]
  <2>1. /\ pc'[p] = "lock" /\ held'[p] = NoLog /\ cache'[p] = NoCache
        /\ last_hash'[p] = Zero /\ state'[p] = EmptyState
    BY <1>2, <1>5 DEF GoTo, TypeOK
  <2> QED BY <1>1, <1>3, <2>1 DEF Sits, Holding, Working, Fresh, GoesBy
<1> QED BY <1>4, <1>5

LEMMA SitsAsk ==
  ASSUME TypeOK, NEW p \in Procs, Sits(p), Ask(p) PROVE Sits(p)'
<1>1. PICK q \in Queries : cmd' = [cmd EXCEPT ![p] = q] BY DEF Ask
<1>2. /\ pc[p] = "next" /\ pc'[p] = "lock" /\ cmd'[p] \in Queries /\ p \in Readers
      /\ UNCHANGED <<held, cache, buf, n, last_hash, state, outcome>>
  BY <1>1 DEF Ask, GoTo, TypeOK, shared
<1>3. p \notin Writers BY <1>2, ProcsAssumption
<1>4. cache[p] = NoCache /\ held[p] = NoLog
  BY <1>2, <1>3 DEF Sits, Holding, Writers
<1> QED BY <1>2, <1>3, <1>4 DEF Sits, Holding, Working, Fresh, GoesBy

LEMMA SitsFlock ==
  ASSUME TypeOK, NEW p \in Procs, Sits(p), Flock(p) PROVE Sits(p)'
<1>1. /\ pc[p] = "lock" /\ pc'[p] = "read" /\ held'[p] = cmd[p].log
      /\ UNCHANGED <<cmd, cache, buf, n, last_hash, state, outcome>>
  BY DEF Flock, GoTo, TypeOK, shared
<1> QED BY <1>1 DEF Sits, Holding, Working, Fresh, GoesBy

LEMMA SitsRead ==
  ASSUME TypeOK, NEW p \in Procs, Sits(p), Read(p) PROVE Sits(p)'
<1>1. /\ pc[p] = "read" /\ pc'[p] = "scan" /\ buf'[p] = files[cmd[p].log]
      /\ UNCHANGED <<cmd, held, cache, n, last_hash, state, outcome>>
  BY DEF Read, GoTo, TypeOK, shared
<1>2. cmd[p].log \in Logs BY <1>1, CommandType DEF Sits, Working
<1>3. buf'[p].recs \in Seq(Record) BY <1>1, <1>2 DEF TypeOK, File
<1>4. n[p] = 0 /\ last_hash[p] = Zero /\ state[p] = EmptyState
  BY <1>1 DEF Sits, Fresh
<1>5. GoesBy(p)' BY <1>1, <1>3, <1>4 DEF GoesBy, HashAt
<1> QED BY <1>1, <1>4, <1>5 DEF Sits, Holding, Working, Fresh

LEMMA SitsScan ==
  ASSUME TypeOK, NEW p \in Procs, Sits(p), Scan(p) PROVE Sits(p)'
<1> DEFINE rs == buf[p].recs
           r  == rs[n[p]+1]
<1>1. CASE Authentic(p, r)
  <2>1. /\ pc[p] = "scan" /\ n[p] < Len(rs)
        /\ last_hash' = [last_hash EXCEPT ![p] = Hash(r)]
        /\ n' = [n EXCEPT ![p] = n[p] + 1]
        /\ UNCHANGED <<pc, cmd, held, cache, buf, state, outcome>>
    BY <1>1 DEF Scan, shared
  <2>2. last_hash'[p] = Hash(r) /\ n'[p] = n[p] + 1 BY <2>1 DEF TypeOK
  <2>3. n[p] \in Nat /\ Len(rs) \in Nat BY DEF TypeOK, File
  <2>4. /\ last_hash[p] = HashAt(rs, n[p])
        /\ \A i \in 1..n[p] : rs[i].prev = HashAt(rs, i-1)
    BY <2>1 DEF Sits, GoesBy
  <2>5. r.prev = HashAt(rs, n[p]) BY <1>1, <2>4 DEF Authentic
  <2>6. GoesBy(p)'
    <3>1. n'[p] \in 0..Len(rs) BY <2>1, <2>2, <2>3
    <3>2. ASSUME NEW i \in 1..n'[p] PROVE rs[i].prev = HashAt(rs, i-1)
      <4>1. i \in 1..n[p] \/ i = n[p] + 1 BY <2>2, <2>3
      <4>2. CASE i = n[p] + 1
        <5>1. i - 1 = n[p] BY <2>3, <4>2
        <5> QED BY <2>5, <4>2, <5>1
      <4> QED BY <2>4, <4>1, <4>2
    <3>3. last_hash'[p] = HashAt(rs, n'[p]) BY <2>2, <2>3 DEF HashAt
    <3> QED BY <2>1, <3>1, <3>2, <3>3 DEF GoesBy
  <2> QED BY <2>1, <2>6 DEF Sits, Holding, Working, Fresh
<1>2. CASE ~Authentic(p, r)
  BY <1>2, SitsGiveUp DEF Scan
<1> QED BY <1>1, <1>2

LEMMA SitsEndScan ==
  ASSUME TypeOK, NEW p \in Procs, Sits(p), EndScan(p) PROVE Sits(p)'
<1> DEFINE rs == buf[p].recs
<1>1. CASE buf[p].torn BY <1>1, SitsGiveUp DEF EndScan
<1>2. CASE ~buf[p].torn
  <2>1. /\ pc[p] = "scan" /\ n[p] = Len(rs)
        /\ pc'[p] = "replay" \/ (pc'[p] = "answer" /\ p \notin Writers)
        /\ n'[p] = 0
        /\ UNCHANGED <<cmd, held, cache, buf, last_hash, state, outcome>>
    BY <1>2 DEF EndScan, Replays, GoTo, TypeOK, shared
  <2>2. last_hash[p] = HashAt(rs, Len(rs)) /\ Chained(rs) /\ state[p] = EmptyState
    BY <2>1 DEF Sits, GoesBy, Fresh, Chained
  <2>3. Len(rs) \in Nat BY DEF TypeOK, File
  <2>4. GoesBy(p)' BY <2>1, <2>2, <2>3, ComputesEmpty DEF GoesBy
  <2> QED BY <2>1, <2>4 DEF Sits, Holding, Working, Fresh, Procs
<1> QED BY <1>1, <1>2

LEMMA SitsReplay ==
  ASSUME TypeOK, NEW p \in Procs, Sits(p), Replay(p) PROVE Sits(p)'
<1> DEFINE rs == buf[p].recs
           e  == rs[n[p]+1].entry
<1>1. CASE CanApply(state[p], e)
  <2>1. /\ pc[p] = "replay" /\ n[p] < Len(rs)
        /\ state' = [state EXCEPT ![p] = Applied(state[p], e)]
        /\ n' = [n EXCEPT ![p] = n[p] + 1]
        /\ UNCHANGED <<pc, cmd, held, cache, buf, last_hash, outcome>>
    BY <1>1 DEF Replay, shared
  <2>2. state'[p] = Applied(state[p], e) /\ n'[p] = n[p] + 1 BY <2>1 DEF TypeOK
  <2>3. n[p] \in Nat /\ rs \in Seq(Record) /\ Len(rs) \in Nat BY DEF TypeOK, File
  <2>4. Entries(rs)[n[p]+1] = e /\ e \in Entry
    BY <2>1, <2>3, EntriesOfRecords
  <2>5. Computes(state[p], Entries(rs), n[p]) BY <2>1 DEF Sits, GoesBy
  <2>6. Computes(state'[p], Entries(rs), n'[p])
    BY <2>2, <2>3, <2>4, <2>5, ApplyComputes DEF TypeOK
  <2>7. GoesBy(p)' BY <2>1, <2>2, <2>3, <2>6 DEF Sits, GoesBy
  <2> QED BY <2>1, <2>7 DEF Sits, Holding, Working, Fresh
<1>2. CASE ~CanApply(state[p], e) BY <1>2, SitsGiveUp DEF Replay
<1> QED BY <1>1, <1>2

LEMMA SitsEndReplay ==
  ASSUME TypeOK, NEW p \in Procs, Sits(p), EndReplay(p) PROVE Sits(p)'
<1> DEFINE rs == buf[p].recs
           d  == last_hash[p]
<1>1. /\ pc[p] = "replay" /\ n[p] = Len(rs)
      /\ UNCHANGED <<cmd, held, last_hash, state, outcome>>
  BY DEF EndReplay, shared
<1>2. CASE p \in Readers
  <2>1. pc'[p] = "answer" /\ UNCHANGED <<cache, buf, n>>
    BY <1>2 DEF EndReplay, GoTo, TypeOK
  <2>2. p \notin Writers BY <1>2, ProcsAssumption
  <2> QED BY <1>1, <1>2, <2>1, <2>2 DEF Sits, Holding, Working, Fresh, GoesBy
<1>3. CASE p \notin Readers
  <2>1. /\ pc'[p] = "apply" /\ n'[p] = 0
        /\ cache' = IF p \in Batches
                      THEN [cache EXCEPT ![p] = [log |-> cmd[p].log, key |-> cmd[p].key]]
                      ELSE cache
    BY <1>3 DEF EndReplay, GoTo, TypeOK
  <2>2. p \in Writers BY <1>3 DEF Procs
  <2>3. p \in Batches => cache'[p] = [log |-> cmd[p].log, key |-> cmd[p].key]
    BY <2>1 DEF TypeOK
  <2>4. p \notin Batches => cache'[p] = cache[p] BY <2>1
  <2>5. Computes(state[p], Said(d), Len(d))
    <3>1. rs \in Seq(Record) /\ Len(rs) \in Nat BY DEF TypeOK, File
    <3>2. /\ d = HashAt(rs, Len(rs)) /\ Chained(rs)
          /\ Computes(state[p], Entries(rs), Len(rs))
      BY <1>1 DEF Sits, GoesBy
    <3>3. Len(rs) \in 0..Len(rs) BY <3>1
    <3>4. /\ d \in Digest /\ Len(d) = Len(rs)
          /\ \A j \in 1..Len(rs) : d[j].entry = rs[j].entry
      BY <3>1, <3>2, <3>3, HashOfChain DEF Chained
    <3>5. \A j \in 1..Len(rs) : Entries(rs)[j] = Said(d)[j]
      BY <3>1, <3>4, EntriesOfRecords, SaidType
    <3> QED BY <3>1, <3>2, <3>4, <3>5, ComputesPrefix
  <2>6. GoesBy(p)' BY <1>1, <2>1, <2>5 DEF GoesBy
  <2> QED BY <1>1, <2>1, <2>2, <2>3, <2>4, <2>6 DEF Sits, Holding, Working, Fresh
<1> QED BY <1>2, <1>3

LEMMA SitsFinish ==
  ASSUME TypeOK, NEW p \in Procs, Sits(p), NEW what, Finish(p, what),
         pc[p] \in {"apply", "append"},
         Computes(state'[p], Said(last_hash'[p]), Len(last_hash'[p]))
  PROVE  Sits(p)'
<1>1. /\ pc'[p] = IF p \in Batches THEN "next" ELSE "done"
      /\ held'[p] = IF p \in Batches THEN held[p] ELSE NoLog
      /\ UNCHANGED <<cmd, cache, n>>
  BY DEF Finish, GoTo, NextOrDone, TypeOK
<1>2. CASE p \in Batches
  <2>1. cache[p] = [log |-> cmd[p].log, key |-> cmd[p].key] /\ held[p] = cmd[p].log
    BY <1>2 DEF Sits, Holding
  <2>2. cmd[p] \in Commands /\ cache[p] # NoCache /\ p \notin Readers
    BY <1>2, <2>1, CommandType, NullsAssumption, ProcsAssumption
    DEF Sits, Working, Writers
  <2>3. cache[p].log = cmd[p].log BY <2>1
  <2>4. n[p] = 0 BY DEF Sits, Fresh
  <2> QED BY <1>1, <1>2, <2>1, <2>2, <2>3, <2>4 DEF Sits, Holding, Working, Fresh, GoesBy
<1>3. CASE p \notin Batches
  BY <1>1, <1>3, SitsDone DEF Sits, Holding
<1> QED BY <1>2, <1>3

LEMMA SitsApply ==
  ASSUME TypeOK, NEW p \in Procs, Sits(p), Apply(p) PROVE Sits(p)'
<1> DEFINE c  == cmd[p]
           d  == last_hash[p]
           es == Said(d)
           et == Append(es, c.entry)
<1>1. /\ pc[p] = "apply" /\ p \in Writers /\ c \in Commands
      /\ Computes(state[p], es, Len(d))
  BY DEF Apply, Sits, Working, GoesBy
<1>2. c.entry \in Entry /\ d \in Digest BY <1>1, CommandType DEF TypeOK
<1>3. Len(d) \in Nat /\ es \in Seq(Entry) /\ Len(es) = Len(d) BY <1>2, SaidType
<1>4. CASE CanApply(state[p], c.entry)
  <2>1. /\ pc' = [pc EXCEPT ![p] = "append"]
        /\ state' = [state EXCEPT ![p] = Applied(state[p], c.entry)]
        /\ UNCHANGED <<cmd, held, cache, buf, n, last_hash, outcome>>
    BY <1>4 DEF Apply, GoTo, shared
  <2>2. pc'[p] = "append" /\ state'[p] = Applied(state[p], c.entry) BY <2>1 DEF TypeOK
  <2>3. /\ \A i \in 1..Len(d) : es[i] = et[i]
        /\ et[Len(d)+1] = c.entry
    BY <1>2, <1>3
  <2>4. Computes(state[p], et, Len(d)) BY <1>1, <1>3, <2>3, ComputesPrefix
  <2>5. Computes(state'[p], et, Len(d) + 1)
    BY <1>2, <1>3, <2>2, <2>3, <2>4, ApplyComputes DEF TypeOK
  <2>6. Follows(es, Len(d), c.entry) BY <1>1, <1>2, <1>3, <1>4, ApplyIffFollows
  <2>7. GoesBy(p)' BY <2>1, <2>2, <2>5, <2>6 DEF GoesBy
  <2> QED BY <1>1, <2>1, <2>2, <2>7 DEF Sits, Holding, Working, Fresh
<1>5. CASE ~CanApply(state[p], c.entry)
  <2>1. Finish(p, "invalid") /\ UNCHANGED <<last_hash, state>> BY <1>5 DEF Apply
  <2> QED BY <1>1, <2>1, SitsFinish
<1> QED BY <1>4, <1>5

LEMMA SitsAppendEntry ==
  ASSUME TypeOK, NEW p \in Procs, Sits(p), AppendEntry(p) PROVE Sits(p)'
<1> DEFINE d == last_hash[p]
           x == [key |-> cmd[p].key, entry |-> cmd[p].entry]
<1>1. /\ pc[p] = "append" /\ cmd[p] \in Commands
      /\ Computes(state[p], Append(Said(d), cmd[p].entry), Len(d) + 1)
  BY DEF AppendEntry, Sits, Working, GoesBy
<1>2. d \in Digest /\ x \in Content BY <1>1, CommandType DEF TypeOK, Content
<1>3. /\ Len(d) + 1 \in Nat /\ Len(Append(d, x)) = Len(d) + 1
      /\ \A i \in 1..(Len(d) + 1) : Append(Said(d), x.entry)[i] = Said(Append(d, x))[i]
  BY <1>2, SaidType, SaidNext
<1>4. Computes(state[p], Said(Append(d, x)), Len(Append(d, x)))
  BY <1>1, <1>3, ComputesPrefix
<1>5. Finish(p, "ok") /\ state' = state /\ last_hash'[p] = Append(d, x)
  BY DEF AppendEntry, NewRecord, Hash, TypeOK
<1> QED BY <1>1, <1>4, <1>5, SitsFinish

LEMMA SitsRuns ==
  ASSUME TypeOK, NEW p \in Procs, Sits(p), Runs(p) PROVE Sits(p)'
BY SitsNextLine, SitsExit, SitsAsk, SitsRead, SitsScan, SitsEndScan, SitsReplay,
   SitsEndReplay, SitsApply, SitsAppendEntry
DEF Runs, EndOfFile, Answer, Crash

LEMMA SitsStill ==
  ASSUME NEW q \in Procs, Sits(q), Untouched(q) PROVE Sits(q)'
BY DEF Sits, Holding, Working, Fresh, GoesBy, Untouched

------------------------------------------------------------------------------
(* Types, and the lock files that are open *)

LEMMA FlockUntouched ==
  ASSUME TypeOK, NEW p \in Procs, Flock(p), NEW q \in Procs, q # p PROVE Untouched(q)
BY DEF Flock, GoTo, shared, TypeOK, Untouched

LEMMA FlockTypes ==
  ASSUME TypeOK, NEW p \in Procs, Sits(p), Flock(p) PROVE TypeOK'
<1>1. cmd[p].log \in Logs BY CommandType DEF Flock, Sits, Working
<1> QED BY <1>1 DEF Flock, GoTo, shared, TypeOK

LEMMA RunsTypes ==
  ASSUME TypeOK, \A q \in Procs : Sits(q), NEW p \in Procs, Runs(p) PROVE TypeOK'
<1>1. TypeInv BY DEF TypeInv, Sits
<1>2. Next BY RunsIsStep DEF Next
<1> QED BY <1>1, <1>2, NextTypeInv DEF TypeInv

\* What runs keeps its lock or drops it.
LEMMA RunsHeld ==
  ASSUME TypeOK, NEW p \in Procs, Runs(p) PROVE held'[p] \in {held[p], NoLog}
BY DEF TypeOK, Runs, Crash, NextLine, EndOfFile, Ask, Read, Scan,
       EndScan, Replay, EndReplay, Apply, AppendEntry, Answer, GiveUp, Exit, Finish

\* The command changes where the lock is dropped, or where it is for the same log.
LEMMA RunsCommand ==
  ASSUME NEW p \in Procs, Runs(p) PROVE cmd' = cmd \/ NextLine(p) \/ Ask(p)
BY DEF Runs, Crash, EndOfFile, Read, Scan, EndScan, Replay, EndReplay, Apply, AppendEntry,
       Answer, GiveUp, Finish

LEMMA RunsHandle ==
  ASSUME TypeOK, TypeOKR, NEW p \in Procs, Sits(p), Handle(p), Runs(p), Closing(p)
  PROVE  Handle(p)'
<1>1. /\ fd'[p] = IF held'[p] = NoLog THEN 0 ELSE fd[p]
      /\ made' = made
  BY DEF Closing, TypeOKR
<1>2. CASE held'[p] = NoLog BY <1>1, <1>2 DEF Handle
<1>3. CASE held'[p] # NoLog
  <2>1. held'[p] = held[p] BY <1>3, RunsHeld
  <2>2. /\ fd[p] # 0 /\ held[p] = cmd[p].log /\ cmd[p] \in Commands \cup Queries
        /\ fd[p] \in 1..made[cmd[p].log]
    BY <1>3, <2>1 DEF Handle
  <2>3. CASE cmd' = cmd BY <1>1, <1>3, <2>1, <2>2, <2>3 DEF Handle
  <2>4. CASE NextLine(p)
    <3>1. pc'[p] \in {"apply", "lock"} BY <2>4 DEF NextLine, GoTo, TypeOK
    <3>2. Sits(p)' BY <2>4, SitsNextLine
    <3>3. pc'[p] = "apply" /\ held'[p] = cmd'[p].log
      BY <1>3, <3>1, <3>2 DEF Sits, Holding
    <3>4. cmd'[p] \in Commands BY <2>4 DEF NextLine, TypeOK
    <3> QED BY <1>1, <1>3, <2>1, <2>2, <3>3, <3>4 DEF Handle
  <2>5. CASE Ask(p)
    <3>1. p \notin Batches /\ pc[p] = "next" BY <2>5, ProcsAssumption DEF Ask, Writers
    <3>2. held[p] = NoLog BY <3>1 DEF Sits, Holding
    <3> QED BY <1>3, <2>1, <3>2
  <2> QED BY <2>3, <2>4, <2>5, RunsCommand
<1> QED BY <1>2, <1>3

LEMMA FlockHandle ==
  ASSUME TypeOK, NEW p \in Procs, Sits(p), Handle(p), Flock(p) PROVE Handle(p)'
<1>1. /\ fd[p] # 0 /\ held'[p] = cmd[p].log /\ UNCHANGED <<cmd, fd, made>>
  BY DEF Flock, resetVars, TypeOK
<1>2. cmd[p] \in Commands \cup Queries /\ cmd[p].log \in Logs
  BY <1>1, CommandType DEF Handle
<1> QED BY <1>1, <1>2, NullsAssumption DEF Handle

LEMMA OpenHandle ==
  ASSUME TypeOK, TypeOKR, NEW p \in Procs, Sits(p), OpenLock(p),
         NEW q \in Procs, Handle(q)
  PROVE  Handle(q)'
<1> DEFINE l == cmd[p].log
<1>1. /\ pc[p] = "lock" /\ fd[p] = 0
      /\ made' = [made EXCEPT ![l] = IF there[l] THEN @ ELSE @ + 1]
      /\ fd' = [fd EXCEPT ![p] = made'[l]]
      /\ UNCHANGED <<pc, cmd, held>>
  BY DEF OpenLock, vars
<1>2. cmd[p] \in Commands \cup Queries /\ held[p] = NoLog
  BY <1>1 DEF Sits, Holding, Working
<1>3. l \in Logs BY <1>2, CommandType
<1>4. made'[l] \in Nat BY <1>1, <1>3 DEF TypeOKR
<1>5. CASE q = p
  <2>1. fd'[p] = made'[l] BY <1>1 DEF TypeOKR
  <2>2. fd'[p] # 0 => fd'[p] \in 1..made'[l] BY <1>4, <2>1
  <2> QED BY <1>1, <1>2, <1>5, <2>2 DEF Handle
<1>6. CASE q # p
  <2>1. fd'[q] = fd[q] BY <1>1, <1>6 DEF TypeOKR
  <2>2. ASSUME fd[q] # 0 PROVE fd[q] \in 1..made'[cmd[q].log]
    <3>1. fd[q] \in 1..made[cmd[q].log] /\ cmd[q].log \in Logs
      BY <2>2, CommandType DEF Handle
    <3>2. \/ made'[cmd[q].log] = made[cmd[q].log]
          \/ made'[cmd[q].log] = made[cmd[q].log] + 1
      BY <1>1, <3>1 DEF TypeOKR
    <3>3. made[cmd[q].log] \in Nat BY <3>1 DEF TypeOKR
    <3> QED BY <3>1, <3>2, <3>3
  <2> QED BY <1>1, <2>1, <2>2 DEF Handle
<1> QED BY <1>5, <1>6

LEMMA HandleStill ==
  ASSUME NEW q \in Procs, Handle(q), Untouched(q), fd'[q] = fd[q], made' = made
  PROVE  Handle(q)'
BY DEF Handle, Untouched

\* The part of TypeOKR that is about fd.
LEMMA HandleTypes ==
  ASSUME NEW p \in Procs, Handle(p) PROVE held[p] # NoLog => fd[p] \in 1..made[held[p]]
BY DEF Handle

------------------------------------------------------------------------------
(* Records *)

MeantAll == \A l \in Logs : \A i \in 1..Len(files[l].recs) : Meant(files[l].recs[i])

LEMMA RunsMeant ==
  ASSUME TypeOK, NEW p \in Procs, Sits(p), MeantAll, Runs(p) PROVE MeantAll'
<1> SUFFICES ASSUME NEW l \in Logs, NEW i \in 1..Len(files'[l].recs)
             PROVE  Meant(files'[l].recs[i])
  BY DEF MeantAll, Meant
<1> DEFINE rs == files[l].recs
           r  == NewRecord(p)
<1>0. \A j \in 1..Len(rs) : Meant(rs[j]) BY DEF MeantAll
<1>1. FilesStep(p) BY FilesChange, RunsIsStep
<1>2. CASE files'[l].recs = rs BY <1>0, <1>2
<1>3. CASE pc[p] = "append" /\ files'[l].recs = Append(rs, r)
  <2>1. cmd[p] \in Commands BY <1>3 DEF Sits, Working
  <2>2. r \in Record BY <2>1, NewRecordType
  <2>3. rs \in Seq(Record) /\ Len(rs) \in Nat BY DEF TypeOK, File
  <2>4. Meant(r) BY <1>3 DEF Sits, GoesBy, Meant, NewRecord
  <2>5. /\ Len(files'[l].recs) = Len(rs) + 1 /\ files'[l].recs[Len(rs)+1] = r
        /\ \A j \in 1..Len(rs) : files'[l].recs[j] = rs[j]
    BY <1>3, <2>2, <2>3, Extended
  <2>6. i \in 1..Len(rs) \/ i = Len(rs) + 1 BY <2>3, <2>5
  <2> QED BY <1>0, <2>4, <2>5, <2>6
<1>4. files'[l].recs = rs \/ (pc[p] = "append" /\ files'[l].recs = Append(rs, r))
  <2>1. CASE files' = files BY <2>1
  <2>2. CASE files' = [files EXCEPT ![cmd[p].log] = Torn(@)] BY <2>2 DEF Torn, TypeOK
  <2>3. CASE pc[p] = "append" /\ files' = [files EXCEPT ![cmd[p].log] = Written(@, r)]
    BY <2>3 DEF Written, TypeOK
  <2> QED BY <1>1, <2>1, <2>2, <2>3 DEF FilesStep
<1> QED BY <1>2, <1>3, <1>4

\* An unbroken chain of records, each validated against the contents that its link
\* names, is a history: the contents named are the records before.
LEMMA MeantIsHistory ==
  ASSUME NEW rs \in Seq(Record), Chained(rs), \A i \in 1..Len(rs) : Meant(rs[i])
  PROVE  ValidLog(Entries(rs))
<1>1. Len(rs) \in Nat OBVIOUS
<1>2. /\ Entries(rs) \in Seq(Entry) /\ Len(Entries(rs)) = Len(rs)
      /\ \A j \in 1..Len(rs) : Entries(rs)[j] = rs[j].entry
  BY EntriesOfRecords
<1>3. \A k \in 0..Len(rs) : /\ HashAt(rs, k) \in Digest
                            /\ Len(HashAt(rs, k)) = k
                            /\ \A j \in 1..k : HashAt(rs, k)[j].entry = rs[j].entry
  <2>1. Len(rs) \in 0..Len(rs) BY <1>1
  <2> QED BY <2>1, HashOfChain DEF Chained
<1>4. ASSUME NEW i \in 1..Len(rs) PROVE Follows(Entries(rs), i-1, rs[i].entry)
  <2> DEFINE d == HashAt(rs, i-1)
  <2>1. i - 1 \in 0..Len(rs) /\ i - 1 \in Nat BY <1>1
  <2>2. d \in Digest /\ Len(d) = i - 1 /\ \A j \in 1..(i-1) : d[j].entry = rs[j].entry
    BY <1>3, <2>1
  <2>3. rs[i].prev = d BY DEF Chained
  <2>4. Follows(Said(d), i - 1, rs[i].entry) BY <2>2, <2>3 DEF Meant
  <2> HIDE DEF d
  <2>5. \A j \in 1..(i-1) : Said(d)[j] = Entries(rs)[j]
    <3>1. \A j \in 1..(i-1) : Said(d)[j] = d[j].entry BY <2>2, SaidType
    <3>2. \A j \in 1..(i-1) : j \in 1..Len(rs) BY <1>1
    <3> QED BY <1>2, <2>2, <3>1, <3>2
  <2> QED BY <2>1, <2>4, <2>5, FollowsPrefix
<1> QED BY <1>2, <1>4 DEF ValidLog

------------------------------------------------------------------------------
(* As long as nothing was removed that somebody has open *)

LEMMA SelfRuns ==
  ASSUME TypeOK, NEW p \in Procs, ProcInv(p), Runs(p) PROVE ProcInv(p)'
BY SelfNextLine, SelfExit, SelfAsk, SelfRead, SelfScan, SelfEndScan, SelfReplay,
   SelfEndReplay, SelfApply, SelfAppendEntry
DEF Runs, EndOfFile, Answer, Crash

\* A step of GalleryLog that preserves the invariant of the process that takes it.
LEMMA UnmetStep ==
  ASSUME TypeOK, Unmet, NEW p \in Procs, Step(p) \/ Crash(p), ProcInv(p)',
         \A q \in Procs : Named(q)'
  PROVE  Unmet'
<1>1. ASSUME NEW q \in Procs PROVE ProcInv(q)'
  <2>1. CASE q = p BY <2>1
  <2>2. CASE q # p
    <3>1. Untouched(q) BY <2>2, OthersUntouched
    <3>2. FilesStep(p) BY FilesChange
    <3>3. held[q] # NoLog => files'[held[q]] = files[held[q]]
      BY <2>2, <3>2, OtherHolds DEF Unmet
    <3> QED BY <3>1, <3>3, Frame DEF Unmet
  <2> QED BY <2>1, <2>2
<1>2. Exclusive' BY KeepsExclusive DEF Unmet
<1>3. LogReplays' BY KeepsLogReplays DEF Unmet
<1> QED BY <1>1, <1>2, <1>3 DEF Unmet

LEMMA UnmetRuns ==
  ASSUME TypeOK, TypeOKR, Unmet, NEW p \in Procs, Sits(p), Handle(p), Runs(p), Closing(p)
  PROVE  Unmet'
<1>1. Step(p) \/ Crash(p) BY RunsIsStep
<1>2. ProcInv(p)' BY SelfRuns DEF Unmet
<1>3. ASSUME NEW q \in Procs PROVE Named(q)'
  <2>1. /\ fd' = [fd EXCEPT ![p] = IF held'[p] = NoLog THEN 0 ELSE @]
        /\ UNCHANGED <<there, made>>
    BY DEF Closing
  <2>2. Named(q) BY DEF Unmet
  <2>3. CASE q # p
    <3>1. cmd'[q] = cmd[q] BY <1>1, <2>3, OthersUntouched DEF Untouched
    <3> QED BY <2>1, <2>2, <2>3, <3>1 DEF Named, TypeOKR
  <2>4. CASE q = p
    <3>1. CASE held'[p] = NoLog BY <2>1, <2>4, <3>1 DEF Named, TypeOKR
    <3>2. CASE held'[p] # NoLog
      <4>1. held'[p] = held[p] /\ held[p] = cmd[p].log /\ fd'[p] = fd[p]
        BY <2>1, <3>2, RunsHeld DEF Handle, TypeOKR
      <4>2. Handle(p)' BY RunsHandle
      <4>3. held'[p] = cmd'[p].log BY <3>2, <4>2 DEF Handle
      <4> QED BY <2>1, <2>2, <2>4, <4>1, <4>3 DEF Named
    <3> QED BY <3>1, <3>2
  <2> QED BY <2>3, <2>4
<1> QED BY <1>1, <1>2, <1>3, UnmetStep DEF Unmet

\* Two lock files that are open for one log are the same, so the lock is free.
LEMMA FlockIsLock ==
  ASSUME Unmet, NEW p \in Procs, \A q \in Procs : Handle(q), Flock(p) PROVE Lock(p)
<1>1. ASSUME NEW q \in Procs \ {p}, held[q] = cmd[p].log PROVE p \in Readers /\ q \in Readers
  <2>1. fd[p] # 0 /\ FreeFile(p, cmd[p].log) BY DEF Flock
  <2>2. fd[p] = made[cmd[p].log] /\ Handle(p) BY <2>1 DEF Unmet, Named
  <2>3. cmd[p].log \in Logs BY <2>1, <2>2, CommandType DEF Handle
  <2>4. held[q] # NoLog BY <1>1, <2>3, NullsAssumption
  <2>5. Handle(q) /\ Named(q) BY DEF Unmet
  <2>6. fd[q] = made[cmd[p].log] BY <1>1, <2>4, <2>5 DEF Handle, Named
  <2> QED BY <1>1, <2>1, <2>2, <2>6 DEF FreeFile
<1>2. Free(p, cmd[p].log) BY <1>1 DEF Free
<1> QED BY <1>2 DEF Flock, Lock

LEMMA UnmetFlock ==
  ASSUME TypeOK, Unmet, NEW p \in Procs, \A q \in Procs : Handle(q), Flock(p)
  PROVE  Unmet'
<1>1. Lock(p) BY FlockIsLock
<1>2. Step(p) \/ Crash(p) BY <1>1 DEF Step, Work
<1>3. ProcInv(p)' BY <1>1, SelfLock DEF Unmet
<1>4. \A q \in Procs : Named(q)' BY DEF Flock, resetVars, Unmet, Named
<1> QED BY <1>2, <1>3, <1>4, UnmetStep DEF Unmet

\* What is said of the processes and of the files does not mention the lock files.
LEMMA SameFiles ==
  ASSUME UNCHANGED vars
  PROVE  /\ TypeOK => TypeOK'
         /\ \A q \in Procs : Sits(q) => Sits(q)'
         /\ MeantAll => MeantAll'
         /\ \A q \in Procs : ProcInv(q) => ProcInv(q)'
         /\ Exclusive => Exclusive'
         /\ LogReplays => LogReplays'
<1> USE DEF vars, shared
<1>1. TypeOK => TypeOK' BY DEF TypeOK
<1>2. \A q \in Procs : Sits(q) => Sits(q)' BY SitsStill DEF Untouched
<1>3. MeantAll => MeantAll' BY DEF MeantAll, Meant
<1>4. \A q \in Procs : ProcInv(q) => ProcInv(q)'
  BY DEF ProcInv, Holding, Working, Fresh, Loading, Loaded, Coherent, Ahead
<1>5. Exclusive => Exclusive' BY DEF Exclusive
<1>6. LogReplays => LogReplays' BY DEF LogReplays
<1> QED BY <1>1, <1>2, <1>3, <1>4, <1>5, <1>6

LEMMA UnmetOpen ==
  ASSUME TypeOK, TypeOKR, Unmet, NEW p \in Procs, Sits(p), \A q \in Procs : Handle(q),
         OpenLock(p)
  PROVE  Unmet'
<1> DEFINE l == cmd[p].log
<1>1. /\ pc[p] = "lock"
      /\ there' = [there EXCEPT ![l] = TRUE]
      /\ made' = [made EXCEPT ![l] = IF there[l] THEN @ ELSE @ + 1]
      /\ fd' = [fd EXCEPT ![p] = made'[l]]
      /\ UNCHANGED vars
  BY DEF OpenLock
<1>2. l \in Logs BY <1>1, CommandType DEF Sits, Working
<1>3. ASSUME NEW q \in Procs PROVE Named(q)'
  <2>1. cmd'[q] = cmd[q] BY <1>1 DEF vars
  <2>2. Named(q) /\ Handle(q) BY DEF Unmet
  <2>3. CASE q = p
    <3>1. there'[l] /\ fd'[p] = made'[l] BY <1>1, <1>2 DEF TypeOKR
    <3> QED BY <2>1, <2>3, <3>1 DEF Named
  <2>4. CASE q # p
    <3>1. fd'[q] = fd[q] BY <1>1, <2>4 DEF TypeOKR
    <3> SUFFICES ASSUME fd[q] # 0
                 PROVE  there'[cmd[q].log] /\ fd[q] = made'[cmd[q].log]
      BY <2>1, <3>1 DEF Named
    <3>2. there[cmd[q].log] /\ fd[q] = made[cmd[q].log] /\ cmd[q].log \in Logs
      BY <2>2, CommandType DEF Named, Handle
    <3> QED BY <1>1, <3>2 DEF TypeOKR
  <2> QED BY <2>3, <2>4
<1> QED BY <1>1, <1>3, SameFiles DEF Unmet

------------------------------------------------------------------------------
(* reset.sh *)

LEMMA RemoveFiles ==
  ASSUME TypeOK, TypeOKR, NEW f \in todo, Remove(f)
  PROVE  /\ f[1] \in Logs
         /\ \A l \in Logs : files'[l] = files[l] \/ (l = f[1] /\ files'[l] = NoFile)
         /\ files' \in [Logs -> File]
         /\ \A l \in Logs : l # f[1] => there'[l] = there[l]
         /\ there' \in [Logs -> BOOLEAN]
<1>1. f \in Logs \X {"log", "lock"} BY DEF TypeOKR
<1>2. f[1] \in Logs BY <1>1
<1>3. CASE f[2] = "log"
  <2>1. files' = [files EXCEPT ![f[1]] = NoFile] /\ there' = there BY <1>3 DEF Remove
  <2> QED BY <1>2, <2>1, InitialType DEF TypeOK, TypeOKR
<1>4. CASE f[2] # "log"
  <2>1. there' = [there EXCEPT ![f[1]] = FALSE] /\ files' = files BY <1>4 DEF Remove
  <2> QED BY <1>2, <2>1 DEF TypeOK, TypeOKR
<1> QED BY <1>3, <1>4

LEMMA RemoveTypes ==
  ASSUME TypeOK, TypeOKR, NEW f \in todo, Remove(f) PROVE TypeOK' /\ TypeOKR'
<1>1. files' \in [Logs -> File] /\ there' \in [Logs -> BOOLEAN] BY RemoveFiles
<1>2. TypeOK' BY <1>1 DEF Remove, TypeOK
<1>3. met' \in BOOLEAN BY DEF Remove, TypeOKR
<1>4. todo' \subseteq Logs \X {"log", "lock"} BY DEF Remove, TypeOKR
<1>5. UNCHANGED <<made, fd, reset, held>> BY DEF Remove
<1>6. TypeOKR' BY <1>1, <1>3, <1>4, <1>5 DEF TypeOKR
<1> QED BY <1>2, <1>6

LEMMA RemoveUntouched ==
  ASSUME NEW f \in todo, Remove(f), NEW q \in Procs PROVE Untouched(q)
BY DEF Remove, Untouched

LEMMA RemoveMeant ==
  ASSUME TypeOK, TypeOKR, MeantAll, NEW f \in todo, Remove(f) PROVE MeantAll'
<1>1. Len(NoFile.recs) = 0 BY DEF NoFile
<1>2. ASSUME NEW l \in Logs, NEW i \in 1..Len(files'[l].recs) PROVE Meant(files'[l].recs[i])
  <2>1. files'[l] = files[l] BY <1>1, RemoveFiles
  <2> QED BY <2>1 DEF MeantAll
<1> QED BY <1>2 DEF MeantAll, Meant

LEMMA UnmetRemove ==
  ASSUME TypeOK, TypeOKR, Unmet, \A q \in Procs : Handle(q), NEW f \in todo, Remove(f), ~met'
  PROVE  Unmet'
<1>1. /\ f[1] \in Logs
      /\ \A l \in Logs : files'[l] = files[l] \/ (l = f[1] /\ files'[l] = NoFile)
      /\ \A l \in Logs : l # f[1] => there'[l] = there[l]
  BY RemoveFiles
<1>2. \A q \in Procs : fd[q] = 0 \/ cmd[q].log # f[1] BY DEF Remove
<1>3. UNCHANGED <<fd, made, cmd, held>> BY DEF Remove
<1>4. ASSUME NEW q \in Procs PROVE ProcInv(q)'
  <2>1. held[q] # NoLog => files'[held[q]] = files[held[q]]
    <3>1. held[q] # NoLog => fd[q] # 0 /\ held[q] = cmd[q].log BY DEF Handle
    <3>2. held[q] # NoLog => held[q] \in Logs BY DEF TypeOK
    <3> QED BY <1>1, <1>2, <3>1, <3>2
  <2>2. Untouched(q) BY RemoveUntouched
  <2> QED BY <2>1, <2>2, Frame DEF Unmet
<1>5. ASSUME NEW q \in Procs PROVE Named(q)'
  <2>1. Named(q) /\ Handle(q) BY DEF Unmet
  <2>2. fd[q] # 0 => cmd[q].log \in Logs BY <2>1, CommandType DEF Handle
  <2> QED BY <1>1, <1>2, <1>3, <2>1, <2>2 DEF Named
<1>6. Exclusive' BY <1>3 DEF Exclusive, Unmet
<1>7. LogReplays'
  <2>1. Chained(NoFile.recs) /\ OneKey(NoFile.recs) /\ ValidLog(Entries(NoFile.recs))
    <3>1. NoFile.recs = << >> /\ Len(<< >>) = 0 /\ Len(Entries(<< >>)) = 0
      BY DEF NoFile, Entries
    <3> QED BY <3>1 DEF Chained, OneKey, ValidLog
  <2>2. ASSUME NEW l \in Logs
        PROVE  /\ Chained(files'[l].recs) /\ OneKey(files'[l].recs)
               /\ ValidLog(Entries(files'[l].recs))
    <3>1. CASE files'[l] = files[l] BY <3>1 DEF Unmet, LogReplays
    <3>2. CASE files'[l] = NoFile BY <2>1, <3>2
    <3> QED BY <1>1, <3>1, <3>2
  <2> QED BY <2>2 DEF LogReplays
<1> QED BY <1>4, <1>5, <1>6, <1>7 DEF Unmet

------------------------------------------------------------------------------
(* The invariant holds *)

LEMMA InitRInv == InitR => RInv
<1> SUFFICES ASSUME InitR PROVE RInv OBVIOUS
<1>1. Init BY DEF InitR
<1>2. IInv BY <1>1, InitIInv
<1>3. TypeOK /\ Exclusive /\ LogReplays /\ \A p \in Procs : ProcInv(p) BY <1>2 DEF IInv
<1>4. TypeOKR BY <1>1 DEF InitR, Init, TypeOKR
<1>5. ASSUME NEW p \in Procs PROVE Sits(p) /\ Handle(p) /\ Named(p)
  <2>1. /\ pc[p] = "next" /\ cache[p] = NoCache /\ held[p] = NoLog /\ fd[p] = 0
    BY <1>1 DEF InitR, Init
  <2>2. GoesBy(p) BY <2>1 DEF GoesBy
  <2>3. Holding(p) /\ Working(p) /\ Fresh(p) BY <1>3 DEF ProcInv
  <2> QED BY <2>1, <2>2, <2>3 DEF Sits, Handle, Named
<1>6. MeantAll BY <1>1 DEF Init, NoFile, MeantAll
<1>7. Unmet BY <1>3, <1>5 DEF Unmet
<1> QED BY <1>3, <1>4, <1>5, <1>6, <1>7 DEF RInv, MeantAll

LEMMA RunsRInv ==
  ASSUME RInv, NEW p \in Procs, Runs(p), Closing(p) PROVE RInv'
<1>1. TypeOK /\ TypeOKR /\ MeantAll /\ \A q \in Procs : Sits(q) /\ Handle(q)
  BY DEF RInv, MeantAll
<1>2. TypeOK' BY <1>1, RunsTypes
<1>3. Step(p) \/ Crash(p) BY RunsIsStep
<1>4. /\ fd' = [fd EXCEPT ![p] = IF held'[p] = NoLog THEN 0 ELSE @]
      /\ UNCHANGED <<there, made, reset, todo, met>>
  BY DEF Closing
<1>5. ASSUME NEW q \in Procs PROVE Sits(q)' /\ Handle(q)'
  <2>1. CASE q = p BY <1>1, <2>1, SitsRuns, RunsHandle
  <2>2. CASE q # p
    <3>1. Untouched(q) BY <1>1, <1>3, <2>2, OthersUntouched
    <3>2. fd'[q] = fd[q] BY <1>1, <1>4, <2>2 DEF TypeOKR
    <3> QED BY <1>1, <1>4, <3>1, <3>2, SitsStill, HandleStill
  <2> QED BY <2>1, <2>2
<1>6. TypeOKR'
  <2>1. fd' \in [Procs -> Nat] BY <1>1, <1>4 DEF TypeOKR
  <2>2. \A q \in Procs : held'[q] # NoLog => fd'[q] \in 1..made'[held'[q]]
    BY <1>5 DEF Handle
  <2> QED BY <1>1, <1>4, <2>1, <2>2 DEF TypeOKR
<1>7. MeantAll' BY <1>1, RunsMeant
<1>8. ~met' => Unmet'
  <2>1. ~met => Unmet BY DEF RInv
  <2> QED BY <1>1, <1>4, <2>1, UnmetRuns
<1> QED BY <1>2, <1>5, <1>6, <1>7, <1>8 DEF RInv, MeantAll

LEMMA FlockRInv == ASSUME RInv, NEW p \in Procs, Flock(p) PROVE RInv'
<1>1. TypeOK /\ TypeOKR /\ MeantAll /\ \A q \in Procs : Sits(q) /\ Handle(q)
  BY DEF RInv, MeantAll
<1>2. TypeOK' BY <1>1, FlockTypes
<1>3. UNCHANGED <<files, there, made, fd, reset, todo, met>> BY DEF Flock, shared, resetVars
<1>4. ASSUME NEW q \in Procs PROVE Sits(q)' /\ Handle(q)'
  <2>1. CASE q = p BY <1>1, <2>1, SitsFlock, FlockHandle
  <2>2. CASE q # p
    <3>1. Untouched(q) BY <1>1, <2>2, FlockUntouched
    <3> QED BY <1>1, <1>3, <3>1, SitsStill, HandleStill
  <2> QED BY <2>1, <2>2
<1>5. TypeOKR'
  <2>1. \A q \in Procs : held'[q] # NoLog => fd'[q] \in 1..made'[held'[q]]
    BY <1>4 DEF Handle
  <2> QED BY <1>1, <1>3, <2>1 DEF TypeOKR
<1>6. MeantAll' BY <1>1, <1>3 DEF MeantAll, Meant
<1>7. ~met' => Unmet'
  <2>1. ~met => Unmet BY DEF RInv
  <2> QED BY <1>1, <1>3, <2>1, UnmetFlock
<1> QED BY <1>2, <1>4, <1>5, <1>6, <1>7 DEF RInv, MeantAll

LEMMA OpenRInv == ASSUME RInv, NEW p \in Procs, OpenLock(p) PROVE RInv'
<1> DEFINE l == cmd[p].log
<1>1. TypeOK /\ TypeOKR /\ MeantAll /\ \A q \in Procs : Sits(q) /\ Handle(q)
  BY DEF RInv, MeantAll
<1>2. /\ pc[p] = "lock"
      /\ there' = [there EXCEPT ![l] = TRUE]
      /\ made' = [made EXCEPT ![l] = IF there[l] THEN @ ELSE @ + 1]
      /\ fd' = [fd EXCEPT ![p] = made'[l]]
      /\ UNCHANGED <<vars, reset, todo, met>>
  BY DEF OpenLock
<1>3. l \in Logs BY <1>1, <1>2, CommandType DEF Sits, Working
<1>4. TypeOK' /\ MeantAll' /\ \A q \in Procs : Sits(q)' BY <1>1, <1>2, SameFiles
<1>5. \A q \in Procs : Handle(q)' BY <1>1, OpenHandle
<1>6. TypeOKR'
  <2>1. there' \in [Logs -> BOOLEAN] BY <1>1, <1>2 DEF TypeOKR
  <2>2. made' \in [Logs -> Nat] BY <1>1, <1>2, <1>3 DEF TypeOKR
  <2>3. fd' \in [Procs -> Nat] BY <1>1, <1>2, <1>3, <2>2 DEF TypeOKR
  <2>4. \A q \in Procs : held'[q] # NoLog => fd'[q] \in 1..made'[held'[q]]
    BY <1>5 DEF Handle
  <2> QED BY <1>1, <1>2, <2>1, <2>2, <2>3, <2>4 DEF TypeOKR
<1>7. ~met' => Unmet'
  <2>1. ~met => Unmet BY DEF RInv
  <2> QED BY <1>1, <1>2, <2>1, UnmetOpen
<1> QED BY <1>4, <1>5, <1>6, <1>7 DEF RInv, MeantAll

LEMMA ResetRInv == ASSUME RInv, Reset PROVE RInv'
<1>1. TypeOK /\ TypeOKR /\ MeantAll /\ \A q \in Procs : Sits(q) /\ Handle(q)
  BY DEF RInv, MeantAll
<1>2. ~met => Unmet BY DEF RInv
<1>3. CASE ResetStart
  <2>1. UNCHANGED <<vars, there, made, fd, met>> /\ reset' = TRUE BY <1>3 DEF ResetStart
  <2>2. todo' \subseteq Logs \X {"log", "lock"}
    BY <1>3, InLogsDirAssumption DEF ResetStart
  <2>3. TypeOK' /\ MeantAll' /\ \A q \in Procs : Sits(q)' BY <1>1, <2>1, SameFiles
  <2>4. \A q \in Procs : Handle(q)' BY <1>1, <2>1 DEF Handle, vars
  <2>5. TypeOKR' BY <1>1, <2>1, <2>2 DEF TypeOKR, vars
  <2>6. ~met' => Unmet'
    <3>1. \A q \in Procs : Named(q) => Named(q)' BY <2>1 DEF Named, vars
    <3> QED BY <1>2, <2>1, <3>1, SameFiles DEF Unmet
  <2> QED BY <2>3, <2>4, <2>5, <2>6 DEF RInv, MeantAll
<1>4. ASSUME NEW f \in todo, Remove(f) PROVE RInv'
  <2>1. TypeOK' /\ TypeOKR' BY <1>1, <1>4, RemoveTypes
  <2>2. \A q \in Procs : Untouched(q) BY <1>4, RemoveUntouched
  <2>3. UNCHANGED <<fd, made>> /\ (met => met') BY <1>4 DEF Remove
  <2>4. \A q \in Procs : Sits(q)' /\ Handle(q)'
    BY <1>1, <2>2, <2>3, SitsStill, HandleStill
  <2>5. MeantAll' BY <1>1, <1>4, RemoveMeant
  <2>6. ~met' => Unmet' BY <1>1, <1>2, <1>4, <2>3, UnmetRemove
  <2> QED BY <2>1, <2>4, <2>5, <2>6 DEF RInv, MeantAll
<1> QED BY <1>3, <1>4 DEF Reset

LEMMA NextRInv == RInv /\ [NextR]_allVars => RInv'
<1> SUFFICES ASSUME RInv, [NextR]_allVars PROVE RInv' OBVIOUS
<1>1. CASE UNCHANGED allVars
  <2>1. UNCHANGED <<vars, there, made, fd, reset, todo, met>>
    BY <1>1 DEF allVars, resetVars
  <2>2. TypeOK' /\ MeantAll' /\ \A q \in Procs : Sits(q)'
    BY <2>1, SameFiles DEF RInv, MeantAll
  <2>3. TypeOKR' /\ \A q \in Procs : Handle(q)' BY <2>1 DEF RInv, TypeOKR, Handle, vars
  <2>4. ~met' => Unmet'
    <3>1. \A q \in Procs : Named(q) => Named(q)' BY <2>1 DEF Named, vars
    <3> QED BY <2>1, <3>1, SameFiles DEF RInv, Unmet
  <2> QED BY <2>2, <2>3, <2>4 DEF RInv, MeantAll
<1>2. CASE Reset BY <1>2, ResetRInv
<1>3. ASSUME NEW p \in Procs, StepR(p) PROVE RInv'
  BY <1>3, StepsOfR, RunsRInv, FlockRInv, OpenRInv
<1> QED BY <1>1, <1>2, <1>3 DEF NextR

LEMMA InvarianceR == SpecR => []RInv
BY InitRInv, NextRInv, PTL DEF SpecR

------------------------------------------------------------------------------
(* The properties *)

\* The lock files' bookkeeping is well typed: whoever holds a lock has a file open
\* that was created for that log.
THEOREM ResetTypeCorrect == SpecR => []TypeOKR
<1>1. RInv => TypeOKR BY DEF RInv
<1> QED BY <1>1, InvarianceR, PTL

\* Whatever is removed when, what load_log accepts is a history of the gallery.
THEOREM ResetReadableIsHistory == SpecR => []ReadableIsHistory
<1>1. RInv => ReadableIsHistory
  <2> SUFFICES ASSUME RInv, NEW l \in Logs, Chained(files[l].recs)
               PROVE  ValidLog(Entries(files[l].recs))
    BY DEF ReadableIsHistory
  <2>1. files[l].recs \in Seq(Record) BY DEF RInv, TypeOK, File
  <2>2. \A i \in 1..Len(files[l].recs) : Meant(files[l].recs[i]) BY DEF RInv
  <2> QED BY <2>1, <2>2, MeantIsHistory
<1> QED BY <1>1, InvarianceR, PTL

\* A reset that removes nothing of a log whose lock file somebody has open leaves
\* the promises of the locks intact.
THEOREM ResetClean == SpecR => []CleanReset
<1>1. RInv => CleanReset
  <2> SUFFICES ASSUME RInv, ~met PROVE LogReplays /\ SnapshotCurrent BY DEF CleanReset
  <2>1. Unmet BY DEF RInv
  <2>2. SnapshotCurrent BY <2>1, SnapshotStep DEF Unmet
  <2> QED BY <2>1, <2>2 DEF Unmet
<1> QED BY <1>1, InvarianceR, PTL
===============================================================================
