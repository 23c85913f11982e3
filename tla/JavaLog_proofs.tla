---------------------------- MODULE JavaLog_proofs ----------------------------
(* Proofs about JavaLog, for any processes, logs, tokens, commands and bounds. *)
(* Nothing excludes anybody here. The invariant says what a file can look like *)
(* while its founder is between Files.exists() and the close, that what a      *)
(* process loaded is still the beginning of the file it goes on to append to,  *)
(* and that a record which links to its predecessor may follow it.             *)
EXTENDS JavaLog, Gallery_proofs, SequenceTheorems

------------------------------------------------------------------------------
(* The recursive function StateAfter computes what the entries stand for.      *)

\* g is the run of the state machine over the first n entries.
RunOf(g, es, n) == /\ g \in [0..n -> GalleryState]
                   /\ g[0] = EmptyState
                   /\ \A i \in 1..n : g[i] = Applied(g[i-1], es[i])

LEMMA RunExists ==
  ASSUME NEW es \in Seq(Entry)
  PROVE  \E g : RunOf(g, es, Len(es))
<1> DEFINE S == {n \in Nat : n <= Len(es) => \E g : RunOf(g, es, n)}
<1>0. Len(es) \in Nat OBVIOUS
<1>1. 0 \in S
  <2>1. RunOf([i \in 0..0 |-> EmptyState], es, 0) BY EmptyStateType DEF RunOf
  <2> QED BY <2>1
<1>2. ASSUME NEW n \in Nat, n \in S, n + 1 <= Len(es) PROVE \E g : RunOf(g, es, n+1)
  <2>1. PICK g : RunOf(g, es, n) BY <1>0, <1>2
  <2> DEFINE h == [i \in 0..(n+1) |-> IF i = n+1 THEN Applied(g[n], es[n+1]) ELSE g[i]]
  <2>2. es[n+1] \in Entry BY <1>0, <1>2
  <2>3. g[n] \in GalleryState BY <2>1 DEF RunOf
  <2>4. Applied(g[n], es[n+1]) \in GalleryState BY <2>2, <2>3, AppliedType
  <2>5. h \in [0..(n+1) -> GalleryState] BY <2>1, <2>4 DEF RunOf
  <2>6. h[0] = EmptyState BY <2>1 DEF RunOf
  <2>7. ASSUME NEW i \in 1..(n+1) PROVE h[i] = Applied(h[i-1], es[i])
    <3>1. i - 1 \in 0..n /\ h[i-1] = g[i-1] OBVIOUS
    <3>2. CASE i = n + 1 BY <3>1, <3>2
    <3>3. CASE i # n + 1
      <4>1. i \in 1..n /\ h[i] = g[i] BY <3>3
      <4>2. g[i] = Applied(g[i-1], es[i]) BY <2>1, <4>1 DEF RunOf
      <4> QED BY <3>1, <4>1, <4>2
    <3> QED BY <3>2, <3>3
  <2> HIDE DEF h
  <2> QED BY <2>5, <2>6, <2>7 DEF RunOf
<1>3. \A n \in Nat : n \in S => n + 1 \in S BY <1>2
<1> HIDE DEF S
<1>4. Nat \subseteq S BY <1>1, <1>3, NatSetInduction
<1> QED BY <1>0, <1>4 DEF S

LEMMA StateAfterRun ==
  ASSUME NEW es \in Seq(Entry) PROVE RunOf(StateAfter(es), es, Len(es))
<1> DEFINE body(g) == [i \in 0..Len(es) |-> IF i = 0 THEN EmptyState ELSE Applied(g[i-1], es[i])]
<1>1. PICK g : RunOf(g, es, Len(es)) BY RunExists
<1>2. g = body(g)
  <2>1. \A i \in 0..Len(es) : g[i] = body(g)[i] BY <1>1 DEF RunOf
  <2> QED BY <1>1, <2>1 DEF RunOf
<1>3. StateAfter(es) = CHOOSE h : h = body(h) BY DEF StateAfter
<1>4. StateAfter(es) = body(StateAfter(es))
  <2> HIDE DEF body
  <2> QED BY <1>2, <1>3
<1> DEFINE S == {n \in Nat : n <= Len(es) => StateAfter(es)[n] \in GalleryState}
<1>5. 0 \in S BY <1>4, EmptyStateType
<1>6. ASSUME NEW n \in Nat, n \in S, n + 1 <= Len(es)
      PROVE  StateAfter(es)[n+1] \in GalleryState
  <2>1. StateAfter(es)[n+1] = Applied(StateAfter(es)[n], es[n+1]) BY <1>4, <1>6
  <2>2. es[n+1] \in Entry BY <1>6
  <2> QED BY <1>6, <2>1, <2>2, AppliedType
<1>7. Nat \subseteq S
  <2>1. \A n \in Nat : n \in S => n + 1 \in S BY <1>6
  <2> HIDE DEF S
  <2> QED BY <1>5, <2>1, NatSetInduction
<1>8. \A n \in 0..Len(es) : StateAfter(es)[n] \in GalleryState BY <1>7
<1> QED BY <1>4, <1>8 DEF RunOf

\* Each state of the run is what the entries before it say.
LEMMA StateAfterComputes ==
  ASSUME NEW es \in Seq(Entry), NEW m \in 0..Len(es)
  PROVE  StateAfter(es)[m] \in GalleryState /\ Computes(StateAfter(es)[m], es, m)
<1> DEFINE g == StateAfter(es)
           S == {n \in Nat : n <= Len(es) => Computes(g[n], es, n)}
<1>1. RunOf(g, es, Len(es)) BY StateAfterRun
<1>2. 0 \in S BY <1>1, ComputesEmpty DEF RunOf
<1>3. ASSUME NEW n \in Nat, n \in S, n + 1 <= Len(es) PROVE Computes(g[n+1], es, n+1)
  <2>1. g[n] \in GalleryState /\ g[n+1] = Applied(g[n], es[n+1]) BY <1>1, <1>3 DEF RunOf
  <2>2. es[n+1] \in Entry BY <1>3
  <2>3. Computes(g[n], es, n) BY <1>3
  <2> HIDE DEF g
  <2> QED BY <2>1, <2>2, <2>3, ApplyComputes
<1>4. \A n \in Nat : n \in S => n + 1 \in S BY <1>3
<1>5. Nat \subseteq S
  <2> HIDE DEF S
  <2> QED BY <1>2, <1>4, NatSetInduction
<1> QED BY <1>1, <1>5 DEF RunOf

\* validateAndApply decides what may follow, without saying so.
LEMMA MayFollowIff ==
  ASSUME NEW es \in Seq(Entry), NEW e \in Entry
  PROVE  MayFollow(es, e) <=> Follows(es, Len(es), e)
<1>1. Len(es) \in 0..Len(es) /\ Len(es) \in Nat OBVIOUS
<1>2. Computes(StateAfter(es)[Len(es)], es, Len(es)) BY <1>1, StateAfterComputes
<1> QED BY <1>1, <1>2, ApplyIffFollows DEF MayFollow

LEMMA ReplaysIff ==
  ASSUME NEW es \in Seq(Entry) PROVE Replays(es) <=> ValidLog(es)
<1>1. ASSUME NEW i \in 1..Len(es)
      PROVE  CanApply(StateAfter(es)[i-1], es[i]) <=> Follows(es, i-1, es[i])
  <2>1. i - 1 \in 0..Len(es) /\ i - 1 \in Nat /\ es[i] \in Entry OBVIOUS
  <2>2. Computes(StateAfter(es)[i-1], es, i-1) BY <2>1, StateAfterComputes
  <2> QED BY <2>1, <2>2, ApplyIffFollows
<1> QED BY <1>1 DEF Replays, ValidLog

------------------------------------------------------------------------------
(* The inductive invariant *)

\* On a line of the batch file, or on the one command of a single process.
AtWork == {"check", "create", "fill", "load", "append"}
Busy(p) == pc[p] \in AtWork

\* Writers run commands, readers ask queries.
Working(p) ==
  /\ Busy(p) => p \in Writers /\ cmd[p] \in Commands /\ lines[p] > 0
  /\ pc[p] = "next" => p \in Writers
  /\ pc[p] = "read" => p \in Readers /\ cmd[p] \in Queries

\* rs is the beginning of ss.
Begins(rs, ss) == Len(rs) <= Len(ss) /\ \A i \in 1..Len(rs) : ss[i] = rs[i]

\* A file that is being founded is empty, and has one founder.
Founding(p) ==
  pc[p] = "fill" =>
    /\ files[Log(p)] = EmptyFile
    /\ Follows(<< >>, 0, cmd[p].entry)
    /\ \A q \in Writers \ {p} : pc[q] = "fill" => Log(q) # Log(p)

\* What was loaded is still there, though others may have added to it.
Extending(p) ==
  pc[p] = "append" =>
    /\ files[Log(p)].salt # NoSalt
    /\ Begins(loaded[p], files[Log(p)].recs)
    /\ Follows(Entries(loaded[p]), Len(loaded[p]), cmd[p].entry)

Unborn == \A l \in Logs : ~files[l].exists => files[l] = NoFile

\* A line writes one record: no two records of a log have one hash, and a process
\* at work has not used the hash of its line yet.
UsedOnce(rs) ==
  \A i \in 1..Len(rs) :
    /\ rs[i].hash.line <= lines[rs[i].hash.by]
    /\ Busy(rs[i].hash.by) => rs[i].hash.line < lines[rs[i].hash.by]
    /\ \A j \in 1..(i-1) : rs[j].hash # rs[i].hash

\* The hash that record i should link to.
LinkAt(rs, i) == IF i = 1 THEN NoHash ELSE rs[i-1].hash

\* A record at the end of a chain may follow what the chain holds before it.
LinksHold(rs) ==
  \A i \in 1..Len(rs) :
    (\A j \in 1..i : rs[j].prev = LinkAt(rs, j)) => Follows(Entries(rs), i-1, rs[i].entry)

AnswersHold == \A p \in Readers : answer[p] # NoAnswer => ValidLog(answer[p])

IInv == /\ TypeOK
        /\ \A p \in Procs : Working(p)
        /\ Unborn
        /\ \A p \in Writers : Founding(p) /\ Extending(p)
        /\ \A l \in Logs : UsedOnce(files[l].recs) /\ LinksHold(files[l].recs)
        /\ AnswersHold

------------------------------------------------------------------------------
(* Types of the helpers *)

LEMMA CommandType ==
  /\ \A c \in Commands : c.log \in Logs /\ c.token \in Tokens /\ c.entry \in Entry
  /\ \A q \in Queries : q.log \in Logs /\ q.token \in Tokens
BY JCommandsAssumption, JQueriesAssumption

LEMMA EntriesOfRecs ==
  ASSUME NEW rs \in Seq(Rec)
  PROVE  /\ Entries(rs) \in Seq(Entry) /\ Len(Entries(rs)) = Len(rs)
         /\ \A i \in 1..Len(rs) : Entries(rs)[i] = rs[i].entry
<1>1. Len(rs) \in Nat OBVIOUS
<1>2. \A i \in 1..Len(rs) : rs[i] \in Rec OBVIOUS
<1>3. \A i \in 1..Len(rs) : rs[i].entry \in Entry BY <1>2 DEF Rec
<1>4. Entries(rs) \in [1..Len(rs) -> Entry] BY <1>3 DEF Entries
<1>5. Entries(rs) \in Seq(Entry) /\ Len(Entries(rs)) = Len(rs) BY <1>1, <1>4
<1> QED BY <1>5 DEF Entries

LEMMA FirstRecordType ==
  ASSUME TypeOK, NEW p \in Writers, cmd[p] \in Commands, lines[p] > 0
  PROVE  FirstRec(p) \in Rec
<1>1. lines[p] \in Nat \ {0} BY DEF TypeOK, Procs
<1> QED BY <1>1, CommandType DEF FirstRec, Rec, Key, Hash

LEMMA NewRecType ==
  ASSUME TypeOK, NEW p \in Writers, cmd[p] \in Commands, lines[p] > 0,
         files[Log(p)].salt # NoSalt
  PROVE  NewRec(p) \in Rec
<1>1. lines[p] \in Nat \ {0} BY DEF TypeOK, Procs
<1>2. Log(p) \in Logs BY CommandType DEF Log
<1>3. files[Log(p)].salt \in Writers BY <1>2 DEF TypeOK, File
<1>4. loaded[p] \in Seq(Rec) BY DEF TypeOK
<1>5. (IF loaded[p] = << >> THEN NoHash ELSE loaded[p][Len(loaded[p])].hash) \in Hash \cup {NoHash}
  <2>1. CASE loaded[p] = << >> BY <2>1
  <2>2. CASE loaded[p] # << >>
    <3>1. loaded[p][Len(loaded[p])] \in Rec BY <1>4, <2>2
    <3> QED BY <2>2, <3>1 DEF Rec
  <2> QED BY <2>1, <2>2
<1>6. cmd[p].token \in Tokens /\ cmd[p].entry \in Entry BY CommandType
<1> QED BY <1>1, <1>3, <1>5, <1>6 DEF NewRec, Rec, Key, Hash

LEMMA InitialType == NoFile \in File /\ EmptyFile \in File
BY DEF NoFile, EmptyFile, File

------------------------------------------------------------------------------
(* What a step changes *)

\* A step of one process.
StepOf(p) == (p \in Writers /\ Write(p)) \/ (p \in Readers /\ (Ask(p) \/ Read(p)))

Untouched(q) ==
  /\ pc'[q] = pc[q] /\ cmd'[q] = cmd[q] /\ lines'[q] = lines[q]
  /\ q \in Writers => loaded'[q] = loaded[q]
  /\ q \in Readers => answer'[q] = answer[q]

LEMMA OthersUntouched ==
  ASSUME TypeOK, NEW p \in Procs, StepOf(p), NEW q \in Procs, q # p
  PROVE  Untouched(q)
<1> USE DEF Untouched, TypeOK, GoTo
<1>1. CASE p \in Writers /\ Write(p)
  <2>1. pc'[q] = pc[q]
    BY <1>1 DEF Write, Start, BadLine, NextLine, EndOfFile, Check, Create, CreateRefused, Fill,
                FillFails, Load, LoadRefused, AppendRec, AppendFails, Crash, Refuse, Reported
  <2>2. cmd'[q] = cmd[q]
    BY <1>1 DEF Write, Start, BadLine, NextLine, EndOfFile, Check, Create, CreateRefused, Fill,
                FillFails, Load, LoadRefused, AppendRec, AppendFails, Crash, Refuse, Reported
  <2>3. lines'[q] = lines[q]
    BY <1>1 DEF Write, Start, BadLine, NextLine, EndOfFile, Check, Create, CreateRefused, Fill,
                FillFails, Load, LoadRefused, AppendRec, AppendFails, Crash, Refuse, Reported
  <2>4. q \in Writers => loaded'[q] = loaded[q]
    BY <1>1 DEF Write, Start, BadLine, NextLine, EndOfFile, Check, Create, CreateRefused, Fill,
                FillFails, Load, LoadRefused, AppendRec, AppendFails, Crash, Refuse, Reported
  <2>5. answer' = answer
    BY <1>1 DEF Write, Start, BadLine, NextLine, EndOfFile, Check, Create, CreateRefused, Fill,
                FillFails, Load, LoadRefused, AppendRec, AppendFails, Crash, Refuse, Reported
  <2> QED BY <2>1, <2>2, <2>3, <2>4, <2>5
<1>2. CASE p \in Readers /\ Ask(p) BY <1>2 DEF Ask
<1>3. CASE p \in Readers /\ Read(p)
  <2>1. \/ answer' = answer /\ GoTo(p, "refused")
        \/ answer' = [answer EXCEPT ![p] = Entries(files[Log(p)].recs)] /\ GoTo(p, "done")
    BY <1>3 DEF Read
  <2>2. UNCHANGED <<cmd, lines, loaded>> BY <1>3 DEF Read
  <2> QED BY <2>1, <2>2
<1> QED BY <1>1, <1>2, <1>3 DEF StepOf

\* What a step of p makes of a file f, the one p is on.
Becomes(p, f, g) ==
  \/ /\ pc[p] = "create" /\ pc'[p] = "fill" /\ UNCHANGED <<cmd, lines, loaded, answer, accepted>>
     /\ ~f.exists /\ g = EmptyFile
     /\ Follows(<< >>, 0, cmd[p].entry)
  \/ /\ pc[p] = "fill" /\ Reported(p) /\ UNCHANGED <<cmd, lines, loaded, answer>>
     /\ g = [f EXCEPT !.salt = p, !.recs = << FirstRec(p) >>]
  \/ /\ pc[p] = "fill" /\ ~Busy(p)' /\ UNCHANGED <<cmd, lines, loaded, answer, accepted>>
     /\ \/ g = [f EXCEPT !.salt = p]
        \/ g = [f EXCEPT !.salt = p, !.tail = "fragment"]
        \/ g = [f EXCEPT !.salt = p, !.recs = << FirstRec(p) >>]
  \/ /\ pc[p] = "append" /\ Reported(p) /\ UNCHANGED <<cmd, lines, loaded, answer>>
     /\ g = IF f.tail = "clean" THEN [f EXCEPT !.recs = Append(@, NewRec(p))] ELSE f
  \/ /\ pc[p] = "append" /\ ~Busy(p)' /\ UNCHANGED <<cmd, lines, loaded, answer, accepted>>
     /\ \/ g = [f EXCEPT !.tail = "fragment"]
        \/ f.tail = "clean" /\ g = [f EXCEPT !.recs = Append(@, NewRec(p))]

LEMMA FileChange ==
  ASSUME TypeOK, NEW p \in Procs, Working(p), StepOf(p)
  PROVE  \/ files' = files
         \/ /\ p \in Writers /\ cmd[p] \in Commands /\ lines[p] > 0 /\ Log(p) \in Logs
            /\ files' = [files EXCEPT ![Log(p)] = files'[Log(p)]]
            /\ Becomes(p, files[Log(p)], files'[Log(p)])
<1> DEFINE l == Log(p)
<1>0. SUFFICES ASSUME files' # files, p \in Writers, Write(p), Busy(p), cmd[p] \in Commands,
                      lines[p] > 0, l \in Logs
               PROVE  /\ files' = [files EXCEPT ![l] = files'[l]]
                      /\ Becomes(p, files[l], files'[l])
  <2>1. files' # files => p \in Writers /\ Write(p) BY DEF StepOf, Ask, Read
  <2>2. p \in Writers /\ Write(p) /\ files' # files => Busy(p)
    BY DEF Write, Start, BadLine, NextLine, EndOfFile, Check, Create, CreateRefused, Fill,
           FillFails, Load, LoadRefused, AppendRec, AppendFails, Crash, Refuse, Busy, AtWork
  <2> QED BY <2>1, <2>2, CommandType DEF Working, Log
<1>1. files \in [Logs -> File] /\ p \in Procs /\ DOMAIN pc = Procs
  BY DEF TypeOK, Procs
<1>2. ASSUME NEW g, files' = [files EXCEPT ![l] = g]
      PROVE  files' = [files EXCEPT ![l] = files'[l]] /\ files'[l] = g
  <2>1. files'[l] = g BY <1>0, <1>1, <1>2
  <2> QED BY <1>2, <2>1
<1>3. Create(p) \/ Fill(p) \/ FillFails(p) \/ AppendRec(p) \/ AppendFails(p) \/ Crash(p)
  BY <1>0 DEF Write, Start, BadLine, NextLine, EndOfFile, Check, CreateRefused, Load, LoadRefused,
              Refuse
<1>4. CASE Create(p)
  <2>1. files' = [files EXCEPT ![l] = EmptyFile] BY <1>4 DEF Create, EmptyFile
  <2>2. Follows(<< >>, 0, cmd[p].entry)
    <3>1. cmd[p].entry \in Entry /\ << >> \in Seq(Entry) /\ Len(<< >>) = 0
      BY <1>0, CommandType
    <3> QED BY <1>4, <3>1, MayFollowIff DEF Create
  <2>3. pc[p] = "create" /\ pc'[p] = "fill" /\ UNCHANGED <<cmd, lines, loaded, answer, accepted>>
    BY <1>1, <1>4 DEF Create, GoTo
  <2>4. ~files[l].exists BY <1>4 DEF Create
  <2> QED BY <1>2, <2>1, <2>2, <2>3, <2>4 DEF Becomes
<1>5. CASE Fill(p)
  <2>1. files' = [files EXCEPT ![l] = [@ EXCEPT !.salt = p, !.recs = << FirstRec(p) >>]]
    BY <1>5 DEF Fill, Filled
  <2>2. pc[p] = "fill" /\ Reported(p) /\ UNCHANGED <<cmd, lines, loaded, answer>>
    BY <1>5 DEF Fill
  <2> QED BY <1>2, <2>1, <2>2 DEF Becomes
<1>6. ASSUME NEW f \in PartlyFilled(p), files' = [files EXCEPT ![l] = f], pc[p] = "fill",
             ~Busy(p)', UNCHANGED <<cmd, lines, loaded, answer, accepted>>
      PROVE  /\ files' = [files EXCEPT ![l] = files'[l]]
             /\ Becomes(p, files[l], files'[l])
  <2>1. f # files[l] BY <1>0, <1>1, <1>6
  <2>2. \/ f = [files[l] EXCEPT !.salt = p]
        \/ f = [files[l] EXCEPT !.salt = p, !.tail = "fragment"]
        \/ f = [files[l] EXCEPT !.salt = p, !.recs = << FirstRec(p) >>]
    BY <2>1 DEF PartlyFilled, Filled
  <2> QED BY <1>2, <1>6, <2>2 DEF Becomes
<1>7. ASSUME pc'[p] \in {"next", "done"} PROVE ~Busy(p)'
  BY <1>7 DEF Busy, AtWork
<1>8. CASE FillFails(p)
  <2>1. PICK f \in PartlyFilled(p) : files' = [files EXCEPT ![l] = f] BY <1>8 DEF FillFails
  <2>2. pc'[p] \in {"next", "done"} BY <1>1, <1>8 DEF FillFails, GoTo, NextOrDone
  <2>3. pc[p] = "fill" /\ UNCHANGED <<cmd, lines, loaded, answer, accepted>> BY <1>8 DEF FillFails
  <2> QED BY <1>6, <1>7, <2>1, <2>2, <2>3
<1>9. CASE AppendRec(p)
  <2>1. files' = [files EXCEPT ![l] =
                    IF files[l].tail = "clean" THEN [files[l] EXCEPT !.recs = Append(@, NewRec(p))]
                                               ELSE files[l]]
    BY <1>9 DEF AppendRec, Extended
  <2>2. pc[p] = "append" /\ Reported(p) /\ UNCHANGED <<cmd, lines, loaded, answer>>
    BY <1>9 DEF AppendRec
  <2> QED BY <1>2, <2>1, <2>2 DEF Becomes
<1>10. ASSUME NEW f \in PartlyExtended(p), files' = [files EXCEPT ![l] = f], pc[p] = "append",
              ~Busy(p)', UNCHANGED <<cmd, lines, loaded, answer, accepted>>
       PROVE  /\ files' = [files EXCEPT ![l] = files'[l]]
              /\ Becomes(p, files[l], files'[l])
  <2>1. f # files[l] BY <1>0, <1>1, <1>10
  <2>2. \/ f = [files[l] EXCEPT !.tail = "fragment"]
        \/ files[l].tail = "clean" /\ f = [files[l] EXCEPT !.recs = Append(@, NewRec(p))]
    BY <2>1 DEF PartlyExtended, Extended
  <2> QED BY <1>2, <1>10, <2>2 DEF Becomes
<1>11. CASE AppendFails(p)
  <2>1. PICK f \in PartlyExtended(p) : files' = [files EXCEPT ![l] = f] BY <1>11 DEF AppendFails
  <2>2. pc'[p] \in {"next", "done"} BY <1>1, <1>11 DEF AppendFails, GoTo, NextOrDone
  <2>3. pc[p] = "append" /\ UNCHANGED <<cmd, lines, loaded, answer, accepted>>
    BY <1>11 DEF AppendFails
  <2> QED BY <1>7, <1>10, <2>1, <2>2, <2>3
<1>12. CASE Crash(p)
  <2>1. pc'[p] \in {"next", "done"} BY <1>1, <1>12 DEF Crash, GoTo
  <2>2. UNCHANGED <<cmd, lines, loaded, answer, accepted>> BY <1>12 DEF Crash
  <2>3. \/ pc[p] = "fill" /\ \E f \in PartlyFilled(p) : files' = [files EXCEPT ![l] = f]
        \/ pc[p] = "append" /\ \E f \in PartlyExtended(p) : files' = [files EXCEPT ![l] = f]
    BY <1>0, <1>12 DEF Crash
  <2> QED BY <1>6, <1>7, <1>10, <2>1, <2>2, <2>3
<1> QED BY <1>3, <1>4, <1>5, <1>8, <1>9, <1>11, <1>12

------------------------------------------------------------------------------
(* Files only grow *)

Grows(f, g) == /\ f.exists => g.exists
               /\ f.salt # NoSalt => g.salt = f.salt
               /\ Begins(f.recs, g.recs)
               /\ f.tail # "clean" => g.tail # "clean"

LEMMA BeginsItself == ASSUME NEW rs \in Seq(Rec) PROVE Begins(rs, rs)
BY DEF Begins

LEMMA BeginsOn ==
  ASSUME NEW rs \in Seq(Rec), NEW ss \in Seq(Rec), NEW ts \in Seq(Rec),
         Begins(rs, ss), Begins(ss, ts)
  PROVE  Begins(rs, ts)
BY DEF Begins

LEMMA AppendRecord ==
  ASSUME NEW rs \in Seq(Rec), NEW r \in Rec
  PROVE  /\ Append(rs, r) \in Seq(Rec) /\ Len(Append(rs, r)) = Len(rs) + 1
         /\ \A i \in 1..Len(rs) : Append(rs, r)[i] = rs[i]
         /\ Append(rs, r)[Len(rs) + 1] = r
         /\ Begins(rs, Append(rs, r))
BY DEF Begins

LEMMA GrownFile ==
  ASSUME IInv, NEW p \in Writers, cmd[p] \in Commands, lines[p] > 0, Log(p) \in Logs,
         NEW g, Becomes(p, files[Log(p)], g)
  PROVE  g \in File /\ g.exists /\ Grows(files[Log(p)], g)
<1> DEFINE f == files[Log(p)]
<1>1. TypeOK /\ Founding(p) /\ Extending(p) /\ Unborn BY DEF IInv
<1>2. f \in File /\ f.recs \in Seq(Rec) BY <1>1 DEF TypeOK, File
<1>3. CASE pc[p] = "create"
  <2>1. f = NoFile /\ g = EmptyFile BY <1>1, <1>3 DEF Becomes, Unborn
  <2> QED BY <2>1, InitialType DEF NoFile, EmptyFile, Grows, Begins
<1>4. CASE pc[p] = "fill"
  <2>1. f = EmptyFile BY <1>1, <1>4 DEF Founding
  <2>2. FirstRec(p) \in Rec BY <1>1, FirstRecordType
  <2>3. \/ g = [f EXCEPT !.salt = p, !.recs = << FirstRec(p) >>]
        \/ g = [f EXCEPT !.salt = p]
        \/ g = [f EXCEPT !.salt = p, !.tail = "fragment"]
    BY <1>4 DEF Becomes
  <2>4. g \in File
    <3>1. << FirstRec(p) >> \in Seq(Rec) BY <2>2
    <3>2. CASE g = [f EXCEPT !.salt = p, !.recs = << FirstRec(p) >>]
      BY <1>2, <3>1, <3>2 DEF File
    <3>3. CASE g = [f EXCEPT !.salt = p] BY <1>2, <3>3 DEF File
    <3>4. CASE g = [f EXCEPT !.salt = p, !.tail = "fragment"] BY <1>2, <3>4 DEF File
    <3> QED BY <2>3, <3>2, <3>3, <3>4
  <2>5. g.exists
    <3>1. g.exists = f.exists BY <1>2, <2>3 DEF File
    <3>2. f.exists BY <2>1 DEF EmptyFile
    <3> QED BY <3>1, <3>2
  <2>6. f.salt = NoSalt /\ f.recs = << >> /\ f.tail = "clean" BY <2>1 DEF EmptyFile
  <2> QED BY <2>4, <2>5, <2>6 DEF Grows, Begins
<1>5. CASE pc[p] = "append"
  <2>1. f.salt # NoSalt BY <1>1, <1>5 DEF Extending
  <2>2. f.exists BY <1>1, <2>1 DEF Unborn, NoFile
  <2>3. NewRec(p) \in Rec BY <1>1, <2>1, NewRecType
  <2>4. \/ f.tail = "clean" /\ g = [f EXCEPT !.recs = Append(@, NewRec(p))]
        \/ g = f
        \/ g = [f EXCEPT !.tail = "fragment"]
    BY <1>5 DEF Becomes
  <2>5. Append(f.recs, NewRec(p)) \in Seq(Rec) /\ Begins(f.recs, Append(f.recs, NewRec(p)))
        /\ Begins(f.recs, f.recs)
    BY <1>2, <2>3, AppendRecord, BeginsItself
  <2>6. CASE f.tail = "clean" /\ g = [f EXCEPT !.recs = Append(@, NewRec(p))]
    <3>1. g \in File BY <1>2, <2>5, <2>6 DEF File
    <3>2. g.exists = f.exists /\ g.salt = f.salt /\ g.tail = f.tail
          /\ g.recs = Append(f.recs, NewRec(p))
      BY <1>2, <2>6 DEF File
    <3> QED BY <2>2, <2>5, <3>1, <3>2 DEF Grows
  <2>7. CASE g = f BY <1>2, <2>2, <2>5, <2>7 DEF Grows
  <2>8. CASE g = [f EXCEPT !.tail = "fragment"]
    <3>1. g \in File BY <1>2, <2>8 DEF File
    <3>2. g.exists = f.exists /\ g.salt = f.salt /\ g.tail = "fragment" /\ g.recs = f.recs
      BY <1>2, <2>8 DEF File
    <3> QED BY <2>2, <2>5, <3>1, <3>2 DEF Grows
  <2> QED BY <2>4, <2>6, <2>7, <2>8
<1> QED BY <1>3, <1>4, <1>5 DEF Becomes

LEMMA FilesGrow ==
  ASSUME IInv, NEW p \in Procs, StepOf(p)
  PROVE  /\ files' \in [Logs -> File]
         /\ \A l \in Logs : Grows(files[l], files'[l])
         /\ Unborn'
<1>1. TypeOK /\ Unborn /\ Working(p) BY DEF IInv
<1>2. files \in [Logs -> File] BY <1>1 DEF TypeOK
<1>3. \A l \in Logs : Grows(files[l], files[l])
  <2>1. \A l \in Logs : files[l].recs \in Seq(Rec) BY <1>2 DEF File
  <2> QED BY <2>1, BeginsItself DEF Grows
<1>4. CASE files' = files BY <1>1, <1>2, <1>3, <1>4 DEF Unborn
<1>5. CASE files' # files
  <2>1. /\ p \in Writers /\ cmd[p] \in Commands /\ lines[p] > 0 /\ Log(p) \in Logs
        /\ files' = [files EXCEPT ![Log(p)] = files'[Log(p)]]
        /\ Becomes(p, files[Log(p)], files'[Log(p)])
    BY <1>1, <1>5, FileChange
  <2>2. files'[Log(p)] \in File /\ files'[Log(p)].exists /\ Grows(files[Log(p)], files'[Log(p)])
    BY <2>1, GrownFile
  <2>3. \A l \in Logs \ {Log(p)} : files'[l] = files[l]
    BY <1>2, <2>1
  <2>4. files' \in [Logs -> File]
    BY <1>2, <2>1, <2>2
  <2> QED BY <1>1, <1>3, <2>2, <2>3, <2>4 DEF Unborn
<1> QED BY <1>4, <1>5

------------------------------------------------------------------------------
(* Types *)

LEMMA KeepsTypes ==
  ASSUME IInv, NEW p \in Procs, StepOf(p) PROVE TypeOK' /\ \A q \in Procs : Working(q)'
<1> USE JProcsAssumption
<1>0. TypeOK /\ \A q \in Procs : Working(q) BY DEF IInv
<1>1. files' \in [Logs -> File] BY FilesGrow
<1>2. pc' \in [Procs -> {"idle", "next", "check", "create", "fill", "load", "append",
                         "done", "read", "refused"}]
  BY <1>0 DEF StepOf, Write, Start, BadLine, NextLine, EndOfFile, Check, Create, CreateRefused, Fill,
              FillFails, Load, LoadRefused, AppendRec, AppendFails, Crash, Refuse, Reported, Ask, Read,
              GoTo, NextOrDone, TypeOK
<1>3. cmd' \in [Procs -> Commands \cup Queries \cup {NoCmd}]
  BY <1>0 DEF StepOf, Write, Start, BadLine, NextLine, EndOfFile, Check, Create, CreateRefused, Fill,
              FillFails, Load, LoadRefused, AppendRec, AppendFails, Crash, Refuse, Reported, Ask, Read,
              TypeOK
<1>4. lines' \in [Procs -> Nat] /\ lines'[p] >= lines[p]
  BY <1>0, SMTT(30) DEF StepOf, Write, Start, BadLine, NextLine, EndOfFile, Check, Create, CreateRefused, Fill,
              FillFails, Load, LoadRefused, AppendRec, AppendFails, Crash, Refuse, Reported, Ask, Read,
              TypeOK
<1>5. \A q \in Procs : Working(q)'
  <2>1. ASSUME NEW q \in Procs, q # p PROVE Working(q)'
    BY <1>0, <2>1, OthersUntouched DEF Untouched, Working, Busy, AtWork
  <2>2. Working(p)'
    <3>1. CASE p \in Writers /\ Write(p)
      <4>1. p \notin Readers BY <3>1
      <4>2. CASE NextLine(p)
        BY <1>0, <4>1, <4>2, <3>1 DEF NextLine, GoTo, TypeOK, Working, Busy, AtWork
      <4>3. CASE Check(p)
        BY <1>0, <4>1, <4>3, <3>1 DEF Check, GoTo, TypeOK, Working, Busy, AtWork
      <4>4. CASE Create(p) \/ Load(p)
        BY <1>0, <4>1, <4>4, <3>1 DEF Create, Load, GoTo, TypeOK, Working, Busy, AtWork
      <4>5. CASE ~NextLine(p) /\ ~Check(p) /\ ~Create(p) /\ ~Load(p)
        <5>1. pc'[p] \in {"next", "done"}
          BY <1>0, <3>1, <4>5 DEF Write, Start, BadLine, EndOfFile, CreateRefused, Fill, FillFails,
             LoadRefused, AppendRec, AppendFails, Crash, Refuse, Reported, GoTo, NextOrDone, TypeOK
        <5> QED BY <3>1, <5>1 DEF Working, Busy, AtWork
      <4> QED BY <4>2, <4>3, <4>4, <4>5
    <3>2. CASE p \in Readers /\ Ask(p)
      BY <1>0, <3>2 DEF Ask, GoTo, TypeOK, Working, Busy, AtWork
    <3>3. CASE p \in Readers /\ Read(p)
      <4>1. pc'[p] \in {"done", "refused"} BY <1>0, <3>3 DEF Read, GoTo, TypeOK
      <4> QED BY <4>1 DEF Working, Busy, AtWork
    <3> QED BY <3>1, <3>2, <3>3 DEF StepOf
  <2> QED BY <2>1, <2>2
<1>6. loaded' \in [Writers -> Seq(Rec)]
  <2>1. CASE loaded' = loaded BY <1>0, <2>1 DEF TypeOK
  <2>2. CASE loaded' # loaded
    <3>1. p \in Writers /\ Load(p)
      BY <2>2 DEF StepOf, Write, Start, BadLine, NextLine, EndOfFile, Check, Create, CreateRefused,
         Fill, FillFails, LoadRefused, AppendRec, AppendFails, Crash, Refuse, Ask, Read
    <3>2. cmd[p] \in Commands BY <1>0, <3>1 DEF Load, Working, Busy, AtWork
    <3>3. files[Log(p)].recs \in Seq(Rec) BY <1>0, <3>2, CommandType DEF TypeOK, File, Log
    <3> QED BY <1>0, <3>1, <3>3 DEF Load, TypeOK
  <2> QED BY <2>1, <2>2
<1>7. answer' \in [Readers -> Seq(Entry) \cup {NoAnswer}]
  <2>1. CASE answer' = answer BY <1>0, <2>1 DEF TypeOK
  <2>2. CASE answer' # answer
    <3>1. p \in Readers /\ Read(p)
      BY <2>2 DEF StepOf, Write, Start, BadLine, NextLine, EndOfFile, Check, Create, CreateRefused,
         Fill, FillFails, Load, LoadRefused, AppendRec, AppendFails, Crash, Refuse, Ask
    <3>2. cmd[p] \in Queries BY <1>0, <3>1 DEF Read, Working
    <3>3. Entries(files[Log(p)].recs) \in Seq(Entry)
      BY <1>0, <3>2, CommandType, EntriesOfRecs DEF TypeOK, File, Log
    <3>4. answer' = [answer EXCEPT ![p] = Entries(files[Log(p)].recs)] BY <2>2, <3>1 DEF Read
    <3> QED BY <1>0, <3>3, <3>4 DEF TypeOK
  <2> QED BY <2>1, <2>2
<1>8. accepted' \in [Logs -> Seq(Entry)]
  <2>1. CASE accepted' = accepted BY <1>0, <2>1 DEF TypeOK
  <2>2. CASE accepted' # accepted
    <3>1. p \in Writers /\ (Fill(p) \/ AppendRec(p))
      BY <2>2 DEF StepOf, Write, Start, BadLine, NextLine, EndOfFile, Check, Create, CreateRefused,
         FillFails, Load, LoadRefused, AppendFails, Crash, Refuse, Ask, Read
    <3>2. cmd[p] \in Commands BY <1>0, <3>1 DEF Fill, AppendRec, Working, Busy, AtWork
    <3>3. cmd[p].entry \in Entry /\ Log(p) \in Logs BY <3>2, CommandType DEF Log
    <3>4. accepted' = [accepted EXCEPT ![Log(p)] = Append(@, cmd[p].entry)]
      BY <3>1 DEF Fill, AppendRec, Reported
    <3> QED BY <1>0, <3>3, <3>4 DEF TypeOK
  <2> QED BY <2>1, <2>2
<1>9. disturbed' \subseteq {"overlap", "failure", "crash"}
  BY <1>0 DEF StepOf, Write, Start, BadLine, NextLine, EndOfFile, Check, Create, CreateRefused, Fill,
              FillFails, Load, LoadRefused, AppendRec, AppendFails, Crash, Refuse, Ask, Read,
              TypeOK
<1> QED BY <1>1, <1>2, <1>3, <1>4, <1>5, <1>6, <1>7, <1>8, <1>9 DEF TypeOK

------------------------------------------------------------------------------
(* Founders and appenders *)

LEMMA OnlyCreateFounds ==
  ASSUME TypeOK, NEW p \in Writers, Write(p), pc'[p] = "fill"
  PROVE  Create(p)
BY DEF Write, Start, BadLine, NextLine, EndOfFile, Check, CreateRefused, Fill, FillFails, Load,
       LoadRefused, AppendRec, AppendFails, Crash, Refuse, Reported, GoTo, NextOrDone, TypeOK, Procs

LEMMA OnlyLoadAppends ==
  ASSUME TypeOK, NEW p \in Writers, Write(p), pc'[p] = "append"
  PROVE  Load(p)
BY DEF Write, Start, BadLine, NextLine, EndOfFile, Check, Create, CreateRefused, Fill, FillFails,
       LoadRefused, AppendRec, AppendFails, Crash, Refuse, Reported, GoTo, NextOrDone, TypeOK, Procs

LEMMA KeepsFounding ==
  ASSUME IInv, NEW p \in Procs, StepOf(p), NEW q \in Writers PROVE Founding(q)'
<1>0. TypeOK /\ Unborn /\ (\A r \in Procs : Working(r)) /\ \A r \in Writers : Founding(r) /\ Extending(r)
  BY DEF IInv
<1>1. SUFFICES ASSUME pc'[q] = "fill"
               PROVE  /\ files'[Log(q)'] = EmptyFile
                      /\ Follows(<< >>, 0, cmd'[q].entry)
                      /\ \A r \in Writers \ {q} : pc'[r] = "fill" => Log(r)' # Log(q)'
  BY DEF Founding
<1>2. \A r \in Writers \ {p} : pc'[r] = pc[r] /\ Log(r)' = Log(r) /\ cmd'[r] = cmd[r]
  BY <1>0, OthersUntouched DEF Untouched, Log, Procs
<1>3. p \in Writers /\ pc'[p] = "fill" =>
        /\ Log(p) \in Logs /\ ~files[Log(p)].exists /\ Log(p)' = Log(p)
        /\ files'[Log(p)] = EmptyFile
        /\ Follows(<< >>, 0, cmd'[p].entry)
  <2> SUFFICES ASSUME p \in Writers, pc'[p] = "fill"
               PROVE  /\ Log(p) \in Logs /\ ~files[Log(p)].exists /\ Log(p)' = Log(p)
                      /\ files'[Log(p)] = EmptyFile
                      /\ Follows(<< >>, 0, cmd'[p].entry)
    OBVIOUS
  <2>1. Create(p) BY <1>0, OnlyCreateFounds, JProcsAssumption DEF StepOf
  <2>2. cmd[p] \in Commands BY <1>0, <2>1 DEF Create, Working, Busy, AtWork
  <2>3. Log(p) \in Logs /\ cmd[p].entry \in Entry BY <2>2, CommandType DEF Log
  <2>4. Log(p)' = Log(p) /\ cmd'[p] = cmd[p] BY <2>1 DEF Create, Log
  <2>5. files'[Log(p)] = EmptyFile BY <1>0, <2>1, <2>3 DEF Create, TypeOK
  <2>6. << >> \in Seq(Entry) /\ Len(<< >>) = 0 OBVIOUS
  <2>7. Follows(<< >>, 0, cmd[p].entry) BY <2>1, <2>3, <2>6, MayFollowIff DEF Create
  <2> QED BY <2>1, <2>3, <2>4, <2>5, <2>7 DEF Create
<1>4. CASE q = p
  <2>1. ASSUME NEW r \in Writers \ {q}, pc'[r] = "fill" PROVE Log(r)' # Log(q)'
    <3>1. files[Log(r)] = EmptyFile BY <1>0, <1>2, <1>4, <2>1 DEF Founding
    <3> QED BY <1>1, <1>2, <1>3, <1>4, <2>1, <3>1 DEF EmptyFile
  <2> QED BY <1>1, <1>3, <1>4, <2>1
<1>5. CASE q # p
  <2>1. pc[q] = "fill" /\ files[Log(q)] = EmptyFile /\ Follows(<< >>, 0, cmd[q].entry)
        /\ Log(q)' = Log(q) /\ cmd'[q] = cmd[q]
    BY <1>0, <1>1, <1>2, <1>5 DEF Founding
  <2>2. files'[Log(q)] = files[Log(q)]
    <3>1. SUFFICES ASSUME files' # files PROVE files'[Log(q)] = files[Log(q)] OBVIOUS
    <3>2. /\ p \in Writers /\ Log(p) \in Logs
          /\ files' = [files EXCEPT ![Log(p)] = files'[Log(p)]]
          /\ Becomes(p, files[Log(p)], files'[Log(p)])
      BY <1>0, <3>1, FileChange
    <3>3. Log(p) # Log(q)
      <4>1. CASE pc[p] = "create" BY <2>1, <3>2, <4>1 DEF Becomes, EmptyFile
      <4>2. CASE pc[p] = "fill" BY <1>0, <1>5, <2>1, <3>2, <4>2 DEF Founding
      <4>3. CASE pc[p] = "append" BY <1>0, <2>1, <3>2, <4>3 DEF Extending, EmptyFile
      <4> QED BY <3>2, <4>1, <4>2, <4>3 DEF Becomes
    <3>4. Log(q) \in Logs BY <1>0, <2>1, CommandType DEF Working, Busy, AtWork, Log, Procs
    <3> QED BY <1>0, <3>2, <3>3, <3>4 DEF TypeOK
  <2>3. ASSUME NEW r \in Writers \ {q}, pc'[r] = "fill" PROVE Log(r)' # Log(q)'
    <3>1. CASE r = p BY <1>3, <2>1, <2>3, <3>1 DEF EmptyFile
    <3>2. CASE r # p BY <1>0, <1>2, <2>1, <2>3, <3>2 DEF Founding
    <3> QED BY <3>1, <3>2
  <2> QED BY <2>1, <2>2, <2>3
<1> QED BY <1>4, <1>5

LEMMA KeepsExtending ==
  ASSUME IInv, NEW p \in Procs, StepOf(p), NEW q \in Writers PROVE Extending(q)'
<1>0. TypeOK /\ (\A r \in Procs : Working(r)) /\ Extending(q) BY DEF IInv
<1>1. SUFFICES ASSUME pc'[q] = "append"
               PROVE  /\ files'[Log(q)'].salt # NoSalt
                      /\ Begins(loaded'[q], files'[Log(q)'].recs)
                      /\ Follows(Entries(loaded'[q]), Len(loaded'[q]), cmd'[q].entry)
  BY DEF Extending
<1>2. CASE q = p
  <2>1. Load(p) BY <1>0, <1>1, <1>2, OnlyLoadAppends, JProcsAssumption DEF StepOf
  <2>2. cmd[p] \in Commands BY <1>0, <2>1 DEF Load, Working, Busy, AtWork
  <2>3. Log(p) \in Logs /\ cmd[p].entry \in Entry BY <2>2, CommandType DEF Log
  <2>4. Log(p)' = Log(p) /\ cmd'[p] = cmd[p] /\ files' = files BY <2>1 DEF Load, Log
  <2>5. files[Log(p)].recs \in Seq(Rec) BY <1>0, <2>3 DEF TypeOK, File
  <2>6. loaded'[p] = files[Log(p)].recs BY <1>0, <1>2, <2>1 DEF Load, TypeOK
  <2>7. files[Log(p)].salt # NoSalt BY <2>1 DEF Load, Loads
  <2>8. MayFollow(Entries(files[Log(p)].recs), cmd[p].entry) BY <2>1 DEF Load
  <2>9. Follows(Entries(files[Log(p)].recs), Len(files[Log(p)].recs), cmd[p].entry)
    BY <2>3, <2>5, <2>8, EntriesOfRecs, MayFollowIff
  <2> QED BY <1>2, <2>4, <2>5, <2>6, <2>7, <2>9, BeginsItself
<1>3. CASE q # p
  <2>1. pc[q] = "append" /\ Log(q)' = Log(q) /\ cmd'[q] = cmd[q] /\ loaded'[q] = loaded[q]
    BY <1>0, <1>1, <1>3, OthersUntouched DEF Untouched, Log, Procs
  <2>2. Log(q) \in Logs BY <1>0, <2>1, CommandType DEF Working, Busy, AtWork, Log, Procs
  <2>3. Grows(files[Log(q)], files'[Log(q)]) /\ files' \in [Logs -> File]
    BY <2>2, FilesGrow
  <2>4. loaded[q] \in Seq(Rec) /\ files[Log(q)].recs \in Seq(Rec) /\ files'[Log(q)].recs \in Seq(Rec)
    BY <1>0, <2>2, <2>3 DEF TypeOK, File
  <2> QED BY <1>0, <2>1, <2>3, <2>4, BeginsOn DEF Extending, Grows
<1> QED BY <1>2, <1>3

------------------------------------------------------------------------------
(* Hashes and links *)

\* The record that a step puts behind those of the log.
NextRec(p) == IF pc[p] = "fill" THEN FirstRec(p) ELSE NewRec(p)

\* A log keeps its records, or gets one more, from a process that is then done with
\* its line.
LEMMA RecordsChange ==
  ASSUME IInv, NEW p \in Procs, StepOf(p), NEW l \in Logs
  PROVE  \/ files'[l].recs = files[l].recs
         \/ /\ p \in Writers /\ l = Log(p) /\ cmd[p] \in Commands /\ lines[p] > 0
            /\ Busy(p) /\ ~Busy(p)' /\ lines' = lines
            /\ NextRec(p) \in Rec
            /\ files'[l].recs = Append(files[l].recs, NextRec(p))
            /\ pc[p] \in {"fill", "append"}
            /\ pc[p] = "fill" => files[l].recs = << >>
<1>0. TypeOK /\ Working(p) /\ (p \in Writers => Founding(p) /\ Extending(p)) BY DEF IInv
<1>1. SUFFICES ASSUME files'[l].recs # files[l].recs
               PROVE  /\ p \in Writers /\ l = Log(p) /\ cmd[p] \in Commands /\ lines[p] > 0
                      /\ Busy(p) /\ ~Busy(p)' /\ lines' = lines
                      /\ NextRec(p) \in Rec
                      /\ files'[l].recs = Append(files[l].recs, NextRec(p))
                      /\ pc[p] \in {"fill", "append"}
                      /\ pc[p] = "fill" => files[l].recs = << >>
  OBVIOUS
<1>2. /\ p \in Writers /\ cmd[p] \in Commands /\ lines[p] > 0 /\ Log(p) \in Logs
      /\ files' = [files EXCEPT ![Log(p)] = files'[Log(p)]]
      /\ Becomes(p, files[Log(p)], files'[Log(p)])
  BY <1>0, <1>1, FileChange
<1>3. l = Log(p) BY <1>0, <1>1, <1>2 DEF TypeOK
<1>4. files[l] \in File BY <1>0 DEF TypeOK
<1>5. pc[p] # "create"
  <2>1. pc[p] = "create" => files'[l].recs = << >> /\ files[l].recs = << >>
    BY <1>2, <1>3 DEF Becomes, EmptyFile, NoFile, IInv, Unborn
  <2> QED BY <1>1, <2>1
<1>6. ~Busy(p)'  <=> pc'[p] \notin {"check", "create", "fill", "load", "append"} BY DEF Busy, AtWork
<1>7. Reported(p) => ~Busy(p)'
  BY <1>0, <1>6 DEF Reported, GoTo, NextOrDone, TypeOK
<1>8. CASE pc[p] = "fill"
  <2>1. files[l] = EmptyFile BY <1>0, <1>2, <1>3, <1>8 DEF Founding
  <2>2. FirstRec(p) \in Rec BY <1>0, <1>2, FirstRecordType
  <2>3. files[l].recs = << >> BY <2>1 DEF EmptyFile
  <2>4. \/ files'[l].recs = files[l].recs
        \/ ~Busy(p)' /\ UNCHANGED lines /\ files'[l].recs = << FirstRec(p) >>
    BY <1>2, <1>3, <1>4, <1>7, <1>8 DEF Becomes, File
  <2>5. << FirstRec(p) >> = Append(<< >>, FirstRec(p)) OBVIOUS
  <2> QED BY <1>1, <1>2, <1>3, <1>8, <2>2, <2>3, <2>4, <2>5 DEF NextRec, Busy, AtWork
<1>9. CASE pc[p] = "append"
  <2>1. files[l].salt # NoSalt BY <1>0, <1>2, <1>3, <1>9 DEF Extending
  <2>2. NewRec(p) \in Rec BY <1>0, <1>2, <1>3, <2>1, NewRecType
  <2>3. \/ files'[l].recs = files[l].recs
        \/ ~Busy(p)' /\ UNCHANGED lines /\ files'[l].recs = Append(files[l].recs, NewRec(p))
    BY <1>2, <1>3, <1>4, <1>7, <1>9 DEF Becomes, File
  <2> QED BY <1>1, <1>2, <1>3, <1>9, <2>2, <2>3 DEF NextRec, Busy, AtWork
<1> QED BY <1>2, <1>5, <1>8, <1>9 DEF Becomes

LEMMA LinesAdvance ==
  ASSUME TypeOK, NEW p \in Procs, Working(p), StepOf(p)
  PROVE  /\ lines'[p] >= lines[p]
         /\ Busy(p)' => lines'[p] > lines[p] \/ (Busy(p) /\ lines'[p] = lines[p])
<1>1. CASE p \in Writers /\ Write(p)
  <2>1. CASE NextLine(p) BY <1>1, <2>1 DEF NextLine, TypeOK
  <2>2. CASE Check(p) \/ Create(p) \/ Load(p)
    BY <1>1, <2>2 DEF Check, Create, Load, TypeOK, Busy, AtWork
  <2>3. CASE ~NextLine(p) /\ ~Check(p) /\ ~Create(p) /\ ~Load(p)
    <3>1. pc'[p] \in {"next", "done"}
      BY <1>1, <2>3 DEF Write, Start, BadLine, EndOfFile, CreateRefused, Fill, FillFails,
         LoadRefused, AppendRec, AppendFails, Crash, Refuse, Reported, GoTo, NextOrDone, TypeOK
    <3>2. lines'[p] >= lines[p]
      BY <1>1, <2>3 DEF Write, Start, BadLine, EndOfFile, CreateRefused, Fill, FillFails,
         LoadRefused, AppendRec, AppendFails, Crash, Refuse, TypeOK
    <3> QED BY <3>1, <3>2 DEF Busy, AtWork
  <2> QED BY <2>1, <2>2, <2>3
<1>2. CASE p \in Readers /\ (Ask(p) \/ Read(p))
  <2>1. lines' = lines BY <1>2 DEF Ask, Read
  <2>2. pc'[p] \in {"read", "done", "refused"} BY <1>2 DEF Ask, Read, GoTo, TypeOK
  <2> QED BY <2>1, <2>2 DEF TypeOK, Busy, AtWork
<1> QED BY <1>1, <1>2 DEF StepOf

LEMMA KeepsUsedOnce ==
  ASSUME IInv, NEW p \in Procs, StepOf(p), NEW l \in Logs PROVE UsedOnce(files[l].recs)'
<1> DEFINE rs == files[l].recs
           ss == files'[l].recs
<1>0. TypeOK /\ (\A r \in Procs : Working(r)) /\ UsedOnce(rs) BY DEF IInv
<1>1. rs \in Seq(Rec) BY <1>0 DEF TypeOK, File
<1>2. \A r \in Rec : r.hash.by \in Procs /\ r.hash.line \in Nat BY DEF Rec, Hash, Procs
<1>3. lines \in [Procs -> Nat] /\ lines' \in [Procs -> Nat]
  BY <1>0, KeepsTypes DEF TypeOK
\* The hashes that were used stay used.
<1>4. ASSUME NEW i \in 1..Len(rs)
      PROVE  /\ rs[i].hash.line <= lines'[rs[i].hash.by]
             /\ pc'[rs[i].hash.by] \in AtWork => rs[i].hash.line < lines'[rs[i].hash.by]
  <2> DEFINE b == rs[i].hash.by
  <2>1. rs[i] \in Rec BY <1>1
  <2>2. b \in Procs /\ rs[i].hash.line \in Nat BY <1>2, <2>1
  <2>3. rs[i].hash.line <= lines[b] /\ (pc[b] \in AtWork => rs[i].hash.line < lines[b])
    BY <1>0 DEF UsedOnce, Busy
  <2>4. CASE b = p
    <3>1. /\ lines'[b] >= lines[b]
          /\ pc'[b] \in AtWork => lines'[b] > lines[b] \/ (pc[b] \in AtWork /\ lines'[b] = lines[b])
      BY <1>0, <2>4, LinesAdvance DEF Busy
    <3>2. lines[b] \in Nat /\ lines'[b] \in Nat BY <1>3, <2>2
    <3> QED
      <4> DEFINE n == rs[i].hash.line
      <4>1. n \in Nat /\ n <= lines[b] /\ (pc[b] \in AtWork => n < lines[b]) BY <2>2, <2>3
      <4> HIDE DEF n, b
      <4>2. n <= lines'[b] BY <3>1, <3>2, <4>1
      <4>3. pc'[b] \in AtWork => n < lines'[b] BY <3>1, <3>2, <4>1
      <4> QED BY <4>2, <4>3 DEF n, b
  <2>5. CASE b # p
    <3>1. pc'[b] = pc[b] /\ lines'[b] = lines[b]
      BY <1>0, <2>2, <2>5, OthersUntouched DEF Untouched
    <3> QED BY <2>3, <3>1
  <2> QED BY <2>4, <2>5
<1>5. CASE ss = rs
  <2>1. \A i \in 1..Len(rs) : \A j \in 1..(i-1) : rs[j].hash # rs[i].hash BY <1>0 DEF UsedOnce
  <2> QED BY <1>4, <1>5, <2>1 DEF UsedOnce, Busy
<1>6. CASE ss # rs
  <2> DEFINE r == NextRec(p)
  <2>1. /\ p \in Writers /\ pc[p] \in AtWork /\ pc'[p] \notin AtWork /\ lines' = lines
        /\ r \in Rec /\ ss = Append(rs, r)
    BY <1>6, RecordsChange DEF Busy
  <2>2. /\ Len(ss) = Len(rs) + 1 /\ ss[Len(rs) + 1] = r
        /\ \A i \in 1..Len(rs) : ss[i] = rs[i]
    BY <1>1, <2>1, AppendRecord
  <2>3. r.hash = [by |-> p, line |-> lines[p]] BY DEF NextRec, FirstRec, NewRec
  <2>4. \A j \in 1..Len(rs) : rs[j].hash # r.hash
    <3>1. ASSUME NEW j \in 1..Len(rs), rs[j].hash = r.hash PROVE FALSE
      <4>1. rs[j].hash.by = p /\ rs[j].hash.line = lines[p] BY <2>3, <3>1
      <4>2. pc[rs[j].hash.by] \in AtWork => rs[j].hash.line < lines[rs[j].hash.by]
        BY <1>0 DEF UsedOnce, Busy
      <4> QED BY <1>3, <2>1, <4>1, <4>2
    <3> QED BY <3>1
  <2>5. ASSUME NEW i \in 1..Len(ss)
        PROVE  /\ ss[i].hash.line <= lines'[ss[i].hash.by]
               /\ pc'[ss[i].hash.by] \in AtWork => ss[i].hash.line < lines'[ss[i].hash.by]
               /\ \A j \in 1..(i-1) : ss[j].hash # ss[i].hash
    <3>0. Len(rs) \in Nat BY <1>1
    <3>1. CASE i \in 1..Len(rs)
      <4>1. ss[i] = rs[i] /\ \A j \in 1..(i-1) : ss[j] = rs[j] BY <2>2, <3>0, <3>1
      <4>2. \A j \in 1..(i-1) : rs[j].hash # rs[i].hash BY <1>0, <3>1 DEF UsedOnce
      <4>4. /\ rs[i].hash.line <= lines'[rs[i].hash.by]
            /\ pc'[rs[i].hash.by] \in AtWork => rs[i].hash.line < lines'[rs[i].hash.by]
        BY <1>4, <3>1
      <4> HIDE DEF rs, ss
      <4> QED BY <4>1, <4>2, <4>4
    <3>2. CASE i = Len(rs) + 1
      <4>1. ss[i] = r /\ \A j \in 1..(i-1) : ss[j] = rs[j] /\ j \in 1..Len(rs)
        BY <2>2, <3>0, <3>2
      <4>2. r.hash.by = p /\ r.hash.line = lines[p] BY <2>3
      <4>3. r.hash.line <= lines'[p] BY <1>3, <2>1, <4>2
      <4> HIDE DEF r, ss, rs
      <4> QED BY <2>1, <2>4, <4>1, <4>2, <4>3
    <3> QED BY <2>2, <3>0, <3>1, <3>2
  <2> QED BY <2>5 DEF UsedOnce, Busy
<1> QED BY <1>5, <1>6

\* A record that links to the last record of the log was made by somebody who had
\* loaded all of it.
LEMMA LinkToLast ==
  ASSUME NEW rs \in Seq(Rec), NEW ls \in Seq(Rec), Begins(ls, rs),
         \A i \in 1..Len(rs) : \A j \in 1..(i-1) : rs[j].hash # rs[i].hash,
         (IF ls = << >> THEN NoHash ELSE ls[Len(ls)].hash)
           = (IF rs = << >> THEN NoHash ELSE rs[Len(rs)].hash)
  PROVE  Len(ls) = Len(rs)
<1>1. \A i \in 1..Len(rs) : rs[i].hash # NoHash
  <2>1. \A r \in Rec : r.hash \in Hash BY DEF Rec
  <2> QED BY <2>1, JNullsAssumption
<1>2. Len(rs) \in Nat /\ Len(ls) \in Nat /\ Len(ls) <= Len(rs) BY DEF Begins
<1>3. CASE ls = << >>
  <2>1. SUFFICES ASSUME rs # << >> PROVE FALSE BY <1>3
  <2>2. Len(rs) \in 1..Len(rs) BY <2>1
  <2> QED BY <1>1, <1>3, <2>1, <2>2
<1>4. CASE ls # << >>
  <2>1. Len(ls) \in 1..Len(rs) /\ ls[Len(ls)] = rs[Len(ls)] BY <1>2, <1>4 DEF Begins
  <2>2. rs # << >> BY <2>1
  <2>3. rs[Len(ls)].hash = rs[Len(rs)].hash BY <1>4, <2>1, <2>2
  <2>4. SUFFICES ASSUME Len(ls) < Len(rs) PROVE FALSE BY <1>2
  <2>5. Len(rs) \in 1..Len(rs) /\ Len(ls) \in 1..(Len(rs)-1) BY <1>2, <2>1, <2>4
  <2> QED BY <2>3, <2>5
<1> QED BY <1>3, <1>4

LEMMA KeepsLinks ==
  ASSUME IInv, NEW p \in Procs, StepOf(p), NEW l \in Logs PROVE LinksHold(files'[l].recs)
<1> DEFINE rs == files[l].recs
           ss == files'[l].recs
           r  == NextRec(p)
<1>0. TypeOK /\ UsedOnce(rs) /\ LinksHold(rs) /\ (p \in Writers => Founding(p) /\ Extending(p))
  BY DEF IInv
<1>1. rs \in Seq(Rec) /\ Len(rs) \in Nat BY <1>0 DEF TypeOK, File
<1>2. SUFFICES ASSUME ss # rs PROVE LinksHold(ss) BY <1>0
<1>3. /\ p \in Writers /\ l = Log(p) /\ r \in Rec /\ ss = Append(rs, r)
      /\ pc[p] \in {"fill", "append"}
      /\ pc[p] = "fill" => rs = << >>
  BY <1>2, RecordsChange
<1>4. /\ ss \in Seq(Rec) /\ Len(ss) = Len(rs) + 1 /\ ss[Len(rs) + 1] = r
      /\ \A i \in 1..Len(rs) : ss[i] = rs[i]
  BY <1>1, <1>3, AppendRecord
<1>5. r.entry = cmd[p].entry BY DEF NextRec, FirstRec, NewRec
<1>6. /\ \A i \in 1..Len(rs) : Entries(rs)[i] = rs[i].entry
      /\ \A i \in 1..Len(ss) : Entries(ss)[i] = ss[i].entry
  BY <1>1, <1>4, EntriesOfRecs
<1>7. \A i \in 1..Len(rs) : Entries(ss)[i] = Entries(rs)[i]
  BY <1>1, <1>4, <1>6
<1> HIDE DEF rs, ss, r
<1>8. ASSUME NEW i \in 1..Len(ss), \A j \in 1..i : ss[j].prev = LinkAt(ss, j)
      PROVE  Follows(Entries(ss), i-1, ss[i].entry)
  <2>1. CASE i \in 1..Len(rs)
    <3>1. \A j \in 1..i : rs[j].prev = LinkAt(rs, j)
      <4>1. ASSUME NEW j \in 1..i PROVE rs[j].prev = LinkAt(rs, j)
        <5>1. ss[j] = rs[j] /\ (j # 1 => ss[j-1] = rs[j-1]) BY <1>1, <1>4, <2>1
        <5>2. ss[j].prev = LinkAt(ss, j) BY <1>8
        <5> QED BY <5>1, <5>2 DEF LinkAt
      <4> QED BY <4>1
    <3>2. Follows(Entries(rs), i-1, rs[i].entry) BY <1>0, <2>1, <3>1 DEF LinksHold
    <3>3. i-1 \in Nat /\ \A k \in 1..(i-1) : Entries(rs)[k] = Entries(ss)[k] BY <1>1, <1>7, <2>1
    <3>4. Follows(Entries(ss), i-1, rs[i].entry) BY <3>2, <3>3, FollowsPrefix
    <3> QED BY <1>4, <2>1, <3>4
  <2>2. CASE i = Len(rs) + 1
    <3>1. r.prev = (IF rs = << >> THEN NoHash ELSE rs[Len(rs)].hash)
      <4>1. ss[i].prev = LinkAt(ss, i) BY <1>8, <1>4
      <4>2. CASE rs = << >> BY <1>4, <2>2, <4>1, <4>2 DEF LinkAt
      <4>3. CASE rs # << >>
        <5>1. Len(rs) \in 1..Len(rs) /\ i # 1 /\ i - 1 = Len(rs) BY <1>1, <2>2, <4>3
        <5>2. ss[i-1] = rs[Len(rs)] BY <1>4, <5>1
        <5> QED BY <1>4, <2>2, <4>1, <4>3, <5>1, <5>2 DEF LinkAt
      <4> QED BY <4>2, <4>3
    <3>2. CASE pc[p] = "fill"
      <4>1. rs = << >> /\ Follows(<< >>, 0, cmd[p].entry) BY <1>0, <1>3, <3>2 DEF Founding
      <4>2. i - 1 = 0 BY <2>2, <4>1
      <4>3. Follows(Entries(ss), 0, cmd[p].entry)
        <5>1. 0 \in Nat /\ \A k \in 1..0 : << >>[k] = Entries(ss)[k] OBVIOUS
        <5> QED BY <4>1, <5>1, FollowsPrefix
      <4> QED BY <1>4, <1>5, <2>2, <4>2, <4>3
    <3>3. CASE pc[p] = "append"
      <4> DEFINE ls == loaded[p]
      <4>1. ls \in Seq(Rec) /\ Begins(ls, rs) /\ Follows(Entries(ls), Len(ls), cmd[p].entry)
        BY <1>0, <1>3, <3>3 DEF Extending, TypeOK, rs
      <4>2. r.prev = (IF ls = << >> THEN NoHash ELSE ls[Len(ls)].hash)
        BY <3>3 DEF r, NextRec, NewRec
      <4>3. \A k \in 1..Len(rs) : \A j \in 1..(k-1) : rs[j].hash # rs[k].hash
        BY <1>0 DEF UsedOnce
      <4> HIDE DEF ls
      <4>4. Len(ls) = Len(rs) BY <1>1, <3>1, <4>1, <4>2, <4>3, LinkToLast
      <4>5. \A k \in 1..Len(rs) : Entries(ls)[k] = Entries(ss)[k]
        <5>1. \A k \in 1..Len(rs) : Entries(ls)[k] = ls[k].entry BY <4>1, <4>4, EntriesOfRecs
        <5>2. \A k \in 1..Len(rs) : ls[k] = rs[k] BY <4>1, <4>4 DEF Begins
        <5> QED BY <1>6, <1>7, <5>1, <5>2
      <4>6. Follows(Entries(ss), Len(rs), cmd[p].entry)
        BY <1>1, <4>1, <4>4, <4>5, FollowsPrefix
      <4>7. i - 1 = Len(rs) BY <1>1, <2>2
      <4> QED BY <1>4, <1>5, <2>2, <4>6, <4>7
    <3> QED BY <1>3, <3>2, <3>3
  <2> QED BY <1>1, <1>4, <2>1, <2>2
<1> QED BY <1>8 DEF LinksHold

\* Whatever loads, under whatever token, is a history.
LEMMA LoadsValid ==
  ASSUME TypeOK, NEW l \in Logs, LinksHold(files[l].recs), NEW k, Loads(files[l], k)
  PROVE  ValidLog(Entries(files[l].recs))
<1> DEFINE rs == files[l].recs
<1>1. rs \in Seq(Rec) BY DEF TypeOK, File
<1>2. Len(Entries(rs)) = Len(rs) /\ \A i \in 1..Len(rs) : Entries(rs)[i] = rs[i].entry
  BY <1>1, EntriesOfRecs
<1>3. \A j \in 1..Len(rs) : rs[j].prev = LinkAt(rs, j) BY DEF Loads, LinkAt
<1>4. ASSUME NEW i \in 1..Len(rs) PROVE Follows(Entries(rs), i-1, rs[i].entry)
  <2>1. \A j \in 1..i : rs[j].prev = LinkAt(rs, j) BY <1>1, <1>3
  <2> QED BY <2>1 DEF LinksHold
<1> HIDE DEF rs
<1>5. \A i \in 1..Len(rs) : Follows(Entries(rs), i-1, Entries(rs)[i]) BY <1>2, <1>4
<1> QED BY <1>2, <1>5 DEF ValidLog, rs

LEMMA KeepsAnswers == ASSUME IInv, NEW p \in Procs, StepOf(p) PROVE AnswersHold'
<1>0. TypeOK /\ Working(p) /\ AnswersHold BY DEF IInv
<1>1. CASE answer' = answer BY <1>0, <1>1 DEF AnswersHold
<1>2. CASE answer' # answer
  <2>1. p \in Readers /\ Read(p)
    BY <1>2 DEF StepOf, Write, Start, BadLine, NextLine, EndOfFile, Check, Create, CreateRefused,
       Fill, FillFails, Load, LoadRefused, AppendRec, AppendFails, Crash, Refuse, Ask
  <2>2. cmd[p] \in Queries BY <1>0, <2>1 DEF Read, Working
  <2>3. Log(p) \in Logs BY <2>2, CommandType DEF Log
  <2>4. /\ answer' = [answer EXCEPT ![p] = Entries(files[Log(p)].recs)]
        /\ Loads(files[Log(p)], cmd[p].token)
    BY <1>2, <2>1 DEF Read
  <2>5. ValidLog(Entries(files[Log(p)].recs)) BY <1>0, <2>3, <2>4, LoadsValid DEF IInv
  <2> QED BY <1>0, <2>4, <2>5 DEF AnswersHold, TypeOK
<1> QED BY <1>1, <1>2

------------------------------------------------------------------------------
(* The theorems *)

LEMMA InitIInv == Init => IInv
<1> SUFFICES ASSUME Init PROVE IInv OBVIOUS
<1>1. TypeOK
  <2>1. NoFile \in File BY InitialType
  <2>2. << >> \in Seq(Rec) /\ << >> \in Seq(Entry) OBVIOUS
  <2> QED BY <2>1, <2>2 DEF Init, TypeOK
<1>2. \A p \in Procs : Working(p) BY DEF Init, Working, Busy, AtWork
<1>3. Unborn BY DEF Init, Unborn
<1>4. \A p \in Writers : Founding(p) /\ Extending(p) BY DEF Init, Founding, Extending, Procs
<1>5. \A l \in Logs : UsedOnce(files[l].recs) /\ LinksHold(files[l].recs)
  <2>1. \A l \in Logs : files[l].recs = << >> BY DEF Init, NoFile
  <2>2. Len(<< >>) = 0 OBVIOUS
  <2> QED BY <2>1, <2>2 DEF UsedOnce, LinksHold
<1>6. AnswersHold BY DEF Init, AnswersHold
<1> QED BY <1>1, <1>2, <1>3, <1>4, <1>5, <1>6 DEF IInv

LEMMA SomebodysStep ==
  ASSUME Next PROVE \E p \in Procs : StepOf(p)
BY DEF Next, StepOf, Procs

LEMMA NextIInv == IInv /\ [Next]_vars => IInv'
<1>1. ASSUME IInv, NEW p \in Procs, StepOf(p) PROVE IInv'
  <2>1. TypeOK' /\ \A q \in Procs : Working(q)' BY <1>1, KeepsTypes
  <2>2. Unborn' BY <1>1, FilesGrow
  <2>3. \A q \in Writers : Founding(q)' /\ Extending(q)' BY <1>1, KeepsFounding, KeepsExtending
  <2>4. \A l \in Logs : UsedOnce(files[l].recs)' /\ LinksHold(files'[l].recs)
    BY <1>1, KeepsUsedOnce, KeepsLinks
  <2>5. AnswersHold' BY <1>1, KeepsAnswers
  <2> QED BY <2>1, <2>2, <2>3, <2>4, <2>5 DEF IInv
<1>2. ASSUME IInv, UNCHANGED vars PROVE IInv'
  BY <1>2 DEF vars, IInv, TypeOK, Working, Busy, Unborn, Founding, Extending, Log, UsedOnce,
     LinksHold, AnswersHold
<1> QED BY <1>1, <1>2, SomebodysStep

LEMMA Invariance == Spec => []IInv
BY InitIInv, NextIInv, PTL DEF Spec

(* Every variable keeps its type, whatever the processes do. *)
THEOREM JavaTypeCorrect == Spec => []TypeOK
<1>1. IInv => TypeOK BY DEF IInv
<1> QED BY <1>1, Invariance, PTL

(* A log that loads is a history of the gallery, and so is every answer to a    *)
(* reader, though nobody locks: what was validated against something else than  *)
(* the records before it does not link to them.                                 *)
THEOREM JavaReadableIsHistory == Spec => []ReadableIsHistory
<1>1. IInv => ReadableIsHistory
  BY LoadsValid DEF IInv, AnswersHold, ReadableIsHistory
<1> QED BY <1>1, Invariance, PTL

(* No step of anybody takes a record, a salt or a fragment out of a log again.  *)
THEOREM JavaAppendOnly == Spec => AppendOnly
<1> DEFINE Kept(f, g) == /\ f.exists => g.exists
                         /\ f.salt # NoSalt => g.salt = f.salt
                         /\ Len(g.recs) >= Len(f.recs)
                         /\ SubSeq(g.recs, 1, Len(f.recs)) = f.recs
                         /\ f.tail # "clean" => g.tail # "clean"
<1>1. ASSUME NEW f \in File, NEW g \in File, Grows(f, g) PROVE Kept(f, g)
  <2>1. f.recs \in Seq(Rec) /\ g.recs \in Seq(Rec) /\ Begins(f.recs, g.recs)
    BY <1>1 DEF File, Grows
  <2>2. Len(f.recs) \in Nat /\ Len(g.recs) \in Nat /\ Len(f.recs) <= Len(g.recs)
    BY <2>1 DEF Begins
  <2>3. SubSeq(g.recs, 1, Len(f.recs)) = f.recs
    <3> DEFINE ss == SubSeq(g.recs, 1, Len(f.recs))
    <3>1. ss \in Seq(Rec) /\ Len(ss) = Len(f.recs) /\ \A i \in 1..Len(f.recs) : ss[i] = g.recs[i]
      BY <2>1, <2>2
    <3>2. \A i \in 1..Len(f.recs) : ss[i] = f.recs[i] BY <2>1, <3>1 DEF Begins
    <3> HIDE DEF ss
    <3> QED BY <2>1, <3>1, <3>2, SeqEqual DEF ss
  <2> QED BY <1>1, <2>2, <2>3 DEF Grows
<1>2. IInv /\ Next => \A l \in Logs : Kept(files[l], files'[l])
  <2>1. ASSUME IInv, NEW p \in Procs, StepOf(p), NEW l \in Logs PROVE Kept(files[l], files'[l])
    <3>1. files[l] \in File /\ files'[l] \in File /\ Grows(files[l], files'[l])
      BY <2>1, FilesGrow DEF IInv, TypeOK
    <3> HIDE DEF Kept
    <3> QED BY <1>1, <3>1
  <2> HIDE DEF Kept
  <2> QED BY <2>1, SomebodysStep
<1>3. IInv /\ [Next]_vars =>
        [\A l \in Logs :
           /\ files[l].exists => files'[l].exists
           /\ files[l].salt # NoSalt => files'[l].salt = files[l].salt
           /\ Len(files'[l].recs) >= Len(files[l].recs)
           /\ SubSeq(files'[l].recs, 1, Len(files[l].recs)) = files[l].recs
           /\ files[l].tail # "clean" => files'[l].tail # "clean"]_vars
  BY <1>2
<1> QED BY <1>3, Invariance, PTL DEF Spec, AppendOnly

------------------------------------------------------------------------------
(* The processes implement the fragile ledger *)

\* What a file stands for.
LedgerOf(f) == IF f.salt = NoSalt \/ \E k \in Tokens : Loads(f, k) THEN Recorded(f) ELSE Lost

LedgerNow == [l \in Logs |-> LedgerOf(files[l])]
AckedNow  == [l \in Logs |-> {accepted[l][i] : i \in 1..Len(accepted[l])}]

Told(c) == AckedNow' \in {AckedNow, [AckedNow EXCEPT ![c.log] = @ \cup {c.entry}]}

Commits(c) ==
  /\ LedgerNow[c.log] # Lost
  /\ \A i \in 1..Len(LedgerNow[c.log]) : LedgerNow[c.log][i].token = c.token
  /\ Follows([i \in 1..Len(LedgerNow[c.log]) |-> LedgerNow[c.log][i].entry],
             Len(LedgerNow[c.log]), c.entry)
  /\ LedgerNow' = [LedgerNow EXCEPT ![c.log] = Append(@, [token |-> c.token, entry |-> c.entry])]
  /\ Told(c) /\ UNCHANGED answer

Loses(c) == LedgerNow' = [LedgerNow EXCEPT ![c.log] = Lost] /\ Told(c) /\ UNCHANGED answer

Serves(p, l, k) ==
  /\ LedgerNow[l] # Lost
  /\ \A i \in 1..Len(LedgerNow[l]) : LedgerNow[l][i].token = k
  /\ answer' = [answer EXCEPT ![p] = [i \in 1..Len(LedgerNow[l]) |-> LedgerNow[l][i].entry]]
  /\ UNCHANGED <<LedgerNow, AckedNow>>

\* The ledger speaks of the same gallery.
LEMMA SameFollows ==
  ASSUME NEW es, NEW m, NEW e PROVE F!Follows(es, m, e) <=> Follows(es, m, e)
BY DEF F!Follows, F!PlacedAt, F!LastAbout, F!From, F!To, F!Outside,
       Follows, PlacedAt, LastAbout, From, To, Outside

LEMMA LedgerSteps ==
  /\ \A c : Commits(c) => F!Commit(c)
  /\ \A c : Loses(c) => F!Lose(c)
  /\ \A p, l, k : Serves(p, l, k) => F!Query(p, l, k)
  /\ UNCHANGED <<LedgerNow, AckedNow, answer>> => UNCHANGED F!ledgerVars
<1>1. ASSUME NEW c, Commits(c) PROVE F!Commit(c)
  BY <1>1, SameFollows DEF Commits, Told, LedgerNow, LedgerOf, AckedNow, F!Commit, F!Reported,
     F!Under, F!EntriesOf
<1>2. ASSUME NEW c, Loses(c) PROVE F!Lose(c)
  BY <1>2 DEF Loses, Told, LedgerNow, LedgerOf, AckedNow, F!Lose, F!Reported
<1>3. ASSUME NEW p, NEW l, NEW k, Serves(p, l, k) PROVE F!Query(p, l, k)
  BY <1>3 DEF Serves, LedgerNow, LedgerOf, AckedNow, F!Query, F!Under, F!EntriesOf
<1>4. ASSUME UNCHANGED <<LedgerNow, AckedNow, answer>> PROVE UNCHANGED F!ledgerVars
  BY <1>4 DEF LedgerNow, LedgerOf, AckedNow, F!ledgerVars
<1> QED BY <1>1, <1>2, <1>3, <1>4

Content == [token: Tokens, entry: Entry]

LEMMA RecordedRecs ==
  ASSUME NEW f \in File
  PROVE  /\ Recorded(f) \in Seq(Content) /\ Len(Recorded(f)) = Len(f.recs)
         /\ \A i \in 1..Len(f.recs) :
              Recorded(f)[i] = [token |-> f.recs[i].key.token, entry |-> f.recs[i].entry]
         /\ Recorded(f) # Lost
<1> DEFINE rs == f.recs
<1>1. rs \in Seq(Rec) BY DEF File
<1>2. Len(rs) \in Nat BY <1>1
<1>3. \A i \in 1..Len(rs) : rs[i] \in Rec BY <1>1
<1>4. \A i \in 1..Len(rs) : rs[i].key.token \in Tokens /\ rs[i].entry \in Entry
  BY <1>3 DEF Rec, Key
<1>5. Recorded(f) = [i \in 1..Len(rs) |-> [token |-> rs[i].key.token, entry |-> rs[i].entry]]
  BY DEF Recorded
<1>6. Recorded(f) \in [1..Len(rs) -> Content] BY <1>4, <1>5 DEF Content
<1>7. Recorded(f) \in Seq(Content) /\ Len(Recorded(f)) = Len(rs) BY <1>2, <1>6
<1>8. Recorded(f) # Lost BY <1>7, JNullsAssumption DEF Content
<1> QED BY <1>5, <1>7, <1>8

\* A log that loads has loaded ever since it got its header.
LEMMA LoadedBefore ==
  ASSUME NEW f \in File, NEW g \in File, Grows(f, g), f.salt # NoSalt, NEW k, Loads(g, k)
  PROVE  Loads(f, k)
<1>1. g.salt = f.salt /\ f.tail = "clean" BY DEF Grows, Loads
<1>2. f.recs \in Seq(Rec) /\ g.recs \in Seq(Rec) /\ Begins(f.recs, g.recs) BY DEF File, Grows
<1>3. Len(f.recs) \in Nat /\ Len(g.recs) \in Nat /\ Len(f.recs) <= Len(g.recs)
      /\ \A i \in 1..Len(f.recs) : g.recs[i] = f.recs[i]
  BY <1>2 DEF Begins
<1>4. ASSUME NEW i \in 1..Len(f.recs)
      PROVE  /\ f.recs[i].key = [token |-> k, salt |-> f.salt]
             /\ f.recs[i].prev = IF i = 1 THEN NoHash ELSE f.recs[i-1].hash
  <2>1. i \in 1..Len(g.recs) /\ g.recs[i] = f.recs[i] /\ (i # 1 => g.recs[i-1] = f.recs[i-1])
    BY <1>3
  <2>2. /\ g.recs[i].key = [token |-> k, salt |-> g.salt]
        /\ g.recs[i].prev = IF i = 1 THEN NoHash ELSE g.recs[i-1].hash
    BY <2>1 DEF Loads
  <2> QED BY <1>1, <2>1, <2>2
<1> QED BY <1>1, <1>4 DEF Loads

\* The step that changes one file, or none, as the ledger sees it.
LEMMA LedgerChange ==
  ASSUME files \in [Logs -> File], NEW l \in Logs, files' = [files EXCEPT ![l] = files'[l]]
  PROVE  LedgerNow' = [LedgerNow EXCEPT ![l] = LedgerOf(files'[l])]
<1>1. ASSUME NEW m \in Logs PROVE LedgerNow'[m] = [LedgerNow EXCEPT ![l] = LedgerOf(files'[l])][m]
  <2>1. LedgerNow'[m] = LedgerOf(files'[m]) BY DEF LedgerNow
  <2>2. m # l => files'[m] = files[m] OBVIOUS
  <2> QED BY <2>1, <2>2 DEF LedgerNow
<1> QED BY <1>1 DEF LedgerNow

LEMMA AckedChange ==
  ASSUME TypeOK, NEW p, cmd[p] \in Commands
  PROVE  /\ UNCHANGED accepted => Told(cmd[p])
         /\ Reported(p) => Told(cmd[p])
<1> DEFINE c == cmd[p]
<1>1. UNCHANGED accepted => Told(c) BY DEF Told, AckedNow
<1>2. ASSUME Reported(p) PROVE AckedNow' = [AckedNow EXCEPT ![c.log] = @ \cup {c.entry}]
  <2>1. accepted' = [accepted EXCEPT ![c.log] = Append(@, c.entry)] BY <1>2 DEF Reported, Log
  <2>2. c.log \in Logs /\ c.entry \in Entry BY CommandType
  <2>3. ASSUME NEW m \in Logs PROVE AckedNow'[m] = [AckedNow EXCEPT ![c.log] = @ \cup {c.entry}][m]
    <3>1. CASE m = c.log
      <4> DEFINE es == accepted[m]
                 ss == accepted'[m]
      <4>1. es \in Seq(Entry) /\ ss = Append(es, c.entry) BY <2>1, <2>2, <3>1 DEF TypeOK
      <4>2. /\ Len(es) \in Nat /\ Len(ss) = Len(es) + 1 /\ ss[Len(es) + 1] = c.entry
            /\ \A i \in 1..Len(es) : ss[i] = es[i]
        BY <2>2, <4>1
      <4> HIDE DEF es, ss
      <4>3. {ss[i] : i \in 1..Len(ss)} = {es[i] : i \in 1..Len(es)} \cup {c.entry}
        <5>1. 1..Len(ss) = (1..Len(es)) \cup {Len(es) + 1} BY <4>2
        <5> QED BY <4>2, <5>1
      <4> QED BY <2>2, <3>1, <4>3 DEF AckedNow, es, ss
    <3>2. CASE m # c.log
      <4>1. accepted'[m] = accepted[m] BY <2>1, <3>2 DEF TypeOK
      <4> QED BY <3>2, <4>1 DEF AckedNow
    <3> QED BY <3>1, <3>2
  <2> QED BY <2>3 DEF AckedNow
<1> QED BY <1>1, <1>2 DEF Told

\* A record that gets into the log, and leaves it readable, commits its entry.
LEMMA RecordCommits ==
  ASSUME NEW c \in Commands, NEW f \in File, NEW g \in File, NEW r \in Rec, NEW k \in Tokens,
         LedgerNow[c.log] = Recorded(f), LedgerNow \in [Logs -> Seq(Content) \cup {Lost}],
         LedgerNow' = [LedgerNow EXCEPT ![c.log] = LedgerOf(g)],
         g.recs = Append(f.recs, r), r.key.token = c.token, r.entry = c.entry,
         LinksHold(g.recs), Loads(g, k), Told(c), UNCHANGED answer
  PROVE  Commits(c)
<1> DEFINE rs == f.recs
           ss == g.recs
           n  == Len(rs)
           x  == [token |-> c.token, entry |-> c.entry]
           R  == Recorded(f)
           S  == Recorded(g)
<1>1. rs \in Seq(Rec) /\ n \in Nat BY DEF File
<1>2. ss \in Seq(Rec) /\ Len(ss) = n + 1 /\ ss[n+1] = r /\ \A i \in 1..n : ss[i] = rs[i]
  BY <1>1, AppendRecord
<1>3. /\ R \in Seq(Content) /\ Len(R) = n /\ R # Lost
      /\ \A i \in 1..n : R[i] = [token |-> rs[i].key.token, entry |-> rs[i].entry]
  BY RecordedRecs
<1>4. /\ S \in Seq(Content) /\ Len(S) = n + 1
      /\ \A i \in 1..(n+1) : S[i] = [token |-> ss[i].key.token, entry |-> ss[i].entry]
  BY <1>2, RecordedRecs
<1>5. \A i \in 1..(n+1) : ss[i].key.token = k
  <2>1. \A i \in 1..(n+1) : ss[i].key = [token |-> k, salt |-> g.salt] BY <1>2 DEF Loads
  <2> QED BY <2>1
<1>6. k = c.token
  <2>1. n + 1 \in 1..(n+1) BY <1>1
  <2>2. ss[n+1].key.token = k BY <1>5, <2>1
  <2> QED BY <1>2, <2>2
<1>7. \A i \in 1..n : R[i].token = c.token
  <2>1. ASSUME NEW i \in 1..n PROVE R[i].token = c.token
    <3>1. i \in 1..(n+1) /\ ss[i] = rs[i] BY <1>1, <1>2
    <3>2. rs[i].key.token = c.token BY <1>5, <1>6, <3>1
    <3>3. R[i] = [token |-> rs[i].key.token, entry |-> rs[i].entry] BY <1>3
    <3> HIDE DEF R, rs
    <3> QED BY <3>2, <3>3
  <2> QED BY <2>1
<1>8. S = Append(R, x)
  <2>1. x \in Content BY CommandType DEF Content
  <2>2. /\ Append(R, x) \in Seq(Content) /\ Len(Append(R, x)) = n + 1
        /\ Append(R, x)[n+1] = x /\ \A i \in 1..n : Append(R, x)[i] = R[i]
    BY <1>3, <2>1
  <2>3. ASSUME NEW i \in 1..(n+1) PROVE S[i] = Append(R, x)[i]
    <3>1. CASE i \in 1..n
      <4>1. S[i] = [token |-> rs[i].key.token, entry |-> rs[i].entry] BY <1>2, <1>4, <3>1
      <4>2. Append(R, x)[i] = [token |-> rs[i].key.token, entry |-> rs[i].entry]
        BY <1>3, <2>2, <3>1
      <4> QED BY <4>1, <4>2
    <3>2. CASE i = n + 1
      <4>1. S[i] = [token |-> r.key.token, entry |-> r.entry] BY <1>2, <1>4, <3>2
      <4> QED BY <2>2, <3>2, <4>1
    <3>3. i \in 1..n \/ i = n + 1 BY <1>1
    <3> HIDE DEF n, S, R, x
    <3> QED BY <3>1, <3>2, <3>3
  <2> HIDE DEF S, R, x, n, rs
  <2> QED BY <1>3, <1>4, <2>2, <2>3, SeqEqual
<1>9. Follows([i \in 1..Len(R) |-> R[i].entry], Len(R), c.entry)
  <2>1. \A j \in 1..(n+1) : ss[j].prev = LinkAt(ss, j) BY <1>2 DEF Loads, LinkAt
  <2>2. Follows(Entries(ss), n, c.entry)
    <3>1. n + 1 \in 1..Len(ss) /\ (n + 1) - 1 = n BY <1>1, <1>2
    <3>2. Follows(Entries(ss), (n+1)-1, ss[n+1].entry) BY <2>1, <3>1 DEF LinksHold
    <3> QED BY <1>2, <3>1, <3>2
  <2> DEFINE es == [i \in 1..Len(R) |-> R[i].entry]
  <2>3. ASSUME NEW i \in 1..n PROVE Entries(ss)[i] = es[i]
    <3>1. ss[i] = rs[i] /\ i \in 1..Len(ss) BY <1>1, <1>2
    <3>2. Entries(ss)[i] = ss[i].entry BY <1>2, <3>1, EntriesOfRecs
    <3>3. es[i] = R[i].entry BY <1>3
    <3>4. R[i] = [token |-> rs[i].key.token, entry |-> rs[i].entry] BY <1>3
    <3>5. R[i].entry = rs[i].entry
      <4> HIDE DEF R, rs
      <4> QED BY <3>4
    <3> QED BY <3>1, <3>2, <3>3, <3>5
  <2> HIDE DEF es
  <2>4. Follows(es, n, c.entry) BY <1>1, <2>2, <2>3, FollowsPrefix
  <2> QED BY <1>3, <2>4 DEF es
<1>10. LedgerOf(g) = S BY DEF LedgerOf
<1>11. LedgerNow' = [LedgerNow EXCEPT ![c.log] = Append(@, x)]
  BY <1>8, <1>10
<1> HIDE DEF R, x
<1> QED BY <1>3, <1>7, <1>9, <1>11 DEF Commits, R, x

LEMMA LedgerType ==
  ASSUME TypeOK PROVE LedgerNow \in [Logs -> Seq(Content) \cup {Lost}]
<1>1. \A f \in File : LedgerOf(f) \in Seq(Content) \cup {Lost} BY RecordedRecs DEF LedgerOf
<1> QED BY <1>1 DEF LedgerNow, TypeOK

LEMMA LogMoves ==
  ASSUME IInv, NEW p \in Writers, cmd[p] \in Commands, Log(p) \in Logs, lines[p] > 0, StepOf(p),
         files' = [files EXCEPT ![Log(p)] = files'[Log(p)]],
         Becomes(p, files[Log(p)], files'[Log(p)])
  PROVE  Commits(cmd[p]) \/ Loses(cmd[p]) \/ UNCHANGED <<LedgerNow, AckedNow, answer>>
<1> DEFINE c == cmd[p]
           l == Log(p)
           f == files[l]
           g == files'[l]
<1>1. TypeOK /\ Unborn /\ Founding(p) /\ Extending(p) /\ p \in Procs BY DEF IInv, Procs
<1>2. f \in File /\ g \in File /\ Grows(f, g) BY <1>1, FilesGrow DEF TypeOK
<1>3. LedgerNow' = [LedgerNow EXCEPT ![l] = LedgerOf(g)] /\ LedgerNow[l] = LedgerOf(f)
  <2>1. files \in [Logs -> File] BY <1>1 DEF TypeOK
  <2> QED BY <2>1, LedgerChange DEF LedgerNow
<1>4. LedgerNow \in [Logs -> Seq(Content) \cup {Lost}] BY <1>1, LedgerType
<1>5. c.log = l /\ c.token \in Tokens BY CommandType DEF Log
<1>6. UNCHANGED answer /\ (UNCHANGED accepted \/ Reported(p)) BY DEF Becomes
<1>7. Told(c) BY <1>1, <1>6, AckedChange
<1>8. LedgerOf(g) = Lost => Loses(c) BY <1>3, <1>5, <1>6, <1>7 DEF Loses
<1>9. LedgerOf(g) = LedgerOf(f) /\ UNCHANGED accepted => UNCHANGED <<LedgerNow, AckedNow, answer>>
  BY <1>3, <1>4, <1>6 DEF AckedNow
<1>10. LinksHold(g.recs) BY <1>1, KeepsLinks
<1>11. ASSUME NEW r \in Rec, g.recs = Append(f.recs, r), r.key.token = c.token, r.entry = c.entry,
              LedgerOf(f) = Recorded(f), NEW k \in Tokens, Loads(g, k)
       PROVE  Commits(c)
  <2>1. LedgerNow[c.log] = Recorded(f) BY <1>3, <1>5, <1>11
  <2>2. LedgerNow' = [LedgerNow EXCEPT ![c.log] = LedgerOf(g)] BY <1>3, <1>5
  <2> HIDE DEF f, g, c
  <2> QED BY <1>2, <1>4, <1>6, <1>7, <1>10, <1>11, <2>1, <2>2, RecordCommits DEF c
<1>12. CASE pc[p] = "create"
  <2>1. f = NoFile /\ g = EmptyFile /\ UNCHANGED accepted BY <1>1, <1>12 DEF Becomes, Unborn
  <2>2. LedgerOf(f) = LedgerOf(g) BY <2>1 DEF LedgerOf, NoFile, EmptyFile, Recorded
  <2> QED BY <1>9, <2>1, <2>2
<1>13. CASE pc[p] = "fill"
  <2>1. f = EmptyFile BY <1>1, <1>13 DEF Founding
  <2>2. f.salt = NoSalt /\ f.recs = << >> /\ f.tail = "clean" BY <2>1 DEF EmptyFile
  <2>3. LedgerOf(f) = Recorded(f) BY <2>2 DEF LedgerOf
  <2>4. p # NoSalt BY JNullsAssumption
  <2>5. \/ g = [f EXCEPT !.salt = p, !.recs = << FirstRec(p) >>]
        \/ UNCHANGED accepted /\ g = [f EXCEPT !.salt = p]
        \/ UNCHANGED accepted /\ g = [f EXCEPT !.salt = p, !.tail = "fragment"]
    BY <1>13 DEF Becomes
  <2>6. CASE g = [f EXCEPT !.salt = p, !.recs = << FirstRec(p) >>]
    <3> DEFINE r == FirstRec(p)
    <3>1. g.salt = p /\ g.recs = << r >> /\ g.tail = "clean" BY <1>2, <2>2, <2>6 DEF File
    <3>2. r \in Rec BY <1>1, FirstRecordType
    <3>3. g.recs = Append(f.recs, r) BY <2>2, <3>1
    <3>4. r.key = [token |-> c.token, salt |-> p] /\ r.prev = NoHash /\ r.entry = c.entry
      BY DEF FirstRec
    <3>5. Loads(g, c.token)
      <4>1. Len(g.recs) = 1 /\ g.recs[1] = r BY <3>1
      <4>2. ASSUME NEW i \in 1..Len(g.recs) PROVE i = 1 BY <4>1
      <4> HIDE DEF g, r
      <4> QED BY <2>4, <3>1, <3>4, <4>1, <4>2 DEF Loads
    <3>6. r.key.token = c.token BY <3>4
    <3> QED BY <1>5, <1>11, <2>3, <3>2, <3>3, <3>4, <3>5, <3>6
  <2>7. CASE UNCHANGED accepted /\ g = [f EXCEPT !.salt = p]
    <3>1. g.salt = p /\ g.recs = << >> /\ g.tail = "clean" BY <1>2, <2>2, <2>7 DEF File
    <3>2. Loads(g, c.token)
      <4>1. Len(g.recs) = 0 BY <3>1
      <4> QED BY <2>4, <3>1, <4>1 DEF Loads
    <3>3. LedgerOf(g) = Recorded(g) BY <1>5, <3>2 DEF LedgerOf
    <3>4. Recorded(g) = Recorded(f) BY <2>2, <3>1 DEF Recorded
    <3> QED BY <1>9, <2>3, <2>7, <3>3, <3>4
  <2>8. CASE g = [f EXCEPT !.salt = p, !.tail = "fragment"]
    <3>1. g.salt = p /\ g.tail = "fragment" BY <1>2, <2>8 DEF File
    <3> QED BY <1>8, <2>4, <3>1 DEF LedgerOf, Loads
  <2> QED BY <2>5, <2>6, <2>7, <2>8
<1>14. CASE pc[p] = "append"
  <2>1. f.salt # NoSalt BY <1>1, <1>14 DEF Extending
  <2>2. g.salt # NoSalt BY <1>2, <2>1 DEF Grows
  <2>3. CASE LedgerOf(g) = Lost BY <1>8, <2>3
  <2>4. CASE LedgerOf(g) # Lost
    <3>1. PICK k \in Tokens : Loads(g, k) BY <2>2, <2>4 DEF LedgerOf
    <3>2. Loads(f, k) BY <1>2, <2>1, <3>1, LoadedBefore
    <3>3. LedgerOf(f) = Recorded(f) BY <3>2 DEF LedgerOf
    <3>4. \/ /\ f.tail = "clean" /\ g = [f EXCEPT !.recs = Append(@, NewRec(p))]
          \/ f.tail # "clean"
          \/ g = [f EXCEPT !.tail = "fragment"]
      BY <1>14 DEF Becomes
    <3>5. f.tail = "clean" /\ g.tail = "clean" BY <3>1, <3>2 DEF Loads
    <3>6. g.recs = Append(f.recs, NewRec(p)) BY <1>2, <3>4, <3>5 DEF File
    <3>7. NewRec(p) \in Rec BY <1>1, <2>1, NewRecType
    <3>8. NewRec(p).key = [token |-> c.token, salt |-> f.salt] /\ NewRec(p).entry = c.entry
      BY DEF NewRec
    <3>9. NewRec(p).key.token = c.token BY <3>8
    <3> QED BY <1>11, <3>1, <3>3, <3>6, <3>7, <3>8, <3>9
  <2> QED BY <2>3, <2>4
<1> QED BY <1>12, <1>13, <1>14 DEF Becomes

\* A write that changes nothing, and is reported all the same, was to a lost log.
LEMMA WastedMoves ==
  ASSUME IInv, NEW p \in Writers, Write(p), UNCHANGED files, accepted' # accepted
  PROVE  /\ cmd[p] \in Commands /\ Loses(cmd[p])
<1> DEFINE f == files[Log(p)]
<1>1. TypeOK /\ Working(p) /\ Founding(p) /\ Extending(p) /\ p \in Procs BY DEF IInv, Procs
<1>2. /\ Fill(p) \/ AppendRec(p)
      /\ Reported(p) /\ UNCHANGED answer
  BY DEF Write, Start, BadLine, NextLine, EndOfFile, Check, Create, CreateRefused, Fill, FillFails,
         Load, LoadRefused, AppendRec, AppendFails, Crash, Refuse
<1>3. cmd[p] \in Commands /\ lines[p] > 0 BY <1>1, <1>2 DEF Fill, AppendRec, Working, Busy, AtWork
<1>4. Log(p) \in Logs /\ cmd[p].log = Log(p) BY <1>3, CommandType DEF Log
<1>5. f \in File /\ files \in [Logs -> File] BY <1>1, <1>4 DEF TypeOK
<1>6. CASE Fill(p)
  <2>1. f = EmptyFile BY <1>1, <1>6 DEF Fill, Founding
  <2>2. f.recs = << >> BY <2>1 DEF EmptyFile
  <2>3. files'[Log(p)].recs = << FirstRec(p) >> BY <1>4, <1>5, <1>6 DEF Fill, Filled, File
  <2>4. << FirstRec(p) >> # << >> OBVIOUS
  <2> QED BY <2>2, <2>3, <2>4
<1>7. CASE AppendRec(p)
  <2>1. f.salt # NoSalt /\ f.recs \in Seq(Rec) BY <1>1, <1>5, <1>7 DEF AppendRec, Extending, File
  <2>2. NewRec(p) \in Rec BY <1>1, <1>3, <2>1, NewRecType
  <2>3. f.tail # "clean"
    <3>1. SUFFICES ASSUME f.tail = "clean" PROVE FALSE OBVIOUS
    <3>2. files'[Log(p)].recs = Append(f.recs, NewRec(p)) BY <1>4, <1>5, <1>7, <3>1 DEF AppendRec, Extended, File
    <3>3. Len(Append(f.recs, NewRec(p))) = Len(f.recs) + 1 /\ Len(f.recs) \in Nat
      BY <2>1, <2>2, AppendRecord
    <3> QED BY <3>2, <3>3
  <2>4. LedgerNow[cmd[p].log] = Lost BY <1>4, <2>1, <2>3 DEF LedgerNow, LedgerOf, Loads
  <2>5. LedgerNow' = [LedgerNow EXCEPT ![cmd[p].log] = Lost]
    <3>1. LedgerNow' = LedgerNow BY DEF LedgerNow
    <3>2. LedgerNow \in [Logs -> Seq(Content) \cup {Lost}] BY <1>1, LedgerType
    <3> QED BY <1>4, <2>4, <3>1, <3>2
  <2>6. Told(cmd[p]) BY <1>1, <1>2, <1>3, AckedChange
  <2> QED BY <1>2, <1>3, <2>5, <2>6 DEF Loses
<1> QED BY <1>2, <1>6, <1>7

\* An answer is a query.
LEMMA ReadServes ==
  ASSUME IInv, NEW p \in Readers, Read(p), answer' # answer
  PROVE  cmd[p] \in Queries /\ Serves(p, cmd[p].log, cmd[p].token)
<1> DEFINE f == files[Log(p)]
<1>1. TypeOK /\ Working(p) BY DEF IInv, Procs
<1>2. cmd[p] \in Queries BY <1>1 DEF Read, Working
<1>3. Log(p) \in Logs /\ Log(p) = cmd[p].log /\ cmd[p].token \in Tokens
  BY <1>2, CommandType DEF Log
<1>4. f \in File /\ Loads(f, cmd[p].token) /\ answer' = [answer EXCEPT ![p] = Entries(f.recs)]
  BY <1>1, <1>3 DEF Read, TypeOK
<1>5. LedgerNow[cmd[p].log] = Recorded(f) BY <1>3, <1>4 DEF LedgerNow, LedgerOf
<1>6. /\ Recorded(f) # Lost /\ Len(Recorded(f)) = Len(f.recs)
      /\ \A i \in 1..Len(f.recs) :
           Recorded(f)[i] = [token |-> f.recs[i].key.token, entry |-> f.recs[i].entry]
  BY <1>4, RecordedRecs
<1>7. ASSUME NEW i \in 1..Len(f.recs)
      PROVE  Recorded(f)[i].token = cmd[p].token /\ Recorded(f)[i].entry = f.recs[i].entry
  <2>1. f.recs[i].key = [token |-> cmd[p].token, salt |-> f.salt] BY <1>4 DEF Loads
  <2>2. f.recs[i].key.token = cmd[p].token BY <2>1
  <2>3. Recorded(f)[i] = [token |-> f.recs[i].key.token, entry |-> f.recs[i].entry] BY <1>6
  <2> HIDE DEF f
  <2> QED BY <2>2, <2>3
<1>8. [i \in 1..Len(Recorded(f)) |-> Recorded(f)[i].entry] = Entries(f.recs)
  BY <1>6, <1>7 DEF Entries
<1>9. UNCHANGED <<LedgerNow, AckedNow>> BY DEF Read, LedgerNow, AckedNow
<1> HIDE DEF f
<1>10. \A i \in 1..Len(LedgerNow[cmd[p].log]) : LedgerNow[cmd[p].log][i].token = cmd[p].token
  BY <1>5, <1>6, <1>7
<1>11. answer' = [answer EXCEPT ![p] = [i \in 1..Len(Recorded(f)) |-> Recorded(f)[i].entry]]
  BY <1>4, <1>8
<1> QED BY <1>2, <1>5, <1>6, <1>9, <1>10, <1>11 DEF Serves

LEMMA InitLedger == Init => F!LedgerInit
<1> SUFFICES ASSUME Init PROVE F!LedgerInit OBVIOUS
<1>1. \A l \in Logs : LedgerOf(files[l]) = << >> BY DEF Init, NoFile, LedgerOf, Recorded
<1>2. \A l \in Logs : {accepted[l][i] : i \in 1..Len(accepted[l])} = {} BY DEF Init
<1>3. [l \in Logs |-> LedgerOf(files[l])] = [l \in Logs |-> << >>] BY <1>1
<1>4. [l \in Logs |-> {accepted[l][i] : i \in 1..Len(accepted[l])}] = [l \in Logs |-> {}] BY <1>2
<1> QED BY <1>3, <1>4 DEF Init, F!LedgerInit, LedgerOf

LEMMA LedgerStep == IInv /\ [Next]_vars => [F!LedgerNext]_(F!ledgerVars)
<1>1. ASSUME UNCHANGED <<files, accepted, answer>> PROVE UNCHANGED F!ledgerVars
  BY <1>1, LedgerSteps DEF LedgerNow, AckedNow
<1>2. ASSUME IInv, NEW p \in Procs, StepOf(p), ~UNCHANGED <<files, accepted, answer>>
      PROVE  [F!LedgerNext]_(F!ledgerVars)
  <2>1. TypeOK /\ Working(p) BY <1>2 DEF IInv
  <2>2. ASSUME NEW c \in Commands, Commits(c) \/ Loses(c) PROVE F!LedgerNext
    BY <2>2, LedgerSteps DEF F!LedgerNext
  <2>3. CASE p \in Readers /\ answer' # answer
    <3>1. Read(p) BY <1>2, <2>3, JProcsAssumption DEF StepOf, Ask
    <3>2. cmd[p] \in Queries /\ Serves(p, cmd[p].log, cmd[p].token) BY <1>2, <2>3, <3>1, ReadServes
    <3>3. cmd[p].log \in Logs /\ cmd[p].token \in Tokens BY <3>2, CommandType
    <3> QED BY <2>3, <3>2, <3>3, LedgerSteps DEF F!LedgerNext
  <2>4. CASE p \in Writers /\ Write(p) /\ files' = files
    <3>1. UNCHANGED answer
      BY <2>4 DEF Write, Start, BadLine, NextLine, EndOfFile, Check, Create, CreateRefused, Fill,
         FillFails, Load, LoadRefused, AppendRec, AppendFails, Crash, Refuse
    <3>2. accepted' # accepted BY <1>2, <2>4, <3>1
    <3> QED BY <1>2, <2>2, <2>4, <3>2, WastedMoves
  <2>5. CASE p \in Writers /\ Write(p) /\ files' # files
    <3>1. /\ cmd[p] \in Commands /\ lines[p] > 0 /\ Log(p) \in Logs
          /\ files' = [files EXCEPT ![Log(p)] = files'[Log(p)]]
          /\ Becomes(p, files[Log(p)], files'[Log(p)])
      BY <1>2, <2>1, <2>5, FileChange
    <3>2. Commits(cmd[p]) \/ Loses(cmd[p]) \/ UNCHANGED <<LedgerNow, AckedNow, answer>>
      BY <1>2, <2>5, <3>1, LogMoves
    <3> QED BY <2>2, <3>1, <3>2, LedgerSteps
  <2>6. p \in Readers /\ (Ask(p) \/ Read(p)) => UNCHANGED <<files, accepted>> BY DEF Ask, Read
  <2> QED BY <1>2, <2>3, <2>4, <2>5, <2>6 DEF StepOf
<1>3. ASSUME UNCHANGED vars PROVE UNCHANGED F!ledgerVars BY <1>1, <1>3 DEF vars
<1> QED BY <1>1, <1>2, <1>3, SomebodysStep

(* The processes together are the fragile ledger: each step of theirs commits   *)
(* one entry to one log, loses a log for good, answers one reader from a log as *)
(* it is, or does nothing that the ledger shows.                                *)
THEOREM JavaRefinement == Spec => ImplementsFragileLedger
<1>1. Init => F!LedgerInit BY InitLedger
<1>2. IInv /\ [Next]_vars => [F!LedgerNext]_(F!ledgerVars) BY LedgerStep
<1> QED BY <1>1, <1>2, Invariance, PTL DEF Spec, ImplementsFragileLedger, F!LedgerSpec

------------------------------------------------------------------------------
(* One writer at a time, no failure and no crash *)

\* What a writer found out about its log is still so.
Turn(p) ==
  /\ pc[p] = "create" => ~files[Log(p)].exists
  /\ pc[p] = "load" => files[Log(p)].exists
  /\ pc[p] = "append" => /\ files[Log(p)].recs # << >>
                         /\ loaded[p] = files[Log(p)].recs
                         /\ Loads(files[Log(p)], cmd[p].token)

\* A log is not there yet, is being founded, or loads as what was accepted.
InOrder(l) ==
  \/ ~files[l].exists /\ accepted[l] = << >>
  \/ /\ files[l] = EmptyFile /\ accepted[l] = << >>
     /\ \E p \in Writers : pc[p] = "fill" /\ Log(p) = l
  \/ /\ files[l].recs # << >>
     /\ Loads(files[l], files[l].recs[1].key.token)
     /\ Entries(files[l].recs) = accepted[l]

Undisturbed ==
  disturbed = {} =>
    /\ \A p, q \in Writers : Active(p) /\ Active(q) => p = q
    /\ \A p \in Writers : Turn(p)
    /\ \A l \in Logs : InOrder(l)

\* Who works on a line is active.
LEMMA BusyActive ==
  ASSUME NEW p \in Writers PROVE pc[p] \in AtWork \cup {"next"} => Active(p)
BY DEF AtWork, Active

\* While nothing is disturbed a writer takes its steps when no other is active.
LEMMA Alone ==
  ASSUME TypeOK, Undisturbed, NEW p \in Writers, Write(p), disturbed' = {}
  PROVE  /\ disturbed = {}
         /\ ~FillFails(p) /\ ~AppendFails(p) /\ ~Crash(p)
         /\ \A q \in Writers \ {p} : ~Active(q)
<1>1. disturbed = {} /\ ~FillFails(p) /\ ~AppendFails(p) /\ ~Crash(p)
  <2>1. FillFails(p) \/ AppendFails(p) \/ Crash(p) => disturbed' # {}
    BY DEF FillFails, AppendFails, Crash
  <2>2. Start(p) => disturbed \subseteq disturbed' BY DEF Start
  <2>3. ~Start(p) => disturbed = {}
    BY <2>1 DEF Write, BadLine, NextLine, EndOfFile, Check, Create, CreateRefused, Fill, Load,
       LoadRefused, AppendRec, Refuse
  <2> QED BY <2>1, <2>2, <2>3
<1>2. CASE Start(p)
  <2>1. SUFFICES ASSUME NEW q \in Writers, Active(q) PROVE FALSE BY <1>1
  <2>2. "overlap" \in disturbed' BY <1>2, <2>1 DEF Start
  <2> QED BY <2>2
<1>3. CASE ~Start(p)
  <2>1. Active(p)
    BY <1>1, <1>3 DEF Write, BadLine, NextLine, EndOfFile, Check, Create, CreateRefused, Fill, Load,
       LoadRefused, AppendRec, CanTake, Active
  <2> QED BY <1>1, <2>1 DEF Undisturbed
<1> QED BY <1>1, <1>2, <1>3

LEMMA KeepsTurn ==
  ASSUME IInv, Undisturbed, NEW p \in Writers, Write(p), disturbed' = {} PROVE Turn(p)'
<1>1. TypeOK /\ Working(p) /\ p \in Procs BY DEF IInv, Procs
<1>2. /\ disturbed = {} /\ ~FillFails(p) /\ ~AppendFails(p) /\ ~Crash(p)
      /\ \A q \in Writers \ {p} : ~Active(q)
      /\ \A l \in Logs : InOrder(l)
  BY <1>1, Alone DEF Undisturbed
<1>3. CASE Check(p)
  <2>1. Log(p)' = Log(p) /\ files' = files BY <1>3 DEF Check, Log
  <2>2. pc'[p] = IF files[Log(p)].exists THEN "load" ELSE "create" BY <1>1, <1>3 DEF Check, GoTo, TypeOK
  <2> QED BY <2>1, <2>2 DEF Turn
<1>4. CASE Load(p)
  <2>1. Log(p)' = Log(p) /\ files' = files /\ cmd' = cmd BY <1>4 DEF Load, Log
  <2>2. Log(p) \in Logs BY <1>1, <1>4, CommandType DEF Load, Working, Busy, AtWork, Log
  <2>3. pc'[p] = "append" /\ loaded'[p] = files[Log(p)].recs /\ Loads(files[Log(p)], cmd[p].token)
    BY <1>1, <1>4 DEF Load, GoTo, TypeOK
  <2>4. files[Log(p)].recs # << >>
    <3>1. ~ \E q \in Writers : pc[q] = "fill"
      BY <1>2, <1>4, BusyActive DEF Load, AtWork
    <3>2. files[Log(p)].exists BY <1>2, <1>4 DEF Load, Turn, Undisturbed
    <3> QED BY <1>2, <2>2, <3>1, <3>2 DEF InOrder
  <2> QED BY <2>1, <2>3, <2>4 DEF Turn
<1>5. CASE ~Check(p) /\ ~Load(p)
  <2>1. pc'[p] \in {"next", "done", "check", "fill"}
    <3>1. p \in DOMAIN pc BY <1>1 DEF TypeOK
    <3>2. GoTo(p, "next") \/ GoTo(p, "done") \/ GoTo(p, "check") \/ GoTo(p, "fill")
      <4>1. Refuse(p) \/ Reported(p) \/ GoTo(p, NextOrDone(p)) => GoTo(p, "next") \/ GoTo(p, "done")
        BY DEF Refuse, Reported, NextOrDone
      <4>2. ~FillFails(p) /\ ~AppendFails(p) /\ ~Crash(p) BY <1>2
      <4> QED BY <1>5, <4>1, <4>2 DEF Write, Start, BadLine, NextLine, EndOfFile, Create,
              CreateRefused, Fill, LoadRefused, AppendRec
    <3> QED BY <3>1, <3>2 DEF GoTo
  <2> QED BY <2>1 DEF Turn
<1> QED BY <1>3, <1>4, <1>5

\* The record that a writer adds to the log it has loaded keeps it loading.
LEMMA StillLoads ==
  ASSUME NEW f \in File, NEW g \in File, NEW r \in Rec, NEW k,
         f.recs # << >>, Loads(f, k), g.salt = f.salt, g.tail = f.tail,
         g.recs = Append(f.recs, r), r.key = [token |-> k, salt |-> f.salt],
         r.prev = f.recs[Len(f.recs)].hash
  PROVE  Loads(g, k)
<1> DEFINE rs == f.recs
           ss == g.recs
           n  == Len(rs)
<1>1. rs \in Seq(Rec) /\ n \in Nat /\ n # 0 BY DEF File
<1>2. Len(ss) = n + 1 /\ ss[n+1] = r /\ \A i \in 1..n : ss[i] = rs[i] BY <1>1, AppendRecord
<1>3. ASSUME NEW i \in 1..Len(ss)
      PROVE  /\ ss[i].key = [token |-> k, salt |-> g.salt]
             /\ ss[i].prev = IF i = 1 THEN NoHash ELSE ss[i-1].hash
  <2>1. CASE i \in 1..n
    <3>1. ss[i] = rs[i] /\ (i # 1 => ss[i-1] = rs[i-1]) BY <1>1, <1>2, <2>1
    <3>2. /\ rs[i].key = [token |-> k, salt |-> f.salt]
          /\ rs[i].prev = IF i = 1 THEN NoHash ELSE rs[i-1].hash
      BY <2>1 DEF Loads
    <3> QED BY <3>1, <3>2
  <2>2. CASE i = n + 1
    <3>1. n \in 1..n /\ i - 1 = n /\ i # 1 BY <1>1, <2>2
    <3>2. ss[i] = r /\ ss[i-1] = rs[n] BY <1>2, <2>2, <3>1
    <3> QED BY <3>1, <3>2
  <2>3. i \in 1..n \/ i = n + 1 BY <1>1, <1>2
  <2> QED BY <2>1, <2>2, <2>3
<1> QED BY <1>3 DEF Loads

LEMMA EntriesGrow ==
  ASSUME NEW rs \in Seq(Rec), NEW r \in Rec
  PROVE  Entries(Append(rs, r)) = Append(Entries(rs), r.entry)
<1> DEFINE ss == Append(rs, r)
           n  == Len(rs)
           es == Entries(rs)
           fs == Entries(ss)
<1>1. n \in Nat /\ ss \in Seq(Rec) /\ Len(ss) = n + 1 /\ ss[n+1] = r
      /\ \A i \in 1..n : ss[i] = rs[i]
  BY AppendRecord
<1>2. es \in Seq(Entry) /\ Len(es) = n /\ \A i \in 1..n : es[i] = rs[i].entry BY EntriesOfRecs
<1>3. fs \in Seq(Entry) /\ Len(fs) = n + 1 /\ \A i \in 1..(n+1) : fs[i] = ss[i].entry
  BY <1>1, EntriesOfRecs
<1>4. r.entry \in Entry BY DEF Rec
<1> HIDE DEF es, fs, ss
<1>5. /\ Append(es, r.entry) \in Seq(Entry) /\ Len(Append(es, r.entry)) = n + 1
      /\ \A i \in 1..n : Append(es, r.entry)[i] = es[i]
      /\ Append(es, r.entry)[n+1] = r.entry
  BY <1>2, <1>4
<1>6. ASSUME NEW i \in 1..(n+1) PROVE fs[i] = Append(es, r.entry)[i]
  <2>1. CASE i \in 1..n BY <1>1, <1>2, <1>3, <1>5, <2>1
  <2>2. CASE i = n + 1 BY <1>1, <1>3, <1>5, <2>2
  <2>3. i \in 1..n \/ i = n + 1 BY <1>1
  <2> QED BY <2>1, <2>2, <2>3
<1>7. fs = Append(es, r.entry) BY <1>3, <1>5, <1>6, SeqEqual
<1> QED BY <1>7 DEF es, fs, ss

LEMMA KeepsOrder ==
  ASSUME IInv, Undisturbed, NEW p \in Writers, Write(p), disturbed' = {}, NEW l \in Logs
  PROVE  InOrder(l)'
<1> DEFINE f == files[l]
           g == files'[l]
           c == cmd[p]
<1>1. TypeOK /\ Unborn /\ Working(p) /\ Founding(p) /\ Extending(p) /\ p \in Procs
  BY DEF IInv, Procs
<1>2. disturbed = {} /\ (\A q \in Writers \ {p} : ~Active(q)) /\ InOrder(l) /\ Turn(p)
      /\ ~FillFails(p) /\ ~AppendFails(p) /\ ~Crash(p)
  BY <1>1, Alone DEF Undisturbed
<1>3. \A q \in Writers : pc[q] = "fill" => q = p BY <1>2, BusyActive DEF AtWork
<1>4. files \in [Logs -> File] /\ accepted \in [Logs -> Seq(Entry)] /\ f \in File
  BY <1>1 DEF TypeOK
<1>5. Create(p) \/ Fill(p) \/ AppendRec(p) => c \in Commands /\ Log(p) \in Logs /\ lines[p] > 0
  BY <1>1, CommandType DEF Create, Fill, AppendRec, Working, Busy, AtWork, Log
<1>6. CASE ~Create(p) /\ ~Fill(p) /\ ~AppendRec(p)
  <2>1. UNCHANGED <<files, accepted>>
    BY <1>2, <1>6 DEF Write, Start, BadLine, NextLine, EndOfFile, Check, CreateRefused, Load,
       LoadRefused, Refuse
  <2>2. pc[p] # "fill"
    BY <1>2, <1>6 DEF Write, Start, BadLine, NextLine, EndOfFile, Check, CreateRefused, Load,
       LoadRefused, CanTake
  <2>3. ~ \E q \in Writers : pc[q] = "fill" BY <1>3, <2>2
  <2> QED BY <1>2, <2>1, <2>3 DEF InOrder
<1>7. CASE l # Log(p) /\ (Create(p) \/ Fill(p) \/ AppendRec(p))
  <2>1. f = g /\ accepted'[l] = accepted[l]
    BY <1>4, <1>5, <1>7 DEF Create, Fill, AppendRec, Reported
  <2>2. ~ \E q \in Writers : pc[q] = "fill" /\ Log(q) = l BY <1>3, <1>7
  <2> QED BY <1>2, <2>1, <2>2 DEF InOrder
<1>8. CASE l = Log(p) /\ Create(p)
  <2>1. ~f.exists /\ g = EmptyFile /\ accepted'[l] = accepted[l]
    BY <1>4, <1>8 DEF Create
  <2>2. f.recs = << >> /\ f # EmptyFile BY <1>1, <2>1 DEF Unborn, NoFile, EmptyFile
  <2>3. accepted[l] = << >> BY <1>2, <2>2 DEF InOrder
  <2>4. pc'[p] = "fill" /\ Log(p)' = l BY <1>1, <1>8 DEF Create, GoTo, TypeOK, Log
  <2> QED BY <2>1, <2>3, <2>4 DEF InOrder
<1>9. CASE l = Log(p) /\ Fill(p)
  <2> DEFINE r == FirstRec(p)
  <2>1. f = EmptyFile BY <1>1, <1>9 DEF Fill, Founding
  <2>2. f.recs = << >> /\ f.exists /\ f.tail = "clean" BY <2>1 DEF EmptyFile
  <2>3. accepted[l] = << >> BY <1>2, <2>2 DEF InOrder
  <2>4. g = [f EXCEPT !.salt = p, !.recs = << r >>]
    BY <1>4, <1>9 DEF Fill, Filled
  <2>5. g.salt = p /\ g.recs = << r >> /\ g.tail = "clean" BY <1>4, <2>2, <2>4 DEF File
  <2>6. accepted'[l] = Append(accepted[l], c.entry) BY <1>4, <1>9 DEF Fill, Reported
  <2>7. p # NoSalt BY JNullsAssumption
  <2>8. r.key = [token |-> c.token, salt |-> p] /\ r.prev = NoHash /\ r.entry = c.entry
        /\ r \in Rec
    BY <1>1, <1>5, <1>9, FirstRecordType DEF FirstRec
  <2>9. Len(g.recs) = 1 /\ g.recs[1] = r BY <2>5
  <2>10. Loads(g, c.token)
    <3>1. ASSUME NEW i \in 1..Len(g.recs) PROVE i = 1 BY <2>9
    <3> HIDE DEF g, r
    <3> QED BY <2>5, <2>7, <2>8, <2>9, <3>1 DEF Loads
  <2>11. g.recs[1].key.token = c.token BY <2>8, <2>9
  <2>12. Entries(g.recs) = accepted'[l]
    <3>1. << r >> = Append(<< >>, r) /\ << >> \in Seq(Rec) OBVIOUS
    <3>2. Entries(<< >>) = << >> BY DEF Entries
    <3>3. Entries(g.recs) = Append(<< >>, c.entry)
      <4> HIDE DEF r, g, c
      <4> QED BY <2>5, <2>8, <3>1, <3>2, EntriesGrow
    <3> QED BY <2>3, <2>6, <3>3
  <2>13. g.recs # << >> BY <2>5
  <2> QED BY <2>10, <2>11, <2>12, <2>13 DEF InOrder
<1>10. CASE l = Log(p) /\ AppendRec(p)
  <2> DEFINE r == NewRec(p)
             rs == f.recs
  <2>1. rs # << >> /\ loaded[p] = rs /\ Loads(f, c.token) BY <1>2, <1>10 DEF AppendRec, Turn
  <2>2. f.salt # NoSalt /\ f.tail = "clean" BY <2>1 DEF Loads
  <2>3. r \in Rec BY <1>1, <1>5, <1>10, <2>2, NewRecType
  <2>4. rs \in Seq(Rec) BY <1>4 DEF File
  <2>5. g \in File
    <3>1. StepOf(p) BY DEF StepOf
    <3> QED BY <1>1, <3>1, FilesGrow
  <2>6. g.recs = Append(rs, r) /\ g.salt = f.salt /\ g.tail = f.tail
    BY <1>4, <1>10, <2>2 DEF AppendRec, Extended, File
  <2>7. /\ r.key = [token |-> c.token, salt |-> f.salt] /\ r.entry = c.entry
        /\ r.prev = rs[Len(rs)].hash
    BY <1>10, <2>1 DEF NewRec
  <2>8. Loads(g, c.token) BY <1>4, <2>1, <2>3, <2>5, <2>6, <2>7, StillLoads
  <2>9. g.recs[1] = rs[1] /\ g.recs # << >> /\ rs[1].key.token = c.token
    <3>1. 1 \in 1..Len(rs) BY <2>1, <2>4
    <3>2. rs[1].key = [token |-> c.token, salt |-> f.salt] BY <2>1, <3>1 DEF Loads
    <3>3. g.recs[1] = rs[1] /\ Len(g.recs) = Len(rs) + 1 BY <2>3, <2>4, <2>6, <3>1, AppendRecord
    <3>4. Len(<< >>) = 0 OBVIOUS
    <3>5. g.recs # << >> BY <3>1, <3>3, <3>4
    <3> QED BY <3>2, <3>3, <3>5
  <2>10. Entries(rs) = accepted[l]
    <3>1. f.exists BY <1>1, <2>1 DEF Unborn, NoFile
    <3>2. f # EmptyFile BY <2>1 DEF EmptyFile
    <3> QED BY <1>2, <3>1, <3>2 DEF InOrder
  <2>11. accepted'[l] = Append(accepted[l], c.entry) BY <1>4, <1>10 DEF AppendRec, Reported
  <2>12. Entries(g.recs) = accepted'[l]
    <3> HIDE DEF r, rs, g, c
    <3> QED BY <2>3, <2>4, <2>6, <2>7, <2>10, <2>11, EntriesGrow
  <2> HIDE DEF r, c
  <2> QED BY <2>8, <2>9, <2>12 DEF InOrder
<1> QED BY <1>6, <1>7, <1>8, <1>9, <1>10

LEMMA InitUndisturbed == Init => Undisturbed
<1> SUFFICES ASSUME Init PROVE Undisturbed OBVIOUS
<1>1. \A p \in Writers : pc[p] = "idle" BY DEF Init, Procs
<1>2. \A l \in Logs : InOrder(l) BY DEF Init, NoFile, InOrder
<1> QED BY <1>1, <1>2 DEF Undisturbed, Active, Turn

LEMMA NextUndisturbed == IInv /\ Undisturbed /\ [Next]_vars => Undisturbed'
<1>1. ASSUME IInv, Undisturbed, NEW p \in Writers, Write(p), disturbed' = {}
      PROVE  /\ \A q, r \in Writers : Active(q)' /\ Active(r)' => q = r
             /\ \A q \in Writers : Turn(q)'
             /\ \A l \in Logs : InOrder(l)'
  <2>1. TypeOK BY <1>1 DEF IInv
  <2>2. \A q \in Writers \ {p} : ~Active(q) BY <1>1, <2>1, Alone
  <2>3. \A q \in Writers \ {p} : pc'[q] = pc[q]
    BY <1>1, <2>1, OthersUntouched DEF Untouched, StepOf, Procs
  <2>4. \A q \in Writers \ {p} : ~Active(q)' /\ pc'[q] \in {"idle", "done"} BY <2>2, <2>3 DEF Active
  <2>5. Turn(p)' BY <1>1, KeepsTurn
  <2>6. \A q \in Writers \ {p} : Turn(q)' BY <2>4 DEF Turn
  <2>7. \A l \in Logs : InOrder(l)' BY <1>1, KeepsOrder
  <2> QED BY <2>4, <2>5, <2>6, <2>7
<1>2. ASSUME IInv, Undisturbed, NEW p \in Readers, Ask(p) \/ Read(p) PROVE Undisturbed'
  <2>1. UNCHANGED <<files, accepted, disturbed, loaded>> BY <1>2 DEF Ask, Read
  <2>2. \A q \in Writers : pc'[q] = pc[q] /\ cmd'[q] = cmd[q]
    BY <1>2, OthersUntouched, JProcsAssumption DEF Untouched, StepOf, Procs, IInv
  <2> QED BY <1>2, <2>1, <2>2 DEF Undisturbed, Active, Turn, InOrder, Log
<1>3. ASSUME Undisturbed, UNCHANGED vars PROVE Undisturbed'
  BY <1>3 DEF vars, Undisturbed, Active, Turn, InOrder, Log
<1>4. ASSUME IInv, Undisturbed, NEW p \in Writers, Write(p) PROVE Undisturbed'
  BY <1>1, <1>4 DEF Undisturbed
<1> QED BY <1>2, <1>3, <1>4 DEF Next

LEMMA UndisturbedInvariance == Spec => []Undisturbed
BY Invariance, InitUndisturbed, NextUndisturbed, PTL DEF Spec

\* Under its own token a log that is in order loads, and replays.
LEMMA OrderLoads ==
  ASSUME IInv, NEW l \in Logs, InOrder(l), files[l].recs # << >>
  PROVE  /\ files[l].exists
         /\ files[l].recs[1].key.token \in Tokens
         /\ Loads(files[l], files[l].recs[1].key.token)
         /\ Entries(files[l].recs) = accepted[l] /\ accepted[l] # << >>
         /\ Replays(Entries(files[l].recs))
<1> DEFINE f == files[l]
<1>1. TypeOK /\ Unborn /\ LinksHold(f.recs) BY DEF IInv
<1>2. f \in File /\ f.recs \in Seq(Rec) BY <1>1 DEF TypeOK, File
<1>3. f.exists BY <1>1 DEF Unborn, NoFile
<1>4. f # EmptyFile BY DEF EmptyFile
<1>5. Loads(f, f.recs[1].key.token) /\ Entries(f.recs) = accepted[l]
  BY <1>3, <1>4 DEF InOrder
<1>6. f.recs[1] \in Rec BY <1>2
<1>7. f.recs[1].key.token \in Tokens BY <1>6 DEF Rec, Key
<1>8. Entries(f.recs) \in Seq(Entry) /\ Len(Entries(f.recs)) = Len(f.recs) BY <1>2, EntriesOfRecs
<1>9. Entries(f.recs) # << >> BY <1>2, <1>8
<1>10. ValidLog(Entries(f.recs)) BY <1>1, <1>5, LoadsValid
<1>11. Replays(Entries(f.recs)) BY <1>8, <1>10, ReplaysIff
<1> QED BY <1>3, <1>5, <1>7, <1>9, <1>11

(* Writers that run one at a time, and are neither killed nor fail, leave a log *)
(* that loads under the token it was founded with, as exactly what they were    *)
(* told has been appended.                                                      *)
THEOREM JavaCleanLogReads == Spec => []CleanLogReads
<1>1. IInv /\ Undisturbed => CleanLogReads
  <2> SUFFICES ASSUME IInv, Undisturbed, disturbed = {}, Idle, NEW l \in Logs
               PROVE  \/ ~files[l].exists /\ accepted[l] = << >>
                      \/ /\ \E k \in Tokens : Loads(files[l], k)
                         /\ Entries(files[l].recs) = accepted[l]
    BY DEF CleanLogReads
  <2>1. InOrder(l) BY DEF Undisturbed
  <2>2. ~ \E p \in Writers : pc[p] = "fill" BY BusyActive DEF Idle, AtWork
  <2> QED BY <2>1, <2>2, OrderLoads DEF InOrder
<1> QED BY <1>1, Invariance, UndisturbedInvariance, PTL

(* One at a time, an entry is refused only if it may not follow the entries     *)
(* accepted so far, or for its token.                                           *)
THEOREM JavaRefusalJustified == Spec => RefusalJustified
<1> DEFINE Justified(p) ==
      LET es == accepted[Log(p)] IN
      \/ ~Follows(es, Len(es), cmd[p].entry)
      \/ es # << >> /\ files[Log(p)].recs[1].key.token # cmd[p].token
<1>1. ASSUME IInv, Undisturbed, Next, NEW p \in Writers,
             pc[p] \in {"create", "load"}, pc'[p] = NextOrDone(p), disturbed' = {}
      PROVE  Justified(p)
  <2> DEFINE f == files[Log(p)]
             es == accepted[Log(p)]
             e == cmd[p].entry
  <2>1. TypeOK /\ Unborn /\ Working(p) /\ p \in Procs BY <1>1 DEF IInv, Procs
  <2>2. Write(p)
    <3>1. PICK q \in Procs : StepOf(q) BY <1>1, SomebodysStep
    <3>2. q = p
      <4>1. pc'[p] # pc[p] BY <1>1 DEF NextOrDone
      <4> QED BY <2>1, <3>1, <4>1, OthersUntouched DEF Untouched
    <3> QED BY <3>1, <3>2, JProcsAssumption DEF StepOf
  <2>3. /\ disturbed = {} /\ ~FillFails(p) /\ ~AppendFails(p) /\ ~Crash(p)
        /\ \A q \in Writers \ {p} : ~Active(q)
    BY <1>1, <2>1, <2>2, Alone
  <2>4. cmd[p] \in Commands BY <1>1, <2>1 DEF Working, Busy, AtWork
  <2>5. Log(p) \in Logs /\ e \in Entry BY <2>4, CommandType DEF Log
  <2>6. InOrder(Log(p)) /\ Turn(p) BY <1>1, <2>3, <2>5 DEF Undisturbed
  <2>7. f \in File /\ f.recs \in Seq(Rec) BY <2>1, <2>5 DEF TypeOK, File
  <2>8. CASE pc[p] = "create"
    <3>1. ~f.exists BY <2>6, <2>8 DEF Turn
    <3>2. f.recs = << >> /\ f # EmptyFile BY <2>1, <2>5, <3>1 DEF Unborn, NoFile, EmptyFile
    <3>3. es = << >> BY <2>6, <3>2 DEF InOrder
    <3>4. CreateRefused(p)
      <4>1. Create(p) => pc'[p] = "fill" BY <2>1 DEF Create, GoTo, TypeOK
      <4>2. ~Create(p) BY <1>1, <4>1 DEF NextOrDone
      <4> QED BY <2>2, <2>3, <2>8, <4>2 DEF Write, Start, BadLine, NextLine, EndOfFile, Check, Fill,
              Load, LoadRefused, AppendRec, CanTake
    <3>5. ~MayFollow(<< >>, e) BY <3>1, <3>4 DEF CreateRefused
    <3>6. << >> \in Seq(Entry) /\ Len(<< >>) = 0 OBVIOUS
    <3>7. ~Follows(<< >>, Len(<< >>), e) BY <2>5, <3>5, <3>6, MayFollowIff
    <3> QED BY <3>3, <3>7
  <2>9. CASE pc[p] = "load"
    <3>1. f.exists BY <2>6, <2>9 DEF Turn
    <3>2. ~ \E q \in Writers : pc[q] = "fill" BY <2>3, <2>9, BusyActive DEF AtWork
    <3>3. f.recs # << >> BY <2>6, <3>1, <3>2 DEF InOrder
    <3>4. /\ Loads(f, f.recs[1].key.token) /\ Entries(f.recs) = es /\ es # << >>
          /\ Replays(Entries(f.recs))
      BY <1>1, <2>5, <2>6, <3>3, OrderLoads
    <3>5. LoadRefused(p)
      <4>1. Load(p) => pc'[p] = "append" BY <2>1 DEF Load, GoTo, TypeOK
      <4>2. ~Load(p) BY <1>1, <4>1 DEF NextOrDone
      <4> QED BY <2>2, <2>3, <2>9, <4>2 DEF Write, Start, BadLine, NextLine, EndOfFile, Check, Create,
              CreateRefused, Fill, AppendRec, CanTake
    <3>6. SUFFICES ASSUME f.recs[1].key.token = cmd[p].token PROVE ~Follows(es, Len(es), e)
      BY <3>4
    <3>7. ~MayFollow(es, e) BY <3>4, <3>5, <3>6 DEF LoadRefused
    <3>8. es \in Seq(Entry) BY <2>1, <2>5 DEF TypeOK
    <3> QED BY <2>5, <3>7, <3>8, MayFollowIff
  <2> QED BY <1>1, <2>8, <2>9
<1>2. IInv /\ Undisturbed /\ [Next]_vars =>
        [\A p \in Writers :
           pc[p] \in {"create", "load"} /\ pc'[p] = NextOrDone(p) /\ disturbed' = {} =>
             LET es == accepted[Log(p)] IN
             \/ ~Follows(es, Len(es), cmd[p].entry)
             \/ es # << >> /\ files[Log(p)].recs[1].key.token # cmd[p].token]_vars
  BY <1>1
<1> QED BY <1>2, Invariance, UndisturbedInvariance, PTL DEF Spec, RefusalJustified

(* While a single writer works on it, a log answers whoever has its token.      *)
THEOREM JavaReaderServed == Spec => ReaderServed
<1>1. ASSUME IInv, Undisturbed, Next, NEW p \in Readers,
             pc[p] = "read", pc'[p] = "refused", disturbed = {}, files[Log(p)].recs # << >>
      PROVE  files[Log(p)].recs[1].key.token # cmd[p].token
  <2>1. TypeOK /\ Working(p) /\ p \in Procs BY <1>1 DEF IInv, Procs
  <2>2. Read(p)
    <3>1. PICK q \in Procs : StepOf(q) BY <1>1, SomebodysStep
    <3>2. q = p BY <1>1, <2>1, <3>1, OthersUntouched DEF Untouched
    <3> QED BY <1>1, <3>1, <3>2, JProcsAssumption DEF StepOf, Ask
  <2>3. cmd[p] \in Queries BY <1>1, <2>1 DEF Working
  <2>4. Log(p) \in Logs BY <2>3, CommandType DEF Log
  <2>5. InOrder(Log(p)) BY <1>1, <2>4 DEF Undisturbed
  <2>6. /\ files[Log(p)].exists /\ Replays(Entries(files[Log(p)].recs))
        /\ Loads(files[Log(p)], files[Log(p)].recs[1].key.token)
    BY <1>1, <2>4, <2>5, OrderLoads
  <2>7. Loads(files[Log(p)], cmd[p].token) => pc'[p] = "done"
    BY <2>1, <2>2, <2>6 DEF Read, GoTo, TypeOK
  <2> QED BY <1>1, <2>6, <2>7
<1>2. IInv /\ Undisturbed /\ [Next]_vars =>
        [\A p \in Readers :
           pc[p] = "read" /\ pc'[p] = "refused" /\ disturbed = {} =>
             \/ files[Log(p)].recs = << >>
             \/ files[Log(p)].recs[1].key.token # cmd[p].token]_vars
  BY <1>1
<1> QED BY <1>2, Invariance, UndisturbedInvariance, PTL DEF Spec, ReaderServed
===============================================================================
