------------------------------ MODULE CLog_proofs ------------------------------
(* Proofs about CLog, for any processes, logs, paths, tokens and commands. No  *)
(* lock protects a log and its header; what does is that an entry goes out     *)
(* once and names its place and its predecessor. The invariant follows, for    *)
(* every context, the one log its next entry would fit on: when a file is that *)
(* log, the context's places are the file's.                                   *)
EXTENDS CLog, Gallery_proofs, SequenceTheorems

------------------------------------------------------------------------------
(* The inductive invariant *)

\* On a command line.
AtLine == {"authenticate", "open", "create", "load", "process"}

Working(p) ==
  /\ p \in Writers => (pc[p] \in AtLine => cmd[p] \in Commands /\ lines[p] > 0)
  /\ p \in Readers => /\ pc[p] \in {"idle", "header", "entries", "done", "refused"}
                      /\ pc[p] \in {"header", "entries"} => cmd[p] \in Queries
                      /\ pc[p] = "entries" => header[p] \in Header

\* A context is filled in by authenticate_log, then by load_state.
Staged(c) ==
  /\ ~c.authenticated => c = NewContext
  /\ c.authenticated => c.key \in Key
  /\ c.state_loaded \/ c.header_dirty => c.authenticated
  /\ ~c.state_loaded => c.loc = [w \in Person |-> Absent]

\* The line a writer is on has come through the stages before it.
OnStage(p) ==
  /\ pc[p] \in {"open", "create"} => ~Ctx(p).authenticated
  /\ pc[p] \in {"load", "process"} => Ctx(p).authenticated
  /\ pc[p] = "process" => Ctx(p).state_loaded

\* The buffer holds the last entries of those that the context counts, in a chain.
Buffered(c, b) ==
  /\ ~c.state_loaded => b = << >>
  /\ Len(b) <= c.total_entries
  /\ \A i \in 1..Len(b) : b[i].seq = c.total_entries - Len(b) + i
  /\ \A i \in 2..Len(b) : b[i].prev_tag = b[i-1].tag
  /\ b # << >> => b[Len(b)].tag = c.last_tag

\* The log that context and buffer continue: its length and its last tag.
BaseLen(c, b) == c.total_entries - Len(b)
BaseTag(c, b) == IF b = << >> THEN c.last_tag ELSE b[1].prev_tag

\* Tags that are in a file, or that a context would link to.
SettledTags ==
  {x \in Tag :
     \/ \E l \in Logs : \/ \E i \in 1..Len(files[l].recs) : files[l].recs[i].tag = x
                        \/ files[l].header # NoHeader /\ files[l].header.text.last_tag = x
     \/ \E p \in Writers, t \in Paths : BaseTag(ctx[p][t], buf[p][t]) = x}

\* Tags on their way to a file.
PendingTags ==
  {x \in Tag : \E p \in Writers, t \in Paths : \E i \in 1..Len(buf[p][t]) : buf[p][t][i].tag = x}

\* A line draws one tag, and a writer at a line has not drawn its tag yet.
DrawnTags == {x \in Tag : /\ x.line <= lines[x.by]
                          /\ pc[x.by] \in AtLine => x.line < lines[x.by]}

\* An entry goes out once.
GoesOutOnce == /\ SettledTags \cup PendingTags \subseteq DrawnTags
               /\ SettledTags \cap PendingTags = {}

Distinct ==
  \A p, q \in Writers, t, u \in Paths :
    \A i \in 1..Len(buf[p][t]), j \in 1..Len(buf[q][u]) :
      buf[p][t][i].tag = buf[q][u][j].tag => p = q /\ t = u /\ i = j

\* The entries of rs, then those of b.
Story(rs, b) == [i \in 1..(Len(rs) + Len(b)) |->
                   IF i <= Len(rs) THEN rs[i].body.text ELSE b[i - Len(rs)].body.text]

Legal(es, i) == PlacedAt(es, i-1, es[i].who, From(es[i]))

\* The records rs are a chain that the next entry would fit on.
Fits(rs, c, b) == /\ Len(rs) = BaseLen(c, b)
                  /\ rs # << >> => rs[Len(rs)].tag = BaseTag(c, b)
                  /\ \A i \in 1..Len(rs) : Linked(rs, i)

\* What is buffered may follow rs, and the context's places are what comes of it.
Continues(rs, c, b) ==
  /\ \A i \in (Len(rs)+1)..(Len(rs) + Len(b)) : Legal(Story(rs, b), i)
  /\ \A w \in Person : PlacedAt(Story(rs, b), Len(rs) + Len(b), w, c.loc[w])

\* Once its file is loaded a context knows the places, if it is still that file.
Knows(c, b, rs) ==
  c.state_loaded => \A ss \in {<< >>, rs} : Fits(ss, c, b) => Continues(ss, c, b)

\* A record that is where it says, at the end of a chain, may be there.
LinksHold(rs) ==
  \A i \in 1..Len(rs) :
    rs[i].seq = i /\ (\A j \in 1..i : Linked(rs, j)) => Legal(Entries(rs), i)

TInv == /\ TypeOK
        /\ \A p \in Procs : Working(p)
        /\ \A p \in Writers : OnStage(p)
        /\ \A p \in Writers, t \in Paths : Staged(ctx[p][t])

Chained == /\ \A p \in Writers, t \in Paths : /\ Buffered(ctx[p][t], buf[p][t])
                                              /\ Knows(ctx[p][t], buf[p][t], files[FileOf[t]].recs)
           /\ GoesOutOnce /\ Distinct
           /\ \A l \in Logs : LinksHold(files[l].recs)

IInv == TInv /\ Chained /\ AnswersAreHistories

------------------------------------------------------------------------------
(* Types of the helpers *)

LEMMA CommandType ==
  /\ \A c \in Commands : /\ c.path \in Paths /\ c.token \in Tokens /\ c.entry \in Entry
                         /\ FileOf[c.path] \in Logs
  /\ \A q \in Queries : /\ q.path \in Paths /\ q.token \in Tokens
                        /\ FileOf[q.path] \in Logs
BY CCommandsAssumption, CQueriesAssumption, CPathsAssumption

\* What a writer on a line has to work with.
LEMMA OnLine ==
  ASSUME TInv, NEW p \in Writers, pc[p] \in AtLine
  PROVE  /\ cmd[p] \in Commands /\ Path(p) \in Paths /\ Log(p) \in Logs
         /\ Log(p) = FileOf[Path(p)] /\ Ctx(p) = ctx[p][Path(p)]
         /\ cmd[p].token \in Tokens /\ cmd[p].entry \in Entry
         /\ lines[p] \in Nat \ {0} /\ p \in Procs
         /\ files[Log(p)] \in File /\ Ctx(p) \in Context /\ Staged(Ctx(p))
         /\ buf[p][Path(p)] \in Seq(Rec)
<1>1. TypeOK /\ Working(p) BY DEF TInv, Procs
<1>2. cmd[p] \in Commands /\ lines[p] > 0 BY <1>1 DEF Working
<1>3. Path(p) \in Paths /\ Log(p) \in Logs /\ cmd[p].token \in Tokens /\ cmd[p].entry \in Entry
  BY <1>2, CommandType DEF Path, Log
<1>4. p \in Procs BY DEF Procs
<1>5. lines[p] \in Nat \ {0} BY <1>1, <1>2, <1>4 DEF TypeOK
<1>6. ctx[p] \in [Paths -> Context] /\ buf[p] \in [Paths -> Seq(Rec)] BY <1>1 DEF TypeOK
<1>7. Ctx(p) \in Context /\ buf[p][Path(p)] \in Seq(Rec) /\ files[Log(p)] \in File
  BY <1>1, <1>3, <1>6 DEF TypeOK, Ctx
<1>8. Staged(Ctx(p)) BY <1>3 DEF TInv, Ctx
<1> QED BY <1>2, <1>3, <1>4, <1>5, <1>7, <1>8 DEF Log, Ctx

LEMMA CtxSet ==
  ASSUME TypeOK, NEW p \in Writers, NEW t \in Paths, NEW c \in Context,
         ctx' = [ctx EXCEPT ![p][t] = c]
  PROVE  /\ ctx' \in [Writers -> [Paths -> Context]] /\ ctx'[p][t] = c
         /\ \A q \in Writers, u \in Paths : q # p \/ u # t => ctx'[q][u] = ctx[q][u]
<1>1. ctx \in [Writers -> [Paths -> Context]] BY DEF TypeOK
<1>2. ctx' = [ctx EXCEPT ![p] = [ctx[p] EXCEPT ![t] = c]] BY <1>1
<1>3. [ctx[p] EXCEPT ![t] = c] \in [Paths -> Context] BY <1>1
<1>4. ctx' \in [Writers -> [Paths -> Context]] /\ ctx'[p] = [ctx[p] EXCEPT ![t] = c]
      /\ \A q \in Writers : q # p => ctx'[q] = ctx[q]
  BY <1>1, <1>2, <1>3
<1>5. ctx'[p][t] = c /\ \A u \in Paths : u # t => ctx'[p][u] = ctx[p][u] BY <1>1, <1>4
<1> QED BY <1>4, <1>5

LEMMA BufSet ==
  ASSUME TypeOK, NEW p \in Writers, NEW t \in Paths, NEW b \in Seq(Rec),
         buf' = [buf EXCEPT ![p][t] = b]
  PROVE  /\ buf' \in [Writers -> [Paths -> Seq(Rec)]] /\ buf'[p][t] = b
         /\ \A q \in Writers, u \in Paths : q # p \/ u # t => buf'[q][u] = buf[q][u]
<1>1. buf \in [Writers -> [Paths -> Seq(Rec)]] BY DEF TypeOK
<1>2. buf' = [buf EXCEPT ![p] = [buf[p] EXCEPT ![t] = b]] BY <1>1
<1>3. [buf[p] EXCEPT ![t] = b] \in [Paths -> Seq(Rec)] BY <1>1
<1>4. buf' \in [Writers -> [Paths -> Seq(Rec)]] /\ buf'[p] = [buf[p] EXCEPT ![t] = b]
      /\ \A q \in Writers : q # p => buf'[q] = buf[q]
  BY <1>1, <1>2, <1>3
<1>5. buf'[p][t] = b /\ \A u \in Paths : u # t => buf'[p][u] = buf[p][u] BY <1>1, <1>4
<1> QED BY <1>4, <1>5

LEMMA FileSet ==
  ASSUME TypeOK, NEW l \in Logs, NEW f \in File, files' = [files EXCEPT ![l] = f]
  PROVE  files' \in [Logs -> File] /\ files'[l] = f /\ \A k \in Logs : k # l => files'[k] = files[k]
BY DEF TypeOK

\* The files that come of the writes.
LEMMA NewFileType ==
  /\ NoFile \in File /\ EmptyFile \in File /\ NoFile.recs = << >> /\ NoFile.header = NoHeader
  /\ EmptyFile.recs = << >> /\ EmptyFile.header = NoHeader
BY DEF NoFile, EmptyFile, File, Ending

LEMMA FoundedType ==
  ASSUME NEW f \in File, NEW p \in Writers, NEW h \in Header
  PROVE  LET g == [f EXCEPT !.salt = p, !.header = h] IN
         g \in File /\ g.recs = f.recs /\ g.header = h
BY DEF File

LEMMA HeaderSetType ==
  ASSUME NEW f \in File, NEW h \in Header \cup {NoHeader}
  PROVE  LET g == [f EXCEPT !.header = h] IN
         g \in File /\ g.recs = f.recs /\ g.header = h
BY DEF File

LEMMA CutType ==
  ASSUME NEW f \in File, NEW g \in Cut(f)
  PROVE  g \in File /\ g.recs = f.recs /\ g.header = f.header
BY DEF File, Cut, Ending

LEMMA PutType ==
  ASSUME NEW f \in File, NEW r \in Rec, NEW g \in Put(f, r)
  PROVE  /\ g \in File /\ g.header = f.header
         /\ g.recs = f.recs \/ g.recs = Append(f.recs, r)
<1>1. CASE f.salt = NoSalt /\ f.tail = "clean" BY <1>1 DEF File, Put, Ending
<1>2. CASE f.tail # "clean" BY <1>2 DEF File, Put, Ending
<1>3. CASE f.salt # NoSalt /\ f.tail = "clean"
  <2>1. g = [f EXCEPT !.recs = Append(@, r)] BY <1>3 DEF Put
  <2>2. Append(f.recs, r) \in Seq(Rec) BY DEF File
  <2> QED BY <2>1, <2>2 DEF File
<1> QED BY <1>1, <1>2, <1>3

LEMMA HeaderType ==
  /\ \A k \in Key, n \in Nat, ts \in Nat, x \in Tag \cup {NoTag} :
       crypt(k, [total_entries |-> n, last_timestamp |-> ts, last_tag |-> x]) \in Header
  /\ \A h \in Header : /\ h.key \in Key /\ h.text.total_entries \in Nat
                       /\ h.text.last_timestamp \in Nat /\ h.text.last_tag \in Tag \cup {NoTag}
BY DEF crypt, Header, Sealed, HeaderText

LEMMA ContextFields ==
  ASSUME NEW c \in Context
  PROVE  /\ c.total_entries \in Nat /\ c.last_timestamp \in Nat /\ c.last_tag \in Tag \cup {NoTag}
         /\ c.loc \in [Person -> Place] /\ c.key \in Key \cup {NoKey}
BY DEF Context

LEMMA NewContextType ==
  /\ NewContext \in Context /\ Staged(NewContext)
  /\ NewContext.total_entries = 0 /\ NewContext.last_tag = NoTag /\ ~NewContext.state_loaded
  /\ NewContext.loc = [w \in Person |-> Absent]
BY DEF NewContext, Context, Place, Staged

\* The key, the counts and the tag that authenticate_log takes from a header.
LEMMA AuthenticatedType ==
  ASSUME NEW c \in Context, ~c.authenticated, Staged(c), NEW h \in Header
  PROVE  LET d == [c EXCEPT !.authenticated  = TRUE,
                            !.key            = h.key,
                            !.total_entries  = h.text.total_entries,
                            !.last_timestamp = h.text.last_timestamp,
                            !.last_tag       = h.text.last_tag]
         IN  /\ d \in Context /\ Staged(d) /\ ~d.state_loaded /\ d.authenticated
             /\ d.total_entries = h.text.total_entries /\ d.last_tag = h.text.last_tag
<1>1. ~c.state_loaded /\ c.loc = [w \in Person |-> Absent] BY DEF Staged
<1> QED BY <1>1, HeaderType DEF Context, Staged

\* The context of a log just made.
LEMMA FoundedContext ==
  ASSUME NEW k \in Key
  PROVE  LET d == [NewContext EXCEPT !.authenticated = TRUE, !.key = k]
         IN  /\ d \in Context /\ Staged(d) /\ ~d.state_loaded /\ d.authenticated
             /\ d.total_entries = 0 /\ d.last_tag = NoTag
<1>1. NewContext \in Context BY NewContextType
<1> QED BY <1>1, NewContextType DEF Context, Staged

\* What load_state and append_log make of a context, field by field.
LEMMA LoadedContext ==
  ASSUME NEW c \in Context, c.authenticated, Staged(c), NEW f \in [Person -> Place]
  PROVE  LET d == [c EXCEPT !.state_loaded = TRUE, !.loc = f]
         IN  /\ d \in Context /\ Staged(d) /\ d.state_loaded /\ d.loc = f /\ d.authenticated
             /\ d.total_entries = c.total_entries /\ d.last_tag = c.last_tag
BY DEF Context, Staged

LEMMA LoadedEmpty ==
  ASSUME NEW c \in Context, c.authenticated, Staged(c)
  PROVE  LET d == [c EXCEPT !.state_loaded = TRUE]
         IN  /\ d \in Context /\ Staged(d) /\ d.state_loaded /\ d.loc = c.loc /\ d.authenticated
             /\ d.total_entries = c.total_entries /\ d.last_tag = c.last_tag
BY DEF Context, Staged

LEMMA CleanContext ==
  ASSUME NEW c \in Context, Staged(c), c.header_dirty
  PROVE  LET d == [c EXCEPT !.header_dirty = FALSE]
         IN  /\ d \in Context /\ Staged(d) /\ d.loc = c.loc
             /\ d.authenticated = c.authenticated /\ d.state_loaded = c.state_loaded
             /\ d.total_entries = c.total_entries /\ d.last_tag = c.last_tag
BY DEF Context, Staged

LEMMA NewRecType ==
  ASSUME TInv, NEW p \in Writers, pc[p] = "process"
  PROVE  /\ NewRec(p) \in Rec /\ NewRec(p).tag = [by |-> p, line |-> lines[p]]
         /\ NewRec(p).seq = Ctx(p).total_entries + 1 /\ NewRec(p).prev_tag = Ctx(p).last_tag
         /\ NewRec(p).body.text = cmd[p].entry
<1>1. pc[p] \in AtLine BY DEF AtLine
<1>2. Ctx(p).authenticated BY <1>1, OnLine DEF TInv, OnStage
<1>3. Ctx(p).key \in Key BY <1>1, <1>2, OnLine DEF Staged
<1>4. Ctx(p).total_entries + 1 \in Nat /\ Ctx(p).last_tag \in Tag \cup {NoTag}
  BY <1>1, OnLine, ContextFields
<1> QED BY <1>1, <1>3, <1>4, OnLine DEF NewRec, Rec, Tag, Sealed, crypt

LEMMA AdvancedType ==
  ASSUME TInv, NEW p \in Writers, pc[p] = "process"
  PROVE  LET d == Advanced(p) IN
         /\ d \in Context /\ Staged(d) /\ d.state_loaded
         /\ d.total_entries = Ctx(p).total_entries + 1 /\ d.last_tag = NewRec(p).tag
         /\ d.loc = [Ctx(p).loc EXCEPT ![cmd[p].entry.who] = To(cmd[p].entry)]
<1> DEFINE c == Ctx(p)
           e == cmd[p].entry
           d == Advanced(p)
<1>1. pc[p] \in AtLine BY DEF AtLine
<1>2. c \in Context /\ Staged(c) /\ e \in Entry BY <1>1, OnLine
<1>3. c.authenticated /\ c.state_loaded BY DEF TInv, OnStage
<1>4. NewRec(p).tag \in Tag \cup {NoTag} BY NewRecType DEF Rec
<1>5. e.who \in Person /\ e.timestamp \in Nat /\ To(e) \in Place
  BY <1>2, ToFromPlace, MaxTsAssumption DEF Entry
<1>6. c.total_entries + 1 \in Nat /\ c.loc \in [Person -> Place] BY <1>2, ContextFields
<1>7. [c.loc EXCEPT ![e.who] = To(e)] \in [Person -> Place] BY <1>5, <1>6
<1>8. d = [c EXCEPT !.total_entries = c.total_entries + 1, !.last_timestamp = e.timestamp,
                    !.last_tag = NewRec(p).tag, !.header_dirty = TRUE,
                    !.loc = [c.loc EXCEPT ![e.who] = To(e)]]
  BY <1>2 DEF Advanced, update_person_state, Context
<1>9. /\ d \in Context /\ d.authenticated = c.authenticated /\ d.key = c.key
      /\ d.state_loaded = c.state_loaded /\ d.total_entries = c.total_entries + 1
      /\ d.last_tag = NewRec(p).tag /\ d.loc = [c.loc EXCEPT ![e.who] = To(e)]
  <2> HIDE DEF c, e
  <2> QED BY <1>2, <1>4, <1>5, <1>6, <1>7, <1>8 DEF Context
<1>10. Staged(d)
  <2> HIDE DEF c, d
  <2> QED BY <1>2, <1>3, <1>9 DEF Staged
<1> QED BY <1>3, <1>9, <1>10

\* The places that load_state reads off the entries.
LEMMA LoadedPlaces ==
  ASSUME NEW rs \in Seq(Rec)
  PROVE  /\ [w \in Person |-> LastPlace(Entries(rs), w)] \in [Person -> Place]
         /\ \A w \in Person : PlacedAt(Entries(rs), Len(rs), w, LastPlace(Entries(rs), w))
<1>1. Len(rs) \in Nat /\ Len(Entries(rs)) = Len(rs) BY DEF Entries
<1>2. ASSUME NEW i \in 1..Len(rs) PROVE Entries(rs)[i] \in Entry
  <2>1. rs[i] \in Rec OBVIOUS
  <2> QED BY <2>1 DEF Entries, Rec, Sealed
<1>3. ASSUME NEW w \in Person
      PROVE  /\ LastPlace(Entries(rs), w) \in Place
             /\ PlacedAt(Entries(rs), Len(rs), w, LastPlace(Entries(rs), w))
  <2>1. \E pl \in Place : PlacedAt(Entries(rs), Len(rs), w, pl) BY <1>1, <1>2, PlacedSomewhere
  <2> QED BY <1>1, <2>1 DEF LastPlace
<1> QED BY <1>3

------------------------------------------------------------------------------
(* What a step changes *)

\* A step of one process.
StepOf(p) == (p \in Writers /\ Write(p)) \/ (p \in Readers /\ ReadLog(p))

Untouched(q) ==
  /\ pc'[q] = pc[q] /\ cmd'[q] = cmd[q] /\ lines'[q] = lines[q]
  /\ q \in Writers => \A t \in Paths : ctx'[q][t] = ctx[q][t] /\ buf'[q][t] = buf[q][t]
  /\ q \in Readers => header'[q] = header[q] /\ answer'[q] = answer[q]

LEMMA OthersUntouched ==
  ASSUME TypeOK, NEW p \in Procs, StepOf(p), NEW q \in Procs, q # p
  PROVE  Untouched(q)
<1> USE DEF TypeOK, GoTo, SetCtx
<1>1. CASE p \in Writers /\ Write(p)
  <2> USE DEF Write, Start, BadLine, NestedBatch, NextLine, Authenticate, OpenNew, OpenFails,
              WriteNew, WriteNewFails, Load, Reject, AppendLog, AppendDies, EndOfFile, Exit,
              Crash, Flush, FlushFails, UpdateHeader, UpdateHeaderFails, Refuse, Abort
  <2>1. pc'[q] = pc[q] BY <1>1
  <2>2. cmd'[q] = cmd[q] BY <1>1
  <2>3. lines'[q] = lines[q] BY <1>1
  <2>4. q \in Writers => ctx'[q] = ctx[q] BY <1>1
  <2>5. q \in Writers => buf'[q] = buf[q] BY <1>1
  <2>6. header' = header /\ answer' = answer BY <1>1
  <2> QED BY <2>1, <2>2, <2>3, <2>4, <2>5, <2>6 DEF Untouched
<1>2. CASE p \in Readers /\ ReadLog(p)
  <2> USE DEF ReadLog, Ask, ReadHeader, ReadEntries
  <2>1. pc'[q] = pc[q] BY <1>2
  <2>2. cmd'[q] = cmd[q] BY <1>2
  <2>3. UNCHANGED <<lines, ctx, buf>> BY <1>2
  <2>4. q \in Readers => header'[q] = header[q] BY <1>2
  <2>5. q \in Readers => answer'[q] = answer[q] BY <1>2
  <2> QED BY <2>1, <2>2, <2>3, <2>4, <2>5 DEF Untouched
<1> QED BY <1>1, <1>2 DEF StepOf

\* Only the context of p for t changes, to one that is well typed.
CtxOnly(p, t) ==
  /\ ctx' \in [Writers -> [Paths -> Context]] /\ Staged(ctx'[p][t])
  /\ \A q \in Writers, u \in Paths : q # p \/ u # t => ctx'[q][u] = ctx[q][u]

BufOnly(p, t) ==
  /\ buf' \in [Writers -> [Paths -> Seq(Rec)]]
  /\ \A q \in Writers, u \in Paths : q # p \/ u # t => buf'[q][u] = buf[q][u]

FileOnly(l) ==
  /\ files' \in [Logs -> File]
  /\ \A k \in Logs : k # l => files'[k] = files[k]

LEMMA PcSet ==
  ASSUME TypeOK, NEW p \in Procs, NEW w, GoTo(p, w) PROVE pc'[p] = w
BY DEF TypeOK, GoTo

LEMMA AuthenticateDoes ==
  ASSUME TInv, NEW p \in Writers, Authenticate(p)
  PROVE  LET t == Path(p)  f == files[Log(p)]  d == ctx'[p][t] IN
         /\ t \in Paths /\ Log(p) \in Logs /\ OnStage(p)'
         /\ \/ ctx' = ctx
            \/ /\ CtxOnly(p, t) /\ ~ctx[p][t].authenticated /\ ~d.state_loaded
               /\ f.header # NoHeader /\ f.header \in Header
               /\ d.total_entries = f.header.text.total_entries
               /\ d.last_tag = f.header.text.last_tag
<1> DEFINE t == Path(p)
           f == files[Log(p)]
           d == [Ctx(p) EXCEPT !.authenticated  = TRUE,
                               !.key            = f.header.key,
                               !.total_entries  = f.header.text.total_entries,
                               !.last_timestamp = f.header.text.last_timestamp,
                               !.last_tag       = f.header.text.last_tag]
<1>1. pc[p] \in AtLine BY DEF Authenticate, AtLine
<1>2. /\ t \in Paths /\ Log(p) \in Logs /\ p \in Procs /\ f \in File /\ Ctx(p) = ctx[p][t]
      /\ Ctx(p) \in Context /\ Staged(Ctx(p))
  BY <1>1, OnLine
<1>3. TypeOK /\ UNCHANGED <<cmd, files>> BY DEF TInv, Authenticate
<1>4. CASE ctx' = ctx
  <2>1. \/ Ctx(p).authenticated /\ pc'[p] = "load"
        \/ ~Ctx(p).authenticated /\ pc'[p] = "open"
        \/ pc'[p] \in {"next", "done"}
        \/ Ctx(p) # ctx[p][t]
    <3>1. CASE ~Ctx(p).authenticated /\ f.exists /\ Opens(f, cmd[p].token) /\ SetCtx(p, d)
      <4>1. d \in Context /\ d.authenticated
        <5>1. f.header \in Header BY <1>2, <3>1 DEF Opens, File
        <5> QED BY <1>2, <3>1, <5>1, AuthenticatedType
      <4>2. ctx'[p][t] = d BY <1>2, <1>3, <3>1, <4>1, CtxSet DEF SetCtx
      <4> QED BY <1>2, <1>4, <3>1, <4>1, <4>2
    <3>2. CASE ~(~Ctx(p).authenticated /\ f.exists /\ Opens(f, cmd[p].token) /\ SetCtx(p, d))
      BY <1>2, <1>3, <3>2, PcSet DEF Authenticate, NextOrDone
    <3> QED BY <3>1, <3>2
  <2>2. OnStage(p)'
    <3>1. Ctx(p)' = Ctx(p) BY <1>3, <1>4 DEF Ctx, Path
    <3> QED BY <1>2, <2>1, <3>1 DEF OnStage
  <2> QED BY <1>2, <1>4, <2>2
<1>5. CASE ctx' # ctx
  <2>1. /\ ~Ctx(p).authenticated /\ f.exists /\ Opens(f, cmd[p].token)
        /\ GoTo(p, "load") /\ SetCtx(p, d)
    BY <1>5 DEF Authenticate
  <2>2. f.header # NoHeader /\ f.header \in Header BY <1>2, <2>1 DEF Opens, File
  <2>3. /\ d \in Context /\ Staged(d) /\ ~d.state_loaded /\ d.authenticated
        /\ d.total_entries = f.header.text.total_entries
        /\ d.last_tag = f.header.text.last_tag
    BY <1>2, <2>1, <2>2, AuthenticatedType
  <2> HIDE DEF d, f
  <2>4. ctx'[p][t] = d /\ CtxOnly(p, t)
    BY <1>2, <1>3, <2>1, <2>3, CtxSet DEF SetCtx, CtxOnly
  <2>5. OnStage(p)'
    <3>1. pc'[p] = "load" BY <1>2, <1>3, <2>1, PcSet
    <3>2. Ctx(p)' = d BY <1>3, <2>4 DEF Ctx, Path
    <3> QED BY <2>3, <3>1, <3>2 DEF OnStage
  <2> QED BY <1>2, <2>1, <2>2, <2>3, <2>4, <2>5 DEF f
<1> QED BY <1>4, <1>5

LEMMA OpenNewDoes ==
  ASSUME TInv, NEW p \in Writers, OpenNew(p)
  PROVE  /\ Log(p) \in Logs /\ FileOnly(Log(p)) /\ files'[Log(p)] = EmptyFile /\ OnStage(p)'
<1>1. pc[p] = "open" /\ pc[p] \in AtLine BY DEF OpenNew, AtLine
<1>2. TypeOK /\ UNCHANGED <<cmd, ctx>> BY DEF TInv, OpenNew
<1>3. Log(p) \in Logs /\ p \in Procs BY <1>1, OnLine
<1>4. FileOnly(Log(p)) /\ files'[Log(p)] = EmptyFile
  BY <1>2, <1>3, FileSet, NewFileType DEF OpenNew, FileOnly
<1>5. OnStage(p)'
  <2>1. pc'[p] = "create" BY <1>2, <1>3, PcSet DEF OpenNew
  <2>2. ~Ctx(p).authenticated BY <1>1 DEF TInv, OnStage
  <2>3. Ctx(p)' = Ctx(p) BY <1>2 DEF Ctx, Path
  <2> QED BY <2>1, <2>2, <2>3 DEF OnStage
<1> QED BY <1>3, <1>4, <1>5

\* The context of a log just made, or thought to have been.
LEMMA FoundsContext ==
  ASSUME TInv, NEW p \in Writers, pc[p] = "create", cmd' = cmd,
         SetCtx(p, [NewContext EXCEPT !.authenticated = TRUE, !.key = NewKey(p)]),
         GoTo(p, "load")
  PROVE  LET t == Path(p)  d == ctx'[p][t] IN
         /\ t \in Paths /\ CtxOnly(p, t) /\ OnStage(p)'
         /\ ctx[p][t] = NewContext
         /\ ~d.state_loaded /\ d.total_entries = 0 /\ d.last_tag = NoTag
<1> DEFINE t == Path(p)
           d == [NewContext EXCEPT !.authenticated = TRUE, !.key = NewKey(p)]
<1>1. pc[p] \in AtLine BY DEF AtLine
<1>2. /\ t \in Paths /\ p \in Procs /\ Ctx(p) = ctx[p][t] /\ Staged(Ctx(p))
      /\ cmd[p].token \in Tokens
  BY <1>1, OnLine
<1>3. NewKey(p) \in Key BY <1>2 DEF NewKey, gen_key, Key
<1>4. /\ d \in Context /\ Staged(d) /\ ~d.state_loaded /\ d.authenticated
      /\ d.total_entries = 0 /\ d.last_tag = NoTag
  BY <1>3, FoundedContext
<1>5. TypeOK /\ ctx' = [ctx EXCEPT ![p][t] = d] BY DEF TInv, SetCtx
<1> HIDE DEF d
<1>6. CtxOnly(p, t) /\ ctx'[p][t] = d BY <1>2, <1>4, <1>5, CtxSet DEF CtxOnly
<1>7. ctx[p][t] = NewContext BY <1>2 DEF TInv, OnStage, Staged
<1>8. OnStage(p)'
  <2>1. pc'[p] = "load" BY <1>2, <1>5, PcSet
  <2>2. Ctx(p)' = d BY <1>6 DEF Ctx, Path
  <2> QED BY <1>4, <2>1, <2>2 DEF OnStage
<1> QED BY <1>2, <1>4, <1>6, <1>7, <1>8

LEMMA WriteNewDoes ==
  ASSUME TInv, NEW p \in Writers, WriteNew(p)
  PROVE  LET l == Log(p)  f == files[l]  g == files'[l] IN
         /\ l \in Logs /\ FileOnly(l) /\ g.recs = f.recs
         /\ g.header # NoHeader => g.header.text.last_tag = NoTag
<1> DEFINE l == Log(p)
           h == crypt(NewKey(p), EmptyHeader)
           g == [files[l] EXCEPT !.salt = p, !.header = h]
<1>1. pc[p] \in AtLine BY DEF WriteNew, AtLine
<1>2. l \in Logs /\ files[l] \in File /\ cmd[p].token \in Tokens /\ TypeOK
  BY <1>1, OnLine DEF TInv
<1>3. h \in Header /\ h.text.last_tag = NoTag
  <2>1. NewKey(p) \in Key BY <1>2 DEF NewKey, gen_key, Key
  <2> QED BY <2>1, HeaderType DEF EmptyHeader, crypt
<1> HIDE DEF h
<1>4. g \in File /\ g.recs = files[l].recs /\ g.header = h BY <1>2, <1>3, FoundedType
<1>5. files' = [files EXCEPT ![l] = g]
  <2>1. files' = [files EXCEPT ![l].salt = p, ![l].header = h] BY DEF WriteNew, h
  <2> QED BY <1>2, <2>1 DEF TypeOK, File
<1> HIDE DEF g
<1>6. FileOnly(l) /\ files'[l] = g BY <1>2, <1>4, <1>5, FileSet DEF FileOnly
<1> QED BY <1>2, <1>3, <1>4, <1>6

LEMMA LoadDoes ==
  ASSUME TInv, NEW p \in Writers, Load(p)
  PROVE  LET t == Path(p)  f == files[Log(p)]  c == ctx[p][t]  d == ctx'[p][t] IN
         /\ t \in Paths /\ Log(p) = FileOf[t] /\ Log(p) \in Logs /\ OnStage(p)'
         /\ \/ ctx' = ctx
            \/ /\ CtxOnly(p, t) /\ ~c.state_loaded /\ d.state_loaded
               /\ d.total_entries = c.total_entries /\ d.last_tag = c.last_tag
               /\ \/ c.total_entries = 0 /\ d.loc = [w \in Person |-> Absent]
                  \/ /\ c.total_entries > 0 /\ Len(f.recs) = c.total_entries
                     /\ \A w \in Person : PlacedAt(Entries(f.recs), Len(f.recs), w, d.loc[w])
<1> DEFINE t == Path(p)
           f == files[Log(p)]
           c == Ctx(p)
<1>1. pc[p] = "load" /\ pc[p] \in AtLine BY DEF Load, AtLine
<1>2. /\ t \in Paths /\ Log(p) = FileOf[t] /\ Log(p) \in Logs /\ p \in Procs
      /\ c = ctx[p][t] /\ c \in Context /\ Staged(c) /\ f \in File
  BY <1>1, OnLine
<1>3. TypeOK /\ cmd' = cmd /\ c.authenticated BY <1>1 DEF TInv, Load, OnStage
<1>4. ASSUME NEW d \in Context, Staged(d), d.state_loaded, d.authenticated, SetCtx(p, d),
             GoTo(p, "process")
      PROVE  CtxOnly(p, t) /\ ctx'[p][t] = d /\ OnStage(p)'
  <2>1. CtxOnly(p, t) /\ ctx'[p][t] = d
    BY <1>2, <1>3, <1>4, CtxSet DEF CtxOnly, SetCtx
  <2>2. Ctx(p)' = d BY <1>3, <2>1 DEF Ctx, Path
  <2>3. pc'[p] = "process" BY <1>2, <1>3, <1>4, PcSet
  <2> QED BY <1>4, <2>1, <2>2, <2>3 DEF OnStage
<1>5. CASE ctx' = ctx /\ (c.state_loaded \/ pc'[p] # "process")
  <2>1. pc'[p] \in {"process", "exiting", "done"} BY <1>2, <1>3, PcSet DEF Load
  <2>2. Ctx(p)' = Ctx(p) BY <1>3, <1>5 DEF Ctx, Path
  <2>3. OnStage(p)' BY <1>3, <1>5, <2>1, <2>2 DEF OnStage
  <2> QED BY <1>2, <1>5, <2>3
<1>6. CASE /\ ~c.state_loaded /\ c.total_entries = 0 /\ GoTo(p, "process")
           /\ SetCtx(p, [c EXCEPT !.state_loaded = TRUE])
  <2> DEFINE d == [c EXCEPT !.state_loaded = TRUE]
  <2>1. /\ d \in Context /\ Staged(d) /\ d.state_loaded /\ d.loc = c.loc /\ d.authenticated
        /\ d.total_entries = c.total_entries /\ d.last_tag = c.last_tag
    BY <1>2, <1>3, LoadedEmpty
  <2>2. SetCtx(p, d) BY <1>6
  <2>3. c.loc = [w \in Person |-> Absent] BY <1>2, <1>6 DEF Staged
  <2> HIDE DEF d, c
  <2> QED BY <1>2, <1>4, <1>6, <2>1, <2>2, <2>3
<1>7. CASE /\ ~c.state_loaded /\ c.total_entries > 0 /\ Loads(c.key, c.total_entries, f)
           /\ GoTo(p, "process")
           /\ SetCtx(p, [c EXCEPT !.state_loaded = TRUE,
                                  !.loc = [w \in Person |-> LastPlace(Entries(f.recs), w)]])
  <2> DEFINE loc == [w \in Person |-> LastPlace(Entries(f.recs), w)]
             d == [c EXCEPT !.state_loaded = TRUE, !.loc = loc]
  <2>1. f.recs \in Seq(Rec) BY <1>2 DEF File
  <2>2. /\ loc \in [Person -> Place]
        /\ \A w \in Person : PlacedAt(Entries(f.recs), Len(f.recs), w, loc[w])
    BY <2>1, LoadedPlaces
  <2>3. SetCtx(p, d) BY <1>7
  <2> HIDE DEF loc
  <2>4. /\ d \in Context /\ Staged(d) /\ d.state_loaded /\ d.loc = loc /\ d.authenticated
        /\ d.total_entries = c.total_entries /\ d.last_tag = c.last_tag
    BY <1>2, <1>3, <2>2, LoadedContext
  <2>5. Len(f.recs) = c.total_entries BY <1>7 DEF Loads
  <2> HIDE DEF d, c, f
  <2> QED BY <1>2, <1>4, <1>7, <2>2, <2>3, <2>4, <2>5 DEF f
<1>8. \/ ctx' = ctx /\ (c.state_loaded \/ pc'[p] # "process")
      \/ /\ ~c.state_loaded /\ c.total_entries = 0 /\ GoTo(p, "process")
         /\ SetCtx(p, [c EXCEPT !.state_loaded = TRUE])
      \/ /\ ~c.state_loaded /\ c.total_entries > 0 /\ Loads(c.key, c.total_entries, f)
         /\ GoTo(p, "process")
         /\ SetCtx(p, [c EXCEPT !.state_loaded = TRUE,
                                !.loc = [w \in Person |-> LastPlace(Entries(f.recs), w)]])
  <2>1. pc' = [pc EXCEPT ![p] = "exiting"] \/ pc' = [pc EXCEPT ![p] = "done"] => pc'[p] # "process"
    BY <1>2, <1>3 DEF TypeOK
  <2> QED BY <2>1 DEF Load, GoTo
<1> QED BY <1>5, <1>6, <1>7, <1>8

LEMMA AppendLogDoes ==
  ASSUME TInv, NEW p \in Writers, AppendLog(p)
  PROVE  LET t == Path(p)  d == ctx'[p][t]  e == cmd[p].entry IN
         /\ t \in Paths /\ CtxOnly(p, t) /\ BufOnly(p, t) /\ e \in Entry
         /\ pc'[p] \notin AtLine /\ accepted' \in [Logs -> Seq(Entry)]
         /\ ctx[p][t].state_loaded /\ ctx[p][t].loc[e.who] = From(e)
         /\ ctx[p][t] = Ctx(p) /\ buf'[p][t] = Append(buf[p][t], NewRec(p))
         /\ d.state_loaded /\ d.total_entries = ctx[p][t].total_entries + 1
         /\ d.last_tag = NewRec(p).tag
         /\ d.loc = [ctx[p][t].loc EXCEPT ![e.who] = To(e)]
<1> DEFINE t == Path(p)
           e == cmd[p].entry
<1>1. pc[p] = "process" /\ pc[p] \in AtLine BY DEF AppendLog, AtLine
<1>2. /\ t \in Paths /\ Log(p) \in Logs /\ p \in Procs /\ e \in Entry /\ Ctx(p) = ctx[p][t]
      /\ Ctx(p) \in Context /\ buf[p][t] \in Seq(Rec) /\ TypeOK
  BY <1>1, OnLine DEF TInv
<1>3. /\ Advanced(p) \in Context /\ Staged(Advanced(p)) /\ Advanced(p).state_loaded
      /\ Advanced(p).total_entries = Ctx(p).total_entries + 1
      /\ Advanced(p).last_tag = NewRec(p).tag
      /\ Advanced(p).loc = [Ctx(p).loc EXCEPT ![e.who] = To(e)]
  BY <1>1, AdvancedType
<1>4. CtxOnly(p, t) /\ ctx'[p][t] = Advanced(p)
  <2> DEFINE d == Advanced(p)
  <2>1. ctx' = [ctx EXCEPT ![p][t] = d] BY DEF AppendLog, SetCtx
  <2> HIDE DEF d, t
  <2>2. d \in Context /\ Staged(d) BY <1>3 DEF d
  <2> QED BY <1>2, <2>1, <2>2, CtxSet DEF CtxOnly, d
<1>5. NewRec(p) \in Rec BY <1>1, NewRecType
<1>6. Append(buf[p][t], NewRec(p)) \in Seq(Rec) BY <1>2, <1>5
<1>7. BufOnly(p, t) /\ buf'[p][t] = Append(buf[p][t], NewRec(p))
  <2>1. buf' = [buf EXCEPT ![p][t] = Append(buf[p][t], NewRec(p))]
    BY <1>2 DEF AppendLog, TypeOK
  <2> QED BY <1>2, <1>6, <2>1, BufSet DEF BufOnly
<1>8. Ctx(p).state_loaded BY <1>1 DEF TInv, OnStage
<1>9. Ctx(p).loc[e.who] = From(e) BY DEF AppendLog, Accepts, get_person_state
<1>10. pc'[p] \notin AtLine
  <2>1. pc'[p] = IF p \in Batches THEN "next" ELSE "closing" BY <1>2, PcSet DEF AppendLog
  <2> QED BY <2>1 DEF AtLine
<1>11. accepted' \in [Logs -> Seq(Entry)]
  <2>1. accepted \in [Logs -> Seq(Entry)] BY <1>2 DEF TypeOK
  <2>2. Append(accepted[Log(p)], e) \in Seq(Entry) BY <1>2, <2>1
  <2> QED BY <1>2, <2>1, <2>2 DEF AppendLog
<1> QED BY <1>2, <1>3, <1>4, <1>7, <1>8, <1>9, <1>10, <1>11

\* An entry leaves the buffer; it may not arrive.
LEMMA FlushDoes ==
  ASSUME TInv, NEW p \in Writers, NEW t \in Paths, Flush(p, t) \/ FlushFails(p, t)
  PROVE  LET l == FileOf[t]  f == files[l]  g == files'[l]  b == buf[p][t] IN
         /\ l \in Logs /\ FileOnly(l) /\ BufOnly(p, t)
         /\ b \in Seq(Rec) /\ b # << >> /\ buf'[p][t] = Tail(b) /\ g.header = f.header
         /\ g.recs = f.recs \/ g.recs = Append(f.recs, b[1])
         /\ UNCHANGED <<pc, cmd, lines, ctx, header, answer, accepted>>
<1> DEFINE l == FileOf[t]
           f == files[l]
           b == buf[p][t]
<1>1. TypeOK BY DEF TInv
<1>2. l \in Logs /\ f \in File /\ b \in Seq(Rec) /\ b # << >>
  BY <1>1, CPathsAssumption DEF TypeOK, Flush, FlushFails
<1>3. Head(b) = b[1] /\ b[1] \in Rec /\ Tail(b) \in Seq(Rec) BY <1>2
<1>4. BufOnly(p, t) /\ buf'[p][t] = Tail(b)
  <2>1. buf' = [buf EXCEPT ![p][t] = Tail(b)] BY <1>1 DEF Flush, FlushFails, TypeOK
  <2> QED BY <1>1, <1>3, <2>1, BufSet DEF BufOnly
<1>5. PICK g : /\ files' = [files EXCEPT ![l] = g]
               /\ g \in Put(f, b[1]) \/ g = f \/ g \in Cut(f)
  BY <1>3 DEF Flush, FlushFails
<1>6. /\ g \in File /\ g.header = f.header
      /\ g.recs = f.recs \/ g.recs = Append(f.recs, b[1])
  <2>1. CASE g \in Put(f, b[1]) BY <1>2, <1>3, <2>1, PutType
  <2>2. CASE g = f BY <1>2, <2>2
  <2>3. CASE g \in Cut(f) BY <1>2, <2>3, CutType
  <2> QED BY <1>5, <2>1, <2>2, <2>3
<1>7. FileOnly(l) /\ files'[l] = g BY <1>1, <1>2, <1>5, <1>6, FileSet DEF FileOnly
<1>8. UNCHANGED <<pc, cmd, lines, ctx, header, answer, accepted>> BY DEF Flush, FlushFails
<1> QED BY <1>2, <1>4, <1>6, <1>7, <1>8

\* The header of the context is written, or half of it, or nothing.
LEMMA UpdateHeaderDoes ==
  ASSUME TInv, NEW p \in Writers, NEW t \in Paths, UpdateHeader(p, t) \/ UpdateHeaderFails(p, t)
  PROVE  LET l == FileOf[t]  f == files[l]  g == files'[l]  c == ctx[p][t]  d == ctx'[p][t] IN
         /\ l \in Logs /\ FileOnly(l) /\ CtxOnly(p, t) /\ buf[p][t] = << >>
         /\ g.recs = f.recs
         /\ \/ g.header = f.header \/ g.header = NoHeader
            \/ g.header # NoHeader /\ g.header.text.last_tag = c.last_tag
         /\ d.state_loaded = c.state_loaded /\ d.loc = c.loc
         /\ d.total_entries = c.total_entries /\ d.last_tag = c.last_tag
         /\ pc[p] = "closing" /\ pc'[p] \in {"closing", "exiting"}
         /\ UNCHANGED <<cmd, lines, buf, header, answer, accepted>>
<1> DEFINE l == FileOf[t]
           f == files[l]
           c == ctx[p][t]
<1>1. TypeOK BY DEF TInv
<1>2. /\ l \in Logs /\ f \in File /\ c \in Context /\ Staged(c) /\ c.header_dirty /\ p \in Procs
      /\ buf[p][t] = << >> /\ pc[p] = "closing"
      /\ UNCHANGED <<cmd, lines, buf, header, answer, accepted>>
  BY <1>1, CPathsAssumption DEF TypeOK, TInv, UpdateHeader, UpdateHeaderFails, Procs
<1>3. /\ CtxOnly(p, t)
      /\ ctx'[p][t].state_loaded = c.state_loaded /\ ctx'[p][t].loc = c.loc
      /\ ctx'[p][t].total_entries = c.total_entries /\ ctx'[p][t].last_tag = c.last_tag
  <2>1. CASE ctx' = ctx BY <1>1, <1>2, <2>1 DEF CtxOnly, TypeOK
  <2>2. CASE ctx' # ctx
    <3> DEFINE d == [c EXCEPT !.header_dirty = FALSE]
    <3>1. ctx' = [ctx EXCEPT ![p][t] = d]
      <4>1. ctx' = [ctx EXCEPT ![p][t].header_dirty = FALSE]
        BY <2>2 DEF UpdateHeader, UpdateHeaderFails
      <4> QED BY <1>1, <4>1 DEF TypeOK, Context
    <3>2. /\ d \in Context /\ Staged(d) /\ d.loc = c.loc
          /\ d.authenticated = c.authenticated /\ d.state_loaded = c.state_loaded
          /\ d.total_entries = c.total_entries /\ d.last_tag = c.last_tag
      BY <1>2, CleanContext
    <3> HIDE DEF d, c
    <3>3. CtxOnly(p, t) /\ ctx'[p][t] = d BY <1>1, <3>1, <3>2, CtxSet DEF CtxOnly
    <3> QED BY <3>2, <3>3
  <2> QED BY <2>1, <2>2
<1>4. /\ FileOnly(l) /\ files'[l].recs = f.recs
      /\ \/ files'[l].header = f.header \/ files'[l].header = NoHeader
         \/ files'[l].header # NoHeader /\ files'[l].header.text.last_tag = c.last_tag
  <2> DEFINE h == crypt(c.key, HeaderOf(c))
  <2>1. h \in Header /\ h.text.last_tag = c.last_tag
    <3>1. c.key \in Key BY <1>2 DEF Staged
    <3> QED BY <1>2, <3>1, HeaderType, ContextFields DEF HeaderOf, crypt
  <2> HIDE DEF h
  <2>2. \/ files' = files
        \/ \E k \in {NoHeader, h} : files' = [files EXCEPT ![l].header = k]
    BY DEF UpdateHeader, UpdateHeaderFails, h
  <2>3. CASE files' = files BY <1>1, <1>2, <2>3 DEF FileOnly, TypeOK
  <2>4. ASSUME NEW k \in {NoHeader, h}, files' = [files EXCEPT ![l].header = k]
        PROVE  /\ FileOnly(l) /\ files'[l].recs = f.recs /\ files'[l].header = k
    <3> DEFINE g == [f EXCEPT !.header = k]
    <3>1. files' = [files EXCEPT ![l] = g] BY <1>1, <1>2, <2>4 DEF TypeOK, File
    <3>2. g \in File /\ g.recs = f.recs /\ g.header = k
      <4>1. k \in Header \cup {NoHeader} BY <2>1
      <4> QED BY <1>2, <4>1, HeaderSetType
    <3> HIDE DEF g
    <3> QED BY <1>1, <1>2, <3>1, <3>2, FileSet DEF FileOnly
  <2> QED BY <2>1, <2>2, <2>3, <2>4
<1>5. pc'[p] \in {"closing", "exiting"}
  BY <1>1, <1>2, PcSet DEF UpdateHeader, UpdateHeaderFails
<1> QED BY <1>2, <1>3, <1>4, <1>5

\* What a writer holds is lost; what it was writing may be cut.
LEMMA CrashDoes ==
  ASSUME TInv, NEW p \in Writers, Crash(p)
  PROVE  /\ files' \in [Logs -> File]
         /\ \A l \in Logs : /\ files'[l].recs = files[l].recs
                            /\ files'[l].header = files[l].header \/ files'[l].header = NoHeader
         /\ buf' \in [Writers -> [Paths -> Seq(Rec)]]
         /\ \A u \in Paths : buf'[p][u] = << >>
         /\ \A q \in Writers \ {p} : buf'[q] = buf[q]
         /\ pc'[p] = "done"
         /\ UNCHANGED <<cmd, lines, ctx, header, answer, accepted>>
<1>1. TypeOK /\ p \in Procs BY DEF TInv, Procs
<1>2. /\ buf' \in [Writers -> [Paths -> Seq(Rec)]] /\ \A u \in Paths : buf'[p][u] = << >>
      /\ \A q \in Writers \ {p} : buf'[q] = buf[q]
  BY <1>1 DEF Crash, TypeOK
<1>3. pc'[p] = "done" BY <1>1, PcSet DEF Crash
<1>4. /\ files' \in [Logs -> File]
      /\ \A l \in Logs : /\ files'[l].recs = files[l].recs
                         /\ files'[l].header = files[l].header \/ files'[l].header = NoHeader
  <2>1. CASE files' = files BY <1>1, <2>1 DEF TypeOK
  <2>2. ASSUME NEW t \in Paths, NEW g \in Cut(files[FileOf[t]]),
               files' = [files EXCEPT ![FileOf[t]] = g]
        PROVE  /\ files' \in [Logs -> File]
               /\ \A l \in Logs : files'[l].recs = files[l].recs /\ files'[l].header = files[l].header
    <3>1. FileOf[t] \in Logs /\ files[FileOf[t]] \in File BY <1>1, CPathsAssumption DEF TypeOK
    <3>2. g \in File /\ g.recs = files[FileOf[t]].recs /\ g.header = files[FileOf[t]].header
      BY <2>2, <3>1, CutType
    <3> QED BY <1>1, <2>2, <3>1, <3>2, FileSet
  <2>3. ASSUME NEW t \in Paths, files' = [files EXCEPT ![FileOf[t]].header = NoHeader]
        PROVE  /\ files' \in [Logs -> File]
               /\ \A l \in Logs : /\ files'[l].recs = files[l].recs
                                  /\ files'[l].header = files[l].header \/ files'[l].header = NoHeader
    <3> DEFINE l == FileOf[t]
               g == [files[l] EXCEPT !.header = NoHeader]
    <3>1. l \in Logs /\ files[l] \in File BY <1>1, CPathsAssumption DEF TypeOK
    <3>2. g \in File /\ g.recs = files[l].recs /\ g.header = NoHeader BY <3>1, HeaderSetType
    <3>3. files' = [files EXCEPT ![l] = g] BY <1>1, <2>3, <3>1 DEF TypeOK, File
    <3> HIDE DEF g
    <3> QED BY <1>1, <3>1, <3>2, <3>3, FileSet
  <2> QED BY <2>1, <2>2, <2>3 DEF Crash
<1>5. UNCHANGED <<cmd, lines, ctx, header, answer, accepted>> BY DEF Crash
<1> QED BY <1>2, <1>3, <1>4, <1>5

\* Steps of a writer that only move it on.
MovesOn(p) ==
  \/ Start(p) \/ BadLine(p) \/ NestedBatch(p) \/ NextLine(p) \/ OpenFails(p) \/ Reject(p)
  \/ AppendDies(p) \/ EndOfFile(p) \/ Exit(p) \/ (WriteNewFails(p) /\ pc'[p] # "load")

LEMMA MovesOnDoes ==
  ASSUME TInv, NEW p \in Writers, MovesOn(p)
  PROVE  OnStage(p)' /\ UNCHANGED <<files, ctx, buf, header, answer, accepted>>
<1>1. TypeOK /\ p \in Procs BY DEF TInv, Procs
<1>2. pc'[p] \notin {"open", "create", "load", "process"}
      /\ UNCHANGED <<files, ctx, buf, header, answer, accepted>>
  <2>1. CASE Start(p) BY <1>1, <2>1, PcSet DEF Start
  <2>2. CASE BadLine(p) BY <1>1, <2>2, PcSet DEF BadLine, NextOrDone
  <2>3. CASE NestedBatch(p) BY <1>1, <2>3, PcSet DEF NestedBatch, Abort
  <2>4. CASE NextLine(p) BY <1>1, <2>4, PcSet DEF NextLine
  <2>5. CASE OpenFails(p) BY <1>1, <2>5, PcSet DEF OpenFails, Refuse, NextOrDone
  <2>6. CASE Reject(p) BY <1>1, <2>6, PcSet DEF Reject, Refuse, NextOrDone
  <2>7. CASE AppendDies(p) BY <1>1, <2>7, PcSet DEF AppendDies, Refuse, NextOrDone
  <2>8. CASE EndOfFile(p) BY <1>1, <2>8, PcSet DEF EndOfFile
  <2>9. CASE Exit(p) BY <1>1, <2>9, PcSet DEF Exit
  <2>10. CASE WriteNewFails(p) /\ pc'[p] # "load"
    BY <1>1, <2>10, PcSet DEF WriteNewFails, NextOrDone
  <2> QED BY <2>1, <2>2, <2>3, <2>4, <2>5, <2>6, <2>7, <2>8, <2>9, <2>10 DEF MovesOn
<1> QED BY <1>2 DEF OnStage

\* The kinds of step a writer takes.
LEMMA WriteKinds ==
  ASSUME TInv, NEW p \in Writers, Write(p)
  PROVE  \/ MovesOn(p) \/ Authenticate(p) \/ OpenNew(p) \/ WriteNew(p)
         \/ /\ WriteNewFails(p) /\ GoTo(p, "load")
            /\ SetCtx(p, [NewContext EXCEPT !.authenticated = TRUE, !.key = NewKey(p)])
         \/ Load(p) \/ AppendLog(p) \/ Crash(p)
         \/ \E t \in Paths : \/ Flush(p, t) \/ FlushFails(p, t)
                             \/ UpdateHeader(p, t) \/ UpdateHeaderFails(p, t)
<1>1. TypeOK /\ p \in Procs BY DEF TInv, Procs
<1>2. WriteNewFails(p) => \/ pc'[p] # "load"
                          \/ /\ GoTo(p, "load")
                             /\ SetCtx(p, [NewContext EXCEPT !.authenticated = TRUE, !.key = NewKey(p)])
  <2>1. GoTo(p, NextOrDone(p)) => pc'[p] # "load" BY <1>1, PcSet DEF NextOrDone
  <2> QED BY <2>1 DEF WriteNewFails
<1> QED BY <1>2 DEF Write, MovesOn

\* Where processes are, what they are on and how far a batch has got.
LEMMA Control ==
  ASSUME TInv, NEW p \in Procs, StepOf(p)
  PROVE  /\ pc' \in [Procs -> {"idle", "next", "authenticate", "open", "create", "load", "process",
                              "closing", "exiting", "done", "header", "entries", "refused"}]
         /\ cmd' \in [Procs -> Commands \cup Queries \cup {NoCmd}]
         /\ lines' \in [Procs -> Nat]
         /\ disturbed' \subseteq {"overlap", "abort", "failure", "crash"}
         /\ Working(p)'
         /\ p \in Writers =>
              \/ lines' = lines /\ (pc'[p] \in AtLine => pc[p] \in AtLine)
              \/ lines' = [lines EXCEPT ![p] = @ + 1]
<1>1. TypeOK /\ Working(p) BY DEF TInv
<1>2. CASE p \in Writers /\ Write(p)
  <2> USE DEF Write, Start, BadLine, NestedBatch, NextLine, Authenticate, OpenNew, OpenFails,
              WriteNew, WriteNewFails, Load, Reject, AppendLog, AppendDies, EndOfFile, Exit,
              Crash, Flush, FlushFails, UpdateHeader, UpdateHeaderFails, Refuse, Abort, GoTo,
              NextOrDone
  <2>1. pc' \in [Procs -> {"idle", "next", "authenticate", "open", "create", "load", "process",
                          "closing", "exiting", "done", "header", "entries", "refused"}]
    BY <1>1, <1>2 DEF TypeOK
  <2>2. cmd' \in [Procs -> Commands \cup Queries \cup {NoCmd}] BY <1>1, <1>2 DEF TypeOK
  <2>3. lines' \in [Procs -> Nat]
    <3>1. lines' = lines \/ lines' = [lines EXCEPT ![p] = @ + 1] BY <1>2
    <3>2. lines \in [Procs -> Nat] BY <1>1 DEF TypeOK
    <3>3. lines[p] + 1 \in Nat BY <3>2
    <3> QED BY <3>1, <3>2, <3>3
  <2>4. disturbed' \subseteq {"overlap", "abort", "failure", "crash"} BY <1>1, <1>2 DEF TypeOK
  <2>5. \/ lines' = lines /\ (pc'[p] \in AtLine => pc[p] \in AtLine)
        \/ lines' = [lines EXCEPT ![p] = @ + 1]
    BY <1>1, <1>2 DEF TypeOK, AtLine
  <2>6. Working(p)'
    <3>1. p \notin Readers BY <1>2, CProcsAssumption
    <3>2. CASE NextLine(p) BY <1>1, <3>1, <3>2 DEF TypeOK, Working
    <3>3. CASE ~NextLine(p)
      <4>1. cmd' = cmd BY <1>2, <3>3
      <4>2. pc'[p] \in AtLine => pc[p] \in AtLine /\ lines' = lines
        BY <1>1, <1>2, <3>3 DEF TypeOK, AtLine
      <4> HIDE DEF Write
      <4> QED BY <1>1, <3>1, <4>1, <4>2 DEF Working
    <3> QED BY <3>2, <3>3
  <2> QED BY <2>1, <2>2, <2>3, <2>4, <2>5, <2>6
<1>3. CASE p \in Readers /\ ReadLog(p)
  <2> USE DEF ReadLog, Ask, ReadHeader, ReadEntries, GoTo
  <2>1. p \notin Writers BY <1>3, CProcsAssumption
  <2>2. pc' \in [Procs -> {"idle", "next", "authenticate", "open", "create", "load", "process",
                          "closing", "exiting", "done", "header", "entries", "refused"}]
    BY <1>1, <1>3 DEF TypeOK
  <2>3. cmd' \in [Procs -> Commands \cup Queries \cup {NoCmd}] BY <1>1, <1>3 DEF TypeOK
  <2>4. lines' = lines /\ disturbed' = disturbed BY <1>3
  <2>5. Working(p)'
    <3>1. CASE Ask(p) BY <1>1, <1>3, <2>1, <3>1 DEF TypeOK, Working
    <3>2. CASE ReadHeader(p)
      <4>1. cmd' = cmd /\ pc[p] = "header" BY <3>2
      <4>2. Log(p) \in Logs BY <1>1, <1>3, <4>1, CommandType DEF Working, Log, Path
      <4>3. files[Log(p)] \in File BY <1>1, <4>2 DEF TypeOK
      <4>4. \/ pc'[p] = "refused"
            \/ /\ pc'[p] = "entries" /\ files[Log(p)].header # NoHeader
               /\ header'[p] = files[Log(p)].header
        BY <1>1, <1>3, <3>2 DEF TypeOK
      <4>5. pc'[p] = "entries" => header'[p] \in Header BY <4>3, <4>4 DEF File
      <4> QED BY <1>1, <1>3, <2>1, <4>1, <4>4, <4>5 DEF Working
    <3>3. CASE ReadEntries(p)
      <4>1. cmd' = cmd /\ pc'[p] \in {"done", "refused"} BY <1>1, <3>3 DEF TypeOK
      <4> QED BY <2>1, <4>1 DEF Working
    <3> QED BY <1>3, <3>1, <3>2, <3>3
  <2> QED BY <1>1, <2>1, <2>2, <2>3, <2>4, <2>5 DEF TypeOK
<1> QED BY <1>2, <1>3 DEF StepOf

\* What a reader does; an answer is a beginning of the file.
LEMMA ReadDoes ==
  ASSUME TInv, NEW p \in Readers, ReadLog(p)
  PROVE  /\ UNCHANGED <<files, lines, ctx, buf, accepted, disturbed>>
         /\ header' \in [Readers -> Header \cup {NoHeader}]
         /\ \/ answer' = answer
            \/ LET f == files[Log(p)]  h == header[p] IN
               /\ Log(p) \in Logs /\ h \in Header /\ Reads(h, f)
               /\ answer' = [answer EXCEPT ![p] = Entries(SubSeq(f.recs, 1, h.text.total_entries))]
<1>1. TypeOK /\ Working(p) BY DEF TInv, Procs
<1>2. CASE Ask(p) BY <1>1, <1>2 DEF Ask, TypeOK
<1>3. CASE ReadHeader(p)
  <2>1. Log(p) \in Logs BY <1>1, <1>3, CommandType DEF ReadHeader, Working, Log, Path
  <2>2. files[Log(p)].header \in Header \cup {NoHeader} BY <1>1, <2>1 DEF TypeOK, File
  <2> QED BY <1>1, <1>3, <2>2 DEF ReadHeader, TypeOK
<1>4. CASE ReadEntries(p)
  <2>1. Log(p) \in Logs /\ header[p] \in Header
    BY <1>1, <1>4, CommandType DEF ReadEntries, Working, Log, Path
  <2> QED BY <1>1, <1>4, <2>1 DEF ReadEntries, TypeOK
<1> QED BY <1>2, <1>3, <1>4 DEF ReadLog

LEMMA EntriesOfRecs ==
  ASSUME NEW rs \in Seq(Rec)
  PROVE  /\ Entries(rs) \in Seq(Entry) /\ Len(Entries(rs)) = Len(rs)
         /\ \A i \in 1..Len(rs) : Entries(rs)[i] = rs[i].body.text /\ Entries(rs)[i] \in Entry
<1>1. Len(rs) \in Nat OBVIOUS
<1>2. \A i \in 1..Len(rs) : rs[i] \in Rec OBVIOUS
<1>3. \A i \in 1..Len(rs) : rs[i].body.text \in Entry BY <1>2 DEF Rec, Sealed
<1>4. Entries(rs) \in [1..Len(rs) -> Entry] BY <1>3 DEF Entries
<1>5. Entries(rs) \in Seq(Entry) /\ Len(Entries(rs)) = Len(rs) BY <1>1, <1>4
<1> QED BY <1>3, <1>5 DEF Entries

\* What was read of a file is its first entries.
LEMMA ReadPrefix ==
  ASSUME NEW f \in File, NEW h \in Header, Reads(h, f)
  PROVE  LET es == Entries(SubSeq(f.recs, 1, h.text.total_entries)) IN
         /\ es \in Seq(Entry) /\ Len(es) = h.text.total_entries /\ Len(es) \in 0..Len(f.recs)
         /\ \A i \in 1..Len(es) : es[i] = f.recs[i].body.text
<1> DEFINE m == h.text.total_entries
           rs == SubSeq(f.recs, 1, m)
<1>1. f.recs \in Seq(Rec) /\ m \in Nat /\ m <= Len(f.recs) BY HeaderType DEF File, Reads
<1>2. rs \in Seq(Rec) /\ Len(rs) = m /\ \A i \in 1..m : rs[i] = f.recs[i] BY <1>1
<1> HIDE DEF rs
<1>3. /\ Entries(rs) \in Seq(Entry) /\ Len(Entries(rs)) = m
      /\ \A i \in 1..m : Entries(rs)[i] = rs[i].body.text
  BY <1>2, EntriesOfRecs
<1> QED BY <1>1, <1>2, <1>3 DEF rs

------------------------------------------------------------------------------
(* The type invariant *)

LEMMA InitTInv == Init => TInv
<1> SUFFICES ASSUME Init PROVE TInv OBVIOUS
<1> USE DEF Init
<1>1. TypeOK
  BY NewFileType, NewContextType DEF TypeOK
<1>2. \A p \in Procs : Working(p) BY CProcsAssumption DEF Working, AtLine, Procs
<1>3. \A p \in Writers : OnStage(p) BY DEF OnStage, Procs
<1>4. \A p \in Writers, t \in Paths : Staged(ctx[p][t]) BY NewContextType
<1> QED BY <1>1, <1>2, <1>3, <1>4 DEF TInv

LEMMA NextTInv == TInv /\ Next => TInv'
<1> SUFFICES ASSUME TInv, NEW p \in Procs, StepOf(p) PROVE TInv'
  BY DEF Next, StepOf, Procs
<1>1. TypeOK /\ \A q \in Writers, u \in Paths : Staged(ctx[q][u]) BY DEF TInv
<1>2. /\ pc' \in [Procs -> {"idle", "next", "authenticate", "open", "create", "load", "process",
                           "closing", "exiting", "done", "header", "entries", "refused"}]
      /\ cmd' \in [Procs -> Commands \cup Queries \cup {NoCmd}]
      /\ lines' \in [Procs -> Nat]
      /\ disturbed' \subseteq {"overlap", "abort", "failure", "crash"}
      /\ Working(p)'
  BY Control
<1>3. \A q \in Procs \ {p} : Untouched(q) BY <1>1, OthersUntouched
<1>4. \A q \in Procs : Working(q)'
  <2>1. ASSUME NEW q \in Procs, q # p PROVE Working(q)'
    BY <1>3, <2>1 DEF TInv, Working, Untouched
  <2> QED BY <1>2, <2>1
<1>5. \A q \in Writers \ {p} : OnStage(q)'
  <2>1. ASSUME NEW q \in Writers, q # p PROVE OnStage(q)'
    <3>1. Untouched(q) /\ OnStage(q) BY <1>3, <2>1 DEF TInv, Procs
    <3>2. CASE pc[q] \in AtLine
      <4>1. Path(q) \in Paths BY <3>2, OnLine
      <4>2. Ctx(q)' = Ctx(q) BY <3>1, <4>1 DEF Ctx, Path, Untouched
      <4> QED BY <3>1, <4>2 DEF OnStage, Untouched
    <3>3. CASE pc[q] \notin AtLine BY <3>1, <3>3 DEF OnStage, Untouched, AtLine
    <3> QED BY <3>2, <3>3
  <2> QED BY <2>1
<1>6. SUFFICES /\ files' \in [Logs -> File] /\ ctx' \in [Writers -> [Paths -> Context]]
               /\ buf' \in [Writers -> [Paths -> Seq(Rec)]]
               /\ header' \in [Readers -> Header \cup {NoHeader}]
               /\ answer' \in [Readers -> Seq(Entry) \cup {NoAnswer}]
               /\ accepted' \in [Logs -> Seq(Entry)]
               /\ p \in Writers => OnStage(p)'
               /\ \A q \in Writers, u \in Paths : Staged(ctx'[q][u])
  BY <1>2, <1>4, <1>5 DEF TInv, TypeOK
<1>7. CASE p \in Writers /\ Write(p)
  <2>1. CASE MovesOn(p) BY <1>1, <1>7, <2>1, MovesOnDoes DEF TypeOK
  <2>2. CASE Authenticate(p)
    <3>1. UNCHANGED <<files, buf, header, answer, accepted>> BY <2>2 DEF Authenticate
    <3> QED BY <1>1, <1>7, <2>2, <3>1, AuthenticateDoes DEF TypeOK, CtxOnly
  <2>3. CASE OpenNew(p)
    <3>1. UNCHANGED <<ctx, buf, header, answer, accepted>> BY <2>3 DEF OpenNew
    <3> QED BY <1>1, <1>7, <2>3, <3>1, OpenNewDoes DEF TypeOK, FileOnly
  <2>4. CASE WriteNew(p)
    <3>1. UNCHANGED <<cmd, buf, header, answer, accepted>> BY <2>4 DEF WriteNew
    <3>2. CtxOnly(p, Path(p)) /\ OnStage(p)' BY <1>7, <2>4, FoundsContext DEF WriteNew
    <3> QED BY <1>1, <1>7, <2>4, <3>1, <3>2, WriteNewDoes DEF TypeOK, FileOnly, CtxOnly
  <2>5. CASE /\ WriteNewFails(p) /\ GoTo(p, "load")
             /\ SetCtx(p, [NewContext EXCEPT !.authenticated = TRUE, !.key = NewKey(p)])
    <3>1. UNCHANGED <<cmd, files, buf, header, answer, accepted>> BY <2>5 DEF WriteNewFails
    <3>2. CtxOnly(p, Path(p)) /\ OnStage(p)'
      BY <1>7, <2>5, FoundsContext DEF WriteNewFails
    <3> QED BY <1>1, <3>1, <3>2 DEF TypeOK, CtxOnly
  <2>6. CASE Load(p)
    <3>1. UNCHANGED <<files, buf, header, answer, accepted>> BY <2>6 DEF Load
    <3> QED BY <1>1, <1>7, <2>6, <3>1, LoadDoes DEF TypeOK, CtxOnly
  <2>7. CASE AppendLog(p)
    <3>1. UNCHANGED <<files, header, answer>> BY <2>7 DEF AppendLog
    <3>2. OnStage(p)' BY <1>7, <2>7, AppendLogDoes DEF OnStage, AtLine
    <3> QED BY <1>1, <1>7, <2>7, <3>1, <3>2, AppendLogDoes DEF TypeOK, CtxOnly, BufOnly
  <2>8. CASE Crash(p)
    <3>1. OnStage(p)' BY <1>7, <2>8, CrashDoes DEF OnStage
    <3> QED BY <1>1, <1>7, <2>8, <3>1, CrashDoes DEF TypeOK
  <2>9. ASSUME NEW t \in Paths, Flush(p, t) \/ FlushFails(p, t)
        PROVE  /\ files' \in [Logs -> File] /\ buf' \in [Writers -> [Paths -> Seq(Rec)]]
               /\ UNCHANGED <<ctx, header, answer, accepted>> /\ OnStage(p)'
    <3>1. /\ files' \in [Logs -> File] /\ buf' \in [Writers -> [Paths -> Seq(Rec)]]
          /\ UNCHANGED <<pc, cmd, ctx, header, answer, accepted>>
      BY <1>7, <2>9, FlushDoes DEF FileOnly, BufOnly
    <3>2. OnStage(p) BY <1>7 DEF TInv
    <3> QED BY <3>1, <3>2 DEF OnStage, Ctx, Path
  <2>10. ASSUME NEW t \in Paths, UpdateHeader(p, t) \/ UpdateHeaderFails(p, t)
         PROVE  /\ files' \in [Logs -> File] /\ CtxOnly(p, t)
                /\ UNCHANGED <<buf, header, answer, accepted>> /\ OnStage(p)'
    BY <1>7, <2>10, UpdateHeaderDoes DEF FileOnly, OnStage
  <2>11. CASE \E t \in Paths : Flush(p, t) \/ FlushFails(p, t) BY <1>1, <2>9, <2>11 DEF TypeOK
  <2>12. CASE \E t \in Paths : UpdateHeader(p, t) \/ UpdateHeaderFails(p, t)
    BY <1>1, <2>10, <2>12 DEF TypeOK, CtxOnly
  <2> QED BY <1>7, <2>1, <2>2, <2>3, <2>4, <2>5, <2>6, <2>7, <2>8, <2>11, <2>12, WriteKinds
<1>8. CASE p \in Readers /\ ReadLog(p)
  <2>1. p \notin Writers BY <1>8, CProcsAssumption
  <2>2. /\ UNCHANGED <<files, ctx, buf, accepted>>
        /\ header' \in [Readers -> Header \cup {NoHeader}]
    BY <1>8, ReadDoes
  <2>3. answer' \in [Readers -> Seq(Entry) \cup {NoAnswer}]
    <3>1. CASE answer' = answer BY <1>1, <3>1 DEF TypeOK
    <3>2. CASE answer' # answer
      <4>1. /\ Log(p) \in Logs /\ header[p] \in Header /\ Reads(header[p], files[Log(p)])
            /\ answer' = [answer EXCEPT ![p] =
                  Entries(SubSeq(files[Log(p)].recs, 1, header[p].text.total_entries))]
        BY <1>8, <3>2, ReadDoes
      <4>2. files[Log(p)] \in File BY <1>1, <4>1 DEF TypeOK
      <4> QED BY <1>1, <1>8, <4>1, <4>2, ReadPrefix DEF TypeOK
    <3> QED BY <3>1, <3>2
  <2> QED BY <1>1, <2>1, <2>2, <2>3 DEF TypeOK
<1> QED BY <1>7, <1>8 DEF StepOf

LEMMA StutterTInv == TInv /\ UNCHANGED vars => TInv'
BY DEF TInv, vars, TypeOK, Working, OnStage, Staged, Ctx, Path

LEMMA TypeInvariance == Spec => []TInv
<1>1. TInv /\ [Next]_vars => TInv' BY NextTInv, StutterTInv
<1> QED BY InitTInv, <1>1, PTL DEF Spec

\* Files, contexts and stdio buffers of the C programs stay well typed.
THEOREM CTypeCorrect == Spec => []TypeOK
<1>1. TInv => TypeOK BY DEF TInv
<1> QED BY TypeInvariance, <1>1, PTL

------------------------------------------------------------------------------
(* A context, its buffer and a file: what happens to what is known             *)

LEMMA FitsAfterAppend ==
  ASSUME NEW rs \in Seq(Rec), NEW r \in Rec, NEW c, NEW b, Knows(c, b, rs),
         r.tag # BaseTag(c, b)
  PROVE  Knows(c, b, Append(rs, r))
<1> DEFINE ss == Append(rs, r)
<1>1. ss # << >> /\ ss[Len(ss)] = r OBVIOUS
<1>2. ~Fits(ss, c, b) BY <1>1 DEF Fits
<1> QED BY <1>2 DEF Knows

LEMMA KnowsNothingLeft == ASSUME NEW rs, NEW c, NEW b, Knows(c, b, rs) PROVE Knows(c, b, << >>)
BY DEF Knows

\* Load.
LEMMA KnowsWhatItLoads ==
  ASSUME NEW rs \in Seq(Rec), NEW c \in Context,
         \/ c.total_entries = 0 /\ c.loc = [w \in Person |-> Absent]
         \/ /\ c.total_entries > 0 /\ Len(rs) = c.total_entries
            /\ \A w \in Person : PlacedAt(Entries(rs), Len(rs), w, c.loc[w])
  PROVE  Knows(c, << >>, rs)
<1>1. c.total_entries \in Nat BY ContextFields
<1>2. SUFFICES ASSUME NEW ss \in {<< >>, rs}, Fits(ss, c, << >>) PROVE Continues(ss, c, << >>)
  BY DEF Knows
<1>3. Len(ss) = c.total_entries /\ Len(ss) \in Nat BY <1>1, <1>2 DEF Fits, BaseLen
<1>4. \A w \in Person : PlacedAt(Story(ss, << >>), Len(ss), w, c.loc[w])
  <2>1. CASE c.total_entries = 0 /\ c.loc = [w \in Person |-> Absent]
    <3>1. \A w \in Person : c.loc[w] = Absent BY <2>1
    <3>2. 1..Len(ss) = {} BY <1>3, <2>1
    <3> QED BY <3>1, <3>2 DEF PlacedAt
  <2>2. CASE c.total_entries > 0
    <3>1. ss = rs BY <1>3, <2>2
    <3>2. \A i \in 1..Len(ss) : Entries(rs)[i] = Story(ss, << >>)[i] BY <3>1 DEF Entries, Story
    <3>3. \A w \in Person : PlacedAt(Entries(rs), Len(ss), w, c.loc[w])
      <4>1. c.total_entries # 0 BY <1>1, <2>2
      <4> QED BY <3>1, <4>1
    <3> DEFINE n == Len(ss)
               new == Story(ss, << >>)
    <3>4. n \in Nat BY <1>3
    <3> HIDE DEF n, new
    <3> QED BY <3>2, <3>3, <3>4, SamePrefix DEF n, new
  <2> QED BY <1>3, <2>1, <2>2
<1> QED BY <1>3, <1>4 DEF Continues

\* AppendLog.
LEMMA KnowsWhatItAppends ==
  ASSUME NEW rs \in Seq(Rec), NEW c \in Context, NEW b \in Seq(Rec), NEW r \in Rec,
         NEW d \in Context, Buffered(c, b), Knows(c, b, rs), c.state_loaded,
         r.prev_tag = c.last_tag, r.seq = c.total_entries + 1,
         c.loc[r.body.text.who] = From(r.body.text), d.state_loaded,
         d.total_entries = c.total_entries + 1, d.last_tag = r.tag,
         d.loc = [c.loc EXCEPT ![r.body.text.who] = To(r.body.text)]
  PROVE  Buffered(d, Append(b, r)) /\ Knows(d, Append(b, r), rs)
<1> DEFINE a == Append(b, r)
           e == r.body.text
<1>1. /\ c.total_entries \in Nat /\ c.loc \in [Person -> Place] /\ Len(b) \in Nat
      /\ Len(b) <= c.total_entries
  BY ContextFields DEF Buffered
<1>2. /\ Len(a) = Len(b) + 1 /\ a[Len(b) + 1] = r /\ a # << >>
      /\ \A i \in 1..Len(b) : a[i] = b[i]
  OBVIOUS
<1>3. e \in Entry /\ e.who \in Person BY DEF Rec, Sealed, Entry
<1> HIDE DEF a, e
<1>4. BaseLen(d, a) = BaseLen(c, b) BY <1>1, <1>2 DEF BaseLen
<1>5. BaseTag(d, a) = BaseTag(c, b)
  <2>1. CASE b = << >> BY <1>2, <2>1 DEF BaseTag
  <2>2. CASE b # << >>
    <3>1. 1 \in 1..Len(b) BY <1>1, <2>2
    <3> QED BY <1>2, <2>2, <3>1 DEF BaseTag
  <2> QED BY <2>1, <2>2
<1>6. Buffered(d, a)
  <2>1. ASSUME NEW i \in 1..Len(a) PROVE a[i].seq = d.total_entries - Len(a) + i
    <3>1. CASE i \in 1..Len(b)
      <4>1. b[i].seq = c.total_entries - Len(b) + i BY <3>1 DEF Buffered
      <4> QED BY <1>1, <1>2, <3>1, <4>1
    <3>2. CASE i = Len(b) + 1 BY <1>1, <1>2, <3>2
    <3>3. i \in 1..Len(b) \/ i = Len(b) + 1 BY <1>1, <1>2
    <3> QED BY <3>1, <3>2, <3>3
  <2>2. ASSUME NEW i \in 2..Len(a) PROVE a[i].prev_tag = a[i-1].tag
    <3>1. CASE i \in 2..Len(b)
      <4>1. b[i].prev_tag = b[i-1].tag BY <3>1 DEF Buffered
      <4>2. i \in 1..Len(b) /\ i-1 \in 1..Len(b) BY <1>1, <3>1
      <4> QED BY <1>2, <4>1, <4>2
    <3>2. CASE i = Len(b) + 1
      <4>1. b # << >> /\ i-1 = Len(b) /\ Len(b) \in 1..Len(b) BY <1>1, <1>2, <3>2
      <4>2. b[Len(b)].tag = c.last_tag BY <4>1 DEF Buffered
      <4> QED BY <1>2, <3>2, <4>1, <4>2
    <3>3. i \in 2..Len(b) \/ i = Len(b) + 1 BY <1>1, <1>2
    <3> QED BY <3>1, <3>2, <3>3
  <2>3. Len(a) <= d.total_entries BY <1>1, <1>2
  <2> QED BY <1>2, <2>1, <2>2, <2>3 DEF Buffered
<1>7. ASSUME NEW ss \in {<< >>, rs}, Fits(ss, d, a) PROVE Continues(ss, d, a)
  <2> DEFINE n == Len(ss) + Len(b)
             old == Story(ss, b)
             new == Story(ss, a)
  <2>1. Continues(ss, c, b) BY <1>4, <1>5, <1>7 DEF Knows, Fits
  <2>2. Len(ss) \in Nat /\ n \in Nat OBVIOUS
  <2>3. /\ \A i \in 1..n : new[i] = old[i]
        /\ \A i \in 1..n : old[i] = new[i]
        /\ new[n+1] = e
    <3>1. ASSUME NEW i \in 1..n PROVE new[i] = old[i]
      <4>1. i > Len(ss) => i - Len(ss) \in 1..Len(b) BY <1>1, <2>2
      <4>2. i > Len(ss) => a[i - Len(ss)] = b[i - Len(ss)] BY <1>2, <4>1
      <4>3. i \in 1..(Len(ss) + Len(a)) BY <1>1, <1>2, <2>2
      <4>4. old[i] = IF i <= Len(ss) THEN ss[i].body.text ELSE b[i - Len(ss)].body.text
        BY DEF Story
      <4>5. new[i] = IF i <= Len(ss) THEN ss[i].body.text ELSE a[i - Len(ss)].body.text
        BY <4>3 DEF Story
      <4>6. i <= Len(ss) \/ i > Len(ss) BY <2>2
      <4> HIDE DEF old, new
      <4> QED BY <4>2, <4>4, <4>5, <4>6
    <3>2. new[n+1] = e
      <4>1. n + 1 \in 1..(Len(ss) + Len(a)) /\ ~ (n + 1 <= Len(ss)) /\ (n + 1) - Len(ss) = Len(b) + 1
        BY <1>1, <1>2, <2>2
      <4> QED BY <1>2, <4>1 DEF Story, e
    <3> QED BY <3>1, <3>2
  <2> HIDE DEF n, old, new
  <2>4. \A w \in Person : PlacedAt(new, n, w, c.loc[w])
    <3>1. \A w \in Person : PlacedAt(old, n, w, c.loc[w]) BY <2>1 DEF Continues, old, n
    <3> QED BY <2>2, <2>3, <3>1, SamePrefix
  <2>5. ASSUME NEW i \in (Len(ss)+1)..(n+1) PROVE Legal(new, i)
    <3>1. CASE i = n + 1 BY <1>3, <2>2, <2>3, <2>4, <3>1 DEF Legal, e
    <3>2. CASE i \in (Len(ss)+1)..n
      <4>1. Legal(old, i) BY <2>1, <3>2 DEF Continues, old, n
      <4>2. i - 1 \in Nat /\ i \in 1..n /\ \A k \in 1..(i-1) : old[k] = new[k]
        BY <2>2, <2>3, <3>2
      <4> QED BY <2>3, <4>1, <4>2, SamePrefix DEF Legal
    <3>3. i = n + 1 \/ i \in (Len(ss)+1)..n BY <2>2
    <3> QED BY <3>1, <3>2, <3>3
  <2>6. ASSUME NEW w \in Person PROVE PlacedAt(new, n+1, w, d.loc[w])
    <3>1. CASE w = e.who
      <4>1. d.loc[w] = To(e) BY <1>1, <1>3, <3>1 DEF e
      <4>2. LastAbout(new, n+1, w, n+1) BY <2>2, <2>3, <3>1 DEF LastAbout
      <4> QED BY <2>2, <2>3, <4>1, <4>2 DEF PlacedAt
    <3>2. CASE w # e.who
      <4>1. d.loc[w] = c.loc[w] BY <1>1, <3>2 DEF e
      <4>2. PlacedAt(new, n, w, c.loc[w]) BY <2>4
      <4>3. \A k \in 1..(n+1) : k \in 1..n \/ k = n+1 BY <2>2
      <4>4. CASE \A k \in 1..n : new[k].who # w
        <5>1. c.loc[w] = Absent BY <4>2, <4>4 DEF PlacedAt, LastAbout
        <5> QED BY <2>3, <3>2, <4>1, <4>3, <4>4, <5>1 DEF PlacedAt
      <4>5. CASE \E k \in 1..n : new[k].who = w
        <5>1. PICK k \in 1..n : LastAbout(new, n, w, k) /\ c.loc[w] = To(new[k])
          BY <4>2, <4>5 DEF PlacedAt
        <5>2. LastAbout(new, n+1, w, k) /\ k \in 1..(n+1)
          BY <2>2, <2>3, <3>2, <5>1 DEF LastAbout
        <5> QED BY <4>1, <5>1, <5>2 DEF PlacedAt
      <4> QED BY <4>4, <4>5
    <3> QED BY <3>1, <3>2
  <2>7. Len(ss) + Len(a) = n + 1 BY <1>1, <1>2, <2>2 DEF n
  <2> QED BY <2>5, <2>6, <2>7 DEF Continues, new
<1> QED BY <1>6, <1>7 DEF Knows, a

\* Flush: the entry that leaves the buffer is the next of the file, or is lost.
LEMMA BufferedTail ==
  ASSUME NEW c \in Context, NEW b \in Seq(Rec), b # << >>, Buffered(c, b)
  PROVE  /\ Buffered(c, Tail(b)) /\ c.state_loaded
         /\ Len(b) \in Nat /\ Len(Tail(b)) = Len(b) - 1
         /\ \A i \in 1..(Len(b) - 1) : Tail(b)[i] = b[i+1]
         /\ BaseLen(c, Tail(b)) = BaseLen(c, b) + 1 /\ BaseLen(c, b) \in Nat
         /\ BaseTag(c, Tail(b)) = b[1].tag
         /\ b[1].seq = BaseLen(c, b) + 1
<1> DEFINE a == Tail(b)
<1>1. /\ Len(b) \in Nat \ {0} /\ a \in Seq(Rec) /\ Len(a) = Len(b) - 1
      /\ \A i \in 1..(Len(b) - 1) : a[i] = b[i+1]
  OBVIOUS
<1>2. c.total_entries \in Nat BY ContextFields
<1> HIDE DEF a
<1>3. Buffered(c, a)
  <2>1. ASSUME NEW i \in 1..Len(a) PROVE a[i].seq = c.total_entries - Len(a) + i
    <3>1. i + 1 \in 1..Len(b) /\ a[i] = b[i+1] BY <1>1
    <3>2. b[i+1].seq = c.total_entries - Len(b) + (i+1) BY <3>1 DEF Buffered
    <3>3. c.total_entries - Len(b) + (i+1) = c.total_entries - Len(a) + i BY <1>1, <1>2
    <3> QED BY <3>1, <3>2, <3>3
  <2>2. ASSUME NEW i \in 2..Len(a) PROVE a[i].prev_tag = a[i-1].tag
    <3>1. i + 1 \in 2..Len(b) /\ a[i] = b[i+1] /\ a[i-1] = b[i] BY <1>1
    <3>2. b[i+1].prev_tag = b[(i+1)-1].tag BY <3>1 DEF Buffered
    <3> QED BY <3>1, <3>2
  <2>3. a # << >> => a[Len(a)].tag = c.last_tag
    <3>1. a # << >> => Len(a) \in 1..(Len(b) - 1) /\ Len(a) + 1 = Len(b) BY <1>1
    <3>2. a # << >> => a[Len(a)] = b[Len(b)] BY <1>1, <3>1
    <3> QED BY <3>2 DEF Buffered
  <2>4. c.state_loaded /\ Len(a) <= c.total_entries BY <1>1, <1>2 DEF Buffered
  <2> QED BY <2>1, <2>2, <2>3, <2>4 DEF Buffered
<1>4. BaseTag(c, a) = b[1].tag
  <2>1. CASE a = << >>
    <3>1. Len(b) = 1 BY <1>1, <2>1
    <3> QED BY <2>1, <3>1 DEF BaseTag, Buffered
  <2>2. CASE a # << >>
    <3>1. 2 \in 2..Len(b) /\ a[1] = b[2] BY <1>1, <2>2
    <3>2. b[2].prev_tag = b[2-1].tag BY <3>1 DEF Buffered
    <3> QED BY <2>2, <3>1, <3>2 DEF BaseTag
  <2> QED BY <2>1, <2>2
<1>5. BaseLen(c, a) = BaseLen(c, b) + 1 /\ BaseLen(c, b) \in Nat
  BY <1>1, <1>2 DEF BaseLen, Buffered
<1>6. 1 \in 1..Len(b) BY <1>1
<1>7. b[1].seq = BaseLen(c, b) + 1 BY <1>1, <1>2, <1>6 DEF BaseLen, Buffered
<1> QED BY <1>1, <1>3, <1>4, <1>5, <1>7 DEF a, Buffered

LEMMA KnowsWhatItFlushes ==
  ASSUME NEW rs \in Seq(Rec), NEW c \in Context, NEW b \in Seq(Rec), b # << >>,
         Buffered(c, b), Knows(c, b, rs), Fits(rs, c, b)
  PROVE  Continues(Append(rs, b[1]), c, Tail(b))
<1> DEFINE ss == Append(rs, b[1])
           a == Tail(b)
           n == Len(rs) + Len(b)
           old == Story(rs, b)
           new == Story(ss, a)
<1>1. b[1] \in Rec OBVIOUS
<1>2. /\ Len(ss) = Len(rs) + 1 /\ Len(rs) \in Nat /\ ss[Len(rs) + 1] = b[1]
      /\ \A i \in 1..Len(rs) : ss[i] = rs[i]
  BY <1>1
<1>3. /\ Len(a) = Len(b) - 1 /\ Len(b) \in Nat \ {0} /\ c.state_loaded
      /\ \A i \in 1..(Len(b) - 1) : a[i] = b[i+1]
  BY BufferedTail
<1>4. Len(ss) + Len(a) = n /\ n \in Nat BY <1>2, <1>3
<1>5. Continues(rs, c, b) BY <1>3 DEF Knows
<1>6. ASSUME NEW i \in 1..n PROVE old[i] = new[i]
  <2> HIDE DEF ss, a
  <2>1. CASE i \in 1..Len(rs) BY <1>2, <1>3, <1>4, <2>1 DEF Story
  <2>2. CASE i = Len(rs) + 1 BY <1>2, <1>3, <1>4, <2>2 DEF Story
  <2>3. CASE i \in (Len(rs)+2)..n
    <3>1. i - Len(ss) \in 1..(Len(b) - 1) /\ i - Len(rs) = (i - Len(ss)) + 1
      BY <1>2, <1>3, <2>3
    <3>2. a[i - Len(ss)] = b[i - Len(rs)] BY <1>3, <3>1
    <3>3. new[i] = a[i - Len(ss)].body.text BY <1>2, <1>3, <1>4, <2>3 DEF Story
    <3>4. old[i] = b[i - Len(rs)].body.text BY <1>2, <1>3, <1>4, <2>3 DEF Story
    <3> QED BY <3>2, <3>3, <3>4
  <2>4. i \in 1..Len(rs) \/ i = Len(rs) + 1 \/ i \in (Len(rs)+2)..n BY <1>2, <1>4
  <2> QED BY <2>1, <2>2, <2>3, <2>4
<1> HIDE DEF ss, a, old, new, n
<1>7. ASSUME NEW i \in (Len(ss)+1)..n PROVE Legal(new, i)
  <2>1. i \in (Len(rs)+1)..n /\ i \in 1..n /\ i - 1 \in Nat BY <1>2, <1>4
  <2>2. Legal(old, i) BY <1>5, <2>1 DEF Continues, old, n
  <2>3. \A k \in 1..(i-1) : old[k] = new[k] BY <1>4, <1>6
  <2> QED BY <1>6, <2>1, <2>2, <2>3, SamePrefix DEF Legal
<1>8. ASSUME NEW w \in Person PROVE PlacedAt(new, n, w, c.loc[w])
  <2>1. PlacedAt(old, n, w, c.loc[w]) BY <1>5 DEF Continues, old, n
  <2> QED BY <1>4, <1>6, <2>1, SamePrefix
<1> QED BY <1>4, <1>7, <1>8 DEF Continues, ss, a, new

\* A chain that ends in the first entry of the buffer.
LEMMA FitsBefore ==
  ASSUME NEW rs \in Seq(Rec), NEW c \in Context, NEW b \in Seq(Rec), b # << >>,
         Len(rs) = BaseLen(c, b),
         \A i \in 1..Len(Append(rs, b[1])) : Linked(Append(rs, b[1]), i)
  PROVE  Fits(rs, c, b)
<1> DEFINE ss == Append(rs, b[1])
<1>1. b[1] \in Rec /\ Len(rs) \in Nat OBVIOUS
<1>2. /\ Len(ss) = Len(rs) + 1 /\ ss[Len(rs) + 1] = b[1]
      /\ \A i \in 1..Len(rs) : ss[i] = rs[i] /\ i \in 1..Len(ss)
  <2> DEFINE r == b[1]
  <2>1. r \in Rec BY <1>1
  <2> HIDE DEF r
  <2> QED BY <1>1, <2>1
<1> HIDE DEF ss
<1>3. \A i \in 1..Len(ss) : Linked(ss, i) BY DEF ss
<1>4. ASSUME NEW i \in 1..Len(rs) PROVE Linked(rs, i)
  <2>1. Linked(ss, i) BY <1>2, <1>3
  <2>2. i > 1 => i-1 \in 1..Len(rs) BY <1>1
  <2> QED BY <1>2, <2>1, <2>2 DEF Linked
<1>5. ASSUME rs # << >> PROVE rs[Len(rs)].tag = BaseTag(c, b)
  <2>1. Len(rs) \in 1..Len(rs) /\ Len(ss) \in 1..Len(ss) /\ Len(ss) > 1 /\ Len(ss) - 1 = Len(rs)
    BY <1>1, <1>2, <1>5
  <2>2. ss[Len(ss)].prev_tag = ss[Len(rs)].tag BY <1>3, <2>1 DEF Linked
  <2> QED BY <1>2, <2>1, <2>2 DEF BaseTag
<1> QED BY <1>4, <1>5 DEF Fits

LEMMA KnowsAfterFlush ==
  ASSUME NEW rs \in Seq(Rec), NEW c \in Context, NEW b \in Seq(Rec), b # << >>,
         Buffered(c, b), Knows(c, b, rs), \A i \in 1..Len(rs) : rs[i].tag # b[1].tag
  PROVE  /\ Knows(c, Tail(b), Append(rs, b[1]))
         /\ Knows(c, Tail(b), rs)
<1> DEFINE ss == Append(rs, b[1])
           a == Tail(b)
<1>1. b[1] \in Rec /\ Len(rs) \in Nat OBVIOUS
<1>2. /\ Len(ss) = Len(rs) + 1 /\ ss # << >> /\ ss[Len(ss)] = b[1]
      /\ ss \in Seq(Rec) /\ \A i \in 1..Len(rs) : ss[i] = rs[i]
  <2> DEFINE r == b[1]
  <2>1. r \in Rec BY <1>1
  <2> HIDE DEF r
  <2> QED BY <1>1, <2>1
<1>3. /\ BaseLen(c, a) = BaseLen(c, b) + 1 /\ BaseLen(c, b) \in Nat /\ BaseTag(c, a) = b[1].tag
  BY BufferedTail
<1>4. ~Fits(<< >>, c, a) BY <1>3 DEF Fits
<1>5. ~Fits(rs, c, a)
  <2>1. rs # << >> => Len(rs) \in 1..Len(rs) BY <1>1
  <2>2. rs # << >> => rs[Len(rs)].tag # BaseTag(c, a) BY <1>3, <2>1
  <2> QED BY <1>4, <2>2 DEF Fits
<1>6. ASSUME Fits(ss, c, a) PROVE Continues(ss, c, a)
  <2>1. Len(rs) = BaseLen(c, b) /\ \A i \in 1..Len(ss) : Linked(ss, i)
    BY <1>1, <1>2, <1>3, <1>6 DEF Fits
  <2> QED BY <2>1, FitsBefore, KnowsWhatItFlushes
<1> QED BY <1>4, <1>5, <1>6 DEF Knows

LEMMA LinksAfterFlush ==
  ASSUME NEW rs \in Seq(Rec), NEW c \in Context, NEW b \in Seq(Rec), b # << >>,
         Buffered(c, b), Knows(c, b, rs), LinksHold(rs)
  PROVE  LinksHold(Append(rs, b[1]))
<1> DEFINE ss == Append(rs, b[1])
           es == Entries(rs)
           fs == Entries(ss)
<1>1. b[1] \in Rec /\ Len(rs) \in Nat /\ Len(b) \in Nat \ {0} OBVIOUS
<1>2. /\ Len(ss) = Len(rs) + 1 /\ ss \in Seq(Rec) /\ ss[Len(rs) + 1] = b[1]
      /\ \A i \in 1..Len(rs) : ss[i] = rs[i]
  <2> DEFINE r == b[1]
  <2>1. r \in Rec BY <1>1
  <2> HIDE DEF r
  <2> QED BY <1>1, <2>1
<1>3. /\ c.state_loaded /\ BaseLen(c, b) \in Nat /\ b[1].seq = BaseLen(c, b) + 1
  BY BufferedTail
<1>4. SUFFICES ASSUME NEW i \in 1..(Len(rs) + 1), ss[i].seq = i, \A j \in 1..i : Linked(ss, j)
               PROVE  Legal(fs, i)
  BY <1>2 DEF LinksHold
<1>5. /\ \A k \in 1..Len(rs) : es[k] = rs[k].body.text
      /\ \A k \in 1..(Len(rs) + 1) : fs[k] = ss[k].body.text
  BY <1>2 DEF Entries
<1>6. \A k \in 1..Len(rs) : es[k] = fs[k] BY <1>1, <1>2, <1>5
<1>7. CASE i \in 1..Len(rs)
  <2>1. rs[i].seq = i BY <1>2, <1>4, <1>7
  <2>2. ASSUME NEW j \in 1..i PROVE Linked(rs, j)
    <3>1. j \in 1..Len(rs) /\ (j > 1 => j-1 \in 1..Len(rs)) BY <1>1, <1>7
    <3>2. Linked(ss, j) BY <1>4
    <3> QED BY <1>2, <3>1, <3>2 DEF Linked
  <2>3. Legal(es, i) BY <1>7, <2>1, <2>2 DEF LinksHold
  <2>4. i-1 \in Nat /\ \A k \in 1..(i-1) : es[k] = fs[k] BY <1>1, <1>6, <1>7
  <2>5. es[i] = fs[i] BY <1>6, <1>7
  <2> HIDE DEF es, fs
  <2> QED BY <2>3, <2>4, <2>5, SamePrefix DEF Legal
<1>8. CASE i = Len(rs) + 1
  <2> DEFINE old == Story(rs, b)
  <2>1. Len(rs) = BaseLen(c, b) BY <1>1, <1>2, <1>3, <1>4, <1>8
  <2>2. Fits(rs, c, b) BY <1>2, <1>4, <1>8, <2>1, FitsBefore
  <2>3. Continues(rs, c, b) BY <1>3, <2>2 DEF Knows
  <2>4. Legal(old, i) BY <1>1, <1>8, <2>3 DEF Continues
  <2>5. \A k \in 1..i : old[k] = fs[k]
    <3>1. ASSUME NEW k \in 1..i PROVE old[k] = fs[k]
      <4>1. k \in 1..(Len(rs) + Len(b)) /\ k \in 1..(Len(rs) + 1) BY <1>1, <1>8
      <4>2. old[k] = IF k <= Len(rs) THEN rs[k].body.text ELSE b[k - Len(rs)].body.text
        BY <4>1 DEF Story
      <4>3. \/ k \in 1..Len(rs) /\ k <= Len(rs)
            \/ k = Len(rs) + 1 /\ ~(k <= Len(rs)) /\ k - Len(rs) = 1
        BY <1>1, <1>8
      <4> HIDE DEF old, fs, ss
      <4> QED BY <1>2, <1>5, <4>1, <4>2, <4>3
    <3> QED BY <3>1
  <2>6. i-1 \in Nat /\ i \in 1..i /\ \A k \in 1..(i-1) : k \in 1..i BY <1>1, <1>8
  <2> HIDE DEF old, fs
  <2> QED BY <2>4, <2>5, <2>6, SamePrefix DEF Legal
<1> QED BY <1>1, <1>7, <1>8

\* Crash: what was lost leaves the context with a tag that no file will ever have.
LEMMA KnowsAfterCrash ==
  ASSUME NEW rs \in Seq(Rec), NEW c \in Context, NEW b \in Seq(Rec),
         Buffered(c, b), Knows(c, b, rs),
         b # << >> => \A i \in 1..Len(rs) : rs[i].tag # b[Len(b)].tag
  PROVE  Buffered(c, << >>) /\ Knows(c, << >>, rs)
<1>1. c.total_entries \in Nat /\ Len(b) \in Nat /\ Len(rs) \in Nat BY ContextFields
<1>2. Buffered(c, << >>) BY <1>1 DEF Buffered
<1>3. CASE b = << >> BY <1>2, <1>3
<1>4. CASE b # << >>
  <2>1. c.last_tag = b[Len(b)].tag /\ c.total_entries > 0 BY <1>1, <1>4 DEF Buffered
  <2>2. ~Fits(<< >>, c, << >>) BY <1>1, <2>1 DEF Fits, BaseLen
  <2>3. rs # << >> => Len(rs) \in 1..Len(rs) BY <1>1
  <2>4. rs # << >> => rs[Len(rs)].tag # BaseTag(c, << >>) BY <1>4, <2>1, <2>3 DEF BaseTag
  <2>5. ~Fits(rs, c, << >>) BY <2>2, <2>4 DEF Fits
  <2> QED BY <1>2, <2>2, <2>5 DEF Knows
<1> QED BY <1>3, <1>4

\* A context that has loaded nothing yet.
LEMMA KnowsNothingYet ==
  ASSUME NEW c \in Context, ~c.state_loaded
  PROVE  Buffered(c, << >>) /\ \A rs : Knows(c, << >>, rs)
<1>1. c.total_entries \in Nat BY ContextFields
<1> QED BY <1>1 DEF Buffered, Knows

\* UpdateHeader.
LEMMA KnowsTheSame ==
  ASSUME NEW c, NEW d, d.state_loaded = c.state_loaded, d.loc = c.loc,
         d.total_entries = c.total_entries, d.last_tag = c.last_tag,
         NEW b, NEW rs, Buffered(c, b), Knows(c, b, rs)
  PROVE  Buffered(d, b) /\ Knows(d, b, rs) /\ BaseTag(d, b) = BaseTag(c, b)
BY DEF Buffered, Knows, Fits, Continues, BaseTag, BaseLen

------------------------------------------------------------------------------
(* Tags: where a step takes them *)

LEMMA TagTypes ==
  ASSUME TypeOK
  PROVE  /\ \A l \in Logs : /\ files[l] \in File /\ files[l].recs \in Seq(Rec)
                            /\ \A i \in 1..Len(files[l].recs) : files[l].recs[i].tag \in Tag
                            /\ files[l].header # NoHeader => files[l].header \in Header
         /\ \A p \in Writers, t \in Paths :
              /\ ctx[p][t] \in Context /\ buf[p][t] \in Seq(Rec)
              /\ \A i \in 1..Len(buf[p][t]) : buf[p][t][i].tag \in Tag
              /\ BaseTag(ctx[p][t], buf[p][t]) \in Tag \cup {NoTag}
         /\ \A t \in Paths : FileOf[t] \in Logs
<1>1. \A rs \in Seq(Rec) : \A i \in 1..Len(rs) : /\ rs[i].tag \in Tag
                                                 /\ rs[i].prev_tag \in Tag \cup {NoTag}
  <2>1. \A rs \in Seq(Rec) : \A i \in 1..Len(rs) : rs[i] \in Rec OBVIOUS
  <2> QED BY <2>1 DEF Rec
<1>2. \A l \in Logs : /\ files[l] \in File /\ files[l].recs \in Seq(Rec)
                      /\ files[l].header # NoHeader => files[l].header \in Header
  <2>1. \A l \in Logs : files[l] \in File BY DEF TypeOK
  <2> QED BY <2>1 DEF File
<1>3. \A p \in Writers, t \in Paths : ctx[p][t] \in Context /\ buf[p][t] \in Seq(Rec)
  BY DEF TypeOK
<1>4. ASSUME NEW p \in Writers, NEW t \in Paths
      PROVE  BaseTag(ctx[p][t], buf[p][t]) \in Tag \cup {NoTag}
  <2> DEFINE c == ctx[p][t]
             b == buf[p][t]
  <2>1. c \in Context /\ b \in Seq(Rec) BY <1>3
  <2> HIDE DEF c, b
  <2>2. CASE b = << >>
    <3>1. c.last_tag \in Tag \cup {NoTag} BY <2>1, ContextFields
    <3>2. BaseTag(c, b) = c.last_tag BY <2>2 DEF BaseTag
    <3> QED BY <3>1, <3>2 DEF c, b
  <2>3. CASE b # << >>
    <3>1. 1 \in 1..Len(b) BY <2>1, <2>3
    <3>2. BaseTag(c, b) = b[1].prev_tag BY <2>3 DEF BaseTag
    <3>3. b[1].prev_tag \in Tag \cup {NoTag} BY <1>1, <2>1, <3>1
    <3> QED BY <3>2, <3>3 DEF c, b
  <2> QED BY <2>2, <2>3
<1>5. ASSUME NEW l \in Logs PROVE \A i \in 1..Len(files[l].recs) : files[l].recs[i].tag \in Tag
  <2>1. files[l].recs \in Seq(Rec) BY <1>2
  <2> QED BY <1>1, <2>1
<1>6. ASSUME NEW p \in Writers, NEW t \in Paths
      PROVE  \A i \in 1..Len(buf[p][t]) : buf[p][t][i].tag \in Tag
  <2>1. buf[p][t] \in Seq(Rec) BY <1>3
  <2> QED BY <1>1, <2>1
<1>7. \A t \in Paths : FileOf[t] \in Logs BY CPathsAssumption
<1> QED BY <1>2, <1>3, <1>4, <1>5, <1>6, <1>7

\* What is in the files and contexts is settled, what is in the buffers is pending.
LEMMA TagsHeld ==
  ASSUME TypeOK
  PROVE  /\ \A l \in Logs : /\ \A i \in 1..Len(files[l].recs) : files[l].recs[i].tag \in SettledTags
                            /\ files[l].header # NoHeader =>
                                 files[l].header.text.last_tag \in SettledTags \cup {NoTag}
         /\ \A p \in Writers, t \in Paths :
              /\ BaseTag(ctx[p][t], buf[p][t]) \in SettledTags \cup {NoTag}
              /\ \A i \in 1..Len(buf[p][t]) : buf[p][t][i].tag \in PendingTags
<1>1. ASSUME NEW l \in Logs, NEW i \in 1..Len(files[l].recs)
      PROVE  files[l].recs[i].tag \in SettledTags
  <2>1. files[l].recs[i].tag \in Tag BY TagTypes
  <2> QED BY <2>1 DEF SettledTags
<1>2. ASSUME NEW l \in Logs, files[l].header # NoHeader
      PROVE  files[l].header.text.last_tag \in SettledTags \cup {NoTag}
  <2>1. files[l].header \in Header BY <1>2, TagTypes
  <2>2. files[l].header.text.last_tag \in Tag \cup {NoTag} BY <2>1, HeaderType
  <2> QED BY <1>2, <2>2 DEF SettledTags
<1>3. ASSUME NEW p \in Writers, NEW t \in Paths
      PROVE  BaseTag(ctx[p][t], buf[p][t]) \in SettledTags \cup {NoTag}
  <2>1. BaseTag(ctx[p][t], buf[p][t]) \in Tag \cup {NoTag} BY TagTypes
  <2> QED BY <2>1 DEF SettledTags
<1>4. ASSUME NEW p \in Writers, NEW t \in Paths, NEW i \in 1..Len(buf[p][t])
      PROVE  buf[p][t][i].tag \in PendingTags
  <2>1. buf[p][t][i].tag \in Tag BY TagTypes
  <2> QED BY <2>1 DEF PendingTags
<1> QED BY <1>1, <1>2, <1>3, <1>4

LEMMA SettledBy ==
  ASSUME NEW T,
         \A l \in Logs : /\ \A i \in 1..Len(files'[l].recs) : files'[l].recs[i].tag \in T
                         /\ files'[l].header # NoHeader =>
                              files'[l].header.text.last_tag \in T \cup {NoTag},
         \A p \in Writers, t \in Paths : BaseTag(ctx'[p][t], buf'[p][t]) \in T \cup {NoTag}
  PROVE  SettledTags' \subseteq T
<1>1. NoTag \notin Tag BY CNullsAssumption DEF Tag
<1>2. ASSUME NEW x \in SettledTags' PROVE x \in T
  <2>1. x \in Tag
    BY <1>2 DEF SettledTags
  <2>2. \/ \E l \in Logs : \/ \E i \in 1..Len(files'[l].recs) : files'[l].recs[i].tag = x
                           \/ files'[l].header # NoHeader /\ files'[l].header.text.last_tag = x
        \/ \E p \in Writers, t \in Paths : BaseTag(ctx'[p][t], buf'[p][t]) = x
    BY <1>2 DEF SettledTags
  <2>3. x # NoTag BY <1>1, <2>1
  <2>4. CASE \E l \in Logs : \/ \E i \in 1..Len(files'[l].recs) : files'[l].recs[i].tag = x
                             \/ files'[l].header # NoHeader /\ files'[l].header.text.last_tag = x
    BY <2>3, <2>4
  <2>5. CASE \E p \in Writers, t \in Paths : BaseTag(ctx'[p][t], buf'[p][t]) = x
    BY <2>3, <2>5
  <2> QED BY <2>2, <2>4, <2>5
<1> QED BY <1>2

\* What is drawn stays drawn.
LEMMA DrawnStays ==
  ASSUME TInv, NEW p \in Procs, StepOf(p)
  PROVE  DrawnTags \subseteq DrawnTags'
<1>1. SUFFICES ASSUME NEW x \in DrawnTags PROVE x \in DrawnTags' OBVIOUS
<1>2. x \in Tag /\ x.by \in Writers /\ x.by \in Procs /\ x.line \in Nat
  BY <1>1 DEF DrawnTags, Tag, Procs
<1>3. TypeOK BY DEF TInv
<1>4. x.line <= lines[x.by] /\ (pc[x.by] \in AtLine => x.line < lines[x.by])
  BY <1>1 DEF DrawnTags
<1>5. CASE x.by # p
  <2>1. lines'[x.by] = lines[x.by] /\ pc'[x.by] = pc[x.by]
    BY <1>2, <1>3, <1>5, OthersUntouched DEF Untouched
  <2> QED BY <1>2, <1>4, <2>1 DEF DrawnTags
<1>6. CASE x.by = p
  <2>1. \/ lines' = lines /\ (pc'[p] \in AtLine => pc[p] \in AtLine)
        \/ lines' = [lines EXCEPT ![p] = @ + 1]
    BY <1>2, <1>6, Control
  <2>2. lines \in [Procs -> Nat] BY <1>3 DEF TypeOK
  <2>3. CASE lines' = lines /\ (pc'[p] \in AtLine => pc[p] \in AtLine)
    BY <1>2, <1>4, <1>6, <2>3 DEF DrawnTags
  <2>4. CASE lines' = [lines EXCEPT ![p] = @ + 1]
    <3>1. lines'[p] = lines[p] + 1 /\ lines[p] \in Nat BY <2>2, <2>4
    <3>2. x.line <= lines'[p] /\ x.line < lines'[p] BY <1>2, <1>4, <1>6, <3>1
    <3> QED BY <1>2, <1>6, <3>2 DEF DrawnTags
  <2> QED BY <2>1, <2>3, <2>4
<1> QED BY <1>5, <1>6

\* An entry settles when it leaves its buffer.
LEMMA TagsKept ==
  ASSUME GoesOutOnce, DrawnTags \subseteq DrawnTags', PendingTags' \subseteq PendingTags,
         SettledTags' \subseteq SettledTags \cup (PendingTags \ PendingTags')
  PROVE  GoesOutOnce'
BY DEF GoesOutOnce

\* Buffers that lose entries at the front.
LEMMA BuffersShrink ==
  ASSUME TypeOK, Distinct, buf' \in [Writers -> [Paths -> Seq(Rec)]],
         NEW n \in [Writers -> [Paths -> Nat]],
         \A q \in Writers, u \in Paths : \A i \in 1..Len(buf'[q][u]) :
           /\ i + n[q][u] \in 1..Len(buf[q][u])
           /\ buf'[q][u][i] = buf[q][u][i + n[q][u]]
  PROVE  Distinct' /\ PendingTags' \subseteq PendingTags
<1>1. ASSUME NEW p \in Writers, NEW q \in Writers, NEW t \in Paths, NEW u \in Paths,
             NEW i \in 1..Len(buf'[p][t]), NEW j \in 1..Len(buf'[q][u]),
             buf'[p][t][i].tag = buf'[q][u][j].tag
      PROVE  p = q /\ t = u /\ i = j
  <2>1. /\ i + n[p][t] \in 1..Len(buf[p][t]) /\ j + n[q][u] \in 1..Len(buf[q][u])
        /\ buf[p][t][i + n[p][t]].tag = buf[q][u][j + n[q][u]].tag
    BY <1>1
  <2> DEFINE k == i + n[p][t]
             m == j + n[q][u]
  <2>2. p = q /\ t = u /\ k = m
    <3>1. k \in 1..Len(buf[p][t]) /\ m \in 1..Len(buf[q][u]) /\ buf[p][t][k].tag = buf[q][u][m].tag
      BY <2>1
    <3> HIDE DEF k, m
    <3>2. \A a \in 1..Len(buf[p][t]), b \in 1..Len(buf[q][u]) :
            buf[p][t][a].tag = buf[q][u][b].tag => p = q /\ t = u /\ a = b
      BY DEF Distinct
    <3> QED BY <3>1, <3>2
  <2>3. n[p][t] \in Nat /\ i \in Int /\ j \in Int OBVIOUS
  <2> QED BY <2>2, <2>3 DEF k, m
<1>2. Distinct' BY <1>1 DEF Distinct
<1>3. ASSUME NEW x \in PendingTags' PROVE x \in PendingTags
  <2>1. PICK p \in Writers, t \in Paths : \E i \in 1..Len(buf'[p][t]) : buf'[p][t][i].tag = x
    BY <1>3 DEF PendingTags
  <2>2. PICK i \in 1..Len(buf'[p][t]) : buf'[p][t][i].tag = x BY <2>1
  <2>3. i + n[p][t] \in 1..Len(buf[p][t]) /\ buf[p][t][i + n[p][t]].tag = x BY <2>2
  <2>4. x \in Tag BY <1>3 DEF PendingTags
  <2> QED BY <2>3, <2>4 DEF PendingTags
<1> QED BY <1>2, <1>3

------------------------------------------------------------------------------
(* Steps keep the chain *)

\* Chained, of one context and its file.
LEMMA ChainedOne ==
  ASSUME TypeOK, Chained, NEW q \in Writers, NEW u \in Paths
  PROVE  /\ Buffered(ctx[q][u], buf[q][u])
         /\ Knows(ctx[q][u], buf[q][u], files[FileOf[u]].recs)
         /\ FileOf[u] \in Logs
BY TagTypes DEF Chained

\* Steps that change no entry, in a file or a buffer.
LEMMA SameEntries ==
  ASSUME TInv, Chained, NEW p \in Procs, StepOf(p), buf' = buf,
         \A l \in Logs : /\ files'[l].recs = files[l].recs
                         /\ files'[l].header # NoHeader =>
                              files'[l].header.text.last_tag \in SettledTags \cup {NoTag},
         \A q \in Writers, u \in Paths :
           \/ ctx'[q][u] = ctx[q][u]
           \/ /\ Buffered(ctx'[q][u], buf[q][u])
              /\ Knows(ctx'[q][u], buf[q][u], files[FileOf[u]].recs)
              /\ BaseTag(ctx'[q][u], buf[q][u]) \in SettledTags \cup {NoTag}
  PROVE  Chained'
<1>1. TypeOK BY DEF TInv
<1>2. ASSUME NEW q \in Writers, NEW u \in Paths
      PROVE  /\ Buffered(ctx'[q][u], buf'[q][u])
             /\ Knows(ctx'[q][u], buf'[q][u], files'[FileOf[u]].recs)
             /\ BaseTag(ctx'[q][u], buf'[q][u]) \in SettledTags \cup {NoTag}
  <2>1. /\ Buffered(ctx[q][u], buf[q][u]) /\ FileOf[u] \in Logs
        /\ Knows(ctx[q][u], buf[q][u], files[FileOf[u]].recs)
    BY <1>1, ChainedOne
  <2>2. BaseTag(ctx[q][u], buf[q][u]) \in SettledTags \cup {NoTag} BY <1>1, TagsHeld
  <2>3. files'[FileOf[u]].recs = files[FileOf[u]].recs BY <2>1
  <2>4. CASE ctx'[q][u] = ctx[q][u] BY <2>1, <2>2, <2>3, <2>4
  <2>5. CASE ctx'[q][u] # ctx[q][u] BY <2>3, <2>5
  <2> QED BY <2>4, <2>5
<1>3. GoesOutOnce'
  <2>1. \A l \in Logs : \A i \in 1..Len(files'[l].recs) : files'[l].recs[i].tag \in SettledTags
    BY <1>1, TagsHeld
  <2>2. SettledTags' \subseteq SettledTags BY <1>2, <2>1, SettledBy
  <2>3. PendingTags' = PendingTags BY DEF PendingTags
  <2>4. DrawnTags \subseteq DrawnTags' BY DrawnStays
  <2>5. GoesOutOnce BY DEF Chained
  <2> QED BY <2>2, <2>3, <2>4, <2>5, TagsKept
<1>4. Distinct' BY DEF Chained, Distinct
<1>5. \A l \in Logs : LinksHold(files'[l].recs) BY DEF Chained
<1> QED BY <1>2, <1>3, <1>4, <1>5 DEF Chained

LEMMA MovesOnKeeps ==
  ASSUME TInv, Chained, NEW p \in Writers, Write(p), MovesOn(p) PROVE Chained'
<1>1. p \in Procs /\ StepOf(p) /\ TypeOK BY DEF Procs, StepOf, TInv
<1>2. UNCHANGED <<files, ctx, buf>> BY MovesOnDoes
<1> QED BY <1>1, <1>2, TagsHeld, SameEntries

LEMMA ReadLogKeeps ==
  ASSUME TInv, Chained, NEW p \in Readers, ReadLog(p) PROVE Chained'
<1>1. p \in Procs /\ StepOf(p) /\ TypeOK BY DEF Procs, StepOf, TInv
<1>2. UNCHANGED <<files, ctx, buf>> BY ReadDoes
<1> QED BY <1>1, <1>2, TagsHeld, SameEntries

\* A context that has loaded nothing has nothing in its buffer.
LEMMA NotLoaded ==
  ASSUME TInv, Chained, NEW q \in Writers, NEW u \in Paths, ~ctx[q][u].state_loaded
  PROVE  buf[q][u] = << >>
<1>1. TypeOK BY DEF TInv
<1>2. Buffered(ctx[q][u], buf[q][u]) BY <1>1, ChainedOne
<1> QED BY <1>2 DEF Buffered

\* Steps that authenticate or found change one context, to one not yet loaded.
LEMMA NewContextKeeps ==
  ASSUME TInv, Chained, NEW p \in Writers, Write(p), buf' = buf, NEW t \in Paths,
         CtxOnly(p, t), ~ctx[p][t].state_loaded, ~ctx'[p][t].state_loaded,
         ctx'[p][t].last_tag \in SettledTags \cup {NoTag},
         \A l \in Logs : /\ files'[l].recs = files[l].recs
                         /\ files'[l].header # NoHeader =>
                              files'[l].header.text.last_tag \in SettledTags \cup {NoTag}
  PROVE  Chained'
<1>1. p \in Procs /\ StepOf(p) BY DEF Procs, StepOf
<1>2. buf[p][t] = << >> BY NotLoaded
<1>3. ctx'[p][t] \in Context BY DEF CtxOnly
<1>4. /\ Buffered(ctx'[p][t], buf[p][t])
      /\ Knows(ctx'[p][t], buf[p][t], files[FileOf[t]].recs)
  BY <1>2, <1>3, KnowsNothingYet
<1>5. BaseTag(ctx'[p][t], buf[p][t]) \in SettledTags \cup {NoTag} BY <1>2 DEF BaseTag
<1>6. \A q \in Writers, u \in Paths : q # p \/ u # t => ctx'[q][u] = ctx[q][u] BY DEF CtxOnly
<1> QED BY <1>1, <1>4, <1>5, <1>6, SameEntries

LEMMA AuthenticateKeeps ==
  ASSUME TInv, Chained, NEW p \in Writers, Write(p), Authenticate(p) PROVE Chained'
<1> DEFINE t == Path(p)
<1>1. p \in Procs /\ StepOf(p) /\ TypeOK BY DEF Procs, StepOf, TInv
<1>2. t \in Paths /\ Log(p) \in Logs BY AuthenticateDoes
<1>3. buf' = buf /\ files' = files BY DEF Authenticate
<1>4. \A l \in Logs : /\ files'[l].recs = files[l].recs
                      /\ files'[l].header # NoHeader =>
                           files'[l].header.text.last_tag \in SettledTags \cup {NoTag}
  BY <1>1, <1>3, TagsHeld
<1>5. CASE ctx' = ctx BY <1>1, <1>3, <1>4, <1>5, SameEntries
<1>6. CASE ctx' # ctx
  <2>1. /\ CtxOnly(p, t) /\ ~ctx[p][t].authenticated /\ ~ctx'[p][t].state_loaded
        /\ files[Log(p)].header # NoHeader
        /\ ctx'[p][t].last_tag = files[Log(p)].header.text.last_tag
    BY <1>6, AuthenticateDoes
  <2>2. Staged(ctx[p][t]) BY <1>2 DEF TInv
  <2>3. ~ctx[p][t].state_loaded BY <2>1, <2>2 DEF Staged
  <2>4. ctx'[p][t].last_tag \in SettledTags \cup {NoTag} BY <1>1, <1>2, <2>1, TagsHeld
  <2> HIDE DEF t
  <2> QED BY <1>2, <1>3, <1>4, <2>1, <2>3, <2>4, NewContextKeeps
<1> QED BY <1>5, <1>6

\* WriteNew, or its failure that goes unnoticed.
LEMMA WriteNewKeeps ==
  ASSUME TInv, Chained, NEW p \in Writers, Write(p),
         \/ WriteNew(p)
         \/ /\ WriteNewFails(p) /\ GoTo(p, "load")
            /\ SetCtx(p, [NewContext EXCEPT !.authenticated = TRUE, !.key = NewKey(p)])
  PROVE  Chained'
<1> DEFINE t == Path(p)
<1>1. TypeOK BY DEF TInv
<1>2. pc[p] = "create" /\ cmd' = cmd /\ buf' = buf BY DEF WriteNew, WriteNewFails
<1>3. /\ GoTo(p, "load")
      /\ SetCtx(p, [NewContext EXCEPT !.authenticated = TRUE, !.key = NewKey(p)])
  BY DEF WriteNew
<1>4. /\ t \in Paths /\ CtxOnly(p, t) /\ ctx[p][t] = NewContext
      /\ ~ctx'[p][t].state_loaded /\ ctx'[p][t].last_tag = NoTag
  BY <1>2, <1>3, FoundsContext
<1>5. ~ctx[p][t].state_loaded BY <1>4, NewContextType
<1>6. \A l \in Logs : /\ files'[l].recs = files[l].recs
                      /\ files'[l].header # NoHeader =>
                           files'[l].header.text.last_tag \in SettledTags \cup {NoTag}
  <2>1. CASE WriteNew(p)
    <3>1. /\ Log(p) \in Logs /\ files'[Log(p)].recs = files[Log(p)].recs
          /\ files'[Log(p)].header # NoHeader => files'[Log(p)].header.text.last_tag = NoTag
          /\ \A l \in Logs : l # Log(p) => files'[l] = files[l]
      BY <2>1, WriteNewDoes DEF FileOnly
    <3>2. ASSUME NEW l \in Logs
          PROVE  /\ files'[l].recs = files[l].recs
                 /\ files'[l].header # NoHeader =>
                      files'[l].header.text.last_tag \in SettledTags \cup {NoTag}
      <4>1. CASE l = Log(p) BY <3>1, <4>1
      <4>2. CASE l # Log(p) BY <1>1, <3>1, <4>2, TagsHeld
      <4> QED BY <4>1, <4>2
    <3> QED BY <3>2
  <2>2. CASE WriteNewFails(p)
    <3>1. files' = files BY <2>2 DEF WriteNewFails
    <3> QED BY <1>1, <3>1, TagsHeld
  <2> QED BY <2>1, <2>2
<1> HIDE DEF t
<1> QED BY <1>2, <1>4, <1>5, <1>6, NewContextKeeps

LEMMA LoadKeeps ==
  ASSUME TInv, Chained, NEW p \in Writers, Write(p), Load(p) PROVE Chained'
<1> DEFINE t == Path(p)
           c == ctx[p][t]
           d == ctx'[p][t]
           rs == files[FileOf[t]].recs
<1>1. p \in Procs /\ StepOf(p) /\ TypeOK BY DEF Procs, StepOf, TInv
<1>2. t \in Paths /\ Log(p) = FileOf[t] BY LoadDoes
<1>3. buf' = buf /\ files' = files BY DEF Load
<1>4. \A l \in Logs : /\ files'[l].recs = files[l].recs
                      /\ files'[l].header # NoHeader =>
                           files'[l].header.text.last_tag \in SettledTags \cup {NoTag}
  BY <1>1, <1>3, TagsHeld
<1>5. CASE ctx' = ctx BY <1>1, <1>3, <1>4, <1>5, SameEntries
<1>6. CASE ctx' # ctx
  <2>1. /\ CtxOnly(p, t) /\ ~c.state_loaded
        /\ d.total_entries = c.total_entries /\ d.last_tag = c.last_tag
        /\ \/ d.total_entries = 0 /\ d.loc = [w \in Person |-> Absent]
           \/ /\ d.total_entries > 0 /\ Len(rs) = d.total_entries
              /\ \A w \in Person : PlacedAt(Entries(rs), Len(rs), w, d.loc[w])
    BY <1>2, <1>6, LoadDoes
  <2>2. d \in Context /\ rs \in Seq(Rec) BY <1>1, <1>2, <2>1, TagTypes DEF CtxOnly
  <2>3. buf[p][t] = << >> BY <1>2, <2>1, NotLoaded
  <2>4. Knows(d, << >>, rs)
    <3> HIDE DEF d, rs
    <3> QED BY <2>1, <2>2, KnowsWhatItLoads
  <2>5. Buffered(d, << >>)
    <3>1. d.total_entries \in Nat BY <2>2, ContextFields
    <3> QED BY <3>1 DEF Buffered
  <2>6. BaseTag(d, << >>) \in SettledTags \cup {NoTag}
    <3>1. BaseTag(c, << >>) \in SettledTags \cup {NoTag} BY <1>1, <1>2, <2>3, TagsHeld
    <3> QED BY <2>1, <3>1 DEF BaseTag
  <2>7. \A q \in Writers, u \in Paths : q # p \/ u # t => ctx'[q][u] = ctx[q][u]
    BY <2>1 DEF CtxOnly
  <2> QED BY <1>1, <1>3, <1>4, <2>3, <2>4, <2>5, <2>6, <2>7, SameEntries
<1> QED BY <1>5, <1>6

LEMMA UpdateHeaderKeeps ==
  ASSUME TInv, Chained, NEW p \in Writers, Write(p), NEW t \in Paths,
         UpdateHeader(p, t) \/ UpdateHeaderFails(p, t)
  PROVE  Chained'
<1> DEFINE l == FileOf[t]
           c == ctx[p][t]
           d == ctx'[p][t]
<1>1. p \in Procs /\ StepOf(p) /\ TypeOK BY DEF Procs, StepOf, TInv
<1>2. /\ l \in Logs /\ FileOnly(l) /\ CtxOnly(p, t) /\ buf[p][t] = << >> /\ buf' = buf
      /\ files'[l].recs = files[l].recs
      /\ \/ files'[l].header = files[l].header \/ files'[l].header = NoHeader
         \/ files'[l].header # NoHeader /\ files'[l].header.text.last_tag = c.last_tag
      /\ d.state_loaded = c.state_loaded /\ d.loc = c.loc
      /\ d.total_entries = c.total_entries /\ d.last_tag = c.last_tag
  BY UpdateHeaderDoes
<1>3. c.last_tag \in SettledTags \cup {NoTag}
  <2>1. BaseTag(c, buf[p][t]) \in SettledTags \cup {NoTag} BY <1>1, TagsHeld
  <2> QED BY <1>2, <2>1 DEF BaseTag
<1>4. ASSUME NEW k \in Logs
      PROVE  /\ files'[k].recs = files[k].recs
             /\ files'[k].header # NoHeader =>
                  files'[k].header.text.last_tag \in SettledTags \cup {NoTag}
  <2>1. files[k].header # NoHeader =>
          files[k].header.text.last_tag \in SettledTags \cup {NoTag}
    BY <1>1, TagsHeld
  <2>2. CASE k = l BY <1>2, <1>3, <2>1, <2>2
  <2>3. CASE k # l BY <1>2, <2>1, <2>3 DEF FileOnly
  <2> QED BY <2>2, <2>3
<1>5. /\ Buffered(c, buf[p][t]) /\ Knows(c, buf[p][t], files[l].recs)
      /\ BaseTag(c, buf[p][t]) \in SettledTags \cup {NoTag}
  BY <1>1, ChainedOne, TagsHeld
<1>6. /\ Buffered(d, buf[p][t]) /\ Knows(d, buf[p][t], files[l].recs)
      /\ BaseTag(d, buf[p][t]) \in SettledTags \cup {NoTag}
  <2> HIDE DEF c, d
  <2> QED BY <1>2, <1>5, KnowsTheSame
<1>7. \A q \in Writers, u \in Paths : q # p \/ u # t => ctx'[q][u] = ctx[q][u]
  BY <1>2 DEF CtxOnly
<1> QED BY <1>1, <1>2, <1>4, <1>6, <1>7, SameEntries

LEMMA OpenNewKeeps ==
  ASSUME TInv, Chained, NEW p \in Writers, Write(p), OpenNew(p) PROVE Chained'
<1>1. p \in Procs /\ StepOf(p) /\ TypeOK BY DEF Procs, StepOf, TInv
<1>2. UNCHANGED <<ctx, buf>> BY DEF OpenNew
<1>3. ASSUME NEW l \in Logs PROVE files'[l] = files[l] \/ files'[l] = EmptyFile
  BY OpenNewDoes DEF FileOnly
<1>4. EmptyFile.recs = << >> /\ EmptyFile.header = NoHeader BY NewFileType
<1>5. ASSUME NEW q \in Writers, NEW u \in Paths
      PROVE  /\ Buffered(ctx'[q][u], buf'[q][u])
             /\ Knows(ctx'[q][u], buf'[q][u], files'[FileOf[u]].recs)
  <2>1. /\ Buffered(ctx[q][u], buf[q][u]) /\ FileOf[u] \in Logs
        /\ Knows(ctx[q][u], buf[q][u], files[FileOf[u]].recs)
    BY <1>1, ChainedOne
  <2>2. Knows(ctx[q][u], buf[q][u], << >>) BY <2>1, KnowsNothingLeft
  <2>3. files'[FileOf[u]].recs \in {files[FileOf[u]].recs, << >>} BY <1>3, <1>4, <2>1
  <2> QED BY <1>2, <2>1, <2>2, <2>3
<1>6. GoesOutOnce'
  <2>1. ASSUME NEW l \in Logs
        PROVE  /\ \A i \in 1..Len(files'[l].recs) : files'[l].recs[i].tag \in SettledTags
               /\ files'[l].header # NoHeader =>
                    files'[l].header.text.last_tag \in SettledTags \cup {NoTag}
    <3>1. CASE files'[l] = files[l] BY <1>1, <3>1, TagsHeld
    <3>2. CASE files'[l] = EmptyFile BY <1>4, <3>2
    <3> QED BY <1>3, <3>1, <3>2
  <2>2. \A q \in Writers, u \in Paths : BaseTag(ctx'[q][u], buf'[q][u]) \in SettledTags \cup {NoTag}
    BY <1>1, <1>2, TagsHeld
  <2>3. SettledTags' \subseteq SettledTags BY <2>1, <2>2, SettledBy
  <2>4. PendingTags' = PendingTags BY <1>2 DEF PendingTags
  <2>5. DrawnTags \subseteq DrawnTags' BY <1>1, DrawnStays
  <2>6. GoesOutOnce BY DEF Chained
  <2> QED BY <2>3, <2>4, <2>5, <2>6, TagsKept
<1>7. Distinct' BY <1>2 DEF Chained, Distinct
<1>8. ASSUME NEW l \in Logs PROVE LinksHold(files'[l].recs)
  <2>1. LinksHold(files[l].recs) BY DEF Chained
  <2>2. LinksHold(<< >>) BY DEF LinksHold
  <2> QED BY <1>3, <1>4, <2>1, <2>2
<1> QED BY <1>5, <1>6, <1>7, <1>8 DEF Chained

\* The entry's tag is new; what the context continues is what it did.
LEMMA AppendLogKeeps ==
  ASSUME TInv, Chained, NEW p \in Writers, Write(p), AppendLog(p) PROVE Chained'
<1> DEFINE t == Path(p)
           c == ctx[p][t]
           d == ctx'[p][t]
           b == buf[p][t]
           r == NewRec(p)
           rs == files[FileOf[t]].recs
<1>1. p \in Procs /\ StepOf(p) /\ TypeOK BY DEF Procs, StepOf, TInv
<1>2. /\ t \in Paths /\ CtxOnly(p, t) /\ BufOnly(p, t) /\ pc'[p] \notin AtLine
      /\ c.state_loaded /\ c = Ctx(p) /\ buf'[p][t] = Append(b, r) /\ d.state_loaded
      /\ c.loc[cmd[p].entry.who] = From(cmd[p].entry)
      /\ d.total_entries = c.total_entries + 1 /\ d.last_tag = r.tag
      /\ d.loc = [c.loc EXCEPT ![cmd[p].entry.who] = To(cmd[p].entry)]
  BY AppendLogDoes
<1>3. pc[p] = "process" /\ pc[p] \in AtLine /\ UNCHANGED <<files, lines>>
  BY DEF AppendLog, AtLine
<1>4. /\ r \in Rec /\ r.tag = [by |-> p, line |-> lines[p]] /\ r.body.text = cmd[p].entry
      /\ r.seq = c.total_entries + 1 /\ r.prev_tag = c.last_tag
  BY <1>2, <1>3, NewRecType
<1>5. c \in Context /\ b \in Seq(Rec) /\ rs \in Seq(Rec) /\ d \in Context
  BY <1>1, <1>2, TagTypes DEF CtxOnly
<1>6. Buffered(c, b) /\ Knows(c, b, rs) BY <1>1, <1>2, ChainedOne
<1>7. lines[p] \in Nat \ {0} BY <1>3, OnLine
<1>8. r.tag \in Tag /\ r.tag \notin DrawnTags /\ r.tag \in DrawnTags'
  <2>1. r.tag \in Tag /\ r.tag.by = p /\ r.tag.line = lines[p] BY <1>4, <1>7 DEF Tag
  <2>2. r.tag \notin DrawnTags
    <3>1. SUFFICES ASSUME r.tag \in DrawnTags PROVE FALSE OBVIOUS
    <3>2. pc[r.tag.by] \in AtLine => r.tag.line < lines[r.tag.by] BY <3>1 DEF DrawnTags
    <3>3. lines[p] < lines[p] BY <1>3, <2>1, <3>2
    <3> QED BY <1>7, <3>3
  <2>3. r.tag.line <= lines'[r.tag.by] BY <1>3, <1>7, <2>1
  <2>4. ~(pc'[r.tag.by] \in AtLine) BY <1>2, <2>1
  <2> HIDE DEF r
  <2> QED BY <2>1, <2>2, <2>3, <2>4 DEF DrawnTags
<1> HIDE DEF r, d, c, b, rs, t
<1>9. Buffered(d, Append(b, r)) /\ Knows(d, Append(b, r), rs)
  BY <1>2, <1>4, <1>5, <1>6, KnowsWhatItAppends
<1>10. BaseTag(d, Append(b, r)) = BaseTag(c, b)
  <2>1. Append(b, r) # << >> /\ Len(b) \in Nat BY <1>4, <1>5
  <2>2. CASE b = << >>
    <3>1. Append(b, r)[1] = r BY <1>4, <1>5, <2>2
    <3> QED BY <1>4, <2>1, <2>2, <3>1 DEF BaseTag
  <2>3. CASE b # << >>
    <3>1. Append(b, r)[1] = b[1] BY <1>4, <1>5, <2>1, <2>3
    <3> QED BY <2>1, <2>3, <3>1 DEF BaseTag
  <2> QED BY <2>2, <2>3
<1>11. \A q \in Writers, u \in Paths : q # p \/ u # t =>
          ctx'[q][u] = ctx[q][u] /\ buf'[q][u] = buf[q][u]
  BY <1>2 DEF CtxOnly, BufOnly
<1>12. ASSUME NEW q \in Writers, NEW u \in Paths
       PROVE  /\ Buffered(ctx'[q][u], buf'[q][u])
              /\ Knows(ctx'[q][u], buf'[q][u], files'[FileOf[u]].recs)
              /\ BaseTag(ctx'[q][u], buf'[q][u]) \in SettledTags \cup {NoTag}
  <2>1. CASE q = p /\ u = t
    <3>1. BaseTag(ctx[p][t], buf[p][t]) \in SettledTags \cup {NoTag} BY <1>1, <1>2, TagsHeld
    <3>2. BaseTag(c, b) \in SettledTags \cup {NoTag} BY <3>1 DEF c, b
    <3>3. ctx'[q][u] = d /\ buf'[q][u] = Append(b, r) /\ files'[FileOf[u]].recs = rs
      BY <1>2, <1>3, <2>1 DEF d, rs
    <3> QED BY <1>9, <1>10, <3>2, <3>3
  <2>2. CASE q # p \/ u # t
    <3>1. /\ Buffered(ctx[q][u], buf[q][u])
          /\ Knows(ctx[q][u], buf[q][u], files[FileOf[u]].recs)
          /\ BaseTag(ctx[q][u], buf[q][u]) \in SettledTags \cup {NoTag}
      BY <1>1, ChainedOne, TagsHeld
    <3>2. ctx'[q][u] = ctx[q][u] /\ buf'[q][u] = buf[q][u] BY <1>11, <2>2
    <3> QED BY <1>3, <3>1, <3>2
  <2> QED BY <2>1, <2>2
<1>13. ASSUME NEW q \in Writers, NEW u \in Paths, NEW i \in 1..Len(buf'[q][u])
       PROVE  \/ i \in 1..Len(buf[q][u]) /\ buf'[q][u][i] = buf[q][u][i]
              \/ q = p /\ u = t /\ i = Len(b) + 1 /\ buf'[q][u][i].tag = r.tag
  <2>1. CASE q = p /\ u = t
    <3>1. buf'[q][u] = Append(b, r) /\ buf[q][u] = b BY <1>2, <2>1 DEF b
    <3>2. i \in 1..Len(b) \/ i = Len(b) + 1 BY <1>4, <1>5, <3>1
    <3>3. CASE i \in 1..Len(b) BY <1>4, <1>5, <3>1, <3>3
    <3>4. CASE i = Len(b) + 1 BY <1>4, <1>5, <2>1, <3>1, <3>4
    <3> QED BY <3>2, <3>3, <3>4
  <2>2. CASE q # p \/ u # t BY <1>11, <2>2
  <2> QED BY <2>1, <2>2
<1>14. \A q \in Writers, u \in Paths : \A i \in 1..Len(buf[q][u]) :
         buf[q][u][i].tag \in PendingTags /\ buf[q][u][i].tag # r.tag
  BY <1>1, <1>8, TagsHeld DEF Chained, GoesOutOnce
<1>15. GoesOutOnce'
  <2>1. SettledTags' \subseteq SettledTags
    <3>1. \A l \in Logs :
            /\ \A i \in 1..Len(files'[l].recs) : files'[l].recs[i].tag \in SettledTags
            /\ files'[l].header # NoHeader =>
                 files'[l].header.text.last_tag \in SettledTags \cup {NoTag}
      BY <1>1, <1>3, TagsHeld
    <3> QED BY <1>12, <3>1, SettledBy
  <2>2. PendingTags' \subseteq PendingTags \cup {r.tag}
    <3>1. ASSUME NEW x \in PendingTags' PROVE x \in PendingTags \cup {r.tag}
      <4>1. PICK q \in Writers, u \in Paths : \E i \in 1..Len(buf'[q][u]) : buf'[q][u][i].tag = x
        BY <3>1 DEF PendingTags
      <4>2. PICK i \in 1..Len(buf'[q][u]) : buf'[q][u][i].tag = x BY <4>1
      <4> QED BY <1>13, <1>14, <4>2
    <3> QED BY <3>1
  <2>3. DrawnTags \subseteq DrawnTags' BY <1>1, DrawnStays
  <2> QED BY <1>8, <2>1, <2>2, <2>3 DEF Chained, GoesOutOnce
<1>16. Distinct'
  <2>1. ASSUME NEW q \in Writers, NEW o \in Writers, NEW u \in Paths, NEW v \in Paths,
               NEW i \in 1..Len(buf'[q][u]), NEW j \in 1..Len(buf'[o][v]),
               buf'[q][u][i].tag = buf'[o][v][j].tag
        PROVE  q = o /\ u = v /\ i = j
    <3>1. CASE /\ i \in 1..Len(buf[q][u]) /\ buf'[q][u][i] = buf[q][u][i]
               /\ j \in 1..Len(buf[o][v]) /\ buf'[o][v][j] = buf[o][v][j]
      <4>1. \A a \in 1..Len(buf[q][u]), e \in 1..Len(buf[o][v]) :
              buf[q][u][a].tag = buf[o][v][e].tag => q = o /\ u = v /\ a = e
        BY DEF Chained, Distinct
      <4> QED BY <2>1, <3>1, <4>1
    <3>2. CASE ~ /\ i \in 1..Len(buf[q][u]) /\ buf'[q][u][i] = buf[q][u][i]
                 /\ j \in 1..Len(buf[o][v]) /\ buf'[o][v][j] = buf[o][v][j]
      BY <1>13, <1>14, <2>1, <3>2
    <3> QED BY <3>1, <3>2
  <2> QED BY <2>1 DEF Distinct
<1>17. \A l \in Logs : LinksHold(files'[l].recs) BY <1>3 DEF Chained
<1> QED BY <1>12, <1>15, <1>16, <1>17 DEF Chained

LEMMA CrashKeeps ==
  ASSUME TInv, Chained, NEW p \in Writers, Write(p), Crash(p) PROVE Chained'
<1>1. p \in Procs /\ StepOf(p) /\ TypeOK BY DEF Procs, StepOf, TInv
<1>2. /\ buf' \in [Writers -> [Paths -> Seq(Rec)]] /\ ctx' = ctx
      /\ \A u \in Paths : buf'[p][u] = << >>
      /\ \A q \in Writers \ {p} : buf'[q] = buf[q]
      /\ \A l \in Logs : /\ files'[l].recs = files[l].recs
                         /\ files'[l].header = files[l].header \/ files'[l].header = NoHeader
  BY CrashDoes
<1>3. GoesOutOnce /\ Distinct BY DEF Chained
<1>4. ASSUME NEW u \in Paths
      PROVE  /\ buf[p][u] # << >> => Len(buf[p][u]) \in 1..Len(buf[p][u])
             /\ buf[p][u] = << >> => BaseTag(ctx[p][u], << >>) = BaseTag(ctx[p][u], buf[p][u])
             /\ buf[p][u] # << >> => BaseTag(ctx[p][u], << >>) = buf[p][u][Len(buf[p][u])].tag
  <2>1. buf[p][u] \in Seq(Rec) /\ Buffered(ctx[p][u], buf[p][u]) BY <1>1, TagTypes, ChainedOne
  <2>2. Len(buf[p][u]) \in Nat /\ (buf[p][u] # << >> => Len(buf[p][u]) > 0) BY <2>1
  <2>3. buf[p][u] # << >> => Len(buf[p][u]) \in 1..Len(buf[p][u]) BY <2>2
  <2> QED BY <2>1, <2>3 DEF Buffered, BaseTag
<1>5. ASSUME NEW q \in Writers, NEW u \in Paths
      PROVE  /\ Buffered(ctx'[q][u], buf'[q][u])
             /\ Knows(ctx'[q][u], buf'[q][u], files'[FileOf[u]].recs)
  <2> DEFINE c == ctx[q][u]
             b == buf[q][u]
             rs == files[FileOf[u]].recs
  <2>1. Buffered(c, b) /\ Knows(c, b, rs) /\ FileOf[u] \in Logs BY <1>1, ChainedOne
  <2>2. c \in Context /\ b \in Seq(Rec) /\ rs \in Seq(Rec) BY <1>1, <2>1, TagTypes
  <2>3. CASE q # p BY <1>2, <2>1, <2>3
  <2>4. CASE q = p
    <3>1. b # << >> => \A i \in 1..Len(rs) : rs[i].tag # b[Len(b)].tag
      <4>1. SUFFICES ASSUME b # << >>, NEW i \in 1..Len(rs) PROVE rs[i].tag # b[Len(b)].tag
        OBVIOUS
      <4>2. rs[i].tag \in SettledTags BY <1>1, <2>1, TagsHeld
      <4>3. Len(b) \in 1..Len(b) BY <1>4, <2>4, <4>1
      <4>4. b[Len(b)].tag \in PendingTags BY <1>1, <4>3, TagsHeld
      <4> HIDE DEF b, rs
      <4> QED BY <1>3, <4>2, <4>4 DEF GoesOutOnce
    <3>2. Buffered(c, << >>) /\ Knows(c, << >>, rs)
      <4> HIDE DEF b, c, rs
      <4> QED BY <2>1, <2>2, <3>1, KnowsAfterCrash
    <3> QED BY <1>2, <2>1, <2>4, <3>2
  <2> QED BY <2>3, <2>4
<1>6. Distinct' /\ PendingTags' \subseteq PendingTags
  <2> DEFINE n == [q \in Writers |-> [u \in Paths |-> 0]]
  <2>1. n \in [Writers -> [Paths -> Nat]] OBVIOUS
  <2>2. ASSUME NEW q \in Writers, NEW u \in Paths, NEW i \in 1..Len(buf'[q][u])
        PROVE  /\ i + n[q][u] \in 1..Len(buf[q][u])
               /\ buf'[q][u][i] = buf[q][u][i + n[q][u]]
    <3>1. q # p
      <4>1. SUFFICES ASSUME q = p PROVE FALSE OBVIOUS
      <4>2. Len(buf'[q][u]) = 0 BY <1>2, <4>1
      <4> QED BY <4>2
    <3>2. buf'[q][u] = buf[q][u] BY <1>2, <3>1
    <3>3. i + n[q][u] = i OBVIOUS
    <3> QED BY <3>2, <3>3
  <2> HIDE DEF n
  <2> QED BY <1>1, <1>2, <1>3, <2>1, <2>2, BuffersShrink
<1>7. GoesOutOnce'
  <2> DEFINE T == SettledTags \cup (PendingTags \ PendingTags')
  <2>1. ASSUME NEW l \in Logs
        PROVE  /\ \A i \in 1..Len(files'[l].recs) : files'[l].recs[i].tag \in T
               /\ files'[l].header # NoHeader => files'[l].header.text.last_tag \in T \cup {NoTag}
    BY <1>1, <1>2, TagsHeld
  <2>2. ASSUME NEW q \in Writers, NEW u \in Paths
        PROVE  BaseTag(ctx'[q][u], buf'[q][u]) \in T \cup {NoTag}
    <3>1. BaseTag(ctx[q][u], buf[q][u]) \in SettledTags \cup {NoTag} BY <1>1, TagsHeld
    <3>2. CASE q # p BY <1>2, <3>1, <3>2
    <3>3. CASE q = p /\ buf[p][u] = << >> BY <1>2, <1>4, <3>1, <3>3
    <3>4. CASE q = p /\ buf[p][u] # << >>
      <4> DEFINE x == buf[p][u][Len(buf[p][u])].tag
      <4>1. BaseTag(ctx'[q][u], buf'[q][u]) = x BY <1>2, <1>4, <3>4
      <4>2. Len(buf[p][u]) \in 1..Len(buf[p][u]) BY <1>4, <3>4
      <4>3. x \in PendingTags BY <1>1, <4>2, TagsHeld
      <4>4. x \notin PendingTags'
        <5>1. SUFFICES ASSUME x \in PendingTags' PROVE FALSE OBVIOUS
        <5>2. PICK o \in Writers, v \in Paths : \E i \in 1..Len(buf'[o][v]) : buf'[o][v][i].tag = x
          BY <5>1 DEF PendingTags
        <5>3. PICK i \in 1..Len(buf'[o][v]) : buf'[o][v][i].tag = x BY <5>2
        <5>4. o # p
          <6>1. SUFFICES ASSUME o = p PROVE FALSE OBVIOUS
          <6>2. Len(buf'[o][v]) = 0 BY <1>2, <6>1
          <6> QED BY <6>2
        <5>5. buf'[o][v] = buf[o][v] BY <1>2, <5>4
        <5>6. \A a \in 1..Len(buf[o][v]), e \in 1..Len(buf[p][u]) :
                buf[o][v][a].tag = buf[p][u][e].tag => o = p
          BY <1>3 DEF Distinct
        <5> QED BY <4>2, <5>3, <5>4, <5>5, <5>6
      <4> HIDE DEF x
      <4> QED BY <4>1, <4>3, <4>4
    <3> QED BY <3>2, <3>3, <3>4
  <2>3. SettledTags' \subseteq T
    <3> HIDE DEF T
    <3> QED BY <2>1, <2>2, SettledBy
  <2>4. DrawnTags \subseteq DrawnTags' BY <1>1, DrawnStays
  <2> QED BY <1>3, <1>6, <2>3, <2>4, TagsKept
<1>8. \A l \in Logs : LinksHold(files'[l].recs) BY <1>2 DEF Chained
<1> QED BY <1>5, <1>6, <1>7, <1>8 DEF Chained

\* No other context would link to the entry, so none mistakes the file for its own.
LEMMA FlushKeeps ==
  ASSUME TInv, Chained, NEW p \in Writers, Write(p), NEW t \in Paths,
         Flush(p, t) \/ FlushFails(p, t)
  PROVE  Chained'
<1> DEFINE l == FileOf[t]
           c == ctx[p][t]
           b == buf[p][t]
           r == b[1]
           rs == files[l].recs
<1>1. p \in Procs /\ StepOf(p) /\ TypeOK BY DEF Procs, StepOf, TInv
<1>2. /\ l \in Logs /\ FileOnly(l) /\ BufOnly(p, t) /\ b # << >> /\ buf'[p][t] = Tail(b)
      /\ files'[l].header = files[l].header /\ ctx' = ctx
      /\ files'[l].recs = rs \/ files'[l].recs = Append(rs, r)
  BY FlushDoes
<1>3. c \in Context /\ b \in Seq(Rec) /\ rs \in Seq(Rec) BY <1>1, <1>2, TagTypes
<1>4. 1 \in 1..Len(b) /\ r \in Rec BY <1>2, <1>3
<1>5. Buffered(c, b) /\ Knows(c, b, rs) /\ LinksHold(rs) BY <1>1, <1>2, ChainedOne DEF Chained
<1>6. GoesOutOnce /\ Distinct BY DEF Chained
<1>7. r.tag \in PendingTags /\ r.tag \notin SettledTags /\ r.tag # NoTag
  <2>1. r.tag \in PendingTags /\ r.tag \in Tag BY <1>1, <1>4, TagsHeld, TagTypes
  <2>2. NoTag \notin Tag BY CNullsAssumption DEF Tag
  <2> QED BY <1>6, <2>1, <2>2 DEF GoesOutOnce
<1>8. \A k \in Logs : k # l => files'[k] = files[k] BY <1>2 DEF FileOnly
<1>9. /\ buf' \in [Writers -> [Paths -> Seq(Rec)]]
      /\ \A q \in Writers, u \in Paths : q # p \/ u # t => buf'[q][u] = buf[q][u]
  BY <1>2 DEF BufOnly
<1>10. \A i \in 1..Len(rs) : rs[i].tag # r.tag
  <2>1. \A i \in 1..Len(rs) : rs[i].tag \in SettledTags BY <1>1, <1>2, TagsHeld
  <2> QED BY <1>7, <2>1
<1>11. Len(b) \in Nat /\ Len(Tail(b)) = Len(b) - 1 /\ \A i \in 1..(Len(b) - 1) : Tail(b)[i] = b[i+1]
  BY <1>2, <1>3
<1> HIDE DEF l, c, b, r, rs
<1>12. /\ Buffered(c, Tail(b)) /\ BaseTag(c, Tail(b)) = r.tag
       /\ Knows(c, Tail(b), rs) /\ Knows(c, Tail(b), Append(rs, r))
       /\ LinksHold(Append(rs, r))
  BY <1>2, <1>3, <1>5, <1>10, BufferedTail, KnowsAfterFlush, LinksAfterFlush DEF r
<1>13. ASSUME NEW q \in Writers, NEW u \in Paths
       PROVE  /\ Buffered(ctx'[q][u], buf'[q][u])
              /\ Knows(ctx'[q][u], buf'[q][u], files'[FileOf[u]].recs)
              /\ BaseTag(ctx'[q][u], buf'[q][u]) \in SettledTags \cup {r.tag} \cup {NoTag}
  <2>1. CASE q = p /\ u = t
    <3>1. FileOf[u] = l /\ ctx'[q][u] = c /\ buf'[q][u] = Tail(b) BY <1>2, <2>1 DEF l, c
    <3> QED BY <1>2, <1>12, <3>1
  <2>2. CASE q # p \/ u # t
    <3>1. /\ Buffered(ctx[q][u], buf[q][u]) /\ FileOf[u] \in Logs
          /\ Knows(ctx[q][u], buf[q][u], files[FileOf[u]].recs)
          /\ BaseTag(ctx[q][u], buf[q][u]) \in SettledTags \cup {NoTag}
      BY <1>1, ChainedOne, TagsHeld
    <3>2. ctx'[q][u] = ctx[q][u] /\ buf'[q][u] = buf[q][u] BY <1>2, <1>9, <2>2
    <3>3. r.tag # BaseTag(ctx[q][u], buf[q][u]) BY <1>7, <3>1
    <3>4. CASE files'[FileOf[u]].recs = files[FileOf[u]].recs BY <3>1, <3>2, <3>4
    <3>5. CASE files'[FileOf[u]].recs # files[FileOf[u]].recs
      <4>1. FileOf[u] = l BY <1>8, <3>1, <3>5
      <4>2. files[FileOf[u]].recs = rs BY <4>1 DEF rs
      <4>3. files'[FileOf[u]].recs = Append(rs, r) BY <1>2, <3>5, <4>1, <4>2
      <4>4. Knows(ctx[q][u], buf[q][u], Append(rs, r))
        BY <1>3, <1>4, <3>1, <3>3, <4>2, FitsAfterAppend
      <4> QED BY <3>1, <3>2, <4>3, <4>4
    <3> QED BY <3>4, <3>5
  <2> QED BY <2>1, <2>2
<1>14. Distinct' /\ PendingTags' \subseteq PendingTags /\ r.tag \notin PendingTags'
  <2> DEFINE n == [q \in Writers |-> [u \in Paths |-> IF q = p /\ u = t THEN 1 ELSE 0]]
  <2>1. n \in [Writers -> [Paths -> Nat]] OBVIOUS
  <2>2. ASSUME NEW q \in Writers, NEW u \in Paths, NEW i \in 1..Len(buf'[q][u])
        PROVE  /\ i + n[q][u] \in 1..Len(buf[q][u])
               /\ buf'[q][u][i] = buf[q][u][i + n[q][u]]
               /\ q = p /\ u = t => i + n[q][u] # 1
    <3>1. CASE q = p /\ u = t
      <4>1. buf'[q][u] = Tail(b) /\ buf[q][u] = b /\ n[q][u] = 1 BY <1>2, <3>1 DEF b
      <4>2. i \in 1..(Len(b) - 1) BY <1>11, <4>1
      <4>3. i + 1 \in 1..Len(b) /\ i + 1 # 1 BY <1>11, <4>2
      <4> HIDE DEF n
      <4> QED BY <1>11, <4>1, <4>2, <4>3
    <3>2. CASE q # p \/ u # t
      <4>1. buf'[q][u] = buf[q][u] /\ n[q][u] = 0 BY <1>9, <3>2
      <4>2. i + 0 = i OBVIOUS
      <4> HIDE DEF n
      <4> QED BY <3>2, <4>1, <4>2
    <3> QED BY <3>1, <3>2
  <2> HIDE DEF n
  <2>3. Distinct' /\ PendingTags' \subseteq PendingTags
    <3>1. \A q \in Writers, u \in Paths : \A i \in 1..Len(buf'[q][u]) :
            /\ i + n[q][u] \in 1..Len(buf[q][u])
            /\ buf'[q][u][i] = buf[q][u][i + n[q][u]]
      BY <2>2
    <3> QED BY <1>1, <1>6, <1>9, <2>1, <3>1, BuffersShrink
  <2>4. r.tag \notin PendingTags'
    <3>1. SUFFICES ASSUME r.tag \in PendingTags' PROVE FALSE OBVIOUS
    <3>2. PICK q \in Writers, u \in Paths : \E i \in 1..Len(buf'[q][u]) : buf'[q][u][i].tag = r.tag
      BY <3>1 DEF PendingTags
    <3>3. PICK i \in 1..Len(buf'[q][u]) : buf'[q][u][i].tag = r.tag BY <3>2
    <3> DEFINE k == i + n[q][u]
    <3>4. k \in 1..Len(buf[q][u]) /\ buf[q][u][k].tag = r.tag /\ (q = p /\ u = t => k # 1)
      BY <2>2, <3>3
    <3>5. 1 \in 1..Len(buf[p][t]) /\ buf[p][t][1].tag = r.tag BY <1>4 DEF r, b
    <3>6. \A a \in 1..Len(buf[q][u]), e \in 1..Len(buf[p][t]) :
            buf[q][u][a].tag = buf[p][t][e].tag => q = p /\ u = t /\ a = e
      BY <1>6 DEF Distinct
    <3> HIDE DEF k
    <3> QED BY <3>4, <3>5, <3>6
  <2> QED BY <2>3, <2>4
<1>15. GoesOutOnce'
  <2> DEFINE T == SettledTags \cup {r.tag}
  <2>1. ASSUME NEW k \in Logs
        PROVE  /\ \A i \in 1..Len(files'[k].recs) : files'[k].recs[i].tag \in T
               /\ files'[k].header # NoHeader => files'[k].header.text.last_tag \in T \cup {NoTag}
    <3>1. /\ \A i \in 1..Len(files[k].recs) : files[k].recs[i].tag \in T
          /\ files[k].header # NoHeader => files[k].header.text.last_tag \in T \cup {NoTag}
      BY <1>1, TagsHeld
    <3>2. files'[k].header = files[k].header BY <1>2, <1>8
    <3>3. CASE files'[k].recs = files[k].recs BY <3>1, <3>2, <3>3
    <3>4. CASE files'[k].recs # files[k].recs
      <4>1. files[k].recs = rs /\ files'[k].recs = Append(rs, r) BY <1>2, <1>8, <3>4 DEF rs
      <4>2. ASSUME NEW i \in 1..Len(Append(rs, r)) PROVE Append(rs, r)[i].tag \in T
        <5>1. i \in 1..Len(rs) \/ i = Len(rs) + 1 BY <1>3, <1>4
        <5>2. CASE i \in 1..Len(rs) BY <1>3, <1>4, <3>1, <4>1, <5>2
        <5>3. CASE i = Len(rs) + 1 BY <1>3, <1>4, <5>3
        <5> QED BY <5>1, <5>2, <5>3
      <4> QED BY <3>1, <3>2, <4>1, <4>2
    <3> QED BY <3>3, <3>4
  <2>2. \A q \in Writers, u \in Paths : BaseTag(ctx'[q][u], buf'[q][u]) \in T \cup {NoTag}
    BY <1>13
  <2>3. SettledTags' \subseteq T
    <3> HIDE DEF T
    <3> QED BY <2>1, <2>2, SettledBy
  <2>4. DrawnTags \subseteq DrawnTags' BY <1>1, DrawnStays
  <2>5. SettledTags' \subseteq SettledTags \cup (PendingTags \ PendingTags')
    BY <1>7, <1>14, <2>3
  <2> QED BY <1>6, <1>14, <2>4, <2>5, TagsKept
<1>16. ASSUME NEW k \in Logs PROVE LinksHold(files'[k].recs)
  <2>1. LinksHold(files[k].recs) BY DEF Chained
  <2>2. CASE k = l BY <1>2, <1>5, <1>12, <2>2
  <2>3. CASE k # l BY <1>8, <2>1, <2>3
  <2> QED BY <2>2, <2>3
<1> QED BY <1>13, <1>14, <1>15, <1>16 DEF Chained

------------------------------------------------------------------------------
(* Answers *)

LEMMA AnswersKept ==
  ASSUME TInv, Chained, AnswersAreHistories, NEW p \in Readers, ReadLog(p)
  PROVE  AnswersAreHistories'
<1>1. CASE answer' = answer BY <1>1 DEF AnswersAreHistories
<1>2. CASE answer' # answer
  <2> DEFINE f == files[Log(p)]
             h == header[p]
             es == Entries(SubSeq(f.recs, 1, h.text.total_entries))
             fs == Entries(f.recs)
  <2>1. /\ Log(p) \in Logs /\ h \in Header /\ Reads(h, f) /\ answer' = [answer EXCEPT ![p] = es]
    BY <1>2, ReadDoes
  <2>2. TypeOK /\ f \in File BY <2>1 DEF TInv, TypeOK
  <2>3. /\ es \in Seq(Entry) /\ Len(es) = h.text.total_entries /\ Len(es) \in 0..Len(f.recs)
        /\ \A i \in 1..Len(es) : es[i] = f.recs[i].body.text
    BY <2>1, <2>2, ReadPrefix
  <2>4. f.recs \in Seq(Rec) BY <2>2 DEF File
  <2>5. \A i \in 1..Len(f.recs) : fs[i] = f.recs[i].body.text BY <2>4, EntriesOfRecs
  <2>6. LinksHold(f.recs) BY <2>1 DEF Chained
  <2>7. ASSUME NEW i \in 1..Len(es)
        PROVE  /\ f.recs[i].seq = i /\ Linked(f.recs, i)
               /\ i > 1 => f.recs[i].body.text.timestamp > f.recs[i-1].body.text.timestamp
    BY <2>1, <2>3 DEF Reads, Linked
  <2> HIDE DEF es, fs, f, h
  <2>8. ASSUME NEW i \in 1..Len(es) PROVE Follows(es, i-1, es[i])
    <3>1. /\ i \in 1..Len(f.recs) /\ i - 1 \in Nat /\ \A j \in 1..i : j \in 1..Len(es)
          /\ \A k \in 1..(i-1) : k \in 1..Len(es) /\ k \in 1..Len(f.recs)
          /\ i - 1 > 0 => i > 1 /\ i - 1 \in 1..Len(es)
      BY <2>3, <2>4
    <3>2. Legal(fs, i) BY <2>6, <2>7, <3>1 DEF LinksHold, fs
    <3>3. fs[i] = es[i] /\ \A k \in 1..(i-1) : fs[k] = es[k] BY <2>3, <2>5, <3>1
    <3>4. PlacedAt(es, i-1, es[i].who, From(es[i])) BY <3>1, <3>2, <3>3, SamePrefix DEF Legal
    <3>5. i - 1 > 0 => es[i].timestamp > es[i-1].timestamp BY <2>3, <2>7, <3>1
    <3> QED BY <3>4, <3>5 DEF Follows
  <2>9. ValidLog(es) BY <2>8 DEF ValidLog
  <2>10. \A q \in Readers : answer'[q] = answer[q] \/ answer'[q] = es BY <2>1, <2>2 DEF TypeOK
  <2> QED BY <2>9, <2>10 DEF AnswersAreHistories
<1> QED BY <1>1, <1>2

------------------------------------------------------------------------------
(* The invariant and the theorem *)

LEMMA InitIInv == Init => IInv
<1> SUFFICES ASSUME Init PROVE IInv OBVIOUS
<1>1. TInv BY InitTInv
<1>2. /\ \A l \in Logs : files[l] = NoFile
      /\ \A p \in Writers, t \in Paths : ctx[p][t] = NewContext /\ buf[p][t] = << >>
      /\ \A p \in Readers : answer[p] = NoAnswer
  BY DEF Init
<1>3. /\ NoFile.recs = << >> /\ NoFile.header = NoHeader /\ NewContext \in Context
      /\ NewContext.last_tag = NoTag /\ ~NewContext.state_loaded
  BY NewFileType, NewContextType
<1>4. \A p \in Writers, t \in Paths : /\ Buffered(ctx[p][t], buf[p][t])
                                      /\ Knows(ctx[p][t], buf[p][t], files[FileOf[t]].recs)
                                      /\ BaseTag(ctx[p][t], buf[p][t]) = NoTag
  BY <1>2, <1>3, KnowsNothingYet DEF BaseTag
<1>5. SettledTags = {} /\ PendingTags = {}
  <2>1. NoTag \notin Tag BY CNullsAssumption DEF Tag
  <2>2. PendingTags = {} BY <1>2 DEF PendingTags
  <2>3. SettledTags = {} BY <1>2, <1>3, <1>4, <2>1 DEF SettledTags
  <2> QED BY <2>2, <2>3
<1>6. GoesOutOnce BY <1>5 DEF GoesOutOnce
<1>7. Distinct BY <1>2 DEF Distinct
<1>8. \A l \in Logs : LinksHold(files[l].recs) BY <1>2, <1>3 DEF LinksHold
<1>9. AnswersAreHistories BY <1>2 DEF AnswersAreHistories
<1> QED BY <1>1, <1>4, <1>6, <1>7, <1>8, <1>9 DEF IInv, Chained

LEMMA NextIInv == IInv /\ Next => IInv'
<1> SUFFICES ASSUME IInv, Next PROVE IInv' OBVIOUS
<1>1. TInv /\ Chained /\ AnswersAreHistories BY DEF IInv
<1>2. TInv' BY <1>1, NextTInv
<1>3. ASSUME NEW p \in Writers, Write(p) PROVE Chained' /\ answer' = answer
  <2>1. Chained'
    <3>1. CASE \E t \in Paths : Flush(p, t) \/ FlushFails(p, t) BY <1>1, <1>3, <3>1, FlushKeeps
    <3>2. CASE \E t \in Paths : UpdateHeader(p, t) \/ UpdateHeaderFails(p, t)
      BY <1>1, <1>3, <3>2, UpdateHeaderKeeps
    <3> QED BY <1>1, <1>3, <3>1, <3>2, WriteKinds, MovesOnKeeps, AuthenticateKeeps, OpenNewKeeps,
               WriteNewKeeps, LoadKeeps, AppendLogKeeps, CrashKeeps
  <2>2. answer' = answer
    BY <1>3 DEF Write, Start, BadLine, NestedBatch, NextLine, Authenticate, OpenNew, OpenFails,
                WriteNew, WriteNewFails, Load, Reject, AppendLog, AppendDies, EndOfFile, Exit,
                Crash, Flush, FlushFails, UpdateHeader, UpdateHeaderFails, Refuse, Abort
  <2> QED BY <2>1, <2>2
<1>4. CASE \E p \in Writers : Write(p)
  <2>1. Chained' /\ answer' = answer BY <1>3, <1>4
  <2>2. AnswersAreHistories' BY <1>1, <2>1 DEF AnswersAreHistories
  <2> QED BY <1>2, <2>1, <2>2 DEF IInv
<1>5. CASE \E p \in Readers : ReadLog(p)
  <2>1. Chained' /\ AnswersAreHistories' BY <1>1, <1>5, ReadLogKeeps, AnswersKept
  <2> QED BY <1>2, <2>1 DEF IInv
<1> QED BY <1>4, <1>5 DEF Next

LEMMA StutterIInv == IInv /\ UNCHANGED vars => IInv'
<1> SUFFICES ASSUME IInv, UNCHANGED vars PROVE IInv' OBVIOUS
<1>1. TInv' BY StutterTInv DEF IInv
<1>2. Chained'
  BY DEF IInv, vars, Chained, GoesOutOnce, SettledTags, PendingTags, DrawnTags, Distinct
<1>3. AnswersAreHistories' BY DEF IInv, vars, AnswersAreHistories
<1> QED BY <1>1, <1>2, <1>3 DEF IInv

LEMMA Invariance == Spec => []IInv
<1>1. IInv /\ [Next]_vars => IInv' BY NextIInv, StutterIInv
<1> QED BY InitIInv, <1>1, PTL DEF Spec

(* Whatever overlaps, is killed or fails, and whatever names a log goes by, an  *)
(* answer of logread is computed from a history of the gallery (logread.c).     *)
THEOREM CAnswersAreHistories == Spec => []AnswersAreHistories
<1>1. IInv => AnswersAreHistories BY DEF IInv
<1> QED BY Invariance, <1>1, PTL

------------------------------------------------------------------------------
(* When nothing disturbs it: writers run one at a time, none is killed, fails  *)
(* or exits from a batch, and a log goes by one path. Entries and header are    *)
(* then in step, however long a batch holds either back.                        *)

\* A log goes by one name.
NamesAreUnique == \A t, u \in Paths : FileOf[t] = FileOf[u] => t = u

------------------------------------------------------------------------------
(* The inductive invariant *)

LastTag(rs) == IF rs = << >> THEN NoTag ELSE rs[Len(rs)].tag

\* The file has a header, sealed under a key made with its salt.
Founded(f) == f.exists /\ f.header # NoHeader /\ f.header.key.salt = f.salt

\* The records of f are the first of es, in one chain under the key of the header,
\* which counts no more than there are.
InOrder(f, es) ==
  /\ f.tail = "clean"
  /\ Len(f.recs) <= Len(es)
  /\ \A i \in 1..Len(f.recs) :
       /\ f.recs[i].body = crypt(f.header.key, es[i])
       /\ f.recs[i].seq = i
       /\ f.recs[i].prev_tag = IF i = 1 THEN NoTag ELSE f.recs[i-1].tag
  /\ f.header.text.total_entries <= Len(f.recs)

\* The header counts the records of f, which are all of es.
Counted(f, es) ==
  /\ Len(f.recs) = Len(es)
  /\ f.header.text.total_entries = Len(es)
  /\ f.header.text.last_tag = LastTag(f.recs)
  /\ es # << >> => f.header.text.last_timestamp = es[Len(es)].timestamp

Ordered(es) == \A i \in 2..Len(es) : es[i].timestamp > es[i-1].timestamp

\* A writer holds entries of the log that its header does not count.
Dirty(l) == \E p \in Writers, t \in Paths :
              Active(p) /\ FileOf[t] = l /\ ctx[p][t].header_dirty

\* A log has not been made, or is just being made, or has a header and, unless
\* somebody holds entries back, is complete.
Sound(l) ==
  \/ files[l] = NoFile /\ accepted[l] = << >>
  \/ /\ files[l] = EmptyFile /\ accepted[l] = << >>
     /\ \E p \in Writers : pc[p] = "create" /\ Log(p) = l
  \/ /\ Founded(files[l]) /\ InOrder(files[l], accepted[l])
     /\ Dirty(l) \/ Counted(files[l], accepted[l])

\* Context c and buffer b go on from the records of f to the end of es.
GoesOn(c, b, f, es) ==
  /\ Founded(f) /\ c.key = f.header.key
  /\ c.total_entries = Len(es)
  /\ Len(f.recs) + Len(b) = Len(es)
  /\ \A i \in 1..Len(b) : b[i].body = crypt(c.key, es[Len(f.recs) + i])
  /\ BaseTag(c, b) = LastTag(f.recs)
  /\ es # << >> => c.last_timestamp = es[Len(es)].timestamp
  /\ ~c.header_dirty => b = << >>

\* How far the writer has got, and what it has not touched yet.
AtTurn(p) ==
  /\ pc[p] # "exiting"
  /\ pc[p] = "idle" => \A t \in Paths : ctx[p][t] = NewContext
  /\ ~Active(p) => \A t \in Paths : buf[p][t] = << >>
  /\ p \in Singles /\ pc[p] \in AtLine \cup {"next"} =>
       \A t \in Paths : ~ctx[p][t].header_dirty
  /\ pc[p] = "open"   => files[Log(p)] = NoFile
  /\ pc[p] = "create" => files[Log(p)] = EmptyFile

\* A reader that has read a header finds what it counts.
WillRead(p) ==
  pc[p] = "entries" => LET f == files[Log(p)] IN
    /\ Founded(f) /\ header[p].key = f.header.key
    /\ header[p].text.total_entries <= Len(f.recs)

InStep ==
  /\ \A p, q \in Writers : Active(p) /\ Active(q) => p = q
  /\ \A p \in Writers : AtTurn(p)
  /\ \A p \in Writers, t \in Paths : Active(p) /\ ctx[p][t].authenticated =>
       GoesOn(ctx[p][t], buf[p][t], files[FileOf[t]], accepted[FileOf[t]])
  /\ \A l \in Logs : Sound(l) /\ Ordered(accepted[l])
  /\ \A p \in Readers : WillRead(p)

Quiet == disturbed = {} => InStep

------------------------------------------------------------------------------
(* What a step does to those that do not take it *)

\* What IInv says of types.
LEMMA QuietTypes ==
  ASSUME IInv
  PROVE  /\ TypeOK /\ TInv /\ Chained
         /\ \A l \in Logs : /\ files[l] \in File /\ accepted[l] \in Seq(Entry)
                            /\ files[l].recs \in Seq(Rec) /\ Len(files[l].recs) \in Nat
                            /\ Len(accepted[l]) \in Nat
         /\ \A p \in Writers, t \in Paths :
              /\ ctx[p][t] \in Context /\ buf[p][t] \in Seq(Rec) /\ Staged(ctx[p][t])
              /\ Buffered(ctx[p][t], buf[p][t])
         /\ \A t \in Paths : FileOf[t] \in Logs
<1>1. TypeOK /\ TInv /\ Chained BY DEF IInv, TInv
<1>2. files \in [Logs -> File] /\ accepted \in [Logs -> Seq(Entry)]
      /\ ctx \in [Writers -> [Paths -> Context]] /\ buf \in [Writers -> [Paths -> Seq(Rec)]]
  BY <1>1 DEF TypeOK
<1>3. ASSUME NEW l \in Logs
      PROVE  /\ files[l] \in File /\ accepted[l] \in Seq(Entry)
             /\ files[l].recs \in Seq(Rec) /\ Len(files[l].recs) \in Nat
             /\ Len(accepted[l]) \in Nat
  <2>1. files[l] \in File /\ accepted[l] \in Seq(Entry) BY <1>2
  <2>2. files[l].recs \in Seq(Rec) BY <2>1 DEF File
  <2> QED BY <2>1, <2>2
<1>4. \A t \in Paths : FileOf[t] \in Logs BY CPathsAssumption
<1>5. \A p \in Writers, t \in Paths :
        /\ ctx[p][t] \in Context /\ buf[p][t] \in Seq(Rec) /\ Staged(ctx[p][t])
        /\ Buffered(ctx[p][t], buf[p][t])
  BY <1>1, <1>2 DEF TInv, Chained
<1> QED BY <1>1, <1>3, <1>4, <1>5

\* A file before and after it is made, and once it has a header.
LEMMA FileKinds ==
  /\ NoFile # EmptyFile /\ ~Founded(NoFile) /\ ~Founded(EmptyFile)
  /\ ~NoFile.exists /\ EmptyFile.exists
  /\ NoFile.header = NoHeader /\ EmptyFile.header = NoHeader
BY DEF NoFile, EmptyFile, Founded

\* The step of a writer in a quiet run: nothing goes wrong, and nobody else is at work.
LEMMA ByItself ==
  ASSUME IInv, InStep, disturbed = {}, NEW p \in Writers, Write(p), disturbed' = {}
  PROVE  /\ ~NestedBatch(p) /\ ~WriteNewFails(p) /\ ~Crash(p)
         /\ \A t \in Paths : ~FlushFails(p, t) /\ ~UpdateHeaderFails(p, t)
         /\ Active(p) \/ Start(p)
         /\ \A q \in Writers \ {p} : ~Active(q) /\ ~Active(q)' /\ Untouched(q)
<1>1. ~NestedBatch(p) /\ ~WriteNewFails(p) /\ ~Crash(p)
      /\ \A t \in Paths : ~FlushFails(p, t) /\ ~UpdateHeaderFails(p, t)
  BY DEF NestedBatch, Abort, WriteNewFails, Crash, FlushFails, UpdateHeaderFails
<1>2. Active(p) \/ Start(p)
  <2>1. ASSUME NEW t \in Paths, Flush(p, t) PROVE Active(p) BY <2>1 DEF InStep, AtTurn, Flush
  <2> QED BY <1>1, <2>1 DEF Write, Active, BadLine, NextLine, CanTake, Authenticate, OpenNew, OpenFails,
              WriteNew, Load, Reject, AppendLog, AppendDies, EndOfFile, Exit, UpdateHeader
<1>3. ASSUME NEW q \in Writers \ {p} PROVE ~Active(q) /\ ~Active(q)' /\ Untouched(q)
  <2>1. ~Active(q)
    <3>1. CASE Active(p) BY <3>1 DEF InStep
    <3>2. CASE Start(p) BY <3>2 DEF Start
    <3> QED BY <1>2, <3>1, <3>2
  <2>2. Untouched(q) BY OthersUntouched, QuietTypes DEF StepOf, Procs
  <2> QED BY <2>1, <2>2 DEF Untouched, Active
<1> QED BY <1>1, <1>2, <1>3

\* Whose dirty contexts there are.
LEMMA DirtyIsHis ==
  ASSUME IInv, InStep, disturbed = {}, NEW p \in Writers, Write(p), disturbed' = {},
         NEW l \in Logs
  PROVE  /\ Dirty(l) <=> Active(p) /\ \E t \in Paths : FileOf[t] = l /\ ctx[p][t].header_dirty
         /\ Dirty(l)' <=> Active(p)' /\ \E t \in Paths : FileOf[t] = l /\ ctx'[p][t].header_dirty
<1>1. \A q \in Writers : q # p => ~Active(q) /\ ~Active(q)' BY ByItself
<1> QED BY <1>1 DEF Dirty

\* The invariant, from what becomes of the writer that takes the step, and of the logs.
LEMMA Assembled ==
  ASSUME IInv, InStep, disturbed = {}, NEW p \in Writers, Write(p), disturbed' = {},
         AtTurn(p)',
         \A t \in Paths : Active(p)' /\ ctx'[p][t].authenticated =>
           GoesOn(ctx'[p][t], buf'[p][t], files'[FileOf[t]], accepted'[FileOf[t]]),
         \A l \in Logs : Sound(l)' /\ Ordered(accepted'[l]),
         \A l \in Logs : Founded(files[l]) =>
           /\ Founded(files'[l]) /\ files'[l].header.key = files[l].header.key
           /\ files'[l].recs \in Seq(Rec) /\ Len(files'[l].recs) >= Len(files[l].recs)
  PROVE  InStep'
<1>1. \A q \in Writers \ {p} : ~Active(q) /\ ~Active(q)' /\ Untouched(q) BY ByItself
<1>2. \A q, r \in Writers : Active(q)' /\ Active(r)' => q = r BY <1>1
<1>3. ASSUME NEW q \in Writers PROVE AtTurn(q)'
  <2>1. CASE q = p BY <2>1
  <2>2. CASE q # p
    <3>1. pc[q] \in {"idle", "done"} /\ pc'[q] = pc[q] BY <1>1, <2>2 DEF Active, Untouched
    <3>2. \A t \in Paths : ctx'[q][t] = ctx[q][t] /\ buf'[q][t] = buf[q][t]
      BY <1>1, <2>2 DEF Untouched
    <3>3. AtTurn(q) /\ ~Active(q) BY <1>1, <2>2 DEF InStep
    <3> QED BY <3>1, <3>2, <3>3 DEF AtTurn, AtLine
  <2> QED BY <2>1, <2>2
<1>4. ASSUME NEW q \in Writers, NEW t \in Paths, Active(q)', ctx'[q][t].authenticated
      PROVE  GoesOn(ctx'[q][t], buf'[q][t], files'[FileOf[t]], accepted'[FileOf[t]])
  <2>1. q = p BY <1>1, <1>4
  <2> QED BY <1>4, <2>1
<1>5. ASSUME NEW r \in Readers PROVE WillRead(r)'
  <2>1. r # p /\ r \in Procs /\ p \in Procs BY CProcsAssumption DEF Procs
  <2>2. Untouched(r) BY <2>1, OthersUntouched, QuietTypes DEF StepOf
  <2>3. pc'[r] = pc[r] /\ Log(r)' = Log(r) /\ header'[r] = header[r]
    BY <2>2 DEF Untouched, Log, Path
  <2>4. ASSUME pc[r] = "entries"
        PROVE  LET f == files'[Log(r)] IN
               /\ Founded(f) /\ header[r].key = f.header.key
               /\ header[r].text.total_entries <= Len(f.recs)
    <3>1. cmd[r] \in Queries /\ header[r] \in Header BY <2>1, <2>4, QuietTypes DEF TInv, Working
    <3>2. Log(r) \in Logs BY <3>1, CommandType DEF Log, Path
    <3>3. /\ Founded(files[Log(r)]) /\ header[r].key = files[Log(r)].header.key
          /\ header[r].text.total_entries <= Len(files[Log(r)].recs)
      BY <2>4 DEF InStep, WillRead
    <3>4. /\ header[r].text.total_entries \in Nat /\ Len(files[Log(r)].recs) \in Nat
          /\ Len(files'[Log(r)].recs) \in Nat
      BY <3>1, <3>2, <3>3, HeaderType, QuietTypes
    <3> QED BY <3>2, <3>3, <3>4
  <2> QED BY <2>3, <2>4 DEF WillRead
<1> QED BY <1>2, <1>3, <1>4, <1>5 DEF InStep

\* A step that touches one path, and the one log it names, leaves the others in step.
LEMMA OnePath ==
  ASSUME NamesAreUnique, IInv, InStep, disturbed = {},
         NEW p \in Writers, Write(p), disturbed' = {}, Active(p), Active(p)', NEW t \in Paths,
         \A u \in Paths : u # t => ctx'[p][u] = ctx[p][u] /\ buf'[p][u] = buf[p][u],
         \A l \in Logs : l # FileOf[t] => files'[l] = files[l] /\ accepted'[l] = accepted[l],
         pc[p] = "create" => Log(p) = FileOf[t] \/ (pc'[p] = "create" /\ Log(p)' = Log(p)),
         AtTurn(p)',
         ctx'[p][t].authenticated =>
           GoesOn(ctx'[p][t], buf'[p][t], files'[FileOf[t]], accepted'[FileOf[t]]),
         Sound(FileOf[t])', Ordered(accepted'[FileOf[t]]),
         Founded(files[FileOf[t]]) =>
           /\ Founded(files'[FileOf[t]])
           /\ files'[FileOf[t]].header.key = files[FileOf[t]].header.key
           /\ files'[FileOf[t]].recs \in Seq(Rec)
           /\ Len(files'[FileOf[t]].recs) >= Len(files[FileOf[t]].recs)
  PROVE  InStep'
<1>1. \A u \in Paths : FileOf[u] \in Logs /\ (u # t => FileOf[u] # FileOf[t])
  BY QuietTypes DEF NamesAreUnique
<1>2. ASSUME NEW u \in Paths, ctx'[p][u].authenticated
      PROVE  GoesOn(ctx'[p][u], buf'[p][u], files'[FileOf[u]], accepted'[FileOf[u]])
  <2>1. CASE u = t BY <1>2, <2>1
  <2>2. CASE u # t
    <3>1. /\ ctx'[p][u] = ctx[p][u] /\ buf'[p][u] = buf[p][u]
          /\ files'[FileOf[u]] = files[FileOf[u]] /\ accepted'[FileOf[u]] = accepted[FileOf[u]]
      BY <1>1, <2>2
    <3>2. GoesOn(ctx[p][u], buf[p][u], files[FileOf[u]], accepted[FileOf[u]])
      BY <1>2, <3>1 DEF InStep
    <3> QED BY <3>1, <3>2
  <2> QED BY <2>1, <2>2
<1>3. ASSUME NEW l \in Logs PROVE Sound(l)' /\ Ordered(accepted'[l])
  <2>1. CASE l = FileOf[t] BY <2>1
  <2>2. CASE l # FileOf[t]
    <3>1. files'[l] = files[l] /\ accepted'[l] = accepted[l] BY <2>2
    <3>2. Sound(l) /\ Ordered(accepted[l]) BY DEF InStep
    <3>3. Dirty(l) => Dirty(l)'
      <4>1. ASSUME NEW u \in Paths, FileOf[u] = l, ctx[p][u].header_dirty
            PROVE  ctx'[p][u].header_dirty
        BY <2>2, <4>1
      <4> QED BY <4>1, DirtyIsHis
    <3>4. ASSUME NEW q \in Writers, pc[q] = "create", Log(q) = l
          PROVE  pc'[q] = "create" /\ Log(q)' = l
      <4>1. Active(q) BY <3>4 DEF Active
      <4>2. q = p BY <4>1, ByItself
      <4> QED BY <2>2, <3>4, <4>2
    <3>5. CASE files[l] = NoFile /\ accepted[l] = << >> BY <3>1, <3>2, <3>5 DEF Sound
    <3>6. CASE /\ files[l] = EmptyFile /\ accepted[l] = << >>
               /\ \E q \in Writers : pc[q] = "create" /\ Log(q) = l
      <4>1. \E q \in Writers : pc'[q] = "create" /\ Log(q)' = l BY <3>4, <3>6
      <4>2. files'[l] = EmptyFile /\ accepted'[l] = << >> BY <3>1, <3>6
      <4> QED BY <3>1, <3>2, <4>1, <4>2 DEF Sound
    <3>7. CASE /\ Founded(files[l]) /\ InOrder(files[l], accepted[l])
               /\ Dirty(l) \/ Counted(files[l], accepted[l])
      <4>1. /\ Founded(files'[l]) /\ InOrder(files'[l], accepted'[l])
            /\ Dirty(l)' \/ Counted(files'[l], accepted'[l])
        BY <3>1, <3>3, <3>7
      <4> QED BY <3>1, <3>2, <4>1 DEF Sound
    <3> QED BY <3>1, <3>2, <3>5, <3>6, <3>7 DEF Sound
  <2> QED BY <2>1, <2>2
<1>4. ASSUME NEW l \in Logs, Founded(files[l])
      PROVE  /\ Founded(files'[l]) /\ files'[l].header.key = files[l].header.key
             /\ files'[l].recs \in Seq(Rec) /\ Len(files'[l].recs) >= Len(files[l].recs)
  <2>1. CASE l = FileOf[t] BY <1>4, <2>1
  <2>2. CASE l # FileOf[t]
    <3>1. files'[l] = files[l] BY <2>2
    <3>2. files[l].recs \in Seq(Rec) /\ Len(files[l].recs) \in Nat BY QuietTypes
    <3> QED BY <1>4, <3>1, <3>2
  <2> QED BY <2>1, <2>2
<1> QED BY <1>2, <1>3, <1>4, Assembled

\* A single process holds nothing back before it has appended.
LEMMA NothingHeld ==
  ASSUME IInv, InStep, disturbed = {}, NEW p \in Singles, pc[p] \in AtLine \cup {"next"},
         NEW t \in Paths
  PROVE  ~ctx[p][t].header_dirty /\ buf[p][t] = << >>
<1>1. p \in Writers /\ Active(p) BY DEF Writers, Active, AtLine
<1>2. ~ctx[p][t].header_dirty BY <1>1 DEF InStep, AtTurn
<1>3. CASE ctx[p][t].authenticated BY <1>1, <1>2, <1>3 DEF InStep, GoesOn
<1>4. CASE ~ctx[p][t].authenticated
  <2>1. ~ctx[p][t].state_loaded BY <1>1, <1>4, QuietTypes DEF Staged
  <2> QED BY <1>1, <1>2, <2>1, QuietTypes, NotLoaded
<1> QED BY <1>2, <1>3, <1>4

\* A step that only moves the writer on leaves all in step.
LEMMA Unmoved ==
  ASSUME IInv, InStep, disturbed = {}, NEW p \in Writers, Write(p), disturbed' = {},
         UNCHANGED <<files, ctx, buf, accepted>>,
         pc[p] # "create", pc'[p] \notin {"create", "exiting", "idle"},
         pc'[p] = "done" => \A t \in Paths : buf[p][t] = << >> /\ ~ctx[p][t].header_dirty,
         pc'[p] = "open" => files[Log(p)] = NoFile /\ Log(p)' = Log(p),
         p \in Singles /\ pc'[p] \in AtLine \cup {"next"} =>
           \A t \in Paths : ~ctx[p][t].header_dirty
  PROVE  InStep'
<1>1. Active(p) \/ (Start(p) /\ pc[p] = "idle") BY ByItself DEF Start
<1>2. ASSUME NEW t \in Paths, ctx[p][t].authenticated PROVE Active(p)
  <2>1. CASE pc[p] = "idle"
    <3>1. ctx[p][t] = NewContext BY <2>1 DEF InStep, AtTurn
    <3> QED BY <1>2, <3>1 DEF NewContext
  <2> QED BY <1>1, <2>1
<1>3. AtTurn(p)'
  <2>1. ~Active(p)' => pc'[p] = "done" BY DEF Active
  <2>2. \A t \in Paths : buf'[p][t] = buf[p][t] /\ ctx'[p][t] = ctx[p][t] OBVIOUS
  <2> QED BY <2>1, <2>2 DEF AtTurn
<1>4. ASSUME NEW t \in Paths, ctx'[p][t].authenticated
      PROVE  GoesOn(ctx'[p][t], buf'[p][t], files'[FileOf[t]], accepted'[FileOf[t]])
  <2>1. Active(p) BY <1>2, <1>4
  <2> QED BY <1>4, <2>1 DEF InStep
<1>5. ASSUME NEW l \in Logs PROVE Sound(l)' /\ Ordered(accepted'[l])
  <2>1. Sound(l) /\ Ordered(accepted[l]) BY DEF InStep
  <2>2. Dirty(l) => Dirty(l)'
    <3>1. ASSUME NEW t \in Paths, ctx[p][t].header_dirty PROVE Active(p)'
      <4>1. pc'[p] # "done" BY <3>1
      <4> QED BY <4>1 DEF Active
    <3> QED BY <3>1, DirtyIsHis
  <2>3. \A q \in Writers : pc[q] # "create"
    <3>1. \A q \in Writers : q # p => ~Active(q) BY ByItself
    <3> QED BY <3>1 DEF Active
  <2> QED BY <2>1, <2>2, <2>3 DEF Sound
<1>6. \A l \in Logs : files[l].recs \in Seq(Rec) /\ Len(files[l].recs) \in Nat BY QuietTypes
<1> QED BY <1>3, <1>4, <1>5, <1>6, Assembled

\* Start, a line taken or refused, the end of the file or of the program.
LEMMA MovesOnInStep ==
  ASSUME IInv, InStep, disturbed = {}, NEW p \in Writers, Write(p), disturbed' = {}, MovesOn(p)
  PROVE  InStep'
<1>1. TypeOK /\ p \in Procs BY QuietTypes DEF Procs
<1>2. UNCHANGED <<files, ctx, buf, accepted>> BY QuietTypes, MovesOnDoes
<1>3. ~NestedBatch(p) /\ ~WriteNewFails(p) BY ByItself
<1>4. p \in Batches => p \notin Singles BY CProcsAssumption
<1>5. CASE Start(p)
  <2>1. pc[p] = "idle" /\ pc'[p] = "next" BY <1>1, <1>5, PcSet DEF Start
  <2>2. \A t \in Paths : ctx[p][t] = NewContext BY <2>1 DEF InStep, AtTurn
  <2>3. ~NewContext.header_dirty BY DEF NewContext
  <2> QED BY <1>2, <2>1, <2>2, <2>3, Unmoved
<1>6. CASE NextLine(p)
  <2>1. pc[p] = "next" /\ pc'[p] = "authenticate" BY <1>1, <1>6, PcSet DEF NextLine, CanTake
  <2>2. p \in Singles => \A t \in Paths : ~ctx[p][t].header_dirty BY <2>1, NothingHeld
  <2> QED BY <1>2, <2>1, <2>2, Unmoved
<1>7. CASE BadLine(p) \/ OpenFails(p) \/ Reject(p) \/ AppendDies(p)
  <2>1. pc[p] \in AtLine \cup {"next"} /\ pc[p] # "create"
    BY <1>7 DEF BadLine, CanTake, OpenFails, Reject, AppendDies, AtLine
  <2>2. pc'[p] = NextOrDone(p)
    BY <1>1, <1>7, PcSet DEF BadLine, OpenFails, Reject, AppendDies, Refuse
  <2>3. p \in Singles => \A t \in Paths : buf[p][t] = << >> /\ ~ctx[p][t].header_dirty
    BY <2>1, NothingHeld
  <2>4. (pc'[p] = "next" /\ p \in Batches) \/ (pc'[p] = "done" /\ p \in Singles)
    BY <2>2 DEF NextOrDone, Writers
  <2> QED BY <1>2, <1>4, <2>1, <2>3, <2>4, Unmoved
<1>8. CASE EndOfFile(p)
  <2>1. pc[p] = "next" /\ pc'[p] = "closing" BY <1>1, <1>8, PcSet DEF EndOfFile
  <2>2. "closing" \notin AtLine \cup {"next"} BY DEF AtLine
  <2> QED BY <1>2, <2>1, <2>2, Unmoved
<1>9. CASE Exit(p)
  <2>1. pc[p] = "closing" /\ \A t \in Paths : buf[p][t] = << >> /\ ~ctx[p][t].header_dirty
    BY <1>9 DEF Exit, InStep, AtTurn
  <2>2. pc'[p] = "done" BY <1>1, <1>9, PcSet DEF Exit
  <2> QED BY <1>2, <2>1, <2>2, Unmoved
<1> QED BY <1>3, <1>5, <1>6, <1>7, <1>8, <1>9 DEF MovesOn

\* GoesOn looks at these fields of a context.
LEMMA SameContext ==
  ASSUME NEW c, NEW d, NEW b, NEW f, NEW es, GoesOn(c, b, f, es),
         d.key = c.key, d.total_entries = c.total_entries, d.last_tag = c.last_tag,
         d.last_timestamp = c.last_timestamp, d.header_dirty = c.header_dirty
  PROVE  GoesOn(d, b, f, es)
BY DEF GoesOn, BaseTag

\* load_state leaves what a context counts as it is.
LEMMA LoadInStep ==
  ASSUME NamesAreUnique, IInv, InStep, disturbed = {}, NEW p \in Writers, Write(p),
         disturbed' = {}, Load(p)
  PROVE  InStep'
<1>1. pc[p] = "load" /\ pc[p] \in AtLine /\ Active(p) BY DEF Load, AtLine, Active
<1> PICK t \in Paths : t = Path(p) BY <1>1, QuietTypes, OnLine
<1> DEFINE c == ctx[p][t]
           d == ctx'[p][t]
<1>2. /\ Log(p) = FileOf[t] /\ Log(p) \in Logs /\ p \in Procs /\ TypeOK
      /\ Ctx(p) = c /\ c \in Context /\ c.authenticated
  BY <1>1, QuietTypes, OnLine DEF TInv, OnStage, Log, Ctx
<1>3. UNCHANGED <<files, buf, accepted>> BY DEF Load
<1>4. p \in Singles => \A u \in Paths : ~ctx[p][u].header_dirty /\ buf[p][u] = << >>
  BY <1>1, NothingHeld
<1>5. CASE ctx' = ctx
  <2>1. pc'[p] = "process" \/ (pc'[p] = "done" /\ p \in Singles)
    BY <1>2, PcSet DEF Load, Writers
  <2> QED BY <1>1, <1>3, <1>4, <1>5, <2>1, Unmoved
<1>6. CASE ctx' # ctx
  <2>1. pc'[p] = "process" BY <1>2, <1>6, PcSet DEF Load
  <2>2. PICK loc \in [Person -> Place] : SetCtx(p, [c EXCEPT !.state_loaded = TRUE, !.loc = loc])
    <3>1. files[Log(p)].recs \in Seq(Rec) BY <1>2, QuietTypes
    <3>2. [w \in Person |-> LastPlace(Entries(files[Log(p)].recs), w)] \in [Person -> Place]
      BY <3>1, LoadedPlaces
    <3>3. c.loc \in [Person -> Place] BY <1>2, ContextFields
    <3>4. [c EXCEPT !.state_loaded = TRUE] = [c EXCEPT !.state_loaded = TRUE, !.loc = c.loc]
      BY <1>2 DEF Context
    <3> QED BY <1>2, <1>6, <3>2, <3>3, <3>4 DEF Load
  <2> DEFINE e == [c EXCEPT !.state_loaded = TRUE, !.loc = loc]
  <2>3. /\ e \in Context /\ e.key = c.key /\ e.total_entries = c.total_entries
        /\ e.last_tag = c.last_tag /\ e.last_timestamp = c.last_timestamp
        /\ e.header_dirty = c.header_dirty
    BY <1>2 DEF Context
  <2>4. ctx' = [ctx EXCEPT ![p][t] = e] BY <2>2 DEF SetCtx, Path
  <2> HIDE DEF e
  <2>5. d = e /\ \A u \in Paths : u # t => ctx'[p][u] = ctx[p][u]
    <3>1. TypeOK /\ e \in Context BY <1>2, <2>3
    <3>2. ctx'[p][t] = e BY <2>4, <3>1, CtxSet
    <3>3. \A u \in Paths : u # t => ctx'[p][u] = ctx[p][u] BY <2>4, <3>1, CtxSet
    <3> QED BY <3>2, <3>3
  <2>6. Active(p)' BY <2>1 DEF Active
  <2>7. \A u \in Paths : ctx'[p][u].header_dirty = ctx[p][u].header_dirty BY <2>3, <2>5
  <2>8. AtTurn(p)' BY <1>4, <2>1, <2>6, <2>7 DEF AtTurn
  <2>9. GoesOn(c, buf[p][t], files[FileOf[t]], accepted[FileOf[t]]) BY <1>1, <1>2 DEF InStep
  <2>10. GoesOn(d, buf'[p][t], files'[FileOf[t]], accepted'[FileOf[t]])
    BY <1>3, <2>3, <2>5, <2>9, SameContext
  <2>11. Sound(FileOf[t])' /\ Ordered(accepted'[FileOf[t]])
    <3>1. Sound(FileOf[t]) /\ Ordered(accepted[FileOf[t]]) BY <1>2 DEF InStep
    <3>2. Dirty(FileOf[t]) => Dirty(FileOf[t])' BY <1>2, <2>6, <2>7, DirtyIsHis
    <3>3. ~ \E q \in Writers : pc[q] = "create"
      <4>1. \A q \in Writers : q # p => ~Active(q) BY ByItself
      <4> QED BY <1>1, <4>1 DEF Active
    <3> QED BY <1>3, <3>1, <3>2, <3>3 DEF Sound
  <2>12. files'[FileOf[t]].recs \in Seq(Rec) /\ Len(files[FileOf[t]].recs) \in Nat
    BY <1>2, <1>3, QuietTypes
  <2> QED BY <1>1, <1>2, <1>3, <2>5, <2>6, <2>8, <2>10, <2>11, <2>12, OnePath
<1> QED BY <1>5, <1>6

\* A log that nobody is making, and of which nobody holds entries back.
LEMMA Settled ==
  ASSUME InStep, NEW l \in Logs, files[l] # NoFile, files[l] # EmptyFile, ~Dirty(l)
  PROVE  /\ Founded(files[l]) /\ InOrder(files[l], accepted[l])
         /\ Counted(files[l], accepted[l])
BY DEF InStep, Sound

\* authenticate_log takes over a header that counts all entries.
LEMMA AuthenticateInStep ==
  ASSUME NamesAreUnique, IInv, InStep, disturbed = {}, NEW p \in Writers, Write(p),
         disturbed' = {}, Authenticate(p)
  PROVE  InStep'
<1>1. pc[p] = "authenticate" /\ pc[p] \in AtLine /\ Active(p) BY DEF Authenticate, AtLine, Active
<1> PICK t \in Paths : t = Path(p) BY <1>1, QuietTypes, OnLine
<1> DEFINE c == ctx[p][t]
           f == files[FileOf[t]]
           es == accepted[FileOf[t]]
<1>2. /\ Log(p) = FileOf[t] /\ FileOf[t] \in Logs /\ p \in Procs /\ TypeOK /\ Log(p)' = Log(p)
      /\ Ctx(p) = c /\ c \in Context /\ Staged(c) /\ f \in File
  BY <1>1, QuietTypes, OnLine DEF Log, Ctx, Path, Authenticate
<1>3. UNCHANGED <<files, buf, accepted>> BY DEF Authenticate
<1>4. p \in Singles => \A u \in Paths : ~ctx[p][u].header_dirty /\ buf[p][u] = << >>
  BY <1>1, NothingHeld
<1>5. CASE ctx' = ctx
  <2>1. \/ pc'[p] \in {"load", "next"} \/ (pc'[p] = "open" /\ ~f.exists)
        \/ (pc'[p] = "done" /\ p \in Singles)
    BY <1>2, PcSet DEF Authenticate, NextOrDone, Writers
  <2>2. ~f.exists => f = NoFile BY <1>2, FileKinds DEF InStep, Sound, Founded
  <2> QED BY <1>1, <1>2, <1>3, <1>4, <1>5, <2>1, <2>2, Unmoved
<1>6. CASE ctx' # ctx
  <2> DEFINE h == f.header
             d == [c EXCEPT !.authenticated  = TRUE,
                            !.key            = h.key,
                            !.total_entries  = h.text.total_entries,
                            !.last_timestamp = h.text.last_timestamp,
                            !.last_tag       = h.text.last_tag]
  <2>1. /\ ~c.authenticated /\ GoTo(p, "load") /\ f.header # NoHeader
        /\ ctx' = [ctx EXCEPT ![p][t] = d]
    BY <1>2, <1>6 DEF Authenticate, SetCtx, Path, Opens
  <2>2. pc'[p] = "load" BY <1>2, <2>1, PcSet
  <2>3. h \in Header BY <1>2, <2>1 DEF File
  <2>4. ~c.header_dirty /\ ~c.state_loaded BY <1>2, <2>1 DEF Staged
  <2>5. buf[p][t] = << >> BY <1>2, <2>4, QuietTypes, NotLoaded
  <2>6. d \in Context /\ d.authenticated BY <1>2, <2>1, <2>3, AuthenticatedType
  <2>7. /\ d.key = h.key /\ d.total_entries = h.text.total_entries
        /\ d.last_timestamp = h.text.last_timestamp /\ d.last_tag = h.text.last_tag
        /\ ~d.header_dirty
    BY <1>2, <2>4 DEF Context
  <2> HIDE DEF d
  <2>8. ctx'[p][t] = d /\ \A u \in Paths : u # t => ctx'[p][u] = ctx[p][u]
    <3>1. TypeOK /\ d \in Context /\ ctx' = [ctx EXCEPT ![p][t] = d] BY <1>2, <2>1, <2>6
    <3>2. ctx'[p][t] = d BY <3>1, CtxSet
    <3>3. \A u \in Paths : u # t => ctx'[p][u] = ctx[p][u] BY <3>1, CtxSet
    <3> QED BY <3>2, <3>3
  <2>9. Active(p)' BY <2>2 DEF Active
  <2>10. ~Dirty(FileOf[t])
    <3>1. \A u \in Paths : FileOf[u] = FileOf[t] => u = t BY DEF NamesAreUnique
    <3> QED BY <1>2, <2>4, <3>1, DirtyIsHis
  <2>11. Founded(f) /\ InOrder(f, es) /\ Counted(f, es)
    BY <1>2, <2>1, <2>10, FileKinds, Settled
  <2>12. Sound(FileOf[t])' /\ Ordered(es')
    <3>1. Ordered(es) BY <1>2 DEF InStep
    <3> QED BY <1>3, <2>11, <3>1 DEF Sound
  <2>13. GoesOn(d, << >>, f, es)
    <3>1. Len(f.recs) \in Nat BY <1>2, QuietTypes
    <3>2. Len(<< >>) = 0 OBVIOUS
    <3> QED BY <2>7, <2>11, <3>1, <3>2 DEF GoesOn, Counted, BaseTag
  <2>14. AtTurn(p)'
    <3>1. p \in Singles => \A u \in Paths : ~ctx'[p][u].header_dirty BY <1>4, <2>7, <2>8
    <3> QED BY <2>2, <2>9, <3>1 DEF AtTurn
  <2>15. files'[FileOf[t]].recs \in Seq(Rec) /\ Len(files[FileOf[t]].recs) \in Nat
    BY <1>2, <1>3, QuietTypes
  <2>16. pc[p] # "create" BY <1>1
  <2>17. GoesOn(ctx'[p][t], buf'[p][t], files'[FileOf[t]], accepted'[FileOf[t]])
    BY <1>3, <2>5, <2>8, <2>13
  <2> HIDE DEF f, es
  <2> QED BY <1>1, <1>2, <1>3, <2>8, <2>9, <2>12, <2>14, <2>15, <2>16, <2>17, OnePath DEF es
<1> QED BY <1>5, <1>6

\* OpenNew makes a file where there was none.
LEMMA OpenInStep ==
  ASSUME NamesAreUnique, IInv, InStep, disturbed = {}, NEW p \in Writers, Write(p),
         disturbed' = {}, OpenNew(p)
  PROVE  InStep'
<1>1. pc[p] = "open" /\ pc[p] \in AtLine /\ Active(p) BY DEF OpenNew, AtLine, Active
<1> PICK t \in Paths : t = Path(p) BY <1>1, QuietTypes, OnLine
<1> DEFINE l == FileOf[t]
<1>2. /\ Log(p) = l /\ l \in Logs /\ p \in Procs /\ TypeOK /\ Log(p)' = Log(p)
      /\ ~ctx[p][t].authenticated
  BY <1>1, QuietTypes, OnLine DEF TInv, OnStage, Log, Ctx, Path, OpenNew
<1>3. UNCHANGED <<ctx, buf, accepted>> BY DEF OpenNew
<1>4. files[l] = NoFile BY <1>1, <1>2 DEF InStep, AtTurn
<1>5. accepted[l] = << >> /\ Ordered(accepted[l]) BY <1>2, <1>4, FileKinds DEF InStep, Sound
<1>6. files'[l] = EmptyFile /\ \A k \in Logs : k # l => files'[k] = files[k]
  BY <1>2 DEF OpenNew, TypeOK
<1>7. pc'[p] = "create" /\ Active(p)' BY <1>2, PcSet DEF OpenNew, Active
<1>8. Sound(l)' BY <1>2, <1>3, <1>5, <1>6, <1>7 DEF Sound
<1>9. AtTurn(p)'
  <2>1. p \in Singles => \A u \in Paths : ~ctx[p][u].header_dirty BY <1>1, NothingHeld
  <2> QED BY <1>2, <1>3, <1>6, <1>7, <2>1 DEF AtTurn
<1>10. ~Founded(files[l]) BY <1>4, FileKinds
<1>11. pc[p] # "create" /\ ~ctx'[p][t].authenticated BY <1>1, <1>2, <1>3
<1> HIDE DEF l
<1> QED BY <1>1, <1>2, <1>3, <1>5, <1>6, <1>7, <1>8, <1>9, <1>10, <1>11, OnePath DEF l

\* WriteNew gives the file a header that counts nothing, and the context its key.
LEMMA FoundInStep ==
  ASSUME NamesAreUnique, IInv, InStep, disturbed = {}, NEW p \in Writers, Write(p),
         disturbed' = {}, WriteNew(p)
  PROVE  InStep'
<1>1. pc[p] = "create" /\ pc[p] \in AtLine /\ Active(p) BY DEF WriteNew, AtLine, Active
<1> PICK t \in Paths : t = Path(p) BY <1>1, QuietTypes, OnLine
<1> DEFINE l == FileOf[t]
           h == crypt(NewKey(p), EmptyHeader)
           g == [EmptyFile EXCEPT !.salt = p, !.header = h]
           d == [NewContext EXCEPT !.authenticated = TRUE, !.key = NewKey(p)]
<1>2. /\ Log(p) = l /\ l \in Logs /\ p \in Procs /\ TypeOK /\ Log(p)' = Log(p)
      /\ cmd[p].token \in Tokens /\ ~ctx[p][t].authenticated /\ Staged(ctx[p][t])
  BY <1>1, QuietTypes, OnLine DEF TInv, OnStage, Log, Ctx, Path, WriteNew
<1>3. UNCHANGED <<buf, accepted>> BY DEF WriteNew
<1>4. files[l] = EmptyFile BY <1>1, <1>2 DEF InStep, AtTurn
<1>5. accepted[l] = << >> /\ Ordered(accepted[l]) BY <1>2, <1>4, FileKinds DEF InStep, Sound
<1>6. NewKey(p) \in Key /\ NewKey(p).salt = p BY <1>2 DEF NewKey, gen_key, Key
<1>7. /\ h \in Header /\ h # NoHeader /\ h.key = NewKey(p) /\ h.text.total_entries = 0
      /\ h.text.last_tag = NoTag
  BY <1>6, HeaderType, CHeaderAssumption DEF EmptyHeader, crypt
<1>8. /\ g.exists /\ g.salt = p /\ g.header = h /\ g.recs = << >> /\ g.tail = "clean"
  BY DEF EmptyFile
<1>9. files'[l] = g /\ \A k \in Logs : k # l => files'[k] = files[k]
  <2>1. files' = [files EXCEPT ![l].salt = p, ![l].header = h] BY <1>2 DEF WriteNew
  <2> QED BY <1>2, <1>4, <2>1 DEF TypeOK, EmptyFile
<1>10. d \in Context /\ d.authenticated /\ d.total_entries = 0 /\ d.last_tag = NoTag
       /\ d.key = NewKey(p) /\ ~d.header_dirty
  BY <1>6, FoundedContext DEF NewContext
<1>11. ctx' = [ctx EXCEPT ![p][t] = d] BY <1>2 DEF WriteNew, SetCtx, Path
<1> HIDE DEF l, h, g, d
<1>12. ctx'[p][t] = d /\ \A u \in Paths : u # t => ctx'[p][u] = ctx[p][u]
  <2>1. TypeOK /\ d \in Context BY <1>2, <1>10
  <2>2. ctx'[p][t] = d BY <1>11, <2>1, CtxSet
  <2>3. \A u \in Paths : u # t => ctx'[p][u] = ctx[p][u] BY <1>11, <2>1, CtxSet
  <2> QED BY <2>2, <2>3
<1>13. pc'[p] = "load" /\ Active(p)' BY <1>2, PcSet DEF WriteNew, Active
<1>14. buf[p][t] = << >>
  <2>1. ~ctx[p][t].state_loaded BY <1>2 DEF Staged
  <2> QED BY <2>1, QuietTypes, NotLoaded
<1>15. Founded(g) /\ InOrder(g, << >>) /\ Counted(g, << >>)
  <2>1. Len(<< >>) = 0 OBVIOUS
  <2>2. Founded(g) BY <1>6, <1>7, <1>8 DEF Founded
  <2>3. InOrder(g, << >>) BY <1>7, <1>8, <2>1 DEF InOrder
  <2>4. Counted(g, << >>) BY <1>7, <1>8, <2>1 DEF Counted, LastTag
  <2> QED BY <2>2, <2>3, <2>4
<1>16. GoesOn(d, << >>, g, << >>)
  <2>1. Len(<< >>) = 0 OBVIOUS
  <2> QED BY <1>7, <1>8, <1>10, <1>15, <2>1 DEF GoesOn, BaseTag, LastTag
<1>17. Sound(l)' BY <1>3, <1>5, <1>9, <1>15 DEF Sound
<1>18. AtTurn(p)'
  <2>1. p \in Singles => \A u \in Paths : ~ctx[p][u].header_dirty BY <1>1, NothingHeld
  <2>2. p \in Singles => \A u \in Paths : ~ctx'[p][u].header_dirty BY <1>10, <1>12, <2>1
  <2> QED BY <1>13, <2>2 DEF AtTurn
<1>19. ~Founded(files[l]) BY <1>4, FileKinds
<1>20. GoesOn(ctx'[p][t], buf'[p][t], files'[l], accepted'[l])
  BY <1>3, <1>5, <1>9, <1>12, <1>14, <1>16
<1> QED BY <1>1, <1>2, <1>3, <1>5, <1>9, <1>12, <1>13, <1>17, <1>18, <1>19, <1>20, OnePath DEF l

\* Appending to a sequence of entries, or of records.
LEMMA AppendOne ==
  ASSUME NEW S, NEW s \in Seq(S), NEW x \in S
  PROVE  /\ Append(s, x) \in Seq(S) /\ Len(s) \in Nat /\ Len(Append(s, x)) = Len(s) + 1
         /\ Append(s, x)[Len(s) + 1] = x /\ Append(s, x) # << >>
         /\ \A i \in 1..Len(s) : Append(s, x)[i] = s[i]
OBVIOUS

\* What append_log makes of a context that goes on to the end of the log.
LEMMA AppendGoesOn ==
  ASSUME NEW c \in Context, NEW d \in Context, NEW b \in Seq(Rec), NEW r \in Rec,
         NEW f \in File, NEW es \in Seq(Entry), NEW e \in Entry,
         GoesOn(c, b, f, es), f.recs \in Seq(Rec),
         d.key = c.key, d.total_entries = c.total_entries + 1, d.last_tag = r.tag,
         d.last_timestamp = e.timestamp, d.header_dirty,
         r.body = crypt(c.key, e), r.prev_tag = c.last_tag
  PROVE  GoesOn(d, Append(b, r), f, Append(es, e))
<1> DEFINE n  == Len(f.recs)
           bb == Append(b, r)
           ee == Append(es, e)
<1>1. n \in Nat OBVIOUS
<1>2. /\ Len(b) \in Nat /\ Len(bb) = Len(b) + 1 /\ bb[Len(b) + 1] = r /\ bb # << >>
      /\ \A i \in 1..Len(b) : bb[i] = b[i]
  BY AppendOne
<1>3. /\ Len(es) \in Nat /\ Len(ee) = Len(es) + 1 /\ ee[Len(es) + 1] = e
      /\ \A i \in 1..Len(es) : ee[i] = es[i]
  BY AppendOne
<1> HIDE DEF bb, ee
<1>4. c.total_entries = Len(es) /\ n + Len(b) = Len(es) /\ BaseTag(c, b) = LastTag(f.recs)
      /\ Founded(f) /\ c.key = f.header.key
  BY DEF GoesOn
<1> HIDE DEF n
<1>5. ASSUME NEW i \in 1..Len(bb) PROVE bb[i].body = crypt(d.key, ee[n + i])
  <2>1. CASE i \in 1..Len(b)
    <3>1. n + i \in 1..Len(es) BY <1>1, <1>2, <1>4, <2>1
    <3>2. b[i].body = crypt(c.key, es[n + i]) BY <2>1 DEF GoesOn, n
    <3> QED BY <1>2, <1>3, <2>1, <3>1, <3>2
  <2>2. CASE i = Len(b) + 1
    <3>1. n \in Nat /\ Len(b) \in Nat /\ n + Len(b) = Len(es) BY <1>1, <1>2, <1>4
    <3>2. n + i = Len(es) + 1 BY <2>2, <3>1, SMTT(30)
    <3> QED BY <1>2, <1>3, <2>2, <3>2
  <2>3. i \in 1..Len(b) \/ i = Len(b) + 1 BY <1>2
  <2> QED BY <2>1, <2>2, <2>3
<1>6. BaseTag(d, bb) = BaseTag(c, b)
  <2>1. CASE b = << >>
    <3>1. bb[1] = r BY <1>2, <2>1
    <3> QED BY <1>2, <2>1, <3>1 DEF BaseTag
  <2>2. CASE b # << >>
    <3>1. 1 \in 1..Len(b) BY <1>2, <2>2
    <3>2. bb[1] = b[1] BY <1>2, <3>1
    <3> QED BY <1>2, <2>2, <3>2 DEF BaseTag
  <2> QED BY <2>1, <2>2
<1>7. ee[Len(ee)].timestamp = d.last_timestamp BY <1>3
<1>8. n + Len(bb) = Len(ee) /\ d.total_entries = Len(ee) BY <1>1, <1>2, <1>3, <1>4
<1> QED BY <1>4, <1>5, <1>6, <1>7, <1>8 DEF GoesOn, bb, ee, n

\* The file keeps to the log when an entry is accepted that it does not have yet.
LEMMA AppendInOrder ==
  ASSUME NEW f \in File, f.recs \in Seq(Rec), NEW es \in Seq(Entry), NEW e \in Entry,
         InOrder(f, es)
  PROVE  InOrder(f, Append(es, e))
<1> DEFINE ee == Append(es, e)
           n  == Len(f.recs)
<1>1. /\ Len(es) \in Nat /\ Len(ee) = Len(es) + 1 /\ \A i \in 1..Len(es) : ee[i] = es[i]
  BY AppendOne
<1>2. n \in Nat /\ n <= Len(es) BY DEF InOrder
<1> HIDE DEF ee
<1>3. \A i \in 1..n : i \in 1..Len(es) BY <1>1, <1>2
<1>4. \A i \in 1..n : ee[i] = es[i] BY <1>1, <1>3
<1>5. n <= Len(ee) BY <1>1, <1>2
<1> QED BY <1>4, <1>5 DEF InOrder, ee

\* process_command wants timestamps to grow.
LEMMA AppendOrdered ==
  ASSUME NEW es \in Seq(Entry), NEW e \in Entry, Ordered(es),
         es # << >> => e.timestamp > es[Len(es)].timestamp
  PROVE  Ordered(Append(es, e))
<1> DEFINE ee == Append(es, e)
<1>1. /\ Len(es) \in Nat /\ Len(ee) = Len(es) + 1 /\ ee[Len(es) + 1] = e
      /\ \A i \in 1..Len(es) : ee[i] = es[i]
  BY AppendOne
<1> HIDE DEF ee
<1>2. ASSUME NEW i \in 2..Len(ee) PROVE ee[i].timestamp > ee[i-1].timestamp
  <2>1. CASE i \in 2..Len(es)
    <3>1. i \in 1..Len(es) /\ i-1 \in 1..Len(es) BY <1>1, <2>1
    <3>2. ee[i] = es[i] /\ ee[i-1] = es[i-1] BY <1>1, <3>1
    <3> QED BY <2>1, <3>2 DEF Ordered
  <2>2. CASE i = Len(es) + 1
    <3>1. Len(es) \in 1..Len(es) /\ i-1 = Len(es) BY <1>1, <2>2
    <3>2. es # << >> BY <3>1
    <3>3. ee[i] = e /\ ee[i-1] = es[Len(es)] BY <1>1, <2>2, <3>1
    <3> QED BY <3>2, <3>3
  <2>3. i \in 2..Len(es) \/ i = Len(es) + 1 BY <1>1
  <2> QED BY <2>1, <2>2, <2>3
<1> QED BY <1>2 DEF Ordered, ee

\* append_log: context, buffer and log grow by one entry, the file waits.
LEMMA AppendInStep ==
  ASSUME NamesAreUnique, IInv, InStep, disturbed = {}, NEW p \in Writers, Write(p),
         disturbed' = {}, AppendLog(p)
  PROVE  InStep'
<1>1. pc[p] = "process" /\ pc[p] \in AtLine /\ Active(p) BY DEF AppendLog, AtLine, Active
<1> PICK t \in Paths : t = Path(p) BY <1>1, QuietTypes, OnLine
<1> DEFINE l == FileOf[t]
           c == ctx[p][t]
           d == ctx'[p][t]
           e == cmd[p].entry
           r == NewRec(p)
           es == accepted[l]
<1>2. /\ Log(p) = l /\ l \in Logs /\ p \in Procs /\ TypeOK /\ TInv /\ Ctx(p) = c
      /\ c \in Context /\ c.authenticated /\ e \in Entry
  BY <1>1, QuietTypes, OnLine DEF TInv, OnStage, Log, Ctx
<1>3. /\ files' = files /\ d \in Context /\ d.authenticated /\ d.key = c.key
      /\ d.total_entries = c.total_entries + 1 /\ d.last_tag = r.tag
      /\ d.last_timestamp = e.timestamp /\ d.header_dirty
      /\ \A u \in Paths : u # t => ctx'[p][u] = ctx[p][u]
  <2> DEFINE a == Advanced(p)
  <2>1. a \in Context BY <1>1, <1>2, AdvancedType
  <2>2. ctx' = [ctx EXCEPT ![p][t] = a] /\ files' = files BY DEF AppendLog, SetCtx, Path
  <2>3. /\ a.key = c.key /\ a.total_entries = c.total_entries + 1 /\ a.last_tag = r.tag
        /\ a.last_timestamp = e.timestamp /\ a.header_dirty /\ a.authenticated
    BY <1>2 DEF Advanced, update_person_state, Context
  <2> HIDE DEF a
  <2>4. d = a BY <1>2, <2>1, <2>2, CtxSet
  <2>5. \A u \in Paths : u # t => ctx'[p][u] = ctx[p][u] BY <1>2, <2>1, <2>2, CtxSet
  <2> QED BY <2>1, <2>2, <2>3, <2>4, <2>5
<1>4. /\ buf'[p][t] = Append(buf[p][t], r) /\ \A u \in Paths : u # t => buf'[p][u] = buf[p][u]
  BY <1>2, AppendLogDoes DEF BufOnly
<1>5. /\ r \in Rec /\ r.prev_tag = c.last_tag /\ r.body = crypt(c.key, e)
  BY <1>1, <1>2, NewRecType DEF NewRec
<1>6. accepted'[l] = Append(es, e) /\ \A k \in Logs : k # l => accepted'[k] = accepted[k]
  BY <1>2 DEF AppendLog, TypeOK
<1>7. /\ files[l] \in File /\ files[l].recs \in Seq(Rec) /\ es \in Seq(Entry)
      /\ buf[p][t] \in Seq(Rec)
  BY <1>2, QuietTypes
<1>8. pc'[p] \in {"next", "closing"} /\ (p \in Singles => pc'[p] = "closing") /\ Active(p)'
  <2>1. pc'[p] = IF p \in Batches THEN "next" ELSE "closing" BY <1>2, PcSet DEF AppendLog
  <2> QED BY <2>1, CProcsAssumption DEF Active
<1>9. GoesOn(c, buf[p][t], files[l], es) BY <1>1, <1>2 DEF InStep
<1>10. es # << >> => e.timestamp > es[Len(es)].timestamp
  <2>1. get_last_timestamp(c) < e.timestamp BY <1>2 DEF AppendLog, Accepts
  <2>2. es # << >> => c.total_entries # 0 BY <1>7, <1>9 DEF GoesOn
  <2>3. es # << >> => c.last_timestamp < e.timestamp BY <2>1, <2>2 DEF get_last_timestamp
  <2>4. c.last_timestamp \in Nat /\ e.timestamp \in Nat
    BY <1>2, ContextFields, MaxTsAssumption DEF Entry
  <2>5. es # << >> => es[Len(es)].timestamp = c.last_timestamp BY <1>9 DEF GoesOn
  <2> QED BY <2>3, <2>4, <2>5
<1>11. Founded(files[l]) /\ InOrder(files[l], es) /\ Ordered(es)
  BY <1>2, <1>9, FileKinds DEF GoesOn, InStep, Sound
<1> HIDE DEF c, d, e, r, es, l
<1>12. GoesOn(d, Append(buf[p][t], r), files[l], Append(es, e))
  BY <1>2, <1>3, <1>5, <1>7, <1>9, AppendGoesOn
<1>13. InOrder(files[l], Append(es, e)) BY <1>2, <1>7, <1>11, AppendInOrder
<1>14. Ordered(Append(es, e)) BY <1>2, <1>7, <1>10, <1>11, AppendOrdered
<1>15. Dirty(l)' BY <1>3, <1>8, DirtyIsHis, <1>2 DEF d, l
<1>16. Sound(l)' BY <1>3, <1>6, <1>11, <1>13, <1>15 DEF Sound
<1>17. AtTurn(p)' BY <1>8, CProcsAssumption DEF AtTurn, AtLine
<1>18. GoesOn(ctx'[p][t], buf'[p][t], files'[l], accepted'[l])
  BY <1>3, <1>4, <1>6, <1>12 DEF d
<1>19. pc[p] # "create" BY <1>1
<1>20. Ordered(accepted'[l]) BY <1>6, <1>14
<1>21. /\ Founded(files'[l]) /\ files'[l].header.key = files[l].header.key
       /\ files'[l].recs \in Seq(Rec) /\ Len(files'[l].recs) >= Len(files[l].recs)
  BY <1>3, <1>7, <1>11
<1> QED BY <1>1, <1>3, <1>4, <1>6, <1>8, <1>16, <1>17, <1>18, <1>19, <1>20, <1>21, OnePath DEF l

\* The next record fits on the file, which then has one entry more of the log.
LEMMA FlushInOrder ==
  ASSUME NEW f \in File, f.recs \in Seq(Rec), NEW es \in Seq(Entry), NEW r \in Rec, NEW g,
         InOrder(f, es), f.header.text.total_entries \in Nat, Len(f.recs) < Len(es),
         r.body = crypt(f.header.key, es[Len(f.recs) + 1]), r.seq = Len(f.recs) + 1,
         r.prev_tag = LastTag(f.recs),
         g.tail = f.tail, g.header = f.header, g.recs = Append(f.recs, r)
  PROVE  InOrder(g, es)
<1> DEFINE n  == Len(f.recs)
           rs == g.recs
<1>1. /\ n \in Nat /\ Len(rs) = n + 1 /\ rs[n + 1] = r /\ \A i \in 1..n : rs[i] = f.recs[i]
  BY AppendOne
<1>2. ASSUME NEW i \in 1..Len(rs)
      PROVE  /\ rs[i].body = crypt(f.header.key, es[i]) /\ rs[i].seq = i
             /\ rs[i].prev_tag = IF i = 1 THEN NoTag ELSE rs[i-1].tag
  <2>1. CASE i \in 1..n
    <3>1. rs[i] = f.recs[i] /\ (i # 1 => i-1 \in 1..n) BY <1>1, <2>1
    <3>2. i # 1 => rs[i-1] = f.recs[i-1] BY <1>1, <3>1
    <3>3. /\ f.recs[i].body = crypt(f.header.key, es[i]) /\ f.recs[i].seq = i
          /\ f.recs[i].prev_tag = IF i = 1 THEN NoTag ELSE f.recs[i-1].tag
      BY <2>1 DEF InOrder
    <3> QED BY <3>1, <3>2, <3>3
  <2>2. CASE i = n + 1
    <3>1. rs[i] = r /\ i - 1 = n BY <1>1, <2>2
    <3>2. CASE n = 0
      <4>1. f.recs = << >> BY <3>2
      <4> QED BY <1>1, <2>2, <3>1, <3>2, <4>1 DEF LastTag
    <3>3. CASE n # 0
      <4>1. n \in 1..n /\ i # 1 BY <1>1, <2>2, <3>3
      <4>2. f.recs # << >> /\ rs[n] = f.recs[n] BY <1>1, <3>3, <4>1
      <4> QED BY <2>2, <3>1, <4>1, <4>2 DEF LastTag
    <3> QED BY <3>2, <3>3
  <2>3. i \in 1..n \/ i = n + 1 BY <1>1
  <2> QED BY <2>1, <2>2, <2>3
<1>3. Len(rs) <= Len(es) /\ f.header.text.total_entries <= Len(rs)
  <2>1. Len(es) \in Nat OBVIOUS
  <2>2. f.header.text.total_entries <= n BY DEF InOrder
  <2> QED BY <1>1, <2>1, <2>2
<1> QED BY <1>2, <1>3 DEF InOrder

\* What is left in the buffer goes on from there.
LEMMA FlushGoesOn ==
  ASSUME NEW c \in Context, NEW b \in Seq(Rec), b # << >>, Buffered(c, b),
         NEW f \in File, f.recs \in Seq(Rec), NEW es \in Seq(Entry), NEW g,
         GoesOn(c, b, f, es), Founded(g), g.header = f.header,
         g.recs = Append(f.recs, b[1])
  PROVE  GoesOn(c, Tail(b), g, es)
<1> DEFINE a == Tail(b)
           n == Len(f.recs)
<1>1. /\ Len(b) \in Nat /\ Len(a) = Len(b) - 1 /\ \A i \in 1..(Len(b) - 1) : a[i] = b[i+1]
      /\ BaseTag(c, a) = b[1].tag
  BY BufferedTail
<1>2. b[1] \in Rec /\ Len(b) # 0 OBVIOUS
<1>3. n \in Nat /\ Len(g.recs) = n + 1 /\ g.recs[n + 1] = b[1] /\ g.recs # << >>
  <2> DEFINE r == b[1]
  <2>1. r \in Rec BY <1>2
  <2> HIDE DEF r
  <2>2. g.recs = Append(f.recs, r) BY DEF r
  <2> QED BY <2>1, <2>2, AppendOne DEF r
<1>4. n + Len(b) = Len(es) /\ c.key = f.header.key /\ c.total_entries = Len(es)
      /\ (es # << >> => c.last_timestamp = es[Len(es)].timestamp) /\ c.header_dirty
  BY DEF GoesOn
<1> HIDE DEF a, n
<1>5. ASSUME NEW i \in 1..Len(a) PROVE a[i].body = crypt(c.key, es[Len(g.recs) + i])
  <2>1. i \in 1..(Len(b) - 1) /\ i + 1 \in 1..Len(b) BY <1>1
  <2>2. b[i+1].body = crypt(c.key, es[n + (i+1)]) BY <2>1 DEF GoesOn, n
  <2>3. n + (i+1) = Len(g.recs) + i BY <1>1, <1>3, <2>1
  <2> QED BY <1>1, <2>1, <2>2, <2>3
<1>6. Len(g.recs) + Len(a) = Len(es)
  <2>1. Len(b) \in Nat /\ n \in Nat BY <1>1, <1>3
  <2> QED BY <1>1, <1>3, <1>4, <2>1, SMTT(30)
<1>7. BaseTag(c, a) = LastTag(g.recs) BY <1>1, <1>3 DEF LastTag
<1> QED BY <1>4, <1>5, <1>6, <1>7 DEF GoesOn, a

\* stdio puts the first entry of a buffer behind the records of the file.
LEMMA FlushInStep ==
  ASSUME NamesAreUnique, IInv, InStep, disturbed = {}, NEW p \in Writers, Write(p),
         disturbed' = {}, NEW t \in Paths, Flush(p, t)
  PROVE  InStep'
<1> DEFINE l == FileOf[t]
           f == files[l]
           g == files'[l]
           c == ctx[p][t]
           b == buf[p][t]
           es == accepted[l]
<1>1. /\ l \in Logs /\ f \in File /\ f.recs \in Seq(Rec) /\ es \in Seq(Entry) /\ TypeOK /\ TInv
      /\ c \in Context /\ Staged(c) /\ b \in Seq(Rec) /\ Buffered(c, b)
  BY QuietTypes
<1>2. /\ b # << >> /\ buf'[p][t] = Tail(b) /\ UNCHANGED <<pc, cmd, ctx, accepted>>
      /\ \A u \in Paths : u # t => buf'[p][u] = buf[p][u]
      /\ \A k \in Logs : k # l => files'[k] = files[k]
  BY <1>1, FlushDoes DEF FileOnly, BufOnly
<1>3. Active(p) /\ Active(p)' BY <1>2 DEF InStep, AtTurn, Active
<1>4. c.authenticated BY <1>1, <1>2, BufferedTail DEF Staged
<1>5. GoesOn(c, b, f, es) BY <1>3, <1>4 DEF InStep
<1>6. c.header_dirty /\ Founded(f) /\ c.key = f.header.key BY <1>2, <1>5 DEF GoesOn
<1>7. InOrder(f, es) /\ Ordered(es) BY <1>1, <1>6, FileKinds DEF InStep, Sound
<1>8. f.header \in Header /\ f.salt # NoSalt
  <2>1. f.header \in Header BY <1>1, <1>6 DEF Founded, File
  <2>2. f.header.key \in Key BY <2>1, HeaderType
  <2> QED BY <1>6, <2>1, <2>2, CNullsAssumption DEF Key, Founded
<1>9. g = [f EXCEPT !.recs = Append(f.recs, b[1])]
  <2>1. PICK h \in Put(f, Head(b)) : files' = [files EXCEPT ![l] = h] BY DEF Flush
  <2>2. g = h /\ Head(b) = b[1] BY <1>1, <1>2, <2>1 DEF TypeOK
  <2>3. f.tail = "clean" BY <1>7 DEF InOrder
  <2> QED BY <1>8, <2>1, <2>2, <2>3 DEF Put
<1>10. /\ g.exists = f.exists /\ g.salt = f.salt /\ g.header = f.header /\ g.tail = f.tail
       /\ g.recs = Append(f.recs, b[1])
  BY <1>1, <1>9 DEF File
<1>11. Founded(g) BY <1>6, <1>10 DEF Founded
<1>12. /\ Len(f.recs) \in Nat /\ Len(b) \in Nat /\ Len(b) # 0 /\ Len(f.recs) + Len(b) = Len(es)
       /\ c.total_entries = Len(es) /\ b[1] \in Rec
  <2>1. Len(f.recs) \in Nat /\ Len(b) \in Nat BY <1>1
  <2>2. Len(b) # 0 /\ b[1] \in Rec
    <3> HIDE DEF b
    <3> QED BY <1>1, <1>2
  <2>3. Len(f.recs) + Len(b) = Len(es) /\ c.total_entries = Len(es) BY <1>5 DEF GoesOn
  <2> QED BY <2>1, <2>2, <2>3
<1>13. InOrder(g, es)
  <2>1. b[1].body = crypt(f.header.key, es[Len(f.recs) + 1])
    <3>1. 1 \in 1..Len(b)
      <4> HIDE DEF b
      <4> QED BY <1>12
    <3> QED BY <1>5, <1>6, <3>1 DEF GoesOn
  <2>2. b[1].seq = Len(f.recs) + 1
    <3>1. b[1].seq = BaseLen(c, b) + 1 BY <1>1, <1>2, BufferedTail
    <3>2. BaseLen(c, b) = Len(f.recs)
      <4> HIDE DEF f, b, c, es
      <4> QED BY <1>12 DEF BaseLen
    <3> QED BY <3>1, <3>2
  <2>3. b[1].prev_tag = LastTag(f.recs) BY <1>2, <1>5 DEF GoesOn, BaseTag
  <2>4. Len(f.recs) < Len(es)
    <3> HIDE DEF f, b, c, es
    <3> QED BY <1>12
  <2>5. f.header.text.total_entries \in Nat BY <1>8, HeaderType
  <2> DEFINE r == b[1]
  <2>6. r \in Rec /\ g.recs = Append(f.recs, r) BY <1>10, <1>12
  <2> HIDE DEF f, g, es, b
  <2> QED BY <1>1, <1>7, <1>10, <2>1, <2>2, <2>3, <2>4, <2>5, <2>6, FlushInOrder
<1>14. GoesOn(c, Tail(b), g, es)
  <2> HIDE DEF f, g, es, b, c
  <2> QED BY <1>1, <1>2, <1>5, <1>10, <1>11, FlushGoesOn
<1>15. Dirty(l)'
  <2>1. ctx'[p][t].header_dirty BY <1>2, <1>6
  <2> QED BY <1>1, <1>3, <2>1, DirtyIsHis
<1>16. Sound(l)' BY <1>2, <1>11, <1>13, <1>15 DEF Sound
<1>17. AtTurn(p)'
  <2>1. AtTurn(p) BY DEF InStep
  <2>2. pc[p] \in {"open", "create"} => files'[Log(p)] = files[Log(p)]
    <3>1. pc[p] \in {"open", "create"} => Log(p) \in Logs BY <1>1, OnLine DEF AtLine
    <3>2. pc[p] \in {"open", "create"} => Log(p) # l BY <1>6, <2>1, FileKinds DEF AtTurn
    <3> QED BY <1>2, <3>1, <3>2
  <2>3. Log(p)' = Log(p) BY <1>2 DEF Log, Path
  <2> QED BY <1>2, <1>3, <2>1, <2>2, <2>3 DEF AtTurn
<1>18. g.recs \in Seq(Rec) /\ Len(g.recs) >= Len(f.recs)
  <2> DEFINE r == b[1]
  <2>1. r \in Rec /\ g.recs = Append(f.recs, r) BY <1>10, <1>12
  <2> HIDE DEF r
  <2> QED BY <1>1, <1>12, <2>1, AppendOne
<1>19. Log(p)' = Log(p) BY <1>2 DEF Log, Path
<1>20. GoesOn(ctx'[p][t], buf'[p][t], files'[l], accepted'[l]) BY <1>2, <1>14
<1>21. Ordered(accepted'[l]) BY <1>2, <1>7
<1>22. files'[l].header.key = files[l].header.key BY <1>10
<1> HIDE DEF c, es, b
<1> QED BY <1>2, <1>3, <1>11, <1>16, <1>17, <1>18, <1>19, <1>20, <1>21, <1>22, OnePath

\* update_header: the header counts the entries, which are all in the file by now.
LEMMA UpdateHeaderInStep ==
  ASSUME NamesAreUnique, IInv, InStep, disturbed = {}, NEW p \in Writers, Write(p),
         disturbed' = {}, NEW t \in Paths, UpdateHeader(p, t)
  PROVE  InStep'
<1> DEFINE l == FileOf[t]
           f == files[l]
           g == files'[l]
           c == ctx[p][t]
           d == [c EXCEPT !.header_dirty = FALSE]
           h == crypt(c.key, HeaderOf(c))
           es == accepted[l]
<1>1. /\ l \in Logs /\ f \in File /\ f.recs \in Seq(Rec) /\ es \in Seq(Entry) /\ TypeOK /\ TInv
      /\ c \in Context /\ Staged(c) /\ p \in Procs
  BY QuietTypes DEF Procs
<1>2. /\ pc[p] = "closing" /\ c.header_dirty /\ buf[p][t] = << >>
      /\ UNCHANGED <<cmd, buf, accepted>>
  BY DEF UpdateHeader
<1>3. Active(p) /\ c.authenticated BY <1>1, <1>2 DEF Active, Staged
<1>4. GoesOn(c, << >>, f, es)
  <2>1. GoesOn(c, buf[p][t], f, es) BY <1>3 DEF InStep
  <2> QED BY <1>2, <2>1
<1>5. Founded(f) /\ c.key = f.header.key BY <1>4 DEF GoesOn
<1>6. InOrder(f, es) /\ Ordered(es) BY <1>1, <1>5, FileKinds DEF InStep, Sound
<1>7. c.key \in Key /\ f.salt # NoSalt
  <2>1. c.key \in Key BY <1>1, <1>3 DEF Staged
  <2> QED BY <1>5, <2>1, CNullsAssumption DEF Key, Founded
<1>8. /\ pc' = pc /\ files' = [files EXCEPT ![l].header = h]
      /\ ctx' = [ctx EXCEPT ![p][t].header_dirty = FALSE]
  BY <1>7 DEF UpdateHeader
<1>9. /\ d \in Context /\ ~d.header_dirty /\ d.key = c.key /\ d.last_tag = c.last_tag
      /\ d.total_entries = c.total_entries /\ d.last_timestamp = c.last_timestamp
  BY <1>1 DEF Context
<1>10. ctx' = [ctx EXCEPT ![p][t] = d] BY <1>1, <1>8 DEF TypeOK
<1>11. g = [f EXCEPT !.header = h] /\ \A k \in Logs : k # l => files'[k] = files[k]
  BY <1>1, <1>8 DEF TypeOK
<1>12. /\ h.key = c.key /\ h.text.total_entries = c.total_entries
       /\ h.text.last_timestamp = c.last_timestamp /\ h.text.last_tag = c.last_tag
  BY DEF crypt, HeaderOf
<1>13. h # NoHeader
  <2>1. /\ c.total_entries \in Nat /\ c.last_timestamp \in Nat /\ c.last_tag \in Tag \cup {NoTag}
    BY <1>1, ContextFields
  <2>2. h \in Header BY <1>7, <2>1, HeaderType DEF HeaderOf
  <2> QED BY <2>2, CHeaderAssumption
<1>14. /\ g.exists = f.exists /\ g.salt = f.salt /\ g.header = h /\ g.recs = f.recs
       /\ g.tail = f.tail
  BY <1>1, <1>11 DEF File
<1> HIDE DEF d, h
<1>15. ctx'[p][t] = d /\ \A u \in Paths : u # t => ctx'[p][u] = ctx[p][u]
  <2>1. TypeOK /\ d \in Context BY <1>1, <1>9
  <2>2. ctx'[p][t] = d BY <1>10, <2>1, CtxSet
  <2>3. \A u \in Paths : u # t => ctx'[p][u] = ctx[p][u] BY <1>10, <2>1, CtxSet
  <2> QED BY <2>2, <2>3
<1>16. /\ Len(f.recs) \in Nat /\ Len(f.recs) = Len(es) /\ c.total_entries = Len(es)
       /\ c.last_tag = LastTag(f.recs)
       /\ es # << >> => c.last_timestamp = es[Len(es)].timestamp
  <2>1. Len(<< >>) = 0 /\ Len(f.recs) \in Nat BY <1>1
  <2>2. Len(f.recs) + Len(<< >>) = Len(es) /\ BaseTag(c, << >>) = LastTag(f.recs)
        /\ c.total_entries = Len(es)
        /\ (es # << >> => c.last_timestamp = es[Len(es)].timestamp)
    BY <1>4 DEF GoesOn
  <2>3. c.last_tag = LastTag(f.recs) BY <2>2 DEF BaseTag
  <2>4. Len(f.recs) = Len(es)
    <3> HIDE DEF f, es
    <3> QED BY <2>1, <2>2
  <2> QED BY <2>1, <2>2, <2>3, <2>4
<1> HIDE DEF c, f, g, es
<1>17. Founded(g) BY <1>5, <1>12, <1>13, <1>14 DEF Founded
<1>18. InOrder(g, es)
  <2>1. h.text.total_entries <= Len(g.recs) BY <1>12, <1>14, <1>16
  <2>2. h.key = f.header.key BY <1>5, <1>12
  <2> QED BY <1>6, <1>14, <2>1, <2>2 DEF InOrder
<1>19. Counted(g, es) BY <1>12, <1>14, <1>16 DEF Counted
<1>20. GoesOn(d, << >>, g, es)
  <2>1. Len(<< >>) = 0 OBVIOUS
  <2>2. BaseTag(d, << >>) = LastTag(g.recs) BY <1>9, <1>14, <1>16 DEF BaseTag
  <2>3. Len(g.recs) + Len(<< >>) = Len(es) BY <1>14, <1>16, <2>1
  <2> QED BY <1>9, <1>12, <1>14, <1>16, <1>17, <2>1, <2>2, <2>3 DEF GoesOn
<1>21. Sound(l)' BY <1>2, <1>17, <1>18, <1>19 DEF Sound, es, g
<1>22. AtTurn(p)' BY <1>2, <1>8 DEF AtTurn, AtLine, Active
<1>23. GoesOn(ctx'[p][t], buf'[p][t], files'[l], accepted'[l])
  BY <1>2, <1>15, <1>20 DEF es, g
<1>24. Ordered(accepted'[l]) BY <1>2, <1>6 DEF es
<1>25. /\ Founded(files'[l]) /\ files'[l].header.key = files[l].header.key
       /\ files'[l].recs \in Seq(Rec) /\ Len(files'[l].recs) >= Len(files[l].recs)
  BY <1>1, <1>5, <1>12, <1>14, <1>16, <1>17 DEF f, g
<1>26. Active(p)' /\ pc[p] # "create" BY <1>2, <1>8 DEF Active
<1>27. \A u \in Paths : u # t => ctx'[p][u] = ctx[p][u] /\ buf'[p][u] = buf[p][u]
  BY <1>2, <1>15
<1>28. \A k \in Logs : k # l => files'[k] = files[k] /\ accepted'[k] = accepted[k]
  BY <1>2, <1>11
<1> QED BY <1>3, <1>21, <1>22, <1>23, <1>24, <1>25, <1>26, <1>27, <1>28, OnePath

\* What a writer goes by is all as it was.
LEMMA WritersTheSame ==
  ASSUME IInv, InStep, UNCHANGED <<files, ctx, buf, accepted>>,
         \A p \in Writers : pc'[p] = pc[p] /\ cmd'[p] = cmd[p],
         \A r \in Readers : WillRead(r)'
  PROVE  InStep'
<1>1. \A p \in Writers : (Active(p)' <=> Active(p)) /\ Log(p)' = Log(p)
  BY DEF Active, Log, Path
<1>2. ASSUME NEW p \in Writers PROVE AtTurn(p)'
  <2>1. AtTurn(p) BY DEF InStep
  <2> QED BY <1>1, <2>1 DEF AtTurn
<1>3. ASSUME NEW l \in Logs PROVE Sound(l)' /\ Ordered(accepted'[l])
  <2>1. Sound(l) /\ Ordered(accepted[l]) BY DEF InStep
  <2>2. Dirty(l) => Dirty(l)' BY <1>1 DEF Dirty
  <2>3. (\E p \in Writers : pc[p] = "create" /\ Log(p) = l)
        => (\E p \in Writers : pc'[p] = "create" /\ Log(p)' = l)
    BY <1>1
  <2> QED BY <2>1, <2>2, <2>3 DEF Sound
<1>4. \A p, q \in Writers : Active(p)' /\ Active(q)' => p = q BY <1>1 DEF InStep
<1>5. \A p \in Writers, t \in Paths : Active(p)' /\ ctx'[p][t].authenticated =>
        GoesOn(ctx'[p][t], buf'[p][t], files'[FileOf[t]], accepted'[FileOf[t]])
  BY <1>1 DEF InStep
<1> QED BY <1>2, <1>3, <1>4, <1>5 DEF InStep

\* A header is read of a file that has what it counts.
LEMMA ReadLogInStep ==
  ASSUME IInv, InStep, disturbed = {}, NEW r \in Readers, ReadLog(r)
  PROVE  InStep'
<1>1. UNCHANGED <<files, ctx, buf, accepted>> /\ r \in Procs /\ TypeOK /\ Working(r)
  BY QuietTypes, ReadDoes DEF Procs, TInv
<1>2. \A q \in Procs : q # r => Untouched(q) BY <1>1, OthersUntouched DEF StepOf
<1>3. \A p \in Writers : pc'[p] = pc[p] /\ cmd'[p] = cmd[p]
  <2>1. \A p \in Writers : p \in Procs /\ p # r BY CProcsAssumption DEF Procs
  <2> QED BY <1>2, <2>1 DEF Untouched
<1>4. ASSUME NEW q \in Readers PROVE WillRead(q)'
  <2>1. CASE q # r
    <3>1. Untouched(q) BY <1>2, <2>1 DEF Procs
    <3>2. Log(q)' = Log(q) /\ pc'[q] = pc[q] /\ header'[q] = header[q]
      BY <3>1 DEF Untouched, Log, Path
    <3> QED BY <1>1, <3>2 DEF InStep, WillRead
  <2>2. CASE q = r /\ pc'[r] = "entries"
    <3>1. ReadHeader(r) BY <1>1, <2>2, PcSet DEF ReadLog, Ask, ReadEntries
    <3> DEFINE f == files[Log(r)]
    <3>2. Log(r) \in Logs BY <1>1, <3>1, CommandType DEF ReadHeader, Working, Log, Path
    <3>3. f.header # NoHeader /\ header'[r] = f.header /\ Log(r)' = Log(r)
      BY <1>1, <2>2, <3>1, PcSet DEF ReadHeader, TypeOK, Log, Path
    <3>4. Founded(f) /\ f.header.text.total_entries <= Len(f.recs)
      BY <3>2, <3>3, FileKinds DEF InStep, Sound, InOrder
    <3> QED BY <1>1, <2>2, <3>3, <3>4 DEF WillRead
  <2>3. CASE q = r /\ pc'[r] # "entries" BY <2>3 DEF WillRead
  <2> QED BY <2>1, <2>2, <2>3
<1> QED BY <1>1, <1>3, <1>4, WritersTheSame

------------------------------------------------------------------------------
(* The invariant *)

LEMMA InitQuiet == Init => Quiet
<1> SUFFICES ASSUME Init PROVE InStep BY DEF Quiet
<1>1. /\ \A p \in Writers : /\ pc[p] = "idle"
                            /\ \A t \in Paths : ctx[p][t] = NewContext /\ buf[p][t] = << >>
      /\ \A r \in Readers : pc[r] = "idle"
      /\ \A l \in Logs : files[l] = NoFile /\ accepted[l] = << >>
  BY DEF Init, Procs
<1>2. \A p \in Writers : AtTurn(p) /\ ~Active(p) BY <1>1 DEF AtTurn, Active, AtLine
<1>3. \A l \in Logs : Sound(l) BY <1>1 DEF Sound
<1>4. Len(<< >>) = 0 OBVIOUS
<1>5. \A l \in Logs : Ordered(accepted[l]) BY <1>1, <1>4 DEF Ordered
<1>6. \A r \in Readers : WillRead(r) BY <1>1 DEF WillRead
<1> QED BY <1>2, <1>3, <1>5, <1>6 DEF InStep

\* What once was disturbed is not quiet again.
LEMMA DisturbedGrows ==
  ASSUME IInv, Next PROVE disturbed \subseteq disturbed'
<1>1. CASE \E p \in Readers : ReadLog(p)
  BY <1>1 DEF ReadLog, Ask, ReadHeader, ReadEntries
<1>2. ASSUME NEW p \in Writers, Write(p) PROVE disturbed \subseteq disturbed'
  <2>1. CASE Start(p) BY <2>1 DEF Start
  <2>2. CASE NestedBatch(p) BY <2>2 DEF NestedBatch, Abort
  <2>3. CASE WriteNewFails(p) \/ Load(p) \/ Crash(p) BY <2>3 DEF WriteNewFails, Load, Crash
  <2>4. CASE \E t \in Paths : FlushFails(p, t) \/ UpdateHeaderFails(p, t)
    BY <2>4 DEF FlushFails, UpdateHeaderFails
  <2>5. CASE \E t \in Paths : Flush(p, t) \/ UpdateHeader(p, t)
    BY <2>5 DEF Flush, UpdateHeader
  <2>6. CASE BadLine(p) \/ NextLine(p) \/ Authenticate(p) \/ OpenNew(p) \/ OpenFails(p)
    BY <2>6 DEF BadLine, NextLine, Authenticate, OpenNew, OpenFails, Refuse
  <2>7. CASE WriteNew(p) \/ Reject(p) \/ AppendLog(p) \/ AppendDies(p) \/ EndOfFile(p) \/ Exit(p)
    BY <2>7 DEF WriteNew, Reject, AppendLog, AppendDies, EndOfFile, Exit, Refuse
  <2> QED BY <1>2, <2>1, <2>2, <2>3, <2>4, <2>5, <2>6, <2>7 DEF Write
<1> QED BY <1>1, <1>2 DEF Next

LEMMA NextQuiet ==
  ASSUME NamesAreUnique, IInv, Quiet, Next PROVE Quiet'
<1> SUFFICES ASSUME disturbed' = {} PROVE InStep' BY DEF Quiet
<1>1. disturbed = {} BY DisturbedGrows
<1>2. InStep BY <1>1 DEF Quiet
<1>3. ASSUME NEW p \in Writers, Write(p) PROVE InStep'
  <2>1. /\ ~WriteNewFails(p) /\ ~Crash(p)
        /\ \A t \in Paths : ~FlushFails(p, t) /\ ~UpdateHeaderFails(p, t)
    BY <1>1, <1>2, <1>3, ByItself
  <2>2. \/ MovesOn(p) \/ Authenticate(p) \/ OpenNew(p) \/ WriteNew(p)
        \/ Load(p) \/ AppendLog(p) \/ \E t \in Paths : Flush(p, t) \/ UpdateHeader(p, t)
    BY <1>3, <2>1, WriteKinds DEF IInv
  <2>3. CASE MovesOn(p) BY <1>1, <1>2, <1>3, <2>3, MovesOnInStep
  <2>4. CASE Authenticate(p) BY <1>1, <1>2, <1>3, <2>4, AuthenticateInStep
  <2>5. CASE OpenNew(p) BY <1>1, <1>2, <1>3, <2>5, OpenInStep
  <2>6. CASE WriteNew(p) BY <1>1, <1>2, <1>3, <2>6, FoundInStep
  <2>7. CASE Load(p) BY <1>1, <1>2, <1>3, <2>7, LoadInStep
  <2>8. CASE AppendLog(p) BY <1>1, <1>2, <1>3, <2>8, AppendInStep
  <2>9. CASE \E t \in Paths : Flush(p, t) \/ UpdateHeader(p, t)
    BY <1>1, <1>2, <1>3, <2>9, FlushInStep, UpdateHeaderInStep
  <2> QED BY <2>2, <2>3, <2>4, <2>5, <2>6, <2>7, <2>8, <2>9
<1>4. ASSUME NEW r \in Readers, ReadLog(r) PROVE InStep' BY <1>1, <1>2, <1>4, ReadLogInStep
<1> QED BY <1>3, <1>4 DEF Next

LEMMA StutterQuiet ==
  ASSUME IInv, Quiet, UNCHANGED vars PROVE Quiet'
<1> SUFFICES ASSUME disturbed = {} PROVE InStep' BY DEF Quiet, vars
<1>1. InStep BY DEF Quiet
<1>2. \A r \in Readers : WillRead(r)' BY <1>1 DEF InStep, WillRead, vars, Log, Path
<1> QED BY <1>1, <1>2, WritersTheSame DEF vars

LEMMA QuietInvariance ==
  ASSUME NamesAreUnique PROVE Spec => [](IInv /\ Quiet)
<1>1. Init => IInv /\ Quiet BY InitIInv, InitQuiet
<1>2. IInv /\ Quiet /\ [Next]_vars => (IInv /\ Quiet)'
  BY NextIInv, StutterIInv, NextQuiet, StutterQuiet
<1> QED BY <1>1, <1>2, PTL DEF Spec

------------------------------------------------------------------------------
(* The theorems *)

\* Which entries the records of a file that is in order hold.
LEMMA InOrderEntries ==
  ASSUME NEW f \in File, NEW es \in Seq(Entry), InOrder(f, es)
  PROVE  /\ f.recs \in Seq(Rec) /\ Len(f.recs) \in Nat /\ Len(f.recs) <= Len(es)
         /\ \A i \in 1..Len(f.recs) :
              /\ i \in 1..Len(es) /\ f.recs[i].body.text = es[i] /\ f.recs[i].seq = i
              /\ f.recs[i].body.key = f.header.key /\ Linked(f.recs, i)
              /\ i = 1 => f.recs[i].prev_tag = NoTag
<1>1. f.recs \in Seq(Rec) BY DEF File
<1>2. Len(f.recs) \in Nat /\ Len(es) \in Nat /\ Len(f.recs) <= Len(es)
  BY <1>1 DEF InOrder
<1>3. \A i \in 1..Len(f.recs) : i \in 1..Len(es) BY <1>2
<1>4. ASSUME NEW i \in 1..Len(f.recs)
      PROVE  /\ f.recs[i].body.text = es[i] /\ f.recs[i].seq = i
             /\ f.recs[i].body.key = f.header.key /\ Linked(f.recs, i)
             /\ i = 1 => f.recs[i].prev_tag = NoTag
  <2>1. /\ f.recs[i].body = crypt(f.header.key, es[i]) /\ f.recs[i].seq = i
        /\ f.recs[i].prev_tag = IF i = 1 THEN NoTag ELSE f.recs[i-1].tag
    BY DEF InOrder
  <2>2. f.recs[i].body.text = es[i] /\ f.recs[i].body.key = f.header.key BY <2>1 DEF crypt
  <2>3. Linked(f.recs, i) BY <2>1 DEF Linked
  <2> QED BY <2>1, <2>2, <2>3
<1> QED BY <1>1, <1>2, <1>3, <1>4

\* A header that counts all entries is one that load_state agrees with.
LEMMA CountedLoads ==
  ASSUME NEW f \in File, NEW es \in Seq(Entry), Founded(f), InOrder(f, es), Counted(f, es)
  PROVE  /\ Entries(f.recs) = es /\ Loads(f.header.key, f.header.text.total_entries, f)
         /\ f.recs # << >> =>
              /\ f.header.text.last_tag = f.recs[Len(f.recs)].tag
              /\ f.header.text.last_timestamp = f.recs[Len(f.recs)].body.text.timestamp
<1>1. /\ f.recs \in Seq(Rec) /\ Len(f.recs) \in Nat
      /\ \A i \in 1..Len(f.recs) :
           /\ f.recs[i].body.text = es[i] /\ f.recs[i].seq = i
           /\ f.recs[i].body.key = f.header.key /\ Linked(f.recs, i)
  BY InOrderEntries
<1>2. /\ Len(f.recs) = Len(es) /\ f.header.text.total_entries = Len(es)
      /\ f.header.text.last_tag = LastTag(f.recs)
      /\ es # << >> => f.header.text.last_timestamp = es[Len(es)].timestamp
  BY DEF Counted
<1>3. Entries(f.recs) = es
  <2>1. /\ Entries(f.recs) \in Seq(Entry) /\ Len(Entries(f.recs)) = Len(f.recs)
        /\ \A i \in 1..Len(f.recs) : Entries(f.recs)[i] = f.recs[i].body.text
    BY <1>1, EntriesOfRecs
  <2> DEFINE fs == Entries(f.recs)
  <2>2. fs \in Seq(Entry) /\ Len(fs) = Len(es) /\ \A i \in 1..Len(es) : fs[i] = es[i]
    BY <1>1, <1>2, <2>1
  <2> HIDE DEF fs
  <2>3. fs = es BY <2>2
  <2> QED BY <2>3 DEF fs
<1>4. Loads(f.header.key, f.header.text.total_entries, f)
  <2>1. f.tail # "entry" BY DEF InOrder
  <2> QED BY <1>1, <1>2, <2>1 DEF Loads, decrypt
<1>5. ASSUME f.recs # << >>
      PROVE  /\ f.header.text.last_tag = f.recs[Len(f.recs)].tag
             /\ f.header.text.last_timestamp = f.recs[Len(f.recs)].body.text.timestamp
  <2>1. Len(f.recs) # 0 BY <1>1, <1>5
  <2>2. Len(f.recs) \in 1..Len(f.recs) /\ es # << >> BY <1>1, <1>2, <2>1
  <2> QED BY <1>1, <1>2, <1>5, <2>2 DEF LastTag
<1> QED BY <1>3, <1>4, <1>5

(* Where every log goes by one name, writers that run one at a time and come to *)
(* their end leave every log with a header that counts its entries, which are   *)
(* those accepted in one chain, for the next one to load (logappend.c).         *)
THEOREM CCleanLogLoads ==
  ASSUME NamesAreUnique PROVE Spec => []CleanLogLoads
<1>1. ASSUME IInv, Quiet PROVE CleanLogLoads
  <2> SUFFICES ASSUME disturbed = {}, Idle, NEW l \in Logs
      PROVE  LET f == files[l] IN
             \/ ~f.exists /\ accepted[l] = << >>
             \/ /\ f.tail = "clean" /\ Entries(f.recs) = accepted[l]
                /\ f.header # NoHeader /\ f.header.key.salt = f.salt
                /\ Loads(f.header.key, f.header.text.total_entries, f)
                /\ f.recs # << >> => LET last == f.recs[Len(f.recs)] IN
                     /\ f.header.text.last_tag = last.tag
                     /\ f.header.text.last_timestamp = last.body.text.timestamp
    BY DEF CleanLogLoads
  <2> DEFINE f == files[l]
  <2>1. Sound(l) /\ f \in File /\ accepted[l] \in Seq(Entry) BY <1>1, QuietTypes DEF Quiet, InStep
  <2>2. ~Dirty(l) BY DEF Dirty, Idle
  <2>3. ~ \E p \in Writers : pc[p] = "create" /\ Log(p) = l BY DEF Idle, Active
  <2>4. CASE f = NoFile /\ accepted[l] = << >> BY <2>4, FileKinds
  <2>5. CASE Founded(f) /\ InOrder(f, accepted[l]) /\ Counted(f, accepted[l])
    <3>1. f.tail = "clean" /\ f.header # NoHeader /\ f.header.key.salt = f.salt
      BY <2>5 DEF InOrder, Founded
    <3> QED BY <2>1, <2>5, <3>1, CountedLoads
  <2> QED BY <2>1, <2>2, <2>3, <2>4, <2>5 DEF Sound
<1> QED BY <1>1, QuietInvariance, PTL

\* The entries of the file and of the buffer together are those accepted.
LEMMA StoryIsAccepted ==
  ASSUME NEW c \in Context, NEW b \in Seq(Rec), NEW f \in File, NEW es \in Seq(Entry),
         GoesOn(c, b, f, es), InOrder(f, es)
  PROVE  /\ Fits(f.recs, c, b) /\ Len(f.recs) \in Nat /\ Len(f.recs) + Len(b) = Len(es)
         /\ \A i \in 1..Len(es) : Story(f.recs, b)[i] = es[i]
<1> DEFINE rs == f.recs
           n  == Len(rs)
<1>1. /\ rs \in Seq(Rec) /\ n \in Nat
      /\ \A i \in 1..n : rs[i].body.text = es[i] /\ Linked(rs, i)
  BY InOrderEntries
<1>2. /\ Len(b) \in Nat /\ n + Len(b) = Len(es) /\ c.total_entries = Len(es)
      /\ BaseTag(c, b) = LastTag(rs)
      /\ \A i \in 1..Len(b) : b[i].body = crypt(c.key, es[n + i])
  BY DEF GoesOn
<1> HIDE DEF rs
<1>3. Fits(rs, c, b)
  <2>1. n = BaseLen(c, b) BY <1>1, <1>2 DEF BaseLen
  <2> QED BY <1>1, <1>2, <2>1 DEF Fits, LastTag
<1>4. ASSUME NEW i \in 1..Len(es) PROVE Story(rs, b)[i] = es[i]
  <2>1. i \in 1..(n + Len(b)) BY <1>2
  <2>2. CASE i <= n
    <3>1. i \in 1..n BY <1>1, <2>1, <2>2
    <3> QED BY <1>1, <2>1, <2>2, <3>1 DEF Story
  <2>3. CASE ~(i <= n)
    <3>1. i - n \in 1..Len(b) /\ n + (i - n) = i BY <1>1, <1>2, <2>1, <2>3
    <3>2. b[i-n].body = crypt(c.key, es[i]) BY <1>2, <3>1
    <3>3. b[i-n].body.text = es[i] BY <3>2 DEF crypt
    <3> QED BY <2>1, <2>3, <3>3 DEF Story
  <2> QED BY <2>2, <2>3
<1> QED BY <1>1, <1>2, <1>3, <1>4 DEF rs

\* What a context has loaded agrees with all that was accepted.
LEMMA LoadedAgrees ==
  ASSUME IInv, InStep, NEW p \in Writers, Active(p), NEW t \in Paths, ctx[p][t].state_loaded
  PROVE  LET c == ctx[p][t]  b == buf[p][t]  f == files[FileOf[t]]  es == accepted[FileOf[t]] IN
         /\ GoesOn(c, b, f, es) /\ InOrder(f, es) /\ Len(es) \in Nat
         /\ \A w \in Person : PlacedAt(es, Len(es), w, c.loc[w])
         /\ \A i \in (Len(f.recs) + 1)..Len(es) : Legal(es, i)
<1> DEFINE c  == ctx[p][t]
           b  == buf[p][t]
           f  == files[FileOf[t]]
           es == accepted[FileOf[t]]
           ss == Story(f.recs, b)
<1>1. /\ FileOf[t] \in Logs /\ f \in File /\ es \in Seq(Entry) /\ c \in Context
      /\ b \in Seq(Rec) /\ Staged(c) /\ Len(es) \in Nat
  BY QuietTypes
<1>2. Knows(c, b, f.recs) BY QuietTypes DEF Chained
<1>3. GoesOn(c, b, f, es) BY <1>1 DEF InStep, Staged
<1>4. InOrder(f, es)
  <2>1. Founded(f) BY <1>3 DEF GoesOn
  <2> QED BY <1>1, <2>1, FileKinds DEF InStep, Sound
<1>5. c.state_loaded OBVIOUS
<1> HIDE DEF c, b, f, es
<1>6. /\ Fits(f.recs, c, b) /\ Len(f.recs) \in Nat /\ Len(f.recs) + Len(b) = Len(es)
      /\ \A i \in 1..Len(es) : ss[i] = es[i]
  BY <1>1, <1>3, <1>4, StoryIsAccepted
<1>7. Continues(f.recs, c, b) BY <1>2, <1>5, <1>6 DEF Knows
<1>8. /\ \A i \in (Len(f.recs) + 1)..Len(es) : Legal(ss, i)
      /\ \A w \in Person : PlacedAt(ss, Len(es), w, c.loc[w])
  BY <1>6, <1>7 DEF Continues
<1> HIDE DEF ss
<1>9. \A w \in Person : PlacedAt(es, Len(es), w, c.loc[w]) BY <1>1, <1>6, <1>8, SamePrefix
<1>10. ASSUME NEW i \in (Len(f.recs) + 1)..Len(es) PROVE Legal(es, i)
  <2>1. i \in 1..Len(es) /\ i - 1 \in Nat /\ \A k \in 1..(i-1) : k \in 1..Len(es)
    BY <1>1, <1>6
  <2>2. PlacedAt(ss, i-1, ss[i].who, From(ss[i])) BY <1>8 DEF Legal
  <2>3. ss[i] = es[i] /\ \A k \in 1..(i-1) : ss[k] = es[k] BY <1>6, <2>1
  <2> QED BY <2>1, <2>2, <2>3, SamePrefix DEF Legal
<1> QED BY <1>1, <1>3, <1>4, <1>9, <1>10 DEF c, b, f, es

(* The context that a batch keeps for a log agrees between its lines with every *)
(* entry accepted, in the file or not, if the log goes by one name: the counter,*)
(* the last timestamp and the places of process_command (logappend.c).          *)
THEOREM CContextCurrent ==
  ASSUME NamesAreUnique PROVE Spec => []ContextCurrent
<1>1. ASSUME IInv, Quiet PROVE ContextCurrent
  <2> SUFFICES ASSUME disturbed = {}, NEW p \in Writers, NEW t \in Paths,
                      pc[p] = "next", ctx[p][t].state_loaded
      PROVE  LET c == ctx[p][t]  es == accepted[FileOf[t]] IN
             /\ c.total_entries = Len(es)
             /\ es # << >> => c.last_timestamp = es[Len(es)].timestamp
             /\ \A w \in Person : PlacedAt(es, Len(es), w, c.loc[w])
    BY DEF ContextCurrent
  <2>1. Active(p) /\ InStep BY <1>1 DEF Active, Quiet
  <2> QED BY <1>1, <2>1, LoadedAgrees DEF GoesOn
<1> QED BY <1>1, QuietInvariance, PTL

(* What a quiet run accepts is a history, if every log goes by one name; it need *)
(* not be one if two lines of a batch name a log differently (process_command).  *)
THEOREM CAcceptedAreLegal ==
  ASSUME NamesAreUnique PROVE Spec => []AcceptedAreLegal
<1>1. ASSUME IInv, Quiet PROVE AcceptedAreLegal
  <2> SUFFICES ASSUME disturbed = {}, NEW l \in Logs, NEW i \in 1..Len(accepted[l])
               PROVE  Follows(accepted[l], i-1, accepted[l][i])
    BY DEF AcceptedAreLegal, ValidLog
  <2> DEFINE f  == files[l]
             es == accepted[l]
  <2>1. /\ InStep /\ Sound(l) /\ Ordered(es) /\ f \in File /\ es \in Seq(Entry)
        /\ f.recs \in Seq(Rec) /\ Len(f.recs) \in Nat /\ Len(es) \in Nat /\ LinksHold(f.recs)
    BY <1>1, QuietTypes DEF Quiet, InStep, Chained
  <2>2. Founded(f) /\ InOrder(f, es)
    <3>1. es # << >> OBVIOUS
    <3> QED BY <2>1, <3>1 DEF Sound
  <2>3. ASSUME i <= Len(f.recs) PROVE Legal(es, i)
    <3> DEFINE fs == Entries(f.recs)
    <3>1. \A k \in 1..Len(f.recs) :
            /\ k \in 1..Len(es) /\ f.recs[k].body.text = es[k] /\ f.recs[k].seq = k
            /\ Linked(f.recs, k)
      BY <2>1, <2>2, InOrderEntries
    <3>2. \A k \in 1..Len(f.recs) : fs[k] = f.recs[k].body.text BY <2>1, EntriesOfRecs
    <3>3. /\ i \in 1..Len(f.recs) /\ i - 1 \in Nat /\ \A k \in 1..i : k \in 1..Len(f.recs)
          /\ \A k \in 1..(i-1) : k \in 1..Len(f.recs)
      <4> HIDE DEF f, es
      <4> QED BY <2>1, <2>3 DEF es
    <3>4. Legal(fs, i) BY <2>1, <3>1, <3>3 DEF LinksHold
    <3> HIDE DEF fs, f, es
    <3>5. fs[i] = es[i] /\ \A k \in 1..(i-1) : fs[k] = es[k] BY <3>1, <3>2, <3>3
    <3> QED BY <3>3, <3>4, <3>5, SamePrefix DEF Legal
  <2>4. ASSUME ~(i <= Len(f.recs)) PROVE Legal(es, i)
    <3>1. Len(f.recs) # Len(es) /\ i \in (Len(f.recs) + 1)..Len(es)
      <4> HIDE DEF f
      <4> QED BY <2>1, <2>4
    <3>2. Dirty(l) BY <2>1, <2>2, <3>1, FileKinds DEF Sound, Counted
    <3>3. PICK p \in Writers, t \in Paths :
            Active(p) /\ FileOf[t] = l /\ ctx[p][t].header_dirty
      BY <3>2 DEF Dirty
    <3>4. GoesOn(ctx[p][t], buf[p][t], f, es)
      <4>1. ctx[p][t].authenticated BY <1>1, <3>3, QuietTypes DEF Staged
      <4> QED BY <2>1, <3>3, <4>1 DEF InStep
    <3>5. ctx[p][t].state_loaded
      <4>1. Len(<< >>) = 0 OBVIOUS
      <4>2. Len(f.recs) + Len(buf[p][t]) = Len(es) BY <3>4 DEF GoesOn
      <4>3. buf[p][t] # << >>
        <5> HIDE DEF f, es
        <5> QED BY <2>1, <3>1, <4>1, <4>2
      <4> QED BY <1>1, <4>3, QuietTypes, NotLoaded
    <3> QED BY <1>1, <2>1, <3>1, <3>3, <3>5, LoadedAgrees
  <2>5. Legal(es, i) BY <2>3, <2>4
  <2>6. i - 1 > 0 => es[i].timestamp > es[i-1].timestamp
    <3>1. i - 1 > 0 => i \in 2..Len(es)
      <4> HIDE DEF es
      <4> QED BY <2>1 DEF es
    <3> QED BY <2>1, <3>1 DEF Ordered
  <2> QED BY <2>5, <2>6 DEF Follows, Legal
<1> QED BY <1>1, QuietInvariance, PTL

\* What a file in order holds is read down to any count that it reaches.
LEMMA InOrderReads ==
  ASSUME NEW f \in File, NEW es \in Seq(Entry), InOrder(f, es), Ordered(es),
         NEW h \in Header, h.key = f.header.key, h.text.total_entries <= Len(f.recs)
  PROVE  Reads(h, f)
<1> DEFINE m == h.text.total_entries
           n == Len(f.recs)
<1>1. m \in Nat /\ n \in Nat /\ n <= Len(es) /\ Len(es) \in Nat BY HeaderType, InOrderEntries
<1>2. ASSUME NEW i \in 1..m
      PROVE  /\ f.recs[i].seq = i
             /\ IF i = 1 THEN f.recs[i].prev_tag = NoTag ELSE Linked(f.recs, i)
             /\ decrypt_data(h.key, f.recs[i].body)
             /\ i > 1 => f.recs[i].body.text.timestamp > f.recs[i-1].body.text.timestamp
  <2>1. i \in 1..n /\ (i > 1 => i \in 2..Len(es) /\ i - 1 \in 1..n) BY <1>1
  <2>2. \A k \in 1..n : f.recs[k].body.text = es[k] BY InOrderEntries
  <2>3. /\ f.recs[i].seq = i /\ f.recs[i].body.key = f.header.key /\ Linked(f.recs, i)
        /\ i = 1 => f.recs[i].prev_tag = NoTag
    BY <2>1, InOrderEntries
  <2>4. i > 1 => f.recs[i].body.text.timestamp > f.recs[i-1].body.text.timestamp
    <3>1. i > 1 => es[i].timestamp > es[i-1].timestamp BY <2>1 DEF Ordered
    <3> QED BY <2>1, <2>2, <3>1
  <2> QED BY <2>3, <2>4 DEF decrypt_data
<1>3. n >= m BY <1>1
<1> QED BY <1>2, <1>3 DEF Reads

\* What a reader is refused for.
LEMMA RefusedFor ==
  ASSUME IInv, Quiet, Next, NEW r \in Readers,
         pc[r] \in {"header", "entries"}, pc'[r] = "refused", disturbed = {}
  PROVE  /\ pc[r] = "header"
         /\ \/ ~files[Log(r)].exists
            \/ BeingMade(Log(r))
            \/ /\ files[Log(r)].header # NoHeader
               /\ files[Log(r)].header.key.token # cmd[r].token
<1> DEFINE f == files[Log(r)]
           h == header[r]
           es == accepted[Log(r)]
<1>1. InStep /\ TypeOK /\ Working(r) /\ r \in Procs BY DEF Quiet, IInv, TInv, Procs
<1>2. PICK p \in Procs : StepOf(p) BY DEF Next, StepOf, Procs
<1>3. p = r BY <1>1, <1>2, OthersUntouched DEF Untouched
<1>4. ReadLog(r) BY <1>2, <1>3, CProcsAssumption DEF StepOf
<1>5. Log(r) \in Logs /\ h \in Header \cup {NoHeader} /\ cmd[r] \in Queries
  BY <1>1, CommandType DEF Working, Log, Path, TypeOK
<1>6. f \in File /\ es \in Seq(Entry) BY <1>5, QuietTypes
<1>7. ASSUME pc[r] = "entries" PROVE FALSE
  <2>1. ReadEntries(r) BY <1>4, <1>7 DEF ReadLog, Ask, ReadHeader
  <2>2. h \in Header BY <1>1, <1>7 DEF Working
  <2>3. Founded(f) /\ h.key = f.header.key /\ h.text.total_entries <= Len(f.recs)
    BY <1>1, <1>7 DEF InStep, WillRead
  <2>4. InOrder(f, es) /\ Ordered(es) BY <1>1, <1>5, <2>3, FileKinds DEF InStep, Sound
  <2>5. Reads(h, f) BY <1>6, <2>2, <2>3, <2>4, InOrderReads
  <2> QED BY <1>1, <2>1, <2>5, PcSet DEF ReadEntries
<1>8. CASE pc[r] = "header"
  <2>1. ReadHeader(r) BY <1>4, <1>8 DEF ReadLog, Ask, ReadEntries
  <2>2. ~(f.header # NoHeader /\ decrypt_data(gen_key(cmd[r].token, f.salt), f.header))
    BY <1>1, <2>1, PcSet DEF ReadHeader
  <2>3. Sound(Log(r)) BY <1>1, <1>5 DEF InStep
  <2>4. CASE f = NoFile BY <1>8, <2>4 DEF NoFile
  <2>5. CASE f = EmptyFile /\ \E w \in Writers : pc[w] = "create" /\ Log(w) = Log(r)
    BY <1>8, <2>5 DEF BeingMade
  <2>6. CASE Founded(f)
    <3>1. f.header \in Header /\ f.header # NoHeader /\ f.header.key.salt = f.salt
      BY <1>6, <2>6 DEF Founded, File
    <3>2. f.header.key \in Key BY <3>1, HeaderType
    <3>3. f.header.key = [token |-> f.header.key.token, salt |-> f.salt]
      BY <3>1, <3>2 DEF Key
    <3>4. f.header.key.token # cmd[r].token
      BY <2>2, <3>1, <3>3 DEF decrypt_data, gen_key
    <3> QED BY <1>8, <3>1, <3>4
  <2> QED BY <2>3, <2>4, <2>5, <2>6 DEF Sound
<1> QED BY <1>7, <1>8

(* In a quiet run a reader is refused only where there is no log, or one that is *)
(* just being made, or for its token, if logs go by one name: whatever the writer *)
(* is at, the header counts what is already in the file (run_batch, append_log,  *)
(* logread).                                                                      *)
THEOREM CReaderServed ==
  ASSUME NamesAreUnique PROVE Spec => ReaderServed
<1>1. IInv /\ Quiet /\ [Next]_vars =>
        [\A p \in Readers :
           pc[p] \in {"header", "entries"} /\ pc'[p] = "refused" /\ disturbed = {} =>
             LET f == files[Log(p)] IN
             /\ pc[p] = "header"
             /\ \/ ~f.exists
                \/ BeingMade(Log(p))
                \/ f.header # NoHeader /\ f.header.key.token # cmd[p].token]_vars
  BY RefusedFor
<1> QED BY <1>1, QuietInvariance, PTL DEF ReaderServed, Spec
================================================================================
