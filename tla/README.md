# Gallery Log: models, checks and proofs

The repository holds three independent implementations of one system, a tamper-evident
log of who enters and leaves an art gallery and its rooms, each with a program that
appends (`logappend`) and one that queries (`logread`):

- **Rust**, `src/gallery-log`: the repository's main program;
- **C**, `src/G21/proj1SRSD`;
- **Java**, `src/G01/SRSD_GalleryLog`.

They share the domain (persons, rooms, timestamps, which entry may follow which) and
differ in everything a model checker is good at: locking, what is cached, how many writes
an append takes, what happens when a process dies half way, how queries are computed.

## Inventory

| Part | State | Operations | Hard behaviour | What makes it correct |
|---|---|---|---|---|
| Gallery state machine (`lib.rs` 195-246; `GalleryStateMachine.java`; `process_command` in `logappend.c`) | place of every person, last timestamp | `apply` an entry, replay a log | long sequences of legal entries, limits of timestamps | refuses exactly what may not follow the log |
| Rust `logappend` / `logread` (`bin/*.rs`, `lib.rs` 145-193, 361-392) | log file, `.lock` file, and in a batch: lock, replayed state, last hash | single append, batch of lines, query | processes interleave; a process is killed or an append fails at any step; cache carried across lines; two locks in a batch | load, validation and append are one critical section; cache equals file; every log replays; acknowledged entries stay; nobody waits for ever |
| Rust queries (`lib.rs` 250-359) | accumulators of one pass | `-S`, `-R`, `-I` | visits that have not ended, largest timestamp, three and more persons | answers equal what the log says |
| C `logappend` and its log (`logappend.c`) | encrypted header (count, last timestamp, last tag), chained entries, one context per log in a batch, stdio buffers | create, authenticate, load, append, rewrite the header, exit from a batch | no lock; entry and header are two writes; buffered writes; creation by truncating open; unchecked `fclose`; `exit` in mid-batch | a reader gets a history or nothing; header and entries agree when all is quiet |
| C queries (`logread.c`) | table of persons with visits | `-S`, `-R`, `-I` | visits inferred from changes of room; greedy search for a common window | answers equal what the log says |
| Java `LogAppend` / `LogRead` | header with a salt, records chained by hash; nothing is kept between lines | create, load, append, query | no lock; check-then-create; reader or writer that meets a half-made file | created once; append-only; what loads is a history |
| Java queries (`GalleryQuery.java`) | interval lists | `-S`, `-R`, `-I` | merging of intervals | answers equal what the log says, and what Rust answers |
| Argument parsing (`parse_args` of Rust and C, `main` of `logread.c`, `AppendArgs.java`, `ReadArgs.java`) | options found so far | one word of the command line | repeated options, values validated at once or at the end, the two passes of the C `logread` | a `logappend` line means one entry to all that accept it; where `logread` lines mean different queries is known exactly |
| `reset.sh` | files still to be removed | removes logs and lock files | runs beside the programs, takes no lock | what still loads is a history; harmless when nobody has a removed log's lock file open |
| Cryptography | none | pure functions | | assumed perfect: what is sealed under a key opens under that key only |
| Formatting, scripts, containers | none | | | not modelled (see below) |

The components meet only in files: the log, and in Rust the `.lock` companion that
`flock` is called on. There are no threads, messages or callbacks; a process is a
sequential program and the interleaving is that of processes on a file system. The full
list of hazards, each with its line and the properties aimed at it, is in `PROJECT.json`.

## Modules

| Module | Models | Remarks |
|---|---|---|
| `Gallery` | entries, places, `GalleryState::apply` as `CanApply`/`Applied`; `ValidLog`, `PlacedAt`, `Computes`: what a log says *without replaying it*; `Those`, the elements of a sequence that are in a set | shared by all modules but `Arguments` |
| `Ledger` | abstract specification: an append-only sequence of entries, one token per log, each entry legal when appended | what the Rust programs promise together |
| `GalleryLog` | Rust `logappend`, `logappend -B`, `logread` | refines `Ledger` |
| `GalleryReset` | `GalleryLog` beside `reset.sh`, with lock files that can be removed while they are open | extends `GalleryLog`, whose actions it reuses for all but the lock |
| `GalleryQueries` | Rust `rooms_occupancy`, `room_history`, `intersection_query` | a step takes one more entry through the loops of all three |
| `JavaQueries` | Java `queryState`, `queryRoomHistory`, `queryIntersection` and the interval lists under it | operators on a log |
| `QueryAgreement` | the Java queries on the logs of `GalleryQueries` | composes the two; states what they share |
| `CLog` | C `logappend` (single and batch) and the loading half of `logread` | |
| `CQueries` | C `process_line`, `print_state`, `print_rooms_visited`, `check_simultaneous`, `print_intersection` | |
| `FragileLedger` | abstract specification: as `Ledger`, but a log may be lost, for good | what a program without locks promises |
| `JavaLog` | Java `LogAppend` (single and batch), `LogFile`, `LogRead` | refines `FragileLedger` |
| `Arguments` | the six command-line parsers, side by side | |
| `Gallery_proofs` | lemmas about `Gallery`, induction, recursive functions | used by all proofs but those of `Arguments` |
| `GalleryLog_proofs`, `GalleryReset_proofs`, `GalleryQueries_proofs` (with `JavaQueries` and `QueryAgreement`), `CLog_proofs`, `CQueries_proofs`, `JavaLog_proofs`, `Arguments_proofs` | theorems about the module they are named after | see *Proofs* |
| `MC*` | instances for TLC | |

### Gallery

A person is a (type, name) pair, the key of the two hash maps together. `Place` is a room,
`NoRoom` (in the gallery, in no room: `Some(None)` in the map) or `Absent` (no key). `From`
and `To` are the four arms of the `match` in `apply`. `PlacedAt(es, n, w, pl)` finds a
person by looking for the last entry about them, so that the replay in the code is
compared with something that does not replay.

### GalleryLog (Rust)

One process constant per kind of invocation: `Singles`, `Batches`, `Readers`. `pc` follows
`run_single`, `run_batch` and `main` of logread: `next` (take a command; off the cached log,
drop lock and cache first, `logappend.rs:154-156`), `lock`, `read`, `scan` (one record per
step, `load_log`), `replay` (one entry per step, `compute_state`), `apply`, `append`, `answer`.
`BadLine` is a line `parse_args` refuses. `IoError` is a lock or log that cannot be opened.
`Apply` changes the state *before* the append, as both callers do; `AppendFails` leaves none or
some of the bytes; `Crash` may come anywhere, in the append with any part of the record out. `SnapshotCurrent` follows the
critical section to its end: up to `replay` the buffer is compared with the file, at `apply` the state and hash that came of it,
at `append` the hash and the entry, which must still fit.
A lock belongs to a process (`held`) and goes when the process ends, as `flock`'s does.

A file is its readable records and a flag for a fragment behind them; what is written behind a
fragment cannot be parsed and is dropped. MAC and cipher are perfect; a hash is the sequence of
contents it stands for. `acked`, `answer` and `outcome` record history for the properties.

### GalleryReset (Rust and `reset.sh`)

`flock` locks the file that `open` returned. As long as nobody removes lock files that is the log's one lock
file, and `GalleryLog` takes the lock in one step; here `OpenLock` (which creates the file if it has no name any
more) and `Flock` are two steps, a process holds a numbered lock file (`fd`), and only processes with the *same* one
exclude each other (`FreeFile`). `ResetStart` is the expansion of the glob, `Remove` one round of the loop; nothing makes
the script finish. Reading or writing a log by name happens on what has that name at that moment. `met` records that a file
was removed while somebody had that log's lock file open. Refused lines and failing calls are left to `GalleryLog`.

### GalleryQueries, JavaQueries, QueryAgreement and CQueries

State is the log so far and the accumulators of the code; the answers are operators on them
("as if the log ended here"). Properties compare the answers with `Together`, which reads the log
entry by entry. Output formatting and sorting are left out. The Java program works on the whole log at once, so
`JavaQueries` is operators on it: `intervalsInRoom` looks for the departure of each arrival. `mergeIntervals` says which
intervals the loop of the code leaves, without the loop: each begins with an interval that starts after all earlier ones
have ended, and ends with the latest end before the next such start. `MCGalleryQueries` has the loop itself (`MergeLoop`), and
its assumption `MergesAsTheLoop` compares the two on all sets of up to three intervals within five moments.
`QueryAgreement` evaluates the queries on every log `GalleryQueries` builds. Its
`AnswersAgree` says where the two programs agree, and so also where they need not: about persons in no room (Rust
ignores them, see `MCIgnoredTarget`; Java reports nothing) and about visits that begin at the largest timestamp.

### CLog (C)

No lock, so every access to the file is a step of its own: `Authenticate` (read salt and header),
`OpenNew` (`fopen "wb"`, truncates), `WriteNew` (salt and header go out at `fclose`), `Load`, `Reject`,
`AppendLog` (the entry is in stdio's buffer and the context is advanced), `Flush` (at `fclose`, `exit`
or when the buffer is full), `UpdateHeader`, `Exit`. A batch keeps its context and buffer from line
to line and comes to `UpdateHeader` only at the end of its file; `Abort` is an `exit(111)` in between.
`disturbed` is a history variable that says which of overlap, abort, failure or crash has happened, so
that properties about quiet operation can say so. A context belongs to a *path*, and `FileOf` says which file a path
names: `get_context` compares spellings. Keys seal headers and entries (`crypt`), and `decrypt` opens
what was sealed under the same key.

`OpenNew` and `WriteNew` are apart, so there is a moment (`BeingMade`) at which the log is there and has no header, and a
reader is refused; `ReaderServed` names it. What comes behind a truncation can end up in a file that has no salt: `Put` says
what becomes of an entry there, and `UpdateHeader` either finds nothing to read or takes the entry's bytes for the salt.

Abstractions: a batch's buffer goes out entry by entry (a block boundary inside an entry shows only as
the fragment a crash leaves); an entry short enough to be overwritten as a whole by salt and header is not told from one
that went out before the file was opened anew (the file is the same); header, and all entries, are each read in one step; the order in which
the contexts of several logs are closed is free; the salt of a log and the tag of an entry are named by
the process that made them; out-of-memory paths are left out.

### JavaLog (Java)

`Check` (`Files.exists`), then `Create` (`CREATE_NEW`: atomic, the file is empty until closed) and `Fill`, or
`Load` (one `readAllBytes`, chain, replay, new event) and `AppendRec`. A batch starts from `Check` on every
line and keeps nothing. `FillFails`, `AppendFails` and `Crash` leave nothing, part of the bytes or *all* of them: a process can be
killed after its last write and before its report, and `close()` can throw when everything is out, which the program reports
as `Invalid.` The refinement mapping takes a log
to the entries it loads as, or to `Lost`: a chain that two writers forked and a fragment are both for good, because nothing
is ever removed.

### Arguments (all programs)

A state holds what each of the three parsers of a program has after the same words; every word is one step of all of them, and
the line may end in any state, so the properties are about lines of *any* length. What the command line ends as is an
operator (`AppendsC`, `AsksJava`, ...). Words are classes: a constant set for each check the code makes. The C
`logread` has its two passes, `Counted` and `AskedC`; `PersonsC` puts them together. `direct` is a history variable: the
persons right after the first `-I`, and `ReadLinesAgree` compares them both with what C asks about and with what Rust does. A word `-B` is left to `main`: the C programs look for it anywhere in the line.

## Runs

| Run | Instance | Shows |
|---|---|---|
| `MCGalleryLog` | 2 singles, 1 batch of 2 lines, 1 reader, 1 log, 2 tokens; all writers may be killed, singles may fail | the Rust safety properties and the refinement of `Ledger` |
| `MCReset` | 2 batches of 2 lines over 2 logs, one of them killed anywhere, 1 reader, `reset.sh` on one log; fair processes | nobody waits for ever; a reset may break the exclusion, and still no log that loads is anything but a history; a reset that meets nobody leaves every log a chain |
| `MCBatchFails` | 1 batch of 3 lines whose append may fail | **violated**: after a failed append the batch goes on from a state the file does not have, and writes a log that is later called an integrity violation |
| `MCGalleryQueries` | 3 persons, 2 rooms, logs up to 9 entries | Rust queries are exact and agree; Java's `-I` is exact; Rust and Java give the same answers |
| `MCIgnoredTarget` | same, up to 5 entries | **violated**: a person in the log but in no room is ignored by `-I`; the doc comment ignores only persons not in the log |
| `MCCLog` | 1 single that may fail, 1 batch of 2 lines that may be killed, 1 reader, 2 tokens | C: answers are histories; undisturbed logs load; batch contexts are current; what is accepted is legal; beside one writer a reader with the right token is served, except while the log is being made |
| `MCCBatchAborts` | same without failures | **violated**: a nested `-B` ends the batch with entries written and headers not |
| `MCCTwoNames` | 1 batch of 2 lines, one log with two names | **violated**: a batch that spells a path in two ways accepts what may not follow |
| `MCCQueries` | 3 persons, 2 rooms, logs up to 8 entries, queries of up to 3 names | C visit table, `-S` and `-R` are right; `-I` never reports too much, and is complete for two persons |
| `MCGreedyWindow` | 3 persons, 1 room, logs up to 8 entries | **violated**: greedy window misses a room that three persons shared |
| `MCJavaLog` | 2 singles (one may fail, one may be killed), 1 batch of 2 lines, 1 reader, 2 tokens | Java: created once, append-only, what loads is a history, refusals are justified, a reader is served; refines `FragileLedger` |
| `MCCArgs` | 2 names, 3 numerals (0, 1, one too large), a path, a word that passes no check, all flags; up to 3 persons on a line | a `logappend` line that several programs accept means one entry to all, and what the C one accepts the others accept; a `logread` line means one query, but for `-I` of C, which is about the persons right after the `-I`: its two passes agree on those |

### Bounds

- *One visitor and one log* in the file-level runs: the state machine treats persons and the programs
  treat logs independently; `MCGalleryLog` has a visit in three
  commands that is legal in one order only (so that a lost, repeated or forked append shows at once),
  and an arrival with another token. Its timestamps are 1, 3 and 5 = `MaxTs`: the last entry carries the largest. `MCReset`
  has two logs because that is where waiting in a circle could come from, and the script empties one of them, so that a batch
  comes from a log that is not reset to one that is.
- *`MaxLines`* (lines in a batch file) is 2 or 3: one line to fill the cache and one or two to use it.
- *`MaxTs`* bounds timestamps and, as these increase, the length of logs. In the query runs
  `Dense` fixes timestamps to the position in the log (only their order matters); in `MCGalleryQueries`
  the last entry is free, so that it can carry the largest timestamp. Eight entries are what it takes to have
  three persons arrive and one of them visit a room twice beside the others.
- *`FewValues`, `FewNames`, `MaxNames`* in `MCCArgs` keep the words stored in one place to a few of each class; the number
  of words on a line is not bounded.
- Persons and rooms are symmetric where no definition tells them apart; single processes are symmetric
  in `MCGalleryLog`, which checks no liveness property.
- Deadlock is not checked: every process and every command line ends, and a terminated system has no step.

### Fairness

`FairSpecR` of `GalleryReset` is weak fairness of `WorkR(p)` (`FairSpec` of `GalleryLog`: `Work(p)`), what a process does of its own accord: the
operating system runs every process. Errors (`IoError`, `AppendFails`) and `Crash` may happen and never
have to: were they fair, an error would let a process out of any wait. A process that waits in `flock` has no step until the lock is free; weak fairness is
enough in `MCReset` because every process takes the locks it needs a bounded number of times.
No other module states fairness or liveness: the C and Java programs wait for nothing.

## Proofs

The theorems are checked by TLAPS for all values of the constants: any number of processes, logs, tokens, persons, rooms and
words, any commands, any bound on lines, timestamps and names. Each but the refinements and action properties has the form
`Spec => []P` for a `P` that a run checks too.

| Module | Theorem | Statement |
|---|---|---|
| `GalleryLog_proofs` | `TypeCorrect` | `Spec => []TypeOK` |
| | `SnapshotsAreCurrent` | what is scanned, replayed, answered from, validated against and linked to is the file as it is at that moment |
| | `CachesAreCoherent` | what a batch carries over is what the file says |
| | `LogsReplay` | every log is one chain, under one token, of entries each legal when written |
| | `AcknowledgedIsDurable` | an acknowledged entry is readable for ever |
| | `AlarmsAreTrue` | `integrity violation` means a fragment, a broken link or another token |
| | `RefusalsAreJustified` | the state machine refuses only what may not follow the log on disk |
| | `Refinement` | `Spec => ImplementsLedger`, every step of the programs is a step of the ledger or none |
| `GalleryReset_proofs` | `ResetTypeCorrect` | `SpecR => []TypeOKR` |
| | `ResetReadableIsHistory` | what loads is a history, although a reset may let several writers into a log |
| | `ResetClean` | a reset that removes no lock file somebody has open leaves every log a chain that replays, and nobody with an old one |
| `JavaLog_proofs` | `JavaTypeCorrect` | `Spec => []TypeOK` |
| | `JavaReadableIsHistory` | what loads, and every answer, is of a history, although nobody excludes anybody |
| | `JavaAppendOnly` | no step takes away or changes a record |
| | `JavaRefinement` | `Spec => ImplementsFragileLedger`, whole records that were never reported included |
| | `JavaCleanLogReads` | a log nobody was disturbed in writing loads, with all that was accepted |
| | `JavaRefusalJustified`, `JavaReaderServed` | an undisturbed writer is refused only for an entry that may not follow, or a wrong token; an undisturbed reader with the right token is answered |
| `CLog_proofs` | `CTypeCorrect` | `Spec => []TypeOK` |
| | `CAnswersAreHistories` | what a reader answers is a history, whatever overlaps, fails or is killed |
| | `CCleanLogLoads` * | undisturbed, header and entries agree when nobody is at work |
| | `CContextCurrent` * | undisturbed, a batch's context agrees with all that was accepted |
| | `CAcceptedAreLegal` * | undisturbed, what is accepted is a history |
| | `CReaderServed` * | a reader beside one undisturbed writer is refused only if there is no log yet, it is just being made, or the token is wrong; after the header it is answered |
| `GalleryQueries_proofs` | `QueryTypeCorrect` | `Spec => []TypeOK` |
| | `QueryOccupancy`, `QueryHistory` | Rust `-S`, the unfinished visits of `-I`, and `-R` say where the log puts everybody; the rooms of `-R` are those of `-I` |
| | `QueryIntersection` | Rust `-I` is exact, for any set of persons |
| | `JavaQueryIntersection` | Java `-I` is exact, for any persons in any order |
| | `QueryAnswersAgree` | Rust and Java answer alike |
| `CQueries_proofs` | `CQueriesTypeCorrect` | `Spec => []TypeOK` |
| | `CVisitsMatchPlaces`, `CStateMatchesLog`, `CHistoryComplete` | the visit table, `-S` and `-R` say what the log says |
| | `CIntersectionSound` | `-I` never reports too much, for queries of any length |
| | `CPairsComplete` | `-I` misses nothing when the log names at most two of those asked about |
| `Arguments_proofs` | `ArgumentsTypeCorrect` | `Spec => []TypeOK` |
| | `AppendLinesMeanOneThing` | a `logappend` line that several programs accept is one entry to them |
| | `ReadLinesCompared` | what a `logread` line means to two programs that accept it: one query, or for `-I` of C the run of persons right after the `-I` |

Three hypotheses appear, and each is needed:

- All of `GalleryLog_proofs` but `TypeCorrect` assume that appends of *batches* do not return errors
  (`CanFail \cap Batches = {}`); without it they are false, which is what `MCBatchFails` shows. Singles may fail, and everybody
  may be killed, at any step. `GalleryReset` has no failing appends, so its theorems need no hypothesis.
- The theorems marked * assume `NamesAreUnique`, that no log goes by two paths; `MCCTwoNames` shows `AcceptedAreLegal` to be
  false otherwise. That they speak of undisturbed runs is part of the properties (`disturbed = {}`), not of the hypothesis.
- The assumptions on constants are those the modules state: kinds of processes are disjoint, commands and queries are well
  typed, `FileOf` maps paths to logs, and the values that stand for `null`, `None` or `not there` are not among the values
  they stand beside (`PlaceAssumption`, `NullsAssumption`, `JNullsAssumption`, `QNullsAssumption`, `CNullsAssumption`,
  `CHeaderAssumption`, `CQueryNullsAssumption`). `MaxAsked` and `MaxNames` are natural numbers. No theorem assumes a set of
  processes, logs, persons or words to be finite.

### The arguments

**`Gallery_proofs`.** `Applied` takes `Computes(st, es, n)` to the log with one more entry, and `CanApply` decides `Follows`.
Also the induction the others use: tlapm cannot instantiate the library's induction theorems, which take an operator, but
`NatSetInduction` is induction by a *set*, from the well-foundedness of `<`. With it `StepwiseExists` shows that a function
defined step by step exists, which is what a recursive function needs before anything can be proved about it; `ThoseNext` and
`ThoseElements` are instances.

**`GalleryLog`.** One inductive invariant. Its parts, in the order they need each other: *mutual exclusion* (two
processes hold one lock only if both read; whoever is between `read` and `append` holds the lock of its log);
*snapshot* (the bytes read are the file while the lock is held, which needs mutual exclusion); *scan* (the prefix
scanned is a chain under the process's key with `last_hash` its hash) and *replay* (the state is what the prefix
replayed says, by `Computes`); *ready* (at `apply` and `append`, state and hash are those of the whole file, from the
end of the replay or from the cache); *cache* (the same between lines); and the log invariant itself, which a step
disturbs only in `append`, where *ready* says that the new record continues the chain and its entry may follow.

**`GalleryReset`.** Locks may exclude nobody, so the snapshot argument is gone. What is left: a process goes by the contents its
last hash names, the state it has is the state of those contents, and a record it writes names them. A record that landed on
other contents breaks the chain, and does not load. For `CleanReset` the invariant says that while no file was removed under
anybody's feet (`~met`) an open lock file is the one with the log's name, so that `Flock` is the `Lock` of `GalleryLog`, whose
invariant then holds.

**`JavaLog`.** Nobody excludes anybody, but files only grow: what a process loaded is still the beginning of the file when it
appends (`Extending`). A hash is used once (`UsedOnce`), so a record names one predecessor; if that stands right before it,
the file has at that place what its writer loaded, and the record may follow (`LinksHold`). Hence a chain is a history. A
file that is being filled is empty and has one founder (`Founding`). The mapping to `FragileLedger` takes an append that
links to `Commit`, reported or not, and one that does not, or that leaves a fragment, to `Lose`. The undisturbed cases rest on `Undisturbed`:
one writer is at work, what it found out is still so, and a log loads as what was accepted.

**`CLog`.** A tag goes out once: it is drawn by one writer for one entry, and what is in files, buffers and contexts under it is that
entry (*settled*, *pending* or still *drawn*). The invariant follows, for every context, the one log its next entry would fit on:
when a file is that log, the context's places are the file's. As an entry names its place and its predecessor, one that
does fit may follow (`LinksHold`), and what a reader loads is a history. The second half is about quiet runs: one writer is at work at a time; the entries in
a file followed by those in its writer's buffer are those accepted; the header counts the entries in the file unless the
context is dirty, and never more.

**`GalleryQueries` and `QueryAgreement`.** A visit is a stretch of the log over which its person is in its room (`ClosedSound`,
`OpenSound`), and every moment in a room belongs to a visit (`Covered`). `overlaps()` tests pairs; from the latest of the
entries on, everybody is there. Java has no accumulators. A list of intervals is compared by the moments it covers
(`Covers`): merging keeps them (`MergeCovers`), intersecting two lists gives the common ones (`IntersectCovers`), and
`NarrowsCovers` carries that through the loop over the persons. A visit of Java covers its own end, at which the person has
left; but the latest arrival among overlapping visits is never anybody's departure, as timestamps differ
(`NonEmptyIffTogether`).

**`CQueries`.** A visit spans moments (`Spans`), only the last may lack an end, every moment in a room belongs to one, and the visits
are the arrivals in order (`Those`). The window of `-I` only ever holds moments shared by everybody looked at so far;
for two persons, two visits with a common moment meet.

**`Arguments`.** Parsers of `logappend` that have refused nothing hold the same, and C has checked what it has. For `logread` the
first pass of C counts what the second fills in, in step with `direct`, the persons right after the first `-I`, which are a run of the
persons of the whole line (`RunOfAll`); too many
persons before it are the only reason for which C refuses what Java takes.

### Only model-checked

`Termination` of `GalleryReset` (liveness under fairness, out of the prover's reach), `MergesAsTheLoop` (the loop sorts and folds;
tlapm can expand neither `FoldLeft` nor `SelectSeq`, which is why `Those` and the recursive functions of `JavaQueries` stand in
their place), and the five violations. Every invariant and action property of a passing run is a theorem.

## Divergences without a run

Met while modelling; each is a difference from a document or between the programs that needs no model to be seen.

- The C `logread` returns 0 on the error paths through `cleanup_names` (`logread.c:1046-1051`); its comment (`logread.c:787`)
  says 111 on error.
- Rust `-R` lists a room again at every visit (`lib.rs:271-278`); `README.markdown:270` says "in order of first visit" and
  `README.markdown:356` "distinct rooms, no duplicates". No property asks for either.
- The C `logread` asks about the persons right after `-I` only (`logread.c:860-871`): `-I -E a log -E b` is a query about `a`,
  `-E a -I -E b log` one about `b`, and to Rust both are queries about both persons; `logread.c:631` speaks of "all specified
  people". `ReadLinesAgree` states what the program does: the persons after `-I`, in order and nobody between them, and the
  same query as Rust for every other mode.
- `logappend.c` cuts a token to 255 characters (`logappend.c:799`), `logread.c` does not.
- `print_intersection` decides about commas before it drops duplicates (`logread.c:729`): `1,2,` for rooms 2, 1, 2.
- Java `-S` puts an employee and a guest of one name into one name of the list (a `TreeSet` of names).
- When the C table of persons cannot grow, a newcomer is written to the log and forgotten (`logappend.c:876`).

## Not modelled

What the cryptographic primitives compute (arithmetic on bytes; perfect by assumption), the lengths of names, tokens and
paths, output formatting, out-of-memory paths, containers and demo scripts, the documents and scripts about attacks on other
groups' programs.

## Plan

1. *Prove*: what `FragileLedger` itself promises (once lost, lost for good; entries are never rewritten) as theorems about it,
   and the same for `Ledger`, so that each refinement carries its consequences; that the C and the Java `-S` list the same
   persons as the Rust one, from `CStateMatchesLog` and `QueryAnswersAgree`; for the C `-I` a weaker hypothesis than two
   persons under which nothing is missed (nobody visits the room twice).
2. *Extend*: entries and headers of the C log read block by block rather than in one step.
