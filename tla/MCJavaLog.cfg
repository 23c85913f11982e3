SPECIFICATION Spec
CONSTANTS
  Person = {alice}
  Room = {r1}
  NoRoom = NoRoom
  Absent = Absent
  MaxTs = 3
  Singles = {s1, s2}
  Batches = {b1}
  Readers = {rd}
  Logs = {l1}
  Tokens = {k1, k2}
  Commands <- AllCommands
  Queries <- AllQueries
  CanFail = {s1}
  CanCrash = {s2}
  MaxLines = 2
  NoSalt = NoSalt
  NoHash = NoHash
  NoCmd = NoCmd
  NoAnswer = NoAnswer
  Lost = Lost
  alice = alice
  r1 = r1
  l1 = l1
  k1 = k1
  k2 = k2
INVARIANTS TypeOK ReadableIsHistory CleanLogReads
PROPERTIES AppendOnly RefusalJustified ReaderServed ImplementsFragileLedger
CHECK_DEADLOCK FALSE
