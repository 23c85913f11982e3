SPECIFICATION FairSpecR
CONSTANTS
  Person = {alice}
  Room = {r1}
  NoRoom = NoRoom
  Absent = Absent
  MaxTs = 2
  Singles = {}
  Batches = {b1, b2}
  Readers = {rd}
  Logs = {l1, l2}
  InLogsDir = {l1}
  Keys = {k1}
  Commands <- TwoLogCommands
  Queries <- TwoLogQueries
  CanFail = {}
  CanCrash = {b1}
  MaxLines = 2
  NoLog = NoLog
  NoCache = NoCache
  NoCmd = NoCmd
  NoAnswer = NoAnswer
  alice = alice
  r1 = r1
  l1 = l1
  l2 = l2
  k1 = k1
INVARIANTS TypeOKR ReadableIsHistory CleanReset
PROPERTY Termination
CHECK_DEADLOCK FALSE
