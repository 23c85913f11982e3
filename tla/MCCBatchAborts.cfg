SPECIFICATION Spec
CONSTANTS
  Person = {alice}
  Room = {r1}
  NoRoom = NoRoom
  Absent = Absent
  MaxTs = 3
  Singles = {s1}
  Batches = {b1}
  Readers = {rd}
  Logs = {l1}
  Paths = {path}
  FileOf <- OneName
  Tokens = {k1, k2}
  Commands <- RaceCommands
  Queries <- AllQueries
  CanFail = {}
  CanCrash = {}
  MaxLines = 2
  NoSalt = NoSalt
  NoHeader = NoHeader
  NoTag = NoTag
  NoKey = NoKey
  NoCmd = NoCmd
  NoAnswer = NoAnswer
  alice = alice
  r1 = r1
  l1 = l1
  path = path
  other = other
  k1 = k1
  k2 = k2
INVARIANT BatchUpdatesHeaders
CHECK_DEADLOCK FALSE
