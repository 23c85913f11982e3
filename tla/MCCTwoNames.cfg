SPECIFICATION Spec
CONSTANTS
  Person = {alice}
  Room = {r1}
  NoRoom = NoRoom
  Absent = Absent
  MaxTs = 3
  Singles = {s1}
  Batches = {b1}
  Readers = {rd}
  Logs = {l1}
  Paths = {path, other}
  FileOf <- TwoNames
  Tokens = {k1, k2}
  Commands <- NameCommands
  Queries <- AllQueries
  CanFail = {}
  CanCrash = {}
  MaxLines = 2
  NoSalt = NoSalt
  NoHeader = NoHeader
  NoTag = NoTag
  NoKey = NoKey
  NoCmd = NoCmd
  NoAnswer = NoAnswer
  alice = alice
  r1 = r1
  l1 = l1
  path = path
  other = other
  k1 = k1
  k2 = k2
INVARIANT AcceptedAreLegal
CHECK_DEADLOCK FALSE
