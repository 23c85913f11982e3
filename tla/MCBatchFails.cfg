SPECIFICATION Spec
CONSTANTS
  Person = {alice}
  Room = {r1}
  NoRoom = NoRoom
  Absent = Absent
  MaxTs = 5
  Singles = {}
  Batches = {b1}
  Readers = {rd}
  Logs = {l1}
  Keys = {k1, k2}
  Commands <- SafetyCommands
  Queries <- SafetyQueries
  CanFail = {b1}
  CanCrash = {}
  MaxLines = 3
  NoLog = NoLog
  NoCache = NoCache
  NoCmd = NoCmd
  NoAnswer = NoAnswer
  alice = alice
  r1 = r1
  l1 = l1
  k1 = k1
  k2 = k2
INVARIANT IntegrityMeansBroken
CHECK_DEADLOCK FALSE
