SPECIFICATION Spec
CONSTANTS
  Person = {alice}
  Room = {r1}
  NoRoom = NoRoom
  Absent = Absent
  MaxTs = 5
  Singles = {s1, s2}
  Batches = {b1}
  Readers = {rd}
  Logs = {l1}
  Keys = {k1, k2}
  Commands <- SafetyCommands
  Queries <- SafetyQueries
  CanFail = {s1, s2}
  CanCrash = {s1, s2, b1}
  MaxLines = 2
  NoLog = NoLog
  NoCache = NoCache
  NoCmd = NoCmd
  NoAnswer = NoAnswer
  alice = alice
  r1 = r1
  l1 = l1
  k1 = k1
  k2 = k2
INVARIANTS TypeOK SnapshotCurrent CacheCoherent LogReplays Durable IntegrityMeansBroken
PROPERTIES RefusalJustified ImplementsLedger
SYMMETRY SingleSymmetry
CHECK_DEADLOCK FALSE
