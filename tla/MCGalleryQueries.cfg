SPECIFICATION Spec
CONSTANTS
  Person = {alice, bob, carol}
  Room = {r1, r2}
  NoRoom = NoRoom
  Absent = Absent
  MaxTs = 9
  Nowhere = Nowhere
  NoHistory = NoHistory
INVARIANTS TypeOK IntersectionExact HistoryMeetsIntersection OccupancyMatches JavaIntersectionExact AnswersAgree
SYMMETRY Symmetry
CONSTRAINT Dense
CHECK_DEADLOCK FALSE
