SPECIFICATION Spec
CONSTANTS
  Person = {alice, bob, carol}
  Room = {r1, r2}
  NoRoom = NoRoom
  Absent = Absent
  MaxTs = 5
  Nowhere = Nowhere
  NoHistory = NoHistory
INVARIANT IntersectionAsDocumented
SYMMETRY Symmetry
CONSTRAINT Dense
CHECK_DEADLOCK FALSE
