SPECIFICATION Spec
CONSTANTS
  Person = {alice, bob, carol}
  Room = {r1}
  NoRoom = NoRoom
  Absent = Absent
  MaxTs = 8
  Unknown = Unknown
  Open = Open
  Shut = Shut
  MaxAsked = 3
  alice = alice
  bob = bob
  carol = carol
  r1 = r1
  r2 = r2
INVARIANT IntersectionComplete
SYMMETRY Symmetry
CONSTRAINT Dense
CHECK_DEADLOCK FALSE
