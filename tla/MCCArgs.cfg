SPECIFICATION Spec
CONSTANTS
  Words <- MCWords
  Alpha = {"ann", "bob"}
  Alnum = {"ann", "bob", "0", "1", "9"}
  PathC = {"ann", "bob", "0", "1", "9", "a/b"}
  PathJava = {"ann", "bob", "0", "1", "9", "a/b", "-T", "-K", "-E", "-G", "-R", "-A", "-L", "-S", "-I", "-B"}
  Dashed = {"-T", "-K", "-E", "-G", "-R", "-A", "-L", "-S", "-I", "-B"}
  Value <- MCValue
  MaxInt = 8
  MaxU32 = 16
  MaxNames = 3
  None = None
  Refused = Refused
INVARIANTS TypeOK AppendLinesAgree ReadLinesAgree
CONSTRAINTS FewValues FewNames Alive
CHECK_DEADLOCK FALSE
