CONSTANTS
  Tokens = {"t1", "t2"}
  Subjects = {"alice", "bob"}
  SubjectOf <- MCSubjectOf
  Malformed = {"t2"}
  None = None
  MaxRequests = 5

SPECIFICATION Spec
INVARIANTS TypeOK LoadedImpliesBuilt
