CONSTANTS
  Tokens = {"t1", "t2"}
  Subjects = {"alice", "bob"}
  SubjectOf <- MCSubjectOf
  Malformed = {}
  None = None
  MaxRequests = 5

SPECIFICATION Spec
INVARIANT AuthMatchesToken
