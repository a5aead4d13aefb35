CONSTANTS
  Ids = {"k1", "k2", "k3"}
  NoFilter = NoFilter
  Filters = {NoFilter, "fk"}
  Owners = {NoFilter, "alice"}
  ServerList <- MCServerList
  OwnedBy <- MCOwnedBy
  HistId = "k1"
  HistList <- MCHistList
  Limit = 1
  PerPage = 1

SPECIFICATION Spec
CONSTRAINT FetchBound
INVARIANT HistRowsExact
