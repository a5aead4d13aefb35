\* The grant lists and probes of both questions: the cache and the calls
\* over the pool of nine patterns, and the compiled engine against the glob
\* reference over every short segment.  The engine is compared on the
\* initial states, and grants is shown never to change after.
CONSTANTS
  Chars = {"a", "b"}
  NotString = NotString
  GrantLists <- AllGrantLists
  Queries <- MCQueries
  QueryLists <- MCQueryLists
  CacheMax = 2
  Probes <- AllProbes

SPECIFICATION Spec
CONSTRAINT MissesBound
INVARIANTS TypeOK ResultCorrect CacheFIFO
PROPERTY EngineAlwaysMatchesSpec
