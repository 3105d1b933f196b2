SPECIFICATION PgSpec
CONSTANTS
  Callers = {1, 2}
  Conns = {11, 12}
  Paths = {"a", "b"}
  FileLists <- MCFileLists
  MaxOps = 1
  MaxFaults = 1
  MaxIdle = 1
INVARIANTS AnswersMatch PoolIsClean ReplacedWhole
PROPERTIES StatementsRunOnce OperationsReturn
CHECK_DEADLOCK FALSE
