SPECIFICATION FairSpec
CONSTANTS
  None = None
  Executions = {"p1", "p2"}
  Scripts = {"calc", "broken"}
  Sources = {"sum"}
  Compiling = {"calc", "sum"}
  MaxOps = 2
  Limit = 1
  MaxNow = 3
INVARIANTS NoEarlyTimeout
PROPERTIES OverrunsOnlyShared ReplacedOnlyInRace ExecutionEnds
