SPECIFICATION CSpec
CONSTANTS
  Names = {"a", "b"}
  Hidden = {"b"}
  Depth = 3
  Calls = 2
  Sites <- MCSites
  Args <- MCArgs
  Trees <- MCTrees
  Hosts <- MCHosts
  Overrides <- MCOverrides
  Changes = 1
PROPERTIES DirsRight FoundRight
CHECK_DEADLOCK FALSE
