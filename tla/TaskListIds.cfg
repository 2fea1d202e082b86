\* A creation beside the deletion of the newest task.
CONSTANTS
  Proc = {p1, p2}
  None = None
  MaxId = 3
  MaxExits = 0
  OpSets <- IdOps
  Lists <- ChainOnly
SPECIFICATION Spec
INVARIANTS
  IdsFresh
\* Agents may stop calling.
CHECK_DEADLOCK FALSE
