\* A claim while another agent edits the task it waits for.
CONSTANTS
  Proc = {p1, p2}
  None = None
  MaxId = 2
  MaxExits = 0
  OpSets <- ClaimOps
  Lists <- ChainOnly
SPECIFICATION Spec
PROPERTIES
  BlockersFirst
\* Agents may stop calling.
CHECK_DEADLOCK FALSE
