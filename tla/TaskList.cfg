\* Two agents and up to three tasks; one agent may die or shut down.  Claims beside
\* creations and resets; beside status changes and the unassignment of an agent that
\* may still be running; beside deletions and dependencies, which look without a lock;
\* and owners set without a claim.
CONSTANTS
  Proc = {p1, p2}
  None = None
  MaxId = 3
  MaxExits = 1
  OpSets <- AllOps
  Lists <- OpenLists
SPECIFICATION Spec
INVARIANTS
  TypeOK
  IdsFresh
  OneWorker
  WorkerIsOwner
  NoLostUpdate
  LocksInUse
SYMMETRY Sym
\* Agents may stop calling, and MaxId may be used up.
CHECK_DEADLOCK FALSE
