----------------------------- MODULE MCTaskList -----------------------------
(* Values for the constants of TaskList.                                   *)
EXTENDS TaskList, TLC

Open(blockers) == [owner |-> None, status |-> "pending", blockedBy |-> blockers]

\* Creation and reset beside claims; status changes and departures beside claims;
\* what takes no lock, or reads before it does; owners set by TaskUpdate.
ListOps   == {"create", "claim", "complete", "reset"}
StatusOps == {"claim", "complete", "reopen", "edit", "unassign"}
BesideOps == {"claim", "resume", "block", "delete"}
OwnerOps  == {"assign", "take", "edit", "unassign"}
AllOps    == {ListOps, StatusOps, BesideOps, OwnerOps}
ClaimOps  == {{"claim", "edit"}}
IdOps     == {{"create", "delete"}}

\* An open task; an open task and one it blocks.
Alone     == 1 :> Open({})
Chain     == 1 :> Open({}) @@ 2 :> Open({1})
OpenLists == {Alone, Chain}
ChainOnly == {Chain}

\* Agents are interchangeable: no property names one.
Sym       == Permutations(Proc)

=============================================================================
