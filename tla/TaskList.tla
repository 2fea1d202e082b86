------------------------------ MODULE TaskList ------------------------------
(***************************************************************************)
(* The task list that the agents of a team share (src/src/utils/task/      *)
(* tasks.ts): one file per task, a high-water mark for ids, a lock on the  *)
(* list and a lock on each file.                                           *)
(*                                                                         *)
(* A process stands for one chain of awaits: the agents are processes of   *)
(* the operating system, and one agent may run several tools at once.  An  *)
(* action is one file-system call with the code up to the next.  writeFile *)
(* truncates the file, then writes it: in between it is torn, and getTask  *)
(* takes a torn file for a missing task.  An operation gives its lock back *)
(* with its last write: nothing can be told apart in between.              *)
(***************************************************************************)
EXTENDS Naturals, FiniteSets

CONSTANTS
  Proc,        \* processes; each is an agent of its own
  None,        \* no owner, no holder
  MaxId,       \* bound: task ids
  MaxExits,    \* bound: processes that die or shut down
  OpSets,      \* sets of operations, see Op: those of one set occur together
  Lists        \* initial task lists: functions from task ids to tasks

Id     == 1 .. MaxId
Status == {"pending", "in_progress", "completed"}
Task   == [owner : Proc \cup {None}, status : Status, blockedBy : SUBSET Id]

(* `start` is the second half of a claim, `cascade` of a deletion.  A call *)
(* of TaskUpdate edits a task, sets its status (complete, reopen, resume), *)
(* its owner (assign), or both (take).                                     *)
StatusOp == {"complete", "reopen", "resume", "take"}
ToolOp   == StatusOp \cup {"edit", "assign", "delete"}
Op == ToolOp \cup {"create", "claim", "start", "block", "cascade", "unassign", "reset"}

ASSUME TaskListAssumption ==
  /\ None \notin Proc
  /\ MaxId \in Nat \ {0} /\ MaxExits \in Nat
  /\ OpSets \subseteq SUBSET Op
  /\ \A list \in Lists : DOMAIN list \subseteq Id /\ \A t \in DOMAIN list : list[t] \in Task

VARIABLES
  ops,       \* the operations that occur; chosen at the start
  exists,    \* ids whose task file exists
  torn,      \* those that are truncated and not yet written
  task,      \* content of the others
  mark,      \* value of the high-water mark file; 0 while it is torn
  listLock,  \* holder of the list's lock
  lock,      \* lock[t]: holder of the lock of t's file
  proc,      \* where each process stands in its operation, see Local
  working,   \* working[p]: the task p was told to work on, or 0
  leaving,   \* agents that have approved their shutdown
  retired,   \* those, and dead ones, whose tasks are being, or were, unassigned
  given,     \* history: how often an id was given to a new task
  done       \* history: ids whose task was completed when last written

vars == <<ops, exists, torn, task, mark, listLock, lock, proc, working, leaving,
          retired, given, done>>
files == <<exists, torn, task>>

Blank == [owner |-> None, status |-> "pending", blockedBy |-> {}]

Phase == {"idle", "dead", "listLock", "highest", "peek", "taskLock", "reread",
          "readdir", "reading", "read", "write", "fill", "fillGone",
          "readMark", "markWrite", "markFill", "unlink", "clear", "clearing"}

Local == [pc : Phase,
          op : Op \cup {"none"},
          id : 0 .. MaxId,              \* the task the operation is at
          other : 0 .. MaxId,           \* block: the blocker; cascade: the deleted task
          target : Proc \cup {None},    \* unassign: the old owner; assign: the new one
          base : Task,                  \* the task as read before an update
          reads : SUBSET {"files", "mark"},
          high : 0 .. MaxId,            \* highest id read so far
          todo : SUBSET Id,             \* files still to be read or unlinked
          found : SUBSET Id,            \* ids picked from a listing
          edges : [Id -> SUBSET Id]]    \* the blockedBy to write to each task

Rest == [pc |-> "idle", op |-> "none", id |-> 0, other |-> 0, target |-> None,
         base |-> Blank, reads |-> {}, high |-> 0, todo |-> {}, found |-> {},
         edges |-> [t \in Id |-> {}]]

TypeOK ==
  /\ ops \in OpSets
  /\ exists \subseteq Id /\ torn \subseteq exists
  /\ task \in [Id -> Task]
  /\ mark \in 0 .. MaxId
  /\ listLock \in Proc \cup {None} /\ lock \in [Id -> Proc \cup {None}]
  /\ proc \in [Proc -> Local]
  /\ working \in [Proc -> 0 .. MaxId]
  /\ leaving \subseteq Proc /\ retired \subseteq Proc
  /\ given \in [Id -> 0 .. 2]
  /\ done \subseteq Id

Init ==
  /\ ops \in OpSets
  /\ \E list \in Lists :
       /\ exists = DOMAIN list
       /\ task = [t \in Id |-> IF t \in DOMAIN list THEN list[t] ELSE Blank]
       /\ given = [t \in Id |-> IF t \in DOMAIN list THEN 1 ELSE 0]
       /\ done = {t \in DOMAIN list : list[t].status = "completed"}
  /\ torn = {} /\ mark = 0
  /\ listLock = None /\ lock = [t \in Id |-> None]
  /\ proc = [p \in Proc |-> Rest]
  /\ working = [p \in Proc |-> 0]
  /\ leaving = {} /\ retired = {}

-----------------------------------------------------------------------------
(* getTask finds the task.                                                 *)
Readable(t) == t \in exists \ torn

Dead(p) == proc[p].pc = "dead"
Gone(p) == Dead(p) \/ p \in leaving
Departed == Cardinality({q \in Proc : Gone(q)})

(* proper-lockfile: a lock is free, or stale because its holder died.      *)
Free(holder) == holder \notin {p \in Proc : ~Dead(p)}

At(p, phase) == proc[p].pc = phase
Go(p, phase) == proc' = [proc EXCEPT ![p].pc = phase]
Return(p)    == proc' = [proc EXCEPT ![p] = Rest]

Unlock(t) == lock' = [lock EXCEPT ![t] = None]

(* unlink(): a process that has the file open writes into nothing.         *)
Removed(t) ==
  /\ exists' = exists \ {t} /\ torn' = torn \ {t}
  /\ task' = [task EXCEPT ![t] = Blank]

Orphaned(procs, t) ==
  [q \in Proc |-> IF procs[q].pc = "fill" /\ procs[q].id = t
                    THEN [procs[q] EXCEPT !.pc = "fillGone"] ELSE procs[q]]

-----------------------------------------------------------------------------
(* The calls that begin an operation.                                      *)

Begin(p, op) == op \in ops /\ At(p, "idle")

(* Fault: the high-water mark is not consulted.                            *)
CreateIgnoringMark(p) ==
  /\ Begin(p, "create")
  /\ proc' = [proc EXCEPT ![p] = [Rest EXCEPT !.pc = "listLock", !.op = "create",
                                               !.reads = {"files"}]]
  /\ UNCHANGED <<files, mark, listLock, lock, working, leaving, retired, given, done>>

CreateTask(p) ==
  /\ Begin(p, "create")
  /\ proc' = [proc EXCEPT ![p] = [Rest EXCEPT !.pc = "listLock", !.op = "create",
                                               !.reads = {"files", "mark"}]]
  /\ UNCHANGED <<files, mark, listLock, lock, working, leaving, retired, given, done>>

(* tryClaimNextTask picks a task from a listing: pending, unowned and not  *)
(* blocked.  The listing is one step here, because claimTask looks again.  *)
ClaimNextTask(p) ==
  /\ Begin(p, "claim") /\ working[p] = 0 /\ p \notin leaving
  /\ \E t \in Id :
       /\ Readable(t) /\ task[t].status = "pending" /\ task[t].owner = None
       /\ \A b \in task[t].blockedBy : Readable(b) => task[b].status = "completed"
       /\ proc' = [proc EXCEPT ![p] = [Rest EXCEPT !.pc = "peek", !.op = "claim", !.id = t]]
  /\ UNCHANGED <<files, mark, listLock, lock, working, leaving, retired, given, done>>

NewStatus(op) == CASE op = "complete" -> "completed"
                   [] op \in {"reopen", "unassign"} -> "pending"
                   [] op \in {"resume", "start", "take"} -> "in_progress"

(* TaskUpdateTool, called by any agent, for any task: it reads the task,   *)
(* writes a status that differs (hooks are awaited before "completed"),    *)
(* and makes the caller the owner of an unowned task it puts in progress.  *)
UpdateTask(p) ==
  \E op \in ToolOp, t \in Id, owner \in Proc \cup {None} :
    /\ Begin(p, op) /\ Readable(t)
    /\ op \in StatusOp => task[t].status # NewStatus(op)
    /\ op = "take" => task[t].owner = None
    /\ IF op = "assign" THEN owner \notin {None, task[t].owner} ELSE owner = None
    /\ proc' = [proc EXCEPT ![p] =
                  [Rest EXCEPT !.pc = IF op = "delete" THEN "readMark" ELSE "peek",
                               !.op = op, !.id = t, !.target = owner]]
    /\ UNCHANGED <<files, mark, listLock, lock, working, leaving, retired, given, done>>

(* The prompt about the claimed task ends, whatever became of the task.    *)
EndTurn(p) ==
  /\ At(p, "idle") /\ working[p] # 0
  /\ working' = [working EXCEPT ![p] = 0]
  /\ UNCHANGED <<files, mark, listLock, lock, proc, leaving, retired, given, done>>

(* blockTask reads both tasks, then updates one after the other; `blocks`  *)
(* of the first mirrors `blockedBy` of the second and is left out.         *)
BlockTask(p) ==
  /\ Begin(p, "block")
  /\ \E from, to \in Id :
       /\ from # to /\ Readable(from) /\ Readable(to)
       /\ from \notin task[to].blockedBy
       /\ proc' = [proc EXCEPT ![p] =
                     [Rest EXCEPT !.pc = "peek", !.op = "block", !.id = from,
                                  !.other = from, !.found = {to},
                                  !.edges[to] = task[to].blockedBy \cup {from}]]
  /\ UNCHANGED <<files, mark, listLock, lock, working, leaving, retired, given, done>>

(* The hide timer of useTasksV2: every task it lists is completed.         *)
ResetTaskList(p) ==
  /\ Begin(p, "reset")
  /\ \E t \in Id : Readable(t)
  /\ \A t \in Id : Readable(t) => task[t].status = "completed"
  /\ proc' = [proc EXCEPT ![p] = [Rest EXCEPT !.pc = "listLock", !.op = "reset",
                                               !.reads = {"files"}]]
  /\ UNCHANGED <<files, mark, listLock, lock, working, leaving, retired, given, done>>

(* handleShutdownApproval, called by the agent in the course of a turn: it *)
(* works no longer and claims nothing more, but what it has begun goes on, *)
(* and other calls of that turn, until its process exits.                  *)
ApproveShutdown(q) ==
  /\ "unassign" \in ops /\ ~Gone(q) /\ Departed < MaxExits
  /\ proc[q].op \notin {"claim", "start", "unassign"}
  /\ leaving' = leaving \cup {q}
  /\ working' = [working EXCEPT ![q] = 0]
  /\ UNCHANGED <<files, mark, listLock, lock, proc, retired, given, done>>

(* The leader learns that agent q has been killed, or approves its own     *)
(* shutdown: then killPane() is not awaited, and q may still be running.   *)
UnassignTeammateTasks(p, q) ==
  /\ Begin(p, "unassign") /\ p \notin leaving
  /\ Gone(q) /\ q \notin retired
  /\ retired' = retired \cup {q}
  /\ proc' = [proc EXCEPT ![p] = [Rest EXCEPT !.pc = "readdir", !.op = "unassign",
                                               !.target = q]]
  /\ UNCHANGED <<files, mark, listLock, lock, working, leaving, given, done>>

-----------------------------------------------------------------------------
(* updateTask and updateTaskUnsafe, shared by most operations.             *)

(* What an update writes over the task it has read.                        *)
Updated(p, base) ==
  LET me == proc[p] IN
  CASE me.op = "claim"    -> [base EXCEPT !.owner = p]
    [] me.op = "assign"   -> [base EXCEPT !.owner = me.target]
    [] me.op = "take"     -> [base EXCEPT !.owner = p, !.status = NewStatus("take")]
    [] me.op = "unassign" -> [base EXCEPT !.owner = None, !.status = NewStatus("unassign")]
    [] me.op \in {"start", "complete", "reopen", "resume"}
                          -> [base EXCEPT !.status = NewStatus(me.op)]
    [] me.op = "cascade" \/ (me.op = "block" /\ me.id # me.other)
                          -> [base EXCEPT !.blockedBy = me.edges[me.id]]
    [] me.op = "edit" \/ (me.op = "block" /\ me.id = me.other) -> base
    [] me.op = "create"   -> Blank

(* The update of me.id is over, done or not: no caller looks at its result.*)
EndUpdate(p) ==
  LET me == proc[p] IN
  /\ CASE me.op = "claim" -> proc' = [proc EXCEPT ![p].op = "start", ![p].pc = "peek",
                                                  ![p].base = Blank]
       [] me.op \in {"block", "cascade", "unassign"} /\ me.found # {} ->
            \E t \in me.found :
              proc' = [proc EXCEPT ![p].id = t, ![p].found = @ \ {t}, ![p].pc = "peek",
                                   ![p].base = Blank]
       [] OTHER -> Return(p)
  /\ working' = [working EXCEPT ![p] = IF me.op = "start" THEN me.id ELSE @]

(* getTask before locking.                                                 *)
Peek(p) ==
  LET me == proc[p] IN
  /\ At(p, "peek")
  /\ IF Readable(me.id)
       THEN Go(p, "taskLock") /\ UNCHANGED working
       ELSE IF me.op = "claim" THEN Return(p) /\ UNCHANGED working
                               ELSE EndUpdate(p)
  /\ UNCHANGED <<files, mark, listLock, lock, leaving, retired, given, done>>

(* Fault: the lock of another process is taken over.                       *)
LockRegardless(p) ==
  /\ At(p, "taskLock")
  /\ lock' = [lock EXCEPT ![proc[p].id] = p]
  /\ Go(p, IF proc[p].op = "claim" THEN "reread" ELSE "read")
  /\ UNCHANGED <<files, mark, listLock, working, leaving, retired, given, done>>

(* The file is looked up when lock() is called; it may be gone when the    *)
(* lock is obtained.                                                       *)
TakeTaskLock(p) ==
  /\ At(p, "taskLock") /\ Free(lock[proc[p].id])
  /\ lock' = [lock EXCEPT ![proc[p].id] = p]
  /\ Go(p, IF proc[p].op = "claim" THEN "reread" ELSE "read")
  /\ UNCHANGED <<files, mark, listLock, working, leaving, retired, given, done>>

(* lock() throws: the file is missing, or all retries were used up.        *)
LockFails(p) ==
  /\ \/ At(p, "taskLock") /\ (proc[p].id \notin exists \/ ~Free(lock[proc[p].id]))
     \/ At(p, "listLock") /\ ~Free(listLock)
  /\ Return(p)
  /\ UNCHANGED <<files, mark, listLock, lock, working, leaving, retired, given, done>>

(* updateTaskUnsafe reads the task, truncates its file and writes it.      *)
Read(p) ==
  LET me == proc[p] IN
  /\ At(p, "read")
  /\ IF Readable(me.id)
       THEN /\ proc' = [proc EXCEPT ![p].pc = "write", ![p].base = task[me.id]]
            /\ UNCHANGED <<lock, working>>
       ELSE EndUpdate(p) /\ Unlock(me.id)
  /\ UNCHANGED <<files, mark, listLock, leaving, retired, given, done>>

Truncate(t) ==
  /\ exists' = exists \cup {t} /\ torn' = torn \cup {t}
  /\ task' = [task EXCEPT ![t] = Blank]

(* Fault: the file is not created when it is missing.                      *)
WriteInPlace(p) ==
  /\ At(p, "write")
  /\ torn' = torn \cup {proc[p].id}
  /\ task' = [task EXCEPT ![proc[p].id] = Blank]
  /\ Go(p, "fill")
  /\ UNCHANGED <<exists, mark, listLock, lock, working, leaving, retired, given, done>>

Write(p) ==
  /\ At(p, "write")
  /\ Truncate(proc[p].id)
  /\ Go(p, "fill")
  /\ UNCHANGED <<mark, listLock, lock, working, leaving, retired, given, done>>

Written(p) ==
  LET me   == proc[p]
      text == Updated(p, me.base) IN
  IF At(p, "fill")
    THEN /\ torn' = torn \ {me.id}
         /\ task' = [task EXCEPT ![me.id] = text]
         /\ done' = IF text.status = "completed" THEN done \cup {me.id} ELSE done \ {me.id}
         /\ UNCHANGED exists
    ELSE At(p, "fillGone") /\ UNCHANGED <<files, done>>

(* Fault: the lock is not released.                                        *)
FillAndKeepLock(p) ==
  /\ proc[p].op # "create"
  /\ Written(p)
  /\ EndUpdate(p)
  /\ UNCHANGED <<mark, listLock, lock, leaving, retired, given>>

Fill(p) ==
  /\ proc[p].op # "create"
  /\ Written(p)
  /\ EndUpdate(p)
  /\ Unlock(proc[p].id)
  /\ UNCHANGED <<mark, listLock, leaving, retired, given>>

-----------------------------------------------------------------------------
(* listTasks: readdir, then the files one by one.                          *)

Readdir(p) ==
  /\ At(p, "readdir")
  /\ proc' = [proc EXCEPT ![p].pc = "reading", ![p].todo = exists, ![p].found = {}]
  /\ UNCHANGED <<files, mark, listLock, lock, working, leaving, retired, given, done>>

(* What the operation looks for in the listing.                            *)
Relevant(p, t) ==
  CASE proc[p].op = "claim"    -> task[t].status # "completed"
    [] proc[p].op = "cascade"  -> proc[p].other \in task[t].blockedBy
    [] proc[p].op = "unassign" -> task[t].owner = proc[p].target /\ task[t].status # "completed"

ReadOne(p) ==
  LET me == proc[p] IN
  /\ At(p, "reading")
  /\ \E t \in me.todo :
       proc' = [proc EXCEPT ![p].todo = @ \ {t},
                            ![p].found = IF Readable(t) /\ Relevant(p, t) THEN @ \cup {t} ELSE @,
                            ![p].edges[t] = IF me.op = "cascade"
                                              THEN task[t].blockedBy \ {me.other} ELSE @]
  /\ UNCHANGED <<files, mark, listLock, lock, working, leaving, retired, given, done>>

(* claimTask goes on if no blocker of the task is unresolved.              *)
Listed(p) ==
  LET me == proc[p] IN
  /\ At(p, "reading") /\ me.todo = {}
  /\ IF me.op # "claim" THEN EndUpdate(p) /\ UNCHANGED lock
     ELSE /\ UNCHANGED working
          /\ IF me.base.blockedBy \cap me.found = {}
               THEN Go(p, "read") /\ UNCHANGED lock
               ELSE Return(p) /\ Unlock(me.id)
  /\ UNCHANGED <<files, mark, listLock, leaving, retired, given, done>>

(* Fault: the owner is not looked at again under the lock.                 *)
RereadForStatus(p) ==
  LET me == proc[p] IN
  /\ At(p, "reread")
  /\ IF Readable(me.id) /\ task[me.id].status # "completed"
       THEN /\ proc' = [proc EXCEPT ![p].pc = "readdir", ![p].base = task[me.id]]
            /\ UNCHANGED lock
       ELSE Return(p) /\ Unlock(me.id)
  /\ UNCHANGED <<files, mark, listLock, working, leaving, retired, given, done>>

(* claimTask, the lock held: the task is free, or mine, and not completed. *)
Reread(p) ==
  LET me == proc[p] IN
  /\ At(p, "reread")
  /\ IF /\ Readable(me.id)
        /\ task[me.id].owner \in {None, p} /\ task[me.id].status # "completed"
       THEN /\ proc' = [proc EXCEPT ![p].pc = "readdir", ![p].base = task[me.id]]
            /\ UNCHANGED lock
       ELSE Return(p) /\ Unlock(me.id)
  /\ UNCHANGED <<files, mark, listLock, working, leaving, retired, given, done>>

-----------------------------------------------------------------------------
(* createTask and resetTaskList, under the list's lock; deleteTask.        *)

TakeListLock(p) ==
  /\ At(p, "listLock") /\ Free(listLock)
  /\ listLock' = p
  /\ Go(p, "highest")
  /\ UNCHANGED <<files, mark, lock, working, leaving, retired, given, done>>

Higher(a, b) == IF a > b THEN a ELSE b

ReadHighestFile(p) ==
  LET highest == CHOOSE h \in exists \cup {0} : \A t \in exists : h >= t IN
  /\ At(p, "highest") /\ "files" \in proc[p].reads
  /\ proc' = [proc EXCEPT ![p].reads = @ \ {"files"}, ![p].high = Higher(@, highest),
                          ![p].pc = IF proc[p].op = "reset" THEN "readMark" ELSE @]
  /\ UNCHANGED <<files, mark, listLock, lock, working, leaving, retired, given, done>>

ReadHighestMark(p) ==
  /\ At(p, "highest") /\ "mark" \in proc[p].reads
  /\ proc' = [proc EXCEPT ![p].reads = @ \ {"mark"}, ![p].high = Higher(@, mark)]
  /\ UNCHANGED <<files, mark, listLock, lock, working, leaving, retired, given, done>>

(* The new task's file, under the next id (MaxId bounds the model).        *)
WriteNewTask(p) ==
  LET t == proc[p].high + 1 IN
  /\ At(p, "highest") /\ proc[p].op = "create" /\ proc[p].reads = {}
  /\ t \in Id
  /\ Truncate(t)
  /\ proc' = [proc EXCEPT ![p].pc = "fill", ![p].id = t]
  /\ given' = [given EXCEPT ![t] = IF @ < 2 THEN @ + 1 ELSE @]
  /\ done' = done \ {t}
  /\ UNCHANGED <<mark, listLock, lock, working, leaving, retired>>

FillNewTask(p) ==
  /\ proc[p].op = "create"
  /\ Written(p)
  /\ Return(p)
  /\ listLock' = None
  /\ UNCHANGED <<mark, lock, working, leaving, retired, given>>

Number(p)    == IF proc[p].op = "delete" THEN proc[p].id ELSE proc[p].high
AfterMark(p) == IF proc[p].op = "delete" THEN "unlink" ELSE "clear"

ReadMark(p) ==
  /\ At(p, "readMark")
  /\ Go(p, IF Number(p) > mark THEN "markWrite" ELSE AfterMark(p))
  /\ UNCHANGED <<files, mark, listLock, lock, working, leaving, retired, given, done>>

TruncateMark(p) ==
  /\ At(p, "markWrite")
  /\ mark' = 0
  /\ Go(p, "markFill")
  /\ UNCHANGED <<files, listLock, lock, working, leaving, retired, given, done>>

FillMark(p) ==
  /\ At(p, "markFill")
  /\ mark' = Number(p)
  /\ Go(p, AfterMark(p))
  /\ UNCHANGED <<files, listLock, lock, working, leaving, retired, given, done>>

(* deleteTask: the file, then the references to it.                        *)
Unlink(p) ==
  LET me == proc[p] IN
  /\ At(p, "unlink")
  /\ IF me.id \in exists
       THEN /\ Removed(me.id)
            /\ proc' = Orphaned([proc EXCEPT ![p].pc = "readdir", ![p].op = "cascade",
                                              ![p].other = me.id], me.id)
       ELSE Return(p) /\ UNCHANGED files
  /\ UNCHANGED <<mark, listLock, lock, working, leaving, retired, given, done>>

(* resetTaskList: every file it lists, then the lock.                      *)
Clear(p) ==
  /\ At(p, "clear")
  /\ proc' = [proc EXCEPT ![p].pc = "clearing", ![p].todo = exists]
  /\ UNCHANGED <<files, mark, listLock, lock, working, leaving, retired, given, done>>

ClearOne(p) ==
  /\ At(p, "clearing")
  /\ \E t \in proc[p].todo :
       /\ Removed(t)
       /\ proc' = Orphaned([proc EXCEPT ![p].todo = @ \ {t}], t)
  /\ UNCHANGED <<mark, listLock, lock, working, leaving, retired, given, done>>

ClearEnds(p) ==
  /\ At(p, "clearing") /\ proc[p].todo = {}
  /\ Return(p)
  /\ listLock' = None
  /\ UNCHANGED <<files, mark, lock, working, leaving, retired, given, done>>

-----------------------------------------------------------------------------
(* The process exits or is killed; others find its locks stale.            *)
Crash(p) ==
  /\ ~Dead(p) /\ (p \in leaving \/ Departed < MaxExits)
  /\ proc' = [proc EXCEPT ![p] = [Rest EXCEPT !.pc = "dead"]]
  /\ working' = [working EXCEPT ![p] = 0]
  /\ UNCHANGED <<files, mark, listLock, lock, leaving, retired, given, done>>

Call(p) ==
  \/ CreateTask(p) \/ ClaimNextTask(p) \/ UpdateTask(p)
  \/ BlockTask(p) \/ ResetTaskList(p)
  \/ \E q \in Proc : UnassignTeammateTasks(p, q)

Turn(p) == EndTurn(p) \/ ApproveShutdown(p)

TakeLock(p) == TakeTaskLock(p) \/ TakeListLock(p)

Step(p) ==
  \/ Peek(p) \/ Reread(p) \/ Readdir(p) \/ ReadOne(p) \/ Listed(p)
  \/ Read(p) \/ Write(p) \/ Fill(p)
  \/ ReadHighestFile(p) \/ ReadHighestMark(p) \/ WriteNewTask(p) \/ FillNewTask(p)
  \/ ReadMark(p) \/ TruncateMark(p) \/ FillMark(p)
  \/ Unlink(p) \/ Clear(p) \/ ClearOne(p) \/ ClearEnds(p)

Next ==
  /\ \E p \in Proc : Call(p) \/ Turn(p) \/ TakeLock(p) \/ LockFails(p) \/ Step(p) \/ Crash(p)
  /\ UNCHANGED ops

Spec == Init /\ [][Next]_vars

-----------------------------------------------------------------------------
(* "Creates a new task with a unique ID": no id is given out twice.        *)
IdsFresh == \A t \in Id : given[t] <= 1

(* Claims are exclusive: two live agents never work on the same task, as   *)
(* long as TaskUpdate sets no owners: it looks at none under the lock.     *)
OneWorker ==
  \A p, q \in Proc : (p # q /\ working[p] # 0) => working[p] # working[q]

(* Under the same condition, the claim of a working agent stands: no other *)
(* operation, working from an older read, has written over it.             *)
WorkerIsOwner ==
  \A p \in Proc : (working[p] # 0 /\ Readable(working[p])) => task[working[p]].owner = p

(* No update is lost: what updateTask is about to write over is what it has *)
(* read, and nobody completes a write between its truncation and its text,  *)
(* whatever was claimed, unassigned or deleted, or died, in the meantime.   *)
NoLostUpdate ==
  \A p \in Proc : Readable(proc[p].id) =>
    /\ At(p, "write") => proc[p].base = task[proc[p].id]
    /\ ~At(p, "fill")

(* "open or in_progress tasks block": when an agent claims a task, every   *)
(* task it depends on has been completed or deleted.                       *)
BlockersFirst ==
  [][\A p \in Proc :
       (proc[p].op = "claim" /\ proc'[p].op = "start")
         => proc[p].base.blockedBy \cap (exists \ done) = {}]_vars

Holds(p) == {t \in Id : lock[t] = p}

(* Nobody waits for a lock in vain: whichever way an operation is left, it  *)
(* gives its locks back; a live holder is at work on the task it holds, or  *)
(* creates or resets the list; and nobody who waits for a lock holds one.   *)
LocksInUse ==
  \A p \in {q \in Proc : ~Dead(q)} :
    /\ Holds(p) \subseteq {proc[p].id} /\ (listLock = p => proc[p].op \in {"create", "reset"})
    /\ (Holds(p) # {} \/ listLock = p)
         => /\ proc[p].pc \notin {"idle", "peek", "taskLock", "listLock"}
            /\ Holds(p) = {} \/ listLock # p
=============================================================================
