--------------------------- MODULE TaskListProofs ---------------------------
(***************************************************************************)
(* For any number of agents, tasks and crashes, any sets of operations and *)
(* any initial lists.  Three parts: the types and who holds which lock;    *)
(* then, where no session both creates and deletes tasks, that ids are     *)
(* fresh; and what claims, completions and unassignments do to the owners. *)
(*                                                                         *)
(*   Typed   an operation stands where the code can be, about a task if    *)
(*           one is named                                                  *)
(*   Locks   a live process holds the lock of a task exactly while it is   *)
(*           between taking and releasing it, and the same for the list    *)
(*                                                                         *)
(* The lemmas named ...Is say what a step does, and are all that the proofs*)
(* need to know of it.                                                     *)
(***************************************************************************)
EXTENDS TaskList, FiniteSetTheorems, TLAPS

(* Where an operation may stand, and what it is about.                     *)
TaskPhase == {"peek", "taskLock", "read", "write", "fill", "fillGone"}
MarkPhase == {"readMark", "markWrite", "markFill"}

PlaceOf(p) ==
  LET me == proc[p] IN
  /\ me.op = "none" <=> me.pc \in {"idle", "dead"}
  /\ me.op = "create" => me.pc \in {"listLock", "highest", "fill", "fillGone"}
  /\ me.op = "reset" => me.pc \in MarkPhase \cup {"listLock", "highest", "clear", "clearing"}
  /\ me.op = "delete" => me.pc \in MarkPhase \cup {"unlink"} /\ me.id \in Id
  /\ me.op = "claim" => me.pc \in TaskPhase \cup {"reread", "readdir", "reading"} /\ me.id \in Id
  /\ me.op \in StatusOp \cup {"start", "edit", "assign", "block"} =>
       me.pc \in TaskPhase /\ me.id \in Id
  /\ me.op \in {"cascade", "unassign"} =>
       me.pc \in TaskPhase \cup {"readdir", "reading"} /\ (me.pc \in TaskPhase => me.id \in Id)
  /\ me.op \in {"unassign", "assign"} => me.target \in Proc
  /\ me.op \in {"create", "delete", "claim", "assign", "take"} => me.op \in ops
  /\ me.op = "start" => "claim" \in ops
  /\ me.op \in {"claim", "start"} => working[p] = 0 /\ p \notin leaving
  /\ me.pc = "dead" \/ p \in leaving => working[p] = 0
  /\ working[p] # 0 => "claim" \in ops
  /\ (me.op = "create" /\ me.pc \in {"fill", "fillGone"}) => me.id \in Id

Places == \A p \in Proc : PlaceOf(p)

Typed == TypeOK /\ Places

-----------------------------------------------------------------------------
(* What the steps do to the process that takes them.                       *)

Others(p) == \A q \in Proc \ {p} : proc'[q] = proc[q]

(* Nothing of p changes but its pc.                                        *)
Keeps(p) ==
  /\ proc'[p].op = proc[p].op /\ proc'[p].id = proc[p].id /\ proc'[p].target = proc[p].target
  /\ proc'[p].found = proc[p].found /\ proc'[p].base = proc[p].base
  /\ proc'[p].high = proc[p].high /\ proc'[p].reads = proc[p].reads
  /\ proc'[p].todo = proc[p].todo

LEMMA Ids == 0 \in 0 .. MaxId /\ \A t \in Id : t \in 0 .. MaxId /\ t # 0
BY TaskListAssumption DEF Id

LEMMA RestIs ==
  /\ Rest \in Local
  /\ Rest.pc = "idle" /\ Rest.op = "none" /\ Rest.id = 0 /\ Rest.target = None
  /\ Rest.found = {} /\ Rest.base = Blank /\ Rest.todo = {} /\ Rest.reads = {} /\ Rest.high = 0
BY TaskListAssumption DEF Rest, Local, Phase, Op, Blank, Task, Status, Id

(* A step that gives p the record r.                                       *)
LEMMA PutIs ==
  ASSUME TypeOK, NEW p \in Proc, NEW r \in Local, proc' = [proc EXCEPT ![p] = r]
  PROVE  proc' \in [Proc -> Local] /\ proc'[p] = r /\ Others(p)
BY DEF TypeOK, Others

LEMMA LocalFields ==
  ASSUME TypeOK, NEW p \in Proc
  PROVE  /\ proc[p] \in Local
         /\ proc[p].pc \in Phase /\ proc[p].op \in Op \cup {"none"} /\ proc[p].id \in 0 .. MaxId
         /\ proc[p].other \in 0 .. MaxId /\ proc[p].target \in Proc \cup {None}
         /\ proc[p].base \in Task /\ proc[p].reads \subseteq {"files", "mark"}
         /\ proc[p].high \in 0 .. MaxId /\ proc[p].todo \subseteq Id
         /\ proc[p].found \subseteq Id /\ proc[p].edges \in [Id -> SUBSET Id]
         /\ working[p] \in 0 .. MaxId
BY DEF TypeOK, Local

LEMMA GoIs ==
  ASSUME TypeOK, NEW p \in Proc, NEW x \in Phase, Go(p, x)
  PROVE  proc' \in [Proc -> Local] /\ Others(p) /\ Keeps(p) /\ proc'[p].pc = x
<1>1. PICK r : r = [proc[p] EXCEPT !.pc = x]
  OBVIOUS
<1>2. proc[p] \in Local
  BY LocalFields
<1>3. /\ r \in Local
      /\ r.pc = x /\ r.op = proc[p].op /\ r.id = proc[p].id /\ r.target = proc[p].target
      /\ r.found = proc[p].found /\ r.base = proc[p].base
      /\ r.high = proc[p].high /\ r.reads = proc[p].reads /\ r.todo = proc[p].todo
  BY <1>1, <1>2 DEF Local
<1>4. proc' = [proc EXCEPT ![p] = r]
  BY <1>1 DEF Go, TypeOK
<1>5. proc' \in [Proc -> Local] /\ proc'[p] = r /\ Others(p)
  BY <1>3, <1>4, PutIs
<1> QED  BY <1>3, <1>5 DEF Keeps

LEMMA ReturnIs ==
  ASSUME TypeOK, NEW p \in Proc, Return(p)
  PROVE  proc' \in [Proc -> Local] /\ Others(p) /\ proc'[p] = Rest
BY RestIs, PutIs DEF Return

(* A read under a lock: the task is kept for what follows.                 *)
KeepsTask(p, x, b) == proc' = [proc EXCEPT ![p].pc = x, ![p].base = b]

LEMMA BaseIs ==
  ASSUME TypeOK, NEW p \in Proc, NEW x \in Phase, NEW b \in Task, KeepsTask(p, x, b)
  PROVE  /\ proc' \in [Proc -> Local] /\ Others(p) /\ proc'[p].pc = x /\ proc'[p].base = b
         /\ proc'[p].op = proc[p].op /\ proc'[p].id = proc[p].id
         /\ proc'[p].target = proc[p].target /\ proc'[p].found = proc[p].found
<1>1. PICK r : r = [proc[p] EXCEPT !.pc = x, !.base = b]
  OBVIOUS
<1>2. proc[p] \in Local
  BY LocalFields
<1>3. /\ r \in Local
      /\ r.pc = x /\ r.base = b /\ r.op = proc[p].op /\ r.id = proc[p].id
      /\ r.target = proc[p].target /\ r.found = proc[p].found
  BY <1>1, <1>2 DEF Local
<1>4. proc' = [proc EXCEPT ![p] = r]
  BY <1>1 DEF TypeOK, KeepsTask
<1> QED  BY <1>3, <1>4, PutIs

(* The calls.                                                              *)
Called(p) ==
  LET me == proc'[p] IN
  \/ /\ me.op \in {"create", "reset"} /\ me.pc = "listLock" /\ me.id = 0 /\ me.found = {}
     /\ me.high = 0 /\ me.reads = IF me.op = "create" THEN {"files", "mark"} ELSE {"files"}
  \/ /\ me.op \in ToolOp \cup {"claim"} /\ me.pc = IF me.op = "delete" THEN "readMark" ELSE "peek"
     /\ me.id \in Id /\ me.found = {} /\ Readable(me.id)
     /\ (me.op = "claim" => working[p] = 0 /\ p \notin leaving)
     /\ (me.op = "assign" => me.target \in Proc)
  \/ /\ me.op = "block" /\ me.pc = "peek"
     /\ me.id \in Id /\ Readable(me.id) /\ me.found \subseteq {t \in Id : Readable(t)}
  \/ /\ me.op = "unassign" /\ me.pc = "readdir" /\ me.id = 0 /\ me.found = {}
     /\ me.target \in Proc \ retired /\ Gone(me.target)

LEMMA CallIs ==
  ASSUME TypeOK, NEW p \in Proc, Call(p)
  PROVE  /\ proc' \in [Proc -> Local] /\ Others(p) /\ Called(p)
         /\ proc[p].pc = "idle" /\ proc'[p].op \in ops
         /\ retired' = IF proc'[p].op = "unassign" THEN retired \cup {proc'[p].target} ELSE retired
         /\ UNCHANGED <<files, mark, listLock, lock, working, leaving, given, done>>
<1> USE DEF Begin, At
<1>1. CASE CreateTask(p)
  <2>1. PICK r : r = [Rest EXCEPT !.pc = "listLock", !.op = "create", !.reads = {"files", "mark"}]
    OBVIOUS
  <2>2. r \in Local /\ r.pc = "listLock" /\ r.op = "create" /\ r.id = 0 /\ r.found = {}
        /\ r.reads = {"files", "mark"} /\ r.high = 0
    BY <2>1, RestIs DEF Local, Phase, Op
  <2> QED  BY <1>1, <2>1, <2>2, PutIs DEF CreateTask, Called
<1>2. CASE ResetTaskList(p)
  <2>1. PICK r : r = [Rest EXCEPT !.pc = "listLock", !.op = "reset", !.reads = {"files"}]
    OBVIOUS
  <2>2. r \in Local /\ r.pc = "listLock" /\ r.op = "reset" /\ r.id = 0 /\ r.found = {}
        /\ r.reads = {"files"} /\ r.high = 0
    BY <2>1, RestIs DEF Local, Phase, Op
  <2> QED  BY <1>2, <2>1, <2>2, PutIs DEF ResetTaskList, Called
<1>3. CASE ClaimNextTask(p)
  <2>1. PICK t \in Id :
          /\ Readable(t) /\ working[p] = 0 /\ p \notin leaving
          /\ proc' = [proc EXCEPT ![p] = [Rest EXCEPT !.pc = "peek", !.op = "claim", !.id = t]]
    BY <1>3 DEF ClaimNextTask
  <2>2. PICK r : r = [Rest EXCEPT !.pc = "peek", !.op = "claim", !.id = t]
    OBVIOUS
  <2>3. r \in Local /\ r.pc = "peek" /\ r.op = "claim" /\ r.id = t /\ r.found = {}
    BY <2>2, RestIs, Ids DEF Local, Phase, Op
  <2> QED  BY <1>3, <2>1, <2>2, <2>3, PutIs DEF ClaimNextTask, Called
<1>4. CASE UpdateTask(p)
  <2>1. PICK op \in ToolOp, t \in Id, owner \in Proc \cup {None} :
          /\ Begin(p, op) /\ Readable(t) /\ (op = "assign" => owner # None)
          /\ proc' = [proc EXCEPT ![p] =
                        [Rest EXCEPT !.pc = IF op = "delete" THEN "readMark" ELSE "peek",
                                     !.op = op, !.id = t, !.target = owner]]
          /\ UNCHANGED <<files, mark, listLock, lock, working, leaving, retired, given, done>>
    BY <1>4 DEF UpdateTask
  <2>2. PICK x \in Phase : x = IF op = "delete" THEN "readMark" ELSE "peek"
    BY DEF Phase
  <2>3. PICK r : r = [Rest EXCEPT !.pc = x, !.op = op, !.id = t, !.target = owner]
    OBVIOUS
  <2>4. op \in Op /\ op \in ops /\ proc[p].pc = "idle" /\ t \in 0 .. MaxId
    BY <2>1, Ids DEF Op
  <2>5. r \in Local /\ r.pc = x /\ r.op = op /\ r.id = t /\ r.target = owner /\ r.found = {}
    BY <2>3, <2>4, RestIs DEF Local
  <2>6. proc' = [proc EXCEPT ![p] = r]
    BY <2>1, <2>2, <2>3
  <2>7. proc' \in [Proc -> Local] /\ proc'[p] = r /\ Others(p)
    BY <2>5, <2>6, PutIs
  <2>8. op # "claim" /\ op # "unassign"
    BY DEF ToolOp, StatusOp
  <2>9. Called(p)
    BY <2>1, <2>2, <2>5, <2>7, <2>8 DEF Called
  <2> QED  BY <2>1, <2>4, <2>5, <2>7, <2>8, <2>9
<1>5. CASE BlockTask(p)
  <2>1. PICK from \in Id, to \in Id :
          /\ Readable(from) /\ Readable(to)
          /\ proc' = [proc EXCEPT ![p] =
                        [Rest EXCEPT !.pc = "peek", !.op = "block", !.id = from,
                                     !.other = from, !.found = {to},
                                     !.edges[to] = task[to].blockedBy \cup {from}]]
    BY <1>5 DEF BlockTask
  <2>2. PICK b : b = task[to].blockedBy \cup {from}
    OBVIOUS
  <2>3. PICK e : e = [Rest.edges EXCEPT ![to] = b]
    OBVIOUS
  <2>4. b \subseteq Id
    BY <2>2 DEF TypeOK, Task
  <2>5. e \in [Id -> SUBSET Id]
    BY <2>3, <2>4, RestIs DEF Local
  <2>6. PICK r : r = [Rest EXCEPT !.pc = "peek", !.op = "block", !.id = from,
                                  !.other = from, !.found = {to}, !.edges = e]
    OBVIOUS
  <2>7. r \in Local /\ r.pc = "peek" /\ r.op = "block" /\ r.id = from /\ r.found = {to}
    <3>1. /\ from \in 0 .. MaxId /\ {to} \in SUBSET Id /\ "peek" \in Phase
          /\ "block" \in Op \cup {"none"}
      BY Ids DEF Phase, Op
    <3>2. Rest \in Local
      BY RestIs
    <3> QED  BY <2>5, <2>6, <3>1, <3>2 DEF Local
  <2>8. r = [Rest EXCEPT !.pc = "peek", !.op = "block", !.id = from, !.other = from,
                         !.found = {to}, !.edges[to] = task[to].blockedBy \cup {from}]
    BY <2>2, <2>3, <2>6
  <2>9. proc' = [proc EXCEPT ![p] = r]
    BY <2>1, <2>8
  <2>10. proc' \in [Proc -> Local] /\ proc'[p] = r /\ Others(p)
    BY <2>7, <2>9, PutIs
  <2>11. {to} \subseteq {t \in Id : Readable(t)}
    BY <2>1
  <2>12. Called(p) /\ proc'[p].op = "block"
    BY <2>1, <2>7, <2>10, <2>11 DEF Called
  <2> QED  BY <1>5, <2>10, <2>12 DEF BlockTask
<1>6. ASSUME NEW q \in Proc, UnassignTeammateTasks(p, q)
      PROVE  /\ proc' \in [Proc -> Local] /\ Others(p) /\ Called(p)
             /\ proc'[p].op = "unassign" /\ proc'[p].target = q
  <2>1. PICK r : r = [Rest EXCEPT !.pc = "readdir", !.op = "unassign", !.target = q]
    OBVIOUS
  <2>2. /\ r \in Local /\ r.pc = "readdir" /\ r.op = "unassign" /\ r.id = 0 /\ r.target = q
        /\ r.found = {}
    BY <2>1, RestIs DEF Local, Phase, Op
  <2> QED  BY <1>6, <2>1, <2>2, PutIs DEF UnassignTeammateTasks, Called
<1>7. CASE \E q \in Proc : UnassignTeammateTasks(p, q)
  BY <1>6, <1>7 DEF UnassignTeammateTasks
<1> QED
  BY <1>1, <1>2, <1>3, <1>4, <1>5, <1>7 DEF Call, CreateTask, ResetTaskList, ClaimNextTask,
     BlockTask, Called

LEMMA Greatest ==
  ASSUME NEW n \in Nat, NEW S, S \subseteq 0 .. n, S # {}
  PROVE  \E h \in S : \A t \in S : h >= t
<1> DEFINE Above(h) == {t \in S : t > h}
           F == {Above(h) : h \in S}
<1>1. IsFiniteSet(S)
  <2>1. 0 \in Int /\ n \in Int
    OBVIOUS
  <2>2. IsFiniteSet(0 .. n)
    BY <2>1, FS_Interval
  <2> QED  BY <2>2, FS_Subset
<1>2. IsWellFoundedOn(StrictSubsetOrdering(S), FiniteSubsetsOf(S))
  BY FS_StrictSubsetOrderingWellFounded
<1>3. F \subseteq FiniteSubsetsOf(S) /\ F # {}
  <2>1. \A h \in S : Above(h) \in SUBSET S
    OBVIOUS
  <2> HIDE DEF Above
  <2>2. \A h \in S : IsFiniteSet(Above(h))
    BY <1>1, <2>1, FS_Subset
  <2> QED  BY <2>1, <2>2 DEF FiniteSubsetsOf
<1>4. PICK x \in F : \A y \in F : ~ (<<y, x>> \in StrictSubsetOrdering(S))
  <2> HIDE DEF F
  <2> QED  BY <1>2, <1>3, WFMin
<1>5. PICK h \in S : x = Above(h)
  OBVIOUS
<1>6. ASSUME NEW t \in S, ~(h >= t)  PROVE FALSE
  <2>0. S \subseteq Int /\ t \in Int /\ h \in Int
    OBVIOUS
  <2>1. Above(t) \subseteq Above(h) /\ t \in Above(h) /\ t \notin Above(t)
    <3>1. t > h /\ ~(t > t)
      BY <1>6, <2>0
    <3>2. \A u \in S : u > t => u > h
      BY <2>0, <3>1
    <3> QED  BY <3>1, <3>2
  <2>2. <<Above(t), Above(h)>> \in StrictSubsetOrdering(S)
    BY <2>1 DEF StrictSubsetOrdering
  <2> QED  BY <1>4, <1>5, <2>2
<1> QED BY <1>6

(* The end of an update: the second half of a claim, the next task, or     *)
(* the end of the operation.                                               *)
Ended(p) ==
  LET me == proc[p]  then == proc'[p] IN
  \/ /\ me.op = "claim"
     /\ then.op = "start" /\ then.pc = "peek" /\ then.id = me.id /\ then.found = me.found
  \/ /\ me.op \in {"block", "cascade", "unassign"} /\ then.op = me.op /\ then.pc = "peek"
     /\ then.target = me.target
     /\ then.id \in me.found /\ then.found = me.found \ {then.id}
  \/ me.op # "claim" /\ then = Rest

WorksOn(p) ==
  /\ working' \in [Proc -> 0 .. MaxId]
  /\ working'[p] = IF proc[p].op = "start" THEN proc[p].id ELSE working[p]
  /\ \A q \in Proc \ {p} : working'[q] = working[q]

LEMMA EndUpdateIs ==
  ASSUME TypeOK, NEW p \in Proc, EndUpdate(p)
  PROVE  proc' \in [Proc -> Local] /\ Others(p) /\ Ended(p) /\ WorksOn(p)
<1>1. WorksOn(p)
  <2>1. proc[p].id \in 0 .. MaxId /\ 0 \in 0 .. MaxId /\ working \in [Proc -> 0 .. MaxId]
    BY LocalFields, Ids DEF TypeOK
  <2> QED  BY <2>1 DEF EndUpdate, WorksOn
<1>2. CASE proc[p].op = "claim"
  <2>1. proc' = [proc EXCEPT ![p].op = "start", ![p].pc = "peek", ![p].base = Blank]
    BY <1>2 DEF EndUpdate
  <2>2. PICK r : r = [proc[p] EXCEPT !.op = "start", !.pc = "peek", !.base = Blank]
    OBVIOUS
  <2>3. proc[p] \in Local /\ Blank \in Task
    BY LocalFields, RestIs DEF Local
  <2>4. r \in Local /\ r.op = "start" /\ r.pc = "peek" /\ r.id = proc[p].id /\ r.found = proc[p].found
    BY <2>2, <2>3 DEF Local, Phase, Op
  <2>5. proc' = [proc EXCEPT ![p] = r]
    BY <2>1, <2>2 DEF TypeOK
  <2> QED  BY <1>1, <1>2, <2>4, <2>5, PutIs DEF Ended
<1>3. CASE proc[p].op \in {"block", "cascade", "unassign"} /\ proc[p].found # {}
  <2>1. PICK t \in proc[p].found :
          proc' = [proc EXCEPT ![p].id = t, ![p].found = @ \ {t}, ![p].pc = "peek",
                               ![p].base = Blank]
    BY <1>3 DEF EndUpdate
  <2>2. PICK r : r = [proc[p] EXCEPT !.id = t, !.found = @ \ {t}, !.pc = "peek", !.base = Blank]
    OBVIOUS
  <2>3. proc[p] \in Local /\ Blank \in Task /\ t \in Id /\ t \in 0 .. MaxId
    BY LocalFields, RestIs, Ids DEF Local
  <2>4. /\ r \in Local /\ r.op = proc[p].op /\ r.pc = "peek" /\ r.id = t
        /\ r.target = proc[p].target /\ r.found = proc[p].found \ {t}
    BY <2>2, <2>3 DEF Local, Phase, Op
  <2>5. proc' = [proc EXCEPT ![p] = r]
    BY <2>1, <2>2 DEF TypeOK
  <2>6. proc' \in [Proc -> Local] /\ proc'[p] = r /\ Others(p)
    BY <2>4, <2>5, PutIs
  <2>7. Ended(p)
    BY <1>3, <2>4, <2>6 DEF Ended
  <2> QED  BY <1>1, <2>6, <2>7
<1>4. CASE proc[p].op # "claim" /\ Return(p)
  BY <1>1, <1>4, ReturnIs DEF Ended
<1> QED  BY <1>2, <1>3, <1>4 DEF EndUpdate

(* Files are listed, then read one by one.                                 *)
LEMMA ReaddirIs ==
  ASSUME TypeOK, NEW p \in Proc,
         \/ Readdir(p) /\ proc[p].pc = "readdir"
         \/ Clear(p) /\ proc[p].pc = "clear"
  PROVE  /\ proc' \in [Proc -> Local] /\ Others(p)
         /\ proc'[p].pc = IF proc[p].pc = "readdir" THEN "reading" ELSE "clearing"
         /\ proc'[p].op = proc[p].op /\ proc'[p].id = proc[p].id
         /\ proc'[p].target = proc[p].target /\ proc'[p].todo = exists
         /\ proc'[p].found = IF proc[p].pc = "readdir" THEN {} ELSE proc[p].found
<1>1. exists \subseteq Id /\ proc[p] \in Local
  BY LocalFields DEF TypeOK
<1>2. CASE Readdir(p) /\ proc[p].pc = "readdir"
  <2>1. PICK r : r = [proc[p] EXCEPT !.pc = "reading", !.todo = exists, !.found = {}]
    OBVIOUS
  <2>2. /\ r \in Local /\ r.pc = "reading" /\ r.op = proc[p].op /\ r.id = proc[p].id
        /\ r.target = proc[p].target /\ r.todo = exists /\ r.found = {}
    BY <1>1, <2>1 DEF Local, Phase
  <2>3. proc' = [proc EXCEPT ![p] = r]
    BY <1>2, <2>1 DEF TypeOK, Readdir
  <2> QED  BY <1>2, <2>2, <2>3, PutIs
<1>3. CASE Clear(p) /\ proc[p].pc = "clear"
  <2>1. PICK r : r = [proc[p] EXCEPT !.pc = "clearing", !.todo = exists]
    OBVIOUS
  <2>2. /\ r \in Local /\ r.pc = "clearing" /\ r.op = proc[p].op /\ r.id = proc[p].id
        /\ r.target = proc[p].target /\ r.todo = exists /\ r.found = proc[p].found
    BY <1>1, <2>1 DEF Local, Phase
  <2>3. proc' = [proc EXCEPT ![p] = r]
    BY <1>3, <2>1 DEF TypeOK, Clear
  <2> QED  BY <1>3, <2>2, <2>3, PutIs
<1> QED  BY <1>2, <1>3

LEMMA ReadOneIs ==
  ASSUME TypeOK, NEW p \in Proc, ReadOne(p)
  PROVE  /\ proc' \in [Proc -> Local] /\ Others(p)
         /\ proc[p].pc = "reading" /\ proc'[p].pc = "reading"
         /\ proc'[p].op = proc[p].op /\ proc'[p].id = proc[p].id
         /\ proc'[p].target = proc[p].target
         /\ \E t \in proc[p].todo :
              proc'[p].found = IF Readable(t) /\ Relevant(p, t) THEN proc[p].found \cup {t}
                                                                ELSE proc[p].found
<1>1. PICK t \in proc[p].todo :
       proc' = [proc EXCEPT ![p].todo = @ \ {t},
                            ![p].found = IF Readable(t) /\ Relevant(p, t) THEN @ \cup {t} ELSE @,
                            ![p].edges[t] = IF proc[p].op = "cascade"
                                              THEN task[t].blockedBy \ {proc[p].other} ELSE @]
  BY DEF ReadOne
<1> DEFINE f == IF Readable(t) /\ Relevant(p, t) THEN proc[p].found \cup {t} ELSE proc[p].found
           e == IF proc[p].op = "cascade" THEN task[t].blockedBy \ {proc[p].other}
                                          ELSE proc[p].edges[t]
           g == [proc[p].edges EXCEPT ![t] = e]
<1>2. proc' = [proc EXCEPT ![p].todo = @ \ {t}, ![p].found = f, ![p].edges[t] = e]
  BY <1>1
<1>3. t \in Id /\ f \subseteq Id /\ e \subseteq Id /\ proc[p] \in Local
  BY LocalFields DEF TypeOK, Task
<1> HIDE DEF f, e
<1>4. PICK r : r = [proc[p] EXCEPT !.todo = @ \ {t}, !.found = f, !.edges = g]
  OBVIOUS
<1>5. proc' = [proc EXCEPT ![p] = r]
  BY <1>2, <1>4 DEF TypeOK
<1>6. g \in [Id -> SUBSET Id]
  BY <1>3, LocalFields
<1> HIDE DEF g
<1>7. r \in Local /\ r.pc = proc[p].pc /\ r.op = proc[p].op /\ r.id = proc[p].id
      /\ r.target = proc[p].target /\ r.found = f
  BY <1>3, <1>4, <1>6 DEF Local
<1>8. proc[p].pc = "reading"
  BY DEF ReadOne, At
<1> QED  BY <1>5, <1>7, <1>8, PutIs DEF f

(* What the list's lock is taken for: the highest id is looked for in the   *)
(* files and in the high-water mark.                                       *)
LEMMA GreatestFile ==
  ASSUME TypeOK
  PROVE  LET highest == CHOOSE h \in exists \cup {0} : \A t \in exists : h >= t
         IN  highest \in exists \cup {0} /\ highest \in 0 .. MaxId /\ \A t \in exists : highest >= t
<1>1. MaxId \in Nat /\ exists \subseteq 0 .. MaxId
  BY TaskListAssumption, Ids DEF TypeOK
<1>2. \E h \in exists \cup {0} : \A t \in exists : h >= t
  <2>1. CASE exists = {}
    BY <2>1
  <2>2. CASE exists # {}
    BY <1>1, <2>2, Greatest
  <2> QED  BY <2>1, <2>2
<1> QED  BY <1>1, <1>2, Ids

LEMMA HigherIs ==
  ASSUME NEW a \in 0 .. MaxId, NEW b \in 0 .. MaxId
  PROVE  /\ Higher(a, b) \in {a, b} /\ Higher(a, b) \in 0 .. MaxId
         /\ Higher(a, b) >= a /\ Higher(a, b) >= b
BY TaskListAssumption DEF Higher

HighestRead(p, source, h) ==
  /\ proc' \in [Proc -> Local] /\ Others(p)
  /\ proc[p].pc = "highest" /\ source \in proc[p].reads
  /\ proc'[p].reads = proc[p].reads \ {source} /\ proc'[p].high = Higher(proc[p].high, h)
  /\ proc'[p].op = proc[p].op /\ proc'[p].id = proc[p].id /\ proc'[p].found = proc[p].found
  /\ proc'[p].target = proc[p].target

LEMMA HighestFileIs ==
  ASSUME TypeOK, NEW p \in Proc, ReadHighestFile(p)
  PROVE  /\ \E h \in exists \cup {0} :
              (\A t \in exists : h >= t) /\ HighestRead(p, "files", h)
         /\ proc'[p].pc = IF proc[p].op = "reset" THEN "readMark" ELSE "highest"
<1> DEFINE h == CHOOSE h \in exists \cup {0} : \A t \in exists : h >= t
<1>1. h \in exists \cup {0} /\ h \in 0 .. MaxId /\ \A t \in exists : h >= t
  BY GreatestFile
<1>0. proc' = [proc EXCEPT ![p].reads = @ \ {"files"}, ![p].high = Higher(@, h),
                           ![p].pc = IF proc[p].op = "reset" THEN "readMark" ELSE @]
  BY DEF ReadHighestFile
<1> HIDE DEF h
<1>2. proc[p] \in Local /\ proc[p].high \in 0 .. MaxId
  BY LocalFields
<1>3. Higher(proc[p].high, h) \in 0 .. MaxId
  BY <1>1, <1>2, HigherIs
<1>4. PICK r : r = [proc[p] EXCEPT !.reads = @ \ {"files"}, !.high = Higher(@, h),
                                   !.pc = IF proc[p].op = "reset" THEN "readMark" ELSE @]
  OBVIOUS
<1>5. proc[p].pc = "highest" /\ "files" \in proc[p].reads
  BY DEF ReadHighestFile, At
<1>6. /\ r \in Local /\ r.reads = proc[p].reads \ {"files"}
      /\ r.high = Higher(proc[p].high, h)
      /\ r.pc = IF proc[p].op = "reset" THEN "readMark" ELSE "highest"
      /\ r.op = proc[p].op /\ r.id = proc[p].id /\ r.found = proc[p].found
      /\ r.target = proc[p].target
  BY <1>2, <1>3, <1>4, <1>5 DEF Local, Phase
<1>7. proc' = [proc EXCEPT ![p] = r]
  BY <1>0, <1>4 DEF TypeOK
<1> QED  BY <1>1, <1>5, <1>6, <1>7, PutIs DEF HighestRead

LEMMA HighestMarkIs ==
  ASSUME TypeOK, NEW p \in Proc, ReadHighestMark(p)
  PROVE  HighestRead(p, "mark", mark) /\ proc'[p].pc = "highest"
<1>2. proc[p] \in Local /\ proc[p].high \in 0 .. MaxId /\ mark \in 0 .. MaxId
  BY LocalFields DEF TypeOK
<1>3. Higher(proc[p].high, mark) \in 0 .. MaxId
  BY <1>2, HigherIs
<1>4. PICK r : r = [proc[p] EXCEPT !.reads = @ \ {"mark"}, !.high = Higher(@, mark)]
  OBVIOUS
<1>5. proc[p].pc = "highest" /\ "mark" \in proc[p].reads
  BY DEF ReadHighestMark, At
<1>6. /\ r \in Local /\ r.reads = proc[p].reads \ {"mark"}
      /\ r.high = Higher(proc[p].high, mark) /\ r.pc = "highest"
      /\ r.op = proc[p].op /\ r.id = proc[p].id /\ r.found = proc[p].found
      /\ r.target = proc[p].target
  BY <1>2, <1>3, <1>4, <1>5 DEF Local
<1>7. proc' = [proc EXCEPT ![p] = r]
  BY <1>4 DEF TypeOK, ReadHighestMark
<1> QED  BY <1>5, <1>6, <1>7, PutIs DEF HighestRead

LEMMA NewTaskIs ==
  ASSUME TypeOK, NEW p \in Proc, WriteNewTask(p)
  PROVE  /\ proc' \in [Proc -> Local] /\ Others(p)
         /\ proc'[p].pc = "fill" /\ proc'[p].op = proc[p].op /\ proc'[p].id = proc[p].high + 1
         /\ proc'[p].found = proc[p].found
         /\ proc[p].high + 1 \in Id
<1>1. PICK t : t = proc[p].high + 1
  OBVIOUS
<1>2. PICK r : r = [proc[p] EXCEPT !.pc = "fill", !.id = t]
  OBVIOUS
<1>3. proc[p] \in Local /\ t \in Id /\ t \in 0 .. MaxId
  BY <1>1, LocalFields, Ids DEF WriteNewTask
<1>4. /\ r \in Local /\ r.pc = "fill" /\ r.op = proc[p].op /\ r.id = t
      /\ r.found = proc[p].found
  BY <1>2, <1>3 DEF Local, Phase
<1>5. proc' = [proc EXCEPT ![p] = r]
  BY <1>1, <1>2 DEF TypeOK, WriteNewTask
<1> QED  BY <1>1, <1>3, <1>4, <1>5, PutIs

(* A file is removed: whoever has it open writes into nothing.             *)
Orphans(p, t) ==
  \A q \in Proc \ {p} : IF proc[q].pc = "fill" /\ proc[q].id = t
                          THEN proc'[q].pc = "fillGone" /\ Keeps(q) ELSE proc'[q] = proc[q]

LEMMA OrphanedIs ==
  ASSUME TypeOK, NEW p \in Proc, NEW r \in Local, NEW t, r.pc # "fill",
         proc' = Orphaned([proc EXCEPT ![p] = r], t)
  PROVE  proc' \in [Proc -> Local] /\ proc'[p] = r /\ Orphans(p, t)
<1> DEFINE f == [proc EXCEPT ![p] = r]
<1>1. f \in [Proc -> Local] /\ f[p] = r /\ \A q \in Proc \ {p} : f[q] = proc[q]
  BY DEF TypeOK
<1> HIDE DEF f
<1>2. proc' = [q \in Proc |-> IF f[q].pc = "fill" /\ f[q].id = t
                                THEN [f[q] EXCEPT !.pc = "fillGone"] ELSE f[q]]
  BY DEF Orphaned, f
<1>3. ASSUME NEW q \in Proc, NEW s, s = [f[q] EXCEPT !.pc = "fillGone"]
      PROVE  /\ s \in Local /\ s.pc = "fillGone" /\ s.op = f[q].op /\ s.id = f[q].id
             /\ s.target = f[q].target /\ s.found = f[q].found /\ s.base = f[q].base
             /\ s.high = f[q].high /\ s.reads = f[q].reads /\ s.todo = f[q].todo
  BY <1>1, <1>3 DEF Local, Phase
<1>4. proc' \in [Proc -> Local]
  BY <1>1, <1>2, <1>3
<1>5. proc'[p] = r
  BY <1>1, <1>2
<1>6. Orphans(p, t)
  <2> SUFFICES ASSUME NEW q \in Proc \ {p}
               PROVE  IF proc[q].pc = "fill" /\ proc[q].id = t
                        THEN proc'[q].pc = "fillGone" /\ Keeps(q) ELSE proc'[q] = proc[q]
    BY DEF Orphans
  <2>1. f[q] = proc[q]
    BY <1>1
  <2>2. CASE proc[q].pc = "fill" /\ proc[q].id = t
    <3>1. proc'[q] = [f[q] EXCEPT !.pc = "fillGone"]
      BY <1>2, <2>1, <2>2
    <3> QED  BY <1>3, <2>1, <2>2, <3>1 DEF Keeps
  <2>3. CASE ~(proc[q].pc = "fill" /\ proc[q].id = t)
    BY <1>2, <2>1, <2>3
  <2> QED  BY <2>2, <2>3
<1> QED  BY <1>4, <1>5, <1>6

LEMMA UnlinkIs ==
  ASSUME TypeOK, NEW p \in Proc, Unlink(p), proc[p].id \in exists
  PROVE  /\ proc' \in [Proc -> Local] /\ Orphans(p, proc[p].id)
         /\ proc'[p].pc = "readdir" /\ proc'[p].op = "cascade" /\ proc'[p].id = proc[p].id
         /\ proc'[p].found = proc[p].found
<1>1. PICK t : t = proc[p].id
  OBVIOUS
<1>2. PICK r : r = [proc[p] EXCEPT !.pc = "readdir", !.op = "cascade", !.other = t]
  OBVIOUS
<1>3. proc[p] \in Local
  BY LocalFields
<1>4. /\ r \in Local /\ r.pc = "readdir" /\ r.op = "cascade" /\ r.id = proc[p].id
      /\ r.found = proc[p].found
  BY <1>1, <1>2, <1>3 DEF Local, Phase, Op
<1>5. [proc EXCEPT ![p].pc = "readdir", ![p].op = "cascade", ![p].other = t]
       = [proc EXCEPT ![p] = r]
  BY <1>2 DEF TypeOK
<1>6. proc' = Orphaned([proc EXCEPT ![p] = r], t)
  BY <1>1, <1>5 DEF Unlink
<1> QED  BY <1>1, <1>4, <1>6, OrphanedIs

LEMMA ClearOneIs ==
  ASSUME TypeOK, NEW p \in Proc, NEW t, ClearOne(p),
         proc' = Orphaned([proc EXCEPT ![p].todo = @ \ {t}], t)
  PROVE  /\ proc' \in [Proc -> Local] /\ Orphans(p, t)
         /\ proc[p].pc = "clearing" /\ proc'[p].pc = "clearing"
         /\ proc'[p].op = proc[p].op /\ proc'[p].id = proc[p].id
         /\ proc'[p].found = proc[p].found
<1>1. PICK r : r = [proc[p] EXCEPT !.todo = @ \ {t}]
  OBVIOUS
<1>2. proc[p] \in Local /\ proc[p].pc = "clearing"
  BY LocalFields DEF ClearOne, At
<1>3. /\ r \in Local /\ r.pc = proc[p].pc /\ r.op = proc[p].op /\ r.id = proc[p].id
      /\ r.found = proc[p].found
  BY <1>1, <1>2 DEF Local
<1>4. [proc EXCEPT ![p].todo = @ \ {t}] = [proc EXCEPT ![p] = r]
  BY <1>1 DEF TypeOK
<1> QED  BY <1>2, <1>3, <1>4, OrphanedIs

LEMMA CrashIs ==
  ASSUME TypeOK, NEW p \in Proc, Crash(p)
  PROVE  /\ proc' \in [Proc -> Local] /\ Others(p)
         /\ proc'[p].pc = "dead" /\ proc'[p].op = "none" /\ proc'[p].id = 0
         /\ proc'[p].found = {}
         /\ proc[p].pc # "dead"
<1>1. PICK r : r = [Rest EXCEPT !.pc = "dead"]
  OBVIOUS
<1>2. r \in Local /\ r.pc = "dead" /\ r.op = "none" /\ r.id = 0 /\ r.found = {}
  BY <1>1, RestIs DEF Local, Phase
<1> QED  BY <1>1, <1>2, PutIs DEF Crash, Dead

-----------------------------------------------------------------------------
(* Types and places.                                                       *)

LEMMA PlacesKeep ==
  ASSUME Typed, NEW p \in Proc, UNCHANGED <<ops, leaving>>, PlaceOf(p)',
         Others(p) \/ \E t : Orphans(p, t),
         \A q \in Proc \ {p} : working'[q] = working[q]
  PROVE  Places'
<1> SUFFICES ASSUME NEW q \in Proc \ {p}  PROVE PlaceOf(q)'
  BY DEF Places
<1>1. PlaceOf(q) /\ working'[q] = working[q]
  BY DEF Typed, Places
<1>2. CASE proc'[q] = proc[q]
  BY <1>1, <1>2 DEF PlaceOf
<1>3. CASE proc[q].pc = "fill" /\ proc'[q].pc = "fillGone" /\ Keeps(q)
  BY <1>1, <1>3 DEF PlaceOf, Keeps, TaskPhase, MarkPhase, StatusOp
<1> QED  BY <1>2, <1>3 DEF Others, Orphans

(* A step of p by which it stays in its operation, or leaves it.           *)
LEMMA MoveTyped ==
  ASSUME Typed, NEW p \in Proc, UNCHANGED <<ops, leaving, working>>,
         proc' \in [Proc -> Local], Others(p) \/ \E t : Orphans(p, t),
         PlaceOf(p)',
         exists' \subseteq Id /\ torn' \subseteq exists' /\ task' \in [Id -> Task],
         mark' \in 0 .. MaxId, listLock' \in Proc \cup {None}, lock' \in [Id -> Proc \cup {None}],
         given' \in [Id -> 0 .. 2], done' \subseteq Id, retired' = retired
  PROVE  Typed'
<1>1. Places'
  BY PlacesKeep
<1>2. TypeOK'
  BY DEF Typed, TypeOK
<1> QED  BY <1>1, <1>2 DEF Typed

LEMMA RestPlaced ==
  ASSUME Typed, NEW p \in Proc, proc'[p] = Rest, UNCHANGED <<ops, leaving>>,
         working'[p] = working[p] \/ proc[p].op = "start"
  PROVE  PlaceOf(p)'
<1>1. PlaceOf(p)
  BY DEF Typed, Places
<1>2. CASE working'[p] = working[p]
  BY <1>1, <1>2, RestIs DEF PlaceOf, TaskPhase, MarkPhase, StatusOp
<1>3. CASE proc[p].op = "start"
  BY <1>1, <1>3, RestIs DEF PlaceOf, TaskPhase, MarkPhase, StatusOp
<1> QED  BY <1>2, <1>3

LEMMA CallTyped ==
  ASSUME Typed, NEW p \in Proc, Call(p), UNCHANGED <<ops, leaving>>
  PROVE  Typed'
<1>1. /\ proc' \in [Proc -> Local] /\ Others(p) /\ Called(p)
      /\ proc[p].pc = "idle" /\ proc'[p].op \in ops
      /\ retired' = IF proc'[p].op = "unassign" THEN retired \cup {proc'[p].target} ELSE retired
      /\ UNCHANGED <<files, mark, listLock, lock, working, given, done>>
      /\ PlaceOf(p) /\ \A q \in Proc \ {p} : working'[q] = working[q]
  BY CallIs DEF Typed, Places
<1>2. PlaceOf(p)'
  BY <1>1 DEF Called, PlaceOf, TaskPhase, MarkPhase, ToolOp, StatusOp
<1>3. Places'
  <2>1. Others(p) \/ \E t : Orphans(p, t)
    BY <1>1
  <2>2. \A q \in Proc \ {p} : working'[q] = working[q]
    BY <1>1
  <2>3. Typed /\ UNCHANGED <<ops, leaving>>
    OBVIOUS
  <2> QED  BY ONLY <1>2, <2>1, <2>2, <2>3, p \in Proc, PlacesKeep
<1>4. retired' \subseteq Proc
  <2>1. proc'[p].op = "unassign" => proc'[p].target \in Proc
    BY <1>1 DEF Called, ToolOp, StatusOp
  <2>2. retired \subseteq Proc
    BY DEF Typed, TypeOK
  <2> QED  BY ONLY <1>1, <2>1, <2>2
<1>5. TypeOK'
  BY <1>1, <1>4 DEF Typed, TypeOK, files
<1> QED  BY <1>3, <1>5 DEF Typed

LEMMA EndUpdateTyped ==
  ASSUME Typed, NEW p \in Proc, EndUpdate(p), UNCHANGED <<ops, leaving>>,
         exists' \subseteq Id /\ torn' \subseteq exists' /\ task' \in [Id -> Task],
         UNCHANGED <<mark, listLock, given, retired>>,
         lock' \in [Id -> Proc \cup {None}], done' \subseteq Id
  PROVE  Typed'
<1>1. proc' \in [Proc -> Local] /\ Others(p) /\ Ended(p) /\ WorksOn(p)
  BY EndUpdateIs DEF Typed
<1>2. PlaceOf(p) /\ proc[p].found \subseteq Id
  BY LocalFields DEF Typed, Places
<1>3. PlaceOf(p)'
  <2>1. CASE proc'[p] = Rest
    BY <1>1, <2>1, RestPlaced DEF WorksOn
  <2>2. CASE proc[p].op = "claim"
    BY <1>1, <1>2, <2>2, RestIs DEF Ended, WorksOn, PlaceOf, TaskPhase, MarkPhase, StatusOp
  <2>3. CASE proc[p].op \in {"block", "cascade", "unassign"} /\ proc'[p] # Rest
    BY <1>1, <1>2, <2>3 DEF Ended, WorksOn, PlaceOf, TaskPhase, MarkPhase, StatusOp
  <2> QED  BY <1>1, <2>1, <2>2, <2>3 DEF Ended
<1>4. Places'
  BY <1>1, <1>3, PlacesKeep DEF WorksOn
<1>5. TypeOK'
  BY <1>1 DEF Typed, TypeOK, WorksOn
<1> QED  BY <1>4, <1>5 DEF Typed

LEMMA LocksTyped ==
  ASSUME Typed, NEW t, NEW h \in Proc \cup {None}
  PROVE  [lock EXCEPT ![t] = h] \in [Id -> Proc \cup {None}] /\ None \in Proc \cup {None}
BY DEF Typed, TypeOK

(* Steps that only move p to another phase.                                *)
LEMMA GoTyped ==
  ASSUME Typed, NEW p \in Proc, NEW x \in Phase, Go(p, x), UNCHANGED <<ops, leaving, working, given, done, retired>>,
         \/ x = proc[p].pc
         \/ x = "fill" /\ proc[p].pc = "write"
         \/ x \in MarkPhase \cup {"unlink"} /\ proc[p].op = "delete"
         \/ x \in MarkPhase \cup {"highest", "clear"} /\ proc[p].op = "reset"
         \/ x = "highest" /\ proc[p].op = "create"
         \/ x = "taskLock" /\ proc[p].pc = "peek"
         \/ x \in {"reread", "read"} /\ proc[p].op = "claim"
         \/ x = "read" /\ proc[p].pc = "taskLock",
         exists' \subseteq Id /\ torn' \subseteq exists' /\ task' \in [Id -> Task],
         mark' \in 0 .. MaxId, listLock' \in Proc \cup {None}, lock' \in [Id -> Proc \cup {None}]
  PROVE  Typed'
<1>1. PlaceOf(p) /\ TypeOK
  BY DEF Typed, Places
<1>2. proc' \in [Proc -> Local] /\ Others(p) /\ Keeps(p) /\ proc'[p].pc = x
  BY <1>1, GoIs
<1>3. PlaceOf(p)'
  BY <1>1, <1>2 DEF Keeps, PlaceOf, TaskPhase, MarkPhase, StatusOp
<1> QED  BY <1>1, <1>2, <1>3, MoveTyped DEF TypeOK

LEMMA PeekTyped ==
  ASSUME Typed, NEW p \in Proc, Peek(p), UNCHANGED <<ops, leaving>>
  PROVE  Typed'
<1>1. proc[p].pc = "peek" /\ UNCHANGED <<exists, torn, task, mark, listLock, lock, retired, given, done>>
  BY DEF Peek, At, files
<1>2. PlaceOf(p) /\ TypeOK
  BY DEF Typed, Places
<1>3. CASE Go(p, "taskLock") /\ UNCHANGED working
  BY <1>1, <1>2, <1>3, GoTyped DEF TypeOK, Phase
<1>4. CASE Return(p) /\ UNCHANGED working
  BY <1>1, <1>2, <1>4, ReturnIs, RestPlaced, MoveTyped DEF TypeOK
<1>5. CASE EndUpdate(p) /\ proc[p].op # "claim"
  BY <1>1, <1>2, <1>5, EndUpdateTyped DEF TypeOK
<1> QED  BY <1>3, <1>4, <1>5 DEF Peek

LEMMA TakeLockTyped ==
  ASSUME Typed, NEW p \in Proc, TakeLock(p), UNCHANGED <<ops, leaving>>
  PROVE  Typed'
<1>1. TypeOK /\ proc[p].id \in 0 .. MaxId /\ PlaceOf(p)
  BY LocalFields DEF Typed, Places
<1>2. CASE TakeTaskLock(p)
  <2>1. PICK x \in Phase : x = IF proc[p].op = "claim" THEN "reread" ELSE "read"
    BY DEF Phase
  <2>2. Go(p, x) /\ proc[p].pc = "taskLock" /\ lock' = [lock EXCEPT ![proc[p].id] = p]
        /\ UNCHANGED <<exists, torn, task, mark, listLock, working, retired, given, done>>
    BY <1>2, <2>1 DEF TakeTaskLock, At, files
  <2>3. lock' \in [Id -> Proc \cup {None}]
    BY <2>2, LocksTyped
  <2> QED  BY <1>1, <2>1, <2>2, <2>3, GoTyped DEF TypeOK
<1>3. CASE TakeListLock(p)
  <2>1. Go(p, "highest") /\ proc[p].pc = "listLock" /\ listLock' = p
        /\ UNCHANGED <<exists, torn, task, mark, lock, working, retired, given, done>>
    BY <1>3 DEF TakeListLock, At, files
  <2>2. "highest" \in Phase /\ proc[p].op \in {"create", "reset"}
    BY <1>1, <2>1, LocalFields DEF Phase, Op, PlaceOf, TaskPhase, MarkPhase, ToolOp, StatusOp
  <2> QED  BY <1>1, <2>1, <2>2, GoTyped DEF TypeOK
<1> QED  BY <1>2, <1>3 DEF TakeLock

LEMMA LeaveTyped ==
  ASSUME Typed, NEW p \in Proc, Return(p), UNCHANGED <<ops, leaving, working, given, retired>>,
         exists' \subseteq Id /\ torn' \subseteq exists' /\ task' \in [Id -> Task],
         mark' \in 0 .. MaxId, listLock' \in Proc \cup {None}, lock' \in [Id -> Proc \cup {None}],
         done' \subseteq Id
  PROVE  Typed'
<1>1. TypeOK
  BY DEF Typed
<1> QED  BY <1>1, ReturnIs, RestPlaced, MoveTyped DEF TypeOK

LEMMA LockFailsTyped ==
  ASSUME Typed, NEW p \in Proc, LockFails(p), UNCHANGED <<ops, leaving>>
  PROVE  Typed'
BY LeaveTyped DEF LockFails, Typed, TypeOK, files

(* A read under the lock.                                                  *)
LEMMA BaseTyped ==
  ASSUME Typed, NEW p \in Proc, NEW x \in Phase, NEW t \in Id,
         KeepsTask(p, x, task[t]),
         \/ x = "readdir" /\ proc[p].op = "claim"
         \/ x = "write" /\ proc[p].pc = "read",
         UNCHANGED <<ops, leaving, working, given, done, retired, exists, torn, task, mark, listLock, lock>>
  PROVE  Typed'
<1>1. PlaceOf(p) /\ TypeOK
  BY DEF Typed, Places
<1>2. task[t] \in Task
  BY <1>1 DEF TypeOK
<1>3. /\ proc' \in [Proc -> Local] /\ Others(p) /\ proc'[p].pc = x /\ proc'[p].base = task[t]
      /\ proc'[p].op = proc[p].op /\ proc'[p].id = proc[p].id
      /\ proc'[p].target = proc[p].target /\ proc'[p].found = proc[p].found
  BY <1>1, <1>2, BaseIs
<1>4. PlaceOf(p)'
  BY <1>1, <1>3 DEF PlaceOf, TaskPhase, MarkPhase, StatusOp
<1> QED  BY <1>1, <1>3, <1>4, MoveTyped DEF TypeOK

LEMMA RereadTyped ==
  ASSUME Typed, NEW p \in Proc, Reread(p), UNCHANGED <<ops, leaving>>
  PROVE  Typed'
<1>1. /\ TypeOK /\ PlaceOf(p) /\ proc[p].pc = "reread" /\ proc[p].op \in Op \cup {"none"}
      /\ UNCHANGED <<exists, torn, task, mark, listLock, working, retired, given, done>>
  BY LocalFields DEF Typed, Places, Reread, At, files
<1>2. proc[p].op = "claim" /\ proc[p].id \in Id
  BY <1>1 DEF PlaceOf, TaskPhase, MarkPhase, Op, ToolOp, StatusOp
<1>3. CASE KeepsTask(p, "readdir", task[proc[p].id]) /\ UNCHANGED lock
  BY <1>1, <1>2, <1>3, BaseTyped DEF Phase
<1>4. CASE Return(p) /\ Unlock(proc[p].id)
  BY <1>1, <1>4, LeaveTyped, LocksTyped DEF Unlock, TypeOK
<1> QED  BY <1>3, <1>4 DEF Reread, KeepsTask

LEMMA ReadTyped ==
  ASSUME Typed, NEW p \in Proc, Read(p), UNCHANGED <<ops, leaving>>
  PROVE  Typed'
<1>1. /\ TypeOK /\ PlaceOf(p) /\ proc[p].pc = "read" /\ proc[p].op \in Op \cup {"none"}
      /\ UNCHANGED <<exists, torn, task, mark, listLock, retired, given, done>>
  BY LocalFields DEF Typed, Places, Read, At, files
<1>2. proc[p].id \in Id
  BY <1>1 DEF PlaceOf, TaskPhase, MarkPhase, Op, ToolOp, StatusOp
<1>3. CASE KeepsTask(p, "write", task[proc[p].id]) /\ UNCHANGED <<lock, working>>
  BY <1>1, <1>2, <1>3, BaseTyped DEF Phase
<1>4. CASE EndUpdate(p) /\ Unlock(proc[p].id)
  BY <1>1, <1>4, EndUpdateTyped, LocksTyped DEF Unlock, TypeOK
<1> QED  BY <1>3, <1>4 DEF Read, KeepsTask

LEMMA ListTyped ==
  ASSUME Typed, NEW p \in Proc, Readdir(p) \/ Clear(p) \/ ReadOne(p), UNCHANGED <<ops, leaving>>
  PROVE  Typed'
<1>1. /\ TypeOK /\ PlaceOf(p) /\ proc[p].op \in Op \cup {"none"}
      /\ UNCHANGED <<exists, torn, task, mark, listLock, lock, working, retired, given, done>>
  BY LocalFields DEF Typed, Places, Readdir, Clear, ReadOne, files
<1>2. /\ proc' \in [Proc -> Local] /\ Others(p)
      /\ proc'[p].op = proc[p].op /\ proc'[p].id = proc[p].id
      /\ proc'[p].target = proc[p].target
      /\ \/ proc[p].pc \in {"readdir", "reading"} /\ proc'[p].pc = "reading"
         \/ proc[p].pc = "clear" /\ proc'[p].pc = "clearing"
  BY <1>1, ReaddirIs, ReadOneIs DEF Readdir, Clear, At
<1>3. PlaceOf(p)'
  BY <1>1, <1>2 DEF PlaceOf, TaskPhase, MarkPhase, Op, ToolOp, StatusOp
<1> QED  BY <1>1, <1>2, <1>3, MoveTyped DEF TypeOK

LEMMA ListedTyped ==
  ASSUME Typed, NEW p \in Proc, Listed(p), UNCHANGED <<ops, leaving>>
  PROVE  Typed'
<1>1. /\ TypeOK /\ "read" \in Phase
      /\ UNCHANGED <<exists, torn, task, mark, listLock, retired, given, done>>
  BY DEF Typed, Listed, files, Phase
<1>2. CASE EndUpdate(p) /\ UNCHANGED lock
  BY <1>1, <1>2, EndUpdateTyped DEF TypeOK
<1>3. CASE Go(p, "read") /\ UNCHANGED <<lock, working>> /\ proc[p].op = "claim"
  BY <1>1, <1>3, GoTyped DEF TypeOK
<1>4. CASE Return(p) /\ Unlock(proc[p].id) /\ UNCHANGED working
  BY <1>1, <1>4, LeaveTyped, LocksTyped DEF Unlock, TypeOK
<1> QED  BY <1>2, <1>3, <1>4 DEF Listed

LEMMA HighestTyped ==
  ASSUME Typed, NEW p \in Proc, ReadHighestFile(p) \/ ReadHighestMark(p), UNCHANGED <<ops, leaving>>
  PROVE  Typed'
<1>1. /\ TypeOK /\ PlaceOf(p) /\ proc[p].pc = "highest" /\ proc[p].op \in Op \cup {"none"}
      /\ UNCHANGED <<exists, torn, task, mark, listLock, lock, working, retired, given, done>>
  BY LocalFields DEF Typed, Places, TypeOK, ReadHighestFile, ReadHighestMark, At, files
<1>2. proc[p].op \in {"create", "reset"}
  BY <1>1 DEF PlaceOf, TaskPhase, MarkPhase, Op, ToolOp, StatusOp
<1>3. /\ proc' \in [Proc -> Local] /\ Others(p)
      /\ proc'[p].pc = "highest" \/ (proc'[p].pc = "readMark" /\ proc[p].op = "reset")
      /\ proc'[p].op = proc[p].op /\ proc'[p].id = proc[p].id
  BY <1>1, HighestFileIs, HighestMarkIs DEF HighestRead
<1>4. PlaceOf(p)'
  BY <1>1, <1>2, <1>3 DEF PlaceOf, TaskPhase, MarkPhase, StatusOp
<1> QED  BY <1>1, <1>3, <1>4, MoveTyped DEF TypeOK

(* The file operations keep the types of the files.                        *)
LEMMA TruncateTyped ==
  ASSUME TypeOK, NEW t \in Id, Truncate(t)
  PROVE  exists' \subseteq Id /\ torn' \subseteq exists' /\ task' \in [Id -> Task]
BY RestIs DEF TypeOK, Truncate, Local

LEMMA RemovedTyped ==
  ASSUME TypeOK, NEW t \in Id, Removed(t)
  PROVE  exists' \subseteq Id /\ torn' \subseteq exists' /\ task' \in [Id -> Task]
BY RestIs DEF TypeOK, Removed, Local

LEMMA WriteTyped ==
  ASSUME Typed, NEW p \in Proc, Write(p), UNCHANGED <<ops, leaving>>
  PROVE  Typed'
<1>1. /\ TypeOK /\ PlaceOf(p) /\ proc[p].pc = "write" /\ proc[p].op \in Op \cup {"none"}
      /\ Truncate(proc[p].id) /\ Go(p, "fill") /\ "fill" \in Phase
      /\ UNCHANGED <<mark, listLock, lock, working, retired, given, done>>
  BY LocalFields DEF Typed, Places, Write, At, files, Phase
<1>2. proc[p].id \in Id
  BY <1>1 DEF PlaceOf, TaskPhase, MarkPhase, Op, ToolOp, StatusOp
<1> QED  BY <1>1, <1>2, TruncateTyped, GoTyped DEF TypeOK

(* What an update writes, and what it never changes.                       *)
UpdateOp == StatusOp \cup {"claim", "start", "assign", "unassign", "cascade", "block", "edit", "create"}

LEMMA TwoFields ==
  ASSUME NEW b \in Task, NEW o \in Proc \cup {None}, NEW st \in Status,
         NEW u, u = [b EXCEPT !.owner = o, !.status = st]
  PROVE  u \in Task /\ u.owner = o
<1>1. PICK c : c = [b EXCEPT !.owner = o]
  OBVIOUS
<1>2. c = [owner |-> o, status |-> b.status, blockedBy |-> b.blockedBy]
  BY <1>1 DEF Task
<1>3. u = [owner |-> o, status |-> st, blockedBy |-> b.blockedBy]
  BY <1>1, <1>2
<1> QED  BY <1>3 DEF Task

LEMMA UpdatedIs ==
  ASSUME TypeOK, NEW p \in Proc, PlaceOf(p), NEW b \in Task, proc[p].op \in UpdateOp, proc[p].id \in Id
  PROVE  /\ Updated(p, b) \in Task
         /\ Updated(p, b).owner = CASE proc[p].op \in {"claim", "take"} -> p
                                    [] proc[p].op = "assign" -> proc[p].target
                                    [] proc[p].op \in {"unassign", "create"} -> None
                                    [] OTHER -> b.owner
<1>1. /\ proc[p].edges[proc[p].id] \subseteq Id /\ Blank \in Task
      /\ proc[p].op = "assign" => proc[p].target \in Proc
  BY LocalFields, RestIs DEF Local, PlaceOf
<1>11. Blank.owner = None
  BY DEF Blank
<1>2. /\ \A o \in Proc \cup {None} : [b EXCEPT !.owner = o] \in Task
      /\ \A st \in Status : [b EXCEPT !.status = st] \in Task
      /\ \A o \in Proc \cup {None}, st \in Status : [b EXCEPT !.owner = o, !.status = st] \in Task
      /\ \A e \in SUBSET Id : [b EXCEPT !.blockedBy = e] \in Task
  BY DEF Task
<1>3. \A op \in StatusOp \cup {"start", "unassign"} : NewStatus(op) \in Status
  BY DEF StatusOp, NewStatus, Status
<1>4. CASE proc[p].op \in {"claim", "assign"}
  <2>1. PICK o \in Proc : o = IF proc[p].op = "claim" THEN p ELSE proc[p].target
    BY <1>1, <1>4
  <2>2. Updated(p, b) = [b EXCEPT !.owner = o]
    BY <1>4, <2>1 DEF Updated
  <2>3. Updated(p, b).owner = o
    BY <2>2 DEF Task
  <2> QED  BY <1>2, <1>4, <2>1, <2>2, <2>3
<1>5. CASE proc[p].op = "take"
  <2>1. Updated(p, b) = [b EXCEPT !.owner = p, !.status = NewStatus("take")]
    BY <1>5 DEF Updated
  <2>2. NewStatus("take") \in Status /\ p \in Proc \cup {None}
    BY <1>3 DEF StatusOp
  <2>3. PICK u, st : u = Updated(p, b) /\ st = NewStatus("take")
    OBVIOUS
  <2>4. u = [b EXCEPT !.owner = p, !.status = st]
    BY <2>1, <2>3, Zenon
  <2>5. u \in Task /\ u.owner = p
    BY <2>2, <2>3, <2>4, TwoFields
  <2> QED  BY <1>5, <2>3, <2>5
<1>6. CASE proc[p].op = "unassign"
  <2>1. Updated(p, b) = [b EXCEPT !.owner = None, !.status = NewStatus("unassign")]
    BY <1>6 DEF Updated
  <2>2. NewStatus("unassign") \in Status /\ None \in Proc \cup {None}
    BY <1>3 DEF StatusOp
  <2>3. PICK u, st : u = Updated(p, b) /\ st = NewStatus("unassign")
    OBVIOUS
  <2>4. u = [b EXCEPT !.owner = None, !.status = st]
    BY <2>1, <2>3, Zenon
  <2>5. u \in Task /\ u.owner = None
    BY <2>2, <2>3, <2>4, TwoFields
  <2> QED  BY <1>6, <2>3, <2>5
<1>7. CASE proc[p].op \in {"start", "complete", "reopen", "resume"}
  <2>1. Updated(p, b) = [b EXCEPT !.status = NewStatus(proc[p].op)]
    BY <1>7 DEF Updated
  <2>2. Updated(p, b).owner = b.owner
    BY <2>1 DEF Task
  <2>3. Updated(p, b) \in Task
    BY <1>2, <1>3, <1>7, <2>1 DEF StatusOp
  <2> QED  BY <1>7, <2>2, <2>3
<1>8. CASE proc[p].op = "cascade" \/ (proc[p].op = "block" /\ proc[p].id # proc[p].other)
  <2>1. Updated(p, b) = [b EXCEPT !.blockedBy = proc[p].edges[proc[p].id]]
    BY <1>8 DEF Updated
  <2>2. Updated(p, b).owner = b.owner
    BY <2>1 DEF Task
  <2> QED  BY <1>1, <1>2, <1>8, <2>1, <2>2
<1>9. CASE proc[p].op = "edit" \/ (proc[p].op = "block" /\ proc[p].id = proc[p].other)
  BY <1>9 DEF Updated
<1>10. CASE proc[p].op = "create"
  BY <1>1, <1>10, <1>11 DEF Updated
<1> QED  BY <1>4, <1>5, <1>6, <1>7, <1>8, <1>9, <1>10 DEF UpdateOp, StatusOp

LEMMA WrittenTyped ==
  ASSUME Typed, NEW p \in Proc, Written(p)
  PROVE  /\ proc[p].id \in Id /\ proc[p].op \in UpdateOp
         /\ exists' \subseteq Id /\ torn' \subseteq exists' /\ task' \in [Id -> Task]
         /\ done' \subseteq Id
<1>1. /\ TypeOK /\ PlaceOf(p) /\ proc[p].op \in Op \cup {"none"} /\ proc[p].base \in Task
      /\ proc[p].pc \in {"fill", "fillGone"}
  BY LocalFields DEF Typed, Places, Written, At
<1>2. proc[p].id \in Id /\ proc[p].op \in UpdateOp
  BY <1>1 DEF PlaceOf, TaskPhase, MarkPhase, Op, ToolOp, StatusOp, UpdateOp
<1>3. CASE proc[p].pc = "fillGone"
  BY <1>1, <1>2, <1>3 DEF Written, At, files, TypeOK
<1>4. CASE proc[p].pc = "fill"
  <2>1. Updated(p, proc[p].base) \in Task
    BY <1>1, <1>2, UpdatedIs
  <2> QED  BY <1>1, <1>2, <1>4, <2>1 DEF Written, At, files, TypeOK
<1> QED  BY <1>1, <1>2, <1>3, <1>4

LEMMA FillTyped ==
  ASSUME Typed, NEW p \in Proc, Fill(p) \/ FillNewTask(p), UNCHANGED <<ops, leaving>>
  PROVE  Typed'
<1>1. Written(p) /\ TypeOK
  BY DEF Fill, FillNewTask, Typed
<1>2. /\ exists' \subseteq Id /\ torn' \subseteq exists' /\ task' \in [Id -> Task]
      /\ done' \subseteq Id
  BY <1>1, WrittenTyped
<1>3. CASE Fill(p)
  BY <1>1, <1>2, <1>3, EndUpdateTyped, LocksTyped DEF Fill, Unlock
<1>4. CASE FillNewTask(p)
  BY <1>1, <1>2, <1>4, LeaveTyped DEF FillNewTask, TypeOK
<1> QED  BY <1>3, <1>4

LEMMA WriteNewTyped ==
  ASSUME Typed, NEW p \in Proc, WriteNewTask(p), UNCHANGED <<ops, leaving>>
  PROVE  Typed'
<1>1. TypeOK /\ PlaceOf(p)
  BY DEF Typed, Places
<1>2. PICK t \in Id : t = proc[p].high + 1
  BY DEF WriteNewTask
<1>3. /\ Truncate(t) /\ given' = [given EXCEPT ![t] = IF @ < 2 THEN @ + 1 ELSE @]
      /\ done' = done \ {t} /\ proc[p].op = "create" /\ proc[p].pc = "highest"
      /\ UNCHANGED <<mark, listLock, lock, working, retired>>
  BY <1>2 DEF WriteNewTask, At
<1>4. /\ proc' \in [Proc -> Local] /\ Others(p)
      /\ proc'[p].pc = "fill" /\ proc'[p].op = proc[p].op /\ proc'[p].id = t
  BY <1>1, <1>2, NewTaskIs
<1>5. given' \in [Id -> 0 .. 2] /\ done' \subseteq Id
  BY <1>1, <1>3 DEF TypeOK
<1>6. PlaceOf(p)'
  BY <1>1, <1>3, <1>4 DEF PlaceOf, TaskPhase, MarkPhase, StatusOp
<1> QED  BY <1>1, <1>3, <1>4, <1>5, <1>6, TruncateTyped, MoveTyped DEF TypeOK

LEMMA MarkTyped ==
  ASSUME Typed, NEW p \in Proc, ReadMark(p) \/ TruncateMark(p) \/ FillMark(p), UNCHANGED <<ops, leaving>>
  PROVE  Typed'
<1>1. /\ TypeOK /\ PlaceOf(p) /\ proc[p].op \in Op \cup {"none"} /\ proc[p].pc \in MarkPhase
      /\ Number(p) \in 0 .. MaxId /\ 0 \in 0 .. MaxId
      /\ UNCHANGED <<exists, torn, task, listLock, lock, working, retired, given, done>>
  BY LocalFields, Ids DEF Typed, Places, ReadMark, TruncateMark, FillMark, At, files, MarkPhase, Number
<1>2. proc[p].op \in {"delete", "reset"}
  BY <1>1 DEF PlaceOf, TaskPhase, MarkPhase, Op, ToolOp, StatusOp
<1>3. mark' \in 0 .. MaxId
  BY <1>1 DEF ReadMark, TruncateMark, FillMark, TypeOK
<1>4. PICK x \in MarkPhase \cup {AfterMark(p)} : Go(p, x)
  BY DEF ReadMark, TruncateMark, FillMark, MarkPhase
<1>5. /\ x \in Phase
      /\ \/ x \in MarkPhase \cup {"unlink"} /\ proc[p].op = "delete"
         \/ x \in MarkPhase \cup {"highest", "clear"} /\ proc[p].op = "reset"
  BY <1>2, <1>4 DEF Phase, MarkPhase, AfterMark
<1> QED  BY <1>1, <1>3, <1>4, <1>5, GoTyped DEF TypeOK

LEMMA UnlinkTyped ==
  ASSUME Typed, NEW p \in Proc, Unlink(p), UNCHANGED <<ops, leaving>>
  PROVE  Typed'
<1>1. /\ TypeOK /\ PlaceOf(p) /\ proc[p].pc = "unlink" /\ proc[p].op \in Op \cup {"none"}
      /\ UNCHANGED <<mark, listLock, lock, working, retired, given, done>>
  BY LocalFields DEF Typed, Places, Unlink, At
<1>2. proc[p].op = "delete" /\ proc[p].id \in Id
  BY <1>1 DEF PlaceOf, TaskPhase, MarkPhase, Op, ToolOp, StatusOp
<1>3. CASE Return(p) /\ UNCHANGED files
  BY <1>1, <1>3, LeaveTyped DEF files, TypeOK
<1>4. CASE Removed(proc[p].id) /\ proc[p].id \in exists
  <2>1. /\ proc' \in [Proc -> Local] /\ Orphans(p, proc[p].id)
        /\ proc'[p].pc = "readdir" /\ proc'[p].op = "cascade" /\ proc'[p].id = proc[p].id
    BY <1>1, <1>4, UnlinkIs
  <2>2. PlaceOf(p)'
    BY <1>1, <1>2, <2>1 DEF PlaceOf, TaskPhase, MarkPhase, StatusOp
  <2> QED  BY <1>1, <1>2, <1>4, <2>1, <2>2, RemovedTyped, MoveTyped DEF TypeOK
<1> QED  BY <1>3, <1>4 DEF Unlink

LEMMA ClearOneTyped ==
  ASSUME Typed, NEW p \in Proc, ClearOne(p), UNCHANGED <<ops, leaving>>
  PROVE  Typed'
<1>1. /\ TypeOK /\ PlaceOf(p) /\ proc[p].op \in Op \cup {"none"} /\ proc[p].todo \subseteq Id
      /\ UNCHANGED <<mark, listLock, lock, working, retired, given, done>>
  BY LocalFields DEF Typed, Places, ClearOne
<1>2. PICK t \in proc[p].todo :
        Removed(t) /\ proc' = Orphaned([proc EXCEPT ![p].todo = @ \ {t}], t)
  BY DEF ClearOne
<1>3. /\ proc' \in [Proc -> Local] /\ Orphans(p, t)
      /\ proc[p].pc = "clearing" /\ proc'[p].pc = "clearing"
      /\ proc'[p].op = proc[p].op /\ proc'[p].id = proc[p].id
  BY <1>1, <1>2, ClearOneIs
<1>4. PlaceOf(p)'
  BY <1>1, <1>3 DEF PlaceOf, TaskPhase, MarkPhase, Op, ToolOp, StatusOp
<1> QED  BY <1>1, <1>2, <1>3, <1>4, RemovedTyped, MoveTyped DEF TypeOK

LEMMA ClearEndsTyped ==
  ASSUME Typed, NEW p \in Proc, ClearEnds(p), UNCHANGED <<ops, leaving>>
  PROVE  Typed'
BY LeaveTyped DEF ClearEnds, Typed, TypeOK, files

LEMMA CrashTyped ==
  ASSUME Typed, NEW p \in Proc, Crash(p), UNCHANGED <<ops, leaving>>
  PROVE  Typed'
<1>1. TypeOK
  BY DEF Typed
<1>2. /\ proc' \in [Proc -> Local] /\ Others(p)
      /\ proc'[p].pc = "dead" /\ proc'[p].op = "none"
  BY <1>1, CrashIs
<1>3. working' = [working EXCEPT ![p] = 0] /\ 0 \in 0 .. MaxId
      /\ UNCHANGED <<exists, torn, task, mark, listLock, lock, retired, given, done>>
  BY Ids DEF Crash, files
<1>4. working' \in [Proc -> 0 .. MaxId] /\ working'[p] = 0 /\ \A q \in Proc \ {p} : working'[q] = working[q]
  BY <1>1, <1>3 DEF TypeOK
<1>5. PlaceOf(p)'
  BY <1>2, <1>4 DEF PlaceOf, TaskPhase, MarkPhase, StatusOp
<1>6. Places'
  BY <1>2, <1>4, <1>5, PlacesKeep
<1>7. TypeOK'
  BY <1>1, <1>2, <1>3, <1>4 DEF TypeOK
<1> QED  BY <1>6, <1>7 DEF Typed

(* The end of a prompt, and the approval of a shutdown.                    *)
LEMMA TurnIs ==
  ASSUME Typed, NEW p \in Proc, Turn(p)
  PROVE  /\ proc[p].op \notin {"claim", "start"} \/ UNCHANGED leaving
         /\ proc[p].pc # "dead"
         /\ working' = [working EXCEPT ![p] = 0]
         /\ leaving' \in {leaving, leaving \cup {p}}
         /\ UNCHANGED <<exists, torn, task, mark, listLock, lock, proc, retired, given, done>>
BY DEF Turn, EndTurn, ApproveShutdown, Gone, Dead, At, files

LEMMA TurnTyped ==
  ASSUME Typed, NEW p \in Proc, Turn(p), UNCHANGED ops
  PROVE  Typed'
<1>1. /\ proc[p].op \notin {"claim", "start"} \/ UNCHANGED leaving
      /\ working' = [working EXCEPT ![p] = 0]
      /\ leaving' \in {leaving, leaving \cup {p}}
      /\ UNCHANGED <<exists, torn, task, mark, listLock, lock, proc, retired, given, done>>
  BY TurnIs
<1>2. TypeOK'
  BY <1>1, Ids DEF Typed, TypeOK
<1>3. ASSUME NEW q \in Proc  PROVE PlaceOf(q)'
  <2>1. PlaceOf(q) /\ working'[q] \in {working[q], 0} /\ (q = p => working'[q] = 0)
    BY <1>1 DEF Typed, Places, TypeOK
  <2>2. q # p => (q \in leaving' <=> q \in leaving)
    BY <1>1
  <2> QED  BY <1>1, <2>1, <2>2 DEF PlaceOf
<1> QED  BY <1>2, <1>3 DEF Typed, Places

(* Only the approval of a shutdown changes who is leaving.                 *)
LEMMA LeavingIs ==
  ASSUME NEW p \in Proc, Call(p) \/ TakeLock(p) \/ LockFails(p) \/ Step(p) \/ Crash(p)
  PROVE  UNCHANGED leaving
<1>1. CASE Call(p)
  BY <1>1 DEF Call, CreateTask, ClaimNextTask, UpdateTask, BlockTask, ResetTaskList,
     UnassignTeammateTasks
<1>2. CASE TakeLock(p) \/ LockFails(p) \/ Crash(p)
  BY <1>2 DEF TakeLock, TakeTaskLock, TakeListLock, LockFails, Crash
<1>3. CASE Step(p)
  BY <1>3 DEF Step, Peek, Reread, Readdir, ReadOne, Listed, Read, Write, Fill, ReadHighestFile,
     ReadHighestMark, WriteNewTask, FillNewTask, ReadMark, TruncateMark, FillMark, Unlink, Clear,
     ClearOne, ClearEnds
<1> QED  BY <1>1, <1>2, <1>3

LEMMA InitTyped == Init => Typed
<1> SUFFICES ASSUME Init  PROVE Typed
  OBVIOUS
<1>1. PICK list \in Lists :
       /\ exists = DOMAIN list
       /\ task = [t \in Id |-> IF t \in DOMAIN list THEN list[t] ELSE Blank]
       /\ given = [t \in Id |-> IF t \in DOMAIN list THEN 1 ELSE 0]
       /\ done = {t \in DOMAIN list : list[t].status = "completed"}
  BY DEF Init
<1>2. DOMAIN list \subseteq Id /\ \A t \in DOMAIN list : list[t] \in Task
  BY TaskListAssumption
<1>3. Blank \in Task /\ Rest \in Local /\ 0 \in 0 .. MaxId
  BY RestIs, Ids DEF Local
<1>4. TypeOK
  BY <1>1, <1>2, <1>3 DEF Init, TypeOK
<1>5. Places
  BY RestIs DEF Init, Places, PlaceOf, TaskPhase, MarkPhase, StatusOp
<1> QED  BY <1>4, <1>5 DEF Typed

LEMMA NextTyped == Typed /\ [Next]_vars => Typed'
<1> SUFFICES ASSUME Typed, [Next]_vars  PROVE Typed'
  OBVIOUS
<1>1. CASE UNCHANGED vars
  BY <1>1 DEF vars, Typed, TypeOK, Places, PlaceOf
<1>2. CASE Next
  <2>1. PICK p \in Proc : Call(p) \/ Turn(p) \/ TakeLock(p) \/ LockFails(p) \/ Step(p) \/ Crash(p)
    BY <1>2 DEF Next
  <2>2. UNCHANGED ops /\ (~Turn(p) => UNCHANGED leaving)
    BY <1>2, <2>1, LeavingIs DEF Next
  <2>3. CASE Step(p) /\ ~Turn(p)
    BY <2>2, <2>3, PeekTyped, RereadTyped, ListTyped, ListedTyped, ReadTyped, WriteTyped,
       FillTyped, HighestTyped, WriteNewTyped, MarkTyped, UnlinkTyped, ClearOneTyped,
       ClearEndsTyped DEF Step
  <2> QED  BY <2>1, <2>2, <2>3, CallTyped, TurnTyped, TakeLockTyped, LockFailsTyped, CrashTyped
<1> QED  BY <1>1, <1>2

(* Type correctness: what the operations of tasks.ts keep between their     *)
(* awaits, and what they leave in the files, is always of its type.        *)
THEOREM Typing == Spec => []TypeOK
<1>1. Typed => TypeOK
  BY DEF Typed
<1> QED  BY <1>1, InitTyped, NextTyped, PTL DEF Spec

-----------------------------------------------------------------------------
(* Locks.                                                                  *)

(* Where a process holds the lock of its task, and where the list's lock.  *)
InTask(p) ==
  \/ proc[p].pc \in {"reread", "read", "write"}
  \/ proc[p].pc \in {"readdir", "reading"} /\ proc[p].op = "claim"
  \/ proc[p].pc \in {"fill", "fillGone"} /\ proc[p].op # "create"

InList(p) ==
  \/ proc[p].pc = "highest"
  \/ proc[p].op = "reset" /\ proc[p].pc # "listLock"
  \/ proc[p].pc \in {"fill", "fillGone"} /\ proc[p].op = "create"

LockOf(p) ==
  ~Dead(p) =>
    /\ \A t \in Id : lock[t] = p <=> (InTask(p) /\ proc[p].id = t)
    /\ listLock = p <=> InList(p)

Locks == \A p \in Proc : LockOf(p)

LEMMA LocksKeep ==
  ASSUME Typed, Locks, NEW p \in Proc, Others(p) \/ \E t : Orphans(p, t), LockOf(p)',
         \A q \in Proc \ {p} : ~Dead(q) =>
            /\ \A t \in Id : lock'[t] = q <=> lock[t] = q
            /\ listLock' = q <=> listLock = q
  PROVE  Locks'
<1> SUFFICES ASSUME NEW q \in Proc \ {p}  PROVE LockOf(q)'
  BY DEF Locks
<1>1. LockOf(q)
  BY DEF Locks
<1>2. CASE proc'[q] = proc[q]
  BY <1>1, <1>2 DEF LockOf, InTask, InList, Dead
<1>3. CASE proc[q].pc = "fill" /\ proc'[q].pc = "fillGone" /\ Keeps(q)
  BY <1>1, <1>3 DEF LockOf, InTask, InList, Dead, Keeps
<1> QED  BY <1>2, <1>3 DEF Others, Orphans

(* No lock is taken or released.                                           *)
LEMMA LocksStay ==
  ASSUME Typed, Locks, NEW p \in Proc, Others(p) \/ \E t : Orphans(p, t),
         UNCHANGED <<lock, listLock>>, ~Dead(p),
         InTask(p)' <=> InTask(p), InTask(p) => proc'[p].id = proc[p].id,
         InList(p)' <=> InList(p)
  PROVE  Locks'
<1>1. LockOf(p)'
  BY DEF Locks, LockOf
<1> QED  BY <1>1, LocksKeep

(* The lock of the task is released.                                       *)
LEMMA TaskUnlocked ==
  ASSUME Typed, Locks, NEW p \in Proc, Others(p),
         Unlock(proc[p].id), UNCHANGED listLock, ~Dead(p), proc[p].id \in Id,
         InTask(p), ~InTask(p)', ~InList(p), ~InList(p)'
  PROVE  Locks'
<1>1. /\ lock[proc[p].id] = p /\ \A t \in Id : lock[t] = p => proc[p].id = t
      /\ listLock # p /\ None \notin Proc
  BY TaskListAssumption DEF Locks, LockOf
<1>2. \A t \in Id : lock'[t] = IF t = proc[p].id THEN None ELSE lock[t]
  BY DEF Unlock, Typed, TypeOK
<1>3. LockOf(p)'
  BY <1>1, <1>2 DEF LockOf
<1> QED  BY <1>1, <1>2, <1>3, LocksKeep

(* The list's lock is released.                                            *)
LEMMA ListUnlocked ==
  ASSUME Typed, Locks, NEW p \in Proc, Return(p), listLock' = None, UNCHANGED lock,
         ~Dead(p), InList(p), ~InTask(p)
  PROVE  Locks'
<1>1. /\ \A t \in Id : lock[t] # p
      /\ listLock = p /\ None \notin Proc
  BY TaskListAssumption DEF Locks, LockOf
<1>2. Others(p) /\ ~InTask(p)' /\ ~InList(p)'
  BY ReturnIs, RestIs DEF Typed, InTask, InList
<1>3. LockOf(p)'
  BY <1>1, <1>2 DEF LockOf
<1> QED  BY <1>1, <1>2, <1>3, LocksKeep

LEMMA EndedFree ==
  ASSUME Typed, NEW p \in Proc, EndUpdate(p) \/ Return(p)
  PROVE  Others(p) /\ ~InTask(p)' /\ ~InList(p)'
<1>1. TypeOK
  BY DEF Typed
<1>2. CASE Return(p)
  BY <1>1, <1>2, ReturnIs, RestIs DEF InTask, InList
<1>3. CASE EndUpdate(p)
  BY <1>1, <1>3, EndUpdateIs, RestIs DEF InTask, InList, Ended
<1> QED  BY <1>2, <1>3

(* An operation ends, or goes on with its next task.                       *)
LEMMA EndLocks ==
  ASSUME Typed, Locks, NEW p \in Proc, EndUpdate(p) \/ Return(p), UNCHANGED listLock,
         ~Dead(p), ~InList(p),
         \/ ~InTask(p) /\ UNCHANGED lock
         \/ InTask(p) /\ proc[p].id \in Id /\ Unlock(proc[p].id)
  PROVE  Locks'
<1>1. Others(p) /\ ~InTask(p)' /\ ~InList(p)'
  BY EndedFree
<1> QED  BY <1>1, LocksStay, TaskUnlocked

LEMMA CallLocks ==
  ASSUME Typed, Locks, NEW p \in Proc, Call(p)
  PROVE  Locks'
<1>1. /\ Others(p) /\ Called(p) /\ proc[p].pc = "idle" /\ UNCHANGED <<listLock, lock>>
      /\ PlaceOf(p)
  BY CallIs DEF Typed, Places
<1>2. /\ ~Dead(p) /\ ~InTask(p) /\ ~InTask(p)' /\ ~InList(p) /\ ~InList(p)'
  BY <1>1 DEF Dead, InTask, InList, Called, PlaceOf, ToolOp, StatusOp
<1> QED  BY <1>1, <1>2, LocksStay

(* A step to another phase.                                                *)
LEMMA GoLocks ==
  ASSUME Typed, Locks, NEW p \in Proc, NEW x \in Phase, Go(p, x),
         UNCHANGED <<lock, listLock>>, ~Dead(p),
         \/ x \in MarkPhase \cup {"unlink", "clear"} /\ proc[p].pc \in MarkPhase
         \/ x = "taskLock" /\ proc[p].pc = "peek"
         \/ x = "read" /\ proc[p].pc = "reading" /\ proc[p].op = "claim"
         \/ x = "fill" /\ proc[p].pc = "write"
  PROVE  Locks'
<1>1. TypeOK /\ PlaceOf(p)
  BY DEF Typed, Places
<1>2. Others(p) /\ Keeps(p) /\ proc'[p].pc = x
  BY <1>1, GoIs
<1>3. (InTask(p)' <=> InTask(p)) /\ (InList(p)' <=> InList(p))
  BY <1>1, <1>2 DEF InTask, InList, Keeps, MarkPhase, PlaceOf, TaskPhase
<1>4. proc'[p].id = proc[p].id
  BY <1>2 DEF Keeps
<1> QED  BY <1>2, <1>3, <1>4, LocksStay

LEMMA PeekLocks ==
  ASSUME Typed, Locks, NEW p \in Proc, Peek(p)
  PROVE  Locks'
<1>1. /\ proc[p].pc = "peek" /\ UNCHANGED <<listLock, lock>> /\ PlaceOf(p)
  BY DEF Peek, At, Typed, Places
<1>2. ~Dead(p) /\ ~InTask(p) /\ ~InList(p)
  BY <1>1 DEF InTask, InList, Dead, PlaceOf, TaskPhase, MarkPhase, StatusOp
<1>3. CASE EndUpdate(p) \/ Return(p)
  BY <1>1, <1>2, <1>3, EndLocks
<1>4. CASE Go(p, "taskLock")
  BY <1>1, <1>2, <1>4, GoLocks DEF Phase
<1> QED  BY <1>3, <1>4 DEF Peek

LEMMA TakeLocks ==
  ASSUME Typed, Locks, NEW p \in Proc, TakeLock(p)
  PROVE  Locks'
<1>1. TypeOK /\ PlaceOf(p) /\ LockOf(p) /\ proc[p].op \in Op \cup {"none"}
  BY LocalFields DEF Typed, Places, Locks
<1>2. CASE TakeTaskLock(p)
  <2>1. PICK x \in Phase : x = IF proc[p].op = "claim" THEN "reread" ELSE "read"
    BY DEF Phase
  <2>2. /\ Go(p, x) /\ proc[p].pc = "taskLock" /\ lock' = [lock EXCEPT ![proc[p].id] = p]
        /\ UNCHANGED listLock /\ Free(lock[proc[p].id])
    BY <1>2, <2>1 DEF TakeTaskLock, At
  <2>3. Others(p) /\ Keeps(p) /\ proc'[p].pc = x
    BY <1>1, <2>2, GoIs
  <2>4. \A t \in Id : lock'[t] = IF t = proc[p].id THEN p ELSE lock[t]
    BY <1>1, <2>2 DEF TypeOK
  <2>5. LockOf(p)'
    <3>1. ~Dead(p) /\ ~InTask(p) /\ ~InList(p) /\ InTask(p)' /\ ~InList(p)'
      BY <1>1, <2>1, <2>2, <2>3 DEF Dead, InTask, InList, Keeps, PlaceOf, MarkPhase
    <3>2. listLock # p /\ \A t \in Id : lock[t] # p
      BY <1>1, <3>1 DEF LockOf
    <3> QED  BY <2>2, <2>3, <2>4, <3>1, <3>2 DEF LockOf, Keeps
  <2>6. \A q \in Proc \ {p} : ~Dead(q) => \A t \in Id : lock'[t] = q <=> lock[t] = q
    BY <2>2, <2>4 DEF Free
  <2> QED  BY <2>2, <2>3, <2>5, <2>6, LocksKeep
<1>3. CASE TakeListLock(p)
  <2>1. /\ Go(p, "highest") /\ proc[p].pc = "listLock" /\ listLock' = p
        /\ UNCHANGED lock /\ Free(listLock) /\ "highest" \in Phase
    BY <1>3 DEF TakeListLock, At, Phase
  <2>2. Others(p) /\ Keeps(p) /\ proc'[p].pc = "highest"
    BY <1>1, <2>1, GoIs
  <2>3. LockOf(p)'
    BY <1>1, <2>1, <2>2 DEF LockOf, InTask, InList, Keeps, Dead
  <2>4. \A q \in Proc \ {p} : ~Dead(q) => (listLock' = q <=> listLock = q)
    BY <2>1 DEF Free
  <2> QED  BY <2>1, <2>2, <2>3, <2>4, LocksKeep
<1> QED  BY <1>2, <1>3 DEF TakeLock

LEMMA FailLocks ==
  ASSUME Typed, Locks, NEW p \in Proc, LockFails(p)
  PROVE  Locks'
<1>1. /\ proc[p].pc \in {"taskLock", "listLock"} /\ UNCHANGED <<listLock, lock>> /\ PlaceOf(p)
      /\ Return(p)
  BY DEF LockFails, At, Typed, Places
<1>2. ~Dead(p) /\ ~InTask(p) /\ ~InList(p)
  BY <1>1 DEF InTask, InList, Dead, PlaceOf, TaskPhase, MarkPhase, StatusOp
<1> QED  BY <1>1, <1>2, EndLocks

(* The reads under the lock of a task.                                     *)
LEMMA ReadLocks ==
  ASSUME Typed, Locks, NEW p \in Proc, Reread(p) \/ Read(p)
  PROVE  Locks'
<1>1. /\ TypeOK /\ PlaceOf(p) /\ proc[p].pc \in {"read", "reread"} /\ proc[p].op \in Op \cup {"none"}
      /\ UNCHANGED listLock /\ (proc[p].pc = "reread" => proc[p].op = "claim")
  BY LocalFields DEF Typed, Places, Reread, Read, At, Op, PlaceOf, TaskPhase, MarkPhase, ToolOp, StatusOp
<1>2. /\ proc[p].id \in Id /\ ~Dead(p) /\ InTask(p) /\ ~InList(p)
  BY <1>1 DEF PlaceOf, TaskPhase, MarkPhase, Op, ToolOp, StatusOp, Dead, InTask, InList
<1>3. CASE (EndUpdate(p) \/ Return(p)) /\ Unlock(proc[p].id)
  BY <1>1, <1>2, <1>3, EndLocks
<1>4. ASSUME NEW x \in {"write", "readdir"}, x = "readdir" => proc[p].op = "claim",
             KeepsTask(p, x, task[proc[p].id]), UNCHANGED lock
      PROVE  Locks'
  <2>1. task[proc[p].id] \in Task /\ x \in Phase
    BY <1>1, <1>2 DEF TypeOK, Phase
  <2>2. Others(p) /\ proc'[p].pc = x /\ proc'[p].op = proc[p].op /\ proc'[p].id = proc[p].id
    BY <1>1, <1>4, <2>1, BaseIs
  <2>3. InTask(p)' /\ ~InList(p)'
    BY <1>1, <1>2, <1>4, <2>2 DEF InTask, InList
  <2> QED  BY <1>1, <1>2, <1>4, <2>2, <2>3, LocksStay
<1>5. CASE Reread(p)
  BY <1>1, <1>3, <1>4, <1>5 DEF Reread, At, KeepsTask
<1>6. CASE Read(p)
  BY <1>1, <1>3, <1>4, <1>6 DEF Read, At, KeepsTask
<1> QED  BY <1>5, <1>6

LEMMA ListLocks ==
  ASSUME Typed, Locks, NEW p \in Proc, Readdir(p) \/ Clear(p) \/ ReadOne(p)
  PROVE  Locks'
<1>1. TypeOK /\ UNCHANGED <<listLock, lock>>
  BY DEF Typed, Readdir, Clear, ReadOne
<1>2. /\ Others(p) /\ proc'[p].op = proc[p].op /\ proc'[p].id = proc[p].id
      /\ \/ proc[p].pc \in {"readdir", "reading"} /\ proc'[p].pc = "reading"
         \/ proc[p].pc = "clear" /\ proc'[p].pc = "clearing"
  BY <1>1, ReaddirIs, ReadOneIs DEF Readdir, Clear, At
<1>3. ~Dead(p) /\ (InTask(p)' <=> InTask(p)) /\ (InList(p)' <=> InList(p))
  BY <1>2 DEF Dead, InTask, InList
<1> QED  BY <1>1, <1>2, <1>3, LocksStay

LEMMA ListedLocks ==
  ASSUME Typed, Locks, NEW p \in Proc, Listed(p)
  PROVE  Locks'
<1>1. /\ PlaceOf(p) /\ proc[p].pc = "reading" /\ UNCHANGED listLock
  BY DEF Typed, Places, Listed, At
<1>2. ~Dead(p) /\ ~InList(p) /\ (InTask(p) <=> proc[p].op = "claim")
  BY <1>1 DEF Dead, InTask, InList, PlaceOf, MarkPhase
<1>3. CASE EndUpdate(p) /\ UNCHANGED lock /\ proc[p].op # "claim"
  BY <1>1, <1>2, <1>3, EndLocks
<1>4. CASE Go(p, "read") /\ UNCHANGED lock /\ proc[p].op = "claim"
  BY <1>1, <1>2, <1>4, GoLocks DEF Phase
<1>5. CASE Return(p) /\ Unlock(proc[p].id) /\ proc[p].op = "claim"
  <2>1. proc[p].id \in Id
    BY <1>1, <1>5 DEF PlaceOf
  <2> QED  BY <1>1, <1>2, <1>5, <2>1, EndLocks
<1> QED  BY <1>3, <1>4, <1>5 DEF Listed

LEMMA FillLocks ==
  ASSUME Typed, Locks, NEW p \in Proc, Fill(p) \/ FillNewTask(p)
  PROVE  Locks'
<1>1. proc[p].id \in Id /\ proc[p].op \in UpdateOp /\ Written(p)
  BY WrittenTyped DEF Fill, FillNewTask
<1>2. proc[p].pc \in {"fill", "fillGone"}
  BY <1>1 DEF Written, At
<1>3. CASE Fill(p)
  <2>1. ~Dead(p) /\ InTask(p) /\ ~InList(p)
    BY <1>1, <1>2, <1>3 DEF Fill, UpdateOp, StatusOp, Dead, InTask, InList
  <2> QED  BY <1>1, <1>3, <2>1, EndLocks DEF Fill
<1>4. CASE FillNewTask(p)
  <2>1. ~Dead(p) /\ ~InTask(p) /\ InList(p)
    BY <1>2, <1>4 DEF FillNewTask, Dead, InTask, InList
  <2> QED  BY <1>4, <2>1, ListUnlocked DEF FillNewTask
<1> QED  BY <1>3, <1>4

(* Steps of createTask, resetTaskList and deleteTask between their locks.  *)
LEMMA OtherLocks ==
  ASSUME Typed, Locks, NEW p \in Proc,
         \/ Write(p) \/ ReadHighestFile(p) \/ ReadHighestMark(p) \/ WriteNewTask(p)
         \/ ReadMark(p) \/ TruncateMark(p) \/ FillMark(p) \/ Unlink(p) \/ ClearOne(p)
         \/ ClearEnds(p)
  PROVE  Locks'
<1>1. TypeOK /\ PlaceOf(p)
  BY DEF Typed, Places
<1>2. CASE Write(p)
  BY <1>2, GoLocks DEF Write, At, Dead, Phase
<1>3. CASE ReadHighestFile(p) \/ ReadHighestMark(p)
  <2>1. /\ Others(p) /\ proc[p].pc = "highest" /\ proc'[p].op = proc[p].op
        /\ proc'[p].pc = "highest" \/ (proc'[p].pc = "readMark" /\ proc[p].op = "reset")
    BY <1>1, <1>3, HighestFileIs, HighestMarkIs DEF HighestRead
  <2>2. ~Dead(p) /\ ~InTask(p) /\ ~InTask(p)' /\ InList(p) /\ InList(p)'
    BY <2>1 DEF Dead, InTask, InList
  <2> QED  BY <1>3, <2>1, <2>2, LocksStay DEF ReadHighestFile, ReadHighestMark
<1>4. CASE WriteNewTask(p)
  <2>1. /\ Others(p) /\ proc[p].pc = "highest" /\ proc[p].op = "create"
        /\ proc'[p].pc = "fill" /\ proc'[p].op = proc[p].op
    BY <1>1, <1>4, NewTaskIs DEF WriteNewTask, At
  <2>2. ~Dead(p) /\ ~InTask(p) /\ ~InTask(p)' /\ InList(p) /\ InList(p)'
    BY <2>1 DEF Dead, InTask, InList
  <2> QED  BY <1>4, <2>1, <2>2, LocksStay DEF WriteNewTask
<1>5. CASE ReadMark(p) \/ TruncateMark(p) \/ FillMark(p)
  <2>1. PICK x \in MarkPhase \cup {"unlink", "clear"} : Go(p, x)
    BY <1>5 DEF ReadMark, TruncateMark, FillMark, MarkPhase, AfterMark
  <2>2. proc[p].pc \in MarkPhase /\ UNCHANGED <<lock, listLock>> /\ x \in Phase
    BY <1>5, <2>1 DEF ReadMark, TruncateMark, FillMark, MarkPhase, At, Phase
  <2>3. ~Dead(p)
    BY <2>2 DEF Dead, MarkPhase
  <2> QED  BY <2>1, <2>2, <2>3, GoLocks
<1>6. CASE Unlink(p)
  <2>1. proc[p].pc = "unlink" /\ UNCHANGED <<lock, listLock>>
    BY <1>6 DEF Unlink, At
  <2>2. ~Dead(p) /\ ~InTask(p) /\ ~InList(p)
    BY <1>1, <2>1 DEF Dead, InTask, InList, PlaceOf, MarkPhase
  <2>3. CASE Return(p)
    BY <2>1, <2>2, <2>3, EndLocks
  <2>4. CASE proc[p].id \in exists
    <3>1. Orphans(p, proc[p].id) /\ proc'[p].pc = "readdir" /\ proc'[p].op = "cascade"
      BY <1>1, <1>6, <2>4, UnlinkIs
    <3>2. ~InTask(p)' /\ ~InList(p)'
      BY <3>1 DEF InTask, InList
    <3> QED  BY <2>1, <2>2, <3>1, <3>2, LocksStay
  <2> QED  BY <1>6, <2>3, <2>4 DEF Unlink
<1>7. CASE ClearOne(p)
  <2>1. PICK t \in proc[p].todo : proc' = Orphaned([proc EXCEPT ![p].todo = @ \ {t}], t)
    BY <1>7 DEF ClearOne
  <2>2. /\ Orphans(p, t) /\ proc[p].pc = "clearing" /\ proc'[p].pc = "clearing"
        /\ proc'[p].op = proc[p].op
    BY <1>1, <1>7, <2>1, ClearOneIs
  <2>3. ~Dead(p) /\ ~InTask(p) /\ ~InTask(p)' /\ (InList(p)' <=> InList(p))
    BY <2>2 DEF Dead, InTask, InList
  <2> QED  BY <1>7, <2>2, <2>3, LocksStay DEF ClearOne
<1>8. CASE ClearEnds(p)
  <2>1. proc[p].pc = "clearing" /\ proc[p].op \in Op \cup {"none"}
    BY <1>1, <1>8, LocalFields DEF ClearEnds, At
  <2>2. ~Dead(p) /\ ~InTask(p) /\ InList(p)
    BY <1>1, <2>1 DEF Dead, InTask, InList, PlaceOf, TaskPhase, MarkPhase, Op, ToolOp, StatusOp
  <2> QED  BY <1>8, <2>2, ListUnlocked DEF ClearEnds
<1> QED  BY <1>2, <1>3, <1>4, <1>5, <1>6, <1>7, <1>8

LEMMA CrashLocks ==
  ASSUME Typed, Locks, NEW p \in Proc, Crash(p)
  PROVE  Locks'
<1>1. Others(p) /\ proc'[p].pc = "dead" /\ UNCHANGED <<lock, listLock>>
  BY CrashIs DEF Typed, Crash
<1> QED  BY <1>1, LocksKeep DEF LockOf, Dead

LEMMA TurnLocks ==
  ASSUME Typed, Locks, NEW p \in Proc, Turn(p)
  PROVE  Locks'
<1>1. UNCHANGED <<lock, listLock, proc>>
  BY TurnIs
<1> QED  BY <1>1 DEF Locks, LockOf, InTask, InList, Dead

LEMMA InitLocks == Init => Locks
BY RestIs, TaskListAssumption DEF Init, Locks, LockOf, InTask, InList

LEMMA NextLocks == Typed /\ Locks /\ [Next]_vars => Locks'
<1> SUFFICES ASSUME Typed, Locks, [Next]_vars  PROVE Locks'
  OBVIOUS
<1>1. CASE UNCHANGED vars
  BY <1>1 DEF vars, Locks, LockOf, InTask, InList, Dead
<1>2. CASE Next
  <2>1. PICK p \in Proc : Call(p) \/ Turn(p) \/ TakeLock(p) \/ LockFails(p) \/ Step(p) \/ Crash(p)
    BY <1>2 DEF Next
  <2>2. CASE Step(p)
    BY <2>2, PeekLocks, ReadLocks, ListLocks, ListedLocks, FillLocks, OtherLocks DEF Step
  <2> QED  BY <2>1, <2>2, CallLocks, TurnLocks, TakeLocks, FailLocks, CrashLocks
<1> QED  BY <1>1, <1>2

LEMMA LocksAreUsed == Typed /\ Locks => LocksInUse
<1> SUFFICES ASSUME Typed, Locks, NEW p \in Proc, ~Dead(p)
             PROVE  /\ Holds(p) \subseteq {proc[p].id}
                    /\ listLock = p => proc[p].op \in {"create", "reset"}
                    /\ (Holds(p) # {} \/ listLock = p)
                         => /\ proc[p].pc \notin {"idle", "peek", "taskLock", "listLock"}
                            /\ Holds(p) = {} \/ listLock # p
  BY DEF LocksInUse
<1>1. LockOf(p) /\ PlaceOf(p) /\ proc[p].op \in Op \cup {"none"}
  BY LocalFields DEF Locks, Typed, Places
<1>2. Holds(p) \subseteq {proc[p].id} /\ (Holds(p) # {} => InTask(p)) /\ (listLock = p => InList(p))
  BY <1>1 DEF LockOf, Holds
<1>3. InTask(p) => proc[p].pc \notin {"idle", "peek", "taskLock", "listLock"} /\ ~InList(p)
  BY <1>1 DEF InTask, InList, PlaceOf, TaskPhase, MarkPhase, Op, ToolOp, StatusOp
<1>4. InList(p) => /\ proc[p].pc \notin {"idle", "peek", "taskLock", "listLock"}
                   /\ proc[p].op \in {"create", "reset"}
  BY <1>1 DEF InList, PlaceOf, TaskPhase, MarkPhase, Op, ToolOp, StatusOp
<1> QED  BY <1>2, <1>3, <1>4

(* The locks taken with lockfile.lock in tasks.ts: each way an operation is *)
(* left releases them, a live holder is at work under its lock, and nobody *)
(* waits for a lock while holding one.                                     *)
THEOREM LocksAreInUse == Spec => []LocksInUse
BY InitTyped, NextTyped, InitLocks, NextLocks, LocksAreUsed, PTL DEF Spec

-----------------------------------------------------------------------------
(***************************************************************************)
(* No id is given to two tasks, for any number of agents, tasks and        *)
(* crashes, as long as creations do not occur together with deletions.     *)
(*                                                                         *)
(*   Known   an id that a file, a process or a listing mentions was given  *)
(*   Fresh   every given id is covered: by the high-water mark, by a higher*)
(*           file, or by what the holder of the list's lock has read so far*)
(*                                                                         *)
(* Kinds sorts the steps by what they do to the files; it is the case      *)
(* distinction of the rest of this module.                                 *)
(***************************************************************************)

(* The kinds of steps, as far as the files and their owners are concerned. *)

(* The operation is over, done or not, or the process dies.                *)
Leaves(p) ==
  LET then == proc'[p] IN
  /\ then.op = "none" /\ then.id = 0 /\ then.found = {} /\ then.pc \in {"idle", "dead"}
  /\ \/ working'[p] = working[p]
     \/ proc[p].op = "start" /\ working'[p] = proc[p].id
     \/ working'[p] = 0
  /\ UNCHANGED retired

Same(p) ==
  /\ proc'[p].op = proc[p].op /\ proc'[p].id = proc[p].id /\ proc'[p].target = proc[p].target
  /\ working'[p] = working[p] /\ UNCHANGED retired

(* On to a phase that brings the process no closer to a file.              *)
Goes(p) ==
  LET me == proc[p]  then == proc'[p] IN
  /\ Same(p) /\ then.found = me.found
  /\ me.pc \notin {"write", "fill", "fillGone"} /\ then.pc \notin {"write", "fill", "fillGone", "dead"}
  /\ me.pc = "peek" => Readable(me.id)
  /\ then.pc \in {"readdir", "reading", "read"} /\ me.op = "claim" => me.pc \in {"readdir", "reading"}
  /\ then.pc \notin {"readdir", "reading"} /\ me.op = "unassign" => me.pc \notin {"readdir", "reading"}

(* Files are listed and read.                                              *)
Looks(p) ==
  LET me == proc[p]  then == proc'[p] IN
  /\ Same(p) /\ me.pc \in {"readdir", "reading"} /\ then.pc = "reading"
  /\ then.found \subseteq me.found \cup {t \in Id : Readable(t) /\ Relevant(p, t)}

(* A free task is found free again under its lock.                         *)
Rereads(p) ==
  LET me == proc[p]  then == proc'[p] IN
  /\ Same(p) /\ then.found = me.found
  /\ me.op = "claim" /\ me.pc = "reread" /\ then.pc = "readdir" /\ me.id \in Id
  /\ Readable(me.id) /\ task[me.id].owner \in {None, p} /\ task[me.id].status # "completed"

(* The task is read before it is written.                                  *)
Reads(p) ==
  LET me == proc[p]  then == proc'[p] IN
  /\ Same(p) /\ then.found = me.found
  /\ me.pc = "read" /\ then.pc = "write" /\ Readable(me.id) /\ then.base = task[me.id]
  /\ me.id \in Id

(* A claim goes on to its second half without having written.              *)
Starts(p) ==
  LET me == proc[p]  then == proc'[p] IN
  /\ me.op = "claim" /\ me.pc \in {"read", "fillGone"} /\ me.id \in Id
  /\ then.op = "start" /\ then.pc = "peek" /\ then.id = me.id /\ then.found = me.found
  /\ me.pc = "read" => ~Readable(me.id)
  /\ working'[p] = working[p] /\ UNCHANGED retired

(* On to the next of the tasks found.                                      *)
Follows(p) ==
  LET me == proc[p]  then == proc'[p] IN
  /\ me.op \in {"block", "cascade", "unassign"} /\ then.op = me.op /\ then.pc = "peek"
  /\ then.target = me.target /\ then.id \in me.found /\ then.found = me.found \ {then.id}
  /\ working'[p] = working[p] /\ UNCHANGED retired

Calls(p) ==
  /\ Called(p) /\ proc[p].pc = "idle" /\ working'[p] = working[p] /\ proc'[p].op \in ops
  /\ retired' = IF proc'[p].op = "unassign" THEN retired \cup {proc'[p].target} ELSE retired

(* The end of a prompt, or the approval of a shutdown.                     *)
Turns(p) == proc' = proc /\ working'[p] = 0 /\ UNCHANGED retired

(* The steps that leave the files as they are.                             *)
Plain(p) ==
  /\ proc' \in [Proc -> Local] /\ Others(p) /\ ~Dead(p)
  /\ UNCHANGED <<exists, torn, task, given>>
  /\ \A q \in Proc \ {p} : working'[q] = working[q]
  /\ \/ Leaves(p) \/ Goes(p) \/ Looks(p) \/ Rereads(p) \/ Reads(p) \/ Starts(p) \/ Follows(p)
     \/ Calls(p) \/ Turns(p)

(* The steps that remove a file.                                           *)
Removes(p, t) ==
  LET me == proc[p]  then == proc'[p] IN
  /\ proc' \in [Proc -> Local] /\ Orphans(p, t) /\ ~Dead(p) /\ Removed(t) /\ t \in Id
  /\ UNCHANGED <<given, working, retired>>
  /\ then.id = me.id /\ then.found = me.found
  /\ \/ me.op = "delete" /\ me.pc = "unlink" /\ then.op = "cascade" /\ then.pc = "readdir"
     \/ me.op = "reset" /\ me.pc = "clearing" /\ then.op = "reset" /\ then.pc = "clearing"

LEMMA ReturnPlain ==
  ASSUME Typed, NEW p \in Proc, Return(p), ~Dead(p),
         UNCHANGED <<exists, torn, task, given, working, retired>>
  PROVE  Plain(p)
<1>1. proc' \in [Proc -> Local] /\ Others(p) /\ proc'[p] = Rest
  BY ReturnIs DEF Typed
<1> QED  BY <1>1, RestIs DEF Plain, Leaves

LEMMA EndPlain ==
  ASSUME Typed, NEW p \in Proc, EndUpdate(p), ~Dead(p),
         UNCHANGED <<exists, torn, task, given, retired>>,
         proc[p].op = "claim" => /\ proc[p].pc \in {"read", "fillGone"}
                                 /\ proc[p].pc = "read" => ~Readable(proc[p].id)
  PROVE  Plain(p)
<1>1. proc' \in [Proc -> Local] /\ Others(p) /\ Ended(p) /\ WorksOn(p) /\ PlaceOf(p)
  BY EndUpdateIs DEF Typed, Places
<1>2. CASE proc[p].op = "claim"
  <2>1. Starts(p)
    BY <1>1, <1>2, RestIs DEF Ended, WorksOn, Starts, PlaceOf
  <2> QED  BY <1>1, <2>1 DEF Plain, WorksOn
<1>3. CASE proc'[p] = Rest
  <2>1. Leaves(p)
    BY <1>1, <1>3, RestIs DEF WorksOn, Leaves
  <2> QED  BY <1>1, <2>1 DEF Plain, WorksOn
<1>4. CASE proc[p].op # "claim" /\ proc'[p] # Rest
  <2>1. Follows(p)
    BY <1>1, <1>4 DEF Ended, WorksOn, Follows
  <2> QED  BY <1>1, <2>1 DEF Plain, WorksOn
<1> QED  BY <1>2, <1>3, <1>4

LEMMA GoPlain ==
  ASSUME Typed, NEW p \in Proc, NEW x \in Phase, Go(p, x), ~Dead(p),
         UNCHANGED <<exists, torn, task, given, retired, working>>,
         proc[p].pc \notin {"write", "fill", "fillGone"}, x \notin {"write", "fill", "fillGone", "dead"},
         proc[p].pc = "peek" => Readable(proc[p].id),
         x = "read" /\ proc[p].op = "claim" => proc[p].pc = "reading",
         x \notin {"readdir", "reading"}, proc[p].pc \in {"readdir", "reading"} => proc[p].op # "unassign"
  PROVE  Plain(p)
<1>1. proc' \in [Proc -> Local] /\ Others(p) /\ Keeps(p) /\ proc'[p].pc = x
  BY GoIs DEF Typed
<1>2. Goes(p)
  BY <1>1 DEF Goes, Same, Keeps
<1> QED  BY <1>1, <1>2 DEF Plain

LEMMA CallPlain ==
  ASSUME Typed, NEW p \in Proc, Call(p)
  PROVE  Plain(p)
<1>1. /\ proc' \in [Proc -> Local] /\ Others(p) /\ Called(p)
      /\ proc[p].pc = "idle" /\ proc'[p].op \in ops
      /\ retired' = IF proc'[p].op = "unassign" THEN retired \cup {proc'[p].target} ELSE retired
      /\ UNCHANGED <<files, mark, listLock, lock, working, given>>
  BY CallIs DEF Typed
<1>2. Calls(p) /\ ~Dead(p)
  BY <1>1 DEF Calls, Dead
<1> QED  BY <1>1, <1>2 DEF Plain, files

LEMMA PeekPlain ==
  ASSUME Typed, NEW p \in Proc, Peek(p)
  PROVE  Plain(p)
<1>1. /\ proc[p].pc = "peek" /\ ~Dead(p)
      /\ UNCHANGED <<exists, torn, task, mark, listLock, lock, retired, given>>
  BY DEF Peek, At, files, Dead
<1>2. CASE Readable(proc[p].id) /\ UNCHANGED working
           /\ Go(p, "taskLock")
  BY <1>1, <1>2, GoPlain DEF Phase
<1>3. CASE Return(p) /\ UNCHANGED working
  BY <1>1, <1>3, ReturnPlain
<1>4. CASE EndUpdate(p) /\ proc[p].op # "claim"
  BY <1>1, <1>4, EndPlain
<1> QED  BY <1>2, <1>3, <1>4 DEF Peek

LEMMA TurnPlain ==
  ASSUME Typed, NEW p \in Proc, Turn(p)
  PROVE  Plain(p)
<1>1. /\ ~Dead(p) /\ working' = [working EXCEPT ![p] = 0] /\ proc' = proc
      /\ UNCHANGED <<exists, torn, task, given, retired>>
  BY TurnIs DEF Dead
<1>2. proc' \in [Proc -> Local] /\ Others(p)
  BY <1>1 DEF Typed, TypeOK, Others
<1>3. working'[p] = 0 /\ \A q \in Proc \ {p} : working'[q] = working[q]
  BY <1>1 DEF Typed, TypeOK
<1> QED  BY <1>1, <1>2, <1>3 DEF Plain, Turns

LEMMA LockPlain ==
  ASSUME Typed, NEW p \in Proc, TakeLock(p) \/ LockFails(p)
  PROVE  Plain(p)
<1>1. CASE TakeTaskLock(p)
  <2>1. PICK x \in Phase : x = IF proc[p].op = "claim" THEN "reread" ELSE "read"
    BY DEF Phase
  <2>2. /\ Go(p, x) /\ proc[p].pc = "taskLock" /\ ~Dead(p)
        /\ UNCHANGED <<exists, torn, task, retired, given, working>>
    BY <1>1, <2>1 DEF TakeTaskLock, At, files, Dead
  <2> QED  BY <2>1, <2>2, GoPlain
<1>2. CASE TakeListLock(p)
  BY <1>2, GoPlain DEF TakeListLock, At, files, Dead, Phase
<1>3. CASE LockFails(p)
  BY <1>3, ReturnPlain DEF LockFails, At, files, Dead
<1> QED  BY <1>1, <1>2, <1>3 DEF TakeLock

LEMMA ReadPlain ==
  ASSUME Typed, NEW p \in Proc, Reread(p) \/ Read(p)
  PROVE  Plain(p)
<1>1. /\ TypeOK /\ PlaceOf(p) /\ proc[p].pc \in {"read", "reread"} /\ proc[p].op \in Op \cup {"none"}
      /\ UNCHANGED <<exists, torn, task, given, retired>> /\ ~Dead(p)
  BY LocalFields DEF Typed, Places, Reread, Read, At, files, Dead
<1>2. proc[p].id \in Id /\ (proc[p].pc = "reread" => proc[p].op = "claim")
  BY <1>1 DEF PlaceOf, TaskPhase, MarkPhase, Op, ToolOp, StatusOp
<1>3. CASE Return(p) /\ UNCHANGED working
  BY <1>1, <1>3, ReturnPlain
<1>4. CASE EndUpdate(p) /\ ~Readable(proc[p].id) /\ proc[p].pc = "read"
  BY <1>1, <1>4, EndPlain
<1>5. ASSUME NEW x \in Phase, Readable(proc[p].id), UNCHANGED working,
             KeepsTask(p, x, task[proc[p].id]),
             \/ x = "write" /\ proc[p].pc = "read"
             \/ /\ x = "readdir" /\ proc[p].pc = "reread"
                /\ task[proc[p].id].owner \in {None, p} /\ task[proc[p].id].status # "completed"
      PROVE  Plain(p)
  <2>1. task[proc[p].id] \in Task
    BY <1>1, <1>2 DEF TypeOK
  <2>2. /\ proc' \in [Proc -> Local] /\ Others(p) /\ proc'[p].pc = x
        /\ proc'[p].base = task[proc[p].id]
        /\ proc'[p].op = proc[p].op /\ proc'[p].id = proc[p].id
        /\ proc'[p].target = proc[p].target /\ proc'[p].found = proc[p].found
    BY <1>1, <1>5, <2>1, BaseIs
  <2>3. Rereads(p) \/ Reads(p)
    BY <1>1, <1>2, <1>5, <2>2 DEF Rereads, Reads, Same
  <2> QED  BY <1>1, <1>5, <2>2, <2>3 DEF Plain
<1>6. CASE Reread(p)
  BY <1>1, <1>3, <1>5, <1>6 DEF Reread, At, Phase, KeepsTask
<1>7. CASE Read(p)
  BY <1>1, <1>4, <1>5, <1>7 DEF Read, At, Phase, KeepsTask
<1> QED  BY <1>6, <1>7

LEMMA LooksPlain ==
  ASSUME Typed, NEW p \in Proc, Readdir(p) \/ ReadOne(p)
  PROVE  Plain(p)
<1>1. /\ TypeOK /\ proc[p].pc \in {"readdir", "reading"} /\ ~Dead(p) /\ proc[p].todo \subseteq Id
      /\ UNCHANGED <<exists, torn, task, given, retired, working>>
  BY LocalFields DEF Typed, Readdir, ReadOne, At, files, Dead
<1>2. /\ proc' \in [Proc -> Local] /\ Others(p) /\ proc'[p].pc = "reading"
      /\ proc'[p].op = proc[p].op /\ proc'[p].id = proc[p].id
      /\ proc'[p].target = proc[p].target
      /\ proc'[p].found \subseteq proc[p].found \cup {t \in Id : Readable(t) /\ Relevant(p, t)}
  <2>1. CASE Readdir(p)
    <3>1. proc[p].pc = "readdir"
      BY <2>1 DEF Readdir, At
    <3>2. /\ proc' \in [Proc -> Local] /\ Others(p) /\ proc'[p].pc = "reading"
          /\ proc'[p].op = proc[p].op /\ proc'[p].id = proc[p].id
          /\ proc'[p].target = proc[p].target /\ proc'[p].found = {}
      BY <1>1, <2>1, <3>1, ReaddirIs
    <3> QED  BY <3>2
  <2>2. CASE ReadOne(p)
    BY <1>1, <2>2, ReadOneIs
  <2> QED  BY <2>1, <2>2
<1>3. Looks(p)
  BY <1>1, <1>2 DEF Looks, Same
<1> QED  BY <1>1, <1>2, <1>3 DEF Plain

LEMMA ListedPlain ==
  ASSUME Typed, NEW p \in Proc, Listed(p)
  PROVE  Plain(p)
<1>1. /\ proc[p].pc = "reading" /\ ~Dead(p)
      /\ UNCHANGED <<exists, torn, task, given, retired>>
  BY DEF Typed, Listed, At, files, Dead
<1>2. CASE EndUpdate(p) /\ proc[p].op # "claim"
  BY <1>1, <1>2, EndPlain
<1>3. CASE Go(p, "read") /\ UNCHANGED working /\ proc[p].op = "claim"
  BY <1>1, <1>3, GoPlain DEF Phase
<1>4. CASE Return(p) /\ UNCHANGED working
  BY <1>1, <1>4, ReturnPlain
<1> QED  BY <1>2, <1>3, <1>4 DEF Listed

LEMMA HighestPlain ==
  ASSUME Typed, NEW p \in Proc, ReadHighestFile(p) \/ ReadHighestMark(p)
  PROVE  Plain(p)
<1>1. /\ TypeOK /\ PlaceOf(p) /\ proc[p].pc = "highest" /\ ~Dead(p)
      /\ UNCHANGED <<exists, torn, task, given, retired, working>>
  BY DEF Typed, Places, ReadHighestFile, ReadHighestMark, At, files, Dead
<1>2. /\ proc' \in [Proc -> Local] /\ Others(p)
      /\ proc'[p].pc \in {"highest", "readMark"} /\ proc'[p].target = proc[p].target
      /\ proc'[p].op = proc[p].op /\ proc'[p].id = proc[p].id /\ proc'[p].found = proc[p].found
  BY <1>1, HighestFileIs, HighestMarkIs DEF HighestRead
<1>3. Goes(p)
  BY <1>1, <1>2 DEF Goes, Same, PlaceOf, TaskPhase, StatusOp
<1> QED  BY <1>1, <1>2, <1>3 DEF Plain

LEMMA MarkPlain ==
  ASSUME Typed, NEW p \in Proc, ReadMark(p) \/ TruncateMark(p) \/ FillMark(p)
  PROVE  Plain(p)
<1>1. PICK x \in MarkPhase \cup {"unlink", "clear"} : Go(p, x)
  BY DEF ReadMark, TruncateMark, FillMark, MarkPhase, AfterMark
<1>2. /\ proc[p].pc \in MarkPhase /\ ~Dead(p) /\ x \in Phase
      /\ UNCHANGED <<exists, torn, task, given, retired, working>>
  BY <1>1 DEF ReadMark, TruncateMark, FillMark, MarkPhase, At, Phase, Dead, files
<1>3. /\ x \notin {"write", "fill", "fillGone", "dead", "read", "readdir", "reading"}
      /\ proc[p].pc \notin {"write", "fill", "fillGone", "peek", "readdir", "reading"}
  BY <1>1, <1>2 DEF MarkPhase
<1> QED  BY <1>1, <1>2, <1>3, GoPlain

LEMMA ClearPlain ==
  ASSUME Typed, NEW p \in Proc, Clear(p) \/ ClearEnds(p)
  PROVE  Plain(p)
<1>1. /\ TypeOK /\ proc[p].pc \in {"clear", "clearing"} /\ ~Dead(p) /\ PlaceOf(p)
      /\ UNCHANGED <<exists, torn, task, given, retired, working>>
  BY DEF Typed, Places, Clear, ClearEnds, At, files, Dead
<1>2. CASE ClearEnds(p)
  BY <1>1, <1>2, ReturnPlain DEF ClearEnds
<1>3. CASE Clear(p)
  <2>1. proc[p].pc = "clear"
    BY <1>3 DEF Clear, At
  <2>2. /\ proc' \in [Proc -> Local] /\ Others(p)
        /\ proc'[p].pc = "clearing" /\ proc'[p].target = proc[p].target
        /\ proc'[p].op = proc[p].op /\ proc'[p].id = proc[p].id /\ proc'[p].found = proc[p].found
    BY <1>1, <1>3, <2>1, ReaddirIs
  <2>3. Goes(p)
    BY <1>1, <2>1, <2>2 DEF Goes, Same, PlaceOf, TaskPhase, StatusOp
  <2> QED  BY <1>1, <2>2, <2>3 DEF Plain
<1> QED  BY <1>2, <1>3

LEMMA CrashPlain ==
  ASSUME Typed, NEW p \in Proc, Crash(p)
  PROVE  Plain(p)
<1>1. /\ proc' \in [Proc -> Local] /\ Others(p)
      /\ proc'[p].pc = "dead" /\ proc'[p].op = "none" /\ proc'[p].id = 0
      /\ proc'[p].found = {}
  BY CrashIs DEF Typed
<1>2. working'[p] = 0 /\ \A q \in Proc \ {p} : working'[q] = working[q]
  BY DEF Crash, Typed, TypeOK
<1>3. Leaves(p)
  BY <1>1, <1>2 DEF Leaves, Crash
<1> QED  BY <1>1, <1>2, <1>3 DEF Plain, Crash, files

LEMMA GonePlain ==
  ASSUME Typed, NEW p \in Proc, Fill(p) \/ FillNewTask(p), proc[p].pc = "fillGone"
  PROVE  Plain(p)
<1>1. UNCHANGED <<exists, torn, task, given, retired>> /\ ~Dead(p)
  BY DEF Fill, FillNewTask, Written, At, files, Dead
<1>2. CASE Fill(p)
  BY <1>1, <1>2, EndPlain DEF Fill
<1>3. CASE FillNewTask(p)
  BY <1>1, <1>3, ReturnPlain DEF FillNewTask
<1> QED  BY <1>2, <1>3

LEMMA UnlinkKinds ==
  ASSUME Typed, NEW p \in Proc, Unlink(p)
  PROVE  Plain(p) \/ \E t \in Id : Removes(p, t)
<1>1. /\ TypeOK /\ PlaceOf(p) /\ proc[p].pc = "unlink" /\ proc[p].op \in Op \cup {"none"}
      /\ UNCHANGED <<working, retired, given>> /\ ~Dead(p)
  BY LocalFields DEF Typed, Places, Unlink, At, Dead
<1>2. proc[p].op = "delete" /\ proc[p].id \in Id
  BY <1>1 DEF PlaceOf, TaskPhase, MarkPhase, Op, ToolOp, StatusOp
<1>3. CASE Return(p) /\ UNCHANGED files
  BY <1>1, <1>3, ReturnPlain DEF files
<1>4. CASE Removed(proc[p].id) /\ proc[p].id \in exists
  <2>1. /\ proc' \in [Proc -> Local] /\ Orphans(p, proc[p].id)
        /\ proc'[p].pc = "readdir" /\ proc'[p].op = "cascade" /\ proc'[p].id = proc[p].id
        /\ proc'[p].found = proc[p].found
    BY <1>1, <1>4, UnlinkIs
  <2> QED  BY <1>1, <1>2, <1>4, <2>1 DEF Removes
<1> QED  BY <1>3, <1>4 DEF Unlink

LEMMA ClearOneKinds ==
  ASSUME Typed, NEW p \in Proc, ClearOne(p)
  PROVE  \E t \in Id : Removes(p, t)
<1>1. /\ TypeOK /\ PlaceOf(p) /\ proc[p].op \in Op \cup {"none"} /\ proc[p].todo \subseteq Id
      /\ proc[p].pc = "clearing" /\ ~Dead(p)
      /\ UNCHANGED <<working, retired, given>>
  BY LocalFields DEF Typed, Places, ClearOne, At, Dead
<1>2. PICK t \in proc[p].todo :
        Removed(t) /\ proc' = Orphaned([proc EXCEPT ![p].todo = @ \ {t}], t)
  BY DEF ClearOne
<1>3. /\ proc' \in [Proc -> Local] /\ Orphans(p, t)
      /\ proc[p].pc = "clearing" /\ proc'[p].pc = "clearing"
      /\ proc'[p].op = proc[p].op /\ proc'[p].id = proc[p].id /\ proc'[p].found = proc[p].found
  BY <1>1, <1>2, ClearOneIs
<1>4. proc[p].op = "reset"
  BY <1>1 DEF PlaceOf, TaskPhase, MarkPhase, Op, ToolOp, StatusOp
<1>5. Removes(p, t)
  BY <1>1, <1>2, <1>3, <1>4 DEF Removes
<1> QED  BY <1>1, <1>5

(* Every step is of one of these kinds.                                    *)
LEMMA Kinds ==
  ASSUME Typed, Next
  PROVE  \E p \in Proc :
           \/ Plain(p) \/ (\E t \in Id : Removes(p, t)) \/ Write(p) \/ WriteNewTask(p)
           \/ proc[p].pc = "fill" /\ (Fill(p) \/ FillNewTask(p))
<1>1. PICK p \in Proc : Call(p) \/ Turn(p) \/ TakeLock(p) \/ LockFails(p) \/ Step(p) \/ Crash(p)
  BY DEF Next
<1>2. CASE Fill(p) \/ FillNewTask(p)
  BY <1>2, GonePlain DEF Fill, FillNewTask, Written, At
<1>3. CASE Unlink(p) \/ ClearOne(p)
  BY <1>3, UnlinkKinds, ClearOneKinds
<1>4. CASE Step(p) /\ ~(Fill(p) \/ FillNewTask(p) \/ Unlink(p) \/ ClearOne(p))
  BY <1>4, PeekPlain, ReadPlain, LooksPlain, ListedPlain, HighestPlain, MarkPlain, ClearPlain
     DEF Step
<1> QED  BY <1>1, <1>2, <1>3, <1>4, CallPlain, TurnPlain, LockPlain, CrashPlain

(* An update begins to overwrite the task's file.                          *)
LEMMA WriteIs ==
  ASSUME Typed, NEW p \in Proc, Write(p)
  PROVE  /\ proc' \in [Proc -> Local] /\ Others(p) /\ Keeps(p)
         /\ proc[p].pc = "write" /\ proc'[p].pc = "fill"
         /\ proc[p].id \in Id /\ proc[p].op \in UpdateOp \ {"create"}
         /\ exists' = exists \cup {proc[p].id} /\ torn' = torn \cup {proc[p].id}
         /\ task' = [task EXCEPT ![proc[p].id] = Blank]
         /\ UNCHANGED <<given, working, retired, mark>>
<1>1. /\ TypeOK /\ PlaceOf(p) /\ proc[p].pc = "write" /\ proc[p].op \in Op \cup {"none"}
      /\ Go(p, "fill") /\ "fill" \in Phase
  BY LocalFields DEF Typed, Places, Write, At, Phase
<1>2. proc[p].id \in Id /\ proc[p].op \in UpdateOp \ {"create"}
  BY <1>1 DEF PlaceOf, TaskPhase, MarkPhase, Op, ToolOp, StatusOp, UpdateOp
<1> QED  BY <1>1, <1>2, GoIs DEF Write, Truncate

(* An update ends: the file has its new content.                           *)
LEMMA FillIs ==
  ASSUME Typed, NEW p \in Proc, Fill(p), proc[p].pc = "fill"
  PROVE  /\ proc' \in [Proc -> Local] /\ Others(p) /\ Ended(p) /\ WorksOn(p)
         /\ proc[p].id \in Id /\ proc[p].op \in UpdateOp \ {"create"}
         /\ exists' = exists /\ torn' = torn \ {proc[p].id}
         /\ task' = [task EXCEPT ![proc[p].id] = Updated(p, proc[p].base)]
         /\ UNCHANGED <<given, retired, mark>>
<1>1. TypeOK /\ Written(p) /\ proc[p].op # "create" /\ EndUpdate(p)
  BY DEF Typed, Fill
<1>2. proc[p].id \in Id /\ proc[p].op \in UpdateOp
  BY <1>1, WrittenTyped
<1> QED  BY <1>1, <1>2, EndUpdateIs DEF Fill, Written, At

(* The file of a new task gets its content.                                *)
LEMMA FillNewIs ==
  ASSUME Typed, NEW p \in Proc, FillNewTask(p), proc[p].pc = "fill"
  PROVE  /\ proc' \in [Proc -> Local] /\ Others(p) /\ Leaves(p) /\ working' = working
         /\ proc[p].id \in Id /\ proc[p].op = "create"
         /\ exists' = exists /\ torn' = torn \ {proc[p].id}
         /\ task' = [task EXCEPT ![proc[p].id] = Blank]
         /\ UNCHANGED <<given, retired, mark>>
<1>1. TypeOK /\ Written(p) /\ proc[p].op = "create" /\ Return(p) /\ UNCHANGED <<working, retired, mark, given>>
  BY DEF Typed, FillNewTask
<1>2. proc[p].id \in Id
  BY <1>1, WrittenTyped
<1>3. proc' \in [Proc -> Local] /\ Others(p) /\ Leaves(p)
  BY <1>1, ReturnIs, RestIs DEF Leaves
<1>4. Updated(p, proc[p].base) = Blank
  BY <1>1 DEF Updated
<1> QED  BY <1>1, <1>2, <1>3, <1>4 DEF Written, At

LEMMA WriteNewIs ==
  ASSUME Typed, NEW p \in Proc, WriteNewTask(p)
  PROVE  LET t == proc[p].high + 1 IN
         /\ proc' \in [Proc -> Local] /\ Others(p)
         /\ proc[p].pc = "highest" /\ proc[p].op = "create" /\ proc[p].reads = {}
         /\ proc'[p].pc = "fill" /\ proc'[p].op = "create" /\ proc'[p].id = t
         /\ proc'[p].found = proc[p].found
         /\ t \in Id
         /\ exists' = exists \cup {t} /\ torn' = torn \cup {t}
         /\ task' = [task EXCEPT ![t] = Blank]
         /\ given' = [given EXCEPT ![t] = IF @ < 2 THEN @ + 1 ELSE @]
         /\ UNCHANGED <<mark, working, retired>>
<1>1. TypeOK
  BY DEF Typed
<1> QED  BY <1>1, NewTaskIs DEF WriteNewTask, Truncate, At

-----------------------------------------------------------------------------
(* Ids in use have been given out.                                         *)

Given == {t \in Id : given[t] > 0}

KnownTo(p) ==
  /\ working[p] \in Given \cup {0} /\ proc[p].id \in Given \cup {0}
  /\ proc[p].found \subseteq Given

Known == exists \subseteq Given /\ \A p \in Proc : KnownTo(p)

LEMMA KnownKeep ==
  ASSUME Typed, Known, NEW p \in Proc, Others(p) \/ \E t : Orphans(p, t),
         \A q \in Proc \ {p} : working'[q] = working[q],
         Given \subseteq Given', exists' \subseteq Given', KnownTo(p)'
  PROVE  Known'
<1> SUFFICES ASSUME NEW q \in Proc \ {p}  PROVE KnownTo(q)'
  BY DEF Known
<1>1. proc'[q].id = proc[q].id /\ proc'[q].found = proc[q].found
  BY DEF Others, Orphans, Keeps
<1> QED  BY <1>1 DEF Known, KnownTo

LEMMA PlainKnown ==
  ASSUME Typed, Known, NEW p \in Proc, Plain(p)
  PROVE  Known'
<1>1. Given' = Given /\ exists' = exists /\ KnownTo(p) /\ exists \subseteq Given
  BY DEF Plain, Known, Given
<1>2. \A t \in Id : Readable(t) => t \in Given
  BY <1>1 DEF Readable
<1> USE DEF KnownTo
<1>3. CASE Leaves(p)
  BY <1>1, <1>3, KnownKeep DEF Leaves, Plain
<1>4. CASE Goes(p) \/ Rereads(p) \/ Reads(p)
  BY <1>1, <1>4, KnownKeep DEF Goes, Rereads, Reads, Same, Plain
<1>5. CASE Looks(p)
  BY <1>1, <1>2, <1>5, KnownKeep DEF Looks, Same, Plain
<1>6. CASE Starts(p)
  BY <1>1, <1>6, KnownKeep DEF Starts, Plain
<1>7. CASE Follows(p)
  BY <1>1, <1>7, KnownKeep DEF Follows, Plain
<1>8. CASE Calls(p)
  BY <1>1, <1>2, <1>8, KnownKeep DEF Calls, Called, Plain, Given
<1>9. CASE Turns(p)
  BY <1>1, <1>9, KnownKeep DEF Turns, Plain
<1> QED  BY <1>3, <1>4, <1>5, <1>6, <1>7, <1>8, <1>9 DEF Plain

LEMMA NextKnown ==
  ASSUME Typed, Known, Next
  PROVE  Known'
<1>1. PICK p \in Proc :
           \/ Plain(p) \/ (\E t \in Id : Removes(p, t)) \/ Write(p) \/ WriteNewTask(p)
           \/ proc[p].pc = "fill" /\ (Fill(p) \/ FillNewTask(p))
  BY Kinds
<1>2. KnownTo(p) /\ exists \subseteq Given /\ TypeOK
  BY DEF Known, Typed
<1>3. CASE \E t \in Id : Removes(p, t)
  <2>1. PICK t \in Id : Removes(p, t)
    BY <1>3
  <2>2. Given' = Given /\ exists' \subseteq Given /\ KnownTo(p)'
    BY <1>2, <2>1 DEF Removes, Removed, Given, KnownTo
  <2> QED  BY <2>1, <2>2, KnownKeep DEF Removes
<1>4. CASE Write(p)
  <2>1. /\ Given' = Given /\ exists' = exists \cup {proc[p].id} /\ proc[p].id # 0
        /\ Others(p) /\ Keeps(p) /\ working' = working
    BY <1>4, WriteIs, Ids DEF Given
  <2> QED  BY <1>2, <2>1, KnownKeep DEF KnownTo, Keeps
<1>5. CASE WriteNewTask(p)
  <2>1. PICK t \in Id : t = proc[p].high + 1
    BY <1>5, WriteNewIs
  <2>2. /\ given' = [given EXCEPT ![t] = IF @ < 2 THEN @ + 1 ELSE @]
        /\ exists' = exists \cup {t} /\ proc'[p].id = t /\ proc'[p].found = proc[p].found
        /\ Others(p) /\ working' = working
    BY <1>5, <2>1, WriteNewIs
  <2>3. \A u \in Id : given[u] \in 0 .. 2
    BY <1>2 DEF TypeOK
  <2>4. Given' = Given \cup {t}
    BY <1>2, <2>2, <2>3 DEF Given, TypeOK
  <2> QED  BY <1>2, <2>2, <2>4, KnownKeep DEF KnownTo
<1>6. CASE Fill(p) /\ proc[p].pc = "fill"
  <2>1. Given' = Given /\ exists' = exists /\ Others(p) /\ Ended(p) /\ WorksOn(p)
    BY <1>6, FillIs DEF Given
  <2>2. KnownTo(p)'
    BY <1>2, <2>1, RestIs DEF KnownTo, Ended, WorksOn
  <2> QED  BY <1>2, <2>1, <2>2, KnownKeep DEF WorksOn
<1>7. CASE FillNewTask(p) /\ proc[p].pc = "fill"
  <2>1. Given' = Given /\ exists' = exists /\ Others(p) /\ Leaves(p) /\ working' = working
    BY <1>7, FillNewIs DEF Given
  <2> QED  BY <1>2, <2>1, KnownKeep DEF KnownTo, Leaves
<1> QED  BY <1>1, <1>3, <1>4, <1>5, <1>6, <1>7, PlainKnown

LEMMA InitKnown == Init => Known
<1> SUFFICES ASSUME Init  PROVE Known
  OBVIOUS
<1>1. PICK list \in Lists :
       exists = DOMAIN list /\ given = [t \in Id |-> IF t \in DOMAIN list THEN 1 ELSE 0]
  BY DEF Init
<1>2. exists \subseteq Given
  BY <1>1, TaskListAssumption DEF Given
<1> QED  BY <1>2, RestIs DEF Init, Known, KnownTo

-----------------------------------------------------------------------------
(* Ids are fresh.                                                          *)

(* Creations do not occur together with deletions.                         *)
Apart == \A o \in OpSets : ~ ({"create", "delete"} \subseteq o)

Below(t, S) == \E u \in S : t <= u

(* Every id given out is covered by the high-water mark or by a file.      *)
Covered == \A t \in Given : t <= mark \/ Below(t, exists)

AtMark(p) == proc[p].pc \in MarkPhase \cup {"highest", "clear", "clearing"}

(* What the process that holds the list's lock has read so far.            *)
Numbers(p) ==
  LET me == proc[p] IN
  /\ me.pc = "listLock" => "files" \in me.reads /\ (me.op = "create" => "mark" \in me.reads)
  /\ me.op = "reset" /\ me.pc \in {"listLock", "highest"} => me.high = 0 /\ "mark" \notin me.reads
  /\ me.pc = "highest" =>
       \A t \in Given : \/ t <= me.high
                        \/ "files" \in me.reads /\ Below(t, exists)
                        \/ ("mark" \in me.reads \/ me.op = "reset") /\ t <= mark
  /\ me.pc = "readMark" => \A t \in Given : t <= me.high \/ t <= mark
  /\ me.pc = "readMark" /\ me.high # 0 => me.high \in exists
  /\ me.pc \in {"markWrite", "markFill"} => me.high \in exists /\ \A t \in Given : t <= me.high
  /\ me.pc \in {"clear", "clearing"} => \A t \in Given : t <= mark

Fresh == IdsFresh /\ ("create" \in ops => Covered /\ \A p \in Proc : Numbers(p))

(* With the creations alone, only the list's lock gives access to the mark.*)
LEMMA OneAtMark ==
  ASSUME Typed, Locks, "delete" \notin ops, NEW p \in Proc, NEW q \in Proc, AtMark(p), AtMark(q)
  PROVE  p = q
<1>1. ASSUME NEW r \in Proc, AtMark(r)  PROVE listLock = r
  <2>1. PlaceOf(r) /\ LockOf(r) /\ proc[r].op \in Op \cup {"none"}
    BY LocalFields DEF Typed, Places, Locks
  <2>2. InList(r) /\ ~Dead(r)
    BY <1>1, <2>1 DEF AtMark, InList, Dead, PlaceOf, TaskPhase, MarkPhase, Op, ToolOp, StatusOp
  <2> QED  BY <2>1, <2>2 DEF LockOf
<1> QED  BY <1>1

LEMMA FreshKeep ==
  ASSUME Typed, Locks, Fresh, "create" \in ops, "delete" \notin ops, UNCHANGED ops,
         NEW p \in Proc, Others(p) \/ \E t : Orphans(p, t),
         (UNCHANGED <<mark, given>> /\ exists \subseteq exists') \/ AtMark(p),
         IdsFresh', Covered', Numbers(p)'
  PROVE  Fresh'
<1> SUFFICES ASSUME NEW q \in Proc \ {p}  PROVE Numbers(q)'
  BY DEF Fresh
<1>1. Numbers(q)
  BY DEF Fresh
<1>2. CASE ~AtMark(q)
  <2>1. /\ ~AtMark(q)' /\ (proc'[q].pc = "listLock" => proc[q].pc = "listLock")
        /\ proc'[q].op = proc[q].op /\ proc'[q].reads = proc[q].reads /\ proc'[q].high = proc[q].high
    BY <1>2 DEF Others, Orphans, Keeps, AtMark, MarkPhase
  <2> QED  BY <1>1, <2>1 DEF Numbers, AtMark, MarkPhase
<1>3. CASE AtMark(q)
  <2>1. UNCHANGED <<mark, given>> /\ exists \subseteq exists'
    BY <1>3, OneAtMark
  <2>2. proc'[q] = proc[q]
    BY <1>3 DEF Others, Orphans, AtMark, MarkPhase
  <2>3. Given' = Given /\ \A t \in Given : Below(t, exists) => Below(t, exists')
    BY <2>1 DEF Given, Below
  <2> QED  BY <1>1, <2>1, <2>2, <2>3 DEF Numbers
<1> QED  BY <1>2, <1>3

(* Steps away from the mark.                                               *)
LEMMA AwayFresh ==
  ASSUME Typed, Locks, Fresh, "create" \in ops, "delete" \notin ops, UNCHANGED ops,
         NEW p \in Proc, Others(p) \/ \E t : Orphans(p, t),
         UNCHANGED <<mark, given>>, exists \subseteq exists',
         proc'[p].pc \notin MarkPhase \cup {"highest", "clear", "clearing", "listLock"}
  PROVE  Fresh'
<1>1. Given' = Given /\ IdsFresh'
  BY DEF Given, Fresh, IdsFresh
<1>2. Covered'
  BY <1>1 DEF Fresh, Covered, Below
<1>3. Numbers(p)'
  BY DEF Numbers, MarkPhase
<1> QED  BY <1>1, <1>2, <1>3, FreshKeep

LEMMA CallFresh ==
  ASSUME Typed, Locks, Fresh, "create" \in ops, "delete" \notin ops, UNCHANGED ops,
         NEW p \in Proc, Call(p)
  PROVE  Fresh'
<1>1. Others(p) /\ Called(p) /\ UNCHANGED <<exists, mark, given>>
  BY CallIs DEF Typed, files
<1>2. Given' = Given /\ IdsFresh' /\ Covered'
  BY <1>1 DEF Given, Fresh, IdsFresh, Covered
<1>3. Numbers(p)'
  <2>1. proc'[p].op \in ToolOp => proc'[p].op # "delete"
    BY CallIs DEF Typed
  <2> QED  BY <1>1, <2>1 DEF Called, Numbers, ToolOp, StatusOp
<1> QED  BY <1>1, <1>2, <1>3, FreshKeep

LEMMA TurnFresh ==
  ASSUME Fresh, UNCHANGED ops, NEW p \in Proc, Turn(p), Typed
  PROVE  Fresh'
<1>1. UNCHANGED <<exists, mark, given, proc>>
  BY TurnIs
<1> QED  BY <1>1 DEF Fresh, IdsFresh, Covered, Numbers, Given, Below

LEMMA EndedPhase ==
  ASSUME Typed, NEW p \in Proc, EndUpdate(p) \/ Return(p)
  PROVE  Others(p) /\ proc'[p].pc \in {"idle", "peek"}
<1>1. TypeOK
  BY DEF Typed
<1> QED  BY <1>1, EndUpdateIs, ReturnIs, RestIs DEF Ended

LEMMA GoPhase ==
  ASSUME Typed, NEW p \in Proc, NEW x \in Phase, Go(p, x)
  PROVE  Others(p) /\ proc'[p].pc = x
BY GoIs DEF Typed

(* The operations on single tasks keep away from the mark.                 *)
LEMMA TaskFresh ==
  ASSUME Typed, Locks, Fresh, "create" \in ops, "delete" \notin ops, UNCHANGED ops,
         NEW p \in Proc,
         \/ Peek(p) \/ TakeTaskLock(p) \/ LockFails(p) \/ Reread(p) \/ Readdir(p) \/ ReadOne(p)
         \/ Listed(p) \/ Read(p) \/ Write(p) \/ Fill(p) \/ FillNewTask(p) \/ Unlink(p)
         \/ ClearEnds(p) \/ Crash(p)
  PROVE  Fresh'
<1>1. /\ TypeOK /\ PlaceOf(p) /\ proc[p].op # "delete" /\ proc[p].op \in Op \cup {"none"}
  BY LocalFields DEF Typed, Places, PlaceOf
<1>2. ~Unlink(p)
  BY <1>1 DEF Unlink, At, PlaceOf, TaskPhase, MarkPhase, Op, ToolOp, StatusOp
<1>3. UNCHANGED <<mark, given>>
  BY <1>2 DEF Peek, TakeTaskLock, LockFails, Reread, Readdir, ReadOne, Listed, Read, Write, Fill,
     FillNewTask, ClearEnds, Crash
<1>4. exists \subseteq exists'
  BY <1>2 DEF Peek, TakeTaskLock, LockFails, Reread, Readdir, ReadOne, Listed, Read, Write, Fill,
     FillNewTask, ClearEnds, Crash, files, Truncate, Written
<1>5. Others(p) /\ proc'[p].pc \notin MarkPhase \cup {"highest", "clear", "clearing", "listLock"}
  <2>1. CASE EndUpdate(p) \/ Return(p)
    BY <2>1, EndedPhase DEF MarkPhase
  <2>2. ASSUME NEW x \in {"taskLock", "reread", "read", "fill"}, Go(p, x)
        PROVE  Others(p) /\ proc'[p].pc \in {"taskLock", "reread", "read", "fill"}
    BY <2>2, GoPhase DEF Phase
  <2>3. CASE Peek(p)
    BY <1>1, <2>1, <2>2, <2>3 DEF Peek, MarkPhase
  <2>4. CASE TakeTaskLock(p)
    <3>1. PICK x \in {"reread", "read"} : Go(p, x)
      BY <2>4 DEF TakeTaskLock
    <3> QED  BY <2>2, <3>1 DEF MarkPhase
  <2>5. CASE Listed(p)
    BY <2>1, <2>2, <2>5 DEF Listed, MarkPhase
  <2>6. CASE Write(p)
    BY <2>6, WriteIs DEF MarkPhase
  <2>7. CASE Readdir(p) \/ ReadOne(p)
    BY <1>1, <2>7, ReaddirIs, ReadOneIs DEF Readdir, At, MarkPhase
  <2>8. CASE Crash(p)
    BY <1>1, <2>8, CrashIs DEF MarkPhase
  <2>9. CASE Reread(p) \/ Read(p)
    <3>1. Plain(p)
      BY <2>9, ReadPlain
    <3>2. CASE proc'[p].pc \in {"readdir", "write"}
      BY <3>1, <3>2 DEF Plain, MarkPhase
    <3>3. CASE EndUpdate(p) \/ Return(p)
      BY <2>1, <3>3
    <3>4. ASSUME NEW x \in {"readdir", "write"}, KeepsTask(p, x, task[proc[p].id]), proc[p].id \in Id
          PROVE  proc'[p].pc \in {"readdir", "write"}
      <4>1. task[proc[p].id] \in Task /\ x \in Phase
        BY <1>1, <3>4 DEF TypeOK, Phase
      <4> QED  BY <1>1, <3>4, <4>1, BaseIs
    <3>5. proc[p].id \in Id
      BY <1>1, <2>9 DEF Reread, Read, At, PlaceOf, TaskPhase, MarkPhase, Op, ToolOp, StatusOp
    <3>6. \/ EndUpdate(p) \/ Return(p)
          \/ \E x \in {"readdir", "write"} : KeepsTask(p, x, task[proc[p].id])
      BY <2>9 DEF Reread, Read, KeepsTask
    <3> QED  BY <3>2, <3>3, <3>4, <3>5, <3>6
  <2>10. CASE LockFails(p) \/ Fill(p) \/ FillNewTask(p) \/ ClearEnds(p)
    BY <2>1, <2>10 DEF LockFails, Fill, FillNewTask, ClearEnds
  <2> QED  BY <1>2, <2>3, <2>4, <2>5, <2>6, <2>7, <2>8, <2>9, <2>10
<1> QED  BY <1>3, <1>4, <1>5, AwayFresh

LEMMA TakeListFresh ==
  ASSUME Typed, Locks, Fresh, "create" \in ops, "delete" \notin ops, UNCHANGED ops,
         NEW p \in Proc, TakeListLock(p)
  PROVE  Fresh'
<1>1. /\ TypeOK /\ PlaceOf(p) /\ Numbers(p) /\ proc[p].op \in Op \cup {"none"} /\ Covered /\ IdsFresh
  BY LocalFields DEF Typed, Places, Fresh
<1>2. /\ Go(p, "highest") /\ proc[p].pc = "listLock" /\ UNCHANGED <<exists, mark, given>>
      /\ "highest" \in Phase
  BY DEF TakeListLock, At, files, Phase
<1>3. Others(p) /\ Keeps(p) /\ proc'[p].pc = "highest"
  BY <1>1, <1>2, GoIs
<1>4. Given' = Given /\ IdsFresh' /\ Covered'
  BY <1>1, <1>2 DEF Given, IdsFresh, Covered
<1>5. proc[p].op \in {"create", "reset"}
  BY <1>1, <1>2 DEF PlaceOf, TaskPhase, MarkPhase, Op, ToolOp, StatusOp
<1>6. Numbers(p)'
  BY <1>1, <1>2, <1>3, <1>4, <1>5 DEF Numbers, Keeps, Covered
<1> QED  BY <1>2, <1>3, <1>4, <1>6, FreshKeep

LEMMA HighestFresh ==
  ASSUME Typed, Locks, Fresh, "create" \in ops, "delete" \notin ops, UNCHANGED ops,
         NEW p \in Proc, ReadHighestFile(p) \/ ReadHighestMark(p)
  PROVE  Fresh'
<1>1. /\ TypeOK /\ PlaceOf(p) /\ Numbers(p) /\ proc[p].op \in Op \cup {"none"} /\ Covered /\ IdsFresh
      /\ proc[p].high \in 0 .. MaxId /\ mark \in 0 .. MaxId /\ exists \subseteq 0 .. MaxId
      /\ Given \subseteq 0 .. MaxId /\ MaxId \in Nat
  BY LocalFields, Ids, TaskListAssumption DEF Typed, TypeOK, Places, Fresh, Given
<1>2. UNCHANGED <<exists, mark, given>>
  BY DEF ReadHighestFile, ReadHighestMark, files
<1>3. Given' = Given /\ IdsFresh' /\ Covered'
  BY <1>1, <1>2 DEF Given, IdsFresh, Covered
<1>4. CASE ReadHighestFile(p)
  <2>1. PICK h \in exists \cup {0} : (\A t \in exists : h >= t) /\ HighestRead(p, "files", h)
    BY <1>1, <1>4, HighestFileIs
  <2>2. proc'[p].pc = IF proc[p].op = "reset" THEN "readMark" ELSE "highest"
    BY <1>1, <1>4, HighestFileIs
  <2>3. /\ Others(p) /\ proc[p].pc = "highest" /\ proc'[p].op = proc[p].op
        /\ proc'[p].reads = proc[p].reads \ {"files"}
        /\ proc'[p].high = Higher(proc[p].high, h)
    BY <2>1 DEF HighestRead
  <2>4. h \in 0 .. MaxId
    BY <1>1, Ids
  <2>5. /\ proc'[p].high \in 0 .. MaxId /\ proc'[p].high \in {proc[p].high, h}
        /\ proc'[p].high >= proc[p].high /\ proc'[p].high >= h
    <3>1. PICK a \in 0 .. MaxId : a = proc[p].high
      BY <1>1
    <3>2. /\ Higher(a, h) \in {a, h} /\ Higher(a, h) \in 0 .. MaxId
          /\ Higher(a, h) >= a /\ Higher(a, h) >= h
      BY <2>4, HigherIs
    <3> QED  BY <2>3, <3>1, <3>2
  <2>6. \A t \in Given : t <= proc[p].high \/ Below(t, exists) => t <= proc'[p].high
    <3> SUFFICES ASSUME NEW t \in Given, t <= proc[p].high \/ Below(t, exists)
                 PROVE  t <= proc'[p].high
      OBVIOUS
    <3>1. CASE t <= proc[p].high
      BY <1>1, <2>5, <3>1
    <3>2. CASE Below(t, exists)
      <4>1. PICK u \in exists : t <= u
        BY <3>2 DEF Below
      <4> QED  BY <1>1, <2>1, <2>4, <2>5, <4>1
    <3> QED  BY <3>1, <3>2
  <2>7. CASE proc[p].op = "reset"
    <3>1. proc'[p].pc = "readMark" /\ proc[p].high = 0 /\ "mark" \notin proc[p].reads
      BY <1>1, <2>2, <2>3, <2>7 DEF Numbers
    <3>2. proc'[p].high # 0 => proc'[p].high \in exists
      BY <2>5, <3>1
    <3>3. \A t \in Given : t <= proc'[p].high \/ t <= mark
      BY <1>1, <2>3, <2>6 DEF Numbers
    <3>4. Numbers(p)'
      BY <1>2, <1>3, <3>1, <3>2, <3>3 DEF Numbers
    <3> QED  BY <1>2, <1>3, <2>3, <3>4, FreshKeep
  <2>8. CASE proc[p].op # "reset"
    <3>1. \A t \in Given : t <= proc'[p].high \/ ("mark" \in proc'[p].reads /\ t <= mark)
      BY <1>1, <2>3, <2>6, <2>8 DEF Numbers
    <3>2. Numbers(p)'
      BY <1>2, <1>3, <2>2, <2>3, <2>8, <3>1 DEF Numbers
    <3> QED  BY <1>2, <1>3, <2>3, <3>2, FreshKeep
  <2> QED  BY <2>7, <2>8
<1>5. CASE ReadHighestMark(p)
  <2>1. HighestRead(p, "mark", mark) /\ proc'[p].pc = "highest"
    BY <1>1, <1>5, HighestMarkIs
  <2>3. /\ Others(p) /\ proc[p].pc = "highest" /\ proc'[p].op = proc[p].op
        /\ proc'[p].reads = proc[p].reads \ {"mark"} /\ "mark" \in proc[p].reads
        /\ proc'[p].high = Higher(proc[p].high, mark)
    BY <2>1 DEF HighestRead
  <2>5. /\ proc'[p].high \in 0 .. MaxId
        /\ proc'[p].high >= proc[p].high /\ proc'[p].high >= mark
    BY <1>1, <2>3, HigherIs
  <2>6. \A t \in Given : t <= proc[p].high \/ t <= mark => t <= proc'[p].high
    <3> SUFFICES ASSUME NEW t \in Given, t <= proc[p].high \/ t <= mark
                 PROVE  t <= proc'[p].high
      OBVIOUS
    <3>1. CASE t <= proc[p].high
      BY <1>1, <2>5, <3>1
    <3>2. CASE t <= mark
      BY <1>1, <2>5, <3>2
    <3> QED  BY <3>1, <3>2
  <2>7. proc[p].op # "reset"
    BY <1>1, <2>3 DEF Numbers
  <2>8. \A t \in Given : t <= proc'[p].high \/ ("files" \in proc'[p].reads /\ Below(t, exists))
    BY <1>1, <2>3, <2>6, <2>7 DEF Numbers
  <2>9. Numbers(p)'
    BY <1>2, <1>3, <2>1, <2>3, <2>7, <2>8 DEF Numbers
  <2> QED  BY <1>2, <1>3, <2>3, <2>9, FreshKeep
<1> QED  BY <1>4, <1>5

(* The id that a new task gets was never given out.                        *)
LEMMA NewIsNew ==
  ASSUME Typed, Fresh, "create" \in ops, NEW p \in Proc, WriteNewTask(p)
  PROVE  /\ proc[p].high + 1 \in Id \ Given
         /\ Given' = Given \cup {proc[p].high + 1} /\ IdsFresh'
<1>1. /\ TypeOK /\ Numbers(p) /\ IdsFresh /\ proc[p].high \in 0 .. MaxId
      /\ Given \subseteq 0 .. MaxId /\ MaxId \in Nat /\ given \in [Id -> 0 .. 2]
  BY LocalFields, Ids, TaskListAssumption DEF Typed, TypeOK, Fresh, Given
<1>2. PICK t \in Id : t = proc[p].high + 1
  BY WriteNewIs
<1>3. /\ proc[p].pc = "highest" /\ proc[p].op = "create" /\ proc[p].reads = {}
      /\ given' = [given EXCEPT ![t] = IF @ < 2 THEN @ + 1 ELSE @]
  BY <1>2, WriteNewIs
<1>4. \A u \in Given : u <= proc[p].high
  BY <1>1, <1>3 DEF Numbers
<1>5. t \notin Given
  BY <1>1, <1>2, <1>4
<1>6. given[t] = 0
  BY <1>1, <1>5 DEF Given
<1>7. Given' = Given \cup {t} /\ IdsFresh'
  BY <1>1, <1>3, <1>6 DEF Given, IdsFresh
<1> QED  BY <1>2, <1>5, <1>7

LEMMA NewFresh ==
  ASSUME Typed, Locks, Fresh, "create" \in ops, "delete" \notin ops, UNCHANGED ops,
         NEW p \in Proc, WriteNewTask(p)
  PROVE  Fresh'
<1>1. /\ Covered /\ proc[p].high \in 0 .. MaxId /\ MaxId \in Nat
  BY LocalFields, TaskListAssumption DEF Typed, Fresh
<1>2. PICK t \in Id : t = proc[p].high + 1
  BY WriteNewIs
<1>3. /\ Others(p) /\ proc[p].pc = "highest" /\ proc'[p].pc = "fill" /\ proc'[p].op = "create"
      /\ exists' = exists \cup {t} /\ mark' = mark
  BY <1>2, WriteNewIs
<1>4. Given' = Given \cup {t} /\ IdsFresh'
  BY <1>2, NewIsNew
<1>5. Covered'
  <2>1. t <= t
    BY <1>1, <1>2
  <2> QED  BY <1>1, <1>3, <1>4, <2>1 DEF Covered, Below
<1>6. Numbers(p)'
  BY <1>3 DEF Numbers
<1>7. AtMark(p)
  BY <1>3 DEF AtMark
<1> QED  BY <1>3, <1>4, <1>5, <1>6, <1>7, FreshKeep

LEMMA MarkFresh ==
  ASSUME Typed, Locks, Fresh, "create" \in ops, "delete" \notin ops, UNCHANGED ops,
         NEW p \in Proc, ReadMark(p) \/ TruncateMark(p) \/ FillMark(p)
  PROVE  Fresh'
<1>1. /\ TypeOK /\ PlaceOf(p) /\ Numbers(p) /\ Covered /\ IdsFresh /\ proc[p].op # "delete"
      /\ proc[p].op \in Op \cup {"none"}
      /\ proc[p].high \in 0 .. MaxId /\ mark \in 0 .. MaxId
      /\ Given \subseteq 0 .. MaxId /\ MaxId \in Nat
  BY LocalFields, Ids, TaskListAssumption DEF Typed, TypeOK, Places, PlaceOf, Fresh, Given
<1>2. proc[p].pc \in MarkPhase /\ AtMark(p) /\ UNCHANGED <<exists, given>>
  BY DEF ReadMark, TruncateMark, FillMark, At, MarkPhase, AtMark, files
<1>3. Number(p) = proc[p].high /\ AfterMark(p) = "clear"
  BY <1>1 DEF Number, AfterMark
<1>4. Given' = Given /\ IdsFresh'
  BY <1>1, <1>2 DEF Given, IdsFresh
<1>5. CASE ReadMark(p)
  <2>1. PICK x \in Phase : x = (IF proc[p].high > mark THEN "markWrite" ELSE "clear") /\ Go(p, x)
    BY <1>3, <1>5 DEF ReadMark, Phase
  <2>2. Others(p) /\ Keeps(p) /\ proc'[p].pc = x /\ proc[p].pc = "readMark" /\ mark' = mark
    BY <1>1, <1>5, <2>1, GoIs DEF ReadMark, At
  <2>3. Covered'
    BY <1>1, <1>2, <1>4, <2>2 DEF Covered
  <2>4. CASE proc[p].high > mark
    <3>1. \A t \in Given : t <= proc[p].high
      BY <1>1, <2>2, <2>4 DEF Numbers
    <3>2. proc[p].high # 0
      BY <1>1, <2>4
    <3>3. Numbers(p)'
      BY <1>1, <1>2, <1>4, <2>1, <2>2, <2>4, <3>1, <3>2 DEF Numbers, Keeps
    <3> QED  BY <1>2, <1>4, <2>2, <2>3, <3>3, FreshKeep
  <2>5. CASE ~(proc[p].high > mark)
    <3>1. \A t \in Given : t <= proc[p].high \/ t <= mark
      BY <1>1, <2>2 DEF Numbers
    <3>2. ASSUME NEW t \in Given  PROVE t <= mark
      BY <1>1, <2>5, <3>1
    <3>3. Numbers(p)'
      BY <1>1, <1>2, <1>4, <2>1, <2>2, <2>5, <3>2 DEF Numbers, Keeps
    <3> QED  BY <1>2, <1>4, <2>2, <2>3, <3>3, FreshKeep
  <2> QED  BY <2>4, <2>5
<1>6. CASE TruncateMark(p)
  <2>1. Go(p, "markFill") /\ proc[p].pc = "markWrite" /\ "markFill" \in Phase
    BY <1>6 DEF TruncateMark, At, Phase
  <2>2. Others(p) /\ Keeps(p) /\ proc'[p].pc = "markFill"
    BY <1>1, <2>1, GoIs
  <2>3. proc[p].high \in exists /\ \A t \in Given : t <= proc[p].high
    BY <1>1, <2>1 DEF Numbers
  <2>4. Covered'
    BY <1>2, <1>4, <2>3 DEF Covered, Below
  <2>5. Numbers(p)'
    BY <1>2, <1>4, <2>2, <2>3 DEF Numbers, Keeps
  <2> QED  BY <1>2, <1>4, <2>2, <2>4, <2>5, FreshKeep
<1>7. CASE FillMark(p)
  <2>1. Go(p, "clear") /\ proc[p].pc = "markFill" /\ mark' = proc[p].high /\ "clear" \in Phase
    BY <1>3, <1>7 DEF FillMark, At, Phase
  <2>2. Others(p) /\ Keeps(p) /\ proc'[p].pc = "clear"
    BY <1>1, <2>1, GoIs
  <2>3. \A t \in Given : t <= mark'
    BY <1>1, <2>1 DEF Numbers
  <2>4. Covered'
    BY <1>4, <2>3 DEF Covered
  <2>5. Numbers(p)'
    BY <1>4, <2>2, <2>3 DEF Numbers, Keeps
  <2> QED  BY <1>2, <1>4, <2>2, <2>4, <2>5, FreshKeep
<1> QED  BY <1>5, <1>6, <1>7

LEMMA ClearFresh ==
  ASSUME Typed, Locks, Fresh, "create" \in ops, "delete" \notin ops, UNCHANGED ops,
         NEW p \in Proc, Clear(p) \/ ClearOne(p)
  PROVE  Fresh'
<1>1. /\ TypeOK /\ Numbers(p) /\ Covered /\ IdsFresh /\ UNCHANGED <<mark, given>>
      /\ proc[p].pc \in {"clear", "clearing"} /\ AtMark(p)
  BY DEF Typed, Fresh, Clear, ClearOne, At, AtMark
<1>2. \A t \in Given : t <= mark
  BY <1>1 DEF Numbers
<1>3. Given' = Given /\ IdsFresh' /\ Covered'
  BY <1>1, <1>2 DEF Given, IdsFresh, Covered
<1>4. proc'[p].pc = "clearing" /\ (Others(p) \/ \E t : Orphans(p, t))
  <2>1. CASE Clear(p)
    BY <1>1, <2>1, ReaddirIs DEF Clear, At
  <2>2. CASE ClearOne(p)
    <3>1. PICK t \in proc[p].todo : proc' = Orphaned([proc EXCEPT ![p].todo = @ \ {t}], t)
      BY <2>2 DEF ClearOne
    <3> QED  BY <1>1, <2>2, <3>1, ClearOneIs
  <2> QED  BY <2>1, <2>2
<1>5. Numbers(p)'
  BY <1>1, <1>2, <1>3, <1>4 DEF Numbers
<1> QED  BY <1>1, <1>3, <1>4, <1>5, FreshKeep

LEMMA NextFresh ==
  ASSUME Apart, Typed, Locks, Fresh, Next
  PROVE  Fresh'
<1>1. PICK p \in Proc : Call(p) \/ Turn(p) \/ TakeLock(p) \/ LockFails(p) \/ Step(p) \/ Crash(p)
  BY DEF Next
<1>2. UNCHANGED ops
  BY DEF Next
<1>3. CASE "create" \in ops
  <2>1. "delete" \notin ops
    BY <1>3 DEF Apart, Typed, TypeOK
  <2>2. CASE Step(p)
    BY <1>2, <1>3, <2>1, <2>2, TaskFresh, HighestFresh, NewFresh, MarkFresh, ClearFresh DEF Step
  <2>3. CASE TakeLock(p)
    BY <1>2, <1>3, <2>1, <2>3, TakeListFresh, TaskFresh DEF TakeLock
  <2> QED  BY <1>1, <1>2, <1>3, <2>1, <2>2, <2>3, CallFresh, TurnFresh, TaskFresh
<1>4. CASE "create" \notin ops
  <2>1. \A q \in Proc : ~WriteNewTask(q)
    BY <1>4 DEF WriteNewTask, Typed, Places, PlaceOf
  <2>2. given' = given
    <3>1. PICK q \in Proc :
             \/ Plain(q) \/ (\E t \in Id : Removes(q, t)) \/ Write(q) \/ WriteNewTask(q)
             \/ proc[q].pc = "fill" /\ (Fill(q) \/ FillNewTask(q))
      BY Kinds
    <3> QED  BY <2>1, <3>1 DEF Plain, Removes, Write, Fill, FillNewTask
  <2> QED  BY <1>2, <1>4, <2>2 DEF Fresh, IdsFresh
<1> QED  BY <1>3, <1>4

LEMMA InitFresh == Init => Fresh
<1> SUFFICES ASSUME Init  PROVE Fresh
  OBVIOUS
<1>1. PICK list \in Lists :
       exists = DOMAIN list /\ given = [t \in Id |-> IF t \in DOMAIN list THEN 1 ELSE 0]
  BY DEF Init
<1>2. IdsFresh
  BY <1>1 DEF IdsFresh
<1>3. Covered
  <2>1. \A t \in Id : t <= t
    BY TaskListAssumption DEF Id
  <2> QED  BY <1>1, <2>1 DEF Covered, Given, Below
<1>4. \A p \in Proc : Numbers(p)
  BY RestIs DEF Init, Numbers
<1> QED  BY <1>2, <1>3, <1>4 DEF Fresh

LEMMA NumberedSpec == ASSUME Apart PROVE Spec => [](Typed /\ Locks /\ Known /\ Fresh)
<1> DEFINE I == Typed /\ Locks /\ Known /\ Fresh
<1>1. Init => I
  BY InitTyped, InitLocks, InitKnown, InitFresh
<1>2. I /\ [Next]_vars => I'
  <2>1. CASE Next
    BY <2>1, NextTyped, NextLocks, NextKnown, NextFresh
  <2>2. CASE UNCHANGED vars
    <3>1. I /\ UNCHANGED vars => Typed' /\ Locks'
      BY <2>2, NextTyped, NextLocks
    <3>2. I /\ UNCHANGED vars => Known'
      BY DEF vars, Known, KnownTo, Given
    <3>3. I /\ UNCHANGED vars => Fresh'
      BY DEF vars, Fresh, IdsFresh, Covered, Numbers, Given, Below
    <3> QED  BY <2>2, <3>1, <3>2, <3>3
  <2> QED  BY <2>1, <2>2
<1> QED  BY <1>1, <1>2, PTL DEF Spec

(* "Creates a new task with a unique ID" (createTask, tasks.ts): a new task *)
(* never gets an id that an earlier task had, whatever was reset before.   *)
THEOREM IdsAreFresh == ASSUME Apart PROVE Spec => []IdsFresh
BY NumberedSpec, PTL DEF Fresh

-----------------------------------------------------------------------------
(***************************************************************************)
(* Updates and claims, for any number of agents, tasks and exits, as long  *)
(* as creations do not occur together with deletions (an id that comes back*)
(* can be claimed by one agent while another still works under it) and, for*)
(* the claims, TaskUpdate sets no owner (it looks at none under the lock). *)
(*                                                                         *)
(*   NewUntouched  nobody is at a task whose file is being created         *)
(*   Steady        what was read under a lock is what the file says, until *)
(*                 the reader truncates it; then it cannot be read         *)
(*   Retire        the tasks of an agent that is gone are unassigned by    *)
(*                 one process, each of them once                          *)
(*   Claims        of every task, all versions agree with whoever works on *)
(*                 it, claims it, or takes it from one that is gone: file  *)
(*                 and copies that updates have read and write back        *)
(***************************************************************************)

(* Nobody is at a task whose file is being created.                        *)

Creating(p, t) ==
  proc[p].op = "create" /\ proc[p].pc \in {"fill", "fillGone"} /\ proc[p].id = t

Elsewhere(r, t) == working[r] # t /\ t \notin proc[r].found /\ proc[r].id # t

NewUntouched ==
  \A p \in Proc, t \in Id : Creating(p, t) =>
    /\ ~Readable(t)
    /\ working[p] # t /\ t \notin proc[p].found
    /\ \A q \in Proc \ {p} : Elsewhere(q, t)

(* What was read under a lock is what the file says, until it is truncated.*)
SteadyFor(p) ==
  /\ proc[p].pc = "write" /\ Readable(proc[p].id) => proc[p].base = task[proc[p].id]
  /\ proc[p].pc \in {"fill", "fillGone"} => ~Readable(proc[p].id)

Steady == \A p \in Proc : SteadyFor(p)

LEMMA OneInTask ==
  ASSUME Typed, Locks, NEW p \in Proc, NEW q \in Proc, InTask(p), InTask(q),
         proc[p].id = proc[q].id, proc[p].id \in Id
  PROVE  p = q
<1>1. LockOf(p) /\ LockOf(q) /\ ~Dead(p) /\ ~Dead(q)
  BY DEF Locks, Dead, InTask
<1> QED  BY <1>1 DEF LockOf

LEMMA PlainUntouched ==
  ASSUME Typed, NewUntouched, NEW p \in Proc, Plain(p)
  PROVE  NewUntouched'
<1> SUFFICES ASSUME NEW r \in Proc, NEW t \in Id, Creating(r, t)'
             PROVE  /\ ~Readable(t)'
                    /\ working'[r] # t /\ t \notin proc'[r].found
                    /\ \A q \in Proc \ {r} : Elsewhere(q, t)'
  BY DEF NewUntouched
<1>1. r # p \/ Turns(p)
  BY DEF Plain, Leaves, Goes, Looks, Rereads, Reads, Starts, Follows, Calls, Called, Creating, Same,
     ToolOp, StatusOp
<1>2. /\ proc'[r] = proc[r] /\ (r # p => working'[r] = working[r]) /\ (r = p => working'[r] = 0)
      /\ Creating(r, t)
  BY <1>1 DEF Plain, Others, Creating, Turns
<1>3. /\ ~Readable(t) /\ working[r] # t /\ t \notin proc[r].found
      /\ \A q \in Proc \ {r} : Elsewhere(q, t)
  BY <1>2 DEF NewUntouched
<1>4. ~Readable(t)' /\ t # 0
  BY <1>3, Ids DEF Plain, Readable
<1>5. r # p => Elsewhere(p, t)'
  <2>1. r # p => Elsewhere(p, t)
    BY <1>3
  <2>2. CASE Leaves(p)
    BY <1>4, <2>1, <2>2 DEF Leaves, Elsewhere
  <2>3. CASE Goes(p) \/ Rereads(p) \/ Reads(p)
    BY <1>3, <2>1, <2>3 DEF Goes, Rereads, Reads, Same, Elsewhere
  <2>4. CASE Looks(p)
    BY <1>3, <2>1, <2>4 DEF Looks, Same, Elsewhere
  <2>5. CASE Starts(p) \/ Follows(p)
    BY <2>1, <2>5 DEF Starts, Follows, Elsewhere
  <2>6. CASE Calls(p)
    BY <1>3, <1>4, <2>1, <2>6 DEF Calls, Called, Elsewhere
  <2>7. CASE Turns(p)
    BY <1>4, <2>1, <2>7 DEF Turns, Elsewhere
  <2> QED  BY <2>2, <2>3, <2>4, <2>5, <2>6, <2>7 DEF Plain
<1>6. ASSUME NEW q \in Proc \ {r, p}  PROVE Elsewhere(q, t)'
  BY <1>3, <1>6 DEF Plain, Others, Elsewhere
<1> QED  BY <1>2, <1>3, <1>4, <1>5, <1>6

LEMMA RemovesUntouched ==
  ASSUME Typed, NewUntouched, NEW p \in Proc, NEW u \in Id, Removes(p, u)
  PROVE  NewUntouched'
<1> SUFFICES ASSUME NEW r \in Proc, NEW t \in Id, Creating(r, t)'
             PROVE  /\ ~Readable(t)'
                    /\ working'[r] # t /\ t \notin proc'[r].found
                    /\ \A q \in Proc \ {r} : Elsewhere(q, t)'
  BY DEF NewUntouched
<1>1. r # p
  BY DEF Removes, Creating
<1>2. Creating(r, t) /\ proc'[r].found = proc[r].found
  BY <1>1 DEF Removes, Orphans, Keeps, Creating
<1>3. /\ ~Readable(t) /\ working[r] # t /\ t \notin proc[r].found
      /\ \A q \in Proc \ {r} : Elsewhere(q, t)
  BY <1>2 DEF NewUntouched
<1>4. ~Readable(t)' /\ working' = working
  BY <1>3 DEF Removes, Removed, Readable
<1>5. Elsewhere(p, t)'
  BY <1>1, <1>3, <1>4 DEF Removes, Elsewhere
<1>6. ASSUME NEW q \in Proc \ {r, p}  PROVE Elsewhere(q, t)'
  BY <1>3, <1>4, <1>6 DEF Removes, Orphans, Keeps, Elsewhere
<1> QED  BY <1>2, <1>3, <1>4, <1>5, <1>6

LEMMA WriteUntouched ==
  ASSUME Typed, NewUntouched, NEW p \in Proc,
         Write(p) \/ (proc[p].pc = "fill" /\ (Fill(p) \/ FillNewTask(p)))
  PROVE  NewUntouched'
<1> SUFFICES ASSUME NEW r \in Proc, NEW t \in Id, Creating(r, t)'
             PROVE  /\ ~Readable(t)'
                    /\ working'[r] # t /\ t \notin proc'[r].found
                    /\ \A q \in Proc \ {r} : Elsewhere(q, t)'
  BY DEF NewUntouched
<1>1. Others(p) /\ r # p
  BY WriteIs, FillIs, FillNewIs, RestIs DEF Creating, Keeps, Ended, Leaves
<1>2. Creating(r, t) /\ proc'[r] = proc[r]
  BY <1>1 DEF Others, Creating
<1>3. /\ ~Readable(t) /\ working[r] # t /\ t \notin proc[r].found
      /\ \A q \in Proc \ {r} : Elsewhere(q, t)
  BY <1>2 DEF NewUntouched
<1>4. Elsewhere(p, t) /\ proc[p].pc \in {"write", "fill"} /\ t # 0
  BY <1>1, <1>3, Ids DEF Write, At
<1>5. proc[p].id # t
  BY <1>4 DEF Elsewhere
<1>6. ~Readable(t)'
  BY <1>3, <1>5, WriteIs, FillIs, FillNewIs DEF Readable
<1>7. /\ working'[p] # t /\ proc'[p].id # t /\ t \notin proc'[p].found
      /\ \A q \in Proc \ {p} : working'[q] = working[q]
  <2>1. CASE Write(p)
    BY <1>4, <1>5, <2>1, WriteIs DEF Elsewhere, Keeps
  <2>2. CASE Fill(p) /\ proc[p].pc = "fill"
    <3>1. Ended(p) /\ WorksOn(p)
      BY <2>2, FillIs
    <3> QED  BY <1>4, <1>5, <3>1, RestIs DEF Elsewhere, Ended, WorksOn
  <2>3. CASE FillNewTask(p) /\ proc[p].pc = "fill"
    BY <1>4, <2>3, FillNewIs DEF Elsewhere, Leaves
  <2> QED  BY <2>1, <2>2, <2>3
<1>8. ASSUME NEW q \in Proc \ {r, p}  PROVE Elsewhere(q, t)'
  BY <1>1, <1>3, <1>7, <1>8 DEF Others, Elsewhere
<1>9. Elsewhere(p, t)'
  BY <1>7 DEF Elsewhere
<1> QED  BY <1>1, <1>2, <1>3, <1>6, <1>7, <1>8, <1>9

LEMMA NewTaskUntouched ==
  ASSUME Typed, Known, Fresh, NewUntouched, NEW p \in Proc, WriteNewTask(p)
  PROVE  NewUntouched'
<1> SUFFICES ASSUME NEW r \in Proc, NEW t \in Id, Creating(r, t)'
             PROVE  /\ ~Readable(t)'
                    /\ working'[r] # t /\ t \notin proc'[r].found
                    /\ \A q \in Proc \ {r} : Elsewhere(q, t)'
  BY DEF NewUntouched
<1>1. PICK u \in Id : u = proc[p].high + 1
  BY WriteNewIs
<1>2. /\ Others(p) /\ proc'[p].id = u /\ proc'[p].found = proc[p].found
      /\ exists' = exists \cup {u} /\ torn' = torn \cup {u}
      /\ working' = working
      /\ proc[p].op = "create" /\ proc[p].pc = "highest"
  BY <1>1, WriteNewIs
<1>3. u \notin Given /\ u # 0 /\ t # 0
  <2>1. "create" \in ops
    BY <1>2 DEF Typed, Places, PlaceOf
  <2> QED  BY <1>1, <2>1, NewIsNew, Ids
<1>4. \A q \in Proc : KnownTo(q)
  BY DEF Known
<1>5. CASE r = p
  <2>1. t = u
    BY <1>2, <1>5 DEF Creating
  <2> QED  BY <1>2, <1>3, <1>4, <1>5, <2>1 DEF KnownTo, Elsewhere, Others, Readable
<1>6. CASE r # p
  <2>1. Creating(r, t) /\ proc'[r] = proc[r]
    BY <1>2, <1>6 DEF Others, Creating
  <2>2. t # u
    BY <1>3, <1>4, <2>1 DEF KnownTo, Creating
  <2>3. /\ ~Readable(t) /\ working[r] # t /\ t \notin proc[r].found
        /\ \A q \in Proc \ {r} : Elsewhere(q, t)
    BY <2>1 DEF NewUntouched
  <2>4. Elsewhere(p, t)'
    BY <1>2, <1>6, <2>2, <2>3 DEF Elsewhere
  <2>5. ASSUME NEW q \in Proc \ {r, p}  PROVE Elsewhere(q, t)'
    BY <1>2, <2>3, <2>5 DEF Others, Elsewhere
  <2> QED  BY <1>2, <2>1, <2>2, <2>3, <2>4, <2>5 DEF Readable
<1> QED  BY <1>5, <1>6

LEMMA NextUntouched ==
  ASSUME Apart, Typed, Known, Fresh, NewUntouched, Next
  PROVE  NewUntouched'
BY Kinds, PlainUntouched, RemovesUntouched, WriteUntouched, NewTaskUntouched

LEMMA SteadyKeep ==
  ASSUME Steady, NEW q \in Proc, proc'[q] = proc[q],
         Readable(proc[q].id)' => Readable(proc[q].id) /\ task'[proc[q].id] = task[proc[q].id]
  PROVE  SteadyFor(q)'
BY DEF Steady, SteadyFor

LEMMA NextSteady ==
  ASSUME Typed, Locks, NewUntouched, Steady, Next
  PROVE  Steady'
<1>1. PICK p \in Proc :
           \/ Plain(p) \/ (\E t \in Id : Removes(p, t)) \/ Write(p) \/ WriteNewTask(p)
           \/ proc[p].pc = "fill" /\ (Fill(p) \/ FillNewTask(p))
  BY Kinds
<1> SUFFICES ASSUME NEW q \in Proc  PROVE SteadyFor(q)'
  BY DEF Steady
<1>2. SteadyFor(q) /\ PlaceOf(q) /\ TypeOK
  BY DEF Steady, Typed, Places
<1>3. CASE Plain(p)
  <2>1. CASE q # p
    BY <1>3, <2>1, SteadyKeep DEF Plain, Others, Readable
  <2>2. CASE q = p
    BY <1>2, <1>3, <2>2 DEF Plain, Leaves, Goes, Looks, Rereads, Reads, Starts, Follows, Calls, Called,
       Turns, SteadyFor, Same, Readable, ToolOp, StatusOp
  <2> QED  BY <2>1, <2>2
<1>4. CASE \E t \in Id : Removes(p, t)
  <2>1. PICK t \in Id : Removes(p, t)
    BY <1>4
  <2>2. /\ ~Readable(t)' /\ \A u \in Id \ {t} : (Readable(u)' <=> Readable(u)) /\ task'[u] = task[u]
    BY <1>2, <2>1 DEF Removes, Removed, Readable, TypeOK
  <2>3. CASE q = p
    BY <2>1, <2>3 DEF Removes, SteadyFor
  <2>4. CASE q # p /\ proc[q].pc \in {"write", "fill", "fillGone"}
    <3>1. proc[q].id \in Id
      BY <1>2, <2>4, LocalFields DEF PlaceOf, TaskPhase, MarkPhase, Op, ToolOp, StatusOp
    <3>2. CASE proc'[q] = proc[q]
      BY <1>2, <2>2, <3>1, <3>2, SteadyKeep
    <3>3. CASE proc'[q] # proc[q]
      BY <2>1, <2>2, <2>4, <3>3 DEF Removes, Orphans, Keeps, SteadyFor
    <3> QED  BY <3>2, <3>3
  <2>5. CASE q # p /\ proc[q].pc \notin {"write", "fill", "fillGone"}
    BY <2>1, <2>5 DEF Removes, Orphans, SteadyFor
  <2> QED  BY <2>3, <2>4, <2>5
<1>5. CASE Write(p)
  <2>1. /\ Others(p) /\ proc'[p].pc = "fill" /\ proc'[p].id = proc[p].id
        /\ exists' = exists \cup {proc[p].id} /\ torn' = torn \cup {proc[p].id}
        /\ \A u \in Id : u # proc[p].id => task'[u] = task[u]
    BY <1>2, <1>5, WriteIs DEF Keeps, TypeOK
  <2>2. CASE q = p
    BY <2>1, <2>2 DEF SteadyFor, Readable
  <2>3. CASE q # p
    <3>1. proc'[q] = proc[q]
      BY <2>1, <2>3 DEF Others
    <3>2. Readable(proc[q].id)' => Readable(proc[q].id) /\ task'[proc[q].id] = task[proc[q].id]
      BY <1>2, <2>1, <3>1 DEF Readable, TypeOK
    <3> QED  BY <3>1, <3>2, SteadyKeep
  <2> QED  BY <2>2, <2>3
<1>6. CASE WriteNewTask(p)
  <2>1. PICK t \in Id : t = proc[p].high + 1
    BY <1>6, WriteNewIs
  <2>2. /\ Others(p) /\ proc'[p].pc = "fill" /\ proc'[p].id = t
        /\ exists' = exists \cup {t} /\ torn' = torn \cup {t}
        /\ task' = [task EXCEPT ![t] = Blank]
    BY <1>6, <2>1, WriteNewIs
  <2>3. CASE q = p
    BY <2>2, <2>3 DEF SteadyFor, Readable
  <2>4. CASE q # p
    <3>1. proc'[q] = proc[q]
      BY <2>2, <2>4 DEF Others
    <3>2. Readable(proc[q].id)' => Readable(proc[q].id) /\ task'[proc[q].id] = task[proc[q].id]
      BY <1>2, <2>2, <3>1 DEF Readable, TypeOK
    <3> QED  BY <3>1, <3>2, SteadyKeep
  <2> QED  BY <2>3, <2>4
<1>7. CASE proc[p].pc = "fill" /\ (Fill(p) \/ FillNewTask(p))
  <2>1. /\ Others(p) /\ proc'[p].pc \in {"idle", "peek", "dead"} /\ proc[p].id \in Id
        /\ exists' = exists /\ torn' = torn \ {proc[p].id}
        /\ \A u \in Id : u # proc[p].id => task'[u] = task[u]
    BY <1>2, <1>7, FillIs, FillNewIs, RestIs DEF Ended, Leaves, TypeOK
  <2>2. CASE q = p
    BY <2>1, <2>2 DEF SteadyFor
  <2>3. CASE q # p /\ proc[q].pc \notin {"write", "fill", "fillGone"}
    BY <2>1, <2>3 DEF SteadyFor, Others
  <2>4. CASE q # p /\ proc[q].pc \in {"write", "fill", "fillGone"}
    <3>1. proc'[q] = proc[q] /\ proc[q].id \in Id
      BY <1>2, <2>1, <2>4, LocalFields DEF Others, PlaceOf, TaskPhase, MarkPhase, Op, ToolOp, StatusOp
    <3>2. proc[q].id # proc[p].id
      <4>1. ASSUME proc[q].id = proc[p].id  PROVE FALSE
        <5>1. CASE proc[p].op = "create"
          BY <1>7, <2>1, <2>4, <4>1, <5>1 DEF NewUntouched, Creating, Elsewhere
        <5>2. CASE proc[q].op = "create"
          <6>1. Creating(q, proc[p].id)
            BY <1>2, <2>4, <4>1, <5>2 DEF Creating, PlaceOf
          <6> QED  BY <1>7, <2>1, <2>4, <6>1 DEF NewUntouched, Elsewhere
        <5>3. CASE proc[p].op # "create" /\ proc[q].op # "create"
          BY <1>7, <2>1, <2>4, <4>1, <5>3, OneInTask DEF InTask
        <5> QED  BY <5>1, <5>2, <5>3
      <4> QED  BY <4>1
    <3>3. Readable(proc[q].id)' => Readable(proc[q].id) /\ task'[proc[q].id] = task[proc[q].id]
      BY <2>1, <3>1, <3>2 DEF Readable
    <3> QED  BY <3>1, <3>3, SteadyKeep
  <2> QED  BY <2>2, <2>3, <2>4
<1> QED  BY <1>1, <1>3, <1>4, <1>5, <1>6, <1>7

-----------------------------------------------------------------------------
(* The tasks of an agent are unassigned once, when it is gone.             *)

RetireOf(p) ==
  proc[p].op = "unassign" =>
    /\ proc[p].target \in retired /\ Gone(proc[p].target)
    /\ proc[p].pc \notin {"readdir", "reading"} => proc[p].id \notin proc[p].found
    /\ \A q \in Proc \ {p} : proc[q].op = "unassign" => proc[q].target # proc[p].target

Retire == \A p \in Proc : RetireOf(p)

(* Others are not touched, but for a file that is gone.                    *)
LEMMA RetireKeep ==
  ASSUME Typed, Retire, NEW p \in Proc, ~Dead(p), Others(p) \/ \E t : Orphans(p, t),
         UNCHANGED retired, leaving \subseteq leaving',
         proc'[p].op = "unassign" =>
            /\ proc[p].op = "unassign" /\ proc'[p].target = proc[p].target
            /\ proc'[p].pc \notin {"readdir", "reading"} => proc'[p].id \notin proc'[p].found
  PROVE  Retire'
<1>1. \A q \in Proc \ {p} : /\ proc'[q].op = proc[q].op /\ proc'[q].target = proc[q].target
                            /\ proc'[q].id = proc[q].id /\ proc'[q].found = proc[q].found
                            /\ proc'[q].pc = proc[q].pc \/ proc[q].pc = "fill"
  BY DEF Others, Orphans, Keeps
<1>2. \A q \in Proc : Gone(q) => Gone(q)'
  BY <1>1 DEF Gone, Dead
<1>3. \A q \in Proc : proc'[q].op = "unassign" => proc[q].op = "unassign" /\ proc'[q].target = proc[q].target
  BY <1>1
<1> SUFFICES ASSUME NEW q \in Proc, proc'[q].op = "unassign"
             PROVE  /\ proc'[q].target \in retired' /\ Gone(proc[q].target)'
                    /\ proc'[q].pc \notin {"readdir", "reading"} => proc'[q].id \notin proc'[q].found
                    /\ \A r \in Proc \ {q} : proc'[r].op = "unassign" => proc'[r].target # proc'[q].target
  BY DEF Retire, RetireOf, Gone, Dead
<1>4. RetireOf(q) /\ proc[q].op = "unassign" /\ proc'[q].target = proc[q].target /\ proc[q].target \in Proc
  BY <1>3 DEF Retire, Typed, Places, PlaceOf
<1>5. proc'[q].target \in retired' /\ Gone(proc[q].target)'
  BY <1>2, <1>4 DEF RetireOf, Gone, Dead
<1>6. proc'[q].pc \notin {"readdir", "reading"} => proc'[q].id \notin proc'[q].found
  BY <1>1, <1>4 DEF RetireOf
<1>7. \A r \in Proc \ {q} : proc'[r].op = "unassign" => proc'[r].target # proc'[q].target
  BY <1>3, <1>4 DEF RetireOf
<1> QED  BY <1>5, <1>6, <1>7

LEMMA LeavingGrows ==
  ASSUME Typed, Next
  PROVE  leaving \subseteq leaving'
<1>1. PICK p \in Proc : Call(p) \/ Turn(p) \/ TakeLock(p) \/ LockFails(p) \/ Step(p) \/ Crash(p)
  BY DEF Next
<1> QED  BY <1>1, LeavingIs, TurnIs

LEMMA NextRetire ==
  ASSUME Typed, Retire, Next
  PROVE  Retire'
<1>1. PICK p \in Proc :
           \/ Plain(p) \/ (\E t \in Id : Removes(p, t)) \/ Write(p) \/ WriteNewTask(p)
           \/ proc[p].pc = "fill" /\ (Fill(p) \/ FillNewTask(p))
  BY Kinds
<1>2. RetireOf(p) /\ leaving \subseteq leaving'
  BY LeavingGrows DEF Retire
<1>3. CASE Plain(p) /\ ~Calls(p)
  <2>1. UNCHANGED retired
    BY <1>3 DEF Plain, Leaves, Goes, Looks, Rereads, Reads, Starts, Follows, Same, Turns
  <2>2. proc'[p].op = "unassign" =>
            /\ proc[p].op = "unassign" /\ proc'[p].target = proc[p].target
            /\ proc'[p].pc \notin {"readdir", "reading"} => proc'[p].id \notin proc'[p].found
    BY <1>2, <1>3 DEF Plain, Leaves, Goes, Looks, Rereads, Reads, Starts, Follows, Same, Turns, RetireOf
  <2> QED  BY <1>2, <1>3, <2>1, <2>2, RetireKeep DEF Plain
<1>4. CASE Plain(p) /\ Calls(p) /\ proc'[p].op # "unassign"
  BY <1>2, <1>4, RetireKeep DEF Plain, Calls
<1>5. CASE Plain(p) /\ Calls(p) /\ proc'[p].op = "unassign"
  <2>1. /\ proc'[p].pc = "readdir" /\ proc'[p].target \in Proc \ retired /\ Gone(proc'[p].target)
        /\ retired' = retired \cup {proc'[p].target} /\ ~Dead(p)
        /\ \A q \in Proc \ {p} : proc'[q] = proc[q]
    BY <1>5 DEF Plain, Calls, Called, Others, ToolOp, StatusOp
  <2>2. \A q \in Proc : Gone(q) => Gone(q)'
    BY <1>2, <2>1 DEF Gone, Dead
  <2>3. \A q \in Proc : proc[q].op = "unassign" => proc[q].target \in retired /\ proc[q].target \in Proc
    BY DEF Retire, RetireOf, Typed, Places, PlaceOf
  <2>4. RetireOf(p)'
    BY <2>1, <2>2, <2>3 DEF RetireOf
  <2>5. ASSUME NEW q \in Proc \ {p}  PROVE RetireOf(q)'
    <3>1. RetireOf(q) /\ proc'[q] = proc[q]
      BY <2>1 DEF Retire
    <3> QED  BY <2>1, <2>2, <2>3, <3>1 DEF RetireOf
  <2> QED  BY <2>4, <2>5 DEF Retire
<1>6. CASE \E t \in Id : Removes(p, t)
  BY <1>2, <1>6, RetireKeep DEF Removes
<1>7. CASE Write(p)
  <2>1. /\ Others(p) /\ Keeps(p) /\ proc[p].pc = "write" /\ UNCHANGED retired
    BY <1>7, WriteIs
  <2> QED  BY <1>2, <2>1, RetireKeep DEF Keeps, Dead, RetireOf
<1>8. CASE WriteNewTask(p)
  BY <1>2, <1>8, WriteNewIs, RetireKeep DEF Dead
<1>9. CASE proc[p].pc = "fill" /\ Fill(p)
  <2>1. Others(p) /\ Ended(p) /\ UNCHANGED retired
    BY <1>9, FillIs
  <2>2. proc'[p].op = "unassign" =>
            /\ proc[p].op = "unassign" /\ proc'[p].target = proc[p].target
            /\ proc'[p].id \notin proc'[p].found
    BY <2>1, RestIs DEF Ended
  <2> QED  BY <1>2, <1>9, <2>1, <2>2, RetireKeep DEF Dead
<1>10. CASE proc[p].pc = "fill" /\ FillNewTask(p)
  <2>1. Others(p) /\ proc'[p].op = "none" /\ UNCHANGED retired
    BY <1>10, FillNewIs DEF Leaves
  <2> QED  BY <1>2, <1>10, <2>1, RetireKeep DEF Dead
<1> QED  BY <1>1, <1>3, <1>4, <1>5, <1>6, <1>7, <1>8, <1>9, <1>10

-----------------------------------------------------------------------------
(* Who may say that a task is its own.                                     *)

(* p works on t, or has claimed it and is about to.                        *)
Starting(p, t) == proc[p].op = "start" /\ proc[p].id = t
Claimant(p, t) == working[p] = t \/ Starting(p, t)

(* p has found t free, and holds its lock.                                 *)
Claiming(p, t) ==
  /\ proc[p].op = "claim" /\ proc[p].id = t
  /\ proc[p].pc \in {"readdir", "reading", "read", "write", "fill", "fillGone"}

(* p will take t from the agent d, which is gone.                          *)
Due(p, t, d) ==
  /\ proc[p].op = "unassign" /\ proc[p].target = d
  /\ t \in proc[p].found \/ (t = proc[p].id /\ proc[p].pc \notin {"readdir", "reading"})

Writing(p, t) == proc[p].pc \in {"write", "fill"} /\ proc[p].op # "create" /\ proc[p].id = t

(* What t's file says, or what an update of t has read and will write back.*)
Owner == Proc \cup {None}

Version(t, o) ==
  \/ Readable(t) /\ task[t].owner = o
  \/ \E q \in Proc : Writing(q, t) /\ proc[q].base.owner = o

OwnersOf(t) ==
  /\ \A p, q \in Proc : Claimant(p, t) /\ Claimant(q, t) => p = q
  /\ \A p \in Proc : Claiming(p, t) => \A q \in Proc : ~Claimant(q, t)
  /\ \A p, d \in Proc : Due(p, t, d) => \A q \in Proc : ~Claimant(q, t) /\ ~Claiming(q, t)
  /\ \A o \in Owner : Version(t, o) =>
       /\ \A p \in Proc : (Claimant(p, t) => o = p) /\ (Claiming(p, t) => o \in {None, p})
       /\ \A p, d \in Proc : Due(p, t, d) => o = d

Claims == "claim" \in ops => \A t \in Id : OwnersOf(t)

(* In a session in which tasks are claimed, TaskUpdate sets no owner.      *)
Unowned == \A o \in OpSets : "claim" \in o => "assign" \notin o /\ "take" \notin o

(* A step after which p says no more of t than before.                     *)
Quiet(p, t) ==
  /\ Claimant(p, t)' => Claimant(p, t)
  /\ Claiming(p, t)' => Claiming(p, t)
  /\ \A d \in Proc : Due(p, t, d)' => Due(p, t, d)

(* A step after which nothing new can be read of t.                        *)
NothingNew(t) == \A o \in Owner : Version(t, o)' => Version(t, o)

LEMMA OthersQuiet ==
  ASSUME NEW p \in Proc, Others(p) \/ \E u : Orphans(p, u),
         \A q \in Proc \ {p} : working'[q] = working[q]
  PROVE  \A q \in Proc \ {p}, t \in Id :
           Quiet(q, t) /\ (Writing(q, t)' => Writing(q, t) /\ proc'[q].base = proc[q].base)
<1> SUFFICES ASSUME NEW q \in Proc \ {p}, NEW t \in Id
             PROVE  Quiet(q, t) /\ (Writing(q, t)' => Writing(q, t) /\ proc'[q].base = proc[q].base)
  OBVIOUS
<1>1. CASE proc'[q] = proc[q]
  BY <1>1 DEF Quiet, Claimant, Claiming, Starting, Due, Writing
<1>2. CASE proc[q].pc = "fill" /\ proc'[q].pc = "fillGone" /\ Keeps(q)
  BY <1>2 DEF Keeps, Quiet, Claimant, Claiming, Starting, Due, Writing
<1> QED  BY <1>1, <1>2 DEF Others, Orphans

LEMMA QuietKeeps ==
  ASSUME NEW t \in Id, OwnersOf(t), \A q \in Proc : Quiet(q, t), NothingNew(t)
  PROVE  OwnersOf(t)'
<1>1. \A p, q \in Proc : Claimant(p, t)' /\ Claimant(q, t)' => p = q
  BY DEF Quiet, OwnersOf
<1>2. \A p \in Proc : Claiming(p, t)' => \A q \in Proc : ~Claimant(q, t)'
  BY DEF Quiet, OwnersOf
<1>3. \A p, d \in Proc : Due(p, t, d)' =>
         \A q \in Proc : ~Claimant(q, t)' /\ ~Claiming(q, t)'
  BY DEF Quiet, OwnersOf
<1>4. ASSUME NEW o \in Owner, Version(t, o)'
      PROVE  /\ \A p \in Proc : (Claimant(p, t)' => o = p) /\ (Claiming(p, t)' => o \in {None, p})
             /\ \A p, d \in Proc : Due(p, t, d)' => o = d
  BY <1>4 DEF Quiet, NothingNew, OwnersOf
<1> QED  BY <1>1, <1>2, <1>3, <1>4 DEF OwnersOf, Owner

(* Only the reader, who has what the file says, becomes a writer.          *)
LEMMA PlainNothingNew ==
  ASSUME Typed, NEW p \in Proc, Plain(p), NEW t \in Id
  PROVE  NothingNew(t)
<1>1. Writing(p, t)' => \/ Readable(t) /\ proc'[p].base = task[t]
                        \/ Writing(p, t) /\ proc'[p].base = proc[p].base
  BY DEF Plain, Leaves, Goes, Looks, Rereads, Reads, Starts, Follows, Calls, Called, Turns, Same,
     Writing, ToolOp, StatusOp
<1>2. \A q \in Proc \ {p} : Writing(q, t)' => Writing(q, t) /\ proc'[q].base = proc[q].base
  BY OthersQuiet DEF Plain
<1>3. exists' = exists /\ torn' = torn /\ task' = task
  BY DEF Plain
<1>4. ASSUME NEW o \in Owner, Version(t, o)'  PROVE Version(t, o)
  BY <1>1, <1>2, <1>3, <1>4 DEF Version, Readable
<1> QED  BY <1>4 DEF NothingNew

(* While the file can be read, all versions of the task are the file's.    *)
LEMMA FileIsVersion ==
  ASSUME Typed, Steady, NEW t \in Id, Readable(t)
  PROVE  /\ task[t].owner \in Owner /\ Version(t, task[t].owner)
         /\ \A o : Version(t, o) => o = task[t].owner
<1>1. task[t] \in Task
  BY DEF Typed, TypeOK
<1>2. task[t].owner \in Owner
  BY <1>1 DEF Task, Owner
<1>3. ASSUME NEW q \in Proc, Writing(q, t)  PROVE proc[q].base = task[t]
  BY <1>3 DEF Steady, SteadyFor, Writing
<1> QED  BY <1>2, <1>3 DEF Version

(* A task is found that belongs to an agent that is gone.                  *)
LEMMA LooksOwners ==
  ASSUME Typed, Steady, Retire, NEW t \in Id, OwnersOf(t), NEW p \in Proc, Plain(p), Looks(p)
  PROVE  OwnersOf(t)'
<1>1. NothingNew(t) /\ \A q \in Proc \ {p} : Quiet(q, t)
  BY PlainNothingNew, OthersQuiet DEF Plain
<1>2. /\ Claimant(p, t)' => Claimant(p, t)
      /\ Claiming(p, t)' => Claiming(p, t)
  BY DEF Looks, Same, Claimant, Claiming, Starting
<1>3. CASE \A d \in Proc : Due(p, t, d)' => Due(p, t, d)
  BY <1>1, <1>2, <1>3, QuietKeeps DEF Quiet
<1>4. ASSUME NEW d \in Proc, Due(p, t, d)', ~Due(p, t, d)
      PROVE  OwnersOf(t)'
  <2>1. /\ Readable(t) /\ task[t].owner = d
        /\ proc[p].op = "unassign" /\ proc[p].target = d /\ Gone(d)
    BY <1>4 DEF Looks, Same, Due, Relevant, Retire, RetireOf
  <2>2. \A o : Version(t, o) => o = d
    BY <2>1, FileIsVersion
  <2>3. d # None /\ d \in Owner /\ Version(t, d)
    BY <2>1, FileIsVersion, TaskListAssumption DEF Owner
  <2>4. ~Claimant(d, t) /\ ~Claiming(d, t)
    BY <2>1, Ids DEF Typed, Places, PlaceOf, Gone, Dead, Claimant, Starting, Claiming
  <2>5. \A q \in Proc : ~Claimant(q, t) /\ ~Claiming(q, t)
    BY <2>1, <2>3, <2>4 DEF OwnersOf
  <2>6. \A q \in Proc : ~Claimant(q, t)' /\ ~Claiming(q, t)'
    BY <1>1, <1>2, <2>5 DEF Quiet
  <2>7. \A q, e \in Proc : Due(q, t, e)' => e = d
    <3>1. ASSUME NEW q \in Proc \ {p}, NEW e \in Proc, Due(q, t, e)'  PROVE e = d
      BY <1>1, <2>3, <3>1 DEF Quiet, OwnersOf
    <3>2. \A e \in Proc : Due(p, t, e)' => e = d
      BY <1>4 DEF Due
    <3> QED  BY <3>1, <3>2
  <2>8. \A o \in Owner : Version(t, o)' => o = d
    BY <1>1, <2>2 DEF NothingNew
  <2> QED  BY <2>6, <2>7, <2>8 DEF OwnersOf, Owner
<1> QED  BY <1>3, <1>4

(* A task is found free.                                                   *)
LEMMA RereadsOwners ==
  ASSUME Typed, Locks, Steady, Retire, NEW t \in Id, OwnersOf(t), NEW p \in Proc, Plain(p), Rereads(p)
  PROVE  OwnersOf(t)'
<1>1. NothingNew(t) /\ \A q \in Proc \ {p} : Quiet(q, t)
  BY PlainNothingNew, OthersQuiet DEF Plain
<1>2. /\ Claimant(p, t)' => Claimant(p, t)
      /\ \A d \in Proc : ~Due(p, t, d)'
  BY DEF Rereads, Same, Claimant, Starting, Due
<1>3. CASE proc[p].id # t
  <2>1. ~Claiming(p, t)'
    BY <1>3 DEF Rereads, Same, Claiming
  <2> QED  BY <1>1, <1>2, <2>1, QuietKeeps DEF Quiet
<1>4. CASE proc[p].id = t
  <2>1. /\ Readable(t) /\ task[t].owner \in {None, p} /\ proc[p].op = "claim" /\ ~Dead(p)
    BY <1>4 DEF Rereads, Plain
  <2>2. /\ \A o : Version(t, o) => o \in {None, p}
        /\ task[t].owner \in Owner /\ Version(t, task[t].owner)
    BY <2>1, FileIsVersion
  <2>3. ~Claimant(p, t)
    BY <2>1, Ids DEF Typed, Places, PlaceOf, Claimant, Starting
  <2>4. \A q \in Proc : ~Claimant(q, t)
    BY <2>1, <2>2, <2>3, TaskListAssumption DEF OwnersOf
  <2>5. ASSUME NEW q \in Proc, NEW d \in Proc, Due(q, t, d)  PROVE FALSE
    <3>1. d = p
      BY <2>1, <2>2, <2>5, TaskListAssumption DEF OwnersOf
    <3>2. Gone(d)
      BY <2>5 DEF Due, Retire, RetireOf
    <3>3. p \notin leaving
      BY <2>1 DEF Typed, Places, PlaceOf
    <3> QED  BY <2>1, <3>1, <3>2, <3>3 DEF Gone
  <2>6. \A q \in Proc : ~Claimant(q, t)'
    BY <1>1, <1>2, <2>4 DEF Quiet
  <2>7. \A q, d \in Proc : ~Due(q, t, d)'
    BY <1>1, <1>2, <2>5 DEF Quiet
  <2>8. ASSUME NEW q \in Proc \ {p}  PROVE ~Claiming(q, t)
    <3>1. Claiming(q, t) => InTask(q) /\ proc[q].id = t
      BY DEF Claiming, InTask
    <3>2. InTask(p)
      BY DEF Rereads, InTask
    <3> QED  BY <1>4, <3>1, <3>2, OneInTask
  <2>9. \A o \in Owner : Version(t, o)' => o \in {None, p}
    BY <1>1, <2>2 DEF NothingNew
  <2>10. \A q \in Proc \ {p} : ~Claiming(q, t)'
    BY <1>1, <2>8 DEF Quiet
  <2> QED  BY <2>6, <2>7, <2>9, <2>10 DEF OwnersOf, Owner
<1> QED  BY <1>3, <1>4

(* An agent has claimed a task whose file is gone.                         *)
LEMMA StartsOwners ==
  ASSUME Typed, Locks, Steady, NEW t \in Id, OwnersOf(t), NEW p \in Proc, Plain(p), Starts(p)
  PROVE  OwnersOf(t)'
<1>1. NothingNew(t) /\ \A q \in Proc \ {p} : Quiet(q, t)
  BY PlainNothingNew, OthersQuiet DEF Plain
<1>2. ~Claiming(p, t)' /\ \A d \in Proc : ~Due(p, t, d)'
  BY DEF Starts, Claiming, Due
<1>3. CASE proc[p].id # t
  <2>1. Claimant(p, t)' => Claimant(p, t)
    BY <1>3 DEF Starts, Starting, Claimant
  <2> QED  BY <1>1, <1>2, <2>1, QuietKeeps DEF Quiet
<1>4. CASE proc[p].id = t
  <2>1. Claiming(p, t) /\ InTask(p) /\ ~Readable(t)
    BY <1>4 DEF Starts, Claiming, InTask, Steady, SteadyFor
  <2>2. ASSUME NEW q \in Proc \ {p}  PROVE ~Claiming(q, t) /\ ~Writing(q, t)
    <3>1. Claiming(q, t) \/ Writing(q, t) => InTask(q) /\ proc[q].id = t
      BY DEF Claiming, Writing, InTask
    <3> QED  BY <1>4, <2>1, <3>1, OneInTask
  <2>3. \A o : ~Version(t, o)
    BY <2>1, <2>2 DEF Version, Writing, Starts
  <2>4. \A q \in Proc : ~Claimant(q, t) /\ \A d \in Proc : ~Due(q, t, d)
    BY <2>1 DEF OwnersOf
  <2>5. /\ \A q \in Proc \ {p} : ~Claimant(q, t)'
        /\ \A q \in Proc : ~Claiming(q, t)' /\ \A d \in Proc : ~Due(q, t, d)'
    BY <1>1, <1>2, <2>2, <2>4 DEF Quiet
  <2>6. \A o \in Owner : ~Version(t, o)'
    BY <1>1, <2>3 DEF NothingNew
  <2> QED  BY <2>5, <2>6 DEF OwnersOf, Owner
<1> QED  BY <1>3, <1>4

LEMMA PlainOwners ==
  ASSUME Typed, Locks, Steady, Retire, NEW t \in Id, OwnersOf(t), NEW p \in Proc, Plain(p)
  PROVE  OwnersOf(t)'
<1>1. NothingNew(t) /\ \A q \in Proc \ {p} : Quiet(q, t)
  BY PlainNothingNew, OthersQuiet DEF Plain
<1>2. CASE Leaves(p)
  BY <1>1, <1>2, Ids, QuietKeeps DEF Leaves, Quiet, Claimant, Claiming, Starting, Due, Plain
<1>3. CASE Goes(p) \/ Reads(p)
  BY <1>1, <1>3, QuietKeeps DEF Goes, Reads, Same, Quiet, Claimant, Claiming, Starting, Due
<1>4. CASE Follows(p)
  BY <1>1, <1>4, QuietKeeps DEF Follows, Quiet, Claimant, Claiming, Starting, Due
<1>5. CASE Calls(p)
  BY <1>1, <1>5, QuietKeeps DEF Calls, Called, Quiet, Claimant, Claiming, Starting, Due, ToolOp, StatusOp
<1>6. CASE Turns(p)
  BY <1>1, <1>6, Ids, QuietKeeps DEF Turns, Quiet, Claimant, Claiming, Starting, Due
<1> QED  BY <1>2, <1>3, <1>4, <1>5, <1>6, LooksOwners, RereadsOwners, StartsOwners DEF Plain

-----------------------------------------------------------------------------
(* The steps that change the files.                                        *)

LEMMA RemovesOwners ==
  ASSUME Typed, NEW t \in Id, OwnersOf(t), NEW p \in Proc, NEW u \in Id, Removes(p, u)
  PROVE  OwnersOf(t)'
<1>1. Orphans(p, u) /\ working' = working /\ Removed(u) /\ TypeOK
  BY DEF Removes, Typed
<1>2. \A q \in Proc \ {p} :
         Quiet(q, t) /\ (Writing(q, t)' => Writing(q, t) /\ proc'[q].base = proc[q].base)
  BY <1>1, OthersQuiet
<1>3. Quiet(p, t) /\ ~Writing(p, t)'
  BY <1>1 DEF Removes, Quiet, Claimant, Claiming, Starting, Due, Writing
<1>4. Readable(t)' => Readable(t) /\ task'[t] = task[t]
  BY <1>1 DEF Removed, Readable, TypeOK
<1>5. NothingNew(t)
  BY <1>1, <1>2, <1>3, <1>4 DEF NothingNew, Version
<1> QED  BY <1>2, <1>3, <1>5, QuietKeeps

(* A file is truncated: its content lives on in the update only.           *)
LEMMA WriteOwners ==
  ASSUME Typed, NEW t \in Id, OwnersOf(t), NEW p \in Proc, Write(p)
  PROVE  OwnersOf(t)'
<1>1. /\ Others(p) /\ Keeps(p) /\ proc[p].pc = "write" /\ proc'[p].pc = "fill"
      /\ exists' = exists \cup {proc[p].id} /\ torn' = torn \cup {proc[p].id}
      /\ task' = [task EXCEPT ![proc[p].id] = Blank] /\ working' = working /\ TypeOK
  BY WriteIs DEF Typed
<1>2. \A q \in Proc \ {p} :
         Quiet(q, t) /\ (Writing(q, t)' => Writing(q, t) /\ proc'[q].base = proc[q].base)
  BY <1>1, OthersQuiet
<1>3. Quiet(p, t) /\ (Writing(p, t)' => Writing(p, t) /\ proc'[p].base = proc[p].base)
  BY <1>1 DEF Keeps, Quiet, Claimant, Claiming, Starting, Due, Writing
<1>4. Readable(t)' => Readable(t) /\ task'[t] = task[t]
  BY <1>1 DEF Readable, TypeOK
<1>5. NothingNew(t)
  BY <1>1, <1>2, <1>3, <1>4 DEF NothingNew, Version
<1> QED  BY <1>2, <1>3, <1>5, QuietKeeps

LEMMA WriteNewOwners ==
  ASSUME Typed, NEW t \in Id, OwnersOf(t), NEW p \in Proc, WriteNewTask(p)
  PROVE  OwnersOf(t)'
<1>1. PICK u \in Id : u = proc[p].high + 1
  BY WriteNewIs
<1>2. /\ Others(p) /\ proc[p].op = "create" /\ proc'[p].op = "create"
      /\ exists' = exists \cup {u} /\ torn' = torn \cup {u}
      /\ task' = [task EXCEPT ![u] = Blank] /\ working' = working /\ TypeOK
  BY <1>1, WriteNewIs DEF Typed
<1>3. \A q \in Proc \ {p} :
         Quiet(q, t) /\ (Writing(q, t)' => Writing(q, t) /\ proc'[q].base = proc[q].base)
  BY <1>2, OthersQuiet
<1>4. Quiet(p, t) /\ ~Writing(p, t)'
  BY <1>2 DEF Quiet, Claimant, Claiming, Starting, Due, Writing
<1>5. Readable(t)' => Readable(t) /\ task'[t] = task[t]
  BY <1>2 DEF Readable, TypeOK
<1>6. NothingNew(t)
  BY <1>2, <1>3, <1>4, <1>5 DEF NothingNew, Version
<1> QED  BY <1>3, <1>4, <1>6, QuietKeeps

(* The file of a new task: nobody knows of it.                             *)
LEMMA FillNewOwners ==
  ASSUME Typed, NewUntouched, NEW t \in Id, OwnersOf(t), NEW p \in Proc,
         proc[p].pc = "fill", FillNewTask(p)
  PROVE  OwnersOf(t)'
<1>1. /\ Others(p) /\ Leaves(p) /\ working' = working /\ proc[p].op = "create"
      /\ exists' = exists /\ torn' = torn \ {proc[p].id}
      /\ task' = [task EXCEPT ![proc[p].id] = Blank] /\ TypeOK
  BY FillNewIs DEF Typed
<1>2. \A q \in Proc \ {p} :
         Quiet(q, t) /\ (Writing(q, t)' => Writing(q, t) /\ proc'[q].base = proc[q].base)
  BY <1>1, OthersQuiet
<1>3. Quiet(p, t) /\ ~Writing(p, t)'
  BY <1>1 DEF Leaves, Quiet, Claimant, Claiming, Starting, Due, Writing
<1>4. CASE proc[p].id # t
  <2>1. Readable(t)' => Readable(t) /\ task'[t] = task[t]
    BY <1>1, <1>4 DEF Readable, TypeOK
  <2>2. NothingNew(t)
    BY <1>1, <1>2, <1>3, <2>1 DEF NothingNew, Version
  <2> QED  BY <1>2, <1>3, <2>2, QuietKeeps
<1>5. CASE proc[p].id = t
  <2>1. Creating(p, t)
    BY <1>1, <1>5 DEF Creating
  <2>2. /\ working[p] # t /\ \A q \in Proc \ {p} : Elsewhere(q, t)
    BY <2>1 DEF NewUntouched
  <2>3. \A q \in Proc \ {p} : /\ ~Claimant(q, t) /\ ~Claiming(q, t)
                             /\ \A d \in Proc : ~Due(q, t, d)
    BY <2>2 DEF Elsewhere, Claimant, Claiming, Starting, Due, Typed, Places, PlaceOf
  <2>4. /\ ~Claimant(p, t) /\ ~Claiming(p, t)
        /\ \A d \in Proc : ~Due(p, t, d)
    BY <1>1, <2>2 DEF Claimant, Claiming, Starting, Due
  <2>5. \A q \in Proc : /\ ~Claimant(q, t)' /\ ~Claiming(q, t)'
                       /\ \A d \in Proc : ~Due(q, t, d)'
    BY <1>2, <1>3, <2>3, <2>4 DEF Quiet
  <2> QED  BY <2>5 DEF OwnersOf
<1> QED  BY <1>4, <1>5

(* An update is written.  The writer is the only one: the file says what it *)
(* made of what it had read.                                               *)
LEMMA FillAlone ==
  ASSUME Typed, Locks, NEW p \in Proc, proc[p].pc = "fill", Fill(p), NEW t \in Id, proc[p].id = t,
         proc[p].op \notin {"assign", "take"}
  PROVE  /\ Writing(p, t) /\ ~Writing(p, t)' /\ ~Claiming(p, t)'
         /\ \A q \in Proc \ {p} : /\ ~Writing(q, t)' /\ ~Claiming(q, t) /\ Quiet(q, t)
         /\ Version(t, proc[p].base.owner) /\ proc[p].base.owner \in Owner
         /\ task'[t].owner = CASE proc[p].op = "claim" -> p
                               [] proc[p].op = "unassign" -> None
                               [] OTHER -> proc[p].base.owner
         /\ \A o : Version(t, o)' => o = task'[t].owner
<1>1. /\ Others(p) /\ Ended(p) /\ WorksOn(p) /\ proc[p].op \in UpdateOp \ {"create"}
      /\ task' = [task EXCEPT ![t] = Updated(p, proc[p].base)]
      /\ TypeOK /\ PlaceOf(p) /\ proc[p].base \in Task
  BY FillIs, LocalFields DEF Typed, Places
<1>2. Writing(p, t) /\ InTask(p)
  BY <1>1 DEF Writing, InTask
<1>3. \A q \in Proc \ {p} : Quiet(q, t) /\ (Writing(q, t)' => Writing(q, t))
  BY <1>1, OthersQuiet DEF WorksOn
<1>4. ASSUME NEW q \in Proc \ {p}  PROVE ~Writing(q, t) /\ ~Claiming(q, t)
  <2>1. Writing(q, t) \/ Claiming(q, t) => InTask(q) /\ proc[q].id = t
    BY DEF Writing, Claiming, InTask
  <2> QED  BY <1>2, <2>1, OneInTask
<1>5. ~Writing(p, t)' /\ ~Claiming(p, t)'
  BY <1>1, RestIs DEF Ended, Writing, Claiming
<1>6. task'[t] = Updated(p, proc[p].base)
  BY <1>1 DEF TypeOK
<1>7. proc[p].base.owner \in Owner
  BY <1>1 DEF Task, Owner
<1>8. task'[t].owner = CASE proc[p].op = "claim" -> p
                         [] proc[p].op = "unassign" -> None
                         [] OTHER -> proc[p].base.owner
  BY <1>1, <1>6, UpdatedIs
<1>9. \A o : Version(t, o)' => o = task'[t].owner
  BY <1>3, <1>4, <1>5 DEF Version
<1>10. Version(t, proc[p].base.owner)
  BY <1>2 DEF Version
<1> QED  BY <1>2, <1>3, <1>4, <1>5, <1>7, <1>8, <1>9, <1>10

LEMMA FillOwners ==
  ASSUME Typed, Locks, Retire, NEW t \in Id, OwnersOf(t), NEW p \in Proc, proc[p].pc = "fill", Fill(p),
         proc[p].op \notin {"assign", "take"}
  PROVE  OwnersOf(t)'
<1>1. /\ Others(p) /\ Ended(p) /\ WorksOn(p) /\ proc[p].op \in UpdateOp \ {"create"}
      /\ exists' = exists /\ torn' = torn \ {proc[p].id}
      /\ task' = [task EXCEPT ![proc[p].id] = Updated(p, proc[p].base)]
      /\ TypeOK /\ PlaceOf(p) /\ RetireOf(p)
  BY FillIs DEF Typed, Places, Retire
<1>2. CASE proc[p].id # t
  <2>1. \A q \in Proc \ {p} :
         Quiet(q, t) /\ (Writing(q, t)' => Writing(q, t) /\ proc'[q].base = proc[q].base)
    BY <1>1, OthersQuiet DEF WorksOn
  <2>2. Quiet(p, t)
    BY <1>1, <1>2, RestIs, Ids DEF Ended, WorksOn, Quiet, Claimant, Claiming, Starting, Due
  <2>3. ~Writing(p, t)'
    BY <1>1, RestIs DEF Ended, Writing
  <2>4. Readable(t)' => Readable(t) /\ task'[t] = task[t]
    BY <1>1, <1>2 DEF Readable, TypeOK
  <2>5. NothingNew(t)
    BY <1>1, <1>2, <2>1, <2>3, <2>4 DEF NothingNew, Version
  <2> QED  BY <2>1, <2>2, <2>5, QuietKeeps
<1>3. CASE proc[p].id = t
  <2> DEFINE b == proc[p].base
  <2>1. /\ ~Claiming(p, t)'
        /\ \A q \in Proc \ {p} : /\ ~Claiming(q, t) /\ Quiet(q, t)
        /\ Version(t, b.owner) /\ b.owner \in Owner
        /\ \A o : Version(t, o)' => o = task'[t].owner
    BY <1>3, FillAlone
  <2>2. \A q \in Proc : ~Claiming(q, t)'
    BY <2>1 DEF Quiet
  <2>3. CASE proc[p].op = "claim"
    <3>1. task'[t].owner = p
      BY <1>3, <2>3, FillAlone
    <3>2. Claiming(p, t)
      BY <1>3, <2>3 DEF Claiming
    <3>3. \A q \in Proc : ~Claimant(q, t) /\ \A d \in Proc : ~Due(q, t, d)
      BY <3>2 DEF OwnersOf
    <3>4. \A d \in Proc : ~Due(p, t, d)'
      BY <1>1, <2>3, <3>3 DEF Ended, Due
    <3>5. \A q \in Proc \ {p} : ~Claimant(q, t)' /\ \A d \in Proc : ~Due(q, t, d)'
      BY <2>1, <3>3 DEF Quiet
    <3> QED  BY <2>1, <2>2, <3>1, <3>4, <3>5 DEF OwnersOf, Owner
  <2>4. CASE proc[p].op = "start"
    <3>1. task'[t].owner = b.owner /\ Claimant(p, t)
      BY <1>3, <2>4, FillAlone DEF Claimant, Starting
    <3>2. b.owner = p /\ \A q \in Proc, d \in Proc : ~Due(q, t, d)
      BY <2>1, <3>1 DEF OwnersOf
    <3>3. \A d \in Proc : ~Due(p, t, d)'
      BY <1>1, <2>4, <3>2, RestIs DEF Ended, Due
    <3>4. \A q \in Proc \ {p} : ~Claimant(q, t)' /\ \A d \in Proc : ~Due(q, t, d)'
      BY <2>1, <3>1, <3>2 DEF Quiet, OwnersOf
    <3> QED  BY <2>1, <2>2, <3>1, <3>2, <3>3, <3>4 DEF OwnersOf, Owner
  <2>5. CASE proc[p].op = "unassign"
    <3>1. PICK d \in Proc : d = proc[p].target
      BY <1>1, <2>5 DEF PlaceOf
    <3>2. Due(p, t, d)
      BY <1>3, <2>5, <3>1 DEF Due
    <3>3. (\A q \in Proc : ~Claimant(q, t) /\ ~Claiming(q, t)) /\ b.owner = d
      BY <2>1, <3>2 DEF OwnersOf
    <3>4. \A e \in Proc : ~Due(p, t, e)'
      BY <1>1, <1>3, <2>5, RestIs DEF RetireOf, Ended, Due
    <3>5. ASSUME NEW q \in Proc \ {p}, NEW e \in Proc, Due(q, t, e)'  PROVE FALSE
      <4>1. Due(q, t, e)
        BY <2>1, <3>5 DEF Quiet
      <4>2. e = d
        BY <2>1, <3>3, <4>1 DEF OwnersOf
      <4> QED  BY <1>1, <2>5, <3>1, <4>1, <4>2 DEF RetireOf, Due
    <3>6. ~Claimant(p, t)'
      BY <1>1, <2>5, <3>3, RestIs DEF Ended, WorksOn, Claimant, Starting
    <3>7. \A q \in Proc : ~Claimant(q, t)'
      BY <1>1, <2>1, <2>5, <3>3, <3>6 DEF Quiet
    <3> QED  BY <2>2, <3>4, <3>5, <3>7 DEF OwnersOf, Claimant
  <2>6. CASE proc[p].op \notin {"claim", "start", "unassign"}
    <3>1. task'[t].owner = b.owner
      BY <1>3, <2>6, FillAlone
    <3>2. Quiet(p, t)
      BY <1>1, <2>6, RestIs DEF Ended, WorksOn, Quiet, Claimant, Claiming, Starting, Due
    <3>3. NothingNew(t)
      BY <1>1, <2>1, <2>6, <3>1 DEF NothingNew
    <3> QED  BY <2>1, <3>2, <3>3, QuietKeeps
  <2> QED  BY <2>3, <2>4, <2>5, <2>6
<1> QED  BY <1>2, <1>3

LEMMA NextClaims ==
  ASSUME Unowned, Typed, Locks, NewUntouched, Steady, Retire, Claims, Next
  PROVE  Claims'
<1> SUFFICES ASSUME "claim" \in ops, NEW t \in Id  PROVE OwnersOf(t)'
  BY DEF Claims, Id, Next
<1>1. OwnersOf(t)
  BY DEF Claims
<1>2. \A p \in Proc : proc[p].op \notin {"assign", "take"}
  BY DEF Unowned, Typed, TypeOK, Places, PlaceOf
<1> QED  BY <1>1, <1>2, Kinds, PlainOwners, RemovesOwners, WriteOwners, WriteNewOwners, FillNewOwners,
         FillOwners

LEMMA InitOwners ==
  ASSUME Init
  PROVE  NewUntouched /\ Steady /\ Retire /\ Claims
<1>1. Typed /\ \A p \in Proc : proc[p] = Rest /\ working[p] = 0
  BY InitTyped DEF Init
<1>2. \A p \in Proc, t \in Id :
        /\ ~Creating(p, t) /\ ~Claimant(p, t) /\ ~Claiming(p, t) /\ ~Writing(p, t)
        /\ \A d \in Proc : ~Due(p, t, d)
  BY <1>1, RestIs, Ids DEF Creating, Claimant, Starting, Claiming, Writing, Due
<1>3. NewUntouched /\ Steady /\ Retire
  BY <1>1, <1>2, RestIs DEF NewUntouched, Steady, SteadyFor, Retire, RetireOf
<1>4. ASSUME NEW t \in Id  PROVE OwnersOf(t)
  BY <1>2 DEF OwnersOf
<1> QED  BY <1>3, <1>4 DEF Claims

LEMMA SteadySpec ==
  ASSUME Apart
  PROVE  Spec => [](Typed /\ Locks /\ Known /\ Fresh /\ NewUntouched /\ Steady)
<1> DEFINE J == NewUntouched /\ Steady
           I == Typed /\ Locks /\ Known /\ Fresh
<1>1. Spec => []I
  BY NumberedSpec
<1>2. Init => J
  BY InitOwners
<1>3. I /\ J /\ [Next]_vars => J'
  <2>1. CASE Next
    BY <2>1, NextUntouched, NextSteady
  <2>2. CASE UNCHANGED vars
    BY <2>2 DEF vars, NewUntouched, Creating, Elsewhere, Readable, Steady, SteadyFor
  <2> QED  BY <2>1, <2>2
<1> QED  BY <1>1, <1>2, <1>3, PTL DEF Spec

LEMMA OwnedSpec ==
  ASSUME Apart, Unowned
  PROVE  Spec => [](Typed /\ Steady /\ Claims)
<1> DEFINE J == Retire /\ Claims
           I == Typed /\ Locks /\ NewUntouched /\ Steady
<1>0. Spec => [](Typed /\ Locks /\ Known /\ Fresh /\ NewUntouched /\ Steady)
  BY SteadySpec
<1>1. Spec => []I
  BY <1>0, PTL
<1>2. Init => J
  BY InitOwners
<1>3. I /\ J /\ [Next]_vars => J'
  <2>1. CASE Next
    BY <2>1, NextRetire, NextClaims
  <2>2. CASE UNCHANGED vars
    <3>1. Retire /\ UNCHANGED vars => Retire'
      BY DEF vars, Retire, RetireOf, Gone, Dead
    <3>2. Claims /\ UNCHANGED vars => Claims'
      BY DEF vars, Claims, OwnersOf, Claimant, Starting, Claiming, Due, Writing, Version, Readable,
         Owner, Id
    <3> QED  BY <2>2, <3>1, <3>2
  <2> QED  BY <2>1, <2>2
<1> QED  BY <1>1, <1>2, <1>3, PTL DEF Spec

(* updateTask, updateTaskUnsafe and deleteTask: an update never writes over *)
(* anything but what it has read, whichever agent updates, claims, deletes,*)
(* unassigns or dies between its read, its truncation and its write.       *)
THEOREM NothingIsLost == ASSUME Apart PROVE Spec => []NoLostUpdate
<1>1. Steady => NoLostUpdate
  BY DEF Steady, SteadyFor, NoLostUpdate, At
<1> QED  BY <1>1, SteadySpec, PTL

(* claimTask: two live agents never work on the same task, whatever dies,   *)
(* is unassigned, or is updated from an older read in between.             *)
THEOREM OneWorkerEach == ASSUME Apart, Unowned PROVE Spec => []OneWorker
<1>1. Typed /\ Claims => OneWorker
  <2> SUFFICES ASSUME Typed, Claims, NEW p \in Proc, NEW q \in Proc, p # q, working[p] # 0
               PROVE  working[p] # working[q]
    BY DEF OneWorker
  <2>1. PICK t \in Id : t = working[p]
    BY LocalFields DEF Typed, Id
  <2>2. Claimant(p, t) /\ OwnersOf(t)
    BY <2>1 DEF Claimant, Claims, Typed, Places, PlaceOf
  <2> QED  BY <2>1, <2>2 DEF OwnersOf, Claimant
<1> QED  BY <1>1, OwnedSpec, PTL

(* claimTask, updateTask and unassignTeammateTasks: no operation, working   *)
(* from an older read, overwrites the owner of a task that is worked on.   *)
THEOREM WorkersAreOwners == ASSUME Apart, Unowned PROVE Spec => []WorkerIsOwner
<1>1. Typed /\ Steady /\ Claims => WorkerIsOwner
  <2> SUFFICES ASSUME Typed, Steady, Claims, NEW p \in Proc, working[p] # 0, Readable(working[p])
               PROVE  task[working[p]].owner = p
    BY DEF WorkerIsOwner
  <2>1. PICK t \in Id : t = working[p]
    BY LocalFields DEF Typed, Id
  <2>2. Claimant(p, t) /\ OwnersOf(t)
    BY <2>1 DEF Claimant, Claims, Typed, Places, PlaceOf
  <2>3. task[t].owner \in Owner /\ Version(t, task[t].owner)
    BY <2>1, FileIsVersion
  <2> QED  BY <2>1, <2>2, <2>3 DEF OwnersOf
<1> QED  BY <1>1, OwnedSpec, PTL
=============================================================================
