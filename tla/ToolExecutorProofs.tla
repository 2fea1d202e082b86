------------------------- MODULE ToolExecutorProofs -------------------------
(***************************************************************************)
(* For any number of calls of any kinds.  The invariant is built in four   *)
(* layers, each kept by a step from a state in which it and the layers     *)
(* below hold: IInv - what the suspended processQueue scans have left      *)
(* behind them, hence exclusive tools alone and starts in order; TInv -    *)
(* what is known of each call; LInv - the query loop goes on for one       *)
(* reason at a time; EInv - what has been emitted, and in which order.     *)
(***************************************************************************)
EXTENDS ToolExecutor, LineProofs

(* The invariants as predicates of a status function, so that they can     *)
(* also be stated of the array processQueue sees in mid-segment.           *)
ExclusiveIn(st) ==
  \A t, u \in Executing(st) : t # u => Safe(t) /\ Safe(u)

OrderedIn(st) ==
  \A t, u \in Tool :
    (t < u /\ st[t] = "queued" /\ kind[u].known) => st[u] \in {"none", "queued"}

(* Nothing has happened yet to the tools after the m-th.                   *)
NoneAfter(st, m) == \A t \in Tool : t > m => st[t] = "none"

(* No suspended scan has left a queued tool behind it, and none stands     *)
(* beyond the end of the array.                                            *)
NothingBehind(st, queue, m) ==
  \A x \in 1 .. Len(queue) :
    /\ queue[x].from <= m + 1
    /\ \A t \in Tool : t < queue[x].from => st[t] # "queued"

IInv ==
  /\ TypeOK
  /\ ExclusiveIn(status)
  /\ OrderedIn(status)
  /\ NoneAfter(status, n)
  /\ NothingBehind(status, ready, n)

-----------------------------------------------------------------------------
(* The tool a scan starts has no queued tool before it.                    *)
LEMMA NoQueuedBefore ==
  ASSUME TypeOK, NEW st \in [Tool -> Status], NEW i \in Nat, NEW j \in Tool,
         \A t \in Tool : t < i => st[t] # "queued",
         ScanStarts(st, i, j)
  PROVE  \A t \in Tool : t < j => st[t] # "queued"
<1> SUFFICES ASSUME NEW t \in Tool, t < j, st[t] = "queued"
             PROVE  FALSE
  OBVIOUS
<1>1. i <= t
  BY DEF Tool
<1>2. Safe(t) /\ ~CanExecute(st, t)
  BY <1>1 DEF ScanStarts
<1>3. CanExecute(st, j)
  BY DEF ScanStarts
<1> QED
  BY <1>2, <1>3 DEF CanExecute

(* Starting it keeps exclusive tools alone.                                *)
LEMMA StartKeepsExclusive ==
  ASSUME TypeOK, NEW st \in [Tool -> Status], NEW j \in Tool,
         ExclusiveIn(st), CanExecute(st, j), Start(st, j)
  PROVE  ExclusiveIn(status')
<1>1. status' \in [Tool -> Status] /\ Executing(status') \subseteq Executing(st) \cup {j}
  BY DEF Start, Executing, Status
<1>2. CASE Executing(st) = {}
  BY <1>1, <1>2 DEF ExclusiveIn
<1>3. CASE Safe(j) /\ \A u \in Executing(st) : Safe(u)
  BY <1>1, <1>3 DEF ExclusiveIn
<1> QED
  BY <1>2, <1>3 DEF CanExecute

(* Queueing a microtask that leaves no queued tool behind.                 *)
LEMMA AppendKeepsNothingBehind ==
  ASSUME NEW m \in Nat, NEW st \in [Tool -> Status],
         NEW queue \in Seq(Job), NEW job \in Job,
         NothingBehind(st, queue, m),
         job.from <= m + 1,
         \A t \in Tool : t < job.from => st[t] # "queued"
  PROVE  Append(queue, job) \in Seq(Job) /\ NothingBehind(st, Append(queue, job), m)
<1>1. /\ Append(queue, job) \in Seq(Job)
      /\ Len(Append(queue, job)) = Len(queue) + 1
      /\ Append(queue, job)[Len(queue) + 1] = job
      /\ \A x \in 1 .. Len(queue) : Append(queue, job)[x] = queue[x]
  OBVIOUS
<1>2. ASSUME NEW x \in 1 .. Len(queue) + 1
      PROVE  /\ Append(queue, job)[x].from <= m + 1
             /\ \A t \in Tool : t < Append(queue, job)[x].from => st[t] # "queued"
  <2>1. CASE x = Len(queue) + 1
    BY <1>1, <2>1
  <2>2. CASE x \in 1 .. Len(queue)
    BY <1>1, <2>2 DEF NothingBehind
  <2> QED
    BY <2>1, <2>2
<1> QED
  BY <1>1, <1>2 DEF NothingBehind

(* What one segment of processQueue preserves.                             *)
LEMMA ScanKeeps ==
  ASSUME TypeOK, NEW m \in 0 .. MaxTools, NEW st \in [Tool -> Status],
         NEW i \in 1 .. MaxTools + 1, NEW who \in {"void", "loop"},
         NEW queue \in Seq(Job),
         ExclusiveIn(st), OrderedIn(st), NoneAfter(st, m),
         NothingBehind(st, queue, m),
         \A t \in Tool : t < i => st[t] # "queued",
         Scan(st, i, who, queue)
  PROVE  /\ status' \in [Tool -> Status]
         /\ answers' \in [Tool -> 0 .. 2]
         /\ inProgress' \subseteq Tool
         /\ launched' \subseteq Tool
         /\ interruptible' \in BOOLEAN
         /\ ready' \in Seq(Job)
         /\ ExclusiveIn(status')
         /\ OrderedIn(status')
         /\ NoneAfter(status', m)
         /\ NothingBehind(status', ready', m)
<1>0. MaxTools \in Nat /\ m \in Nat /\ i \in Nat
  BY ConstantsAssumption DEF ConstantsAssumption
<1> DEFINE Fresh(j)  == [who |-> who, from |-> j + 1]
           Before(j) == IF Aborts(j, hasErrored) THEN Append(queue, Rescan) ELSE queue
<1>1. ASSUME NEW j \in Tool, ScanStarts(st, i, j), Start(st, j),
             ready' = Append(Before(j), Fresh(j))
      PROVE  /\ status' \in [Tool -> Status]
             /\ answers' \in [Tool -> 0 .. 2]
             /\ inProgress' \subseteq Tool
             /\ launched' \subseteq Tool
             /\ interruptible' \in BOOLEAN
             /\ ready' \in Seq(Job)
             /\ ExclusiveIn(status')
             /\ OrderedIn(status')
             /\ NoneAfter(status', m)
             /\ NothingBehind(status', ready', m)
  <2>1. st[j] = "queued" /\ CanExecute(st, j) /\ j <= m
    BY <1>0, <1>1 DEF ScanStarts, NoneAfter, Tool
  <2>2. \A t \in Tool : t < j => st[t] # "queued"
    BY <1>0, <1>1, NoQueuedBefore
  <2>3. /\ status' \in [Tool -> Status]
        /\ status'[j] \in {"executing", "completed"}
        /\ \A t \in Tool : t # j => status'[t] = st[t]
    BY <1>1 DEF Start, Status
  <2>4. ExclusiveIn(status')
    BY <1>1, <2>1, StartKeepsExclusive
  <2>5. OrderedIn(status') /\ NoneAfter(status', m)
    BY <1>0, <2>1, <2>2, <2>3 DEF OrderedIn, NoneAfter, Tool
  <2>6. Fresh(j) \in Job /\ Rescan \in Job
    BY <1>0 DEF Job, Rescan, Tool
  <2>7. NothingBehind(status', queue, m)
    BY <2>1, <2>3 DEF NothingBehind
  <2>8. Before(j) \in Seq(Job) /\ NothingBehind(status', Before(j), m)
    <3>1. Rescan.from <= m + 1 /\ \A t \in Tool : ~(t < Rescan.from)
      BY <1>0 DEF Rescan, Tool
    <3> QED
      BY <1>0, <2>3, <2>6, <2>7, <3>1, AppendKeepsNothingBehind
  <2>9. ready' \in Seq(Job) /\ NothingBehind(status', ready', m)
    <3>1. Fresh(j).from <= m + 1
      BY <1>0, <2>1 DEF Tool
    <3>2. \A t \in Tool : t < Fresh(j).from => status'[t] # "queued"
      BY <1>0, <2>2, <2>3 DEF Tool
    <3> HIDE DEF Fresh, Before
    <3> QED
      BY <1>0, <1>1, <2>3, <2>6, <2>8, <3>1, <3>2, AppendKeepsNothingBehind
  <2>10. /\ answers' \in [Tool -> 0 .. 2]
         /\ inProgress' \subseteq Tool
         /\ launched' \subseteq Tool
         /\ interruptible' \in BOOLEAN
    BY <1>1 DEF Start, TypeOK, AllCancellable
  <2> QED
    BY <2>3, <2>4, <2>5, <2>9, <2>10
<1>2. CASE /\ status' = st
           /\ ready' = IF who = "loop" THEN Append(queue, [who |-> "pass", from |-> 1])
                                       ELSE queue
           /\ UNCHANGED <<answers, inProgress, interruptible, launched>>
  <2> DEFINE pass == [who |-> "pass", from |-> 1]
  <2>1. pass \in Job /\ pass.from <= m + 1 /\ \A t \in Tool : ~(t < pass.from)
    BY <1>0 DEF Job, Tool
  <2>2. ready' \in Seq(Job) /\ NothingBehind(st, ready', m)
    BY <1>0, <1>2, <2>1, AppendKeepsNothingBehind
  <2> QED
    BY <1>2, <2>2 DEF TypeOK
<1> QED
  BY <1>1, <1>2 DEF Scan

-----------------------------------------------------------------------------
(* The initial state, and each kind of step, establish the invariant.      *)
LEMMA InitEstablishes == Init => IInv
<1> SUFFICES ASSUME Init PROVE IInv
  OBVIOUS
<1>1. TypeOK
  <2>1. MaxTools \in Nat \ {0} /\ MaxProgress \in Nat
    BY ConstantsAssumption DEF ConstantsAssumption
  <2>2. 0 \in 0 .. MaxTools /\ 0 \in 0 .. 2 /\ 0 \in 0 .. MaxProgress /\ 1 \in Tool
    BY <2>1 DEF Tool
  <2>3. ready \in Seq(Job) /\ emitted \in Seq(Tool)
    BY DEF Init
  <2>4. /\ n \in 0 .. MaxTools
        /\ kind \in [Tool -> Kinds]
        /\ status \in [Tool -> Status]
        /\ answers \in [Tool -> 0 .. 2]
        /\ progress \in [Tool -> 0 .. MaxProgress]
    BY <2>2 DEF Init, Status
  <2>5. pos \in Tool
    BY <2>2 DEF Init
  <2> QED
    BY <2>3, <2>4, <2>5 DEF Init, TypeOK
<1>2. ExclusiveIn(status) /\ OrderedIn(status) /\ NoneAfter(status, n)
  BY DEF Init, ExclusiveIn, OrderedIn, NoneAfter, Executing
<1>3. NothingBehind(status, ready, n)
  BY DEF Init, NothingBehind
<1> QED
  BY <1>1, <1>2, <1>3 DEF IInv

(* The parts of the invariant that speak of the microtasks and the tools   *)
(* survive a step that queues nothing, starts nothing and orphans at will. *)
LEMMA NoStartKeeps ==
  ASSUME IInv, TypeOK', kind' = kind, n' = n,
         ready' = ready \/ ready' = Append(ready, Rescan) \/ ready' = <<>>,
         \A t \in Tool : status'[t] # status[t] =>
           status[t] # "none" /\ status'[t] \in {"completed", "yielded", "orphaned", "dropped"},
         (\A t \in Tool : status'[t] # "queued") \/
         (\A t \in Tool : status'[t] # status[t] => status[t] # "queued")
  PROVE  IInv'
<1>0. MaxTools \in Nat /\ n \in Nat /\ status \in [Tool -> Status] /\ ready \in Seq(Job)
      /\ status' \in [Tool -> Status]
  BY ConstantsAssumption DEF ConstantsAssumption, IInv, TypeOK
<1>1. ExclusiveIn(status)'
  <2>1. Executing(status') \subseteq Executing(status)
    BY DEF Executing
  <2> QED
    BY <2>1 DEF IInv, ExclusiveIn, Safe
<1>2. OrderedIn(status)'
  BY DEF IInv, OrderedIn
<1>3. NoneAfter(status, n)'
  BY DEF IInv, NoneAfter
<1>4. NothingBehind(status', ready, n)
  BY DEF IInv, NothingBehind
<1>5. Rescan \in Job /\ Rescan.from <= n + 1 /\ \A t \in Tool : ~(t < Rescan.from)
  BY <1>0 DEF Rescan, Job, Tool
<1>6. NothingBehind(status, ready, n)'
  <2>1. CASE ready' = ready
    BY <1>4, <2>1 DEF NothingBehind
  <2>2. CASE ready' = Append(ready, Rescan)
    <3>1. NothingBehind(status', Append(ready, Rescan), n)
      BY <1>0, <1>4, <1>5, AppendKeepsNothingBehind
    <3> QED
      BY <2>2, <3>1 DEF NothingBehind
  <2>3. CASE ready' = <<>>
    BY <2>3 DEF NothingBehind
  <2> QED
    BY <2>1, <2>2, <2>3
<1> QED
  BY <1>1, <1>2, <1>3, <1>6 DEF IInv

(* A step that changes none of the tools, nor the microtasks.              *)
LEMMA ToolsUnchangedKeeps ==
  ASSUME IInv, TypeOK', UNCHANGED <<kind, n, status, ready>>
  PROVE  IInv'
BY NoStartKeeps

-----------------------------------------------------------------------------
LEMMA RunJobKeeps ==
  ASSUME IInv, RunJob PROVE IInv'
<1> DEFINE job == Head(ready)
<1>0. /\ MaxTools \in Nat \ {0} /\ n \in 0 .. MaxTools /\ status \in [Tool -> Status]
      /\ ready \in Seq(Job) /\ ready # <<>> /\ TypeOK
  BY ConstantsAssumption DEF ConstantsAssumption, IInv, TypeOK, RunJob
<1>1. /\ job \in Job /\ job = ready[1] /\ 1 \in 1 .. Len(ready)
      /\ Tail(ready) \in Seq(Job) /\ Len(Tail(ready)) = Len(ready) - 1
      /\ \A x \in 1 .. Len(ready) - 1 : Tail(ready)[x] = ready[x + 1]
  BY <1>0
<1>2. NothingBehind(status, Tail(ready), n)
  <2> SUFFICES ASSUME NEW x \in 1 .. Len(ready) - 1
               PROVE  /\ ready[x + 1].from <= n + 1
                      /\ \A t \in Tool : t < ready[x + 1].from => status[t] # "queued"
    BY <1>1 DEF NothingBehind
  <2>1. x + 1 \in 1 .. Len(ready)
    BY <1>0
  <2> QED
    BY <2>1 DEF IInv, NothingBehind
<1>3. CASE job.who = "pass"
  <2>1. UNCHANGED <<kind, n, status, answers, progress, hasErrored, aborted,
                    interruptible, inProgress, launched, drain, waitSet,
                    signalled, emitted>> /\ ready' = Tail(ready)
                    /\ pc' = "collect" /\ pos' = 1
    BY <1>3 DEF RunJob, BeginPass
  <2>2. TypeOK'
    BY <1>0, <1>1, <2>1 DEF TypeOK, Tool
  <2> QED
    BY <1>2, <2>1, <2>2 DEF IInv, ExclusiveIn, OrderedIn, NoneAfter, NothingBehind, Executing, Safe
<1>4. CASE job.who # "pass"
  <2>1. /\ Scan(status, job.from, job.who, Tail(ready))
        /\ UNCHANGED <<pc, pos, n, kind, progress, hasErrored, aborted, drain,
                       waitSet, signalled, emitted>>
    BY <1>4 DEF RunJob
  <2>2. \A t \in Tool : t < job.from => status[t] # "queued"
    BY <1>1 DEF IInv, NothingBehind
  <2>3. job.who \in {"void", "loop"} /\ job.from \in 1 .. MaxTools + 1
    BY <1>1, <1>4 DEF Job
  <2> HIDE DEF job
  <2>4. /\ status' \in [Tool -> Status]
        /\ answers' \in [Tool -> 0 .. 2]
        /\ inProgress' \subseteq Tool
        /\ launched' \subseteq Tool
        /\ interruptible' \in BOOLEAN
        /\ ready' \in Seq(Job)
        /\ ExclusiveIn(status')
        /\ OrderedIn(status')
        /\ NoneAfter(status', n)
        /\ NothingBehind(status', ready', n)
    BY <1>0, <1>1, <1>2, <2>1, <2>2, <2>3, ScanKeeps DEF IInv
  <2>5. TypeOK'
    BY <1>0, <2>1, <2>4 DEF TypeOK
  <2> QED
    BY <2>1, <2>4, <2>5 DEF IInv, ExclusiveIn, OrderedIn, NoneAfter, NothingBehind, Executing, Safe
<1> QED
  BY <1>3, <1>4

LEMMA LoopScanKeeps ==
  ASSUME IInv, LoopScan PROVE IInv'
<1>0. /\ MaxTools \in Nat \ {0} /\ n \in 0 .. MaxTools /\ status \in [Tool -> Status]
      /\ ready \in Seq(Job) /\ TypeOK
  BY ConstantsAssumption DEF ConstantsAssumption, IInv, TypeOK
<1>1. 1 \in 1 .. MaxTools + 1 /\ \A t \in Tool : ~(t < 1)
  BY <1>0 DEF Tool
<1>2. /\ Scan(status, 1, "loop", ready) /\ pc' = "awaiting"
      /\ UNCHANGED <<n, kind, progress, hasErrored, aborted, drain, pos, waitSet,
                     signalled, emitted>>
  BY DEF LoopScan
<1>3. /\ status' \in [Tool -> Status]
      /\ answers' \in [Tool -> 0 .. 2]
      /\ inProgress' \subseteq Tool
      /\ launched' \subseteq Tool
      /\ interruptible' \in BOOLEAN
      /\ ready' \in Seq(Job)
      /\ ExclusiveIn(status')
      /\ OrderedIn(status')
      /\ NoneAfter(status', n)
      /\ NothingBehind(status', ready', n)
  BY <1>0, <1>1, <1>2, ScanKeeps DEF IInv
<1>4. TypeOK'
  BY <1>0, <1>2, <1>3 DEF TypeOK
<1> QED
  BY <1>2, <1>3, <1>4 DEF IInv, ExclusiveIn, OrderedIn, NoneAfter, NothingBehind, Executing, Safe

LEMMA ReceiveKeeps ==
  ASSUME IInv, Receive PROVE IInv'
<1> DEFINE t == n + 1
           st == [status EXCEPT ![t] = "queued"]
<1>0. /\ MaxTools \in Nat \ {0} /\ n \in 0 .. MaxTools /\ status \in [Tool -> Status]
      /\ ready \in Seq(Job) /\ TypeOK
  BY ConstantsAssumption DEF ConstantsAssumption, IInv, TypeOK
<1>1. /\ n' = t /\ pc' = "collect" /\ pos' = 1
      /\ UNCHANGED <<kind, progress, hasErrored, aborted, drain, waitSet,
                     signalled, emitted>>
  BY DEF Receive, BeginPass
<1>2. t \in Tool /\ t \in 0 .. MaxTools /\ 1 \in Tool /\ status[t] = "none"
  BY <1>0 DEF Receive, Tool, IInv, NoneAfter
<1>a. ASSUME NEW x \in 1 .. Len(ready) PROVE ready[x].from \in Nat
  <2>1. ready[x] \in Job
    BY <1>0
  <2> QED
    BY <1>0, <2>1 DEF Job
<1>3. NothingBehind(status, ready, t)
  <2> SUFFICES ASSUME NEW x \in 1 .. Len(ready)
               PROVE  /\ ready[x].from <= t + 1
                      /\ \A u \in Tool : u < ready[x].from => status[u] # "queued"
    BY DEF NothingBehind
  <2>1. /\ ready[x].from <= n + 1
        /\ \A u \in Tool : u < ready[x].from => status[u] # "queued"
    BY DEF IInv, NothingBehind
  <2> QED
    BY <1>0, <1>a, <2>1
<1>4. CASE kind[t].known
  <2>1. Scan(st, 1, "void", ready)
    BY <1>4 DEF Receive
  <2>2. st \in [Tool -> Status] /\ \A u \in Tool : u # t => st[u] = status[u]
    BY <1>0, <1>2 DEF Status
  <2>3. st[t] = "queued"
    BY <1>0, <1>2
  <2>4. ExclusiveIn(st)
    BY <2>2, <2>3 DEF IInv, ExclusiveIn, Executing
  <2>5. OrderedIn(st) /\ NoneAfter(st, t)
    BY <1>0, <1>2, <2>2, <2>3 DEF IInv, OrderedIn, NoneAfter, Tool
  <2>6. NothingBehind(st, ready, t)
    <3> SUFFICES ASSUME NEW x \in 1 .. Len(ready)
                 PROVE  /\ ready[x].from <= t + 1
                        /\ \A u \in Tool : u < ready[x].from => st[u] # "queued"
      BY DEF NothingBehind
    <3>1. /\ ready[x].from <= n + 1
          /\ \A u \in Tool : u < ready[x].from => status[u] # "queued"
      BY DEF IInv, NothingBehind
    <3>2. ready[x].from \in Nat
      BY <1>a
    <3> QED
      BY <1>0, <2>2, <3>1, <3>2 DEF Tool
  <2>7. 1 \in 1 .. MaxTools + 1 /\ \A u \in Tool : ~(u < 1)
    BY <1>0 DEF Tool
  <2> HIDE DEF st, t
  <2>8. /\ status' \in [Tool -> Status]
        /\ answers' \in [Tool -> 0 .. 2]
        /\ inProgress' \subseteq Tool
        /\ launched' \subseteq Tool
        /\ interruptible' \in BOOLEAN
        /\ ready' \in Seq(Job)
        /\ ExclusiveIn(status')
        /\ OrderedIn(status')
        /\ NoneAfter(status', t)
        /\ NothingBehind(status', ready', t)
    BY <1>0, <1>2, <2>1, <2>2, <2>4, <2>5, <2>6, <2>7, ScanKeeps
  <2>9. TypeOK'
    BY <1>0, <1>1, <1>2, <2>8 DEF TypeOK
  <2> QED
    BY <1>1, <2>8, <2>9 DEF IInv, ExclusiveIn, OrderedIn, NoneAfter, NothingBehind, Executing, Safe
<1>5. CASE ~kind[t].known
  <2>1. /\ status' = [status EXCEPT ![t] = "completed"]
        /\ answers' = [answers EXCEPT ![t] = 1]
        /\ UNCHANGED <<ready, inProgress, interruptible, launched>>
    BY <1>5 DEF Receive
  <2>2. TypeOK'
    <3>1. status' \in [Tool -> Status] /\ answers' \in [Tool -> 0 .. 2]
      <4>1. "completed" \in Status /\ 1 \in 0 .. 2 /\ answers \in [Tool -> 0 .. 2]
        BY <1>0 DEF TypeOK, Status
      <4> HIDE DEF t
      <4> QED
        BY <1>0, <2>1, <4>1
    <3> QED
      BY <1>0, <1>1, <1>2, <2>1, <3>1 DEF TypeOK
  <2>3. ExclusiveIn(status)'
    BY <1>0, <1>1, <2>1 DEF IInv, ExclusiveIn, Executing, Safe
  <2>4. OrderedIn(status)'
    <3> SUFFICES ASSUME NEW a \in Tool, NEW b \in Tool, a < b,
                        status'[a] = "queued", kind'[b].known
                 PROVE  status'[b] \in {"none", "queued"}
      BY DEF OrderedIn
    <3>1. a # t /\ b # t
      BY <1>0, <1>1, <1>2, <1>5, <2>1
    <3> HIDE DEF t
    <3> QED
      BY <1>0, <1>1, <2>1, <3>1 DEF IInv, OrderedIn
  <2>5. NoneAfter(status, n)'
    BY <1>0, <1>1, <1>2, <2>1 DEF IInv, NoneAfter, Tool
  <2>6. NothingBehind(status, ready, n)'
    <3>1. \A u \in Tool : status'[u] = "queued" => status[u] = "queued"
      BY <1>0, <2>1
    <3> HIDE DEF t
    <3> QED
      BY <1>1, <1>3, <2>1, <3>1 DEF NothingBehind
  <2> QED
    BY <2>2, <2>3, <2>4, <2>5, <2>6 DEF IInv
<1> QED
  BY <1>4, <1>5

(* The steps that finish or give up tools.                                 *)
LEMMA EndingsKeep ==
  ASSUME IInv, NEW t \in Tool, NEW err \in BOOLEAN, NEW extra \in BOOLEAN,
         Finish(t, err, extra) \/ OrphanFinishes(t) \/ YieldResult(t) \/ Discard
  PROVE  IInv'
<1>0. /\ MaxTools \in Nat \ {0} /\ MaxProgress \in Nat /\ TypeOK
      /\ Rescan \in Job
  BY ConstantsAssumption DEF ConstantsAssumption, IInv, Rescan, Job
<1>1. CASE Finish(t, err, extra)
  <2>1. /\ UNCHANGED <<n, kind, progress, aborted, inProgress, launched>>
        /\ UNCHANGED <<pc, drain, pos, waitSet, signalled, emitted>>
        /\ status[t] = "executing" /\ status' = [status EXCEPT ![t] = "completed"]
        /\ ready' = Append(ready, Rescan)
        /\ hasErrored' \in BOOLEAN /\ interruptible' \in BOOLEAN
        /\ answers' \in [Tool -> 0 .. 2]
    BY <1>0, <1>1 DEF Finish, loopVars, TypeOK, AllCancellable
  <2>2. status' \in [Tool -> Status] /\ ready' \in Seq(Job)
    BY <1>0, <2>1 DEF TypeOK, Status
  <2>3. TypeOK'
    BY <1>0, <2>1, <2>2 DEF TypeOK
  <2> QED
    BY <1>0, <2>1, <2>3, NoStartKeeps DEF TypeOK
<1>2. CASE OrphanFinishes(t)
  <2>1. /\ UNCHANGED <<n, kind, answers, progress, hasErrored, aborted, inProgress,
                       launched, ready>>
        /\ UNCHANGED <<pc, drain, pos, waitSet, signalled, emitted>>
        /\ status[t] = "orphaned" /\ status' = [status EXCEPT ![t] = "dropped"]
        /\ interruptible' = FALSE
    BY <1>2 DEF OrphanFinishes, loopVars
  <2>2. status' \in [Tool -> Status]
    BY <1>0, <2>1 DEF TypeOK, Status
  <2>3. TypeOK'
    BY <1>0, <2>1, <2>2 DEF TypeOK
  <2> QED
    BY <1>0, <2>1, <2>3, NoStartKeeps DEF TypeOK
<1>3. CASE YieldResult(t)
  <2>1. /\ UNCHANGED <<n, kind, answers, progress, hasErrored, aborted,
                       interruptible, inProgress, launched, ready, drain,
                       waitSet, signalled>>
        /\ status[t] = "completed" /\ status' = [status EXCEPT ![t] = "yielded"]
        /\ emitted' = Append(emitted, t) /\ pos' = t /\ pc' = "paused"
    BY <1>3 DEF YieldResult, HasResult
  <2>2. status' \in [Tool -> Status] /\ emitted' \in Seq(Tool)
    BY <1>0, <2>1 DEF TypeOK, Status
  <2>3. TypeOK'
    BY <1>0, <2>1, <2>2 DEF TypeOK
  <2> QED
    BY <1>0, <2>1, <2>3, NoStartKeeps DEF TypeOK
<1>4. CASE Discard
  <2>1. /\ UNCHANGED <<n, kind, answers, aborted, interruptible, inProgress,
                       launched, pc, drain, pos, waitSet, signalled>>
        /\ ready' = <<>> /\ emitted' = <<>> /\ hasErrored' = FALSE
        /\ progress' = [u \in Tool |-> 0]
        /\ status' = [u \in Tool |->
                        CASE status[u] = "executing" -> "orphaned"
                          [] status[u] \in {"queued", "completed", "yielded"} -> "dropped"
                          [] OTHER -> status[u]]
    BY <1>4 DEF Discard
  <2>2. \A u \in Tool :
          /\ status'[u] \in Status /\ status'[u] # "queued"
          /\ status'[u] # status[u] =>
               status[u] # "none" /\ status'[u] \in {"orphaned", "dropped"}
    <3> TAKE u \in Tool
    <3>1. status[u] \in Status
      BY <1>0 DEF TypeOK
    <3> QED
      BY <2>1, <3>1 DEF Status
  <2>3. TypeOK'
    <3>1. status' \in [Tool -> Status]
      BY <2>1, <2>2
    <3>2. progress' \in [Tool -> 0 .. MaxProgress]
      BY <1>0, <2>1
    <3>3. ready' \in Seq(Job) /\ emitted' \in Seq(Tool)
      BY <2>1
    <3> QED
      BY <1>0, <2>1, <3>1, <3>2, <3>3 DEF TypeOK
  <2> QED
    BY <2>1, <2>2, <2>3, NoStartKeeps
<1> QED
  BY <1>1, <1>2, <1>3, <1>4

(* The steps that touch neither the status of a tool nor the microtasks.   *)
LEMMA OthersKeep ==
  ASSUME IInv, NEW t \in Tool,
         \/ Progress(t) \/ YieldProgress(t) \/ DenyPermission(t)
         \/ UserAbort \/ SubmitInterrupt \/ ReceiveOther \/ EndStream
         \/ Resume \/ EndPass \/ DrainEnds \/ Wake \/ Over \/ UNCHANGED vars
  PROVE  IInv'
<1>0. /\ MaxTools \in Nat \ {0} /\ MaxProgress \in Nat /\ TypeOK /\ 1 \in Tool
  BY ConstantsAssumption DEF ConstantsAssumption, IInv, Tool
<1>1. UNCHANGED <<kind, n, status, ready>>
  BY DEF Progress, YieldProgress, DenyPermission, UserAbort, SubmitInterrupt,
         AbortQuery, ReceiveOther, EndStream, Resume, EndPass, DrainEnds, Wake,
         Over, vars
<1>2. TypeOK'
  <2>1. CASE Progress(t)
    BY <1>0, <2>1 DEF Progress, TypeOK
  <2>2. CASE YieldProgress(t)
    BY <1>0, <2>2 DEF YieldProgress, TypeOK
  <2>3. CASE DenyPermission(t) \/ UserAbort \/ SubmitInterrupt
    BY <1>0, <2>3 DEF DenyPermission, UserAbort, SubmitInterrupt, AbortQuery, loopVars, TypeOK
  <2>4. CASE ReceiveOther \/ EndStream
    BY <1>0, <2>4 DEF ReceiveOther, BeginPass, EndStream, TypeOK
  <2>5. CASE Resume \/ DrainEnds \/ Wake
    BY <1>0, <2>5 DEF Resume, DrainEnds, Wake, TypeOK
  <2>6. CASE EndPass
    BY <1>0, <2>6 DEF EndPass, Executing, TypeOK
  <2>7. CASE Over \/ UNCHANGED vars
    BY <1>0, <2>7 DEF Over, vars, TypeOK
  <2> QED
    BY <2>1, <2>2, <2>3, <2>4, <2>5, <2>6, <2>7
<1> QED
  BY <1>1, <1>2, ToolsUnchangedKeeps

LEMMA NextKeeps == IInv /\ [Next]_vars => IInv'
<1> SUFFICES ASSUME IInv, [Next]_vars PROVE IInv'
  OBVIOUS
<1>0. 1 \in Tool
  BY ConstantsAssumption DEF ConstantsAssumption, Tool
<1>1. CASE RunJob
  BY <1>1, RunJobKeeps
<1>2. CASE LoopScan
  BY <1>2, LoopScanKeeps
<1>3. CASE Receive
  BY <1>3, ReceiveKeeps
<1>4. CASE Discard \/ \E t \in Tool : Ends(t) \/ YieldResult(t)
  BY <1>0, <1>4, EndingsKeep DEF Ends
<1>5. CASE \/ \E t \in Tool : Progress(t) \/ YieldProgress(t) \/ DenyPermission(t)
           \/ UserAbort \/ SubmitInterrupt \/ ReceiveOther \/ EndStream
           \/ Resume \/ EndPass \/ DrainEnds \/ Wake \/ Over \/ UNCHANGED vars
  BY <1>0, <1>5, OthersKeep
<1> QED
  BY <1>1, <1>2, <1>3, <1>4, <1>5 DEF Next, Loop, Environment

-----------------------------------------------------------------------------
(* The invariant holds in every reachable state.                           *)
THEOREM Invariance == Spec => []IInv
BY InitEstablishes, NextKeeps, PTL DEF Spec

(* Every variable keeps its type: statuses, answers, the queued            *)
(* microtasks, the emitted results.                                        *)
THEOREM TypeCorrect == Spec => []TypeOK
<1>1. IInv => TypeOK
  BY DEF IInv
<1> QED
  BY <1>1, Invariance, PTL

(* A tool that is not concurrency safe executes alone, for any number of   *)
(* calls and whichever suspended scans start them (canExecuteTool).        *)
THEOREM ExclusiveAccess == Spec => []Exclusive
<1>1. IInv => Exclusive
  BY DEF IInv, ExclusiveIn, Exclusive
<1> QED
  BY <1>1, Invariance, PTL

(* No known tool is started ahead of one that is still queued              *)
(* (processQueue stops, or can start nothing more, behind it).             *)
THEOREM StartsInOrder == Spec => []StartOrder
<1>1. IInv => StartOrder
  BY DEF IInv, OrderedIn, StartOrder
<1> QED
  BY <1>1, Invariance, PTL

-----------------------------------------------------------------------------
(* What is known of each tool.                                             *)

(* Its answer; what the flag says of it; whether it was launched; whether  *)
(* it can be queued or have progress to show.  The status function is a    *)
(* parameter, as in mid-segment the array is not yet that of the next      *)
(* state.                                                                  *)
AnsweredIn(st)   == \A t \in Tool : st[t] \in {"completed", "yielded"} => answers[t] = 1
FlaggedIn(st)    == interruptible => \A t \in Executing(st) : kind[t].cancel
SparedIn(st)     == aborted = "interrupt" => \A t \in Executing(st) \cap launched : kind[t].cancel
LaunchedIn(st)   == \A t \in launched : st[t] \notin {"none", "queued"}
UnknownIn(st)    == \A t \in Tool : ~kind[t].known => st[t] \notin {"queued", "executing", "orphaned"}
ProgressIn(st)   == \A t \in Tool : progress[t] > 0 => kind[t].known /\ st[t] \in {"executing", "completed"}
ReceivedIn(st, m) == \A t \in Tool : t <= m => st[t] # "none"

ToolsIn(st, m) ==
  /\ AnsweredIn(st) /\ FlaggedIn(st) /\ SparedIn(st) /\ LaunchedIn(st)
  /\ UnknownIn(st) /\ ProgressIn(st) /\ ReceivedIn(st, m)

TInv == ToolsIn(status, n)

(* What a segment of processQueue does: nothing, or it starts a tool.      *)
Started(st, j) ==
  /\ st[j] = "queued" /\ status'[j] \in {"executing", "completed"}
  /\ \A t \in Tool : t # j => status'[t] = st[t] /\ answers'[t] = answers[t]
  /\ status'[j] = "completed" => answers'[j] = 1
  /\ interruptible' => \A t \in Executing(status') : kind[t].cancel
  /\ inProgress' = inProgress \cup {j}
  /\ launched' \subseteq launched \cup {j}
  /\ hasErrored \/ aborted # "none" => launched' = launched

LEMMA ScanStartsOne ==
  ASSUME TypeOK, NEW st \in [Tool -> Status], NEW i, NEW who, NEW queue, Scan(st, i, who, queue)
  PROVE  \/ \E j \in Tool : Started(st, j)
         \/ status' = st /\ UNCHANGED <<answers, inProgress, interruptible, launched>>
<1>1. ASSUME NEW j \in Tool, ScanStarts(st, i, j), Start(st, j)
      PROVE  Started(st, j)
  <2> DEFINE cancelled == Aborts(j, hasErrored)
  <2>1. /\ st[j] = "queued"
        /\ status' = [st EXCEPT ![j] = IF cancelled THEN "completed" ELSE "executing"]
        /\ answers' = [answers EXCEPT ![j] = IF cancelled THEN 1 ELSE 0]
        /\ interruptible' =
             AllCancellable(IF cancelled THEN Executing(st) ELSE Executing(st) \cup {j})
        /\ inProgress' = inProgress \cup {j}
        /\ launched' = IF cancelled \/ aborted # "none" THEN launched ELSE launched \cup {j}
    BY <1>1 DEF ScanStarts, Start
  <2>2. hasErrored => cancelled
    BY DEF Aborts
  <2> HIDE DEF cancelled
  <2>3. /\ status'[j] = IF cancelled THEN "completed" ELSE "executing"
        /\ \A t \in Tool : t # j => status'[t] = st[t] /\ answers'[t] = answers[t]
        /\ answers'[j] = IF cancelled THEN 1 ELSE 0
    BY <2>1 DEF TypeOK
  <2>4. Executing(status') = IF cancelled THEN Executing(st) ELSE Executing(st) \cup {j}
    BY <2>1, <2>3 DEF Executing
  <2>5. interruptible' => \A t \in Executing(status') : kind[t].cancel
    BY <2>1, <2>4 DEF AllCancellable
  <2> QED  BY <2>1, <2>2, <2>3, <2>5 DEF Started
<1> QED  BY <1>1 DEF Scan

LEMMA ScanTools ==
  ASSUME TypeOK, NEW st \in [Tool -> Status], NEW i, NEW who, NEW queue, Scan(st, i, who, queue),
         ToolsIn(st, n'), kind' = kind, aborted' = aborted, progress' = progress
  PROVE  TInv'
<1> USE DEF ToolsIn, AnsweredIn, FlaggedIn, SparedIn, LaunchedIn, UnknownIn, ProgressIn, ReceivedIn
<1>1. CASE status' = st /\ UNCHANGED <<answers, inProgress, interruptible, launched>>
  BY <1>1 DEF TInv, Executing
<1>2. ASSUME NEW j \in Tool, Started(st, j)  PROVE TInv'
  <2> USE <1>2
  <2>1. AnsweredIn(status)'
    BY DEF Started
  <2>2. FlaggedIn(status)'
    BY DEF Started, Executing
  <2>3. SparedIn(status)'
    BY DEF Started, Executing
  <2>4. LaunchedIn(status)'
    <3>1. launched \subseteq Tool
      BY DEF TypeOK
    <3> QED  BY <3>1 DEF Started
  <2>5. UnknownIn(status)'
    BY DEF Started
  <2>6. ProgressIn(status)'
    BY DEF Started
  <2>7. ReceivedIn(status, n)'
    BY DEF Started
  <2> QED  BY <2>1, <2>2, <2>3, <2>4, <2>5, <2>6, <2>7 DEF TInv
<1> QED  BY <1>1, <1>2, ScanStartsOne

(* The steps that start nothing, queue nothing and launch nothing.         *)
LEMMA NoStartTools ==
  ASSUME TypeOK, TInv, kind' = kind, launched' = launched, n' = n,
         \A t \in Tool : status'[t] # status[t] =>
           status[t] # "none" /\ status'[t] \in {"completed", "yielded", "orphaned", "dropped"},
         \A t \in Tool : status'[t] \in {"completed", "yielded"} => answers'[t] = 1,
         interruptible' => \A t \in Executing(status') : kind[t].cancel,
         \A t \in Tool : ~kind[t].known => status'[t] # "orphaned",
         \A t \in Tool : progress'[t] > 0 => kind[t].known /\ status'[t] \in {"executing", "completed"},
         aborted' = "interrupt" => aborted = "interrupt" \/ interruptible
  PROVE  TInv'
<1> USE DEF TInv, ToolsIn, AnsweredIn, FlaggedIn, SparedIn, LaunchedIn, UnknownIn, ProgressIn,
            ReceivedIn
<1>1. Executing(status') \subseteq Executing(status)
  BY DEF Executing
<1>2. launched \subseteq Tool
  BY DEF TypeOK
<1>3. AnsweredIn(status)' /\ FlaggedIn(status)'
  BY DEF Executing
<1>4. SparedIn(status)'
  BY <1>1
<1>5. LaunchedIn(status)' /\ UnknownIn(status)'
  BY <1>2
<1>6. ProgressIn(status)' /\ ReceivedIn(status, n)'
  OBVIOUS
<1> QED  BY <1>3, <1>4, <1>5, <1>6

(* A late update never comes: a call answers once.                         *)
LEMMA FinishAnswersOnce ==
  ASSUME TypeOK, NEW t \in Tool, NEW err, NEW extra, Finish(t, err, extra)
  PROVE  answers'[t] = 1 /\ \A u \in Tool : u # t => answers'[u] = answers[u]
<1> DEFINE cancelled == Aborts(t, hasErrored)
           fatal     == ~cancelled /\ err /\ kind[t].cd
           late      == ~cancelled /\ extra /\ Aborts(t, hasErrored \/ fatal) /\ ~err
<1>1. ~late
  BY DEF Aborts
<1>2. answers' = [answers EXCEPT ![t] = IF late THEN 2 ELSE 1]
  BY DEF Finish
<1> HIDE DEF late
<1> QED  BY <1>1, <1>2 DEF TypeOK

LEMMA NextTools ==
  ASSUME IInv, TInv, [Next]_vars
  PROVE  TInv'
<1>0. TypeOK /\ MaxTools \in Nat \ {0} /\ n \in 0 .. MaxTools
  BY ConstantsAssumption DEF IInv, TypeOK
<1>1. CASE RunJob
  <2>1. CASE Scan(status, Head(ready).from, Head(ready).who, Tail(ready))
    BY <1>0, <1>1, <2>1, ScanTools DEF RunJob, TInv, TypeOK
  <2>2. CASE UNCHANGED <<status, answers, inProgress, interruptible, launched>>
    BY <1>0, <1>1, <2>2, NoStartTools DEF RunJob, TInv, ToolsIn, AnsweredIn, FlaggedIn, UnknownIn, ProgressIn
  <2> QED  BY <1>1, <2>1, <2>2 DEF RunJob
<1>2. CASE LoopScan
  BY <1>0, <1>2, ScanTools DEF LoopScan, TInv, TypeOK
<1>3. CASE Receive
  <2> DEFINE t == n + 1
  <2>1. t \in Tool /\ n' = t /\ status[t] = "none" /\ aborted = "none" /\ \A u \in Tool : u <= t <=> u <= n \/ u = t
    BY <1>0, <1>3 DEF Receive, Tool, IInv, NoneAfter
  <2>2. UNCHANGED <<kind, aborted, progress>>
    BY <1>3 DEF Receive
  <2> HIDE DEF t
  <2>3. CASE kind[t].known
    <3>1. PICK st : st = [status EXCEPT ![t] = "queued"]
      OBVIOUS
    <3>2. /\ st \in [Tool -> Status] /\ st[t] = "queued"
          /\ \A u \in Tool : u # t => st[u] = status[u]
      BY <1>0, <2>1, <3>1 DEF TypeOK, Status
    <3>3. Scan(st, 1, "void", ready)
      BY <1>3, <2>3, <3>1 DEF Receive, t
    <3>4. Executing(st) = Executing(status)
      BY <2>1, <3>2 DEF Executing
    <3>5. AnsweredIn(st) /\ FlaggedIn(st) /\ SparedIn(st)
      BY <3>2, <3>4 DEF TInv, ToolsIn, AnsweredIn, FlaggedIn, SparedIn
    <3>6. LaunchedIn(st) /\ UnknownIn(st) /\ ProgressIn(st)
      BY <1>0, <2>1, <2>3, <3>2 DEF TInv, ToolsIn, LaunchedIn, UnknownIn, ProgressIn, TypeOK
    <3>7. ReceivedIn(st, t)
      BY <2>1, <3>2 DEF TInv, ToolsIn, ReceivedIn
    <3> QED  BY <1>0, <2>1, <2>2, <3>2, <3>3, <3>5, <3>6, <3>7, ScanTools DEF ToolsIn
  <2>4. CASE ~kind[t].known
    <3>1. /\ status' = [status EXCEPT ![t] = "completed"]
          /\ answers' = [answers EXCEPT ![t] = 1]
          /\ UNCHANGED <<ready, inProgress, interruptible, launched>>
      BY <1>3, <2>4 DEF Receive, t
    <3>2. /\ status'[t] = "completed" /\ answers'[t] = 1
          /\ \A u \in Tool : u # t => status'[u] = status[u] /\ answers'[u] = answers[u]
      BY <1>0, <2>1, <3>1 DEF TypeOK
    <3>3. Executing(status') = Executing(status)
      BY <2>1, <3>2 DEF Executing
    <3>4. AnsweredIn(status)' /\ FlaggedIn(status)' /\ SparedIn(status)'
      BY <2>1, <2>2, <3>1, <3>2, <3>3 DEF TInv, ToolsIn, AnsweredIn, FlaggedIn, SparedIn
    <3>5. LaunchedIn(status)' /\ UnknownIn(status)' /\ ProgressIn(status)'
      BY <1>0, <2>1, <2>2, <3>1, <3>2 DEF TInv, ToolsIn, LaunchedIn, UnknownIn, ProgressIn, TypeOK
    <3>6. ReceivedIn(status, n)'
      BY <2>1, <3>2 DEF TInv, ToolsIn, ReceivedIn
    <3> QED  BY <3>4, <3>5, <3>6 DEF TInv, ToolsIn
  <2> QED  BY <2>3, <2>4
<1>4. ASSUME NEW t \in Tool, NEW err \in BOOLEAN, NEW extra \in BOOLEAN, Finish(t, err, extra)
      PROVE  TInv'
  <2>1. /\ UNCHANGED <<kind, n, progress, aborted, launched>>
        /\ status[t] = "executing" /\ status' = [status EXCEPT ![t] = "completed"]
        /\ interruptible' = AllCancellable(Executing(status) \ {t})
    BY <1>4 DEF Finish
  <2>2. status'[t] = "completed" /\ \A u \in Tool : u # t => status'[u] = status[u]
    BY <1>0, <2>1 DEF TypeOK
  <2>3. answers'[t] = 1 /\ \A u \in Tool : u # t => answers'[u] = answers[u]
    BY <1>0, <1>4, FinishAnswersOnce
  <2>4. Executing(status') = Executing(status) \ {t}
    BY <2>2 DEF Executing
  <2> QED  BY <1>0, <2>1, <2>2, <2>3, <2>4, NoStartTools
            DEF TInv, ToolsIn, AnsweredIn, UnknownIn, ProgressIn, AllCancellable
<1>5. ASSUME NEW t \in Tool, OrphanFinishes(t)  PROVE TInv'
  <2>1. /\ UNCHANGED <<kind, n, progress, aborted, launched, answers>>
        /\ status[t] = "orphaned" /\ status' = [status EXCEPT ![t] = "dropped"]
        /\ interruptible' = FALSE
    BY <1>5 DEF OrphanFinishes
  <2>2. status'[t] = "dropped" /\ \A u \in Tool : u # t => status'[u] = status[u]
    BY <1>0, <2>1 DEF TypeOK
  <2> QED  BY <1>0, <2>1, <2>2, NoStartTools DEF TInv, ToolsIn, AnsweredIn, UnknownIn, ProgressIn
<1>6. ASSUME NEW t \in Tool, YieldResult(t)  PROVE TInv'
  <2>1. /\ UNCHANGED <<kind, n, progress, aborted, launched, answers, interruptible>>
        /\ status[t] = "completed" /\ status' = [status EXCEPT ![t] = "yielded"]
        /\ progress[t] = 0
    BY <1>6 DEF YieldResult, HasResult
  <2>2. status'[t] = "yielded" /\ \A u \in Tool : u # t => status'[u] = status[u]
    BY <1>0, <2>1 DEF TypeOK
  <2>3. Executing(status') \subseteq Executing(status)
    BY <2>2 DEF Executing
  <2>4. \A u \in Tool : status'[u] \in {"completed", "yielded"} => answers'[u] = 1
    BY <2>1, <2>2 DEF TInv, ToolsIn, AnsweredIn
  <2>5. interruptible' => \A u \in Executing(status') : kind[u].cancel
    BY <2>1, <2>3 DEF TInv, ToolsIn, FlaggedIn
  <2>6. \A u \in Tool : progress'[u] > 0 => kind[u].known /\ status'[u] \in {"executing", "completed"}
    BY <2>1, <2>2 DEF TInv, ToolsIn, ProgressIn
  <2>7. \A u \in Tool : ~kind[u].known => status'[u] # "orphaned"
    BY <2>2 DEF TInv, ToolsIn, UnknownIn
  <2> QED  BY <1>0, <2>1, <2>2, <2>4, <2>5, <2>6, <2>7, NoStartTools
<1>7. CASE Discard
  <2>1. /\ UNCHANGED <<kind, n, answers, aborted, launched, interruptible>>
        /\ progress' = [u \in Tool |-> 0]
        /\ status' = [u \in Tool |->
                        CASE status[u] = "executing" -> "orphaned"
                          [] status[u] \in {"queued", "completed", "yielded"} -> "dropped"
                          [] OTHER -> status[u]]
    BY <1>7 DEF Discard
  <2>2. \A u \in Tool :
          /\ status'[u] \notin {"executing", "completed", "yielded"} /\ progress'[u] = 0
          /\ status'[u] # status[u] =>
               status[u] # "none" /\ status'[u] \in {"orphaned", "dropped"}
          /\ status'[u] = "orphaned" => status[u] \in {"executing", "orphaned"}
    <3> TAKE u \in Tool
    <3>1. status[u] \in Status
      BY <1>0 DEF TypeOK
    <3> QED  BY <2>1, <3>1 DEF Status
  <2>3. Executing(status') = {}
    BY <2>2 DEF Executing
  <2>4. \A u \in Tool : ~kind[u].known => status'[u] # "orphaned"
    BY <2>2 DEF TInv, ToolsIn, UnknownIn
  <2> QED  BY <1>0, <2>1, <2>2, <2>3, <2>4, NoStartTools
<1>8. ASSUME NEW t \in Tool, Progress(t) \/ YieldProgress(t)  PROVE TInv'
  <2>1. /\ UNCHANGED <<kind, n, status, answers, aborted, launched, interruptible>>
        /\ \A u \in Tool : u # t => progress'[u] = progress[u]
        /\ status[t] = "executing" \/ progress[t] > 0
    BY <1>0, <1>8 DEF Progress, YieldProgress, TypeOK
  <2> QED  BY <1>0, <2>1, NoStartTools DEF TInv, ToolsIn, AnsweredIn, FlaggedIn, UnknownIn, ProgressIn
<1>9. CASE /\ UNCHANGED <<kind, n, status, answers, progress, launched, interruptible>>
           /\ aborted' = "interrupt" => aborted = "interrupt" \/ interruptible
  BY <1>0, <1>9, NoStartTools DEF TInv, ToolsIn, AnsweredIn, FlaggedIn, UnknownIn, ProgressIn
<1>10. CASE \/ UserAbort \/ SubmitInterrupt \/ \E t \in Tool : DenyPermission(t)
  BY <1>9, <1>10 DEF UserAbort, SubmitInterrupt, DenyPermission, AbortQuery
<1>11. CASE ReceiveOther \/ EndStream \/ Resume \/ EndPass \/ DrainEnds \/ Wake \/ Over \/ UNCHANGED vars
  BY <1>9, <1>11 DEF ReceiveOther, EndStream, Resume, EndPass, DrainEnds, Wake, Over, vars
<1> QED
  BY <1>1, <1>2, <1>3, <1>4, <1>5, <1>6, <1>7, <1>8, <1>10, <1>11 DEF Next, Loop, Environment, Ends

LEMMA InitTools == Init => TInv
<1> SUFFICES ASSUME Init  PROVE TInv
  OBVIOUS
<1>1. \A t \in Tool : status[t] = "none" /\ progress[t] = 0 /\ ~(t <= n)
  BY ConstantsAssumption DEF Init, Tool
<1>2. interruptible = FALSE /\ launched = {} /\ aborted = "none"
  BY DEF Init
<1> QED  BY <1>1, <1>2 DEF TInv, ToolsIn, AnsweredIn, FlaggedIn, SparedIn, LaunchedIn, UnknownIn,
                           ProgressIn, ReceivedIn, Executing

-----------------------------------------------------------------------------
(* What is known of the query loop.                                        *)

(* A microtask that lets the query loop go on is queued at most once, and  *)
(* only while the loop awaits it.                                          *)
OneTurn(queue) ==
  \A x, y \in 1 .. Len(queue) : queue[x].who # "void" /\ queue[y].who # "void" => x = y

AllVoid(queue) == \A x \in 1 .. Len(queue) : queue[x].who = "void"

Awaits == OneTurn(ready) /\ (pc # "awaiting" => AllVoid(ready))

(* Nothing is left when the drain is over; and the loop does not sleep on  *)
(* progress that was there, or signalled.                                  *)
Done     == pc = "done" => ~Unfinished
Sleeping == pc = "wait" /\ ~signalled => \A t \in Tool : progress[t] = 0

LInv == Awaits /\ Done /\ Sleeping

LEMMA AppendTurn ==
  ASSUME NEW queue \in Seq(Job), NEW job \in Job
  PROVE  /\ Append(queue, job) \in Seq(Job)
         /\ (AllVoid(queue) => OneTurn(Append(queue, job)))
         /\ (job.who = "void" /\ AllVoid(queue) => AllVoid(Append(queue, job)))
         /\ (job.who = "void" /\ OneTurn(queue) => OneTurn(Append(queue, job)))
<1>1. PICK q : q = Append(queue, job)
  OBVIOUS
<1>2. /\ q \in Seq(Job) /\ Len(q) = Len(queue) + 1 /\ q[Len(queue) + 1] = job
      /\ \A x \in 1 .. Len(queue) : q[x] = queue[x]
  BY <1>1
<1>3. \A x \in 1 .. Len(q) : x \in 1 .. Len(queue) \/ x = Len(queue) + 1
  BY <1>2
<1>4. AllVoid(queue) => OneTurn(q)
  BY <1>2, <1>3 DEF AllVoid, OneTurn
<1>5. job.who = "void" /\ AllVoid(queue) => AllVoid(q)
  BY <1>2, <1>3 DEF AllVoid
<1>6. job.who = "void" /\ OneTurn(queue) => OneTurn(q)
  BY <1>2, <1>3 DEF OneTurn
<1> QED  BY <1>1, <1>2, <1>4, <1>5, <1>6

LEMMA TailTurn ==
  ASSUME NEW queue \in Seq(Job), queue # <<>>, OneTurn(queue)
  PROVE  /\ OneTurn(Tail(queue)) /\ (AllVoid(queue) => AllVoid(Tail(queue)))
         /\ (Head(queue).who # "void" => AllVoid(Tail(queue)))
<1>1. PICK q : q = Tail(queue)
  OBVIOUS
<1>2. /\ Len(q) = Len(queue) - 1 /\ Len(queue) \in Nat /\ Head(queue) = queue[1]
      /\ 1 \in 1 .. Len(queue)
      /\ \A x \in 1 .. Len(q) : q[x] = queue[x + 1]
  BY <1>1
<1>3. \A x \in 1 .. Len(q) : x + 1 \in 1 .. Len(queue) /\ x + 1 # 1 /\ x \in Nat
  BY <1>2
<1>4. OneTurn(q)
  <2>1. ASSUME NEW x \in 1 .. Len(q), NEW y \in 1 .. Len(q), q[x].who # "void", q[y].who # "void"
        PROVE  x = y
    <3>a. x + 1 \in 1 .. Len(queue) /\ y + 1 \in 1 .. Len(queue)
      BY <1>3
    <3>b. queue[x + 1].who # "void" /\ queue[y + 1].who # "void"
      BY <1>2, <2>1
    <3>1. x + 1 = y + 1
      BY <3>a, <3>b DEF OneTurn
    <3> QED  BY <1>3, <3>1
  <2> QED  BY <2>1 DEF OneTurn
<1>5. AllVoid(queue) => AllVoid(q)
  BY <1>2, <1>3 DEF AllVoid
<1>6. Head(queue).who # "void" => AllVoid(q)
  <2>1. ASSUME Head(queue).who # "void", NEW x \in 1 .. Len(q), q[x].who # "void"
        PROVE  FALSE
    <3>1. x + 1 = 1
      BY <1>2, <1>3, <2>1 DEF OneTurn
    <3> QED  BY <1>3, <3>1
  <2> QED  BY <2>1 DEF AllVoid
<1> QED  BY <1>1, <1>4, <1>5, <1>6

LEMMA ScanTurns ==
  ASSUME NEW st, NEW i \in 1 .. MaxTools + 1, NEW who \in {"void", "loop"}, NEW queue \in Seq(Job),
         OneTurn(queue), who = "loop" => AllVoid(queue), Scan(st, i, who, queue)
  PROVE  /\ OneTurn(ready') /\ (who = "void" /\ AllVoid(queue) => AllVoid(ready'))
<1>1. Rescan \in Job /\ Rescan.who = "void"
  BY ConstantsAssumption DEF Rescan, Job
<1>2. ASSUME NEW j \in Tool,
             ready' = Append(IF Aborts(j, hasErrored) THEN Append(queue, Rescan) ELSE queue,
                             [who |-> who, from |-> j + 1])
      PROVE  OneTurn(ready') /\ (who = "void" /\ AllVoid(queue) => AllVoid(ready'))
  <2>1. PICK q : q = IF Aborts(j, hasErrored) THEN Append(queue, Rescan) ELSE queue
    OBVIOUS
  <2>2. q \in Seq(Job) /\ OneTurn(q) /\ (AllVoid(queue) => AllVoid(q))
    BY <1>1, <2>1, AppendTurn
  <2>3. PICK job : job = [who |-> who, from |-> j + 1]
    OBVIOUS
  <2>4. job \in Job /\ job.who = who /\ ready' = Append(q, job)
    BY <1>2, <2>1, <2>3, ConstantsAssumption DEF Job, Tool
  <2> QED  BY <2>2, <2>4, AppendTurn
<1>3. CASE ready' = IF who = "loop" THEN Append(queue, [who |-> "pass", from |-> 1]) ELSE queue
  <2>1. [who |-> "pass", from |-> 1] \in Job
    BY ConstantsAssumption DEF Job
  <2> QED  BY <1>3, <2>1, AppendTurn
<1> QED  BY <1>2, <1>3 DEF Scan

(* A step that does not queue for the loop, nor sends it to sleep or to    *)
(* its end.                                                                *)
LEMMA OtherLoop ==
  ASSUME IInv, LInv,
         ready' = ready \/ ready' = Append(ready, Rescan) \/ ready' = <<>>,
         pc' = pc \/ pc \notin {"awaiting"},
         pc' = "done" => /\ pc = "done"
                         /\ \A t \in Tool : status'[t] # status[t] =>
                              status'[t] \notin {"queued", "executing", "completed"}
                                \/ status[t] = "executing",
         pc' = "wait" => /\ pc = "wait" /\ signalled' = signalled /\ progress' = progress
                         \/ signalled'
  PROVE  LInv'
<1>1. Rescan \in Job /\ Rescan.who = "void" /\ ready \in Seq(Job)
  BY ConstantsAssumption DEF Rescan, Job, IInv, TypeOK
<1>2. Awaits'
  <2>1. CASE ready' = ready
    BY <2>1 DEF LInv, Awaits, OneTurn, AllVoid
  <2>2. CASE ready' = Append(ready, Rescan)
    BY <1>1, <2>2, AppendTurn DEF LInv, Awaits
  <2>3. CASE ready' = <<>>
    BY <2>3 DEF Awaits, OneTurn, AllVoid
  <2> QED  BY <2>1, <2>2, <2>3
<1>3. Done'
  BY DEF LInv, Done, Unfinished
<1>4. Sleeping'
  BY DEF LInv, Sleeping
<1> QED  BY <1>2, <1>3, <1>4 DEF LInv

LEMMA NextLoop ==
  ASSUME IInv, LInv, [Next]_vars
  PROVE  LInv'
<1>0. TypeOK /\ ready \in Seq(Job) /\ MaxTools \in Nat \ {0} /\ n \in 0 .. MaxTools
  BY ConstantsAssumption DEF IInv, TypeOK
<1>1. CASE RunJob
  <2>1. PICK job, rest : job = Head(ready) /\ rest = Tail(ready)
    OBVIOUS
  <2>2. job \in Job /\ rest \in Seq(Job) /\ ready # <<>>
    BY <1>0, <1>1, <2>1 DEF RunJob
  <2>3. /\ OneTurn(rest) /\ (pc # "awaiting" => AllVoid(rest))
        /\ (job.who # "void" => pc = "awaiting" /\ AllVoid(rest))
    <3>1. ready[1] = job /\ 1 \in 1 .. Len(ready)
      BY <1>0, <2>1, <2>2
    <3> QED  BY <1>0, <2>1, <2>2, <3>1, TailTurn DEF LInv, Awaits, AllVoid
  <2>4. CASE job.who = "pass"
    <3>1. pc' = "collect" /\ ready' = rest
      BY <1>1, <2>1, <2>4 DEF RunJob, BeginPass
    <3> QED  BY <2>3, <2>4, <3>1 DEF LInv, Awaits, Done, Sleeping
  <2>5. CASE job.who # "pass"
    <3>1. /\ Scan(status, job.from, job.who, rest) /\ pc' = pc /\ signalled' = signalled
          /\ progress' = progress
      BY <1>1, <2>1, <2>5 DEF RunJob
    <3>2. job.who \in {"void", "loop"} /\ job.from \in 1 .. MaxTools + 1
      BY <2>2, <2>5 DEF Job
    <3>3. Awaits'
      BY <2>2, <2>3, <3>1, <3>2, ScanTurns DEF Awaits
    <3>4. Done'
      <4>1. \A j \in Tool : Started(status, j) => pc # "done"
        BY DEF Started, LInv, Done, Unfinished
      <4>2. pc = "done" => status' = status
        BY <1>0, <3>1, <4>1, ScanStartsOne DEF TypeOK
      <4> QED  BY <3>1, <4>2 DEF LInv, Done, Unfinished
    <3>5. Sleeping'
      BY <3>1 DEF LInv, Sleeping
    <3> QED  BY <3>3, <3>4, <3>5 DEF LInv
  <2> QED  BY <2>4, <2>5
<1>2. CASE LoopScan
  <2>1. pc = "loop" /\ pc' = "awaiting" /\ Scan(status, 1, "loop", ready)
    BY <1>2 DEF LoopScan
  <2>2. 1 \in 1 .. MaxTools + 1
    BY <1>0
  <2>3. OneTurn(ready')
    BY <1>0, <2>1, <2>2, ScanTurns DEF LInv, Awaits
  <2> QED  BY <2>1, <2>3 DEF LInv, Awaits, Done, Sleeping
<1>3. CASE Receive
  <2>1. pc = "stream" /\ pc' = "collect"
    BY <1>3 DEF Receive, BeginPass
  <2>2. Awaits'
    <3>1. CASE kind[n + 1].known
      <4>1. Scan([status EXCEPT ![n + 1] = "queued"], 1, "void", ready) /\ 1 \in 1 .. MaxTools + 1
        BY <1>0, <1>3, <3>1 DEF Receive
      <4> QED  BY <1>0, <2>1, <4>1, ScanTurns DEF LInv, Awaits
    <3>2. CASE ready' = ready
      BY <2>1, <3>2 DEF LInv, Awaits, OneTurn, AllVoid
    <3> QED  BY <1>3, <3>1, <3>2 DEF Receive
  <2> QED  BY <2>1, <2>2 DEF LInv, Done, Sleeping
<1>4. ASSUME NEW t \in Tool, NEW err \in BOOLEAN, NEW extra \in BOOLEAN, Finish(t, err, extra)
      PROVE  LInv'
  <2>1. /\ ready' = Append(ready, Rescan) /\ UNCHANGED <<pc, signalled, progress>>
        /\ status[t] = "executing" /\ pc # "done"
    BY <1>4 DEF Finish, loopVars, LInv, Done, Unfinished
  <2> QED  BY <2>1, OtherLoop DEF LInv
<1>5. ASSUME NEW t \in Tool, OrphanFinishes(t)  PROVE LInv'
  <2>1. /\ UNCHANGED <<ready, pc, signalled, progress>>
        /\ status' = [status EXCEPT ![t] = "dropped"]
    BY <1>5 DEF OrphanFinishes, loopVars
  <2>2. status'[t] = "dropped" /\ \A u \in Tool : u # t => status'[u] = status[u]
    BY <1>0, <2>1 DEF TypeOK
  <2> QED  BY <2>1, <2>2, OtherLoop
<1>6. ASSUME NEW t \in Tool, YieldResult(t) \/ YieldProgress(t)  PROVE LInv'
  <2>1. pc = "collect" /\ pc' = "paused" /\ ready' = ready
    BY <1>6 DEF YieldResult, YieldProgress
  <2> QED  BY <2>1, OtherLoop
<1>7. CASE Discard
  <2>1. pc = "stream" /\ pc' = pc /\ ready' = <<>>
    BY <1>7 DEF Discard
  <2> QED  BY <2>1, OtherLoop
<1>8. ASSUME NEW t \in Tool, Progress(t)  PROVE LInv'
  <2>1. /\ UNCHANGED <<ready, pc, status>> /\ signalled' = (signalled \/ pc = "wait")
    BY <1>8 DEF Progress
  <2>2. Awaits' /\ Done'
    BY <2>1 DEF LInv, Awaits, Done, OneTurn, AllVoid, Unfinished
  <2>3. Sleeping'
    BY <2>1 DEF Sleeping
  <2> QED  BY <2>2, <2>3 DEF LInv
<1>9. CASE UNCHANGED <<ready, pc, status, signalled, progress>>
  BY <1>9, OtherLoop
<1>10. CASE \/ UserAbort \/ SubmitInterrupt \/ (\E t \in Tool : DenyPermission(t))
            \/ Over \/ UNCHANGED vars
  BY <1>9, <1>10 DEF UserAbort, SubmitInterrupt, DenyPermission, AbortQuery, loopVars, Over, vars
<1>11. CASE ReceiveOther \/ EndStream \/ Resume \/ Wake
  <2>1. /\ ready' = ready /\ pc # "awaiting" /\ pc' \in {"collect", "loop"}
    BY <1>11 DEF ReceiveOther, BeginPass, EndStream, Resume, Wake
  <2> QED  BY <2>1, OtherLoop
<1>12. CASE DrainEnds
  <2>1. UNCHANGED <<ready, status, signalled, progress>> /\ pc = "loop" /\ pc' = "done" /\ ~Unfinished
    BY <1>12 DEF DrainEnds
  <2>2. Awaits' /\ Done' /\ Sleeping'
    BY <2>1 DEF LInv, Awaits, Done, Sleeping, OneTurn, AllVoid, Unfinished
  <2> QED  BY <2>2 DEF LInv
<1>13. CASE EndPass
  <2>1. UNCHANGED <<ready, status, progress>> /\ pc = "collect" /\ pc' \in {"stream", "wait", "loop"}
        /\ (pc' = "wait" => MustWait)
    BY <1>13 DEF EndPass
  <2>2. Awaits' /\ Done' /\ Sleeping'
    BY <2>1 DEF LInv, Awaits, Done, Sleeping, OneTurn, AllVoid, MustWait
  <2> QED  BY <2>2 DEF LInv
<1> QED
  BY <1>1, <1>2, <1>3, <1>4, <1>5, <1>6, <1>7, <1>8, <1>10, <1>11, <1>12, <1>13
     DEF Next, Loop, Environment, Ends

LEMMA InitLoop == Init => LInv
BY DEF Init, LInv, Awaits, OneTurn, AllVoid, Done, Sleeping

-----------------------------------------------------------------------------
(* What is known of the results.                                           *)

(* A tool whose result is still to come; an exclusive one.                 *)
Pending(t) == status[t] \in {"queued", "executing", "completed"}
Left(t)    == Pending(t) /\ ~Safe(t)

(* A tool has been yielded if and only if it is emitted, once.             *)
Emission ==
  /\ Distinct(emitted)
  /\ \A t \in Tool : status[t] = "yielded" <=> t \in Elements(emitted)

(* The unknown tool k comes after t; it excuses, if the pass yielded it,   *)
(* that what follows it is emitted before t.                               *)
UnknownAfter(k, t) == ~kind[k].known /\ t < k

Excused(t, i) ==
  \E k \in 1 .. i - 1 : UnknownAfter(emitted[k], t) /\ emitted[k] < emitted[i]

(* A pass leaves an exclusive tool behind it only to yield an unknown one. *)
Skipped ==
  pc \in {"collect", "paused"} =>
    \A t \in Tool : Left(t) /\ t < pos =>
      \E k \in Tool : UnknownAfter(k, t) /\ k <= pos /\ status[k] = "yielded"

(* What has been emitted ahead of a tool whose result is still to come is  *)
(* excused already.                                                        *)
Overtaking ==
  \A t \in Tool : Left(t) =>
    \A i \in 1 .. Len(emitted) :
      kind[emitted[i]].known /\ t < emitted[i] => Excused(t, i)

InOrder ==
  \A i, j \in 1 .. Len(emitted) :
    i < j /\ ~Safe(emitted[j]) /\ kind[emitted[i]].known /\ emitted[j] < emitted[i]
      => Excused(emitted[j], i)

(* A result stays on display only until the consumer asks for more.        *)
Shown == \A t \in inProgress : status[t] = "yielded" => pc = "paused" /\ pos = t

EInv == Emission /\ Skipped /\ Overtaking /\ InOrder /\ Shown

(* The steps that yield no result.                                         *)
LEMMA NoYieldKeeps ==
  ASSUME IInv, EInv, kind' = kind, emitted' = emitted,
         \A t \in Tool : status'[t] = "yielded" <=> status[t] = "yielded",
         \A t \in Tool : Pending(t)' => Pending(t) \/ t > n,
         pc' \in {"collect", "paused"} =>
           \/ pos' = 1
           \/ /\ pc \in {"collect", "paused"} /\ pos' = pos
              /\ \A t \in Tool : Pending(t)' => Pending(t),
         \A t \in inProgress' : status'[t] = "yielded" =>
           t \in inProgress /\ (pc = "paused" => pc' = "paused" /\ pos' = pos)
  PROVE  EInv'
<1>0. /\ n \in Nat /\ Tool \subseteq Nat /\ \A t \in Tool : ~(t < 1)
      /\ emitted \in Seq(Tool) /\ inProgress \subseteq Tool
      /\ \A i \in 1 .. Len(emitted) : emitted[i] \in Tool
  <2>1. MaxTools \in Nat /\ n \in 0 .. MaxTools /\ emitted \in Seq(Tool) /\ inProgress \subseteq Tool
    BY ConstantsAssumption DEF ConstantsAssumption, IInv, TypeOK
  <2>2. Tool \subseteq Nat /\ \A t \in Tool : ~(t < 1)
    BY <2>1 DEF Tool
  <2> QED  BY <2>1, <2>2
<1>1. Emission'
  BY DEF EInv, Emission
<1>2. Skipped'
  <2>1. ASSUME pc' \in {"collect", "paused"}, NEW t \in Tool, Left(t)', t < pos'
        PROVE  \E k \in Tool : UnknownAfter(k, t) /\ k <= pos' /\ status[k] = "yielded"
    <3>1. pc \in {"collect", "paused"} /\ pos' = pos /\ Left(t)
      BY <1>0, <2>1 DEF Left, Safe
    <3> QED  BY <2>1, <3>1 DEF EInv, Skipped
  <2>2. ASSUME NEW k \in Tool, NEW t \in Tool, UnknownAfter(k, t)  PROVE UnknownAfter(k, t)'
    BY <2>2 DEF UnknownAfter
  <2> QED  BY <2>1, <2>2 DEF Skipped
<1>3. ASSUME NEW t, NEW i, Excused(t, i)  PROVE Excused(t, i)'
  BY <1>3 DEF Excused, UnknownAfter
<1>4. Overtaking'
  <2>1. ASSUME NEW t \in Tool, Left(t)', NEW i \in 1 .. Len(emitted),
               kind[emitted[i]].known, t < emitted[i]
        PROVE  Excused(t, i)
    <3>1. PICK e \in Tool : e = emitted[i]
      BY <1>0
    <3>a. status[e] = "yielded"
      BY <3>1 DEF EInv, Emission, Elements
    <3>b. ~(e > n)
      BY <3>a DEF IInv, NoneAfter
    <3>2. ~(t > n)
      <4>1. e \in Nat /\ t \in Nat /\ n \in Nat /\ t < e
        BY <1>0, <2>1, <3>1
      <4> QED  BY <3>b, <4>1
    <3>3. Left(t)
      BY <2>1, <3>2 DEF Left, Safe
    <3> QED  BY <2>1, <3>3 DEF EInv, Overtaking
  <2> QED  BY <1>3, <2>1 DEF Overtaking
<1>5. InOrder'
  BY <1>3 DEF EInv, InOrder, Safe
<1>6. Shown'
  BY <1>0 DEF EInv, Shown
<1> QED  BY <1>1, <1>2, <1>4, <1>5, <1>6 DEF EInv

(* The pass, on its way to a tool, passes over an exclusive tool that has  *)
(* something to come only if it is queued, and the tool reached is unknown.*)
LEMMA PassedOver ==
  ASSUME IInv, EInv, TInv, pc = "collect", NEW t \in Tool, PassReaches(t),
         progress[t] > 0 \/ HasResult(t), NEW u \in Tool, Left(u), u < t
  PROVE  \/ UnknownAfter(t, u) /\ progress[t] = 0
         \/ \E k \in Tool : UnknownAfter(k, u) /\ k < t /\ status[k] = "yielded"
<1>0. pos \in Nat /\ t \in Nat /\ u \in Nat /\ pos <= t /\ progress[t] \in Nat /\ Tool \subseteq Nat
  BY ConstantsAssumption DEF IInv, TypeOK, Tool, PassReaches
<1>1. CASE u < pos
  <2>1. PICK k \in Tool : UnknownAfter(k, u) /\ k <= pos /\ status[k] = "yielded"
    BY <1>1 DEF EInv, Skipped
  <2>2. k # t
    BY <2>1 DEF TInv, ToolsIn, ProgressIn, HasResult
  <2> QED  BY <1>0, <2>1, <2>2
<1>2. CASE ~(u < pos)
  <2>1. ~HasResult(u) /\ ~Blocks(u)
    BY <1>0, <1>2 DEF PassReaches
  <2>2. status[u] = "queued"
    BY <2>1 DEF Left, Pending, HasResult, Blocks
  <2>3. status[t] \in {"executing", "completed"}
    BY DEF TInv, ToolsIn, ProgressIn, HasResult
  <2>4. ~kind[t].known
    BY <2>2, <2>3 DEF IInv, OrderedIn
  <2>5. ~(progress[t] > 0)
    BY <2>4 DEF TInv, ToolsIn, ProgressIn
  <2> QED  BY <1>0, <2>4, <2>5 DEF UnknownAfter
<1> QED  BY <1>1, <1>2

LEMMA YieldProgressEmits ==
  ASSUME IInv, EInv, TInv, NEW t \in Tool, YieldProgress(t)
  PROVE  EInv'
<1>1. /\ pc = "collect" /\ PassReaches(t) /\ progress[t] > 0 /\ pos' = t /\ pc' = "paused"
      /\ UNCHANGED <<kind, status, emitted, inProgress>>
  BY DEF YieldProgress
<1>2. Skipped'
  <2>1. ASSUME NEW u \in Tool, Left(u)', u < t
        PROVE  \E k \in Tool : UnknownAfter(k, u) /\ k <= t /\ status[k] = "yielded"
    <3>1. Left(u)
      BY <1>1, <2>1 DEF Left, Pending, Safe
    <3>2. progress[t] # 0
      BY <1>1
    <3>3. PICK k \in Tool : UnknownAfter(k, u) /\ k < t /\ status[k] = "yielded"
      BY <1>1, <2>1, <3>1, <3>2, PassedOver
    <3>4. k \in Nat /\ t \in Nat
      BY DEF Tool
    <3> QED  BY <3>3, <3>4
  <2> QED  BY <1>1, <2>1 DEF Skipped, UnknownAfter
<1>3. Emission' /\ Overtaking' /\ InOrder'
  BY <1>1 DEF EInv, Emission, Overtaking, InOrder, Left, Pending, Safe, Excused, UnknownAfter
<1>4. Shown'
  BY <1>1 DEF EInv, Shown
<1> QED  BY <1>2, <1>3, <1>4 DEF EInv

(* The result yielded now has overtaken those left behind it only if an    *)
(* unknown tool excuses it, and those left behind by the earlier results   *)
(* were excused before.                                                    *)
LEMMA YieldResultEmits ==
  ASSUME IInv, EInv, TInv, NEW t \in Tool, YieldResult(t)
  PROVE  EInv'
<1>0. /\ emitted \in Seq(Tool) /\ Len(emitted) \in Nat /\ Tool \subseteq Nat
      /\ \A i \in 1 .. Len(emitted) : emitted[i] \in Tool
  <2>1. emitted \in Seq(Tool)
    BY DEF IInv, TypeOK
  <2>2. Tool \subseteq Nat
    BY DEF Tool
  <2> QED  BY <2>1, <2>2
<1>1. /\ pc = "collect" /\ PassReaches(t) /\ HasResult(t) /\ pos' = t /\ pc' = "paused"
      /\ status' = [status EXCEPT ![t] = "yielded"] /\ emitted' = Append(emitted, t)
      /\ UNCHANGED <<kind, inProgress>>
  BY DEF YieldResult
<1>2. /\ status[t] = "completed" /\ status'[t] = "yielded"
      /\ \A u \in Tool : u # t => status'[u] = status[u]
  BY <1>1 DEF HasResult, IInv, TypeOK
<1>3. PICK m \in Nat : m = Len(emitted) + 1
  BY <1>0
<1>4. /\ Len(emitted') = m /\ emitted'[m] = t
      /\ \A i \in 1 .. Len(emitted) : emitted'[i] = emitted[i]
      /\ \A i \in 1 .. m : i \in 1 .. Len(emitted) \/ i = m
      /\ \A i \in 1 .. Len(emitted) : i \in Nat /\ i < m
      /\ 1 .. m - 1 = 1 .. Len(emitted)
  BY <1>0, <1>1, <1>3
<1>5. Emission'
  <2>1. t \notin Elements(emitted)
    BY <1>2 DEF EInv, Emission
  <2>2. Distinct(emitted') /\ Elements(emitted') = Elements(emitted) \cup {t}
    BY <1>0, <1>1, <2>1, AppendIs DEF EInv, Emission
  <2> QED  BY <1>2, <2>2 DEF EInv, Emission
<1>6. ASSUME NEW u \in Tool, Left(u)'  PROVE Left(u) /\ u # t
  BY <1>1, <1>2, <1>6 DEF Left, Pending, Safe
<1>7. ASSUME NEW k \in Tool, NEW u, UnknownAfter(k, u)  PROVE UnknownAfter(k, u)'
  BY <1>1, <1>7 DEF UnknownAfter
<1>8. Skipped'
  <2>1. ASSUME NEW u \in Tool, Left(u)', u < t
        PROVE  \E k \in Tool : UnknownAfter(k, u)' /\ k <= t /\ status'[k] = "yielded"
    <3>1. CASE UnknownAfter(t, u)
      BY <1>0, <1>2, <1>7, <3>1
    <3>2. CASE \E k \in Tool : UnknownAfter(k, u) /\ k < t /\ status[k] = "yielded"
      <4>1. PICK k \in Tool : UnknownAfter(k, u) /\ k < t /\ status[k] = "yielded"
        BY <3>2
      <4>2. k <= t /\ k # t
        BY <1>0, <4>1
      <4> QED  BY <1>2, <1>7, <4>1, <4>2
    <3> QED  BY <1>1, <1>6, <2>1, <3>1, <3>2, PassedOver
  <2> QED  BY <1>1, <2>1 DEF Skipped
<1>9. ASSUME NEW u, NEW i \in 1 .. Len(emitted), Excused(u, i)  PROVE Excused(u, i)'
  <2>1. PICK k \in 1 .. i - 1 : UnknownAfter(emitted[k], u) /\ emitted[k] < emitted[i]
    BY <1>9 DEF Excused
  <2>2. k \in 1 .. Len(emitted)
    BY <1>0
  <2>3. UnknownAfter(emitted[k], u)' /\ emitted'[k] < emitted'[i]
    <3>1. emitted'[k] = emitted[k] /\ emitted'[i] = emitted[i] /\ kind' = kind
      BY <1>1, <1>4, <2>2
    <3> QED  BY <2>1, <3>1 DEF UnknownAfter
  <2> QED  BY <2>3 DEF Excused
<1>10. Overtaking'
  <2>1. ASSUME NEW u \in Tool, Left(u)', NEW i \in 1 .. m,
               kind[emitted'[i]].known, u < emitted'[i]
        PROVE  Excused(u, i)'
    <3>1. Left(u) /\ u # t
      BY <1>6, <2>1
    <3>2. CASE i \in 1 .. Len(emitted)
      BY <1>4, <1>9, <2>1, <3>1, <3>2 DEF EInv, Overtaking
    <3>3. CASE i = m
      <4>1. kind[t].known /\ u < t
        BY <1>4, <2>1, <3>3
      <4>2. ~UnknownAfter(t, u)
        BY <4>1 DEF UnknownAfter
      <4>3. PICK k \in Tool : UnknownAfter(k, u) /\ k < t /\ status[k] = "yielded"
        BY <1>1, <3>1, <4>1, <4>2, PassedOver
      <4>4. PICK x \in 1 .. Len(emitted) : emitted[x] = k
        BY <4>3 DEF EInv, Emission, Elements
      <4>5. x \in 1 .. i - 1 /\ emitted'[x] = k /\ emitted'[i] = t
        BY <1>4, <3>3, <4>4
      <4>6. UnknownAfter(emitted[x], u)' /\ emitted'[x] < emitted'[i]
        BY <1>1, <4>3, <4>5 DEF UnknownAfter
      <4> QED  BY <4>5, <4>6 DEF Excused
    <3> QED  BY <1>4, <3>2, <3>3
  <2> QED  BY <1>1, <1>4, <2>1 DEF Overtaking
<1>11. InOrder'
  <2>1. ASSUME NEW u, NEW i \in 1 .. m, NEW j \in 1 .. m, u = emitted'[j], i < j, ~Safe(u),
               kind[emitted'[i]].known, u < emitted'[i]
        PROVE  Excused(u, i)'
    <3>1. i \in 1 .. Len(emitted) /\ emitted'[i] = emitted[i]
      BY <1>0, <1>3, <1>4, <2>1
    <3>2. CASE j \in 1 .. Len(emitted)
      <4>1. emitted[j] = u
        BY <1>4, <2>1, <3>2
      <4>2. Excused(u, i)
        BY <2>1, <3>1, <3>2, <4>1 DEF EInv, InOrder
      <4> QED  BY <1>9, <3>1, <4>2
    <3>3. CASE j = m
      <4>1. u = t /\ Left(t)
        BY <1>1, <1>2, <1>4, <2>1, <3>3 DEF Left, Pending, Safe
      <4>2. Excused(u, i)
        BY <2>1, <3>1, <4>1 DEF EInv, Overtaking
      <4> QED  BY <1>9, <3>1, <4>2
    <3> QED  BY <1>4, <3>2, <3>3
  <2> QED  BY <1>1, <1>4, <2>1 DEF InOrder, Safe
<1>12. Shown'
  BY <1>1, <1>2 DEF EInv, Shown, IInv, TypeOK
<1> QED  BY <1>5, <1>8, <1>10, <1>11, <1>12 DEF EInv

(* What a segment of processQueue changes is no business of the results.   *)
LEMMA ScanEmits ==
  ASSUME IInv, EInv, NEW st \in [Tool -> Status], NEW i, NEW who, NEW queue,
         Scan(st, i, who, queue), kind' = kind, emitted' = emitted,
         \A t \in Tool : st[t] = "yielded" <=> status[t] = "yielded",
         \A t \in Tool : st[t] \in {"queued", "executing", "completed"} => Pending(t) \/ t > n,
         \/ pos' = 1
         \/ pc' \notin {"collect", "paused"}
         \/ /\ pc' = pc /\ pos' = pos
            /\ \A t \in Tool : st[t] \in {"queued", "executing", "completed"} => Pending(t),
         pc = "paused" => pc' = pc /\ pos' = pos
  PROVE  EInv'
<1>0. TypeOK
  BY DEF IInv
<1>1. CASE status' = st /\ inProgress' = inProgress
  BY <1>1, NoYieldKeeps DEF Pending
<1>2. ASSUME NEW j \in Tool, Started(st, j)  PROVE EInv'
  <2>1. /\ st[j] = "queued" /\ status'[j] \in {"executing", "completed"}
        /\ \A t \in Tool : t # j => status'[t] = st[t]
        /\ inProgress' = inProgress \cup {j}
    BY <1>2 DEF Started
  <2>2. \A t \in Tool : status'[t] = "yielded" <=> status[t] = "yielded"
    BY <2>1
  <2>3. \A t \in Tool : Pending(t)' => st[t] \in {"queued", "executing", "completed"}
    BY <2>1 DEF Pending
  <2>4. \A t \in inProgress' : status'[t] = "yielded" => t \in inProgress
    BY <2>1
  <2> QED  BY <2>2, <2>3, <2>4, NoYieldKeeps
<1> QED  BY <1>0, <1>1, <1>2, ScanStartsOne

LEMMA ReceiveEmits ==
  ASSUME IInv, EInv, Receive
  PROVE  EInv'
<1> DEFINE t == n + 1
<1>0. TypeOK /\ MaxTools \in Nat \ {0} /\ n \in 0 .. MaxTools
  BY ConstantsAssumption DEF ConstantsAssumption, IInv, TypeOK
<1>1. /\ t \in Tool /\ t > n /\ status[t] = "none" /\ pc = "stream" /\ pos' = 1
      /\ UNCHANGED <<kind, emitted>>
  BY <1>0 DEF Receive, BeginPass, Tool, IInv, NoneAfter
<1> HIDE DEF t
<1>2. CASE kind[t].known
  <2>1. PICK st : st = [status EXCEPT ![t] = "queued"]
    OBVIOUS
  <2>2. /\ st \in [Tool -> Status] /\ st[t] = "queued"
        /\ \A u \in Tool : u # t => st[u] = status[u]
    BY <1>0, <1>1, <2>1 DEF TypeOK, Status
  <2>3. Scan(st, 1, "void", ready)
    BY <1>2, <2>1 DEF Receive, t
  <2>4. /\ \A u \in Tool : st[u] = "yielded" <=> status[u] = "yielded"
        /\ \A u \in Tool : st[u] \in {"queued", "executing", "completed"} => Pending(u) \/ u > n
    BY <1>1, <2>2 DEF Pending
  <2> QED  BY <1>1, <2>2, <2>3, <2>4, ScanEmits
<1>3. CASE ~kind[t].known
  <2>1. status' = [status EXCEPT ![t] = "completed"] /\ inProgress' = inProgress
    BY <1>3 DEF Receive, t
  <2>2. status'[t] = "completed" /\ \A u \in Tool : u # t => status'[u] = status[u]
    BY <1>0, <1>1, <2>1 DEF TypeOK
  <2>3. \A u \in Tool : status'[u] = "yielded" <=> status[u] = "yielded"
    BY <1>1, <2>2
  <2>4. \A u \in Tool : Pending(u)' => Pending(u) \/ u > n
    BY <1>1, <2>2 DEF Pending
  <2>5. \A u \in inProgress' : status'[u] = "yielded" => u \in inProgress
    BY <2>1
  <2> QED  BY <1>1, <2>3, <2>4, <2>5, NoYieldKeeps
<1> QED  BY <1>2, <1>3

LEMMA NextEmits ==
  ASSUME IInv, TInv, LInv, EInv, [Next]_vars
  PROVE  EInv'
<1>0. TypeOK /\ ready \in Seq(Job) /\ status \in [Tool -> Status]
  BY DEF IInv, TypeOK
<1>1. CASE RunJob
  <2>1. CASE Head(ready).who = "pass"
    <3>1. pc = "awaiting"
      <4>1. ready # <<>>
        BY <1>1 DEF RunJob
      <4>2. ready[1] = Head(ready) /\ 1 \in 1 .. Len(ready)
        BY <1>0, <4>1
      <4> QED  BY <2>1, <4>2 DEF LInv, Awaits, AllVoid
    <3>2. UNCHANGED <<kind, emitted, status, inProgress>> /\ pos' = 1
      BY <1>1, <2>1 DEF RunJob, BeginPass
    <3> QED  BY <3>1, <3>2, NoYieldKeeps DEF Pending
  <2>2. CASE Head(ready).who # "pass"
    <3>1. /\ Scan(status, Head(ready).from, Head(ready).who, Tail(ready))
          /\ UNCHANGED <<kind, emitted, pc, pos>>
      BY <1>1, <2>2 DEF RunJob
    <3> QED  BY <1>0, <3>1, ScanEmits DEF Pending
  <2> QED  BY <2>1, <2>2
<1>2. CASE LoopScan
  <2>1. pc = "loop" /\ pc' = "awaiting" /\ Scan(status, 1, "loop", ready) /\ UNCHANGED <<kind, emitted>>
    BY <1>2 DEF LoopScan
  <2> QED  BY <1>0, <2>1, ScanEmits DEF Pending
<1>3. CASE Receive
  BY <1>3, ReceiveEmits
<1>4. ASSUME NEW t \in Tool, NEW s, status[t] \in {"executing", "orphaned"},
             s \in {"completed", "dropped"}, s = "completed" => status[t] = "executing",
             status' = [status EXCEPT ![t] = s],
             UNCHANGED <<kind, emitted, inProgress, pc, pos>>
      PROVE  EInv'
  <2>1. status'[t] = s /\ \A u \in Tool : u # t => status'[u] = status[u]
    BY <1>0, <1>4
  <2>2. \A u \in Tool : status'[u] = "yielded" <=> status[u] = "yielded"
    BY <1>4, <2>1
  <2>3. \A u \in Tool : Pending(u)' => Pending(u)
    BY <1>4, <2>1 DEF Pending
  <2> QED  BY <1>4, <2>2, <2>3, NoYieldKeeps
<1>5. CASE \E t \in Tool : Ends(t)
  BY <1>4, <1>5 DEF Ends, Finish, OrphanFinishes, loopVars
<1>6. CASE \E t \in Tool : YieldResult(t)
  BY <1>6, YieldResultEmits
<1>7. CASE \E t \in Tool : YieldProgress(t)
  BY <1>7, YieldProgressEmits
<1>8. CASE Discard
  <2>1. /\ emitted' = <<>> /\ pc' = "stream"
        /\ status' = [u \in Tool |->
                        CASE status[u] = "executing" -> "orphaned"
                          [] status[u] \in {"queued", "completed", "yielded"} -> "dropped"
                          [] OTHER -> status[u]]
    BY <1>8 DEF Discard
  <2>2. \A u \in Tool : status'[u] \notin {"queued", "executing", "completed", "yielded"}
    <3> TAKE u \in Tool
    <3>1. status[u] \in Status
      BY <1>0
    <3> QED  BY <2>1, <3>1 DEF Status
  <2>3. Len(emitted') = 0 /\ 1 .. 0 = {}
    BY <2>1
  <2>4. Emission' /\ Skipped' /\ Overtaking' /\ InOrder'
    BY <2>1, <2>2, <2>3 DEF Emission, Distinct, Elements, Skipped, Overtaking, InOrder
  <2>5. Shown'
    <3>1. inProgress' \subseteq Tool
      BY <1>8 DEF Discard, IInv, TypeOK
    <3> QED  BY <2>2, <3>1 DEF Shown
  <2> QED  BY <2>4, <2>5 DEF EInv
<1>9. CASE Resume
  <2>1. /\ pc = "paused" /\ pc' = "collect" /\ UNCHANGED <<kind, status, emitted, pos>>
        /\ inProgress' = IF status[pos] = "yielded" THEN inProgress \ {pos} ELSE inProgress
    BY <1>9 DEF Resume
  <2>2. \A t \in inProgress' : status'[t] # "yielded"
    BY <2>1 DEF EInv, Shown
  <2> QED  BY <2>1, <2>2, NoYieldKeeps DEF Pending
<1>10. CASE UNCHANGED <<kind, status, emitted, inProgress, pc, pos>>
  BY <1>10, NoYieldKeeps DEF Pending
<1>11. CASE \/ UserAbort \/ SubmitInterrupt \/ (\E t \in Tool : DenyPermission(t) \/ Progress(t))
            \/ Over \/ UNCHANGED vars
  BY <1>10, <1>11 DEF UserAbort, SubmitInterrupt, DenyPermission, Progress, AbortQuery, loopVars,
                      Over, vars
<1>12. CASE ReceiveOther \/ EndStream \/ EndPass \/ DrainEnds \/ Wake
  <2>1. /\ UNCHANGED <<kind, status, emitted, inProgress>> /\ pc # "paused"
        /\ pc' \in {"collect", "paused"} => pos' = 1
    BY <1>12 DEF ReceiveOther, BeginPass, EndStream, EndPass, DrainEnds, Wake
  <2> QED  BY <2>1, NoYieldKeeps DEF Pending
<1> QED
  BY <1>1, <1>2, <1>3, <1>5, <1>6, <1>7, <1>8, <1>9, <1>11, <1>12 DEF Next, Loop, Environment

LEMMA InitEmits == Init => EInv
<1> SUFFICES ASSUME Init  PROVE EInv
  OBVIOUS
<1>1. /\ emitted = <<>> /\ pc = "stream" /\ inProgress = {} /\ Len(emitted) = 0 /\ 1 .. 0 = {}
      /\ \A t \in Tool : status[t] = "none"
  BY DEF Init
<1> QED  BY <1>1 DEF EInv, Emission, Distinct, Elements, Skipped, Overtaking, InOrder, Shown,
                     Left, Pending

-----------------------------------------------------------------------------
THEOREM FullInvariance == Spec => [](IInv /\ TInv /\ LInv /\ EInv)
<1>1. Init => IInv /\ TInv /\ LInv /\ EInv
  BY InitEstablishes, InitTools, InitLoop, InitEmits
<1>2. IInv /\ TInv /\ LInv /\ EInv /\ [Next]_vars => (IInv /\ TInv /\ LInv /\ EInv)'
  BY NextKeeps, NextTools, NextLoop, NextEmits
<1> QED  BY <1>1, <1>2, PTL DEF Spec

(* Every call answers exactly once: a failing call does not answer again   *)
(* as cancelled by its own failure (thisToolErrored).                      *)
THEOREM OneAnswerEach == Spec => []OneAnswer
<1>1. TInv => OneAnswer
  BY DEF TInv, ToolsIn, AnsweredIn, OneAnswer
<1> QED  BY <1>1, FullInvariance, PTL

(* A prompt submitted during the turn interrupts no running 'block' tool:  *)
(* the flag it consults is true only while every executing tool may be     *)
(* cancelled, and nothing is launched after the interrupt.                 *)
THEOREM BlockToolsSpared == Spec => []InterruptSparesBlockTools
<1>1. TInv => InterruptSparesBlockTools
  BY DEF TInv, ToolsIn, SparedIn, InterruptSparesBlockTools
<1> QED  BY <1>1, FullInvariance, PTL

(* getRemainingResults does not sleep on progress it could show.           *)
THEOREM ProgressShown == Spec => []NoProgressMissed
<1>1. LInv => NoProgressMissed
  BY DEF LInv, Sleeping, NoProgressMissed, Woken
<1> QED  BY <1>1, FullInvariance, PTL

(* Results respect every exclusive tool, but for what follows an unknown   *)
(* tool that a pass yielded from behind it (getCompletedResults).          *)
THEOREM ResultsInOrder == Spec => []ExclusiveToolsInOrder
<1>1. EInv => ExclusiveToolsInOrder
  BY DEF EInv, InOrder, Excused, UnknownAfter, ExclusiveToolsInOrder
<1> QED  BY <1>1, FullInvariance, PTL

(* When the drain is over, every call of the attempt has been emitted once *)
(* and is no longer displayed as in progress.                              *)
THEOREM Drained == Spec => []DrainedCompletely
<1>1. IInv /\ TInv /\ LInv /\ EInv => DrainedCompletely
  <2> SUFFICES ASSUME IInv, TInv, LInv, EInv, pc = "done", NEW t \in 1 .. n,
                      status[t] \notin {"orphaned", "dropped"}
               PROVE  Cardinality(Position(t)) = 1 /\ t \notin inProgress
    BY DEF DrainedCompletely
  <2>1. t \in Tool /\ t <= n
    BY ConstantsAssumption DEF ConstantsAssumption, IInv, TypeOK, Tool
  <2>2. status[t] = "yielded"
    <3>1. status[t] \in Status /\ status[t] # "none"
      BY <2>1 DEF IInv, TypeOK, TInv, ToolsIn, ReceivedIn
    <3>2. status[t] \notin {"queued", "executing", "completed"}
      BY <2>1 DEF LInv, Done, Unfinished
    <3> QED  BY <3>1, <3>2 DEF Status
  <2>3. PICK i \in 1 .. Len(emitted) : emitted[i] = t
    BY <2>1, <2>2 DEF EInv, Emission, Elements
  <2>4. Position(t) = {i}
    BY <2>3 DEF EInv, Emission, Distinct, Position
  <2>5. Cardinality(Position(t)) = 1
    BY <2>4, FS_Singleton
  <2>6. t \notin inProgress
    BY <2>2 DEF EInv, Shown
  <2> QED  BY <2>5, <2>6
<1> QED  BY <1>1, FullInvariance, PTL

(* After a directory-changing command failed, or the query was aborted, no *)
(* call of the batch is launched any more, whichever scan comes to it.     *)
THEOREM FailureStopsLaunches == Spec => NothingLaunchedAfterFailure
<1>1. IInv /\ [Next]_vars => [(hasErrored \/ aborted # "none") => launched' = launched]_vars
  <2> SUFFICES ASSUME IInv, Next, hasErrored \/ aborted # "none"
               PROVE  launched' = launched
    OBVIOUS
  <2>0. TypeOK /\ status \in [Tool -> Status]
    BY DEF IInv, TypeOK
  <2>1. ASSUME NEW st \in [Tool -> Status], NEW i, NEW who, NEW queue, Scan(st, i, who, queue)
        PROVE  launched' = launched
    BY <2>0, <2>1, ScanStartsOne DEF Started
  <2>2. CASE RunJob
    BY <2>0, <2>1, <2>2 DEF RunJob
  <2>3. CASE LoopScan
    BY <2>0, <2>1, <2>3 DEF LoopScan
  <2>4. CASE Receive
    <3>1. CASE kind[n + 1].known
      <4>1. PICK st : st = [status EXCEPT ![n + 1] = "queued"]
        OBVIOUS
      <4>2. st \in [Tool -> Status]
        BY <2>0, <4>1 DEF Status
      <4>3. Scan(st, 1, "void", ready)
        BY <2>4, <3>1, <4>1 DEF Receive
      <4> QED  BY <2>1, <4>2, <4>3
    <3>2. CASE ~kind[n + 1].known
      BY <2>4, <3>2 DEF Receive
    <3> QED  BY <3>1, <3>2
  <2>5. CASE \/ \E t \in Tool : YieldProgress(t) \/ YieldResult(t) \/ Ends(t)
             \/ \E t \in Tool : Progress(t) \/ DenyPermission(t)
             \/ ReceiveOther \/ Discard \/ EndStream \/ UserAbort \/ SubmitInterrupt
             \/ Resume \/ EndPass \/ DrainEnds \/ Wake \/ Over
    BY <2>5 DEF YieldProgress, YieldResult, Ends, Finish, OrphanFinishes, Progress,
                DenyPermission, ReceiveOther, Discard, EndStream, UserAbort, SubmitInterrupt,
                AbortQuery, Resume, EndPass, DrainEnds, Wake, Over, vars
  <2> QED  BY <2>2, <2>3, <2>4, <2>5 DEF Next, Loop, Environment
<1> QED  BY <1>1, Invariance, PTL DEF Spec, NothingLaunchedAfterFailure
=============================================================================
