---------------------------- MODULE ToolExecutor ----------------------------
(***************************************************************************)
(* StreamingToolExecutor (src/src/services/tools/StreamingToolExecutor.ts) *)
(* and the part of the query loop (src/src/query.ts) that feeds it the     *)
(* tool_use blocks of one model reply and drains its results.              *)
(*                                                                         *)
(* Grain of atomicity: JavaScript runs a synchronous segment to its end,   *)
(* then the pending microtasks (continuations of awaits, promise callbacks)*)
(* in the order they became ready, and only then the next macrotask (I/O,  *)
(* timers, keyboard).  The continuations of processQueue are kept in the   *)
(* queue `ready`; other chains of microtasks, whose length depends on code *)
(* not modelled here, interleave with them freely.  A macrotask runs only  *)
(* when Quiet holds.  Where the query loop runs on without awaiting        *)
(* (pc = "collect" or "loop"), nothing else runs (Free is FALSE).          *)
(*                                                                         *)
(* Tools are numbered in the order their blocks arrive.  discard() gives   *)
(* up the tools of a failed attempt; the query loop then continues with a  *)
(* fresh executor, whose tools take the following numbers.                 *)
(***************************************************************************)
EXTENDS Naturals, Sequences, FiniteSets

CONSTANTS
  MaxTools,     \* bound: tool_use blocks received in the turn
  MaxProgress,  \* bound: progress messages buffered for one tool
  Kinds         \* the kinds of tool call the model may ask for

(* A kind of call: `known` - findToolByName finds the tool; `safe` -       *)
(* isConcurrencySafe; `cd` - a Bash command that changes directory, whose  *)
(* failure cancels its siblings; `cancel` - interruptBehavior() is         *)
(* 'cancel'; `io` - the call can only finish through the event loop.       *)
KindType == [known : BOOLEAN, safe : BOOLEAN, cd : BOOLEAN,
             cancel : BOOLEAN, io : BOOLEAN]

(* addTool records an unknown tool as concurrency safe.                    *)
ASSUME ConstantsAssumption ==
  /\ MaxTools \in Nat \ {0}
  /\ MaxProgress \in Nat
  /\ Kinds \subseteq KindType
  /\ \A k \in Kinds : ~k.known => k.safe

Tool == 1 .. MaxTools

VARIABLES
  n,             \* blocks received so far
  kind,          \* kind[t]: what the model asks for in block t
  status,        \* TrackedTool.status, see TypeOK
  answers,       \* tool_result messages in TrackedTool.results
  progress,      \* length of TrackedTool.pendingProgress
  hasErrored,    \* a directory-changing command of this batch failed
  aborted,       \* query abort signal: "none", or its reason
  interruptible, \* hasInterruptibleToolInProgress, as the REPL sees it
  inProgress,    \* inProgressToolUseIDs, as the REPL sees it
  launched,      \* history: calls whose tool body was allowed to run
  ready,         \* queued microtasks of processQueue, see Job
  pc,            \* where the query loop stands
  drain,         \* TRUE inside getRemainingResults
  pos,           \* index of the query loop's own pass over the tools array
  waitSet,       \* the promises getRemainingResults races
  signalled,     \* progressAvailableResolve was called during the wait
  emitted        \* results yielded in this attempt, in order

vars == <<n, kind, status, answers, progress, hasErrored, aborted,
          interruptible, inProgress, launched, ready, pc, drain, pos,
          waitSet, signalled, emitted>>

loopVars == <<pc, drain, pos, waitSet, signalled, emitted>>

(* A tool that was never received has status "none"; discard() turns an    *)
(* executing tool into an orphan and drops the others.                     *)
Status == {"none", "queued", "executing", "completed", "yielded",
           "orphaned", "dropped"}

(* A queued microtask: continue a processQueue scan at index `from`, on    *)
(* behalf of nobody ("void") or of the query loop, which awaits it; or,    *)
(* that scan being over, let the query loop go on to its next pass.        *)
Job == [who : {"void", "loop", "pass"}, from : 1 .. MaxTools + 1]

TypeOK ==
  /\ n \in 0 .. MaxTools
  /\ kind \in [Tool -> Kinds]
  /\ status \in [Tool -> Status]
  /\ answers \in [Tool -> 0 .. 2]
  /\ progress \in [Tool -> 0 .. MaxProgress]
  /\ hasErrored \in BOOLEAN
  /\ aborted \in {"none", "abort", "interrupt"}
  /\ interruptible \in BOOLEAN
  /\ inProgress \subseteq Tool
  /\ launched \subseteq Tool
  /\ ready \in Seq(Job)
  /\ pc \in {"stream", "collect", "paused", "loop", "awaiting", "wait", "done"}
  /\ drain \in BOOLEAN
  /\ pos \in Tool
  /\ waitSet \subseteq Tool
  /\ signalled \in BOOLEAN
  /\ emitted \in Seq(Tool)

Init ==
  /\ n = 0
  /\ kind \in [Tool -> Kinds]
  /\ status = [t \in Tool |-> "none"]
  /\ answers = [t \in Tool |-> 0]
  /\ progress = [t \in Tool |-> 0]
  /\ hasErrored = FALSE
  /\ aborted = "none"
  /\ interruptible = FALSE
  /\ inProgress = {} /\ launched = {} /\ ready = <<>>
  /\ pc = "stream" /\ drain = FALSE /\ pos = 1
  /\ waitSet = {} /\ signalled = FALSE
  /\ emitted = <<>>

-----------------------------------------------------------------------------
Executing(st) == {t \in Tool : st[t] = "executing"}
Safe(t)       == kind[t].safe

(* Fault: a concurrency-safe tool starts whatever is executing.            *)
CanExecuteIfSafe(st, t) == Executing(st) = {} \/ Safe(t)

(* canExecuteTool, on the tools as st records them                         *)
CanExecute(st, t) ==
  \/ Executing(st) = {}
  \/ Safe(t) /\ \A u \in Executing(st) : Safe(u)

(* Fault: a sibling's failure is not an abort reason.                      *)
AbortsOnSignalOnly(t, errored) ==
  aborted = "abort" \/ (aborted = "interrupt" /\ kind[t].cancel)

(* getAbortReason # null for a tool of the current executor                *)
Aborts(t, errored) ==
  \/ errored
  \/ aborted = "abort"
  \/ aborted = "interrupt" /\ kind[t].cancel

(* Fault: some executing tool, instead of every one.                       *)
SomeCancellable(executing) == \E t \in executing : kind[t].cancel

(* updateInterruptibleState: the flag computed from the executing tools    *)
AllCancellable(executing) ==
  executing # {} /\ \A t \in executing : kind[t].cancel

(* Fault: processQueue does not stop at an exclusive tool.                 *)
ScanStartsBeyond(st, i, j) ==
  /\ i <= j
  /\ st[j] = "queued"
  /\ CanExecute(st, j)
  /\ \A k \in Tool : (i <= k /\ k < j /\ st[k] = "queued") => ~CanExecute(st, k)

(* processQueue, at index i, starts tool j next: j is the first queued     *)
(* tool it does not pass over.  It passes over a concurrency-safe tool it  *)
(* cannot start and stops at any other tool it cannot start.               *)
ScanStarts(st, i, j) ==
  /\ i <= j
  /\ st[j] = "queued"
  /\ CanExecute(st, j)
  /\ \A k \in Tool : (i <= k /\ k < j /\ st[k] = "queued")
                        => Safe(k) /\ ~CanExecute(st, k)

(* executeTool up to its first await.  A call with an abort reason gets    *)
(* its synthetic answer at once; otherwise runToolUse is entered, and its  *)
(* body is launched unless the query signal is already aborted.            *)
Start(st, j) ==
  LET cancelled == Aborts(j, hasErrored) IN
  /\ inProgress' = inProgress \cup {j}
  /\ status' = [st EXCEPT ![j] = IF cancelled THEN "completed" ELSE "executing"]
  /\ answers' = [answers EXCEPT ![j] = IF cancelled THEN 1 ELSE 0]
  /\ interruptible' =
       AllCancellable(IF cancelled THEN Executing(st) ELSE Executing(st) \cup {j})
  /\ launched' = IF cancelled \/ aborted # "none" THEN launched ELSE launched \cup {j}

(* A settled call's promise.finally rescans the queue from the start.      *)
Rescan == [who |-> "void", from |-> 1]

(* One synchronous segment of a processQueue run, from index i to its next *)
(* await or its end; `queue` holds the microtasks already waiting.         *)
Scan(st, i, who, queue) ==
  \/ \E j \in Tool :
       /\ ScanStarts(st, i, j)
       /\ Start(st, j)
       /\ ready' = Append(IF Aborts(j, hasErrored) THEN Append(queue, Rescan) ELSE queue,
                           [who |-> who, from |-> j + 1])
  \/ /\ \A j \in Tool : ~ScanStarts(st, i, j)
     /\ status' = st
     /\ ready' = IF who = "loop" THEN Append(queue, [who |-> "pass", from |-> 1])
                                 ELSE queue
     /\ UNCHANGED <<answers, inProgress, interruptible, launched>>

-----------------------------------------------------------------------------
(* Promise.race has been won: a raced tool settled, or progress arrived.   *)
Woken == signalled \/ \E t \in waitSet : status[t] # "executing"

(* The query loop does not hold the thread.                                *)
Free == pc \notin {"collect", "loop"}

(* The event loop is entered: no microtask is pending.  A `paused` query   *)
(* loop waits for its consumer, which may do I/O.                          *)
Quiet ==
  /\ ready = <<>>
  /\ \/ pc \in {"stream", "paused", "done"}
     \/ pc = "wait" /\ ~Woken

BeginPass == pc' = "collect" /\ pos' = 1

(* The next microtask of processQueue.                                     *)
RunJob ==
  /\ Free /\ ready # <<>>
  /\ LET job == Head(ready) IN
     IF job.who = "pass"
       THEN /\ BeginPass /\ ready' = Tail(ready)
            /\ UNCHANGED <<status, answers, inProgress, interruptible, launched>>
       ELSE /\ Scan(status, job.from, job.who, Tail(ready))
            /\ UNCHANGED <<pc, pos>>
  /\ UNCHANGED <<n, kind, progress, hasErrored, aborted, drain, waitSet,
                 signalled, emitted>>

-----------------------------------------------------------------------------
(* The running tools, and the user.                                        *)

(* Fault: a sleeping getRemainingResults is not signalled.                 *)
ProgressUnsignalled(t) ==
  /\ Quiet
  /\ status[t] = "executing" /\ t \in launched
  /\ ~Aborts(t, hasErrored)
  /\ progress[t] < MaxProgress
  /\ progress' = [progress EXCEPT ![t] = @ + 1]
  /\ UNCHANGED <<n, kind, status, answers, hasErrored, aborted, interruptible,
                 inProgress, launched, ready, pc, drain, pos, waitSet,
                 signalled, emitted>>

(* A tool body reports progress.  Under an abort reason the update only    *)
(* ends the call, which is Finish.                                         *)
Progress(t) ==
  /\ Quiet
  /\ status[t] = "executing" /\ t \in launched
  /\ ~Aborts(t, hasErrored)
  /\ progress[t] < MaxProgress
  /\ progress' = [progress EXCEPT ![t] = @ + 1]
  /\ signalled' = (signalled \/ pc = "wait")
  /\ UNCHANGED <<n, kind, status, answers, hasErrored, aborted, interruptible,
                 inProgress, launched, ready, pc, drain, pos,
                 waitSet, emitted>>

(* Fault: without thisToolErrored, a failing call cancels itself as well.  *)
FinishTwice(t, err, extra) ==
  LET cancelled == Aborts(t, hasErrored)
      fatal     == ~cancelled /\ err /\ kind[t].cd
      late      == ~cancelled /\ extra /\ Aborts(t, hasErrored \/ fatal)
  IN
  /\ status[t] = "executing"
  /\ Quiet \/ (Free /\ (~kind[t].io \/ t \notin launched))
  /\ t \notin launched => err /\ ~extra
  /\ answers' = [answers EXCEPT ![t] = IF late THEN 2 ELSE 1]
  /\ hasErrored' = (hasErrored \/ fatal)
  /\ status' = [status EXCEPT ![t] = "completed"]
  /\ ready' = Append(ready, Rescan)
  /\ interruptible' = AllCancellable(Executing(status) \ {t})
  /\ UNCHANGED <<n, kind, progress, aborted, inProgress, launched>>
  /\ UNCHANGED loopVars

(* The last updates of a call: its tool_result (`err`: is_error), then     *)
(* possibly one more message (`extra`), and the end of collectResults.     *)
(* Each update first consults getAbortReason, unless this call has         *)
(* already answered with an error.  A call entered after the abort of the  *)
(* query answers at once with the cancellation notice, an error.           *)
Finish(t, err, extra) ==
  LET cancelled == Aborts(t, hasErrored)
      fatal     == ~cancelled /\ err /\ kind[t].cd
      late      == ~cancelled /\ extra /\ Aborts(t, hasErrored \/ fatal) /\ ~err
  IN
  /\ status[t] = "executing"
  /\ Quiet \/ (Free /\ (~kind[t].io \/ t \notin launched))
  /\ t \notin launched => err /\ ~extra
  /\ answers' = [answers EXCEPT ![t] = IF late THEN 2 ELSE 1]
  /\ hasErrored' = (hasErrored \/ fatal)
  /\ status' = [status EXCEPT ![t] = "completed"]
  /\ ready' = Append(ready, Rescan)
  /\ interruptible' = AllCancellable(Executing(status) \ {t})
  /\ UNCHANGED <<n, kind, progress, aborted, inProgress, launched>>
  /\ UNCHANGED loopVars

(* A call of a discarded executor ends: updateInterruptibleState sees the  *)
(* emptied tools array and lowers the REPL's flag.                         *)
OrphanFinishes(t) ==
  /\ status[t] = "orphaned"
  /\ Quiet \/ (Free /\ ~kind[t].io)
  /\ status' = [status EXCEPT ![t] = "dropped"]
  /\ interruptible' = FALSE
  /\ UNCHANGED <<n, kind, answers, progress, hasErrored, aborted, inProgress,
                 launched, ready>>
  /\ UNCHANGED loopVars

AbortQuery(reason) ==
  /\ Quiet
  /\ pc # "done"
  /\ aborted = "none"
  /\ aborted' = reason
  /\ UNCHANGED <<n, kind, status, answers, progress, hasErrored, interruptible,
                 inProgress, launched, ready>>
  /\ UNCHANGED loopVars

(* Escape (onCancel) aborts the turn.                                      *)
UserAbort == AbortQuery("abort")

(* The user rejects a permission dialog: cancelAndAbort aborts the tool's  *)
(* controller, whose listener aborts the query unless the controller was   *)
(* already aborted by a sibling's error or by discard().                   *)
DenyPermission(t) ==
  /\ status[t] = "executing" /\ t \in launched
  /\ ~hasErrored
  /\ AbortQuery("abort")

(* A prompt submitted during the turn interrupts it when the flag says     *)
(* that every executing tool may be cancelled (handlePromptSubmit).        *)
SubmitInterrupt ==
  /\ interruptible
  /\ AbortQuery("interrupt")

-----------------------------------------------------------------------------
(* The query loop: reading the model's reply.  Events already buffered by  *)
(* the transport are read without entering the event loop, so these steps  *)
(* do not wait for Quiet.                                                  *)

(* The next tool_use block (after an abort, blocks are no longer added).   *)
Receive ==
  LET t == n + 1 IN
  /\ pc = "stream" /\ aborted = "none" /\ n < MaxTools
  /\ n' = t
  /\ IF kind[t].known
       THEN Scan([status EXCEPT ![t] = "queued"], 1, "void", ready)
       ELSE /\ status' = [status EXCEPT ![t] = "completed"]
            /\ answers' = [answers EXCEPT ![t] = 1]
            /\ UNCHANGED <<ready, inProgress, interruptible, launched>>
  /\ BeginPass
  /\ UNCHANGED <<kind, progress, hasErrored, aborted, drain, waitSet,
                 signalled, emitted>>

(* Any other message of the reply also triggers a pass.                    *)
ReceiveOther ==
  /\ pc = "stream" /\ aborted = "none"
  /\ BeginPass
  /\ UNCHANGED <<n, kind, status, answers, progress, hasErrored, aborted,
                 interruptible, inProgress, launched, ready, drain,
                 waitSet, signalled, emitted>>

(* The attempt is given up: executor.discard(), a fresh executor, and      *)
(* toolResults emptied.  The REPL's flag and id set are left as they are.  *)
Discard ==
  /\ pc = "stream"
  /\ \E t \in Tool : status[t] \in {"queued", "executing", "completed", "yielded"}
  /\ status' = [t \in Tool |->
                  CASE status[t] = "executing" -> "orphaned"
                    [] status[t] \in {"queued", "completed", "yielded"} -> "dropped"
                    [] OTHER -> status[t]]
  /\ progress' = [t \in Tool |-> 0]
  /\ hasErrored' = FALSE
  /\ ready' = <<>>
  /\ emitted' = <<>>
  /\ UNCHANGED <<n, kind, answers, aborted, interruptible, inProgress, launched,
                 pc, drain, pos, waitSet, signalled>>

(* The reply is complete, or was cut short by an abort: both paths drain   *)
(* the executor.                                                           *)
EndStream ==
  /\ pc = "stream"
  /\ pc' = "loop" /\ drain' = TRUE
  /\ UNCHANGED <<n, kind, status, answers, progress, hasErrored, aborted,
                 interruptible, inProgress, launched, ready, pos,
                 waitSet, signalled, emitted>>

-----------------------------------------------------------------------------
(* The query loop: getCompletedResults, one step per yield.                *)

HasResult(t) == status[t] = "completed"

(* Fault: any executing tool ends the pass.                                *)
BlocksAlways(t) == status[t] = "executing"

Blocks(t) == status[t] = "executing" /\ ~Safe(t)

(* The pass, standing at pos, comes to tool t next: it skips tools with    *)
(* nothing to yield.                                                       *)
PassReaches(t) ==
  /\ pos <= t
  /\ progress[t] > 0 \/ HasResult(t) \/ Blocks(t)
  /\ \A u \in Tool : (pos <= u /\ u < t)
                        => progress[u] = 0 /\ ~HasResult(u) /\ ~Blocks(u)

(* Fault: one message too many is shifted off the progress queue.          *)
YieldProgressBlindly(t) ==
  /\ pc = "collect" /\ PassReaches(t)
  /\ progress' = [progress EXCEPT ![t] = @ - 1]
  /\ pos' = t /\ pc' = "paused"
  /\ UNCHANGED <<n, kind, status, answers, hasErrored, aborted, interruptible,
                 inProgress, launched, ready, drain, waitSet, signalled, emitted>>

YieldProgress(t) ==
  /\ pc = "collect" /\ PassReaches(t) /\ progress[t] > 0
  /\ progress' = [progress EXCEPT ![t] = @ - 1]
  /\ pos' = t /\ pc' = "paused"
  /\ UNCHANGED <<n, kind, status, answers, hasErrored, aborted, interruptible,
                 inProgress, launched, ready, drain, waitSet,
                 signalled, emitted>>

YieldResult(t) ==
  /\ pc = "collect" /\ PassReaches(t) /\ progress[t] = 0 /\ HasResult(t)
  /\ status' = [status EXCEPT ![t] = "yielded"]
  /\ emitted' = Append(emitted, t)
  /\ pos' = t /\ pc' = "paused"
  /\ UNCHANGED <<n, kind, answers, progress, hasErrored, aborted, interruptible,
                 inProgress, launched, ready, drain, waitSet, signalled>>

(* The consumer asks for more: after its last result a tool is marked      *)
(* complete, and the pass goes on.                                         *)
Resume ==
  /\ pc = "paused"
  /\ pc' = "collect"
  /\ inProgress' = IF status[pos] = "yielded" THEN inProgress \ {pos} ELSE inProgress
  /\ UNCHANGED <<n, kind, status, answers, progress, hasErrored, aborted,
                 interruptible, launched, ready, drain, pos, waitSet,
                 signalled, emitted>>

PassEnds == \A t \in Tool : PassReaches(t) => Blocks(t) /\ progress[t] = 0

(* The three conditions under which getRemainingResults waits.             *)
MustWait ==
  /\ Executing(status) # {}
  /\ \A t \in Tool : ~HasResult(t)
  /\ \A t \in Tool : progress[t] = 0

EndPass ==
  /\ pc = "collect" /\ PassEnds
  /\ IF ~drain
       THEN pc' = "stream" /\ UNCHANGED <<waitSet, signalled>>
       ELSE IF MustWait
         THEN pc' = "wait" /\ waitSet' = Executing(status) /\ signalled' = FALSE
         ELSE pc' = "loop" /\ UNCHANGED <<waitSet, signalled>>
  /\ UNCHANGED <<n, kind, status, answers, progress, hasErrored, aborted,
                 interruptible, inProgress, launched, ready, drain,
                 pos, emitted>>

-----------------------------------------------------------------------------
(* The query loop: getRemainingResults around these passes.                *)

(* Fault: the drain ends while tools are still queued or unread.           *)
OnlyExecuting == \E t \in Tool : status[t] = "executing"

Unfinished == \E t \in Tool : status[t] \in {"queued", "executing", "completed"}

DrainEnds ==
  /\ pc = "loop" /\ ~Unfinished
  /\ pc' = "done"
  /\ UNCHANGED <<n, kind, status, answers, progress, hasErrored, aborted,
                 interruptible, inProgress, launched, ready, drain,
                 pos, waitSet, signalled, emitted>>

(* `await this.processQueue()`: the loop goes on when its scan is over.    *)
LoopScan ==
  /\ pc = "loop" /\ Unfinished
  /\ Scan(status, 1, "loop", ready)
  /\ pc' = "awaiting"
  /\ UNCHANGED <<n, kind, progress, hasErrored, aborted, drain, pos, waitSet,
                 signalled, emitted>>

Wake ==
  /\ pc = "wait" /\ Woken
  /\ pc' = "loop" /\ waitSet' = {} /\ signalled' = FALSE
  /\ UNCHANGED <<n, kind, status, answers, progress, hasErrored, aborted,
                 interruptible, inProgress, launched, ready, drain,
                 pos, emitted>>

(* The turn is over and nothing of it is left running.                     *)
Over ==
  /\ pc = "done" /\ Quiet
  /\ \A t \in Tool : status[t] # "orphaned"
  /\ UNCHANGED vars

-----------------------------------------------------------------------------
Loop ==
  \/ Resume \/ EndPass \/ DrainEnds \/ LoopScan \/ Wake
  \/ \E t \in Tool : YieldProgress(t) \/ YieldResult(t)

Ends(t) == OrphanFinishes(t) \/ \E err, extra \in BOOLEAN : Finish(t, err, extra)

Environment ==
  \/ Receive \/ ReceiveOther \/ Discard \/ EndStream
  \/ UserAbort \/ SubmitInterrupt
  \/ \E t \in Tool : Progress(t) \/ DenyPermission(t)

Next ==
  \/ RunJob \/ Loop \/ Environment \/ Over
  \/ \E t \in Tool : Ends(t)

(* Microtasks and the query loop always run on (a yield is always          *)
(* consumed).  A reply always ends: the API client has an idle watchdog.   *)
(* A call always ends, if the event loop keeps being entered: hence strong *)
(* fairness, because Finish waits for Quiet.                               *)
Fairness ==
  /\ WF_vars(RunJob) /\ WF_vars(Loop)
  /\ SF_vars(EndStream)
  /\ \A t \in Tool : SF_vars(Ends(t))

Spec == Init /\ [][Next]_vars /\ Fairness

-----------------------------------------------------------------------------
(* Safety.                                                                 *)

(* "Non-concurrent tools must execute alone": within one executor, two     *)
(* tools execute together only if both are concurrency safe, whichever of  *)
(* the suspended scans started them.                                       *)
Exclusive ==
  \A t, u \in Executing(status) : t # u => Safe(t) /\ Safe(u)

(* Calls are started in the order the model asked for them: no known tool  *)
(* runs ahead of one that is still queued.                                 *)
StartOrder ==
  \A t, u \in Tool :
    (t < u /\ status[t] = "queued" /\ kind[u].known)
      => status[u] \in {"none", "queued"}

(* The API wants exactly one tool_result for each tool_use: real, or       *)
(* synthetic, and never both (thisToolErrored).                            *)
OneAnswer ==
  \A t \in Tool : status[t] \in {"completed", "yielded"} => answers[t] = 1

(* "'block' tools shouldn't reach here (abort isn't fired)": a prompt      *)
(* submitted during the turn never interrupts a running 'block' tool,      *)
(* although the flag it consults is pushed by the executor ahead of time.  *)
InterruptSparesBlockTools ==
  aborted = "interrupt" =>
    \A t \in Executing(status) \cap launched : kind[t].cancel

(* getRemainingResults never sleeps on progress it could show: neither a   *)
(* message buffered before the race nor one that arrives during it.        *)
NoProgressMissed ==
  (pc = "wait" /\ ~Woken) => \A t \in Tool : progress[t] = 0

Position(t) == {i \in 1 .. Len(emitted) : emitted[i] = t}

(* Results respect every exclusive tool: one received after it is never    *)
(* emitted before it.  Excepted are unknown tools, answered at once, and   *)
(* what follows one: a pass that skipped the queued exclusive tool to yield*)
(* it goes on behind it, although that tool may run in the meantime.       *)
ExclusiveToolsInOrder ==
  \A i, j \in 1 .. Len(emitted) :
    (i < j /\ ~Safe(emitted[j]) /\ kind[emitted[i]].known /\ emitted[j] < emitted[i])
      => \E k \in 1 .. i - 1 : /\ ~kind[emitted[k]].known
                              /\ emitted[j] < emitted[k] /\ emitted[k] < emitted[i]

(* When the drain is over, every call of the attempt has been emitted      *)
(* once, and none of them is still displayed as in progress.               *)
DrainedCompletely ==
  pc = "done" =>
    \A t \in 1 .. n :
      status[t] \notin {"orphaned", "dropped"} =>
        Cardinality(Position(t)) = 1 /\ t \notin inProgress

(* Once a directory-changing command has failed, or the query is aborted,  *)
(* no call of the batch is launched any more, queued or not yet received.  *)
NothingLaunchedAfterFailure ==
  [][(hasErrored \/ aborted # "none") => launched' = launched]_vars

-----------------------------------------------------------------------------
(* Liveness.                                                               *)

(* A call that was answered on arrival (an unknown tool) stands behind a   *)
(* running exclusive one while the executor is drained.                    *)
Overtaken ==
  /\ drain
  /\ \E t, u \in Tool : t < u /\ Blocks(t) /\ HasResult(u) /\ ~kind[u].known

(* Every turn ends, if that situation does not arise.                      *)
TurnEnds == <>(pc = "done" \/ Overtaken)

(* "Wait for remaining tools and yield their results as they complete":    *)
(* the drain ends, whatever the model asked for.                           *)
DrainEndsAlways == drain ~> pc = "done"
=============================================================================
