# A verification project for open-claude-code

open-claude-code is a terminal agent: a REPL sends the conversation to a model,
the model answers with text and tool calls, the program runs the calls and
sends their results back, until a turn ends. Around this loop stand background
tasks, teams of agents in other processes, remote sessions and a good deal of
user interface. This directory holds TLA+ modules of the parts where order,
concurrency and failure decide whether the program is right, the TLC
configurations that check them, and TLAPS proofs.

Everything is translated from the TypeScript source (`src/src`,
`src/packages`). `PROJECT.json` maps each definition to its lines, lists the
runs, the hazards of the code and, for every checked property, a mutation of the
code under which TLC finds it violated (the definitions commented *Fault*).

    tlc -config ToolExecutor.cfg MCToolExecutor     # one run
    tlapm ToolExecutorProofs.tla                    # the proofs of a module

## 1. Inventory

| Component | State | Operations | Talks to | Hard behaviour | Correct when |
|---|---|---|---|---|---|
| **Streaming tool executor** `services/tools/StreamingToolExecutor.ts` | tracked tools with status, results and progress; error and discard flags; a progress resolver | addTool, processQueue, executeTool, getCompletedResults, getRemainingResults, discard | the query loop calls it, tools run inside it, the REPL reads two of its flags | suspended scans over one array, aborts at any await, a drain that must end | exclusive calls run alone, starts keep order, one answer per call, the drain is complete and ends |
| **Query loop** `query.ts` | the turn's messages, tool results, attempt | receive, collect, fall back, drain, abort | executor, API client | fallback in the middle of a reply, abort anywhere | each tool_use is answered |
| **Event uploader** `cli/transports/SerialBatchEventUploader.ts` | buffer, draining flag, three lists of resolvers | enqueue, flush, close, drain | transports (`HybridTransport`, `ccrClient`) | retry, back-pressure, close during a request | serial order, bounded, nothing lost, all callers return |
| **Worker state uploader** `cli/transports/WorkerStateUploader.ts` | in-flight request, one pending patch | enqueue, close | `ccrClient` | patches coalesced during a retry | the server ends with the newest values |
| **Shared task list** `utils/task/tasks.ts` | one file per task, a high-water mark, lock files | create, update, claim, delete, reset, unassign, block | teammates in other processes, the UI watcher | reads and writes of several processes, non-atomic writes, crashes | ids are unique, a task has one worker, no update is lost |
| **Query guard and command queue** `utils/session/QueryGuard.ts`, `messageQueueManager.ts`, `hooks/useQueueProcessor.ts`, `handlePromptSubmit.ts` | guard status and generation, queue of prompts | reserve, tryStart, end, forceEnd, cancelReservation, enqueue, dequeue | REPL, query loop | cancelled dispatches that run on | one turn at a time, no prompt lost |
| **Scheduler lock** `utils/task/cronTasksLock.ts` (same pattern in `computerUseLock.ts`) | a lock file naming a session and a pid | tryAcquire, release | `cronScheduler.ts` of every session in a project | recovery from a dead owner by several sessions | one session drives the scheduler, a dead one is replaced |
| **Teammate mailboxes** `utils/agents/teammateMailbox.ts`, `hooks/useInboxPoller.ts`, `swarm/inProcessRunner.ts` | one JSON file per agent, a queue in the session | write, mark as read, compact, clear, poll, deliver | all agents of a team | appends, markings and compactions of several processes, polls that overlap, deaths | no message lost but for lack of room; every one arrives |
| **Permission prompts** `hooks/toolPermission/`, `hooks/useCanUseTool.tsx` | a queue of dialogs, a resolve-once cell per request, remote prompts | open, claim, resolve, abort, recheck | hooks, remote session, channels, keys, rules | several racers, aborts, keys that hit an answered dialog | a dialog is open exactly while its request is unanswered; all sides follow; every request ends |
| **Remote bridge** `bridge/flushGate.ts`, `replBridgeTransport.ts`, `ccrClient.ts` | gate, parked writes, transport | start, end, drop, write, swap | uploader, server | live writes during the history flush or a transport swap | order kept, nothing lost while a replacement comes |
| **Transcript writer** `utils/sessionStorage/transcriptWriter.ts` | append queues, flush promises | append, flush, rename | everything that logs a message | flush racing appends | what was acknowledged is on disk in order |
| **Workflow engine** `packages/workflow-engine` | journal, semaphore, step results | run, resume, parallel | agents it starts | crash and resume | a journaled step is not run twice |

Left to their tests, or without control worth a model: the tool bodies, the API
client's sequential retry loop, compaction, MCP and language-server clients,
settings, authentication, plugins, updates, and the terminal UI. They are listed
in `PROJECT.json` with the reason.

## 2. Plan

Order of work, most important behaviour first. One module per component, an
`MC` module that gives constants their values, `.cfg` files per question.

1. `ToolExecutor` with the query loop around it; proofs in
   `ToolExecutorProofs`. **Done.**
2. `EventUploader`, which implements the abstract `Outbox`; proofs about
   `Outbox` in `OutboxProofs`, of the uploader's safety properties and of the
   refinement in `EventUploaderProofs`. **Done.**
3. `TaskList`: processes over a file system whose writes truncate first; task
   and list locks; create, claim, update, delete, reset, unassign, crash.
   **Done** but for the claim with `checkAgentBusy`; proofs of all its passing
   properties in `TaskListProofs`.
4. `TurnGuard`: `QueryGuard` with the command queue, its processor, dispatch,
   the turn and Escape. **Done**, with proofs of its safety properties in
   `TurnGuardProofs`.
5. `PermissionPrompts`: the race for the answer. **Done**, with proofs of its
   safety properties in `PermissionPromptsProofs`; to do: requests forwarded by
   teammates.
6. `Mailbox`: the inbox file, its writers and its readers. **Done**, with proofs
   of its safety properties in `MailboxProofs`.
7. Left: `SchedulerLock` (recovery from a dead owner; liveness of the takeover),
   `WorkerState`, `Bridge` (the flush gate composed with `EventUploader`), the
   transcript writer, the workflow engine.

No module that is proved about uses RECURSIVE operators.

## 3. ToolExecutor

**Grain.** JavaScript runs a synchronous segment to its end, then the pending
microtasks in order, then the next macrotask. An action is one segment.
Continuations of `processQueue` stand in the FIFO queue `ready`; `RunJob` takes
the first. `Quiet` says that no microtask is pending: I/O, timers and the
keyboard act only then. While the query loop runs on without awaiting
(`pc` = "collect" or "loop") nothing else runs. Other chains of microtasks, whose
length depends on code outside the model, interleave freely with `ready`; that
allows more interleavings than one build has.

| Model | Code |
|---|---|
| `status`, `answers`, `progress` | `TrackedTool.status`, `.results`, `.pendingProgress` |
| `kind` | what the model asks for: known tool, concurrency safe, `cd` command, interrupt behaviour, needs I/O; chosen at the start, read on arrival |
| `Receive`, `ReceiveOther` | `addTool` and the collection after each message of the reply |
| `Scan`, `Start`, `RunJob` | `processQueue` from one await to the next; `executeTool` up to its first await |
| `Progress`, `Finish` | updates of `collectResults`, and its end (with `promise.finally`) |
| `UserAbort`, `DenyPermission`, `SubmitInterrupt` | Escape; `cancelAndAbort` through the abort listener; `abort('interrupt')` |
| `Discard`, `OrphanFinishes` | `discard()` and a fresh executor; what its calls still do |
| `YieldProgress`, `YieldResult`, `Resume`, `EndPass` | `getCompletedResults`, one step per yield |
| `LoopScan`, `EndPass`, `Wake`, `DrainEnds` | `getRemainingResults` |

The last updates of a call are one action, because they follow each other in
consecutive microtasks. Blocks that arrive after an abort are not added
(`query.ts` 1205-1209), and the loop goes straight to the drain.

**Runs.**

- `tool_executor`: three calls of every mix of four kinds (`cd`, a safe call that
  reads, a safe one that can be interrupted, an unknown one), one progress message
  each; 785 thousand states. Three calls are enough for an exclusive call between
  two others, for two suspended scans, and for a failed call with one running
  and one queued sibling. Checked: `Exclusive`, `StartOrder`, `OneAnswer`,
  `InterruptSparesBlockTools`, `NoProgressMissed`, `ExclusiveToolsInOrder`,
  `DrainedCompletely`, `NothingLaunchedAfterFailure`, absence of deadlock
  (`Over` is the only resting state) and, under fairness, `TurnEnds`. The proofs
  cover every other kind too.
- `tool_executor_starves`: the finding below.

**Fairness.** Weak on microtasks and on the query loop: the engine runs what is
ready, and each yield is consumed. Strong on the end of a reply (the client has
an idle watchdog) and on the end of a call: a call ends through the event loop,
so its end is enabled only now and then. That a call ends *if the event loop
keeps being entered* is what the environment gives; that it is entered is what
the executor must ensure.

**Finding.** `getRemainingResults` skips its wait when some tool is completed,
but `getCompletedResults` does not reach a completed tool behind a running
exclusive one. An unknown tool is completed on arrival. With an exclusive call
running in front of it the drain polls in microtasks only, the event loop is
never entered, and the call can never finish. `DrainEndsAlways` states what the
method's comment says; `TurnEnds` excludes exactly this situation (`Overtaken`).

**Two remarks.** The class comment says results are emitted in the order tools
were received; concurrency-safe calls are emitted as they finish, and
`ExclusiveToolsInOrder` states what does hold. Its exception was found by proving
it: a pass that comes to a queued exclusive call goes on behind it, to yield an
unknown tool that was answered on arrival. If that exclusive call and a safe one
behind the unknown tool both finish while the pass is paused at its yield, the pass
goes on and yields the later one first (four calls: a safe one running, an
exclusive one queued, an unknown one, a safe one queued; the results come as 1, 3,
4, 2). The run, with three calls, cannot show it; the theorem covers any
number. No built-in tool implements
`interruptBehavior` at present, so `SubmitInterrupt` is reached only by tools
from outside; the interface allows them and the model includes them.

## 4. EventUploader

An action is again a synchronous segment; `drain()` runs inside the segment of
its caller up to its first await, so it is the operator `DrainFrom` used by
`Enqueue`, `SendSucceeds`, `SendFails` and `SleepEnds`. Events are numbered in
the order of acceptance. What `takeBatch` does with a byte limit is
nondeterministic in the sizes, exact in which events it may drop or take.
`failureLimit` = 0 stands for an undefined `maxConsecutiveFailures`; without a
limit the count only sets the delay and is left out. Delays are not modelled:
a sleep ends, early if `close()` cuts it short.

**Runs.** `event_uploader`: three calls of one or two events, a buffer of two,
batches of two, one flush, `close()` at any point, no or some unserialisable
events, no limit or a limit of two failures; 156 thousand states. The buffer
fills, a batch is put back over a full buffer, a blocked caller loses the race
for room to a later one, and batches are given up. Checked: `NothingLost`,
`NoIdleBacklog`, `FlushMeansSent`, `Serial`, `ImplementsOutbox`, and under fairness
`FlushReturns` and `EnqueueReturns`. Deadlock is not checked: the queue rests
when its callers make no more calls. `event_uploader_closed` is the finding.

**Outbox.** `Outbox` says what callers may rely on, without retries, resolvers,
phases or delays: a line of events in order, extended within a capacity,
delivered from the front in batches, thinned by giving up, cut by `close()`.
`Lines` holds what the two and `TurnGuard` say about sequences: what is in one,
what is left of it (`Remainder`), and `Array.filter`. `ImplementsOutbox` maps the
line to what is in flight followed by what is
pending, and the capacity to `maxQueueSize + maxBatchSize`: a failed batch is
put back over a buffer that was refilled meanwhile, and that is all it can exceed.
A failure that puts the batch back, and the delay after it, are stutters. What
follows from the abstract specification (bound, order, one fate per event) is
proved about it, section 9.

**Fairness.** Continuations and timers run; a request ends; a request that is
retried for ever succeeds at last (strong fairness on `SendSucceeds`). The
liveness properties do not ask for more than that allows: an event that cannot
be serialised blocks a queue without byte limit and failure limit for ever, and
`Recoverable` excludes it.

**Finding.** A `flush()` made after `close()`, while a batch is in flight whose
post then fails, never returns: the batch is put back, and the finally block
resolves flush callers only if the buffer is empty. `enqueue()` callers, on the
other hand, are always released, also where `takeBatch` empties the buffer and
the loop skips the line that releases them: they then have room at once, or a
batch was in flight when they began to wait.

## 5. TaskList

Several agents, in one process or in many, share a directory with one file per
task. `updateTask` and `claimTask` lock the task's file, `createTask` and
`resetTaskList` lock the list; `deleteTask` locks nothing. A process of the model
is one chain of awaits with an agent of its own, and an action is one file-system
call. `writeFile` is two actions: it truncates the file (`torn`), then writes it;
`getTask` takes a torn file for a missing task. A listing is `readdir` and then
one read per file, in any order.

| Model | Code |
|---|---|
| `exists`, `torn`, `task` | the task files: there, empty for the moment, content |
| `mark`, `listLock`, `lock` | `.highwatermark`, the lock on `.lock`, the lock on a task's file |
| `proc[p]` | where a process stands in its operation and what it has read |
| `CreateTask` ... `FillNewTask` | `createTask`; its two reads happen in either order |
| `ClaimNextTask`, `Peek`, `TakeTaskLock`, `Reread`, `Listed`, `Read`, `Write`, `Fill` | `tryClaimNextTask`: `claimTask`, then `updateTask` to in_progress ("start") |
| `UpdateTask` | `TaskUpdateTool`, called by any agent for any task: "edit", "complete", "reopen", "resume" (in progress again), "take" (in progress, and mine), "assign" (a new owner), "delete" |
| `EndTurn` | the prompt about a claimed task is over, whatever became of the task |
| `BlockTask` | `blockTask`: two updates written from reads made before the locks |
| `ReadMark` ... `Unlink`, then op "cascade" | `deleteTask` |
| `ResetTaskList`, `Clear`, `ClearOne` | the hide timer of the task panel, and `resetTaskList` |
| `ApproveShutdown` | `handleShutdownApproval`: the agent leaves, though what it has begun goes on |
| `UnassignTeammateTasks` | what the leader does when an agent has died or is leaving, once for each (`retired`); `killPane` is not awaited |
| `Crash` | a process exits or is killed; its locks are stale from then on |

**Shutdown.** When an agent approves its shutdown, the leader has its pane killed
without waiting for that and unassigns its tasks at once, so the agent may still be
running. It then counts as working on nothing and claims nothing more, but its
updates, and new calls of its last turn, go on beside the unassignment.

**Runs.** `task_list`: two agents, up to three tasks, one death or shutdown, and one
of four sets of operations (`AllOps`): claims beside creations and resets; beside
status changes and unassignments; beside deletions, which take no lock, and new
dependencies, which are read before it is taken; and owners set without a claim.
Two agents suffice for every conflict over one lock; three ids allow a
task to be created after a reset and reset again. Checked: `IdsFresh`,
`OneWorker`, `WorkerIsOwner`, `NoLostUpdate` and `LocksInUse`. In particular a
death between two steps of a reset never makes an id come back;
`OneWorker` and `WorkerIsOwner` hold although an update may bring a deleted file
back and an unassignment works from an old listing; what an update is about to
write over is what it has read, although deletions and resets do not wait for the
task's lock; and whichever way an operation is left, it keeps no lock. That is a
safety property, so that the run needs no fairness and may use symmetry. Deadlock is not
checked: agents may stop calling.

**Consequences seen in the model, which no doc excludes.** A completion can be
undone: by the write of "in_progress" that follows a claim (`inProcessRunner.ts`
658), by an unassignment that listed the task before it was completed (`tasks.ts`
926-928), or by any agent that reopens the task. The lock makes each update whole, but
these write a status without looking at the one they have read. In the same way an
owner set through `TaskUpdate` takes a task whatever its state; a claim looks at
the owner, `TaskUpdate` does not. `OneWorker` and `WorkerIsOwner` are therefore about
claims alone: no set of operations of the run has both "claim" and "assign" or "take".

**Findings.** `task_list_blocked`: a blocker that is being rewritten counts as
resolved, so a task is claimed before the one it depends on is done.
`task_list_ids`: the id of a task deleted between the two reads of `createTask`
is given out again. With ids that come back a worker may also lose its task to
another, which is why the passing runs keep creation and deletion apart.

**Left out.** The claim with `checkAgentBusy` (only tests use it); a call of
`TaskUpdate` that changes the status and other fields at once, but for "take"; the release of a claim whose prompt was refused
(`useTaskListWatcher`); tags of subagents, which a team's list does not have;
`blocks`, the mirror of `blockedBy`. A live holder is taken to refresh its lock in
time: proper-lockfile takes over the lock of a process that stands still for too
long. The listings by which a task is picked or the list is found completed are
one step, as each is repeated or followed by a wait for the lock.

## 6. TurnGuard

A prompt becomes a turn through four pieces of code that share `QueryGuard`: a
submission, the queue processor, `runIncomingPrompt`, and the effect for an initial
message. A *run* is one such call with the `onQuery` it makes; several are alive
at once when a cancelled one has not come to its end. An action is what a run does
between two awaits of I/O.

| Model | Code |
|---|---|
| `status`, `generation` | `QueryGuard._status`, `_generation` |
| `queue`, `changed`, `seen` | the command queue; whether the effect of `useQueueProcessor` has to run again |
| `run[s]`, `controller` | a dispatch and its abort signal; the REPL's `abortController` |
| `Submit`, `EnqueueLater`, `IncomingPrompt`, `InitialMessage` | the ways in |
| `Render` | React renders, and the effect dispatches a batch |
| `NoMessages`, `Throws`, `Query`, `InitialQuery` | the ends of processing; `onQuery` starts the turn (`Started`) or is refused (`Refused`) |
| `Claimed` | `runIncomingPrompt` after its await: the reservation is still there, and the turn starts, or it was lost |
| `stripped` | prompts that were refused and lost what was more than text |
| `Snapshot`, `Consume` | the query loop attaches prompts that wait to a running turn |
| `TurnEnds`, `Finish` | the finally blocks of `onQuery` and of its callers |
| `Cancel`, `PopAllEditable` | Escape |

The Ink reconciler has no microtask support, so a render and its effects are a
macrotask of their own; between two keys the screen is up to date.

Prompts are of seven kinds: typed texts, texts with images, slash commands; autonomy
commands that are queued, and ticks that come through `runIncomingPrompt`, both
hidden from the user; messages of teammates, of the bridge and of the task watcher,
which come the same way; and initial messages.

**Runs.** `turn_guard`: three prompts, one of them typed and the others of any
kinds (28 mixes), three runs alive at once, two Escapes; 552 thousand states.
Three runs are needed for a
cancelled one, the one that holds the guard, and a third that meets both. Checked:
`GuardFollowsTurn`, `ReservationHeld`, `NothingLost`, `OnePlace`, and under
fairness `EveryPromptEnds`. `turn_guard_concurrent` is the finding. Deadlock is
not checked: the user may stop typing.

**Fairness.** Weak on rendering and on the next step of each run: awaits end, and
so does a turn (`ToolExecutor` shows it for its part). Escape is not fair.

**Finding.** A reservation has no generation. The finally block of a cancelled
dispatch releases the reservation of the one that followed it, and a third prompt
runs beside the second (`NoConcurrentRuns`).

**Consequences seen in the model, which no doc excludes.** While two dispatches
overlap, Escape aborts only the one that published its controller last. A run that
ends without messages clears the controller, whoever it belongs to. When a turn is
refused, only text is queued again: an image is lost, with the prompt if it has no
text, and so is what a slash command had expanded to (`stripped`; the model lets
either of them vanish or stay as a text). A prompt that is hidden from the user is
dropped then. `NothingLost` and `EveryPromptEnds` are about the prompts that are
not hidden, messages included, and name `stripped` among the fates. A message whose
reservation was lost is queued as it is; a tick is finalised as cancelled. The turn
that `runIncomingPrompt` starts with its reservation in hand is never refused: no
turn can run while the generation is still the one it saw (`Claims` in the proofs).

**Left out.** Details of autonomy claims on disk, slash commands that open a
panel, priority `now`, the auto-restore of a prompt cancelled before an answer,
the key that kills agents, task notifications, commands addressed to agents, and
initial messages given as a string, which take the way of `Submit`.

## 7. PermissionPrompts

A tool call that no rule decides opens a dialog. The keys, hooks, a remote
session, a chat channel and rules granted in other dialogs race to answer it;
whoever claims the request first tells the others. An action is one callback.

| Model | Code |
|---|---|
| `pc[r]` | how far `useCanUseTool` and the handlers are with request r; "done" is a resolved promise |
| `queue`, `screen` | `toolUseConfirmQueue`, and the dialog that is drawn |
| `prompt[r]`, `heard` | the prompt at the remote session; the entries of `channelPermissions` |
| `Ask`, `Checked`, `HookDecides`, `Automated` | rules, then hooks that are awaited first (coordinators) |
| `OpenDialog`, `Open` | the hop `await handleSwarmWorkerPermission` is over; `handleInteractivePermission` |
| `Key`, `Cancel` | the dialog's buttons and Escape, which answer the request that is drawn, the latter the head of the queue |
| `RemoteReplies`, `BridgeResponse`, `ChannelResponse`, `HookEnds`, `RemoteMode` | the other racers |
| `RecheckQueue`, `RecheckEnds` | what a new rule does to the dialogs that wait |
| `SiblingFails` | a failed Bash call aborts its siblings |

React applies updates of the queue at once and draws later, in one batch for all
keys of a chunk of input; a key may therefore be meant for a dialog that has been
answered already (`Render` is an action of its own). Every request matches the
rule that is granted. A session has one set of racers, chosen at the start.

**Runs.** `permission_prompts`: three requests, and three sets of racers: hooks, a
remote session and a channel at once; a coordinator's hooks with a remote
session; none. Three requests are needed for a stale head, the dialog behind it that
a key hits instead, and one more that is swept. Checked: `DialogIsFloor`,
`RemotesFollow`, and under fairness `GrantReachesQueue`
and `EveryRequestEnds`. Deadlock is not checked: calls may stop asking.
`permission_prompts_stale`, with two requests and no racers, is the finding.

**Finding.** The signal is looked at after the automated checks (`useCanUseTool.tsx`
179), and then `await handleSwarmWorkerPermission` (183) lets other chains of awaits
run before the dialog is pushed (256). A sibling that fails in this hop, or Escape,
aborts the call, and a dialog opens for it all the same (`NoDialogAfterAbort`). Phase
"opening" is this hop. The dialog goes away when it is answered or swept; a
request whose dialog was swept ends with the executor's abort.

**Fairness.** Checks, hooks that are awaited, rechecks and rendering are weakly
fair. That the user answers is never assumed of the system: it is a premise of
`EveryRequestEnds` (`UserAnswers`).

**Consequences seen in the model, which no run asks for.** Escape resolves the
first request and sweeps the others away; their promises stay open until the
executor's abort ends their calls, although `handleInteractivePermission` says that
its callbacks eventually call `resolve()`. A late key removes the dialog of
another request. An Escape that meets a head already answered leaves the turn
un-aborted. A hook that loses the race has already saved its rules or executed
its interrupt. A request that was checked before a rule was granted and pushed
after the recheck keeps asking.

**Left out.** The bash classifier (a stub in this build:
`isClassifierPermissionsEnabled` is false) and what depends on it, requests that
a teammate forwards to its leader, `forceDecision`, prompts of the sandbox.

## 8. Mailbox

An agent's inbox is a JSON file. Writers create it if need be, lock it, read it
again, append, compact and rename a new file into place. The reader polls without
a lock, handles what is unread, and marks it as read later, under the lock.

| Model | Code |
|---|---|
| `made`, `file`, `read` | the file: created, filled; its messages and their `read` flags |
| `lock`, `copy[p]`, `seen[p]` | `lockfile.lock`, and what its holder has read |
| `Create`, `FillNew`, `LockToWrite`, `Write`, `SendFails` | `writeToMailbox` |
| `Lane`, `Kept`, `WriteMailbox` | `tryKeep` over one lane, `compactMailboxMessages`, `writeCompactedMailbox` |
| `Poll`, `Process` | `poll` of `useInboxPoller`; the loop of `inProcessRunner` |
| `LockToMark`, `Mark`, `MarkFails` | `markMessagesAsReadBySnapshot`, `markMessageAsReadByIdentity` |
| `pending`, `DeliverPending` | `AppState.inbox`, and the effect of an idle session |
| `Take` | the teammate's loop starts a turn with the message it marked |
| `CrashSender`, `CrashSession` | a process dies; its lock is stale and taken over |

Messages are numbered in the order in which their senders set out, which any
naming of them can be turned into. `Loads` says what they may be: which are protocol
messages to the compaction (any JSON with a type), which of them the poller has a
handler for (`routed`; idle notifications, unknown types and approved shutdowns are
passed on like texts), and how many bytes each takes in the file (`size`). The three
lanes of a compaction share `MaxBytes`: unread protocol messages are kept first, then
other unread ones, then read ones, each lane from the newest on; a message that does
not fit is passed over, and smaller older ones may still be kept. The creation of a file that is there already does nothing and is left
out. A release follows the write at once: between the two others can only wait.

**Run.** `mailbox`: three messages from three senders, two polls under way at once
(the poller does not wait for the marking of the last one), limits of two
messages, one read message, one protocol message and three bytes, one death; both
kinds of reader; 236 thousand states. There are three loads: three small texts, which the limit on
messages evicts from; two protocol messages, one routed and one passed on, which
their own limit evicts from; and a small text, a protocol message and a large
text, which do not fit together though no count is exceeded. One message can be
appended between a poll and its marking while another is compacted away. Checked:
`NothingLost`, `EvictsForRoom`, and under fairness `EveryMessageArrives`. Deadlock
is not checked: agents may stop sending.

**Fairness.** File-system calls return, polls are repeated, effects run and turns
end. Nothing is assumed of senders that have not obtained the lock: they may fail,
and are told. Deaths and the user's turns are not fair.

**What holds and what does not.** A message whose sender was told that it is sent
is lost in two ways only. Compaction had no room for it, by number or by bytes (the
code logs that); `EvictsForRoom` says that then its limit is reached by unread
messages of its kind, or unread ones that have precedence leave too few bytes: what
has been read, and for a protocol message any text, pushes nothing out. Or the message had
been marked as read and the session died before it handed it to a turn. Messages may
arrive twice: marking can fail, and polls overlap. No doc promises that they arrive
once. A routed message counts as delivered when its handler gets it; the handler may
drop it (a permission request in a session that has no queue for it,
`useInboxPoller.ts` 512-516) or show it later. That every message arrives presumes
that turns end and blocking dialogs are closed.

**Left out.** `clearMailbox` (no lock), marking by index or predicate, the
limits on one text and on the file as a whole, the byte by which a message shrinks
when it is marked, the copy of the poller in `cli/print`, attachments in the middle of a turn
(only where `USER_TYPE` is `ant`), what each protocol message does. Messages differ: with
exact duplicates, an overlapping poll may mark one that nobody has seen. A sender
that dies between the creation of the file and its first content leaves a file
that does not parse; all later sends fail (`made` = "empty").

## 9. Proofs

Every safety property of the passing runs is a theorem for every value of the
constants, and so is the refinement of `Outbox`. The only assumptions are the named ones on the
constants, plus two hypotheses for `TaskList`, below.

**`ToolExecutorProofs`**: any number of calls, any bound on progress, any set of
kinds in which unknown tools are safe. `StartOrder` is not inductive: a scan resumed
in the middle of the array starts the first queued call it finds *from its index
on*, which would be out of order if a queued call stood before it. So the invariant
is built in layers, each kept by a step from a state in which it and the layers
before it hold.

- `IInv`: the types, `Exclusive`, `StartOrder`, and `NothingBehind`: no queued call
  stands before the index of any suspended scan (a scan passes over a safe call only
  when it can start none at all, because an exclusive one runs). `NoneAfter`: tools
  beyond `n` have status "none", so that a new one does not stand before such an
  index. The parts are stated over an arbitrary status function, because `Receive`
  scans the array it has just extended. `ScanKeeps` is the lemma about one segment.
- `TInv`, about each call: its answer, whether it was launched, that unknown tools
  are neither queued nor running and have no progress, and that the flag the REPL
  sees (`interruptible`) never lags behind the executing tools; the last gives
  `InterruptSparesBlockTools`. `FinishAnswersOnce` is the heart of `OneAnswer`.
- `LInv`, about the query loop: what lets it go on is queued at most once, and only
  while it awaits it (`Awaits`); nothing is left when it is done; it sleeps on no
  progress.
- `EInv`, about the results: yielded and emitted are the same, each once; a pass
  leaves an exclusive call behind it only to yield an unknown one (`Skipped`); what
  has overtaken a call whose result is still to come is excused already
  (`Overtaking`), which is what makes `ExclusiveToolsInOrder` inductive; and a result
  stays on display only until the consumer goes on (`Shown`). `PassedOver` is the
  lemma about the pass.

`NothingLaunchedAfterFailure`, an action property, follows from `ScanStartsOne`.

**`LineProofs`**: facts about sequences. `Pigeons` is the pigeonhole principle for a
strictly increasing function. What `Filter` returns (`FilterIs`) is proved by
induction over the positions with `UpTo`, a form of induction about a *set* of
numbers, so that no operator is a parameter; it rests on the well-foundedness of the
subsets of a finite set. The rest is about concatenation, splitting, what remains,
and lines in which nothing stands twice (`Distinct`).

**`OutboxProofs`**: any natural capacity and batch size. What is owed is bounded
(`AlwaysBounded`), in the order of acceptance with each event once (`AlwaysSorted`),
and no event has two fates (`AlwaysOneFate`). The three go into one invariant: the
line is ascending, within the capacity, disjoint from what is settled, and all
numbers are of accepted events. There is one lemma per action.

**`EventUploaderProofs`**: `IInv` is the types, the run's three invariants
(`NothingLost`, `NoIdleBacklog`, `FlushMeansSent`), and what they need: that what
is in flight followed by what is pending is one ascending line (`Ordered`), that a
batch has its size (`BatchFits`), and that one is in flight exactly in phase
"sending" (`Sending`). `DrainFromIs` says once what `drain()` leaves when some events
have just been given up (`Drained`); `DrainKeeps` and the lemmas per action use only
that. `Serial`, an action property, follows with `FirstSends`. `UploaderIsOutbox`
proves the refinement step by step: an attempt to enqueue accepts or stutters,
`SendSucceeds` delivers and may give up what cannot be serialised, `SendFails` gives
up or stutters, `SleepEnds` gives up what `takeBatch` skips, `Close` closes, and
`Flush` stutters. The theorems of `Outbox` are then carried over by
`INSTANCE OutboxProofs`.

**`TaskListProofs`** (any agents, ids, deaths, operations and first lists): `Typed`
adds to the types where each operation can stand and what it is about (`Places`), and
`Locks` that a live process holds a lock exactly between taking and releasing it;
hence `LocksInUse`. The lemmas named `...Is` say what a step does, and are all that
the later layers need to know of it.
Its second part is about ids, `IdsFresh`. `Known`: an id that a file, a process or a listing
mentions was given. `Fresh`: every given id is covered by the high-water mark, by a
higher file, or by what the holder of the list's lock has read so far; this is what
survives a death at any step of a reset.
Its third part is about updates and claims: `NoLostUpdate`, `OneWorker`,
`WorkerIsOwner`. `NoLostUpdate` rests on `NewUntouched` (nobody is at a task whose
file is being created, so that only a holder of the task's lock writes to it) and
`Steady` (what was read under a lock is what the file says until its reader truncates
it, and while it is truncated nobody else can read it). The claims need more: updates are
written from earlier reads, so the invariant speaks of every *version* of a task: its
file, and the copies that updates hold and will write back (`Claims`). All agree with
whoever works on the task, claims it, or takes it from an agent that is gone. It also
needs `Retire` (the tasks of an agent that is gone are unassigned by one process,
once) and the premise `Unowned`: no set of operations has both "claim" and "assign" or
"take". `OwnerOps` of the run shows that the other properties do without it.

The second and the third part assume `Apart`: no set of operations of the run contains both
"create" and "delete". The constants of `task_list` satisfy it, and
`task_list_ids` shows that it cannot be dropped: with both, an id comes back.

**`TurnGuardProofs`**: any prompts, any number of runs alive at once and of Escapes.
`GuardFollowsTurn` needs `Generations`: no run has a generation above the guard's and
no two turns have the same one, so that a finally block that compares its own with
the guard's cannot take another turn for its own. `ReservationHeld` needs `Claims`: no
turn runs while a claim still has the generation it saw, so that a claim in
possession of its reservation is never refused. A run that leaves otherwise either
releases the guard in that step or goes to `finishing`, where it still counts among
those that will. `OneRunKeeps` reduces a step of one run to what it does to the
guard (`Aside`, `Enters`, `Stays`, `Leaves`); then there is one lemma per action.
A second invariant is about the prompts. `TypeOK` needs `Driven`: the published
controller, if it is a run's, is that of a run past its claim. `NothingLost` and
`OnePlace` are proved together (`Placed`): no prompt stands twice in the queue, nor
in the queue and a batch, nor in two batches. `Moves` says what a step may do with
prompts, those of the queue, of one run and new ones; `MovesKeep` proves of that
alone that it keeps the invariant, and each action is shown to be such a move;
`AgainPlaces` does so for what a refusal, or a lost reservation, queues again.

**`PermissionPromptsProofs`**: any finite set of requests (those of one turn) and any
sets of racers. `DialogIsFloor` needs that no dialog is queued twice, and `Drawn`: the
dialog on the screen belongs to a request that has been opened, and is the first of
the queue for as long as that request is unanswered. This is why a key that answers
it removes its own dialog although `onDone` removes whatever comes first, and why a
late key counts as a sweep. `RemotesFollow` needs `Unasked`: a request that is still
being checked has asked nobody. Answers differ only in who gives them, so what an
answer does to the queue and to the other sides is proved once (`DialogLeaves`,
`RemotesDismissed`, `Wins`).

**`MailboxProofs`**: any number of messages, overlapping polls and deaths, and any
limits. Whoever holds the lock works on a copy, so the invariant says that the copy is
what the file still says (`Locked`), that what is in the file was sent and is in it
once (`Stored`), and that a poll marks only what the session has queued or delivered
before (`Handled`); `NothingLost` joins it, as a marking keeps it only if what it
marks is held elsewhere. `WriteIs` says what a compacting write leaves. `LaneIs` says
of one lane that what it does not keep was refused: the limit in number was reached,
or the message did not fit beside what was kept by then; as both only grow
(`BytesGrow`), this still holds of what is kept in the end. `EvictsForRoom`, an action property, follows. `Bytes` and
`Lane` are recursive functions over positions; that such a function exists and has its
values step by step is `Iterates` of `LineProofs`.

**Only model-checked:** liveness (`TurnEnds`, `FlushReturns`, `EnqueueReturns`,
`EveryPromptEnds`, `GrantReachesQueue`, `EveryRequestEnds`, `EveryMessageArrives`),
which TLAPS does not prove under fairness. Every other property of the passing runs
is a theorem.

## 10. Bounds

`MaxTools` and `MaxProgress` bound the calls of a turn and the progress of one
call; `Calls`, `MaxItems` and `Flushes` bound what callers of the uploader do.
`MaxId` and `MaxExits` bound the tasks of `TaskList` and its agents that die or shut
down, `OpSets` and `Lists` choose the operations and the first contents of a run. `MaxRuns`,
`MaxCancels` and `Mixes` bound the runs alive at once, the Escapes and the kinds
of prompts of `TurnGuard`; `Request` and `Setups` the requests and the racers of
`PermissionPrompts`; `MaxSent`, `MaxPolls` and `MaxCrashes` the messages, polls and
deaths of `Mailbox`, and `Loads` what its messages are; its other constants are the
program's own limits, made small. Nothing else is bounded.

The histories (`launched`, `emitted`, `sent`, `acked`, `dropped`, `mark` of the
uploader, `done` and `given` of the task list, `served`, `failed` and `restored`
of the turn guard, `swept` of the prompts, `delivered`, `evicted` and `fallen` of
the mailbox) record what happened for the properties. No guard reads them, with
one exception: `launched` also tells whether the body of a running call was
entered. `leaving` and `retired` of the task list and `stripped` of the turn guard
are no histories: an agent that leaves claims nothing more and is unassigned
once, and what is left of a refused slash command is a text.
