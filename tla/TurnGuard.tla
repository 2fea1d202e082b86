------------------------------ MODULE TurnGuard ------------------------------
(***************************************************************************)
(* How the REPL turns prompts into turns, one at a time: QueryGuard, the   *)
(* command queue and its processor, executeUserInput, onQuery, Escape.     *)
(*                                                                         *)
(* A run stands for one call of executeUserInput, of runIncomingPrompt or  *)
(* of the REPL's effect for an initial message, with the call of onQuery   *)
(* it makes; an action is what it does between two awaits of I/O.  React   *)
(* renders in a macrotask of its own, with its effects (Render); a key     *)
(* press finds the screen up to date.                                      *)
(***************************************************************************)
EXTENDS Lines, FiniteSets

CONSTANTS
  Prompt,      \* prompts
  MaxRuns,     \* bound: runs alive at once
  MaxCancels,  \* bound: Escapes that cancel
  Mixes        \* kinds of the prompts: functions from Prompt to Kind

(* "text": becomes a user message; "image": one that carries images too;   *)
(* "slash": a slash command, local or expanded to a message; "auto": an    *)
(* autonomy command, hidden from the user, that is claimed and finalised   *)
(* on disk; "tick": one that comes through runIncomingPrompt; "message":   *)
(* what a teammate, the bridge or the task watcher sends that way;         *)
(* "initial": the message that starts the session or an approved plan.     *)
Kind   == {"text", "image", "slash", "auto", "tick", "message", "initial"}
Hidden == {"auto", "tick"}

ASSUME TurnGuardAssumption ==
  /\ MaxRuns \in Nat \ {0} /\ MaxCancels \in Nat
  /\ Mixes \subseteq [Prompt -> Kind]

Run == 1 .. MaxRuns
None == 0              \* no controller
Old  == MaxRuns + 1    \* the controller of a run that is over

VARIABLES
  kind,        \* kind of each prompt; chosen at the start
  new,         \* prompts still to be entered
  status,      \* QueryGuard._status
  generation,  \* QueryGuard._generation
  queue,       \* the command queue
  run,         \* the runs, see Local
  controller,  \* the REPL's abortController: that of a run, None or Old
  changed,     \* the queue has changed since the queue processor's effect
  seen,        \* the value of isActive at that effect
  cancels,     \* Escapes that cancelled so far
  served,      \* history: prompts given to a turn, or handled without one
  failed,      \* history: prompts whose processing threw
  restored,    \* history: prompts taken back into the input box
  stripped     \* prompts that were refused and lost all but their text

vars == <<kind, new, status, generation, queue, run, controller, changed, seen,
          cancels, served, failed, restored, stripped>>

Phase == {"free", "processing", "claiming", "initial", "turn", "draining", "finishing"}

Local == [pc      : Phase,
          batch   : Seq(Prompt),     \* the prompts it was called with
          aborted : BOOLEAN,         \* its controller's signal
          gen     : Nat,             \* the generation it got
          direct  : BOOLEAN,         \* onQuery is called without a finally block around
          snap    : SUBSET Prompt]   \* queued prompts it is about to attach

Free == [pc |-> "free", batch |-> <<>>, aborted |-> FALSE, gen |-> 0,
         direct |-> FALSE, snap |-> {}]

TypeOK ==
  /\ kind \in Mixes
  /\ new \subseteq Prompt
  /\ status \in {"idle", "dispatching", "running"} /\ generation \in Nat
  /\ queue \in Seq(Prompt)
  /\ run \in [Run -> Local]
  /\ controller \in Run \cup {None, Old}
  /\ (controller \in Run => run[controller].pc # "free")
  /\ changed \in BOOLEAN /\ seen \in BOOLEAN
  /\ cancels \in 0 .. MaxCancels
  /\ served \subseteq Prompt /\ failed \subseteq Prompt /\ restored \subseteq Prompt
  /\ stripped \subseteq Prompt

Init ==
  /\ kind \in Mixes /\ new = Prompt
  /\ status = "idle" /\ generation = 0 /\ queue = <<>>
  /\ run = [s \in Run |-> Free] /\ controller = None
  /\ changed = FALSE /\ seen = FALSE /\ cancels = 0
  /\ served = {} /\ failed = {} /\ restored = {} /\ stripped = {}

-----------------------------------------------------------------------------
(* QueryGuard.                                                             *)

Reserve           == status' = IF status = "idle" THEN "dispatching" ELSE status
CancelReservation == status' = IF status = "dispatching" THEN "idle" ELSE status
ForceEnd ==
  /\ status' = "idle"
  /\ generation' = IF status = "idle" THEN generation ELSE generation + 1

IsOwn(s) == run[s].gen = generation /\ status = "running"

-----------------------------------------------------------------------------
Kinds(s) == {kind[p] : p \in Elements(run[s].batch)}

(* A slash command; what is left of one that was refused is a text.        *)
Slash(p) == kind[p] = "slash" /\ p \notin stripped

Begin(s, record) ==
  /\ run[s].pc = "free" /\ \A t \in Run : t < s => run[t].pc # "free"
  /\ run' = [run EXCEPT ![s] = record]

(* Runs that claimed autonomy commands still have to finalise them.        *)
Leave(s) ==
  run' = [run EXCEPT ![s] = IF Kinds(s) \cap Hidden = {} THEN Free
                            ELSE [Free EXCEPT !.pc = "finishing", !.aborted = run[s].aborted]]

(* Fault: the controller of a run that is over passes for that of the next.*)
ForgetNothing(s) == controller' = controller

(* A controller outlives its run.                                          *)
Forget(s) == controller' = IF controller = s /\ run'[s].pc = "free" THEN Old ELSE controller

(* executeUserInput up to its first await.                                 *)
ExecuteUserInput(s, batch) ==
  /\ Begin(s, [Free EXCEPT !.pc = "processing", !.batch = batch])
  /\ controller' = s
  /\ Reserve

(* handlePromptSubmit: at once, or through the queue.  A prompt may        *)
(* interrupt the turn when all its tools allow that.                       *)
Submit(p) ==
  /\ p \in new /\ kind[p] \in {"text", "image", "slash"}
  /\ new' = new \ {p}
  /\ \/ /\ status = "idle"
        /\ \E s \in Run : ExecuteUserInput(s, <<p>>)
        /\ UNCHANGED queue
     \/ /\ status # "idle"
        /\ queue' = Append(queue, p)
        /\ \/ UNCHANGED run
           \/ /\ controller \in Run /\ run[controller].pc \in {"turn", "draining"}
              /\ run' = [run EXCEPT ![controller].aborted = TRUE]
        /\ UNCHANGED <<status, controller>>
  /\ UNCHANGED <<generation, cancels, served, failed, restored, stripped>>

(* An autonomy command is queued, with priority `later`.                   *)
EnqueueLater(p) ==
  /\ p \in new /\ kind[p] = "auto"
  /\ new' = new \ {p}
  /\ queue' = Append(queue, p)
  /\ UNCHANGED <<status, generation, run, controller, cancels, served, failed, restored, stripped>>

(* runIncomingPrompt: refused while the guard is active or prompts wait.   *)
IncomingPrompt(p) ==
  /\ p \in new /\ kind[p] \in {"tick", "message"}
  /\ status = "idle" /\ queue = <<>>
  /\ new' = new \ {p}
  /\ Reserve
  /\ \E s \in Run :
       Begin(s, [Free EXCEPT !.pc = "claiming", !.batch = <<p>>, !.gen = generation])
  /\ UNCHANGED <<generation, queue, controller, cancels, served, failed, restored, stripped>>

(* The effect for an initial message starts when nothing is loading, and   *)
(* has to await, without a reservation, before it calls onQuery.           *)
InitialMessage(p) ==
  /\ p \in new /\ kind[p] = "initial"
  /\ status = "idle"
  /\ new' = new \ {p}
  /\ \E s \in Run : Begin(s, [Free EXCEPT !.pc = "initial", !.batch = <<p>>, !.direct = TRUE])
  /\ UNCHANGED <<status, generation, queue, controller, cancels, served, failed, restored, stripped>>

-----------------------------------------------------------------------------
(* React renders and runs the effect of useQueueProcessor if isActive or   *)
(* the queue has changed.  A slash command goes alone, the others go       *)
(* together; autonomy commands have the lowest priority.                   *)
Batch ==
  LET users == Filter(queue, {p \in Prompt : kind[p] # "auto"})
      next  == IF users # <<>> THEN Head(users) ELSE Head(queue)
  IN IF Slash(next) THEN <<next>>
     ELSE Filter(queue, {p \in Prompt : ~Slash(p)})

Without(s, set) == Filter(s, Prompt \ set)

(* Fault: the effect does not depend on the queue.                         *)
RenderOnGuard ==
  /\ seen # (status # "idle")
  /\ seen' = (status # "idle")
  /\ \/ /\ status = "idle" /\ queue # <<>>
        /\ \E s \in Run : ExecuteUserInput(s, Batch)
        /\ queue' = Without(queue, Elements(Batch))
        /\ changed' = TRUE
     \/ /\ status # "idle" \/ queue = <<>>
        /\ changed' = FALSE
        /\ UNCHANGED <<queue, run, controller, status>>
  /\ UNCHANGED <<kind, new, generation, cancels, served, failed, restored, stripped>>

(* Fault: the batch is copied from the queue, not taken off it.            *)
RenderPeeking ==
  /\ changed \/ seen # (status # "idle")
  /\ seen' = (status # "idle")
  /\ changed' = FALSE
  /\ \/ /\ status = "idle" /\ queue # <<>>
        /\ \E s \in Run : ExecuteUserInput(s, Batch)
     \/ /\ status # "idle" \/ queue = <<>>
        /\ UNCHANGED <<run, controller, status>>
  /\ UNCHANGED <<kind, new, generation, queue, cancels, served, failed, restored, stripped>>

Render ==
  /\ changed \/ seen # (status # "idle")
  /\ seen' = (status # "idle")
  /\ \/ /\ status = "idle" /\ queue # <<>>
        /\ \E s \in Run : ExecuteUserInput(s, Batch)
        /\ queue' = Without(queue, Elements(Batch))
        /\ changed' = TRUE
     \/ /\ status # "idle" \/ queue = <<>>
        /\ changed' = FALSE
        /\ UNCHANGED <<queue, run, controller, status>>
  /\ UNCHANGED <<kind, new, generation, cancels, served, failed, restored, stripped>>

-----------------------------------------------------------------------------
(* The rest of executeUserInput.                                           *)

(* No message to send: a local slash command, or autonomy commands that    *)
(* were consumed elsewhere.                                                *)
NoMessages(s) ==
  /\ run[s].pc = "processing"
  /\ Kinds(s) = {"auto"} \/ \A p \in Elements(run[s].batch) : Slash(p)
  /\ served' = served \cup Elements(run[s].batch)
  /\ run' = [run EXCEPT ![s] = Free]
  /\ controller' = None
  /\ CancelReservation
  /\ UNCHANGED <<new, generation, queue, cancels, failed, restored, stripped>>

(* Fault: the finally block does not release the reservation.              *)
ThrowsReserved(s) ==
  /\ run[s].pc = "processing"
  /\ failed' = failed \cup Elements(run[s].batch)
  /\ Leave(s) /\ Forget(s)
  /\ UNCHANGED <<new, status, generation, queue, cancels, served, restored, stripped>>

Throws(s) ==
  /\ run[s].pc = "processing"
  /\ failed' = failed \cup Elements(run[s].batch)
  /\ Leave(s) /\ Forget(s)
  /\ IF run'[s].pc = "free" THEN CancelReservation ELSE UNCHANGED status
  /\ UNCHANGED <<new, generation, queue, cancels, served, restored, stripped>>

(* onQuery, refused because a turn runs.  What is hidden from the user is  *)
(* not queued again; of the rest the text is, if there is any: images and  *)
(* what a slash command expands to are lost.                               *)
Refused(s) ==
  LET batch == Elements(run[s].batch)
      rich  == {p \in batch : kind[p] = "image" \/ Slash(p)}
  IN /\ status = "running"
     /\ \E textless \in SUBSET rich :
          queue' = queue \o Filter(run[s].batch,
                                  {p \in Prompt : kind[p] \notin Hidden} \ textless)
     /\ stripped' = stripped \cup rich
     /\ Leave(s)
     /\ UNCHANGED <<status, generation, served>>

(* No turn runs: this one starts.                                          *)
Started(s) ==
  /\ status # "running"
  /\ status' = "running" /\ generation' = generation + 1
  /\ served' = served \cup Elements(run[s].batch)
  /\ run' = [run EXCEPT ![s].pc = "turn", ![s].gen = generation + 1]
  /\ UNCHANGED <<queue, stripped>>

OnQuery(s) == Refused(s) \/ Started(s)

Query(s) ==
  /\ run[s].pc = "processing"
  /\ OnQuery(s) /\ Forget(s)
  /\ UNCHANGED <<new, cancels, failed, restored>>

(* runIncomingPrompt once the claim is made: an autonomy run was consumed  *)
(* elsewhere; or the reservation was lost, and an autonomy run is to be    *)
(* finalised as cancelled, a message queued as it is; or the turn starts   *)
(* (a turn that had started since would have given a new generation).      *)
Claimed(s) ==
  /\ run[s].pc = "claiming"
  /\ \/ /\ Kinds(s) = {"tick"}
        /\ run' = [run EXCEPT ![s] = Free]
        /\ CancelReservation
        /\ UNCHANGED <<generation, queue, controller, served, stripped>>
     \/ /\ run[s].gen # generation
        /\ queue' = queue \o Filter(run[s].batch, {p \in Prompt : kind[p] = "message"})
        /\ Leave(s)
        /\ IF run'[s].pc = "free" THEN CancelReservation ELSE UNCHANGED status
        /\ UNCHANGED <<generation, controller, served, stripped>>
     \/ /\ run[s].gen = generation
        /\ controller' = s
        /\ Started(s)
  /\ UNCHANGED <<new, cancels, failed, restored>>

InitialQuery(s) ==
  /\ run[s].pc = "initial"
  /\ OnQuery(s)
  /\ controller' = IF run'[s].pc = "free" THEN Old ELSE s
  /\ UNCHANGED <<new, cancels, failed, restored>>

(* After a round of tools the query loop attaches the prompts that wait,   *)
(* but looks at the abort signal before it takes them off the queue.       *)
Snapshot(s) ==
  LET waiting == {p \in Elements(queue) : kind[p] # "auto" /\ ~Slash(p)} IN
  /\ run[s].pc = "turn" /\ ~run[s].aborted /\ waiting # {}
  /\ run' = [run EXCEPT ![s].pc = "draining", ![s].snap = waiting]
  /\ UNCHANGED <<new, status, generation, queue, controller, cancels, served, failed, restored, stripped>>

(* Fault: the prompts are taken although the turn was cancelled.           *)
ConsumeAborted(s) ==
  /\ run[s].pc = "draining"
  /\ run' = [run EXCEPT ![s].pc = "turn", ![s].snap = {}]
  /\ queue' = Without(queue, run[s].snap)
  /\ served' = IF run[s].aborted THEN served ELSE served \cup run[s].snap
  /\ UNCHANGED <<new, status, generation, controller, cancels, failed, restored, stripped>>

Consume(s) ==
  /\ run[s].pc = "draining"
  /\ run' = [run EXCEPT ![s].pc = "turn", ![s].snap = {}]
  /\ \/ /\ run[s].aborted
        /\ UNCHANGED <<queue, served>>
     \/ /\ ~run[s].aborted
        /\ queue' = Without(queue, run[s].snap)
        /\ served' = served \cup run[s].snap
  /\ UNCHANGED <<new, status, generation, controller, cancels, failed, restored, stripped>>

(* Fault: any turn that ends makes the guard idle.                         *)
EndsForAll(s) ==
  /\ run[s].pc = "turn"
  /\ Leave(s)
  /\ status' = "idle" /\ controller' = None
  /\ UNCHANGED <<new, generation, queue, cancels, served, failed, restored, stripped>>

(* The turn's finally block, and, if nothing has to be finalised first,    *)
(* that of executeUserInput; the effect for an initial message has none.   *)
TurnEnds(s) ==
  /\ run[s].pc = "turn"
  /\ Leave(s)
  /\ \/ /\ IsOwn(s)
        /\ status' = "idle" /\ controller' = None
     \/ /\ ~IsOwn(s)
        /\ IF run'[s].pc = "free" /\ ~run[s].direct THEN CancelReservation
                                                   ELSE UNCHANGED status
        /\ Forget(s)
  /\ UNCHANGED <<new, generation, queue, cancels, served, failed, restored, stripped>>

Finish(s) ==
  /\ run[s].pc = "finishing"
  /\ run' = [run EXCEPT ![s] = Free]
  /\ CancelReservation
  /\ Forget(s)
  /\ UNCHANGED <<new, generation, queue, cancels, served, failed, restored, stripped>>

-----------------------------------------------------------------------------
(* Escape cancels what the controller belongs to, if it is not aborted     *)
(* yet; otherwise it takes back the prompts that wait.                     *)
UpToDate   == ~changed /\ seen = (status # "idle")
Cancelable == controller = Old \/ (controller \in Run /\ ~run[controller].aborted)

Cancel ==
  /\ UpToDate /\ Cancelable
  /\ cancels < MaxCancels /\ cancels' = cancels + 1
  /\ ForceEnd
  /\ run' = [s \in Run |-> IF s = controller THEN [run[s] EXCEPT !.aborted = TRUE] ELSE run[s]]
  /\ controller' = None
  /\ UNCHANGED <<new, queue, served, failed, restored, stripped>>

PopAllEditable ==
  LET editable == {p \in Elements(queue) : kind[p] # "auto"} IN
  /\ UpToDate /\ ~Cancelable /\ editable # {}
  /\ queue' = Without(queue, editable)
  /\ restored' = restored \cup editable
  /\ UNCHANGED <<new, status, generation, run, controller, cancels, served, failed,
                 stripped>>

-----------------------------------------------------------------------------
Enter(p) == Submit(p) \/ EnqueueLater(p) \/ IncomingPrompt(p) \/ InitialMessage(p)

Continue(s) ==
  \/ NoMessages(s) \/ Throws(s) \/ Query(s) \/ Claimed(s) \/ InitialQuery(s)
  \/ Snapshot(s) \/ Consume(s) \/ TurnEnds(s) \/ Finish(s)

(* Subscribers of the queue and of the guard are told of every change.     *)
Notify == changed' = (changed \/ queue' # queue) /\ UNCHANGED <<kind, seen>>

Next ==
  \/ Render
  \/ \E p \in Prompt : Enter(p) /\ Notify
  \/ \E s \in Run : Continue(s) /\ Notify
  \/ (Cancel \/ PopAllEditable) /\ Notify

(* React renders, every await ends, and so does every turn.                *)
Fairness ==
  /\ WF_vars(Render)
  /\ \A s \in Run : WF_vars(Continue(s) /\ Notify)

Spec == Init /\ [][Next]_vars /\ Fairness

-----------------------------------------------------------------------------
InTurn(s) == run[s].pc \in {"turn", "draining"}

(* The guard is running exactly while the turn it was given to last is in  *)
(* its body: no finally block of a cancelled turn ends another, and no     *)
(* turn leaves the guard behind.                                           *)
GuardFollowsTurn ==
  status = "running" <=> \E s \in Run : InTurn(s) /\ run[s].gen = generation

(* A reservation is never left behind: somebody is on the way to onQuery   *)
(* or to the finally block that releases it.                               *)
ReservationHeld ==
  status = "dispatching" => \E s \in Run : run[s].pc \in {"processing", "claiming", "finishing"}

Held(s) ==
  IF run[s].pc \in {"processing", "claiming", "initial"} THEN Elements(run[s].batch) ELSE {}

OfUser(p) == p \notin new /\ kind[p] \notin Hidden

(* What the user or a teammate enters is queued, on its way, served, back  *)
(* in the input box, or reported as an error, however runs are cancelled   *)
(* and refused; but what is more than a text is lost when it is refused.   *)
NothingLost ==
  \A p \in Prompt : OfUser(p) =>
    \/ p \in Elements(queue) \cup served \cup failed \cup restored \cup stripped
    \/ \E s \in Run : p \in Held(s)

(* A prompt that waits is in one place only: it is not queued twice, nor   *)
(* dispatched while it is queued.                                          *)
OnePlace ==
  \A p \in Prompt :
    Cardinality({i \in 1 .. Len(queue) : queue[i] = p})
      + Cardinality({s \in Run : p \in Held(s)}) <= 1

(* The queue is never stuck: every prompt of the user is served, fails, is *)
(* taken back, or was more than a text and refused.                        *)
EveryPromptEnds ==
  \A p \in Prompt : OfUser(p) ~> p \in served \cup failed \cup restored \cup stripped

(* "queryGuard guarantees no concurrent executeUserInput call": no two     *)
(* runs that nobody has cancelled are dispatched or in a turn.             *)
NoConcurrentRuns ==
  Cardinality({s \in Run : (InTurn(s) \/ run[s].pc = "processing") /\ ~run[s].aborted}) <= 1
=============================================================================
