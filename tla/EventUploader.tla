---------------------------- MODULE EventUploader ----------------------------
(***************************************************************************)
(* SerialBatchEventUploader (src/src/cli/transports/                       *)
(* SerialBatchEventUploader.ts): the queue between a session and the       *)
(* server that stores its events.                                          *)
(*                                                                         *)
(* An action is one synchronous segment; drain() runs inside the segment   *)
(* of whoever calls it, up to its first await.  Events are numbered in the *)
(* order they enter the pending buffer.                                    *)
(***************************************************************************)
EXTENDS Lines, FiniteSets

CONSTANTS
  Calls,         \* bound: enqueue() calls, numbered from 1
  MaxItems,      \* bound: events passed to one call
  Flushes,       \* flush() calls
  MaxBatchSize,
  MaxQueueSize,
  FailureLimits, \* values of maxConsecutiveFailures; 0 stands for undefined
  Poison         \* sets of events that cannot be serialised

ASSUME UploaderAssumption ==
  /\ Calls \in Nat \ {0} /\ MaxItems \in Nat \ {0}
  /\ MaxBatchSize \in Nat \ {0} /\ MaxQueueSize \in Nat \ {0}
  /\ FailureLimits \subseteq Nat
  /\ Poison \subseteq SUBSET Nat

Call == 1 .. Calls

VARIABLES
  byteLimited,   \* config: maxBatchBytes is set
  failureLimit,  \* config: maxConsecutiveFailures
  size,          \* size[c]: number of events passed to call c
  bad,           \* events that cannot be serialised
  call,          \* call[c]: "new", "waiting", "woken", "accepted", "ignored"
  total,         \* events accepted so far
  pending,       \* the pending buffer
  inflight,      \* the batch being sent
  phase,         \* drain(): "idle" (not draining), "sending", "sleeping"
  failures,      \* consecutive failures of the current batch
  closed,
  waiting,       \* backpressureResolvers: calls waiting for room, in order
  woken,         \* calls whose resolver was called and that are to resume
  flush,         \* flush[f]: "new", "waiting", "sent", "closed"
  mark,          \* history: events accepted when flush f was called
  sent,          \* history: events passed to config.send at least once
  acked,         \* history: events of a batch whose send() succeeded
  dropped        \* history: events given up (unserialisable, failure limit)

config == <<byteLimited, failureLimit, size, bad>>
vars == <<config, call, total, pending, inflight, phase, failures, closed,
          waiting, woken, flush, mark, sent, acked, dropped>>

TypeOK ==
  /\ byteLimited \in BOOLEAN /\ failureLimit \in FailureLimits
  /\ size \in [Call -> 1 .. MaxItems] /\ bad \in Poison
  /\ call \in [Call -> {"new", "waiting", "woken", "accepted", "ignored"}]
  /\ total \in Nat
  /\ pending \in Seq(1 .. total) /\ inflight \in Seq(1 .. total)
  /\ phase \in {"idle", "sending", "sleeping"}
  /\ failures \in Nat /\ (failureLimit # 0 => failures < failureLimit)
  /\ closed \in BOOLEAN
  /\ waiting \in Seq(Call) /\ woken \in Seq(Call)
  /\ flush \in [Flushes -> {"new", "waiting", "sent", "closed"}]
  /\ mark \in [Flushes -> 0 .. total]
  /\ sent \subseteq 1 .. total /\ acked \subseteq 1 .. total
  /\ dropped \subseteq 1 .. total

Init ==
  /\ byteLimited \in BOOLEAN /\ failureLimit \in FailureLimits
  /\ size \in [Call -> 1 .. MaxItems] /\ bad \in Poison
  /\ call = [c \in Call |-> "new"]
  /\ total = 0
  /\ pending = <<>> /\ inflight = <<>> /\ phase = "idle" /\ failures = 0
  /\ closed = FALSE
  /\ waiting = <<>> /\ woken = <<>>
  /\ flush = [f \in Flushes |-> "new"] /\ mark = [f \in Flushes |-> 0]
  /\ sent = {} /\ acked = {} /\ dropped = {}

-----------------------------------------------------------------------------
(* takeBatch scans the first k pending events.  With a byte limit it drops *)
(* the unserialisable ones it meets and may stop early, because the next   *)
(* event would make the batch too long; without one it looks at none.      *)
Scannable(p, k) ==
  IF byteLimited
    THEN LET good == Cardinality(Elements(SubSeq(p, 1, k)) \ bad) IN
         /\ good <= MaxBatchSize
         /\ good = MaxBatchSize => p[k] \notin bad
         /\ good = 0 => k = Len(p)
         /\ (k < Len(p) /\ good < MaxBatchSize) => p[k + 1] \notin bad
    ELSE k = IF Len(p) < MaxBatchSize THEN Len(p) ELSE MaxBatchSize

Batch(p, k) ==
  IF byteLimited THEN Filter(SubSeq(p, 1, k), Elements(p) \ bad)
                 ELSE SubSeq(p, 1, k)

Unsendable(p, k) == IF byteLimited THEN Elements(SubSeq(p, 1, k)) \cap bad ELSE {}

(* Fault: the resolvers are cleared without being called.                  *)
ForgetFlushes(how) == flush' = flush

ResolveFlushes(how) ==
  flush' = [f \in Flushes |-> IF flush[f] = "waiting" THEN how ELSE flush[f]]

(* drain() from the top of its loop, when p is pending and the events of   *)
(* `gone` have just been given up: it sends the next batch, or exits.  A   *)
(* batch left empty by unserialisable events ends the loop.                *)
DrainFrom(p, gone) ==
  \/ /\ p # <<>> /\ ~closed
     /\ \E k \in 1 .. Len(p) :
          /\ Scannable(p, k) /\ Batch(p, k) # <<>>
          /\ inflight' = Batch(p, k)
          /\ pending' = SubSeq(p, k + 1, Len(p))
          /\ sent' = sent \cup Elements(Batch(p, k))
          /\ dropped' = dropped \cup gone \cup Unsendable(p, k)
     /\ phase' = "sending"
     /\ UNCHANGED flush
  \/ LET shed == IF p # <<>> /\ ~closed THEN Elements(p) ELSE {}
         left == IF closed THEN p ELSE <<>>
     IN
     /\ p # <<>> /\ ~closed => byteLimited /\ Elements(p) \subseteq bad
     /\ inflight' = <<>> /\ pending' = left /\ phase' = "idle"
     /\ dropped' = dropped \cup gone \cup shed
     /\ IF left = <<>> THEN ResolveFlushes(IF closed THEN "closed" ELSE "sent")
                       ELSE UNCHANGED flush
     /\ UNCHANGED sent

(* Fault: a second drain() runs beside the first.                          *)
DrainTwice(p) ==
  IF ~closed
    THEN DrainFrom(p, {}) /\ failures' = 0
    ELSE /\ pending' = p
         /\ UNCHANGED <<inflight, phase, failures, flush, sent, dropped>>

(* drain() called when the buffer holds p: only one runs at a time.        *)
Drain(p) ==
  IF phase = "idle" /\ ~closed
    THEN DrainFrom(p, {}) /\ failures' = 0
    ELSE /\ pending' = p
         /\ UNCHANGED <<inflight, phase, failures, flush, sent, dropped>>

(* releaseBackpressure: every waiting call will look again.                *)
ReleaseBackpressure ==
  /\ woken' = woken \o waiting /\ waiting' = <<>>
  /\ call' = [c \in Call |-> IF call[c] = "waiting" THEN "woken" ELSE call[c]]

-----------------------------------------------------------------------------
(* enqueue() finds room: its events enter the buffer and drain() is called.*)
Accept(c) ==
  /\ total' = total + size[c]
  /\ Drain(pending \o [i \in 1 .. size[c] |-> total + i])

HasRoom(c) == Len(pending) + size[c] <= MaxQueueSize

(* enqueue() from its test for room to its return or next await.           *)
Attempt(c) ==
  \/ /\ closed
     /\ call' = [call EXCEPT ![c] = "ignored"]
     /\ UNCHANGED <<total, pending, inflight, phase, failures, waiting, flush,
                    sent, dropped>>
  \/ /\ ~closed /\ HasRoom(c)
     /\ call' = [call EXCEPT ![c] = "accepted"]
     /\ Accept(c)
     /\ UNCHANGED waiting
  \/ /\ ~closed /\ ~HasRoom(c)
     /\ call' = [call EXCEPT ![c] = "waiting"]
     /\ waiting' = Append(waiting, c)
     /\ UNCHANGED <<total, pending, inflight, phase, failures, flush, sent,
                    dropped>>

Enqueue(c) ==
  /\ call[c] = "new" /\ \A b \in Call : b < c => call[b] # "new"
  /\ Attempt(c)
  /\ UNCHANGED <<config, closed, woken, mark, acked>>

(* A released call looks again; it may find the room taken by another.     *)
WokenResumes ==
  /\ woken # <<>>
  /\ Attempt(Head(woken))
  /\ woken' = Tail(woken)
  /\ UNCHANGED <<config, closed, mark, acked>>

(* Without a byte limit an unserialisable event makes every send() throw.  *)
SendSucceeds ==
  /\ phase = "sending"
  /\ Elements(inflight) \cap bad = {}
  /\ acked' = acked \cup Elements(inflight)
  /\ failures' = 0
  /\ ReleaseBackpressure
  /\ DrainFrom(pending, {})
  /\ UNCHANGED <<config, total, closed, mark>>

(* Fault: one failure more than the limit is allowed.                      *)
LimitPassed == failureLimit # 0 /\ failures >= failureLimit

LimitReached == failureLimit # 0 /\ failures + 1 >= failureLimit

(* Fault: enqueue() callers are not released.                              *)
GiveUpSilently ==
  /\ failures' = 0
  /\ UNCHANGED <<call, waiting, woken>>
  /\ DrainFrom(pending, Elements(inflight))

(* Fault: the loop is left instead of continued.                           *)
GiveUpAndStop ==
  /\ failures' = 0
  /\ ReleaseBackpressure
  /\ dropped' = dropped \cup Elements(inflight)
  /\ inflight' = <<>> /\ phase' = "idle"
  /\ UNCHANGED <<pending, flush, sent>>

(* The batch is dropped, and the loop goes on with the next one.           *)
GiveUp ==
  /\ failures' = 0
  /\ ReleaseBackpressure
  /\ DrainFrom(pending, Elements(inflight))

(* Fault: the batch is not put back.                                       *)
PutNothingBack ==
  /\ failures' = IF failureLimit = 0 THEN 0 ELSE failures + 1
  /\ inflight' = <<>>
  /\ phase' = "sleeping"
  /\ UNCHANGED <<pending, call, waiting, woken, flush, sent, dropped>>

(* The batch is put back in front, to be sent again after a delay.         *)
(* Without a limit the count only sets the delay, and is left out.         *)
PutBack ==
  /\ failures' = IF failureLimit = 0 THEN 0 ELSE failures + 1
  /\ pending' = inflight \o pending /\ inflight' = <<>>
  /\ phase' = "sleeping"
  /\ UNCHANGED <<call, waiting, woken, flush, sent, dropped>>

SendFails ==
  /\ phase = "sending"
  /\ \/ LimitReached /\ GiveUp
     \/ ~LimitReached /\ PutBack
  /\ UNCHANGED <<config, total, closed, mark, acked>>

(* The retry delay is over, or close() cut it short.                       *)
SleepEnds ==
  /\ phase = "sleeping"
  /\ DrainFrom(pending, {})
  /\ UNCHANGED <<config, call, total, failures, closed, waiting, woken, mark, acked>>

(* Fault: a running drain() is not waited for.                             *)
FlushWhenEmpty(f) ==
  /\ flush[f] = "new"
  /\ flush' = [flush EXCEPT ![f] =
                 IF pending # <<>> THEN "waiting"
                 ELSE IF closed THEN "closed" ELSE "sent"]
  /\ mark' = [mark EXCEPT ![f] = total]
  /\ UNCHANGED <<config, call, total, pending, inflight, phase, failures,
                 closed, waiting, woken, sent, acked, dropped>>

(* flush().  The drain() it calls finds one running, or a closed uploader: *)
(* see NoIdleBacklog.                                                      *)
Flush(f) ==
  /\ flush[f] = "new"
  /\ flush' = [flush EXCEPT ![f] =
                 IF pending # <<>> \/ phase # "idle" THEN "waiting"
                 ELSE IF closed THEN "closed" ELSE "sent"]
  /\ mark' = [mark EXCEPT ![f] = total]
  /\ UNCHANGED <<config, call, total, pending, inflight, phase, failures,
                 closed, waiting, woken, sent, acked, dropped>>

(* Fault: the events that wait for a retry are kept.                       *)
CloseKeeping ==
  /\ ~closed
  /\ closed' = TRUE
  /\ ReleaseBackpressure
  /\ ResolveFlushes("closed")
  /\ UNCHANGED <<config, total, pending, inflight, phase, failures, mark, sent,
                 acked, dropped>>

Close ==
  /\ ~closed
  /\ closed' = TRUE
  /\ pending' = <<>>
  /\ ReleaseBackpressure
  /\ ResolveFlushes("closed")
  /\ UNCHANGED <<config, total, inflight, phase, failures, mark, sent, acked, dropped>>

Next ==
  \/ \E c \in Call : Enqueue(c)
  \/ \E f \in Flushes : Flush(f)
  \/ WokenResumes \/ SendSucceeds \/ SendFails \/ SleepEnds \/ Close

(* Continuations and timers always run; every request ends; and a request  *)
(* that is retried forever succeeds in the end.                            *)
Fairness ==
  /\ WF_vars(WokenResumes) /\ WF_vars(SleepEnds)
  /\ WF_vars(SendSucceeds \/ SendFails) /\ SF_vars(SendSucceeds)

Spec == Init /\ [][Next]_vars /\ Fairness

-----------------------------------------------------------------------------
(* Until close(), an accepted event is queued, acknowledged or given up.   *)
NothingLost ==
  ~closed => 1 .. total = acked \cup dropped \cup Elements(inflight) \cup Elements(pending)

(* flush() has nothing to kick: a backlog is always being drained.         *)
NoIdleBacklog == (pending # <<>> /\ phase = "idle") => closed

(* A flush that returned, not because of close(), waited for every event   *)
(* accepted before it.                                                     *)
FlushMeansSent ==
  \A f \in Flushes : flush[f] = "sent" => 1 .. mark[f] \subseteq acked \cup dropped

(* "Serial ordered": an event is sent for the first time only when every   *)
(* earlier one has been acknowledged, given up, or is in the same batch.   *)
Serial ==
  [][\A x \in sent' \ sent : \A y \in 1 .. x - 1 :
       y \in acked' \cup dropped' \cup Elements(inflight')]_vars

(* The uploader is a serial outbox (module Outbox): what is in flight, and *)
(* then what is pending, is the line of events it owes.                    *)
Promise == INSTANCE Outbox WITH
  Capacity <- MaxQueueSize + MaxBatchSize, MaxBatch <- MaxBatchSize,
  accepted <- total, owed <- inflight \o pending, delivered <- acked, lost <- dropped

ImplementsOutbox == Promise!Spec

-----------------------------------------------------------------------------
(* A failing batch cannot block the queue for ever.                        *)
Recoverable == byteLimited \/ bad = {} \/ failureLimit # 0

(* A flush asked for before close() returns.                               *)
FlushReturns ==
  \A f \in Flushes :
    (flush[f] = "waiting" /\ ~closed /\ Recoverable) ~> flush[f] \in {"sent", "closed"}

(* A call that waits for room and can find it is let in, or released by    *)
(* close(), also where takeBatch empties the buffer by dropping events.    *)
EnqueueReturns ==
  \A c \in Call :
    (call[c] = "waiting" /\ size[c] <= MaxQueueSize /\ Recoverable)
      ~> call[c] \in {"accepted", "ignored"}

(* "Resolves any blocked enqueue() and flush() callers": once the uploader *)
(* is closed no caller stays blocked.                                      *)
CloseReleasesFlushes ==
  \A f \in Flushes : (closed /\ flush[f] = "waiting") ~> flush[f] = "closed"
=============================================================================
