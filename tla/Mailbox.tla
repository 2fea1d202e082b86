-------------------------------- MODULE Mailbox --------------------------------
(***************************************************************************)
(* The inbox file of one agent of a team (utils/agents/teammateMailbox.ts),*)
(* the agents that write to it, and the session that reads it: the poller  *)
(* of a session with a screen (hooks/useInboxPoller.ts), or the loop of a  *)
(* teammate inside the leader's process (utils/swarm/inProcessRunner.ts).  *)
(*                                                                         *)
(* An action is a file-system call or a synchronous callback.  Every write *)
(* of the file but the first is a rename, and is atomic.  Messages differ  *)
(* in sender, time or text, by which the file's entries are compared.      *)
(***************************************************************************)
EXTENDS Lines, FiniteSets

CONSTANTS
  MaxSent,      \* bound: messages, each sent by a process of its own
  MaxPolls,     \* bound: polls, with their marking, under way at once
  MaxMessages,  \* limits of compactMailboxMessages
  MaxRead,
  MaxProtocol,
  MaxBytes,
  MaxCrashes,   \* bound: processes that die
  Loads         \* what the messages may be, see Load

(* Messages are numbered in the order in which their senders set out.      *)
Msg == 1 .. MaxSent

(* `protocol`: JSON with a type, which compaction keeps apart; `routed`:    *)
(* those for which the poller has a handler (idle notifications, unknown   *)
(* types and approved shutdowns are passed on like texts).  The byte that  *)
(* a message shrinks by when it is marked is left out of its size.         *)
Load == [protocol : SUBSET Msg, routed : SUBSET Msg, size : [Msg -> Nat \ {0}]]

ASSUME MailboxAssumption ==
  /\ {MaxSent, MaxPolls, MaxMessages, MaxRead, MaxProtocol, MaxBytes, MaxCrashes} \subseteq Nat
  /\ Loads \subseteq Load

Slot == MaxSent + 1 .. MaxSent + MaxPolls
Free == 0
Proc == Msg \cup Slot

VARIABLES
  reader,     \* config: "poller" or "runner"
  protocol,   \* config: the protocol messages
  routed,     \* config: those that the poller handles itself
  size,       \* config: size[m]: bytes that m takes in the file
  made,       \* the file: "none", "empty" (created, not yet filled), "there"
  file,       \* the messages in the file, oldest first
  read,       \* those marked as read
  lock,       \* holder of the inbox's lock, or Free
  copy,       \* copy[p]: the messages p has read from the file and is to write
  seen,       \* seen[p]: those of them that were read
  send,       \* send[m]: "new", "creating", "locking", "writing", "sent", "failed"
  slot,       \* slot[i]: "idle", "processing", "marking", "writing", "taking"
  snap,       \* snap[i]: the unread messages that poll i is about
  pending,    \* AppState.inbox: messages queued until the session is idle
  busy,       \* a turn runs, or prompts of the user wait
  crashes,    \* processes that have died
  delivered,  \* history: messages submitted as a prompt, or routed
  evicted,    \* history: unread messages removed by compaction
  fallen      \* history: messages marked as read and lost with the session

reading == <<slot, snap, pending, busy>>
vars == <<reader, protocol, routed, size, made, file, read, lock, copy, seen, send, reading,
          crashes, delivered, evicted, fallen>>

Holds(p) == IF p \in Msg THEN send[p] = "writing" ELSE slot[p] = "writing"

(* Whoever is between the two ends of a locked update holds the lock.      *)
TypeOK ==
  /\ reader \in {"poller", "runner"}
  /\ protocol \in SUBSET Msg /\ routed \in SUBSET Msg /\ size \in [Msg -> Nat \ {0}]
  /\ made \in {"none", "empty", "there"}
  /\ file \in Seq(Msg) /\ read \subseteq Elements(file)
  /\ lock \in Proc \cup {Free} /\ \A p \in Proc : Holds(p) <=> lock = p
  /\ copy \in [Proc -> Seq(Msg)] /\ seen \in [Proc -> SUBSET Msg]
  /\ send \in [Msg -> {"new", "creating", "locking", "writing", "sent", "failed"}]
  /\ slot \in [Slot -> {"idle", "processing", "marking", "writing", "taking"}]
  /\ snap \in [Slot -> SUBSET Msg]
  /\ pending \subseteq Msg /\ busy \in BOOLEAN
  /\ crashes \in 0 .. MaxCrashes
  /\ delivered \subseteq Msg /\ evicted \subseteq Msg /\ fallen \subseteq Msg

Init ==
  /\ reader \in {"poller", "runner"}
  /\ \E load \in Loads :
       protocol = load.protocol /\ routed = load.routed /\ size = load.size
  /\ made = "none" /\ file = <<>> /\ read = {} /\ lock = Free
  /\ copy = [p \in Proc |-> <<>>] /\ seen = [p \in Proc |-> {}]
  /\ send = [m \in Msg |-> "new"]
  /\ slot = [i \in Slot |-> "idle"] /\ snap = [i \in Slot |-> {}]
  /\ pending = {} /\ busy = FALSE /\ crashes = 0
  /\ delivered = {} /\ evicted = {} /\ fallen = {}

Unread == Elements(file) \ read

-----------------------------------------------------------------------------
(* The locked update of the file.                                          *)

Bytes(set) ==
  LET sum[m \in 0 .. MaxSent] ==
        IF m = 0 THEN 0 ELSE sum[m - 1] + (IF m \in set THEN size[m] ELSE 0)
  IN  sum[MaxSent]

(* tryKeep, for the messages s that are in set, the newest first: up to k  *)
(* are kept, each if it has room beside those already kept.                *)
Lane(s, set, k, before) ==
  LET kept[i \in 0 .. Len(s)] ==
        IF i = 0 THEN {}
        ELSE LET newer == kept[i - 1]
                 m     == s[Len(s) + 1 - i]
             IN  IF /\ m \in set /\ Cardinality(newer) < k
                    /\ Bytes(before \cup newer \cup {m}) <= MaxBytes
                   THEN newer \cup {m} ELSE newer
  IN  kept[Len(s)]

(* Fault: what has been read is kept before what has not.                  *)
KeptReadFirst(s, r) ==
  LET calls == Lane(s, protocol \ r, MaxProtocol, {})
      known == Lane(s, r, MaxRead, calls)
  IN  calls \cup known
        \cup Lane(s, Elements(s) \ (r \cup protocol), MaxMessages - Cardinality(known),
                  calls \cup known)

(* compactMailboxMessages: unread protocol messages; the other unread ones,*)
(* within limits of their own; and those that were read, if there is room. *)
Kept(s, r) ==
  LET calls == Lane(s, protocol \ r, MaxProtocol, {})
      texts == Lane(s, Elements(s) \ (r \cup protocol), MaxMessages, calls)
      room  == MaxMessages - Cardinality(texts)
  IN  calls \cup texts
        \cup Lane(s, r, IF room < MaxRead THEN room ELSE MaxRead, calls \cup texts)

(* writeCompactedMailbox: s, of which r have been read, replaces the file. *)
WriteMailbox(s, r) ==
  \E kept \in {Kept(s, r)} :
    /\ file' = Filter(s, kept)
    /\ read' = r \cap kept
    /\ evicted' = evicted \cup (Elements(s) \ (r \cup kept))

(* The lock is taken and the file read again.                              *)
LockAndRead(p) ==
  /\ lock = Free
  /\ made = "there"
  /\ lock' = p
  /\ copy' = [copy EXCEPT ![p] = file]
  /\ seen' = [seen EXCEPT ![p] = read]

(* What p has read is of no more use.                                      *)
Forget(p) == copy' = [copy EXCEPT ![p] = <<>>] /\ seen' = [seen EXCEPT ![p] = {}]

-----------------------------------------------------------------------------
(* writeToMailbox.                                                         *)

(* Its turn to set out, by the numbering of the messages.                  *)
InTurn(m) == send[m] = "new" /\ \A n \in 1 .. m - 1 : send[n] # "new"

(* The file is created before it can be locked; nothing happens if it is   *)
(* there already.                                                          *)
Create(m) ==
  /\ made = "none" /\ InTurn(m)
  /\ made' = "empty" /\ send' = [send EXCEPT ![m] = "creating"]
  /\ UNCHANGED <<reader, protocol, routed, size, file, read, lock, copy, seen, reading,
                 crashes, delivered, evicted, fallen>>

FillNew(m) ==
  /\ send[m] = "creating"
  /\ made' = "there" /\ send' = [send EXCEPT ![m] = "locking"]
  /\ UNCHANGED <<reader, protocol, routed, size, file, read, lock, copy, seen, reading,
                 crashes, delivered, evicted, fallen>>

ToLock(m) == send[m] = "locking" \/ (made # "none" /\ InTurn(m))

LockToWrite(m) ==
  /\ ToLock(m)
  /\ LockAndRead(m)
  /\ send' = [send EXCEPT ![m] = "writing"]
  /\ UNCHANGED <<reader, protocol, routed, size, made, file, read, reading, crashes,
                 delivered, evicted, fallen>>

(* Fault: the message is written although the lock was not obtained.       *)
SendUnlocked(m) ==
  /\ ToLock(m)
  /\ lock # Free
  /\ send' = [send EXCEPT ![m] = "writing"]
  /\ copy' = [copy EXCEPT ![m] = file] /\ seen' = [seen EXCEPT ![m] = read]
  /\ UNCHANGED <<reader, protocol, routed, size, made, file, read, lock, reading,
                 crashes, delivered, evicted, fallen>>

(* All tries for the lock are used up, or the file does not parse yet: the *)
(* sender is told.                                                         *)
SendFails(m) ==
  /\ ToLock(m)
  /\ lock # Free \/ made = "empty"
  /\ send' = [send EXCEPT ![m] = "failed"]
  /\ UNCHANGED <<reader, protocol, routed, size, made, file, read, lock, copy, seen, reading,
                 crashes, delivered, evicted, fallen>>

Write(m) ==
  /\ send[m] = "writing"
  /\ WriteMailbox(Append(copy[m], m), seen[m])
  /\ lock' = Free
  /\ send' = [send EXCEPT ![m] = "sent"]
  /\ Forget(m)
  /\ UNCHANGED <<reader, protocol, routed, size, made, reading, crashes, delivered, fallen>>

-----------------------------------------------------------------------------
(* The session.                                                            *)

(* The unread messages are read; the runner picks one of them, by its kind *)
(* and sender.                                                             *)
Poll(i) ==
  /\ slot[i] = "idle" /\ \A j \in Slot : j < i => slot[j] # "idle"
  /\ Unread # {}
  /\ \/ /\ reader = "poller"
        /\ slot' = [slot EXCEPT ![i] = "processing"]
        /\ snap' = [snap EXCEPT ![i] = Unread]
     \/ /\ reader = "runner" /\ ~busy /\ \A j \in Slot : slot[j] = "idle"
        /\ \E m \in Unread : snap' = [snap EXCEPT ![i] = {m}]
        /\ slot' = [slot EXCEPT ![i] = "marking"]
  /\ UNCHANGED <<reader, protocol, routed, size, made, file, read, lock, copy, seen, send,
                 pending, busy, crashes, delivered, evicted, fallen>>

(* Routed messages go to their handlers.  The others are submitted as one  *)
(* prompt, or queued: the session is busy, or was when it was last drawn.  *)
Process(i) ==
  LET texts == snap[i] \ routed IN
  /\ slot[i] = "processing"
  /\ slot' = [slot EXCEPT ![i] = "marking"]
  /\ \/ /\ texts # {} /\ ~busy
        /\ busy' = TRUE
        /\ delivered' = delivered \cup snap[i]
        /\ UNCHANGED pending
     \/ /\ pending' = pending \cup texts
        /\ delivered' = delivered \cup (snap[i] \cap routed)
        /\ UNCHANGED busy
  /\ UNCHANGED <<reader, protocol, routed, size, made, file, read, lock, copy, seen, send,
                 snap, crashes, evicted, fallen>>

LockToMark(i) ==
  /\ slot[i] = "marking"
  /\ LockAndRead(i)
  /\ slot' = [slot EXCEPT ![i] = "writing"]
  /\ UNCHANGED <<reader, protocol, routed, size, made, file, read, send, snap, pending, busy,
                 crashes, delivered, evicted, fallen>>

(* Fault: everything in the file is marked, not only what was handled.     *)
MarkAll(i) == WriteMailbox(copy[i], Elements(copy[i]))

(* markMessagesAsReadBySnapshot, markMessageAsReadByIdentity: what is not  *)
(* marked yet of the snapshot; nothing is written if there is none.        *)
MarkSnapshot(i) ==
  LET left == (snap[i] \cap Elements(copy[i])) \ seen[i] IN
  IF left = {} THEN UNCHANGED <<file, read, evicted>>
               ELSE WriteMailbox(copy[i], seen[i] \cup left)

(* The marking is over for the poller; the runner has its message to take. *)
Mark(i) ==
  /\ slot[i] = "writing"
  /\ MarkSnapshot(i)
  /\ lock' = Free /\ Forget(i)
  /\ IF reader = "runner"
       THEN slot' = [slot EXCEPT ![i] = "taking"] /\ UNCHANGED snap
       ELSE slot' = [slot EXCEPT ![i] = "idle"] /\ snap' = [snap EXCEPT ![i] = {}]
  /\ UNCHANGED <<reader, protocol, routed, size, made, send, pending, busy, crashes,
                 delivered, fallen>>

(* The lock was not to be had, and what was handled stays unread.          *)
MarkFails(i) ==
  /\ slot[i] = "marking" /\ lock # Free
  /\ IF reader = "runner"
       THEN slot' = [slot EXCEPT ![i] = "taking"] /\ UNCHANGED snap
       ELSE slot' = [slot EXCEPT ![i] = "idle"] /\ snap' = [snap EXCEPT ![i] = {}]
  /\ UNCHANGED <<reader, protocol, routed, size, made, file, read, lock, copy, seen, send,
                 pending, busy, crashes, delivered, evicted, fallen>>

(* The runner starts a turn with its message, marked or not.               *)
Take(i) ==
  /\ slot[i] = "taking"
  /\ slot' = [slot EXCEPT ![i] = "idle"] /\ snap' = [snap EXCEPT ![i] = {}]
  /\ busy' = TRUE /\ delivered' = delivered \cup snap[i]
  /\ UNCHANGED <<reader, protocol, routed, size, made, file, read, lock, copy, seen, send,
                 pending, crashes, evicted, fallen>>

(* Fault: the queue is only looked at when messages have just been read.   *)
DeliverWithPoll ==
  /\ ~busy /\ pending # {}
  /\ \E i \in Slot : slot[i] = "processing"
  /\ busy' = TRUE
  /\ delivered' = delivered \cup pending /\ pending' = {}
  /\ UNCHANGED <<reader, protocol, routed, size, made, file, read, lock, copy, seen, send,
                 slot, snap, crashes, evicted, fallen>>

(* The effect that submits what was queued once the session is idle.       *)
DeliverPending ==
  /\ ~busy /\ pending # {}
  /\ busy' = TRUE
  /\ delivered' = delivered \cup pending /\ pending' = {}
  /\ UNCHANGED <<reader, protocol, routed, size, made, file, read, lock, copy, seen, send,
                 slot, snap, crashes, evicted, fallen>>

(* The user starts a turn, at a screen on which all effects have run.      *)
UserTurn ==
  /\ reader = "poller" /\ pending = {}
  /\ ~busy /\ busy' = TRUE
  /\ UNCHANGED <<reader, protocol, routed, size, made, file, read, lock, copy, seen, send,
                 slot, snap, pending, crashes, delivered, evicted, fallen>>

TurnEnds ==
  /\ busy /\ busy' = FALSE
  /\ UNCHANGED <<reader, protocol, routed, size, made, file, read, lock, copy, seen, send,
                 slot, snap, pending, crashes, delivered, evicted, fallen>>

-----------------------------------------------------------------------------
(* A sender dies in the middle of its work; a lock it held is stale, and   *)
(* free for the next one.                                                  *)
CrashSender(m) ==
  /\ crashes < MaxCrashes /\ crashes' = crashes + 1
  /\ send[m] \in {"creating", "writing"}
  /\ send' = [send EXCEPT ![m] = "failed"]
  /\ lock' = IF lock = m THEN Free ELSE lock
  /\ Forget(m)
  /\ UNCHANGED <<reader, protocol, routed, size, made, file, read, reading, delivered,
                 evicted, fallen>>

(* What the session keeps only in memory: its queue, and the message that  *)
(* the runner has marked and not yet taken.                                *)
Hand == UNION {snap[i] : i \in {j \in Slot : slot[j] = "taking"}}

CrashSession ==
  /\ crashes < MaxCrashes /\ crashes' = crashes + 1
  /\ fallen' = fallen \cup ((pending \cup Hand) \ Unread)
  /\ pending' = {} /\ busy' = FALSE
  /\ slot' = [i \in Slot |-> "idle"] /\ snap' = [i \in Slot |-> {}]
  /\ lock' = IF lock \in Slot THEN Free ELSE lock
  /\ copy' = [p \in Proc |-> IF p \in Slot THEN <<>> ELSE copy[p]]
  /\ seen' = [p \in Proc |-> IF p \in Slot THEN {} ELSE seen[p]]
  /\ UNCHANGED <<reader, protocol, routed, size, made, file, read, send, delivered,
                 evicted>>

Sender(m) == Create(m) \/ FillNew(m) \/ LockToWrite(m) \/ SendFails(m) \/ Write(m)
Handle(i) == Process(i) \/ LockToMark(i) \/ Mark(i) \/ MarkFails(i) \/ Take(i)

Next ==
  \/ \E m \in Msg : Sender(m) \/ CrashSender(m)
  \/ \E i \in Slot : Poll(i) \/ Handle(i)
  \/ DeliverPending \/ UserTurn \/ TurnEnds \/ CrashSession

(* File-system calls return, polls are repeated, effects run, turns end.   *)
Fairness ==
  /\ \A m \in Msg : WF_vars(Write(m))
  /\ \A i \in Slot : WF_vars(Poll(i)) /\ WF_vars(Handle(i))
  /\ WF_vars(DeliverPending) /\ WF_vars(TurnEnds)

Spec == Init /\ [][Next]_vars /\ Fairness

-----------------------------------------------------------------------------
(* A message whose sender was told that it is sent is unread in the file,  *)
(* queued, delivered, or one of those that compaction removed or that were *)
(* lost with a session that had queued them: appends, markings and         *)
(* compactions of several processes lose no other.                         *)
NothingLost ==
  \A m \in Msg : send[m] = "sent" =>
    m \in Unread \cup pending \cup Hand \cup delivered \cup evicted \cup fallen

(* Why an unread message may go if those that stay unread are `unread`.    *)
NoRoom(m, unread) ==
  IF m \in protocol
    THEN \/ Cardinality(unread \cap protocol) >= MaxProtocol
         \/ Bytes((unread \cap protocol) \cup {m}) > MaxBytes
    ELSE \/ Cardinality(unread \ protocol) >= MaxMessages
         \/ Bytes(unread \cup {m}) > MaxBytes

(* compactMailboxMessages removes an unread message only if as many unread *)
(* ones of its kind stay as its limit allows, or if what stays leaves no   *)
(* room for it: unread protocol messages, and for a text the unread texts. *)
(* What has been read never pushes out what has not, nor texts a protocol  *)
(* message.                                                                *)
EvictsForRoom == [][\A m \in evicted' \ evicted : NoRoom(m, Unread')]_vars

(* Every message arrives in the end, with the same exceptions.             *)
EveryMessageArrives ==
  \A m \in Msg : send[m] = "sent" ~> m \in delivered \cup evicted \cup fallen
=============================================================================
