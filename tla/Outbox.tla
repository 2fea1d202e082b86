-------------------------------- MODULE Outbox --------------------------------
(***************************************************************************)
(* What a serial, ordered, bounded outbox promises to those who write to   *)
(* it: events are numbered as they are accepted, delivered from the front  *)
(* of the line and only once, or given up one by one; closing it refuses   *)
(* new events and forgets those that are not on their way.  EventUploader  *)
(* implements it.                                                          *)
(***************************************************************************)
EXTENDS Lines

CONSTANTS
  Capacity,  \* events the outbox may owe at most
  MaxBatch   \* events delivered at once at most

VARIABLES
  accepted,   \* number of events accepted
  owed,       \* events accepted and not yet settled, in order
  delivered,  \* events whose delivery was acknowledged
  lost,       \* events given up
  closed

vars == <<accepted, owed, delivered, lost, closed>>

Init == accepted = 0 /\ owed = <<>> /\ delivered = {} /\ lost = {} /\ closed = FALSE

(* The line s remains, but for events that are given up.                   *)
Shed(s) ==
  /\ owed' \in Seq(Nat) /\ Remainder(owed', s)
  /\ lost' = lost \cup (Elements(s) \ Elements(owed'))

Accept ==
  /\ ~closed
  /\ \E n \in 1 .. Capacity - Len(owed) :
       /\ accepted' = accepted + n
       /\ Shed(owed \o [i \in 1 .. n |-> accepted + i])
  /\ UNCHANGED <<delivered, closed>>

Deliver ==
  /\ \E n \in 1 .. MaxBatch :
       /\ n <= Len(owed)
       /\ delivered' = delivered \cup Elements(SubSeq(owed, 1, n))
       /\ Shed(SubSeq(owed, n + 1, Len(owed)))
  /\ UNCHANGED <<accepted, closed>>

GiveUp == Shed(owed) /\ UNCHANGED <<accepted, delivered, closed>>

Close ==
  /\ ~closed /\ closed' = TRUE
  /\ \E n \in 0 .. MaxBatch : n <= Len(owed) /\ owed' = SubSeq(owed, 1, n)
  /\ UNCHANGED <<accepted, delivered, lost>>

Next == Accept \/ Deliver \/ GiveUp \/ Close

Spec == Init /\ [][Next]_vars

-----------------------------------------------------------------------------
(* Back-pressure bounds what is owed: EventUploader puts a failed batch    *)
(* back in front of its buffer, past maxQueueSize, but by no more than the *)
(* room of one batch.                                                      *)
Bounded == Len(owed) <= Capacity

(* Whatever fails and is put back, what is owed keeps the order in which   *)
(* it was accepted, and nothing is owed twice.                             *)
Sorted == \A i, j \in 1 .. Len(owed) : i < j => owed[i] < owed[j]

(* An event has one fate.                                                  *)
OneFate == delivered \cap lost = {} /\ Elements(owed) \cap (delivered \cup lost) = {}
===============================================================================
