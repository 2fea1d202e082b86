-------------------------- MODULE EventUploaderProofs --------------------------
(***************************************************************************)
(* Proofs about the event uploader: what it keeps, in which order it sends,*)
(* and that each of its steps is one of the abstract Outbox, for any       *)
(* numbers of calls, sizes, limits and unserialisable events.              *)
(***************************************************************************)
EXTENDS EventUploader, LineProofs

Owed == inflight \o pending

(* What is owed is owed in order; a batch is in flight exactly while       *)
(* drain() waits for its request.                                          *)
Ordered == Line(Owed, total)

BatchFits == Len(inflight) <= MaxBatchSize

Sending == phase = "sending" <=> inflight # <<>>

IInv ==
  /\ TypeOK /\ Ordered /\ BatchFits /\ Sending
  /\ NothingLost /\ NoIdleBacklog /\ FlushMeansSent

(* What drain() does when p is pending, of m events, and those of `gone`   *)
(* have just been given up.                                                *)
Drained(p, gone, m) ==
  /\ inflight' \in Seq(1 .. m) /\ pending' \in Seq(1 .. m)
  /\ Line(inflight' \o pending', m) /\ Remainder(inflight' \o pending', p)
  /\ dropped' = dropped \cup gone \cup (Elements(p) \ Elements(inflight' \o pending'))
  /\ sent' = sent \cup Elements(inflight')
  /\ Len(inflight') <= MaxBatchSize
  /\ \/ phase' = "sending" /\ inflight' # <<>> /\ ~closed /\ flush' = flush
     \/ /\ phase' = "idle" /\ inflight' = <<>>
        /\ \/ pending' = <<>> /\ ResolveFlushes(IF closed THEN "closed" ELSE "sent")
           \/ pending' # <<>> /\ closed /\ flush' = flush

(* The first k of p, and the others.                                       *)
Cut(p, k, h, t) ==
  h = SubSeq(p, 1, k) /\ t = SubSeq(p, k + 1, Len(p)) /\ p = h \o t /\ Len(h) = k

LEMMA CutExists ==
  ASSUME NEW m \in Nat, NEW p, Line(p, m), NEW k \in 1 .. Len(p)
  PROVE  \E h, t : Cut(p, k, h, t)
<1>1. p \in Seq(1 .. m)
  BY DEF Line
<1>2. k \in 0 .. Len(p)
  BY <1>1
<1>3. /\ Len(SubSeq(p, 1, k)) = k
      /\ p = SubSeq(p, 1, k) \o SubSeq(p, k + 1, Len(p))
  BY <1>1, <1>2, Split
<1> QED  BY <1>3 DEF Cut

LEMMA CutIs ==
  ASSUME NEW m \in Nat, NEW p, Line(p, m), NEW k \in 1 .. Len(p), NEW h, NEW t, Cut(p, k, h, t)
  PROVE  /\ h \in Seq(1 .. m) /\ t \in Seq(1 .. m) /\ Line(h, m) /\ Line(t, m)
         /\ Elements(p) = Elements(h) \cup Elements(t) /\ Elements(h) \cap Elements(t) = {}
         /\ \A x \in Elements(h), y \in Elements(t) : x < y
<1>1. p \in Seq(1 .. m)
  BY DEF Line
<1>2. k \in 0 .. Len(p)
  BY <1>1
<1>3. SubSeq(p, 1, k) \in Seq(1 .. m) /\ SubSeq(p, k + 1, Len(p)) \in Seq(1 .. m)
  BY <1>1, <1>2, Split
<1>4. h \in Seq(1 .. m) /\ t \in Seq(1 .. m)
  BY <1>3 DEF Cut
<1>5. Line(h \o t, m)
  BY DEF Cut
<1>6. Line(h, m) /\ Line(t, m) /\ \A x \in Elements(h), y \in Elements(t) : x < y
  BY <1>4, <1>5, ConcatParts
<1>7. Elements(p) = Elements(h) \cup Elements(t)
  <2>1. Elements(h \o t) = Elements(h) \cup Elements(t)
    BY <1>4, ConcatElements
  <2> QED  BY <2>1 DEF Cut
<1>8. Elements(h) \cap Elements(t) = {}
  <2>1. Elements(h) \subseteq 1 .. m
    BY <1>4, NoneBefore
  <2>2. \A x \in 1 .. m : ~(x < x)
    OBVIOUS
  <2> QED  BY <1>6, <2>1, <2>2
<1> QED  BY <1>4, <1>6, <1>7, <1>8

(* The batch that takeBatch makes of the first k of p is a line no longer  *)
(* than maxBatchSize, and what it skips is unserialisable.                 *)
LEMMA BatchIs ==
  ASSUME byteLimited \in BOOLEAN, MaxBatchSize \in Nat \ {0}, NEW m \in Nat, NEW p, Line(p, m),
         NEW k \in 1 .. Len(p), Scannable(p, k), NEW h, NEW t, Cut(p, k, h, t)
  PROVE  /\ Batch(p, k) \in Seq(1 .. m) /\ Line(Batch(p, k), m)
         /\ Remainder(Batch(p, k), h)
         /\ Len(Batch(p, k)) <= MaxBatchSize
         /\ Elements(Batch(p, k)) = Elements(h) \ Unsendable(p, k)
         /\ Unsendable(p, k) \subseteq Elements(h)
<1>1. /\ h \in Seq(1 .. m) /\ Line(h, m) /\ Elements(h) \subseteq Elements(p)
      /\ SubSeq(p, 1, k) = h /\ Len(h) = k
  <2>1. h \in Seq(1 .. m) /\ Line(h, m) /\ Elements(h) \subseteq Elements(p)
    BY CutIs
  <2> QED  BY <2>1 DEF Cut
<1>2. CASE byteLimited
  <2>1. Batch(p, k) = Filter(h, Elements(p) \ bad)
    BY <1>1, <1>2 DEF Batch
  <2> DEFINE b == Filter(h, Elements(p) \ bad)
  <2>2. b \in Seq(1 .. m) /\ Remainder(b, h) /\ Elements(b) = Elements(h) \cap (Elements(p) \ bad)
    BY <1>1, FilterRemains
  <2> HIDE DEF b
  <2>3. Elements(b) = Elements(h) \ bad
    BY <1>1, <2>2
  <2>4. b \in Seq(Nat) /\ Line(b, m)
    <3>1. b \in Seq(Nat)
      BY <2>2
    <3> QED  BY <1>1, <2>2, <3>1, RemainderIsLine
  <2>5. Len(b) <= Cardinality(Elements(b)) /\ Cardinality(Elements(b)) \in Nat
    BY <2>4, LineLength, FS_CardinalityType
  <2>6. Cardinality(Elements(b)) <= MaxBatchSize
    BY <1>1, <1>2, <2>3 DEF Scannable
  <2>7. Len(b) <= MaxBatchSize
    <3>1. Len(b) \in Nat
      BY <2>2
    <3> QED  BY <2>5, <2>6, <3>1
  <2>8. Unsendable(p, k) = Elements(h) \cap bad
    BY <1>1, <1>2 DEF Unsendable
  <2>9. Batch(p, k) = b
    BY <2>1 DEF b
  <2> QED  BY <2>2, <2>3, <2>4, <2>7, <2>8, <2>9
<1>3. CASE ~byteLimited
  <2>1. Batch(p, k) = h /\ Unsendable(p, k) = {}
    BY <1>1, <1>3 DEF Batch, Unsendable
  <2>2. k = IF Len(p) < MaxBatchSize THEN Len(p) ELSE MaxBatchSize
    BY <1>3 DEF Scannable
  <2>3. Len(p) \in Nat
    BY DEF Line
  <2>4. Len(h) <= MaxBatchSize
    BY <1>1, <2>2, <2>3
  <2>5. Remainder(h, h)
    BY <1>1, RemainderSelf
  <2> QED  BY <1>1, <2>1, <2>4, <2>5
<1> QED  BY <1>2, <1>3

LEMMA DrainFromIs ==
  ASSUME byteLimited \in BOOLEAN, MaxBatchSize \in Nat \ {0}, NEW m \in Nat, NEW p, Line(p, m),
         NEW gone, DrainFrom(p, gone)
  PROVE  Drained(p, gone, m)
<1>1. p \in Seq(1 .. m)
  BY DEF Line
<1>2. CASE /\ p # <<>> /\ ~closed
           /\ \E k \in 1 .. Len(p) :
                /\ Scannable(p, k) /\ Batch(p, k) # <<>>
                /\ inflight' = Batch(p, k)
                /\ pending' = SubSeq(p, k + 1, Len(p))
                /\ sent' = sent \cup Elements(Batch(p, k))
                /\ dropped' = dropped \cup gone \cup Unsendable(p, k)
           /\ phase' = "sending" /\ flush' = flush
  <2>1. PICK k \in 1 .. Len(p) :
           /\ Scannable(p, k) /\ Batch(p, k) # <<>>
           /\ inflight' = Batch(p, k)
           /\ pending' = SubSeq(p, k + 1, Len(p))
           /\ sent' = sent \cup Elements(Batch(p, k))
           /\ dropped' = dropped \cup gone \cup Unsendable(p, k)
    BY <1>2
  <2>2. PICK h, t : Cut(p, k, h, t)
    BY CutExists
  <2>3. PICK b, u :
           /\ b = Batch(p, k) /\ u = Unsendable(p, k)
           /\ b \in Seq(1 .. m) /\ Line(b, m) /\ Remainder(b, h) /\ Len(b) <= MaxBatchSize
           /\ Elements(b) = Elements(h) \ u /\ u \subseteq Elements(h)
    <3>1. Scannable(p, k)
      BY <2>1
    <3>2. /\ Batch(p, k) \in Seq(1 .. m) /\ Line(Batch(p, k), m)
          /\ Remainder(Batch(p, k), h)
          /\ Len(Batch(p, k)) <= MaxBatchSize
          /\ Elements(Batch(p, k)) = Elements(h) \ Unsendable(p, k)
          /\ Unsendable(p, k) \subseteq Elements(h)
      BY <2>2, <3>1, BatchIs
    <3> QED  BY <3>2
  <2>4. /\ inflight' = b /\ pending' = t /\ b # <<>>
        /\ sent' = sent \cup Elements(b) /\ dropped' = dropped \cup gone \cup u
    BY <2>1, <2>2, <2>3 DEF Cut
  <2>5. /\ h \in Seq(1 .. m) /\ t \in Seq(1 .. m) /\ Line(t, m)
        /\ Elements(p) = Elements(h) \cup Elements(t) /\ Elements(h) \cap Elements(t) = {}
        /\ \A x \in Elements(h), y \in Elements(t) : x < y
    BY <2>2, CutIs
  <2>6. Line(b \o t, m)
    <3>1. \A x \in Elements(b), y \in Elements(t) : x < y
      BY <2>3, <2>5
    <3> QED  BY <2>3, <2>5, <3>1, ConcatLine
  <2>7. Remainder(b \o t, p)
    <3>1. Remainder(t, t)
      BY <2>5, RemainderSelf
    <3>2. Remainder(b \o t, h \o t)
      BY <2>3, <2>5, <3>1, RemainderConcat
    <3> QED  BY <2>2, <3>2 DEF Cut
  <2>8. u = Elements(p) \ Elements(b \o t)
    <3>1. Elements(b \o t) = Elements(b) \cup Elements(t)
      BY <2>3, <2>5, ConcatElements
    <3> QED  BY <2>3, <2>5, <3>1
  <2> QED  BY <1>2, <2>3, <2>4, <2>5, <2>6, <2>7, <2>8 DEF Drained
<1>3. CASE LET shed == IF p # <<>> /\ ~closed THEN Elements(p) ELSE {}
               left == IF closed THEN p ELSE <<>>
           IN
           /\ p # <<>> /\ ~closed => byteLimited /\ Elements(p) \subseteq bad
           /\ inflight' = <<>> /\ pending' = left /\ phase' = "idle"
           /\ dropped' = dropped \cup gone \cup shed
           /\ IF left = <<>> THEN ResolveFlushes(IF closed THEN "closed" ELSE "sent")
                             ELSE flush' = flush
           /\ sent' = sent
  <2>1. Elements(<<>>) = {} /\ Len(<<>>) = 0 /\ <<>> \in Seq(1 .. m)
    BY <1>1, NoneBefore
  <2>2. PICK left : /\ left = IF closed THEN p ELSE <<>>
                    /\ left \in Seq(1 .. m) /\ <<>> \o left = left
                    /\ Line(left, m) /\ Remainder(left, p)
    <3>1. CASE closed
      BY <1>1, <3>1, NoneBefore, RemainderSelf
    <3>2. CASE ~closed
      <4>1. Line(<<>>, m)
        BY DEF Line
      <4>2. <<>> \o <<>> = <<>>
        BY <2>1, NoneBefore
      <4> QED  BY <1>1, <2>1, <3>2, <4>1, <4>2, RemainderSelf
    <3> QED  BY <3>1, <3>2
  <2>3. inflight' = <<>> /\ pending' = left /\ phase' = "idle" /\ sent' = sent
    BY <1>3, <2>2
  <2>4. dropped' = dropped \cup gone \cup (Elements(p) \ Elements(left))
    <3>1. CASE closed
      BY <1>3, <2>2, <3>1
    <3>2. CASE ~closed
      BY <1>3, <2>1, <2>2, <3>2
    <3> QED  BY <3>1, <3>2
  <2>5. \/ left = <<>> /\ ResolveFlushes(IF closed THEN "closed" ELSE "sent")
        \/ left # <<>> /\ closed /\ flush' = flush
    BY <1>3, <2>2
  <2> QED  BY <2>1, <2>2, <2>3, <2>4, <2>5 DEF Drained
<1> QED  BY <1>2, <1>3 DEF DrainFrom

-----------------------------------------------------------------------------
(* The inductive step.                                                     *)

(* An event is sent for the first time only when every earlier one is      *)
(* settled or in the same batch: the step formula of Serial.               *)
FirstSends ==
  \A x \in sent' \ sent : \A y \in 1 .. x - 1 :
    y \in acked' \cup dropped' \cup Elements(inflight')

(* What a step does to the lists of events and to the flushes.             *)
Kept ==
  /\ pending' \in Seq(1 .. total') /\ inflight' \in Seq(1 .. total')
  /\ phase' \in {"idle", "sending", "sleeping"}
  /\ sent' \subseteq 1 .. total' /\ dropped' \subseteq 1 .. total'
  /\ flush' \in [Flushes -> {"new", "waiting", "sent", "closed"}]
  /\ Ordered' /\ BatchFits' /\ Sending'
  /\ NothingLost' /\ NoIdleBacklog' /\ FlushMeansSent'
  /\ FirstSends

LEMMA Flushing ==
  ASSUME NEW how \in {"sent", "closed"}, ResolveFlushes(how),
         flush \in [Flushes -> {"new", "waiting", "sent", "closed"}]
  PROVE  /\ flush' \in [Flushes -> {"new", "waiting", "sent", "closed"}]
         /\ \A f \in Flushes : flush'[f] = IF flush[f] = "waiting" THEN how ELSE flush[f]
<1>1. flush' = [f \in Flushes |-> IF flush[f] = "waiting" THEN how ELSE flush[f]]
  BY DEF ResolveFlushes
<1> QED  BY <1>1

LEMMA DrainKeeps ==
  ASSUME IInv, total' \in Nat, total <= total', NEW p, NEW gone \in SUBSET (1 .. total'),
         Drained(p, gone, total'), Elements(p) \subseteq 1 .. total',
         acked \subseteq acked', acked' \subseteq 1 .. total',
         ~closed => 1 .. total' \subseteq acked' \cup dropped \cup gone \cup Elements(p),
         closed' = closed, mark' = mark
  PROVE  Kept
<1>1. /\ total \in Nat /\ sent \subseteq 1 .. total /\ dropped \subseteq 1 .. total
      /\ flush \in [Flushes -> {"new", "waiting", "sent", "closed"}]
      /\ mark \in [Flushes -> 0 .. total] /\ FlushMeansSent
  BY DEF IInv, TypeOK
<1>2. \A y \in 1 .. total : y \in 1 .. total'
  BY <1>1
<1>3. /\ inflight' \in Seq(1 .. total') /\ pending' \in Seq(1 .. total')
      /\ Line(inflight' \o pending', total')
      /\ dropped' = dropped \cup gone \cup (Elements(p) \ Elements(inflight' \o pending'))
      /\ sent' = sent \cup Elements(inflight')
      /\ Len(inflight') <= MaxBatchSize
  BY DEF Drained
<1>4. \/ phase' = "sending" /\ inflight' # <<>> /\ ~closed /\ flush' = flush
      \/ /\ phase' = "idle" /\ inflight' = <<>>
         /\ \/ pending' = <<>> /\ ResolveFlushes(IF closed THEN "closed" ELSE "sent")
            \/ pending' # <<>> /\ closed /\ flush' = flush
  BY DEF Drained
<1>5. PICK a, b : a = inflight' /\ b = pending'
  OBVIOUS
<1>6. /\ a \in Seq(1 .. total') /\ b \in Seq(1 .. total') /\ Line(a \o b, total')
  BY <1>3, <1>5
<1>7. /\ Elements(a \o b) = Elements(a) \cup Elements(b)
      /\ Elements(a) \subseteq 1 .. total' /\ Elements(b) \subseteq 1 .. total'
      /\ \A x \in Elements(a), y \in Elements(b) : x < y
  BY <1>6, ConcatElements, NoneBefore, ConcatParts
<1>8. sent' \subseteq 1 .. total' /\ dropped' \subseteq 1 .. total'
  BY <1>1, <1>2, <1>3, <1>5, <1>7
<1>9. Ordered' /\ BatchFits' /\ Sending' /\ phase' \in {"idle", "sending", "sleeping"}
  BY <1>3, <1>4 DEF Ordered, Owed, BatchFits, Sending
<1>10. ~closed => 1 .. total' = acked' \cup dropped' \cup Elements(a) \cup Elements(b)
  <2>1. dropped' = dropped \cup gone \cup (Elements(p) \ (Elements(a) \cup Elements(b)))
    BY <1>3, <1>5, <1>7
  <2> QED  BY <1>7, <1>8, <2>1
<1>11. NothingLost'
  BY <1>5, <1>10 DEF NothingLost
<1>12. NoIdleBacklog'
  BY <1>4 DEF NoIdleBacklog
<1>13. FirstSends
  <2> SUFFICES ASSUME NEW x \in sent' \ sent, NEW y \in 1 .. x - 1
               PROVE  y \in acked' \cup dropped' \cup Elements(a)
    BY <1>5 DEF FirstSends
  <2>1. x \in Elements(a) /\ x \in 1 .. total'
    BY <1>3, <1>5, <1>7
  <2>2. a # <<>>
    BY <2>1, NoneBefore, <1>6
  <2>3. ~closed
    BY <1>4, <1>5, <2>2
  <2>4. y \in 1 .. total' /\ ~(x < y)
    BY <2>1
  <2> QED  BY <1>7, <1>10, <2>1, <2>3, <2>4
<1>14. flush' \in [Flushes -> {"new", "waiting", "sent", "closed"}] /\ FlushMeansSent'
  <2>1. \A f \in Flushes : flush[f] = "sent" => 1 .. mark'[f] \subseteq acked' \cup dropped'
    BY <1>1, <1>3 DEF FlushMeansSent
  <2>2. CASE flush' = flush
    BY <1>1, <2>1, <2>2 DEF FlushMeansSent
  <2>3. CASE /\ inflight' = <<>> /\ pending' = <<>>
             /\ ResolveFlushes(IF closed THEN "closed" ELSE "sent")
    <3>1. PICK how \in {"sent", "closed"} :
             how = (IF closed THEN "closed" ELSE "sent") /\ ResolveFlushes(how)
      BY <2>3
    <3>2. /\ flush' \in [Flushes -> {"new", "waiting", "sent", "closed"}]
          /\ \A f \in Flushes : flush'[f] = IF flush[f] = "waiting" THEN how ELSE flush[f]
      BY <1>1, <3>1, Flushing
    <3>3. how = "sent" => 1 .. total' = acked' \cup dropped'
      <4>1. Elements(a) = {} /\ Elements(b) = {}
        BY <1>5, <1>6, <2>3, NoneBefore
      <4> QED  BY <1>10, <3>1, <4>1
    <3>4. \A f \in Flushes : \A y \in 1 .. mark[f] : y \in 1 .. total'
      BY <1>1
    <3>5. ASSUME NEW f \in Flushes, flush'[f] = "sent"  PROVE 1 .. mark'[f] \subseteq acked' \cup dropped'
      <4>1. CASE flush[f] = "waiting"
        BY <3>2, <3>3, <3>4, <3>5, <4>1
      <4>2. CASE flush[f] # "waiting"
        BY <2>1, <3>2, <3>5, <4>2
      <4> QED  BY <4>1, <4>2
    <3> QED  BY <3>2, <3>5 DEF FlushMeansSent
  <2> QED  BY <1>4, <2>2, <2>3
<1> QED  BY <1>3, <1>8, <1>9, <1>11, <1>12, <1>13, <1>14 DEF Kept

LEMMA Facts ==
  ASSUME IInv
  PROVE  /\ total \in Nat /\ Line(Owed, total)
         /\ inflight \in Seq(1 .. total) /\ pending \in Seq(1 .. total)
         /\ Line(inflight, total) /\ Line(pending, total)
         /\ Elements(Owed) = Elements(inflight) \cup Elements(pending)
         /\ Elements(inflight) \subseteq 1 .. total /\ Elements(pending) \subseteq 1 .. total
         /\ Elements(inflight) \cap Elements(pending) = {}
         /\ inflight = <<>> => Owed = pending
         /\ Len(inflight) \in Nat /\ Len(pending) \in Nat /\ Len(Owed) = Len(inflight) + Len(pending)
         /\ Len(inflight) <= MaxBatchSize
         /\ phase = "sending" <=> inflight # <<>>
         /\ acked \subseteq 1 .. total /\ dropped \subseteq 1 .. total /\ sent \subseteq 1 .. total
         /\ mark \in [Flushes -> 0 .. total] /\ byteLimited \in BOOLEAN
         /\ closed \in BOOLEAN /\ failures \in Nat /\ size \in [Call -> 1 .. MaxItems]
<1>1. /\ total \in Nat /\ Line(Owed, total)
      /\ inflight \in Seq(1 .. total) /\ pending \in Seq(1 .. total)
      /\ Len(inflight) <= MaxBatchSize /\ (phase = "sending" <=> inflight # <<>>)
      /\ acked \subseteq 1 .. total /\ dropped \subseteq 1 .. total /\ sent \subseteq 1 .. total
      /\ mark \in [Flushes -> 0 .. total] /\ byteLimited \in BOOLEAN
      /\ closed \in BOOLEAN /\ failures \in Nat /\ size \in [Call -> 1 .. MaxItems]
  BY DEF IInv, TypeOK, Ordered, BatchFits, Sending
<1>2. /\ Elements(inflight \o pending) = Elements(inflight) \cup Elements(pending)
      /\ Elements(inflight) \subseteq 1 .. total /\ Elements(pending) \subseteq 1 .. total
      /\ Len(inflight \o pending) = Len(inflight) + Len(pending)
  BY <1>1, ConcatElements, NoneBefore, ConcatProperties
<1>3. Line(inflight \o pending, total)
  BY <1>1 DEF Owed
<1>4. /\ Line(inflight, total) /\ Line(pending, total)
      /\ \A x \in Elements(inflight), y \in Elements(pending) : x < y
  BY <1>1, <1>3, ConcatParts
<1>5. Elements(inflight) \cap Elements(pending) = {}
  <2>1. \A x \in 1 .. total : ~(x < x)
    OBVIOUS
  <2> QED  BY <1>2, <1>4, <2>1
<1>6. inflight = <<>> => Owed = pending
  BY <1>1, ConcatEmptySeq DEF Owed
<1>7. Len(inflight) \in Nat /\ Len(pending) \in Nat
  BY <1>1
<1> QED  BY <1>1, <1>2, <1>4, <1>5, <1>6, <1>7 DEF Owed

(* The events of call c, `new`, enter the buffer.                          *)
Came(c, new) ==
  /\ new \in Seq(1 .. total') /\ Len(new) = size[c] /\ size[c] \in Nat \ {0}
  /\ total' \in Nat /\ total' = total + size[c]
  /\ new = [i \in 1 .. size[c] |-> total + i]
  /\ Line(Owed \o new, total') /\ Owed \o new = inflight \o (pending \o new)
  /\ Elements(Owed \o new) = Elements(inflight) \cup Elements(pending) \cup Elements(new)
  /\ Elements(pending \o new) = Elements(pending) \cup Elements(new)
  /\ 1 .. total' = (1 .. total) \cup Elements(new)
  /\ pending \o new \in Seq(1 .. total')
  /\ Drain(pending \o new)

LEMMA Wider ==
  ASSUME NEW n \in Nat, NEW m \in Nat, n <= m, NEW s \in Seq(1 .. n)
  PROVE  s \in Seq(1 .. m) /\ (Line(s, n) => Line(s, m))
<1>1. \A i \in 1 .. Len(s) : s[i] \in 1 .. m
  BY SMT
<1>2. s \in Seq(1 .. m)
  BY <1>1
<1> QED  BY <1>2 DEF Line

LEMMA AcceptIs ==
  ASSUME IInv, NEW c \in Call, Accept(c)
  PROVE  \E new : Came(c, new)
<1> DEFINE n == size[c]  new == [i \in 1 .. n |-> total + i]  m == total + n
<1>1. /\ total \in Nat /\ n \in Nat /\ n > 0 /\ m \in Nat /\ total <= m
      /\ inflight \in Seq(1 .. total) /\ pending \in Seq(1 .. total) /\ Line(Owed, total)
  <2>1. size \in [Call -> 1 .. MaxItems] /\ total \in Nat
    BY Facts
  <2>2. n \in Nat /\ n > 0
    BY <2>1, UploaderAssumption
  <2> QED  BY <2>1, <2>2, Facts
<1>2. total' = m /\ Drain(pending \o new)
  BY DEF Accept
<1>3. /\ new \in Seq(1 .. m) /\ Len(new) = n
      /\ \A i \in 1 .. n : new[i] = total + i
  <2>1. \A i \in 1 .. n : total + i \in 1 .. m
    BY <1>1
  <2> HIDE DEF n, m
  <2>2. new \in [1 .. n -> 1 .. m] /\ \A i \in 1 .. n : new[i] = total + i
    BY <2>1
  <2> HIDE DEF new
  <2>3. new \in Seq(1 .. m)
    BY <1>1, <2>2
  <2>4. Len(new) = n
    BY <1>1, <2>2
  <2> QED  BY <2>2, <2>3, <2>4
<1> HIDE DEF n, new, m
<1>4. Line(new, m)
  <2>1. ASSUME NEW i \in 1 .. Len(new), NEW j \in 1 .. Len(new), i < j  PROVE new[i] < new[j]
    BY <1>1, <1>3, <2>1
  <2> QED  BY <1>3, <2>1 DEF Line
<1>5. /\ Owed \in Seq(1 .. m) /\ Line(Owed, m)
      /\ inflight \in Seq(1 .. m) /\ pending \in Seq(1 .. m)
  <2>1. Owed \in Seq(1 .. total)
    BY <1>1 DEF Line
  <2> QED  BY <1>1, <2>1, Wider
<1>6. \A x \in Elements(new) : x \in 1 .. m /\ total < x
  <2>1. \A i \in 1 .. n : total + i \in 1 .. m /\ total < total + i
    BY <1>1 DEF m
  <2> QED  BY <1>3, <2>1 DEF Elements
<1>7. Line(Owed \o new, m)
  <2>1. Elements(Owed) \subseteq 1 .. total
    BY Facts
  <2>2. \A x \in Elements(Owed), y \in Elements(new) : x < y
    BY <1>1, <1>6, <2>1
  <2> QED  BY <1>1, <1>4, <1>5, <2>2, ConcatLine
<1>8. Owed \o new = inflight \o (pending \o new)
  BY <1>3, <1>5, ConcatAssociative DEF Owed
<1>9. /\ Elements(Owed \o new) = Elements(Owed) \cup Elements(new)
      /\ Elements(pending \o new) = Elements(pending) \cup Elements(new)
      /\ pending \o new \in Seq(1 .. m)
  BY <1>3, <1>5, ConcatElements, ConcatProperties
<1>10. 1 .. m = (1 .. total) \cup Elements(new)
  <2>1. ASSUME NEW y \in 1 .. m, y \notin 1 .. total  PROVE y \in Elements(new)
    <3>1. y - total \in 1 .. n /\ total + (y - total) = y
      BY <1>1, <2>1 DEF m
    <3>2. new[y - total] = y
      BY <1>3, <3>1
    <3> QED  BY <1>3, <3>1, <3>2 DEF Elements
  <2>2. \A y \in 1 .. total : y \in 1 .. m
    BY <1>1
  <2> QED  BY <1>6, <2>1, <2>2
<1>11. Elements(Owed) = Elements(inflight) \cup Elements(pending)
  BY Facts
<1>12. new = [i \in 1 .. n |-> total + i]
  BY DEF new
<1>13. n = size[c] /\ m = total + size[c] /\ total' = m
  BY <1>2 DEF n, m
<1>14. Elements(Owed \o new) = Elements(inflight) \cup Elements(pending) \cup Elements(new)
  BY <1>9, <1>11
<1>15. n \in Nat \ {0}
  BY <1>1
<1>16. Came(c, new)
  BY <1>1, <1>2, <1>3, <1>7, <1>8, <1>9, <1>10, <1>12, <1>13, <1>14, <1>15 DEF Came
<1> QED  BY <1>16

(* The next state satisfies the invariant if the lists do (Kept) and the   *)
(* other variables have their types.                                       *)
LEMMA KeptSuffices ==
  ASSUME IInv, Kept, UNCHANGED config,
         total' \in Nat, acked' \subseteq 1 .. total', closed' \in BOOLEAN,
         mark' \in [Flushes -> 0 .. total'],
         failures' \in Nat, failureLimit # 0 => failures' < failureLimit,
         call' \in [Call -> {"new", "waiting", "woken", "accepted", "ignored"}],
         waiting' \in Seq(Call), woken' \in Seq(Call)
  PROVE  IInv'
<1>1. TypeOK'
  <2>1. /\ byteLimited' \in BOOLEAN /\ failureLimit' \in FailureLimits
        /\ size' \in [Call -> 1 .. MaxItems] /\ bad' \in Poison
    BY DEF IInv, TypeOK, config
  <2>2. failureLimit' = failureLimit
    BY DEF config
  <2> QED  BY <2>1, <2>2 DEF TypeOK, Kept
<1> QED  BY <1>1 DEF IInv, Kept

(* A step that touches neither the lists nor the flushes.                  *)
LEMMA RestKeeps ==
  ASSUME IInv, UNCHANGED <<total, pending, inflight, phase, flush, sent, dropped, acked, mark>>,
         closed \in BOOLEAN, closed' \in BOOLEAN, closed => closed'
  PROVE  Kept
<1>1. /\ pending' \in Seq(1 .. total') /\ inflight' \in Seq(1 .. total')
      /\ phase' \in {"idle", "sending", "sleeping"}
      /\ sent' \subseteq 1 .. total' /\ dropped' \subseteq 1 .. total'
      /\ flush' \in [Flushes -> {"new", "waiting", "sent", "closed"}]
  BY DEF IInv, TypeOK
<1>2. Ordered' /\ BatchFits' /\ Sending'
  BY DEF IInv, Ordered, Owed, BatchFits, Sending
<1>3. NothingLost' /\ NoIdleBacklog' /\ FlushMeansSent'
  BY DEF IInv, NothingLost, NoIdleBacklog, FlushMeansSent
<1>4. FirstSends
  BY DEF FirstSends
<1> QED  BY <1>1, <1>2, <1>3, <1>4 DEF Kept

LEMMA AttemptKeeps ==
  ASSUME IInv, NEW c \in Call, Attempt(c), UNCHANGED <<config, closed, mark, acked>>
  PROVE  /\ Kept /\ total' \in Nat /\ total <= total'
         /\ failures' \in Nat /\ (failureLimit # 0 => failures' < failureLimit)
         /\ call' \in [Call -> {"new", "waiting", "woken", "accepted", "ignored"}]
         /\ waiting' \in Seq(Call)
<1>1. /\ call' \in [Call -> {"new", "waiting", "woken", "accepted", "ignored"}]
      /\ waiting' \in Seq(Call)
  <2>1. /\ call \in [Call -> {"new", "waiting", "woken", "accepted", "ignored"}]
        /\ waiting \in Seq(Call)
    BY DEF IInv, TypeOK
  <2>2. waiting' = waiting \/ waiting' = Append(waiting, c)
    BY DEF Attempt
  <2>3. waiting' \in Seq(Call)
    BY <2>1, <2>2
  <2>4. PICK v \in {"ignored", "accepted", "waiting"} : call' = [call EXCEPT ![c] = v]
    BY DEF Attempt
  <2> QED  BY <2>1, <2>3, <2>4
<1>2. /\ failures \in Nat /\ (failureLimit # 0 => failures < failureLimit)
      /\ failureLimit \in Nat /\ total \in Nat /\ closed \in BOOLEAN
  BY UploaderAssumption DEF IInv, TypeOK
<1>3. CASE UNCHANGED <<total, pending, inflight, phase, failures, flush, sent, dropped>>
  <2>1. Kept
    BY <1>2, <1>3, RestKeeps
  <2> QED  BY <1>1, <1>2, <1>3, <2>1
<1>4. CASE Accept(c)
  <2>1. PICK new : Came(c, new)
    BY <1>4, AcceptIs
  <2>2. /\ total' \in Nat /\ total' = total + size[c] /\ size[c] \in Nat \ {0}
        /\ Line(Owed \o new, total') /\ Owed \o new = inflight \o (pending \o new)
        /\ Elements(pending \o new) = Elements(pending) \cup Elements(new)
        /\ 1 .. total' = (1 .. total) \cup Elements(new)
        /\ pending \o new \in Seq(1 .. total')
        /\ Drain(pending \o new)
    BY <2>1 DEF Came
  <2>3. total <= total'
    BY <1>2, <2>2
  <2>4. PICK p : p = pending \o new
    OBVIOUS
  <2>5. /\ p \in Seq(1 .. total') /\ Elements(p) = Elements(pending) \cup Elements(new)
        /\ Line(inflight \o p, total') /\ Drain(p)
    BY <2>2, <2>4
  <2>6. acked' = acked /\ closed' = closed /\ mark' = mark
    OBVIOUS
  <2>7. \A x \in 1 .. total : x \in 1 .. total'
    BY <2>2
  <2>8. ~closed => 1 .. total' = acked \cup dropped \cup Elements(inflight) \cup Elements(p)
    <3>1. ~closed => 1 .. total = acked \cup dropped \cup Elements(inflight) \cup Elements(pending)
      BY DEF IInv, NothingLost
    <3> QED  BY <2>2, <2>5, <3>1
  <2>9. /\ acked \subseteq 1 .. total /\ dropped \subseteq 1 .. total /\ sent \subseteq 1 .. total
        /\ inflight \in Seq(1 .. total) /\ (phase = "sending" <=> inflight # <<>>)
    BY Facts
  <2>10. CASE phase = "idle" /\ ~closed
    <3>1. DrainFrom(p, {}) /\ failures' = 0
      BY <2>5, <2>10 DEF Drain
    <3>2. inflight = <<>>
      BY <2>9, <2>10
    <3>3. Line(p, total')
      BY <2>5, <3>2, ConcatEmptySeq
    <3>4. byteLimited \in BOOLEAN
      BY Facts
    <3>5. Drained(p, {}, total')
      BY <2>2, <3>1, <3>3, <3>4, UploaderAssumption, DrainFromIs
    <3>6. Elements(inflight) = {} /\ Elements(p) \subseteq 1 .. total'
      BY <2>5, <2>9, <3>2, NoneBefore
    <3>7. Kept
      BY <2>2, <2>3, <2>6, <2>7, <2>8, <2>9, <3>5, <3>6, DrainKeeps
    <3>8. failures' \in Nat /\ (failureLimit # 0 => failures' < failureLimit)
      BY <1>2, <3>1
    <3> QED  BY <1>1, <2>2, <2>3, <3>7, <3>8
  <2>11. CASE ~(phase = "idle" /\ ~closed)
    <3>1. pending' = p /\ UNCHANGED <<inflight, phase, failures, flush, sent, dropped>>
      BY <2>5, <2>11 DEF Drain
    <3>2. /\ pending' \in Seq(1 .. total') /\ inflight' \in Seq(1 .. total')
          /\ phase' \in {"idle", "sending", "sleeping"}
          /\ sent' \subseteq 1 .. total' /\ dropped' \subseteq 1 .. total'
          /\ flush' \in [Flushes -> {"new", "waiting", "sent", "closed"}]
      <4>1. inflight \in Seq(1 .. total')
        BY <1>2, <2>2, <2>3, <2>9, Wider
      <4>2. sent \subseteq 1 .. total' /\ dropped \subseteq 1 .. total'
        BY <2>7, <2>9
      <4>3. phase \in {"idle", "sending", "sleeping"} /\ flush \in [Flushes -> {"new", "waiting", "sent", "closed"}]
        BY DEF IInv, TypeOK
      <4> QED  BY <2>5, <3>1, <4>1, <4>2, <4>3
    <3>3. Ordered'
      BY <2>5, <3>1 DEF Ordered, Owed
    <3>4. BatchFits' /\ Sending'
      BY <3>1 DEF IInv, BatchFits, Sending
    <3>5. NothingLost' /\ FlushMeansSent'
      BY <2>6, <2>8, <3>1 DEF IInv, NothingLost, FlushMeansSent
    <3>6. NoIdleBacklog'
      BY <2>6, <2>11, <3>1 DEF NoIdleBacklog
    <3>7. FirstSends
      BY <3>1 DEF FirstSends
    <3> QED  BY <1>1, <1>2, <2>2, <2>3, <3>1, <3>2, <3>3, <3>4, <3>5, <3>6, <3>7 DEF Kept
  <2> QED  BY <2>10, <2>11
<1> QED  BY <1>3, <1>4 DEF Attempt

LEMMA EnqueueKeeps ==
  ASSUME IInv, NEW c \in Call, Enqueue(c)
  PROVE  IInv' /\ FirstSends
<1>1. Attempt(c) /\ UNCHANGED <<config, closed, woken, mark, acked>>
  BY DEF Enqueue
<1>2. /\ Kept /\ total' \in Nat /\ total <= total'
      /\ failures' \in Nat /\ (failureLimit # 0 => failures' < failureLimit)
      /\ call' \in [Call -> {"new", "waiting", "woken", "accepted", "ignored"}]
      /\ waiting' \in Seq(Call)
  BY <1>1, AttemptKeeps
<1>3. acked' \subseteq 1 .. total' /\ mark' \in [Flushes -> 0 .. total']
  <2>1. total \in Nat /\ acked \subseteq 1 .. total /\ mark \in [Flushes -> 0 .. total]
    BY Facts
  <2>2. (\A x \in 1 .. total : x \in 1 .. total') /\ (\A x \in 0 .. total : x \in 0 .. total')
    BY <1>2, <2>1
  <2> QED  BY <1>1, <2>1, <2>2
<1>4. closed' \in BOOLEAN /\ woken' \in Seq(Call)
  BY <1>1 DEF IInv, TypeOK
<1>5. UNCHANGED config
  BY <1>1
<1>6. IInv'
  BY <1>2, <1>3, <1>4, <1>5, KeptSuffices
<1> QED  BY <1>2, <1>6 DEF Kept

LEMMA WokenResumesKeeps ==
  ASSUME IInv, WokenResumes
  PROVE  IInv' /\ FirstSends
<1>1. /\ woken # <<>> /\ Attempt(Head(woken)) /\ woken' = Tail(woken)
      /\ UNCHANGED <<config, closed, mark, acked>>
  BY DEF WokenResumes
<1>2. woken \in Seq(Call)
  BY DEF IInv, TypeOK
<1>3. Head(woken) \in Call /\ woken' \in Seq(Call)
  BY <1>1, <1>2
<1>4. /\ Kept /\ total' \in Nat /\ total <= total'
      /\ failures' \in Nat /\ (failureLimit # 0 => failures' < failureLimit)
      /\ call' \in [Call -> {"new", "waiting", "woken", "accepted", "ignored"}]
      /\ waiting' \in Seq(Call)
  BY <1>1, <1>3, AttemptKeeps
<1>5. acked' \subseteq 1 .. total' /\ mark' \in [Flushes -> 0 .. total']
  <2>1. total \in Nat /\ acked \subseteq 1 .. total /\ mark \in [Flushes -> 0 .. total]
    BY Facts
  <2>2. (\A x \in 1 .. total : x \in 1 .. total') /\ (\A x \in 0 .. total : x \in 0 .. total')
    BY <1>4, <2>1
  <2> QED  BY <1>1, <2>1, <2>2
<1>6. closed' \in BOOLEAN
  BY <1>1 DEF IInv, TypeOK
<1>7. UNCHANGED config
  BY <1>1
<1>8. IInv'
  BY <1>3, <1>4, <1>5, <1>6, <1>7, KeptSuffices
<1> QED  BY <1>4, <1>8 DEF Kept

LEMMA ReleaseKeeps ==
  ASSUME IInv, ReleaseBackpressure
  PROVE  /\ call' \in [Call -> {"new", "waiting", "woken", "accepted", "ignored"}]
         /\ waiting' \in Seq(Call) /\ woken' \in Seq(Call)
<1>1. /\ call \in [Call -> {"new", "waiting", "woken", "accepted", "ignored"}]
      /\ waiting \in Seq(Call) /\ woken \in Seq(Call)
  BY DEF IInv, TypeOK
<1>2. waiting' \in Seq(Call) /\ woken' \in Seq(Call)
  BY <1>1 DEF ReleaseBackpressure
<1>3. call' \in [Call -> {"new", "waiting", "woken", "accepted", "ignored"}]
  BY <1>1 DEF ReleaseBackpressure
<1> QED  BY <1>2, <1>3

(* The rest of a step that drains the buffer: nothing enters it, and the   *)
(* batch in flight is settled.                                             *)
LEMMA SettleKeeps ==
  ASSUME IInv, NEW gone \in SUBSET (1 .. total), DrainFrom(pending, gone), acked \subseteq acked',
         acked' \subseteq 1 .. total, Elements(inflight) \subseteq acked' \cup gone,
         UNCHANGED <<config, total, closed, mark>>,
         failures' \in Nat, failureLimit # 0 => failures' < failureLimit,
         call' \in [Call -> {"new", "waiting", "woken", "accepted", "ignored"}],
         waiting' \in Seq(Call), woken' \in Seq(Call)
  PROVE  IInv' /\ FirstSends
<1>1. /\ total \in Nat /\ Line(pending, total) /\ byteLimited \in BOOLEAN
      /\ Elements(pending) \subseteq 1 .. total /\ mark \in [Flushes -> 0 .. total]
      /\ closed \in BOOLEAN
  BY Facts
<1>2. total' = total /\ closed' = closed /\ mark' = mark
  OBVIOUS
<1>3. Drained(pending, gone, total')
  BY <1>1, <1>2, UploaderAssumption, DrainFromIs
<1>4. ~closed => 1 .. total' \subseteq acked' \cup dropped \cup gone \cup Elements(pending)
  <2>1. ~closed => 1 .. total = acked \cup dropped \cup Elements(inflight) \cup Elements(pending)
    BY DEF IInv, NothingLost
  <2> QED  BY <1>2, <2>1
<1>5. total' \in Nat /\ total <= total' /\ gone \in SUBSET (1 .. total') /\ acked' \subseteq 1 .. total'
  BY <1>1, <1>2
<1>6. Kept
  BY <1>1, <1>2, <1>3, <1>4, <1>5, DrainKeeps
<1>7. IInv'
  BY <1>1, <1>2, <1>5, <1>6, KeptSuffices
<1> QED  BY <1>6, <1>7 DEF Kept

LEMMA SendSucceedsKeeps ==
  ASSUME IInv, SendSucceeds
  PROVE  IInv' /\ FirstSends
<1>1. /\ acked' = acked \cup Elements(inflight) /\ failures' = 0
      /\ ReleaseBackpressure /\ DrainFrom(pending, {})
      /\ UNCHANGED <<config, total, closed, mark>>
  BY DEF SendSucceeds
<1>2. Elements(inflight) \subseteq 1 .. total /\ acked \subseteq 1 .. total
  BY Facts
<1>3. failures' \in Nat /\ (failureLimit # 0 => failures' < failureLimit)
  <2>1. failureLimit \in Nat
    BY UploaderAssumption DEF IInv, TypeOK
  <2> QED  BY <1>1, <2>1
<1>4. /\ call' \in [Call -> {"new", "waiting", "woken", "accepted", "ignored"}]
      /\ waiting' \in Seq(Call) /\ woken' \in Seq(Call)
  BY <1>1, ReleaseKeeps
<1> QED  BY <1>1, <1>2, <1>3, <1>4, SettleKeeps

LEMMA GiveUpKeeps ==
  ASSUME IInv, GiveUp, UNCHANGED <<config, total, closed, mark, acked>>
  PROVE  IInv' /\ FirstSends
<1>1. failures' = 0 /\ ReleaseBackpressure /\ DrainFrom(pending, Elements(inflight))
  BY DEF GiveUp
<1>2. Elements(inflight) \subseteq 1 .. total /\ acked \subseteq 1 .. total
  BY Facts
<1>3. failures' \in Nat /\ (failureLimit # 0 => failures' < failureLimit)
  <2>1. failureLimit \in Nat
    BY UploaderAssumption DEF IInv, TypeOK
  <2> QED  BY <1>1, <2>1
<1>4. /\ call' \in [Call -> {"new", "waiting", "woken", "accepted", "ignored"}]
      /\ waiting' \in Seq(Call) /\ woken' \in Seq(Call)
  BY <1>1, ReleaseKeeps
<1>5. UNCHANGED <<config, total, closed, mark>> /\ acked' = acked
  OBVIOUS
<1> QED  BY <1>1, <1>2, <1>3, <1>4, <1>5, SettleKeeps

LEMMA SleepEndsKeeps ==
  ASSUME IInv, SleepEnds
  PROVE  IInv' /\ FirstSends
<1>1. /\ phase = "sleeping" /\ DrainFrom(pending, {})
      /\ UNCHANGED <<config, call, total, failures, closed, waiting, woken, mark, acked>>
  BY DEF SleepEnds
<1>2. acked \subseteq 1 .. total /\ inflight = <<>> /\ inflight \in Seq(1 .. total)
  BY <1>1, Facts
<1>3. Elements(inflight) = {}
  BY <1>2, NoneBefore
<1>4. /\ failures' \in Nat /\ (failureLimit # 0 => failures' < failureLimit)
      /\ call' \in [Call -> {"new", "waiting", "woken", "accepted", "ignored"}]
      /\ waiting' \in Seq(Call) /\ woken' \in Seq(Call)
  BY <1>1 DEF IInv, TypeOK
<1>5. UNCHANGED <<config, total, closed, mark>> /\ acked' = acked
  BY <1>1
<1> QED  BY <1>1, <1>2, <1>3, <1>4, <1>5, SettleKeeps

LEMMA PutBackKeeps ==
  ASSUME IInv, phase = "sending", ~LimitReached, PutBack,
         UNCHANGED <<config, total, closed, mark, acked>>
  PROVE  IInv' /\ FirstSends
<1>1. /\ failures' = IF failureLimit = 0 THEN 0 ELSE failures + 1
      /\ pending' = inflight \o pending /\ inflight' = <<>> /\ phase' = "sleeping"
      /\ UNCHANGED <<call, waiting, woken, flush, sent, dropped>>
  BY DEF PutBack
<1>2. /\ failures \in Nat /\ failureLimit \in Nat /\ closed \in BOOLEAN
      /\ mark \in [Flushes -> 0 .. total]
      /\ call \in [Call -> {"new", "waiting", "woken", "accepted", "ignored"}]
      /\ waiting \in Seq(Call) /\ woken \in Seq(Call)
      /\ flush \in [Flushes -> {"new", "waiting", "sent", "closed"}]
  BY UploaderAssumption DEF IInv, TypeOK
<1>3. failures' \in Nat /\ (failureLimit # 0 => failures' < failureLimit)
  BY <1>1, <1>2 DEF LimitReached
<1>4. PICK s : s = inflight \o pending
  OBVIOUS
<1>5. /\ total \in Nat /\ Line(s, total) /\ Elements(s) = Elements(inflight) \cup Elements(pending)
      /\ acked \subseteq 1 .. total /\ dropped \subseteq 1 .. total /\ sent \subseteq 1 .. total
  BY <1>4, Facts DEF Owed
<1>6. pending' = s /\ inflight' = <<>> /\ s \in Seq(1 .. total) /\ <<>> \in Seq(1 .. total)
  BY <1>1, <1>4, <1>5 DEF Line
<1>7. /\ pending' \in Seq(1 .. total') /\ inflight' \in Seq(1 .. total')
      /\ phase' \in {"idle", "sending", "sleeping"}
      /\ sent' \subseteq 1 .. total' /\ dropped' \subseteq 1 .. total'
      /\ flush' \in [Flushes -> {"new", "waiting", "sent", "closed"}]
  BY <1>1, <1>2, <1>5, <1>6
<1>8. Ordered'
  <2>1. inflight' \o pending' = s
    BY <1>6, ConcatEmptySeq
  <2> QED  BY <1>5, <2>1 DEF Ordered, Owed
<1>9. BatchFits' /\ Sending' /\ NoIdleBacklog'
  <2>1. Len(<<>>) = 0 /\ 0 <= MaxBatchSize
    BY UploaderAssumption
  <2> QED  BY <1>1, <2>1 DEF BatchFits, Sending, NoIdleBacklog
<1>10. NothingLost'
  <2>1. Elements(<<>>) = {}
    BY <1>6, NoneBefore
  <2>2. ~closed => 1 .. total = acked \cup dropped \cup Elements(inflight) \cup Elements(pending)
    BY DEF IInv, NothingLost
  <2>3. ~closed => 1 .. total = acked \cup dropped \cup Elements(<<>>) \cup Elements(s)
    BY <1>5, <2>1, <2>2
  <2> QED  BY <1>1, <1>6, <2>3 DEF NothingLost
<1>11. FlushMeansSent' /\ FirstSends
  BY <1>1 DEF IInv, FlushMeansSent, FirstSends
<1>12. Kept
  BY <1>7, <1>8, <1>9, <1>10, <1>11 DEF Kept
<1>13. IInv'
  BY <1>1, <1>2, <1>3, <1>5, <1>12, KeptSuffices
<1> QED  BY <1>11, <1>13

LEMMA SendFailsKeeps ==
  ASSUME IInv, SendFails
  PROVE  IInv' /\ FirstSends
<1>1. /\ phase = "sending" /\ UNCHANGED <<config, total, closed, mark, acked>>
      /\ GiveUp \/ (~LimitReached /\ PutBack)
  BY DEF SendFails
<1>2. CASE GiveUp
  BY <1>1, <1>2, GiveUpKeeps
<1>3. CASE ~LimitReached /\ PutBack
  BY <1>1, <1>3, PutBackKeeps
<1> QED  BY <1>1, <1>2, <1>3

LEMMA FlushKeeps ==
  ASSUME IInv, NEW f \in Flushes, Flush(f)
  PROVE  IInv' /\ FirstSends
<1>1. /\ flush[f] = "new"
      /\ flush' = [flush EXCEPT ![f] =
                     IF pending # <<>> \/ phase # "idle" THEN "waiting"
                     ELSE IF closed THEN "closed" ELSE "sent"]
      /\ mark' = [mark EXCEPT ![f] = total]
      /\ UNCHANGED <<config, call, total, pending, inflight, phase, failures,
                     closed, waiting, woken, sent, acked, dropped>>
  BY DEF Flush
<1>2. /\ total \in Nat /\ mark \in [Flushes -> 0 .. total] /\ acked \subseteq 1 .. total
      /\ flush \in [Flushes -> {"new", "waiting", "sent", "closed"}]
      /\ inflight \in Seq(1 .. total) /\ (phase = "sending" <=> inflight # <<>>)
  BY Facts DEF IInv, TypeOK
<1>3. mark' \in [Flushes -> 0 .. total']
  <2>1. total \in 0 .. total
    BY <1>2
  <2> QED  BY <1>1, <1>2, <2>1
<1>4. PICK v \in {"waiting", "closed", "sent"} :
        /\ flush' = [flush EXCEPT ![f] = v]
        /\ v = "sent" => pending = <<>> /\ phase = "idle" /\ ~closed
  BY <1>1
<1>5. FlushMeansSent'
  <2> SUFFICES ASSUME NEW g \in Flushes, flush'[g] = "sent"
               PROVE  1 .. mark'[g] \subseteq acked \cup dropped
    BY <1>1 DEF FlushMeansSent
  <2>1. CASE g = f
    <3>1. v = "sent" /\ mark'[f] = total
      BY <1>1, <1>2, <1>4, <2>1
    <3>2. inflight = <<>> /\ pending = <<>> /\ ~closed
      BY <1>2, <1>4, <3>1
    <3>3. Elements(inflight) = {} /\ Elements(pending) = {}
      BY <1>2, <3>2, NoneBefore
    <3>4. 1 .. total = acked \cup dropped
      BY <3>2, <3>3 DEF IInv, NothingLost
    <3> QED  BY <2>1, <3>1, <3>4
  <2>2. CASE g # f
    <3>1. flush[g] = "sent" /\ mark'[g] = mark[g]
      BY <1>1, <1>2, <1>4, <2>2
    <3> QED  BY <3>1 DEF IInv, FlushMeansSent
  <2> QED  BY <2>1, <2>2
<1>6. /\ pending' \in Seq(1 .. total') /\ inflight' \in Seq(1 .. total')
      /\ phase' \in {"idle", "sending", "sleeping"}
      /\ sent' \subseteq 1 .. total' /\ dropped' \subseteq 1 .. total'
  BY <1>1 DEF IInv, TypeOK
<1>7. flush' \in [Flushes -> {"new", "waiting", "sent", "closed"}]
  BY <1>2, <1>4
<1>8. Ordered' /\ BatchFits' /\ Sending' /\ NothingLost' /\ NoIdleBacklog' /\ FirstSends
  BY <1>1 DEF IInv, Ordered, Owed, BatchFits, Sending, NothingLost, NoIdleBacklog, FirstSends
<1>9. Kept
  BY <1>5, <1>6, <1>7, <1>8 DEF Kept
<1>10. /\ failures' \in Nat /\ (failureLimit # 0 => failures' < failureLimit)
       /\ call' \in [Call -> {"new", "waiting", "woken", "accepted", "ignored"}]
       /\ waiting' \in Seq(Call) /\ woken' \in Seq(Call) /\ closed' \in BOOLEAN
       /\ total' \in Nat /\ acked' \subseteq 1 .. total' /\ UNCHANGED config
  BY <1>1 DEF IInv, TypeOK
<1>11. IInv'
  BY <1>3, <1>9, <1>10, KeptSuffices
<1> QED  BY <1>8, <1>11

LEMMA CloseKeeps ==
  ASSUME IInv, Close
  PROVE  IInv' /\ FirstSends
<1>1. /\ ~closed /\ closed' = TRUE /\ pending' = <<>>
      /\ ReleaseBackpressure /\ ResolveFlushes("closed")
      /\ UNCHANGED <<config, total, inflight, phase, failures, mark, sent, acked, dropped>>
  BY DEF Close
<1>2. /\ total \in Nat /\ inflight \in Seq(1 .. total) /\ Line(inflight, total)
      /\ mark \in [Flushes -> 0 .. total] /\ acked \subseteq 1 .. total
      /\ flush \in [Flushes -> {"new", "waiting", "sent", "closed"}]
  BY Facts DEF IInv, TypeOK
<1>3. /\ flush' \in [Flushes -> {"new", "waiting", "sent", "closed"}]
      /\ \A f \in Flushes : flush'[f] = IF flush[f] = "waiting" THEN "closed" ELSE flush[f]
  BY <1>1, <1>2, Flushing
<1>4. /\ inflight' \in Seq(1 .. total') /\ phase' \in {"idle", "sending", "sleeping"}
      /\ sent' \subseteq 1 .. total' /\ dropped' \subseteq 1 .. total'
  BY <1>1 DEF IInv, TypeOK
<1>5. pending' \in Seq(1 .. total')
  BY <1>1
<1>6. Ordered'
  <2>1. inflight' \o pending' = inflight
    BY <1>1, <1>2, ConcatEmptySeq
  <2> QED  BY <1>1, <1>2, <2>1 DEF Ordered, Owed
<1>7. BatchFits' /\ Sending' /\ NothingLost' /\ NoIdleBacklog' /\ FirstSends
  BY <1>1 DEF IInv, BatchFits, Sending, NothingLost, NoIdleBacklog, FirstSends
<1>8. FlushMeansSent'
  BY <1>1, <1>3 DEF IInv, FlushMeansSent
<1>9. Kept
  BY <1>3, <1>4, <1>5, <1>6, <1>7, <1>8 DEF Kept
<1>10. /\ call' \in [Call -> {"new", "waiting", "woken", "accepted", "ignored"}]
       /\ waiting' \in Seq(Call) /\ woken' \in Seq(Call)
  BY <1>1, ReleaseKeeps
<1>11. /\ failures' \in Nat /\ (failureLimit # 0 => failures' < failureLimit)
       /\ closed' \in BOOLEAN /\ total' \in Nat /\ acked' \subseteq 1 .. total'
       /\ mark' \in [Flushes -> 0 .. total'] /\ UNCHANGED config
  BY <1>1 DEF IInv, TypeOK
<1>12. IInv'
  BY <1>9, <1>10, <1>11, KeptSuffices
<1> QED  BY <1>7, <1>12

LEMMA StutterKeeps ==
  ASSUME IInv, UNCHANGED vars
  PROVE  IInv' /\ FirstSends
<1>1. UNCHANGED config
  BY DEF vars, config
<1>2. Kept
  BY RestKeeps DEF vars, IInv, TypeOK
<1>3. IInv'
  BY <1>1, <1>2, KeptSuffices DEF vars, IInv, TypeOK
<1> QED  BY <1>2, <1>3 DEF Kept

-----------------------------------------------------------------------------
LEMMA Initially ==
  ASSUME Init
  PROVE  IInv
<1>1. /\ total = 0 /\ pending = <<>> /\ inflight = <<>> /\ phase = "idle"
      /\ sent = {} /\ acked = {} /\ dropped = {} /\ mark = [f \in Flushes |-> 0]
  BY DEF Init
<1>2. TypeOK
  <2>1. <<>> \in Seq(1 .. 0) /\ <<>> \in Seq(Call)
    OBVIOUS
  <2>2. mark \in [Flushes -> 0 .. total]
    BY <1>1
  <2>3. failureLimit \in Nat /\ failures = 0
    BY UploaderAssumption DEF Init
  <2>4. /\ byteLimited \in BOOLEAN /\ failureLimit \in FailureLimits
        /\ size \in [Call -> 1 .. MaxItems] /\ bad \in Poison /\ closed \in BOOLEAN
    BY DEF Init
  <2>5. /\ call \in [Call -> {"new", "waiting", "woken", "accepted", "ignored"}]
        /\ flush \in [Flushes -> {"new", "waiting", "sent", "closed"}]
    BY DEF Init
  <2>6. /\ pending \in Seq(1 .. total) /\ inflight \in Seq(1 .. total)
        /\ waiting \in Seq(Call) /\ woken \in Seq(Call)
    BY <1>1, <2>1 DEF Init
  <2>7. /\ total \in Nat /\ phase \in {"idle", "sending", "sleeping"}
        /\ failures \in Nat /\ (failureLimit # 0 => failures < failureLimit)
    BY <1>1, <2>3
  <2> QED  BY <1>1, <2>2, <2>4, <2>5, <2>6, <2>7 DEF TypeOK
<1>3. <<>> \in Seq(1 .. 0) /\ <<>> \o <<>> = <<>> /\ Elements(<<>>) = {} /\ Len(<<>>) = 0
  <2>1. <<>> \in Seq(1 .. 0)
    OBVIOUS
  <2> QED  BY <2>1, NoneBefore
<1>4. Ordered
  BY <1>1, <1>3 DEF Ordered, Owed, Line
<1>5. BatchFits /\ Sending /\ NothingLost /\ NoIdleBacklog
  BY <1>1, <1>3, UploaderAssumption DEF BatchFits, Sending, NothingLost, NoIdleBacklog
<1>6. FlushMeansSent
  BY DEF Init, FlushMeansSent
<1> QED  BY <1>2, <1>4, <1>5, <1>6 DEF IInv

LEMMA StepKeeps ==
  ASSUME IInv, [Next]_vars
  PROVE  IInv' /\ FirstSends
<1>1. CASE \E c \in Call : Enqueue(c)     BY <1>1, EnqueueKeeps
<1>2. CASE \E f \in Flushes : Flush(f)    BY <1>2, FlushKeeps
<1>3. CASE WokenResumes                   BY <1>3, WokenResumesKeeps
<1>4. CASE SendSucceeds                   BY <1>4, SendSucceedsKeeps
<1>5. CASE SendFails                      BY <1>5, SendFailsKeeps
<1>6. CASE SleepEnds                      BY <1>6, SleepEndsKeeps
<1>7. CASE Close                          BY <1>7, CloseKeeps
<1>8. CASE UNCHANGED vars                 BY <1>8, StutterKeeps
<1> QED  BY <1>1, <1>2, <1>3, <1>4, <1>5, <1>6, <1>7, <1>8 DEF Next

LEMMA InductiveInvariant == Spec => []IInv
<1>1. Init => IInv
  BY Initially
<1>2. IInv /\ [Next]_vars => IInv'
  BY StepKeeps
<1> QED  BY <1>1, <1>2, PTL DEF Spec

(* Every variable keeps its type: in particular the failures of a batch    *)
(* stay below the limit.                                                   *)
THEOREM Typing == Spec => []TypeOK
<1>1. IInv => TypeOK
  BY DEF IInv
<1> QED  BY <1>1, InductiveInvariant, PTL

(* Until close(), an accepted event is queued, acknowledged or given up:   *)
(* through failures, putting back, skipping and refilling.                 *)
THEOREM NothingIsLost == Spec => []NothingLost
<1>1. IInv => NothingLost
  BY DEF IInv
<1> QED  BY <1>1, InductiveInvariant, PTL

(* Nobody has to start drain() for a backlog: flush() rightly does not.    *)
THEOREM NoBacklogIdles == Spec => []NoIdleBacklog
<1>1. IInv => NoIdleBacklog
  BY DEF IInv
<1> QED  BY <1>1, InductiveInvariant, PTL

(* A flush() that returned, not because of close(), waited for all events  *)
(* accepted before it.                                                     *)
THEOREM FlushesMeanSent == Spec => []FlushMeansSent
<1>1. IInv => FlushMeansSent
  BY DEF IInv
<1> QED  BY <1>1, InductiveInvariant, PTL

(* "Serial ordered": an event goes out for the first time only when every  *)
(* earlier one is settled or goes with it.                                 *)
THEOREM SendsInOrder == Spec => Serial
<1>1. IInv /\ [Next]_vars => [FirstSends]_vars
  BY StepKeeps
<1>2. Spec => [][FirstSends]_vars
  BY <1>1, InductiveInvariant, PTL DEF Spec
<1>3. [][FirstSends]_vars => Serial
  BY PTL DEF FirstSends, Serial
<1> QED  BY <1>2, <1>3, PTL

-----------------------------------------------------------------------------
(* The refinement: a step of the uploader is one of Outbox, or a stutter.  *)

LEMMA Same ==
  /\ \A s : Promise!Elements(s) = Elements(s)
  /\ \A q, s : Promise!Remainder(q, s) <=> Remainder(q, s)
BY DEF Promise!Elements, Elements, Promise!Remainder, Remainder

(* What remains of s when drain() has dealt with its last part p, and the  *)
(* first, `gone`, has just been given up.                                  *)
LEMMA DrainSheds ==
  ASSUME NEW m \in Nat, NEW p, NEW s, NEW gone, p \in Seq(1 .. m), s \in Seq(1 .. m),
         Drained(p, gone, m), Remainder(p, s),
         Elements(s) = gone \cup Elements(p), gone \cap Elements(p) = {}
  PROVE  Promise!Shed(s)
<1>1. PICK q : q = inflight' \o pending'
  OBVIOUS
<1>2. /\ Line(q, m) /\ Remainder(q, p)
      /\ dropped' = dropped \cup gone \cup (Elements(p) \ Elements(q))
  BY <1>1 DEF Drained
<1>3. q \in Seq(1 .. m)
  BY <1>2 DEF Line
<1>4. q \in Seq(Nat)
  BY <1>3
<1>5. Remainder(q, s)
  BY <1>2, <1>3, RemainderOfRemainder
<1>6. Elements(q) \subseteq Elements(p)
  BY <1>2, <1>3, RemainderElements
<1>7. dropped' = dropped \cup (Elements(s) \ Elements(q))
  BY <1>2, <1>6
<1> QED  BY <1>1, <1>4, <1>5, <1>7, Same DEF Promise!Shed

LEMMA SelfSheds ==
  ASSUME NEW m \in Nat, NEW s \in Seq(1 .. m), (inflight \o pending)' = s, dropped' = dropped
  PROVE  Promise!Shed(s)
<1>1. s \in Seq(Nat) /\ Remainder(s, s)
  BY RemainderSelf
<1> QED  BY <1>1, Same DEF Promise!Shed

LEMMA AttemptRefines ==
  ASSUME IInv, NEW c \in Call, Attempt(c), UNCHANGED <<config, closed, mark, acked>>
  PROVE  Promise!Accept \/ UNCHANGED Promise!vars
<1>1. CASE UNCHANGED <<total, pending, inflight, phase, failures, flush, sent, dropped>>
  BY <1>1 DEF Promise!vars
<1>2. CASE ~closed /\ HasRoom(c) /\ Accept(c)
  <2>1. PICK new : Came(c, new)
    BY <1>2, AcceptIs
  <2>2. /\ total \in Nat /\ inflight \in Seq(1 .. total) /\ pending \in Seq(1 .. total)
        /\ Len(inflight) \in Nat /\ Len(pending) \in Nat /\ Len(Owed) = Len(inflight) + Len(pending)
        /\ Len(inflight) <= MaxBatchSize /\ (phase = "sending" <=> inflight # <<>>)
        /\ byteLimited \in BOOLEAN
    BY Facts
  <2>3. PICK p, s : p = pending \o new /\ s = Owed \o new
    OBVIOUS
  <2>4. /\ total' \in Nat /\ total' = total + size[c] /\ size[c] \in Nat \ {0}
        /\ new = [i \in 1 .. size[c] |-> total + i]
        /\ Line(s, total') /\ s = inflight \o p /\ p \in Seq(1 .. total')
        /\ Drain(p)
    BY <2>1, <2>3 DEF Came
  <2>5. s \in Seq(1 .. total')
    BY <2>4 DEF Line
  <2>6. Promise!Shed(s)
    <3>1. CASE phase = "idle"
      <4>1. DrainFrom(p, {})
        BY <1>2, <2>4, <3>1 DEF Drain
      <4>2. s = p
        <5>1. inflight = <<>>
          BY <2>2, <3>1
        <5> QED  BY <2>4, <5>1, ConcatEmptySeq
      <4>3. Line(p, total')
        BY <2>4, <4>2
      <4>4. Drained(p, {}, total')
        BY <2>2, <2>4, <4>1, <4>3, UploaderAssumption, DrainFromIs
      <4>5. Remainder(p, s)
        BY <2>4, <4>2, RemainderSelf
      <4>6. Elements(s) = {} \cup Elements(p) /\ {} \cap Elements(p) = {}
        BY <4>2
      <4> QED  BY <2>4, <2>5, <4>4, <4>5, <4>6, DrainSheds
    <3>2. CASE phase # "idle"
      <4>1. pending' = p /\ inflight' = inflight /\ dropped' = dropped
        BY <2>4, <3>2 DEF Drain
      <4>2. (inflight \o pending)' = s
        BY <2>4, <4>1
      <4> QED  BY <2>4, <2>5, <4>1, <4>2, SelfSheds
    <3> QED  BY <3>1, <3>2
  <2>7. size[c] \in 1 .. (MaxQueueSize + MaxBatchSize) - Len(inflight \o pending)
    <3>1. Len(pending) + size[c] <= MaxQueueSize
      BY <1>2 DEF HasRoom
    <3>2. MaxQueueSize \in Nat /\ MaxBatchSize \in Nat
      BY UploaderAssumption
    <3> QED  BY <2>2, <2>4, <3>1, <3>2 DEF Owed
  <2>8. Promise!Shed((inflight \o pending) \o [i \in 1 .. size[c] |-> total + i])
    BY <2>3, <2>4, <2>6 DEF Owed
  <2> QED  BY <1>2, <2>4, <2>7, <2>8 DEF Promise!Accept
<1> QED  BY <1>1, <1>2 DEF Attempt

(* drain() goes on with what is pending, the batch being settled.          *)
LEMMA PendingSheds ==
  ASSUME IInv, DrainFrom(pending, {})
  PROVE  Promise!Shed(pending)
<1>1. total \in Nat /\ Line(pending, total) /\ pending \in Seq(1 .. total) /\ byteLimited \in BOOLEAN
  BY Facts
<1>2. Drained(pending, {}, total)
  BY <1>1, UploaderAssumption, DrainFromIs
<1>3. Remainder(pending, pending)
  BY <1>1, RemainderSelf
<1> QED  BY <1>1, <1>2, <1>3, DrainSheds

LEMMA SendSucceedsRefines ==
  ASSUME IInv, SendSucceeds
  PROVE  Promise!Deliver
<1>1. /\ phase = "sending" /\ acked' = acked \cup Elements(inflight)
      /\ DrainFrom(pending, {}) /\ UNCHANGED <<total, closed>>
  BY DEF SendSucceeds, config
<1>2. /\ inflight # <<>> /\ Len(inflight) \in Nat /\ Len(inflight) <= MaxBatchSize
      /\ inflight \in Seq(1 .. total) /\ pending \in Seq(1 .. total) /\ Len(pending) \in Nat
  BY <1>1, Facts
<1>3. Len(inflight) > 0
  BY <1>2
<1>4. Promise!Shed(pending)
  BY <1>1, PendingSheds
<1>5. /\ SubSeq(inflight \o pending, 1, Len(inflight)) = inflight
      /\ SubSeq(inflight \o pending, Len(inflight) + 1, Len(inflight \o pending)) = pending
      /\ Len(inflight) <= Len(inflight \o pending)
  BY <1>2, SplitConcat
<1>6. Len(inflight) \in 1 .. MaxBatchSize
  BY <1>2, <1>3, UploaderAssumption
<1> QED  BY <1>1, <1>4, <1>5, <1>6, Same DEF Promise!Deliver

LEMMA SendFailsRefines ==
  ASSUME IInv, SendFails
  PROVE  Promise!GiveUp \/ UNCHANGED Promise!vars
<1>1. /\ UNCHANGED <<total, closed, acked>>
      /\ GiveUp \/ PutBack
  BY DEF SendFails
<1>2. /\ total \in Nat /\ inflight \in Seq(1 .. total) /\ pending \in Seq(1 .. total)
      /\ Line(Owed, total) /\ Line(pending, total) /\ byteLimited \in BOOLEAN
      /\ Elements(Owed) = Elements(inflight) \cup Elements(pending)
      /\ Elements(inflight) \cap Elements(pending) = {}
  BY Facts
<1>3. CASE GiveUp
  <2>1. DrainFrom(pending, Elements(inflight))
    BY <1>3 DEF GiveUp
  <2>2. Drained(pending, Elements(inflight), total)
    BY <1>2, <2>1, UploaderAssumption, DrainFromIs
  <2>3. Remainder(pending, Owed)
    <3>1. Remainder(<<>>, inflight) /\ Remainder(pending, pending)
      BY <1>2, RemainderSelf
    <3>2. <<>> \in Seq(1 .. total) /\ <<>> \o pending = pending
      BY <1>2, NoneBefore
    <3>3. Remainder(<<>> \o pending, inflight \o pending)
      BY <1>2, <3>1, <3>2, RemainderConcat
    <3> QED  BY <3>2, <3>3 DEF Owed
  <2>4. Owed \in Seq(1 .. total)
    BY <1>2 DEF Line
  <2>5. Promise!Shed(Owed)
    BY <1>2, <2>2, <2>3, <2>4, DrainSheds
  <2> QED  BY <1>1, <2>5 DEF Promise!GiveUp, Owed
<1>4. CASE PutBack
  <2>1. pending' = inflight \o pending /\ inflight' = <<>> /\ dropped' = dropped
    BY <1>4 DEF PutBack
  <2>2. PICK s : s = inflight \o pending
    OBVIOUS
  <2>3. s \in Seq(1 .. total)
    BY <1>2, <2>2 DEF Owed, Line
  <2>4. <<>> \o s = s
    BY <2>3, ConcatEmptySeq
  <2>5. inflight' \o pending' = inflight \o pending
    BY <2>1, <2>2, <2>4
  <2> QED  BY <1>1, <2>1, <2>5 DEF Promise!vars
<1> QED  BY <1>1, <1>3, <1>4

LEMMA SleepEndsRefines ==
  ASSUME IInv, SleepEnds
  PROVE  Promise!GiveUp
<1>1. /\ phase = "sleeping" /\ DrainFrom(pending, {})
      /\ UNCHANGED <<total, closed, acked>>
  BY DEF SleepEnds
<1>2. inflight \o pending = pending
  BY <1>1, Facts DEF Owed
<1>3. Promise!Shed(pending)
  BY <1>1, PendingSheds
<1> QED  BY <1>1, <1>2, <1>3 DEF Promise!GiveUp

LEMMA CloseRefines ==
  ASSUME IInv, Close
  PROVE  Promise!Close
<1>1. /\ ~closed /\ closed' = TRUE /\ pending' = <<>>
      /\ UNCHANGED <<total, inflight, acked, dropped>>
  BY DEF Close
<1>2. /\ Len(inflight) \in Nat /\ Len(inflight) <= MaxBatchSize
      /\ inflight \in Seq(1 .. total) /\ pending \in Seq(1 .. total)
  BY Facts
<1>3. /\ SubSeq(inflight \o pending, 1, Len(inflight)) = inflight
      /\ Len(inflight) <= Len(inflight \o pending)
  BY <1>2, SplitConcat
<1>4. inflight' \o pending' = inflight
  BY <1>1, <1>2, ConcatEmptySeq
<1>5. Len(inflight) \in 0 .. MaxBatchSize
  BY <1>2, UploaderAssumption
<1> QED  BY <1>1, <1>3, <1>4, <1>5 DEF Promise!Close

LEMMA StepRefines ==
  ASSUME IInv, [Next]_vars
  PROVE  [Promise!Next]_Promise!vars
<1> USE DEF Promise!Next
<1>1. CASE \E c \in Call : Enqueue(c)
  <2>1. PICK c \in Call : Attempt(c) /\ UNCHANGED <<config, closed, mark, acked>>
    BY <1>1 DEF Enqueue
  <2> QED  BY <2>1, AttemptRefines
<1>2. CASE \E f \in Flushes : Flush(f)
  BY <1>2 DEF Flush, Promise!vars
<1>3. CASE WokenResumes
  <2>1. /\ woken # <<>> /\ Attempt(Head(woken))
        /\ UNCHANGED <<config, closed, mark, acked>>
    BY <1>3 DEF WokenResumes
  <2>2. woken \in Seq(Call)
    BY DEF IInv, TypeOK
  <2>3. Head(woken) \in Call
    BY <2>1, <2>2
  <2> QED  BY <2>1, <2>3, AttemptRefines
<1>4. CASE SendSucceeds      BY <1>4, SendSucceedsRefines
<1>5. CASE SendFails         BY <1>5, SendFailsRefines
<1>6. CASE SleepEnds         BY <1>6, SleepEndsRefines
<1>7. CASE Close             BY <1>7, CloseRefines
<1>8. CASE UNCHANGED vars    BY <1>8 DEF vars, Promise!vars
<1> QED  BY <1>1, <1>2, <1>3, <1>4, <1>5, <1>6, <1>7, <1>8 DEF Next

(* The uploader implements the abstract Outbox, with room for maxQueueSize *)
(* events and one batch: what is in flight, then what is pending, is what  *)
(* it owes.                                                                *)
THEOREM UploaderIsOutbox == Spec => ImplementsOutbox
<1>1. Init => Promise!Init
  <2>1. <<>> \o <<>> = <<>>
    <3>1. <<>> \in Seq(Nat)
      OBVIOUS
    <3> QED  BY <3>1, ConcatEmptySeq
  <2> QED  BY <2>1 DEF Init, Promise!Init
<1>2. IInv /\ [Next]_vars => [Promise!Next]_Promise!vars
  BY StepRefines
<1> QED  BY <1>1, <1>2, InductiveInvariant, PTL DEF Spec, ImplementsOutbox, Promise!Spec

-----------------------------------------------------------------------------
(* What is proved of Outbox holds of the uploader.                         *)
Proved == INSTANCE OutboxProofs WITH
  Capacity <- MaxQueueSize + MaxBatchSize, MaxBatch <- MaxBatchSize,
  accepted <- total, owed <- inflight \o pending, delivered <- acked, lost <- dropped

LEMMA AlsoProved == Spec => Proved!Spec
<1>1. Promise!Init => Proved!Init
  BY DEF Promise!Init, Proved!Init
<1>2. [Promise!Next]_Promise!vars => [Proved!Next]_Proved!vars
  <2>1. Promise!Accept <=> Proved!Accept
    BY DEF Promise!Accept, Proved!Accept, Promise!Shed, Proved!Shed,
           Promise!Remainder, Proved!Remainder, Promise!Elements, Proved!Elements
  <2>2. Promise!Deliver <=> Proved!Deliver
    BY DEF Promise!Deliver, Proved!Deliver, Promise!Shed, Proved!Shed,
           Promise!Remainder, Proved!Remainder, Promise!Elements, Proved!Elements
  <2>3. Promise!GiveUp <=> Proved!GiveUp
    BY DEF Promise!GiveUp, Proved!GiveUp, Promise!Shed, Proved!Shed,
           Promise!Remainder, Proved!Remainder, Promise!Elements, Proved!Elements
  <2>4. Promise!Close <=> Proved!Close
    BY DEF Promise!Close, Proved!Close
  <2>5. UNCHANGED Promise!vars <=> UNCHANGED Proved!vars
    BY DEF Promise!vars, Proved!vars
  <2> QED  BY <2>1, <2>2, <2>3, <2>4, <2>5 DEF Promise!Next, Proved!Next
<1> QED  BY <1>1, <1>2, UploaderIsOutbox, PTL DEF ImplementsOutbox, Promise!Spec, Proved!Spec

LEMMA Sizes == MaxQueueSize + MaxBatchSize \in Nat /\ MaxBatchSize \in Nat
BY UploaderAssumption

(* Back-pressure: no more events are held than maxQueueSize and one batch, *)
(* although a failed batch is put back before a buffer filled meanwhile.   *)
THEOREM AlwaysBounded == Spec => []Promise!Bounded
<1>1. Proved!Spec => []Proved!Bounded
  BY Sizes, Proved!AlwaysBounded
<1>2. Proved!Bounded <=> Promise!Bounded
  BY DEF Proved!Bounded, Promise!Bounded
<1> QED  BY <1>1, <1>2, AlsoProved, PTL

(* What is in flight and then what is pending is in the order of           *)
(* acceptance, each event once.                                            *)
THEOREM AlwaysSorted == Spec => []Promise!Sorted
<1>1. Proved!Spec => []Proved!Sorted
  BY Sizes, Proved!AlwaysSorted
<1>2. Proved!Sorted <=> Promise!Sorted
  BY DEF Proved!Sorted, Promise!Sorted
<1> QED  BY <1>1, <1>2, AlsoProved, PTL

(* No event is both acknowledged and given up, and none that is settled is *)
(* sent again: retries never repeat what the server has confirmed.         *)
THEOREM AlwaysOneFate == Spec => []Promise!OneFate
<1>1. Proved!Spec => []Proved!OneFate
  BY Sizes, Proved!AlwaysOneFate
<1>2. Proved!OneFate <=> Promise!OneFate
  BY DEF Proved!OneFate, Promise!OneFate, Proved!Elements, Promise!Elements
<1> QED  BY <1>1, <1>2, AlsoProved, PTL
===============================================================================
