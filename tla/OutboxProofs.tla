----------------------------- MODULE OutboxProofs -----------------------------
(* Proofs about the abstract specification of the event uploader.          *)
EXTENDS Outbox, LineProofs

(* What is settled was accepted, has one fate, and is not owed any more.   *)
Settled ==
  /\ delivered \subseteq 1 .. accepted /\ lost \subseteq 1 .. accepted
  /\ OneFate

IInv ==
  /\ accepted \in Nat
  /\ Line(owed, accepted)
  /\ Bounded
  /\ Settled

(* Giving up some of a line s that is not settled keeps what is owed and   *)
(* settled apart, within the bound.                                        *)
LEMMA ShedKeeps ==
  ASSUME NEW n \in Nat, NEW s, Line(s, n), Len(s) <= Capacity, Capacity \in Nat,
         NEW D \in SUBSET (1 .. n), lost \subseteq 1 .. n,
         D \cap lost = {}, Elements(s) \cap (D \cup lost) = {},
         Shed(s)
  PROVE  /\ Line(owed', n) /\ Len(owed') <= Capacity
         /\ lost' \subseteq 1 .. n /\ D \cap lost' = {}
         /\ Elements(owed') \cap (D \cup lost') = {}
<1>1. Line(owed', n) /\ Len(owed') <= Len(s) /\ Elements(owed') \subseteq Elements(s)
  BY RemainderIsLine DEF Shed
<1>2. lost' = lost \cup (Elements(s) \ Elements(owed'))
  BY DEF Shed
<1>3. Elements(s) \subseteq 1 .. n
  BY DEF Line, Elements
<1>4. Len(owed') <= Capacity
  <2>1. Len(owed') \in Nat /\ Len(s) \in Nat
    BY <1>1 DEF Line
  <2> QED  BY <2>1, <1>1
<1> QED  BY <1>1, <1>2, <1>3, <1>4

-----------------------------------------------------------------------------
(* The inductive step, one action at a time.                               *)

LEMMA AcceptKeeps ==
  ASSUME Capacity \in Nat, IInv, Accept
  PROVE  IInv'
<1> USE DEF IInv, Settled, OneFate, Bounded
<1>1. PICK n \in 1 .. Capacity - Len(owed) :
         /\ accepted' = accepted + n
         /\ Shed(owed \o [i \in 1 .. n |-> accepted + i])
  BY DEF Accept
<1> DEFINE new == [i \in 1 .. n |-> accepted + i]
           s   == owed \o new
           m   == accepted + n
<1>2. /\ owed \in Seq(1 .. accepted) /\ Len(owed) \in Nat /\ n \in Nat /\ m \in Nat
      /\ Len(owed) + n <= Capacity
  BY <1>1 DEF Line
<1>3. new \in Seq(1 .. m) /\ Len(new) = n
  BY <1>2
<1>4. /\ Len(s) = Len(owed) + n
      /\ \A i \in 1 .. Len(s) : s[i] = IF i <= Len(owed) THEN owed[i]
                                       ELSE accepted + (i - Len(owed))
  BY <1>2, <1>3
<1>5. \A i \in 1 .. Len(owed) : owed[i] \in 1 .. accepted
  BY <1>2
<1>6. Line(s, m)
  <2>1. owed \in Seq(1 .. m)
    BY <1>2, <1>5
  <2>2. s \in Seq(1 .. m)
    BY <2>1, <1>3
  <2>3. ASSUME NEW i \in 1 .. Len(s), NEW j \in 1 .. Len(s), i < j
        PROVE  s[i] < s[j]
    BY <1>2, <1>4, <1>5, <2>3 DEF Line
  <2> QED  BY <2>2, <2>3 DEF Line
<1>7. Elements(s) \cap (delivered \cup lost) = {}
  <2>1. ASSUME NEW i \in 1 .. Len(s)
        PROVE  s[i] \notin delivered \cup lost
    <3>1. CASE i <= Len(owed)
      <4>1. s[i] = owed[i] /\ i \in 1 .. Len(owed)
        BY <3>1, <1>2, <1>4
      <4>2. s[i] \in Elements(owed)
        BY <4>1 DEF Elements
      <4> QED  BY <4>2
    <3>2. CASE ~(i <= Len(owed))
      <4>1. s[i] > accepted /\ s[i] \in Nat
        BY <3>2, <1>2, <1>4
      <4> QED  BY <4>1, <1>2
    <3> QED  BY <3>1, <3>2
  <2> HIDE DEF s
  <2> QED  BY <2>1 DEF Elements
<1>8. delivered \in SUBSET (1 .. m) /\ lost \subseteq 1 .. m
  BY <1>2
<1> HIDE DEF s, m
<1>9. Shed(s) /\ Len(s) <= Capacity /\ m \in Nat
  BY <1>1, <1>2, <1>4 DEF s
<1>10. /\ Line(owed', m) /\ Len(owed') <= Capacity
       /\ lost' \subseteq 1 .. m /\ delivered \cap lost' = {}
       /\ Elements(owed') \cap (delivered \cup lost') = {}
  BY <1>6, <1>7, <1>8, <1>9, ShedKeeps
<1>11. accepted' = m /\ delivered' = delivered
  BY <1>1 DEF Accept, m
<1> QED  BY <1>8, <1>9, <1>10, <1>11 DEF Elements

LEMMA DeliverKeeps ==
  ASSUME Capacity \in Nat, MaxBatch \in Nat, IInv, Deliver
  PROVE  IInv'
<1> USE DEF IInv, Settled, OneFate, Bounded
<1>1. PICK n \in 1 .. MaxBatch :
         /\ n <= Len(owed)
         /\ delivered' = delivered \cup Elements(SubSeq(owed, 1, n))
         /\ Shed(SubSeq(owed, n + 1, Len(owed)))
  BY DEF Deliver
<1> DEFINE s == SubSeq(owed, n + 1, Len(owed))
           D == delivered \cup Elements(SubSeq(owed, 1, n))
<1>2. owed \in Seq(1 .. accepted) /\ Len(owed) \in Nat /\ n \in Nat /\ n <= Len(owed)
  BY <1>1 DEF Line
<1>3. /\ s \in Seq(1 .. accepted) /\ Len(s) = Len(owed) - n
      /\ \A i \in 1 .. Len(s) : i + n \in 1 .. Len(owed) /\ s[i] = owed[i + n]
  BY <1>2
<1>4. Line(s, accepted)
  <2>1. \A i, j \in 1 .. Len(owed) : i < j => owed[i] < owed[j]
    BY DEF Line
  <2>2. ASSUME NEW i \in 1 .. Len(s), NEW j \in 1 .. Len(s), i < j  PROVE s[i] < s[j]
    <3>1. i + n < j + n
      BY <1>2, <1>3, <2>2
    <3> HIDE DEF s
    <3> QED  BY <1>3, <2>1, <3>1
  <2> HIDE DEF s
  <2> QED  BY <1>3, <2>2 DEF Line
<1>5. Elements(SubSeq(owed, 1, n)) = {owed[i] : i \in 1 .. n}
  <2>1. Len(SubSeq(owed, 1, n)) = n /\ \A i \in 1 .. n : SubSeq(owed, 1, n)[i] = owed[i]
    BY <1>2
  <2> QED  BY <2>1 DEF Elements
<1>6. D \in SUBSET (1 .. accepted) /\ D \cap lost = {}
  <2>1. {owed[i] : i \in 1 .. n} \subseteq Elements(owed)
    BY <1>2 DEF Elements
  <2>2. Elements(owed) \subseteq 1 .. accepted
    BY <1>2 DEF Elements
  <2> QED  BY <2>1, <2>2, <1>5
<1>7. Elements(s) \cap (D \cup lost) = {}
  <2>1. ASSUME NEW i \in 1 .. Len(s), NEW j \in 1 .. n
        PROVE  s[i] # owed[j]
    <3>1. i + n \in 1 .. Len(owed) /\ j \in 1 .. Len(owed) /\ j < i + n
      BY <1>2, <1>3
    <3>2. \A k, l \in 1 .. Len(owed) : k < l => owed[k] < owed[l]
      BY DEF Line
    <3>3. owed[j] < owed[i + n]
      BY <3>1, <3>2
    <3>4. owed[j] \in 1 .. accepted /\ owed[i + n] \in 1 .. accepted
      BY <3>1, <1>2
    <3> QED  BY <3>3, <3>4, <1>3
  <2>2. Elements(s) \subseteq Elements(owed)
    BY <1>3 DEF Elements
  <2>3. Elements(s) \cap {owed[i] : i \in 1 .. n} = {}
    BY <2>1 DEF Elements
  <2> QED  BY <2>2, <2>3, <1>5
<1> HIDE DEF s, D
<1>8. Shed(s) /\ Len(s) <= Capacity
  BY <1>1, <1>2, <1>3 DEF s
<1>9. /\ Line(owed', accepted) /\ Len(owed') <= Capacity
      /\ lost' \subseteq 1 .. accepted /\ D \cap lost' = {}
      /\ Elements(owed') \cap (D \cup lost') = {}
  BY <1>4, <1>6, <1>7, <1>8, ShedKeeps
<1>10. accepted' = accepted /\ delivered' = D
  BY <1>1 DEF Deliver, D
<1> QED  BY <1>6, <1>9, <1>10 DEF Elements

LEMMA GiveUpKeeps ==
  ASSUME Capacity \in Nat, IInv, GiveUp
  PROVE  IInv'
<1> USE DEF IInv, Settled, OneFate, Bounded
<1>1. Shed(owed) /\ accepted' = accepted /\ delivered' = delivered
  BY DEF GiveUp
<1>2. delivered \in SUBSET (1 .. accepted) /\ accepted \in Nat /\ Line(owed, accepted)
  OBVIOUS
<1>3. /\ Line(owed', accepted) /\ Len(owed') <= Capacity
      /\ lost' \subseteq 1 .. accepted /\ delivered \cap lost' = {}
      /\ Elements(owed') \cap (delivered \cup lost') = {}
  BY <1>1, <1>2, ShedKeeps
<1> QED  BY <1>1, <1>2, <1>3 DEF Elements

LEMMA CloseKeeps ==
  ASSUME Capacity \in Nat, MaxBatch \in Nat, IInv, Close
  PROVE  IInv'
<1> USE DEF IInv, Settled, OneFate, Bounded
<1>1. PICK n \in 0 .. MaxBatch : n <= Len(owed) /\ owed' = SubSeq(owed, 1, n)
  BY DEF Close
<1>2. accepted' = accepted /\ delivered' = delivered /\ lost' = lost
  BY DEF Close
<1>3. owed \in Seq(1 .. accepted) /\ Len(owed) \in Nat /\ n \in Nat
  BY <1>1 DEF Line
<1>4. /\ owed' \in Seq(1 .. accepted) /\ Len(owed') = n
      /\ \A i \in 1 .. n : i \in 1 .. Len(owed) /\ owed'[i] = owed[i]
  BY <1>1, <1>3
<1>5. Line(owed', accepted)
  BY <1>3, <1>4 DEF Line
<1>6. Elements(owed') \subseteq Elements(owed)
  BY <1>4 DEF Elements
<1>7. Len(owed') <= Capacity
  BY <1>1, <1>3, <1>4
<1> QED  BY <1>2, <1>5, <1>6, <1>7 DEF Elements

-----------------------------------------------------------------------------
LEMMA InductiveInvariant ==
  ASSUME Capacity \in Nat, MaxBatch \in Nat
  PROVE  Spec => []IInv
<1>1. Init => IInv
  BY DEF Init, IInv, Line, Bounded, Settled, OneFate, Elements
<1>2. IInv /\ [Next]_vars => IInv'
  <2> SUFFICES ASSUME IInv, [Next]_vars PROVE IInv'
    OBVIOUS
  <2>1. CASE Accept   BY <2>1, AcceptKeeps
  <2>2. CASE Deliver  BY <2>2, DeliverKeeps
  <2>3. CASE GiveUp   BY <2>3, GiveUpKeeps
  <2>4. CASE Close    BY <2>4, CloseKeeps
  <2>5. CASE UNCHANGED vars
    BY <2>5 DEF vars, IInv, Line, Bounded, Settled, OneFate, Elements
  <2> QED  BY <2>1, <2>2, <2>3, <2>4, <2>5 DEF Next
<1> QED  BY <1>1, <1>2, PTL DEF Spec

(* What is owed never exceeds the capacity: for EventUploader, a buffer of *)
(* maxQueueSize events and one batch.                                      *)
THEOREM AlwaysBounded ==
  ASSUME Capacity \in Nat, MaxBatch \in Nat
  PROVE  Spec => []Bounded
<1>1. IInv => Bounded
  BY DEF IInv
<1> QED  BY <1>1, InductiveInvariant, PTL

(* What is owed stays in the order of acceptance, whatever is given up.    *)
THEOREM AlwaysSorted ==
  ASSUME Capacity \in Nat, MaxBatch \in Nat
  PROVE  Spec => []Sorted
<1>1. IInv => Sorted
  BY DEF IInv, Line, Sorted
<1> QED  BY <1>1, InductiveInvariant, PTL

(* No event is both acknowledged and given up, and none that is settled    *)
(* is owed, and so sent, again.                                            *)
THEOREM AlwaysOneFate ==
  ASSUME Capacity \in Nat, MaxBatch \in Nat
  PROVE  Spec => []OneFate
<1>1. IInv => OneFate
  BY DEF IInv, Settled
<1> QED  BY <1>1, InductiveInvariant, PTL
===============================================================================
