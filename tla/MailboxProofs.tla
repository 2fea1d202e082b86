---------------------------- MODULE MailboxProofs ----------------------------
(***************************************************************************)
(* For any number of messages, polls and deaths and any limits of the      *)
(* compaction: updates of the inbox under its lock lose no message that    *)
(* was sent, and a compaction removes no unread message for nothing.       *)
(***************************************************************************)
EXTENDS Mailbox, LineProofs

(* The types of what is neither in the file nor guarded by the lock.       *)
Plain ==
  /\ reader \in {"poller", "runner"}
  /\ protocol \in SUBSET Msg /\ routed \in SUBSET Msg /\ size \in [Msg -> Nat \ {0}]
  /\ made \in {"none", "empty", "there"}
  /\ send \in [Msg -> {"new", "creating", "locking", "writing", "sent", "failed"}]
  /\ slot \in [Slot -> {"idle", "processing", "marking", "writing", "taking"}]
  /\ snap \in [Slot -> SUBSET Msg]
  /\ pending \subseteq Msg /\ busy \in BOOLEAN
  /\ crashes \in 0 .. MaxCrashes
  /\ delivered \subseteq Msg /\ fallen \subseteq Msg

(* In the file is what has been sent, nothing twice.                       *)
Stored ==
  /\ file \in Seq(Msg) /\ Distinct(file) /\ read \subseteq Elements(file)
  /\ evicted \subseteq Msg
  /\ \A m \in Elements(file) : send[m] = "sent"

(* What the holder of the lock has read is what the file still says.       *)
Locked ==
  /\ lock \in Proc \cup {Free} /\ \A p \in Proc : Holds(p) <=> lock = p
  /\ copy \in [Proc -> Seq(Msg)] /\ seen \in [Proc -> SUBSET Msg]
  /\ \A p \in Proc : Holds(p) => copy[p] = file /\ seen[p] = read

(* The poller marks what it has queued or delivered before.                *)
Handled ==
  \A i \in Slot : slot[i] \in {"marking", "writing"} /\ reader = "poller"
                    => snap[i] \subseteq pending \cup delivered

IInv == Plain /\ Stored /\ Locked /\ Handled /\ NothingLost

LEMMA InvImplies == IInv => TypeOK
BY DEF IInv, Plain, Stored, Locked, TypeOK

LEMMA Numbers ==
  /\ MaxSent \in Nat /\ MaxPolls \in Nat /\ MaxMessages \in Nat /\ MaxRead \in Nat
  /\ MaxProtocol \in Nat /\ MaxBytes \in Nat /\ MaxCrashes \in Nat /\ Loads \subseteq Load
BY MailboxAssumption

LEMMA Processes == Msg \cap Slot = {} /\ Free \notin Proc /\ IsFiniteSet(Msg)
<1>1. Msg \cap Slot = {} /\ Free \notin Proc
  BY Numbers DEF Msg, Slot, Free, Proc
<1>2. IsFiniteSet(Msg)
  BY Numbers, FS_Interval DEF Msg
<1> QED  BY <1>1, <1>2

(* Where the messages are that have been sent.                             *)
Places == Unread \cup pending \cup Hand \cup delivered \cup evicted \cup fallen

LEMMA HandIs == \A m : m \in Hand <=> \E i \in Slot : slot[i] = "taking" /\ m \in snap[i]
BY DEF Hand

LEMMA InitIInv == Init => IInv
<1> SUFFICES ASSUME Init  PROVE IInv
  OBVIOUS
<1>1. Plain
  <2>1. crashes \in 0 .. MaxCrashes
    BY Numbers DEF Init
  <2>2. PICK load \in Load : protocol = load.protocol /\ routed = load.routed /\ size = load.size
    BY Numbers DEF Init
  <2>3. protocol \in SUBSET Msg /\ routed \in SUBSET Msg /\ size \in [Msg -> Nat \ {0}]
    BY <2>2 DEF Load
  <2> QED  BY <2>1, <2>3 DEF Init, Plain
<1>2. file = <<>> /\ file \in Seq(Msg) /\ Elements(file) = {} /\ Distinct(file)
  BY DEF Init, Elements, Distinct
<1>3. Stored
  BY <1>2 DEF Init, Stored
<1>4. \A p \in Proc : ~Holds(p) /\ lock # p
  BY Processes DEF Init, Holds, Proc
<1>5. copy \in [Proc -> Seq(Msg)]
  BY DEF Init
<1>6. Locked
  BY <1>4, <1>5 DEF Init, Locked
<1>7. Handled /\ NothingLost
  BY DEF Init, Handled, NothingLost
<1> QED  BY <1>1, <1>3, <1>6, <1>7 DEF IInv

-----------------------------------------------------------------------------
(* The compaction.                                                         *)

(* The recursive function of Bytes.                                        *)
Summing(set, f) ==
  f = [m \in 0 .. MaxSent |->
         IF m = 0 THEN 0 ELSE f[m - 1] + (IF m \in set THEN size[m] ELSE 0)]

LEMMA BytesIsSum ==
  ASSUME NEW set, size \in [Msg -> Nat \ {0}]
  PROVE  \E f : Summing(set, f) /\ Bytes(set) = f[MaxSent]
<1> DEFINE g == [i \in 1 .. MaxSent |-> [x \in Nat |-> x + (IF i \in set THEN size[i] ELSE 0)]]
<1>1. \A i \in 1 .. MaxSent : \A x \in Nat :
        g[i][x] = x + (IF i \in set THEN size[i] ELSE 0) /\ g[i][x] \in Nat
  BY DEF Msg
<1> HIDE DEF g
<1>2. PICK f \in [0 .. MaxSent -> Nat] :
        \A i \in 0 .. MaxSent : f[i] = IF i = 0 THEN 0 ELSE g[i][f[i - 1]]
  <2>1. Steps(MaxSent, Nat, g)
    BY <1>1 DEF Steps
  <2>2. \E f : Iterate(MaxSent, Nat, 0, g, f)
    BY <2>1, Numbers, Iterates
  <2> QED  BY <2>2 DEF Iterate
<1>3. ASSUME NEW i \in 0 .. MaxSent
      PROVE  f[i] = IF i = 0 THEN 0 ELSE f[i - 1] + (IF i \in set THEN size[i] ELSE 0)
  <2>1. i # 0 => i \in 1 .. MaxSent /\ i - 1 \in 0 .. MaxSent
    BY Numbers
  <2> QED  BY <1>1, <1>2, <2>1
<1>4. Summing(set, f)
  BY <1>3 DEF Summing
<1> DEFINE c == CHOOSE h : Summing(set, h)
<1>5. Summing(set, c)
  BY <1>4
<1>6. Bytes(set) = c[MaxSent]
  BY DEF Bytes, Summing
<1> QED  BY <1>5, <1>6

(* More messages take more bytes.                                          *)
LEMMA BytesGrow ==
  ASSUME NEW S, NEW T, S \subseteq T, size \in [Msg -> Nat \ {0}]
  PROVE  Bytes(S) \in Nat /\ Bytes(T) \in Nat /\ Bytes(S) <= Bytes(T)
<1>1. PICK f : Summing(S, f) /\ Bytes(S) = f[MaxSent]
  BY BytesIsSum
<1>2. PICK h : Summing(T, h) /\ Bytes(T) = h[MaxSent]
  BY BytesIsSum
<1>3. \A m \in 0 .. MaxSent :
        /\ f[m] = IF m = 0 THEN 0 ELSE f[m - 1] + (IF m \in S THEN size[m] ELSE 0)
        /\ h[m] = IF m = 0 THEN 0 ELSE h[m - 1] + (IF m \in T THEN size[m] ELSE 0)
  BY <1>1, <1>2 DEF Summing
<1> DEFINE D == {m \in 0 .. MaxSent : f[m] \in Nat /\ h[m] \in Nat /\ f[m] <= h[m]}
<1>4. 0 \in D
  BY <1>3, Numbers
<1>5. ASSUME NEW m \in 0 .. MaxSent, m \in D, m < MaxSent  PROVE m + 1 \in D
  <2>1. m + 1 \in 0 .. MaxSent /\ m + 1 \in Msg /\ m + 1 # 0 /\ (m + 1) - 1 = m
    BY <1>5, Numbers DEF Msg
  <2>2. size[m + 1] \in Nat
    BY <2>1
  <2>3. /\ f[m + 1] = f[m] + (IF m + 1 \in S THEN size[m + 1] ELSE 0)
        /\ h[m + 1] = h[m] + (IF m + 1 \in T THEN size[m + 1] ELSE 0)
    BY <1>3, <2>1
  <2>4. f[m] \in Nat /\ h[m] \in Nat /\ f[m] <= h[m]
    BY <1>5
  <2>5. m + 1 \in S => m + 1 \in T
    OBVIOUS
  <2>6. f[m + 1] \in Nat /\ h[m + 1] \in Nat /\ f[m + 1] <= h[m + 1]
    BY <2>2, <2>3, <2>4, <2>5
  <2> QED  BY <2>1, <2>6
<1> HIDE DEF D
<1>6. MaxSent \in D
  BY <1>4, <1>5, Numbers, UpTo
<1> QED  BY <1>1, <1>2, <1>6 DEF D

(* A message for which there was no room beside K: K is as many as there   *)
(* may be, or has too many bytes with it.                                  *)
Refused(m, K, k, before) ==
  ~(Cardinality(K) < k /\ Bytes(before \cup K \cup {m}) <= MaxBytes)

(* The recursive function of Lane.                                         *)
Keeping(s, set, k, before, f) ==
  f = [i \in 0 .. Len(s) |->
         IF i = 0 THEN {}
         ELSE IF /\ s[Len(s) + 1 - i] \in set /\ Cardinality(f[i - 1]) < k
                 /\ Bytes(before \cup f[i - 1] \cup {s[Len(s) + 1 - i]}) <= MaxBytes
                THEN f[i - 1] \cup {s[Len(s) + 1 - i]} ELSE f[i - 1]]

LEMMA LaneIsKept ==
  ASSUME NEW s \in Seq(Msg), NEW set, NEW k, NEW before
  PROVE  \E f : Keeping(s, set, k, before, f) /\ Lane(s, set, k, before) = f[Len(s)]
<1> DEFINE Joins(i, x) == /\ s[Len(s) + 1 - i] \in set /\ Cardinality(x) < k
                          /\ Bytes(before \cup x \cup {s[Len(s) + 1 - i]}) <= MaxBytes
           g == [i \in 1 .. Len(s) |-> [x \in SUBSET Msg |->
                   IF Joins(i, x) THEN x \cup {s[Len(s) + 1 - i]} ELSE x]]
<1>0. Len(s) \in Nat
  OBVIOUS
<1>1. ASSUME NEW i \in 1 .. Len(s), NEW x \in SUBSET Msg
      PROVE  /\ g[i][x] = IF Joins(i, x) THEN x \cup {s[Len(s) + 1 - i]} ELSE x
             /\ g[i][x] \in SUBSET Msg
  <2>1. Len(s) + 1 - i \in 1 .. Len(s)
    BY <1>0
  <2>2. s[Len(s) + 1 - i] \in Msg
    BY <2>1
  <2>3. g[i][x] = IF Joins(i, x) THEN x \cup {s[Len(s) + 1 - i]} ELSE x
    OBVIOUS
  <2> HIDE DEF g, Joins
  <2> QED  BY <2>2, <2>3
<1> HIDE DEF g, Joins
<1>2. PICK f \in [0 .. Len(s) -> SUBSET Msg] :
        \A i \in 0 .. Len(s) : f[i] = IF i = 0 THEN {} ELSE g[i][f[i - 1]]
  <2>1. Steps(Len(s), SUBSET Msg, g) /\ {} \in SUBSET Msg
    BY <1>1 DEF Steps
  <2>2. \E f : Iterate(Len(s), SUBSET Msg, {}, g, f)
    BY <1>0, <2>1, Iterates
  <2> QED  BY <2>2 DEF Iterate
<1>3. ASSUME NEW i \in 0 .. Len(s)
      PROVE  f[i] = IF i = 0 THEN {}
                    ELSE IF Joins(i, f[i - 1]) THEN f[i - 1] \cup {s[Len(s) + 1 - i]} ELSE f[i - 1]
  <2>1. i # 0 => i \in 1 .. Len(s) /\ i - 1 \in 0 .. Len(s)
    BY <1>0
  <2> QED  BY <1>1, <1>2, <2>1
<1>4. Keeping(s, set, k, before, f)
  BY <1>3 DEF Keeping, Joins
<1> DEFINE c == CHOOSE h : Keeping(s, set, k, before, h)
<1>5. Keeping(s, set, k, before, c)
  BY <1>4
<1>6. Lane(s, set, k, before) = c[Len(s)]
  BY DEF Lane, Keeping
<1> QED  BY <1>5, <1>6

(* A lane keeps messages of its set; one that it does not keep was refused *)
(* beside some that it does.                                               *)
LEMMA LaneIs ==
  ASSUME NEW s \in Seq(Msg), NEW set, NEW k, NEW before
  PROVE  /\ Lane(s, set, k, before) \subseteq Elements(s) \cap set
         /\ \A m \in (Elements(s) \cap set) \ Lane(s, set, k, before) :
              \E K \in SUBSET Lane(s, set, k, before) : Refused(m, K, k, before)
<1>0. Len(s) \in Nat
  OBVIOUS
<1>1. PICK f : Keeping(s, set, k, before, f) /\ Lane(s, set, k, before) = f[Len(s)]
  BY LaneIsKept
<1> DEFINE m(i) == s[Len(s) + 1 - i]
           Settled(i, j) == m(j) \in set => \/ m(j) \in f[i]
                                           \/ \E K \in SUBSET f[i] : Refused(m(j), K, k, before)
           D == {i \in 0 .. Len(s) : f[i] \subseteq Elements(s) \cap set
                                       /\ \A j \in 1 .. i : Settled(i, j)}
<1>2. \A i \in 0 .. Len(s) :
        f[i] = IF i = 0 THEN {}
               ELSE IF m(i) \in set /\ ~Refused(m(i), f[i - 1], k, before)
                 THEN f[i - 1] \cup {m(i)} ELSE f[i - 1]
  BY <1>1 DEF Keeping, Refused
<1> HIDE DEF m
<1>3. 0 \in D
  <2>1. 0 \in 0 .. Len(s) /\ \A j \in 1 .. 0 : FALSE
    BY <1>0
  <2>2. f[0] = {}
    BY <1>2, <2>1
  <2> QED  BY <2>1, <2>2
<1>4. ASSUME NEW i \in 0 .. Len(s), i \in D, i < Len(s)  PROVE i + 1 \in D
  <2>1. /\ i + 1 \in 0 .. Len(s) /\ i + 1 # 0 /\ (i + 1) - 1 = i
        /\ Len(s) + 1 - (i + 1) \in 1 .. Len(s)
        /\ \A j \in 1 .. i + 1 : j \in 1 .. i \/ j = i + 1
    BY <1>0, <1>4
  <2>2. m(i + 1) \in Elements(s)
    BY <2>1 DEF Elements, m
  <2>3. f[i + 1] = IF m(i + 1) \in set /\ ~Refused(m(i + 1), f[i], k, before)
                     THEN f[i] \cup {m(i + 1)} ELSE f[i]
    BY <1>2, <2>1
  <2>4. f[i] \subseteq f[i + 1] /\ f[i + 1] \subseteq Elements(s) \cap set
    BY <1>4, <2>2, <2>3
  <2>5. ASSUME NEW j \in 1 .. i  PROVE Settled(i + 1, j)
    <3>1. Settled(i, j)
      BY <1>4
    <3> QED  BY <2>4, <3>1
  <2>6. Settled(i + 1, i + 1)
    BY <2>3
  <2>7. \A j \in 1 .. i + 1 : Settled(i + 1, j)
    BY <2>1, <2>5, <2>6
  <2> QED  BY <2>1, <2>4, <2>7
<1> HIDE DEF D
<1>5. Len(s) \in D
  BY <1>0, <1>3, <1>4, UpTo
<1>6. ASSUME NEW x \in (Elements(s) \cap set) \ f[Len(s)]
      PROVE  \E K \in SUBSET f[Len(s)] : Refused(x, K, k, before)
  <2>1. PICK l \in 1 .. Len(s) : x = s[l]
    BY DEF Elements
  <2>2. PICK j \in 1 .. Len(s) : l = Len(s) + 1 - j
    <3>1. Len(s) + 1 - l \in 1 .. Len(s) /\ l = Len(s) + 1 - (Len(s) + 1 - l)
      BY <1>0
    <3> QED  BY <3>1
  <2>3. x = m(j) /\ Settled(Len(s), j)
    BY <1>5, <2>1, <2>2 DEF D, m
  <2> QED  BY <2>3
<1> QED  BY <1>1, <1>5, <1>6 DEF D

(* What is refused beside K, and beside `before`, has no room beside more. *)
LEMMA RefusedBeside ==
  ASSUME NEW m, NEW K, NEW k \in Nat, NEW before, Refused(m, K, k, before),
         NEW S \in SUBSET Msg, K \subseteq S, NEW U, before \cup S \subseteq U,
         size \in [Msg -> Nat \ {0}]
  PROVE  Cardinality(S) >= k \/ Bytes(U \cup {m}) > MaxBytes
<1>1. IsFiniteSet(S) /\ IsFiniteSet(K) /\ Cardinality(K) <= Cardinality(S)
  BY Processes, FS_Subset
<1>2. Cardinality(K) \in Nat /\ Cardinality(S) \in Nat
  BY <1>1, FS_CardinalityType
<1>3. CASE ~(Cardinality(K) < k)
  BY <1>1, <1>2, <1>3
<1>4. CASE ~(Bytes(before \cup K \cup {m}) <= MaxBytes)
  <2>1. before \cup K \cup {m} \subseteq U \cup {m}
    OBVIOUS
  <2>2. /\ Bytes(before \cup K \cup {m}) \in Nat /\ Bytes(U \cup {m}) \in Nat
        /\ Bytes(before \cup K \cup {m}) <= Bytes(U \cup {m})
    BY <2>1, BytesGrow
  <2> QED  BY <1>4, <2>2, Numbers
<1> QED  BY <1>3, <1>4 DEF Refused

(* The file is replaced by s, of which r have been read: every unread      *)
(* message of s is unread in the file, or has been removed for its limit.  *)
LEMMA WriteIs ==
  ASSUME NEW s \in Seq(Msg), Distinct(s), NEW r \in SUBSET Elements(s),
         WriteMailbox(s, r), evicted \subseteq Msg, protocol \subseteq Msg,
         size \in [Msg -> Nat \ {0}]
  PROVE  /\ file' \in Seq(Msg) /\ Distinct(file') /\ Elements(file') \subseteq Elements(s)
         /\ read' \subseteq Elements(file') /\ read' \subseteq r
         /\ evicted \subseteq evicted' /\ evicted' \subseteq Msg
         /\ Elements(s) \ r \subseteq Unread' \cup evicted'
         /\ \A m \in evicted' \ evicted : NoRoom(m, Elements(file') \ read')
<1> DEFINE K == Kept(s, r)
           calls == Lane(s, protocol \ r, MaxProtocol, {})
           texts == Lane(s, Elements(s) \ (r \cup protocol), MaxMessages, calls)
           U == Elements(file') \ read'
<1>1. /\ file' = Filter(s, K) /\ read' = r \cap K
      /\ evicted' = evicted \cup (Elements(s) \ (r \cup K))
  BY DEF WriteMailbox
<1>2. texts \subseteq K /\ calls \subseteq K
  BY DEF Kept
<1>3. Elements(s) \subseteq Msg
  BY DEF Elements
<1>4. /\ calls \subseteq Elements(s) \cap (protocol \ r)
      /\ \A m \in (Elements(s) \cap (protocol \ r)) \ calls :
           \E C \in SUBSET calls : Refused(m, C, MaxProtocol, {})
  BY LaneIs
<1>5. /\ texts \subseteq Elements(s) \ (r \cup protocol)
      /\ \A m \in (Elements(s) \ (r \cup protocol)) \ texts :
           \E C \in SUBSET texts : Refused(m, C, MaxMessages, calls)
  <2> DEFINE set == Elements(s) \ (r \cup protocol)
  <2> HIDE DEF set, calls
  <2>1. /\ Lane(s, set, MaxMessages, calls) \subseteq Elements(s) \cap set
        /\ \A m \in (Elements(s) \cap set) \ Lane(s, set, MaxMessages, calls) :
             \E C \in SUBSET Lane(s, set, MaxMessages, calls) : Refused(m, C, MaxMessages, calls)
    BY LaneIs
  <2>2. Elements(s) \cap set = set /\ texts = Lane(s, set, MaxMessages, calls)
    BY DEF set, calls
  <2> QED  BY <2>1, <2>2 DEF set
<1> HIDE DEF K, texts, calls
<1>6. file' \in Seq(Msg) /\ Distinct(file') /\ Elements(file') = Elements(s) \cap K
  BY <1>1, FilterRemains, FilterDistinct
<1>7. /\ read' \subseteq Elements(file') /\ read' \subseteq r
      /\ evicted \subseteq evicted' /\ evicted' \subseteq Msg
  BY <1>1, <1>3, <1>6
<1>8. Elements(s) \ r \subseteq Unread' \cup evicted'
  BY <1>1, <1>6 DEF Unread
<1>9. calls \subseteq U \cap protocol /\ texts \subseteq U \ protocol /\ U \subseteq Msg
  BY <1>1, <1>2, <1>3, <1>4, <1>5, <1>6
<1>10. ASSUME NEW m \in evicted' \ evicted  PROVE NoRoom(m, U)
  <2>1. m \in Elements(s) /\ m \notin r /\ m \notin K
    BY <1>1, <1>10
  <2> HIDE DEF U
  <2>2. CASE m \in protocol
    <3>1. PICK C \in SUBSET calls : Refused(m, C, MaxProtocol, {})
      BY <1>2, <1>4, <2>1, <2>2
    <3>2. Cardinality(U \cap protocol) >= MaxProtocol \/ Bytes((U \cap protocol) \cup {m}) > MaxBytes
      <4> DEFINE S == U \cap protocol
      <4>1. S \in SUBSET Msg /\ C \subseteq S /\ {} \cup S \subseteq S
        BY <1>9
      <4> HIDE DEF S
      <4>2. Cardinality(S) >= MaxProtocol \/ Bytes(S \cup {m}) > MaxBytes
        BY <3>1, <4>1, Numbers, RefusedBeside
      <4> QED  BY <4>2 DEF S
    <3> QED  BY <2>2, <3>2 DEF NoRoom
  <2>3. CASE m \notin protocol
    <3>1. PICK C \in SUBSET texts : Refused(m, C, MaxMessages, calls)
      BY <1>2, <1>5, <2>1, <2>3
    <3>2. Cardinality(U \ protocol) >= MaxMessages \/ Bytes(U \cup {m}) > MaxBytes
      <4> DEFINE S == U \ protocol
      <4>1. S \in SUBSET Msg /\ C \subseteq S /\ calls \cup S \subseteq U
        BY <1>9
      <4> HIDE DEF S
      <4>2. Cardinality(S) >= MaxMessages \/ Bytes(U \cup {m}) > MaxBytes
        BY <3>1, <4>1, Numbers, RefusedBeside
      <4> QED  BY <4>2 DEF S
    <3> QED  BY <2>3, <3>2 DEF NoRoom
  <2> QED  BY <2>2, <2>3
<1> QED  BY <1>6, <1>7, <1>8, <1>10

-----------------------------------------------------------------------------
(* The lock.                                                               *)
LEMMA LockTaken ==
  ASSUME IInv, NEW p \in Proc, LockAndRead(p), file' = file, read' = read,
         Holds(p)', \A q \in Proc \ {p} : Holds(q)' <=> Holds(q)
  PROVE  Locked'
<1>1. /\ lock' = p /\ lock = Free
      /\ copy'[p] = file /\ \A q \in Proc \ {p} : copy'[q] = copy[q]
      /\ seen'[p] = read /\ \A q \in Proc \ {p} : seen'[q] = seen[q]
  BY DEF LockAndRead, IInv, Locked
<1>2. copy' \in [Proc -> Seq(Msg)] /\ seen' \in [Proc -> SUBSET Msg]
  <2>1. file \in Seq(Msg) /\ read \in SUBSET Msg
    BY DEF IInv, Stored, Elements
  <2> QED  BY <2>1 DEF LockAndRead, IInv, Locked
<1>3. \A q \in Proc : ~Holds(q)
  BY <1>1, Processes DEF IInv, Locked
<1> QED  BY <1>1, <1>2, <1>3 DEF Locked

LEMMA ForgetIs ==
  ASSUME IInv, NEW p \in Proc, Forget(p)
  PROVE  /\ copy' \in [Proc -> Seq(Msg)] /\ seen' \in [Proc -> SUBSET Msg]
         /\ \A q \in Proc \ {p} : copy'[q] = copy[q] /\ seen'[q] = seen[q]
<1>1. copy' \in [Proc -> Seq(Msg)] /\ seen' \in [Proc -> SUBSET Msg]
  BY DEF Forget, IInv, Locked
<1>2. \A q \in Proc \ {p} : copy'[q] = copy[q]
  BY DEF Forget, IInv, Locked
<1>3. \A q \in Proc \ {p} : seen'[q] = seen[q]
  BY DEF Forget, IInv, Locked
<1> QED  BY <1>1, <1>2, <1>3

(* The holder is done with the lock, or dies.                              *)
LEMMA LockFreed ==
  ASSUME IInv, NEW p \in Proc, Holds(p), lock' = Free, Forget(p),
         ~Holds(p)', \A q \in Proc \ {p} : Holds(q)' <=> Holds(q)
  PROVE  Locked'
<1>1. \A q \in Proc : ~Holds(q)'
  BY DEF IInv, Locked
<1> QED  BY <1>1, ForgetIs, Processes DEF Locked

LEMMA LockKept ==
  ASSUME IInv, UNCHANGED <<lock, copy, seen, file, read>>,
         \A q \in Proc : Holds(q)' <=> Holds(q)
  PROVE  Locked'
BY DEF IInv, Locked

(* A step of one sender, or of one poll, changes what that one holds.      *)
LEMMA SenderHolds ==
  ASSUME NEW m \in Msg, \A q \in Msg \ {m} : send'[q] = send[q], slot' = slot
  PROVE  /\ m \in Proc /\ (Holds(m) <=> send[m] = "writing") /\ (Holds(m)' <=> send'[m] = "writing")
         /\ \A q \in Proc \ {m} : Holds(q)' <=> Holds(q)
BY DEF Holds, Proc

LEMMA PollHolds ==
  ASSUME NEW i \in Slot, \A j \in Slot \ {i} : slot'[j] = slot[j], send' = send
  PROVE  /\ i \in Proc /\ (Holds(i) <=> slot[i] = "writing") /\ (Holds(i)' <=> slot'[i] = "writing")
         /\ \A q \in Proc \ {i} : Holds(q)' <=> Holds(q)
BY Processes DEF Holds, Proc

-----------------------------------------------------------------------------
(* What the steps share.                                                   *)
LEMMA StoredKept ==
  ASSUME IInv, UNCHANGED <<file, read, evicted>>,
         \A m \in Msg : send[m] = "sent" => send'[m] = "sent"
  PROVE  Stored'
<1>1. Elements(file) \subseteq Msg
  BY DEF IInv, Stored, Elements
<1> QED  BY <1>1 DEF IInv, Stored, Distinct, Elements

LEMMA NoneLost ==
  ASSUME IInv, Places \subseteq Places', \A m \in Msg : send'[m] = "sent" => send[m] = "sent"
  PROVE  NothingLost'
BY DEF IInv, NothingLost, Places

(* The message in hand: of the polls that are not at the end of theirs, it *)
(* does not matter what they are at.                                       *)
LEMMA HandKept ==
  ASSUME \A i \in Slot : slot[i] = "taking" => slot'[i] = "taking" /\ snap'[i] = snap[i]
  PROVE  Hand \subseteq Hand'
BY DEF Hand

-----------------------------------------------------------------------------
(* The senders.                                                            *)

(* Before a sender holds the lock, and when it does not get it.            *)
LEMMA PreparesKeeps ==
  ASSUME IInv, NEW m \in Msg, Create(m) \/ FillNew(m) \/ SendFails(m)
  PROVE  IInv'
<1>1. UNCHANGED <<reader, protocol, routed, size, file, read, lock, copy, seen, reading,
                  crashes, delivered, evicted, fallen>>
  BY DEF Create, FillNew, SendFails
<1>2. /\ send[m] \in {"new", "creating", "locking"}
      /\ send'[m] \in {"creating", "locking", "failed"}
      /\ \A q \in Msg \ {m} : send'[q] = send[q]
  BY DEF IInv, Plain, Create, FillNew, SendFails, InTurn, ToLock
<1>3. Plain'
  BY <1>1 DEF reading, IInv, Plain, Create, FillNew, SendFails
<1>4. Stored'
  BY <1>1, <1>2, StoredKept
<1>5. Locked'
  BY <1>1, <1>2, SenderHolds, LockKept DEF reading
<1>6. Handled'
  BY <1>1 DEF reading, IInv, Handled
<1>7. NothingLost'
  <2>1. Places' = Places
    BY <1>1 DEF reading, Places, Unread, Hand, Elements
  <2> QED  BY <1>2, <2>1, NoneLost
<1> QED  BY <1>3, <1>4, <1>5, <1>6, <1>7 DEF IInv

LEMMA LockToWriteKeeps ==
  ASSUME IInv, NEW m \in Msg, LockToWrite(m)
  PROVE  IInv'
<1>1. /\ UNCHANGED <<reader, protocol, routed, size, made, file, read, reading, crashes,
                     delivered, evicted, fallen>>
      /\ LockAndRead(m)
  BY DEF LockToWrite
<1>2. /\ send[m] \in {"new", "locking"} /\ send'[m] = "writing"
      /\ \A q \in Msg \ {m} : send'[q] = send[q]
  BY DEF IInv, Plain, LockToWrite, InTurn, ToLock
<1>3. Plain'
  BY <1>1 DEF reading, IInv, Plain, LockToWrite
<1>4. Stored'
  BY <1>1, <1>2, StoredKept
<1>5. Locked'
  BY <1>1, <1>2, SenderHolds, LockTaken DEF reading
<1>6. Handled'
  BY <1>1 DEF reading, IInv, Handled
<1>7. NothingLost'
  <2>1. Places' = Places
    BY <1>1 DEF reading, Places, Unread, Hand, Elements
  <2> QED  BY <1>2, <2>1, NoneLost
<1> QED  BY <1>3, <1>4, <1>5, <1>6, <1>7 DEF IInv

(* A message that is written was not in the file, and what was in the file *)
(* is there with it, or has been removed for its limit.                    *)
LEMMA WriteAppends ==
  ASSUME IInv, NEW m \in Msg, Write(m)
  PROVE  /\ Append(file, m) \in Seq(Msg) /\ Distinct(Append(file, m))
         /\ Elements(Append(file, m)) = Elements(file) \cup {m} /\ m \notin Elements(file)
         /\ read \in SUBSET Elements(Append(file, m))
         /\ WriteMailbox(Append(file, m), read)
<1>1. m \in Proc /\ Holds(m) /\ send[m] = "writing"
  BY DEF Write, Holds, Proc
<1>2. copy[m] = file /\ seen[m] = read
  BY <1>1 DEF IInv, Locked
<1>3. m \notin Elements(file)
  BY <1>1 DEF IInv, Stored
<1>4. file \in Seq(Msg) /\ Distinct(file) /\ read \subseteq Elements(file)
  BY DEF IInv, Stored
<1>5. /\ Append(file, m) \in Seq(Msg) /\ Distinct(Append(file, m))
      /\ Elements(Append(file, m)) = Elements(file) \cup {m}
  BY <1>3, <1>4, AppendIs
<1> QED  BY <1>2, <1>3, <1>4, <1>5 DEF Write

LEMMA WriteKeeps ==
  ASSUME IInv, NEW m \in Msg, Write(m)
  PROVE  IInv'
<1>1. /\ UNCHANGED <<reader, protocol, routed, size, made, reading, crashes, delivered, fallen>>
      /\ lock' = Free /\ Forget(m)
  BY DEF Write
<1>2. /\ send[m] = "writing" /\ send'[m] = "sent"
      /\ \A q \in Msg \ {m} : send'[q] = send[q]
  BY DEF IInv, Plain, Write
<1>3. PICK s \in Seq(Msg) :
         /\ Distinct(s) /\ Elements(s) = Elements(file) \cup {m} /\ m \notin Elements(file)
         /\ read \in SUBSET Elements(s) /\ WriteMailbox(s, read)
  BY WriteAppends
<1>4. /\ file' \in Seq(Msg) /\ Distinct(file') /\ Elements(file') \subseteq Elements(s)
      /\ read' \subseteq Elements(file') /\ evicted \subseteq evicted' /\ evicted' \subseteq Msg
      /\ Elements(s) \ read \subseteq Unread' \cup evicted'
  <2>1. evicted \subseteq Msg /\ protocol \subseteq Msg /\ size \in [Msg -> Nat \ {0}]
    BY DEF IInv, Stored, Plain
  <2> QED  BY <1>3, <2>1, WriteIs
<1>5. Plain'
  BY <1>1 DEF reading, IInv, Plain, Write
<1>6. Stored'
  <2>1. \A q \in Elements(file') : send'[q] = "sent"
    <3>1. Elements(file') \subseteq Elements(file) \cup {m}
      BY <1>3, <1>4
    <3>2. Elements(file) \subseteq Msg
      BY DEF IInv, Stored, Elements
    <3> QED  BY <1>2, <3>1, <3>2 DEF IInv, Stored
  <2> QED  BY <1>4, <2>1 DEF Stored
<1>7. Locked'
  BY <1>1, <1>2, SenderHolds, LockFreed DEF reading
<1>8. Handled'
  BY <1>1 DEF reading, IInv, Handled
<1>9. NothingLost'
  <2>1. Unread \cup {m} \subseteq Elements(s) \ read
    BY <1>3 DEF IInv, Stored, Unread
  <2>2. Hand' = Hand
    BY <1>1 DEF reading, Hand
  <2>3. Places \cup {m} \subseteq Places'
    BY <1>1, <1>4, <2>1, <2>2 DEF reading, Places
  <2> QED  BY <1>2, <2>3 DEF IInv, NothingLost, Places
<1> QED  BY <1>5, <1>6, <1>7, <1>8, <1>9 DEF IInv

LEMMA CrashSenderKeeps ==
  ASSUME IInv, NEW m \in Msg, CrashSender(m)
  PROVE  IInv'
<1>1. /\ UNCHANGED <<reader, protocol, routed, size, made, file, read, reading, delivered, evicted, fallen>>
      /\ Forget(m) /\ lock' = IF lock = m THEN Free ELSE lock
  BY DEF CrashSender
<1>2. /\ send[m] \in {"creating", "writing"} /\ send'[m] = "failed"
      /\ \A q \in Msg \ {m} : send'[q] = send[q]
  BY DEF IInv, Plain, CrashSender
<1>3. Plain'
  <2>1. crashes' \in 0 .. MaxCrashes
    BY Numbers DEF CrashSender, IInv, Plain
  <2>2. send' \in [Msg -> {"new", "creating", "locking", "writing", "sent", "failed"}]
    BY DEF CrashSender, IInv, Plain
  <2> QED  BY <1>1, <2>1, <2>2 DEF reading, IInv, Plain
<1>4. Stored'
  BY <1>1, <1>2, StoredKept
<1>5. Locked'
  <2>1. /\ m \in Proc /\ (Holds(m) <=> send[m] = "writing") /\ ~Holds(m)'
        /\ \A q \in Proc \ {m} : Holds(q)' <=> Holds(q)
    BY <1>1, <1>2, SenderHolds DEF reading
  <2>2. CASE Holds(m)
    <3>1. lock' = Free
      BY <1>1, <2>1, <2>2 DEF IInv, Locked
    <3> QED  BY <1>1, <2>1, <2>2, <3>1, LockFreed
  <2>3. CASE ~Holds(m)
    <3>1. lock' = lock
      BY <1>1, <2>1, <2>3 DEF IInv, Locked
    <3>2. /\ copy' \in [Proc -> Seq(Msg)] /\ seen' \in [Proc -> SUBSET Msg]
          /\ \A q \in Proc \ {m} : copy'[q] = copy[q] /\ seen'[q] = seen[q]
      BY <1>1, <2>1, ForgetIs
    <3> QED  BY <1>1, <2>1, <2>3, <3>1, <3>2 DEF IInv, Locked
  <2> QED  BY <2>2, <2>3
<1>6. Handled'
  BY <1>1 DEF reading, IInv, Handled
<1>7. NothingLost'
  <2>1. Places' = Places
    BY <1>1 DEF reading, Places, Unread, Hand, Elements
  <2> QED  BY <1>2, <2>1, NoneLost
<1> QED  BY <1>3, <1>4, <1>5, <1>6, <1>7 DEF IInv

-----------------------------------------------------------------------------
(* The session.                                                            *)

(* A step of the session that leaves the file and the lock alone, of a poll*)
(* that is not writing before or after it.                                 *)
LEMMA SessionSteps ==
  ASSUME IInv, NEW i \in Slot, UNCHANGED <<file, read, lock, copy, seen, send, evicted>>,
         \A j \in Slot \ {i} : slot'[j] = slot[j],
         slot[i] # "writing", slot'[i] # "writing"
  PROVE  Stored' /\ Locked'
<1>1. Stored'
  BY StoredKept
<1>2. Locked'
  BY PollHolds, LockKept
<1> QED  BY <1>1, <1>2

LEMMA PollKeeps ==
  ASSUME IInv, NEW i \in Slot, Poll(i)
  PROVE  IInv'
<1>1. /\ UNCHANGED <<reader, protocol, routed, size, made, file, read, lock, copy, seen, send,
                     pending, busy, crashes, delivered, evicted, fallen>>
      /\ slot[i] = "idle"
  BY DEF Poll
<1>2. /\ \A j \in Slot \ {i} : slot'[j] = slot[j] /\ snap'[j] = snap[j]
      /\ slot'[i] \in {"processing", "marking"}
      /\ slot'[i] = "marking" => reader = "runner"
  BY DEF Poll, IInv, Plain
<1>3. Plain'
  <2>1. Unread \in SUBSET Msg
    BY DEF Unread, IInv, Stored, Elements
  <2>2. snap' \in [Slot -> SUBSET Msg]
    BY <2>1 DEF Poll, IInv, Plain
  <2>3. slot' \in [Slot -> {"idle", "processing", "marking", "writing", "taking"}]
    BY DEF Poll, IInv, Plain
  <2> QED  BY <1>1, <2>2, <2>3 DEF IInv, Plain
<1>4. Stored' /\ Locked'
  BY <1>1, <1>2, SessionSteps
<1>5. Handled'
  BY <1>1, <1>2 DEF IInv, Handled
<1>6. NothingLost'
  <2>1. Hand \subseteq Hand'
    BY <1>1, <1>2, HandKept
  <2>2. Places \subseteq Places'
    BY <1>1, <2>1 DEF Places, Unread, Elements
  <2> QED  BY <1>1, <2>2, NoneLost
<1> QED  BY <1>3, <1>4, <1>5, <1>6 DEF IInv

LEMMA ProcessKeeps ==
  ASSUME IInv, NEW i \in Slot, Process(i)
  PROVE  IInv'
<1>1. /\ UNCHANGED <<reader, protocol, routed, size, made, file, read, lock, copy, seen, send,
                     snap, crashes, evicted, fallen>>
      /\ slot[i] = "processing" /\ slot' = [slot EXCEPT ![i] = "marking"]
  BY DEF Process
<1>2. slot'[i] = "marking" /\ \A j \in Slot \ {i} : slot'[j] = slot[j]
  BY <1>1 DEF IInv, Plain
<1>3. snap[i] \in SUBSET Msg /\ pending \subseteq Msg /\ delivered \subseteq Msg /\ busy \in BOOLEAN
  BY DEF IInv, Plain
<1>4. /\ pending \subseteq pending' /\ delivered \subseteq delivered' /\ busy' \in BOOLEAN
      /\ pending' \cup delivered' = pending \cup delivered \cup snap[i]
  BY <1>3 DEF Process
<1>5. Plain'
  <2>1. pending' \subseteq Msg /\ delivered' \subseteq Msg
    BY <1>3, <1>4
  <2> QED  BY <1>1, <1>4, <2>1 DEF IInv, Plain
<1>6. Stored' /\ Locked'
  BY <1>1, <1>2, SessionSteps
<1>7. Handled'
  BY <1>1, <1>2, <1>4 DEF IInv, Handled
<1>8. NothingLost'
  <2>1. Hand \subseteq Hand'
    BY <1>1, <1>2, HandKept
  <2>2. Places \subseteq Places'
    BY <1>1, <1>4, <2>1 DEF Places, Unread, Elements
  <2> QED  BY <1>1, <2>2, NoneLost
<1> QED  BY <1>5, <1>6, <1>7, <1>8 DEF IInv

LEMMA LockToMarkKeeps ==
  ASSUME IInv, NEW i \in Slot, LockToMark(i)
  PROVE  IInv'
<1>1. /\ UNCHANGED <<reader, protocol, routed, size, made, file, read, send, snap, pending, busy,
                     crashes, delivered, evicted, fallen>>
      /\ slot[i] = "marking" /\ slot' = [slot EXCEPT ![i] = "writing"] /\ LockAndRead(i)
  BY DEF LockToMark
<1>2. slot'[i] = "writing" /\ \A j \in Slot \ {i} : slot'[j] = slot[j]
  BY <1>1 DEF IInv, Plain
<1>3. Plain'
  BY <1>1 DEF IInv, Plain
<1>4. Stored'
  BY <1>1, StoredKept
<1>5. Locked'
  BY <1>1, <1>2, PollHolds, LockTaken
<1>6. Handled'
  BY <1>1, <1>2 DEF IInv, Handled
<1>7. NothingLost'
  <2>1. Hand \subseteq Hand'
    BY <1>1, <1>2, HandKept
  <2>2. Places \subseteq Places'
    BY <1>1, <2>1 DEF Places, Unread, Elements
  <2> QED  BY <1>1, <2>2, NoneLost
<1> QED  BY <1>3, <1>4, <1>5, <1>6, <1>7 DEF IInv

(* What a marking does to the file: it writes what it has read, and marks  *)
(* nothing that is not in its snapshot.                                    *)
LEMMA MarkWrites ==
  ASSUME IInv, NEW i \in Slot, Mark(i)
  PROVE  \/ UNCHANGED <<file, read, evicted>>
         \/ \E r \in SUBSET Elements(file) :
              r \subseteq read \cup snap[i] /\ WriteMailbox(file, r)
<1>1. i \in Proc /\ Holds(i)
  BY Processes DEF Mark, Holds, Proc
<1>2. copy[i] = file /\ seen[i] = read
  BY <1>1 DEF IInv, Locked
<1>3. read \subseteq Elements(file)
  BY DEF IInv, Stored
<1> DEFINE left == (snap[i] \cap Elements(copy[i])) \ seen[i]
           r == seen[i] \cup left
<1>4. UNCHANGED <<file, read, evicted>> \/ WriteMailbox(copy[i], r)
  BY DEF Mark, MarkSnapshot
<1>5. r \subseteq Elements(file) /\ r \subseteq read \cup snap[i]
  BY <1>2, <1>3
<1> QED  BY <1>2, <1>4, <1>5

(* The end of a marking, successful or not.                                *)
LEMMA PollEnds ==
  ASSUME IInv, NEW i \in Slot, slot[i] \in {"marking", "writing"},
         UNCHANGED <<reader, pending, delivered>>,
         IF reader = "runner"
           THEN slot' = [slot EXCEPT ![i] = "taking"] /\ UNCHANGED snap
           ELSE slot' = [slot EXCEPT ![i] = "idle"] /\ snap' = [snap EXCEPT ![i] = {}]
  PROVE  /\ slot'[i] \in {"taking", "idle"} /\ \A j \in Slot \ {i} : slot'[j] = slot[j]
         /\ slot' \in [Slot -> {"idle", "processing", "marking", "writing", "taking"}]
         /\ snap' \in [Slot -> SUBSET Msg]
         /\ Handled' /\ Hand \subseteq Hand'
         /\ snap[i] \subseteq Hand' \cup pending' \cup delivered'
<1>1. CASE reader = "runner"
  <2>1. /\ slot'[i] = "taking" /\ snap' = snap /\ \A j \in Slot \ {i} : slot'[j] = slot[j]
        /\ slot' \in [Slot -> {"idle", "processing", "marking", "writing", "taking"}]
    BY <1>1 DEF IInv, Plain
  <2>2. Hand \subseteq Hand'
    BY <2>1, HandKept
  <2>3. snap[i] \subseteq Hand'
    BY <2>1 DEF Hand
  <2>4. Handled'
    BY <1>1 DEF Handled
  <2> QED  BY <2>1, <2>2, <2>3, <2>4 DEF IInv, Plain
<1>2. CASE reader # "runner"
  <2>1. reader = "poller"
    BY <1>2 DEF IInv, Plain
  <2>2. /\ slot'[i] = "idle" /\ \A j \in Slot \ {i} : slot'[j] = slot[j] /\ snap'[j] = snap[j]
        /\ slot' \in [Slot -> {"idle", "processing", "marking", "writing", "taking"}]
    BY <1>2 DEF IInv, Plain
  <2>3. snap' \in [Slot -> SUBSET Msg]
    BY <1>2 DEF IInv, Plain
  <2>4. Hand \subseteq Hand'
    BY <2>2, HandKept
  <2>5. snap[i] \subseteq pending \cup delivered
    BY <2>1 DEF IInv, Handled
  <2>6. Handled'
    BY <2>2 DEF IInv, Handled
  <2> QED  BY <2>2, <2>3, <2>4, <2>5, <2>6
<1> QED  BY <1>1, <1>2

LEMMA MarkKeeps ==
  ASSUME IInv, NEW i \in Slot, Mark(i)
  PROVE  IInv'
<1>1. /\ UNCHANGED <<reader, protocol, routed, size, made, send, pending, busy, crashes, delivered, fallen>>
      /\ slot[i] = "writing" /\ lock' = Free /\ Forget(i)
  BY DEF Mark
<1>2. /\ slot'[i] \in {"taking", "idle"} /\ \A j \in Slot \ {i} : slot'[j] = slot[j]
      /\ slot' \in [Slot -> {"idle", "processing", "marking", "writing", "taking"}]
      /\ snap' \in [Slot -> SUBSET Msg]
      /\ Handled' /\ Hand \subseteq Hand'
      /\ snap[i] \subseteq Hand' \cup pending' \cup delivered'
  BY <1>1, PollEnds DEF Mark
<1>3. Plain'
  BY <1>1, <1>2 DEF IInv, Plain
<1>4. Locked'
  BY <1>1, <1>2, PollHolds, LockFreed
<1>5. Stored' /\ Unread \ snap[i] \subseteq Unread' \cup evicted' /\ evicted \subseteq evicted'
  <2>1. CASE UNCHANGED <<file, read, evicted>>
    <3>1. Stored'
      BY <1>1, <2>1, StoredKept
    <3> QED  BY <2>1, <3>1 DEF Unread, Elements
  <2>2. CASE \E r \in SUBSET Elements(file) :
               r \subseteq read \cup snap[i] /\ WriteMailbox(file, r)
    <3>1. PICK r \in SUBSET Elements(file) :
             r \subseteq read \cup snap[i] /\ WriteMailbox(file, r)
      BY <2>2
    <3>2. /\ file \in Seq(Msg) /\ Distinct(file) /\ evicted \subseteq Msg /\ protocol \subseteq Msg
          /\ size \in [Msg -> Nat \ {0}]
      BY DEF IInv, Stored, Plain
    <3>3. /\ file' \in Seq(Msg) /\ Distinct(file') /\ Elements(file') \subseteq Elements(file)
          /\ read' \subseteq Elements(file') /\ evicted \subseteq evicted' /\ evicted' \subseteq Msg
          /\ Elements(file) \ r \subseteq Unread' \cup evicted'
      BY <3>1, <3>2, WriteIs
    <3>4. Stored'
      BY <1>1, <3>3 DEF IInv, Stored
    <3> QED  BY <3>1, <3>3, <3>4 DEF Unread
  <2> QED  BY <2>1, <2>2, MarkWrites
<1>6. NothingLost'
  <2>1. Places \subseteq Places'
    BY <1>1, <1>2, <1>5 DEF Places
  <2> QED  BY <1>1, <2>1, NoneLost
<1> QED  BY <1>2, <1>3, <1>4, <1>5, <1>6 DEF IInv

LEMMA MarkFailsKeeps ==
  ASSUME IInv, NEW i \in Slot, MarkFails(i)
  PROVE  IInv'
<1>1. /\ UNCHANGED <<reader, protocol, routed, size, made, file, read, lock, copy, seen, send,
                     pending, busy, crashes, delivered, evicted, fallen>>
      /\ slot[i] = "marking"
  BY DEF MarkFails
<1>2. /\ slot'[i] \in {"taking", "idle"} /\ \A j \in Slot \ {i} : slot'[j] = slot[j]
      /\ slot' \in [Slot -> {"idle", "processing", "marking", "writing", "taking"}]
      /\ snap' \in [Slot -> SUBSET Msg]
      /\ Handled' /\ Hand \subseteq Hand'
  BY <1>1, PollEnds DEF MarkFails
<1>3. Plain'
  BY <1>1, <1>2 DEF IInv, Plain
<1>4. Stored' /\ Locked'
  BY <1>1, <1>2, SessionSteps
<1>5. NothingLost'
  <2>1. Places \subseteq Places'
    BY <1>1, <1>2 DEF Places, Unread, Elements
  <2> QED  BY <1>1, <2>1, NoneLost
<1> QED  BY <1>2, <1>3, <1>4, <1>5 DEF IInv

LEMMA TakeKeeps ==
  ASSUME IInv, NEW i \in Slot, Take(i)
  PROVE  IInv'
<1>1. /\ UNCHANGED <<reader, protocol, routed, size, made, file, read, lock, copy, seen, send,
                     pending, crashes, evicted, fallen>>
      /\ slot[i] = "taking" /\ busy' = TRUE /\ delivered' = delivered \cup snap[i]
  BY DEF Take
<1>2. /\ slot'[i] = "idle" /\ \A j \in Slot \ {i} : slot'[j] = slot[j] /\ snap'[j] = snap[j]
      /\ slot' \in [Slot -> {"idle", "processing", "marking", "writing", "taking"}]
  BY DEF Take, IInv, Plain
<1>3. Plain'
  <2>1. snap' \in [Slot -> SUBSET Msg] /\ delivered' \subseteq Msg
    BY <1>1 DEF Take, IInv, Plain
  <2> QED  BY <1>1, <1>2, <2>1 DEF IInv, Plain
<1>4. Stored' /\ Locked'
  BY <1>1, <1>2, SessionSteps
<1>5. Handled'
  BY <1>1, <1>2 DEF IInv, Handled
<1>6. NothingLost'
  <2>1. Hand \subseteq Hand' \cup snap[i]
    <3> SUFFICES ASSUME NEW m \in Hand  PROVE m \in Hand' \cup snap[i]
      OBVIOUS
    <3>1. PICK j \in Slot : slot[j] = "taking" /\ m \in snap[j]
      BY HandIs
    <3> QED  BY <1>2, <3>1 DEF Hand
  <2>2. Places \subseteq Places'
    BY <1>1, <2>1 DEF Places, Unread, Elements
  <2> QED  BY <1>1, <2>2, NoneLost
<1> QED  BY <1>3, <1>4, <1>5, <1>6 DEF IInv

(* What was queued is delivered; a turn starts or ends.                    *)
LEMMA TurnsKeep ==
  ASSUME IInv, DeliverPending \/ UserTurn \/ TurnEnds
  PROVE  IInv'
<1>1. UNCHANGED <<reader, protocol, routed, size, made, file, read, lock, copy, seen, send,
                  slot, snap, crashes, evicted, fallen>>
  BY DEF DeliverPending, UserTurn, TurnEnds
<1>2. /\ pending' \cup delivered' = pending \cup delivered
      /\ pending' \subseteq Msg /\ delivered' \subseteq Msg /\ busy' \in BOOLEAN
  BY DEF DeliverPending, UserTurn, TurnEnds, IInv, Plain
<1>3. Plain'
  BY <1>1, <1>2 DEF IInv, Plain
<1>4. Stored'
  BY <1>1, StoredKept
<1>5. Locked'
  BY <1>1, LockKept DEF Holds
<1>6. Handled'
  BY <1>1, <1>2 DEF IInv, Handled
<1>7. NothingLost'
  <2>1. Places \subseteq Places'
    BY <1>1, <1>2 DEF Places, Unread, Elements, Hand
  <2> QED  BY <1>1, <2>1, NoneLost
<1> QED  BY <1>3, <1>4, <1>5, <1>6, <1>7 DEF IInv

(* The session dies with what it kept in memory.                           *)
LEMMA CrashSessionKeeps ==
  ASSUME IInv, CrashSession
  PROVE  IInv'
<1>1. /\ UNCHANGED <<reader, protocol, routed, size, made, file, read, send, delivered, evicted>>
      /\ fallen' = fallen \cup ((pending \cup Hand) \ Unread)
      /\ pending' = {} /\ busy' = FALSE
      /\ lock' = IF lock \in Slot THEN Free ELSE lock
  BY DEF CrashSession
<1>2. \A i \in Slot : slot'[i] = "idle"
  BY DEF CrashSession
<1>3. Hand \subseteq Msg
  BY DEF IInv, Plain, Hand
<1>4. Plain'
  <2>1. crashes' \in 0 .. MaxCrashes
    BY Numbers DEF CrashSession, IInv, Plain
  <2>2. slot' \in [Slot -> {"idle", "processing", "marking", "writing", "taking"}]
    BY DEF CrashSession
  <2>3. snap' \in [Slot -> SUBSET Msg]
    BY DEF CrashSession
  <2>4. fallen' \subseteq Msg
    BY <1>1, <1>3 DEF IInv, Plain
  <2> QED  BY <1>1, <2>1, <2>2, <2>3, <2>4 DEF IInv, Plain
<1>5. Stored'
  BY <1>1, StoredKept
<1>6. Locked'
  <2>1. \A q \in Proc : Holds(q)' <=> Holds(q) /\ q \in Msg
    BY <1>1, <1>2, Processes DEF Holds, Proc
  <2>2. \A q \in Proc : Holds(q)' <=> lock' = q
    BY <1>1, <2>1, Processes DEF IInv, Locked, Proc
  <2>3. lock' \in Proc \cup {Free}
    BY <1>1 DEF IInv, Locked
  <2>4. copy' \in [Proc -> Seq(Msg)]
    BY DEF CrashSession, IInv, Locked
  <2>5. seen' \in [Proc -> SUBSET Msg]
    BY DEF CrashSession, IInv, Locked
  <2>6. \A q \in Proc : q \in Msg => copy'[q] = copy[q] /\ seen'[q] = seen[q]
    BY Processes DEF CrashSession
  <2> QED  BY <1>1, <2>1, <2>2, <2>3, <2>4, <2>5, <2>6 DEF IInv, Locked
<1>7. Handled'
  BY <1>2 DEF Handled
<1>8. NothingLost'
  <2>1. Places \subseteq Places'
    BY <1>1 DEF Places, Unread, Elements
  <2> QED  BY <1>1, <2>1, NoneLost
<1> QED  BY <1>4, <1>5, <1>6, <1>7, <1>8 DEF IInv

LEMMA StutterKeeps ==
  ASSUME IInv, UNCHANGED vars
  PROVE  IInv'
<1>1. Plain'
  BY DEF vars, reading, IInv, Plain
<1>2. Stored'
  BY StoredKept DEF vars
<1>3. Locked'
  BY LockKept DEF vars, reading, Holds
<1>4. Handled' /\ NothingLost'
  BY DEF vars, reading, IInv, Handled, NothingLost, Unread, Elements, Hand
<1> QED  BY <1>1, <1>2, <1>3, <1>4 DEF IInv

-----------------------------------------------------------------------------
LEMMA NextKeeps == IInv /\ [Next]_vars => IInv'
<1> SUFFICES ASSUME IInv, [Next]_vars  PROVE IInv'
  OBVIOUS
<1>1. ASSUME NEW m \in Msg, Sender(m) \/ CrashSender(m)
      PROVE  IInv'
  BY <1>1, PreparesKeeps, LockToWriteKeeps, WriteKeeps, CrashSenderKeeps DEF Sender
<1>2. ASSUME NEW i \in Slot, Poll(i) \/ Handle(i)
      PROVE  IInv'
  BY <1>2, PollKeeps, ProcessKeeps, LockToMarkKeeps, MarkKeeps, MarkFailsKeeps, TakeKeeps
     DEF Handle
<1> QED  BY <1>1, <1>2, TurnsKeep, CrashSessionKeeps, StutterKeeps DEF Next

LEMMA AlwaysIInv == Spec => []IInv
<1> QED  BY InitIInv, NextKeeps, PTL DEF Spec

(* teammateMailbox.ts: the lock of the inbox has one holder, who is between*)
(* the ends of a locked update, and what is marked as read is in the file. *)
THEOREM Typing == Spec => []TypeOK
<1> QED  BY AlwaysIInv, InvImplies, PTL

(* writeToMailbox, markMessagesAsReadBySnapshot, the poller and the runner:*)
(* a message that was sent is in the file, with the session or delivered,  *)
(* unless compaction had no room for it or its session died.               *)
THEOREM NothingIsLost == Spec => []NothingLost
<1>1. IInv => NothingLost
  BY DEF IInv
<1> QED  BY <1>1, AlwaysIInv, PTL

(* compactMailboxMessages: an unread message is removed only where those of*)
(* its kind that stay reach their limit, or leave too few bytes for it.    *)
THEOREM NoneIsEvictedForNothing == Spec => EvictsForRoom
<1> DEFINE Full(m) == NoRoom(m, Elements(file') \ read')
<1>1. ASSUME IInv, [Next]_vars, NEW m \in evicted' \ evicted
      PROVE  Full(m)
  <2>1. evicted \subseteq Msg /\ protocol \subseteq Msg /\ size \in [Msg -> Nat \ {0}]
    BY <1>1 DEF IInv, Stored, Plain
  <2>2. ASSUME NEW s \in Seq(Msg), Distinct(s), NEW r \in SUBSET Elements(s), WriteMailbox(s, r)
        PROVE  Full(m)
    BY <1>1, <2>1, <2>2, WriteIs
  <2>3. ASSUME NEW q \in Msg, Write(q)  PROVE Full(m)
    <3> HIDE DEF Full
    <3> QED  BY <1>1, <2>2, <2>3, WriteAppends
  <2>4. ASSUME NEW i \in Slot, Mark(i)  PROVE Full(m)
    <3>1. PICK r \in SUBSET Elements(file) : WriteMailbox(file, r)
      BY <1>1, <2>4, MarkWrites
    <3>2. file \in Seq(Msg) /\ Distinct(file)
      BY <1>1 DEF IInv, Stored
    <3> HIDE DEF Full
    <3> QED  BY <2>2, <3>1, <3>2
  <2>5. ASSUME NEW q \in Msg, Create(q) \/ FillNew(q) \/ LockToWrite(q) \/ SendFails(q) \/ CrashSender(q)
        PROVE  FALSE
    BY <1>1, <2>5 DEF Create, FillNew, LockToWrite, SendFails, CrashSender
  <2>6. ASSUME NEW i \in Slot,
               Poll(i) \/ Process(i) \/ LockToMark(i) \/ MarkFails(i) \/ Take(i)
        PROVE  FALSE
    BY <1>1, <2>6 DEF Poll, Process, LockToMark, MarkFails, Take
  <2>7. ASSUME DeliverPending \/ UserTurn \/ TurnEnds \/ CrashSession \/ UNCHANGED vars
        PROVE  FALSE
    BY <1>1, <2>7 DEF DeliverPending, UserTurn, TurnEnds, CrashSession, vars
  <2> HIDE DEF Full
  <2> QED  BY <1>1, <2>3, <2>4, <2>5, <2>6, <2>7 DEF Next, Sender, Handle
<1>2. IInv /\ [Next]_vars => [\A m \in evicted' \ evicted : Full(m)]_vars
  BY <1>1
<1>3. (\A m \in evicted' \ evicted : Full(m)) => \A m \in evicted' \ evicted : NoRoom(m, Unread')
  BY DEF Unread
<1> HIDE DEF Full
<1> QED  BY <1>2, <1>3, AlwaysIInv, PTL DEF Spec, EvictsForRoom
=============================================================================
