-------------------------- MODULE TurnGuardProofs --------------------------
(***************************************************************************)
(* For any prompts, any number of runs alive at once and any number of     *)
(* cancellations: the guard follows the turn it was given to last, no      *)
(* reservation is left behind, and every prompt of the user is in one      *)
(* place or settled.                                                       *)
(***************************************************************************)
EXTENDS TurnGuard, LineProofs

Fields == {"pc", "batch", "aborted", "gen", "direct", "snap"}

(* What the proof needs to know of the types: not what a batch holds.      *)
Typed ==
  /\ status \in {"idle", "dispatching", "running"} /\ generation \in Nat
  /\ DOMAIN run = Run /\ run = [s \in Run |-> run[s]]
  /\ \A s \in Run :
       /\ run[s] = [f \in Fields |-> run[s][f]]
       /\ run[s].pc \in Phase /\ run[s].gen \in Nat

(* Generations only grow, and each is given to one turn.                   *)
Generations ==
  /\ \A s \in Run : run[s].gen <= generation
  /\ \A s, t \in Run : InTurn(s) /\ InTurn(t) /\ run[s].gen = run[t].gen => s = t

(* No turn runs while a claim is made that still has its reservation, so   *)
(* runIncomingPrompt's call of onQuery is never refused.                   *)
Claims == \A s \in Run : run[s].pc = "claiming" /\ run[s].gen = generation => status # "running"

IInv == Typed /\ Generations /\ Claims /\ GuardFollowsTurn /\ ReservationHeld

-----------------------------------------------------------------------------
(* A step that changes run s only.                                         *)
Only(s) ==
  /\ DOMAIN run' = Run /\ run' = [t \in Run |-> run'[t]]
  /\ \A t \in Run \ {s} : run'[t] = run[t]
  /\ run'[s] = [f \in Fields |-> run'[s][f]]
  /\ run'[s].pc \in Phase /\ run'[s].gen \in Nat

Holder(s) == run[s].pc \in {"processing", "claiming", "finishing"}

(* What a run and the guard may do in a step, for the invariant to be kept:*)
(* the run is not in a turn before or after it, and the guard is running   *)
(* as it was; or the run enters, is in, or leaves its turn.                *)
Aside(s) ==
  /\ ~InTurn(s) /\ ~InTurn(s)' /\ run'[s].gen <= generation
  /\ generation' = generation /\ (status' = "running" <=> status = "running")

Enters(s) ==
  /\ status # "running" /\ status' = "running" /\ generation' = generation + 1
  /\ InTurn(s)' /\ run'[s].gen = generation'

Stays(s) ==
  /\ InTurn(s) /\ InTurn(s)' /\ run'[s].gen = run[s].gen
  /\ status' = status /\ generation' = generation

Leaves(s) ==
  /\ InTurn(s) /\ ~InTurn(s)' /\ run'[s].gen <= generation /\ generation' = generation
  /\ IF IsOwn(s) THEN status' = "idle" ELSE status' = "running" <=> status = "running"

LEMMA OneRunKeeps ==
  ASSUME IInv, NEW s \in Run, Only(s),
         status' \in {"idle", "dispatching", "running"},
         Aside(s) \/ Enters(s) \/ Stays(s) \/ Leaves(s),
         run'[s].pc = "claiming" => status # "running",
         status' = "dispatching" =>
           Holder(s)' \/ (status = "dispatching" /\ ~Holder(s))
  PROVE  IInv'
<1>1. /\ Typed /\ Generations /\ Claims /\ GuardFollowsTurn /\ ReservationHeld
  BY DEF IInv
<1>2. generation' \in Nat /\ generation' \in {generation, generation + 1}
  BY <1>1 DEF Typed, Aside, Enters, Stays, Leaves
<1>3. Typed'
  BY <1>1, <1>2 DEF Typed, Only
<1>4. Generations'
  BY <1>1, <1>2 DEF Typed, Generations, Only, InTurn, Aside, Enters, Stays, Leaves
<1>5. Claims'
  BY <1>1, <1>2 DEF Typed, Generations, Claims, Only, InTurn, Aside, Enters, Stays, Leaves
<1>6. GuardFollowsTurn'
  BY <1>1, <1>2 DEF Typed, Generations, GuardFollowsTurn, Only, InTurn, Aside, Enters, Stays, Leaves, IsOwn
<1>7. ReservationHeld'
  BY <1>1 DEF ReservationHeld, Only, Holder
<1> QED  BY <1>3, <1>4, <1>5, <1>6, <1>7 DEF IInv

-----------------------------------------------------------------------------
(* Prompts come in.                                                        *)

LEMMA BeginIsOnly ==
  ASSUME IInv, NEW s \in Run, NEW rec, Begin(s, rec),
         rec = [f \in Fields |-> rec[f]],
         rec.pc \in {"processing", "claiming", "initial"}, rec.gen \in {0, generation}
  PROVE  /\ Only(s) /\ run'[s] = rec /\ ~InTurn(s) /\ ~InTurn(s)' /\ ~Holder(s)
         /\ run'[s].gen <= generation
BY DEF IInv, Typed, Begin, Only, Phase, InTurn, Holder

LEMMA ExecuteKeeps ==
  ASSUME IInv, NEW s \in Run, NEW batch, ExecuteUserInput(s, batch),
         generation' = generation
  PROVE  IInv'
<1> DEFINE rec == [Free EXCEPT !.pc = "processing", !.batch = batch]
<1>1. /\ rec = [f \in Fields |-> rec[f]] /\ rec.pc = "processing" /\ rec.gen = 0
  BY DEF Free, Fields
<1>2. Begin(s, rec) /\ Reserve
  BY DEF ExecuteUserInput
<1> HIDE DEF rec
<1>3. Only(s) /\ run'[s] = rec /\ ~InTurn(s) /\ ~InTurn(s)' /\ run'[s].gen <= generation
  BY <1>1, <1>2, BeginIsOnly
<1>4. Holder(s)' /\ Aside(s) /\ status' \in {"idle", "dispatching", "running"}
  BY <1>1, <1>2, <1>3 DEF IInv, Typed, Holder, Aside, Reserve
<1> QED  BY <1>1, <1>3, <1>4, OneRunKeeps

LEMMA NoRunKeeps ==
  ASSUME IInv, run' = run, status' = status, generation' = generation
  PROVE  IInv'
<1>1. Typed'
  BY DEF IInv, Typed
<1>2. Generations'
  BY DEF IInv, Generations, InTurn
<1>3. Claims'
  BY DEF IInv, Claims
<1>4. GuardFollowsTurn' /\ ReservationHeld'
  BY DEF IInv, GuardFollowsTurn, ReservationHeld, InTurn
<1> QED  BY <1>1, <1>2, <1>3, <1>4 DEF IInv

LEMMA SubmitKeeps ==
  ASSUME IInv, NEW p \in Prompt, Submit(p)
  PROVE  IInv'
<1>1. generation' = generation
  BY DEF Submit
<1>2. CASE \E s \in Run : ExecuteUserInput(s, <<p>>)
  BY <1>1, <1>2, ExecuteKeeps
<1>3. CASE status' = status /\ run' = run
  BY <1>1, <1>3, NoRunKeeps
<1>4. CASE /\ status' = status
           /\ controller \in Run /\ run[controller].pc \in {"turn", "draining"}
           /\ run' = [run EXCEPT ![controller].aborted = TRUE]
  <2>1. PICK s \in Run : s = controller
    BY <1>4
  <2>2. /\ Only(s) /\ run'[s].pc = run[s].pc /\ run'[s].gen = run[s].gen
        /\ run[s].pc \in {"turn", "draining"}
    <3>1. PICK r : r = [run[s] EXCEPT !.aborted = TRUE]
      OBVIOUS
    <3>2. run[s] = [f \in Fields |-> run[s][f]] /\ run[s].pc \in Phase /\ run[s].gen \in Nat
      BY DEF IInv, Typed
    <3>3. r = [f \in Fields |-> r[f]] /\ r.pc = run[s].pc /\ r.gen = run[s].gen
      BY <3>1, <3>2 DEF Fields
    <3>4. run' = [run EXCEPT ![s] = r]
      BY <1>4, <2>1, <3>1 DEF IInv, Typed
    <3>5. run'[s] = r
      BY <3>4 DEF IInv, Typed
    <3>6. Only(s)
      BY <3>2, <3>3, <3>4, <3>5 DEF IInv, Typed, Only
    <3> QED  BY <1>4, <2>1, <3>3, <3>5, <3>6
  <2>3. Stays(s) /\ ~Holder(s) /\ run'[s].pc # "claiming"
    BY <1>1, <1>4, <2>2 DEF Stays, InTurn, Holder
  <2> QED  BY <1>4, <2>2, <2>3, OneRunKeeps DEF IInv, Typed
<1> QED  BY <1>2, <1>3, <1>4 DEF Submit

LEMMA IncomingKeeps ==
  ASSUME IInv, NEW p \in Prompt, IncomingPrompt(p)
  PROVE  IInv'
<1>1. PICK s \in Run :
         Begin(s, [Free EXCEPT !.pc = "claiming", !.batch = <<p>>, !.gen = generation])
  BY DEF IncomingPrompt
<1> DEFINE rec == [Free EXCEPT !.pc = "claiming", !.batch = <<p>>, !.gen = generation]
<1>2. /\ rec = [f \in Fields |-> rec[f]] /\ rec.pc = "claiming" /\ rec.gen = generation
      /\ rec.batch = <<p>>
  BY DEF Free, Fields
<1>3. Begin(s, rec) /\ Reserve /\ generation' = generation /\ status = "idle"
  BY <1>1 DEF IncomingPrompt
<1> HIDE DEF rec
<1>4. Only(s) /\ run'[s] = rec /\ ~InTurn(s) /\ ~InTurn(s)' /\ run'[s].gen <= generation
  BY <1>2, <1>3, BeginIsOnly
<1>5. Holder(s)' /\ Aside(s) /\ status' \in {"idle", "dispatching", "running"}
  BY <1>2, <1>3, <1>4 DEF IInv, Typed, Holder, Aside, Reserve
<1> QED  BY <1>3, <1>4, <1>5, OneRunKeeps

LEMMA InitialKeeps ==
  ASSUME IInv, NEW p \in Prompt, InitialMessage(p)
  PROVE  IInv'
<1>1. PICK s \in Run :
         Begin(s, [Free EXCEPT !.pc = "initial", !.batch = <<p>>, !.direct = TRUE])
  BY DEF InitialMessage
<1> DEFINE rec == [Free EXCEPT !.pc = "initial", !.batch = <<p>>, !.direct = TRUE]
<1>2. rec = [f \in Fields |-> rec[f]] /\ rec.pc = "initial" /\ rec.gen = 0
  BY DEF Free, Fields
<1>3. Begin(s, rec) /\ status' = status /\ generation' = generation
  BY <1>1 DEF InitialMessage
<1> HIDE DEF rec
<1>4. /\ Only(s) /\ run'[s] = rec /\ ~InTurn(s) /\ ~InTurn(s)' /\ run'[s].gen <= generation
      /\ ~Holder(s)
  BY <1>2, <1>3, BeginIsOnly
<1> QED  BY <1>2, <1>3, <1>4, OneRunKeeps DEF IInv, Typed, Aside

LEMMA RenderKeeps ==
  ASSUME IInv, Render
  PROVE  IInv'
<1>1. generation' = generation
  BY DEF Render
<1>2. CASE \E s \in Run : ExecuteUserInput(s, Batch)
  BY <1>1, <1>2, ExecuteKeeps
<1>3. CASE run' = run /\ status' = status
  BY <1>1, <1>3, NoRunKeeps
<1> QED  BY <1>2, <1>3 DEF Render

LEMMA EnterKeeps ==
  ASSUME IInv, NEW p \in Prompt, Enter(p)
  PROVE  IInv'
<1>1. CASE EnqueueLater(p)
  BY <1>1, NoRunKeeps DEF EnqueueLater
<1> QED  BY <1>1, SubmitKeeps, IncomingKeeps, InitialKeeps DEF Enter

-----------------------------------------------------------------------------
(* A run goes on.                                                          *)

LEMMA FreeIsOnly ==
  ASSUME IInv, NEW s \in Run, run' = [run EXCEPT ![s] = Free]
  PROVE  /\ Only(s) /\ run'[s].pc = "free" /\ run'[s].gen <= generation
         /\ ~InTurn(s)'
<1>1. /\ Free = [f \in Fields |-> Free[f]] /\ Free.pc = "free" /\ Free.gen = 0
  BY DEF Free, Fields
<1> QED  BY <1>1 DEF IInv, Typed, Only, Phase, InTurn

(* A run that leaves is free, or has to finalise its commands.             *)
LEMMA LeaveIsOnly ==
  ASSUME IInv, NEW s \in Run, Leave(s)
  PROVE  /\ Only(s) /\ run'[s].pc \in {"free", "finishing"} /\ run'[s].gen <= generation
         /\ ~InTurn(s)'
         /\ (run'[s].pc # "free" => Holder(s)')
<1> DEFINE done == Kinds(s) \cap Hidden = {}
           last == [Free EXCEPT !.pc = "finishing", !.aborted = run[s].aborted]
<1>1. run' = [run EXCEPT ![s] = IF done THEN Free ELSE last]
  BY DEF Leave
<1>2. last = [f \in Fields |-> last[f]] /\ last.pc = "finishing" /\ last.gen = 0
  BY DEF Free, Fields
<1> HIDE DEF done, last
<1>4. CASE done
  BY <1>1, <1>4, FreeIsOnly
<1>5. CASE ~done
  BY <1>1, <1>2, <1>5 DEF IInv, Typed, Only, Phase, InTurn, Holder
<1> QED  BY <1>4, <1>5

(* A run that is not in its turn stops, or goes on to its finally block.   *)
LEMMA StopKeeps ==
  ASSUME IInv, NEW s \in Run, Only(s), generation' = generation,
         ~InTurn(s), ~InTurn(s)', run'[s].gen <= generation,
         run'[s].pc \in {"free", "finishing"},
         CancelReservation \/ (status' = status /\ (Holder(s)' \/ ~Holder(s) \/ status = "running"))
  PROVE  IInv'
<1>1. /\ status' \in {"idle", "dispatching", "running"}
      /\ (status' = "running" <=> status = "running")
      /\ (status' = "dispatching" => Holder(s)' \/ (status = "dispatching" /\ ~Holder(s)))
  BY DEF IInv, Typed, CancelReservation
<1>2. Aside(s)
  BY <1>1 DEF Aside
<1> QED  BY <1>1, <1>2, OneRunKeeps

LEMMA StartedKeeps ==
  ASSUME IInv, NEW s \in Run, Started(s), ~InTurn(s)
  PROVE  IInv'
<1>1. /\ Only(s) /\ run'[s].pc = "turn" /\ run'[s].gen = generation + 1
  <2>1. PICK r : r = [run[s] EXCEPT !.pc = "turn", !.gen = generation + 1]
    OBVIOUS
  <2>2. run[s] = [f \in Fields |-> run[s][f]] /\ generation + 1 \in Nat
    BY DEF IInv, Typed
  <2>3. /\ r = [f \in Fields |-> r[f]] /\ r.pc = "turn" /\ r.gen = generation + 1
    BY <2>1, <2>2 DEF Fields
  <2>4. run' = [run EXCEPT ![s] = r]
    BY <2>1 DEF Started, IInv, Typed
  <2> QED  BY <2>2, <2>3, <2>4 DEF IInv, Typed, Only, Phase
<1>2. Enters(s)
  BY <1>1 DEF Started, Enters, InTurn
<1> QED  BY <1>1, <1>2, OneRunKeeps DEF Started

LEMMA OnQueryKeeps ==
  ASSUME IInv, NEW s \in Run, OnQuery(s), ~InTurn(s)
  PROVE  IInv'
BY LeaveIsOnly, StopKeeps, StartedKeeps DEF OnQuery, Refused

LEMMA ThrowsKeeps ==
  ASSUME IInv, NEW s \in Run, Throws(s)
  PROVE  IInv'
<1>1. ~InTurn(s) /\ Leave(s) /\ generation' = generation
  BY DEF Throws, InTurn
<1>2. CancelReservation \/ (status' = status /\ run'[s].pc # "free")
  BY DEF Throws
<1> QED  BY <1>1, <1>2, LeaveIsOnly, StopKeeps

LEMMA NoMessagesKeeps ==
  ASSUME IInv, NEW s \in Run, NoMessages(s)
  PROVE  IInv'
<1>1. ~InTurn(s) /\ generation' = generation /\ CancelReservation /\ run' = [run EXCEPT ![s] = Free]
  BY DEF NoMessages, InTurn
<1> QED  BY <1>1, FreeIsOnly, StopKeeps

LEMMA FinishKeeps ==
  ASSUME IInv, NEW s \in Run, Finish(s)
  PROVE  IInv'
<1>1. ~InTurn(s) /\ generation' = generation /\ CancelReservation /\ run' = [run EXCEPT ![s] = Free]
  BY DEF Finish, InTurn
<1> QED  BY <1>1, FreeIsOnly, StopKeeps

LEMMA ClaimedKeeps ==
  ASSUME IInv, NEW s \in Run, Claimed(s)
  PROVE  IInv'
<1>1. ~InTurn(s) /\ run[s].pc = "claiming"
  BY DEF Claimed, InTurn
<1>2. CASE run' = [run EXCEPT ![s] = Free] /\ CancelReservation /\ generation' = generation
  BY <1>1, <1>2, FreeIsOnly, StopKeeps
<1>3. CASE /\ Leave(s) /\ generation' = generation
           /\ IF run'[s].pc = "free" THEN CancelReservation ELSE status' = status
  BY <1>1, <1>3, LeaveIsOnly, StopKeeps
<1>4. CASE Started(s)
  BY <1>1, <1>4, StartedKeeps
<1> QED  BY <1>2, <1>3, <1>4 DEF Claimed

LEMMA RoundKeeps ==
  ASSUME IInv, NEW s \in Run, Snapshot(s) \/ Consume(s)
  PROVE  IInv'
<1>1. /\ Only(s) /\ run'[s].pc \in {"turn", "draining"} /\ run'[s].gen = run[s].gen
      /\ run[s].pc \in {"turn", "draining"}
      /\ status' = status /\ generation' = generation
  <2>1. CASE Snapshot(s)
    <3> DEFINE waiting == {p \in Elements(queue) : kind[p] # "auto" /\ ~Slash(p)}
    <3>1. /\ run' = [run EXCEPT ![s].pc = "draining", ![s].snap = waiting]
          /\ run[s].pc = "turn" /\ status' = status /\ generation' = generation
      BY <2>1 DEF Snapshot
    <3> HIDE DEF waiting
    <3>2. PICK r : r = [run[s] EXCEPT !.pc = "draining", !.snap = waiting]
      OBVIOUS
    <3>3. run[s] = [f \in Fields |-> run[s][f]] /\ run[s].gen \in Nat
      BY DEF IInv, Typed
    <3>4. /\ r = [f \in Fields |-> r[f]] /\ r.pc = "draining" /\ r.gen = run[s].gen
      BY <3>2, <3>3 DEF Fields
    <3>5. run' = [run EXCEPT ![s] = r]
      BY <3>1, <3>2 DEF IInv, Typed
    <3>6. run'[s] = r
      BY <3>5 DEF IInv, Typed
    <3>7. Only(s)
      BY <3>3, <3>4, <3>5, <3>6 DEF IInv, Typed, Only, Phase
    <3> QED  BY <3>1, <3>4, <3>6, <3>7
  <2>2. CASE Consume(s)
    <3>1. /\ run' = [run EXCEPT ![s].pc = "turn", ![s].snap = {}]
          /\ run[s].pc = "draining" /\ status' = status /\ generation' = generation
      BY <2>2 DEF Consume
    <3>2. PICK r : r = [run[s] EXCEPT !.pc = "turn", !.snap = {}]
      OBVIOUS
    <3>3. run[s] = [f \in Fields |-> run[s][f]] /\ run[s].gen \in Nat
      BY DEF IInv, Typed
    <3>4. /\ r = [f \in Fields |-> r[f]] /\ r.pc = "turn" /\ r.gen = run[s].gen
      BY <3>2, <3>3 DEF Fields
    <3>5. run' = [run EXCEPT ![s] = r]
      BY <3>1, <3>2 DEF IInv, Typed
    <3>6. run'[s] = r
      BY <3>5 DEF IInv, Typed
    <3>7. Only(s)
      BY <3>3, <3>4, <3>5, <3>6 DEF IInv, Typed, Only, Phase
    <3> QED  BY <3>1, <3>4, <3>6, <3>7
  <2> QED  BY <2>1, <2>2
<1>2. Stays(s) /\ ~Holder(s) /\ run'[s].pc # "claiming"
  BY <1>1 DEF Stays, InTurn, Holder
<1> QED  BY <1>1, <1>2, OneRunKeeps DEF IInv, Typed

LEMMA TurnEndsKeeps ==
  ASSUME IInv, NEW s \in Run, TurnEnds(s)
  PROVE  IInv'
<1>1. /\ run[s].pc = "turn" /\ Leave(s) /\ generation' = generation
      /\ IF IsOwn(s) THEN status' = "idle" ELSE CancelReservation \/ status' = status
  BY DEF TurnEnds
<1>2. /\ Only(s) /\ run'[s].pc \in {"free", "finishing"} /\ run'[s].gen <= generation
      /\ ~InTurn(s)'
  BY <1>1, LeaveIsOnly
<1>3. InTurn(s) /\ ~Holder(s)
  BY <1>1 DEF InTurn, Holder
<1>4. /\ status' \in {"idle", "dispatching", "running"}
      /\ (status' = "dispatching" => status = "dispatching")
  BY <1>1 DEF IInv, Typed, CancelReservation
<1>5. Leaves(s)
  BY <1>1, <1>2, <1>3 DEF Leaves, CancelReservation
<1> QED  BY <1>1, <1>2, <1>3, <1>4, <1>5, OneRunKeeps

LEMMA ContinueKeeps ==
  ASSUME IInv, NEW s \in Run, Continue(s)
  PROVE  IInv'
<1>1. CASE Query(s)
  BY <1>1, OnQueryKeeps DEF Query, InTurn
<1>2. CASE InitialQuery(s)
  BY <1>2, OnQueryKeeps DEF InitialQuery, InTurn
<1> QED
  BY <1>1, <1>2, NoMessagesKeeps, ThrowsKeeps, ClaimedKeeps, RoundKeeps, TurnEndsKeeps, FinishKeeps
     DEF Continue

-----------------------------------------------------------------------------
(* Escape: forceEnd gives the turn that runs a generation of the past.     *)
LEMMA CancelKeeps ==
  ASSUME IInv, Cancel
  PROVE  IInv'
<1>1. /\ status' = "idle"
      /\ generation' = IF status = "idle" THEN generation ELSE generation + 1
  BY DEF Cancel, ForceEnd
<1>2. /\ DOMAIN run' = Run /\ run' = [s \in Run |-> run'[s]]
      /\ \A s \in Run : /\ run'[s] = [f \in Fields |-> run'[s][f]]
                        /\ run'[s].pc = run[s].pc /\ run'[s].gen = run[s].gen
                        /\ run'[s].batch = run[s].batch
  <2>1. run' = [s \in Run |-> IF s = controller THEN [run[s] EXCEPT !.aborted = TRUE] ELSE run[s]]
    BY DEF Cancel
  <2>2. ASSUME NEW s \in Run
        PROVE  /\ run'[s] = [f \in Fields |-> run'[s][f]]
               /\ run'[s].pc = run[s].pc /\ run'[s].gen = run[s].gen
               /\ run'[s].batch = run[s].batch
    <3>1. run[s] = [f \in Fields |-> run[s][f]]
      BY DEF IInv, Typed
    <3>2. run'[s] = run[s] \/ run'[s] = [run[s] EXCEPT !.aborted = TRUE]
      BY <2>1
    <3>3. CASE run'[s] = run[s]
      BY <3>1, <3>3
    <3>4. CASE run'[s] = [run[s] EXCEPT !.aborted = TRUE]
      BY <3>1, <3>4 DEF Fields
    <3> QED  BY <3>2, <3>3, <3>4
  <2> QED  BY <2>1, <2>2
<1>3. Typed'
  BY <1>1, <1>2 DEF IInv, Typed
<1>4. Generations'
  BY <1>1, <1>2 DEF IInv, Typed, Generations, InTurn
<1>5. Claims'
  BY <1>1 DEF Claims
<1>6. GuardFollowsTurn'
  <2>1. ASSUME NEW s \in Run, InTurn(s)' /\ run'[s].gen = generation'
        PROVE  FALSE
    BY <1>1, <1>2, <2>1 DEF IInv, Typed, Generations, GuardFollowsTurn, InTurn
  <2> QED  BY <1>1, <2>1 DEF GuardFollowsTurn
<1>7. ReservationHeld'
  BY <1>1 DEF ReservationHeld
<1> QED  BY <1>3, <1>4, <1>5, <1>6, <1>7 DEF IInv

-----------------------------------------------------------------------------
LEMMA InitIInv == Init => IInv
<1> SUFFICES ASSUME Init  PROVE IInv
  OBVIOUS
<1>1. /\ Free = [f \in Fields |-> Free[f]] /\ Free.pc = "free" /\ Free.gen = 0
  BY DEF Free, Fields
<1>2. /\ status = "idle" /\ generation = 0 /\ run = [s \in Run |-> Free]
  BY DEF Init
<1>3. Typed
  BY <1>1, <1>2 DEF Typed, Phase
<1>4. Generations /\ Claims /\ GuardFollowsTurn /\ ReservationHeld
  BY <1>1, <1>2 DEF Generations, Claims, GuardFollowsTurn, ReservationHeld, InTurn
<1> QED  BY <1>3, <1>4 DEF IInv

LEMMA NextKeeps == IInv /\ [Next]_vars => IInv'
<1> SUFFICES ASSUME IInv, [Next]_vars  PROVE IInv'
  OBVIOUS
<1>1. CASE Render
  BY <1>1, RenderKeeps
<1>2. ASSUME NEW p \in Prompt, Enter(p), Notify  PROVE IInv'
  BY <1>2, EnterKeeps DEF Notify
<1>3. ASSUME NEW s \in Run, Continue(s), Notify  PROVE IInv'
  BY <1>3, ContinueKeeps DEF Notify
<1>4. CASE Cancel /\ Notify
  BY <1>4, CancelKeeps DEF Notify
<1>5. CASE PopAllEditable /\ Notify
  BY <1>5, NoRunKeeps DEF PopAllEditable, Notify
<1>6. CASE UNCHANGED vars
  BY <1>6, NoRunKeeps DEF vars
<1> QED  BY <1>1, <1>2, <1>3, <1>4, <1>5, <1>6 DEF Next

(* QueryGuard: the guard is running exactly while the turn that owns its   *)
(* generation is in its body, whatever finally blocks of cancelled turns   *)
(* run late.                                                               *)
THEOREM GuardAlwaysFollowsTurn == Spec => []GuardFollowsTurn
<1>1. IInv => GuardFollowsTurn
  BY DEF IInv
<1> QED  BY <1>1, InitIInv, NextKeeps, PTL DEF Spec

(* QueryGuard.reserve: a dispatching guard is always held by a run that    *)
(* will start a turn or release it.                                        *)
THEOREM ReservationAlwaysHeld == Spec => []ReservationHeld
<1>1. IInv => ReservationHeld
  BY DEF IInv
<1> QED  BY <1>1, InitIInv, NextKeeps, PTL DEF Spec

-----------------------------------------------------------------------------
(* The types.                                                              *)

(* What the REPL's controller belongs to, when it belongs to a run, got    *)
(* past its claim: a run that gives up its turn there never is the one.    *)
Onward == {"processing", "turn", "draining", "finishing"}

Driven ==
  /\ run \in [Run -> Local]
  /\ controller \in Run \cup {None, Old}
  /\ controller \in Run => run[controller].pc \in Onward

Stock ==
  /\ new \subseteq Prompt /\ queue \in Seq(Prompt) /\ cancels \in 0 .. MaxCancels
  /\ served \subseteq Prompt /\ failed \subseteq Prompt /\ restored \subseteq Prompt
  /\ stripped \subseteq Prompt

Known == Driven /\ Stock /\ kind \in Mixes /\ changed \in BOOLEAN /\ seen \in BOOLEAN

LEMMA Constants ==
  /\ MaxRuns \in Nat \ {0} /\ 1 \in Run /\ None \notin Run /\ Old \notin Run
  /\ \A k \in Mixes, p \in Prompt : k[p] \in Kind
BY TurnGuardAssumption DEF Run, None, Old

LEMMA FreeIs ==
  /\ Free \in Local /\ Free.pc = "free" /\ Free.batch = <<>>
BY DEF Free, Local, Phase

(* A run with another record.                                              *)
LEMMA RunDriven ==
  ASSUME Driven, NEW s \in Run, NEW r \in Local, run' = [run EXCEPT ![s] = r],
         controller' \in {controller, None, Old, s},
         controller' = s => r.pc \in Onward
  PROVE  Driven'
<1>1. run' \in [Run -> Local] /\ run'[s] = r /\ \A t \in Run \ {s} : run'[t] = run[t]
  BY DEF Driven
<1>2. controller' \in Run \cup {None, Old}
  BY DEF Driven
<1>3. ASSUME controller' \in Run  PROVE run'[controller'].pc \in Onward
  <2>1. CASE controller' = s
    BY <1>1, <2>1
  <2>2. CASE controller' # s
    <3>1. controller' = controller
      BY <1>3, <2>2, Constants
    <3> QED  BY <1>1, <1>3, <2>2, <3>1 DEF Driven
  <2> QED  BY <2>1, <2>2
<1> QED  BY <1>1, <1>2, <1>3 DEF Driven

(* The controller is not that of a run that is free, claims or awaits the  *)
(* effect of an initial message.                                           *)
LEMMA NotDriven ==
  ASSUME Driven, NEW s \in Run, run[s].pc \in {"free", "claiming", "initial"}
  PROVE  controller # s
BY DEF Driven, Onward

(* The records that runs get.                                              *)
LEMMA Records ==
  ASSUME NEW r \in Local, NEW b \in Seq(Prompt), NEW g \in Nat, NEW w \in SUBSET Prompt
  PROVE  /\ [Free EXCEPT !.pc = "processing", !.batch = b] \in Local
         /\ [Free EXCEPT !.pc = "claiming", !.batch = b, !.gen = g] \in Local
         /\ [Free EXCEPT !.pc = "initial", !.batch = b, !.direct = TRUE] \in Local
         /\ [r EXCEPT !.pc = "turn", !.gen = g] \in Local
         /\ [r EXCEPT !.pc = "draining", !.snap = w] \in Local
         /\ [r EXCEPT !.pc = "turn", !.snap = {}] \in Local
         /\ [r EXCEPT !.aborted = TRUE] \in Local
<1>1. [Free EXCEPT !.pc = "processing", !.batch = b] \in Local
  BY DEF Free, Local, Phase
<1>2. [Free EXCEPT !.pc = "claiming", !.batch = b, !.gen = g] \in Local
  BY DEF Free, Local, Phase
<1>3. [Free EXCEPT !.pc = "initial", !.batch = b, !.direct = TRUE] \in Local
  BY DEF Free, Local, Phase
<1>4. [r EXCEPT !.pc = "turn", !.gen = g] \in Local
  BY DEF Local, Phase
<1>5. [r EXCEPT !.pc = "draining", !.snap = w] \in Local
  BY DEF Local, Phase
<1>6. [r EXCEPT !.pc = "turn", !.snap = {}] \in Local
  BY DEF Local, Phase
<1>7. [r EXCEPT !.aborted = TRUE] \in Local
  BY DEF Local, Phase
<1> QED  BY <1>1, <1>2, <1>3, <1>4, <1>5, <1>6, <1>7

LEMMA Finishing ==
  ASSUME NEW a \in BOOLEAN
  PROVE  [Free EXCEPT !.pc = "finishing", !.aborted = a] \in Local
<1>1. PICK f \in Local : f = Free
  BY FreeIs
<1>2. [f EXCEPT !.pc = "finishing", !.aborted = a] \in Local
  BY DEF Local, Phase
<1> QED  BY <1>1, <1>2

LEMMA ExecuteTyped ==
  ASSUME Driven, NEW s \in Run, NEW b \in Seq(Prompt), ExecuteUserInput(s, b)
  PROVE  Driven'
<1>1. PICK r : r = [Free EXCEPT !.pc = "processing", !.batch = b]
  OBVIOUS
<1>2. r \in Local /\ r.pc = "processing"
  BY <1>1, Records, FreeIs DEF Free
<1>3. run' = [run EXCEPT ![s] = r] /\ controller' = s
  BY <1>1 DEF ExecuteUserInput, Begin
<1> QED  BY <1>2, <1>3, RunDriven DEF Onward

LEMMA SubmitTyped ==
  ASSUME Known, NEW p \in Prompt, Submit(p)
  PROVE  Driven' /\ Stock'
<1>1. <<p>> \in Seq(Prompt) /\ Append(queue, p) \in Seq(Prompt)
  BY OneAlone, AppendIs DEF Known, Stock
<1>2. Driven'
  <2>1. CASE \E s \in Run : ExecuteUserInput(s, <<p>>)
    BY <1>1, <2>1, ExecuteTyped DEF Known
  <2>2. CASE run' = run /\ controller' = controller
    BY <2>2 DEF Known, Driven
  <2>3. CASE /\ controller \in Run /\ run[controller].pc \in {"turn", "draining"}
             /\ run' = [run EXCEPT ![controller].aborted = TRUE] /\ controller' = controller
    <3>0. PICK s \in Run : s = controller
      BY <2>3
    <3>1. PICK r : s = controller /\ r = [run[s] EXCEPT !.aborted = TRUE]
      BY <3>0
    <3>2. run[s] \in Local
      BY DEF Known, Driven
    <3>3. r \in Local /\ r.pc \in Onward
      <4>1. r \in Local /\ r.pc = run[s].pc
        BY <3>1, <3>2 DEF Local
      <4> QED  BY <2>3, <3>1, <4>1 DEF Onward
    <3>4. run' = [run EXCEPT ![s] = r]
      BY <2>3, <3>1 DEF Known, Driven
    <3> QED  BY <2>3, <3>1, <3>3, <3>4, RunDriven DEF Known
  <2> QED  BY <2>1, <2>2, <2>3 DEF Submit
<1>3. Stock'
  BY <1>1 DEF Submit, Known, Stock
<1> QED  BY <1>2, <1>3

LEMMA EnterTyped ==
  ASSUME IInv, Known, NEW p \in Prompt, Enter(p)
  PROVE  Driven' /\ Stock'
<1>1. <<p>> \in Seq(Prompt) /\ Append(queue, p) \in Seq(Prompt) /\ generation \in Nat
  BY OneAlone, AppendIs DEF Known, Stock, IInv, Typed
<1>2. CASE EnqueueLater(p)
  BY <1>1, <1>2 DEF EnqueueLater, Known, Driven, Stock
<1>3. CASE IncomingPrompt(p)
  <2>0. PICK s \in Run : Begin(s, [Free EXCEPT !.pc = "claiming", !.batch = <<p>>, !.gen = generation])
    BY <1>3 DEF IncomingPrompt
  <2>1. PICK r : r = [Free EXCEPT !.pc = "claiming", !.batch = <<p>>, !.gen = generation] /\ Begin(s, r)
    BY <2>0
  <2>2. r \in Local
    BY <1>1, <2>1, Records, FreeIs
  <2>3. run' = [run EXCEPT ![s] = r] /\ controller' = controller /\ controller # s
    BY <1>3, <2>1, NotDriven DEF IncomingPrompt, Begin, Known
  <2>4. Driven'
    BY <2>2, <2>3, RunDriven DEF Known
  <2> QED  BY <1>3, <2>4 DEF IncomingPrompt, Known, Stock
<1>4. CASE InitialMessage(p)
  <2>0. PICK s \in Run : Begin(s, [Free EXCEPT !.pc = "initial", !.batch = <<p>>, !.direct = TRUE])
    BY <1>4 DEF InitialMessage
  <2>1. PICK r : r = [Free EXCEPT !.pc = "initial", !.batch = <<p>>, !.direct = TRUE] /\ Begin(s, r)
    BY <2>0
  <2>2. r \in Local
    BY <1>1, <2>1, Records, FreeIs
  <2>3. run' = [run EXCEPT ![s] = r] /\ controller' = controller /\ controller # s
    BY <1>4, <2>1, NotDriven DEF InitialMessage, Begin, Known
  <2>4. Driven'
    BY <2>2, <2>3, RunDriven DEF Known
  <2> QED  BY <1>4, <2>4 DEF InitialMessage, Known, Stock
<1> QED  BY <1>2, <1>3, <1>4, SubmitTyped DEF Enter

LEMMA FilterTyped == \A S : \A s \in Seq(Prompt) : Filter(s, S) \in Seq(Prompt)
BY FilterRemains

LEMMA QueueTyped ==
  ASSUME Known, NEW S
  PROVE  /\ Filter(queue, S) \in Seq(Prompt) /\ Elements(queue) \subseteq Prompt
         /\ \A s \in Run : run[s].batch \in Seq(Prompt) /\ Elements(run[s].batch) \subseteq Prompt
<1>1. queue \in Seq(Prompt) /\ \A s \in Run : run[s].batch \in Seq(Prompt)
  BY DEF Known, Driven, Stock, Local
<1>2. \A q \in Seq(Prompt) : Elements(q) \subseteq Prompt
  BY NoneBefore
<1> QED  BY <1>1, <1>2, FilterTyped

(* What the queue processor takes off a queue that is not empty.           *)
LEMMA BatchIs ==
  ASSUME Known, queue # <<>>
  PROVE  /\ Batch \in Seq(Prompt) /\ Elements(Batch) \subseteq Elements(queue)
         /\ (Distinct(queue) => Distinct(Batch))
<1> DEFINE users == Filter(queue, {p \in Prompt : kind[p] # "auto"})
           next  == IF users # <<>> THEN Head(users) ELSE Head(queue)
           rest  == Filter(queue, {p \in Prompt : ~Slash(p)})
<1>1. \A q \in Seq(Prompt) : q # <<>> => Head(q) \in Elements(q)
  <2>1. ASSUME NEW q \in Seq(Prompt), q # <<>>  PROVE Head(q) \in Elements(q)
    <3>1. Head(q) = q[1] /\ 1 \in 1 .. Len(q)
      BY <2>1
    <3> QED  BY <3>1 DEF Elements
  <2> QED  BY <2>1
<1>2. queue \in Seq(Prompt)
  BY DEF Known, Stock
<1>3. users \in Seq(Prompt) /\ Elements(users) \subseteq Elements(queue)
  <2>1. /\ Filter(queue, {p \in Prompt : kind[p] # "auto"}) \in Seq(Prompt)
        /\ Elements(Filter(queue, {p \in Prompt : kind[p] # "auto"}))
             = Elements(queue) \cap {p \in Prompt : kind[p] # "auto"}
    BY <1>2, FilterRemains
  <2> QED  BY <2>1
<1>4. /\ rest \in Seq(Prompt)
      /\ Elements(rest) = Elements(queue) \cap {p \in Prompt : ~Slash(p)}
      /\ (Distinct(queue) => Distinct(rest))
  BY <1>2, FilterRemains, FilterDistinct
<1>5. Batch = IF Slash(next) THEN <<next>> ELSE rest
  BY DEF Batch
<1> HIDE DEF users, rest
<1>6. next \in Elements(queue)
  BY <1>1, <1>2, <1>3
<1>7. next \in Prompt
  BY <1>6, QueueTyped
<1> HIDE DEF next
<1>8. CASE Slash(next)
  <2>1. <<next>> \in Seq(Prompt) /\ Elements(<<next>>) = {next} /\ Distinct(<<next>>)
    BY <1>7, OneAlone
  <2>2. Batch = <<next>>
    BY <1>5, <1>8
  <2> QED  BY <1>6, <1>8, <2>1, <2>2
<1>9. CASE ~Slash(next)
  <2>1. Batch = rest
    BY <1>5, <1>9
  <2> QED  BY <1>4, <2>1
<1> QED  BY <1>8, <1>9

LEMMA RenderTyped ==
  ASSUME Known, Render
  PROVE  Known'
<1>1. /\ kind' = kind /\ new' = new /\ cancels' = cancels
      /\ served' = served /\ failed' = failed /\ restored' = restored
      /\ stripped' = stripped /\ changed' \in BOOLEAN /\ seen' \in BOOLEAN
  BY DEF Render
<1>2. Driven' /\ queue' \in Seq(Prompt)
  <2>1. CASE /\ queue # <<>> /\ \E s \in Run : ExecuteUserInput(s, Batch)
             /\ queue' = Without(queue, Elements(Batch))
    <3>1. Batch \in Seq(Prompt)
      BY <2>1, BatchIs
    <3>2. Driven'
      BY <2>1, <3>1, ExecuteTyped DEF Known
    <3>3. queue' \in Seq(Prompt)
      BY <2>1, QueueTyped DEF Without
    <3> QED  BY <3>2, <3>3
  <2>2. CASE queue' = queue /\ run' = run /\ controller' = controller
    BY <2>2 DEF Known, Driven, Stock
  <2> QED  BY <2>1, <2>2 DEF Render
<1> QED  BY <1>1, <1>2 DEF Known, Stock

LEMMA FreeTyped ==
  ASSUME Driven, NEW s \in Run, run' = [run EXCEPT ![s] = Free],
         controller' \in {controller, None, Old}, controller' # s
  PROVE  Driven'
BY FreeIs, RunDriven

LEMMA LeaveTyped ==
  ASSUME IInv, Driven, NEW s \in Run, Leave(s), controller' \in {controller, None, Old, s},
         controller' = s => run'[s].pc # "free"
  PROVE  Driven'
<1> DEFINE last == [Free EXCEPT !.pc = "finishing", !.aborted = run[s].aborted]
<1>1. run' = [run EXCEPT ![s] = Free] \/ run' = [run EXCEPT ![s] = last]
  BY DEF Leave
<1>2. last \in Local /\ last.pc = "finishing"
  <2>1. run[s] \in Local /\ run[s].aborted \in BOOLEAN
    BY DEF Driven, Local
  <2>2. last \in Local
    BY <2>1, Finishing
  <2>3. last.pc = "finishing"
    BY DEF Free
  <2> QED  BY <2>2, <2>3
<1> HIDE DEF last
<1>3. CASE run' = [run EXCEPT ![s] = Free]
  <2>1. run'[s] = Free
    BY <1>3 DEF Driven
  <2> QED  BY <1>3, <2>1, FreeIs, RunDriven
<1>4. CASE run' = [run EXCEPT ![s] = last]
  BY <1>2, <1>4, RunDriven DEF Onward
<1> QED  BY <1>1, <1>3, <1>4

LEMMA ForgetTyped ==
  ASSUME NEW s \in Run, Forget(s)
  PROVE  controller' \in {controller, Old} /\ (controller' = s => run'[s].pc # "free")
BY Constants DEF Forget

LEMMA StartedTyped ==
  ASSUME IInv, Known, NEW s \in Run, Started(s), controller' \in {controller, None, Old, s}
  PROVE  /\ Driven' /\ queue' \in Seq(Prompt) /\ served' \subseteq Prompt /\ stripped' \subseteq Prompt
         /\ run'[s].pc = "turn"
<1>1. PICK r : r = [run[s] EXCEPT !.pc = "turn", !.gen = generation + 1]
  OBVIOUS
<1>2. run[s] \in Local /\ generation + 1 \in Nat
  BY DEF Known, Driven, IInv, Typed
<1>3. r \in Local /\ r.pc = "turn"
  BY <1>1, <1>2, Records DEF Local
<1>4. run' = [run EXCEPT ![s] = r] /\ run'[s] = r
  BY <1>1 DEF Started, Known, Driven
<1>5. Driven'
  BY <1>3, <1>4, RunDriven DEF Known, Onward
<1> QED  BY <1>3, <1>4, <1>5, QueueTyped DEF Started, Known, Stock

LEMMA AgainTyped ==
  ASSUME Known, NEW s \in Run, NEW S
  PROVE  queue \o Filter(run[s].batch, S) \in Seq(Prompt)
<1>1. queue \in Seq(Prompt) /\ run[s].batch \in Seq(Prompt)
  BY QueueTyped DEF Known, Stock
<1>2. Filter(run[s].batch, S) \in Seq(Prompt)
  BY <1>1, FilterTyped
<1> QED  BY <1>1, <1>2, ConcatIs

LEMMA OnQueryTyped ==
  ASSUME IInv, Known, NEW s \in Run, OnQuery(s), controller' \in {controller, None, Old, s},
         controller' = s => run'[s].pc # "free"
  PROVE  Driven' /\ queue' \in Seq(Prompt) /\ served' \subseteq Prompt /\ stripped' \subseteq Prompt
<1>1. CASE Refused(s)
  <2>1. Driven'
    BY <1>1, LeaveTyped DEF Refused, Known
  <2>2. PICK S : queue' = queue \o Filter(run[s].batch, S)
    BY <1>1 DEF Refused
  <2>3. queue' \in Seq(Prompt)
    BY <2>2, AgainTyped
  <2>4. stripped' \subseteq Prompt /\ served' = served
    BY <1>1, QueueTyped DEF Refused, Known, Stock
  <2> QED  BY <2>1, <2>3, <2>4 DEF Known, Stock
<1>2. CASE Started(s)
  BY <1>2, StartedTyped
<1> QED  BY <1>1, <1>2 DEF OnQuery

LEMMA TurnTyped ==
  ASSUME Known, NEW s \in Run, Snapshot(s) \/ Consume(s)
  PROVE  Driven' /\ queue' \in Seq(Prompt) /\ served' \subseteq Prompt
<1>1. run[s] \in Local /\ run[s].snap \subseteq Prompt
  BY DEF Known, Driven, Local
<1>2. CASE Snapshot(s)
  <2> DEFINE waiting == {p \in Elements(queue) : kind[p] # "auto" /\ ~Slash(p)}
  <2>1. /\ run' = [run EXCEPT ![s].pc = "draining", ![s].snap = waiting]
        /\ queue' = queue /\ served' = served /\ controller' = controller
    BY <1>2 DEF Snapshot
  <2>2. waiting \in SUBSET Prompt
    BY QueueTyped
  <2> HIDE DEF waiting
  <2>3. PICK r : r = [run[s] EXCEPT !.pc = "draining", !.snap = waiting]
    OBVIOUS
  <2>4. r \in Local /\ r.pc = "draining"
    BY <1>1, <2>2, <2>3, Records DEF Local
  <2>5. run' = [run EXCEPT ![s] = r]
    BY <2>1, <2>3 DEF Known, Driven
  <2>6. Driven'
    BY <2>1, <2>4, <2>5, RunDriven DEF Known, Onward
  <2> QED  BY <2>1, <2>6 DEF Known, Stock
<1>3. CASE Consume(s)
  <2>1. /\ run' = [run EXCEPT ![s].pc = "turn", ![s].snap = {}]
        /\ controller' = controller
    BY <1>3 DEF Consume
  <2>2. PICK r : r = [run[s] EXCEPT !.pc = "turn", !.snap = {}]
    OBVIOUS
  <2>3. r \in Local /\ r.pc = "turn"
    BY <1>1, <2>2, Records DEF Local
  <2>4. run' = [run EXCEPT ![s] = r]
    BY <2>1, <2>2 DEF Known, Driven
  <2>5. Driven'
    BY <2>1, <2>3, <2>4, RunDriven DEF Known, Onward
  <2>6. queue' = queue \/ queue' = Without(queue, run[s].snap)
    BY <1>3 DEF Consume
  <2>7. queue' \in Seq(Prompt)
    BY <2>6, QueueTyped DEF Without, Known, Stock
  <2>8. served' \subseteq Prompt
    BY <1>1, <1>3 DEF Consume, Known, Stock
  <2> QED  BY <2>5, <2>7, <2>8
<1> QED  BY <1>2, <1>3

LEMMA ContinueTyped ==
  ASSUME IInv, Known, NEW s \in Run, Continue(s)
  PROVE  Driven' /\ Stock'
<1> USE DEF Known, Stock
<1>1. Elements(run[s].batch) \subseteq Prompt
  BY QueueTyped
<1>2. CASE NoMessages(s)
  <2>1. Driven'
    BY <1>2, FreeTyped, Constants DEF NoMessages
  <2> QED  BY <1>1, <1>2, <2>1 DEF NoMessages
<1>3. CASE Throws(s)
  <2>1. Driven'
    BY <1>3, ForgetTyped, LeaveTyped DEF Throws
  <2> QED  BY <1>1, <1>3, <2>1 DEF Throws
<1>4. CASE Query(s)
  <2>1. Driven' /\ queue' \in Seq(Prompt) /\ served' \subseteq Prompt /\ stripped' \subseteq Prompt
    BY <1>4, ForgetTyped, OnQueryTyped DEF Query
  <2> QED  BY <1>4, <2>1 DEF Query
<1>5. CASE Claimed(s)
  <2>1. run[s].pc = "claiming" /\ controller # s
    BY <1>5, NotDriven DEF Claimed
  <2>2. Driven' /\ queue' \in Seq(Prompt) /\ served' \subseteq Prompt /\ stripped' \subseteq Prompt
    <3>1. CASE run' = [run EXCEPT ![s] = Free] /\ UNCHANGED <<queue, controller, served, stripped>>
      BY <2>1, <3>1, FreeTyped
    <3>2. CASE /\ Leave(s) /\ UNCHANGED <<controller, served, stripped>>
               /\ queue' = queue \o Filter(run[s].batch, {p \in Prompt : kind[p] = "message"})
      BY <2>1, <3>2, LeaveTyped, AgainTyped
    <3>3. CASE controller' = s /\ Started(s)
      BY <3>3, StartedTyped
    <3> QED  BY <1>5, <3>1, <3>2, <3>3 DEF Claimed
  <2> QED  BY <1>5, <2>2 DEF Claimed
<1>6. CASE InitialQuery(s)
  <2>1. Driven' /\ queue' \in Seq(Prompt) /\ served' \subseteq Prompt /\ stripped' \subseteq Prompt
    BY <1>6, OnQueryTyped, Constants DEF InitialQuery
  <2> QED  BY <1>6, <2>1 DEF InitialQuery
<1>7. CASE Snapshot(s) \/ Consume(s)
  <2>1. Driven' /\ queue' \in Seq(Prompt) /\ served' \subseteq Prompt
    BY <1>7, TurnTyped
  <2> QED  BY <1>7, <2>1 DEF Snapshot, Consume
<1>8. CASE TurnEnds(s)
  <2>1. controller' = None \/ Forget(s)
    BY <1>8 DEF TurnEnds
  <2>2. Driven'
    BY <1>8, <2>1, ForgetTyped, LeaveTyped, Constants DEF TurnEnds
  <2> QED  BY <1>8, <2>2 DEF TurnEnds
<1>9. CASE Finish(s)
  <2>1. run'[s].pc = "free"
    BY <1>9, FreeIs DEF Finish, Driven
  <2>2. Driven'
    BY <1>9, <2>1, ForgetTyped, FreeTyped DEF Finish
  <2> QED  BY <1>9, <2>2 DEF Finish
<1> QED  BY <1>2, <1>3, <1>4, <1>5, <1>6, <1>7, <1>8, <1>9 DEF Continue

LEMMA CancelTyped ==
  ASSUME Known, Cancel
  PROVE  Driven' /\ Stock'
<1>1. run' = [s \in Run |-> IF s = controller THEN [run[s] EXCEPT !.aborted = TRUE] ELSE run[s]]
  BY DEF Cancel
<1>2. ASSUME NEW s \in Run
      PROVE  run[s] \in Local /\ [run[s] EXCEPT !.aborted = TRUE] \in Local
  <2>1. run[s] \in Local
    BY DEF Known, Driven
  <2> QED  BY <2>1 DEF Local
<1>3. run' \in [Run -> Local]
  BY <1>1, <1>2
<1>4. cancels' \in 0 .. MaxCancels
  BY TurnGuardAssumption DEF Cancel, Known, Stock
<1> QED  BY <1>3, <1>4, Constants DEF Cancel, Known, Driven, Stock

LEMMA NextTyped ==
  ASSUME IInv, Known, [Next]_vars
  PROVE  Known'
<1>1. CASE Render
  BY <1>1, RenderTyped
<1>2. ASSUME Driven', Stock', Notify  PROVE Known'
  BY <1>2 DEF Known, Notify
<1>3. ASSUME NEW p \in Prompt, Enter(p), Notify  PROVE Known'
  BY <1>2, <1>3, EnterTyped
<1>4. ASSUME NEW s \in Run, Continue(s), Notify  PROVE Known'
  BY <1>2, <1>4, ContinueTyped
<1>5. CASE Cancel /\ Notify
  BY <1>2, <1>5, CancelTyped
<1>6. CASE PopAllEditable /\ Notify
  <2>1. queue' \in Seq(Prompt) /\ restored' \subseteq Prompt
    BY <1>6, QueueTyped DEF PopAllEditable, Without, Known, Stock
  <2>2. Driven'
    BY <1>6 DEF PopAllEditable, Known, Driven
  <2>3. Stock'
    BY <1>6, <2>1 DEF PopAllEditable, Known, Stock
  <2> QED  BY <1>2, <1>6, <2>2, <2>3
<1>7. CASE UNCHANGED vars
  BY <1>7 DEF vars, Known, Driven, Stock
<1> QED  BY <1>1, <1>3, <1>4, <1>5, <1>6, <1>7 DEF Next

LEMMA InitTyped == Init => Known
<1> SUFFICES ASSUME Init  PROVE Known
  OBVIOUS
<1>1. Driven
  BY FreeIs, Constants DEF Init, Driven
<1>2. Stock
  BY TurnGuardAssumption DEF Init, Stock
<1> QED  BY <1>1, <1>2 DEF Init, Known

(* The guard, the queue, the runs and what the REPL's controller belongs to*)
(* stay what the program can make of them: a controller is that of a run   *)
(* that lives, of one that is over, or none.                               *)
THEOREM Typing == Spec => []TypeOK
<1>1. IInv /\ Known => TypeOK
  BY DEF IInv, Typed, Known, Driven, Stock, TypeOK, Onward
<1>2. Init => IInv /\ Known
  BY InitIInv, InitTyped
<1>3. IInv /\ Known /\ [Next]_vars => (IInv /\ Known)'
  BY NextKeeps, NextTyped
<1> QED  BY <1>1, <1>2, <1>3, PTL DEF Spec

-----------------------------------------------------------------------------
(* Where the prompts are.                                                  *)

(* A prompt is still to be entered, or queued, or held by one run: in one  *)
(* place.                                                                  *)
Separate ==
  /\ \A s, t \in Run : s # t => Held(s) \cap Held(t) = {}
  /\ \A s \in Run : Held(s) \cap (Elements(queue) \cup new) = {}
  /\ Elements(queue) \cap new = {}

(* What a run was called with: each prompt once; to claim, one that comes  *)
(* through runIncomingPrompt.                                              *)
Suits(r) ==
  /\ Distinct(r.batch)
  /\ r.pc = "claiming" => \A p \in Elements(r.batch) : kind[p] \in {"tick", "message"}

Placed == Distinct(queue) /\ Separate /\ (\A s \in Run : Suits(run[s])) /\ NothingLost

Settled == served \cup failed \cup restored \cup stripped

(* What a step may do with the prompts of the queue, of one run and of     *)
(* those that are entered in it: none appears that was not there, none is  *)
(* in two places, and those of the user are still there or settled.        *)
Mine(s) == Held(s) \cup Elements(queue) \cup (new \ new')

Moves(s) ==
  /\ kind' = kind /\ new' \subseteq new /\ Distinct(queue)' /\ Settled \subseteq Settled'
  /\ \A t \in Run \ {s} : Held(t)' = Held(t)
  /\ \A t \in Run : Suits(run[t])'
  /\ Held(s)' \cup Elements(queue)' \subseteq Mine(s)
  /\ Held(s)' \cap Elements(queue)' = {}
  /\ \A p \in Mine(s) :
       p \in Prompt /\ kind[p] \notin Hidden =>
         p \in Held(s)' \cup Elements(queue)' \cup Settled'

LEMMA MovesKeep ==
  ASSUME Placed, NEW s \in Run, Moves(s)
  PROVE  Placed'
<1> DEFINE A == Held(s)  Q == Elements(queue)  N == new
<1>1. /\ N' \subseteq N /\ A' \cup Q' \subseteq A \cup Q \cup (N \ N') /\ A' \cap Q' = {}
      /\ \A t \in Run \ {s} : Held(t)' = Held(t)
  BY DEF Moves, Mine
<1>2. /\ \A t, u \in Run : t # u => Held(t) \cap Held(u) = {}
      /\ \A t \in Run : Held(t) \cap (Q \cup N) = {}
      /\ Q \cap N = {}
  BY DEF Placed, Separate
<1>3. Separate'
  <2> HIDE DEF A, Q, N
  <2>1. ASSUME NEW t \in Run, NEW u \in Run, t # u  PROVE Held(t)' \cap Held(u)' = {}
    <3>1. ASSUME NEW v \in Run, v # s  PROVE A' \cap Held(v)' = {}
      <4>1. Held(v)' = Held(v) /\ A \cap Held(v) = {} /\ Held(v) \cap (Q \cup N) = {}
        BY <1>1, <1>2, <3>1 DEF A
      <4> QED  BY <1>1, <4>1
    <3>2. CASE t = s
      BY <2>1, <3>1, <3>2 DEF A
    <3>3. CASE u = s
      BY <2>1, <3>1, <3>3 DEF A
    <3>4. CASE t # s /\ u # s
      BY <1>1, <1>2, <2>1, <3>4
    <3> QED  BY <3>2, <3>3, <3>4
  <2>2. ASSUME NEW t \in Run  PROVE Held(t)' \cap (Q' \cup N') = {}
    <3>1. CASE t = s
      <4>1. A \cap (Q \cup N) = {}
        BY <1>2 DEF A
      <4>2. A' \cap (Q' \cup N') = {}
        BY <1>1, <1>2, <4>1
      <4> QED  BY <3>1, <4>2 DEF A
    <3>2. CASE t # s
      <4>1. Held(t)' = Held(t) /\ A \cap Held(t) = {} /\ Held(t) \cap (Q \cup N) = {}
        BY <1>1, <1>2, <3>2 DEF A
      <4> QED  BY <1>1, <4>1
    <3> QED  BY <3>1, <3>2
  <2>3. Q' \cap N' = {}
    <3>1. A \cap (Q \cup N) = {}
      BY <1>2 DEF A
    <3> QED  BY <1>1, <1>2, <3>1
  <2> QED  BY <2>1, <2>2, <2>3 DEF Separate, Q, N
<1>4. NothingLost'
  <2>1. ASSUME NEW p \in Prompt, OfUser(p)', p \notin Elements(queue)' \cup Settled',
               NEW t \in Run, p \in Held(t)
        PROVE  p \in Held(t)'
    BY <2>1 DEF Moves, Mine, OfUser
  <2>2. ASSUME NEW p \in Prompt, OfUser(p)', p \notin Elements(queue)' \cup Settled'
        PROVE  \E t \in Run : p \in Held(t)'
    <3>1. CASE p \in new \/ p \in Elements(queue)
      <4>1. p \in Mine(s)
        BY <2>2, <3>1 DEF OfUser, Mine
      <4> QED  BY <2>2, <4>1 DEF Moves, OfUser
    <3>2. CASE p \notin new /\ p \notin Elements(queue)
      <4>1. p \notin Settled
        BY <2>2 DEF Moves
      <4>2. OfUser(p)
        BY <2>2, <3>2 DEF Moves, OfUser
      <4>3. \E t \in Run : p \in Held(t)
        BY <3>2, <4>1, <4>2 DEF Placed, NothingLost, Settled
      <4> QED  BY <2>1, <2>2, <4>3
    <3> QED  BY <3>1, <3>2
  <2> QED  BY <2>2 DEF NothingLost, Settled
<1>5. Distinct(queue)' /\ \A t \in Run : Suits(run[t])'
  BY DEF Moves
<1> QED  BY <1>3, <1>4, <1>5 DEF Placed

(* A run that has the phase and the batch that it had holds what it held.  *)
LEMMA LikeBefore ==
  ASSUME NEW t \in Run, run'[t].pc = run[t].pc, run'[t].batch = run[t].batch, kind' = kind
  PROVE  Held(t)' = Held(t) /\ (Suits(run[t]) => Suits(run[t])')
BY DEF Held, Suits, Elements, Distinct

LEMMA OthersLike ==
  ASSUME Driven, Placed, kind' = kind, NEW s \in Run, NEW r, run' = [run EXCEPT ![s] = r],
         Suits(r)
  PROVE  /\ run'[s] = r /\ \A t \in Run \ {s} : Held(t)' = Held(t)
         /\ \A t \in Run : Suits(run[t])'
<1>1. run'[s] = r /\ \A t \in Run \ {s} : run'[t] = run[t]
  BY DEF Driven
<1>2. \A t \in Run \ {s} : Held(t)' = Held(t) /\ Suits(run[t])'
  BY <1>1, LikeBefore DEF Placed
<1>3. Suits(run[s])'
  BY <1>1 DEF Suits, Elements, Distinct
<1> QED  BY <1>1, <1>2, <1>3

(* executeUserInput is called with b.                                      *)
LEMMA ExecuteHolds ==
  ASSUME Known, Placed, kind' = kind, NEW s \in Run, NEW b \in Seq(Prompt),
         ExecuteUserInput(s, b), Distinct(b)
  PROVE  /\ Held(s) = {} /\ Held(s)' = Elements(b)
         /\ \A t \in Run \ {s} : Held(t)' = Held(t)
         /\ \A t \in Run : Suits(run[t])'
<1>1. PICK r : r = [Free EXCEPT !.pc = "processing", !.batch = b]
  OBVIOUS
<1>2. r.pc = "processing" /\ r.batch = b
  BY <1>1 DEF Free
<1>3. run' = [run EXCEPT ![s] = r] /\ run[s].pc = "free"
  BY <1>1 DEF ExecuteUserInput, Begin
<1>4. Suits(r)
  BY <1>2 DEF Suits
<1>5. /\ run'[s] = r /\ \A t \in Run \ {s} : Held(t)' = Held(t)
      /\ \A t \in Run : Suits(run[t])'
  BY <1>3, <1>4, OthersLike DEF Known
<1>6. Held(s)' = Elements(b)
  BY <1>2, <1>5 DEF Held, Elements
<1>7. Held(s) = {}
  BY <1>3 DEF Held
<1> QED  BY <1>5, <1>6, <1>7

(* The runs hold what they held.                                           *)
LEMMA AllHold ==
  ASSUME Placed, kind' = kind,
         \A t \in Run : run'[t].pc = run[t].pc /\ run'[t].batch = run[t].batch
  PROVE  \A t \in Run : Held(t)' = Held(t) /\ Suits(run[t])'
BY LikeBefore DEF Placed

(* A prompt joins the queue.                                               *)
LEMMA EnqueueMoves ==
  ASSUME Known, Placed, kind' = kind, NEW p \in new, p \in Prompt, new' = new \ {p},
         queue' = Append(queue, p), Settled' = Settled,
         \A t \in Run : Held(t)' = Held(t) /\ Suits(run[t])'
  PROVE  Placed'
<1>1. queue \in Seq(Prompt) /\ p \notin Elements(queue)
  BY DEF Known, Stock, Placed, Separate
<1>2. /\ Elements(Append(queue, p)) = Elements(queue) \cup {p}
      /\ Distinct(Append(queue, p))
  BY <1>1, AppendIs DEF Placed
<1>3. Elements(queue)' = Elements(queue) \cup {p} /\ Distinct(queue)'
  BY <1>2 DEF Elements, Distinct
<1>4. Held(1)' = Held(1) /\ Held(1) \cap (Elements(queue) \cup new) = {} /\ 1 \in Run
  BY Constants DEF Placed, Separate
<1>5. Moves(1)
  BY <1>3, <1>4 DEF Moves, Mine
<1> QED  BY <1>4, <1>5, MovesKeep

LEMMA SubmitPlaces ==
  ASSUME Known, Placed, kind' = kind, NEW p \in Prompt, Submit(p)
  PROVE  Placed'
<1>1. p \in new /\ new' = new \ {p} /\ Settled' = Settled
  BY DEF Submit, Settled
<1>2. ASSUME NEW s \in Run, ExecuteUserInput(s, <<p>>), queue' = queue
      PROVE  Placed'
  <2>1. <<p>> \in Seq(Prompt) /\ Elements(<<p>>) = {p} /\ Distinct(<<p>>)
    BY OneAlone
  <2>3. /\ Held(s) = {} /\ Held(s)' = {p}
        /\ \A t \in Run \ {s} : Held(t)' = Held(t)
        /\ \A t \in Run : Suits(run[t])'
    BY <1>2, <2>1, ExecuteHolds
  <2>4. Elements(queue)' = Elements(queue) /\ Distinct(queue)' /\ p \notin Elements(queue)
    BY <1>1, <1>2 DEF Placed, Separate, Elements, Distinct
  <2>5. Moves(s)
    BY <1>1, <2>3, <2>4 DEF Moves, Mine
  <2> QED  BY <2>5, MovesKeep
<1>3. CASE /\ queue' = Append(queue, p)
           /\ \A t \in Run : run'[t].pc = run[t].pc /\ run'[t].batch = run[t].batch
  BY <1>1, <1>3, AllHold, EnqueueMoves
<1>4. CASE run' = run /\ queue' = Append(queue, p)
  BY <1>3, <1>4
<1>5. CASE /\ run' = [run EXCEPT ![controller].aborted = TRUE] /\ queue' = Append(queue, p)
  <2>1. ASSUME NEW t \in Run
        PROVE  run'[t].pc = run[t].pc /\ run'[t].batch = run[t].batch
    <3>1. run[t] \in Local /\ run \in [Run -> Local]
      BY DEF Known, Driven
    <3>2. run'[t] = run[t] \/ run'[t] = [run[t] EXCEPT !.aborted = TRUE]
      BY <1>5, <3>1
    <3> QED  BY <3>1, <3>2 DEF Local
  <2> QED  BY <1>3, <1>5, <2>1
<1> QED  BY <1>2, <1>4, <1>5 DEF Submit

(* The batch that a run is called with, when it does not come through the  *)
(* queue.                                                                  *)
LEMMA EnterPlaces ==
  ASSUME Known, Placed, kind' = kind, NEW p \in Prompt, Enter(p)
  PROVE  Placed'
<1>1. <<p>> \in Seq(Prompt) /\ Elements(<<p>>) = {p} /\ Distinct(<<p>>)
  BY OneAlone
<1>2. CASE EnqueueLater(p)
  <2>1. \A t \in Run : Held(t)' = Held(t) /\ Suits(run[t])'
    BY <1>2, AllHold DEF EnqueueLater
  <2> QED  BY <1>2, <2>1, EnqueueMoves DEF EnqueueLater, Settled
<1>3. ASSUME NEW s \in Run, NEW r, Begin(s, r), Suits(r), Elements(r.batch) = {p},
             r.pc \in {"claiming", "initial"},
             p \in new, new' = new \ {p}, queue' = queue, Settled' = Settled
      PROVE  Placed'
  <2>1. run' = [run EXCEPT ![s] = r] /\ run[s].pc = "free"
    BY <1>3 DEF Begin
  <2>2. /\ run'[s] = r /\ \A t \in Run \ {s} : Held(t)' = Held(t)
        /\ \A t \in Run : Suits(run[t])'
    BY <1>3, <2>1, OthersLike DEF Known
  <2>3. Held(s) = {} /\ Held(s)' = {p}
    <3>1. Held(s) = {}
      BY <2>1 DEF Held
    <3>2. Held(s)' = Elements(r.batch)
      BY <1>3, <2>2 DEF Held, Elements
    <3> QED  BY <1>3, <3>1, <3>2
  <2>4. Elements(queue)' = Elements(queue) /\ Distinct(queue)' /\ p \notin Elements(queue)
    BY <1>3 DEF Placed, Separate, Elements, Distinct
  <2>5. Moves(s)
    BY <1>3, <2>2, <2>3, <2>4 DEF Moves, Mine
  <2> QED  BY <2>5, MovesKeep
<1>4. CASE IncomingPrompt(p)
  <2>0. PICK s \in Run : Begin(s, [Free EXCEPT !.pc = "claiming", !.batch = <<p>>, !.gen = generation])
    BY <1>4 DEF IncomingPrompt
  <2>1. PICK r : r = [Free EXCEPT !.pc = "claiming", !.batch = <<p>>, !.gen = generation] /\ Begin(s, r)
    BY <2>0
  <2>2. r.pc = "claiming" /\ r.batch = <<p>>
    BY <2>1 DEF Free
  <2>3. Suits(r)
    BY <1>1, <1>4, <2>2 DEF Suits, IncomingPrompt
  <2>4. p \in new /\ new' = new \ {p} /\ queue' = queue /\ Settled' = Settled
    BY <1>4 DEF IncomingPrompt, Settled
  <2>5. Elements(r.batch) = {p}
    BY <1>1, <2>2
  <2> QED  BY <1>3, <2>1, <2>2, <2>3, <2>4, <2>5
<1>5. CASE InitialMessage(p)
  <2>0. PICK s \in Run : Begin(s, [Free EXCEPT !.pc = "initial", !.batch = <<p>>, !.direct = TRUE])
    BY <1>5 DEF InitialMessage
  <2>1. PICK r : r = [Free EXCEPT !.pc = "initial", !.batch = <<p>>, !.direct = TRUE] /\ Begin(s, r)
    BY <2>0
  <2>2. r.pc = "initial" /\ r.batch = <<p>>
    BY <2>1 DEF Free
  <2>3. Suits(r)
    BY <1>1, <1>5, <2>2 DEF Suits, InitialMessage
  <2>4. p \in new /\ new' = new \ {p} /\ queue' = queue /\ Settled' = Settled
    BY <1>5 DEF InitialMessage, Settled
  <2>5. Elements(r.batch) = {p}
    BY <1>1, <2>2
  <2> QED  BY <1>3, <2>1, <2>2, <2>3, <2>4, <2>5
<1> QED  BY <1>2, <1>4, <1>5, SubmitPlaces DEF Enter

(* Prompts are taken off the queue.                                        *)
LEMMA WithoutIs ==
  ASSUME Known, Placed, NEW D, queue' = Without(queue, D)
  PROVE  Elements(queue)' = Elements(queue) \ D /\ Distinct(queue)'
<1>1. PICK S : S = Prompt \ D
  OBVIOUS
<1>2. queue \in Seq(Prompt) /\ Distinct(queue)
  BY DEF Known, Stock, Placed
<1>3. Elements(Filter(queue, S)) = Elements(queue) \cap S /\ Distinct(Filter(queue, S))
  BY <1>2, FilterRemains, FilterDistinct
<1>4. queue' = Filter(queue, S)
  BY <1>1 DEF Without
<1>5. Elements(queue)' = Elements(queue) \cap S /\ Distinct(queue)'
  BY <1>3, <1>4 DEF Elements, Distinct
<1> QED  BY <1>1, <1>5, QueueTyped

LEMMA RenderPlaces ==
  ASSUME Known, Placed, Render
  PROVE  Placed'
<1>1. kind' = kind /\ new' = new /\ Settled' = Settled
  BY DEF Render, Settled
<1>2. ASSUME queue # <<>>, NEW s \in Run, ExecuteUserInput(s, Batch),
             queue' = Without(queue, Elements(Batch))
      PROVE  Placed'
  <2>1. PICK b : b = Batch
    OBVIOUS
  <2>2. /\ b \in Seq(Prompt) /\ Elements(b) \subseteq Elements(queue) /\ Distinct(b)
    BY <1>2, <2>1, BatchIs DEF Placed
  <2>3. /\ Held(s) = {} /\ Held(s)' = Elements(b)
        /\ \A t \in Run \ {s} : Held(t)' = Held(t)
        /\ \A t \in Run : Suits(run[t])'
    BY <1>1, <1>2, <2>1, <2>2, ExecuteHolds
  <2>4. Elements(queue)' = Elements(queue) \ Elements(b) /\ Distinct(queue)'
    BY <1>2, <2>1, WithoutIs
  <2>5. Moves(s)
    BY <1>1, <2>2, <2>3, <2>4 DEF Moves, Mine
  <2> QED  BY <2>5, MovesKeep
<1>3. CASE run' = run /\ queue' = queue
  <2>1. Held(1)' = Held(1) /\ 1 \in Run /\ \A t \in Run : Held(t)' = Held(t) /\ Suits(run[t])'
    BY <1>1, <1>3, AllHold, Constants
  <2>2. Elements(queue)' = Elements(queue) /\ Distinct(queue)' /\ Held(1) \cap Elements(queue) = {}
    BY <1>3, <2>1 DEF Placed, Separate, Elements, Distinct
  <2>3. Moves(1)
    BY <1>1, <2>1, <2>2 DEF Moves, Mine
  <2> QED  BY <2>1, <2>3, MovesKeep
<1> QED  BY <1>2, <1>3 DEF Render

(* A run that stops holds nothing.                                         *)
LEMMA StopHolds ==
  ASSUME Known, Placed, kind' = kind, NEW s \in Run, Leave(s) \/ run' = [run EXCEPT ![s] = Free]
  PROVE  /\ Held(s)' = {} /\ \A t \in Run \ {s} : Held(t)' = Held(t)
         /\ \A t \in Run : Suits(run[t])'
<1>1. PICK r : /\ run' = [run EXCEPT ![s] = r]
               /\ r = Free \/ r = [Free EXCEPT !.pc = "finishing", !.aborted = run[s].aborted]
  BY DEF Leave
<1>2. r.pc \in {"free", "finishing"} /\ r.batch = <<>>
  <2>1. CASE r = Free
    BY <2>1, FreeIs
  <2>2. CASE r = [Free EXCEPT !.pc = "finishing", !.aborted = run[s].aborted]
    <3>1. PICK f : f = Free /\ f \in Local /\ f.batch = <<>>
      BY FreeIs
    <3>2. r = [f EXCEPT !.pc = "finishing", !.aborted = run[s].aborted]
      BY <2>2, <3>1
    <3>3. r.pc = "finishing" /\ r.batch = f.batch
      BY <3>1, <3>2 DEF Local
    <3> QED  BY <3>1, <3>3
  <2> QED  BY <1>1, <2>1, <2>2
<1>3. Suits(r)
  BY <1>2 DEF Suits, Distinct
<1>4. /\ run'[s] = r /\ \A t \in Run \ {s} : Held(t)' = Held(t)
      /\ \A t \in Run : Suits(run[t])'
  BY <1>1, <1>3, OthersLike DEF Known
<1>5. Held(s)' = {}
  BY <1>2, <1>4 DEF Held
<1> QED  BY <1>4, <1>5

(* It may, if what it held is settled.                                     *)
LEMMA StopPlaces ==
  ASSUME Known, Placed, kind' = kind, NEW s \in Run, Leave(s) \/ run' = [run EXCEPT ![s] = Free],
         queue' = queue, new' = new, Settled \cup Held(s) \subseteq Settled'
  PROVE  Placed'
<1>1. /\ Held(s)' = {} /\ \A t \in Run \ {s} : Held(t)' = Held(t)
      /\ \A t \in Run : Suits(run[t])'
  BY StopHolds
<1>2. Elements(queue)' = Elements(queue) /\ Distinct(queue)'
  BY DEF Placed, Elements, Distinct
<1>3. Moves(s)
  BY <1>1, <1>2 DEF Moves, Mine
<1> QED  BY <1>3, MovesKeep

(* A run goes on to another phase, in which it holds nothing.              *)
LEMMA PhaseHolds ==
  ASSUME Known, Placed, kind' = kind, NEW s \in Run, NEW r, run' = [run EXCEPT ![s] = r],
         r.pc \in {"turn", "draining"}, r.batch = run[s].batch
  PROVE  /\ Held(s)' = {} /\ \A t \in Run \ {s} : Held(t)' = Held(t)
         /\ \A t \in Run : Suits(run[t])'
<1>1. Suits(r)
  BY DEF Suits, Placed
<1>2. /\ run'[s] = r /\ \A t \in Run \ {s} : Held(t)' = Held(t)
      /\ \A t \in Run : Suits(run[t])'
  BY <1>1, OthersLike DEF Known
<1> QED  BY <1>2 DEF Held

(* What is queued of a batch.                                              *)
LEMMA AgainIs ==
  ASSUME Known, Placed, NEW s \in Run, NEW S
  PROVE  LET q == Filter(run[s].batch, S)
         IN  /\ q \in Seq(Prompt) /\ Distinct(q)
             /\ Elements(q) = Elements(run[s].batch) \cap S
<1>1. run[s].batch \in Seq(Prompt) /\ Distinct(run[s].batch)
  BY QueueTyped DEF Placed, Suits
<1> QED  BY <1>1, FilterRemains, FilterDistinct

(* A run stops, and prompts of its batch are queued again.                 *)
LEMMA AgainPlaces ==
  ASSUME Known, Placed, kind' = kind, NEW s \in Run, Leave(s), new' = new,
         run[s].pc \in {"processing", "claiming", "initial"},
         NEW q \in Seq(Prompt), Distinct(q), Elements(q) \subseteq Elements(run[s].batch),
         queue' = queue \o q, Settled \subseteq Settled',
         {p \in Elements(run[s].batch) : kind[p] \notin Hidden} \subseteq Elements(q) \cup Settled'
  PROVE  Placed'
<1>1. Held(s) = Elements(run[s].batch)
  BY DEF Held
<1>2. /\ Held(s)' = {} /\ \A t \in Run \ {s} : Held(t)' = Held(t)
      /\ \A t \in Run : Suits(run[t])'
  BY StopHolds
<1>3. queue \in Seq(Prompt) /\ Distinct(queue) /\ Held(s) \cap Elements(queue) = {}
  BY DEF Known, Stock, Placed, Separate
<1>4. Elements(queue \o q) = Elements(queue) \cup Elements(q) /\ Distinct(queue \o q)
  BY <1>1, <1>3, ConcatElements, ConcatDistinct
<1>5. Elements(queue)' = Elements(queue) \cup Elements(q) /\ Distinct(queue)'
  BY <1>4 DEF Elements, Distinct
<1>6. {p \in Held(s) : kind[p] \notin Hidden} \subseteq Elements(q) \cup Settled'
  BY <1>1
<1>7. Moves(s)
  BY <1>1, <1>2, <1>5, <1>6 DEF Moves, Mine
<1> QED  BY <1>7, MovesKeep

(* onQuery gives the batch to the turn.                                    *)
LEMMA StartedPlaces ==
  ASSUME Known, Placed, kind' = kind, NEW s \in Run, Started(s), new' = new,
         failed' = failed, restored' = restored,
         run[s].pc \in {"processing", "claiming", "initial"}
  PROVE  Placed'
<1> DEFINE b == run[s].batch
<1>1. PICK r : r = [run[s] EXCEPT !.pc = "turn", !.gen = generation + 1]
  OBVIOUS
<1>2. run[s] \in Local /\ r.pc = "turn" /\ r.batch = b /\ Held(s) = Elements(b)
  BY <1>1 DEF Known, Driven, Local, Held
<1>3. run' = [run EXCEPT ![s] = r]
  BY <1>1 DEF Started, Known, Driven
<1>4. /\ Held(s)' = {} /\ \A t \in Run \ {s} : Held(t)' = Held(t)
      /\ \A t \in Run : Suits(run[t])'
  BY <1>2, <1>3, PhaseHolds
<1>5. queue' = queue /\ Settled' = Settled \cup Elements(b)
  BY DEF Started, Settled
<1>6. Elements(queue)' = Elements(queue) /\ Distinct(queue)'
  BY <1>5 DEF Placed, Elements, Distinct
<1> HIDE DEF b
<1>7. Moves(s)
  BY <1>2, <1>4, <1>5, <1>6 DEF Moves, Mine
<1> QED  BY <1>7, MovesKeep

(* onQuery queues it again, but for what is hidden from the user and what  *)
(* is more than a text.                                                    *)
LEMMA OnQueryPlaces ==
  ASSUME Known, Placed, kind' = kind, NEW s \in Run, OnQuery(s), new' = new,
         failed' = failed, restored' = restored,
         run[s].pc \in {"processing", "claiming", "initial"}
  PROVE  Placed'
<1>1. CASE Refused(s)
  <2> DEFINE batch == Elements(run[s].batch)
             rich  == {p \in batch : kind[p] = "image" \/ Slash(p)}
  <2>1. PICK textless \in SUBSET rich :
          queue' = queue \o Filter(run[s].batch, {p \in Prompt : kind[p] \notin Hidden} \ textless)
    BY <1>1 DEF Refused
  <2>2. Settled \subseteq Settled' /\ rich \subseteq Settled' /\ Leave(s)
    BY <1>1 DEF Refused, Settled
  <2>3. batch \subseteq Prompt
    BY QueueTyped
  <2>4. PICK S : S = {p \in Prompt : kind[p] \notin Hidden} \ textless
    OBVIOUS
  <2>5. PICK q : q = Filter(run[s].batch, S)
    OBVIOUS
  <2>6. q \in Seq(Prompt) /\ Distinct(q) /\ Elements(q) = batch \cap S
    BY <2>5, AgainIs
  <2> HIDE DEF rich
  <2>7. {p \in batch : kind[p] \notin Hidden} \subseteq Elements(q) \cup Settled'
    BY <2>2, <2>3, <2>4, <2>6
  <2>8. queue' = queue \o q
    BY <2>1, <2>4, <2>5
  <2> QED  BY <2>2, <2>6, <2>7, <2>8, AgainPlaces
<1>2. CASE Started(s)
  BY <1>2, StartedPlaces
<1> QED  BY <1>1, <1>2 DEF OnQuery

LEMMA RoundPlaces ==
  ASSUME Known, Placed, kind' = kind, NEW s \in Run, Snapshot(s) \/ Consume(s)
  PROVE  Placed'
<1>1. run[s] \in Local /\ run \in [Run -> Local]
  BY DEF Known, Driven
<1>2. CASE Snapshot(s)
  <2> DEFINE waiting == {p \in Elements(queue) : kind[p] # "auto" /\ ~Slash(p)}
  <2>1. /\ run' = [run EXCEPT ![s].pc = "draining", ![s].snap = waiting]
        /\ run[s].pc = "turn" /\ queue' = queue /\ new' = new /\ Settled' = Settled
    BY <1>2 DEF Snapshot, Settled
  <2> HIDE DEF waiting
  <2>2. PICK r : r = [run[s] EXCEPT !.pc = "draining", !.snap = waiting]
    OBVIOUS
  <2>3. r.pc = "draining" /\ r.batch = run[s].batch
    BY <1>1, <2>2 DEF Local
  <2>4. run' = [run EXCEPT ![s] = r]
    BY <1>1, <2>1, <2>2
  <2>5. /\ Held(s)' = {} /\ \A t \in Run \ {s} : Held(t)' = Held(t)
        /\ \A t \in Run : Suits(run[t])'
    BY <2>3, <2>4, PhaseHolds
  <2>6. Elements(queue)' = Elements(queue) /\ Distinct(queue)' /\ Held(s) = {}
    BY <2>1 DEF Placed, Elements, Distinct, Held
  <2>7. Moves(s)
    BY <2>1, <2>5, <2>6 DEF Moves, Mine
  <2> QED  BY <2>7, MovesKeep
<1>3. CASE Consume(s)
  <2>1. /\ run' = [run EXCEPT ![s].pc = "turn", ![s].snap = {}]
        /\ run[s].pc = "draining" /\ new' = new
    BY <1>3 DEF Consume
  <2>2. PICK r : r = [run[s] EXCEPT !.pc = "turn", !.snap = {}]
    OBVIOUS
  <2>3. r.pc = "turn" /\ r.batch = run[s].batch
    BY <1>1, <2>2 DEF Local
  <2>4. run' = [run EXCEPT ![s] = r]
    BY <1>1, <2>1, <2>2
  <2>5. /\ Held(s)' = {} /\ \A t \in Run \ {s} : Held(t)' = Held(t)
        /\ \A t \in Run : Suits(run[t])'
    BY <2>3, <2>4, PhaseHolds
  <2>6. PICK D : /\ Elements(queue)' = Elements(queue) \ D /\ Distinct(queue)'
                 /\ Settled' = Settled \cup D
    <3>1. CASE queue' = queue /\ served' = served
      <4>1. Elements(queue)' = Elements(queue) \ {} /\ Distinct(queue)' /\ Settled' = Settled \cup {}
        BY <1>3, <3>1 DEF Consume, Placed, Elements, Distinct, Settled
      <4> QED  BY <4>1
    <3>2. CASE queue' = Without(queue, run[s].snap) /\ served' = served \cup run[s].snap
      <4>1. Elements(queue)' = Elements(queue) \ run[s].snap /\ Distinct(queue)'
        BY <3>2, WithoutIs
      <4>2. Settled' = Settled \cup run[s].snap
        BY <1>3, <3>2 DEF Consume, Settled
      <4> QED  BY <4>1, <4>2
    <3> QED  BY <1>3, <3>1, <3>2 DEF Consume
  <2>7. Held(s) = {}
    BY <2>1 DEF Held
  <2>8. Moves(s)
    BY <2>1, <2>5, <2>6, <2>7 DEF Moves, Mine
  <2> QED  BY <2>8, MovesKeep
<1> QED  BY <1>2, <1>3

LEMMA ContinuePlaces ==
  ASSUME Known, Placed, kind' = kind, NEW s \in Run, Continue(s)
  PROVE  Placed'
<1>1. /\ Suits(run[s]) /\ Held(s) \subseteq Elements(run[s].batch)
      /\ (run[s].pc \in {"turn", "finishing"} => Held(s) = {})
  BY DEF Placed, Held
<1>2. CASE NoMessages(s)
  BY <1>1, <1>2, StopPlaces DEF NoMessages, Settled
<1>3. CASE Throws(s)
  BY <1>1, <1>3, StopPlaces DEF Throws, Settled
<1>4. CASE Query(s)
  BY <1>4, OnQueryPlaces DEF Query
<1>5. CASE Claimed(s)
  <2>1. /\ run[s].pc = "claiming" /\ new' = new /\ failed' = failed /\ restored' = restored
        /\ Elements(run[s].batch) \subseteq Prompt
        /\ \A p \in Elements(run[s].batch) : kind[p] \in {"tick", "message"}
    BY <1>1, <1>5, QueueTyped DEF Claimed, Suits
  <2>2. CASE Started(s)
    BY <2>1, <2>2, StartedPlaces
  <2>3. CASE /\ Kinds(s) = {"tick"} /\ run' = [run EXCEPT ![s] = Free]
             /\ UNCHANGED <<queue, served, stripped>>
    <3>1. \A p \in Elements(run[s].batch) : kind[p] = "tick"
      BY <2>3 DEF Kinds
    <3>2. /\ Held(s)' = {} /\ \A t \in Run \ {s} : Held(t)' = Held(t)
          /\ \A t \in Run : Suits(run[t])'
      BY <2>3, StopHolds
    <3>3. Elements(queue)' = Elements(queue) /\ Distinct(queue)' /\ Settled' = Settled
      BY <2>1, <2>3 DEF Placed, Elements, Distinct, Settled
    <3>4. \A p \in Held(s) : kind[p] \in Hidden
      BY <1>1, <3>1 DEF Hidden
    <3>5. Moves(s)
      BY <2>1, <3>2, <3>3, <3>4 DEF Moves, Mine
    <3> QED  BY <3>5, MovesKeep
  <2>4. CASE /\ Leave(s) /\ UNCHANGED <<served, stripped>>
             /\ queue' = queue \o Filter(run[s].batch, {p \in Prompt : kind[p] = "message"})
    <3>1. Settled' = Settled
      BY <2>1, <2>4 DEF Settled
    <3>2. PICK q : q = Filter(run[s].batch, {p \in Prompt : kind[p] = "message"})
      OBVIOUS
    <3>3. /\ q \in Seq(Prompt) /\ Distinct(q)
          /\ Elements(q) = Elements(run[s].batch) \cap {p \in Prompt : kind[p] = "message"}
      BY <3>2, AgainIs
    <3>4. {p \in Elements(run[s].batch) : kind[p] \notin Hidden} \subseteq Elements(q) \cup Settled'
      BY <2>1, <3>3 DEF Hidden
    <3> QED  BY <2>1, <2>4, <3>1, <3>2, <3>3, <3>4, AgainPlaces
  <2> QED  BY <1>5, <2>2, <2>3, <2>4 DEF Claimed
<1>6. CASE InitialQuery(s)
  BY <1>1, <1>6, OnQueryPlaces DEF InitialQuery, Suits
<1>7. CASE Snapshot(s) \/ Consume(s)
  BY <1>7, RoundPlaces
<1>8. CASE TurnEnds(s)
  BY <1>1, <1>8, StopPlaces DEF TurnEnds, Settled
<1>9. CASE Finish(s)
  BY <1>1, <1>9, StopPlaces DEF Finish, Settled
<1> QED  BY <1>2, <1>3, <1>4, <1>5, <1>6, <1>7, <1>8, <1>9 DEF Continue

(* A step that leaves every run its phase and its batch.                   *)
LEMMA RestPlaces ==
  ASSUME Known, Placed, kind' = kind, new' = new, NEW D,
         \A t \in Run : run'[t].pc = run[t].pc /\ run'[t].batch = run[t].batch,
         Elements(queue)' = Elements(queue) \ D, Distinct(queue)', Settled' = Settled \cup D
  PROVE  Placed'
<1>1. \A t \in Run : Held(t)' = Held(t) /\ Suits(run[t])'
  BY AllHold
<1>2. 1 \in Run /\ Held(1)' = Held(1) /\ Held(1) \cap Elements(queue) = {}
  BY <1>1, Constants DEF Placed, Separate
<1>3. Moves(1)
  BY <1>1, <1>2 DEF Moves, Mine
<1> QED  BY <1>2, <1>3, MovesKeep

LEMMA NextPlaces ==
  ASSUME Known, Placed, [Next]_vars
  PROVE  Placed'
<1>1. CASE Render
  BY <1>1, RenderPlaces
<1>2. ASSUME NEW p \in Prompt, Enter(p), Notify  PROVE Placed'
  BY <1>2, EnterPlaces DEF Notify
<1>3. ASSUME NEW s \in Run, Continue(s), Notify  PROVE Placed'
  BY <1>3, ContinuePlaces DEF Notify
<1>4. ASSUME queue' = queue, Settled' = Settled, new' = new, kind' = kind,
             \A t \in Run : run'[t].pc = run[t].pc /\ run'[t].batch = run[t].batch
      PROVE  Placed'
  <2>1. Elements(queue)' = Elements(queue) \ {} /\ Distinct(queue)' /\ Settled' = Settled \cup {}
    BY <1>4 DEF Placed, Elements, Distinct
  <2> QED  BY <1>4, <2>1, RestPlaces
<1>5. CASE Cancel /\ Notify
  <2>1. ASSUME NEW t \in Run
        PROVE  run'[t].pc = run[t].pc /\ run'[t].batch = run[t].batch
    <3>1. run[t] \in Local
      BY DEF Known, Driven
    <3>2. run'[t] = run[t] \/ run'[t] = [run[t] EXCEPT !.aborted = TRUE]
      BY <1>5 DEF Cancel
    <3> QED  BY <3>1, <3>2 DEF Local
  <2> QED  BY <1>4, <1>5, <2>1 DEF Cancel, Notify, Settled
<1>6. CASE PopAllEditable /\ Notify
  <2>1. PICK D : queue' = Without(queue, D) /\ restored' = restored \cup D
    BY <1>6 DEF PopAllEditable
  <2>2. Elements(queue)' = Elements(queue) \ D /\ Distinct(queue)'
    BY <2>1, WithoutIs
  <2>3. /\ Settled' = Settled \cup D /\ kind' = kind /\ new' = new /\ run' = run
    BY <1>6, <2>1 DEF PopAllEditable, Notify, Settled
  <2> QED  BY <2>2, <2>3, RestPlaces
<1>7. CASE UNCHANGED vars
  BY <1>4, <1>7 DEF vars, Settled
<1> QED  BY <1>1, <1>2, <1>3, <1>5, <1>6, <1>7 DEF Next

LEMMA InitPlaced == Init => Placed
<1> SUFFICES ASSUME Init  PROVE Placed
  OBVIOUS
<1>1. queue = <<>> /\ new = Prompt /\ \A s \in Run : run[s] = Free
  BY DEF Init
<1>2. Elements(queue) = {} /\ Distinct(queue) /\ \A s \in Run : Held(s) = {}
  BY <1>1, FreeIs DEF Elements, Distinct, Held
<1>3. Suits(Free)
  BY FreeIs DEF Suits, Distinct
<1>4. Separate /\ NothingLost
  BY <1>1, <1>2 DEF Separate, NothingLost, OfUser
<1> QED  BY <1>1, <1>2, <1>3, <1>4 DEF Placed

LEMMA AlwaysPlaced == Spec => [](Known /\ Placed)
<1>1. Init => IInv /\ Known /\ Placed
  BY InitIInv, InitTyped, InitPlaced
<1>2. IInv /\ Known /\ Placed /\ [Next]_vars => (IInv /\ Known /\ Placed)'
  BY NextKeeps, NextTyped, NextPlaces
<1> QED  BY <1>1, <1>2, PTL DEF Spec

(* handlePromptSubmit, the queue processor, onQuery and popAllEditable:    *)
(* what the user enters is queued, on its way, served, reported as an      *)
(* error or back in the input box, however runs are cancelled and refused. *)
THEOREM NothingIsLost == Spec => []NothingLost
<1>1. Known /\ Placed => NothingLost
  BY DEF Placed
<1> QED  BY <1>1, AlwaysPlaced, PTL

(* The queue processor, onQuery and the query loop's attachments: a prompt *)
(* is not queued twice, nor dispatched while it is queued, nor by two runs.*)
THEOREM OnePlaceEach == Spec => []OnePlace
<1>1. ASSUME Placed  PROVE OnePlace
  <2> SUFFICES ASSUME NEW p \in Prompt
               PROVE  Cardinality({i \in 1 .. Len(queue) : queue[i] = p})
                        + Cardinality({s \in Run : p \in Held(s)}) <= 1
    BY DEF OnePlace
  <2> DEFINE I == {i \in 1 .. Len(queue) : queue[i] = p}
             R == {s \in Run : p \in Held(s)}
  <2>1. ASSUME NEW S, \A x, y \in S : x = y
        PROVE  S = {} \/ \E x \in S : S = {x}
    BY <2>1
  <2>2. \A S : (\A x, y \in S : x = y) => Cardinality(S) \in {0, 1} /\ (S = {} => Cardinality(S) = 0)
    BY <2>1, FS_EmptySet, FS_Singleton
  <2>3. /\ \A i, j \in I : i = j
        /\ \A s, t \in R : s = t
    BY <1>1 DEF Placed, Distinct, Separate
  <2>4. I = {} \/ R = {}
    BY <1>1 DEF Placed, Separate, Elements
  <2> HIDE DEF I, R
  <2>5. Cardinality(I) + Cardinality(R) <= 1
    BY <2>2, <2>3, <2>4
  <2> QED  BY <2>5 DEF I, R
<1> QED  BY <1>1, AlwaysPlaced, PTL
=============================================================================
