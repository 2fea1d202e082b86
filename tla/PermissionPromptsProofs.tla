----------------------- MODULE PermissionPromptsProofs -----------------------
(***************************************************************************)
(* For any requests of a turn and any set of racers: the dialog in the     *)
(* queue is the floor under every question that is open, whoever answers   *)
(* it, and the other sides are told.                                       *)
(***************************************************************************)
EXTENDS PermissionPrompts, LineProofs

USE DEF Place

(* The other sides are asked when the dialog opens, not before.            *)
Early(r) == pc[r] \in {"new", "checking", "automated", "opening"}
Unasked  == \A r \in Request : Early(r) => prompt[r] = "closed" /\ r \notin heard

(* The dialog drawn is that of a request that has been opened, and the     *)
(* first of the queue for as long as it is unanswered: a key that is meant *)
(* for it does not remove another.                                         *)
Drawn ==
  screen # None =>
    /\ pc[screen] \in {"asking", "done"}
    /\ Asking(screen) => queue # <<>> /\ Head(queue) = screen

(* The dialogs, and the other sides.                                       *)
Dialogs == queue \in Seq(Request) /\ Distinct(queue) /\ DialogIsFloor /\ Drawn
Remotes == RemotesFollow /\ Unasked

(* The types, but for the queue's.                                         *)
Types ==
  /\ setup \in Setups
  /\ pc \in [Request -> Place]
  /\ screen \in Request \cup {None}
  /\ prompt \in [Request -> {"closed", "open", "replied"}]
  /\ heard \subseteq Request /\ hooks \subseteq Request
  /\ sees \subseteq Request /\ rechecked \subseteq Request /\ swept \subseteq Request
  /\ granted \in BOOLEAN /\ due \in BOOLEAN /\ aborted \in BOOLEAN /\ over \in BOOLEAN

IInv == Types /\ Dialogs /\ Remotes

LEMMA InvImplies == IInv => TypeOK /\ DialogIsFloor /\ RemotesFollow
<1> SUFFICES ASSUME IInv  PROVE TypeOK
  BY DEF IInv, Dialogs, Remotes
<1>1. Len(queue) <= Cardinality(Request)
  BY PromptsAssumption, DistinctLength DEF IInv, Dialogs
<1> QED  BY <1>1 DEF IInv, Types, Dialogs, TypeOK

LEMMA InitIInv == Init => IInv
<1> SUFFICES ASSUME Init  PROVE IInv
  OBVIOUS
<1>1. Types
  BY DEF Init, Types
<1>2. queue = <<>> /\ screen = None /\ queue \in Seq(Request) /\ Elements(queue) = {}
  BY DEF Init, Elements
<1>3. \A r \in Request : pc[r] = "new" /\ prompt[r] = "closed" /\ r \notin heard
  BY DEF Init
<1>4. Dialogs
  BY <1>2, <1>3 DEF Dialogs, Distinct, DialogIsFloor, Drawn, Asking
<1>5. Remotes
  BY <1>3 DEF Remotes, RemotesFollow, Unasked
<1> QED  BY <1>1, <1>4, <1>5 DEF IInv

-----------------------------------------------------------------------------
(* The dialogs, in what an answer and an opening do to them.               *)

(* Nobody's dialog comes or goes: at most, a request that has none yet is  *)
(* answered or goes on.                                                    *)
LEMMA DialogsKept ==
  ASSUME IInv, queue' = queue, screen' = screen, swept' = swept,
         \A q \in Request : pc'[q] = pc[q] \/ (Early(q) /\ pc'[q] # "asking")
  PROVE  Dialogs'
<1>1. \A q \in Request : Asking(q) <=> Asking(q)'
  BY DEF Early, Asking
<1>2. Elements(queue') = Elements(queue) /\ Elements(queue) \subseteq Request
  BY DEF IInv, Dialogs, Elements
<1>3. DialogIsFloor'
  BY <1>1, <1>2 DEF IInv, Dialogs, DialogIsFloor
<1>4. Drawn'
  BY <1>1 DEF IInv, Types, Dialogs, Drawn, Early, Asking
<1> QED  BY <1>3, <1>4 DEF IInv, Dialogs, Distinct

(* The dialog of a request that is answered is taken out.                  *)
LEMMA DialogLeaves ==
  ASSUME IInv, NEW r \in Request, Asking(r), Resolve(r), RemoveFromQueue(r),
         screen' = screen, swept' = swept
  PROVE  Dialogs'
<1> DEFINE S == Request \ {r}
<1>1. queue \in Seq(Request) /\ Distinct(queue) /\ Elements(queue) \subseteq Request
  BY DEF IInv, Dialogs, Elements
<1>2. queue' = Filter(queue, S)
  BY DEF RemoveFromQueue
<1>3. queue' \in Seq(Request) /\ Distinct(queue') /\ Elements(queue') = Elements(queue) \ {r}
  <2> HIDE DEF S
  <2>1. queue' \in Seq(Request) /\ Distinct(queue') /\ Elements(queue') = Elements(queue) \cap S
    BY <1>1, <1>2, FilterRemains, FilterDistinct
  <2> QED  BY <1>1, <2>1 DEF S
<1>4. pc'[r] = "done" /\ \A q \in Request \ {r} : pc'[q] = pc[q]
  BY DEF IInv, Types, Resolve
<1>5. DialogIsFloor'
  BY <1>1, <1>3, <1>4 DEF IInv, Dialogs, DialogIsFloor, Asking
<1>6. ASSUME screen # None, Asking(screen)'
      PROVE  queue' # <<>> /\ Head(queue') = screen
  <2>1. screen \in Request /\ screen # r /\ Asking(screen)
    BY <1>4, <1>6 DEF IInv, Types, Asking
  <2>2. queue # <<>> /\ Head(queue) = screen /\ Head(queue) \in S
    BY <1>6, <2>1 DEF IInv, Dialogs, Drawn
  <2> QED
    <3> HIDE DEF S
    <3> QED  BY <1>1, <1>2, <2>2, FilterHead
<1>7. Drawn'
  BY <1>4, <1>6 DEF IInv, Types, Dialogs, Drawn, Asking
<1> QED  BY <1>3, <1>5, <1>7 DEF Dialogs

(* The dialog of a request opens behind the others.                        *)
LEMMA DialogOpens ==
  ASSUME IInv, NEW r \in Request, Early(r), Open(r), screen' = screen, swept' = swept
  PROVE  Dialogs'
<1>1. queue \in Seq(Request) /\ Distinct(queue) /\ Elements(queue) \subseteq Request
  BY DEF IInv, Dialogs, Elements
<1>2. r \notin Elements(queue)
  BY DEF IInv, Dialogs, DialogIsFloor, Asking, Early
<1>3. /\ queue' \in Seq(Request) /\ Distinct(queue')
      /\ Elements(queue') = Elements(queue) \cup {r}
  BY <1>1, <1>2, AppendIs DEF Open
<1>4. pc'[r] = "asking" /\ \A q \in Request \ {r} : pc'[q] = pc[q]
  BY DEF IInv, Types, Open
<1>5. DialogIsFloor'
  BY <1>1, <1>3, <1>4 DEF IInv, Dialogs, DialogIsFloor, Asking
<1>6. queue # <<>> => queue' # <<>> /\ Head(queue') = Head(queue)
  BY <1>1 DEF Open
<1>7. Drawn'
  <2> SUFFICES ASSUME screen # None  PROVE Drawn'
    BY DEF Drawn
  <2>1. screen \in Request /\ screen # r
    BY DEF IInv, Types, Dialogs, Drawn, Early
  <2> QED  BY <1>4, <1>6, <2>1 DEF IInv, Dialogs, Drawn, Asking
<1> QED  BY <1>3, <1>5, <1>7 DEF Dialogs

(* What the other sides are told does not depend on the queue: requests go *)
(* on, and no side is asked anew, nor left with a question.                *)
LEMMA RemotesKept ==
  ASSUME IInv, prompt' = prompt, heard' = heard,
         \A q \in Request : pc'[q] = pc[q] \/ Early(q)
  PROVE  Remotes'
BY DEF IInv, Remotes, RemotesFollow, Unasked, Early

LEMMA RemotesDismissed ==
  ASSUME IInv, NEW r \in Request, Resolve(r), DismissRemotes(r)
  PROVE  Remotes'
<1>1. pc'[r] = "done" /\ \A q \in Request \ {r} : pc'[q] = pc[q]
  BY DEF IInv, Types, Resolve
<1>2. prompt'[r] = "closed" /\ \A q \in Request \ {r} : prompt'[q] = prompt[q]
  BY DEF IInv, Types, DismissRemotes
<1>3. heard' = heard \ {r}
  BY DEF DismissRemotes
<1> QED  BY <1>1, <1>2, <1>3 DEF IInv, Remotes, RemotesFollow, Unasked, Early

LEMMA RemotesAsked ==
  ASSUME IInv, NEW r \in Request, Open(r)
  PROVE  Remotes'
<1>1. pc'[r] = "asking" /\ \A q \in Request \ {r} : pc'[q] = pc[q]
  BY DEF IInv, Types, Open
<1>2. /\ \A q \in Request \ {r} : prompt'[q] = prompt[q]
      /\ heard' \subseteq heard \cup {r}
  BY DEF IInv, Types, Open
<1> QED  BY <1>1, <1>2 DEF IInv, Remotes, RemotesFollow, Unasked, Early

-----------------------------------------------------------------------------
(* The checks before the dialog.                                           *)
LEMMA ResolveIfAbortedKeeps ==
  ASSUME IInv, NEW r \in Request, Early(r), ResolveIfAborted(r),
         UNCHANGED <<queue, prompt, heard, screen, swept>>
  PROVE  /\ Dialogs' /\ Remotes'
         /\ pc' \in [Request -> Place] /\ aborted' \in BOOLEAN /\ over' \in BOOLEAN
<1>1. pc' = [pc EXCEPT ![r] = "done"] \/ pc' = [pc EXCEPT ![r] = "opening"]
  BY DEF ResolveIfAborted, Resolve
<1>2. \A q \in Request : pc'[q] = pc[q] \/ (Early(q) /\ pc'[q] # "asking")
  BY <1>1 DEF IInv, Types
<1>3. Dialogs' /\ Remotes'
  BY <1>2, DialogsKept, RemotesKept
<1>4. aborted' \in BOOLEAN /\ over' \in BOOLEAN
  BY DEF ResolveIfAborted, CancelAndAbort, NoAbort, IInv, Types
<1> QED  BY <1>1, <1>3, <1>4 DEF IInv, Types

LEMMA AskKeeps ==
  ASSUME IInv, NEW r \in Request, Ask(r)
  PROVE  IInv'
<1>1. Types'
  BY DEF IInv, Types, Ask, Resolve, CancelAndAbort, NoAbort
<1>2. \A q \in Request : pc'[q] = pc[q] \/ (Early(q) /\ pc'[q] # "asking")
  BY DEF IInv, Types, Ask, Resolve, Early
<1>3. Dialogs'
  BY <1>2, DialogsKept DEF Ask
<1>4. Remotes'
  BY <1>2, RemotesKept DEF Ask
<1> QED  BY <1>1, <1>3, <1>4 DEF IInv

LEMMA CheckedKeeps ==
  ASSUME IInv, NEW r \in Request, Checked(r)
  PROVE  IInv'
<1>1. /\ Early(r)
      /\ UNCHANGED <<setup, queue, screen, prompt, heard, hooks, granted, sees, due,
                     rechecked, swept>>
  BY DEF Checked, Early
<1>2. CASE ResolveIfAborted(r)
  <2>1. Types'
    BY <1>1, <1>2, ResolveIfAbortedKeeps DEF IInv, Types
  <2> QED  BY <1>1, <1>2, <2>1, ResolveIfAbortedKeeps DEF IInv
<1>3. CASE /\ Resolve(r) \/ pc' = [pc EXCEPT ![r] = "automated"]
           /\ CancelAndAbort \/ NoAbort
  <2>1. Types'
    BY <1>1, <1>3 DEF IInv, Types, Resolve, CancelAndAbort, NoAbort
  <2>2. \A q \in Request : pc'[q] = pc[q] \/ (Early(q) /\ pc'[q] # "asking")
    BY <1>1, <1>3 DEF IInv, Types, Resolve
  <2> QED  BY <1>1, <1>3, <2>1, <2>2, DialogsKept, RemotesKept DEF IInv
<1> QED  BY <1>2, <1>3 DEF Checked

LEMMA HookTypes ==
  ASSUME Types, HookDecides
  PROVE  /\ granted' \in BOOLEAN /\ due' \in BOOLEAN
         /\ aborted' \in BOOLEAN /\ over' \in BOOLEAN
BY DEF Types, HookDecides, PersistPermissions, CancelAndAbort, NoRule, NoAbort

LEMMA AutomatedKeeps ==
  ASSUME IInv, NEW r \in Request, Automated(r)
  PROVE  IInv'
<1>1. /\ Early(r)
      /\ UNCHANGED <<setup, queue, screen, prompt, heard, hooks, sees, rechecked, swept>>
  BY DEF Automated, Early
<1>2. CASE ResolveIfAborted(r) /\ NoRule
  <2>1. Types'
    BY <1>1, <1>2, ResolveIfAbortedKeeps DEF IInv, Types, NoRule
  <2> QED  BY <1>1, <1>2, <2>1, ResolveIfAbortedKeeps DEF IInv
<1>3. CASE HookDecides /\ Resolve(r)
  <2>1. Types'
    BY <1>1, <1>3, HookTypes DEF IInv, Types, Resolve
  <2>2. \A q \in Request : pc'[q] = pc[q] \/ (Early(q) /\ pc'[q] # "asking")
    BY <1>1, <1>3 DEF IInv, Types, Resolve
  <2> QED  BY <1>1, <1>3, <2>1, <2>2, DialogsKept, RemotesKept DEF IInv
<1> QED  BY <1>2, <1>3 DEF Automated

LEMMA OpenDialogKeeps ==
  ASSUME IInv, NEW r \in Request, OpenDialog(r)
  PROVE  IInv'
<1>1. /\ Early(r) /\ Open(r)
      /\ UNCHANGED <<setup, screen, granted, sees, due, rechecked, aborted, over, swept>>
  BY DEF OpenDialog, Early
<1>2. Types'
  BY <1>1 DEF IInv, Types, Open
<1> QED  BY <1>1, <1>2, DialogOpens, RemotesAsked DEF IInv

-----------------------------------------------------------------------------
(* The dialog that is drawn.                                               *)

(* A key finds the dialog unanswered, which is then the first; or it is    *)
(* late, and the first is another's: it counts as swept.                   *)
LEMMA KeyKeeps ==
  ASSUME IInv, Key
  PROVE  IInv'
<1>1. screen \in Request /\ pc[screen] \in {"asking", "done"}
  BY DEF IInv, Types, Dialogs, Drawn, Key
<1>2. UNCHANGED <<setup, screen, hooks, sees, rechecked>>
  BY DEF Key
<1>3. queue \in Seq(Request) /\ Distinct(queue) /\ Elements(queue) \subseteq Request
  BY DEF IInv, Dialogs, Elements
<1>4. /\ queue' \in Seq(Request) /\ Distinct(queue')
      /\ queue # <<>> => /\ Head(queue) \in Request /\ Head(queue) \notin Elements(queue')
                        /\ Elements(queue) = Elements(queue') \cup {Head(queue)}
      /\ queue = <<>> => Elements(queue') = {} /\ Elements(queue) = {}
  <2>1. CASE queue = <<>>
    BY <1>3, <2>1 DEF Key, Elements
  <2>2. CASE queue # <<>>
    <3>1. queue' = Tail(queue)
      BY <2>2 DEF Key
    <3> QED  BY <1>3, <2>2, <3>1, TailIs
  <2> QED  BY <2>1, <2>2
<1>5. /\ queue = <<>> => swept' = swept
      /\ queue # <<>> => swept' = swept \cup ({Head(queue)} \ {screen})
  BY DEF Key
<1>6. CASE Asking(screen) /\ Resolve(screen) /\ DismissRemotes(screen) /\ HookDecides
  <2>1. pc'[screen] = "done" /\ \A q \in Request \ {screen} : pc'[q] = pc[q]
    BY <1>1, <1>6 DEF IInv, Types, Resolve
  <2>2. queue # <<>> /\ Head(queue) = screen
    BY <1>6 DEF IInv, Dialogs, Drawn, Key
  <2>3. Types'
    <3>1. /\ pc' \in [Request -> Place]
          /\ prompt' \in [Request -> {"closed", "open", "replied"}] /\ heard' \subseteq Request
      BY <1>6 DEF IInv, Types, Resolve, DismissRemotes
    <3>2. swept' = swept
      BY <1>5, <2>2
    <3> QED  BY <1>2, <1>6, <3>1, <3>2, HookTypes DEF IInv, Types
  <2>4. DialogIsFloor'
    BY <1>1, <1>3, <1>4, <1>5, <2>1, <2>2 DEF IInv, Dialogs, DialogIsFloor, Asking
  <2>5. Drawn'
    BY <1>1, <1>2, <2>1 DEF Drawn, Asking
  <2>6. Dialogs'
    BY <1>4, <2>4, <2>5 DEF Dialogs
  <2>7. Remotes'
    BY <1>1, <1>6, RemotesDismissed
  <2> QED  BY <2>3, <2>6, <2>7 DEF IInv
<1>7. CASE ~Asking(screen) /\ UNCHANGED <<pc, prompt, heard, granted, due, aborted, over>>
  <2>1. Types'
    BY <1>2, <1>4, <1>5, <1>7 DEF IInv, Types
  <2>2. DialogIsFloor'
    BY <1>3, <1>4, <1>5, <1>7 DEF IInv, Dialogs, DialogIsFloor, Asking
  <2>3. Drawn'
    BY <1>1, <1>2, <1>7 DEF Drawn, Asking
  <2>4. Dialogs'
    BY <1>4, <2>2, <2>3 DEF Dialogs
  <2>5. Remotes'
    BY <1>7, RemotesKept
  <2> QED  BY <2>1, <2>4, <2>5 DEF IInv
<1> QED  BY <1>6, <1>7 DEF Key, HookDecides

LEMMA CancelKeeps ==
  ASSUME IInv, Cancel
  PROVE  IInv'
<1>1. UNCHANGED <<setup, screen, hooks, granted, sees, due, rechecked>> /\ queue' = <<>>
  BY DEF Cancel
<1>2. queue' \in Seq(Request) /\ Distinct(queue') /\ Elements(queue') = {}
  BY <1>1 DEF Distinct, Elements
<1>3. swept' = swept \cup (Elements(queue) \ {screen}) /\ Elements(queue) \subseteq Request
  BY DEF Cancel, IInv, Dialogs, Elements
<1>4. CASE screen # None /\ Asking(screen) /\ Resolve(screen) /\ DismissRemotes(screen)
  <2>1. screen \in Request
    BY <1>4 DEF IInv, Types
  <2>2. pc'[screen] = "done" /\ \A q \in Request \ {screen} : pc'[q] = pc[q]
    BY <1>4, <2>1 DEF IInv, Types, Resolve
  <2>3. Types'
    <3>1. aborted' \in BOOLEAN /\ over' \in BOOLEAN
      BY <1>4 DEF Cancel
    <3>2. /\ pc' \in [Request -> Place]
          /\ prompt' \in [Request -> {"closed", "open", "replied"}] /\ heard' \subseteq Request
      BY <1>4 DEF IInv, Types, Resolve, DismissRemotes
    <3> QED  BY <1>1, <1>3, <3>1, <3>2 DEF IInv, Types
  <2>4. DialogIsFloor'
    BY <1>2, <1>3, <2>1, <2>2 DEF IInv, Dialogs, DialogIsFloor, Asking
  <2>5. Drawn'
    BY <1>1, <2>1, <2>2 DEF Drawn, Asking
  <2>6. Dialogs'
    BY <1>2, <2>4, <2>5 DEF Dialogs
  <2>7. Remotes'
    BY <1>4, <2>1, RemotesDismissed
  <2> QED  BY <2>3, <2>6, <2>7 DEF IInv
<1>5. CASE (screen # None => ~Asking(screen)) /\ UNCHANGED <<pc, prompt, heard>>
  <2>1. Types'
    <3>1. aborted' \in BOOLEAN /\ over' \in BOOLEAN
      BY <1>5 DEF Cancel, IInv, Types
    <3> QED  BY <1>1, <1>3, <1>5, <3>1 DEF IInv, Types
  <2>2. DialogIsFloor'
    <3>1. \A q \in Request : Asking(q) => q # screen
      BY <1>5, PromptsAssumption
    <3> QED  BY <1>2, <1>3, <1>5, <3>1 DEF IInv, Dialogs, DialogIsFloor, Asking
  <2>3. Drawn'
    BY <1>1, <1>5 DEF IInv, Dialogs, Drawn, Asking
  <2>4. Dialogs'
    BY <1>2, <2>2, <2>3 DEF Dialogs
  <2>5. Remotes'
    BY <1>5, RemotesKept
  <2> QED  BY <2>1, <2>4, <2>5 DEF IInv
<1> QED  BY <1>4, <1>5 DEF Cancel

(* What is drawn is the first of the queue, which is unanswered.           *)
LEMMA RenderKeeps ==
  ASSUME IInv, Render
  PROVE  IInv'
<1>1. UNCHANGED <<setup, pc, queue, prompt, heard, hooks, granted, sees, due,
                  rechecked, aborted, over, swept>>
  BY DEF Render
<1>2. CASE queue = <<>>
  <2>1. screen' = None
    BY <1>2 DEF Render
  <2> QED  BY <1>1, <2>1 DEF IInv, Types, Dialogs, Remotes, Distinct, DialogIsFloor,
                             Drawn, Asking, RemotesFollow, Unasked, Early
<1>3. CASE queue # <<>>
  <2>1. screen' = Head(queue) /\ Head(queue) \in Request /\ Head(queue) \in Elements(queue)
    BY <1>3, TailIs DEF Render, IInv, Dialogs
  <2>2. Asking(screen')
    BY <2>1 DEF IInv, Dialogs, DialogIsFloor
  <2>3. Types' /\ Remotes'
    BY <1>1, <2>1 DEF IInv, Types, Remotes, RemotesFollow, Unasked, Early
  <2>4. Drawn'
    BY <1>1, <1>3, <2>1, <2>2 DEF Drawn, Asking
  <2>5. Dialogs'
    BY <1>1, <2>4 DEF IInv, Dialogs, Distinct, DialogIsFloor, Asking
  <2> QED  BY <2>3, <2>5 DEF IInv
<1> QED  BY <1>2, <1>3

-----------------------------------------------------------------------------
(* The racers.                                                             *)

(* The race for r is won, by one that tells all sides.                     *)
LEMMA Wins ==
  ASSUME IInv, NEW r \in Request, Asking(r), Resolve(r), RemoveFromQueue(r),
         DismissRemotes(r), screen' = screen, swept' = swept
  PROVE  /\ pc' \in [Request -> Place]
         /\ prompt' \in [Request -> {"closed", "open", "replied"}] /\ heard' \subseteq Request
         /\ Dialogs' /\ Remotes'
<1>1. Dialogs' /\ Remotes'
  BY DialogLeaves, RemotesDismissed
<1> QED  BY <1>1 DEF IInv, Types, Resolve, DismissRemotes

LEMMA RemoteRepliesKeeps ==
  ASSUME IInv, NEW r \in Request, RemoteReplies(r)
  PROVE  IInv'
<1>1. UNCHANGED <<setup, pc, queue, screen, heard, hooks, granted, sees, due,
                  rechecked, aborted, over, swept>>
  BY DEF RemoteReplies
<1>2. prompt'[r] = "replied" /\ prompt[r] = "open" /\ \A q \in Request \ {r} : prompt'[q] = prompt[q]
  BY DEF RemoteReplies, IInv, Types
<1>3. Types'
  BY <1>1 DEF RemoteReplies, IInv, Types
<1>4. Dialogs'
  BY <1>1, DialogsKept
<1>5. Remotes'
  BY <1>1, <1>2 DEF IInv, Remotes, RemotesFollow, Unasked, Early
<1> QED  BY <1>3, <1>4, <1>5 DEF IInv

LEMMA BridgeResponseKeeps ==
  ASSUME IInv, NEW r \in Request, BridgeResponse(r)
  PROVE  IInv'
<1>1. /\ UNCHANGED <<setup, screen, hooks, sees, rechecked, swept>>
      /\ prompt' = [prompt EXCEPT ![r] = "closed"] /\ prompt[r] = "replied"
  BY DEF BridgeResponse
<1>2. CASE /\ Asking(r) /\ Resolve(r) /\ RemoveFromQueue(r) /\ heard' = heard \ {r}
           /\ HookDecides
  <2>1. DismissRemotes(r)
    BY <1>1, <1>2 DEF DismissRemotes
  <2> QED  BY <1>1, <1>2, <2>1, Wins, HookTypes DEF IInv, Types
<1>3. CASE UNCHANGED <<pc, queue, heard, granted, due, aborted, over>>
  <2>1. Types'
    BY <1>1, <1>3 DEF IInv, Types
  <2>2. Dialogs'
    BY <1>1, <1>3, DialogsKept
  <2>3. prompt'[r] = "closed" /\ \A q \in Request \ {r} : prompt'[q] = prompt[q]
    BY <1>1 DEF IInv, Types
  <2>4. Remotes'
    BY <1>3, <2>3 DEF IInv, Remotes, RemotesFollow, Unasked, Early
  <2> QED  BY <2>1, <2>2, <2>4 DEF IInv
<1> QED  BY <1>2, <1>3 DEF BridgeResponse, HookDecides

LEMMA ChannelResponseKeeps ==
  ASSUME IInv, NEW r \in Request, ChannelResponse(r)
  PROVE  IInv'
<1>1. /\ UNCHANGED <<setup, screen, hooks, granted, sees, due, rechecked, aborted, over, swept>>
      /\ Asking(r) /\ Resolve(r) /\ RemoveFromQueue(r) /\ DismissRemotes(r)
  BY DEF ChannelResponse
<1> QED  BY <1>1, Wins DEF IInv, Types

LEMMA HookEndsKeeps ==
  ASSUME IInv, NEW r \in Request, HookEnds(r)
  PROVE  IInv'
<1>1. UNCHANGED <<setup, screen, sees, rechecked, swept>> /\ hooks' \subseteq hooks
  BY DEF HookEnds
<1>2. CASE HookDecides /\ Asking(r) /\ Resolve(r) /\ RemoveFromQueue(r) /\ DismissRemotes(r)
  BY <1>1, <1>2, Wins, HookTypes DEF IInv, Types
<1>3. CASE /\ HookDecides \/ UNCHANGED <<granted, due, aborted, over>>
           /\ UNCHANGED <<pc, queue, prompt, heard>>
  <2>1. granted' \in BOOLEAN /\ due' \in BOOLEAN /\ aborted' \in BOOLEAN /\ over' \in BOOLEAN
    BY <1>3, HookTypes DEF IInv, Types
  <2>2. Types'
    BY <1>1, <1>3, <2>1 DEF IInv, Types
  <2> QED  BY <1>1, <1>3, <2>2, DialogsKept, RemotesKept DEF IInv
<1> QED  BY <1>2, <1>3 DEF HookEnds

LEMMA RecheckEndsKeeps ==
  ASSUME IInv, NEW r \in Request, RecheckEnds(r)
  PROVE  IInv'
<1>1. /\ UNCHANGED <<setup, screen, hooks, granted, sees, due, aborted, over, swept>>
      /\ rechecked' \subseteq rechecked
  BY DEF RecheckEnds
<1>2. CASE Asking(r) /\ Resolve(r) /\ RemoveFromQueue(r) /\ DismissRemotes(r)
  BY <1>1, <1>2, Wins DEF IInv, Types
<1>3. CASE UNCHANGED <<pc, queue, prompt, heard>>
  <2>1. Types'
    BY <1>1, <1>3 DEF IInv, Types
  <2> QED  BY <1>1, <1>3, <2>1, DialogsKept, RemotesKept DEF IInv
<1> QED  BY <1>2, <1>3 DEF RecheckEnds

(* A mode, the recheck's beginning, an abort: nothing that the invariant   *)
(* is about, but for the types.                                            *)
LEMMA OthersKeep ==
  ASSUME IInv, RemoteMode \/ RecheckQueue \/ SiblingFails
  PROVE  IInv'
<1>1. UNCHANGED <<setup, pc, queue, screen, prompt, heard, hooks, sees, over, swept>>
  BY DEF RemoteMode, RecheckQueue, SiblingFails, PersistPermissions
<1>2. granted' \in BOOLEAN /\ due' \in BOOLEAN /\ aborted' \in BOOLEAN
  BY DEF RemoteMode, RecheckQueue, SiblingFails, PersistPermissions, IInv, Types
<1>3. rechecked' \subseteq Request
  BY DEF RemoteMode, RecheckQueue, SiblingFails, PersistPermissions, IInv, Types,
         Dialogs, Elements
<1>4. Types'
  BY <1>1, <1>2, <1>3 DEF IInv, Types
<1> QED  BY <1>1, <1>4, DialogsKept, RemotesKept DEF IInv

LEMMA StutterKeeps ==
  ASSUME IInv, UNCHANGED vars
  PROVE  IInv'
<1>1. Types'
  BY DEF vars, IInv, Types
<1> QED  BY <1>1, DialogsKept, RemotesKept DEF vars, IInv

LEMMA NextKeeps == IInv /\ [Next]_vars => IInv'
<1> SUFFICES ASSUME IInv, [Next]_vars  PROVE IInv'
  OBVIOUS
<1>1. ASSUME NEW r \in Request, Ask(r) \/ Checked(r) \/ Automated(r) \/ OpenDialog(r)
      PROVE  IInv'
  BY <1>1, AskKeeps, CheckedKeeps, AutomatedKeeps, OpenDialogKeeps
<1>2. ASSUME NEW r \in Request,
             \/ RemoteReplies(r) \/ BridgeResponse(r) \/ ChannelResponse(r)
             \/ HookEnds(r) \/ RecheckEnds(r)
      PROVE  IInv'
  BY <1>2, RemoteRepliesKeeps, BridgeResponseKeeps, ChannelResponseKeeps, HookEndsKeeps,
     RecheckEndsKeeps
<1> QED  BY <1>1, <1>2, KeyKeeps, CancelKeeps, RenderKeeps, OthersKeep, StutterKeeps DEF Next

-----------------------------------------------------------------------------
LEMMA AlwaysIInv == Spec => []IInv
<1> QED  BY InitIInv, NextKeeps, PTL DEF Spec

(* useCanUseTool: the states of the requests, of their dialogs and of the  *)
(* other sides are those that the model names; no dialog is queued twice.  *)
THEOREM Typing == Spec => []TypeOK
<1> QED  BY AlwaysIInv, InvImplies, PTL

(* handleInteractivePermission: whoever is faster or slower, an unanswered *)
(* request has its dialog in the queue and an answered one has none,       *)
(* except for those that Escape or a late key removed.                     *)
THEOREM DialogAlwaysFloor == Spec => []DialogIsFloor
<1> QED  BY AlwaysIInv, InvImplies, PTL

(* handleInteractivePermission: the remote session and the channels are    *)
(* told of every answer that is given elsewhere.                           *)
THEOREM RemotesAlwaysFollow == Spec => []RemotesFollow
<1> QED  BY AlwaysIInv, InvImplies, PTL
=============================================================================
