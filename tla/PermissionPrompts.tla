-------------------------- MODULE PermissionPrompts --------------------------
(***************************************************************************)
(* How the tool calls of a turn obtain their permissions                   *)
(* (hooks/useCanUseTool.tsx, hooks/toolPermission): every call that is not *)
(* decided by rules opens a dialog, and the user's keys, hooks, the remote *)
(* session, chat channels and rules granted meanwhile race to answer it.   *)
(*                                                                         *)
(* An action is what one callback does.  React applies the updates of the  *)
(* dialogs' queue at once but draws later, so a key may hit a dialog that  *)
(* has been answered elsewhere.                                            *)
(***************************************************************************)
EXTENDS Lines, FiniteSets

CONSTANTS
  Request,  \* permission requests: tool calls of one turn
  Setups    \* sets of racers besides the dialog that a session may have

(* "hooks": PermissionRequest hooks; "first": they are awaited before the  *)
(* dialog opens (coordinators); "bridge": a remote session is connected;   *)
(* "channel": a chat channel relays permissions.                           *)
None == "none"

ASSUME PromptsAssumption ==
  /\ IsFiniteSet(Request) /\ None \notin Request
  /\ Setups \subseteq SUBSET {"hooks", "first", "bridge", "channel"}

VARIABLES
  setup,      \* config: the racers there are
  pc,         \* where each request stands, see Place
  queue,      \* toolUseConfirmQueue: the open dialogs
  screen,     \* the request whose dialog is drawn, or None
  prompt,     \* prompt[r]: the remote prompt: "closed", "open", "replied"
  heard,      \* requests whose entry a channel reply would find
  hooks,      \* requests with a PermissionRequest hook under way
  granted,    \* a rule that matches every request has been granted
  sees,       \* requests whose first check began after that
  due,        \* a recheck of the queued requests is scheduled
  rechecked,  \* requests whose recheck is under way and will allow them
  aborted,    \* the abort signal of the turn's calls
  over,       \* the turn's own signal is aborted, or was forgotten
  swept       \* history: dialogs removed unanswered, by Escape or by a late key

vars == <<setup, pc, queue, screen, prompt, heard, hooks, granted, sees, due,
          rechecked, aborted, over, swept>>

Place == {"new", "checking", "automated", "opening", "asking", "done"}

TypeOK ==
  /\ setup \in Setups
  /\ pc \in [Request -> Place]
  /\ queue \in Seq(Request) /\ Len(queue) <= Cardinality(Request)
  /\ screen \in Request \cup {None}
  /\ prompt \in [Request -> {"closed", "open", "replied"}]
  /\ heard \subseteq Request /\ hooks \subseteq Request
  /\ sees \subseteq Request /\ rechecked \subseteq Request /\ swept \subseteq Request
  /\ granted \in BOOLEAN /\ due \in BOOLEAN /\ aborted \in BOOLEAN /\ over \in BOOLEAN

Init ==
  /\ setup \in Setups
  /\ pc = [r \in Request |-> "new"] /\ queue = <<>> /\ screen = None
  /\ prompt = [r \in Request |-> "closed"] /\ heard = {} /\ hooks = {}
  /\ granted = FALSE /\ sees = {} /\ due = FALSE /\ rechecked = {}
  /\ aborted = FALSE /\ over = FALSE /\ swept = {}

-----------------------------------------------------------------------------
Resolve(r) == pc' = [pc EXCEPT ![r] = "done"]
Asking(r)  == pc[r] = "asking"

(* No chain of microtasks is under way: the event loop turns.              *)
LoopTurns == \A r \in Request : pc[r] # "opening"

(* cancelAndAbort aborts the signal of its call, from where it reaches the *)
(* turn, unless it is aborted already.                                     *)
CancelAndAbort == aborted' = TRUE /\ over' = (over \/ ~aborted)

(* persistPermissions: the rule holds, and the queue is to be rechecked.   *)
PersistPermissions == granted' = TRUE /\ due' = TRUE

NoRule  == UNCHANGED <<granted, due>>
NoAbort == UNCHANGED <<aborted, over>>

(* Fault: the dialog is pushed twice.                                      *)
OpenTwice(r) ==
  /\ pc' = [pc EXCEPT ![r] = "asking"]
  /\ queue' = queue \o <<r, r>>
  /\ prompt' = IF "bridge" \in setup THEN [prompt EXCEPT ![r] = "open"] ELSE prompt
  /\ heard' = IF "channel" \in setup THEN heard \cup {r} ELSE heard
  /\ hooks' = IF "hooks" \in setup /\ "first" \notin setup THEN hooks \cup {r} ELSE hooks

(* handleInteractivePermission: the dialog opens and the race begins.      *)
Open(r) ==
  /\ pc' = [pc EXCEPT ![r] = "asking"]
  /\ queue' = Append(queue, r)
  /\ prompt' = IF "bridge" \in setup THEN [prompt EXCEPT ![r] = "open"] ELSE prompt
  /\ heard' = IF "channel" \in setup THEN heard \cup {r} ELSE heard
  /\ hooks' = IF "hooks" \in setup /\ "first" \notin setup THEN hooks \cup {r} ELSE hooks

(* Fault: the remote prompt is left open.                                  *)
KeepRemotes(r) == prompt' = prompt /\ heard' = heard \ {r}

(* What the winner of a race tells the other sides.                        *)
DismissRemotes(r) ==
  /\ prompt' = [prompt EXCEPT ![r] = "closed"]
  /\ heard' = heard \ {r}

(* Fault: the dialog drawn first is removed, whoever it belongs to.        *)
RemoveHead(r) == queue' = IF queue = <<>> THEN queue ELSE Tail(queue)

RemoveFromQueue(r) == queue' = Filter(queue, Request \ {r})

-----------------------------------------------------------------------------
(* canUseTool is called; hasPermissionsToUseTool begins.                   *)
Ask(r) ==
  /\ pc[r] = "new"
  /\ IF aborted THEN CancelAndAbort /\ Resolve(r) /\ UNCHANGED sees
     ELSE /\ pc' = [pc EXCEPT ![r] = "checking"]
          /\ sees' = IF granted THEN sees \cup {r} ELSE sees
          /\ NoAbort
  /\ UNCHANGED <<setup, queue, screen, prompt, heard, hooks, granted, due,
                 rechecked, swept>>

(* resolveIfAborted, when the automated checks are over.  A request that   *)
(* goes on waits for handleSwarmWorkerPermission, which has nothing to do  *)
(* outside a teammate's process; nobody looks at the signal after that.    *)
(* The wait takes microtasks only: other chains of awaits come in between, *)
(* keys, timers and messages do not.                                       *)
ResolveIfAborted(r) ==
  \/ aborted /\ CancelAndAbort /\ Resolve(r)
  \/ ~aborted /\ NoAbort /\ pc' = [pc EXCEPT ![r] = "opening"]

(* The check ends: it throws; the rules decide; or somebody has to.        *)
Checked(r) ==
  /\ pc[r] = "checking"
  /\ \/ CancelAndAbort /\ Resolve(r)
     \/ Resolve(r) /\ IF aborted THEN CancelAndAbort ELSE NoAbort
     \/ r \notin sees /\ "first" \notin setup /\ ResolveIfAborted(r)
     \/ /\ r \notin sees /\ "first" \in setup /\ ~aborted
        /\ pc' = [pc EXCEPT ![r] = "automated"]
        /\ NoAbort
  /\ UNCHANGED <<setup, queue, screen, prompt, heard, hooks, granted, sees, due,
                 rechecked, swept>>

(* What a hook does before its decision is returned: it allows, perhaps    *)
(* with a rule, or denies, perhaps interrupting the turn.                  *)
HookDecides ==
  \/ NoRule /\ NoAbort
  \/ PersistPermissions /\ NoAbort
  \/ CancelAndAbort /\ NoRule

(* handleCoordinatorPermission: hooks decide, or do not.                   *)
Automated(r) ==
  /\ pc[r] = "automated"
  /\ \/ "hooks" \in setup /\ HookDecides /\ Resolve(r)
     \/ ResolveIfAborted(r) /\ NoRule
  /\ UNCHANGED <<setup, queue, screen, prompt, heard, hooks, sees, rechecked, swept>>

(* The hop is over: the dialog opens, aborted or not.                      *)
OpenDialog(r) ==
  /\ pc[r] = "opening"
  /\ Open(r)
  /\ UNCHANGED <<setup, screen, granted, sees, due, rechecked, aborted, over, swept>>

-----------------------------------------------------------------------------
(* The dialog drawn gets an answer.  Its onDone removes the first dialog   *)
(* of the queue, even if this one was answered elsewhere and is gone.      *)
Key ==
  /\ LoopTurns /\ screen # None
  /\ \/ /\ Asking(screen)
        /\ Resolve(screen) /\ DismissRemotes(screen)
        /\ \/ NoRule /\ NoAbort               \* allowed; rejected with feedback
           \/ PersistPermissions /\ NoAbort   \* "don't ask again"
           \/ CancelAndAbort /\ NoRule        \* rejected
     \/ /\ ~Asking(screen)
        /\ UNCHANGED <<pc, prompt, heard, granted, due, aborted, over>>
  /\ queue' = IF queue = <<>> THEN queue ELSE Tail(queue)
  /\ swept' = IF queue = <<>> THEN swept ELSE swept \cup ({Head(queue)} \ {screen})
  /\ UNCHANGED <<setup, screen, hooks, sees, rechecked>>

(* Escape: the dialog drawn is told to abort, the others are removed.      *)
Cancel ==
  /\ LoopTurns /\ ~over
  /\ \/ /\ screen # None /\ Asking(screen)
        /\ Resolve(screen) /\ DismissRemotes(screen)
        /\ aborted' = TRUE
     \/ /\ screen # None /\ ~Asking(screen)
        /\ UNCHANGED <<pc, prompt, heard, aborted>>
     \/ /\ screen = None
        /\ aborted' = TRUE
        /\ UNCHANGED <<pc, prompt, heard>>
  /\ over' = TRUE
  /\ queue' = <<>>
  /\ swept' = swept \cup (Elements(queue) \ {screen})
  /\ UNCHANGED <<setup, screen, hooks, granted, sees, due, rechecked>>

Render ==
  /\ screen' = IF queue = <<>> THEN None ELSE Head(queue)
  /\ screen' # screen
  /\ UNCHANGED <<setup, pc, queue, prompt, heard, hooks, granted, sees, due,
                 rechecked, aborted, over, swept>>

-----------------------------------------------------------------------------
(* The remote user answers; the reply is on its way.                       *)
RemoteReplies(r) ==
  /\ prompt[r] = "open"
  /\ prompt' = [prompt EXCEPT ![r] = "replied"]
  /\ UNCHANGED <<setup, pc, queue, screen, heard, hooks, granted, sees, due,
                 rechecked, aborted, over, swept>>

(* The reply arrives, and counts if nobody was faster and the subscription *)
(* has not ended with the turn.                                            *)
BridgeResponse(r) ==
  /\ LoopTurns /\ prompt[r] = "replied"
  /\ \/ /\ Asking(r) /\ ~aborted
        /\ Resolve(r) /\ RemoveFromQueue(r) /\ heard' = heard \ {r}
        /\ \/ NoRule /\ NoAbort
           \/ PersistPermissions /\ NoAbort
           \/ CancelAndAbort /\ NoRule
     \/ /\ ~Asking(r) \/ aborted
        /\ UNCHANGED <<pc, queue, heard, granted, due, aborted, over>>
  /\ prompt' = [prompt EXCEPT ![r] = "closed"]
  /\ UNCHANGED <<setup, screen, hooks, sees, rechecked, swept>>

(* A channel says yes or no; a no has a message and does not abort.        *)
ChannelResponse(r) ==
  /\ LoopTurns /\ r \in heard /\ ~aborted
  /\ Asking(r)
  /\ Resolve(r) /\ RemoveFromQueue(r) /\ DismissRemotes(r)
  /\ UNCHANGED <<setup, screen, hooks, granted, sees, due, rechecked, aborted,
                 over, swept>>

(* A hook ends.  Its rules are stored and its interrupt is made before it  *)
(* is known whether it won.                                                *)
HookEnds(r) ==
  /\ r \in hooks /\ hooks' = hooks \ {r}
  /\ \/ UNCHANGED <<pc, queue, prompt, heard, granted, due, aborted, over>>
     \/ /\ HookDecides
        /\ \/ Asking(r) /\ Resolve(r) /\ RemoveFromQueue(r) /\ DismissRemotes(r)
           \/ ~Asking(r) /\ UNCHANGED <<pc, queue, prompt, heard>>
  /\ UNCHANGED <<setup, screen, sees, rechecked, swept>>

(* The remote session switches to a mode that allows the requests.         *)
RemoteMode ==
  /\ LoopTurns /\ "bridge" \in setup /\ ~granted
  /\ PersistPermissions
  /\ UNCHANGED <<setup, pc, queue, screen, prompt, heard, hooks, sees,
                 rechecked, aborted, over, swept>>

(* Fault: only the first of the queued requests is looked at.              *)
RecheckFirst ==
  /\ LoopTurns /\ due /\ due' = FALSE
  /\ rechecked' = IF aborted \/ queue = <<>> THEN rechecked
                  ELSE rechecked \cup {Head(queue)}
  /\ UNCHANGED <<setup, pc, queue, screen, prompt, heard, hooks, granted, sees,
                 aborted, over, swept>>

(* The scheduled recheck of all queued requests.  The check of an aborted  *)
(* one throws, and changes nothing.                                        *)
RecheckQueue ==
  /\ LoopTurns /\ due /\ due' = FALSE
  /\ rechecked' = IF aborted THEN rechecked
                  ELSE rechecked \cup {r \in Elements(queue) : Asking(r)}
  /\ UNCHANGED <<setup, pc, queue, screen, prompt, heard, hooks, granted, sees,
                 aborted, over, swept>>

(* Fault: the dialog is removed, and the call is not answered.             *)
RecheckForgets(r) ==
  /\ r \in rechecked /\ rechecked' = rechecked \ {r}
  /\ \/ Asking(r) /\ RemoveFromQueue(r) /\ DismissRemotes(r) /\ UNCHANGED pc
     \/ ~Asking(r) /\ UNCHANGED <<pc, queue, prompt, heard>>
  /\ UNCHANGED <<setup, screen, hooks, granted, sees, due, aborted, over, swept>>

(* recheckPermission, once its check is done.                              *)
RecheckEnds(r) ==
  /\ r \in rechecked /\ rechecked' = rechecked \ {r}
  /\ \/ Asking(r) /\ Resolve(r) /\ RemoveFromQueue(r) /\ DismissRemotes(r)
     \/ ~Asking(r) /\ UNCHANGED <<pc, queue, prompt, heard>>
  /\ UNCHANGED <<setup, screen, hooks, granted, sees, due, aborted, over, swept>>

(* A sibling of the calls fails: their signals, but not the turn's.        *)
SiblingFails ==
  /\ ~aborted /\ aborted' = TRUE
  /\ UNCHANGED <<setup, pc, queue, screen, prompt, heard, hooks, granted, sees,
                 due, rechecked, over, swept>>

-----------------------------------------------------------------------------
Next ==
  \/ \E r \in Request :
       \/ Ask(r) \/ Checked(r) \/ Automated(r) \/ OpenDialog(r)
       \/ RemoteReplies(r) \/ BridgeResponse(r) \/ ChannelResponse(r)
       \/ HookEnds(r) \/ RecheckEnds(r)
  \/ Key \/ Cancel \/ Render \/ RemoteMode \/ RecheckQueue \/ SiblingFails

(* Checks, hooks before the dialog and scheduled callbacks end, and React  *)
(* draws; nobody has to answer.                                            *)
Fairness ==
  /\ \A r \in Request : /\ WF_vars(Checked(r)) /\ WF_vars(Automated(r))
                        /\ WF_vars(OpenDialog(r)) /\ WF_vars(RecheckEnds(r))
  /\ WF_vars(RecheckQueue) /\ WF_vars(Render)

Spec == Init /\ [][Next]_vars /\ Fairness

-----------------------------------------------------------------------------
(* "The local dialog is always there as the floor": a request has a dialog *)
(* in the queue exactly while it is unanswered, whoever else answers,      *)
(* except for those that Escape or a late key removed.                     *)
DialogIsFloor ==
  /\ \A r \in Request : Asking(r) /\ r \notin swept => r \in Elements(queue)
  /\ \A r \in Elements(queue) : Asking(r)

(* No side is left with a question that has been answered: once somebody   *)
(* has, the remote prompt is closed and a channel's reply finds no entry.  *)
RemotesFollow ==
  \A r \in Request : pc[r] = "done" => prompt[r] # "open" /\ r \notin heard

(* "Verify the request wasn't aborted while we were waiting; without this  *)
(* check, a stale dialog could appear": none opens after an abort.         *)
NoDialogAfterAbort == [][aborted => Elements(queue') \subseteq Elements(queue)]_vars

(* "Approving item1 with 'don't ask again' should auto-approve other       *)
(* queued items": a request queued when the recheck is due is answered     *)
(* although the user does nothing.                                         *)
GrantReachesQueue ==
  \A r \in Request : (due /\ r \in Elements(queue)) ~> (pc[r] = "done" \/ aborted \/ r \in swept)

(* Every request ends if the user answers the dialogs that are drawn.      *)
UserAnswers == WF_vars(Key)

EveryRequestEnds ==
  UserAnswers => \A r \in Request : pc[r] # "new" ~> (pc[r] = "done" \/ r \in swept)
=============================================================================
