---------------------------- MODULE LearnSession ----------------------------
(***************************************************************************)
(* Learning a button: the learn session and the remotes API of             *)
(* backend/server.js, and the edit dialog of frontend/app.js that drives   *)
(* them.                                                                   *)
(*                                                                         *)
(* The backend is one event loop, so each handler, timer or MQTT message   *)
(* is one action.  A page awaits every HTTP answer and meanwhile gets      *)
(* WebSocket pushes over another connection, so an answer and a push can   *)
(* overtake each other.  The hub's captures come one by one through the    *)
(* broker.  Signals are numbered by key press, 0 being no signal; one      *)
(* remote stands for all.  A page has at most one request under way here.  *)
(* learn-armed and raw-signal pushes, which no page handles, are left out. *)
(***************************************************************************)
EXTENDS Naturals, Sequences, Functions

CONSTANTS
  Clients, Buttons, None,
  MaxArms,      \* bound: POST /api/learn requests served
  MaxPresses,   \* bound: keys pressed at the hub
  MaxEdits,     \* bound: layout edits sent
  MaxFailures   \* bound: page reloads, lost connections and backend restarts

ASSUME LearnConstants ==
  /\ None \notin Buttons /\ None \notin [button : Buttons, arm : 1 .. MaxArms]
  /\ {MaxArms, MaxPresses, MaxEdits, MaxFailures} \subseteq Nat

VARIABLES
  stored,    \* the remote's buttons in db.json and their signals
  session,   \* learnSession: its button and the number of its arming, or None
  timers,    \* the timeouts set by /api/learn that can still fire
  learned,   \* captures on their way from the hub
  push,      \* per page: learn-result messages on its WebSocket
  req,       \* per page: the request under way
  modal,     \* per page: the button of modalCtx, or None
  learning,  \* per page: state.learning
  copy,      \* per page: the buttons of state.remotes
  arms, presses, edits, failures,  \* what the bounds count
  results    \* ghost: how often each arming was answered

serverVars == <<stored, session, timers, arms, results>>
pageVars   == <<modal, learning, copy>>
vars == <<serverVars, pageVars, learned, push, req, presses, edits, failures>>

Signals == 0 .. MaxPresses
Layouts == UNION {[B -> Signals] : B \in SUBSET Buttons}
Armed   == [button : Buttons, arm : 1 .. MaxArms]
NoReq   == [kind |-> "none", served |-> FALSE, button |-> None, layout |-> <<>>, arm |-> 0]
Kinds   == {"none", "load", "arm", "cancel", "save", "edit"}
Reqs    == [kind : Kinds, served : BOOLEAN, button : Buttons \cup {None}, layout : Layouts,
            arm : 0 .. MaxArms]
Results == [button : Buttons, arm : 1 .. MaxArms, signal : Signals]

Init ==
  /\ stored = [b \in Buttons |-> 0] /\ copy = [c \in Clients |-> stored]
  /\ session = None /\ timers = {} /\ learned = <<>>
  /\ push = [c \in Clients |-> <<>>] /\ req = [c \in Clients |-> NoReq]
  /\ modal = [c \in Clients |-> None] /\ learning = [c \in Clients |-> FALSE]
  /\ arms = 0 /\ presses = 0 /\ edits = 0 /\ failures = 0
  /\ results = [a \in 1 .. MaxArms |-> 0]

-----------------------------------------------------------------------------
(* The backend                                                             *)

Broadcast(m) == push' = [c \in Clients |-> Append(push[c], m)]

(* Mutant: a learn-result without its signal.                              *)
ResultBare(s, signal) == [button |-> s.button, arm |-> s.arm]

(* A learn-result; signal 0 says that learning failed.                     *)
Result(s, signal) == [button |-> s.button, arm |-> s.arm, signal |-> signal]
Answer(s, signal) ==
  /\ Broadcast(Result(s, signal))
  /\ results' = [results EXCEPT ![s.arm] = @ + 1]

(* Mutant: the session's timeout is not cancelled.                         *)
ClearSessionOnly == session' = None /\ UNCHANGED timers

ClearLearnSession ==
  /\ session' = None
  /\ timers' = IF session = None THEN timers ELSE timers \ {session}

(* Mutant: a session is armed without its timeout.                         *)
ServeArmForever(c) ==
  /\ req[c].kind = "arm" /\ ~req[c].served /\ req[c].button \in DOMAIN stored
  /\ arms < MaxArms /\ arms' = arms + 1
  /\ session' = [button |-> req[c].button, arm |-> arms']
  /\ timers' = timers \ {session}
  /\ req' = [req EXCEPT ![c].served = TRUE, ![c].arm = arms']
  /\ UNCHANGED <<stored, results, push>>

(* POST /api/learn: a new session replaces any other, whoever armed it.    *)
ServeArm(c) ==
  /\ req[c].kind = "arm" /\ ~req[c].served /\ req[c].button \in DOMAIN stored
  /\ arms < MaxArms /\ arms' = arms + 1
  /\ session' = [button |-> req[c].button, arm |-> arms']
  /\ timers' = (IF session = None THEN timers ELSE timers \ {session}) \cup {session'}
  /\ req' = [req EXCEPT ![c].served = TRUE, ![c].arm = arms']
  /\ UNCHANGED <<stored, results, push>>

(* 404; the page only shows an error.                                      *)
RefuseArm(c) ==
  /\ req[c].kind = "arm" /\ ~req[c].served /\ req[c].button \notin DOMAIN stored
  /\ req' = [req EXCEPT ![c] = NoReq]
  /\ UNCHANGED <<serverVars, push>>

(* DELETE /api/learn                                                       *)
ServeCancel(c) ==
  /\ req[c].kind = "cancel" /\ ~req[c].served
  /\ ClearLearnSession
  /\ req' = [req EXCEPT ![c].served = TRUE]
  /\ UNCHANGED <<stored, arms, results, push>>

(* Mutant: the posted buttons are stored as they are.                      *)
ServeLayoutAsPosted(c) ==
  /\ req[c].kind \in {"save", "edit"} /\ ~req[c].served
  /\ stored' = req[c].layout
  /\ req' = [req EXCEPT ![c].served = TRUE]
  /\ UNCHANGED <<session, timers, arms, results, push>>

(* POST /api/remotes: the posted buttons replace the stored ones; a button *)
(* posted without a signal keeps the stored one.                           *)
ServeLayout(c) ==
  /\ req[c].kind \in {"save", "edit"} /\ ~req[c].served
  /\ LET posted == req[c].layout
         signal(b) == IF posted[b] # 0 THEN posted[b]
                      ELSE IF b \in DOMAIN stored THEN stored[b] ELSE 0
     IN  /\ stored' = [b \in DOMAIN posted |-> signal(b)]
         /\ req' = [req EXCEPT ![c].served = TRUE, ![c].layout = stored']
  /\ UNCHANGED <<session, timers, arms, results, push>>

(* GET /api/remotes                                                        *)
ServeLoad(c) ==
  /\ req[c].kind = "load" /\ ~req[c].served
  /\ req' = [req EXCEPT ![c].served = TRUE, ![c].layout = stored]
  /\ UNCHANGED <<serverVars, push>>

Serve(c) ==
  /\ ServeArm(c) \/ RefuseArm(c) \/ ServeCancel(c) \/ ServeLayout(c) \/ ServeLoad(c)
  /\ UNCHANGED <<pageVars, learned, presses, edits, failures>>

(* LEARN_TIMEOUT_MS passed.                                                *)
Timeout(t) ==
  /\ Answer(t, 0)
  /\ session' = None
  /\ timers' = timers \ {t, session}
  /\ UNCHANGED <<stored, arms, pageVars, learned, req, presses, edits, failures>>

(* Mutant: the session stays open when its target is gone.                 *)
TargetGoneStays ==
  /\ session # None /\ session.button \notin DOMAIN stored
  /\ Answer(session, 0)
  /\ UNCHANGED <<stored, session, timers>>

(* irhub/learned: the next capture goes to the button of the session.      *)
LearnSignal ==
  /\ session # None /\ session.button \in DOMAIN stored
  /\ stored' = [stored EXCEPT ![session.button] = Head(learned)]
  /\ Answer(session, Head(learned))
  /\ ClearLearnSession

TargetGone ==
  /\ session # None /\ session.button \notin DOMAIN stored
  /\ Answer(session, 0)
  /\ ClearLearnSession
  /\ UNCHANGED stored

NotLearning ==
  /\ session = None
  /\ UNCHANGED <<stored, session, timers, results, push>>

OnLearned ==
  /\ learned # <<>> /\ learned' = Tail(learned)
  /\ LearnSignal \/ TargetGone \/ NotLearning
  /\ UNCHANGED <<arms, pageVars, req, presses, edits, failures>>

(* The process stops and starts again: the session, the connections and,   *)
(* with a clean MQTT session, the captures under way are gone.             *)
Restart ==
  /\ failures < MaxFailures /\ failures' = failures + 1
  /\ session' = None /\ timers' = {} /\ learned' = <<>>
  /\ push' = [c \in Clients |-> <<>>]
  /\ req' = [c \in Clients |-> IF req[c].kind = "cancel" THEN [req[c] EXCEPT !.served = TRUE]
                               ELSE NoReq]
  /\ UNCHANGED <<stored, arms, results, pageVars, presses, edits>>

-----------------------------------------------------------------------------
(* A page                                                                  *)

OpenEditModal(c, b) ==
  /\ modal[c] = None /\ b \in DOMAIN copy[c]
  /\ modal' = [modal EXCEPT ![c] = b]
  /\ UNCHANGED <<learning, copy, req, push, edits, failures>>

(* The session at the backend stays armed.                                 *)
CloseModal(c) ==
  /\ modal[c] # None
  /\ modal' = [modal EXCEPT ![c] = None]
  /\ learning' = [learning EXCEPT ![c] = FALSE]
  /\ UNCHANGED <<copy, req, push, edits, failures>>

Ask(c, r) == req[c] = NoReq /\ req' = [req EXCEPT ![c] = r]

(* "Learn Signal" arms, and pressed again while learning cancels.          *)
ClickLearn(c) ==
  /\ modal[c] # None
  /\ Ask(c, [NoReq EXCEPT !.kind = IF learning[c] THEN "cancel" ELSE "arm",
                          !.button = modal[c]])
  /\ UNCHANGED <<pageVars, push, edits, failures>>

(* Saving the label and deleting the button post the page's whole copy, as *)
(* does renaming the remote ("edit"), or adding a button to it.            *)
PostLayout(c, kind, layout) ==
  /\ edits < MaxEdits /\ edits' = edits + 1
  /\ Ask(c, [NoReq EXCEPT !.kind = kind, !.layout = layout])
  /\ UNCHANGED <<pageVars, push, failures>>

SaveLabel(c) == modal[c] # None /\ PostLayout(c, "save", copy[c])

DeleteButton(c) ==
  modal[c] # None /\ PostLayout(c, "save", Restrict(copy[c], DOMAIN copy[c] \ {modal[c]}))

RenameRemote(c) == PostLayout(c, "edit", copy[c])

(* boot: the remotes are fetched, then the WebSocket is opened.            *)
Reload(c) ==
  /\ failures < MaxFailures /\ failures' = failures + 1
  /\ req' = [req EXCEPT ![c] = [NoReq EXCEPT !.kind = "load"]]
  /\ modal' = [modal EXCEPT ![c] = None] /\ learning' = [learning EXCEPT ![c] = FALSE]
  /\ copy' = [copy EXCEPT ![c] = <<>>]
  /\ UNCHANGED <<push, edits>>

(* The answers.                                                            *)
ArmAnswered(c) ==
  /\ req[c].kind = "arm" /\ req[c].served
  /\ req' = [req EXCEPT ![c] = NoReq]
  /\ learning' = [learning EXCEPT ![c] = TRUE]
  /\ UNCHANGED <<modal, copy, push, edits, failures>>

CancelAnswered(c) ==
  /\ req[c].kind = "cancel" /\ req[c].served
  /\ req' = [req EXCEPT ![c] = NoReq]
  /\ learning' = [learning EXCEPT ![c] = FALSE]
  /\ UNCHANGED <<modal, copy, push, edits, failures>>

LayoutAnswered(c) ==
  /\ req[c].kind \in {"save", "edit"} /\ req[c].served
  /\ copy' = [copy EXCEPT ![c] = req[c].layout]
  /\ req' = [req EXCEPT ![c] = NoReq]
  /\ IF req[c].kind = "save"
     THEN modal' = [modal EXCEPT ![c] = None] /\ learning' = [learning EXCEPT ![c] = FALSE]
     ELSE UNCHANGED <<modal, learning>>
  /\ UNCHANGED <<push, edits, failures>>

Loaded(c) ==
  /\ req[c].kind = "load" /\ req[c].served
  /\ copy' = [copy EXCEPT ![c] = req[c].layout]
  /\ req' = [req EXCEPT ![c] = NoReq] /\ push' = [push EXCEPT ![c] = <<>>]
  /\ UNCHANGED <<modal, learning, edits, failures>>

(* onLearnResult: ignored unless the page is learning.                     *)
IgnoreResult(c) ==
  /\ push[c] # <<>> /\ ~learning[c]
  /\ push' = [push EXCEPT ![c] = Tail(@)]
  /\ UNCHANGED <<pageVars, req, edits, failures>>

TakeResult(c) ==
  /\ push[c] # <<>> /\ learning[c]
  /\ push' = [push EXCEPT ![c] = Tail(@)]
  /\ learning' = [learning EXCEPT ![c] = FALSE]
  /\ LET m == Head(push[c])
     IN  copy' = IF m.signal # 0 /\ m.button \in DOMAIN copy[c]
                 THEN [copy EXCEPT ![c][m.button] = m.signal] ELSE copy
  /\ UNCHANGED <<modal, req, edits, failures>>

(* The WebSocket closes; the page opens a new one and asks for nothing it  *)
(* may have missed.                                                        *)
WsLost(c) ==
  /\ failures < MaxFailures /\ failures' = failures + 1
  /\ push' = [push EXCEPT ![c] = <<>>]
  /\ UNCHANGED <<pageVars, req, edits>>

Page(c) ==
  /\ \/ \E b \in Buttons : OpenEditModal(c, b)
     \/ CloseModal(c) \/ ClickLearn(c) \/ SaveLabel(c) \/ DeleteButton(c)
     \/ RenameRemote(c) \/ Reload(c)
     \/ ArmAnswered(c) \/ CancelAnswered(c) \/ LayoutAnswered(c) \/ Loaded(c)
     \/ IgnoreResult(c) \/ TakeResult(c) \/ WsLost(c)
  /\ UNCHANGED <<serverVars, learned, presses>>

-----------------------------------------------------------------------------
(* Somebody presses a key at the hub, learning or not; a capture sent      *)
(* while the backend has no connection to the broker is lost.              *)
Press ==
  /\ presses < MaxPresses /\ presses' = presses + 1
  /\ learned' \in {Append(learned, presses'), learned}
  /\ UNCHANGED <<serverVars, pageVars, push, req, edits, failures>>

Next ==
  \/ \E c \in Clients : Serve(c) \/ Page(c)
  \/ \E t \in timers : Timeout(t)
  \/ OnLearned \/ Restart \/ Press

Spec == Init /\ [][Next]_vars

(* Only the backend's timer is assumed to fire.                            *)
FairSpec == Spec /\ WF_vars(\E t \in timers : Timeout(t))

-----------------------------------------------------------------------------
TypeOK ==
  /\ stored \in Layouts /\ session \in Armed \cup {None} /\ timers \subseteq Armed
  /\ learned \in Seq(Signals) /\ arms \in 0 .. MaxArms /\ presses \in Signals
  /\ edits \in 0 .. MaxEdits /\ failures \in 0 .. MaxFailures
  /\ results \in [1 .. MaxArms -> Nat]
  /\ copy \in [Clients -> Layouts] /\ modal \in [Clients -> Buttons \cup {None}]
  /\ learning \in [Clients -> BOOLEAN] /\ req \in [Clients -> Reqs]
  /\ push \in [Clients -> Seq(Results)]

(* The one timeout that can fire is the one of the session there is: no    *)
(* re-arming, cancelling, result or restart leaves one behind that would   *)
(* end somebody else's session.                                            *)
TimerIsTheSessions == timers = IF session = None THEN {} ELSE {session}

(* An arming is answered with one learn-result at most, a session that is  *)
(* still open with none, however timeout, capture, cancel and re-arming    *)
(* fall together.                                                          *)
OneResultPerArm ==
  /\ \A a \in 1 .. MaxArms : results[a] <= 1
  /\ session # None => results[session.arm] = 0

(* The backend's timeout ends every session: learn mode is never left on.  *)
SessionsEnd == \A a \in 1 .. MaxArms :
  (session # None /\ session.arm = a) ~> ~(session # None /\ session.arm = a)

(* A button that has a signal and stays on its remote keeps one, although  *)
(* pages post layouts from before it was learned.                          *)
LearnedStaysLearned ==
  [][\A b \in DOMAIN stored \cap DOMAIN stored' : stored[b] # 0 => stored'[b] # 0]_vars
=============================================================================
