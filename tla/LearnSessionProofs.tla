------------------------- MODULE LearnSessionProofs -------------------------
(* Theorems about LearnSession: its types, the timeout and the results of   *)
(* the learn session.                                                      *)
EXTENDS LearnSession, TLAPS

(* A layout is a function from some of the buttons to signals.             *)
LEMMA LayoutIs == ASSUME NEW B \in SUBSET Buttons, NEW f \in [B -> Signals] PROVE f \in Layouts
BY DEF Layouts

LEMMA LayoutHas ==
  ASSUME NEW f \in Layouts
  PROVE  DOMAIN f \in SUBSET Buttons /\ f \in [DOMAIN f -> Signals]
BY DEF Layouts

LEMMA EmptyLayout == <<>> \in Layouts
<1>1. <<>> \in [{} -> Signals]
  OBVIOUS
<1>. QED BY <1>1, LayoutIs

LEMMA NoReqIsReq == NoReq \in Reqs
BY EmptyLayout, LearnConstants DEF NoReq, Reqs, Kinds

-----------------------------------------------------------------------------
(* The types.                                                              *)

LEMMA InitTypeOK == Init => TypeOK
<1>. SUFFICES ASSUME Init PROVE TypeOK
  OBVIOUS
<1>1. 0 \in Signals
  BY LearnConstants DEF Signals
<1>2. stored \in Layouts
  BY <1>1, LayoutIs DEF Init
<1>3. copy \in [Clients -> Layouts]
  BY <1>2 DEF Init
<1>4. push \in [Clients -> Seq(Results)] /\ req \in [Clients -> Reqs]
  BY NoReqIsReq DEF Init
<1>. QED BY <1>1, <1>2, <1>3, <1>4, LearnConstants DEF Init, TypeOK

(* The variables of the pages.                                             *)
Pages ==
  /\ copy \in [Clients -> Layouts] /\ modal \in [Clients -> Buttons \cup {None}]
  /\ learning \in [Clients -> BOOLEAN] /\ req \in [Clients -> Reqs]
  /\ push \in [Clients -> Seq(Results)]

LEMMA ResultIs ==
  ASSUME NEW s \in Armed, NEW n \in Signals PROVE Result(s, n) \in Results
BY DEF Result, Results, Armed

LEMMA BroadcastTypes ==
  ASSUME Pages, NEW m \in Results, Broadcast(m) PROVE push' \in [Clients -> Seq(Results)]
BY DEF Pages, Broadcast

LEMMA AnswerTypes ==
  ASSUME TypeOK, NEW s \in Armed, NEW n \in Signals, Answer(s, n)
  PROVE  push' \in [Clients -> Seq(Results)] /\ results' \in [1 .. MaxArms -> Nat]
<1>1. push' \in [Clients -> Seq(Results)]
  BY ResultIs, BroadcastTypes DEF TypeOK, Pages, Answer
<1>2. results' \in [1 .. MaxArms -> Nat]
  BY DEF TypeOK, Answer, Armed
<1>. QED BY <1>1, <1>2

(* A request is answered with a layout.                                    *)
LEMMA AnsweredIsReq ==
  ASSUME NEW r \in Reqs, NEW f \in Layouts
  PROVE  [[r EXCEPT !.served = TRUE] EXCEPT !.layout = f] \in Reqs
<1>1. TRUE \in BOOLEAN
  OBVIOUS
<1>2. [r EXCEPT !.served = TRUE] \in Reqs
  BY <1>1 DEF Reqs
<1>. DEFINE q == [r EXCEPT !.served = TRUE]
<1>3. q \in Reqs
  BY <1>2
<1>. HIDE DEF q
<1>4. [q EXCEPT !.layout = f] \in Reqs
  BY <1>3 DEF Reqs
<1>. QED BY <1>4 DEF q

LEMMA ServeTypes == ASSUME TypeOK, NEW c \in Clients, Serve(c) PROVE TypeOK'
<1>. USE LearnConstants
<1>1. CASE ServeArm(c)
  <2>1. req[c] \in Reqs /\ req[c].button \in Buttons
    BY <1>1, LayoutHas DEF ServeArm, TypeOK
  <2>2. arms' \in 1 .. MaxArms /\ session' \in Armed
    BY <1>1, <2>1 DEF ServeArm, TypeOK, Armed
  <2>3. timers' \subseteq Armed
    BY <1>1, <2>2 DEF ServeArm, TypeOK
  <2>. DEFINE armed == [req[c] EXCEPT !.served = TRUE, !.arm = arms']
  <2>4. armed \in Reqs
    <3>. DEFINE served == [req[c] EXCEPT !.served = TRUE]
    <3>1. TRUE \in BOOLEAN /\ arms' \in 0 .. MaxArms
      BY <2>2
    <3>2. served \in Reqs
      BY <2>1, <3>1 DEF Reqs
    <3>. HIDE DEF served
    <3>3. [served EXCEPT !.arm = arms'] \in Reqs
      BY <3>1, <3>2 DEF Reqs
    <3>. QED BY <3>3 DEF served
  <2>5. req' = [req EXCEPT ![c] = armed]
    BY <1>1 DEF ServeArm
  <2>6. req' \in [Clients -> Reqs]
    BY <2>4, <2>5 DEF TypeOK
  <2>. QED BY <1>1, <2>2, <2>3, <2>6 DEF Serve, ServeArm, TypeOK, pageVars
<1>2. CASE RefuseArm(c)
  BY <1>2, NoReqIsReq DEF RefuseArm, Serve, TypeOK, serverVars, pageVars
<1>3. CASE ServeCancel(c)
  <2>1. req' \in [Clients -> Reqs]
    BY <1>3 DEF ServeCancel, TypeOK, Reqs
  <2>. QED BY <1>3, <2>1 DEF ServeCancel, ClearLearnSession, Serve, TypeOK, pageVars
<1>4. CASE ServeLayout(c)
  <2>1. req[c].layout \in Layouts
    BY DEF TypeOK, Reqs
  <2>2. stored' \in [DOMAIN req[c].layout -> Signals]
    BY <1>4, <2>1, LayoutHas DEF ServeLayout, TypeOK, Signals
  <2>3. stored' \in Layouts
    BY <2>1, <2>2, LayoutHas, LayoutIs
  <2>4. req' \in [Clients -> Reqs]
    <3>1. req' = [req EXCEPT ![c] = [[@ EXCEPT !.served = TRUE] EXCEPT !.layout = stored']]
      BY <1>4 DEF ServeLayout, TypeOK
    <3>. QED BY <2>3, <3>1, AnsweredIsReq DEF TypeOK
  <2>. QED BY <1>4, <2>3, <2>4 DEF ServeLayout, Serve, TypeOK, pageVars
<1>5. CASE ServeLoad(c)
  <2>1. req' \in [Clients -> Reqs]
    <3>1. req' = [req EXCEPT ![c] = [[@ EXCEPT !.served = TRUE] EXCEPT !.layout = stored]]
      BY <1>5 DEF ServeLoad, TypeOK
    <3>. QED BY <3>1, AnsweredIsReq DEF TypeOK
  <2>. QED BY <1>5, <2>1 DEF ServeLoad, Serve, TypeOK, serverVars, pageVars
<1>. QED BY <1>1, <1>2, <1>3, <1>4, <1>5 DEF Serve

LEMMA TimeoutTypes == ASSUME TypeOK, NEW t \in timers, Timeout(t) PROVE TypeOK'
<1>1. t \in Armed /\ 0 \in Signals
  BY LearnConstants DEF TypeOK, Signals
<1>2. push' \in [Clients -> Seq(Results)] /\ results' \in [1 .. MaxArms -> Nat]
  BY <1>1, AnswerTypes DEF Timeout
<1>. QED BY <1>2 DEF Timeout, TypeOK, pageVars

LEMMA OnLearnedTypes == ASSUME TypeOK, OnLearned PROVE TypeOK'
<1>1. Head(learned) \in Signals /\ learned' \in Seq(Signals) /\ 0 \in Signals
  BY LearnConstants DEF TypeOK, OnLearned, Signals
<1>2. stored' \in Layouts
  <2>1. CASE LearnSignal
    <3>1. stored' \in [DOMAIN stored -> Signals]
      BY <2>1, <1>1, LayoutHas DEF LearnSignal, TypeOK
    <3>. QED BY <3>1, LayoutHas, LayoutIs DEF TypeOK
  <2>2. CASE TargetGone \/ NotLearning
    BY <2>2 DEF TargetGone, NotLearning, TypeOK
  <2>. QED BY <2>1, <2>2 DEF OnLearned
<1>3. session' \in Armed \cup {None} /\ timers' \subseteq Armed
  BY DEF OnLearned, LearnSignal, TargetGone, NotLearning, ClearLearnSession, TypeOK
<1>4. push' \in [Clients -> Seq(Results)] /\ results' \in [1 .. MaxArms -> Nat]
  <2>1. CASE NotLearning
    BY <2>1 DEF NotLearning, TypeOK
  <2>2. CASE LearnSignal \/ TargetGone
    BY <2>2, <1>1, AnswerTypes DEF LearnSignal, TargetGone, TypeOK
  <2>. QED BY <2>1, <2>2 DEF OnLearned
<1>. QED BY <1>1, <1>2, <1>3, <1>4 DEF OnLearned, TypeOK, pageVars

LEMMA RestartTypes == ASSUME TypeOK, Restart PROVE TypeOK'
<1>1. req' \in [Clients -> Reqs]
  BY NoReqIsReq DEF Restart, TypeOK, Reqs
<1>. QED BY <1>1, LearnConstants DEF Restart, TypeOK, pageVars

LEMMA PressTypes == ASSUME TypeOK, Press PROVE TypeOK'
<1>1. presses' \in Signals
  BY LearnConstants DEF Press, TypeOK, Signals
<1>2. learned' \in Seq(Signals)
  <2>1. CASE learned' = Append(learned, presses')
    BY <2>1, <1>1 DEF TypeOK
  <2>2. CASE learned' = learned
    BY <2>2 DEF TypeOK
  <2>. QED BY <2>1, <2>2 DEF Press
<1>. QED BY <1>1, <1>2 DEF Press, TypeOK, serverVars, pageVars

(* A request that the page sends.                                          *)
LEMMA AskTypes ==
  ASSUME TypeOK, NEW c \in Clients, NEW r \in Reqs, Ask(c, r) PROVE req' \in [Clients -> Reqs]
BY DEF Ask, TypeOK

LEMMA PageTypes == ASSUME TypeOK, NEW c \in Clients, Page(c) PROVE TypeOK'
<1>. USE LearnConstants DEF Page
<1>1. CASE \E b \in Buttons : OpenEditModal(c, b)
  BY <1>1 DEF OpenEditModal, TypeOK, serverVars
<1>2. CASE CloseModal(c)
  BY <1>2 DEF CloseModal, TypeOK, serverVars
<1>3. CASE ClickLearn(c)
  <2>1. modal[c] \in Buttons
    BY <1>3 DEF ClickLearn, TypeOK
  <2>2. [NoReq EXCEPT !.kind = IF learning[c] THEN "cancel" ELSE "arm", !.button = modal[c]] \in Reqs
    BY <2>1, NoReqIsReq DEF Reqs, Kinds
  <2>3. req' \in [Clients -> Reqs]
    BY <1>3, <2>2, AskTypes DEF ClickLearn
  <2>. QED BY <1>3, <2>3 DEF ClickLearn, TypeOK, serverVars, pageVars
<1>4. ASSUME NEW kind \in {"save", "edit"}, NEW layout \in Layouts, PostLayout(c, kind, layout)
      PROVE  TypeOK'
  <2>1. [NoReq EXCEPT !.kind = kind, !.layout = layout] \in Reqs
    BY <1>4, NoReqIsReq DEF Reqs, Kinds
  <2>2. req' \in [Clients -> Reqs]
    BY <1>4, <2>1, AskTypes DEF PostLayout
  <2>. QED BY <1>4, <2>2 DEF PostLayout, TypeOK, serverVars, pageVars
<1>5. copy[c] \in Layouts /\ Restrict(copy[c], DOMAIN copy[c] \ {modal[c]}) \in Layouts
  <2>1. copy[c] \in Layouts
    BY DEF TypeOK
  <2>2. Restrict(copy[c], DOMAIN copy[c] \ {modal[c]}) \in [DOMAIN copy[c] \ {modal[c]} -> Signals]
    BY <2>1, LayoutHas DEF Restrict
  <2>. QED BY <2>1, <2>2, LayoutHas, LayoutIs
<1>6. CASE SaveLabel(c) \/ DeleteButton(c) \/ RenameRemote(c)
  BY <1>4, <1>5, <1>6 DEF SaveLabel, DeleteButton, RenameRemote
<1>7. CASE Reload(c)
  <2>1. [NoReq EXCEPT !.kind = "load"] \in Reqs
    BY NoReqIsReq DEF Reqs, Kinds
  <2>. QED BY <1>7, <2>1, EmptyLayout DEF Reload, TypeOK, serverVars
<1>8. CASE ArmAnswered(c) \/ CancelAnswered(c)
  BY <1>8, NoReqIsReq DEF ArmAnswered, CancelAnswered, TypeOK, serverVars
<1>9. CASE LayoutAnswered(c) \/ Loaded(c)
  <2>1. req[c].layout \in Layouts
    BY DEF TypeOK, Reqs
  <2>2. copy' \in [Clients -> Layouts] /\ req' \in [Clients -> Reqs]
    <3>1. copy' = [copy EXCEPT ![c] = req[c].layout] /\ req' = [req EXCEPT ![c] = NoReq]
      BY <1>9 DEF LayoutAnswered, Loaded
    <3>. QED BY <2>1, <3>1, NoReqIsReq DEF TypeOK
  <2>3. modal' \in [Clients -> Buttons \cup {None}] /\ learning' \in [Clients -> BOOLEAN]
    BY <1>9 DEF LayoutAnswered, Loaded, TypeOK
  <2>4. push' \in [Clients -> Seq(Results)]
    <3>1. CASE LayoutAnswered(c)
      BY <3>1 DEF LayoutAnswered, TypeOK
    <3>2. CASE Loaded(c)
      <4>1. <<>> \in Seq(Results)
        OBVIOUS
      <4>. QED BY <3>2, <4>1 DEF Loaded, TypeOK
    <3>. QED BY <1>9, <3>1, <3>2
  <2>. QED BY <1>9, <2>2, <2>3, <2>4 DEF LayoutAnswered, Loaded, TypeOK, serverVars
<1>10. CASE IgnoreResult(c)
  BY <1>10 DEF IgnoreResult, TypeOK, serverVars, pageVars
<1>11. CASE TakeResult(c)
  <2>1. Head(push[c]) \in Results /\ push' \in [Clients -> Seq(Results)]
    BY <1>11 DEF TakeResult, TypeOK
  <2>2. copy' \in [Clients -> Layouts]
    <3>. DEFINE m == Head(push[c])
                taken == [copy[c] EXCEPT ![m.button] = m.signal]
    <3>1. taken \in Layouts
      <4>1. copy[c] \in Layouts /\ m.signal \in Signals
        BY <2>1 DEF TypeOK, Results
      <4>2. taken \in [DOMAIN copy[c] -> Signals]
        BY <4>1, LayoutHas
      <4>. QED BY <4>1, <4>2, LayoutHas, LayoutIs
    <3>2. copy' = [copy EXCEPT ![c] = taken] \/ copy' = copy
      BY <1>11 DEF TakeResult
    <3>. QED BY <3>1, <3>2 DEF TypeOK
  <2>. QED BY <1>11, <2>1, <2>2 DEF TakeResult, TypeOK, serverVars
<1>12. CASE WsLost(c)
  BY <1>12 DEF WsLost, TypeOK, serverVars, pageVars
<1>. QED BY <1>1, <1>2, <1>3, <1>6, <1>7, <1>8, <1>9, <1>10, <1>11, <1>12

(* Every variable keeps its type, for any number of pages and buttons.     *)
THEOREM TypeCorrect == Spec => []TypeOK
<1>1. TypeOK /\ [Next]_vars => TypeOK'
  <2>1. TypeOK /\ UNCHANGED vars => TypeOK'
    BY DEF TypeOK, vars, serverVars, pageVars
  <2>. QED BY <2>1, ServeTypes, PageTypes, TimeoutTypes, OnLearnedTypes, RestartTypes, PressTypes
       DEF Next
<1>. QED BY <1>1, InitTypeOK, PTL DEF Spec

-----------------------------------------------------------------------------
(* The session.  That an arming is answered once needs to know that those  *)
(* to come have not been answered, and that the session is none of them.   *)

Fresh == /\ session # None => session.arm <= arms
         /\ \A a \in 1 .. MaxArms : a > arms => results[a] = 0
SessionInv == TimerIsTheSessions /\ OneResultPerArm /\ Fresh

LEMMA ArmedIsSession == None \notin Armed
BY LearnConstants DEF Armed

(* The one timeout that can fire is that of the session.                   *)
LEMMA TimerIsSession ==
  ASSUME TypeOK, SessionInv, NEW t \in timers PROVE session # None /\ t = session
BY DEF SessionInv, TimerIsTheSessions

(* The session is answered and closed.                                     *)
LEMMA AnswerKeeps ==
  ASSUME TypeOK, SessionInv, session # None, session' = None, timers' = {}, UNCHANGED arms,
         results' = [results EXCEPT ![session.arm] = @ + 1]
  PROVE  SessionInv'
<1>1. session.arm \in 1 .. MaxArms /\ results[session.arm] = 0 /\ session.arm <= arms
  BY DEF TypeOK, SessionInv, OneResultPerArm, Fresh, Armed
<1>2. OneResultPerArm'
  BY <1>1 DEF TypeOK, SessionInv, OneResultPerArm
<1>3. Fresh'
  BY <1>1, LearnConstants DEF TypeOK, SessionInv, Fresh
<1>. QED BY <1>2, <1>3 DEF SessionInv, TimerIsTheSessions

LEMMA ClearCancels ==
  ASSUME SessionInv, ClearLearnSession PROVE session' = None /\ timers' = {}
BY DEF SessionInv, TimerIsTheSessions, ClearLearnSession

(* The session is closed, or nothing about it changes.                     *)
LEMMA CloseKeeps ==
  ASSUME SessionInv, UNCHANGED <<arms, results>>,
         (session' = None /\ timers' = {}) \/ UNCHANGED <<session, timers>>
  PROVE  SessionInv'
BY DEF SessionInv, TimerIsTheSessions, OneResultPerArm, Fresh

LEMMA ArmKeeps ==
  ASSUME TypeOK, SessionInv, NEW c \in Clients, ServeArm(c) PROVE SessionInv'
<1>1. arms' \in 1 .. MaxArms /\ session' \in Armed /\ session'.arm = arms'
  <2>1. req[c].button \in Buttons
    BY LayoutHas DEF ServeArm, TypeOK
  <2>. QED BY <2>1, LearnConstants DEF ServeArm, TypeOK, Armed
<1>2. session' # None
  BY <1>1, ArmedIsSession
<1>3. timers' = {session'}
  BY DEF ServeArm, SessionInv, TimerIsTheSessions
<1>4. results' = results /\ results[arms'] = 0 /\ arms' = arms + 1
  BY <1>1, LearnConstants DEF ServeArm, TypeOK, SessionInv, Fresh
<1>. QED BY <1>1, <1>2, <1>3, <1>4, LearnConstants
     DEF TypeOK, SessionInv, TimerIsTheSessions, OneResultPerArm, Fresh

LEMMA StepSession == TypeOK /\ SessionInv /\ [Next]_vars => SessionInv'
<1>. SUFFICES ASSUME TypeOK, SessionInv, [Next]_vars PROVE SessionInv'
  OBVIOUS
<1>1. ASSUME NEW c \in Clients, Serve(c) PROVE SessionInv'
  <2>1. CASE ServeArm(c)
    BY <2>1, ArmKeeps
  <2>2. CASE ServeCancel(c)
    BY <2>2, ClearCancels, CloseKeeps DEF ServeCancel
  <2>3. CASE RefuseArm(c) \/ ServeLayout(c) \/ ServeLoad(c)
    BY <2>3, CloseKeeps DEF RefuseArm, ServeLayout, ServeLoad, serverVars
  <2>. QED BY <1>1, <2>1, <2>2, <2>3 DEF Serve
<1>2. ASSUME NEW c \in Clients, Page(c) PROVE SessionInv'
  BY <1>2, CloseKeeps DEF Page, serverVars
<1>3. ASSUME NEW t \in timers, Timeout(t) PROVE SessionInv'
  <2>1. session # None /\ t = session /\ timers = {session}
    BY TimerIsSession DEF SessionInv, TimerIsTheSessions
  <2>. QED BY <1>3, <2>1, AnswerKeeps DEF Timeout, Answer
<1>4. CASE OnLearned
  <2>1. CASE NotLearning
    BY <1>4, <2>1, CloseKeeps DEF OnLearned, NotLearning
  <2>2. CASE LearnSignal \/ TargetGone
    BY <1>4, <2>2, ClearCancels, AnswerKeeps DEF OnLearned, LearnSignal, TargetGone, Answer
  <2>. QED BY <1>4, <2>1, <2>2 DEF OnLearned
<1>5. CASE Restart
  BY <1>5, CloseKeeps DEF Restart
<1>6. CASE Press \/ UNCHANGED vars
  BY <1>6, CloseKeeps DEF Press, vars, serverVars
<1>. QED BY <1>1, <1>2, <1>3, <1>4, <1>5, <1>6 DEF Next

LEMMA SessionHolds == Spec => []SessionInv
<1>1. Init => SessionInv
  BY LearnConstants DEF Init, SessionInv, TimerIsTheSessions, OneResultPerArm, Fresh
<1>. QED BY <1>1, StepSession, TypeCorrect, PTL DEF Spec

(* Whatever is armed anew, cancelled, learned or restarted, the timeout    *)
(* that can fire is that of the open session.                              *)
THEOREM NoTimeoutOutlivesItsSession == Spec => []TimerIsTheSessions
<1>1. SessionInv => TimerIsTheSessions
  BY DEF SessionInv
<1>. QED BY <1>1, SessionHolds, PTL

(* An arming is never answered twice, an open session not at all.          *)
THEOREM ArmingsAreAnsweredOnce == Spec => []OneResultPerArm
<1>1. SessionInv => OneResultPerArm
  BY DEF SessionInv
<1>. QED BY <1>1, SessionHolds, PTL
-----------------------------------------------------------------------------
(* Signals.  Every capture under way is a real one, never "no signal".     *)

CapturesReal == \A i \in 1 .. Len(learned) : learned[i] # 0

LEMMA StepReal == TypeOK /\ CapturesReal /\ [Next]_vars => CapturesReal'
<1>. SUFFICES ASSUME TypeOK, CapturesReal, [Next]_vars PROVE CapturesReal'
  OBVIOUS
<1>1. CASE OnLearned
  <2>1. /\ Len(Tail(learned)) = Len(learned) - 1 /\ Len(learned) \in Nat
        /\ \A i \in 1 .. Len(learned) - 1 : Tail(learned)[i] = learned[i + 1]
    BY <1>1 DEF OnLearned, TypeOK
  <2>. QED BY <1>1, <2>1 DEF OnLearned, CapturesReal
<1>2. CASE Press
  <2>1. presses' # 0 /\ presses' \in Signals
    BY <1>2, LearnConstants DEF Press, TypeOK, Signals
  <2>2. CASE learned' = learned
    BY <2>2 DEF CapturesReal
  <2>3. CASE learned' = Append(learned, presses')
    <3>1. /\ Len(learned') = Len(learned) + 1 /\ Len(learned) \in Nat
          /\ \A i \in 1 .. Len(learned) : learned'[i] = learned[i]
          /\ learned'[Len(learned) + 1] = presses'
      BY <2>1, <2>3 DEF TypeOK
    <3>. QED BY <2>1, <3>1 DEF CapturesReal
  <2>. QED BY <1>2, <2>2, <2>3 DEF Press
<1>3. CASE Restart
  <2>1. learned' = <<>>
    BY <1>3 DEF Restart
  <2>2. Len(<<>>) = 0
    OBVIOUS
  <2>. QED BY <2>1, <2>2 DEF CapturesReal
<1>4. CASE UNCHANGED learned
  BY <1>4 DEF CapturesReal
<1>. QED BY <1>1, <1>2, <1>3, <1>4 DEF Next, Serve, Page, Timeout, vars

(* A button on both sides of a step keeps a signal, if not always the same. *)
SignalStays == \A b \in DOMAIN stored \cap DOMAIN stored' : stored[b] # 0 => stored'[b] # 0

LEMMA StepSignals == ASSUME TypeOK, CapturesReal, [Next]_vars PROVE SignalStays
<1>1. CASE UNCHANGED stored
  BY <1>1 DEF SignalStays
<1>2. ASSUME NEW c \in Clients, ServeLayout(c) PROVE SignalStays
  <2>. DEFINE posted == req[c].layout
              signal(b) == IF posted[b] # 0 THEN posted[b]
                           ELSE IF b \in DOMAIN stored THEN stored[b] ELSE 0
  <2>1. stored' = [b \in DOMAIN posted |-> signal(b)]
    BY <1>2 DEF ServeLayout
  <2>2. \A b \in DOMAIN stored' : stored'[b] = signal(b)
    BY <2>1
  <2>. QED BY <2>2 DEF SignalStays
<1>3. CASE LearnSignal /\ learned # <<>>
  <2>1. stored' = [stored EXCEPT ![session.button] = Head(learned)]
    BY <1>3 DEF LearnSignal
  <2>2. Head(learned) = learned[1] /\ Len(learned) \in Nat \ {0}
    BY <1>3 DEF TypeOK
  <2>3. Head(learned) # 0
    BY <2>2 DEF CapturesReal
  <2>. QED BY <2>1, <2>3 DEF SignalStays
<1>4. ASSUME NEW c \in Clients, Serve(c) PROVE ServeLayout(c) \/ UNCHANGED stored
  BY <1>4 DEF Serve, ServeArm, RefuseArm, ServeCancel, ServeLoad, serverVars
<1>5. ASSUME NEW c \in Clients, Page(c) PROVE UNCHANGED stored
  BY <1>5 DEF Page, serverVars
<1>6. ASSUME OnLearned PROVE (LearnSignal /\ learned # <<>>) \/ UNCHANGED stored
  BY <1>6 DEF OnLearned, TargetGone, NotLearning
<1>7. ASSUME NEW t \in timers, Timeout(t) PROVE UNCHANGED stored
  BY <1>7 DEF Timeout
<1>8. CASE Restart \/ Press \/ UNCHANGED vars
  BY <1>1, <1>8 DEF Restart, Press, vars, serverVars
<1>. QED BY <1>1, <1>2, <1>3, <1>4, <1>5, <1>6, <1>7, <1>8 DEF Next

(* However old the layout a page posts, a button that has a signal and     *)
(* stays on its remote keeps one (server.js, POST /api/remotes).           *)
THEOREM SignalsAreNotWipedOut == Spec => LearnedStaysLearned
<1>1. Init => CapturesReal
  <2>1. Init => learned = <<>>
    BY DEF Init
  <2>2. Len(<<>>) = 0
    OBVIOUS
  <2>. QED BY <2>1, <2>2 DEF CapturesReal
<1>2. TypeOK /\ CapturesReal /\ [Next]_vars => [SignalStays]_vars
  BY StepSignals
<1>. QED BY <1>1, <1>2, StepReal, TypeCorrect, PTL DEF Spec, LearnedStaysLearned, SignalStays
=============================================================================
