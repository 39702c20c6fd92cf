-------------------------- MODULE PriceRulesProofs --------------------------
(* Theorems about PriceRules: types, one rule to an id, and when a rule    *)
(* fires again.                                                            *)
EXTENDS PriceRules, SequenceFacts, TLAPS

LEMMA Constants ==
  /\ None \notin RuleIds /\ None \notin Prices /\ Learned \subseteq Buttons
  /\ \A r \in Routines : r \in Seq(RoutineStep)
  /\ \A r \in NewRules : r \in Rule /\ ~r.lastTriggeredState
  /\ \A t \in Evaluations : t \notin HandRuns
BY RuleConstants

LEMMA FirstIs == ASSUME NEW T \in SUBSET Nat, T # {} PROVE First(T) \in T
BY LeastElement DEF First

-----------------------------------------------------------------------------
(* Runs                                                                    *)

Run == [pc : {"off", "delay", "ack"}, price : Prices \cup {None},
        rule : RuleIds \cup {None}, at : Nat, steps : Seq(RoutineStep), live : BOOLEAN,
        step : Nat, button : Buttons \cup {None}]

LEMMA StepsTyped == ASSUME TypeOK, NEW a \in Actions PROVE Steps(a) \in Seq(RoutineStep)
<1>1. CASE a # "routine"
  <2>1. [delay |-> FALSE, button |-> a] \in RoutineStep
    <3>1. a \in Buttons /\ FALSE \in BOOLEAN
      BY <1>1 DEF Actions
    <3>. QED BY <3>1 DEF RoutineStep
  <2>2. Steps(a) = <<[delay |-> FALSE, button |-> a]>>
    BY <1>1 DEF Steps
  <2>. QED BY <2>1, <2>2
<1>2. CASE a = "routine" /\ routine = None
  BY <1>2, EmptySeq DEF Steps
<1>3. CASE a = "routine" /\ routine # None
  <2>1. routine \in Seq(RoutineStep)
    BY <1>3, Constants DEF TypeOK
  <2>. QED BY <1>3, <2>1 DEF Steps
<1>. QED BY <1>1, <1>2, <1>3

(* A run that goes on waits in a step it has.                              *)
LEMMA WaitInTyped ==
  ASSUME NEW r \in Run, NEW k \in Nat, Waits(r.steps, k) # {}, k >= 1
  PROVE  /\ WaitIn(r, k) \in Run /\ WaitIn(r, k).rule = r.rule /\ WaitIn(r, k).price = r.price
         /\ WaitIn(r, k).pc # "off"
<1>. DEFINE j == First(Waits(r.steps, k))
            s == r.steps[j]
            pc == IF s.delay THEN "delay" ELSE "ack"
<1>1. r.steps \in Seq(RoutineStep) /\ Len(r.steps) \in Nat
  BY DEF Run
<1>2. Waits(r.steps, k) \in SUBSET Nat /\ Waits(r.steps, k) \subseteq 1 .. Len(r.steps)
  BY <1>1 DEF Waits
<1>3. j \in 1 .. Len(r.steps) /\ j \in Nat
  BY <1>2, FirstIs
<1>4. s \in RoutineStep
  BY <1>1, <1>3, ElementOfSeq
<1>5. s.button \in Buttons /\ pc \in {"delay", "ack"}
  BY <1>4 DEF RoutineStep
<1>6. WaitIn(r, k) = [r EXCEPT !.pc = pc, !.step = j, !.button = s.button]
  BY DEF WaitIn
<1>. HIDE DEF j, s, pc
<1>. QED BY <1>3, <1>5, <1>6 DEF Run

LEMMA IdleTyped == Idle \in Run /\ Idle.rule = None
BY EmptySeq DEF Idle, Run

LEMMA BeginTyped ==
  ASSUME TypeOK, NEW r \in Run, NEW a \in Actions, Waits(Steps(a), 1) # {}
  PROVE  /\ Begin(r, a) \in Run /\ Begin(r, a).rule = r.rule /\ Begin(r, a).price = r.price
         /\ Begin(r, a).pc # "off"
<1>. DEFINE b == a = "routine"
            q == [r EXCEPT !.steps = Steps(a), !.live = b]
<1>1. b \in BOOLEAN /\ Steps(a) \in Seq(RoutineStep)
  BY StepsTyped
<1>2. Begin(r, a) = WaitIn(q, 1)
  BY DEF Begin
<1>. HIDE DEF b
<1>3. q \in Run /\ q.steps = Steps(a) /\ q.rule = r.rule /\ q.price = r.price
  BY <1>1 DEF Run
<1>. HIDE DEF q
<1>. QED BY <1>2, <1>3, WaitInTyped

-----------------------------------------------------------------------------
(* The invariant.  Rules are found by their id, so each has its own.  What *)
(* is off for the current price, or for the price an evaluation under way  *)
(* has read, may fire; what may not is marked as triggered, or its action  *)
(* is awaited at this moment.                                              *)

WalkInv ==
  /\ \A t \in Evaluations :
       run[t] # Idle => run[t].rule \in RuleIds /\ run[t].price \in Prices
  /\ \A t \in HandRuns : run[t].rule = None

Awaited == {run[t].rule : t \in Evaluations}
MayFire == seenOff \cup disturbed

SeenInv ==
  \A j \in 1 .. Len(rules) :
    /\ price # None /\ ~Met(rules[j], price) => rules[j].id \in seenOff
    /\ \A t \in Evaluations :
         run[t] # Idle /\ ~Met(rules[j], run[t].price) => rules[j].id \in MayFire
    /\ rules[j].id \in MayFire \/ rules[j].lastTriggeredState \/ rules[j].id \in Awaited

IInv == TypeOK /\ OwnIds(rules) /\ WalkInv /\ SeenInv

LEMMA InitIInv == Init => IInv
<1>. SUFFICES ASSUME Init PROVE IInv
  OBVIOUS
<1>1. rules \in Seq(Rule) /\ Len(rules) = 0
  BY EmptySeq DEF Init
<1>2. run \in [Runs -> Run]
  BY IdleTyped DEF Init
<1>3. \A t \in Runs : run[t] = Idle
  BY DEF Init
<1>4. connected \in BOOLEAN
  BY Zenon DEF Init
<1>5. TypeOK
  BY <1>1, <1>2, <1>4 DEF Init, TypeOK, Run
<1>6. OwnIds(rules) /\ SeenInv
  BY <1>1 DEF OwnIds, SeenInv
<1>7. WalkInv
  BY <1>3, IdleTyped DEF WalkInv, Runs
<1>. QED BY <1>5, <1>6, <1>7 DEF IInv

LEMMA RuleIs == ASSUME TypeOK, NEW j \in 1 .. Len(rules)
                PROVE  rules[j] \in Rule /\ rules[j].id \in RuleIds
<1>1. rules[j] \in Rule
  BY ElementOfSeq DEF TypeOK
<1>. QED BY <1>1 DEF Rule

(* A walk from index i of the rules rs, which are those stored but for     *)
(* their edge states.  off and on say what is known before it.             *)
LEMMA EvaluateKeeps ==
  ASSUME IInv, NEW t \in Evaluations, NEW rs \in Seq(Rule), Len(rs) = Len(rules),
         \A j \in 1 .. Len(rules) : /\ rs[j].id = rules[j].id /\ rs[j].limit = rules[j].limit
                                    /\ rs[j].condition = rules[j].condition,
         NEW p \in Prices, NEW i \in Nat \ {0},
         \A j \in 1 .. Len(rs) : ~Met(rs[j], p) => rs[j].id \in MayFire,
         Alone(t) => \A j \in 1 .. Len(rs) : rs[j].id \in MayFire \/ rs[j].lastTriggeredState,
         UNCHANGED <<routine, envVars>>, EvaluateFrom(t, rs, i, p)
  PROVE  IInv' /\ fired' \subseteq MayFire \cup disturbed'
<1>. DEFINE n == Len(rs)
            waits(j) == Fires(rs[j], p) /\ Waits(Steps(rs[j].action), 1) # {}
            Fired(stop) == {rs[j].id : j \in {k \in i .. stop : k <= Len(rs) /\ Fires(rs[k], p)}}
            NewRun(stop) ==
              IF stop > Len(rs) THEN Idle
              ELSE Begin([Idle EXCEPT !.price = p, !.rule = rs[stop].id, !.at = stop], rs[stop].action)
            New(stop) == [j \in DOMAIN rs |-> IF j \in i .. stop - 1 /\ rs[j].enabled
                                              THEN Persisted(rs[j], p) ELSE rs[j]]
<1>1. /\ TypeOK /\ n \in Nat /\ DOMAIN rs = 1 .. n /\ i \in Nat /\ i >= 1 /\ t \in Runs
      /\ t \notin HandRuns
  BY Constants DEF IInv, Runs
<1>2. \A j \in 1 .. n : rs[j] \in Rule /\ rs[j].id \in RuleIds
  <2>1. \A j \in 1 .. n : rs[j] \in Rule
    BY ElementOfSeq
  <2>. QED BY <2>1 DEF Rule
<1>3. PICK stop \in i .. IF i > Len(rs) THEN i ELSE Len(rs) + 1 :
        /\ \A j \in i .. stop - 1 : ~waits(j)
        /\ stop <= Len(rs) => waits(stop)
        /\ rules' = New(stop) /\ fired' = Fired(stop)
        /\ seenOff' = (seenOff \ fired') \cup
              {id \in fired' : price = None \/ \E j \in DOMAIN rs : rs[j].id = id /\ ~Met(rs[j], price)}
        /\ run' = [run EXCEPT ![t] = NewRun(stop)]
        /\ disturbed' = IF Alone(t) THEN disturbed \ fired' ELSE RuleIds
  BY DEF EvaluateFrom
<1>4. stop \in Nat /\ stop >= i /\ (stop <= n => stop \in 1 .. n)
  BY <1>1
(* Rules and their edge states.                                            *)
<1>5. \A j \in 1 .. n :
        /\ New(stop)[j] \in Rule /\ New(stop)[j].id = rs[j].id
        /\ New(stop)[j].limit = rs[j].limit /\ New(stop)[j].condition = rs[j].condition
        /\ j \in i .. stop - 1 /\ rs[j].enabled => New(stop)[j].lastTriggeredState = Met(rs[j], p)
        /\ ~(j \in i .. stop - 1 /\ rs[j].enabled) =>
             New(stop)[j].lastTriggeredState = rs[j].lastTriggeredState
  <2>. TAKE j \in 1 .. n
  <2>1. Met(rs[j], p) \in BOOLEAN
    <3>1. (p < rs[j].limit) \in BOOLEAN /\ (p > rs[j].limit) \in BOOLEAN
      BY SMT
    <3>. QED BY <3>1, Zenon DEF Met
  <2>2. New(stop)[j] = IF j \in i .. stop - 1 /\ rs[j].enabled THEN Persisted(rs[j], p) ELSE rs[j]
    BY <1>1
  <2>3. /\ Persisted(rs[j], p) \in Rule /\ Persisted(rs[j], p).id = rs[j].id
        /\ Persisted(rs[j], p).limit = rs[j].limit /\ Persisted(rs[j], p).condition = rs[j].condition
        /\ Persisted(rs[j], p).lastTriggeredState = Met(rs[j], p)
    BY <1>2, <2>1 DEF Persisted, Rule
  <2>. QED BY <1>2, <2>2, <2>3
<1>6. rules' \in Seq(Rule) /\ Len(rules') = n /\ DOMAIN rules' = 1 .. n
  <2>1. New(stop) = [j \in DOMAIN rs |-> New(stop)[j]]
    OBVIOUS
  <2>2. \A j \in 1 .. Len(rs) : New(stop)[j] \in Rule
    BY <1>5
  <2>. HIDE DEF New
  <2>3. rules' = [j \in DOMAIN rs |-> rules'[j]]
    BY <1>3, <2>1, Zenon
  <2>4. \A j \in 1 .. Len(rs) : rules'[j] \in Rule
    BY <1>3, <2>2, Zenon
  <2>. QED BY <2>3, <2>4, RewriteIs
<1>7. \A j \in 1 .. n :
        /\ rules'[j].id = rs[j].id
        /\ \A q : Met(rules'[j], q) = Met(rs[j], q)
        /\ j \in i .. stop - 1 /\ rs[j].enabled => rules'[j].lastTriggeredState = Met(rs[j], p)
        /\ ~(j \in i .. stop - 1 /\ rs[j].enabled) =>
             rules'[j].lastTriggeredState = rs[j].lastTriggeredState
  <2>. TAKE j \in 1 .. n
  <2>1. rules'[j] = New(stop)[j]
    BY <1>3
  <2>. HIDE DEF New
  <2>2. rules'[j].limit = rs[j].limit /\ rules'[j].condition = rs[j].condition
    BY <1>5, <2>1
  <2>3. \A q : Met(rules'[j], q) = Met(rs[j], q)
    BY <2>2, Zenon DEF Met
  <2>. QED BY <1>5, <2>1, <2>3, Zenon
<1>8. \A j, k \in 1 .. n : rs[j].id = rs[k].id => j = k
  BY DEF IInv, OwnIds
<1>9. OwnIds(rules')
  BY <1>6, <1>7, <1>8 DEF OwnIds
(* What fired.                                                             *)
<1>10. \A id \in fired' : \E k \in 1 .. n : k \in i .. stop /\ Fires(rs[k], p) /\ id = rs[k].id
  BY <1>1, <1>3, <1>4
<1>11. fired' \subseteq RuleIds
  BY <1>2, <1>10
<1>12. \A j \in 1 .. n : rs[j].id \in fired' =>
         /\ j \in i .. stop /\ rs[j].enabled /\ Met(rs[j], p) /\ ~rs[j].lastTriggeredState
  BY <1>8, <1>10 DEF Fires
<1>. HIDE DEF New, Fired
(* The run that walks.                                                     *)
<1>13. /\ NewRun(stop) \in Run
       /\ NewRun(stop) # Idle => NewRun(stop).rule \in RuleIds /\ NewRun(stop).price = p
       /\ stop <= n => NewRun(stop).rule = rs[stop].id
  <2>1. CASE stop > n
    BY <1>1, <1>4, <2>1, IdleTyped
  <2>2. CASE ~(stop > n)
    <3>. DEFINE r == [Idle EXCEPT !.price = p, !.rule = rs[stop].id, !.at = stop]
    <3>1. stop \in 1 .. n /\ stop <= n
      BY <1>1, <1>4, <2>2
    <3>2. rs[stop].id \in RuleIds /\ rs[stop].action \in Actions /\ waits(stop)
      BY <1>2, <1>3, <3>1 DEF Rule
    <3>3. r \in Run /\ r.rule = rs[stop].id /\ r.price = p
      BY <1>4, <3>2, EmptySeq DEF Idle, Run
    <3>. HIDE DEF r
    <3>4. NewRun(stop) = Begin(r, rs[stop].action)
      BY <2>2 DEF r
    <3>. QED BY <1>1, <3>1, <3>2, <3>3, <3>4, BeginTyped
  <2>. QED BY <2>1, <2>2
<1>. HIDE DEF NewRun
<1>14. /\ run' \in [Runs -> Run] /\ run'[t] = NewRun(stop)
       /\ \A u \in Runs \ {t} : run'[u] = run[u]
  BY <1>1, <1>3, <1>13 DEF TypeOK, Run
<1>15. WalkInv'
  <2>1. \A u \in Evaluations : run'[u] # Idle => run'[u].rule \in RuleIds /\ run'[u].price \in Prices
    BY <1>13, <1>14 DEF IInv, WalkInv, Runs
  <2>2. \A u \in HandRuns : run'[u].rule = None
    BY <1>1, <1>14 DEF IInv, WalkInv, Runs
  <2>. QED BY <2>1, <2>2 DEF WalkInv
<1>16. TypeOK'
  <2>1. seenOff' \subseteq RuleIds /\ disturbed' \subseteq RuleIds
    BY <1>1, <1>3, <1>11 DEF TypeOK
  <2>. QED BY <1>1, <1>6, <1>11, <1>14, <2>1 DEF TypeOK, Run, envVars
(* Who may fire.                                                           *)
<1>17. \A j \in 1 .. n : price # None /\ ~Met(rs[j], price) => rs[j].id \in seenOff'
  <2>. SUFFICES ASSUME NEW j \in 1 .. n, price # None, ~Met(rs[j], price) PROVE rs[j].id \in seenOff'
    OBVIOUS
  <2>1. Met(rules[j], price) = Met(rs[j], price)
    BY DEF Met
  <2>2. rs[j].id \in seenOff
    BY <2>1 DEF IInv, SeenInv
  <2>. QED BY <1>1, <1>3, <2>2
<1>18. \A j \in 1 .. n : ~Met(rs[j], p) => rs[j].id \in MayFire'
  <2>. SUFFICES ASSUME NEW j \in 1 .. n, ~Met(rs[j], p) PROVE rs[j].id \in MayFire'
    OBVIOUS
  <2>1. rs[j].id \in MayFire /\ rs[j].id \notin fired' /\ rs[j].id \in RuleIds
    BY <1>2, <1>12
  <2>. QED BY <1>3, <2>1 DEF MayFire
<1>19. \A j \in 1 .. n : rs[j].id \in MayFire' \/ rules'[j].lastTriggeredState \/ rs[j].id \in Awaited'
  <2>. SUFFICES ASSUME NEW j \in 1 .. n, rs[j].id \notin MayFire', ~rules'[j].lastTriggeredState
                PROVE  rs[j].id \in Awaited'
    OBVIOUS
  <2>1. Alone(t)
    BY <1>2, <1>3 DEF MayFire
  <2>2. ~(j \in i .. stop - 1 /\ rs[j].enabled)
    BY <1>7, <1>18
  <2>3. ~rs[j].lastTriggeredState
    BY <1>7, <2>2
  <2>4. rs[j].id \in MayFire
    BY <2>1, <2>3
  <2>5. rs[j].id \in fired'
    BY <1>3, <2>1, <2>4 DEF MayFire
  <2>6. j \in i .. stop /\ rs[j].enabled
    BY <1>12, <2>5
  <2>7. j = stop /\ stop <= n
    BY <1>1, <1>4, <2>2, <2>6
  <2>8. run'[t].rule = rs[j].id
    BY <1>13, <1>14, <2>7
  <2>. QED BY <2>8 DEF Awaited
<1>20. SeenInv'
  <2>. SUFFICES ASSUME NEW j \in 1 .. n
       PROVE /\ price # None /\ ~Met(rules'[j], price) => rules'[j].id \in seenOff'
             /\ \A u \in Evaluations :
                  run'[u] # Idle /\ ~Met(rules'[j], run'[u].price) => rules'[j].id \in MayFire'
             /\ rules'[j].id \in MayFire' \/ rules'[j].lastTriggeredState \/ rules'[j].id \in Awaited'
    <3>1. price' = price
      BY DEF envVars
    <3>. QED BY <1>6, <3>1 DEF SeenInv
  <2>1. rules'[j].id = rs[j].id /\ \A q : Met(rules'[j], q) = Met(rs[j], q)
    BY <1>7
  <2>2. price # None /\ ~Met(rules'[j], price) => rules'[j].id \in seenOff'
    BY <1>17, <2>1
  <2>3. ASSUME NEW u \in Evaluations, run'[u] # Idle, ~Met(rules'[j], run'[u].price)
        PROVE  rules'[j].id \in MayFire'
    <3>1. CASE u = t
      BY <1>13, <1>14, <1>18, <2>1, <2>3, <3>1
    <3>2. CASE u # t
      <4>1. ~Alone(t)
        BY <1>14, <2>3, <3>2 DEF Alone, Runs
      <4>. QED BY <1>2, <1>3, <2>1, <4>1 DEF MayFire
    <3>. QED BY <3>1, <3>2
  <2>4. rules'[j].id \in MayFire' \/ rules'[j].lastTriggeredState \/ rules'[j].id \in Awaited'
    BY <1>19, <2>1
  <2>. QED BY <2>2, <2>3, <2>4
<1>21. fired' \subseteq MayFire \cup disturbed'
  <2>1. CASE Alone(t)
    <3>1. \A j \in 1 .. n : rs[j].id \in fired' => rs[j].id \in MayFire
      BY <1>12, <2>1
    <3>. QED BY <1>10, <3>1
  <2>2. CASE ~Alone(t)
    BY <1>3, <1>11, <2>2
  <2>. QED BY <2>1, <2>2
<1>. QED BY <1>9, <1>15, <1>16, <1>20, <1>21 DEF IInv

-----------------------------------------------------------------------------
(* Every step keeps the invariant                                          *)

Alike(a, b) == /\ a.id = b.id /\ a.limit = b.limit /\ a.condition = b.condition
               /\ a.lastTriggeredState = b.lastTriggeredState

(* A step that evaluates nothing: a rule it leaves is either one there was *)
(* before or one that may fire, and no evaluation begins or turns to       *)
(* another rule or price.                                                  *)
LEMMA QuietKeeps ==
  ASSUME IInv, TypeOK', OwnIds(rules'), seenOff \subseteq seenOff', disturbed \subseteq disturbed',
         \A j \in 1 .. Len(rules') :
           rules'[j].id \in seenOff' \/ \E k \in 1 .. Len(rules) : Alike(rules'[j], rules[k]),
         \A t \in Evaluations : /\ run'[t].rule = run[t].rule /\ run'[t].price = run[t].price
                                /\ run'[t] # Idle => run[t] # Idle,
         \A t \in HandRuns : run'[t].rule = None,
         \/ price' = price
         \/ \A j \in 1 .. Len(rules') :
              price' # None /\ ~Met(rules'[j], price') => rules'[j].id \in seenOff'
  PROVE  IInv'
<1>1. WalkInv'
  BY DEF IInv, WalkInv
<1>2. \A id \in MayFire : id \in MayFire'
  BY DEF MayFire
<1>3. \A id \in Awaited : id \in Awaited'
  <2>1. \A t \in Evaluations : run'[t].rule \in Awaited'
    BY DEF Awaited
  <2>. QED BY <2>1 DEF Awaited
<1>4. ASSUME NEW j \in 1 .. Len(rules')
      PROVE  /\ price' # None /\ ~Met(rules'[j], price') => rules'[j].id \in seenOff'
             /\ \A t \in Evaluations :
                  run'[t] # Idle /\ ~Met(rules'[j], run'[t].price) => rules'[j].id \in MayFire'
             /\ rules'[j].id \in MayFire' \/ rules'[j].lastTriggeredState \/ rules'[j].id \in Awaited'
  <2>1. CASE rules'[j].id \in seenOff'
    BY <2>1 DEF MayFire
  <2>2. CASE \E k \in 1 .. Len(rules) : Alike(rules'[j], rules[k])
    <3>1. PICK k \in 1 .. Len(rules) : Alike(rules'[j], rules[k])
      BY <2>2
    <3>2. /\ rules'[j].id = rules[k].id
          /\ rules'[j].lastTriggeredState = rules[k].lastTriggeredState
          /\ rules'[j].limit = rules[k].limit /\ rules'[j].condition = rules[k].condition
      BY <3>1 DEF Alike
    <3>3. \A q : Met(rules'[j], q) = Met(rules[k], q)
      BY <3>2, Zenon DEF Met
    <3>4. /\ price # None /\ ~Met(rules[k], price) => rules[k].id \in seenOff
          /\ \A t \in Evaluations :
               run[t] # Idle /\ ~Met(rules[k], run[t].price) => rules[k].id \in MayFire
          /\ rules[k].id \in MayFire \/ rules[k].lastTriggeredState \/ rules[k].id \in Awaited
      BY DEF IInv, SeenInv
    <3>5. price' # None /\ ~Met(rules'[j], price') => rules'[j].id \in seenOff'
      <4>1. CASE price' = price
        BY <3>2, <3>3, <3>4, <4>1
      <4>. QED BY <4>1
    <3>6. ASSUME NEW t \in Evaluations, run'[t] # Idle, ~Met(rules'[j], run'[t].price)
          PROVE  rules'[j].id \in MayFire'
      BY <1>2, <3>2, <3>3, <3>4, <3>6
    <3>7. rules'[j].id \in MayFire' \/ rules'[j].lastTriggeredState \/ rules'[j].id \in Awaited'
      BY <1>2, <1>3, <3>2, <3>4, Zenon
    <3>. QED BY <3>5, <3>6, <3>7
  <2>. QED BY <2>1, <2>2
<1>5. SeenInv'
  BY <1>4 DEF SeenInv
<1>. QED BY <1>1, <1>5 DEF IInv

(* The same where only the runs change.                                    *)
LEMMA RunsKeep ==
  ASSUME IInv, UNCHANGED <<rules, seenOff, disturbed, price>>, fired' = {},
         routine' \in Routines \cup {None}, connected' \in BOOLEAN,
         changes' \in Nat, edits' \in Nat, outages' \in Nat, run' \in [Runs -> Run],
         \A t \in Evaluations : /\ run'[t].rule = run[t].rule /\ run'[t].price = run[t].price
                                /\ run'[t] # Idle => run[t] # Idle,
         \A t \in HandRuns : run'[t].rule = None
  PROVE  IInv'
<1>1. TypeOK'
  BY DEF IInv, TypeOK, Run
<1>2. OwnIds(rules')
  BY DEF IInv, OwnIds
<1>3. \A j \in 1 .. Len(rules') : Alike(rules'[j], rules[j])
  BY DEF Alike
<1>. QED BY <1>1, <1>2, <1>3, QuietKeeps

LEMMA RunIs == ASSUME TypeOK, NEW t \in Runs PROVE run[t] \in Run
BY DEF TypeOK, Run

LEMMA EvaluateRulesKeeps ==
  ASSUME IInv, NEW t \in Evaluations, EvaluateRules(t), UNCHANGED <<routine, envVars>>
  PROVE  IInv' /\ fired' \subseteq MayFire \cup disturbed'
<1>1. /\ rules \in Seq(Rule) /\ price \in Prices /\ run[t] = Idle
      /\ EvaluateFrom(t, rules, 1, price)
  BY DEF IInv, TypeOK, EvaluateRules
<1>2. \A j \in 1 .. Len(rules) : ~Met(rules[j], price) => rules[j].id \in MayFire
  BY <1>1, Constants DEF IInv, SeenInv, MayFire
<1>3. ASSUME Alone(t), NEW j \in 1 .. Len(rules)
      PROVE  rules[j].id \in MayFire \/ rules[j].lastTriggeredState
  <2>1. rules[j].id # None
    BY RuleIs, Constants DEF IInv
  <2>2. \A u \in Evaluations : run[u].rule = None
    BY <1>1, <1>3, IdleTyped DEF Alone
  <2>3. rules[j].id \notin Awaited
    BY <2>1, <2>2 DEF Awaited
  <2>. QED BY <2>3 DEF IInv, SeenInv
<1>. QED BY <1>1, <1>2, <1>3, EvaluateKeeps

LEMMA ActionOverKeeps ==
  ASSUME IInv, NEW t \in Runs, run[t].pc # "off", ActionOver(t), UNCHANGED <<routine, envVars>>
  PROVE  IInv' /\ fired' \subseteq MayFire \cup disturbed'
<1>1. TypeOK /\ run[t] \in Run /\ run[t] # Idle
  BY RunIs DEF IInv, Idle
<1>2. CASE run[t].rule = None
  <2>1. t \notin Evaluations
    BY <1>1, <1>2, Constants DEF IInv, WalkInv
  <2>2. /\ run' = [run EXCEPT ![t] = Idle] /\ fired' = {}
        /\ UNCHANGED <<rules, seenOff, disturbed>>
    BY <1>2 DEF ActionOver
  <2>3. run' \in [Runs -> Run] /\ run'[t] = Idle /\ \A u \in Runs \ {t} : run'[u] = run[u]
    BY <1>1, <2>2, IdleTyped DEF TypeOK, Run
  <2>4. \A u \in Evaluations : run'[u] = run[u]
    BY <2>1, <2>3 DEF Runs
  <2>5. \A u \in HandRuns : run'[u].rule = None
    BY <2>3, IdleTyped DEF IInv, WalkInv, Runs
  <2>6. /\ routine' \in Routines \cup {None} /\ connected' \in BOOLEAN
        /\ changes' \in Nat /\ edits' \in Nat /\ outages' \in Nat /\ price' = price
    BY <1>1 DEF TypeOK, envVars
  <2>. QED BY <2>2, <2>3, <2>4, <2>5, <2>6, RunsKeep
<1>3. CASE run[t].rule # None
  <2>. DEFINE rs == [j \in DOMAIN rules |->
                       IF rules[j].id = run[t].rule
                       THEN [rules[j] EXCEPT !.lastTriggeredState = TRUE] ELSE rules[j]]
              i == run[t].at + 1
              p == run[t].price
  <2>1. t \in Evaluations /\ p \in Prices
    BY <1>1, <1>3 DEF IInv, WalkInv, Runs
  <2>2. rules \in Seq(Rule) /\ DOMAIN rules = 1 .. Len(rules)
    BY <1>1 DEF TypeOK
  <2>3. EvaluateFrom(t, rs, i, p)
    BY <1>3 DEF ActionOver
  <2>4. i \in Nat \ {0}
    BY <1>1 DEF Run
  <2>5. ASSUME NEW j \in 1 .. Len(rules)
        PROVE  /\ rs[j] \in Rule /\ rs[j].id = rules[j].id /\ rs[j].limit = rules[j].limit
               /\ rs[j].condition = rules[j].condition
               /\ rs[j].lastTriggeredState \/ rules[j].id # run[t].rule
               /\ rules[j].lastTriggeredState => rs[j].lastTriggeredState
    <3>1. rules[j] \in Rule
      BY <1>1, RuleIs
    <3>2. rs[j] = IF rules[j].id = run[t].rule
                  THEN [rules[j] EXCEPT !.lastTriggeredState = TRUE] ELSE rules[j]
      BY <2>2
    <3>. HIDE DEF rs
    <3>3. CASE rules[j].id = run[t].rule
      <4>. DEFINE e == [rules[j] EXCEPT !.lastTriggeredState = TRUE]
      <4>1. /\ e \in Rule /\ e.id = rules[j].id /\ e.limit = rules[j].limit
            /\ e.condition = rules[j].condition /\ e.lastTriggeredState
        BY <3>1 DEF Rule
      <4>2. rs[j] = e
        BY <3>2, <3>3
      <4>. HIDE DEF e
      <4>. QED BY <4>1, <4>2
    <3>4. CASE rules[j].id # run[t].rule
      BY <3>1, <3>2, <3>4
    <3>. QED BY <3>3, <3>4
  <2>6. rs = [j \in DOMAIN rules |-> rs[j]]
    OBVIOUS
  <2>. HIDE DEF rs, i
  <2>7. rs \in Seq(Rule) /\ Len(rs) = Len(rules)
    BY <2>2, <2>5, <2>6, RewriteIs
  <2>8. ASSUME NEW j \in 1 .. Len(rs), ~Met(rs[j], p) PROVE rs[j].id \in MayFire
    <3>1. j \in 1 .. Len(rules)
      BY <2>7
    <3>2. Met(rules[j], p) = Met(rs[j], p)
      BY <2>5, <3>1, Zenon DEF Met
    <3>3. rules[j].id \in MayFire
      BY <1>1, <2>1, <2>8, <3>1, <3>2 DEF IInv, SeenInv
    <3>. QED BY <2>5, <3>1, <3>3
  <2>9. ASSUME Alone(t), NEW j \in 1 .. Len(rs)
        PROVE  rs[j].id \in MayFire \/ rs[j].lastTriggeredState
    <3>1. j \in 1 .. Len(rules)
      BY <2>7
    <3>2. rules[j].id # None
      BY <1>1, <3>1, RuleIs, Constants
    <3>3. \A u \in Evaluations : run[u].rule = None \/ u = t
      BY <2>9, IdleTyped DEF Alone
    <3>4. rules[j].id \in Awaited => rules[j].id = run[t].rule
      BY <3>2, <3>3 DEF Awaited
    <3>5. rules[j].id \in MayFire \/ rules[j].lastTriggeredState \/ rules[j].id \in Awaited
      BY <3>1 DEF IInv, SeenInv
    <3>. QED BY <2>5, <3>1, <3>4, <3>5
  <2>10. \A j \in 1 .. Len(rules) : /\ rs[j].id = rules[j].id /\ rs[j].limit = rules[j].limit
                                    /\ rs[j].condition = rules[j].condition
    BY <2>5
  <2>. HIDE DEF p
  <2>. QED BY <2>1, <2>3, <2>4, <2>7, <2>8, <2>9, <2>10, EvaluateKeeps
<1>. QED BY <1>2, <1>3

LEMMA GoOnKeeps ==
  ASSUME IInv, NEW t \in Runs, run[t].pc # "off", GoOn(t), UNCHANGED <<routine, envVars>>
  PROVE  IInv' /\ fired' \subseteq MayFire \cup disturbed'
<1>1. TypeOK /\ run[t] \in Run /\ run[t] # Idle
  BY RunIs DEF IInv, Idle
<1>2. CASE Waits(run[t].steps, run[t].step + 1) = {}
  BY <1>2, ActionOverKeeps DEF GoOn
<1>3. CASE Waits(run[t].steps, run[t].step + 1) # {}
  <2>. DEFINE r == WaitIn(run[t], run[t].step + 1)
  <2>1. /\ run' = [run EXCEPT ![t] = r] /\ fired' = {}
        /\ UNCHANGED <<rules, seenOff, disturbed>>
    BY <1>3 DEF GoOn
  <2>2. run[t].step + 1 \in Nat /\ run[t].step + 1 >= 1
    BY <1>1 DEF Run
  <2>3. r \in Run /\ r.rule = run[t].rule /\ r.price = run[t].price
    BY <1>1, <1>3, <2>2, WaitInTyped
  <2>. HIDE DEF r
  <2>4. run' \in [Runs -> Run] /\ run'[t] = r /\ \A u \in Runs \ {t} : run'[u] = run[u]
    BY <1>1, <2>1, <2>3 DEF TypeOK, Run
  <2>5. \A u \in Evaluations : /\ run'[u].rule = run[u].rule /\ run'[u].price = run[u].price
                               /\ run'[u] # Idle => run[u] # Idle
    BY <1>1, <2>3, <2>4 DEF Runs
  <2>6. \A u \in HandRuns : run'[u].rule = None
    BY <2>3, <2>4 DEF IInv, WalkInv, Runs
  <2>7. /\ routine' \in Routines \cup {None} /\ connected' \in BOOLEAN
        /\ changes' \in Nat /\ edits' \in Nat /\ outages' \in Nat /\ price' = price
    BY <1>1 DEF TypeOK, envVars
  <2>. QED BY <2>1, <2>4, <2>5, <2>6, <2>7, RunsKeep
<1>. QED BY <1>2, <1>3

LEMMA StepKeeps ==
  ASSUME IInv, NEW t \in Runs, Step(t), UNCHANGED <<routine, envVars>>
  PROVE  IInv' /\ fired' \subseteq MayFire \cup disturbed'
<1>1. TypeOK /\ run[t] \in Run
  BY RunIs DEF IInv
<1>2. CASE Acked(t)
  BY <1>2, GoOnKeeps DEF Acked
<1>3. CASE DelayOver(t) /\ run[t].button \notin Learned
  BY <1>3, GoOnKeeps DEF DelayOver
<1>4. CASE DelayOver(t) /\ run[t].button \in Learned
  <2>. DEFINE r == [run[t] EXCEPT !.pc = "ack"]
  <2>1. /\ run' = [run EXCEPT ![t] = r] /\ fired' = {} /\ run[t].pc # "off"
        /\ UNCHANGED <<rules, seenOff, disturbed>>
    BY <1>4 DEF DelayOver
  <2>2. r \in Run /\ r.rule = run[t].rule /\ r.price = run[t].price
    BY <1>1 DEF Run
  <2>3. run[t] # Idle
    BY <2>1 DEF Idle
  <2>. HIDE DEF r
  <2>4. run' \in [Runs -> Run] /\ run'[t] = r /\ \A u \in Runs \ {t} : run'[u] = run[u]
    BY <1>1, <2>1, <2>2 DEF TypeOK, Run
  <2>5. \A u \in Evaluations : /\ run'[u].rule = run[u].rule /\ run'[u].price = run[u].price
                               /\ run'[u] # Idle => run[u] # Idle
    BY <2>2, <2>3, <2>4 DEF Runs
  <2>6. \A u \in HandRuns : run'[u].rule = None
    BY <2>2, <2>4 DEF IInv, WalkInv, Runs
  <2>7. /\ routine' \in Routines \cup {None} /\ connected' \in BOOLEAN
        /\ changes' \in Nat /\ edits' \in Nat /\ outages' \in Nat /\ price' = price
    BY <1>1 DEF TypeOK, envVars
  <2>. QED BY <2>1, <2>4, <2>5, <2>6, <2>7, RunsKeep
<1>. QED BY <1>2, <1>3, <1>4 DEF Step

LEMMA RunByHandKeeps ==
  ASSUME IInv, NEW t \in HandRuns, RunByHand(t), UNCHANGED <<routine, envVars>>
  PROVE  IInv' /\ fired' \subseteq MayFire \cup disturbed'
<1>. DEFINE r == Begin(Idle, "routine")
<1>1. /\ TypeOK /\ t \in Runs /\ t \notin Evaluations /\ "routine" \in Actions
      /\ run' = [run EXCEPT ![t] = r] /\ fired' = {} /\ UNCHANGED <<rules, seenOff, disturbed>>
      /\ Waits(Steps("routine"), 1) # {}
  BY Constants DEF IInv, Runs, RunByHand, Actions
<1>2. r \in Run /\ r.rule = None
  BY <1>1, BeginTyped, IdleTyped
<1>. HIDE DEF r
<1>3. run' \in [Runs -> Run] /\ run'[t] = r /\ \A u \in Runs \ {t} : run'[u] = run[u]
  BY <1>1, <1>2 DEF TypeOK, Run
<1>4. \A u \in Evaluations : run'[u] = run[u]
  BY <1>1, <1>3 DEF Runs
<1>5. \A u \in HandRuns : run'[u].rule = None
  BY <1>2, <1>3 DEF IInv, WalkInv, Runs
<1>6. /\ routine' \in Routines \cup {None} /\ connected' \in BOOLEAN
      /\ changes' \in Nat /\ edits' \in Nat /\ outages' \in Nat /\ price' = price
  BY <1>1 DEF TypeOK, envVars
<1>. QED BY <1>1, <1>3, <1>4, <1>5, <1>6, RunsKeep

LEMMA WorkKeeps == ASSUME IInv, Work PROVE IInv' /\ fired' \subseteq MayFire \cup disturbed'
BY EvaluateRulesKeeps, RunByHandKeeps, StepKeeps DEF Work

(* The API leaves evaluations alone.                                       *)
LEMMA EditKeeps == ASSUME IInv, Edit PROVE IInv'
<1>1. /\ TypeOK /\ rules \in Seq(Rule) /\ DOMAIN rules = 1 .. Len(rules) /\ Len(rules) \in Nat
      /\ OwnIds(rules) /\ WalkInv
  BY DEF IInv, TypeOK
<1>2. /\ price' = price /\ disturbed' = disturbed /\ fired' = {}
      /\ connected' \in BOOLEAN /\ changes' \in Nat /\ edits' \in Nat /\ outages' \in Nat
  BY <1>1 DEF Edit, TypeOK
<1>3. ASSUME NEW r \in NewRules, SaveRule(r) PROVE IInv'
  <2>. DEFINE Kept(j) == [r EXCEPT !.lastTriggeredState = rules[j].lastTriggeredState]
              Same == \E j \in DOMAIN rules : /\ rules[j].id = r.id
                                              /\ rules[j].condition = r.condition
                                              /\ rules[j].limit = r.limit
  <2>1. r \in Rule /\ r.id \in RuleIds /\ routine' = routine /\ run' = run
    BY <1>3, Constants DEF SaveRule, Rule
  <2>2. /\ seenOff' = IF Same THEN seenOff ELSE seenOff \cup {r.id}
        /\ seenOff \subseteq seenOff' /\ seenOff' \subseteq RuleIds
    BY <1>1, <1>3, <2>1 DEF SaveRule, TypeOK
  <2>3. CASE r.id \in Present
    <3>. DEFINE rs == [j \in DOMAIN rules |-> IF rules[j].id = r.id THEN Kept(j) ELSE rules[j]]
    <3>1. rules' = rs
      BY <1>3, <2>3 DEF SaveRule
    <3>2. ASSUME NEW j \in 1 .. Len(rules)
          PROVE  /\ rs[j] \in Rule /\ rs[j].id = rules[j].id
                 /\ rs[j].id \in seenOff' \/ Alike(rs[j], rules[j])
      <4>1. rules[j] \in Rule
        BY <1>1, RuleIs
      <4>2. CASE rules[j].id = r.id
        <5>1. /\ Kept(j) \in Rule /\ Kept(j).id = r.id /\ Kept(j).limit = r.limit
              /\ Kept(j).condition = r.condition
              /\ Kept(j).lastTriggeredState = rules[j].lastTriggeredState
          BY <2>1, <4>1 DEF Rule
        <5>2. rs[j] = Kept(j)
          BY <1>1, <4>2
        <5>. HIDE DEF Kept, rs
        <5>3. CASE Same
          <6>1. PICK k \in 1 .. Len(rules) : /\ rules[k].id = r.id /\ rules[k].limit = r.limit
                                             /\ rules[k].condition = r.condition
            BY <1>1, <5>3
          <6>2. k = j
            BY <1>1, <4>2, <6>1 DEF OwnIds
          <6>. QED BY <4>2, <5>1, <5>2, <6>1, <6>2 DEF Alike
        <5>4. CASE ~Same
          BY <2>2, <4>2, <5>1, <5>2, <5>4
        <5>. QED BY <5>3, <5>4
      <4>3. CASE rules[j].id # r.id
        BY <1>1, <4>1, <4>3 DEF Alike
      <4>. QED BY <4>2, <4>3
    <3>3. rs = [j \in DOMAIN rules |-> rs[j]]
      OBVIOUS
    <3>. HIDE DEF rs
    <3>4. rs \in Seq(Rule) /\ Len(rs) = Len(rules)
      <4>1. \A j \in 1 .. Len(rules) : rs[j] \in Rule
        BY <3>2
      <4>. QED BY <1>1, <3>3, <4>1, RewriteIs
    <3>5. TypeOK'
      BY <1>1, <1>2, <2>1, <2>2, <3>1, <3>4 DEF TypeOK
    <3>6. OwnIds(rules')
      <4>1. Len(rules') = Len(rules) /\ \A j \in 1 .. Len(rules) : rules'[j].id = rules[j].id
        BY <3>1, <3>2, <3>4
      <4>. QED BY <1>1, <4>1 DEF OwnIds
    <3>7. \A j \in 1 .. Len(rules') :
            rules'[j].id \in seenOff' \/ \E k \in 1 .. Len(rules) : Alike(rules'[j], rules[k])
      BY <3>1, <3>2, <3>4
    <3>. QED BY <1>1, <1>2, <2>1, <2>2, <3>5, <3>6, <3>7, QuietKeeps DEF WalkInv
  <2>4. CASE r.id \notin Present
    <3>1. rules' = Append(rules, r)
      BY <1>3, <2>4 DEF SaveRule
    <3>2. \A j \in 1 .. Len(rules) : rules[j].id # r.id
      BY <1>1, <2>4 DEF Present
    <3>3. r.id \in seenOff'
      BY <1>1, <2>2, <3>2
    <3>4. /\ rules' \in Seq(Rule) /\ Len(rules') = Len(rules) + 1
          /\ \A i \in 1 .. Len(rules) : rules'[i] = rules[i]
          /\ rules'[Len(rules) + 1] = r
      BY <1>1, <2>1, <3>1, AppendIs
    <3>5. \A j \in 1 .. Len(rules') : j \in 1 .. Len(rules) \/ j = Len(rules) + 1
      BY <1>1, <3>4
    <3>6. TypeOK'
      BY <1>1, <1>2, <2>1, <2>2, <3>4 DEF TypeOK
    <3>7. OwnIds(rules')
      BY <1>1, <2>1, <3>1, <3>2, AppendKeepsIds
    <3>8. \A j \in 1 .. Len(rules') :
            rules'[j].id \in seenOff' \/ \E k \in 1 .. Len(rules) : Alike(rules'[j], rules[k])
      BY <3>3, <3>4, <3>5 DEF Alike
    <3>. QED BY <1>1, <1>2, <2>1, <2>2, <3>6, <3>7, <3>8, QuietKeeps DEF WalkInv
  <2>. QED BY <2>3, <2>4
<1>4. ASSUME NEW id \in RuleIds, DeleteRule(id) PROVE IInv'
  <2>1. routine' = routine /\ run' = run /\ seenOff' = seenOff
    BY <1>4 DEF DeleteRule
  <2>2. PICK n \in 1 .. Len(rules) : rules' = RemoveAt(rules, n)
    <3>1. \E i \in 1 .. Len(rules) : rules[i].id = id
      BY <1>1, <1>4 DEF DeleteRule, Present
    <3>2. rules' = RemoveAt(rules, Min({i \in 1 .. Len(rules) : rules[i].id = id}))
      BY <1>4, <3>1 DEF DeleteRule, RemoveFirstMatch, SelectInSeq
    <3>. QED BY <1>1, <3>1, <3>2, FirstWithIdIs
  <2>3. /\ rules' \in Seq(Rule)
        /\ \A i \in 1 .. Len(rules') :
             \E j \in 1 .. Len(rules) \ {n} : /\ rules'[i] = rules[j]
                                              /\ j = IF i < n THEN i ELSE i + 1
    BY <1>1, <2>2, RemoveAtIs
  <2>4. TypeOK'
    BY <1>1, <1>2, <2>1, <2>3 DEF TypeOK
  <2>6. OwnIds(rules')
    BY <1>1, <2>2, RemoveKeepsIds
  <2>7. \A i \in 1 .. Len(rules') : \E k \in 1 .. Len(rules) : Alike(rules'[i], rules[k])
    BY <2>3 DEF Alike
  <2>. QED BY <1>1, <1>2, <2>1, <2>4, <2>6, <2>7, QuietKeeps DEF WalkInv
<1>5. ASSUME NEW s \in Routines, SaveRoutine(s) PROVE IInv'
  <2>1. routine' = s /\ rules' = rules /\ seenOff' = seenOff /\ s \in Seq(RoutineStep)
    BY <1>5, Constants DEF SaveRoutine
  <2>2. ASSUME NEW t \in Runs
        PROVE  /\ run'[t] \in Run /\ run'[t].rule = run[t].rule /\ run'[t].price = run[t].price
               /\ run'[t] # Idle => run[t] # Idle
    <3>1. run'[t] = IF run[t].live THEN [run[t] EXCEPT !.steps = s] ELSE run[t]
      BY <1>5 DEF SaveRoutine
    <3>2. run[t] \in Run /\ (run[t].live => run[t] # Idle)
      BY <1>1, RunIs DEF Idle
    <3>. QED BY <2>1, <3>1, <3>2 DEF Run
  <2>3. run' \in [Runs -> Run]
    <3>1. run' = [t \in Runs |-> run'[t]]
      BY <1>5 DEF SaveRoutine
    <3>. QED BY <2>2, <3>1
  <2>4. \A t \in HandRuns : run'[t].rule = None
    BY <1>1, <2>2 DEF WalkInv, Runs
  <2>. QED BY <1>2, <2>1, <2>2, <2>3, <2>4, RunsKeep DEF Runs
<1>6. ASSUME DeleteRoutine PROVE IInv'
  <2>1. routine' = None /\ rules' = rules /\ seenOff' = seenOff
    BY <1>6 DEF DeleteRoutine
  <2>2. ASSUME NEW t \in Runs
        PROVE  /\ run'[t] \in Run /\ run'[t].rule = run[t].rule /\ run'[t].price = run[t].price
               /\ run'[t] # Idle => run[t] # Idle
    <3>. DEFINE r == [run[t] EXCEPT !.live = FALSE]
    <3>1. run'[t] = r
      BY <1>6 DEF DeleteRoutine
    <3>2. run[t] \in Run
      BY <1>1, RunIs
    <3>3. r \in Run /\ r.rule = run[t].rule /\ r.price = run[t].price
      BY <3>2 DEF Run
    <3>4. run[t] = Idle => r = Idle
      <4>1. run[t] = Idle => run[t].live = FALSE
        BY DEF Idle
      <4>2. run[t].live = FALSE => r = run[t]
        BY <3>2 DEF Run
      <4>. QED BY <4>1, <4>2
    <3>. HIDE DEF r
    <3>. QED BY <3>1, <3>3, <3>4
  <2>3. run' \in [Runs -> Run]
    <3>1. run' = [t \in Runs |-> run'[t]]
      BY <1>6 DEF DeleteRoutine
    <3>. QED BY <2>2, <3>1
  <2>4. \A t \in HandRuns : run'[t].rule = None
    BY <1>1, <2>2 DEF WalkInv, Runs
  <2>. QED BY <1>2, <2>1, <2>2, <2>3, <2>4, RunsKeep DEF Runs
<1>. QED BY <1>3, <1>4, <1>5, <1>6 DEF Edit

LEMMA PriceChangeKeeps == ASSUME IInv, PriceChange PROVE IInv'
<1>1. /\ TypeOK /\ rules \in Seq(Rule) /\ DOMAIN rules = 1 .. Len(rules) /\ WalkInv
      /\ rules' = rules /\ run' = run /\ disturbed' = disturbed
  BY DEF IInv, TypeOK, PriceChange
<1>2. seenOff' = seenOff \cup
        {rules[j].id : j \in {k \in DOMAIN rules : price' # None /\ ~Met(rules[k], price')}}
  BY DEF PriceChange
<1>3. \A j \in 1 .. Len(rules) : rules[j].id \in RuleIds
  BY <1>1, RuleIs
<1>4. seenOff \subseteq seenOff' /\ seenOff' \subseteq RuleIds
  BY <1>1, <1>2, <1>3 DEF TypeOK
<1>5. TypeOK'
  BY <1>1, <1>4 DEF TypeOK, PriceChange
<1>6. OwnIds(rules') /\ \A j \in 1 .. Len(rules') : Alike(rules'[j], rules[j])
  BY <1>1 DEF IInv, OwnIds, Alike
<1>7. \A j \in 1 .. Len(rules') :
        price' # None /\ ~Met(rules'[j], price') => rules'[j].id \in seenOff'
  BY <1>1, <1>2
<1>. QED BY <1>1, <1>4, <1>5, <1>6, <1>7, QuietKeeps DEF WalkInv

LEMMA BrokerKeeps == ASSUME IInv, Broker PROVE IInv'
<1>1. TypeOK /\ UNCHANGED <<rules, routine, run, seenOff, disturbed, price, changes, edits>>
      /\ fired' = {} /\ WalkInv
  BY DEF IInv, Broker
<1>2. connected' \in BOOLEAN
  BY Zenon DEF Broker, Disconnect, Reconnect
<1>3. outages' \in Nat
  BY <1>1 DEF TypeOK, Broker, Disconnect, Reconnect
<1>4. /\ routine' \in Routines \cup {None} /\ changes' \in Nat /\ edits' \in Nat
      /\ run' \in [Runs -> Run]
  BY <1>1 DEF TypeOK, Run
<1>. QED BY <1>1, <1>2, <1>3, <1>4, RunsKeep DEF WalkInv

(* After a restart any rule may fire again.                                *)
LEMMA RestartKeeps == ASSUME IInv, Restart PROVE IInv'
<1>1. /\ TypeOK /\ rules' = rules /\ disturbed' = RuleIds /\ price' = None
      /\ run' \in [Runs -> Run] /\ \A t \in Runs : run'[t] = Idle
  BY IdleTyped DEF IInv, Restart
<1>2. connected' \in BOOLEAN
  BY Zenon DEF Restart
<1>3. TypeOK'
  BY <1>1, <1>2 DEF TypeOK, Restart, Run
<1>4. OwnIds(rules')
  BY <1>1 DEF IInv, OwnIds
<1>5. WalkInv'
  BY <1>1, IdleTyped DEF WalkInv, Runs
<1>6. \A j \in 1 .. Len(rules') : rules'[j].id \in MayFire'
  BY <1>1, RuleIs DEF MayFire
<1>7. SeenInv'
  BY <1>1, <1>6 DEF SeenInv
<1>. QED BY <1>3, <1>4, <1>5, <1>7 DEF IInv

LEMMA NextKeeps == ASSUME IInv, [Next]_vars PROVE IInv'
<1>1. CASE Work
  BY <1>1, WorkKeeps
<1>2. CASE Edit \/ PriceChange \/ Broker \/ Restart
  BY <1>2, EditKeeps, PriceChangeKeeps, BrokerKeeps, RestartKeeps
<1>3. CASE UNCHANGED vars
  <2>1. TypeOK' /\ OwnIds(rules') /\ WalkInv'
    BY <1>3 DEF IInv, TypeOK, OwnIds, WalkInv, vars, envVars
  <2>2. SeenInv'
    BY <1>3 DEF IInv, SeenInv, MayFire, Awaited, Met, vars, envVars
  <2>. QED BY <2>1, <2>2 DEF IInv
<1>. QED BY <1>1, <1>2, <1>3 DEF Next

LEMMA Invariance == Spec => []IInv
<1>. QED BY InitIInv, NextKeeps, PTL DEF Spec

-----------------------------------------------------------------------------
(* The theorems                                                            *)

(* Rules, the routine and the calls under way are of their types: a walk   *)
(* that goes on after an await, with the rules and the routine edited      *)
(* under it, stays within what there is (backend/server.js, evaluateRules  *)
(* and runRoutine).                                                        *)
THEOREM TypeCorrect == Spec => []TypeOK
<1>1. IInv => TypeOK
  BY DEF IInv
<1>. QED BY <1>1, Invariance, PTL

(* A rule fires again for the same edge only if since it last fired two    *)
(* evaluations overlapped or the process ended: no edit, deletion or new   *)
(* price in the middle of a walk makes evaluateRules press a button twice. *)
THEOREM RulesRefireOnlyIfDisturbed == Spec => RefiresOnlyIfDisturbed
<1>1. ASSUME IInv, [Next]_vars
      PROVE  [fired' \subseteq seenOff \cup disturbed \cup disturbed']_vars
  <2>1. CASE Work
    BY <1>1, <2>1, WorkKeeps DEF MayFire
  <2>2. CASE Edit \/ PriceChange \/ Broker \/ Restart
    <3>1. fired' = {}
      BY <2>2 DEF Edit, PriceChange, Broker, Restart
    <3>. QED BY <3>1
  <2>3. CASE UNCHANGED vars
    BY <2>3
  <2>. QED BY <1>1, <2>1, <2>2, <2>3 DEF Next
<1>. QED BY <1>1, Invariance, PTL DEF Spec, RefiresOnlyIfDisturbed
=============================================================================
