----------------------------- MODULE PriceRules -----------------------------
(***************************************************************************)
(* Price rules and routines of backend/server.js.                          *)
(*                                                                         *)
(* evaluateRules runs every minute, walks the live array of rules and      *)
(* awaits the action of a rule that fires: the PUBACK of a button press,   *)
(* or a routine with its delays.  Whatever the event loop has to do comes  *)
(* in between, the next evaluation included, for setInterval does not wait *)
(* for the one before.  A run of code between two awaits is one action.    *)
(*                                                                         *)
(* One routine stands for all.  A button is learned or not for good        *)
(* (LearnSession has the rest).                                            *)
(***************************************************************************)
EXTENDS Naturals, Sequences, SequencesExt

CONSTANTS
  RuleIds, Buttons, None,
  Learned,      \* the buttons with a complete signal
  Prices,       \* cents per kWh
  Limits,       \* values of thresholdCents
  Routines,     \* sequences of steps the routine may be given
  NewRules,     \* the rules that are posted
  Evaluations,  \* bound: evaluations under way at once
  HandRuns,     \* bound: routines started by hand under way at once
  MaxPrices,    \* bound: price changes
  MaxEdits,     \* bound: rules and routines saved or deleted
  MaxOutages    \* bound: losses of the broker connection and restarts

RoutineStep == [delay : BOOLEAN, button : Buttons]
Runs        == Evaluations \cup HandRuns
Actions     == Buttons \cup {"routine"}
Rule        == [id : RuleIds, enabled : BOOLEAN, condition : {"below", "above"},
                limit : Limits, action : Actions, lastTriggeredState : BOOLEAN]

ASSUME RuleConstants ==
  /\ None \notin RuleIds \cup Prices /\ None \notin Routines
  /\ "routine" \notin Buttons /\ Learned \subseteq Buttons
  /\ Prices \subseteq Nat /\ Limits \subseteq Nat /\ Routines \subseteq Seq(RoutineStep)
  /\ NewRules \subseteq {r \in Rule : ~r.lastTriggeredState}
  /\ Evaluations \cap HandRuns = {}
  /\ {MaxPrices, MaxEdits, MaxOutages} \subseteq Nat

VARIABLES
  rules,     \* priceRules in db.json
  routine,   \* the steps of the routine in db.json, None without it
  price,     \* getCurrentPriceCents(): None when no cached block covers now
  connected, \* to the broker
  run,       \* evaluateRules and runRoutine calls under way
  changes, edits, outages,  \* what the bounds count
  fired,     \* ghost: the rules the last step fired
  seenOff,   \* ghost: rules whose condition was off, or changed, since they fired
  disturbed  \* ghost: rules since whose firing two evaluations overlapped, or
             \* the process ended

envVars == <<price, connected, changes, edits, outages>>
vars == <<rules, routine, run, envVars, fired, seenOff, disturbed>>

Met(r, p) == IF r.condition = "below" THEN p < r.limit ELSE p > r.limit
Present   == {rules[i].id : i \in DOMAIN rules}
First(S)  == CHOOSE i \in S : \A j \in S : i <= j

(* A run: rule is None when it was started by hand; at is the index in the *)
(* array of rules, step the one in the steps.  A run that is live walks    *)
(* the routine of db.json itself, another one its steps alone.             *)
Idle == [pc |-> "off", price |-> None, rule |-> None, at |-> 0,
         steps |-> <<>>, live |-> FALSE, step |-> 0, button |-> None]

Init ==
  /\ rules = <<>> /\ routine \in Routines /\ price = None /\ connected = TRUE
  /\ run = [t \in Runs |-> Idle]
  /\ changes = 0 /\ edits = 0 /\ outages = 0 /\ fired = {} /\ seenOff = RuleIds /\ disturbed = {}

-----------------------------------------------------------------------------
(* fireButton and runRoutine                                               *)

(* A routine that is gone makes runRoutine throw, as if it had no steps.   *)
Steps(action) == IF action # "routine" THEN <<[delay |-> FALSE, button |-> action]>>
                 ELSE IF routine = None THEN <<>> ELSE routine

(* Where the steps next have to wait from the k-th on.  A button without a *)
(* signal is rejected at once, and a routine goes on after it.             *)
Waits(steps, k) ==
  {j \in k .. Len(steps) : steps[j].delay \/ steps[j].button \in Learned}

(* Mutant: the whole step is taken for its button.                         *)
WaitInStep(r, k) ==
  LET j == First(Waits(r.steps, k))
      s == r.steps[j]
  IN  [r EXCEPT !.pc = IF s.delay THEN "delay" ELSE "ack", !.step = j, !.button = s]

(* The run r, continued from step k; there is a step to wait in.           *)
WaitIn(r, k) ==
  LET j == First(Waits(r.steps, k))
      s == r.steps[j]
  IN  [r EXCEPT !.pc = IF s.delay THEN "delay" ELSE "ack", !.step = j, !.button = s.button]

Begin(r, action) ==
  WaitIn([r EXCEPT !.steps = Steps(action), !.live = action = "routine"], 1)

-----------------------------------------------------------------------------
(* evaluateRules                                                           *)

Fires(r, p) == r.enabled /\ Met(r, p) /\ ~r.lastTriggeredState

(* Mutant: an edge state once set is never taken back.                     *)
PersistedForGood(r, p) == [r EXCEPT !.lastTriggeredState = @ \/ Met(r, p)]

Persisted(r, p) == [r EXCEPT !.lastTriggeredState = Met(r, p)]

Alone(t) == \A u \in Evaluations \ {t} : run[u] = Idle

(* From index i of the rules rs on, up to the first that fires an action   *)
(* to wait for.  The ones passed are persisted with the new edge state,    *)
(* whether they fired or not; a rule not enabled is skipped.               *)
EvaluateFrom(t, rs, i, p) == \E stop \in i .. IF i > Len(rs) THEN i ELSE Len(rs) + 1 :
  LET waits(j) == Fires(rs[j], p) /\ Waits(Steps(rs[j].action), 1) # {}
  IN  /\ \A j \in i .. stop - 1 : ~waits(j)
      /\ stop <= Len(rs) => waits(stop)
      /\ rules' = [j \in DOMAIN rs |->
                     IF j \in i .. stop - 1 /\ rs[j].enabled
                     THEN Persisted(rs[j], p) ELSE rs[j]]
      /\ fired' = {rs[j].id : j \in {k \in i .. stop : k <= Len(rs) /\ Fires(rs[k], p)}}
      /\ seenOff' = (seenOff \ fired') \cup
                    {id \in fired' : price = None \/ \E j \in DOMAIN rs : rs[j].id = id /\ ~Met(rs[j], price)}
      /\ run' = [run EXCEPT ![t] =
                   IF stop > Len(rs) THEN Idle
                   ELSE Begin([Idle EXCEPT !.price = p, !.rule = rs[stop].id, !.at = stop],
                              rs[stop].action)]
      /\ disturbed' = IF Alone(t) THEN disturbed \ fired' ELSE RuleIds

EvaluateRules(t) ==
  /\ run[t] = Idle /\ price # None
  /\ EvaluateFrom(t, rules, 1, price)

(* The action is over: the rule, if it is still there, is persisted as     *)
(* triggered and the next index of the array is looked at.                 *)
ActionOver(t) ==
  IF run[t].rule = None
  THEN run' = [run EXCEPT ![t] = Idle] /\ fired' = {} /\ UNCHANGED <<rules, seenOff, disturbed>>
  ELSE EvaluateFrom(t, [j \in DOMAIN rules |->
                          IF rules[j].id = run[t].rule
                          THEN [rules[j] EXCEPT !.lastTriggeredState = TRUE] ELSE rules[j]],
                    run[t].at + 1, run[t].price)

GoOn(t) ==
  IF Waits(run[t].steps, run[t].step + 1) = {} THEN ActionOver(t)
  ELSE /\ run' = [run EXCEPT ![t] = WaitIn(@, @.step + 1)]
       /\ fired' = {} /\ UNCHANGED <<rules, seenOff, disturbed>>

(* Mutant: an unlearned button leaves the promise of the press open.       *)
DelayOverOpen(t) ==
  /\ run[t].pc = "delay" /\ run[t].button \in Learned
  /\ run' = [run EXCEPT ![t].pc = "ack"] /\ fired' = {} /\ UNCHANGED <<rules, seenOff, disturbed>>

(* The delay is over; the button read before it is pressed.                *)
DelayOver(t) ==
  /\ run[t].pc = "delay"
  /\ IF run[t].button \in Learned
     THEN run' = [run EXCEPT ![t].pc = "ack"] /\ fired' = {} /\ UNCHANGED <<rules, seenOff, disturbed>>
     ELSE GoOn(t)

(* The broker acknowledges; the client keeps a publish until it does.      *)
Acked(t) == run[t].pc = "ack" /\ connected /\ GoOn(t)

(* POST /api/routines/:id/run                                              *)
RunByHand(t) ==
  /\ run[t] = Idle /\ Waits(Steps("routine"), 1) # {}
  /\ run' = [run EXCEPT ![t] = Begin(Idle, "routine")]
  /\ fired' = {} /\ UNCHANGED <<rules, seenOff, disturbed>>

Step(t) == DelayOver(t) \/ Acked(t)

Work ==
  /\ \/ \E t \in Evaluations : EvaluateRules(t)
     \/ \E t \in HandRuns : RunByHand(t)
     \/ \E t \in Runs : Step(t)
  /\ UNCHANGED <<routine, envVars>>

-----------------------------------------------------------------------------
(* The REST API and the surroundings                                       *)

(* Mutant: saving a rule resets its edge state.                            *)
SaveRuleAfresh(r) ==
  /\ rules' = IF r.id \in Present
              THEN [j \in DOMAIN rules |-> IF rules[j].id = r.id THEN r ELSE rules[j]]
              ELSE Append(rules, r)
  /\ seenOff' = IF \E j \in DOMAIN rules : /\ rules[j].id = r.id
                                           /\ rules[j].condition = r.condition
                                           /\ rules[j].limit = r.limit
                THEN seenOff ELSE seenOff \cup {r.id}
  /\ UNCHANGED <<routine, run>>

(* POST /api/rules: an existing rule keeps its edge state.                 *)
SaveRule(r) ==
  /\ rules' = IF r.id \in Present
              THEN [j \in DOMAIN rules |->
                      IF rules[j].id = r.id
                      THEN [r EXCEPT !.lastTriggeredState = rules[j].lastTriggeredState]
                      ELSE rules[j]]
              ELSE Append(rules, r)
  /\ seenOff' = IF \E j \in DOMAIN rules : /\ rules[j].id = r.id
                                           /\ rules[j].condition = r.condition
                                           /\ rules[j].limit = r.limit
                THEN seenOff ELSE seenOff \cup {r.id}
  /\ UNCHANGED <<routine, run>>

(* DELETE /api/rules/:id; one rule at most has the id.                      *)
DeleteRule(id) ==
  /\ id \in Present
  /\ rules' = RemoveFirstMatch(rules, LAMBDA r : r.id = id)
  /\ UNCHANGED <<routine, run, seenOff>>

(* POST /api/routines: the object in db.json gets the new steps, and runs  *)
(* that walk it with it; without one a new object is made.                 *)
SaveRoutine(s) ==
  /\ routine' = s
  /\ run' = [t \in Runs |-> IF run[t].live THEN [run[t] EXCEPT !.steps = s] ELSE run[t]]
  /\ UNCHANGED <<rules, seenOff>>

(* DELETE /api/routines/:id: runs under way keep the object.               *)
DeleteRoutine ==
  /\ routine # None /\ routine' = None
  /\ run' = [t \in Runs |-> [run[t] EXCEPT !.live = FALSE]]
  /\ UNCHANGED <<rules, seenOff>>

Edit ==
  /\ edits < MaxEdits /\ edits' = edits + 1
  /\ \/ \E r \in NewRules : SaveRule(r)
     \/ \E id \in RuleIds : DeleteRule(id)
     \/ \E s \in Routines : SaveRoutine(s)
     \/ DeleteRoutine
  /\ fired' = {} /\ UNCHANGED <<disturbed, price, connected, changes, outages>>

(* The next block begins, or prices are refreshed.                         *)
PriceChange ==
  /\ changes < MaxPrices /\ changes' = changes + 1
  /\ price' \in (Prices \cup {None}) \ {price}
  /\ seenOff' = seenOff \cup
       {rules[j].id : j \in {k \in DOMAIN rules : price' # None /\ ~Met(rules[k], price')}}
  /\ fired' = {} /\ UNCHANGED <<rules, routine, run, connected, edits, outages, disturbed>>

Disconnect == connected /\ outages < MaxOutages /\ connected' = FALSE /\ outages' = outages + 1
Reconnect  == ~connected /\ connected' = TRUE /\ UNCHANGED outages

Broker ==
  /\ Disconnect \/ Reconnect
  /\ fired' = {} /\ UNCHANGED <<rules, routine, run, seenOff, disturbed, price, changes, edits>>

(* The process ends and starts anew from db.json, with no prices.          *)
Restart ==
  /\ outages < MaxOutages /\ outages' = outages + 1
  /\ run' = [t \in Runs |-> Idle] /\ price' = None /\ connected' = TRUE
  /\ fired' = {} /\ disturbed' = RuleIds
  /\ UNCHANGED <<rules, routine, seenOff, changes, edits>>

Next == Work \/ Edit \/ PriceChange \/ Broker \/ Restart
Spec == Init /\ [][Next]_vars

(* Evaluations keep being started, timers fire, and the client reconnects. *)
FairSpec ==
  /\ Spec /\ WF_vars(Broker /\ Reconnect)
  /\ \A t \in Evaluations : WF_vars(EvaluateRules(t) /\ UNCHANGED <<routine, envVars>>)
  /\ \A t \in Runs : WF_vars(Step(t) /\ UNCHANGED <<routine, envVars>>)

-----------------------------------------------------------------------------
TypeOK ==
  /\ rules \in Seq(Rule) /\ routine \in Routines \cup {None} /\ price \in Prices \cup {None}
  /\ connected \in BOOLEAN
  /\ run \in [Runs -> [pc : {"off", "delay", "ack"}, price : Prices \cup {None},
                       rule : RuleIds \cup {None}, at : Nat,
                       steps : Seq(RoutineStep), live : BOOLEAN, step : Nat, button : Buttons \cup {None}]]
  /\ changes \in Nat /\ edits \in Nat /\ outages \in Nat
  /\ fired \subseteq RuleIds /\ seenOff \subseteq RuleIds /\ disturbed \subseteq RuleIds

(* server.js: rules are edge-triggered.  A rule fires only if its          *)
(* condition was off, or was another one, since it last fired.             *)
FiresOncePerEdge == [][fired' \subseteq seenOff]_vars

(* What does hold of it: a rule fires again for the same edge only if      *)
(* since it last fired two evaluations overlapped or the process ended,    *)
(* whatever was edited, deleted or priced anew in the middle of a walk.    *)
RefiresOnlyIfDisturbed ==
  [][fired' \subseteq seenOff \cup disturbed \cup disturbed']_vars

(* When prices, rules and broker stay as they are, every enabled rule's    *)
(* edge state ends up as its condition says, whatever evaluations that     *)
(* began earlier, with another price or another rule, still write.         *)
Settled == \A j \in DOMAIN rules :
  price # None /\ rules[j].enabled => rules[j].lastTriggeredState = Met(rules[j], price)
RulesSettle == <>[](price # None) => <>[]Settled

(* Every evaluation and every routine under way comes to its end, though   *)
(* the routine is edited or deleted under it and presses fail or wait for  *)
(* the broker.                                                             *)
RunsEnd == \A t \in Runs : run[t] # Idle ~> run[t] = Idle
=============================================================================
