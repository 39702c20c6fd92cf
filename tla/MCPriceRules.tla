---------------------------- MODULE MCPriceRules ----------------------------
(* Values for the constants of PriceRules that a .cfg cannot write.        *)
EXTENDS PriceRules

CONSTANTS learned, unlearned

(* A routine that waits before its press, and one whose first press fails. *)
MCRoutines == {<<[delay |-> TRUE, button |-> learned],
                 [delay |-> TRUE, button |-> unlearned]>>,
               <<[delay |-> FALSE, button |-> unlearned],
                 [delay |-> FALSE, button |-> learned]>>}
SlowRoutine == {<<[delay |-> TRUE, button |-> learned]>>}

AllRules == {r \in Rule : ~r.lastTriggeredState}

(* Every action, a rule the other way round and one that is switched off.  *)
SomeRules == {r \in AllRules : r.enabled /\ r.condition = "below"} \cup
             {r \in AllRules : r.action = learned /\ (r.enabled # (r.condition = "below"))}
=============================================================================
