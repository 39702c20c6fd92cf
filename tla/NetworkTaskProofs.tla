-------------------------- MODULE NetworkTaskProofs --------------------------
(***************************************************************************)
(* Proofs about NetworkTask for every set of networks and brokers, every   *)
(* limit and every first content of the config sector.  The inductive      *)
(* invariant is Control: the properties the runs check, and what each      *)
(* program point knows about the settings it works on.  It needs no types; *)
(* the type invariant in turn needs HasTarget, for a network is read from  *)
(* the target of a bring-up.                                               *)
(***************************************************************************)
EXTENDS NetworkTask, TLAPS

BringUpSteps == {"bringup", "joining", "mqstart", "mqwait", "wifiFailed",
                 "mqttFailed", "retry"}
SaveSteps    == {"saveErase", "saveProgram", "adopt"}

(* The settings a step works on exist; the ones being saved are proven.    *)
HasTarget ==
  /\ pc \in BringUpSteps \cup SaveSteps => Target # None
  /\ pc \in SaveSteps => mode = "trial" /\ candidate \in proven
  /\ pc = "lost" => cfgActive # None

(* From mqtt_start on, the client talks to the broker of the target.       *)
TalksToTarget == pc \in {"mqwait"} \cup SaveSteps => connCfg = Target

Control == NeverLockedOut /\ OnlyProvenSettings /\ BridgesOnActive
           /\ TrialIsOver /\ HasTarget /\ TalksToTarget

LEMMA FailedSteps ==
  ASSUME NEW k \in Kinds
  PROVE  FailedAt[k] \in {"wifiFailed", "mqttFailed"}
BY DEF Kinds, FailedAt

-----------------------------------------------------------------------------
(* The initial state                                                       *)

LEMMA InitControl == Init => Control
BY NetworkConstants
   DEF Init, Control, NeverLockedOut, OnlyProvenSettings, BridgesOnActive,
       TrialIsOver, HasTarget, TalksToTarget, Running, BringUpSteps, SaveSteps

LEMMA InitTypeOK == Init => TypeOK
<1>. SUFFICES ASSUME Init PROVE TypeOK
  OBVIOUS
<1>1. FirstFlash \in MaybeSettings /\ None \in MaybeSettings
  BY NetworkConstants DEF MaybeSettings
<1>2. Zero \in [Kinds -> Nat]
  BY DEF Zero
<1>3. FlagsOK
  BY Zenon DEF Init, FlagsOK
<1>4. ValuesOK
  BY <1>1, <1>2 DEF Init, ValuesOK, Steps
<1>. QED BY <1>3, <1>4 DEF TypeOK

-----------------------------------------------------------------------------
(* Control is preserved.                                                   *)

LEMMA NetStepControl == Control /\ NetStep => Control'
<1>. SUFFICES ASSUME Control, NetStep PROVE Control'
  OBVIOUS
<1>. USE DEF Control, NeverLockedOut, OnlyProvenSettings, BridgesOnActive, TrialIsOver,
         HasTarget, TalksToTarget, Running, SaveSteps, BringUpSteps, Target, Goto,
         cfgVars, cntVars, netVars, mqttVars, bleVars, envVars
<1>. UNCHANGED envVars
  BY DEF NetStep
<1>1. CASE Top
  <2>. UNCHANGED <<notif, cfgVars, cntVars, netVars, mqttVars, bleVars, handoff,
                   proven, lastCmd>>
    BY <1>1 DEF Top
  <2>1. CASE TopForget
    BY <2>1 DEF TopForget
  <2>2. CASE TopCommit
    BY <2>2 DEF TopCommit
  <2>3. CASE TopIdleOrBringUp
    BY <2>3 DEF TopIdleOrBringUp
  <2>. QED BY <1>1, <2>1, <2>2, <2>3 DEF Top
<1>2. CASE IdleWait
  BY <1>2 DEF IdleWait, WaitEvents
<1>3. CASE Erase
  BY <1>3 DEF Erase
<1>4. CASE DropConnections
  BY <1>4 DEF DropConnections, MqttAbort, WifiLeave
<1>5. CASE LoadActive
  BY <1>5, NetworkConstants DEF LoadActive, Zero
<1>6. CASE RefreshBle
  BY <1>6 DEF RefreshBle, StartBle
<1>7. CASE TakeCandidate
  BY <1>7, NetworkConstants DEF TakeCandidate, Zero
<1>8. CASE NothingToTake
  BY <1>8 DEF NothingToTake, Zero
<1>9. CASE BringUp
  BY <1>9 DEF BringUp, WifiLeave
<1>10. CASE JoinUp
  BY <1>10 DEF JoinUp
<1>11. CASE JoinFail
  BY <1>11 DEF JoinFail, WifiLeave
<1>12. CASE JoinPoll
  BY <1>12 DEF JoinPoll, WaitEvents, Interrupted, WifiLeave, Abandon, Zero
<1>13. CASE MqttStart
  BY <1>13 DEF MqttStart
<1>14. CASE MqttReady
  BY <1>14 DEF MqttReady, Zero
<1>15. CASE MqttFail
  BY <1>15 DEF MqttFail, MqttAbort
<1>16. CASE MqttPoll
  BY <1>16 DEF MqttPoll, WaitEvents, Interrupted, MqttAbort, Abandon, Zero
<1>17. CASE \E k \in Kinds : ActiveFailed(k)
  BY <1>17, FailedSteps DEF ActiveFailed, StartBle, Failed, FailedAt
<1>18. CASE \E k \in Kinds : TrialFailed(k)
  BY <1>18, FailedSteps DEF TrialFailed, MqttAbort, Zero,
     Failed, FailedAt
<1>19. CASE RetryWait
  BY <1>19 DEF RetryWait, WaitEvents, Interrupted, Abandon, Zero
<1>20. CASE SaveErase
  BY <1>20 DEF SaveErase
<1>21. CASE SaveProgram
  BY <1>21 DEF SaveProgram
<1>22. CASE Adopt
  BY <1>22 DEF Adopt
<1>23. CASE OnlinePoll
  BY <1>23 DEF OnlinePoll, WaitEvents, Interrupted, LeaveOnline, Zero
<1>24. CASE BleOff
  BY <1>24 DEF BleOff
<1>25. CASE CheckLink
  BY <1>25 DEF CheckLink, LeaveOnline, Zero
<1>26. CASE LinkNotSeenYet
  BY <1>26 DEF LinkNotSeenYet
<1>27. CASE OnlineLost
  BY <1>27 DEF OnlineLost, LeaveOnline, Zero
<1>28. CASE LostWait
  BY <1>28 DEF LostWait, WaitEvents
<1>. QED BY <1>1, <1>2, <1>3, <1>4, <1>5, <1>6, <1>7, <1>8, <1>9, <1>10,
     <1>11, <1>12, <1>13, <1>14, <1>15, <1>16, <1>17, <1>18, <1>19, <1>20,
     <1>21, <1>22, <1>23, <1>24, <1>25, <1>26, <1>27, <1>28 DEF NetStep

LEMMA BleStepControl == Control /\ BleStep => Control'
<1>. SUFFICES ASSUME Control, BleStep PROVE Control'
  OBVIOUS
<1>. USE DEF Control, NeverLockedOut, OnlyProvenSettings, BridgesOnActive, TrialIsOver,
         HasTarget, TalksToTarget, Running, SaveSteps, BringUpSteps, Target,
         taskVars, cfgVars, cntVars, netVars, mqttVars, bleVars, envVars
<1>. UNCHANGED <<taskVars, cfgVars, cntVars, netVars, mqttVars, cuts, proven>>
  BY DEF BleStep
<1>1. CASE ClientConnect
  BY <1>1 DEF ClientConnect
<1>2. CASE ClientLeave
  BY <1>2 DEF ClientLeave
<1>3. CASE WriteForget
  BY <1>3 DEF WriteForget
<1>4. CASE \E c \in Settings : WriteApply(c)
  BY <1>4 DEF WriteApply
<1>. QED BY <1>1, <1>2, <1>3, <1>4 DEF BleStep

LEMMA EnvStepControl == Control /\ EnvStep => Control'
<1>. SUFFICES ASSUME Control, EnvStep PROVE Control'
  OBVIOUS
<1>. USE DEF Control, NeverLockedOut, OnlyProvenSettings, BridgesOnActive, TrialIsOver,
         HasTarget, TalksToTarget, Running, SaveSteps, BringUpSteps, Target,
         taskVars, cfgVars, cntVars, netVars, mqttVars, bleVars, envVars
<1>. UNCHANGED <<taskVars, notif, cfgVars, fails, tries, joined, bleVars,
               handoff, envVars, proven, lastCmd>>
  BY DEF EnvStep
<1>1. CASE MqttAccepted
  BY <1>1 DEF MqttAccepted
<1>2. CASE MqttDropped
  BY <1>2 DEF MqttDropped
<1>3. CASE LinkDrop
  BY <1>3 DEF LinkDrop
<1>4. CASE OnlineTime
  BY <1>4 DEF OnlineTime
<1>. QED BY <1>1, <1>2, <1>3, <1>4 DEF EnvStep

LEMMA StepControl == Control /\ [Next]_vars => Control'
<1>. SUFFICES ASSUME Control, [Next]_vars PROVE Control'
  OBVIOUS
<1>1. CASE PowerCut
  BY <1>1 DEF PowerCut, Control, NeverLockedOut, OnlyProvenSettings, BridgesOnActive, TrialIsOver,
         HasTarget, TalksToTarget, Running, SaveSteps, BringUpSteps, Target
<1>2. CASE UNCHANGED vars
  BY <1>2 DEF vars, taskVars, cfgVars, cntVars, netVars, mqttVars, bleVars, envVars,
     Control, NeverLockedOut, OnlyProvenSettings, BridgesOnActive, TrialIsOver,
         HasTarget, TalksToTarget, Running, SaveSteps, BringUpSteps, Target
<1>. QED BY <1>1, <1>2, NetStepControl, BleStepControl, EnvStepControl DEF Next

-----------------------------------------------------------------------------
(* So are the types: first the flags, then everything else.                *)

LEMMA NetStepFlags == FlagsOK /\ NetStep => FlagsOK'
<1>. SUFFICES ASSUME FlagsOK, NetStep PROVE FlagsOK'
  OBVIOUS
<1>. USE DEF FlagsOK, Goto, cfgVars, cntVars, netVars, mqttVars, bleVars, envVars
<1>. UNCHANGED envVars
  BY DEF NetStep
<1>1. CASE Top
  <2>. UNCHANGED <<notif, cfgVars, cntVars, netVars, mqttVars, bleVars, handoff,
                   proven, lastCmd>>
    BY <1>1 DEF Top
  <2>1. CASE TopForget
    BY <2>1, Zenon DEF TopForget
  <2>2. CASE TopCommit
    BY <2>2, Zenon DEF TopCommit
  <2>3. CASE TopIdleOrBringUp
    BY <2>3, Zenon DEF TopIdleOrBringUp
  <2>. QED BY <1>1, <2>1, <2>2, <2>3 DEF Top
<1>2. CASE IdleWait
  BY <1>2, Zenon DEF IdleWait, WaitEvents
<1>3. CASE Erase
  BY <1>3, Zenon DEF Erase
<1>4. CASE DropConnections
  BY <1>4, Zenon DEF DropConnections, MqttAbort, WifiLeave
<1>5. CASE LoadActive
  BY <1>5, Zenon DEF LoadActive, Zero
<1>6. CASE RefreshBle
  BY <1>6, Zenon DEF RefreshBle, StartBle
<1>7. CASE TakeCandidate
  BY <1>7, Zenon DEF TakeCandidate, Zero
<1>8. CASE NothingToTake
  BY <1>8, Zenon DEF NothingToTake, Zero
<1>9. CASE BringUp
  BY <1>9, Zenon DEF BringUp, WifiLeave, Target
<1>10. CASE JoinUp
  BY <1>10, Zenon DEF JoinUp, Target
<1>11. CASE JoinFail
  BY <1>11, Zenon DEF JoinFail, WifiLeave
<1>12. CASE JoinPoll
  BY <1>12, Zenon DEF JoinPoll, WaitEvents, Interrupted, WifiLeave,
     Abandon, Zero
<1>13. CASE MqttStart
  BY <1>13, Zenon DEF MqttStart, Target
<1>14. CASE MqttReady
  BY <1>14, Zenon DEF MqttReady, Target, Zero
<1>15. CASE MqttFail
  BY <1>15, Zenon DEF MqttFail, MqttAbort
<1>16. CASE MqttPoll
  BY <1>16, Zenon DEF MqttPoll, WaitEvents, Interrupted, MqttAbort,
     Abandon, Zero
<1>17. CASE \E k \in Kinds : ActiveFailed(k)
  BY <1>17, Zenon DEF ActiveFailed, StartBle, Failed, FailedAt
<1>18. CASE \E k \in Kinds : TrialFailed(k)
  BY <1>18, Zenon DEF TrialFailed, MqttAbort, Zero, Failed,
     FailedAt
<1>19. CASE RetryWait
  BY <1>19, Zenon DEF RetryWait, WaitEvents, Interrupted, Abandon, Zero
<1>20. CASE SaveErase
  BY <1>20, Zenon DEF SaveErase
<1>21. CASE SaveProgram
  BY <1>21, Zenon DEF SaveProgram
<1>22. CASE Adopt
  BY <1>22, Zenon DEF Adopt
<1>23. CASE OnlinePoll
  BY <1>23, Zenon DEF OnlinePoll, WaitEvents, Interrupted, LeaveOnline,
     Zero
<1>24. CASE BleOff
  BY <1>24, Zenon DEF BleOff
<1>25. CASE CheckLink
  BY <1>25, Zenon DEF CheckLink, LeaveOnline, Zero
<1>26. CASE LinkNotSeenYet
  BY <1>26, Zenon DEF LinkNotSeenYet
<1>27. CASE OnlineLost
  BY <1>27, Zenon DEF OnlineLost, LeaveOnline, Zero
<1>28. CASE LostWait
  BY <1>28, Zenon DEF LostWait, WaitEvents
<1>. QED BY <1>1, <1>2, <1>3, <1>4, <1>5, <1>6, <1>7, <1>8, <1>9, <1>10,
     <1>11, <1>12, <1>13, <1>14, <1>15, <1>16, <1>17, <1>18, <1>19, <1>20,
     <1>21, <1>22, <1>23, <1>24, <1>25, <1>26, <1>27, <1>28 DEF NetStep

LEMMA NetStepValues == ValuesOK /\ HasTarget /\ NetStep => ValuesOK'
<1>. SUFFICES ASSUME ValuesOK, HasTarget, NetStep PROVE ValuesOK'
  OBVIOUS
<1>. USE DEF ValuesOK, HasTarget, Steps, MaybeSettings, Bits, Commands, Zero,
         BringUpSteps, SaveSteps, Target, Settings, Goto,
         cfgVars, cntVars, netVars, mqttVars, bleVars, envVars
<1>. UNCHANGED envVars
  BY DEF NetStep
<1>1. CASE Top
  <2>. UNCHANGED <<notif, cfgVars, cntVars, netVars, mqttVars, bleVars, handoff,
                   proven, lastCmd>>
    BY <1>1 DEF Top
  <2>1. CASE TopForget
    BY <2>1, NetworkConstants DEF TopForget
  <2>2. CASE TopCommit
    BY <2>2, NetworkConstants DEF TopCommit
  <2>3. CASE TopIdleOrBringUp
    BY <2>3, NetworkConstants DEF TopIdleOrBringUp
  <2>. QED BY <1>1, <2>1, <2>2, <2>3 DEF Top
<1>2. CASE IdleWait
  BY <1>2, NetworkConstants DEF IdleWait, WaitEvents
<1>3. CASE Erase
  BY <1>3, NetworkConstants DEF Erase
<1>4. CASE DropConnections
  BY <1>4, NetworkConstants DEF DropConnections, MqttAbort, WifiLeave
<1>5. CASE LoadActive
  BY <1>5, NetworkConstants DEF LoadActive
<1>6. CASE RefreshBle
  BY <1>6, NetworkConstants DEF RefreshBle, StartBle
<1>7. CASE TakeCandidate
  BY <1>7, NetworkConstants DEF TakeCandidate
<1>8. CASE NothingToTake
  BY <1>8, NetworkConstants DEF NothingToTake
<1>9. CASE BringUp
  BY <1>9, NetworkConstants DEF BringUp, WifiLeave
<1>10. CASE JoinUp
  BY <1>10, NetworkConstants DEF JoinUp
<1>11. CASE JoinFail
  BY <1>11, NetworkConstants DEF JoinFail, WifiLeave
<1>12. CASE JoinPoll
  BY <1>12, NetworkConstants DEF JoinPoll, WaitEvents, Interrupted,
     WifiLeave, Abandon
<1>13. CASE MqttStart
  BY <1>13, NetworkConstants DEF MqttStart
<1>14. CASE MqttReady
  <2>1. Target \in Settings
    BY <1>14 DEF MqttReady
  <2>2. proven' \subseteq Settings
    BY <1>14, <2>1 DEF MqttReady
  <2>3. pc' \in Steps /\ events' \subseteq Bits
    BY <1>14 DEF MqttReady
  <2>4. fails' \in [Kinds -> Nat]
    BY <1>14 DEF MqttReady
  <2>5. onlineFor' \in {"fresh", "grace", "max"}
    BY <1>14 DEF MqttReady
  <2>. QED BY <1>14, <2>2, <2>3, <2>4, <2>5 DEF MqttReady
<1>15. CASE MqttFail
  BY <1>15, NetworkConstants DEF MqttFail, MqttAbort
<1>16. CASE MqttPoll
  BY <1>16, NetworkConstants DEF MqttPoll, WaitEvents, Interrupted,
     MqttAbort, Abandon
<1>17. CASE \E k \in Kinds : ActiveFailed(k)
  BY <1>17, NetworkConstants DEF ActiveFailed, StartBle, Failed, FailedAt
<1>18. CASE \E k \in Kinds : TrialFailed(k)
  BY <1>18, NetworkConstants DEF TrialFailed, MqttAbort,
     Failed, FailedAt
<1>19. CASE RetryWait
  BY <1>19, NetworkConstants DEF RetryWait, WaitEvents, Interrupted,
     Abandon
<1>20. CASE SaveErase
  BY <1>20, NetworkConstants DEF SaveErase
<1>21. CASE SaveProgram
  BY <1>21, NetworkConstants DEF SaveProgram
<1>22. CASE Adopt
  BY <1>22, NetworkConstants DEF Adopt
<1>23. CASE OnlinePoll
  BY <1>23, NetworkConstants DEF OnlinePoll, WaitEvents, Interrupted,
     LeaveOnline
<1>24. CASE BleOff
  BY <1>24, NetworkConstants DEF BleOff
<1>25. CASE CheckLink
  BY <1>25, NetworkConstants DEF CheckLink, LeaveOnline
<1>26. CASE LinkNotSeenYet
  BY <1>26, NetworkConstants DEF LinkNotSeenYet
<1>27. CASE OnlineLost
  BY <1>27, NetworkConstants DEF OnlineLost, LeaveOnline
<1>28. CASE LostWait
  BY <1>28, NetworkConstants DEF LostWait, WaitEvents
<1>. QED BY <1>1, <1>2, <1>3, <1>4, <1>5, <1>6, <1>7, <1>8, <1>9, <1>10,
     <1>11, <1>12, <1>13, <1>14, <1>15, <1>16, <1>17, <1>18, <1>19, <1>20,
     <1>21, <1>22, <1>23, <1>24, <1>25, <1>26, <1>27, <1>28 DEF NetStep

LEMMA BleStepTypes == TypeOK /\ BleStep => TypeOK'
<1>. SUFFICES ASSUME TypeOK, BleStep PROVE TypeOK'
  OBVIOUS
<1>. USE DEF TypeOK, FlagsOK, ValuesOK, MaybeSettings, Bits, Commands,
         taskVars, cfgVars, cntVars, netVars, mqttVars, bleVars, envVars
<1>. UNCHANGED <<taskVars, cfgVars, cntVars, netVars, mqttVars, cuts, proven>>
  BY DEF BleStep
<1>1. CASE ClientConnect
  BY <1>1 DEF ClientConnect
<1>2. CASE ClientLeave
  <2>1. FlagsOK'
    BY <1>2, Zenon DEF ClientLeave
  <2>2. ValuesOK'
    BY <1>2 DEF ClientLeave
  <2>. QED BY <2>1, <2>2
<1>3. CASE WriteForget
  BY <1>3 DEF WriteForget
<1>4. CASE \E c \in Settings : WriteApply(c)
  BY <1>4 DEF WriteApply
<1>. QED BY <1>1, <1>2, <1>3, <1>4 DEF BleStep

LEMMA EnvStepTypes == TypeOK /\ EnvStep => TypeOK'
<1>. SUFFICES ASSUME TypeOK, EnvStep PROVE TypeOK'
  OBVIOUS
<1>. USE DEF TypeOK, FlagsOK, ValuesOK,
         taskVars, cfgVars, cntVars, netVars, mqttVars, bleVars, envVars
<1>. UNCHANGED <<taskVars, notif, cfgVars, fails, tries, joined, bleVars,
               handoff, envVars, proven, lastCmd>>
  BY DEF EnvStep
<1>1. CASE MqttAccepted
  BY <1>1 DEF MqttAccepted
<1>2. CASE MqttDropped
  BY <1>2 DEF MqttDropped
<1>3. CASE LinkDrop
  <2>1. link' = FALSE /\ UNCHANGED <<conn, connCfg, mqttUp, mqttStatus, onlineFor>>
    BY <1>3 DEF LinkDrop
  <2>2. FlagsOK'
    BY <2>1, Zenon
  <2>3. ValuesOK'
    BY <2>1
  <2>. QED BY <2>2, <2>3
<1>4. CASE OnlineTime
  BY <1>4 DEF OnlineTime
<1>. QED BY <1>1, <1>2, <1>3, <1>4 DEF EnvStep

LEMMA StepTypeOK == TypeOK /\ HasTarget /\ [Next]_vars => TypeOK'
<1>. SUFFICES ASSUME TypeOK, HasTarget, [Next]_vars PROVE TypeOK'
  OBVIOUS
<1>1. CASE NetStep
  BY <1>1, NetStepFlags, NetStepValues DEF TypeOK
<1>2. CASE PowerCut
  <2>1. FlagsOK'
    BY <1>2, Zenon DEF PowerCut, FlagsOK
  <2>2. ValuesOK'
    BY <1>2, NetworkConstants DEF PowerCut, TypeOK, ValuesOK, Steps, MaybeSettings, Zero
  <2>. QED BY <2>1, <2>2 DEF TypeOK
<1>3. CASE UNCHANGED vars
  BY <1>3 DEF vars, taskVars, cfgVars, cntVars, netVars, mqttVars, bleVars, envVars,
     TypeOK, FlagsOK, ValuesOK
<1>. QED BY <1>1, <1>2, <1>3, BleStepTypes, EnvStepTypes DEF Next

-----------------------------------------------------------------------------
(* Whatever is tried, erased, half written or cut off, the hub can be      *)
(* reached: it has settings or it is advertising over BLE.                 *)
THEOREM HubIsNeverLockedOut == Spec => []NeverLockedOut
<1>1. Control => NeverLockedOut
  BY DEF Control
<1>. QED BY <1>1, InitControl, StepControl, PTL DEF Spec

(* Settings are stored, and adopted, only once Wi-Fi and MQTT were both up *)
(* with them.                                                              *)
THEOREM OnlyProvenSettingsAreKept == Spec => []OnlyProvenSettings
<1>1. Control => OnlyProvenSettings
  BY DEF Control
<1>. QED BY <1>1, InitControl, StepControl, PTL DEF Spec

(* run_online only ever serves the broker of the settings in use.          *)
THEOREM OnlineMeansActive == Spec => []BridgesOnActive
<1>1. Control => BridgesOnActive
  BY DEF Control
<1>. QED BY <1>1, InitControl, StepControl, PTL DEF Spec

(* No path out of handle_commit leaves a candidate behind.                 *)
THEOREM NoCandidateOutlivesItsTrial == Spec => []TrialIsOver
<1>1. Control => TrialIsOver
  BY DEF Control
<1>. QED BY <1>1, InitControl, StepControl, PTL DEF Spec

(* Every variable keeps its type in every reachable state.                 *)
THEOREM TypeCorrect == Spec => []TypeOK
<1>1. Control => HasTarget
  BY DEF Control
<1>2. TypeOK /\ Control /\ [Next]_vars => (TypeOK /\ Control)'
  BY <1>1, StepTypeOK, StepControl
<1>. QED BY <1>2, InitTypeOK, InitControl, PTL DEF Spec
-----------------------------------------------------------------------------
(* The radio: two steps of the task turn it on, and no callback does.      *)

LEMMA OnlyTwoTurnOn ==
  ASSUME NetStep, ~RefreshBle, ~\E k \in Kinds : ActiveFailed(k), bleActive' PROVE bleActive
<1>. USE DEF bleVars
<1>1. CASE \/ Top \/ IdleWait \/ Erase \/ DropConnections \/ LoadActive
           \/ TakeCandidate \/ NothingToTake
  BY <1>1 DEF Top, IdleWait, Erase, DropConnections, LoadActive, TakeCandidate, NothingToTake
<1>2. CASE BringUp \/ JoinUp \/ JoinFail \/ JoinPoll
  BY <1>2 DEF BringUp, JoinUp, JoinFail, JoinPoll
<1>3. CASE MqttStart \/ MqttReady \/ MqttFail \/ MqttPoll
  BY <1>3 DEF MqttStart, MqttReady, MqttFail, MqttPoll
<1>4. CASE \E k \in Kinds : TrialFailed(k)
  BY <1>4 DEF TrialFailed
<1>5. CASE RetryWait \/ SaveErase \/ SaveProgram \/ Adopt
  BY <1>5 DEF RetryWait, SaveErase, SaveProgram, Adopt
<1>6. CASE OnlinePoll \/ CheckLink \/ LinkNotSeenYet \/ OnlineLost \/ LostWait
  BY <1>6 DEF OnlinePoll, CheckLink, LinkNotSeenYet, OnlineLost, LostWait
<1>7. CASE BleOff
  BY <1>7 DEF BleOff
<1>. QED BY <1>1, <1>2, <1>3, <1>4, <1>5, <1>6, <1>7 DEF NetStep

LEMMA StepRadio ==
  ASSUME [Next]_vars, ~bleActive, bleActive', cfgActive # None
  PROVE  \E k \in Kinds : fails'[k] >= FailsBeforeBle[k]
<1>1. CASE NetStep
  <2>1. CASE RefreshBle
    BY <2>1 DEF RefreshBle, bleVars
  <2>2. CASE \E k \in Kinds : ActiveFailed(k)
    BY <2>2 DEF ActiveFailed, bleVars
  <2>. QED BY <1>1, <2>1, <2>2, OnlyTwoTurnOn
<1>2. CASE BleStep
  BY <1>2 DEF BleStep, ClientConnect, ClientLeave, WriteForget, WriteApply
<1>3. CASE EnvStep \/ PowerCut \/ UNCHANGED vars
  BY <1>3 DEF EnvStep, PowerCut, vars, bleVars
<1>. QED BY <1>1, <1>2, <1>3 DEF Next

(* A hub that has settings turns its radio on for set-up only when Wi-Fi   *)
(* or MQTT failed as often as its limit says: a running hub is not open to *)
(* everybody near it (mqtt_manager.cpp, task and handle_forget).           *)
THEOREM RadioComesOnInTrouble == Spec => BleOnlyInTrouble
<1>1. [Next]_vars =>
        [~bleActive /\ bleActive' /\ cfgActive # None
           => \E k \in Kinds : fails'[k] >= FailsBeforeBle[k]]_vars
  BY StepRadio
<1>. QED BY <1>1, PTL DEF Spec, BleOnlyInTrouble
=============================================================================
