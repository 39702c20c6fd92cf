----------------------------- MODULE NetworkTask -----------------------------
(***************************************************************************)
(* The network task of the hub (firmware/src/mqtt_manager.cpp) with the    *)
(* part of firmware/src/ble_provision.cpp it talks to and the stored       *)
(* settings (net_config_flash.cpp).                                        *)
(*                                                                         *)
(* The BLE callbacks run on the cyw43 task, which preempts the network     *)
(* task anywhere outside their common lock; so do the callbacks of the     *)
(* MQTT client.  The network task is therefore cut at every wait, every    *)
(* locked call and every read of what a callback writes.  Settings are     *)
(* records of a Wi-Fi network (SSID and password) and a broker (host and   *)
(* port); whether a network or broker answers is left open.  Staging of    *)
(* single fields and the status notifications are not modelled here.       *)
(***************************************************************************)
EXTENDS Naturals

CONSTANTS
  Nets, Brokers,       \* Wi-Fi networks with their password; brokers
  None,                \* no settings, no network
  BuildDefault,        \* settings compiled in, or None
  FirstFlash,          \* what the config sector holds at the first boot
  FailsBeforeBle,      \* NET_WIFI_FAILS_BEFORE_BLE, NET_MQTT_FAILS_BEFORE_BLE
  CandidateTries,      \* NET_CANDIDATE_WIFI_TRIES, NET_CANDIDATE_MQTT_TRIES
  FlashFails,          \* may erasing or programming the sector fail?
  MaxCommands,         \* bound: APPLY and FORGET writes
  MaxClients,          \* bound: BLE connections
  MaxPowerCuts         \* bound: power cuts

Settings == [net : Nets, broker : Brokers]
Kinds    == {"wifi", "mqtt"}
Commands == {"COMMIT", "FORGET"}  \* NET_EVT_INTERRUPT
Bits     == Commands \cup {"LEFT"}  \* LEFT is NET_EVT_BLE_DISCONNECTED

ASSUME NetworkConstants ==
  /\ None \notin Settings /\ None \notin Nets
  /\ {BuildDefault, FirstFlash} \subseteq Settings \cup {None}
  /\ FailsBeforeBle \in [Kinds -> Nat \ {0}]
  /\ CandidateTries \in [Kinds -> Nat \ {0}]
  /\ FlashFails \in BOOLEAN
  /\ {MaxCommands, MaxClients, MaxPowerCuts} \subseteq Nat

VARIABLES
  pc, mode,       \* where the task is; bring-up of "active" or "trial" settings
  events, notif,  \* s_events; the notification bits not yet merged into it
  cfgActive,      \* s_active, None when not s_have_active
  candidate,      \* s_candidate
  fails, tries,   \* failure counters of task and of handle_commit, by kind
  onlineFor,      \* how long run_online has run: "fresh", "grace" or "max"
  flash,          \* the settings the config sector parses to, or None
  joined,         \* s_joined if s_wifi_up, else None
  link,           \* the Wi-Fi link itself is up
  mqttUp,         \* s_mqtt_up
  mqttStatus,     \* s_mqtt_status: "none" yet or "failed"
  conn, connCfg,  \* lwIP's MQTT client and the settings it was started with
  bleActive, con, \* s_active and s_con of ble_provision
  bleCurrent, staged, handoff,  \* s_current, s_staged, s_handoff
  commands, clients, cuts,      \* what the bounds count
  proven,         \* ghost: settings with which Wi-Fi and MQTT were both up
  lastCmd         \* ghost: the last command over BLE

taskVars == <<pc, mode, events>>
cfgVars  == <<cfgActive, candidate, flash>>
cntVars  == <<fails, tries, onlineFor>>
netVars  == <<joined, link>>
mqttVars == <<mqttUp, mqttStatus, conn, connCfg>>
bleVars  == <<bleActive, con, bleCurrent, staged>>
envVars  == <<commands, clients, cuts>>
vars == <<taskVars, notif, cfgVars, cntVars, netVars, mqttVars, bleVars,
          handoff, envVars, proven, lastCmd>>

Zero   == [k \in Kinds |-> 0]
Target == IF mode = "trial" THEN candidate ELSE cfgActive

Init ==
  /\ pc = "load" /\ mode = "active" /\ events = {} /\ notif = {}
  /\ cfgActive = None /\ candidate = None /\ flash = FirstFlash
  /\ fails = Zero /\ tries = Zero /\ onlineFor = "fresh"
  /\ joined = None /\ link = FALSE
  /\ mqttUp = FALSE /\ mqttStatus = "none" /\ conn = "off" /\ connCfg = None
  /\ bleActive = FALSE /\ con = FALSE /\ bleCurrent = None /\ staged = None
  /\ handoff = None /\ commands = 0 /\ clients = 0 /\ cuts = 0
  /\ proven = {} /\ lastCmd = "none"

-----------------------------------------------------------------------------
(* Pieces the steps below are built from.                                  *)

Goto(l) == pc' = l

(* wait_events: the bits that arrived are added to the ones not handled.   *)
WaitEvents   == events' = events \cup notif /\ notif' = {}
Interrupted  == events' \cap Commands # {}

WifiLeave == joined' = None /\ link' = FALSE

(* mqtt_abort: no callback comes any more.                                 *)
MqttAbort == mqttUp' = FALSE /\ conn' = "off" /\ UNCHANGED <<mqttStatus, connCfg>>

(* start_ble: s_current is refreshed even if the radio is already on.      *)
StartBle(c) == bleCurrent' = c /\ bleActive' = TRUE /\ UNCHANGED <<con, staged>>

(* Mutant: an aborted trial keeps its candidate.                           *)
AbandonKeeps ==
  /\ Goto("top")
  /\ fails' = IF mode = "trial" THEN Zero ELSE fails
  /\ UNCHANGED <<cfgVars, tries, onlineFor>>

(* A bring-up was aborted: handle_commit wipes its candidate and returns   *)
(* to task, which then clears its counters.                                *)
Abandon ==
  /\ Goto("top")
  /\ candidate' = None
  /\ fails' = IF mode = "trial" THEN Zero ELSE fails
  /\ UNCHANGED <<cfgActive, flash, tries, onlineFor>>

-----------------------------------------------------------------------------
(* task: the main loop                                                     *)

TopForget ==
  /\ pc = "top" /\ "FORGET" \in events
  /\ events' = events \ {"FORGET"} /\ Goto("erase")
  /\ UNCHANGED mode

TopCommit ==
  /\ pc = "top" /\ "FORGET" \notin events /\ "COMMIT" \in events
  /\ events' = events \ {"COMMIT"} /\ Goto("take")
  /\ UNCHANGED mode

TopIdleOrBringUp ==
  /\ pc = "top" /\ events \cap Commands = {}
  /\ events' = events \ {"LEFT"}
  /\ Goto(IF cfgActive = None THEN "idle" ELSE "bringup")
  /\ mode' = "active"

Top ==
  /\ TopForget \/ TopCommit \/ TopIdleOrBringUp
  /\ UNCHANGED <<notif, cfgVars, cntVars, netVars, mqttVars, bleVars, handoff,
                 proven, lastCmd>>

(* No settings: 60 s waits for BLE.                                        *)
IdleWait ==
  /\ pc = "idle" /\ WaitEvents /\ Goto("top")
  /\ UNCHANGED <<mode, cfgVars, cntVars, netVars, mqttVars, bleVars, handoff,
                 proven, lastCmd>>

-----------------------------------------------------------------------------
(* handle_forget and load_active                                           *)

Erase ==
  /\ pc = "erase" /\ Goto("drop")
  /\ flash' \in {None} \cup (IF FlashFails THEN {flash} ELSE {})
  /\ UNCHANGED <<mode, events, notif, cfgActive, candidate, cntVars, netVars,
                 mqttVars, bleVars, handoff, proven, lastCmd>>

DropConnections ==
  /\ pc = "drop" /\ Goto("load")
  /\ MqttAbort /\ WifiLeave
  /\ UNCHANGED <<mode, events, notif, cfgVars, cntVars, bleVars, handoff,
                 proven, lastCmd>>

LoadActive ==
  /\ pc = "load" /\ Goto("refresh")
  /\ cfgActive' = IF flash # None THEN flash ELSE BuildDefault
  /\ fails' = Zero
  /\ UNCHANGED <<mode, events, notif, candidate, flash, tries, onlineFor,
                 netVars, mqttVars, bleVars, handoff, proven, lastCmd>>

(* Mutant: a hub without settings does not turn BLE on.                    *)
RefreshBleIfActive ==
  /\ pc = "refresh" /\ Goto("top")
  /\ IF bleActive THEN StartBle(cfgActive) ELSE UNCHANGED bleVars
  /\ UNCHANGED <<mode, events, notif, cfgVars, cntVars, netVars, mqttVars,
                 handoff, proven, lastCmd>>

(* Mutant: BLE comes on at every boot.                                     *)
RefreshBleAlways ==
  /\ pc = "refresh" /\ Goto("top")
  /\ StartBle(cfgActive)
  /\ UNCHANGED <<mode, events, notif, cfgVars, cntVars, netVars, mqttVars,
                 handoff, proven, lastCmd>>

RefreshBle ==
  /\ pc = "refresh" /\ Goto("top")
  /\ IF cfgActive = None \/ bleActive THEN StartBle(cfgActive)
     ELSE UNCHANGED bleVars
  /\ UNCHANGED <<mode, events, notif, cfgVars, cntVars, netVars, mqttVars,
                 handoff, proven, lastCmd>>

-----------------------------------------------------------------------------
(* handle_commit: take_candidate, then up to CandidateTries bring-ups      *)

TakeCandidate ==
  /\ pc = "take" /\ handoff # None
  /\ candidate' = handoff /\ handoff' = None
  /\ mode' = "trial" /\ tries' = Zero /\ Goto("bringup")
  /\ UNCHANGED <<events, notif, cfgActive, flash, fails, onlineFor, netVars,
                 mqttVars, bleVars, proven, lastCmd>>

NothingToTake ==
  /\ pc = "take" /\ handoff = None
  /\ fails' = Zero /\ Goto("top")
  /\ UNCHANGED <<mode, events, notif, cfgVars, tries, onlineFor, netVars,
                 mqttVars, bleVars, handoff, proven, lastCmd>>

-----------------------------------------------------------------------------
(* bring_up: wifi_join unless already on the network, then MQTT            *)

BringUp ==
  /\ pc = "bringup"
  /\ IF joined = Target.net /\ link THEN Goto("mqstart") /\ UNCHANGED netVars
     ELSE Goto("joining") /\ WifiLeave
  /\ UNCHANGED <<mode, events, notif, cfgVars, cntVars, mqttVars, bleVars,
                 handoff, proven, lastCmd>>

(* Mutant: new settings are saved as soon as Wi-Fi works with them.        *)
JoinUpSaves ==
  /\ pc = "joining" /\ Goto(IF mode = "trial" THEN "saveErase" ELSE "mqstart")
  /\ joined' = Target.net /\ link' = TRUE
  /\ UNCHANGED <<mode, events, notif, cfgVars, cntVars, mqttVars, bleVars,
                 handoff, proven, lastCmd>>

(* Mutant: the whole settings are kept as the network joined.              *)
JoinUpWhole ==
  /\ pc = "joining" /\ Goto("mqstart")
  /\ joined' = Target /\ link' = TRUE
  /\ UNCHANGED <<mode, events, notif, cfgVars, cntVars, mqttVars, bleVars,
                 handoff, proven, lastCmd>>

JoinUp ==
  /\ pc = "joining" /\ Goto("mqstart")
  /\ joined' = Target.net /\ link' = TRUE
  /\ UNCHANGED <<mode, events, notif, cfgVars, cntVars, mqttVars, bleVars,
                 handoff, proven, lastCmd>>

(* Refused, no such network, wrong password or 15 s without an answer.     *)
JoinFail ==
  /\ pc = "joining" /\ Goto("wifiFailed")
  /\ WifiLeave
  /\ UNCHANGED <<mode, events, notif, cfgVars, cntVars, mqttVars, bleVars,
                 handoff, proven, lastCmd>>

JoinPoll ==
  /\ pc = "joining" /\ WaitEvents
  /\ IF Interrupted THEN Abandon /\ WifiLeave
     ELSE UNCHANGED <<pc, cfgVars, cntVars, netVars>>
  /\ UNCHANGED <<mode, mqttVars, bleVars, handoff, proven, lastCmd>>

MqttStart ==
  /\ pc = "mqstart"
  /\ mqttUp' = FALSE /\ mqttStatus' = "none"
  /\ \/ conn' = "connecting" /\ connCfg' = Target /\ Goto("mqwait")
     \/ conn' = "off" /\ UNCHANGED connCfg /\ Goto("mqttFailed")
  /\ UNCHANGED <<mode, events, notif, cfgVars, cntVars, netVars, bleVars,
                 handoff, proven, lastCmd>>

MqttReady ==
  /\ pc = "mqwait" /\ mqttUp
  /\ proven' = proven \cup {Target}
  /\ IF mode = "trial"
     THEN Goto("saveErase") /\ UNCHANGED <<fails, onlineFor, events>>
     ELSE /\ Goto("online") /\ fails' = Zero /\ onlineFor' = "fresh"
          /\ events' = events \ {"LEFT"}
  /\ UNCHANGED <<mode, notif, cfgVars, tries, netVars, mqttVars, bleVars,
                 handoff, lastCmd>>

(* The broker refused, or 10 s passed.                                     *)
MqttFail ==
  /\ pc = "mqwait" /\ ~mqttUp /\ Goto("mqttFailed")
  /\ MqttAbort
  /\ UNCHANGED <<mode, events, notif, cfgVars, cntVars, netVars, bleVars,
                 handoff, proven, lastCmd>>

MqttPoll ==
  /\ pc = "mqwait" /\ ~mqttUp /\ mqttStatus = "none" /\ WaitEvents
  /\ IF Interrupted THEN Abandon /\ MqttAbort
     ELSE UNCHANGED <<pc, cfgVars, cntVars, mqttVars>>
  /\ UNCHANGED <<mode, netVars, bleVars, handoff, proven, lastCmd>>

-----------------------------------------------------------------------------
(* What follows a failed bring-up                                          *)

FailedAt  == [wifi |-> "wifiFailed", mqtt |-> "mqttFailed"]
Failed(k) == pc = FailedAt[k]

(* task: count the failure; BLE comes on when one counter is at its limit. *)
ActiveFailed(k) ==
  /\ Failed(k) /\ mode = "active" /\ Goto("retry")
  /\ fails' = [fails EXCEPT ![k] = IF @ < FailsBeforeBle[k] THEN @ + 1 ELSE @]
  /\ IF ~bleActive /\ \E j \in Kinds : fails'[j] >= FailsBeforeBle[j]
     THEN StartBle(cfgActive) ELSE UNCHANGED bleVars
  /\ UNCHANGED <<mode, events, notif, cfgVars, tries, onlineFor, netVars,
                 mqttVars, handoff, proven, lastCmd>>

(* handle_commit: another try, or back to the previous settings.           *)
TrialFailed(k) ==
  /\ Failed(k) /\ mode = "trial"
  /\ tries' = [tries EXCEPT ![k] = @ + 1]
  /\ IF \E j \in Kinds : tries'[j] >= CandidateTries[j]
     THEN Goto("top") /\ candidate' = None /\ fails' = Zero /\ MqttAbort
     ELSE Goto("retry") /\ UNCHANGED <<candidate, fails, mqttVars>>
  /\ UNCHANGED <<mode, events, notif, cfgActive, flash, onlineFor, netVars,
                 bleVars, handoff, proven, lastCmd>>

RetryWait ==
  /\ pc = "retry" /\ WaitEvents
  /\ IF mode = "trial"
     THEN IF Interrupted THEN Abandon ELSE Goto("bringup") /\ UNCHANGED <<cfgVars, cntVars>>
     ELSE Goto("top") /\ UNCHANGED <<cfgVars, cntVars>>
  /\ UNCHANGED <<mode, netVars, mqttVars, bleVars, handoff, proven, lastCmd>>

-----------------------------------------------------------------------------
(* handle_commit, once online: save, adopt, run.  The sector is erased,    *)
(* then programmed, then read back; any of the three may fail.             *)

SaveErase ==
  /\ pc = "saveErase"
  /\ \/ flash' = None /\ Goto("saveProgram")
     \/ FlashFails /\ flash' \in {flash, None} /\ Goto("adopt")
  /\ UNCHANGED <<mode, events, notif, cfgActive, candidate, cntVars, netVars,
                 mqttVars, bleVars, handoff, proven, lastCmd>>

SaveProgram ==
  /\ pc = "saveProgram" /\ Goto("adopt")
  /\ flash' \in {candidate} \cup (IF FlashFails THEN {None} ELSE {})
  /\ UNCHANGED <<mode, events, notif, cfgActive, candidate, cntVars, netVars,
                 mqttVars, bleVars, handoff, proven, lastCmd>>

(* Mutant: the candidate is saved but the old settings stay in use.        *)
AdoptNothing ==
  /\ pc = "adopt" /\ Goto("online")
  /\ candidate' = None
  /\ onlineFor' = "fresh" /\ events' = events \ {"LEFT"}
  /\ UNCHANGED <<mode, notif, cfgActive, flash, fails, tries, netVars, mqttVars,
                 bleVars, handoff, proven, lastCmd>>

Adopt ==
  /\ pc = "adopt" /\ Goto("online")
  /\ cfgActive' = candidate /\ candidate' = None
  /\ onlineFor' = "fresh" /\ events' = events \ {"LEFT"}
  /\ UNCHANGED <<mode, notif, flash, fails, tries, netVars, mqttVars, bleVars,
                 handoff, proven, lastCmd>>

-----------------------------------------------------------------------------
(* run_online                                                              *)

(* A command, or the broker connection is gone: back to the main loop,     *)
(* whose counters handle_commit's caller clears.                           *)
LeaveOnline ==
  /\ fails' = IF mode = "trial" THEN Zero ELSE fails
  /\ UNCHANGED <<tries, onlineFor>>

(* Mutant: commands are not looked for while the hub is online.            *)
OnlinePollDeaf ==
  /\ pc = "online" /\ mqttUp /\ WaitEvents
  /\ LET left  == "LEFT" \in events'
         grace == onlineFor # "fresh" /\ ~con
     IN  Goto(IF bleActive /\ (left \/ grace \/ onlineFor = "max")
              THEN "bleoff" ELSE "link")
  /\ UNCHANGED <<mode, cfgVars, cntVars, netVars, mqttVars, bleVars, handoff,
                 proven, lastCmd>>

(* Mutant: BLE stays on as long as a client is connected.                  *)
OnlinePollPolite ==
  /\ pc = "online" /\ mqttUp /\ WaitEvents
  /\ LET left  == "LEFT" \in events'
         grace == onlineFor # "fresh" /\ ~con
     IN  IF Interrupted
         THEN Goto("top") /\ LeaveOnline
         ELSE /\ Goto(IF bleActive /\ (left \/ grace) THEN "bleoff" ELSE "link")
              /\ UNCHANGED cntVars
  /\ UNCHANGED <<mode, cfgVars, netVars, mqttVars, bleVars, handoff, proven,
                 lastCmd>>

OnlinePoll ==
  /\ pc = "online" /\ mqttUp /\ WaitEvents
  /\ LET left  == "LEFT" \in events'
         grace == onlineFor # "fresh" /\ ~con
     IN  IF Interrupted
         THEN Goto("top") /\ LeaveOnline
         ELSE /\ Goto(IF bleActive /\ (left \/ grace \/ onlineFor = "max")
                      THEN "bleoff" ELSE "link")
              /\ UNCHANGED cntVars
  /\ UNCHANGED <<mode, cfgVars, netVars, mqttVars, bleVars, handoff, proven,
                 lastCmd>>

(* ble_provision::stop: the decision above was made without the lock.      *)
BleOff ==
  /\ pc = "bleoff" /\ Goto("link")
  /\ bleActive' = FALSE /\ con' = FALSE /\ staged' = None /\ bleCurrent' = None
  /\ UNCHANGED <<mode, events, notif, cfgVars, cntVars, netVars, mqttVars,
                 handoff, proven, lastCmd>>

(* Five bad readings of the link in a row are one observation here.        *)
CheckLink ==
  /\ pc = "link" /\ events' = events \ {"LEFT"}
  /\ IF link /\ conn = "on"
     THEN Goto("online") /\ UNCHANGED <<cntVars, joined, mqttUp>>
     ELSE /\ Goto(IF mode = "trial" THEN "top" ELSE "lost") /\ LeaveOnline
          /\ joined' = IF link THEN joined ELSE None
          /\ mqttUp' = FALSE
  /\ UNCHANGED <<mode, notif, cfgVars, link, mqttStatus, conn, connCfg,
                 bleVars, handoff, proven, lastCmd>>

(* A drop the link check has not seen yet: fewer than five readings.       *)
LinkNotSeenYet ==
  /\ pc = "link" /\ ~link /\ conn = "on"
  /\ events' = events \ {"LEFT"} /\ Goto("online")
  /\ UNCHANGED <<mode, notif, cfgVars, cntVars, netVars, mqttVars, bleVars,
                 handoff, proven, lastCmd>>

OnlineLost ==
  /\ pc = "online" /\ ~mqttUp
  /\ Goto(IF mode = "trial" THEN "top" ELSE "lost") /\ LeaveOnline
  /\ UNCHANGED <<mode, events, notif, cfgVars, netVars, mqttVars, bleVars,
                 handoff, proven, lastCmd>>

(* "connection lost, retrying": 2 s.                                       *)
LostWait ==
  /\ pc = "lost" /\ WaitEvents /\ Goto("top")
  /\ UNCHANGED <<mode, cfgVars, cntVars, netVars, mqttVars, bleVars, handoff,
                 proven, lastCmd>>

NetStep ==
  /\ \/ Top \/ IdleWait \/ Erase \/ DropConnections \/ LoadActive \/ RefreshBle
     \/ TakeCandidate \/ NothingToTake
     \/ BringUp \/ JoinUp \/ JoinFail \/ JoinPoll
     \/ MqttStart \/ MqttReady \/ MqttFail \/ MqttPoll
     \/ \E k \in Kinds : ActiveFailed(k) \/ TrialFailed(k)
     \/ RetryWait \/ SaveErase \/ SaveProgram \/ Adopt
     \/ OnlinePoll \/ BleOff \/ CheckLink \/ LinkNotSeenYet \/ OnlineLost
     \/ LostWait
  /\ UNCHANGED envVars

-----------------------------------------------------------------------------
(* ble_provision: the BTstack callbacks                                    *)

ClientConnect ==
  /\ bleActive /\ ~con /\ clients < MaxClients
  /\ con' = TRUE /\ staged' = bleCurrent /\ clients' = clients + 1
  /\ UNCHANGED <<bleActive, bleCurrent, handoff, notif, commands, lastCmd>>

ClientLeave ==
  /\ con
  /\ con' = FALSE /\ staged' = None /\ notif' = notif \cup {"LEFT"}
  /\ UNCHANGED <<bleActive, bleCurrent, handoff, commands, clients, lastCmd>>

(* The field writes and the APPLY command that hands a valid staged copy   *)
(* over; an APPLY of invalid settings changes nothing here.                *)
WriteApply(c) ==
  /\ con /\ commands < MaxCommands
  /\ staged' = c /\ handoff' = c
  /\ notif' = notif \cup {"COMMIT"}
  /\ commands' = commands + 1 /\ lastCmd' = "apply"
  /\ UNCHANGED <<bleActive, con, bleCurrent, clients>>

WriteForget ==
  /\ con /\ commands < MaxCommands
  /\ notif' = notif \cup {"FORGET"}
  /\ commands' = commands + 1 /\ lastCmd' = "forget"
  /\ UNCHANGED <<bleActive, con, bleCurrent, staged, handoff, clients>>

BleStep ==
  /\ \/ ClientConnect \/ ClientLeave \/ WriteForget
     \/ \E c \in Settings : WriteApply(c)
  /\ UNCHANGED <<taskVars, cfgVars, cntVars, netVars, mqttVars, cuts, proven>>

-----------------------------------------------------------------------------
(* mqtt_connection_cb, the radio and the clock                             *)

MqttAccepted ==
  /\ conn = "connecting" /\ link
  /\ conn' = "on" /\ mqttUp' = TRUE
  /\ UNCHANGED <<mqttStatus, connCfg, link, onlineFor>>

(* Refused while connecting, or the connection is lost later.              *)
MqttDropped ==
  /\ conn # "off"
  /\ conn' = "off" /\ mqttUp' = FALSE /\ mqttStatus' = "failed"
  /\ UNCHANGED <<connCfg, link, onlineFor>>

LinkDrop ==
  /\ link /\ link' = FALSE
  /\ UNCHANGED <<mqttVars, onlineFor>>

(* BLE_OFF_GRACE_MS and BLE_ONLINE_MAX_MS pass while run_online runs.      *)
OnlineTime ==
  /\ pc \in {"online", "bleoff", "link"} /\ onlineFor # "max"
  /\ onlineFor' = IF onlineFor = "fresh" THEN "grace" ELSE "max"
  /\ UNCHANGED <<mqttVars, link>>

EnvStep ==
  /\ MqttAccepted \/ MqttDropped \/ LinkDrop \/ OnlineTime
  /\ UNCHANGED <<taskVars, notif, cfgVars, fails, tries, joined, bleVars,
                 handoff, envVars, proven, lastCmd>>

(* Power is cut and comes back.  A sector cut off while it is erased or    *)
(* programmed fails its CRC.                                               *)
PowerCut ==
  /\ cuts < MaxPowerCuts /\ cuts' = cuts + 1
  /\ flash' \in {flash} \cup
       (IF pc \in {"erase", "saveErase", "saveProgram"} THEN {None} ELSE {})
  /\ pc' = "load" /\ mode' = "active" /\ events' = {} /\ notif' = {}
  /\ cfgActive' = None /\ candidate' = None
  /\ fails' = Zero /\ tries' = Zero /\ onlineFor' = "fresh"
  /\ joined' = None /\ link' = FALSE
  /\ mqttUp' = FALSE /\ mqttStatus' = "none" /\ conn' = "off" /\ connCfg' = None
  /\ bleActive' = FALSE /\ con' = FALSE /\ bleCurrent' = None /\ staged' = None
  /\ handoff' = None /\ lastCmd' = "none"
  /\ UNCHANGED <<commands, clients, proven>>

Next == NetStep \/ BleStep \/ EnvStep \/ PowerCut

Spec == Init /\ [][Next]_vars

(* The task runs, and its timeouts and the clock do pass; nothing is       *)
(* assumed of the networks, the brokers or the BLE clients.                *)
FairSpec ==
  /\ Spec
  /\ WF_vars(NetStep)
  /\ WF_vars(JoinFail /\ UNCHANGED envVars)
  /\ WF_vars(MqttFail /\ UNCHANGED envVars)
  /\ WF_vars(OnlineTime /\ EnvStep)

-----------------------------------------------------------------------------
Running == pc \in {"online", "bleoff", "link"}
Steps == {"load", "refresh", "top", "idle", "erase", "drop", "take", "bringup",
          "joining", "mqstart", "mqwait", "wifiFailed", "mqttFailed", "retry",
          "saveErase", "saveProgram", "adopt", "online", "bleoff", "link", "lost"}
MaybeSettings == Settings \cup {None}

FlagsOK ==
  /\ link \in BOOLEAN /\ mqttUp \in BOOLEAN
  /\ bleActive \in BOOLEAN /\ con \in BOOLEAN

ValuesOK ==
  /\ pc \in Steps /\ mode \in {"active", "trial"}
  /\ events \subseteq Bits /\ notif \subseteq Bits
  /\ cfgActive \in MaybeSettings /\ candidate \in MaybeSettings
  /\ flash \in MaybeSettings /\ connCfg \in MaybeSettings
  /\ bleCurrent \in MaybeSettings /\ staged \in MaybeSettings
  /\ handoff \in MaybeSettings /\ proven \subseteq Settings
  /\ fails \in [Kinds -> Nat] /\ tries \in [Kinds -> Nat]
  /\ onlineFor \in {"fresh", "grace", "max"}
  /\ joined \in Nets \cup {None} /\ mqttStatus \in {"none", "failed"}
  /\ conn \in {"off", "connecting", "on"}
  /\ commands \in Nat /\ clients \in Nat /\ cuts \in Nat
  /\ lastCmd \in {"none", "apply", "forget"}

TypeOK == FlagsOK /\ ValuesOK

(* A hub with nothing to connect with can always be reached over BLE,      *)
(* whatever order of trials, erasures, failed writes and power cuts led    *)
(* there; "load" and "refresh" are the two steps that turn BLE on.         *)
NeverLockedOut ==
  cfgActive = None /\ pc \notin {"load", "refresh"} => bleActive

(* The config sector only ever holds what it held at first or settings     *)
(* with which both Wi-Fi and MQTT once came up, and so does the hub run    *)
(* only with those or the build defaults: a typo can never lock it out.    *)
OnlyProvenSettings ==
  /\ flash \in proven \cup {FirstFlash, None}
  /\ cfgActive \in proven \cup {FirstFlash, BuildDefault, None}

(* While the hub is running online its broker connection belongs to the    *)
(* settings in use, never to a candidate tried and dropped before.         *)
BridgesOnActive == Running => cfgActive # None /\ connCfg = cfgActive

(* A candidate exists only inside its own trial: no path out of            *)
(* handle_commit leaves one behind for a later bring-up to use.            *)
TrialIsOver ==
  candidate # None =>
    mode = "trial" /\ pc \in {"bringup", "joining", "mqstart", "mqwait", "retry",
         "wifiFailed", "mqttFailed", "saveErase", "saveProgram", "adopt"}

(* Settings applied over BLE and a FORGET are picked up whatever the task  *)
(* waits for, in a trial, a retry pause or an outage as well.              *)
CommandsGetThrough ==
  /\ handoff # None ~> handoff = None
  /\ "FORGET" \in notif ~> "FORGET" \notin notif \cup events

(* A hub that stays online turns BLE off, even if a client never leaves.   *)
BleGoesOff == <>[]Running => <>[]~bleActive

(* With working settings BLE comes on only after failures reached a limit. *)
BleOnlyInTrouble ==
  [][~bleActive /\ bleActive' /\ cfgActive # None
       => \E k \in Kinds : fails'[k] >= FailsBeforeBle[k]]_vars

-----------------------------------------------------------------------------
(* README: "Forget stored settings" erases them.  When nothing is left to  *)
(* handle and FORGET was the last command, the sector is empty.            *)
ForgetSticks ==
  lastCmd = "forget" /\ pc = "top" /\ (events \cup notif) \cap Commands = {}
    => flash = None
=============================================================================
