------------------------------ MODULE BleSetup ------------------------------
(***************************************************************************)
(* Setting up the hub over Bluetooth: the GATT server of                   *)
(* firmware/src/ble_provision.cpp and the set-up page of frontend/app.js.  *)
(*                                                                         *)
(* BTstack's callbacks run one after the other on the cyw43 task; the      *)
(* network task's calls take the lock they hold.  Each is one action.  The *)
(* page has one GATT request under way at a time, which is served and      *)
(* answered in one action; notifications take their own time over the air. *)
(* A text is a sequence of pieces, each as long as the link's MTU: one     *)
(* piece is a plain write, more are a prepared write of a piece at a time. *)
(* The field host stands for broker address and port.  Pairing and         *)
(* advertising are left out, and of the network task (NetworkTask) only    *)
(* what it takes from BLE and tells it is here.                            *)
(***************************************************************************)
EXTENDS Naturals, Sequences

CONSTANTS
  Texts, ValidTexts,   \* what may stand in a field; what validate accepts, by field
  Cap,                 \* field_cap, in pieces
  Blank,               \* a password that is not written
  Forms,               \* what the page's form may hold
  BuildDefault, Stored,\* the settings compiled in and stored, or None
  None,
  NotifyQueue,         \* NOTIFY_QUEUE
  MaxConnects, MaxApplies, MaxForgets, MaxEdits, MaxReports  \* bounds, by name

Fields   == {"ssid", "pass", "host"}
Settings == [Fields -> Texts]
Zero     == [f \in Fields |-> <<>>]   \* after wipe

(* State: "trying" is Idle and both Connecting states, "failed" both of    *)
(* the Failed ones, "online" SaveFailed too.                               *)
States   == {"unprovisioned", "trying", "failed", "online", "reverted", "invalid"}

ASSUME SetupConstants ==
  /\ Texts \subseteq Seq(Nat) /\ <<>> \in Texts /\ Cap \in Nat \ {0}
  /\ ValidTexts \in [Fields -> SUBSET Texts]
  /\ Blank \notin Texts /\ None \notin Settings /\ None \notin States
  /\ Forms \subseteq [ssid : Texts, pass : Texts \cup {Blank}, host : Texts]
  /\ {BuildDefault, Stored} \subseteq Settings \cup {None}
  /\ NotifyQueue \in Nat \ {0}
  /\ {MaxConnects, MaxApplies, MaxForgets, MaxEdits, MaxReports} \subseteq Nat

VARIABLES
  active, con, subscribed,    \* s_active, s_con, s_subscribed
  current, staged, handoff,   \* s_current, s_staged; s_handoff, None unless valid
  status, queue, canSend,     \* s_status, s_notify_q, a can-send-now event requested
  prep,                       \* s_prep with its handle, length and "bad" flag
  inUse, trial, net, events,  \* the network task: s_active, s_candidate, where it is, its bits
  air,                        \* notifications and status reads on their way to the page
  page,                       \* the page's connection, apply under way and lastState
  form,                       \* what stands in the page's form
  counts,                     \* what the bounds count
  noted, overflow,  \* ghosts: the page got the failure of a trial, or came after it;
                    \* the queue overflowed since the client connected
  own               \* ghost: by field, what the client was given and what it wrote

bleVars  == <<active, con, subscribed, current, staged, handoff, status, queue, canSend, prep>>
netVars  == <<inUse, trial, net, events>>
pageVars == <<page, form>>
vars == <<bleVars, netVars, pageVars, air, counts, noted, overflow, own>>

Count(k, max) == counts[k] < max /\ counts' = [counts EXCEPT ![k] = @ + 1]

NoPrep == [field |-> None, bytes |-> <<>>, len |-> 0, bad |-> FALSE]
NoPage == [pc |-> "off", at |-> "none", value |-> <<>>, sent |-> 0,
           wrotePass |-> FALSE, edited |-> FALSE, lastState |-> None]

Init ==
  /\ active = (Stored = None) /\ con = FALSE /\ subscribed = FALSE
  /\ current = Zero /\ staged = Zero /\ handoff = None
  /\ status = (IF Stored = None THEN "unprovisioned" ELSE "trying")
  /\ queue = <<>> /\ canSend = FALSE /\ prep = NoPrep
  /\ inUse = Stored /\ trial = None /\ net = "idle" /\ events = {}
  /\ air = <<>> /\ page = NoPage
  /\ form = [ssid |-> <<>>, pass |-> Blank, host |-> <<>>]
  /\ counts = [k \in {"connect", "apply", "forget", "edit", "report"} |-> 0]
  /\ noted = FALSE /\ overflow = FALSE /\ own = [f \in Fields |-> {}]

-----------------------------------------------------------------------------
(* Status notifications                                                    *)

(* Mutant: only the latest status waits to be sent.                        *)
PushLatestOnly(s, to) ==
  /\ status' = s
  /\ queue' = IF to THEN <<s>> ELSE queue
  /\ canSend' = (canSend \/ (to /\ con)) /\ UNCHANGED overflow

(* push_status: when the queue is full the oldest one goes.                *)
Push(s, to) ==
  /\ status' = s
  /\ LET full == Len(queue) = NotifyQueue
     IN  /\ queue' = IF ~to THEN queue
                     ELSE Append(IF full THEN Tail(queue) ELSE queue, s)
         /\ overflow' = (overflow \/ (to /\ full))
  /\ canSend' = (canSend \/ (to /\ con))

NoPush == UNCHANGED <<status, queue, canSend, overflow>>

(* Mutant: only one notification is sent for a run of requests.            *)
CanSendNowOnce ==
  /\ canSend /\ queue # <<>> /\ con
  /\ air' = Append(air, [state |-> Head(queue), read |-> FALSE])
  /\ queue' = Tail(queue) /\ canSend' = FALSE
  /\ UNCHANGED <<active, con, subscribed, current, staged, handoff, status, prep, netVars,
                 pageVars, counts, noted, overflow, own>>

(* att_packet_handler: one is sent, and the event requested for the next.  *)
CanSendNow ==
  /\ canSend /\ queue # <<>> /\ con
  /\ air' = Append(air, [state |-> Head(queue), read |-> FALSE])
  /\ queue' = Tail(queue) /\ canSend' = (queue' # <<>>)
  /\ UNCHANGED <<active, con, subscribed, current, staged, handoff, status, prep, netVars,
                 pageVars, counts, noted, overflow, own>>

-----------------------------------------------------------------------------
(* Connections                                                             *)

(* Mutant: the prepared bytes are cleared, their length is kept.           *)
ResetKeepsLength == prep' = [NoPrep EXCEPT !.len = prep.len]
ResetPrepared    == prep' = NoPrep

ClearPassword == form' = IF form.pass = <<>> THEN form ELSE [form EXCEPT !.pass = Blank]

(* What the end of a connection leaves at the hub and on the page.         *)
Hangup ==
  /\ con' = FALSE /\ subscribed' = FALSE /\ queue' = <<>> /\ canSend' = FALSE
  /\ staged' = Zero /\ ResetPrepared /\ air' = <<>>
  /\ page' = [NoPage EXCEPT !.lastState = page.lastState] /\ ClearPassword
  /\ UNCHANGED <<status, handoff, overflow, own, noted>>

(* Mutant: nothing is staged for a new client.                             *)
ConnectBare ==
  /\ active /\ ~con /\ Count("connect", MaxConnects)
  /\ con' = TRUE /\ subscribed' = FALSE /\ queue' = <<>> /\ ResetPrepared
  /\ page' = [NoPage EXCEPT !.pc = "connecting"]
  /\ noted' = FALSE /\ overflow' = FALSE /\ own' = [f \in Fields |-> {current[f]}]
  /\ UNCHANGED <<active, current, staged, handoff, status, canSend, netVars, form, air>>

(* setupFind connects; the client starts from the settings in use.         *)
Connect ==
  /\ active /\ ~con /\ Count("connect", MaxConnects)
  /\ con' = TRUE /\ subscribed' = FALSE /\ queue' = <<>> /\ ResetPrepared
  /\ staged' = current
  /\ page' = [NoPage EXCEPT !.pc = "connecting"]
  /\ noted' = FALSE /\ overflow' = FALSE /\ own' = [f \in Fields |-> {current[f]}]
  /\ UNCHANGED <<active, current, handoff, status, canSend, netVars, form, air>>

(* The client goes, by a click, out of range or with its page.             *)
Disconnect ==
  /\ con /\ Hangup
  /\ UNCHANGED <<active, current, netVars, counts>>

(* stop: powering off disconnects.                                         *)
Stop ==
  /\ active /\ inUse # None /\ trial = None /\ active' = FALSE /\ current' = Zero
  /\ Hangup /\ UNCHANGED <<netVars, counts>>

(* The page subscribes, and is told where things stand.                    *)
Subscribe ==
  /\ page.pc = "connecting" /\ ~subscribed /\ subscribed' = TRUE
  /\ Push(status, TRUE) /\ noted' = (net = "failed" \/ status = "reverted")
  /\ UNCHANGED <<active, con, current, staged, handoff, prep, netVars, pageVars, air, counts,
                 own>>

ReadStatus ==
  /\ page.pc = "connecting" /\ subscribed
  /\ air' = Append(air, [state |-> status, read |-> TRUE])
  /\ page' = [page EXCEPT !.pc = "reading"]
  /\ UNCHANGED <<bleVars, netVars, form, counts, noted, overflow, own>>

(* Name and broker are read back into the form, the password is not.  The  *)
(* answer to the status read has come in by then.                          *)
ReadFields ==
  /\ page.pc = "reading" /\ \A i \in DOMAIN air : ~air[i].read
  /\ form' = [ssid |-> staged["ssid"], pass |-> Blank, host |-> staged["host"]]
  /\ page' = [page EXCEPT !.pc = "ready"]
  /\ UNCHANGED <<bleVars, netVars, air, counts, noted, overflow, own>>

(* onProvStatus                                                            *)
Receive ==
  /\ air # <<>> /\ air' = Tail(air)
  /\ page' = [page EXCEPT !.lastState = Head(air).state]
  /\ noted' = IF Head(air).read \/ Head(air).state \notin {"failed", "reverted"} THEN noted
              ELSE Head(air).state = "failed"
  /\ UNCHANGED <<bleVars, netVars, form, counts, overflow, own>>

-----------------------------------------------------------------------------
(* Applying: the page writes field after field, each as it stands in the   *)
(* form when its turn comes.                                               *)

ValidForm == /\ form.ssid \in ValidTexts["ssid"] /\ form.host \in ValidTexts["host"]
             /\ form.pass \in ValidTexts["pass"] \cup {Blank}
             /\ form.pass = Blank => page.lastState # "unprovisioned"

Idle  == page.pc = "ready" /\ page.at = "none"
At(f) == [page EXCEPT !.at = f, !.value = IF f = "cmd" THEN <<>> ELSE form[f], !.sent = 0]
Failed == [page EXCEPT !.at = "none"]

(* The page once the write it awaits succeeded: a blank password is        *)
(* skipped.                                                                *)
AfterWrite ==
  CASE page.at = "ssid" -> At(IF form.pass = Blank THEN "host" ELSE "pass")
    [] page.at = "pass" -> [At("host") EXCEPT !.wrotePass = TRUE]
    [] page.at = "host" -> At("cmd")

ClickApply ==
  /\ Idle /\ ValidForm /\ Count("apply", MaxApplies)
  /\ page' = [At("ssid") EXCEPT !.wrotePass = FALSE, !.edited = FALSE]
  /\ UNCHANGED <<bleVars, netVars, form, air, noted, overflow, own>>

EditForm ==
  /\ page.pc = "ready" /\ Count("edit", MaxEdits)
  /\ form' \in Forms /\ page' = [page EXCEPT !.edited = TRUE]
  /\ UNCHANGED <<bleVars, netVars, air, noted, overflow, own>>

(* apply_value for a text, from a plain or a prepared write.               *)
ApplyText(f, value) ==
  IF Len(value) > Cap THEN page' = Failed /\ UNCHANGED <<staged, own>>
  ELSE /\ staged' = [staged EXCEPT ![f] = value]
       /\ own' = [own EXCEPT ![f] = @ \cup {page.value}]
       /\ page' = AfterWrite

WritePlain ==
  /\ Len(page.value) <= 1 /\ ApplyText(page.at, page.value) /\ UNCHANGED prep

(* The next piece of a prepared write; one too many is refused, and the    *)
(* client cancels the write.                                               *)
Prepare ==
  /\ Len(page.value) > 1 /\ page.sent < Len(page.value)
  /\ IF page.sent = Cap THEN ResetPrepared /\ page' = Failed
     ELSE LET end == page.sent + 1
          IN  /\ prep' = [field |-> page.at,
                          bytes |-> [i \in 1 .. IF end > Len(prep.bytes) THEN end ELSE Len(prep.bytes)
                                       |-> IF i = end THEN page.value[i] ELSE prep.bytes[i]],
                          len   |-> IF end > prep.len THEN end ELSE prep.len,
                          bad   |-> prep.bad \/ prep.field \notin {None, page.at}]
              /\ page' = [page EXCEPT !.sent = end]
  /\ UNCHANGED <<staged, own>>

(* Beyond the bytes written, the buffer holds zeros.                       *)
Execute ==
  /\ Len(page.value) > 1 /\ page.sent = Len(page.value)
  /\ IF prep.bad THEN page' = Failed /\ UNCHANGED <<staged, own>>
     ELSE ApplyText(prep.field, [i \in 1 .. prep.len |-> IF i \in DOMAIN prep.bytes THEN prep.bytes[i] ELSE 0])
  /\ ResetPrepared

WriteField ==
  /\ page.at \in Fields /\ (WritePlain \/ Prepare \/ Execute)
  /\ NoPush /\ UNCHANGED <<active, con, subscribed, current, handoff, netVars, form, air, counts, noted>>

(* Mutant: the staged settings are handed over unchecked.                  *)
WriteApplyUnchecked ==
  /\ page.at = "cmd"
  /\ handoff' = staged /\ events' = events \cup {"commit"} /\ NoPush /\ ClearPassword
  /\ page' = [page EXCEPT !.at = "none"]
  /\ UNCHANGED <<active, con, subscribed, current, staged, prep, inUse, trial, net, air,
                 counts, noted, own>>

(* APPLY: the staged settings are handed over if they are valid.           *)
WriteApply ==
  /\ page.at = "cmd"
  /\ IF \A f \in Fields : staged[f] \in ValidTexts[f]
     THEN handoff' = staged /\ events' = events \cup {"commit"} /\ NoPush /\ ClearPassword
     ELSE Push("invalid", subscribed) /\ UNCHANGED <<handoff, events, form>>
  /\ page' = [page EXCEPT !.at = "none"]
  /\ UNCHANGED <<active, con, subscribed, current, staged, prep, inUse, trial, net, air,
                 counts, noted, own>>

(* FORGET may be clicked in the middle of an apply.                        *)
WriteForget ==
  /\ page.pc = "ready" /\ Count("forget", MaxForgets)
  /\ events' = events \cup {"forget"}
  /\ UNCHANGED <<bleVars, inUse, trial, net, pageVars, air, noted, overflow, own>>

-----------------------------------------------------------------------------
(* The network task, as BLE sees it                                        *)

(* Nothing is reported while BLE is off.                                   *)
Report(s) == (IF active THEN Push(s, subscribed) ELSE NoPush) /\ UNCHANGED subscribed
Quiet     == NoPush /\ UNCHANGED subscribed

(* bring_up and run_online tell how the settings in use, or those on       *)
(* trial, get on; a trial may be tried again after a failure.              *)
Progress ==
  /\ active /\ ((net = "idle" /\ inUse # None) \/ net = "trial")
  /\ Count("report", MaxReports)
  /\ \E s \in {"trying", "failed"} \cup (IF net = "idle" THEN {"online"} ELSE {}) : Report(s)
  /\ UNCHANGED <<active, current, handoff, netVars>>

(* handle_commit: take_candidate                                           *)
TakeCandidate ==
  /\ net = "idle" /\ "commit" \in events /\ "forget" \notin events
  /\ events' = events \ {"commit"}
  /\ trial' = handoff /\ handoff' = None /\ net' = IF handoff = None THEN "idle" ELSE "trial"
  /\ Quiet /\ UNCHANGED <<active, current, inUse, counts>>

Interrupted ==
  /\ net = "trial" /\ events # {}
  /\ trial' = None /\ net' = "idle"
  /\ Quiet /\ UNCHANGED <<active, current, handoff, inUse, events, counts>>

Adopt ==
  /\ net = "trial" /\ inUse' = trial /\ trial' = None /\ net' = "idle" /\ Report("online")
  /\ UNCHANGED <<active, current, handoff, events, counts>>

(* The last attempt failed, then the task reverts, in three reports.       *)
TrialFailed ==
  /\ net = "trial" /\ net' = "failed" /\ Report("failed")
  /\ UNCHANGED <<active, current, handoff, inUse, trial, events, counts>>

Revert ==
  /\ net = "failed" /\ trial' = None
  /\ net' = IF inUse = None THEN "reverted" ELSE "idle"
  /\ Report("reverted")
  /\ UNCHANGED <<active, current, handoff, inUse, events, counts>>

RevertedToNothing ==
  /\ net = "reverted" /\ net' = "idle" /\ Report("unprovisioned")
  /\ UNCHANGED <<active, current, handoff, inUse, trial, events, counts>>

(* handle_forget and load_active: BLE is started anew, or shown the        *)
(* settings it falls back on.                                              *)
HandleForget ==
  /\ net = "idle" /\ "forget" \in events /\ events' = events \ {"forget"}
  /\ inUse' = BuildDefault
  /\ active' = (active \/ BuildDefault = None)
  /\ current' = IF BuildDefault = None THEN Zero ELSE IF active THEN BuildDefault ELSE current
  /\ IF BuildDefault = None THEN Push("unprovisioned", subscribed) ELSE NoPush
  /\ UNCHANGED <<subscribed, handoff, trial, net, counts>>

(* The settings in use failed too often.                                   *)
StartBle ==
  /\ net = "idle" /\ inUse # None /\ ~active /\ active' = TRUE /\ current' = inUse
  /\ Quiet /\ UNCHANGED <<handoff, netVars, counts>>

Network ==
  /\ \/ Progress \/ TakeCandidate \/ Interrupted \/ Adopt \/ TrialFailed \/ Revert
     \/ RevertedToNothing \/ HandleForget \/ StartBle
  /\ UNCHANGED <<con, staged, prep, pageVars, air, noted, own>>

-----------------------------------------------------------------------------
Page == Connect \/ Disconnect \/ Subscribe \/ ReadStatus \/ ReadFields \/ Receive \/ ClickApply
        \/ EditForm \/ WriteField \/ WriteApply \/ WriteForget
Next == Page \/ CanSendNow \/ Stop \/ Network
Spec == Init /\ [][Next]_vars

(* The radio sends what it may and delivers what it sent, as long as the   *)
(* connection lasts.                                                       *)
FairSpec == Spec /\ WF_vars(CanSendNow) /\ WF_vars(Receive)

-----------------------------------------------------------------------------
Pages == [pc : {"off", "connecting", "reading", "ready"}, at : Fields \cup {"none", "cmd"},
          value : Texts, sent : Nat, wrotePass : BOOLEAN, edited : BOOLEAN,
          lastState : States \cup {None}]
Prepared == [field : Fields \cup {None}, bytes : Seq(Nat), len : 0 .. Cap, bad : BOOLEAN]
Notices  == [state : States, read : BOOLEAN]

TypeOK ==
  /\ active \in BOOLEAN /\ con \in BOOLEAN /\ subscribed \in BOOLEAN /\ canSend \in BOOLEAN
  /\ current \in Settings /\ staged \in Settings
  /\ handoff \in Settings \cup {None} /\ inUse \in Settings \cup {None}
  /\ trial \in Settings \cup {None}
  /\ status \in States /\ queue \in Seq(States) /\ Len(queue) <= NotifyQueue
  /\ prep \in Prepared /\ air \in Seq(Notices) /\ page \in Pages
  /\ net \in {"idle", "trial", "failed", "reverted"} /\ events \subseteq {"commit", "forget"}
  /\ form \in [ssid : Texts, pass : Texts \cup {Blank}, host : Texts]
  /\ counts \in [{"connect", "apply", "forget", "edit", "report"} -> Nat]
  /\ noted \in BOOLEAN /\ overflow \in BOOLEAN /\ own \in [Fields -> SUBSET Texts]

(* The page ends up with the hub's status, however status reads, queued    *)
(* and dropped notifications follow each other; no queued status waits for *)
(* a send event that nobody requested.                                     *)
LatestArrives == <>[](page.pc = "ready") => <>[](page.lastState = status)

(* ble_provision.cpp: "A failure followed immediately by Reverted must     *)
(* reach the client as two notifications, or the reason is lost."  They do *)
(* unless the queue overflowed or the client came between the two.         *)
ReasonArrives ==
  [][Receive /\ ~Head(air).read /\ Head(air).state = "reverted"
       => noted \/ overflow]_vars

(* Each staged field is one the client was given when it connected, or one *)
(* it wrote as a whole: never left over from another client, never put     *)
(* together from two writes.                                               *)
StagedIsOwn == con => \A f \in Fields : staged[f] \in own[f]

(* What is handed over for trial is what the form held when Apply was      *)
(* clicked, if nobody typed in it in the meantime, and always valid.       *)
HandoffIsForm ==
  [][WriteApply /\ handoff' # handoff =>
       /\ \A f \in Fields : handoff'[f] \in ValidTexts[f]
       /\ ~page.edited =>
            /\ handoff'["ssid"] = form.ssid /\ handoff'["host"] = form.host
            /\ form.pass # Blank => handoff'["pass"] = form.pass]_vars

(* README: "Leave the password blank to keep the current one": asked of a   *)
(* hub that has reported that it kept its previous settings after a trial. *)
BlankKeepsCurrent ==
  [][WriteApply /\ "commit" \in events' \ events /\ net = "idle" /\ status = "reverted"
       /\ ~page.wrotePass => handoff'["pass"] = inUse["pass"]]_vars
=============================================================================
