--------------------------- MODULE BleSetupProofs ---------------------------
(* Theorems about BleSetup: types, whose the staged settings are, what is  *)
(* handed over, and that the reason of a revert reaches the client.        *)
EXTENDS BleSetup, SequenceFacts, TLAPS

LEMMA Constants ==
  /\ \A v \in Texts : v \in Seq(Nat) /\ Len(v) \in Nat
  /\ <<>> \in Texts /\ Cap \in Nat /\ NotifyQueue \in Nat \ {0} /\ Zero \in Settings
  /\ BuildDefault \in Settings \cup {None} /\ Stored \in Settings \cup {None}
  /\ Forms \subseteq [ssid : Texts, pass : Texts \cup {Blank}, host : Texts]
BY SetupConstants DEF Zero, Settings

-----------------------------------------------------------------------------
(* The types hold together with PrepInv: a prepared write holds the first  *)
(* pieces of the value under way and nothing else, so that what Execute    *)
(* stages is that value.                                                   *)

PrepInv ==
  IF page.at \in Fields /\ page.sent > 0
  THEN /\ Len(page.value) > 1 /\ page.sent <= Len(page.value)
       /\ prep.field = page.at /\ ~prep.bad /\ prep.len = page.sent
       /\ prep.bytes = [i \in 1 .. page.sent |-> page.value[i]]
  ELSE prep = NoPrep

IInv == TypeOK /\ PrepInv /\ StagedIsOwn

LEMMA InitIInv == Init => IInv
<1>. SUFFICES ASSUME Init PROVE IInv
  OBVIOUS
<1>1. \A S : <<>> \in Seq(S) /\ Len(<<>>) = 0
  BY EmptySeq
<1>2. prep \in Prepared
  BY <1>1, Constants DEF Init, NoPrep, Prepared
<1>3. page \in Pages
  BY Constants DEF Init, NoPage, Pages
<1>4. form \in [ssid : Texts, pass : Texts \cup {Blank}, host : Texts]
  BY Constants DEF Init
<1>5. own \in [Fields -> SUBSET Texts]
  BY DEF Init
<1>6. /\ active \in BOOLEAN /\ con \in BOOLEAN /\ subscribed \in BOOLEAN /\ canSend \in BOOLEAN
      /\ noted \in BOOLEAN /\ overflow \in BOOLEAN
  BY Zenon DEF Init
<1>7. TypeOK
  BY <1>1, <1>2, <1>3, <1>4, <1>5, <1>6, Constants DEF Init, TypeOK, States
<1>8. PrepInv
  BY DEF Init, PrepInv, NoPage, Fields
<1>9. StagedIsOwn
  BY DEF Init, StagedIsOwn
<1>. QED BY <1>7, <1>8, <1>9 DEF IInv

LEMMA PushTypes ==
  ASSUME TypeOK, NEW s \in States, NEW to \in BOOLEAN, Push(s, to)
  PROVE  /\ status' \in States /\ queue' \in Seq(States) /\ Len(queue') <= NotifyQueue
         /\ canSend' \in BOOLEAN /\ overflow' \in BOOLEAN
<1>1. status' \in States /\ canSend' \in BOOLEAN /\ overflow' \in BOOLEAN
  BY Zenon DEF Push
<1>2. CASE ~to
  BY <1>1, <1>2 DEF Push, TypeOK
<1>3. CASE to /\ Len(queue) = NotifyQueue
  <2>1. queue' = Append(Tail(queue), s) /\ queue # <<>>
    BY <1>3, Constants, EmptySeq DEF Push
  <2>2. Tail(queue) \in Seq(States) /\ Len(Tail(queue)) = NotifyQueue - 1
    BY <1>3, <2>1, TailIs DEF TypeOK
  <2>. QED BY <1>1, <2>1, <2>2, AppendIs, Constants
<1>4. CASE to /\ Len(queue) # NotifyQueue
  <2>1. queue' = Append(queue, s)
    BY <1>4 DEF Push
  <2>. QED BY <1>1, <1>4, <2>1, AppendIs, Constants DEF TypeOK
<1>. QED BY <1>2, <1>3, <1>4

LEMMA NoPushTypes ==
  ASSUME TypeOK, NoPush
  PROVE  /\ status' \in States /\ queue' \in Seq(States) /\ Len(queue') <= NotifyQueue
         /\ canSend' \in BOOLEAN /\ overflow' \in BOOLEAN
BY DEF NoPush, TypeOK

LEMMA ReportTypes ==
  ASSUME TypeOK, NEW s \in States, Report(s)
  PROVE  /\ status' \in States /\ queue' \in Seq(States) /\ Len(queue') <= NotifyQueue
         /\ canSend' \in BOOLEAN /\ overflow' \in BOOLEAN /\ subscribed' = subscribed
BY PushTypes, NoPushTypes DEF Report, TypeOK

LEMMA QuietTypes ==
  ASSUME TypeOK, Quiet
  PROVE  /\ status' \in States /\ queue' \in Seq(States) /\ Len(queue') <= NotifyQueue
         /\ canSend' \in BOOLEAN /\ overflow' \in BOOLEAN /\ subscribed' = subscribed
BY NoPushTypes DEF Quiet

LEMMA CountTypes ==
  ASSUME TypeOK, NEW k \in {"connect", "apply", "forget", "edit", "report"}, NEW max, Count(k, max)
  PROVE  counts' \in [{"connect", "apply", "forget", "edit", "report"} -> Nat]
BY DEF Count, TypeOK

-----------------------------------------------------------------------------
(* Connections                                                             *)

LEMMA ConnectKeeps == IInv /\ Connect => IInv'
<1>. SUFFICES ASSUME IInv, Connect PROVE IInv'
  OBVIOUS
<1>1. TypeOK
  BY DEF IInv
<1>2. counts' \in [{"connect", "apply", "forget", "edit", "report"} -> Nat]
  BY <1>1, CountTypes DEF Connect
<1>3. page' = [NoPage EXCEPT !.pc = "connecting"] /\ prep' = NoPrep
  BY DEF Connect, ResetPrepared
<1>4. page' \in Pages /\ page'.at = "none"
  BY <1>3, Constants DEF NoPage, Pages
<1>5. prep' \in Prepared
  BY <1>3, Constants, EmptySeq DEF NoPrep, Prepared
<1>6. own' \in [Fields -> SUBSET Texts] /\ \A f \in Fields : staged'[f] \in own'[f]
  BY <1>1 DEF Connect, TypeOK, Settings
<1>7. TypeOK'
  <2>1. /\ con' \in BOOLEAN /\ subscribed' \in BOOLEAN /\ noted' \in BOOLEAN
        /\ overflow' \in BOOLEAN
    BY Zenon DEF Connect
  <2>2. queue' \in Seq(States) /\ Len(queue') <= NotifyQueue
    BY EmptySeq, Constants DEF Connect
  <2>. QED BY <1>1, <1>2, <1>4, <1>5, <1>6, <2>1, <2>2 DEF Connect, TypeOK, netVars
<1>8. PrepInv'
  BY <1>3, <1>4 DEF PrepInv, Fields
<1>9. StagedIsOwn'
  BY <1>6 DEF StagedIsOwn
<1>. QED BY <1>7, <1>8, <1>9 DEF IInv

LEMMA ClearTypes ==
  ASSUME TypeOK, ClearPassword
  PROVE  form' \in [ssid : Texts, pass : Texts \cup {Blank}, host : Texts]
BY DEF ClearPassword, TypeOK

LEMMA HangupKeeps ==
  ASSUME IInv, Hangup, active' \in BOOLEAN, current' \in Settings, UNCHANGED <<netVars, counts>>
  PROVE  IInv'
<1>1. TypeOK
  BY DEF IInv
<1>2. page' = [NoPage EXCEPT !.lastState = page.lastState] /\ prep' = NoPrep
  BY DEF Hangup, ResetPrepared
<1>3. page' \in Pages /\ page'.at = "none"
  BY <1>1, <1>2, Constants DEF NoPage, Pages, TypeOK
<1>4. prep' \in Prepared
  BY <1>2, Constants, EmptySeq DEF NoPrep, Prepared
<1>5. form' \in [ssid : Texts, pass : Texts \cup {Blank}, host : Texts]
  BY <1>1, ClearTypes DEF Hangup
<1>6. TypeOK'
  <2>1. con' \in BOOLEAN /\ subscribed' \in BOOLEAN /\ canSend' \in BOOLEAN
    BY Zenon DEF Hangup
  <2>2. queue' \in Seq(States) /\ Len(queue') <= NotifyQueue /\ air' \in Seq(Notices)
    BY EmptySeq, Constants DEF Hangup
  <2>3. staged' \in Settings
    BY Constants DEF Hangup
  <2>. QED BY <1>1, <1>3, <1>4, <1>5, <2>1, <2>2, <2>3 DEF Hangup, TypeOK, netVars
<1>7. PrepInv'
  BY <1>2, <1>3 DEF PrepInv, Fields
<1>8. StagedIsOwn'
  BY DEF Hangup, StagedIsOwn
<1>. QED BY <1>6, <1>7, <1>8 DEF IInv

LEMMA DisconnectKeeps == IInv /\ (Disconnect \/ Stop) => IInv'
<1>. SUFFICES ASSUME IInv, Disconnect \/ Stop PROVE IInv'
  OBVIOUS
<1>1. Hangup /\ UNCHANGED <<netVars, counts>>
  BY DEF Disconnect, Stop
<1>2. active' \in BOOLEAN /\ current' \in Settings
  <2>1. CASE Disconnect
    BY <2>1 DEF Disconnect, IInv, TypeOK
  <2>2. CASE Stop
    BY <2>2, Constants, Zenon DEF Stop
  <2>. QED BY <2>1, <2>2
<1>. QED BY <1>1, <1>2, HangupKeeps

(* What moves statuses, opens the page or counts leaves the rest alone.    *)
LEMMA TalkKeeps ==
  ASSUME IInv, UNCHANGED <<active, con, current, staged, handoff, prep, netVars, own>>,
         page' \in Pages, UNCHANGED <<page.at, page.value, page.sent>>,
         form' \in [ssid : Texts, pass : Texts \cup {Blank}, host : Texts],
         counts' \in [{"connect", "apply", "forget", "edit", "report"} -> Nat],
         status' \in States, queue' \in Seq(States), Len(queue') <= NotifyQueue,
         air' \in Seq(Notices), subscribed' \in BOOLEAN, canSend' \in BOOLEAN,
         overflow' \in BOOLEAN, noted' \in BOOLEAN
  PROVE  IInv'
<1>1. TypeOK'
  BY DEF IInv, TypeOK, netVars
<1>2. PrepInv'
  BY DEF IInv, PrepInv
<1>3. StagedIsOwn'
  BY DEF IInv, StagedIsOwn
<1>. QED BY <1>1, <1>2, <1>3 DEF IInv

LEMMA NoticesKeep == IInv /\ (CanSendNow \/ Subscribe \/ ReadStatus \/ ReadFields \/ Receive) => IInv'
<1>. SUFFICES ASSUME IInv, CanSendNow \/ Subscribe \/ ReadStatus \/ ReadFields \/ Receive PROVE IInv'
  OBVIOUS
<1>. USE DEF IInv
<1>1. CASE CanSendNow
  <2>1. /\ Head(queue) \in States /\ queue' \in Seq(States) /\ Len(queue') <= NotifyQueue
    BY <1>1, TailIs, Constants DEF CanSendNow, TypeOK
  <2>2. [state |-> Head(queue), read |-> FALSE] \in Notices
    BY <2>1 DEF Notices
  <2>3. air' \in Seq(Notices)
    BY <1>1, <2>2, AppendIs DEF CanSendNow, TypeOK
  <2>4. canSend' \in BOOLEAN
    BY <1>1, Zenon DEF CanSendNow
  <2>. QED BY <1>1, <2>1, <2>3, <2>4, TalkKeeps DEF CanSendNow, TypeOK, netVars, pageVars
<1>2. CASE Subscribe
  <2>1. TypeOK /\ Push(status, TRUE) /\ status \in States /\ subscribed' = TRUE
    BY <1>2 DEF Subscribe, TypeOK
  <2>2. noted' \in BOOLEAN /\ subscribed' \in BOOLEAN
    BY <1>2, Zenon DEF Subscribe
  <2>3. /\ status' \in States /\ queue' \in Seq(States) /\ Len(queue') <= NotifyQueue
        /\ canSend' \in BOOLEAN /\ overflow' \in BOOLEAN
    BY <2>1, PushTypes
  <2>. QED BY <1>2, <2>2, <2>3, TalkKeeps DEF Subscribe, TypeOK, netVars, pageVars
<1>3. CASE ReadStatus
  <2>1. [state |-> status, read |-> TRUE] \in Notices
    BY DEF Notices, TypeOK
  <2>2. air' \in Seq(Notices)
    BY <1>3, <2>1, AppendIs DEF ReadStatus, TypeOK
  <2>3. page' \in Pages /\ UNCHANGED <<page.at, page.value, page.sent>>
    BY <1>3 DEF ReadStatus, TypeOK, Pages
  <2>. QED BY <1>3, <2>2, <2>3, TalkKeeps DEF ReadStatus, TypeOK, netVars, bleVars
<1>4. CASE ReadFields
  <2>1. page' \in Pages /\ UNCHANGED <<page.at, page.value, page.sent>>
    BY <1>4 DEF ReadFields, TypeOK, Pages
  <2>2. staged["ssid"] \in Texts /\ staged["host"] \in Texts
    BY DEF TypeOK, Settings, Fields
  <2>3. form' \in [ssid : Texts, pass : Texts \cup {Blank}, host : Texts]
    BY <1>4, <2>2 DEF ReadFields
  <2>. QED BY <1>4, <2>1, <2>3, TalkKeeps DEF ReadFields, TypeOK, netVars, bleVars
<1>5. CASE Receive
  <2>1. Head(air) \in Notices /\ air' \in Seq(Notices)
    BY <1>5, TailIs DEF Receive, TypeOK
  <2>2. Head(air).state \in States
    BY <2>1 DEF Notices
  <2>3. page' \in Pages /\ UNCHANGED <<page.at, page.value, page.sent>>
    BY <1>5, <2>2 DEF Receive, TypeOK, Pages
  <2>4. noted' \in BOOLEAN
    <3>1. noted \in BOOLEAN
      BY DEF TypeOK
    <3>. QED BY <1>5, <3>1, Zenon DEF Receive
  <2>. QED BY <1>5, <2>1, <2>3, <2>4, TalkKeeps DEF Receive, TypeOK, netVars, bleVars
<1>. QED BY <1>1, <1>2, <1>3, <1>4, <1>5

-----------------------------------------------------------------------------
(* Writes                                                                  *)

LEMMA AtIs ==
  ASSUME TypeOK, NEW f \in Fields \cup {"cmd"}, f = "pass" => form.pass # Blank
  PROVE  /\ At(f) \in Pages /\ At(f).at = f /\ At(f).sent = 0 /\ At(f).pc = page.pc
         /\ At(f).edited = page.edited
         /\ f \in Fields => At(f).value = form[f]
<1>1. (IF f = "cmd" THEN <<>> ELSE form[f]) \in Texts
  <2>1. CASE f = "cmd"
    BY <2>1, Constants
  <2>2. CASE f = "ssid"
    BY <2>2 DEF TypeOK
  <2>3. CASE f = "pass"
    BY <2>3 DEF TypeOK
  <2>4. CASE f = "host"
    BY <2>4 DEF TypeOK
  <2>. QED BY <2>1, <2>2, <2>3, <2>4 DEF Fields
<1>. DEFINE v == IF f = "cmd" THEN <<>> ELSE form[f]
<1>2. At(f) = [page EXCEPT !.at = f, !.value = v, !.sent = 0]
  BY DEF At
<1>3. f \in Fields => v = form[f]
  BY DEF Fields
<1>4. v \in Texts
  BY <1>1
<1>. HIDE DEF v
<1>5. At(f) \in Pages
  <2>1. page \in Pages /\ f \in Fields \cup {"none", "cmd"} /\ 0 \in Nat
    BY DEF TypeOK
  <2>. QED BY <1>2, <1>4, <2>1 DEF Pages
<1>. QED BY <1>2, <1>3, <1>5 DEF TypeOK, Pages

LEMMA AfterWriteIs ==
  ASSUME TypeOK, page.at \in Fields
  PROVE  /\ AfterWrite \in Pages /\ AfterWrite.sent = 0 /\ AfterWrite.pc = page.pc
         /\ AfterWrite.edited = page.edited
         /\ AfterWrite.at = (IF page.at = "ssid" THEN IF form.pass = Blank THEN "host" ELSE "pass"
                             ELSE IF page.at = "pass" THEN "host" ELSE "cmd")
         /\ AfterWrite.at \in Fields => AfterWrite.value = form[AfterWrite.at]
<1>1. CASE page.at = "ssid" /\ form.pass = Blank
  BY <1>1, AtIs DEF AfterWrite, Fields
<1>2. CASE page.at = "ssid" /\ form.pass # Blank
  BY <1>2, AtIs DEF AfterWrite, Fields
<1>3. CASE page.at = "pass"
  <2>1. AfterWrite = [At("host") EXCEPT !.wrotePass = TRUE]
    BY <1>3 DEF AfterWrite
  <2>2. /\ At("host") \in Pages /\ At("host").at = "host" /\ At("host").sent = 0
        /\ At("host").pc = page.pc /\ At("host").edited = page.edited
        /\ At("host").value = form["host"]
    BY AtIs DEF Fields
  <2>3. AfterWrite \in Pages
    BY <2>1, <2>2 DEF Pages
  <2>. QED BY <1>3, <2>1, <2>2, <2>3 DEF Pages
<1>4. CASE page.at = "host"
  BY <1>4, AtIs DEF AfterWrite, Fields
<1>. QED BY <1>1, <1>2, <1>3, <1>4 DEF Fields

LEMMA FailedIs ==
  ASSUME TypeOK PROVE Failed \in Pages /\ Failed.at = "none" /\ UNCHANGED <<>>
BY DEF Failed, TypeOK, Pages

(* However a field is written, what is staged is the value under way.      *)
LEMMA WriteIs ==
  ASSUME IInv, WriteField
  PROVE  /\ page.at \in Fields
         /\ \/ ApplyText(page.at, page.value) /\ prep' = NoPrep
            \/ UNCHANGED <<staged, own>> /\ page' = Failed /\ prep' = NoPrep
            \/ Prepare /\ page.sent # Cap
<1>1. page.at \in Fields /\ (WritePlain \/ Prepare \/ Execute)
  BY DEF WriteField
<1>2. page.value \in Seq(Nat) /\ Len(page.value) \in Nat /\ page.sent \in Nat
  BY Constants DEF IInv, TypeOK, Pages
<1>3. CASE WritePlain
  <2>1. ~(page.sent > 0)
    BY <1>1, <1>2, <1>3 DEF WritePlain, IInv, PrepInv
  <2>. QED BY <1>1, <1>3, <2>1 DEF WritePlain, IInv, PrepInv
<1>4. CASE Prepare
  BY <1>1, <1>4 DEF Prepare, ResetPrepared
<1>5. CASE Execute
  <2>1. page.sent = Len(page.value) /\ Len(page.value) > 1 /\ prep' = NoPrep
    BY <1>5 DEF Execute, ResetPrepared
  <2>2. /\ prep.field = page.at /\ ~prep.bad /\ prep.len = page.sent
        /\ prep.bytes = [i \in 1 .. page.sent |-> page.value[i]]
    BY <1>1, <1>2, <2>1 DEF IInv, PrepInv
  <2>3. [i \in 1 .. prep.len |-> IF i \in DOMAIN prep.bytes THEN prep.bytes[i] ELSE 0]
          = [i \in 1 .. Len(page.value) |-> page.value[i]]
    BY <2>1, <2>2
  <2>4. [i \in 1 .. Len(page.value) |-> page.value[i]] = page.value
    BY <1>2
  <2>5. ApplyText(page.at, page.value)
    BY <1>5, <2>2, <2>3, <2>4 DEF Execute
  <2>. QED BY <1>1, <2>1, <2>5
<1>. QED BY <1>1, <1>3, <1>4, <1>5

LEMMA StageKeeps ==
  ASSUME IInv, page.at \in Fields, ApplyText(page.at, page.value), prep' = NoPrep, con' = con
  PROVE  /\ page' \in Pages /\ staged' \in Settings /\ own' \in [Fields -> SUBSET Texts]
         /\ PrepInv' /\ StagedIsOwn'
<1>. USE DEF IInv
<1>1. page.value \in Texts
  BY DEF TypeOK, Pages
<1>2. CASE Len(page.value) > Cap
  <2>1. page' = Failed /\ UNCHANGED <<staged, own>>
    BY <1>2 DEF ApplyText
  <2>. QED BY <2>1, FailedIs DEF TypeOK, PrepInv, StagedIsOwn, Fields
<1>3. CASE ~(Len(page.value) > Cap)
  <2>1. /\ staged' = [staged EXCEPT ![page.at] = page.value] /\ page' = AfterWrite
        /\ own' = [own EXCEPT ![page.at] = @ \cup {page.value}]
    BY <1>3 DEF ApplyText
  <2>2. page' \in Pages /\ page'.sent = 0
    BY <2>1, AfterWriteIs
  <2>3. PrepInv'
    BY <2>2 DEF PrepInv
  <2>4. staged' \in Settings
    BY <1>1, <2>1 DEF TypeOK, Settings
  <2>5. own' \in [Fields -> SUBSET Texts]
    BY <1>1, <2>1 DEF TypeOK
  <2>6. StagedIsOwn'
    BY <2>1 DEF StagedIsOwn, TypeOK, Settings
  <2>. QED BY <2>2, <2>3, <2>4, <2>5, <2>6
<1>. QED BY <1>2, <1>3

(* Another piece is added to the prepared write.                           *)
LEMMA PieceKeeps ==
  ASSUME IInv, page.at \in Fields, Prepare, page.sent # Cap
  PROVE  page' \in Pages /\ prep' \in Prepared /\ PrepInv'
<1>. DEFINE end == page.sent + 1
<1>. USE DEF IInv
<1>1. /\ Len(page.value) > 1 /\ page.sent < Len(page.value) /\ page' = [page EXCEPT !.sent = end]
      /\ prep' = [field |-> page.at,
                  bytes |-> [i \in 1 .. IF end > Len(prep.bytes) THEN end ELSE Len(prep.bytes)
                               |-> IF i = end THEN page.value[i] ELSE prep.bytes[i]],
                  len   |-> IF end > prep.len THEN end ELSE prep.len,
                  bad   |-> prep.bad \/ prep.field \notin {None, page.at}]
  BY DEF Prepare
<1>2. /\ page.value \in Seq(Nat) /\ Len(page.value) \in Nat /\ page.sent \in Nat /\ Cap \in Nat
  BY Constants DEF TypeOK, Pages
<1>3. /\ prep.len = page.sent /\ ~prep.bad /\ prep.field \in {None, page.at}
      /\ Len(prep.bytes) = page.sent /\ \A i \in 1 .. page.sent : prep.bytes[i] = page.value[i]
  <2>1. CASE page.sent > 0
    <3>1. /\ prep.field = page.at /\ ~prep.bad /\ prep.len = page.sent
          /\ prep.bytes = [i \in 1 .. page.sent |-> page.value[i]]
      BY <2>1 DEF PrepInv
    <3>2. Len(prep.bytes) = page.sent
      <4>1. prep.bytes \in Seq(Nat)
        BY DEF TypeOK, Prepared
      <4>. QED BY <1>2, <3>1, <4>1
    <3>. QED BY <3>1, <3>2
  <2>2. CASE page.sent = 0
    <3>1. prep = NoPrep
      BY <2>2 DEF PrepInv
    <3>. QED BY <2>2, <3>1, EmptySeq DEF NoPrep
  <2>. QED BY <1>2, <2>1, <2>2
<1>4. prep.len <= Cap
  BY Constants DEF TypeOK, Prepared
<1>5. end <= Cap /\ end \in Nat /\ end > page.sent /\ end <= Len(page.value)
  BY <1>1, <1>2, <1>3, <1>4
<1>. DEFINE bytes == [i \in 1 .. end |-> page.value[i]]
<1>6. prep' = [field |-> page.at, bytes |-> bytes, len |-> end, bad |-> FALSE]
  <2>1. \A i \in 1 .. end : (IF i = end THEN page.value[i] ELSE prep.bytes[i]) = page.value[i]
    BY <1>2, <1>3
  <2>2. (IF end > Len(prep.bytes) THEN end ELSE Len(prep.bytes)) = end
    BY <1>3, <1>5
  <2>3. (IF end > prep.len THEN end ELSE prep.len) = end
    BY <1>3, <1>5
  <2>4. (prep.bad \/ prep.field \notin {None, page.at}) = FALSE
    BY <1>3, Zenon
  <2>. HIDE DEF end
  <2>5. [i \in 1 .. end |-> IF i = end THEN page.value[i] ELSE prep.bytes[i]] = bytes
    BY <2>1
  <2>. QED BY <1>1, <2>2, <2>3, <2>4, <2>5
<1>7. bytes \in Seq(Nat)
  <2>1. \A i \in 1 .. end : page.value[i] \in Nat
    BY <1>2, <1>5
  <2>2. bytes \in [1 .. end -> Nat]
    BY <2>1
  <2>. QED BY <1>5, <2>2
<1>8. prep' \in Prepared
  <2>1. end \in 0 .. Cap
    BY <1>2, <1>5
  <2>. HIDE DEF bytes, end
  <2>2. FALSE \in BOOLEAN
    OBVIOUS
  <2>. QED BY <1>6, <1>7, <2>1, <2>2 DEF Prepared
<1>9. /\ page' \in Pages /\ page'.at = page.at /\ page'.value = page.value /\ page'.sent = end
  <2>. HIDE DEF end
  <2>. QED BY <1>1, <1>5 DEF TypeOK, Pages
<1>10. PrepInv'
  <2>1. page'.at \in Fields /\ page'.sent > 0 /\ Len(page'.value) > 1 /\ page'.sent <= Len(page'.value)
    BY <1>1, <1>2, <1>5, <1>9
  <2>2. prep'.field = page'.at /\ ~prep'.bad /\ prep'.len = page'.sent
    BY <1>6, <1>9
  <2>3. prep'.bytes = [i \in 1 .. page'.sent |-> page'.value[i]]
    BY <1>6, <1>9
  <2>. QED BY <2>1, <2>2, <2>3 DEF PrepInv
<1>. QED BY <1>8, <1>9, <1>10

LEMMA WriteFieldKeeps == IInv /\ WriteField => IInv'
<1>. SUFFICES ASSUME IInv, WriteField PROVE IInv'
  OBVIOUS
<1>1. /\ NoPush /\ UNCHANGED <<active, con, subscribed, current, handoff, inUse, trial, net, events,
                               form, air, counts, noted>>
  BY DEF WriteField, netVars
<1>2. /\ status' \in States /\ queue' \in Seq(States) /\ Len(queue') <= NotifyQueue
      /\ canSend' \in BOOLEAN /\ overflow' \in BOOLEAN
  BY <1>1, NoPushTypes DEF IInv
<1>3. ASSUME page' \in Pages, staged' \in Settings, own' \in [Fields -> SUBSET Texts],
             prep' \in Prepared
      PROVE  TypeOK'
  BY <1>1, <1>2, <1>3 DEF IInv, TypeOK
<1>4. NoPrep \in Prepared
  BY Constants, EmptySeq DEF NoPrep, Prepared
<1>5. CASE ApplyText(page.at, page.value) /\ prep' = NoPrep
  BY <1>1, <1>3, <1>4, <1>5, StageKeeps DEF IInv, WriteField
<1>6. CASE UNCHANGED <<staged, own>> /\ page' = Failed /\ prep' = NoPrep
  <2>1. page' \in Pages /\ page'.at = "none"
    BY <1>6, FailedIs DEF IInv
  <2>2. TypeOK'
    BY <1>3, <1>4, <1>6, <2>1 DEF IInv, TypeOK
  <2>3. PrepInv' /\ StagedIsOwn'
    BY <1>1, <1>6, <2>1 DEF IInv, PrepInv, StagedIsOwn, Fields
  <2>. QED BY <2>2, <2>3 DEF IInv
<1>7. CASE Prepare /\ page.sent # Cap
  <2>1. page' \in Pages /\ prep' \in Prepared /\ PrepInv'
    BY <1>7, PieceKeeps DEF WriteField
  <2>2. UNCHANGED <<staged, own>>
    BY <1>7 DEF Prepare
  <2>3. TypeOK'
    BY <1>3, <2>1, <2>2 DEF IInv, TypeOK
  <2>4. StagedIsOwn'
    BY <1>1, <2>2 DEF IInv, StagedIsOwn
  <2>. QED BY <2>1, <2>3, <2>4 DEF IInv
<1>. QED BY <1>5, <1>6, <1>7, WriteIs

LEMMA ClickKeeps == IInv /\ (ClickApply \/ EditForm \/ WriteForget) => IInv'
<1>. SUFFICES ASSUME IInv, ClickApply \/ EditForm \/ WriteForget PROVE IInv'
  OBVIOUS
<1>. USE DEF IInv
<1>1. counts' \in [{"connect", "apply", "forget", "edit", "report"} -> Nat]
  BY CountTypes DEF ClickApply, EditForm, WriteForget
<1>2. CASE ClickApply
  <2>. DEFINE p == At("ssid")
  <2>1. p \in Pages /\ p.at = "ssid" /\ p.sent = 0 /\ page.at = "none"
    BY <1>2, AtIs DEF ClickApply, Idle, Fields
  <2>2. page' = [p EXCEPT !.wrotePass = FALSE, !.edited = FALSE]
    BY <1>2 DEF ClickApply
  <2>. HIDE DEF p
  <2>3. page' \in Pages
    BY <2>1, <2>2 DEF Pages
  <2>4. page'.sent = 0
    BY <2>1, <2>2 DEF Pages
  <2>5. TypeOK'
    BY <1>1, <1>2, <2>3 DEF ClickApply, TypeOK, bleVars, netVars
  <2>6. PrepInv'
    BY <1>2, <2>1, <2>4 DEF ClickApply, PrepInv, bleVars, Fields
  <2>7. StagedIsOwn'
    BY <1>2 DEF ClickApply, StagedIsOwn, bleVars
  <2>. QED BY <2>5, <2>6, <2>7
<1>3. CASE EditForm
  <2>1. page' \in Pages /\ UNCHANGED <<page.at, page.value, page.sent>>
    BY <1>3 DEF EditForm, TypeOK, Pages
  <2>2. form' \in [ssid : Texts, pass : Texts \cup {Blank}, host : Texts]
    BY <1>3, Constants DEF EditForm
  <2>. QED BY <1>1, <1>3, <2>1, <2>2, TalkKeeps DEF EditForm, TypeOK, bleVars, netVars
<1>4. CASE WriteForget
  <2>1. TypeOK'
    BY <1>1, <1>4 DEF WriteForget, TypeOK, bleVars, pageVars
  <2>2. PrepInv'
    BY <1>4 DEF WriteForget, PrepInv, bleVars, pageVars
  <2>3. StagedIsOwn'
    BY <1>4 DEF WriteForget, StagedIsOwn, bleVars
  <2>. QED BY <2>1, <2>2, <2>3
<1>. QED BY <1>2, <1>3, <1>4

LEMMA WriteApplyKeeps == IInv /\ WriteApply => IInv'
<1>. SUFFICES ASSUME IInv, WriteApply PROVE IInv'
  OBVIOUS
<1>. USE DEF IInv
<1>1. /\ page' \in Pages /\ page'.at = "none" /\ prep = NoPrep /\ prep' = prep
  BY DEF WriteApply, TypeOK, Pages, PrepInv, Fields
<1>2. PrepInv'
  BY <1>1 DEF PrepInv, Fields
<1>3. StagedIsOwn'
  BY DEF WriteApply, StagedIsOwn
<1>4. CASE \A f \in Fields : staged[f] \in ValidTexts[f]
  <2>1. handoff' = staged /\ events' = events \cup {"commit"} /\ NoPush /\ ClearPassword
    BY <1>4 DEF WriteApply
  <2>. QED BY <1>1, <1>2, <1>3, <2>1, NoPushTypes, ClearTypes DEF WriteApply, TypeOK
<1>5. CASE ~(\A f \in Fields : staged[f] \in ValidTexts[f])
  <2>1. Push("invalid", subscribed) /\ UNCHANGED <<handoff, events, form>>
    BY <1>5 DEF WriteApply
  <2>2. "invalid" \in States /\ subscribed \in BOOLEAN
    BY DEF States, TypeOK
  <2>3. /\ status' \in States /\ queue' \in Seq(States) /\ Len(queue') <= NotifyQueue
        /\ canSend' \in BOOLEAN /\ overflow' \in BOOLEAN
    BY <2>1, <2>2, PushTypes
  <2>. QED BY <1>1, <1>2, <1>3, <2>1, <2>3 DEF WriteApply, TypeOK
<1>. QED BY <1>4, <1>5

-----------------------------------------------------------------------------
(* The network task                                                        *)

LEMMA NetworkKeeps == IInv /\ Network => IInv'
<1>. SUFFICES ASSUME IInv, Network PROVE IInv'
  OBVIOUS
<1>. USE DEF IInv
<1>1. UNCHANGED <<con, staged, prep, page, form, air, noted, own>>
  BY DEF Network, pageVars
<1>2. PrepInv' /\ StagedIsOwn'
  BY <1>1 DEF PrepInv, StagedIsOwn
<1>3. ASSUME /\ status' \in States /\ queue' \in Seq(States) /\ Len(queue') <= NotifyQueue
             /\ canSend' \in BOOLEAN /\ overflow' \in BOOLEAN /\ subscribed' = subscribed,
             active' \in BOOLEAN, current' \in Settings, handoff' \in Settings \cup {None},
             inUse' \in Settings \cup {None}, trial' \in Settings \cup {None},
             net' \in {"idle", "trial", "failed", "reverted"}, events' \subseteq {"commit", "forget"},
             counts' \in [{"connect", "apply", "forget", "edit", "report"} -> Nat]
      PROVE  TypeOK'
  BY <1>1, <1>3 DEF TypeOK
<1>4. CASE Progress
  <2>1. PICK s \in States : Report(s)
    BY <1>4 DEF Progress, States
  <2>2. counts' \in [{"connect", "apply", "forget", "edit", "report"} -> Nat]
    BY <1>4, CountTypes DEF Progress
  <2>. QED BY <1>2, <1>3, <1>4, <2>1, <2>2, ReportTypes DEF Progress, TypeOK, netVars
<1>5. CASE TakeCandidate
  BY <1>2, <1>3, <1>5, QuietTypes DEF TakeCandidate, TypeOK
<1>6. CASE Interrupted
  BY <1>2, <1>3, <1>6, QuietTypes DEF Interrupted, TypeOK
<1>7. CASE Adopt
  BY <1>2, <1>3, <1>7, ReportTypes DEF Adopt, TypeOK, States
<1>8. CASE TrialFailed
  BY <1>2, <1>3, <1>8, ReportTypes DEF TrialFailed, TypeOK, States
<1>9. CASE Revert
  BY <1>2, <1>3, <1>9, ReportTypes DEF Revert, TypeOK, States
<1>10. CASE RevertedToNothing
  BY <1>2, <1>3, <1>10, ReportTypes DEF RevertedToNothing, TypeOK, States
<1>11. CASE HandleForget
  <2>1. /\ status' \in States /\ queue' \in Seq(States) /\ Len(queue') <= NotifyQueue
        /\ canSend' \in BOOLEAN /\ overflow' \in BOOLEAN /\ subscribed' = subscribed
    <3>1. CASE BuildDefault = None
      BY <1>11, <3>1, PushTypes DEF HandleForget, States, TypeOK
    <3>2. CASE BuildDefault # None
      BY <1>11, <3>2, NoPushTypes DEF HandleForget
    <3>. QED BY <3>1, <3>2
  <2>2. active' \in BOOLEAN
    BY <1>11, Zenon DEF HandleForget
  <2>3. current' \in Settings /\ inUse' \in Settings \cup {None}
    BY <1>11, Constants DEF HandleForget, TypeOK
  <2>. QED BY <1>2, <1>3, <1>11, <2>1, <2>2, <2>3 DEF HandleForget, TypeOK
<1>12. CASE StartBle
  <2>1. active' \in BOOLEAN
    BY <1>12, Zenon DEF StartBle
  <2>. QED BY <1>2, <1>3, <1>12, <2>1, QuietTypes DEF StartBle, TypeOK, netVars
<1>. QED BY <1>4, <1>5, <1>6, <1>7, <1>8, <1>9, <1>10, <1>11, <1>12 DEF Network

LEMMA StepKeeps == IInv /\ [Next]_vars => IInv'
<1>1. CASE UNCHANGED vars
  BY <1>1 DEF IInv, TypeOK, PrepInv, StagedIsOwn, vars, bleVars, netVars, pageVars
<1>. QED BY <1>1, ConnectKeeps, DisconnectKeeps, NoticesKeep, WriteFieldKeeps, ClickKeeps,
            WriteApplyKeeps, NetworkKeeps DEF Next, Page

LEMMA Holds == Spec => []IInv
BY InitIInv, StepKeeps, PTL DEF Spec

(* Every variable of the set-up keeps its type: the queue of statuses does *)
(* not outgrow its length nor a prepared write its buffer, and a field     *)
(* never holds anything but one of the texts that were written.            *)
THEOREM TypeCorrect == Spec => []TypeOK
<1>1. IInv => TypeOK
  BY DEF IInv
<1>. QED BY <1>1, Holds, PTL

(* For every set of texts and every way to cut them, a staged field is one *)
(* that this client was given or wrote as a whole.                         *)
THEOREM StagedIsTheClients == Spec => []StagedIsOwn
<1>1. IInv => StagedIsOwn
  BY DEF IInv
<1>. QED BY <1>1, Holds, PTL

-----------------------------------------------------------------------------
(* What is handed over.  While nobody types, the field under way is the    *)
(* form's, and those written before it are staged as the form has them.    *)

FormInv ==
  page.at # "none" =>
    /\ page.pc = "ready"
    /\ ~page.edited =>
         /\ page.at \in Fields => page.value = form[page.at]
         /\ page.at # "ssid" => staged["ssid"] = form.ssid
         /\ page.at \in {"host", "cmd"} /\ form.pass # Blank => staged["pass"] = form.pass
         /\ page.at = "cmd" => staged["host"] = form.host

LEMMA FormUntouched ==
  ASSUME FormInv, UNCHANGED <<form, staged>>, page'.at = page.at, page'.value = page.value,
         page'.edited = page.edited, page.at # "none" => page'.pc = "ready"
  PROVE  FormInv'
BY DEF FormInv

LEMMA WriteFieldKeepsForm == IInv /\ FormInv /\ WriteField => FormInv'
<1>. SUFFICES ASSUME IInv, FormInv, WriteField PROVE FormInv'
  OBVIOUS
<1>1. TypeOK /\ page.at \in Fields /\ form' = form /\ page.pc = "ready"
  BY DEF IInv, WriteField, FormInv, Fields
<1>2. CASE page' = Failed
  BY <1>1, <1>2, FailedIs DEF FormInv
<1>3. CASE ApplyText(page.at, page.value) /\ ~(Len(page.value) > Cap)
  <2>1. /\ staged' = [staged EXCEPT ![page.at] = page.value] /\ page' = AfterWrite
    BY <1>3 DEF ApplyText
  <2>2. /\ page'.pc = "ready" /\ page'.edited = page.edited
        /\ page'.at = (IF page.at = "ssid" THEN IF form.pass = Blank THEN "host" ELSE "pass"
                       ELSE IF page.at = "pass" THEN "host" ELSE "cmd")
        /\ page'.at \in Fields => page'.value = form[page'.at]
    BY <1>1, <2>1, AfterWriteIs
  <2>3. CASE page.edited
    BY <2>2, <2>3 DEF FormInv
  <2>4. CASE ~page.edited
    <3>1. staged'[page.at] = form[page.at]
      BY <1>1, <2>1, <2>4 DEF FormInv, TypeOK, Settings, Fields
    <3>2. \A f \in Fields : f # page.at => staged'[f] = staged[f]
      BY <2>1, <1>1 DEF TypeOK, Settings
    <3>3. CASE page.at = "ssid"
      BY <1>1, <2>2, <2>4, <3>1, <3>3 DEF FormInv, Fields
    <3>4. CASE page.at = "pass"
      BY <1>1, <2>2, <2>4, <3>1, <3>2, <3>4 DEF FormInv, Fields
    <3>5. CASE page.at = "host"
      BY <1>1, <2>2, <2>4, <3>1, <3>2, <3>5 DEF FormInv, Fields
    <3>. QED BY <1>1, <3>3, <3>4, <3>5 DEF Fields
  <2>. QED BY <2>3, <2>4
<1>4. CASE Prepare /\ page.sent # Cap
  <2>1. page' = [page EXCEPT !.sent = page.sent + 1] /\ staged' = staged
    BY <1>4 DEF Prepare
  <2>. QED BY <1>1, <2>1, FormUntouched DEF TypeOK, Pages
<1>. QED BY <1>2, <1>3, <1>4, WriteIs DEF ApplyText

LEMMA StepForm == IInv /\ FormInv /\ [Next]_vars => FormInv'
<1>. SUFFICES ASSUME IInv, FormInv, [Next]_vars PROVE FormInv'
  OBVIOUS
<1>1. TypeOK
  BY DEF IInv
<1>2. CASE Connect
  <2>1. page' = [NoPage EXCEPT !.pc = "connecting"]
    BY <1>2 DEF Connect
  <2>. QED BY <2>1 DEF FormInv, NoPage
<1>3. CASE Disconnect \/ Stop
  <2>1. page' = [NoPage EXCEPT !.lastState = page.lastState]
    BY <1>3 DEF Disconnect, Stop, Hangup
  <2>. QED BY <2>1 DEF FormInv, NoPage
<1>4. CASE ReadStatus
  <2>1. page' = [page EXCEPT !.pc = "reading"] /\ page.pc = "connecting" /\ UNCHANGED <<form, staged>>
    BY <1>4 DEF ReadStatus, bleVars
  <2>. QED BY <1>1, <2>1, FormUntouched DEF TypeOK, Pages, FormInv
<1>5. CASE ReadFields
  <2>1. page' = [page EXCEPT !.pc = "ready"] /\ page.pc = "reading"
    BY <1>5 DEF ReadFields
  <2>. QED BY <1>1, <2>1 DEF TypeOK, Pages, FormInv
<1>6. CASE Receive
  <2>1. page' = [page EXCEPT !.lastState = Head(air).state] /\ UNCHANGED <<form, staged>>
    BY <1>6 DEF Receive, bleVars
  <2>. QED BY <1>1, <2>1, FormUntouched DEF TypeOK, Pages, FormInv
<1>7. CASE ClickApply
  <2>1. page' = [At("ssid") EXCEPT !.wrotePass = FALSE, !.edited = FALSE] /\ page.pc = "ready"
    BY <1>7 DEF ClickApply, Idle
  <2>2. /\ At("ssid") \in Pages /\ At("ssid").at = "ssid" /\ At("ssid").pc = page.pc
        /\ At("ssid").value = form["ssid"]
    BY <1>1, AtIs DEF Fields
  <2>3. page'.at = "ssid" /\ page'.pc = "ready" /\ page'.value = form["ssid"] /\ form' = form
    BY <1>7, <2>1, <2>2 DEF Pages, ClickApply
  <2>. QED BY <2>3 DEF FormInv
<1>8. CASE EditForm
  <2>1. page' = [page EXCEPT !.edited = TRUE]
    BY <1>8 DEF EditForm
  <2>2. page'.edited /\ page'.pc = page.pc /\ page'.at = page.at
    BY <1>1, <2>1 DEF TypeOK, Pages
  <2>. QED BY <2>2 DEF FormInv
<1>9. CASE WriteField
  BY <1>9, WriteFieldKeepsForm
<1>10. CASE WriteApply
  <2>1. page' = [page EXCEPT !.at = "none"]
    BY <1>10 DEF WriteApply
  <2>. QED BY <1>1, <2>1 DEF TypeOK, Pages, FormInv
<1>11. ASSUME UNCHANGED <<page, form, staged>> PROVE FormInv'
  BY <1>11 DEF FormInv
<1>12. CASE Subscribe \/ WriteForget \/ CanSendNow \/ Network \/ UNCHANGED vars
  BY <1>11, <1>12 DEF Subscribe, WriteForget, CanSendNow, Network, vars, bleVars, pageVars
<1>. QED BY <1>2, <1>3, <1>4, <1>5, <1>6, <1>7, <1>8, <1>9, <1>10, <1>12 DEF Next, Page

LEMMA InitForm == Init => FormInv
BY DEF Init, FormInv, NoPage

LEMMA FormHolds == Spec => [](IInv /\ FormInv)
BY InitIInv, InitForm, StepKeeps, StepForm, PTL DEF Spec

(* Nobody but the user of the page decides what is tried: what APPLY hands *)
(* over is valid, and unless the form was edited in the middle it is what  *)
(* the form held, however many writes it took to get there.                *)
THEOREM WhatIsTriedIsTheForm == Spec => HandoffIsForm
<1>. DEFINE A == WriteApply /\ handoff' # handoff =>
                   /\ \A f \in Fields : handoff'[f] \in ValidTexts[f]
                   /\ ~page.edited =>
                        /\ handoff'["ssid"] = form.ssid /\ handoff'["host"] = form.host
                        /\ form.pass # Blank => handoff'["pass"] = form.pass
<1>1. IInv /\ FormInv /\ [Next]_vars => A
  <2>. SUFFICES ASSUME FormInv, WriteApply, handoff' # handoff PROVE A
    OBVIOUS
  <2>1. /\ handoff' = staged /\ \A f \in Fields : staged[f] \in ValidTexts[f]
        /\ page.at = "cmd"
    BY DEF WriteApply
  <2>. QED BY <2>1 DEF FormInv
<1>. QED BY <1>1, FormHolds, PTL DEF Spec, HandoffIsForm

-----------------------------------------------------------------------------
(* The reason of a revert.  What the client has yet to be told stands in   *)
(* air and, after that, in the queue; the answer to a read tells nothing.  *)

Waiting == Len(air) + Len(queue)
Heard   == [k \in 1 .. Waiting |-> IF k > Len(air) THEN queue[k - Len(air)]
                                   ELSE IF air[k].read THEN None ELSE air[k].state]

(* A failure comes before place k of s, or has been noted, and no revert   *)
(* comes in between.                                                       *)
Told(s, k, had) ==
  \E i \in 0 .. k - 1 : /\ IF i = 0 THEN had ELSE s[i] = "failed"
                        /\ \A m \in i + 1 .. k - 1 : s[m] # "reverted"

ReasonInv ==
  ~overflow => /\ \A k \in 1 .. Waiting : Heard[k] = "reverted" => Told(Heard, k, noted)
               /\ net = "failed" /\ subscribed => Told(Heard, Waiting + 1, noted)

LinkInv ==
  /\ (con => active) /\ (subscribed => con) /\ (page.pc # "off" => con)
  /\ ~subscribed => queue = <<>> /\ air = <<>>
  /\ net = "failed" /\ active => status # "reverted"

LEMMA ToldKept ==
  ASSUME NEW s, NEW r, NEW had, NEW k \in Nat, Told(s, k, had), \A i \in 1 .. k - 1 : r[i] = s[i]
  PROVE  Told(r, k, had)
<1>1. PICK i \in 0 .. k - 1 : /\ IF i = 0 THEN had ELSE s[i] = "failed"
                              /\ \A m \in i + 1 .. k - 1 : s[m] # "reverted"
  BY DEF Told
<1>2. \A m \in i + 1 .. k - 1 : m \in 1 .. k - 1
  OBVIOUS
<1>3. i # 0 => i \in 1 .. k - 1
  OBVIOUS
<1>4. IF i = 0 THEN had ELSE r[i] = "failed"
  BY <1>1, <1>3
<1>5. \A m \in i + 1 .. k - 1 : r[m] # "reverted"
  BY <1>1, <1>2
<1>. QED BY <1>4, <1>5 DEF Told

LEMMA ToldOn ==
  ASSUME NEW s, NEW had, NEW k \in Nat \ {0},
         s[k] = "failed" \/ (Told(s, k, had) /\ s[k] # "reverted")
  PROVE  Told(s, k + 1, had)
<1>1. CASE s[k] = "failed"
  <2>1. k \in 0 .. (k + 1) - 1 /\ k # 0
    OBVIOUS
  <2>2. \A m \in k + 1 .. (k + 1) - 1 : s[m] # "reverted"
    OBVIOUS
  <2>. QED BY <1>1, <2>1, <2>2 DEF Told
<1>2. CASE Told(s, k, had) /\ s[k] # "reverted"
  <2>1. PICK i \in 0 .. k - 1 : /\ IF i = 0 THEN had ELSE s[i] = "failed"
                                /\ \A m \in i + 1 .. k - 1 : s[m] # "reverted"
    BY <1>2 DEF Told
  <2>2. i \in 0 .. (k + 1) - 1
    OBVIOUS
  <2>3. \A m \in i + 1 .. (k + 1) - 1 : m = k \/ m \in i + 1 .. k - 1
    OBVIOUS
  <2>4. \A m \in i + 1 .. (k + 1) - 1 : s[m] # "reverted"
    BY <1>2, <2>1, <2>3
  <2>. QED BY <2>1, <2>2, <2>4 DEF Told
<1>. QED BY <1>1, <1>2

(* The first notification is received.                                     *)
LEMMA ToldTail ==
  ASSUME NEW s, NEW r, NEW had, NEW has, NEW k \in Nat \ {0}, Told(s, k + 1, had),
         \A i \in 1 .. k - 1 : r[i] = s[i + 1],
         s[1] = "failed" => has, s[1] # "reverted" /\ had => has
  PROVE  Told(r, k, has)
<1>1. PICK i \in 0 .. (k + 1) - 1 : /\ IF i = 0 THEN had ELSE s[i] = "failed"
                                    /\ \A m \in i + 1 .. (k + 1) - 1 : s[m] # "reverted"
  BY DEF Told
<1>2. CASE i \in {0, 1}
  <2>1. has
    <3>1. CASE i = 0
      <4>1. 1 \in i + 1 .. (k + 1) - 1
        BY <3>1
      <4>. QED BY <1>1, <3>1, <4>1
    <3>2. CASE i = 1
      BY <1>1, <3>2
    <3>. QED BY <1>2, <3>1, <3>2
  <2>2. \A m \in 0 + 1 .. k - 1 : m \in 1 .. k - 1 /\ m + 1 \in i + 1 .. (k + 1) - 1
    BY <1>2
  <2>3. \A m \in 0 + 1 .. k - 1 : r[m] # "reverted"
    BY <1>1, <2>2
  <2>4. 0 \in 0 .. k - 1
    OBVIOUS
  <2>. QED BY <2>1, <2>3, <2>4 DEF Told
<1>3. CASE i \notin {0, 1}
  <2>1. i - 1 \in 0 .. k - 1 /\ i - 1 \in 1 .. k - 1 /\ i - 1 # 0 /\ (i - 1) + 1 = i
    BY <1>3
  <2>2. r[i - 1] = "failed"
    BY <1>1, <1>3, <2>1
  <2>3. \A m \in (i - 1) + 1 .. k - 1 : m \in 1 .. k - 1 /\ m + 1 \in i + 1 .. (k + 1) - 1
    BY <1>3
  <2>4. \A m \in (i - 1) + 1 .. k - 1 : r[m] # "reverted"
    BY <1>1, <2>3
  <2>. QED BY <2>1, <2>2, <2>4 DEF Told
<1>. QED BY <1>2, <1>3

(* An entry that is none comes in behind place a.                          *)
LEMMA ToldInserted ==
  ASSUME NEW s, NEW r, NEW had, NEW a \in Nat, NEW k \in Nat, k > a, Told(s, k, had),
         \A i \in 1 .. a : r[i] = s[i], r[a + 1] = None,
         \A i \in a + 1 .. k - 1 : r[i + 1] = s[i]
  PROVE  Told(r, k + 1, had)
<1>0. None # "reverted"
  BY SetupConstants DEF States
<1>1. PICK i \in 0 .. k - 1 : /\ IF i = 0 THEN had ELSE s[i] = "failed"
                              /\ \A m \in i + 1 .. k - 1 : s[m] # "reverted"
  BY DEF Told
<1>2. ASSUME NEW j \in 0 .. k, NEW m \in j + 1 .. (k + 1) - 1, j >= i, i <= a \/ j > i
      PROVE  r[m] # "reverted"
  <2>1. CASE m <= a
    <3>1. m \in 1 .. a /\ m \in i + 1 .. k - 1
      BY <1>2, <2>1
    <3>. QED BY <1>1, <3>1
  <2>2. CASE m = a + 1
    BY <1>0, <2>2
  <2>3. CASE m > a + 1
    <3>1. m - 1 \in a + 1 .. k - 1 /\ m - 1 \in i + 1 .. k - 1 /\ (m - 1) + 1 = m
      BY <1>2, <2>3
    <3>. QED BY <1>1, <3>1
  <2>. QED BY <2>1, <2>2, <2>3
<1>3. CASE i <= a
  <2>1. i \in 0 .. (k + 1) - 1 /\ i \in 0 .. k /\ (i # 0 => i \in 1 .. a)
    BY <1>3
  <2>2. IF i = 0 THEN had ELSE r[i] = "failed"
    BY <1>1, <2>1
  <2>3. \A m \in i + 1 .. (k + 1) - 1 : r[m] # "reverted"
    BY <1>2, <1>3, <2>1
  <2>. QED BY <2>1, <2>2, <2>3 DEF Told
<1>4. CASE i > a
  <2>1. i + 1 \in 0 .. (k + 1) - 1 /\ i + 1 \in 0 .. k /\ i \in a + 1 .. k - 1 /\ i + 1 # 0 /\ i # 0
    BY <1>4
  <2>2. r[i + 1] = "failed"
    BY <1>1, <2>1
  <2>3. \A m \in (i + 1) + 1 .. (k + 1) - 1 : r[m] # "reverted"
    BY <1>2, <2>1
  <2>. QED BY <2>1, <2>2, <2>3 DEF Told
<1>. QED BY <1>3, <1>4

LEMMA HeardIs ==
  ASSUME TypeOK
  PROVE  /\ Len(air) \in Nat /\ Len(queue) \in Nat /\ Waiting \in Nat
         /\ \A k \in 1 .. Len(air) : /\ k \in 1 .. Waiting
                                     /\ Heard[k] = IF air[k].read THEN None ELSE air[k].state
         /\ \A k \in 1 .. Len(queue) : /\ Len(air) + k \in 1 .. Waiting
                                       /\ Heard[Len(air) + k] = queue[k]
         /\ \A k \in 1 .. Waiting : k \in 1 .. Len(air) \/ k - Len(air) \in 1 .. Len(queue)
<1>1. Len(air) \in Nat /\ Len(queue) \in Nat
  BY DEF TypeOK
<1>2. \A k \in 1 .. Len(air) : k \in 1 .. Waiting /\ ~(k > Len(air))
  BY <1>1 DEF Waiting
<1>3. \A k \in 1 .. Len(queue) : /\ Len(air) + k \in 1 .. Waiting /\ Len(air) + k > Len(air)
                                 /\ (Len(air) + k) - Len(air) = k
  BY <1>1 DEF Waiting
<1>. QED BY <1>1, <1>2, <1>3 DEF Heard, Waiting

LEMMA HeardNext ==
  ASSUME TypeOK'
  PROVE  /\ Len(air') \in Nat /\ Len(queue') \in Nat /\ Waiting' \in Nat
         /\ \A k \in 1 .. Len(air') : /\ k \in 1 .. Waiting'
                                      /\ Heard'[k] = IF air'[k].read THEN None ELSE air'[k].state
         /\ \A k \in 1 .. Len(queue') : /\ Len(air') + k \in 1 .. Waiting'
                                        /\ Heard'[Len(air') + k] = queue'[k]
         /\ \A k \in 1 .. Waiting' : k \in 1 .. Len(air') \/ k - Len(air') \in 1 .. Len(queue')
<1>1. Len(air') \in Nat /\ Len(queue') \in Nat
  BY DEF TypeOK
<1>2. \A k \in 1 .. Len(air') : k \in 1 .. Waiting' /\ ~(k > Len(air'))
  BY <1>1 DEF Waiting
<1>3. \A k \in 1 .. Len(queue') : /\ Len(air') + k \in 1 .. Waiting' /\ Len(air') + k > Len(air')
                                  /\ (Len(air') + k) - Len(air') = k
  BY <1>1 DEF Waiting
<1>. QED BY <1>1, <1>2, <1>3 DEF Heard, Waiting

(* A status more in the queue.                                             *)
LEMMA HeardPushed ==
  ASSUME TypeOK, TypeOK', NEW s \in States, queue' = Append(queue, s), UNCHANGED air
  PROVE  /\ Waiting' = Waiting + 1 /\ Heard'[Waiting + 1] = s
         /\ \A k \in 1 .. Waiting : Heard'[k] = Heard[k]
<1>1. /\ Len(queue') = Len(queue) + 1 /\ queue'[Len(queue) + 1] = s
      /\ \A i \in 1 .. Len(queue) : queue'[i] = queue[i]
  BY AppendIs DEF TypeOK
<1>2. Len(air) \in Nat /\ Len(queue) \in Nat /\ Waiting' = Waiting + 1
  BY <1>1, HeardIs DEF Waiting
<1>3. Heard'[Waiting + 1] = s
  <2>1. Len(queue) + 1 \in 1 .. Len(queue') /\ Waiting + 1 = Len(air') + (Len(queue) + 1)
    BY <1>1, <1>2 DEF Waiting
  <2>. QED BY <1>1, <2>1, HeardNext
<1>4. ASSUME NEW k \in 1 .. Waiting PROVE Heard'[k] = Heard[k]
  <2>1. CASE k \in 1 .. Len(air)
    BY <2>1, HeardIs, HeardNext
  <2>2. CASE k - Len(air) \in 1 .. Len(queue)
    <3>. DEFINE j == k - Len(air)
    <3>1. j \in 1 .. Len(queue) /\ j \in 1 .. Len(queue') /\ k = Len(air) + j
      BY <1>1, <1>2, <2>2
    <3>. HIDE DEF j
    <3>2. Heard[k] = queue[j] /\ Heard'[k] = queue'[j]
      BY <3>1, HeardIs, HeardNext
    <3>. QED BY <1>1, <3>1, <3>2
  <2>. QED BY <1>4, <2>1, <2>2, HeardIs
<1>. QED BY <1>2, <1>3, <1>4

(* It is sent.                                                             *)
LEMMA HeardSent ==
  ASSUME TypeOK, TypeOK', CanSendNow
  PROVE  Waiting' = Waiting /\ \A k \in 1 .. Waiting : Heard'[k] = Heard[k]
<1>. DEFINE e == [state |-> Head(queue), read |-> FALSE]
<1>1. /\ Head(queue) = queue[1] /\ Len(queue) \in Nat \ {0} /\ Len(queue') = Len(queue) - 1
      /\ \A i \in 1 .. Len(queue) - 1 : queue'[i] = queue[i + 1]
      /\ e \in Notices
  BY TailIs DEF CanSendNow, TypeOK, Notices
<1>2. /\ Len(air') = Len(air) + 1 /\ air'[Len(air) + 1] = e
      /\ \A i \in 1 .. Len(air) : air'[i] = air[i]
  BY <1>1, AppendIs DEF CanSendNow, TypeOK
<1>3. Len(air) \in Nat /\ Waiting' = Waiting
  BY <1>1, <1>2, HeardIs DEF Waiting
<1>4. ASSUME NEW k \in 1 .. Waiting PROVE Heard'[k] = Heard[k]
  <2>1. CASE k \in 1 .. Len(air)
    <3>1. k \in 1 .. Len(air')
      BY <1>2, <1>3, <2>1
    <3>. QED BY <1>2, <2>1, <3>1, HeardIs, HeardNext
  <2>2. CASE k = Len(air) + 1
    <3>1. k \in 1 .. Len(air') /\ 1 \in 1 .. Len(queue)
      BY <1>1, <1>2, <1>3, <2>2
    <3>2. Heard[k] = queue[1]
      BY <2>2, <3>1, HeardIs
    <3>3. Heard'[k] = IF e.read THEN None ELSE e.state
      BY <1>2, <2>2, <3>1, HeardNext
    <3>. QED BY <1>1, <3>2, <3>3
  <2>3. CASE k - Len(air) \in 2 .. Len(queue)
    <3>. DEFINE j == k - (Len(air) + 1)
    <3>1. /\ j + 1 \in 1 .. Len(queue) /\ j \in 1 .. Len(queue') /\ j \in 1 .. Len(queue) - 1
          /\ k = Len(air) + (j + 1) /\ k = Len(air') + j
      BY <1>1, <1>2, <1>3, <2>3
    <3>. HIDE DEF j
    <3>2. Heard[k] = queue[j + 1] /\ Heard'[k] = queue'[j]
      BY <3>1, HeardIs, HeardNext
    <3>. QED BY <1>1, <3>1, <3>2
  <2>. QED BY <1>1, <1>3, <1>4, <2>1, <2>2, <2>3, HeardIs
<1>. QED BY <1>3, <1>4

(* The first is received.                                                  *)
LEMMA HeardReceived ==
  ASSUME TypeOK, TypeOK', Receive
  PROVE  /\ Waiting \in Nat \ {0} /\ Waiting' = Waiting - 1
         /\ Heard[1] = IF Head(air).read THEN None ELSE Head(air).state
         /\ \A k \in 1 .. Waiting - 1 : Heard'[k] = Heard[k + 1]
<1>1. /\ Head(air) = air[1] /\ Len(air) \in Nat \ {0} /\ Len(air') = Len(air) - 1
      /\ \A i \in 1 .. Len(air) - 1 : air'[i] = air[i + 1]
      /\ queue' = queue
  BY TailIs DEF Receive, TypeOK, bleVars
<1>2. Len(queue) \in Nat /\ Waiting' = Waiting - 1 /\ Waiting \in Nat \ {0}
  BY <1>1, HeardIs DEF Waiting
<1>3. Heard[1] = IF Head(air).read THEN None ELSE Head(air).state
  <2>1. 1 \in 1 .. Len(air)
    BY <1>1
  <2>. QED BY <1>1, <2>1, HeardIs
<1>4. ASSUME NEW k \in 1 .. Waiting - 1 PROVE Heard'[k] = Heard[k + 1]
  <2>1. k \in 1 .. Waiting' /\ k \in Nat
    BY <1>2
  <2>2. CASE k \in 1 .. Len(air')
    <3>1. k \in 1 .. Len(air) - 1 /\ k + 1 \in 1 .. Len(air)
      BY <1>1, <2>2
    <3>2. air'[k] = air[k + 1]
      BY <1>1, <3>1
    <3>3. Heard'[k] = IF air'[k].read THEN None ELSE air'[k].state
      BY <2>2, HeardNext
    <3>4. Heard[k + 1] = IF air[k + 1].read THEN None ELSE air[k + 1].state
      BY <3>1, HeardIs
    <3>. QED BY <3>2, <3>3, <3>4
  <2>3. CASE k - Len(air') \in 1 .. Len(queue')
    <3>. DEFINE j == k - Len(air')
    <3>1. j \in 1 .. Len(queue) /\ j \in 1 .. Len(queue') /\ k = Len(air') + j /\ k + 1 = Len(air) + j
      BY <1>1, <2>1, <2>3
    <3>. HIDE DEF j
    <3>2. Heard[k + 1] = queue[j]
      BY <3>1, HeardIs
    <3>3. Heard'[k] = queue'[j]
      BY <3>1, HeardNext
    <3>. QED BY <1>1, <3>1, <3>2, <3>3
  <2>. QED BY <2>1, <2>2, <2>3, HeardNext
<1>. QED BY <1>2, <1>3, <1>4

(* The answer to a read is put on the air.                                 *)
LEMMA HeardRead ==
  ASSUME TypeOK, TypeOK', ReadStatus
  PROVE  /\ Waiting' = Waiting + 1 /\ Len(air) \in 0 .. Waiting
         /\ \A k \in 1 .. Len(air) : Heard'[k] = Heard[k]
         /\ Heard'[Len(air) + 1] = None
         /\ \A k \in Len(air) + 1 .. Waiting : Heard'[k + 1] = Heard[k]
<1>. DEFINE e == [state |-> status, read |-> TRUE]
<1>1. e \in Notices /\ queue' = queue
  BY DEF ReadStatus, TypeOK, Notices, bleVars
<1>2. /\ Len(air') = Len(air) + 1 /\ air'[Len(air) + 1] = e
      /\ \A i \in 1 .. Len(air) : air'[i] = air[i]
  BY <1>1, AppendIs DEF ReadStatus, TypeOK
<1>3. /\ Len(air) \in Nat /\ Len(queue) \in Nat /\ Waiting' = Waiting + 1
      /\ Len(air) \in 0 .. Waiting
  BY <1>1, <1>2, HeardIs DEF Waiting
<1>4. \A k \in 1 .. Len(air) : Heard'[k] = Heard[k]
  <2>. TAKE k \in 1 .. Len(air)
  <2>1. k \in 1 .. Len(air') /\ air'[k] = air[k]
    BY <1>2, <1>3
  <2>2. Heard[k] = IF air[k].read THEN None ELSE air[k].state
    BY HeardIs
  <2>3. Heard'[k] = IF air'[k].read THEN None ELSE air'[k].state
    BY <2>1, HeardNext
  <2>. QED BY <2>1, <2>2, <2>3
<1>5. Heard'[Len(air) + 1] = None
  <2>1. Len(air) + 1 \in 1 .. Len(air') /\ e.read
    BY <1>2, <1>3
  <2>2. air'[Len(air) + 1].read
    BY <1>2, <2>1
  <2>. QED BY <2>1, <2>2, HeardNext
<1>6. ASSUME NEW k \in Len(air) + 1 .. Waiting PROVE Heard'[k + 1] = Heard[k]
  <2>. DEFINE j == k - Len(air)
  <2>1. j \in 1 .. Len(queue) /\ k = Len(air) + j /\ k + 1 = Len(air') + j
    BY <1>2, <1>3 DEF Waiting
  <2>. HIDE DEF j
  <2>2. Heard[k] = queue[j]
    BY <2>1, HeardIs
  <2>3. Heard'[k + 1] = queue'[j]
    BY <1>1, <2>1, HeardNext
  <2>. QED BY <1>1, <2>2, <2>3
<1>. QED BY <1>3, <1>4, <1>5, <1>6

LEMMA ReasonKept ==
  ASSUME ReasonInv, UNCHANGED <<air, queue, noted, overflow>>,
         net' = "failed" /\ subscribed' => net = "failed" /\ subscribed
  PROVE  ReasonInv'
<1>1. UNCHANGED <<Waiting, Heard>>
  BY DEF Waiting, Heard
<1>. QED BY <1>1 DEF ReasonInv, Told

LEMMA PushReason ==
  ASSUME TypeOK, TypeOK', ReasonInv, NEW s \in States, Push(s, subscribed),
         UNCHANGED <<air, noted, subscribed>>,
         s = "reverted" /\ subscribed => net = "failed",
         net' = "failed" /\ subscribed => s = "failed" \/ (s # "reverted" /\ net = "failed")
  PROVE  ReasonInv'
<1>1. CASE ~subscribed
  <2>1. queue' = queue
    BY <1>1 DEF Push
  <2>2. overflow' = overflow
    <3>1. overflow' = (overflow \/ FALSE)
      BY <1>1, Zenon DEF Push
    <3>. QED BY <3>1 DEF TypeOK
  <2>. QED BY <1>1, <2>1, <2>2, ReasonKept
<1>2. CASE overflow'
  BY <1>2 DEF ReasonInv
<1>3. CASE subscribed /\ ~overflow'
  <2>1. queue' = Append(queue, s) /\ ~overflow
    BY <1>3 DEF Push
  <2>2. /\ Waiting \in Nat /\ Waiting' = Waiting + 1 /\ Heard'[Waiting + 1] = s
        /\ \A k \in 1 .. Waiting : Heard'[k] = Heard[k]
    BY <2>1, HeardPushed, HeardIs
  <2>3. ASSUME Told(Heard, Waiting + 1, noted) PROVE Told(Heard', Waiting + 1, noted)
    BY <2>2, <2>3, ToldKept
  <2>4. ASSUME NEW k \in 1 .. Waiting', Heard'[k] = "reverted" PROVE Told(Heard', k, noted)
    <3>1. CASE k = Waiting + 1
      <4>1. Told(Heard, Waiting + 1, noted)
        BY <1>3, <2>1, <2>2, <2>4, <3>1 DEF ReasonInv
      <4>. QED BY <2>3, <3>1, <4>1
    <3>2. CASE k \in 1 .. Waiting
      <4>1. Told(Heard, k, noted) /\ k \in Nat
        BY <2>1, <2>2, <2>4, <3>2 DEF ReasonInv
      <4>2. \A i \in 1 .. k - 1 : Heard'[i] = Heard[i]
        BY <2>2, <3>2
      <4>. QED BY <4>1, <4>2, ToldKept
    <3>. QED BY <2>2, <3>1, <3>2
  <2>5. ASSUME net' = "failed" PROVE Told(Heard', Waiting + 1 + 1, noted)
    <3>1. Heard'[Waiting + 1] = "failed" \/
            (Told(Heard', Waiting + 1, noted) /\ Heard'[Waiting + 1] # "reverted")
      <4>1. CASE s = "failed"
        BY <2>2, <4>1
      <4>2. CASE s # "reverted" /\ net = "failed"
        <5>1. Told(Heard, Waiting + 1, noted)
          BY <1>3, <2>1, <4>2 DEF ReasonInv
        <5>. QED BY <2>2, <2>3, <4>2, <5>1
      <4>. QED BY <1>3, <2>5, <4>1, <4>2
    <3>. QED BY <2>2, <3>1, ToldOn
  <2>. QED BY <2>2, <2>4, <2>5 DEF ReasonInv
<1>. QED BY <1>1, <1>2, <1>3

LEMMA ReportReason ==
  ASSUME TypeOK, TypeOK', LinkInv, ReasonInv, NEW s \in States, Report(s), UNCHANGED <<air, noted>>,
         s = "reverted" => net = "failed",
         net' = "failed" => s = "failed"
  PROVE  ReasonInv'
<1>1. CASE active
  BY <1>1, PushReason DEF Report
<1>2. CASE ~active
  BY <1>2, ReasonKept DEF Report, NoPush, LinkInv
<1>. QED BY <1>1, <1>2

LEMMA SubscribeReason == ASSUME TypeOK, TypeOK', LinkInv, Subscribe PROVE ReasonInv'
<1>1. /\ queue = <<>> /\ air = <<>> /\ Push(status, TRUE) /\ con /\ net' = net /\ air' = air
      /\ noted' = (net = "failed" \/ status = "reverted")
  BY DEF Subscribe, LinkInv, netVars
<1>2. Len(queue) = 0 /\ Len(air) = 0
  BY <1>1, EmptySeq
<1>3. queue' = Append(queue, status) /\ status \in States
  BY <1>1, <1>2, Constants DEF Push, TypeOK
<1>4. Waiting = 0 /\ Waiting' = 1 /\ Heard'[1] = status
  <2>1. Waiting = 0
    BY <1>2 DEF Waiting
  <2>2. Waiting' = Waiting + 1 /\ Heard'[Waiting + 1] = status
    BY <1>1, <1>3, HeardPushed
  <2>. QED BY <2>1, <2>2
<1>5. ASSUME noted' PROVE Told(Heard', 1, noted')
  <2>1. 0 \in 0 .. 1 - 1 /\ \A m \in 0 + 1 .. 1 - 1 : Heard'[m] # "reverted"
    OBVIOUS
  <2>. QED BY <1>5, <2>1 DEF Told
<1>6. ASSUME NEW k \in 1 .. Waiting', Heard'[k] = "reverted" PROVE Told(Heard', k, noted')
  <2>1. k = 1
    BY <1>4
  <2>. QED BY <1>1, <1>4, <1>5, <1>6, <2>1
<1>7. ASSUME net' = "failed" PROVE Told(Heard', Waiting' + 1, noted')
  <2>1. status # "reverted" /\ noted'
    BY <1>1, <1>7 DEF LinkInv
  <2>2. Told(Heard', 1 + 1, noted')
    <3>1. 1 \in Nat \ {0}
      OBVIOUS
    <3>2. Told(Heard', 1, noted')
      BY <1>5, <2>1
    <3>3. Heard'[1] # "reverted"
      BY <1>4, <2>1, Zenon
    <3>. QED BY <3>1, <3>2, <3>3, ToldOn, Zenon
  <2>. QED BY <1>4, <2>2
<1>. QED BY <1>6, <1>7 DEF ReasonInv

LEMMA SentReason == ASSUME TypeOK, TypeOK', ReasonInv, CanSendNow PROVE ReasonInv'
<1>1. /\ Waiting \in Nat /\ Waiting' = Waiting /\ \A k \in 1 .. Waiting : Heard'[k] = Heard[k]
  BY HeardSent, HeardIs
<1>2. UNCHANGED <<noted, overflow, subscribed, net>>
  BY DEF CanSendNow, netVars
<1>3. ASSUME NEW k \in 1 .. Waiting + 1, Told(Heard, k, noted) PROVE Told(Heard', k, noted)
  <2>1. k \in Nat /\ \A i \in 1 .. k - 1 : Heard'[i] = Heard[i]
    BY <1>1
  <2>. QED BY <1>3, <2>1, ToldKept
<1>4. \A k \in 1 .. Waiting : k \in 1 .. Waiting + 1
  BY <1>1
<1>5. Waiting + 1 \in 1 .. Waiting + 1
  BY <1>1
<1>. QED BY <1>1, <1>2, <1>3, <1>4, <1>5 DEF ReasonInv

LEMMA ReceivedReason == ASSUME TypeOK, TypeOK', ReasonInv, Receive PROVE ReasonInv'
<1>1. /\ Waiting \in Nat \ {0} /\ Waiting' = Waiting - 1
      /\ Heard[1] = IF Head(air).read THEN None ELSE Head(air).state
      /\ \A k \in 1 .. Waiting - 1 : Heard'[k] = Heard[k + 1]
  BY HeardReceived
<1>2. UNCHANGED <<overflow, subscribed, net>>
  BY DEF Receive, bleVars, netVars
<1>3. None # "failed" /\ None # "reverted"
  BY SetupConstants DEF States
<1>4. /\ Heard[1] = "failed" => noted'
      /\ Heard[1] # "reverted" /\ noted => noted'
  BY <1>1, <1>3 DEF Receive
<1>5. ASSUME NEW k \in 1 .. Waiting, Told(Heard, k + 1, noted) PROVE Told(Heard', k, noted')
  <2>1. k \in Nat \ {0} /\ \A i \in 1 .. k - 1 : Heard'[i] = Heard[i + 1]
    BY <1>1
  <2>. QED BY <1>4, <1>5, <2>1, ToldTail
<1>6. ASSUME ~overflow, NEW k \in 1 .. Waiting', Heard'[k] = "reverted" PROVE Told(Heard', k, noted')
  <2>1. k \in 1 .. Waiting /\ k + 1 \in 1 .. Waiting /\ Heard'[k] = Heard[k + 1]
    BY <1>1
  <2>. QED BY <1>5, <1>6, <2>1 DEF ReasonInv
<1>7. ASSUME ~overflow, net = "failed", subscribed PROVE Told(Heard', Waiting' + 1, noted')
  <2>1. Waiting \in 1 .. Waiting /\ Waiting' + 1 = Waiting
    BY <1>1
  <2>. QED BY <1>5, <1>7, <2>1 DEF ReasonInv
<1>. QED BY <1>2, <1>6, <1>7 DEF ReasonInv

LEMMA ReadReason == ASSUME TypeOK, TypeOK', ReasonInv, ReadStatus PROVE ReasonInv'
<1>. DEFINE a == Len(air)
<1>1. /\ Waiting \in Nat /\ Waiting' = Waiting + 1 /\ a \in 0 .. Waiting
      /\ \A k \in 1 .. a : Heard'[k] = Heard[k]
      /\ Heard'[a + 1] = None
      /\ \A k \in a + 1 .. Waiting : Heard'[k + 1] = Heard[k]
  BY HeardRead, HeardIs
<1>2. UNCHANGED <<overflow, subscribed, net, noted>>
  BY DEF ReadStatus, bleVars, netVars
<1>3. None # "reverted"
  BY SetupConstants DEF States
<1>. HIDE DEF a
<1>4. ASSUME NEW k \in a + 1 .. Waiting + 1, Told(Heard, k, noted) PROVE Told(Heard', k + 1, noted)
  <2>1. a \in Nat /\ k \in Nat /\ k > a /\ \A i \in a + 1 .. k - 1 : Heard'[i + 1] = Heard[i]
    BY <1>1
  <2>. QED BY <1>1, <1>4, <2>1, ToldInserted
<1>5. ASSUME ~overflow, NEW k \in 1 .. Waiting', Heard'[k] = "reverted" PROVE Told(Heard', k, noted)
  <2>1. CASE k \in 1 .. a
    <3>1. k \in 1 .. Waiting /\ k \in Nat /\ Heard[k] = "reverted"
      BY <1>1, <1>5, <2>1
    <3>2. \A i \in 1 .. k - 1 : Heard'[i] = Heard[i]
      BY <1>1, <2>1
    <3>. QED BY <1>5, <3>1, <3>2, ToldKept DEF ReasonInv
  <2>2. CASE k = a + 1
    BY <1>1, <1>3, <1>5, <2>2
  <2>3. CASE k - 1 \in a + 1 .. Waiting
    <3>. DEFINE j == k - 1
    <3>1. /\ j \in a + 1 .. Waiting /\ j \in a + 1 .. Waiting + 1 /\ j \in 1 .. Waiting
          /\ k = j + 1
      BY <1>1, <2>3
    <3>. HIDE DEF j
    <3>2. Heard[j] = "reverted"
      BY <1>1, <1>5, <3>1
    <3>3. Told(Heard, j, noted)
      BY <1>5, <3>1, <3>2 DEF ReasonInv
    <3>. QED BY <1>4, <3>1, <3>3
  <2>. QED BY <1>1, <2>1, <2>2, <2>3
<1>6. ASSUME ~overflow, net = "failed", subscribed PROVE Told(Heard', Waiting' + 1, noted)
  <2>1. Told(Heard, Waiting + 1, noted) /\ Waiting + 1 \in a + 1 .. Waiting + 1
    BY <1>1, <1>6 DEF ReasonInv
  <2>. QED BY <1>1, <1>4, <2>1
<1>. QED BY <1>2, <1>5, <1>6 DEF ReasonInv

-----------------------------------------------------------------------------
LEMMA StepLink == IInv /\ LinkInv /\ [Next]_vars => LinkInv'
<1>. SUFFICES ASSUME TypeOK, LinkInv, [Next]_vars PROVE LinkInv'
  BY DEF IInv
<1>1. CASE Connect
  BY <1>1 DEF Connect, LinkInv, netVars
<1>2. CASE Disconnect \/ Stop
  <2>1. page'.pc = "off"
    BY <1>2 DEF Disconnect, Stop, Hangup, NoPage
  <2>. QED BY <1>2, <2>1 DEF Disconnect, Stop, Hangup, LinkInv, netVars
<1>3. CASE Subscribe
  BY <1>3 DEF Subscribe, Push, LinkInv, netVars, pageVars
<1>4. CASE ReadStatus
  BY <1>4 DEF ReadStatus, LinkInv, netVars, bleVars
<1>5. CASE ReadFields
  BY <1>5 DEF ReadFields, LinkInv, netVars, bleVars
<1>6. CASE Receive
  <2>1. page'.pc = page.pc
    BY <1>6 DEF Receive, TypeOK, Pages
  <2>. QED BY <1>6, <2>1 DEF Receive, LinkInv, netVars, bleVars
<1>7. CASE ClickApply \/ EditForm \/ WriteForget
  BY <1>7 DEF ClickApply, EditForm, WriteForget, Idle, LinkInv, netVars, bleVars, pageVars
<1>8. CASE WriteField
  <2>1. /\ page.pc = "off" => page'.pc = "off"
        /\ NoPush /\ UNCHANGED <<active, con, subscribed, air, net>>
    <3>1. AfterWrite.pc = page.pc /\ Failed.pc = page.pc
      BY <1>8, AfterWriteIs DEF WriteField, Failed, TypeOK, Pages
    <3>2. [page EXCEPT !.sent = page.sent + 1].pc = page.pc
      BY DEF TypeOK, Pages
    <3>3. page'.pc = page.pc
      BY <1>8, <3>1, <3>2 DEF WriteField, WritePlain, Prepare, Execute, ApplyText
    <3>. QED BY <1>8, <3>3 DEF WriteField, netVars
  <2>. QED BY <1>8, <2>1 DEF LinkInv, NoPush
<1>9. CASE WriteApply
  <2>1. page'.pc = page.pc
    BY <1>9 DEF WriteApply, TypeOK, Pages
  <2>. QED BY <1>9, <2>1 DEF WriteApply, LinkInv, Push, NoPush
<1>10. CASE CanSendNow
  BY <1>10 DEF CanSendNow, LinkInv, netVars, pageVars
<1>11. CASE Network
  <2>1. UNCHANGED <<con, page, air>>
    BY <1>11 DEF Network, pageVars
  <2>2. CASE Progress \/ TakeCandidate \/ Interrupted \/ Adopt
    BY <2>1, <2>2 DEF Progress, TakeCandidate, Interrupted, Adopt, Report, Quiet, Push, NoPush,
       LinkInv, netVars
  <2>3. CASE TrialFailed \/ Revert \/ RevertedToNothing
    BY <2>1, <2>3 DEF TrialFailed, Revert, RevertedToNothing, Report, Push, NoPush, LinkInv
  <2>4. CASE HandleForget
    <3>1. /\ (active => active') /\ UNCHANGED <<subscribed, net>> /\ net = "idle"
          /\ Push("unprovisioned", subscribed) \/ NoPush
      BY <2>4 DEF HandleForget
    <3>2. ~subscribed => queue' = queue
      BY <3>1 DEF Push, NoPush
    <3>. QED BY <2>1, <3>1, <3>2 DEF LinkInv
  <2>5. CASE StartBle
    BY <2>1, <2>5 DEF StartBle, Quiet, NoPush, LinkInv, netVars
  <2>. QED BY <1>11, <2>2, <2>3, <2>4, <2>5 DEF Network
<1>12. CASE UNCHANGED vars
  BY <1>12 DEF LinkInv, vars, bleVars, netVars, pageVars
<1>. QED BY <1>1, <1>2, <1>3, <1>4, <1>5, <1>6, <1>7, <1>8, <1>9, <1>10, <1>11, <1>12
         DEF Next, Page

LEMMA StepReason == IInv /\ LinkInv /\ ReasonInv /\ [Next]_vars => ReasonInv'
<1>. SUFFICES ASSUME IInv, LinkInv, ReasonInv, [Next]_vars PROVE ReasonInv'
  OBVIOUS
<1>1. TypeOK /\ TypeOK'
  BY StepKeeps DEF IInv
<1>2. CASE Connect \/ Disconnect \/ Stop
  <2>1. queue' = <<>> /\ air' = <<>> /\ ~subscribed'
    BY <1>2 DEF Connect, Disconnect, Stop, Hangup, LinkInv
  <2>2. Waiting' = 0
    BY <2>1, EmptySeq DEF Waiting
  <2>. QED BY <2>1, <2>2 DEF ReasonInv
<1>3. CASE Subscribe
  BY <1>1, <1>3, SubscribeReason
<1>4. CASE ReadStatus
  BY <1>1, <1>4, ReadReason
<1>5. CASE Receive
  BY <1>1, <1>5, ReceivedReason
<1>6. CASE CanSendNow
  BY <1>1, <1>6, SentReason
<1>7. CASE WriteApply
  <2>1. UNCHANGED <<air, noted, subscribed, net>>
    BY <1>7 DEF WriteApply
  <2>2. CASE NoPush
    BY <2>1, <2>2, ReasonKept DEF NoPush
  <2>3. CASE Push("invalid", subscribed)
    BY <1>1, <2>1, <2>3, PushReason DEF States
  <2>. QED BY <1>7, <2>2, <2>3 DEF WriteApply
<1>8. CASE Network
  <2>1. UNCHANGED <<air, noted>>
    BY <1>8 DEF Network
  <2>2. CASE Progress
    <3>1. PICK s \in {"trying", "failed", "online"} : Report(s)
      BY <2>2 DEF Progress
    <3>2. net' = net /\ net # "failed"
      BY <2>2 DEF Progress, netVars
    <3>. QED BY <1>1, <2>1, <3>1, <3>2, ReportReason DEF States
  <2>3. CASE TakeCandidate \/ Interrupted \/ StartBle
    BY <2>1, <2>3, ReasonKept DEF TakeCandidate, Interrupted, StartBle, Quiet, NoPush, netVars
  <2>4. CASE Adopt
    BY <1>1, <2>1, <2>4, ReportReason DEF Adopt, States
  <2>5. CASE TrialFailed
    BY <1>1, <2>1, <2>5, ReportReason DEF TrialFailed, States
  <2>6. CASE Revert
    BY <1>1, <2>1, <2>6, ReportReason DEF Revert, States
  <2>7. CASE RevertedToNothing
    BY <1>1, <2>1, <2>7, ReportReason DEF RevertedToNothing, States
  <2>8. CASE HandleForget
    <3>1. net' = net /\ net = "idle" /\ subscribed' = subscribed
      BY <2>8 DEF HandleForget
    <3>2. CASE NoPush
      BY <2>1, <3>1, <3>2, ReasonKept DEF NoPush
    <3>3. CASE Push("unprovisioned", subscribed)
      BY <1>1, <2>1, <3>1, <3>3, PushReason DEF States
    <3>. QED BY <2>8, <3>2, <3>3 DEF HandleForget
  <2>. QED BY <1>8, <2>2, <2>3, <2>4, <2>5, <2>6, <2>7, <2>8 DEF Network
<1>9. CASE ReadFields \/ ClickApply \/ EditForm \/ WriteField \/ WriteForget \/ UNCHANGED vars
  <2>1. UNCHANGED <<air, queue, noted, overflow, net, subscribed>>
    BY <1>9 DEF ReadFields, ClickApply, EditForm, WriteField, WriteForget, NoPush, vars, bleVars,
       netVars
  <2>. QED BY <2>1, ReasonKept
<1>. QED BY <1>2, <1>3, <1>4, <1>5, <1>6, <1>7, <1>8, <1>9 DEF Next, Page

LEMMA InitReason == Init => LinkInv /\ ReasonInv
<1>. SUFFICES ASSUME Init PROVE LinkInv /\ ReasonInv
  OBVIOUS
<1>1. Waiting = 0
  BY EmptySeq DEF Init, Waiting
<1>. QED BY <1>1 DEF Init, LinkInv, ReasonInv, NoPage

LEMMA ReasonHolds == Spec => [](IInv /\ LinkInv /\ ReasonInv)
BY InitIInv, InitReason, StepKeeps, StepLink, StepReason, PTL DEF Spec

(* For every length of the queue, order of trials, reports and reads: a    *)
(* client that receives the revert has the failure before it, unless the   *)
(* queue overflowed or the client came between the two.                    *)
THEOREM FailureComesBeforeRevert == Spec => ReasonArrives
<1>. DEFINE A == Receive /\ ~Head(air).read /\ Head(air).state = "reverted" => noted \/ overflow
<1>1. IInv /\ LinkInv /\ ReasonInv => A
  <2>. SUFFICES ASSUME TypeOK, ReasonInv, Receive, ~Head(air).read, Head(air).state = "reverted",
                       ~overflow
                PROVE  noted
    BY DEF IInv
  <2>1. /\ Head(air) = air[1] /\ 1 \in 1 .. Len(air)
    BY TailIs DEF Receive, TypeOK
  <2>2. Heard[1] = "reverted" /\ 1 \in 1 .. Waiting
    BY <2>1, HeardIs
  <2>3. Told(Heard, 1, noted)
    BY <2>2 DEF ReasonInv
  <2>. QED BY <2>3 DEF Told
<1>. QED BY <1>1, ReasonHolds, PTL DEF ReasonArrives
=============================================================================
