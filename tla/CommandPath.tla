---------------------------- MODULE CommandPath ----------------------------
(***************************************************************************)
(* A button press on its way from the page to the infrared LED: POST       *)
(* /api/send of backend/server.js, the MQTT client and the broker, the     *)
(* receiving callbacks of firmware/src/mqtt_manager.cpp with               *)
(* decode_ir_message, and the task of ir_transmit.cpp.                     *)
(*                                                                         *)
(* A payload is a head followed by the pulses of the train, an entry each. *)
(* The hub gets it in fragments of a few entries: where a fragment ends    *)
(* inside a number adds nothing, for they are joined before they are       *)
(* parsed.  The carrier frequency and the commands that routines and rules *)
(* send the same way (PriceRules) are left out.                            *)
(***************************************************************************)
EXTENDS Naturals, Sequences, SequencesExt

CONSTANTS
  Buttons, None,
  Signals,      \* signals a button may be given, [pulses, truncated]
  MaxPulses,    \* IR_MAX_PULSES
  BufLen,       \* MQTT_MAX_PAYLOAD_LEN, in entries
  MaxFragment,  \* the most a call of mqtt_incoming_data_cb brings, in entries
  TxQueue,      \* length of g_mqttToTransmitQueue
  MaxTaps, MaxChanges, MaxBreaks, MaxLeaves  \* bounds, by name

Pulse == Nat \ {0}
Head0 == 0     \* the text before the pulses

(* A fragment that does not fit is skipped.  By then the buffer holds more *)
(* than a train that may be sent.                                          *)
ASSUME PathConstants ==
  /\ None \notin Signals
  /\ \A s \in Signals : s.pulses \in Seq(Pulse) /\ s.truncated \in BOOLEAN
  /\ {MaxPulses, BufLen, MaxFragment, TxQueue} \subseteq Nat \ {0}
  /\ BufLen > MaxFragment + MaxPulses + 1
  /\ {MaxTaps, MaxChanges, MaxBreaks, MaxLeaves} \subseteq Nat

VARIABLES
  signal,     \* the buttons' signals in db.json
  taps,       \* requests to send: the button and how far its request is
  published,  \* what /api/send published so far; a message is its place in it
  connected,  \* the backend, to the broker
  store, sent,\* mqtt.js: messages without PUBACK, how many this connection sent
  up, down,   \* messages and PUBACKs on their way on that connection
  joined,     \* the hub, connected and subscribed
  toHub,      \* messages on their way to the hub
  msg, left,  \* the message the hub is receiving and what it has not seen of it
  rx,         \* s_rx_payload
  txq, burst, \* the transmit queue and what the task is transmitting
  counts,     \* what the bounds count
  accepted,   \* ghost: messages that reached the broker
  resent,     \* ghost: messages without PUBACK when the connection broke
  emitted     \* ghost: what was transmitted, in order

backVars == <<signal, taps, published>>
linkVars == <<connected, store, sent, up, down>>
hubVars  == <<joined, toHub, msg, left, rx>>
txVars   == <<txq, burst>>
ghosts   == <<accepted, resent, emitted>>
vars     == <<backVars, linkVars, hubVars, txVars, counts, ghosts>>

Count(k, max) == counts[k] < max /\ counts' = [counts EXCEPT ![k] = @ + 1]

Init ==
  /\ signal \in [Buttons -> Signals \cup {None}]
  /\ taps = <<>> /\ published = <<>>
  /\ connected = TRUE /\ store = <<>> /\ sent = 0 /\ up = <<>> /\ down = <<>>
  /\ joined = TRUE /\ toHub = <<>> /\ msg = 0 /\ left = <<>> /\ rx = <<>>
  /\ txq = <<>> /\ burst = None
  /\ counts = [k \in {"change", "break", "leave"} |-> 0]
  /\ accepted = {} /\ resent = {} /\ emitted = <<>>

-----------------------------------------------------------------------------
(* The page and the API                                                    *)

(* handleButtonTap.  A page with an old copy may ask for a button that has *)
(* lost its signal, or is gone.                                            *)
Tap(b) ==
  /\ Len(taps) < MaxTaps
  /\ taps' = Append(taps, [button |-> b, pc |-> "asked", n |-> 0])
  /\ UNCHANGED <<signal, published, linkVars, hubVars, txVars, counts, ghosts>>

(* A button is learned anew, or removed.                                   *)
Change(b) ==
  /\ Count("change", MaxChanges)
  /\ \E s \in Signals \cup {None} : signal' = [signal EXCEPT ![b] = s]
  /\ UNCHANGED <<taps, published, linkVars, hubVars, txVars, ghosts>>

(* /api/send; the answer of a published message waits for its PUBACK.      *)
Serve(t) ==
  /\ taps[t].pc = "asked"
  /\ LET s == signal[taps[t].button]
     IN  IF s = None \/ s.truncated
         THEN /\ taps' = [taps EXCEPT ![t].pc = "refused"]
              /\ UNCHANGED <<published, store>>
         ELSE /\ taps' = [taps EXCEPT ![t].pc = "published", ![t].n = Len(published) + 1]
              /\ published' = Append(published, s.pulses)
              /\ store' = Append(store, Len(published) + 1)
  /\ UNCHANGED <<signal, connected, sent, up, down, hubVars, txVars, counts, ghosts>>

-----------------------------------------------------------------------------
(* mqtt.js and the broker                                                  *)

Answered(n) ==
  taps' = [t \in DOMAIN taps |-> IF taps[t].n = n THEN [taps[t] EXCEPT !.pc = "ok"] ELSE taps[t]]

(* Mutant: QoS 0, done when it is written.                                 *)
SendOnce ==
  /\ connected /\ sent < Len(store)
  /\ up' = Append(up, store[sent + 1]) /\ store' = RemoveFirst(store, store[sent + 1])
  /\ Answered(store[sent + 1])
  /\ UNCHANGED <<signal, published, connected, sent, down, hubVars, txVars, counts, ghosts>>

Send ==
  /\ connected /\ sent < Len(store)
  /\ up' = Append(up, store[sent + 1]) /\ sent' = sent + 1
  /\ UNCHANGED <<backVars, connected, store, down, hubVars, txVars, counts, ghosts>>

(* The broker forwards to a hub that is there, and keeps nothing for one   *)
(* that is not: its session is clean.                                      *)
Accept ==
  /\ up # <<>> /\ up' = Tail(up) /\ down' = Append(down, Head(up))
  /\ accepted' = accepted \cup {Head(up)}
  /\ toHub' = IF joined THEN Append(toHub, Head(up)) ELSE toHub
  /\ UNCHANGED <<backVars, connected, store, sent, joined, msg, left, rx, txVars, counts,
                 resent, emitted>>

(* Mutant: the message stays in the store.                                 *)
PubAckKeeps ==
  /\ down # <<>> /\ down' = Tail(down) /\ Answered(Head(down))
  /\ UNCHANGED <<signal, published, connected, store, sent, up, hubVars, txVars, counts, ghosts>>

PubAck ==
  /\ down # <<>> /\ down' = Tail(down) /\ Answered(Head(down))
  /\ store' = RemoveFirst(store, Head(down)) /\ sent' = sent - 1
  /\ UNCHANGED <<signal, published, connected, up, hubVars, txVars, counts, ghosts>>

Unanswered == {taps[t].n : t \in {u \in DOMAIN taps : taps[u].pc = "published"}}

Break ==
  /\ connected /\ connected' = FALSE /\ Count("break", MaxBreaks)
  /\ up' = <<>> /\ down' = <<>> /\ resent' = resent \cup (Unanswered \cap {store[i] : i \in 1 .. sent})
  /\ UNCHANGED <<backVars, store, sent, hubVars, txVars, accepted, emitted>>

(* Mutant: the store starts empty with each connection.                    *)
ReconnectBare ==
  /\ ~connected /\ connected' = TRUE /\ sent' = 0 /\ store' = <<>>
  /\ UNCHANGED <<backVars, up, down, hubVars, txVars, counts, ghosts>>

(* Every message without PUBACK is sent again, in order.                   *)
Reconnect ==
  /\ ~connected /\ connected' = TRUE /\ sent' = 0
  /\ UNCHANGED <<backVars, store, up, down, hubVars, txVars, counts, ghosts>>

-----------------------------------------------------------------------------
(* The hub                                                                 *)

HubLeaves ==
  /\ joined /\ joined' = FALSE /\ Count("leave", MaxLeaves)
  /\ toHub' = <<>> /\ msg' = 0 /\ left' = <<>>
  /\ UNCHANGED <<backVars, linkVars, rx, txVars, ghosts>>

HubJoins ==
  /\ ~joined /\ joined' = TRUE
  /\ UNCHANGED <<backVars, linkVars, toHub, msg, left, rx, txVars, counts, ghosts>>

NextMessage ==
  /\ msg = 0 /\ toHub # <<>>
  /\ msg' = Head(toHub) /\ toHub' = Tail(toHub) /\ left' = <<Head0>> \o published[Head(toHub)]
  /\ UNCHANGED <<backVars, linkVars, joined, txVars, counts, ghosts>>

(* Mutant: the payload goes on where the last one stopped.                 *)
IncomingPublishKeeps == NextMessage /\ UNCHANGED rx

(* mqtt_incoming_publish_cb                                                *)
IncomingPublish == NextMessage /\ rx' = <<>>

(* decode_ir_message: the pulses up to the end or to what is not a number. *)
Decoded(buf) ==
  LET ends == {i \in 2 .. Len(buf) : buf[i] = Head0}
  IN  IF buf = <<>> \/ buf[1] # Head0 THEN <<>>
      ELSE SubSeq(buf, 2, IF ends = {} THEN Len(buf) ELSE Min(ends) - 1)

(* Mutant: a longer train is cut to what the hub can hold.                 *)
TransmissibleCut(train) ==
  IF train = <<>> THEN None ELSE SubSeq(train, 1, IF Len(train) > MaxPulses THEN MaxPulses ELSE Len(train))

(* A train that was not parsed or is too long is not transmitted at all.   *)
Transmissible(train) == IF Len(train) \in 1 .. MaxPulses THEN train ELSE None

(* Mutant: no room is left for the terminator.                             *)
FitsExactly(k) == Len(rx) + k <= BufLen
Fits(k)        == Len(rx) + k < BufLen

(* mqtt_incoming_data_cb.  The last fragment may wait a little for the     *)
(* queue; if it stays full the command is dropped.                         *)
IncomingData ==
  /\ msg # 0
  /\ \E k \in 1 .. MaxFragment :
       /\ k <= Len(left) /\ left' = SubSeq(left, k + 1, Len(left))
       /\ rx' = IF Fits(k) THEN rx \o SubSeq(left, 1, k) ELSE rx
  /\ IF left' # <<>> THEN UNCHANGED <<msg, txq>>
     ELSE LET train == Transmissible(Decoded(rx'))
          IN  /\ msg' = 0
              /\ txq' = IF train = None \/ Len(txq) = TxQueue THEN txq
                        ELSE Append(txq, [n |-> msg, train |-> train])
  /\ UNCHANGED <<backVars, linkVars, joined, toHub, burst, counts, ghosts>>

(* ir_transmit::task                                                       *)
TakeCommand ==
  /\ burst = None /\ txq # <<>> /\ burst' = Head(txq) /\ txq' = Tail(txq)
  /\ UNCHANGED <<backVars, linkVars, hubVars, counts, ghosts>>

Transmit ==
  /\ burst # None /\ emitted' = Append(emitted, burst) /\ burst' = None
  /\ UNCHANGED <<backVars, linkVars, hubVars, txq, counts, accepted, resent>>

-----------------------------------------------------------------------------
Next ==
  \/ \E b \in Buttons : Tap(b) \/ Change(b)
  \/ \E t \in DOMAIN taps : Serve(t)
  \/ Send \/ Accept \/ PubAck \/ Break \/ Reconnect
  \/ HubLeaves \/ HubJoins \/ IncomingPublish \/ IncomingData \/ TakeCommand \/ Transmit
Spec == Init /\ [][Next]_vars

(* The event loop serves, mqtt.js tries to connect every 3 s, the broker   *)
(* answers.                                                                *)
FairSpec == Spec /\ WF_vars(\E t \in DOMAIN taps : Serve(t)) /\ WF_vars(Reconnect)
                 /\ WF_vars(Send) /\ WF_vars(Accept) /\ WF_vars(PubAck)

-----------------------------------------------------------------------------
Places   == 1 .. Len(published)
Requests == [button : Buttons, pc : {"asked", "refused", "published", "ok"}, n : 0 .. Len(published)]
Commands == [n : Places, train : Seq(Pulse)]

TypeOK ==
  /\ signal \in [Buttons -> Signals \cup {None}]
  /\ taps \in Seq(Requests) /\ published \in Seq(Seq(Pulse))
  /\ connected \in BOOLEAN /\ sent \in 0 .. Len(store)
  /\ store \in Seq(Places) /\ up \in Seq(Places) /\ down \in Seq(Places)
  /\ joined \in BOOLEAN /\ toHub \in Seq(Places) /\ msg \in {0} \cup Places
  /\ left \in Seq(Nat) /\ rx \in Seq(Nat) /\ Len(rx) < BufLen
  /\ txq \in Seq(Commands) /\ Len(txq) <= TxQueue
  /\ (burst # None => burst \in Commands) /\ emitted \in Seq(Commands)
  /\ accepted \subseteq Places /\ resent \subseteq Places

(* What is transmitted is a published train from its first pulse to its    *)
(* last, however the message was cut into fragments, whatever was left of  *)
(* another when the connection broke, and though longer ones are skipped.  *)
WholeTrains == \A i \in DOMAIN emitted : emitted[i].train = published[emitted[i].n]

(* Presses are transmitted in the order in which the server published      *)
(* them, and each once, but for those sent again because the connection    *)
(* broke before their PUBACK: a second press of a power button undoes it.  *)
OnceInOrder ==
  \A i, j \in DOMAIN emitted : i < j => emitted[i].n < emitted[j].n \/ emitted[j].n \in resent

(* A press that is reported as sent has reached the broker.                *)
SentReachedBroker ==
  \A n \in DOMAIN published : n \in accepted \/ n \in Unanswered

(* Every request is answered, once the broker can be reached for good.     *)
TapsAnswered ==
  \A t \in 1 .. MaxTaps :
    t \in DOMAIN taps ~> t \in DOMAIN taps /\ taps[t].pc \in {"ok", "refused"}
=============================================================================
