------------------------- MODULE CommandPathProofs -------------------------
(* Theorems about CommandPath: types, the store of the MQTT client, what   *)
(* is reported as sent, the order and the integrity of what is transmitted.*)
EXTENDS CommandPath, SequenceFacts, TLAPS

-----------------------------------------------------------------------------
(* The types hold together with LinkInv, which ties the store to what is   *)
(* on its way: the broker gets and acknowledges the messages in the order  *)
(* in which they are stored.                                               *)

LinkInv ==
  /\ \A i, j \in 1 .. Len(store) : i < j => store[i] < store[j]
  /\ connected => Len(down) + Len(up) = sent
  /\ ~connected => up = <<>> /\ down = <<>>
  /\ \A i \in 1 .. Len(down) : down[i] = store[i]
  /\ \A i \in 1 .. Len(up) : up[i] = store[Len(down) + i]

LEMMA InitTypes == Init => TypeOK /\ LinkInv
<1>. SUFFICES ASSUME Init PROVE TypeOK /\ LinkInv
  OBVIOUS
<1>1. \A S : <<>> \in Seq(S) /\ Len(<<>>) = 0
  BY EmptySeq
<1>2. TypeOK
  BY <1>1, PathConstants DEF Init, TypeOK, Places
<1>3. LinkInv
  BY <1>1 DEF Init, LinkInv
<1>. QED BY <1>2, <1>3

(* Publishing another train leaves everything typed.                       *)
LEMMA PublishedGrows ==
  ASSUME TypeOK, NEW train \in Seq(Pulse), published' = Append(published, train)
  PROVE  /\ published' \in Seq(Seq(Pulse)) /\ Len(published') = Len(published) + 1
         /\ Places \subseteq Places' /\ Len(published') \in Places'
         /\ Requests \subseteq Requests' /\ Commands \subseteq Commands'
<1>1. published' \in Seq(Seq(Pulse)) /\ Len(published') = Len(published) + 1
  BY AppendIs DEF TypeOK
<1>2. Len(published) \in Nat
  BY DEF TypeOK
<1>3. Places \subseteq Places' /\ Len(published') \in Places'
  BY <1>1, <1>2 DEF Places
<1>4. 0 .. Len(published) \subseteq 0 .. Len(published')
  BY <1>1, <1>2
<1>5. Requests \subseteq Requests'
  BY <1>4 DEF Requests
<1>6. Commands \subseteq Commands'
  BY <1>3 DEF Commands
<1>. QED BY <1>1, <1>3, <1>5, <1>6

LEMMA PlacesKept == ASSUME UNCHANGED published
                    PROVE  UNCHANGED <<Places, Requests, Commands>>
BY DEF Places, Requests, Commands

LEMMA ServeTypes ==
  ASSUME TypeOK, LinkInv, NEW t \in DOMAIN taps, Serve(t) PROVE TypeOK' /\ LinkInv'
<1>. DEFINE s == signal[taps[t].button]
<1>0. t \in 1 .. Len(taps) /\ taps[t] \in Requests /\ taps[t].button \in Buttons
  <2>1. t \in 1 .. Len(taps) /\ taps[t] \in Requests
    BY ElementOfSeq DEF TypeOK
  <2>. QED BY <2>1 DEF Requests
<1>1. CASE s = None \/ s.truncated
  <2>1. taps' = [taps EXCEPT ![t].pc = "refused"] /\ UNCHANGED <<published, store>>
    BY <1>1 DEF Serve
  <2>2. [taps[t] EXCEPT !.pc = "refused"] \in Requests
    BY <1>0 DEF Requests
  <2>3. taps' \in Seq(Requests)
    BY <2>1, <2>2, ExceptSeq DEF TypeOK
  <2>. QED BY <2>1, <2>3, PlacesKept DEF Serve, TypeOK, LinkInv, hubVars, txVars, ghosts
<1>2. CASE ~(s = None \/ s.truncated)
  <2>. DEFINE m == Len(published) + 1
  <2>1. /\ taps' = [taps EXCEPT ![t].pc = "published", ![t].n = m]
        /\ published' = Append(published, s.pulses) /\ store' = Append(store, m)
    BY <1>2 DEF Serve
  <2>2. s \in Signals /\ s.pulses \in Seq(Pulse)
    BY <1>0, <1>2, PathConstants DEF TypeOK
  <2>. HIDE DEF s
  <2>3. /\ published' \in Seq(Seq(Pulse)) /\ Len(published') = m
        /\ Places \subseteq Places' /\ m \in Places'
        /\ Requests \subseteq Requests' /\ Commands \subseteq Commands'
    BY <2>1, <2>2, PublishedGrows
  <2>. DEFINE p == [taps[t] EXCEPT !.pc = "published"]
  <2>4. [p EXCEPT !.n = m] \in Requests'
    <3>1. p \in Requests
      BY <1>0 DEF Requests
    <3>2. m \in 0 .. Len(published')
      BY <2>3 DEF Places
    <3>. HIDE DEF p, m
    <3>3. [p EXCEPT !.n = m] \in Requests'
      BY <3>1, <3>2, <2>3 DEF Requests
    <3>. QED BY <3>3
  <2>5. taps' \in Seq(Requests')
    <3>1. taps \in Seq(Requests')
      BY <2>3, SeqMonotonic DEF TypeOK
    <3>2. taps' = [taps EXCEPT ![t] = [p EXCEPT !.n = m]]
      BY <2>1, <1>0 DEF TypeOK
    <3>3. t \in 1 .. Len(taps)
      BY DEF TypeOK
    <3>. HIDE DEF p, m
    <3>. QED BY <3>1, <3>2, <3>3, <2>4, ExceptSeq
  <2>6. /\ store \in Seq(Places') /\ up \in Seq(Places') /\ down \in Seq(Places')
        /\ toHub \in Seq(Places')
        /\ txq \in Seq(Commands') /\ emitted \in Seq(Commands')
    BY <2>3, SeqMonotonic DEF TypeOK
  <2>7. /\ store' \in Seq(Places') /\ Len(store') = Len(store) + 1 /\ store'[Len(store) + 1] = m
        /\ \A i \in 1 .. Len(store) : store'[i] = store[i]
    BY <2>1, <2>3, <2>6, AppendIs
  <2>8. TypeOK'
    <3>1. UNCHANGED <<signal, connected, sent, up, down, hubVars, txVars, counts, ghosts>>
      BY DEF Serve
    <3>2. sent' \in 0 .. Len(store')
      <4>1. sent \in 0 .. Len(store) /\ Len(store) \in Nat
        BY DEF TypeOK
      <4>. QED BY <4>1, <3>1, <2>7
    <3>3. /\ msg' \in {0} \cup Places' /\ accepted' \subseteq Places' /\ resent' \subseteq Places'
          /\ burst' # None => burst' \in Commands'
      BY <3>1, <2>3 DEF TypeOK, hubVars, txVars, ghosts
    <3>. QED BY <3>1, <3>2, <3>3, <2>3, <2>5, <2>6, <2>7 DEF TypeOK, hubVars, txVars, ghosts
  <2>9. LinkInv'
    <3>1. \A i \in 1 .. Len(store) : store[i] < m
      <4>1. store \in Seq(Places) /\ Len(published) \in Nat
        BY DEF TypeOK
      <4>2. \A i \in 1 .. Len(store) : store[i] \in 1 .. Len(published)
        BY <4>1, ElementOfSeq DEF Places
      <4>. QED BY <4>1, <4>2
    <3>2. \A i, j \in 1 .. Len(store') : i < j => store'[i] < store'[j]
      <4>. SUFFICES ASSUME NEW i \in 1 .. Len(store'), NEW j \in 1 .. Len(store'), i < j
                    PROVE  store'[i] < store'[j]
        OBVIOUS
      <4>1. Len(store) \in Nat /\ i \in 1 .. Len(store)
        <5>1. Len(store) \in Nat
          BY DEF TypeOK
        <5>2. Len(store') = Len(store) + 1
          BY <2>7
        <5>. HIDE DEF TypeOK, LinkInv
        <5>. QED BY <5>1, <5>2
      <4>2. CASE j = Len(store) + 1
        BY <4>1, <4>2, <2>7, <3>1
      <4>3. CASE j \in 1 .. Len(store)
        BY <4>1, <4>3, <2>7 DEF LinkInv
      <4>. QED BY <4>1, <4>2, <4>3, <2>7
    <3>3. UNCHANGED <<connected, sent, up, down>>
      BY DEF Serve
    <3>. HIDE DEF m
    <3>4. Len(down) \in Nat /\ Len(up) \in Nat /\ Len(store) \in Nat
      BY DEF TypeOK
    <3>5. Len(down) <= Len(store) /\ Len(down) + Len(up) <= Len(store)
      <4>1. Len(down) + Len(up) \in {0, sent} /\ sent \in 0 .. Len(store)
        BY <3>4 DEF LinkInv, TypeOK
      <4>. QED BY <4>1, <3>4
    <3>6. \A i \in 1 .. Len(down) : i \in 1 .. Len(store) /\ down[i] = store[i]
      BY <3>4, <3>5 DEF LinkInv
    <3>7. \A i \in 1 .. Len(up) : Len(down) + i \in 1 .. Len(store) /\ up[i] = store[Len(down) + i]
      BY <3>4, <3>5 DEF LinkInv
    <3>. QED BY <2>7, <3>2, <3>3, <3>6, <3>7 DEF LinkInv
  <2>. QED BY <2>8, <2>9
<1>. QED BY <1>1, <1>2

LEMMA TapTypes == ASSUME TypeOK, LinkInv, NEW b \in Buttons, Tap(b) PROVE TypeOK' /\ LinkInv'
<1>1. [button |-> b, pc |-> "asked", n |-> 0] \in Requests
  BY DEF Requests, TypeOK
<1>2. taps' \in Seq(Requests)
  BY <1>1, AppendIs DEF Tap, TypeOK
<1>. QED BY <1>2, PlacesKept DEF Tap, TypeOK, LinkInv, linkVars, hubVars, txVars, ghosts

LEMMA ChangeTypes == ASSUME TypeOK, LinkInv, NEW b \in Buttons, Change(b) PROVE TypeOK' /\ LinkInv'
<1>1. signal' \in [Buttons -> Signals \cup {None}]
  BY DEF Change, TypeOK
<1>. QED BY <1>1, PlacesKept DEF Change, TypeOK, LinkInv, linkVars, hubVars, txVars, ghosts

(* On a connection the requests keep their places.                         *)
LEMMA AnsweredTypes ==
  ASSUME TypeOK, NEW m, Answered(m) PROVE taps' \in Seq(Requests) /\ Len(taps') = Len(taps)
<1>1. \A t \in 1 .. Len(taps) : [taps[t] EXCEPT !.pc = "ok"] \in Requests /\ taps[t] \in Requests
  <2>. TAKE t \in 1 .. Len(taps)
  <2>1. taps[t] \in Requests
    BY ElementOfSeq DEF TypeOK
  <2>. QED BY <2>1 DEF Requests
<1>2. DOMAIN taps = 1 .. Len(taps) /\ Len(taps) \in Nat
  BY DEF TypeOK
<1>3. taps' \in [1 .. Len(taps) -> Requests]
  BY <1>1, <1>2 DEF Answered
<1>. QED BY <1>2, <1>3

LEMMA SendTypes == ASSUME TypeOK, LinkInv, Send PROVE TypeOK' /\ LinkInv'
<1>1. /\ connected /\ sent < Len(store) /\ up' = Append(up, store[sent + 1]) /\ sent' = sent + 1
      /\ UNCHANGED <<store, down, connected>>
  BY DEF Send
<1>2. sent + 1 \in 1 .. Len(store) /\ store[sent + 1] \in Places
  BY <1>1 DEF TypeOK
<1>3. /\ up' \in Seq(Places) /\ Len(up') = Len(up) + 1
      /\ \A i \in 1 .. Len(up) : up'[i] = up[i]
      /\ up'[Len(up) + 1] = store[sent + 1]
  BY <1>1, <1>2, AppendIs DEF TypeOK
<1>4. Len(down) + Len(up) = sent /\ Len(down) \in Nat /\ Len(up) \in Nat
  <2>1. Len(down) + Len(up) = sent
    BY <1>1 DEF LinkInv
  <2>2. Len(down) \in Nat /\ Len(up) \in Nat
    BY DEF TypeOK
  <2>. QED BY <2>1, <2>2
<1>5. TypeOK'
  BY <1>1, <1>2, <1>3, PlacesKept DEF Send, TypeOK, backVars, hubVars, txVars, ghosts
<1>6. LinkInv'
  <2>1. \A i \in 1 .. Len(up') : up'[i] = store[Len(down) + i]
    <3>. TAKE i \in 1 .. Len(up')
    <3>1. CASE i \in 1 .. Len(up)
      BY <3>1, <1>3 DEF LinkInv
    <3>2. CASE i = Len(up) + 1
      BY <3>2, <1>3, <1>4
    <3>. QED BY <3>1, <3>2, <1>3, <1>4
  <2>. QED BY <1>1, <1>3, <1>4, <2>1 DEF LinkInv
<1>. QED BY <1>5, <1>6

LEMMA AcceptTypes == ASSUME TypeOK, LinkInv, Accept PROVE TypeOK' /\ LinkInv'
<1>1. /\ up # <<>> /\ up' = Tail(up) /\ down' = Append(down, Head(up))
      /\ UNCHANGED <<connected, store, sent>>
  BY DEF Accept
<1>2. /\ Head(up) = up[1] /\ Head(up) \in Places /\ up' \in Seq(Places)
      /\ Len(up) \in Nat \ {0} /\ Len(up') = Len(up) - 1
      /\ \A i \in 1 .. Len(up) - 1 : up'[i] = up[i + 1]
  BY <1>1, TailIs DEF TypeOK
<1>3. /\ down' \in Seq(Places) /\ Len(down') = Len(down) + 1 /\ Len(down) \in Nat
      /\ \A i \in 1 .. Len(down) : down'[i] = down[i]
      /\ down'[Len(down) + 1] = up[1]
  BY <1>1, <1>2, AppendIs DEF TypeOK
<1>4. toHub' \in Seq(Places)
  BY <1>2, AppendIs DEF Accept, TypeOK
<1>5. TypeOK'
  BY <1>1, <1>2, <1>3, <1>4, PlacesKept DEF Accept, TypeOK, backVars, txVars
<1>6. LinkInv'
  <2>1. connected
    BY <1>1 DEF LinkInv, TypeOK
  <2>2. \A i \in 1 .. Len(down') : down'[i] = store[i]
    <3>. TAKE i \in 1 .. Len(down')
    <3>1. CASE i \in 1 .. Len(down)
      BY <3>1, <1>3 DEF LinkInv
    <3>2. CASE i = Len(down) + 1
      BY <3>2, <1>2, <1>3 DEF LinkInv
    <3>. QED BY <3>1, <3>2, <1>3
  <2>3. \A i \in 1 .. Len(up') : up'[i] = store[Len(down') + i]
    <3>. TAKE i \in 1 .. Len(up')
    <3>1. i + 1 \in 1 .. Len(up) /\ up'[i] = up[i + 1]
      BY <1>2
    <3>2. up[i + 1] = store[Len(down) + (i + 1)]
      BY <3>1 DEF LinkInv
    <3>. QED BY <3>1, <3>2, <1>2, <1>3
  <2>. QED BY <1>1, <1>2, <1>3, <2>1, <2>2, <2>3 DEF LinkInv
<1>. QED BY <1>5, <1>6

(* What is acknowledged stands first in the store.                         *)
LEMMA PubAckTakesFirst ==
  ASSUME TypeOK, LinkInv, PubAck
  PROVE  /\ connected /\ Len(store) \in Nat \ {0} /\ sent \in Nat \ {0}
         /\ Head(down) = store[1] /\ store' = Tail(store) /\ store' \in Seq(Places)
         /\ Len(store') = Len(store) - 1
         /\ \A i \in 1 .. Len(store) - 1 : store'[i] = store[i + 1]
         /\ down' \in Seq(Places) /\ Len(down) \in Nat \ {0} /\ Len(down') = Len(down) - 1
         /\ \A i \in 1 .. Len(down) - 1 : down'[i] = down[i + 1]
<1>1. down # <<>> /\ connected
  BY DEF PubAck, LinkInv, TypeOK
<1>2. /\ Head(down) = down[1] /\ down' \in Seq(Places) /\ Len(down) \in Nat \ {0}
      /\ Len(down') = Len(down) - 1 /\ \A i \in 1 .. Len(down) - 1 : down'[i] = down[i + 1]
  BY <1>1, TailIs DEF PubAck, TypeOK
<1>3. sent \in Nat \ {0} /\ Len(store) \in Nat \ {0} /\ down[1] = store[1]
  <2>1. Len(up) \in Nat /\ Len(store) \in Nat /\ sent \in 0 .. Len(store)
    BY DEF TypeOK
  <2>2. Len(down) + Len(up) = sent /\ 1 \in 1 .. Len(down)
    BY <1>1, <1>2 DEF LinkInv
  <2>3. down[1] = store[1]
    BY <2>2 DEF LinkInv
  <2>. QED BY <1>2, <2>1, <2>2, <2>3
<1>4. store # <<>> /\ store \in Seq(Places)
  BY <1>3 DEF TypeOK
<1>5. store' = Tail(store)
  BY <1>2, <1>3, <1>4, RemoveFirstIsTail DEF PubAck
<1>6. /\ store' \in Seq(Places) /\ Len(store') = Len(store) - 1
      /\ \A i \in 1 .. Len(store) - 1 : store'[i] = store[i + 1]
  BY <1>4, <1>5, TailIs
<1>. QED BY <1>1, <1>2, <1>3, <1>5, <1>6

LEMMA PubAckTypes == ASSUME TypeOK, LinkInv, PubAck PROVE TypeOK' /\ LinkInv'
<1>1. /\ connected /\ Len(store) \in Nat \ {0} /\ sent \in Nat \ {0}
      /\ store' \in Seq(Places) /\ Len(store') = Len(store) - 1
      /\ \A i \in 1 .. Len(store) - 1 : store'[i] = store[i + 1]
      /\ down' \in Seq(Places) /\ Len(down) \in Nat \ {0} /\ Len(down') = Len(down) - 1
      /\ \A i \in 1 .. Len(down) - 1 : down'[i] = down[i + 1]
  BY PubAckTakesFirst
<1>2. sent' = sent - 1 /\ UNCHANGED <<connected, up>> /\ taps' \in Seq(Requests)
  BY AnsweredTypes DEF PubAck
<1>3. sent' \in 0 .. Len(store')
  BY <1>1, <1>2 DEF TypeOK
<1>4. TypeOK'
  BY <1>1, <1>2, <1>3, PlacesKept DEF PubAck, TypeOK, hubVars, txVars, ghosts
<1>5. LinkInv'
  <2>1. Len(down) + Len(up) = sent /\ Len(up) \in Nat /\ sent <= Len(store)
    <3>1. Len(up) \in Nat /\ Len(store) \in Nat /\ sent \in 0 .. Len(store)
      BY DEF TypeOK
    <3>2. Len(down) + Len(up) = sent
      BY <1>1 DEF LinkInv
    <3>. QED BY <3>1, <3>2
  <2>2. \A i, j \in 1 .. Len(store') : i < j => store'[i] < store'[j]
    <3>. TAKE i, j \in 1 .. Len(store')
    <3>1. i + 1 \in 1 .. Len(store) /\ j + 1 \in 1 .. Len(store)
      BY <1>1
    <3>2. i < j => store[i + 1] < store[j + 1]
      <4>1. i < j => i + 1 < j + 1
        BY <1>1
      <4>. QED BY <4>1, <3>1 DEF LinkInv
    <3>3. store'[i] = store[i + 1] /\ store'[j] = store[j + 1]
      BY <1>1
    <3>. QED BY <3>2, <3>3
  <2>3. \A i \in 1 .. Len(down') : down'[i] = store'[i]
    <3>. TAKE i \in 1 .. Len(down')
    <3>1. i + 1 \in 1 .. Len(down) /\ i \in 1 .. Len(store) - 1
      BY <1>1, <2>1
    <3>. QED BY <3>1, <1>1 DEF LinkInv
  <2>4. \A i \in 1 .. Len(up) : up[i] = store'[Len(down') + i]
    <3>. TAKE i \in 1 .. Len(up)
    <3>1. Len(down') + i \in 1 .. Len(store) - 1 /\ Len(down') + i + 1 = Len(down) + i
      BY <1>1, <2>1
    <3>2. store'[Len(down') + i] = store[Len(down) + i]
      BY <3>1, <1>1
    <3>. QED BY <3>2 DEF LinkInv
  <2>. QED BY <1>1, <1>2, <2>1, <2>2, <2>3, <2>4 DEF LinkInv
<1>. QED BY <1>4, <1>5

LEMMA BreakTypes == ASSUME TypeOK, LinkInv, Break PROVE TypeOK' /\ LinkInv'
<1>1. up' \in Seq(Places) /\ down' \in Seq(Places) /\ Len(up') = 0 /\ Len(down') = 0
  BY EmptySeq DEF Break
<1>2. resent' \subseteq Places
  <2>1. \A i \in 1 .. sent : store[i] \in Places
    BY DEF TypeOK
  <2>. QED BY <2>1 DEF Break, TypeOK
<1>3. TypeOK'
  BY <1>1, <1>2, PlacesKept DEF Break, TypeOK, backVars, hubVars, txVars
<1>. QED BY <1>1, <1>3 DEF Break, LinkInv

LEMMA ReconnectTypes == ASSUME TypeOK, LinkInv, Reconnect PROVE TypeOK' /\ LinkInv'
<1>1. UNCHANGED <<store, up, down>> /\ sent' = 0 /\ connected' = TRUE
  BY DEF Reconnect
<1>2. Len(store) \in Nat /\ up = <<>> /\ down = <<>> /\ Len(up) = 0 /\ Len(down) = 0
  BY EmptySeq DEF Reconnect, LinkInv, TypeOK
<1>3. TypeOK'
  BY <1>1, <1>2, PlacesKept DEF Reconnect, TypeOK, backVars, hubVars, txVars, ghosts
<1>. QED BY <1>1, <1>2, <1>3 DEF LinkInv

-----------------------------------------------------------------------------
(* The hub                                                                 *)

(* A decoded train ends before anything that is not a pulse.               *)
LEMMA DecodedIsTrain == ASSUME NEW buf \in Seq(Nat) PROVE Decoded(buf) \in Seq(Pulse)
<1>. DEFINE ends == {i \in 2 .. Len(buf) : buf[i] = Head0}
            last == IF ends = {} THEN Len(buf) ELSE Min(ends) - 1
<1>1. CASE buf = <<>> \/ buf[1] # Head0
  BY <1>1, EmptySeq DEF Decoded
<1>2. CASE ~(buf = <<>> \/ buf[1] # Head0)
  <2>1. Decoded(buf) = SubSeq(buf, 2, last)
    BY <1>2 DEF Decoded
  <2>2. last \in Int /\ \A i \in 2 .. last : i \in 2 .. Len(buf) /\ i \notin ends
    <3>1. CASE ends = {}
      BY <3>1
    <3>2. CASE ends # {}
      <4>1. ends \in SUBSET Nat
        OBVIOUS
      <4>2. Min(ends) \in ends /\ \A j \in ends : Min(ends) <= j
        BY <3>2, <4>1, LeastElement
      <4>3. last = Min(ends) - 1 /\ Min(ends) \in 2 .. Len(buf) /\ Len(buf) \in Nat
        BY <3>2, <4>2
      <4>. HIDE DEF last, ends
      <4>4. \A i \in 2 .. last : i \in 2 .. Len(buf) /\ i < Min(ends)
        BY <4>3
      <4>5. \A i \in 2 .. last : i \notin ends
        BY <4>2, <4>3, <4>4
      <4>. QED BY <4>3, <4>4, <4>5
    <3>. QED BY <3>1, <3>2
  <2>. HIDE DEF last
  <2>3. \A i \in 2 .. last : buf[i] \in Pulse
    <3>. TAKE i \in 2 .. last
    <3>1. i \in 2 .. Len(buf) /\ i \notin ends
      BY <2>2
    <3>2. buf[i] \in Nat /\ buf[i] # Head0
      BY <3>1
    <3>. QED BY <3>2 DEF Pulse, Head0
  <2>. QED BY <2>1, <2>2, <2>3, SubSeqProperties
<1>. QED BY <1>1, <1>2

(* The head of a message and its train.                                    *)
Payload(m) == <<Head0>> \o published[m]

LEMMA PayloadIs ==
  ASSUME TypeOK, NEW m \in Places
  PROVE  /\ published[m] \in Seq(Pulse) /\ Payload(m) \in Seq(Nat)
         /\ Len(Payload(m)) = 1 + Len(published[m]) /\ Payload(m)[1] = Head0
         /\ \A i \in 1 .. Len(published[m]) : Payload(m)[1 + i] = published[m][i]
<1>1. published[m] \in Seq(Pulse)
  BY DEF TypeOK, Places
<1>2. Pulse \subseteq Nat /\ Head0 \in Nat
  BY DEF Pulse, Head0
<1>3. published[m] \in Seq(Nat) /\ <<Head0>> \in Seq(Nat) /\ Len(<<Head0>>) = 1 /\ <<Head0>>[1] = Head0
  <2>1. published[m] \in Seq(Nat)
    BY <1>1, <1>2, SeqMonotonic
  <2>2. <<Head0>> \in Seq(Nat) /\ Len(<<Head0>>) = 1 /\ <<Head0>>[1] = Head0
    BY <1>2
  <2>. QED BY <2>1, <2>2
<1>4. /\ Payload(m) \in Seq(Nat) /\ Len(Payload(m)) = 1 + Len(published[m])
      /\ \A i \in 1 .. 1 + Len(published[m]) :
           Payload(m)[i] = IF i <= 1 THEN <<Head0>>[i] ELSE published[m][i - 1]
  BY <1>3, ConcatProperties DEF Payload
<1>5. Len(published[m]) \in Nat
  BY <1>3
<1>6. Payload(m)[1] = Head0
  BY <1>3, <1>4, <1>5
<1>7. \A i \in 1 .. Len(published[m]) : Payload(m)[1 + i] = published[m][i]
  <2>. TAKE i \in 1 .. Len(published[m])
  <2>1. 1 + i \in 1 .. 1 + Len(published[m]) /\ ~(1 + i <= 1) /\ 1 + i - 1 = i
    BY <1>5
  <2>. QED BY <1>4, <2>1
<1>. QED BY <1>1, <1>4, <1>6, <1>7

LEMMA HubLeavesTypes == ASSUME TypeOK, LinkInv, HubLeaves PROVE TypeOK' /\ LinkInv'
<1>1. toHub' \in Seq(Places) /\ left' \in Seq(Nat)
  BY EmptySeq DEF HubLeaves
<1>. QED BY <1>1, PlacesKept DEF HubLeaves, TypeOK, LinkInv, backVars, linkVars, txVars, ghosts

LEMMA HubJoinsTypes == ASSUME TypeOK, LinkInv, HubJoins PROVE TypeOK' /\ LinkInv'
BY PlacesKept DEF HubJoins, TypeOK, LinkInv, backVars, linkVars, txVars, ghosts

LEMMA IncomingPublishTypes == ASSUME TypeOK, LinkInv, IncomingPublish PROVE TypeOK' /\ LinkInv'
<1>1. /\ msg' \in Places /\ toHub' \in Seq(Places) /\ left' = Payload(msg')
  BY TailIs DEF IncomingPublish, NextMessage, TypeOK, Payload
<1>2. left' \in Seq(Nat) /\ rx' \in Seq(Nat) /\ Len(rx') < BufLen
  BY <1>1, PayloadIs, EmptySeq, PathConstants DEF IncomingPublish
<1>. QED BY <1>1, <1>2, PlacesKept
     DEF IncomingPublish, NextMessage, TypeOK, LinkInv, backVars, linkVars, txVars, ghosts

(* A fragment is joined to what came before it, or skipped.                *)
Fragment(k) ==
  /\ k <= Len(left) /\ left' \in Seq(Nat) /\ Len(left') = Len(left) - k
  /\ \A i \in 1 .. Len(left) - k : left'[i] = left[k + i]
  /\ rx' \in Seq(Nat) /\ Len(rx') < BufLen
  /\ IF Fits(k)
     THEN /\ Len(rx') = Len(rx) + k
          /\ \A i \in 1 .. Len(rx) : rx'[i] = rx[i]
          /\ \A i \in 1 .. k : rx'[Len(rx) + i] = left[i]
     ELSE rx' = rx

LEMMA Constants == MaxPulses \in Nat \ {0} /\ BufLen \in Nat /\ MaxFragment \in Nat \ {0} /\ TxQueue \in Nat
BY PathConstants

LEMMA FragmentIs ==
  ASSUME TypeOK, IncomingData
  PROVE  \E k \in 1 .. MaxFragment : Fragment(k)
<1>1. PICK k \in 1 .. MaxFragment :
        /\ k <= Len(left) /\ left' = SubSeq(left, k + 1, Len(left))
        /\ rx' = IF Fits(k) THEN rx \o SubSeq(left, 1, k) ELSE rx
  BY DEF IncomingData
<1>2. k \in Nat \ {0} /\ Len(left) \in Nat /\ Len(rx) \in Nat /\ BufLen \in Nat
  BY Constants DEF TypeOK
<1>3. /\ left' \in Seq(Nat) /\ Len(left') = Len(left) - k
      /\ \A i \in 1 .. Len(left) - k : left'[i] = left[k + i]
  <2>1. left \in Seq(Nat) /\ k \in Nat /\ k <= Len(left)
    BY <1>1, <1>2 DEF TypeOK
  <2>. DEFINE rest == SubSeq(left, k + 1, Len(left))
  <2>2. /\ rest \in Seq(Nat) /\ Len(rest) = Len(left) - k
        /\ \A i \in 1 .. Len(left) - k : rest[i] = left[k + i]
    BY <2>1, PartsAre
  <2>3. left' = rest
    BY <1>1
  <2>. HIDE DEF rest
  <2>. QED BY <2>2, <2>3
<1>4. CASE Fits(k)
  <2>1. left \in Seq(Nat) /\ rx \in Seq(Nat) /\ k \in Nat /\ k <= Len(left)
    BY <1>1, <1>2 DEF TypeOK
  <2>. DEFINE part == SubSeq(left, 1, k)
  <2>2. part \in Seq(Nat) /\ Len(part) = k /\ \A i \in 1 .. k : part[i] = left[i]
    BY <2>1, PartsAre
  <2>0. rx' = rx \o part
    BY <1>1, <1>4
  <2>. HIDE DEF part
  <2>3. /\ rx' \in Seq(Nat) /\ Len(rx') = Len(rx) + k
        /\ \A i \in 1 .. Len(rx) + k :
             rx'[i] = IF i <= Len(rx) THEN rx[i] ELSE part[i - Len(rx)]
    BY <2>0, <2>1, <2>2, ConcatProperties
  <2>4. Len(rx') < BufLen
    BY <1>4, <2>3 DEF Fits
  <2>5. \A i \in 1 .. k : rx'[Len(rx) + i] = left[i]
    <3>. TAKE i \in 1 .. k
    <3>1. Len(rx) + i \in 1 .. Len(rx) + k /\ ~(Len(rx) + i <= Len(rx)) /\ Len(rx) + i - Len(rx) = i
      BY <1>2
    <3>2. rx'[Len(rx) + i] = part[i]
      BY <2>3, <3>1
    <3>. QED BY <2>2, <3>2
  <2>6. \A i \in 1 .. Len(rx) : rx'[i] = rx[i]
    BY <1>2, <2>3
  <2>7. Fragment(k)
    BY <1>1, <1>3, <1>4, <2>3, <2>4, <2>5, <2>6 DEF Fragment
  <2>. QED BY <2>7
<1>5. CASE ~Fits(k)
  <2>1. Fragment(k)
    BY <1>1, <1>3, <1>5 DEF TypeOK, Fragment
  <2>. QED BY <2>1
<1>. QED BY <1>4, <1>5

LEMMA IncomingDataTypes == ASSUME TypeOK, LinkInv, IncomingData PROVE TypeOK' /\ LinkInv'
<1>1. left' \in Seq(Nat) /\ rx' \in Seq(Nat) /\ Len(rx') < BufLen
  BY FragmentIs DEF Fragment
<1>2. msg' \in {0} \cup Places
  BY DEF IncomingData, TypeOK
<1>3. txq' \in Seq(Commands) /\ Len(txq') <= TxQueue
  <2>. DEFINE train == Transmissible(Decoded(rx'))
  <2>1. CASE left' # <<>> \/ train = None \/ Len(txq) = TxQueue
    BY <2>1 DEF IncomingData, TypeOK
  <2>2. CASE ~(left' # <<>> \/ train = None \/ Len(txq) = TxQueue)
    <3>1. txq' = Append(txq, [n |-> msg, train |-> train])
      BY <2>2 DEF IncomingData
    <3>2. train \in Seq(Pulse)
      BY <1>1, <2>2, DecodedIsTrain DEF Transmissible
    <3>3. msg \in Places
      BY DEF IncomingData, TypeOK
    <3>. HIDE DEF train
    <3>4. [n |-> msg, train |-> train] \in Commands
      BY <3>2, <3>3 DEF Commands
    <3>5. txq' \in Seq(Commands) /\ Len(txq') = Len(txq) + 1 /\ Len(txq) \in Nat
      BY <3>1, <3>4, AppendIs DEF TypeOK
    <3>6. Len(txq) # TxQueue /\ Len(txq) <= TxQueue /\ TxQueue \in Nat
      BY <2>2, Constants DEF TypeOK
    <3>. QED BY <3>5, <3>6
  <2>. QED BY <2>1, <2>2
<1>. QED BY <1>1, <1>2, <1>3, PlacesKept
     DEF IncomingData, TypeOK, LinkInv, backVars, linkVars, ghosts

LEMMA TakeCommandTypes == ASSUME TypeOK, LinkInv, TakeCommand PROVE TypeOK' /\ LinkInv'
<1>1. txq' \in Seq(Commands) /\ Len(txq') = Len(txq) - 1 /\ Len(txq) \in Nat /\ burst' \in Commands
  BY TailIs DEF TakeCommand, TypeOK
<1>2. Len(txq') <= TxQueue
  BY <1>1, Constants DEF TypeOK
<1>. QED BY <1>1, <1>2, PlacesKept
     DEF TakeCommand, TypeOK, LinkInv, backVars, linkVars, hubVars, ghosts

LEMMA TransmitTypes == ASSUME TypeOK, LinkInv, Transmit PROVE TypeOK' /\ LinkInv'
<1>1. emitted' \in Seq(Commands)
  BY AppendIs DEF Transmit, TypeOK
<1>. QED BY <1>1, PlacesKept DEF Transmit, TypeOK, LinkInv, backVars, linkVars, hubVars

LEMMA StepTypes == TypeOK /\ LinkInv /\ [Next]_vars => TypeOK' /\ LinkInv'
<1>. SUFFICES ASSUME TypeOK, LinkInv, [Next]_vars PROVE TypeOK' /\ LinkInv'
  OBVIOUS
<1>1. CASE UNCHANGED vars
  BY <1>1, PlacesKept DEF TypeOK, LinkInv, vars, backVars, linkVars, hubVars, txVars, ghosts
<1>. QED BY <1>1, TapTypes, ChangeTypes, ServeTypes, SendTypes, AcceptTypes, PubAckTypes,
            BreakTypes, ReconnectTypes, HubLeavesTypes, HubJoinsTypes, IncomingPublishTypes,
            IncomingDataTypes, TakeCommandTypes, TransmitTypes DEF Next

(* Every variable of the path keeps its type, whatever the sizes of        *)
(* buffers, fragments and queues.                                          *)
THEOREM TypeCorrect == Spec => []TypeOK
<1>. QED BY InitTypes, StepTypes, PTL DEF Spec

(* Messages are sent and acknowledged in the order of mqtt.js's store.     *)
LEMMA LinkHolds == Spec => [](TypeOK /\ LinkInv)
<1>. QED BY InitTypes, StepTypes, PTL DEF Spec

-----------------------------------------------------------------------------
(* What is reported as sent.  A message waits for its PUBACK in the store  *)
(* and at the one request that published it; a PUBACK that is on its way   *)
(* is for a message that the broker has.                                   *)

Waits(m) == \E t \in 1 .. Len(taps) : taps[t].pc = "published" /\ taps[t].n = m

ReportInv ==
  /\ \A m \in Places : m \in accepted \/ Waits(m)
  /\ \A i \in 1 .. Len(down) : down[i] \in accepted
  /\ \A i \in 1 .. Len(store) : Waits(store[i])
  /\ \A t, u \in 1 .. Len(taps) : taps[t].n = taps[u].n /\ taps[t].n # 0 => t = u
  /\ \A t \in 1 .. Len(taps) : taps[t].pc = "asked" => taps[t].n = 0

LEMMA WaitsIsUnanswered == ASSUME TypeOK, NEW m PROVE m \in Unanswered <=> Waits(m)
<1>1. DOMAIN taps = 1 .. Len(taps)
  BY DEF TypeOK
<1>. QED BY <1>1 DEF Unanswered, Waits

LEMMA TapIs ==
  ASSUME TypeOK, NEW t \in 1 .. Len(taps)
  PROVE  taps[t] \in Requests /\ taps[t].n \in 0 .. Len(published)
<1>1. taps[t] \in Requests
  BY ElementOfSeq DEF TypeOK
<1>. QED BY <1>1 DEF Requests

LEMMA ServeIs ==
  ASSUME TypeOK, LinkInv, NEW t \in DOMAIN taps, Serve(t)
  PROVE  /\ t \in 1 .. Len(taps) /\ taps[t].pc = "asked" /\ Len(taps') = Len(taps)
         /\ \A u \in 1 .. Len(taps) : u # t => taps'[u] = taps[u]
         /\ \/ /\ taps'[t].pc = "refused" /\ taps'[t].n = taps[t].n
               /\ UNCHANGED <<published, store>>
            \/ /\ taps'[t].pc = "published" /\ taps'[t].n = Len(published) + 1
               /\ Len(published') = Len(published) + 1
               /\ \A i \in Places : published'[i] = published[i]
               /\ Len(store') = Len(store) + 1 /\ store'[Len(store) + 1] = Len(published) + 1
               /\ \A i \in 1 .. Len(store) : store'[i] = store[i]
<1>. DEFINE s == signal[taps[t].button]
<1>1. t \in 1 .. Len(taps) /\ taps[t] \in Requests /\ taps[t].pc = "asked"
  <2>1. t \in 1 .. Len(taps)
    BY DEF TypeOK
  <2>. QED BY <2>1, TapIs DEF Serve
<1>2. DOMAIN taps = 1 .. Len(taps) /\ Len(taps) \in Nat
  BY DEF TypeOK
<1>3. CASE s = None \/ s.truncated
  <2>1. taps' = [taps EXCEPT ![t].pc = "refused"] /\ UNCHANGED <<published, store>>
    BY <1>3 DEF Serve
  <2>2. Len(taps') = Len(taps) /\ \A u \in 1 .. Len(taps) : u # t => taps'[u] = taps[u]
    BY <1>2, <2>1
  <2>3. taps'[t] = [taps[t] EXCEPT !.pc = "refused"]
    BY <1>1, <1>2, <2>1
  <2>4. taps'[t].pc = "refused" /\ taps'[t].n = taps[t].n
    BY <1>1, <2>3 DEF Requests
  <2>. QED BY <1>1, <2>1, <2>2, <2>4
<1>4. CASE ~(s = None \/ s.truncated)
  <2>. DEFINE p == [taps[t] EXCEPT !.pc = "published"]
              m == Len(published) + 1
  <2>1. /\ taps' = [taps EXCEPT ![t].pc = "published", ![t].n = m]
        /\ published' = Append(published, s.pulses) /\ store' = Append(store, m)
    BY <1>4 DEF Serve
  <2>2. taps' = [taps EXCEPT ![t] = [p EXCEPT !.n = m]]
    BY <1>1, <1>2, <2>1
  <2>3. s.pulses \in Seq(Pulse)
    BY <1>1, <1>4, PathConstants DEF TypeOK, Requests
  <2>4. Len(published') = m /\ \A i \in Places : published'[i] = published[i]
    <3>. HIDE DEF s
    <3>. QED BY <2>1, <2>3, AppendIs DEF TypeOK, Places
  <2>5. /\ Len(store') = Len(store) + 1 /\ store'[Len(store) + 1] = m
        /\ \A i \in 1 .. Len(store) : store'[i] = store[i]
    <3>1. store \in Seq(Nat) /\ m \in Nat
      BY SeqMonotonic DEF TypeOK, Places
    <3>. HIDE DEF m
    <3>. QED BY <2>1, <3>1, AppendIs
  <2>6. [p EXCEPT !.n = m].pc = "published" /\ [p EXCEPT !.n = m].n = m
    <3>1. p \in Requests /\ p.pc = "published"
      BY <1>1 DEF Requests
    <3>. HIDE DEF p, m
    <3>. QED BY <3>1 DEF Requests
  <2>. HIDE DEF p, m
  <2>7. /\ Len(taps') = Len(taps) /\ \A u \in 1 .. Len(taps) : u # t => taps'[u] = taps[u]
        /\ taps'[t] = [p EXCEPT !.n = m]
    BY <1>1, <1>2, <2>2
  <2>8. taps'[t].pc = "published" /\ taps'[t].n = m
    BY <2>6, <2>7
  <2>. QED BY <1>1, <2>4, <2>5, <2>7, <2>8 DEF m
<1>. QED BY <1>3, <1>4

LEMMA InitReport == Init => ReportInv
BY EmptySeq DEF Init, ReportInv, Places

LEMMA ServeReports ==
  ASSUME TypeOK, LinkInv, ReportInv, NEW t \in DOMAIN taps, Serve(t) PROVE ReportInv'
<1>0. PICK m : m = Len(published) + 1
  OBVIOUS
<1>1. /\ t \in 1 .. Len(taps) /\ taps[t].pc = "asked" /\ Len(taps') = Len(taps)
      /\ \A u \in 1 .. Len(taps) : u # t => taps'[u] = taps[u]
  BY ServeIs
<1>2. taps[t].n = 0 /\ \A u \in 1 .. Len(taps) : taps[u].n \in 0 .. Len(published)
  BY <1>1, TapIs DEF ReportInv
<1>3. UNCHANGED <<down, accepted>>
  BY DEF Serve, ghosts
<1>4. \A i : Waits(i) => Waits(i)'
  <2>. TAKE i
  <2>. SUFFICES ASSUME Waits(i) PROVE Waits(i)'
    OBVIOUS
  <2>1. PICK u \in 1 .. Len(taps) : taps[u].pc = "published" /\ taps[u].n = i
    BY DEF Waits
  <2>2. u # t
    BY <1>1, <2>1
  <2>3. u \in 1 .. Len(taps') /\ taps'[u].pc = "published" /\ taps'[u].n = i
    BY <1>1, <2>1, <2>2
  <2>. QED BY <2>3 DEF Waits
<1>5. CASE taps'[t].pc = "refused" /\ taps'[t].n = taps[t].n /\ UNCHANGED <<published, store>>
  <2>1. \A u \in 1 .. Len(taps) : taps'[u].n = taps[u].n
    BY <1>1, <1>5
  <2>2. \A u, v \in 1 .. Len(taps') : taps'[u].n = taps'[v].n /\ taps'[u].n # 0 => u = v
    BY <1>1, <2>1 DEF ReportInv
  <2>3. \A u \in 1 .. Len(taps') : taps'[u].pc = "asked" => taps'[u].n = 0
    BY <1>1, <1>2, <2>1 DEF ReportInv
  <2>. QED BY <1>3, <1>4, <1>5, <2>2, <2>3 DEF ReportInv, Places
<1>6. CASE /\ taps'[t].pc = "published" /\ taps'[t].n = m /\ Len(published') = m
           /\ Len(store') = Len(store) + 1 /\ store'[Len(store) + 1] = m
           /\ \A i \in 1 .. Len(store) : store'[i] = store[i]
  <2>1. Waits(m)'
    <3>1. t \in 1 .. Len(taps') /\ taps'[t].pc = "published" /\ taps'[t].n = m
      BY <1>1, <1>6
    <3>. QED BY <3>1 DEF Waits
  <2>2. Len(published) \in Nat /\ Len(store) \in Nat
    BY DEF TypeOK
  <2>3. \A i \in Places' : i \in accepted' \/ Waits(i)'
    <3>. TAKE i \in Places'
    <3>1. i \in Places \/ i = m
      BY <1>0, <1>6, <2>2 DEF Places
    <3>. QED BY <1>3, <1>4, <2>1, <3>1 DEF ReportInv
  <2>4. \A i \in 1 .. Len(store') : Waits(store[i])'
    <3>. TAKE i \in 1 .. Len(store')
    <3>1. PICK c : c = store'[i]
      OBVIOUS
    <3>2. CASE i \in 1 .. Len(store)
      <4>1. c = store[i] /\ Waits(store[i])
        BY <1>6, <3>1, <3>2 DEF ReportInv
      <4>2. Waits(c)'
        BY <1>4, <4>1
      <4>. QED BY <3>1, <4>2 DEF Waits
    <3>3. CASE i = Len(store) + 1
      BY <1>6, <2>1, <3>1, <3>3 DEF Waits
    <3>. QED BY <1>6, <2>2, <3>2, <3>3
  <2>5. \A u, v \in 1 .. Len(taps') : taps'[u].n = taps'[v].n /\ taps'[u].n # 0 => u = v
    <3>1. \A u \in 1 .. Len(taps) : u # t => taps'[u].n = taps[u].n /\ taps'[u].n # m
      BY <1>0, <1>1, <1>2, <2>2
    <3>. SUFFICES ASSUME NEW u \in 1 .. Len(taps), NEW v \in 1 .. Len(taps),
                         taps'[u].n = taps'[v].n, taps'[u].n # 0
                  PROVE  u = v
      BY <1>1
    <3>2. CASE u = t \/ v = t
      BY <1>6, <3>1, <3>2
    <3>3. CASE u # t /\ v # t
      BY <3>1, <3>3 DEF ReportInv
    <3>. QED BY <3>2, <3>3
  <2>6. \A u \in 1 .. Len(taps') : taps'[u].pc = "asked" => taps'[u].n = 0
    BY <1>1, <1>6 DEF ReportInv
  <2>7. \A i \in 1 .. Len(down') : down'[i] \in accepted'
    BY <1>3 DEF ReportInv
  <2>. QED BY <2>3, <2>4, <2>5, <2>6, <2>7 DEF ReportInv
<1>. QED BY <1>0, <1>5, <1>6, ServeIs

LEMMA TapReports == ASSUME TypeOK, ReportInv, NEW b \in Buttons, Tap(b) PROVE ReportInv'
<1>. DEFINE tap == [button |-> b, pc |-> "asked", n |-> 0]
<1>1. tap \in Requests
  BY DEF Requests, TypeOK
<1>2. /\ Len(taps') = Len(taps) + 1 /\ Len(taps) \in Nat /\ taps'[Len(taps) + 1] = tap
      /\ \A u \in 1 .. Len(taps) : taps'[u] = taps[u]
  BY <1>1, AppendIs DEF Tap, TypeOK
<1>3. UNCHANGED <<published, store, down, accepted>>
  BY DEF Tap, linkVars, ghosts
<1>4. \A i : Waits(i) => Waits(i)'
  BY <1>2 DEF Waits
<1>5. \A u \in 1 .. Len(taps') : u \in 1 .. Len(taps) \/ taps'[u].n = 0
  BY <1>2
<1>6. \A u, v \in 1 .. Len(taps') : taps'[u].n = taps'[v].n /\ taps'[u].n # 0 => u = v
  BY <1>2, <1>5 DEF ReportInv
<1>7. \A u \in 1 .. Len(taps') : taps'[u].pc = "asked" => taps'[u].n = 0
  BY <1>2, <1>5 DEF ReportInv
<1>. QED BY <1>3, <1>4, <1>6, <1>7 DEF ReportInv, Places

LEMMA PubAckReports == ASSUME TypeOK, LinkInv, ReportInv, PubAck PROVE ReportInv'
<1>. DEFINE m == Head(down)
<1>1. /\ m = store[1] /\ Len(store) \in Nat \ {0} /\ Len(store') = Len(store) - 1
      /\ \A i \in 1 .. Len(store) - 1 : store'[i] = store[i + 1]
      /\ Len(down) \in Nat \ {0} /\ Len(down') = Len(down) - 1
      /\ \A i \in 1 .. Len(down) - 1 : down'[i] = down[i + 1]
  BY PubAckTakesFirst
<1>2. m = down[1] /\ m \in accepted
  <2>1. m = down[1]
    BY <1>1, EmptySeq, TailIs DEF TypeOK
  <2>. QED BY <1>1, <2>1 DEF ReportInv
<1>3. UNCHANGED <<published, accepted>>
  BY DEF PubAck, ghosts
<1>4. DOMAIN taps = 1 .. Len(taps) /\ Len(taps) \in Nat /\ Len(taps') = Len(taps)
  BY AnsweredTypes DEF PubAck, TypeOK
<1>5. \A u \in 1 .. Len(taps) :
        /\ taps'[u].n = taps[u].n /\ (taps[u].n # m => taps'[u] = taps[u])
        /\ taps'[u].pc \in {taps[u].pc, "ok"}
  <2>. TAKE u \in 1 .. Len(taps)
  <2>1. taps'[u] = IF taps[u].n = m THEN [taps[u] EXCEPT !.pc = "ok"] ELSE taps[u]
    BY <1>4 DEF PubAck, Answered
  <2>2. taps[u] \in Requests
    BY TapIs
  <2>. HIDE DEF m
  <2>. QED BY <2>1, <2>2 DEF Requests
<1>6. \A i : i # m /\ Waits(i) => Waits(i)'
  BY <1>4, <1>5 DEF Waits
<1>7. \A i \in 1 .. Len(store') : store'[i] = store[i + 1] /\ i + 1 \in 1 .. Len(store) /\ store[i + 1] # m
  <2>. TAKE i \in 1 .. Len(store')
  <2>1. store'[i] = store[i + 1] /\ i + 1 \in 1 .. Len(store) /\ 1 \in 1 .. Len(store) /\ 1 < i + 1
    BY <1>1
  <2>2. store[1] < store[i + 1]
    BY <2>1 DEF LinkInv
  <2>3. store[1] \in Nat /\ store[i + 1] \in Nat
    <3>1. store[1] \in Places /\ store[i + 1] \in Places
      BY <2>1, ElementOfSeq DEF TypeOK
    <3>. QED BY <3>1 DEF Places
  <2>. QED BY <1>1, <2>1, <2>2, <2>3
<1>. HIDE DEF m
<1>8. \A i \in 1 .. Len(store') : Waits(store[i])'
  <2>. TAKE i \in 1 .. Len(store')
  <2>1. PICK c : c = store'[i]
    OBVIOUS
  <2>2. Waits(c) /\ c # m
    BY <1>7, <2>1 DEF ReportInv
  <2>3. Waits(c)'
    BY <1>6, <2>2
  <2>. QED BY <2>1, <2>3 DEF Waits
<1>9. \A i \in Places' : i \in accepted' \/ Waits(i)'
  BY <1>2, <1>3, <1>6 DEF ReportInv, Places
<1>10. \A i \in 1 .. Len(down') : down'[i] \in accepted'
  <2>. TAKE i \in 1 .. Len(down')
  <2>1. i + 1 \in 1 .. Len(down) /\ down'[i] = down[i + 1]
    BY <1>1
  <2>. QED BY <1>3, <2>1 DEF ReportInv
<1>11. /\ \A t, u \in 1 .. Len(taps') : taps'[t].n = taps'[u].n /\ taps'[t].n # 0 => t = u
       /\ \A t \in 1 .. Len(taps') : taps'[t].pc = "asked" => taps'[t].n = 0
  BY <1>4, <1>5 DEF ReportInv
<1>. QED BY <1>8, <1>9, <1>10, <1>11 DEF ReportInv

LEMMA AcceptReports == ASSUME TypeOK, ReportInv, Accept PROVE ReportInv'
<1>1. up # <<>> /\ Head(up) \in Places /\ down' = Append(down, Head(up))
  BY TailIs DEF Accept, TypeOK
<1>2. /\ Len(down') = Len(down) + 1 /\ Len(down) \in Nat /\ down'[Len(down) + 1] = Head(up)
      /\ \A i \in 1 .. Len(down) : down'[i] = down[i]
  BY <1>1, AppendIs DEF TypeOK
<1>3. accepted' = accepted \cup {Head(up)} /\ UNCHANGED <<taps, published, store>>
  BY DEF Accept, backVars
<1>4. \A i \in 1 .. Len(down') : down'[i] \in accepted'
  BY <1>2, <1>3 DEF ReportInv
<1>. QED BY <1>3, <1>4 DEF ReportInv, Places, Waits

LEMMA StepReport == TypeOK /\ LinkInv /\ ReportInv /\ [Next]_vars => ReportInv'
<1>. SUFFICES ASSUME TypeOK, LinkInv, ReportInv, [Next]_vars PROVE ReportInv'
  OBVIOUS
<1>1. ASSUME UNCHANGED <<taps, published, store, down, accepted>> PROVE ReportInv'
  BY <1>1 DEF ReportInv, Places, Waits
<1>2. CASE Break
  <2>1. Len(down') = 0 /\ UNCHANGED <<taps, published, store, accepted>>
    BY <1>2, EmptySeq DEF Break, backVars
  <2>. QED BY <2>1 DEF ReportInv, Places, Waits
<1>3. ASSUME NEW b \in Buttons, Change(b) PROVE ReportInv'
  BY <1>1, <1>3 DEF Change, linkVars, ghosts
<1>4. CASE Send \/ Reconnect \/ HubLeaves \/ HubJoins \/ IncomingPublish \/ IncomingData
           \/ TakeCommand \/ Transmit \/ UNCHANGED vars
  BY <1>1, <1>4 DEF Send, Reconnect, HubLeaves, HubJoins, IncomingPublish, NextMessage,
     IncomingData, TakeCommand, Transmit, vars, backVars, linkVars, ghosts
<1>. QED BY <1>2, <1>3, <1>4, TapReports, ServeReports, PubAckReports, AcceptReports DEF Next

LEMMA ReportHolds == Spec => []ReportInv
<1>. QED BY InitReport, StepReport, LinkHolds, PTL DEF Spec

(* A press that the page is told was sent has reached the broker, however  *)
(* often the connection broke and whatever was resent.                     *)
THEOREM WhatIsReportedReachedBroker == Spec => []SentReachedBroker
<1>1. TypeOK /\ ReportInv => SentReachedBroker
  <2>. SUFFICES ASSUME TypeOK, ReportInv, NEW n \in DOMAIN published
                PROVE  n \in accepted \/ n \in Unanswered
    BY DEF SentReachedBroker
  <2>1. n \in Places
    BY DEF TypeOK, Places
  <2>. QED BY <2>1, WaitsIsUnanswered DEF ReportInv
<1>. QED BY <1>1, ReportHolds, LinkHolds, PTL

-----------------------------------------------------------------------------
(* The order.  What the broker has yet to get on this connection comes     *)
(* after everything it got, or was sent before and is sent again.          *)

FreshInv ==
  \A i \in 1 .. Len(store) : Len(down) < i =>
    store[i] \in resent \/ \A m \in accepted : m < store[i]

LEMMA FreshKept ==
  ASSUME FreshInv, UNCHANGED <<store, down, accepted>>, resent \subseteq resent'
  PROVE  FreshInv'
BY DEF FreshInv

LEMMA StepFresh == TypeOK /\ LinkInv /\ ReportInv /\ FreshInv /\ [Next]_vars => FreshInv'
<1>. SUFFICES ASSUME TypeOK, LinkInv, ReportInv, FreshInv, [Next]_vars PROVE FreshInv'
  OBVIOUS
<1>1. ASSUME NEW t \in DOMAIN taps, Serve(t) PROVE FreshInv'
  <2>1. UNCHANGED <<down, accepted, resent>> /\ Len(store) \in Nat /\ Len(published) \in Nat
    BY <1>1 DEF Serve, ghosts, TypeOK
  <2>2. CASE UNCHANGED store
    BY <2>1, <2>2, FreshKept
  <2>3. CASE /\ Len(store') = Len(store) + 1 /\ store'[Len(store) + 1] = Len(published) + 1
             /\ \A i \in 1 .. Len(store) : store'[i] = store[i]
    <3>1. \A m \in accepted : m < Len(published) + 1
      BY <2>1 DEF TypeOK, Places
    <3>. SUFFICES ASSUME NEW i \in 1 .. Len(store'), Len(down) < i
                  PROVE  store'[i] \in resent \/ \A m \in accepted : m < store'[i]
      BY <2>1 DEF FreshInv
    <3>2. CASE i \in 1 .. Len(store)
      BY <2>3, <3>2 DEF FreshInv
    <3>3. CASE i = Len(store) + 1
      BY <2>3, <3>1, <3>3
    <3>. QED BY <2>1, <2>3, <3>2, <3>3
  <2>. QED BY <1>1, <2>2, <2>3, ServeIs
<1>2. CASE Accept
  <2>1. up # <<>> /\ down' = Append(down, Head(up)) /\ UNCHANGED <<store, resent>>
        /\ accepted' = accepted \cup {Head(up)}
    BY <1>2 DEF Accept
  <2>2. Head(up) = up[1] /\ Head(up) \in Places /\ Len(up) \in Nat \ {0}
    BY <2>1, TailIs DEF TypeOK
  <2>3. Len(down') = Len(down) + 1 /\ Len(down) \in Nat
    BY <2>1, <2>2, AppendIs DEF TypeOK
  <2>4. Head(up) = store[Len(down) + 1] /\ Len(down) + 1 \in 1 .. Len(store)
    <3>1. Len(store) \in Nat /\ sent \in 0 .. Len(store)
      BY DEF TypeOK
    <3>2. Len(down) + Len(up) \in {0, sent} /\ up[1] = store[Len(down) + 1]
      <4>1. 1 \in 1 .. Len(up)
        BY <2>2
      <4>. QED BY <4>1, <2>2, <2>3 DEF LinkInv
    <3>. QED BY <3>1, <3>2, <2>2, <2>3
  <2>5. \A i \in 1 .. Len(store) : Len(down) + 1 < i => Head(up) < store[i]
    BY <2>3, <2>4 DEF LinkInv
  <2>. QED BY <2>1, <2>3, <2>5 DEF FreshInv
<1>3. CASE PubAck
  <2>1. /\ Len(store) \in Nat \ {0} /\ Len(store') = Len(store) - 1
        /\ \A i \in 1 .. Len(store) - 1 : store'[i] = store[i + 1]
        /\ Len(down) \in Nat \ {0} /\ Len(down') = Len(down) - 1
    BY <1>3, PubAckTakesFirst
  <2>2. UNCHANGED <<accepted, resent>>
    BY <1>3 DEF PubAck, ghosts
  <2>3. \A i \in 1 .. Len(store') : Len(down') < i =>
          /\ i + 1 \in 1 .. Len(store) /\ Len(down) < i + 1 /\ store'[i] = store[i + 1]
    BY <2>1
  <2>. QED BY <2>2, <2>3 DEF FreshInv
<1>4. CASE Break
  <2>1. /\ UNCHANGED <<store, accepted>> /\ Len(down') = 0 /\ connected
        /\ resent' = resent \cup (Unanswered \cap {store[i] : i \in 1 .. sent})
    BY <1>4, EmptySeq DEF Break
  <2>2. Len(down) <= sent /\ sent \in Nat /\ Len(down) \in Nat /\ Len(store) \in Nat
    BY <2>1 DEF LinkInv, TypeOK
  <2>3. \A i \in 1 .. Len(store) : i <= sent => store[i] \in resent'
    BY <2>1, <2>2, WaitsIsUnanswered DEF ReportInv
  <2>4. \A i \in 1 .. Len(store) : i <= sent \/ Len(down) < i
    BY <2>2
  <2>. QED BY <2>1, <2>3, <2>4 DEF FreshInv
<1>5. ASSUME NEW b \in Buttons, Tap(b) \/ Change(b) PROVE FreshInv'
  BY <1>5, FreshKept DEF Tap, Change, linkVars, ghosts
<1>6. CASE Send \/ Reconnect \/ HubLeaves \/ HubJoins \/ IncomingPublish \/ IncomingData
           \/ TakeCommand \/ Transmit \/ UNCHANGED vars
  BY <1>6, FreshKept DEF Send, Reconnect, HubLeaves, HubJoins, IncomingPublish, NextMessage,
     IncomingData, TakeCommand, Transmit, vars, backVars, linkVars, ghosts
<1>. QED BY <1>1, <1>2, <1>3, <1>4, <1>5, <1>6 DEF Next

(* The stages from the broker to the LED: on its way, being received,      *)
(* queued, being transmitted, transmitted.  All of it was accepted, and    *)
(* what is further on comes first.                                         *)
Before(a, b) == a < b \/ b \in resent

AcceptedInv ==
  /\ \A i \in 1 .. Len(emitted) : emitted[i].n \in accepted
  /\ burst # None => burst.n \in accepted
  /\ \A i \in 1 .. Len(txq) : txq[i].n \in accepted
  /\ msg # 0 => msg \in accepted
  /\ \A i \in 1 .. Len(toHub) : toHub[i] \in accepted

EmittedInv ==
  /\ \A i, j \in 1 .. Len(emitted) : i < j => Before(emitted[i].n, emitted[j].n)
  /\ \A i \in 1 .. Len(emitted) :
       /\ burst # None => Before(emitted[i].n, burst.n)
       /\ \A j \in 1 .. Len(txq) : Before(emitted[i].n, txq[j].n)
       /\ msg # 0 => Before(emitted[i].n, msg)
       /\ \A j \in 1 .. Len(toHub) : Before(emitted[i].n, toHub[j])
BurstInv ==
  burst # None =>
    /\ \A j \in 1 .. Len(txq) : Before(burst.n, txq[j].n)
    /\ msg # 0 => Before(burst.n, msg)
    /\ \A j \in 1 .. Len(toHub) : Before(burst.n, toHub[j])
QueuedInv ==
  /\ \A i, j \in 1 .. Len(txq) : i < j => Before(txq[i].n, txq[j].n)
  /\ \A i \in 1 .. Len(txq) :
       /\ msg # 0 => Before(txq[i].n, msg)
       /\ \A j \in 1 .. Len(toHub) : Before(txq[i].n, toHub[j])
ComingInv ==
  /\ \A i, j \in 1 .. Len(toHub) : i < j => Before(toHub[i], toHub[j])
  /\ msg # 0 => \A j \in 1 .. Len(toHub) : Before(msg, toHub[j])
OrderInv == AcceptedInv /\ EmittedInv /\ BurstInv /\ QueuedInv /\ ComingInv

hubLine == <<emitted, burst, txq, msg, toHub>>

LEMMA OrderKept ==
  ASSUME OrderInv, UNCHANGED hubLine, accepted \subseteq accepted', resent \subseteq resent'
  PROVE  OrderInv'
BY DEF OrderInv, AcceptedInv, EmittedInv, BurstInv, QueuedInv, ComingInv, Before, hubLine

LEMMA AcceptOrders == ASSUME TypeOK, LinkInv, FreshInv, OrderInv, Accept PROVE OrderInv'
<1>. DEFINE u == Head(up)
<1>1. up # <<>> /\ accepted' = accepted \cup {u} /\ UNCHANGED <<resent, emitted, burst, txq, msg>>
  BY DEF Accept, txVars
<1>2. u = up[1] /\ u \in Places /\ Len(up) \in Nat \ {0}
  BY <1>1, TailIs DEF TypeOK
<1>3. u = store[Len(down) + 1] /\ Len(down) + 1 \in 1 .. Len(store)
  <2>1. 1 \in 1 .. Len(up) /\ connected /\ Len(down) \in Nat
    BY <1>1, <1>2 DEF LinkInv, TypeOK
  <2>2. up[1] = store[Len(down) + 1]
    BY <2>1 DEF LinkInv
  <2>3. Len(down) + Len(up) = sent /\ sent \in 0 .. Len(store) /\ Len(store) \in Nat
    BY <2>1 DEF LinkInv, TypeOK
  <2>. HIDE DEF u
  <2>. QED BY <1>2, <2>1, <2>2, <2>3
<1>4. \A a \in accepted : Before(a, u)
  <2>. Len(down) < Len(down) + 1
    BY DEF TypeOK
  <2>. QED BY <1>3 DEF FreshInv, Before
<1>5. CASE UNCHANGED toHub
  BY <1>1, <1>5, OrderKept DEF hubLine
<1>6. CASE toHub' = Append(toHub, u)
  <2>1. /\ Len(toHub') = Len(toHub) + 1 /\ Len(toHub) \in Nat /\ toHub'[Len(toHub) + 1] = u
        /\ \A i \in 1 .. Len(toHub) : toHub'[i] = toHub[i]
    BY <1>2, <1>6, AppendIs DEF TypeOK
  <2>. HIDE DEF u
  <2>2. \A j \in 1 .. Len(toHub') : j \in 1 .. Len(toHub) \/ (j = Len(toHub) + 1 /\ toHub'[j] = u)
    BY <2>1
  <2>3. \A a, b : Before(a, b)' <=> Before(a, b)
    BY <1>1 DEF Before
  <2>4. AcceptedInv'
    BY <1>1, <2>1, <2>2 DEF OrderInv, AcceptedInv
  <2>5. EmittedInv'
    BY <1>1, <1>4, <2>1, <2>2 DEF OrderInv, AcceptedInv, EmittedInv, Before
  <2>6. BurstInv'
    BY <1>1, <1>4, <2>1, <2>2 DEF OrderInv, AcceptedInv, BurstInv, Before
  <2>7. QueuedInv'
    BY <1>1, <1>4, <2>1, <2>2 DEF OrderInv, AcceptedInv, QueuedInv, Before
  <2>8. ComingInv'
    BY <1>1, <1>4, <2>1, <2>2 DEF OrderInv, AcceptedInv, ComingInv, Before
  <2>. QED BY <2>4, <2>5, <2>6, <2>7, <2>8 DEF OrderInv
<1>. QED BY <1>5, <1>6 DEF Accept

LEMMA LeaveOrders == ASSUME TypeOK, OrderInv, HubLeaves PROVE OrderInv'
<1>1. /\ msg' = 0 /\ Len(toHub') = 0
      /\ UNCHANGED <<emitted, burst, txq, accepted, resent>>
  BY EmptySeq DEF HubLeaves, txVars, ghosts
<1>. QED BY <1>1 DEF OrderInv, AcceptedInv, EmittedInv, BurstInv, QueuedInv, ComingInv, Before

LEMMA PublishOrders == ASSUME TypeOK, OrderInv, IncomingPublish PROVE OrderInv'
<1>1. /\ msg = 0 /\ msg' = toHub[1] /\ Len(toHub) \in Nat \ {0} /\ Len(toHub') = Len(toHub) - 1
      /\ \A i \in 1 .. Len(toHub) - 1 : toHub'[i] = toHub[i + 1]
      /\ UNCHANGED <<emitted, burst, txq, accepted, resent>>
  BY TailIs DEF IncomingPublish, NextMessage, TypeOK, txVars, ghosts
<1>2. 1 \in 1 .. Len(toHub)
  BY <1>1
<1>3. \A j \in 1 .. Len(toHub') : j + 1 \in 1 .. Len(toHub) /\ 1 < j + 1 /\ toHub'[j] = toHub[j + 1]
  BY <1>1
<1>4. AcceptedInv'
  BY <1>1, <1>2, <1>3 DEF OrderInv, AcceptedInv
<1>5. EmittedInv'
  BY <1>1, <1>2, <1>3 DEF OrderInv, EmittedInv, Before
<1>6. BurstInv'
  BY <1>1, <1>2, <1>3 DEF OrderInv, BurstInv, Before
<1>7. QueuedInv'
  BY <1>1, <1>2, <1>3 DEF OrderInv, QueuedInv, Before
<1>8. ComingInv'
  <2>1. \A i, j \in 1 .. Len(toHub') : i < j => i + 1 < j + 1
    BY <1>1
  <2>. QED BY <1>1, <1>2, <1>3, <2>1 DEF OrderInv, ComingInv, Before
<1>. QED BY <1>4, <1>5, <1>6, <1>7, <1>8 DEF OrderInv

LEMMA DataOrders == ASSUME TypeOK, OrderInv, IncomingData PROVE OrderInv'
<1>1. msg # 0 /\ msg' \in {0, msg} /\ UNCHANGED <<emitted, burst, toHub, accepted, resent>>
  BY DEF IncomingData, ghosts
<1>2. CASE UNCHANGED txq
  BY <1>1, <1>2 DEF OrderInv, AcceptedInv, EmittedInv, BurstInv, QueuedInv, ComingInv, Before
<1>3. CASE ~UNCHANGED txq
  <2>. DEFINE train == Transmissible(Decoded(rx'))
              e == [n |-> msg, train |-> train]
  <2>1. msg' = 0 /\ txq' = Append(txq, e) /\ train # None
    BY <1>3 DEF IncomingData
  <2>2. e \in Commands
    <3>1. rx' \in Seq(Nat)
      BY FragmentIs DEF Fragment
    <3>2. train \in Seq(Pulse)
      BY <2>1, <3>1, DecodedIsTrain DEF Transmissible
    <3>3. msg \in Places
      BY <1>1 DEF TypeOK
    <3>. HIDE DEF train
    <3>. QED BY <3>2, <3>3 DEF Commands
  <2>3. e.n = msg
    OBVIOUS
  <2>. HIDE DEF e
  <2>4. /\ Len(txq') = Len(txq) + 1 /\ Len(txq) \in Nat /\ txq'[Len(txq) + 1] = e
        /\ \A i \in 1 .. Len(txq) : txq'[i] = txq[i]
    BY <2>1, <2>2, AppendIs DEF TypeOK
  <2>5. \A j \in 1 .. Len(txq') : j \in 1 .. Len(txq) \/ (j = Len(txq) + 1 /\ txq'[j].n = msg)
    BY <2>3, <2>4
  <2>6. AcceptedInv'
    BY <1>1, <2>1, <2>4, <2>5 DEF OrderInv, AcceptedInv
  <2>7. EmittedInv'
    BY <1>1, <2>1, <2>4, <2>5 DEF OrderInv, EmittedInv, Before
  <2>8. BurstInv'
    BY <1>1, <2>1, <2>4, <2>5 DEF OrderInv, BurstInv, Before
  <2>9. QueuedInv'
    BY <1>1, <2>1, <2>4, <2>5 DEF OrderInv, QueuedInv, ComingInv, Before
  <2>10. ComingInv'
    BY <1>1, <2>1 DEF OrderInv, ComingInv, Before
  <2>. QED BY <2>6, <2>7, <2>8, <2>9, <2>10 DEF OrderInv
<1>. QED BY <1>2, <1>3

LEMMA TakeOrders == ASSUME TypeOK, OrderInv, TakeCommand PROVE OrderInv'
<1>1. /\ burst = None /\ burst' = txq[1] /\ Len(txq) \in Nat \ {0} /\ Len(txq') = Len(txq) - 1
      /\ \A i \in 1 .. Len(txq) - 1 : txq'[i] = txq[i + 1]
      /\ UNCHANGED <<emitted, msg, toHub, accepted, resent>>
  BY TailIs DEF TakeCommand, TypeOK, hubVars, ghosts
<1>2. 1 \in 1 .. Len(txq)
  BY <1>1
<1>3. \A j \in 1 .. Len(txq') : j + 1 \in 1 .. Len(txq) /\ 1 < j + 1 /\ txq'[j] = txq[j + 1]
  BY <1>1
<1>4. AcceptedInv'
  BY <1>1, <1>2, <1>3 DEF OrderInv, AcceptedInv
<1>5. EmittedInv'
  BY <1>1, <1>2, <1>3 DEF OrderInv, EmittedInv, Before
<1>6. BurstInv'
  BY <1>1, <1>2, <1>3 DEF OrderInv, QueuedInv, BurstInv, Before
<1>7. QueuedInv'
  <2>1. \A i, j \in 1 .. Len(txq') : i < j => i + 1 < j + 1
    BY <1>1
  <2>. QED BY <1>1, <1>2, <1>3, <2>1 DEF OrderInv, QueuedInv, Before
<1>8. ComingInv'
  BY <1>1 DEF OrderInv, ComingInv, Before
<1>. QED BY <1>4, <1>5, <1>6, <1>7, <1>8 DEF OrderInv

LEMMA TransmitOrders == ASSUME TypeOK, OrderInv, Transmit PROVE OrderInv'
<1>1. burst # None /\ burst' = None /\ UNCHANGED <<txq, msg, toHub, accepted, resent>>
  BY DEF Transmit, hubVars
<1>2. /\ Len(emitted') = Len(emitted) + 1 /\ Len(emitted) \in Nat
      /\ emitted'[Len(emitted) + 1] = burst
      /\ \A i \in 1 .. Len(emitted) : emitted'[i] = emitted[i]
  BY AppendIs DEF Transmit, TypeOK
<1>3. \A i \in 1 .. Len(emitted') :
        i \in 1 .. Len(emitted) \/ (i = Len(emitted) + 1 /\ emitted'[i] = burst)
  BY <1>2
<1>4. AcceptedInv'
  BY <1>1, <1>2, <1>3 DEF OrderInv, AcceptedInv
<1>5. EmittedInv'
  BY <1>1, <1>2, <1>3 DEF OrderInv, EmittedInv, BurstInv, Before
<1>6. BurstInv' /\ QueuedInv' /\ ComingInv'
  BY <1>1 DEF OrderInv, BurstInv, QueuedInv, ComingInv, Before
<1>. QED BY <1>4, <1>5, <1>6 DEF OrderInv

LEMMA StepOrder == TypeOK /\ LinkInv /\ FreshInv /\ OrderInv /\ [Next]_vars => OrderInv'
<1>. SUFFICES ASSUME TypeOK, LinkInv, FreshInv, OrderInv, [Next]_vars PROVE OrderInv'
  OBVIOUS
<1>1. CASE Break
  BY <1>1, OrderKept DEF Break, hubLine, hubVars, txVars
<1>2. ASSUME NEW b \in Buttons, Tap(b) \/ Change(b) PROVE OrderInv'
  BY <1>2, OrderKept DEF Tap, Change, hubLine, hubVars, txVars, ghosts
<1>3. ASSUME NEW t \in DOMAIN taps, Serve(t) PROVE OrderInv'
  BY <1>3, OrderKept DEF Serve, hubLine, hubVars, txVars, ghosts
<1>4. CASE Send \/ PubAck \/ Reconnect \/ HubJoins \/ UNCHANGED vars
  BY <1>4, OrderKept DEF Send, PubAck, Reconnect, HubJoins, vars, hubLine, hubVars, txVars, ghosts
<1>. QED BY <1>1, <1>2, <1>3, <1>4, AcceptOrders, LeaveOrders, PublishOrders, DataOrders,
            TakeOrders, TransmitOrders DEF Next

LEMMA InitOrder == Init => FreshInv /\ OrderInv
BY EmptySeq DEF Init, FreshInv, OrderInv, AcceptedInv, EmittedInv, BurstInv, QueuedInv, ComingInv

LEMMA OrderHolds == Spec => []OrderInv
<1>. QED BY InitOrder, StepFresh, StepOrder, LinkHolds, ReportHolds, PTL DEF Spec

(* Commands are transmitted in the order of their publication and once     *)
(* each, but for those a broken connection made mqtt.js send again.        *)
THEOREM CommandsKeepTheirOrder == Spec => []OnceInOrder
<1>1. TypeOK /\ OrderInv => OnceInOrder
  <2>. SUFFICES ASSUME TypeOK, OrderInv, NEW i \in DOMAIN emitted, NEW j \in DOMAIN emitted, i < j
                PROVE  emitted[i].n < emitted[j].n \/ emitted[j].n \in resent
    BY DEF OnceInOrder
  <2>1. i \in 1 .. Len(emitted) /\ j \in 1 .. Len(emitted)
    BY DEF TypeOK
  <2>. QED BY <2>1 DEF OrderInv, EmittedInv, Before
<1>. QED BY <1>1, OrderHolds, LinkHolds, PTL

-----------------------------------------------------------------------------
(* The trains.  While nothing was skipped, what was received and what is   *)
(* left are the payload; after that the buffer is too full for a train     *)
(* that may be transmitted.                                                *)

Complete ==
  /\ Len(rx) + Len(left) = Len(Payload(msg))
  /\ \A i \in 1 .. Len(rx) : rx[i] = Payload(msg)[i]
  /\ \A i \in 1 .. Len(left) : left[i] = Payload(msg)[Len(rx) + i]
TooLong ==
  /\ Len(rx) > MaxPulses + 1 /\ rx[1] = Head0
  /\ \A i \in 2 .. Len(rx) : rx[i] # Head0
  /\ \A i \in 1 .. Len(left) : left[i] # Head0
RxInv == msg # 0 => Complete \/ TooLong

TrainInv ==
  /\ \A i \in 1 .. Len(emitted) : emitted[i].train = published[emitted[i].n]
  /\ burst # None => burst.train = published[burst.n]
  /\ \A i \in 1 .. Len(txq) : txq[i].train = published[txq[i].n]

(* A whole payload is decoded to its train.                                *)
LEMMA DecodedPayload ==
  ASSUME TypeOK, NEW m \in Places PROVE Decoded(Payload(m)) = published[m]
<1>. DEFINE buf == Payload(m)
            ends == {i \in 2 .. Len(buf) : buf[i] = Head0}
<1>1. /\ published[m] \in Seq(Pulse) /\ buf \in Seq(Nat) /\ Len(buf) = 1 + Len(published[m])
      /\ buf[1] = Head0 /\ \A i \in 1 .. Len(published[m]) : buf[1 + i] = published[m][i]
  BY PayloadIs
<1>2. Len(published[m]) \in Nat /\ \A i \in 1 .. Len(published[m]) : published[m][i] \in Pulse
  BY <1>1
<1>. HIDE DEF buf
<1>3. ends = {}
  <2>. SUFFICES ASSUME NEW i \in 2 .. Len(buf) PROVE buf[i] # Head0
    OBVIOUS
  <2>1. i - 1 \in 1 .. Len(published[m]) /\ 1 + (i - 1) = i
    BY <1>1, <1>2
  <2>2. buf[i] \in Pulse
    BY <1>1, <1>2, <2>1
  <2>. QED BY <2>2 DEF Pulse, Head0
<1>4. buf # <<>>
  BY <1>1, <1>2, EmptySeq
<1>5. Decoded(buf) = SubSeq(buf, 2, Len(buf))
  BY <1>1, <1>3, <1>4 DEF Decoded
<1>6. /\ SubSeq(buf, 2, Len(buf)) \in Seq(Nat)
      /\ Len(SubSeq(buf, 2, Len(buf))) = Len(buf) - 1
      /\ \A i \in 1 .. Len(buf) - 1 : SubSeq(buf, 2, Len(buf))[i] = buf[1 + i]
  <2>. DEFINE k == 1
  <2>1. k \in Nat /\ k <= Len(buf) /\ k + 1 = 2 /\ buf \in Seq(Nat)
    BY <1>1, <1>2
  <2>. HIDE DEF k
  <2>2. /\ SubSeq(buf, k + 1, Len(buf)) \in Seq(Nat)
        /\ Len(SubSeq(buf, k + 1, Len(buf))) = Len(buf) - k
        /\ \A i \in 1 .. Len(buf) - k : SubSeq(buf, k + 1, Len(buf))[i] = buf[k + i]
    BY <2>1, PartsAre
  <2>. QED BY <2>1, <2>2 DEF k
<1>7. Len(SubSeq(buf, 2, Len(buf))) = Len(published[m])
  BY <1>1, <1>2, <1>6
<1>8. \A i \in 1 .. Len(published[m]) : SubSeq(buf, 2, Len(buf))[i] = published[m][i]
  <2>. TAKE i \in 1 .. Len(published[m])
  <2>1. i \in 1 .. Len(buf) - 2 + 1 /\ 2 + i - 1 = 1 + i
    BY <1>1, <1>2
  <2>. QED BY <1>1, <1>6, <2>1
<1>9. published[m] \in Seq(Nat)
  BY <1>1, SeqMonotonic DEF Pulse
<1>10. SubSeq(buf, 2, Len(buf)) = published[m]
  BY <1>6, <1>7, <1>8, <1>9, SeqEqual
<1>. QED BY <1>5, <1>10 DEF buf

(* Nothing is transmitted of a buffer that is too full.                    *)
LEMMA TooLongIsDropped ==
  ASSUME NEW buf \in Seq(Nat), Len(buf) > MaxPulses + 1, buf[1] = Head0,
         \A i \in 2 .. Len(buf) : buf[i] # Head0
  PROVE  Transmissible(Decoded(buf)) = None
<1>1. Len(buf) \in Nat /\ MaxPulses \in Nat /\ buf # <<>>
  BY Constants, EmptySeq
<1>2. {i \in 2 .. Len(buf) : buf[i] = Head0} = {}
  OBVIOUS
<1>3. Decoded(buf) = SubSeq(buf, 2, Len(buf))
  BY <1>1, <1>2 DEF Decoded
<1>4. Len(SubSeq(buf, 2, Len(buf))) = Len(buf) - 2 + 1
  <2>1. \A i \in 2 .. Len(buf) : buf[i] \in Nat
    OBVIOUS
  <2>2. Len(SubSeq(buf, 2, Len(buf))) = IF 2 <= Len(buf) THEN Len(buf) - 2 + 1 ELSE 0
    BY <1>1, <2>1, SubSeqProperties
  <2>. QED BY <1>1, <2>2
<1>. QED BY <1>1, <1>3, <1>4 DEF Transmissible

LEMMA FragmentKeepsRx ==
  ASSUME TypeOK, RxInv, IncomingData
  PROVE  /\ msg \in Places
         /\ \/ /\ Len(rx') + Len(left') = Len(Payload(msg))
               /\ \A i \in 1 .. Len(rx') : rx'[i] = Payload(msg)[i]
               /\ \A i \in 1 .. Len(left') : left'[i] = Payload(msg)[Len(rx') + i]
            \/ /\ Len(rx') > MaxPulses + 1 /\ rx'[1] = Head0
               /\ \A i \in 2 .. Len(rx') : rx'[i] # Head0
               /\ \A i \in 1 .. Len(left') : left'[i] # Head0
<1>. DEFINE whole == Payload(msg)
<1>1. msg \in Places
  BY DEF IncomingData, TypeOK
<1>2. msg # 0
  BY DEF IncomingData
<1>3. PICK k \in 1 .. MaxFragment : Fragment(k)
  BY FragmentIs
<1>4. /\ k \in Nat \ {0} /\ k <= MaxFragment /\ MaxFragment \in Nat
      /\ Len(left) \in Nat /\ Len(rx) \in Nat /\ BufLen \in Nat /\ MaxPulses \in Nat
  BY Constants DEF TypeOK
<1>5. /\ k <= Len(left) /\ Len(left') = Len(left) - k
      /\ \A i \in 1 .. Len(left) - k : left'[i] = left[k + i]
  BY <1>3 DEF Fragment
<1>6. \A i \in 1 .. Len(left') : k + i \in 1 .. Len(left) /\ left'[i] = left[k + i]
  BY <1>4, <1>5
<1>7. \A i \in 1 .. k : i \in 1 .. Len(left)
  BY <1>4, <1>5
<1>8. CASE Fits(k)
  <2>1. /\ Len(rx') = Len(rx) + k
        /\ \A i \in 1 .. Len(rx) : rx'[i] = rx[i]
        /\ \A i \in 1 .. k : rx'[Len(rx) + i] = left[i]
    BY <1>3, <1>8 DEF Fragment
  <2>2. \A i \in 1 .. Len(rx') :
          i \in 1 .. Len(rx) \/ (i - Len(rx) \in 1 .. k /\ Len(rx) + (i - Len(rx)) = i)
    BY <1>4, <2>1
  <2>3. CASE Complete
    <3>1. Len(rx') + Len(left') = Len(whole)
      <4>1. Len(rx) + Len(left) = Len(whole)
        BY <2>3 DEF Complete
      <4>2. (Len(rx) + k) + (Len(left) - k) = Len(rx) + Len(left)
        BY <1>4
      <4>3. Len(rx') = Len(rx) + k /\ Len(left') = Len(left) - k
        BY <1>5, <2>1
      <4>. HIDE DEF whole
      <4>. QED BY <4>1, <4>2, <4>3, Zenon
    <3>2. \A i \in 1 .. Len(rx') : rx'[i] = whole[i]
      <4>. TAKE i \in 1 .. Len(rx')
      <4>1. CASE i \in 1 .. Len(rx)
        BY <2>1, <2>3, <4>1 DEF Complete
      <4>2. CASE i - Len(rx) \in 1 .. k /\ Len(rx) + (i - Len(rx)) = i
        <5>1. rx'[i] = left[i - Len(rx)]
          BY <2>1, <4>2
        <5>2. left[i - Len(rx)] = whole[Len(rx) + (i - Len(rx))]
          BY <1>7, <2>3, <4>2 DEF Complete
        <5>. QED BY <4>2, <5>1, <5>2
      <4>. QED BY <2>2, <4>1, <4>2
    <3>3. \A i \in 1 .. Len(left') : left'[i] = whole[Len(rx') + i]
      <4>. TAKE i \in 1 .. Len(left')
      <4>1. left'[i] = whole[Len(rx) + (k + i)]
        BY <1>6, <2>3 DEF Complete
      <4>2. Len(rx) + (k + i) = Len(rx') + i
        BY <1>4, <2>1
      <4>. QED BY <4>1, <4>2
    <3>. QED BY <1>1, <3>1, <3>2, <3>3
  <2>4. CASE TooLong
    <3>1. Len(rx') > MaxPulses + 1 /\ rx'[1] = Head0
      BY <1>4, <2>1, <2>4 DEF TooLong
    <3>2. \A i \in 2 .. Len(rx') : rx'[i] # Head0
      <4>. TAKE i \in 2 .. Len(rx')
      <4>1. i \in 1 .. Len(rx')
        BY <1>4, <2>1
      <4>2. CASE i \in 1 .. Len(rx)
        BY <2>1, <2>4, <4>2 DEF TooLong
      <4>3. CASE i - Len(rx) \in 1 .. k /\ Len(rx) + (i - Len(rx)) = i
        <5>1. rx'[i] = left[i - Len(rx)]
          BY <2>1, <4>3
        <5>. QED BY <1>7, <2>4, <4>3, <5>1 DEF TooLong
      <4>. QED BY <2>2, <4>1, <4>2, <4>3
    <3>3. \A i \in 1 .. Len(left') : left'[i] # Head0
      BY <1>6, <2>4 DEF TooLong
    <3>. QED BY <1>1, <3>1, <3>2, <3>3
  <2>. QED BY <1>2, <2>3, <2>4 DEF RxInv
<1>9. CASE ~Fits(k)
  <2>1. rx' = rx
    BY <1>3, <1>9 DEF Fragment
  <2>2. Len(rx) > MaxPulses + 1
    BY <1>4, <1>9, PathConstants DEF Fits
  <2>3. TooLong
    <3>1. CASE Complete
      <4>1. /\ published[msg] \in Seq(Pulse) /\ Len(whole) = 1 + Len(published[msg]) /\ whole[1] = Head0
            /\ \A i \in 1 .. Len(published[msg]) : whole[1 + i] = published[msg][i]
        BY <1>1, PayloadIs
      <4>2. \A i \in 2 .. Len(whole) : whole[i] # Head0
        <5>. TAKE i \in 2 .. Len(whole)
        <5>1. i - 1 \in 1 .. Len(published[msg]) /\ 1 + (i - 1) = i
          BY <4>1
        <5>2. published[msg][i - 1] \in Pulse
          BY <4>1, <5>1, ElementOfSeq
        <5>3. whole[i] = published[msg][i - 1]
          BY <4>1, <5>1
        <5>. QED BY <5>2, <5>3 DEF Pulse, Head0
      <4>. HIDE DEF whole
      <4>3. /\ Len(rx) + Len(left) = Len(whole)
            /\ \A i \in 1 .. Len(rx) : rx[i] = whole[i]
            /\ \A i \in 1 .. Len(left) : left[i] = whole[Len(rx) + i]
        BY <3>1 DEF Complete, whole
      <4>4. rx[1] = Head0 /\ \A i \in 2 .. Len(rx) : rx[i] # Head0
        <5>1. 1 \in 1 .. Len(rx) /\ Len(whole) \in Nat /\ Len(rx) <= Len(whole)
          BY <1>4, <2>2, <4>3
        <5>2. \A i \in 2 .. Len(rx) : i \in 1 .. Len(rx) /\ i \in 2 .. Len(whole)
          BY <1>4, <5>1
        <5>. QED BY <4>1, <4>2, <4>3, <5>1, <5>2
      <4>5. \A i \in 1 .. Len(left) : left[i] # Head0
        <5>. TAKE i \in 1 .. Len(left)
        <5>1. Len(rx) + i \in 2 .. Len(whole)
          BY <1>4, <2>2, <4>3
        <5>. QED BY <4>2, <4>3, <5>1
      <4>. QED BY <2>2, <4>4, <4>5 DEF TooLong
    <3>. QED BY <1>2, <3>1 DEF RxInv
  <2>. QED BY <1>1, <1>6, <2>1, <2>3 DEF TooLong
<1>. QED BY <1>8, <1>9

(* What comes out of the buffer is the published train or nothing.         *)
LEMMA TrainIsWhole ==
  ASSUME TypeOK, RxInv, IncomingData, left' = <<>>
  PROVE  Transmissible(Decoded(rx')) \in {published[msg], None}
<1>1. msg \in Places /\ rx' \in Seq(Nat) /\ Len(left') = 0 /\ Len(rx') \in Nat
  BY FragmentKeepsRx, FragmentIs, EmptySeq DEF Fragment
<1>2. CASE /\ Len(rx') + Len(left') = Len(Payload(msg))
           /\ \A i \in 1 .. Len(rx') : rx'[i] = Payload(msg)[i]
  <2>1. Payload(msg) \in Seq(Nat)
    BY <1>1, PayloadIs
  <2>2. Len(rx') = Len(Payload(msg))
    BY <1>1, <1>2
  <2>3. rx' = Payload(msg)
    BY <1>1, <1>2, <2>1, <2>2, SeqEqual
  <2>. QED BY <1>1, <2>3, DecodedPayload DEF Transmissible
<1>3. CASE Len(rx') > MaxPulses + 1 /\ rx'[1] = Head0 /\ \A i \in 2 .. Len(rx') : rx'[i] # Head0
  BY <1>1, <1>3, TooLongIsDropped
<1>. QED BY <1>2, <1>3, FragmentKeepsRx

LEMMA RxKept ==
  ASSUME RxInv, UNCHANGED <<msg, left, rx>>, msg # 0 => UNCHANGED Payload(msg)
  PROVE  RxInv'
BY DEF RxInv, Complete, TooLong

LEMMA StepTrain == TypeOK /\ LinkInv /\ RxInv /\ TrainInv /\ [Next]_vars => RxInv' /\ TrainInv'
<1>. SUFFICES ASSUME TypeOK, LinkInv, RxInv, TrainInv, [Next]_vars PROVE RxInv' /\ TrainInv'
  OBVIOUS
<1>1. ASSUME NEW t \in DOMAIN taps, Serve(t) PROVE RxInv' /\ TrainInv'
  <2>1. \A i \in Places : published'[i] = published[i]
    BY <1>1, ServeIs DEF Places
  <2>2. UNCHANGED <<msg, left, rx, emitted, burst, txq>>
    BY <1>1 DEF Serve, hubVars, txVars, ghosts
  <2>3. RxInv'
    <3>1. msg # 0 => Payload(msg)' = Payload(msg)
      BY <2>1, <2>2 DEF Payload, TypeOK
    <3>. QED BY <2>2, <3>1, RxKept
  <2>4. \A c \in Commands : published'[c.n] = published[c.n]
    BY <2>1 DEF Commands
  <2>5. /\ \A i \in 1 .. Len(emitted) : emitted[i] \in Commands
        /\ \A i \in 1 .. Len(txq) : txq[i] \in Commands
    <3>1. emitted \in Seq(Commands) /\ txq \in Seq(Commands)
      BY DEF TypeOK
    <3>. QED BY <3>1, ElementOfSeq
  <2>6. TrainInv'
    BY <2>2, <2>4, <2>5 DEF TrainInv, TypeOK
  <2>. QED BY <2>3, <2>6
<1>2. CASE IncomingPublish
  <2>1. msg' \in Places /\ left' = Payload(msg)' /\ rx' = <<>> /\ UNCHANGED <<published, emitted, burst, txq>>
    BY <1>2, TailIs DEF IncomingPublish, NextMessage, TypeOK, Payload, backVars, txVars, ghosts
  <2>2. Payload(msg)' \in Seq(Nat)
    BY <1>2, <2>1, IncomingPublishTypes, PayloadIs DEF TypeOK
  <2>3. Complete'
    BY <2>1, <2>2, EmptySeq DEF Complete
  <2>. QED BY <2>1, <2>3 DEF RxInv, TrainInv
<1>3. CASE IncomingData
  <2>1. UNCHANGED <<published, emitted, burst>> /\ msg' \in {0, msg}
    BY <1>3 DEF IncomingData, backVars, ghosts
  <2>2. RxInv'
    <3>1. msg' # 0 => Payload(msg)' = Payload(msg) /\ msg' = msg
      BY <2>1 DEF Payload
    <3>. QED BY <1>3, <3>1, FragmentKeepsRx DEF RxInv, Complete, TooLong
  <2>3. TrainInv'
    <3>. DEFINE train == Transmissible(Decoded(rx'))
                e == [n |-> msg, train |-> train]
    <3>1. CASE UNCHANGED txq
      BY <2>1, <3>1 DEF TrainInv
    <3>2. CASE ~UNCHANGED txq
      <4>1. txq' = Append(txq, e) /\ train # None /\ left' = <<>>
        BY <1>3, <3>2 DEF IncomingData
      <4>2. train = published[msg]
        BY <1>3, <4>1, TrainIsWhole
      <4>3. msg \in Places /\ published[msg] \in Seq(Pulse)
        BY <1>3, FragmentKeepsRx, PayloadIs
      <4>4. e \in Commands /\ e.n = msg /\ e.train = published[msg]
        <5>. HIDE DEF train
        <5>. QED BY <4>2, <4>3 DEF Commands
      <4>. HIDE DEF e, train
      <4>5. /\ Len(txq') = Len(txq) + 1 /\ Len(txq) \in Nat /\ txq'[Len(txq) + 1] = e
            /\ \A i \in 1 .. Len(txq) : txq'[i] = txq[i]
        BY <4>1, <4>4, AppendIs DEF TypeOK
      <4>6. \A i \in 1 .. Len(txq') : txq'[i].train = published[txq'[i].n]
        BY <4>4, <4>5 DEF TrainInv
      <4>. QED BY <2>1, <4>6 DEF TrainInv
    <3>. QED BY <3>1, <3>2
  <2>. QED BY <2>2, <2>3
<1>4. CASE TakeCommand
  <2>1. /\ burst' = txq[1] /\ Len(txq) \in Nat \ {0} /\ Len(txq') = Len(txq) - 1
        /\ \A i \in 1 .. Len(txq) - 1 : txq'[i] = txq[i + 1]
        /\ UNCHANGED <<published, emitted, msg, left, rx>>
    BY <1>4, TailIs DEF TakeCommand, TypeOK, backVars, hubVars, ghosts
  <2>2. \A i \in 1 .. Len(txq') : i + 1 \in 1 .. Len(txq) /\ txq'[i] = txq[i + 1]
    BY <2>1
  <2>3. 1 \in 1 .. Len(txq)
    BY <2>1
  <2>. QED BY <2>1, <2>2, <2>3, RxKept DEF TrainInv, Payload
<1>5. CASE Transmit
  <2>1. /\ burst # None /\ burst' = None /\ UNCHANGED <<published, txq, msg, left, rx>>
        /\ emitted' = Append(emitted, burst)
    BY <1>5 DEF Transmit, backVars, hubVars
  <2>2. /\ Len(emitted') = Len(emitted) + 1 /\ Len(emitted) \in Nat
        /\ emitted'[Len(emitted) + 1] = burst
        /\ \A i \in 1 .. Len(emitted) : emitted'[i] = emitted[i]
    BY <2>1, AppendIs DEF TypeOK
  <2>3. \A i \in 1 .. Len(emitted') : emitted'[i].train = published[emitted'[i].n]
    BY <2>1, <2>2 DEF TrainInv
  <2>. QED BY <2>1, <2>3, RxKept DEF TrainInv, Payload
<1>6. CASE HubLeaves
  BY <1>6 DEF HubLeaves, RxInv, TrainInv, backVars, txVars, ghosts
<1>7. ASSUME UNCHANGED <<published, msg, left, rx, emitted, burst, txq>> PROVE RxInv' /\ TrainInv'
  BY <1>7, RxKept DEF TrainInv, Payload
<1>8. ASSUME NEW b \in Buttons, Tap(b) \/ Change(b) PROVE RxInv' /\ TrainInv'
  BY <1>7, <1>8 DEF Tap, Change, hubVars, txVars, ghosts
<1>9. CASE Send \/ Accept \/ PubAck \/ Break \/ Reconnect \/ HubJoins \/ UNCHANGED vars
  BY <1>7, <1>9 DEF Send, Accept, PubAck, Break, Reconnect, HubJoins, vars, backVars, hubVars,
     txVars, ghosts
<1>. QED BY <1>1, <1>2, <1>3, <1>4, <1>5, <1>6, <1>8, <1>9 DEF Next

LEMMA InitTrain == Init => RxInv /\ TrainInv
BY EmptySeq DEF Init, RxInv, TrainInv

(* Whatever the sizes of trains, fragments and the receive buffer, what    *)
(* the LED sends is a published train from its first pulse to its last.    *)
THEOREM OnlyWholeTrainsAreSent == Spec => []WholeTrains
<1>1. TypeOK /\ TrainInv => WholeTrains
  <2>. SUFFICES ASSUME TypeOK, TrainInv, NEW i \in DOMAIN emitted
                PROVE  emitted[i].train = published[emitted[i].n]
    BY DEF WholeTrains
  <2>1. i \in 1 .. Len(emitted)
    BY DEF TypeOK
  <2>. QED BY <2>1 DEF TrainInv
<1>. QED BY <1>1, InitTrain, StepTrain, LinkHolds, PTL DEF Spec
=============================================================================
