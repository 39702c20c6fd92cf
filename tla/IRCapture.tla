------------------------------ MODULE IRCapture ------------------------------
(***************************************************************************)
(* The infrared capture path of the hub: firmware/src/ir_capture.cpp.      *)
(*                                                                         *)
(* Three parties share a ring of capture buffers.  The edge interrupt      *)
(* fills the active buffer, one interval per edge; the 2 ms alarm ends a   *)
(* capture after a long enough silence and queues the buffer's index; the  *)
(* capture task copies a queued buffer out, frees it and passes the copy   *)
(* to the network task.  The two interrupt handlers have one priority and  *)
(* do not preempt each other, so each of their runs is one action.  Both   *)
(* preempt the task, so the task is cut wherever it touches shared state.  *)
(*                                                                         *)
(* Time is counted in ticks; since is the distance from s_last_edge_us.    *)
(* A flash save masks both interrupts for a while (net_config_flash.cpp):  *)
(* edges then merge into one pending interrupt and the alarm is late.  The *)
(* ghost field hit marks the captures such a window fell into.             *)
(***************************************************************************)
EXTENDS Naturals, FiniteSets, Sequences

CONSTANTS
  Buffers,      \* IR_CAPTURE_BUFFERS
  MaxPulses,    \* IR_MAX_PULSES
  MinPulse,     \* IR_MIN_PULSE_US, in ticks
  FrameGap,     \* IR_FRAME_GAP_US
  MessageGap,   \* IR_MESSAGE_GAP_US
  AlarmPeriod,  \* the period of s_idle_timer
  U16Max,       \* 0xFFFF, the largest interval or frame count of the code
  OutQueueLen,  \* length of g_captureToMqttQueue
  MaxCaptures,  \* bound: transmissions that begin
  MaxMasks      \* bound: flash saves

(* The relations config.h and its comments state between these values.     *)
ASSUME CaptureConstants ==
  /\ {Buffers, MaxPulses, OutQueueLen, AlarmPeriod} \subseteq Nat \ {0}
  /\ {MinPulse, FrameGap, MessageGap, U16Max, MaxCaptures, MaxMasks} \subseteq Nat
  /\ MinPulse <= FrameGap /\ FrameGap < MessageGap
  /\ MessageGap + AlarmPeriod <= U16Max /\ MaxPulses < U16Max

VARIABLES
  st,        \* s_state
  active,    \* s_active_buf
  busy,      \* s_busy
  buf,       \* s_buf, s_count, s_frames and s_trunc, one record per buffer
  readyQ,    \* s_ready_queue
  dropped,   \* s_dropped
  since,     \* time_us_64() - s_last_edge_us, saturated above U16Max
  alarmIn,   \* ticks to the next run of idle_timeout_cb
  masked,    \* a flash save holds both interrupts off
  pending,   \* an edge arrived meanwhile and its interrupt is pending
  pc, idx, n, msg,  \* the capture task and its locals
  outQ,      \* g_captureToMqttQueue
  captures, masks,  \* what MaxCaptures and MaxMasks bound
  age        \* ghost: ticks since the capture began, while not truncated

isrVars  == <<st, active, buf, dropped, captures, age>>
taskVars == <<pc, idx, n, msg, outQ>>
maskVars == <<masked, pending, masks>>
vars == <<isrVars, busy, readyQ, since, alarmIn, taskVars, maskVars>>

Ring    == 0 .. Buffers - 1
Capture == [pulses : Seq(0 .. U16Max), frames : 1 .. U16Max,
            trunc : BOOLEAN, hit : BOOLEAN]
Empty   == [pulses |-> <<>>, frames |-> 1, trunc |-> FALSE, hit |-> FALSE]

(* Mutant: the search for a free buffer never leaves the active one.       *)
FindFreeStays(from, bz) == from

(* A buffer the task does not hold, looking from "from" round the ring;    *)
(* "from" itself when every buffer is busy.                                *)
FindFree(from, bz) ==
  LET At(i) == (from + i) % Buffers
      free  == {i \in Ring : ~bz[At(i)]}
  IN  IF free = {} THEN from
      ELSE At(CHOOSE i \in free : \A j \in free : i <= j)

Init ==
  /\ st = "idle" /\ active = 0
  /\ busy = [b \in Ring |-> FALSE] /\ buf = [b \in Ring |-> Empty]
  /\ readyQ = <<>> /\ outQ = <<>>
  /\ dropped = 0 /\ captures = 0 /\ masks = 0
  /\ since = 0 /\ alarmIn = AlarmPeriod /\ age = 0
  /\ masked = FALSE /\ pending = FALSE
  /\ pc = "wait" /\ idx = 0 /\ n = 0 /\ msg = Empty

-----------------------------------------------------------------------------
(* Time.  A due alarm runs before the clock moves on, unless it is masked; *)
(* a pending edge runs as soon as the interrupts are back.                 *)

Tick ==
  /\ masked \/ (alarmIn > 0 /\ ~pending)
  /\ since' = IF since > U16Max THEN since ELSE since + 1
  /\ alarmIn' = IF alarmIn > 0 THEN alarmIn - 1 ELSE 0
  /\ age' = IF st = "capturing" /\ ~buf[active].trunc /\ ~buf[active].hit
              THEN age + 1 ELSE 0
  /\ UNCHANGED <<st, active, buf, dropped, captures, busy, readyQ, taskVars,
                 maskVars>>

-----------------------------------------------------------------------------
(* gpio_edge_isr                                                           *)

DropEdge ==
  /\ st = "dropping"
  /\ since' = 0
  /\ UNCHANGED isrVars

(* Mutant: a capture starts without looking whether its buffer is free.    *)
StartCaptureAnyway ==
  /\ st = "idle" /\ captures < MaxCaptures
  /\ LET b == FindFree(active, busy) IN
       /\ active' = b
       /\ buf' = [buf EXCEPT ![b] = [Empty EXCEPT !.hit = pending]]
  /\ st' = "capturing" /\ since' = 0 /\ age' = 0
  /\ captures' = captures + 1
  /\ UNCHANGED dropped

(* The first edge of a transmission, with and without a buffer for it.     *)
StartCapture ==
  /\ st = "idle" /\ captures < MaxCaptures
  /\ LET b == FindFree(active, busy) IN
       /\ ~busy[b]
       /\ active' = b
       /\ buf' = [buf EXCEPT ![b] = [Empty EXCEPT !.hit = pending]]
  /\ st' = "capturing" /\ since' = 0 /\ age' = 0
  /\ captures' = captures + 1
  /\ UNCHANGED dropped

RefuseCapture ==
  /\ st = "idle" /\ captures < MaxCaptures
  /\ busy[FindFree(active, busy)]
  /\ st' = "dropping" /\ since' = 0
  /\ dropped' = dropped + 1
  /\ captures' = captures + 1
  /\ UNCHANGED <<active, buf, age>>

(* Mutant: a glitch moves the timebase.                                    *)
GlitchResets ==
  /\ st = "capturing" /\ since < MinPulse
  /\ since' = 0
  /\ UNCHANGED isrVars

(* A spike shorter than MinPulse is absorbed: the timebase does not move.  *)
Glitch ==
  /\ st = "capturing" /\ since < MinPulse
  /\ UNCHANGED <<isrVars, since>>

(* Mutant: the frame counter is not kept below 0xFFFF.                     *)
RecordEdgeWraps ==
  /\ st = "capturing" /\ since >= MinPulse
  /\ LET c    == buf[active]
         full == Len(c.pulses) >= MaxPulses
     IN  /\ buf' = [buf EXCEPT ![active] =
                [c EXCEPT !.frames = IF since >= FrameGap THEN @ + 1 ELSE @,
                          !.pulses = IF full THEN @
                                     ELSE Append(@, IF since > U16Max THEN U16Max ELSE since),
                          !.trunc  = @ \/ full]]
         /\ age' = IF full THEN 0 ELSE age
  /\ since' = 0
  /\ UNCHANGED <<st, active, dropped, captures>>

(* Mutant: a gap of exactly FrameGap is not counted.                       *)
RecordEdgeMissesGap ==
  /\ st = "capturing" /\ since >= MinPulse
  /\ LET c    == buf[active]
         full == Len(c.pulses) >= MaxPulses
     IN  /\ buf' = [buf EXCEPT ![active] =
                [c EXCEPT !.frames = IF since > FrameGap /\ @ < U16Max THEN @ + 1 ELSE @,
                          !.pulses = IF full THEN @
                                     ELSE Append(@, IF since > U16Max THEN U16Max ELSE since),
                          !.trunc  = @ \/ full]]
         /\ age' = IF full THEN 0 ELSE age
  /\ since' = 0
  /\ UNCHANGED <<st, active, dropped, captures>>

RecordEdge ==
  /\ st = "capturing" /\ since >= MinPulse
  /\ LET c    == buf[active]
         full == Len(c.pulses) >= MaxPulses
     IN  /\ buf' = [buf EXCEPT ![active] =
                [c EXCEPT
                   !.frames = IF since >= FrameGap /\ @ < U16Max THEN @ + 1 ELSE @,
                   !.pulses = IF full THEN @
                              ELSE Append(@, IF since > U16Max THEN U16Max ELSE since),
                   !.trunc  = @ \/ full]]
         /\ age' = IF full THEN 0 ELSE age
  /\ since' = 0
  /\ UNCHANGED <<st, active, dropped, captures>>

Edge ==
  /\ ~masked
  /\ DropEdge \/ StartCapture \/ RefuseCapture \/ Glitch \/ RecordEdge
  /\ pending' = FALSE
  /\ UNCHANGED <<busy, readyQ, alarmIn, taskVars, masked, masks>>

-----------------------------------------------------------------------------
(* idle_timeout_cb                                                         *)

(* Mutant: the alarm lets a gap of exactly MessageGap pass.                *)
NothingToEndYet ==
  /\ st = "idle" \/ since <= MessageGap
  /\ UNCHANGED <<isrVars, busy, readyQ>>

NothingToEnd ==
  /\ st = "idle" \/ since < MessageGap
  /\ UNCHANGED <<isrVars, busy, readyQ>>

EndDrop ==
  /\ st = "dropping" /\ since >= MessageGap
  /\ st' = "idle"
  /\ UNCHANGED <<active, buf, dropped, captures, age, busy, readyQ>>

EndEmpty ==
  /\ st = "capturing" /\ since >= MessageGap
  /\ buf[active].pulses = <<>>
  /\ st' = "idle" /\ age' = 0
  /\ UNCHANGED <<active, buf, dropped, captures, busy, readyQ>>

(* The finished buffer is flagged busy and its index queued; a full queue  *)
(* is the branch the code calls unreachable.                               *)
HandOver ==
  /\ st = "capturing" /\ since >= MessageGap
  /\ buf[active].pulses # <<>>
  /\ st' = "idle" /\ age' = 0
  /\ IF Len(readyQ) < Buffers
     THEN /\ readyQ' = Append(readyQ, active)
          /\ busy' = [busy EXCEPT ![active] = TRUE]
          /\ active' = FindFree(active, busy')
          /\ UNCHANGED dropped
     ELSE /\ busy' = [busy EXCEPT ![active] = FALSE]
          /\ dropped' = dropped + 1
          /\ UNCHANGED <<readyQ, active>>
  /\ UNCHANGED <<buf, captures>>

Alarm ==
  /\ ~masked /\ alarmIn = 0
  /\ alarmIn' = AlarmPeriod
  /\ NothingToEnd \/ EndDrop \/ EndEmpty \/ HandOver
  /\ UNCHANGED <<since, taskVars, maskVars>>

-----------------------------------------------------------------------------
(* task: one step for each access to what the interrupts or the network    *)
(* task share.  The task runs only while the interrupts are enabled.       *)

(* Mutant: the task frees the buffer before it has copied it.              *)
TaskReceiveFrees ==
  /\ pc = "wait" /\ readyQ # <<>>
  /\ idx' = Head(readyQ) /\ readyQ' = Tail(readyQ)
  /\ busy' = [busy EXCEPT ![Head(readyQ)] = FALSE]
  /\ pc' = "count"
  /\ UNCHANGED <<n, msg, outQ>>

TaskReceive ==
  /\ pc = "wait" /\ readyQ # <<>>
  /\ idx' = Head(readyQ) /\ readyQ' = Tail(readyQ)
  /\ pc' = "count"
  /\ UNCHANGED <<busy, n, msg, outQ>>

TaskReadCount ==
  /\ pc = "count"
  /\ n' = Len(buf[idx].pulses)
  /\ pc' = "copy"
  /\ UNCHANGED <<busy, readyQ, idx, msg, outQ>>

(* Copies n intervals; what lies past s_count in a buffer is not modelled. *)
TaskCopy ==
  /\ pc = "copy"
  /\ LET c == buf[idx]
         k == IF n < Len(c.pulses) THEN n ELSE Len(c.pulses)
     IN  msg' = [c EXCEPT !.pulses = SubSeq(@, 1, k)]
  /\ pc' = "free"
  /\ UNCHANGED <<busy, readyQ, idx, n, outQ>>

(* Mutant: the task forgets to free the buffer.                            *)
TaskFreeForgets ==
  /\ pc = "free" /\ pc' = "send"
  /\ UNCHANGED <<busy, readyQ, idx, n, msg, outQ>>

TaskFree ==
  /\ pc = "free"
  /\ busy' = [busy EXCEPT ![idx] = FALSE]
  /\ pc' = "send"
  /\ UNCHANGED <<readyQ, idx, n, msg, outQ>>

TaskSend ==
  /\ pc = "send" /\ Len(outQ) < OutQueueLen
  /\ outQ' = Append(outQ, msg)
  /\ pc' = "wait"
  /\ UNCHANGED <<busy, readyQ, idx, n, msg>>

(* The 100 ms passed with the queue full all along.                        *)
TaskSendTimeout ==
  /\ pc = "send" /\ Len(outQ) >= OutQueueLen
  /\ pc' = "evict"
  /\ UNCHANGED <<busy, readyQ, idx, n, msg, outQ>>

(* Mutant: nothing is dropped before the second send.                      *)
TaskEvictNothing ==
  /\ pc = "evict" /\ pc' = "resend"
  /\ UNCHANGED <<busy, readyQ, idx, n, msg, outQ>>

(* Drop the oldest; the network task may have emptied the queue meanwhile. *)
TaskEvict ==
  /\ pc = "evict"
  /\ outQ' = IF outQ = <<>> THEN outQ ELSE Tail(outQ)
  /\ pc' = "resend"
  /\ UNCHANGED <<busy, readyQ, idx, n, msg>>

(* The second send does not wait and its result is ignored.                *)
TaskResend ==
  /\ pc = "resend"
  /\ outQ' = IF Len(outQ) < OutQueueLen THEN Append(outQ, msg) ELSE outQ
  /\ pc' = "wait"
  /\ UNCHANGED <<busy, readyQ, idx, n, msg>>

Task ==
  /\ ~masked /\ ~pending
  /\ \/ TaskReceive \/ TaskReadCount \/ TaskCopy \/ TaskFree
     \/ TaskSend \/ TaskSendTimeout \/ TaskEvict \/ TaskResend
  /\ UNCHANGED <<isrVars, since, alarmIn, maskVars>>

(* The network task takes a capture to publish (mqtt_manager, run_online). *)
NetReceive ==
  /\ ~masked /\ outQ # <<>>
  /\ outQ' = Tail(outQ)
  /\ UNCHANGED <<isrVars, busy, readyQ, since, alarmIn, pc, idx, n, msg,
                 maskVars>>

-----------------------------------------------------------------------------
(* flash_safe_execute around a save                                        *)

Mask ==
  /\ ~masked /\ masks < MaxMasks
  /\ masked' = TRUE /\ masks' = masks + 1
  /\ buf' = IF st = "capturing" THEN [buf EXCEPT ![active].hit = TRUE] ELSE buf
  /\ age' = 0
  /\ UNCHANGED <<st, active, dropped, captures, busy, readyQ, since, alarmIn,
                 taskVars, pending>>

MaskedEdge ==
  /\ masked /\ ~pending /\ captures < MaxCaptures
  /\ pending' = TRUE
  /\ UNCHANGED <<isrVars, busy, readyQ, since, alarmIn, taskVars, masked, masks>>

Unmask ==
  /\ masked /\ masked' = FALSE
  /\ UNCHANGED <<isrVars, busy, readyQ, since, alarmIn, taskVars, pending, masks>>

-----------------------------------------------------------------------------
Next == Tick \/ Edge \/ Alarm \/ Task \/ NetReceive
        \/ Mask \/ MaskedEdge \/ Unmask

Spec == Init /\ [][Next]_vars

(* Saves are short, a pending interrupt runs when they end, and the task   *)
(* is scheduled: the two tasks above it block on queues and timeouts.  No  *)
(* fairness for the network task, which may be offline for good.           *)
FairSpec ==
  Spec /\ WF_vars(Task) /\ WF_vars(Unmask) /\ WF_vars(pending /\ Edge)

-----------------------------------------------------------------------------
Held     == pc \in {"count", "copy", "free"}
Measured == {b \in Ring : ~buf[b].hit}

TypeOK ==
  /\ st \in {"idle", "capturing", "dropping"} /\ active \in Ring
  /\ busy \in [Ring -> BOOLEAN] /\ buf \in [Ring -> Capture]
  /\ readyQ \in Seq(Ring)
  /\ dropped \in Nat /\ captures \in Nat /\ masks \in Nat /\ age \in Nat
  /\ since \in 0 .. U16Max + 1 /\ alarmIn \in 0 .. AlarmPeriod
  /\ masked \in BOOLEAN /\ pending \in BOOLEAN
  /\ pc \in {"wait", "count", "copy", "free", "send", "evict", "resend"}
  /\ idx \in Ring /\ n \in Nat /\ msg \in Capture
  /\ outQ \in Seq(Capture)

(* A buffer has one owner at a time: the edge interrupt, the ready queue   *)
(* (once) or the task.  This is what makes the unguarded s_active_buf and  *)
(* the task's plain reads of a buffer safe.                                *)
OneOwner ==
  /\ \A i, j \in DOMAIN readyQ : readyQ[i] = readyQ[j] => i = j
  /\ \A i \in DOMAIN readyQ : busy[readyQ[i]]
  /\ Held => busy[idx] /\ \A i \in DOMAIN readyQ : readyQ[i] # idx
  /\ \A b \in Ring : busy[b] =>
        (Held /\ idx = b) \/ \E i \in DOMAIN readyQ : readyQ[i] = b
  /\ st = "capturing" => ~busy[active]

(* A capture that ends always finds room in the ready queue, whatever the  *)
(* task and the network task are doing: the "should be unreachable" branch *)
(* of idle_timeout_cb really is.                                           *)
HandoverHasRoom == st = "capturing" => Len(readyQ) < Buffers

(* After the task evicted the oldest message its second send finds room,   *)
(* so the unchecked result of that send never hides a lost capture.        *)
ResendHasRoom == pc = "resend" => Len(outQ) < OutQueueLen

(* Unless a flash save got in between, no interval of a capture reaches    *)
(* MessageGap + AlarmPeriod, so the clip to 0xFFFF never changes one: the  *)
(* alarm ends the capture first.                                           *)
IntervalsFit ==
  \A b \in Measured : \A i \in DOMAIN buf[b].pulses :
     buf[b].pulses[i] < MessageGap + AlarmPeriod

(* A recording replays in real time: while there is room, the intervals    *)
(* recorded so far plus the time since the last accepted edge add up to    *)
(* the time since the first edge, however many glitches were absorbed.     *)
SumOf[s \in Seq(Nat)] == IF s = <<>> THEN 0 ELSE Head(s) + SumOf[Tail(s)]
Timebase ==
  st = "capturing" /\ ~buf[active].trunc /\ ~buf[active].hit
    => SumOf[buf[active].pulses] + since = age

(* frame_count is one more than the recorded gaps of FrameGap or more; a   *)
(* truncated capture may have more frames than it has room to show.        *)
FramesMatchGaps ==
  \A b \in Ring :
     LET c == buf[b]
         gaps == {i \in DOMAIN c.pulses : c.pulses[i] >= FrameGap}
     IN  IF c.trunc THEN c.frames > Cardinality(gaps) ELSE c.frames = Cardinality(gaps) + 1

(* A transmission is refused only when every buffer is in flight.          *)
DropOnlyWhenFull == [][dropped' # dropped => \A b \in Ring : busy[b]]_vars

(* A slow or absent network never wedges the ring: every buffer handed to  *)
(* the task comes back.                                                    *)
BuffersComeBack == \A b \in Ring : busy[b] ~> ~busy[b]

(* The captures under way from the ring to the network task, oldest first. *)
Waiting ==
  outQ \o (IF Held THEN <<buf[idx]>> ELSE IF pc = "wait" THEN <<>> ELSE <<msg>>)
       \o [i \in DOMAIN readyQ |-> buf[readyQ[i]]]

(* The whole path, from the interrupts to the network task, is one queue   *)
(* of captures: nothing is overwritten, duplicated or overtaken on it.     *)
Fifo == INSTANCE CaptureFifo WITH fifo <- Waiting
KeepsOrder == Fifo!FifoSpec
=============================================================================
