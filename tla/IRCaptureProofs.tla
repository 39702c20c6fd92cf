--------------------------- MODULE IRCaptureProofs ---------------------------
(***************************************************************************)
(* Proofs about IRCapture for every ring size, pulse limit and timing its  *)
(* named assumption admits.                                                *)
(***************************************************************************)
EXTENDS IRCapture, SequenceFacts, FiniteSetTheorems, TLAPS

(* find_free_buf returns a buffer of the ring, and a busy one only when    *)
(* all of them are.                                                        *)
LEMMA FindFreeFindsFree ==
  ASSUME NEW from \in Ring, NEW bz \in [Ring -> BOOLEAN]
  PROVE  /\ FindFree(from, bz) \in Ring
         /\ bz[FindFree(from, bz)] => \A b \in Ring : bz[b]
<1>. DEFINE At(i) == (from + i) % Buffers
            free  == {i \in Ring : ~bz[At(i)]}
<1>1. Buffers \in Nat \ {0}
  BY CaptureConstants
<1>2. \A i \in Ring : At(i) \in Ring
  BY <1>1 DEF Ring
<1>3. CASE free = {}
  <2>1. FindFree(from, bz) = from
    BY <1>3 DEF FindFree
  <2>2. \A b \in Ring : \E i \in Ring : At(i) = b
    <3>. TAKE b \in Ring
    <3>1. CASE b >= from
      <4>1. b - from \in Ring /\ At(b - from) = b
        BY <1>1, <3>1 DEF Ring
      <4>. QED BY <4>1
    <3>2. CASE b < from
      <4>1. b + Buffers - from \in Ring /\ from + (b + Buffers - from) = b + Buffers
        BY <1>1, <3>2 DEF Ring
      <4>2. (b + Buffers) % Buffers = b
        BY <1>1 DEF Ring
      <4>. QED BY <4>1, <4>2
    <3>. QED BY <3>1, <3>2, <1>1 DEF Ring
  <2>. QED BY <1>3, <2>1, <2>2
<1>4. CASE free # {}
  <2>. DEFINE k == CHOOSE i \in free : \A j \in free : i <= j
  <2>1. k \in free
    <3>1. free \in SUBSET Nat BY DEF Ring
    <3>2. \E i \in free : \A j \in free : i <= j BY <3>1, <1>4, LeastElement
    <3>. QED BY <3>2
  <2>2. FindFree(from, bz) = At(k)
    BY <1>4 DEF FindFree
  <2>. QED BY <2>1, <2>2, <1>2
<1>. QED BY <1>3, <1>4

-----------------------------------------------------------------------------
(* Type correctness.                                                       *)

LEMMA Constants ==
  /\ Buffers \in Nat /\ Buffers > 0 /\ 0 \in Ring
  /\ AlarmPeriod \in Nat /\ U16Max \in Nat /\ U16Max > 0
  /\ MessageGap \in Nat /\ FrameGap \in Nat /\ OutQueueLen \in Nat /\ OutQueueLen > 0
  /\ MessageGap + AlarmPeriod <= U16Max
BY CaptureConstants DEF Ring

LEMMA EmptyIsCapture == Empty \in Capture
BY Constants, EmptySeq DEF Empty, Capture

LEMMA InitTypeOK == Init => TypeOK
<1>1. <<>> \in Seq(Ring) /\ <<>> \in Seq(Capture)
  BY EmptySeq
<1>. QED BY <1>1, EmptyIsCapture, Constants DEF Init, TypeOK

LEMMA StepTypeOK == TypeOK /\ [Next]_vars => TypeOK'
<1>. SUFFICES ASSUME TypeOK, [Next]_vars PROVE TypeOK'
  OBVIOUS
<1>. USE DEF isrVars, taskVars, maskVars, vars
<1>1. CASE Tick
  BY <1>1, Constants DEF Tick, TypeOK
<1>2. CASE Edge
  <2>. /\ pending' \in BOOLEAN
       /\ UNCHANGED <<busy, readyQ, alarmIn, taskVars, masked, masks>>
    BY <1>2 DEF Edge
  <2>1. CASE DropEdge
    BY <2>1, Constants DEF DropEdge, TypeOK
  <2>2. CASE StartCapture
    <3>1. FindFree(active, busy) \in Ring
      BY FindFreeFindsFree DEF TypeOK
    <3>2. [Empty EXCEPT !.hit = pending] \in Capture
      BY EmptyIsCapture DEF Capture, TypeOK
    <3>3. active' \in Ring /\ buf' \in [Ring -> Capture]
      BY <2>2, <3>1, <3>2 DEF StartCapture, TypeOK
    <3>4. /\ st' = "capturing" /\ since' = 0 /\ age' = 0 /\ captures' \in Nat
          /\ dropped' \in Nat
      BY <2>2 DEF StartCapture, TypeOK
    <3>. QED BY <3>3, <3>4, Constants DEF TypeOK
  <2>3. CASE RefuseCapture
    BY <2>3, Constants DEF RefuseCapture, TypeOK
  <2>4. CASE Glitch
    BY <2>4 DEF Glitch, TypeOK
  <2>5. CASE RecordEdge
    <3>. DEFINE c    == buf[active]
                full == Len(c.pulses) >= MaxPulses
                gap  == IF since > U16Max THEN U16Max ELSE since
                d    == [c EXCEPT
                   !.frames = IF since >= FrameGap /\ @ < U16Max THEN @ + 1 ELSE @,
                   !.pulses = IF full THEN @ ELSE Append(@, gap),
                   !.trunc  = @ \/ full]
    <3>1. c \in Capture /\ gap \in 0 .. U16Max
      BY Constants DEF TypeOK
    <3>2. Append(c.pulses, gap) \in Seq(0 .. U16Max)
      BY <3>1, AppendProperties DEF Capture
    <3>3. (IF since >= FrameGap /\ c.frames < U16Max THEN c.frames + 1 ELSE c.frames)
            \in 1 .. U16Max
      BY <3>1, Constants DEF Capture
    <3>4. d \in Capture
      BY <3>1, <3>2, <3>3 DEF Capture
    <3>5. buf' = [buf EXCEPT ![active] = d]
      BY <2>5 DEF RecordEdge
    <3>. HIDE DEF d
    <3>6. buf' \in [Ring -> Capture]
      BY <3>4, <3>5 DEF TypeOK
    <3>7. since' = 0 /\ age' \in Nat /\ UNCHANGED <<st, active, dropped, captures>>
      BY <2>5 DEF RecordEdge, TypeOK
    <3>. QED BY <3>6, <3>7, Constants DEF TypeOK
  <2>. QED BY <1>2, <2>1, <2>2, <2>3, <2>4, <2>5 DEF Edge
<1>3. CASE Alarm
  <2>. /\ alarmIn' = AlarmPeriod
       /\ UNCHANGED <<since, taskVars, maskVars>>
    BY <1>3 DEF Alarm
  <2>1. CASE NothingToEnd
    BY <2>1, Constants DEF NothingToEnd, TypeOK
  <2>2. CASE EndDrop
    BY <2>2, Constants DEF EndDrop, TypeOK
  <2>3. CASE EndEmpty
    BY <2>3, Constants DEF EndEmpty, TypeOK
  <2>4. CASE HandOver
    <3>1. busy' \in [Ring -> BOOLEAN]
      BY <2>4 DEF HandOver, TypeOK
    <3>2. FindFree(active, busy') \in Ring
      BY <3>1, FindFreeFindsFree DEF TypeOK
    <3>3. Append(readyQ, active) \in Seq(Ring)
      BY AppendProperties DEF TypeOK
    <3>4. readyQ' \in Seq(Ring) /\ active' \in Ring /\ dropped' \in Nat
      <4>. DEFINE room == Len(readyQ) < Buffers
      <4>1. active \in Ring /\ readyQ \in Seq(Ring) /\ dropped \in Nat
        BY DEF TypeOK
      <4>2. CASE room
        <5>1. readyQ' = Append(readyQ, active) /\ active' = FindFree(active, busy')
              /\ dropped' = dropped
          BY <2>4, <4>2 DEF HandOver
        <5>. QED BY <3>2, <3>3, <4>1, <5>1
      <4>3. CASE ~room
        <5>1. UNCHANGED <<readyQ, active>> /\ dropped' = dropped + 1
          BY <2>4, <4>3 DEF HandOver
        <5>. QED BY <4>1, <5>1
      <4>. QED BY <4>2, <4>3
    <3>5. st' = "idle" /\ age' = 0 /\ UNCHANGED <<buf, captures>>
      BY <2>4 DEF HandOver
    <3>. QED BY <3>1, <3>4, <3>5, Constants DEF TypeOK
  <2>. QED BY <1>3, <2>1, <2>2, <2>3, <2>4 DEF Alarm
<1>4. CASE Task
  <2>. UNCHANGED <<isrVars, since, alarmIn, maskVars>>
    BY <1>4 DEF Task
  <2>1. CASE TaskReceive
    <3>1. Head(readyQ) \in Ring /\ Tail(readyQ) \in Seq(Ring)
      BY <2>1, HeadTailProperties DEF TaskReceive, TypeOK
    <3>. QED BY <2>1, <3>1 DEF TaskReceive, TypeOK
  <2>2. CASE TaskReadCount
    <3>1. Len(buf[idx].pulses) \in Nat
      BY LenProperties DEF TypeOK, Capture
    <3>. QED BY <2>2, <3>1 DEF TaskReadCount, TypeOK
  <2>3. CASE TaskCopy
    <3>. DEFINE c == buf[idx]
                k == IF n < Len(c.pulses) THEN n ELSE Len(c.pulses)
    <3>1. c \in Capture /\ c.pulses \in Seq(0 .. U16Max)
      BY DEF TypeOK, Capture
    <3>2. SubSeq(c.pulses, 1, k) \in Seq(0 .. U16Max)
      <4>1. k \in Int /\ k <= Len(c.pulses)
        BY <3>1, LenProperties DEF TypeOK
      <4>2. \A i \in 1 .. k : c.pulses[i] \in 0 .. U16Max
        <5>. TAKE i \in 1 .. k
        <5>1. i \in 1 .. Len(c.pulses)
          BY <3>1, <4>1, LenProperties
        <5>. QED BY <3>1, <5>1, ElementOfSeq
      <4>. QED BY <4>1, <4>2, SubSeqProperties
    <3>3. msg' = [c EXCEPT !.pulses = SubSeq(c.pulses, 1, k)]
      BY <2>3 DEF TaskCopy
    <3>4. msg' \in Capture
      BY <3>1, <3>2, <3>3 DEF Capture
    <3>. QED BY <2>3, <3>4 DEF TaskCopy, TypeOK
  <2>4. CASE TaskFree
    BY <2>4 DEF TaskFree, TypeOK
  <2>5. CASE TaskSend
    <3>1. Append(outQ, msg) \in Seq(Capture)
      BY AppendProperties DEF TypeOK
    <3>. QED BY <2>5, <3>1 DEF TaskSend, TypeOK
  <2>6. CASE TaskSendTimeout
    BY <2>6 DEF TaskSendTimeout, TypeOK
  <2>7. CASE TaskEvict
    <3>1. outQ # <<>> => Tail(outQ) \in Seq(Capture)
      BY HeadTailProperties DEF TypeOK
    <3>. QED BY <2>7, <3>1 DEF TaskEvict, TypeOK
  <2>8. CASE TaskResend
    <3>1. Append(outQ, msg) \in Seq(Capture)
      BY AppendProperties DEF TypeOK
    <3>. QED BY <2>8, <3>1 DEF TaskResend, TypeOK
  <2>. QED BY <1>4, <2>1, <2>2, <2>3, <2>4, <2>5, <2>6, <2>7, <2>8 DEF Task
<1>5. CASE NetReceive
  <2>1. Tail(outQ) \in Seq(Capture)
    BY <1>5, HeadTailProperties DEF NetReceive, TypeOK
  <2>. QED BY <1>5, <2>1 DEF NetReceive, TypeOK
<1>6. CASE Mask
  <2>1. [buf[active] EXCEPT !.hit = TRUE] \in Capture
    BY DEF TypeOK, Capture
  <2>2. buf' \in [Ring -> Capture]
    BY <1>6, <2>1 DEF Mask, TypeOK
  <2>. QED BY <1>6, <2>2 DEF Mask, TypeOK
<1>7. CASE MaskedEdge
  BY <1>7 DEF MaskedEdge, TypeOK
<1>8. CASE Unmask
  BY <1>8 DEF Unmask, TypeOK
<1>9. CASE UNCHANGED vars
  BY <1>9 DEF TypeOK
<1>. QED BY <1>1, <1>2, <1>3, <1>4, <1>5, <1>6, <1>7, <1>8, <1>9 DEF Next

(* Every value the interrupts and the task leave in shared memory has the  *)
(* type the code declares for it, in every reachable state.                *)
THEOREM TypeCorrect == Spec => []TypeOK
<1>. QED BY InitTypeOK, StepTypeOK, PTL DEF Spec

-----------------------------------------------------------------------------
(* Ownership of the buffers.  OneOwner is inductive relative to TypeOK.    *)

LEMMA InitOneOwner == Init => OneOwner
BY DEF Init, OneOwner, Held

(* What OneOwner speaks of is left alone by most steps.                    *)
LEMMA FrameOneOwner ==
  ASSUME OneOwner, UNCHANGED <<readyQ, busy, idx>>, Held' <=> Held,
         st' = "capturing" => st = "capturing" /\ active' = active
  PROVE  OneOwner'
BY DEF OneOwner

LEMMA StepOneOwner == TypeOK /\ OneOwner /\ [Next]_vars => OneOwner'
<1>. SUFFICES ASSUME TypeOK, OneOwner, [Next]_vars PROVE OneOwner'
  OBVIOUS
<1>. USE DEF isrVars, taskVars, maskVars, vars
<1>1. CASE Tick \/ Mask \/ MaskedEdge \/ Unmask \/ NetReceive \/ UNCHANGED vars
  BY <1>1, FrameOneOwner
     DEF Tick, Mask, MaskedEdge, Unmask, NetReceive, Held
<1>2. CASE Edge
  <2>. UNCHANGED <<readyQ, busy, idx, pc>>
    BY <1>2 DEF Edge
  <2>1. CASE DropEdge \/ RefuseCapture \/ Glitch \/ RecordEdge
    BY <2>1, FrameOneOwner DEF DropEdge, RefuseCapture, Glitch, RecordEdge, Held
  <2>2. CASE StartCapture
    BY <2>2 DEF StartCapture, OneOwner, Held
  <2>. QED BY <1>2, <2>1, <2>2 DEF Edge
<1>3. CASE Alarm
  <2>. UNCHANGED <<idx, pc>>
    BY <1>3 DEF Alarm
  <2>1. CASE NothingToEnd \/ EndDrop \/ EndEmpty
    BY <2>1, FrameOneOwner DEF NothingToEnd, EndDrop, EndEmpty, Held
  <2>2. CASE HandOver
    <3>1. st = "capturing" /\ st' = "idle" /\ ~busy[active] /\ active \in Ring
          /\ busy \in [Ring -> BOOLEAN] /\ idx \in Ring
      BY <2>2 DEF HandOver, OneOwner, TypeOK
    <3>2. CASE Len(readyQ) < Buffers
      <4>1. readyQ' = Append(readyQ, active) /\ busy' = [busy EXCEPT ![active] = TRUE]
        BY <2>2, <3>2 DEF HandOver
      <4>2. /\ Len(readyQ) \in Nat
            /\ DOMAIN readyQ = 1 .. Len(readyQ)
            /\ DOMAIN readyQ' = 1 .. Len(readyQ) + 1
            /\ \A i \in 1 .. Len(readyQ) : readyQ'[i] = readyQ[i]
            /\ readyQ'[Len(readyQ) + 1] = active
        BY <4>1, AppendProperties, LenProperties DEF TypeOK
      <4>3. \A i \in DOMAIN readyQ : readyQ[i] # active /\ readyQ[i] \in Ring
        BY <3>1, <4>2, ElementOfSeq DEF OneOwner, TypeOK
      <4>4. /\ \A i, j \in DOMAIN readyQ' : readyQ'[i] = readyQ'[j] => i = j
            /\ \A i \in DOMAIN readyQ' : busy'[readyQ'[i]]
        BY <3>1, <4>1, <4>2, <4>3 DEF OneOwner
      <4>5. Held' => busy'[idx'] /\ \A i \in DOMAIN readyQ' : readyQ'[i] # idx'
        <5>1. Held => idx # active
          BY <3>1 DEF OneOwner
        <5>. QED BY <3>1, <4>1, <4>2, <5>1 DEF OneOwner, Held
      <4>6. \A b \in Ring : busy'[b] =>
               (Held' /\ idx' = b) \/ \E i \in DOMAIN readyQ' : readyQ'[i] = b
        <5>. TAKE b \in Ring
        <5>1. CASE b = active
          BY <4>2, <5>1
        <5>2. CASE b # active
          BY <3>1, <4>1, <4>2, <5>2 DEF OneOwner, Held
        <5>. QED BY <5>1, <5>2
      <4>. QED BY <3>1, <4>4, <4>5, <4>6 DEF OneOwner
    <3>3. CASE ~(Len(readyQ) < Buffers)
      <4>1. UNCHANGED readyQ /\ busy' = [busy EXCEPT ![active] = FALSE]
        BY <2>2, <3>3 DEF HandOver
      <4>2. busy' = busy
        BY <3>1, <4>1
      <4>. QED BY <3>1, <4>1, <4>2, FrameOneOwner DEF Held
    <3>. QED BY <3>2, <3>3
  <2>. QED BY <1>3, <2>1, <2>2 DEF Alarm
<1>4. CASE Task
  <2>. UNCHANGED <<st, active>>
    BY <1>4 DEF Task
  <2>1. CASE TaskReceive
    <3>1. /\ idx' = Head(readyQ) /\ readyQ' = Tail(readyQ) /\ busy' = busy
          /\ pc = "wait" /\ pc' = "count" /\ readyQ # <<>>
      BY <2>1 DEF TaskReceive
    <3>2. /\ Len(readyQ) \in Nat /\ Len(readyQ) > 0
          /\ DOMAIN readyQ = 1 .. Len(readyQ)
          /\ DOMAIN readyQ' = 1 .. Len(readyQ) - 1
          /\ \A i \in 1 .. Len(readyQ) - 1 : readyQ'[i] = readyQ[i + 1]
          /\ idx' = readyQ[1]
      BY <3>1, HeadTailProperties, LenProperties, EmptySeq DEF TypeOK
    <3>3. ~Held /\ Held'
      BY <3>1 DEF Held
    <3>4. /\ \A i, j \in DOMAIN readyQ' : readyQ'[i] = readyQ'[j] => i = j
          /\ \A i \in DOMAIN readyQ' : busy'[readyQ'[i]]
          /\ busy'[idx'] /\ \A i \in DOMAIN readyQ' : readyQ'[i] # idx'
      BY <3>1, <3>2 DEF OneOwner
    <3>5. \A b \in Ring : busy'[b] =>
             idx' = b \/ \E i \in DOMAIN readyQ' : readyQ'[i] = b
      <4>. SUFFICES ASSUME NEW b \in Ring, busy[b]
                    PROVE  idx' = b \/ \E i \in DOMAIN readyQ' : readyQ'[i] = b
        BY <3>1
      <4>1. PICK i \in DOMAIN readyQ : readyQ[i] = b
        BY <3>3 DEF OneOwner
      <4>2. CASE i = 1
        BY <3>2, <4>1, <4>2
      <4>3. CASE i # 1
        <5>1. i - 1 \in DOMAIN readyQ' /\ readyQ'[i - 1] = b
          BY <3>2, <4>1, <4>3
        <5>. QED BY <5>1
      <4>. QED BY <4>2, <4>3
    <3>6. st' = "capturing" => ~busy'[active']
      BY <3>1 DEF OneOwner
    <3>. QED BY <3>3, <3>4, <3>5, <3>6 DEF OneOwner
  <2>2. CASE TaskFree
    <3>1. /\ busy' = [busy EXCEPT ![idx] = FALSE] /\ UNCHANGED <<readyQ, idx>>
          /\ Held /\ ~Held'
      BY <2>2 DEF TaskFree, Held
    <3>2. \A i \in DOMAIN readyQ : readyQ[i] # idx /\ readyQ[i] \in Ring
      BY <3>1, ElementOfSeq, LenProperties DEF OneOwner, TypeOK
    <3>. QED BY <3>1, <3>2 DEF OneOwner, TypeOK
  <2>3. CASE TaskReadCount \/ TaskCopy \/ TaskSend \/ TaskSendTimeout
               \/ TaskEvict \/ TaskResend
    BY <2>3, FrameOneOwner
       DEF TaskReadCount, TaskCopy, TaskSend, TaskSendTimeout, TaskEvict,
           TaskResend, Held
  <2>. QED BY <1>4, <2>1, <2>2, <2>3 DEF Task
<1>. QED BY <1>1, <1>2, <1>3, <1>4 DEF Next

(* A buffer is never filled by the edge interrupt while it is queued for   *)
(* or read by the task, however the three interleave.                      *)
THEOREM BuffersHaveOneOwner == Spec => []OneOwner
<1>1. TypeOK /\ OneOwner /\ [Next]_vars => (TypeOK /\ OneOwner)'
  BY StepTypeOK, StepOneOwner
<1>. QED BY <1>1, InitTypeOK, InitOneOwner, PTL DEF Spec

(* A sequence of n elements has n places.                                  *)
LEMMA OneToN == ASSUME NEW m \in Nat PROVE IsFiniteSet(1 .. m) /\ Cardinality(1 .. m) = m
<1>1. 1 \in Int /\ m \in Int
  OBVIOUS
<1>2. /\ IsFiniteSet(1 .. m)
      /\ Cardinality(1 .. m) = IF 1 > m THEN 0 ELSE m - 1 + 1
  BY <1>1, FS_Interval
<1>3. (IF 1 > m THEN 0 ELSE m - 1 + 1) = m
  OBVIOUS
<1>. QED BY <1>2, <1>3

(* The queued indices are different and none is the active buffer's, so    *)
(* there are fewer of them than buffers.                                   *)
LEMMA OwnershipLeavesRoom == TypeOK /\ OneOwner => HandoverHasRoom
<1>. SUFFICES ASSUME TypeOK, OneOwner, st = "capturing"
              PROVE  Len(readyQ) < Buffers
  BY DEF HandoverHasRoom
<1>. DEFINE D == 1 .. Len(readyQ)
            T == Ring \ {active}
<1>1. Len(readyQ) \in Nat /\ DOMAIN readyQ = D /\ readyQ \in [D -> Ring]
  BY LenProperties DEF TypeOK
<1>2. readyQ \in Injection(D, T)
  <2>1. \A i \in D : readyQ[i] \in T
    BY <1>1 DEF OneOwner
  <2>2. \A i, j \in D : readyQ[i] = readyQ[j] => i = j
    BY <1>1 DEF OneOwner
  <2>. QED BY <1>1, <2>1, <2>2 DEF Injection, IsInjective
<1>3. IsFiniteSet(Ring) /\ Cardinality(Ring) = Buffers
  BY Constants, FS_Interval DEF Ring
<1>4. IsFiniteSet(T) /\ Cardinality(T) = Buffers - 1
  BY <1>3, FS_RemoveElement DEF TypeOK
<1>5. Cardinality(D) = Len(readyQ)
  BY <1>1, OneToN
<1>6. Cardinality(D) <= Cardinality(T)
  BY <1>2, <1>4, FS_Injection
<1>. QED BY <1>1, <1>4, <1>5, <1>6, Constants

(* The queue-full branch of idle_timeout_cb is dead code: "the queue is    *)
(* sized to the ring, so this should be unreachable".                      *)
THEOREM QueueFullIsUnreachable == Spec => []HandoverHasRoom
BY TypeCorrect, BuffersHaveOneOwner, OwnershipLeavesRoom, PTL

(* A transmission is refused only when every buffer is queued or being     *)
(* copied: the search round the ring finds a free one whenever there is    *)
(* one, and the other place that counts a drop is dead code.               *)
THEOREM DropsOnlyWhenFull == Spec => DropOnlyWhenFull
<1>1. TypeOK /\ HandoverHasRoom /\ [Next]_vars
        => [dropped' # dropped => \A b \in Ring : busy[b]]_vars
  <2>. SUFFICES ASSUME TypeOK, HandoverHasRoom, Next, dropped' # dropped
                PROVE  \A b \in Ring : busy[b]
    BY DEF vars, isrVars
  <2>1. CASE Edge
    <3>1. RefuseCapture
      BY <2>1 DEF Edge, DropEdge, StartCapture, Glitch, RecordEdge, isrVars
    <3>. QED BY <3>1, FindFreeFindsFree DEF RefuseCapture, TypeOK
  <2>2. CASE Alarm
    BY <2>2 DEF Alarm, NothingToEnd, EndDrop, EndEmpty, HandOver,
                HandoverHasRoom, isrVars
  <2>3. CASE Tick \/ Task \/ NetReceive \/ Mask \/ MaskedEdge \/ Unmask
    BY <2>3 DEF Tick, Task, NetReceive, Mask, MaskedEdge, Unmask, isrVars
  <2>. QED BY <2>1, <2>2, <2>3 DEF Next
<1>. QED BY <1>1, TypeCorrect, QueueFullIsUnreachable, PTL
         DEF Spec, DropOnlyWhenFull

-----------------------------------------------------------------------------
(* The queue to the network task.                                          *)

OutQueueBounded == Len(outQ) <= OutQueueLen

QueueInv == OutQueueBounded /\ ResendHasRoom

LEMMA StepQueueInv == TypeOK /\ QueueInv /\ [Next]_vars => QueueInv'
<1>. SUFFICES ASSUME TypeOK, QueueInv, [Next]_vars PROVE QueueInv'
  OBVIOUS
<1>. USE DEF QueueInv, OutQueueBounded, ResendHasRoom
<1>1. outQ \in Seq(Capture) /\ msg \in Capture /\ Len(outQ) \in Nat
  BY LenProperties DEF TypeOK
<1>2. outQ # <<>> => Len(Tail(outQ)) = Len(outQ) - 1 /\ Len(outQ) > 0
  BY <1>1, HeadTailProperties, EmptySeq
<1>3. Len(Append(outQ, msg)) = Len(outQ) + 1
  BY <1>1, AppendProperties
<1>4. CASE UNCHANGED <<pc, outQ>>
  BY <1>4
<1>5. CASE NetReceive
  BY <1>1, <1>2, <1>5, Constants DEF NetReceive
<1>6. CASE Task
  <2>1. CASE TaskSend
    BY <2>1, <1>1, <1>3, Constants DEF TaskSend
  <2>2. CASE TaskEvict
    <3>1. CASE outQ = <<>>
      BY <2>2, <3>1, EmptySeq, Constants DEF TaskEvict
    <3>2. CASE outQ # <<>>
      BY <2>2, <3>2, <1>1, <1>2, Constants DEF TaskEvict
    <3>. QED BY <3>1, <3>2
  <2>3. CASE TaskResend
    BY <2>3, <1>1, <1>3, Constants DEF TaskResend
  <2>4. CASE TaskReceive \/ TaskReadCount \/ TaskCopy \/ TaskFree \/ TaskSendTimeout
    BY <2>4 DEF TaskReceive, TaskReadCount, TaskCopy, TaskFree, TaskSendTimeout
  <2>. QED BY <1>6, <2>1, <2>2, <2>3, <2>4 DEF Task
<1>. QED BY <1>4, <1>5, <1>6
     DEF Next, Tick, Edge, Alarm, Mask, MaskedEdge, Unmask, vars, taskVars

(* The second xQueueSend of the capture task never fails, even though the  *)
(* network task takes from the queue at any moment.                        *)
THEOREM ResendNeverFails == Spec => []ResendHasRoom
<1>1. Init => QueueInv
  BY Constants, EmptySeq DEF Init, QueueInv, OutQueueBounded, ResendHasRoom
<1>2. QueueInv => ResendHasRoom
  BY DEF QueueInv
<1>. QED BY <1>1, <1>2, TypeCorrect, StepQueueInv, PTL DEF Spec

-----------------------------------------------------------------------------
(* Interval widths.  While a capture no flash save fell into is under way, *)
(* the next alarm comes before the silence reaches MessageGap +            *)
(* AlarmPeriod; that makes IntervalsFit inductive.                         *)

AlarmComesFirst ==
  st = "capturing" /\ ~buf[active].hit
    => ~masked /\ since + alarmIn < MessageGap + AlarmPeriod

WidthInv == AlarmComesFirst /\ IntervalsFit

LEMMA InitWidthInv == Init => WidthInv
BY EmptySeq DEF Init, WidthInv, AlarmComesFirst, IntervalsFit, Measured, Empty

LEMMA StepWidthInv == TypeOK /\ WidthInv /\ [Next]_vars => WidthInv'
<1>. SUFFICES ASSUME TypeOK, WidthInv, [Next]_vars PROVE WidthInv'
  OBVIOUS
<1>. USE DEF isrVars, taskVars, maskVars, vars
<1>1. active \in Ring /\ since \in Nat /\ alarmIn \in Nat /\ alarmIn <= AlarmPeriod
  BY Constants DEF TypeOK
<1>2. CASE UNCHANGED <<st, active, buf, masked, since, alarmIn>>
  BY <1>2 DEF WidthInv, AlarmComesFirst, IntervalsFit, Measured
<1>3. UNCHANGED buf => IntervalsFit'
  BY DEF WidthInv, IntervalsFit, Measured
<1>4. CASE Tick
  <2>1. AlarmComesFirst'
    <3>. SUFFICES ASSUME st' = "capturing", ~buf'[active'].hit
                  PROVE  ~masked' /\ since' + alarmIn' < MessageGap + AlarmPeriod
      BY DEF AlarmComesFirst
    <3>1. ~masked /\ since + alarmIn < MessageGap + AlarmPeriod
      BY <1>4 DEF Tick, WidthInv, AlarmComesFirst
    <3>. QED BY <1>1, <1>4, <3>1, Constants DEF Tick
  <2>. QED BY <1>3, <1>4, <2>1 DEF Tick, WidthInv
<1>5. CASE Edge
  <2>. ~masked /\ UNCHANGED <<masked, alarmIn>>
    BY <1>5 DEF Edge
  <2>1. CASE DropEdge \/ RefuseCapture
    BY <2>1, <1>3 DEF DropEdge, RefuseCapture, WidthInv, AlarmComesFirst
  <2>2. CASE Glitch
    BY <2>2, <1>3 DEF Glitch, WidthInv, AlarmComesFirst
  <2>3. CASE StartCapture
    <3>. DEFINE f == FindFree(active, busy)
    <3>1. f \in Ring
      BY FindFreeFindsFree DEF TypeOK
    <3>2. /\ active' = f /\ since' = 0
          /\ buf' = [buf EXCEPT ![f] = [Empty EXCEPT !.hit = pending]]
      BY <2>3 DEF StartCapture
    <3>3. AlarmComesFirst'
      BY <1>1, <3>2, Constants, CaptureConstants DEF AlarmComesFirst
    <3>4. buf \in [Ring -> Capture] /\ DOMAIN <<>> = {}
      BY EmptySeq DEF TypeOK
    <3>5. buf'[f].pulses = <<>> /\ \A b \in Ring \ {f} : buf'[b] = buf[b]
      BY <3>1, <3>2, <3>4 DEF Empty
    <3>. HIDE DEF f
    <3>6. IntervalsFit'
      BY <3>4, <3>5 DEF WidthInv, IntervalsFit, Measured
    <3>. QED BY <3>3, <3>6 DEF WidthInv
  <2>4. CASE RecordEdge
    <3>. DEFINE c   == buf[active]
                gap == IF since > U16Max THEN U16Max ELSE since
    <3>1. /\ st = "capturing" /\ since' = 0 /\ UNCHANGED <<st, active>>
          /\ \A b \in Ring \ {active} : buf'[b] = buf[b]
          /\ buf'[active].hit = c.hit
          /\ buf'[active].pulses = c.pulses \/ buf'[active].pulses = Append(c.pulses, gap)
      BY <2>4, <1>1 DEF RecordEdge, TypeOK, Capture
    <3>2. AlarmComesFirst'
      BY <1>1, <3>1, Constants, CaptureConstants DEF WidthInv, AlarmComesFirst
    <3>3. c.pulses \in Seq(0 .. U16Max) /\ gap \in 0 .. U16Max
      BY <1>1, Constants DEF TypeOK, Capture
    <3>4. ASSUME ~c.hit, NEW i \in DOMAIN buf'[active].pulses
          PROVE  buf'[active].pulses[i] < MessageGap + AlarmPeriod
      <4>1. since < MessageGap + AlarmPeriod /\ gap = since
        BY <1>1, <3>1, <3>4, Constants DEF WidthInv, AlarmComesFirst
      <4>2. \A j \in DOMAIN c.pulses : c.pulses[j] < MessageGap + AlarmPeriod
        BY <1>1, <3>4 DEF WidthInv, IntervalsFit, Measured
      <4>3. CASE buf'[active].pulses = c.pulses
        BY <4>2, <4>3
      <4>4. CASE buf'[active].pulses = Append(c.pulses, gap)
        <5>1. /\ DOMAIN c.pulses = 1 .. Len(c.pulses) /\ Len(c.pulses) \in Nat
              /\ DOMAIN Append(c.pulses, gap) = 1 .. Len(c.pulses) + 1
              /\ \A j \in 1 .. Len(c.pulses) : Append(c.pulses, gap)[j] = c.pulses[j]
              /\ Append(c.pulses, gap)[Len(c.pulses) + 1] = gap
          BY <3>3, AppendProperties, LenProperties
        <5>2. i \in 1 .. Len(c.pulses) \/ i = Len(c.pulses) + 1
          BY <4>4, <5>1
        <5>. HIDE DEF c, gap
        <5>. QED BY <4>1, <4>2, <4>4, <5>1, <5>2
      <4>. QED BY <3>1, <4>3, <4>4
    <3>5. IntervalsFit'
      <4>. SUFFICES ASSUME NEW b \in Ring, ~buf'[b].hit, NEW i \in DOMAIN buf'[b].pulses
                    PROVE  buf'[b].pulses[i] < MessageGap + AlarmPeriod
        BY DEF IntervalsFit, Measured
      <4>1. CASE b = active
        BY <3>1, <3>4, <4>1
      <4>2. CASE b # active
        BY <3>1, <4>2 DEF WidthInv, IntervalsFit, Measured
      <4>. QED BY <4>1, <4>2
    <3>. QED BY <3>2, <3>5 DEF WidthInv
  <2>. QED BY <1>5, <2>1, <2>2, <2>3, <2>4 DEF Edge
<1>6. CASE Alarm
  <2>. ~masked /\ UNCHANGED <<masked, since>> /\ alarmIn' = AlarmPeriod
    BY <1>6 DEF Alarm
  <2>1. CASE NothingToEnd
    BY <2>1, <1>1, <1>3, Constants DEF NothingToEnd, WidthInv, AlarmComesFirst
  <2>2. CASE EndDrop \/ EndEmpty \/ HandOver
    BY <2>2, <1>3 DEF EndDrop, EndEmpty, HandOver, WidthInv, AlarmComesFirst
  <2>. QED BY <1>6, <2>1, <2>2 DEF Alarm
<1>7. CASE Mask
  <2>1. CASE st = "capturing"
    <3>1. buf' = [buf EXCEPT ![active].hit = TRUE] /\ UNCHANGED <<st, active>>
      BY <1>7, <2>1 DEF Mask
    <3>2. /\ buf'[active].hit
          /\ \A b \in Ring \ {active} : buf'[b] = buf[b]
      BY <1>1, <3>1 DEF TypeOK, Capture
    <3>. QED BY <3>1, <3>2 DEF WidthInv, AlarmComesFirst, IntervalsFit, Measured
  <2>2. CASE st # "capturing"
    BY <1>7, <2>2, <1>3 DEF Mask, WidthInv, AlarmComesFirst
  <2>. QED BY <2>1, <2>2
<1>8. CASE Unmask
  BY <1>8, <1>3 DEF Unmask, WidthInv, AlarmComesFirst
<1>. QED BY <1>2, <1>4, <1>5, <1>6, <1>7, <1>8
     DEF Next, Task, NetReceive, MaskedEdge

(* The clip to 0xFFFF in the edge interrupt never changes an interval of a *)
(* capture that no flash save interrupted.                                 *)
THEOREM IntervalsAreNeverClipped == Spec => []IntervalsFit
<1>1. WidthInv => IntervalsFit
  BY DEF WidthInv
<1>. QED BY <1>1, TypeCorrect, InitWidthInv, StepWidthInv, PTL DEF Spec

-----------------------------------------------------------------------------
(* Frame counts.  A buffer has no more intervals than it has room for, so  *)
(* that the count of a capture that is not truncated stays below 0xFFFF.   *)

Gaps(p)  == {i \in DOMAIN p : p[i] >= FrameGap}
Counted(c) ==
  /\ Len(c.pulses) <= MaxPulses
  /\ IF c.trunc THEN c.frames > Cardinality(Gaps(c.pulses))
     ELSE c.frames = Cardinality(Gaps(c.pulses)) + 1
GapInv == \A b \in Ring : Counted(buf[b])

LEMMA GapsAreFew ==
  ASSUME NEW p \in Seq(0 .. U16Max)
  PROVE  /\ IsFiniteSet(Gaps(p)) /\ Cardinality(Gaps(p)) \in Nat
         /\ Cardinality(Gaps(p)) <= Len(p)
<1>1. Len(p) \in Nat /\ DOMAIN p = 1 .. Len(p)
  OBVIOUS
<1>2. IsFiniteSet(1 .. Len(p)) /\ Cardinality(1 .. Len(p)) = Len(p)
  BY <1>1, OneToN
<1>3. Gaps(p) \in SUBSET (1 .. Len(p))
  BY <1>1 DEF Gaps
<1>4. IsFiniteSet(Gaps(p)) /\ Cardinality(Gaps(p)) <= Cardinality(1 .. Len(p))
  BY <1>2, <1>3, FS_Subset
<1>5. Cardinality(Gaps(p)) \in Nat
  BY <1>4, FS_CardinalityType
<1>. QED BY <1>2, <1>4, <1>5

(* One more interval is one more gap if it is long enough.                 *)
LEMMA GapsOfAppend ==
  ASSUME NEW p \in Seq(0 .. U16Max), NEW g \in 0 .. U16Max
  PROVE  Cardinality(Gaps(Append(p, g))) =
           IF g >= FrameGap THEN Cardinality(Gaps(p)) + 1 ELSE Cardinality(Gaps(p))
<1>. DEFINE q == Append(p, g)
<1>1. /\ Len(p) \in Nat /\ DOMAIN p = 1 .. Len(p) /\ DOMAIN q = 1 .. Len(p) + 1
      /\ q[Len(p) + 1] = g /\ \A i \in 1 .. Len(p) : q[i] = p[i]
  BY AppendProperties, LenProperties
<1>. HIDE DEF q
<1>2. IsFiniteSet(Gaps(p)) /\ Len(p) + 1 \notin Gaps(p)
  <2>1. IsFiniteSet(Gaps(p))
    BY GapsAreFew
  <2>2. Len(p) + 1 \notin DOMAIN p
    BY <1>1
  <2>. QED BY <2>1, <2>2 DEF Gaps
<1>3. CASE g >= FrameGap
  <2>1. Gaps(q) = Gaps(p) \cup {Len(p) + 1}
    BY <1>1, <1>3 DEF Gaps
  <2>2. Cardinality(Gaps(p) \cup {Len(p) + 1}) = Cardinality(Gaps(p)) + 1
    BY <1>2, FS_AddElement
  <2>. QED BY <1>3, <2>1, <2>2 DEF q
<1>4. CASE ~(g >= FrameGap)
  <2>1. Gaps(q) = Gaps(p)
    BY <1>1, <1>4 DEF Gaps
  <2>. QED BY <1>4, <2>1 DEF q
<1>. QED BY <1>3, <1>4

LEMMA EmptyIsCounted ==
  ASSUME NEW c, c.pulses = <<>>, c.frames = 1, c.trunc = FALSE
  PROVE  Counted(c)
<1>1. Gaps(<<>>) = {} /\ Len(<<>>) = 0
  BY EmptySeq DEF Gaps
<1>2. Cardinality({}) = 0
  BY FS_EmptySet
<1>3. Cardinality(Gaps(c.pulses)) = 0 /\ Len(c.pulses) = 0
  BY <1>1, <1>2
<1>4. 0 <= MaxPulses
  BY CaptureConstants
<1>. QED BY <1>3, <1>4 DEF Counted

LEMMA InitGapInv == Init => GapInv
<1>. SUFFICES ASSUME Init, NEW b \in Ring PROVE Counted(buf[b])
  BY DEF GapInv
<1>1. buf[b] = Empty
  BY DEF Init
<1>. QED BY <1>1, EmptyIsCounted DEF Empty

LEMMA RecordEdgeCounts ==
  ASSUME TypeOK, GapInv, RecordEdge
  PROVE  GapInv'
<1>. DEFINE c    == buf[active]
            full == Len(c.pulses) >= MaxPulses
            gap  == IF since > U16Max THEN U16Max ELSE since
            d    == buf'[active]
<1>1. c \in Capture /\ active \in Ring /\ since \in Nat /\ Counted(c)
  BY Constants DEF TypeOK, GapInv
<1>2. /\ d.frames = IF since >= FrameGap /\ c.frames < U16Max THEN c.frames + 1 ELSE c.frames
      /\ d.pulses = IF full THEN c.pulses ELSE Append(c.pulses, gap)
      /\ d.trunc = (c.trunc \/ full)
      /\ \A b \in Ring \ {active} : buf'[b] = buf[b]
  BY <1>1 DEF RecordEdge, TypeOK, Capture
<1>3. /\ c.pulses \in Seq(0 .. U16Max) /\ gap \in 0 .. U16Max /\ c.frames \in 1 .. U16Max
      /\ c.trunc \in BOOLEAN /\ (gap >= FrameGap <=> since >= FrameGap)
  BY <1>1, CaptureConstants, Constants DEF Capture
<1>. HIDE DEF c, gap
<1>. DEFINE k == Cardinality(Gaps(c.pulses))
<1>4. k \in Nat /\ k <= Len(c.pulses) /\ Len(c.pulses) \in Nat /\ MaxPulses \in Nat
      /\ MaxPulses < U16Max /\ U16Max \in Nat
  BY <1>3, GapsAreFew, CaptureConstants, Constants
<1>5. CASE full
  <2>1. d.pulses = c.pulses /\ d.trunc /\ c.frames \in Nat
    <3>1. d.pulses = c.pulses
      BY <1>2, <1>5
    <3>2. d.trunc
      BY <1>2, <1>5, Zenon
    <3>3. c.frames \in Nat
      BY <1>3, Constants
    <3>. QED BY <3>1, <3>2, <3>3
  <2>2. c.frames > k
    BY <1>1, <1>3, <1>4, <2>1 DEF Counted
  <2>3. d.frames = c.frames \/ d.frames = c.frames + 1
    BY <1>2
  <2>. HIDE DEF d, k
  <2>4. d.frames > k
    BY <1>4, <2>1, <2>2, <2>3
  <2>5. Counted(d)
    BY <1>1, <2>1, <2>4 DEF Counted, k
  <2>. QED BY <1>2, <2>5 DEF GapInv, d
<1>6. CASE ~full
  <2>1. /\ d.pulses = Append(c.pulses, gap) /\ Len(d.pulses) = Len(c.pulses) + 1
        /\ (d.trunc <=> c.trunc)
    BY <1>2, <1>3, <1>6, AppendIs
  <2>2. Cardinality(Gaps(d.pulses)) = IF gap >= FrameGap THEN k + 1 ELSE k
    BY <1>3, <2>1, GapsOfAppend
  <2>3. k + 1 <= MaxPulses /\ Len(d.pulses) <= MaxPulses
    BY <1>4, <1>6, <2>1
  <2>4. d.frames = IF gap >= FrameGap /\ c.frames < U16Max THEN c.frames + 1 ELSE c.frames
    BY <1>2, <1>3
  <2>. HIDE DEF d, k
  <2>5. IF c.trunc THEN c.frames > k ELSE c.frames = k + 1
    BY <1>1 DEF Counted, k
  <2>6. IF d.trunc THEN d.frames > Cardinality(Gaps(d.pulses))
        ELSE d.frames = Cardinality(Gaps(d.pulses)) + 1
    BY <1>3, <1>4, <2>1, <2>2, <2>3, <2>4, <2>5
  <2>7. Counted(d)
    BY <2>3, <2>6 DEF Counted
  <2>. QED BY <1>2, <2>7 DEF GapInv, d
<1>. QED BY <1>5, <1>6

LEMMA StepGapInv == TypeOK /\ GapInv /\ [Next]_vars => GapInv'
<1>. SUFFICES ASSUME TypeOK, GapInv, [Next]_vars PROVE GapInv'
  OBVIOUS
<1>. USE DEF isrVars, taskVars, maskVars, vars
<1>1. CASE UNCHANGED buf
  BY <1>1 DEF GapInv, Counted
<1>2. CASE Edge
  <2>1. CASE StartCapture
    <3>. DEFINE f == FindFree(active, busy)
                e == [Empty EXCEPT !.hit = pending]
    <3>1. f \in Ring /\ buf' = [buf EXCEPT ![f] = e]
      BY <2>1, FindFreeFindsFree DEF StartCapture, TypeOK
    <3>2. e.pulses = <<>> /\ e.frames = 1 /\ e.trunc = FALSE
      BY DEF Empty
    <3>. HIDE DEF f, e
    <3>3. Counted(e)
      BY <3>2, EmptyIsCounted
    <3>4. \A b \in Ring : buf'[b] = IF b = f THEN e ELSE buf[b]
      BY <3>1 DEF TypeOK
    <3>. QED BY <3>3, <3>4 DEF GapInv
  <2>2. CASE RecordEdge
    BY <2>2, RecordEdgeCounts
  <2>3. CASE DropEdge \/ RefuseCapture \/ Glitch
    BY <1>1, <2>3 DEF DropEdge, RefuseCapture, Glitch
  <2>. QED BY <1>2, <2>1, <2>2, <2>3 DEF Edge
<1>3. CASE Mask
  <2>1. \A b \in Ring : /\ buf'[b].pulses = buf[b].pulses /\ buf'[b].frames = buf[b].frames
                        /\ buf'[b].trunc = buf[b].trunc
    BY <1>3 DEF Mask, TypeOK, Capture
  <2>. QED BY <2>1 DEF GapInv, Counted
<1>4. CASE Tick \/ Alarm \/ Task \/ NetReceive \/ MaskedEdge \/ Unmask \/ UNCHANGED vars
  BY <1>1, <1>4 DEF Tick, Alarm, NothingToEnd, EndDrop, EndEmpty, HandOver, Task, NetReceive,
                    MaskedEdge, Unmask
<1>. QED BY <1>2, <1>3, <1>4 DEF Next

(* frame_count is one more than the gaps recorded in the pulses, for every *)
(* buffer at every moment, and more than them once the capture is          *)
(* truncated: the cap at 0xFFFF never bites (gpio_edge_isr).               *)
THEOREM FrameCountsMatch == Spec => []FramesMatchGaps
<1>1. GapInv => FramesMatchGaps
  BY DEF GapInv, Counted, FramesMatchGaps, Gaps
<1>. QED BY <1>1, InitTypeOK, StepTypeOK, InitGapInv, StepGapInv, PTL DEF Spec

-----------------------------------------------------------------------------
(* Sums.  That SumOf is what its definition says, and what it is of a      *)
(* sequence with one more element, by least counterexamples: a function on *)
(* the sequences up to a length extends to those that are longer by one.   *)

Sums(f, D) == f = [s \in D |-> IF s = <<>> THEN 0 ELSE Head(s) + f[Tail(s)]]
UpTo(m)    == {s \in Seq(Nat) : Len(s) <= m}

LEMMA TailOfNats ==
  ASSUME NEW s \in Seq(Nat), s # <<>>
  PROVE  /\ Tail(s) \in Seq(Nat) /\ Head(s) \in Nat /\ Len(s) \in Nat \ {0}
         /\ Len(Tail(s)) = Len(s) - 1
BY TailIs

LEMMA SumsOn ==
  ASSUME NEW f, NEW D, Sums(f, D), NEW s \in D
  PROVE  f[s] = IF s = <<>> THEN 0 ELSE Head(s) + f[Tail(s)]
<1>. DEFINE F == [u \in D |-> IF u = <<>> THEN 0 ELSE Head(u) + f[Tail(u)]]
<1>1. f = F
  BY DEF Sums
<1>2. F[s] = IF s = <<>> THEN 0 ELSE Head(s) + f[Tail(s)]
  OBVIOUS
<1>. HIDE DEF F
<1>. QED BY <1>1, <1>2

LEMMA SumsExtend ==
  ASSUME NEW m \in Nat, NEW g, Sums(g, UpTo(m))
  PROVE  \E f : Sums(f, UpTo(m + 1))
<1>. DEFINE f == [s \in UpTo(m + 1) |-> IF s = <<>> THEN 0 ELSE Head(s) + g[Tail(s)]]
<1>1. ASSUME NEW s \in UpTo(m + 1), s # <<>>
      PROVE  Tail(s) \in UpTo(m) /\ Tail(s) \in UpTo(m + 1) /\ Tail(s) \in Seq(Nat)
  <2>1. s \in Seq(Nat) /\ Len(s) <= m + 1
    BY DEF UpTo
  <2>2. Tail(s) \in Seq(Nat) /\ Len(s) \in Nat /\ Len(Tail(s)) = Len(s) - 1
    BY <1>1, <2>1, TailOfNats
  <2>3. Len(Tail(s)) <= m /\ Len(Tail(s)) <= m + 1
    BY <2>1, <2>2
  <2>. QED BY <2>2, <2>3 DEF UpTo
<1>2. ASSUME NEW s \in UpTo(m + 1), s # <<>> PROVE f[Tail(s)] = g[Tail(s)]
  <2>1. Tail(s) \in UpTo(m) /\ Tail(s) \in UpTo(m + 1)
    BY <1>1, <1>2
  <2>2. f[Tail(s)] = IF Tail(s) = <<>> THEN 0 ELSE Head(Tail(s)) + g[Tail(Tail(s))]
    BY <2>1
  <2>3. g[Tail(s)] = IF Tail(s) = <<>> THEN 0 ELSE Head(Tail(s)) + g[Tail(Tail(s))]
    BY <2>1, SumsOn
  <2>. QED BY <2>2, <2>3
<1>3. f = [s \in UpTo(m + 1) |-> IF s = <<>> THEN 0 ELSE Head(s) + f[Tail(s)]]
  <2>. DEFINE h == [s \in UpTo(m + 1) |-> IF s = <<>> THEN 0 ELSE Head(s) + f[Tail(s)]]
  <2>1. \A s \in UpTo(m + 1) : f[s] = h[s]
    BY <1>2
  <2>2. f = [s \in UpTo(m + 1) |-> f[s]] /\ h = [s \in UpTo(m + 1) |-> h[s]]
    OBVIOUS
  <2>. HIDE DEF f, h
  <2>3. f = h
    BY <2>1, <2>2
  <2>. QED BY <2>3 DEF h
<1>. HIDE DEF f
<1>. QED BY <1>3 DEF Sums

LEMMA SumsExist == ASSUME NEW m \in Nat PROVE \E f : Sums(f, UpTo(m))
<1>. DEFINE T == {k \in Nat : ~\E f : Sums(f, UpTo(k))}
<1>. SUFFICES ASSUME T # {} PROVE FALSE
  OBVIOUS
<1>1. T \in SUBSET Nat
  OBVIOUS
<1>. DEFINE k == Min(T)
<1>2. k \in T /\ \A j \in T : k <= j
  <2>. HIDE DEF T
  <2>. QED BY <1>1, LeastElement
<1>. HIDE DEF k
<1>3. k \in Nat /\ ~\E f : Sums(f, UpTo(k))
  BY <1>2
<1>4. CASE k = 0
  <2>. DEFINE f == [s \in UpTo(0) |-> 0]
  <2>1. \A s \in UpTo(0) : s = <<>>
    <3>. SUFFICES ASSUME NEW s \in Seq(Nat), Len(s) <= 0 PROVE s = <<>>
      BY DEF UpTo
    <3>1. Len(s) = 0
      OBVIOUS
    <3>. QED BY <3>1, EmptySeq
  <2>2. f = [s \in UpTo(0) |-> IF s = <<>> THEN 0 ELSE Head(s) + f[Tail(s)]]
    BY <2>1
  <2>. HIDE DEF f
  <2>3. Sums(f, UpTo(0))
    BY <2>2 DEF Sums
  <2>. QED BY <1>3, <1>4, <2>3
<1>5. CASE k # 0
  <2>1. k - 1 \in Nat /\ (k - 1) + 1 = k /\ ~(k <= k - 1)
    BY <1>3, <1>5
  <2>2. k - 1 \notin T
    BY <1>2, <2>1
  <2>3. PICK g : Sums(g, UpTo(k - 1))
    BY <2>1, <2>2
  <2>4. \E f : Sums(f, UpTo((k - 1) + 1))
    BY <2>1, <2>3, SumsExtend
  <2>. QED BY <1>3, <2>1, <2>4
<1>. QED BY <1>4, <1>5

(* Two of them agree where both are defined.                               *)
LEMMA SumsAgree ==
  ASSUME NEW m \in Nat, NEW k \in Nat, m <= k,
         NEW f, Sums(f, UpTo(m)), NEW g, Sums(g, UpTo(k))
  PROVE  \A s \in UpTo(m) : f[s] = g[s]
<1>. DEFINE T == {l \in Nat : \E s \in UpTo(m) : Len(s) = l /\ f[s] # g[s]}
<1>. SUFFICES ASSUME T # {} PROVE FALSE
  <2>1. \A s \in UpTo(m) : Len(s) \in Nat
    BY DEF UpTo
  <2>. QED BY <2>1
<1>1. T \in SUBSET Nat
  OBVIOUS
<1>. DEFINE l == Min(T)
<1>2. l \in T /\ \A j \in T : l <= j
  <2>. HIDE DEF T
  <2>. QED BY <1>1, LeastElement
<1>. HIDE DEF l
<1>3. PICK s \in UpTo(m) : Len(s) = l /\ f[s] # g[s]
  BY <1>2
<1>4. s \in UpTo(k) /\ s \in Seq(Nat) /\ Len(s) <= m /\ Len(s) \in Nat
  BY <1>3 DEF UpTo
<1>5. /\ f[s] = IF s = <<>> THEN 0 ELSE Head(s) + f[Tail(s)]
      /\ g[s] = IF s = <<>> THEN 0 ELSE Head(s) + g[Tail(s)]
  BY <1>3, <1>4, SumsOn
<1>6. s # <<>> /\ f[Tail(s)] # g[Tail(s)]
  BY <1>3, <1>5
<1>7. Tail(s) \in UpTo(m) /\ Len(Tail(s)) \in Nat /\ ~(l <= Len(Tail(s)))
  <2>1. Tail(s) \in Seq(Nat) /\ Len(Tail(s)) = Len(s) - 1 /\ Len(Tail(s)) \in Nat
    BY <1>4, <1>6, TailOfNats
  <2>2. Len(Tail(s)) <= m
    BY <1>4, <2>1
  <2>. QED BY <1>3, <1>4, <2>1, <2>2 DEF UpTo
<1>8. Len(Tail(s)) \in T
  BY <1>6, <1>7
<1>. QED BY <1>2, <1>7, <1>8

LEMMA SumOfIs ==
  ASSUME NEW s \in Seq(Nat)
  PROVE  SumOf[s] = IF s = <<>> THEN 0 ELSE Head(s) + SumOf[Tail(s)]
<1>. DEFINE G(m) == CHOOSE f : Sums(f, UpTo(m))
            F    == [u \in Seq(Nat) |-> G(Len(u))[u]]
<1>1. \A m \in Nat : Sums(G(m), UpTo(m))
  BY SumsExist
<1>. HIDE DEF G
<1>2. ASSUME NEW u \in Seq(Nat)
      PROVE  F[u] = IF u = <<>> THEN 0 ELSE Head(u) + F[Tail(u)]
  <2>1. Len(u) \in Nat /\ u \in UpTo(Len(u)) /\ F[u] = G(Len(u))[u]
    BY DEF UpTo
  <2>2. G(Len(u))[u] = IF u = <<>> THEN 0 ELSE Head(u) + G(Len(u))[Tail(u)]
    BY <1>1, <2>1, SumsOn
  <2>3. CASE u = <<>>
    BY <2>1, <2>2, <2>3
  <2>4. CASE u # <<>>
    <3>1. Tail(u) \in Seq(Nat) /\ Len(Tail(u)) = Len(u) - 1 /\ Len(u) \in Nat \ {0}
      BY <2>4, TailOfNats
    <3>. DEFINE m == Len(Tail(u))
                k == Len(u)
                t == Tail(u)
    <3>2. m \in Nat /\ k \in Nat /\ m <= k /\ t \in UpTo(m)
      BY <3>1 DEF UpTo
    <3>3. F[t] = G(m)[t]
      BY <3>1
    <3>4. Sums(G(m), UpTo(m)) /\ Sums(G(k), UpTo(k))
      BY <1>1, <3>2
    <3>. HIDE DEF m, k, t
    <3>5. G(m)[t] = G(k)[t]
      BY <3>2, <3>4, SumsAgree
    <3>6. G(Len(u))[Tail(u)] = F[Tail(u)]
      BY <3>3, <3>5 DEF m, k, t
    <3>. QED BY <2>1, <2>2, <2>4, <3>6
  <2>. QED BY <2>3, <2>4
<1>3. F = [u \in Seq(Nat) |-> IF u = <<>> THEN 0 ELSE Head(u) + F[Tail(u)]]
  <2>. DEFINE H == [u \in Seq(Nat) |-> IF u = <<>> THEN 0 ELSE Head(u) + F[Tail(u)]]
  <2>1. \A u \in Seq(Nat) : F[u] = H[u]
    BY <1>2
  <2>2. F = [u \in Seq(Nat) |-> F[u]] /\ H = [u \in Seq(Nat) |-> H[u]]
    OBVIOUS
  <2>. HIDE DEF F, H
  <2>3. F = H
    BY <2>1, <2>2
  <2>. QED BY <2>3 DEF H
<1>. HIDE DEF F
<1>4. \E f : f = [u \in Seq(Nat) |-> IF u = <<>> THEN 0 ELSE Head(u) + f[Tail(u)]]
  BY <1>3
<1>5. SumOf = [u \in Seq(Nat) |-> IF u = <<>> THEN 0 ELSE Head(u) + SumOf[Tail(u)]]
  BY <1>4 DEF SumOf
<1>6. Sums(SumOf, Seq(Nat))
  BY <1>5 DEF Sums
<1>. QED BY <1>6, SumsOn

LEMMA EndsOfAppend ==
  ASSUME NEW u \in Seq(Nat), NEW x \in Nat
  PROVE  /\ Append(u, x) \in Seq(Nat) /\ Append(u, x) # <<>>
         /\ Head(Append(u, x)) = IF u = <<>> THEN x ELSE Head(u)
         /\ Tail(Append(u, x)) = IF u = <<>> THEN <<>> ELSE Append(Tail(u), x)
<1>1. Append(u, x) \in Seq(Nat) /\ Append(u, x) # <<>>
  BY AppendProperties
<1>. QED BY <1>1, HeadTailAppend

LEMMA SumOfAppend ==
  ASSUME NEW s \in Seq(Nat), NEW x \in Nat
  PROVE  SumOf[s] \in Nat /\ SumOf[Append(s, x)] = SumOf[s] + x
<1>. DEFINE Right(u) == SumOf[u] \in Nat /\ SumOf[Append(u, x)] = SumOf[u] + x
            T == {l \in Nat : \E u \in Seq(Nat) : Len(u) = l /\ ~Right(u)}
<1>. SUFFICES ASSUME T # {} PROVE FALSE
  <2>1. Len(s) \in Nat
    OBVIOUS
  <2>. QED BY <2>1
<1>1. T \in SUBSET Nat
  OBVIOUS
<1>. DEFINE l == Min(T)
<1>2. l \in T /\ \A j \in T : l <= j
  <2>. HIDE DEF T
  <2>. QED BY <1>1, LeastElement
<1>. HIDE DEF l
<1>3. PICK u \in Seq(Nat) : Len(u) = l /\ ~Right(u)
  BY <1>2
<1>4. /\ Append(u, x) \in Seq(Nat) /\ Append(u, x) # <<>>
      /\ Head(Append(u, x)) = IF u = <<>> THEN x ELSE Head(u)
      /\ Tail(Append(u, x)) = IF u = <<>> THEN <<>> ELSE Append(Tail(u), x)
  BY EndsOfAppend
<1>5. SumOf[Append(u, x)] = Head(Append(u, x)) + SumOf[Tail(Append(u, x))]
  BY <1>4, SumOfIs
<1>6. CASE u = <<>>
  <2>1. SumOf[<<>>] = 0
    BY SumOfIs, EmptySeq
  <2>2. SumOf[Append(u, x)] = x + 0
    BY <1>4, <1>5, <1>6, <2>1
  <2>. QED BY <1>3, <1>6, <2>1, <2>2
<1>7. CASE u # <<>>
  <2>1. /\ Tail(u) \in Seq(Nat) /\ Head(u) \in Nat /\ Len(u) \in Nat \ {0}
        /\ Len(Tail(u)) = Len(u) - 1
    BY <1>7, TailOfNats
  <2>2. Len(Tail(u)) \in Nat /\ ~(l <= Len(Tail(u)))
    BY <1>3, <2>1
  <2>3. Right(Tail(u))
    BY <1>2, <2>1, <2>2
  <2>4. SumOf[u] = Head(u) + SumOf[Tail(u)]
    BY <1>7, SumOfIs
  <2>5. SumOf[Append(u, x)] = Head(u) + (SumOf[Tail(u)] + x)
    BY <1>4, <1>5, <1>7, <2>3
  <2>6. SumOf[Tail(u)] \in Nat
    BY <2>3
  <2>7. Right(u)
    BY <2>1, <2>4, <2>5, <2>6
  <2>. QED BY <1>3, <2>7
<1>. QED BY <1>6, <1>7

-----------------------------------------------------------------------------
(* Timebase is inductive together with the types and WidthInv, which keeps *)
(* both the clip and the saturation of since away from it.                 *)

LEMMA InitTimebase == Init => Timebase
BY DEF Init, Timebase

LEMMA StepTimebase == TypeOK /\ WidthInv /\ Timebase /\ [Next]_vars => Timebase'
<1>. SUFFICES ASSUME TypeOK, WidthInv, Timebase, [Next]_vars,
                     st' = "capturing", ~buf'[active'].trunc, ~buf'[active'].hit
              PROVE  SumOf[buf'[active'].pulses] + since' = age'
  BY DEF Timebase
<1>. USE DEF isrVars, taskVars, maskVars, vars
<1>1. /\ active \in Ring /\ since \in Nat /\ age \in Nat /\ buf[active] \in Capture
      /\ buf[active].pulses \in Seq(Nat) /\ SumOf[buf[active].pulses] \in Nat
  <2>1. /\ active \in Ring /\ since \in Nat /\ age \in Nat /\ buf[active] \in Capture
        /\ buf[active].pulses \in Seq(0 .. U16Max)
    BY Constants DEF TypeOK, Capture
  <2>2. buf[active].pulses \in Seq(Nat)
    BY <2>1, Constants
  <2>3. SumOf[buf[active].pulses] \in Nat
    BY <2>2, SumOfAppend
  <2>. QED BY <2>1, <2>2, <2>3
<1>2. CASE UNCHANGED <<st, active, buf, since, age>>
  BY <1>2 DEF Timebase
<1>3. st = "capturing" /\ ~buf[active].trunc /\ ~buf[active].hit =>
        since <= U16Max /\ SumOf[buf[active].pulses] + since = age
  <2>1. st = "capturing" /\ ~buf[active].hit => since <= U16Max
    <3>1. alarmIn \in Nat
      BY DEF TypeOK
    <3>. QED BY <1>1, <3>1, Constants DEF WidthInv, AlarmComesFirst
  <2>. QED BY <2>1 DEF Timebase
<1>4. CASE Tick
  <2>1. st = "capturing" /\ ~buf[active].trunc /\ ~buf[active].hit /\ buf' = buf /\ active' = active
    BY <1>4 DEF Tick
  <2>2. since' = since + 1 /\ age' = age + 1
    BY <1>1, <1>3, <1>4, <2>1, Constants DEF Tick
  <2>. QED BY <1>1, <1>3, <2>1, <2>2
<1>5. CASE Edge
  <2>1. CASE DropEdge \/ RefuseCapture
    BY <2>1 DEF DropEdge, RefuseCapture
  <2>2. CASE Glitch
    BY <1>2, <2>2 DEF Glitch
  <2>3. CASE StartCapture
    <3>. DEFINE f == FindFree(active, busy)
                e == [Empty EXCEPT !.hit = pending]
    <3>1. f \in Ring /\ buf' = [buf EXCEPT ![f] = e] /\ active' = f /\ since' = 0 /\ age' = 0
      BY <2>3, FindFreeFindsFree DEF StartCapture, TypeOK
    <3>2. e.pulses = <<>>
      BY DEF Empty
    <3>. HIDE DEF f, e
    <3>3. buf'[active'].pulses = <<>>
      BY <3>1, <3>2 DEF TypeOK
    <3>4. SumOf[<<>>] = 0
      BY SumOfIs, EmptySeq
    <3>. QED BY <3>1, <3>3, <3>4
  <2>4. CASE RecordEdge
    <3>. DEFINE c    == buf[active]
                full == Len(c.pulses) >= MaxPulses
                gap  == IF since > U16Max THEN U16Max ELSE since
    <3>1. /\ st = "capturing" /\ active' = active /\ since' = 0
          /\ age' = IF full THEN 0 ELSE age
          /\ buf'[active].pulses = IF full THEN c.pulses ELSE Append(c.pulses, gap)
          /\ buf'[active].trunc = (c.trunc \/ full)
          /\ buf'[active].hit = c.hit
      BY <1>1, <2>4 DEF RecordEdge, TypeOK, Capture
    <3>2. ~full /\ ~c.trunc /\ ~c.hit
      BY <3>1, Zenon
    <3>3. gap = since /\ SumOf[c.pulses] + since = age
      BY <1>1, <1>3, <3>1, <3>2, Constants
    <3>4. buf'[active].pulses = Append(c.pulses, since) /\ age' = age
      BY <3>1, <3>2, <3>3
    <3>5. SumOf[Append(c.pulses, since)] = SumOf[c.pulses] + since
      BY <1>1, SumOfAppend
    <3>6. buf'[active'].pulses = Append(c.pulses, since)
      BY <3>1, <3>4
    <3>7. SumOf[buf'[active'].pulses] = age'
      BY <3>3, <3>4, <3>5, <3>6
    <3>8. age' + 0 = age'
      BY <1>1, <3>4
    <3>. QED BY <3>1, <3>7, <3>8
  <2>. QED BY <1>5, <2>1, <2>2, <2>3, <2>4 DEF Edge
<1>6. CASE Alarm
  BY <1>2, <1>6 DEF Alarm, NothingToEnd, EndDrop, EndEmpty, HandOver
<1>7. CASE Mask
  <2>1. st = "capturing" /\ active' = active /\ buf' = [buf EXCEPT ![active].hit = TRUE]
    BY <1>7 DEF Mask
  <2>2. buf'[active].hit
    BY <1>1, <2>1 DEF TypeOK, Capture
  <2>. QED BY <2>1, <2>2
<1>8. CASE Task \/ NetReceive \/ MaskedEdge \/ Unmask \/ UNCHANGED vars
  <2>1. CASE UNCHANGED isrVars /\ since' = since
    BY <1>2, <2>1
  <2>. QED BY <1>8, <2>1 DEF Task, NetReceive, MaskedEdge, Unmask
<1>. QED BY <1>4, <1>5, <1>6, <1>7, <1>8 DEF Next

(* The intervals of a capture and the time since its last edge add up to   *)
(* the time since its first, however many spikes were absorbed: what is    *)
(* recorded replays in real time (ir_capture.cpp, gpio_edge_isr).          *)
THEOREM RecordingsKeepTime == Spec => []Timebase
BY InitTypeOK, StepTypeOK, InitWidthInv, StepWidthInv, InitTimebase, StepTimebase, PTL DEF Spec

-----------------------------------------------------------------------------
(* The refinement of CaptureFifo.  What is queued is untouched while it is *)
(* busy (OneOwner), and what the task sends is what it found in its buffer *)
(* (CopyInv).                                                              *)

CopyInv == /\ pc = "copy" => n = Len(buf[idx].pulses)
           /\ pc = "free" => msg = buf[idx]

Middle == IF Held THEN <<buf[idx]>> ELSE IF pc = "wait" THEN <<>> ELSE <<msg>>
Queued == [i \in DOMAIN readyQ |-> buf[readyQ[i]]]

LEMMA TailOfConcat ==
  ASSUME NEW S, NEW s \in Seq(S), NEW t \in Seq(S), s # <<>>
  PROVE  s \o t # <<>> /\ Tail(s \o t) = Tail(s) \o t
<1>1. /\ Tail(s) \in Seq(S) /\ Len(s) \in Nat \ {0} /\ Len(Tail(s)) = Len(s) - 1
      /\ \A i \in 1 .. Len(s) - 1 : Tail(s)[i] = s[i + 1]
      /\ Len(t) \in Nat
  BY TailIs
<1>2. /\ s \o t \in Seq(S) /\ Len(s \o t) = Len(s) + Len(t)
      /\ \A i \in 1 .. Len(s) + Len(t) : (s \o t)[i] = IF i <= Len(s) THEN s[i] ELSE t[i - Len(s)]
  BY ConcatProperties
<1>3. s \o t # <<>>
  BY ConcatEqualIffEmpty
<1>4. /\ Tail(s \o t) \in Seq(S) /\ Len(Tail(s \o t)) = Len(s \o t) - 1
      /\ \A i \in 1 .. Len(s \o t) - 1 : Tail(s \o t)[i] = (s \o t)[i + 1]
  BY <1>2, <1>3, TailIs
<1>5. /\ Tail(s) \o t \in Seq(S) /\ Len(Tail(s) \o t) = Len(Tail(s)) + Len(t)
      /\ \A i \in 1 .. Len(Tail(s)) + Len(t) : (Tail(s) \o t)[i] =
           IF i <= Len(Tail(s)) THEN Tail(s)[i] ELSE t[i - Len(Tail(s))]
  BY <1>1, ConcatProperties
<1>. DEFINE u == Tail(s \o t)
            v == Tail(s) \o t
<1>6. Len(u) = Len(v) /\ Len(u) = Len(s) + Len(t) - 1
  BY <1>1, <1>2, <1>4, <1>5
<1>7. ASSUME NEW i \in 1 .. Len(u) PROVE u[i] = v[i]
  <2>1. u[i] = IF i + 1 <= Len(s) THEN s[i + 1] ELSE t[(i + 1) - Len(s)]
    BY <1>1, <1>2, <1>4, <1>6
  <2>2. v[i] = IF i <= Len(s) - 1 THEN Tail(s)[i] ELSE t[i - (Len(s) - 1)]
    BY <1>1, <1>5, <1>6
  <2>3. CASE i <= Len(s) - 1
    BY <1>1, <1>6, <2>1, <2>2, <2>3
  <2>4. CASE ~(i <= Len(s) - 1)
    <3>1. ~(i + 1 <= Len(s)) /\ (i + 1) - Len(s) = i - (Len(s) - 1)
      BY <1>1, <1>6, <2>4
    <3>. QED BY <2>1, <2>2, <2>4, <3>1
  <2>. QED BY <2>3, <2>4
<1>8. u \in Seq(S) /\ v \in Seq(S)
  BY <1>4, <1>5
<1>. HIDE DEF u, v
<1>9. u = v
  BY <1>6, <1>7, <1>8, SeqEqual
<1>. QED BY <1>3, <1>9 DEF u, v

LEMMA HeadAndTail ==
  ASSUME NEW S, NEW s \in Seq(S), s # <<>>
  PROVE  <<Head(s)>> \o Tail(s) = s
<1>1. Len(s) \in Nat \ {0} /\ Head(s) = s[1] /\ Tail(s) = SubSeq(s, 2, Len(s))
  BY TailIs, TailIsSubSeq
<1>2. SubSeq(s, 1, Len(s)) = s
  BY SubSeqFull
<1>3. 1 \in 1 .. Len(s) /\ Len(s) \in 1 .. Len(s)
  BY <1>1
<1>4. SubSeq(s, 1, Len(s)) = <<s[1]>> \o SubSeq(s, 1 + 1, Len(s))
  BY <1>3, SubSeqRecursiveFirst
<1>. QED BY <1>1, <1>2, <1>4

(* A sequence with one more element at its end is one that Finish makes.   *)
LEMMA AppendExtends ==
  ASSUME NEW S, NEW s \in Seq(S), NEW e \in S
  PROVE  Len(Append(s, e)) = Len(s) + 1 /\ SubSeq(Append(s, e), 1, Len(s)) = s
<1>. DEFINE a == Append(s, e)
            u == SubSeq(a, 1, Len(s))
<1>1. /\ Len(a) = Len(s) + 1 /\ Len(s) \in Nat /\ \A i \in 1 .. Len(s) : a[i] = s[i]
  BY AppendIs
<1>2. \A i \in 1 .. Len(s) : a[i] \in S
  BY <1>1, ElementOfSeq
<1>. HIDE DEF a
<1>3. /\ u \in Seq(S) /\ Len(u) = (IF 1 <= Len(s) THEN Len(s) - 1 + 1 ELSE 0)
      /\ \A i \in 1 .. Len(s) - 1 + 1 : u[i] = a[1 + i - 1]
  BY <1>1, <1>2, SubSeqProperties
<1>. HIDE DEF u
<1>4. Len(u) = Len(s) /\ \A i \in 1 .. Len(u) : u[i] = s[i]
  <2>1. Len(u) = Len(s)
    BY <1>1, <1>3
  <2>2. \A i \in 1 .. Len(s) : i \in 1 .. Len(s) - 1 + 1 /\ 1 + i - 1 = i
    BY <1>1
  <2>. QED BY <1>1, <1>3, <2>1, <2>2
<1>5. u = s
  BY <1>3, <1>4, SeqEqual
<1>. QED BY <1>1, <1>5 DEF a, u

LEMMA WaitingIs ==
  ASSUME TypeOK
  PROVE  /\ outQ \in Seq(Capture) /\ Middle \in Seq(Capture) /\ Queued \in Seq(Capture)
         /\ Len(Queued) = Len(readyQ) /\ \A i \in 1 .. Len(readyQ) : Queued[i] = buf[readyQ[i]]
         /\ Waiting = outQ \o (Middle \o Queued)
<1>1. outQ \in Seq(Capture) /\ msg \in Capture /\ buf[idx] \in Capture /\ readyQ \in Seq(Ring)
  BY DEF TypeOK
<1>2. Middle \in Seq(Capture)
  <2>1. <<msg>> \in Seq(Capture) /\ <<buf[idx]>> \in Seq(Capture) /\ <<>> \in Seq(Capture)
    BY <1>1, EmptySeq
  <2>. QED BY <2>1 DEF Middle
<1>3. Len(readyQ) \in Nat /\ DOMAIN readyQ = 1 .. Len(readyQ)
  BY <1>1, LenProperties
<1>4. \A i \in 1 .. Len(readyQ) : readyQ[i] \in Ring /\ buf[readyQ[i]] \in Capture
  BY <1>1, ElementOfSeq DEF TypeOK
<1>5. Queued = [i \in 1 .. Len(readyQ) |-> buf[readyQ[i]]]
  BY <1>3 DEF Queued
<1>6. Queued \in [1 .. Len(readyQ) -> Capture]
  BY <1>4, <1>5
<1>7. Queued \in Seq(Capture) /\ Len(Queued) = Len(readyQ)
  BY <1>3, <1>5, <1>6
<1>8. \A i \in 1 .. Len(readyQ) : Queued[i] = buf[readyQ[i]]
  BY <1>5
<1>9. Waiting = (outQ \o Middle) \o Queued
  BY DEF Waiting, Middle, Queued
<1>10. (outQ \o Middle) \o Queued = outQ \o (Middle \o Queued)
  BY <1>1, <1>2, <1>7, ConcatAssociative
<1>. QED BY <1>1, <1>2, <1>7, <1>8, <1>9, <1>10

(* The same of the state that follows.                                     *)
WaitingShape ==
  /\ outQ \in Seq(Capture) /\ Middle \in Seq(Capture) /\ Queued \in Seq(Capture)
  /\ Len(Queued) = Len(readyQ) /\ \A i \in 1 .. Len(readyQ) : Queued[i] = buf[readyQ[i]]
  /\ Waiting = outQ \o (Middle \o Queued)

LEMMA WaitingNext == TypeOK' => WaitingShape'
<1>1. TypeOK => WaitingShape
  BY WaitingIs DEF WaitingShape
<1>. QED BY <1>1, PTL

(* What is busy is not written, so what waits stays as it is.              *)
LEMMA WaitingKept ==
  ASSUME TypeOK, OneOwner, CopyInv, UNCHANGED <<readyQ, taskVars>>,
         \A b \in Ring : busy[b] => buf'[b] = buf[b]
  PROVE  Waiting' = Waiting /\ CopyInv'
<1>. USE DEF taskVars
<1>1. Held => buf'[idx] = buf[idx]
  BY DEF OneOwner, TypeOK
<1>2. \A i \in DOMAIN readyQ : buf'[readyQ[i]] = buf[readyQ[i]]
  <2>1. \A i \in DOMAIN readyQ : readyQ[i] \in Ring
    BY ElementOfSeq, LenProperties DEF TypeOK
  <2>. QED BY <2>1 DEF OneOwner
<1>3. Held' <=> Held
  BY DEF Held
<1>4. Middle' = Middle
  BY <1>1, <1>3 DEF Middle
<1>5. Queued' = Queued
  BY <1>2 DEF Queued
<1>6. Waiting' = Waiting
  <2>1. Waiting = (outQ \o Middle) \o Queued
    BY DEF Waiting, Middle, Queued
  <2>2. Waiting' = (outQ' \o Middle') \o Queued'
    BY DEF Waiting, Middle, Queued
  <2>. QED BY <1>4, <1>5, <2>1, <2>2
<1>7. CopyInv'
  BY <1>1 DEF CopyInv, Held
<1>. QED BY <1>6, <1>7

LEMMA InitFifo == Init => CopyInv /\ Waiting = <<>>
<1>. SUFFICES ASSUME Init PROVE CopyInv /\ Waiting = <<>>
  OBVIOUS
<1>1. TypeOK /\ outQ = <<>> /\ readyQ = <<>> /\ pc = "wait"
  BY InitTypeOK DEF Init
<1>2. Middle = <<>>
  BY <1>1 DEF Middle, Held
<1>3. Queued \in Seq(Capture) /\ Len(Queued) = 0
  BY <1>1, WaitingIs, EmptySeq
<1>4. Queued = <<>>
  BY <1>3, EmptySeq
<1>5. Waiting = <<>> \o (<<>> \o <<>>)
  BY <1>1, <1>2, <1>4, WaitingIs
<1>6. <<>> \o (<<>> \o <<>>) = <<>>
  BY EmptySeq, ConcatEmptySeq
<1>. QED BY <1>1, <1>5, <1>6 DEF CopyInv

(* The steps between the interrupts and the ready queue.                   *)
LEMMA InterruptsRefine ==
  ASSUME TypeOK, TypeOK', OneOwner, CopyInv, Edge \/ Alarm
  PROVE  CopyInv' /\ (Waiting' = Waiting \/ \E e \in Capture : Waiting' = Append(Waiting, e))
<1>1. CASE Edge
  <2>1. ASSUME NEW b \in Ring, busy[b] PROVE buf'[b] = buf[b]
    <3>1. CASE StartCapture
      BY <2>1, <3>1, FindFreeFindsFree DEF StartCapture, TypeOK
    <3>2. CASE RecordEdge
      BY <2>1, <3>2 DEF RecordEdge, TypeOK, OneOwner
    <3>3. CASE DropEdge \/ RefuseCapture \/ Glitch
      BY <3>3 DEF DropEdge, RefuseCapture, Glitch, isrVars
    <3>. QED BY <1>1, <3>1, <3>2, <3>3 DEF Edge
  <2>2. UNCHANGED <<readyQ, taskVars>>
    BY <1>1 DEF Edge
  <2>. QED BY <2>1, <2>2, WaitingKept
<1>2. CASE Alarm
  <2>1. UNCHANGED <<taskVars, buf>>
    BY <1>2 DEF Alarm, NothingToEnd, EndDrop, EndEmpty, HandOver, isrVars
  <2>2. CASE UNCHANGED readyQ
    BY <2>1, <2>2, WaitingKept
  <2>3. CASE readyQ' # readyQ
    <3>1. readyQ' = Append(readyQ, active)
      BY <1>2, <2>3 DEF Alarm, NothingToEnd, EndDrop, EndEmpty, HandOver
    <3>2. /\ Len(readyQ) \in Nat /\ Len(readyQ') = Len(readyQ) + 1
          /\ \A i \in 1 .. Len(readyQ) : readyQ'[i] = readyQ[i]
          /\ readyQ'[Len(readyQ) + 1] = active
      BY <3>1, AppendIs DEF TypeOK
    <3>. DEFINE e == buf[active]
    <3>3. e \in Capture
      BY DEF TypeOK
    <3>4. outQ' = outQ /\ Middle' = Middle
      BY <2>1 DEF Middle, Held, taskVars
    <3>5. /\ outQ \in Seq(Capture) /\ Middle \in Seq(Capture) /\ Queued \in Seq(Capture)
          /\ Len(Queued) = Len(readyQ) /\ \A i \in 1 .. Len(readyQ) : Queued[i] = buf[readyQ[i]]
          /\ Waiting = outQ \o (Middle \o Queued)
      BY WaitingIs
    <3>6. /\ Queued' \in Seq(Capture) /\ Len(Queued') = Len(readyQ')
          /\ \A i \in 1 .. Len(readyQ') : Queued'[i] = buf'[readyQ'[i]]
          /\ Waiting' = outQ' \o (Middle' \o Queued')
      BY WaitingNext DEF WaitingShape
    <3>. HIDE DEF e
    <3>7. Queued' = Append(Queued, e)
      <4>1. /\ Append(Queued, e) \in Seq(Capture) /\ Len(Append(Queued, e)) = Len(readyQ) + 1
            /\ \A i \in 1 .. Len(readyQ) : Append(Queued, e)[i] = buf[readyQ[i]]
            /\ Append(Queued, e)[Len(readyQ) + 1] = e
        BY <3>3, <3>5, AppendIs
      <4>2. \A i \in 1 .. Len(readyQ) + 1 : i \in 1 .. Len(readyQ) \/ i = Len(readyQ) + 1
        BY <3>2
      <4>3. ASSUME NEW i \in 1 .. Len(readyQ) + 1 PROVE Queued'[i] = Append(Queued, e)[i]
        <5>1. Queued'[i] = buf[readyQ'[i]]
          BY <2>1, <3>2, <3>6
        <5>. QED BY <3>2, <4>1, <4>2, <5>1 DEF e
      <4>. QED BY <3>2, <3>6, <4>1, <4>3, SeqEqual
    <3>8. Waiting' = Append(Waiting, e)
      <4>1. Queued' = Queued \o <<e>> /\ <<e>> \in Seq(Capture)
        BY <3>3, <3>5, <3>7, AppendIsConcat
      <4>2. /\ Middle \o (Queued \o <<e>>) = (Middle \o Queued) \o <<e>>
            /\ Middle \o Queued \in Seq(Capture)
        <5>1. Middle \o Queued \in Seq(Capture)
          BY <3>5, ConcatProperties
        <5>. QED BY <3>5, <4>1, <5>1, ConcatAssociative
      <4>3. /\ outQ \o ((Middle \o Queued) \o <<e>>) = (outQ \o (Middle \o Queued)) \o <<e>>
            /\ outQ \o (Middle \o Queued) \in Seq(Capture)
        <5>1. outQ \o (Middle \o Queued) \in Seq(Capture)
          BY <3>5, <4>2, ConcatProperties
        <5>. DEFINE mq == Middle \o Queued
        <5>2. mq \in Seq(Capture) /\ <<e>> \in Seq(Capture)
          BY <4>1, <4>2
        <5>. HIDE DEF mq
        <5>3. outQ \o (mq \o <<e>>) = (outQ \o mq) \o <<e>>
          BY <3>5, <5>2, ConcatAssociative
        <5>. QED BY <5>1, <5>3 DEF mq
      <4>4. Append(Waiting, e) = Waiting \o <<e>>
        BY <3>3, <3>5, <4>3, AppendIsConcat
      <4>. QED BY <3>4, <3>5, <3>6, <4>1, <4>2, <4>3, <4>4
    <3>9. CopyInv'
      BY <2>1 DEF CopyInv, taskVars
    <3>. QED BY <3>3, <3>8, <3>9
  <2>. QED BY <2>2, <2>3
<1>. QED BY <1>1, <1>2

(* The steps of the task.  Rest is what the moved capture sits in front of. *)
LEMMA TaskReceiveRefines ==
  ASSUME TypeOK, TypeOK', OneOwner, CopyInv, TaskReceive, UNCHANGED buf
  PROVE  CopyInv' /\ Waiting' = Waiting
<1>1. /\ pc = "wait" /\ readyQ # <<>> /\ pc' = "count"
      /\ idx' = Head(readyQ) /\ readyQ' = Tail(readyQ) /\ outQ' = outQ
  BY DEF TaskReceive
<1>2. WaitingShape /\ WaitingShape'
  BY WaitingIs, WaitingNext DEF WaitingShape
<1>3. /\ Head(readyQ) = readyQ[1] /\ Head(readyQ) \in Ring /\ Tail(readyQ) \in Seq(Ring)
      /\ Len(readyQ) \in Nat \ {0} /\ Len(Tail(readyQ)) = Len(readyQ) - 1
      /\ \A i \in 1 .. Len(readyQ) - 1 : Tail(readyQ)[i] = readyQ[i + 1]
  BY <1>1, TailIs DEF TypeOK
<1>4. Queued \in Seq(Capture) /\ Len(Queued) = Len(readyQ)
      /\ (\A i \in 1 .. Len(readyQ) : Queued[i] = buf[readyQ[i]])
  BY <1>2 DEF WaitingShape
<1>5. Queued # <<>>
  BY <1>3, <1>4, EmptySeq
<1>6. /\ Head(Queued) = Queued[1] /\ Tail(Queued) \in Seq(Capture)
      /\ Len(Tail(Queued)) = Len(Queued) - 1
      /\ \A i \in 1 .. Len(Queued) - 1 : Tail(Queued)[i] = Queued[i + 1]
  BY <1>4, <1>5, TailIs
<1>7. Middle = <<>> /\ Middle' = <<Head(Queued)>>
  <2>1. Head(Queued) = buf[idx']
    BY <1>1, <1>3, <1>4, <1>6
  <2>. QED BY <1>1, <2>1 DEF Middle, Held
<1>8. Queued' = Tail(Queued)
  <2>1. /\ Queued' \in Seq(Capture) /\ Len(Queued') = Len(readyQ')
        /\ \A i \in 1 .. Len(readyQ') : Queued'[i] = buf'[readyQ'[i]]
    BY <1>2 DEF WaitingShape
  <2>2. ASSUME NEW i \in 1 .. Len(readyQ) - 1 PROVE Queued'[i] = Tail(Queued)[i]
    <3>1. i + 1 \in 1 .. Len(readyQ)
      BY <1>3
    <3>2. readyQ'[i] = readyQ[i + 1] /\ Queued'[i] = buf[readyQ[i + 1]]
      BY <1>1, <1>3, <2>1
    <3>. QED BY <1>4, <1>6, <3>1, <3>2
  <2>3. Tail(Queued) \in Seq(Capture) /\ Queued' \in Seq(Capture)
    BY <1>6, <2>1
  <2>4. Len(Queued') = Len(readyQ) - 1 /\ Len(Tail(Queued)) = Len(readyQ) - 1
    BY <1>1, <1>3, <1>4, <1>6, <2>1
  <2>. QED BY <2>2, <2>3, <2>4, SeqEqual
<1>9. Middle' \o Queued' = Middle \o Queued
  <2>1. <<Head(Queued)>> \o Tail(Queued) = Queued
    BY <1>4, <1>5, HeadAndTail
  <2>2. <<>> \o Queued = Queued
    BY <1>4, ConcatEmptySeq
  <2>. QED BY <1>7, <1>8, <2>1, <2>2
<1>10. Waiting' = Waiting
  BY <1>1, <1>2, <1>9 DEF WaitingShape
<1>11. CopyInv'
  BY <1>1 DEF CopyInv
<1>. QED BY <1>10, <1>11

(* The copy is of what is in the buffer: it has n intervals.               *)
LEMMA TaskCopyRefines ==
  ASSUME TypeOK, OneOwner, CopyInv, TaskCopy, UNCHANGED buf
  PROVE  CopyInv' /\ Waiting' = Waiting
<1>1. pc = "copy" /\ pc' = "free" /\ UNCHANGED <<readyQ, idx, outQ>>
  BY DEF TaskCopy
<1>. DEFINE c == buf[idx]
<1>2. c \in Capture /\ c.pulses \in Seq(0 .. U16Max)
  BY DEF TypeOK, Capture
<1>3. n = Len(c.pulses) /\ Len(c.pulses) \in Nat
  BY <1>1, <1>2, LenProperties DEF CopyInv
<1>4. SubSeq(c.pulses, 1, Len(c.pulses)) = c.pulses
  BY <1>2, SubSeqFull
<1>5. msg' = [c EXCEPT !.pulses = SubSeq(@, 1, Len(c.pulses))]
  BY <1>3 DEF TaskCopy
<1>6. msg' = c
  BY <1>2, <1>4, <1>5 DEF Capture
<1>7. Middle' = Middle /\ Queued' = Queued
  BY <1>1 DEF Middle, Queued, Held
<1>8. Waiting' = Waiting
  BY <1>1, <1>7 DEF Waiting, Middle, Queued
<1>. QED BY <1>1, <1>6, <1>8 DEF CopyInv

(* Sending the copy appends what stood in the middle.                      *)
LEMMA SendRefines ==
  ASSUME TypeOK, TypeOK', pc \in {"send", "resend"}, pc' = "wait",
         outQ' = Append(outQ, msg), UNCHANGED <<buf, readyQ>>
  PROVE  CopyInv' /\ Waiting' = Waiting
<1>1. WaitingShape /\ WaitingShape'
  BY WaitingIs, WaitingNext DEF WaitingShape
<1>2. Middle = <<msg>> /\ Middle' = <<>> /\ Queued' = Queued
  BY DEF Middle, Held, Queued
<1>3. outQ \in Seq(Capture) /\ msg \in Capture /\ Queued \in Seq(Capture)
  BY <1>1 DEF TypeOK, WaitingShape
<1>4. Append(outQ, msg) = outQ \o <<msg>> /\ <<msg>> \in Seq(Capture)
  BY <1>3, AppendIsConcat
<1>5. (outQ \o <<msg>>) \o Queued = outQ \o (<<msg>> \o Queued)
  BY <1>3, <1>4, ConcatAssociative
<1>6. <<>> \o Queued = Queued
  BY <1>3, ConcatEmptySeq
<1>7. Waiting = outQ \o (Middle \o Queued) /\ Waiting' = outQ' \o (Middle' \o Queued')
  BY <1>1 DEF WaitingShape
<1>8. Waiting = outQ \o (<<msg>> \o Queued) /\ Waiting' = (outQ \o <<msg>>) \o Queued
  BY <1>2, <1>4, <1>6, <1>7
<1>. QED BY <1>5, <1>8 DEF CopyInv

(* Whoever takes the head of the queue takes the oldest capture.           *)
LEMMA TakeRefines ==
  ASSUME TypeOK, TypeOK', outQ # <<>>, outQ' = Tail(outQ),
         Middle' = Middle, UNCHANGED <<buf, readyQ>>
  PROVE  Waiting # <<>> /\ Waiting' = Tail(Waiting)
<1>1. WaitingShape /\ WaitingShape'
  BY WaitingIs, WaitingNext DEF WaitingShape
<1>2. Queued' = Queued
  BY DEF Queued
<1>3. outQ \in Seq(Capture) /\ Middle \o Queued \in Seq(Capture)
  BY <1>1, ConcatProperties DEF WaitingShape
<1>4. Waiting = outQ \o (Middle \o Queued) /\ Waiting' = outQ' \o (Middle' \o Queued')
  BY <1>1 DEF WaitingShape
<1>5. Waiting' = Tail(outQ) \o (Middle \o Queued)
  BY <1>2, <1>4
<1>. QED BY <1>3, <1>4, <1>5, TailOfConcat

LEMMA TaskRefines ==
  ASSUME TypeOK, TypeOK', OneOwner, QueueInv, CopyInv, Task
  PROVE  CopyInv' /\ (Waiting' = Waiting \/ (Waiting # <<>> /\ Waiting' = Tail(Waiting)))
<1>1. UNCHANGED buf
  BY DEF Task, isrVars
<1>2. CASE TaskReceive
  BY <1>1, <1>2, TaskReceiveRefines
<1>3. CASE TaskReadCount
  <2>1. /\ pc = "count" /\ pc' = "copy" /\ n' = Len(buf[idx].pulses)
        /\ UNCHANGED <<readyQ, idx, outQ>>
    BY <1>3 DEF TaskReadCount
  <2>2. Waiting' = Waiting
    BY <1>1, <2>1 DEF Waiting, Held
  <2>. QED BY <1>1, <2>1, <2>2 DEF CopyInv
<1>4. CASE TaskCopy
  BY <1>1, <1>4, TaskCopyRefines
<1>5. CASE TaskFree
  <2>1. pc = "free" /\ pc' = "send" /\ UNCHANGED <<readyQ, idx, msg, outQ>>
    BY <1>5 DEF TaskFree
  <2>2. msg = buf[idx]
    BY <2>1 DEF CopyInv
  <2>3. Waiting' = Waiting
    BY <1>1, <2>1, <2>2 DEF Waiting, Held
  <2>. QED BY <2>1, <2>3 DEF CopyInv
<1>6. CASE TaskSend
  BY <1>1, <1>6, SendRefines DEF TaskSend
<1>7. CASE TaskSendTimeout
  <2>1. pc = "send" /\ pc' = "evict" /\ UNCHANGED <<readyQ, idx, msg, outQ>>
    BY <1>7 DEF TaskSendTimeout
  <2>2. Waiting' = Waiting
    BY <1>1, <2>1 DEF Waiting, Held
  <2>. QED BY <2>1, <2>2 DEF CopyInv
<1>8. CASE TaskEvict
  <2>1. /\ pc = "evict" /\ pc' = "resend" /\ UNCHANGED <<readyQ, idx, msg>>
        /\ outQ' = IF outQ = <<>> THEN outQ ELSE Tail(outQ)
    BY <1>8 DEF TaskEvict
  <2>2. Middle' = Middle
    BY <2>1 DEF Middle, Held
  <2>3. CASE outQ = <<>>
    <3>1. outQ' = outQ
      BY <2>1, <2>3
    <3>2. Waiting' = Waiting
      BY <1>1, <2>1, <3>1 DEF Waiting, Held
    <3>. QED BY <2>1, <3>2 DEF CopyInv
  <2>4. CASE outQ # <<>>
    <3>1. outQ' = Tail(outQ)
      BY <2>1, <2>4
    <3>2. Waiting # <<>> /\ Waiting' = Tail(Waiting)
      BY <1>1, <2>1, <2>2, <2>4, <3>1, TakeRefines
    <3>. QED BY <2>1, <3>2 DEF CopyInv
  <2>. QED BY <2>3, <2>4
<1>9. CASE TaskResend
  <2>1. pc = "resend" /\ pc' = "wait" /\ UNCHANGED readyQ
    BY <1>9 DEF TaskResend
  <2>2. Len(outQ) < OutQueueLen
    BY <2>1 DEF QueueInv, ResendHasRoom
  <2>3. outQ' = Append(outQ, msg)
    BY <1>9, <2>2 DEF TaskResend
  <2>. QED BY <1>1, <2>1, <2>3, SendRefines
<1>. QED BY <1>2, <1>3, <1>4, <1>5, <1>6, <1>7, <1>8, <1>9 DEF Task

(* Every step leaves what waits alone, adds one capture at its end, or     *)
(* takes the oldest away.                                                  *)
LEMMA StepWaiting ==
  ASSUME TypeOK, TypeOK', OneOwner, QueueInv, CopyInv, [Next]_vars
  PROVE  /\ CopyInv'
         /\ \/ Waiting' = Waiting
            \/ \E e \in Capture : Waiting' = Append(Waiting, e)
            \/ Waiting # <<>> /\ Waiting' = Tail(Waiting)
<1>1. CASE Edge \/ Alarm
  BY <1>1, InterruptsRefine
<1>2. CASE Task
  BY <1>2, TaskRefines
<1>3. CASE NetReceive
  <2>1. outQ # <<>> /\ outQ' = Tail(outQ) /\ UNCHANGED <<buf, readyQ, pc, idx, n, msg>>
    BY <1>3 DEF NetReceive, isrVars
  <2>2. Middle' = Middle
    BY <2>1 DEF Middle, Held
  <2>3. Waiting # <<>> /\ Waiting' = Tail(Waiting)
    BY <2>1, <2>2, TakeRefines
  <2>4. CopyInv'
    BY <2>1 DEF CopyInv
  <2>. QED BY <2>3, <2>4
<1>4. CASE Mask
  <2>1. UNCHANGED <<readyQ, taskVars>>
    BY <1>4 DEF Mask
  <2>2. ASSUME NEW b \in Ring, busy[b] PROVE buf'[b] = buf[b]
    <3>1. CASE st = "capturing"
      <4>1. b # active
        BY <2>2, <3>1 DEF OneOwner
      <4>. QED BY <1>4, <3>1, <4>1 DEF Mask, TypeOK
    <3>2. CASE st # "capturing"
      BY <1>4, <3>2 DEF Mask
    <3>. QED BY <3>1, <3>2
  <2>. QED BY <2>1, <2>2, WaitingKept
<1>5. CASE Tick \/ MaskedEdge \/ Unmask \/ UNCHANGED vars
  <2>1. UNCHANGED <<buf, readyQ, taskVars>>
    BY <1>5 DEF Tick, MaskedEdge, Unmask, vars, isrVars
  <2>. QED BY <2>1, WaitingKept
<1>. QED BY <1>1, <1>2, <1>3, <1>4, <1>5 DEF Next

LEMMA StepFifo ==
  TypeOK /\ TypeOK' /\ OneOwner /\ QueueInv /\ CopyInv /\ [Next]_vars
    => CopyInv' /\ [Fifo!FifoNext]_Waiting
<1>. SUFFICES ASSUME TypeOK, TypeOK', OneOwner, QueueInv, CopyInv, [Next]_vars
              PROVE  CopyInv' /\ [Fifo!FifoNext]_Waiting
  OBVIOUS
<1>1. CopyInv'
  BY StepWaiting
<1>2. CASE Waiting' = Waiting
  BY <1>1, <1>2
<1>3. CASE Waiting # <<>> /\ Waiting' = Tail(Waiting)
  BY <1>1, <1>3 DEF Fifo!FifoNext, Fifo!Leave
<1>4. ASSUME NEW e \in Capture, Waiting' = Append(Waiting, e) PROVE Fifo!Finish
  <2>1. Waiting \in Seq(Capture)
    <3>1. WaitingShape
      BY WaitingIs DEF WaitingShape
    <3>. QED BY <3>1, ConcatProperties DEF WaitingShape
  <2>2. Len(Append(Waiting, e)) = Len(Waiting) + 1 /\ SubSeq(Append(Waiting, e), 1, Len(Waiting)) = Waiting
    BY <2>1, AppendExtends
  <2>. QED BY <1>4, <2>2 DEF Fifo!Finish
<1>. QED BY <1>1, <1>2, <1>3, <1>4, StepWaiting DEF Fifo!FifoNext

(* The whole capture path, interrupts, ready queue, task and output queue, *)
(* is one queue of finished captures: nothing is lost unseen, duplicated,  *)
(* overwritten or overtaken on it (ir_capture.cpp).                        *)
THEOREM CaptureIsFifo == Spec => KeepsOrder
<1>1. Init => QueueInv
  BY Constants, EmptySeq DEF Init, QueueInv, OutQueueBounded, ResendHasRoom
<1>2. Init => Fifo!FifoInit
  BY InitFifo DEF Fifo!FifoInit
<1>. QED BY <1>1, <1>2, InitTypeOK, StepTypeOK, InitOneOwner, StepOneOwner, StepQueueInv,
            InitFifo, StepFifo, PTL DEF Spec, KeepsOrder, Fifo!FifoSpec
=============================================================================
