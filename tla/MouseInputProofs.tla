-------------------------- MODULE MouseInputProofs --------------------------
(***************************************************************************)
(* Proofs about MouseInput for every screen, every set of bytes the        *)
(* devices may send and every number of them.                              *)
(***************************************************************************)
EXTENDS MouseInput, Finiteness

USE ScreenAssumption, BoundAssumption

-----------------------------------------------------------------------------
(* The bytes on their way to a packet, oldest first: those the decoder     *)
(* holds, those of the call it works on, those captured since.             *)
Total == mouseCycle + Len(call) + Len(log)
At(k) == IF k <= mouseCycle THEN mouseBytes[k - 1]
         ELSE IF k <= mouseCycle + Len(call) THEN call[k - mouseCycle]
         ELSE log[k - mouseCycle - Len(call)]

(* The place of a byte in everything the mouse sends, and that of the next *)
(* one it will send.                                                       *)
Stamp(b) == 3 * b.packet + b.role
NextStamp == IF role = 0 THEN 3 * (sentPackets + 1) ELSE 3 * sentPackets + role

(* The indices of the genuine packets relay has still to hand out.         *)
Waiting == {i \in 1 .. Len(packets) : /\ phase = "relay" => i >= next
                                      /\ Genuine(packets[i].raw)}
Number(i) == packets[i].raw[0].packet

TypeInv ==
  /\ TypeOK
  /\ lmbs \in BOOLEAN \X BOOLEAN /\ clicked \in BOOLEAN
  /\ moved \in 0 .. MaxPackets
  /\ role # 0 => sentPackets > 0

(* The bytes on their way keep the order in which the mouse sent them, and *)
(* a head is told from a motion byte by its value.                         *)
Fits ==
  \A k \in 1 .. Total : ~IsKey(At(k)) =>
    /\ Stamp(At(k)) < NextStamp
    /\ IF At(k).role = 0 THEN At(k).val \in Heads ELSE At(k).val \in Moves
Ordered ==
  \A k, l \in 1 .. Total :
    k < l /\ ~IsKey(At(k)) /\ ~IsKey(At(l)) => Stamp(At(k)) < Stamp(At(l))
OrderInv ==
  /\ phase # "irq" => call = <<>>
  /\ Fits /\ Ordered
  /\ mouseCycle > 0 => Sync(mouseBytes[0])

(* Packet q is over: whatever is on its way or still to come is newer.     *)
Done(q) ==
  /\ 3 * q + 2 < NextStamp
  /\ \A k \in 1 .. Total : ~IsKey(At(k)) => At(k).packet > q

(* What was decoded is over, and is relayed in its turn.                   *)
NewerInv ==
  /\ MotionOnce
  /\ Done(moved)
  /\ \A i \in Waiting : Done(Number(i))

ButtonInv == wasLmb = lmbs[2] /\ (clicked => mousePressed)

(* Accidents that have still to spoil a packet: keys' bytes among those    *)
(* held and those of the call, and bytes of the mouse missing between two  *)
(* that are on their way, or after the last of them. Motion bytes that     *)
(* were taken for heads, but for the one of the packet in the making.      *)
Stamps == {Stamp(At(k)) : k \in {l \in 1 .. Total : ~IsKey(At(l))}}
Gaps == {s \in 0 .. NextStamp - 1 : s \notin Stamps /\ \E t \in Stamps : t < s}
KeysHeld == {i \in 0 .. mouseCycle - 1 : IsKey(mouseBytes[i])}
KeysInCall == {d \in 0 .. Len(call) - 1 : IsKey(call[Len(call) - d])}
FalseHead ==
  IF mouseCycle > 0 /\ ~IsKey(mouseBytes[0]) /\ mouseBytes[0].role # 0 THEN 1 ELSE 0
Charged == mistaken - FalseHead
AccidentInv ==
  misframed + Cardinality(KeysHeld) + Cardinality(KeysInCall)
    + Cardinality(Gaps) <= disturbed + Charged

(* Without an accident, and without bytes that a break has skipped, the    *)
(* oldest byte of the mouse on its way, or the next it sends when there is *)
(* none, is the first of a packet: no motion byte stands where a head is   *)
(* looked for.                                                             *)
FirstDue(s) == s \in Stamps \cup {NextStamp} /\ \A t \in Stamps : s <= t
AlignedInv ==
  disturbed = 0 /\ ~skipped => mistaken = 0 /\ \A s \in Nat : FirstDue(s) => s % 3 = 0

-----------------------------------------------------------------------------
(* Type correctness.                                                       *)

(* The motion of a packet fits nine bits with a sign.                      *)
LEMMA DeltaType ==
  ASSUME NEW head \in Byte, NEW b \in Byte, NEW shift \in {3, 4}
  PROVE  Delta(head, b, shift) \in -256 .. 255
  <1>1. head.val \in 0 .. 255 /\ b.val \in 0 .. 255
    BY DEF Byte
  <1>2. CASE shift = 3
    <2>1. Delta(head, b, shift) = b.val - 256 * (((head.val * 8) \div 256) % 2)
      BY <1>2 DEF Delta
    <2> QED
      BY <1>1, <2>1
  <1>3. CASE shift = 4
    <2>1. Delta(head, b, shift) = b.val - 256 * (((head.val * 16) \div 256) % 2)
      BY <1>3 DEF Delta
    <2> QED
      BY <1>1, <2>1
  <1> QED
    BY <1>2, <1>3

(* Taking a part of a sequence of bytes, or adding one, gives bytes.       *)
LEMMA PartOfBytes ==
  ASSUME NEW s \in Seq(Byte), NEW n \in 1 .. Len(s)
  PROVE  /\ SubSeq(s, 1, n) \in Seq(Byte) /\ Len(SubSeq(s, 1, n)) = n
         /\ \A i \in 1 .. n : SubSeq(s, 1, n)[i] = s[i]
         /\ SubSeq(s, n + 1, Len(s)) \in Seq(Byte)
         /\ Len(SubSeq(s, n + 1, Len(s))) = Len(s) - n
         /\ \A i \in 1 .. Len(s) - n : SubSeq(s, n + 1, Len(s))[i] = s[i + n]
  OBVIOUS

LEMMA TypeInit == Init => TypeInv
  <1> SUFFICES ASSUME Init PROVE TypeInv
    OBVIOUS
  <1>1. mouseBytes \in [0 .. 2 -> Byte]
    BY DEF Init, NoByte, Byte
  <1>2. frame \in [x : 0 .. W, y : 0 .. H, down : BOOLEAN, pressed : BOOLEAN]
    BY DEF Init
  <1>3. {wasLmb, mouseDown, mousePressed} \subseteq BOOLEAN
    BY DEF Init
  <1>4. /\ sentPackets \in 0 .. MaxPackets /\ role \in 0 .. 2
        /\ sentKeys \in 0 .. MaxKeys
        /\ log \in Seq(Byte) /\ call \in Seq(Byte)
        /\ packets \in Seq(Packet)
    BY DEF Init
  <1>5. clicked \in BOOLEAN
    BY DEF Init
  <1>8. moved \in 0 .. MaxPackets
    BY DEF Init
  <1>7. lmbs \in BOOLEAN \X BOOLEAN
    <2>1. lmbs = <<FALSE, FALSE>>
      BY DEF Init
    <2>2. FALSE \in BOOLEAN
      OBVIOUS
    <2> QED
      BY <2>1, <2>2
  <1>6. /\ phase \in {"idle", "irq", "relay"} /\ mouseCycle \in 0 .. 2
        /\ next \in Nat \ {0} /\ disturbed \in Nat /\ misframed \in Nat
        /\ mistaken \in Nat
        /\ mouseX \in 0 .. W /\ mouseY \in 0 .. H /\ role = 0
    BY DEF Init
  <1>9. skipped \in BOOLEAN
    BY DEF Init
  <1> QED
    BY <1>1, <1>2, <1>3, <1>4, <1>5, <1>6, <1>7, <1>8, <1>9
    DEF TypeInv, TypeOK

LEMMA TypeDevices ==
  ASSUME TypeInv,
         \/ \E v \in Heads \cup Moves, captured \in BOOLEAN : MouseSend(v, captured)
         \/ \E v \in Scancodes : KeySend(v)
  PROVE  TypeInv'
  <1>1. CASE \E v \in Heads \cup Moves, captured \in BOOLEAN : MouseSend(v, captured)
    <2>1. PICK v \in Heads \cup Moves, captured \in BOOLEAN : MouseSend(v, captured)
      BY <1>1
    <2>2. sentPackets' \in 0 .. MaxPackets /\ role' \in 0 .. 2
          /\ (role' # 0 => sentPackets' > 0)
      BY <2>1 DEF TypeInv, TypeOK, MouseSend
    <2>3. [val |-> v, packet |-> sentPackets', role |-> role] \in Byte
      <3>1. v \in 0 .. 255 /\ role \in 0 .. 2
        BY ByteAssumption DEF TypeInv, TypeOK
      <3> QED
        BY <2>2, <3>1 DEF Byte
    <2>4. log' \in Seq(Byte) /\ disturbed' \in Nat
      BY <2>1, <2>3 DEF TypeInv, TypeOK, MouseSend
    <2> QED
      BY <2>1, <2>2, <2>4 DEF TypeInv, TypeOK, MouseSend, decoderVars, userVars
  <1>2. CASE \E v \in Scancodes : KeySend(v)
    <2>1. PICK v \in Scancodes : KeySend(v)
      BY <1>2
    <2>2. [NoByte EXCEPT !.val = v] \in Byte
      <3>1. NoByte \in Byte
        BY DEF NoByte, Byte
      <3>2. v \in 0 .. 255
        BY ByteAssumption
      <3> QED
        BY <3>1, <3>2 DEF Byte
    <2>3. log' \in Seq(Byte)
      <3> DEFINE b == [NoByte EXCEPT !.val = v]
      <3>1. log' = Append(log, b) /\ b \in Byte
        BY <2>1, <2>2 DEF KeySend
      <3>2. log \in Seq(Byte)
        BY DEF TypeInv, TypeOK
      <3> HIDE DEF b
      <3> QED
        BY <3>1, <3>2
    <2>4. sentKeys' \in 0 .. MaxKeys
      BY <2>1 DEF TypeInv, TypeOK, KeySend
    <2> QED
      BY <2>1, <2>3, <2>4
      DEF TypeInv, TypeOK, KeySend, decoderVars, userVars, accidentVars
  <1> QED
    BY <1>1, <1>2

(* break only ever sets the mark of the bytes it has left unseen, and sets *)
(* it unless the byte it broke off at was the last of the call.            *)
LEMMA BreakTypes ==
  ASSUME TypeInv, Break \/ skipped' = skipped
  PROVE  skipped' \in BOOLEAN /\ (skipped => skipped')
  BY Zenon DEF TypeInv, TypeOK, Break

LEMMA TypeDecoder ==
  ASSUME TypeInv,
         \/ \E irq \in {1, 12}, n \in 1 .. Len(log) : IrqCall(irq, n)
         \/ MouseByte \/ MousePacket \/ IrqReturn
  PROVE  TypeInv'
  <1>1. CASE \E irq \in {1, 12}, n \in 1 .. Len(log) : IrqCall(irq, n)
    <2>1. PICK irq \in {1, 12}, n \in 1 .. Len(log) : IrqCall(irq, n)
      BY <1>1
    <2>2. call' \in Seq(Byte) /\ log' \in Seq(Byte)
      <3>1. SubSeq(log, 1, n) \in Seq(Byte) /\ SubSeq(log, n + 1, Len(log)) \in Seq(Byte)
        BY PartOfBytes DEF TypeInv, TypeOK
      <3> QED
        BY <2>1, <3>1 DEF IrqCall, MouseCall
    <2>3. disturbed' \in Nat
      <3> DEFINE D == {i \in 1 .. n : IsKey(log[i]) <=> irq = 12}
      <3>1. IsFiniteSet(1 .. n) /\ D \subseteq 1 .. n
        BY FS_Interval
      <3>2. Cardinality(D) \in Nat
        BY <3>1, FS_Subset, FS_CardinalityType
      <3> HIDE DEF D
      <3>3. disturbed' = disturbed + Cardinality(D)
        BY <2>1 DEF IrqCall, D
      <3>4. disturbed \in Nat
        BY DEF TypeInv, TypeOK
      <3> QED
        BY <3>2, <3>3, <3>4
    <2> QED
      BY <2>1, <2>2, <2>3 DEF TypeInv, TypeOK, IrqCall, userVars
  <1>2. CASE MouseByte
    <2>1. Head(call) \in Byte /\ Tail(call) \in Seq(Byte)
      BY <1>2 DEF TypeInv, TypeOK, MouseByte
    <2>2. call' \in Seq(Byte)
      <3>1. call' = <<>> \/ call' = Tail(call)
        BY <1>2 DEF MouseByte, Break
      <3>2. <<>> \in Seq(Byte)
        OBVIOUS
      <3> QED
        BY <2>1, <3>1, <3>2
    <2>3. mouseCycle' \in 0 .. 2 /\ mouseBytes' \in [0 .. 2 -> Byte]
      <3>1. \/ UNCHANGED <<mouseCycle, mouseBytes>>
            \/ /\ mouseBytes' = [mouseBytes EXCEPT ![mouseCycle] = Head(call)]
               /\ mouseCycle' = (mouseCycle + 1) % 3
        BY <1>2 DEF MouseByte, NextCycle
      <3>2. mouseCycle \in 0 .. 2 /\ mouseBytes \in [0 .. 2 -> Byte]
        BY DEF TypeInv, TypeOK
      <3>3. (mouseCycle + 1) % 3 \in 0 .. 2
        BY <3>2
      <3> QED
        BY <2>1, <3>1, <3>2, <3>3
    <2>4. mistaken' \in Nat
      BY <1>2 DEF TypeInv, TypeOK, MouseByte
    <2>5. skipped' \in BOOLEAN
      <3>1. Break \/ skipped' = skipped
        BY <1>2 DEF MouseByte
      <3> QED
        BY <3>1, BreakTypes
    <2> QED
      BY <1>2, <2>2, <2>3, <2>4, <2>5 DEF TypeInv, TypeOK, MouseByte, envVars, userVars
  <1>3. CASE MousePacket
    <2>1. Head(call) \in Byte /\ Tail(call) \in Seq(Byte)
      BY <1>3 DEF TypeInv, TypeOK, MousePacket
    <2>2. call' \in Seq(Byte)
      <3>1. call' = <<>> \/ call' = Tail(call)
        BY <1>3 DEF MousePacket, Break
      <3>2. <<>> \in Seq(Byte)
        OBVIOUS
      <3> QED
        BY <2>1, <3>1, <3>2
    <2>3. mouseCycle' \in 0 .. 2 /\ mouseBytes' \in [0 .. 2 -> Byte]
      BY <1>3, <2>1 DEF TypeInv, TypeOK, MousePacket, NextCycle
    <2>4. packets' \in Seq(Packet)
      <3> DEFINE raw == mouseBytes'
                 p == [dx |-> Delta(raw[0], raw[1], 4),
                       dy |-> Delta(raw[0], raw[2], 3),
                       lmb |-> Bit(raw[0].val, 0), raw |-> raw]
      <3>1. raw[0] \in Byte /\ raw[1] \in Byte /\ raw[2] \in Byte
        BY <2>3
      <3>2. Delta(raw[0], raw[1], 4) \in -256 .. 255
            /\ Delta(raw[0], raw[2], 3) \in -256 .. 255
        BY <3>1, DeltaType
      <3>3. Bit(raw[0].val, 0) \in BOOLEAN
        BY DEF Bit
      <3>4. p \in Packet
        BY <2>3, <3>2, <3>3 DEF Packet
      <3>5. packets' = packets \/ packets' = Append(packets, p)
        BY <1>3 DEF MousePacket
      <3>6. packets \in Seq(Packet)
        BY DEF TypeInv, TypeOK
      <3> HIDE DEF p
      <3> QED
        BY <3>4, <3>5, <3>6
    <2>5. misframed' \in Nat
      BY <1>3 DEF TypeInv, TypeOK, MousePacket
    <2>6. skipped' \in BOOLEAN
      <3>1. Break \/ skipped' = skipped
        BY <1>3 DEF MousePacket
      <3> QED
        BY <3>1, BreakTypes
    <2> QED
      BY <1>3, <2>2, <2>3, <2>4, <2>5, <2>6 DEF TypeInv, TypeOK, MousePacket, envVars, userVars
  <1>4. CASE IrqReturn
    BY <1>4 DEF TypeInv, TypeOK, IrqReturn, envVars, decoderVars, userVars, accidentVars
  <1> QED
    BY <1>1, <1>2, <1>3, <1>4

LEMMA TypeUser ==
  ASSUME TypeInv, Schedule \/ RelayPacket \/ Frame
  PROVE  TypeInv'
  <1>1. CASE Schedule
    BY <1>1 DEF TypeInv, TypeOK, Schedule, envVars, decoderVars, accidentVars
  <1>2. CASE RelayPacket
    <2>1. packets[next] \in Packet
      BY <1>2 DEF TypeInv, TypeOK, RelayPacket
    <2>2. packets[next].dx \in Int /\ packets[next].dy \in Int
          /\ packets[next].lmb \in BOOLEAN
          /\ packets[next].raw[0].packet \in 0 .. MaxPackets
      <3>1. packets[next].raw[0] \in Byte
        BY <2>1 DEF Packet
      <3>2. packets[next].raw[0].packet \in 0 .. MaxPackets
        BY <3>1 DEF Byte
      <3>3. /\ packets[next].dx \in -256 .. 255 /\ packets[next].dy \in -256 .. 255
            /\ packets[next].lmb \in BOOLEAN
        BY <2>1 DEF Packet
      <3>4. \A d \in -256 .. 255 : d \in Int
        OBVIOUS
      <3>5. packets[next].dx \in Int /\ packets[next].dy \in Int
        BY ONLY <3>3, <3>4
      <3> QED
        BY ONLY <3>2, <3>3, <3>5
    <2>3. mouseX' \in 0 .. W /\ mouseY' \in 0 .. H
      <3>1. mouseX' = Clamp(mouseX + packets[next].dx, W)
            /\ mouseY' = Clamp(mouseY - packets[next].dy, H)
        BY <1>2 DEF RelayPacket
      <3>2. mouseX \in Int /\ mouseY \in Int
        BY DEF TypeInv, TypeOK
      <3> QED
        BY <2>2, <3>1, <3>2 DEF Clamp
    <2>4. {wasLmb, mouseDown, mousePressed}' \subseteq BOOLEAN
      BY <1>2, <2>2 DEF TypeInv, TypeOK, RelayPacket, Button
    <2>5. lmbs' \in BOOLEAN \X BOOLEAN /\ clicked' \in BOOLEAN
          /\ moved' \in 0 .. MaxPackets
      BY <1>2, <2>2 DEF TypeInv, TypeOK, RelayPacket
    <2> QED
      BY <1>2, <2>3, <2>4, <2>5
      DEF TypeInv, TypeOK, RelayPacket, envVars, decoderVars, accidentVars
  <1>3. CASE Frame
    <2>1. frame' \in [x : 0 .. W, y : 0 .. H, down : BOOLEAN, pressed : BOOLEAN]
      BY <1>3 DEF TypeInv, TypeOK, Frame
    <2>2. {wasLmb, mouseDown, mousePressed}' \subseteq BOOLEAN
          /\ clicked' \in BOOLEAN
      BY <1>3 DEF TypeInv, TypeOK, Frame
    <2>3. packets' \in Seq(Packet)
      BY <1>3 DEF Frame, Emptied
    <2>4. UNCHANGED <<envVars, call, mouseCycle, mouseBytes, next, mouseX,
                      mouseY, lmbs, moved, accidentVars>>
          /\ phase' = "idle"
      BY <1>3 DEF Frame
    <2> QED
      BY <2>1, <2>2, <2>3, <2>4 DEF TypeInv, TypeOK, envVars, accidentVars
  <1> QED
    BY <1>1, <1>2, <1>3

LEMMA TypeStep == TypeInv /\ [Next]_vars => TypeInv'
  <1>1. ASSUME TypeInv, UNCHANGED vars PROVE TypeInv'
    BY <1>1 DEF TypeInv, TypeOK, vars, envVars, decoderVars, userVars, accidentVars
  <1> QED
    BY <1>1, TypeDevices, TypeDecoder, TypeUser DEF Next

(* TypeInv holds of every behaviour: the decoder, the relay and the users  *)
(* only ever hold values of their types.                                   *)
THEOREM TypeAlways == Spec => []TypeInv
  BY TypeInit, TypeStep, PTL DEF Spec

-----------------------------------------------------------------------------
(* The button. wasLmb of the closure in schedule is the lmb of the last    *)
(* packet relayed, and a press since the last frame has set mousePressed.  *)

LEMMA ButtonStep == TypeInv /\ ButtonInv /\ HeldByRecentPacket /\ [Next]_vars
                      => ButtonInv' /\ HeldByRecentPacket'
  <1> SUFFICES ASSUME TypeInv, ButtonInv, HeldByRecentPacket, [Next]_vars
               PROVE  ButtonInv' /\ HeldByRecentPacket'
    OBVIOUS
  <1>1. CASE RelayPacket
    <2> DEFINE v == packets[next]
    <2>1. /\ Button(v.lmb) /\ wasLmb' = v.lmb /\ lmbs' = <<lmbs[2], v.lmb>>
          /\ clicked' = (clicked \/ (v.lmb /\ ~lmbs[2]))
      BY <1>1 DEF RelayPacket
    <2>2. lmbs'[1] = lmbs[2] /\ lmbs'[2] = v.lmb
      BY <2>1
    <2> HIDE DEF v
    <2> QED
      BY <2>1, <2>2 DEF Button, ButtonInv, HeldByRecentPacket
  <1>2. CASE Frame
    BY <1>2 DEF Frame, ButtonInv, HeldByRecentPacket
  <1>3. CASE UNCHANGED <<wasLmb, lmbs, mouseDown, mousePressed, clicked>>
    BY <1>3 DEF ButtonInv, HeldByRecentPacket
  <1> QED
    BY <1>1, <1>2, <1>3
    DEF Next, MouseSend, KeySend, IrqCall, MouseByte, MousePacket, IrqReturn,
        Schedule, vars, userVars

LEMMA ButtonAlways == Spec => [](ButtonInv /\ HeldByRecentPacket)
  <1>1. Init => ButtonInv /\ HeldByRecentPacket
    <2> SUFFICES ASSUME Init PROVE ButtonInv /\ HeldByRecentPacket
      OBVIOUS
    <2>1. lmbs = <<FALSE, FALSE>> /\ ~wasLmb /\ ~mouseDown /\ ~clicked
          /\ wasLmb = FALSE
      BY DEF Init
    <2>2. lmbs[2] = FALSE
      BY <2>1
    <2> QED
      BY <2>1, <2>2 DEF ButtonInv, HeldByRecentPacket
  <1> QED
    BY <1>1, ButtonStep, TypeAlways, PTL DEF Spec

(* The left button is held in the interface only while one of the last two *)
(* packets relayed has it down.                                            *)
THEOREM HeldAlways == Spec => []HeldByRecentPacket
  BY ButtonAlways, PTL

(* A press relayed since the last frame reaches the next frame's tasks,    *)
(* released again or not.                                                  *)
THEOREM PressAlways == Spec => PressReachesFrame
  <1>1. ButtonInv /\ [Next]_vars
          => [phase = "relay" /\ phase' = "idle" /\ clicked => frame'.pressed]_vars
    <2> SUFFICES ASSUME ButtonInv, [Next]_vars, phase = "relay", phase' = "idle",
                        clicked
                 PROVE  frame'.pressed \/ UNCHANGED vars
      OBVIOUS
    <2>1. Frame \/ UNCHANGED vars
      BY DEF Next, MouseSend, KeySend, IrqCall, MouseByte, MousePacket,
             IrqReturn, Schedule, RelayPacket
    <2>2. CASE Frame
      <3>1. frame'.pressed = mousePressed
        BY <2>2 DEF Frame
      <3> QED
        BY <3>1 DEF ButtonInv
    <2> QED
      BY <2>1, <2>2
  <1> QED
    BY <1>1, ButtonAlways, PTL DEF Spec, PressReachesFrame

-----------------------------------------------------------------------------
(* The motion of a packet. (h * 16) & 0x100 is bit 4 of h, (h * 8) & 0x100 *)
(* is bit 5.                                                               *)

LEMMA DeltaIsTwosComplement ==
  ASSUME NEW h \in Byte, NEW b \in Byte
  PROVE  /\ Delta(h, b, 4) = TwosComplement9(Bit(h.val, 4), b.val)
         /\ Delta(h, b, 3) = TwosComplement9(Bit(h.val, 5), b.val)
  <1>1. h.val \in 0 .. 255 /\ b.val \in 0 .. 255
    BY DEF Byte
  <1>2. /\ Delta(h, b, 4) = b.val - 256 * (((h.val * 16) \div 256) % 2)
        /\ Delta(h, b, 3) = b.val - 256 * (((h.val * 8) \div 256) % 2)
    BY DEF Delta
  <1>3. /\ Bit(h.val, 4) <=> (h.val \div 16) % 2 = 1
        /\ Bit(h.val, 5) <=> (h.val \div 32) % 2 = 1
    BY DEF Bit
  <1>4. /\ ((h.val * 16) \div 256) % 2 = (h.val \div 16) % 2
        /\ ((h.val * 8) \div 256) % 2 = (h.val \div 32) % 2
    BY <1>1
  <1>5. (h.val \div 16) % 2 \in {0, 1} /\ (h.val \div 32) % 2 \in {0, 1}
    BY <1>1
  <1> QED
    BY <1>1, <1>2, <1>3, <1>4, <1>5 DEF TwosComplement9

LEMMA DeltaStep == TypeInv /\ DeltaIsNineBit /\ [Next]_vars => DeltaIsNineBit'
  <1> SUFFICES ASSUME TypeInv, DeltaIsNineBit, [Next]_vars PROVE DeltaIsNineBit'
    OBVIOUS
  <1>1. CASE UNCHANGED packets
    BY <1>1 DEF DeltaIsNineBit
  <1>2. CASE Frame
    BY <1>2 DEF Frame, Emptied, DeltaIsNineBit
  <1>3. CASE MousePacket /\ ~UNCHANGED packets
    <2> DEFINE raw == mouseBytes'
               p == [dx |-> Delta(raw[0], raw[1], 4),
                     dy |-> Delta(raw[0], raw[2], 3),
                     lmb |-> Bit(raw[0].val, 0), raw |-> raw]
    <2>1. packets' = Append(packets, p)
      BY <1>3 DEF MousePacket
    <2>2. raw[0] \in Byte /\ raw[1] \in Byte /\ raw[2] \in Byte
      <3>1. TypeInv'
        BY TypeStep
      <3> QED
        BY <3>1 DEF TypeInv, TypeOK
    <2>3. /\ p.dx = TwosComplement9(Bit(p.raw[0].val, 4), p.raw[1].val)
          /\ p.dy = TwosComplement9(Bit(p.raw[0].val, 5), p.raw[2].val)
      BY <2>2, DeltaIsTwosComplement
    <2>4. packets \in Seq(Packet)
      BY DEF TypeInv, TypeOK
    <2> HIDE DEF p
    <2>5. /\ Len(packets') = Len(packets) + 1
          /\ \A i \in 1 .. Len(packets) : packets'[i] = packets[i]
          /\ packets'[Len(packets) + 1] = p
      BY <2>1, <2>4
    <2>6. ASSUME NEW i \in 1 .. Len(packets')
          PROVE  packets'[i] = p \/ (i \in 1 .. Len(packets) /\ packets'[i] = packets[i])
      BY <2>4, <2>5
    <2> QED
      BY <2>3, <2>6 DEF DeltaIsNineBit
  <1> QED
    BY <1>1, <1>2, <1>3
    DEF Next, MouseSend, KeySend, IrqCall, MouseByte, MousePacket, IrqReturn,
        Schedule, RelayPacket, vars, decoderVars

LEMMA DeltaAlways == Spec => []DeltaIsNineBit
  <1>1. Init => DeltaIsNineBit
    BY DEF Init, DeltaIsNineBit
  <1> QED
    BY <1>1, DeltaStep, TypeAlways, PTL DEF Spec

-----------------------------------------------------------------------------
(* The bytes on their way. Every step either adds a byte behind them or    *)
(* leaves some of them out.                                                *)

LEMMA PendingType ==
  ASSUME TypeInv
  PROVE  /\ Total \in Nat
         /\ \A k \in 1 .. Total :
              /\ At(k) \in Byte /\ Stamp(At(k)) \in Nat
              /\ At(k).packet \in Nat /\ At(k).role \in 0 .. 2
              /\ At(k).val \in 0 .. 255
         /\ NextStamp \in Nat
  <1>1. /\ mouseCycle \in 0 .. 2 /\ mouseBytes \in [0 .. 2 -> Byte]
        /\ call \in Seq(Byte) /\ log \in Seq(Byte)
        /\ sentPackets \in Nat /\ role \in 0 .. 2
    BY DEF TypeInv, TypeOK
  <1>2. ASSUME NEW k \in 1 .. Total PROVE At(k) \in Byte
    BY <1>1, <1>2 DEF Total, At
  <1>3. ASSUME NEW b \in Byte
        PROVE  /\ Stamp(b) \in Nat /\ b.packet \in Nat /\ b.role \in 0 .. 2
               /\ b.val \in 0 .. 255
    BY DEF Byte, Stamp
  <1>4. Total \in Nat /\ NextStamp \in Nat
    BY <1>1 DEF Total, NextStamp
  <1> QED
    BY <1>2, <1>3, <1>4

(* What a byte of the mouse leaves behind when it is captured, and when it *)
(* is lost; a byte of the keyboard.                                        *)
LEMMA SentLast ==
  ASSUME TypeInv, NEW v \in Heads \cup Moves, NEW captured \in BOOLEAN,
         MouseSend(v, captured)
  PROVE  /\ NextStamp' = NextStamp + 1
         /\ \A k \in 1 .. Total : At(k)' = At(k)
         /\ captured => /\ Total' = Total + 1
                        /\ ~IsKey(At(Total)')
                        /\ Stamp(At(Total)') = NextStamp
                        /\ At(Total)'.packet \in Nat
                        /\ At(Total)'.role = role
                        /\ At(Total)'.val = v
         /\ ~captured => Total' = Total
         /\ IF role = 0 THEN v \in Heads ELSE v \in Moves
  <1>1. /\ mouseCycle \in 0 .. 2 /\ role \in 0 .. 2 /\ sentPackets \in Nat
        /\ role # 0 => sentPackets > 0
        /\ call \in Seq(Byte) /\ log \in Seq(Byte)
    BY DEF TypeInv, TypeOK
  <1>2. /\ sentPackets' = IF role = 0 THEN sentPackets + 1 ELSE sentPackets
        /\ role' = (role + 1) % 3
        /\ UNCHANGED <<mouseCycle, mouseBytes, call>>
        /\ IF role = 0 THEN v \in Heads ELSE v \in Moves
    BY DEF MouseSend, decoderVars
  <1>3. NextStamp' = NextStamp + 1
    BY <1>1, <1>2 DEF NextStamp
  <1> DEFINE b == [val |-> v, packet |-> sentPackets', role |-> role]
  <1>4. /\ b.val = v /\ b.role = role /\ ~IsKey(b) /\ Stamp(b) = NextStamp
        /\ b.packet \in Nat
    BY <1>1, <1>2 DEF IsKey, Stamp, NextStamp
  <1>5. IF captured THEN log' = Append(log, b) ELSE log' = log
    BY DEF MouseSend
  <1> HIDE DEF b
  <1>6. /\ Len(log') = IF captured THEN Len(log) + 1 ELSE Len(log)
        /\ \A i \in 1 .. Len(log) : log'[i] = log[i]
        /\ captured => log'[Len(log) + 1] = b
    BY <1>1, <1>5
  <1>7. \A k \in 1 .. Total : At(k)' = At(k)
    BY <1>1, <1>2, <1>6 DEF At, Total
  <1>8. ASSUME captured PROVE Total' = Total + 1 /\ At(Total)' = b
    <2>1. Len(log') = Len(log) + 1 /\ log'[Len(log) + 1] = b
      BY <1>6, <1>8
    <2>2. Total' = Total + 1
      BY <1>1, <1>2, <2>1 DEF Total
    <2>3. At(Total)' = log'[(Total + 1) - mouseCycle - Len(call)]
      <3>1. ~(Total + 1 <= mouseCycle) /\ ~(Total + 1 <= mouseCycle + Len(call))
        BY <1>1 DEF Total
      <3> QED
        BY <1>2, <2>2, <3>1 DEF At
    <2>4. (Total + 1) - mouseCycle - Len(call) = Len(log) + 1
      BY <1>1 DEF Total
    <2> QED
      BY <2>1, <2>2, <2>3, <2>4
  <1>9. ~captured => Total' = Total
    BY <1>1, <1>2, <1>6 DEF Total
  <1> QED
    BY <1>2, <1>3, <1>4, <1>7, <1>8, <1>9

LEMMA KeyLast ==
  ASSUME TypeInv, NEW v \in Scancodes, KeySend(v)
  PROVE  /\ NextStamp' = NextStamp /\ Total' = Total + 1
         /\ \A k \in 1 .. Total : At(k)' = At(k)
         /\ IsKey(At(Total)')
  <1>1. /\ mouseCycle \in 0 .. 2 /\ call \in Seq(Byte) /\ log \in Seq(Byte)
    BY DEF TypeInv, TypeOK
  <1> DEFINE b == [NoByte EXCEPT !.val = v]
  <1>2. IsKey(b)
    BY DEF IsKey, NoByte
  <1>3. /\ log' = Append(log, b)
        /\ UNCHANGED <<mouseCycle, mouseBytes, call, sentPackets, role>>
    BY DEF KeySend, decoderVars
  <1> HIDE DEF b
  <1>4. /\ Len(log') = Len(log) + 1
        /\ \A i \in 1 .. Len(log) : log'[i] = log[i]
        /\ log'[Len(log) + 1] = b
    BY <1>1, <1>3
  <1>5. \A k \in 1 .. Total : At(k)' = At(k)
    BY <1>1, <1>3, <1>4 DEF At, Total
  <1>6. Total' = Total + 1 /\ At(Total)' = b /\ NextStamp' = NextStamp
    <2>1. NextStamp' = NextStamp
      BY <1>3 DEF NextStamp
    <2>2. Total' = Total + 1
      BY <1>1, <1>3, <1>4 DEF Total
    <2>3. At(Total)' = log'[(Total + 1) - mouseCycle - Len(call)]
      <3>1. ~(Total + 1 <= mouseCycle) /\ ~(Total + 1 <= mouseCycle + Len(call))
        BY <1>1 DEF Total
      <3> QED
        BY <1>3, <2>2, <3>1 DEF At
    <2>4. (Total + 1) - mouseCycle - Len(call) = Len(log) + 1
      BY <1>1 DEF Total
    <2> QED
      BY <1>4, <2>1, <2>2, <2>3, <2>4
  <1> QED
    BY <1>2, <1>5, <1>6

(* A call hands the oldest n captured bytes to the decoder, or, when its   *)
(* number is the keyboard's, drops them.                                   *)
LEMMA CallPending ==
  ASSUME TypeInv, OrderInv, NEW irq \in {1, 12}, NEW n \in 1 .. Len(log),
         IrqCall(irq, n)
  PROVE  /\ \A i \in 1 .. n : At(mouseCycle + i) = log[i]
         /\ mouseCycle + n <= Total
         /\ irq = 12 => /\ Total' = Total
                        /\ \A k \in 1 .. Total : At(k)' = At(k)
         /\ irq = 1 => /\ Total' = Total - n
                       /\ \A k \in 1 .. mouseCycle : At(k)' = At(k)
                       /\ \A k \in mouseCycle + 1 .. Total - n : At(k)' = At(k + n)
  <1>1. /\ mouseCycle \in 0 .. 2 /\ log \in Seq(Byte) /\ call = <<>>
    BY DEF TypeInv, TypeOK, OrderInv, IrqCall
  <1>2. /\ call' = MouseCall(irq, SubSeq(log, 1, n))
        /\ log' = SubSeq(log, n + 1, Len(log))
        /\ UNCHANGED <<mouseCycle, mouseBytes>>
    BY DEF IrqCall
  <1>3. /\ Len(SubSeq(log, 1, n)) = n
        /\ \A i \in 1 .. n : SubSeq(log, 1, n)[i] = log[i]
        /\ Len(log') = Len(log) - n
        /\ \A i \in 1 .. Len(log) - n : log'[i] = log[i + n]
    BY <1>1, <1>2, PartOfBytes
  <1>4. Len(call) = 0 /\ Total = mouseCycle + Len(log)
    BY <1>1 DEF Total
  <1>5. \A k \in 1 .. Total :
          At(k) = IF k <= mouseCycle THEN mouseBytes[k - 1] ELSE log[k - mouseCycle]
    BY <1>1, <1>4 DEF At
  <1>6. ASSUME irq = 12
        PROVE  Total' = Total /\ \A k \in 1 .. Total : At(k)' = At(k)
    <2>1. Len(call') = n /\ \A i \in 1 .. n : call'[i] = log[i]
      BY <1>2, <1>3, <1>6 DEF MouseCall
    <2>2. Total' = Total
      <3>1. Len(call') = n /\ Len(log') = Len(log) - n /\ mouseCycle' = mouseCycle
        BY <1>2, <1>3, <2>1
      <3> QED
        BY <1>1, <1>4, <3>1 DEF Total
    <2>3. ASSUME NEW k \in 1 .. Total PROVE At(k)' = At(k)
      <3>1. At(k)' = IF k <= mouseCycle THEN mouseBytes[k - 1]
                     ELSE IF k <= mouseCycle + n THEN call'[k - mouseCycle]
                     ELSE log'[k - mouseCycle - n]
        BY <1>2, <2>1 DEF At
      <3>2. CASE k <= mouseCycle + n
        BY <1>1, <1>5, <2>1, <3>1, <3>2
      <3>3. CASE k > mouseCycle + n
        <4>1. k - mouseCycle - n \in 1 .. Len(log) - n
              /\ (k - mouseCycle - n) + n = k - mouseCycle
          BY <1>1, <1>4, <3>3
        <4>2. log'[k - mouseCycle - n] = log[k - mouseCycle]
          BY <1>3, <4>1
        <4> QED
          BY <1>1, <1>5, <3>1, <3>3, <4>2
      <3> QED
        BY <1>1, <1>4, <3>2, <3>3
    <2> QED
      BY <2>2, <2>3
  <1>7. ASSUME irq = 1
        PROVE  /\ Total' = Total - n
               /\ \A k \in 1 .. mouseCycle : At(k)' = At(k)
               /\ \A k \in mouseCycle + 1 .. Total - n : At(k)' = At(k + n)
    <2>1. Len(call') = 0
      BY <1>2, <1>7 DEF MouseCall
    <2>2. Total' = Total - n
      <3>1. Len(log') = Len(log) - n /\ mouseCycle' = mouseCycle
        BY <1>2, <1>3
      <3> QED
        BY <1>1, <1>4, <2>1, <3>1 DEF Total
    <2>3. ASSUME NEW k \in 1 .. mouseCycle PROVE At(k)' = At(k)
      BY <1>2 DEF At
    <2>4. ASSUME NEW k \in mouseCycle + 1 .. Total - n PROVE At(k)' = At(k + n)
      <3>1. k - mouseCycle \in 1 .. Len(log) - n
            /\ k + n \in 1 .. Total /\ k + n > mouseCycle
            /\ (k - mouseCycle) + n = k + n - mouseCycle
        BY <1>1, <1>4
      <3>2. At(k)' = log'[k - mouseCycle]
        <4>1. /\ mouseCycle' = mouseCycle /\ mouseBytes' = mouseBytes
              /\ mouseCycle \in 0 .. 2 /\ k \in Int
              /\ k - mouseCycle - 0 = k - mouseCycle
          BY <1>1, <1>2
        <4>2. ~(k <= mouseCycle) /\ ~(k <= mouseCycle + 0)
          BY <3>1, <4>1
        <4> QED
          BY <2>1, <4>1, <4>2 DEF At
      <3>3. log'[k - mouseCycle] = log[k + n - mouseCycle]
        BY <1>3, <3>1
      <3>4. At(k + n) = log[k + n - mouseCycle]
        BY <1>1, <1>5, <3>1
      <3> QED
        BY <3>2, <3>3, <3>4
    <2> QED
      BY <2>2, <2>3, <2>4
  <1>8. \A i \in 1 .. n : At(mouseCycle + i) = log[i]
    <2> TAKE i \in 1 .. n
    <2> DEFINE k == mouseCycle + i
    <2>1. k \in 1 .. Total /\ ~(k <= mouseCycle) /\ k - mouseCycle = i
      BY <1>1, <1>4
    <2> HIDE DEF k
    <2>2. At(k) = log[i]
      BY <1>5, <2>1
    <2> QED
      BY <2>2 DEF k
  <1> QED
    BY <1>1, <1>4, <1>6, <1>7, <1>8

(* The decoder takes bytes from the front. It drops what it leaves: none   *)
(* with a byte it takes, three with a packet when no break skips others.   *)
LEMMA DecodePending ==
  ASSUME TypeInv, MouseByte \/ MousePacket
  PROVE  \E d \in 0 .. Total :
           /\ Total' = Total - d
           /\ \A k \in 1 .. Total - d : At(k)' = At(k + d)
           /\ MousePacket => d >= 3 /\ (call' = Tail(call) => d = 3)
           /\ MouseByte /\ mouseCycle' # mouseCycle => d = 0
  <1>1. /\ mouseCycle \in 0 .. 2 /\ mouseBytes \in [0 .. 2 -> Byte]
        /\ log \in Seq(Byte) /\ call \in Seq(Byte)
    BY DEF TypeInv, TypeOK
  <1>2. log' = log /\ call # <<>>
    BY DEF MouseByte, MousePacket, envVars
  <1>3. /\ Len(call) > 0 /\ Len(Tail(call)) = Len(call) - 1
        /\ \A i \in 1 .. Len(call) - 1 : Tail(call)[i] = call[i + 1]
        /\ Head(call) = call[1]
    BY <1>1, <1>2
  <1>4. ASSUME mouseCycle' = 0, call' = <<>>
        PROVE  \E d \in 0 .. Total :
                 /\ Total' = Total - d
                 /\ \A k \in 1 .. Total - d : At(k)' = At(k + d)
                 /\ d = mouseCycle + Len(call)
    <2> DEFINE d == mouseCycle + Len(call)
    <2>1. d \in 0 .. Total
      BY <1>1 DEF Total
    <2>2. Len(call') = 0
      BY <1>4
    <2>3. Total' = Total - d
      BY <1>1, <1>2, <1>4, <2>2 DEF Total
    <2>4. \A k \in 1 .. Total - d : At(k)' = At(k + d)
      BY <1>1, <1>2, <1>4, <2>2 DEF At, Total
    <2> QED
      BY <2>1, <2>3, <2>4
  <1>5. ASSUME mouseCycle' = 0, call' = Tail(call)
        PROVE  \E d \in 0 .. Total :
                 /\ Total' = Total - d
                 /\ \A k \in 1 .. Total - d : At(k)' = At(k + d)
                 /\ d = mouseCycle + 1
    <2> DEFINE d == mouseCycle + 1
    <2>1. d \in 0 .. Total
      BY <1>1, <1>3 DEF Total
    <2>2. /\ Len(call') = Len(call) - 1
          /\ \A i \in 1 .. Len(call) - 1 : call'[i] = call[i + 1]
      BY <1>3, <1>5
    <2>3. Total' = Total - d
      BY <1>1, <1>2, <1>3, <1>5, <2>2 DEF Total
    <2>4. ASSUME NEW k \in 1 .. Total - d PROVE At(k)' = At(k + d)
      <3>1. CASE k <= Len(call) - 1
        <4>1. At(k)' = call'[k] /\ At(k + d) = call[k + 1]
          BY <1>1, <1>5, <2>2, <3>1 DEF At
        <4> QED
          BY <1>1, <1>3, <2>2, <3>1, <4>1
      <3>2. CASE k > Len(call) - 1
        <4>1. At(k)' = log[k - (Len(call) - 1)]
          BY <1>1, <1>2, <1>5, <2>2, <3>2 DEF At
        <4>2. At(k + d) = log[k + d - mouseCycle - Len(call)]
          BY <1>1, <3>2 DEF At
        <4>3. k - (Len(call) - 1) = k + d - mouseCycle - Len(call)
          BY <1>1
        <4> QED
          BY <4>1, <4>2, <4>3
      <3> QED
        BY <1>1, <3>1, <3>2
    <2> QED
      BY <2>1, <2>3, <2>4
  <1>6. CASE MousePacket
    <2>1. mouseCycle = 2 /\ mouseCycle' = 0 /\ (call' = <<>> \/ call' = Tail(call))
          /\ ~MouseByte
      BY <1>6 DEF MousePacket, MouseByte, NextCycle, Break
    <2>2. CASE call' = Tail(call)
      BY <1>3, <1>5, <2>1, <2>2
    <2>3. CASE call' # Tail(call)
      BY <1>3, <1>4, <2>1, <2>3
    <2> QED
      BY <2>2, <2>3
  <1>7. CASE MouseByte /\ mouseCycle' = mouseCycle
    <2>1. mouseCycle = 0 /\ mouseCycle' = 0 /\ (call' = <<>> \/ call' = Tail(call))
      <3>1. mouseCycle < 2 /\ mouseCycle' # NextCycle
        BY <1>1, <1>7 DEF MouseByte, NextCycle
      <3> QED
        BY <1>7, <3>1 DEF MouseByte, Break
    <2>2. ~MousePacket
      BY <2>1 DEF MousePacket
    <2> QED
      BY <1>4, <1>5, <1>7, <2>1, <2>2
  <1>8. CASE MouseByte /\ mouseCycle' # mouseCycle
    <2>1. /\ mouseCycle' = mouseCycle + 1 /\ mouseCycle < 2 /\ call' = Tail(call)
          /\ mouseBytes' = [mouseBytes EXCEPT ![mouseCycle] = Head(call)]
          /\ ~MousePacket
      BY <1>1, <1>8 DEF MouseByte, MousePacket, NextCycle
    <2>2. /\ Len(call') = Len(call) - 1
          /\ \A i \in 1 .. Len(call) - 1 : call'[i] = call[i + 1]
      BY <1>3, <2>1
    <2>3. Total' = Total - 0 /\ Total \in Nat
      BY <1>1, <1>2, <2>1, <2>2 DEF Total
    <2>4. ASSUME NEW k \in 1 .. Total PROVE At(k)' = At(k)
      <3>1. CASE k <= mouseCycle + 1
        <4>1. mouseCycle' = mouseCycle + 1 /\ mouseCycle \in 0 .. 1 /\ k \in Nat
          BY <1>1, <2>1
        <4>2. At(k)' = mouseBytes'[k - 1]
          BY <3>1, <4>1 DEF At
        <4>3. CASE k <= mouseCycle
          <5>1. k - 1 \in 0 .. 2 /\ k - 1 # mouseCycle
            BY <4>1, <4>3
          <5>2. mouseBytes'[k - 1] = mouseBytes[k - 1]
            BY <1>1, <2>1, <5>1
          <5> QED
            BY <4>2, <4>3, <5>2 DEF At
        <4>4. CASE k = mouseCycle + 1
          <5>1. mouseBytes'[k - 1] = call[1]
            BY <1>1, <1>3, <2>1, <4>1, <4>4
          <5>2. At(k) = call[1]
            BY <1>3, <4>1, <4>4 DEF At
          <5> QED
            BY <4>2, <5>1, <5>2
        <4> QED
          BY <3>1, <4>1, <4>3, <4>4
      <3>2. CASE k > mouseCycle + 1
        BY <1>1, <1>2, <1>3, <2>1, <2>2, <3>2 DEF At, Total
      <3> QED
        BY <1>1, <3>1, <3>2
    <2>5. \A k \in 1 .. Total - 0 : At(k)' = At(k + 0)
      BY <2>3, <2>4
    <2> QED
      BY <2>1, <2>3, <2>5
  <1> QED
    BY <1>6, <1>7, <1>8

-----------------------------------------------------------------------------
(* Leaving bytes out keeps the others in order, whatever is left out.      *)
LEMMA Thinned ==
  ASSUME TypeInv, Fits, Ordered, Total' \in Nat, NextStamp' = NextStamp,
         NEW f \in [1 .. Total' -> 1 .. Total],
         \A k \in 1 .. Total' : At(k)' = At(f[k]),
         \A k, l \in 1 .. Total' : k < l => f[k] < f[l]
  PROVE  Fits' /\ Ordered' /\ \A q \in Nat : Done(q) => Done(q)'
  <1>1. Fits'
    BY DEF Fits
  <1>2. Ordered'
    <2> SUFFICES ASSUME NEW k \in 1 .. Total', NEW l \in 1 .. Total', k < l,
                        ~IsKey(At(k)'), ~IsKey(At(l)')
                 PROVE  Stamp(At(k)') < Stamp(At(l)')
      BY DEF Ordered
    <2>1. f[k] < f[l] /\ f[k] \in 1 .. Total /\ f[l] \in 1 .. Total
      OBVIOUS
    <2> QED
      BY <2>1 DEF Ordered
  <1>3. ASSUME NEW q \in Nat, Done(q) PROVE Done(q)'
    BY <1>3 DEF Done
  <1> QED
    BY <1>1, <1>2, <1>3

(* A step that does not touch the bytes is the case that leaves none out.  *)
LEMMA Untouched ==
  ASSUME TypeInv, Fits, Ordered, UNCHANGED <<envVars, call, mouseCycle, mouseBytes>>
  PROVE  /\ Total' = Total /\ NextStamp' = NextStamp
         /\ \A k \in 1 .. Total : At(k)' = At(k)
         /\ Fits' /\ Ordered' /\ \A q \in Nat : Done(q) => Done(q)'
  <1>1. Total' = Total /\ NextStamp' = NextStamp
    BY DEF Total, NextStamp, envVars
  <1>2. \A k \in 1 .. Total : At(k)' = At(k)
    BY DEF At, envVars
  <1> DEFINE f == [k \in 1 .. Total |-> k]
  <1>3. /\ f \in [1 .. Total' -> 1 .. Total] /\ Total' \in Nat
        /\ \A k \in 1 .. Total' : At(k)' = At(f[k])
        /\ \A k, l \in 1 .. Total' : k < l => f[k] < f[l]
    BY <1>1, <1>2, PendingType
  <1> HIDE DEF f
  <1> QED
    BY <1>1, <1>2, <1>3, Thinned

LEMMA OrderSend ==
  ASSUME TypeInv, OrderInv, NEW v \in Heads \cup Moves, NEW captured \in BOOLEAN,
         MouseSend(v, captured)
  PROVE  OrderInv' /\ \A q \in Nat : Done(q) => Done(q)'
  <1>1. /\ NextStamp' = NextStamp + 1
        /\ \A k \in 1 .. Total : At(k)' = At(k)
        /\ captured => /\ Total' = Total + 1
                       /\ ~IsKey(At(Total)')
                       /\ Stamp(At(Total)') = NextStamp
                       /\ At(Total)'.packet \in Nat
                       /\ At(Total)'.role = role
                       /\ At(Total)'.val = v
        /\ ~captured => Total' = Total
        /\ IF role = 0 THEN v \in Heads ELSE v \in Moves
    BY SentLast
  <1>2. /\ NextStamp \in Nat /\ Total \in Nat
        /\ \A k \in 1 .. Total : Stamp(At(k)) \in Nat
    BY PendingType
  <1>3. Fits'
    <2> SUFFICES ASSUME NEW k \in 1 .. Total', ~IsKey(At(k)')
                 PROVE  /\ Stamp(At(k)') < NextStamp'
                        /\ IF At(k)'.role = 0 THEN At(k)'.val \in Heads
                           ELSE At(k)'.val \in Moves
      BY DEF Fits
    <2>1. CASE k \in 1 .. Total
      BY <1>1, <1>2, <2>1 DEF Fits, OrderInv
    <2>2. CASE k \notin 1 .. Total
      <3>1. captured /\ k = Total'
        BY <1>1, <1>2, <2>2
      <3> QED
        BY <1>1, <1>2, <3>1
    <2> QED
      BY <2>1, <2>2
  <1>4. Ordered'
    <2> SUFFICES ASSUME NEW k \in 1 .. Total', NEW l \in 1 .. Total', k < l,
                        ~IsKey(At(k)'), ~IsKey(At(l)')
                 PROVE  Stamp(At(k)') < Stamp(At(l)')
      BY DEF Ordered
    <2>1. k \in 1 .. Total
      BY <1>1, <1>2
    <2>2. CASE l \in 1 .. Total
      BY <1>1, <2>1, <2>2 DEF Ordered, OrderInv
    <2>3. CASE l \notin 1 .. Total
      <3>1. captured /\ l = Total'
        BY <1>1, <1>2, <2>3
      <3>2. Stamp(At(l)') = NextStamp
        BY <1>1, <3>1
      <3> QED
        BY <1>1, <2>1, <3>2 DEF Fits, OrderInv
    <2> QED
      BY <2>2, <2>3
  <1>5. ASSUME NEW q \in Nat, Done(q) PROVE Done(q)'
    <2>1. 3 * q + 2 < NextStamp'
      BY <1>1, <1>2, <1>5 DEF Done
    <2>2. ASSUME NEW k \in 1 .. Total', ~IsKey(At(k)') PROVE At(k)'.packet > q
      <3>1. CASE k \in 1 .. Total
        BY <1>1, <1>5, <2>2, <3>1 DEF Done
      <3>2. CASE k \notin 1 .. Total
        <4>1. k = Total' /\ Stamp(At(k)') = NextStamp /\ At(k)'.role = role
          BY <1>1, <1>2, <3>2
        <4>3. At(k)'.packet \in Nat /\ role \in 0 .. 2
          BY <1>1, <1>2, <3>2, <4>1 DEF TypeInv, TypeOK
        <4>4. 3 * At(k)'.packet + At(k)'.role = NextStamp
          BY <4>1 DEF Stamp
        <4>5. 3 * q + 2 < NextStamp
          BY <1>5 DEF Done
        <4> QED
          BY <1>2, <4>1, <4>3, <4>4, <4>5
      <3> QED
        BY <3>1, <3>2
    <2> QED
      BY <2>1, <2>2 DEF Done
  <1>6. phase' = phase /\ call' = call /\ mouseCycle' = mouseCycle
        /\ mouseBytes' = mouseBytes
    BY DEF MouseSend, decoderVars
  <1> QED
    BY <1>3, <1>4, <1>5, <1>6 DEF OrderInv

LEMMA OrderKey ==
  ASSUME TypeInv, OrderInv, NEW v \in Scancodes, KeySend(v)
  PROVE  OrderInv' /\ \A q \in Nat : Done(q) => Done(q)'
  <1>1. /\ NextStamp' = NextStamp /\ Total' = Total + 1 /\ Total \in Nat
        /\ \A k \in 1 .. Total : At(k)' = At(k)
        /\ IsKey(At(Total)')
    BY KeyLast, PendingType
  <1>2. ASSUME NEW k \in 1 .. Total', ~IsKey(At(k)')
        PROVE  k \in 1 .. Total /\ At(k)' = At(k)
    BY <1>1, <1>2
  <1>3. Fits'
    BY <1>1, <1>2 DEF Fits, OrderInv
  <1>4. Ordered'
    BY <1>1, <1>2 DEF Ordered, OrderInv
  <1>5. \A q \in Nat : Done(q) => Done(q)'
    BY <1>1, <1>2 DEF Done
  <1>6. phase' = phase /\ call' = call /\ mouseCycle' = mouseCycle
        /\ mouseBytes' = mouseBytes
    BY DEF KeySend, decoderVars
  <1> QED
    BY <1>3, <1>4, <1>5, <1>6 DEF OrderInv

LEMMA OrderCall ==
  ASSUME TypeInv, OrderInv, NEW irq \in {1, 12}, NEW n \in 1 .. Len(log),
         IrqCall(irq, n)
  PROVE  OrderInv' /\ \A q \in Nat : Done(q) => Done(q)'
  <1>1. /\ mouseCycle \in 0 .. 2 /\ Total \in Nat /\ mouseCycle + n <= Total
        /\ n \in Nat
    <2>1. mouseCycle \in 0 .. 2
      BY DEF TypeInv, TypeOK
    <2>2. n \in Nat
      OBVIOUS
    <2>3. Total \in Nat /\ mouseCycle + n <= Total
      BY CallPending, PendingType
    <2> QED
      BY <2>1, <2>2, <2>3
  <1>2. NextStamp' = NextStamp /\ phase' = "irq"
        /\ mouseCycle' = mouseCycle /\ mouseBytes' = mouseBytes
    BY DEF IrqCall, NextStamp
  <1>3. Fits' /\ Ordered' /\ \A q \in Nat : Done(q) => Done(q)'
    <2>1. CASE irq = 12
      <3> DEFINE f == [k \in 1 .. Total |-> k]
      <3>1. /\ f \in [1 .. Total' -> 1 .. Total] /\ Total' \in Nat
            /\ \A k \in 1 .. Total' : At(k)' = At(f[k])
            /\ \A k, l \in 1 .. Total' : k < l => f[k] < f[l]
        BY <1>1, <2>1, CallPending
      <3> HIDE DEF f
      <3> QED
        BY <1>2, <3>1, Thinned DEF OrderInv
    <2>2. CASE irq = 1
      <3> DEFINE f == [k \in 1 .. Total - n |-> IF k <= mouseCycle THEN k ELSE k + n]
      <3>1. /\ Total' = Total - n
            /\ \A k \in 1 .. mouseCycle : At(k)' = At(k)
            /\ \A k \in mouseCycle + 1 .. Total - n : At(k)' = At(k + n)
        BY <2>2, CallPending
      <3>2. f \in [1 .. Total' -> 1 .. Total] /\ Total' \in Nat
        BY <1>1, <3>1
      <3>3. \A k \in 1 .. Total' : At(k)' = At(f[k])
        BY <1>1, <3>1
      <3>4. \A k, l \in 1 .. Total' : k < l => f[k] < f[l]
        BY <1>1, <3>1
      <3> HIDE DEF f
      <3> QED
        BY <1>2, <3>2, <3>3, <3>4, Thinned DEF OrderInv
    <2> QED
      BY <2>1, <2>2
  <1> QED
    BY <1>2, <1>3 DEF OrderInv

LEMMA OrderDecode ==
  ASSUME TypeInv, OrderInv, MouseByte \/ MousePacket
  PROVE  OrderInv' /\ \A q \in Nat : Done(q) => Done(q)'
  <1>1. PICK d \in 0 .. Total :
          /\ Total' = Total - d
          /\ \A k \in 1 .. Total - d : At(k)' = At(k + d)
    BY DecodePending
  <1>2. NextStamp' = NextStamp /\ phase' = phase /\ phase = "irq"
    BY DEF MouseByte, MousePacket, NextStamp, envVars
  <1>3. Fits' /\ Ordered' /\ \A q \in Nat : Done(q) => Done(q)'
    <2> DEFINE f == [k \in 1 .. Total - d |-> k + d]
    <2>1. /\ f \in [1 .. Total' -> 1 .. Total] /\ Total' \in Nat
          /\ \A k \in 1 .. Total' : At(k)' = At(f[k])
          /\ \A k, l \in 1 .. Total' : k < l => f[k] < f[l]
      BY <1>1, PendingType
    <2> HIDE DEF f
    <2> QED
      BY <1>2, <2>1, Thinned DEF OrderInv
  <1>4. ASSUME mouseCycle' > 0 PROVE Sync(mouseBytes'[0])
    <2>1. /\ mouseCycle \in 0 .. 2 /\ mouseBytes \in [0 .. 2 -> Byte]
      BY DEF TypeInv, TypeOK
    <2>2. CASE MousePacket
      BY <1>4, <2>1, <2>2 DEF MousePacket, NextCycle
    <2>3. CASE MouseByte
      <3>1. CASE mouseCycle = 0
        <4>1. mouseCycle' # mouseCycle
          BY <1>4, <3>1
        <4>2. Sync(Head(call)) /\ mouseBytes' = [mouseBytes EXCEPT ![0] = Head(call)]
          BY <2>3, <3>1, <4>1 DEF MouseByte
        <4> QED
          BY <2>1, <4>2
      <3>2. CASE mouseCycle # 0
        <4>1. mouseBytes'[0] = mouseBytes[0]
          BY <2>1, <2>3, <3>2 DEF MouseByte
        <4> QED
          BY <2>1, <3>2, <4>1 DEF OrderInv
      <3> QED
        BY <3>1, <3>2
    <2> QED
      BY <2>2, <2>3
  <1> QED
    BY <1>2, <1>3, <1>4 DEF OrderInv

LEMMA OrderStep == TypeInv /\ OrderInv /\ [Next]_vars
                     => OrderInv' /\ \A q \in Nat : Done(q) => Done(q)'
  <1> SUFFICES ASSUME TypeInv, OrderInv, [Next]_vars
               PROVE  OrderInv' /\ \A q \in Nat : Done(q) => Done(q)'
    OBVIOUS
  <1>1. CASE IrqReturn \/ Schedule \/ RelayPacket \/ Frame \/ UNCHANGED vars
    <2>1. UNCHANGED <<envVars, call, mouseCycle, mouseBytes>>
      BY <1>1 DEF IrqReturn, Schedule, RelayPacket, Frame, vars, decoderVars
    <2>2. phase' # "irq" => call = <<>>
      BY <1>1 DEF IrqReturn, Schedule, RelayPacket, Frame, vars, OrderInv
    <2>3. Fits' /\ Ordered' /\ \A q \in Nat : Done(q) => Done(q)'
      BY <2>1, Untouched DEF OrderInv
    <2> QED
      BY <2>1, <2>2, <2>3 DEF OrderInv
  <1> QED
    BY <1>1, OrderSend, OrderKey, OrderCall, OrderDecode DEF Next

LEMMA OrderAlways == Spec => []OrderInv
  <1>1. Init => OrderInv
    BY DEF Init, OrderInv, Fits, Ordered, Total
  <1> QED
    BY <1>1, OrderStep, TypeAlways, PTL DEF Spec

-----------------------------------------------------------------------------
(* The order of the packets.                                               *)

LEMMA MotionMeaning ==
  MotionOnce <=> /\ \A i \in Waiting : Number(i) > moved
                 /\ \A i, j \in Waiting : i < j => Number(i) < Number(j)
  BY DEF MotionOnce, Waiting, Number

LEMMA NumberType ==
  ASSUME TypeInv
  PROVE  /\ \A i \in 1 .. Len(packets) : Number(i) \in Nat
         /\ moved \in Nat /\ Len(packets) \in Nat
  <1>1. packets \in Seq(Packet) /\ moved \in Nat
    BY DEF TypeInv, TypeOK
  <1>2. ASSUME NEW i \in 1 .. Len(packets) PROVE Number(i) \in Nat
    <2>1. packets[i] \in Packet
      BY <1>1
    <2>2. packets[i].raw[0] \in Byte
      BY <2>1 DEF Packet
    <2> QED
      BY <2>2 DEF Byte, Number
  <1> QED
    BY <1>1, <1>2

(* The three bytes a packet is made of are the oldest on their way.        *)
LEMMA PacketBytes ==
  ASSUME TypeInv, MousePacket
  PROVE  /\ Total >= 3 /\ Total \in Nat
         /\ mouseBytes'[0] = At(1) /\ mouseBytes'[1] = At(2)
         /\ mouseBytes'[2] = At(3) /\ At(1) = mouseBytes[0]
         /\ mouseBytes' \in [0 .. 2 -> Byte]
  <1>1. /\ mouseCycle = 2 /\ mouseBytes \in [0 .. 2 -> Byte]
        /\ call \in Seq(Byte) /\ call # <<>> /\ log \in Seq(Byte)
        /\ mouseBytes' = [mouseBytes EXCEPT ![2] = Head(call)]
    BY DEF MousePacket, TypeInv, TypeOK
  <1>2. Len(call) >= 1 /\ Head(call) = call[1] /\ Head(call) \in Byte
    BY <1>1
  <1>3. At(1) = mouseBytes[0] /\ At(2) = mouseBytes[1] /\ At(3) = call[1]
    BY <1>1, <1>2 DEF At
  <1> QED
    BY <1>1, <1>2, <1>3 DEF Total

(* A genuine packet is newer than what was decoded before it, and over     *)
(* once it is decoded.                                                     *)
LEMMA GenuineDecoded ==
  ASSUME TypeInv, OrderInv, MousePacket, Genuine(mouseBytes')
  PROVE  /\ \A q \in Nat : Done(q) => At(1).packet > q
         /\ \A q \in Nat : q = At(1).packet => Done(q)'
         /\ mouseBytes'[0].packet = At(1).packet
         /\ At(1).packet \in Nat
  <1>1. /\ Total >= 3 /\ Total \in Nat
        /\ mouseBytes'[0] = At(1) /\ mouseBytes'[1] = At(2)
        /\ mouseBytes'[2] = At(3)
    BY PacketBytes
  <1>2. \A k \in 1 .. Total :
          /\ At(k) \in Byte /\ Stamp(At(k)) \in Nat
          /\ At(k).packet \in Nat /\ At(k).role \in 0 .. 2
    BY PendingType
  <1>3. /\ ~IsKey(At(1)) /\ ~IsKey(At(3)) /\ At(3).role = 2
        /\ At(3).packet = At(1).packet
    BY <1>1 DEF Genuine
  <1> DEFINE p == At(1).packet
  <1>4. Stamp(At(3)) = 3 * p + 2
    BY <1>3 DEF Stamp
  <1>5. 3 * p + 2 < NextStamp
    BY <1>1, <1>3, <1>4 DEF OrderInv, Fits
  <1>6. PICK d \in 0 .. Total :
          /\ Total' = Total - d
          /\ \A k \in 1 .. Total - d : At(k)' = At(k + d)
          /\ d >= 3
    BY DecodePending
  <1>7. ASSUME NEW k \in 1 .. Total', ~IsKey(At(k)') PROVE At(k)'.packet > p
    <2>1. k + d \in 1 .. Total /\ 3 < k + d /\ At(k)' = At(k + d)
      BY <1>1, <1>6
    <2>2. Stamp(At(3)) < Stamp(At(k + d))
      BY <1>1, <1>3, <1>7, <2>1 DEF OrderInv, Ordered
    <2>3. 3 * p + 2 < 3 * At(k + d).packet + At(k + d).role
      BY <1>4, <2>2 DEF Stamp
    <2>4. At(k + d).packet \in Nat /\ At(k + d).role \in 0 .. 2 /\ p \in Nat
      BY <1>1, <1>2, <2>1
    <2> QED
      BY <2>1, <2>3, <2>4
  <1>8. NextStamp' = NextStamp
    BY DEF MousePacket, NextStamp, envVars
  <1>9. ASSUME NEW q \in Nat, q = p PROVE Done(q)'
    BY <1>5, <1>7, <1>8, <1>9 DEF Done
  <1>10. \A q \in Nat : Done(q) => p > q
    BY <1>1, <1>3 DEF Done
  <1> QED
    BY <1>1, <1>2, <1>9, <1>10

LEMMA NewerPacket ==
  ASSUME TypeInv, OrderInv, NewerInv, MousePacket
  PROVE  NewerInv'
  <1>1. /\ packets \in Seq(Packet) /\ Len(packets) \in Nat
        /\ \A i \in 1 .. Len(packets) : Number(i) \in Nat
        /\ moved \in Nat
    BY NumberType DEF TypeInv, TypeOK
  <1>2. /\ moved' = moved /\ phase = "irq" /\ phase' = phase
    BY DEF MousePacket, userVars
  <1>3. \A q \in Nat : Done(q) => Done(q)'
    BY OrderDecode
  <1>4. Done(moved)'
    BY <1>1, <1>2, <1>3 DEF NewerInv, Done
  <1>5. CASE packets' = packets
    <2>1. Waiting' = Waiting /\ \A i : Number(i)' = Number(i)
      BY <1>2, <1>5 DEF Waiting, Number
    <2>2. ASSUME NEW i \in Waiting' PROVE Done(Number(i))'
      <3>1. Number(i) \in Nat /\ Done(Number(i)) /\ Number(i)' = Number(i)
        BY <1>1, <2>1 DEF NewerInv, Waiting
      <3> QED
        BY <1>3, <3>1 DEF Done
    <2>3. MotionOnce'
      <3>1. MotionOnce
        BY DEF NewerInv
      <3> QED
        BY <1>2, <1>5, <3>1 DEF MotionOnce
    <2> QED
      BY <1>4, <2>2, <2>3 DEF NewerInv
  <1>6. CASE packets' # packets
    <2> DEFINE raw == mouseBytes'
               n == Len(packets)
               p == [dx |-> Delta(raw[0], raw[1], 4),
                     dy |-> Delta(raw[0], raw[2], 3),
                     lmb |-> Bit(raw[0].val, 0), raw |-> raw]
    <2>0. p.raw = raw
      OBVIOUS
    <2>1. packets' = Append(packets, p)
      BY <1>6 DEF MousePacket
    <2> HIDE DEF p
    <2>2. /\ Len(packets') = n + 1 /\ packets'[n + 1] = p
          /\ \A i \in 1 .. n : packets'[i] = packets[i]
      BY <1>1, <2>1
    <2>3. /\ \A i \in 1 .. n : Number(i)' = Number(i)
          /\ \A i \in Waiting' : i # n + 1 => i \in Waiting
          /\ \A i \in Waiting : i \in 1 .. n
          /\ \A i \in Waiting' : i \in 1 .. n + 1
          /\ n + 1 \in Waiting' => Genuine(raw)
      BY <1>1, <1>2, <2>0, <2>2 DEF Waiting, Number
    <2>4. \A i : i = n + 1 => Number(i)' = raw[0].packet
      BY <2>0, <2>2 DEF Number
    <2>5. ASSUME n + 1 \in Waiting'
          PROVE  /\ \A q \in Nat : Done(q) => raw[0].packet > q
                 /\ \A q \in Nat : q = raw[0].packet => Done(q)'
                 /\ raw[0].packet \in Nat
      BY <2>3, <2>5, GenuineDecoded
    <2>6. ASSUME NEW i \in Waiting' PROVE Done(Number(i))'
      <3>1. CASE i = n + 1
        <4>1. \A q \in Nat : q = Number(i)' => Done(q)'
          BY <2>4, <2>5, <3>1
        <4>2. Number(i)' \in Nat
          BY <2>4, <2>5, <3>1
        <4> QED
          BY <4>1, <4>2 DEF Done
      <3>2. CASE i # n + 1
        <4>1. i \in Waiting /\ Number(i) \in Nat /\ Number(i)' = Number(i)
          BY <1>1, <2>3, <3>2
        <4>2. Done(Number(i))
          BY <4>1 DEF NewerInv
        <4> QED
          BY <1>3, <4>1, <4>2 DEF Done
      <3> QED
        BY <3>1, <3>2
    <2>7. ASSUME NEW i \in Waiting' PROVE Number(i)' > moved'
      <3>1. CASE i = n + 1
        BY <1>1, <1>2, <2>4, <2>5, <3>1 DEF NewerInv
      <3>2. CASE i # n + 1
        <4>1. i \in Waiting /\ Number(i)' = Number(i)
          BY <2>3, <3>2
        <4> QED
          BY <1>2, <4>1, MotionMeaning DEF NewerInv
      <3> QED
        BY <3>1, <3>2
    <2>8. ASSUME NEW i \in Waiting', NEW j \in Waiting', i < j
          PROVE  Number(i)' < Number(j)'
      <3>1. i \in Waiting /\ Number(i)' = Number(i) /\ Number(i) \in Nat
            /\ Done(Number(i))
        BY <1>1, <2>3, <2>8 DEF NewerInv
      <3>2. CASE j = n + 1
        BY <2>4, <2>5, <3>1, <3>2
      <3>3. CASE j # n + 1
        <4>1. j \in Waiting /\ Number(j)' = Number(j)
          BY <2>3, <3>3
        <4> QED
          BY <2>8, <3>1, <4>1, MotionMeaning DEF NewerInv
      <3> QED
        BY <3>2, <3>3
    <2>9. MotionOnce'
      BY <2>7, <2>8 DEF MotionOnce, Waiting, Number
    <2> QED
      BY <1>4, <2>6, <2>9 DEF NewerInv
  <1> QED
    BY <1>5, <1>6

(* Relaying a packet, beginning and ending a frame.                        *)
LEMMA NewerRelay ==
  ASSUME TypeInv, OrderInv, NewerInv, Schedule \/ RelayPacket \/ Frame
  PROVE  NewerInv'
  <1>1. /\ Len(packets) \in Nat /\ next \in Nat
        /\ \A i \in 1 .. Len(packets) : Number(i) \in Nat
        /\ moved \in Nat
    BY NumberType DEF TypeInv, TypeOK
  <1>2. \A q \in Nat : Done(q) => Done(q)'
    BY OrderStep DEF Next
  <1>3. ASSUME UNCHANGED packets, Waiting' \subseteq Waiting,
               \/ moved' = moved
               \/ \E i \in Waiting : /\ moved' = Number(i)
                                     /\ \A j \in Waiting' : i < j
        PROVE  NewerInv'
    <2>1. \A i : Number(i)' = Number(i)
      BY <1>3 DEF Number
    <2>2. \A i \in Waiting : i \in 1 .. Len(packets)
      BY DEF Waiting
    <2>3. ASSUME NEW i \in Waiting' PROVE Done(Number(i))'
      <3>1. Done(Number(i)) /\ Number(i) \in Nat /\ Number(i)' = Number(i)
        BY <1>1, <1>3, <2>1, <2>2 DEF NewerInv
      <3> QED
        BY <1>2, <3>1 DEF Done
    <2>4. moved' \in Nat /\ Done(moved')
      BY <1>1, <1>3, <2>2 DEF NewerInv
    <2>5. Done(moved)'
      BY <1>2, <2>4 DEF Done
    <2>6. \A i \in Waiting' : Number(i)' > moved'
      BY <1>1, <1>3, <2>1, <2>2, MotionMeaning DEF NewerInv
    <2>7. \A i, j \in Waiting' : i < j => Number(i)' < Number(j)'
      BY <1>3, <2>1, MotionMeaning DEF NewerInv
    <2>8. MotionOnce'
      BY <2>6, <2>7 DEF MotionOnce, Waiting, Number
    <2> QED
      BY <2>3, <2>5, <2>8 DEF NewerInv
  <1>4. CASE Schedule
    <2>1. UNCHANGED <<packets, moved>>
      BY <1>4 DEF Schedule, decoderVars
    <2>2. Waiting' \subseteq Waiting
      BY <1>4, <2>1 DEF Schedule, Waiting
    <2> QED
      BY <1>3, <2>1, <2>2
  <1>5. CASE RelayPacket
    <2>1. /\ UNCHANGED <<packets, phase>> /\ phase = "relay" /\ next' = next + 1
          /\ next \in 1 .. Len(packets)
          /\ moved' = IF Genuine(packets[next].raw) THEN Number(next) ELSE moved
      BY <1>1, <1>5 DEF RelayPacket, decoderVars, Number, TypeInv, TypeOK
    <2>2. Waiting' \subseteq Waiting /\ \A j \in Waiting' : next < j
      BY <1>1, <2>1 DEF Waiting
    <2>3. Genuine(packets[next].raw) => next \in Waiting
      BY <1>1, <2>1 DEF Waiting
    <2> QED
      BY <1>3, <2>1, <2>2, <2>3
  <1>6. CASE Frame
    <2>1. moved' = moved /\ Len(packets') = 0
      BY <1>6 DEF Frame, Emptied
    <2>2. Waiting' = {}
      BY <2>1 DEF Waiting
    <2>3. Done(moved)'
      BY <1>1, <1>2, <2>1 DEF NewerInv, Done
    <2>4. MotionOnce'
      BY <2>2 DEF MotionOnce, Waiting, Number
    <2> QED
      BY <2>2, <2>3, <2>4 DEF NewerInv
  <1> QED
    BY <1>4, <1>5, <1>6

LEMMA NewerStep == TypeInv /\ OrderInv /\ NewerInv /\ [Next]_vars => NewerInv'
  <1> SUFFICES ASSUME TypeInv, OrderInv, NewerInv, [Next]_vars PROVE NewerInv'
    OBVIOUS
  <1>1. CASE MousePacket
    BY <1>1, NewerPacket
  <1>2. CASE Schedule \/ RelayPacket \/ Frame
    BY <1>2, NewerRelay
  <1>3. CASE \/ \E v \in Heads \cup Moves, captured \in BOOLEAN : MouseSend(v, captured)
             \/ \E v \in Scancodes : KeySend(v)
             \/ \E irq \in {1, 12}, n \in 1 .. Len(log) : IrqCall(irq, n)
             \/ MouseByte \/ IrqReturn \/ UNCHANGED vars
    <2>1. UNCHANGED <<packets, next, moved>> /\ (phase' = "relay" <=> phase = "relay")
      BY <1>3 DEF MouseSend, KeySend, IrqCall, MouseByte, IrqReturn, vars,
                  decoderVars, userVars
    <2>2. Waiting' = Waiting /\ \A i : Number(i)' = Number(i)
      BY <2>1 DEF Waiting, Number
    <2>3. /\ \A i \in 1 .. Len(packets) : Number(i) \in Nat
          /\ moved \in Nat
      BY NumberType
    <2>4. \A q \in Nat : Done(q) => Done(q)'
      BY OrderStep
    <2>5. Done(moved)'
      BY <2>1, <2>3, <2>4 DEF NewerInv, Done
    <2>6. ASSUME NEW i \in Waiting' PROVE Done(Number(i))'
      <3>1. Done(Number(i)) /\ Number(i) \in Nat /\ Number(i)' = Number(i)
        BY <2>2, <2>3 DEF NewerInv, Waiting
      <3> QED
        BY <2>4, <3>1 DEF Done
    <2>7. MotionOnce'
      <3>1. MotionOnce
        BY DEF NewerInv
      <3> QED
        BY <2>1, <3>1 DEF MotionOnce
    <2> QED
      BY <2>5, <2>6, <2>7 DEF NewerInv
  <1> QED
    BY <1>1, <1>2, <1>3 DEF Next

LEMMA NewerAlways == Spec => []NewerInv
  <1>1. Init => NewerInv
    BY DEF Init, NewerInv, MotionOnce, Done, NextStamp, Total, Waiting
  <1> QED
    BY <1>1, NewerStep, OrderAlways, TypeAlways, PTL DEF Spec

(* The decoded packets are what the mouse sent: each genuine one moves the *)
(* pointer once and in its turn, by the nine-bit number its bytes make.    *)
THEOREM PacketsAlways == Spec => []PacketsOK
  <1>1. TypeInv /\ DeltaIsNineBit /\ NewerInv => PacketsOK
    BY DEF TypeInv, NewerInv, PacketsOK
  <1> QED
    BY <1>1, TypeAlways, DeltaAlways, NewerAlways, PTL

-----------------------------------------------------------------------------
(* Accidents. Each wrongly framed packet uses one up: a key's byte among   *)
(* its three, or, since it begins with a head, a byte of the mouse missing *)
(* between its first and its last; or it begins with a motion byte that    *)
(* was taken for a head.                                                   *)

LEMMA AccidentSizes ==
  ASSUME TypeInv
  PROVE  /\ IsFiniteSet(KeysHeld) /\ IsFiniteSet(KeysInCall) /\ IsFiniteSet(Gaps)
         /\ Cardinality(KeysHeld) \in Nat /\ Cardinality(KeysInCall) \in Nat
         /\ Cardinality(Gaps) \in Nat
         /\ misframed \in Nat /\ disturbed \in Nat /\ mistaken \in Nat
         /\ FalseHead \in Nat /\ Charged \in Int
  <1>1. /\ mouseCycle \in Nat /\ Len(call) \in Nat /\ NextStamp \in Nat
        /\ misframed \in Nat /\ disturbed \in Nat /\ mistaken \in Nat
        /\ FalseHead \in Nat /\ Charged \in Int
    BY PendingType DEF TypeInv, TypeOK, FalseHead, Charged
  <1>2. \A n \in Nat : IsFiniteSet(0 .. n - 1)
    <2> SUFFICES ASSUME NEW n \in Nat PROVE IsFiniteSet(0 .. n - 1)
      OBVIOUS
    <2>1. 0 \in Int /\ n - 1 \in Int
      OBVIOUS
    <2> QED
      BY <2>1, FS_Interval
  <1>3. /\ KeysHeld \subseteq 0 .. mouseCycle - 1
        /\ KeysInCall \subseteq 0 .. Len(call) - 1
        /\ Gaps \subseteq 0 .. NextStamp - 1
    BY DEF KeysHeld, KeysInCall, Gaps
  <1>4. IsFiniteSet(KeysHeld) /\ Cardinality(KeysHeld) \in Nat
    BY <1>1, <1>2, <1>3, PartSize
  <1>5. IsFiniteSet(KeysInCall) /\ Cardinality(KeysInCall) \in Nat
    BY <1>1, <1>2, <1>3, PartSize
  <1>6. IsFiniteSet(Gaps) /\ Cardinality(Gaps) \in Nat
    BY <1>1, <1>2, <1>3, PartSize
  <1> QED
    BY <1>1, <1>4, <1>5, <1>6

(* What the devices add: a gap when a byte of the mouse is lost.           *)
LEMMA GapsSend ==
  ASSUME TypeInv, OrderInv, NEW v \in Heads \cup Moves, NEW captured \in BOOLEAN,
         MouseSend(v, captured)
  PROVE  Gaps' \subseteq Gaps \cup (IF captured THEN {} ELSE {NextStamp})
  <1>1. /\ NextStamp' = NextStamp + 1
        /\ \A k \in 1 .. Total : At(k)' = At(k)
        /\ captured => /\ Total' = Total + 1
                       /\ ~IsKey(At(Total)')
                       /\ Stamp(At(Total)') = NextStamp
        /\ ~captured => Total' = Total
        /\ NextStamp \in Nat /\ Total \in Nat
    BY SentLast, PendingType
  <1>2. \A k \in 1 .. Total' : k \in 1 .. Total \/ (captured /\ k = Total')
    BY <1>1
  <1>3. Stamps \subseteq Stamps' /\ (captured => NextStamp \in Stamps')
    BY <1>1 DEF Stamps
  <1>4. \A t \in Stamps' : t \in Stamps \/ (captured /\ t = NextStamp)
    BY <1>1, <1>2 DEF Stamps
  <1>5. ASSUME NEW s \in Gaps', s # NextStamp PROVE s \in Gaps
    <2>1. /\ s \in 0 .. NextStamp' - 1 /\ s \notin Stamps'
          /\ \E t \in Stamps' : t < s
      BY <1>5 DEF Gaps
    <2>2. s \in 0 .. NextStamp - 1 /\ s \notin Stamps
      BY <1>1, <1>3, <1>5, <2>1
    <2>3. \E t \in Stamps : t < s
      BY <1>1, <1>4, <2>1, <2>2
    <2> QED
      BY <2>2, <2>3 DEF Gaps
  <1>6. captured => NextStamp \notin Gaps'
    BY <1>3 DEF Gaps
  <1> QED
    BY <1>5, <1>6

LEMMA GapsKey ==
  ASSUME TypeInv, NEW v \in Scancodes, KeySend(v)
  PROVE  Gaps' = Gaps
  <1>1. /\ NextStamp' = NextStamp /\ Total' = Total + 1 /\ Total \in Nat
        /\ \A k \in 1 .. Total : At(k)' = At(k)
        /\ IsKey(At(Total)')
    BY KeyLast, PendingType
  <1>2. Stamps' = Stamps
    BY <1>1 DEF Stamps
  <1> QED
    BY <1>1, <1>2 DEF Gaps

(* A call dropped for its number leaves a gap for each byte of the mouse   *)
(* in it.                                                                  *)
LEMMA GapsCall ==
  ASSUME TypeInv, OrderInv, NEW irq \in {1, 12}, NEW n \in 1 .. Len(log),
         IrqCall(irq, n)
  PROVE  /\ Gaps' \subseteq Gaps \cup
              {Stamp(log[i]) : i \in {j \in 1 .. n : irq = 1 /\ ~IsKey(log[j])}}
         /\ Stamps' \subseteq Stamps
         /\ Stamps \subseteq Stamps' \cup
              {Stamp(log[i]) : i \in {j \in 1 .. n : irq = 1 /\ ~IsKey(log[j])}}
  <1>1. /\ mouseCycle \in 0 .. 2 /\ Total \in Nat /\ n \in Nat
        /\ mouseCycle + n <= Total
        /\ \A i \in 1 .. n : At(mouseCycle + i) = log[i]
        /\ irq = 12 => /\ Total' = Total
                       /\ \A k \in 1 .. Total : At(k)' = At(k)
        /\ irq = 1 => /\ Total' = Total - n
                      /\ \A k \in 1 .. mouseCycle : At(k)' = At(k)
                      /\ \A k \in mouseCycle + 1 .. Total - n : At(k)' = At(k + n)
    <2>1. mouseCycle \in 0 .. 2
      BY DEF TypeInv, TypeOK
    <2>2. Total \in Nat
      BY PendingType
    <2>3. n \in Nat
      OBVIOUS
    <2> QED
      BY <2>1, <2>2, <2>3, CallPending
  <1>2. NextStamp' = NextStamp
    BY DEF IrqCall, NextStamp
  <1>3. CASE irq = 12
    <2>1. Stamps' = Stamps
      BY <1>1, <1>3 DEF Stamps
    <2>2. Gaps' = Gaps
      BY <1>2, <2>1 DEF Gaps
    <2> QED
      BY <2>1, <2>2
  <1>4. CASE irq = 1
    <2> DEFINE Dropped == {Stamp(log[i]) : i \in {j \in 1 .. n : irq = 1 /\ ~IsKey(log[j])}}
    <2>1. Stamps' \subseteq Stamps
      BY <1>1, <1>4 DEF Stamps
    <2>2. ASSUME NEW t \in Stamps, t \notin Dropped PROVE t \in Stamps'
      <3>1. PICK k \in 1 .. Total : ~IsKey(At(k)) /\ Stamp(At(k)) = t
        BY DEF Stamps
      <3>2. ~(k \in mouseCycle + 1 .. mouseCycle + n)
        <4> SUFFICES ASSUME k \in mouseCycle + 1 .. mouseCycle + n PROVE FALSE
          OBVIOUS
        <4>1. k - mouseCycle \in 1 .. n /\ mouseCycle + (k - mouseCycle) = k
          BY <1>1
        <4>2. At(k) = log[k - mouseCycle]
          BY <1>1, <4>1
        <4> QED
          BY <1>4, <2>2, <3>1, <4>1, <4>2
      <3>3. CASE k <= mouseCycle
        <4>1. k \in 1 .. Total' /\ At(k)' = At(k)
          BY <1>1, <1>4, <3>3
        <4> QED
          BY <3>1, <4>1 DEF Stamps
      <3>4. CASE k > mouseCycle
        <4>1. k - n \in mouseCycle + 1 .. Total - n /\ (k - n) + n = k
          BY <1>1, <3>2, <3>4
        <4>2. k - n \in 1 .. Total' /\ At(k - n)' = At(k)
          BY <1>1, <1>4, <4>1
        <4> QED
          BY <3>1, <4>2 DEF Stamps
      <3> QED
        BY <1>1, <3>3, <3>4
    <2> HIDE DEF Dropped
    <2>3. ASSUME NEW s \in Gaps', s \notin Dropped PROVE s \in Gaps
      <3>1. /\ s \in 0 .. NextStamp - 1 /\ s \notin Stamps'
            /\ \E t \in Stamps' : t < s
        BY <1>2, <2>3 DEF Gaps
      <3>2. s \notin Stamps /\ \E t \in Stamps : t < s
        BY <2>1, <2>2, <2>3, <3>1
      <3> QED
        BY <3>1, <3>2 DEF Gaps
    <2>4. Gaps' \subseteq Gaps \cup Dropped
      BY <2>3
    <2>5. Stamps \subseteq Stamps' \cup Dropped
      BY <2>2
    <2> QED
      BY <2>1, <2>4, <2>5 DEF Dropped
  <1> QED
    BY <1>3, <1>4

(* The decoder opens no gap: what it drops is the oldest on the way.       *)
LEMMA GapsDecode ==
  ASSUME TypeInv, OrderInv, MouseByte \/ MousePacket
  PROVE  Gaps' \subseteq Gaps
  <1>1. PICK d \in 0 .. Total :
          /\ Total' = Total - d
          /\ \A k \in 1 .. Total - d : At(k)' = At(k + d)
    BY DecodePending
  <1>2. NextStamp' = NextStamp /\ Total \in Nat
    BY PendingType DEF MouseByte, MousePacket, NextStamp, envVars
  <1>3. ASSUME NEW t \in Stamps'
        PROVE  \E k \in d + 1 .. Total : ~IsKey(At(k)) /\ Stamp(At(k)) = t
    <2>1. PICK k \in 1 .. Total - d : ~IsKey(At(k)') /\ Stamp(At(k)') = t
      BY <1>1, <1>3 DEF Stamps
    <2>2. At(k)' = At(k + d) /\ k + d \in d + 1 .. Total
      BY <1>1, <1>2
    <2> QED
      BY <2>1, <2>2
  <1>4. ASSUME NEW s \in Gaps' PROVE s \in Gaps
    <2>1. /\ s \in 0 .. NextStamp - 1 /\ s \notin Stamps'
          /\ \E t \in Stamps' : t < s
      BY <1>2, <1>4 DEF Gaps
    <2>2. PICK k \in d + 1 .. Total : ~IsKey(At(k)) /\ Stamp(At(k)) < s
      BY <1>3, <2>1
    <2>3. Stamp(At(k)) \in Stamps
      BY <1>1, <2>2 DEF Stamps
    <2>4. s \notin Stamps
      <3> SUFFICES ASSUME s \in Stamps PROVE FALSE
        OBVIOUS
      <3>1. PICK l \in 1 .. Total : ~IsKey(At(l)) /\ Stamp(At(l)) = s
        BY DEF Stamps
      <3>2. CASE l <= d
        <4>1. l < k /\ k \in 1 .. Total
          BY <1>1, <1>2, <3>2
        <4>2. Stamp(At(l)) < Stamp(At(k))
          BY <2>2, <3>1, <4>1 DEF OrderInv, Ordered
        <4>3. Stamp(At(l)) \in Nat /\ Stamp(At(k)) \in Nat
          BY <4>1, PendingType
        <4> QED
          BY <2>2, <3>1, <4>2, <4>3
      <3>3. CASE l > d
        <4>1. l - d \in 1 .. Total' /\ At(l - d)' = At(l)
          BY <1>1, <1>2, <3>3
        <4>2. Stamp(At(l)) \in Stamps'
          BY <3>1, <4>1 DEF Stamps
        <4> QED
          BY <2>1, <3>1, <4>2
      <3> QED
        BY <1>1, <1>2, <3>2, <3>3
    <2> QED
      BY <2>1, <2>2, <2>3, <2>4 DEF Gaps
  <1> QED
    BY <1>4

(* A packet of the mouse's bytes that begins with a head and is not        *)
(* genuine takes a gap with it.                                            *)
LEMMA GapTaken ==
  ASSUME TypeInv, OrderInv, MousePacket, ~Genuine(mouseBytes'),
         \A k \in 1 .. 3 : ~IsKey(At(k)), At(1).role = 0
  PROVE  \E g \in Gaps : g \notin Gaps'
  <1>1. /\ Total >= 3 /\ Total \in Nat
        /\ mouseBytes'[0] = At(1) /\ mouseBytes'[1] = At(2)
        /\ mouseBytes'[2] = At(3) /\ At(1) = mouseBytes[0]
    BY PacketBytes
  <1>2. \A k \in 1 .. Total :
          /\ Stamp(At(k)) \in Nat /\ At(k).packet \in Nat /\ At(k).role \in 0 .. 2
          /\ Stamp(At(k)) = 3 * At(k).packet + At(k).role
    BY PendingType DEF Stamp
  <1>3. At(1).role = 0
    OBVIOUS
  <1> DEFINE p == At(1).packet
  <1>4. /\ Stamp(At(1)) < Stamp(At(2)) /\ Stamp(At(2)) < Stamp(At(3))
        /\ Stamp(At(1)) = 3 * p /\ p \in Nat
        /\ Stamp(At(3)) < NextStamp
    BY <1>1, <1>2, <1>3 DEF OrderInv, Ordered, Fits
  <1>5. ~(Stamp(At(2)) = 3 * p + 1 /\ Stamp(At(3)) = 3 * p + 2)
    <2> SUFFICES ASSUME Stamp(At(2)) = 3 * p + 1, Stamp(At(3)) = 3 * p + 2
                 PROVE  FALSE
      OBVIOUS
    <2>1. At(2).packet = p /\ At(2).role = 1
      BY <1>1, <1>2, <1>4
    <2>2. At(3).packet = p /\ At(3).role = 2
      BY <1>1, <1>2, <1>4
    <2>3. \A i \in 0 .. 2 : mouseBytes'[i].role = i /\ ~IsKey(mouseBytes'[i])
      <3>1. /\ mouseBytes'[0].role = 0 /\ ~IsKey(mouseBytes'[0])
            /\ mouseBytes'[1].role = 1 /\ ~IsKey(mouseBytes'[1])
            /\ mouseBytes'[2].role = 2 /\ ~IsKey(mouseBytes'[2])
        BY <1>1, <1>3, <2>1, <2>2
      <3> QED
        BY <3>1
    <2> QED
      BY <1>1, <2>1, <2>2, <2>3 DEF Genuine
  <1>6. PICK g \in {3 * p + 1, 3 * p + 2} :
          g # Stamp(At(2)) /\ g # Stamp(At(3)) /\ g < Stamp(At(3))
    BY <1>1, <1>2, <1>4, <1>5
  <1>7. g \in Nat /\ Stamp(At(1)) < g /\ g < NextStamp /\ NextStamp \in Nat
    BY <1>1, <1>2, <1>4, <1>6, PendingType
  <1>8. g \notin Stamps
    <2> SUFFICES ASSUME NEW k \in 1 .. Total, ~IsKey(At(k)), Stamp(At(k)) = g
                 PROVE  FALSE
      BY DEF Stamps
    <2>1. k > 3 => Stamp(At(3)) < Stamp(At(k))
      BY <1>1 DEF OrderInv, Ordered
    <2>2. k \in {1, 2, 3} \/ k > 3
      OBVIOUS
    <2> QED
      BY <1>1, <1>2, <1>4, <1>6, <1>7, <2>1, <2>2
  <1>9. g \in Gaps
    <2>1. Stamp(At(1)) \in Stamps
      BY <1>1 DEF Stamps
    <2> QED
      BY <1>7, <1>8, <2>1 DEF Gaps
  <1>10. PICK d \in 0 .. Total :
           /\ Total' = Total - d
           /\ \A k \in 1 .. Total - d : At(k)' = At(k + d)
           /\ d >= 3
    BY DecodePending
  <1>11. g \notin Gaps'
    <2> SUFFICES ASSUME NEW t \in Stamps', t < g PROVE FALSE
      BY DEF Gaps
    <2>1. PICK k \in 1 .. Total - d : ~IsKey(At(k)') /\ Stamp(At(k)') = t
      BY <1>10 DEF Stamps
    <2>2. At(k)' = At(k + d) /\ k + d \in 1 .. Total /\ 3 < k + d
      BY <1>1, <1>10
    <2>3. Stamp(At(3)) < Stamp(At(k + d))
      BY <1>1, <2>1, <2>2 DEF OrderInv, Ordered
    <2> QED
      BY <1>1, <1>2, <1>6, <1>7, <2>1, <2>2, <2>3
  <1> QED
    BY <1>9, <1>11

(* The keys' bytes of a call: those the decoder has still to look at.      *)
LEMMA KeysTail ==
  ASSUME TypeInv, call # <<>>, call' = <<>> \/ call' = Tail(call)
  PROVE  /\ KeysInCall' \subseteq KeysInCall
         /\ Len(call) - 1 \notin KeysInCall'
         /\ Len(call) - 1 \in KeysInCall <=> IsKey(Head(call))
  <1>1. call \in Seq(Byte) /\ Len(call) >= 1 /\ Len(call) \in Nat
        /\ Head(call) = call[1]
    BY DEF TypeInv, TypeOK
  <1>2. CASE call' = <<>>
    <2>1. Len(call') = 0
      BY <1>2
    <2>2. KeysInCall' = {}
      BY <2>1 DEF KeysInCall
    <2> QED
      BY <1>1, <2>2 DEF KeysInCall
  <1>3. CASE call' = Tail(call)
    <2>1. /\ Len(call') = Len(call) - 1
          /\ \A i \in 1 .. Len(call) - 1 : call'[i] = call[i + 1]
      BY <1>1, <1>3
    <2>2. ASSUME NEW d \in KeysInCall' PROVE d \in KeysInCall
      <3>1. d \in 0 .. Len(call) - 2 /\ IsKey(call'[Len(call) - 1 - d])
        BY <1>1, <2>1, <2>2 DEF KeysInCall
      <3>2. Len(call) - 1 - d \in 1 .. Len(call) - 1
            /\ (Len(call) - 1 - d) + 1 = Len(call) - d
        BY <1>1, <3>1
      <3>3. call'[Len(call) - 1 - d] = call[Len(call) - d]
        BY <2>1, <3>2
      <3> QED
        BY <1>1, <3>1, <3>3 DEF KeysInCall
    <2>3. Len(call) - 1 \notin KeysInCall'
      BY <1>1, <2>1 DEF KeysInCall
    <2>4. Len(call) - 1 \in KeysInCall <=> IsKey(Head(call))
      <3>1. Len(call) - 1 \in 0 .. Len(call) - 1 /\ Len(call) - (Len(call) - 1) = 1
        BY <1>1
      <3> QED
        BY <1>1, <3>1 DEF KeysInCall
    <2> QED
      BY <2>2, <2>3, <2>4
  <1> QED
    BY <1>2, <1>3

(* A call of the mouse's number brings in as many keys' bytes as accidents *)
(* are counted for it.                                                     *)
LEMMA KeysCalled ==
  ASSUME TypeInv, NEW n \in 1 .. Len(log), IrqCall(12, n)
  PROVE  Cardinality(KeysInCall')
           <= Cardinality({i \in 1 .. n : IsKey(log[i]) <=> 12 = 12})
  <1> DEFINE S == {i \in 1 .. n : IsKey(log[i]) <=> 12 = 12}
             f == [i \in S |-> n - i]
  <1>1. log \in Seq(Byte) /\ n \in Int
    BY DEF TypeInv, TypeOK
  <1>2. IsFiniteSet(1 .. n) /\ S \subseteq 1 .. n
    BY <1>1, FS_Interval
  <1>3. IsFiniteSet(S)
    BY <1>2, PartSize
  <1>4. Len(call') = n /\ \A i \in 1 .. n : call'[i] = log[i]
    BY <1>1, PartOfBytes DEF IrqCall, MouseCall
  <1>5. ASSUME NEW d \in KeysInCall' PROVE \E i \in S : f[i] = d
    <2>1. d \in 0 .. n - 1 /\ IsKey(call'[n - d])
      BY <1>4, <1>5 DEF KeysInCall
    <2>2. n - d \in S /\ f[n - d] = d
      BY <1>4, <2>1
    <2> QED
      BY <2>2
  <1>6. DOMAIN f = S
    OBVIOUS
  <1> HIDE DEF S, f
  <1>7. Cardinality(KeysInCall') <= Cardinality(S)
    BY <1>3, <1>5, <1>6, ImageSize
  <1> QED
    BY <1>7 DEF S

(* An accident counted is one more that may be owed.                       *)
LEMMA StillCharged ==
  ASSUME NEW m \in Nat, NEW h \in Nat, NEW c \in Nat, NEW g \in Nat, NEW d \in Nat,
         NEW e \in Int, NEW k \in Nat, NEW x \in Nat, NEW y \in Nat,
         m + h + c + g <= d + e,
         (x <= k /\ y <= g) \/ (x = 0 /\ y <= g + k)
  PROVE  m + h + x + y <= (d + k) + e
  OBVIOUS

(* Accidents happen only on the way to the decoder.                        *)
LEMMA AccidentArrive ==
  ASSUME TypeInv, TypeInv', OrderInv, AccidentInv,
         \/ \E v \in Heads \cup Moves, captured \in BOOLEAN : MouseSend(v, captured)
         \/ \E v \in Scancodes : KeySend(v)
         \/ \E irq \in {1, 12}, n \in 1 .. Len(log) : IrqCall(irq, n)
  PROVE  misframed' + Cardinality(KeysHeld') + Cardinality(KeysInCall')
           + Cardinality(Gaps') <= disturbed' + Charged'
  <1>1. /\ IsFiniteSet(KeysHeld) /\ IsFiniteSet(KeysInCall) /\ IsFiniteSet(Gaps)
        /\ Cardinality(KeysHeld) \in Nat /\ Cardinality(KeysInCall) \in Nat
        /\ Cardinality(Gaps) \in Nat
        /\ misframed \in Nat /\ disturbed \in Nat /\ Charged \in Int
        /\ misframed + Cardinality(KeysHeld) + Cardinality(KeysInCall)
             + Cardinality(Gaps) <= disturbed + Charged
    BY AccidentSizes DEF AccidentInv
  <1>2. ASSUME NEW v \in Heads \cup Moves, NEW captured \in BOOLEAN,
               MouseSend(v, captured)
        PROVE  misframed' + Cardinality(KeysHeld') + Cardinality(KeysInCall')
                 + Cardinality(Gaps') <= disturbed' + Charged'
    <2>1. /\ KeysHeld' = KeysHeld /\ KeysInCall' = KeysInCall /\ misframed' = misframed
          /\ disturbed' = IF captured THEN disturbed ELSE disturbed + 1
          /\ Charged' = Charged
      BY <1>2 DEF MouseSend, decoderVars, KeysHeld, KeysInCall, FalseHead, Charged
    <2>2. Gaps' \subseteq Gaps \cup (IF captured THEN {} ELSE {NextStamp})
      BY <1>2, GapsSend
    <2>3. CASE captured
      <3>1. Cardinality(Gaps') \in Nat /\ Cardinality(Gaps') <= Cardinality(Gaps)
        <4>1. Gaps' \subseteq Gaps
          BY <2>2, <2>3
        <4> QED
          BY <1>1, <4>1, PartSize
      <3> QED
        BY <1>1, <2>1, <2>3, <3>1
    <2>4. CASE ~captured
      <3>1. IsFiniteSet({NextStamp}) /\ Cardinality({NextStamp}) = 1
        BY FS_Singleton
      <3>2. Gaps' \subseteq Gaps \cup {NextStamp}
        BY <2>2, <2>4
      <3>3. /\ Cardinality(Gaps') \in Nat
            /\ Cardinality(Gaps') <= Cardinality(Gaps) + 1
        BY <1>1, <3>1, <3>2, CoveredSize
      <3> QED
        BY <1>1, <2>1, <2>4, <3>3
    <2> QED
      BY <2>3, <2>4
  <1>3. ASSUME NEW v \in Scancodes, KeySend(v)
        PROVE  misframed' + Cardinality(KeysHeld') + Cardinality(KeysInCall')
                 + Cardinality(Gaps') <= disturbed' + Charged'
    <2>1. /\ KeysHeld' = KeysHeld /\ KeysInCall' = KeysInCall
          /\ misframed' = misframed /\ disturbed' = disturbed
          /\ Charged' = Charged
      BY <1>3 DEF KeySend, decoderVars, KeysHeld, KeysInCall, FalseHead, Charged, accidentVars
    <2>2. Gaps' = Gaps
      BY <1>3, GapsKey
    <2> QED
      BY <1>1, <2>1, <2>2
  <1>4. ASSUME NEW irq \in {1, 12}, NEW n \in 1 .. Len(log), IrqCall(irq, n)
        PROVE  misframed' + Cardinality(KeysHeld') + Cardinality(KeysInCall')
                 + Cardinality(Gaps') <= disturbed' + Charged'
    <2> DEFINE D == {i \in 1 .. n : IsKey(log[i]) <=> irq = 12}
    <2>1. /\ KeysHeld' = KeysHeld /\ misframed' = misframed
          /\ disturbed' = disturbed + Cardinality(D)
          /\ Charged' = Charged
      BY <1>4 DEF IrqCall, KeysHeld, FalseHead, Charged
    <2>2. IsFiniteSet(1 .. n) /\ D \subseteq 1 .. n
      <3>1. n \in Int
        BY DEF TypeInv, TypeOK
      <3> QED
        BY <3>1, FS_Interval
    <2>3. IsFiniteSet(D) /\ Cardinality(D) \in Nat
      BY <2>2, PartSize
    <2>4. Gaps' \subseteq Gaps \cup
            {Stamp(log[i]) : i \in {j \in 1 .. n : irq = 1 /\ ~IsKey(log[j])}}
      BY <1>4, GapsCall
    <2>5. CASE irq = 12
      <3>1. Gaps' \subseteq Gaps
        BY <2>4, <2>5
      <3>2. Cardinality(Gaps') \in Nat /\ Cardinality(Gaps') <= Cardinality(Gaps)
        BY <1>1, <3>1, PartSize
      <3>3. Cardinality(KeysInCall') <= Cardinality(D)
        BY <1>4, <2>5, KeysCalled
      <3>4. Cardinality(KeysInCall') \in Nat
        <4>1. IsFiniteSet(0 .. Len(call') - 1)
          <5>1. 0 \in Int /\ Len(call') - 1 \in Int
            BY DEF TypeInv, TypeOK
          <5> QED
            BY <5>1, FS_Interval
        <4>2. KeysInCall' \subseteq 0 .. Len(call') - 1
          BY DEF KeysInCall
        <4> QED
          BY <4>1, <4>2, PartSize
      <3>5. Cardinality(KeysHeld') = Cardinality(KeysHeld)
        BY <2>1
      <3> QED
        BY <1>1, <2>1, <2>3, <3>2, <3>3, <3>4, <3>5, StillCharged
    <2>6. CASE irq = 1
      <3> DEFINE f == [i \in D |-> Stamp(log[i])]
                 U == {Stamp(log[i]) : i \in {j \in 1 .. n : irq = 1 /\ ~IsKey(log[j])}}
      <3>1. \A t \in U : \E i \in D : f[i] = t
        BY <2>6
      <3>2. DOMAIN f = D
        OBVIOUS
      <3>3. IsFiniteSet(U) /\ Cardinality(U) \in Nat /\ Cardinality(U) <= Cardinality(D)
        <4> HIDE DEF f, U, D
        <4> QED
          BY <2>3, <3>1, <3>2, ImageSize
      <3>4. Gaps' \subseteq Gaps \cup U
        BY <2>4
      <3>5. /\ Cardinality(Gaps') \in Nat
            /\ Cardinality(Gaps') <= Cardinality(Gaps) + Cardinality(U)
        <4> HIDE DEF U
        <4> QED
          BY <1>1, <3>3, <3>4, CoveredSize
      <3>6. Cardinality(KeysInCall') = 0
        <4>1. Len(call') = 0
          BY <1>4, <2>6 DEF IrqCall, MouseCall
        <4>2. KeysInCall' = {}
          BY <4>1 DEF KeysInCall
        <4> QED
          BY <4>2, FS_EmptySet
      <3> HIDE DEF U, D
      <3>7. Cardinality(KeysHeld') = Cardinality(KeysHeld)
        BY <2>1
      <3>8. Cardinality(Gaps') <= Cardinality(Gaps) + Cardinality(D)
        BY <1>1, <2>3, <3>3, <3>5
      <3> QED
        BY <1>1, <2>1, <2>3, <3>5, <3>6, <3>7, <3>8, StillCharged
    <2> QED
      BY <2>5, <2>6
  <1> QED
    BY <1>2, <1>3, <1>4

(* The decoder uses up an accident for each packet it frames wrongly, or   *)
(* the motion byte the packet begins with.                                 *)
LEMMA AccidentByte ==
  ASSUME TypeInv, OrderInv, AccidentInv, MouseByte
  PROVE  misframed' + Cardinality(KeysHeld') + Cardinality(KeysInCall')
           + Cardinality(Gaps') <= disturbed' + Charged'
  <1>1. /\ IsFiniteSet(KeysHeld) /\ IsFiniteSet(KeysInCall) /\ IsFiniteSet(Gaps)
        /\ Cardinality(KeysHeld) \in Nat /\ Cardinality(KeysInCall) \in Nat
        /\ Cardinality(Gaps) \in Nat
        /\ misframed \in Nat /\ disturbed \in Nat /\ Charged \in Int
        /\ misframed + Cardinality(KeysHeld) + Cardinality(KeysInCall)
             + Cardinality(Gaps) <= disturbed + Charged
    BY AccidentSizes DEF AccidentInv
  <1>2. misframed' = misframed /\ disturbed' = disturbed /\ call # <<>>
        /\ (call' = <<>> \/ call' = Tail(call))
    BY DEF MouseByte, Break
  <1>3. Cardinality(Gaps') \in Nat /\ Cardinality(Gaps') <= Cardinality(Gaps)
    <2>1. Gaps' \subseteq Gaps
      BY GapsDecode
    <2> QED
      BY <1>1, <2>1, PartSize
  <1>4. /\ KeysInCall' \subseteq KeysInCall
        /\ Len(call) - 1 \notin KeysInCall'
        /\ Len(call) - 1 \in KeysInCall <=> IsKey(Head(call))
    BY <1>2, KeysTail
  <1>5. /\ Cardinality(KeysInCall') \in Nat
        /\ Cardinality(KeysInCall') <= Cardinality(KeysInCall)
        /\ IsKey(Head(call)) => Cardinality(KeysInCall') + 1 <= Cardinality(KeysInCall)
    <2>1. /\ Cardinality(KeysInCall') \in Nat
          /\ Cardinality(KeysInCall') <= Cardinality(KeysInCall)
      BY <1>1, <1>4, PartSize
    <2>2. ASSUME IsKey(Head(call))
          PROVE  Cardinality(KeysInCall') + 1 <= Cardinality(KeysInCall)
      <3>1. Len(call) - 1 \in KeysInCall
        BY <1>4, <2>2
      <3> QED
        BY <1>1, <1>4, <3>1, SmallerPart
    <2> QED
      BY <2>1, <2>2
  <1>6. mouseCycle \in 0 .. 2 /\ mouseBytes \in [0 .. 2 -> Byte]
    BY DEF TypeInv, TypeOK
  <1>7. CASE UNCHANGED <<mouseCycle, mouseBytes, mistaken>>
    <2>1. KeysHeld' = KeysHeld /\ Charged' = Charged
      BY <1>7 DEF KeysHeld, FalseHead, Charged
    <2> QED
      BY <1>1, <1>2, <1>3, <1>5, <1>7, <2>1
  <1>8. CASE /\ mouseCycle = 0 => Sync(Head(call))
             /\ mouseBytes' = [mouseBytes EXCEPT ![mouseCycle] = Head(call)]
             /\ mouseCycle' = NextCycle
             /\ mistaken' = IF mouseCycle = 0 /\ PassesForHead(Head(call))
                            THEN mistaken + 1 ELSE mistaken
    <2>1. mouseCycle' = mouseCycle + 1 /\ mouseCycle < 2
      <3>1. mouseCycle < 2
        BY DEF MouseByte
      <3> QED
        BY <1>6, <1>8, <3>1 DEF NextCycle
    <2>5. Charged' = Charged
      <3>1. mistaken \in Nat
        BY DEF TypeInv, TypeOK
      <3>2. CASE mouseCycle = 0
        <4>1. mouseBytes'[0] = Head(call) /\ mouseCycle' > 0 /\ FalseHead = 0
          BY <1>6, <1>8, <2>1, <3>2 DEF FalseHead
        <4>2. FalseHead' = IF PassesForHead(Head(call)) THEN 1 ELSE 0
          BY <1>8, <3>2, <4>1 DEF FalseHead, PassesForHead, Sync
        <4> QED
          BY <1>8, <3>1, <3>2, <4>1, <4>2 DEF Charged
      <3>3. CASE mouseCycle # 0
        <4>1. mouseBytes'[0] = mouseBytes[0] /\ mouseCycle' > 0 /\ mouseCycle > 0
          BY <1>6, <1>8, <2>1, <3>3
        <4>2. FalseHead' = FalseHead /\ mistaken' = mistaken
          BY <1>8, <3>3, <4>1 DEF FalseHead
        <4> QED
          BY <4>2 DEF Charged
      <3> QED
        BY <3>2, <3>3
    <2>2. KeysHeld' \subseteq KeysHeld \cup (IF IsKey(Head(call)) THEN {mouseCycle} ELSE {})
      BY <1>6, <1>8, <2>1 DEF KeysHeld
    <2>3. CASE IsKey(Head(call))
      <3>1. IsFiniteSet({mouseCycle}) /\ Cardinality({mouseCycle}) = 1
        BY FS_Singleton
      <3>2. KeysHeld' \subseteq KeysHeld \cup {mouseCycle}
        BY <2>2, <2>3
      <3>3. /\ Cardinality(KeysHeld') \in Nat
            /\ Cardinality(KeysHeld') <= Cardinality(KeysHeld) + 1
        BY <1>1, <3>1, <3>2, CoveredSize
      <3> QED
        BY <1>1, <1>2, <1>3, <1>5, <2>3, <2>5, <3>3
    <2>4. CASE ~IsKey(Head(call))
      <3>1. KeysHeld' \subseteq KeysHeld
        BY <2>2, <2>4
      <3>2. /\ Cardinality(KeysHeld') \in Nat
            /\ Cardinality(KeysHeld') <= Cardinality(KeysHeld)
        BY <1>1, <3>1, PartSize
      <3> QED
        BY <1>1, <1>2, <1>3, <1>5, <2>5, <3>2
    <2> QED
      BY <2>3, <2>4
  <1> QED
    BY <1>7, <1>8 DEF MouseByte

LEMMA AccidentPacket ==
  ASSUME TypeInv, OrderInv, AccidentInv, MousePacket
  PROVE  misframed' + Cardinality(KeysHeld') + Cardinality(KeysInCall')
           + Cardinality(Gaps') <= disturbed' + Charged'
  <1>1. /\ IsFiniteSet(KeysHeld) /\ IsFiniteSet(KeysInCall) /\ IsFiniteSet(Gaps)
        /\ Cardinality(KeysHeld) \in Nat /\ Cardinality(KeysInCall) \in Nat
        /\ Cardinality(Gaps) \in Nat
        /\ misframed \in Nat /\ disturbed \in Nat /\ Charged \in Int
        /\ misframed + Cardinality(KeysHeld) + Cardinality(KeysInCall)
             + Cardinality(Gaps) <= disturbed + Charged
    BY AccidentSizes DEF AccidentInv
  <1>2. /\ misframed' = IF Genuine(mouseBytes') THEN misframed ELSE misframed + 1
        /\ disturbed' = disturbed /\ Charged' = Charged + FalseHead /\ call # <<>>
        /\ (call' = <<>> \/ call' = Tail(call))
        /\ mouseCycle = 2 /\ mouseCycle' = 0 /\ FalseHead \in {0, 1}
        /\ mouseBytes' = [mouseBytes EXCEPT ![2] = Head(call)]
    <2>1. mouseCycle = 2 /\ mouseCycle' = 0 /\ mistaken' = mistaken /\ mistaken \in Nat
      BY DEF MousePacket, NextCycle, TypeInv, TypeOK
    <2>2. FalseHead' = 0 /\ FalseHead \in {0, 1}
      BY <2>1 DEF FalseHead
    <2>3. Charged' = Charged + FalseHead
      BY <2>1, <2>2 DEF Charged
    <2> QED
      BY <2>1, <2>2, <2>3 DEF MousePacket, Break
  <1>3. Gaps' \subseteq Gaps
    BY GapsDecode
  <1>4. Cardinality(Gaps') \in Nat /\ Cardinality(Gaps') <= Cardinality(Gaps)
    BY <1>1, <1>3, PartSize
  <1>5. /\ KeysInCall' \subseteq KeysInCall
        /\ Len(call) - 1 \notin KeysInCall'
        /\ Len(call) - 1 \in KeysInCall <=> IsKey(Head(call))
    BY <1>2, KeysTail
  <1>6. /\ Cardinality(KeysInCall') \in Nat
        /\ Cardinality(KeysInCall') <= Cardinality(KeysInCall)
    BY <1>1, <1>5, PartSize
  <1>7. Cardinality(KeysHeld') = 0
    <2>1. KeysHeld' = {}
      BY <1>2 DEF KeysHeld
    <2> QED
      BY <2>1, FS_EmptySet
  <1>8. CASE Genuine(mouseBytes')
    BY <1>1, <1>2, <1>4, <1>6, <1>7, <1>8
  <1>9. CASE ~Genuine(mouseBytes') /\ KeysHeld # {}
    <2>1. Cardinality(KeysHeld) # 0
      BY <1>1, <1>9, FS_EmptySet
    <2> QED
      BY <1>1, <1>2, <1>4, <1>6, <1>7, <1>9, <2>1
  <1>10. CASE IsKey(Head(call))
    <2>1. Len(call) - 1 \in KeysInCall
      BY <1>5, <1>10
    <2>2. Cardinality(KeysInCall') + 1 <= Cardinality(KeysInCall)
      BY <1>1, <1>5, <2>1, SmallerPart
    <2> QED
      BY <1>1, <1>2, <1>4, <1>6, <1>7, <2>2
  <1>12. CASE FalseHead = 1
    BY <1>1, <1>2, <1>4, <1>6, <1>7, <1>12
  <1>11. CASE /\ ~Genuine(mouseBytes') /\ KeysHeld = {} /\ ~IsKey(Head(call))
              /\ FalseHead # 1
    <2>1. /\ mouseBytes'[0] = At(1) /\ mouseBytes'[1] = At(2)
          /\ mouseBytes'[2] = At(3) /\ mouseBytes \in [0 .. 2 -> Byte]
      BY PacketBytes DEF TypeInv, TypeOK
    <2>2. ~IsKey(mouseBytes[0]) /\ ~IsKey(mouseBytes[1])
      BY <1>2, <1>11 DEF KeysHeld
    <2>3. ~IsKey(At(1)) /\ ~IsKey(At(2)) /\ ~IsKey(At(3))
      BY <1>2, <1>11, <2>1, <2>2
    <2>4. \A k \in 1 .. 3 : ~IsKey(At(k))
      <3>1. \A k \in 1 .. 3 : k = 1 \/ k = 2 \/ k = 3
        OBVIOUS
      <3> QED
        BY <2>3, <3>1
    <2>7. At(1).role = 0
      <3>1. At(1) = mouseBytes[0]
        BY PacketBytes
      <3> QED
        BY <1>2, <1>11, <2>2, <3>1 DEF FalseHead
    <2>5. PICK g \in Gaps : g \notin Gaps'
      BY <1>11, <2>4, <2>7, GapTaken
    <2>6. Cardinality(Gaps') + 1 <= Cardinality(Gaps)
      BY <1>1, <1>3, <2>5, SmallerPart
    <2> QED
      BY <1>1, <1>2, <1>4, <1>6, <1>7, <2>6
  <1> QED
    BY <1>8, <1>9, <1>10, <1>11, <1>12

LEMMA AccidentStep ==
  TypeInv /\ TypeInv' /\ OrderInv /\ AccidentInv /\ [Next]_vars => AccidentInv'
  <1> SUFFICES ASSUME TypeInv, TypeInv', OrderInv, AccidentInv, [Next]_vars
               PROVE  misframed' + Cardinality(KeysHeld') + Cardinality(KeysInCall')
                        + Cardinality(Gaps') <= disturbed' + Charged'
    BY DEF AccidentInv
  <1>1. CASE IrqReturn \/ Schedule \/ RelayPacket \/ Frame \/ UNCHANGED vars
    <2>1. UNCHANGED <<envVars, call, mouseCycle, mouseBytes, misframed, disturbed,
                      mistaken>>
      BY <1>1 DEF IrqReturn, Schedule, RelayPacket, Frame, vars, decoderVars, accidentVars
    <2>2. Total' = Total /\ NextStamp' = NextStamp
          /\ \A k \in 1 .. Total : At(k)' = At(k)
      BY <2>1, Untouched DEF OrderInv
    <2>3. Stamps' = Stamps
      BY <2>2 DEF Stamps
    <2>4. Gaps' = Gaps
      BY <2>2, <2>3 DEF Gaps
    <2>5. KeysHeld' = KeysHeld /\ KeysInCall' = KeysInCall /\ Charged' = Charged
      BY <2>1 DEF KeysHeld, KeysInCall, FalseHead, Charged
    <2> QED
      BY <2>1, <2>4, <2>5 DEF AccidentInv
  <1> QED
    BY <1>1, AccidentArrive, AccidentByte, AccidentPacket DEF Next

LEMMA AccidentAlways == Spec => []AccidentInv
  <1>1. Init => AccidentInv
    <2> SUFFICES ASSUME Init PROVE AccidentInv
      OBVIOUS
    <2>1. Total = 0 /\ mouseCycle = 0 /\ Len(call) = 0
          /\ misframed = 0 /\ disturbed = 0 /\ mistaken = 0
      BY DEF Init, Total
    <2>2. KeysHeld = {} /\ KeysInCall = {} /\ Gaps = {} /\ Charged = 0
      BY <2>1 DEF KeysHeld, KeysInCall, Gaps, Stamps, FalseHead, Charged
    <2> QED
      BY <2>1, <2>2, FS_EmptySet DEF AccidentInv
  <1> QED
    BY <1>1, AccidentStep, OrderAlways, TypeAlways, PTL DEF Spec

-----------------------------------------------------------------------------
(* In step. Nothing can go wrong before the first accident, but for bytes  *)
(* that a break leaves unseen.                                             *)

(* As long as nothing has, none of the debts of AccidentInv is there.      *)
LEMMA NothingOwed ==
  ASSUME TypeInv, AccidentInv, AlignedInv, disturbed = 0, ~skipped
  PROVE  /\ KeysHeld = {} /\ KeysInCall = {} /\ Gaps = {} /\ FalseHead = 0
         /\ mistaken = 0
  <1>1. /\ IsFiniteSet(KeysHeld) /\ IsFiniteSet(KeysInCall) /\ IsFiniteSet(Gaps)
        /\ Cardinality(KeysHeld) \in Nat /\ Cardinality(KeysInCall) \in Nat
        /\ Cardinality(Gaps) \in Nat
        /\ misframed \in Nat /\ FalseHead \in Nat /\ Charged \in Int
    BY AccidentSizes
  <1>2. mistaken = 0
    BY DEF AlignedInv
  <1>3. /\ Cardinality(KeysHeld) = 0 /\ Cardinality(KeysInCall) = 0
        /\ Cardinality(Gaps) = 0 /\ FalseHead = 0
    <2>1. Charged = 0 - FalseHead
      BY <1>2 DEF Charged
    <2>2. misframed + Cardinality(KeysHeld) + Cardinality(KeysInCall)
            + Cardinality(Gaps) <= Charged
      BY <1>1 DEF AccidentInv
    <2>3. Charged = 0
      BY <1>1, <2>1, <2>2
    <2> QED
      BY <1>1, <2>1, <2>2, <2>3
  <1> QED
    BY <1>1, <1>2, <1>3, FS_EmptySet

(* The oldest byte of the mouse is due first.                              *)
LEMMA OldestDue ==
  ASSUME TypeInv, OrderInv, Total >= 1, ~IsKey(At(1))
  PROVE  FirstDue(Stamp(At(1)))
  <1>1. Total \in Nat /\ \A k \in 1 .. Total : Stamp(At(k)) \in Nat
    BY PendingType
  <1>2. Stamp(At(1)) \in Stamps
    BY <1>1 DEF Stamps
  <1>3. ASSUME NEW t \in Stamps PROVE Stamp(At(1)) <= t
    <2>1. PICK k \in 1 .. Total : ~IsKey(At(k)) /\ Stamp(At(k)) = t
      BY DEF Stamps
    <2>2. 1 \in 1 .. Total /\ (k = 1 \/ 1 < k)
      BY <1>1
    <2>3. 1 < k => Stamp(At(1)) < Stamp(At(k))
      BY <2>1, <2>2 DEF OrderInv, Ordered
    <2> QED
      BY <1>1, <2>1, <2>2, <2>3
  <1> QED
    BY <1>2, <1>3 DEF FirstDue

(* What the mouse sends is due after what is on its way, and no call drops *)
(* a byte of it unless that is counted as an accident.                     *)
LEMMA AlignedArrive ==
  ASSUME TypeInv, OrderInv, AlignedInv,
         \/ \E v \in Heads \cup Moves, captured \in BOOLEAN : MouseSend(v, captured)
         \/ \E v \in Scancodes : KeySend(v)
         \/ \E irq \in {1, 12}, n \in 1 .. Len(log) : IrqCall(irq, n)
  PROVE  AlignedInv'
  <1> SUFFICES ASSUME disturbed' = 0, ~skipped'
               PROVE  mistaken' = 0 /\ \A s \in Nat : FirstDue(s)' => s % 3 = 0
    BY DEF AlignedInv
  <1>1. disturbed \in Nat /\ NextStamp \in Nat
    BY PendingType DEF TypeInv, TypeOK
  <1>2. CASE \E v \in Heads \cup Moves, captured \in BOOLEAN : MouseSend(v, captured)
    <2>1. PICK v \in Heads \cup Moves, captured \in BOOLEAN : MouseSend(v, captured)
      BY <1>2
    <2>2. captured /\ disturbed = 0 /\ skipped' = skipped /\ mistaken' = mistaken
      BY <1>1, <2>1 DEF MouseSend
    <2>3. /\ NextStamp' = NextStamp + 1 /\ Total' = Total + 1 /\ Total \in Nat
          /\ \A k \in 1 .. Total : At(k)' = At(k)
          /\ ~IsKey(At(Total)') /\ Stamp(At(Total)') = NextStamp
      BY <2>1, <2>2, SentLast, PendingType
    <2>4. Stamps' = Stamps \cup {NextStamp}
      <3>1. \A k \in 1 .. Total' : k \in 1 .. Total \/ k = Total'
        BY <2>3
      <3>2. Total' \in 1 .. Total' /\ 1 .. Total \subseteq 1 .. Total'
        BY <2>3
      <3>3. NextStamp \in Stamps'
        BY <2>3, <3>2 DEF Stamps
      <3>4. Stamps \subseteq Stamps'
        BY <2>3, <3>2 DEF Stamps
      <3>5. \A t \in Stamps' : t \in Stamps \/ t = NextStamp
        BY <2>3, <3>1 DEF Stamps
      <3> QED
        BY <3>3, <3>4, <3>5
    <2>5. ASSUME NEW s \in Nat, FirstDue(s)' PROVE FirstDue(s)
      BY <1>1, <2>3, <2>4, <2>5 DEF FirstDue
    <2> QED
      BY <2>2, <2>5 DEF AlignedInv
  <1>3. CASE \E v \in Scancodes : KeySend(v)
    <2>1. PICK v \in Scancodes : KeySend(v)
      BY <1>3
    <2>2. disturbed = 0 /\ skipped' = skipped /\ mistaken' = mistaken
      BY <2>1 DEF KeySend, accidentVars
    <2>3. /\ NextStamp' = NextStamp /\ Total' = Total + 1 /\ Total \in Nat
          /\ \A k \in 1 .. Total : At(k)' = At(k)
          /\ IsKey(At(Total)')
      BY <2>1, KeyLast, PendingType
    <2>4. Stamps' = Stamps
      BY <2>3 DEF Stamps
    <2> QED
      BY <2>2, <2>3, <2>4 DEF AlignedInv, FirstDue
  <1>4. CASE \E irq \in {1, 12}, n \in 1 .. Len(log) : IrqCall(irq, n)
    <2>1. PICK irq \in {1, 12}, n \in 1 .. Len(log) : IrqCall(irq, n)
      BY <1>4
    <2> DEFINE D == {i \in 1 .. n : IsKey(log[i]) <=> irq = 12}
               U == {Stamp(log[i]) : i \in {j \in 1 .. n : irq = 1 /\ ~IsKey(log[j])}}
    <2>2. /\ disturbed' = disturbed + Cardinality(D)
          /\ skipped' = skipped /\ mistaken' = mistaken
          /\ NextStamp' = NextStamp
      BY <2>1 DEF IrqCall, NextStamp
    <2>3. IsFiniteSet(D) /\ Cardinality(D) \in Nat
      <3>1. IsFiniteSet(1 .. n) /\ D \subseteq 1 .. n
        <4>1. n \in Int
          BY DEF TypeInv, TypeOK
        <4> QED
          BY <4>1, FS_Interval
      <3> QED
        BY <3>1, PartSize
    <2>4. disturbed = 0 /\ D = {}
      <3>1. disturbed = 0 /\ Cardinality(D) = 0
        BY <1>1, <2>2, <2>3
      <3> QED
        BY <2>3, <3>1, FS_EmptySet
    <2>5. U = {}
      <3> SUFFICES ASSUME NEW j \in 1 .. n, irq = 1, ~IsKey(log[j]) PROVE FALSE
        OBVIOUS
      <3>1. j \in D
        OBVIOUS
      <3> QED
        BY <2>4, <3>1
    <2>6. Stamps' \subseteq Stamps /\ Stamps \subseteq Stamps' \cup U
      BY <2>1, GapsCall
    <2>7. Stamps' = Stamps
      BY <2>5, <2>6
    <2> QED
      BY <2>2, <2>4, <2>7 DEF AlignedInv, FirstDue
  <1> QED
    BY <1>2, <1>3, <1>4

(* The byte the decoder looks at where a head is due is a head.            *)
LEMMA AlignedByte ==
  ASSUME TypeInv, OrderInv, AccidentInv, AlignedInv, MouseByte
  PROVE  AlignedInv'
  <1> SUFFICES ASSUME disturbed' = 0, ~skipped'
               PROVE  mistaken' = 0 /\ \A s \in Nat : FirstDue(s)' => s % 3 = 0
    BY DEF AlignedInv
  <1>1. /\ disturbed = 0 /\ call # <<>> /\ mouseCycle < 2
        /\ NextStamp' = NextStamp
    BY DEF MouseByte, NextStamp, envVars
  <1>11. ~skipped
    <2>1. Break \/ skipped' = skipped
      BY DEF MouseByte
    <2> QED
      BY <2>1, BreakTypes
  <1>2. /\ KeysInCall = {} /\ mistaken = 0
        /\ \A s \in Nat : FirstDue(s) => s % 3 = 0
    BY <1>1, <1>11, NothingOwed DEF AlignedInv
  <1>3. /\ mouseCycle \in 0 .. 1 /\ call \in Seq(Byte) /\ log \in Seq(Byte)
        /\ Len(call) >= 1 /\ Len(call) \in Nat /\ Head(call) = call[1]
    BY <1>1 DEF TypeInv, TypeOK
  <1>4. ~IsKey(Head(call))
    <2>1. Len(call) - 1 \in 0 .. Len(call) - 1 /\ Len(call) - (Len(call) - 1) = 1
      BY <1>3
    <2> QED
      BY <1>2, <1>3, <2>1 DEF KeysInCall
  <1>5. ASSUME mouseCycle = 0 PROVE Sync(Head(call)) /\ Head(call).role = 0
    <2>1. Total >= 1 /\ Total \in Nat /\ At(1) = Head(call)
      BY <1>3, <1>5 DEF Total, At
    <2>2. /\ At(1).packet \in Nat /\ At(1).role \in 0 .. 2
          /\ Stamp(At(1)) \in Nat /\ Stamp(At(1)) = 3 * At(1).packet + At(1).role
      BY <2>1, PendingType DEF Stamp
    <2>3. Stamp(At(1)) % 3 = 0
      BY <1>2, <1>4, <2>1, <2>2, OldestDue
    <2>4. At(1).role = 0
      BY <2>2, <2>3
    <2>5. At(1).val \in Heads
      BY <1>4, <2>1, <2>4 DEF OrderInv, Fits
    <2> QED
      BY <2>1, <2>4, <2>5, HeadAssumption DEF Sync
  <1>6. /\ mouseCycle' = NextCycle
        /\ mistaken' = IF mouseCycle = 0 /\ PassesForHead(Head(call))
                       THEN mistaken + 1 ELSE mistaken
    BY <1>5 DEF MouseByte
  <1>7. mistaken' = 0
    BY <1>2, <1>5, <1>6 DEF PassesForHead
  <1>8. mouseCycle' # mouseCycle
    BY <1>3, <1>6 DEF NextCycle
  <1>9. Total' = Total /\ Total \in Nat /\ \A k \in 1 .. Total : At(k)' = At(k)
    <2>1. PICK d \in 0 .. Total :
            /\ Total' = Total - d
            /\ \A k \in 1 .. Total - d : At(k)' = At(k + d)
            /\ d = 0
      BY <1>8, DecodePending
    <2>2. Total \in Nat
      BY PendingType
    <2>3. Total' = Total /\ Total - d = Total
      BY <2>1, <2>2
    <2>4. \A k \in 1 .. Total : k + d = k
      BY <2>1
    <2> QED
      BY <2>1, <2>2, <2>3, <2>4
  <1>10. Stamps' = Stamps
    BY <1>9 DEF Stamps
  <1> QED
    BY <1>1, <1>2, <1>7, <1>10 DEF FirstDue

(* A packet takes the three bytes that are due and leaves the next first.  *)
LEMMA AlignedPacket ==
  ASSUME TypeInv, OrderInv, AccidentInv, AlignedInv, MousePacket
  PROVE  AlignedInv'
  <1> SUFFICES ASSUME disturbed' = 0, ~skipped'
               PROVE  mistaken' = 0 /\ \A s \in Nat : FirstDue(s)' => s % 3 = 0
    BY DEF AlignedInv
  <1>0. /\ disturbed = 0 /\ call # <<>> /\ mouseCycle = 2
        /\ NextStamp' = NextStamp /\ mistaken' = mistaken
    BY DEF MousePacket, NextStamp, envVars
  <1>16. ~skipped
    <2>1. Break \/ skipped' = skipped
      BY DEF MousePacket
    <2> QED
      BY <2>1, BreakTypes
  <1>17. call' = Tail(call)
    <2>1. Break \/ call' = Tail(call)
      BY DEF MousePacket
    <2>2. ASSUME Break PROVE call' = Tail(call)
      BY <2>2, Zenon DEF Break
    <2> QED
      BY <2>1, <2>2
  <1>1. /\ disturbed = 0 /\ ~skipped /\ call # <<>> /\ mouseCycle = 2
        /\ NextStamp' = NextStamp /\ mistaken' = mistaken /\ call' = Tail(call)
    BY <1>0, <1>16, <1>17
  <1>2. /\ KeysHeld = {} /\ KeysInCall = {} /\ Gaps = {} /\ mistaken = 0
        /\ \A s \in Nat : FirstDue(s) => s % 3 = 0
    BY <1>1, NothingOwed DEF AlignedInv
  <1>3. /\ Total >= 3 /\ Total \in Nat /\ NextStamp \in Nat
        /\ mouseBytes'[0] = At(1) /\ mouseBytes'[1] = At(2) /\ mouseBytes'[2] = At(3)
    BY PacketBytes, PendingType
  <1>4. ~IsKey(At(1)) /\ ~IsKey(At(2)) /\ ~IsKey(At(3))
    <2>1. mouseBytes' = [mouseBytes EXCEPT ![2] = Head(call)]
          /\ mouseBytes \in [0 .. 2 -> Byte]
      BY DEF MousePacket, TypeInv, TypeOK
    <2>2. ~IsKey(mouseBytes[0]) /\ ~IsKey(mouseBytes[1])
      BY <1>1, <1>2 DEF KeysHeld
    <2>3. ~IsKey(Head(call))
      <3>1. Len(call) \in Nat /\ Len(call) >= 1 /\ Head(call) = call[1]
        BY <1>1 DEF TypeInv, TypeOK
      <3>2. Len(call) - 1 \in 0 .. Len(call) - 1 /\ Len(call) - (Len(call) - 1) = 1
        BY <3>1
      <3> QED
        BY <1>2, <3>1, <3>2 DEF KeysInCall
    <2> QED
      BY <1>3, <2>1, <2>2, <2>3
  <1>5. \A k \in 1 .. Total : Stamp(At(k)) \in Nat
    BY PendingType
  <1> DEFINE a == Stamp(At(1))
  <1>6. a \in Nat /\ a % 3 = 0
    BY <1>2, <1>3, <1>4, <1>5, OldestDue
  <1>7. a < Stamp(At(2)) /\ Stamp(At(2)) < Stamp(At(3)) /\ Stamp(At(3)) < NextStamp
    BY <1>3, <1>4 DEF OrderInv, Ordered, Fits
  <1>8. ASSUME NEW s \in Nat, a <= s, s < NextStamp PROVE s \in Stamps
    <2>1. a \in Stamps
      BY <1>3, <1>4 DEF Stamps
    <2>2. s \in 0 .. NextStamp - 1 /\ (s = a \/ a < s)
      BY <1>3, <1>6, <1>8
    <2> QED
      BY <1>2, <2>1, <2>2 DEF Gaps
  <1>9. ASSUME NEW t \in Stamps
        PROVE  t \in {a, Stamp(At(2)), Stamp(At(3))} \/ Stamp(At(3)) < t
    <2>1. PICK k \in 1 .. Total : ~IsKey(At(k)) /\ Stamp(At(k)) = t
      BY DEF Stamps
    <2>2. k \in {1, 2, 3} \/ 3 < k
      OBVIOUS
    <2>3. 3 < k => Stamp(At(3)) < Stamp(At(k))
      BY <1>3, <1>4, <2>1 DEF OrderInv, Ordered
    <2> QED
      BY <2>1, <2>2, <2>3
  <1>10. Stamp(At(3)) = a + 2
    <2> DEFINE b == Stamp(At(2))
               c == Stamp(At(3))
    <2>1. b \in Nat /\ c \in Nat
      BY <1>3, <1>5
    <2>2. a + 1 \in Stamps /\ a + 2 \in Stamps
      BY <1>3, <1>6, <1>7, <1>8, <2>1
    <2>3. /\ a + 1 \in {a, b, c} \/ c < a + 1
          /\ a + 2 \in {a, b, c} \/ c < a + 2
      BY <1>9, <2>2
    <2>4. a < b /\ b < c
      BY <1>7
    <2> HIDE DEF a, b, c
    <2>5. c = a + 2
      BY <1>6, <2>1, <2>3, <2>4
    <2> QED
      BY <2>5 DEF c
  <1>11. /\ Total' = Total - 3
         /\ \A k \in 1 .. Total - 3 : At(k)' = At(k + 3)
    BY <1>1, DecodePending
  <1>12. ASSUME NEW t \in Stamps' PROVE t \in Stamps /\ a + 2 < t
    <2>1. PICK k \in 1 .. Total - 3 : ~IsKey(At(k)') /\ Stamp(At(k)') = t
      BY <1>11 DEF Stamps
    <2>2. k + 3 \in 1 .. Total /\ 3 < k + 3 /\ At(k)' = At(k + 3)
      BY <1>3, <1>11
    <2>3. Stamp(At(3)) < Stamp(At(k + 3))
      BY <1>3, <1>4, <2>1, <2>2 DEF OrderInv, Ordered
    <2> QED
      BY <1>10, <2>1, <2>2, <2>3 DEF Stamps
  <1>13. ASSUME NEW t \in Stamps, a + 2 < t PROVE t \in Stamps'
    <2>1. PICK k \in 1 .. Total : ~IsKey(At(k)) /\ Stamp(At(k)) = t
      BY DEF Stamps
    <2>2. ~(k \in {1, 2, 3})
      BY <1>5, <1>6, <1>7, <1>10, <1>13, <2>1
    <2>3. k - 3 \in 1 .. Total - 3 /\ (k - 3) + 3 = k
      BY <1>3, <2>2
    <2>4. At(k - 3)' = At(k)
      BY <1>11, <2>3
    <2> QED
      BY <1>11, <2>1, <2>3, <2>4 DEF Stamps
  <1>14. ASSUME NEW s \in Nat, FirstDue(s)' PROVE s = a + 3
    <2>1. s \in Stamps' \cup {NextStamp} /\ \A t \in Stamps' : s <= t
      BY <1>1, <1>14 DEF FirstDue
    <2>2. a + 2 < s
      BY <1>3, <1>7, <1>10, <1>12, <2>1
    <2>3. s <= NextStamp
      <3>1. \A t \in Stamps : t < NextStamp
        BY DEF Stamps, OrderInv, Fits
      <3> QED
        BY <1>3, <1>12, <2>1, <3>1
    <2>4. ~(a + 3 < s)
      <3> SUFFICES ASSUME a + 3 < s PROVE FALSE
        OBVIOUS
      <3>1. a + 3 \in Nat /\ a <= a + 3 /\ a + 3 < NextStamp /\ a + 2 < a + 3
        BY <1>3, <1>6, <2>3
      <3>2. a + 3 \in Stamps'
        BY <1>8, <1>13, <3>1
      <3>3. s <= a + 3
        BY <2>1, <3>2
      <3> HIDE DEF a
      <3> QED
        BY <1>6, <3>3
    <2> HIDE DEF a
    <2> QED
      BY <1>6, <2>2, <2>4
  <1>15. ASSUME NEW s \in Nat, FirstDue(s)' PROVE s % 3 = 0
    <2>1. s = a + 3
      BY <1>14, <1>15
    <2> HIDE DEF a
    <2> QED
      BY <1>6, <2>1
  <1> QED
    BY <1>1, <1>2, <1>15

LEMMA AlignedStep ==
  TypeInv /\ OrderInv /\ AccidentInv /\ AlignedInv /\ [Next]_vars => AlignedInv'
  <1> SUFFICES ASSUME TypeInv, OrderInv, AccidentInv, AlignedInv, [Next]_vars
               PROVE  AlignedInv'
    OBVIOUS
  <1>1. CASE IrqReturn \/ Schedule \/ RelayPacket \/ Frame \/ UNCHANGED vars
    <2>1. UNCHANGED <<envVars, call, mouseCycle, mouseBytes, disturbed, mistaken,
                      skipped>>
      BY <1>1 DEF IrqReturn, Schedule, RelayPacket, Frame, vars, decoderVars, accidentVars
    <2>2. Total' = Total /\ NextStamp' = NextStamp
          /\ \A k \in 1 .. Total : At(k)' = At(k)
      BY <2>1, Untouched DEF OrderInv
    <2>3. Stamps' = Stamps
      BY <2>2 DEF Stamps
    <2> QED
      BY <2>1, <2>2, <2>3 DEF AlignedInv, FirstDue
  <1> QED
    BY <1>1, AlignedArrive, AlignedByte, AlignedPacket DEF Next

LEMMA AlignedAlways == Spec => []AlignedInv
  <1>1. Init => AlignedInv
    <2> SUFFICES ASSUME Init PROVE AlignedInv
      OBVIOUS
    <2>1. Total = 0 /\ NextStamp = 3 /\ mistaken = 0
      BY DEF Init, Total, NextStamp
    <2>2. Stamps = {}
      BY <2>1 DEF Stamps
    <2> QED
      BY <2>1, <2>2 DEF AlignedInv, FirstDue
  <1> QED
    BY <1>1, AlignedStep, AccidentAlways, OrderAlways, TypeAlways, PTL DEF Spec

(* Each packet put together from parts of several is charged to an         *)
(* accident of its own or to a motion byte of its own that was taken for a *)
(* head; and until the first accident, as long as no break skips bytes, no *)
(* motion byte is: whatever the mouse sends is framed as it was sent.      *)
THEOREM MisframedAlways == Spec => []MisframedBounded
  <1>1. TypeInv /\ AccidentInv /\ AlignedInv => MisframedBounded
    <2> SUFFICES ASSUME TypeInv, AccidentInv, AlignedInv PROVE MisframedBounded
      OBVIOUS
    <2>1. /\ Cardinality(KeysHeld) \in Nat /\ Cardinality(KeysInCall) \in Nat
          /\ Cardinality(Gaps) \in Nat /\ FalseHead \in Nat /\ Charged \in Int
          /\ misframed \in Nat /\ disturbed \in Nat /\ mistaken \in Nat
      BY AccidentSizes
    <2>2. misframed <= disturbed + Charged /\ Charged <= mistaken
      BY <2>1 DEF AccidentInv, Charged
    <2>3. mistaken > 0 => disturbed > 0 \/ skipped
      BY <2>1 DEF AlignedInv
    <2> QED
      BY <2>1, <2>2, <2>3 DEF MisframedBounded
  <1> QED
    BY <1>1, TypeAlways, AccidentAlways, AlignedAlways, PTL
=============================================================================
