--------------------------- MODULE IrqQueueProofs ---------------------------
(***************************************************************************)
(* Proofs about IrqQueue for every Cap, PacketCap and MaxBytes.            *)
(***************************************************************************)
EXTENDS MCIrqQueue, Finiteness, SequenceTheorems, TLAPS

USE CapAssumption, PacketCapAssumption, MaxBytesAssumption

-----------------------------------------------------------------------------
(* Type correctness. The packet a handler fills is the last counted one,   *)
(* so there is one: FillInv makes TypeOK inductive.                        *)
FillInv == isr = "fill" => packet_count > 0
TypeInv == TypeOK /\ FillInv

LEMMA TypeInit == Init => TypeInv
  <1> SUFFICES ASSUME Init PROVE TypeInv
    OBVIOUS
  <1>1. ControlType
    BY DEF Init, ControlType, MainPC, IsrPC, Irqs
  <1>2. QueueType /\ LocalType
    BY DEF Init, QueueType, LocalType, Slots, Packet, EmptyPacket
  <1>3. PicType /\ DeviceType /\ LogType
    BY DEF Init, PicType, DeviceType, LogType
  <1>4. FillInv
    BY DEF Init, FillInv
  <1> QED
    BY <1>1, <1>2, <1>3, <1>4 DEF TypeInv, TypeOK

(* A packet in a slot is a packet, and its bytes are a sequence.           *)
LEMMA SlotPacket ==
  ASSUME NEW ps \in [Slots -> Packet], NEW s \in Slots
  PROVE  ps[s] \in Packet /\ ps[s].bytes \in Seq(Nat)
  BY DEF Packet

(* Reading the port leaves bytes that were sent, and raises only lines of  *)
(* the two devices.                                                        *)
LEMMA ReadPortType ==
  ASSUME DeviceType, PicType, port # <<>>, ReadPort
  PROVE  DeviceType' /\ PicType' /\ Head(port) \in Nat
  <1>1. Head(port) \in Nat /\ Tail(port) \in Seq(Nat)
    BY DEF DeviceType
  <1>2. DeviceType'
    BY <1>1 DEF DeviceType, ReadPort
  <1>3. Raised(Tail(port)) \subseteq Irqs
    BY <1>1, <1>2 DEF Raised, DeviceType, ReadPort
  <1> QED
    BY <1>1, <1>2, <1>3 DEF PicType, ReadPort

(* A step of the main context keeps the types. *)
LEMMA TypeMain == TypeInv /\ MainStep => TypeInv'
  <1> SUFFICES ASSUME TypeInv, MainStep PROVE TypeInv'
    OBVIOUS
  <1> USE DEF TypeInv, TypeOK, FillInv
  <1>0. PicType' /\ DeviceType' /\ FillInv' /\ isr = "none"
    BY DEF MainStep, MainTest, MainLock, MainCount, MainCopy, MainReset,
           MainUnlock, MainDispatch, MainLoopEnd, MainSchedule, MainUmkaError,
           MainReturn, MainSti, MainHlt, MainAt, IsrUnchanged, picVars, devVars,
           PicType, DeviceType
  <1>1. ControlType'
    BY DEF MainStep, MainTest, MainLock, MainCount, MainCopy, MainReset,
           MainUnlock, MainDispatch, MainLoopEnd, MainSchedule, MainUmkaError,
           MainReturn, MainSti, MainHlt, MainAt, Goto, IsrUnchanged,
           ControlType, MainPC
  <1>2. QueueType'
    BY DEF MainStep, MainTest, MainLock, MainCount, MainCopy, MainReset,
           MainUnlock, MainDispatch, MainLoopEnd, MainSchedule, MainUmkaError,
           MainReturn, MainSti, MainHlt, queueVars, QueueType
  <1>3. LocalType'
    <2>1. CASE MainCopy
      <3>1. idx \in Slots
        BY <2>1 DEF MainCopy, LocalType, Slots
      <3>2. lpackets' \in [Slots -> Packet]
        BY <2>1, <3>1, SlotPacket DEF MainCopy, LocalType, QueueType
      <3> QED
        BY <2>1, <3>2 DEF MainCopy, LocalType
    <2>2. CASE MainDispatch
      BY <2>2 DEF MainDispatch, LocalType
    <2>3. CASE MainCount \/ MainReset
      BY <2>3 DEF MainCount, MainReset, LocalType, QueueType
    <2> QED
      BY <2>1, <2>2, <2>3
      DEF MainStep, MainTest, MainLock, MainUnlock, MainLoopEnd, MainSchedule,
          MainUmkaError, MainReturn, MainSti, MainHlt, LocalsUnchanged, LocalType
  <1>4. LogType'
    <2>1. CASE MainDispatch
      <3>1. idx \in Slots
        BY <2>1 DEF MainDispatch, LocalType, Slots
      <3>2. lpackets[idx].bytes \in Seq(Nat)
        BY <3>1, SlotPacket DEF LocalType
      <3> QED
        BY <2>1, <3>2 DEF MainDispatch, LogType, IsrUnchanged
    <2> QED
      BY <2>1
      DEF MainStep, MainTest, MainLock, MainCount, MainCopy, MainReset,
          MainUnlock, MainLoopEnd, MainSchedule, MainUmkaError, MainReturn,
          MainSti, MainHlt, IsrUnchanged, LogType
  <1> QED
    BY <1>0, <1>1, <1>2, <1>3, <1>4

(* A step of the handler keeps the types. *)
LEMMA TypeIsr == TypeInv /\ IsrStep => TypeInv'
  <1> SUFFICES ASSUME TypeInv, IsrStep PROVE TypeInv'
    OBVIOUS
  <1> USE DEF TypeInv, TypeOK, FillInv
  <1>1. CASE IsrBusy \/ IsrDrained \/ IsrRelease
    BY <1>1 DEF IsrBusy, IsrDrained, IsrRelease, mainVars, queueVars, picVars,
                devVars, ControlType, IsrPC, QueueType, LocalType, PicType,
                DeviceType, LogType
  <1>2. CASE IsrClaim
    <2>1. LocalType' /\ PicType' /\ DeviceType' /\ LogType'
      BY <1>2 DEF IsrClaim, mainVars, picVars, devVars, LocalType, PicType,
                  DeviceType, LogType
    <2>2. ControlType'
      BY <1>2 DEF IsrClaim, mainVars, ControlType, IsrPC
    <2>3. CASE ~QueueFull
      <3>1. packet_count \in Slots /\ packet_count' = packet_count + 1
        BY <1>2, <2>3 DEF IsrClaim, MakePacket, QueueFull, QueueType, Slots
      <3>2. [irq |-> isrIrq, bytes |-> <<>>] \in Packet
        BY DEF ControlType, Packet
      <3>3. packets' \in [Slots -> Packet]
        BY <1>2, <2>3, <3>2 DEF IsrClaim, MakePacket, QueueType
      <3> QED
        BY <2>1, <2>2, <3>1, <3>3 DEF QueueType, Slots
    <2>4. CASE QueueFull
      BY <1>2, <2>1, <2>2, <2>4 DEF IsrClaim, queueVars, QueueType
    <2> QED
      BY <2>3, <2>4
  <1>3. CASE IsrFill
    <2>1. LocalType' /\ LogType'
      BY <1>3 DEF IsrFill, mainVars, LocalType, LogType
    <2>2. ControlType' /\ FillInv'
      BY <1>3 DEF IsrFill, mainVars, ControlType, IsrPC
    <2>3. PicType' /\ DeviceType' /\ Head(port) \in Nat
      BY <1>3, ReadPortType DEF IsrFill
    <2>4. packet_count - 1 \in Slots
      BY <1>3 DEF IsrFill, QueueType, Slots
    <2>5. packets' \in [Slots -> Packet]
      <3>1. Append(packets[packet_count - 1].bytes, Head(port)) \in Seq(Nat)
        BY <2>3, <2>4, SlotPacket DEF QueueType
      <3>2. [packets[packet_count - 1] EXCEPT
               !.bytes = Append(@, Head(port))] \in Packet
        BY <2>4, <3>1, SlotPacket DEF QueueType, Packet
      <3> QED
        BY <1>3, <2>4, <3>2 DEF IsrFill, QueueType
    <2> QED
      BY <1>3, <2>1, <2>2, <2>3, <2>5 DEF IsrFill, QueueType
  <1>4. CASE IsrDrain
    <2>1. PicType' /\ DeviceType' /\ Head(port) \in Nat
      BY <1>4, ReadPortType DEF IsrDrain
    <2> QED
      BY <1>4, <2>1 DEF IsrDrain, mainVars, queueVars, ControlType, QueueType,
                        LocalType, LogType
  <1>5. CASE IsrAck
    BY <1>5 DEF IsrAck, AckSlave, EndOfInterrupt, mainVars, queueVars, devVars,
                ControlType, IsrPC, QueueType, LocalType, PicType, DeviceType,
                LogType
  <1> QED
    BY <1>1, <1>2, <1>3, <1>4, <1>5 DEF IsrStep

(* Taking a request, and a byte arriving, keep the types. *)
LEMMA TypeEnv ==
  ASSUME TypeInv, NEW irq \in Irqs, IsrEnter(irq) \/ DeviceSend(irq)
  PROVE  TypeInv'
  <1> USE DEF TypeInv, TypeOK, FillInv
  <1>1. CASE IsrEnter(irq)
    BY <1>1 DEF IsrEnter, MasterLine, Irqs, queueVars, devVars, ControlType,
                MainPC, IsrPC, QueueType, LocalType, PicType, DeviceType, LogType
  <1>2. CASE DeviceSend(irq)
    <2>1. DeviceType'
      BY <1>2 DEF DeviceSend, DeviceType
    <2> QED
      BY <1>2, <2>1 DEF DeviceSend, mainVars, queueVars, ControlType, QueueType,
                        LocalType, PicType, LogType
  <1> QED
    BY <1>1, <1>2

LEMMA TypeStep == TypeInv /\ [Next]_vars => TypeInv'
  <1> SUFFICES ASSUME TypeInv, [Next]_vars PROVE TypeInv'
    OBVIOUS
  <1>1. CASE UNCHANGED vars
    BY <1>1 DEF TypeInv, TypeOK, FillInv, vars, mainVars, queueVars, picVars,
                devVars, ControlType, QueueType, LocalType, PicType, DeviceType,
                LogType
  <1> QED
    BY <1>1, TypeMain, TypeIsr, TypeEnv DEF Next

(* Every reachable state is well typed: whatever the interrupts do,        *)
(* packet_count never leaves packets[] and the dispatch loop never leaves  *)
(* lpackets[].                                                             *)
THEOREM TypeCorrect == Spec => []TypeOK
  <1>1. TypeInv => TypeOK
    BY DEF TypeInv
  <1> QED
    BY <1>1, TypeInit, TypeStep, PTL DEF Spec

-----------------------------------------------------------------------------
(* The lock. LockDiscipline is inductive on its own; a handler that drains *)
(* the port met the lock, so the main context is stopped inside its        *)
(* snapshot until the handler returns.                                     *)
DrainInv == isr = "drain" => InSnapshot
PanicInv == pc = "panic" => isr = "none" /\ ~intr

LockInv == LockDiscipline /\ DrainInv /\ PanicInv

LEMMA LockStep == TypeInv /\ LockInv /\ [Next]_vars => LockInv'
  <1> SUFFICES ASSUME TypeInv, LockInv, [Next]_vars PROVE LockInv'
    OBVIOUS
  <1> USE DEF LockInv, LockDiscipline, DrainInv, PanicInv, Dead, InSnapshot, MainAt
  <1>0. ControlType
    BY DEF TypeInv, TypeOK
  <1>1. CASE MainStep
    BY <1>0, <1>1
    DEF MainStep, MainTest, MainLock, MainCount, MainCopy, MainReset,
        MainUnlock, MainDispatch, MainLoopEnd, MainSchedule, MainUmkaError,
        MainReturn, MainSti, MainHlt, Goto, IsrUnchanged, ControlType
  <1>2. CASE IsrStep
    BY <1>0, <1>2
    DEF IsrStep, IsrBusy, IsrClaim, IsrFill, IsrRelease, IsrDrain, IsrDrained,
        IsrAck, mainVars, ControlType
  <1>3. CASE \E irq \in Irqs : IsrEnter(irq)
    BY <1>0, <1>3 DEF IsrEnter, ControlType
  <1>4. CASE \E src \in Irqs : DeviceSend(src)
    BY <1>4 DEF DeviceSend, mainVars
  <1>5. CASE UNCHANGED vars
    BY <1>5 DEF vars, mainVars
  <1> QED
    BY <1>1, <1>2, <1>3, <1>4, <1>5 DEF Next

LEMMA LockInit == Init => LockInv
  BY DEF Init, LockInv, LockDiscipline, DrainInv, PanicInv, Dead, InSnapshot

LEMMA LockAlways == Spec => [](TypeInv /\ LockInv)
  BY TypeInit, TypeStep, LockInit, LockStep, PTL DEF Spec

(* The lock excludes the handler's packet writes from the snapshot, and    *)
(* umkaRuntimeSchedule never meets a lock that is held.                    *)
THEOREM LockCorrect == Spec => []LockDiscipline
  BY LockAlways, PTL DEF LockInv

(* Bytes are thrown away only while the main context is in its snapshot.   *)
THEOREM LossBounded == Spec => LossOnlyInSnapshot
  <1>1. TypeInv /\ LockInv /\ [Next]_vars => [lost' # lost => InSnapshot]_vars
    <2> SUFFICES ASSUME LockInv, Next, lost' # lost PROVE InSnapshot
      BY DEF vars
    <2>1. IsrDrain
      BY DEF Next, MainStep, MainTest, MainLock, MainCount, MainCopy, MainReset,
             MainUnlock, MainDispatch, MainLoopEnd, MainSchedule,
             MainUmkaError, MainReturn, MainSti, MainHlt, IsrUnchanged,
             IsrStep, IsrBusy, IsrClaim, IsrFill, IsrRelease, IsrDrained,
             IsrAck, IsrEnter, DeviceSend
    <2> QED
      BY <2>1 DEF IsrDrain, LockInv, DrainInv
  <1> QED
    BY <1>1, LockAlways, PTL DEF Spec, LossOnlyInSnapshot

-----------------------------------------------------------------------------
(* The interrupt controllers: what is in service is the running handler.   *)
PicInv == IF isr = "none" THEN master = {} /\ slave = {}
          ELSE /\ master = {MasterLine(isrIrq)}
               /\ slave = IF isrIrq = 12 THEN {12} ELSE {}

WireInv == /\ PicInv
           /\ ~Dead /\ port # <<>> => irr # {} \/ isr \in {"entry", "fill", "drain"}

LEMMA WireStep == TypeInv /\ LockInv /\ WireInv /\ [Next]_vars => WireInv'
  <1> SUFFICES ASSUME TypeInv, LockInv, WireInv, [Next]_vars PROVE WireInv'
    OBVIOUS
  <1> USE DEF WireInv, PicInv, Dead
  <1>0. ControlType /\ DeviceType
    BY DEF TypeInv, TypeOK
  <1>1. CASE MainStep
    <2>1. isr = "none" /\ UNCHANGED <<isr, isrIrq, irr, master, slave, port>>
      BY <1>1
      DEF MainStep, MainTest, MainLock, MainCount, MainCopy, MainReset,
          MainUnlock, MainDispatch, MainLoopEnd, MainSchedule, MainUmkaError,
          MainReturn, MainSti, MainHlt, MainAt, IsrUnchanged, picVars, devVars
    <2>2. pc # "panic"
      BY <1>1
      DEF MainStep, MainTest, MainLock, MainCount, MainCopy, MainReset,
          MainUnlock, MainDispatch, MainLoopEnd, MainSchedule, MainUmkaError,
          MainReturn, MainSti, MainHlt, MainAt
    <2> QED
      BY <2>1, <2>2
  <1>2. CASE IsrBusy \/ IsrClaim \/ IsrRelease \/ IsrDrained
    BY <1>2 DEF IsrBusy, IsrClaim, IsrRelease, IsrDrained, mainVars, picVars,
                devVars
  <1>3. CASE IsrFill \/ IsrDrain
    BY <1>3 DEF IsrFill, IsrDrain, ReadPort, mainVars
  <1>4. CASE IsrAck
    <2>1. EndOfInterrupt(master) = {} /\ AckSlave = {}
      BY <1>0, <1>4 DEF IsrAck, AckSlave, EndOfInterrupt, MasterLine, ControlType,
                        Irqs
    <2>2. UNCHANGED <<pc, port, irr>> /\ isr' = "none" /\ isr = "ack"
      BY <1>4 DEF IsrAck, mainVars, devVars
    <2>3. master' = {} /\ slave' = {}
      BY <1>4, <2>1 DEF IsrAck
    <2> QED
      BY <2>2, <2>3
  <1>5. CASE \E irq \in Irqs : IsrEnter(irq)
    BY <1>5 DEF IsrEnter, MasterLine, Irqs, devVars
  <1>6. CASE \E src \in Irqs : DeviceSend(src)
    BY <1>6 DEF DeviceSend, mainVars
  <1>7. CASE UNCHANGED vars
    BY <1>7 DEF vars, mainVars, picVars, devVars
  <1> QED
    BY <1>1, <1>2, <1>3, <1>4, <1>5, <1>6, <1>7 DEF Next, IsrStep

LEMMA WireInit == Init => WireInv
  BY DEF Init, WireInv, PicInv

(* No byte is ever left behind the port with nobody to read it, and both   *)
(* controllers are ready again when the handler returns.                   *)
THEOREM NothingStranded == Spec => []NoStrandedByte
  <1>1. WireInv => NoStrandedByte
    BY DEF WireInv, PicInv, NoStrandedByte
  <1> QED
    BY <1>1, LockAlways, WireInit, WireStep, PTL DEF Spec

-----------------------------------------------------------------------------
(* Sequences of byte numbers: what Append, Tail and \o do to their range   *)
(* and to their order.                                                     *)
LEMMA RangeAppend ==
  ASSUME NEW s \in Seq(Nat), NEW e
  PROVE  Range(Append(s, e)) = Range(s) \cup {e}
  <1>1. DOMAIN Append(s, e) = 1 .. Len(s) + 1
    OBVIOUS
  <1>2. \A i \in 1 .. Len(s) : Append(s, e)[i] = s[i]
    OBVIOUS
  <1>3. Append(s, e)[Len(s) + 1] = e
    OBVIOUS
  <1>4. DOMAIN s = 1 .. Len(s)
    OBVIOUS
  <1> QED
    BY <1>1, <1>2, <1>3, <1>4 DEF Range
    
LEMMA RangeTail ==
  ASSUME NEW s \in Seq(Nat), s # <<>>
  PROVE  Range(s) = {Head(s)} \cup Range(Tail(s))
  <1>1. DOMAIN s = 1 .. Len(s) /\ Len(s) > 0 /\ s[1] = Head(s)
    OBVIOUS
  <1>2. DOMAIN Tail(s) = 1 .. Len(s) - 1
    OBVIOUS
  <1>3. \A i \in 1 .. Len(s) - 1 : Tail(s)[i] = s[i + 1]
    OBVIOUS
  <1>4. \A i \in 2 .. Len(s) : s[i] = Tail(s)[i - 1] /\ i - 1 \in 1 .. Len(s) - 1
    OBVIOUS
  <1>5. \A i \in DOMAIN s : i = 1 \/ i \in 2 .. Len(s)
    BY <1>1
  <1>6. Range(s) \subseteq {Head(s)} \cup Range(Tail(s))
    <2> SUFFICES ASSUME NEW i \in DOMAIN s
                 PROVE  s[i] \in {Head(s)} \cup Range(Tail(s))
      BY DEF Range
    <2>1. CASE i = 1
      BY <1>1, <2>1
    <2>2. CASE i \in 2 .. Len(s)
      <3>1. i - 1 \in DOMAIN Tail(s) /\ s[i] = Tail(s)[i - 1]
        BY <1>2, <1>4, <2>2
      <3> QED
        BY <3>1 DEF Range
    <2> QED
      BY <1>5, <2>1, <2>2
  <1>7. {Head(s)} \cup Range(Tail(s)) \subseteq Range(s)
    BY <1>1, <1>2, <1>3 DEF Range
  <1> QED
    BY <1>6, <1>7

LEMMA RangeConcat ==
  ASSUME NEW s \in Seq(Nat), NEW t \in Seq(Nat)
  PROVE  Range(s \o t) = Range(s) \cup Range(t)
  <1>1. DOMAIN (s \o t) = 1 .. Len(s) + Len(t)
    OBVIOUS
  <1>2. DOMAIN s = 1 .. Len(s) /\ DOMAIN t = 1 .. Len(t)
    OBVIOUS
  <1>3. \A i \in 1 .. Len(s) : (s \o t)[i] = s[i]
    OBVIOUS
  <1>4. \A i \in 1 .. Len(t) : (s \o t)[Len(s) + i] = t[i]
    OBVIOUS
  <1>5. \A i \in Len(s) + 1 .. Len(s) + Len(t) :
          i - Len(s) \in 1 .. Len(t) /\ (s \o t)[i] = t[i - Len(s)]
    OBVIOUS
  <1>6. \A i \in DOMAIN (s \o t) : i \in DOMAIN s \/ i \in Len(s) + 1 .. Len(s) + Len(t)
    BY <1>1, <1>2
  <1>7. Range(s \o t) \subseteq Range(s) \cup Range(t)
    BY <1>2, <1>3, <1>5, <1>6 DEF Range
  <1>8. Range(s) \cup Range(t) \subseteq Range(s \o t)
    <2>1. \A i \in 1 .. Len(s) : i \in DOMAIN (s \o t)
      BY <1>1
    <2>2. \A i \in 1 .. Len(t) : Len(s) + i \in DOMAIN (s \o t)
      BY <1>1
    <2> QED
      BY <1>2, <1>3, <1>4, <2>1, <2>2 DEF Range
  <1> QED
    BY <1>7, <1>8

LEMMA IncreasingAppend ==
  ASSUME NEW s \in Seq(Nat), NEW e \in Nat, Increasing(s), Below(Range(s), {e})
  PROVE  Increasing(Append(s, e))
  <1>1. \A i \in 1 .. Len(s) : s[i] < e
    BY DEF Below, Range
  <1> QED
    BY <1>1 DEF Increasing

LEMMA IncreasingTail ==
  ASSUME NEW s \in Seq(Nat), s # <<>>, Increasing(s)
  PROVE  Increasing(Tail(s)) /\ Below({Head(s)}, Range(Tail(s)))
  <1>1. DOMAIN s = 1 .. Len(s) /\ Len(s) > 0 /\ s[1] = Head(s)
    OBVIOUS
  <1>2. DOMAIN Tail(s) = 1 .. Len(s) - 1
    OBVIOUS
  <1>3. \A i \in 1 .. Len(s) - 1 : Tail(s)[i] = s[i + 1] /\ i + 1 \in 1 .. Len(s)
    OBVIOUS
  <1>4. Increasing(Tail(s))
    BY <1>1, <1>2, <1>3 DEF Increasing
  <1>5. \A i \in DOMAIN Tail(s) : Head(s) < Tail(s)[i]
    BY <1>1, <1>2, <1>3 DEF Increasing
  <1> QED
    BY <1>4, <1>5 DEF Below, Range

LEMMA IncreasingConcat ==
  ASSUME NEW s \in Seq(Nat), NEW t \in Seq(Nat), Increasing(s), Increasing(t),
         Below(Range(s), Range(t))
  PROVE  Increasing(s \o t)
  <1>1. \A i \in 1 .. Len(s), j \in 1 .. Len(t) : s[i] < t[j]
    BY DEF Below, Range
  <1> SUFFICES ASSUME NEW i \in 1 .. Len(s) + Len(t),
                      NEW j \in 1 .. Len(s) + Len(t), i < j
               PROVE  (s \o t)[i] < (s \o t)[j]
    BY DEF Increasing
  <1>2. CASE j <= Len(s)
    BY <1>2 DEF Increasing
  <1>3. CASE i <= Len(s) /\ j > Len(s)
    <2>1. (s \o t)[i] = s[i] /\ (s \o t)[j] = t[j - Len(s)]
      BY <1>3
    <2> QED
      BY <1>1, <1>3, <2>1
  <1>4. CASE i > Len(s)
    <2>1. (s \o t)[i] = t[i - Len(s)] /\ (s \o t)[j] = t[j - Len(s)]
      BY <1>4
    <2>2. i - Len(s) \in 1 .. Len(t) /\ j - Len(s) \in 1 .. Len(t)
      BY <1>4
    <2> QED
      BY <1>4, <2>1, <2>2 DEF Increasing
  <1> QED
    BY <1>2, <1>3, <1>4

-----------------------------------------------------------------------------
(* Order and conservation. The snapshot invariant says that the copy is    *)
(* faithful when packet_count is reset: nothing was queued since the count *)
(* was read, because the handler found the lock taken.                     *)
SnapInv ==
  /\ pc \in {"copy", "reset"} => lpacket_count = packet_count
  /\ pc = "copy" => \A s \in Slots : s < idx => lpackets[s] = packets[s]
  /\ pc = "reset" => \A s \in Slots : lpackets[s] = packets[s]
  /\ pc = "schedule" => idx >= lpacket_count

SentInv ==
  /\ Range(delivered) \cup Remaining \cup Queued \cup Range(port)
       \subseteq 1 .. Len(sent)
  /\ lost \subseteq 1 .. Len(sent)

OrderInv == InOrder /\ Accounted /\ SentInv
BaseInv == TypeInv /\ LockInv /\ SnapInv

LEMMA SnapStep == BaseInv /\ [Next]_vars => SnapInv'
  <1> SUFFICES ASSUME BaseInv, [Next]_vars PROVE SnapInv'
    OBVIOUS
  <1> USE DEF BaseInv, SnapInv
  <1>0. /\ QueueType /\ LocalType
        /\ pc \in {"copy", "reset"} => isr # "fill" /\ (umkaLock \/ isr = "panic")
    BY DEF TypeInv, TypeOK, LockInv, LockDiscipline, InSnapshot, Dead
  <1>1. CASE MainCopy
    <2>1. idx \in Slots /\ idx' = idx + 1 /\ UNCHANGED queueVars
      BY <1>0, <1>1 DEF MainCopy, LocalType, Slots
    <2>2. \A s \in Slots : s < idx + 1 => lpackets'[s] = packets'[s]
      BY <1>0, <1>1, <2>1
      DEF MainCopy, MainAt, LocalType, Slots, queueVars
    <2>3. idx + 1 = Cap => \A s \in Slots : s < idx + 1
      BY <2>1 DEF Slots
    <2> QED
      BY <1>1, <2>1, <2>2, <2>3 DEF MainCopy, MainAt, Goto, queueVars
  <1>2. CASE MainStep /\ ~MainCopy
    BY <1>0, <1>2
    DEF MainStep, MainTest, MainLock, MainCount, MainReset, MainUnlock,
        MainDispatch, MainLoopEnd, MainSchedule, MainUmkaError, MainReturn,
        MainSti, MainHlt, MainAt, Goto, LocalsUnchanged, queueVars, LocalType,
        QueueType, Slots
  <1>3. CASE IsrStep
    <2>1. UNCHANGED mainVars
      BY <1>3 DEF IsrStep, IsrBusy, IsrClaim, IsrFill, IsrRelease, IsrDrain,
                  IsrDrained, IsrAck
    <2>2. pc \in {"copy", "reset"} => UNCHANGED queueVars
      BY <1>0, <1>3
      DEF IsrStep, IsrBusy, IsrClaim, IsrFill, IsrRelease, IsrDrain,
          IsrDrained, IsrAck
    <2> QED
      BY <2>1, <2>2 DEF mainVars, queueVars
  <1>4. CASE \E irq \in Irqs : IsrEnter(irq)
    BY <1>4 DEF IsrEnter, queueVars
  <1>5. CASE \E src \in Irqs : DeviceSend(src)
    BY <1>5 DEF DeviceSend, mainVars, queueVars
  <1>6. CASE UNCHANGED vars
    BY <1>6 DEF vars, mainVars, queueVars
  <1> QED
    BY <1>1, <1>2, <1>3, <1>4, <1>5, <1>6 DEF Next

(* The invariant looks at the bytes through the slots, the two sequences   *)
(* and lost: a step that leaves those alone preserves it.                  *)
LEMMA OrderSame ==
  ASSUME OrderInv, UNCHANGED <<packets, packet_count, delivered, port, sent, lost>>,
         RemainingSlots' = RemainingSlots,
         \A s \in RemainingSlots : lpackets'[s] = lpackets[s],
         Dead => Dead'
  PROVE  OrderInv'
  <1>1. Queued' = Queued /\ QueuedSlots' = QueuedSlots
    BY DEF Queued, QueuedSlots, BytesOf
  <1>2. Remaining' = Remaining
    BY DEF Remaining, BytesOf
  <1>3. SlotsOrdered(lpackets, RemainingSlots)'
    BY DEF OrderInv, InOrder, SlotsOrdered, BytesOf
  <1>4. SlotsOrdered(packets, QueuedSlots)'
    BY <1>1 DEF OrderInv, InOrder, SlotsOrdered, BytesOf
  <1>5. InOrder'
    BY <1>1, <1>2, <1>3, <1>4 DEF OrderInv, InOrder
  <1>6. Accounted' /\ SentInv'
    BY <1>1, <1>2 DEF OrderInv, Accounted, SentInv
  <1> QED
    BY <1>5, <1>6 DEF OrderInv

(* Bytes of the slots, element by element. *)
LEMMA SlotMembers ==
  /\ \A b : b \in Queued <=> \E s \in QueuedSlots : b \in BytesOf(packets[s])
  /\ \A b : b \in Remaining <=> \E s \in RemainingSlots : b \in BytesOf(lpackets[s])
  BY DEF Queued, Remaining

LEMMA OrderSend ==
  ASSUME BaseInv, OrderInv, NEW src \in Irqs, DeviceSend(src)
  PROVE  OrderInv'
  <1> DEFINE new == Len(sent) + 1
  <1>0. port \in Seq(Nat) /\ sent \in Seq(Irqs)
    BY DEF BaseInv, TypeInv, TypeOK, DeviceType
  <1>1. /\ port' = Append(port, new) /\ sent' = Append(sent, src)
        /\ Len(sent') = new /\ DOMAIN sent' = 1 .. new
        /\ DOMAIN sent = 1 .. Len(sent) /\ new \in Nat
    BY <1>0 DEF DeviceSend
  <1>2. UNCHANGED <<packets, packet_count, lpackets, delivered, lost, pc, isr>>
    BY DEF DeviceSend, mainVars, queueVars
  <1>3. /\ Queued' = Queued /\ QueuedSlots' = QueuedSlots
        /\ Remaining' = Remaining /\ RemainingSlots' = RemainingSlots
    BY <1>2 DEF Queued, Remaining, QueuedSlots, RemainingSlots, DeviceSend,
                mainVars
  <1>4. Range(port') = Range(port) \cup {new}
    BY <1>0, <1>1, RangeAppend
  <1>5. /\ Below(Range(port), {new}) /\ Below(Queued, {new})
        /\ Below(Remaining, {new}) /\ Below(Range(delivered), {new})
    BY <1>1 DEF OrderInv, SentInv, Below
  <1>6. Increasing(port')
    BY <1>0, <1>1, <1>5, IncreasingAppend DEF OrderInv, InOrder
  <1>7. InOrder'
    BY <1>2, <1>3, <1>4, <1>5, <1>6
    DEF OrderInv, InOrder, Below, SlotsOrdered
  <1>8. SentInv'
    BY <1>1, <1>2, <1>3, <1>4 DEF OrderInv, SentInv
  <1>9. Accounted'
    <2>1. ~(new \in lost)
      BY <1>1 DEF OrderInv, SentInv
    <2>2. 1 .. new = (1 .. Len(sent)) \cup {new}
      BY <1>0
    <2> QED
      BY <1>1, <1>2, <1>3, <1>4, <2>1, <2>2 DEF OrderInv, Accounted, Dead
  <1> QED
    BY <1>7, <1>8, <1>9 DEF OrderInv

(* Where a byte just read from the port goes: its head precedes the rest   *)
(* and follows all that was captured before.                               *)
LEMMA HeadOfPort ==
  ASSUME BaseInv, OrderInv, port # <<>>, ReadPort
  PROVE  LET h == Head(port) IN
         /\ h \in Nat /\ Range(port) = {h} \cup Range(port')
         /\ Increasing(port') /\ Below({h}, Range(port'))
         /\ Below(Queued, {h}) /\ Below(Remaining, {h})
         /\ Below(Range(delivered), {h})
         /\ Range(port) \subseteq Nat
  <1>0. port \in Seq(Nat) /\ port' = Tail(port)
    BY DEF BaseInv, TypeInv, TypeOK, DeviceType, ReadPort
  <1>1. Range(port) = {Head(port)} \cup Range(port')
    BY <1>0, RangeTail
  <1>2. Increasing(port') /\ Below({Head(port)}, Range(port'))
    BY <1>0, IncreasingTail DEF OrderInv, InOrder
  <1>3. /\ Below(Queued, {Head(port)}) /\ Below(Remaining, {Head(port)})
        /\ Below(Range(delivered), {Head(port)})
    BY <1>1 DEF OrderInv, InOrder, Below
  <1>4. Range(port) \subseteq Nat /\ Head(port) \in Nat
    BY <1>0 DEF Range
  <1> QED
    BY <1>1, <1>2, <1>3, <1>4

LEMMA OrderDrain ==
  ASSUME BaseInv, OrderInv, IsrDrain
  PROVE  OrderInv'
  <1> DEFINE h == Head(port)
  <1>1. /\ h \in Nat /\ Range(port) = {h} \cup Range(port')
        /\ Increasing(port') /\ Below({h}, Range(port'))
        /\ Below(Queued, {h}) /\ Below(Remaining, {h})
        /\ Below(Range(delivered), {h}) /\ Range(port) \subseteq Nat
    BY HeadOfPort DEF IsrDrain
  <1>2. /\ UNCHANGED <<packets, packet_count, lpackets, delivered, sent, pc, isr>>
        /\ lost' = lost \cup {h}
    BY DEF IsrDrain, ReadPort, mainVars, queueVars
  <1>3. /\ Queued' = Queued /\ QueuedSlots' = QueuedSlots
        /\ Remaining' = Remaining /\ RemainingSlots' = RemainingSlots
    BY <1>2 DEF Queued, Remaining, QueuedSlots, RemainingSlots, IsrDrain, mainVars
  <1>4. InOrder'
    BY <1>1, <1>2, <1>3 DEF OrderInv, InOrder, Below, SlotsOrdered
  <1>5. SentInv'
    BY <1>1, <1>2, <1>3 DEF OrderInv, SentInv
  <1>6. /\ h \notin Range(port') /\ h \notin Queued /\ h \notin Remaining
        /\ h \notin Range(delivered)
    BY <1>1 DEF Below
  <1>7. Accounted'
    BY <1>1, <1>2, <1>3, <1>6 DEF OrderInv, Accounted, Dead
  <1> QED
    BY <1>4, <1>5, <1>7 DEF OrderInv

LEMMA OrderClaim ==
  ASSUME BaseInv, OrderInv, IsrClaim
  PROVE  OrderInv'
  <1>1. UNCHANGED <<lpackets, lpacket_count, idx, delivered, sent, port, lost, pc>>
    BY DEF IsrClaim, mainVars, devVars
  <1>2. Remaining' = Remaining /\ RemainingSlots' = RemainingSlots
    BY <1>1 DEF Remaining, RemainingSlots
  <1>3. CASE QueueFull
    BY <1>1, <1>2, <1>3, OrderSame DEF IsrClaim, queueVars, Dead
  <1>4. CASE ~QueueFull
    <2>0. packets \in [Slots -> Packet] /\ packet_count \in 0 .. Cap
      BY DEF BaseInv, TypeInv, TypeOK, QueueType
    <2>1. /\ packets' = [packets EXCEPT ![packet_count] =
                           [irq |-> isrIrq, bytes |-> <<>>]]
          /\ packet_count' = packet_count + 1 /\ isr' = "fill" /\ isr = "entry"
      BY <1>4 DEF IsrClaim, MakePacket
    <2>2. QueuedSlots' = QueuedSlots \cup {packet_count}
      BY <2>0, <2>1 DEF QueuedSlots
    <2>3. \A s \in QueuedSlots : packets'[s] = packets[s]
      BY <2>0, <2>1 DEF QueuedSlots, Slots
    <2>4. packets'[packet_count].bytes = <<>>
      BY <1>4, <2>0, <2>1 DEF Slots, QueueFull
    <2>5. Increasing(<<>>) /\ Range(<<>>) = {}
      BY DEF Increasing, Range
    <2>6. SlotsOrdered(packets, QueuedSlots)'
      <3>1. \A s \in QueuedSlots' : Increasing(packets'[s].bytes)
        BY <2>2, <2>3, <2>4, <2>5 DEF OrderInv, InOrder, SlotsOrdered
      <3>2. \A s, t \in QueuedSlots' :
              s < t => Below(BytesOf(packets'[s]), BytesOf(packets'[t]))
        BY <2>2, <2>3, <2>4, <2>5
        DEF OrderInv, InOrder, SlotsOrdered, BytesOf, Below
      <3> QED
        BY <3>1, <3>2 DEF SlotsOrdered, BytesOf
    <2>7. Queued' = Queued
      BY <2>2, <2>3, <2>4, <2>5 DEF Queued, BytesOf
    <2>8. InOrder'
      BY <1>1, <1>2, <2>6, <2>7 DEF OrderInv, InOrder, SlotsOrdered
    <2>9. SentInv' /\ Accounted'
      BY <1>1, <1>2, <2>1, <2>7 DEF OrderInv, SentInv, Accounted, Dead
    <2> QED
      BY <2>8, <2>9 DEF OrderInv
  <1> QED
    BY <1>3, <1>4

LEMMA OrderFill ==
  ASSUME BaseInv, OrderInv, IsrFill
  PROVE  OrderInv'
  <1> DEFINE h == Head(port)
             p == packet_count - 1
  <1>1. /\ h \in Nat /\ Range(port) = {h} \cup Range(port')
        /\ Increasing(port') /\ Below({h}, Range(port'))
        /\ Below(Queued, {h}) /\ Below(Remaining, {h})
        /\ Below(Range(delivered), {h}) /\ Range(port) \subseteq Nat
    BY HeadOfPort DEF IsrFill
  <1>2. UNCHANGED <<packet_count, lpackets, lpacket_count, idx, delivered, sent,
                    lost, pc>>
    BY DEF IsrFill, ReadPort, mainVars
  <1>3. /\ QueuedSlots' = QueuedSlots
        /\ Remaining' = Remaining /\ RemainingSlots' = RemainingSlots
    BY <1>2 DEF Remaining, QueuedSlots, RemainingSlots
  <1>4. /\ packets \in [Slots -> Packet] /\ packet_count \in 0 .. Cap
        /\ packet_count > 0 /\ p \in Slots /\ p \in QueuedSlots
    BY DEF BaseInv, TypeInv, TypeOK, QueueType, FillInv, IsrFill, Slots,
           QueuedSlots
  <1>5. CASE Len(packets[p].bytes) < PacketCap
    <2>1. /\ packets' = [packets EXCEPT ![p].bytes = Append(@, h)]
          /\ isr' = isr
      BY <1>5 DEF IsrFill
    <2>2. packets[p].bytes \in Seq(Nat)
      BY <1>4, SlotPacket
    <2>3. packets'[p].bytes = Append(packets[p].bytes, h)
      BY <1>4, <2>1 DEF Packet
    <2>4. \A s \in QueuedSlots : s # p => packets'[s] = packets[s]
      BY <1>4, <2>1 DEF QueuedSlots, Slots
    <2>5. BytesOf(packets'[p]) = BytesOf(packets[p]) \cup {h}
      BY <2>2, <2>3, RangeAppend DEF BytesOf
    <2>6. \A s \in QueuedSlots : BytesOf(packets[s]) \subseteq Queued
      BY SlotMembers
    <2>7. Queued' = Queued \cup {h}
      <3>1. \A b : b \in Queued' <=>
                     \E s \in QueuedSlots : b \in BytesOf(packets'[s])
        BY <1>3 DEF Queued, BytesOf
      <3>2. \A b : b \in Queued <=>
                     \E s \in QueuedSlots : b \in BytesOf(packets[s])
        BY SlotMembers
      <3>3. \A b : b \in Queued' => b \in Queued \cup {h}
        BY <2>4, <2>5, <3>1, <3>2
      <3>4. \A b : b \in Queued \cup {h} => b \in Queued'
        BY <1>4, <2>4, <2>5, <3>1, <3>2
      <3> QED
        BY <3>3, <3>4
    <2>8. SlotsOrdered(packets, QueuedSlots)'
      <3>1. Increasing(Append(packets[p].bytes, h))
        <4>1. Below(Range(packets[p].bytes), {h})
          BY <1>1, <1>4, <2>6 DEF Below, BytesOf
        <4>2. Increasing(packets[p].bytes)
          BY <1>4 DEF OrderInv, InOrder, SlotsOrdered
        <4> QED
          BY <1>1, <2>2, <4>1, <4>2, IncreasingAppend
      <3>2. \A s \in QueuedSlots : Increasing(packets'[s].bytes)
        BY <2>3, <2>4, <3>1 DEF OrderInv, InOrder, SlotsOrdered
      <3>3. ASSUME NEW s \in QueuedSlots, NEW t \in QueuedSlots, s < t
            PROVE  Below(BytesOf(packets'[s]), BytesOf(packets'[t]))
        <4>1. s # p /\ packets'[s] = packets[s]
          BY <1>4, <2>4, <3>3 DEF QueuedSlots
        <4>2. Below(BytesOf(packets[s]), BytesOf(packets[t]))
          BY <3>3 DEF OrderInv, InOrder, SlotsOrdered
        <4>3. Below(BytesOf(packets[s]), {h})
          BY <1>1, <2>6 DEF Below
        <4> QED
          BY <2>4, <2>5, <4>1, <4>2, <4>3 DEF Below
      <3> QED
        BY <1>3, <3>2, <3>3 DEF SlotsOrdered, BytesOf
    <2>9. InOrder'
      <3>1. Below(Range(delivered), Remaining \cup Queued \cup Range(port))'
        BY <1>1, <1>2, <1>3, <2>7 DEF OrderInv, InOrder, Below
      <3>2. Below(Remaining, Queued \cup Range(port))'
        BY <1>1, <1>2, <1>3, <2>7 DEF OrderInv, InOrder, Below
      <3>3. Below(Queued, Range(port))'
        BY <1>1, <2>7 DEF OrderInv, InOrder, Below
      <3>4. SlotsOrdered(lpackets, RemainingSlots)'
        BY <1>2, <1>3 DEF OrderInv, InOrder, SlotsOrdered
      <3> QED
        BY <1>1, <1>2, <2>8, <3>1, <3>2, <3>3, <3>4 DEF OrderInv, InOrder
    <2>10. SentInv' /\ Accounted'
      <3>1. h \notin lost
        BY <1>1, <2>1 DEF OrderInv, Accounted, Dead, BaseInv, LockInv, PanicInv,
                          IsrFill
      <3> QED
        BY <1>1, <1>2, <1>3, <2>1, <2>7, <3>1
        DEF OrderInv, SentInv, Accounted, Dead
    <2> QED
      BY <2>9, <2>10 DEF OrderInv
  <1>6. CASE Len(packets[p].bytes) >= PacketCap
    <2>1. UNCHANGED packets /\ isr' = "panic"
      BY <1>4, <1>6 DEF IsrFill
    <2>2. Queued' = Queued
      BY <1>3, <2>1 DEF Queued
    <2>3. InOrder'
      BY <1>1, <1>2, <1>3, <2>1, <2>2 DEF OrderInv, InOrder, SlotsOrdered, Below
    <2>4. SentInv' /\ Accounted'
      BY <1>1, <1>2, <1>3, <2>1, <2>2
      DEF OrderInv, SentInv, Accounted, Dead
    <2> QED
      BY <2>3, <2>4 DEF OrderInv
  <1>7. Len(packets[p].bytes) \in Nat
    BY <1>4, SlotPacket
  <1> QED
    BY <1>5, <1>6, <1>7

(* packet_count = 0 turns the copied slots into the snapshot. *)
LEMMA OrderReset ==
  ASSUME BaseInv, OrderInv, MainReset
  PROVE  OrderInv'
  <1>1. /\ UNCHANGED <<lpackets, lpacket_count, packets, delivered, sent, port,
                       lost, isr>>
        /\ pc = "reset" /\ pc' = "unlock" /\ packet_count' = 0 /\ idx' = 0
    BY DEF MainReset, MainAt, Goto, IsrUnchanged, devVars
  <1>2. /\ packet_count \in 0 .. Cap /\ lpacket_count = packet_count
        /\ \A s \in Slots : lpackets[s] = packets[s]
    BY <1>1 DEF BaseInv, TypeInv, TypeOK, QueueType, SnapInv
  <1>3. /\ RemainingSlots = {} /\ RemainingSlots' = QueuedSlots
        /\ QueuedSlots' = {}
    BY <1>1, <1>2 DEF RemainingSlots, QueuedSlots
  <1>4. \A s \in QueuedSlots : lpackets'[s] = packets[s]
    BY <1>1, <1>2 DEF QueuedSlots, Slots
  <1>5. Remaining = {} /\ Remaining' = Queued /\ Queued' = {}
    BY <1>3, <1>4 DEF Remaining, Queued, BytesOf
  <1>6. SlotsOrdered(lpackets, RemainingSlots)'
    BY <1>3, <1>4 DEF OrderInv, InOrder, SlotsOrdered, BytesOf
  <1>7. SlotsOrdered(packets, QueuedSlots)'
    BY <1>3 DEF SlotsOrdered
  <1>8. InOrder'
    BY <1>1, <1>5, <1>6, <1>7 DEF OrderInv, InOrder, Below
  <1>9. SentInv' /\ Accounted'
    BY <1>1, <1>5 DEF OrderInv, SentInv, Accounted, Dead
  <1> QED
    BY <1>8, <1>9 DEF OrderInv

(* The loop passes the first remaining packet on. *)
LEMMA OrderDispatch ==
  ASSUME BaseInv, OrderInv, MainDispatch
  PROVE  OrderInv'
  <1> DEFINE now == lpackets[idx].bytes
  <1>1. /\ UNCHANGED <<lpackets, lpacket_count, packets, packet_count, sent,
                       port, lost, isr>>
        /\ pc = "dispatch" /\ pc' = "dispatch" /\ idx' = idx + 1
        /\ idx < lpacket_count /\ delivered' = delivered \o now
    BY DEF MainDispatch, MainAt, Goto, IsrUnchanged, devVars, queueVars
  <1>2. /\ idx \in Nat /\ lpacket_count \in 0 .. Cap
        /\ lpackets \in [Slots -> Packet] /\ delivered \in Seq(Nat)
    BY DEF BaseInv, TypeInv, TypeOK, LocalType, LogType
  <1>3. idx \in Slots /\ now \in Seq(Nat)
    BY <1>1, <1>2, SlotPacket DEF Slots
  <1>4. /\ RemainingSlots = idx .. lpacket_count - 1
        /\ RemainingSlots' = (idx + 1) .. lpacket_count - 1
    BY <1>1 DEF RemainingSlots
  <1>5. /\ RemainingSlots = {idx} \cup RemainingSlots'
        /\ \A s \in RemainingSlots' : idx < s
    BY <1>1, <1>2, <1>4
  <1>6. Queued' = Queued /\ QueuedSlots' = QueuedSlots
    BY <1>1 DEF Queued, QueuedSlots
  <1>7. Remaining = Range(now) \cup Remaining'
    BY <1>1, <1>5 DEF Remaining, BytesOf
  <1>8. Range(delivered') = Range(delivered) \cup Range(now)
    BY <1>1, <1>2, <1>3, RangeConcat
  <1>9. Below(Range(now), Remaining')
    <2>1. \A s \in RemainingSlots' : Below(Range(now), BytesOf(lpackets[s]))
      BY <1>5 DEF OrderInv, InOrder, SlotsOrdered, BytesOf
    <2>2. \A b \in Remaining' : \E s \in RemainingSlots' : b \in BytesOf(lpackets[s])
      BY <1>1 DEF Remaining, BytesOf
    <2> QED
      BY <2>1, <2>2 DEF Below
  <1>10. Increasing(delivered')
    <2>1. Increasing(now) /\ Increasing(delivered)
      BY <1>5 DEF OrderInv, InOrder, SlotsOrdered
    <2>2. Below(Range(delivered), Range(now))
      BY <1>7 DEF OrderInv, InOrder, Below
    <2> QED
      BY <1>1, <1>2, <1>3, <2>1, <2>2, IncreasingConcat
  <1>11. InOrder'
    <2>1. SlotsOrdered(lpackets, RemainingSlots)'
      BY <1>1, <1>5 DEF OrderInv, InOrder, SlotsOrdered
    <2>2. SlotsOrdered(packets, QueuedSlots)'
      BY <1>1, <1>6 DEF OrderInv, InOrder, SlotsOrdered
    <2>3. Below(Range(delivered), Remaining \cup Queued \cup Range(port))'
      BY <1>1, <1>6, <1>7, <1>8, <1>9 DEF OrderInv, InOrder, Below
    <2>4. Below(Remaining, Queued \cup Range(port))' /\ Below(Queued, Range(port))'
      BY <1>1, <1>6, <1>7 DEF OrderInv, InOrder, Below
    <2> QED
      BY <1>1, <1>10, <2>1, <2>2, <2>3, <2>4 DEF OrderInv, InOrder
  <1>12. SentInv' /\ Accounted'
    BY <1>1, <1>6, <1>7, <1>8 DEF OrderInv, SentInv, Accounted, Dead
  <1> QED
    BY <1>11, <1>12 DEF OrderInv

LEMMA OrderStep == BaseInv /\ OrderInv /\ [Next]_vars => OrderInv'
  <1> SUFFICES ASSUME BaseInv, OrderInv, [Next]_vars PROVE OrderInv'
    OBVIOUS
  <1>1. CASE MainDispatch \/ MainReset
    BY <1>1, OrderDispatch, OrderReset
  <1>2. CASE IsrClaim \/ IsrFill \/ IsrDrain
    BY <1>2, OrderClaim, OrderFill, OrderDrain
  <1>3. CASE \E src \in Irqs : DeviceSend(src)
    BY <1>3, OrderSend
  <1>4. CASE MainCount \/ MainCopy
    <2>1. RemainingSlots = {} /\ RemainingSlots' = {}
      BY <1>4 DEF MainCount, MainCopy, MainAt, Goto, RemainingSlots
    <2> QED
      BY <1>4, <2>1, OrderSame
      DEF MainCount, MainCopy, MainAt, Goto, IsrUnchanged, queueVars, devVars,
          Dead
  <1>5. CASE MainTest \/ MainLock \/ MainUnlock \/ MainSchedule
             \/ MainReturn \/ MainSti \/ MainHlt
    <2>1. RemainingSlots' = RemainingSlots
      BY <1>5 DEF MainTest, MainLock, MainUnlock, MainSchedule,
                  MainReturn, MainSti, MainHlt, MainAt, Goto, LocalsUnchanged,
                  RemainingSlots
    <2> QED
      BY <1>5, <2>1, OrderSame
      DEF MainTest, MainLock, MainUnlock, MainSchedule, MainReturn, MainSti,
          MainHlt, MainAt, Goto, LocalsUnchanged, IsrUnchanged, queueVars,
          devVars, Dead
  <1>6. CASE MainLoopEnd \/ MainUmkaError
    <2>1. idx \in Nat /\ lpacket_count \in Nat
      BY DEF BaseInv, TypeInv, TypeOK, LocalType
    <2>2. RemainingSlots' = RemainingSlots
      BY <1>6, <2>1
      DEF MainLoopEnd, MainUmkaError, MainAt, Goto, LocalsUnchanged,
          RemainingSlots, BaseInv, SnapInv
    <2> QED
      BY <1>6, <2>2, OrderSame
      DEF MainLoopEnd, MainUmkaError, MainAt, Goto, LocalsUnchanged,
          IsrUnchanged, queueVars, devVars, Dead
  <1>7. CASE IsrBusy \/ IsrRelease \/ IsrDrained \/ IsrAck
    <2>1. UNCHANGED mainVars /\ isr # "panic"
      BY <1>7 DEF IsrBusy, IsrRelease, IsrDrained, IsrAck
    <2> QED
      BY <1>7, <2>1, OrderSame
      DEF IsrBusy, IsrRelease, IsrDrained, IsrAck, mainVars, queueVars, devVars,
          Dead, RemainingSlots
  <1>8. CASE \E irq \in Irqs : IsrEnter(irq)
    <2>1. RemainingSlots' = RemainingSlots
      BY <1>8 DEF IsrEnter, RemainingSlots
    <2> QED
      BY <1>8, <2>1, OrderSame DEF IsrEnter, queueVars, devVars, Dead
  <1>9. CASE UNCHANGED vars
    BY <1>9, OrderSame
    DEF vars, mainVars, queueVars, devVars, Dead, RemainingSlots
  <1> QED
    BY <1>1, <1>2, <1>3, <1>4, <1>5, <1>6, <1>7, <1>8, <1>9
    DEF Next, MainStep, IsrStep

LEMMA OrderInit == Init => SnapInv /\ OrderInv
  <1> SUFFICES ASSUME Init PROVE SnapInv /\ OrderInv
    OBVIOUS
  <1>1. /\ RemainingSlots = {} /\ QueuedSlots = {} /\ Range(<<>>) = {}
        /\ Increasing(<<>>)
    BY DEF Init, RemainingSlots, QueuedSlots, Range, Increasing
  <1>2. Remaining = {} /\ Queued = {}
    BY <1>1 DEF Remaining, Queued
  <1>3. SnapInv
    BY DEF Init, SnapInv
  <1>4. InOrder
    BY <1>1, <1>2 DEF Init, InOrder, SlotsOrdered, Below
  <1>5. Accounted /\ SentInv
    BY <1>1, <1>2 DEF Init, Accounted, SentInv
  <1> QED
    BY <1>3, <1>4, <1>5 DEF OrderInv

LEMMA OrderAlways == Spec => [](BaseInv /\ OrderInv)
  <1>1. Init => BaseInv /\ OrderInv
    BY TypeInit, LockInit, OrderInit DEF BaseInv
  <1>2. BaseInv /\ OrderInv /\ [Next]_vars => (BaseInv /\ OrderInv)'
    BY TypeStep, LockStep, SnapStep, OrderStep DEF BaseInv
  <1> QED
    BY <1>1, <1>2, PTL DEF Spec

(* Bytes reach system__irq in the order they were sent, none of them       *)
(* twice, however the interrupts fall between the steps of the main        *)
(* context.                                                                *)
THEOREM OrderCorrect == Spec => []InOrder
  BY OrderAlways, PTL DEF OrderInv

(* Every byte sent is in exactly one place until it is delivered or, in a  *)
(* handler that met the lock, dropped.                                     *)
THEOREM NothingVanishes == Spec => []Accounted
  BY OrderAlways, PTL DEF OrderInv

-----------------------------------------------------------------------------
(* f lists the bytes of the slots from .. k - 1, for each k up to n.       *)
Lists(f, ps, from, n) ==
  /\ SlotBytes(ps, from, n) = f[n]
  /\ f \in [0 .. n -> Seq(Nat)] /\ f[0] = <<>>
  /\ \A k \in 1 .. n : f[k] = IF k <= from THEN <<>> ELSE f[k - 1] \o ps[k - 1].bytes

Arrays == [Slots -> Packet]

LEMMA ListDef ==
  \A ps \in Arrays : \A from \in Nat : \A n \in 0 .. Cap : \E f : Lists(f, ps, from, n)
  <1> SUFFICES ASSUME NEW ps \in Arrays, NEW from \in Nat, NEW n \in 0 .. Cap
               PROVE  \E f : Lists(f, ps, from, n)
    OBVIOUS
  <1> DEFINE V == Seq(Nat)
             step == [k \in 1 .. n |-> [v \in V |-> IF k <= from THEN <<>> ELSE v \o ps[k - 1].bytes]]
             Is(f) == f = [k \in 0 .. n |-> IF k <= from THEN <<>> ELSE f[k - 1] \o ps[k - 1].bytes]
             upto == CHOOSE f : Is(f)
  <1>0. n \in Nat /\ Cap \in Nat
    BY CapAssumption
  <1>1. step \in [1 .. n -> [V -> V]] /\ <<>> \in V
    <2>1. ASSUME NEW k \in 1 .. n, NEW v \in V PROVE v \o ps[k - 1].bytes \in V
      <3>1. k - 1 \in Slots
        BY <1>0 DEF Slots
      <3>2. ps[k - 1].bytes \in Seq(Nat)
        BY <3>1 DEF Arrays, Packet
      <3> QED
        BY <3>2
    <2>2. <<>> \in V
      OBVIOUS
    <2> HIDE DEF V
    <2> QED
      BY <2>1, <2>2
  <1>2. \A k \in 1 .. n : \A v \in V : step[k][v] = IF k <= from THEN <<>> ELSE v \o ps[k - 1].bytes
    OBVIOUS
  <1>3. SlotBytes(ps, from, n) = upto[n]
    BY DEF SlotBytes
  <1> HIDE DEF V, step
  <1>4. Recursion(V, <<>>, n, step)
    BY <1>0, <1>1 DEF Recursion
  <1>5. PICK f : Solves(f, V, <<>>, n, step)
    BY <1>4, RecursionExists
  <1>6. /\ f \in [0 .. n -> V] /\ f[0] = <<>>
        /\ \A k \in 1 .. n : f[k] = step[k][f[k - 1]]
    BY <1>5 DEF Solves
  <1>7. \A k \in 1 .. n : f[k] = IF k <= from THEN <<>> ELSE f[k - 1] \o ps[k - 1].bytes
    <2> TAKE k \in 1 .. n
    <2>1. k - 1 \in 0 .. n
      BY <1>0
    <2>2. f[k - 1] \in V
      BY <1>6, <2>1
    <2> QED
      BY <1>2, <1>6, <2>2
  <1>8. \A k \in 0 .. n : f[k] = IF k <= from THEN <<>> ELSE f[k - 1] \o ps[k - 1].bytes
    <2>1. \A k \in 0 .. n : k = 0 \/ k \in 1 .. n
      BY <1>0
    <2>2. 0 <= from
      OBVIOUS
    <2> QED
      BY <1>6, <1>7, <2>1, <2>2
  <1>9. Is(f)
    BY <1>6, <1>8
  <1>10. Is(upto)
    <2> HIDE DEF Is
    <2> QED
      BY <1>9
  <1> HIDE DEF upto
  <1>11. /\ upto = [k \in 0 .. n |-> upto[k]] /\ upto[0] = <<>>
         /\ \A k \in 1 .. n : upto[k] = IF k <= from THEN <<>> ELSE upto[k - 1] \o ps[k - 1].bytes
    <2>1. \A k \in 0 .. n : upto[k] = IF k <= from THEN <<>> ELSE upto[k - 1] \o ps[k - 1].bytes
      BY <1>10
    <2>2. upto = [k \in 0 .. n |-> upto[k]]
      BY <1>10
    <2>3. 0 \in 0 .. n /\ 0 <= from /\ \A k \in 1 .. n : k \in 0 .. n
      BY <1>0
    <2> QED
      BY <2>1, <2>2, <2>3
  <1>12. upto = f
    <2>1. DOMAIN upto = 0 .. n /\ DOMAIN f = 0 .. n /\ f = [k \in 0 .. n |-> f[k]]
      BY <1>6, <1>11
    <2>2. \A k \in 1 .. n : upto[k - 1] = f[k - 1] => upto[k] = f[k]
      BY <1>7, <1>11
    <2> QED
      BY <1>0, <1>6, <1>11, <2>1, <2>2, RecursionUnique
  <1> QED
    BY <1>0, <1>3, <1>6, <1>7, <1>12 DEF Lists, V

LEMMA Associative ==
  ASSUME NEW a \in Seq(Nat), NEW b \in Seq(Nat), NEW c \in Seq(Nat)
  PROVE  (a \o b) \o c = a \o (b \o c)
  <1> DEFINE S == Nat
  <1>1. a \in Seq(S) /\ b \in Seq(S) /\ c \in Seq(S)
    OBVIOUS
  <1> HIDE DEF S
  <1> QED
    BY ONLY <1>1, ConcatAssociative, SMTT(60)

SameBytes(ps, qs, from, n) ==
  \A s \in 0 .. n - 1 : from <= s => ps[s].bytes = qs[s].bytes

(* Two such lists agree as far as the slots do.                            *)
LEMMA ListsAgree ==
  ASSUME NEW ps, NEW qs, NEW from \in Nat, NEW n \in Nat, NEW m \in Nat, n <= m,
         NEW f, NEW g, Lists(f, ps, from, n), Lists(g, qs, from, m),
         SameBytes(ps, qs, from, n)
  PROVE  \A k \in 0 .. n : f[k] = g[k]
  <1> DEFINE T == {k \in 0 .. n : f[k] # g[k]}
  <1>0. /\ f[0] = <<>> /\ g[0] = <<>>
        /\ \A k \in 1 .. n : f[k] = IF k <= from THEN <<>> ELSE f[k - 1] \o ps[k - 1].bytes
        /\ \A k \in 1 .. m : g[k] = IF k <= from THEN <<>> ELSE g[k - 1] \o qs[k - 1].bytes
    BY DEF Lists
  <1>1. ASSUME T # {} PROVE FALSE
    <2>1. PICK k \in T : \A l \in T : k <= l
      <3>1. T \subseteq Nat
        OBVIOUS
      <3> HIDE DEF T
      <3> QED
        BY <1>1, <3>1, MinimalNat
    <2>2. k \in 1 .. n /\ k - 1 \in 0 .. n - 1 /\ k \in 1 .. m /\ k - 1 \in 0 .. n
      BY <1>0, <2>1
    <2>3. f[k - 1] = g[k - 1]
      BY <2>1, <2>2
    <2>4. CASE k <= from
      BY <1>0, <2>1, <2>2, <2>4
    <2>5. CASE ~(k <= from)
      <3>1. from <= k - 1
        BY <2>2, <2>5
      <3>2. ps[k - 1].bytes = qs[k - 1].bytes
        BY <2>2, <3>1 DEF SameBytes
      <3> QED
        BY <1>0, <2>1, <2>2, <2>3, <2>5, <3>2
    <2> QED
      BY <2>4, <2>5
  <1> QED
    BY <1>1

(* The bytes of a number of slots are those of all but the last and those  *)
(* of the last; they depend on no other slots.                             *)
LEMMA SlotsTo ==
  ASSUME NEW ps \in Arrays, NEW from \in Nat, NEW n \in 0 .. Cap
  PROVE  /\ SlotBytes(ps, from, n) \in Seq(Nat)
         /\ n <= from => SlotBytes(ps, from, n) = <<>>
         /\ from < n => SlotBytes(ps, from, n) = SlotBytes(ps, from, n - 1) \o ps[n - 1].bytes
  <1>0. n \in Nat /\ Cap \in Nat
    BY CapAssumption
  <1>1. PICK f : Lists(f, ps, from, n)
    BY ListDef
  <1>2. /\ SlotBytes(ps, from, n) = f[n] /\ f \in [0 .. n -> Seq(Nat)] /\ f[0] = <<>>
        /\ \A k \in 1 .. n : f[k] = IF k <= from THEN <<>> ELSE f[k - 1] \o ps[k - 1].bytes
    BY <1>1 DEF Lists
  <1>3. n \in 0 .. n /\ (n = 0 \/ n \in 1 .. n)
    BY <1>0
  <1>4. ASSUME from < n
        PROVE  SlotBytes(ps, from, n) = SlotBytes(ps, from, n - 1) \o ps[n - 1].bytes
    <2>1. n - 1 \in 0 .. Cap /\ n - 1 \in Nat /\ n - 1 <= n /\ n - 1 \in 0 .. n - 1 /\ n # 0
          /\ ~(n <= from)
      BY <1>0, <1>4
    <2>2. PICK g : Lists(g, ps, from, n - 1)
      BY <2>1, ListDef
    <2>3. \A k \in 0 .. n - 1 : g[k] = f[k]
      <3> DEFINE m == n - 1
      <3>1. m \in Nat /\ m <= n /\ Lists(g, ps, from, m)
        BY <2>1, <2>2
      <3> HIDE DEF m
      <3>2. SameBytes(ps, ps, from, m)
        BY DEF SameBytes
      <3>3. \A k \in 0 .. m : g[k] = f[k]
        BY <1>0, <1>1, <3>1, <3>2, ListsAgree
      <3> QED
        BY <3>3 DEF m
    <2>4. SlotBytes(ps, from, n - 1) = g[n - 1]
      BY <2>2 DEF Lists
    <2> QED
      BY <1>2, <1>3, <2>1, <2>3, <2>4
  <1>5. SlotBytes(ps, from, n) \in Seq(Nat)
    BY <1>2, <1>3
  <1>6. ASSUME n <= from PROVE SlotBytes(ps, from, n) = <<>>
    BY <1>2, <1>3, <1>6
  <1> QED
    BY <1>4, <1>5, <1>6

LEMMA SameSlots ==
  ASSUME NEW ps \in Arrays, NEW qs \in Arrays, NEW from \in Nat, NEW n \in 0 .. Cap,
         SameBytes(ps, qs, from, n)
  PROVE  SlotBytes(ps, from, n) = SlotBytes(qs, from, n)
  <1>0. n \in Nat /\ n <= n /\ n \in 0 .. n
    BY CapAssumption
  <1>1. PICK f : Lists(f, ps, from, n)
    BY ListDef
  <1>2. PICK g : Lists(g, qs, from, n)
    BY ListDef
  <1>3. f[n] = g[n]
    BY <1>0, <1>1, <1>2, ListsAgree
  <1> QED
    BY <1>1, <1>2, <1>3 DEF Lists

(* The same from the front.                                                *)
LEMMA SlotsFrom ==
  ASSUME NEW ps \in Arrays, NEW from \in Nat, NEW n \in 0 .. Cap, from < n
  PROVE  SlotBytes(ps, from, n) = ps[from].bytes \o SlotBytes(ps, from + 1, n)
  <1> DEFINE b == ps[from].bytes
             A(m) == SlotBytes(ps, from, m)
             B(m) == SlotBytes(ps, from + 1, m)
             T == {m \in from + 1 .. n : A(m) # b \o B(m)}
  <1>0. n \in Nat /\ Cap \in Nat /\ n <= Cap
    BY CapAssumption
  <1>1. \A s \in 0 .. n - 1 : ps[s].bytes \in Seq(Nat)
    BY <1>0 DEF Arrays, Slots, Packet
  <1>2. \A m \in from + 1 .. n : /\ A(m) = A(m - 1) \o ps[m - 1].bytes
                                 /\ A(m) \in Seq(Nat) /\ B(m) \in Seq(Nat)
                                 /\ B(m - 1) \in Seq(Nat)
                                 /\ m > from + 1 => B(m) = B(m - 1) \o ps[m - 1].bytes
    <2> TAKE m \in from + 1 .. n
    <2>1. m \in 0 .. Cap /\ m - 1 \in 0 .. Cap /\ from < m /\ from + 1 \in Nat
      BY <1>0
    <2> DEFINE next == from + 1
    <2>2. A(m) = A(m - 1) \o ps[m - 1].bytes /\ A(m) \in Seq(Nat)
      BY <2>1, SlotsTo
    <2>3. next \in Nat
      BY <2>1
    <2> HIDE DEF next
    <2>4. /\ SlotBytes(ps, next, m) \in Seq(Nat) /\ SlotBytes(ps, next, m - 1) \in Seq(Nat)
          /\ next < m => SlotBytes(ps, next, m) = SlotBytes(ps, next, m - 1) \o ps[m - 1].bytes
      BY <2>1, <2>3, SlotsTo
    <2>5. /\ B(m) \in Seq(Nat) /\ B(m - 1) \in Seq(Nat)
          /\ from + 1 < m => B(m) = B(m - 1) \o ps[m - 1].bytes
      BY <2>4 DEF next
    <2>6. m > from + 1 => from + 1 < m
      BY <1>0
    <2> QED
      BY <2>2, <2>5, <2>6
  <1>3. A(from) = <<>> /\ B(from + 1) = <<>>
    <2> DEFINE next == from + 1
    <2>1. from \in 0 .. Cap /\ from <= from /\ next \in 0 .. Cap /\ next \in Nat /\ next <= next
      BY <1>0
    <2> HIDE DEF next
    <2>2. SlotBytes(ps, from, from) = <<>> /\ SlotBytes(ps, next, next) = <<>>
      BY <2>1, SlotsTo
    <2> QED
      BY <2>2 DEF next
  <1> HIDE DEF A, B, b
  <1>4. ASSUME T # {} PROVE FALSE
    <2>1. PICK m \in T : \A l \in T : m <= l
      <3>1. T \subseteq Nat
        BY <1>0
      <3> HIDE DEF T
      <3> QED
        BY <1>4, <3>1, MinimalNat
    <2>2. m \in from + 1 .. n /\ A(m) # b \o B(m) /\ m \in Nat
      BY <2>1
    <2>3. b \in Seq(Nat)
      BY <1>0, <1>1 DEF b
    <2>4. CASE m = from + 1
      <3>1. m - 1 = from
        BY <2>4
      <3>2. A(m) = <<>> \o ps[from].bytes
        BY <1>2, <1>3, <2>2, <3>1
      <3>3. <<>> \o b = b /\ b \o <<>> = b
        BY <2>3, ConcatEmptySeq
      <3> QED
        BY <1>3, <2>2, <2>4, <3>2, <3>3 DEF b
    <2>5. CASE m # from + 1
      <3>1. m - 1 \in from + 1 .. n /\ m > from + 1 /\ ~(m <= m - 1) /\ m - 1 \in 0 .. n - 1
        BY <1>0, <2>2, <2>5
      <3>2. A(m - 1) = b \o B(m - 1)
        BY <2>1, <3>1 DEF T
      <3> DEFINE c == ps[m - 1].bytes
                 d == B(m - 1)
      <3>3. c \in Seq(Nat) /\ d \in Seq(Nat)
        BY <1>1, <1>2, <2>2, <3>1
      <3>4. A(m) = A(m - 1) \o c /\ B(m) = d \o c /\ A(m - 1) = b \o d
        BY <1>2, <2>2, <3>1, <3>2
      <3> HIDE DEF c, d
      <3>5. (b \o d) \o c = b \o (d \o c)
        BY <2>3, <3>3, Associative
      <3> QED
        BY <2>2, <3>4, <3>5
    <2> QED
      BY <2>4, <2>5
  <1>5. n \in from + 1 .. n
    BY <1>0
  <1> QED
    BY <1>4, <1>5 DEF A, B, b

-----------------------------------------------------------------------------
(* The steps                                                               *)

LEMMA AppendLast ==
  ASSUME NEW a \in Seq(Nat), NEW b \in Seq(Nat), NEW c \in Seq(Nat), NEW x \in Nat
  PROVE  a \o (b \o Append(c, x)) = Append(a \o (b \o c), x)
  <1> DEFINE e == <<x>>
             d == b \o c
  <1>1. e \in Seq(Nat) /\ d \in Seq(Nat) /\ a \o d \in Seq(Nat)
    OBVIOUS
  <1>2. Append(c, x) = c \o e /\ Append(a \o d, x) = (a \o d) \o e
    BY <1>1, AppendIsConcat
  <1> HIDE DEF e
  <1>3. b \o (c \o e) = d \o e
    BY ONLY <1>1, Associative, SMTT(60)
  <1> HIDE DEF d
  <1>4. a \o (d \o e) = (a \o d) \o e
    BY ONLY <1>1, Associative, SMTT(60)
  <1> QED
    BY <1>2, <1>3, <1>4 DEF d

SnapshotBytes ==
  IF pc \in {"unlock", "dispatch", "panic"} THEN SlotBytes(lpackets, idx, lpacket_count)
                                            ELSE <<>>
QueueBytes == SlotBytes(packets, 0, packet_count)

LogStep == [Log!Next]_(Log!vars)

LEMMA LogTypes ==
  ASSUME TypeInv
  PROVE  /\ SnapshotBytes \in Seq(Nat) /\ QueueBytes \in Seq(Nat)
         /\ packets \in Arrays /\ lpackets \in Arrays
         /\ packet_count \in 0 .. Cap /\ lpacket_count \in 0 .. Cap /\ idx \in 0 .. Cap
         /\ idx \in Nat /\ packet_count \in Nat /\ lpacket_count \in Nat /\ Cap \in Nat
         /\ port \in Seq(Nat) /\ sent \in Seq(Irqs) /\ delivered \in Seq(Nat)
  <1>1. /\ packets \in Arrays /\ lpackets \in Arrays
        /\ packet_count \in 0 .. Cap /\ lpacket_count \in 0 .. Cap /\ idx \in 0 .. Cap
        /\ port \in Seq(Nat) /\ sent \in Seq(Irqs) /\ delivered \in Seq(Nat)
    BY DEF TypeInv, TypeOK, QueueType, LocalType, DeviceType, LogType, Arrays
  <1>2. idx \in Nat /\ packet_count \in Nat /\ lpacket_count \in Nat /\ Cap \in Nat /\ 0 \in Nat
    BY <1>1, CapAssumption
  <1>3. SlotBytes(packets, 0, packet_count) \in Seq(Nat)
    BY <1>1, <1>2, SlotsTo
  <1>4. SlotBytes(lpackets, idx, lpacket_count) \in Seq(Nat)
    BY <1>1, <1>2, SlotsTo
  <1>5. <<>> \in Seq(Nat)
    OBVIOUS
  <1> QED
    BY <1>1, <1>2, <1>3, <1>4, <1>5 DEF SnapshotBytes, QueueBytes

LEMMA CapturedIs == Captured = SnapshotBytes \o QueueBytes
  BY DEF Captured, SnapshotBytes, QueueBytes

(* What neither the log nor what is handed over shows.                     *)
LEMMA LogStays ==
  ASSUME Len(sent') = Len(sent), port' = port, delivered' = delivered, Captured' = Captured
  PROVE  LogStep
  BY DEF LogStep, Log!vars

(* The steps that take no byte anywhere.                                   *)
LEMMA LogQuiet ==
  ASSUME BaseInv,
         \/ MainTest \/ MainLock \/ MainCount \/ MainCopy \/ MainUnlock \/ MainLoopEnd
         \/ MainSchedule \/ MainUmkaError \/ MainReturn \/ MainSti \/ MainHlt
         \/ IsrBusy \/ IsrRelease \/ IsrDrained \/ IsrAck
         \/ (\E irq \in Irqs : IsrEnter(irq)) \/ UNCHANGED vars
  PROVE  LogStep
  <1>1. TypeInv /\ SnapInv
    BY DEF BaseInv
  <1>2. UNCHANGED <<queueVars, devVars, delivered>>
    BY DEF MainTest, MainLock, MainCount, MainCopy, MainUnlock, MainLoopEnd, MainSchedule,
           MainUmkaError, MainReturn, MainSti, MainHlt, IsrBusy, IsrRelease, IsrDrained,
           IsrAck, IsrEnter, IsrUnchanged, mainVars, vars
  <1>3. QueueBytes' = QueueBytes
    BY <1>2 DEF queueVars, QueueBytes
  <1>4. SnapshotBytes' = SnapshotBytes
    <2>1. CASE MainTest \/ MainLock \/ MainCount \/ MainCopy \/ MainUnlock
               \/ MainSchedule \/ MainReturn \/ MainSti \/ MainHlt
      BY <2>1 DEF MainTest, MainLock, MainCount, MainCopy, MainUnlock, MainSchedule,
         MainReturn, MainSti, MainHlt, MainAt, Goto, LocalsUnchanged, SnapshotBytes
    <2>2. CASE MainLoopEnd \/ MainUmkaError
      <3>1. UNCHANGED <<lpackets, lpacket_count, idx>>
        BY <2>2 DEF MainLoopEnd, MainUmkaError, LocalsUnchanged
      <3>2. idx >= lpacket_count => SlotBytes(lpackets, idx, lpacket_count) = <<>>
        BY <1>1, LogTypes, SlotsTo
      <3>3. \/ idx >= lpacket_count /\ pc \in {"schedule", "dispatch"}
               /\ pc' \in {"schedule", "panic"}
            \/ pc = "dispatch" /\ pc' = "panic"
        BY <1>1, <2>2 DEF MainLoopEnd, MainUmkaError, MainAt, Goto, SnapInv
      <3> QED
        BY <3>1, <3>2, <3>3 DEF SnapshotBytes
    <2>3. CASE IsrBusy \/ IsrRelease \/ IsrDrained \/ IsrAck \/ UNCHANGED vars
      BY <2>3 DEF IsrBusy, IsrRelease, IsrDrained, IsrAck, vars, mainVars, SnapshotBytes
    <2>4. CASE \E irq \in Irqs : IsrEnter(irq)
      BY <2>4 DEF IsrEnter, SnapshotBytes
    <2> QED
      BY <2>1, <2>2, <2>3, <2>4
  <1>5. Captured' = SnapshotBytes' \o QueueBytes'
    BY DEF Captured, SnapshotBytes, QueueBytes
  <1>6. Captured' = Captured
    BY <1>3, <1>4, <1>5, CapturedIs
  <1>7. Len(sent') = Len(sent) /\ port' = port /\ delivered' = delivered
    BY <1>2 DEF devVars
  <1> QED
    BY <1>6, <1>7, LogStays

(* A byte arrives.                                                         *)
LEMMA LogArrives ==
  ASSUME BaseInv, NEW src \in Irqs, DeviceSend(src)
  PROVE  LogStep
  <1>1. /\ UNCHANGED <<mainVars, queueVars>> /\ Len(sent) < MaxBytes
        /\ sent' = Append(sent, src) /\ port' = Append(port, Len(sent'))
    BY DEF DeviceSend
  <1>2. Captured' = Captured /\ delivered' = delivered
    BY <1>1 DEF Captured, mainVars, queueVars
  <1>3. Len(sent') = Len(sent) + 1
    BY <1>1, LogTypes DEF BaseInv
  <1>4. Log!Arrive
    BY <1>1, <1>2, <1>3 DEF Log!Arrive
  <1> QED
    BY <1>4 DEF LogStep, Log!Next

(* A handler that meets the lock, or a packet that is full, drops a byte.  *)
LEMMA LogDrops ==
  ASSUME port # <<>>, ReadPort, Captured' = Captured, delivered' = delivered
  PROVE  LogStep
  <1>1. Log!Drop
    BY DEF Log!Drop, ReadPort
  <1> QED
    BY <1>1 DEF LogStep, Log!Next

LEMMA LogDrains ==
  ASSUME IsrDrain
  PROVE  LogStep
  <1>1. port # <<>> /\ ReadPort /\ UNCHANGED <<mainVars, queueVars>>
    BY DEF IsrDrain
  <1>2. Captured' = Captured /\ delivered' = delivered
    BY <1>1 DEF Captured, mainVars, queueVars
  <1> QED
    BY <1>1, <1>2, LogDrops

(* makePacket adds a slot that has no bytes yet.                           *)
LEMMA LogClaims ==
  ASSUME BaseInv, IsrClaim
  PROVE  LogStep
  <1>0. TypeInv
    BY DEF BaseInv
  <1>1. UNCHANGED <<mainVars, devVars>>
    BY DEF IsrClaim
  <1>2. SnapshotBytes' = SnapshotBytes
    BY <1>1 DEF mainVars, SnapshotBytes
  <1>3. QueueBytes' = QueueBytes
    <2>1. CASE UNCHANGED queueVars
      BY <2>1 DEF queueVars, QueueBytes
    <2>2. CASE ~QueueFull /\ MakePacket(isrIrq)
      <3> DEFINE n == packet_count
                 qs == [packets EXCEPT ![n] = [irq |-> isrIrq, bytes |-> <<>>]]
      <3>1. packets' = qs /\ packet_count' = n + 1
        BY <2>2 DEF MakePacket
      <3>2. /\ n \in Slots /\ n \in Nat /\ n \in 0 .. Cap /\ n + 1 \in 0 .. Cap
            /\ 0 < n + 1 /\ (n + 1) - 1 = n /\ 0 \in Nat
        BY <1>0, <2>2, LogTypes DEF QueueFull, Slots
      <3>3. packets \in Arrays /\ isrIrq \in Irqs
        BY <1>0, LogTypes DEF TypeInv, TypeOK, ControlType
      <3>4. qs \in Arrays /\ qs[n].bytes = <<>>
        BY <3>2, <3>3 DEF Arrays, Packet
      <3>5. SameBytes(qs, packets, 0, n)
        <4>1. \A s \in 0 .. n - 1 : s \in Slots /\ s # n
          <5>1. Cap \in Nat /\ n \in Nat /\ n < Cap
            BY <1>0, <3>2, LogTypes DEF Slots
          <5> HIDE DEF n
          <5> QED
            BY <5>1 DEF Slots
        <4> QED
          BY <3>3, <4>1 DEF SameBytes, Arrays
      <3> HIDE DEF qs, n
      <3>6. SlotBytes(qs, 0, n) = SlotBytes(packets, 0, n)
        BY <3>2, <3>3, <3>4, <3>5, SameSlots
      <3>7. SlotBytes(qs, 0, n + 1) = SlotBytes(qs, 0, n) \o <<>>
        <4> DEFINE m == n + 1
        <4>1. m \in 0 .. Cap /\ 0 < m /\ m - 1 = n
          BY <3>2
        <4> HIDE DEF m
        <4>2. SlotBytes(qs, 0, m) = SlotBytes(qs, 0, m - 1) \o qs[m - 1].bytes
          BY <3>2, <3>4, <4>1, SlotsTo
        <4> QED
          BY <3>4, <4>1, <4>2 DEF m
      <3>8. SlotBytes(qs, 0, n) \in Seq(Nat)
        BY <3>2, <3>4, SlotsTo
      <3>9. SlotBytes(qs, 0, n) \o <<>> = SlotBytes(qs, 0, n)
        BY <3>8, ConcatEmptySeq
      <3> QED
        BY <3>1, <3>6, <3>7, <3>9 DEF QueueBytes, n
    <2> QED
      BY <2>1, <2>2 DEF IsrClaim
  <1>4. Captured' = SnapshotBytes' \o QueueBytes'
    BY DEF Captured, SnapshotBytes, QueueBytes
  <1>5. Captured' = Captured
    BY <1>2, <1>3, <1>4, CapturedIs
  <1> QED
    BY <1>1, <1>5, LogStays DEF mainVars, devVars

(* packetAddByte adds the byte at the end of the last packet.              *)
LEMMA LogFills ==
  ASSUME BaseInv, IsrFill
  PROVE  LogStep
  <1>0. TypeInv /\ packet_count > 0
    BY DEF BaseInv, TypeInv, FillInv, IsrFill
  <1>1. /\ port # <<>> /\ ReadPort /\ packet_count' = packet_count /\ UNCHANGED mainVars
    BY DEF IsrFill
  <1>2. SnapshotBytes' = SnapshotBytes /\ delivered' = delivered
    BY <1>1 DEF mainVars, SnapshotBytes
  <1>3. CASE UNCHANGED packets
    BY <1>1, <1>3, LogDrops DEF Captured, mainVars
  <1>4. CASE packets' = [packets EXCEPT ![packet_count - 1].bytes = Append(@, Head(port))]
    <2> DEFINE n == packet_count
               m == n - 1
               x == Head(port)
               b == packets[m].bytes
               qs == [packets EXCEPT ![m].bytes = Append(@, x)]
    <2>1. n \in 0 .. Cap /\ 0 < n /\ m \in 0 .. Cap /\ m \in Slots /\ m \in Nat /\ 0 \in Nat
      BY <1>0, LogTypes DEF Slots
    <2>2. packets \in Arrays /\ x \in Nat /\ packets[m] \in Packet
      BY <1>0, <1>1, <2>1, LogTypes DEF Arrays
    <2>3. b \in Seq(Nat)
      BY <2>2 DEF Packet
    <2> HIDE DEF n, m, x
    <2>4. qs \in Arrays /\ qs[m].bytes = Append(b, x)
      <3>1. Append(b, x) \in Seq(Nat)
        BY <2>2, <2>3
      <3> QED
        BY <2>1, <2>2, <3>1 DEF Arrays, Packet
    <2>5. SameBytes(qs, packets, 0, m)
      <3>1. \A s \in 0 .. m - 1 : s \in Slots /\ s # m
        <4>1. Cap \in Nat /\ m < Cap
          BY <1>0, <2>1, LogTypes DEF Slots
        <4> QED
          BY <2>1, <4>1 DEF Slots
      <3> QED
        BY <2>2, <3>1 DEF SameBytes, Arrays
    <2> HIDE DEF b, qs
    <2>6. SlotBytes(qs, 0, m) = SlotBytes(packets, 0, m) /\ SlotBytes(packets, 0, m) \in Seq(Nat)
      <3>1. SlotBytes(qs, 0, m) = SlotBytes(packets, 0, m)
        BY <2>1, <2>2, <2>4, <2>5, SameSlots
      <3>2. SlotBytes(packets, 0, m) \in Seq(Nat)
        BY <2>1, <2>2, SlotsTo
      <3> QED
        BY <3>1, <3>2
    <2> DEFINE t == SlotBytes(packets, 0, m)
    <2>7. SlotBytes(packets, 0, n) = t \o b
      BY <2>1, <2>2, SlotsTo DEF m, b
    <2>8. SlotBytes(qs, 0, n) = t \o Append(b, x)
      <3>1. SlotBytes(qs, 0, n) = SlotBytes(qs, 0, n - 1) \o qs[n - 1].bytes
        BY <2>1, <2>4, SlotsTo
      <3> QED
        BY <2>4, <2>6, <3>1 DEF m
    <2>9. t \in Seq(Nat)
      BY <2>6
    <2> HIDE DEF t
    <2>10. QueueBytes = t \o b /\ QueueBytes' = t \o Append(b, x)
      BY <1>1, <1>4, <2>7, <2>8 DEF QueueBytes, n, m, x, qs
    <2> DEFINE s == SnapshotBytes
    <2>11. s \in Seq(Nat)
      BY <1>0, LogTypes
    <2>12. Captured = s \o (t \o b) /\ Captured' = s \o (t \o Append(b, x))
      <3>1. Captured' = SnapshotBytes' \o QueueBytes'
        BY DEF Captured, SnapshotBytes, QueueBytes
      <3> QED
        BY <1>2, <2>10, <3>1, CapturedIs
    <2> HIDE DEF s
    <2>13. s \o (t \o Append(b, x)) = Append(s \o (t \o b), x)
      BY ONLY <2>2, <2>3, <2>9, <2>11, AppendLast, SMTT(60)
    <2>14. Captured' = Append(Captured, Head(port))
      BY <2>12, <2>13 DEF x
    <2>15. Log!Capture
      BY <1>1, <1>2, <2>14 DEF Log!Capture, ReadPort
    <2> QED
      BY <2>15 DEF LogStep, Log!Next
  <1> QED
    BY <1>3, <1>4 DEF IsrFill

(* packet_count = 0: the copy takes the place of the queue.                *)
LEMMA LogResets ==
  ASSUME BaseInv, MainReset
  PROVE  LogStep
  <1>0. TypeInv /\ SnapInv
    BY DEF BaseInv
  <1>1. /\ pc = "reset" /\ pc' = "unlock" /\ packet_count' = 0 /\ idx' = 0
        /\ UNCHANGED <<lpackets, lpacket_count, packets, delivered, devVars>>
    BY DEF MainReset, MainAt, Goto, IsrUnchanged
  <1>2. lpacket_count = packet_count /\ \A s \in Slots : lpackets[s] = packets[s]
    BY <1>0, <1>1 DEF SnapInv
  <1>3. SameBytes(lpackets, packets, 0, packet_count)
    <2>1. \A s \in 0 .. packet_count - 1 : s \in Slots
      BY <1>0, LogTypes DEF Slots
    <2> QED
      BY <1>2, <2>1 DEF SameBytes
  <1>4. SlotBytes(lpackets, 0, packet_count) = SlotBytes(packets, 0, packet_count)
    BY <1>0, <1>3, LogTypes, SameSlots
  <1>5. SnapshotBytes' = QueueBytes
    BY <1>1, <1>2, <1>4 DEF SnapshotBytes, QueueBytes
  <1>6. QueueBytes' = <<>>
    <2>1. SlotBytes(packets, 0, 0) = <<>>
      <3>1. 0 \in Nat /\ 0 \in 0 .. Cap /\ 0 <= 0
        BY <1>0, LogTypes
      <3> QED
        BY <1>0, <3>1, LogTypes, SlotsTo
    <2> QED
      BY <1>1, <2>1 DEF QueueBytes
  <1>7. Captured' = SnapshotBytes' \o QueueBytes'
    BY DEF Captured, SnapshotBytes, QueueBytes
  <1>8. QueueBytes \in Seq(Nat) /\ SnapshotBytes = <<>>
    BY <1>0, <1>1, LogTypes DEF SnapshotBytes
  <1>9. QueueBytes \o <<>> = QueueBytes /\ <<>> \o QueueBytes = QueueBytes
    BY <1>8, ConcatEmptySeq
  <1>10. Captured' = Captured
    BY <1>5, <1>6, <1>7, <1>8, <1>9, CapturedIs
  <1> QED
    BY <1>1, <1>10, LogStays DEF devVars

(* One packet is handed over.                                              *)
LEMMA LogDispatches ==
  ASSUME BaseInv, MainDispatch
  PROVE  LogStep
  <1> DEFINE b == lpackets[idx].bytes
             r == SlotBytes(lpackets, idx + 1, lpacket_count)
             q == QueueBytes
             rest == r \o q
  <1>0. TypeInv
    BY DEF BaseInv
  <1>1. /\ pc = "dispatch" /\ pc' = "dispatch" /\ idx < lpacket_count /\ idx' = idx + 1
        /\ delivered' = delivered \o b
        /\ UNCHANGED <<lpackets, lpacket_count, queueVars, devVars>>
    BY DEF MainDispatch, MainAt, Goto, IsrUnchanged
  <1>2. /\ SnapshotBytes = b \o r /\ SnapshotBytes' = r
    <2>1. SlotBytes(lpackets, idx, lpacket_count) = b \o r
      BY <1>0, <1>1, LogTypes, SlotsFrom
    <2> QED
      BY <1>1, <2>1 DEF SnapshotBytes
  <1>3. QueueBytes' = q
    BY <1>1 DEF QueueBytes, queueVars
  <1>4. b \in Seq(Nat) /\ r \in Seq(Nat) /\ q \in Seq(Nat)
    <2>1. lpackets[idx] \in Packet
      <3>1. idx \in Slots
        BY <1>0, <1>1, LogTypes DEF Slots
      <3> QED
        BY <1>0, <3>1, LogTypes DEF Arrays
    <2>2. r \in Seq(Nat)
      <3> DEFINE m == idx + 1
      <3>1. m \in Nat
        BY <1>0, LogTypes
      <3> HIDE DEF m
      <3>2. SlotBytes(lpackets, m, lpacket_count) \in Seq(Nat)
        BY <1>0, <3>1, LogTypes, SlotsTo
      <3> QED
        BY <3>2 DEF m
    <2> QED
      BY <1>0, <2>1, <2>2, LogTypes DEF Packet
  <1> HIDE DEF b, r, q
  <1>5. Captured = (b \o r) \o q /\ Captured' = rest
    <2>1. Captured' = SnapshotBytes' \o QueueBytes'
      BY DEF Captured, SnapshotBytes, QueueBytes
    <2> QED
      BY <1>2, <1>3, <2>1, CapturedIs DEF q
  <1>6. (b \o r) \o q = b \o rest /\ rest \in Seq(Nat)
    <2>1. rest \in Seq(Nat)
      BY <1>4
    <2>2. (b \o r) \o q = b \o (r \o q)
      BY ONLY <1>4, Associative, SMTT(60)
    <2> QED
      BY <2>1, <2>2
  <1>7. port' = port /\ sent' = sent
    BY <1>1 DEF devVars
  <1> HIDE DEF rest
  <1>8. CASE b = <<>>
    <2>1. <<>> \o rest = rest /\ delivered \o <<>> = delivered
      BY <1>0, <1>6, LogTypes, ConcatEmptySeq
    <2> QED
      BY <1>1, <1>5, <1>6, <1>7, <1>8, <2>1, LogStays
  <1>9. CASE b # <<>>
    <2> DEFINE w == b \o rest
               n == Len(b)
    <2>1. n \in Nat /\ n # 0 /\ w \in Seq(Nat) /\ Len(w) = n + Len(rest) /\ Len(rest) \in Nat
      BY <1>4, <1>6, <1>9
    <2>2. \A i \in 1 .. n + Len(rest) : w[i] = IF i <= n THEN b[i] ELSE rest[i - n]
      BY <1>4, <1>6, ConcatProperties
    <2> HIDE DEF w
    <2>3. SubSeq(w, 1, n) = b
      <3>1. SubSeq(w, 1, n) \in Seq(Nat) /\ Len(SubSeq(w, 1, n)) = n
            /\ \A i \in 1 .. n : SubSeq(w, 1, n)[i] = w[i]
        BY <2>1
      <3> DEFINE u == SubSeq(w, 1, n)
      <3>2. u \in Seq(Nat) /\ Len(u) = Len(b) /\ \A i \in 1 .. Len(u) : u[i] = b[i]
        BY <2>1, <2>2, <3>1
      <3> HIDE DEF u
      <3>3. u = b
        BY <1>4, <3>2, SeqEqual
      <3> QED
        BY <3>3 DEF u
    <2>4. SubSeq(w, n + 1, Len(w)) = rest
      <3> DEFINE u == SubSeq(w, n + 1, Len(w))
      <3>1. u \in Seq(Nat) /\ Len(u) = Len(rest) /\ \A i \in 1 .. Len(rest) : u[i] = w[n + i]
        <4> HIDE DEF n
        <4>1. n + 1 \in 1 .. Len(w) + 1 /\ Len(w) \in Nat /\ Len(w) - (n + 1) + 1 = Len(rest)
          BY <2>1
        <4>2. u \in Seq(Nat) /\ Len(u) = Len(w) - (n + 1) + 1
          BY <2>1, <4>1
        <4>3. \A i \in 1 .. Len(w) - (n + 1) + 1 : u[i] = w[(n + 1) + i - 1]
          BY <2>1, <4>1
        <4>4. \A i \in 1 .. Len(rest) : (n + 1) + i - 1 = n + i
          BY <2>1
        <4> QED
          BY <4>1, <4>2, <4>3, <4>4
      <3>2. \A i \in 1 .. Len(rest) : w[n + i] = rest[i]
        <4> HIDE DEF n
        <4> TAKE i \in 1 .. Len(rest)
        <4> DEFINE j == n + i
        <4>1. j \in 1 .. n + Len(rest) /\ ~(j <= n) /\ j - n = i
          BY <2>1
        <4> HIDE DEF j
        <4>2. w[j] = rest[i]
          BY <2>2, <4>1
        <4> QED
          BY <4>2 DEF j
      <3> HIDE DEF u
      <3>3. u = rest
        BY <1>6, <3>1, <3>2, SeqEqual
      <3> QED
        BY <3>3 DEF u
    <2>5. Captured = w
      BY <1>5, <1>6 DEF w
    <2>6. n \in 1 .. Len(Captured)
      BY <2>1, <2>5
    <2>7. /\ delivered' = delivered \o SubSeq(Captured, 1, n)
          /\ Captured' = SubSeq(Captured, n + 1, Len(Captured))
      BY <1>1, <1>5, <2>3, <2>4, <2>5
    <2> HIDE DEF n
    <2>8. Log!HandOver
      BY <1>7, <2>6, <2>7 DEF Log!HandOver
    <2> QED
      BY <2>8 DEF LogStep, Log!Next
  <1> QED
    BY <1>8, <1>9

LEMMA LogNext == BaseInv /\ [Next]_vars => LogStep
  BY LogQuiet, LogArrives, LogDrains, LogClaims, LogFills, LogResets, LogDispatches
  DEF Next, MainStep, IsrStep

LEMMA LogInit == Init => Log!Init
  <1> SUFFICES ASSUME Init PROVE Log!Init
    OBVIOUS
  <1>1. TypeInv
    BY TypeInit
  <1>2. QueueBytes = <<>>
    <2>1. 0 \in Nat /\ 0 \in 0 .. Cap /\ 0 <= 0 /\ packet_count = 0
      BY <1>1, LogTypes DEF Init
    <2> QED
      BY <1>1, <2>1, LogTypes, SlotsTo DEF QueueBytes
  <1>3. SnapshotBytes = <<>>
    BY DEF Init, SnapshotBytes
  <1>4. Captured = <<>>
    BY <1>2, <1>3, CapturedIs
  <1> QED
    BY <1>4 DEF Init, Log!Init

(* Lock, packets, snapshot and contexts together are a log from which only *)
(* the front is handed over: a byte read from the port is dropped there    *)
(* and then, or reaches Umka once and in its turn.                         *)
THEOREM LogImplemented == Spec => ImplementsInputLog
  <1>1. Init => Log!Init
    BY LogInit
  <1>2. BaseInv /\ [Next]_vars => [Log!Next]_(Log!vars)
    BY LogNext DEF LogStep
  <1>3. Spec => []BaseInv
    BY OrderAlways, PTL
  <1> QED
    BY <1>1, <1>2, <1>3, PTL DEF Spec, ImplementsInputLog, Log!Spec
=============================================================================
