------------------------------ MODULE IrqQueue ------------------------------
(***************************************************************************)
(* The deferred interrupt path of src/sys/umka.c and src/sys/main.c.       *)
(*                                                                         *)
(* Two contexts share the array packets[] / packet_count and the flag      *)
(* umkaLock: the kernel's main context (kmain and umkaRuntimeSchedule) and *)
(* the handler of IRQ 1 and IRQ 12 (umkaRuntimeHandleIRQ), which suspends  *)
(* the main context between any two of its instructions and is never       *)
(* nested (the gates of fs/kernel/idt.um clear the interrupt flag).        *)
(*                                                                         *)
(* The PS/2 output buffer, the two interrupt controllers and the Umka      *)
(* interpreter are external: a byte is its index in sent, the port is a    *)
(* FIFO, a byte that becomes readable latches the request of its device.   *)
(***************************************************************************)
EXTENDS Naturals, Sequences, Functions

CONSTANTS Cap,        \* slots of packets[]
          PacketCap,  \* bytes of one Packet
          MaxBytes    \* bound: bytes the devices send in a behaviour

ASSUME CapAssumption == Cap \in Nat \ {0}
ASSUME PacketCapAssumption == PacketCap \in Nat \ {0}
ASSUME MaxBytesAssumption == MaxBytes \in Nat

VARIABLES
  pc,             \* where the main context is (see MainPC)
  intr,           \* the processor's interrupt flag
  isr,            \* where the handler is, "none" when it does not run
  isrIrq,         \* the argument of the running handler
  umkaLock, packets, packet_count,
  lpackets, lpacket_count, idx,   \* locals of umkaRuntimeSchedule
  sent,           \* the device each byte came from, in arrival order
  port,           \* bytes waiting behind port 0x60
  irr,            \* requests latched in the interrupt controllers
  master, slave,  \* lines in service in each controller
  delivered,      \* bytes system__irq was called with, in call order
  lost            \* bytes read from the port and thrown away

mainVars == <<pc, lpackets, lpacket_count, idx, delivered>>
queueVars == <<packets, packet_count>>
picVars == <<irr, master, slave>>
devVars == <<sent, port>>
vars == <<mainVars, queueVars, picVars, devVars, intr, isr, isrIrq, umkaLock,
          lost>>

Irqs == {1, 12}
Slots == 0 .. Cap - 1
MainPC == {"test", "lock", "count", "copy", "reset", "unlock", "dispatch",
           "schedule", "return", "sti", "hlt", "halted", "panic"}
IsrPC == {"none", "entry", "fill", "drain", "ack", "panic"}
Packet == [irq : {0} \cup Irqs, bytes : Seq(Nat)]
EmptyPacket == [irq |-> 0, bytes |-> <<>>]

(* panic() clears the interrupt flag and halts: nothing runs afterwards. *)
Dead == pc = "panic" \/ isr = "panic"

(* kmain has compiled and initialised the Umka program, interrupts are     *)
(* still off, and umkaRuntimeSchedule is called for the first time.        *)
Init ==
  /\ pc = "test" /\ intr = FALSE
  /\ isr = "none" /\ isrIrq = 1
  /\ umkaLock = FALSE
  /\ packets = [s \in Slots |-> EmptyPacket] /\ packet_count = 0
  /\ lpackets = [s \in Slots |-> EmptyPacket] /\ lpacket_count = 0
  /\ idx = 0
  /\ sent = <<>> /\ port = <<>> /\ irr = {}
  /\ master = {} /\ slave = {}
  /\ delivered = <<>> /\ lost = {}

-----------------------------------------------------------------------------
(* Devices and interrupt controllers (external).                           *)

(* The byte at the head of the port raises the line of its own device.     *)
Raised(q) == IF q = <<>> THEN {} ELSE {sent[Head(q)]}

(* A device delivers one byte. Only a byte that becomes readable at once   *)
(* raises a request; the others do when the byte before them is read.      *)
DeviceSend(src) ==
  /\ ~Dead
  /\ Len(sent) < MaxBytes
  /\ sent' = Append(sent, src)
  /\ port' = Append(port, Len(sent'))
  /\ irr' = IF port = <<>> THEN irr \cup {src} ELSE irr
  /\ UNCHANGED <<mainVars, queueVars, master, slave, intr, isr, isrIrq,
                 umkaLock, lost>>

(* in8(0x60): the byte leaves the port and the next one becomes readable.  *)
ReadPort ==
  /\ port' = Tail(port)
  /\ sent' = sent
  /\ irr' = irr \cup Raised(Tail(port))
  /\ UNCHANGED <<master, slave>>

(* IRQ 12 reaches the processor through line 2 of the master; a line is    *)
(* held back by an equal or more urgent line that is in service.           *)
MasterLine(irq) == IF irq = 12 THEN 2 ELSE irq
Deliverable(irq) ==
  /\ irq \in irr
  /\ \A l \in master : l > MasterLine(irq)
  /\ irq = 12 => slave = {}

-----------------------------------------------------------------------------
(* The interrupt handler.                                                  *)

(* The processor takes a request between two instructions of the main      *)
(* context, the most urgent one first; it leaves the hlt it waited in.     *)
IsrEnter(irq) ==
  /\ intr /\ isr = "none"
  /\ Deliverable(irq)
  /\ \A other \in Irqs : Deliverable(other) => irq <= other
  /\ isr' = "entry" /\ isrIrq' = irq /\ intr' = FALSE
  /\ irr' = irr \ {irq}
  /\ master' = master \cup {MasterLine(irq)}
  /\ slave' = IF irq = 12 THEN {12} ELSE slave
  /\ pc' = IF pc = "halted" THEN "test" ELSE pc
  /\ UNCHANGED <<lpackets, lpacket_count, idx, delivered, queueVars, devVars,
                 umkaLock, lost>>

(* Mutation: the handler returns at once and leaves the port as it is.     *)
IsrBusyLeavesPort ==
  /\ isr = "entry" /\ umkaLock
  /\ isr' = "ack"
  /\ UNCHANGED <<mainVars, queueVars, picVars, devVars, intr, isrIrq,
                 umkaLock, lost>>

(* if (umkaLock) goto end *)
IsrBusy ==
  /\ isr = "entry" /\ umkaLock
  /\ isr' = "drain"
  /\ UNCHANGED <<mainVars, queueVars, picVars, devVars, intr, isrIrq,
                 umkaLock, lost>>

(* makePacket(irq): the new packet is empty and is counted at once.        *)
MakePacket(irq) ==
  /\ packets' = [packets EXCEPT ![packet_count] = [irq |-> irq, bytes |-> <<>>]]
  /\ packet_count' = packet_count + 1

(* Mutation: the test lets one packet too many in.                         *)
QueueFullLate == packet_count > Cap

QueueFull == packet_count >= Cap

(* umkaLock = 1 and makePacket, or its panic when every slot is taken.     *)
IsrClaim ==
  /\ isr = "entry" /\ ~umkaLock
  /\ umkaLock' = TRUE
  /\ \/ /\ ~QueueFull
        /\ MakePacket(isrIrq)
        /\ isr' = "fill"
     \/ /\ QueueFull
        /\ isr' = "panic"
        /\ UNCHANGED queueVars
  /\ UNCHANGED <<mainVars, picVars, devVars, intr, isrIrq, lost>>

(* packetAddByte(p, in8(0x60)), or its panic when the packet is full.      *)
IsrFill ==
  /\ isr = "fill" /\ port # <<>>
  /\ ReadPort
  /\ LET p == packet_count - 1 IN
     \/ /\ Len(packets[p].bytes) < PacketCap
        /\ packets' = [packets EXCEPT ![p].bytes = Append(@, Head(port))]
        /\ isr' = isr
     \/ /\ Len(packets[p].bytes) >= PacketCap
        /\ isr' = "panic"
        /\ UNCHANGED packets
  /\ UNCHANGED <<mainVars, packet_count, intr, isrIrq, umkaLock, lost>>

(* Mutation: the handler forgets umkaLock = 0.                             *)
IsrReleaseKeepsLock ==
  /\ isr = "fill" /\ port = <<>>
  /\ isr' = "ack"
  /\ UNCHANGED <<mainVars, queueVars, picVars, devVars, intr, isrIrq, umkaLock,
                 lost>>

(* The status port reads empty: umkaLock = 0, goto irqend.                 *)
IsrRelease ==
  /\ isr = "fill" /\ port = <<>>
  /\ umkaLock' = FALSE /\ isr' = "ack"
  /\ UNCHANGED <<mainVars, queueVars, picVars, devVars, intr, isrIrq, lost>>

(* end: the bytes behind the port are read and dropped.                    *)
IsrDrain ==
  /\ isr = "drain" /\ port # <<>>
  /\ ReadPort
  /\ lost' = lost \cup {Head(port)}
  /\ UNCHANGED <<mainVars, queueVars, intr, isr, isrIrq, umkaLock>>

IsrDrained ==
  /\ isr = "drain" /\ port = <<>>
  /\ isr' = "ack"
  /\ UNCHANGED <<mainVars, queueVars, picVars, devVars, intr, isrIrq,
                 umkaLock, lost>>

(* A non-specific end of interrupt clears the most urgent line in service. *)
EndOfInterrupt(lines) == {l \in lines : \E m \in lines : m < l}

(* Mutation: only the master is acknowledged.                              *)
AckSlaveNever == slave

AckSlave == IF isrIrq >= 8 THEN EndOfInterrupt(slave) ELSE slave

(* irqend: acknowledge the slave for irq >= 8, the master always; iret.    *)
IsrAck ==
  /\ isr = "ack"
  /\ slave' = AckSlave
  /\ master' = EndOfInterrupt(master)
  /\ isr' = "none" /\ intr' = TRUE
  /\ UNCHANGED <<mainVars, queueVars, irr, devVars, isrIrq, umkaLock, lost>>

IsrStep == IsrBusy \/ IsrClaim \/ IsrFill \/ IsrRelease \/ IsrDrain
             \/ IsrDrained \/ IsrAck

-----------------------------------------------------------------------------
(* The main context: umkaRuntimeSchedule called from kmain's loop.         *)

MainAt(label) == isr = "none" /\ pc = label
Goto(label) == pc' = label
IsrUnchanged == UNCHANGED <<isr, isrIrq, picVars, devVars, lost>>
LocalsUnchanged == UNCHANGED <<lpackets, lpacket_count, idx>>

(* if (umkaLock) return *)
MainTest ==
  /\ MainAt("test")
  /\ Goto(IF umkaLock THEN "return" ELSE "lock")
  /\ LocalsUnchanged /\ IsrUnchanged
  /\ UNCHANGED <<queueVars, delivered, intr, umkaLock>>

(* Mutation: the snapshot is taken without the lock.                       *)
MainLockNotTaken ==
  /\ MainAt("lock")
  /\ Goto("count")
  /\ LocalsUnchanged /\ IsrUnchanged
  /\ UNCHANGED <<queueVars, delivered, intr, umkaLock>>

(* umkaLock = 1 *)
MainLock ==
  /\ MainAt("lock")
  /\ umkaLock' = TRUE
  /\ Goto("count")
  /\ LocalsUnchanged /\ IsrUnchanged
  /\ UNCHANGED <<queueVars, delivered, intr>>

(* lpacket_count = packet_count *)
MainCount ==
  /\ MainAt("count")
  /\ lpacket_count' = packet_count /\ idx' = 0
  /\ Goto("copy")
  /\ IsrUnchanged
  /\ UNCHANGED <<lpackets, queueVars, delivered, intr, umkaLock>>

(* memcpy(lpackets, packets, sizeof(packets)), slot by slot *)
MainCopy ==
  /\ MainAt("copy") /\ idx < Cap
  /\ lpackets' = [lpackets EXCEPT ![idx] = packets[idx]]
  /\ idx' = idx + 1
  /\ Goto(IF idx' = Cap THEN "reset" ELSE "copy")
  /\ IsrUnchanged
  /\ UNCHANGED <<lpacket_count, queueVars, delivered, intr, umkaLock>>

(* Mutation: the queue is not emptied after the copy.                      *)
MainResetForgotten ==
  /\ MainAt("reset")
  /\ idx' = 0
  /\ Goto("unlock")
  /\ IsrUnchanged
  /\ UNCHANGED <<lpackets, lpacket_count, queueVars, delivered, intr, umkaLock>>

(* packet_count = 0 *)
MainReset ==
  /\ MainAt("reset")
  /\ packet_count' = 0 /\ idx' = 0
  /\ Goto("unlock")
  /\ IsrUnchanged
  /\ UNCHANGED <<lpackets, lpacket_count, packets, delivered, intr, umkaLock>>

(* Mutation: the lock is still held while packets are dispatched.          *)
MainUnlockForgotten ==
  /\ MainAt("unlock")
  /\ Goto("dispatch")
  /\ LocalsUnchanged /\ IsrUnchanged
  /\ UNCHANGED <<queueVars, delivered, intr, umkaLock>>

(* umkaLock = 0 *)
MainUnlock ==
  /\ MainAt("unlock")
  /\ umkaLock' = FALSE
  /\ Goto("dispatch")
  /\ LocalsUnchanged /\ IsrUnchanged
  /\ UNCHANGED <<queueVars, delivered, intr>>

(* One turn of the loop: an empty packet is skipped, another is passed to  *)
(* system__irq.                                                            *)
MainDispatch ==
  /\ MainAt("dispatch") /\ idx < lpacket_count
  /\ idx' = idx + 1
  /\ delivered' = delivered \o lpackets[idx].bytes
  /\ Goto("dispatch")
  /\ IsrUnchanged
  /\ UNCHANGED <<lpackets, lpacket_count, queueVars, intr, umkaLock>>

MainLoopEnd ==
  /\ MainAt("dispatch") /\ idx >= lpacket_count
  /\ Goto("schedule")
  /\ LocalsUnchanged /\ IsrUnchanged
  /\ UNCHANGED <<queueVars, delivered, intr, umkaLock>>

(* umkaCall(umka, &umkaScheduleFn) *)
MainSchedule ==
  /\ MainAt("schedule")
  /\ Goto("return")
  /\ LocalsUnchanged /\ IsrUnchanged
  /\ UNCHANGED <<queueVars, delivered, intr, umkaLock>>

(* The Umka program stopped with an error in one of the two calls:         *)
(* umkaPrintError panics.                                                  *)
MainUmkaError ==
  /\ \/ MainAt("schedule")
     \/ /\ MainAt("dispatch") /\ idx < lpacket_count
        /\ lpackets[idx].bytes # <<>>
  /\ Goto("panic") /\ intr' = FALSE
  /\ LocalsUnchanged /\ IsrUnchanged
  /\ UNCHANGED <<queueVars, delivered, umkaLock>>

(* Back in kmain: before the loop interrupts are off, inside it they are   *)
(* on.                                                                     *)
MainReturn ==
  /\ MainAt("return")
  /\ Goto(IF intr THEN "hlt" ELSE "sti")
  /\ LocalsUnchanged /\ IsrUnchanged
  /\ UNCHANGED <<queueVars, delivered, intr, umkaLock>>

(* sti holds interrupts off for one more instruction, and that is hlt.     *)
MainSti ==
  /\ MainAt("sti")
  /\ intr' = TRUE
  /\ Goto("halted")
  /\ LocalsUnchanged /\ IsrUnchanged
  /\ UNCHANGED <<queueVars, delivered, umkaLock>>

(* hlt: only IsrEnter leaves "halted". *)
MainHlt ==
  /\ MainAt("hlt")
  /\ Goto("halted")
  /\ LocalsUnchanged /\ IsrUnchanged
  /\ UNCHANGED <<queueVars, delivered, intr, umkaLock>>

MainStep == MainTest \/ MainLock \/ MainCount \/ MainCopy \/ MainReset
              \/ MainUnlock \/ MainDispatch \/ MainLoopEnd \/ MainSchedule
              \/ MainUmkaError \/ MainReturn \/ MainSti \/ MainHlt

-----------------------------------------------------------------------------
Next == \/ MainStep
        \/ IsrStep
        \/ \E irq \in Irqs : IsrEnter(irq)
        \/ \E src \in Irqs : DeviceSend(src)

Spec == Init /\ [][Next]_vars

(* The processor keeps executing and takes a pending request in the end;   *)
(* the devices owe nothing.                                                *)
Fairness == /\ WF_vars(MainStep)
            /\ WF_vars(IsrStep)
            /\ WF_vars(\E irq \in Irqs : IsrEnter(irq))

FairSpec == Spec /\ Fairness

-----------------------------------------------------------------------------
(* Where a byte can be.                                                    *)

(* The slots of lpackets that the dispatch loop has still to visit, or had *)
(* when the Umka program failed.                                           *)
RemainingSlots ==
  IF pc \in {"unlock", "dispatch", "panic"} THEN idx .. lpacket_count - 1 ELSE {}
QueuedSlots == 0 .. packet_count - 1

BytesOf(p) == Range(p.bytes)
Remaining == UNION {BytesOf(lpackets[s]) : s \in RemainingSlots}
Queued == UNION {BytesOf(packets[s]) : s \in QueuedSlots}

Increasing(s) == \A i, j \in DOMAIN s : i < j => s[i] < s[j]
Below(S, T) == \A a \in S, b \in T : a < b
SlotsOrdered(ps, S) ==
  /\ \A s \in S : Increasing(ps[s].bytes)
  /\ \A s, t \in S : s < t => Below(BytesOf(ps[s]), BytesOf(ps[t]))

(* The main context is between umkaLock = 1 and umkaLock = 0.              *)
InSnapshot == pc \in {"count", "copy", "reset", "unlock"}

-----------------------------------------------------------------------------
(* Properties.                                                             *)

ControlType == /\ pc \in MainPC /\ intr \in BOOLEAN
               /\ isr \in IsrPC /\ isrIrq \in Irqs
               /\ umkaLock \in BOOLEAN
QueueType == packets \in [Slots -> Packet] /\ packet_count \in 0 .. Cap
LocalType == /\ lpackets \in [Slots -> Packet]
             /\ lpacket_count \in 0 .. Cap /\ idx \in 0 .. Cap
PicType == irr \subseteq Irqs /\ master \subseteq {1, 2} /\ slave \subseteq {12}
DeviceType == /\ sent \in Seq(Irqs) /\ port \in Seq(Nat)
              /\ \A i \in 1 .. Len(port) : port[i] \in 1 .. Len(sent)
LogType == delivered \in Seq(Nat) /\ lost \subseteq Nat

(* Every variable has its type: in particular packet_count and the loop    *)
(* index stay inside the arrays, and the port holds bytes that were sent.  *)
TypeOK == /\ ControlType /\ QueueType /\ LocalType
          /\ PicType /\ DeviceType /\ LogType

(* umkaLock is held exactly by the context that is between taking and      *)
(* releasing it, the handler never fills a packet while the main context   *)
(* takes its snapshot, and whenever the main context runs outside its      *)
(* snapshot it finds the lock free: the early return of                    *)
(* umkaRuntimeSchedule is never taken.                                     *)
LockDiscipline ==
  ~Dead => /\ umkaLock <=> (InSnapshot \/ isr = "fill")
           /\ ~(InSnapshot /\ isr = "fill")
           /\ MainAt("test") => ~umkaLock

(* Bytes reach system__irq in the order the devices sent them and at most  *)
(* once: what was delivered precedes what the dispatch loop still holds,   *)
(* which precedes what is queued, which precedes what waits in the port.   *)
InOrder ==
  /\ Increasing(delivered) /\ Increasing(port)
  /\ SlotsOrdered(lpackets, RemainingSlots)
  /\ SlotsOrdered(packets, QueuedSlots)
  /\ Below(Range(delivered), Remaining \cup Queued \cup Range(port))
  /\ Below(Remaining, Queued \cup Range(port))
  /\ Below(Queued, Range(port))

(* No byte vanishes between the port and system__irq: while the system     *)
(* runs, every byte sent is waiting in the port, in the packet queue, in   *)
(* the snapshot, delivered, or was read and dropped by a handler that      *)
(* found the lock taken - and never two of the last one and another.       *)
Accounted ==
  ~Dead => LET kept == Range(port) \cup Queued \cup Remaining
                         \cup Range(delivered)
           IN /\ DOMAIN sent = kept \cup lost
              /\ kept \cap lost = {}

(* The drain at "end" is what keeps the input alive: a byte behind the     *)
(* port always has a request latched for it or a handler that will still   *)
(* look at the port, and once no handler runs both controllers are ready   *)
(* to pass the request on.                                                 *)
NoStrandedByte ==
  ~Dead => /\ port # <<>> => irr # {} \/ isr \in {"entry", "fill", "drain"}
           /\ isr = "none" => master = {} /\ slave = {}

(* The handler throws bytes away only while the main context is inside the *)
(* few instructions of its snapshot, never while Umka code runs.           *)
LossOnlyInSnapshot == [][lost' # lost => InSnapshot]_vars

(* Input reaches a sleeping machine: a byte that waits in the port while   *)
(* the processor is in hlt is passed to Umka - the request wakes it, the   *)
(* handler finds the lock free, the schedule that follows dispatches the   *)
(* packet. And a packet that missed its snapshot is not forgotten: if it   *)
(* is queued when the processor sleeps, any later request delivers it.     *)
WakeupDelivers ==
  \A b \in 1 .. MaxBytes :
    (pc = "halted" /\ (b \in Range(port) \/ (b \in Queued /\ irr # {})))
      ~> (b \in Range(delivered) \/ Dead)

(* What the comment in umkaRuntimeHandleIRQ says of an interrupt that      *)
(* meets the lock: it "will be delayed", so its bytes are not dropped.     *)
DelayedNotDropped == lost = {}
=============================================================================
