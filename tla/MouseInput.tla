----------------------------- MODULE MouseInput -----------------------------
(***************************************************************************)
(* From bytes to the pointer: fs/kernel/input.um (handleMouseIrq, irq,     *)
(* relay), the pointer part of fs/user/user.um (schedule) and the mouse    *)
(* handlers of fs/user/microui.um.                                         *)
(*                                                                         *)
(* The bytes come from the interrupt path, of which this module uses what  *)
(* InputLog promises: bytes may be lost, those captured arrive in order,   *)
(* cut anywhere into calls of system__irq. The call carries the number of  *)
(* the interrupt whose handler read the bytes, which need not be the one   *)
(* of the device that sent them: the handler empties the shared port.      *)
(***************************************************************************)
EXTENDS Integers, Sequences, FiniteSets

CONSTANTS
  W, H,        \* gfx::dims
  Heads,       \* first bytes of the mouse's packets
  Moves,       \* second and third bytes
  Scancodes,   \* keyboard bytes
  MaxPackets,  \* bound: packets the mouse sends
  MaxKeys,     \* bound: bytes the keyboard sends
  MaxLog,      \* bound: captured bytes waiting at one time
  BreakModes   \* whether "break" inside a switch leaves the enclosing loop

Bit(b, k) == (b \div (2 ^ k)) % 2 = 1

ASSUME ScreenAssumption == W \in Nat /\ H \in Nat
ASSUME ByteAssumption == Heads \cup Moves \cup Scancodes \subseteq 0 .. 255
ASSUME HeadAssumption == \A h \in Heads : Bit(h, 3)
ASSUME BreakAssumption == BreakModes \subseteq BOOLEAN
ASSUME BoundAssumption == MaxPackets \in Nat /\ MaxKeys \in Nat /\ MaxLog \in Nat

VARIABLES
  sentPackets, role,    \* the mouse: packets begun, byte of the packet due
  sentKeys,             \* the keyboard
  log,                  \* captured bytes not yet passed to system__irq
  phase,                \* "idle", or the Umka function that runs
  call,                 \* bytes handleMouseIrq has still to look at
  mouseCycle, mouseBytes,
  packets,              \* input.um: decoded packets, oldest first
  next,                 \* index of relay's loop
  mouseX, mouseY, wasLmb,
  mouseDown, mousePressed,   \* microui: the left button's bits
  frame,                \* what the last frame's tasks saw
  disturbed, misframed, \* ghosts: accidents on the way, wrong packets decoded
  mistaken, skipped,    \* ghosts: motion bytes with bit 3 set taken for heads;
                        \* whether break has left bytes of a call unseen
  lmbs,                 \* ghost: lmb of the last two relayed packets
  clicked,              \* ghost: a press was relayed since the last frame
  moved                 \* ghost: the last genuine packet relayed

envVars == <<sentPackets, role, sentKeys, log>>
decoderVars == <<call, mouseCycle, mouseBytes, packets>>
userVars == <<next, mouseX, mouseY, wasLmb, mouseDown, mousePressed, frame, lmbs,
              clicked, moved>>
accidentVars == <<disturbed, misframed, mistaken, skipped>>
vars == <<envVars, decoderVars, userVars, phase, accidentVars>>

(* A byte with, as ghosts, the mouse packet it belongs to (0 for a key)    *)
(* and its place in it.                                                    *)
Byte == [val : 0 .. 255, packet : 0 .. MaxPackets, role : 0 .. 2]
IsKey(b) == b.packet = 0
Genuine(raw) == /\ \A i \in 0 .. 2 : raw[i].role = i /\ ~IsKey(raw[i])
                /\ raw[0].packet = raw[1].packet /\ raw[1].packet = raw[2].packet
NoByte == [val |-> 0, packet |-> 0, role |-> 0]

Init ==
  /\ sentPackets = 0 /\ role = 0 /\ sentKeys = 0 /\ log = <<>>
  /\ phase = "idle" /\ call = <<>>
  /\ mouseCycle = 0 /\ mouseBytes = [i \in 0 .. 2 |-> NoByte]
  /\ packets = <<>> /\ next = 1
  /\ mouseX = 0 /\ mouseY = 0 /\ wasLmb = FALSE
  /\ mouseDown = FALSE /\ mousePressed = FALSE
  /\ frame = [x |-> 0, y |-> 0, down |-> FALSE, pressed |-> FALSE]
  /\ disturbed = 0 /\ misframed = 0 /\ mistaken = 0 /\ skipped = FALSE
  /\ lmbs = <<FALSE, FALSE>>
  /\ clicked = FALSE /\ moved = 0

-----------------------------------------------------------------------------
(* The devices and the interrupt path (external).                          *)

(* The mouse sends the next byte of its packet, which is captured or lost. *)
MouseSend(v, captured) ==
  /\ IF role = 0 THEN sentPackets < MaxPackets /\ v \in Heads ELSE v \in Moves
  /\ Len(log) < MaxLog
  /\ sentPackets' = IF role = 0 THEN sentPackets + 1 ELSE sentPackets
  /\ role' = (role + 1) % 3
  /\ log' = IF captured
            THEN Append(log, [val |-> v, packet |-> sentPackets', role |-> role])
            ELSE log
  /\ disturbed' = IF captured THEN disturbed ELSE disturbed + 1
  /\ UNCHANGED <<decoderVars, userVars, sentKeys, phase, misframed, mistaken, skipped>>

KeySend(v) ==
  /\ sentKeys < MaxKeys /\ Len(log) < MaxLog
  /\ sentKeys' = sentKeys + 1
  /\ log' = Append(log, [NoByte EXCEPT !.val = v])
  /\ UNCHANGED <<sentPackets, role, decoderVars, userVars, phase, accidentVars>>

-----------------------------------------------------------------------------
(* fs/kernel/input.um                                                      *)

(* The bytes of a call that handleMouseIrq gets: none unless irq is 12.    *)
MouseCall(irq, bytes) == IF irq = 12 THEN bytes ELSE <<>>

(* system__irq with the n oldest bytes. An accident: a key's byte in a     *)
(* mouse call, or a mouse byte in a keyboard call, which input.um ignores. *)
IrqCall(irq, n) ==
  /\ phase = "idle"
  /\ phase' = "irq"
  /\ call' = MouseCall(irq, SubSeq(log, 1, n))
  /\ log' = SubSeq(log, n + 1, Len(log))
  /\ disturbed' = disturbed
       + Cardinality({i \in 1 .. n : IsKey(log[i]) <=> irq = 12})
  /\ UNCHANGED <<sentPackets, role, sentKeys, mouseCycle, mouseBytes, packets,
                 userVars, misframed, mistaken, skipped>>

(* Mutation: the decoder takes any byte as the first of a packet.          *)
SyncAny(b) == TRUE

Sync(b) == Bit(b.val, 3)

(* int16(b) - ((head << shift) & 0x100) *)
Delta(head, b, shift) ==
  b.val - 256 * (((head.val * (2 ^ shift)) \div 256) % 2)

Overflow(head) == Bit(head.val, 7) \/ Bit(head.val, 6)

(* break: the rest of the call is skipped, or only this byte is.           *)
Break ==
  \E leaves \in BreakModes :
    /\ call' = IF leaves THEN <<>> ELSE Tail(call)
    /\ skipped' = (skipped \/ (leaves /\ Tail(call) # <<>>))

(* A second or third byte of the mouse that passes for a first one.        *)
PassesForHead(b) == ~IsKey(b) /\ b.role # 0 /\ Bit(b.val, 3)

NextCycle == (mouseCycle + 1) % 3

(* One turn of handleMouseIrq's loop on the byte b that does not finish a  *)
(* packet.                                                                 *)
MouseByte ==
  /\ phase = "irq" /\ call # <<>> /\ mouseCycle < 2
  /\ LET b == Head(call) IN
     \/ /\ mouseCycle = 0 /\ ~Sync(b)
        /\ Break
        /\ UNCHANGED <<mouseCycle, mouseBytes, mistaken>>
     \/ /\ mouseCycle = 0 => Sync(b)
        /\ mouseBytes' = [mouseBytes EXCEPT ![mouseCycle] = b]
        /\ mouseCycle' = NextCycle
        /\ call' = Tail(call)
        /\ mistaken' = IF mouseCycle = 0 /\ PassesForHead(b) THEN mistaken + 1 ELSE mistaken
        /\ UNCHANGED skipped
  /\ UNCHANGED <<envVars, userVars, packets, phase, disturbed, misframed>>

(* The third byte: the packet is appended unless an overflow bit is set.   *)
MousePacket ==
  /\ phase = "irq" /\ call # <<>> /\ mouseCycle = 2
  /\ mouseBytes' = [mouseBytes EXCEPT ![2] = Head(call)]
  /\ mouseCycle' = NextCycle
  /\ LET raw == mouseBytes'
         h == raw[0] IN
     /\ \/ /\ Overflow(h)
           /\ Break
           /\ UNCHANGED packets
        \/ /\ ~Overflow(h)
           /\ packets' = Append(packets, [dx |-> Delta(h, raw[1], 4),
                                          dy |-> Delta(h, raw[2], 3),
                                          lmb |-> Bit(h.val, 0),
                                          raw |-> raw])
           /\ call' = Tail(call)
           /\ UNCHANGED skipped
     /\ misframed' = IF Genuine(raw) THEN misframed ELSE misframed + 1
  /\ UNCHANGED <<envVars, userVars, phase, disturbed, mistaken>>

IrqReturn ==
  /\ phase = "irq" /\ call = <<>>
  /\ phase' = "idle"
  /\ UNCHANGED <<envVars, decoderVars, userVars, accidentVars>>

-----------------------------------------------------------------------------
(* fs/user/user.um                                                         *)

(* schedule begins: input::relay walks the decoded packets.                *)
Schedule ==
  /\ phase = "idle"
  /\ phase' = "relay" /\ next' = 1
  /\ UNCHANGED <<envVars, decoderVars, mouseX, mouseY, wasLmb, mouseDown,
                 mousePressed, frame, lmbs, clicked, moved, accidentVars>>

Clamp(x, limit) == IF x < 0 THEN 0 ELSE IF x > limit THEN limit ELSE x

(* Mutation: a release without a further packet never lets the button up.  *)
ButtonNeverUp(lmb) ==
  /\ mouseDown' = (mouseDown \/ lmb)
  /\ mousePressed' = (mousePressed \/ (lmb /\ ~wasLmb))

(* Mutation: the press is noted only when the button was down before.      *)
ButtonLatePress(lmb) ==
  /\ mouseDown' = (lmb \/ (wasLmb /\ mouseDown))
  /\ mousePressed' = (mousePressed \/ (lmb /\ wasLmb))

(* input_mouseDown on a press; input_mouseMove while the previous packet   *)
(* had the button down, the release included; otherwise input_mouseUp.     *)
Button(lmb) ==
  \/ /\ lmb /\ ~wasLmb
     /\ mouseDown' = TRUE /\ mousePressed' = TRUE
  \/ /\ wasLmb
     /\ UNCHANGED <<mouseDown, mousePressed>>
  \/ /\ ~lmb /\ ~wasLmb
     /\ mouseDown' = FALSE /\ UNCHANGED mousePressed

(* The handler that schedule gives to relay, for one packet.               *)
RelayPacket ==
  /\ phase = "relay" /\ next <= Len(packets)
  /\ LET v == packets[next] IN
     /\ mouseX' = Clamp(mouseX + v.dx, W)
     /\ mouseY' = Clamp(mouseY - v.dy, H)
     /\ Button(v.lmb)
     /\ wasLmb' = v.lmb
     /\ lmbs' = <<lmbs[2], v.lmb>>
     /\ clicked' = (clicked \/ (v.lmb /\ ~lmbs[2]))
     /\ moved' = IF Genuine(v.raw) THEN v.raw[0].packet ELSE moved
  /\ next' = next + 1
  /\ UNCHANGED <<envVars, decoderVars, frame, phase, accidentVars>>

(* Mutation: relay keeps the packets it has handed out.                    *)
EmptiedNever == packets

Emptied == <<>>

(* relay returns with packets = {}; ctx.begin, the tasks, which see the    *)
(* pointer and the buttons, and ctx.end, which clears mousePressed.        *)
Frame ==
  /\ phase = "relay" /\ next > Len(packets)
  /\ phase' = "idle"
  /\ packets' = Emptied
  /\ frame' = [x |-> mouseX, y |-> mouseY, down |-> mouseDown,
               pressed |-> mousePressed]
  /\ mousePressed' = FALSE /\ clicked' = FALSE
  /\ UNCHANGED <<envVars, call, mouseCycle, mouseBytes, next, mouseX, mouseY,
                 wasLmb, mouseDown, lmbs, moved, accidentVars>>

-----------------------------------------------------------------------------
Next ==
  \/ \E v \in Heads \cup Moves, captured \in BOOLEAN : MouseSend(v, captured)
  \/ \E v \in Scancodes : KeySend(v)
  \/ \E irq \in {1, 12}, n \in 1 .. Len(log) : IrqCall(irq, n)
  \/ MouseByte \/ MousePacket \/ IrqReturn
  \/ Schedule \/ RelayPacket \/ Frame

Spec == Init /\ [][Next]_vars

-----------------------------------------------------------------------------
Packet == [dx : -256 .. 255, dy : -256 .. 255, lmb : BOOLEAN,
           raw : [0 .. 2 -> Byte]]

(* Every variable has its type; the pointer stays on the screen the clamps *)
(* describe.                                                               *)
TypeOK ==
  /\ sentPackets \in 0 .. MaxPackets /\ role \in 0 .. 2
  /\ sentKeys \in 0 .. MaxKeys
  /\ log \in Seq(Byte) /\ call \in Seq(Byte)
  /\ phase \in {"idle", "irq", "relay"}
  /\ mouseCycle \in 0 .. 2 /\ mouseBytes \in [0 .. 2 -> Byte]
  /\ packets \in Seq(Packet) /\ next \in Nat \ {0}
  /\ mouseX \in 0 .. W /\ mouseY \in 0 .. H
  /\ {wasLmb, mouseDown, mousePressed} \subseteq BOOLEAN
  /\ frame \in [x : 0 .. W, y : 0 .. H, down : BOOLEAN, pressed : BOOLEAN]
  /\ disturbed \in Nat /\ misframed \in Nat /\ mistaken \in Nat /\ skipped \in BOOLEAN

(* Each byte that is lost, or is of the wrong device, spoils at most one   *)
(* packet, whichever way break works: the test of bit 3 brings the decoder *)
(* back to the start of a packet. It is only a motion byte with bit 3 set  *)
(* that may spoil a further one, and none is taken for the first byte of a *)
(* packet before such an accident, or before a break has left the loop     *)
(* with bytes of the call unseen.                                          *)
MisframedBounded ==
  /\ misframed <= disturbed + mistaken
  /\ mistaken > 0 => disturbed > 0 \/ skipped

(* The motion of a decoded packet is the nine-bit two's complement number  *)
(* made of its byte and of its own sign bit in the head (bit 4 for x, bit  *)
(* 5 for y).                                                               *)
TwosComplement9(sign, b) == IF sign THEN b - 256 ELSE b
DeltaIsNineBit ==
  \A i \in 1 .. Len(packets) :
    LET p == packets[i] IN
    /\ p.dx = TwosComplement9(Bit(p.raw[0].val, 4), p.raw[1].val)
    /\ p.dy = TwosComplement9(Bit(p.raw[0].val, 5), p.raw[2].val)

(* The left button is held in the interface only while one of the last two *)
(* packets has it down: a release takes effect with the packet after it.   *)
HeldByRecentPacket == mouseDown => lmbs[1] \/ lmbs[2]

(* A press is never swallowed: if a packet that presses the button was     *)
(* relayed since the last frame, the next frame's tasks see it pressed,    *)
(* although the release may have been relayed before the tasks ran.        *)
PressReachesFrame ==
  [][phase = "relay" /\ phase' = "idle" /\ clicked => frame'.pressed]_vars

(* Each genuine packet moves the pointer at most once and in its turn: the *)
(* packets that wait to be relayed are newer than every one that was, and  *)
(* in the order the mouse sent them.                                       *)
MotionOnce ==
  LET waiting == {i \in 1 .. Len(packets) :
                    /\ phase = "relay" => i >= next
                    /\ Genuine(packets[i].raw)}
      number(i) == packets[i].raw[0].packet
  IN /\ \A i \in waiting : number(i) > moved
     /\ \A i, j \in waiting : i < j => number(i) < number(j)

(* The decoded packets are what the mouse sent, in number, order and sign: *)
(* handleMouseIrq makes them and relay hands each out once.                *)
PacketsOK == TypeOK /\ DeltaIsNineBit /\ MotionOnce
=============================================================================
