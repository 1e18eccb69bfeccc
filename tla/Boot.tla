-------------------------------- MODULE Boot --------------------------------
(***************************************************************************)
(* From the build to the first interrupt: mkfs.py packs the file system,   *)
(* the linker puts it between code and constants of the kernel, the boot   *)
(* sector reads that from the disk track by track, loadVfsImage unpacks it *)
(* (VfsImage) and kmain compiles main.um and sets up the input (Startup).  *)
(*                                                                         *)
(* A byte of code or of a constant is KernelByte, and one of memory that   *)
(* was never read Junk. What runs when a part of the kernel is not in      *)
(* memory is undefined: that is the end, "lost". int 13h is external; its  *)
(* failure is a bit that boot.s does not look at.                          *)
(***************************************************************************)
EXTENDS Integers, Sequences, FiniteSets

CONSTANTS
  Trees, NameMax, PathMax, DepthMax,   \* as in VfsImage: Trees of src/fs
  SectorSize, PerTrack,     \* 512 and 63
  Turns,                    \* KBOOT_SIZE_SEC
  CodeSize, ConstSize,      \* kernel before and after the image
  MaxFailures,              \* bound: reads of the disk that fail
  Main, KeyCodes, Polls, Latency, MaxInput   \* as in Startup

Paragraph == 16             \* of a segment register

VARIABLES
  pc, tree, image, dirs, p, calls, store,               \* of VfsImage
  step, polls, status, symbols, gates, idtr, port, ctl, irr, open, failed, sent, early,
                                                        \* of Startup
  stage,      \* "boot" until the jump into the kernel, "kernel" or "lost"
  memory,     \* from the address behind the boot sector on
  failures,   \* ghost: reads of the disk that failed
  cnt, sectors, sector, head, osegment, toadd           \* of boot.s

imageVars == <<pc, tree, image, dirs, p, calls>>
inputVars ==
  <<step, polls, status, symbols, gates, idtr, port, ctl, irr, open, failed, sent, early>>
bootVars == <<memory, failures, cnt, sectors, sector, head, osegment, toadd>>
vars == <<imageVars, store, inputVars, stage, bootVars>>

Files == INSTANCE VfsImage
Input == INSTANCE Startup

ASSUME BootAssumption ==
  /\ PerTrack \in Nat \ {0} /\ Turns \in Nat \ {0}
  /\ SectorSize \in Nat \ {0} /\ SectorSize % Paragraph = 0
  /\ CodeSize \in Nat /\ ConstSize \in Nat
  /\ \A t \in Trees : Files!Packable(t)
  /\ NameMax \in Nat /\ PathMax \in Nat /\ DepthMax \in Nat
  /\ Input!Parameters

KernelByte == -1
Junk == -2
Times(n, byte) == [i \in 1 .. n |-> byte]

-----------------------------------------------------------------------------
(* The disk and the boot sector                                            *)

Kernel == Times(CodeSize, KernelByte) \o image \o Times(ConstSize, KernelByte)

(* The disk, by bytes counted from 0; the boot sector is the first.        *)
Disk ==
  LET kernel == Kernel
  IN [i \in 0 .. (Turns + 1) * PerTrack * SectorSize |->
        LET k == i - SectorSize + 1
        IN IF k \in DOMAIN kernel THEN kernel[k] ELSE KernelByte]

Capacity == (Turns * PerTrack - 1) * SectorSize
KernelStart == SectorSize   \* as an address: that of the boot sector is 0

TrackSize == (PerTrack * SectorSize) \div Paragraph

(* Mutation: a whole track is added the first time, too.                   *)
NextSegmentWhole == osegment + TrackSize

NextSegment == osegment + toadd

(* A turn of the loop: int 13h, and the registers for the next one.        *)
ReadTrack ==
  /\ pc = "load" /\ stage = "boot" /\ cnt < Turns
  /\ LET from == (head * PerTrack + sector - 1) * SectorSize
         to == osegment * Paragraph - KernelStart
         disk == Disk
     IN \/ /\ memory' = [a \in DOMAIN memory |->
                IF a \in to .. to + sectors * SectorSize - 1
                THEN disk[from + a - to] ELSE memory[a]]
           /\ UNCHANGED failures
        \/ failures < MaxFailures /\ failures' = failures + 1 /\ UNCHANGED memory
  /\ sectors' = PerTrack /\ sector' = 1
  /\ osegment' = NextSegment /\ toadd' = TrackSize
  /\ head' = head + 1 /\ cnt' = cnt + 1
  /\ UNCHANGED <<imageVars, store, inputVars, stage>>

Fits == Len(Kernel) <= Capacity
Whole == Fits /\ Kernel = [k \in DOMAIN Kernel |-> memory[k - 1]]

(* jmp 0x7E00; nothing compares what is there with what was linked.        *)
Jump ==
  /\ stage = "boot" /\ cnt = Turns
  /\ \/ Whole /\ stage' = "kernel"
     \/ ~Whole /\ stage' = "lost"
  /\ UNCHANGED <<imageVars, store, inputVars, bootVars>>

-----------------------------------------------------------------------------
(* The whole                                                               *)

Build == Files!Pack /\ UNCHANGED <<inputVars, stage, bootVars>>

LoadVfs == stage = "kernel" /\ Files!Load /\ UNCHANGED <<inputVars, stage, bootVars>>

(* Nothing reads the image again: it is forgotten (abstraction).           *)
Unpacked ==
  /\ pc = "done" /\ image # <<>>
  /\ image' = <<>> /\ p' = 0 /\ memory' = <<>>
  /\ UNCHANGED <<pc, tree, dirs, calls, store, inputVars, stage, failures, cnt, sectors,
                 sector, head, osegment, toadd>>

InKmain == pc = "done" /\ image = <<>> /\ UNCHANGED <<imageVars, stage, bootVars>>
SetUp == InKmain /\ Input!Program
Controller == InKmain /\ Input!ControllerWorks
Touched == InKmain /\ (Input!KeyPressed \/ Input!MouseMoved)

Init ==
  /\ Files!Init /\ Input!Init
  /\ stage = "boot" /\ failures = 0
  /\ memory = [a \in 0 .. Capacity - 1 |-> Junk]
  /\ cnt = 0 /\ sectors = PerTrack - 1 /\ sector = 2 /\ head = 0
  /\ osegment = KernelStart \div Paragraph
  /\ toadd = ((PerTrack - 1) * SectorSize) \div Paragraph

Program == Build \/ ReadTrack \/ Jump \/ LoadVfs \/ Unpacked \/ SetUp
Next == Program \/ Controller \/ Touched

(* The processor and the controller go on; nobody has to touch anything.   *)
Spec == Init /\ [][Next]_vars /\ WF_vars(Program) /\ WF_vars(Controller)

-----------------------------------------------------------------------------
(* Properties                                                              *)

(* The machine comes to its first interrupt, and then every file and       *)
(* directory of src/fs is there with what it holds, whatever bytes that    *)
(* is, main.um among them. There are six ways to miss it: the kernel has   *)
(* outgrown the boot sector, a read of the disk failed, a path of src/fs   *)
(* is too long for the buffers of the kernel, a call of umkaRuntimeCompile *)
(* failed, there is no mouse, or somebody touched keyboard or mouse too    *)
(* early. An answer that comes is waited for, and no wait is for ever.     *)
EverythingIsLoaded ==
  <>\/ Input!Running /\ store = Files!Contents(tree) /\ Main \in DOMAIN store
    \/ stage = "lost" /\ (~Fits \/ failures > 0)
    \/ pc = "overrun" /\ Files!TooLong(tree)
    \/ /\ step = 0 /\ store = Files!Contents(tree)
       /\ failed # Input!None \/ ~ctl.attached
    \/ early /\ (Input!Running \/ step = 0)

(* The boot sector enters a kernel with a part missing only when the       *)
(* kernel is longer than what the loop reads, or a read failed: the short  *)
(* first turn and the whole ones after it leave no byte out, and put each  *)
(* where the linker meant it, whatever the image is.                       *)
KernelArrives == stage = "lost" => ~Fits \/ failures > 0

(* What the kernel finds in the image is what was packed: see VfsImage.    *)
ImageUnpacked == Files!ImageUnpacked

(* The input is heard from then on unless it was touched before: see       *)
(* Startup.                                                                *)
InputIsHeard == Input!InputIsHeard
=============================================================================
