# umka-os: specifications, model checking and proofs

TLA+ modules about umka-os, a 32-bit x86 kernel in C whose upper half (kernel
services, window system, programs) is written in Umka and interpreted. The
modules are translated from the sources; a name in a module is the name in the
source wherever TLA+ allows it. `PROJECT.json` lists, per definition, the lines
it stands for, and per property a mutant of the code that breaks it.

    tlc -workers 2 -config IrqQueue.cfg MCIrqQueue     # a run
    tlapm IrqQueueProofs.tla                           # a proof module

Paths below are relative to the repository; C sources are in `src/src`
(`sys/`, `mock_libc/`), Umka programs in `src/fs`.

## 1. The system

The kernel's main context is one loop (`kmain`, `sys/main.c`): call
`umkaRuntimeSchedule`, enable interrupts, `hlt`, again. The schedule hands
queued input to the Umka kernel (`system__irq`), then runs one frame
(`system__schedule`): relay input, begin the interface, run every task, end the
interface, draw, swap. The only other context is the handler of IRQ 1 and IRQ
12, which may suspend the main context wherever interrupts are on and is never
nested. So there is concurrency in one place, and everything above it is a
sequence of callbacks into programs that keep state between frames.

| component | source | state | operations | talks to |
|---|---|---|---|---|
| deferred interrupt queue | `sys/umka.c`, `sys/main.c`, `sys/irq.s` | `packets[]`, `packet_count`, `umkaLock`, locals of the schedule | `umkaRuntimeHandleIRQ`, `umkaRuntimeSchedule`, `kmain`'s loop | devices through port 0x60 and the two controllers; `system__irq` |
| memory allocator | `mock_libc/alloc.c` | the heap's tail, the free list, node headers | `allocatorAlloc/Free/Realloc` behind `malloc`, `calloc`, `realloc`, `free` | every C component and the interpreter |
| virtual file system | `mock_libc/vfs.c` | tree of nodes (parent, child, sibling), data, streams with position and flush index | create, open, close, read, write, seek, flush, hook, remove, list | stdio, Umka `vfs` API, console (hook) |
| image of the file system | `mkfs.py`, `sys/main.c` | bytes of the image, the loader's offset and directory | pack (at build), load (at boot) | virtual file system |
| formatted I/O | `mock_libc/fmt.c` | string or file stream: offset, bound, characters wanted | `fmtvprintf`, `fmtvscanf` and the parsing and printing of numbers | every printf and scanf |
| rest of the C library | `mock_libc/mock_libc.c` | open standard streams, the seed of `rand` | stdio calls, strings, characters, mathematics | virtual file system, fmt |
| mouse decoder, input relay | `fs/kernel/input.um`, `fs/user/user.um` | cycle and bytes of the packet, decoded packets, pointer, `wasLmb` | `irq`, `handleMouseIrq`, `relay`, `schedule` | interrupt queue below, `microui` above |
| renderer | `sys/gfx.c`, `fs/api/gfx.um` | command list, two arrays of hashes, back buffer | `gfxDraw*`, `gfxSwap` | screen memory; `user.um` |
| window manager | `fs/user/microui.um` | containers, hover, focus, hover root, root list, command list | `begin`, `beginWindow`, `updateControl`, `end`, input events | tasks, renderer |
| tasks | `fs/user/tasks.um`, `progman.um`, `taskview.um` | map of tasks, last id | create, `doTasks`, kill | window manager |
| blackjack | `fs/user/blackjack.um` | deck, hands, flags of the round, bet, shared balance | deal, hit, stand, double, insurance, forfeit, bet, pay | window manager |
| boot loader | `sys/boot.s`, `sys/link.ld` | registers of the loop, memory, video mode | read tracks, set mode, enter protected mode, jump | BIOS; the kernel's code and the image between its sections |
| processor, descriptor table, controllers | `sys/irq.s`, `sys/lib.s`, `fs/kernel/idt.um`, `pic.um`, `input.um` | gates, masks, configuration of the PS/2 controller, saved registers | set up by polling, dispatch, return, panic | interrupt queue |
| binding of Umka to C | `sys/umka.c`, `fs/api/*.um` | table of symbols, handles | ports and memory access, file system objects | all of the above |
| console, browser, small programs | `fs/kernel/kernel.um`, `fs/user/*.um` | console text | draw | hooks of the file system, window manager |
| third party | `mock_libc/arith.c`, Umka, qoi | | | |

What makes each of them correct, and what is hard about it:

* **Interrupt queue** - interleaving, lost input, lost wake-ups. The lock is
  held by exactly one context; captured bytes reach Umka once and in order; a
  byte behind the port is always announced; input is lost only in the snapshot.
* **Allocator** - long mixes of calls and stale pointers. The list is a chain,
  no block is handed out twice, none leaks, blocks fit and do not overlap.
* **File system** - relinking, several streams on one file, positions that
  outlive the data. One tree, one file per path, listings show it, hooks hear
  every byte once.
* **Image, boot loader** - a format of marks without lengths, written in Python
  and read in C; a fixed number of tracks for a kernel of any size; errors of the
  disk that nobody looks at. The loaded tree is the packed one.
* **Setting up the input** - answers that are polled for share a port with keys
  and the mouse; a request is forgotten while its byte waits. When interrupts are
  let in, every byte behind the port is announced.
* **fmt** - unsigned subtraction at the bound of a buffer, padding, the extremes
  of integers. `snprintf`'s contract, field widths, reading back.
* **rest of the library** - overlapping buffers, counts at the end of a string,
  signs. A call changes what its name promises and nothing else.
* **Mouse** - lost and misrouted bytes, events between two frames. Resynchronise
  after an accident, apply a motion once, never swallow a press.
* **Renderer** - a cache of cells keyed by a hash. The screen is what the
  commands paint; an unchanged frame draws nothing.
* **Windows, tasks** - state a frame old, control handed on between controls,
  tasks killed inside the loop over tasks. A click acts once and on what is on
  top; windows are drawn once each, in order; the dead are gone.
* **Blackjack** - flags set by five controls and read in later frames. Cards and
  money are conserved, a round is paid once and by the rules.

## 2. The modules

| module | models | kind |
|---|---|---|
| `InputLog` | what the interrupt path promises: a lossy FIFO log of input bytes | abstract |
| `IrqQueue` | `umkaRuntimeHandleIRQ`, `umkaRuntimeSchedule`, `kmain`'s loop, one action per access to shared state | detailed |
| `IrqQueueProofs` | theorems about `IrqQueue`, among them that it implements `InputLog` | proofs |
| `Heap` | what callers of malloc rely on: blocks with sizes and contents | abstract |
| `Allocator` | `alloc.c`, one action per turn of the walk over the free list | detailed |
| `FileStore` | what the file system promises: a map from paths to contents | abstract |
| `Vfs` | `vfs.c`: tree, streams, hooks, listings; the mapping to `FileStore` | detailed |
| `VfsProofs` | theorems about `Vfs`, among them that it implements `FileStore`, and about `Strings` | proofs |
| `VfsImage` | `mkfs.py` and `loadVfsImage` over the bytes of the image | part of `Boot` |
| `Startup` | `kmain` from `umkaRuntimeCompile` to the first `sti`: symbols, gates, `initMouse`, `pic::init` | part of `Boot` |
| `Boot` | the loop of `boot.s`; composes disk, `VfsImage` and `Startup` | composition |
| `BootProofs` | that the kernel arrives, the image is unpacked and the input is heard | proofs |
| `Strings` | memory, string and rounding functions of `mock_libc.c` | operators |
| `Library` | `Strings` beside `Vfs`, for the run and the theorem | composition |
| `Fmt` | `fmt.c`: one print into a string stream, then one scan of it | algorithm |
| `MouseInput` | `input.um`, the pointer part of `user.um`, mouse events of `microui.um` | detailed |
| `MouseInputProofs` | theorems about `MouseInput` | proofs |
| `GfxCache` | `gfx.c` | detailed |
| `KernelProofs` | theorems about `Allocator`, among them that it implements `Heap`, about `GfxCache` and about `Fmt` | proofs |
| `Windows` | windows and controls of `microui.um`, `tasks.um`, and what `progman.um` and `taskview.um` do with a press | detailed |
| `WindowsProofs` | theorems about `Windows`, among them that its quicksort sorts | proofs |
| `Blackjack` | `blackjack.um` | detailed |
| `BlackjackProofs` | theorems about `Blackjack` | proofs |
| `Finiteness` | sizes of finite sets, least elements, and recursive functions over numbers and over links: what the proofs about the components share | proofs |
| `MC*` | constants for TLC; `MCIrqQueue` has the mapping to `InputLog`, `MCVfs` takes `Library` | runs |

How they fit together: `IrqQueue` implements `InputLog`, and `MouseInput` takes from the interrupt path exactly what `InputLog` says
(bytes may vanish, those captured come in order, cut anywhere into calls);
`MouseInput` in turn justifies the input events of `Windows`, which are a
superset of what the relay can produce. `Vfs` implements `FileStore`, and
`VfsImage` uses the file system as `FileStore` describes it.
`Boot` runs `VfsImage` and `Startup` one after the other, from the build to the
moment where `IrqQueue` begins: its `InputIsHeard` is what `IrqQueue`'s initial
state takes for granted.
`Allocator` implements `Heap`. Each of the three refinements is checked by TLC on
a small instance and proved for every instance.

### IrqQueue
`pc` is where `kmain` and `umkaRuntimeSchedule` are, `isr` where the handler is;
every access to `packets`, `packet_count` and `umkaLock` is a step of its own.
`MainTest .. MainUnlock` are the snapshot, `dispatch` the loop over the copied
packets, `schedule` the frame, then `sti`, `hlt`, `halted`. The handler is
`entry` (test of the lock), `fill` (one port read per step), `drain` (the loop
at the label `end`) and the acknowledgements. `sti` delays interrupts by one
instruction, as the processor does, so nothing falls between it and `hlt`; but
interrupts are also enabled earlier, while Umka runs, and a packet queued then,
after the snapshot, is not looked at before the processor sleeps. It waits for a
further interrupt. `WakeupDelivers` states what is left of the promise: input to
a sleeping machine is delivered, and so is a packet that missed its snapshot once
any further request comes.
The port and both controllers are external and modelled from their use: a byte
that becomes readable latches its device's request, a request is consumed on
entry, and further ones are held off until they are acknowledged.

### Allocator
A node is a number, in the order of carving; the empty first node is the null
pointer. `WalkOn`, `Take`, `Carve` are the loop of `allocatorAlloc`, `ReturnNew`
and `ReturnMoved` end a call, the latter with realloc's copy and free. `freeSeq`
and `live` are ghosts. Magic numbers and the asserts that read them change no
state and are left out.

### Vfs
A path is its components and whether it ends in a slash. Nodes are numbers, the
smallest free one being what `malloc` returns. Every stream carries ghosts: what
its hook heard and what was read since it was last placed. Removing the root, or
a file that is open, leaves dangling pointers in the code; no caller does it and
the model takes that as the callers' obligation. A listing hides whatever begins
with a dollar sign: the standard streams, and any file of a program that is
called so (`DollarNames` says which names are).

### MouseInput, Windows, Blackjack, GfxCache
The unit of these is the frame. `MouseInput` has one action per byte decoded and
per packet relayed. In Umka, `break` inside a `switch` inside a loop could leave
either; the interpreter is not in the repository, so `BreakModes` checks both.
`Windows` runs one window per action, with its title bar, close button and one
button, on a screen that is a line; pressing a button of the program manager
creates a task, of the task view kills one; `end` brings to the front, sorts
(`partition` and `qsort` as written) and links the jump commands. `Blackjack`
runs a frame control by control, for a click chosen before. In `GfxCache` a hash
is the sequence it is computed from: no collisions by chance, but the three
bytes of padding that are hashed and never written are part of it (`Pads`).

### Fmt, Strings
`Fmt` has the integer, character, text, pointer and floating-point conversions
with the flags and the lengths `hh` and `ll`, the `strto` functions, C's integer types with widths as
constants (3, 6 and 9 bits for TLC), and the scanner over the same conversions. The buffer
is the first part of a memory of `MemSize` bytes, so that a write behind it would
show. Width and precision are any `int`: a `*` takes them off the arguments
unchecked. A `%s` whose precision is negative and not -1 reads on behind its
text: the text, its NUL, and unknown characters as far as the buffer has room,
while the count goes by the size modulo that of a `size_t`. A
double is a whole number of eighths, so that every value is exact; `%f` prints
one place unless told otherwise and cuts the rest off. The integer part of
printing and scanning was compared with the compiled `fmt.c` on some ten thousand
cases. `Strings` has each function of the C library as an operator on a memory, a
function from addresses to characters, and each loop as a recursive function of
its turns; what it leaves behind, and where it stops, is stated of every memory
(`CallsAgree`: `MovesExactly`, `StringsAgree`, `RoundsRight`). A character is
a signed one, -128 to 127; a double is a whole number of parts. The roundings go
through an `int` of 32 bits, `MaxInt` its largest: a conversion that does not fit
has no defined result, and the build gives the smallest `int` (`Whole`).

### Boot, Startup, VfsImage
`VfsImage` lets the scanner of directories return entries in any order and packs
trees whose names and contents consist of the bytes the format uses as marks.
The packer bounds no name; the kernel copies them into `filename[32]`,
`temp[512]` and `sub[32]`, unchecked (`NameMax`, `PathMax`, `DepthMax`: 31, 511
and 32). What runs after one of these is overrun is undefined: that is the end,
`overrun`. `Boot` puts the image between a few bytes of code and of constants, as `link.ld`
does, and reads the disk track by track; a read may fail, which the code does not
notice. A jump into a kernel that is not whole in memory has no defined
behaviour: that is the stage `lost`. `Startup` is the program as a list of steps
(`Script`), executed one port access at a time. `umkaRuntimeCompile` is one step
that may fail in seven calls, in each of which the machine panics: `umkaAlloc`,
`umkaInit`, `umkaCompile`, and the search for each of `system__register`, `init`,
`irq` and `schedule`. Without a `main.um` one of them must fail, with one any
may. The ghost `failed` says which it was. The PS/2 controller and its
devices are external: one queue of bytes behind port 0x60, one answer per command
of the mouse, requests on an edge. Whether a mouse is there is chosen at the
start. A key or a motion may come at any step, and is then taken for whatever the
program is waiting for.

## 3. Runs

Deadlock is checked except where the system may stop: the processor sleeps in
`hlt` or `panic`, a machine that ran out of window slots has stopped, programs
that print, scan or pack end, and the number of frames or nodes is bounded.

| run | shows | bounds, and why they are enough |
|---|---|---|
| `irq` | all properties of `IrqQueue`, refinement of `InputLog`, liveness | 2 packets of 2 bytes, 4 bytes sent: the queue overflows, packets are partly filled, both lines compete, a snapshot meets a full queue; 141 thousand states |
| `irq_dropped` | **violation**, see section 5 | 2 bytes |
| `allocator` | chain, partition, fit, first fit, termination, refinement of `Heap` | 3 nodes, sizes 1 and 17 (two block sizes, and one too large for the smaller): head, middle and end of the list are reused, realloc grows and stays; 272 thousand states |
| `mouse_input` | an accident, or a motion byte taken for a head, spoils at most one packet, and none is taken for one before the first accident (`MisframedBounded`); nine-bit motions, applied once; a press reaches its frame, and the button is held only as one of the last two packets said | 3 packets (a spoiled one between two others, or two in a frame), 1 key whose scancode passes for a head, motion bytes with and without bit 3, one of them with an overflow bit; at most 2 bytes wait for a call; 7.6 million states |
| `vfs_tree` | tree, paths, listings, refinement of `FileStore` | 5 nodes: a directory with two files, one of them `$a`, among three children of the root, a standard file among these; first, middle and last removed; a detour and a trailing slash; contents of one byte; 140 thousand states |
| `vfs_streams` | hooks, readers, writers; the functions of `Strings` (`LibraryAgrees` of `Library`, which evaluates `CallsAgree` of `Strings`, a formula without variables, in the first state) | 2 streams on one file of up to 3 bytes; positions before, at and beyond the end, reached by offsets from -1 to 1. All memories of 6 bytes over -1, 0 and 1, which has room for two strings with an overlap or a gap; numbers from -5 to 5 in quarters against an `int` from -4 to 3, so that roundings beyond it occur; 586 thousand states |
| `boot` | from the build to the first interrupt: every file is there and input is heard, or one of the six listed reasons is (`EverythingIsLoaded`, `InputIsHeard`); a kernel that fits and is read without failure is whole (`KernelArrives`); the loader of the image stops at marks only and leaves the tree that was packed (`ImageUnpacked`) | trees up to depth 3, empty directories and files, a length whose byte is a mark and one above 256, one file of 433 bytes whose kernel just fits and one of 434; names, paths and depths at the limits of 2, 8 and 3, and beyond each; a compilation that fails in any of its calls; 5 tracks of 3 sectors of 32 bytes, 1 failing read; 2 polls with an answer after at most 1; 3 bytes of keyboard and mouse, enough to displace the configuration and both answers; 49 thousand states |
| `fmt` | fields, `snprintf`, reading back | every flag combination for one conversion over the extremes of each type, widths and precisions below zero too, 11 items in all orders up to three, one of them a text that is overrun, buffers of 0, 1, 4, 7 and 24; doubles in eighths, with 0 to 4 places; 118 thousand states |
| `gfx_cache` | screen against commands, idle frames | 3 by 2 cells of 2 by 2 pixels, 5 drawing calls against room for 4, 4 frames (the first two are drawn whole because of the seeds; a stale cell needs two more) |
| `windows` | drawing order, clicks, focus, tasks, panic | 3 windows of 3 places on 4, room for 3 and a fourth opened, 4 zindices; 1.2 million states |
| `blackjack` | cards, money, order of play, status line | 2 rounds, a deck of 4 that runs out within a round; 2.2 million states |
| `blackjack_aces` | **violation**, see section 5 | 6 cards, one round |

Some invariants are conjunctions of named parts, with the module's type invariant
as the first: `TreeOK` (`TypeOK`, `IsTree`, `PathsResolve`), `PacketsOK` (`TypeOK`,
`DeltaIsNineBit`, `MotionOnce`), `ScreenOK` (`GfxTypeOK`, `PixelsRight`), `TableOK`
(`TypeOK`, `DeckWhole`, `OverIsOver`), `DesktopOK` (`TypeOK`, `TasksAreOpen`,
`FocusIsShown`, `PanicOnlyWhenFull`); TLC names the conjunction, and the state it
prints shows which part failed.

Fairness. `IrqQueue`: the main context's next step, the handler's next step, and
taking a pending request are each weakly fair - the processor executes its
instructions and takes interrupts that stay enabled. `sti; hlt` keeps them
enabled while it sleeps. Nothing is assumed of the devices. `Allocator`: a call,
once made, is executed to its end; nothing is assumed of callers. `Boot`: packer, boot sector
and kernel are one processor each and execute their next step, and the controller
answers what it was sent; nobody has to touch keyboard or mouse. That an answer
comes within `Latency` polls, fewer than the code waits for, is an assumption
about the device and not about time: without it the code stops with an assertion,
which `attached = FALSE` shows for the answers of the mouse. The other
specifications have safety properties only and state no fairness.

## 4. Proofs

The theorems hold for every value of the constants that satisfies the named
assumptions of the modules; TLC evaluates these assumptions in every run.
`PROJECT.json` lists each theorem with the property of a run that it states: the
run shows it on a small instance, the theorem for all. The inductive invariant
of each proof was checked by TLC before it was proved.

**`IrqQueueProofs`** (`Cap`, `PacketCap` positive, any number of bytes).
`TypeCorrect` follows from `TypeInv`, which adds to the type that a handler fills
only a slot that exists. `LockCorrect` needs to know that the two contexts
exclude each other: `LockInv` says of each program counter whether the lock is
held and whether interrupts can be on, and that the handler runs only where the
main context can be suspended; the action property `LossBounded` follows.
`NothingStranded` adds `PicInv`, the state of the controllers at each point of
the handler. `OrderCorrect` and `NothingVanishes` need the contents: `SnapInv`
relates the copy to the queue at each step of the snapshot, `OrderInv` orders
delivered, copied, queued and waiting bytes. `LogImplemented`: the log of
`InputLog` is the queue alone until the count is reset, and from then on the rest
of the copy followed by the queue, so that a slot in both counts once; filling a
slot is a capture, the loop's step a delivery, draining the port a loss, and
everything else a stutter.

**`KernelProofs`, on `Allocator`** (sizes are natural, and no request is among the last
sixteen of the address space). The invariant is `TypeOK`, `FreeListIsChain`,
`NodesPartitioned` and `BlocksFit` with `OpInv`: where the walk stands in the
list (`node` and `prev` are neighbours in `freeSeq`, nothing before them fits),
what a call about to carve or to return holds. From it `ListCorrect`,
`HandOutCorrect`, `SizesCorrect`, `ReuseOrder`, and `Implements`.

**`KernelProofs`, on `GfxCache`** (a letter or icon lies in its box; any grid of
cells, room in the queue, letters, icons, rectangles, clips and frames).
`ScreenAlways` has two halves. For a cell that is redrawn: drawing a region makes
a point of it the colour of the last command that covers it, whatever the
backbuffer held, unless a clip is in doubt at the point (`DrawnRight`); each
changed cell lies in a run, no run shows an unchanged one, and a run that is drawn
later leaves right what is right (`RefreshedRight`). For a cell that is not: what
covers a point of it is hashed into it, also from beyond an edge (`CoverTouches`);
two frames with equal hashes have the same commands on the cell, in the same
order (`SameHash`), so the point is to be what it was. The invariant (`GfxInv`)
says which seed each array of hashes starts from and that the second holds the
hashes of the frame shown; the first two frames start from seeds of their own and
therefore redraw every cell. `IdleAlways` follows from it: the hashes are those of
the frame before, no cell has changed, and the scan draws nothing.

**`KernelProofs`, on `Fmt`** (any formats whose conversions are of the kinds
modelled, any arguments, widths and precisions that are any `int`, sizes up to
that of the memory, and widths of the integer
types). The digits of a number are a recursive function: that there is one, and
that its values are strings, is proved by a least argument (`DigitsExist`,
`DigitsAre`). A field is as long as `FieldExact` says in each of the branches of
the padding (`NumberFieldIs`), except where a precision smaller than the number
pads too far, or a text is overrun. `Holds` says what the stream keeps of the characters passed to it;
a write of more makes it hold the longer output (`StrWriteIs`), also when the
characters lie behind a text; the count is that of the output modulo the range of
a `size_t`, as wide as an `int` (`CountedOn`). What the scanner
reads ends inside the string, as none of the characters it looks for is NUL
(`ParseIs`). `FmtInv` puts these together, and needs in addition that scanning
begins with a terminated buffer: `SnprintfAlways`, `FieldsAlways`.

`ReadsBackAlways` compares two recursive computations. `Spells` says of digits
that the number they make, as the scanner counts it, is the one they were printed
from; it is proved of `fmtStringifyULL` by a least argument (`NumberSpells`), of
zeros in front of them, and of the places behind the point, which are those of the
number shifted (`BehindSpells`, `Decimal`). A field of a number, whatever flags,
width and precision, is blanks, a sign, such digits and blanks (`SignedShape`,
`DecimalField`, `UnsignedField`), if it is one the scanner can read at all
(`Readable`). No terminator lies before the end of such items (`SourceReaches`). So parsing it where it lies in the source gives the number and stops
behind the last digit (`ReadsSigned`, `ReadsUnsigned`, `ReadsDecimal`, for the
scan and the `strto` functions); texts and literals likewise (`FieldReads`,
`LiteralReads`). The invariant `ReadInv` says where each item lies in the output
(`Layout`) and, of a scan that has gone through some items which are all clear,
that it stands before the next, has counted these and stored their values; that
what was stored stays; and that it does not end before an item which is not clear
(`Reached`). A double has to fit a `long long` in its whole part, as converting a
larger one has no defined result, and no field of a number may have 64 characters,
the most `fmtParseNum` looks at.

**`VfsProofs`** (at least one node; standard names are proper, different and
fewer than nodes and streams; between two slashes of a path there is a name). The
invariant is local: `LinksInv` says of each node what its links and those of its
neighbours are - the first child points back, siblings have one parent, every
node but the root is a first child or follows exactly one sibling - and that
following parents or siblings ends. `NamesInv` keeps the names of siblings apart,
`DataInv` and `StreamsInv` hold the bytes and, per stream, what it has heard and
read of them (`Fits`). Relinking a list in the middle preserves local facts, one
neighbour at a time; that the links are a tree whose nodes their paths lead to
(`TreeAlways`) is proved from them, because a path is a walk to the root that
ends. `ListingAlways` compares two walks along the siblings, one of which skips
the files whose names begin with a dollar sign. `HooksAlways` and `ReadsAlways` reduce to facts about one record and one
sequence of bytes. `StoreAlways`, the refinement: creating or removing a node
leaves all other nodes on their paths, and what `FileStore` sees changes at one
path.

**`MouseInputProofs`** (a first byte has bit 3 set, as the protocol of the mouse
has it; motion bytes and scancodes are any bytes; any
screen, number of packets and keys). The bytes under way - in the packet being
assembled, in the call, in the log - are one sequence; `OrderInv` says that the
stamps of the mouse's bytes grow along it and that it takes them up where the
last genuine packet ended, `NewerInv` that what was decoded or applied is older
than it: hence `PacketsAlways`, that no motion is applied twice. `AccidentInv`
accounts for a decoder that is out of step: the packets misframed so far, the
keys in the packet being assembled and in the call, and the gaps in the stamps
are together at most as many as the accidents and the motion bytes taken for
heads, the one in the packet being assembled not counted (`Charged`,
`FalseHead`); a packet that comes out misframed uses up a key, a gap or its own
false head. `AlignedInv` says that until the first accident, and until a break
skips bytes, the oldest byte under way is the first of its packet, so that no
motion byte stands where a head is looked for. Together they are
`MisframedAlways`. It does not say that the decoder finds its step again when
every packet has a motion byte that passes for a head: it need not (section 5).
`ButtonInv` says
what the relay has told the interface: `HeldAlways`, and `PressAlways` for steps.

**`BlackjackProofs`** (the cards have ranks; any deck, balance and number of
rounds). `DealInv` and `OverInv` say, per part of the frame, how the flags of a
round follow from its cards: between two controls `over` and `reveal` may be
behind them, and only in the parts named may they be. `CardsInv` says that a
third card was drawn to a hand that allowed it, `MoneyInv` are the books in the
middle of a round. `TableAlways`, `RoundPaysAlways`, `DrawsAlways`,
`StatusAlways` follow. Sums of cards are recursive functions, of which the proof
needs that they are natural numbers and at most 21 for two cards.

**`BootProofs`** (any tree, kernel, number of polls and of bytes the user
sends; mouse attached or not). `HeardInv` says for every step of `Script` what
the PS/2 controller is doing meanwhile, unless keyboard or mouse were touched too
early: which command it has taken, what it expects, what is enabled and which
answer waits. At the last step that is `InputIsHeard` (`HeardAlways`).
`LoaderInv` is about the boot sector, for any size of sectors (in paragraphs),
tracks, code and image: each turn of the loop goes on where the last one stopped,
in memory as on the disk, though the first is a sector short; and what the turns
have covered is there unless a read failed. After the last turn that is the
kernel, if it fits (`ArrivesAlways`). `ImageInv` is about the image. Its bytes are
a trail of pieces - enter a directory, a file, leave - each with the offset where
it ends and the directories open there, left by the packer and walked by the
loader. While it is packed (`BeingPacked`), what the scanners of the open
directories have left is what was not seen, and closed ones are scanned; while it
is loaded (`BeingLoaded`), the loader is behind the first so many pieces and the
store holds what these are about. In the end every path was seen, by a least
counterexample on its length, so the store is the tree (`UnpackAlways`). The
assumption on trees, `Packable`, is what `mkfs.py` finds on a disk: names that
are not empty, not `.` or `..`, and without NUL or slash, everything in a
directory, and sizes of 31 bits. The sizes of the kernel's buffers are any;
`UnpackAlways` says as well that one is overrun only by a path of the tree that
is too long for it.

**`WindowsProofs`** (any screen, places and sizes). First the quicksort: a call
keeps the items outside its bounds, permutes those inside (`Keeps`), and leaves
them in order (`SortCorrect`), by least counterexample on the length of the
range. Then `IInv`, with `ContextInv` (references are to containers that exist),
`RootsInv` (what has run, what will run and the command list fit), `OpenInv`
(only dead tasks have closed windows; the first task is never under a close
button), `FocusInv` and `HoverInv` (the focus is with a control of this frame,
and together with hover as long as a button is down), `ActInv` (what has acted
holds the focus): `DesktopAlways`, `ActsOnceAlways`. `DrawInv` adds that no two
zindices agree and where the commands of each window are; that the jumps `end`
writes form a chain through all windows is `DrawnInOrderAlways`. `PressInv` adds,
for `RestedPressAlways`, what two frames with a resting pointer establish and
the frame of a press uses: `nextHoverRoot` is the highest window of those that
have run, after the frame of all; then `hover` is its control at the pointer and
the focus is nobody's; then other windows leave both alone and this one acts.

The functions of `Strings` are in `VfsProofs`, too (any memory, any characters of
8 bits, any fraction of a number, any size of an `int`): `CallsAlways`, and from it `LibraryAlways`
for the invariant of the run. The loops of `memcpy`,
`memmove` and `memset` are solutions of a recursion, and after each turn the bytes
passed so far have arrived (`UpIs`, `DownIs`, `SetIs`); a loop that compares
stops at the first place that stops it, and nowhere else (`StopsOnce`), so a
string has one length, a text is what `TextOnly` recognises, and two texts part
once (`PartOnce`). The roundings follow from `QuotientIs`, that the quotient is
the number whose multiples enclose the dividend; they are stated of numbers
whose neighbouring whole numbers fit an `int`.

**`Finiteness`** has no component of its own. The library's induction theorems
take an operator as a parameter, which the installed provers cannot instantiate;
so what a recursive function computes is proved by a least counterexample
(`MinimalNat`, `MinimalSet`), and that there is such a function, and only one, by
`RecursionExists`, `RecursionUnique` (over numbers) and `WalkExists` (over links
that end).

Only model-checked: liveness (`WakeupDelivers`, `CallsReturn`,
`EverythingIsLoaded`), which the prover does not reach. Every safety property of a
passing run is a theorem.

## 5. Where code and words disagree

* `irq_dropped`: the comment at `src/src/sys/umka.c:322` says that an interrupt
  that meets the lock "will be delayed"; its bytes are read and thrown away
  (`umka.c:340`).
* `blackjack_aces`: the rules shown by the game (`blackjack.um:319`) let an ace
  be smaller when the hand would be bust; `getValues` decides each ace once,
  against the cards counted so far: 5, ace, ace, 6 is counted as 22.

Behaviour the models reproduce, and which the properties are worded around:

* a packet queued between the snapshot and `hlt` waits for another interrupt;
* a handler empties the shared port, so bytes of the keyboard reach the mouse
  decoder and the reverse; after such an accident a motion byte with bit 3 set
  is taken for the head of a packet, and if every packet has one, the decoder
  stays out of step; a release of the button takes effect one packet late;
* opening with mode "a" opens nothing; a trailing slash, or ".." above the root,
  creates nodes that no path finds; two writers on one file, or emptying it,
  break what hooks and readers see; a stream beyond the end reads what lies
  behind the data; every file whose name begins with `$` is hidden from
  listings, not only the standard streams;
* a `%s` with a negative `.*` precision other than -1 reads on behind its text,
  up to the end of the buffer, and the length returned wraps;
* `%u`, `%x` without `ll` sign-extend an int; zeros are padded before the sign;
  a precision smaller than the number pads too far on the left; `%%` at the end
  of the input is counted one too small; an empty format leaves no terminator;
* rectangles, letters and icons can reach over a clip that does not overlap the
  region being redrawn; the background ignores clips; commands beyond 4096 are
  dropped silently, the pointer first;
* a press right after a move acts on the control hovered before; one that is
  released before its frame may act on two controls;
* a reshuffle in the middle of a round can deal a card that is on the table;
  starting a new round in the middle of one loses the stake;
* `mkfs.py` packs names of 32 bytes and more, paths of 512 bytes and more, and
  paths of more than 32 names, and the kernel's buffers are overrun;
* a key or a motion while the controllers are set up is read as the configuration
  or as an answer of the mouse; an answer that stays behind the port keeps the
  input dead. Without a mouse the machine stops with an assertion;
* `strncmp` takes texts for equal that differ first at the last of n characters,
  and after n equal ones looks at the next; `strncpy` writes n + 1 characters and
  does not pad; `strrchr` does not find the terminator; `strcmp` orders signed
  characters; `round` cuts off below zero; `fmod` rounds the quotient down;
  all of `floor`, `ceil`, `round`, `trunc` and `fmod` go through an `int`, and are
  wrong for numbers, or quotients, of 2^31 and more;
* `%f` has one place by default, cuts off instead of rounding, and its digits are
  an `int`: the tenth place overflows. The scanner loses the sign of a number that
  has an exponent.

Read in the code and outside the models: `beginBSS` and `endBSS` are declared as
pointers (`main.c:58`), so `memset` clears between the words at these labels and
not between the labels, and the models begin with cleared memory as after power
on; a panic before `gfxInit` draws into a command list that is not there;
`api__vfsFSOOpen` returns the name and not the stream (nothing calls it); a file
that cannot be read whole leaves its stream open in the file view; the file view
takes its argument from `tasks::arg` a frame after it was set, which is right
because only one control of a frame is pressed; `%n` falls through the lengths,
taking an argument for each, and `%#f` reads a base that nobody set; `time`
writes through its argument even if that is a null pointer.

Hazards that no property covers and that are not among those of `PROJECT.json`:
names of 32 bytes and paths of more than 32 components, when a program passes them
to the file system (of the loader, `Boot` says so); `malloc` of the last sixteen
sizes of the address space wraps to a small block, which `NoWrapAssumption`
excludes; a
hook that writes to its own stream would hear bytes twice; `calloc` multiplies
unchecked; the heap and the console's text grow without limit; the container
pool reuses the slot updated longest ago while pointers into it are kept over
frames, which is right as long as it has more slots (48) than a frame may have
windows (32); `getLayout` always takes the lowest layout; the grid of cells is fixed
whatever mode the BIOS set.

## 6. Not modelled, and why

* Video mode, A20, protected mode and the global descriptor table in `boot.s`:
  sequences of instructions whose results nothing in the models reads. The bits
  of a gate and of the controllers' initialisation words.
* Trigonometry, exponentials, logarithms and roots (approximations by polynomials
  and by the bits of a double, for which TLA+ has no numbers), `rand`, the stubs
  for time and libraries, `arith.c` (third party). The interpreter and the image decoder are submodules and not in the repository.
* `%n` and file streams in `fmt`; the latter go through `Vfs` character by
  character. (`%e` and `%g` print and read as `%f` does.)
* Layouts, scroll bars, resizing, popups, text boxes and the keyboard of
  `microui.um`. No program opens a popup, and no key reaches the interface:
  `input::irq` has a case for the mouse only, so the text box inside a slider,
  which takes a shift-click, cannot be opened. The slider itself is the bet of
  `Blackjack`. Pixels of letters, icons and the background image.
* Console, browser, file view: pure functions of others' data.

## 7. Plan

Modelled and proved about: `IrqQueue`, `Allocator`, `Vfs`, `MouseInput`,
`Windows`, `Blackjack`, `GfxCache`, `Fmt`, `Strings`, `Boot` with `VfsImage` and
`Startup`.

To model, in this order:

1. The container pool of `microui.um` (48 slots, oldest reused) under `Windows`:
   the slot of a window that is shown in every frame stays its own.
2. File streams in `Fmt`, on `Vfs`.
3. The console: hook, text and lines, on `Vfs`.
