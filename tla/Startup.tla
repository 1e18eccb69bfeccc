------------------------------- MODULE Startup -------------------------------
(***************************************************************************)
(* kmain from the compilation of main.um to the first sti: the handlers    *)
(* become symbols, the symbols gates, and fs/kernel/input.um and pic.um    *)
(* set up the controller of keyboard and mouse and the two interrupt       *)
(* controllers by polling, with interrupts off. Meanwhile keys are pressed *)
(* and the mouse is moved.                                                 *)
(*                                                                         *)
(* The devices are external. Behind port 0x60 is one queue for the bytes   *)
(* of keyboard, mouse and controller, as in IrqQueue. A byte is the line   *)
(* it raises and what it would mean as a configuration: the set of the     *)
(* things that it enables.                                                 *)
(***************************************************************************)
EXTENDS Naturals, Sequences

CONSTANTS
  Main,       \* the path of main.um
  KeyCodes,   \* what the codes of keys mean as a configuration
  Polls,      \* 100000 in the code
  Latency,    \* the controller answers before it is asked so often
  MaxInput    \* bound: bytes of keyboard and mouse

Features == {"irq1", "irq12", "keyboard", "mouse"}
Parameters ==
  /\ KeyCodes \subseteq SUBSET Features
  /\ Polls \in Nat /\ Latency \in Nat /\ Latency < Polls

VARIABLES
  store,      \* the file system: contents by path
  step,       \* the next step of Script, or 0 after a panic
  polls,      \* i of mouseWaitWrite and mouseWaitRead
  status,     \* of initMouse
  symbols, gates, \* handlers by the line they are for
  idtr,       \* whether the processor knows the table of gates
  port,       \* bytes behind port 0x60
  ctl,        \* the controller: [taking, expects, config, reporting, attached]
  irr,        \* requests latched in the interrupt controllers
  open,       \* lines that are not masked
  failed,     \* ghost: the call of umkaRuntimeCompile that failed
  sent, early \* bytes of keyboard and mouse so far; ghost: one came before
              \* the interrupt controllers were set up

devVars == <<port, ctl, irr, sent, early, failed>>
vars == <<store, step, polls, status, symbols, gates, idtr, open, devVars>>

None == "none"
Nothing == [do |-> None]
Lines == {1, 12}

(* Writes of a command or of data, and reads; the rest as in the code. *)
Command(c) == [do |-> "write", to |-> "command", value |-> c]
Data(d) == [do |-> "write", to |-> "data", value |-> d]
Get == [do |-> "read"]
Do(what) == [do |-> what]
mouseWrite(d) == <<Command("D4"), Data(d)>>

initMouse ==
  <<Command("A8"), Command("20"), Do("status"), Command("60"), Do("config")>>
    \o mouseWrite("F6") \o <<Get>> \o mouseWrite("F4") \o <<Get>>

(* Mutation: the second answer of the mouse is left behind the port. *)
ScriptUnread ==
  <<Do("compile"), Do("irq1"), Do("irq12"), Do("gate1"), Do("gate12"),
    Do("lidt")>>
    \o SubSeq(initMouse, 1, Len(initMouse) - 1) \o <<Do("pic"), Do("mask"), Do("sti")>>

Script ==
  <<Do("compile"), Do("irq1"), Do("irq12"), Do("gate1"), Do("gate12"),
    Do("lidt")>>
    \o initMouse \o <<Do("pic"), Do("mask"), Do("sti")>>

Running == step > Len(Script)
At(what) == step \in DOMAIN Script /\ Script[step].do = what
Advance == step' = step + 1 /\ polls' = 0
Panic == step' = 0 /\ UNCHANGED polls

-----------------------------------------------------------------------------
(* Devices                                                                 *)

(* The line a byte at the head of the queue holds up. *)
Raised(q, config) ==
  {l \in Lines : /\ q # <<>> /\ Head(q).line = l
                 /\ (IF l = 1 THEN "irq1" ELSE "irq12") \in config}

(* A byte becomes readable when it is the only one, and is announced then. *)
Arrive(byte) ==
  /\ port' = Append(port, byte)
  /\ irr' = irr \cup (IF port = <<>> THEN Raised(<<byte>>, ctl.config) ELSE {})

(* in8 of port 0x60, of the byte at its head. *)
in8 ==
  /\ port' = Tail(port) /\ irr' = irr \cup Raised(Tail(port), ctl.config)
  /\ UNCHANGED <<ctl, sent, early, failed>>

Input(line) ==
  /\ sent < MaxInput /\ ~Running
  /\ sent' = sent + 1
  /\ early' = (early \/ \E k \in DOMAIN Script : k >= step /\ Script[k].do = "pic")
  /\ UNCHANGED <<store, step, polls, status, symbols, gates, idtr, ctl, open, failed>>

KeyPressed ==
  /\ "keyboard" \in ctl.config
  /\ \E code \in KeyCodes : Arrive([line |-> 1, value |-> code])
  /\ Input(1)

MouseMoved ==
  /\ "mouse" \in ctl.config /\ ctl.reporting
  /\ Arrive([line |-> 12, value |-> {}])
  /\ Input(12)

(* The controller takes what was written to it, and answers. *)
Took(expects, config, reporting) ==
  ctl' = [ctl EXCEPT !.taking = Nothing, !.expects = expects, !.config = config,
                     !.reporting = reporting]

ControllerWorks ==
  /\ ctl.taking # Nothing
  /\ LET w == ctl.taking
         told(c) == w.to = "command" /\ w.value = c
         given(c) == w.to = "data" /\ ctl.expects = c
         quiet == UNCHANGED <<port, irr>>
     IN \/ /\ told("A8") /\ quiet
           /\ Took(None, ctl.config \cup {"mouse"}, ctl.reporting)
        \/ /\ told("20") /\ Arrive([line |-> 1, value |-> ctl.config])
           /\ Took(None, ctl.config, ctl.reporting)
        \/ /\ told("60") \/ told("D4")
           /\ quiet /\ Took(w.value, ctl.config, ctl.reporting)
        \/ /\ given("60")
           /\ irr' = irr \cup (Raised(port, w.value) \ Raised(port, ctl.config))
           /\ UNCHANGED port /\ Took(None, w.value, ctl.reporting)
        \/ /\ given("D4")
           /\ \/ ctl.attached /\ Arrive([line |-> 12, value |-> {"irq12"}])
              \/ ~ctl.attached /\ quiet
           /\ Took(None, ctl.config, ctl.attached /\ w.value = "F4")
  /\ UNCHANGED <<store, step, polls, status, symbols, gates, idtr, open, sent, early, failed>>

-----------------------------------------------------------------------------
(* The program                                                             *)

Waits == \/ (At("write") \/ At("config")) /\ ctl.taking # Nothing
         \/ (At("read") \/ At("status")) /\ port = <<>>

(* Mutation: the polls are not counted. *)
PollForever ==
  /\ Waits /\ (ctl.taking # Nothing => polls < Latency)
  /\ UNCHANGED vars

(* mouseWaitWrite, mouseWaitRead: again, or the assertion. *)
Poll ==
  /\ Waits
  /\ \/ /\ polls < Polls /\ (ctl.taking # Nothing => polls < Latency)
        /\ polls' = polls + 1 /\ UNCHANGED step
     \/ polls = Polls /\ Panic
  /\ UNCHANGED <<store, status, symbols, gates, idtr, open, devVars>>

out8(w) == ctl' = [ctl EXCEPT !.taking = w]

Write ==
  /\ At("write") /\ ~Waits
  /\ out8(Script[step])
  /\ Advance
  /\ UNCHANGED <<store, status, symbols, gates, idtr, open, port, irr, sent, early, failed>>

(* mouseWaitWrite, out8(ps2data, status) *)
WriteStatus ==
  /\ At("config") /\ ~Waits
  /\ out8(Data(status))
  /\ Advance
  /\ UNCHANGED <<store, status, symbols, gates, idtr, open, port, irr, sent, early, failed>>

(* status := in8(ps2data) | 2 *)
ReadStatus ==
  /\ At("status") /\ ~Waits
  /\ in8 /\ status' = Head(port).value \cup {"irq12"}
  /\ Advance /\ UNCHANGED <<store, symbols, gates, idtr, open>>

(* mouseRead: whatever it is, it is taken for the answer. *)
Read ==
  /\ At("read") /\ ~Waits /\ in8
  /\ Advance /\ UNCHANGED <<store, status, symbols, gates, idtr, open>>

(* What umkaRuntimeCompile asks for the result of, in this order: the      *)
(* functions are those of main.um, the rest is about all of its modules.   *)
Attempts ==
  {"umkaAlloc", "umkaInit", "umkaCompile", "system__register", "system__init",
   "system__irq", "system__schedule"}

(* umkaRuntimeCompile: a main.um that is there may compile, or something   *)
(* in it or in the modules it imports stops the machine.                   *)
Compile ==
  /\ At("compile")
  /\ \/ Main \in DOMAIN store /\ Advance /\ UNCHANGED failed
     \/ failed' \in Attempts /\ Panic
  /\ UNCHANGED <<store, status, symbols, gates, idtr, open, port, ctl, irr, sent, early>>

(* umkaRuntimeRegister *)
Register ==
  /\ At("irq1") \/ At("irq12")
  /\ symbols' = symbols \cup {IF At("irq1") THEN 1 ELSE 12}
  /\ Advance /\ UNCHANGED <<store, status, gates, idtr, open, devVars>>

(* idt::register of what sym::get finds, or its assertion. *)
Gate ==
  /\ At("gate1") \/ At("gate12")
  /\ LET line == IF At("gate1") THEN 1 ELSE 12 IN
     \/ line \in symbols /\ gates' = gates \cup {line} /\ Advance
     \/ line \notin symbols /\ Panic /\ UNCHANGED gates
  /\ UNCHANGED <<store, status, symbols, idtr, open, devVars>>

(* idt::init *)
Lidt ==
  /\ At("lidt")
  /\ idtr' = TRUE
  /\ Advance /\ UNCHANGED <<store, status, symbols, gates, open, devVars>>

(* pic::init: requests that were latched are forgotten, no line is masked. *)
PicInit ==
  /\ At("pic")
  /\ irr' = {} /\ open' = 0 .. 15
  /\ Advance
  /\ UNCHANGED <<store, status, symbols, gates, idtr, port, ctl, sent, early, failed>>

SetMask ==
  /\ At("mask")
  /\ open' = {1, 2, 12}
  /\ Advance /\ UNCHANGED <<store, status, symbols, gates, idtr, devVars>>

(* The first umkaRuntimeSchedule, with an empty queue, and sti. *)
Sti ==
  /\ At("sti")
  /\ Advance /\ UNCHANGED <<store, status, symbols, gates, idtr, open, devVars>>

Init ==
  /\ step = 1 /\ polls = 0 /\ status = {}
  /\ symbols = {} /\ gates = {} /\ idtr = FALSE
  /\ port = <<>> /\ irr = {} /\ open = {}
  /\ \E attached \in BOOLEAN :
       ctl = [taking |-> Nothing, expects |-> None, config |-> {"irq1", "keyboard"},
              reporting |-> FALSE, attached |-> attached]
  /\ sent = 0 /\ early = FALSE /\ failed = None

Program == \/ Compile \/ Register \/ Gate \/ Lidt \/ Poll \/ Write \/ WriteStatus
           \/ ReadStatus \/ Read \/ PicInit \/ SetMask \/ Sti

-----------------------------------------------------------------------------
(* Properties                                                              *)

(* The state the interrupt path starts from: the devices send, and a byte  *)
(* that waits is announced by a request on an open line with a gate.       *)
Heard ==
  /\ idtr /\ ctl.config = Features /\ ctl.reporting
  /\ port # <<>> => Head(port).line \in irr \cap open \cap gates

(* When interrupts are let in for the first time, input will be heard if   *)
(* nobody touched keyboard and mouse while the controllers were set up.    *)
(* Not so otherwise: an early byte is taken for an answer or for the       *)
(* configuration and leaves an answer behind the port, whose request       *)
(* pic::init forgets, and no other byte is announced before it is read.    *)
InputIsHeard == Running /\ ~early => Heard
=============================================================================
