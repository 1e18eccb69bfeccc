----------------------------- MODULE BootProofs -----------------------------
(***************************************************************************)
(* The input is heard after the boot, unless keyboard or mouse is touched  *)
(* too early: InputIsHeard, for every tree, size of kernel, mouse that is  *)
(* attached or not, failure of the disk, bound of the polls and number of  *)
(* bytes the user sends.                                                   *)
(*                                                                         *)
(* HeardInv says, for every step of kmain from the compilation to sti,     *)
(* what the controller of keyboard and mouse is doing meanwhile: whether   *)
(* it has taken the command that was written last, what it expects, what   *)
(* is enabled and which answer waits behind port 0x60.                     *)
(*                                                                         *)
(* LoaderInv is about the boot sector: the registers say that each turn of *)
(* its loop goes on where the last one stopped, in memory as on the disk,  *)
(* and what the turns so far have covered is there unless a read failed.   *)
(* So the kernel arrives (KernelArrives) for every size of sectors,        *)
(* tracks, code and image.                                                 *)
(*                                                                         *)
(* ImageInv is about the image of the files: it is a trail of pieces, each *)
(* a directory that is entered, a file, or a directory that is left, which *)
(* is what the packer leaves behind and what the loader is somewhere on.   *)
(* So the kernel finds what was packed (ImageUnpacked), for every tree.    *)
(***************************************************************************)
EXTENDS Boot, Finiteness, SequenceTheorems, TLAPS

-----------------------------------------------------------------------------
(* The steps of kmain                                                      *)

(* Everything a step can be. *)
Entries ==
  {Input!Do("compile"), Input!Do("irq1"), Input!Do("irq12"), Input!Do("gate1"),
   Input!Do("gate12"), Input!Do("lidt"), Input!Do("status"), Input!Do("config"),
   Input!Do("pic"), Input!Do("mask"), Input!Do("sti"), Input!Get,
   Input!Command("A8"), Input!Command("20"), Input!Command("60"), Input!Command("D4"),
   Input!Data("F6"), Input!Data("F4")}

(* t is s and then u. *)
Longer(t, s, u, V) ==
  /\ t \in Seq(V) /\ Len(t) = Len(s) + Len(u)
  /\ \A k \in 1 .. Len(s) : t[k] = s[k]
  /\ \A k \in 1 .. Len(u) : t[Len(s) + k] = u[k]

(* What \o does, by the elements.                                          *)
LEMMA Joined == \A V : \A s, u \in Seq(V) : Longer(s \o u, s, u, V)
  BY DEF Longer

(* The steps of initMouse, by their number.                                *)
LEMMA MouseSteps ==
  /\ Input!initMouse \in Seq(Entries) /\ Len(Input!initMouse) = 11
  /\ Input!initMouse[1] = Input!Command("A8")
  /\ Input!initMouse[2] = Input!Command("20")
  /\ Input!initMouse[3] = Input!Do("status")
  /\ Input!initMouse[4] = Input!Command("60")
  /\ Input!initMouse[5] = Input!Do("config")
  /\ Input!initMouse[6] = Input!Command("D4")
  /\ Input!initMouse[7] = Input!Data("F6")
  /\ Input!initMouse[8] = Input!Get
  /\ Input!initMouse[9] = Input!Command("D4")
  /\ Input!initMouse[10] = Input!Data("F4")
  /\ Input!initMouse[11] = Input!Get
  <1> DEFINE s1 == <<Input!Command("A8"), Input!Command("20"), Input!Do("status"),
                     Input!Command("60"), Input!Do("config")>>
             s2 == s1 \o <<Input!Command("D4"), Input!Data("F6")>>
             s3 == s2 \o <<Input!Get>>
             s4 == s3 \o <<Input!Command("D4"), Input!Data("F4")>>
             s5 == s4 \o <<Input!Get>>
  <1>0. Input!initMouse = s5
    BY DEF Input!initMouse, Input!mouseWrite
  <1>e. /\ Input!Get \in Entries /\ Input!Command("D4") \in Entries
        /\ Input!Data("F6") \in Entries /\ Input!Data("F4") \in Entries
    BY DEF Entries
  <1>1. /\ s1 \in Seq(Entries) /\ Len(s1) = 5
        /\ s1[1] = Input!Command("A8") /\ s1[2] = Input!Command("20")
        /\ s1[3] = Input!Do("status") /\ s1[4] = Input!Command("60")
        /\ s1[5] = Input!Do("config")
    BY DEF Entries
  <1> HIDE DEF s1
  <1>2. /\ s2 \in Seq(Entries) /\ Len(s2) = 7
        /\ \A k \in 1 .. 5 : s2[k] = s1[k]
        /\ s2[6] = Input!Command("D4") /\ s2[7] = Input!Data("F6")
    <2> DEFINE u == <<Input!Command("D4"), Input!Data("F6")>>
    <2>1. u \in Seq(Entries) /\ Len(u) = 2 /\ u[1] = Input!Command("D4") /\ u[2] = Input!Data("F6")
      BY <1>e
    <2>2. s2 = s1 \o u
      OBVIOUS
    <2> HIDE DEF u, s2
    <2>3. Longer(s1 \o u, s1, u, Entries)
      BY <1>1, <2>1, Joined
    <2>4. Longer(s2, s1, u, Entries)
      BY <2>2, <2>3
    <2> QED
      BY <1>1, <2>1, <2>4 DEF Longer
  <1> HIDE DEF s2
  <1>3. /\ s3 \in Seq(Entries) /\ Len(s3) = 8
        /\ \A k \in 1 .. 7 : s3[k] = s2[k]
        /\ s3[8] = Input!Get
    <2> DEFINE u == <<Input!Get>>
    <2>1. u \in Seq(Entries) /\ Len(u) = 1 /\ u[1] = Input!Get
      BY <1>e
    <2>2. s3 = s2 \o u
      OBVIOUS
    <2> HIDE DEF u, s3
    <2>3. Longer(s2 \o u, s2, u, Entries)
      BY <1>2, <2>1, Joined
    <2>4. Longer(s3, s2, u, Entries)
      BY <2>2, <2>3
    <2> QED
      BY <1>2, <2>1, <2>4 DEF Longer
  <1> HIDE DEF s3
  <1>4. /\ s4 \in Seq(Entries) /\ Len(s4) = 10
        /\ \A k \in 1 .. 8 : s4[k] = s3[k]
        /\ s4[9] = Input!Command("D4") /\ s4[10] = Input!Data("F4")
    <2> DEFINE u == <<Input!Command("D4"), Input!Data("F4")>>
    <2>1. u \in Seq(Entries) /\ Len(u) = 2 /\ u[1] = Input!Command("D4") /\ u[2] = Input!Data("F4")
      BY <1>e
    <2>2. s4 = s3 \o u
      OBVIOUS
    <2> HIDE DEF u, s4
    <2>3. Longer(s3 \o u, s3, u, Entries)
      BY <1>3, <2>1, Joined
    <2>4. Longer(s4, s3, u, Entries)
      BY <2>2, <2>3
    <2> QED
      BY <1>3, <2>1, <2>4 DEF Longer
  <1> HIDE DEF s4
  <1>5. /\ s5 \in Seq(Entries) /\ Len(s5) = 11
        /\ \A k \in 1 .. 10 : s5[k] = s4[k]
        /\ s5[11] = Input!Get
    <2> DEFINE u == <<Input!Get>>
    <2>1. u \in Seq(Entries) /\ Len(u) = 1 /\ u[1] = Input!Get
      BY <1>e
    <2>2. s5 = s4 \o u
      OBVIOUS
    <2> HIDE DEF u, s5
    <2>3. Longer(s4 \o u, s4, u, Entries)
      BY <1>4, <2>1, Joined
    <2>4. Longer(s5, s4, u, Entries)
      BY <2>2, <2>3
    <2> QED
      BY <1>4, <2>1, <2>4 DEF Longer
  <1> HIDE DEF s5
  <1> QED
    BY <1>0, <1>1, <1>2, <1>3, <1>4, <1>5

(* The steps of kmain, by their number.                                    *)
LEMMA ScriptSteps ==
  /\ Input!Script \in Seq(Entries) /\ Len(Input!Script) = 20
  /\ Input!Script[1] = Input!Do("compile")
  /\ Input!Script[2] = Input!Do("irq1")
  /\ Input!Script[3] = Input!Do("irq12")
  /\ Input!Script[4] = Input!Do("gate1")
  /\ Input!Script[5] = Input!Do("gate12")
  /\ Input!Script[6] = Input!Do("lidt")
  /\ Input!Script[7] = Input!Command("A8")
  /\ Input!Script[8] = Input!Command("20")
  /\ Input!Script[9] = Input!Do("status")
  /\ Input!Script[10] = Input!Command("60")
  /\ Input!Script[11] = Input!Do("config")
  /\ Input!Script[12] = Input!Command("D4")
  /\ Input!Script[13] = Input!Data("F6")
  /\ Input!Script[14] = Input!Get
  /\ Input!Script[15] = Input!Command("D4")
  /\ Input!Script[16] = Input!Data("F4")
  /\ Input!Script[17] = Input!Get
  /\ Input!Script[18] = Input!Do("pic")
  /\ Input!Script[19] = Input!Do("mask")
  /\ Input!Script[20] = Input!Do("sti")
  <1> DEFINE s0 == <<Input!Do("compile"), Input!Do("irq1"), Input!Do("irq12"),
                     Input!Do("gate1"), Input!Do("gate12"), Input!Do("lidt")>>
             s1 == s0 \o Input!initMouse
             s2 == <<Input!Do("pic"), Input!Do("mask"), Input!Do("sti")>>
  <1>0. Input!Script = s1 \o s2
    BY DEF Input!Script
  <1>1. /\ s0 \in Seq(Entries) /\ Len(s0) = 6
        /\ s0[1] = Input!Do("compile") /\ s0[2] = Input!Do("irq1") /\ s0[3] = Input!Do("irq12") /\ s0[4] = Input!Do("gate1") /\ s0[5] = Input!Do("gate12") /\ s0[6] = Input!Do("lidt")
    BY DEF Entries
  <1>2. /\ s2 \in Seq(Entries) /\ Len(s2) = 3
        /\ s2[1] = Input!Do("pic") /\ s2[2] = Input!Do("mask") /\ s2[3] = Input!Do("sti")
    BY DEF Entries
  <1>3. s1 = s0 \o Input!initMouse
    OBVIOUS
  <1> HIDE DEF s0, s1, s2
  <1>4. Longer(s1, s0, Input!initMouse, Entries)
    <2>1. Longer(s0 \o Input!initMouse, s0, Input!initMouse, Entries)
      BY <1>1, MouseSteps, Joined
    <2> QED
      BY <1>3, <2>1
  <1>5. s1 \in Seq(Entries) /\ Len(s1) = 17
    BY <1>1, <1>4, MouseSteps DEF Longer
  <1>6. Longer(Input!Script, s1, s2, Entries)
    <2>1. Longer(s1 \o s2, s1, s2, Entries)
      BY <1>2, <1>5, Joined
    <2> QED
      BY <1>0, <2>1
  <1>7. /\ Input!Script \in Seq(Entries) /\ Len(Input!Script) = 20
        /\ \A k \in 1 .. 17 : Input!Script[k] = s1[k]
        /\ \A k \in 1 .. 3 : Input!Script[17 + k] = s2[k]
    BY <1>2, <1>5, <1>6 DEF Longer
  <1>8. /\ \A k \in 1 .. 6 : s1[k] = s0[k]
        /\ \A k \in 1 .. 11 : s1[6 + k] = Input!initMouse[k]
    BY <1>1, <1>4, MouseSteps DEF Longer
  <1>9. \A k \in 1 .. 6 : Input!Script[k] = s0[k]
    <2> TAKE k \in 1 .. 6
    <2>1. k \in 1 .. 17
      OBVIOUS
    <2> QED
      BY <2>1, <1>7, <1>8
  <1>10. \A k \in 1 .. 11 : Input!Script[6 + k] = Input!initMouse[k]
    <2> SUFFICES ASSUME NEW k \in 1 .. 11
                 PROVE  Input!Script[6 + k] = Input!initMouse[k]
      OBVIOUS
    <2>1. 6 + k \in 1 .. 17
      OBVIOUS
    <2> QED
      BY <2>1, <1>7, <1>8
  <1>11. Input!Script[1] = Input!Do("compile")
    BY <1>1, <1>9
  <1>12. Input!Script[2] = Input!Do("irq1")
    BY <1>1, <1>9
  <1>13. Input!Script[3] = Input!Do("irq12")
    BY <1>1, <1>9
  <1>14. Input!Script[4] = Input!Do("gate1")
    BY <1>1, <1>9
  <1>15. Input!Script[5] = Input!Do("gate12")
    BY <1>1, <1>9
  <1>16. Input!Script[6] = Input!Do("lidt")
    BY <1>1, <1>9
  <1>17. Input!Script[7] = Input!Command("A8")
    <2>1. Input!Script[6 + 1] = Input!initMouse[1]
      BY <1>10
    <2> QED
      BY <2>1, MouseSteps
  <1>18. Input!Script[8] = Input!Command("20")
    <2>1. Input!Script[6 + 2] = Input!initMouse[2]
      BY <1>10
    <2> QED
      BY <2>1, MouseSteps
  <1>19. Input!Script[9] = Input!Do("status")
    <2>1. Input!Script[6 + 3] = Input!initMouse[3]
      BY <1>10
    <2> QED
      BY <2>1, MouseSteps
  <1>20. Input!Script[10] = Input!Command("60")
    <2>1. Input!Script[6 + 4] = Input!initMouse[4]
      BY <1>10
    <2> QED
      BY <2>1, MouseSteps
  <1>21. Input!Script[11] = Input!Do("config")
    <2>1. Input!Script[6 + 5] = Input!initMouse[5]
      BY <1>10
    <2> QED
      BY <2>1, MouseSteps
  <1>22. Input!Script[12] = Input!Command("D4")
    <2>1. Input!Script[6 + 6] = Input!initMouse[6]
      BY <1>10
    <2> QED
      BY <2>1, MouseSteps
  <1>23. Input!Script[13] = Input!Data("F6")
    <2>1. Input!Script[6 + 7] = Input!initMouse[7]
      BY <1>10
    <2> QED
      BY <2>1, MouseSteps
  <1>24. Input!Script[14] = Input!Get
    <2>1. Input!Script[6 + 8] = Input!initMouse[8]
      BY <1>10
    <2> QED
      BY <2>1, MouseSteps
  <1>25. Input!Script[15] = Input!Command("D4")
    <2>1. Input!Script[6 + 9] = Input!initMouse[9]
      BY <1>10
    <2> QED
      BY <2>1, MouseSteps
  <1>26. Input!Script[16] = Input!Data("F4")
    <2>1. Input!Script[6 + 10] = Input!initMouse[10]
      BY <1>10
    <2> QED
      BY <2>1, MouseSteps
  <1>27. Input!Script[17] = Input!Get
    <2>1. Input!Script[6 + 11] = Input!initMouse[11]
      BY <1>10
    <2> QED
      BY <2>1, MouseSteps
  <1>28. Input!Script[18] = Input!Do("pic")
    <2>1. Input!Script[17 + 1] = s2[1]
      BY <1>7
    <2> QED
      BY <2>1, <1>2
  <1>29. Input!Script[19] = Input!Do("mask")
    <2>1. Input!Script[17 + 2] = s2[2]
      BY <1>7
    <2> QED
      BY <2>1, <1>2
  <1>30. Input!Script[20] = Input!Do("sti")
    <2>1. Input!Script[17 + 3] = s2[3]
      BY <1>7
    <2> QED
      BY <2>1, <1>2
  <1> QED
    BY <1>7, <1>11, <1>12, <1>13, <1>14, <1>15, <1>16, <1>17, <1>18, <1>19, <1>20, <1>21, <1>22, <1>23, <1>24, <1>25, <1>26, <1>27, <1>28, <1>29, <1>30

(* What each of them does.                                                 *)
LEMMA WhatIsDone ==
  /\ DOMAIN Input!Script = 1 .. 20
  /\ Input!Script[1].do = "compile"
  /\ Input!Script[2].do = "irq1"
  /\ Input!Script[3].do = "irq12"
  /\ Input!Script[4].do = "gate1"
  /\ Input!Script[5].do = "gate12"
  /\ Input!Script[6].do = "lidt"
  /\ Input!Script[7].do = "write"
  /\ Input!Script[8].do = "write"
  /\ Input!Script[10].do = "write"
  /\ Input!Script[12].do = "write"
  /\ Input!Script[13].do = "write"
  /\ Input!Script[15].do = "write"
  /\ Input!Script[16].do = "write"
  /\ Input!Script[9].do = "status"
  /\ Input!Script[11].do = "config"
  /\ Input!Script[14].do = "read"
  /\ Input!Script[17].do = "read"
  /\ Input!Script[18].do = "pic"
  /\ Input!Script[19].do = "mask"
  /\ Input!Script[20].do = "sti"
  <1>1. DOMAIN Input!Script = 1 .. 20
    BY ScriptSteps
  <1> QED
    BY <1>1, ScriptSteps DEF Input!Do, Input!Command, Input!Data, Input!Get

(* Where the program is when an action of it is enabled.                   *)
LEMMA AtSteps ==
  /\ Input!At("compile") <=> step = 1
  /\ Input!At("irq1") <=> step = 2
  /\ Input!At("irq12") <=> step = 3
  /\ Input!At("gate1") <=> step = 4
  /\ Input!At("gate12") <=> step = 5
  /\ Input!At("lidt") <=> step = 6
  /\ Input!At("write") <=> step \in {7, 8, 10, 12, 13, 15, 16}
  /\ Input!At("status") <=> step = 9
  /\ Input!At("config") <=> step = 11
  /\ Input!At("read") <=> step \in {14, 17}
  /\ Input!At("pic") <=> step = 18
  /\ Input!At("mask") <=> step = 19
  /\ Input!At("sti") <=> step = 20
  <1>1. \A w : Input!At(w) <=> step \in 1 .. 20 /\ Input!Script[step].do = w
    BY WhatIsDone DEF Input!At
  <1>2. CASE step \in 1 .. 20
    BY <1>1, <1>2, WhatIsDone
  <1>3. CASE step \notin 1 .. 20
    BY <1>1, <1>3
  <1> QED
    BY <1>2, <1>3

-----------------------------------------------------------------------------
(* The inductive invariant                                                 *)

Features == Input!Features
AtFirst == {"irq1", "keyboard"}
WithMouse == {"irq1", "keyboard", "mouse"}

(* The controller, except for whether there is a mouse. *)
Ctl(taking, expects, config, reporting) ==
  /\ ctl.taking = taking /\ ctl.expects = expects
  /\ ctl.config = config /\ ctl.reporting = reporting
Idle(expects, config, reporting) == Ctl(Input!Nothing, expects, config, reporting)
None == Input!None

(* What waits behind port 0x60: nothing, or one answer. *)
Silent == port = <<>>
Answer(line, value) ==
  port # <<>> /\ Head(port) = [line |-> line, value |-> value] /\ Tail(port) = <<>>
Acknowledged == ctl.attached /\ Answer(12, {"irq12"})

Bytes == [line : {1, 12}, value : SUBSET Features]

(* What the devices are doing when the program is about to make a step. *)
Stage7 == Silent /\ Idle(None, AtFirst, FALSE)
Stage8 ==
  /\ Silent
  /\ Ctl(Input!Command("A8"), None, AtFirst, FALSE) \/ Idle(None, WithMouse, FALSE)
Stage9 ==
  \/ Silent /\ Ctl(Input!Command("20"), None, WithMouse, FALSE)
  \/ Answer(1, WithMouse) /\ Idle(None, WithMouse, FALSE)
Stage10 == Silent /\ status = Features /\ Idle(None, WithMouse, FALSE)
Stage11 ==
  /\ Silent /\ status = Features
  /\ Ctl(Input!Command("60"), None, WithMouse, FALSE) \/ Idle("60", WithMouse, FALSE)
Stage12 ==
  /\ Silent
  /\ Ctl(Input!Data(Features), "60", WithMouse, FALSE) \/ Idle(None, Features, FALSE)
Stage13 ==
  /\ Silent
  /\ Ctl(Input!Command("D4"), None, Features, FALSE) \/ Idle("D4", Features, FALSE)
Stage14 ==
  \/ Silent /\ Ctl(Input!Data("F6"), "D4", Features, FALSE)
  \/ (Silent \/ Acknowledged) /\ Idle(None, Features, FALSE)
Stage15 == Silent /\ ctl.attached /\ Idle(None, Features, FALSE)
Stage16 == ctl.attached /\ Stage13
Stage17 ==
  /\ ctl.attached
  /\ \/ Silent /\ Ctl(Input!Data("F4"), "D4", Features, FALSE)
     \/ Acknowledged /\ Idle(None, Features, TRUE)
Stage18 == Silent /\ Idle(None, Features, TRUE)
Stage19 ==
  /\ Idle(None, Features, TRUE) /\ port \in Seq(Bytes)
  /\ port # <<>> => Head(port).line \in irr \cap {1, 12}
  /\ {1, 12} \subseteq open

Stage ==
  /\ DOMAIN ctl = {"taking", "expects", "config", "reporting", "attached"}
  /\ ctl.attached \in BOOLEAN
  /\ step \in 1 .. 7 => Stage7
  /\ step = 8 => Stage8
  /\ step = 9 => Stage9
  /\ step = 10 => Stage10
  /\ step = 11 => Stage11
  /\ step = 12 => Stage12
  /\ step = 13 => Stage13
  /\ step = 14 => Stage14
  /\ step = 15 => Stage15
  /\ step = 16 => Stage16
  /\ step = 17 => Stage17
  /\ step = 18 => Stage18
  /\ step > 18 => Stage19

(* The gates and the table are there from their steps on, and the devices  *)
(* are at the stage of the program as long as nobody touched them early.   *)
HeardInv ==
  /\ step \in 0 .. 21
  /\ step > 4 => 1 \in gates
  /\ step > 5 => 12 \in gates
  /\ step > 6 => idtr
  /\ ~early => Stage

-----------------------------------------------------------------------------
(* Preservation                                                            *)

(* Commands and data are what they are made of, and are something.         *)
LEMMA Values ==
  /\ \A c : /\ Input!Command(c).to = "command" /\ Input!Command(c).value = c
            /\ Input!Command(c) # Input!Nothing
            /\ Input!Data(c).to = "data" /\ Input!Data(c).value = c
            /\ Input!Data(c) # Input!Nothing
  BY DEF Input!Command, Input!Data, Input!Nothing

(* A byte that comes to an empty queue.                                    *)
LEMMA FirstByte ==
  ASSUME NEW b
  PROVE  /\ Append(<<>>, b) # <<>> /\ Head(Append(<<>>, b)) = b
         /\ Tail(Append(<<>>, b)) = <<>>
         /\ Head(<<b>>) = b /\ <<b>> # <<>>
  OBVIOUS

(* The processor starts with an empty table, the controller idle.          *)
LEMMA InitHeard ==
  ASSUME Init
  PROVE  HeardInv
  <1>1. /\ step = 1 /\ port = <<>> /\ early = FALSE
        /\ \E attached \in BOOLEAN :
             ctl = [taking |-> Input!Nothing, expects |-> Input!None,
                    config |-> {"irq1", "keyboard"}, reporting |-> FALSE,
                    attached |-> attached]
    BY DEF Init, Input!Init
  <1>2. Stage7 /\ DOMAIN ctl = {"taking", "expects", "config", "reporting", "attached"}
        /\ ctl.attached \in BOOLEAN
    BY <1>1 DEF Stage7, Silent, Idle, Ctl, AtFirst, None
  <1> QED
    BY <1>1, <1>2 DEF HeardInv, Stage

(* The program asks or tells the controller something.                     *)
LEMMA WriteStep ==
  ASSUME HeardInv, Input!Write
  PROVE  HeardInv'
  <1>1. /\ step \in {7, 8, 10, 12, 13, 15, 16} /\ ctl.taking = Input!Nothing
        /\ ctl' = [ctl EXCEPT !.taking = Input!Script[step]]
        /\ step' = step + 1 /\ status' = status /\ gates' = gates /\ idtr' = idtr
        /\ open' = open /\ port' = port /\ irr' = irr /\ early' = early
    BY AtSteps DEF Input!Write, Input!Waits, Input!out8, Input!Advance
  <1>2. /\ step' \in 0 .. 21 /\ (step' > 4 => 1 \in gates')
        /\ (step' > 5 => 12 \in gates') /\ (step' > 6 => idtr')
    BY <1>1 DEF HeardInv
  <1>3. SUFFICES ASSUME ~early PROVE Stage'
    BY <1>1, <1>2 DEF HeardInv
  <1>4. Stage
    BY <1>3 DEF HeardInv
  <1>5. /\ ctl'.taking = Input!Script[step] /\ ctl'.expects = ctl.expects
        /\ ctl'.config = ctl.config /\ ctl'.reporting = ctl.reporting
        /\ ctl'.attached = ctl.attached /\ ctl'.attached \in BOOLEAN
        /\ DOMAIN ctl' = {"taking", "expects", "config", "reporting", "attached"}
    BY <1>1, <1>4 DEF Stage
  <1>6. Silent' <=> Silent
    BY <1>1 DEF Silent
  <1>7. CASE step = 7
    <2>1. Input!Script[step] = Input!Command("A8")
      BY <1>7, ScriptSteps
    <2>2. Stage7
      BY <1>4, <1>7 DEF Stage
    <2>3. Stage8'
      BY <1>1, <1>5, <1>6, <2>1, <2>2 DEF Stage7, Stage8, Idle, Ctl
    <2> QED
      BY <1>1, <1>5, <1>7, <2>3 DEF Stage
  <1>8. CASE step = 8
    <2>1. Input!Script[step] = Input!Command("20")
      BY <1>8, ScriptSteps
    <2>2. Stage8
      BY <1>4, <1>8 DEF Stage
    <2>3. Stage9'
      BY <1>1, <1>5, <1>6, <2>1, <2>2, Values DEF Stage8, Stage9, Idle, Ctl
    <2> QED
      BY <1>1, <1>5, <1>8, <2>3 DEF Stage
  <1>9. CASE step = 10
    <2>1. Input!Script[step] = Input!Command("60")
      BY <1>9, ScriptSteps
    <2>2. Stage10
      BY <1>4, <1>9 DEF Stage
    <2>3. Stage11'
      BY <1>1, <1>5, <1>6, <2>1, <2>2 DEF Stage10, Stage11, Idle, Ctl
    <2> QED
      BY <1>1, <1>5, <1>9, <2>3 DEF Stage
  <1>10. CASE step = 12
    <2>1. Input!Script[step] = Input!Command("D4")
      BY <1>10, ScriptSteps
    <2>2. Stage12
      BY <1>4, <1>10 DEF Stage
    <2>3. Stage13'
      BY <1>1, <1>5, <1>6, <2>1, <2>2, Values DEF Stage12, Stage13, Idle, Ctl
    <2> QED
      BY <1>1, <1>5, <1>10, <2>3 DEF Stage
  <1>11. CASE step = 13
    <2>1. Input!Script[step] = Input!Data("F6")
      BY <1>11, ScriptSteps
    <2>2. Stage13
      BY <1>4, <1>11 DEF Stage
    <2>3. Stage14'
      BY <1>1, <1>5, <1>6, <2>1, <2>2, Values DEF Stage13, Stage14, Idle, Ctl
    <2> QED
      BY <1>1, <1>5, <1>11, <2>3 DEF Stage
  <1>12. CASE step = 15
    <2>1. Input!Script[step] = Input!Command("D4")
      BY <1>12, ScriptSteps
    <2>2. Stage15
      BY <1>4, <1>12 DEF Stage
    <2>3. Stage16'
      BY <1>1, <1>5, <1>6, <2>1, <2>2 DEF Stage15, Stage16, Stage13, Idle, Ctl
    <2> QED
      BY <1>1, <1>5, <1>12, <2>3 DEF Stage
  <1>13. CASE step = 16
    <2>1. Input!Script[step] = Input!Data("F4")
      BY <1>13, ScriptSteps
    <2>2. Stage16
      BY <1>4, <1>13 DEF Stage
    <2>3. Stage17'
      BY <1>1, <1>5, <1>6, <2>1, <2>2, Values DEF Stage16, Stage17, Stage13, Idle, Ctl
    <2> QED
      BY <1>1, <1>5, <1>13, <2>3 DEF Stage
  <1> QED
    BY <1>1, <1>7, <1>8, <1>9, <1>10, <1>11, <1>12, <1>13

(* What the stages look at. *)
heardVars == <<step, status, gates, idtr, port, ctl, irr, open, early>>

(* Build, boot sector and file system do not touch any of it.              *)
LEMMA UnmovedStep ==
  ASSUME HeardInv, UNCHANGED heardVars
  PROVE  HeardInv'
  <1>1. /\ step' = step /\ status' = status /\ gates' = gates /\ idtr' = idtr
        /\ port' = port /\ ctl' = ctl /\ irr' = irr /\ open' = open /\ early' = early
    BY DEF heardVars
  <1>2. /\ Stage7' = Stage7 /\ Stage8' = Stage8 /\ Stage9' = Stage9
        /\ Stage10' = Stage10 /\ Stage11' = Stage11 /\ Stage12' = Stage12
    BY <1>1 DEF Stage7, Stage8, Stage9, Stage10, Stage11, Stage12, Silent, Idle, Ctl,
                Answer
  <1>3. /\ Stage13' = Stage13 /\ Stage14' = Stage14 /\ Stage15' = Stage15
        /\ Stage16' = Stage16 /\ Stage17' = Stage17 /\ Stage18' = Stage18
        /\ Stage19' = Stage19
    BY <1>1 DEF Stage13, Stage14, Stage15, Stage16, Stage17, Stage18, Stage19, Silent,
                Idle, Ctl, Answer, Acknowledged
  <1>4. Stage => Stage'
    BY <1>1, <1>2, <1>3 DEF Stage
  <1> QED
    BY <1>1, <1>4 DEF HeardInv

(* A panic is the end of it.                                               *)
LEMMA PanicStep ==
  ASSUME HeardInv, step' = 0, UNCHANGED <<early, ctl>>
  PROVE  HeardInv'
  BY DEF HeardInv, Stage

(* Waiting for the controller, or the assertion after 100000 times.        *)
LEMMA PollStep ==
  ASSUME HeardInv, Input!Poll
  PROVE  HeardInv'
  <1>1. step' = step \/ step' = 0
    BY DEF Input!Poll, Input!Panic
  <1>2. /\ status' = status /\ gates' = gates /\ idtr' = idtr /\ port' = port
        /\ ctl' = ctl /\ irr' = irr /\ open' = open /\ early' = early
    BY DEF Input!Poll, Input!devVars
  <1> QED
    BY <1>1, <1>2, UnmovedStep, PanicStep DEF heardVars

(* The new configuration goes to the controller.                           *)
LEMMA WriteStatusStep ==
  ASSUME HeardInv, Input!WriteStatus
  PROVE  HeardInv'
  <1>1. /\ step = 11 /\ ctl.taking = Input!Nothing
        /\ ctl' = [ctl EXCEPT !.taking = Input!Data(status)]
        /\ step' = 12 /\ gates' = gates /\ idtr' = idtr /\ port' = port /\ early' = early
    BY AtSteps DEF Input!WriteStatus, Input!Waits, Input!out8, Input!Advance
  <1>2. SUFFICES ASSUME ~early PROVE Stage'
    BY <1>1 DEF HeardInv
  <1>3. Stage
    BY <1>2 DEF HeardInv
  <1>4. /\ ctl'.taking = Input!Data(status) /\ ctl'.expects = ctl.expects
        /\ ctl'.config = ctl.config /\ ctl'.reporting = ctl.reporting
        /\ ctl'.attached = ctl.attached /\ ctl'.attached \in BOOLEAN
        /\ DOMAIN ctl' = {"taking", "expects", "config", "reporting", "attached"}
    BY <1>1, <1>3 DEF Stage
  <1>5. Stage11
    BY <1>1, <1>3 DEF Stage
  <1>6. Stage12'
    BY <1>1, <1>4, <1>5, Values DEF Stage11, Stage12, Silent, Idle, Ctl, Features
  <1> QED
    BY <1>1, <1>4, <1>6 DEF Stage

(* The old configuration is read, and irq 12 added.                        *)
LEMMA ReadStatusStep ==
  ASSUME HeardInv, Input!ReadStatus
  PROVE  HeardInv'
  <1>1. /\ step = 9 /\ port # <<>> /\ port' = Tail(port)
        /\ status' = Head(port).value \cup {"irq12"} /\ ctl' = ctl
        /\ step' = 10 /\ gates' = gates /\ idtr' = idtr /\ early' = early
    BY AtSteps DEF Input!ReadStatus, Input!Waits, Input!in8, Input!Advance
  <1>2. SUFFICES ASSUME ~early PROVE Stage'
    BY <1>1 DEF HeardInv
  <1>3. Stage
    BY <1>2 DEF HeardInv
  <1>4. Stage9
    BY <1>1, <1>3 DEF Stage
  <1>5. status' = Features
    <2>1. Head(port).value = WithMouse
      <3>1. ~Silent
        BY <1>1 DEF Silent
      <3>2. Answer(1, WithMouse)
        BY <1>4, <3>1 DEF Stage9
      <3> QED
        BY <3>2 DEF Answer
    <2>2. WithMouse \cup {"irq12"} = Features
      BY DEF WithMouse, Features, Input!Features
    <2> QED
      BY <1>1, <2>1, <2>2
  <1>6. Stage10'
    BY <1>1, <1>4, <1>5 DEF Stage9, Stage10, Silent, Answer, Idle, Ctl, Features
  <1> QED
    BY <1>1, <1>3, <1>6 DEF Stage

(* An answer of the mouse is read.                                         *)
LEMMA ReadStep ==
  ASSUME HeardInv, Input!Read
  PROVE  HeardInv'
  <1>1. /\ step \in {14, 17} /\ port # <<>> /\ port' = Tail(port) /\ ctl' = ctl
        /\ step' = step + 1 /\ gates' = gates /\ idtr' = idtr /\ early' = early
    BY AtSteps DEF Input!Read, Input!Waits, Input!in8, Input!Advance
  <1>2. SUFFICES ASSUME ~early PROVE Stage'
    BY <1>1 DEF HeardInv
  <1>3. Stage
    BY <1>2 DEF HeardInv
  <1>4. CASE step = 14
    <2>1. Stage14
      BY <1>3, <1>4 DEF Stage
    <2>2. Stage15'
      BY <1>1, <2>1 DEF Stage14, Stage15, Silent, Acknowledged, Answer, Idle, Ctl, Features
    <2> QED
      BY <1>1, <1>3, <1>4, <2>2 DEF Stage
  <1>5. CASE step = 17
    <2>1. Stage17
      BY <1>3, <1>5 DEF Stage
    <2>2. Stage18'
      BY <1>1, <2>1 DEF Stage17, Stage18, Silent, Acknowledged, Answer, Idle, Ctl, Features
    <2> QED
      BY <1>1, <1>3, <1>5, <2>2 DEF Stage
  <1> QED
    BY <1>1, <1>4, <1>5

(* Compilation, registration and the table of gates: the devices are left  *)
(* alone.                                                                  *)
LEMMA RegisterStep ==
  ASSUME HeardInv, Input!Compile \/ Input!Register \/ Input!Gate \/ Input!Lidt
  PROVE  HeardInv'
  <1>1. /\ step \in 1 .. 6 /\ ctl' = ctl /\ port' = port /\ early' = early
        /\ step' \in {0, step + 1}
        /\ step = 4 /\ step' # 0 => 1 \in gates'
        /\ step = 5 /\ step' # 0 => 12 \in gates'
        /\ step = 6 => idtr'
        /\ gates \subseteq gates'
    BY AtSteps DEF Input!Compile, Input!Register, Input!Gate, Input!Lidt, Input!devVars,
                   Input!Advance, Input!Panic
  <1>2. CASE step' = 0
    BY <1>1, <1>2, PanicStep
  <1>3. CASE step' = step + 1
    <2>1. /\ step' \in 0 .. 21 /\ (step' > 4 => 1 \in gates')
          /\ (step' > 5 => 12 \in gates') /\ (step' > 6 => idtr')
      BY <1>1, <1>3 DEF HeardInv
    <2>2. SUFFICES ASSUME ~early PROVE Stage'
      BY <1>1, <2>1 DEF HeardInv
    <2>3. Stage
      BY <2>2 DEF HeardInv
    <2>4. Stage7'
      BY <1>1, <2>3 DEF Stage, Stage7, Silent, Idle, Ctl, AtFirst
    <2> QED
      BY <1>1, <1>3, <2>3, <2>4 DEF Stage
  <1> QED
    BY <1>1, <1>2, <1>3

(* The interrupt controllers are set up, and interrupts let in.            *)
LEMMA PicStep ==
  ASSUME HeardInv, Input!PicInit \/ Input!SetMask \/ Input!Sti
  PROVE  HeardInv'
  <1>1. /\ step \in 18 .. 20 /\ ctl' = ctl /\ port' = port /\ early' = early
        /\ step' = step + 1 /\ gates' = gates /\ idtr' = idtr
        /\ step = 18 => open' = 0 .. 15
        /\ step = 19 => irr' = irr /\ open' = {1, 2, 12}
        /\ step = 20 => irr' = irr /\ open' = open
    BY AtSteps DEF Input!PicInit, Input!SetMask, Input!Sti, Input!devVars, Input!Advance
  <1>2. SUFFICES ASSUME ~early PROVE Stage'
    BY <1>1 DEF HeardInv
  <1>3. Stage
    BY <1>2 DEF HeardInv
  <1>4. Stage19'
    <2>1. CASE step = 18
      <3>1. Stage18
        BY <1>3, <2>1 DEF Stage
      <3>2. port' = <<>> /\ port' \in Seq(Bytes) /\ {1, 12} \subseteq open'
        BY <1>1, <2>1, <3>1 DEF Stage18, Silent
      <3> QED
        BY <1>1, <3>1, <3>2 DEF Stage18, Stage19, Idle, Ctl, Features
    <2>2. CASE step # 18
      <3>1. Stage19
        BY <1>1, <1>3, <2>2 DEF Stage
      <3>2. irr' = irr /\ {1, 12} \subseteq open'
        BY <1>1, <2>2, <3>1 DEF Stage19
      <3> QED
        BY <1>1, <3>1, <3>2 DEF Stage19, Idle, Ctl, Features, Bytes
    <2> QED
      BY <2>1, <2>2
  <1> QED
    BY <1>1, <1>3, <1>4 DEF Stage

(* A key or the mouse: too early, or announced on an open line.            *)
LEMMA TouchedStep ==
  ASSUME HeardInv, Input!KeyPressed \/ Input!MouseMoved
  PROVE  HeardInv'
  <1>1. PICK byte \in Bytes : Input!Arrive(byte)
    <2>1. KeyCodes \subseteq SUBSET Features
      BY BootAssumption DEF Input!Parameters, Features
    <2> QED
      BY <2>1 DEF Input!KeyPressed, Input!MouseMoved, Bytes
  <1>2. /\ step' = step /\ gates' = gates /\ idtr' = idtr /\ ctl' = ctl /\ open' = open
        /\ ~(step > 20)
        /\ early' = (early \/ \E k \in DOMAIN Input!Script :
                                k >= step /\ Input!Script[k].do = "pic")
    BY ScriptSteps DEF Input!KeyPressed, Input!MouseMoved, Input!Input, Input!Running
  <1>3. SUFFICES ASSUME ~early' PROVE Stage'
    BY <1>2 DEF HeardInv
  <1>4. ~early /\ step \in 19 .. 20
    <2>1. 18 \in DOMAIN Input!Script /\ Input!Script[18].do = "pic"
      BY WhatIsDone
    <2>2. ~early /\ ~(18 >= step)
      BY <1>2, <1>3, <2>1
    <2>3. step \in 0 .. 21
      BY DEF HeardInv
    <2> QED
      BY <1>2, <2>2, <2>3
  <1>5. Stage /\ Stage19
    BY <1>4 DEF HeardInv, Stage
  <1>6. /\ port' = Append(port, byte)
        /\ irr' = irr \cup (IF port = <<>> THEN Input!Raised(<<byte>>, ctl.config) ELSE {})
    BY <1>1 DEF Input!Arrive
  <1>7. port' \in Seq(Bytes)
    BY <1>5, <1>6 DEF Stage19
  <1>8. Head(port').line \in irr' \cap {1, 12}
    <2>1. CASE port = <<>>
      <3>1. Head(port') = byte
        BY <1>6, <2>1, FirstByte
      <3>2. Input!Raised(<<byte>>, ctl.config) = {byte.line}
        <4>1. ctl.config = Input!Features /\ byte.line \in {1, 12}
          BY <1>5 DEF Stage19, Idle, Ctl, Features, Bytes
        <4>2. <<byte>> # <<>> /\ Head(<<byte>>) = byte
          BY FirstByte
        <4> QED
          BY <4>1, <4>2 DEF Input!Raised, Input!Features, Input!Lines
      <3> QED
        BY <1>6, <2>1, <3>1, <3>2 DEF Bytes
    <2>2. CASE port # <<>>
      <3>1. Head(port') = Head(port)
        BY <1>5, <1>6, <2>2 DEF Stage19
      <3> QED
        BY <1>5, <1>6, <2>2, <3>1 DEF Stage19
    <2> QED
      BY <2>1, <2>2
  <1>9. Stage19'
    BY <1>2, <1>5, <1>7, <1>8 DEF Stage19, Idle, Ctl, Features
  <1> QED
    BY <1>2, <1>4, <1>5, <1>9 DEF Stage

(* The controller takes what it was told, and answers.                     *)
LEMMA ControllerStep ==
  ASSUME HeardInv, Input!ControllerWorks
  PROVE  HeardInv'
  <1>1. /\ step' = step /\ status' = status /\ gates' = gates /\ idtr' = idtr
        /\ open' = open /\ early' = early /\ ctl.taking # Input!Nothing
    BY DEF Input!ControllerWorks
  <1>2. SUFFICES ASSUME ~early PROVE Stage'
    BY <1>1 DEF HeardInv
  <1>3. Stage /\ step \in 0 .. 21
    BY <1>2 DEF HeardInv
  <1>4. \E expects, config, reporting : Input!Took(expects, config, reporting)
    BY DEF Input!ControllerWorks
  <1>5. /\ ctl'.attached = ctl.attached /\ ctl'.attached \in BOOLEAN
        /\ DOMAIN ctl' = {"taking", "expects", "config", "reporting", "attached"}
    BY <1>3, <1>4 DEF Stage, Input!Took
  <1>6. ASSUME NEW e, NEW c, NEW r, Input!Took(e, c, r)
        PROVE  Idle(e, c, r)'
    BY <1>3, <1>6 DEF Stage, Input!Took, Idle, Ctl
  <1>7. CASE step = 8
    <2>1. Stage8
      BY <1>3, <1>7 DEF Stage
    <2>2. Silent /\ Ctl(Input!Command("A8"), None, AtFirst, FALSE)
      BY <1>1, <2>1 DEF Stage8, Idle, Ctl
    <2>3. Input!Took(None, ctl.config \cup {"mouse"}, ctl.reporting) /\ port' = port
      BY <2>2, Values DEF Input!ControllerWorks, Ctl, None, Input!None
    <2>4. ctl.config \cup {"mouse"} = WithMouse /\ ctl.reporting = FALSE
      BY <2>2 DEF Ctl, AtFirst, WithMouse
    <2>5. Idle(None, WithMouse, FALSE)'
      BY <1>6, <2>3, <2>4
    <2>6. Stage8'
      BY <2>2, <2>3, <2>5 DEF Stage8, Silent, Idle
    <2> QED
      BY <1>1, <1>5, <1>7, <2>6 DEF Stage
  <1>8. CASE step = 9
    <2>1. Stage9
      BY <1>3, <1>8 DEF Stage
    <2>2. Silent /\ Ctl(Input!Command("20"), None, WithMouse, FALSE)
      BY <1>1, <2>1 DEF Stage9, Idle, Ctl
    <2>3. /\ Input!Took(None, ctl.config, ctl.reporting)
          /\ Input!Arrive([line |-> 1, value |-> ctl.config])
      BY <2>2, Values DEF Input!ControllerWorks, Ctl, None, Input!None
    <2>4. ctl.config = WithMouse /\ ctl.reporting = FALSE
      BY <2>2 DEF Ctl
    <2>5. Idle(None, WithMouse, FALSE)'
      BY <1>6, <2>3, <2>4
    <2>6. Answer(1, WithMouse)'
      BY <2>2, <2>3, <2>4, FirstByte DEF Input!Arrive, Silent, Answer
    <2>7. Stage9'
      BY <2>5, <2>6 DEF Stage9
    <2> QED
      BY <1>1, <1>5, <1>8, <2>7 DEF Stage
  <1>9. CASE step = 11
    <2>1. Stage11
      BY <1>3, <1>9 DEF Stage
    <2>2. /\ Silent /\ status = Features
          /\ Ctl(Input!Command("60"), None, WithMouse, FALSE)
      BY <1>1, <2>1 DEF Stage11, Idle, Ctl
    <2>3. Input!Took("60", ctl.config, ctl.reporting) /\ port' = port
      BY <2>2, Values DEF Input!ControllerWorks, Ctl, None, Input!None
    <2>4. ctl.config = WithMouse /\ ctl.reporting = FALSE
      BY <2>2 DEF Ctl
    <2>5. Idle("60", WithMouse, FALSE)'
      BY <1>6, <2>3, <2>4
    <2>6. Stage11'
      BY <1>1, <2>2, <2>3, <2>5 DEF Stage11, Silent, Idle
    <2> QED
      BY <1>1, <1>5, <1>9, <2>6 DEF Stage
  <1>10. CASE step = 12
    <2>1. Stage12
      BY <1>3, <1>10 DEF Stage
    <2>2. Silent /\ Ctl(Input!Data(Features), "60", WithMouse, FALSE)
      BY <1>1, <2>1 DEF Stage12, Idle, Ctl
    <2>t. /\ ctl.taking.to = "data" /\ ctl.taking.value = Features
          /\ ctl.expects = "60"
      BY <2>2, Values DEF Ctl
    <2>3. Input!Took(None, Features, ctl.reporting) /\ port' = port
      BY <2>t DEF Input!ControllerWorks, None
    <2>4. ctl.reporting = FALSE
      BY <2>2 DEF Ctl
    <2>5. Idle(None, Features, FALSE)'
      BY <1>6, <2>3, <2>4
    <2>6. Stage12'
      BY <2>2, <2>3, <2>5 DEF Stage12, Silent, Idle
    <2> QED
      BY <1>1, <1>5, <1>10, <2>6 DEF Stage
  <1>11. ASSUME Stage13 PROVE Stage13'
    <2>1. Silent /\ Ctl(Input!Command("D4"), None, Features, FALSE)
      BY <1>1, <1>11 DEF Stage13, Idle, Ctl
    <2>2. Input!Took("D4", ctl.config, ctl.reporting) /\ port' = port
      BY <2>1, Values DEF Input!ControllerWorks, Ctl, None, Input!None
    <2>3. ctl.config = Features /\ ctl.reporting = FALSE
      BY <2>1 DEF Ctl
    <2>4. Idle("D4", Features, FALSE)'
      BY <1>6, <2>2, <2>3
    <2> QED
      BY <2>1, <2>2, <2>4 DEF Stage13, Silent, Idle
  <1>12. CASE step = 13
    <2>1. Stage13'
      BY <1>3, <1>11, <1>12 DEF Stage
    <2> QED
      BY <1>1, <1>5, <1>12, <2>1 DEF Stage
  <1>13. CASE step = 14
    <2>1. Stage14
      BY <1>3, <1>13 DEF Stage
    <2>2. Silent /\ Ctl(Input!Data("F6"), "D4", Features, FALSE)
      BY <1>1, <2>1 DEF Stage14, Idle, Ctl
    <2>t. /\ ctl.taking.to = "data" /\ ctl.taking.value = "F6"
          /\ ctl.expects = "D4"
      BY <2>2, Values DEF Ctl
    <2>3. /\ Input!Took(None, ctl.config, ctl.attached /\ ctl.taking.value = "F4")
          /\ \/ ctl.attached /\ Input!Arrive([line |-> 12, value |-> {"irq12"}])
             \/ ~ctl.attached /\ port' = port
      BY <2>t DEF Input!ControllerWorks, None
    <2>4. ctl.config = Features
      BY <2>2 DEF Ctl
    <2>5. /\ ctl'.taking = Input!Nothing /\ ctl'.expects = None
          /\ ctl'.config = Features
          /\ ctl'.reporting = (ctl.attached /\ ctl.taking.value = "F4")
      BY <1>3, <2>3, <2>4 DEF Stage, Input!Took
    <2>6. Idle(None, Features, FALSE)'
      BY <1>3, <2>2, <2>5, <2>t DEF Idle, Ctl, Stage
    <2>7. (Silent \/ Acknowledged)'
      BY <1>5, <2>2, <2>3, FirstByte DEF Input!Arrive, Silent, Answer, Acknowledged
    <2>8. Stage14'
      BY <2>6, <2>7 DEF Stage14
    <2> QED
      BY <1>1, <1>5, <1>13, <2>8 DEF Stage
  <1>14. CASE step = 16
    <2>1. Stage16
      BY <1>3, <1>14 DEF Stage
    <2>2. Stage16'
      BY <1>5, <1>11, <2>1 DEF Stage16
    <2> QED
      BY <1>1, <1>5, <1>14, <2>2 DEF Stage
  <1>15. CASE step = 17
    <2>1. Stage17
      BY <1>3, <1>15 DEF Stage
    <2>2. ctl.attached /\ Silent /\ Ctl(Input!Data("F4"), "D4", Features, FALSE)
      BY <1>1, <2>1 DEF Stage17, Idle, Ctl
    <2>t. /\ ctl.taking.to = "data" /\ ctl.taking.value = "F4"
          /\ ctl.expects = "D4"
      BY <2>2, Values DEF Ctl
    <2>3. /\ Input!Took(None, ctl.config, ctl.attached /\ ctl.taking.value = "F4")
          /\ \/ ctl.attached /\ Input!Arrive([line |-> 12, value |-> {"irq12"}])
             \/ ~ctl.attached /\ port' = port
      BY <2>t DEF Input!ControllerWorks, None
    <2>4. ctl.config = Features
      BY <2>2 DEF Ctl
    <2>5. /\ ctl'.taking = Input!Nothing /\ ctl'.expects = None
          /\ ctl'.config = Features
          /\ ctl'.reporting = (ctl.attached /\ ctl.taking.value = "F4")
      BY <1>3, <2>3, <2>4 DEF Stage, Input!Took
    <2>6. Idle(None, Features, TRUE)'
      BY <1>3, <2>2, <2>5, <2>t DEF Idle, Ctl, Stage
    <2>7. Acknowledged'
      BY <1>5, <2>2, <2>3, FirstByte DEF Input!Arrive, Silent, Answer, Acknowledged
    <2>8. Stage17'
      BY <1>5, <2>2, <2>6, <2>7 DEF Stage17
    <2> QED
      BY <1>1, <1>5, <1>15, <2>8 DEF Stage
  <1>16. CASE step = 0
    BY <1>1, <1>5, <1>16 DEF Stage
  <1>17. step \notin (1 .. 7) \cup {10, 15} /\ ~(step > 17)
    <2>1. ASSUME Stage7 \/ Stage10 \/ Stage15 \/ Stage18 \/ Stage19 PROVE FALSE
      BY <1>1, <2>1 DEF Stage7, Stage10, Stage15, Stage18, Stage19, Idle, Ctl
    <2> QED
      BY <1>3, <2>1 DEF Stage
  <1> QED
    BY <1>3, <1>7, <1>8, <1>9, <1>10, <1>12, <1>13, <1>14, <1>15, <1>16, <1>17

-----------------------------------------------------------------------------
(* Every step of the system preserves the invariant.                       *)
LEMMA HeardStep ==
  ASSUME HeardInv, [Next]_vars
  PROVE  HeardInv'
  <1>1. CASE UNCHANGED inputVars
    BY <1>1, UnmovedStep DEF inputVars, heardVars
  <1>2. CASE Input!Program
    BY <1>2, WriteStep, PollStep, WriteStatusStep, ReadStatusStep, ReadStep, RegisterStep,
       PicStep DEF Input!Program
  <1>3. CASE Input!ControllerWorks
    BY <1>3, ControllerStep
  <1>4. CASE Input!KeyPressed \/ Input!MouseMoved
    BY <1>4, TouchedStep
  <1>5. Next => Input!Program \/ Input!ControllerWorks \/ Input!KeyPressed
                  \/ Input!MouseMoved \/ UNCHANGED inputVars
    BY DEF Next, Program, Build, ReadTrack, Jump, LoadVfs, Unpacked, SetUp, Controller,
           Touched
  <1>6. UNCHANGED vars => UNCHANGED inputVars
    BY DEF vars, inputVars
  <1> QED
    BY <1>1, <1>2, <1>3, <1>4, <1>5, <1>6

(* From the first sti on the devices send, and a byte that waits is        *)
(* announced by a request on an open line that has a gate, unless keyboard *)
(* or mouse was touched while kmain set the controllers up.                *)
THEOREM HeardAlways == Spec => []InputIsHeard
  <1>1. Init => HeardInv
    BY InitHeard
  <1>2. HeardInv /\ [Next]_vars => HeardInv'
    BY HeardStep
  <1>3. HeardInv => InputIsHeard
    <2> SUFFICES ASSUME HeardInv, Input!Running, ~early
                 PROVE  Input!Heard
      BY DEF InputIsHeard, Input!InputIsHeard
    <2>1. step = 21
      BY ScriptSteps DEF HeardInv, Input!Running
    <2>2. Stage19 /\ idtr /\ {1, 12} \subseteq gates
      BY <2>1 DEF HeardInv, Stage
    <2>3. ctl.config = Input!Features /\ ctl.reporting
      BY <2>2 DEF Stage19, Idle, Ctl, Features
    <2> QED
      BY <2>2, <2>3 DEF Stage19, Input!Heard
  <1> QED
    BY <1>1, <1>2, <1>3, PTL DEF Spec
-----------------------------------------------------------------------------
(* The boot sector                                                         *)

TrackBytes == PerTrack * SectorSize

(* How many bytes the turns so far have read: the first is a sector short. *)
Covered == IF cnt = 0 THEN 0 ELSE cnt * TrackBytes - SectorSize

(* What the registers say about the next turn: it goes on where the last   *)
(* one stopped, in memory as on the disk.                                  *)
Registers ==
  /\ cnt \in 0 .. Turns /\ head = cnt
  /\ \/ /\ cnt = 0 /\ sector = 2 /\ sectors = PerTrack - 1
        /\ osegment * Paragraph = SectorSize
        /\ toadd * Paragraph = TrackBytes - SectorSize
     \/ /\ cnt > 0 /\ sector = 1 /\ sectors = PerTrack
        /\ osegment * Paragraph = cnt * TrackBytes
        /\ toadd * Paragraph = TrackBytes
  /\ osegment \in Nat /\ toadd \in Nat

(* Unless a read failed, memory is the disk behind the boot sector, as far *)
(* as it was read.                                                         *)
InMemory ==
  /\ DOMAIN memory = 0 .. Capacity - 1
  /\ failures \in Nat
  /\ failures = 0 => \A a \in DOMAIN memory : a < Covered => memory[a] = Disk[a + SectorSize]

LoaderInv ==
  /\ tree \in Trees /\ image \in Seq(Int)
  /\ stage = "boot" => Registers /\ InMemory
  /\ pc = "pack" => stage = "boot" /\ cnt = 0
  /\ pc = "done" => stage = "kernel"
  /\ KernelArrives

(* Tracks and sectors in bytes and paragraphs.                             *)
LEMMA Geometry ==
  /\ SectorSize \in Nat \ {0} /\ PerTrack \in Nat \ {0} /\ Turns \in Nat \ {0}
  /\ TrackBytes \in Nat /\ SectorSize <= TrackBytes
  /\ Capacity = Turns * TrackBytes - SectorSize
  /\ (Turns + 1) * PerTrack * SectorSize = Turns * TrackBytes + TrackBytes
  /\ (PerTrack - 1) * SectorSize = TrackBytes - SectorSize
  /\ TrackSize \in Nat /\ TrackSize * Paragraph = TrackBytes
  /\ \A n \in Nat : (n * PerTrack) * SectorSize = n * TrackBytes
  <1>1. /\ SectorSize \in Nat \ {0} /\ PerTrack \in Nat \ {0} /\ Turns \in Nat \ {0}
        /\ SectorSize % 16 = 0
    BY BootAssumption DEF Paragraph
  <1>2. PICK q \in Nat : SectorSize = 16 * q
    BY <1>1
  <1>3. TrackBytes \in Nat
    BY <1>1 DEF TrackBytes
  <1>4. TrackBytes = 16 * (PerTrack * q) /\ PerTrack * q \in Nat
    BY <1>1, <1>2 DEF TrackBytes
  <1>5. (PerTrack - 1) * SectorSize = TrackBytes - SectorSize
    BY <1>1 DEF TrackBytes
  <1>6. SectorSize <= TrackBytes
    <2>1. (PerTrack - 1) * SectorSize >= 0
      BY <1>1
    <2> QED
      BY <1>1, <1>3, <1>5, <2>1
  <1>7. \A n \in Nat : (n * PerTrack) * SectorSize = n * TrackBytes
    BY <1>1 DEF TrackBytes
  <1>8. Capacity = Turns * TrackBytes - SectorSize
    <2>1. (Turns * PerTrack - 1) * SectorSize = (Turns * PerTrack) * SectorSize - SectorSize
      BY <1>1
    <2> QED
      BY <1>1, <1>7, <2>1 DEF Capacity
  <1>9. (Turns + 1) * PerTrack * SectorSize = Turns * TrackBytes + TrackBytes
    <2>1. ((Turns + 1) * PerTrack) * SectorSize = (Turns + 1) * TrackBytes
      BY <1>1, <1>7
    <2>2. (Turns + 1) * TrackBytes = Turns * TrackBytes + TrackBytes
      BY <1>1, <1>3
    <2> QED
      BY <2>1, <2>2
  <1>10. TrackSize = PerTrack * q
    <2>1. \A n \in Nat : (16 * n) \div 16 = n
      OBVIOUS
    <2> QED
      BY <1>4, <2>1 DEF TrackSize, TrackBytes, Paragraph
  <1>11. TrackSize \in Nat /\ TrackSize * Paragraph = TrackBytes
    <2>1. TrackSize * 16 = 16 * TrackSize
      BY <1>4, <1>10
    <2> QED
      BY <1>4, <1>10, <2>1 DEF Paragraph
  <1> QED
    BY <1>1, <1>3, <1>5, <1>6, <1>7, <1>8, <1>9, <1>11

(* Before the first turn.                                                  *)
LEMMA InitLoader ==
  ASSUME Init
  PROVE  LoaderInv
  <1>1. /\ cnt = 0 /\ sectors = PerTrack - 1 /\ sector = 2 /\ head = 0 /\ failures = 0
        /\ osegment = SectorSize \div 16
        /\ toadd = ((PerTrack - 1) * SectorSize) \div 16
        /\ memory = [a \in 0 .. Capacity - 1 |-> Junk]
        /\ stage = "boot" /\ tree \in Trees /\ image = <<>> /\ pc = "pack"
    BY DEF Init, Files!Init, KernelStart, Paragraph
  <1>2. PICK q \in Nat : SectorSize = 16 * q
    BY BootAssumption DEF Paragraph
  <1>3. osegment \in Nat /\ osegment * 16 = SectorSize
    BY <1>1, <1>2
  <1>4. toadd \in Nat /\ toadd * 16 = TrackBytes - SectorSize
    <2>1. PICK n \in Nat : TrackBytes = 16 * n
      BY Geometry DEF Paragraph
    <2>2. TrackBytes - SectorSize = 16 * (n - q) /\ n - q \in Nat
      BY <1>2, <2>1, Geometry
    <2>3. \A k \in Nat : (16 * k) \div 16 = k
      OBVIOUS
    <2>4. toadd = n - q
      BY <1>1, <2>2, <2>3, Geometry
    <2> QED
      BY <2>2, <2>4
  <1>5. Registers
    BY <1>1, <1>3, <1>4, Geometry DEF Registers, Paragraph
  <1>6. InMemory
    <2>1. DOMAIN memory = 0 .. Capacity - 1
      BY <1>1
    <2>2. \A a \in DOMAIN memory : ~(a < Covered)
      BY <1>1, <2>1, Geometry DEF Covered
    <2> QED
      BY <1>1, <2>1, <2>2 DEF InMemory
  <1> QED
    BY <1>1, <1>5, <1>6 DEF LoaderInv, KernelArrives

(* A sequence over a set is one over any that has the set in it.           *)
LEMMA WiderSeq ==
  ASSUME NEW A, NEW B, A \subseteq B, NEW s \in Seq(A)
  PROVE  s \in Seq(B)
  OBVIOUS

(* Names are bytes, and so paths are sequences of such sequences.          *)
LEMMA NamesAre == Seq(Files!Names) \subseteq Seq(Seq(1 .. 255))
  <1>1. 1 .. 255 \ {Files!Slash} \subseteq 1 .. 255
    OBVIOUS
  <1>2. Files!Names \subseteq Seq(1 .. 255)
    BY <1>1, WiderSeq DEF Files!Names
  <1> QED
    BY <1>2, WiderSeq

(* Bytes, and the bytes of names, are integers.                            *)
LEMMA BytesAre ==
  /\ \A s \in Seq(1 .. 255) : s \in Seq(Int)
  /\ \A s \in Seq(0 .. 255) : s \in Seq(Int)
  <1> DEFINE V == 1 .. 255
             W == 0 .. 255
  <1>1. V \subseteq Int /\ W \subseteq Int
    OBVIOUS
  <1> HIDE DEF V, W
  <1>2. \A s \in Seq(V) : s \in Seq(Int)
    BY <1>1, WiderSeq
  <1>3. \A s \in Seq(W) : s \in Seq(Int)
    BY <1>1, WiderSeq
  <1> QED
    BY <1>2, <1>3 DEF V, W

(* What the packer adds is bytes, and nothing is read while it works.      *)
LEMMA BuildLoader ==
  ASSUME LoaderInv, Build
  PROVE  LoaderInv'
  <1>1. /\ pc = "pack" /\ tree' = tree
        /\ stage' = stage /\ cnt' = cnt /\ head' = head /\ sector' = sector
        /\ sectors' = sectors /\ osegment' = osegment /\ toadd' = toadd
        /\ memory' = memory /\ failures' = failures
    BY DEF Build, Files!Pack, Files!PackEntry, Files!EndDir, bootVars
  <1>2. image' \in Seq(Int)
    <2>1. ASSUME NEW q \in Files!Paths(tree), Files!PackEntry(q) PROVE image' \in Seq(Int)
      <3>1. q \in Seq(Seq(1 .. 255)) /\ q # <<>>
        BY BootAssumption, NamesAre DEF LoaderInv, Files!Top, Files!Packable
      <3>2. Files!Last(q) \in Seq(Int)
        <4>1. Files!Last(q) \in Seq(1 .. 255)
          BY <3>1 DEF Files!Last
        <4> QED
          BY <4>1, BytesAre
      <3>3. /\ <<Files!D>> \in Seq(Int) /\ <<Files!F>> \in Seq(Int) /\ <<Files!NUL>> \in Seq(Int)
        BY DEF Files!D, Files!F, Files!NUL
      <3>4. CASE q \in tree.dirs /\ image' = image \o (<<Files!D>> \o Files!Last(q) \o <<Files!NUL>>)
        BY <3>2, <3>3, <3>4 DEF LoaderInv
      <3>5. CASE /\ q \notin tree.dirs
                 /\ image' = image \o (<<Files!F>> \o Files!Last(q) \o <<Files!NUL>>)
                               \o Files!SizeBytes(Len(tree.files[q])) \o tree.files[q]
        <4>1. q \in DOMAIN tree.files
          BY <2>1, <3>5 DEF Files!Paths
        <4>2. tree.files[q] \in Seq(Int)
          <5>1. tree.files[q] \in Seq(0 .. 255)
            BY <4>1, BootAssumption DEF LoaderInv, Files!Packable
          <5> QED
            BY <5>1, BytesAre
        <4>3. Files!SizeBytes(Len(tree.files[q])) \in Seq(Int)
          BY <4>2 DEF Files!SizeBytes
        <4> QED
          BY <3>2, <3>3, <3>5, <4>2, <4>3 DEF LoaderInv
      <3> QED
        BY <2>1, <3>4, <3>5 DEF Files!PackEntry
    <2>2. CASE Files!EndDir
      BY <2>2 DEF Files!EndDir, Files!P, LoaderInv
    <2> QED
      BY <2>1, <2>2 DEF Build, Files!Pack
  <1>3. stage = "boot" /\ cnt = 0 /\ Registers /\ InMemory
    BY <1>1 DEF LoaderInv
  <1>4. Registers'
    BY <1>1, <1>3 DEF Registers
  <1>5. InMemory'
    <2>1. DOMAIN memory' = 0 .. Capacity - 1 /\ failures' \in Nat /\ Covered' = 0
      BY <1>1, <1>3 DEF InMemory, Covered
    <2>2. \A a \in DOMAIN memory' : ~(a < 0)
      BY <2>1, Geometry
    <2> QED
      BY <2>1, <2>2 DEF InMemory, Capacity
  <1>6. pc' # "done"
    BY <1>1 DEF Build, Files!Pack, Files!PackEntry, Files!EndDir
  <1> QED
    BY <1>1, <1>2, <1>3, <1>4, <1>5, <1>6 DEF LoaderInv, KernelArrives

(* A turn reads what is behind the last one, or nothing.                   *)
LEMMA ReadLoader ==
  ASSUME LoaderInv, ReadTrack
  PROVE  LoaderInv'
  <1>1. /\ Registers /\ InMemory /\ stage = "boot" /\ pc = "load" /\ cnt < Turns
        /\ stage' = stage /\ pc' = pc /\ tree' = tree /\ image' = image
        /\ sectors' = PerTrack /\ sector' = 1 /\ head' = head + 1 /\ cnt' = cnt + 1
        /\ osegment' = osegment + toadd /\ toadd' = TrackSize
    BY DEF ReadTrack, LoaderInv, imageVars, NextSegment
  <1>2. cnt \in Nat /\ head = cnt /\ osegment \in Nat /\ toadd \in Nat /\ cnt + 1 \in 0 .. Turns
    BY <1>1, Geometry DEF Registers
  <1>3. /\ cnt * TrackBytes \in Nat
        /\ (cnt + 1) * TrackBytes = cnt * TrackBytes + TrackBytes
        /\ cnt > 0 => cnt * TrackBytes >= TrackBytes
    <2>1. cnt > 0 => cnt * TrackBytes = (cnt - 1) * TrackBytes + TrackBytes
                       /\ (cnt - 1) * TrackBytes >= 0
      BY <1>2, Geometry
    <2> QED
      BY <1>2, <2>1, Geometry
  <1>4. Registers'
    <2>1. (osegment + toadd) * 16 = osegment * 16 + toadd * 16
      BY <1>2
    <2>2. osegment * 16 + toadd * 16 = (cnt + 1) * TrackBytes
      BY <1>1, <1>2, <1>3, Geometry DEF Registers, Paragraph
    <2>3. TrackBytes' = TrackBytes
      BY DEF TrackBytes
    <2>4. toadd' * Paragraph = TrackBytes /\ toadd' \in Nat
      BY <1>1, Geometry
    <2> QED
      BY <1>1, <1>2, <2>1, <2>2, <2>3, <2>4 DEF Registers, Paragraph
  <1> DEFINE from == (head * PerTrack + sector - 1) * SectorSize
             to == osegment * Paragraph - KernelStart
             size == sectors * SectorSize
             disk == Disk
  <1>5. to = Covered /\ from = to + SectorSize /\ to + size = Covered' /\ Covered \in Nat
    <2>1. Covered' = (cnt + 1) * TrackBytes - SectorSize
      BY <1>1, <1>2 DEF Covered, TrackBytes
    <2>2. CASE cnt = 0
      <3>1. sector = 2 /\ sectors = PerTrack - 1 /\ osegment * Paragraph = SectorSize
        BY <1>1, <2>2 DEF Registers
      <3>2. head * PerTrack + sector - 1 = 1
        BY <1>2, <2>2, <3>1, Geometry
      <3>3. from = SectorSize /\ to = 0
        BY <3>1, <3>2, Geometry DEF KernelStart
      <3>4. size = TrackBytes - SectorSize
        BY <3>1, Geometry
      <3> QED
        BY <1>3, <2>1, <2>2, <3>3, <3>4, Geometry DEF Covered
    <2>3. CASE cnt > 0
      <3>1. sector = 1 /\ sectors = PerTrack /\ osegment * Paragraph = cnt * TrackBytes
        BY <1>1, <2>3 DEF Registers
      <3>2. head * PerTrack + sector - 1 = cnt * PerTrack
        BY <1>2, <3>1, Geometry
      <3>3. from = cnt * TrackBytes
        BY <1>2, <3>2, Geometry
      <3>4. to = cnt * TrackBytes - SectorSize /\ size = TrackBytes
        BY <3>1 DEF KernelStart, TrackBytes
      <3> QED
        BY <1>3, <2>1, <2>3, <3>3, <3>4, Geometry DEF Covered
    <2> QED
      BY <1>2, <2>2, <2>3
  <1>6. \/ /\ memory' = [a \in DOMAIN memory |->
                IF a \in to .. to + size - 1 THEN disk[from + a - to] ELSE memory[a]]
           /\ failures' = failures
        \/ failures' = failures + 1 /\ memory' = memory
    BY DEF ReadTrack
  <1>7. Disk' = Disk /\ Capacity' = Capacity
    BY <1>1 DEF Disk, Kernel, Capacity
  <1>8. InMemory'
    <2>1. DOMAIN memory' = 0 .. Capacity - 1 /\ failures' \in Nat
      BY <1>1, <1>6 DEF InMemory
    <2>2. ASSUME failures' = 0, NEW a \in DOMAIN memory', a < Covered'
          PROVE  memory'[a] = Disk[a + SectorSize]
      <3>1. a \in DOMAIN memory /\ a \in Nat
        BY <1>1, <2>1, Geometry DEF InMemory
      <3>2. failures = 0 /\ memory'[a] = IF a \in to .. to + size - 1 THEN disk[from + a - to]
                                         ELSE memory[a]
        BY <1>1, <1>6, <2>2, <3>1 DEF InMemory
      <3> HIDE DEF from, to, size, disk
      <3>3. CASE a < Covered
        <4>1. a \notin to .. to + size - 1
          BY <1>5, <3>1, <3>3
        <4> QED
          BY <1>1, <3>1, <3>2, <3>3, <4>1 DEF InMemory
      <3>4. CASE a >= Covered
        <4>1. to \in Nat /\ size \in Int
          BY <1>1, <1>5, Geometry DEF Registers, size
        <4>2. a \in to .. to + size - 1
          BY <1>5, <2>2, <3>1, <3>4, <4>1
        <4>3. from + a - to = a + SectorSize
          BY <1>5, <3>1, <4>1, Geometry
        <4> QED
          BY <3>2, <4>2, <4>3 DEF disk
      <3> QED
        BY <1>5, <3>1, <3>3, <3>4
    <2> QED
      BY <1>7, <2>1, <2>2 DEF InMemory
  <1> QED
    BY <1>1, <1>4, <1>8 DEF LoaderInv, KernelArrives

(* When the last turn is over, a kernel that fits is there as it was       *)
(* linked.                                                                 *)
LEMMA JumpLoader ==
  ASSUME LoaderInv, Jump
  PROVE  LoaderInv'
  <1>1. /\ stage = "boot" /\ cnt = Turns /\ Registers /\ InMemory
        /\ UNCHANGED <<imageVars, bootVars>>
        /\ \/ stage' = "kernel"
           \/ ~Whole /\ stage' = "lost"
    BY DEF Jump, LoaderInv
  <1>2. Fits /\ failures = 0 => Whole
    <2> SUFFICES ASSUME Fits, failures = 0 PROVE Kernel = [k \in DOMAIN Kernel |-> memory[k - 1]]
      BY DEF Whole
    <2>1. Kernel \in Seq(Int)
      <3>1. \A n \in Nat : Times(n, KernelByte) \in Seq(Int)
        BY DEF Times, KernelByte
      <3>2. Times(CodeSize, KernelByte) \in Seq(Int) /\ Times(ConstSize, KernelByte) \in Seq(Int)
        BY <3>1, BootAssumption
      <3>3. image \in Seq(Int)
        BY DEF LoaderInv
      <3>4. \A s, t, u \in Seq(Int) : s \o t \o u \in Seq(Int)
        OBVIOUS
      <3> QED
        BY <3>2, <3>3, <3>4 DEF Kernel
    <2>2. Len(Kernel) \in Nat /\ DOMAIN Kernel = 1 .. Len(Kernel) /\ Len(Kernel) <= Capacity
      BY <2>1 DEF Fits
    <2>3. Covered = Capacity /\ Capacity \in Int
      BY <1>1, Geometry DEF Covered
    <2>4. ASSUME NEW k \in DOMAIN Kernel PROVE Kernel[k] = memory[k - 1]
      <3>1. k \in Nat /\ k >= 1 /\ k <= Capacity
        BY <2>2, <2>3
      <3>2. k - 1 \in DOMAIN memory /\ k - 1 < Covered
        BY <1>1, <2>3, <3>1 DEF InMemory
      <3>3. memory[k - 1] = Disk[(k - 1) + SectorSize]
        BY <1>1, <3>2 DEF InMemory
      <3>4. /\ (k - 1) + SectorSize \in 0 .. (Turns + 1) * PerTrack * SectorSize
            /\ ((k - 1) + SectorSize) - SectorSize + 1 = k
        <4>1. /\ (Turns + 1) * PerTrack * SectorSize = Turns * TrackBytes + TrackBytes
              /\ Capacity = Turns * TrackBytes - SectorSize
              /\ SectorSize \in Nat /\ TrackBytes \in Nat /\ Turns * TrackBytes \in Nat
          BY Geometry
        <4> QED
          BY <3>1, <4>1
      <3>5. Disk[(k - 1) + SectorSize] = Kernel[k]
        <4> DEFINE i == (k - 1) + SectorSize
        <4>1. Disk = [j \in 0 .. (Turns + 1) * PerTrack * SectorSize |->
                        IF j - SectorSize + 1 \in DOMAIN Kernel
                        THEN Kernel[j - SectorSize + 1] ELSE KernelByte]
          BY DEF Disk
        <4>2. Disk[i] = IF i - SectorSize + 1 \in DOMAIN Kernel
                        THEN Kernel[i - SectorSize + 1] ELSE KernelByte
          BY <3>4, <4>1
        <4> QED
          BY <3>4, <4>2
      <3> QED
        BY <3>3, <3>5
    <2>5. Kernel = [k \in DOMAIN Kernel |-> Kernel[k]]
      BY <2>1
    <2> QED
      BY <2>4, <2>5
  <1>3. stage' = "lost" => ~Fits \/ failures # 0
    BY <1>1, <1>2
  <1>4. failures \in Nat /\ (failures # 0 => failures > 0)
    BY <1>1 DEF InMemory
  <1>5. Fits' <=> Fits
    BY <1>1 DEF Fits, Kernel, imageVars, Capacity
  <1>6. pc # "pack"
    BY <1>1, Geometry DEF LoaderInv
  <1>7. KernelArrives'
    BY <1>1, <1>3, <1>4, <1>5 DEF KernelArrives, bootVars
  <1> QED
    BY <1>1, <1>6, <1>7 DEF LoaderInv, imageVars

(* Afterwards the image is read and forgotten, and only in the kernel.     *)
LEMMA KernelLoader ==
  ASSUME LoaderInv, LoadVfs \/ Unpacked
  PROVE  LoaderInv'
  <1>1. /\ stage = "kernel" /\ stage' = stage /\ tree' = tree
        /\ image' = image \/ image' = <<>>
    BY DEF LoaderInv, LoadVfs, Unpacked, Files!Load, Files!LoadReturn, Files!LoadDir,
           Files!LoadFile, Files!LoadTooLong
  <1>2. pc' # "pack"
    BY <1>1 DEF LoaderInv, LoadVfs, Unpacked, Files!Load, Files!LoadReturn, Files!LoadDir,
           Files!LoadFile, Files!LoadTooLong
  <1>3. tree' \in Trees /\ image' \in Seq(Int)
    <2>1. <<>> \in Seq(Int)
      OBVIOUS
    <2> QED
      BY <1>1, <2>1 DEF LoaderInv
  <1>4. stage' # "boot" /\ stage' # "lost"
    BY <1>1
  <1>5. KernelArrives'
    BY <1>4 DEF KernelArrives
  <1> QED
    BY <1>1, <1>2, <1>3, <1>4, <1>5 DEF LoaderInv

(* Everything else leaves the loader alone.                                *)
LEMMA SameLoader ==
  ASSUME LoaderInv, UNCHANGED <<imageVars, stage, bootVars>>
  PROVE  LoaderInv'
  <1>1. /\ pc' = pc /\ tree' = tree /\ image' = image /\ stage' = stage
        /\ memory' = memory /\ failures' = failures /\ cnt' = cnt /\ sectors' = sectors
        /\ sector' = sector /\ head' = head /\ osegment' = osegment /\ toadd' = toadd
    BY DEF imageVars, bootVars
  <1>2. Disk' = Disk /\ (Fits' <=> Fits)
    BY <1>1 DEF Disk, Fits, Kernel
  <1>3. Registers => Registers'
    BY <1>1 DEF Registers
  <1>4. InMemory => InMemory'
    BY <1>1, <1>2 DEF InMemory, Covered
  <1> QED
    BY <1>1, <1>2, <1>3, <1>4 DEF LoaderInv, KernelArrives

(* KernelArrives: the boot sector enters a kernel with a part missing only *)
(* when it is longer than what the loop reads, or a read failed.           *)
THEOREM ArrivesAlways == Spec => []KernelArrives
  <1>1. Init => LoaderInv
    BY InitLoader
  <1>2. LoaderInv /\ [Next]_vars => LoaderInv'
    <2> SUFFICES ASSUME LoaderInv, [Next]_vars PROVE LoaderInv'
      OBVIOUS
    <2>1. CASE Build
      BY <2>1, BuildLoader
    <2>2. CASE ReadTrack
      BY <2>2, ReadLoader
    <2>3. CASE Jump
      BY <2>3, JumpLoader
    <2>4. CASE LoadVfs \/ Unpacked
      BY <2>4, KernelLoader
    <2>5. CASE SetUp \/ Controller \/ Touched \/ UNCHANGED vars
      BY <2>5, SameLoader DEF SetUp, Controller, Touched, InKmain, vars
    <2> QED
      BY <2>1, <2>2, <2>3, <2>4, <2>5 DEF Next, Program
  <1>3. LoaderInv => KernelArrives
    BY DEF LoaderInv
  <1> QED
    BY <1>1, <1>2, <1>3, PTL DEF Spec

-----------------------------------------------------------------------------
(* The image                                                               *)

(* What the packer writes, from an offset of img on.                       *)
Text(img, from, s) == \A i \in 1 .. Len(s) : img[from + i] = s[i]
Named(img, mark, from, s) ==
  /\ img[from + 1] = mark /\ Text(img, from + 1, s)
  /\ img[from + Len(s) + 2] = Files!NUL

(* A piece of the image, from what was before it to what is behind it: the *)
(* offset, the directories that are open, and of the piece its mark and    *)
(* the path that it is about.                                              *)
Path == Seq(Seq(1 .. 255))
Piece == [at : Nat, calls : Seq(Path), mark : {Files!D, Files!F, Files!P}, path : Path]

Enters(img, a, b) ==
  LET name == Files!Last(b.path) IN
  /\ b.mark = Files!D /\ b.path \in tree.dirs /\ Files!Front(b.path) = Files!Last(a.calls)
  /\ b.calls = Append(a.calls, b.path)
  /\ Named(img, Files!D, a.at, name)
  /\ b.at = a.at + Len(name) + 2

Holds(img, a, b) ==
  LET name == Files!Last(b.path)
      from == a.at + Len(name) + 2
      bytes == tree.files[b.path] IN
  /\ b.mark = Files!F /\ b.path \in DOMAIN tree.files
  /\ Files!Front(b.path) = Files!Last(a.calls)
  /\ b.calls = a.calls
  /\ Named(img, Files!F, a.at, name)
  /\ Text(img, from, Files!SizeBytes(Len(bytes))) /\ Text(img, from + 4, bytes)
  /\ b.at = from + 4 + Len(bytes)

Leaves(img, a, b) ==
  /\ b.mark = Files!P /\ Len(a.calls) > 1
  /\ b.calls = Files!Front(a.calls)
  /\ img[a.at + 1] = Files!P
  /\ b.at = a.at + 1

Follows(img, a, b) == Enters(img, a, b) \/ Holds(img, a, b) \/ Leaves(img, a, b)

(* The paths of the first k pieces.                                        *)
Seen(tr, k) == {tr[m].path : m \in {i \in 1 .. k : tr[i].mark # Files!P}}

(* The directories that are open are one in another.                       *)
Nested(nest, seen) ==
  /\ Len(nest) >= 1
  /\ \A j \in 1 .. Len(nest) : /\ Len(nest[j]) = j - 1
                               /\ nest[j] \in {Files!Top} \cup (seen \cap tree.dirs)

(* The image is the pieces 1 to n of tr, no path twice.                    *)
Trail(img, n, tr) ==
  /\ n \in Nat /\ tr \in [0 .. n -> Piece] /\ img \in Seq(Int)
  /\ tr[0].at = 0 /\ tr[0].calls = <<Files!Top>> /\ tr[n].at = Len(img)
  /\ \A i \in 1 .. n : Follows(img, tr[i - 1], tr[i])
  /\ \A i \in 1 .. n : tr[i].mark # Files!P => tr[i].path \notin Seen(tr, i - 1)
  /\ \A i \in 0 .. n : tr[i].at <= Len(img) /\ Nested(tr[i].calls, Seen(tr, i))

(* The packer has left of every open directory what it has not seen, and   *)
(* of the others nothing.                                                  *)
ToScan(stack, nest, seen) ==
  /\ stack \in Seq([path : Path, left : SUBSET Path])
  /\ Len(stack) = Len(nest)
  /\ \A j \in 1 .. Len(nest) :
       stack[j].path = nest[j] /\ stack[j].left = Files!Entries(tree, nest[j]) \ seen
Scanned(d, seen) == Files!Entries(tree, d) \subseteq seen
Behind(nest, seen) ==
  \A d \in {Files!Top} \cup (seen \cap tree.dirs) :
    (\E j \in 1 .. Len(nest) : nest[j] = d) \/ Scanned(d, seen)
Scanning(stack, nest, seen) == ToScan(stack, nest, seen) /\ Behind(nest, seen)

(* What was seen is in the tree, and so is the directory it is in.         *)
Closed(seen) ==
  /\ seen \subseteq Files!Paths(tree)
  /\ \A q \in seen : Files!Front(q) \in {Files!Top} \cup seen

Packed(img, n, tr) == Trail(img, n, tr) /\ Closed(Seen(tr, n))
BeingPacked(img, stack) ==
  \E n, tr : Packed(img, n, tr) /\ Scanning(stack, tr[n].calls, Seen(tr, n))

(* The loader stands behind the first k pieces, and what they are about is *)
(* in the file system.                                                     *)
Stored(seen) ==
  [q \in {Files!Top} \cup seen |->
     IF q \in DOMAIN tree.files THEN tree.files[q] ELSE <<>>]
Complete(n, tr) ==
  /\ Len(tr[n].calls) = 1
  /\ \A d \in {Files!Top} \cup (Seen(tr, n) \cap tree.dirs) : Scanned(d, Seen(tr, n))
Loads(n, tr, k) ==
  /\ k \in 0 .. n /\ p = tr[k].at /\ calls = tr[k].calls /\ store = Stored(Seen(tr, k))
BeingLoaded == \E n, tr, k : Packed(image, n, tr) /\ Complete(n, tr) /\ Loads(n, tr, k)

ImageInv ==
  /\ tree \in Trees
  /\ pc = "pack" => /\ BeingPacked(image, dirs)
                    /\ p = 0 /\ calls = <<Files!Top>> /\ store = Stored({})
  /\ pc = "load" => BeingLoaded
  /\ pc = "done" => store = Files!Contents(tree)
  /\ pc = "overrun" => Files!TooLong(tree)

(* All components but the last, and the last.                              *)
LEMMA FrontFacts ==
  \A X : \A s \in Seq(X) : s # <<>> =>
    /\ Files!Front(s) \in Seq(X) /\ Len(s) \in Nat \ {0}
    /\ Len(Files!Front(s)) = Len(s) - 1
    /\ \A k \in 1 .. Len(s) - 1 : Files!Front(s)[k] = s[k]
    /\ Files!Last(s) = s[Len(s)] /\ Files!Last(s) \in X
    /\ s = Append(Files!Front(s), Files!Last(s))
  <1> TAKE X
  <1> TAKE s \in Seq(X)
  <1> HAVE s # <<>>
  <1> DEFINE n == Len(s) - 1
             f == SubSeq(s, 1, n)
  <1>1. Files!Front(s) = f /\ Files!Last(s) = s[Len(s)]
    BY DEF Files!Front, Files!Last
  <1>2. Len(s) \in Nat \ {0} /\ n \in Nat
    OBVIOUS
  <1>3. \A i \in 1 .. Len(s) : s[i] \in X
    OBVIOUS
  <1> HIDE DEF n
  <1>4. Len(s) = n + 1 /\ Len(s) - 1 = n
    BY <1>2 DEF n
  <1>5. \A i \in 1 .. n : s[i] \in X
    BY <1>2, <1>3, <1>4
  <1>6. /\ f \in Seq(X)
        /\ Len(f) = IF 1 <= n THEN n - 1 + 1 ELSE 0
        /\ \A i \in 1 .. n - 1 + 1 : f[i] = s[1 + i - 1]
    BY <1>2, <1>5, SubSeqProperties
  <1> HIDE DEF f
  <1>7. Len(f) = n
    BY <1>2, <1>6
  <1>8. \A i \in 1 .. n : f[i] = s[i]
    BY <1>2, <1>6
  <1>9. s[Len(s)] \in X
    BY <1>2, <1>3
  <1>10. s = Append(f, s[Len(s)])
    <2> DEFINE t == Append(f, s[Len(s)])
    <2>1. t \in Seq(X) /\ Len(t) = n + 1 /\ t[n + 1] = s[Len(s)]
      BY <1>6, <1>7, <1>9
    <2>2. \A i \in 1 .. n : t[i] = f[i]
      BY <1>6, <1>7
    <2> HIDE DEF t
    <2>3. \A i \in 1 .. n + 1 : i = n + 1 \/ i \in 1 .. n
      BY <1>2
    <2>4. \A i \in 1 .. Len(t) : t[i] = s[i]
      BY <1>4, <1>8, <2>1, <2>2, <2>3
    <2> QED
      BY <1>4, <2>1, <2>4, SeqEqual DEF t
  <1> QED
    BY <1>1, <1>2, <1>4, <1>6, <1>7, <1>8, <1>9, <1>10

(* What a tree that can be packed is.                                      *)
LEMMA PathsAre ==
  ASSUME tree \in Trees
  PROVE  /\ \A q \in Files!Paths(tree) :
              /\ q \in Path /\ q # Files!Top /\ Len(q) \in Nat \ {0}
              /\ Files!Last(q) \in Seq(1 .. 255)
              /\ Files!Front(q) \in Path /\ Len(Files!Front(q)) = Len(q) - 1
              /\ q = Append(Files!Front(q), Files!Last(q))
              /\ Files!Front(q) \in {Files!Top} \cup tree.dirs
         /\ \A q \in Files!Paths(tree) : q \notin tree.dirs <=> q \in DOMAIN tree.files
         /\ tree.dirs \subseteq Files!Paths(tree) /\ DOMAIN tree.files \subseteq Files!Paths(tree)
         /\ \A q \in DOMAIN tree.files :
              tree.files[q] \in Seq(0 .. 255) /\ Len(tree.files[q]) <= Files!MaxSize
         /\ Files!Top \in Path /\ Len(Files!Top) = 0
  <1>1. Files!Packable(tree)
    BY BootAssumption
  <1>2. ASSUME NEW q \in Files!Paths(tree)
        PROVE  /\ q \in Path /\ q # Files!Top /\ Len(q) \in Nat \ {0}
               /\ Files!Last(q) \in Seq(1 .. 255)
               /\ Files!Front(q) \in Path /\ Len(Files!Front(q)) = Len(q) - 1
               /\ q = Append(Files!Front(q), Files!Last(q))
               /\ Files!Front(q) \in {Files!Top} \cup tree.dirs
    <2> DEFINE V == Seq(1 .. 255)
    <2>1. q \in Seq(V) /\ q # <<>> /\ (Len(q) = 1 \/ Files!Front(q) \in tree.dirs)
      BY <1>1, NamesAre DEF Files!Packable, Files!Top
    <2>2. Path = Seq(V)
      BY DEF Path
    <2> HIDE DEF V
    <2>3. /\ Len(q) \in Nat \ {0} /\ Files!Last(q) \in V
          /\ Files!Front(q) \in Seq(V) /\ Len(Files!Front(q)) = Len(q) - 1
          /\ q = Append(Files!Front(q), Files!Last(q))
      BY <2>1, FrontFacts
    <2>4. Len(q) = 1 => Files!Front(q) = <<>>
      BY <2>3
    <2> QED
      BY <2>1, <2>2, <2>3, <2>4 DEF Files!Top, V
  <1>3. \A q \in Files!Paths(tree) : q \notin tree.dirs <=> q \in DOMAIN tree.files
    BY <1>1 DEF Files!Packable, Files!Paths
  <1>4. tree.dirs \subseteq Files!Paths(tree) /\ DOMAIN tree.files \subseteq Files!Paths(tree)
    BY DEF Files!Paths
  <1>5. \A q \in DOMAIN tree.files :
              tree.files[q] \in Seq(0 .. 255) /\ Len(tree.files[q]) <= Files!MaxSize
    BY <1>1 DEF Files!Packable
  <1>6. Files!Top \in Path /\ Len(Files!Top) = 0
    BY DEF Files!Top, Path
  <1> QED
    BY <1>2, <1>3, <1>4, <1>5, <1>6

(* The entries of a directory are the paths that lead on from it.          *)
LEMMA EntriesAre ==
  ASSUME tree \in Trees, NEW d \in Path
  PROVE  \A q : q \in Files!Entries(tree, d) <=> q \in Files!Paths(tree) /\ Files!Front(q) = d
  <1>1. \A q : q \in Files!Entries(tree, d) <=>
                /\ q \in Files!Paths(tree)
                /\ Len(q) = Len(d) + 1 /\ Files!IsPrefix(d, q)
    BY DEF Files!Entries
  <1>2. ASSUME NEW q \in Files!Paths(tree)
        PROVE  (Len(q) = Len(d) + 1 /\ Files!IsPrefix(d, q)) <=> Files!Front(q) = d
    <2> DEFINE V == Seq(1 .. 255)
    <2>1. q \in Seq(V) /\ d \in Seq(V) /\ Len(q) \in Nat \ {0} /\ Len(d) \in Nat
          /\ Len(Files!Front(q)) = Len(q) - 1
      BY PathsAre DEF Path
    <2> HIDE DEF V
    <2>2. SubSeq(d, 1, Len(d)) = d
      BY <2>1
    <2>3. Files!Front(q) = SubSeq(q, 1, Len(q) - 1)
      BY DEF Files!Front
    <2>4. Len(q) = Len(d) + 1 => Len(q) - 1 = Len(d) /\ Len(d) <= Len(q)
      BY <2>1
    <2>5. ASSUME Len(q) = Len(d) + 1 PROVE Files!IsPrefix(d, q) <=> Files!Front(q) = d
      BY <2>1, <2>2, <2>3, <2>4, <2>5 DEF Files!IsPrefix
    <2>6. Files!Front(q) = d => Len(q) = Len(d) + 1
      BY <2>1
    <2> QED
      BY <2>5, <2>6
  <1> QED
    BY <1>1, <1>2

(* img2 goes on where img ends.                                            *)
Continues(img2, img) == Len(img) <= Len(img2) /\ \A i \in 1 .. Len(img) : img2[i] = img[i]

(* A text stays where the image grows behind it.                           *)
LEMMA TextStays ==
  ASSUME NEW img \in Seq(Int), NEW img2 \in Seq(Int), Continues(img2, img),
         NEW s, NEW f \in Nat, Len(s) \in Nat, f + Len(s) <= Len(img), Text(img, f, s)
  PROVE  Text(img2, f, s)
  <1>1. ASSUME NEW i \in 1 .. Len(s) PROVE img2[f + i] = img[f + i]
    <2>1. Len(img) \in Nat
      OBVIOUS
    <2>2. f + i \in 1 .. Len(img)
      BY <2>1
    <2> QED
      BY <2>2 DEF Continues
  <1> QED
    BY <1>1 DEF Text

(* A name with its mark stays where the image grows behind it.             *)
LEMMA NamedStays ==
  ASSUME NEW img \in Seq(Int), NEW img2 \in Seq(Int), Continues(img2, img),
         NEW mark, NEW s, NEW f \in Nat, Len(s) \in Nat, f + Len(s) + 2 <= Len(img),
         Named(img, mark, f, s)
  PROVE  Named(img2, mark, f, s)
  <1>1. Len(img) \in Nat /\ \A i \in 1 .. Len(img) : img2[i] = img[i]
    BY DEF Continues
  <1>2. f + 1 \in 1 .. Len(img) /\ f + Len(s) + 2 \in 1 .. Len(img) /\ f + 1 \in Nat
        /\ (f + 1) + Len(s) <= Len(img)
    BY <1>1
  <1>3. Text(img, f + 1, s) /\ img[f + 1] = mark /\ img[f + Len(s) + 2] = Files!NUL
    BY DEF Named
  <1>4. Text(img2, f + 1, s)
    BY <1>2, <1>3, TextStays
  <1>5. img2[f + 1] = mark /\ img2[f + Len(s) + 2] = Files!NUL
    BY <1>1, <1>2, <1>3
  <1> QED
    BY <1>4, <1>5 DEF Named

(* How long the parts of a piece are.                                      *)
LEMMA PieceParts ==
  ASSUME tree \in Trees, NEW img, NEW a \in Piece, NEW b \in Piece
  PROVE  /\ Enters(img, a, b) => Files!Last(b.path) \in Seq(1 .. 255)
         /\ Holds(img, a, b) => /\ Files!Last(b.path) \in Seq(1 .. 255)
                                /\ tree.files[b.path] \in Seq(0 .. 255)
                                /\ Len(tree.files[b.path]) <= Files!MaxSize
                                /\ Len(Files!SizeBytes(Len(tree.files[b.path]))) = 4
         /\ a.at \in Nat /\ b.at \in Nat /\ a.calls \in Seq(Path) /\ b.calls \in Seq(Path)
  <1>1. Enters(img, a, b) => Files!Last(b.path) \in Seq(1 .. 255)
    BY PathsAre DEF Enters
  <1>2. Holds(img, a, b) => /\ Files!Last(b.path) \in Seq(1 .. 255)
                            /\ tree.files[b.path] \in Seq(0 .. 255)
                            /\ Len(tree.files[b.path]) <= Files!MaxSize
    BY PathsAre DEF Holds
  <1>3. \A k : Len(Files!SizeBytes(k)) = 4
    BY DEF Files!SizeBytes
  <1>4. a.at \in Nat /\ b.at \in Nat /\ a.calls \in Seq(Path) /\ b.calls \in Seq(Path)
    BY DEF Piece
  <1> QED
    BY <1>1, <1>2, <1>3, <1>4

(* A piece stays what it was when the image grows behind it.               *)
LEMMA PieceStays ==
  ASSUME tree \in Trees, NEW img \in Seq(Int), NEW img2 \in Seq(Int), Continues(img2, img),
         NEW a \in Piece, NEW b \in Piece, b.at <= Len(img), Follows(img, a, b)
  PROVE  Follows(img2, a, b)
  <1>1. a.at \in Nat /\ b.at \in Nat /\ Len(img) \in Nat /\ b.at <= Len(img)
    <2>1. a.at \in Nat /\ b.at \in Nat
      BY DEF Piece
    <2> QED
      BY <2>1
  <1>2. CASE Enters(img, a, b)
    <2>1. ASSUME NEW name, name = Files!Last(b.path) PROVE Named(img2, Files!D, a.at, name)
      <3>1. name \in Seq(1 .. 255)
        BY <1>2, <2>1, PieceParts
      <3>2. Len(name) \in Nat
        BY <3>1
      <3>3. b.at = a.at + Len(name) + 2 /\ Named(img, Files!D, a.at, name)
        BY <1>2, <2>1 DEF Enters
      <3>4. a.at + Len(name) + 2 <= Len(img)
        BY <3>3
      <3> QED
        BY <1>1, <3>2, <3>3, <3>4, NamedStays
    <2>2. Named(img2, Files!D, a.at, Files!Last(b.path))
      BY <2>1
    <2> QED
      BY <1>2, <2>2 DEF Enters, Follows
  <1>3. CASE Holds(img, a, b)
    <2>1. ASSUME NEW name, name = Files!Last(b.path),
                 NEW bytes, bytes = tree.files[b.path],
                 NEW from, from = a.at + Len(name) + 2
          PROVE  /\ Named(img2, Files!F, a.at, name)
                 /\ Text(img2, from, Files!SizeBytes(Len(bytes))) /\ Text(img2, from + 4, bytes)
      <3>1. /\ name \in Seq(1 .. 255) /\ bytes \in Seq(0 .. 255)
            /\ Len(Files!SizeBytes(Len(bytes))) = 4
        BY <1>3, <2>1, PieceParts
      <3>2. Len(name) \in Nat /\ Len(bytes) \in Nat
        BY <3>1
      <3>3. /\ b.at = from + 4 + Len(bytes) /\ Named(img, Files!F, a.at, name)
            /\ Text(img, from, Files!SizeBytes(Len(bytes))) /\ Text(img, from + 4, bytes)
        BY <1>3, <2>1 DEF Holds
      <3>4. from \in Nat /\ from + 4 \in Nat
        BY <1>1, <2>1, <3>2
      <3>5. /\ from + 4 <= Len(img) /\ (from + 4) + Len(bytes) <= Len(img)
            /\ a.at + Len(name) + 2 <= Len(img)
        <4>1. ASSUME NEW at \in Nat, NEW x \in Nat, NEW y \in Nat, NEW to \in Nat, NEW z \in Nat,
                     from = at + x + 2, to = from + 4 + y, to <= z
              PROVE  from + 4 <= z /\ (from + 4) + y <= z /\ at + x + 2 <= z
          BY <4>1
        <4> QED
          BY <1>1, <2>1, <3>2, <3>3, <4>1
      <3>6. Named(img2, Files!F, a.at, name)
        BY <1>1, <3>2, <3>3, <3>5, NamedStays
      <3>7. Text(img2, from + 4, bytes)
        BY <3>2, <3>3, <3>4, <3>5, TextStays
      <3>8. Text(img2, from, Files!SizeBytes(Len(bytes)))
        <4>1. ASSUME NEW s, Len(s) = 4, Text(img, from, s) PROVE Text(img2, from, s)
          <5>1. Len(s) \in Nat /\ from + Len(s) <= Len(img)
            BY <3>5, <4>1
          <5> QED
            BY <3>4, <4>1, <5>1, TextStays
        <4> QED
          BY <3>1, <3>3, <4>1
      <3> QED
        BY <3>6, <3>7, <3>8
    <2>2. /\ Named(img2, Files!F, a.at, Files!Last(b.path))
          /\ Text(img2, a.at + Len(Files!Last(b.path)) + 2,
                  Files!SizeBytes(Len(tree.files[b.path])))
          /\ Text(img2, a.at + Len(Files!Last(b.path)) + 2 + 4, tree.files[b.path])
      BY <2>1
    <2> QED
      BY <1>3, <2>2 DEF Holds, Follows
  <1>4. CASE Leaves(img, a, b)
    <2>1. a.at + 1 \in 1 .. Len(img)
      BY <1>1, <1>4 DEF Leaves
    <2>2. img2[a.at + 1] = img[a.at + 1]
      BY <2>1 DEF Continues
    <2> QED
      BY <1>4, <2>2 DEF Leaves, Follows
  <1> QED
    BY <1>2, <1>3, <1>4 DEF Follows

(* The paths seen after a piece.                                           *)
More(seen, b) == IF b.mark = Files!P THEN seen ELSE seen \cup {b.path}

(* Directories stay one in another.                                        *)
LEMMA StaysNested ==
  ASSUME tree \in Trees, NEW img, NEW seen, NEW a \in Piece, NEW b \in Piece,
         Nested(a.calls, seen), Follows(img, a, b)
  PROVE  Nested(b.calls, More(seen, b))
  <1> DEFINE n == Len(a.calls)
  <1>1. a.calls \in Seq(Path) /\ n \in Nat /\ n >= 1
        /\ seen \subseteq More(seen, b)
        /\ Files!D # Files!P /\ Files!F # Files!P
    BY DEF Piece, Nested, More, Files!D, Files!F, Files!P
  <1>2. a.calls # <<>>
    BY <1>1
  <1>3. Files!Last(a.calls) = a.calls[n] /\ Len(a.calls[n]) = n - 1
    <2>1. Files!Last(a.calls) = a.calls[n]
      BY <1>1, <1>2, FrontFacts
    <2>2. n \in 1 .. n
      BY <1>1
    <2> QED
      BY <2>1, <2>2 DEF Nested
  <1>4. CASE Enters(img, a, b)
    <2>1. /\ b.path \in Files!Paths(tree) /\ b.path \in tree.dirs /\ b.path \in Path
          /\ Files!Front(b.path) = a.calls[n] /\ b.calls = Append(a.calls, b.path)
          /\ b.path \in More(seen, b)
      BY <1>1, <1>3, <1>4, PathsAre DEF Enters, More
    <2>2. Len(b.path) = n
      <3>1. Len(b.path) \in Nat /\ Len(Files!Front(b.path)) = Len(b.path) - 1
        BY <2>1, PathsAre
      <3> QED
        BY <1>1, <1>3, <2>1, <3>1
    <2>3. Len(b.calls) = n + 1 /\ b.calls[n + 1] = b.path
          /\ \A j \in 1 .. n : b.calls[j] = a.calls[j]
      BY <1>1, <2>1
    <2>4. \A j \in 1 .. n + 1 : j = n + 1 \/ j \in 1 .. n
      BY <1>1
    <2>5. \A j \in 1 .. n + 1 : /\ Len(b.calls[j]) = j - 1
                                /\ b.calls[j] \in {Files!Top} \cup (More(seen, b) \cap tree.dirs)
      <3> TAKE j \in 1 .. n + 1
      <3>1. CASE j = n + 1
        BY <1>1, <2>1, <2>2, <2>3, <3>1
      <3>2. CASE j \in 1 .. n
        <4>1. Len(a.calls[j]) = j - 1 /\ a.calls[j] \in {Files!Top} \cup (seen \cap tree.dirs)
          BY <3>2 DEF Nested
        <4> QED
          BY <1>1, <2>3, <3>2, <4>1
      <3> QED
        BY <2>4, <3>1, <3>2
    <2> HIDE DEF n
    <2> QED
      BY <1>1, <2>3, <2>5 DEF Nested
  <1>5. CASE Holds(img, a, b)
    <2>1. b.calls = a.calls
      BY <1>5 DEF Holds
    <2> QED
      BY <1>1, <2>1 DEF Nested
  <1>6. CASE Leaves(img, a, b)
    <2>1. n > 1 /\ b.calls = Files!Front(a.calls)
      BY <1>6 DEF Leaves
    <2>2. Len(b.calls) = n - 1 /\ \A j \in 1 .. n - 1 : b.calls[j] = a.calls[j]
      BY <1>1, <1>2, <2>1, FrontFacts
    <2>3. \A j \in 1 .. n - 1 : j \in 1 .. n
      BY <1>1
    <2>4. \A j \in 1 .. n - 1 : /\ Len(b.calls[j]) = j - 1
                                /\ b.calls[j] \in {Files!Top} \cup (More(seen, b) \cap tree.dirs)
      BY <1>1, <2>2, <2>3 DEF Nested
    <2> HIDE DEF n
    <2>5. n - 1 >= 1
      BY <1>1, <2>1
    <2> QED
      BY <2>2, <2>4, <2>5 DEF Nested
  <1> QED
    BY <1>4, <1>5, <1>6 DEF Follows

(* One piece more.                                                         *)
Longest(n, tr, b) == [i \in 0 .. n + 1 |-> IF i = n + 1 THEN b ELSE tr[i]]

(* A piece that follows the last one makes a longer trail.                 *)
LEMMA TrailGrows ==
  ASSUME tree \in Trees, NEW img, NEW img2 \in Seq(Int), NEW n, NEW tr, NEW b \in Piece,
         Trail(img, n, tr), Continues(img2, img),
         Follows(img2, tr[n], b), b.at = Len(img2),
         b.mark # Files!P => b.path \notin Seen(tr, n)
  PROVE  /\ Trail(img2, n + 1, Longest(n, tr, b))
         /\ Longest(n, tr, b)[n + 1] = b
         /\ Seen(Longest(n, tr, b), n + 1) = More(Seen(tr, n), b)
  <1> DEFINE t == Longest(n, tr, b)
  <1>1. n \in Nat /\ tr \in [0 .. n -> Piece] /\ img \in Seq(Int) /\ n + 1 \in Nat
    BY DEF Trail
  <1>2. DOMAIN t = 0 .. n + 1 /\ t[n + 1] = b /\ \A i \in 0 .. n : t[i] = tr[i]
    <2>1. n + 1 \in 0 .. n + 1 /\ \A i \in 0 .. n : i \in 0 .. n + 1 /\ i # n + 1
      BY <1>1
    <2> QED
      BY <2>1 DEF Longest
  <1>3. t \in [0 .. n + 1 -> Piece]
    <2>1. \A i \in 0 .. n + 1 : i = n + 1 \/ i \in 0 .. n
      BY <1>1
    <2>2. \A i \in 0 .. n + 1 : t[i] \in Piece
      BY <1>1, <1>2, <2>1
    <2>3. t = [i \in 0 .. n + 1 |-> t[i]]
      BY <1>2 DEF Longest
    <2> HIDE DEF t
    <2> QED
      BY <2>2, <2>3
  <1> HIDE DEF t
  <1>4. \A i \in 1 .. n + 1 : i = n + 1 \/ i \in 1 .. n
    BY <1>1
  <1>5. \A i \in 1 .. n : i - 1 \in 0 .. n /\ i \in 0 .. n
    BY <1>1
  <1>6. \A k \in 0 .. n : Seen(t, k) = Seen(tr, k)
    <2> TAKE k \in 0 .. n
    <2>1. \A i \in 1 .. k : t[i] = tr[i]
      BY <1>1, <1>2
    <2>2. {i \in 1 .. k : t[i].mark # Files!P} = {i \in 1 .. k : tr[i].mark # Files!P}
      BY <2>1
    <2> QED
      BY <2>1, <2>2 DEF Seen
  <1>7. Seen(t, n + 1) = More(Seen(tr, n), b)
    <2>1. n \in 0 .. n
      BY <1>1
    <2>2. Seen(t, n) = Seen(tr, n)
      BY <1>6, <2>1
    <2>3. \A i : i \in 1 .. n + 1 <=> i = n + 1 \/ i \in 1 .. n
      BY <1>1
    <2>4. Seen(t, n + 1) = IF b.mark = Files!P THEN Seen(t, n) ELSE Seen(t, n) \cup {b.path}
      BY <1>2, <2>3 DEF Seen
    <2> QED
      BY <2>2, <2>4 DEF More
  <1>8. ASSUME NEW i \in 1 .. n + 1
        PROVE  /\ Follows(img2, t[i - 1], t[i])
               /\ t[i].mark # Files!P => t[i].path \notin Seen(t, i - 1)
    <2>1. CASE i = n + 1
      <3>1. i - 1 = n /\ n \in 0 .. n
        BY <1>1, <2>1
      <3> QED
        BY <1>2, <1>6, <2>1, <3>1
    <2>2. CASE i \in 1 .. n
      <3>1. /\ t[i] = tr[i] /\ t[i - 1] = tr[i - 1] /\ tr[i] \in Piece /\ tr[i - 1] \in Piece
            /\ Seen(t, i - 1) = Seen(tr, i - 1)
        BY <1>1, <1>2, <1>5, <1>6, <2>2
      <3>2. /\ Follows(img, tr[i - 1], tr[i]) /\ tr[i].at <= Len(img)
            /\ tr[i].mark # Files!P => tr[i].path \notin Seen(tr, i - 1)
        BY <1>5, <2>2 DEF Trail
      <3>3. Follows(img2, tr[i - 1], tr[i])
        BY <1>1, <3>1, <3>2, PieceStays
      <3> QED
        BY <3>1, <3>2, <3>3
    <2> QED
      BY <1>4, <2>1, <2>2
  <1>9. ASSUME NEW i \in 0 .. n + 1
        PROVE  t[i].at <= Len(img2) /\ Nested(t[i].calls, Seen(t, i))
    <2>1. CASE i \in 0 .. n
      <3>1. t[i] = tr[i] /\ tr[i] \in Piece /\ Seen(t, i) = Seen(tr, i)
        BY <1>1, <1>2, <1>6, <2>1
      <3>2. tr[i].at <= Len(img) /\ Nested(tr[i].calls, Seen(tr, i))
        BY <2>1 DEF Trail
      <3>3. tr[i].at \in Nat /\ Len(img) \in Nat /\ Len(img2) \in Nat /\ Len(img) <= Len(img2)
        BY <1>1, <3>1 DEF Piece, Continues
      <3> QED
        BY <3>1, <3>2, <3>3
    <2>2. CASE i = n + 1
      <3>1. n \in 0 .. n
        BY <1>1
      <3>2. Nested(tr[n].calls, Seen(tr, n)) /\ tr[n] \in Piece
        BY <1>1, <3>1 DEF Trail
      <3>3. Nested(b.calls, More(Seen(tr, n), b))
        BY <3>2, StaysNested
      <3>4. Len(img2) \in Nat
        OBVIOUS
      <3> QED
        BY <1>2, <1>7, <2>2, <3>3, <3>4
    <2> QED
      BY <1>1, <2>1, <2>2
  <1>10. t[0] = tr[0] /\ t[n + 1].at = Len(img2)
    BY <1>1, <1>2
  <1>11. tr[0].at = 0 /\ tr[0].calls = <<Files!Top>>
    BY DEF Trail
  <1>12. Trail(img2, n + 1, t)
    BY <1>1, <1>3, <1>8, <1>9, <1>10, <1>11 DEF Trail
  <1> QED
    BY <1>2, <1>7, <1>12 DEF t

-----------------------------------------------------------------------------
(* Packing                                                                 *)

(* What is written is behind what was there.                               *)
LEMMA Written ==
  ASSUME NEW img \in Seq(Int), NEW s \in Seq(Int)
  PROVE  /\ img \o s \in Seq(Int) /\ Len(img \o s) = Len(img) + Len(s)
         /\ Continues(img \o s, img) /\ Text(img \o s, Len(img), s)
  <1> DEFINE both == img \o s
  <1>1. /\ both \in Seq(Int) /\ Len(both) = Len(img) + Len(s)
        /\ \A i \in 1 .. Len(img) + Len(s) :
             both[i] = IF i <= Len(img) THEN img[i] ELSE s[i - Len(img)]
    BY ConcatProperties
  <1>2. Len(img) \in Nat /\ Len(s) \in Nat
    OBVIOUS
  <1> HIDE DEF both
  <1>3. \A i \in 1 .. Len(img) : both[i] = img[i]
    BY <1>1, <1>2
  <1>4. \A i \in 1 .. Len(s) : both[Len(img) + i] = s[i]
    <2> TAKE i \in 1 .. Len(s)
    <2>1. /\ Len(img) + i \in 1 .. Len(img) + Len(s) /\ ~(Len(img) + i <= Len(img))
          /\ (Len(img) + i) - Len(img) = i
      BY <1>2
    <2> QED
      BY <1>1, <2>1
  <1>5. Continues(both, img) /\ Text(both, Len(img), s)
    BY <1>1, <1>2, <1>3, <1>4 DEF Continues, Text
  <1> QED
    BY <1>1, <1>5 DEF both

Headline(img, mark, name) == img \o (<<mark>> \o name \o <<Files!NUL>>)

(* A mark, a name and its end are written.                                 *)
LEMMA Headed ==
  ASSUME NEW img \in Seq(Int), NEW mark \in Int, NEW name \in Seq(Int), NEW img2,
         img2 = Headline(img, mark, name)
  PROVE  /\ img2 \in Seq(Int) /\ Len(img2) = Len(img) + Len(name) + 2
         /\ Continues(img2, img) /\ Named(img2, mark, Len(img), name)
  <1> DEFINE h == <<mark>> \o name
             g == h \o <<Files!NUL>>
  <1>1. Len(img) \in Nat /\ Len(name) \in Nat
    OBVIOUS
  <1>2. /\ <<mark>> \in Seq(Int) /\ Len(<<mark>>) = 1 /\ <<mark>>[1] = mark
        /\ <<Files!NUL>> \in Seq(Int) /\ Len(<<Files!NUL>>) = 1 /\ <<Files!NUL>>[1] = Files!NUL
    BY DEF Files!NUL
  <1>3. /\ h \in Seq(Int) /\ Len(h) = 1 + Len(name)
        /\ Continues(h, <<mark>>) /\ Text(h, 1, name)
    BY <1>2, Written
  <1>4. h[1] = mark
    BY <1>2, <1>3 DEF Continues
  <1> HIDE DEF h
  <1>5. /\ g \in Seq(Int) /\ Len(g) = Len(h) + 1
        /\ Continues(g, h) /\ Text(g, Len(h), <<Files!NUL>>)
    BY <1>2, <1>3, Written
  <1>6. g[Len(h) + 1] = Files!NUL
    BY <1>2, <1>5 DEF Text
  <1>7. \A i \in 1 .. Len(h) : g[i] = h[i]
    BY <1>5 DEF Continues
  <1>8. img2 = img \o g
    BY DEF g, h, Headline
  <1> HIDE DEF g
  <1>9. /\ img2 \in Seq(Int) /\ Len(img2) = Len(img) + Len(g)
        /\ Continues(img2, img) /\ Text(img2, Len(img), g)
    BY <1>5, <1>8, Written
  <1>10. Len(g) = Len(name) + 2 /\ Len(h) = Len(name) + 1
    BY <1>1, <1>3, <1>5
  <1>11. \A i \in 1 .. Len(g) : img2[Len(img) + i] = g[i]
    BY <1>9 DEF Text
  <1>12. img2[Len(img) + 1] = mark
    <2>1. 1 \in 1 .. Len(g) /\ 1 \in 1 .. Len(h)
      BY <1>1, <1>10
    <2> QED
      BY <1>4, <1>7, <1>11, <2>1
  <1>13. Text(img2, Len(img) + 1, name)
    <2>1. ASSUME NEW i \in 1 .. Len(name) PROVE img2[(Len(img) + 1) + i] = name[i]
      <3>1. /\ 1 + i \in 1 .. Len(g) /\ 1 + i \in 1 .. Len(h)
            /\ (Len(img) + 1) + i = Len(img) + (1 + i)
        BY <1>1, <1>10
      <3>2. h[1 + i] = name[i]
        BY <1>3 DEF Text
      <3>3. img2[Len(img) + (1 + i)] = h[1 + i]
        BY <1>7, <1>11, <3>1
      <3> QED
        BY <3>1, <3>2, <3>3
    <2> QED
      BY <2>1 DEF Text
  <1>14. img2[Len(img) + Len(name) + 2] = Files!NUL
    <2>1. /\ Len(name) + 2 \in 1 .. Len(g) /\ Len(name) + 2 = Len(h) + 1
          /\ Len(img) + Len(name) + 2 = Len(img) + (Len(name) + 2)
      BY <1>1, <1>10
    <2>2. img2[Len(img) + (Len(name) + 2)] = g[Len(name) + 2]
      BY <1>11, <2>1
    <2>3. g[Len(name) + 2] = Files!NUL
      BY <1>6, <2>1
    <2> QED
      BY <2>1, <2>2, <2>3
  <1>15. Named(img2, mark, Len(img), name)
    BY <1>12, <1>13, <1>14 DEF Named
  <1>16. Len(img2) = Len(img) + Len(name) + 2
    BY <1>1, <1>9, <1>10
  <1> QED
    BY <1>9, <1>15, <1>16

(* With one piece more the image is still one that is being packed.        *)
LEMMA PackGrows ==
  ASSUME tree \in Trees, NEW img, NEW img2 \in Seq(Int), NEW n, NEW tr, NEW b \in Piece,
         Packed(img, n, tr), Continues(img2, img), Follows(img2, tr[n], b), b.at = Len(img2),
         b.mark # Files!P => /\ b.path \in Files!Paths(tree) /\ b.path \notin Seen(tr, n)
                             /\ Files!Front(b.path) \in {Files!Top} \cup Seen(tr, n),
         NEW stack, Scanning(stack, b.calls, More(Seen(tr, n), b))
  PROVE  BeingPacked(img2, stack)
  <1> DEFINE t == Longest(n, tr, b)
  <1>1. Trail(img, n, tr) /\ Closed(Seen(tr, n))
    BY DEF Packed
  <1>2. Trail(img2, n + 1, t) /\ t[n + 1] = b /\ Seen(t, n + 1) = More(Seen(tr, n), b)
    BY <1>1, TrailGrows
  <1> HIDE DEF t
  <1>3. Closed(More(Seen(tr, n), b))
    BY <1>1 DEF Closed, More
  <1>4. Packed(img2, n + 1, t)
    BY <1>2, <1>3 DEF Packed
  <1>5. Scanning(stack, t[n + 1].calls, Seen(t, n + 1))
    BY <1>2
  <1> QED
    BY <1>4, <1>5 DEF BeingPacked

(* Where the packer is: the directory it scans is the last that is open.   *)
Here(img, n, tr, stack) ==
  /\ n \in Nat /\ img \in Seq(Int) /\ tr[n] \in Piece /\ tr[n].at = Len(img)
  /\ tr[n].calls \in Seq(Path) /\ Len(tr[n].calls) \in Nat \ {0}
  /\ Nested(tr[n].calls, Seen(tr, n))
  /\ Files!Last(tr[n].calls) = tr[n].calls[Len(tr[n].calls)]
  /\ Files!Last(tr[n].calls) \in Path
  /\ Files!Last(tr[n].calls) \in {Files!Top} \cup (Seen(tr, n) \cap tree.dirs)
  /\ Files!Last(stack) = stack[Len(tr[n].calls)]
  /\ Files!Last(stack) \in [path : Path, left : SUBSET Path]
  /\ Files!Last(stack).left = Files!Entries(tree, Files!Last(tr[n].calls)) \ Seen(tr, n)
  /\ \A q \in Files!Last(stack).left :
       /\ q \in Files!Paths(tree) /\ q \notin Seen(tr, n)
       /\ Files!Front(q) = Files!Last(tr[n].calls)

(* The packer is there, with the entries that it has not seen.             *)
LEMMA ScanFacts ==
  ASSUME tree \in Trees, NEW img, NEW n, NEW tr, NEW stack, Packed(img, n, tr),
         Scanning(stack, tr[n].calls, Seen(tr, n))
  PROVE  Here(img, n, tr, stack)
  <1> DEFINE nest == tr[n].calls
             X == [path : Path, left : SUBSET Path]
  <1>1. /\ n \in Nat /\ img \in Seq(Int) /\ tr \in [0 .. n -> Piece] /\ tr[n].at = Len(img)
        /\ \A i \in 0 .. n : Nested(tr[i].calls, Seen(tr, i))
    BY DEF Packed, Trail
  <1>2. n \in 0 .. n
    BY <1>1
  <1>3. tr[n] \in Piece /\ Nested(nest, Seen(tr, n))
    BY <1>1, <1>2
  <1>4. nest \in Seq(Path)
    BY <1>3 DEF Piece
  <1>5. stack \in Seq(X) /\ Len(stack) = Len(nest)
        /\ \A j \in 1 .. Len(nest) : stack[j].left = Files!Entries(tree, nest[j]) \ Seen(tr, n)
    BY DEF Scanning, ToScan
  <1> HIDE DEF nest, X
  <1>6. Len(nest) \in Nat \ {0}
    <2>1. Len(nest) \in Nat /\ Len(nest) >= 1
      BY <1>3, <1>4 DEF Nested
    <2> QED
      BY <2>1
  <1>7. nest # <<>> /\ stack # <<>> /\ Len(nest) \in 1 .. Len(nest)
    BY <1>5, <1>6
  <1>8. Files!Last(nest) = nest[Len(nest)] /\ Files!Last(nest) \in Path
    BY <1>4, <1>7, FrontFacts
  <1>9. Files!Last(stack) = stack[Len(nest)] /\ Files!Last(stack) \in X
    BY <1>5, <1>7, FrontFacts
  <1>10. Files!Last(nest) \in {Files!Top} \cup (Seen(tr, n) \cap tree.dirs)
    BY <1>3, <1>7, <1>8 DEF Nested
  <1>11. Files!Last(stack).left = Files!Entries(tree, Files!Last(nest)) \ Seen(tr, n)
    BY <1>5, <1>7, <1>8, <1>9
  <1>12. \A q \in Files!Last(stack).left :
           /\ q \in Files!Paths(tree) /\ q \notin Seen(tr, n)
           /\ Files!Front(q) = Files!Last(nest)
    BY <1>8, <1>11, EntriesAre
  <1> QED
    BY <1>1, <1>3, <1>4, <1>6, <1>8, <1>9, <1>10, <1>11, <1>12 DEF Here, nest, X

(* The four bytes of a size.                                               *)
LEMMA SizeIs ==
  ASSUME NEW k \in Nat
  PROVE  Files!SizeBytes(k) \in Seq(Int) /\ Len(Files!SizeBytes(k)) = 4
  BY SMT DEF Files!SizeBytes

(* An entry is no longer left.                                             *)
Minus(scan, q) == [scan EXCEPT !.left = @ \ {q}]

(* One entry less is left of the directory that is scanned.                *)
LEMMA OneLess ==
  ASSUME tree \in Trees, NEW stack, NEW nest \in Seq(Path), NEW seen, nest # <<>>,
         Nested(nest, seen), ToScan(stack, nest, seen),
         NEW q \in Files!Paths(tree), Files!Front(q) = Files!Last(nest),
         NEW rest, rest = Minus(Files!Last(stack), q)
  PROVE  ToScan(Append(Files!Front(stack), rest), nest, seen \cup {q})
  <1> DEFINE X == [path : Path, left : SUBSET Path]
             n == Len(nest)
             s == Append(Files!Front(stack), rest)
  <1>1. stack \in Seq(X) /\ Len(stack) = n
        /\ \A j \in 1 .. n : stack[j].path = nest[j]
                             /\ stack[j].left = Files!Entries(tree, nest[j]) \ seen
    BY DEF ToScan
  <1>2. n \in Nat \ {0} /\ \A j \in 1 .. n : Len(nest[j]) = j - 1 /\ nest[j] \in Path
    <2>1. n \in Nat \ {0}
      OBVIOUS
    <2> QED
      BY <2>1 DEF Nested
  <1>3. Files!Last(nest) = nest[n]
    BY FrontFacts
  <1> HIDE DEF n
  <1>4. /\ Files!Front(stack) \in Seq(X) /\ Len(Files!Front(stack)) = n - 1
        /\ \A j \in 1 .. n - 1 : Files!Front(stack)[j] = stack[j]
        /\ Files!Last(stack) = stack[n] /\ Files!Last(stack) \in X
    <2> HIDE DEF X
    <2>1. stack # <<>>
      BY <1>1, <1>2
    <2>2. /\ Files!Front(stack) \in Seq(X) /\ Len(Files!Front(stack)) = Len(stack) - 1
          /\ \A j \in 1 .. Len(stack) - 1 : Files!Front(stack)[j] = stack[j]
          /\ Files!Last(stack) = stack[Len(stack)] /\ Files!Last(stack) \in X
      <3>1. stack \in Seq(X)
        BY <1>1
      <3> QED
        BY <2>1, <3>1, FrontFacts
    <2> QED
      BY <1>1, <2>2
  <1>5. rest \in X /\ rest.path = nest[n] /\ rest.left = (Files!Entries(tree, nest[n]) \ seen) \ {q}
    <2>1. n \in 1 .. n
      BY <1>2
    <2>2. /\ Files!Last(stack).path = nest[n]
          /\ Files!Last(stack).left = Files!Entries(tree, nest[n]) \ seen
      BY <1>1, <1>4, <2>1
    <2>3. ASSUME NEW x \in X
          PROVE  /\ Minus(x, q) \in X /\ Minus(x, q).path = x.path
                 /\ Minus(x, q).left = x.left \ {q}
      BY DEF Minus
    <2> QED
      BY <1>4, <2>2, <2>3
  <1> HIDE DEF X
  <1>6. /\ s \in Seq(X) /\ Len(s) = n /\ s[n] = rest
        /\ \A j \in 1 .. n - 1 : s[j] = stack[j]
    <2>1. /\ s \in Seq(X) /\ Len(s) = Len(Files!Front(stack)) + 1
          /\ \A j \in 1 .. Len(Files!Front(stack)) : s[j] = Files!Front(stack)[j]
          /\ s[Len(Files!Front(stack)) + 1] = rest
      BY <1>4, <1>5, AppendProperties
    <2> HIDE DEF s
    <2>2. (n - 1) + 1 = n
      BY <1>2
    <2> QED
      BY <1>4, <2>1, <2>2
  <1> HIDE DEF s
  <1>7. \A j \in 1 .. n : j = n \/ (j \in 1 .. n - 1 /\ j # n)
    BY <1>2
  <1>8. \A j \in 1 .. n - 1 : q \notin Files!Entries(tree, nest[j])
    <2> TAKE j \in 1 .. n - 1
    <2>1. j \in 1 .. n /\ n \in 1 .. n /\ j - 1 # n - 1
      BY <1>2
    <2>2. nest[j] # nest[n]
      BY <1>2, <2>1
    <2> QED
      BY <1>2, <1>3, <2>1, <2>2, EntriesAre
  <1>9. ASSUME NEW j \in 1 .. n
        PROVE  s[j].path = nest[j] /\ s[j].left = Files!Entries(tree, nest[j]) \ (seen \cup {q})
    <2>1. CASE j = n
      BY <1>5, <1>6, <2>1
    <2>2. CASE j \in 1 .. n - 1
      BY <1>1, <1>6, <1>8, <2>2
    <2> QED
      BY <1>7, <2>1, <2>2
  <1>10. Len(nest) = n
    BY DEF n
  <1>11. ToScan(s, nest, seen \cup {q})
    BY <1>6, <1>9, <1>10 DEF ToScan, X
  <1> QED
    BY <1>11 DEF s

(* The scan of a directory begins.                                         *)
LEMMA OneDeeper ==
  ASSUME tree \in Trees, NEW stack, NEW nest \in Seq(Path), NEW seen,
         ToScan(stack, nest, seen), NEW q \in Path, Files!Entries(tree, q) \cap seen = {}
  PROVE  ToScan(Append(stack, Files!Scan(tree, q)), Append(nest, q), seen)
  <1> DEFINE X == [path : Path, left : SUBSET Path]
             n == Len(nest)
             s == Append(stack, Files!Scan(tree, q))
             t == Append(nest, q)
  <1>1. stack \in Seq(X) /\ Len(stack) = n /\ n \in Nat
        /\ \A j \in 1 .. n : stack[j].path = nest[j]
                             /\ stack[j].left = Files!Entries(tree, nest[j]) \ seen
    BY DEF ToScan
  <1>2. Files!Scan(tree, q) \in X /\ Files!Scan(tree, q).path = q
        /\ Files!Scan(tree, q).left = Files!Entries(tree, q) \ seen
    <2>1. Files!Entries(tree, q) \subseteq Path
      BY EntriesAre, PathsAre
    <2> QED
      BY <2>1 DEF Files!Scan
  <1> HIDE DEF X
  <1>3. /\ s \in Seq(X) /\ Len(s) = n + 1 /\ s[n + 1] = Files!Scan(tree, q)
        /\ \A j \in 1 .. n : s[j] = stack[j]
    BY <1>1, <1>2, AppendProperties
  <1>4. Len(t) = n + 1 /\ t[n + 1] = q /\ \A j \in 1 .. n : t[j] = nest[j]
    BY AppendProperties
  <1>5. \A j \in 1 .. n + 1 : j = n + 1 \/ j \in 1 .. n
    BY <1>1
  <1> HIDE DEF n, s, t
  <1>6. ASSUME NEW j \in 1 .. n + 1
        PROVE  s[j].path = t[j] /\ s[j].left = Files!Entries(tree, t[j]) \ seen
    <2>1. CASE j = n + 1
      BY <1>2, <1>3, <1>4, <2>1
    <2>2. CASE j \in 1 .. n
      BY <1>1, <1>3, <1>4, <2>2
    <2> QED
      BY <1>5, <2>1, <2>2
  <1>7. ToScan(s, t, seen)
    BY <1>3, <1>4, <1>6 DEF ToScan, X
  <1> QED
    BY <1>7 DEF s, t

(* Two elements more.                                                      *)
LEMMA TwoMore ==
  ASSUME NEW X, NEW s \in Seq(X), NEW x \in X, NEW y \in X
  PROVE  s \o <<x, y>> = Append(Append(s, x), y)
  <1>1. /\ <<x>> \in Seq(X) /\ <<y>> \in Seq(X) /\ Append(s, x) \in Seq(X)
    OBVIOUS
  <1>5. <<x>> \o <<y>> = <<x, y>>
    <2>1. <<x>> \o <<y>> \in Seq(X) /\ <<x, y>> \in Seq(X)
          /\ Len(<<x>> \o <<y>>) = 2 /\ Len(<<x, y>>) = 2
          /\ \A i \in 1 .. 2 : (<<x>> \o <<y>>)[i] = <<x, y>>[i]
      BY <1>1, ConcatProperties
    <2> QED
      BY <2>1, SeqEqual
  <1>2. Append(s, x) = s \o <<x>>
    BY AppendIsConcat
  <1>3. Append(Append(s, x), y) = Append(s, x) \o <<y>>
    BY <1>1, AppendIsConcat
  <1>4. (s \o <<x>>) \o <<y>> = s \o (<<x>> \o <<y>>)
    BY <1>1, ConcatAssociative
  <1> QED
    BY <1>1, <1>2, <1>3, <1>4, <1>5

(* A directory is written, and its entries are next.                       *)
LEMMA DirPacked ==
  ASSUME tree \in Trees, NEW img, NEW n, NEW tr, NEW stack, Packed(img, n, tr),
         Scanning(stack, tr[n].calls, Seen(tr, n)),
         NEW q \in Files!Last(stack).left, q \in tree.dirs, NEW img2,
         img2 = Headline(img, Files!D, Files!Last(q)),
         NEW rest, rest = Minus(Files!Last(stack), q)
  PROVE  BeingPacked(img2, Files!Front(stack) \o <<rest, Files!Scan(tree, q)>>)
  <1> DEFINE nest == tr[n].calls
             seen == Seen(tr, n)
             b == [at |-> Len(img2), calls |-> Append(nest, q), mark |-> Files!D, path |-> q]
             next == Append(Append(Files!Front(stack), rest), Files!Scan(tree, q))
  <1> HIDE DEF next, nest, seen
  <1>0. nest = tr[n].calls /\ seen = Seen(tr, n)
    BY DEF nest, seen
  <1>1. /\ img \in Seq(Int) /\ tr[n].at = Len(img) /\ nest \in Seq(Path)
        /\ Len(nest) \in Nat \ {0} /\ Nested(nest, seen)
        /\ Files!Last(nest) \in Path /\ Files!Last(nest) \in {Files!Top} \cup seen
        /\ q \in Files!Paths(tree) /\ q \notin seen /\ Files!Front(q) = Files!Last(nest)
    <2>1. Here(img, n, tr, stack)
      BY ScanFacts
    <2> QED
      BY <1>0, <2>1 DEF Here
  <1>2. /\ q \in Path /\ q # Files!Top /\ Files!Last(q) \in Seq(1 .. 255)
        /\ Len(Files!Front(q)) = Len(q) - 1 /\ Len(q) \in Nat \ {0}
    BY <1>1, PathsAre
  <1>3. ToScan(stack, nest, seen) /\ Behind(nest, seen) /\ Closed(seen)
    BY <1>0 DEF Scanning, Packed
  <1>4. Files!D \in Int /\ Files!Last(q) \in Seq(Int) /\ Files!D # Files!P
    <2>1. Files!D \in Int /\ Files!D # Files!P
      BY DEF Files!D, Files!P
    <2> QED
      BY <1>2, <2>1, BytesAre
  <1>5. /\ img2 \in Seq(Int) /\ Len(img2) = Len(img) + Len(Files!Last(q)) + 2
        /\ Continues(img2, img) /\ Named(img2, Files!D, Len(img), Files!Last(q))
    <2>1. img \in Seq(Int)
      BY <1>1
    <2> QED
      BY <1>4, <2>1, Headed
  <1>6. Append(nest, q) \in Seq(Path) /\ Len(img2) \in Nat
    BY <1>1, <1>2, <1>5
  <1>7. b \in Piece /\ b.at = Len(img2) /\ b.path = q /\ b.mark = Files!D /\ b.calls = Append(nest, q)
    BY <1>2, <1>6 DEF Piece
  <1> HIDE DEF b, nest, seen
  <1>8. Follows(img2, tr[n], b)
    BY <1>1, <1>5, <1>7 DEF Follows, Enters, nest
  <1>9. More(seen, b) = seen \cup {q}
    BY <1>4, <1>7 DEF More
  <1>10. ToScan(Append(Files!Front(stack), rest), nest, seen \cup {q})
    <2>1. nest # <<>>
      BY <1>1
    <2> QED
      BY <1>1, <1>3, <2>1, OneLess
  <1>11. Files!Entries(tree, q) \cap (seen \cup {q}) = {}
    <2>1. ASSUME NEW r \in seen, r \in Files!Entries(tree, q) PROVE FALSE
      <3>1. Files!Front(r) = q /\ Files!Front(r) \in {Files!Top} \cup seen
        BY <1>2, <1>3, <2>1, EntriesAre DEF Closed
      <3> QED
        BY <1>1, <1>2, <3>1
    <2>2. q \notin Files!Entries(tree, q)
      <3>1. Files!Front(q) # q
        BY <1>2
      <3> QED
        BY <1>2, <3>1, EntriesAre
    <2> QED
      BY <2>1, <2>2
  <1>12. ToScan(next, Append(nest, q), seen \cup {q})
    BY <1>1, <1>2, <1>10, <1>11, OneDeeper DEF next
  <1>13. Behind(Append(nest, q), seen \cup {q})
    <2> DEFINE t == Append(nest, q)
               m == Len(nest)
    <2>1. Len(t) = m + 1 /\ t[m + 1] = q /\ \A j \in 1 .. m : t[j] = nest[j]
      BY <1>1, <1>2
    <2>2. m + 1 \in 1 .. m + 1 /\ \A j \in 1 .. m : j \in 1 .. m + 1
      BY <1>1
    <2> HIDE DEF t, m
    <2>3. \E j \in 1 .. Len(t) : t[j] = q
      BY <2>1, <2>2
    <2>4. ASSUME NEW d \in {Files!Top} \cup (seen \cap tree.dirs)
          PROVE  (\E j \in 1 .. Len(t) : t[j] = d) \/ Scanned(d, seen \cup {q})
      <3>1. CASE \E j \in 1 .. m : nest[j] = d
        BY <2>1, <2>2, <3>1
      <3>2. CASE Scanned(d, seen)
        BY <3>2 DEF Scanned
      <3> QED
        BY <1>3, <3>1, <3>2 DEF Behind, m
    <2>5. Behind(t, seen \cup {q})
      BY <2>3, <2>4 DEF Behind
    <2> QED
      BY <2>5 DEF t
  <1>14. Scanning(next, b.calls, More(seen, b))
    BY <1>7, <1>9, <1>12, <1>13 DEF Scanning
  <1>15. Files!Front(stack) \o <<rest, Files!Scan(tree, q)>> = next
    <2> DEFINE X == [path : Path, left : SUBSET Path]
               f == Files!Front(stack)
               x == Files!Scan(tree, q)
    <2>1. next \in Seq(X) /\ Append(f, rest) \in Seq(X)
      BY <1>10, <1>12 DEF ToScan
    <2>2. f \in Seq(X)
      <3>1. stack \in Seq(X)
        BY <1>3 DEF ToScan
      <3>2. stack # <<>>
        BY <1>1, <1>3 DEF ToScan
      <3> HIDE DEF X
      <3> QED
        BY <3>1, <3>2, FrontFacts
    <2> HIDE DEF f, x, X
    <2>3. f \o <<rest, x>> = Append(Append(f, rest), x)
      BY <2>2, TwoMore
    <2> QED
      BY <2>3 DEF f, x, next
  <1>16. BeingPacked(img2, next)
    <2> HIDE DEF next
    <2>1. /\ b.path \in Files!Paths(tree) /\ b.path \notin Seen(tr, n)
          /\ Files!Front(b.path) \in {Files!Top} \cup Seen(tr, n)
      BY <1>1, <1>7 DEF seen
    <2>2. Scanning(next, b.calls, More(Seen(tr, n), b))
      BY <1>14 DEF seen
    <2> QED
      BY <1>5, <1>7, <1>8, <2>1, <2>2, PackGrows
  <1> QED
    BY <1>15, <1>16

Filed(img, bytes) == img \o Files!SizeBytes(Len(bytes)) \o bytes

(* A file is written.                                                      *)
LEMMA FilePacked ==
  ASSUME tree \in Trees, NEW img, NEW n, NEW tr, NEW stack, Packed(img, n, tr),
         Scanning(stack, tr[n].calls, Seen(tr, n)),
         NEW q \in Files!Last(stack).left, q \notin tree.dirs,
         NEW bytes, bytes = tree.files[q],
         NEW img1, img1 = Headline(img, Files!F, Files!Last(q)),
         NEW img2, img2 = Filed(img1, bytes)
  PROVE  BeingPacked(img2, Append(Files!Front(stack), Minus(Files!Last(stack), q)))
  <1> DEFINE nest == tr[n].calls
             seen == Seen(tr, n)
             b == [at |-> Len(img2), calls |-> nest, mark |-> Files!F, path |-> q]
             next == Append(Files!Front(stack), Minus(Files!Last(stack), q))
             name == Files!Last(q)
             size == Files!SizeBytes(Len(bytes))
             both == img1 \o size
  <1> HIDE DEF next, nest, seen
  <1>0. nest = tr[n].calls /\ seen = Seen(tr, n)
    BY DEF nest, seen
  <1>1. /\ img \in Seq(Int) /\ tr[n].at = Len(img) /\ nest \in Seq(Path)
        /\ Len(nest) \in Nat \ {0} /\ Nested(nest, seen)
        /\ Files!Last(nest) \in Path /\ Files!Last(nest) \in {Files!Top} \cup seen
        /\ q \in Files!Paths(tree) /\ q \notin seen /\ Files!Front(q) = Files!Last(nest)
    <2>1. Here(img, n, tr, stack)
      BY ScanFacts
    <2> QED
      BY <1>0, <2>1 DEF Here
  <1>2. /\ q \in Path /\ name \in Seq(Int) /\ q \in DOMAIN tree.files
        /\ bytes \in Seq(Int) /\ size \in Seq(Int) /\ Len(size) = 4
    <2>1. q \in Path /\ name \in Seq(1 .. 255) /\ q \in DOMAIN tree.files
      BY <1>1, PathsAre
    <2>2. bytes \in Seq(0 .. 255)
      BY <2>1, PathsAre
    <2>3. Len(bytes) \in Nat
      BY <2>2
    <2>4. size \in Seq(Int) /\ Len(size) = 4
      BY <2>3, SizeIs
    <2> QED
      BY <2>1, <2>2, <2>4, BytesAre
  <1>3. ToScan(stack, nest, seen) /\ Behind(nest, seen)
    BY <1>0 DEF Scanning
  <1>4. Files!F \in Int /\ Files!F # Files!P
    BY DEF Files!F, Files!P
  <1> HIDE DEF name, size, both
  <1>5. /\ img1 \in Seq(Int) /\ Len(img1) = Len(img) + Len(name) + 2
        /\ Continues(img1, img) /\ Named(img1, Files!F, Len(img), name)
    <2>1. img \in Seq(Int)
      BY <1>1
    <2>2. img1 = Headline(img, Files!F, name) /\ name \in Seq(Int)
      BY <1>2 DEF name
    <2> QED
      BY <1>4, <2>1, <2>2, Headed
  <1>6. /\ both \in Seq(Int) /\ Len(both) = Len(img1) + 4
        /\ Continues(both, img1) /\ Text(both, Len(img1), size)
    <2>1. img1 \in Seq(Int) /\ size \in Seq(Int)
      BY <1>2, <1>5
    <2>2. /\ both \in Seq(Int) /\ Len(both) = Len(img1) + Len(size)
          /\ Continues(both, img1) /\ Text(both, Len(img1), size)
      BY <2>1, Written, Zenon DEF both
    <2> QED
      BY <1>2, <2>2
  <1>7. /\ img2 \in Seq(Int) /\ Len(img2) = Len(both) + Len(bytes)
        /\ Continues(img2, both) /\ Text(img2, Len(both), bytes)
    <2>1. img2 = both \o bytes
      BY DEF both, size, Filed
    <2>2. both \in Seq(Int) /\ bytes \in Seq(Int)
      BY <1>2, <1>6
    <2> QED
      BY <2>1, <2>2, Written, Zenon
  <1>8. /\ Len(img) \in Nat /\ Len(name) \in Nat /\ Len(bytes) \in Nat
        /\ Len(img1) \in Nat /\ Len(both) \in Nat /\ Len(img2) \in Nat
    <2>1. \A s \in Seq(Int) : Len(s) \in Nat
      OBVIOUS
    <2>2. /\ img \in Seq(Int) /\ name \in Seq(Int) /\ bytes \in Seq(Int)
          /\ img1 \in Seq(Int) /\ both \in Seq(Int) /\ img2 \in Seq(Int)
      BY <1>1, <1>2, <1>5, <1>6, <1>7, Zenon
    <2> QED
      BY <2>1, <2>2, Zenon
  <1>9. Continues(img2, img1)
    <2>0. Len(both) = Len(img1) + 4 /\ Len(img2) = Len(both) + Len(bytes)
      BY <1>6, <1>7, Zenon
    <2>1. Len(img1) <= Len(both) /\ Len(both) <= Len(img2)
      <3>1. \A j, k, l, m \in Nat : k = j + 4 /\ l = k + m => j <= k /\ k <= l
        OBVIOUS
      <3> QED
        BY <1>8, <2>0, <3>1, Zenon
    <2>2. \A i \in 1 .. Len(img1) : both[i] = img1[i]
      BY <1>6 DEF Continues
    <2>3. \A i \in 1 .. Len(both) : img2[i] = both[i]
      BY <1>7 DEF Continues
    <2>4. \A i \in 1 .. Len(img1) : i \in 1 .. Len(both)
      BY <1>8, <2>1
    <2>5. \A i \in 1 .. Len(img1) : img2[i] = img1[i]
      BY <2>2, <2>3, <2>4, Zenon
    <2>6. Len(img1) <= Len(img2)
      BY <1>8, <2>1
    <2> QED
      BY <2>5, <2>6 DEF Continues
  <1>10. Continues(img2, img)
    <2>1. Len(img) <= Len(img1) /\ \A i \in 1 .. Len(img) : img1[i] = img[i]
      BY <1>5 DEF Continues
    <2>2. Len(img1) <= Len(img2) /\ \A i \in 1 .. Len(img1) : img2[i] = img1[i]
      BY <1>9 DEF Continues
    <2>3. \A i \in 1 .. Len(img) : i \in 1 .. Len(img1)
      BY <1>8, <2>1
    <2>4. \A i \in 1 .. Len(img) : img2[i] = img[i]
      BY <2>1, <2>2, <2>3, Zenon
    <2>5. Len(img) <= Len(img2)
      BY <1>8, <2>1, <2>2
    <2> QED
      BY <2>4, <2>5 DEF Continues
  <1>11. Named(img2, Files!F, Len(img), name)
    <2>1. Len(img) + Len(name) + 2 <= Len(img1)
      BY <1>5, <1>8
    <2> QED
      BY <1>5, <1>7, <1>8, <1>9, <2>1, NamedStays
  <1>12. Text(img2, Len(img1), size)
    <2>1. Len(img1) + Len(size) <= Len(both) /\ Len(size) \in Nat
      BY <1>2, <1>6, <1>8
    <2> QED
      BY <1>6, <1>7, <1>8, <2>1, TextStays
  <1>13. b \in Piece /\ b.at = Len(img2) /\ b.path = q /\ b.mark = Files!F /\ b.calls = nest
    BY <1>1, <1>2, <1>8 DEF Piece
  <1> HIDE DEF b
  <1>14. Holds(img2, tr[n], b)
    <2>1. Len(img1) = Len(img) + Len(name) + 2 /\ Len(both) = Len(img) + Len(name) + 2 + 4
          /\ Len(img2) = Len(img) + Len(name) + 2 + 4 + Len(bytes)
      BY <1>5, <1>6, <1>7
    <2>2. Text(img2, Len(img) + Len(name) + 2, size)
          /\ Text(img2, Len(img) + Len(name) + 2 + 4, bytes)
      BY <1>7, <1>12, <2>1
    <2> QED
      BY <1>0, <1>1, <1>2, <1>11, <1>13, <2>1, <2>2 DEF Holds, name, size
  <1>15. More(seen, b) = seen \cup {q}
    BY <1>4, <1>13 DEF More
  <1>16. ToScan(next, nest, seen \cup {q})
    <2>1. nest # <<>>
      BY <1>1
    <2> QED
      BY <1>1, <1>3, <2>1, OneLess DEF next
  <1>17. Behind(nest, seen \cup {q})
    BY <1>3 DEF Behind, Scanned
  <1>18. Scanning(next, b.calls, More(Seen(tr, n), b))
    BY <1>0, <1>13, <1>15, <1>16, <1>17 DEF Scanning
  <1>19. /\ b.path \in Files!Paths(tree) /\ b.path \notin Seen(tr, n)
         /\ Files!Front(b.path) \in {Files!Top} \cup Seen(tr, n)
    BY <1>0, <1>1, <1>13
  <1>20. BeingPacked(img2, next)
    <2>1. Follows(img2, tr[n], b)
      BY <1>14 DEF Follows
    <2> QED
      BY <1>7, <1>10, <1>13, <1>18, <1>19, <2>1, PackGrows
  <1> QED
    BY <1>20 DEF next

(* A directory ends below the top.                                         *)
LEMMA EndPacked ==
  ASSUME tree \in Trees, NEW img, NEW n, NEW tr, NEW stack, Packed(img, n, tr),
         Scanning(stack, tr[n].calls, Seen(tr, n)),
         Files!Last(stack).left = {}, Len(stack) > 1,
         NEW img2, img2 = Append(img, Files!P)
  PROVE  BeingPacked(img2, Files!Front(stack))
  <1> DEFINE nest == tr[n].calls
             seen == Seen(tr, n)
             rest == Files!Front(nest)
             m == Len(nest)
             X == [path : Path, left : SUBSET Path]
             b == [at |-> Len(img2), calls |-> rest, mark |-> Files!P, path |-> Files!Top]
  <1> HIDE DEF nest, seen, X
  <1>0. nest = tr[n].calls /\ seen = Seen(tr, n)
    BY DEF nest, seen
  <1>1. /\ img \in Seq(Int) /\ tr[n].at = Len(img) /\ nest \in Seq(Path)
        /\ m \in Nat \ {0} /\ Nested(nest, seen)
        /\ Files!Last(nest) = nest[m]
        /\ Files!Entries(tree, nest[m]) \ seen = {}
    <2>1. Here(img, n, tr, stack)
      BY ScanFacts
    <2> QED
      BY <1>0, <2>1 DEF Here
  <1>2. ToScan(stack, nest, seen) /\ Behind(nest, seen)
    BY <1>0 DEF Scanning
  <1>3. /\ stack \in Seq(X) /\ Len(stack) = m /\ m > 1
        /\ \A j \in 1 .. m : stack[j].path = nest[j]
                             /\ stack[j].left = Files!Entries(tree, nest[j]) \ seen
    BY <1>2 DEF ToScan, X
  <1>4. /\ rest \in Seq(Path) /\ Len(rest) = m - 1
        /\ \A j \in 1 .. m - 1 : rest[j] = nest[j]
    <2>1. nest # <<>> /\ nest \in Seq(Path)
      BY <1>1
    <2> QED
      BY <2>1, FrontFacts
  <1>5. /\ Files!Front(stack) \in Seq(X) /\ Len(Files!Front(stack)) = m - 1
        /\ \A j \in 1 .. m - 1 : Files!Front(stack)[j] = stack[j]
    <2>1. stack # <<>> /\ stack \in Seq(X)
      BY <1>1, <1>3
    <2>2. /\ Files!Front(stack) \in Seq(X) /\ Len(Files!Front(stack)) = Len(stack) - 1
          /\ \A j \in 1 .. Len(stack) - 1 : Files!Front(stack)[j] = stack[j]
      BY <2>1, FrontFacts
    <2> QED
      BY <1>3, <2>2
  <1>6. /\ img2 \in Seq(Int) /\ Len(img2) = Len(img) + 1 /\ img2[Len(img) + 1] = Files!P
        /\ Continues(img2, img)
    <2>1. Files!P \in Int /\ img \in Seq(Int) /\ Len(img) \in Nat
      BY <1>1 DEF Files!P
    <2>2. /\ img2 \in Seq(Int) /\ Len(img2) = Len(img) + 1 /\ img2[Len(img) + 1] = Files!P
          /\ \A i \in 1 .. Len(img) : img2[i] = img[i]
      BY <2>1, AppendProperties
    <2>3. Len(img) <= Len(img2)
      BY <2>1, <2>2
    <2> QED
      BY <2>2, <2>3 DEF Continues
  <1>7. b \in Piece /\ b.at = Len(img2) /\ b.mark = Files!P /\ b.calls = rest
    <2>1. Len(img2) \in Nat /\ Files!Top \in Path
      BY <1>6, PathsAre
    <2> HIDE DEF rest
    <2> QED
      BY <1>4, <2>1 DEF Piece
  <1> HIDE DEF b
  <1>8. Follows(img2, tr[n], b)
    BY <1>0, <1>1, <1>3, <1>6, <1>7 DEF Leaves, Follows
  <1>9. More(seen, b) = seen
    BY <1>7 DEF More
  <1>10. \A j \in 1 .. m : j = m \/ j \in 1 .. m - 1
    BY <1>1
  <1>11. \A j \in 1 .. m - 1 : j \in 1 .. m
    BY <1>1
  <1> HIDE DEF rest, m
  <1>12. ToScan(Files!Front(stack), rest, seen)
    <2>1. Len(Files!Front(stack)) = Len(rest)
      BY <1>4, <1>5
    <2>2. ASSUME NEW j \in 1 .. Len(rest)
          PROVE  /\ Files!Front(stack)[j].path = rest[j]
                 /\ Files!Front(stack)[j].left = Files!Entries(tree, rest[j]) \ seen
      BY <1>3, <1>4, <1>5, <1>11
    <2> QED
      BY <1>5, <2>1, <2>2 DEF ToScan, X
  <1>13. Behind(rest, seen)
    <2>1. ASSUME NEW d \in {Files!Top} \cup (seen \cap tree.dirs)
          PROVE  (\E j \in 1 .. Len(rest) : rest[j] = d) \/ Scanned(d, seen)
      <3>1. CASE Scanned(d, seen)
        BY <3>1
      <3>2. ASSUME NEW j \in 1 .. m, nest[j] = d
            PROVE  (\E i \in 1 .. Len(rest) : rest[i] = d) \/ Scanned(d, seen)
        <4>1. CASE j = m
          BY <1>1, <3>2, <4>1 DEF Scanned
        <4>2. CASE j \in 1 .. m - 1
          BY <1>4, <3>2, <4>2
        <4> QED
          BY <1>10, <4>1, <4>2
      <3> QED
        BY <1>2, <3>1, <3>2 DEF Behind, m
    <2> QED
      BY <2>1 DEF Behind
  <1>14. Scanning(Files!Front(stack), b.calls, More(Seen(tr, n), b))
    BY <1>0, <1>7, <1>9, <1>12, <1>13 DEF Scanning
  <1> QED
    BY <1>6, <1>7, <1>8, <1>14, PackGrows

(* The top ends: the image is complete.                                    *)
LEMMA TopPacked ==
  ASSUME tree \in Trees, NEW img, NEW n, NEW tr, NEW stack, Packed(img, n, tr),
         Scanning(stack, tr[n].calls, Seen(tr, n)),
         Files!Last(stack).left = {}, Len(stack) = 1
  PROVE  Complete(n, tr)
  <1> DEFINE nest == tr[n].calls
             seen == Seen(tr, n)
  <1> HIDE DEF nest, seen
  <1>0. nest = tr[n].calls /\ seen = Seen(tr, n)
    BY DEF nest, seen
  <1>1. Behind(nest, seen) /\ Len(nest) = 1
    BY <1>0 DEF Scanning, ToScan
  <1>2. Files!Entries(tree, nest[1]) \subseteq seen
    <2>1. Here(img, n, tr, stack)
      BY ScanFacts
    <2> QED
      BY <1>0, <1>1, <2>1 DEF Here
  <1>3. \A d \in {Files!Top} \cup (seen \cap tree.dirs) : Scanned(d, seen)
    <2>1. \A j \in 1 .. 1 : j = 1
      OBVIOUS
    <2> QED
      BY <1>1, <1>2, <2>1 DEF Behind, Scanned
  <1> QED
    BY <1>0, <1>1, <1>3 DEF Complete

(* All of it depends on the tree alone, which stays.                       *)
LEMMA SameTree ==
  ASSUME tree' = tree
  PROVE  /\ \A img, n, tr : Packed(img, n, tr)' <=> Packed(img, n, tr)
         /\ \A stack, nest, seen : Scanning(stack, nest, seen)' <=> Scanning(stack, nest, seen)
         /\ \A n, tr : Complete(n, tr)' <=> Complete(n, tr)
         /\ \A seen : Stored(seen)' = Stored(seen)
  <1>1. \A img, a, b : Follows(img, a, b)' <=> Follows(img, a, b)
    <2>1. \A img, a, b : Enters(img, a, b)' <=> Enters(img, a, b)
      BY DEF Enters
    <2>2. \A img, a, b : Holds(img, a, b)' <=> Holds(img, a, b)
      BY DEF Holds
    <2>3. \A img, a, b : Leaves(img, a, b)' <=> Leaves(img, a, b)
      BY DEF Leaves
    <2> QED
      BY <2>1, <2>2, <2>3 DEF Follows
  <1>2. \A nest, seen : Nested(nest, seen)' <=> Nested(nest, seen)
    BY DEF Nested
  <1>3. \A img, n, tr : Trail(img, n, tr)' <=> Trail(img, n, tr)
    BY <1>1, <1>2 DEF Trail
  <1>4. \A seen : Closed(seen)' <=> Closed(seen)
    BY DEF Closed
  <1>5. \A d, seen : Scanned(d, seen)' <=> Scanned(d, seen)
    BY DEF Scanned
  <1>6. \A stack, nest, seen : ToScan(stack, nest, seen)' <=> ToScan(stack, nest, seen)
    BY DEF ToScan
  <1>7. \A nest, seen : Behind(nest, seen)' <=> Behind(nest, seen)
    BY <1>5 DEF Behind
  <1>8. \A img, n, tr : Packed(img, n, tr)' <=> Packed(img, n, tr)
    BY <1>3, <1>4 DEF Packed
  <1>9. \A stack, nest, seen : Scanning(stack, nest, seen)' <=> Scanning(stack, nest, seen)
    BY <1>6, <1>7 DEF Scanning
  <1>10. \A n, tr : Complete(n, tr)' <=> Complete(n, tr)
    BY <1>5 DEF Complete
  <1>11. \A seen : Stored(seen)' = Stored(seen)
    BY DEF Stored
  <1> QED
    BY <1>8, <1>9, <1>10, <1>11

(* Before the first entry.                                                 *)
LEMMA InitImage ==
  ASSUME Init
  PROVE  ImageInv
  <1>1. /\ tree \in Trees /\ pc = "pack" /\ image = <<>> /\ dirs = <<Files!Scan(tree, Files!Top)>>
        /\ p = 0 /\ calls = <<Files!Top>> /\ store = [q \in {Files!Top} |-> <<>>]
    BY DEF Init, Files!Init
  <1> DEFINE first == [at |-> 0, calls |-> <<Files!Top>>, mark |-> Files!P, path |-> Files!Top]
             tr == [i \in 0 .. 0 |-> first]
             X == [path : Path, left : SUBSET Path]
  <1>2. Files!Top \in Path /\ Len(Files!Top) = 0
    BY <1>1, PathsAre
  <1>3. /\ <<Files!Top>> \in Seq(Path) /\ Len(<<Files!Top>>) = 1 /\ <<Files!Top>>[1] = Files!Top
        /\ \A j \in 1 .. 1 : j = 1
    BY <1>2
  <1>4. first \in Piece /\ first.at = 0 /\ first.calls = <<Files!Top>>
    BY <1>2, <1>3 DEF Piece
  <1> HIDE DEF first
  <1>5. tr \in [0 .. 0 -> Piece] /\ tr[0] = first
    BY <1>4
  <1> HIDE DEF tr
  <1>6. Seen(tr, 0) = {}
    BY DEF Seen
  <1>7. <<>> \in Seq(Int) /\ Len(<<>>) = 0
    OBVIOUS
  <1>8. Nested(<<Files!Top>>, {})
    BY <1>2, <1>3 DEF Nested
  <1>9. Trail(<<>>, 0, tr)
    <2>1. \A i : i \notin 1 .. 0
      OBVIOUS
    <2>2. \A i \in 0 .. 0 : i = 0
      OBVIOUS
    <2>3. \A i \in 0 .. 0 : tr[i].at <= 0 /\ Nested(tr[i].calls, Seen(tr, i))
      BY <1>4, <1>5, <1>6, <1>8, <2>2
    <2> QED
      BY <1>4, <1>5, <1>7, <2>1, <2>3 DEF Trail
  <1>10. Packed(<<>>, 0, tr)
    BY <1>6, <1>9 DEF Packed, Closed
  <1>11. ToScan(<<Files!Scan(tree, Files!Top)>>, <<Files!Top>>, {})
    <2>1. Files!Entries(tree, Files!Top) \subseteq Path
      BY <1>1, <1>2, EntriesAre, PathsAre
    <2>2. Files!Scan(tree, Files!Top) \in X
          /\ Files!Scan(tree, Files!Top).path = Files!Top
          /\ Files!Scan(tree, Files!Top).left = Files!Entries(tree, Files!Top)
      BY <1>2, <2>1 DEF Files!Scan
    <2>3. ASSUME NEW s, s = Files!Scan(tree, Files!Top)
          PROVE  <<s>> \in Seq(X) /\ Len(<<s>>) = 1 /\ <<s>>[1] = s
      BY <2>2, <2>3
    <2>4. /\ <<Files!Scan(tree, Files!Top)>> \in Seq(X)
          /\ Len(<<Files!Scan(tree, Files!Top)>>) = 1
          /\ <<Files!Scan(tree, Files!Top)>>[1] = Files!Scan(tree, Files!Top)
      BY <2>3
    <2> QED
      BY <1>3, <2>2, <2>4 DEF ToScan, X
  <1>12. Behind(<<Files!Top>>, {})
    BY <1>3 DEF Behind
  <1>13. BeingPacked(<<>>, <<Files!Scan(tree, Files!Top)>>)
    <2>1. Scanning(<<Files!Scan(tree, Files!Top)>>, tr[0].calls, Seen(tr, 0))
      BY <1>4, <1>5, <1>6, <1>11, <1>12 DEF Scanning
    <2> QED
      BY <1>10, <2>1 DEF BeingPacked
  <1>14. store = Stored({})
    <2>1. Files!Top \notin DOMAIN tree.files
      BY <1>1, PathsAre
    <2> QED
      BY <1>1, <2>1 DEF Stored
  <1> QED
    BY <1>1, <1>13, <1>14 DEF ImageInv

(* An entry, or the end of a directory.                                    *)
LEMMA BuildImage ==
  ASSUME ImageInv, Build
  PROVE  ImageInv'
  <1>1. /\ pc = "pack" /\ tree \in Trees /\ tree' = tree /\ p' = p /\ calls' = calls
        /\ store' = store /\ p = 0 /\ calls = <<Files!Top>> /\ store = Stored({})
        /\ BeingPacked(image, dirs)
    BY DEF ImageInv, Build, Files!Pack, Files!PackEntry, Files!EndDir
  <1>2. PICK n, tr : Packed(image, n, tr) /\ Scanning(dirs, tr[n].calls, Seen(tr, n))
    BY <1>1 DEF BeingPacked
  <1>3. pc' = "pack" /\ BeingPacked(image', dirs') => ImageInv'
    <2>1. ASSUME BeingPacked(image', dirs') PROVE BeingPacked(image, dirs)'
      <3>1. PICK k, t : Packed(image', k, t) /\ Scanning(dirs', t[k].calls, Seen(t, k))
        BY <2>1 DEF BeingPacked
      <3>2. Packed(image, k, t)' /\ Scanning(dirs, t[k].calls, Seen(t, k))'
        BY <1>1, <3>1, SameTree
      <3> QED
        BY <3>2 DEF BeingPacked
    <2>2. Stored({})' = Stored({})
      BY <1>1, SameTree
    <2> QED
      BY <1>1, <2>1, <2>2 DEF ImageInv
  <1>4. ASSUME NEW q \in Files!Paths(tree), Files!PackEntry(q) PROVE ImageInv'
    <2>1. q \in Files!Last(dirs).left /\ pc' = "pack"
      BY <1>1, <1>4 DEF Files!PackEntry
    <2>2. CASE q \in tree.dirs
      <3>1. image' = Headline(image, Files!D, Files!Last(q))
            /\ dirs' = Files!Front(dirs) \o <<Minus(Files!Last(dirs), q), Files!Scan(tree, q)>>
        BY <1>4, <2>2 DEF Files!PackEntry, Headline, Minus
      <3>2. BeingPacked(image', Files!Front(dirs) \o <<Minus(Files!Last(dirs), q), Files!Scan(tree, q)>>)
        BY <1>1, <1>2, <2>1, <2>2, <3>1, DirPacked
      <3> QED
        BY <1>3, <2>1, <3>1, <3>2
    <2>3. CASE q \notin tree.dirs
      <3>1. /\ image' = Filed(Headline(image, Files!F, Files!Last(q)), tree.files[q])
            /\ dirs' = Append(Files!Front(dirs), Minus(Files!Last(dirs), q))
        BY <1>4, <2>3 DEF Files!PackEntry, Headline, Minus, Filed
      <3>2. BeingPacked(image', Append(Files!Front(dirs), Minus(Files!Last(dirs), q)))
        BY <1>1, <1>2, <2>1, <2>3, <3>1, FilePacked
      <3> QED
        BY <1>3, <2>1, <3>1, <3>2
    <2> QED
      BY <2>2, <2>3
  <1>5. ASSUME Files!EndDir PROVE ImageInv'
    <2>1. Files!Last(dirs).left = {} /\ dirs' = Files!Front(dirs)
      BY <1>5 DEF Files!EndDir
    <2>2. CASE Len(dirs) > 1 /\ image' = Append(image, Files!P) /\ pc' = pc
      <3>1. BeingPacked(image', Files!Front(dirs))
        BY <1>1, <1>2, <2>1, <2>2, EndPacked
      <3> QED
        BY <1>1, <1>3, <2>1, <2>2, <3>1
    <2>3. CASE Len(dirs) = 1 /\ pc' = "load" /\ image' = image
      <3>1. Complete(n, tr)
        BY <1>1, <1>2, <2>1, <2>3, TopPacked
      <3>2. Loads(n, tr, 0)
        <4>1. n \in Nat /\ tr[0].at = 0 /\ tr[0].calls = <<Files!Top>>
          BY <1>2 DEF Packed, Trail
        <4>2. 0 \in 0 .. n
          BY <4>1
        <4>3. Seen(tr, 0) = {}
          BY DEF Seen
        <4> QED
          BY <1>1, <4>1, <4>2, <4>3 DEF Loads
      <3>3. Packed(image, n, tr)' /\ Complete(n, tr)'
        BY <1>1, <1>2, <2>3, <3>1, SameTree
      <3>4. Loads(n, tr, 0)'
        <4>1. Stored(Seen(tr, 0))' = Stored(Seen(tr, 0))
          BY <1>1, SameTree
        <4> QED
          BY <1>1, <3>2, <4>1 DEF Loads
      <3>5. BeingLoaded'
        BY <3>3, <3>4 DEF BeingLoaded
      <3> QED
        BY <1>1, <2>3, <3>5 DEF ImageInv
    <2> QED
      BY <1>5, <2>2, <2>3 DEF Files!EndDir
  <1> QED
    BY <1>4, <1>5 DEF Build, Files!Pack

-----------------------------------------------------------------------------
(* Loading                                                                 *)

(* The piece b is next, after a and the paths that are seen.               *)
Ahead(img, a, b, seen) ==
  /\ img \in Seq(Int) /\ a \in Piece /\ b \in Piece /\ Follows(img, a, b)
  /\ a.at < b.at /\ b.at <= Len(img) /\ img[a.at + 1] = b.mark
  /\ a.calls # <<>> /\ Files!Last(a.calls) \in {Files!Top} \cup seen
  /\ b.mark # Files!P => b.path \notin seen

(* Behind any piece but the last is the next one.                          *)
LEMMA AheadIs ==
  ASSUME tree \in Trees, NEW img, NEW n, NEW tr, Packed(img, n, tr), NEW k \in 0 .. n, k # n
  PROVE  /\ Ahead(img, tr[k], tr[k + 1], Seen(tr, k))
         /\ Seen(tr, k + 1) = More(Seen(tr, k), tr[k + 1]) /\ k + 1 \in 0 .. n
  <1>1. /\ n \in Nat /\ tr \in [0 .. n -> Piece] /\ img \in Seq(Int)
        /\ \A i \in 1 .. n : Follows(img, tr[i - 1], tr[i])
        /\ \A i \in 1 .. n : tr[i].mark # Files!P => tr[i].path \notin Seen(tr, i - 1)
        /\ \A i \in 0 .. n : tr[i].at <= Len(img) /\ Nested(tr[i].calls, Seen(tr, i))
    BY DEF Packed, Trail
  <1>2. /\ k \in Nat /\ k + 1 \in 1 .. n /\ k + 1 \in 0 .. n /\ (k + 1) - 1 = k
    BY <1>1
  <1> DEFINE a == tr[k]
             b == tr[k + 1]
  <1>3. /\ a \in Piece /\ b \in Piece /\ b.at <= Len(img) /\ Nested(a.calls, Seen(tr, k))
    BY <1>1, <1>2
  <1>4. Follows(img, a, b) /\ (b.mark # Files!P => b.path \notin Seen(tr, k))
    BY <1>1, <1>2
  <1>5. Seen(tr, k + 1) = More(Seen(tr, k), b)
    <2>1. \A i : i \in 1 .. k + 1 <=> i = k + 1 \/ i \in 1 .. k
      BY <1>2
    <2> QED
      BY <2>1 DEF Seen, More
  <1> HIDE DEF a, b
  <1>6. a.calls \in Seq(Path) /\ a.at \in Nat /\ b.at \in Nat
    BY <1>3 DEF Piece
  <1>7. a.calls # <<>> /\ Files!Last(a.calls) \in {Files!Top} \cup Seen(tr, k)
    <2>1. Len(a.calls) >= 1 /\ Len(a.calls) \in Nat
      BY <1>3, <1>6 DEF Nested
    <2>2. a.calls # <<>> /\ Len(a.calls) \in 1 .. Len(a.calls)
      BY <2>1
    <2>3. Files!Last(a.calls) = a.calls[Len(a.calls)]
      BY <1>6, <2>2, FrontFacts
    <2> QED
      BY <1>3, <2>2, <2>3 DEF Nested
  <1>8. a.at < b.at /\ img[a.at + 1] = b.mark
    <2>1. CASE Enters(img, a, b)
      <3>1. Files!Last(b.path) \in Seq(1 .. 255)
        BY <1>3, <2>1, PieceParts
      <3>2. Len(Files!Last(b.path)) \in Nat
        BY <3>1
      <3>3. /\ b.at = a.at + Len(Files!Last(b.path)) + 2 /\ b.mark = Files!D
            /\ Named(img, Files!D, a.at, Files!Last(b.path))
        BY <2>1 DEF Enters
      <3>4. a.at < b.at
        BY <1>6, <3>2, <3>3
      <3> QED
        BY <3>3, <3>4 DEF Named
    <2>2. CASE Holds(img, a, b)
      <3>1. Files!Last(b.path) \in Seq(1 .. 255) /\ tree.files[b.path] \in Seq(0 .. 255)
        BY <1>3, <2>2, PieceParts
      <3>2. Len(Files!Last(b.path)) \in Nat /\ Len(tree.files[b.path]) \in Nat
        BY <3>1, LenProperties
      <3>3. /\ b.at = a.at + Len(Files!Last(b.path)) + 2 + 4 + Len(tree.files[b.path])
            /\ b.mark = Files!F /\ Named(img, Files!F, a.at, Files!Last(b.path))
        BY <2>2 DEF Holds
      <3>4. a.at < b.at
        <4>1. \A x, y, z \in Nat : x < x + y + 2 + 4 + z
          OBVIOUS
        <4> QED
          BY <1>6, <3>2, <3>3, <4>1
      <3> QED
        BY <3>3, <3>4 DEF Named
    <2>3. CASE Leaves(img, a, b)
      BY <1>6, <2>3 DEF Leaves
    <2> QED
      BY <1>4, <2>1, <2>2, <2>3 DEF Follows
  <1>9. Ahead(img, a, b, Seen(tr, k))
    BY <1>1, <1>3, <1>4, <1>7, <1>8 DEF Ahead
  <1> QED
    BY <1>2, <1>5, <1>9 DEF a, b

(* A text that is there is what is cut out there.                          *)
LEMMA CutOut ==
  ASSUME NEW img \in Seq(Int), NEW S, NEW s \in Seq(S), NEW from \in Nat, Text(img, from, s),
         NEW to, to = from + Len(s)
  PROVE  SubSeq(img, from + 1, to) = s
  <1> DEFINE t == SubSeq(img, from + 1, to)
  <1>1. Len(s) \in Nat /\ from + 1 \in Int /\ to \in Int
    OBVIOUS
  <1>2. \A i \in from + 1 .. to : i - from \in 1 .. Len(s) /\ from + (i - from) = i
    BY <1>1
  <1>3. \A i \in from + 1 .. to : img[i] \in S
    <2> TAKE i \in from + 1 .. to
    <2>1. img[from + (i - from)] = s[i - from]
      BY <1>2 DEF Text
    <2>2. s[i - from] \in S
      BY <1>2
    <2> QED
      BY <1>2, <2>1, <2>2
  <1>4. /\ t \in Seq(S)
        /\ Len(t) = IF from + 1 <= to THEN to - (from + 1) + 1 ELSE 0
        /\ \A i \in 1 .. to - (from + 1) + 1 : t[i] = img[(from + 1) + i - 1]
    BY <1>1, <1>3, SubSeqProperties
  <1> HIDE DEF t
  <1>5. Len(t) = Len(s)
    BY <1>1, <1>4
  <1>6. ASSUME NEW i \in 1 .. Len(t) PROVE t[i] = s[i]
    <2>1. /\ i \in 1 .. to - (from + 1) + 1 /\ (from + 1) + i - 1 = from + i
          /\ i \in 1 .. Len(s)
      BY <1>1, <1>5
    <2>2. img[from + i] = s[i]
      BY <2>1 DEF Text
    <2> QED
      BY <1>4, <2>1, <2>2
  <1>7. t = s
    BY <1>4, <1>5, <1>6, SeqEqual
  <1> QED
    BY <1>7 DEF t

(* The name behind a mark ends at the first byte that no name has.         *)
LEMMA NameIs ==
  ASSUME image \in Seq(Int), NEW mark, NEW from \in Nat, NEW name \in Seq(1 .. 255),
         Named(image, mark, from, name), from + Len(name) + 2 <= Len(image)
  PROVE  Files!NameAt(from + 1) = name
  <1> DEFINE S == {j \in from + 1 .. Len(image) - 1 : Files!Byte(j) = Files!NUL}
             end == from + 1 + Len(name)
  <1>1. Len(image) \in Nat /\ Len(name) \in Nat /\ end \in Int
    OBVIOUS
  <1>2. /\ \A i \in 1 .. Len(name) : image[(from + 1) + i] = name[i]
        /\ image[from + Len(name) + 2] = Files!NUL
    BY DEF Named, Text
  <1>3. end \in S
    <2>1. end \in from + 1 .. Len(image) - 1 /\ end + 1 = from + Len(name) + 2
      BY <1>1
    <2> HIDE DEF end
    <2> QED
      BY <1>2, <2>1 DEF Files!Byte
  <1>4. \A j \in S : end <= j
    <2> SUFFICES ASSUME NEW j \in S, ~(end <= j) PROVE FALSE
      OBVIOUS
    <2>1. j \in from + 1 .. Len(image) - 1 /\ image[j + 1] = Files!NUL
      BY DEF Files!Byte
    <2>2. j - from \in 1 .. Len(name) /\ (from + 1) + (j - from) = j + 1
      BY <1>1, <2>1
    <2>3. name[j - from] = Files!NUL
      BY <1>2, <2>1, <2>2
    <2>4. name[j - from] \in 1 .. 255
      <3>1. \A i \in 1 .. Len(name) : name[i] \in 1 .. 255
        BY ElementOfSeq
      <3> QED
        BY <2>2, <3>1
    <2> QED
      BY <2>3, <2>4 DEF Files!NUL
  <1>5. S \subseteq Int
    BY <1>1
  <1>6. Files!NameAt(from + 1) = SubSeq(image, (from + 1) + 1, Files!Min(S))
    BY DEF Files!NameAt
  <1> HIDE DEF S
  <1>7. Files!Min(S) = end
    <2> HIDE DEF end
    <2>1. \A x \in S : (\A y \in S : x =< y) => x = end
      BY <1>1, <1>3, <1>4, <1>5
    <2> QED
      BY <1>3, <1>4, <2>1 DEF Files!Min
  <1>8. Text(image, from + 1, name)
    BY DEF Named
  <1>9. SubSeq(image, (from + 1) + 1, end) = name
    <2>1. from + 1 \in Nat /\ end = (from + 1) + Len(name)
      BY <1>1
    <2> HIDE DEF end
    <2> QED
      BY <1>8, <2>1, CutOut
  <1> QED
    BY <1>6, <1>7, <1>9

(* The four bytes of a size make the size.                                 *)
LEMMA SizeIsThere ==
  ASSUME image \in Seq(Int), NEW from \in Nat, NEW k \in Nat, k <= Files!MaxSize,
         Text(image, from, Files!SizeBytes(k))
  PROVE  Files!SizeAt(from) = k
  <1> DEFINE s == Files!SizeBytes(k)
  <1>1. /\ Len(s) = 4 /\ s[1] = k % 256 /\ s[2] = (k \div 256) % 256
        /\ s[3] = (k \div 65536) % 256 /\ s[4] = (k \div 16777216) % 256
    BY SMT DEF Files!SizeBytes
  <1>2. \A i \in 1 .. 4 : image[from + i] = s[i]
    <2>1. Len(s) = 4
      BY SizeIs
    <2> HIDE DEF s
    <2>2. Text(image, from, s)
      BY DEF s
    <2> QED
      BY <2>1, <2>2 DEF Text
  <1> HIDE DEF s
  <1>3. /\ Files!Byte(from) = s[1] /\ Files!Byte(from + 1) = s[2]
        /\ Files!Byte(from + 2) = s[3] /\ Files!Byte(from + 3) = s[4]
    <2>1. /\ 1 \in 1 .. 4 /\ 2 \in 1 .. 4 /\ 3 \in 1 .. 4 /\ 4 \in 1 .. 4
          /\ (from + 1) + 1 = from + 2 /\ (from + 2) + 1 = from + 3 /\ (from + 3) + 1 = from + 4
      OBVIOUS
    <2> QED
      BY <1>2, <2>1 DEF Files!Byte
  <1>4. Files!SizeAt(from) = s[1] + 256 * s[2] + 65536 * s[3] + 16777216 * s[4]
    BY <1>3, SMT DEF Files!SizeAt
  <1>5. k < 2147483648
    BY SMT DEF Files!MaxSize
  <1>6. k = (k % 256) + 256 * ((k \div 256) % 256) + 65536 * ((k \div 65536) % 256)
              + 16777216 * ((k \div 16777216) % 256)
    BY <1>5, SMT
  <1> QED
    BY <1>1, <1>4, <1>6, SMT

(* When nothing is open but the top, every path was seen.                  *)
LEMMA AllSeen ==
  ASSUME tree \in Trees, NEW img, NEW n, NEW tr, Packed(img, n, tr), Complete(n, tr)
  PROVE  Seen(tr, n) = Files!Paths(tree)
  <1> DEFINE seen == Seen(tr, n)
             T == {Len(q) : q \in Files!Paths(tree) \ seen}
  <1> HIDE DEF seen
  <1>1. /\ seen \subseteq Files!Paths(tree)
        /\ \A d \in {Files!Top} \cup (seen \cap tree.dirs) : Scanned(d, seen)
    BY DEF Packed, Closed, Complete, seen
  <1>2. SUFFICES ASSUME T # {} PROVE FALSE
    BY <1>1 DEF seen
  <1>3. T \subseteq Nat
    BY PathsAre
  <1>4. PICK m \in T : \A k \in T : m <= k
    BY <1>2, <1>3, MinimalNat
  <1>5. PICK q \in Files!Paths(tree) \ seen : Len(q) = m
    BY <1>4
  <1>6. /\ q \in Files!Paths(tree) /\ Files!Front(q) \in Path
        /\ Len(Files!Front(q)) = Len(q) - 1 /\ Len(q) \in Nat \ {0}
        /\ Files!Front(q) \in {Files!Top} \cup tree.dirs
        /\ tree.dirs \subseteq Files!Paths(tree)
    BY <1>5, PathsAre
  <1>7. Files!Front(q) \in {Files!Top} \cup (seen \cap tree.dirs)
    <2>1. ASSUME Files!Front(q) \in tree.dirs, Files!Front(q) \notin seen PROVE FALSE
      <3>1. Len(Files!Front(q)) \in T
        BY <1>6, <2>1
      <3> QED
        BY <1>4, <1>5, <1>6, <3>1
    <2> QED
      BY <1>6, <2>1
  <1>8. q \in Files!Entries(tree, Files!Front(q))
    BY <1>6, EntriesAre
  <1> QED
    BY <1>1, <1>5, <1>7, <1>8 DEF Scanned

(* The file or directory of the next piece is new, and in its directory.   *)
LEMMA StoredMore ==
  ASSUME tree \in Trees, NEW img, NEW a, NEW b, NEW seen, Ahead(img, a, b, seen),
         store = Stored(seen), b.mark # Files!P
  PROVE  /\ Append(Files!Last(a.calls), Files!Last(b.path)) = b.path
         /\ b.path \in tree.dirs => Files!Created(b.path) = Stored(More(seen, b))
         /\ b.path \in DOMAIN tree.files =>
              Files!Filled(b.path, tree.files[b.path]) = Stored(More(seen, b))
  <1>1. \E q : q = b.path
    OBVIOUS
  <1>2. PICK q : q = b.path
    BY <1>1
  <1>3. q \in Files!Paths(tree) /\ Files!Front(q) = Files!Last(a.calls)
    <2>1. Enters(img, a, b) \/ Holds(img, a, b)
      BY DEF Ahead, Follows, Leaves
    <2>2. q \in tree.dirs \/ q \in DOMAIN tree.files
      BY <1>2, <2>1 DEF Enters, Holds
    <2>3. Files!Front(q) = Files!Last(a.calls)
      BY <1>2, <2>1 DEF Enters, Holds
    <2> QED
      BY <2>2, <2>3, PathsAre
  <1>4. /\ q # Files!Top /\ q \notin seen /\ Files!Front(q) \in {Files!Top} \cup seen
        /\ q = Append(Files!Front(q), Files!Last(q))
        /\ q \in tree.dirs => q \notin DOMAIN tree.files
    <2>1. Files!Last(a.calls) \in {Files!Top} \cup seen /\ b.path \notin seen
      BY DEF Ahead
    <2> QED
      BY <1>2, <1>3, <2>1, PathsAre
  <1>5. DOMAIN store = {Files!Top} \cup seen
        /\ \A r \in {Files!Top} \cup seen :
             store[r] = IF r \in DOMAIN tree.files THEN tree.files[r] ELSE <<>>
    BY DEF Stored
  <1>6. Files!Created(q) =
          [r \in ({Files!Top} \cup seen) \cup {q} |-> IF r = q THEN <<>> ELSE store[r]]
    BY <1>4, <1>5 DEF Files!Created
  <1>7. Stored(More(seen, b)) =
          [r \in ({Files!Top} \cup seen) \cup {q} |->
             IF r \in DOMAIN tree.files THEN tree.files[r] ELSE <<>>]
    <2>1. {Files!Top} \cup More(seen, b) = ({Files!Top} \cup seen) \cup {q}
      BY <1>2 DEF More
    <2> QED
      BY <2>1 DEF Stored
  <1>8. q \in tree.dirs => Files!Created(q) = Stored(More(seen, b))
    <2>1. ASSUME q \in tree.dirs
          PROVE  \A r \in ({Files!Top} \cup seen) \cup {q} :
                   (IF r = q THEN <<>> ELSE store[r])
                     = (IF r \in DOMAIN tree.files THEN tree.files[r] ELSE <<>>)
      BY <1>4, <1>5, <2>1
    <2> QED
      BY <1>6, <1>7, <2>1
  <1>9. q \in DOMAIN tree.files => Files!Filled(q, tree.files[q]) = Stored(More(seen, b))
    <2>1. ASSUME q \in DOMAIN tree.files
          PROVE  Files!Filled(q, tree.files[q]) =
                   [r \in ({Files!Top} \cup seen) \cup {q} |->
                      IF r = q THEN tree.files[q] ELSE store[r]]
      BY <1>6, <2>1 DEF Files!Filled
    <2>2. ASSUME q \in DOMAIN tree.files
          PROVE  \A r \in ({Files!Top} \cup seen) \cup {q} :
                   (IF r = q THEN tree.files[q] ELSE store[r])
                     = (IF r \in DOMAIN tree.files THEN tree.files[r] ELSE <<>>)
      BY <1>4, <1>5, <2>2
    <2> QED
      BY <1>7, <2>1, <2>2
  <1> QED
    BY <1>2, <1>3, <1>4, <1>8, <1>9

(* The loader reads the next piece, or returns to the kernel.              *)
LEMMA LoadImage ==
  ASSUME ImageInv, LoadVfs
  PROVE  ImageInv'
  <1>1. pc = "load" /\ tree \in Trees /\ tree' = tree /\ image' = image /\ BeingLoaded
    BY DEF ImageInv, LoadVfs, Files!Load, Files!LoadReturn, Files!LoadDir, Files!LoadFile,
           Files!LoadTooLong
  <1>2. PICK n, tr, k : Packed(image, n, tr) /\ Complete(n, tr) /\ Loads(n, tr, k)
    BY <1>1 DEF BeingLoaded
  <1>3. /\ n \in Nat /\ image \in Seq(Int) /\ tr[n].at = Len(image) /\ Len(tr[n].calls) = 1
        /\ k \in 0 .. n /\ p = tr[k].at /\ calls = tr[k].calls /\ store = Stored(Seen(tr, k))
    BY <1>2 DEF Packed, Trail, Complete, Loads
  <1>4. ASSUME NEW m \in 0 .. n, pc' = "load", p' = tr[m].at, calls' = tr[m].calls,
               store' = Stored(Seen(tr, m))
        PROVE  ImageInv'
    <2>1. Packed(image, n, tr)' /\ Complete(n, tr)' /\ Stored(Seen(tr, m))' = Stored(Seen(tr, m))
      BY <1>1, <1>2, SameTree
    <2>2. Loads(n, tr, m)'
      BY <1>4, <2>1 DEF Loads
    <2>3. BeingLoaded'
      BY <2>1, <2>2 DEF BeingLoaded
    <2> QED
      BY <1>1, <1>4, <2>3 DEF ImageInv
  <1>5. CASE k = n
    <2>1. p = Len(image) /\ Len(calls) = 1 /\ ~(p < Len(image))
      BY <1>3, <1>5
    <2>2. Files!LoadReturn
      BY <2>1 DEF LoadVfs, Files!Load, Files!LoadDir, Files!LoadFile, Files!LoadTooLong
    <2>3. pc' = "done" /\ store' = store
      BY <2>1, <2>2 DEF Files!LoadReturn
    <2>4. Seen(tr, n) = Files!Paths(tree)
      BY <1>1, <1>2, AllSeen
    <2>5. store = Files!Contents(tree)
      <3>1. {Files!Top} \cup Files!Paths(tree) = Files!Paths(tree) \cup {Files!Top}
        OBVIOUS
      <3> QED
        BY <1>3, <1>5, <2>4, <3>1 DEF Stored, Files!Contents
    <2>6. store' = Files!Contents(tree)'
      BY <1>1, <2>3, <2>5 DEF Files!Contents, Files!Paths
    <2> QED
      BY <1>1, <2>3, <2>6 DEF ImageInv
  <1>6. CASE k # n
    <2> DEFINE a == tr[k]
               b == tr[k + 1]
               seen == Seen(tr, k)
               name == Files!Last(b.path)
    <2>1. /\ Ahead(image, a, b, seen) /\ Seen(tr, k + 1) = More(seen, b) /\ k + 1 \in 0 .. n
      BY <1>1, <1>2, <1>3, <1>6, AheadIs
    <2>2. /\ p = a.at /\ calls = a.calls /\ store = Stored(seen)
          /\ pc' = "load" /\ p' = b.at /\ calls' = b.calls /\ store' = Stored(More(seen, b))
               => ImageInv'
      BY <1>3, <1>4, <2>1
    <2> HIDE DEF a, b, seen
    <2>3. /\ p < Len(image) /\ Files!Byte(p) = b.mark /\ a \in Piece /\ b \in Piece
          /\ p \in Nat /\ b.at <= Len(image) /\ Follows(image, a, b)
          /\ a.at \in Nat /\ b.at \in Nat /\ Len(image) \in Nat
      <3>1. /\ a \in Piece /\ b \in Piece /\ a.at < b.at /\ b.at <= Len(image)
            /\ image[a.at + 1] = b.mark /\ Follows(image, a, b)
        BY <2>1 DEF Ahead
      <3>2. a.at \in Nat /\ b.at \in Nat /\ Len(image) \in Nat
        BY <1>3, <3>1 DEF Piece
      <3>3. a.at < Len(image)
        BY <3>1, <3>2
      <3> QED
        BY <2>2, <3>1, <3>2, <3>3 DEF Files!Byte
    <2>4. Files!D # Files!F /\ Files!D # Files!P /\ Files!F # Files!P
      BY DEF Files!D, Files!F, Files!P
    <2>5. CASE Files!LoadReturn
      <3>1. b.mark = Files!P
        BY <2>3, <2>5 DEF Files!LoadReturn
      <3>2. Leaves(image, a, b)
        BY <2>3, <2>4, <3>1 DEF Follows, Enters, Holds
      <3>3. b.at = a.at + 1 /\ b.calls = Files!Front(a.calls) /\ Len(a.calls) > 1
        BY <3>2 DEF Leaves
      <3>4. p' = b.at /\ calls' = b.calls /\ pc' = "load" /\ store' = store
        <4>1. ~(p >= Len(image)) /\ Len(calls) # 1
          <5>1. a.calls \in Seq(Path)
            BY <2>3 DEF Piece
          <5>2. Len(a.calls) # 1
            <6>1. ASSUME NEW l \in Nat, l > 1 PROVE l # 1
              BY <6>1
            <6>2. Len(a.calls) \in Nat /\ Len(a.calls) > 1
              BY <3>3, <5>1
            <6> QED
              BY <6>1, <6>2
          <5> QED
            BY <2>2, <2>3, <5>2
        <4> QED
          BY <1>1, <2>2, <2>5, <3>3, <4>1 DEF Files!LoadReturn
      <3>5. More(seen, b) = seen
        BY <3>1 DEF More
      <3> QED
        BY <2>2, <3>4, <3>5
    <2>6. CASE Files!LoadDir
      <3>1. b.mark = Files!D
        BY <2>3, <2>6 DEF Files!LoadDir
      <3>2. Enters(image, a, b)
        BY <2>3, <2>4, <3>1 DEF Follows, Leaves, Holds
      <3>3. /\ b.path \in tree.dirs /\ b.calls = Append(a.calls, b.path)
            /\ Named(image, Files!D, a.at, name) /\ b.at = a.at + Len(name) + 2
        BY <3>2 DEF Enters
      <3>4. name \in Seq(1 .. 255)
        BY <1>1, <2>3, <3>2, PieceParts
      <3> HIDE DEF name
      <3>5. Len(name) \in Nat
        BY <3>4
      <3>6. Files!NameAt(p + 1) = name
        <4>1. a.at + Len(name) + 2 <= Len(image)
          BY <2>3, <3>3
        <4> QED
          BY <1>3, <2>2, <2>3, <3>3, <3>4, <4>1, NameIs
      <3>7. /\ Append(Files!Last(a.calls), name) = b.path
            /\ Files!Created(b.path) = Stored(More(seen, b))
        BY <1>1, <2>1, <2>2, <2>4, <3>1, <3>3, StoredMore DEF name
      <3>8. /\ store' = Stored(More(seen, b)) /\ calls' = b.calls
            /\ p' = p + 1 + Len(name) + 1 /\ pc' = "load"
        BY <1>1, <2>2, <2>6, <3>3, <3>6, <3>7 DEF Files!LoadDir
      <3>9. p + 1 + Len(name) + 1 = b.at
        BY <2>2, <2>3, <3>3, <3>5
      <3> QED
        BY <2>2, <3>8, <3>9
    <2>7. CASE Files!LoadFile
      <3> DEFINE bytes == tree.files[b.path]
                 from == a.at + Len(name) + 2
      <3>1. b.mark = Files!F
        BY <2>3, <2>7 DEF Files!LoadFile
      <3>2. Holds(image, a, b)
        BY <2>3, <2>4, <3>1 DEF Follows, Leaves, Enters
      <3>3. /\ b.path \in DOMAIN tree.files /\ b.calls = a.calls
            /\ Named(image, Files!F, a.at, name)
            /\ Text(image, from, Files!SizeBytes(Len(bytes))) /\ Text(image, from + 4, bytes)
            /\ b.at = from + 4 + Len(bytes)
        BY <3>2 DEF Holds
      <3>4. name \in Seq(1 .. 255) /\ bytes \in Seq(0 .. 255) /\ Len(bytes) <= Files!MaxSize
        BY <1>1, <2>3, <3>2, PieceParts
      <3> HIDE DEF name, bytes
      <3>5. Len(name) \in Nat /\ Len(bytes) \in Nat
        BY <3>4, LenProperties
      <3>6. from \in Nat /\ from + 4 \in Nat /\ (p + 1) + Len(name) + 1 = from
        <4>1. ASSUME NEW x \in Nat, NEW y \in Nat, NEW z, z = x + y + 2
              PROVE  z \in Nat /\ z + 4 \in Nat /\ (x + 1) + y + 1 = z
          BY <4>1
        <4> QED
          BY <2>2, <2>3, <3>5, <4>1
      <3>7. Files!NameAt(p + 1) = name
        <4>1. a.at + Len(name) + 2 <= Len(image)
          BY <2>3, <3>3, <3>5
        <4> QED
          BY <1>3, <2>2, <2>3, <3>3, <3>4, <4>1, NameIs
      <3> HIDE DEF from
      <3>8. Files!SizeAt(from) = Len(bytes)
        BY <1>3, <3>3, <3>4, <3>5, <3>6, SizeIsThere
      <3>9. SubSeq(image, from + 5, from + 4 + Len(bytes)) = bytes
        <4>1. (from + 4) + 1 = from + 5 /\ from + 4 + Len(bytes) = (from + 4) + Len(bytes)
          BY <3>5, <3>6
        <4>2. SubSeq(image, (from + 4) + 1, (from + 4) + Len(bytes)) = bytes
          BY <1>3, <3>3, <3>4, <3>6, CutOut
        <4> QED
          BY <4>1, <4>2
      <3>10. /\ Append(Files!Last(a.calls), name) = b.path
             /\ Files!Filled(b.path, bytes) = Stored(More(seen, b))
        BY <1>1, <2>1, <2>2, <2>4, <3>1, <3>3, StoredMore DEF name, bytes
      <3>11. /\ store' = Files!Filled(Append(Files!Last(calls), name),
                                      SubSeq(image, from + 5, from + 4 + Len(bytes)))
             /\ p' = from + 4 + Len(bytes) /\ calls' = calls /\ pc' = "load"
        BY <1>1, <2>7, <3>6, <3>7, <3>8 DEF Files!LoadFile
      <3> QED
        BY <2>2, <3>3, <3>9, <3>10, <3>11
    <2>8. CASE Files!LoadTooLong
      <3>1. b.mark # Files!P
        BY <2>3, <2>4, <2>8 DEF Files!LoadTooLong
      <3>2. /\ Append(Files!Last(a.calls), name) = b.path
            /\ b.path \in tree.dirs \/ b.path \in DOMAIN tree.files
        BY <1>1, <2>1, <2>2, <2>3, <3>1, StoredMore DEF name, Follows, Enters, Holds, Leaves
      <3>3. Files!NameAt(p + 1) = name
        <4>1. name \in Seq(1 .. 255)
          BY <1>1, <2>3, <3>1, PieceParts DEF name, Follows, Leaves
        <4>2. Named(image, b.mark, a.at, name) /\ a.at + Len(name) + 2 <= Len(image)
          <5>1. CASE Enters(image, a, b)
            BY <2>3, <4>1, <5>1 DEF name, Enters
          <5>2. CASE Holds(image, a, b)
            <6> DEFINE l == Len(tree.files[b.path])
            <6>1. l \in Nat
              BY <1>1, <2>3, <5>2, PieceParts, LenProperties
            <6>2. /\ Named(image, b.mark, a.at, name)
                  /\ b.at = a.at + Len(name) + 2 + 4 + l
              BY <5>2 DEF name, Holds, l
            <6> HIDE DEF l
            <6> QED
              BY <2>3, <4>1, <6>1, <6>2
          <5> QED
            BY <2>3, <3>1, <5>1, <5>2 DEF Follows, Leaves
        <4> HIDE DEF name
        <4> QED
          BY <1>3, <2>2, <2>3, <4>1, <4>2, NameIs
      <3>4. ~Files!Short(b.path) /\ pc' = "overrun"
        BY <2>2, <2>8, <3>2, <3>3 DEF Files!LoadTooLong
      <3>5. b.path \in Files!Paths(tree)
        BY <3>2 DEF Files!Paths
      <3>6. Files!TooLong(tree')
        BY <1>1, <3>4, <3>5 DEF Files!TooLong
      <3> QED
        BY <1>1, <3>4, <3>6 DEF ImageInv
    <2> QED
      BY <2>5, <2>6, <2>7, <2>8 DEF LoadVfs, Files!Load
  <1> QED
    BY <1>5, <1>6

(* Everything else leaves it alone; an image that was unpacked may go.     *)
LEMMA SameImage ==
  ASSUME ImageInv, UNCHANGED <<pc, tree, store>>,
         UNCHANGED <<image, dirs, p, calls>> \/ pc = "done"
  PROVE  ImageInv'
  <1>1. tree' \in Trees /\ pc' = pc
    BY DEF ImageInv
  <1>2. ASSUME pc = "pack" PROVE ImageInv'
    <2>1. /\ BeingPacked(image, dirs) /\ p' = 0 /\ calls' = <<Files!Top>>
          /\ image' = image /\ dirs' = dirs /\ store' = Stored({})
      BY <1>2 DEF ImageInv
    <2>2. Stored({})' = Stored({})
      BY SameTree
    <2>3. PICK n, tr : Packed(image, n, tr) /\ Scanning(dirs, tr[n].calls, Seen(tr, n))
      BY <2>1 DEF BeingPacked
    <2>4. Packed(image, n, tr)' /\ Scanning(dirs, tr[n].calls, Seen(tr, n))'
      BY <2>1, <2>3, SameTree
    <2>5. BeingPacked(image, dirs)'
      BY <2>4 DEF BeingPacked
    <2> QED
      BY <1>1, <1>2, <2>1, <2>2, <2>5 DEF ImageInv
  <1>3. ASSUME pc = "load" PROVE ImageInv'
    <2>1. BeingLoaded /\ image' = image /\ p' = p /\ calls' = calls /\ store' = store
      BY <1>3 DEF ImageInv
    <2>2. PICK n, tr, k : Packed(image, n, tr) /\ Complete(n, tr) /\ Loads(n, tr, k)
      BY <2>1 DEF BeingLoaded
    <2>3. Packed(image, n, tr)' /\ Complete(n, tr)' /\ Stored(Seen(tr, k))' = Stored(Seen(tr, k))
      BY <2>1, <2>2, SameTree
    <2>4. Loads(n, tr, k)'
      BY <2>1, <2>2, <2>3 DEF Loads
    <2>5. BeingLoaded'
      BY <2>3, <2>4 DEF BeingLoaded
    <2> QED
      BY <1>1, <1>3, <2>5 DEF ImageInv
  <1>4. ASSUME pc = "done" PROVE ImageInv'
    <2>1. store' = Files!Contents(tree)'
      BY <1>4 DEF ImageInv, Files!Contents, Files!Paths
    <2> QED
      BY <1>1, <1>4, <2>1 DEF ImageInv
  <1>5. ASSUME pc \notin {"pack", "load", "done"} PROVE ImageInv'
    BY <1>1, <1>5 DEF ImageInv, Files!TooLong
  <1> QED
    BY <1>2, <1>3, <1>4, <1>5

(* ImageUnpacked: the loader finds a mark wherever it looks for one, and   *)
(* the kernel every file and directory that was packed, whatever bytes     *)
(* their names and contents are and in whatever order they were scanned,   *)
(* unless one of their paths is too long for the buffers of the loader,    *)
(* whatever the sizes of these are.                                        *)
THEOREM UnpackAlways == Spec => []ImageUnpacked
  <1>1. Init => ImageInv
    BY InitImage
  <1>2. ImageInv /\ [Next]_vars => ImageInv'
    <2> SUFFICES ASSUME ImageInv, [Next]_vars PROVE ImageInv'
      OBVIOUS
    <2>1. CASE Build
      BY <2>1, BuildImage
    <2>2. CASE LoadVfs
      BY <2>2, LoadImage
    <2>3. CASE ReadTrack \/ Jump
      <3>1. UNCHANGED <<pc, tree, store>> /\ UNCHANGED <<image, dirs, p, calls>>
        BY <2>3 DEF ReadTrack, Jump, imageVars
      <3> QED
        BY <3>1, SameImage
    <2>4. CASE Unpacked
      <3>1. UNCHANGED <<pc, tree, store>> /\ pc = "done"
        BY <2>4 DEF Unpacked
      <3> QED
        BY <3>1, SameImage
    <2>5. CASE SetUp \/ Controller \/ Touched
      <3>1. UNCHANGED <<pc, tree, store>> /\ pc = "done"
        <4>1. UNCHANGED <<pc, tree>> /\ pc = "done"
          BY <2>5 DEF SetUp, Controller, Touched, InKmain, imageVars
        <4>2. ASSUME Input!ControllerWorks \/ Input!KeyPressed \/ Input!MouseMoved
              PROVE  store' = store
          BY <4>2 DEF Input!ControllerWorks, Input!KeyPressed, Input!MouseMoved, Input!Input
        <4>3. ASSUME Input!Program PROVE store' = store
          BY <4>3 DEF Input!Program, Input!Compile, Input!Register, Input!Gate, Input!Lidt,
             Input!Poll, Input!Write, Input!WriteStatus, Input!ReadStatus, Input!Read,
             Input!PicInit, Input!SetMask, Input!Sti
        <4> QED
          BY <2>5, <4>1, <4>2, <4>3 DEF SetUp, Controller, Touched
      <3> QED
        BY <3>1, SameImage
    <2>6. CASE UNCHANGED vars
      <3>1. UNCHANGED <<pc, tree, store>> /\ UNCHANGED <<image, dirs, p, calls>>
        BY <2>6 DEF vars, imageVars
      <3> QED
        BY <3>1, SameImage
    <2> QED
      BY <2>1, <2>2, <2>3, <2>4, <2>5, <2>6 DEF Next, Program
  <1>3. ImageInv => ImageUnpacked
    <2> SUFFICES ASSUME ImageInv PROVE ImageUnpacked
      OBVIOUS
    <2>1. ASSUME pc = "load", p < Len(image) PROVE Files!Byte(p) \in {Files!D, Files!F, Files!P}
      <3>1. BeingLoaded /\ tree \in Trees
        BY <2>1 DEF ImageInv
      <3>2. PICK n, tr, k : Packed(image, n, tr) /\ Complete(n, tr) /\ Loads(n, tr, k)
        BY <3>1 DEF BeingLoaded
      <3>3. k \in 0 .. n /\ p = tr[k].at /\ tr[n].at = Len(image) /\ image \in Seq(Int)
        BY <3>2 DEF Loads, Packed, Trail
      <3>4. k # n
        <4>1. Len(image) \in Nat
          BY <3>3
        <4> QED
          BY <2>1, <3>3, <4>1
      <3>5. Ahead(image, tr[k], tr[k + 1], Seen(tr, k))
        BY <3>1, <3>2, <3>3, <3>4, AheadIs
      <3>6. image[p + 1] = tr[k + 1].mark /\ tr[k + 1] \in Piece
        BY <3>3, <3>5 DEF Ahead
      <3>7. tr[k + 1].mark \in {Files!D, Files!F, Files!P}
        BY <3>6 DEF Piece
      <3> QED
        BY <3>6, <3>7 DEF Files!Byte
    <2> QED
      BY <2>1 DEF ImageInv, ImageUnpacked, Files!ImageUnpacked
  <1> QED
    BY <1>1, <1>2, <1>3, PTL DEF Spec
=============================================================================
