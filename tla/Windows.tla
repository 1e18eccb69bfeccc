------------------------------- MODULE Windows -------------------------------
(***************************************************************************)
(* The desktop: src/fs/user/tasks.um and the windows of microui.um. Once a *)
(* frame every task's window is begun, its controls are updated and ended; *)
(* then dead tasks are deleted and the windows put in order for drawing.   *)
(* Between frames the pointer moves, is pressed and released.              *)
(*                                                                         *)
(* The screen is a line. A window at x covers x .. x + 2: its title the    *)
(* first two places, its close button the second, and its one button the   *)
(* third. Indices of the command list count from zero, as in the code. A   *)
(* container is that of one task for ever: there are more slots in the     *)
(* pool than windows a frame may have.                                     *)
(***************************************************************************)
EXTENDS Integers, SequencesExt

CONSTANTS
  Span,          \* places of the pointer: 0 .. Span - 1
  Places,        \* where new windows are put
  Classes,       \* among "Progman", "Taskview", "About"
  RootListSize,  \* 32 in the code
  MaxTasks,      \* bound: tasks that are created
  MaxZIndex,     \* bound: windows brought to the front
  Dragged        \* bound: where windows may have been dragged to

ASSUME WindowsAssumption ==
  /\ Span \in Nat \ {0} /\ RootListSize \in Nat \ {0} /\ MaxTasks \in Nat \ {0}
  /\ Places # {} /\ Places \subseteq Int

VARIABLES
  tasks, lastTaskId,
  containers,        \* task -> [x, zindex, open, head, tail]
  ctx,               \* [hover, focus, updatedFocus, hoverRoot, nextHoverRoot, lastZIndex]
  mouse,             \* [pos, last, down, pressed]
  rootList, commandList,
  pc, todo,          \* the part of the frame, the windows it has yet to run
  acted, aim, rest   \* ghosts: the buttons that have acted in this frame, the
                     \* control a press after a rest is aimed at, the frames
                     \* for which the pointer has rested

vars == <<tasks, lastTaskId, containers, ctx, mouse, rootList, commandList,
          pc, todo, acted, aim, rest>>

None == 0
NoControl == <<0, "none">>

Covers(c, p) == p \in c.x .. c.x + 2
Covered(part, c, p) ==
  p \in CASE part = "title" -> {c.x, c.x + 1}
          [] part = "close" -> {c.x + 1}
          [] part = "button" -> {c.x + 2}

-----------------------------------------------------------------------------
(* Input                                                                   *)

InputOnly ==
  pc = "input" /\ UNCHANGED <<tasks, lastTaskId, containers, ctx, rootList,
                              commandList, pc, todo, acted, aim, rest>>

input_mouseMove ==
  InputOnly /\ \E p \in 0 .. Span - 1 : mouse' = [mouse EXCEPT !.pos = p]

input_mouseDown ==
  /\ InputOnly
  /\ \E p \in 0 .. Span - 1 :
       mouse' = [mouse EXCEPT !.pos = p, !.down = TRUE, !.pressed = TRUE]

input_mouseUp ==
  InputOnly /\ \E p \in 0 .. Span - 1 : mouse' = [mouse EXCEPT !.pos = p, !.down = FALSE]

-----------------------------------------------------------------------------
(* Controls                                                                *)

setFocus(s, id) == [s EXCEPT !.focus = id, !.updatedFocus = TRUE]

(* The focus is in use; while no button is down the control under the      *)
(* pointer is hovered.                                                     *)
hovering(s, id, over) ==
  [s EXCEPT !.updatedFocus = @ \/ s.focus = id,
            !.hover = IF over /\ ~mouse.down THEN id ELSE @]

(* A press elsewhere and a release take the focus away.                    *)
losingFocus(s, id, over) ==
  IF s.focus = id /\ ((mouse.pressed /\ ~over) \/ ~mouse.down)
  THEN setFocus(s, NoControl) ELSE s

(* A press gives it to the control that is hovered.                        *)
takingFocus(s, id, over) ==
  IF s.hover = id /\ mouse.pressed THEN setFocus(s, id)
  ELSE IF s.hover = id /\ ~over THEN [s EXCEPT !.hover = NoControl]
  ELSE s

(* Mutation: a control does not give up the focus.                         *)
updateControlSticky(s, id, over) == takingFocus(hovering(s, id, over), id, over)

updateControl(s, id, over) ==
  takingFocus(losingFocus(hovering(s, id, over), id, over), id, over)

(* Mutation: the windows under the pointer are not compared.               *)
hoverRootLast(s, w, c) == [s EXCEPT !.nextHoverRoot = IF Covers(c, mouse.pos) THEN w ELSE @]

(* The highest window under the pointer gets the next frame's input.       *)
hoverRootOf(s, w, c) ==
  [s EXCEPT !.nextHoverRoot =
     IF /\ Covers(c, mouse.pos)
        /\ @ = None \/ c.zindex > containers[@].zindex
     THEN w ELSE @]

-----------------------------------------------------------------------------
(* A frame                                                                 *)

(* The control that is on top at a place.                                  *)
ControlAt(p) ==
  LET shown == {w \in DOMAIN tasks \cap DOMAIN containers : Covers(containers[w], p)}
      top == CHOOSE w \in shown : \A v \in shown : containers[v].zindex <= containers[w].zindex
      c == containers[top]
  IN IF shown = {} THEN NoControl
     ELSE CASE Covered("button", c, p) -> <<top, "button">>
            [] Covered("close", c, p) /\ ~tasks[top].noClose -> <<top, "close">>
            [] OTHER -> <<top, "title">>

Rested == mouse.pressed /\ mouse.pos = mouse.last /\ rest = 2

(* A set of task ids in ascending order.                                   *)
Ascending(S) ==
  CHOOSE s \in [1 .. Cardinality(S) -> S] : \A i, j \in DOMAIN s : i < j => s[i] < s[j]

(* Context.begin, and doTasks taking the tasks of the frame.               *)
begin ==
  /\ pc = "input" /\ ctx.lastZIndex < MaxZIndex
  /\ \A w \in DOMAIN containers : containers[w].x \in Dragged
  /\ ctx' = [ctx EXCEPT !.hoverRoot = ctx.nextHoverRoot, !.nextHoverRoot = None]
  /\ rootList' = <<>> /\ commandList' = <<>>
  /\ todo' = Ascending(DOMAIN tasks)
  /\ pc' = "windows"
  /\ acted' = {} /\ aim' = IF Rested THEN {ControlAt(mouse.pos)} ELSE {}
  /\ UNCHANGED <<tasks, lastTaskId, containers, mouse, rest>>

Jump(dst) == [task |-> None, dst |-> dst]
Draw(w) == [task |-> w, dst |-> None]

(* createTask. The loop over the tasks may or may not come to the new one. *)
createTask(class, x) ==
  LET id == lastTaskId + 1 IN
  /\ lastTaskId' = id
  /\ tasks' = [w \in (DOMAIN tasks) \cup {id} |->
                 IF w = id THEN [class |-> class, dead |-> FALSE,
                                 noClose |-> DOMAIN tasks = {}, x |-> x]
                 ELSE tasks[w]]
  /\ todo' \in {Tail(todo), Append(Tail(todo), id)}

(* What a task does when its button has been pressed.                      *)
Submit(w) ==
  \/ /\ tasks[w].class = "Progman" /\ lastTaskId < MaxTasks
     /\ \E class \in Classes, x \in Places : createTask(class, x)
  \/ /\ tasks[w].class = "Taskview"
     /\ \E v \in DOMAIN tasks :
          ~tasks[v].noClose /\ tasks' = [tasks EXCEPT ![v].dead = TRUE]
     /\ todo' = Tail(todo) /\ UNCHANGED lastTaskId

(* Mutation: a closed window does not end its task.                        *)
ClosedLives(ts, w) == ts

Closed(ts, w) == [ts EXCEPT ![w].dead = TRUE]

(* getContainer: a new container is on top.                                *)
Shown(w) ==
  IF w \in DOMAIN containers THEN containers[w]
  ELSE [x |-> tasks[w].x, zindex |-> ctx.lastZIndex + 1, open |-> TRUE, head |-> 0, tail |-> 0]

Full(list) == Len(list) >= RootListSize

(* The context after the window is begun, and after its title, its close   *)
(* button and its button have been updated; closes and submits are what    *)
(* they are pressed for.                                                   *)
mouseOver(w, part) == ctx.hoverRoot = w /\ Covered(part, Shown(w), mouse.pos)
begun(w) ==
  hoverRootOf([ctx EXCEPT !.lastZIndex = IF w \in DOMAIN containers THEN @ ELSE @ + 1],
              w, Shown(w))
title(w) == updateControl(begun(w), <<w, "title">>, mouseOver(w, "title"))
close(w) ==
  IF tasks[w].noClose THEN title(w)
  ELSE updateControl(title(w), <<w, "close">>, mouseOver(w, "close"))
closes(w) == mouse.pressed /\ close(w).focus = <<w, "close">>
button(w) ==
  IF closes(w) THEN close(w)
  ELSE updateControl(close(w), <<w, "button">>, mouseOver(w, "button"))
submits(w) == ~closes(w) /\ mouse.pressed /\ button(w).focus = <<w, "button">>

(* The window after it has been dragged and closed, with the places of its *)
(* commands.                                                               *)
Updated(w) ==
  LET drags == title(w).focus = <<w, "title">> /\ mouse.down
      length == Len(commandList)
  IN [Shown(w) EXCEPT !.x = IF drags THEN @ + mouse.pos - mouse.last ELSE @,
                      !.open = ~closes(w), !.head = length, !.tail = length + 2]

Acts(w) == (IF closes(w) THEN {<<w, "close">>} ELSE {})
           \cup (IF submits(w) THEN {<<w, "button">>} ELSE {})

(* What is left to do when the button is not pressed, or does nothing.     *)
Rests(w) ==
  /\ submits(w) => \/ tasks[w].class \notin {"Progman", "Taskview"}
                   \/ tasks[w].class = "Progman" /\ lastTaskId = MaxTasks
  /\ tasks' = IF closes(w) THEN Closed(tasks, w) ELSE tasks
  /\ todo' = Tail(todo) /\ UNCHANGED lastTaskId

(* beginWindow, the task, endWindow.                                       *)
Window ==
  /\ pc = "windows" /\ todo # <<>> /\ ~Full(rootList)
  /\ LET w == Head(todo)
         length == Len(commandList)
     IN /\ ctx' = button(w)
        /\ rootList' = Append(rootList, w)
        /\ commandList' = commandList \o <<Jump(length + 3), Draw(w), Jump(-1)>>
        /\ containers' = [v \in (DOMAIN containers) \cup {w} |->
                            IF v = w THEN Updated(w) ELSE containers[v]]
        /\ acted' = acted \cup Acts(w)
        /\ (submits(w) /\ Submit(w)) \/ Rests(w)
  /\ UNCHANGED <<mouse, pc, aim, rest>>

(* push: assert that the list is not full                                  *)
Panic ==
  /\ pc = "windows" /\ todo # <<>> /\ Full(rootList)
  /\ pc' = "panic"
  /\ UNCHANGED <<tasks, lastTaskId, containers, ctx, mouse, rootList, commandList,
                 todo, acted, aim, rest>>

Swapped(a, i, j) == [a EXCEPT ![i + 1] = a[j + 1], ![j + 1] = a[i + 1]]

(* Mutation: the item before the last is not looked at.                    *)
partitionEarly(a, lo, hi, z) ==
  LET low[k \in 0 .. hi - lo] ==
        IF k = 0 THEN [a |-> a, i |-> lo - 1]
        ELSE LET r == low[k - 1] IN
             IF k < hi - lo /\ z[r.a[lo + k]] < z[a[hi + 1]]
             THEN [a |-> Swapped(r.a, r.i + 1, lo + k - 1), i |-> r.i + 1] ELSE r
      r == low[hi - lo]
  IN [a |-> Swapped(r.a, r.i + 1, hi), i |-> r.i + 1]

(* The items lo .. hi - 1 that are below item hi go before it; i is the    *)
(* last place they take. z has the zindices.                               *)
partition(a, lo, hi, z) ==
  LET low[k \in 0 .. hi - lo] ==
        IF k = 0 THEN [a |-> a, i |-> lo - 1]
        ELSE LET r == low[k - 1] IN
             IF z[r.a[lo + k]] < z[a[hi + 1]]
             THEN [a |-> Swapped(r.a, r.i + 1, lo + k - 1), i |-> r.i + 1] ELSE r
      r == low[hi - lo]
  IN [a |-> Swapped(r.a, r.i + 1, hi), i |-> r.i + 1]

(* sort[[a, lo, hi]] is a with its items lo .. hi in order.                *)
qsort(roots, z) ==
  LET n == Len(roots)
      sort[q \in [a : [1 .. n -> DOMAIN z], lo : 0 .. n, hi : -1 .. n - 1]] ==
        IF q.lo >= q.hi THEN q.a
        ELSE LET p == partition(q.a, q.lo, q.hi, z)
                 low == sort[[a |-> p.a, lo |-> q.lo, hi |-> p.i - 1]]
             IN sort[[a |-> low, lo |-> p.i + 1, hi |-> q.hi]]
  IN sort[[a |-> roots, lo |-> 0, hi |-> n - 1]]

(* The first command jumps to the lowest window, each window's end to the  *)
(* window above it, and the end of the highest out of the list.            *)
Linked(cmds, roots) ==
  LET n == Len(roots)
      begins(k) == containers[roots[k]].head + 1
      tails == [k \in 1 .. n |-> containers[roots[k]].tail]
  IN [i \in DOMAIN cmds |->
        IF i = 1 THEN Jump(begins(1))
        ELSE IF \E k \in 1 .. n : tails[k] = i - 1
        THEN LET k == CHOOSE k \in 1 .. n : tails[k] = i - 1
             IN Jump(IF k = n THEN Len(cmds) ELSE begins(k + 1))
        ELSE cmds[i]]

(* The rest of doTasks, then Context.end.                                  *)
end ==
  /\ pc = "windows" /\ todo = <<>>
  /\ LET front == /\ mouse.pressed /\ ctx.nextHoverRoot # None
                  /\ containers[ctx.nextHoverRoot].zindex < ctx.lastZIndex
         z == IF front THEN ctx.lastZIndex + 1 ELSE ctx.lastZIndex
         raised == IF front THEN [containers EXCEPT ![ctx.nextHoverRoot].zindex = z]
                   ELSE containers
         roots == qsort(rootList, [w \in DOMAIN raised |-> raised[w].zindex])
     IN /\ ctx' = [ctx EXCEPT !.focus = IF ctx.updatedFocus THEN @ ELSE NoControl,
                              !.updatedFocus = FALSE, !.lastZIndex = z]
        /\ containers' = raised
        /\ rootList' = roots
        /\ commandList' = Linked(commandList, roots)
  /\ tasks' = [w \in {v \in DOMAIN tasks : ~tasks[v].dead} |-> tasks[w]]
  /\ mouse' = [mouse EXCEPT !.pressed = FALSE, !.last = mouse.pos]
  /\ rest' = IF mouse.pressed \/ mouse.down THEN 0
             ELSE IF mouse.pos = mouse.last /\ rest > 0 THEN 2 ELSE 1
  /\ pc' = "input"
  /\ UNCHANGED <<lastTaskId, todo, acted, aim>>

(* One place of the list: a jump is followed, a draw is yielded, and the   *)
(* end is where the index stays.                                           *)
nextCommand(cmds, r) ==
  IF r.idx \notin 0 .. Len(cmds) - 1 THEN r
  ELSE LET cmd == cmds[r.idx + 1] IN
       IF cmd.task = None THEN [idx |-> cmd.dst, windows |-> r.windows]
       ELSE [idx |-> r.idx + 1, windows |-> Append(r.windows, cmd.task)]

(* The renderer's loop over the list, from its first place.                *)
Drawn(cmds) ==
  LET walk[k \in 0 .. Len(cmds)] ==
        IF k = 0 THEN [idx |-> 0, windows |-> <<>>] ELSE nextCommand(cmds, walk[k - 1])
  IN walk[Len(cmds)]

Init ==
  /\ tasks = [w \in {1} |-> [class |-> "Progman", dead |-> FALSE, noClose |-> TRUE, x |-> 0]]
  /\ lastTaskId = 1
  /\ containers = <<>>
  /\ ctx = [hover |-> NoControl, focus |-> NoControl, updatedFocus |-> FALSE,
            hoverRoot |-> None, nextHoverRoot |-> None, lastZIndex |-> 0]
  /\ mouse = [pos |-> 0, last |-> 0, down |-> FALSE, pressed |-> FALSE]
  /\ rootList = <<>> /\ commandList = <<>>
  /\ pc = "input" /\ todo = <<>>
  /\ acted = {} /\ aim = {} /\ rest = 0

Next == \/ input_mouseMove \/ input_mouseDown \/ input_mouseUp
        \/ begin \/ Window \/ Panic \/ end

Spec == Init /\ [][Next]_vars

-----------------------------------------------------------------------------
(* Properties                                                              *)

Controls == ((DOMAIN containers) \X {"title", "close", "button"}) \cup {NoControl}

TypeOK ==
  /\ DOMAIN tasks \subseteq 1 .. lastTaskId /\ lastTaskId \in 1 .. MaxTasks
  /\ DOMAIN containers \subseteq 1 .. lastTaskId
  /\ ctx.hover \in Controls /\ ctx.focus \in Controls
  /\ ctx.hoverRoot \in (DOMAIN containers) \cup {None}
  /\ ctx.nextHoverRoot \in (DOMAIN containers) \cup {None}
  /\ Len(rootList) <= RootListSize /\ Len(commandList) = 3 * Len(rootList)
  /\ \A w \in DOMAIN containers : containers[w].zindex \in 1 .. ctx.lastZIndex
  /\ mouse.pos \in 0 .. Span - 1 /\ mouse.last \in 0 .. Span - 1

(* What the loop over nextCommand yields, frame after frame: the windows   *)
(* of the frame, each once, from the lowest to the highest, whatever order *)
(* they ran in, were created, closed and brought to the front. The index   *)
(* goes through at most as many places as there are commands and comes to  *)
(* their end.                                                              *)
DrawnInOrder ==
  pc = "input" =>
    /\ Drawn(commandList) = [idx |-> Len(commandList), windows |-> rootList]
    /\ \A k \in 1 .. Len(rootList) - 1 :
         containers[rootList[k]].zindex < containers[rootList[k + 1]].zindex

(* A press after the pointer has rested for two frames acts on the control *)
(* that is on top there, on no other, and is not lost. (A press that       *)
(* follows a move at once acts on the control that was hovered before it,  *)
(* which may be covered or elsewhere.)                                     *)
RestedPressHitsTop ==
  aim # {} => /\ acted \subseteq aim
              /\ pc = "input" => acted = aim \ (((DOMAIN containers) \X {"title"}) \cup {NoControl})

(* A button that is held acts once in a frame, whatever moves, presses and *)
(* releases came before: it does not close a window and launch a program.  *)
(* (A press that is released before the frame may act twice, on what was   *)
(* hovered before and then on what it hovers itself.)                      *)
ActsOnce == pc # "input" /\ mouse.down => \A a, b \in acted : a = b

(* Between frames no task is left without its window: who was closed or    *)
(* killed is gone, and the first window can be neither.                    *)
TasksAreOpen ==
  pc = "input" =>
    /\ \E w \in DOMAIN tasks : tasks[w].noClose
    /\ \A w \in DOMAIN tasks :
         ~tasks[w].dead /\ (w \in DOMAIN containers => containers[w].open)

(* The focus is with a control that was shown in the last frame.           *)
FocusIsShown ==
  pc = "input" /\ ctx.focus # NoControl => ctx.focus[1] \in Range(rootList)

(* Only too many windows stop the machine.                                 *)
PanicOnlyWhenFull == pc = "panic" => Cardinality(DOMAIN tasks) > RootListSize

(* Tasks, windows and focus belong together over any sequence of frames:   *)
(* doTasks, which deletes behind its loop, setFocus and push must see to   *)
(* it that none refers to what is gone.                                    *)
DesktopOK == TypeOK /\ TasksAreOpen /\ FocusIsShown /\ PanicOnlyWhenFull
=============================================================================
