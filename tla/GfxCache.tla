------------------------------ MODULE GfxCache ------------------------------
(***************************************************************************)
(* The screen of src/src/sys/gfx.c. Drawing calls queue commands; gfxSwap  *)
(* hashes them into the cells they touch, and redraws the cells whose hash *)
(* is not the one of the frame before, a run of cells at a time. The       *)
(* frames are those of src/fs/user/user.um: a rectangle over the whole     *)
(* screen, the background image, and then any rectangles, letters, icons   *)
(* and clips.                                                              *)
(*                                                                         *)
(* A hash is the sequence it is computed from, so two frames never collide *)
(* by chance. It takes in the three bytes of padding of a command's slot,  *)
(* which nothing ever writes: pad is what the memory held.                 *)
(***************************************************************************)
EXTENDS Integers, Sequences, FiniteSetsExt

CONSTANTS
  CellSize, CellsX, CellsY,
  Bckg,           \* where the background image lies
  Glyphs,         \* [type, w, h, bits]: letters and icons
  Spots,          \* where glyphs are drawn: [x, y]
  Rects, Clips,   \* rectangles: [x, y, w, h]
  Colors,
  MaxCommands,    \* 4096 in the code
  Pads,           \* what the slots' padding may hold
  FrameCommands,  \* bound: drawing calls of a frame
  MaxFrames       \* bound: frames

(* A letter or icon lies in its box: the loops over its bits do not leave  *)
(* it.                                                                     *)
Parameters ==
  /\ {CellSize, CellsX, CellsY, MaxCommands} \subseteq Nat \ {0}
  /\ FrameCommands \in Nat \ {0, 1} /\ MaxFrames \in Nat
  /\ \A r \in Rects \cup Clips \cup {Bckg} : {r.x, r.y, r.w, r.h} \subseteq Int
  /\ \A s \in Spots : {s.x, s.y} \subseteq Int
  /\ \A g \in Glyphs : /\ g.type \in {"icon", "char"} /\ {g.w, g.h} \subseteq Nat
                       /\ g.bits \subseteq (0 .. g.w - 1) \X (0 .. g.h - 1)

ASSUME ParametersAssumption == Parameters

VARIABLES
  commands, pad,
  hashes1, hashes2,
  backbuffer, pixels,       \* pixels is the memory of the screen
  issued,                   \* drawing calls of this frame, queued or not
  shown, redrawn, tainted,  \* ghosts: the last frame's commands, the cells
                            \* it drew, the pixels clips have made doubtful
  frames                    \* ghost: frames shown

gfxVars == <<commands, pad, hashes1, hashes2, backbuffer, pixels, issued,
          shown, redrawn, tainted, frames>>

Screen == [x |-> 0, y |-> 0, w |-> CellsX * CellSize, h |-> CellsY * CellSize]
Pixels == (0 .. Screen.w - 1) \X (0 .. Screen.h - 1)
Cells == (0 .. CellsX - 1) \X (0 .. CellsY - 1)
CellOf(p) == <<p[1] \div CellSize, p[2] \div CellSize>>

-----------------------------------------------------------------------------
(* Rectangles                                                              *)

Least(a, b) == IF a < b THEN a ELSE b
Greatest(a, b) == IF a > b THEN a ELSE b

(* The width and height are below zero when nothing is shared.             *)
rectIntersect(r, s) ==
  LET x == Greatest(r.x, s.x)
      y == Greatest(r.y, s.y)
  IN [x |-> x, y |-> y, w |-> Least(r.x + r.w, s.x + s.w) - x,
                        h |-> Least(r.y + r.h, s.y + s.h) - y]

rectOverlap(r, s) ==
  r.x < s.x + s.w /\ r.x + r.w > s.x /\ r.y < s.y + s.h /\ r.y + r.h > s.y

Inside(p, r) ==
  r.x <= p[1] /\ p[1] < r.x + r.w /\ r.y <= p[2] /\ p[2] < r.y + r.h

-----------------------------------------------------------------------------
(* Commands                                                                *)

Command(type, r, bits, color) ==
  [type |-> type, x |-> r.x, y |-> r.y, w |-> r.w, h |-> r.h,
   data |-> bits, color |-> color]

(* A full queue refuses the command.                                       *)
Queued(cmds, cmd) ==
  IF Len(cmds) >= MaxCommands THEN cmds ELSE Append(cmds, cmd)

(* The pixels a command is about, clipped or not.                          *)
Covers(cmd, p) ==
  CASE cmd.type \in {"bckg", "rect"} -> Inside(p, cmd)
    [] cmd.type \in {"icon", "char"} -> <<p[1] - cmd.x, p[2] - cmd.y>> \in cmd.data
    [] OTHER -> FALSE

-----------------------------------------------------------------------------
(* gfxRedrawRegion                                                         *)

(* One command: skipped if it does not touch the region. Letters and icons *)
(* are limited by the clip alone, the background by the region alone.      *)
DrawCommand(region, at, cmd) ==
  IF ~rectOverlap(region, cmd) THEN at
  ELSE IF cmd.type = "clip"
  THEN [at EXCEPT !.clip = [x |-> cmd.x, y |-> cmd.y, w |-> cmd.w, h |-> cmd.h]]
  ELSE [at EXCEPT !.back =
         [p \in Pixels |->
            IF /\ Covers(cmd, p)
               /\ cmd.type \in {"bckg", "rect"} => Inside(p, region)
               /\ cmd.type # "bckg" => Inside(p, at.clip)
            THEN cmd.color ELSE @[p]]]

(* The commands are drawn into the backbuffer, the region of it is copied. *)
Redrawn(cmds, at, region) ==
  LET drawn[k \in 0 .. Len(cmds)] ==
        IF k = 0 THEN [back |-> at.back, clip |-> Screen]
        ELSE DrawCommand(region, drawn[k - 1], cmds[k])
      done == drawn[Len(cmds)]
  IN [back |-> done.back,
      pixels |-> [p \in Pixels |-> IF Inside(p, region) THEN done.back[p]
                                   ELSE at.pixels[p]]]

-----------------------------------------------------------------------------
(* gfxSwap                                                                 *)

CellAt(v, cells) == IF v < 0 THEN 0 ELSE Least(v \div CellSize, cells - 1)

(* Mutation: a command is hashed into the cell of its corner only.         *)
TouchesCorner(cmd, cell) ==
  cell = <<CellAt(cmd.x, CellsX), CellAt(cmd.y, CellsY)>>

(* The cells a command is hashed into; what lies beyond an edge of the     *)
(* screen goes into the cells at that edge.                                *)
Touches(cmd, cell) ==
  /\ cell[1] \in CellAt(cmd.x, CellsX) .. CellAt(cmd.x + cmd.w, CellsX)
  /\ cell[2] \in CellAt(cmd.y, CellsY) .. CellAt(cmd.y + cmd.h, CellsY)

(* The hash of a cell: its seed, and the commands that touch it in turn.   *)
HashOf(cmds, cell, seed) ==
  LET hash[k \in 0 .. Len(cmds)] ==
        IF k = 0 THEN seed
        ELSE IF Touches(cmds[k], cell) THEN Append(hash[k - 1], <<cmds[k], pad[k]>>)
        ELSE hash[k - 1]
  IN hash[Len(cmds)]

Hashed(cmds, hashes) == [cell \in Cells |-> HashOf(cmds, cell, hashes[cell])]

(* The i-th cell of the scan, row by row.                                  *)
Scan(i) == <<i % CellsX, i \div CellsX>>

(* A longest run of changed cells in a row begins at the cell; it is the   *)
(* region of the screen that is redrawn.                                   *)
RunStarts(dirty, cell) == cell \in dirty /\ <<cell[1] - 1, cell[2]>> \notin dirty

Run(dirty, cell) ==
  LET length == CHOOSE n \in 1 .. CellsX :
                  /\ \A x \in cell[1] .. cell[1] + n - 1 : <<x, cell[2]>> \in dirty
                  /\ <<cell[1] + n, cell[2]>> \notin dirty
  IN [x |-> cell[1] * CellSize, y |-> cell[2] * CellSize,
      w |-> length * CellSize, h |-> CellSize]

(* The loops over rows and cells.                                          *)
Refreshed(cmds, start, dirty) ==
  LET at[i \in 0 .. CellsX * CellsY] ==
        IF i = 0 THEN start
        ELSE IF RunStarts(dirty, Scan(i - 1))
        THEN Redrawn(cmds, at[i - 1], Run(dirty, Scan(i - 1)))
        ELSE at[i - 1]
  IN at[CellsX * CellsY]

Seeds(seed) == [cell \in Cells |-> <<seed>>]

(* Mutation: the hashes are not started anew.                              *)
ResetForgotten(hashes) == hashes

Reset(hashes) == Seeds("FNV")

(* A command covers the pixel where the clip in effect does not let it.    *)
ClipAt(cmds, k) ==
  LET before == {i \in 1 .. k - 1 : cmds[i].type = "clip"}
  IN IF before = {} THEN Screen ELSE cmds[Max(before)]

Clipped(cmds, k, p) == cmds[k].type # "bckg" /\ ~Inside(p, ClipAt(cmds, k))

Doubtful(cmds) ==
  {p \in Pixels : \E k \in DOMAIN cmds : Covers(cmds[k], p) /\ Clipped(cmds, k, p)}

gfxSwap ==
  /\ issued >= 2
  /\ LET now == Hashed(commands, hashes1)
         dirty == {cell \in Cells : now[cell] # hashes2[cell]}
         done == Refreshed(commands, [back |-> backbuffer, pixels |-> pixels], dirty)
     IN /\ backbuffer' = done.back /\ pixels' = done.pixels
        /\ hashes2' = now /\ hashes1' = Reset(now)
        /\ redrawn' = dirty
        /\ tainted' = Doubtful(commands) \cup {p \in tainted : CellOf(p) \notin dirty}
  /\ commands' = <<>> /\ issued' = 0
  /\ shown' = commands /\ frames' = frames + 1
  /\ UNCHANGED pad

-----------------------------------------------------------------------------
Drawn(cmds, calls) ==
  /\ commands' = cmds /\ issued' = issued + calls
  /\ UNCHANGED <<pad, hashes1, hashes2, backbuffer, pixels, shown, redrawn,
                 tainted, frames>>

InFrame == issued >= 2 /\ issued < FrameCommands

(* The frame of user.um begins with two calls.                             *)
BeginFrame ==
  /\ issued = 0 /\ frames < MaxFrames
  /\ Drawn(Queued(Queued(commands, Command("rect", Screen, {}, "blue")),
                  Command("bckg", Bckg, {}, "image")), 2)

gfxDrawRect ==
  \E r \in Rects, color \in Colors :
    InFrame /\ Drawn(Queued(commands, Command("rect", r, {}, color)), 1)

(* gfxDrawChar and gfxDrawIcon                                             *)
gfxDrawGlyph ==
  \E g \in Glyphs, s \in Spots, color \in Colors :
    /\ InFrame
    /\ Drawn(Queued(commands, Command(g.type, [x |-> s.x, y |-> s.y, w |-> g.w, h |-> g.h],
                                      g.bits, color)), 1)

gfxDrawClip ==
  \E r \in Clips :
    InFrame /\ Drawn(Queued(commands, Command("clip", rectIntersect(r, Screen), {}, "none")), 1)

gfxInit ==
  /\ commands = <<>> /\ issued = 0
  /\ pad \in Pads
  /\ hashes1 = Seeds("0") /\ hashes2 = Seeds("1")
  /\ backbuffer = [p \in Pixels |-> "junk"] /\ pixels = [p \in Pixels |-> "junk"]
  /\ shown = <<>> /\ redrawn = {} /\ tainted = {} /\ frames = 0

gfxNext == BeginFrame \/ gfxDrawRect \/ gfxDrawGlyph \/ gfxDrawClip \/ gfxSwap

GfxSpec == gfxInit /\ [][gfxNext]_gfxVars

-----------------------------------------------------------------------------
(* Properties                                                              *)

(* The queue stays within its memory and the pixels are painted colours.   *)
GfxTypeOK ==
  LET ink == Colors \cup {"blue", "image", "junk"} IN
  /\ Len(commands) <= MaxCommands /\ Len(commands) <= issued
  /\ issued \in 0 .. FrameCommands /\ frames \in 0 .. MaxFrames
  /\ DOMAIN hashes1 = Cells /\ DOMAIN hashes2 = Cells
  /\ backbuffer \in [Pixels -> ink] /\ pixels \in [Pixels -> ink]

(* What the commands paint, drawn one after the other on the whole screen. *)
Painting(cmds) ==
  [p \in Pixels |->
     cmds[Max({k \in DOMAIN cmds : Covers(cmds[k], p) /\ ~Clipped(cmds, k, p)})].color]

(* The screen is what the last frame's commands paint although most of it  *)
(* was drawn in earlier frames, from commands that were then in the queue, *)
(* through a backbuffer that letters of other regions have written into.   *)
(* Not promised are the pixels that a letter, icon or rectangle covered    *)
(* from outside its clip when they were last drawn or since: whether the   *)
(* clip was applied there depends on the run of cells it was drawn with.   *)
PixelsRight ==
  frames > 0 /\ issued = 0
             => LET painting == Painting(shown)
                IN \A p \in Pixels \ tainted : pixels[p] = painting[p]

(* The commands stay in their memory, whatever is drawn beyond it, and the *)
(* screen shows them: gfxPushCommand and gfxSwap together.                 *)
ScreenOK == GfxTypeOK /\ PixelsRight

(* A frame like the one before it draws nothing, from the third on: the    *)
(* hashes of the first two start from other seeds.                         *)
IdleFrameDrawsNothing ==
  [][gfxSwap /\ frames >= 2 /\ commands = shown
       => redrawn' = {} /\ UNCHANGED <<backbuffer, pixels>>]_gfxVars
=============================================================================
