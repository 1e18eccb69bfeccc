----------------------------- MODULE MCGfxCache -----------------------------
(***************************************************************************)
(* A screen of three by two cells for GfxCache, with a letter that crosses *)
(* the edge of a cell, an icon beyond the edge of the screen, and clips    *)
(* that cut the letter, cover the screen or miss it.                       *)
(***************************************************************************)
EXTENDS GfxCache

R(x, y, w, h) == [x |-> x, y |-> y, w |-> w, h |-> h]

SmallBckg == R(1, 1, 4, 2)
SmallGlyphs == {[type |-> "char", w |-> 2, h |-> 1, bits |-> {<<0, 0>>, <<1, 0>>}]}
SmallSpots == {[x |-> 1, y |-> 0], [x |-> 5, y |-> 3]}
SmallRects == {R(-1, 0, 4, 3)}
SmallClips == {R(0, 0, 2, 4), R(-4, -4, 20, 20), R(7, 0, 2, 2)}
SmallPads == {[i \in 1 .. MaxCommands |-> 0], [i \in 1 .. MaxCommands |-> i % 2]}
=============================================================================
