------------------------------- MODULE MCFmt -------------------------------
(***************************************************************************)
(* Fmt for TLC: every combination of flags for a single conversion, and a  *)
(* few conversions in all orders for formats of several items.             *)
(***************************************************************************)
EXTENDS Fmt, SequencesExt

Plain(conv) ==
  [conv |-> conv, arg |-> 0, text |-> <<>>, left |-> FALSE, plus |-> FALSE,
   space |-> FALSE, alt |-> FALSE, zero |-> FALSE, width |-> 0, prec |-> -1,
   len |-> ""]

OfNumber(conv, n) == [Plain(conv) EXCEPT !.arg = n]
OfText(conv, t) == [Plain(conv) EXCEPT !.text = t]

Flagged(args, widths, precs, lens) ==
  [conv : Numeric \ {"p", "f"}, arg : args, text : {<<>>}, left : BOOLEAN, plus : BOOLEAN,
   space : BOOLEAN, alt : BOOLEAN, zero : BOOLEAN, width : widths,
   prec : precs, len : lens]

(* The extremes of int, the values around zero and numbers of one to three *)
(* digits; with hh and ll the extremes of long long too.                   *)
AllFields ==
  Flagged({-32, -9, -1, 0, 7, 10, 31}, {0, 3, 6}, {-1, 2, 5}, {""})
  \cup Flagged({-9, 7}, {-4, 6}, {-3}, {""})
  \cup Flagged({-256, -9, 3, 255}, {0}, {-1}, {"hh", "ll"})
  \cup {[f EXCEPT !.conv = "f", !.alt = FALSE] :
          f \in Flagged({-12, -1, 0, 4, 83}, {-4, 0, 3, 6}, {-3, -1, 0, 2, 4}, {""})}
  \cup {[OfNumber("p", 30) EXCEPT !.width = x, !.zero = z] : x \in {0, 5}, z \in BOOLEAN}
  \cup {[OfText("s", w) EXCEPT !.left = l, !.width = x, !.prec = p] :
          w \in {<<>>, <<"a">>, <<"g", "h", "i">>}, l \in BOOLEAN,
          x \in {-4, 0, 2, 5}, p \in {-3, -1, 0, 2}}
  \cup {[OfText("c", <<"a">>) EXCEPT !.left = l, !.width = 3] : l \in BOOLEAN}

LineFields ==
  {OfText("lit", <<" ">>), OfText("lit", <<"a">>), OfText("%", <<"%">>),
   OfNumber("d", -8), OfNumber("u", 7), [OfNumber("x", 30) EXCEPT !.width = 5],
   [OfNumber("i", 10) EXCEPT !.plus = TRUE, !.width = 4, !.left = TRUE],
   [OfNumber("f", -12) EXCEPT !.prec = 2],
   OfText("s", <<"g", "h", "i">>), [OfText("s", <<"g">>) EXCEPT !.prec = -2],
   OfText("c", <<"a">>)}

(* One conversion into ample space, and formats of up to three items into  *)
(* buffers that end before, within, between and after them.                *)
MCCalls ==
  [format : {<<f>> : f \in AllFields}, size : {32}]
    \cup [format : BoundedSeq(LineFields, 3) \ {<<>>}, size : {0, 1, 4, 7, 24}]
=============================================================================
