------------------------------- MODULE Strings -------------------------------
(***************************************************************************)
(* The loops over memory and strings and the roundings of mock_libc.c, as  *)
(* functions of the memory they work on: a function from addresses to      *)
(* characters. The interpreter, the renderer and the kernel rest on them.  *)
(* Buffers are inside memory; the two of a call of a str function do not   *)
(* overlap, and every string ends: that is the caller's part.              *)
(***************************************************************************)
EXTENDS Integers, SequencesExt, FiniteSetsExt

CONSTANTS
  Chars,      \* values of a char, 0 among them
  MemSize,    \* bytes of memory
  Fraction,   \* a number is so many of its parts
  Numbers,    \* numbers in these parts
  MaxInt      \* the largest int

ASSUME StringsAssumption ==
  /\ 0 \in Chars /\ Chars \subseteq -128 .. 127
  /\ MemSize \in Nat \ {0} /\ Fraction \in Nat \ {0} /\ Numbers \subseteq Int
  /\ MaxInt \in Nat

NULL == -1
Addresses == 0 .. MemSize - 1
Memories == [Addresses -> Chars]

-----------------------------------------------------------------------------
(* Memory. Each loop moves one byte after the other.                       *)

Up(n) == [k \in 1 .. n |-> k - 1]
Down(n) == [k \in 1 .. n |-> n - k]
MoveEach(m, d, s, n, order) ==
  LET mem[k \in 0 .. n] ==
        IF k = 0 THEN m ELSE [mem[k - 1] EXCEPT ![d + order[k]] = mem[k - 1][s + order[k]]]
  IN mem[n]

memcpy(m, d, s, n) == MoveEach(m, d, s, n, Up(n))
memset(m, s, c, n) ==
  LET mem[k \in 0 .. n] == IF k = 0 THEN m ELSE [mem[k - 1] EXCEPT ![s + k - 1] = c]
  IN mem[n]

(* Mutation: always from the first byte on.                                *)
memmoveUp(m, d, s, n) == MoveEach(m, d, s, n, Up(n))

memmove(m, d, s, n) == MoveEach(m, d, s, n, IF d < s THEN Up(n) ELSE Down(n))

(* Where a loop that compares comes to its end: at the first k that stops. *)
FirstOf(n, Stops(_)) ==
  CHOOSE k \in 0 .. n : (k = n \/ Stops(k)) /\ \A j \in 0 .. k - 1 : ~Stops(j)

Unsigned(c) == c % 256
memcmp(m, a, b, n) ==
  LET k == FirstOf(n, LAMBDA j : m[a + j] # m[b + j])
  IN IF k = n THEN 0 ELSE Unsigned(m[a + k]) - Unsigned(m[b + k])

-----------------------------------------------------------------------------
(* Strings                                                                 *)

IsString(m, s) == \E e \in s .. MemSize - 1 : m[e] = 0
strlen(m, s) == FirstOf(MemSize - s, LAMBDA j : m[s + j] = 0)

(* The first n characters and an end.                                      *)
PutText(m, d, s, n) == [memcpy(m, d, s, n) EXCEPT ![d + n] = 0]
AtMost(n, len) == IF n < len THEN n ELSE len

strcpy(m, d, s) == PutText(m, d, s, strlen(m, s))
strncpy(m, d, s, n) == PutText(m, d, s, AtMost(n, strlen(m, s)))
strcat(m, d, s) == PutText(m, d + strlen(m, d), s, strlen(m, s))
strncat(m, d, s, n) == PutText(m, d + strlen(m, d), s, AtMost(n, strlen(m, s)))

Parts(m, a, b, j) == m[a + j] = 0 \/ m[b + j] = 0 \/ m[a + j] # m[b + j]
strcmp(m, a, b) ==
  LET k == FirstOf(MemSize, LAMBDA j : Parts(m, a, b, j)) IN m[a + k] - m[b + k]

(* The counter is decremented before the characters are compared: it is 0  *)
(* at the last of n characters, and wraps when the loop has used it up.    *)
strncmp(m, a, b, n) ==
  LET k == FirstOf(n, LAMBDA j : Parts(m, a, b, j))
  IN IF k = n - 1 THEN 0 ELSE m[a + k] - m[b + k]

strrchr(m, s, c) == Max({k \in s .. s + strlen(m, s) - 1 : m[k] = c} \cup {NULL})

-----------------------------------------------------------------------------
(* Numbers                                                                 *)

MinInt == -MaxInt - 1
Ints == MinInt .. MaxInt

(* (int)x cuts off behind the point. What does not fit has no defined      *)
(* result; the instruction of the build stores the smallest int.           *)
Whole(x) ==
  LET n == IF x < 0 THEN -((-x) \div Fraction) ELSE x \div Fraction
  IN IF n \in Ints THEN n ELSE MinInt

(* One more and one less as ints: the ends meet.                           *)
IntAfter(n) == IF n = MaxInt THEN MinInt ELSE n + 1
IntBefore(n) == IF n = MinInt THEN MaxInt ELSE n - 1

floor(x) == IF Whole(x) * Fraction > x THEN IntBefore(Whole(x)) ELSE Whole(x)
ceil(x) == IF Whole(x) * Fraction < x THEN IntAfter(Whole(x)) ELSE Whole(x)
trunc(x) == IF x < 0 THEN ceil(x) ELSE floor(x)
round(x) ==
  IF 2 * (x - Whole(x) * Fraction) >= Fraction THEN IntAfter(Whole(x)) ELSE Whole(x)

(* The quotient is that of two numbers, floor's is one in parts.           *)
fmod(x, y) == x - y * floor((x * Fraction) \div y)

-----------------------------------------------------------------------------
(* Properties                                                              *)

Arrived(m, d, s, n) == [a \in Addresses |-> IF a \in d .. d + n - 1 THEN m[s + a - d] ELSE m[a]]

(* memmove moves exactly the bytes that were there before, however the two *)
(* ranges overlap; memcpy does unless the target begins inside the source; *)
(* memset and memcmp touch and compare the n bytes and no other.           *)
MovesExactly ==
  \A m \in Memories, d, s \in Addresses :
    \A n \in 0 .. MemSize - (IF d < s THEN s ELSE d) :
      /\ memmove(m, d, s, n) = Arrived(m, d, s, n)
      /\ d \notin s + 1 .. s + n - 1 => memcpy(m, d, s, n) = Arrived(m, d, s, n)
      /\ \A a \in Addresses : memset(m, d, 0, n)[a] = IF a \in d .. d + n - 1 THEN 0 ELSE m[a]
      /\ memcmp(m, d, s, n) = 0 <=> \A k \in 0 .. n - 1 : m[d + k] = m[s + k]

TextAt(m, s) == [k \in 1 .. strlen(m, s) |-> m[s + k - 1]]
(* Two texts agree in their first k characters, and in no more.            *)
Part(v, w, k) ==
  /\ k <= Len(v) /\ k <= Len(w) /\ \A i \in 1 .. k : v[i] = w[i]
  /\ k = Len(v) \/ k = Len(w) \/ v[k + 1] # w[k + 1]
(* The end of a text counts as a character: only a negative one is before. *)
Before(v, w) ==
  \E k \in 0 .. Len(v) : Part(v, w, k) /\ Append(v, 0)[k + 1] < Append(w, 0)[k + 1]

(* The two strings, the first of them with room for text, do not overlap.  *)
Room(m, d, s, text) ==
  LET last == d + Len(text)
  IN last < MemSize /\ (last < s \/ s + strlen(m, s) < d)
Changes(m, n, d, text) ==
  /\ TextAt(n, d) = text
  /\ \A a \in Addresses \ (d .. d + Len(text)) : n[a] = m[a]

(* What strcmp and strncmp find.                                           *)
Ordered(m, a, b) ==
  LET text == TextAt(m, a)
      other == TextAt(m, b)
      cmp == strcmp(m, a, b)
  IN /\ cmp < 0 <=> Before(text, other)
     /\ cmp = 0 <=> text = other
     /\ \A n \in 0 .. MemSize, k \in 0 .. Len(text) :
          Part(text, other, k) =>
            strncmp(m, a, b, n) = IF k = n - 1 THEN 0
                                  ELSE IF k < n THEN cmp
                                  ELSE m[a + n] - m[b + n]

(* The str functions leave the text that their names promise and change    *)
(* nothing beyond its end; strncpy ends the text even after n characters,  *)
(* one more than its caller counts. strcmp orders by the first difference. *)
(* strncmp does where the texts part before the last of n characters; at   *)
(* the last one it takes them for equal, and after n equal ones looks at   *)
(* the next.                                                               *)
StringsAgree ==
  \A m \in Memories : \A s \in {a \in Addresses : IsString(m, a)} :
    LET text == TextAt(m, s) IN
    /\ \A d \in Addresses, n \in 0 .. MemSize :
         LET cut == SubSeq(text, 1, AtMost(n, Len(text))) IN
         /\ Room(m, d, s, text) => Changes(m, strcpy(m, d, s), d, text)
         /\ Room(m, d, s, cut) => Changes(m, strncpy(m, d, s, n), d, cut)
         /\ IsString(m, d) =>
              LET old == TextAt(m, d) IN
              /\ Room(m, d, s, old \o text) => Changes(m, strcat(m, d, s), d, old \o text)
              /\ Room(m, d, s, old \o cut) => Changes(m, strncat(m, d, s, n), d, old \o cut)
    /\ \A c \in Chars \ {0} :
         LET at == strrchr(m, s, c) IN
         IF at = NULL THEN c \notin Range(text)
         ELSE m[at] = c /\ c \notin Range(TextAt(m, at + 1))
    /\ \A b \in {a \in Addresses : IsString(m, a)} : Ordered(m, s, b)

Below(x) == x \div Fraction
Above(x) == -((-x) \div Fraction)
ToZero(x) == IF x < 0 THEN Above(x) ELSE Below(x)
Nearest(x) == IF x < 0 THEN Above(x) ELSE (2 * x + Fraction) \div (2 * Fraction)

(* The roundings go down, up and to zero; round goes to the nearest, half  *)
(* away from zero, but to zero below zero. fmod leaves the remainder of a  *)
(* division that rounds down, which is never negative for a positive y.    *)
(* All that as long as the whole number in question fits an int: the code  *)
(* goes through one, and of doubles beyond it nothing is promised.         *)
RoundsRight ==
  \A x \in Numbers :
    /\ Below(x) \in Ints => floor(x) = Below(x)
    /\ Above(x) \in Ints => ceil(x) = Above(x)
    /\ ToZero(x) \in Ints => trunc(x) = ToZero(x)
    /\ Nearest(x) \in Ints => round(x) = Nearest(x)
    /\ \A y \in {z \in Numbers : z > 0} : x \div y \in Ints => fmod(x, y) = x % y

(* memmove, the str functions and the roundings do what the C library      *)
(* promises of them, as far as the code keeps it: for every memory, and    *)
(* for numbers whose rounding fits an int.                                 *)
CallsAgree == MovesExactly /\ StringsAgree /\ RoundsRight
=============================================================================
