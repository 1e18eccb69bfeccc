-------------------------------- MODULE Fmt --------------------------------
(***************************************************************************)
(* Formatted output and input of src/mock_libc/fmt.c: one snprintf into a  *)
(* buffer, then one sscanf of what the buffer holds with the same          *)
(* conversions, as they lie between any two programs that exchange text.   *)
(*                                                                         *)
(* A character is a one-letter string. Numbers have the widths of the C    *)
(* types they stand for, as constants: TLC's integers end at 31 bits. A    *)
(* double is a number of eighths; %e and %g print as %f does. %n is left   *)
(* out, and so is # with a double, which reads base uninitialized.         *)
(***************************************************************************)
EXTENDS Integers, Sequences, FiniteSetsExt

Seqs == INSTANCE SequencesExt

CONSTANTS
  CharBits, IntBits, LongLongBits,  \* widths of char, int and long long
  MemSize,     \* bytes of memory from the beginning of the buffer
  Calls        \* the calls: [format, size], a format being the sequence of
               \* its conversions (see FieldType), and size the buffer's; a
               \* literal is a conversion "lit" with the character as text

ASSUME WidthsAssumption ==
  /\ CharBits \in Nat /\ IntBits \in Nat /\ LongLongBits \in Nat
  /\ 0 < CharBits /\ CharBits < IntBits /\ IntBits < LongLongBits

NUL == "NUL"
Unwritten == "junk"
Space == " "
Digit == <<"0","1","2","3","4","5","6","7","8","9","a","b","c","d","e","f">>

Numeric == {"d", "i", "u", "x", "o", "p", "f"}
Signed == {"d", "i"}
Eighths == 8
Abs(n) == IF n < 0 THEN -n ELSE n

Ints == -(2 ^ (IntBits - 1)) .. 2 ^ (IntBits - 1) - 1

(* How much of a text is written: an int that a precision off the          *)
(* arguments can bring below zero, and that write takes for a size_t.      *)
Size(f) ==
  IF f.conv = "s" /\ f.prec # -1 /\ f.prec < Len(f.text) THEN f.prec ELSE Len(f.text)

(* A conversion as the parser of the format leaves it, with its argument,  *)
(* arg when it is a number and text when not. Width and precision are any  *)
(* int, as * takes them off the arguments unchecked.                       *)
FieldType(f) ==
  /\ f.conv \in Numeric \cup {"c", "s", "lit", "%"}
  /\ {f.left, f.plus, f.space, f.alt, f.zero} \subseteq BOOLEAN
  /\ f.width \in Ints /\ f.prec \in Ints
  /\ f.len \in {"hh", "", "ll"}
  /\ f.conv \in Numeric => f.arg \in Int
  /\ f.conv = "f" => /\ ~f.alt /\ f.prec <= 9   \* more do not fit an int
                     /\ Abs(f.arg) < Eighths * 2 ^ LongLongBits   \* nor this a long long
  /\ f.text \in Seq(Seqs!ToSet(f.text)) /\ NUL \notin Seqs!ToSet(f.text)
  /\ f.conv \notin Numeric => Len(f.text) \in Ints /\ f.width - Size(f) \in Ints
  /\ f.conv \in {"lit", "c"} => Len(f.text) = 1
  /\ f.conv = "%" => f.text = <<"%">>

ASSUME CallsAssumption ==
  /\ MemSize \in Nat
  /\ \A c \in Calls : /\ c = [format |-> c.format, size |-> c.size]
                      /\ c.format # <<>> /\ c.format \in Seq(Seqs!ToSet(c.format))
                      /\ c.size \in 0 .. MemSize
                      /\ \A k \in DOMAIN c.format : FieldType(c.format[k])

VARIABLES
  stage,   \* "print", "scan" or "done"
  format,  \* the conversions, with their arguments
  stream,  \* the string stream: size, offs, supposedoffs and the memory
  items,   \* what was printed, item by item: where it lies in full
  full,    \* ghost: every character passed to write
  scan     \* of the scanner: offset, items gone through, num, the values

fmtVars == <<stage, format, stream, items, full, scan>>

-----------------------------------------------------------------------------
(* Numbers of C                                                            *)

Unsigned(n, bits) == n % 2 ^ bits
TwosComplement(n, bits) ==
  LET u == Unsigned(n, bits)
  IN IF u < 2 ^ (bits - 1) THEN u ELSE u - 2 ^ bits

Base(conv) == CASE conv \in {"x", "p"} -> 16 [] conv = "o" -> 8 [] OTHER -> 10

(* The value an integer conversion takes off the arguments. Without ll the *)
(* unsigned conversions read an int and extend its sign.                   *)
Fetch(f) ==
  CASE f.conv \in Signed /\ f.len = "hh" -> TwosComplement(f.arg, CharBits)
    [] f.conv \in Signed /\ f.len = "" -> TwosComplement(f.arg, IntBits)
    [] f.conv \in Signed /\ f.len = "ll" -> TwosComplement(f.arg, LongLongBits)
    [] f.conv = "p" -> Unsigned(f.arg, IntBits)
    [] f.conv \in {"u", "x", "o"} /\ f.len = "ll" -> Unsigned(f.arg, LongLongBits)
    [] OTHER -> Unsigned(TwosComplement(f.arg, IntBits), LongLongBits)

-----------------------------------------------------------------------------
(* Output                                                                  *)

NewStream(size) ==
  [size |-> size, offs |-> 0, supposed |-> 0,
   mem |-> [i \in 0 .. MemSize |-> Unwritten]]

(* Mutation: the terminator is not counted in.                             *)
StrWriteTight(s, data) ==
  LET n == Min({Len(data), Max({0, s.size - s.offs})})
      put(i) == IF i = s.offs + n THEN NUL
                ELSE IF i \in s.offs .. s.offs + n - 1 THEN data[i - s.offs + 1]
                ELSE s.mem[i]
      counted == Unsigned(s.supposed + Len(data), IntBits)
  IN IF s.size = 0 THEN [s EXCEPT !.supposed = counted]
     ELSE [s EXCEPT !.supposed = counted, !.offs = @ + n,
                    !.mem = [i \in DOMAIN @ |-> put(i)]]

(* Writes that follow one another add up to the write of their             *)
(* concatenation, so a conversion is written at once. A size_t counts.     *)
StrWrite(s, data) ==
  LET n == Min({Len(data), Max({0, s.size - 1 - s.offs})})
      put(i) == IF i = s.offs + n THEN NUL
                ELSE IF i \in s.offs .. s.offs + n - 1 THEN data[i - s.offs + 1]
                ELSE s.mem[i]
      counted == Unsigned(s.supposed + Len(data), IntBits)
  IN IF s.size = 0 THEN [s EXCEPT !.supposed = counted]
     ELSE [s EXCEPT !.supposed = counted, !.offs = @ + n,
                    !.mem = [i \in DOMAIN @ |-> put(i)]]

Fill(c, n) == [i \in 1 .. n |-> c]

StringifyULL(n, base) ==
  LET digits[m \in 0 .. n] ==
        IF m = 0 THEN <<>> ELSE Append(digits[m \div base], Digit[(m % base) + 1])
  IN IF n = 0 THEN <<"0">> ELSE digits[n]

Sign(n, plus, space) ==
  IF n < 0 THEN <<"-">> ELSE IF plus THEN <<"+">> ELSE IF space THEN <<Space>> ELSE <<>>
StringifyLL(n, base, plus, space) ==
  Sign(n, plus, space) \o StringifyULL(Abs(n), base)

(* n with the point moved i places to the right.                           *)
Shift(n, i) ==
  LET shifted[k \in 0 .. i] == IF k = 0 THEN n ELSE 10 * shifted[k - 1]
  IN shifted[i]

(* The digits behind the point are cut, not rounded.                       *)
StringifyD(n, plus, space, prec) ==
  LET frac == Abs(n) % Eighths
      digit(i) == Digit[((Shift(frac, i) \div Eighths) % 10) + 1]
  IN Sign(n, plus, space) \o StringifyULL(Abs(n) \div Eighths, 10)
       \o IF prec = 0 THEN <<>> ELSE <<".">> \o [i \in 1 .. prec |-> digit(i)]

(* Decimal places: one by default, where C has six.                        *)
Places(f) == IF f.prec < 0 THEN 1 ELSE f.prec

Number(f) ==
  CASE f.conv \in Signed -> StringifyLL(Fetch(f), 10, f.plus, f.space)
    [] f.conv = "f" -> StringifyD(f.arg, f.plus, f.space, Places(f))
    [] OTHER -> StringifyULL(Fetch(f), Base(f.conv))

Decoration(f) ==
  CASE f.conv = "p" \/ (f.alt /\ f.conv = "x") -> <<"0", "x">>
    [] f.alt /\ f.conv = "o" -> <<"0">>
    [] OTHER -> <<>>

(* By how much the precision exceeds the number; below zero when it is     *)
(* the smaller one, which then widens the padding on the left.             *)
Excess(f) == IF f.prec > 0 /\ f.conv # "f" THEN f.prec - Len(Number(f)) ELSE 0

(* Mutation: the decoration is not taken off the padding.                  *)
NumberFieldTight(f) ==
  LET body == Fill("0", Excess(f)) \o Number(f)
      padding == f.width - Len(Number(f)) - Len(Decoration(f)) - Len(Decoration(f))
  IN CASE Len(Number(f)) >= f.width -> Decoration(f) \o body
       [] f.left -> Decoration(f) \o body \o Fill(Space, padding - Max({0, Excess(f)}))
       [] f.zero -> Decoration(f) \o Fill("0", padding - Excess(f)) \o body
       [] OTHER -> Fill(Space, padding - Excess(f)) \o Decoration(f) \o body

NumberField(f) ==
  LET body == Fill("0", Excess(f)) \o Number(f)
      padding == f.width - Len(Number(f)) - Len(Decoration(f))
  IN CASE Len(Number(f)) >= f.width -> Decoration(f) \o body
       [] Len(Number(f)) < f.width /\ f.left ->
            Decoration(f) \o body \o Fill(Space, padding - Max({0, Excess(f)}))
       [] Len(Number(f)) < f.width /\ ~f.left /\ f.zero ->
            Decoration(f) \o Fill("0", padding - Excess(f)) \o body
       [] OTHER -> Fill(Space, padding - Excess(f)) \o Decoration(f) \o body

(* A size below zero is a size_t that takes write on behind the text, over *)
(* its terminator and what nobody wrote there, to the end of the buffer.   *)
Overruns(f) == Size(f) < 0
Overrun(f) ==
  LET end == Len(f.text) IN
  [i \in 1 .. Unsigned(Size(f), IntBits) |->
     IF i <= end THEN f.text[i] ELSE IF i = end + 1 THEN NUL ELSE Unwritten]

(* %s, %c and %%: the text, cut by a precision, blanks on one side.        *)
Text(f) == IF Overruns(f) THEN Overrun(f) ELSE SubSeq(f.text, 1, Size(f))

TextField(f) ==
  LET blanks == Fill(Space, f.width - Size(f))
  IN IF f.left THEN Text(f) \o blanks ELSE blanks \o Text(f)

Convert(f) ==
  IF f.conv \in Numeric THEN NumberField(f)
  ELSE IF f.conv = "lit" THEN f.text ELSE TextField(f)

-----------------------------------------------------------------------------
(* Input, from the string in the buffer                                    *)

Source ==
  LET end == Min({i \in DOMAIN stream.mem : stream.mem[i] = NUL})
  IN [i \in 1 .. end |-> stream.mem[i - 1]]

CharAt(at) == IF at < Len(Source) THEN Source[at + 1] ELSE NUL

(* The first offset from at on whose character is not among chars.         *)
Past(at, chars) == Min({j \in at .. Len(Source) : CharAt(j) \notin chars})

Whitespace == {Space}   \* newlines, tabs and returns behave like it

Digits(base) == {Digit[i] : i \in 1 .. base}
DigitValue(c) == (CHOOSE i \in 1 .. 16 : Digit[i] = c) - 1

(* The number that digits spell.                                           *)
ValueOf(text, base) ==
  LET n[k \in 0 .. Len(text)] ==
        IF k = 0 THEN 0 ELSE n[k - 1] * base + DigitValue(text[k])
  IN n[Len(text)]

(* The base that stands before the digits, when none is given.             *)
ParseBase(at, base) ==
  CASE base # 0 -> [base |-> base, at |-> at]
    [] base = 0 /\ CharAt(at) # "0" -> [base |-> 10, at |-> at]
    [] base = 0 /\ CharAt(at) = "0" /\ CharAt(at + 1) = "x" ->
         [base |-> 16, at |-> at + 2]
    [] OTHER -> [base |-> 8, at |-> at + 1]

(* At most 64 characters are looked at. A number that does not fit wraps   *)
(* with every digit, which comes to the same as wrapping once.             *)
ParseNum(at, base) ==
  LET b == ParseBase(at, base)
      end == Past(b.at, Digits(b.base))
      n == ValueOf(SubSeq(Source, b.at + 1, end), b.base)
  IN [value |-> Unsigned(n, LongLongBits), at |-> end]

ParseULL(at, base) == ParseNum(IF CharAt(at) = "+" THEN at + 1 ELSE at, base)

(* Mutation: the minus is read over.                                       *)
ParseLLUnsigned(at, base) ==
  ParseNum(IF CharAt(at) \in {"+", "-"} THEN at + 1 ELSE at, base)

ParseLL(at, base) ==
  LET n == ParseNum(IF CharAt(at) \in {"+", "-"} THEN at + 1 ELSE at, base)
  IN IF CharAt(at) = "-" THEN [n EXCEPT !.value = -@] ELSE n

(* A decimal is a number without its point and the places behind it. What  *)
(* an exponent makes of it is inexact, and positive.                       *)
ParseD(at) ==
  LET from == IF CharAt(at) \in {"+", "-"} THEN at + 1 ELSE at
      whole == ParseNum(from, 10)
      pointed == CharAt(whole.at) = "."
      end == IF pointed THEN Past(whole.at + 1, Digits(10)) ELSE whole.at
      places == IF pointed THEN end - whole.at - 1 ELSE 0
      frac == ValueOf(SubSeq(Source, whole.at + 2, end), 10)
      total == Shift(whole.value, places) + frac
      exp == IF CharAt(end + 1) \in {"+", "-"} THEN end + 2 ELSE end + 1
  IN CASE whole.at = from -> [value |-> <<0, 0>>, at |-> from]
       [] whole.at # from /\ CharAt(end) = "e" ->
            [value |-> "inexact", at |-> ParseNum(exp, 10).at]
       [] OTHER -> [value |-> <<IF CharAt(at) = "-" THEN -total ELSE total, places>>,
                    at |-> end]

(* What a conversion reads from at on and stores.                          *)
Parse(conv, at) ==
  LET int(n)  == [n EXCEPT !.value = TwosComplement(@, IntBits)]
      uint(n) == [n EXCEPT !.value = Unsigned(@, IntBits)]
      text(end) == [value |-> SubSeq(Source, at + 1, end), at |-> end]
      next == Min({at + 1, Len(Source)})
  IN CASE conv = "d" -> int(ParseLL(at, 10))
       [] conv = "i" -> int(ParseLL(at, 0))
       [] conv \in {"u", "x", "o", "p"} -> uint(ParseULL(at, Base(conv)))
       [] conv = "f" -> ParseD(at)
       [] conv \in {"c", "%"} -> text(next)
       [] conv = "s" -> text(Min({j \in at .. Len(Source) :
                                    CharAt(j) \in Whitespace \cup {NUL}}))

(* The functions of the strto family on the whole buffer: the number, and  *)
(* the offset that goes to endptr.                                         *)
strtoull(base) == ParseULL(Past(0, {Space}), base)
strtoll(base) == [ParseLL(Past(0, {Space}), base)
                    EXCEPT !.value = TwosComplement(@, LongLongBits)]
strtol(base) == [strtoll(base) EXCEPT !.value = TwosComplement(@, IntBits)]
strtod == ParseD(Past(0, {Space}))

-----------------------------------------------------------------------------
(* The calls                                                               *)

FmtInit ==
  /\ stage = "print"
  /\ \E c \in Calls : format = c.format /\ stream = NewStream(c.size)
  /\ items = <<>> /\ full = <<>>
  /\ scan = [at |-> 0, gone |-> 0, num |-> 0, got |-> <<>>]

(* fmtvprintf goes on to the next item of its format.                      *)
PrintItem ==
  /\ stage = "print" /\ Len(items) < Len(format)
  /\ LET text == Convert(format[Len(items) + 1])
     IN /\ stream' = StrWrite(stream, text)
        /\ full' = full \o text
        /\ items' = Append(items, [from |-> Len(full), to |-> Len(full) + Len(text)])
  /\ UNCHANGED <<stage, format, scan>>

(* The end of the output. The caller reads the buffer back if it was given *)
(* one. (The formats are not empty: an empty one leaves even the           *)
(* terminator out.)                                                        *)
EndPrint ==
  /\ stage = "print" /\ Len(items) = Len(format) /\ stream.size > 0
  /\ stage' = "scan"
  /\ UNCHANGED <<format, stream, items, full, scan>>

(* A literal: blanks were skipped, any other character has to be there.    *)
ScanLiteral(f, at) ==
  \/ /\ f.text[1] \in Whitespace \/ CharAt(at) = f.text[1]
     /\ scan' = [scan EXCEPT !.gone = @ + 1,
                   !.at = IF f.text[1] \in Whitespace THEN at ELSE at + 1]
     /\ UNCHANGED stage
  \/ /\ f.text[1] \notin Whitespace /\ CharAt(at) # f.text[1]
     /\ stage' = "done"
     /\ UNCHANGED scan

(* A conversion that reads nothing ends the scan; %% takes the one back    *)
(* that is added for it, and does so before that is known.                 *)
ScanConversion(f, at) ==
  LET read == Parse(f.conv, at)
      num == IF f.conv = "%" THEN scan.num - 1 ELSE scan.num
  IN
  \/ /\ read.at # at
     /\ scan' = [at |-> read.at, gone |-> scan.gone + 1, num |-> num + 1,
                 got |-> IF f.conv = "%" THEN scan.got
                                         ELSE Append(scan.got, read.value)]
     /\ UNCHANGED stage
  \/ /\ read.at = at
     /\ scan' = [scan EXCEPT !.at = at, !.num = num]
     /\ stage' = "done"

(* fmtvscanf goes on to the next item of its format, which holds the bare  *)
(* conversions: the scanner knows neither flags nor widths nor lengths.    *)
ScanItem ==
  /\ stage = "scan" /\ scan.gone < Len(format)
  /\ LET f == format[scan.gone + 1]
         at == Past(scan.at, Whitespace)
     IN \/ f.conv = "lit" /\ ScanLiteral(f, at)
        \/ f.conv # "lit" /\ ScanConversion(f, at)
  /\ UNCHANGED <<format, stream, items, full>>

EndScan ==
  /\ stage = "scan" /\ scan.gone = Len(format)
  /\ stage' = "done"
  /\ UNCHANGED <<format, stream, items, full, scan>>

FmtNext == PrintItem \/ EndPrint \/ ScanItem \/ EndScan

FmtSpec == FmtInit /\ [][FmtNext]_fmtVars

-----------------------------------------------------------------------------
(* Properties                                                              *)

(* The parts of the state have the shape the program gives them: offs      *)
(* stays below a size that is not zero, and the scanner inside the string. *)
FmtTypeOK ==
  /\ stage \in {"print", "scan", "done"}
  /\ [format |-> format, size |-> stream.size] \in Calls /\ stream.supposed \in Nat
  /\ stream.offs \in 0 .. Max({0, stream.size - 1})
  /\ Len(items) <= Len(format)
  /\ \A k \in DOMAIN items : items[k].from <= items[k].to /\ items[k].to <= Len(full)
  /\ scan.gone \in 0 .. Len(format)
  /\ stage # "print" => scan.at \in 0 .. Len(Source)

(* snprintf, within the bounds of FmtTypeOK: the buffer holds as much of   *)
(* the output as leaves room for the terminator, no byte behind the buffer *)
(* is written, and what is returned is the length the whole output has, as *)
(* a size_t counts it.                                                     *)
SnprintfContract ==
  LET kept == Min({Len(full), Max({0, stream.size - 1})}) IN
  /\ FmtTypeOK
  /\ stream.supposed = Unsigned(Len(full), IntBits)
  /\ stream.offs = kept
  /\ \A i \in 0 .. kept - 1 : stream.mem[i] = full[i + 1]
  /\ items # <<>> /\ stream.size > 0 => stream.mem[kept] = NUL
  /\ \A i \in DOMAIN stream.mem : i >= stream.size => stream.mem[i] = Unwritten

(* A precision smaller than the number pads a field on the left too far.   *)
Undercut(f) ==
  /\ f.conv \in Numeric \ {"f"} /\ ~f.left
  /\ 0 < f.prec /\ f.prec < Len(Number(f)) /\ Len(Number(f)) < f.width

Content(f) ==
  IF f.conv \in Numeric
  THEN Len(Decoration(f)) + Len(Number(f)) + Max({0, Excess(f)}) ELSE Len(Text(f))

(* A field is as wide as asked for, and no wider than that or than what    *)
(* stands in it, whatever flags, precision and sign come together. A text  *)
(* that is overrun has no width to speak of.                               *)
FieldExact ==
  \A k \in DOMAIN items :
    LET f == format[k]
    IN f.conv # "lit" /\ ~Undercut(f) /\ ~Overruns(f) =>
         items[k].to - items[k].from = Max({f.width, Content(f)})

(* Fields the scanner cannot read back: zeros come before the sign, %i     *)
(* takes leading zeros for octal, %x and %p do not know 0x, a word must be *)
(* there and not be overrun, and of a number no more than 64 characters    *)
(* are looked at.                                                          *)
LeadingZeros(f) == Excess(f) > 0 \/ (f.zero /\ ~f.left)
Readable(f) ==
  /\ f.conv \in Numeric => Len(Convert(f)) < 64
  /\ CASE f.conv \in Signed \cup {"f"} ->
            ~LeadingZeros(f) \/ (f.conv # "i" /\ Number(f)[1] \in Digits(10))
       [] f.conv \in {"x", "p"} -> Decoration(f) = <<>>
       [] f.conv \in {"u", "o", "%"} -> TRUE
       [] OTHER -> /\ ~Overruns(f) /\ Text(f) # <<>>
                   /\ Seqs!ToSet(Text(f)) \cap Whitespace = {}

(* The item lies in the buffer whole, and a blank or the end comes after   *)
(* it unless it is a single character.                                     *)
Clear(k) ==
  LET f == format[k] IN
  /\ items[k].to <= stream.offs
  /\ f.conv # "lit" => Readable(f)
  /\ f.conv \in Numeric \cup {"s"} /\ k < Len(format) =>
       format[k + 1].conv = "lit" /\ format[k + 1].text[1] \in Whitespace

Counted(k) == {j \in 1 .. k : format[j].conv \notin {"lit", "%"}}

(* A double comes back without the digits that were not printed.           *)
Printed(f) ==
  CASE f.conv = "f" ->
         LET n == Shift(Abs(f.arg), Places(f)) \div Eighths
         IN <<IF f.arg < 0 THEN -n ELSE n, Places(f)>>
    [] f.conv \in Signed -> TwosComplement(Fetch(f), IntBits)
    [] f.conv \in {"u", "x", "o", "p"} -> Unsigned(Fetch(f), IntBits)
    [] OTHER -> Text(f)

(* What strtoll, strtol, strtoull and strtod make of it: all of the value, *)
(* also of one that sscanf cuts to an int, up to the blank or the end.     *)
Converted(f) ==
  CASE f.conv \in Signed ->
         /\ strtoll(10).value = Fetch(f)
         /\ strtol(10) = [strtoll(10) EXCEPT !.value = Printed(f)]
         /\ CharAt(strtoll(10).at) \in {Space, NUL}
    [] f.conv \in {"u", "x", "o", "p"} ->
         /\ strtoull(Base(f.conv)).value = Fetch(f)
         /\ CharAt(strtoull(Base(f.conv)).at) \in {Space, NUL}
    [] f.conv = "f" ->
         strtod.value = Printed(f) /\ CharAt(strtod.at) \in {Space, NUL}
    [] OTHER -> TRUE

(* What was printed is read back: every value whose field and whose        *)
(* predecessors' fields lie in the buffer whole comes out of the scan as   *)
(* it went in, in its place, and if all do, they are counted right. The    *)
(* first is also what the strto family finds in the buffer.                *)
ReadsBack ==
  stage = "done" =>
    /\ items # <<>> /\ Clear(1) => Converted(format[1])
    /\ \A k \in DOMAIN items :
      (\A j \in 1 .. k : Clear(j)) =>
        /\ Len(scan.got) >= Cardinality(Counted(k))
        /\ k \in Counted(k) =>
             scan.got[Cardinality(Counted(k))] = Printed(format[k])
        /\ k = Len(format) => scan.num = Cardinality(Counted(k))
=============================================================================
