-------------------------------- MODULE Format --------------------------------
(***************************************************************************)
(* Formatted output (lib/format.c), of which the kernel and the init       *)
(* program have a copy each: what a directive prints, against what the C   *)
(* standard says it prints, to which the header says the code tries to     *)
(* adhere.                                                                 *)
(*                                                                         *)
(* A directive has its flags as a set, its width and precision as numbers, *)
(* negative ones only as arguments for a star, and its argument.  The      *)
(* output is a sequence of characters.                                     *)
(***************************************************************************)
EXTENDS Integers, Sequences, FiniteSets, FiniteSetsExt

CONSTANTS
  WORD,           \* bits of the largest integer
  Bits,           \* width in bits of each length prefix: none, hh, h, l ...
  NotGiven        \* a precision that is not there

ASSUME FormatAssumption == WORD \in Nat

FormatSigned == {"d", "i"}
Radix == [d |-> 10, i |-> 10, u |-> 10, o |-> 8, x |-> 16, X |-> 16]

(* Items are text and directives whose width and precision are numbers.    *)
IsSequence(s) == s \in Seq({s[k] : k \in DOMAIN s})
IsItem(i) ==
  IF "text" \in DOMAIN i THEN IsSequence(i.text)
  ELSE /\ i.width \in Int /\ (i.precision = NotGiven \/ i.precision \in Int)
       /\ i.conversion \in {"c", "s"} => IsSequence(i.value)
AreItems(items) == IsSequence(items) /\ \A k \in DOMAIN items : IsItem(items[k])

Times(c, n) == IF n > 0 THEN [k \in 1 .. n |-> c] ELSE <<>>

(* The switch over lookup: an argument is read at the width of its prefix. *)
Fetched(d) ==
  LET w == 2 ^ Bits[d.length]
      v == d.value % w
  IN  IF d.conversion \in FormatSigned /\ 2 * v >= w THEN v - w ELSE v

-----------------------------------------------------------------------------
(* lbl_flags, lbl_width and lbl_precision.                                 *)

GivenFlags(d) ==
  d.flags \ ((IF "+" \in d.flags THEN {" "} ELSE {})
             \cup (IF "-" \in d.flags THEN {"0"} ELSE {}))

Flags(d) ==
  (GivenFlags(d) \cup (IF d.width < 0 THEN {"-"} ELSE {}))
    \ (IF d.precision = NotGiven THEN {} ELSE {"0"})

Width(d) == IF d.width < 0 THEN -d.width ELSE d.width

Precision(d) ==
  IF d.precision = NotGiven \/ d.precision < 0 THEN 1 ELSE d.precision

(* %c and %s: the argument is a sequence of characters.                    *)
Text(d) ==
  LET all == d.value
      str == IF d.conversion = "s" /\ d.precision # NotGiven /\ Precision(d) < Len(all)
             THEN SubSeq(all, 1, Precision(d)) ELSE all
      pad == Times(" ", Width(d) - Len(str))
  IN  IF "-" \in Flags(d) THEN str \o pad ELSE pad \o str

-----------------------------------------------------------------------------
(* lbl_print_number: the digits from the largest power down, ...           *)

Digits == <<"0", "1", "2", "3", "4", "5", "6", "7", "8", "9">>
Digit(c, conversion) ==
  IF c < 10 THEN Digits[c + 1]
  ELSE (IF conversion = "X" THEN <<"A", "B", "C", "D", "E", "F">>
        ELSE <<"a", "b", "c", "d", "e", "f">>)[c - 9]

(* The first loop counts the powers of the radix up to the value; ...      *)
Loops(v, radix) == Cardinality({k \in 1 .. WORD : radix ^ k <= v})

(* ... the last one goes down from there, and without a precision stops    *)
(* where the rest of the value is zero.                                    *)
Stops_Bug(rest, precision) == rest = 0
Stops(rest, precision) == precision = 0 /\ rest = 0

Emitted(v, conversion, precision) ==
  LET radix == Radix[conversion]
      top == Loops(v, radix)
      digit == [k \in 1 .. top + 1 |->
                  Digit((v \div radix ^ (top + 1 - k)) % radix, conversion)]
      emitted == {k \in 1 .. top + 1 : ~Stops(v % radix ^ (top + 2 - k), precision)}
  IN  [k \in 1 .. Cardinality(emitted) |-> digit[k]]

Sign(d, v) ==
  IF v < 0 THEN <<"-">>
  ELSE IF d.conversion \in FormatSigned
       THEN IF "+" \in Flags(d) THEN <<"+">> ELSE IF " " \in Flags(d) THEN <<" ">> ELSE <<>>
       ELSE IF "#" \in Flags(d) /\ d.conversion \in {"x", "X"} /\ v # 0 THEN <<"0", d.conversion>> ELSE <<>>

(* ... after what the length leaves of the width and the precision.        *)
Number(d) ==
  LET v == Fetched(d)
      abs == IF v < 0 THEN -v ELSE v
      radix == Radix[d.conversion]
      p == Precision(d)
      digits == (IF p # 0 \/ abs # 0 THEN 1 ELSE 0) + Loops(abs, radix)
      missing == IF p > digits THEN p - digits ELSE 0
      zeros == IF missing = 0 /\ d.conversion = "o" /\ "#" \in Flags(d) /\ abs # 0
               THEN 1 ELSE missing
      length == digits + zeros + Len(Sign(d, v))
      space == Width(d) - length
      left == IF Flags(d) \cap {"-", "0"} = {} THEN Times(" ", space) ELSE <<>>
      zeroed == IF Flags(d) \cap {"-", "0"} = {"0"} THEN Times("0", space) ELSE <<>>
      right == IF "-" \in Flags(d) THEN Times(" ", space) ELSE <<>>
  IN  IF length = 0 THEN left
      ELSE left \o Sign(d, v) \o zeroed \o Times("0", zeros)
             \o Emitted(abs, d.conversion, p) \o right

(* format: text as it stands, and each directive.                          *)
Literal(s) == [text |-> s]
Directive(d) == IF d.conversion \in {"c", "s"} THEN Text(d) ELSE Number(d)
Output(i) == IF "text" \in DOMAIN i THEN i.text ELSE Directive(i)
format(items) ==
  LET out[k \in 0 .. Len(items)] == IF k = 0 THEN <<>> ELSE out[k - 1] \o Output(items[k])
  IN  out[Len(items)]

-----------------------------------------------------------------------------
(* The C standard (fprintf): the value, its digits to at least the         *)
(* precision, what stands before them, and the width filled up.            *)

CValue(d) ==
  LET half == 2 ^ (Bits[d.length] - 1)
      range == IF d.conversion \in FormatSigned THEN -half .. half - 1 ELSE 0 .. 2 * half - 1
  IN  CHOOSE v \in range : (v - d.value) % (2 * half) = 0

(* The shortest numeral of v, which for zero is empty.                     *)
Numeral(v, conversion) ==
  LET radix == Radix[conversion]
      numeral[n \in 0 .. 2 ^ WORD] ==
        IF n = 0 THEN <<>> ELSE Append(numeral[n \div radix], Digit(n % radix, conversion))
  IN  numeral[v]

AtLeast(n, s) == Times("0", n - Len(s)) \o s

CNumber(d) ==
  LET v == CValue(d)
      precise == d.precision # NotGiven /\ d.precision >= 0
      numeral == Numeral(IF v < 0 THEN -v ELSE v, d.conversion)
      alternative == "#" \in d.flags
      octal == IF alternative /\ d.conversion = "o" THEN Len(numeral) + 1 ELSE 0
      body == AtLeast(Max({octal, IF precise THEN d.precision ELSE 1}), numeral)
      sign == CASE v < 0 -> <<"-">>
                [] v >= 0 /\ d.conversion \in FormatSigned /\ "+" \in d.flags -> <<"+">>
                [] v >= 0 /\ d.conversion \in FormatSigned /\ d.flags \cap {"+", " "} = {" "} -> <<" ">>
                [] v > 0 /\ d.conversion \in {"x", "X"} /\ alternative -> <<"0", d.conversion>>
                [] OTHER -> <<>>
      justified == "-" \in d.flags \/ d.width < 0
      width == Max({d.width, -d.width})
  IN  IF justified THEN sign \o body \o Times(" ", width - Len(sign) - Len(body))
      ELSE IF "0" \in d.flags /\ ~precise THEN sign \o AtLeast(width - Len(sign), body)
      ELSE Times(" ", width - Len(sign) - Len(body)) \o sign \o body

(* A number is printed as the C standard says (format.h:8, format.c:292-   *)
(* 328).  MCConsole asks it of every set of flags with several widths and  *)
(* positive precisions: with precision 0, or a negative one for a star     *)
(* beside the flag 0, the code prints something else.                      *)
AdheresToC(d) == Number(d) = CNumber(d)
===============================================================================
