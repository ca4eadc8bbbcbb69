-------------------------------- MODULE Text --------------------------------
(***************************************************************************)
(* Numbers and strings of the firmware library: sw/utils.c,                *)
(* sw/printutils.c, libcemu.c of sw/arch.  The functions are pure: a state *)
(* is one call with its arguments, and the properties compare what it      *)
(* yields with what it is for.                                             *)
(*                                                                         *)
(* A character is the index of its digit, 0 .. 35 (digits[33] is the x of a*)
(* prefix), or negative; a string ends before its zero.                    *)
(***************************************************************************)
EXTENDS Integers, Sequences

CONSTANTS
  LongBits, ShortBits,  \* 32, and 16 of the unsigned short in parse_dec
  Limit,                \* characters a string without precision is limited to: 32
  MaxText,              \* bound: characters of a string
  Numbers, Sizes        \* bounds: numbers printed, widths and precisions; -1 is
                        \*   one not given, a lower one is a negative argument of *

ASSUME TextAssumption ==
  /\ LongBits \in {4 * k : k \in 1 .. 8} /\ ShortBits \in 4 .. LongBits
  /\ Limit \in Nat \ {0} /\ MaxText \in Nat
  /\ Numbers \subseteq 0 .. 2 ^ LongBits - 1 /\ Sizes \subseteq Int

VARIABLE sample    \* the call

Blank == -1
Minus == -2
Plus == -3
Other == -4        \* not a digit
Char == {0, 1, 9, 10, 15, Other}
Texts == UNION {[1 .. n -> Char] : n \in 0 .. MaxText}
Flag == {"ZEROPAD", "PLUS", "SPACE", "LEFT", "SPECIAL"}

Calls ==
  [op : {"parse"}, s : Texts]
    \cup [op : {"number"}, conv : {"d", "u", "o", "x", "p"}, num : Numbers, qualifier : {"h", "l"},
          flags : SUBSET Flag, width : Sizes, precision : Sizes]
    \cup [op : {"string"}, conv : {"c"}, s : [1 .. 1 -> Char],
          flags : SUBSET {"LEFT"}, width : Sizes, precision : {-1}]
    \cup [op : {"string"}, conv : {"s"}, s : Texts,
          flags : SUBSET {"LEFT"}, width : Sizes, precision : Sizes]
    \cup [op : {"strcmp"}, s : Texts, t : Texts]

TextInit == sample = [op |-> "none"]

TextCall == sample.op = "none" /\ sample' \in Calls
TextReturn == sample.op # "none" /\ sample' = [op |-> "none"]
TextNext == TextCall \/ TextReturn

-----------------------------------------------------------------------------
Long == 2 ^ LongBits
Short == 2 ^ ShortBits
Larger(a, b) == IF a > b THEN a ELSE b
Repeat(n, c) == [i \in 1 .. n |-> c]       \* none if n is negative

(* The loops that read a number stop at the first other character, and then*)
(* store nothing.  A hexadecimal one loses its first digits, a decimal one *)
(* wraps.                                                                  *)
Parse(s, base, size) ==
  LET value[i \in 0 .. Len(s)] ==     \* of the first i characters
        IF i = 0 THEN {0}
        ELSE IF s[i] \notin 0 .. base - 1 THEN {}
        ELSE {(d * base + s[i]) % size : d \in value[i - 1]}
  IN  value[Len(s)]

parse_hex_Signed(s) == Parse(s, 16, Long \div 2)     \* the top bit is lost
parse_hex(s) == Parse(s, 16, Long)
parse_dec(s) == Parse(s, 10, Short)

(* What is left of a number once its last k digits are found.              *)
Quotients(val, base) ==
  LET left[k \in 0 .. LongBits] == IF k = 0 THEN val ELSE left[k - 1] \div base
  IN  left

(* Its digits, until nothing is left: to_dec and number.                   *)
Digits_Short(val, base) ==     \* ends when one digit is left
  LET left == Quotients(val, base)
      n == CHOOSE n \in 1 .. LongBits : left[n] < base /\ \A k \in 1 .. n - 1 : left[k] >= base
  IN  [i \in 1 .. n |-> left[n - i] % base]

Digits(val, base) ==
  LET left == Quotients(val, base)
      n == CHOOSE n \in 1 .. LongBits : left[n] = 0 /\ \A k \in 1 .. n - 1 : left[k] # 0
  IN  [i \in 1 .. n |-> left[n - i] % base]

to_dec(val) == Digits(val, 10)

(* put_byteval and put_shortval: n digits.                                 *)
put_val(val, n) == [i \in 1 .. n |-> Quotients(val, 16)[n - i] % 16]

-----------------------------------------------------------------------------
Negative(num) == num >= Long \div 2

Sign(num, type) ==
  IF "SIGN" \notin type THEN <<>>
  ELSE IF Negative(num) THEN <<Minus>>
  ELSE IF "PLUS" \in type THEN <<Plus>>
  ELSE IF "SPACE" \in type THEN <<Blank>> ELSE <<>>

Prefix(base, type) ==
  IF "SPECIAL" \notin type \/ base = 10 THEN <<>>
  ELSE IF base = 8 THEN <<0>> ELSE <<0, 33>>

number_ZeroFirst(num, base, size, precision, type) ==     \* zeros pad before the sign
  LET sign == Sign(num, type)
      prefix == Prefix(base, type)
      tmp == Digits(IF sign = <<Minus>> THEN (Long - num) % Long ELSE num, base)
      free == size - Len(sign) - Len(prefix) - Larger(precision, Len(tmp))
  IN  (IF "LEFT" \in type THEN <<>>
       ELSE Repeat(free, IF "ZEROPAD" \in type THEN 0 ELSE Blank))
        \o sign \o prefix
        \o Repeat(precision - Len(tmp), 0) \o tmp
        \o (IF "LEFT" \in type THEN Repeat(free, Blank) ELSE <<>>)

number(num, base, size, precision, type) ==
  LET sign == Sign(num, type)
      prefix == Prefix(base, type)
      tmp == Digits(IF sign = <<Minus>> THEN (Long - num) % Long ELSE num, base)
      free == size - Len(sign) - Len(prefix) - Larger(precision, Len(tmp))
  IN  (IF type \cap {"ZEROPAD", "LEFT"} = {} THEN Repeat(free, Blank) ELSE <<>>)
        \o sign \o prefix
        \o (IF type \cap {"ZEROPAD", "LEFT"} = {"ZEROPAD"} THEN Repeat(free, 0) ELSE <<>>)
        \o Repeat(precision - Len(tmp), 0) \o tmp
        \o (IF "LEFT" \in type THEN Repeat(free, Blank) ELSE <<>>)

(* The loop ends before the last character it may look at.                 *)
strnlen_Over(s, maxlen) == IF Len(s) <= maxlen + 1 THEN Len(s) ELSE maxlen + 1
strnlen(s, maxlen) == IF Len(s) < maxlen THEN Len(s) ELSE maxlen - 1

(* One conversion of vsprintf.  A negative width is an argument of *.      *)
type(c) ==
  c.flags \cup (IF c.width < -1 THEN {"LEFT"} ELSE {})
          \cup (IF c.conv = "d" THEN {"SIGN"} ELSE {})
          \cup (IF c.conv = "p" /\ c.width = -1 THEN {"ZEROPAD"} ELSE {})

field_width(c) ==
  IF c.width < -1 THEN -c.width
  ELSE IF c.conv = "p" /\ c.width = -1 THEN LongBits \div 2 ELSE c.width

argument(c) ==
  LET num == c.num % Short
  IN  IF c.qualifier = "l" \/ c.conv = "p" THEN c.num
      ELSE IF c.conv = "d" /\ num >= Short \div 2 THEN Long - Short + num ELSE num

vsprintf(c) ==
  IF c.op = "number" THEN
    number(argument(c), IF c.conv \in {"x", "p"} THEN 16 ELSE IF c.conv = "o" THEN 8 ELSE 10,
           field_width(c), c.precision, type(c))
  ELSE
    LET len == IF c.conv = "c" THEN 1
               ELSE strnlen(c.s, IF c.precision <= 0 THEN Limit ELSE c.precision)
        pad == Repeat(field_width(c) - len, Blank)
    IN  IF "LEFT" \in type(c) THEN SubSeq(c.s, 1, len) \o pad ELSE pad \o SubSeq(c.s, 1, len)

strcmp_Prefix(a, b) ==     \* the end of either string ends the comparison
  IF \A i \in 1 .. Len(a) : i <= Len(b) => a[i] = b[i] THEN 0 ELSE -1

(* It runs to the first difference, the zero being one more character.     *)
strcmp(a, b) ==
  LET at(s, i) == IF i <= Len(s) THEN s[i] ELSE -9
      stop == CHOOSE i \in 1 .. MaxText + 1 :
                /\ at(a, i) # at(b, i) \/ at(a, i) = -9
                /\ \A j \in 1 .. i - 1 : at(a, j) = at(b, j) /\ at(a, j) # -9
  IN  IF at(a, stop) = -9 /\ at(b, stop) = -9 THEN 0 ELSE -1

-----------------------------------------------------------------------------
(* The number a sequence of digits stands for, by their places.            *)
Reads(s, base) ==
  LET place[k \in 0 .. Len(s)] == IF k = 0 THEN 1 ELSE place[k - 1] * base
      sum[i \in 0 .. Len(s)] == IF i = 0 THEN 0 ELSE sum[i - 1] + s[i] * place[Len(s) - i]
  IN  sum[Len(s)]

AllDigits(s, base) == \A i \in 1 .. Len(s) : s[i] \in 0 .. base - 1

(* A text is taken for the number it shows, cut to the width it is kept in,*)
(* or for none if any of its characters is not a digit; an empty text is   *)
(* zero.                                                                   *)
ParseRight ==
  sample.op = "parse" =>
    /\ parse_hex(sample.s) = IF AllDigits(sample.s, 16) THEN {Reads(sample.s, 16) % Long} ELSE {}
    /\ parse_dec(sample.s) = IF AllDigits(sample.s, 10) THEN {Reads(sample.s, 10) % Short} ELSE {}

(* What is printed can be read back: by place, and by the firmware.        *)
PrintedReads ==
  sample.op = "number" =>
    /\ parse_dec(to_dec(sample.num % Short)) = {sample.num % Short}
    /\ parse_hex(put_val(sample.num, LongBits \div 4)) = {sample.num}

(* Whatever flags are combined, a number fills its field exactly unless it *)
(* needs more; its sign and its prefix stand before its digits, only blanks*)
(* outside; there are at least as many digits as the precision, no zero    *)
(* before the others that neither it nor the field asks for, and they read *)
(* as its value: the most negative one and a signed short, too.            *)
NumberRight ==
  sample.op = "number" =>
    LET t == vsprintf(sample)
        base == CASE sample.conv = "o" -> 8 [] sample.conv \in {"d", "u"} -> 10
                  [] sample.conv \in {"x", "p"} -> 16
        wide == IF sample.qualifier = "h" /\ sample.conv # "p" THEN Short ELSE Long
        cut == sample.num % wide
        minus == sample.conv = "d" /\ cut >= wide \div 2
        sign == IF sample.conv # "d" THEN <<>>
                ELSE IF minus THEN <<Minus>>
                ELSE IF "PLUS" \in sample.flags THEN <<Plus>>
                ELSE IF "SPACE" \in sample.flags THEN <<Blank>> ELSE <<>>
        prefix == Prefix(base, type(sample))
        field == field_width(sample)
        zeros == type(sample) \cap {"ZEROPAD", "LEFT"} = {"ZEROPAD"} /\ Len(t) <= field
    IN  \E before, after \in 0 .. Len(t) :
          LET body == SubSeq(t, before + Len(sign) + Len(prefix) + 1, Len(t) - after)
          IN  /\ t = Repeat(before, Blank) \o sign \o prefix \o body \o Repeat(after, Blank)
              /\ AllDigits(body, base) /\ Len(body) >= 1 /\ Len(body) >= sample.precision
              /\ Reads(body, base) = IF minus THEN wide - cut ELSE cut
              /\ body[1] = 0 => zeros \/ Len(body) <= Larger(1, sample.precision)
              /\ Len(t) >= field /\ (Len(t) > field => before = 0 /\ after = 0)

(* A string is set in its field, at the side asked for; it is never longer *)
(* than its precision or the limit, and is only cut if it is that long.    *)
FieldRight ==
  sample.op = "string" =>
    LET t == vsprintf(sample)
        most == IF sample.precision > 0 THEN sample.precision ELSE Limit
    IN  \E n \in 0 .. Len(sample.s) :
          LET shown == SubSeq(sample.s, 1, n)
              blanks == Repeat(Len(t) - n, Blank)
          IN  /\ t = IF "LEFT" \in type(sample) THEN shown \o blanks ELSE blanks \o shown
              /\ Len(t) = Larger(field_width(sample), n) /\ n <= most
              /\ Len(sample.s) < most \/ sample.conv = "c" => n = Len(sample.s)

(* Strings compare equal if and only if they are.                          *)
CompareRight == sample.op = "strcmp" => (strcmp(sample.s, sample.t) = 0 <=> sample.s = sample.t)

(* Every call yields what it is for: reading a number, printing one, and   *)
(* printing or comparing strings.                                          *)
TextRight == ParseRight /\ PrintedReads /\ NumberRight /\ FieldRight /\ CompareRight
=============================================================================
