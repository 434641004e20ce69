-------------------------------- MODULE Printf --------------------------------
(***************************************************************************)
(* vsnprintf of src/lib/libc/printf.c, through which every message, the     *)
(* fastboot answers and the console go: a format is read character by       *)
(* character, and what it makes of its arguments is cut off where the       *)
(* buffer ends.                                                             *)
(***************************************************************************)
EXTENDS Integers, Sequences, FiniteSets

CONSTANTS
    Formats,     \* sequences of fields, see TextOf
    Lens         \* sizes of the buffer: 2 at the least, as with every caller; the
                 \* end of a smaller one is not found

VARIABLES
    format, len,          \* of the call
    fmt, vararg,          \* how much of the format was read, of the arguments taken
    flags, format_num,    \* of the field that is being read
    reading,              \* "text", "field", or "done"
    str,                  \* what was written
    stored                \* what was written through arguments, by %n

pvars == <<format, len, fmt, vararg, flags, format_num, reading, str, stored>>

DigitChars == <<"0", "1", "2", "3", "4", "5", "6", "7", "8", "9", "a", "b", "c", "d", "e", "f">>
CapsChars == SubSeq(DigitChars, 1, 10) \o <<"A", "B", "C", "D", "E", "F">>

\* A field is a character, or a "%", flags, a width and a conversion; its argument,
\* a number n or a text s; and what it should print.
Conversions == {"c", "s", "d", "i", "D", "u", "U", "x", "X", "p", "n"}
TakesArg(f) == f.text[1] = "%" /\ f.text[Len(f.text)] \in Conversions
NoText == <<"NULL">>     \* an argument of %s that is 0

Concat(ss) == LET to[i \in 0 .. Len(ss)] == IF i = 0 THEN <<>> ELSE to[i - 1] \o ss[i]
              IN to[Len(ss)]
TextOf(fs) == Concat([i \in DOMAIN fs |-> fs[i].text])
ArgsOf(fs) == SelectSeq(fs, TakesArg)

PrintfInit == /\ format \in Formats /\ len \in Lens
              /\ fmt = 0 /\ vararg = 0 /\ flags = {} /\ format_num = 0
              /\ reading = "text" /\ str = <<>> /\ stored = <<>>

-----------------------------------------------------------------------------
\* The flags that a conversion sets by itself.
Implied(c) == CASE c \in {"D", "U"} -> {"l"}
                [] c = "p" -> {"l", "#"}
                [] c = "X" -> {"caps"}
                [] OTHER -> {}

\* A number of the width that the flags ask for, with its sign or without; a long
\* is a word.  Formats has no number that does not fit the word of its conversion.
Number(n, all, signed) ==
    LET range == IF "l" \in all THEN 0 ELSE IF "hh" \in all THEN 256
                 ELSE IF "h" \in all THEN 65536 ELSE 0
    IN IF range = 0 THEN n
       ELSE IF signed /\ 2 * (n % range) >= range THEN (n % range) - range ELSE n % range

\* The digits of a number, least significant last.
Digits(n, base, table) ==
    LET to[m \in 0 .. n] == IF m < base THEN <<table[m + 1]>>
                            ELSE to[m \div base] \o <<table[(m % base) + 1]>>
    IN to[n]

\* Fault: the sign is lost.
longlong_to_string_Unsigned(n) == Digits(IF n < 0 THEN -n ELSE n, 10, DigitChars)

longlong_to_string(n) ==
    IF n < 0 THEN <<"-">> \o Digits(-n, 10, DigitChars)
    ELSE (IF "+" \in flags THEN <<"+">> ELSE <<>>) \o Digits(n, 10, DigitChars)

longlong_to_hexstring(n, all) ==
    Digits(n, 16, IF "caps" \in all THEN CapsChars ELSE DigitChars)

\* Fault: no room is left for the terminator.
OUTPUT_Late(chars) ==
    LET room == len - Len(str) IN
    IF room \in 1 .. Len(chars)
    THEN str' = str \o SubSeq(chars, 1, room) /\ reading' = "done"
    ELSE str' = str \o chars /\ reading' = "text"

\* OUTPUT_CHAR, of characters one after the other: done when the one that was
\* written leaves room for the terminator only.
OUTPUT(chars) ==
    LET room == len - 1 - Len(str) IN
    IF room \in 1 .. Len(chars)
    THEN str' = str \o SubSeq(chars, 1, room) /\ reading' = "done"
    ELSE str' = str \o chars /\ reading' = "text"

Times(n, c) == [i \in 1 .. n |-> c]

\* A text is put to the left of its field, or to the right of it behind spaces or
\* zeros - behind which the sign of a number comes, too.
output_string(s) ==
    LET pad == IF format_num > Len(s) THEN format_num - Len(s) ELSE 0
    IN IF "-" \in flags THEN s \o Times(pad, " ")
       ELSE Times(pad, IF "0" \in flags THEN "0" ELSE " ") \o s

c0 == TextOf(format)[fmt + 1]
Args == ArgsOf(format)
AtEnd == fmt = Len(TextOf(format))
Next1 == fmt' = fmt + 1 /\ UNCHANGED <<format, len>>

\* A character that is not part of a field.
text == /\ reading = "text" /\ ~AtEnd /\ Next1
        /\ IF c0 = "%" THEN reading' = "field" /\ flags' = {} /\ format_num' = 0 /\ UNCHANGED str
           ELSE OUTPUT(<<c0>>) /\ UNCHANGED <<flags, format_num>>
        /\ UNCHANGED <<vararg, stored>>

Digit(c) == \E d \in 1 .. 10 : DigitChars[d] = c
ValueOf(c) == CHOOSE d \in 0 .. 9 : DigitChars[d + 1] = c

LeadZero(c) == c = "0" /\ format_num = 0

\* A second h is noted beside the first, and so is a second l, which takes an argument
\* of two words and makes no difference to one that fits a word.
Flag(c) == IF c = "h" /\ "h" \in flags THEN "hh" ELSE c

\* next_format.  A point is passed over: what follows it counts as more digits of
\* the width.
flag == /\ reading = "field" /\ ~AtEnd /\ Next1
        /\ \/ /\ Digit(c0)
              /\ flags' = flags \cup (IF LeadZero(c0) THEN {"0"} ELSE {})
              /\ format_num' = format_num * 10 + ValueOf(c0)
           \/ /\ c0 \in {"-", "+", "#", "l", "h", "z"}
              /\ flags' = flags \cup {Flag(c0)} /\ UNCHANGED format_num
           \/ c0 = "." /\ UNCHANGED <<flags, format_num>>
        /\ UNCHANGED <<vararg, reading, str, stored>>

\* va_arg
Arg == Args[vararg + 1]

\* A conversion nobody knows is printed.  The 0x of a number is no part of what the
\* width is for, and in front of what fills it.
convert ==
    LET all == flags \cup Implied(c0)
        prefix == IF "#" \notin all THEN <<>> ELSE <<"0", IF "caps" \in all THEN "X" ELSE "x">>
    IN
    /\ reading = "field" /\ ~AtEnd /\ Next1
    /\ c0 \notin {"-", "+", "#", "l", "h", "z", "."} /\ ~Digit(c0)
    /\ vararg' = IF c0 \in Conversions THEN vararg + 1 ELSE vararg
    /\ CASE c0 = "%" -> OUTPUT(<<"%">>)
         [] c0 = "c" -> OUTPUT(Arg.s)
         [] c0 = "s" -> OUTPUT(output_string(IF Arg.s = NoText THEN <<"<", "n", "u", "l", "l", ">">>
                                             ELSE Arg.s))
         [] c0 \in {"d", "i", "D"} -> OUTPUT(output_string(longlong_to_string(Number(Arg.n, all, TRUE))))
         [] c0 \in {"u", "U"} -> OUTPUT(output_string(longlong_to_string(Number(Arg.n, all, FALSE))))
         [] c0 \in {"x", "X", "p"} ->
                OUTPUT(prefix \o output_string(longlong_to_hexstring(Number(Arg.n, all, FALSE), all)))
         [] c0 = "n" -> OUTPUT(<<>>)
         [] OTHER -> OUTPUT(<<"%", c0>>)
    /\ stored' = IF c0 = "n" THEN Append(stored, Number(Len(str), all, TRUE)) ELSE stored
    /\ UNCHANGED <<flags, format_num>>

\* The end of the format, in the middle of a field or not.
ends == /\ reading \in {"text", "field"} /\ AtEnd /\ reading' = "done"
        /\ UNCHANGED <<format, len, fmt, vararg, flags, format_num, str, stored>>

PrintfNext == text \/ flag \/ convert \/ ends
PrintfSpec == PrintfInit /\ [][PrintfNext]_pvars

-----------------------------------------------------------------------------
Prints(fs) == Concat([i \in DOMAIN fs |-> fs[i].prints])

\* What is printed, and the terminator behind it, is in the buffer.
PrintsInBuffer == Len(str) < len

\* Each field prints what it should, in order, whatever the fields before it took
\* and left; or the start of it all that fits the buffer.  What a field should print
\* is what C says, but for three things that printf.c does otherwise, and that are
\* checked as they are: zeros that fill a field are in front of the sign, the 0x of
\* a number is in front of what fills its field and adds to its width, and a
\* precision is more digits of the width.  A %n stores what was printed before it.
PrintsWhole ==
    LET before(i) == Prints(SubSeq(format, 1, i - 1))
        counts == {i \in DOMAIN format : format[i].text = <<"%", "n">>}
        all == Prints(format)
    IN
    /\ reading = "done" => str = SubSeq(all, 1, IF Len(all) < len THEN Len(all) ELSE len - 1)
    /\ \A k \in DOMAIN stored : \E i \in counts : stored[k] = Len(before(i))
    /\ reading = "done" /\ Len(all) < len - 1 => Len(stored) = Cardinality(counts)

=============================================================================
