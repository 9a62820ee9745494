------------------------------ MODULE Kprintf ------------------------------
(***************************************************************************)
(* lib/kprintf.c: one call of kprintf.  The format is gone through twice,  *)
(* by check_for_unknown_format, which only looks for unknown conversions,  *)
(* and then by kprintf itself, which parses each conversion again.         *)
(*                                                                         *)
(* A format is a sequence of characters; "t" stands for any ordinary one   *)
(* and "?" for a letter that is no conversion; the blank is "space".  The  *)
(* end of the format is NUL.  Arguments are chosen when va_arg takes them. *)
(* Machine words have Word values; integers go from -Word/2 to             *)
(* Word/2 - 1.                                                             *)
(*                                                                         *)
(* Of the output, `printed' counts the characters, `unknown' tells that    *)
(* "Unknown conversion specifier" was among it, and `field' is the last    *)
(* conversion: its place, what was converted and the text put out for it.  *)
(***************************************************************************)
EXTENDS Integers, SequencesExt

CONSTANTS
    Alphabet,    \* characters of formats
    MaxLen,      \* bound on the length of a format
    Word,        \* 2 to the width of an unsigned int
    Ints,        \* arguments of %i
    Unsigneds,   \* arguments of %u, %x and %p
    Strings      \* arguments of %s

Digits == {"0", "1", "2", "3", "4", "5", "6", "7", "8", "9"}

Conversions == {"c", "s", "i", "u", "x", "p", "%"}

DigitChars == <<"0", "1", "2", "3", "4", "5", "6", "7", "8", "9",
                "a", "b", "c", "d", "e", "f">>

BufferSize == 16     \* char buffer[16]

MaxRounds == 32      \* digits of a word in base 2

(* A word has at most 32 bits. *)
ASSUME KprintfAssumption ==
    /\ Word \in Nat \ {0} /\ (Word - 1) \div 65536 <= 65535
    /\ MaxLen \in Nat
    /\ Ints \subseteq -(Word \div 2) .. (Word \div 2) - 1
    /\ Unsigneds \subseteq 0 .. Word - 1
    /\ Strings \subseteq Seq(STRING)

VARIABLES
    format,
    ppc,                 \* "check", "print", "convert" or "done"
    pos,                \* position of the pointer `format' in the format
    start,              \* position of the % of the current conversion
    pad, width,
    printed, unknown, field,
    used                \* cells of buffer that the last conversion has written

output == <<printed, unknown, field, used>>
pvars == <<format, ppc, pos, start, pad, width, output>>

NoField == [conversion |-> "none", from |-> 0, value |-> 0, text |-> <<>>]

At(p) == IF p <= Len(format) THEN format[p] ELSE "NUL"

(* The end of the digits that start at p, of at most `most' of them. *)
EndOfDigits(p, most) ==
    LET Ends == {q \in p .. Len(format) + 1 :
                   /\ \A k \in p .. q - 1 : At(k) \in Digits
                   /\ At(q) \notin Digits \/ q = p + most}
    IN Min(Ends)

ValueOf(d) == (CHOOSE k \in 1 .. 16 : DigitChars[k] = d) - 1

Numeral(s, base) ==
    LET upto[k \in 0 .. Len(s)] ==
            IF k = 0 THEN 0 ELSE base * upto[k - 1] + ValueOf(s[k])
    IN upto[Len(s)]

(***************************************************************************)
(* The formats kprintf is made for: the width of a conversion has at most  *)
(* two digits, not counting a zero flag, and fits into the buffer.         *)
(***************************************************************************)
Supported(f) ==
    \A p \in 1 .. Len(f), q \in 1 .. Len(f) :
        p < q /\ f[p] = "%" /\ (\A k \in p + 1 .. q : f[k] \in Digits) =>
            /\ q - p <= IF f[p + 1] = "0" THEN 3 ELSE 2
            /\ Numeral(SubSeq(f, p + 1, q), 10) <= BufferSize

Formats == UNION {[1 .. k -> Alphabet] : k \in 0 .. MaxLen}

PInit ==
    /\ format \in {f \in Formats : Supported(f)}
    /\ ppc = "check" /\ pos = 1 /\ start = 0
    /\ pad = "space" /\ width = 0
    /\ printed = 0 /\ unknown = FALSE /\ field = NoField /\ used = 0

-----------------------------------------------------------------------------
(* The message is printed and the call is over. *)
print_unknown ==
    /\ unknown' = TRUE
    /\ ppc' = "done"
    /\ UNCHANGED <<format, pos, start, pad, width, printed, field, used>>

begin_printing ==
    /\ ppc' = "print"
    /\ pos' = 1
    /\ UNCHANGED <<format, start, pad, width, output>>

(* Mutant: the check steps over what follows a % without looking at it. *)
check_for_percent ==
    /\ ppc = "check"
    /\ \/ At(pos) = "NUL" /\ begin_printing
       \/ /\ At(pos) \notin {"NUL", "%"}
          /\ pos' = pos + 1
          /\ UNCHANGED <<format, ppc, start, pad, width, output>>
       \/ /\ At(pos) = "%"
          /\ pos' = pos + 2
          /\ UNCHANGED <<format, ppc, start, pad, width, output>>

(***************************************************************************)
(* check_for_unknown_format, a step per character or conversion.  Its two  *)
(* tests `format == 0' compare the pointer and are never true, so a format *)
(* that ends in a zero flag or a width counts as unknown.                  *)
(***************************************************************************)
check_for_unknown_format ==
    /\ ppc = "check"
    /\ LET q == EndOfDigits(pos + 1, Len(format)) IN
       \/ At(pos) = "NUL" /\ begin_printing
       \/ /\ At(pos) \notin {"NUL", "%"}
          /\ pos' = pos + 1
          /\ UNCHANGED <<format, ppc, start, pad, width, output>>
       \/ At(pos) = "%" /\ At(pos + 1) = "NUL" /\ begin_printing
       \/ /\ At(pos) = "%" /\ At(pos + 1) # "NUL" /\ At(q) \in Conversions
          /\ pos' = q + 1
          /\ UNCHANGED <<format, ppc, start, pad, width, output>>
       \/ At(pos) = "%" /\ At(pos + 1) # "NUL" /\ At(q) \notin Conversions
          /\ print_unknown

return ==
    /\ ppc' = "done"
    /\ UNCHANGED <<format, pos, start, pad, width, output>>

(* Mutant: a second digit replaces the first. *)
last_digit(p) == LET q == EndOfDigits(p, 2) IN
    IF q = p THEN 0 ELSE ValueOf(At(q - 1))

parse_width(p) == Numeral(SubSeq(format, p, EndOfDigits(p, 2) - 1), 10)

(* kprintf up to the switch *)
print ==
    /\ ppc = "print"
    /\ LET zero == At(pos + 1) = "0"
           w == IF zero THEN pos + 2 ELSE pos + 1
           q == EndOfDigits(w, 2) IN
       \/ At(pos) = "NUL" /\ return
       \/ /\ At(pos) \notin {"NUL", "%"}
          /\ printed' = printed + 1
          /\ pos' = pos + 1
          /\ UNCHANGED <<format, ppc, start, pad, width, unknown, field, used>>
       \/ /\ At(pos) = "%"
          /\ "NUL" \in {At(pos + 1), At(w), At(q)}
          /\ return
       \/ /\ At(pos) = "%"
          /\ "NUL" \notin {At(pos + 1), At(w), At(q)}
          /\ start' = pos
          /\ pad' = IF zero THEN "0" ELSE "space"
          /\ width' = parse_width(w)
          /\ pos' = q
          /\ ppc' = "convert"
          /\ UNCHANGED <<format, output>>

-----------------------------------------------------------------------------
(* What is left of the value after k rounds of the loop. *)
left(value, base) ==
    LET after[k \in 0 .. MaxRounds] ==
            IF k = 0 THEN value ELSE after[k - 1] \div base
    IN after

(* The loop ends after the first round that leaves nothing. *)
rounds(value, base) ==
    CHOOSE k \in 1 .. MaxRounds :
        /\ left(value, base)[k] = 0
        /\ \A j \in 1 .. k - 1 : left(value, base)[j] # 0

(* The digits from the last to the first, as they are put into the buffer. *)
convert_to_base_string(value, base) ==
    [i \in 1 .. rounds(value, base) |->
        DigitChars[(left(value, base)[i - 1] % base) + 1]]

Repeat(ch, k) == [j \in 1 .. k |-> ch]

(***************************************************************************)
(* What print_in_base_signed and print_in_base_unsigned leave in buffer,   *)
(* which is then put out from its end.                                     *)
(***************************************************************************)
buffer_signed(value, w, p) ==
    LET is_negative == IF value < 0 THEN 1 ELSE 0
        abs == IF value < 0 THEN (Word - (value % Word)) % Word ELSE value
        digits == convert_to_base_string(abs, 10)
        sign == Repeat("-", is_negative)
        padding == Repeat(p, IF Len(digits) >= w THEN 0
                             ELSE w - Len(digits) - is_negative)
    IN digits \o (IF p = "space" THEN sign \o padding ELSE padding \o sign)

buffer_unsigned(value, base, w, p) ==
    LET digits == convert_to_base_string(value, base) IN
    digits \o Repeat(p, IF Len(digits) >= w THEN 0 ELSE w - Len(digits))

(* The text for the value v has been put out, with `cells' of buffer used. *)
puts(v, text, cells) ==
    /\ field' = [conversion |-> At(pos), from |-> start, value |-> v, text |-> text]
    /\ printed' = printed + Len(text)
    /\ used' = cells
    /\ UNCHANGED unknown

(* Mutant: the text is closed with a NUL and put out as a string. *)
puts_terminated(v, prefix, buffer) ==
    puts(v, prefix \o Reverse(buffer), Len(buffer) + 1)

puts_buffer(v, prefix, buffer) ==
    puts(v, prefix \o Reverse(buffer), Len(buffer))

(* The switch of kprintf; its default branch prints the message and goes on. *)
convert ==
    /\ ppc = "convert"
    /\ \/ At(pos) = "c" /\ puts(0, <<"t">>, 0)
       \/ At(pos) = "%" /\ puts(0, <<"%">>, 0)
       \/ /\ At(pos) = "s"
          /\ \E str \in Strings :
               puts(str, Repeat(pad, IF Len(str) >= width THEN 0
                                     ELSE width - Len(str)) \o str, 0)
       \/ /\ At(pos) = "i"
          /\ \E v \in Ints : puts_buffer(v, <<>>, buffer_signed(v, width, pad))
       \/ /\ At(pos) = "u"
          /\ \E v \in Unsigneds :
               puts_buffer(v, <<>>, buffer_unsigned(v, 10, width, pad))
       \/ /\ At(pos) = "x"
          /\ \E v \in Unsigneds :
               puts_buffer(v, <<>>, buffer_unsigned(v, 16, width, pad))
       \/ /\ At(pos) = "p"
          /\ \E v \in Unsigneds :
               puts_buffer(v, <<"0", "x">>, buffer_unsigned(v, 16, 8, "0"))
       \/ /\ At(pos) \notin Conversions
          /\ unknown' = TRUE
          /\ UNCHANGED <<printed, field, used>>
    /\ pos' = pos + 1
    /\ ppc' = "print"
    /\ UNCHANGED <<format, start, pad, width>>

done == ppc = "done" /\ UNCHANGED pvars

PNext == check_for_unknown_format \/ print \/ convert \/ done

PSpec == PInit /\ [][PNext]_pvars

-----------------------------------------------------------------------------
(***************************************************************************)
(* No conversion writes past buffer[16], with any value, sign and padding. *)
(***************************************************************************)
BufferHolds == used <= BufferSize

(***************************************************************************)
(* The two passes over the format agree: either the message is all that is *)
(* printed, or it is not printed.  kprintf never notices in the middle of  *)
(* a text, with part of the arguments taken, that a conversion is unknown. *)
(***************************************************************************)
AllOrNothing == unknown => printed = 0 /\ ppc = "done"

-----------------------------------------------------------------------------
(* The flag and the width of the last conversion, as they are written. *)
Spelled ==
    LET first == field.from + 1 IN
    SubSeq(format, first, EndOfDigits(first, Len(format)) - 1)

SpelledWidth == IF field.conversion = "p" THEN 8 ELSE Numeral(Spelled, 10)

SpelledPad == IF field.conversion = "p" \/ (Spelled # <<>> /\ Head(Spelled) = "0")
              THEN "0" ELSE "space"

IsNumeral(s, v, base) ==
    /\ s # <<>> /\ \A k \in DOMAIN s : s[k] \in Range(SubSeq(DigitChars, 1, base))
    /\ Numeral(s, base) = v
    /\ Len(s) > 1 => Head(s) # "0"

(* The text is v in the base, right-justified in a field of width w. *)
IsField(text, v, base, w, p) ==
    LET sign == IF v < 0 THEN <<"-">> ELSE <<>>
        abs == IF v < 0 THEN -v ELSE v IN
    \E k \in 0 .. Len(text) :
        LET digits == SubSeq(text, Len(sign) + k + 1, Len(text)) IN
        /\ IsNumeral(digits, abs, base)
        /\ text = IF p = "0" THEN sign \o Repeat("0", k) \o digits
                  ELSE Repeat("space", k) \o sign \o digits
        /\ k = Max({0, w - Len(sign) - Len(digits)})

(***************************************************************************)
(* Numbers come out as their numeral, without superfluous digits, signed   *)
(* and padded as the format spells it; the least int included, whose       *)
(* negation does not exist as an int.                                      *)
(***************************************************************************)
NumbersReadBack ==
    LET Reads(text, base) ==
            IsField(text, field.value, base, SpelledWidth, SpelledPad) IN
    CASE field.conversion = "i" -> Reads(field.text, 10)
      [] field.conversion = "u" -> Reads(field.text, 10)
      [] field.conversion = "x" -> Reads(field.text, 16)
      [] field.conversion = "p" ->
            /\ SubSeq(field.text, 1, 2) = <<"0", "x">>
            /\ Reads(SubSeq(field.text, 3, Len(field.text)), 16)
      [] OTHER -> TRUE
=============================================================================
