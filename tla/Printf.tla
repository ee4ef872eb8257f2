------------------------------- MODULE Printf --------------------------------
(***************************************************************************)
(* vsnprintf of the C library: the output gadget, the parser of conversion *)
(* specifications, and the conversions.  A character is a one-character    *)
(* string.  A double is an exact fraction [neg, n, d] or a special value:  *)
(* rounding inside the floating-point operations themselves is left out.   *)
(* Sizes of types and buffers are constants, so that the limits are close. *)
(***************************************************************************)
EXTENDS Integers, Sequences, SequencesExt, FiniteSets

CONSTANTS CHAR_BITS, SHORT_BITS, INT_BITS, LONG_BITS,  \* long long is as wide as long
          INTEGER_BUFFER_SIZE, DECIMAL_BUFFER_SIZE,
          MAX_SUPPORTED_PRECISION, DEFAULT_FLOAT_PRECISION,
          MAX_INTEGRAL_DIGITS,       \* above 10 to this power %f turns to %e
          DBL_MAX_10_EXP,
          UINT_MAX,
          MAX_BUFFER,                \* PRINTF_MAX_POSSIBLE_BUFFER_SIZE
          PfSpecs, PfSizes           \* the calls: conversions and buffer sizes

VARIABLES pf_call, pf_out
pf_vars == <<pf_call, pf_out>>

NUL == "NUL"
DigitChars == <<"0", "1", "2", "3", "4", "5", "6", "7", "8", "9">>
LowerDigits == DigitChars \o <<"a", "b", "c", "d", "e", "f">>
UpperDigits == DigitChars \o <<"A", "B", "C", "D", "E", "F">>
Times(c, n) == [i \in 1 .. n |-> c]
Least(a, b) == IF a < b THEN a ELSE b
Clip(s, n) == SubSeq(s, 1, Least(Len(s), n))

-----------------------------------------------------------------------------
(* The gadget: out is what it let through, pos counts every character.      *)

discarding_gadget == [function |-> FALSE, buffer |-> FALSE, pos |-> 0, max_chars |-> 0, out |-> <<>>, stored |-> <<>>]
buffer_gadget(n) == [discarding_gadget EXCEPT !.buffer = TRUE, !.max_chars = Least(n, MAX_BUFFER)]
function_gadget == [discarding_gadget EXCEPT !.function = TRUE, !.max_chars = MAX_BUFFER]

\* A gadget that counts only the characters it lets through.
mut_putchars(g, s) ==
    LET room == Least(Len(s), g.max_chars - g.pos) IN
    [g EXCEPT !.pos = @ + room, !.out = @ \o SubSeq(s, 1, room)]
\* putchar_via_gadget for each character of s.
putchars(g, s) ==
    [g EXCEPT !.pos = @ + Len(s), !.out = @ \o SubSeq(s, 1, Least(Len(s), g.max_chars - g.pos))]

append_termination_with_gadget(g) ==
    IF g.function \/ g.max_chars = 0 \/ ~g.buffer THEN g
    ELSE [g EXCEPT !.out = Append(SubSeq(g.out, 1, Least(g.pos, g.max_chars - 1)), NUL)]

out_rev_(g, buf, width, flags) ==
    LET pad == Times(" ", width - Len(buf))
        pre == IF flags \cap {"LEFT", "ZEROPAD"} = {} THEN pad ELSE <<>>
        post == IF "LEFT" \in flags THEN pad ELSE <<>>
    IN  putchars(g, pre \o Reverse(buf) \o post)

-----------------------------------------------------------------------------
(* Integers: the digits, the least significant first.                       *)

SignChars(negative, flags) ==
    IF negative THEN <<"-">> ELSE IF "PLUS" \in flags THEN <<"+">> ELSE IF "SPACE" \in flags THEN <<" ">> ELSE <<>>

\* The width left for digits when zeros fill it and a sign comes first.
DigitWidth(width, negative, flags) ==
    IF width > 0 /\ "ZEROPAD" \in flags /\ "LEFT" \notin flags /\ SignChars(negative, flags) # <<>>
    THEN width - 1 ELSE width

ZerosTo(buf, n, size) == buf \o Times("0", Least(n, size) - Len(buf))

\* Zeros up to the width, and the prefix after them.
mut_take_back(len, unpadded, precision, width, base, flags) == len
\* Padding zeros given back for the characters of the prefix.
take_back(len, unpadded, precision, width, base, flags) ==
    LET fits == "PRECISION" \notin flags /\ len > 0 /\ len \in {precision, width}
        once == IF fits /\ unpadded < len THEN len - 1 ELSE len
    IN  IF fits /\ once > 0 /\ base \in {16, 2} /\ unpadded < once THEN once - 1 ELSE once

RadixPrefix(base, flags) ==
    (CASE base = 16 /\ "UPPERCASE" \notin flags -> <<"x">>
       [] base = 16 /\ "UPPERCASE" \in flags -> <<"X">>
       [] base = 2 -> <<"b">>
       [] OTHER -> <<>>) \o <<"0">>

prefixed(padded, unpadded, precision, width, base, flags) ==
    IF flags \cap {"HASH", "POINTER"} = {} THEN padded
    ELSE Clip(SubSeq(padded, 1, take_back(Len(padded), unpadded, precision, width, base, flags)) \o RadixPrefix(base, flags),
              INTEGER_BUFFER_SIZE)

finalize_padded(g, padded, unpadded, negative, base, precision, width, flags) ==
    LET fl == IF base = 8 /\ Len(padded) > unpadded THEN flags \ {"HASH"} ELSE flags
        buf == prefixed(padded, unpadded, precision, width, base, fl) \o SignChars(negative, flags)
    IN  out_rev_(g, Clip(buf, INTEGER_BUFFER_SIZE), width, flags)

padded_integer(buf, precision, width, flags) ==
    ZerosTo(IF "ZEROPAD" \in flags /\ "LEFT" \notin flags THEN ZerosTo(buf, width, INTEGER_BUFFER_SIZE) ELSE buf,
            precision, INTEGER_BUFFER_SIZE)

print_integer_finalization(g, buf, negative, base, precision, width, flags) ==
    LET w == DigitWidth(width, negative, flags)
    IN  finalize_padded(g, padded_integer(buf, precision, w, flags), Len(buf), negative, base, precision, w, flags)

RECURSIVE DigitsOf(_, _, _)
DigitsOf(value, base, digits) ==
    IF value < base THEN <<digits[value + 1]>>
    ELSE <<digits[(value % base) + 1]>> \o DigitsOf(value \div base, base, digits)

print_integer(g, value, negative, base, precision, width, flags) ==
    LET chars == IF "UPPERCASE" \in flags THEN UpperDigits ELSE LowerDigits
        buf == IF value = 0 THEN IF "PRECISION" \in flags THEN <<>> ELSE <<"0">>
               ELSE Clip(DigitsOf(value, base, chars), INTEGER_BUFFER_SIZE)
        fl == IF value = 0 /\ ("PRECISION" \notin flags \/ base = 16) THEN flags \ {"HASH"} ELSE flags
    IN  print_integer_finalization(g, buf, negative, base, precision, width, fl)

-----------------------------------------------------------------------------
(* Doubles.  A fraction is a pair; num below has kind, neg, and frac.       *)

Abs(i) == IF i < 0 THEN -i ELSE i
FMul(a, b) == <<a[1] * b[1], a[2] * b[2]>>
FDiv(a, b) == <<a[1] * b[2], a[2] * b[1]>>
FSub(a, b) == <<a[1] * b[2] - b[1] * a[2], a[2] * b[2]>>
FLeq(a, b) == a[1] * b[2] <= b[1] * a[2]
Whole(a) == a[1] \div a[2]
FInt(i) == <<i, 1>>
RECURSIVE Power10(_)
Power10(n) == IF n = 0 THEN 1 ELSE 10 * Power10(n - 1)
FPower10(e) == IF e >= 0 THEN <<Power10(e), 1>> ELSE <<1, Power10(-e)>>

\* Without a carry from the fraction into the whole part.
mut_get_components(abs, neg, precision) ==
    LET scaled == FMul(FSub(abs, FInt(Whole(abs))), FInt(Power10(precision)))
        rest == FSub(scaled, FInt(Whole(scaled)))
    IN  [neg |-> neg, integral |-> Whole(abs),
         fractional |-> Whole(scaled) + IF FLeq(rest, <<1, 2>>) THEN 0 ELSE 1]

\* part and rest are the fraction times a power of ten: its whole part and what is left.
rounded_components(abs, neg, precision, part, rest) ==
    LET up == ~FLeq(rest, <<1, 2>>)
        half == FLeq(rest, <<1, 2>>) /\ FLeq(<<1, 2>>, rest)
        carry == up /\ part + 1 >= Power10(precision)
        integral == IF carry THEN Whole(abs) + 1 ELSE Whole(abs)
        even == precision = 0 /\ FLeq(<<1, 2>>, FSub(abs, FInt(integral))) /\ integral % 2 = 1
    IN  [neg |-> neg,
         fractional |-> IF carry THEN 0 ELSE IF up \/ (half /\ (part = 0 \/ part % 2 = 1)) THEN part + 1 ELSE part,
         integral |-> IF even THEN integral + 1 ELSE integral]

scaled_components(abs, neg, precision, scaled) ==
    rounded_components(abs, neg, precision, Whole(scaled), FSub(scaled, FInt(Whole(scaled))))

get_components(abs, neg, precision) ==
    scaled_components(abs, neg, precision, FMul(FSub(abs, FInt(Whole(abs))), FInt(Power10(precision))))

apply_scaling(num, norm) == IF norm.multiply THEN FMul(num, norm.raw_factor) ELSE FDiv(num, norm.raw_factor)
unapply_scaling(num, norm) == IF norm.multiply THEN FDiv(num, norm.raw_factor) ELSE FMul(num, norm.raw_factor)

\* The exponent of two of a fraction, as get_exp2 reads it from a double.
RECURSIVE get_exp2(_)
get_exp2(a) == IF a[1] < a[2] THEN get_exp2(<<2 * a[1], a[2]>>) - 1
               ELSE IF a[1] >= 2 * a[2] THEN get_exp2(<<a[1], 2 * a[2]>>) + 1 ELSE 0

update_normalization(sf, extra) ==
    IF sf.multiply THEN [multiply |-> TRUE, raw_factor |-> FMul(sf.raw_factor, extra)]
    ELSE IF Abs(get_exp2(sf.raw_factor)) > Abs(get_exp2(extra))
         THEN [multiply |-> FALSE, raw_factor |-> FDiv(sf.raw_factor, extra)]
         ELSE [multiply |-> TRUE, raw_factor |-> FDiv(extra, sf.raw_factor)]

rounded_normalized(neg, precision, whole, part, over) ==
    LET rounded == IF FLeq(<<1, 2>>, over) THEN part + 1 ELSE part
        fractional == IF FLeq(<<1, 2>>, over) /\ FLeq(over, <<1, 2>>) THEN rounded - (rounded % 2) ELSE rounded
    IN  IF fractional >= Power10(precision) THEN [neg |-> neg, integral |-> whole + 1, fractional |-> 0]
        ELSE [neg |-> neg, integral |-> whole, fractional |-> fractional]

rest_normalized(neg, precision, whole, rest) ==
    rounded_normalized(neg, precision, whole, Whole(rest), FSub(rest, FInt(Whole(rest))))

scaled_normalized(neg, precision, abs, norm, exp10, scaled) ==
    IF precision - exp10 >= DBL_MAX_10_EXP - 1 THEN get_components(scaled, neg, precision)
    ELSE rest_normalized(neg, precision, Whole(scaled),
                         apply_scaling(FSub(abs, unapply_scaling(FInt(Whole(scaled)), norm)),
                                       update_normalization(norm, FInt(Power10(precision)))))

get_normalized_components(neg, precision, abs, norm, exp10) ==
    scaled_normalized(neg, precision, abs, norm, exp10, apply_scaling(abs, norm))

Decrement(n) == IF n = 0 THEN UINT_MAX ELSE n - 1

\* %g drops the zeros that end a fraction: [value, count] of what is left.
RECURSIVE strip_zeros(_, _)
strip_zeros(value, count) ==
    IF value % 10 = 0 THEN strip_zeros(value \div 10, Decrement(count)) ELSE [value |-> value, count |-> count]

fraction_part(buf, number, precision, flags) ==
    LET adapt == "ADAPT_EXP" \in flags /\ "HASH" \notin flags
        some == number.fractional > 0
        kept == IF adapt /\ some THEN strip_zeros(number.fractional, precision)
                ELSE [value |-> number.fractional, count |-> precision]
        digits == DigitsOf(kept.value, 10, DigitChars)
        left == IF kept.count >= Len(digits) THEN kept.count - Len(digits) ELSE UINT_MAX
        zeros == Times("0", Least(left, DECIMAL_BUFFER_SIZE - Len(buf) - Len(digits)))
    IN  IF precision = 0 THEN IF "HASH" \in flags THEN buf \o <<".">> ELSE buf
        ELSE IF some \/ ~adapt THEN buf \o digits \o zeros \o <<".">> ELSE buf

print_broken_up_decimal(number, g, precision, width, flags, buf) ==
    LET fraction == Clip(fraction_part(buf, number, precision, flags), DECIMAL_BUFFER_SIZE)
        whole == Clip(fraction \o DigitsOf(number.integral, 10, DigitChars), DECIMAL_BUFFER_SIZE)
        w == DigitWidth(width, number.neg, flags)
        zeros == IF "ZEROPAD" \in flags /\ "LEFT" \notin flags THEN ZerosTo(whole, w, DECIMAL_BUFFER_SIZE) ELSE whole
    IN  out_rev_(g, Clip(zeros \o SignChars(number.neg, flags), DECIMAL_BUFFER_SIZE), w, flags)

print_decimal_number(g, num, precision, width, flags, buf) ==
    print_broken_up_decimal(get_components(num.frac, num.neg, precision), g, precision, width, flags, buf)

\* bastardized_floor of the logarithm, with the correction that follows it.
RECURSIVE floor_log10(_)
floor_log10(a) == IF a[1] < a[2] THEN floor_log10(<<10 * a[1], a[2]>>) - 1
                  ELSE IF a[1] >= 10 * a[2] THEN floor_log10(<<a[1], 10 * a[2]>>) + 1 ELSE 0

exponent_width(fall_back, exp10) == IF fall_back THEN 0 ELSE IF Abs(exp10) < 100 THEN 4 ELSE 5

\* The exponent behind the digits that after ends with.
print_exponent(after, e, ewidth, flags) ==
    print_integer(putchars(after, <<IF "UPPERCASE" \in flags THEN "E" ELSE "e">>), Abs(e), e < 0, 10, 0, ewidth - 1,
                  {"ZEROPAD", "PLUS"})

padded_after(before, after, width, flags) ==
    IF "LEFT" \in flags THEN putchars(after, Times(" ", width - (after.pos - before.pos))) ELSE after

print_with_exponent(g, shown, precision, e, ewidth, width, flags, buf) ==
    LET dwidth == IF ("LEFT" \in flags /\ ewidth > 0) \/ width <= ewidth THEN 0 ELSE width - ewidth
        digits == print_broken_up_decimal(shown, g, precision, dwidth, flags, buf)
    IN  IF ewidth = 0 THEN digits
        ELSE padded_after(g, print_exponent(digits, e, ewidth, flags), width, flags)

\* The parts may have been rounded up to the next power of ten.
print_rolled(g, parts, rolled, fall_back, precision, e, width, flags, buf) ==
    print_with_exponent(g, IF rolled /\ ~fall_back THEN [parts EXCEPT !.integral = 1, !.fractional = 0] ELSE parts,
                        IF rolled /\ fall_back THEN Decrement(precision) ELSE precision, e,
                        exponent_width(fall_back, e), width, flags, buf)

print_parts(g, parts, fall_back, precision, exp10, width, flags, buf) ==
    LET rolled == IF fall_back THEN exp10 >= -1 /\ parts.integral = Power10(exp10 + 1) ELSE parts.integral >= 10
    IN  print_rolled(g, parts, rolled, fall_back, precision, IF rolled THEN exp10 + 1 ELSE exp10, width, flags, buf)

exponential_parts(num, precision, exp10, covered, fall_back) ==
    IF fall_back \/ exp10 = 0 THEN get_components(num.frac, num.neg, precision)
    ELSE get_normalized_components(num.neg, precision, num.frac,
             [raw_factor |-> IF covered THEN FInt(Power10(Abs(exp10))) ELSE FPower10(exp10),
              multiply |-> exp10 < 0 /\ covered], exp10)

\* The precision of %g counts the significant digits.
significant(precision, exp10, fall_back) ==
    LET left == IF fall_back THEN precision - 1 - exp10 ELSE precision - 1 IN IF left > 0 THEN left ELSE 0

print_adapted(g, num, precision, exp10, fall_back, width, flags, buf) ==
    print_parts(g, exponential_parts(num, precision, exp10, Abs(exp10) <= MAX_SUPPORTED_PRECISION, fall_back),
                fall_back, precision, exp10, width, flags, buf)

print_at_exponent(g, num, precision, exp10, width, flags, buf) ==
    LET adapt == "ADAPT_EXP" \in flags
        fall_back == adapt /\ exp10 >= -4 /\ exp10 < (IF precision = 0 THEN 1 ELSE precision)
    IN  print_adapted(g, num, IF adapt THEN significant(precision, exp10, fall_back) ELSE precision, exp10, fall_back,
                      width, flags, buf)

print_exponential_number(g, num, precision, width, flags, buf) ==
    print_at_exponent(g, num, precision, IF num.frac[1] = 0 THEN 0 ELSE floor_log10(num.frac), width, flags, buf)

print_floating_point(g, num, precision, width, flags, prefer_exponential) ==
    LET asked == IF "PRECISION" \in flags THEN precision ELSE DEFAULT_FLOAT_PRECISION
        surplus == Least(DECIMAL_BUFFER_SIZE, IF asked > MAX_SUPPORTED_PRECISION THEN asked - MAX_SUPPORTED_PRECISION ELSE 0)
        buf == Times("0", surplus)
    IN  CASE num.kind = "nan" -> out_rev_(g, <<"n", "a", "n">>, width, flags)
          [] num.kind = "inf" ->
               out_rev_(g, <<"f", "n", "i">> \o SignChars(num.neg, flags \ {"SPACE"}), width, flags)
          [] num.kind = "finite" /\ ~prefer_exponential /\ ~FLeq(num.frac, FInt(Power10(MAX_INTEGRAL_DIGITS))) ->
               print_exponential_number(g, num, precision, width, flags, <<>>)
          [] OTHER ->
               IF prefer_exponential THEN print_exponential_number(g, num, asked - surplus, width, flags, buf)
               ELSE print_decimal_number(g, num, asked - surplus, width, flags, buf)

-----------------------------------------------------------------------------
(* The format string.  A position past its end reads NUL; p is the parser's *)
(* state, and p.stop says that the format ended inside a specification.     *)

CharAt(f, i) == IF i <= Len(f) THEN f[i] ELSE NUL
DigitValue(c) == CHOOSE d \in 0 .. 9 : DigitChars[d + 1] = c
is_digit_(c) == c \in ToSet(DigitChars)

ADVANCE(f, p) == [p EXCEPT !.i = @ + 1, !.stop = CharAt(f, p.i + 1) = NUL]

RECURSIVE atou_(_, _, _)
atou_(f, i, n) == IF is_digit_(CharAt(f, i)) THEN atou_(f, i + 1, n * 10 + DigitValue(f[i])) ELSE [value |-> n, i |-> i]

FlagOf == [c \in {"0", "-", "+", " ", "#"} |->
    CASE c = "0" -> "ZEROPAD" [] c = "-" -> "LEFT" [] c = "+" -> "PLUS" [] c = " " -> "SPACE" [] c = "#" -> "HASH"]

RECURSIVE parse_flags(_, _)
parse_flags(f, p) ==
    IF CharAt(f, p.i) \in DOMAIN FlagOf
    THEN parse_flags(f, [p EXCEPT !.i = @ + 1, !.flags = @ \cup {FlagOf[f[p.i]]}]) ELSE p

parse_width(f, p) ==
    CASE is_digit_(CharAt(f, p.i)) ->
           LET n == atou_(f, p.i, 0) IN [p EXCEPT !.i = n.i, !.width = n.value]
      [] CharAt(f, p.i) = "*" ->
           LET w == Head(p.args) IN
           ADVANCE(f, [p EXCEPT !.args = Tail(@), !.width = Abs(w), !.flags = IF w < 0 THEN @ \cup {"LEFT"} ELSE @])
      [] OTHER -> p

precision_value(f, p) ==
    CASE p.stop -> p
      [] is_digit_(CharAt(f, p.i)) ->
           LET n == atou_(f, p.i, 0) IN [p EXCEPT !.i = n.i, !.precision = n.value]
      [] CharAt(f, p.i) = "*" ->
           ADVANCE(f, [p EXCEPT !.args = Tail(@), !.precision = IF Head(p.args) > 0 THEN Head(p.args) ELSE 0])
      [] OTHER -> p

parse_precision(f, p) ==
    IF p.stop \/ CharAt(f, p.i) # "." THEN p
    ELSE precision_value(f, ADVANCE(f, [p EXCEPT !.flags = @ \cup {"PRECISION"}]))

parse_length(f, p) ==
    LET c == CharAt(f, p.i)
        with(flag) == ADVANCE(f, [p EXCEPT !.flags = @ \cup {flag}])
        twice(q, flag) == IF ~q.stop /\ CharAt(f, q.i) = c THEN ADVANCE(f, [q EXCEPT !.flags = @ \cup {flag}]) ELSE q
    IN  CASE p.stop -> p
          [] c = "l" -> twice(with("LONG"), "LONG_LONG")
          [] c = "h" -> twice(with("SHORT"), "CHAR")
          [] c \in {"t", "j", "z"} -> with("LONG")
          [] OTHER -> p

Signed(v, bits) == LET m == v % 2^bits IN IF m >= 2^(bits - 1) THEN m - 2^bits ELSE m
ArgBits(flags) == CASE "LONG" \in flags -> LONG_BITS
                    [] "CHAR" \in flags -> CHAR_BITS
                    [] "SHORT" \in flags /\ "CHAR" \notin flags -> SHORT_BITS
                    [] OTHER -> INT_BITS
BaseOf(c) == CASE c \in {"x", "X"} -> 16 [] c = "o" -> 8 [] c = "b" -> 2 [] OTHER -> 10

\* The flags an integer conversion works with.
integer_flags(c, flags) ==
    (flags \cup (IF c = "X" THEN {"UPPERCASE"} ELSE {}))
    \ ((IF BaseOf(c) = 10 THEN {"HASH"} ELSE {})
       \cup (IF "PRECISION" \in flags THEN {"ZEROPAD"} ELSE {})
       \cup (IF c \in {"d", "i"} THEN {} ELSE {"PLUS", "SPACE"}))

convert_integer(g, c, p) ==
    LET bits == ArgBits(p.flags)
        signed == c \in {"d", "i"}
        value == IF signed THEN Signed(Head(p.args), bits) ELSE Head(p.args) % 2^bits
    IN  print_integer(g, Abs(value) % 2^LONG_BITS, value < 0, BaseOf(c), p.precision, p.width, integer_flags(c, p.flags))

convert_char(g, p) ==
    LET pad == Times(" ", p.width - 1) IN
    putchars(g, IF "LEFT" \in p.flags THEN <<Head(p.args)>> \o pad ELSE pad \o <<Head(p.args)>>)

convert_string(g, p) ==
    LET str == Head(p.args)
        text == IF "PRECISION" \in p.flags THEN Clip(str, p.precision) ELSE str
        pad == Times(" ", p.width - Len(text))
    IN  putchars(g, IF "LEFT" \in p.flags THEN text \o pad ELSE pad \o text)

convert_pointer(g, p) ==
    LET width == (LONG_BITS \div 4) + 2
        flags == p.flags \cup {"ZEROPAD", "POINTER"}
    IN  IF Head(p.args) = 0 THEN out_rev_(g, <<")", "l", "i", "n", "(">>, width, flags)
        ELSE print_integer(g, Head(p.args), FALSE, 16, p.precision, width, flags)

\* %n stores the count in the width its length modifier says.
write_back(g, p) == [g EXCEPT !.stored = Append(@, Signed(g.pos, ArgBits(p.flags)))]

FloatFlags(c, flags) ==
    flags \cup (IF c \in {"g", "G"} THEN {"ADAPT_EXP"} ELSE {})
          \cup (IF c \in {"E", "F", "G"} THEN {"UPPERCASE"} ELSE {})

\* The conversion at p.i: the gadget after it, and the arguments left.
convert(f, g, p) ==
    LET c == CharAt(f, p.i)
        taking(h) == [g |-> h, args |-> Tail(p.args)]
    IN  CASE c \in {"d", "i", "u", "x", "X", "o", "b"} -> taking(convert_integer(g, c, p))
          [] c \in {"f", "F"} -> taking(print_floating_point(g, Head(p.args), p.precision, p.width, FloatFlags(c, p.flags), FALSE))
          [] c \in {"e", "E", "g", "G"} ->
               taking(print_floating_point(g, Head(p.args), p.precision, p.width, FloatFlags(c, p.flags), TRUE))
          [] c = "c" -> taking(convert_char(g, p))
          [] c = "s" -> taking(convert_string(g, p))
          [] c = "p" -> taking(convert_pointer(g, p))
          [] c = "n" -> [g |-> write_back(g, p), args |-> p.args]
          [] OTHER -> [g |-> putchars(g, <<c>>), args |-> p.args]

parse_specification(f, p) == parse_length(f, parse_precision(f, parse_width(f, parse_flags(f, p))))

RECURSIVE format_string_loop(_, _, _, _)
RECURSIVE converted(_, _, _)
RECURSIVE go_on(_, _, _)
go_on(f, i, done) == format_string_loop(done.g, f, i, done.args)
converted(g, f, p) == IF p.stop THEN g ELSE go_on(f, p.i + 1, convert(f, g, p))
format_string_loop(g, f, i, args) ==
    IF i > Len(f) THEN g
    ELSE IF f[i] # "%" THEN format_string_loop(putchars(g, <<f[i]>>), f, i + 1, args)
    ELSE converted(g, f, parse_specification(f,
             ADVANCE(f, [i |-> i, stop |-> FALSE, flags |-> {}, width |-> 0, precision |-> 0, args |-> args])))

vsnprintf_impl(g, f, args) == append_termination_with_gadget(format_string_loop(g, f, 1, args))

-----------------------------------------------------------------------------
(* The calls.  A specification s names a conversion, its flags, width,      *)
(* precision and length, and the value; the format also has text around it. *)

FormatOf(s) == <<"<", "%">> \o SetToSeq(s.flags) \o s.width.text \o s.precision.text \o s.length
               \o <<s.conv, ">", "%", "n">>
ArgsOf(s) == s.width.args \o s.precision.args \o <<s.value>>

PfInit == pf_call = [op |-> "none"] /\ pf_out = discarding_gadget

snprintf_ ==
    /\ pf_call.op = "none"
    /\ \E s \in PfSpecs, n \in PfSizes :
        /\ pf_call' = [op |-> "snprintf", spec |-> s, size |-> n]
        /\ pf_out' = vsnprintf_impl(buffer_gadget(n), FormatOf(s), ArgsOf(s))
sprintf_ ==
    /\ pf_call.op = "none"
    /\ \E s \in PfSpecs :
        /\ pf_call' = [op |-> "sprintf", spec |-> s, size |-> MAX_BUFFER]
        /\ pf_out' = vsnprintf_impl(buffer_gadget(MAX_BUFFER), FormatOf(s), ArgsOf(s))
fctprintf ==
    /\ pf_call.op = "none"
    /\ \E s \in PfSpecs :
        /\ pf_call' = [op |-> "fctprintf", spec |-> s, size |-> MAX_BUFFER + 1]
        /\ pf_out' = vsnprintf_impl(function_gadget, FormatOf(s), ArgsOf(s))

PfNext == snprintf_ \/ sprintf_ \/ fctprintf

-----------------------------------------------------------------------------
(* What the C standard asks of one conversion.                              *)

Numeral(v, base, digits) ==
    LET n == CHOOSE n \in 1 .. LONG_BITS + 1 : v < base^n /\ (n = 1 \/ v >= base^(n - 1))
    IN  [i \in 1 .. n |-> digits[((v \div base^(n - i)) % base) + 1]]
FixedNumeral(v, n) == [i \in 1 .. n |-> DigitChars[((v \div 10^(n - i)) % 10) + 1]]
ToLength(s, n) == Times("0", n - Len(s)) \o s
HalfEven(n, d) ==
    LET q == n \div d IN IF 2 * (n % d) < d \/ (2 * (n % d) = d /\ q % 2 = 0) THEN q ELSE q + 1

\* The field: what precedes the digits, the digits, and zeros or spaces.
Field(s, before, body, zeros) ==
    LET left == "-" \in s.flags \/ s.width.n < 0
        missing == Abs(s.width.n) - Len(before) - Len(body)
    IN  IF left THEN before \o body \o Times(" ", missing)
        ELSE IF zeros /\ "0" \in s.flags THEN before \o Times("0", missing) \o body
        ELSE Times(" ", missing) \o before \o body

SignOf(s, negative) ==
    IF negative THEN <<"-">> ELSE IF "+" \in s.flags THEN <<"+">> ELSE IF " " \in s.flags THEN <<" ">> ELSE <<>>

IntegerField(s) ==
    LET signed == s.conv \in {"d", "i"}
        bits == CASE s.length \in {<<"l">>, <<"l", "l">>, <<"z">>, <<"t">>, <<"j">>} -> LONG_BITS
                  [] s.length = <<"h">> -> SHORT_BITS [] s.length = <<"h", "h">> -> CHAR_BITS [] OTHER -> INT_BITS
        v == IF signed THEN Signed(s.value, bits) ELSE s.value % 2^bits
        chars == IF s.conv = "X" THEN UpperDigits ELSE LowerDigits
        digits == IF v = 0 /\ s.precision.n = 0 THEN <<>>
                  ELSE ToLength(Numeral(Abs(v), BaseOf(s.conv), chars), s.precision.n)
        octal == IF "#" \in s.flags /\ s.conv = "o" /\ (digits = <<>> \/ digits[1] # "0") THEN <<"0">> ELSE <<>>
        radix == IF "#" \in s.flags /\ v # 0 /\ BaseOf(s.conv) \in {16, 2}
                 THEN <<"0", IF s.conv \in {"x", "X"} THEN s.conv ELSE "b">> ELSE <<>>
    IN  Field(s, (IF signed THEN SignOf(s, v < 0) ELSE <<>>) \o radix, octal \o digits, s.precision.n < 0)

FixedText(n, d, prec, point) ==
    LET m == HalfEven(n * 10^prec, d) IN
    Numeral(m \div 10^prec, 10, DigitChars) \o (IF prec > 0 \/ point THEN <<".">> ELSE <<>>) \o FixedNumeral(m % 10^prec, prec)

ScientificText(n, d, prec, point, letter) ==
    LET e0 == IF n = 0 THEN 0 ELSE floor_log10(<<n, d>>)
        at(e) == IF e >= 0 THEN HalfEven(n * 10^prec, d * 10^e) ELSE HalfEven(n * 10^(prec - e), d)
        e == IF at(e0) = 10^(prec + 1) THEN e0 + 1 ELSE e0
        m == at(e)
    IN  Numeral(m \div 10^prec, 10, DigitChars) \o (IF prec > 0 \/ point THEN <<".">> ELSE <<>>)
        \o FixedNumeral(m % 10^prec, prec) \o <<letter, IF e < 0 THEN "-" ELSE "+">> \o FixedNumeral(Abs(e), 2)

\* The exponent of n/d rounded to prec digits after the first.
ExponentOf(n, d, prec) ==
    LET e == IF n = 0 THEN 0 ELSE floor_log10(<<n, d>>)
        m == IF e >= 0 THEN HalfEven(n * 10^prec, d * 10^e) ELSE HalfEven(n * 10^(prec - e), d)
    IN  IF m = 10^(prec + 1) THEN e + 1 ELSE e

RECURSIVE DropZeros(_)
DropZeros(t) == IF Last(t) = "0" THEN DropZeros(Front(t)) ELSE IF Last(t) = "." THEN Front(t) ELSE t

GeneralText(s, prec) ==
    LET n == s.value.frac[1] d == s.value.frac[2]
        p == IF prec = 0 THEN 1 ELSE prec
        x == ExponentOf(n, d, p - 1)
        all == "#" \in s.flags
        fixed == FixedText(n, d, p - 1 - x, all)
        science == ScientificText(n, d, p - 1, all, "e")
        cut == SelectInSeq(science, LAMBDA c : c = "e") - 1
        digits == SubSeq(science, 1, cut)
    IN  IF x >= -4 /\ x < p
        THEN IF p - 1 - x > 0 /\ ~all THEN DropZeros(fixed) ELSE fixed
        ELSE (IF p > 1 /\ ~all THEN DropZeros(digits) ELSE digits) \o SubSeq(science, cut + 1, Len(science))

FloatField(s) ==
    LET num == s.value
        prec == IF s.precision.n < 0 THEN DEFAULT_FLOAT_PRECISION ELSE s.precision.n
        text == IF s.conv = "g" THEN GeneralText(s, prec)
                ELSE IF s.conv \in {"f", "F"} THEN FixedText(num.frac[1], num.frac[2], prec, "#" \in s.flags)
                ELSE ScientificText(num.frac[1], num.frac[2], prec, "#" \in s.flags, s.conv)
    IN  Field(s, SignOf(s, num.neg), text, TRUE)

StandardField(s) ==
    CASE s.conv \in {"d", "i", "u", "x", "X", "o", "b"} -> IntegerField(s)
      [] s.conv \in {"f", "F", "e", "E", "g"} -> FloatField(s)
      [] s.conv = "c" -> Field(s, <<>>, <<s.value>>, FALSE)
      [] s.conv = "s" -> Field(s, <<>>, IF s.precision.n < 0 THEN s.value ELSE Clip(s.value, s.precision.n), FALSE)
      [] s.conv = "p" -> <<"0", "x">> \o ToLength(Numeral(s.value, 16, LowerDigits), LONG_BITS \div 4)

\* The fields the fixed buffers of print_integer and print_floating_point hold.
FitsBuffer(s) ==
    s.conv \in {"c", "s"} \/ Len(StandardField([s EXCEPT !.width.n = IF "0" \in s.flags THEN @ ELSE 0]))
                             <= (IF s.conv \in {"f", "F", "e", "E", "g"} THEN DECIMAL_BUFFER_SIZE ELSE INTEGER_BUFFER_SIZE)

\* Where the code parts from the standard: one significant digit of a number
\* half way between two is rounded down; %g chooses its notation before the
\* rounding that changes the exponent, and takes a precision of 0 as it is.
OneDigitHalf(s) ==
    LET scaled == FDiv(s.value.frac, FPower10(floor_log10(s.value.frac))) IN
    /\ s.precision.n = (IF s.conv = "g" THEN 1 ELSE 0)
    /\ 2 * (scaled[1] % scaled[2]) = scaled[2]
RollsOver(s) ==
    LET p == IF s.precision.n < 0 THEN DEFAULT_FLOAT_PRECISION ELSE s.precision.n IN
    ExponentOf(s.value.frac[1], s.value.frac[2], p - 1) # floor_log10(s.value.frac)
Nonstandard(s) ==
    \/ s.conv \in {"e", "E", "g"} /\ s.value.frac[1] # 0 /\ OneDigitHalf(s)
    \/ s.conv = "g" /\ (s.precision.n = 0 \/ (s.value.frac[1] # 0 /\ RollsOver(s)))

\* Every call counts and produces what the C standard says: the text of the
\* conversion with its flags, width and precision; the returned count is that
\* of the whole text however small the buffer, the buffer has as much of it as
\* fits with a NUL, and %n stores the count so far.
PrintfMatches ==
    pf_call.op # "none" /\ FitsBuffer(pf_call.spec) /\ ~Nonstandard(pf_call.spec) =>
        LET text == <<"<">> \o StandardField(pf_call.spec) \o <<">">>
            room == Least(pf_call.size, MAX_BUFFER)
        IN  /\ pf_out.pos = Len(text)
            /\ pf_out.stored = <<Len(text)>>
            /\ pf_out.out = IF pf_call.op = "fctprintf" THEN text
                            ELSE IF room = 0 THEN <<>> ELSE Append(Clip(text, room - 1), NUL)
=============================================================================
