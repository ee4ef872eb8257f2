------------------------------ MODULE CString -------------------------------
(***************************************************************************)
(* The string functions of the C library, and below them its numerals, its *)
(* sorting and its patterns.  A string is its bytes and the                *)
(* NUL after them, a pointer into it a 0-based index, or NULL.  A read past *)
(* the NUL has no value, so that a check of any call that made one fails.  *)
(***************************************************************************)
EXTENDS Integers, Sequences, SequencesExt, FiniteSets

CONSTANTS Haystacks, Needles,  \* the strings strstr searches, and for
          Words, Counts,       \* the strings and lengths of the other calls
          Fills,               \* the lengths memset is given
          GROW                 \* strstr looks for the end of the string in steps of at least this

VARIABLES cs_call, cs_out
cs_vars == <<cs_call, cs_out>>

CS_NULL == -1
Str(s) == s \o <<0>>
B(s, i) == s[i + 1]
From(s, i) == SubSeq(s, i + 1, Len(s))
Least3(i) == IF i < 3 THEN i ELSE 3
Larger(a, b) == IF a > b THEN a ELSE b

-----------------------------------------------------------------------------
(* Copying.                                                                 *)

\* The bytes memset writes: the ends by hand, the aligned middle in a loop.
memset(addr, n) ==
    LET k == (-addr) % 4
        ends == {0, n - 1} \cup (IF n > 2 THEN {1, 2, n - 2, n - 3} ELSE {}) \cup (IF n > 6 THEN {3, n - 4} ELSE {})
    IN  IF n = 0 THEN {}
        ELSE ends \cup (IF n > 8 THEN k .. k + 4 * ((n - k) \div 4) - 1 ELSE {})

RECURSIVE memcpy(_, _, _, _)
memcpy(mem, d, s, n) == IF n = 0 THEN mem ELSE memcpy([mem EXCEPT ![d + 1] = mem[s + 1]], d + 1, s + 1, n - 1)

RECURSIVE copy_backward(_, _, _, _)
copy_backward(mem, d, s, n) == IF n = 0 THEN mem ELSE copy_backward([mem EXCEPT ![d + n] = mem[s + n]], d, s, n - 1)

\* The test for overlap is in the arithmetic of addresses, modulo 2^w.
mut_memmove(mem, d, s, n) == memcpy(mem, d, s, n)
memmove(mem, d, s, n) ==
    IF d = s THEN mem
    ELSE IF (s - d - n) % 1024 <= (-2 * n) % 1024 \/ d < s THEN memcpy(mem, d, s, n)
    ELSE copy_backward(mem, d, s, n)

RECURSIVE strcpy(_, _, _)
strcpy(d, i, s) == IF Head(s) = 0 THEN [d EXCEPT ![i + 1] = 0] ELSE strcpy([d EXCEPT ![i + 1] = Head(s)], i + 1, Tail(s))
RECURSIVE strncpy(_, _, _, _)
strncpy(d, i, s, n) ==
    IF n = 0 THEN d
    ELSE IF Head(s) = 0 THEN [d EXCEPT ![i + 1] = 0] ELSE strncpy([d EXCEPT ![i + 1] = Head(s)], i + 1, Tail(s), n - 1)
RECURSIVE strlen(_, _)
strlen(s, i) == IF B(s, i) = 0 THEN i ELSE strlen(s, i + 1)
strcat(d, s) == strcpy(d, strlen(d, 0), s)
RECURSIVE append_n(_, _, _, _)
append_n(d, i, s, n) ==
    IF n > 0 /\ Head(s) # 0 THEN append_n([d EXCEPT ![i + 1] = Head(s)], i + 1, Tail(s), n - 1) ELSE [d EXCEPT ![i + 1] = 0]
strncat(d, s, n) == append_n(d, strlen(d, 0), s, n)

strerror_r(msg, buf) ==
    LET l == strlen(msg, 0) IN
    IF l >= Len(buf)
    THEN [ret |-> "ERANGE", buf |-> IF buf = <<>> THEN buf ELSE SubSeq(msg, 1, Len(buf) - 1) \o <<0>>]
    ELSE [ret |-> "0", buf |-> SubSeq(msg, 1, l + 1) \o SubSeq(buf, l + 2, Len(buf))]

-----------------------------------------------------------------------------
(* Comparing.                                                               *)

RECURSIVE strcmp(_, _, _)
strcmp(l, r, i) == IF B(l, i) = B(r, i) /\ B(l, i) # 0 THEN strcmp(l, r, i + 1) ELSE B(l, i) - B(r, i)
tolower(c) == IF c \in 65 .. 90 THEN c + 32 ELSE c
RECURSIVE strncmp_from(_, _, _, _)
strncmp_from(l, r, i, n) ==
    IF B(l, i) # 0 /\ B(r, i) # 0 /\ n > 0 /\ B(l, i) = B(r, i) THEN strncmp_from(l, r, i + 1, n - 1) ELSE B(l, i) - B(r, i)
strncmp(l, r, n) == IF n = 0 THEN 0 ELSE strncmp_from(l, r, 0, n - 1)
RECURSIVE strcasecmp(_, _, _)
strcasecmp(l, r, i) ==
    IF B(l, i) # 0 /\ B(r, i) # 0 /\ tolower(B(l, i)) = tolower(B(r, i)) THEN strcasecmp(l, r, i + 1)
    ELSE tolower(B(l, i)) - tolower(B(r, i))
RECURSIVE strncasecmp_from(_, _, _, _)
strncasecmp_from(l, r, i, n) ==
    IF B(l, i) # 0 /\ B(r, i) # 0 /\ n > 0 /\ tolower(B(l, i)) = tolower(B(r, i)) THEN strncasecmp_from(l, r, i + 1, n - 1)
    ELSE tolower(B(l, i)) - tolower(B(r, i))
strncasecmp(l, r, n) == IF n = 0 THEN 0 ELSE strncasecmp_from(l, r, 0, n - 1)
RECURSIVE memcmp(_, _, _, _, _)
memcmp(l, i, r, j, n) ==
    IF n > 0 /\ B(l, i) = B(r, j) THEN memcmp(l, i + 1, r, j + 1, n - 1) ELSE IF n > 0 THEN B(l, i) - B(r, j) ELSE 0

-----------------------------------------------------------------------------
(* Searching.                                                               *)

RECURSIVE memchr(_, _, _, _)
memchr(s, i, c, n) == IF n > 0 /\ B(s, i) # c THEN memchr(s, i + 1, c, n - 1) ELSE IF n > 0 THEN i ELSE CS_NULL
RECURSIVE strchrnul(_, _, _)
strchrnul(s, i, c) == IF B(s, i) # 0 /\ B(s, i) # c THEN strchrnul(s, i + 1, c) ELSE i
strchr(s, c) == LET i == strchrnul(s, 0, c) IN IF B(s, i) = c THEN i ELSE CS_NULL
RECURSIVE strrchr(_, _, _, _)
strrchr(s, i, c, found) ==
    LET f == IF B(s, i) = c THEN i ELSE found IN IF B(s, i) = 0 THEN f ELSE strrchr(s, i + 1, c, f)

ByteSet(s) == {s[i] : i \in 1 .. Len(s) - 1}
RECURSIVE span(_, _, _)
span(s, i, set) == IF B(s, i) \in set THEN span(s, i + 1, set) ELSE i
strspn(s, c) == span(s, 0, ByteSet(c))
RECURSIVE cspan(_, _, _)
cspan(s, i, set) == IF B(s, i) # 0 /\ B(s, i) \notin set THEN cspan(s, i + 1, set) ELSE i
\* With at most one byte to look for, the loop returns before its first step.
strcspn(s, c) == IF Len(c) <= 2 /\ B(s, 0) # B(c, 0) THEN 0 ELSE cspan(s, 0, ByteSet(c))
strpbrk(s, c) == LET i == strcspn(s, c) IN IF B(s, i) # 0 THEN i ELSE CS_NULL

\* twobyte_, threebyte_ and fourbyte_strstr: the last k bytes in a word.
RECURSIVE bytes_strstr(_, _, _)
bytes_strstr(h, i, n) ==
    IF B(h, i) = 0 THEN CS_NULL
    ELSE IF SubSeq(h, i + 2 - Len(n), i + 1) = n THEN i - (Len(n) - 1)
    ELSE bytes_strstr(h, i + 1, n)

\* The maximal suffix of n under an order of bytes: where it starts, less one,
\* and its period.
RECURSIVE maximal_suffix(_, _, _, _, _, _, _)
maximal_suffix(n, l, less, ip, jp, k, p) ==
    IF jp + k >= l THEN [ip |-> ip, p |-> p]
    ELSE LET a == B(n, ip + k) b == B(n, jp + k) IN
         IF a = b THEN IF k = p THEN maximal_suffix(n, l, less, ip, jp + p, 1, p)
                       ELSE maximal_suffix(n, l, less, ip, jp, k + 1, p)
         ELSE IF (a > b) # less THEN maximal_suffix(n, l, less, ip, jp + k, 1, jp + k - ip)
         ELSE maximal_suffix(n, l, less, jp, jp + 1, 1, 1)

\* The needle split in two: ms, the period, and what a shift by it remembers.
mut_split_needle(n, l) ==
    LET a == maximal_suffix(n, l, FALSE, -1, 0, 1, 1)
        b == maximal_suffix(n, l, TRUE, -1, 0, 1, 1)
        ms == IF b.ip > a.ip THEN b.ip ELSE a.ip
        p == IF b.ip > a.ip THEN b.p ELSE a.p
    IN  [ms |-> ms, p |-> p, mem0 |-> l - p]
split_needle(n, l) ==
    LET a == maximal_suffix(n, l, FALSE, -1, 0, 1, 1)
        b == maximal_suffix(n, l, TRUE, -1, 0, 1, 1)
        ms == IF b.ip > a.ip THEN b.ip ELSE a.ip
        p == IF b.ip > a.ip THEN b.p ELSE a.p
    IN  IF memcmp(n, 0, n, p, ms + 1) # 0
        THEN [ms |-> ms, p |-> Larger(ms, l - ms - 1) + 1, mem0 |-> 0]
        ELSE [ms |-> ms, p |-> p, mem0 |-> l - p]

RECURSIVE same_from(_, _, _, _)
same_from(n, h, at, k) == IF B(n, k) # 0 /\ B(n, k) = B(h, at + k) THEN same_from(n, h, at, k + 1) ELSE k
RECURSIVE same_down(_, _, _, _, _)
same_down(n, h, at, k, mem) == IF k > mem /\ B(n, k - 1) = B(h, at + k - 1) THEN same_down(n, h, at, k - 1, mem) ELSE k

\* Where the known part of the haystack ends: found further when it is short.
end_estimate(h, at, z, l) ==
    LET grow == l + GROW - (l % GROW) - 1
        z2 == memchr(h, z, 0, grow)
    IN  IF z - at >= l THEN z ELSE IF z2 # CS_NULL THEN z2 ELSE z + grow

\* Position at, mem bytes of the needle known to match there.
RECURSIVE twoway_search(_, _, _, _, _, _, _)
twoway_search(h, n, l, split, at, z0, mem) ==
    LET z == end_estimate(h, at, z0, l)
        last == B(h, at + l - 1)
        shift == l - (CHOOSE i \in 1 .. l : n[i] = last /\ \A j \in i + 1 .. l : n[j] # last)
        right == same_from(n, h, at, Larger(split.ms + 1, mem))
        left == same_down(n, h, at, split.ms + 1, mem)
        next(to, m) == twoway_search(h, n, l, split, to, z, m)
    IN  IF z - at < l THEN CS_NULL
        ELSE IF last \notin ByteSet(n) THEN next(at + l, 0)
        ELSE IF shift > 0 THEN next(at + Larger(shift, mem), 0)
        ELSE IF B(n, right) # 0 THEN next(at + right - split.ms, 0)
        ELSE IF left <= mem THEN at
        ELSE next(at + split.p, split.mem0)

twoway_strstr(h, n) ==
    LET l == Len(n) - 1 IN
    IF Len(h) - 1 < l THEN CS_NULL ELSE twoway_search(h, n, l, split_needle(n, l), 0, 0, 0)

strstr(h0, n) ==
    LET o == strchr(h0, B(n, 0))
        h == From(h0, o)
        l == Len(n) - 1
        found == IF l <= 4 THEN bytes_strstr(h, l - 1, SubSeq(n, 1, l)) ELSE twoway_strstr(h, n)
    IN  CASE l = 0 -> 0
          [] l > 0 /\ (o = CS_NULL \/ l = 1) -> o
          [] OTHER -> IF \E i \in 1 .. Least3(l - 1) : Len(h) - 1 = i THEN CS_NULL
                      ELSE IF found = CS_NULL THEN CS_NULL ELSE o + found

-----------------------------------------------------------------------------
(* The calls: arguments in, result out.                                     *)

CsIdle == cs_call.op = "none"
Called(op, a, b, n, out) == cs_call' = [op |-> op, a |-> a, b |-> b, n |-> n] /\ cs_out' = out
Room(s) == Str(s) \o <<7, 7, 7, 7>>   \* a string in a longer array

CsInit == cs_call = [op |-> "none"] /\ cs_out = 0

search_call ==
    CsIdle /\ \E h \in Haystacks, n \in Needles : Called("strstr", h, n, 0, strstr(Str(h), Str(n)))
compare_call ==
    CsIdle /\ \E a \in Words, b \in Words :
        \/ Called("strcmp", a, b, 0, strcmp(Str(a), Str(b), 0))
        \/ Called("strcasecmp", a, b, 0, strcasecmp(Str(a), Str(b), 0))
        \/ \E n \in Counts : \/ Called("strncmp", a, b, n, strncmp(Str(a), Str(b), n))
                             \/ Called("strncasecmp", a, b, n, strncasecmp(Str(a), Str(b), n))
span_call ==
    CsIdle /\ \E a \in Words, b \in Words :
        \/ Called("strspn", a, b, 0, strspn(Str(a), Str(b)))
        \/ Called("strcspn", a, b, 0, strcspn(Str(a), Str(b)))
        \/ Called("strpbrk", a, b, 0, strpbrk(Str(a), Str(b)))
char_call ==
    CsIdle /\ \E a \in Words, b \in Words :
        /\ Len(b) = 1
        /\ \/ Called("strchr", a, b, 0, strchr(Str(a), b[1]))
           \/ Called("strchrnul", a, b, 0, strchrnul(Str(a), 0, b[1]))
           \/ Called("strrchr", a, b, 0, strrchr(Str(a), 0, b[1], CS_NULL))
copy_call ==
    CsIdle /\ \E a \in Words, b \in Words, n \in Counts :
        \/ Called("strcpy", a, b, n, strcpy(Room(a), 0, Str(b)))
        \/ Called("strcat", a, b, n, strcat(Room(a), Str(b)))
        \/ Called("strncpy", a, b, n, strncpy(Room(a), 0, Str(b), n))
        \/ Called("strncat", a, b, n, strncat(Room(a), Str(b), n))
        \/ Called("strerror_r", a, b, n, strerror_r(Str(a), [i \in 1 .. n |-> 7]))
memory_call ==
    CsIdle /\ \E n \in Fills, at \in 0 .. 3 :
        \/ Called("memset", at, 0, n, memset(at, n))
        \/ \E to \in 0 .. 3 : n <= 4 /\ Called("memmove", at, to, n, memmove([i \in 1 .. 8 |-> i], to, at, n))

CsNext == search_call \/ compare_call \/ span_call \/ char_call \/ copy_call \/ memory_call

-----------------------------------------------------------------------------
(* What each call should give.                                              *)

Occurs(h, n, i) == i + Len(n) <= Len(h) /\ SubSeq(h, i + 1, i + Len(n)) = n
FirstOf(S, none) == IF S = {} THEN none ELSE CHOOSE i \in S : \A j \in S : i <= j
LastOf(S, none) == IF S = {} THEN none ELSE CHOOSE i \in S : \A j \in S : i >= j
Places(a, S) == {i \in 0 .. Len(a) - 1 : a[i + 1] \in S}
Folded(a) == [i \in 1 .. Len(a) |-> tolower(a[i])]
Cut(a, n) == SubSeq(a, 1, IF n < Len(a) THEN n ELSE Len(a))
\* -1, 0 or 1 as a is before, at or after b in dictionary order.
Order(a, b) ==
    IF a = b THEN 0
    ELSE LET d == FirstOf({i \in (DOMAIN Str(a)) \cap (DOMAIN Str(b)) : Str(a)[i] # Str(b)[i]}, 0) IN
         IF Str(a)[d] < Str(b)[d] THEN -1 ELSE 1
SignIs(i, sign) == (sign < 0 /\ i < 0) \/ (sign = 0 /\ i = 0) \/ (sign > 0 /\ i > 0)
Over(text, mem) == text \o SubSeq(mem, Len(text) + 1, Len(mem))

\* Each string function gives what the C standard says: strstr the first place
\* where the needle occurs, by whichever of its algorithms; a comparison the
\* sign of the dictionary order; a copy exactly the bytes it should change, and
\* memmove as if through a third array.  strcspn, and strpbrk with it, is held
\* to it for sets of two bytes or more.
StringsMatch ==
    LET a == cs_call.a b == cs_call.b n == cs_call.n IN
    CASE CsIdle -> TRUE
      [] cs_call.op = "strstr" -> cs_out = FirstOf({i \in 0 .. Len(a) : Occurs(a, b, i)}, CS_NULL)
      [] cs_call.op = "strcmp" -> SignIs(cs_out, Order(a, b))
      [] cs_call.op = "strncmp" -> SignIs(cs_out, Order(Cut(a, n), Cut(b, n)))
      [] cs_call.op = "strcasecmp" -> SignIs(cs_out, Order(Folded(a), Folded(b)))
      [] cs_call.op = "strncasecmp" -> SignIs(cs_out, Order(Folded(Cut(a, n)), Folded(Cut(b, n))))
      [] cs_call.op = "strspn" -> cs_out = FirstOf((0 .. Len(a) - 1) \ Places(a, ToSet(b)), Len(a))
      [] cs_call.op = "strcspn" -> Len(b) >= 2 => cs_out = FirstOf(Places(a, ToSet(b)), Len(a))
      [] cs_call.op = "strpbrk" -> Len(b) >= 2 => cs_out = FirstOf(Places(a, ToSet(b)), CS_NULL)
      [] cs_call.op = "strchr" -> cs_out = FirstOf(Places(a, ToSet(b)), CS_NULL)
      [] cs_call.op = "strchrnul" -> cs_out = FirstOf(Places(a, ToSet(b)), Len(a))
      [] cs_call.op = "strrchr" -> cs_out = LastOf(Places(a, ToSet(b)), CS_NULL)
      [] cs_call.op = "strcpy" -> cs_out = Over(Str(b), Room(a))
      [] cs_call.op = "strcat" -> cs_out = Over(a \o Str(b), Room(a))
      [] cs_call.op = "strncpy" -> cs_out = Over(Cut(Str(b), n), Room(a))
      [] cs_call.op = "strncat" -> cs_out = Over(a \o Str(Cut(b, n)), Room(a))
      [] cs_call.op = "strerror_r" ->
           /\ cs_out.ret = (IF Len(a) < n THEN "0" ELSE "ERANGE")
           /\ Len(cs_out.buf) = n /\ n > 0 => Occurs(cs_out.buf, Str(Cut(a, n - 1)), 0)
      [] cs_call.op = "memset" -> cs_out = 0 .. n - 1
      [] cs_call.op = "memmove" -> cs_out = [i \in 1 .. 8 |-> IF i - 1 \in b .. b + n - 1 THEN i - b + a ELSE i]

-----------------------------------------------------------------------------
(***************************************************************************)
(* Algorithms of stdlib.c: the four functions that read an integer, and    *)
(* qsort, which is a smoothsort over a forest of Leonardo heaps.           *)
(***************************************************************************)
CONSTANTS SL_BITS,          \* the width of long
          SL_WORD,          \* the width of size_t in the heap bitmap, at least 3
          Numerals, Bases,  \* the strings and bases of strtol and its kin
          Arrays            \* what qsort is given

VARIABLES sl_call, sl_out
sl_vars == <<sl_call, sl_out>>

-----------------------------------------------------------------------------
(* Integers.  A character is its code; the string ends with a 0.            *)

isspace(c) == c = 32 \/ c \in 9 .. 13
isdigit(c) == c \in 48 .. 57
isupper(c) == c \in 65 .. 90
isalpha(c) == isupper(c) \/ c \in 97 .. 122
DigitOf(c) == IF isdigit(c) THEN c - 48 ELSE IF isupper(c) THEN c - 55 ELSE IF isalpha(c) THEN c - 87 ELSE 99

RECURSIVE skip_space(_, _)
skip_space(s, i) == IF isspace(s[i]) THEN skip_space(s, i + 1) ELSE i

\* The digits from i: any is 0 before the first, -1 once out of range.
RECURSIVE read_digits(_, _, _, _, _, _, _)
read_digits(s, i, base, cutoff, cutlim, acc, any) ==
    LET d == DigitOf(s[i]) IN
    IF d >= base THEN [acc |-> acc, any |-> any, end |-> i]
    ELSE IF any < 0 \/ acc > cutoff \/ (acc = cutoff /\ d > cutlim)
         THEN read_digits(s, i + 1, base, cutoff, cutlim, acc, -1)
         ELSE read_digits(s, i + 1, base, cutoff, cutlim, acc * base + d, 1)

Wrapped(v) == LET m == v % 2^SL_BITS IN IF m >= 2^(SL_BITS - 1) THEN m - 2^SL_BITS ELSE m

\* limit and the result outside it depend on the sign and on the type.
strto(s, base0, limit(_), clipped(_), converted(_)) ==
    LET i0 == skip_space(s, 1)
        neg == s[i0] = 45
        i1 == IF s[i0] \in {43, 45} THEN i0 + 1 ELSE i0
        hex == base0 \in {0, 16} /\ s[i1] = 48 /\ s[i1 + 1] \in {88, 120}
        i2 == IF hex THEN i1 + 2 ELSE i1
        base == IF hex THEN 16 ELSE IF base0 # 0 THEN base0 ELSE IF s[i1] = 48 THEN 8 ELSE 10
        r == read_digits(s, i2, base, limit(neg) \div base, limit(neg) % base, 0, 0)
    IN  IF base0 < 0 \/ base0 = 1 \/ base0 > 36 THEN [value |-> 0, errno |-> "EINVAL", end |-> 1]
        ELSE [value |-> IF r.any < 0 THEN clipped(neg) ELSE converted(IF neg THEN -r.acc ELSE r.acc),
              errno |-> IF r.any < 0 THEN "ERANGE" ELSE "0",
              end |-> IF r.any # 0 THEN r.end ELSE 1]

SL_MAX == 2^(SL_BITS - 1) - 1
SL_MIN == -(2^(SL_BITS - 1))
SL_UMAX == 2^SL_BITS - 1
SignedLimit(neg) == IF neg THEN SL_MAX + 1 ELSE SL_MAX
SignedClip(neg) == IF neg THEN SL_MIN ELSE SL_MAX
Unsigned(neg) == SL_UMAX
Modulo(v) == v % 2^SL_BITS

strtol(s, base) == strto(s, base, SignedLimit, SignedClip, Wrapped)
strtoll(s, base) == strto(s, base, SignedLimit, SignedClip, Wrapped)
strtoul(s, base) == strto(s, base, Unsigned, Unsigned, Modulo)
strtoull(s, base) == strto(s, base, Unsigned, Unsigned, Modulo)

RECURSIVE digits_down(_, _, _)
digits_down(s, i, n) == IF isdigit(s[i]) THEN digits_down(s, i + 1, 10 * n - (s[i] - 48)) ELSE n
\* atoi and atoll add the digits up below zero; past the range the sum is undefined.
atoi(s) ==
    LET i == skip_space(s, 1)
        n == digits_down(s, IF s[i] \in {43, 45} THEN i + 1 ELSE i, 0)
    IN  IF s[i] = 45 THEN n ELSE -n
atoll(s) == atoi(s)

-----------------------------------------------------------------------------
(* qsort.  Positions count from 0; the bitmap of heap orders is two words.  *)

ctz(x) == IF x = 0 THEN 0 ELSE CHOOSE n \in 0 .. SL_WORD : x % 2^n = 0 /\ x % 2^(n + 1) # 0
pntz(p) == LET r == ctz(p[1] - 1) q == SL_WORD + ctz(p[2]) IN
           IF r # 0 THEN r ELSE IF q # SL_WORD THEN q ELSE 0

shl(p, n) ==
    LET q == IF n >= SL_WORD THEN <<0, p[1]>> ELSE p
        k == IF n >= SL_WORD THEN n - SL_WORD ELSE n
    IN  <<(q[1] * 2^k) % 2^SL_WORD, ((q[2] * 2^k) % 2^SL_WORD) + (q[1] \div 2^(SL_WORD - k))>>
shr(p, n) ==
    LET q == IF n >= SL_WORD THEN <<p[2], 0>> ELSE p
        k == IF n >= SL_WORD THEN n - SL_WORD ELSE n
    IN  <<(q[1] \div 2^k) + ((q[2] * 2^(SL_WORD - k)) % 2^SL_WORD), q[2] \div 2^k>>
SetLow(p) == [p EXCEPT ![1] = @ + 1 - (@ % 2)]

\* The elements at the positions of ar move up by one, the first to the end.
cycle(a, ar) ==
    [x \in DOMAIN a |-> IF \E i \in DOMAIN ar : ar[i] = x - 1
                        THEN LET i == CHOOSE i \in DOMAIN ar : ar[i] = x - 1 IN a[ar[(i % Len(ar)) + 1] + 1]
                        ELSE a[x]]

\* lp[i + 1] is the i-th Leonardo number.
RECURSIVE leonardo(_, _)
leonardo(lp, size) ==
    IF Len(lp) > 2 /\ Last(lp) >= size THEN lp ELSE leonardo(Append(lp, lp[Len(lp) - 1] + lp[Len(lp)] + 1), size)

RECURSIVE sift_path(_, _, _, _, _)
sift_path(a, head, pshift, lp, ar) ==
    LET rt == head - 1
        lf == head - 1 - lp[pshift - 1]
        x == a[ar[1] + 1]
    IN  IF pshift <= 1 THEN ar
        ELSE IF x >= a[lf + 1] /\ x >= a[rt + 1] THEN ar
        ELSE IF a[lf + 1] >= a[rt + 1] THEN sift_path(a, lf, pshift - 1, lp, Append(ar, lf))
        ELSE sift_path(a, rt, pshift - 2, lp, Append(ar, rt))
sift(a, head, pshift, lp) == cycle(a, sift_path(a, head, pshift, lp, <<head>>))

\* Along the roots of the heaps, while the next one is larger.
RECURSIVE trinkle_path(_, _, _, _, _, _, _)
trinkle_path(a, head, p, pshift, trusty, lp, ar) ==
    LET stop == [ar |-> ar, head |-> head, pshift |-> pshift, trusty |-> trusty]
        stepson == head - lp[pshift + 1]
        rt == head - 1
        lf == head - 1 - lp[pshift - 1]
        x == a[stepson + 1]
        trail == pntz(p)
    IN  IF p = <<1, 0>> THEN stop
        ELSE IF x <= a[ar[1] + 1] THEN stop
        ELSE IF ~trusty /\ pshift > 1 /\ (a[rt + 1] >= x \/ a[lf + 1] >= x) THEN stop
        ELSE trinkle_path(a, stepson, shr(p, trail), pshift + trail, FALSE, lp, Append(ar, stepson))
trinkle(a, head, p, pshift, trusty, lp) ==
    LET r == trinkle_path(a, head, p, pshift, trusty, lp, <<head>>) IN
    IF r.trusty THEN a ELSE sift(cycle(a, r.ar), r.head, r.pshift, lp)

\* Each element in turn becomes the root of a heap.
RECURSIVE build_heaps(_, _, _, _, _)
build_heaps(a, head, p, pshift, lp) ==
    LET high == Len(a) - 1
        three == p[1] % 4 = 3
        last == lp[pshift] >= high - head
        b == IF ~three /\ last THEN trinkle(a, head, p, pshift, FALSE, lp) ELSE sift(a, head, pshift, lp)
        q == IF three THEN shr(p, 2) ELSE IF pshift = 1 THEN shl(p, 1) ELSE shl(p, pshift - 1)
        s == IF three THEN pshift + 2 ELSE IF pshift = 1 THEN 0 ELSE 1
    IN  IF head >= high THEN [a |-> a, head |-> head, p |-> p, pshift |-> pshift]
        ELSE build_heaps(b, head + 1, SetLow(q), s, lp)

\* The root of the last heap is the largest: split the heap below it.
RECURSIVE take_heaps(_, _, _, _, _)
take_heaps(a, head, p, pshift, lp) ==
    LET trail == pntz(p)
        up == shl(p, 2)
        s == pshift - 2
        q == shr([up EXCEPT ![1] = 8 * (@ \div 8) + 7 - (@ % 8)], 1)
        b == trinkle(a, head - lp[s + 1] - 1, q, s + 1, TRUE, lp)
        r == SetLow(shl(q, 1))
    IN  IF pshift = 1 /\ p = <<1, 0>> THEN a
        ELSE IF pshift <= 1 THEN take_heaps(a, head - 1, shr(p, trail), pshift + trail, lp)
        ELSE take_heaps(trinkle(b, head - 1, r, s, TRUE, lp), head - 1, r, s, lp)

\* Without the trinkle that orders the roots before the heaps are taken apart.
mut_qsort(a) ==
    LET lp == leonardo(<<1, 1>>, Len(a))
        h == build_heaps(a, 0, <<1, 0>>, 1, lp)
    IN  IF a = <<>> THEN a ELSE take_heaps(h.a, h.head, h.p, h.pshift, lp)
qsort(a) ==
    LET lp == leonardo(<<1, 1>>, Len(a))
        h == build_heaps(a, 0, <<1, 0>>, 1, lp)
    IN  IF a = <<>> THEN a
        ELSE take_heaps(trinkle(h.a, h.head, h.p, h.pshift, FALSE, lp), h.head, h.p, h.pshift, lp)

-----------------------------------------------------------------------------
SlInit == sl_call = [op |-> "none"] /\ sl_out = 0

integer_call ==
    /\ sl_call.op = "none"
    /\ \E s \in Numerals, base \in Bases :
        LET z == s \o <<0>> IN
        \/ sl_call' = [op |-> "strtol", s |-> s, base |-> base] /\ sl_out' = strtol(z, base)
        \/ sl_call' = [op |-> "strtoll", s |-> s, base |-> base] /\ sl_out' = strtoll(z, base)
        \/ sl_call' = [op |-> "strtoul", s |-> s, base |-> base] /\ sl_out' = strtoul(z, base)
        \/ sl_call' = [op |-> "strtoull", s |-> s, base |-> base] /\ sl_out' = strtoull(z, base)
        \/ base = 10 /\ sl_call' = [op |-> "atoi", s |-> s, base |-> base] /\ sl_out' = atoi(z)
qsort_call ==
    /\ sl_call.op = "none"
    /\ \E a \in Arrays : sl_call' = [op |-> "qsort", s |-> a, base |-> 0] /\ sl_out' = qsort(a)

SlNext == integer_call \/ qsort_call

-----------------------------------------------------------------------------
(* What a numeral denotes: the digits after blanks, a sign and a prefix.    *)

RECURSIVE Denoted(_, _, _, _)
Denoted(s, i, j, base) == IF j < i THEN 0 ELSE Denoted(s, i, j - 1, base) * base + DigitOf(s[j])

Reading(s, base0) ==
    LET first(S) == CHOOSE i \in S : \A j \in S : i <= j
        i0 == first({i \in 1 .. Len(s) + 1 : i > Len(s) \/ ~isspace(s[i])})
        sign == i0 <= Len(s) /\ s[i0] \in {43, 45}
        i1 == IF sign THEN i0 + 1 ELSE i0
        zero == i1 <= Len(s) /\ s[i1] = 48
        hex == zero /\ i1 < Len(s) /\ s[i1 + 1] \in {88, 120} /\ base0 \in {0, 16}
        base == IF base0 # 0 THEN base0 ELSE IF hex THEN 16 ELSE IF zero THEN 8 ELSE 10
        i2 == IF hex THEN i1 + 2 ELSE i1
        end == first({i \in i2 .. Len(s) + 1 : i > Len(s) \/ DigitOf(s[i]) >= base})
    IN  [any |-> end > i2, end |-> end, neg |-> sign /\ s[i0] = 45, value |-> Denoted(s, i2, end - 1, base)]

Counted(s, x) == Cardinality({i \in DOMAIN s : s[i] = x})

\* strtol and its kin give the number the string denotes, or the nearest the
\* type has and ERANGE, and the end of the numeral; qsort gives the array in
\* order, with the same elements.
StdlibMatches ==
    LET s == sl_call.s r == Reading(s, sl_call.base)
        v == IF r.neg THEN -r.value ELSE r.value
        unsigned == sl_call.op \in {"strtoul", "strtoull"}
        fits == IF unsigned THEN r.value <= SL_UMAX ELSE SL_MIN <= v /\ v <= SL_MAX
    IN  CASE sl_call.op = "none" -> TRUE
          [] sl_call.op = "qsort" ->
               /\ \A i \in 1 .. Len(s) - 1 : sl_out[i] <= sl_out[i + 1]
               /\ Len(sl_out) = Len(s) /\ \A x \in ToSet(s) : Counted(s, x) = Counted(sl_out, x)
          [] sl_call.op = "atoi" -> fits => sl_out = v
          [] OTHER ->
               IF sl_call.base = 1 THEN sl_out = [value |-> 0, errno |-> "EINVAL", end |-> 1]
               ELSE IF ~r.any THEN sl_out.value = 0 /\ sl_out.end = 1
               ELSE /\ sl_out.end = r.end
                    /\ sl_out.errno = (IF fits THEN "0" ELSE "ERANGE")
                    /\ sl_out.value = IF fits THEN (IF unsigned THEN v % 2^SL_BITS ELSE v)
                                      ELSE IF unsigned THEN SL_UMAX ELSE IF r.neg THEN SL_MIN ELSE SL_MAX

-----------------------------------------------------------------------------
(***************************************************************************)
(* fnmatch and glob.  A character is its code; pattern and string end with *)
(* a 0, and positions count from 0.                                        *)
(***************************************************************************)
CONSTANTS FnTokens,    \* the pieces patterns are made of: [text, kind, set]
          MaxTokens,
          FnStrings,   \* what is matched
          FnFlags,     \* sets of flags
          GlobTrees, GlobPatterns, GlobFlags

VARIABLES fn_call, fn_out
fn_vars == <<fn_call, fn_out>>

FN_END == 0
BRACKET == -3
QUESTION == -4
STAR == -5
ChAt(s, i) == s[i + 1]
Slash == 47
Dot == 46

str_next(str, j, f) == IF j >= f THEN 0 ELSE ChAt(str, j)

\* The position of the ']' of a bracket expression, or of the end. A class,
\* equivalence or collating element inside it is skipped as a whole.
RECURSIVE class_end(_, _, _, _)
class_end(pat, k, e, z) ==
    IF k < e /\ ChAt(pat, k) # 0 /\ (ChAt(pat, k - 1) # z \/ ChAt(pat, k) # 93) THEN class_end(pat, k + 1, e, z) ELSE k
RECURSIVE bracket_end(_, _, _)
bracket_end(pat, k, e) ==
    IF k >= e \/ ChAt(pat, k) \in {0, 93} THEN k
    ELSE IF k + 1 < e /\ ChAt(pat, k) = 91 /\ ChAt(pat, k + 1) \in {58, 46, 61}
         THEN LET from == IF k + 2 < e /\ ChAt(pat, k + 2) # 0 THEN k + 3 ELSE k + 2
                  stop == class_end(pat, from, e, ChAt(pat, k + 1))
              IN  IF stop >= e \/ ChAt(pat, stop) = 0 THEN stop ELSE bracket_end(pat, stop + 1, e)
         ELSE bracket_end(pat, k + 1, e)

\* The next element of the pattern between i and e, and its length.
bracket_from(pat, k, e) == bracket_end(pat, IF k < e /\ ChAt(pat, k) = 93 THEN k + 1 ELSE k, e)
bracket(pat, i, e, k) ==
    IF k >= e \/ ChAt(pat, k) = 0 THEN [c |-> 91, step |-> 1] ELSE [c |-> BRACKET, step |-> k - i + 1]
element(pat, i, e, c, flags) ==
    IF i >= e \/ c = 0 THEN [c |-> FN_END, step |-> 0]
    ELSE IF c = 92 /\ ChAt(pat, i + 1) # 0 /\ "NOESCAPE" \notin flags THEN [c |-> ChAt(pat, i + 1), step |-> 2]
    ELSE IF c = 91
         THEN bracket(pat, i, e, bracket_from(pat, IF i + 1 < e /\ ChAt(pat, i + 1) \in {33, 94} THEN i + 2 ELSE i + 1, e))
    ELSE [c |-> IF c = 42 THEN STAR ELSE IF c = 63 THEN QUESTION ELSE c, step |-> 1]
pat_next(pat, i, e, flags) == element(pat, i, e, ChAt(pat, i), flags)

toupper(c) == IF c \in 97 .. 122 THEN c - 32 ELSE c
lowered(c) == IF c \in 65 .. 90 THEN c + 32 ELSE c
casefold(k) == IF toupper(k) = k THEN lowered(k) ELSE toupper(k)

\* The members of a bracket expression from p on, wc being the one before.
RECURSIVE bracket_has(_, _, _, _, _)
bracket_has(pat, p, wc, k, kfold) ==
    LET c == ChAt(pat, p) wc2 == ChAt(pat, p + 1) IN
    IF c = 93 THEN FALSE
    ELSE IF c = 45 /\ wc2 # 93
         THEN (k \in wc .. wc2 \/ kfold \in wc .. wc2) \/ bracket_has(pat, p + 2, wc, k, kfold)
         ELSE c \in {k, kfold} \/ bracket_has(pat, p + 1, c, k, kfold)
match_bracket(pat, i, k, kfold) ==
    LET inv == ChAt(pat, i + 1) \in {33, 94}
        p == IF inv THEN i + 2 ELSE i + 1
        first == ChAt(pat, p) \in {93, 45}
        q == IF first THEN p + 1 ELSE p
    IN  ((first /\ k = ChAt(pat, p)) \/ bracket_has(pat, q, ChAt(pat, q - 1), k, kfold)) # inv

\* Whether the element c at position i stands for the character k.
element_matches(pat, i, c, k, flags) ==
    LET kfold == IF "CASEFOLD" \in flags THEN casefold(k) ELSE k IN
    IF c = BRACKET THEN match_bracket(pat, i, k, kfold) ELSE c \in {QUESTION, k, kfold}

\* Up to the first '*': star is where the pattern goes on after it, or -1.
RECURSIVE match_head(_, _, _, _, _, _, _)
RECURSIVE head_element(_, _, _, _, _, _, _, _, _)
head_element(pat, i, e, str, j, f, flags, n, k) ==
    IF n.c = STAR THEN [star |-> i + 1, j |-> j, ok |-> TRUE]
    ELSE IF k = 0 THEN [star |-> -1, j |-> j, ok |-> n.c = FN_END]
    ELSE IF ~element_matches(pat, i, n.c, k, flags) THEN [star |-> -1, j |-> j, ok |-> FALSE]
    ELSE match_head(pat, i + n.step, e, str, j + 1, f, flags)
match_head(pat, i, e, str, j, f, flags) ==
    head_element(pat, i, e, str, j, f, flags, pat_next(pat, i, e, flags), str_next(str, j, f))

\* Where the pattern goes on after its last '*', and the elements from there.
RECURSIVE find_tail(_, _, _, _, _, _)
RECURSIVE tail_element(_, _, _, _, _, _, _)
tail_element(pat, p, e, flags, ptail, count, n) ==
    IF n.c = STAR THEN find_tail(pat, p + 1, e, flags, p + 1, 0)
    ELSE find_tail(pat, p + n.step, e, flags, ptail, count + 1)
find_tail(pat, p, e, flags, ptail, count) ==
    IF p >= e THEN [ptail |-> ptail, count |-> count]
    ELSE tail_element(pat, p, e, flags, ptail, count, pat_next(pat, p, e, flags))

RECURSIVE match_tail(_, _, _, _, _, _, _)
RECURSIVE tail_matches(_, _, _, _, _, _, _, _, _)
tail_matches(pat, p, e, str, s, f, flags, n, k) ==
    IF k = 0 THEN n.c = FN_END
    ELSE element_matches(pat, p, n.c, k, flags) /\ match_tail(pat, p + n.step, e, str, s + 1, f, flags)
match_tail(pat, p, e, str, s, f, flags) ==
    tail_matches(pat, p, e, str, s, f, flags, pat_next(pat, p, e, flags), str_next(str, s, f))

\* One component, ended by a '*', tried at s: where both go on, or a failure.
RECURSIVE try_component(_, _, _, _, _, _, _)
RECURSIVE try_element(_, _, _, _, _, _, _, _, _)
try_element(pat, p, e, str, s, f, flags, n, k) ==
    IF n.c = STAR THEN [res |-> "commit", p |-> p + 1, s |-> s]
    ELSE IF k = 0 THEN [res |-> "no", p |-> p, s |-> s]
    ELSE IF ~element_matches(pat, p, n.c, k, flags) THEN [res |-> "later", p |-> p, s |-> s]
    ELSE try_component(pat, p + n.step, e, str, s + 1, f, flags)
try_component(pat, p, e, str, s, f, flags) ==
    try_element(pat, p, e, str, s, f, flags, pat_next(pat, p, e, flags), str_next(str, s, f))

RECURSIVE match_components(_, _, _, _, _, _, _)
RECURSIVE after_try(_, _, _, _, _, _, _, _)
after_try(pat, i, e, str, j, f, flags, t) ==
    CASE t.res = "commit" -> match_components(pat, t.p, e, str, t.s, f, flags)
      [] t.res = "later" -> match_components(pat, i, e, str, j + 1, f, flags)
      [] OTHER -> FALSE
match_components(pat, i, e, str, j, f, flags) ==
    i >= e \/ after_try(pat, i, e, str, j, f, flags, try_component(pat, i, e, str, j, f, flags))

RECURSIVE strnlen(_, _, _)
strnlen(s, i, e) == IF i < e /\ ChAt(s, i) # 0 THEN strnlen(s, i + 1, e) ELSE i

\* The tail may take what the head has matched.
mut_match_between(pat, star, tail, pend, str, j, stail, send, flags) ==
    /\ stail >= 0
    /\ match_tail(pat, tail.ptail, pend, str, stail, send, flags)
    /\ match_components(pat, star, tail.ptail, str, j, stail, flags)
match_between(pat, star, tail, pend, str, j, stail, send, flags) ==
    /\ stail >= j
    /\ match_tail(pat, tail.ptail, pend, str, stail, send, flags)
    /\ match_components(pat, star, tail.ptail, str, j, stail, flags)
match_star(pat, star, pend, str, j, send, flags) ==
    LET tail == find_tail(pat, star, pend, flags, star, 0)
    IN  match_between(pat, star, tail, pend, str, j, send - tail.count, send, flags)
after_head(pat, e, str, f, flags, head) ==
    /\ head.ok
    /\ head.star >= 0 => match_star(pat, head.star, strnlen(pat, head.star, e), str, head.j, strnlen(str, head.j, f), flags)
fnmatch_internal(pat, i, e, str, j, f, flags) ==
    /\ ~("PERIOD" \in flags /\ ChAt(str, j) = Dot /\ ChAt(pat, i) # Dot)
    /\ after_head(pat, e, str, f, flags, match_head(pat, i, e, str, j, f, flags))

\* By components of the path, each matched on its own.
RECURSIVE path_end(_, _, _)
RECURSIVE path_element(_, _, _, _)
path_element(pat, p, flags, n) ==
    IF n.c \in {FN_END, Slash} THEN [p |-> p, c |-> n.c, step |-> n.step] ELSE path_end(pat, p + n.step, flags)
path_end(pat, p, flags) == path_element(pat, p, flags, pat_next(pat, p, Len(pat), flags))
RECURSIVE match_path(_, _, _, _, _)
RECURSIVE match_name(_, _, _, _, _, _, _)
match_name(pat, i, str, j, flags, p, s) ==
    /\ p.c = ChAt(str, s) \/ (ChAt(str, s) # 0 /\ "LEADING_DIR" \in flags)
    /\ fnmatch_internal(pat, i, p.p, str, j, s, flags)
    /\ p.c = FN_END \/ match_path(pat, p.p + p.step, str, s + 1, flags)
match_path(pat, i, str, j, flags) ==
    match_name(pat, i, str, j, flags, path_end(pat, i, flags),
               CHOOSE s \in j .. Len(str) - 1 : ChAt(str, s) \in {0, Slash} /\ \A t \in j .. s - 1 : ChAt(str, t) \notin {0, Slash})

fnmatch(pat, str, flags) ==
    IF "PATHNAME" \in flags THEN match_path(pat, 0, str, 0, flags)
    ELSE \E s \in 0 .. Len(str) :
            /\ s = Len(str) \/ ("LEADING_DIR" \in flags /\ s < Len(str) - 1 /\ ChAt(str, s) = Slash)
            /\ fnmatch_internal(pat, 0, Len(pat), str, 0, s, flags)

-----------------------------------------------------------------------------
(* glob.  A tree is a function from the paths that exist, each a sequence   *)
(* of names, to their types; a pattern is a sequence of components, each a  *)
(* sequence of tokens.  Order of readdir: any, here that of SetToSeq.       *)

TextOf(tokens) == FlattenSeq([i \in DOMAIN tokens |-> tokens[i].text])
Z(s) == s \o <<0>>
IsWild(tokens) == \E i \in DOMAIN tokens : tokens[i].kind # "literal"
LiteralName(tokens) == [i \in DOMAIN tokens |-> CHOOSE c \in tokens[i].set : TRUE]

\* The components before the first one with a wildcard go to the path as they are.
RECURSIVE literal_prefix(_, _)
literal_prefix(path, comps) ==
    IF comps = <<>> \/ IsWild(Head(comps)) THEN [path |-> path, comps |-> comps]
    ELSE literal_prefix(Append(path, LiteralName(Head(comps))), Tail(comps))

append_match(path, dir, flags) == IF "MARK" \in flags /\ dir THEN [path |-> path, mark |-> TRUE] ELSE [path |-> path, mark |-> FALSE]

\* opendir and readdir, from the tree: the names in a directory.
IsDir(tree, path) == path = <<>> \/ (path \in DOMAIN tree /\ tree[path] = "dir")
readdir(tree, path) == SetToSeq({Last(q) : q \in {q \in DOMAIN tree : Len(q) = Len(path) + 1 /\ Front(q) = path}})

\* The matches found so far, and GLOB_ABORTED once a directory does not open.
RECURSIVE do_glob(_, _, _, _, _, _)
RECURSIVE glob_entries(_, _, _, _, _, _)
RECURSIVE glob_rest(_, _, _, _, _, _)
RECURSIVE glob_at(_, _, _, _, _)
glob_at(tree, at, known, flags, r) ==
    IF at.comps = <<>>
    THEN IF known \/ at.path \in DOMAIN tree
         THEN [r EXCEPT !.found = Append(@, append_match(at.path, IsDir(tree, at.path), flags))] ELSE r
    ELSE IF ~IsDir(tree, at.path) THEN IF "ERR" \in flags THEN [r EXCEPT !.error = "ABORTED"] ELSE r
    ELSE glob_entries(tree, at.path, readdir(tree, at.path), at.comps, flags, r)
do_glob(tree, path, known, comps, flags, r) ==
    glob_at(tree, literal_prefix(path, comps), known /\ (comps = <<>> \/ IsWild(Head(comps))), flags, r)
glob_skips(tree, path, name, comps, flags) ==
    \/ Len(comps) > 1 /\ tree[Append(path, name)] # "dir"
    \/ ~fnmatch(Z(TextOf(Head(comps))), Z(name), IF "PERIOD" \in flags THEN {} ELSE {"PERIOD"})
glob_rest(tree, path, names, comps, flags, r) ==
    IF r.error # "0" THEN r ELSE glob_entries(tree, path, names, comps, flags, r)
glob_entries(tree, path, names, comps, flags, r) ==
    IF names = <<>> THEN r
    ELSE glob_rest(tree, path, Tail(names), comps, flags,
             IF glob_skips(tree, path, Head(names), comps, flags) THEN r
             ELSE do_glob(tree, Append(path, Head(names)), TRUE, Tail(comps), flags, r))

PathText(m) == FlattenSeq([i \in DOMAIN m.path |-> IF i = 1 THEN m.path[1] ELSE <<Slash>> \o m.path[i]])
               \o (IF m.mark THEN <<Slash>> ELSE <<>>)
TextBefore(a, b) ==
    \E i \in DOMAIN Z(a) : i <= Len(b) /\ SubSeq(a, 1, i - 1) = SubSeq(b, 1, i - 1) /\ Z(a)[i] < b[i]

glob_result(comps, flags, old, error, texts) ==
    LET pattern == FlattenSeq([i \in DOMAIN comps |-> IF i = 1 THEN TextOf(comps[1]) ELSE <<Slash>> \o TextOf(comps[i])])
        kept == IF "APPEND" \in flags THEN old ELSE <<>>
    IN  IF texts = <<>> /\ "NOCHECK" \notin flags THEN [ret |-> "NOMATCH", pathv |-> kept]
        ELSE [ret |-> error,
              pathv |-> kept \o (IF texts = <<>> THEN <<pattern>>
                                 ELSE IF "NOSORT" \in flags THEN texts ELSE SortSeq(texts, TextBefore))]
glob_texts(comps, flags, old, r) ==
    glob_result(comps, flags, old, r.error, [i \in DOMAIN r.found |-> PathText(r.found[i])])
glob(tree, comps, flags, old) ==
    glob_texts(comps, flags, old, do_glob(tree, <<>>, FALSE, comps, flags, [found |-> <<>>, error |-> "0"]))

-----------------------------------------------------------------------------
FnPatterns == UNION {[1 .. n -> FnTokens] : n \in 0 .. MaxTokens}

FnInit == fn_call = [op |-> "none"] /\ fn_out = FALSE

fnmatch_call ==
    /\ fn_call.op = "none"
    /\ \E pat \in FnPatterns, str \in FnStrings, flags \in FnFlags :
        /\ fn_call' = [op |-> "fnmatch", pat |-> pat, str |-> str, flags |-> flags]
        /\ fn_out' = fnmatch(Z(TextOf(pat)), Z(str), flags)
glob_call ==
    /\ fn_call.op = "none"
    /\ \E tree \in GlobTrees, comps \in GlobPatterns, flags \in GlobFlags :
        /\ fn_call' = [op |-> "glob", tree |-> tree, pat |-> comps, flags |-> flags]
        /\ fn_out' = glob(tree, comps, flags, <<<<1>>>>)

FnNext == fnmatch_call \/ glob_call

-----------------------------------------------------------------------------
(* What a pattern means.                                                    *)

\* Token pat[i] may stand for the character str[j]; a dot that begins the
\* string or a path component is only matched by a dot that begins the pattern's.
Begins(seq, k, slash, flags) == k = 1 \/ ("PATHNAME" \in flags /\ seq[k - 1] = slash)
StandsFor(pat, i, str, j, flags) ==
    LET t == pat[i]
        c == str[j]
        text == [k \in DOMAIN pat |-> pat[k].text]
    IN  /\ c \in t.set \/ ("CASEFOLD" \in flags /\ casefold(c) \in t.set)
        /\ c = Slash /\ "PATHNAME" \in flags => t.kind = "literal"
        /\ c = Dot /\ "PERIOD" \in flags /\ Begins(str, j, Slash, flags) =>
               t.kind = "literal" /\ Begins(text, i, <<Slash>>, flags)

RECURSIVE Meant(_, _, _, _, _)
Meant(pat, i, str, j, flags) ==
    IF i > Len(pat) THEN j > Len(str) \/ ("LEADING_DIR" \in flags /\ str[j] = Slash)
    ELSE \/ pat[i].kind = "star" /\ Meant(pat, i + 1, str, j, flags)
         \/ /\ j <= Len(str) /\ StandsFor(pat, i, str, j, flags)
            /\ Meant(pat, IF pat[i].kind = "star" THEN i ELSE i + 1, str, j + 1, flags)

GlobMeant(tree, comps, flags) ==
    {q \in DOMAIN tree : Len(q) = Len(comps) /\ \A i \in DOMAIN q :
        Meant(comps[i], 1, q[i], 1, IF "PERIOD" \in flags THEN {} ELSE {"PERIOD"})}

\* fnmatch accepts exactly the strings the pattern stands for, with paths,
\* leading dots, directories and case as the flags say; glob finds exactly the
\* existing paths whose components its pattern stands for, in order, after the
\* ones it appends to.
MatchingMatches ==
    CASE fn_call.op = "none" -> TRUE
      [] fn_call.op = "fnmatch" -> fn_out = Meant(fn_call.pat, 1, fn_call.str, 1, fn_call.flags)
      [] fn_call.op = "glob" ->
           LET meant == GlobMeant(fn_call.tree, fn_call.pat, fn_call.flags)
               texts == {PathText([path |-> q, mark |-> "MARK" \in fn_call.flags /\ fn_call.tree[q] = "dir"]) : q \in meant}
               n == IF "APPEND" \in fn_call.flags THEN 1 ELSE 0
               new == SubSeq(fn_out.pathv, n + 1, Len(fn_out.pathv))
           IN  IF fn_out.ret = "0" /\ meant # {}
               THEN /\ ToSet(new) = texts /\ Len(new) = Cardinality(texts)
                    /\ "NOSORT" \in fn_call.flags \/ \A i \in 1 .. Len(new) - 1 : TextBefore(new[i], new[i + 1])
               ELSE meant = {} \/ "ERR" \in fn_call.flags
=============================================================================
