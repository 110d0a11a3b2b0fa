------------------------------ MODULE Libkern -------------------------------
(***************************************************************************)
(* The string routines of the kernel's libkern (src/kernel/kernel/libkern/ *)
(* utils.c) and the line framing of its log (libkern/log.c), as pure       *)
(* operators checked against reference definitions over bounded inputs.   *)
(*                                                                         *)
(* A C string is the sequence of its bytes (0 .. 255) before the NUL; the  *)
(* NUL itself is the byte read past the end.  A byte is read as a C char, *)
(* which is signed in the i386 build and unsigned in the ARM one          *)
(* (CharSigned).  The loops of the code become RECURSIVE operators over   *)
(* the same indices.                                                       *)
(***************************************************************************)
EXTENDS Integers, Sequences

CONSTANTS
    CharSigned,   \* plain char is signed (i386) or not (aarch32)
    Strs,         \* strings given to strcmp and strncmp
    Counts,       \* num arguments of strncmp
    Numbers,      \* values given to dtos and htos
    Formats,      \* log format strings (printf_engine is outside src/)
    Bytes         \* the byte that may precede a format in memory

ASSUME CharSigned \in BOOLEAN

CharZero == 48          \* '0'
LowerA == 97        \* 'a'
NewLine == 10       \* '\n'

\* A byte read through a plain char.
Char(b) == IF CharSigned /\ b >= 128 THEN b - 256 ELSE b

\* The char at 1-based position k of s; 0 (the NUL) past its end.
At(s, k) == IF k <= Len(s) THEN Char(s[k]) ELSE 0

NumMin(a, b) == IF a <= b THEN a ELSE b

\* strlen (lines 94-100): the bytes before the NUL.
Strlen(s) == Len(s)

\* reverse (lines 84-92): swap s[i] and s[j] (lo, hi) from both ends
\* inward, with j starting at strlen(s) - 1 (1-based: Strlen(s)).
RECURSIVE ReverseLoop(_, _, _)
ReverseLoop(s, lo, hi) ==
    IF lo < hi THEN ReverseLoop([s EXCEPT ![lo] = s[hi], ![hi] = s[lo]], lo + 1, hi - 1)
    ELSE s

ReverseStr(s) == ReverseLoop(s, 1, Strlen(s))

\* The digits of dec, least significant first, as the while loop of dtos
\* writes them (lines 75-79).
RECURSIVE DecDigits(_)
DecDigits(n) == IF n = 0 THEN << >> ELSE <<(n % 10) + CharZero>> \o DecDigits(n \div 10)

\* dtos (lines 68-82): "0" for zero, else the digits, then reverse.
Dtos(n) == ReverseStr(IF n = 0 THEN <<CharZero>> ELSE DecDigits(n))

\* Mutant: htos writes hex digits from 'a' - 9 on.
HexCharOff(num) == IF num < 10 THEN num + CharZero ELSE num + LowerA - 9

\* The char htos writes for a digit num (lines 58-62).
HexChar(num) == IF num < 10 THEN num + CharZero ELSE num + LowerA - 10

RECURSIVE HexDigits(_)
HexDigits(n) == IF n = 0 THEN << >> ELSE <<HexChar(n % 16)>> \o HexDigits(n \div 16)

\* htos (lines 48-66).
Htos(n) == ReverseStr(IF n = 0 THEN <<CharZero>> ELSE HexDigits(n))

\* stoi (lines 31-46): more than 9 chars give 0; otherwise walk from the
\* last char to the first, adding (c - '0') * mult with mult *= 10.
RECURSIVE StoiLoop(_, _, _, _)
StoiLoop(s, e, mult, res) ==
    IF e >= 1 THEN StoiLoop(s, e - 1, mult * 10, res + (Char(s[e]) - CharZero) * mult)
    ELSE res

Stoi(s, len) == IF len > 9 THEN 0 ELSE StoiLoop(s, len, 1, 0)

\* strcmp (lines 102-116): skip equal chars up to a NUL, then the sign of
\* the chars compared as plain char.
RECURSIVE StrcmpFrom(_, _, _)
StrcmpFrom(a, b, k) ==
    IF At(a, k) = At(b, k) /\ At(a, k) # 0 /\ At(b, k) # 0
    THEN StrcmpFrom(a, b, k + 1)
    ELSE IF At(a, k) < At(b, k) THEN -1 ELSE IF At(a, k) > At(b, k) THEN 1 ELSE 0

Strcmp(a, b) == StrcmpFrom(a, b, 1)

\* Mutant: strncmp without the `if (!num) return 0` after its loop.
RECURSIVE StrncmpNoNumCheck(_, _, _, _)
StrncmpNoNumCheck(a, b, k, num) ==
    IF At(a, k) = At(b, k) /\ At(a, k) # 0 /\ At(b, k) # 0 /\ num # 0
    THEN StrncmpNoNumCheck(a, b, k + 1, num - 1)
    ELSE IF At(a, k) < At(b, k) THEN -1 ELSE IF At(a, k) > At(b, k) THEN 1 ELSE 0

\* strncmp (lines 118-137): as strcmp, but at most num chars, and 0 once
\* num ran out.
RECURSIVE StrncmpFrom(_, _, _, _)
StrncmpFrom(a, b, k, num) ==
    IF At(a, k) = At(b, k) /\ At(a, k) # 0 /\ At(b, k) # 0 /\ num # 0
    THEN StrncmpFrom(a, b, k + 1, num - 1)
    ELSE IF num = 0 THEN 0
    ELSE IF At(a, k) < At(b, k) THEN -1 ELSE IF At(a, k) > At(b, k) THEN 1 ELSE 0

Strncmp(a, b, num) == StrncmpFrom(a, b, 1, num)

\* vlog_fmt (log.c 36-46) of a format without conversions: the prefix, the
\* format, and a '\n' unless format[formatlen - 1] is one.  For the empty
\* format that index is SIZE_MAX and the byte read is the one before the
\* format, any of Bytes; the result is the set of possible outputs.
VlogFmt(init, format) ==
    LET last == IF format = << >> THEN Bytes ELSE {format[Len(format)]}
    IN {init \o format \o (IF b = NewLine THEN << >> ELSE <<NewLine>>) : b \in last}

-----------------------------------------------------------------------------
(* Reference definitions.                                                  *)

\* The value of a digit string in a base, most significant digit first.
RECURSIVE DigitsValue(_, _)
DigitsValue(s, base) ==
    IF s = << >> THEN 0
    ELSE LET c == s[Len(s)]
             d == IF c >= LowerA THEN c - LowerA + 10 ELSE c - CharZero
         IN DigitsValue(SubSeq(s, 1, Len(s) - 1), base) * base + d

\* The canonical digits of n in a base: no leading zero, "0" for zero.
Canonical(s, base) ==
    /\ Len(s) >= 1
    /\ (s[1] = CharZero => Len(s) = 1)
    /\ \A k \in 1 .. Len(s) : s[k] \in (CharZero .. CharZero + 9) \cup (LowerA .. LowerA + base - 11)

\* The first n chars of s.
Prefix(s, n) == SubSeq(s, 1, NumMin(n, Len(s)))

\* The order the C standard gives strcmp and strncmp: lexicographic over
\* the bytes read as unsigned char, a proper prefix first; -1, 0 or 1.
LexCmp(a, b) ==
    LET diff == {k \in 1 .. NumMin(Len(a), Len(b)) : a[k] # b[k]}
    IN IF diff # {}
       THEN LET k == CHOOSE k \in diff : \A j \in diff : k <= j
            IN IF a[k] < b[k] THEN -1 ELSE 1
       ELSE IF Len(a) < Len(b) THEN -1 ELSE IF Len(a) > Len(b) THEN 1 ELSE 0

-----------------------------------------------------------------------------
\* dtos and htos write the canonical decimal and hex digits of every value,
\* through their digit loops and reverse, and stoi reads dtos's digits back
\* to the value whenever they are at most 9 (stoi's cap, which keeps res
\* and mult inside int).
NumberFormatsRoundTrip ==
    \A n \in Numbers :
        /\ Canonical(Dtos(n), 10) /\ DigitsValue(Dtos(n), 10) = n
        /\ Canonical(Htos(n), 16) /\ DigitsValue(Htos(n), 16) = n
        /\ Strlen(Dtos(n)) <= 9 => Stoi(Dtos(n), Strlen(Dtos(n))) = n

\* strcmp and strncmp order strings as the C standard says: strcmp by the
\* first differing byte as unsigned char with a proper prefix first, and
\* strncmp the same over the first num bytes only, whichever string ends
\* first.  It holds for an unsigned plain char (the aarch32 build); with a
\* signed one (i386) a byte of 128 or more sorts before every ASCII byte
\* and before the NUL that ends a proper prefix, and it fails.
StringCompareExact ==
    \A a, b \in Strs :
        /\ Strcmp(a, b) = LexCmp(a, b)
        /\ \A n \in Counts : Strncmp(a, b, n) = LexCmp(Prefix(a, n), Prefix(b, n))

\* Every log line vlog_fmt writes ends in a '\n'.  Not a property of any
\* run: for an empty format, line 42 reads the byte before it, and when
\* that byte is '\n' the line is left open.
LogLineEnds ==
    \A f \in Formats : \A out \in VlogFmt(<<LowerA>>, f) : out[Len(out)] = NewLine
====
