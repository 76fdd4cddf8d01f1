------------------------------- MODULE Numbers -------------------------------
(***************************************************************************)
(* Conversions: numbers to digits in bwio.c and ringbuf.c, digits back to    *)
(* numbers, alignment, and the trailing zeros of bithack.h.  A number is     *)
(* written by bwui2a, read back by bwa2i and, if it is a decimal, written by  *)
(* rbuf_decw too; an action is one round of a loop.  A digit is its value,   *)
(* a sign is Minus, padding is Blank.                                        *)
(***************************************************************************)
EXTENDS Integers, Sequences

CONSTANTS NumbersTried, WidthsTried

IntMax == 2147483647

\* What is assumed of the constants: the magnitude of an int is an int.
NumbersAssumption == NumbersTried \subseteq -IntMax .. IntMax /\ WidthsTried \subseteq Nat

Minus == -1
Blank == -2

VARIABLES tried, base,    \* the number, and the base it is written in
          loop,           \* the loop that runs
          num, power, text,   \* what bwui2a and rbuf_decw count with, and bwui2a's digits
          src, value,     \* how far bwa2i has read, and its *nump
          ds              \* rbuf_decw's digits, the last first

numVars == <<tried, base, loop, num, power, text, src, value, ds>>

Magnitude(n) == IF n < 0 THEN -n ELSE n

-----------------------------------------------------------------------------
(* bwio.c *)

\* power becomes the largest power of the base that is not above the number.
Scale == /\ loop = "scale" /\ num \div power >= base
         /\ power' = power * base
         /\ UNCHANGED <<tried, base, loop, num, text, src, value, ds>>

Scaled == /\ loop = "scale" /\ num \div power < base
          /\ loop' = "digits"
          /\ UNCHANGED <<tried, base, num, power, text, src, value, ds>>

\* Mutant: no digit is written while none was, not even the last.
WriteDigitNoZero ==
    /\ loop = "digits" /\ power # 0
    /\ text' = IF text # << >> \/ num \div power > 0 THEN Append(text, num \div power) ELSE text
    /\ num' = num % power
    /\ power' = power \div base
    /\ UNCHANGED <<tried, base, loop, src, value, ds>>

\* No leading zeros, but the last digit is always written.
WriteDigit ==
    /\ loop = "digits" /\ power # 0
    /\ text' = IF text # << >> \/ num \div power > 0 \/ power \div base = 0
               THEN Append(text, num \div power) ELSE text
    /\ num' = num % power
    /\ power' = power \div base
    /\ UNCHANGED <<tried, base, loop, src, value, ds>>

bwui2a_returns ==
    /\ loop = "digits" /\ power = 0
    /\ loop' = "read"
    /\ UNCHANGED <<tried, base, num, power, text, src, value, ds>>

\* A digit that equals the base would pass.
IsRead == src <= Len(text) /\ text[src] <= base

ReadDigit ==
    /\ loop = "read" /\ IsRead
    /\ value' = value * base + text[src]
    /\ src' = src + 1
    /\ UNCHANGED <<tried, base, loop, num, power, text, ds>>

bwa2i_returns ==
    /\ loop = "read" /\ ~ IsRead
    /\ loop' = IF base = 10 THEN "last digits" ELSE "over"
    /\ num' = Magnitude(tried)
    /\ UNCHANGED <<tried, base, power, text, src, value, ds>>

Sign == IF tried < 0 THEN <<Minus>> ELSE << >>

bwi2a == Sign \o text

\* The padding that bwputw and rbuf_align come to: one for each character that
\* s is short of w.
Padding(w, s) == [i \in 1 .. w - (IF w < Len(s) THEN w ELSE Len(s)) |-> Blank]

bwputw(w, s) == Padding(w, s) \o s

-----------------------------------------------------------------------------
(* ringbuf.c *)

rbuf_align(w, left, s) == IF left THEN s \o Padding(w, s) ELSE Padding(w, s) \o s

LastDigit ==
    /\ loop = "last digits" /\ num > 0
    /\ ds' = Append(ds, num % 10)
    /\ num' = num \div 10
    /\ UNCHANGED <<tried, base, loop, power, text, src, value>>

LastDigitsDone ==
    /\ loop = "last digits" /\ num = 0
    /\ ds' = IF tried = 0 THEN <<0>> ELSE ds \o Sign
    /\ loop' = "over"
    /\ UNCHANGED <<tried, base, num, power, text, src, value>>

\* What it puts in the ring, the padding and ds from the end
rbuf_decw(width) == [i \in 1 .. width - Len(ds) |-> Blank]
                    \o [i \in 1 .. Len(ds) |-> ds[Len(ds) + 1 - i]]

-----------------------------------------------------------------------------
(* bithack.h *)

\* The bits are halved until one is left; zeros is tz.
ctz16(x) ==
    LET x8 == IF x % 256 = 0 THEN x \div 256 ELSE x
        x4 == IF x8 % 16 = 0 THEN x8 \div 16 ELSE x8
        x2 == IF x4 % 4 = 0 THEN x4 \div 4 ELSE x4
    IN  1 + (IF x % 256 = 0 THEN 8 ELSE 0) + (IF x8 % 16 = 0 THEN 4 ELSE 0)
          + (IF x4 % 4 = 0 THEN 2 ELSE 0) - (x2 % 2)

ctz32(x) == IF x % 65536 = 0 THEN 16 + ctz16((x \div 65536) % 65536) ELSE ctz16(x % 65536)

-----------------------------------------------------------------------------

NumInit ==
    /\ tried \in NumbersTried /\ base \in {10, 16}
    /\ loop = "scale" /\ num = Magnitude(tried) /\ power = 1
    /\ text = << >> /\ src = 1 /\ value = 0 /\ ds = << >>

NumNext ==
    \/ Scale \/ Scaled \/ WriteDigit \/ bwui2a_returns
    \/ ReadDigit \/ bwa2i_returns
    \/ LastDigit \/ LastDigitsDone

NumSpec == NumInit /\ [][NumNext]_numVars

-----------------------------------------------------------------------------
(* Properties *)

\* The powers of the bases that an int holds, the zeroth first
PowersOf2 == <<1, 2, 4, 8, 16, 32, 64, 128, 256, 512, 1024, 2048, 4096, 8192, 16384, 32768, 65536,
               131072, 262144, 524288, 1048576, 2097152, 4194304, 8388608, 16777216, 33554432,
               67108864, 134217728, 268435456, 536870912, 1073741824>>

PowersOf10 == <<1, 10, 100, 1000, 10000, 100000, 1000000, 10000000, 100000000, 1000000000>>

PowersOf16 == <<1, 16, 256, 4096, 65536, 1048576, 16777216, 268435456>>

Powers(b) == IF b = 10 THEN PowersOf10 ELSE PowersOf16

\* s is n in the base b, without leading zeros.
Represents(s, b, n) ==
    /\ Len(s) \in 1 .. Len(Powers(b))
    /\ \A i \in 1 .. Len(s) : s[i] = (n \div Powers(b)[Len(s) + 1 - i]) % b
    /\ n \div Powers(b)[Len(s)] < b
    /\ Len(s) > 1 => s[1] # 0

\* The text s in a field of width w is whole, and all else is blank.
Aligned(field, w, left, s) ==
    /\ Len(field) = IF w > Len(s) THEN w ELSE Len(s)
    /\ \A i \in 1 .. Len(s) : field[IF left THEN i ELSE Len(field) - Len(s) + i] = s[i]
    /\ \A i \in 1 .. Len(field) - Len(s) : field[IF left THEN Len(s) + i ELSE i] = Blank

\* A number that is written is its digits in either base and reads back as
\* itself, and neither the power that bwui2a divides by nor what bwa2i has
\* read passes the number, so that neither overflows; the two ways of writing a
\* decimal agree, in the bytes that ds and the callers' buffers have; a field
\* of any width cuts nothing; and the trailing zeros are those of the number.
NumbersReadBack ==
    LET n == Magnitude(tried) IN
    /\ (power <= 1 \/ power <= n) /\ value <= n
    /\ loop \in {"read", "last digits", "over"} => Represents(text, base, n)
    /\ loop \in {"last digits", "over"} => value = n
    /\ loop = "over" /\ base = 10 =>
          /\ rbuf_decw(0) = bwi2a /\ Len(bwi2a) <= 11
          /\ \A w \in WidthsTried :
                /\ rbuf_decw(w) = bwputw(w, bwi2a)
                /\ \A left \in BOOLEAN : Aligned(rbuf_align(w, left, bwi2a), w, left, bwi2a)
    /\ n # 0 => LET p == PowersOf2[ctz32(n) + 1] IN n % p = 0 /\ (n \div p) % 2 = 1
=============================================================================
