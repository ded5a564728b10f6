------------------------------ MODULE SubSecond ------------------------------
(***************************************************************************)
(* The fraction of a second in an answer of an SNTP server, scaled to the  *)
(* count of timer 1, which counts from 0 to its top value in a second.     *)
(* The numbers have 32 bits, more than TLC has: only proved.               *)
(***************************************************************************)
EXTENDS Integers, TLAPS

Word == 4294967296   \* 2^32

\* The smallest prescaler with which a second fits into the 16 bits of the count.
Prescaler(ticks) ==
  IF ticks <= 65536 THEN 1
  ELSE IF ticks <= 8 * 65536 THEN 8
  ELSE IF ticks <= 64 * 65536 THEN 64
  ELSE IF ticks <= 256 * 65536 THEN 256 ELSE 1024

\* OCR1A, where the count is set back and the second ends, for a processor with
\* this many ticks a second.
Top(ticks) == ticks \div Prescaler(ticks) - 1

Fractions == {fract \in Nat : fract < Word}

\* What the loop adds: the fraction shifted once for each round, in the rounds whose
\* bit of 62498 is set.
retVal(fract) ==
  fract \div 2 + fract \div 4 + fract \div 8 + fract \div 16 + fract \div 64
    + fract \div 2048 + fract \div 32768

frac2timer(fract) == ((retVal(fract) + 32768) % Word) \div 65536

-----------------------------------------------------------------------------

\* What is cut off is less than one for each addend: 31249 is the sum of
\* 32768 / 2, ..., 32768 / 32768.
LEMMA SumFacts ==
  ASSUME NEW fract \in Fractions
  PROVE  /\ retVal(fract) \in Nat
         /\ 32768 * retVal(fract) <= 31249 * fract
         /\ 31249 * fract < 32768 * (retVal(fract) + 7)
  <1>1. fract \in Nat
    BY SMT DEF Fractions
  <1>2. fract \div 2 \in Nat /\ 2 * (fract \div 2) <= fract /\ fract < 2 * (fract \div 2) + 2
    BY SMT, <1>1
  <1>3. fract \div 4 \in Nat /\ 4 * (fract \div 4) <= fract /\ fract < 4 * (fract \div 4) + 4
    BY SMT, <1>1
  <1>4. fract \div 8 \in Nat /\ 8 * (fract \div 8) <= fract /\ fract < 8 * (fract \div 8) + 8
    BY SMT, <1>1
  <1>5. fract \div 16 \in Nat /\ 16 * (fract \div 16) <= fract /\ fract < 16 * (fract \div 16) + 16
    BY SMT, <1>1
  <1>6. fract \div 64 \in Nat /\ 64 * (fract \div 64) <= fract /\ fract < 64 * (fract \div 64) + 64
    BY SMT, <1>1
  <1>7. /\ fract \div 2048 \in Nat /\ 2048 * (fract \div 2048) <= fract
        /\ fract < 2048 * (fract \div 2048) + 2048
    BY SMT, <1>1
  <1>8. /\ fract \div 32768 \in Nat /\ 32768 * (fract \div 32768) <= fract
        /\ fract < 32768 * (fract \div 32768) + 32768
    BY SMT, <1>1
  <1> DEFINE a == fract \div 2
             b == fract \div 4
             c == fract \div 8
             d == fract \div 16
             e == fract \div 64
             f == fract \div 2048
             g == fract \div 32768
  <1>9. retVal(fract) = a + b + c + d + e + f + g
    BY DEF retVal
  <1> HIDE DEF a, b, c, d, e, f, g
  <1> QED
    BY SMT, <1>1, <1>2, <1>3, <1>4, <1>5, <1>6, <1>7, <1>8, <1>9 DEF a, b, c, d, e, f, g

\* The remainder of the sum by the width of a word is the sum.
LEMMA ScaleFacts ==
  ASSUME NEW fract \in Fractions
  PROVE  /\ retVal(fract) + 32768 < Word
         /\ frac2timer(fract) = (retVal(fract) + 32768) \div 65536
  <1>1. retVal(fract) \in Nat /\ retVal(fract) + 32768 < Word
    BY SMT, SumFacts DEF Fractions, Word
  <1> QED
    BY SMT, <1>1 DEF frac2timer, Word

LEMMA TopFacts ==
  Top(4000000) = 62499 /\ Top(16000000) = 62499 /\ Top(8000000) = 31249
  BY SMT DEF Top, Prescaler

\* The sum never leaves its 32 bits, and on a processor with 4 or 16 MHz the count
\* stays below the one that ends the second, or that interrupt might be lost: "32 Bit
\* werden die Zahlen 0-62498 abgebildet" (Lib/SNTP.c 30, timer1.h 16 to 63).
THEOREM StaysInSecond ==
  \A fract \in Fractions, ticks \in {4000000, 16000000} :
    retVal(fract) + 32768 < Word /\ frac2timer(fract) \in Nat /\ frac2timer(fract) < Top(ticks)
  <1> SUFFICES ASSUME NEW fract \in Fractions
               PROVE  retVal(fract) + 32768 < Word /\ frac2timer(fract) \in Nat /\ frac2timer(fract) < 62499
    BY SMT, TopFacts
  <1> QED
    BY SMT, SumFacts, ScaleFacts DEF Fractions, Word

\* With the 8 MHz of the makefile (line 18) the timer ends the second at half that
\* count, and an answer from the second half of a second sets the count behind it:
\* the end of that second is missed.
THEOREM MissesSecond ==
  \A fract \in Fractions : fract >= Word \div 2 + 65536 => frac2timer(fract) > Top(8000000)
  <1> SUFFICES ASSUME NEW fract \in Fractions, fract >= Word \div 2 + 65536
               PROVE  frac2timer(fract) > 31249
    BY SMT, TopFacts
  <1>1. fract \in Nat /\ fract >= 2147549184
    BY SMT DEF Fractions, Word
  <1>2. retVal(fract) + 32768 >= 31250 * 65536
    BY SMT, <1>1, SumFacts
  <1> QED
    BY SMT, <1>2, SumFacts, ScaleFacts

\* The count is fract * 62498 / 2^32 rounded, but for what the shifts cut off
\* (Lib/SNTP.c 31 to 53).
THEOREM NearlyRounded ==
  \A fract \in Fractions :
    /\ Word * frac2timer(fract) <= 62498 * fract + Word \div 2
    /\ 62498 * fract < Word * frac2timer(fract) + Word \div 2 + 7 * 65536
  <1> SUFFICES ASSUME NEW fract \in Fractions
               PROVE  /\ Word * frac2timer(fract) <= 62498 * fract + Word \div 2
                      /\ 62498 * fract < Word * frac2timer(fract) + Word \div 2 + 7 * 65536
    BY SMT
  <1> QED
    BY SMT, SumFacts, ScaleFacts DEF Fractions, Word

\* A later time of the server never gives a smaller count (Lib/SNTP.c 38 to 53).
THEOREM NeverBackwards ==
  \A f, g \in Fractions : f <= g => frac2timer(f) <= frac2timer(g)
  <1> SUFFICES ASSUME NEW f \in Fractions, NEW g \in Fractions, f <= g
               PROVE  frac2timer(f) <= frac2timer(g)
    BY SMT
  <1>1. f \in Nat /\ g \in Nat
    BY SMT DEF Fractions
  <1>2. /\ f \div 2 <= g \div 2 /\ f \div 4 <= g \div 4 /\ f \div 8 <= g \div 8
        /\ f \div 16 <= g \div 16 /\ f \div 64 <= g \div 64
    BY SMT, <1>1
  <1>3. f \div 2048 <= g \div 2048 /\ f \div 32768 <= g \div 32768
    BY SMT, <1>1
  <1>4. \A n \in {f, g} : /\ n \div 2 \in Int /\ n \div 4 \in Int /\ n \div 8 \in Int
                          /\ n \div 16 \in Int /\ n \div 64 \in Int
                          /\ n \div 2048 \in Int /\ n \div 32768 \in Int
    BY SMT, <1>1
  <1>5. retVal(f) <= retVal(g)
    BY SMT, <1>2, <1>3, <1>4 DEF retVal
  <1> QED
    BY SMT, <1>5, SumFacts, ScaleFacts
=============================================================================
