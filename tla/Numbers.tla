-------------------------------- MODULE Numbers --------------------------------
(***************************************************************************)
(* The conversions of numbers to text: itoa of numbers from 0 on           *)
(* (lib/stdlib.c), dbcd_to_str and dbcd_to_int (lib/bcd.c).  A character   *)
(* is the value of a digit or one of the two below; strlen is not in the   *)
(* repository and does what its name says.                                 *)
(*                                                                         *)
(* Left out, for nothing true of them is worth stating: itoa of negative   *)
(* numbers, whose digits stay backwards behind the sign and whose text may *)
(* lack an end, and strcpy and strcat (lib/string.c), which only that path *)
(* uses and which put the end behind where it belongs.                     *)
(***************************************************************************)
EXTENDS Integers, Sequences

CONSTANTS Samples,   \* the numbers to convert
          BcdBytes   \* the bytes to convert

\* The largest int
IntMax == 2147483647

ASSUME NumbersAssumption ==
  /\ Samples \subseteq 0..IntMax
  /\ BcdBytes \subseteq 0..255

VARIABLES call,     \* the function that was called
          number,   \* the number it converted
          str       \* the caller's buffer

numberVars == <<call, number, str>>

Nul == -1
Rest == -2    \* what the buffer held before, other than Nul

Room == 0..19

NumbersInit ==
  /\ call = "none" /\ number = 0
  /\ str \in {[k \in Room |-> Nul], [k \in Room |-> Rest]}

Strlen(s) == CHOOSE n \in DOMAIN s : s[n] = Nul /\ \A k \in 0..(n - 1) : s[k] # Nul

-----------------------------------------------------------------------------

\* What is left of an int while its digits are taken off
Magnitudes == 0..IntMax

\* The digits as the first loop of itoa stores them, the lowest one first
Backwards[n \in Magnitudes] == IF n < 10 THEN <<n>> ELSE <<n % 10>> \o Backwards[n \div 10]

Stored(s, n) ==
  LET digits == Backwards[n] \o <<Nul>>
  IN  [k \in DOMAIN s |-> IF k < Len(digits) THEN digits[k + 1] ELSE s[k]]

\* A faulty SwapCount that goes on to the end, past the middle.
SwapCountAll(len) == len

\* How often the second loop exchanges a digit with the one as far from the end
SwapCount(len) == len \div 2 + 1

TurnedRound(s) ==
  LET len == Strlen(s)
      turned[i \in 0..SwapCount(len)] ==
        IF i = 0 THEN s
        ELSE [turned[i - 1] EXCEPT ![i - 1] = turned[i - 1][len - i],
                                   ![len - i] = turned[i - 1][i - 1]]
  IN  turned[SwapCount(len)]

\* itoa
Itoa(n) ==
  /\ str' = IF n = 0 THEN [str EXCEPT ![0] = 0, ![1] = Nul] ELSE TurnedRound(Stored(str, n))
  /\ call' = "itoa" /\ number' = n

\* dbcd_to_int
DbcdToInt(bcd) == (bcd % 16) + (bcd \div 16) * 10

\* dbcd_to_str, which puts no end, and dbcd_to_int
Dbcd(bcd) ==
  /\ call' = "dbcd" /\ number' = DbcdToInt(bcd)
  /\ str' = [str EXCEPT ![1] = bcd % 16, ![0] = bcd \div 16]

\* One call for each buffer: what earlier calls leave in it is Rest.
NumbersNext ==
  /\ call = "none"
  /\ (\E n \in Samples : Itoa(n)) \/ (\E bcd \in BcdBytes : Dbcd(bcd))

NumbersSpec == NumbersInit /\ [][NumbersNext]_numberVars

-----------------------------------------------------------------------------

\* The digit at place k of n when it is written with len digits
DigitAt(n, len, k) == (n \div 10^(len - 1 - k)) % 10

InMiddle(len, k) == len % 2 = 0 /\ k \in {len \div 2 - 1, len \div 2}

\* itoa writes as many digits as the number has, and each at its place: except for
\* the two in the middle of an even number of digits, which its last exchange turns round
\* again.  The text and the number made from a BCD byte are the same number.
DigitsRight ==
  /\ call = "itoa" =>
       LET len == Strlen(str) IN
         /\ number \div 10^(len - 1) \in 0..9 /\ (len > 1 => number >= 10^(len - 1))
         /\ \A k \in 0..(len - 1) : ~InMiddle(len, k) => str[k] = DigitAt(number, len, k)
  /\ (call = "dbcd" /\ str[0] < 10 /\ str[1] < 10) =>
       \A k \in 0..1 : str[k] = DigitAt(number, 2, k)
=============================================================================
