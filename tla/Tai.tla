-------------------------------- MODULE Tai --------------------------------
(***************************************************************************)
(* libbase/lib/tai.c: labels of instants.  A TAI64 label counts seconds, a *)
(* TAI64N label also nanoseconds; as text a label is an "@" and its digits *)
(* from the highest to the lowest.  APR counts microseconds in a signed    *)
(* integer, and the two are converted into each other.                     *)
(*                                                                         *)
(* The widths are parameters: 16 digits of 16 values for the seconds, 8    *)
(* for the nanoseconds, 1000000 microseconds in a second and 1000          *)
(* nanoseconds in a microsecond in the code.                               *)
(***************************************************************************)
EXTENDS Integers, Sequences

CONSTANTS
    Base, SecDigits, NanoDigits,
    Micro, Nano,    \* microseconds in a second, nanoseconds in a microsecond
    Epoch,          \* NGIM_TAI_APR_EPOCH: the label of APR's second 0
    AprLimit        \* apr_time_t is in -AprLimit..AprLimit - 1

ASSUME WidthAssumption ==
    /\ {Base, SecDigits, NanoDigits, Micro, Nano} \subseteq Nat \ {0}
    /\ Nano % 2 = 0
    /\ Epoch \in Nat /\ AprLimit \in Nat \ {0}

\* How many numbers n digits can write.
Power(n) == LET power[i \in 0..n] == IF i = 0 THEN 1 ELSE Base * power[i - 1] IN power[n]

TAI_MAX_SEC == Power(SecDigits) \div 2 - 1
TAI_MAX_NA  == Micro * Nano - 1
NGIM_TAI_FORMAT  == 1 + SecDigits
NGIM_TAIN_FORMAT == NGIM_TAI_FORMAT + NanoDigits

\* The digits can write every nanosecond of a second, and labels every time that
\* APR can count from its epoch on.
ASSUME RangeAssumption ==
    /\ Micro * Nano <= Power(NanoDigits)
    /\ Epoch + AprLimit \div Micro <= TAI_MAX_SEC

Digit == 0..Base - 1
At == -1                  \* the character "@"

-----------------------------------------------------------------------------
(* Clock and labels *)

\* Half a microsecond is added, which is below what the clock can tell.
ngim_tain_from_apr(a) ==
    [sec |-> Epoch + a \div Micro, nano |-> Nano * (a % Micro) + Nano \div 2]

\* apr_time_make, in the width of apr_time_t.
apr_time_make(s, u) == ((s * Micro + u + AprLimit) % (2 * AprLimit)) - AprLimit

ngim_tai_to_apr(sec) == apr_time_make(sec - Epoch, 0)

\* mutant: a carry into the seconds is forgotten
ngim_tain_to_apr_carry(t) ==
    LET u == (t.nano + Nano \div 2) \div Nano
    IN apr_time_make(t.sec - Epoch, IF u > Micro - 1 THEN 0 ELSE u)

\* Microseconds are rounded, with a carry into the seconds.
ngim_tain_to_apr(t) ==
    LET u == (t.nano + Nano \div 2) \div Nano
    IN IF u > Micro - 1 THEN apr_time_make(t.sec - Epoch + 1, 0)
                        ELSE apr_time_make(t.sec - Epoch, u)

-----------------------------------------------------------------------------
(* Text *)

\* n digits of x, the last of which is written first: what is left of x after i of
\* them is shifted out.
Left(x, n) == LET left[i \in 0..n] == IF i = 0 THEN x ELSE left[i - 1] \div Base IN left
Digits(x, n) == LET left == Left(x, n) IN [i \in 1..n |-> left[n - i] % Base]

Value(digits) ==
    LET value[i \in 0..Len(digits)] == IF i = 0 THEN 0 ELSE Base * value[i - 1] + digits[i]
    IN value[Len(digits)]

ngim_tain_format(t) ==
    <<At>> \o Digits(t.sec, SecDigits) \o Digits(t.nano, NanoDigits)

\* What follows the "@" is taken for digits.
ngim_tai_unformat(s)  == Value(SubSeq(s, 2, NGIM_TAI_FORMAT))
ngim_tain_unformat(s) == [sec  |-> ngim_tai_unformat(s),
                          nano |-> Value(SubSeq(s, NGIM_TAI_FORMAT + 1, NGIM_TAIN_FORMAT))]

ngim_tai_valid(sec) == sec <= TAI_MAX_SEC
ngim_tain_valid(t)  == ngim_tai_valid(t.sec) /\ t.nano <= TAI_MAX_NA
=============================================================================
