------------------------------ MODULE Iso8601 ------------------------------
(***************************************************************************)
(* libbase/lib/iso8601.c: the date of an instant as text, in UTC or local  *)
(* time.  The library breaks the instant down; what the year, the offset   *)
(* from UTC in seconds and the other fields come to is an input here.      *)
(*                                                                         *)
(* The code adds the character '0' to what it computes, so a character is  *)
(* its distance from '0': what is not a digit prints as another character. *)
(***************************************************************************)
EXTENDS Integers, Sequences, FiniteSetsExt

CONSTANT Exps   \* apr_time_exp_t: instants broken down

APR_USEC_PER_SEC == 1000000
Fields == [year: Int, mon: 1..12, mday: 1..31, hour: 0..23, min: 0..59, sec: 0..61,
           usec: 0..APR_USEC_PER_SEC - 1, gmtoff: Int]

ASSUME ExpAssumption == Exps \subseteq Fields

Plus  == -5
Minus == -3
Dot   == -2
Colon == 10
Space == -16
Zulu  == 42

NGIM_ISO8601_FORMAT == 33   \* with the terminating NUL

VARIABLES exp, date

\* Division in C goes towards zero.
Quotient(n, d)  == IF n >= 0 THEN n \div d ELSE -((-n) \div d)
Remainder(n, d) == n - d * Quotient(n, d)

\* The digit of n at d.
Place(n, d) == Remainder(Quotient(n, d), 10)
Two(n)      == <<Quotient(n, 10), Remainder(n, 10)>>

Year(y) ==
    IF y > 9999 THEN <<Quotient(y, 10000), Place(y, 1000), Place(y, 100), Place(y, 10), Place(y, 1)>>
    ELSE <<Quotient(y, 1000), Place(y, 100), Place(y, 10), Place(y, 1)>>

Microseconds(u) ==
    IF u = 0 THEN <<>>
    ELSE <<Dot, Quotient(u, 100000), Place(u, 10000), Place(u, 1000), Place(u, 100),
           Place(u, 10), Place(u, 1)>>

\* mutant: hours and minutes of the offset are kept apart
Offset_apart(off) ==
    LET minutes == Quotient(Remainder(off, 3600), 60)
    IN IF off = 0 THEN <<Zulu>>
       ELSE <<IF off > 0 THEN Plus ELSE Minus>> \o Two(Quotient(off, 3600))
              \o (IF minutes > 0 THEN <<Colon>> \o Two(minutes) ELSE <<>>)

\* mutant: an offset of less than an hour has no hours
Offset_short(off) ==
    LET minutes == Quotient(Remainder(off, 3600), 60)
        hours   == Quotient(off, 3600)
    IN IF off = 0 THEN <<Zulu>>
       ELSE <<IF off > 0 THEN Plus ELSE Minus>>
              \o (IF hours > 0 THEN Two(hours) ELSE <<>>)
              \o (IF minutes > 0 THEN Two(minutes) ELSE <<>>)

Offset(off) ==
    LET minutes == Quotient(Remainder(off, 3600), 60)
    IN IF off = 0 THEN <<Zulu>>
       ELSE <<IF off > 0 THEN Plus ELSE Minus>> \o Two(Quotient(off, 3600))
              \o (IF minutes > 0 THEN Two(minutes) ELSE <<>>)

format_iso8601(e) ==
    Year(e.year) \o <<Minus>> \o Two(e.mon) \o <<Minus>> \o Two(e.mday) \o <<Space>>
      \o Two(e.hour) \o <<Colon>> \o Two(e.min) \o <<Colon>> \o Two(e.sec)
      \o Microseconds(e.usec) \o Offset(e.gmtoff)

Iso8601Init == exp \in Exps /\ date = <<>>

\* ngim_iso8601_utc_format, ngim_iso8601_local_format
iso8601_format == date = <<>> /\ date' = format_iso8601(exp) /\ UNCHANGED exp

Formatted == date # <<>> /\ UNCHANGED <<exp, date>>

Iso8601Next == iso8601_format \/ Formatted

Iso8601Spec == Iso8601Init /\ [][Iso8601Next]_<<exp, date>>

-----------------------------------------------------------------------------
(* Safety *)

\* What a date says: each field where ISO 8601 has it.
Number(s, i, j) ==
    LET upto[k \in 0..j] == IF k < i THEN 0 ELSE 10 * upto[k - 1] + s[k]
    IN upto[j]
Saying(s) ==
    LET y == Min({i \in 5..6 : s[i] = Minus})
        z == IF s[y + 15] = Dot THEN y + 22 ELSE y + 15
        sign == IF s[z] = Plus THEN 1 ELSE -1
    IN [year |-> Number(s, 1, y - 1), mon |-> Number(s, y + 1, y + 2),
        mday |-> Number(s, y + 4, y + 5), hour |-> Number(s, y + 7, y + 8),
        min |-> Number(s, y + 10, y + 11), sec |-> Number(s, y + 13, y + 14),
        usec |-> Number(s, y + 16, z - 1),
        gmtoff |-> IF s[z] = Zulu THEN 0
                   ELSE sign * (3600 * Number(s, z + 1, z + 2) + 60 * Number(s, z + 3, Len(s)))]

LongYear == 99999   \* of five digits
Day      == 86400   \* seconds

Legible == 0..9 \cup {Plus, Minus, Dot, Colon, Space, Zulu}

\* A date says the instant it was made of, to the minute of the offset, and has no
\* other characters than it should have: for years of up to five digits, and for
\* offsets that are not negative.  What is printed for offsets west of Greenwich
\* says something else: "-0+" for five hours (format_iso8601).
DateSays ==
    date # <<>> /\ exp.year \in 0..LongYear /\ exp.gmtoff \in 0..Day
      => /\ Saying(date) = [exp EXCEPT !.gmtoff = @ - (@ % 60)]
         /\ date \in Seq(Legible)

\* A date fits the buffer it is made in, which taiconv has one of, whatever the
\* year and the offset are (format_iso8601, NGIM_ISO8601_FORMAT).
DateFits == Len(date) < NGIM_ISO8601_FORMAT
=============================================================================
