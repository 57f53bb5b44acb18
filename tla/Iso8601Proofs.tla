--------------------------- MODULE Iso8601Proofs ---------------------------
(***************************************************************************)
(* Proofs about Iso8601: a date fits its buffer, and says the instant it   *)
(* was made of.                                                            *)
(***************************************************************************)
EXTENDS Iso8601, SequenceTheorems, WellFoundedInduction, TLAPS

-----------------------------------------------------------------------------
(* Induction, stated of a set: the form that needs no operator parameter *)

LEMMA EveryNat ==
    ASSUME NEW S, 0 \in S, \A n \in S \cap Nat : n + 1 \in S
    PROVE  Nat \subseteq S
<1> SUFFICES ASSUME Nat \ S # {} PROVE FALSE
  OBVIOUS
<1>1. IsWellFoundedOn({ss \in Nat \X Nat : ss[1] < ss[2]}, Nat)
  BY NatLessThanWellFounded DEF OpToRel
<1>2. PICK m \in Nat \ S : \A n \in Nat \ S : <<n, m>> \notin {ss \in Nat \X Nat : ss[1] < ss[2]}
  BY <1>1, WFMin
<1>3. m - 1 \in Nat /\ m - 1 < m
  BY <1>2
<1>4. m - 1 \in S
  BY <1>2, <1>3
<1>5. QED
  BY <1>2, <1>3, <1>4

-----------------------------------------------------------------------------
(* Numbers in a date *)

\* The function that Number is defined by, up to n.
Reads(s, i, n, f) == f = [k \in 0..n |-> IF k < i THEN 0 ELSE 10 * f[k - 1] + s[k]]

\* A function that reads the digits i to j of s exists for every j.
LEMMA ReadsExists ==
    ASSUME NEW s, NEW i \in Nat \ {0}, NEW j \in Nat
    PROVE  \E f : Reads(s, i, j, f)
<1> DEFINE S == {n \in Nat : \E f : Reads(s, i, n, f)}
<1>1. 0 \in S
  <2>1. Reads(s, i, 0, [k \in 0..0 |-> 0])
    BY DEF Reads
  <2>2. QED
    BY <2>1
<1>2. ASSUME NEW n \in S \cap Nat PROVE n + 1 \in S
  <2>1. PICK f : Reads(s, i, n, f)
    OBVIOUS
  <2> DEFINE g == [k \in 0..n + 1 |->
                     IF k < i THEN 0 ELSE 10 * f[k - 1] + s[k]]
  <2>2. \A k \in 0..n : f[k] = IF k < i THEN 0 ELSE 10 * f[k - 1] + s[k]
    BY <2>1 DEF Reads
  <2>3. \A k \in 0..n : g[k] = f[k]
    BY <2>2
  <2>4. \A k \in 0..n + 1 : ~(k < i) => k - 1 \in 0..n
    OBVIOUS
  <2>5. Reads(s, i, n + 1, g)
    BY <2>3, <2>4 DEF Reads
  <2>6. QED
    BY <2>5
<1>3. QED
  BY <1>1, <1>2, EveryNat

\* The number read from the digits i to j is the last value of such a function.
LEMMA NumberReads ==
    ASSUME NEW s, NEW i \in Nat \ {0}, NEW j \in Nat
    PROVE  \E f : /\ Number(s, i, j) = f[j]
                  /\ \A k \in 0..j : f[k] = IF k < i THEN 0 ELSE 10 * f[k - 1] + s[k]
<1> DEFINE f == CHOOSE g : Reads(s, i, j, g)
<1>1. Reads(s, i, j, f)
  BY ReadsExists
<1>2. Number(s, i, j) = f[j]
  BY DEF Number, Reads
<1>3. QED
  BY <1>1, <1>2 DEF Reads

\* The number is read digit by digit, from nothing.
LEMMA NumberStep ==
    ASSUME NEW s, NEW i \in Nat \ {0}
    PROVE  /\ \A j \in Nat : j < i => Number(s, i, j) = 0
           /\ \A j \in Nat : j + 1 >= i => Number(s, i, j + 1) = 10 * Number(s, i, j) + s[j + 1]
<1>1. ASSUME NEW j \in Nat, j < i PROVE Number(s, i, j) = 0
  <2>1. PICK f : /\ Number(s, i, j) = f[j]
                 /\ \A k \in 0..j : f[k] = IF k < i THEN 0 ELSE 10 * f[k - 1] + s[k]
    BY NumberReads
  <2>2. QED
    BY <1>1, <2>1
<1>2. ASSUME NEW j \in Nat, j + 1 >= i
      PROVE  Number(s, i, j + 1) = 10 * Number(s, i, j) + s[j + 1]
  <2>1. PICK f : /\ Number(s, i, j) = f[j]
                 /\ \A k \in 0..j : f[k] = IF k < i THEN 0 ELSE 10 * f[k - 1] + s[k]
    BY NumberReads
  <2>2. j + 1 \in Nat
    OBVIOUS
  <2>3. PICK g : /\ Number(s, i, j + 1) = g[j + 1]
                 /\ \A k \in 0..j + 1 : g[k] = IF k < i THEN 0 ELSE 10 * g[k - 1] + s[k]
    BY <2>2, NumberReads
  <2> DEFINE S == {k \in Nat : k <= j => f[k] = g[k]}
  <2>4. 0 \in S
    BY <2>1, <2>3
  <2>5. ASSUME NEW k \in S \cap Nat PROVE k + 1 \in S
    <3> SUFFICES ASSUME k + 1 <= j PROVE f[k + 1] = g[k + 1]
      OBVIOUS
    <3>1. f[k] = g[k]
      OBVIOUS
    <3>2. k + 1 \in 0..j /\ k + 1 \in 0..j + 1 /\ (k + 1) - 1 = k
      OBVIOUS
    <3>3. /\ f[k + 1] = IF k + 1 < i THEN 0 ELSE 10 * f[(k + 1) - 1] + s[k + 1]
          /\ g[k + 1] = IF k + 1 < i THEN 0 ELSE 10 * g[(k + 1) - 1] + s[k + 1]
      BY <2>1, <2>3, <3>2
    <3>4. QED
      BY <3>1, <3>2, <3>3
  <2>6. f[j] = g[j]
    <3> HIDE DEF S
    <3>1. Nat \subseteq S
      BY <2>4, <2>5, EveryNat
    <3>2. QED
      BY <3>1 DEF S
  <2>7. g[j + 1] = 10 * g[j] + s[j + 1]
    <3>1. j + 1 \in 0..j + 1 /\ ~(j + 1 < i) /\ (j + 1) - 1 = j
      BY <1>2
    <3>2. QED
      BY <2>3, <3>1
  <2>8. QED
    BY <2>1, <2>3, <2>6, <2>7
<1>3. QED
  BY <1>1, <1>2

\* Numbers of the lengths that a date has.
LEMMA NumberOf2 ==
    ASSUME NEW s, NEW i \in Nat \ {0}, s[i] \in Int
    PROVE  Number(s, i, i + 1) = 10 * s[i] + s[i + 1]
<1>1. Number(s, i, i) = s[i]
  <2>1. i - 1 \in Nat /\ (i - 1) + 1 = i
    OBVIOUS
  <2>2. Number(s, i, (i - 1) + 1) = 10 * Number(s, i, i - 1) + s[(i - 1) + 1]
    BY <2>1, NumberStep
  <2>3. QED
    BY <2>1, <2>2, NumberStep
<1>2. QED
  BY <1>1, NumberStep

\* What four digits read: the year of a date with a short year.
LEMMA NumberOf4 ==
    ASSUME NEW s, NEW i \in Nat \ {0}, NEW j \in Nat, j = i + 3, \A k \in i..j : s[k] \in Int
    PROVE  Number(s, i, j) = 1000 * s[i] + 100 * s[i + 1] + 10 * s[i + 2] + s[i + 3]
<1>1. {s[i], s[i + 1], s[i + 2], s[i + 3]} \subseteq Int
  OBVIOUS
<1>2. Number(s, i, i + 1) = 10 * s[i] + s[i + 1]
  BY <1>1, NumberOf2
<1>3. i + 1 \in Nat /\ i + 2 \in Nat
  OBVIOUS
<1>4. Number(s, i, i + 2) = 10 * Number(s, i, i + 1) + s[i + 2]
  BY <1>3, NumberStep
<1>5. Number(s, i, i + 3) = 10 * Number(s, i, i + 2) + s[i + 3]
  BY <1>3, NumberStep
<1>6. QED
  BY <1>1, <1>2, <1>4, <1>5

\* What five digits read: a year past 9999.
LEMMA NumberOf5 ==
    ASSUME NEW s, NEW i \in Nat \ {0}, \A k \in i..i + 4 : s[k] \in Int
    PROVE  Number(s, i, i + 4) = 10000 * s[i] + 1000 * s[i + 1] + 100 * s[i + 2]
                                   + 10 * s[i + 3] + s[i + 4]
<1>1. {s[i], s[i + 1], s[i + 2], s[i + 3], s[i + 4]} \subseteq Int
  OBVIOUS
<1>2. Number(s, i, i + 3) = 1000 * s[i] + 100 * s[i + 1] + 10 * s[i + 2] + s[i + 3]
  <2>1. i + 3 \in Nat /\ \A k \in i..i + 3 : s[k] \in Int
    OBVIOUS
  <2>2. QED
    BY <2>1, NumberOf4
<1>3. Number(s, i, i + 4) = 10 * Number(s, i, i + 3) + s[i + 4]
  <2>1. i + 3 \in Nat /\ (i + 3) + 1 = i + 4
    OBVIOUS
  <2>2. QED
    BY <2>1, NumberStep
<1>4. QED
  BY <1>1, <1>2, <1>3

\* What six digits read: the microseconds.
LEMMA NumberOf6 ==
    ASSUME NEW s, NEW i \in Nat \ {0}, \A k \in i..i + 5 : s[k] \in Int
    PROVE  Number(s, i, i + 5) = 100000 * s[i] + 10000 * s[i + 1] + 1000 * s[i + 2]
                                   + 100 * s[i + 3] + 10 * s[i + 4] + s[i + 5]
<1>1. {s[i], s[i + 1], s[i + 2], s[i + 3], s[i + 4], s[i + 5]} \subseteq Int
  OBVIOUS
<1>2. Number(s, i, i + 4) = 10000 * s[i] + 1000 * s[i + 1] + 100 * s[i + 2]
                              + 10 * s[i + 3] + s[i + 4]
  BY NumberOf5
<1>3. Number(s, i, i + 5) = 10 * Number(s, i, i + 4) + s[i + 5]
  <2>1. i + 4 \in Nat /\ (i + 4) + 1 = i + 5
    OBVIOUS
  <2>2. QED
    BY <2>1, NumberStep
<1>4. QED
  BY <1>1, <1>2, <1>3

-----------------------------------------------------------------------------
(* What the parts of a date are *)

\* Division towards zero, where nothing is negative.
LEMMA TwoDigits ==
    ASSUME NEW n \in Int
    PROVE  /\ Two(n) \in Seq(Int) /\ Len(Two(n)) = 2
           /\ 10 * Two(n)[1] + Two(n)[2] = n /\ Two(n)[1] \in Int
           /\ n \in 0..99 => Two(n)[1] \in 0..9 /\ Two(n)[2] \in 0..9
<1>1. Quotient(n, 10) \in Int /\ Remainder(n, 10) \in Int
  BY DEF Quotient, Remainder
<1>2. 10 * Quotient(n, 10) + Remainder(n, 10) = n
  BY <1>1 DEF Remainder
<1>3. n \in 0..99 => Quotient(n, 10) \in 0..9 /\ Remainder(n, 10) \in 0..9
  BY DEF Quotient, Remainder
<1>4. QED
  BY <1>1, <1>2, <1>3 DEF Two

\* The remainder of a division by ten is an integer, whatever the sign.
LEMMA RemainderType ==
    ASSUME NEW n \in Int
    PROVE  Remainder(n, 10) \in Int
BY DEF Remainder, Quotient

\* The digits of a number that is not negative.
LEMMA Places ==
    ASSUME NEW n \in Nat
    PROVE  /\ Place(n, 1) \in 0..9 /\ Place(n, 10) \in 0..9 /\ Place(n, 100) \in 0..9
           /\ Place(n, 1000) \in 0..9 /\ Place(n, 10000) \in 0..9
           /\ n = 10 * Quotient(n, 10) + Place(n, 1)
           /\ Quotient(n, 10) = 10 * Quotient(n, 100) + Place(n, 10)
           /\ Quotient(n, 100) = 10 * Quotient(n, 1000) + Place(n, 100)
           /\ Quotient(n, 1000) = 10 * Quotient(n, 10000) + Place(n, 1000)
           /\ Quotient(n, 10000) = 10 * Quotient(n, 100000) + Place(n, 10000)
<1>1. Quotient(n, 1) = n
  BY DEF Quotient
<1>2. \A m \in Nat : /\ Quotient(m, 10) \in Nat /\ Remainder(m, 10) \in 0..9
                     /\ m = 10 * Quotient(m, 10) + Remainder(m, 10)
  BY DEF Quotient, Remainder
<1>3. /\ Quotient(n, 10) \in Nat /\ Quotient(n, 100) \in Nat /\ Quotient(n, 1000) \in Nat
      /\ Quotient(n, 10000) \in Nat
  BY DEF Quotient
<1>4. /\ Quotient(Quotient(n, 10), 10) = Quotient(n, 100)
      /\ Quotient(Quotient(n, 100), 10) = Quotient(n, 1000)
      /\ Quotient(Quotient(n, 1000), 10) = Quotient(n, 10000)
      /\ Quotient(Quotient(n, 10000), 10) = Quotient(n, 100000)
  BY DEF Quotient
<1>5. QED
  BY <1>1, <1>2, <1>3, <1>4 DEF Place

\* The fields of an instant.
LEMMA FieldTypes ==
    ASSUME NEW e \in Fields
    PROVE  /\ e.year \in Int /\ e.gmtoff \in Int /\ e.usec \in Nat
           /\ e.usec < APR_USEC_PER_SEC
           /\ e.mon \in 0..99 /\ e.mday \in 0..99 /\ e.hour \in 0..99
           /\ e.min \in 0..99 /\ e.sec \in 0..99
<1>1. APR_USEC_PER_SEC \in Int
  BY SMT DEF APR_USEC_PER_SEC
<1>2. /\ e.year \in Int /\ e.gmtoff \in Int /\ e.usec \in 0..APR_USEC_PER_SEC - 1
      /\ e.mon \in 1..12 /\ e.mday \in 1..31 /\ e.hour \in 0..23
      /\ e.min \in 0..59 /\ e.sec \in 0..61
  BY DEF Fields
<1>3. e.usec \in Nat /\ e.usec < APR_USEC_PER_SEC
  BY <1>1, <1>2, SMT
<1>4. QED
  BY <1>2, <1>3, SMT

\* Parts are put together.
LEMMA PartsLength ==
    ASSUME NEW p \in Seq(Int), NEW q \in Seq(Int)
    PROVE  p \o q \in Seq(Int) /\ Len(p \o q) = Len(p) + Len(q)
BY ConcatProperties

\* What a part of a date takes, and that it is made of numbers.
LEMMA PartLengths ==
    ASSUME NEW e \in Fields
    PROVE  /\ Year(e.year) \in Seq(Int) /\ Len(Year(e.year)) \in 4..5
           /\ Len(Year(e.year)) = IF e.year > 9999 THEN 5 ELSE 4
           /\ Microseconds(e.usec) \in Seq(Int)
           /\ Len(Microseconds(e.usec)) = IF e.usec = 0 THEN 0 ELSE 7
           /\ Offset(e.gmtoff) \in Seq(Int) /\ Len(Offset(e.gmtoff)) \in 1..5
<1>1. e.year \in Int /\ e.usec \in Int /\ e.gmtoff \in Int
  BY FieldTypes
<1>2. Year(e.year) \in Seq(Int) /\ Len(Year(e.year)) = IF e.year > 9999 THEN 5 ELSE 4
  <2>1. CASE e.year > 9999
    <3>1. Year(e.year) = <<Quotient(e.year, 10000), Place(e.year, 1000), Place(e.year, 100),
                           Place(e.year, 10), Place(e.year, 1)>>
      BY <2>1, SMT DEF Year
    <3>2. QED
      <4>1. /\ Quotient(e.year, 10000) \in Int /\ Place(e.year, 1000) \in Int
            /\ Place(e.year, 100) \in Int /\ Place(e.year, 10) \in Int /\ Place(e.year, 1) \in Int
        BY <1>1, RemainderType DEF Place, Quotient
      <4>2. QED
        BY <2>1, <3>1, <4>1, SMT
  <2>2. CASE ~(e.year > 9999)
    <3>1. Year(e.year) = <<Quotient(e.year, 1000), Place(e.year, 100), Place(e.year, 10),
                           Place(e.year, 1)>>
      BY <2>2, SMT DEF Year
    <3>2. QED
      <4>1. /\ Quotient(e.year, 1000) \in Int /\ Place(e.year, 100) \in Int
            /\ Place(e.year, 10) \in Int /\ Place(e.year, 1) \in Int
        BY <1>1, RemainderType DEF Place, Quotient
      <4>2. QED
        BY <2>2, <3>1, <4>1, SMT
  <2>3. QED
    BY <2>1, <2>2
<1>3. Microseconds(e.usec) \in Seq(Int)
      /\ Len(Microseconds(e.usec)) = IF e.usec = 0 THEN 0 ELSE 7
  <2>1. CASE e.usec = 0
    BY <2>1, EmptySeq DEF Microseconds
  <2>2. CASE e.usec # 0
    <3>1. Microseconds(e.usec) = <<Dot, Quotient(e.usec, 100000), Place(e.usec, 10000),
            Place(e.usec, 1000), Place(e.usec, 100), Place(e.usec, 10), Place(e.usec, 1)>>
      BY <2>2, SMT DEF Microseconds
    <3>2. Dot \in Int
      BY DEF Dot
    <3>3. QED
      <4>1. /\ Quotient(e.usec, 100000) \in Int /\ Place(e.usec, 10000) \in Int
            /\ Place(e.usec, 1000) \in Int /\ Place(e.usec, 100) \in Int
            /\ Place(e.usec, 10) \in Int /\ Place(e.usec, 1) \in Int
        BY <1>1, RemainderType DEF Place, Quotient
      <4>2. QED
        BY <2>2, <3>1, <3>2, <4>1, SMT
  <2>3. QED
    BY <2>1, <2>2
<1>4. Offset(e.gmtoff) \in Seq(Int) /\ Len(Offset(e.gmtoff)) \in 1..5
  <2> DEFINE off     == e.gmtoff
             minutes == Quotient(Remainder(off, 3600), 60)
             hours   == Quotient(off, 3600)
             sign    == <<IF off > 0 THEN Plus ELSE Minus>>
             rest    == IF minutes > 0 THEN Two(minutes) ELSE <<>>
  <2>1. minutes \in Int /\ hours \in Int
    BY <1>1 DEF Quotient, Remainder
  <2>2. rest \in Seq(Int) /\ Len(rest) \in 0..2
    BY <2>1, TwoDigits, EmptySeq
  <2>3. sign \in Seq(Int) /\ Len(sign) = 1
    BY DEF Plus, Minus
  <2>4. Two(hours) \in Seq(Int) /\ Len(Two(hours)) = 2
    BY <2>1, TwoDigits
  <2>5. Offset(off) = IF off = 0 THEN <<Zulu>> ELSE sign \o Two(hours) \o rest
    BY DEF Offset
  <2>6. <<Zulu>> \in Seq(Int) /\ Len(<<Zulu>>) = 1
    BY DEF Zulu
  <2> HIDE DEF off, rest, sign, minutes, hours
  <2>7. /\ sign \o Two(hours) \o rest \in Seq(Int)
        /\ Len(sign \o Two(hours) \o rest) = 3 + Len(rest)
    <3>1. /\ sign \o Two(hours) \in Seq(Int)
          /\ Len(sign \o Two(hours)) = Len(sign) + Len(Two(hours))
      BY <2>3, <2>4, PartsLength
    <3>2. Len(sign \o Two(hours)) = 3
      BY <2>3, <2>4, <3>1
    <3>3. /\ (sign \o Two(hours)) \o rest \in Seq(Int)
          /\ Len((sign \o Two(hours)) \o rest) = Len(sign \o Two(hours)) + Len(rest)
      BY <2>2, <3>1, PartsLength
    <3>4. QED
      BY <2>2, <3>2, <3>3
  <2>8. QED
    <3>1. Offset(off) \in Seq(Int) /\ Len(Offset(off)) \in 1..5
      <4>1. CASE off = 0
        BY <2>5, <2>6, <4>1
      <4>2. CASE off # 0
        <5>1. Offset(off) = sign \o Two(hours) \o rest
          BY <2>5, <4>2, Zenon
        <5>2. 3 + Len(rest) \in 1..5
          <6>1. Len(rest) \in 0..2
            BY <2>2
          <6>2. \A n \in 0..2 : 3 + n \in 1..5
            OBVIOUS
          <6>3. QED
            BY <6>1, <6>2
        <5>3. QED
          BY <2>7, <5>1, <5>2, Zenon
      <4>3. QED
        BY <4>1, <4>2
    <3>2. QED
      BY <3>1 DEF off
<1>5. Len(Year(e.year)) \in 4..5
  BY <1>2, SMT
<1>6. QED
  BY <1>2, <1>3, <1>4, <1>5, SMT

-----------------------------------------------------------------------------
(* The date *)

\* s begins with p.
Begins(s, p) == Len(p) <= Len(s) /\ \A i \in 1..Len(p) : s[i] = p[i]

\* One part more: what was there stays, and the part follows it.
LEMMA PartAdded ==
    ASSUME NEW p \in Seq(Int), NEW q \in Seq(Int)
    PROVE  /\ p \o q \in Seq(Int) /\ Len(p \o q) = Len(p) + Len(q)
           /\ Begins(p \o q, p)
           /\ \A i \in 1..Len(q) : (p \o q)[Len(p) + i] = q[i]
BY ConcatProperties DEF Begins

\* A beginning of a beginning is a beginning: what snprintf cuts keeps saying it.
LEMMA BeginsTransitive ==
    ASSUME NEW s \in Seq(Int), NEW p \in Seq(Int), NEW q \in Seq(Int), Begins(s, p), Begins(p, q)
    PROVE  Begins(s, q)
<1>1. Len(s) \in Nat /\ Len(p) \in Nat /\ Len(q) \in Nat
  BY LenProperties
<1>2. Len(q) <= Len(s) /\ 1..Len(q) \subseteq 1..Len(p)
  BY <1>1 DEF Begins
<1>3. QED
  BY <1>2 DEF Begins

\* What a sequence of numbers says at position k: the two digits of n.
SaysTwo(s, k, n) == 10 * s[k + 1] + s[k + 2] = n /\ s[k + 1] \in Int

\* A character added.
LEMMA CharacterAdded ==
    ASSUME NEW p \in Seq(Int), NEW c \in Int
    PROVE  /\ p \o <<c>> \in Seq(Int) /\ Len(p \o <<c>>) = Len(p) + 1
           /\ Begins(p \o <<c>>, p) /\ (p \o <<c>>)[Len(p) + 1] = c
<1>1. <<c>> \in Seq(Int) /\ Len(<<c>>) = 1 /\ <<c>>[1] = c
  OBVIOUS
<1>2. /\ p \o <<c>> \in Seq(Int) /\ Len(p \o <<c>>) = Len(p) + Len(<<c>>)
      /\ Begins(p \o <<c>>, p)
      /\ \A i \in 1..Len(<<c>>) : (p \o <<c>>)[Len(p) + i] = <<c>>[i]
  BY <1>1, PartAdded
<1>3. QED
  BY <1>1, <1>2

\* Two digits added.
LEMMA TwoAdded ==
    ASSUME NEW p \in Seq(Int), NEW n \in Int
    PROVE  /\ p \o Two(n) \in Seq(Int) /\ Len(p \o Two(n)) = Len(p) + 2
           /\ Begins(p \o Two(n), p) /\ SaysTwo(p \o Two(n), Len(p), n)
<1>1. /\ Two(n) \in Seq(Int) /\ Len(Two(n)) = 2
      /\ 10 * Two(n)[1] + Two(n)[2] = n /\ Two(n)[1] \in Int
  BY TwoDigits
<1>2. /\ p \o Two(n) \in Seq(Int) /\ Len(p \o Two(n)) = Len(p) + Len(Two(n))
      /\ Begins(p \o Two(n), p)
      /\ \A i \in 1..Len(Two(n)) : (p \o Two(n))[Len(p) + i] = Two(n)[i]
  BY <1>1, PartAdded
<1>3. QED
  BY <1>1, <1>2 DEF SaysTwo

\* A number said at the beginning of a sequence is said in what the sequence begins.
LEMMA TwoKept ==
    ASSUME NEW s \in Seq(Int), NEW p \in Seq(Int), Begins(s, p),
           NEW k \in Nat, k + 2 <= Len(p), NEW n, SaysTwo(p, k, n)
    PROVE  SaysTwo(s, k, n)
<1>1. k + 1 \in 1..Len(p) /\ k + 2 \in 1..Len(p)
  OBVIOUS
<1>2. QED
  BY <1>1 DEF Begins, SaysTwo

\* A date up to the microseconds, after a year of h characters.
SaysUpTo(s, e, h) ==
    /\ s[h + 1] = Minus
    /\ SaysTwo(s, h + 1, e.mon) /\ SaysTwo(s, h + 4, e.mday)
    /\ SaysTwo(s, h + 7, e.hour) /\ SaysTwo(s, h + 10, e.min) /\ SaysTwo(s, h + 13, e.sec)

UpTo(e) ==
    Year(e.year) \o <<Minus>> \o Two(e.mon) \o <<Minus>> \o Two(e.mday) \o <<Space>>
      \o Two(e.hour) \o <<Colon>> \o Two(e.min) \o <<Colon>> \o Two(e.sec)

\* What the date says up to the microseconds, place by place.
LEMMA UpToSays ==
    ASSUME NEW e \in Fields
    PROVE  LET h == Len(Year(e.year))
           IN /\ UpTo(e) \in Seq(Int) /\ Len(UpTo(e)) = h + 15
              /\ Begins(UpTo(e), Year(e.year)) /\ SaysUpTo(UpTo(e), e, h)
<1> DEFINE h   == Len(Year(e.year))
           p1  == Year(e.year) \o <<Minus>>
           p2  == p1 \o Two(e.mon)
           p3  == p2 \o <<Minus>>
           p4  == p3 \o Two(e.mday)
           p5  == p4 \o <<Space>>
           p6  == p5 \o Two(e.hour)
           p7  == p6 \o <<Colon>>
           p8  == p7 \o Two(e.min)
           p9  == p8 \o <<Colon>>
           p10 == p9 \o Two(e.sec)
<1>1. /\ Minus \in Int /\ Space \in Int /\ Colon \in Int
      /\ e.mon \in Int /\ e.mday \in Int /\ e.hour \in Int /\ e.min \in Int /\ e.sec \in Int
  BY FieldTypes DEF Minus, Space, Colon
<1>2. Year(e.year) \in Seq(Int) /\ h \in Nat
  BY PartLengths, LenProperties
<1>3. UpTo(e) = p10
  BY DEF UpTo
<1> HIDE DEF h
<1>p1. /\ p1 \in Seq(Int) /\ Len(p1) = h + 1
       /\ Begins(p1, Year(e.year)) /\ p1[h + 1] = Minus
  BY <1>1, <1>2, CharacterAdded DEF h
<1> HIDE DEF p1
<1>p2. /\ p2 \in Seq(Int) /\ Len(p2) = h + 3 /\ Begins(p2, p1) /\ SaysTwo(p2, Len(p1), e.mon)
  <2>1. /\ p2 \in Seq(Int) /\ Len(p2) = Len(p1) + 2
        /\ Begins(p2, p1) /\ SaysTwo(p2, Len(p1), e.mon)
    BY <1>1, <1>p1, TwoAdded, Zenon
  <2>2. Len(p2) = h + 3
    BY <1>2, <1>p1, <2>1
  <2>3. QED
    BY <2>1, <2>2
<1> HIDE DEF p2
<1>p3. p3 \in Seq(Int) /\ Len(p3) = h + 4 /\ Begins(p3, p2)
  BY <1>1, <1>2, <1>p2, CharacterAdded
<1> HIDE DEF p3
<1>p4. /\ p4 \in Seq(Int) /\ Len(p4) = h + 6 /\ Begins(p4, p3) /\ SaysTwo(p4, Len(p3), e.mday)
  <2>1. /\ p4 \in Seq(Int) /\ Len(p4) = Len(p3) + 2
        /\ Begins(p4, p3) /\ SaysTwo(p4, Len(p3), e.mday)
    BY <1>1, <1>p3, TwoAdded, Zenon
  <2>2. Len(p4) = h + 6
    BY <1>2, <1>p3, <2>1
  <2>3. QED
    BY <2>1, <2>2
<1> HIDE DEF p4
<1>p5. p5 \in Seq(Int) /\ Len(p5) = h + 7 /\ Begins(p5, p4)
  BY <1>1, <1>2, <1>p4, CharacterAdded
<1> HIDE DEF p5
<1>p6. /\ p6 \in Seq(Int) /\ Len(p6) = h + 9 /\ Begins(p6, p5) /\ SaysTwo(p6, Len(p5), e.hour)
  <2>1. /\ p6 \in Seq(Int) /\ Len(p6) = Len(p5) + 2
        /\ Begins(p6, p5) /\ SaysTwo(p6, Len(p5), e.hour)
    BY <1>1, <1>p5, TwoAdded, Zenon
  <2>2. Len(p6) = h + 9
    BY <1>2, <1>p5, <2>1
  <2>3. QED
    BY <2>1, <2>2
<1> HIDE DEF p6
<1>p7. p7 \in Seq(Int) /\ Len(p7) = h + 10 /\ Begins(p7, p6)
  BY <1>1, <1>2, <1>p6, CharacterAdded
<1> HIDE DEF p7
<1>p8. /\ p8 \in Seq(Int) /\ Len(p8) = h + 12 /\ Begins(p8, p7) /\ SaysTwo(p8, Len(p7), e.min)
  <2>1. /\ p8 \in Seq(Int) /\ Len(p8) = Len(p7) + 2
        /\ Begins(p8, p7) /\ SaysTwo(p8, Len(p7), e.min)
    BY <1>1, <1>p7, TwoAdded, Zenon
  <2>2. Len(p8) = h + 12
    BY <1>2, <1>p7, <2>1
  <2>3. QED
    BY <2>1, <2>2
<1> HIDE DEF p8
<1>p9. p9 \in Seq(Int) /\ Len(p9) = h + 13 /\ Begins(p9, p8)
  BY <1>1, <1>2, <1>p8, CharacterAdded
<1> HIDE DEF p9
<1>p10. /\ p10 \in Seq(Int) /\ Len(p10) = h + 15 /\ Begins(p10, p9)
        /\ SaysTwo(p10, Len(p9), e.sec)
  <2>1. /\ p10 \in Seq(Int) /\ Len(p10) = Len(p9) + 2
        /\ Begins(p10, p9) /\ SaysTwo(p10, Len(p9), e.sec)
    BY <1>1, <1>p9, TwoAdded, Zenon
  <2>2. Len(p10) = h + 15
    BY <1>2, <1>p9, <2>1
  <2>3. QED
    BY <2>1, <2>2
<1> HIDE DEF p10
<1>4. /\ Begins(p10, p8) /\ Begins(p10, p7) /\ Begins(p10, p6) /\ Begins(p10, p5)
      /\ Begins(p10, p4) /\ Begins(p10, p3) /\ Begins(p10, p2) /\ Begins(p10, p1)
      /\ Begins(p10, Year(e.year))
  <2>1. Begins(p10, p8)
    BY <1>p8, <1>p9, <1>p10, BeginsTransitive
  <2>2. Begins(p10, p7)
    BY <1>p7, <1>p8, <1>p10, <2>1, BeginsTransitive
  <2>3. Begins(p10, p6)
    BY <1>p6, <1>p7, <1>p10, <2>2, BeginsTransitive
  <2>4. Begins(p10, p5)
    BY <1>p5, <1>p6, <1>p10, <2>3, BeginsTransitive
  <2>5. Begins(p10, p4)
    BY <1>p4, <1>p5, <1>p10, <2>4, BeginsTransitive
  <2>6. Begins(p10, p3)
    BY <1>p3, <1>p4, <1>p10, <2>5, BeginsTransitive
  <2>7. Begins(p10, p2)
    BY <1>p2, <1>p3, <1>p10, <2>6, BeginsTransitive
  <2>8. Begins(p10, p1)
    BY <1>p1, <1>p2, <1>p10, <2>7, BeginsTransitive
  <2>9. Begins(p10, Year(e.year))
    BY <1>2, <1>p1, <1>p10, <2>8, BeginsTransitive
  <2>10. QED
    BY <2>1, <2>2, <2>3, <2>4, <2>5, <2>6, <2>7, <2>8, <2>9
<1>5. /\ SaysTwo(p10, h + 1, e.mon) /\ SaysTwo(p10, h + 4, e.mday)
      /\ SaysTwo(p10, h + 7, e.hour) /\ SaysTwo(p10, h + 10, e.min)
      /\ SaysTwo(p10, h + 13, e.sec)
  <2>1. SaysTwo(p10, h + 1, e.mon)
    <3>1. Len(p1) = h + 1 /\ Len(p1) \in Nat /\ Len(p1) + 2 <= Len(p2)
      BY <1>2, <1>p1, <1>p2
    <3>2. SaysTwo(p10, Len(p1), e.mon)
      BY <1>4, <1>p2, <1>p10, <3>1, TwoKept
    <3>3. QED
      BY <3>1, <3>2, Zenon
  <2>2. SaysTwo(p10, h + 4, e.mday)
    <3>1. Len(p3) = h + 4 /\ Len(p3) \in Nat /\ Len(p3) + 2 <= Len(p4)
      BY <1>2, <1>p3, <1>p4
    <3>2. SaysTwo(p10, Len(p3), e.mday)
      BY <1>4, <1>p4, <1>p10, <3>1, TwoKept
    <3>3. QED
      BY <3>1, <3>2, Zenon
  <2>3. SaysTwo(p10, h + 7, e.hour)
    <3>1. Len(p5) = h + 7 /\ Len(p5) \in Nat /\ Len(p5) + 2 <= Len(p6)
      BY <1>2, <1>p5, <1>p6
    <3>2. SaysTwo(p10, Len(p5), e.hour)
      BY <1>4, <1>p6, <1>p10, <3>1, TwoKept
    <3>3. QED
      BY <3>1, <3>2, Zenon
  <2>4. SaysTwo(p10, h + 10, e.min)
    <3>1. Len(p7) = h + 10 /\ Len(p7) \in Nat /\ Len(p7) + 2 <= Len(p8)
      BY <1>2, <1>p7, <1>p8
    <3>2. SaysTwo(p10, Len(p7), e.min)
      BY <1>4, <1>p8, <1>p10, <3>1, TwoKept
    <3>3. QED
      BY <3>1, <3>2, Zenon
  <2>5. SaysTwo(p10, h + 13, e.sec)
    BY <1>p9, <1>p10, Zenon
  <2>6. QED
    BY <2>1, <2>2, <2>3, <2>4, <2>5
<1>6. p10[h + 1] = Minus
  BY <1>2, <1>4, <1>p1 DEF Begins
<1>7. QED
  BY <1>3, <1>4, <1>5, <1>6, <1>p10 DEF SaysUpTo, h

\* The microseconds and the offset, when they are said.
LEMMA MicrosecondsSay ==
    ASSUME NEW u \in Nat, u # 0
    PROVE  LET m == Microseconds(u)
           IN /\ m[1] = Dot
              /\ m[2] \in Int /\ m[3] \in Int /\ m[4] \in Int /\ m[5] \in Int /\ m[6] \in Int
              /\ m[7] \in Int
              /\ 100000 * m[2] + 10000 * m[3] + 1000 * m[4] + 100 * m[5] + 10 * m[6] + m[7] = u
<1>1. Microseconds(u) = <<Dot, Quotient(u, 100000), Place(u, 10000),
        Place(u, 1000), Place(u, 100), Place(u, 10), Place(u, 1)>>
  BY SMT DEF Microseconds
<1>2. /\ Quotient(u, 100000) \in Int /\ Place(u, 10000) \in Int
      /\ Place(u, 1000) \in Int /\ Place(u, 100) \in Int
      /\ Place(u, 10) \in Int /\ Place(u, 1) \in Int
  BY RemainderType, SMT DEF Place, Quotient
<1>3. /\ u = 10 * Quotient(u, 10) + Place(u, 1)
      /\ Quotient(u, 10) = 10 * Quotient(u, 100) + Place(u, 10)
      /\ Quotient(u, 100) = 10 * Quotient(u, 1000) + Place(u, 100)
      /\ Quotient(u, 1000) = 10 * Quotient(u, 10000) + Place(u, 1000)
      /\ Quotient(u, 10000) = 10 * Quotient(u, 100000) + Place(u, 10000)
  BY Places
<1>4. /\ Quotient(u, 10) \in Int /\ Quotient(u, 100) \in Int
      /\ Quotient(u, 1000) \in Int /\ Quotient(u, 10000) \in Int
  BY SMT DEF Quotient
<1>5. 100000 * Quotient(u, 100000) + 10000 * Place(u, 10000) + 1000 * Place(u, 1000)
        + 100 * Place(u, 100) + 10 * Place(u, 10) + Place(u, 1) = u
  BY <1>2, <1>3, <1>4, SMT
<1>6. QED
  BY <1>1, <1>2, <1>5, SMT

\* What the offset from UTC says: a sign, the hours, and the minutes if there are any.
LEMMA OffsetSays ==
    ASSUME NEW off \in Nat, off # 0
    PROVE  LET o == Offset(off)
           IN /\ o[1] = Plus /\ (Len(o) = 3 \/ Len(o) = 5)
              /\ SaysTwo(o, 1, Quotient(off, 3600))
              /\ IF Len(o) = 5 THEN SaysTwo(o, 3, Quotient(Remainder(off, 3600), 60))
                               ELSE Quotient(Remainder(off, 3600), 60) = 0
<1> DEFINE minutes == Quotient(Remainder(off, 3600), 60)
           hours   == Quotient(off, 3600)
           p1      == <<Plus>> \o Two(hours)
<1>1. minutes \in Nat /\ hours \in Nat
  BY DEF Quotient, Remainder
<1>2. Offset(off) = p1 \o (IF minutes > 0 THEN Two(minutes) ELSE <<>>)
  <2>1. <<IF off > 0 THEN Plus ELSE Minus>> = <<Plus>>
    OBVIOUS
  <2>2. Offset(off) = IF off = 0 THEN <<Zulu>>
                      ELSE <<IF off > 0 THEN Plus ELSE Minus>> \o Two(hours)
                             \o (IF minutes > 0 THEN Two(minutes) ELSE <<>>)
    BY DEF Offset
  <2> HIDE DEF minutes, hours
  <2>3. QED
    BY <2>1, <2>2, Zenon DEF p1
<1>h. minutes \in Int /\ hours \in Int
  BY <1>1
<1> HIDE DEF minutes, hours
<1>3. <<Plus>> \in Seq(Int) /\ Len(<<Plus>>) = 1 /\ <<Plus>>[1] = Plus
  BY DEF Plus
<1>4. /\ p1 \in Seq(Int) /\ Len(p1) = 3 /\ p1[1] = Plus /\ SaysTwo(p1, 1, hours)
  <2>1. /\ p1 \in Seq(Int) /\ Len(p1) = Len(<<Plus>>) + 2
        /\ Begins(p1, <<Plus>>) /\ SaysTwo(p1, Len(<<Plus>>), hours)
    BY <1>h, <1>3, TwoAdded, Zenon
  <2>2. Len(p1) = 3 /\ SaysTwo(p1, 1, hours)
    <3>1. Len(p1) = 3
      BY <1>3, <2>1
    <3>2. QED
      BY <1>3, <2>1, <3>1, Zenon
  <2>3. p1[1] = Plus
    <3>1. 1 \in 1..Len(<<Plus>>) /\ <<Plus>>[1] = Plus
      BY <1>3
    <3>2. QED
      BY <2>1, <3>1, Zenon DEF Begins
  <2>4. QED
    BY <2>1, <2>2, <2>3, Zenon
<1> HIDE DEF p1
<1>5. CASE minutes > 0
  <2>1. Offset(off) = p1 \o Two(minutes)
    BY <1>2, <1>5
  <2>2. /\ p1 \o Two(minutes) \in Seq(Int) /\ Len(p1 \o Two(minutes)) = Len(p1) + 2
        /\ Begins(p1 \o Two(minutes), p1) /\ SaysTwo(p1 \o Two(minutes), Len(p1), minutes)
    BY <1>h, <1>4, TwoAdded, Zenon
  <2>3. SaysTwo(Offset(off), 1, hours)
    <3>1. 1 \in Nat /\ 1 + 2 <= Len(p1) /\ Offset(off) \in Seq(Int)
      BY <1>4, <2>1, <2>2
    <3>2. QED
      BY <1>4, <2>1, <2>2, <3>1, TwoKept, Zenon
  <2>4. Len(Offset(off)) = 5 /\ Offset(off)[1] = Plus
    BY <1>4, <2>1, <2>2 DEF Begins
  <2>5. SaysTwo(Offset(off), 3, minutes)
    BY <1>4, <2>1, <2>2, Zenon
  <2>6. QED
    BY <2>3, <2>4, <2>5 DEF minutes, hours
<1>6. CASE ~(minutes > 0)
  <2>1. Offset(off) = p1
    BY <1>2, <1>4, <1>6, ConcatEmptySeq
  <2>2. minutes = 0
    BY <1>1, <1>6
  <2>3. Len(Offset(off)) = 3 /\ Offset(off)[1] = Plus /\ SaysTwo(Offset(off), 1, hours)
    BY <1>4, <2>1
  <2>4. QED
    BY <2>2, <2>3 DEF minutes, hours
<1>7. QED
  BY <1>5, <1>6 DEF minutes, hours

\* A year of four or five digits.
LEMMA YearSays ==
    ASSUME NEW y \in Nat
    PROVE  LET t == Year(y)
           IN IF y > 9999
              THEN /\ \A i \in 1..5 : t[i] \in Int
                   /\ t[5] # Minus
                   /\ 10000 * t[1] + 1000 * t[2] + 100 * t[3] + 10 * t[4] + t[5] = y
              ELSE /\ \A i \in 1..4 : t[i] \in Int
                   /\ 1000 * t[1] + 100 * t[2] + 10 * t[3] + t[4] = y
<1>1. /\ Quotient(y, 10000) \in Int /\ Quotient(y, 1000) \in Int
      /\ Quotient(y, 10) \in Int /\ Quotient(y, 100) \in Int
      /\ Place(y, 1000) \in Int /\ Place(y, 100) \in Int
      /\ Place(y, 10) \in Int /\ Place(y, 1) \in 0..9
  <2>1. /\ Quotient(y, 10000) \in Int /\ Quotient(y, 1000) \in Int
        /\ Quotient(y, 10) \in Int /\ Quotient(y, 100) \in Int
    BY SMT DEF Quotient
  <2>2. Place(y, 1000) \in Int /\ Place(y, 100) \in Int /\ Place(y, 10) \in Int
    BY RemainderType, SMT DEF Place, Quotient
  <2>3. Place(y, 1) \in 0..9
    BY Places
  <2>4. QED
    BY <2>1, <2>2, <2>3
<1>2. /\ y = 10 * Quotient(y, 10) + Place(y, 1)
      /\ Quotient(y, 10) = 10 * Quotient(y, 100) + Place(y, 10)
      /\ Quotient(y, 100) = 10 * Quotient(y, 1000) + Place(y, 100)
      /\ Quotient(y, 1000) = 10 * Quotient(y, 10000) + Place(y, 1000)
  BY Places
<1>3. CASE y > 9999
  <2>1. Year(y) = <<Quotient(y, 10000), Place(y, 1000), Place(y, 100), Place(y, 10), Place(y, 1)>>
    BY <1>3, SMT DEF Year
  <2>2. 10000 * Quotient(y, 10000) + 1000 * Place(y, 1000) + 100 * Place(y, 100)
          + 10 * Place(y, 10) + Place(y, 1) = y
    BY <1>1, <1>2, SMT
  <2>3. Place(y, 1) # Minus
    BY <1>1 DEF Minus
  <2>4. QED
    BY <1>1, <1>3, <2>1, <2>2, <2>3, SMT
<1>4. CASE ~(y > 9999)
  <2>1. Year(y) = <<Quotient(y, 1000), Place(y, 100), Place(y, 10), Place(y, 1)>>
    BY <1>4, SMT DEF Year
  <2>2. 1000 * Quotient(y, 1000) + 100 * Place(y, 100) + 10 * Place(y, 10) + Place(y, 1) = y
    BY <1>1, <1>2, SMT
  <2>3. QED
    BY <1>1, <1>4, <2>1, <2>2, SMT
<1>5. QED
  BY <1>3, <1>4

\* Where the offset begins.
OffsetAt(e) == IF e.usec = 0 THEN Len(Year(e.year)) + 16 ELSE Len(Year(e.year)) + 23

\* The whole date, part by part.
LEMMA FormatSays ==
    ASSUME NEW e \in Fields
    PROVE  LET h == Len(Year(e.year))
               s == format_iso8601(e)
           IN /\ s \in Seq(Int) /\ Len(s) = OffsetAt(e) - 1 + Len(Offset(e.gmtoff))
              /\ Begins(s, Year(e.year)) /\ SaysUpTo(s, e, h)
              /\ \A i \in 1..Len(Microseconds(e.usec)) : s[h + 15 + i] = Microseconds(e.usec)[i]
              /\ \A i \in 1..Len(Offset(e.gmtoff)) :
                   s[OffsetAt(e) - 1 + i] = Offset(e.gmtoff)[i]
<1> DEFINE h == Len(Year(e.year))
           m == Microseconds(e.usec)
           o == Offset(e.gmtoff)
           u == UpTo(e)
           v == u \o m
           s == v \o o
<1>1. /\ Year(e.year) \in Seq(Int) /\ h \in 4..5 /\ m \in Seq(Int)
      /\ Len(m) = IF e.usec = 0 THEN 0 ELSE 7
      /\ o \in Seq(Int) /\ Len(o) \in 1..5
  BY PartLengths
<1>2. /\ u \in Seq(Int) /\ Len(u) = h + 15
      /\ Begins(u, Year(e.year)) /\ SaysUpTo(u, e, h)
  BY UpToSays
<1>3. format_iso8601(e) = s
  BY DEF format_iso8601, UpTo
<1>4. OffsetAt(e) = h + 16 + Len(m)
  BY <1>1 DEF OffsetAt
<1> HIDE DEF h, m, o, u
<1>5. /\ v \in Seq(Int) /\ Len(v) = Len(u) + Len(m) /\ Begins(v, u)
      /\ \A i \in 1..Len(m) : v[Len(u) + i] = m[i]
  BY <1>1, <1>2, PartAdded
<1> HIDE DEF v
<1>6. /\ s \in Seq(Int) /\ Len(s) = Len(v) + Len(o) /\ Begins(s, v)
      /\ \A i \in 1..Len(o) : s[Len(v) + i] = o[i]
  BY <1>1, <1>5, PartAdded
<1> HIDE DEF s
<1>7. Len(u) = h + 15 /\ Len(v) = OffsetAt(e) - 1 /\ Len(s) = OffsetAt(e) - 1 + Len(o)
  BY <1>1, <1>2, <1>4, <1>5, <1>6
<1>8. Begins(s, u)
  BY <1>2, <1>5, <1>6, BeginsTransitive
<1>9. Begins(s, Year(e.year))
  BY <1>1, <1>2, <1>6, <1>8, BeginsTransitive
<1>10. SaysUpTo(s, e, h)
  <2>1. /\ h + 1 \in Nat /\ (h + 1) + 2 <= Len(u) /\ h + 4 \in Nat /\ (h + 4) + 2 <= Len(u)
        /\ h + 7 \in Nat /\ (h + 7) + 2 <= Len(u) /\ h + 10 \in Nat /\ (h + 10) + 2 <= Len(u)
        /\ h + 13 \in Nat /\ (h + 13) + 2 <= Len(u) /\ h + 1 \in 1..Len(u)
    BY <1>1, <1>2
  <2>2. s[h + 1] = Minus
    BY <1>2, <1>8, <2>1 DEF Begins, SaysUpTo
  <2>3. /\ SaysTwo(s, h + 1, e.mon) /\ SaysTwo(s, h + 4, e.mday)
        /\ SaysTwo(s, h + 7, e.hour) /\ SaysTwo(s, h + 10, e.min) /\ SaysTwo(s, h + 13, e.sec)
    BY <1>2, <1>6, <1>8, <2>1, TwoKept, Zenon DEF SaysUpTo
  <2>4. QED
    BY <2>2, <2>3 DEF SaysUpTo
<1>11. \A i \in 1..Len(m) : s[h + 15 + i] = m[i]
  <2> TAKE i \in 1..Len(m)
  <2>1. Len(u) + i \in 1..Len(v)
    <3>1. Len(u) \in Nat /\ Len(m) \in Nat /\ Len(v) = Len(u) + Len(m)
      BY <1>1, <1>2, <1>5, LenProperties
    <3>2. QED
      BY <3>1
  <2>2. s[Len(u) + i] = m[i]
    BY <1>5, <1>6, <2>1 DEF Begins
  <2>3. QED
    BY <1>7, <2>2
<1>12. \A i \in 1..Len(o) : s[OffsetAt(e) - 1 + i] = o[i]
  BY <1>6, <1>7
<1>13. QED
  BY <1>3, <1>6, <1>7, <1>9, <1>10, <1>11, <1>12 DEF h, m, o

-----------------------------------------------------------------------------
(* The specification *)

\* There is no date yet, or it is that of the instant.
DateInv ==
    /\ exp \in Exps
    /\ date = <<>> \/ date = format_iso8601(exp)

\* The invariant of the formatting holds at every step.
LEMMA DateHolds == Iso8601Spec => []DateInv
<1>1. Iso8601Init => DateInv
  BY DEF Iso8601Init, DateInv
<1>2. DateInv /\ [Iso8601Next]_<<exp, date>> => DateInv'
  BY DEF DateInv, Iso8601Next, iso8601_format, Formatted
<1>3. QED
  BY <1>1, <1>2, PTL DEF Iso8601Spec

\* A date never takes more than the buffer it is made in, for every instant that
\* can be broken down, any year and any offset (format_iso8601).
THEOREM DateFitsHolds == Iso8601Spec => []DateFits
<1>1. DateInv => DateFits
  <2> SUFFICES ASSUME DateInv PROVE Len(date) < 33
    BY DEF DateFits, NGIM_ISO8601_FORMAT
  <2>1. CASE date = <<>>
    BY <2>1
  <2>2. CASE date = format_iso8601(exp)
    <3>1. exp \in Fields
      BY ExpAssumption DEF DateInv
    <3>2. Len(date) = OffsetAt(exp) - 1 + Len(Offset(exp.gmtoff))
      BY <2>2, <3>1, FormatSays
    <3>3. Len(Year(exp.year)) \in 4..5 /\ Len(Offset(exp.gmtoff)) \in 1..5
      BY <3>1, PartLengths
    <3>4. \A h \in 4..5, n \in 1..5 : (h + 16) - 1 + n < 33 /\ (h + 23) - 1 + n < 33
      OBVIOUS
    <3>5. \/ Len(date) = (Len(Year(exp.year)) + 16) - 1 + Len(Offset(exp.gmtoff))
          \/ Len(date) = (Len(Year(exp.year)) + 23) - 1 + Len(Offset(exp.gmtoff))
      <4>1. CASE exp.usec = 0
        <5>1. OffsetAt(exp) = Len(Year(exp.year)) + 16
          BY <4>1 DEF OffsetAt
        <5>2. QED
          BY <3>2, <5>1, Zenon
      <4>2. CASE exp.usec # 0
        <5>1. OffsetAt(exp) = Len(Year(exp.year)) + 23
          BY <4>2 DEF OffsetAt
        <5>2. QED
          BY <3>2, <5>1, Zenon
      <4>3. QED
        BY <4>1, <4>2
    <3>6. QED
      BY <3>3, <3>4, <3>5, Zenon
  <2>3. QED
    BY <2>1, <2>2 DEF DateInv
<1>2. QED
  BY <1>1, DateHolds, PTL

\* What a date says in two digits.
LEMMA TwoSaid ==
    ASSUME NEW s, NEW k \in Nat, NEW n, SaysTwo(s, k, n)
    PROVE  Number(s, k + 1, k + 2) = n
<1>1. k + 1 \in Nat \ {0} /\ (k + 1) + 1 = k + 2
  OBVIOUS
<1>2. Number(s, k + 1, (k + 1) + 1) = 10 * s[k + 1] + s[(k + 1) + 1]
  BY <1>1, NumberOf2 DEF SaysTwo
<1>3. QED
  BY <1>1, <1>2 DEF SaysTwo

\* An offset begins with what is no dot.
LEMMA OffsetStarts ==
    ASSUME NEW off \in Nat
    PROVE  Offset(off)[1] # Dot
<1>1. CASE off = 0
  BY <1>1 DEF Offset, Zulu, Dot
<1>2. CASE off # 0
  BY <1>2, OffsetSays DEF Plus, Dot
<1>3. QED
  BY <1>1, <1>2

\* The largest year is an integer.
LEMMA LongYearType == LongYear \in Int
BY SMT DEF LongYear

\* The seconds of a day are an integer.
LEMMA DayType == Day \in Int
BY SMT DEF Day

\* The fields of a time of which only the offset is replaced.
LEMMA FieldsExcept ==
    ASSUME NEW e \in Fields, NEW x
    PROVE  [e EXCEPT !.gmtoff = x]
             = [year |-> e.year, mon |-> e.mon, mday |-> e.mday, hour |-> e.hour,
                min |-> e.min, sec |-> e.sec, usec |-> e.usec, gmtoff |-> x]
BY DEF Fields

\* The date of an instant says it.
LEMMA FormatSaying ==
    ASSUME NEW e \in Fields, e.year \in 0..LongYear, e.gmtoff >= 0
    PROVE  Saying(format_iso8601(e)) = [e EXCEPT !.gmtoff = @ - (@ % 60)]
<1> DEFINE h    == Len(Year(e.year))
           s    == format_iso8601(e)
           m    == Microseconds(e.usec)
           o    == Offset(e.gmtoff)
           y    == Min({i \in 5..6 : s[i] = Minus})
           z    == IF s[y + 15] = Dot THEN y + 22 ELSE y + 15
<1>1. /\ Len(s) = OffsetAt(e) - 1 + Len(o)
      /\ Begins(s, Year(e.year)) /\ SaysUpTo(s, e, h)
      /\ \A i \in 1..Len(m) : s[h + 15 + i] = m[i]
      /\ \A i \in 1..Len(o) : s[OffsetAt(e) - 1 + i] = o[i]
  BY FormatSays
<1>2. e.year \in Nat /\ e.gmtoff \in Nat /\ e.usec \in Nat
  BY FieldTypes, LongYearType, SMT
<1>3. /\ h = IF e.year > 9999 THEN 5 ELSE 4
      /\ Len(m) = IF e.usec = 0 THEN 0 ELSE 7
      /\ Len(o) \in 1..5
  BY PartLengths
<1> HIDE DEF h, s, m, o
<1>4. h \in 4..5
  BY <1>3
<1>5. y = h + 1 /\ Number(s, 1, y - 1) = e.year
  <2> DEFINE t == Year(e.year)
  <2>1. Len(t) = h /\ \A i \in 1..h : s[i] = t[i]
    BY <1>1 DEF Begins, h
  <2>2. s[h + 1] = Minus
    BY <1>1 DEF SaysUpTo
  <2>3. CASE e.year > 9999
    <3>1. h = 5
      BY <1>3, <2>3, SMT
    <3>2. /\ \A i \in 1..5 : t[i] \in Int
          /\ t[5] # Minus
          /\ 10000 * t[1] + 1000 * t[2] + 100 * t[3] + 10 * t[4] + t[5] = e.year
      BY <1>2, <2>3, YearSays, SMT
    <3> HIDE DEF t
    <3>3. s[5] # Minus /\ s[6] = Minus
      BY <2>1, <2>2, <3>1, <3>2
    <3>4. \A i \in 1..1 + 4 : s[i] \in Int
      BY <2>1, <3>1, <3>2
    <3>5. Number(s, 1, 1 + 4) = 10000 * s[1] + 1000 * s[1 + 1] + 100 * s[1 + 2]
                                  + 10 * s[1 + 3] + s[1 + 4]
      <4>1. PICK i \in Nat \ {0} : i = 1
        OBVIOUS
      <4>2. \A k \in i..i + 4 : s[k] \in Int
        BY <3>4, <4>1, Zenon
      <4>3. Number(s, i, i + 4) = 10000 * s[i] + 1000 * s[i + 1] + 100 * s[i + 2]
                                    + 10 * s[i + 3] + s[i + 4]
        BY <4>2, NumberOf5, SMT
      <4>4. QED
        BY <4>1, <4>3, SMT
    <3>6. /\ s[1] = t[1] /\ s[2] = t[2] /\ s[3] = t[3] /\ s[4] = t[4] /\ s[5] = t[5]
      BY <2>1, <3>1
    <3>7. Number(s, 1, 5) = e.year
      BY <3>2, <3>5, <3>6, SMT
    <3>8. y = 6
      <4>1. {i \in 5..6 : s[i] = Minus} = {6}
        BY <3>3
      <4>2. QED
        BY <4>1 DEF Min
    <3>9. QED
      BY <3>1, <3>7, <3>8
  <2>4. CASE ~(e.year > 9999)
    <3>1. h = 4
      BY <1>3, <2>4, SMT
    <3>2. /\ \A i \in 1..4 : t[i] \in Int
          /\ 1000 * t[1] + 100 * t[2] + 10 * t[3] + t[4] = e.year
      BY <1>2, <2>4, YearSays, SMT
    <3> HIDE DEF t
    <3>3. s[5] = Minus
      BY <2>2, <3>1
    <3>4. \A i \in 1..1 + 3 : s[i] \in Int
      BY <2>1, <3>1, <3>2
    <3>5. Number(s, 1, 1 + 3) = 1000 * s[1] + 100 * s[1 + 1] + 10 * s[1 + 2] + s[1 + 3]
      <4> DEFINE i == 1
                 j == 1 + 3
      <4>1. /\ i \in Nat \ {0} /\ j \in Nat /\ j = i + 3
            /\ \A k \in i..j : s[k] \in Int
        BY <3>4
      <4> HIDE DEF i, j
      <4>2. Number(s, i, j) = 1000 * s[i] + 100 * s[i + 1] + 10 * s[i + 2] + s[i + 3]
        BY <4>1, NumberOf4
      <4>3. QED
        BY <4>2, Zenon DEF i, j
    <3>6. /\ s[1] = t[1] /\ s[2] = t[2] /\ s[3] = t[3] /\ s[4] = t[4]
      BY <2>1, <3>1
    <3>7. Number(s, 1, 4) = e.year
      BY <3>2, <3>5, <3>6, SMT
    <3>8. y = 5
      <4> DEFINE Y == {i \in 5..6 : s[i] = Minus}
      <4>1. 5 \in Y /\ Y \subseteq 5..6
        BY <3>3
      <4> HIDE DEF Y
      <4>2. \A i \in Y : 5 <= i /\ (i <= 5 => i = 5)
        BY <4>1
      <4>3. Min(Y) = 5
        BY <4>1, <4>2 DEF Min
      <4>4. QED
        BY <4>3 DEF Y
    <3>9. QED
      BY <3>1, <3>7, <3>8
  <2>5. QED
    BY <2>3, <2>4
<1> HIDE DEF y
<1>6. z = OffsetAt(e) /\ Number(s, y + 16, z - 1) = e.usec
  <2>1. y + 15 = h + 16 /\ y + 22 = h + 23 /\ y + 16 = h + 17
    BY <1>4, <1>5
  <2>2. CASE e.usec = 0
    <3>1. OffsetAt(e) = h + 16 /\ s[h + 16] = o[1]
      <4>1. OffsetAt(e) = h + 16
        BY <2>2 DEF OffsetAt, h
      <4>2. 1 \in 1..Len(o)
        <5>1. \A n \in 1..5 : 1 \in 1..n
          OBVIOUS
        <5>2. QED
          BY <1>3, <5>1, Zenon
      <4>3. s[OffsetAt(e) - 1 + 1] = o[1]
        BY <1>1, <4>2
      <4>4. QED
        BY <1>4, <4>1, <4>3
    <3>2. o[1] # Dot
      BY <1>2, OffsetStarts DEF o
    <3>3. z = h + 16 /\ y + 16 = h + 17
      BY <2>1, <3>1, <3>2
    <3>4. Number(s, h + 17, h + 15) = 0
      <4>1. h + 17 \in Nat \ {0} /\ h + 15 \in Nat /\ h + 15 < h + 17
        BY <1>4
      <4>2. QED
        BY <4>1, NumberStep
    <3>5. z - 1 = h + 15
      BY <1>4, <3>3
    <3>6. QED
      BY <2>1, <2>2, <3>1, <3>3, <3>4, <3>5
  <2>3. CASE e.usec # 0
    <3>1. Len(m) = 7 /\ OffsetAt(e) = h + 23
      BY <1>3, <2>3 DEF OffsetAt, h
    <3>2. /\ m[1] = Dot
          /\ m[2] \in Int /\ m[3] \in Int /\ m[4] \in Int /\ m[5] \in Int /\ m[6] \in Int
          /\ m[7] \in Int
          /\ 100000 * m[2] + 10000 * m[3] + 1000 * m[4] + 100 * m[5] + 10 * m[6] + m[7] = e.usec
      BY <1>2, <2>3, MicrosecondsSay, SMT DEF m
    <3> DEFINE k == h + 17
    <3>3. /\ s[h + 16] = m[1] /\ s[k] = m[2] /\ s[k + 1] = m[3] /\ s[k + 2] = m[4]
          /\ s[k + 3] = m[5] /\ s[k + 4] = m[6] /\ s[k + 5] = m[7]
      <4>1. /\ s[h + 15 + 1] = m[1] /\ s[h + 15 + 2] = m[2] /\ s[h + 15 + 3] = m[3]
            /\ s[h + 15 + 4] = m[4] /\ s[h + 15 + 5] = m[5] /\ s[h + 15 + 6] = m[6]
            /\ s[h + 15 + 7] = m[7]
        BY <1>1, <3>1
      <4>2. QED
        BY <1>4, <4>1
    <3>4. k \in Nat \ {0} /\ k + 5 = h + 22
      BY <1>4
    <3> HIDE DEF k
    <3>5. \A i \in k..k + 5 : s[i] \in Int
      <4> SUFFICES ASSUME NEW i \in k..k + 5 PROVE s[i] \in Int
        OBVIOUS
      <4>1. i = k \/ i = k + 1 \/ i = k + 2 \/ i = k + 3 \/ i = k + 4 \/ i = k + 5
        BY <3>4
      <4>2. QED
        BY <3>2, <3>3, <4>1, SMT
    <3>6. Number(s, k, k + 5) = 100000 * s[k] + 10000 * s[k + 1] + 1000 * s[k + 2]
                                  + 100 * s[k + 3] + 10 * s[k + 4] + s[k + 5]
      BY <3>4, <3>5, NumberOf6, SMT
    <3>7. Number(s, k, k + 5) = e.usec
      BY <3>2, <3>3, <3>6, SMT
    <3>8. z = h + 23
      BY <2>1, <3>2, <3>3
    <3>9. z - 1 = k + 5 /\ y + 16 = k
      BY <1>4, <2>1, <3>4, <3>8 DEF k
    <3>10. QED
      BY <3>1, <3>7, <3>8, <3>9
  <2>4. QED
    BY <2>2, <2>3
<1> HIDE DEF z
<1>7. /\ Number(s, y + 1, y + 2) = e.mon /\ Number(s, y + 4, y + 5) = e.mday
      /\ Number(s, y + 7, y + 8) = e.hour /\ Number(s, y + 10, y + 11) = e.min
      /\ Number(s, y + 13, y + 14) = e.sec
  <2>1. /\ SaysTwo(s, h + 1, e.mon) /\ SaysTwo(s, h + 4, e.mday)
        /\ SaysTwo(s, h + 7, e.hour) /\ SaysTwo(s, h + 10, e.min) /\ SaysTwo(s, h + 13, e.sec)
    BY <1>1 DEF SaysUpTo
  <2>2. /\ Number(s, (h + 1) + 1, (h + 1) + 2) = e.mon
        /\ Number(s, (h + 4) + 1, (h + 4) + 2) = e.mday
        /\ Number(s, (h + 7) + 1, (h + 7) + 2) = e.hour
        /\ Number(s, (h + 10) + 1, (h + 10) + 2) = e.min
        /\ Number(s, (h + 13) + 1, (h + 13) + 2) = e.sec
    <3>1. h + 1 \in Nat /\ h + 4 \in Nat /\ h + 7 \in Nat /\ h + 10 \in Nat /\ h + 13 \in Nat
      BY <1>4
    <3>2. QED
      BY <2>1, <3>1, TwoSaid, Zenon
  <2>3. /\ (h + 1) + 1 = y + 1 /\ (h + 1) + 2 = y + 2 /\ (h + 4) + 1 = y + 4
        /\ (h + 4) + 2 = y + 5 /\ (h + 7) + 1 = y + 7 /\ (h + 7) + 2 = y + 8
        /\ (h + 10) + 1 = y + 10 /\ (h + 10) + 2 = y + 11
        /\ (h + 13) + 1 = y + 13 /\ (h + 13) + 2 = y + 14
    BY <1>4, <1>5
  <2>4. QED
    BY <2>2, <2>3, Zenon
<1> DEFINE g == IF s[z] = Zulu THEN 0
                ELSE (IF s[z] = Plus THEN 1 ELSE -1)
                       * (3600 * Number(s, z + 1, z + 2) + 60 * Number(s, z + 3, Len(s)))
<1>8. g = e.gmtoff - (e.gmtoff % 60)
  <2>0. /\ z \in Nat /\ Len(s) = z - 1 + Len(o)
        /\ \A i \in 1..Len(o) : s[z - 1 + i] = o[i]
    BY <1>1, <1>4, <1>6 DEF OffsetAt, h
  <2>1. s[z] = o[1]
    <3>1. s[z - 1 + 1] = o[1]
      BY <1>3, <2>0
    <3>2. QED
      BY <2>0, <3>1
  <2>2. CASE e.gmtoff = 0
    <3>1. o[1] = Zulu
      BY <2>2 DEF o, Offset
    <3>2. e.gmtoff - (e.gmtoff % 60) = 0
      BY <2>2
    <3>3. QED
      BY <2>1, <3>1, <3>2
  <2>3. CASE e.gmtoff # 0
    <3> DEFINE hours   == Quotient(e.gmtoff, 3600)
               minutes == Quotient(Remainder(e.gmtoff, 3600), 60)
    <3>1. /\ o[1] = Plus /\ (Len(o) = 3 \/ Len(o) = 5) /\ SaysTwo(o, 1, hours)
          /\ IF Len(o) = 5 THEN SaysTwo(o, 3, minutes) ELSE minutes = 0
      BY <1>2, <2>3, OffsetSays DEF o
    <3>2. /\ hours \in Int /\ minutes \in Int
          /\ 3600 * hours + 60 * minutes = e.gmtoff - (e.gmtoff % 60)
      <4>1. /\ hours = e.gmtoff \div 3600
            /\ minutes = (e.gmtoff - 3600 * (e.gmtoff \div 3600)) \div 60
        BY <1>2 DEF Quotient, Remainder
      <4> HIDE DEF hours, minutes
      <4>2. QED
        BY <1>2, <4>1
    <3> HIDE DEF hours, minutes
    <3>3. Number(s, z + 1, z + 2) = hours
      <4>1. s[z - 1 + 2] = o[2] /\ s[z - 1 + 3] = o[3]
        BY <2>0, <3>1
      <4>2. s[z + 1] = o[1 + 1] /\ s[z + 2] = o[1 + 2]
        BY <2>0, <4>1
      <4>3. SaysTwo(s, z, hours)
        BY <3>1, <4>2 DEF SaysTwo
      <4>4. QED
        BY <2>0, <4>3, TwoSaid
    <3>4. Number(s, z + 3, Len(s)) = minutes
      <4>1. CASE Len(o) = 5
        <5>1. s[z - 1 + 4] = o[4] /\ s[z - 1 + 5] = o[5]
          BY <2>0, <4>1
        <5>2. s[(z + 2) + 1] = o[3 + 1] /\ s[(z + 2) + 2] = o[3 + 2]
          BY <2>0, <5>1
        <5>3. SaysTwo(s, z + 2, minutes)
          BY <3>1, <4>1, <5>2 DEF SaysTwo
        <5>4. z + 2 \in Nat /\ (z + 2) + 1 = z + 3 /\ (z + 2) + 2 = Len(s)
          BY <2>0, <4>1
        <5>5. Number(s, (z + 2) + 1, (z + 2) + 2) = minutes
          BY <5>3, <5>4, TwoSaid
        <5>6. QED
          BY <5>4, <5>5, Zenon
      <4>2. CASE Len(o) # 5
        <5>1. Len(s) = z + 2 /\ z + 3 \in Nat \ {0} /\ Len(s) \in Nat /\ Len(s) < z + 3
          <6>1. Len(o) = 3
            BY <3>1, <4>2, Zenon
          <6>2. Len(s) = z - 1 + 3
            BY <2>0, <6>1, Zenon
          <6>3. QED
            BY <2>0, <6>2
        <5>2. QED
          BY <3>1, <4>2, <5>1, NumberStep
      <4>3. QED
        BY <4>1, <4>2
    <3>5. QED
      BY <2>1, <3>1, <3>2, <3>3, <3>4 DEF Plus, Zulu
  <2>4. QED
    BY <2>2, <2>3
<1>9. Saying(s) = [year |-> e.year, mon |-> e.mon, mday |-> e.mday, hour |-> e.hour,
                   min |-> e.min, sec |-> e.sec, usec |-> e.usec,
                   gmtoff |-> e.gmtoff - (e.gmtoff % 60)]
  <2>1. Saying(s) = [year |-> Number(s, 1, y - 1), mon |-> Number(s, y + 1, y + 2),
        mday |-> Number(s, y + 4, y + 5), hour |-> Number(s, y + 7, y + 8),
        min |-> Number(s, y + 10, y + 11), sec |-> Number(s, y + 13, y + 14),
        usec |-> Number(s, y + 16, z - 1),
        gmtoff |-> g]
    BY Zenon DEF Saying, y, z
  <2> HIDE DEF g
  <2>2. QED
    BY <1>5, <1>6, <1>7, <1>8, <2>1, Zenon
<1>10. QED
  BY <1>9, FieldsExcept, Zenon DEF s

-----------------------------------------------------------------------------
(* The characters of a date *)

LEMMA LegibleAdded ==
    ASSUME NEW p \in Seq(Legible), NEW q \in Seq(Legible)
    PROVE  p \o q \in Seq(Legible)
BY ConcatProperties

\* The separators of a date are legible characters.
LEMMA CharacterLegible ==
    /\ <<Minus>> \in Seq(Legible) /\ <<Space>> \in Seq(Legible) /\ <<Colon>> \in Seq(Legible)
    /\ <<Plus>> \in Seq(Legible) /\ <<Zulu>> \in Seq(Legible) /\ <<>> \in Seq(Legible)
<1>1. {Minus, Space, Colon, Plus, Zulu} \subseteq Legible
  BY DEF Legible
<1>2. QED
  BY <1>1

\* Two digits are legible characters.
LEMMA TwoLegible ==
    ASSUME NEW n \in 0..99
    PROVE  Two(n) \in Seq(Legible)
<1>1. Two(n)[1] \in 0..9 /\ Two(n)[2] \in 0..9
  BY TwoDigits
<1>2. Quotient(n, 10) \in Legible /\ Remainder(n, 10) \in Legible
  BY <1>1 DEF Two, Legible
<1>3. QED
  BY <1>2 DEF Two

\* The year is written in legible characters.
LEMMA YearLegible ==
    ASSUME NEW y \in Nat, y <= LongYear
    PROVE  Year(y) \in Seq(Legible)
<1>1. /\ Place(y, 1) \in Legible /\ Place(y, 10) \in Legible /\ Place(y, 100) \in Legible
      /\ Place(y, 1000) \in Legible
  BY Places DEF Legible
<1>2. CASE y > 9999
  <2>1. Quotient(y, 10000) \in 0..9
    BY SMT DEF Quotient, LongYear
  <2>2. Quotient(y, 10000) \in Legible
    BY <2>1 DEF Legible
  <2>3. Year(y) = <<Quotient(y, 10000), Place(y, 1000), Place(y, 100), Place(y, 10), Place(y, 1)>>
    BY <1>2, SMT DEF Year
  <2>4. QED
    BY <1>1, <2>2, <2>3, SMT
<1>3. CASE ~(y > 9999)
  <2>1. Quotient(y, 1000) \in 0..9
    BY <1>3, SMT DEF Quotient
  <2>2. Quotient(y, 1000) \in Legible
    BY <2>1 DEF Legible
  <2>3. Year(y) = <<Quotient(y, 1000), Place(y, 100), Place(y, 10), Place(y, 1)>>
    BY <1>3, SMT DEF Year
  <2>4. QED
    BY <1>1, <2>2, <2>3, SMT
<1>4. QED
  BY <1>2, <1>3

\* The microseconds are written in legible characters.
LEMMA MicrosecondsLegible ==
    ASSUME NEW u \in Nat, u < APR_USEC_PER_SEC
    PROVE  Microseconds(u) \in Seq(Legible)
<1>1. /\ Place(u, 1) \in Legible /\ Place(u, 10) \in Legible /\ Place(u, 100) \in Legible
      /\ Place(u, 1000) \in Legible /\ Place(u, 10000) \in Legible
  BY Places DEF Legible
<1>2. Quotient(u, 100000) \in 0..9
  BY SMT DEF Quotient, APR_USEC_PER_SEC
<1>3. Quotient(u, 100000) \in Legible /\ Dot \in Legible
  BY <1>2 DEF Legible
<1>4. CASE u = 0
  BY <1>4, CharacterLegible DEF Microseconds
<1>5. CASE u # 0
  <2>1. Microseconds(u) = <<Dot, Quotient(u, 100000), Place(u, 10000),
          Place(u, 1000), Place(u, 100), Place(u, 10), Place(u, 1)>>
    BY <1>5, SMT DEF Microseconds
  <2>2. QED
    BY <1>1, <1>3, <2>1, SMT
<1>6. QED
  BY <1>4, <1>5

\* The offset is written in legible characters.
LEMMA OffsetLegible ==
    ASSUME NEW off \in Nat, off <= Day
    PROVE  Offset(off) \in Seq(Legible)
<1> DEFINE minutes == Quotient(Remainder(off, 3600), 60)
           hours   == Quotient(off, 3600)
           rest    == IF minutes > 0 THEN Two(minutes) ELSE <<>>
<1>1. hours \in 0..99 /\ minutes \in 0..99
  BY SMT DEF Quotient, Remainder, Day
<1>2. Offset(off) = IF off = 0 THEN <<Zulu>>
                    ELSE <<IF off > 0 THEN Plus ELSE Minus>> \o Two(hours) \o rest
  BY DEF Offset
<1> HIDE DEF minutes, hours
<1>3. rest \in Seq(Legible)
  BY <1>1, TwoLegible, CharacterLegible
<1>4. <<IF off > 0 THEN Plus ELSE Minus>> \in Seq(Legible)
  BY CharacterLegible
<1>5. Two(hours) \in Seq(Legible)
  BY <1>1, TwoLegible
<1> HIDE DEF rest
<1>6. <<IF off > 0 THEN Plus ELSE Minus>> \o Two(hours) \o rest \in Seq(Legible)
  BY <1>3, <1>4, <1>5, LegibleAdded, Zenon
<1>7. QED
  BY <1>2, <1>6, CharacterLegible, Zenon

\* The whole date is written in legible characters.
LEMMA FormatLegible ==
    ASSUME NEW e \in Fields, e.year \in 0..LongYear, e.gmtoff \in 0..Day
    PROVE  format_iso8601(e) \in Seq(Legible)
<1>1. /\ e.year \in Nat /\ e.year <= LongYear /\ e.gmtoff \in Nat /\ e.gmtoff <= Day
  BY LongYearType, DayType, SMT
<1>2. Year(e.year) \in Seq(Legible) /\ Offset(e.gmtoff) \in Seq(Legible)
  BY <1>1, YearLegible, OffsetLegible
<1>3. Microseconds(e.usec) \in Seq(Legible)
  BY FieldTypes, MicrosecondsLegible
<1>4. /\ Two(e.mon) \in Seq(Legible) /\ Two(e.mday) \in Seq(Legible)
      /\ Two(e.hour) \in Seq(Legible) /\ Two(e.min) \in Seq(Legible)
      /\ Two(e.sec) \in Seq(Legible)
  BY FieldTypes, TwoLegible
<1> DEFINE p1 == Year(e.year) \o <<Minus>> \o Two(e.mon) \o <<Minus>>
           p2 == p1 \o Two(e.mday) \o <<Space>> \o Two(e.hour)
           p3 == p2 \o <<Colon>> \o Two(e.min) \o <<Colon>>
           p4 == p3 \o Two(e.sec) \o Microseconds(e.usec) \o Offset(e.gmtoff)
<1>5. p1 \in Seq(Legible)
  BY <1>2, <1>4, CharacterLegible, LegibleAdded, Zenon
<1> HIDE DEF p1
<1>6. p2 \in Seq(Legible)
  BY <1>4, <1>5, CharacterLegible, LegibleAdded, Zenon
<1> HIDE DEF p2
<1>7. p3 \in Seq(Legible)
  BY <1>4, <1>6, CharacterLegible, LegibleAdded, Zenon
<1> HIDE DEF p3
<1>8. p4 \in Seq(Legible)
  BY <1>2, <1>3, <1>4, <1>7, LegibleAdded, Zenon
<1>9. QED
  BY <1>8, Zenon DEF format_iso8601, p1, p2, p3

\* A date says the instant it was made of, for every such instant: the parts are
\* where a reader of ISO 8601 looks for them, and their digits are those of the
\* fields (format_iso8601).
THEOREM DateSaysHolds == Iso8601Spec => []DateSays
<1>1. DateInv => DateSays
  <2> SUFFICES ASSUME DateInv, date # <<>>, exp.year \in 0..LongYear, exp.gmtoff \in 0..Day
               PROVE  /\ Saying(date) = [exp EXCEPT !.gmtoff = @ - (@ % 60)]
                      /\ date \in Seq(Legible)
    BY DEF DateSays
  <2>1. exp \in Fields /\ date = format_iso8601(exp)
    BY ExpAssumption DEF DateInv
  <2>2. exp.gmtoff >= 0
    BY DayType, SMT
  <2>3. QED
    BY <2>1, <2>2, FormatSaying, FormatLegible, Zenon
<1>2. QED
  BY <1>1, DateHolds, PTL
=============================================================================
