--------------------------- MODULE TaiconvProofs ---------------------------
(***************************************************************************)
(* Proofs about Taiconv: mapped or read, the output is that of the whole   *)
(* text, with each label replaced.                                         *)
(*                                                                         *)
(* What the output of a text is to be is defined by recursion over its     *)
(* positions, from the last to the first.  The proof gives the output of   *)
(* what is still to come a name, Rest, shows that it satisfies the         *)
(* equation it is defined by, and then that what was written and the rest  *)
(* of what was not are always the output of the whole.                     *)
(*                                                                         *)
(* Of stamps it shows that digits are read as the number they were written *)
(* for and sort like it, and that the two conversions give a microsecond   *)
(* more than the clock's reading.                                          *)
(***************************************************************************)
EXTENDS Taiconv, SequenceTheorems, WellFoundedInduction, TLAPS

-----------------------------------------------------------------------------
(* Induction, stated of a set: the form that needs no operator parameter *)

LEMMA LeastNat ==
    ASSUME NEW S, S \subseteq Nat, S # {}
    PROVE  \E m \in S : \A n \in S : m <= n
<1>1. IsWellFoundedOn({ss \in Nat \X Nat : ss[1] < ss[2]}, Nat)
  BY NatLessThanWellFounded DEF OpToRel
<1>2. PICK m \in S : \A n \in S : <<n, m>> \notin {ss \in Nat \X Nat : ss[1] < ss[2]}
  BY <1>1, WFMin
<1>3. \A n \in S : ~(n < m)
  BY <1>2
<1>4. QED
  BY <1>3

\* A set that holds zero, and the successor of each number it holds, holds every number.
LEMMA EveryNat ==
    ASSUME NEW S, 0 \in S, \A n \in S \cap Nat : n + 1 \in S
    PROVE  Nat \subseteq S
<1> SUFFICES ASSUME Nat \ S # {} PROVE FALSE
  OBVIOUS
<1>1. PICK m \in Nat \ S : \A n \in Nat \ S : m <= n
  BY LeastNat
<1>2. m - 1 \in Nat /\ ~(m <= m - 1)
  BY <1>1
<1>3. m - 1 \in S
  BY <1>1, <1>2
<1>4. QED
  BY <1>1, <1>2, <1>3

\* Min of a nonempty set of numbers is its least element.
LEMMA MinIs ==
    ASSUME NEW S, S \subseteq Nat, S # {}
    PROVE  Min(S) \in S /\ \A n \in S : Min(S) <= n
BY LeastNat DEF Min

\* Max of a nonempty bounded set of numbers is its greatest element.
LEMMA MaxIs ==
    ASSUME NEW b \in Nat, NEW S, S \subseteq 0..b, S # {}
    PROVE  Max(S) \in S /\ \A n \in S : n <= Max(S)
<1> DEFINE T == {b - n : n \in S}
<1>1. T \subseteq Nat /\ T # {}
  <2>1. \A n \in S : b - n \in Nat
    OBVIOUS
  <2>2. T \subseteq Nat
    BY <2>1, Zenon
  <2>3. T # {}
    BY Zenon
  <2>4. QED
    BY <2>2, <2>3
<1>2. PICK m \in T : \A n \in T : m <= n
  BY <1>1, LeastNat
<1>3. PICK x \in S : m = b - x
  BY <1>2
<1>4. \A n \in S : n <= x
  BY <1>2, <1>3
<1>5. QED
  BY <1>4 DEF Max

-----------------------------------------------------------------------------
(* Labels *)

LEMMA Formats ==
    /\ NGIM_TAI_FORMAT \in Nat /\ NGIM_TAIN_FORMAT \in Nat
    /\ 2 <= NGIM_TAI_FORMAT /\ NGIM_TAI_FORMAT < NGIM_TAIN_FORMAT
BY WidthAssumption DEF NGIM_TAI_FORMAT, NGIM_TAIN_FORMAT

\* The characters of a log are numbers; an @ and a newline are no digits.
LEMMA Characters ==
    /\ Character \subseteq Int
    /\ At \in Character /\ Newline \in Character
    /\ ~is_hex_nibble(At) /\ ~is_hex_nibble(Newline) /\ At # Newline
BY WidthAssumption DEF Character, Digit, At, Newline, Other, is_hex_nibble

\* The digits that follow a position: as many as there are.
LEMMA DigitsAtIs ==
    ASSUME NEW s \in Seq(Character), NEW i \in 1..Len(s)
    PROVE  LET n == DigitsAt(s, i)
           IN /\ n \in 0..Len(s) - i
              /\ \A k \in i + 1..i + n : is_hex_nibble(s[k])
              /\ \A m \in 0..Len(s) - i :
                   (\A k \in i + 1..i + m : is_hex_nibble(s[k])) => m <= n
<1> DEFINE S == {n \in 0..Len(s) - i : \A k \in i + 1..i + n : is_hex_nibble(s[k])}
<1>1. Len(s) - i \in Nat /\ S \subseteq 0..Len(s) - i
  OBVIOUS
<1>2. 0 \in S
  BY <1>1
<1> HIDE DEF S
<1>3. Max(S) \in S /\ \A n \in S : n <= Max(S)
  BY <1>1, <1>2, MaxIs
<1>4. DigitsAt(s, i) = Max(S)
  BY DEF DigitsAt, S
<1>5. QED
  BY <1>3, <1>4 DEF S

\* A run: an "@" and digits, as long as convert_buffer is given them.
Run(s, i, j) ==
    /\ i \in 1..Len(s) /\ j \in i..Len(s)
    /\ s[i] = At /\ \A k \in i + 1..j : is_hex_nibble(s[k])

\* A run that ends at the end of the digits, or is as long as a long label.
Whole(s, i, j) ==
    /\ Run(s, i, j)
    /\ j = Len(s) \/ ~is_hex_nibble(s[j + 1]) \/ j - i + 1 >= NGIM_TAIN_FORMAT

\* A run of digits after an @ is counted up to the length of a long label.
LEMMA RunDigits ==
    ASSUME NEW s \in Seq(Character), NEW i \in Nat, NEW j \in Nat, Whole(s, i, j)
    PROVE  /\ DigitsAt(s, i) >= j - i
           /\ j - i + 1 < NGIM_TAIN_FORMAT => DigitsAt(s, i) = j - i
<1>1. i \in 1..Len(s) /\ j \in i..Len(s) /\ \A k \in i + 1..j : is_hex_nibble(s[k])
  BY DEF Whole, Run
<1> DEFINE n == DigitsAt(s, i)
<1>2. /\ n \in 0..Len(s) - i
      /\ \A k \in i + 1..i + n : is_hex_nibble(s[k])
      /\ \A m \in 0..Len(s) - i : (\A k \in i + 1..i + m : is_hex_nibble(s[k])) => m <= n
  BY <1>1, DigitsAtIs
<1> HIDE DEF n
<1>3. j - i \in 0..Len(s) - i /\ i + (j - i) = j
  BY <1>1
<1>4. j - i <= n
  BY <1>1, <1>2, <1>3
<1>5. CASE j - i + 1 < NGIM_TAIN_FORMAT
  <2>1. j = Len(s) \/ ~is_hex_nibble(s[j + 1])
    BY <1>1, <1>5, Formats DEF Whole
  <2>2. ~(j + 1 \in i + 1..i + n)
    BY <1>1, <1>2, <2>1
  <2>3. QED
    BY <1>1, <1>2, <1>4, <2>2 DEF n
<1>6. QED
  BY <1>1, <1>2, <1>4, <1>5, Formats DEF n

\* Where a part of a sequence is the same, so is what it begins with.
LEMMA PartOfPart ==
    ASSUME NEW s \in Seq(Character), NEW i \in 1..Len(s), NEW j \in i..Len(s),
           NEW m \in Nat \ {0}, NEW n \in Nat, i + n - 1 <= j
    PROVE  SubSeq(SubSeq(s, i, j), m, n) = SubSeq(s, i + m - 1, i + n - 1)
<1>1. /\ Len(SubSeq(s, i, j)) = j - i + 1
      /\ \A k \in 1..j - i + 1 : SubSeq(s, i, j)[k] = s[i + k - 1]
      /\ SubSeq(s, i, j) \in Seq(Character)
  BY SubSeqProperties
<1>2. /\ \A k \in m..n : SubSeq(s, i, j)[k] \in Character
      /\ \A k \in i + m - 1..i + n - 1 : s[k] \in Character
  BY <1>1
<1> DEFINE p == SubSeq(SubSeq(s, i, j), m, n)
           q == SubSeq(s, i + m - 1, i + n - 1)
<1>3. /\ p \in Seq(Character)
      /\ Len(p) = IF m <= n THEN n - m + 1 ELSE 0
      /\ \A k \in 1..n - m + 1 : p[k] = SubSeq(s, i, j)[m + k - 1]
  BY <1>2, SubSeqProperties
<1>4. /\ q \in Seq(Character)
      /\ Len(q) = IF m <= n THEN n - m + 1 ELSE 0
      /\ \A k \in 1..n - m + 1 : q[k] = s[(i + m - 1) + k - 1]
  BY <1>2, SubSeqProperties
<1> HIDE DEF p, q
<1>5. \A k \in 1..Len(p) : p[k] = q[k]
  BY <1>1, <1>3, <1>4
<1>6. p = q
  BY <1>3, <1>4, <1>5, SeqEqual
<1>7. QED
  BY <1>6 DEF p, q

\* What is read of a text as a label depends on no more than a long label of it.
LEMMA UnformatPart ==
    ASSUME NEW s \in Seq(Character), NEW i \in 1..Len(s), NEW j \in i..Len(s)
    PROVE  /\ NGIM_TAI_FORMAT <= j - i + 1
                => ngim_tai_unformat(SubSeq(s, i, j)) = ngim_tai_unformat(SubSeq(s, i, Len(s)))
           /\ NGIM_TAIN_FORMAT <= j - i + 1
                => ngim_tain_unformat(SubSeq(s, i, j)) = ngim_tain_unformat(SubSeq(s, i, Len(s)))
<1>0. Len(s) \in i..Len(s)
  OBVIOUS
<1>1. ASSUME NGIM_TAI_FORMAT <= j - i + 1
      PROVE  ngim_tai_unformat(SubSeq(s, i, j)) = ngim_tai_unformat(SubSeq(s, i, Len(s)))
  <2> DEFINE n == NGIM_TAI_FORMAT
  <2>1. n \in Nat /\ i + n - 1 <= j /\ i + n - 1 <= Len(s)
    BY <1>1, Formats
  <2> HIDE DEF n
  <2>2. SubSeq(SubSeq(s, i, j), 2, n) = SubSeq(s, i + 2 - 1, i + n - 1)
    BY <2>1, PartOfPart
  <2>3. SubSeq(SubSeq(s, i, Len(s)), 2, n) = SubSeq(s, i + 2 - 1, i + n - 1)
    BY <1>0, <2>1, PartOfPart
  <2>4. QED
    BY <2>2, <2>3 DEF ngim_tai_unformat, n
<1>2. ASSUME NGIM_TAIN_FORMAT <= j - i + 1
      PROVE  ngim_tain_unformat(SubSeq(s, i, j)) = ngim_tain_unformat(SubSeq(s, i, Len(s)))
  <2> DEFINE m == NGIM_TAI_FORMAT + 1
             n == NGIM_TAIN_FORMAT
  <2>1. /\ m \in Nat \ {0} /\ n \in Nat /\ i + n - 1 <= j /\ i + n - 1 <= Len(s)
        /\ NGIM_TAI_FORMAT <= j - i + 1
    BY <1>2, Formats
  <2> HIDE DEF m, n
  <2>2. SubSeq(SubSeq(s, i, j), m, n) = SubSeq(s, i + m - 1, i + n - 1)
    BY <2>1, PartOfPart
  <2>3. SubSeq(SubSeq(s, i, Len(s)), m, n) = SubSeq(s, i + m - 1, i + n - 1)
    BY <1>0, <2>1, PartOfPart
  <2>4. QED
    BY <1>1, <2>1, <2>2, <2>3 DEF ngim_tain_unformat, m, n
<1>3. QED
  BY <1>1, <1>2

\* What convert_buffer makes of a run is the label that the text has there.
LEMMA RunConverts ==
    ASSUME NEW s \in Seq(Character), NEW i \in Nat, NEW j \in Nat, Whole(s, i, j)
    PROVE  LET p == SubSeq(s, i, j)
           IN /\ Len(p) = j - i + 1
              /\ convert_buffer(p).unused \in 0..Len(p)
              /\ Converts(p) => /\ LabelAt(s, i) = Len(p) - convert_buffer(p).unused
                                /\ LabelAt(s, i) \in 2..Len(p)
                                /\ DateAt(s, i) = convert_buffer(p).date
              /\ ~Converts(p) => LabelAt(s, i) = 0
<1> DEFINE p    == SubSeq(s, i, j)
           rest == SubSeq(s, i, Len(s))
           n    == 1 + DigitsAt(s, i)
           long == NGIM_TAIN_FORMAT
           brief == NGIM_TAI_FORMAT
<1>1. i \in 1..Len(s) /\ j \in i..Len(s) /\ s[i] = At
  BY DEF Whole, Run
<1>2. Len(p) = j - i + 1
  <2>1. \A k \in i..j : s[k] \in Character
    BY <1>1
  <2>2. QED
    BY <1>1, <2>1, SubSeqProperties
<1>3. /\ n >= Len(p)
      /\ Len(p) < long => n = Len(p)
      /\ n \in Nat /\ Len(p) \in Nat
  BY <1>1, <1>2, RunDigits, DigitsAtIs, Formats
<1>4. LabelAt(s, i) = IF n >= long
                      THEN IF ngim_tain_valid(ngim_tain_unformat(rest)) THEN long ELSE 0
                      ELSE IF n >= brief /\ ngim_tai_valid(ngim_tai_unformat(rest))
                      THEN brief ELSE 0
  BY <1>1 DEF LabelAt
<1>5. DateAt(s, i) = Date(IF LabelAt(s, i) = long THEN ngim_tain_to_apr(ngim_tain_unformat(rest))
                          ELSE ngim_tai_to_apr(ngim_tai_unformat(rest)))
  BY DEF DateAt
<1>6. /\ brief <= Len(p) => ngim_tai_unformat(p) = ngim_tai_unformat(rest)
      /\ long <= Len(p) => ngim_tain_unformat(p) = ngim_tain_unformat(rest)
  BY <1>1, <1>2, UnformatPart
<1>7. long \in Nat /\ brief \in Nat /\ 2 <= brief /\ brief < long
  BY Formats
<1> HIDE DEF p, rest, n
<1>8. convert_buffer(p) =
        IF Len(p) >= long /\ ngim_tain_valid(ngim_tain_unformat(p))
        THEN [date |-> Date(ngim_tain_to_apr(ngim_tain_unformat(p))), unused |-> Len(p) - long]
        ELSE IF Len(p) \in brief..long - 1 /\ ngim_tai_valid(ngim_tai_unformat(p))
        THEN [date |-> Date(ngim_tai_to_apr(ngim_tai_unformat(p))), unused |-> Len(p) - brief]
        ELSE [date |-> <<>>, unused |-> 0]
  BY DEF convert_buffer
<1>9. \A a : Date(a) # <<>>
  BY DEF Date
<1> HIDE DEF long, brief
<1>10. CASE Len(p) >= long
  <2>1. n >= long /\ ~(Len(p) \in brief..long - 1)
    BY <1>3, <1>7, <1>10
  <2>2. CASE ngim_tain_valid(ngim_tain_unformat(p))
    <3>1. /\ convert_buffer(p).date = Date(ngim_tain_to_apr(ngim_tain_unformat(p)))
          /\ convert_buffer(p).unused = Len(p) - long
      BY <1>8, <1>10, <2>2
    <3>2. Converts(p)
      BY <1>9, <3>1 DEF Converts
    <3>3. LabelAt(s, i) = long
      BY <1>3, <1>4, <1>6, <1>7, <1>10, <2>1, <2>2
    <3>4. DateAt(s, i) = convert_buffer(p).date
      BY <1>5, <1>6, <1>7, <1>10, <3>1, <3>3
    <3>5. QED
      BY <1>2, <1>3, <1>7, <1>10, <3>1, <3>2, <3>3, <3>4 DEF p
  <2>3. CASE ~ngim_tain_valid(ngim_tain_unformat(p))
    <3>1. convert_buffer(p).date = <<>> /\ convert_buffer(p).unused = 0
      BY <1>8, <1>10, <2>1, <2>3
    <3>2. LabelAt(s, i) = 0
      BY <1>3, <1>4, <1>6, <1>7, <1>10, <2>1, <2>3
    <3>3. QED
      BY <1>2, <1>3, <3>1, <3>2 DEF Converts, p
  <2>4. QED
    BY <2>2, <2>3
<1>11. CASE ~(Len(p) >= long)
  <2>1. n = Len(p) /\ ~(n >= long)
    BY <1>3, <1>7, <1>11
  <2>2. CASE Len(p) >= brief /\ ngim_tai_valid(ngim_tai_unformat(p))
    <3>1. Len(p) \in brief..long - 1
      BY <1>3, <1>7, <1>11, <2>2
    <3>2. /\ convert_buffer(p).date = Date(ngim_tai_to_apr(ngim_tai_unformat(p)))
          /\ convert_buffer(p).unused = Len(p) - brief
      BY <1>8, <1>11, <2>2, <3>1
    <3>3. Converts(p)
      BY <1>9, <3>2 DEF Converts
    <3>4. LabelAt(s, i) = brief
      BY <1>3, <1>4, <1>6, <1>7, <2>1, <2>2
    <3>5. DateAt(s, i) = convert_buffer(p).date
      BY <1>5, <1>6, <1>7, <2>2, <3>2, <3>4
    <3>6. QED
      BY <1>2, <1>3, <1>7, <2>2, <3>2, <3>3, <3>4, <3>5 DEF p
  <2>3. CASE ~(Len(p) >= brief /\ ngim_tai_valid(ngim_tai_unformat(p)))
    <3>1. ~(Len(p) \in brief..long - 1 /\ ngim_tai_valid(ngim_tai_unformat(p)))
      BY <1>3, <1>7, <2>3
    <3>2. convert_buffer(p).date = <<>> /\ convert_buffer(p).unused = 0
      BY <1>8, <1>11, <3>1
    <3>3. LabelAt(s, i) = 0
      BY <1>3, <1>4, <1>6, <1>7, <2>1, <2>3
    <3>4. QED
      BY <1>2, <1>3, <3>2, <3>3 DEF Converts, p
  <2>4. QED
    BY <2>2, <2>3
<1>12. QED
  BY <1>10, <1>11

\* A label is part of the text.
LEMMA LabelAtRange ==
    ASSUME NEW s \in Seq(Character), NEW i \in 1..Len(s)
    PROVE  /\ LabelAt(s, i) \in 0..Len(s) - i + 1
           /\ LabelAt(s, i) > 0 => s[i] = At
<1> DEFINE n == 1 + DigitsAt(s, i)
<1>1. n \in 1..Len(s) - i + 1
  <2>1. DigitsAt(s, i) \in 0..Len(s) - i
    BY DigitsAtIs
  <2>2. QED
    BY <2>1
<1>2. \/ LabelAt(s, i) = 0
      \/ s[i] = At /\ n >= NGIM_TAIN_FORMAT /\ LabelAt(s, i) = NGIM_TAIN_FORMAT
      \/ s[i] = At /\ n >= NGIM_TAI_FORMAT /\ LabelAt(s, i) = NGIM_TAI_FORMAT
  BY Zenon DEF LabelAt
<1> HIDE DEF n
<1>3. QED
  BY <1>1, <1>2, Formats

-----------------------------------------------------------------------------
(* Values *)

Values(d, n, v) == v = [i \in 0..n |-> IF i = 0 THEN 0 ELSE Base * v[i - 1] + d[i]]

\* A function that gives the value of each beginning of d exists.
LEMMA ValuesExists ==
    ASSUME NEW d, NEW m \in Nat
    PROVE  \E v : Values(d, m, v)
<1> DEFINE S == {n \in Nat : \E f : Values(d, n, f)}
<1>1. 0 \in S
  <2>1. Values(d, 0, [i \in 0..0 |-> 0])
    BY DEF Values
  <2>2. QED
    BY <2>1
<1>2. ASSUME NEW n \in S \cap Nat PROVE n + 1 \in S
  <2>1. PICK f : Values(d, n, f)
    OBVIOUS
  <2> DEFINE g == [i \in 0..n + 1 |-> IF i = 0 THEN 0 ELSE Base * f[i - 1] + d[i]]
  <2>2. \A i \in 0..n : f[i] = IF i = 0 THEN 0 ELSE Base * f[i - 1] + d[i]
    BY <2>1 DEF Values
  <2>3. \A i \in 0..n : g[i] = f[i]
    BY <2>2
  <2>4. \A i \in 0..n + 1 : i # 0 => i - 1 \in 0..n
    OBVIOUS
  <2>5. Values(d, n + 1, g)
    BY <2>3, <2>4 DEF Values
  <2>6. QED
    BY <2>5
<1>3. QED
  BY <1>1, <1>2, EveryNat

\* The value of digits: what is read so far is shifted, and the next one is added.
LEMMA ValueIs ==
    ASSUME NEW d \in Seq(Int)
    PROVE  \E v \in [0..Len(d) -> Int] :
             /\ v[0] = 0
             /\ \A i \in 1..Len(d) : v[i] = Base * v[i - 1] + d[i]
             /\ Value(d) = v[Len(d)]
<1> DEFINE v == CHOOSE f : Values(d, Len(d), f)
<1>1. Values(d, Len(d), v)
  BY ValuesExists, LenProperties
<1>2. Value(d) = v[Len(d)]
  BY DEF Value, Values
<1>3. Len(d) \in Nat /\ Base \in Int /\ \A i \in 1..Len(d) : d[i] \in Int
  BY LenProperties, ElementOfSeq, WidthAssumption
<1> HIDE DEF v
<1>4. v[0] = 0 /\ \A i \in 1..Len(d) : v[i] = Base * v[i - 1] + d[i]
  <2>1. \A i \in 0..Len(d) : v[i] = IF i = 0 THEN 0 ELSE Base * v[i - 1] + d[i]
    BY <1>1 DEF Values
  <2>2. QED
    BY <1>3, <2>1
<1> DEFINE S == {n \in Nat : n <= Len(d) => v[n] \in Int}
<1>5. 0 \in S
  BY <1>4
<1>6. ASSUME NEW n \in S \cap Nat PROVE n + 1 \in S
  <2> SUFFICES ASSUME n + 1 <= Len(d) PROVE v[n + 1] \in Int
    OBVIOUS
  <2>1. v[n] \in Int /\ n + 1 \in 1..Len(d) /\ (n + 1) - 1 = n
    BY <1>3
  <2>2. v[n + 1] = Base * v[n] + d[n + 1]
    BY <1>4, <2>1
  <2>3. QED
    BY <1>3, <2>1, <2>2
<1> HIDE DEF S
<1>7. \A i \in 0..Len(d) : v[i] \in Int
  <2>1. Nat \subseteq S
    BY <1>5, <1>6, EveryNat
  <2>2. QED
    BY <1>3, <2>1 DEF S
<1>8. v \in [0..Len(d) -> Int]
  BY <1>1, <1>7 DEF Values
<1>9. QED
  BY <1>2, <1>4, <1>8

\* The value of a sequence of digits is an integer.
LEMMA ValueType ==
    ASSUME NEW d \in Seq(Int)
    PROVE  Value(d) \in Int
<1>1. Len(d) \in 0..Len(d)
  BY LenProperties
<1>2. QED
  BY <1>1, ValueIs

Item == [char: Character] \cup [date: Int]

\* The time made from seconds and microseconds is an integer.
LEMMA AprTime ==
    ASSUME NEW s \in Int, NEW u \in Int
    PROVE  apr_time_make(s, u) \in Int
<1>1. Micro \in Int /\ AprLimit \in Nat \ {0}
  BY WidthAssumption
<1>2. s * Micro + u + AprLimit \in Int /\ 2 * AprLimit \in Nat \ {0}
  BY <1>1
<1>3. \A x \in Int, y \in Nat \ {0} : x % y \in Int
  OBVIOUS
<1>4. (s * Micro + u + AprLimit) % (2 * AprLimit) \in Int
  BY <1>2, <1>3
<1>5. QED
  BY <1>1, <1>4 DEF apr_time_make

\* What is shown for a text is made of characters and dates.
LEMMA BufferType ==
    ASSUME NEW s \in Seq(Character)
    PROVE  /\ convert_buffer(s).date \in Seq(Item)
           /\ convert_buffer(s).unused \in 0..Len(s)
<1>0. Len(s) \in Nat /\ \A k \in 1..Len(s) : s[k] \in Int
  BY LenProperties, ElementOfSeq, Characters
<1>1. ASSUME NGIM_TAI_FORMAT <= Len(s) PROVE ngim_tai_unformat(s) \in Int
  <2>1. \A k \in 2..NGIM_TAI_FORMAT : s[k] \in Int
    BY <1>0, <1>1, Formats
  <2>2. SubSeq(s, 2, NGIM_TAI_FORMAT) \in Seq(Int)
    BY <2>1, Formats, SubSeqProperties
  <2>3. QED
    BY <2>2, ValueType DEF ngim_tai_unformat
<1>2. ASSUME NGIM_TAIN_FORMAT <= Len(s)
      PROVE  ngim_tain_unformat(s).sec \in Int /\ ngim_tain_unformat(s).nano \in Int
  <2>1. \A k \in NGIM_TAI_FORMAT + 1..NGIM_TAIN_FORMAT : s[k] \in Int
    BY <1>0, <1>2, Formats
  <2>2. SubSeq(s, NGIM_TAI_FORMAT + 1, NGIM_TAIN_FORMAT) \in Seq(Int)
    BY <2>1, Formats, SubSeqProperties
  <2>3. Value(SubSeq(s, NGIM_TAI_FORMAT + 1, NGIM_TAIN_FORMAT)) \in Int
    BY <2>2, ValueType
  <2>4. ngim_tai_unformat(s) \in Int
    BY <1>0, <1>1, <1>2, Formats
  <2>5. QED
    BY <2>3, <2>4 DEF ngim_tain_unformat
<1>3. \A a \in Int : Date(a) \in Seq(Item)
  <2> SUFFICES ASSUME NEW a \in Int PROVE <<[date |-> a]>> \in Seq(Item)
    BY DEF Date
  <2>1. [date |-> a] \in Item
    BY DEF Item
  <2>2. QED
    BY <2>1
<1>4. ASSUME NGIM_TAI_FORMAT <= Len(s) PROVE Date(ngim_tai_to_apr(ngim_tai_unformat(s))) \in Seq(Item)
  <2>1. ngim_tai_unformat(s) - Epoch \in Int /\ 0 \in Int
    BY <1>1, <1>4, WidthAssumption
  <2>2. QED
    BY <1>3, <2>1, AprTime DEF ngim_tai_to_apr
<1>5. ASSUME NGIM_TAIN_FORMAT <= Len(s)
      PROVE  Date(ngim_tain_to_apr(ngim_tain_unformat(s))) \in Seq(Item)
  <2> DEFINE t == ngim_tain_unformat(s)
             u == (t.nano + Nano \div 2) \div Nano
  <2>1. t.sec \in Int /\ t.nano \in Int
    BY <1>2, <1>5
  <2>2. u \in Int
    <3>1. Nano \in Nat \ {0}
      BY WidthAssumption
    <3>2. t.nano + Nano \div 2 \in Int
      BY <2>1, <3>1
    <3>3. \A x \in Int, y \in Nat \ {0} : x \div y \in Int
      OBVIOUS
    <3>4. QED
      BY <3>1, <3>2, <3>3
  <2> HIDE DEF t
  <2>3. ngim_tain_to_apr(t) = IF u > Micro - 1 THEN apr_time_make(t.sec - Epoch + 1, 0)
                                             ELSE apr_time_make(t.sec - Epoch, u)
    BY DEF ngim_tain_to_apr
  <2> HIDE DEF u
  <2>4. t.sec - Epoch + 1 \in Int /\ t.sec - Epoch \in Int /\ 0 \in Int
    BY <2>1, WidthAssumption
  <2>5. apr_time_make(t.sec - Epoch + 1, 0) \in Int /\ apr_time_make(t.sec - Epoch, u) \in Int
    BY <2>2, <2>4, AprTime
  <2>6. ngim_tain_to_apr(t) \in Int
    BY <2>3, <2>5
  <2>7. QED
    BY <1>3, <2>6 DEF t
<1>6. <<>> \in Seq(Item)
  BY EmptySeq
<1>7. CASE Len(s) >= NGIM_TAIN_FORMAT /\ ngim_tain_valid(ngim_tain_unformat(s))
  <2>1. /\ convert_buffer(s).date = Date(ngim_tain_to_apr(ngim_tain_unformat(s)))
        /\ convert_buffer(s).unused = Len(s) - NGIM_TAIN_FORMAT
    BY <1>7 DEF convert_buffer
  <2>2. QED
    BY <1>0, <1>5, <1>7, <2>1, Formats
<1>8. CASE /\ ~(Len(s) >= NGIM_TAIN_FORMAT /\ ngim_tain_valid(ngim_tain_unformat(s)))
           /\ Len(s) \in NGIM_TAI_FORMAT..NGIM_TAIN_FORMAT - 1
           /\ ngim_tai_valid(ngim_tai_unformat(s))
  <2>1. /\ convert_buffer(s).date = Date(ngim_tai_to_apr(ngim_tai_unformat(s)))
        /\ convert_buffer(s).unused = Len(s) - NGIM_TAI_FORMAT
    BY <1>8, Zenon DEF convert_buffer
  <2>2. QED
    BY <1>0, <1>4, <1>8, <2>1, Formats
<1>9. CASE /\ ~(Len(s) >= NGIM_TAIN_FORMAT /\ ngim_tain_valid(ngim_tain_unformat(s)))
           /\ ~(/\ Len(s) \in NGIM_TAI_FORMAT..NGIM_TAIN_FORMAT - 1
                /\ ngim_tai_valid(ngim_tai_unformat(s)))
  <2>1. convert_buffer(s).date = <<>> /\ convert_buffer(s).unused = 0
    BY <1>9, Zenon DEF convert_buffer
  <2>2. QED
    BY <1>0, <1>6, <2>1
<1>10. QED
  BY <1>7, <1>8, <1>9

-----------------------------------------------------------------------------
(* Characters that are shown as they are *)

LEMMA PlainIs ==
    ASSUME NEW s \in Seq(Character)
    PROVE  /\ Plain(s) \in Seq(Item) /\ Len(Plain(s)) = Len(s)
           /\ \A k \in 1..Len(s) : Plain(s)[k] = [char |-> s[k]]
<1>1. Len(s) \in Nat /\ \A k \in 1..Len(s) : [char |-> s[k]] \in Item
  <2>1. Len(s) \in Nat /\ \A k \in 1..Len(s) : s[k] \in Character
    BY LenProperties, ElementOfSeq
  <2>2. QED
    BY <2>1 DEF Item
<1>2. QED
  BY <1>1 DEF Plain

\* Nothing is written as nothing.
LEMMA PlainEmpty == Plain(<<>>) = <<>>
<1>1. <<>> \in Seq(Character) /\ Len(<<>>) = 0
  BY EmptySeq
<1>2. Plain(<<>>) \in Seq(Item) /\ Len(Plain(<<>>)) = 0
  BY <1>1, PlainIs
<1>3. QED
  BY <1>2, EmptySeq

\* One character written as it is is a sequence of items.
LEMMA PlainOne ==
    ASSUME NEW c \in Character
    PROVE  <<c>> \in Seq(Character) /\ Plain(<<c>>) \in Seq(Item)
<1>1. <<c>> \in Seq(Character)
  OBVIOUS
<1>2. QED
  BY <1>1, PlainIs

\* Writing two texts one after the other is writing their concatenation.
LEMMA PlainConcat ==
    ASSUME NEW s \in Seq(Character), NEW t \in Seq(Character)
    PROVE  Plain(s \o t) = Plain(s) \o Plain(t)
<1>1. /\ s \o t \in Seq(Character) /\ Len(s \o t) = Len(s) + Len(t)
      /\ \A k \in 1..Len(s) + Len(t) :
           (s \o t)[k] = IF k <= Len(s) THEN s[k] ELSE t[k - Len(s)]
  BY ConcatProperties
<1>2. /\ Plain(s) \in Seq(Item) /\ Len(Plain(s)) = Len(s)
      /\ \A k \in 1..Len(s) : Plain(s)[k] = [char |-> s[k]]
  BY PlainIs
<1>3. /\ Plain(t) \in Seq(Item) /\ Len(Plain(t)) = Len(t)
      /\ \A k \in 1..Len(t) : Plain(t)[k] = [char |-> t[k]]
  BY PlainIs
<1>4. /\ Plain(s \o t) \in Seq(Item) /\ Len(Plain(s \o t)) = Len(s) + Len(t)
      /\ \A k \in 1..Len(s) + Len(t) : Plain(s \o t)[k] = [char |-> (s \o t)[k]]
  BY <1>1, PlainIs
<1>5. /\ Plain(s) \o Plain(t) \in Seq(Item)
      /\ Len(Plain(s) \o Plain(t)) = Len(s) + Len(t)
      /\ \A k \in 1..Len(s) + Len(t) :
           (Plain(s) \o Plain(t))[k] = IF k <= Len(s) THEN Plain(s)[k] ELSE Plain(t)[k - Len(s)]
  <2> DEFINE p == Plain(s)
             q == Plain(t)
  <2>1. p \in Seq(Item) /\ q \in Seq(Item) /\ Len(p) = Len(s) /\ Len(q) = Len(t)
    BY <1>2, <1>3
  <2> HIDE DEF p, q
  <2>2. /\ p \o q \in Seq(Item) /\ Len(p \o q) = Len(p) + Len(q)
        /\ \A k \in 1..Len(p) + Len(q) :
             (p \o q)[k] = IF k <= Len(p) THEN p[k] ELSE q[k - Len(p)]
    BY <2>1, ConcatProperties
  <2>3. /\ p \o q \in Seq(Item) /\ Len(p \o q) = Len(s) + Len(t)
        /\ \A k \in 1..Len(s) + Len(t) :
             (p \o q)[k] = IF k <= Len(s) THEN p[k] ELSE q[k - Len(s)]
    BY <2>1, <2>2, Zenon
  <2>4. QED
    BY <2>3 DEF p, q
<1>6. Len(s) \in Nat /\ Len(t) \in Nat
  BY LenProperties
<1>7. ASSUME NEW k \in 1..Len(s) + Len(t)
      PROVE  Plain(s \o t)[k] = (Plain(s) \o Plain(t))[k]
  <2>1. CASE k <= Len(s)
    BY <1>1, <1>2, <1>4, <1>5, <1>6, <2>1
  <2>2. CASE ~(k <= Len(s))
    <3>1. k - Len(s) \in 1..Len(t)
      BY <1>6, <2>2
    <3>2. (Plain(s) \o Plain(t))[k] = Plain(t)[k - Len(s)]
      BY <1>5, <2>2
    <3>3. (s \o t)[k] = t[k - Len(s)]
      BY <1>1, <2>2
    <3>4. Plain(s \o t)[k] = [char |-> (s \o t)[k]]
      BY <1>4
    <3>5. QED
      BY <1>3, <3>1, <3>2, <3>3, <3>4
  <2>3. QED
    BY <2>1, <2>2
<1>8. QED
  BY <1>4, <1>5, <1>7, SeqEqual

-----------------------------------------------------------------------------
(* What is to come *)

\* Labels are looked for at i; the label at i is replaced: it is one.
Sought(s, all, i) == all \/ i = 1 \/ s[i - 1] = Newline
Taken(s, all, i)  == LabelAt(s, i) > 0 /\ Sought(s, all, i)

\* The output from i on, when that from each later position is h.
RestFrom(s, all, i, h) ==
    IF i > Len(s) THEN <<>>
    ELSE IF Taken(s, all, i) THEN DateAt(s, i) \o h[i + LabelAt(s, i)]
    ELSE Plain(<<s[i]>>) \o h[i + 1]

\* The output from each position of s on, from m.
Rests(s, all, m, f) == f = [i \in m..Len(s) + 1 |-> RestFrom(s, all, i, f)]

Rest(s, all) == CHOOSE f : Rests(s, all, 1, f)

\* A function that gives the output from each place of s on exists.
LEMMA RestsExists ==
    ASSUME NEW s \in Seq(Character), NEW all
    PROVE  \E f : Rests(s, all, 1, f)
<1> DEFINE l == Len(s)
           S == {n \in Nat : n <= l => \E f : Rests(s, all, l + 1 - n, f)}
<1>0. l \in Nat
  BY LenProperties
<1>1. 0 \in S
  <2> DEFINE f == [i \in l + 1..l + 1 |-> <<>>]
  <2>1. \A i \in l + 1..l + 1 : i > l
    BY <1>0
  <2>2. \A i \in l + 1..l + 1 : RestFrom(s, all, i, f) = <<>>
    BY <2>1, Zenon DEF RestFrom
  <2>3. f = [i \in l + 1..l + 1 |-> RestFrom(s, all, i, f)]
    BY <2>2, Zenon
  <2>4. Rests(s, all, l + 1, f)
    BY <2>3, Zenon DEF Rests
  <2>5. l + 1 - 0 = l + 1
    BY <1>0
  <2> HIDE DEF f
  <2>6. QED
    BY <2>4, <2>5
<1>2. ASSUME NEW n \in S \cap Nat PROVE n + 1 \in S
  <2> SUFFICES ASSUME n + 1 <= l PROVE \E f : Rests(s, all, l + 1 - (n + 1), f)
    OBVIOUS
  <2> DEFINE m == l + 1 - n
  <2>0. m \in 2..l + 1 /\ l + 1 - (n + 1) = m - 1 /\ m - 1 \in 1..l
    BY <1>0
  <2>1. PICK f : Rests(s, all, m, f)
    BY <1>0
  <2> HIDE DEF m
  <2> DEFINE g == [i \in m - 1..l + 1 |-> RestFrom(s, all, i, f)]
  <2>2. \A i \in m..l + 1 : f[i] = RestFrom(s, all, i, f)
    BY <2>1, Zenon DEF Rests
  <2>3. \A i \in m..l + 1 : i \in m - 1..l + 1
    BY <1>0, <2>0
  <2>4. \A i \in m - 1..l + 1 : g[i] = RestFrom(s, all, i, f)
    BY Zenon
  <2> HIDE DEF g
  <2>5. \A i \in m..l + 1 : g[i] = f[i]
    BY <2>2, <2>3, <2>4, Zenon
  <2>6. \A i \in m - 1..l + 1 : RestFrom(s, all, i, f) = RestFrom(s, all, i, g)
    <3> SUFFICES ASSUME NEW i \in m - 1..l + 1
                 PROVE  RestFrom(s, all, i, f) = RestFrom(s, all, i, g)
      OBVIOUS
    <3>1. CASE i > l
      BY <3>1, Zenon DEF RestFrom
    <3>2. CASE ~(i > l)
      <4>1. i \in 1..l /\ i + 1 \in m..l + 1
        BY <1>0, <2>0, <3>2
      <4>2. ASSUME Taken(s, all, i) PROVE i + LabelAt(s, i) \in m..l + 1
        <5>1. LabelAt(s, i) \in 0..l - i + 1 /\ LabelAt(s, i) > 0
          BY <4>1, <4>2, LabelAtRange DEF Taken
        <5>2. QED
          BY <1>0, <2>0, <3>2, <4>1, <5>1
      <4>3. g[i + 1] = f[i + 1] /\ (Taken(s, all, i) => g[i + LabelAt(s, i)] = f[i + LabelAt(s, i)])
        BY <2>5, <4>1, <4>2, Zenon
      <4>4. QED
        BY <4>3, Zenon DEF RestFrom
    <3>3. QED
      BY <3>1, <3>2
  <2>7. g = [i \in m - 1..l + 1 |-> RestFrom(s, all, i, g)]
    BY <2>6, Zenon DEF g
  <2>8. Rests(s, all, m - 1, g)
    BY <2>7, Zenon DEF Rests
  <2>9. QED
    BY <2>0, <2>8
<1> HIDE DEF S
<1>3. l \in S
  BY <1>0, <1>1, <1>2, EveryNat
<1>4. l + 1 - l = 1
  BY <1>0
<1>5. QED
  BY <1>0, <1>3, <1>4 DEF S

\* The output from a place on, in terms of that from the next place on.
LEMMA RestIs ==
    ASSUME NEW s \in Seq(Character), NEW all
    PROVE  /\ Rest(s, all)[Len(s) + 1] = <<>>
           /\ \A i \in 1..Len(s) :
                Rest(s, all)[i] = IF Taken(s, all, i)
                                  THEN DateAt(s, i) \o Rest(s, all)[i + LabelAt(s, i)]
                                  ELSE Plain(<<s[i]>>) \o Rest(s, all)[i + 1]
<1> DEFINE f == Rest(s, all)
<1>1. Rests(s, all, 1, f)
  BY RestsExists, Zenon DEF Rest
<1>2. Len(s) \in Nat
  BY LenProperties
<1> HIDE DEF f
<1>3. \A i \in 1..Len(s) + 1 : f[i] = RestFrom(s, all, i, f)
  BY <1>1, Zenon DEF Rests
<1>4. f[Len(s) + 1] = <<>>
  <2>1. Len(s) + 1 \in 1..Len(s) + 1 /\ Len(s) + 1 > Len(s)
    BY <1>2
  <2>2. QED
    BY <1>3, <2>1, Zenon DEF RestFrom
<1>5. ASSUME NEW i \in 1..Len(s)
      PROVE  f[i] = IF Taken(s, all, i) THEN DateAt(s, i) \o f[i + LabelAt(s, i)]
                    ELSE Plain(<<s[i]>>) \o f[i + 1]
  <2>1. i \in 1..Len(s) + 1 /\ ~(i > Len(s))
    BY <1>2
  <2>2. QED
    BY <1>3, <2>1, Zenon DEF RestFrom
<1>6. QED
  BY <1>4, <1>5 DEF f

\* What the output is to be is the rest from the first position on.
LEMMA ReferenceIs ==
    ASSUME NEW s
    PROVE  Reference(s) = Rest(s, arg_all)[1]
BY Zenon DEF Reference, Rest, Rests, RestFrom, Taken, Sought

\* The digits counted from an @ are all digits.
LEMMA RunIsWhole ==
    ASSUME NEW s \in Seq(Character), NEW i \in 1..Len(s), s[i] = At
    PROVE  Whole(s, i, i + DigitsAt(s, i))
<1> DEFINE n == DigitsAt(s, i)
<1>1. /\ n \in 0..Len(s) - i
      /\ \A k \in i + 1..i + n : is_hex_nibble(s[k])
      /\ \A m \in 0..Len(s) - i : (\A k \in i + 1..i + m : is_hex_nibble(s[k])) => m <= n
  BY DigitsAtIs
<1>2. Len(s) \in Nat
  BY LenProperties
<1> HIDE DEF n
<1>3. i + n \in i..Len(s)
  BY <1>1, <1>2
<1>4. ASSUME i + n # Len(s), is_hex_nibble(s[i + n + 1]) PROVE FALSE
  <2>1. n + 1 \in 0..Len(s) - i /\ ~(n + 1 <= n)
    BY <1>1, <1>2, <1>4
  <2>2. \A k \in i + 1..i + (n + 1) : k \in i + 1..i + n \/ k = i + n + 1
    BY <1>1
  <2>3. \A k \in i + 1..i + (n + 1) : is_hex_nibble(s[k])
    BY <1>1, <1>4, <2>2, Zenon
  <2>4. QED
    BY <1>1, <2>1, <2>3
<1>5. QED
  BY <1>1, <1>3, <1>4 DEF Whole, Run, n

\* The date written for a label is a sequence of items.
LEMMA DateAtType ==
    ASSUME NEW s \in Seq(Character), NEW i \in 1..Len(s), LabelAt(s, i) > 0
    PROVE  DateAt(s, i) \in Seq(Item)
<1> DEFINE j == i + DigitsAt(s, i)
           p == SubSeq(s, i, j)
<1>1. s[i] = At
  BY LabelAtRange
<1>2. Whole(s, i, j)
  BY <1>1, RunIsWhole
<1>3. DigitsAt(s, i) \in 0..Len(s) - i
  BY DigitsAtIs
<1>4. i \in Nat /\ j \in i..Len(s) /\ j \in Nat
  BY <1>3
<1> HIDE DEF j
<1>5. ~Converts(p) => LabelAt(s, i) = 0
  BY <1>2, <1>4, RunConverts
<1>6. Converts(p) => DateAt(s, i) = convert_buffer(p).date
  BY <1>2, <1>4, RunConverts
<1>7. p \in Seq(Character)
  <2>1. \A k \in i..j : s[k] \in Character
    BY <1>4
  <2>2. QED
    BY <1>4, <2>1, SubSeqProperties
<1> HIDE DEF p
<1>8. convert_buffer(p).date \in Seq(Item)
  BY <1>7, BufferType
<1>9. Converts(p)
  BY <1>5
<1>10. QED
  BY <1>6, <1>8, <1>9, Zenon

\* The output from any place on is a sequence of items.
LEMMA RestType ==
    ASSUME NEW s \in Seq(Character), NEW all
    PROVE  \A i \in 1..Len(s) + 1 : Rest(s, all)[i] \in Seq(Item)
<1> DEFINE l == Len(s)
           f == Rest(s, all)
           S == {n \in Nat : \A i \in 1..l + 1 : l + 1 - i <= n => f[i] \in Seq(Item)}
<1>0. l \in Nat
  BY LenProperties
<1>1. 0 \in S
  <2>1. \A i \in 1..l + 1 : l + 1 - i <= 0 => i = l + 1
    BY <1>0
  <2>2. f[l + 1] = <<>>
    BY RestIs
  <2>3. <<>> \in Seq(Item)
    BY EmptySeq
  <2> HIDE DEF f, l
  <2>4. QED
    BY <2>1, <2>2, <2>3
<1>2. ASSUME NEW n \in S \cap Nat PROVE n + 1 \in S
  <2> SUFFICES ASSUME NEW i \in 1..l + 1, l + 1 - i = n + 1 PROVE f[i] \in Seq(Item)
    <3>1. n \in Nat /\ \A i \in 1..l + 1 : l + 1 - i <= n => f[i] \in Seq(Item)
      OBVIOUS
    <3> HIDE DEF f, l
    <3>2. \A i \in 1..l + 1 : l + 1 - i <= n + 1 => l + 1 - i <= n \/ l + 1 - i = n + 1
      BY <1>0, <3>1
    <3>3. n + 1 \in Nat
      BY <3>1
    <3>4. QED
      BY <3>1, <3>2, <3>3, Zenon
  <2>1. /\ i \in 1..l /\ i + 1 \in 1..l + 1 /\ l + 1 - (i + 1) <= n
    BY <1>0
  <2>2. f[i] = IF Taken(s, all, i) THEN DateAt(s, i) \o f[i + LabelAt(s, i)]
               ELSE Plain(<<s[i]>>) \o f[i + 1]
    BY <2>1, RestIs
  <2> HIDE DEF f
  <2>3. CASE Taken(s, all, i)
    <3>1. LabelAt(s, i) > 0 /\ LabelAt(s, i) \in 0..l - i + 1
      BY <2>1, <2>3, LabelAtRange DEF Taken
    <3>2. i + LabelAt(s, i) \in 1..l + 1 /\ l + 1 - (i + LabelAt(s, i)) <= n
      BY <1>0, <3>1
    <3>3. f[i + LabelAt(s, i)] \in Seq(Item) /\ DateAt(s, i) \in Seq(Item)
      BY <2>1, <3>1, <3>2, DateAtType
    <3>4. DateAt(s, i) \o f[i + LabelAt(s, i)] \in Seq(Item)
      BY <3>3, ConcatProperties
    <3>5. QED
      BY <2>2, <2>3, <3>4, Zenon
  <2>4. CASE ~Taken(s, all, i)
    <3>1. f[i + 1] \in Seq(Item)
      BY <2>1
    <3>2. Plain(<<s[i]>>) \in Seq(Item)
      BY <2>1, ElementOfSeq, PlainOne
    <3>3. Plain(<<s[i]>>) \o f[i + 1] \in Seq(Item)
      BY <3>1, <3>2, ConcatProperties
    <3>4. QED
      BY <2>2, <2>4, <3>3, Zenon
  <2>5. QED
    BY <2>3, <2>4
<1> HIDE DEF S, f
<1>3. Nat \subseteq S
  BY <1>1, <1>2, EveryNat
<1>4. \A i \in 1..l + 1 : l + 1 - i \in Nat /\ l + 1 - i <= l + 1 - i
  BY <1>0
<1>5. QED
  BY <1>3, <1>4 DEF S, f

\* Joining outputs is associative.
LEMMA ItemsAssociate ==
    ASSUME NEW x \in Seq(Item), NEW y \in Seq(Item), NEW z \in Seq(Item)
    PROVE  (x \o y) \o z = x \o (y \o z)
BY ConcatAssociative

\* Where no label is replaced, the text is shown as it is.
LEMMA PlainRest ==
    ASSUME NEW s \in Seq(Character), NEW all,
           NEW i \in 1..Len(s) + 1, NEW j \in i - 1..Len(s),
           \A k \in i..j : ~Taken(s, all, k)
    PROVE  Rest(s, all)[i] = Plain(SubSeq(s, i, j)) \o Rest(s, all)[j + 1]
<1> DEFINE f == Rest(s, all)
           P(m) == f[m] = Plain(SubSeq(s, m, j)) \o f[j + 1]
           S == {n \in Nat : \A m \in i..j + 1 : j + 1 - m = n => P(m)}
<1>0. /\ Len(s) \in Nat /\ i \in Int /\ j \in Int /\ j + 1 \in 1..Len(s) + 1
      /\ i..j \subseteq 1..Len(s)
  BY LenProperties
<1>1. f[j + 1] \in Seq(Item)
  BY <1>0, RestType
<1>2. \A k \in i..j : f[k] = Plain(<<s[k]>>) \o f[k + 1]
  BY <1>0, RestIs
<1> HIDE DEF f
<1>3. 0 \in S
  <2>1. SubSeq(s, j + 1, j) = <<>>
    BY <1>0, SubSeqEmpty
  <2>2. P(j + 1)
    BY <1>1, <2>1, PlainEmpty, ConcatEmptySeq
  <2> HIDE DEF P
  <2>3. \A m \in i..j + 1 : j + 1 - m = 0 => m = j + 1
    BY <1>0
  <2>4. QED
    BY <2>2, <2>3
<1>4. ASSUME NEW n \in S \cap Nat PROVE n + 1 \in S
  <2> SUFFICES ASSUME NEW m \in i..j + 1, j + 1 - m = n + 1
               PROVE  P(m)
    <3> HIDE DEF P
    <3> QED
      OBVIOUS
  <2>1. m \in i..j /\ m + 1 \in i..j + 1 /\ j + 1 - (m + 1) = n
    BY <1>0
  <2>2. f[m + 1] = Plain(SubSeq(s, m + 1, j)) \o f[j + 1]
    BY <2>1
  <2>3. f[m] = Plain(<<s[m]>>) \o f[m + 1]
    BY <1>2, <2>1
  <2>4. m \in 1..Len(s) /\ j \in m..Len(s) /\ s[m] \in Character
    BY <1>0, <2>1
  <2>5. SubSeq(s, m, j) = <<s[m]>> \o SubSeq(s, m + 1, j)
    BY <2>4, SubSeqRecursiveFirst
  <2>6. <<s[m]>> \in Seq(Character) /\ SubSeq(s, m + 1, j) \in Seq(Character)
    <3>1. \A k \in m + 1..j : s[k] \in Character
      BY <2>4
    <3>2. QED
      BY <2>4, <3>1, SubSeqProperties
  <2> DEFINE a == Plain(<<s[m]>>)
             b == Plain(SubSeq(s, m + 1, j))
             c == f[j + 1]
  <2>7. Plain(SubSeq(s, m, j)) = a \o b
    BY <2>5, <2>6, PlainConcat
  <2>8. a \in Seq(Item) /\ b \in Seq(Item) /\ c \in Seq(Item)
    BY <1>1, <2>6, PlainIs
  <2> HIDE DEF a, b, c
  <2>9. (a \o b) \o c = a \o (b \o c)
    BY <2>8, ItemsAssociate, Zenon
  <2>10. QED
    BY <2>2, <2>3, <2>7, <2>9 DEF a, b, c
<1> HIDE DEF S, P
<1>5. j + 1 - i \in S
  <2>1. j + 1 - i \in Nat
    BY <1>0
  <2>2. QED
    BY <1>3, <1>4, <2>1, EveryNat
<1>6. i \in i..j + 1
  BY <1>0
<1>7. QED
  BY <1>5, <1>6 DEF S, P, f

\* A label in a run is replaced once, and nothing else in the run is one.
LEMMA RunRest ==
    ASSUME NEW s \in Seq(Character), NEW all, NEW i \in Nat, NEW j \in Nat,
           Whole(s, i, j), Sought(s, all, i)
    PROVE  LET p == SubSeq(s, i, j)
               e == j - convert_buffer(p).unused
           IN /\ \A k \in i + 1..j : ~Taken(s, all, k)
              /\ Converts(p) => /\ e \in i + 1..j
                                /\ Rest(s, all)[i] = convert_buffer(p).date \o Rest(s, all)[e + 1]
              /\ ~Converts(p) => \A k \in i..j : ~Taken(s, all, k)
<1> DEFINE p == SubSeq(s, i, j)
           e == j - convert_buffer(p).unused
<1>1. i \in 1..Len(s) /\ j \in i..Len(s) /\ \A k \in i + 1..j : is_hex_nibble(s[k])
  BY DEF Whole, Run
<1>2. /\ Len(p) = j - i + 1
      /\ convert_buffer(p).unused \in 0..Len(p)
      /\ Converts(p) => /\ LabelAt(s, i) = Len(p) - convert_buffer(p).unused
                        /\ LabelAt(s, i) \in 2..Len(p)
                        /\ DateAt(s, i) = convert_buffer(p).date
      /\ ~Converts(p) => LabelAt(s, i) = 0
  BY RunConverts
<1> HIDE DEF p
<1>3. ASSUME NEW k \in i + 1..j PROVE ~Taken(s, all, k)
  <2>1. k \in 1..Len(s) /\ s[k] # At
    BY <1>1, Characters
  <2>2. QED
    BY <2>1, LabelAtRange DEF Taken
<1>4. ASSUME Converts(p)
      PROVE  /\ e \in i + 1..j
             /\ Rest(s, all)[i] = convert_buffer(p).date \o Rest(s, all)[e + 1]
  <2>1. e \in i + 1..j /\ i + LabelAt(s, i) = e + 1 /\ LabelAt(s, i) > 0
    <3> DEFINE u == convert_buffer(p).unused
    <3>1. u \in 0..j - i + 1 /\ LabelAt(s, i) = j - i + 1 - u /\ LabelAt(s, i) \in 2..j - i + 1
      BY <1>2, <1>4
    <3> HIDE DEF u
    <3>2. e = j - u
      BY DEF u
    <3> HIDE DEF e
    <3>3. QED
      BY <1>1, <3>1, <3>2
  <2>2. Taken(s, all, i)
    BY <2>1 DEF Taken
  <2>3. Rest(s, all)[i] = DateAt(s, i) \o Rest(s, all)[i + LabelAt(s, i)]
    BY <1>1, <2>2, RestIs
  <2>4. QED
    BY <1>2, <1>4, <2>1, <2>3
<1>5. ASSUME ~Converts(p) PROVE \A k \in i..j : ~Taken(s, all, k)
  <2>1. ~Taken(s, all, i)
    BY <1>2, <1>5 DEF Taken
  <2>2. \A k \in i..j : k = i \/ k \in i + 1..j
    BY <1>1
  <2>3. QED
    BY <1>3, <2>1, <2>2
<1>6. QED
  BY <1>3, <1>4, <1>5 DEF p

\* What is shown of a whole run, then the output after it, is the output from its @ on.
LEMMA ShownRest ==
    ASSUME NEW s \in Seq(Character), NEW all, NEW i \in Nat, NEW j \in Nat,
           Whole(s, i, j), Sought(s, all, i)
    PROVE  Rest(s, all)[i] = Shown(SubSeq(s, i, j)) \o Rest(s, all)[j + 1]
<1> DEFINE p == SubSeq(s, i, j)
           u == convert_buffer(p).unused
           e == j - u
           d == convert_buffer(p).date
           f == Rest(s, all)
<1>1. i \in 1..Len(s) /\ j \in i..Len(s) /\ Len(s) \in Nat
  BY DEF Whole, Run
<1>2. /\ \A k \in i + 1..j : ~Taken(s, all, k)
      /\ Converts(p) => /\ e \in i + 1..j
                        /\ f[i] = d \o f[e + 1]
      /\ ~Converts(p) => \A k \in i..j : ~Taken(s, all, k)
  BY RunRest
<1>3. CASE ~Converts(p)
  <2>1. f[i] = Plain(p) \o f[j + 1]
    <3>1. i \in 1..Len(s) + 1 /\ j \in i - 1..Len(s)
      BY <1>1
    <3>2. QED
      BY <1>2, <1>3, <3>1, PlainRest
  <2>2. QED
    BY <1>3, <2>1 DEF Shown
<1>4. CASE Converts(p)
  <2>1. Len(p) = j - i + 1 /\ u \in 0..Len(p) /\ p \in Seq(Character)
    <3>1. \A k \in i..j : s[k] \in Character
      BY <1>1
    <3>2. Len(p) = j - i + 1 /\ p \in Seq(Character)
      BY <1>1, <3>1, SubSeqProperties
    <3>3. QED
      BY <3>2, BufferType
  <2>2. Unused(p) = SubSeq(s, e + 1, j)
    <3> DEFINE m == Len(p) - u + 1
               n == Len(p)
    <3> HIDE DEF u, p
    <3>1. m \in Nat \ {0} /\ n \in Nat /\ i + n - 1 = j /\ i + m - 1 = e + 1
      BY <1>1, <2>1
    <3> HIDE DEF m, n
    <3>2. SubSeq(p, m, n) = SubSeq(s, i + m - 1, i + n - 1)
      BY <1>1, <3>1, PartOfPart DEF p
    <3>3. QED
      BY <3>1, <3>2 DEF Unused, m, n, u
  <2>3. e + 1 \in 1..Len(s) + 1 /\ j \in (e + 1) - 1..Len(s) /\ j + 1 \in 1..Len(s) + 1
        /\ \A k \in e + 1..j : k \in i + 1..j
    BY <1>1, <1>2, <1>4
  <2>4. f[e + 1] = Plain(SubSeq(s, e + 1, j)) \o f[j + 1]
    BY <1>2, <2>3, PlainRest
  <2>5. SubSeq(s, e + 1, j) \in Seq(Character)
    <3>1. \A k \in e + 1..j : s[k] \in Character
      BY <1>1, <2>3
    <3>2. QED
      BY <1>1, <2>3, <3>1, SubSeqProperties
  <2> DEFINE b == Plain(Unused(p))
             c == f[j + 1]
  <2>6. d \in Seq(Item) /\ b \in Seq(Item) /\ c \in Seq(Item)
    BY <2>1, <2>2, <2>3, <2>5, BufferType, PlainIs, RestType
  <2>7. f[i] = d \o (b \o c)
    BY <1>2, <1>4, <2>2, <2>4
  <2>8. Shown(p) = d \o b
    BY <1>4 DEF Shown
  <2> HIDE DEF b, c, d
  <2>9. (d \o b) \o c = d \o (b \o c)
    BY <2>6, ItemsAssociate, Zenon
  <2>10. QED
    BY <2>7, <2>8, <2>9 DEF c
<1>5. QED
  BY <1>3, <1>4

-----------------------------------------------------------------------------
(* Output *)

LEMMA PrefixOf ==
    ASSUME NEW o \in Seq(Item), NEW x \in Seq(Item)
    PROVE  IsPrefix(o, o \o x)
<1>1. Len(o) \in Nat /\ Len(x) \in Nat /\ Len(o \o x) = Len(o) + Len(x)
  BY LenProperties, ConcatProperties
<1>2. SubSeq(o \o x, 1, Len(o)) = SubSeq(o, 1, Len(o))
  <2>1. CASE Len(o) = 0
    <3>1. Len(o) < 1 /\ 1 \in Int /\ Len(o) \in Int
      BY <2>1
    <3>2. QED
      BY <3>1, SubSeqEmpty
  <2>2. CASE Len(o) # 0
    <3>1. 1 \in 1..Len(o) /\ Len(o) \in 1..Len(o)
      BY <1>1, <2>2
    <3>2. QED
      BY <3>1, SubSeqOfConcat1
  <2>3. QED
    BY <2>1, <2>2
<1>3. QED
  BY <1>1, <1>2 DEF IsPrefix

\* The first two of four parts begin the four.
LEMMA PrefixOfFour ==
    ASSUME NEW o \in Seq(Item), NEW a \in Seq(Item), NEW b \in Seq(Item), NEW x \in Seq(Item)
    PROVE  IsPrefix(o \o a, o \o ((a \o b) \o x))
<1>1. (a \o b) \o x = a \o (b \o x)
  BY ItemsAssociate
<1>2. b \o x \in Seq(Item)
  BY ConcatProperties
<1>3. (o \o a) \o (b \o x) = o \o (a \o (b \o x))
  BY <1>2, ItemsAssociate, Zenon
<1>4. IsPrefix(o \o a, (o \o a) \o (b \o x))
  BY <1>2, ConcatProperties, PrefixOf
<1>5. QED
  BY <1>1, <1>3, <1>4

\* What a write that was cut short has written begins what there was to write.
LEMMA PartWritten ==
    ASSUME NEW o \in Seq(Item), NEW items \in Seq(Item), NEW x \in Seq(Item),
           NEW n \in 0..Len(items) - 1
    PROVE  /\ o \o SubSeq(items, 1, n) \in Seq(Item)
           /\ IsPrefix(o \o SubSeq(items, 1, n), o \o (items \o x))
<1> DEFINE a == SubSeq(items, 1, n)
           b == SubSeq(items, n + 1, Len(items))
<1>1. Len(items) \in Nat /\ n \in 0..Len(items)
  BY LenProperties
<1>2. a \o b = items
  <2>1. /\ 1 \in 1..Len(items) + 1 /\ n \in 1 - 1..Len(items) /\ Len(items) \in n..Len(items)
    BY <1>1
  <2>2. SubSeq(items, 1, n) \o SubSeq(items, n + 1, Len(items)) = SubSeq(items, 1, Len(items))
    BY <2>1, ConcatAdjacentSubSeq
  <2>3. QED
    BY <2>2, SubSeqFull
<1>3. a \in Seq(Item) /\ b \in Seq(Item)
  <2>1. (\A k \in 1..n : items[k] \in Item) /\ \A k \in n + 1..Len(items) : items[k] \in Item
    BY <1>1
  <2>2. QED
    BY <1>1, <2>1, SubSeqProperties
<1> HIDE DEF a, b
<1>4. o \o a \in Seq(Item)
  BY <1>3, ConcatProperties
<1>5. IsPrefix(o \o a, o \o ((a \o b) \o x))
  BY <1>3, PrefixOfFour
<1>6. QED
  BY <1>2, <1>4, <1>5 DEF a

\* What was written before and after a flush, when x is still to come.
LEMMA FlushDoes ==
    ASSUME out \in Seq(Item), NEW items \in Seq(Item), NEW x \in Seq(Item),
           NEW r, r = out \o (items \o x), NEW next, flush(items, next)
    PROVE  /\ out' \in Seq(Item)
           /\ \/ at' = next /\ out' \o x = r
              \/ at' = "unwritten" /\ IsPrefix(out', r)
<1>1. CASE out' = out \o items /\ at' = next
  <2>1. out \o items \in Seq(Item) /\ (out \o items) \o x = out \o (items \o x)
    BY ConcatProperties, ItemsAssociate
  <2>2. QED
    BY <1>1, <2>1
<1>2. ASSUME NEW n \in 0..Len(items) - 1, out' = out \o SubSeq(items, 1, n), at' = "unwritten"
      PROVE  out' \in Seq(Item) /\ IsPrefix(out', r)
  <2>1. out \o SubSeq(items, 1, n) \in Seq(Item) /\ IsPrefix(out \o SubSeq(items, 1, n), r)
    BY PartWritten, Zenon
  <2>2. QED
    BY <1>2, <2>1
<1>3. QED
  BY <1>1, <1>2, Zenon DEF flush

-----------------------------------------------------------------------------
(* The invariant *)

Whole_output(s) == Rest(s, arg_all)[1]
Cut(n)          == SubSeq(text, 1, n)

OpenInv ==
    at = "open" => /\ index = 0 /\ start = 0 /\ inside = FALSE
                   /\ line_start = TRUE /\ textual = <<>> /\ out = <<>>

\* What was written and what is to come from start on is the output; from start on
\* there is a run, or no label that is replaced; by lines, what was looked at ends
\* with a line.
MapInv ==
    at = "mmap" =>
      /\ out \o Rest(text, arg_all)[start + 1] = Whole_output(text)
      /\ IF inside
         THEN /\ arg_all
              /\ Run(text, start + 1, index) /\ index - start <= NGIM_TAIN_FORMAT
         ELSE \A k \in start + 1..index : ~Taken(text, arg_all, k)
      /\ ~arg_all => ~inside /\ (index = 0 \/ index = Len(text) \/ text[index] = Newline)

\* Where the buffer begins in the text.
Buffered == index - Len(textual) + 1

\* Wherever the text is found to end, what was written and what is to come from the
\* buffer on is its output; the buffer is empty or a run; by lines, line_start is
\* what it is called while the buffer is empty.
ReadInv ==
    at = "read" =>
      /\ Buffered \in 1..index + 1 /\ textual = SubSeq(text, Buffered, index)
      /\ textual # <<>> => Run(text, Buffered, index) /\ Sought(text, arg_all, Buffered)
      /\ \A n \in index..Len(text) :
           out \o Rest(Cut(n), arg_all)[Buffered] = Whole_output(Cut(n))
      /\ ~arg_all => line_start = (textual = <<>> /\ Sought(text, arg_all, index + 1))

EndInv ==
    /\ at = "done" => out = Whole_output(text)
    /\ at = "unread" => out = Whole_output(Cut(index))
    /\ at = "unwritten" => IsPrefix(out, Whole_output(text)) \/ IsPrefix(out, Whole_output(Cut(index)))

TaiconvInv == TaiconvTypeOK /\ OpenInv /\ MapInv /\ ReadInv /\ EndInv

\* What the text is cut to is the same as far as it goes.
LEMMA CutIs ==
    ASSUME text \in Seq(Character), NEW n \in 0..Len(text)
    PROVE  /\ Cut(n) \in Seq(Character) /\ Len(Cut(n)) = n
           /\ \A k \in 1..n : Cut(n)[k] = text[k]
           /\ \A i \in 1..n : \A j \in i..n : SubSeq(Cut(n), i, j) = SubSeq(text, i, j)
           /\ n = Len(text) => Cut(n) = text
<1>1. Len(text) \in Nat /\ \A k \in 1..n : text[k] \in Character
  BY LenProperties, ElementOfSeq
<1>2. /\ Cut(n) \in Seq(Character)
      /\ Len(Cut(n)) = IF 1 <= n THEN n - 1 + 1 ELSE 0
      /\ \A k \in 1..n - 1 + 1 : Cut(n)[k] = text[1 + k - 1]
  BY <1>1, SubSeqProperties DEF Cut
<1>3. /\ Len(Cut(n)) = n
      /\ \A k \in 1..n : Cut(n)[k] = text[k]
  BY <1>1, <1>2
<1>4. ASSUME NEW i \in 1..n, NEW j \in i..n
      PROVE  SubSeq(Cut(n), i, j) = SubSeq(text, i, j)
  <2>1. 1 \in 1..Len(text) /\ n \in 1..Len(text) /\ 1 + j - 1 <= n /\ i \in Nat \ {0} /\ j \in Nat
        /\ 1 + i - 1 = i /\ 1 + j - 1 = j
    BY <1>1
  <2>2. SubSeq(SubSeq(text, 1, n), i, j) = SubSeq(text, 1 + i - 1, 1 + j - 1)
    BY <2>1, PartOfPart
  <2>3. QED
    BY <2>1, <2>2 DEF Cut
<1>5. n = Len(text) => Cut(n) = text
  BY SubSeqFull DEF Cut
<1>6. QED
  BY <1>2, <1>3, <1>4, <1>5

-----------------------------------------------------------------------------
(* Stamps *)

Lefts(x, n, f) == f = [i \in 0..n |-> IF i = 0 THEN x ELSE f[i - 1] \div Base]

\* A function that divides x by the base again and again exists.
LEMMA LeftsExists ==
    ASSUME NEW x, NEW m \in Nat
    PROVE  \E f : Lefts(x, m, f)
<1> DEFINE S == {n \in Nat : \E f : Lefts(x, n, f)}
<1>1. 0 \in S
  <2>1. Lefts(x, 0, [i \in 0..0 |-> x])
    BY DEF Lefts
  <2>2. QED
    BY <2>1
<1>2. ASSUME NEW n \in S \cap Nat PROVE n + 1 \in S
  <2>1. PICK f : Lefts(x, n, f)
    OBVIOUS
  <2> DEFINE g == [i \in 0..n + 1 |-> IF i = 0 THEN x ELSE f[i - 1] \div Base]
  <2>2. \A i \in 0..n : f[i] = IF i = 0 THEN x ELSE f[i - 1] \div Base
    BY <2>1 DEF Lefts
  <2>3. \A i \in 0..n : g[i] = f[i]
    BY <2>2
  <2>4. \A i \in 0..n + 1 : i # 0 => i - 1 \in 0..n
    OBVIOUS
  <2>5. Lefts(x, n + 1, g)
    BY <2>3, <2>4 DEF Lefts
  <2>6. QED
    BY <2>5
<1>3. QED
  BY <1>1, <1>2, EveryNat

\* What is left of x after each division.
LEMMA LeftIs ==
    ASSUME NEW x \in Int, NEW n \in Nat
    PROVE  /\ Left(x, n)[0] = x
           /\ \A i \in 1..n : Left(x, n)[i] = Left(x, n)[i - 1] \div Base
           /\ \A i \in 0..n : Left(x, n)[i] \in Int
<1> DEFINE f == Left(x, n)
<1>1. Lefts(x, n, f)
  BY LeftsExists, Zenon DEF Left, Lefts
<1>2. Base \in Nat \ {0}
  BY WidthAssumption
<1> HIDE DEF f
<1>3. \A i \in 0..n : f[i] = IF i = 0 THEN x ELSE f[i - 1] \div Base
  BY <1>1, Zenon DEF Lefts
<1>4. f[0] = x
  BY <1>3
<1>5. \A i \in 1..n : f[i] = f[i - 1] \div Base
  <2>1. \A i \in 1..n : i \in 0..n /\ i # 0
    OBVIOUS
  <2>2. QED
    BY <1>3, <2>1, Zenon
<1> DEFINE S == {m \in Nat : m <= n => f[m] \in Int}
<1>6. 0 \in S
  BY <1>4
<1>7. ASSUME NEW m \in S \cap Nat PROVE m + 1 \in S
  <2> SUFFICES ASSUME m + 1 <= n PROVE f[m + 1] \in Int
    OBVIOUS
  <2>1. f[m] \in Int /\ m + 1 \in 1..n /\ (m + 1) - 1 = m
    OBVIOUS
  <2>2. f[m + 1] = f[m] \div Base
    BY <1>5, <2>1
  <2>3. \A y \in Int, z \in Nat \ {0} : y \div z \in Int
    OBVIOUS
  <2>4. QED
    BY <1>2, <2>1, <2>2, <2>3
<1> HIDE DEF S
<1>8. \A i \in 0..n : f[i] \in Int
  <2>1. Nat \subseteq S
    BY <1>6, <1>7, EveryNat
  <2>2. QED
    BY <2>1 DEF S
<1>9. QED
  BY <1>4, <1>5, <1>8 DEF f

\* The digits of x are the remainders of these divisions.
LEMMA DigitsIs ==
    ASSUME NEW x \in Int, NEW n \in Nat
    PROVE  /\ Digits(x, n) \in Seq(Digit) /\ Len(Digits(x, n)) = n
           /\ \A i \in 1..n : Digits(x, n)[i] = Left(x, n)[n - i] % Base
<1>1. \A i \in 1..n : n - i \in 0..n
  OBVIOUS
<1>2. \A i \in 1..n : Left(x, n)[n - i] \in Int
  BY <1>1, LeftIs
<1>3. Base \in Nat \ {0} /\ \A y \in Int, z \in Nat \ {0} : y % z \in 0..z - 1
  BY WidthAssumption
<1>4. \A i \in 1..n : Left(x, n)[n - i] % Base \in Digit
  BY <1>2, <1>3 DEF Digit
<1>5. Digits(x, n) = [i \in 1..n |-> Left(x, n)[n - i] % Base]
  BY Zenon DEF Digits
<1>6. QED
  BY <1>4, <1>5

\* The seconds and nanoseconds of a stamp are integers.
LEMMA StampType ==
    ASSUME NEW a \in Int
    PROVE  /\ ngim_tain_from_apr(a).sec \in Int
           /\ ngim_tain_from_apr(a).nano \in Int
<1>1. /\ Micro \in Nat \ {0} /\ Nano \in Nat \ {0} /\ Epoch \in Nat
      /\ \A y \in Int, z \in Nat \ {0} : y \div z \in Int /\ y % z \in Int
  BY WidthAssumption
<1>2. a \div Micro \in Int /\ a % Micro \in Int /\ Nano \div 2 \in Int
  BY <1>1
<1>3. ngim_tain_from_apr(a).sec = Epoch + a \div Micro
  BY DEF ngim_tain_from_apr
<1>4. ngim_tain_from_apr(a).nano = Nano * (a % Micro) + Nano \div 2
  BY Zenon DEF ngim_tain_from_apr
<1>5. QED
  BY <1>1, <1>2, <1>3, <1>4

\* The text of a label is an "@" and its digits.
LEMMA FormatType ==
    ASSUME NEW t, t.sec \in Int, t.nano \in Int
    PROVE  /\ ngim_tain_format(t) \in Seq(Character)
           /\ Len(ngim_tain_format(t)) = NGIM_TAIN_FORMAT
           /\ ngim_tain_format(t)[1] = At
           /\ \A i \in 1..SecDigits : ngim_tain_format(t)[i + 1] = Digits(t.sec, SecDigits)[i]
           /\ \A i \in 1..NanoDigits :
                ngim_tain_format(t)[i + 1 + SecDigits] = Digits(t.nano, NanoDigits)[i]
<1> DEFINE a == <<At>>
           b == Digits(t.sec, SecDigits)
           c == Digits(t.nano, NanoDigits)
<1>1. SecDigits \in Nat \ {0} /\ NanoDigits \in Nat \ {0}
  BY WidthAssumption
<1>2. b \in Seq(Character) /\ c \in Seq(Character) /\ Len(b) = SecDigits /\ Len(c) = NanoDigits
  <2>1. Digit \subseteq Character
    BY DEF Character
  <2>2. b \in Seq(Digit) /\ c \in Seq(Digit) /\ Len(b) = SecDigits /\ Len(c) = NanoDigits
    BY <1>1, DigitsIs
  <2> HIDE DEF b, c
  <2>3. QED
    BY <2>1, <2>2, SeqMonotonic
<1>3. a \in Seq(Character) /\ Len(a) = 1 /\ a[1] = At
  BY Characters
<1>4. ngim_tain_format(t) = a \o b \o c
  BY DEF ngim_tain_format
<1> HIDE DEF a, b, c
<1>5. /\ a \o b \in Seq(Character) /\ Len(a \o b) = Len(a) + Len(b)
      /\ \A i \in 1..Len(a) + Len(b) : (a \o b)[i] = IF i <= Len(a) THEN a[i] ELSE b[i - Len(a)]
  BY <1>2, <1>3, ConcatProperties
<1> DEFINE ab == a \o b
<1> HIDE DEF ab
<1>6. /\ ab \o c \in Seq(Character) /\ Len(ab \o c) = Len(ab) + Len(c)
      /\ \A i \in 1..Len(ab) + Len(c) :
           (ab \o c)[i] = IF i <= Len(ab) THEN ab[i] ELSE c[i - Len(ab)]
  <2>1. ab \in Seq(Character)
    BY <1>5 DEF ab
  <2>2. QED
    BY <1>2, <2>1, ConcatProperties
<1>7. /\ Len(ab) = 1 + SecDigits
      /\ \A i \in 1..1 + SecDigits : ab[i] = IF i <= 1 THEN a[i] ELSE b[i - 1]
  BY <1>2, <1>3, <1>5 DEF ab
<1>8. /\ ab \o c \in Seq(Character) /\ Len(ab \o c) = 1 + SecDigits + NanoDigits
      /\ \A i \in 1..1 + SecDigits + NanoDigits :
           (ab \o c)[i] = IF i <= 1 + SecDigits THEN ab[i] ELSE c[i - (1 + SecDigits)]
  BY <1>2, <1>6, <1>7
<1> DEFINE f == ab \o c
<1> HIDE DEF f
<1>9. f[1] = At
  BY <1>1, <1>3, <1>7, <1>8 DEF f
<1>10. ASSUME NEW i \in 1..SecDigits PROVE f[i + 1] = b[i]
  <2>1. i + 1 \in 1..1 + SecDigits /\ i + 1 \in 1..1 + SecDigits + NanoDigits
        /\ ~(i + 1 <= 1) /\ i + 1 <= 1 + SecDigits /\ (i + 1) - 1 = i
    BY <1>1
  <2>2. f[i + 1] = ab[i + 1]
    BY <1>8, <2>1 DEF f
  <2>3. QED
    BY <1>7, <2>1, <2>2
<1>11. ASSUME NEW i \in 1..NanoDigits PROVE f[i + 1 + SecDigits] = c[i]
  <2>1. i + 1 + SecDigits \in 1..1 + SecDigits + NanoDigits
        /\ ~(i + 1 + SecDigits <= 1 + SecDigits) /\ (i + 1 + SecDigits) - (1 + SecDigits) = i
    BY <1>1
  <2>2. QED
    BY <1>8, <2>1 DEF f
<1>12. ngim_tain_format(t) = f
  BY <1>4 DEF f, ab
<1>13. f \in Seq(Character) /\ Len(f) = NGIM_TAIN_FORMAT
  BY <1>8 DEF f, NGIM_TAIN_FORMAT, NGIM_TAI_FORMAT
<1>14. QED
  BY <1>9, <1>10, <1>11, <1>12, <1>13 DEF b, c

-----------------------------------------------------------------------------
(* The initial states *)

LEMMA InitInv == TaiconvInit => TaiconvInv
<1> SUFFICES ASSUME TaiconvInit PROVE TaiconvInv
  OBVIOUS
<1>1. text \in Seq(Character) /\ stamped \in Clock \cup {None}
  <2>1. CASE text \in Texts /\ stamped = None
    BY <2>1, TextAssumption
  <2>2. CASE stamped \in Clock /\ text = ngim_tain_format(ngim_tain_from_apr(stamped))
    <3>1. stamped \in Int
      BY <2>2, TextAssumption, WidthAssumption
    <3>2. QED
      BY <2>2, <3>1, StampType, FormatType
  <2>3. QED
    BY <2>1, <2>2 DEF TaiconvInit
<1>2. TaiconvTypeOK
  <2>1. Len(text) \in Nat /\ <<>> \in Seq(Character) /\ <<>> \in Seq([char: Character] \cup [date: Int])
    BY <1>1, LenProperties, EmptySeq
  <2>2. Len(<<>>) = 0
    BY EmptySeq
  <2>3. /\ arg_all \in BOOLEAN /\ at = "open" /\ index = 0 /\ start = 0 /\ inside = FALSE
        /\ line_start = TRUE /\ textual = <<>> /\ out = <<>>
    BY DEF TaiconvInit
  <2>4. 0 \in 0..Len(text) /\ 0 \in 0..0 /\ Len(<<>>) <= NGIM_TAIN_FORMAT
    BY <2>1, <2>2, Formats
  <2>5. QED
    BY <1>1, <2>1, <2>3, <2>4, Zenon DEF TaiconvTypeOK
<1>3. QED
  BY <1>2 DEF TaiconvInit, TaiconvInv, OpenInv, MapInv, ReadInv, EndInv

-----------------------------------------------------------------------------
(* A mapped text *)

LEMMA RunGrows ==
    ASSUME NEW s \in Seq(Character), NEW i \in Int, NEW j \in Int
    PROVE  /\ i = j /\ i \in 1..Len(s) /\ s[i] = At => Run(s, i, j)
           /\ Run(s, i, j) /\ j + 1 <= Len(s) /\ is_hex_nibble(s[j + 1]) => Run(s, i, j + 1)
<1>1. Len(s) \in Nat
  BY LenProperties
<1>2. ASSUME i = j, i \in 1..Len(s), s[i] = At PROVE Run(s, i, j)
  BY <1>1, <1>2 DEF Run
<1>3. ASSUME Run(s, i, j), j + 1 <= Len(s), is_hex_nibble(s[j + 1]) PROVE Run(s, i, j + 1)
  <2>1. i \in 1..Len(s) /\ j \in i..Len(s) /\ s[i] = At /\ \A k \in i + 1..j : is_hex_nibble(s[k])
    BY <1>3 DEF Run
  <2>2. j + 1 \in i..Len(s) /\ \A k \in i + 1..j + 1 : k \in i + 1..j \/ k = j + 1
    BY <1>1, <1>3, <2>1
  <2>3. QED
    BY <1>3, <2>1, <2>2 DEF Run
<1>4. QED
  BY <1>2, <1>3

\* The end of a run after an @ is inside the text, and the run is whole.
LEMMA StampEndIs ==
    ASSUME text \in Seq(Character), NEW i \in Nat, i < Len(text), text[i + 1] = At
    PROVE  StampEnd(i) \in i + 1..Len(text) /\ Whole(text, i + 1, StampEnd(i))
<1> DEFINE S == {e \in i + 1..Len(text) :
                   \/ e = Len(text) \/ ~is_hex_nibble(text[e + 1])
                   \/ e - i > NGIM_TAIN_FORMAT}
           e == StampEnd(i)
<1>1. Len(text) \in Nat /\ NGIM_TAIN_FORMAT \in Nat
  BY LenProperties, Formats
<1>2. S \subseteq Nat /\ Len(text) \in S
  BY <1>1
<1> HIDE DEF S
<1>3. e \in S /\ \A n \in S : e <= n
  BY <1>2, MinIs, Zenon DEF StampEnd, S
<1> HIDE DEF e
<1>4. /\ e \in i + 1..Len(text)
      /\ e = Len(text) \/ ~is_hex_nibble(text[e + 1]) \/ e - i > NGIM_TAIN_FORMAT
  BY <1>3 DEF S
<1>5. ASSUME NEW k \in i + 2..e PROVE is_hex_nibble(text[k])
  <2>1. k - 1 \in i + 1..Len(text) /\ ~(e <= k - 1) /\ (k - 1) + 1 = k
    BY <1>1, <1>4
  <2>2. k - 1 \notin S
    BY <1>3, <2>1
  <2>3. QED
    BY <2>1, <2>2 DEF S
<1>6. Run(text, i + 1, e)
  <2>1. \A k \in (i + 1) + 1..e : k \in i + 2..e
    BY <1>1
  <2>2. i + 1 \in 1..Len(text)
    BY <1>1
  <2>3. QED
    BY <1>4, <1>5, <2>1, <2>2 DEF Run
<1>7. e - i > NGIM_TAIN_FORMAT => e - (i + 1) + 1 >= NGIM_TAIN_FORMAT
  BY <1>1, <1>4
<1>8. QED
  BY <1>4, <1>6, <1>7 DEF Whole, e

\* The next line begins after this place, inside the text.
LEMMA NextLineIs ==
    ASSUME text \in Seq(Character), NEW i \in 0..Len(text)
    PROVE  LET e == NextLine(i)
           IN /\ e \in i..Len(text) /\ (i < Len(text) => e > i)
              /\ e = Len(text) \/ text[e] = Newline
              /\ \A k \in i + 1..e - 1 : text[k] # Newline
<1> DEFINE S == {Len(text)} \cup {e \in i + 1..Len(text) : text[e] = Newline}
           e == NextLine(i)
<1>1. Len(text) \in Nat
  BY LenProperties
<1>2. S \subseteq Nat /\ S # {}
  BY <1>1
<1> HIDE DEF S
<1>3. e \in S /\ \A n \in S : e <= n
  BY <1>2, MinIs, Zenon DEF NextLine, S
<1> HIDE DEF e
<1>4. e = Len(text) \/ (e \in i + 1..Len(text) /\ text[e] = Newline)
  BY <1>3 DEF S
<1>5. ASSUME NEW k \in i + 1..e - 1 PROVE text[k] # Newline
  <2>1. k \in i + 1..Len(text) /\ ~(e <= k)
    BY <1>1, <1>4
  <2>2. QED
    BY <1>3, <2>1 DEF S
<1>6. QED
  BY <1>1, <1>4, <1>5 DEF e

\* What a step of convert_mmap leaves is a state of the invariant.
LEMMA MapStays ==
    ASSUME TaiconvTypeOK,
           UNCHANGED <<text, stamped, arg_all, read_vars>>,
           index' \in 0..Len(text), start' \in 0..index', inside' \in BOOLEAN,
           out' \in Seq(Item),
           \/ /\ at' = "mmap"
              /\ out' \o Rest(text, arg_all)[start' + 1] = Whole_output(text)
           \/ at' = "unwritten" /\ IsPrefix(out', Whole_output(text)),
           IF inside'
           THEN /\ arg_all
                /\ Run(text, start' + 1, index') /\ index' - start' <= NGIM_TAIN_FORMAT
           ELSE \A k \in start' + 1..index' : ~Taken(text, arg_all, k),
           ~arg_all => ~inside' /\ (index' = 0 \/ index' = Len(text) \/ text[index'] = Newline)
    PROVE  TaiconvInv'
<1>1. /\ text' = text /\ stamped' = stamped /\ arg_all' = arg_all
      /\ line_start' = line_start /\ textual' = textual
  BY DEF read_vars
<1>2. TaiconvTypeOK'
  <2>1. out' \in Seq([char: Character] \cup [date: Int])
    BY Zenon DEF Item
  <2>2. at' \in {"open", "mmap", "read", "done", "unread", "unwritten"}
    OBVIOUS
  <2>3. QED
    BY <1>1, <2>1, <2>2 DEF TaiconvTypeOK
<1>3. at' # "open" /\ at' # "read" /\ at' # "done" /\ at' # "unread"
  OBVIOUS
<1>4. CASE at' = "mmap"
  <2>1. at' # "unwritten"
    BY <1>4
  <2>2. MapInv'
    <3>1. out' \o Rest(text', arg_all')[start' + 1] = Whole_output(text)'
      BY <1>1, <2>1, Zenon DEF Whole_output
    <3>2. arg_all' <=> arg_all
      BY <1>1
    <3>3. \A k : Taken(text', arg_all', k) <=> Taken(text, arg_all, k)
      BY <1>1
    <3>4. Run(text', start' + 1, index') <=> Run(text, start' + 1, index')
      BY <1>1
    <3>5. IF inside'
          THEN /\ arg_all'
               /\ Run(text', start' + 1, index') /\ index' - start' <= NGIM_TAIN_FORMAT
          ELSE \A k \in start' + 1..index' : ~Taken(text', arg_all', k)
      BY <3>2, <3>3, <3>4, Zenon
    <3>6. index' = Len(text) \/ text[index'] = Newline
            => index' = Len(text') \/ text'[index'] = Newline
      BY <1>1
    <3>7. ~arg_all' => ~inside' /\ (index' = 0 \/ index' = Len(text') \/ text'[index'] = Newline)
      BY <3>2, <3>6, Zenon
    <3>8. QED
      BY <3>1, <3>5, <3>7, Zenon DEF MapInv
  <2>3. QED
    BY <1>2, <1>3, <2>1, <2>2 DEF TaiconvInv, OpenInv, ReadInv, EndInv
<1>5. CASE at' = "unwritten"
  <2>1. at' # "mmap"
    BY <1>5
  <2>2. IsPrefix(out', Whole_output(text)')
    BY <1>1, <2>1 DEF Whole_output
  <2>3. QED
    BY <1>2, <1>3, <2>1, <2>2 DEF TaiconvInv, OpenInv, ReadInv, MapInv, EndInv
<1>6. QED
  BY <1>4, <1>5

\* The mapped loop writes what the output says up to place m, and goes on from there.
LEMMA MapFlush ==
    ASSUME TaiconvTypeOK, MapInv, at = "mmap",
           NEW items \in Seq(Item), NEW m \in 1..Len(text) + 1,
           Rest(text, arg_all)[start + 1] = items \o Rest(text, arg_all)[m],
           NEW next, flush(items, next)
    PROVE  /\ out' \in Seq(Item)
           /\ \/ at' = next /\ out' \o Rest(text, arg_all)[m] = Whole_output(text)
              \/ at' = "unwritten" /\ IsPrefix(out', Whole_output(text))
<1>1. text \in Seq(Character) /\ out \in Seq(Item)
  BY Zenon DEF TaiconvTypeOK, Item
<1>2. Rest(text, arg_all)[m] \in Seq(Item)
  BY <1>1, RestType
<1>3. Whole_output(text) = out \o (items \o Rest(text, arg_all)[m])
  BY DEF MapInv
<1>4. QED
  BY <1>1, <1>2, <1>3, FlushDoes

\* The types the mapped loop relies on.
LEMMA MapTypes ==
    ASSUME TaiconvTypeOK
    PROVE  /\ text \in Seq(Character) /\ Len(text) \in Nat
           /\ index \in 0..Len(text) /\ start \in 0..index
           /\ out \in Seq(Item) /\ Pending \in Seq(Character) /\ Plain(Pending) \in Seq(Item)
<1>1. text \in Seq(Character) /\ Len(text) \in Nat /\ index \in 0..Len(text) /\ start \in 0..index
  BY LenProperties DEF TaiconvTypeOK
<1>2. out \in Seq(Item)
  BY Zenon DEF TaiconvTypeOK, Item
<1>3. Pending \in Seq(Character)
  <2>1. \A k \in start + 1..index : text[k] \in Character
    BY <1>1
  <2>2. QED
    BY <1>1, <2>1, SubSeqProperties DEF Pending
<1>4. QED
  BY <1>1, <1>2, <1>3, PlainIs

\* What is pending and no label is written as it is.
LEMMA PendingRest ==
    ASSUME TaiconvTypeOK, \A k \in start + 1..index : ~Taken(text, arg_all, k)
    PROVE  Rest(text, arg_all)[start + 1] = Plain(Pending) \o Rest(text, arg_all)[index + 1]
<1>1. start + 1 \in 1..Len(text) + 1 /\ index \in (start + 1) - 1..Len(text) /\ text \in Seq(Character)
  BY MapTypes
<1>2. QED
  BY <1>1, PlainRest DEF Pending

\* Nothing but an @ begins a label.
LEMMA NotAt ==
    ASSUME NEW s \in Seq(Character), NEW k \in 1..Len(s), s[k] # At, NEW all
    PROVE  ~Taken(s, all, k)
BY LabelAtRange DEF Taken

\* convert_mmap_all preserves the invariant.
LEMMA MapAllInv ==
    ASSUME TaiconvInv, convert_mmap_all
    PROVE  TaiconvInv'
<1>1. TaiconvTypeOK /\ MapInv
  BY DEF TaiconvInv
<1>2. /\ text \in Seq(Character) /\ Len(text) \in Nat
      /\ index \in 0..Len(text) /\ start \in 0..index
      /\ out \in Seq(Item) /\ Plain(Pending) \in Seq(Item) /\ Pending \in Seq(Character)
  BY <1>1, MapTypes
<1>3. /\ at = "mmap" /\ index < Len(text) /\ arg_all
      /\ UNCHANGED <<text, stamped, arg_all, read_vars>>
  BY DEF convert_mmap_all, map_one
<1>4. /\ out \o Rest(text, arg_all)[start + 1] = Whole_output(text)
      /\ inside => Run(text, start + 1, index) /\ index - start <= NGIM_TAIN_FORMAT
      /\ ~inside => \A k \in start + 1..index : ~Taken(text, arg_all, k)
      /\ inside \in BOOLEAN
  BY <1>1, <1>3, Zenon DEF MapInv, TaiconvTypeOK
<1>5. NGIM_TAIN_FORMAT \in Nat /\ NGIM_TAIN_FORMAT >= 2
  BY Formats
<1>6. ASSUME inside, ~is_hex_nibble(text[index + 1]) \/ index - start = NGIM_TAIN_FORMAT,
             IF Converts(Pending)
             THEN flush(convert_buffer(Pending).date, at) /\ start' = LabelEnd
             ELSE keep /\ UNCHANGED start,
             inside' = FALSE, UNCHANGED index
      PROVE  TaiconvInv'
  <2>1. Run(text, start + 1, index)
    BY <1>4, <1>6
  <2>2. Whole(text, start + 1, index)
    BY <1>2, <1>5, <1>6, <2>1 DEF Whole
  <2>3. start + 1 \in Nat /\ index \in Nat
    BY <1>2
  <2>4. /\ Converts(Pending) =>
             /\ LabelEnd \in (start + 1) + 1..index
             /\ Rest(text, arg_all)[start + 1]
                  = convert_buffer(Pending).date \o Rest(text, arg_all)[LabelEnd + 1]
        /\ \A k \in (start + 1) + 1..index : ~Taken(text, arg_all, k)
        /\ ~Converts(Pending) => \A k \in start + 1..index : ~Taken(text, arg_all, k)
    <3>1. Sought(text, arg_all, start + 1)
      BY <1>3 DEF Sought
    <3>2. LET p == SubSeq(text, start + 1, index)
              e == index - convert_buffer(p).unused
          IN /\ \A k \in (start + 1) + 1..index : ~Taken(text, arg_all, k)
             /\ Converts(p) =>
                  /\ e \in (start + 1) + 1..index
                  /\ Rest(text, arg_all)[start + 1] = convert_buffer(p).date \o Rest(text, arg_all)[e + 1]
             /\ ~Converts(p) => \A k \in start + 1..index : ~Taken(text, arg_all, k)
      BY <1>2, <2>2, <2>3, <3>1, RunRest, Zenon
    <3>3. QED
      BY <3>2, Zenon DEF Pending, LabelEnd
  <2>5. CASE Converts(Pending)
    <3>1. flush(convert_buffer(Pending).date, at) /\ start' = LabelEnd
      BY <1>6, <2>5, Zenon
    <3>2. LabelEnd + 1 \in 1..Len(text) + 1 /\ LabelEnd \in 0..index
          /\ \A k \in LabelEnd + 1..index : k \in (start + 1) + 1..index
      BY <1>2, <2>4, <2>5
    <3>3. convert_buffer(Pending).date \in Seq(Item)
      BY <1>2, BufferType
    <3>4. /\ out' \in Seq(Item)
          /\ \/ at' = at /\ out' \o Rest(text, arg_all)[LabelEnd + 1] = Whole_output(text)
             \/ at' = "unwritten" /\ IsPrefix(out', Whole_output(text))
      BY <1>1, <1>3, <2>4, <2>5, <3>1, <3>2, <3>3, MapFlush, Zenon
    <3>5. \A k \in start' + 1..index' : ~Taken(text, arg_all, k)
      BY <1>6, <2>4, <3>1, <3>2, Zenon
    <3>6. index' \in 0..Len(text) /\ start' \in 0..index' /\ ~inside' /\ inside' \in BOOLEAN
      BY <1>2, <1>6, <3>1, <3>2
    <3>7. \/ at' = "mmap" /\ out' \o Rest(text, arg_all)[start' + 1] = Whole_output(text)
          \/ at' = "unwritten" /\ IsPrefix(out', Whole_output(text))
      BY <1>3, <3>1, <3>4, Zenon
    <3>8. QED
      BY <1>1, <1>3, <3>4, <3>5, <3>6, <3>7, MapStays
  <2>6. CASE ~Converts(Pending)
    <3>1. out' = out /\ at' = at /\ start' = start
      BY <1>6, <2>6 DEF keep
    <3>2. \A k \in start' + 1..index' : ~Taken(text, arg_all, k)
      BY <1>6, <2>4, <2>6, <3>1, Zenon
    <3>3. index' \in 0..Len(text) /\ start' \in 0..index' /\ ~inside' /\ inside' \in BOOLEAN
      BY <1>2, <1>6, <3>1
    <3>4. out' \in Seq(Item) /\ at' = "mmap"
          /\ out' \o Rest(text, arg_all)[start' + 1] = Whole_output(text)
      BY <1>2, <1>3, <1>4, <3>1
    <3>5. QED
      BY <1>1, <1>3, <3>2, <3>3, <3>4, MapStays
  <2>7. QED
    BY <2>5, <2>6
<1>7. ASSUME inside, is_hex_nibble(text[index + 1]), index - start # NGIM_TAIN_FORMAT,
             index' = index + 1, keep, UNCHANGED mmap_vars
      PROVE  TaiconvInv'
  <2>1. out' = out /\ at' = at /\ start' = start /\ inside' = inside
    BY <1>7 DEF keep, mmap_vars
  <2>2. Run(text, start + 1, index + 1)
    <3>1. start + 1 \in Int /\ index \in Int /\ index + 1 <= Len(text)
      BY <1>2, <1>3
    <3>2. QED
      BY <1>2, <1>4, <1>7, <3>1, RunGrows
  <2>3. Run(text, start' + 1, index')
    BY <1>7, <2>1, <2>2
  <2>4. index' - start' <= NGIM_TAIN_FORMAT
    BY <1>2, <1>4, <1>5, <1>7, <2>1
  <2>5. index' \in 0..Len(text) /\ start' \in 0..index' /\ inside' /\ inside' \in BOOLEAN
    BY <1>2, <1>3, <1>4, <1>7, <2>1
  <2>6. out' \in Seq(Item) /\ at' = "mmap"
        /\ out' \o Rest(text, arg_all)[start' + 1] = Whole_output(text)
    BY <1>2, <1>3, <1>4, <2>1
  <2>7. QED
    BY <1>1, <1>3, <2>3, <2>4, <2>5, <2>6, MapStays
<1>8. ASSUME ~inside, text[index + 1] = At, flush(Plain(Pending), at),
             start' = index, inside' = TRUE, index' = index + 1
      PROVE  TaiconvInv'
  <2>1. Rest(text, arg_all)[start + 1] = Plain(Pending) \o Rest(text, arg_all)[index + 1]
    BY <1>1, <1>4, <1>8, PendingRest
  <2>2. index + 1 \in 1..Len(text) + 1 /\ index + 1 \in 1..Len(text) /\ index + 1 \in Int
    BY <1>2, <1>3
  <2>3. /\ out' \in Seq(Item)
        /\ \/ at' = at /\ out' \o Rest(text, arg_all)[index + 1] = Whole_output(text)
           \/ at' = "unwritten" /\ IsPrefix(out', Whole_output(text))
    BY <1>1, <1>2, <1>3, <1>8, <2>1, <2>2, MapFlush, Zenon
  <2>4. Run(text, index + 1, index + 1)
    BY <1>2, <1>8, <2>2, RunGrows
  <2>5. Run(text, start' + 1, index')
    BY <1>8, <2>4
  <2>6. index' \in 0..Len(text) /\ start' \in 0..index' /\ index' - start' <= NGIM_TAIN_FORMAT
    BY <1>2, <1>5, <1>8, <2>2
  <2>7. \/ at' = "mmap" /\ out' \o Rest(text, arg_all)[start' + 1] = Whole_output(text)
        \/ at' = "unwritten" /\ IsPrefix(out', Whole_output(text))
    BY <1>3, <1>8, <2>3, Zenon
  <2>8. inside' /\ inside' \in BOOLEAN
    BY <1>8
  <2>9. QED
    BY <1>1, <1>3, <2>3, <2>5, <2>6, <2>7, <2>8, MapStays
<1>9. ASSUME ~inside, text[index + 1] # At, index' = index + 1, keep, UNCHANGED mmap_vars
      PROVE  TaiconvInv'
  <2>1. out' = out /\ at' = at /\ start' = start /\ inside' = inside
    BY <1>9 DEF keep, mmap_vars
  <2>2. index + 1 \in 1..Len(text) /\ \A k \in start + 1..index + 1 : k \in start + 1..index \/ k = index + 1
    BY <1>2, <1>3
  <2>3. ~Taken(text, arg_all, index + 1)
    BY <1>2, <1>9, <2>2, NotAt
  <2>4. \A k \in start' + 1..index' : ~Taken(text, arg_all, k)
    BY <1>4, <1>9, <2>1, <2>2, <2>3, Zenon
  <2>5. index' \in 0..Len(text) /\ start' \in 0..index' /\ ~inside' /\ inside' \in BOOLEAN
    BY <1>2, <1>3, <1>4, <1>9, <2>1
  <2>6. out' \in Seq(Item) /\ at' = "mmap"
        /\ out' \o Rest(text, arg_all)[start' + 1] = Whole_output(text)
    BY <1>2, <1>3, <1>4, <2>1
  <2>7. QED
    BY <1>1, <1>3, <2>4, <2>5, <2>6, MapStays
<1>10. QED
  BY <1>6, <1>7, <1>8, <1>9, Zenon DEF convert_mmap_all, Next1

\* By lines, no label is looked for in the middle of one.
LEMMA LineRest ==
    ASSUME text \in Seq(Character), ~arg_all, NEW i \in 1..Len(text),
           text[i] # Newline
    PROVE  \A k \in i + 1..NextLine(i) : ~Taken(text, arg_all, k)
<1> DEFINE e == NextLine(i)
<1>1. Len(text) \in Nat /\ i \in 0..Len(text)
  BY LenProperties
<1>2. e \in i..Len(text) /\ \A k \in i + 1..e - 1 : text[k] # Newline
  BY <1>1, NextLineIs
<1> HIDE DEF e
<1>3. ASSUME NEW k \in i + 1..e PROVE ~Taken(text, arg_all, k)
  <2>1. k # 1 /\ (k - 1 = i \/ k - 1 \in i + 1..e - 1)
    BY <1>1, <1>2
  <2>2. text[k - 1] # Newline
    BY <1>2, <2>1
  <2>3. QED
    BY <2>1, <2>2 DEF Taken, Sought
<1>4. QED
  BY <1>3 DEF e

\* convert_mmap_nrm preserves the invariant.
LEMMA MapNrmInv ==
    ASSUME TaiconvInv, convert_mmap_nrm
    PROVE  TaiconvInv'
<1>1. TaiconvTypeOK /\ MapInv
  BY DEF TaiconvInv
<1>2. /\ text \in Seq(Character) /\ Len(text) \in Nat
      /\ index \in 0..Len(text) /\ start \in 0..index
      /\ out \in Seq(Item) /\ Plain(Pending) \in Seq(Item)
  BY <1>1, MapTypes
<1>3. /\ at = "mmap" /\ index < Len(text) /\ ~arg_all /\ inside' = inside
      /\ UNCHANGED <<text, stamped, arg_all, read_vars>>
  BY DEF convert_mmap_nrm, map_one
<1>4. /\ out \o Rest(text, arg_all)[start + 1] = Whole_output(text)
      /\ ~inside /\ inside \in BOOLEAN
      /\ \A k \in start + 1..index : ~Taken(text, arg_all, k)
  BY <1>1, <1>3, Zenon DEF MapInv, TaiconvTypeOK
<1>5. index = 0 \/ text[index] = Newline
  BY <1>1, <1>2, <1>3 DEF MapInv
<1>6. ~inside' /\ inside' \in BOOLEAN
  BY <1>3, <1>4
<1>7. index + 1 \in 1..Len(text) /\ index \in Nat /\ index + 1 \in Nat
  BY <1>2, <1>3
<1>8. Sought(text, arg_all, index + 1)
  BY <1>2, <1>5 DEF Sought
<1>9. ASSUME text[index + 1] # At, index' = NextLine(index), keep, UNCHANGED start
      PROVE  TaiconvInv'
  <2>1. out' = out /\ at' = at /\ start' = start
    BY <1>9 DEF keep
  <2> DEFINE e == NextLine(index)
  <2>2. /\ e \in index + 1..Len(text) /\ (e = Len(text) \/ text[e] = Newline)
        /\ \A k \in index + 1..e - 1 : text[k] # Newline
    <3>1. /\ e \in index..Len(text) /\ (index < Len(text) => e > index)
          /\ e = Len(text) \/ text[e] = Newline
          /\ \A k \in index + 1..e - 1 : text[k] # Newline
      BY <1>2, NextLineIs
    <3>2. QED
      BY <1>2, <1>3, <3>1
  <2> HIDE DEF e
  <2>3. ASSUME NEW k \in start + 1..e PROVE ~Taken(text, arg_all, k)
    <3>1. CASE k \in start + 1..index
      BY <1>4, <3>1
    <3>2. CASE k = index + 1
      BY <1>2, <1>7, <1>9, <3>2, NotAt
    <3>3. CASE k \in index + 2..e
      <4>1. k # 1 /\ k - 1 \in index + 1..e - 1
        BY <1>2, <2>2, <3>3
      <4>2. QED
        BY <1>3, <2>2, <4>1 DEF Taken, Sought
    <3>4. QED
      BY <1>2, <2>2, <3>1, <3>2, <3>3
  <2>4. \A k \in start' + 1..index' : ~Taken(text, arg_all, k)
    BY <1>9, <2>1, <2>3, Zenon DEF e
  <2>5. /\ index' \in 0..Len(text) /\ start' \in 0..index'
        /\ index' = Len(text) \/ text[index'] = Newline
    BY <1>2, <1>9, <2>1, <2>2 DEF e
  <2>6. out' \in Seq(Item) /\ at' = "mmap"
        /\ out' \o Rest(text, arg_all)[start' + 1] = Whole_output(text)
    BY <1>2, <1>3, <1>4, <2>1
  <2>7. QED
    BY <1>1, <1>3, <1>6, <2>4, <2>5, <2>6, MapStays
<1>10. ASSUME text[index + 1] = At,
              LET end   == StampEnd(index)
                  label == SubSeq(text, index + 1, end)
              IN /\ flush(Plain(Pending) \o convert_buffer(label).date, at)
                 /\ start' = IF Converts(label) THEN end - convert_buffer(label).unused
                             ELSE index
                 /\ index' = NextLine(end)
       PROVE  TaiconvInv'
  <2> DEFINE end   == StampEnd(index)
             label == SubSeq(text, index + 1, end)
             date  == convert_buffer(label).date
             f     == Rest(text, arg_all)
             m     == IF Converts(label) THEN end - convert_buffer(label).unused ELSE index
  <2>1. /\ flush(Plain(Pending) \o date, at) /\ start' = m /\ index' = NextLine(end)
    BY <1>10
  <2>2. end \in index + 1..Len(text) /\ Whole(text, index + 1, end)
    BY <1>2, <1>3, <1>7, <1>10, StampEndIs
  <2>3. end \in Nat /\ end \in 1..Len(text) /\ end \in 0..Len(text)
    BY <1>2, <2>2
  <2> HIDE DEF end
  <2>4. label \in Seq(Character) /\ date \in Seq(Item)
    <3>1. \A k \in index + 1..end : text[k] \in Character
      BY <1>2, <2>2
    <3>2. label \in Seq(Character)
      BY <1>7, <2>3, <3>1, SubSeqProperties
    <3>3. QED
      BY <3>2, BufferType
  <2>5. LET p == SubSeq(text, index + 1, end)
            e == end - convert_buffer(p).unused
        IN /\ \A k \in (index + 1) + 1..end : ~Taken(text, arg_all, k)
           /\ Converts(p) =>
                /\ e \in (index + 1) + 1..end
                /\ Rest(text, arg_all)[index + 1]
                     = convert_buffer(p).date \o Rest(text, arg_all)[e + 1]
           /\ ~Converts(p) => \A k \in index + 1..end : ~Taken(text, arg_all, k)
    BY <1>2, <1>7, <1>8, <2>2, <2>3, RunRest, Zenon
  <2>6. /\ m \in index..end
        /\ f[index + 1] = date \o f[m + 1]
        /\ \A k \in m + 1..end : ~Taken(text, arg_all, k)
    <3>1. CASE Converts(label)
      <4>1. m = end - convert_buffer(label).unused
        BY <3>1
      <4>2. /\ \A k \in (index + 1) + 1..end : ~Taken(text, arg_all, k)
            /\ m \in (index + 1) + 1..end /\ f[index + 1] = date \o f[m + 1]
        BY <2>5, <3>1, <4>1, Zenon
      <4> HIDE DEF m
      <4>3. m \in index..end /\ \A k \in m + 1..end : k \in (index + 1) + 1..end
        BY <1>2, <2>3, <4>2
      <4>4. QED
        BY <4>2, <4>3, Zenon
    <3>2. CASE ~Converts(label)
      <4>1. m = index /\ date = <<>>
        BY <3>2 DEF Converts
      <4>2. f[index + 1] \in Seq(Item)
        <5>1. index + 1 \in 1..Len(text) + 1
          BY <1>2
        <5>2. QED
          BY <1>2, <5>1, RestType
      <4>3. f[index + 1] = <<>> \o f[index + 1]
        BY <4>2, ConcatEmptySeq
      <4>4. \A k \in index + 1..end : ~Taken(text, arg_all, k)
        BY <2>5, <3>2, Zenon
      <4>5. index \in index..end
        BY <1>2, <2>2
      <4> HIDE DEF m, f, date
      <4>6. QED
        BY <4>1, <4>3, <4>4, <4>5, Zenon
    <3>3. QED
      BY <3>1, <3>2
  <2> HIDE DEF m, label
  <2>7. f[start + 1] = (Plain(Pending) \o date) \o f[m + 1]
    <3>1. f[start + 1] = Plain(Pending) \o f[index + 1]
      BY <1>1, <1>4, PendingRest
    <3>2. f[m + 1] \in Seq(Item)
      <4>1. m + 1 \in 1..Len(text) + 1
        BY <1>2, <2>3, <2>6
      <4>2. QED
        BY <1>2, <4>1, RestType
    <3> HIDE DEF f, date
    <3>3. (Plain(Pending) \o date) \o f[m + 1] = Plain(Pending) \o (date \o f[m + 1])
      BY <1>2, <2>4, <3>2, ItemsAssociate, Zenon
    <3>4. QED
      BY <2>6, <3>1, <3>3, Zenon
  <2>8. m + 1 \in 1..Len(text) + 1 /\ Plain(Pending) \o date \in Seq(Item)
    <3>1. Plain(Pending) \o date \in Seq(Item)
      BY <1>2, <2>4, ConcatProperties
    <3>2. QED
      BY <1>2, <2>3, <2>6, <3>1
  <2>9. /\ out' \in Seq(Item)
        /\ \/ at' = at /\ out' \o Rest(text, arg_all)[m + 1] = Whole_output(text)
           \/ at' = "unwritten" /\ IsPrefix(out', Whole_output(text))
    BY <1>1, <1>3, <2>1, <2>7, <2>8, MapFlush, Zenon
  <2>10. text[end] # Newline
    <3>1. end = index + 1 \/ end \in (index + 1) + 1..end
      BY <1>2, <2>2
    <3>2. end \in (index + 1) + 1..end => is_hex_nibble(text[end])
      BY <2>2 DEF Whole, Run
    <3>3. QED
      BY <1>10, <3>1, <3>2, Characters
  <2>11. \A k \in end + 1..NextLine(end) : ~Taken(text, arg_all, k)
    BY <1>2, <1>3, <2>3, <2>10, LineRest
  <2> DEFINE e == NextLine(end)
  <2>12. e \in end..Len(text) /\ (e = Len(text) \/ text[e] = Newline)
    BY <1>2, <2>3, NextLineIs
  <2> HIDE DEF e
  <2>13. \A k \in m + 1..e : ~Taken(text, arg_all, k)
    <3>1. \A k \in m + 1..e : k \in m + 1..end \/ k \in end + 1..e
      BY <1>2, <2>3, <2>6, <2>12
    <3>2. QED
      BY <2>6, <2>11, <3>1, Zenon DEF e
  <2>14. index' = e /\ start' = m
    BY <2>1 DEF e
  <2>15. /\ index' \in 0..Len(text) /\ start' \in 0..index'
         /\ index' = Len(text) \/ text[index'] = Newline
    BY <1>2, <2>3, <2>6, <2>12, <2>14
  <2>16. \A k \in start' + 1..index' : ~Taken(text, arg_all, k)
    BY <2>13, <2>14, Zenon
  <2>17. \/ at' = "mmap" /\ out' \o Rest(text, arg_all)[start' + 1] = Whole_output(text)
         \/ at' = "unwritten" /\ IsPrefix(out', Whole_output(text))
    BY <1>3, <2>9, <2>14, Zenon
  <2>18. QED
    BY <1>1, <1>3, <1>6, <2>9, <2>15, <2>16, <2>17, MapStays
<1>11. QED
  BY <1>9, <1>10, Zenon DEF convert_mmap_nrm, Next1

\* What the last step leaves is a state of the invariant.
LEMMA EndStays ==
    ASSUME TaiconvTypeOK, UNCHANGED <<text, stamped, arg_all, index>>,
           start' \in 0..index, inside' \in BOOLEAN, line_start' \in BOOLEAN,
           textual' \in Seq(Character), Len(textual') <= NGIM_TAIN_FORMAT,
           out' \in Seq(Item),
           \/ at' = "done" /\ out' = Whole_output(text)
           \/ at' = "unread" /\ out' = Whole_output(Cut(index))
           \/ at' = "unwritten" /\ IsPrefix(out', Whole_output(text))
           \/ at' = "unwritten" /\ IsPrefix(out', Whole_output(Cut(index)))
    PROVE  TaiconvInv'
<1>1. /\ text' = text /\ stamped' = stamped /\ arg_all' = arg_all /\ index' = index
  OBVIOUS
<1>2. TaiconvTypeOK'
  <2>1. out' \in Seq([char: Character] \cup [date: Int])
    BY Zenon DEF Item
  <2>2. at' \in {"open", "mmap", "read", "done", "unread", "unwritten"}
    OBVIOUS
  <2>3. QED
    BY <1>1, <2>1, <2>2 DEF TaiconvTypeOK
<1>3. at' # "open" /\ at' # "read" /\ at' # "mmap"
  OBVIOUS
<1>4. Whole_output(text)' = Whole_output(text) /\ Whole_output(Cut(index))' = Whole_output(Cut(index))
  BY <1>1 DEF Whole_output, Cut
<1>5. EndInv'
  <2>1. at' = "done" => out' = Whole_output(text)
    OBVIOUS
  <2>2. at' = "unread" => out' = Whole_output(Cut(index))
    OBVIOUS
  <2>3. at' = "unwritten" => IsPrefix(out', Whole_output(text)) \/ IsPrefix(out', Whole_output(Cut(index)))
    OBVIOUS
  <2>4. QED
    BY <1>4, <2>1, <2>2, <2>3, Zenon DEF EndInv
<1>6. QED
  BY <1>2, <1>3, <1>5 DEF TaiconvInv, OpenInv, ReadInv, MapInv

\* What is shown of a collected text is a sequence of items.
LEMMA ShownType ==
    ASSUME NEW s \in Seq(Character)
    PROVE  Shown(s) \in Seq(Item)
<1>1. CASE Converts(s)
  <2>1. convert_buffer(s).date \in Seq(Item) /\ convert_buffer(s).unused \in 0..Len(s)
    BY BufferType
  <2> DEFINE m == Len(s) - convert_buffer(s).unused + 1
  <2>2. Len(s) \in Nat
    BY LenProperties
  <2>3. m \in Int /\ \A k \in m..Len(s) : s[k] \in Character
    BY <2>1, <2>2
  <2> HIDE DEF m
  <2>4. SubSeq(s, m, Len(s)) \in Seq(Character)
    BY <2>2, <2>3, SubSeqProperties
  <2>5. Plain(Unused(s)) \in Seq(Item)
    BY <2>4, PlainIs DEF Unused, m
  <2>6. convert_buffer(s).date \o Plain(Unused(s)) \in Seq(Item)
    BY <2>1, <2>5, ConcatProperties
  <2>7. QED
    BY <1>1, <2>6 DEF Shown
<1>2. CASE ~Converts(s)
  BY <1>2, PlainIs DEF Shown
<1>3. QED
  BY <1>1, <1>2

\* The end of the mapped text preserves the invariant.
LEMMA MapEndInv ==
    ASSUME TaiconvInv, convert_mmap_end
    PROVE  TaiconvInv'
<1>1. TaiconvTypeOK /\ MapInv
  BY DEF TaiconvInv
<1>2. /\ text \in Seq(Character) /\ Len(text) \in Nat
      /\ index \in 0..Len(text) /\ start \in 0..index
      /\ out \in Seq(Item) /\ Plain(Pending) \in Seq(Item) /\ Pending \in Seq(Character)
  BY <1>1, MapTypes
<1>3. /\ at = "mmap" /\ index = Len(text)
      /\ flush(IF inside THEN Shown(Pending) ELSE Plain(Pending), "done")
      /\ start' = index
      /\ UNCHANGED <<text, stamped, arg_all, index, inside, read_vars>>
  BY DEF convert_mmap_end
<1>4. /\ inside => arg_all /\ Run(text, start + 1, index)
      /\ ~inside => \A k \in start + 1..index : ~Taken(text, arg_all, k)
      /\ inside \in BOOLEAN
  BY <1>1, <1>3, Zenon DEF MapInv, TaiconvTypeOK
<1> DEFINE items == IF inside THEN Shown(Pending) ELSE Plain(Pending)
<1>5. items \in Seq(Item)
  BY <1>2, ShownType
<1>6. Rest(text, arg_all)[start + 1] = items \o Rest(text, arg_all)[index + 1]
  <2>1. CASE inside
    <3>1. Sought(text, arg_all, start + 1)
      BY <1>4, <2>1 DEF Sought
    <3>2. Whole(text, start + 1, index)
      BY <1>3, <1>4, <2>1 DEF Whole
    <3>3. start + 1 \in Nat /\ index \in Nat
      BY <1>2
    <3>4. Rest(text, arg_all)[start + 1]
            = Shown(SubSeq(text, start + 1, index)) \o Rest(text, arg_all)[index + 1]
      BY <1>2, <3>1, <3>2, <3>3, ShownRest, Zenon
    <3>5. QED
      BY <2>1, <3>4, Zenon DEF Pending
  <2>2. CASE ~inside
    <3>1. Rest(text, arg_all)[start + 1] = Plain(Pending) \o Rest(text, arg_all)[index + 1]
      BY <1>1, <1>4, <2>2, PendingRest
    <3>2. QED
      BY <2>2, <3>1, Zenon
  <2>3. QED
    BY <2>1, <2>2
<1>7. index + 1 \in 1..Len(text) + 1
  BY <1>2
<1>8. flush(items, "done")
  BY <1>3
<1> HIDE DEF items
<1>9. /\ out' \in Seq(Item)
      /\ \/ at' = "done" /\ out' \o Rest(text, arg_all)[index + 1] = Whole_output(text)
         \/ at' = "unwritten" /\ IsPrefix(out', Whole_output(text))
  BY <1>1, <1>3, <1>5, <1>6, <1>7, <1>8, MapFlush, Zenon
<1>10. Rest(text, arg_all)[index + 1] = <<>>
  BY <1>2, <1>3, RestIs
<1>11. out' \o Rest(text, arg_all)[index + 1] = out'
  BY <1>9, <1>10, ConcatEmptySeq
<1>12. /\ start' \in 0..index /\ inside' \in BOOLEAN /\ line_start' \in BOOLEAN
       /\ textual' \in Seq(Character) /\ Len(textual') <= NGIM_TAIN_FORMAT
  <2>1. inside' = inside /\ line_start' = line_start /\ textual' = textual /\ start' = index
    BY <1>3 DEF read_vars
  <2>2. index \in 0..index
    BY <1>2
  <2>3. QED
    BY <1>1, <2>1, <2>2 DEF TaiconvTypeOK
<1>13. UNCHANGED <<text, stamped, arg_all, index>>
  BY <1>3
<1>14. \/ at' = "done" /\ out' = Whole_output(text)
       \/ at' = "unwritten" /\ IsPrefix(out', Whole_output(text))
  BY <1>9, <1>11, Zenon
<1>15. QED
  BY <1>1, <1>9, <1>12, <1>13, <1>14, EndStays

-----------------------------------------------------------------------------
(* The text is opened *)

LEMMA OpenStep ==
    ASSUME TaiconvInv, convert_mmap
    PROVE  TaiconvInv'
<1>1. TaiconvTypeOK
  BY DEF TaiconvInv
<1>2. /\ text \in Seq(Character) /\ Len(text) \in Nat
      /\ index \in 0..Len(text) /\ start \in 0..index /\ out \in Seq(Item)
  BY <1>1, MapTypes
<1>3. /\ index = 0 /\ start = 0 /\ inside = FALSE
      /\ line_start = TRUE /\ textual = <<>> /\ out = <<>>
  BY DEF TaiconvInv, OpenInv, convert_mmap
<1>4. /\ text' = text /\ stamped' = stamped /\ arg_all' = arg_all /\ index' = index
      /\ start' = start /\ inside' = inside /\ line_start' = line_start /\ textual' = textual
      /\ out' = out /\ at' \in {"mmap", "read"}
  <2>1. at' \in {"mmap", "read"}
    <3>1. CASE text = <<>>
      BY <3>1 DEF convert_mmap
    <3>2. CASE text # <<>>
      BY <3>2 DEF convert_mmap
    <3>3. QED
      BY <3>1, <3>2
  <2>2. QED
    BY <2>1 DEF convert_mmap, mmap_vars, read_vars
<1>5. TaiconvTypeOK'
  <2>1. at' \in {"open", "mmap", "read", "done", "unread", "unwritten"}
    BY <1>4
  <2>2. QED
    BY <1>1, <1>4, <2>1 DEF TaiconvTypeOK
<1>6. \A s \in Seq(Character) : <<>> \o Rest(s, arg_all)[1] = Whole_output(s)
  <2> SUFFICES ASSUME NEW s \in Seq(Character)
               PROVE  <<>> \o Rest(s, arg_all)[1] = Rest(s, arg_all)[1]
    BY DEF Whole_output
  <2>1. 1 \in 1..Len(s) + 1
    BY LenProperties
  <2>2. QED
    BY <2>1, RestType, ConcatEmptySeq
<1>7. CASE at' = "mmap"
  <2>1. start' + 1 = 1 /\ index' = 0 /\ ~inside' /\ inside' \in BOOLEAN /\ start' \in 0..index'
        /\ index' \in 0..Len(text)
    <3>1. inside' = FALSE /\ start' = 0 /\ index' = 0
      BY <1>3, <1>4
    <3>2. ~inside' /\ inside' \in BOOLEAN
      BY <3>1
    <3>3. QED
      BY <1>2, <3>1, <3>2
  <2>2. out' \o Rest(text, arg_all)[start' + 1] = Whole_output(text)
    BY <1>2, <1>3, <1>4, <1>6, <2>1
  <2>3. \A k \in start' + 1..index' : ~Taken(text, arg_all, k)
    BY <2>1
  <2>4. UNCHANGED <<text, stamped, arg_all, read_vars>> /\ out' \in Seq(Item)
    BY <1>2, <1>4 DEF read_vars
  <2>5. QED
    BY <1>1, <1>7, <2>1, <2>2, <2>3, <2>4, MapStays
<1>8. CASE at' = "read"
  <2>1. Len(textual) = 0 /\ Buffered = 1
    BY <1>3 DEF Buffered
  <2>2. Buffered' = 1 /\ index' = 0 /\ textual' = <<>>
    BY <1>3, <1>4 DEF Buffered
  <2>3. SubSeq(text, 1, 0) = <<>>
    BY SubSeqEmpty
  <2>4. ASSUME NEW n \in 0..Len(text)
        PROVE  <<>> \o Rest(Cut(n), arg_all)[1] = Whole_output(Cut(n))
    BY <1>2, <1>6, CutIs
  <2>5. Sought(text, arg_all, 0 + 1)
    BY DEF Sought
  <2>6. ReadInv'
    <3>1. \A n \in 0..Len(text) : out' \o Rest(Cut(n)', arg_all')[1] = Whole_output(Cut(n))'
      BY <1>3, <1>4, <2>4 DEF Whole_output, Cut
    <3>2. Buffered' \in 1..index' + 1 /\ textual' = SubSeq(text', Buffered', index')
      BY <1>4, <2>2, <2>3
    <3>3. line_start' = (textual' = <<>> /\ Sought(text', arg_all', index' + 1))
      BY <1>3, <1>4, <2>2, <2>5
    <3>4. \A n \in index'..Len(text') :
             out' \o Rest(Cut(n)', arg_all')[Buffered'] = Whole_output(Cut(n))'
      BY <1>4, <2>2, <3>1
    <3>5. QED
      BY <2>2, <3>2, <3>3, <3>4 DEF ReadInv
  <2>7. at' # "mmap" /\ at' # "open" /\ at' # "done" /\ at' # "unread" /\ at' # "unwritten"
    BY <1>8
  <2>8. QED
    BY <1>5, <2>6, <2>7 DEF TaiconvInv, OpenInv, MapInv, EndInv
<1>9. QED
  BY <1>4, <1>7, <1>8

-----------------------------------------------------------------------------
(* A text that is read *)

LEMMA ReadTypes ==
    ASSUME TaiconvTypeOK, ReadInv, at = "read"
    PROVE  /\ text \in Seq(Character) /\ Len(text) \in Nat /\ index \in 0..Len(text)
           /\ out \in Seq(Item) /\ textual \in Seq(Character) /\ Len(textual) \in Nat
           /\ Len(textual) <= NGIM_TAIN_FORMAT
           /\ Buffered \in 1..index + 1 /\ Len(textual) = index + 1 - Buffered
           /\ textual = SubSeq(text, Buffered, index)
           /\ (textual = <<>>) <=> (Buffered = index + 1)
<1>1. /\ text \in Seq(Character) /\ Len(text) \in Nat /\ index \in 0..Len(text)
      /\ textual \in Seq(Character) /\ Len(textual) \in Nat /\ Len(textual) <= NGIM_TAIN_FORMAT
  BY LenProperties DEF TaiconvTypeOK
<1>2. out \in Seq(Item)
  BY Zenon DEF TaiconvTypeOK, Item
<1>3. Buffered \in 1..index + 1 /\ textual = SubSeq(text, Buffered, index)
  BY DEF ReadInv
<1>4. Len(textual) = index + 1 - Buffered
  BY <1>1 DEF Buffered
<1>5. (textual = <<>>) <=> (Len(textual) = 0)
  BY <1>1, EmptySeq
<1>6. (textual = <<>>) <=> (Buffered = index + 1)
  BY <1>1, <1>3, <1>4, <1>5
<1>7. QED
  BY <1>1, <1>2, <1>3, <1>4, <1>6

\* What a step of convert_read leaves is a state of the invariant.
LEMMA ReadStays ==
    ASSUME TaiconvTypeOK, UNCHANGED <<text, stamped, arg_all, mmap_vars>>,
           index < Len(text), index' = index + 1,
           NEW b \in 1..index + 2, textual' = SubSeq(text, b, index + 1),
           index + 2 - b <= NGIM_TAIN_FORMAT,
           b # index + 2 => Run(text, b, index + 1) /\ Sought(text, arg_all, b),
           line_start' \in BOOLEAN,
           ~arg_all => line_start' = (b = index + 2 /\ Sought(text, arg_all, index + 2)),
           out' \in Seq(Item),
           \/ /\ at' = "read"
              /\ \A n \in index + 1..Len(text) :
                   out' \o Rest(Cut(n), arg_all)[b] = Whole_output(Cut(n))
           \/ at' = "unwritten" /\ IsPrefix(out', Whole_output(text))
    PROVE  TaiconvInv'
<1>1. /\ text' = text /\ stamped' = stamped /\ arg_all' = arg_all
      /\ start' = start /\ inside' = inside
  BY DEF mmap_vars
<1>2. /\ text \in Seq(Character) /\ Len(text) \in Nat
      /\ index \in 0..Len(text) /\ start \in 0..index
  BY MapTypes
<1>3. /\ textual' \in Seq(Character) /\ Len(textual') = index + 2 - b
      /\ (textual' = <<>>) <=> (b = index + 2)
  <2>1. \A k \in b..index + 1 : text[k] \in Character
    BY <1>2
  <2>2. /\ textual' \in Seq(Character)
        /\ Len(textual') = IF b <= index + 1 THEN index + 1 - b + 1 ELSE 0
    BY <1>2, <2>1, SubSeqProperties
  <2>3. Len(textual') = index + 2 - b
    BY <1>2, <2>2
  <2>4. (textual' = <<>>) <=> (Len(textual') = 0)
    BY <2>2, EmptySeq
  <2>5. Len(textual') = 0 <=> b = index + 2
    BY <1>2, <2>3
  <2>6. QED
    BY <2>2, <2>3, <2>4, <2>5, Zenon
<1>4. TaiconvTypeOK'
  <2>1. out' \in Seq([char: Character] \cup [date: Int])
    BY Zenon DEF Item
  <2>2. at' \in {"open", "mmap", "read", "done", "unread", "unwritten"}
    OBVIOUS
  <2>3. index' \in 0..Len(text') /\ start' \in 0..index'
    BY <1>1, <1>2
  <2>4. Len(textual') <= NGIM_TAIN_FORMAT
    BY <1>3
  <2>5. QED
    BY <1>1, <1>3, <2>1, <2>2, <2>3, <2>4 DEF TaiconvTypeOK
<1>5. at' # "open" /\ at' # "mmap" /\ at' # "done" /\ at' # "unread"
  OBVIOUS
<1>6. Buffered' = b
  <2>1. Buffered' = index' - Len(textual') + 1
    BY DEF Buffered
  <2>2. QED
    BY <1>2, <1>3, <2>1
<1>7. CASE at' = "read"
  <2>1. at' # "unwritten" /\ \A n \in index + 1..Len(text) :
                               out' \o Rest(Cut(n), arg_all)[b] = Whole_output(Cut(n))
    BY <1>7
  <2>2. \A n \in index'..Len(text') :
           out' \o Rest(Cut(n)', arg_all')[b] = Whole_output(Cut(n))'
    BY <1>1, <2>1 DEF Whole_output, Cut
  <2>3. b \in 1..index' + 1 /\ textual' = SubSeq(text', b, index')
    BY <1>1, <1>2
  <2>4. textual' # <<>> => Run(text', b, index') /\ Sought(text', arg_all', b)
    BY <1>1, <1>3
  <2>5. ~arg_all' => line_start' = (textual' = <<>> /\ Sought(text', arg_all', index' + 1))
    <3>1. index' + 1 = index + 2
      BY <1>2
    <3>2. QED
      BY <1>1, <1>3, <3>1
  <2>6. ReadInv'
    <3>1. \A n \in index'..Len(text') :
             out' \o Rest(Cut(n)', arg_all')[Buffered'] = Whole_output(Cut(n))'
      BY <1>6, <2>2
    <3>2. QED
      BY <1>6, <2>3, <2>4, <2>5, <3>1 DEF ReadInv
  <2>7. QED
    BY <1>4, <1>5, <2>1, <2>6 DEF TaiconvInv, OpenInv, MapInv, EndInv
<1>8. CASE at' = "unwritten"
  <2>1. at' # "read"
    BY <1>8
  <2>2. IsPrefix(out', Whole_output(text)')
    BY <1>1, <2>1 DEF Whole_output
  <2>3. QED
    BY <1>4, <1>5, <2>1, <2>2 DEF TaiconvInv, OpenInv, ReadInv, MapInv, EndInv
<1>9. QED
  BY <1>7, <1>8

\* The reading loop writes what the output says up to place b, and keeps the rest.
LEMMA ReadFlush ==
    ASSUME TaiconvTypeOK, ReadInv, at = "read", index < Len(text),
           NEW items \in Seq(Item), NEW b \in 1..index + 2,
           \A n \in index + 1..Len(text) :
             Rest(Cut(n), arg_all)[Buffered] = items \o Rest(Cut(n), arg_all)[b],
           flush(items, at)
    PROVE  /\ out' \in Seq(Item)
           /\ \/ /\ at' = "read"
                 /\ \A n \in index + 1..Len(text) :
                      out' \o Rest(Cut(n), arg_all)[b] = Whole_output(Cut(n))
              \/ at' = "unwritten" /\ IsPrefix(out', Whole_output(text))
<1>1. /\ text \in Seq(Character) /\ Len(text) \in Nat
      /\ index \in 0..Len(text) /\ out \in Seq(Item)
  BY ReadTypes
<1>2. ASSUME NEW n \in index + 1..Len(text)
      PROVE  /\ out' \in Seq(Item)
             /\ \/ at' = "read" /\ out' \o Rest(Cut(n), arg_all)[b] = Whole_output(Cut(n))
                \/ at' = "unwritten" /\ IsPrefix(out', Whole_output(Cut(n)))
  <2>1. n \in 0..Len(text) /\ n \in index..Len(text)
    BY <1>1
  <2>2. Cut(n) \in Seq(Character) /\ Len(Cut(n)) = n
    BY <1>1, <2>1, CutIs
  <2>3. b \in 1..Len(Cut(n)) + 1
    BY <1>1, <2>2
  <2>4. Rest(Cut(n), arg_all)[b] \in Seq(Item)
    BY <2>2, <2>3, RestType
  <2>5. Whole_output(Cut(n)) = out \o (items \o Rest(Cut(n), arg_all)[b])
    BY <2>1 DEF ReadInv
  <2>6. QED
    BY <1>1, <2>4, <2>5, FlushDoes
<1>3. Len(text) \in index + 1..Len(text) /\ Len(text) \in 0..Len(text)
  BY <1>1
<1>4. Cut(Len(text)) = text
  BY <1>1, <1>3, CutIs
<1>5. out' \in Seq(Item)
  BY <1>2, <1>3
<1>6. CASE at' = "read"
  <2>1. at' # "unwritten"
    BY <1>6
  <2>2. QED
    BY <1>2, <1>5, <1>6, <2>1
<1>7. CASE at' # "read"
  BY <1>2, <1>3, <1>4, <1>5, <1>7
<1>8. QED
  BY <1>6, <1>7

\* What holds of the text up to n holds of it when it is cut there.
LEMMA CutKeeps ==
    ASSUME text \in Seq(Character), NEW n \in 0..Len(text), NEW i \in 1..n, NEW j \in i..n, NEW all
    PROVE  /\ Run(text, i, j) => Run(Cut(n), i, j)
           /\ Sought(Cut(n), all, i) <=> Sought(text, all, i)
<1>1. /\ Len(Cut(n)) = n /\ \A k \in 1..n : Cut(n)[k] = text[k]
  BY CutIs
<1>2. n \in Nat /\ Len(text) \in Nat
  BY LenProperties
<1>3. ASSUME Run(text, i, j) PROVE Run(Cut(n), i, j)
  <2>1. text[i] = At /\ \A k \in i + 1..j : is_hex_nibble(text[k])
    BY <1>3 DEF Run
  <2>2. \A k \in i + 1..j : k \in 1..n
    BY <1>2
  <2>3. Cut(n)[i] = At /\ \A k \in i + 1..j : is_hex_nibble(Cut(n)[k])
    BY <1>1, <2>1, <2>2
  <2>4. QED
    BY <1>1, <2>3 DEF Run
<1>4. i = 1 \/ Cut(n)[i - 1] = text[i - 1]
  <2>1. i = 1 \/ i - 1 \in 1..n
    BY <1>2
  <2>2. QED
    BY <1>1, <2>1
<1>5. Sought(Cut(n), all, i) <=> Sought(text, all, i)
  BY <1>4 DEF Sought
<1>6. QED
  BY <1>3, <1>5

\* The buffer is written when its run has ended.
LEMMA CutShown ==
    ASSUME TaiconvTypeOK, ReadInv, at = "read", textual # <<>>,
           NEW n \in index..Len(text),
           n = index \/ ~(is_hex_nibble(text[index + 1]) /\ Fits)
    PROVE  Rest(Cut(n), arg_all)[Buffered] = Shown(textual) \o Rest(Cut(n), arg_all)[index + 1]
<1>1. /\ text \in Seq(Character) /\ Len(text) \in Nat /\ index \in 0..Len(text)
      /\ Len(textual) \in Nat /\ Len(textual) <= NGIM_TAIN_FORMAT
      /\ Buffered \in 1..index + 1 /\ Len(textual) = index + 1 - Buffered
      /\ textual = SubSeq(text, Buffered, index) /\ Buffered # index + 1
  BY ReadTypes
<1>2. Run(text, Buffered, index) /\ Sought(text, arg_all, Buffered)
  BY DEF ReadInv
<1> DEFINE b == Buffered
<1>3. b \in 1..index /\ index \in b..n /\ n \in 0..Len(text) /\ b \in 1..n /\ b \in Nat /\ index \in Nat
  BY <1>1
<1> HIDE DEF b
<1>4. /\ Cut(n) \in Seq(Character) /\ Len(Cut(n)) = n /\ \A k \in 1..n : Cut(n)[k] = text[k]
      /\ SubSeq(Cut(n), b, index) = SubSeq(text, b, index)
  BY <1>1, <1>3, CutIs
<1>5. Run(Cut(n), b, index) /\ Sought(Cut(n), arg_all, b)
  BY <1>1, <1>2, <1>3, CutKeeps, Zenon DEF b
<1>6. index = n \/ ~is_hex_nibble(Cut(n)[index + 1]) \/ index - b + 1 >= NGIM_TAIN_FORMAT
  <2>1. ASSUME index # n PROVE Cut(n)[index + 1] = text[index + 1]
    <3>1. index + 1 \in 1..n
      BY <1>1, <2>1
    <3>2. QED
      BY <1>4, <3>1
  <2>2. ~Fits => index - b + 1 >= NGIM_TAIN_FORMAT
    BY <1>1, Formats DEF Fits, b
  <2>3. QED
    BY <2>1, <2>2
<1>7. Whole(Cut(n), b, index)
  BY <1>4, <1>5, <1>6 DEF Whole
<1>8. Rest(Cut(n), arg_all)[b] = Shown(SubSeq(Cut(n), b, index)) \o Rest(Cut(n), arg_all)[index + 1]
  BY <1>3, <1>4, <1>5, <1>7, ShownRest, Zenon
<1>9. QED
  BY <1>1, <1>4, <1>8, Zenon DEF b

\* A character that begins no label is written.
LEMMA CutPlain ==
    ASSUME TaiconvTypeOK, ReadInv, at = "read", index < Len(text),
           text[index + 1] # At \/ ~Sought(text, arg_all, index + 1),
           NEW n \in index + 1..Len(text)
    PROVE  Rest(Cut(n), arg_all)[index + 1]
             = Plain(<<text[index + 1]>>) \o Rest(Cut(n), arg_all)[index + 2]
<1>1. text \in Seq(Character) /\ Len(text) \in Nat /\ index \in 0..Len(text)
  BY ReadTypes
<1>2. n \in 0..Len(text) /\ index + 1 \in 1..n /\ index + 1 \in index + 1..n /\ (index + 1) + 1 = index + 2
  BY <1>1
<1>3. /\ Cut(n) \in Seq(Character) /\ Len(Cut(n)) = n
      /\ Cut(n)[index + 1] = text[index + 1]
  BY <1>1, <1>2, CutIs
<1>4. Sought(Cut(n), arg_all, index + 1) <=> Sought(text, arg_all, index + 1)
  BY <1>1, <1>2, CutKeeps, Zenon
<1>5. ~Taken(Cut(n), arg_all, index + 1)
  <2>1. CASE text[index + 1] # At
    BY <1>2, <1>3, <2>1, NotAt
  <2>2. CASE ~Sought(text, arg_all, index + 1)
    BY <1>4, <2>2, Zenon DEF Taken
  <2>3. QED
    BY <2>1, <2>2
<1>6. Rest(Cut(n), arg_all)[index + 1]
        = Plain(<<Cut(n)[index + 1]>>) \o Rest(Cut(n), arg_all)[(index + 1) + 1]
  BY <1>2, <1>3, <1>5, RestIs, Zenon
<1>7. QED
  BY <1>2, <1>3, <1>6, Zenon

\* What reading one character leaves alone.
LEMMA ReadOne ==
    ASSUME TaiconvTypeOK, ReadInv, read_one
    PROVE  /\ at = "read" /\ index < Len(text) /\ index' = index + 1
           /\ UNCHANGED <<text, stamped, arg_all, mmap_vars>>
           /\ index + 1 \in 1..Len(text) /\ text[index + 1] \in Character
           /\ index + 1 \in Int /\ index + 2 \in Int
           /\ <<text[index + 1]>> \in Seq(Character)
           /\ Plain(<<text[index + 1]>>) \in Seq(Item)
           /\ SubSeq(text, index + 1, index + 1) = <<text[index + 1]>>
           /\ SubSeq(text, index + 2, index + 1) = <<>>
<1>1. /\ at = "read" /\ index < Len(text) /\ index' = index + 1
      /\ UNCHANGED <<text, stamped, arg_all, mmap_vars>>
  BY DEF read_one
<1>2. text \in Seq(Character) /\ Len(text) \in Nat /\ index \in 0..Len(text)
  BY <1>1, ReadTypes
<1>3. /\ index + 1 \in 1..Len(text) /\ index + 1 \in index + 1..Len(text)
      /\ index + 1 < index + 2 /\ (index + 1) + 1 = index + 2
      /\ index + 1 \in Int /\ index + 2 \in Int
  BY <1>1, <1>2
<1>4. text[index + 1] \in Character
  BY <1>2, <1>3, ElementOfSeq
<1>5. SubSeq(text, index + 2, index + 1) = <<>>
  BY <1>3, SubSeqEmpty
<1>6. SubSeq(text, index + 1, index + 1) = <<text[index + 1]>>
  <2>1. SubSeq(text, index + 1, index + 1)
          = <<text[index + 1]>> \o SubSeq(text, (index + 1) + 1, index + 1)
    BY <1>2, <1>3, SubSeqRecursiveFirst
  <2>2. <<text[index + 1]>> \in Seq(Character)
    BY <1>4, PlainOne
  <2>3. <<text[index + 1]>> \o <<>> = <<text[index + 1]>>
    BY <2>2, ConcatEmptySeq
  <2>4. QED
    BY <1>3, <1>5, <2>1, <2>3
<1>7. QED
  BY <1>1, <1>3, <1>4, <1>5, <1>6, PlainOne

\* Keeping an @ preserves the invariant.
LEMMA ReadBegins ==
    ASSUME TaiconvTypeOK, ReadInv, read_one,
           textual = <<>>, text[index + 1] = At, textual' = <<text[index + 1]>>, keep,
           Sought(text, arg_all, index + 1),
           line_start' \in BOOLEAN, ~arg_all => line_start' = FALSE
    PROVE  TaiconvInv'
<1>1. /\ text \in Seq(Character) /\ Len(text) \in Nat /\ index \in 0..Len(text)
      /\ out \in Seq(Item) /\ Buffered = index + 1
  BY ReadTypes, ReadOne
<1>2. /\ at = "read" /\ index < Len(text) /\ index' = index + 1
      /\ UNCHANGED <<text, stamped, arg_all, mmap_vars>>
      /\ index + 1 \in 1..Len(text) /\ index + 1 \in Int
      /\ SubSeq(text, index + 1, index + 1) = <<text[index + 1]>>
  BY ReadOne
<1>3. out' = out /\ at' = "read"
  BY <1>2 DEF keep
<1> DEFINE b == index + 1
<1>4. /\ b \in 1..index + 2 /\ b # index + 2 /\ index + 2 - b <= NGIM_TAIN_FORMAT
      /\ textual' = SubSeq(text, b, index + 1)
  BY <1>1, <1>2, Formats
<1>5. Run(text, b, index + 1)
  BY <1>1, <1>2, RunGrows
<1>6. ASSUME NEW n \in index + 1..Len(text)
      PROVE  out' \o Rest(Cut(n), arg_all)[b] = Whole_output(Cut(n))
  <2>1. n \in index..Len(text)
    BY <1>1
  <2>2. QED
    BY <1>1, <1>2, <1>3, <2>1 DEF ReadInv
<1>7. Sought(text, arg_all, b)
  OBVIOUS
<1> HIDE DEF b
<1>8. ~arg_all => line_start' = (b = index + 2 /\ Sought(text, arg_all, index + 2))
  BY <1>4
<1>9. QED
  BY <1>1, <1>2, <1>3, <1>4, <1>5, <1>6, <1>7, <1>8, ReadStays

\* Keeping one more digit preserves the invariant.
LEMMA ReadAppends ==
    ASSUME TaiconvTypeOK, ReadInv, read_one,
           textual # <<>>, is_hex_nibble(text[index + 1]), Fits,
           textual' = Append(textual, text[index + 1]), keep,
           line_start' \in BOOLEAN, ~arg_all => line_start' = FALSE
    PROVE  TaiconvInv'
<1>1. /\ text \in Seq(Character) /\ Len(text) \in Nat /\ index \in 0..Len(text)
      /\ out \in Seq(Item) /\ textual \in Seq(Character)
      /\ Buffered \in 1..index + 1 /\ Buffered # index + 1
      /\ Len(textual) = index + 1 - Buffered /\ textual = SubSeq(text, Buffered, index)
  BY ReadTypes, ReadOne
<1>2. /\ at = "read" /\ index < Len(text) /\ index' = index + 1
      /\ UNCHANGED <<text, stamped, arg_all, mmap_vars>>
      /\ index + 1 \in 1..Len(text) /\ index + 1 \in Int
      /\ text[index + 1] \in Character
  BY ReadOne
<1>3. out' = out /\ at' = "read"
  BY <1>2 DEF keep
<1> DEFINE b == Buffered
<1>4. /\ b \in 1..index + 2 /\ b # index + 2 /\ index + 2 - b <= NGIM_TAIN_FORMAT
  BY <1>1, <1>2, Formats DEF Fits
<1>5. textual' = SubSeq(text, b, index + 1)
  <2>1. b \in 1..Len(text) /\ index + 1 \in b..Len(text) /\ (index + 1) - 1 = index
    BY <1>1, <1>2
  <2>2. SubSeq(text, b, index + 1) = SubSeq(text, b, (index + 1) - 1) \o <<text[index + 1]>>
    BY <1>1, <2>1, SubSeqRecursiveSecond
  <2>3. Append(textual, text[index + 1]) = textual \o <<text[index + 1]>>
    BY <1>1, <1>2, AppendIsConcat
  <2>4. QED
    BY <1>1, <2>1, <2>2, <2>3
<1>6. Run(text, b, index) /\ Sought(text, arg_all, b)
  BY <1>2 DEF ReadInv
<1>7. Run(text, b, index + 1)
  <2>1. b \in Int /\ index \in Int /\ index + 1 <= Len(text)
    BY <1>1, <1>2
  <2>2. QED
    BY <1>1, <1>6, <2>1, RunGrows
<1>8. ASSUME NEW n \in index + 1..Len(text)
      PROVE  out' \o Rest(Cut(n), arg_all)[b] = Whole_output(Cut(n))
  <2>1. n \in index..Len(text)
    BY <1>1
  <2>2. QED
    BY <1>1, <1>2, <1>3, <2>1 DEF ReadInv
<1> HIDE DEF b
<1>9. ~arg_all => line_start' = (b = index + 2 /\ Sought(text, arg_all, index + 2))
  BY <1>4
<1>10. QED
  BY <1>1, <1>2, <1>3, <1>4, <1>5, <1>6, <1>7, <1>8, <1>9, ReadStays

\* The buffer is empty after a character that begins no label was written.
LEMMA ReadEmpties ==
    ASSUME TaiconvTypeOK, ReadInv, read_one, NEW items \in Seq(Item),
           \A n \in index + 1..Len(text) :
             Rest(Cut(n), arg_all)[Buffered] = items \o Rest(Cut(n), arg_all)[index + 2],
           flush(items, at), textual' = <<>>,
           line_start' \in BOOLEAN, ~arg_all => line_start' = (text[index + 1] = Newline)
    PROVE  TaiconvInv'
<1>1. /\ text \in Seq(Character) /\ Len(text) \in Nat /\ index \in 0..Len(text)
  BY ReadTypes, ReadOne
<1>2. /\ at = "read" /\ index < Len(text) /\ index' = index + 1
      /\ UNCHANGED <<text, stamped, arg_all, mmap_vars>>
      /\ SubSeq(text, index + 2, index + 1) = <<>>
  BY ReadOne
<1> DEFINE b == index + 2
<1>3. /\ b \in 1..index + 2 /\ index + 2 - b <= NGIM_TAIN_FORMAT
      /\ textual' = SubSeq(text, b, index + 1)
  BY <1>1, <1>2, Formats
<1>4. /\ out' \in Seq(Item)
      /\ \/ /\ at' = "read"
            /\ \A n \in index + 1..Len(text) :
                 out' \o Rest(Cut(n), arg_all)[b] = Whole_output(Cut(n))
         \/ at' = "unwritten" /\ IsPrefix(out', Whole_output(text))
  BY <1>2, <1>3, ReadFlush
<1>5. ~arg_all => line_start' = (b = index + 2 /\ Sought(text, arg_all, index + 2))
  <2>1. index + 2 # 1 /\ (index + 2) - 1 = index + 1
    BY <1>1
  <2>2. QED
    BY <2>1 DEF Sought
<1>6. b = index + 2
  OBVIOUS
<1> HIDE DEF b
<1>7. QED
  BY <1>1, <1>2, <1>3, <1>4, <1>5, <1>6, ReadStays

\* Passing a character through, with nothing kept, preserves the invariant.
LEMMA ReadPasses ==
    ASSUME TaiconvTypeOK, ReadInv, read_one, textual = <<>>,
           text[index + 1] # At \/ ~Sought(text, arg_all, index + 1),
           flush(Plain(<<text[index + 1]>>), at), textual' = <<>>,
           line_start' \in BOOLEAN, ~arg_all => line_start' = (text[index + 1] = Newline)
    PROVE  TaiconvInv'
<1>1. at = "read" /\ index < Len(text) /\ Plain(<<text[index + 1]>>) \in Seq(Item)
  BY ReadOne
<1>2. Buffered = index + 1
  BY <1>1, ReadTypes
<1>3. \A n \in index + 1..Len(text) :
        Rest(Cut(n), arg_all)[Buffered]
          = Plain(<<text[index + 1]>>) \o Rest(Cut(n), arg_all)[index + 2]
  BY <1>1, <1>2, CutPlain
<1>4. QED
  BY <1>1, <1>3, ReadEmpties

\* Writing what was kept, then the character that ended it, preserves the invariant.
LEMMA ReadWrites ==
    ASSUME TaiconvTypeOK, ReadInv, read_one, textual # <<>>,
           ~(is_hex_nibble(text[index + 1]) /\ Fits),
           text[index + 1] # At \/ ~Sought(text, arg_all, index + 1),
           flush(Shown(textual) \o Plain(<<text[index + 1]>>), at), textual' = <<>>,
           line_start' \in BOOLEAN, ~arg_all => line_start' = (text[index + 1] = Newline)
    PROVE  TaiconvInv'
<1> DEFINE p == Plain(<<text[index + 1]>>)
<1>1. at = "read" /\ index < Len(text) /\ p \in Seq(Item)
  BY ReadOne
<1>2. /\ text \in Seq(Character) /\ Len(text) \in Nat /\ index \in 0..Len(text)
      /\ Shown(textual) \in Seq(Item)
  BY <1>1, ReadTypes, ShownType
<1>3. ASSUME NEW n \in index + 1..Len(text)
      PROVE  Rest(Cut(n), arg_all)[Buffered]
               = (Shown(textual) \o p) \o Rest(Cut(n), arg_all)[index + 2]
  <2>1. n \in index..Len(text) /\ n \in 0..Len(text) /\ index + 2 \in 1..n + 1
    BY <1>2
  <2>2. Rest(Cut(n), arg_all)[Buffered] = Shown(textual) \o Rest(Cut(n), arg_all)[index + 1]
    BY <1>1, <2>1, CutShown
  <2>3. Rest(Cut(n), arg_all)[index + 1] = p \o Rest(Cut(n), arg_all)[index + 2]
    BY <1>1, CutPlain
  <2>4. Cut(n) \in Seq(Character) /\ Len(Cut(n)) = n
    BY <1>2, <2>1, CutIs
  <2>5. Rest(Cut(n), arg_all)[index + 2] \in Seq(Item)
    BY <2>1, <2>4, RestType
  <2> HIDE DEF p
  <2>6. (Shown(textual) \o p) \o Rest(Cut(n), arg_all)[index + 2]
          = Shown(textual) \o (p \o Rest(Cut(n), arg_all)[index + 2])
    BY <1>1, <1>2, <2>5, ItemsAssociate, Zenon
  <2>7. QED
    BY <2>2, <2>3, <2>6, Zenon
<1>4. Shown(textual) \o p \in Seq(Item)
  BY <1>1, <1>2, ConcatProperties
<1>5. QED
  BY <1>3, <1>4, ReadEmpties

\* Everywhere: the run in the buffer is ended by the beginning of another one.
LEMMA ReadTurns ==
    ASSUME TaiconvTypeOK, ReadInv, read_one, textual # <<>>, arg_all,
           text[index + 1] = At, flush(Shown(textual), at), textual' = <<text[index + 1]>>,
           line_start' \in BOOLEAN
    PROVE  TaiconvInv'
<1>1. /\ at = "read" /\ index < Len(text) /\ index' = index + 1
      /\ UNCHANGED <<text, stamped, arg_all, mmap_vars>>
      /\ index + 1 \in 1..Len(text) /\ index + 1 \in Int
      /\ SubSeq(text, index + 1, index + 1) = <<text[index + 1]>>
  BY ReadOne
<1>2. /\ text \in Seq(Character) /\ Len(text) \in Nat /\ index \in 0..Len(text)
      /\ Shown(textual) \in Seq(Item)
  BY <1>1, ReadTypes, ShownType
<1> DEFINE b == index + 1
<1>3. /\ b \in 1..index + 2 /\ b # index + 2 /\ index + 2 - b <= NGIM_TAIN_FORMAT
      /\ textual' = SubSeq(text, b, index + 1)
  BY <1>1, <1>2, Formats
<1>4. ASSUME NEW n \in index + 1..Len(text)
      PROVE  Rest(Cut(n), arg_all)[Buffered] = Shown(textual) \o Rest(Cut(n), arg_all)[b]
  <2>1. n \in index..Len(text) /\ ~is_hex_nibble(text[index + 1])
    BY <1>2, Characters
  <2>2. QED
    BY <1>1, <2>1, CutShown
<1>5. /\ out' \in Seq(Item)
      /\ \/ /\ at' = "read"
            /\ \A n \in index + 1..Len(text) :
                 out' \o Rest(Cut(n), arg_all)[b] = Whole_output(Cut(n))
         \/ at' = "unwritten" /\ IsPrefix(out', Whole_output(text))
  BY <1>1, <1>2, <1>3, <1>4, ReadFlush
<1>6. Run(text, b, index + 1) /\ Sought(text, arg_all, b)
  BY <1>1, <1>2, RunGrows DEF Sought
<1> HIDE DEF b
<1>7. ~arg_all => line_start' = (b = index + 2 /\ Sought(text, arg_all, index + 2))
  OBVIOUS
<1>8. QED
  BY <1>1, <1>2, <1>3, <1>5, <1>6, <1>7, ReadStays

\* convert_read_all preserves the invariant.
LEMMA ReadAllInv ==
    ASSUME TaiconvInv, convert_read_all
    PROVE  TaiconvInv'
<1> DEFINE c == text[index + 1]
<1>1. TaiconvTypeOK /\ ReadInv
  BY DEF TaiconvInv
<1>2. read_one /\ arg_all /\ line_start' = line_start
  BY DEF convert_read_all
<1>3. line_start' \in BOOLEAN
  BY <1>1, <1>2 DEF TaiconvTypeOK
<1>4. Sought(text, arg_all, index + 1)
  BY <1>2 DEF Sought
<1>5. \/ textual = <<>> /\ c = At /\ textual' = <<c>> /\ keep
      \/ textual = <<>> /\ c # At /\ flush(Plain(<<c>>), at) /\ UNCHANGED textual
      \/ /\ textual # <<>> /\ is_hex_nibble(c) /\ Fits
         /\ textual' = Append(textual, c) /\ keep
      \/ /\ textual # <<>> /\ c = At
         /\ flush(Shown(textual), at) /\ textual' = <<c>>
      \/ /\ textual # <<>> /\ c # At /\ ~(is_hex_nibble(c) /\ Fits)
         /\ flush(Shown(textual) \o Plain(<<c>>), at) /\ textual' = <<>>
  BY Zenon DEF convert_read_all, Next1
<1>6. CASE textual = <<>> /\ c = At /\ textual' = <<c>> /\ keep
  BY <1>1, <1>2, <1>3, <1>4, <1>6, ReadBegins
<1>7. CASE textual = <<>> /\ c # At /\ flush(Plain(<<c>>), at) /\ UNCHANGED textual
  BY <1>1, <1>2, <1>3, <1>7, ReadPasses
<1>8. CASE /\ textual # <<>> /\ is_hex_nibble(c) /\ Fits
           /\ textual' = Append(textual, c) /\ keep
  BY <1>1, <1>2, <1>3, <1>8, ReadAppends
<1>9. CASE /\ textual # <<>> /\ c = At
           /\ flush(Shown(textual), at) /\ textual' = <<c>>
  BY <1>1, <1>2, <1>3, <1>9, ReadTurns
<1>10. CASE /\ textual # <<>> /\ c # At /\ ~(is_hex_nibble(c) /\ Fits)
            /\ flush(Shown(textual) \o Plain(<<c>>), at) /\ textual' = <<>>
  BY <1>1, <1>2, <1>3, <1>10, ReadWrites
<1>11. QED
  BY <1>5, <1>6, <1>7, <1>8, <1>9, <1>10

\* convert_read_nrm preserves the invariant.
LEMMA ReadNrmInv ==
    ASSUME TaiconvInv, convert_read_nrm
    PROVE  TaiconvInv'
<1> DEFINE c == text[index + 1]
<1>1. TaiconvTypeOK /\ ReadInv
  BY DEF TaiconvInv
<1>2. read_one /\ ~arg_all /\ at = "read"
  BY DEF convert_read_nrm, read_one
<1>3. \/ /\ line_start /\ c = At
         /\ line_start' = FALSE /\ textual' = <<c>> /\ keep
      \/ /\ ~(line_start /\ c = At) /\ textual # <<>> /\ is_hex_nibble(c) /\ Fits
         /\ textual' = Append(textual, c) /\ keep /\ UNCHANGED line_start
      \/ /\ ~(line_start /\ c = At) /\ textual # <<>> /\ ~(is_hex_nibble(c) /\ Fits)
         /\ flush(Shown(textual) \o Plain(<<c>>), at)
         /\ textual' = <<>> /\ line_start' = (c = Newline)
      \/ /\ ~(line_start /\ c = At) /\ textual = <<>>
         /\ flush(Plain(<<c>>), at)
         /\ line_start' = (c = Newline) /\ UNCHANGED textual
  BY Zenon DEF convert_read_nrm, Next1
<1>4. line_start = (textual = <<>> /\ Sought(text, arg_all, index + 1))
  BY <1>1, <1>2 DEF ReadInv
<1>5. CASE /\ line_start /\ c = At
           /\ line_start' = FALSE /\ textual' = <<c>> /\ keep
  <2>1. textual = <<>> /\ Sought(text, arg_all, index + 1) /\ line_start' \in BOOLEAN
    BY <1>4, <1>5
  <2>2. QED
    BY <1>1, <1>2, <1>5, <2>1, ReadBegins
<1>6. CASE /\ ~(line_start /\ c = At) /\ textual # <<>> /\ is_hex_nibble(c) /\ Fits
           /\ textual' = Append(textual, c) /\ keep /\ UNCHANGED line_start
  <2>1. line_start' = FALSE
    BY <1>4, <1>6
  <2>2. line_start' \in BOOLEAN
    BY <2>1
  <2>3. QED
    BY <1>1, <1>2, <1>6, <2>1, <2>2, ReadAppends
<1>7. CASE /\ ~(line_start /\ c = At) /\ textual # <<>> /\ ~(is_hex_nibble(c) /\ Fits)
           /\ flush(Shown(textual) \o Plain(<<c>>), at)
           /\ textual' = <<>> /\ line_start' = (c = Newline)
  <2>1. /\ text \in Seq(Character) /\ Len(text) \in Nat /\ index \in 0..Len(text)
        /\ Buffered \in 1..index + 1 /\ Buffered # index + 1
    BY <1>1, <1>2, <1>7, ReadTypes
  <2>2. Run(text, Buffered, index)
    BY <1>1, <1>2, <1>7 DEF ReadInv
  <2>3. text[index] # Newline
    <3>1. Buffered = index \/ index \in Buffered + 1..index
      BY <2>1
    <3>2. QED
      BY <2>2, <3>1, Characters DEF Run
  <2>4. index + 1 # 1 /\ (index + 1) - 1 = index
    BY <2>1
  <2>5. ~Sought(text, arg_all, index + 1)
    BY <1>2, <2>3, <2>4 DEF Sought
  <2>6. line_start' \in BOOLEAN
    BY <1>7
  <2>7. QED
    BY <1>1, <1>2, <1>7, <2>5, <2>6, ReadWrites
<1>8. CASE /\ ~(line_start /\ c = At) /\ textual = <<>>
           /\ flush(Plain(<<c>>), at)
           /\ line_start' = (c = Newline) /\ UNCHANGED textual
  <2>1. c # At \/ ~Sought(text, arg_all, index + 1)
    BY <1>4, <1>8
  <2>2. line_start' \in BOOLEAN /\ textual' = <<>>
    BY <1>8
  <2>3. QED
    BY <1>1, <1>2, <1>8, <2>1, <2>2, ReadPasses
<1>9. QED
  BY <1>3, <1>5, <1>6, <1>7, <1>8

\* Nothing collected shows nothing.
LEMMA ShownEmpty == Shown(<<>>) = <<>>
<1>1. Len(<<>>) = 0 /\ NGIM_TAI_FORMAT > 0 /\ NGIM_TAIN_FORMAT > 0
  BY EmptySeq, Formats
<1>2. ~(Len(<<>>) >= NGIM_TAIN_FORMAT) /\ ~(Len(<<>>) \in NGIM_TAI_FORMAT..NGIM_TAIN_FORMAT - 1)
  BY <1>1, Formats
<1>3. convert_buffer(<<>>).date = <<>>
  BY <1>2, Zenon DEF convert_buffer
<1>4. QED
  BY <1>3, PlainEmpty, Zenon DEF Shown, Converts

\* The last write completes the output.
LEMMA LastFlush ==
    ASSUME out \in Seq(Item), NEW items \in Seq(Item),
           NEW r, r = out \o (items \o <<>>), NEW next, flush(items, next)
    PROVE  /\ out' \in Seq(Item)
           /\ \/ at' = next /\ out' = r
              \/ at' = "unwritten" /\ IsPrefix(out', r)
<1>1. <<>> \in Seq(Item)
  BY EmptySeq
<1> DEFINE x == <<>>
<1>2. x \in Seq(Item) /\ r = out \o (items \o x)
  BY <1>1
<1> HIDE DEF x
<1>3. /\ out' \in Seq(Item)
      /\ \/ at' = next /\ out' \o x = r
         \/ at' = "unwritten" /\ IsPrefix(out', r)
  BY <1>2, FlushDoes
<1>4. out' \o x = out'
  BY <1>3, ConcatEmptySeq DEF x
<1>5. QED
  BY <1>3, <1>4

\* The end of the input read preserves the invariant.
LEMMA ReadEndInv ==
    ASSUME TaiconvInv, convert_read_end
    PROVE  TaiconvInv'
<1>1. TaiconvTypeOK /\ ReadInv
  BY DEF TaiconvInv
<1>2. /\ at = "read" /\ textual' = <<>>
      /\ \/ index = Len(text) /\ flush(Shown(textual), "done")
         \/ flush(Shown(textual), "unread")
      /\ UNCHANGED <<text, stamped, arg_all, index, mmap_vars, line_start>>
  BY DEF convert_read_end
<1>3. /\ text \in Seq(Character) /\ Len(text) \in Nat /\ index \in 0..Len(text)
      /\ out \in Seq(Item) /\ textual \in Seq(Character) /\ Shown(textual) \in Seq(Item)
      /\ textual = <<>> => Buffered = index + 1
  BY <1>1, <1>2, ReadTypes, ShownType
<1> DEFINE r == Whole_output(Cut(index))
<1>4. Cut(index) \in Seq(Character) /\ Len(Cut(index)) = index /\ index \in index..Len(text)
  BY <1>3, CutIs
<1>5. Rest(Cut(index), arg_all)[index + 1] = <<>>
  BY <1>4, RestIs
<1>6. <<>> \in Seq(Item)
  BY EmptySeq
<1>7. Rest(Cut(index), arg_all)[Buffered] = Shown(textual) \o <<>>
  <2>1. CASE textual = <<>>
    BY <1>3, <1>5, <1>6, <2>1, ShownEmpty, ConcatEmptySeq
  <2>2. CASE textual # <<>>
    BY <1>1, <1>2, <1>4, <1>5, <2>2, CutShown
  <2>3. QED
    BY <2>1, <2>2
<1>8. r = out \o (Shown(textual) \o <<>>)
  BY <1>1, <1>2, <1>4, <1>7 DEF ReadInv
<1>9. index = Len(text) => r = Whole_output(text)
  BY <1>3, CutIs
<1> HIDE DEF r
<1>10. ASSUME NEW next, flush(Shown(textual), next)
       PROVE  /\ out' \in Seq(Item)
              /\ \/ at' = next /\ out' = r
                 \/ at' = "unwritten" /\ IsPrefix(out', r)
  <2>1. out \in Seq(Item) /\ Shown(textual) \in Seq(Item)
    BY <1>3
  <2>2. flush(Shown(textual), next)
    BY <1>10
  <2>3. QED
    BY <1>8, <2>1, <2>2, LastFlush
<1>11. /\ start' \in 0..index /\ inside' \in BOOLEAN /\ line_start' \in BOOLEAN
       /\ textual' \in Seq(Character) /\ Len(textual') <= NGIM_TAIN_FORMAT
  <2>1. start' = start /\ inside' = inside /\ line_start' = line_start
    BY <1>2 DEF mmap_vars
  <2>2. <<>> \in Seq(Character) /\ Len(<<>>) = 0
    BY EmptySeq
  <2>3. QED
    BY <1>1, <1>2, <2>1, <2>2, Formats DEF TaiconvTypeOK
<1>12. UNCHANGED <<text, stamped, arg_all, index>>
  BY <1>2
<1>13. CASE index = Len(text) /\ flush(Shown(textual), "done")
  <2>1. /\ out' \in Seq(Item)
        /\ \/ at' = "done" /\ out' = Whole_output(text)
           \/ at' = "unwritten" /\ IsPrefix(out', Whole_output(text))
    BY <1>9, <1>10, <1>13
  <2>2. QED
    BY <1>1, <1>11, <1>12, <2>1, EndStays
<1>14. CASE flush(Shown(textual), "unread")
  <2>1. /\ out' \in Seq(Item)
        /\ \/ at' = "unread" /\ out' = Whole_output(Cut(index))
           \/ at' = "unwritten" /\ IsPrefix(out', Whole_output(Cut(index)))
    BY <1>10, <1>14 DEF r
  <2>2. QED
    BY <1>1, <1>11, <1>12, <2>1, EndStays
<1>15. QED
  BY <1>2, <1>13, <1>14

-----------------------------------------------------------------------------
(* The theorems *)

LEMMA NextInv ==
    ASSUME TaiconvInv, [TaiconvNext]_taiconv_vars
    PROVE  TaiconvInv'
<1>1. CASE convert_mmap
  BY <1>1, OpenStep
<1>2. CASE convert_mmap_all
  BY <1>2, MapAllInv
<1>3. CASE convert_mmap_nrm
  BY <1>3, MapNrmInv
<1>4. CASE convert_mmap_end
  BY <1>4, MapEndInv
<1>5. CASE convert_read_all
  BY <1>5, ReadAllInv
<1>6. CASE convert_read_nrm
  BY <1>6, ReadNrmInv
<1>7. CASE convert_read_end
  BY <1>7, ReadEndInv
<1>8. CASE UNCHANGED taiconv_vars
  <2>1. /\ text' = text /\ stamped' = stamped /\ arg_all' = arg_all /\ at' = at
        /\ index' = index /\ start' = start /\ inside' = inside
        /\ line_start' = line_start /\ textual' = textual /\ out' = out
    BY <1>8 DEF taiconv_vars, mmap_vars, read_vars
  <2>2. TaiconvTypeOK' /\ OpenInv' /\ EndInv'
    BY <2>1 DEF TaiconvInv, TaiconvTypeOK, OpenInv, EndInv, Whole_output, Cut
  <2>3. MapInv'
    BY <2>1 DEF TaiconvInv, MapInv, Whole_output
  <2>4. ReadInv'
    BY <2>1 DEF TaiconvInv, ReadInv, Whole_output, Cut, Buffered
  <2>5. QED
    BY <2>2, <2>3, <2>4 DEF TaiconvInv
<1>9. QED
  BY <1>1, <1>2, <1>3, <1>4, <1>5, <1>6, <1>7, <1>8 DEF TaiconvNext, Converted

\* The invariant of the filter holds at every step of all its loops, mapped and
\* read, with and without arg_all (the convert_mmap_* and convert_read_* functions).
THEOREM TaiconvHolds == TaiconvSpec => []TaiconvInv
BY InitInv, NextInv, PTL DEF TaiconvSpec

\* The variables have their types: the buffer never holds more than a long label,
\* and what was written never more than what was looked at (convert_read,
\* convert_mmap).
THEOREM TaiconvTypesHold == TaiconvSpec => []TaiconvTypeOK
<1>1. TaiconvInv => TaiconvTypeOK
  BY DEF TaiconvInv
<1>2. QED
  BY <1>1, TaiconvHolds, PTL

\* For every text, width of labels and way to get at the text, the output is that
\* of the text with each label replaced, or of what could be read of it
\* (convert_mmap_all, convert_mmap_nrm, convert_read).
THEOREM OutputAsReferenceHolds == TaiconvSpec => []OutputAsReference
<1>1. TaiconvInv => OutputAsReference
  BY ReferenceIs DEF TaiconvInv, EndInv, OutputAsReference, Whole_output, Cut
<1>2. QED
  BY <1>1, TaiconvHolds, PTL

\* Whatever fails and whenever, what was written is the beginning of such an output
\* (convert_mmap, convert_read).
THEOREM OutputIsPrefixHolds == TaiconvSpec => []OutputIsPrefix
<1>1. TaiconvInv => OutputIsPrefix
  <2> SUFFICES ASSUME TaiconvInv
               PROVE  \/ at # "unread" /\ IsPrefix(out, Whole_output(text))
                      \/ at \in {"unread", "unwritten"} /\ IsPrefix(out, Whole_output(Cut(index)))
    BY ReferenceIs, Zenon DEF OutputIsPrefix, Whole_output, Cut
  <2>1. TaiconvTypeOK /\ OpenInv /\ MapInv /\ ReadInv /\ EndInv
    BY DEF TaiconvInv
  <2>2. /\ text \in Seq(Character) /\ Len(text) \in Nat
        /\ index \in 0..Len(text) /\ start \in 0..index /\ out \in Seq(Item)
    BY <2>1, MapTypes
  <2>3. \A s \in Seq(Character) : Whole_output(s) \in Seq(Item)
    <3> SUFFICES ASSUME NEW s \in Seq(Character) PROVE Rest(s, arg_all)[1] \in Seq(Item)
      BY DEF Whole_output
    <3>1. 1 \in 1..Len(s) + 1
      BY LenProperties
    <3>2. QED
      BY <3>1, RestType
  <2>4. \A s \in Seq(Item) : IsPrefix(s, s)
    <3> SUFFICES ASSUME NEW s \in Seq(Item) PROVE IsPrefix(s, s)
      OBVIOUS
    <3>1. <<>> \in Seq(Item) /\ s \o <<>> = s
      BY EmptySeq, ConcatEmptySeq
    <3>2. QED
      BY <3>1, PrefixOf, Zenon
  <2>5. CASE at = "open"
    <3>1. out = <<>> /\ <<>> \o Whole_output(text) = Whole_output(text)
      BY <2>1, <2>2, <2>3, <2>5, ConcatEmptySeq DEF OpenInv
    <3>2. IsPrefix(out, Whole_output(text))
      BY <2>2, <2>3, <3>1, PrefixOf, Zenon
    <3>3. QED
      BY <2>5, <3>2
  <2>6. CASE at = "mmap"
    <3>1. start + 1 \in 1..Len(text) + 1
      BY <2>2
    <3>2. /\ Rest(text, arg_all)[start + 1] \in Seq(Item)
          /\ Whole_output(text) = out \o Rest(text, arg_all)[start + 1]
      BY <2>1, <2>2, <2>6, <3>1, RestType DEF MapInv
    <3>3. IsPrefix(out, Whole_output(text))
      BY <2>2, <3>2, PrefixOf
    <3>4. QED
      BY <2>6, <3>3
  <2>7. CASE at = "read"
    <3>1. Buffered \in 1..index + 1
      BY <2>1, <2>7, ReadTypes
    <3>2. Buffered \in 1..Len(text) + 1 /\ Len(text) \in index..Len(text) /\ Len(text) \in 0..Len(text)
      BY <2>2, <3>1
    <3>3. Cut(Len(text)) = text
      BY <2>2, <3>2, CutIs
    <3>4. /\ Rest(text, arg_all)[Buffered] \in Seq(Item)
          /\ Whole_output(text) = out \o Rest(text, arg_all)[Buffered]
      BY <2>1, <2>2, <2>7, <3>2, <3>3, RestType DEF ReadInv
    <3>5. IsPrefix(out, Whole_output(text))
      BY <2>2, <3>4, PrefixOf
    <3>6. QED
      BY <2>7, <3>5
  <2>8. CASE at \in {"done", "unread"}
    BY <2>1, <2>2, <2>4, <2>8 DEF EndInv
  <2>9. CASE at = "unwritten"
    BY <2>1, <2>9 DEF EndInv
  <2>10. QED
    BY <2>1, <2>5, <2>6, <2>7, <2>8, <2>9 DEF TaiconvTypeOK
<1>2. QED
  BY <1>1, TaiconvHolds, PTL

-----------------------------------------------------------------------------
(* Numbers and their digits *)

LEMMA Divided ==
    ASSUME NEW y \in Int, NEW z \in Nat \ {0}
    PROVE  /\ y \div z \in Int /\ y % z \in 0..z - 1
           /\ y = z * (y \div z) + (y % z)
OBVIOUS

\* A product with a factor that is not negative keeps the order.
LEMMA Times ==
    ASSUME NEW p \in Int, NEW q \in Int, p <= q, NEW z \in Nat
    PROVE  z * p \in Int /\ z * q \in Int /\ z * p <= z * q
<1>1. z * (q - p) >= 0
  <2>1. q - p \in Nat
    OBVIOUS
  <2> DEFINE r == q - p
  <2> HIDE DEF r
  <2>2. r \in Nat
    BY <2>1 DEF r
  <2>3. z * r \in Nat
    BY <2>2
  <2>4. QED
    BY <2>3 DEF r
<1>2. z * (q - p) = z * q - z * p
  OBVIOUS
<1>3. QED
  BY <1>1, <1>2

\* Division keeps the order, and what is below z times p is divided to below p.
LEMMA DividedOrder ==
    ASSUME NEW y \in Int, NEW z \in Nat \ {0}
    PROVE  /\ \A p \in Int : y < z * p => y \div z < p
           /\ \A x \in Int : x <= y => x \div z <= y \div z
<1>1. /\ y \div z \in Int /\ y % z \in 0..z - 1
      /\ y = z * (y \div z) + (y % z)
  BY Divided
<1>2. ASSUME NEW p \in Int, y < z * p PROVE y \div z < p
  <2> SUFFICES ASSUME p <= y \div z PROVE FALSE
    BY <1>1
  <2>1. z * p <= z * (y \div z)
    BY <1>1, Times
  <2>2. z * p \in Int /\ z * (y \div z) \in Int
    BY <1>1
  <2>3. QED
    BY <1>1, <1>2, <2>1, <2>2
<1>3. ASSUME NEW x \in Int, x <= y PROVE x \div z <= y \div z
  <2>1. /\ x \div z \in Int /\ x % z \in 0..z - 1
        /\ x = z * (x \div z) + (x % z)
    BY Divided
  <2> SUFFICES ASSUME (y \div z) + 1 <= x \div z PROVE FALSE
    BY <1>1, <2>1
  <2>2. z * ((y \div z) + 1) <= z * (x \div z)
    BY <1>1, <2>1, Times
  <2>3. z * ((y \div z) + 1) = z * (y \div z) + z
    BY <1>1
  <2>4. z * (y \div z) \in Int /\ z * (x \div z) \in Int
    BY <1>1, <2>1
  <2>5. QED
    BY <1>1, <1>3, <2>1, <2>2, <2>3, <2>4
<1>4. QED
  BY <1>2, <1>3

Powers(n, f) == f = [i \in 0..n |-> IF i = 0 THEN 1 ELSE Base * f[i - 1]]

\* A function that gives the powers of the base exists.
LEMMA PowersExists ==
    ASSUME NEW m \in Nat
    PROVE  \E f : Powers(m, f)
<1> DEFINE S == {n \in Nat : \E f : Powers(n, f)}
<1>1. 0 \in S
  <2>1. Powers(0, [i \in 0..0 |-> 1])
    BY DEF Powers
  <2>2. QED
    BY <2>1
<1>2. ASSUME NEW n \in S \cap Nat PROVE n + 1 \in S
  <2>1. PICK f : Powers(n, f)
    OBVIOUS
  <2> DEFINE g == [i \in 0..n + 1 |-> IF i = 0 THEN 1 ELSE Base * f[i - 1]]
  <2>2. \A i \in 0..n : f[i] = IF i = 0 THEN 1 ELSE Base * f[i - 1]
    BY <2>1 DEF Powers
  <2>3. \A i \in 0..n : g[i] = f[i]
    BY <2>2
  <2>4. \A i \in 0..n + 1 : i # 0 => i - 1 \in 0..n
    OBVIOUS
  <2>5. Powers(n + 1, g)
    BY <2>3, <2>4 DEF Powers
  <2>6. QED
    BY <2>5
<1>3. QED
  BY <1>1, <1>2, EveryNat

\* A power is the base times the one before.
LEMMA PowersIs ==
    ASSUME NEW n \in Nat, NEW f, Powers(n, f)
    PROVE  f[0] = 1 /\ \A i \in 1..n : f[i] = Base * f[i - 1]
<1>1. \A i \in 0..n : f[i] = IF i = 0 THEN 1 ELSE Base * f[i - 1]
  BY Zenon DEF Powers
<1>2. 0 \in 0..n /\ \A i \in 1..n : i \in 0..n /\ i # 0
  OBVIOUS
<1>3. QED
  BY <1>1, <1>2, Zenon

\* The powers of the base are positive numbers.
LEMMA PowerIs ==
    /\ Power(0) = 1
    /\ \A n \in Nat : Power(n + 1) = Base * Power(n)
    /\ \A n \in Nat : Power(n) \in Nat \ {0}
<1> DEFINE p(n) == CHOOSE f : Powers(n, f)
<1>1. ASSUME NEW n \in Nat
      PROVE  Power(n) = p(n)[n] /\ p(n)[0] = 1 /\ \A i \in 1..n : p(n)[i] = Base * p(n)[i - 1]
  <2>1. Powers(n, p(n))
    BY PowersExists, Zenon
  <2>2. Power(n) = p(n)[n]
    BY Zenon DEF Power, Powers
  <2> HIDE DEF p
  <2>3. QED
    BY <2>1, <2>2, PowersIs
<1> HIDE DEF p
<1>2. Power(0) = 1
  BY <1>1
<1>3. ASSUME NEW n \in Nat PROVE Power(n + 1) = Base * Power(n)
  <2> DEFINE S == {i \in Nat : i <= n => p(n + 1)[i] = p(n)[i]}
  <2>1. n + 1 \in Nat /\ n + 1 \in 1..n + 1 /\ (n + 1) - 1 = n
    OBVIOUS
  <2>2. 0 \in S
    BY <1>1, <2>1
  <2>3. ASSUME NEW i \in S \cap Nat PROVE i + 1 \in S
    <3> SUFFICES ASSUME i + 1 <= n PROVE p(n + 1)[i + 1] = p(n)[i + 1]
      OBVIOUS
    <3>1. p(n + 1)[i] = p(n)[i] /\ i + 1 \in 1..n /\ i + 1 \in 1..n + 1 /\ (i + 1) - 1 = i
      OBVIOUS
    <3>2. p(n + 1)[i + 1] = Base * p(n + 1)[(i + 1) - 1] /\ p(n)[i + 1] = Base * p(n)[(i + 1) - 1]
      BY <1>1, <2>1, <3>1, Zenon
    <3>3. QED
      BY <3>1, <3>2, Zenon
  <2> HIDE DEF S
  <2>4. n \in S
    BY <2>2, <2>3, EveryNat
  <2>5. p(n + 1)[n] = p(n)[n]
    BY <2>4 DEF S
  <2>6. p(n + 1)[n + 1] = Base * p(n + 1)[(n + 1) - 1]
    BY <1>1, <2>1, Zenon
  <2>7. Power(n) = p(n)[n] /\ Power(n + 1) = p(n + 1)[n + 1]
    BY <1>1, <2>1, Zenon
  <2>8. QED
    BY <2>1, <2>5, <2>6, <2>7, Zenon
<1> DEFINE S == {n \in Nat : Power(n) \in Nat \ {0}}
<1>4. 0 \in S
  BY <1>2
<1>5. ASSUME NEW n \in S \cap Nat PROVE n + 1 \in S
  <2>1. Power(n) \in Nat \ {0} /\ n + 1 \in Nat /\ Power(n + 1) = Base * Power(n)
    BY <1>3
  <2>2. Base \in Nat \ {0}
    BY WidthAssumption
  <2>3. \A y, z \in Nat \ {0} : y * z \in Nat \ {0}
    <3> SUFFICES ASSUME NEW y \in Nat \ {0}, NEW z \in Nat \ {0} PROVE y * z \in Nat \ {0}
      OBVIOUS
    <3>1. y * 1 <= y * z
      BY Times
    <3>2. y * 1 = y /\ y * z \in Int
      OBVIOUS
    <3>3. QED
      BY <3>1, <3>2
  <2>4. QED
    BY <2>1, <2>2, <2>3
<1> HIDE DEF S
<1>6. Nat \subseteq S
  BY <1>4, <1>5, EveryNat
<1>7. QED
  BY <1>2, <1>3, <1>6 DEF S

\* After n divisions nothing is left of a number below the nth power.
LEMMA LeftEnds ==
    ASSUME NEW n \in Nat, NEW x \in Nat, x < Power(n)
    PROVE  Left(x, n)[n] = 0 /\ \A i \in 0..n : Left(x, n)[i] \in Nat
<1> DEFINE f == Left(x, n)
           S == {m \in Nat : m <= n => f[m] \in Nat /\ f[m] < Power(n - m)}
<1>1. /\ f[0] = x /\ \A i \in 1..n : f[i] = f[i - 1] \div Base
      /\ \A i \in 0..n : f[i] \in Int
  BY LeftIs
<1> HIDE DEF f
<1>2. Base \in Nat \ {0}
  BY WidthAssumption
<1>3. 0 \in S
  <2>1. n - 0 = n
    OBVIOUS
  <2>2. QED
    BY <1>1, <2>1
<1>4. ASSUME NEW m \in S \cap Nat PROVE m + 1 \in S
  <2> SUFFICES ASSUME m + 1 <= n PROVE f[m + 1] \in Nat /\ f[m + 1] < Power(n - (m + 1))
    OBVIOUS
  <2>1. m \in Nat /\ f[m] \in Nat /\ f[m] < Power(n - m)
    OBVIOUS
  <2>2. m + 1 \in 1..n /\ (m + 1) - 1 = m /\ n - (m + 1) \in Nat /\ (n - (m + 1)) + 1 = n - m
    BY <2>1
  <2>3. f[m + 1] = f[m] \div Base
    BY <1>1, <2>2
  <2>4. Power(n - m) = Base * Power(n - (m + 1)) /\ Power(n - (m + 1)) \in Nat \ {0}
    BY <2>2, PowerIs
  <2> DEFINE y == f[m]
             q == Power(n - (m + 1))
  <2>5. y \in Nat /\ q \in Nat /\ y < Base * q
    BY <2>1, <2>4
  <2> HIDE DEF y, q
  <2>6. y \div Base \in Int /\ y \div Base < q /\ 0 \div Base <= y \div Base
    <3>1. y \div Base \in Int
      BY <1>2, <2>5, Divided
    <3>2. y \div Base < q
      <4>1. y \in Int /\ q \in Int /\ y < Base * q
        BY <2>5
      <4>2. \A p \in Int : y < Base * p => y \div Base < p
        BY <1>2, <4>1, DividedOrder
      <4>3. QED
        BY <4>1, <4>2, Zenon
    <3>3. 0 <= y /\ y \in Int /\ 0 \in Int
      BY <2>5
    <3>4. 0 \div Base <= y \div Base
      BY <1>2, <3>3, DividedOrder
    <3>5. QED
      BY <3>1, <3>2, <3>4
  <2>7. 0 \div Base = 0
    BY <1>2
  <2>8. QED
    BY <2>3, <2>6, <2>7 DEF y, q
<1> HIDE DEF S
<1>5. Nat \subseteq S
  BY <1>3, <1>4, EveryNat
<1>6. f[n] \in Nat /\ f[n] < Power(n - n) /\ n - n = 0
  BY <1>5 DEF S
<1>7. \A i \in 0..n : f[i] \in Nat
  BY <1>5 DEF S
<1>8. f[n] = 0
  BY <1>6, PowerIs
<1>9. QED
  BY <1>7, <1>8 DEF f

\* Digits that are enough for a number are read as it.
LEMMA DigitsSay ==
    ASSUME NEW n \in Nat, NEW x \in Nat, x < Power(n)
    PROVE  Value(Digits(x, n)) = x
<1> DEFINE f == Left(x, n)
           d == Digits(x, n)
<1>1. /\ f[0] = x /\ \A i \in 1..n : f[i] = f[i - 1] \div Base
      /\ \A i \in 0..n : f[i] \in Int
      /\ f[n] = 0
  BY LeftIs, LeftEnds
<1>2. /\ d \in Seq(Digit) /\ Len(d) = n
      /\ \A i \in 1..n : d[i] = f[n - i] % Base
  BY DigitsIs
<1>3. Base \in Nat \ {0} /\ Digit \subseteq Int
  BY WidthAssumption DEF Digit
<1> HIDE DEF f, d
<1>4. d \in Seq(Int)
  BY <1>2, <1>3, SeqMonotonic
<1>5. PICK v \in [0..Len(d) -> Int] :
        /\ v[0] = 0
        /\ \A i \in 1..Len(d) : v[i] = Base * v[i - 1] + d[i]
        /\ Value(d) = v[Len(d)]
  BY <1>4, ValueIs
<1> DEFINE S == {i \in Nat : i <= n => v[i] = f[n - i]}
<1>6. 0 \in S
  BY <1>1, <1>5
<1>7. ASSUME NEW i \in S \cap Nat PROVE i + 1 \in S
  <2> SUFFICES ASSUME i + 1 <= n PROVE v[i + 1] = f[n - (i + 1)]
    OBVIOUS
  <2>1. v[i] = f[n - i] /\ i + 1 \in 1..n /\ (i + 1) - 1 = i
        /\ n - i \in 1..n /\ (n - i) - 1 = n - (i + 1) /\ n - (i + 1) \in 0..n
    OBVIOUS
  <2> DEFINE y == f[n - (i + 1)]
  <2>2. y \in Int /\ f[n - i] = y \div Base /\ d[i + 1] = y % Base
    BY <1>1, <1>2, <2>1
  <2>3. v[i + 1] = Base * v[i] + d[i + 1]
    BY <1>2, <1>5, <2>1
  <2> HIDE DEF y
  <2>4. y = Base * (y \div Base) + (y % Base)
    BY <1>3, <2>2, Divided
  <2>5. QED
    BY <2>1, <2>2, <2>3, <2>4 DEF y
<1> HIDE DEF S
<1>8. n \in S
  BY <1>6, <1>7, EveryNat
<1>9. v[n] = f[n - n] /\ n - n = 0
  BY <1>8 DEF S
<1>10. QED
  BY <1>1, <1>2, <1>5, <1>9 DEF d

\* Numbers sort like their digits.
LEMMA DigitsSort ==
    ASSUME NEW n \in Nat, NEW x \in Nat, NEW y \in Nat, x < y, y < Power(n)
    PROVE  \E i \in 1..n : /\ Digits(x, n)[i] < Digits(y, n)[i]
                           /\ \A k \in 1..i - 1 : Digits(x, n)[k] = Digits(y, n)[k]
<1> DEFINE f == Left(x, n)
           g == Left(y, n)
<1>1. Power(n) \in Nat /\ x < Power(n)
  BY PowerIs
<1>2. /\ f[0] = x /\ \A i \in 1..n : f[i] = f[i - 1] \div Base
      /\ \A i \in 0..n : f[i] \in Int
      /\ f[n] = 0
  BY <1>1, LeftIs, LeftEnds
<1>3. /\ g[0] = y /\ \A i \in 1..n : g[i] = g[i - 1] \div Base
      /\ \A i \in 0..n : g[i] \in Int
      /\ g[n] = 0
  BY LeftIs, LeftEnds
<1>4. \A i \in 1..n : Digits(x, n)[i] = f[n - i] % Base /\ Digits(y, n)[i] = g[n - i] % Base
  <2>1. \A i \in 1..n : Digits(x, n)[i] = f[n - i] % Base
    BY DigitsIs
  <2>2. \A i \in 1..n : Digits(y, n)[i] = g[n - i] % Base
    BY DigitsIs
  <2> HIDE DEF f, g
  <2>3. QED
    BY <2>1, <2>2, Zenon
<1>5. Base \in Nat \ {0}
  BY WidthAssumption
<1> HIDE DEF f, g
<1> DEFINE S == {m \in Nat : m <= n => f[m] <= g[m]}
<1>6. 0 \in S
  BY <1>2, <1>3
<1>7. ASSUME NEW m \in S \cap Nat PROVE m + 1 \in S
  <2> SUFFICES ASSUME m + 1 <= n PROVE f[m + 1] <= g[m + 1]
    OBVIOUS
  <2>1. f[m] <= g[m] /\ m + 1 \in 1..n /\ (m + 1) - 1 = m /\ m \in 0..n
    OBVIOUS
  <2>2. f[m] \in Int /\ g[m] \in Int /\ f[m + 1] = f[m] \div Base /\ g[m + 1] = g[m] \div Base
    BY <1>2, <1>3, <2>1
  <2>3. f[m] \div Base <= g[m] \div Base
    BY <1>5, <2>1, <2>2, DividedOrder
  <2>4. QED
    BY <2>2, <2>3
<1> HIDE DEF S
<1>8. \A m \in 0..n : f[m] <= g[m]
  <2>1. Nat \subseteq S
    BY <1>6, <1>7, EveryNat
  <2>2. QED
    BY <2>1 DEF S
<1> DEFINE T == {m \in 0..n : f[m] < g[m]}
<1>9. T \subseteq 0..n /\ 0 \in T
  BY <1>2, <1>3
<1> HIDE DEF T
<1>10. PICK j \in T : \A m \in T : m <= j
  BY <1>9, MaxIs
<1>11. j \in 0..n /\ f[j] < g[j]
  BY <1>10 DEF T
<1>12. j \in 0..n - 1
  <2>1. j # n
    BY <1>2, <1>3, <1>11
  <2>2. QED
    BY <1>11, <2>1
<1>13. \A m \in j + 1..n : f[m] = g[m]
  <2> SUFFICES ASSUME NEW m \in j + 1..n PROVE f[m] = g[m]
    OBVIOUS
  <2>1. m \in 0..n /\ ~(m <= j)
    BY <1>12
  <2>2. m \notin T
    BY <1>10, <2>1
  <2>3. ~(f[m] < g[m]) /\ f[m] <= g[m] /\ f[m] \in Int /\ g[m] \in Int
    BY <1>2, <1>3, <1>8, <2>1, <2>2 DEF T
  <2>4. QED
    BY <2>3
<1> DEFINE i == n - j
<1>14. i \in 1..n /\ n - i = j
  BY <1>12
<1>15. f[j] % Base < g[j] % Base
  <2>1. j + 1 \in 1..n /\ (j + 1) - 1 = j /\ j + 1 \in j + 1..n /\ j \in 0..n
    BY <1>12
  <2>2. f[j] \div Base = g[j] \div Base
    BY <1>2, <1>3, <1>13, <2>1
  <2>3. f[j] \in Int /\ g[j] \in Int
    BY <1>2, <1>3, <2>1
  <2> DEFINE p == f[j]
             q == g[j]
  <2>4. p \in Int /\ q \in Int /\ p < q /\ p \div Base = q \div Base
    BY <1>11, <2>2, <2>3
  <2> HIDE DEF p, q
  <2>5. /\ p \div Base \in Int /\ p % Base \in Int /\ p = Base * (p \div Base) + (p % Base)
        /\ q % Base \in Int /\ q = Base * (q \div Base) + (q % Base)
    BY <1>5, <2>4, Divided
  <2>6. Base * (p \div Base) \in Int /\ Base * (p \div Base) = Base * (q \div Base)
    BY <1>5, <2>4, <2>5
  <2>7. p % Base < q % Base
    BY <2>4, <2>5, <2>6
  <2>8. QED
    BY <2>7 DEF p, q
<1>16. ASSUME NEW k \in 1..i - 1 PROVE Digits(x, n)[k] = Digits(y, n)[k]
  <2>1. k \in 1..n /\ n - k \in j + 1..n
    BY <1>12, <1>14
  <2>2. f[n - k] = g[n - k]
    BY <1>13, <2>1
  <2>3. QED
    BY <1>4, <2>1, <2>2
<1>17. Digits(x, n)[i] < Digits(y, n)[i]
  BY <1>4, <1>14, <1>15
<1> HIDE DEF i
<1>18. QED
  BY <1>14, <1>16, <1>17

-----------------------------------------------------------------------------
(* What is shown for a stamp *)

\* The label of a reading of the clock is in range and can be written.
LEMMA StampRange ==
    ASSUME NEW a \in Clock
    PROVE  LET t == ngim_tain_from_apr(a)
           IN /\ a \in 0..AprLimit - 2
              /\ t.sec = Epoch + a \div Micro /\ t.nano = Nano * (a % Micro) + Nano \div 2
              /\ t.sec \in Nat /\ t.sec <= TAI_MAX_SEC /\ t.sec < Power(SecDigits)
              /\ t.nano \in Nat /\ t.nano <= TAI_MAX_NA /\ t.nano < Power(NanoDigits)
<1> DEFINE q == a \div Micro
           u == a % Micro
           h == Nano \div 2
           sec == Epoch + q
           nano == Nano * u + h
<1>1. /\ Micro \in Nat \ {0} /\ Nano \in Nat \ {0} /\ Epoch \in Nat /\ AprLimit \in Nat \ {0}
      /\ SecDigits \in Nat /\ NanoDigits \in Nat
  BY WidthAssumption
<1>2. a \in 0..AprLimit - 2
  BY TextAssumption
<1>3. ngim_tain_from_apr(a).sec = sec /\ ngim_tain_from_apr(a).nano = nano
  BY Zenon DEF ngim_tain_from_apr
<1>4. q \in Int /\ u \in 0..Micro - 1
  BY <1>1, <1>2, Divided
<1>5. q >= 0 /\ q <= AprLimit \div Micro /\ AprLimit \div Micro \in Int
  <2>1. 0 <= a /\ a <= AprLimit /\ a \in Int /\ AprLimit \in Int /\ 0 \in Int
    BY <1>1, <1>2
  <2>2. 0 \div Micro <= a \div Micro /\ a \div Micro <= AprLimit \div Micro
    BY <1>1, <2>1, DividedOrder
  <2>3. 0 \div Micro = 0 /\ AprLimit \div Micro \in Int
    BY <1>1
  <2>4. QED
    BY <2>2, <2>3
<1>6. h \in Nat /\ h < Nano
  BY <1>1
<1> HIDE DEF q, u, h
<1>7. sec \in Nat
  BY <1>1, <1>4, <1>5
<1>8. TAI_MAX_SEC \in Int /\ TAI_MAX_SEC < Power(SecDigits) /\ Power(SecDigits) \in Nat
  <2>1. Power(SecDigits) \in Nat \ {0}
    BY <1>1, PowerIs
  <2> DEFINE p == Power(SecDigits)
  <2> HIDE DEF p
  <2>2. p \in Nat \ {0}
    BY <2>1 DEF p
  <2>3. p \div 2 - 1 \in Int /\ p \div 2 - 1 < p
    BY <2>2
  <2>4. QED
    BY <2>2, <2>3 DEF TAI_MAX_SEC, p
<1>9. sec <= TAI_MAX_SEC /\ sec < Power(SecDigits)
  <2>1. Epoch + AprLimit \div Micro <= TAI_MAX_SEC
    BY RangeAssumption
  <2>2. QED
    BY <1>1, <1>4, <1>5, <1>7, <1>8, <2>1
<1>10. Nano * u \in Nat /\ Nano * u <= Nano * (Micro - 1)
  <2>1. 0 \in Int /\ u \in Int /\ Micro - 1 \in Int /\ 0 <= u /\ u <= Micro - 1
    BY <1>1, <1>4
  <2>2. Nano * 0 <= Nano * u /\ Nano * u \in Int
    BY <1>1, <2>1, Times
  <2>3. Nano * u <= Nano * (Micro - 1)
    BY <1>1, <2>1, Times
  <2>4. Nano * 0 = 0
    BY <1>1
  <2>5. QED
    BY <2>2, <2>3, <2>4
<1>11. Nano * (Micro - 1) = Micro * Nano - Nano /\ Micro * Nano \in Int
  BY <1>1
<1>12. nano \in Nat /\ nano <= Micro * Nano - 1
  BY <1>1, <1>6, <1>10, <1>11
<1>13. nano <= TAI_MAX_NA
  BY <1>12 DEF TAI_MAX_NA
<1>14. nano < Power(NanoDigits)
  <2>1. Micro * Nano <= Power(NanoDigits) /\ Power(NanoDigits) \in Nat
    BY <1>1, RangeAssumption, PowerIs
  <2>2. QED
    BY <1>11, <1>12, <2>1
<1> HIDE DEF sec, nano
<1>15. QED
  BY <1>2, <1>3, <1>7, <1>9, <1>12, <1>13, <1>14 DEF sec, nano, q, u, h

\* In the range of the type the time is made without overflow.
LEMMA AprMade ==
    ASSUME NEW s \in Int, NEW u \in Int, s * Micro + u \in 0..AprLimit - 1
    PROVE  apr_time_make(s, u) = s * Micro + u
<1>1. AprLimit \in Nat \ {0} /\ Micro \in Nat \ {0}
  BY WidthAssumption
<1> DEFINE x == s * Micro + u
<1>2. x \in 0..AprLimit - 1
  OBVIOUS
<1>3. apr_time_make(s, u) = ((x + AprLimit) % (2 * AprLimit)) - AprLimit
  BY Zenon DEF apr_time_make
<1> HIDE DEF x
<1>4. \A y \in Nat, z \in Nat \ {0} : y < z => y % z = y
  OBVIOUS
<1>5. x + AprLimit \in Nat /\ 2 * AprLimit \in Nat \ {0} /\ x + AprLimit < 2 * AprLimit
  BY <1>1, <1>2
<1>6. (x + AprLimit) % (2 * AprLimit) = x + AprLimit
  BY <1>4, <1>5
<1>7. apr_time_make(s, u) = x
  BY <1>1, <1>2, <1>3, <1>6
<1>8. QED
  BY <1>7 DEF x

\* A stamp is converted into one microsecond more than it was made of: both
\* conversions round up.
LEMMA StampToApr ==
    ASSUME NEW a \in Clock
    PROVE  ngim_tain_to_apr(ngim_tain_from_apr(a)) = a + 1
<1> DEFINE t == ngim_tain_from_apr(a)
           q == a \div Micro
           r == a % Micro
           h == Nano \div 2
           u == (t.nano + h) \div Nano
<1>1. a \in 0..AprLimit - 2 /\ t.sec = Epoch + q /\ t.nano = Nano * r + h
  BY StampRange
<1>2. /\ Micro \in Nat \ {0} /\ Nano \in Nat \ {0} /\ Epoch \in Nat /\ AprLimit \in Nat \ {0}
      /\ Nano % 2 = 0
  BY WidthAssumption
<1>3. q \in Int /\ r \in 0..Micro - 1 /\ a = Micro * q + r
  <2>1. a \in Int
    BY <1>1, <1>2
  <2>2. QED
    BY <1>2, <2>1, Divided
<1>4. h \in Nat /\ h + h = Nano
  BY <1>2
<1> HIDE DEF t, q, r, h
<1>5. t.nano + h = Nano * (r + 1)
  <2>1. Nano * (r + 1) = Nano * r + Nano
    BY <1>2, <1>3
  <2>2. Nano * r \in Int
    BY <1>2, <1>3
  <2>3. QED
    BY <1>1, <1>2, <1>4, <2>1, <2>2
<1>6. (Nano * (r + 1)) \div Nano = r + 1
  <2> DEFINE m == r + 1
             y == Nano * m
  <2>1. m \in Int /\ y \in Int /\ y = Nano * m
    BY <1>2, <1>3
  <2> HIDE DEF m, y
  <2>2. y < Nano * (m + 1)
    <3>1. Nano * (m + 1) = Nano * m + Nano
      BY <1>2, <2>1
    <3>2. QED
      BY <1>2, <2>1, <3>1
  <2>3. y \div Nano < m + 1
    <3>1. m + 1 \in Int /\ \A p \in Int : y < Nano * p => y \div Nano < p
      BY <1>2, <2>1, DividedOrder
    <3>2. QED
      BY <2>2, <3>1, Zenon
  <2>4. ~(y \div Nano < m)
    <3>1. y \div Nano \in Int /\ y % Nano \in 0..Nano - 1 /\ y = Nano * (y \div Nano) + (y % Nano)
      BY <1>2, <2>1, Divided
    <3>2. SUFFICES ASSUME (y \div Nano) + 1 <= m PROVE FALSE
      BY <2>1, <3>1
    <3>3. Nano * ((y \div Nano) + 1) <= Nano * m
      BY <1>2, <2>1, <3>1, <3>2, Times
    <3>4. Nano * ((y \div Nano) + 1) = Nano * (y \div Nano) + Nano
      BY <1>2, <3>1
    <3>5. Nano * (y \div Nano) \in Int
      BY <1>2, <3>1
    <3>6. QED
      BY <1>2, <2>1, <3>1, <3>3, <3>4, <3>5
  <2>5. y \div Nano \in Int
    BY <1>2, <2>1, Divided
  <2>6. y \div Nano = m
    BY <2>1, <2>3, <2>4, <2>5
  <2>7. QED
    BY <2>6 DEF m, y
<1>7. u = r + 1
  BY <1>5, <1>6
<1>8. ngim_tain_to_apr(t) = IF u > Micro - 1 THEN apr_time_make(t.sec - Epoch + 1, 0)
                                             ELSE apr_time_make(t.sec - Epoch, u)
  BY DEF ngim_tain_to_apr, h
<1> HIDE DEF u
<1>9. t.sec - Epoch = q /\ t.sec - Epoch + 1 = q + 1
  BY <1>1, <1>2, <1>3
<1>10. CASE u > Micro - 1
  <2>1. r = Micro - 1
    BY <1>2, <1>3, <1>7, <1>10
  <2>2. (q + 1) * Micro + 0 = a + 1
    <3>1. (q + 1) * Micro + 0 = Micro * q + Micro
      BY <1>2, <1>3
    <3>2. Micro * q \in Int
      BY <1>2, <1>3
    <3>3. QED
      BY <1>2, <1>3, <2>1, <3>1, <3>2
  <2>3. a + 1 \in 0..AprLimit - 1 /\ q + 1 \in Int /\ 0 \in Int
    BY <1>1, <1>2, <1>3
  <2>4. apr_time_make(q + 1, 0) = a + 1
    BY <2>2, <2>3, AprMade
  <2>5. QED
    BY <1>8, <1>9, <1>10, <2>4 DEF t
<1>11. CASE ~(u > Micro - 1)
  <2>1. q * Micro + u = a + 1
    <3>1. q * Micro = Micro * q /\ Micro * q \in Int
      BY <1>2, <1>3
    <3>2. QED
      BY <1>1, <1>3, <1>7, <3>1
  <2>2. a + 1 \in 0..AprLimit - 1 /\ u \in Int
    BY <1>1, <1>2, <1>3, <1>7
  <2>3. apr_time_make(q, u) = a + 1
    BY <1>3, <2>1, <2>2, AprMade
  <2>4. QED
    BY <1>8, <1>9, <1>11, <2>3 DEF t
<1>12. QED
  BY <1>10, <1>11

\* A part of a text, character by character.
LEMMA PartIs ==
    ASSUME NEW s, NEW m \in Int, NEW l \in Int, m <= l, \A i \in m..l : s[i] \in Character
    PROVE  /\ SubSeq(s, m, l) \in Seq(Character)
           /\ Len(SubSeq(s, m, l)) = l - m + 1
           /\ \A i \in 1..l - m + 1 : SubSeq(s, m, l)[i] = s[m + i - 1]
BY SubSeqProperties

\* What is read as the number in a part of the text of a label.
LEMMA DigitsPart ==
    ASSUME NEW s \in Seq(Character), NEW x \in Int, NEW n \in Nat \ {0}, NEW m \in Nat \ {0},
           m + n - 1 <= Len(s),
           \A i \in 1..n : s[i + m - 1] = Digits(x, n)[i]
    PROVE  SubSeq(s, m, m + n - 1) = Digits(x, n)
<1> DEFINE d == Digits(x, n)
           p == SubSeq(s, m, m + n - 1)
<1>1. d \in Seq(Digit) /\ Len(d) = n
  BY DigitsIs
<1>2. d \in Seq(Character)
  <2>1. Digit \subseteq Character
    BY DEF Character
  <2> HIDE DEF d
  <2>2. QED
    BY <1>1, <2>1, SeqMonotonic
<1>3. \A i \in m..m + n - 1 : s[i] \in Character
  <2>1. Len(s) \in Nat
    BY LenProperties
  <2>2. \A i \in m..m + n - 1 : i \in 1..Len(s)
    BY <2>1
  <2>3. QED
    BY <2>2, ElementOfSeq
<1>4. /\ p \in Seq(Character) /\ Len(p) = n
      /\ \A i \in 1..n : p[i] = s[m + i - 1]
  <2> DEFINE l == m + n - 1
  <2>1. l \in Int /\ m \in Int /\ m <= l /\ l - m + 1 = n
    OBVIOUS
  <2>2. \A i \in m..l : s[i] \in Character
    BY <1>3
  <2> HIDE DEF l
  <2>3. /\ SubSeq(s, m, l) \in Seq(Character)
        /\ Len(SubSeq(s, m, l)) = l - m + 1
        /\ \A i \in 1..l - m + 1 : SubSeq(s, m, l)[i] = s[m + i - 1]
    BY <2>1, <2>2, PartIs
  <2>4. QED
    BY <2>1, <2>3 DEF l
<1>5. \A i \in 1..n : m + i - 1 = i + m - 1
  OBVIOUS
<1>6. \A i \in 1..n : p[i] = d[i]
  BY <1>4, <1>5
<1> HIDE DEF p, d
<1>7. p = d
  BY <1>1, <1>2, <1>4, <1>6, SeqEqual
<1>8. QED
  BY <1>7 DEF p, d

\* A label that is written is read as itself.
LEMMA FormatSays ==
    ASSUME NEW a \in Clock
    PROVE  /\ Text(a) \in Seq(Character) /\ Len(Text(a)) = NGIM_TAIN_FORMAT
           /\ Text(a)[1] = At
           /\ \A k \in 2..NGIM_TAIN_FORMAT : is_hex_nibble(Text(a)[k])
           /\ ngim_tain_unformat(Text(a)) = ngim_tain_from_apr(a)
<1> DEFINE t == ngim_tain_from_apr(a)
           s == ngim_tain_format(t)
<1>1. /\ t.sec \in Nat /\ t.sec < Power(SecDigits) /\ t.nano \in Nat /\ t.nano < Power(NanoDigits)
  BY StampRange
<1>2. SecDigits \in Nat \ {0} /\ NanoDigits \in Nat \ {0}
  BY WidthAssumption
<1>3. t = [sec |-> t.sec, nano |-> t.nano]
  BY Zenon DEF ngim_tain_from_apr
<1> HIDE DEF t
<1>4. t.sec \in Int /\ t.nano \in Int
  BY <1>1
<1>5. /\ s \in Seq(Character) /\ Len(s) = NGIM_TAIN_FORMAT /\ s[1] = At
      /\ \A i \in 1..SecDigits : s[i + 1] = Digits(t.sec, SecDigits)[i]
      /\ \A i \in 1..NanoDigits : s[i + 1 + SecDigits] = Digits(t.nano, NanoDigits)[i]
  BY <1>4, FormatType
<1>6. Text(a) = s
  BY DEF Text, t
<1> HIDE DEF s
<1>7. /\ NGIM_TAI_FORMAT = 1 + SecDigits /\ NGIM_TAIN_FORMAT = 1 + SecDigits + NanoDigits
  BY <1>2 DEF NGIM_TAI_FORMAT, NGIM_TAIN_FORMAT
<1>8. SubSeq(s, 2, NGIM_TAI_FORMAT) = Digits(t.sec, SecDigits)
  <2>1. 2 \in Nat \ {0} /\ 2 + SecDigits - 1 <= Len(s) /\ 2 + SecDigits - 1 = NGIM_TAI_FORMAT
    BY <1>2, <1>5, <1>7
  <2>2. \A i \in 1..SecDigits : s[i + 2 - 1] = Digits(t.sec, SecDigits)[i]
    BY <1>5
  <2>3. SubSeq(s, 2, 2 + SecDigits - 1) = Digits(t.sec, SecDigits)
    BY <1>2, <1>4, <1>5, <2>1, <2>2, DigitsPart
  <2>4. QED
    BY <2>1, <2>3
<1>9. SubSeq(s, NGIM_TAI_FORMAT + 1, NGIM_TAIN_FORMAT) = Digits(t.nano, NanoDigits)
  <2> DEFINE m == NGIM_TAI_FORMAT + 1
  <2>1. m \in Nat \ {0} /\ m + NanoDigits - 1 <= Len(s) /\ m + NanoDigits - 1 = NGIM_TAIN_FORMAT
    BY <1>2, <1>5, <1>7
  <2>2. \A i \in 1..NanoDigits : s[i + m - 1] = Digits(t.nano, NanoDigits)[i]
    <3>1. \A i \in 1..NanoDigits : i + m - 1 = i + 1 + SecDigits
      BY <1>2, <1>7
    <3>2. QED
      BY <1>5, <3>1
  <2> DEFINE x == t.nano
  <2> HIDE DEF m, x
  <2>3. x \in Int /\ \A i \in 1..NanoDigits : s[i + m - 1] = Digits(x, NanoDigits)[i]
    BY <1>4, <2>2 DEF x
  <2>4. s \in Seq(Character) /\ NanoDigits \in Nat \ {0} /\ m \in Nat \ {0}
        /\ m + NanoDigits - 1 <= Len(s)
    BY <1>2, <1>5, <2>1
  <2>5. SubSeq(s, m, m + NanoDigits - 1) = Digits(x, NanoDigits)
    BY <2>3, <2>4, DigitsPart
  <2>6. QED
    BY <2>1, <2>5 DEF m, x
<1>10. Value(Digits(t.sec, SecDigits)) = t.sec
  BY <1>1, <1>2, DigitsSay
<1>11. Value(Digits(t.nano, NanoDigits)) = t.nano
  BY <1>1, <1>2, DigitsSay
<1>12. ngim_tain_unformat(s) = t
  BY <1>3, <1>8, <1>9, <1>10, <1>11, Zenon DEF ngim_tain_unformat, ngim_tai_unformat
<1>13. ASSUME NEW k \in 2..NGIM_TAIN_FORMAT PROVE is_hex_nibble(s[k])
  <2>1. CASE k <= NGIM_TAI_FORMAT
    <3>1. k - 1 \in 1..SecDigits /\ (k - 1) + 1 = k
      BY <1>2, <1>7, <2>1
    <3>2. s[k] = Digits(t.sec, SecDigits)[k - 1]
      BY <1>5, <3>1
    <3>3. Digits(t.sec, SecDigits)[k - 1] \in Digit
      <4> DEFINE d == Digits(t.sec, SecDigits)
      <4>1. d \in Seq(Digit) /\ Len(d) = SecDigits
        BY <1>2, <1>4, DigitsIs
      <4> HIDE DEF d
      <4>2. d[k - 1] \in Digit
        BY <3>1, <4>1, ElementOfSeq
      <4>3. QED
        BY <4>2 DEF d
    <3>4. QED
      BY <3>2, <3>3 DEF is_hex_nibble
  <2>2. CASE ~(k <= NGIM_TAI_FORMAT)
    <3> DEFINE i == k - 1 - SecDigits
    <3>1. i \in 1..NanoDigits /\ i + 1 + SecDigits = k
      BY <1>2, <1>7, <2>2
    <3> HIDE DEF i
    <3>2. s[k] = Digits(t.nano, NanoDigits)[i]
      BY <1>5, <3>1
    <3>3. Digits(t.nano, NanoDigits)[i] \in Digit
      <4> DEFINE d == Digits(t.nano, NanoDigits)
      <4>1. d \in Seq(Digit) /\ Len(d) = NanoDigits
        BY <1>2, <1>4, DigitsIs
      <4> HIDE DEF d
      <4>2. d[i] \in Digit
        BY <3>1, <4>1, ElementOfSeq
      <4>3. QED
        BY <4>2 DEF d
    <3>4. QED
      BY <3>2, <3>3 DEF is_hex_nibble
  <2>3. QED
    BY <2>1, <2>2
<1>14. QED
  BY <1>5, <1>6, <1>12, <1>13 DEF t

\* All that is shown for a stamp is its date.
LEMMA StampShown ==
    ASSUME NEW a \in Clock, NEW all
    PROVE  Rest(Text(a), all)[1] = Date(a + 1)
<1> DEFINE s == Text(a)
           n == NGIM_TAIN_FORMAT
<1>1. /\ s \in Seq(Character) /\ Len(s) = n /\ s[1] = At
      /\ \A k \in 2..n : is_hex_nibble(s[k])
      /\ ngim_tain_unformat(s) = ngim_tain_from_apr(a)
  BY FormatSays
<1>2. n \in Nat /\ 2 <= n
  BY Formats
<1>3. ngim_tain_valid(ngim_tain_from_apr(a))
  BY StampRange, Zenon DEF ngim_tain_valid, ngim_tai_valid
<1>4. ngim_tain_to_apr(ngim_tain_from_apr(a)) = a + 1
  BY StampToApr
<1> HIDE DEF s
<1>5. convert_buffer(s) = [date |-> Date(a + 1), unused |-> Len(s) - n]
  <2>1. Len(s) >= NGIM_TAIN_FORMAT
    BY <1>1, <1>2
  <2>2. QED
    BY <1>1, <1>3, <1>4, <2>1, Zenon DEF convert_buffer
<1>6. Len(s) - n = 0 /\ Len(s) - 0 + 1 = n + 1
  BY <1>1, <1>2
<1>7. convert_buffer(s).date = Date(a + 1) /\ convert_buffer(s).unused = 0
  BY <1>5, <1>6
<1>8. Converts(s)
  <2>1. Date(a + 1) # <<>>
    BY DEF Date
  <2>2. QED
    BY <1>7, <2>1 DEF Converts
<1>9. Unused(s) = <<>>
  <2>1. Unused(s) = SubSeq(s, n + 1, Len(s))
    BY <1>6, <1>7, Zenon DEF Unused
  <2>2. SubSeq(s, n + 1, Len(s)) = <<>>
    <3>1. n + 1 \in Int /\ Len(s) \in Int /\ Len(s) < n + 1
      BY <1>1, <1>2
    <3> DEFINE m == n + 1
    <3> HIDE DEF m, n
    <3>2. SubSeq(s, m, Len(s)) = <<>>
      BY <3>1, SubSeqEmpty DEF m
    <3>3. QED
      BY <3>2 DEF m
  <2>3. QED
    BY <2>1, <2>2
<1>10. Date(a + 1) \in Seq(Item)
  <2>1. a + 1 \in Int
    BY StampRange, WidthAssumption
  <2>2. QED
    BY <2>1 DEF Date, Item
<1>11. Shown(s) = Date(a + 1)
  <2>1. Shown(s) = Date(a + 1) \o <<>>
    BY <1>7, <1>8, <1>9, PlainEmpty, Zenon DEF Shown
  <2> DEFINE d == Date(a + 1)
  <2> HIDE DEF d
  <2>2. d \o <<>> = d
    BY <1>10, ConcatEmptySeq DEF d
  <2>3. QED
    BY <2>1, <2>2 DEF d
<1>12. Whole(s, 1, n)
  <2>1. 1 \in 1..Len(s) /\ n \in 1..Len(s) /\ \A k \in 1 + 1..n : k \in 2..n
    BY <1>1, <1>2
  <2>2. QED
    BY <1>1, <2>1 DEF Whole, Run
<1>13. Rest(s, all)[1] = Shown(SubSeq(s, 1, n)) \o Rest(s, all)[n + 1]
  <2>1. 1 \in Nat /\ Sought(s, all, 1)
    BY DEF Sought
  <2>2. QED
    BY <1>1, <1>2, <1>12, <2>1, ShownRest
<1>14. SubSeq(s, 1, n) = s
  BY <1>1, SubSeqFull
<1>15. Rest(s, all)[n + 1] = <<>>
  BY <1>1, RestIs
<1>16. Date(a + 1) \o <<>> = Date(a + 1)
  <2> DEFINE d == Date(a + 1)
  <2> HIDE DEF d
  <2>1. d \o <<>> = d
    BY <1>10, ConcatEmptySeq DEF d
  <2>2. QED
    BY <2>1 DEF d
<1>17. QED
  BY <1>11, <1>13, <1>14, <1>15, <1>16 DEF s

\* A later reading of the clock has a later label.
LEMMA StampOrder ==
    ASSUME NEW a \in Clock, NEW b \in Clock, b < a
    PROVE  LET t == ngim_tain_from_apr(a)
               u == ngim_tain_from_apr(b)
           IN u.sec < t.sec \/ (u.sec = t.sec /\ u.nano < t.nano)
<1> DEFINE t == ngim_tain_from_apr(a)
           u == ngim_tain_from_apr(b)
           qa == a \div Micro
           ra == a % Micro
           qb == b \div Micro
           rb == b % Micro
           h == Nano \div 2
<1>1. a \in Int /\ t.sec = Epoch + qa /\ t.nano = Nano * ra + h
  BY StampRange, WidthAssumption
<1>2. b \in Int /\ u.sec = Epoch + qb /\ u.nano = Nano * rb + h
  BY StampRange, WidthAssumption
<1>3. Micro \in Nat \ {0} /\ Nano \in Nat \ {0} /\ Epoch \in Nat
  BY WidthAssumption
<1>4. qa \in Int /\ ra \in 0..Micro - 1 /\ a = Micro * qa + ra
  BY <1>1, <1>3, Divided
<1>5. qb \in Int /\ rb \in 0..Micro - 1 /\ b = Micro * qb + rb
  BY <1>2, <1>3, Divided
<1>6. qb <= qa
  <2>1. \A x \in Int : x <= a => x \div Micro <= a \div Micro
    BY <1>1, <1>3, DividedOrder
  <2>2. b <= a
    BY <1>1, <1>2
  <2>3. QED
    BY <1>2, <2>1, <2>2
<1>7. h \in Nat
  BY <1>3
<1> HIDE DEF t, u, qa, ra, qb, rb, h
<1>8. CASE qb < qa
  <2>1. u.sec < t.sec
    BY <1>1, <1>2, <1>3, <1>4, <1>5, <1>8
  <2>2. QED
    BY <2>1 DEF t, u
<1>9. CASE qb = qa
  <2>1. Micro * qa \in Int /\ Micro * qb = Micro * qa
    BY <1>3, <1>4, <1>9
  <2>2. rb + 1 <= ra
    BY <1>1, <1>2, <1>3, <1>4, <1>5, <2>1
  <2>3. Nano * (rb + 1) <= Nano * ra
    <3>1. rb + 1 \in Int /\ ra \in Int /\ Nano \in Nat
      BY <1>3, <1>4, <1>5
    <3>2. QED
      BY <2>2, <3>1, Times
  <2>4. Nano * (rb + 1) = Nano * rb + Nano
    BY <1>3, <1>5
  <2>5. Nano * rb \in Int /\ Nano * ra \in Int
    BY <1>3, <1>4, <1>5
  <2>6. u.sec = t.sec /\ u.nano < t.nano
    BY <1>1, <1>2, <1>3, <1>7, <1>9, <2>3, <2>4, <2>5
  <2>7. QED
    BY <2>6 DEF t, u
<1>10. QED
  BY <1>4, <1>5, <1>6, <1>8, <1>9

\* Texts of labels sort like the readings of the clock that they were made of.
LEMMA StampSorts ==
    ASSUME NEW a \in Clock, NEW b \in Clock, b < a
    PROVE  Sorts(Text(b), Text(a))
<1> DEFINE t == ngim_tain_from_apr(a)
           u == ngim_tain_from_apr(b)
           p == ngim_tain_format(t)
           q == ngim_tain_format(u)
<1>1. /\ t.sec \in Nat /\ t.sec < Power(SecDigits) /\ t.nano \in Nat /\ t.nano < Power(NanoDigits)
  BY StampRange
<1>2. u.sec \in Nat /\ u.nano \in Nat
  BY StampRange
<1>3. u.sec < t.sec \/ (u.sec = t.sec /\ u.nano < t.nano)
  BY StampOrder
<1>4. SecDigits \in Nat \ {0} /\ NanoDigits \in Nat \ {0}
  BY WidthAssumption
<1>5. Text(a) = p /\ Text(b) = q
  BY DEF Text
<1> HIDE DEF t, u
<1>6. t.sec \in Int /\ t.nano \in Int /\ u.sec \in Int /\ u.nano \in Int
  BY <1>1, <1>2
<1>7. /\ Len(p) = NGIM_TAIN_FORMAT /\ p[1] = At
      /\ \A i \in 1..SecDigits : p[i + 1] = Digits(t.sec, SecDigits)[i]
      /\ \A i \in 1..NanoDigits : p[i + 1 + SecDigits] = Digits(t.nano, NanoDigits)[i]
  BY <1>6, FormatType
<1>8. /\ Len(q) = NGIM_TAIN_FORMAT /\ q[1] = At
      /\ \A i \in 1..SecDigits : q[i + 1] = Digits(u.sec, SecDigits)[i]
      /\ \A i \in 1..NanoDigits : q[i + 1 + SecDigits] = Digits(u.nano, NanoDigits)[i]
  BY <1>6, FormatType
<1> HIDE DEF p, q
<1>9. NGIM_TAIN_FORMAT = 1 + SecDigits + NanoDigits
  BY <1>4 DEF NGIM_TAI_FORMAT, NGIM_TAIN_FORMAT
<1>10. CASE u.sec < t.sec
  <2>1. PICK i \in 1..SecDigits :
          /\ Digits(u.sec, SecDigits)[i] < Digits(t.sec, SecDigits)[i]
          /\ \A k \in 1..i - 1 : Digits(u.sec, SecDigits)[k] = Digits(t.sec, SecDigits)[k]
    <3> DEFINE x == u.sec
               y == t.sec
    <3>1. SecDigits \in Nat /\ x \in Nat /\ y \in Nat /\ x < y /\ y < Power(SecDigits)
      BY <1>1, <1>2, <1>4, <1>10
    <3> HIDE DEF x, y
    <3>2. \E i \in 1..SecDigits :
            /\ Digits(x, SecDigits)[i] < Digits(y, SecDigits)[i]
            /\ \A k \in 1..i - 1 : Digits(x, SecDigits)[k] = Digits(y, SecDigits)[k]
      BY <3>1, DigitsSort, Zenon
    <3>3. QED
      BY <3>2, Zenon DEF x, y
  <2>2. i + 1 \in 1..Len(q) /\ q[i + 1] < p[i + 1]
    BY <1>4, <1>7, <1>8, <1>9, <2>1
  <2>3. ASSUME NEW k \in 1..(i + 1) - 1 PROVE q[k] = p[k]
    <3>1. CASE k = 1
      BY <1>7, <1>8, <3>1
    <3>2. CASE k # 1
      <4>1. k - 1 \in 1..i - 1 /\ k - 1 \in 1..SecDigits /\ (k - 1) + 1 = k
        BY <1>4, <3>2
      <4>2. q[k] = Digits(u.sec, SecDigits)[k - 1] /\ p[k] = Digits(t.sec, SecDigits)[k - 1]
        BY <1>7, <1>8, <4>1
      <4>3. QED
        BY <2>1, <4>1, <4>2
    <3>3. QED
      BY <3>1, <3>2
  <2>4. Sorts(q, p)
    BY <2>2, <2>3 DEF Sorts
  <2>5. QED
    BY <1>5, <2>4
<1>11. CASE u.sec = t.sec /\ u.nano < t.nano
  <2>1. PICK i \in 1..NanoDigits :
          /\ Digits(u.nano, NanoDigits)[i] < Digits(t.nano, NanoDigits)[i]
          /\ \A k \in 1..i - 1 : Digits(u.nano, NanoDigits)[k] = Digits(t.nano, NanoDigits)[k]
    <3> DEFINE x == u.nano
               y == t.nano
    <3>1. NanoDigits \in Nat /\ x \in Nat /\ y \in Nat /\ x < y /\ y < Power(NanoDigits)
      BY <1>1, <1>2, <1>4, <1>11
    <3> HIDE DEF x, y
    <3>2. \E i \in 1..NanoDigits :
            /\ Digits(x, NanoDigits)[i] < Digits(y, NanoDigits)[i]
            /\ \A k \in 1..i - 1 : Digits(x, NanoDigits)[k] = Digits(y, NanoDigits)[k]
      BY <3>1, DigitsSort, Zenon
    <3>3. QED
      BY <3>2, Zenon DEF x, y
  <2> DEFINE j == i + 1 + SecDigits
  <2>2. j \in 1..Len(q)
    BY <1>4, <1>8, <1>9
  <2>3. q[j] < p[j]
    BY <1>7, <1>8, <2>1
  <2>4. ASSUME NEW k \in 1..j - 1 PROVE q[k] = p[k]
    <3>1. CASE k = 1
      BY <1>7, <1>8, <3>1
    <3>2. CASE k # 1 /\ k <= SecDigits + 1
      <4>1. k - 1 \in 1..SecDigits /\ (k - 1) + 1 = k
        BY <1>4, <3>2
      <4>2. q[k] = Digits(u.sec, SecDigits)[k - 1] /\ p[k] = Digits(t.sec, SecDigits)[k - 1]
        BY <1>7, <1>8, <4>1
      <4>3. QED
        BY <1>11, <4>2
    <3>3. CASE ~(k <= SecDigits + 1)
      <4> DEFINE m == k - 1 - SecDigits
      <4>1. m \in 1..i - 1 /\ m \in 1..NanoDigits /\ m + 1 + SecDigits = k
        BY <1>4, <3>3
      <4> HIDE DEF m
      <4>2. q[k] = Digits(u.nano, NanoDigits)[m] /\ p[k] = Digits(t.nano, NanoDigits)[m]
        BY <1>7, <1>8, <4>1
      <4>3. QED
        BY <2>1, <4>1, <4>2
    <3>4. QED
      BY <1>4, <3>1, <3>2, <3>3
  <2> HIDE DEF j
  <2>5. Sorts(q, p)
    BY <2>2, <2>3, <2>4 DEF Sorts
  <2>6. QED
    BY <1>5, <2>5
<1>12. QED
  BY <1>3, <1>10, <1>11

\* A stamped text is the label of the reading, whatever happens to it.
StampInv == stamped # None => stamped \in Clock /\ text = Text(stamped)

\* The invariant of the stamps holds at every step.
LEMMA StampHolds == TaiconvSpec => []StampInv
<1>1. TaiconvInit => StampInv
  BY DEF TaiconvInit, StampInv, Text
<1>2. ASSUME StampInv, [TaiconvNext]_taiconv_vars PROVE StampInv'
  <2>1. UNCHANGED <<text, stamped>>
    <3>1. TaiconvNext => UNCHANGED <<text, stamped>>
      BY Zenon DEF TaiconvNext, convert_mmap, convert_mmap_all, convert_mmap_nrm, convert_mmap_end,
                   map_one, convert_read_all, convert_read_nrm, read_one, convert_read_end,
                   Converted, taiconv_vars
    <3>2. QED
      BY <1>2, <3>1, Zenon DEF taiconv_vars
  <2>2. QED
    BY <1>2, <2>1 DEF StampInv, Text
<1>3. QED
  BY <1>1, <1>2, PTL DEF TaiconvSpec

\* For every width of labels that can hold what the clock tells: stamps sort like
\* the clock, and taiconv shows of a stamp nothing but the date one microsecond
\* after the clock's reading (ngim_tain_from_apr, ngim_tain_format,
\* ngim_tain_unformat, ngim_tain_valid, ngim_tain_to_apr, taiconv.c).
THEOREM StampsToldHolds == TaiconvSpec => []StampsTold
<1>1. TaiconvInv /\ StampInv => StampsTold
  <2> SUFFICES ASSUME TaiconvInv, StampInv, stamped # None
               PROVE  /\ \A b \in Clock : b < stamped => Sorts(Text(b), text)
                      /\ at = "done" => out = Date(stamped + 1)
    BY Zenon DEF StampsTold
  <2>1. stamped \in Clock /\ text = Text(stamped)
    BY DEF StampInv
  <2>2. ASSUME NEW b \in Clock, b < stamped PROVE Sorts(Text(b), text)
    BY <2>1, <2>2, StampSorts
  <2>3. ASSUME at = "done" PROVE out = Date(stamped + 1)
    <3>1. out = Rest(text, arg_all)[1]
      BY <2>3 DEF TaiconvInv, EndInv, Whole_output
    <3>2. Rest(Text(stamped), arg_all)[1] = Date(stamped + 1)
      BY <2>1, StampShown
    <3>3. QED
      BY <2>1, <3>1, <3>2, Zenon
  <2>4. QED
    BY <2>2, <2>3
<1>2. QED
  BY <1>1, TaiconvHolds, StampHolds, PTL
=============================================================================
