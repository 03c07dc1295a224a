-------------------------- MODULE PersisterProofs --------------------------
(***************************************************************************)
(* Proofs about the file of a node, for any terms, votes, commands and     *)
(* saves, of which some may be cut short, and for whatever memory follows  *)
(* the buffer that it is read into: what was saved leads what              *)
(* deserialize() makes of it.  And what it makes of the rest, while        *)
(* entries are of one width and writes whole, when that memory is          *)
(* harmless: a header, and cells of that width, each moved by a character  *)
(* at most and without its first one at worst.                             *)
(*                                                                         *)
(* What the loops over characters do is proved by the least number of      *)
(* turns for which it would fail.                                          *)
(***************************************************************************)
EXTENDS PersisterProperties, FiniteSetTheorems, SequenceTheorems,
        WellFoundedInduction, TLAPS

(* The order of the natural numbers, as a relation.                        *)
Less == {p \in Nat \X Nat : p[1] < p[2]}

(* The natural numbers are well ordered by <.                              *)
LEMMA LessWellFounded == IsWellFoundedOn(Less, Nat)
    BY NatLessThanWellFounded DEF OpToRel, Less

(* A set of naturals that is not empty has a least member.                 *)
LEMMA LeastOf ==
    ASSUME NEW S \in SUBSET Nat, S # {}
    PROVE  \E n \in S : \A m \in S : n <= m
<1>1. PICK n \in S : \A m \in S : <<m, n>> \notin Less
    BY LessWellFounded, WFMin
<1>2. ASSUME NEW m \in S PROVE n <= m
    <2>1. <<m, n>> \in Nat \X Nat /\ <<m, n>>[1] = m /\ <<m, n>>[2] = n
        OBVIOUS
    <2>2. QED  BY <1>1, <2>1 DEF Less
<1>3. QED  BY <1>2

(* Induction.                                                              *)
LEMMA InductionOn ==
    ASSUME NEW S, 0 \in S, \A n \in Nat : n \in S => n + 1 \in S
    PROVE  \A n \in Nat : n \in S
<1> SUFFICES ASSUME Nat \ S # {} PROVE FALSE
    OBVIOUS
<1>1. PICK n \in Nat \ S : \A m \in Nat \ S : n <= m
    BY LeastOf
<1>2. n # 0 /\ n - 1 \in S
    BY <1>1
<1>3. QED  BY <1>1, <1>2

(* A function may be defined by recursion on an initial segment of Nat.    *)
Follows(f, n, first, step) ==
    /\ f[0] = first
    /\ \A k \in 1..n : f[k] = step[k][f[k - 1]]

(* There is such a function.                                               *)
LEMMA Recursion ==
    ASSUME NEW n \in Nat, NEW S, NEW first \in S, NEW step \in [1..n -> [S -> S]]
    PROVE  \E f \in [0..n -> S] : Follows(f, n, first, step)
<1> DEFINE T == {m \in Nat : m <= n =>
                    \E f \in [0..m -> S] : Follows(f, m, first, step)}
<1>1. 0 \in T
    <2> DEFINE g == [k \in 0..0 |-> first]
    <2>1. g \in [0..0 -> S] /\ g[0] = first
        OBVIOUS
    <2> HIDE DEF g
    <2>2. Follows(g, 0, first, step)
        BY <2>1 DEF Follows
    <2>3. QED  BY <2>1, <2>2
<1>2. ASSUME NEW m \in Nat, m \in T PROVE m + 1 \in T
    <2> SUFFICES ASSUME m + 1 <= n
                 PROVE  \E f \in [0..(m + 1) -> S] :
                            Follows(f, m + 1, first, step)
        OBVIOUS
    <2>1. PICK f \in [0..m -> S] : Follows(f, m, first, step)
        BY <1>2
    <2> DEFINE g == [k \in 0..(m + 1) |->
                       IF k <= m THEN f[k] ELSE step[m + 1][f[m]]]
    <2>2. g \in [0..(m + 1) -> S]
        OBVIOUS
    <2>3. Follows(g, m + 1, first, step)
        BY <2>1 DEF Follows
    <2> HIDE DEF g
    <2>4. QED  BY <2>2, <2>3
<1>3. n \in T
    <2> HIDE DEF T
    <2>1. QED  BY <1>1, <1>2, InductionOn
<1>4. QED  BY <1>3
-----------------------------------------------------------------------------
(* Numbers.                                                                *)

(* Division by ten, digit by digit.                                        *)
LEMMA DivTen ==
    ASSUME NEW n \in Nat
    PROVE  /\ n \div 10 \in Nat /\ n % 10 \in 0..9
           /\ n = 10 * (n \div 10) + (n % 10)
           /\ n > 0 => n \div 10 < n
OBVIOUS

(* What is left of a number, digit by digit.                               *)
Quotients(left, n) ==
    left = [k \in 0..(n + 1) |-> IF k = 0 THEN n ELSE left[k - 1] \div 10]

(* They are there, and come to nothing.                                    *)
LEMMA QuotientsExist ==
    ASSUME NEW n \in Nat
    PROVE  \E left : Quotients(left, n)
<1> DEFINE step == [k \in 1..(n + 1) |-> [x \in Nat |-> x \div 10]]
<1>1. step \in [1..(n + 1) -> [Nat -> Nat]]
    BY DivTen
<1>2. PICK g \in [0..(n + 1) -> Nat] : Follows(g, n + 1, n, step)
    <2> DEFINE S == Nat  m == n + 1
    <2>1. m \in Nat /\ n \in S /\ step \in [1..m -> [S -> S]]
        BY <1>1
    <2> HIDE DEF step, S, m
    <2>2. \E g \in [0..m -> S] : Follows(g, m, n, step)
        BY <2>1, Recursion
    <2>3. QED  BY <2>2 DEF S, m
<1>3. ASSUME NEW k \in 1..(n + 1) PROVE g[k] = g[k - 1] \div 10
    <2>1. \A x \in Nat : step[k][x] = x \div 10
        OBVIOUS
    <2> HIDE DEF step
    <2>2. g[k - 1] \in Nat /\ g[k] = step[k][g[k - 1]]
        BY <1>2 DEF Follows
    <2>3. QED  BY <2>1, <2>2
<1>4. g[0] = n
    BY <1>2 DEF Follows
<1>5. Quotients(g, n)
    BY <1>3, <1>4 DEF Quotients
<1>6. QED  BY <1>5

(* What they are.                                                          *)
LEMMA QuotientsAre ==
    ASSUME NEW n \in Nat, NEW left, Quotients(left, n)
    PROVE  /\ left[0] = n
           /\ \A k \in 1..(n + 1) : left[k] = left[k - 1] \div 10
           /\ \A k \in 0..(n + 1) : left[k] \in Nat
           /\ left[n + 1] = 0
<1>1. left[0] = n /\ \A k \in 1..(n + 1) : left[k] = left[k - 1] \div 10
    BY DEF Quotients
<1> DEFINE T == {k \in Nat : k <= n + 1 => left[k] \in Nat
                                        /\ (left[k] = 0 \/ left[k] + k <= n)}
<1>2. 0 \in T
    BY <1>1
<1>3. ASSUME NEW k \in Nat, k \in T PROVE k + 1 \in T
    <2> SUFFICES ASSUME k + 1 <= n + 1
                 PROVE  /\ left[k + 1] \in Nat
                        /\ left[k + 1] = 0 \/ left[k + 1] + k + 1 <= n
        OBVIOUS
    <2>1. left[k] \in Nat /\ (left[k] = 0 \/ left[k] + k <= n)
        BY <1>3
    <2>2. left[k + 1] = left[k] \div 10
        BY <1>1
    <2>3. QED  BY <2>1, <2>2, DivTen
<1>4. \A k \in Nat : k \in T
    <2> HIDE DEF T
    <2>1. QED  BY <1>2, <1>3, InductionOn
<1>5. left[n + 1] = 0
    <2>1. n + 1 \in T
        BY <1>4
    <2>2. QED  BY <2>1
<1>6. QED  BY <1>1, <1>4, <1>5

(* The digits of a number: as many as it takes until nothing is left.      *)
LEMMA DigitsAre ==
    ASSUME NEW n \in Nat
    PROVE  \E left, w : /\ Quotients(left, n) /\ w \in 1..(n + 1) /\ left[w] = 0
                        /\ Digits(n) = [i \in 1..w |-> Zero + (left[w - i] % 10)]
<1> DEFINE L == CHOOSE left : Quotients(left, n)
           Ends(w) == L[w] = 0 /\ (w > 1 => L[w - 1] # 0)
           W == CHOOSE w \in 1..(n + 1) : Ends(w)
<1>1. Digits(n) = [i \in 1..W |-> Zero + (L[W - i] % 10)]
    BY DEF Digits, Quotients
<1>2. Quotients(L, n)
    BY QuotientsExist
<1> HIDE DEF L
<1>3. \E w \in 1..(n + 1) : Ends(w)
    <2> DEFINE S == {w \in 1..(n + 1) : L[w] = 0}
    <2>1. S \in SUBSET Nat /\ n + 1 \in S
        BY <1>2, QuotientsAre
    <2>2. PICK w \in S : \A m \in S : w <= m
        <3> HIDE DEF S
        <3>1. QED  BY <2>1, LeastOf
    <2>3. w \in 1..(n + 1) /\ L[w] = 0
        BY <2>2
    <2>4. w > 1 => w - 1 \notin S /\ w - 1 \in 1..(n + 1)
        BY <2>2, <2>3
    <2>5. QED  BY <2>3, <2>4
<1>4. W \in 1..(n + 1) /\ L[W] = 0
    BY <1>3
<1>5. PICK left, w : left = L /\ w = W
    OBVIOUS
<1> HIDE DEF W
<1>6. /\ Quotients(left, n) /\ w \in 1..(n + 1) /\ left[w] = 0
      /\ Digits(n) = [i \in 1..w |-> Zero + (left[w - i] % 10)]
    BY <1>1, <1>2, <1>4, <1>5, Zenon
<1>7. QED  BY <1>6

(* The number that a text makes, character by character.                   *)
Sums(sum, s, n) ==
    sum = [i \in 0..n |-> IF i = 0 THEN 0
                          ELSE 10 * sum[i - 1] + (s[i] - Zero)]

(* There is one.                                                           *)
LEMMA SumsExist ==
    ASSUME NEW s \in Seq(Int)
    PROVE  \E sum : Sums(sum, s, Len(s))
<1> DEFINE n == Len(s)
           step == [i \in 1..n |-> [x \in Int |-> 10 * x + (s[i] - Zero)]]
<1>1. n \in Nat /\ \A i \in 1..n : s[i] \in Int
    OBVIOUS
<1>2. step \in [1..n -> [Int -> Int]]
    BY <1>1 DEF Zero
<1>3. PICK g \in [0..n -> Int] : Follows(g, n, 0, step)
    <2> DEFINE S == Int
    <2>1. 0 \in S /\ step \in [1..n -> [S -> S]]
        BY <1>2
    <2> HIDE DEF step, S, n
    <2>2. \E g \in [0..n -> S] : Follows(g, n, 0, step)
        BY <1>1, <2>1, Recursion
    <2>3. QED  BY <2>2 DEF S
<1>4. ASSUME NEW i \in 1..n PROVE g[i] = 10 * g[i - 1] + (s[i] - Zero)
    <2>1. \A x \in Int : step[i][x] = 10 * x + (s[i] - Zero)
        OBVIOUS
    <2> HIDE DEF step
    <2>2. g[i - 1] \in Int /\ g[i] = step[i][g[i - 1]]
        BY <1>1, <1>3 DEF Follows
    <2>3. QED  BY <2>1, <2>2
<1>5. g[0] = 0
    BY <1>3 DEF Follows
<1>6. Sums(g, s, n)
    BY <1>3, <1>4, <1>5 DEF Sums
<1>7. QED  BY <1>6

(* What it is.                                                             *)
LEMMA NumberIs ==
    ASSUME NEW s \in Seq(Int)
    PROVE  \E sum : /\ sum[0] = 0 /\ Number(s) = sum[Len(s)]
                    /\ \A i \in 1..Len(s) : sum[i] = 10 * sum[i - 1] + (s[i] - Zero)
<1>1. PICK sum : Sums(sum, s, Len(s)) /\ Number(s) = sum[Len(s)]
    <2>1. Number(s) = (CHOOSE sum : Sums(sum, s, Len(s)))[Len(s)]
        BY DEF Number, Sums
    <2>2. QED  BY <2>1, SumsExist
<1>2. ASSUME NEW n \in Nat, Sums(sum, s, n)
      PROVE  /\ sum[0] = 0
             /\ \A i \in 1..n : sum[i] = 10 * sum[i - 1] + (s[i] - Zero)
    BY <1>2 DEF Sums
<1>3. Len(s) \in Nat
    OBVIOUS
<1>4. QED  BY <1>1, <1>2, <1>3

(* It is an integer.                                                       *)
LEMMA NumberInt == ASSUME NEW s \in Seq(Int) PROVE Number(s) \in Int
<1>1. PICK sum : /\ sum[0] = 0 /\ Number(s) = sum[Len(s)]
                 /\ \A i \in 1..Len(s) : sum[i] = 10 * sum[i - 1] + (s[i] - Zero)
    BY NumberIs
<1> DEFINE T == {i \in Nat : i <= Len(s) => sum[i] \in Int}
<1>2. 0 \in T
    BY <1>1
<1>3. ASSUME NEW i \in Nat, i \in T PROVE i + 1 \in T
    <2> SUFFICES ASSUME i + 1 <= Len(s) PROVE sum[i + 1] \in Int
        OBVIOUS
    <2>1. sum[i] \in Int /\ i + 1 \in 1..Len(s) /\ s[i + 1] \in Int
        BY <1>3
    <2>2. sum[i + 1] = 10 * sum[i] + (s[i + 1] - Zero)
        BY <1>1, <2>1
    <2>3. QED  BY <2>1, <2>2 DEF Zero
<1>4. Len(s) \in T
    <2>1. Len(s) \in Nat
        OBVIOUS
    <2> HIDE DEF T
    <2>2. QED  BY <1>2, <1>3, <2>1, InductionOn
<1>5. QED  BY <1>1, <1>4

(* The digits of a number are digits, and make that number.                *)
LEMMA NumberOfDigits ==
    ASSUME NEW n \in Nat
    PROVE  /\ Digits(n) \in Seq(Digit) /\ Len(Digits(n)) >= 1
           /\ Number(Digits(n)) = n
<1>1. PICK left, w : /\ Quotients(left, n) /\ w \in 1..(n + 1) /\ left[w] = 0
                     /\ Digits(n) = [i \in 1..w |-> Zero + (left[w - i] % 10)]
    BY DigitsAre
<1>2. /\ left[0] = n /\ \A k \in 1..(n + 1) : left[k] = left[k - 1] \div 10
      /\ \A k \in 0..(n + 1) : left[k] \in Nat
    BY <1>1, QuotientsAre
<1>3. w \in Nat /\ w >= 1 /\ w <= n + 1
    BY <1>1
<1>4. \A i \in 1..w : Zero + (left[w - i] % 10) \in Digit
    BY <1>2, <1>3, DivTen DEF Zero, Digit
<1>5. Digits(n) \in Seq(Digit) /\ Len(Digits(n)) = w
    BY <1>1, <1>3, <1>4
<1>6. Digits(n) \in Seq(Int)
    <2>1. Digit \subseteq Int
        BY DEF Digit, Zero
    <2>2. QED  BY <1>5, <2>1, SeqMonotonic
<1>7. PICK sum : /\ sum[0] = 0 /\ Number(Digits(n)) = sum[w]
                 /\ \A i \in 1..w :
                      sum[i] = 10 * sum[i - 1] + (Digits(n)[i] - Zero)
    BY <1>5, <1>6, NumberIs
<1>8. \A i \in 1..w : sum[i] = 10 * sum[i - 1] + (left[w - i] % 10)
    <2> SUFFICES ASSUME NEW i \in 1..w
                 PROVE  sum[i] = 10 * sum[i - 1] + (left[w - i] % 10)
        OBVIOUS
    <2>1. Digits(n)[i] = Zero + (left[w - i] % 10)
        BY <1>1
    <2>2. left[w - i] % 10 \in 0..9
        BY <1>2, <1>3, DivTen
    <2>3. Digits(n)[i] - Zero = left[w - i] % 10
        BY <2>1, <2>2 DEF Zero
    <2>4. QED  BY <1>7, <2>3
<1> DEFINE T == {i \in Nat : i <= w => sum[i] = left[w - i]}
<1>9. 0 \in T
    BY <1>1, <1>7
<1>10. ASSUME NEW i \in Nat, i \in T PROVE i + 1 \in T
    <2> SUFFICES ASSUME i + 1 <= w PROVE sum[i + 1] = left[w - (i + 1)]
        OBVIOUS
    <2>1. sum[i] = left[w - i]
        BY <1>10, <1>3
    <2>2. sum[i + 1] = 10 * sum[i] + (left[w - (i + 1)] % 10)
        BY <1>8, <1>3
    <2>3. w - i \in 1..(n + 1) /\ w - i - 1 = w - (i + 1)
        BY <1>3
    <2>4. left[w - i] = left[w - (i + 1)] \div 10 /\ left[w - (i + 1)] \in Nat
        BY <1>2, <2>3
    <2>5. QED  BY <2>1, <2>2, <2>4, DivTen
<1>11. w \in T
    <2> HIDE DEF T
    <2>1. QED  BY <1>3, <1>9, <1>10, InductionOn
<1>12. sum[w] = left[0]
    BY <1>3, <1>11
<1>13. QED  BY <1>2, <1>3, <1>5, <1>7, <1>12

(* A sequence whose members are of a set is one of that set.               *)
LEMMA MembersOf ==
    ASSUME NEW S, NEW s \in Seq(S), NEW T, \A i \in 1..Len(s) : s[i] \in T
    PROVE  s \in Seq(T)
<1>1. Len(s) \in Nat /\ s \in [1..Len(s) -> S]
    OBVIOUS
<1>2. s \in [1..Len(s) -> T]
    BY <1>1
<1>3. QED  BY <1>1, <1>2

(* How far a text goes before a character of C.                            *)
GoesTo(s, C, d) ==
    /\ d \in 0..Len(s)
    /\ \A i \in 1..d : s[i] \notin C
    /\ d < Len(s) => s[d + 1] \in C

(* There is such a place, for any text and any characters.                 *)
LEMMA BeforeIs ==
    ASSUME NEW s, Len(s) \in Nat, NEW C
    PROVE  GoesTo(s, C, Before(s, C))
<1> DEFINE S == {d \in Nat : d <= Len(s) /\ (d < Len(s) => s[d + 1] \in C)}
<1>1. S \in SUBSET Nat /\ Len(s) \in S
    OBVIOUS
<1>2. PICK d \in S : \A m \in S : d <= m
    <2> HIDE DEF S
    <2>1. QED  BY <1>1, LeastOf
<1>3. d \in 0..Len(s) /\ (d < Len(s) => s[d + 1] \in C)
    BY <1>2
<1>4. ASSUME NEW i \in 1..d PROVE s[i] \notin C
    <2>1. i - 1 \notin S
        <3> HIDE DEF S
        <3>1. QED  BY <1>2, <1>3, <1>4
    <2>2. i - 1 \in Nat /\ i - 1 <= Len(s) /\ i - 1 + 1 = i
        BY <1>3, <1>4
    <2>3. QED  BY <2>1, <2>2
<1>5. GoesTo(s, C, d)
    BY <1>3, <1>4 DEF GoesTo
<1>6. Before(s, C) = CHOOSE e \in 0..Len(s) : GoesTo(s, C, e)
    BY DEF Before, GoesTo
<1>7. d \in 0..Len(s)
    BY <1>3
<1>8. QED  BY <1>5, <1>6, <1>7

(* There is one such place.                                                *)
LEMMA BeforeOnly ==
    ASSUME NEW s, Len(s) \in Nat, NEW C, NEW d, GoesTo(s, C, d)
    PROVE  Before(s, C) = d
<1>1. PICK e : e = Before(s, C)
    OBVIOUS
<1>2. GoesTo(s, C, e)
    BY <1>1, BeforeIs
<1>3. d \in Nat /\ e \in Nat /\ d <= Len(s) /\ e <= Len(s)
    BY <1>2 DEF GoesTo
<1>4. ~(d < e)
    BY <1>2, <1>3 DEF GoesTo
<1>5. ~(e < d)
    BY <1>2, <1>3 DEF GoesTo
<1>6. QED  BY <1>1, <1>3, <1>4, <1>5

(* A text of digits, and a text whose first character is none.             *)
LEMMA UnsignedOfDigits ==
    ASSUME NEW s \in Seq(Digit) PROVE Unsigned(s) = Number(s)
<1>1. Len(s) \in Nat /\ \A i \in 1..Len(s) : s[i] \notin NoDigit
    <2>1. Len(s) \in Nat /\ \A i \in 1..Len(s) : s[i] \in Digit
        OBVIOUS
    <2>2. QED  BY <2>1 DEF NoDigit
<1>2. GoesTo(s, NoDigit, Len(s))
    BY <1>1 DEF GoesTo
<1>3. Before(s, NoDigit) = Len(s)
    BY <1>1, <1>2, BeforeOnly
<1>4. SubSeq(s, 1, Len(s)) = s
    BY SubSeqFull
<1>5. QED  BY <1>3, <1>4 DEF Unsigned

(* A number of any text is an integer.                                     *)
LEMMA UnsignedInt == ASSUME NEW s \in Seq(Nat) PROVE Unsigned(s) \in Int
<1>1. PICK d : d = Before(s, NoDigit)
    OBVIOUS
<1>2. d \in 0..Len(s)
    BY <1>1, BeforeIs DEF GoesTo
<1>3. SubSeq(s, 1, d) \in Seq(Int)
    BY <1>2
<1>4. QED  BY <1>1, <1>3, NumberInt DEF Unsigned

(* So is what atoi() makes of any text, with a sign or without.            *)
LEMMA AtoiInt == ASSUME NEW s \in Seq(Nat) PROVE atoi(s) \in Int
<1>1. s # <<>> => Tail(s) \in Seq(Nat)
    OBVIOUS
<1>2. \A x \in Int : -x \in Int
    OBVIOUS
<1>3. Unsigned(s) \in Int /\ (s # <<>> => -Unsigned(Tail(s)) \in Int)
    BY <1>1, <1>2, UnsignedInt
<1>4. QED  BY <1>3, Zenon DEF atoi

(* The characters of numbers.                                              *)
Numeral == {Minus} \cup Digit

(* A number is read as what it was written from.                           *)
LEMMA NumberComesBack ==
    ASSUME NEW n \in Int
    PROVE  /\ to_string(n) \in Seq(Numeral) /\ to_string(n) # <<>>
           /\ atoi(to_string(n)) = n
<1>1. CASE n < 0
    <2>1. PICK d : d = Digits(-n)
        OBVIOUS
    <2>2. d \in Seq(Digit) /\ Number(d) = -n
        BY <1>1, <2>1, NumberOfDigits
    <2>3. to_string(n) = <<Minus>> \o d
        BY <1>1, <2>1 DEF to_string
    <2>4. d \in Seq(Numeral) /\ <<Minus>> \in Seq(Numeral)
        <3>1. \A i \in 1..Len(d) : d[i] \in Numeral
            BY <2>2 DEF Numeral
        <3>2. Minus \in Numeral
            BY DEF Numeral
        <3>3. QED  BY <2>2, <3>1, <3>2, MembersOf
    <2>5. /\ <<Minus>> \o d \in Seq(Numeral) /\ <<Minus>> \o d # <<>>
          /\ (<<Minus>> \o d)[1] = Minus /\ Tail(<<Minus>> \o d) = d
        BY <2>4
    <2>6. atoi(<<Minus>> \o d) = -Unsigned(d)
        BY <2>5 DEF atoi
    <2>7. Unsigned(d) = -n
        BY <2>2, UnsignedOfDigits
    <2>8. QED  BY <2>3, <2>5, <2>6, <2>7
<1>2. CASE ~(n < 0)
    <2>1. PICK d : d = Digits(n)
        OBVIOUS
    <2>2. d \in Seq(Digit) /\ Number(d) = n /\ Len(d) >= 1
        BY <1>2, <2>1, NumberOfDigits
    <2>3. to_string(n) = d
        BY <1>2, <2>1 DEF to_string
    <2>4. d \in Seq(Numeral) /\ d # <<>>
        <3>1. \A i \in 1..Len(d) : d[i] \in Numeral
            BY <2>2 DEF Numeral
        <3>2. QED  BY <2>2, <3>1, MembersOf
    <2>5. d[1] # Minus
        <3>1. d[1] \in Digit
            BY <2>2
        <3>2. QED  BY <3>1 DEF Minus, Zero, Digit
    <2>6. atoi(d) = n
        BY <2>2, <2>5, UnsignedOfDigits DEF atoi
    <2>7. QED  BY <2>3, <2>4, <2>6
<1>3. QED  BY <1>1, <1>2
-----------------------------------------------------------------------------
(* The loops over a text.                                                  *)

(* What such a loop has, of characters of C.                               *)
Loop(C) == [parts : Seq(Seq(C)), tmp : Seq(C)]
LoopStart == [parts |-> <<>>, tmp |-> <<>>]

(* A sequence of texts and a text are what a loop has.                     *)
LEMMA LoopIs ==
    ASSUME NEW C, NEW parts \in Seq(Seq(C)), NEW tmp \in Seq(C)
    PROVE  [parts |-> parts, tmp |-> tmp] \in Loop(C)
<1>1. ASSUME NEW A, NEW B, NEW a \in A, NEW b \in B
      PROVE  [parts |-> a, tmp |-> b] \in [parts : A, tmp : B]
    OBVIOUS
<1>2. QED  BY <1>1, Zenon DEF Loop

(* So are none and the empty text, with which deserialize() starts its     *)
(* loops.                                                                  *)
LEMMA StartIsLoop == ASSUME NEW C PROVE LoopStart \in Loop(C)
<1>1. <<>> \in Seq(Seq(C)) /\ <<>> \in Seq(C)
    OBVIOUS
<1>2. QED  BY <1>1, LoopIs DEF LoopStart

(* A turn of it, with a character that is no end and with one that is.     *)
LEMMA TurnIs ==
    ASSUME NEW C, NEW x \in Loop(C), NEW char, NEW ends
    PROVE  /\ char # ends => Scanned(x, char, ends) =
                                [parts |-> x.parts, tmp |-> Append(x.tmp, char)]
           /\ char = ends => Scanned(x, char, ends) =
                                [parts |-> Pushed(x.parts, x.tmp), tmp |-> <<>>]
BY DEF Loop, Scanned

(* A turn leaves a loop with texts of C, if its character is of C or ends  *)
(* a part.                                                                 *)
LEMMA TurnTypes ==
    ASSUME NEW C, NEW x \in Loop(C), NEW char, NEW ends,
           char # ends => char \in C
    PROVE  Scanned(x, char, ends) \in Loop(C)
<1>1. x.parts \in Seq(Seq(C)) /\ x.tmp \in Seq(C)
    BY DEF Loop
<1>2. CASE char # ends
    <2>1. Append(x.tmp, char) \in Seq(C)
        BY <1>1, <1>2
    <2>2. QED  BY <1>1, <1>2, <2>1, TurnIs, LoopIs
<1>3. CASE char = ends
    <2>1. Pushed(x.parts, x.tmp) \in Seq(Seq(C)) /\ <<>> \in Seq(C)
        BY <1>1 DEF Pushed
    <2>2. QED  BY <1>3, <2>1, TurnIs, LoopIs
<1>4. QED  BY <1>2, <1>3

(* The turns of the loop over a text.                                      *)
TurnsOf(f, s, n, ends) ==
    f = [i \in 0..n |-> IF i = 0 THEN LoopStart
                        ELSE Scanned(f[i - 1], s[i], ends)]
Turns(f, s, ends, C) ==
    /\ f[0] = LoopStart
    /\ \A i \in 1..Len(s) : f[i] = Scanned(f[i - 1], s[i], ends)
    /\ \A i \in 0..Len(s) : f[i] \in Loop(C)

(* They are there.                                                         *)
LEMMA TurnsExist ==
    ASSUME NEW C, NEW s, NEW n \in Nat, NEW ends,
           \A i \in 1..n : s[i] # ends => s[i] \in C
    PROVE  \E f : TurnsOf(f, s, n, ends)
<1> DEFINE step == [i \in 1..n |-> [x \in Loop(C) |-> Scanned(x, s[i], ends)]]
<1>1. step \in [1..n -> [Loop(C) -> Loop(C)]]
    BY TurnTypes
<1>2. PICK g \in [0..n -> Loop(C)] : Follows(g, n, LoopStart, step)
    <2> DEFINE S == Loop(C)
    <2>1. LoopStart \in S /\ step \in [1..n -> [S -> S]]
        BY <1>1, StartIsLoop
    <2> HIDE DEF step, S
    <2>2. \E g \in [0..n -> S] : Follows(g, n, LoopStart, step)
        BY <2>1, Recursion
    <2>3. QED  BY <2>2 DEF S
<1>3. ASSUME NEW i \in 1..n PROVE g[i] = Scanned(g[i - 1], s[i], ends)
    <2>1. \A x \in Loop(C) : step[i][x] = Scanned(x, s[i], ends)
        OBVIOUS
    <2> HIDE DEF step
    <2>2. g[i - 1] \in Loop(C) /\ g[i] = step[i][g[i - 1]]
        BY <1>2 DEF Follows
    <2>3. QED  BY <2>1, <2>2
<1>4. g[0] = LoopStart
    BY <1>2 DEF Follows
<1>5. TurnsOf(g, s, n, ends)
    BY <1>2, <1>3, <1>4 DEF TurnsOf
<1>6. QED  BY <1>5

(* What they are.                                                          *)
LEMMA TurnsAre ==
    ASSUME NEW C, NEW s, NEW n \in Nat, NEW ends, NEW f, TurnsOf(f, s, n, ends),
           \A i \in 1..n : s[i] # ends => s[i] \in C
    PROVE  /\ f[0] = LoopStart
           /\ \A i \in 1..n : f[i] = Scanned(f[i - 1], s[i], ends)
           /\ \A i \in 0..n : f[i] \in Loop(C)
<1>1. f[0] = LoopStart /\ \A i \in 1..n : f[i] = Scanned(f[i - 1], s[i], ends)
    BY DEF TurnsOf
<1> DEFINE T == {i \in Nat : i <= n => f[i] \in Loop(C)}
<1>2. 0 \in T
    BY <1>1, StartIsLoop
<1>3. ASSUME NEW i \in Nat, i \in T PROVE i + 1 \in T
    <2> SUFFICES ASSUME i + 1 <= n PROVE f[i + 1] \in Loop(C)
        OBVIOUS
    <2>1. f[i] \in Loop(C) /\ i + 1 \in 1..n
        BY <1>3
    <2>2. f[i + 1] = Scanned(f[i], s[i + 1], ends)
        BY <1>1, <2>1
    <2>3. QED  BY <2>1, <2>2, TurnTypes
<1>4. \A i \in Nat : i \in T
    <2> HIDE DEF T
    <2>1. QED  BY <1>2, <1>3, InductionOn
<1>5. QED  BY <1>1, <1>4

(* The result of the loop is that of its last turn, and no character that  *)
(* ends a part is in one.                                                  *)
LEMMA ScanIs ==
    ASSUME NEW S, NEW s \in Seq(S), NEW ends
    PROVE  \E f : Turns(f, s, ends, S \ {ends}) /\ Scan(s, ends) = f[Len(s)]
<1>1. Len(s) \in Nat /\ \A i \in 1..Len(s) : s[i] # ends => s[i] \in S \ {ends}
    OBVIOUS
<1>2. PICK f : TurnsOf(f, s, Len(s), ends) /\ Scan(s, ends) = f[Len(s)]
    <2>1. Scan(s, ends) = (CHOOSE f : TurnsOf(f, s, Len(s), ends))[Len(s)]
        BY DEF Scan, TurnsOf, LoopStart
    <2>2. \E f : TurnsOf(f, s, Len(s), ends)
        BY <1>1, TurnsExist
    <2>3. QED  BY <2>1, <2>2
<1>3. Turns(f, s, ends, S \ {ends})
    BY <1>1, <1>2, TurnsAre DEF Turns
<1>4. QED  BY <1>2, <1>3

(* The parts of what a loop has.                                           *)
LEMMA LoopFields ==
    ASSUME NEW C, NEW x \in Loop(C)
    PROVE  /\ x.parts \in Seq(Seq(C)) /\ x.tmp \in Seq(C)
           /\ x = [parts |-> x.parts, tmp |-> x.tmp]
BY DEF Loop

(* A character after two texts comes after the second.                     *)
ComesLast(p, q, x) == Append(p \o q, x) = p \o Append(q, x)

(* This is so for any two texts and any character.                         *)
LEMMA AppendLast ==
    ASSUME NEW S, NEW p \in Seq(S), NEW q \in Seq(S), NEW x \in S
    PROVE  ComesLast(p, q, x)
<1>1. /\ p \o q \in Seq(S) /\ <<x>> \in Seq(S)
      /\ Append(p \o q, x) = (p \o q) \o <<x>> /\ Append(q, x) = q \o <<x>>
    BY AppendIsConcat, ConcatProperties
<1>2. QED  BY <1>1, ConcatAssociative DEF ComesLast

Continues(t, s, a, m) ==
    Append(t \o SubSeq(s, a + 1, m), s[m + 1]) = t \o SubSeq(s, a + 1, m + 1)

(* What tmp has from before and a piece of s, with the next character of   *)
(* s, is that with a piece longer by one.                                  *)
LEMMA OneMoreCharacter ==
    ASSUME NEW S, NEW s \in Seq(S), NEW C, NEW t \in Seq(C),
           NEW a \in Nat, NEW m \in Nat, a <= m, m + 1 <= Len(s)
    PROVE  Continues(t, s, a, m)
<1>1. PICK q, x : q = SubSeq(s, a + 1, m) /\ x = s[m + 1]
    OBVIOUS
<1>2. q \in Seq(S) /\ x \in S
    BY <1>1
<1>3. SubSeq(s, a + 1, m + 1) = Append(q, x)
    BY <1>1
<1>4. t \in Seq(C \cup S) /\ q \in Seq(C \cup S) /\ x \in C \cup S
    BY <1>2, SeqMonotonic
<1>5. ComesLast(t, q, x)
    BY <1>4, AppendLast
<1>6. QED  BY <1>1, <1>3, <1>5, Zenon DEF ComesLast, Continues

(* Over characters that end nothing, tmp gets them all.                    *)
RanOn(f, s, a, b) ==
    f[b] = [parts |-> f[a].parts, tmp |-> f[a].tmp \o SubSeq(s, a + 1, b)]

(* For as long as no character ends a part, the parts stay and tmp grows   *)
(* by what was read.                                                       *)
LEMMA RunsOn ==
    ASSUME NEW S, NEW s \in Seq(S), NEW C, NEW ends, NEW f, Turns(f, s, ends, C),
           NEW a \in 0..Len(s), NEW b \in a..Len(s),
           \A i \in (a + 1)..b : s[i] # ends
    PROVE  RanOn(f, s, a, b)
<1>1. PICK n : n = Len(s) /\ n \in Nat
    OBVIOUS
<1> DEFINE T == {k \in Nat : a + k <= b =>
                    f[a + k] = [parts |-> f[a].parts,
                                tmp |-> f[a].tmp \o SubSeq(s, a + 1, a + k)]}
<1>2. /\ a \in Nat /\ b \in Nat /\ a <= b /\ b <= n
      /\ f[a] \in Loop(C)
    BY <1>1 DEF Turns
<1>3. f[a].tmp \in Seq(C)
    BY <1>2, LoopFields
<1>4. 0 \in T
    <2>1. SubSeq(s, a + 1, a + 0) = <<>>
        BY <1>2
    <2>2. f[a].tmp \o <<>> = f[a].tmp
        BY <1>3
    <2>3. f[a] = [parts |-> f[a].parts, tmp |-> f[a].tmp]
        BY <1>2, LoopFields
    <2>4. a + 0 = a
        BY <1>2
    <2>5. QED  BY <2>1, <2>2, <2>3, <2>4
<1>5. ASSUME NEW k \in Nat, k \in T PROVE k + 1 \in T
    <2> SUFFICES ASSUME a + (k + 1) <= b
                 PROVE  f[a + (k + 1)] =
                          [parts |-> f[a].parts,
                           tmp |-> f[a].tmp \o SubSeq(s, a + 1, a + (k + 1))]
        OBVIOUS
    <2>1. PICK m : m = a + k
        OBVIOUS
    <2>2. /\ m \in Nat /\ m + 1 = a + (k + 1) /\ m + 1 \in 1..n /\ m \in 0..n
          /\ m + 1 \in (a + 1)..b /\ a <= m
        <3>1. m \in Nat /\ a <= m /\ m + 1 = a + (k + 1) /\ m + 1 <= b
            BY <2>1, <1>2
        <3>2. QED  BY <1>1, <1>2, <3>1
    <2>3. f[m] = [parts |-> f[a].parts,
                  tmp |-> f[a].tmp \o SubSeq(s, a + 1, m)]
        BY <1>5, <2>1, <1>2
    <2>4. f[m + 1] = Scanned(f[m], s[m + 1], ends) /\ f[m] \in Loop(C)
        <3>1. m + 1 \in 1..Len(s) /\ m \in 0..Len(s) /\ (m + 1) - 1 = m
            BY <1>1, <2>2
        <3>2. QED  BY <3>1 DEF Turns
    <2>5. f[m + 1] = [parts |-> f[m].parts, tmp |-> Append(f[m].tmp, s[m + 1])]
        BY <2>2, <2>4, TurnIs
    <2>6. Continues(f[a].tmp, s, a, m)
        BY <1>1, <1>2, <1>3, <2>2, OneMoreCharacter
    <2>7. f[m].parts = f[a].parts /\ f[m].tmp = f[a].tmp \o SubSeq(s, a + 1, m)
        <3>1. PICK t : t = f[a].tmp \o SubSeq(s, a + 1, m)
            OBVIOUS
        <3>2. f[m] = [parts |-> f[a].parts, tmp |-> t]
            BY <2>3, <3>1, Zenon
        <3>3. f[m].parts = f[a].parts /\ f[m].tmp = t
            BY <3>2
        <3>4. QED  BY <3>1, <3>3
    <2>8. QED  BY <2>2, <2>5, <2>6, <2>7, Zenon DEF Continues
<1>6. b - a \in T
    <2>1. b - a \in Nat
        BY <1>2
    <2> HIDE DEF T
    <2>2. QED  BY <1>4, <1>5, <2>1, InductionOn
<1>7. a + (b - a) = b
    BY <1>2
<1>8. QED  BY <1>2, <1>6, <1>7 DEF RanOn

(* A start of a sequence.                                                  *)
Begins(short, long) ==
    /\ Len(short) <= Len(long)
    /\ \A i \in 1..Len(short) : short[i] = long[i]

(* A part that has ended or, past them, tmp.                               *)
PartAt(x, k) == IF k <= Len(x.parts) THEN x.parts[k] ELSE x.tmp

(* A loop that comes later has the parts, and what was in tmp begins the   *)
(* next part.                                                              *)
Leads(x, y) ==
    /\ Begins(x.parts, y.parts)
    /\ Begins(x.tmp, PartAt(y, Len(x.parts) + 1))

(* What begins a sequence begins the one with another member at its end.   *)
LEMMA BeginsLonger ==
    ASSUME NEW S, NEW s \in Seq(S), NEW t \in Seq(S), NEW x \in S, Begins(s, t)
    PROVE  Begins(s, Append(t, x))
<1>1. /\ Len(s) \in Nat /\ Len(t) \in Nat /\ Len(Append(t, x)) = Len(t) + 1
      /\ \A i \in 1..Len(t) : Append(t, x)[i] = t[i]
    BY AppendProperties
<1>2. Len(s) <= Len(t) /\ \A i \in 1..Len(s) : s[i] = t[i]
    BY DEF Begins
<1>3. Len(s) <= Len(Append(t, x)) /\ \A i \in 1..Len(s) : s[i] = Append(t, x)[i]
    BY <1>1, <1>2
<1>4. QED  BY <1>3, Zenon DEF Begins

(* A sequence begins itself.                                               *)
LEMMA BeginsItself == ASSUME NEW S, NEW s \in Seq(S) PROVE Begins(s, s)
    BY DEF Begins

(* A turn keeps the parts there are, and what was in tmp begins the next   *)
(* part or still is in tmp.                                                *)
LEMMA TurnLeads ==
    ASSUME NEW C, NEW a \in Loop(C), NEW x \in Loop(C), NEW char, NEW ends,
           char # ends => char \in C, Leads(a, x)
    PROVE  Leads(a, Scanned(x, char, ends))
<1>1. /\ a.parts \in Seq(Seq(C)) /\ a.tmp \in Seq(C)
      /\ x.parts \in Seq(Seq(C)) /\ x.tmp \in Seq(C)
    BY LoopFields
<1>2. PICK n, m : n = Len(a.parts) /\ m = Len(x.parts)
    OBVIOUS
<1>3. n \in Nat /\ m \in Nat
    BY <1>1, <1>2, LenProperties
<1>4. Begins(a.parts, x.parts) /\ n <= m
    BY <1>2 DEF Leads, Begins
<1>5. PICK y : y = Scanned(x, char, ends)
    OBVIOUS
<1>6. CASE char # ends
    <2>1. y = [parts |-> x.parts, tmp |-> Append(x.tmp, char)]
        BY <1>5, <1>6, TurnIs
    <2>2. PICK t : t = Append(x.tmp, char)
        OBVIOUS
    <2>3. y.parts = x.parts /\ y.tmp = t
        <3>1. y = [parts |-> x.parts, tmp |-> t]
            BY <2>1, <2>2, Zenon
        <3>2. QED  BY <3>1
    <2>4. CASE n < m
        <3>1. PartAt(y, n + 1) = PartAt(x, n + 1)
            BY <1>2, <1>3, <2>3, <2>4 DEF PartAt
        <3>2. QED  BY <1>2, <1>4, <1>5, <2>3, <3>1, Zenon DEF Leads
    <2>5. CASE n = m
        <3>1. PartAt(y, n + 1) = t /\ PartAt(x, n + 1) = x.tmp
            BY <1>2, <1>3, <2>3, <2>5 DEF PartAt
        <3>2. Begins(a.tmp, x.tmp)
            BY <1>2, <3>1 DEF Leads
        <3>3. Begins(a.tmp, t)
            BY <1>1, <1>6, <2>2, <3>2, BeginsLonger
        <3>4. QED  BY <1>2, <1>4, <1>5, <2>3, <3>1, <3>3, Zenon DEF Leads
    <2>6. QED  BY <1>3, <1>4, <2>4, <2>5
<1>7. CASE char = ends /\ x.tmp = <<>>
    <2>1. y = [parts |-> x.parts, tmp |-> x.tmp]
        BY <1>5, <1>7, TurnIs, Zenon DEF Pushed
    <2>2. y = x
        BY <2>1, LoopFields
    <2>3. QED  BY <1>5, <2>2
<1>8. CASE char = ends /\ x.tmp # <<>>
    <2>1. y = [parts |-> Append(x.parts, x.tmp), tmp |-> <<>>]
        BY <1>5, <1>8, TurnIs, Zenon DEF Pushed
    <2>2. PICK p : p = Append(x.parts, x.tmp)
        OBVIOUS
    <2>3. y.parts = p
        <3>1. y = [parts |-> p, tmp |-> <<>>]
            BY <2>1, <2>2, Zenon
        <3>2. QED  BY <3>1
    <2>4. /\ Len(p) = m + 1 /\ p[m + 1] = x.tmp
          /\ \A i \in 1..m : p[i] = x.parts[i]
        BY <1>1, <1>2, <2>2, AppendProperties
    <2>5. PartAt(y, n + 1) = PartAt(x, n + 1)
        BY <1>2, <1>3, <1>4, <2>3, <2>4 DEF PartAt
    <2>6. Begins(a.parts, p)
        BY <1>1, <1>4, <2>2, BeginsLonger
    <2>7. QED  BY <1>2, <1>5, <2>3, <2>5, <2>6, Zenon DEF Leads
<1>9. QED  BY <1>6, <1>7, <1>8

(* So do the turns of a loop.                                              *)
LEMMA TurnsLead ==
    ASSUME NEW S, NEW s \in Seq(S), NEW ends, NEW f, Turns(f, s, ends, S \ {ends}),
           NEW a \in 0..Len(s)
    PROVE  Leads(f[a], f[Len(s)])
<1>1. PICK n : n = Len(s) /\ n \in Nat
    OBVIOUS
<1>2. /\ \A i \in 1..n : f[i] = Scanned(f[i - 1], s[i], ends)
      /\ \A i \in 0..n : f[i] \in Loop(S \ {ends})
      /\ a \in Nat /\ a <= n
    <2>1. a \in Nat /\ a <= n
        BY <1>1
    <2>2. QED  BY <1>1, <2>1, Zenon DEF Turns
<1>3. \A i \in 1..n : s[i] # ends => s[i] \in S \ {ends}
    BY <1>1
<1> DEFINE T == {k \in Nat : a + k <= n => Leads(f[a], f[a + k])}
<1>4. 0 \in T
    <2>1. f[a].parts \in Seq(Seq(S \ {ends})) /\ f[a].tmp \in Seq(S \ {ends})
        BY <1>2, LoopFields
    <2>2. Begins(f[a].parts, f[a].parts) /\ Begins(f[a].tmp, f[a].tmp)
        BY <2>1, BeginsItself
    <2>3. Len(f[a].parts) \in Nat
        BY <2>1, LenProperties
    <2>4. PartAt(f[a], Len(f[a].parts) + 1) = f[a].tmp
        BY <2>3 DEF PartAt
    <2>5. Leads(f[a], f[a])
        BY <2>2, <2>4, Zenon DEF Leads
    <2>6. QED  BY <1>2, <2>5
<1>5. ASSUME NEW k \in Nat, k \in T PROVE k + 1 \in T
    <2> SUFFICES ASSUME a + (k + 1) <= n PROVE Leads(f[a], f[a + (k + 1)])
        OBVIOUS
    <2>1. PICK m : m = a + k
        OBVIOUS
    <2>2. m \in 0..n /\ a \in 0..n /\ m + 1 \in 1..n /\ m + 1 = a + (k + 1)
          /\ (m + 1) - 1 = m
        BY <2>1, <1>1, <1>2
    <2>3. Leads(f[a], f[m])
        BY <1>5, <2>1, <2>2
    <2>4. f[m + 1] = Scanned(f[m], s[m + 1], ends)
        BY <1>2, <2>2
    <2>5. f[a] \in Loop(S \ {ends}) /\ f[m] \in Loop(S \ {ends})
          /\ (s[m + 1] # ends => s[m + 1] \in S \ {ends})
        BY <1>2, <1>3, <2>2
    <2>6. Leads(f[a], f[m + 1])
        BY <2>3, <2>4, <2>5, TurnLeads
    <2>7. QED  BY <2>2, <2>6
<1>6. n - a \in T
    <2>1. n - a \in Nat
        BY <1>1, <1>2
    <2> HIDE DEF T
    <2>2. QED  BY <1>4, <1>5, <2>1, InductionOn
<1>7. a + (n - a) = n
    BY <1>1, <1>2
<1>8. QED  BY <1>1, <1>2, <1>6, <1>7
-----------------------------------------------------------------------------
(* The text of a state.                                                    *)

(* The characters of commands: none that the text uses for itself.         *)
Plain == Nat \ {NUL, Comma, Dot, Semicolon}
PlainEntry == [term : Int, cmd : Seq(Plain)]

(* The characters between two dots, and of all entries.                    *)
Between == Nat \ {NUL, Dot, Semicolon}
InField == Nat \ {NUL, Semicolon}

(* The text of an entry without its dot.                                   *)
Bare(e) == e.cmd \o <<Comma>> \o to_string(e.term)

(* The characters of numbers are none that the text uses for itself.       *)
LEMMA NumeralsPlain == Numeral \subseteq Plain
BY DEF Numeral, Digit, Zero, Minus, Plain, NUL, Comma, Dot, Semicolon

(* How these sets of characters lie in each other.                         *)
LEMMA PlainBetween ==
    /\ Plain \subseteq Between /\ Between \subseteq InField /\ Plain \subseteq InField
    /\ Comma \in Between /\ Dot \in InField /\ InField \subseteq Nat
    /\ Plain \subseteq Nat /\ Between \subseteq Nat
BY DEF Plain, Between, InField, NUL, Comma, Dot, Semicolon

(* What the text of an entry is.                                           *)
LEMMA BareIs ==
    ASSUME NEW e \in PlainEntry
    PROVE  /\ Bare(e) \in Seq(Between) /\ Bare(e) # <<>>
           /\ EntryText(e) = Bare(e) \o <<Dot>>
           /\ EntryText(e) \in Seq(InField)
<1>1. PICK cmd, number : cmd = e.cmd /\ number = to_string(e.term)
    OBVIOUS
<1>2. cmd \in Seq(Between) /\ number \in Seq(Between) /\ number # <<>>
    <2>1. cmd \in Seq(Plain) /\ e.term \in Int
        BY <1>1 DEF PlainEntry
    <2>2. number \in Seq(Numeral) /\ number # <<>>
        BY <1>1, <2>1, NumberComesBack
    <2>3. QED
        BY <2>1, <2>2, NumeralsPlain, PlainBetween, SeqMonotonic
<1>3. <<Comma>> \in Seq(Between)
    BY PlainBetween
<1>4. cmd \o <<Comma>> \in Seq(Between)
    BY <1>2, <1>3, ConcatProperties
<1>5. PICK front : front = cmd \o <<Comma>>
    OBVIOUS
<1>6. front \o number \in Seq(Between) /\ front \o number # <<>>
    BY <1>2, <1>4, <1>5, ConcatProperties, ConcatEqualIffEmpty
<1>7. Bare(e) = front \o number
    BY <1>1, <1>5 DEF Bare
<1>8. EntryText(e) = Bare(e) \o <<Dot>>
    BY DEF EntryText, Bare
<1>9. Bare(e) \in Seq(InField) /\ <<Dot>> \in Seq(InField)
    <2>1. \A b \in Seq(Between) : b \in Seq(InField)
        BY PlainBetween, SeqMonotonic
    <2>2. <<Dot>> \in Seq(InField)
        BY PlainBetween
    <2>3. QED  BY <1>6, <1>7, <2>1, <2>2, Zenon
<1>10. Bare(e) \o <<Dot>> \in Seq(InField)
    BY <1>9, ConcatProperties
<1>11. QED  BY <1>6, <1>7, <1>8, <1>10

(* What begins a text begins one that goes on.                             *)
LEMMA BeginsOn ==
    ASSUME NEW S, NEW s \in Seq(S), NEW t \in Seq(S), NEW u \in Seq(S),
           Begins(s, t)
    PROVE  Begins(s, t \o u)
<1>1. PICK long : long = t \o u
    OBVIOUS
<1>2. /\ Len(s) \in Nat /\ Len(t) \in Nat /\ Len(u) \in Nat
      /\ Len(long) = Len(t) + Len(u)
      /\ \A i \in 1..(Len(t) + Len(u)) :
            long[i] = IF i <= Len(t) THEN t[i] ELSE u[i - Len(t)]
    BY <1>1, ConcatProperties, LenProperties
<1>3. Len(s) <= Len(t) /\ \A i \in 1..Len(s) : s[i] = t[i]
    BY DEF Begins
<1>4. Len(s) <= Len(long) /\ \A i \in 1..Len(s) : s[i] = long[i]
    BY <1>2, <1>3
<1>5. QED  BY <1>1, <1>4, Zenon DEF Begins

(* The text of the first entries.                                          *)
TextUp(t, log, i) == IF i = 0 THEN <<>> ELSE t[i - 1] \o EntryText(log[i])
EntriesUp(t, log, n) == t = [i \in 0..n |-> TextUp(t, log, i)]
Texts(t, log, n) ==
    /\ t[0] = <<>>
    /\ \A i \in 1..n : t[i] = t[i - 1] \o EntryText(log[i])
    /\ \A i \in 0..n : t[i] \in Seq(InField) /\ Begins(t[i], t[n])

(* It is there.                                                            *)
LEMMA EntriesExist ==
    ASSUME NEW n \in Nat, NEW log, \A i \in 1..n : log[i] \in PlainEntry
    PROVE  \E t : EntriesUp(t, log, n)
<1> DEFINE S == Seq(InField)
           step == [i \in 1..n |-> [x \in S |-> x \o EntryText(log[i])]]
<1>1. \A i \in 1..n : EntryText(log[i]) \in S
    BY BareIs
<1>2. \A x \in S : \A y \in S : x \o y \in S
    BY ConcatProperties
<1>3. <<>> \in S
    OBVIOUS
<1> HIDE DEF S
<1>4. step \in [1..n -> [S -> S]]
    BY <1>1, <1>2
<1>5. PICK g \in [0..n -> S] : Follows(g, n, <<>>, step)
    <2> HIDE DEF step
    <2>1. QED  BY <1>3, <1>4, Recursion
<1>6. ASSUME NEW i \in 1..n PROVE g[i] = g[i - 1] \o EntryText(log[i])
    <2>1. \A x \in S : step[i][x] = x \o EntryText(log[i])
        OBVIOUS
    <2> HIDE DEF step
    <2>2. g[i - 1] \in S /\ g[i] = step[i][g[i - 1]]
        BY <1>5 DEF Follows
    <2>3. QED  BY <2>1, <2>2
<1>7. g[0] = <<>>
    BY <1>5 DEF Follows
<1>8. EntriesUp(g, log, n)
    <2>1. \A i \in 0..n : i = 0 \/ i \in 1..n
        OBVIOUS
    <2>2. \A i \in 1..n : i # 0
        OBVIOUS
    <2>3. \A i \in 0..n : g[i] = TextUp(g, log, i)
        BY <1>6, <1>7, <2>1, <2>2, Zenon DEF TextUp
    <2>4. QED  BY <1>5, <2>3 DEF EntriesUp
<1>9. QED  BY <1>8

(* And what it is.                                                         *)
LEMMA EntriesAre ==
    ASSUME NEW n \in Nat, NEW log, \A i \in 1..n : log[i] \in PlainEntry,
           NEW t, EntriesUp(t, log, n)
    PROVE  Texts(t, log, n)
<1> DEFINE S == Seq(InField)
<1>1. t[0] = <<>> /\ \A i \in 1..n : t[i] = t[i - 1] \o EntryText(log[i])
    BY DEF EntriesUp, TextUp
<1>2. \A i \in 1..n : EntryText(log[i]) \in S
    BY BareIs
<1>3. ASSUME NEW a \in 0..n
      PROVE  \A k \in Nat : a + k <= n =>
                /\ t[a] \in S => t[a + k] \in S /\ Begins(t[a], t[a + k])
    <2> DEFINE T == {k \in Nat : a + k <= n /\ t[a] \in S =>
                                    t[a + k] \in S /\ Begins(t[a], t[a + k])}
    <2>1. 0 \in T
        <3>1. a + 0 = a
            OBVIOUS
        <3>2. QED  BY <3>1, BeginsItself
    <2>2. ASSUME NEW k \in Nat, k \in T PROVE k + 1 \in T
        <3> SUFFICES ASSUME a + (k + 1) <= n, t[a] \in S
                     PROVE  t[a + (k + 1)] \in S /\ Begins(t[a], t[a + (k + 1)])
            OBVIOUS
        <3>1. PICK m : m = a + k
            OBVIOUS
        <3>2. m + 1 \in 1..n /\ m + 1 = a + (k + 1) /\ (m + 1) - 1 = m
            BY <3>1
        <3>3. t[m] \in S /\ Begins(t[a], t[m])
            BY <2>2, <3>1, <3>2
        <3>4. t[m + 1] = t[m] \o EntryText(log[m + 1])
              /\ EntryText(log[m + 1]) \in S
            BY <1>1, <1>2, <3>2
        <3>5. t[m + 1] \in S /\ Begins(t[a], t[m + 1])
            BY <3>3, <3>4, ConcatProperties, BeginsOn
        <3>6. QED  BY <3>2, <3>5
    <2>3. \A k \in Nat : k \in T
        <3> HIDE DEF T
        <3>1. QED  BY <2>1, <2>2, InductionOn
    <2>4. QED  BY <2>3
<1>4. t[0] \in S
    BY <1>1
<1> HIDE DEF S
<1>5. \A i \in 0..n : t[i] \in S
    <2>1. 0 \in 0..n /\ \A i \in 0..n : i \in Nat /\ 0 + i <= n /\ 0 + i = i
        OBVIOUS
    <2>2. QED  BY <1>3, <1>4, <2>1
<1>6. \A i \in 0..n : Begins(t[i], t[n])
    <2>1. \A i \in 0..n : n - i \in Nat /\ i + (n - i) <= n /\ i + (n - i) = n
        OBVIOUS
    <2>2. QED  BY <1>3, <1>5, <2>1
<1>7. QED  BY <1>1, <1>5, <1>6, Zenon DEF Texts, S

(* So the text of a log is that of all its entries, and the texts of its   *)
(* first entries begin it.                                                 *)
LEMMA TextsOfLog ==
    ASSUME NEW log \in Seq(PlainEntry)
    PROVE  \E t : Texts(t, log, Len(log)) /\ Entries(log) = t[Len(log)]
<1>1. Len(log) \in Nat /\ \A i \in 1..Len(log) : log[i] \in PlainEntry
    BY LenProperties, ElementOfSeq
<1>2. PICK n : n = Len(log)
    OBVIOUS
<1>3. Entries(log) = (CHOOSE t : EntriesUp(t, log, n))[n]
    BY <1>2 DEF Entries, EntriesUp, TextUp
<1>4. PICK t : EntriesUp(t, log, n) /\ Entries(log) = t[n]
    BY <1>1, <1>2, <1>3, EntriesExist
<1>5. Texts(t, log, n)
    BY <1>1, <1>2, <1>4, EntriesAre
<1>6. QED  BY <1>2, <1>4, <1>5
-----------------------------------------------------------------------------
(* The text of a state, read.                                              *)

(* A text lies in s behind the first a characters.                         *)
Within(s, a, e) ==
    /\ a + Len(e) <= Len(s)
    /\ \A i \in 1..Len(e) : s[a + i] = e[i]

(* Cut out of s, it is the text again.                                     *)
LEMMA CutOut ==
    ASSUME NEW S, NEW s \in Seq(S), NEW a \in Nat, NEW Z, NEW e \in Seq(Z),
           Within(s, a, e)
    PROVE  SubSeq(s, a + 1, a + Len(e)) = e
<1>1. PICK n, m, b : n = Len(s) /\ m = Len(e) /\ b = a + m
    OBVIOUS
<1>2. n \in Nat /\ m \in Nat
    BY <1>1, LenProperties
<1>3. a + m <= n /\ \A i \in 1..m : s[a + i] = e[i]
    BY <1>1, Zenon DEF Within
<1>4. b \in Nat /\ b <= n
    BY <1>1, <1>2, <1>3
<1>5. SubSeq(s, a + 1, b) = e
    <2>1. PICK sub : sub = SubSeq(s, a + 1, b)
        OBVIOUS
    <2>2. \A i \in (a + 1)..b : s[i] \in S
        BY <1>1, <1>4
    <2>3. a + 1 \in Int /\ b \in Int
        BY <1>4
    <2>4. /\ sub \in Seq(S)
          /\ Len(sub) = IF a + 1 <= b THEN b - (a + 1) + 1 ELSE 0
          /\ \A i \in 1..(b - (a + 1) + 1) : sub[i] = s[(a + 1) + i - 1]
        BY <2>1, <2>2, <2>3, SubSeqProperties
    <2>5. Len(sub) = m
        BY <1>1, <1>2, <2>4
    <2>6. \A i \in 1..m : sub[i] = e[i]
        <3> SUFFICES ASSUME NEW i \in 1..m PROVE sub[i] = e[i]
            OBVIOUS
        <3>1. i \in 1..(b - (a + 1) + 1) /\ (a + 1) + i - 1 = a + i
            BY <1>1, <1>2
        <3>2. QED  BY <1>3, <2>4, <3>1
    <2>7. sub \in Seq(S \cup Z) /\ e \in Seq(S \cup Z)
        <3>1. \A x \in Seq(S) : x \in Seq(S \cup Z)
            BY SeqMonotonic
        <3>2. \A x \in Seq(Z) : x \in Seq(S \cup Z)
            BY SeqMonotonic
        <3>3. QED  BY <2>4, <3>1, <3>2
    <2>8. sub = e
        BY <1>1, <2>5, <2>6, <2>7, SeqEqual
    <2>9. QED  BY <2>1, <2>8
<1>6. QED  BY <1>1, <1>5, Zenon

(* If it has no character that ends a part, the loop gets it into tmp.     *)
InTmp(x, y, e) == y = [parts |-> x.parts, tmp |-> e]

(* From an empty tmp, the loop has exactly this text in tmp when it has    *)
(* read it.                                                                *)
LEMMA TextScanned ==
    ASSUME NEW S, NEW s \in Seq(S), NEW C, NEW ends, NEW f, Turns(f, s, ends, C),
           NEW a \in Nat, NEW Z, NEW e \in Seq(Z), Within(s, a, e),
           \A i \in 1..Len(e) : e[i] # ends, f[a].tmp = <<>>
    PROVE  InTmp(f[a], f[a + Len(e)], e)
<1>1. PICK n, m : n = Len(s) /\ m = Len(e)
    OBVIOUS
<1>2. n \in Nat /\ m \in Nat
    BY <1>1, LenProperties
<1>3. a + m <= n /\ \A i \in 1..m : s[a + i] = e[i] /\ e[i] # ends
    BY <1>1, Zenon DEF Within
<1>4. PICK b : b = a + m
    OBVIOUS
<1>5. b \in Nat /\ a <= b /\ b <= n /\ a \in 0..n /\ b \in a..n
    BY <1>2, <1>3, <1>4
<1>6. SubSeq(s, a + 1, b) = e
    <2>1. SubSeq(s, a + 1, a + Len(e)) = e
        BY CutOut
    <2>2. QED  BY <1>1, <1>4, <2>1, Zenon
<1>7. \A i \in (a + 1)..b : s[i] # ends
    <2> SUFFICES ASSUME NEW i \in (a + 1)..b PROVE s[i] # ends
        OBVIOUS
    <2>1. i - a \in 1..m /\ a + (i - a) = i
        BY <1>2, <1>4
    <2>2. QED  BY <1>3, <2>1
<1>8. RanOn(f, s, a, b)
    BY <1>1, <1>5, <1>7, RunsOn
<1>9. <<>> \o e = e
    BY ConcatEmptySeq
<1>10. f[b] = [parts |-> f[a].parts, tmp |-> e]
    BY <1>6, <1>8, <1>9, Zenon DEF RanOn
<1>11. b = a + Len(e)
    BY <1>1, <1>4
<1>12. QED  BY <1>10, <1>11, Zenon DEF InTmp

(* A text, and what ends it, lie in s behind the first a characters.       *)
LiesAt(s, a, e, ends) ==
    /\ Within(s, a, e)
    /\ \A i \in 1..Len(e) : e[i] # ends
    /\ a + Len(e) + 1 <= Len(s) /\ s[a + Len(e) + 1] = ends

(* The loop makes a part of it.                                            *)
PartAdded(x, y, e) == y = [parts |-> Append(x.parts, e), tmp |-> <<>>]

(* From an empty tmp, a text that is not empty is the next part once what  *)
(* ends it is read.                                                        *)
LEMMA PartScanned ==
    ASSUME NEW S, NEW s \in Seq(S), NEW C, NEW ends, NEW f, Turns(f, s, ends, C),
           NEW a \in Nat, NEW Z, NEW e \in Seq(Z), e # <<>>, LiesAt(s, a, e, ends),
           f[a].tmp = <<>>
    PROVE  PartAdded(f[a], f[a + Len(e) + 1], e)
<1>1. PICK n, b : n = Len(s) /\ b = a + Len(e)
    OBVIOUS
<1>2. n \in Nat /\ b \in Nat
    BY <1>1, LenProperties
<1>3. b + 1 <= n /\ s[b + 1] = ends
    BY <1>1, Zenon DEF LiesAt
<1>4. InTmp(f[a], f[b], e)
    <2>1. Within(s, a, e) /\ \A i \in 1..Len(e) : e[i] # ends
        BY Zenon DEF LiesAt
    <2>2. QED  BY <1>1, <2>1, TextScanned
<1>5. f[b].parts = f[a].parts /\ f[b].tmp = e
    BY <1>4 DEF InTmp
<1>6. f[b + 1] = Scanned(f[b], s[b + 1], ends) /\ f[b] \in Loop(C)
    <2>1. b + 1 \in 1..Len(s) /\ b \in 0..Len(s) /\ (b + 1) - 1 = b
        BY <1>1, <1>2, <1>3
    <2>2. QED  BY <2>1 DEF Turns
<1>7. Scanned(f[b], s[b + 1], ends) =
          [parts |-> Pushed(f[b].parts, f[b].tmp), tmp |-> <<>>]
    BY <1>3, <1>6, TurnIs
<1>8. Pushed(f[b].parts, f[b].tmp) = Append(f[a].parts, e)
    BY <1>5, Zenon DEF Pushed
<1>9. b + 1 = a + Len(e) + 1
    BY <1>1
<1>10. QED  BY <1>6, <1>7, <1>8, <1>9, Zenon DEF PartAdded

(* The characters of two texts.                                            *)
Both(x, y, z) ==
    /\ Len(z) = Len(x) + Len(y)
    /\ \A i \in 1..Len(x) : z[i] = x[i]
    /\ \A i \in 1..Len(y) : z[Len(x) + i] = y[i]

(* These are the characters of x and then of y.                            *)
LEMMA BothTexts ==
    ASSUME NEW X, NEW x \in Seq(X), NEW y \in Seq(X), NEW z, z = x \o y
    PROVE  z \in Seq(X) /\ Both(x, y, z)
<1>1. /\ Len(x) \in Nat /\ Len(y) \in Nat
      /\ z \in Seq(X) /\ Len(z) = Len(x) + Len(y)
      /\ \A i \in 1..(Len(x) + Len(y)) :
            z[i] = IF i <= Len(x) THEN x[i] ELSE y[i - Len(x)]
    BY ConcatProperties, LenProperties
<1>2. PICK a, b : a = Len(x) /\ b = Len(y)
    OBVIOUS
<1>3. ASSUME NEW i \in 1..b PROVE z[a + i] = y[i]
    <2>1. a + i \in 1..(a + b) /\ ~(a + i <= a) /\ (a + i) - a = i
        BY <1>1, <1>2
    <2>2. QED  BY <1>1, <1>2, <2>1
<1>4. ASSUME NEW i \in 1..a PROVE z[i] = x[i]
    <2>1. i \in 1..(a + b) /\ i <= a
        BY <1>1, <1>2
    <2>2. QED  BY <1>1, <1>2, <2>1
<1>5. QED  BY <1>1, <1>2, <1>3, <1>4, Zenon DEF Both

(* A text at the end of one that begins another.                           *)
LEMMA BehindIt ==
    ASSUME NEW S, NEW s \in Seq(S), NEW X, NEW x \in Seq(X), NEW e \in Seq(X),
           NEW whole, whole = x \o e, Begins(whole, s)
    PROVE  Within(s, Len(x), e)
<1>1. PICK a, m, n : a = Len(x) /\ m = Len(e) /\ n = Len(s)
    OBVIOUS
<1>2. a \in Nat /\ m \in Nat /\ n \in Nat
    BY <1>1, LenProperties
<1>3. Len(whole) = a + m /\ \A i \in 1..m : whole[a + i] = e[i]
    <2>1. Both(x, e, whole)
        BY BothTexts
    <2>2. QED  BY <1>1, <2>1, Zenon DEF Both
<1>4. a + m <= n /\ \A i \in 1..(a + m) : s[i] = whole[i]
    BY <1>1, <1>3 DEF Begins
<1>5. \A i \in 1..m : s[a + i] = e[i]
    <2> SUFFICES ASSUME NEW i \in 1..m PROVE s[a + i] = e[i]
        OBVIOUS
    <2>1. a + i \in 1..(a + m)
        BY <1>2
    <2>2. QED  BY <1>3, <1>4, <2>1
<1>6. QED  BY <1>1, <1>4, <1>5, Zenon DEF Within

(* With what ends it.                                                      *)
LEMMA LiesBehind ==
    ASSUME NEW S, NEW s \in Seq(S), NEW X, NEW x \in Seq(X), NEW e \in Seq(X),
           NEW ends \in X, \A i \in 1..Len(e) : e[i] # ends,
           NEW whole, whole = x \o (e \o <<ends>>), Begins(whole, s)
    PROVE  LiesAt(s, Len(x), e, ends)
<1>1. PICK a, m, n : a = Len(x) /\ m = Len(e) /\ n = Len(s)
    OBVIOUS
<1>2. a \in Nat /\ m \in Nat /\ n \in Nat
    BY <1>1, LenProperties
<1>3. PICK ended : ended = e \o <<ends>>
    OBVIOUS
<1>4. /\ ended \in Seq(X) /\ Len(ended) = m + 1 /\ ended[m + 1] = ends
      /\ \A i \in 1..m : ended[i] = e[i]
    <2>1. ended = Append(e, ends)
        BY <1>3, AppendIsConcat
    <2>2. QED  BY <1>1, <2>1, AppendProperties
<1>5. Within(s, a, ended)
    <2>1. whole = x \o ended
        BY <1>3, Zenon
    <2>2. QED  BY <1>1, <1>4, <2>1, BehindIt
<1>6. a + (m + 1) <= n /\ \A i \in 1..(m + 1) : s[a + i] = ended[i]
    BY <1>1, <1>4, <1>5 DEF Within
<1>7. a + (m + 1) = a + m + 1 /\ m + 1 \in 1..(m + 1) /\ a + m <= n
      /\ \A i \in 1..m : i \in 1..(m + 1)
    BY <1>2, <1>6
<1>8. /\ a + m + 1 <= n /\ s[a + m + 1] = ends
      /\ \A i \in 1..m : s[a + i] = e[i]
    BY <1>4, <1>6, <1>7
<1>9. QED  BY <1>1, <1>7, <1>8, Zenon DEF LiesAt, Within

(* Beginnings of beginnings.                                               *)
LEMMA BeginsThrough ==
    ASSUME NEW s, NEW t, NEW u, Len(s) \in Nat, Len(t) \in Nat, Len(u) \in Nat,
           Begins(s, t), Begins(t, u)
    PROVE  Begins(s, u)
<1>1. PICK n, m, k : n = Len(s) /\ m = Len(t) /\ k = Len(u)
    OBVIOUS
<1>2. n \in Nat /\ m \in Nat /\ k \in Nat
    BY <1>1
<1>3. n <= m /\ m <= k /\ (\A i \in 1..n : s[i] = t[i]) /\ \A i \in 1..m : t[i] = u[i]
    BY <1>1 DEF Begins
<1>4. n <= k /\ \A i \in 1..n : s[i] = u[i]
    BY <1>2, <1>3
<1>5. QED  BY <1>1, <1>4, Zenon DEF Begins

(* The parts that begin with those of the entries of a log.                *)
ReadsFirst(log, parts, n) ==
    /\ n <= Len(parts)
    /\ \A k \in 1..n : parts[k] = Bare(log[k])

(* No more than these, and one more.                                       *)
ReadsOnly(log, parts, n) == Len(parts) = n /\ ReadsFirst(log, parts, n)
OneMore(p, q, e) == q = Append(p, e)

(* With the text of the next entry as the next part, the parts are those   *)
(* of one entry more.                                                      *)
LEMMA OnePartMore ==
    ASSUME NEW S, NEW p \in Seq(S), NEW k \in Nat, NEW log,
           ReadsOnly(log, p, k), NEW q, OneMore(p, q, Bare(log[k + 1]))
    PROVE  ReadsOnly(log, q, k + 1)
<1>1. PICK e : e = Bare(log[k + 1])
    OBVIOUS
<1>2. p \in Seq(S \cup {e}) /\ e \in S \cup {e}
    <2>1. \A x \in Seq(S) : x \in Seq(S \cup {e})
        BY SeqMonotonic
    <2>2. QED  BY <2>1
<1>3. q = Append(p, e) /\ Len(p) = k
    BY <1>1, Zenon DEF OneMore, ReadsOnly
<1>4. Len(q) = Len(p) + 1 /\ q[Len(p) + 1] = e /\ \A i \in 1..Len(p) : q[i] = p[i]
    BY <1>2, <1>3, AppendProperties
<1>5. Len(q) = k + 1 /\ q[k + 1] = e /\ \A i \in 1..k : q[i] = p[i]
    BY <1>3, <1>4
<1>6. \A i \in 1..k : p[i] = Bare(log[i])
    BY Zenon DEF ReadsOnly, ReadsFirst
<1>7. \A i \in 1..(k + 1) : i \in 1..k \/ i = k + 1
    OBVIOUS
<1>8. \A i \in 1..(k + 1) : q[i] = Bare(log[i])
    BY <1>1, <1>5, <1>6, <1>7, Zenon
<1>9. k + 1 <= Len(q)
    BY <1>5
<1>10. QED  BY <1>5, <1>8, <1>9, Zenon DEF ReadsOnly, ReadsFirst

(* After the text of k entries the loop has k parts and an empty tmp.      *)
Done(f, t, log, k) ==
    /\ f[Len(t[k])].tmp = <<>>
    /\ ReadsOnly(log, f[Len(t[k])].parts, k)

(* So it has when it has read one entry more.                              *)
LEMMA OneEntryMore ==
    ASSUME NEW S, NEW s \in Seq(S), NEW C, NEW f, Turns(f, s, Dot, C),
           NEW log, NEW n \in Nat, NEW t, Texts(t, log, n), Begins(t[n], s),
           NEW k \in Nat, k + 1 <= n, log[k + 1] \in PlainEntry, Done(f, t, log, k)
    PROVE  Done(f, t, log, k + 1)
<1>1. PICK a, e : a = Len(t[k]) /\ e = Bare(log[k + 1])
    OBVIOUS
<1>2. /\ t[k] \in Seq(InField) /\ t[k + 1] \in Seq(InField) /\ t[n] \in Seq(InField)
      /\ t[k + 1] = t[k] \o EntryText(log[k + 1])
      /\ Begins(t[k + 1], t[n])
    <2>1. k \in 0..n /\ k + 1 \in 0..n /\ k + 1 \in 1..n /\ n \in 0..n
          /\ (k + 1) - 1 = k
        OBVIOUS
    <2>2. QED  BY <2>1, Zenon DEF Texts
<1>3. a \in Nat /\ Len(t[k + 1]) \in Nat /\ Len(t[n]) \in Nat /\ Len(s) \in Nat
    BY <1>1, <1>2, LenProperties
<1>4. Begins(t[k + 1], s)
    BY <1>2, <1>3, BeginsThrough
<1>5. /\ e \in Seq(Between) /\ e # <<>> /\ e \in Seq(InField)
      /\ t[k + 1] = t[k] \o (e \o <<Dot>>)
    <2>1. \A b \in Seq(Between) : b \in Seq(InField)
        BY PlainBetween, SeqMonotonic
    <2>2. e \in Seq(Between) /\ e # <<>> /\ EntryText(log[k + 1]) = e \o <<Dot>>
        BY <1>1, BareIs
    <2>3. QED  BY <1>2, <2>1, <2>2, Zenon
<1>6. \A i \in 1..Len(e) : e[i] # Dot
    <2>1. \A i \in 1..Len(e) : e[i] \in Between
        BY <1>5, ElementOfSeq
    <2>2. QED  BY <2>1 DEF Between
<1>7. LiesAt(s, a, e, Dot)
    <2>1. Dot \in InField
        BY PlainBetween
    <2>2. QED  BY <1>1, <1>2, <1>4, <1>5, <1>6, <2>1, LiesBehind
<1>8. PICK b : b = a + Len(e) + 1
    OBVIOUS
<1>9. f[a].tmp = <<>> /\ ReadsOnly(log, f[a].parts, k)
    BY <1>1, Zenon DEF Done
<1>10. PartAdded(f[a], f[b], e)
    BY <1>3, <1>5, <1>7, <1>8, <1>9, PartScanned
<1>11. Len(t[k + 1]) = b
    <2>1. PICK ended : ended = e \o <<Dot>>
        OBVIOUS
    <2>2. ended = Append(e, Dot) /\ Dot \in InField
        BY <1>5, <2>1, AppendIsConcat, PlainBetween
    <2>3. ended \in Seq(InField) /\ Len(ended) = Len(e) + 1
        BY <1>5, <2>2, AppendProperties
    <2>4. Len(t[k] \o ended) = Len(t[k]) + Len(ended)
        BY <1>2, <2>3, ConcatProperties
    <2>5. Len(e) \in Nat
        BY <1>5, LenProperties
    <2>6. Len(t[k + 1]) = Len(t[k]) + Len(ended)
        BY <1>5, <2>1, <2>4, Zenon
    <2>7. PICK w : w = Len(e)
        OBVIOUS
    <2>8. Len(t[k + 1]) = a + (w + 1)
        BY <1>1, <2>3, <2>6, <2>7, Zenon
    <2>9. a + (w + 1) = b
        BY <1>3, <1>8, <2>5, <2>7
    <2>10. QED  BY <2>8, <2>9, Zenon
<1>12. f[a].parts \in Seq(Seq(C))
    <2>1. a \in 0..Len(s)
        BY <1>3, <1>7, <1>5, LenProperties DEF LiesAt
    <2>2. f[a] \in Loop(C)
        BY <2>1 DEF Turns
    <2>3. QED  BY <2>2, LoopFields
<1>13. PICK p, q : p = f[a].parts /\ q = Append(p, e)
    OBVIOUS
<1>14. f[b].parts = q /\ f[b].tmp = <<>>
    <2>1. f[b] = [parts |-> q, tmp |-> <<>>]
        BY <1>10, <1>13, Zenon DEF PartAdded
    <2>2. QED  BY <2>1
<1>15. ReadsOnly(log, q, k + 1)
    <2>1. /\ p \in Seq(Seq(C)) /\ ReadsOnly(log, p, k)
          /\ OneMore(p, q, Bare(log[k + 1]))
        BY <1>1, <1>9, <1>12, <1>13, Zenon DEF OneMore
    <2>2. QED  BY <2>1, OnePartMore
<1>16. QED  BY <1>11, <1>14, <1>15, Zenon DEF Done

(* So a scan of the text of a log, whatever comes after it, gives the      *)
(* texts of its entries first.                                             *)
LEMMA EntriesScanned ==
    ASSUME NEW S, NEW s \in Seq(S), NEW log \in Seq(PlainEntry),
           Begins(Entries(log), s)
    PROVE  ReadsFirst(log, Scan(s, Dot).parts, Len(log))
<1>1. PICK n : n = Len(log)
    OBVIOUS
<1>2. n \in Nat /\ \A i \in 1..n : log[i] \in PlainEntry
    BY <1>1, LenProperties, ElementOfSeq
<1>3. PICK t : Texts(t, log, n) /\ Begins(t[n], s)
    BY <1>1, TextsOfLog, Zenon
<1>4. PICK f : Turns(f, s, Dot, S \ {Dot}) /\ Scan(s, Dot) = f[Len(s)]
    BY ScanIs
<1> DEFINE T == {k \in Nat : k <= n => Done(f, t, log, k)}
<1>5. 0 \in T
    <2>1. t[0] = <<>> /\ f[0] = LoopStart /\ Len(<<>>) = 0
        BY <1>3, <1>4 DEF Texts, Turns
    <2>2. f[Len(t[0])].tmp = <<>> /\ f[Len(t[0])].parts = <<>>
        BY <2>1 DEF LoopStart
    <2>3. ReadsOnly(log, <<>>, 0)
        BY DEF ReadsOnly, ReadsFirst
    <2>4. Done(f, t, log, 0)
        BY <2>1, <2>2, <2>3, Zenon DEF Done
    <2>5. QED  BY <2>4
<1>6. ASSUME NEW k \in Nat, k \in T PROVE k + 1 \in T
    <2> SUFFICES ASSUME k + 1 <= n PROVE Done(f, t, log, k + 1)
        OBVIOUS
    <2>1. Done(f, t, log, k) /\ k + 1 \in 1..n
        BY <1>2, <1>6
    <2>2. QED  BY <1>2, <1>3, <1>4, <2>1, OneEntryMore
<1>7. n \in T
    <2> HIDE DEF T
    <2>1. QED  BY <1>2, <1>5, <1>6, InductionOn
<1>8. Done(f, t, log, n)
    BY <1>2, <1>7
<1>9. PICK x, y : x = f[Len(t[n])] /\ y = f[Len(s)]
    OBVIOUS
<1>10. Len(x.parts) = n /\ ReadsFirst(log, x.parts, n)
    BY <1>8, <1>9, Zenon DEF Done, ReadsOnly
<1>11. Begins(x.parts, y.parts)
    <2>1. Len(t[n]) \in 0..Len(s)
        <3>1. n \in 0..n
            BY <1>2
        <3>2. t[n] \in Seq(InField)
            BY <1>3, <3>1, Zenon DEF Texts
        <3>3. Len(t[n]) \in Nat /\ Len(s) \in Nat
            BY <3>2, LenProperties
        <3>4. Len(t[n]) <= Len(s)
            BY <1>3, Zenon DEF Begins
        <3>5. QED  BY <3>3, <3>4
    <2>2. Leads(x, y)
        BY <1>4, <1>9, <2>1, TurnsLead
    <2>3. QED  BY <2>2, Zenon DEF Leads
<1>12. n <= Len(y.parts) /\ \A k \in 1..n : y.parts[k] = x.parts[k]
    BY <1>10, <1>11 DEF Begins
<1>13. ReadsFirst(log, y.parts, n)
    BY <1>10, <1>12, Zenon DEF ReadsFirst
<1>14. QED  BY <1>1, <1>4, <1>9, <1>13, Zenon

(* The characters of a state: no NUL.                                      *)
Chars == Nat \ {NUL}

(* How the characters of numbers and entries lie in these.                 *)
LEMMA CharsOfText ==
    /\ Numeral \subseteq Chars /\ InField \subseteq Chars /\ Semicolon \in Chars
    /\ Semicolon \notin Numeral /\ Semicolon \notin InField /\ Chars \subseteq Nat
BY NumeralsPlain DEF Chars, Plain, InField, NUL, Semicolon, Comma, Dot

(* The text of entries has no NUL and no semicolon, which would end its    *)
(* field.                                                                  *)
LEMMA EntriesText ==
    ASSUME NEW log \in Seq(PlainEntry)
    PROVE  Entries(log) \in Seq(InField)
<1>1. PICK n : n = Len(log)
    OBVIOUS
<1>2. n \in 0..n
    BY <1>1, LenProperties
<1>3. QED  BY <1>1, <1>2, TextsOfLog, Zenon DEF Texts

(* Two numbers with what ends them, and the entries.                       *)
ThreeTexts(text, x, y, front, header, z) ==
    /\ front = x \o <<Semicolon>>
    /\ header = front \o (y \o <<Semicolon>>)
    /\ text = header \o z

(* The text of a state is of this form, and no NUL is in it.               *)
LEMMA TextIs ==
    ASSUME NEW term \in Int, NEW vote \in Int, NEW log \in Seq(PlainEntry)
    PROVE  \E front \in Seq(Chars), header \in Seq(Chars) :
             /\ Text(term, vote, log) \in Seq(Chars)
             /\ to_string(term) \in Seq(Chars) /\ to_string(vote) \in Seq(Chars)
             /\ Entries(log) \in Seq(Chars)
             /\ ThreeTexts(Text(term, vote, log), to_string(term), to_string(vote),
                           front, header, Entries(log))
<1>1. PICK x, y, z, e : /\ x = to_string(term) /\ y = to_string(vote)
                        /\ z = Entries(log) /\ e = <<Semicolon>>
    OBVIOUS
<1>2. x \in Seq(Chars) /\ y \in Seq(Chars) /\ z \in Seq(Chars) /\ e \in Seq(Chars)
    <2>1. x \in Seq(Numeral) /\ y \in Seq(Numeral) /\ z \in Seq(InField)
        BY <1>1, NumberComesBack, EntriesText, Zenon
    <2>2. \A w \in Seq(Numeral) : w \in Seq(Chars)
        BY CharsOfText, SeqMonotonic
    <2>3. \A w \in Seq(InField) : w \in Seq(Chars)
        BY CharsOfText, SeqMonotonic
    <2>4. <<Semicolon>> \in Seq(Chars)
        BY CharsOfText
    <2>5. QED  BY <1>1, <2>1, <2>2, <2>3, <2>4, Zenon
<1>3. \A u, v \in Seq(Chars) : u \o v \in Seq(Chars)
    BY ConcatProperties
<1>4. PICK front : front = x \o e
    OBVIOUS
<1>5. front \in Seq(Chars)
    BY <1>2, <1>3, <1>4, Zenon
<1>6. PICK header : header = front \o (y \o e)
    OBVIOUS
<1>7. header \in Seq(Chars)
    BY <1>2, <1>3, <1>5, <1>6, Zenon
<1>8. (front \o y) \o e = front \o (y \o e)
    <2>1. \A u, v, w \in Seq(Chars) : (u \o v) \o w = u \o (v \o w)
        BY ConcatAssociative
    <2>2. QED  BY <1>2, <1>5, <2>1, Zenon
<1>9. Text(term, vote, log) = ((front \o y) \o e) \o z
    BY <1>1, <1>4, Zenon DEF Text, Header
<1>10. Text(term, vote, log) = header \o z
    BY <1>6, <1>8, <1>9, Zenon
<1>11. header \o z \in Seq(Chars)
    BY <1>2, <1>3, <1>7, Zenon
<1>12. QED  BY <1>1, <1>2, <1>4, <1>5, <1>6, <1>7, <1>10, <1>11, Zenon DEF ThreeTexts

(* What ends a text is one character more.                                 *)
LEMMA EndedLength ==
    ASSUME NEW X, NEW x \in Seq(X), NEW y \in Seq(X), NEW e \in X,
           NEW z, z = x \o (y \o <<e>>)
    PROVE  Len(z) = Len(x) + Len(y) + 1
<1>1. PICK ended : ended = y \o <<e>>
    OBVIOUS
<1>2. ended \in Seq(X) /\ Len(ended) = Len(y) + 1
    <2>1. ended = Append(y, e)
        BY <1>1, AppendIsConcat
    <2>2. QED  BY <2>1, AppendProperties
<1>3. Len(z) = Len(x) + Len(ended)
    <2>1. z = x \o ended
        BY <1>1, Zenon
    <2>2. Both(x, ended, z)
        BY <1>2, <2>1, BothTexts
    <2>3. QED  BY <2>2, Zenon DEF Both
<1>4. PICK a, b : a = Len(x) /\ b = Len(y)
    OBVIOUS
<1>5. a \in Nat /\ b \in Nat
    BY <1>4, LenProperties
<1>6. Len(z) = a + (b + 1)
    BY <1>2, <1>3, <1>4, Zenon
<1>7. a + (b + 1) = a + b + 1
    BY <1>5
<1>8. QED  BY <1>4, <1>6, <1>7, Zenon

(* The part that a loop adds.                                              *)
LastPart(x, y, e) ==
    /\ y.tmp = <<>> /\ Len(y.parts) = Len(x.parts) + 1
    /\ y.parts[Len(x.parts) + 1] = e
    /\ \A i \in 1..Len(x.parts) : y.parts[i] = x.parts[i]

(* It is the last part, behind those there were.                           *)
LEMMA PartIsLast ==
    ASSUME NEW C, NEW x \in Loop(C), NEW y, NEW Z, NEW e \in Seq(Z),
           PartAdded(x, y, e)
    PROVE  LastPart(x, y, e)
<1>1. PICK p, q : p = x.parts /\ q = Append(p, e)
    OBVIOUS
<1>2. y.parts = q /\ y.tmp = <<>>
    <2>1. y = [parts |-> q, tmp |-> <<>>]
        BY <1>1, Zenon DEF PartAdded
    <2>2. QED  BY <2>1
<1>3. p \in Seq(Seq(C) \cup {e})
    <2>1. \A u \in Seq(Seq(C)) : u \in Seq(Seq(C) \cup {e})
        BY SeqMonotonic
    <2>2. QED  BY <1>1, <2>1, LoopFields
<1>4. Len(q) = Len(p) + 1 /\ q[Len(p) + 1] = e /\ \A i \in 1..Len(p) : q[i] = p[i]
    <2>1. e \in Seq(C) \cup {e}
        OBVIOUS
    <2>2. QED  BY <1>1, <1>3, <2>1, AppendProperties
<1>5. QED  BY <1>1, <1>2, <1>4, Zenon DEF LastPart

(* The three parts that deserialize() has of such a text and whatever      *)
(* comes after it.                                                         *)
FirstThree(fields, x, y, z) ==
    LET persist == Append(fields.parts, fields.tmp) IN
    Len(persist) >= 3 /\ persist[1] = x /\ persist[2] = y /\ Begins(z, persist[3])

(* Two parts and what comes third are the three, also if the third was not *)
(* ended.                                                                  *)
LEMMA ThreeFields ==
    ASSUME NEW C, NEW w \in Loop(C), NEW x, NEW y, NEW z,
           Len(w.parts) >= 2, w.parts[1] = x, w.parts[2] = y,
           Begins(z, PartAt(w, 3))
    PROVE  FirstThree(w, x, y, z)
<1>1. PICK p, t, q : p = w.parts /\ t = w.tmp /\ q = Append(p, t)
    OBVIOUS
<1>2. p \in Seq(Seq(C)) /\ t \in Seq(C)
    BY <1>1, LoopFields
<1>3. /\ Len(p) \in Nat /\ Len(q) = Len(p) + 1 /\ q[Len(p) + 1] = t
      /\ \A i \in 1..Len(p) : q[i] = p[i]
    BY <1>1, <1>2, AppendProperties, LenProperties
<1>4. PICK n : n = Len(p)
    OBVIOUS
<1>5. n \in Nat /\ n >= 2
    BY <1>1, <1>3, <1>4
<1>6. q[1] = x /\ q[2] = y
    <2>1. 1 \in 1..n /\ 2 \in 1..n
        BY <1>5
    <2>2. QED  BY <1>1, <1>3, <1>4, <2>1
<1>7. q[3] = PartAt(w, 3)
    <2>1. CASE 3 <= n
        <3>1. 3 \in 1..n
            BY <1>5, <2>1
        <3>2. q[3] = p[3]
            BY <1>3, <1>4, <3>1
        <3>3. QED  BY <1>1, <1>4, <2>1, <3>2 DEF PartAt
    <2>2. CASE ~(3 <= n)
        <3>1. n + 1 = 3
            BY <1>5, <2>2
        <3>2. q[3] = t
            BY <1>3, <1>4, <3>1
        <3>3. QED  BY <1>1, <1>4, <2>2, <3>2 DEF PartAt
    <2>3. QED  BY <2>1, <2>2
<1>8. Len(q) >= 3
    <2>1. Len(q) = n + 1 /\ n + 1 >= 3
        BY <1>3, <1>4, <1>5
    <2>2. QED  BY <2>1
<1>9. QED  BY <1>1, <1>6, <1>7, <1>8, Zenon DEF FirstThree

(* After two numbers with what ends them the loop has two parts.           *)
TwoRead(w, x, y) ==
    w.tmp = <<>> /\ Len(w.parts) = 2 /\ w.parts[1] = x /\ w.parts[2] = y

(* So it has after the header of a file.                                   *)
LEMMA HeaderScanned ==
    ASSUME NEW S, NEW s \in Seq(S),
           NEW f, Turns(f, s, Semicolon, S \ {Semicolon}),
           NEW x \in Seq(Chars), NEW y \in Seq(Chars), x # <<>>, y # <<>>,
           \A i \in 1..Len(x) : x[i] # Semicolon,
           \A i \in 1..Len(y) : y[i] # Semicolon,
           NEW front \in Seq(Chars), front = x \o <<Semicolon>>,
           NEW header \in Seq(Chars), header = front \o (y \o <<Semicolon>>),
           Begins(header, s)
    PROVE  TwoRead(f[Len(header)], x, y)
<1> DEFINE C == S \ {Semicolon}
<1>1. Turns(f, s, Semicolon, C)
    OBVIOUS
<1> HIDE DEF C
<1>2. PICK l, m, n : l = Len(front) /\ m = Len(header) /\ n = Len(s)
    OBVIOUS
<1>3. l \in Nat /\ m \in Nat /\ n \in Nat /\ Len(x) \in Nat /\ Len(y) \in Nat
    BY <1>2, LenProperties
<1>4. Semicolon \in Chars /\ <<Semicolon>> \in Seq(Chars)
    BY CharsOfText
<1>5. Begins(front, s)
    <2>1. PICK rest : rest = y \o <<Semicolon>>
        OBVIOUS
    <2>2. rest \in Seq(Chars) /\ header = front \o rest
        <3>1. \A u, v \in Seq(Chars) : u \o v \in Seq(Chars)
            BY ConcatProperties
        <3>2. QED  BY <1>4, <2>1, <3>1, Zenon
    <2>3. Begins(front, header)
        <3>1. Begins(front, front \o rest)
            BY <2>2, BeginsItself, BeginsOn
        <3>2. QED  BY <2>2, <3>1, Zenon
    <2>4. Len(header) \in Nat /\ Len(front) \in Nat /\ Len(s) \in Nat
        BY <1>2, <1>3
    <2>5. QED  BY <2>3, <2>4, BeginsThrough
<1>6. front = <<>> \o (x \o <<Semicolon>>)
    <2>1. \A u \in Seq(Chars) : <<>> \o u = u
        BY ConcatEmptySeq
    <2>2. QED  BY <2>1, Zenon
<1>7. Len(<<>>) = 0 /\ <<>> \in Seq(Chars)
    OBVIOUS
<1>8. l = 0 + Len(x) + 1 /\ m = l + Len(y) + 1
    BY <1>2, <1>4, <1>6, <1>7, EndedLength
<1>9. LiesAt(s, 0, x, Semicolon)
    BY <1>4, <1>5, <1>6, <1>7, LiesBehind
<1>10. LiesAt(s, l, y, Semicolon)
    BY <1>2, <1>4, LiesBehind
<1>11. f[0] = LoopStart /\ f[0] \in Loop(C) /\ f[l] \in Loop(C)
    <2>1. l <= n
        BY <1>2, <1>5, Zenon DEF Begins
    <2>2. 0 \in 0..n /\ l \in 0..n
        BY <1>3, <2>1
    <2>3. QED  BY <1>1, <1>2, <2>2, Zenon DEF Turns
<1>12. f[0].tmp = <<>> /\ f[0].parts = <<>>
    BY <1>11 DEF LoopStart
<1>13. PartAdded(f[0], f[l], x)
    <2>1. PartAdded(f[0], f[0 + Len(x) + 1], x)
        BY <1>1, <1>9, <1>12, PartScanned
    <2>2. QED  BY <1>8, <2>1, Zenon
<1>14. f[l].tmp = <<>> /\ Len(f[l].parts) = 1 /\ f[l].parts[1] = x
    <2>1. LastPart(f[0], f[l], x)
        BY <1>11, <1>13, PartIsLast
    <2>2. Len(f[0].parts) = 0 /\ 0 + 1 = 1
        BY <1>7, <1>12
    <2>3. QED  BY <2>1, <2>2, Zenon DEF LastPart
<1>15. PartAdded(f[l], f[m], y)
    <2>1. PartAdded(f[l], f[l + Len(y) + 1], y)
        BY <1>1, <1>3, <1>10, <1>14, PartScanned
    <2>2. QED  BY <1>8, <2>1, Zenon
<1>16. LastPart(f[l], f[m], y)
    BY <1>11, <1>15, PartIsLast
<1>17. 1 + 1 = 2 /\ 1 \in 1..1
    OBVIOUS
<1>18. QED  BY <1>2, <1>14, <1>16, <1>17, Zenon DEF LastPart, TwoRead

(* So the loop over a file that begins with such a text gives the two      *)
(* numbers, and a third part that begins with the entries.                 *)
LEMMA FieldsScanned ==
    ASSUME NEW S, NEW s \in Seq(S), NEW text \in Seq(Chars), Begins(text, s),
           NEW x \in Seq(Chars), NEW y \in Seq(Chars), NEW z \in Seq(Chars),
           x # <<>>, y # <<>>,
           \A i \in 1..Len(x) : x[i] # Semicolon,
           \A i \in 1..Len(y) : y[i] # Semicolon,
           \A i \in 1..Len(z) : z[i] # Semicolon,
           NEW front \in Seq(Chars), NEW header \in Seq(Chars),
           ThreeTexts(text, x, y, front, header, z)
    PROVE  FirstThree(Scan(s, Semicolon), x, y, z)
<1> DEFINE C == S \ {Semicolon}
<1>1. PICK f : Turns(f, s, Semicolon, C) /\ Scan(s, Semicolon) = f[Len(s)]
    BY ScanIs
<1>2. /\ front = x \o <<Semicolon>>
      /\ header = front \o (y \o <<Semicolon>>)
      /\ text = header \o z
    BY Zenon DEF ThreeTexts
<1>3. PICK m, b, n : m = Len(header) /\ n = Len(s) /\ b = m + Len(z)
    OBVIOUS
<1>4. m \in Nat /\ n \in Nat /\ b \in Nat /\ Len(text) \in Nat
    BY <1>3, LenProperties
<1>5. Begins(header, s)
    <2>1. Begins(header, text)
        <3>1. Begins(header, header \o z)
            BY BeginsItself, BeginsOn
        <3>2. QED  BY <1>2, <3>1, Zenon
    <2>2. Len(header) \in Nat /\ Len(s) \in Nat
        BY <1>3, <1>4
    <2>3. QED  BY <1>4, <2>1, <2>2, BeginsThrough
<1>6. TwoRead(f[m], x, y)
    BY <1>1, <1>2, <1>3, <1>5, HeaderScanned
<1> HIDE DEF C
<1>7. Within(s, m, z)
    BY <1>2, <1>3, BehindIt
<1>8. b \in 0..n /\ n \in 0..n
    <2>1. b <= n
        BY <1>3, <1>7, Zenon DEF Within
    <2>2. QED  BY <1>4, <2>1
<1>9. f[n] \in Loop(C)
    BY <1>1, <1>3, <1>8, Zenon DEF Turns
<1>10. /\ f[m].tmp = <<>> /\ Len(f[m].parts) = 2
       /\ f[m].parts[1] = x /\ f[m].parts[2] = y
    BY <1>6, Zenon DEF TwoRead
<1>11. InTmp(f[m], f[b], z)
    BY <1>1, <1>3, <1>4, <1>7, <1>10, TextScanned
<1>12. f[b].parts = f[m].parts /\ f[b].tmp = z
    BY <1>11 DEF InTmp
<1>13. Leads(f[b], f[n])
    BY <1>1, <1>3, <1>8, TurnsLead DEF C
<1>14. PICK p, w : p = f[m].parts /\ w = f[n]
    OBVIOUS
<1>15. Begins(p, w.parts) /\ Begins(z, PartAt(w, 3))
    <2>1. 2 + 1 = 3
        OBVIOUS
    <2>2. QED  BY <1>10, <1>12, <1>13, <1>14, <2>1, Zenon DEF Leads
<1>16. Len(w.parts) >= 2 /\ w.parts[1] = x /\ w.parts[2] = y
    <2>1. Len(p) = 2 /\ p[1] = x /\ p[2] = y
        BY <1>10, <1>14, Zenon
    <2>2. 2 <= Len(w.parts) /\ \A i \in 1..2 : p[i] = w.parts[i]
        BY <1>15, <2>1, Zenon DEF Begins
    <2>3. Len(w.parts) \in Nat
        BY <1>9, <1>14, LoopFields, LenProperties
    <2>4. QED  BY <2>1, <2>2, <2>3
<1>17. FirstThree(w, x, y, z)
    BY <1>9, <1>14, <1>15, <1>16, ThreeFields
<1>18. QED  BY <1>1, <1>3, <1>14, <1>17, Zenon

(* An entry is read as what it was written from.                           *)
LEMMA EntryComesBack ==
    ASSUME NEW e \in PlainEntry
    PROVE  HasComma(Bare(e)) /\ ParsedEntry(Bare(e)) = e
<1>1. PICK cmd, number : cmd = e.cmd /\ number = to_string(e.term)
    OBVIOUS
<1>2. /\ cmd \in Seq(Plain) /\ e.term \in Int
      /\ e = [term |-> e.term, cmd |-> cmd]
    BY <1>1 DEF PlainEntry
<1>3. atoi(number) = e.term
    BY <1>1, <1>2, NumberComesBack
<1>4. cmd \in Seq(Between) /\ number \in Seq(Between)
    <2>1. number \in Seq(Numeral)
        BY <1>1, <1>2, NumberComesBack
    <2>2. QED  BY <1>2, <2>1, NumeralsPlain, PlainBetween, SeqMonotonic
<1>5. PICK comma : comma = <<Comma>>
    OBVIOUS
<1>6. comma \in Seq(Between) /\ Len(comma) = 1 /\ comma[1] = Comma
    BY <1>5, PlainBetween
<1>7. PICK front, whole : front = cmd \o comma /\ whole = front \o number
    OBVIOUS
<1>8. Bare(e) = whole
    BY <1>1, <1>5, <1>7, Zenon DEF Bare
<1>9. PICK c, k, n : c = Len(cmd) /\ k = Len(number) /\ n = Len(whole)
    OBVIOUS
<1>10. c \in Nat /\ k \in Nat
    BY <1>4, <1>9, LenProperties
<1>11. /\ front \in Seq(Between) /\ Len(front) = c + 1
       /\ front[c + 1] = Comma /\ \A i \in 1..c : front[i] = cmd[i]
    <2>1. front \in Seq(Between) /\ Both(cmd, comma, front)
        BY <1>4, <1>6, <1>7, BothTexts
    <2>2. 1 \in 1..1
        OBVIOUS
    <2>3. QED  BY <1>6, <1>9, <2>1, <2>2, Zenon DEF Both
<1>12. /\ whole \in Seq(Between) /\ n = (c + 1) + k
       /\ \A i \in 1..(c + 1) : whole[i] = front[i]
       /\ \A i \in 1..k : whole[(c + 1) + i] = number[i]
    <2>1. whole \in Seq(Between) /\ Both(front, number, whole)
        BY <1>4, <1>7, <1>11, BothTexts
    <2>2. QED  BY <1>9, <1>11, <2>1, Zenon DEF Both
<1>13. whole[c + 1] = Comma /\ \A i \in 1..c : whole[i] = cmd[i]
    <2>1. c + 1 \in 1..(c + 1) /\ \A i \in 1..c : i \in 1..(c + 1)
        BY <1>10
    <2>2. QED  BY <1>11, <1>12, <2>1, Zenon
<1>14. GoesTo(whole, {Comma}, c)
    <2>1. \A i \in 1..c : cmd[i] \in Plain
        BY <1>2, <1>9, ElementOfSeq
    <2>2. \A i \in 1..c : whole[i] \notin {Comma}
        BY <1>13, <2>1 DEF Plain
    <2>3. c \in 0..n
        BY <1>10, <1>12
    <2>4. QED  BY <1>9, <1>13, <2>2, <2>3, Zenon DEF GoesTo
<1>15. Before(whole, {Comma}) = c
    <2>1. Len(whole) \in Nat
        BY <1>12, LenProperties
    <2>2. QED  BY <1>14, <2>1, BeforeOnly
<1>16. SubSeq(whole, 1, c) = cmd
    <2>1. Within(whole, 0, cmd)
        <3>1. 0 + c <= n /\ \A i \in 1..c : whole[0 + i] = cmd[i]
            BY <1>10, <1>12, <1>13
        <3>2. QED  BY <1>9, <3>1, Zenon DEF Within
    <2>2. SubSeq(whole, 0 + 1, 0 + Len(cmd)) = cmd
        BY <1>4, <1>12, <2>1, CutOut
    <2>3. 0 + 1 = 1 /\ 0 + c = c
        BY <1>10
    <2>4. QED  BY <1>9, <2>2, <2>3, Zenon
<1>17. SubSeq(whole, c + 2, n) = number
    <2>1. Within(whole, c + 1, number)
        <3>1. (c + 1) + k <= n
            BY <1>10, <1>12
        <3>2. QED  BY <1>9, <1>12, <3>1, Zenon DEF Within
    <2>2. c + 1 \in Nat
        BY <1>10
    <2>3. SubSeq(whole, (c + 1) + 1, (c + 1) + Len(number)) = number
        BY <1>4, <1>12, <2>1, <2>2, CutOut
    <2>4. (c + 1) + 1 = c + 2
        BY <1>10
    <2>5. QED  BY <1>9, <1>12, <2>3, <2>4, Zenon
<1>18. ParsedEntry(whole) = [term |-> atoi(number), cmd |-> cmd]
    BY <1>9, <1>15, <1>16, <1>17, Zenon DEF ParsedEntry
<1>19. HasComma(whole)
    <2>1. c + 1 \in DOMAIN whole
        <3>1. c + 1 \in 1..n
            BY <1>10, <1>12
        <3>2. QED  BY <1>9, <1>12, <3>1, LenProperties
    <2>2. QED  BY <1>13, <2>1 DEF HasComma
<1>20. QED  BY <1>2, <1>3, <1>8, <1>18, <1>19, Zenon

(* string(buf) keeps what was written, if something else comes after it.   *)
LEMMA CStringKeeps ==
    ASSUME NEW buffer \in Seq(Nat)
    PROVE  /\ CString(buffer) \in Seq(Chars)
           /\ \A text \in Seq(Chars) :
                 Begins(text, buffer) => Begins(text, CString(buffer))
<1>1. PICK n, d, c : /\ n = Len(buffer) /\ d = Before(buffer, {NUL})
                     /\ c = SubSeq(buffer, 1, d)
    OBVIOUS
<1>2. n \in Nat /\ \A i \in 1..n : buffer[i] \in Nat
    BY <1>1, LenProperties, ElementOfSeq
<1>3. GoesTo(buffer, {NUL}, d)
    BY <1>1, <1>2, BeforeIs
<1>4. /\ d \in Nat /\ d <= n /\ (d < n => buffer[d + 1] = NUL)
      /\ \A i \in 1..d : buffer[i] # NUL
    <2>1. d \in 0..n /\ (d < n => buffer[d + 1] \in {NUL})
          /\ \A i \in 1..d : buffer[i] \notin {NUL}
        BY <1>1, <1>3, Zenon DEF GoesTo
    <2>2. QED  BY <1>2, <2>1
<1>5. \A i \in 1..d : buffer[i] \in Chars
    BY <1>2, <1>4 DEF Chars
<1>6. /\ c \in Seq(Chars) /\ Len(c) = d /\ \A i \in 1..d : c[i] = buffer[i]
    <2>1. 1 \in Int /\ d \in Int
        BY <1>4
    <2>2. /\ SubSeq(buffer, 1, d) \in Seq(Chars)
          /\ Len(SubSeq(buffer, 1, d)) = IF 1 <= d THEN d - 1 + 1 ELSE 0
          /\ \A i \in 1..(d - 1 + 1) :
                SubSeq(buffer, 1, d)[i] = buffer[1 + i - 1]
        BY <1>5, <2>1, SubSeqProperties
    <2>3. /\ c \in Seq(Chars)
          /\ Len(c) = IF 1 <= d THEN d - 1 + 1 ELSE 0
          /\ \A i \in 1..(d - 1 + 1) : c[i] = buffer[1 + i - 1]
        BY <1>1, <2>2, Zenon
    <2>4. QED  BY <1>4, <2>3
<1>7. ASSUME NEW text \in Seq(Chars), Begins(text, buffer)
      PROVE  Begins(text, c)
    <2>1. PICK k : k = Len(text)
        OBVIOUS
    <2>2. k \in Nat /\ \A i \in 1..k : text[i] \in Chars
        BY <2>1, LenProperties, ElementOfSeq
    <2>3. k <= n /\ \A i \in 1..k : text[i] = buffer[i]
        BY <1>1, <1>7, <2>1, Zenon DEF Begins
    <2>4. k <= d
        <3> SUFFICES ASSUME d < k PROVE FALSE
            BY <1>4, <2>2
        <3>1. d < n /\ d + 1 \in 1..k
            BY <1>2, <1>4, <2>2, <2>3
        <3>2. text[d + 1] = NUL
            BY <1>4, <2>3, <3>1
        <3>3. QED  BY <2>2, <3>1, <3>2 DEF Chars
    <2>5. \A i \in 1..k : text[i] = c[i]
        BY <1>4, <1>6, <2>2, <2>3, <2>4
    <2>6. QED  BY <1>6, <2>1, <2>4, <2>5, Zenon DEF Begins
<1>8. CString(buffer) = c
    BY <1>1 DEF CString
<1>9. QED  BY <1>6, <1>7, <1>8, Zenon

(* The result of a loop over a text.                                       *)
LEMMA ScanTypes ==
    ASSUME NEW S, NEW s \in Seq(S), NEW ends
    PROVE  Scan(s, ends) \in Loop(S \ {ends})
<1>1. PICK f : Turns(f, s, ends, S \ {ends}) /\ Scan(s, ends) = f[Len(s)]
    BY ScanIs
<1>2. Len(s) \in 0..Len(s)
    BY LenProperties
<1>3. f[Len(s)] \in Loop(S \ {ends})
    BY <1>1, <1>2, Zenon DEF Turns
<1>4. QED  BY <1>1, <1>3, Zenon

(* The characters of a field, and of an entry.                             *)
FieldChars == Chars \ {Semicolon}
EntryChars == FieldChars \ {Dot}

(* The fields that deserialize() has of a file, and the entries.           *)
Fields(buffer) == Scan(CString(buffer), Semicolon)
Persist(buffer) == Append(Fields(buffer).parts, Fields(buffer).tmp)
Pieces(buffer) == Scan(Persist(buffer)[3], Dot).parts

(* They are texts: the fields without a semicolon and the entries without  *)
(* a dot, and neither with a NUL.                                          *)
LEMMA PersistTypes ==
    ASSUME NEW buffer \in Seq(Nat)
    PROVE  /\ Fields(buffer) \in Loop(FieldChars)
           /\ Persist(buffer) \in Seq(Seq(FieldChars))
           /\ Len(Persist(buffer)) >= 3 => Pieces(buffer) \in Seq(Seq(EntryChars))
<1>1. CString(buffer) \in Seq(Chars)
    BY CStringKeeps
<1>2. Fields(buffer) \in Loop(FieldChars)
    BY <1>1, ScanTypes DEF Fields, FieldChars
<1>3. PICK p, t, q : /\ p = Fields(buffer).parts /\ t = Fields(buffer).tmp
                     /\ q = Append(p, t)
    OBVIOUS
<1>4. p \in Seq(Seq(FieldChars)) /\ t \in Seq(FieldChars)
    BY <1>2, <1>3, LoopFields
<1>5. q \in Seq(Seq(FieldChars))
    BY <1>3, <1>4, AppendProperties
<1>6. Persist(buffer) = q
    BY <1>3, Zenon DEF Persist
<1>7. ASSUME Len(q) >= 3 PROVE Pieces(buffer) \in Seq(Seq(EntryChars))
    <2>1. 3 \in 1..Len(q)
        BY <1>5, <1>7, LenProperties
    <2>2. q[3] \in Seq(FieldChars)
        BY <1>5, <2>1, ElementOfSeq
    <2>3. Scan(q[3], Dot) \in Loop(EntryChars)
        BY <2>2, ScanTypes DEF EntryChars
    <2>4. QED  BY <1>6, <2>3, LoopFields, Zenon DEF Pieces
<1>8. QED  BY <1>2, <1>5, <1>6, <1>7, Zenon

(* What deserialize() makes of them.                                       *)
LEMMA DeserializeIs ==
    ASSUME NEW buffer, Len(Persist(buffer)) >= 3, Len(Persist(buffer)) \in Nat
    PROVE  deserialize(buffer) =
             IF \E k \in DOMAIN Pieces(buffer) : ~HasComma(Pieces(buffer)[k])
             THEN [outcome |-> "thrown"]
             ELSE [outcome |-> "running",
                   term |-> atoi(Persist(buffer)[1]),
                   votedFor |-> atoi(Persist(buffer)[2]),
                   logs |-> [k \in DOMAIN Pieces(buffer) |->
                               ParsedEntry(Pieces(buffer)[k])]]
<1>1. ~(Len(Persist(buffer)) < 3)
    OBVIOUS
<1>2. QED  BY <1>1, Zenon DEF deserialize, Fields, Persist, Pieces

(* The start of a sequence of entries.                                     *)
LEMMA PrefixIs ==
    ASSUME NEW S, NEW s \in Seq(S), NEW t, Len(t) \in Nat, Len(s) <= Len(t),
           \A k \in 1..Len(s) : t[k] = s[k]
    PROVE  IsPrefix(s, t)
<1>1. PICK n : n = Len(s)
    OBVIOUS
<1>2. n \in Nat /\ n \in Int /\ 1 \in Int
    BY <1>1, LenProperties
<1>3. \A k \in 1..n : t[k] \in S /\ s[k] \in S
    BY <1>1, ElementOfSeq
<1>4. /\ SubSeq(t, 1, n) \in Seq(S)
      /\ Len(SubSeq(t, 1, n)) = IF 1 <= n THEN n - 1 + 1 ELSE 0
      /\ \A i \in 1..(n - 1 + 1) : SubSeq(t, 1, n)[i] = t[1 + i - 1]
    BY <1>2, <1>3, SubSeqProperties
<1>5. PICK u : u = SubSeq(t, 1, n)
    OBVIOUS
<1>6. /\ u \in Seq(S) /\ Len(u) = IF 1 <= n THEN n - 1 + 1 ELSE 0
      /\ \A i \in 1..(n - 1 + 1) : u[i] = t[1 + i - 1]
    BY <1>4, <1>5, Zenon
<1>7. Len(u) = n /\ \A i \in 1..n : u[i] = t[i]
    BY <1>2, <1>6
<1>8. u = s
    BY <1>1, <1>6, <1>7, SeqEqual
<1>9. SubSeq(s, 1, Len(s)) = s
    BY SubSeqFull
<1>10. SubSeq(s, 1, Len(s)) = SubSeq(t, 1, Len(s))
    BY <1>1, <1>5, <1>8, <1>9, Zenon
<1>11. QED  BY <1>10, Zenon DEF IsPrefix

(* A file that begins with the text of a state is read as that state, and  *)
(* more entries, or not at all.                                            *)
ReadsAs(read, term, vote, log) ==
    \/ read.outcome = "thrown"
    \/ /\ read.outcome = "running" /\ read.term = term /\ read.votedFor = vote
       /\ IsPrefix(log, read.logs)

(* This is what SavedStateLeads says of a file that begins with the text   *)
(* of the state saved.                                                     *)
LEMMA SavedIsRead ==
    ASSUME NEW buffer \in Seq(Nat), NEW term \in Int, NEW vote \in Int,
           NEW log \in Seq(PlainEntry), Begins(Text(term, vote, log), buffer)
    PROVE  ReadsAs(deserialize(buffer), term, vote, log)
<1>1. PICK text, x, y, z : /\ text = Text(term, vote, log) /\ z = Entries(log)
                           /\ x = to_string(term) /\ y = to_string(vote)
    OBVIOUS
<1>2. /\ x \in Seq(Numeral) /\ x # <<>> /\ atoi(x) = term
      /\ y \in Seq(Numeral) /\ y # <<>> /\ atoi(y) = vote
      /\ z \in Seq(InField)
    BY <1>1, NumberComesBack, EntriesText, Zenon
<1>3. /\ \A i \in 1..Len(x) : x[i] # Semicolon
      /\ \A i \in 1..Len(y) : y[i] # Semicolon
      /\ \A i \in 1..Len(z) : z[i] # Semicolon
    BY <1>2, ElementOfSeq, CharsOfText
<1>4. PICK front \in Seq(Chars), header \in Seq(Chars) :
        /\ text \in Seq(Chars) /\ x \in Seq(Chars) /\ y \in Seq(Chars)
        /\ z \in Seq(Chars) /\ ThreeTexts(text, x, y, front, header, z)
    BY <1>1, TextIs, Zenon
<1>5. CString(buffer) \in Seq(Chars) /\ Begins(text, CString(buffer))
    BY <1>1, <1>4, CStringKeeps
<1>6. FirstThree(Fields(buffer), x, y, z)
    BY <1>2, <1>3, <1>4, <1>5, FieldsScanned DEF Fields
<1>7. PICK persist : persist = Persist(buffer)
    OBVIOUS
<1>8. /\ Len(persist) >= 3 /\ persist[1] = x /\ persist[2] = y
      /\ Begins(z, persist[3])
    BY <1>6, <1>7, Zenon DEF FirstThree, Persist
<1>9. /\ persist \in Seq(Seq(FieldChars))
      /\ Pieces(buffer) \in Seq(Seq(EntryChars))
    BY <1>7, <1>8, PersistTypes, Zenon
<1>10. persist[3] \in Seq(FieldChars)
    <2>1. 3 \in 1..Len(persist)
        BY <1>8, <1>9, LenProperties
    <2>2. QED  BY <1>9, <2>1, ElementOfSeq
<1>11. ReadsFirst(log, Pieces(buffer), Len(log))
    <2>1. ReadsFirst(log, Scan(persist[3], Dot).parts, Len(log))
        BY <1>1, <1>8, <1>10, EntriesScanned
    <2>2. QED  BY <1>7, <2>1, Zenon DEF Pieces
<1>12. PICK pieces, read : pieces = Pieces(buffer) /\ read = deserialize(buffer)
    OBVIOUS
<1>13. Len(persist) \in Nat
    BY <1>9, LenProperties
<1>14. read = IF \E k \in DOMAIN pieces : ~HasComma(pieces[k])
              THEN [outcome |-> "thrown"]
              ELSE [outcome |-> "running", term |-> atoi(persist[1]),
                    votedFor |-> atoi(persist[2]),
                    logs |-> [k \in DOMAIN pieces |-> ParsedEntry(pieces[k])]]
    BY <1>7, <1>8, <1>12, <1>13, DeserializeIs, Zenon
<1>15. CASE \E k \in DOMAIN pieces : ~HasComma(pieces[k])
    <2>1. read = [outcome |-> "thrown"]
        BY <1>14, <1>15, Zenon
    <2>2. read.outcome = "thrown"
        BY <2>1
    <2>3. QED  BY <1>12, <2>2, Zenon DEF ReadsAs
<1>16. CASE ~\E k \in DOMAIN pieces : ~HasComma(pieces[k])
    <2>1. PICK logs : logs = [k \in DOMAIN pieces |-> ParsedEntry(pieces[k])]
        OBVIOUS
    <2>2. read = [outcome |-> "running", term |-> term, votedFor |-> vote,
                  logs |-> logs]
        BY <1>2, <1>8, <1>14, <1>16, <2>1, Zenon
    <2>3. /\ read.outcome = "running" /\ read.term = term /\ read.votedFor = vote
          /\ read.logs = logs
        BY <2>2
    <2>4. IsPrefix(log, logs)
        <3>1. PICK n, m : n = Len(log) /\ m = Len(pieces)
            OBVIOUS
        <3>2. n \in Nat /\ m \in Nat /\ DOMAIN pieces = 1..m
            BY <1>9, <1>12, <3>1, LenProperties
        <3>3. n <= m /\ \A k \in 1..n : pieces[k] = Bare(log[k])
            BY <1>11, <1>12, <3>1, Zenon DEF ReadsFirst
        <3>4. \A k \in 1..n : log[k] \in PlainEntry
            BY <3>1, ElementOfSeq
        <3>5. \A k \in 1..n : ParsedEntry(pieces[k]) = log[k]
            BY <3>3, <3>4, EntryComesBack, Zenon
        <3>6. \A k \in 1..n : k \in DOMAIN pieces
            BY <3>2, <3>3
        <3>7. \A k \in 1..n : logs[k] = log[k]
            BY <2>1, <3>5, <3>6, Zenon
        <3>8. Len(logs) = m
            BY <2>1, <3>2
        <3>9. QED  BY <3>1, <3>2, <3>3, <3>7, <3>8, PrefixIs
    <2>5. QED  BY <1>12, <2>3, <2>4, Zenon DEF ReadsAs
<1>17. QED  BY <1>15, <1>16

(* Whatever is in a file: what is read of it is numbers and entries.       *)
CleanState(term, vote, log) ==
    term \in Int /\ vote \in Int /\ log \in Seq(PlainEntry)

(* What is read as an entry, of any text with a comma or without, is a     *)
(* number and a command without the characters the file uses for itself.   *)
LEMMA EntryIsClean ==
    ASSUME NEW entry \in Seq(EntryChars)
    PROVE  ParsedEntry(entry) \in PlainEntry
<1>1. PICK n, j : n = Len(entry) /\ j = Before(entry, {Comma})
    OBVIOUS
<1>2. n \in Nat /\ \A i \in 1..n : entry[i] \in EntryChars
    BY <1>1, LenProperties, ElementOfSeq
<1>3. GoesTo(entry, {Comma}, j)
    BY <1>1, <1>2, BeforeIs
<1>4. j \in Nat /\ j <= n /\ \A i \in 1..j : entry[i] # Comma
    <2>1. j \in 0..n /\ \A i \in 1..j : entry[i] \notin {Comma}
        BY <1>1, <1>3, Zenon DEF GoesTo
    <2>2. QED  BY <1>2, <2>1
<1>5. EntryChars \subseteq Nat
    BY DEF EntryChars, FieldChars, Chars
<1>6. \A i \in 1..j : entry[i] \in Plain
    <2> SUFFICES ASSUME NEW i \in 1..j PROVE entry[i] \in Plain
        OBVIOUS
    <2>1. entry[i] \in EntryChars /\ entry[i] # Comma
        BY <1>2, <1>4
    <2>2. QED  BY <2>1 DEF EntryChars, FieldChars, Chars, Plain
<1>7. SubSeq(entry, 1, j) \in Seq(Plain)
    <2>1. 1 \in Int /\ j \in Int
        BY <1>4
    <2>2. QED  BY <1>6, <2>1, SubSeqProperties
<1>8. SubSeq(entry, j + 2, n) \in Seq(Nat)
    <2>1. j + 2 \in Int /\ n \in Int
        BY <1>2, <1>4
    <2>2. \A i \in (j + 2)..n : entry[i] \in Nat
        <3> SUFFICES ASSUME NEW i \in (j + 2)..n PROVE entry[i] \in Nat
            OBVIOUS
        <3>1. i \in 1..n
            BY <1>2, <1>4
        <3>2. entry[i] \in EntryChars
            BY <1>2, <3>1
        <3>3. QED  BY <1>5, <3>2
    <2>3. QED  BY <2>1, <2>2, SubSeqProperties
<1>9. PICK term, cmd : /\ term = atoi(SubSeq(entry, j + 2, n))
                       /\ cmd = SubSeq(entry, 1, j)
    OBVIOUS
<1>10. term \in Int /\ cmd \in Seq(Plain)
    BY <1>7, <1>8, <1>9, AtoiInt
<1>11. ParsedEntry(entry) = [term |-> term, cmd |-> cmd]
    BY <1>1, <1>9, Zenon DEF ParsedEntry
<1>12. [term |-> term, cmd |-> cmd] \in PlainEntry
    BY <1>10 DEF PlainEntry
<1>13. QED  BY <1>11, <1>12, Zenon

(* So what deserialize() reads, if it reads anything, can be saved again   *)
(* and read as what it is.                                                 *)
LEMMA ReadIsClean ==
    ASSUME NEW buffer \in Seq(Nat), NEW read, read = deserialize(buffer),
           read.outcome = "running"
    PROVE  CleanState(read.term, read.votedFor, read.logs)
<1>1. PICK persist, pieces : persist = Persist(buffer) /\ pieces = Pieces(buffer)
    OBVIOUS
<1>2. persist \in Seq(Seq(FieldChars)) /\ Len(persist) \in Nat
    BY <1>1, PersistTypes, LenProperties
<1>3. Len(persist) >= 3
    <2> SUFFICES ASSUME Len(persist) < 3 PROVE FALSE
        BY <1>2
    <2>1. deserialize(buffer) = [outcome |-> "undefined"]
        BY <1>1, Zenon DEF deserialize, Persist, Fields
    <2>2. read.outcome = "undefined"
        BY <2>1
    <2>3. QED  BY <2>2
<1>4. read = IF \E k \in DOMAIN pieces : ~HasComma(pieces[k])
             THEN [outcome |-> "thrown"]
             ELSE [outcome |-> "running", term |-> atoi(persist[1]),
                   votedFor |-> atoi(persist[2]),
                   logs |-> [k \in DOMAIN pieces |-> ParsedEntry(pieces[k])]]
    BY <1>1, <1>2, <1>3, DeserializeIs, Zenon
<1>5. ~\E k \in DOMAIN pieces : ~HasComma(pieces[k])
    <2> SUFFICES ASSUME \E k \in DOMAIN pieces : ~HasComma(pieces[k]) PROVE FALSE
        OBVIOUS
    <2>1. read = [outcome |-> "thrown"]
        BY <1>4, Zenon
    <2>2. read.outcome = "thrown"
        BY <2>1
    <2>3. QED  BY <2>2
<1>6. PICK term, vote, logs :
        /\ term = atoi(persist[1]) /\ vote = atoi(persist[2])
        /\ logs = [k \in DOMAIN pieces |-> ParsedEntry(pieces[k])]
    OBVIOUS
<1>7. read.term = term /\ read.votedFor = vote /\ read.logs = logs
    <2>1. read = [outcome |-> "running", term |-> term, votedFor |-> vote,
                  logs |-> logs]
        BY <1>4, <1>5, <1>6, Zenon
    <2>2. QED  BY <2>1
<1>8. term \in Int /\ vote \in Int
    <2>1. 1 \in 1..Len(persist) /\ 2 \in 1..Len(persist)
        BY <1>2, <1>3
    <2>2. persist[1] \in Seq(FieldChars) /\ persist[2] \in Seq(FieldChars)
        BY <1>2, <2>1, ElementOfSeq
    <2>3. FieldChars \subseteq Nat
        BY DEF FieldChars, Chars
    <2>4. \A s \in Seq(FieldChars) : s \in Seq(Nat)
        BY <2>3, SeqMonotonic
    <2>5. QED  BY <1>6, <2>2, <2>4, AtoiInt
<1>9. logs \in Seq(PlainEntry)
    <2>1. pieces \in Seq(Seq(EntryChars))
        BY <1>1, <1>3, PersistTypes, Zenon
    <2>2. PICK m : m = Len(pieces)
        OBVIOUS
    <2>3. m \in Nat /\ DOMAIN pieces = 1..m
        BY <2>1, <2>2, LenProperties
    <2>4. \A k \in 1..m : pieces[k] \in Seq(EntryChars)
        BY <2>1, <2>2, ElementOfSeq
    <2>5. \A k \in 1..m : ParsedEntry(pieces[k]) \in PlainEntry
        BY <2>4, EntryIsClean
    <2>6. logs = [k \in 1..m |-> ParsedEntry(pieces[k])]
        BY <1>6, <2>3, Zenon
    <2>7. logs \in [1..m -> PlainEntry]
        BY <2>5, <2>6
    <2>8. QED  BY <2>3, <2>7
<1>10. QED  BY <1>7, <1>8, <1>9, Zenon DEF CleanState
-----------------------------------------------------------------------------
(* The node and its file.                                                  *)

(* The commands of keys are plain.                                         *)
LEMMA CommandPlain == ASSUME NEW key \in Nat PROVE getCmd(key) \in Seq(Plain)
<1>1. PICK x, a, b : x = to_string(key) /\ a = <<Put>> /\ b = <<Space>>
    OBVIOUS
<1>2. Put \in Plain /\ Space \in Plain
    BY DEF Put, Space, Plain, NUL, Comma, Dot, Semicolon
<1>3. a \in Seq(Plain) /\ b \in Seq(Plain) /\ x \in Seq(Plain)
    <2>1. x \in Seq(Numeral)
        BY <1>1, NumberComesBack
    <2>2. \A s \in Seq(Numeral) : s \in Seq(Plain)
        BY NumeralsPlain, SeqMonotonic
    <2>3. QED  BY <1>1, <1>2, <2>1, <2>2
<1>4. \A u, v \in Seq(Plain) : u \o v \in Seq(Plain)
    BY ConcatProperties
<1>5. ((a \o x) \o b) \o x \in Seq(Plain)
    BY <1>3, <1>4, Zenon
<1>6. QED  BY <1>1, <1>5, Zenon DEF getCmd

(* The entries of nodes are plain.                                         *)
LEMMA EntriesArePlain == Entry \subseteq PlainEntry
<1> SUFFICES ASSUME NEW e \in Entry PROVE e \in PlainEntry
    OBVIOUS
<1>1. PICK term \in Terms, key \in Keys : e = [term |-> term, cmd |-> getCmd(key)]
    BY DEF Entry
<1>2. PICK cmd : cmd = getCmd(key)
    OBVIOUS
<1>3. term \in Int /\ cmd \in Seq(Plain)
    <2>1. term \in Nat /\ key \in Nat
        BY FileAssumption
    <2>2. QED  BY <1>2, <2>1, CommandPlain
<1>4. e = [term |-> term, cmd |-> cmd]
    BY <1>1, <1>2, Zenon
<1>5. QED  BY <1>3, <1>4 DEF PlainEntry

(* The text of a state is characters, and never empty.                     *)
LEMMA TextOfState ==
    ASSUME NEW term, NEW vote, NEW log, CleanState(term, vote, log)
    PROVE  Text(term, vote, log) \in Seq(Nat) /\ Text(term, vote, log) # <<>>
<1>1. term \in Int /\ vote \in Int /\ log \in Seq(PlainEntry)
    BY DEF CleanState
<1>2. PICK text, x, y, z : /\ text = Text(term, vote, log) /\ z = Entries(log)
                           /\ x = to_string(term) /\ y = to_string(vote)
    OBVIOUS
<1>3. PICK front \in Seq(Chars), header \in Seq(Chars) :
        /\ text \in Seq(Chars) /\ x \in Seq(Chars) /\ y \in Seq(Chars)
        /\ z \in Seq(Chars) /\ ThreeTexts(text, x, y, front, header, z)
    BY <1>1, <1>2, TextIs, Zenon
<1>4. x # <<>>
    BY <1>1, <1>2, NumberComesBack
<1>5. \A u, v \in Seq(Chars) : u \o v \in Seq(Chars) /\ (u # <<>> => u \o v # <<>>)
    BY ConcatProperties, ConcatEqualIffEmpty
<1>6. <<Semicolon>> \in Seq(Chars)
    BY CharsOfText
<1>7. front # <<>>
    BY <1>3, <1>4, <1>5, <1>6, Zenon DEF ThreeTexts
<1>8. header # <<>>
    <2>1. y \o <<Semicolon>> \in Seq(Chars)
        BY <1>3, <1>5, <1>6, Zenon
    <2>2. QED  BY <1>3, <1>5, <1>7, <2>1, Zenon DEF ThreeTexts
<1>9. text # <<>>
    BY <1>3, <1>5, <1>8, Zenon DEF ThreeTexts
<1>10. \A u \in Seq(Chars) : u \in Seq(Nat)
    BY CharsOfText, SeqMonotonic
<1>11. QED  BY <1>2, <1>3, <1>9, <1>10, Zenon

(* What remains of a text after the first k characters.                    *)
Remains(y, k, z) ==
    /\ Len(z) = IF k <= Len(y) THEN Len(y) - k ELSE 0
    /\ \A i \in 1..Len(z) : z[i] = y[k + i]

(* It is cut out from there to the end.                                    *)
LEMMA RestIs ==
    ASSUME NEW S, NEW y \in Seq(S), NEW k \in Nat,
           NEW z, z = SubSeq(y, k + 1, Len(y))
    PROVE  z \in Seq(S) /\ Remains(y, k, z)
<1>1. PICK n : n = Len(y)
    OBVIOUS
<1>2. n \in Nat /\ \A i \in 1..n : y[i] \in S
    BY <1>1, LenProperties, ElementOfSeq
<1>3. k + 1 \in Int /\ n \in Int /\ \A i \in (k + 1)..n : y[i] \in S
    BY <1>2
<1>4. /\ SubSeq(y, k + 1, n) \in Seq(S)
      /\ Len(SubSeq(y, k + 1, n)) = IF k + 1 <= n THEN n - (k + 1) + 1 ELSE 0
      /\ \A i \in 1..(n - (k + 1) + 1) :
            SubSeq(y, k + 1, n)[i] = y[(k + 1) + i - 1]
    BY <1>3, SubSeqProperties
<1>5. /\ z \in Seq(S) /\ Len(z) = IF k + 1 <= n THEN n - (k + 1) + 1 ELSE 0
      /\ \A i \in 1..(n - (k + 1) + 1) : z[i] = y[(k + 1) + i - 1]
    BY <1>1, <1>4, Zenon
<1>6. Len(z) = IF k <= n THEN n - k ELSE 0
    BY <1>2, <1>5
<1>7. ASSUME NEW i \in 1..Len(z) PROVE z[i] = y[k + i]
    <2>1. i \in 1..(n - (k + 1) + 1) /\ (k + 1) + i - 1 = k + i
        BY <1>2, <1>6
    <2>2. QED  BY <1>5, <2>1
<1>8. QED  BY <1>1, <1>5, <1>6, <1>7, Zenon DEF Remains

(* What is written over what there was: the tail of what was longer stays. *)
Overlaid(x, y, z) ==
    /\ Len(x) <= Len(z) /\ Len(y) <= Len(z) /\ Len(z) \in {Len(x), Len(y)}
    /\ \A i \in 1..Len(x) : z[i] = x[i]
    /\ \A i \in (Len(x) + 1)..Len(z) : z[i] = y[i]

(* This is what a file and a log get.                                      *)
LEMMA OverlaidIs ==
    ASSUME NEW S, NEW x \in Seq(S), NEW y \in Seq(S),
           NEW z, z = x \o SubSeq(y, Len(x) + 1, Len(y))
    PROVE  z \in Seq(S) /\ Overlaid(x, y, z)
<1>1. PICK k, m, rest : k = Len(x) /\ m = Len(y) /\ rest = SubSeq(y, k + 1, m)
    OBVIOUS
<1>2. k \in Nat /\ m \in Nat
    BY <1>1, LenProperties
<1>3. rest \in Seq(S) /\ Remains(y, k, rest)
    BY <1>1, <1>2, RestIs
<1>4. z = x \o rest
    BY <1>1, Zenon
<1>5. z \in Seq(S) /\ Both(x, rest, z)
    BY <1>3, <1>4, BothTexts
<1>6. PICK l, n : l = Len(rest) /\ n = Len(z)
    OBVIOUS
<1>7. /\ l = IF k <= m THEN m - k ELSE 0
      /\ \A i \in 1..l : rest[i] = y[k + i]
    BY <1>1, <1>3, <1>6, Zenon DEF Remains
<1>8. /\ n = k + l
      /\ \A i \in 1..k : z[i] = x[i]
      /\ \A i \in 1..l : z[k + i] = rest[i]
    BY <1>1, <1>5, <1>6, Zenon DEF Both
<1>9. k <= n /\ m <= n /\ n \in {k, m} /\ l \in Nat
    BY <1>2, <1>7, <1>8
<1>10. ASSUME NEW i \in (k + 1)..n PROVE z[i] = y[i]
    <2>1. PICK j : j = i - k
        OBVIOUS
    <2>2. j \in 1..l /\ k + j = i
        BY <1>2, <1>8, <1>9, <2>1
    <2>3. QED  BY <1>7, <1>8, <2>2, Zenon
<1>11. Overlaid(x, y, z)
    BY <1>1, <1>6, <1>8, <1>9, <1>10, Zenon DEF Overlaid
<1>12. QED  BY <1>5, <1>11

(* The beginning of a text.                                                *)
LEMMA PartIs ==
    ASSUME NEW S, NEW s \in Seq(S), NEW k \in 1..(Len(s) - 1)
    PROVE  /\ SubSeq(s, 1, k) \in Seq(S) /\ SubSeq(s, 1, k)[1] = s[1]
           /\ Len(SubSeq(s, 1, k)) = k
<1>1. PICK n : n = Len(s)
    OBVIOUS
<1>2. n \in Nat /\ \A i \in 1..n : s[i] \in S
    BY <1>1, LenProperties, ElementOfSeq
<1>3. 1 \in Int /\ k \in Int /\ k <= n /\ 1 <= k
    BY <1>1, <1>2
<1>4. \A i \in 1..k : s[i] \in S
    BY <1>2, <1>3
<1>5. /\ SubSeq(s, 1, k) \in Seq(S)
      /\ Len(SubSeq(s, 1, k)) = IF 1 <= k THEN k - 1 + 1 ELSE 0
      /\ \A i \in 1..(k - 1 + 1) : SubSeq(s, 1, k)[i] = s[1 + i - 1]
    BY <1>3, <1>4, SubSeqProperties
<1>6. PICK part : part = SubSeq(s, 1, k)
    OBVIOUS
<1>7. /\ part \in Seq(S) /\ Len(part) = IF 1 <= k THEN k - 1 + 1 ELSE 0
      /\ \A i \in 1..(k - 1 + 1) : part[i] = s[1 + i - 1]
    BY <1>5, <1>6, Zenon
<1>8. Len(part) = k /\ part[1] = s[1]
    BY <1>3, <1>7
<1>9. QED  BY <1>6, <1>7, <1>8, Zenon

(* What was saved is clean, and its text begins the file.                  *)
SavedBegins(term, vote, log, file) ==
    CleanState(term, vote, log) /\ Begins(Text(term, vote, log), file)

SavedInv ==
    saved # <<>> =>
        \E term, vote, log :
            /\ saved = <<[term |-> term, votedFor |-> vote, logs |-> log]>>
            /\ SavedBegins(term, vote, log, content)

FileInv ==
    /\ CleanState(m_curTerm, m_votedFor, m_logs)
    /\ content \in Seq(Nat) /\ shorts \in 0..MaxShort
    /\ SavedInv

(* It is so at the start.                                                  *)
LEMMA InitFile == Init => FileInv
<1> SUFFICES ASSUME Init PROVE FileInv
    OBVIOUS
<1>1. m_curTerm = 0 /\ m_votedFor = None /\ m_logs = <<>> /\ content = <<>>
      /\ saved = <<>> /\ shorts = 0
    BY DEF Init
<1>2. <<>> \in Seq(PlainEntry) /\ <<>> \in Seq(Nat) /\ 0 \in Int /\ None \in Int
      /\ 0 \in 0..MaxShort
    BY FileAssumption DEF None
<1>3. CleanState(m_curTerm, m_votedFor, m_logs)
    BY <1>1, <1>2, Zenon DEF CleanState
<1>4. SavedInv
    BY <1>1, Zenon DEF SavedInv
<1>5. QED  BY <1>1, <1>2, <1>3, <1>4, Zenon DEF FileInv

(* A save opens the file.                                                  *)
LEMMA OpenFile ==
    ASSUME FileInv, NEW term \in Terms \cup {m_curTerm},
           NEW vote \in Voted \cup {None, m_votedFor},
           NEW cut \in 0..Len(m_logs), NEW added \in SeqOf(Entry, MaxAdded),
           Open(term, vote, cut, added)
    PROVE  FileInv'
<1>1. m_logs \in Seq(PlainEntry) /\ content \in Seq(Nat) /\ SavedInv
      /\ shorts \in 0..MaxShort
    BY Zenon DEF FileInv, CleanState
<1>2. term \in Int /\ vote \in Int
    <2>1. m_curTerm \in Int /\ m_votedFor \in Int
        BY Zenon DEF FileInv, CleanState
    <2>2. QED  BY <2>1, FileAssumption DEF None
<1>3. added \in Seq(PlainEntry)
    <2>1. PICK m \in 0..MaxAdded : added \in [1..m -> Entry]
        BY DEF SeqOf
    <2>2. m \in Nat
        BY FileAssumption
    <2>3. added \in [1..m -> PlainEntry]
        BY <2>1, EntriesArePlain
    <2>4. QED  BY <2>2, <2>3
<1>4. SubSeq(m_logs, 1, cut) \in Seq(PlainEntry)
    <2>1. PICK n : n = Len(m_logs)
        OBVIOUS
    <2>2. n \in Nat /\ \A i \in 1..n : m_logs[i] \in PlainEntry
        BY <1>1, <2>1, LenProperties, ElementOfSeq
    <2>3. 1 \in Int /\ cut \in Int /\ cut <= n
        BY <2>1, <2>2
    <2>4. \A i \in 1..cut : m_logs[i] \in PlainEntry
        BY <2>2, <2>3
    <2>5. QED  BY <2>3, <2>4, SubSeqProperties
<1>5. SubSeq(m_logs, 1, cut) \o added \in Seq(PlainEntry)
    <2>1. \A u, v \in Seq(PlainEntry) : u \o v \in Seq(PlainEntry)
        BY ConcatProperties
    <2>2. QED  BY <1>3, <1>4, <2>1, Zenon
<1>6. /\ m_curTerm' = term /\ m_votedFor' = vote
      /\ m_logs' = SubSeq(m_logs, 1, cut) \o added
      /\ content' = content /\ saved' = saved /\ shorts' = shorts
    BY Zenon DEF Open, Opened
<1>7. CleanState(m_curTerm', m_votedFor', m_logs')
    BY <1>2, <1>5, <1>6, Zenon DEF CleanState
<1>8. QED  BY <1>1, <1>6, <1>7, Zenon DEF FileInv, SavedInv

(* It writes the state over it.                                            *)
LEMMA WriteFile == ASSUME FileInv, Write PROVE FileInv'
<1>1. PICK term, vote, log : term = m_curTerm /\ vote = m_votedFor /\ log = m_logs
    OBVIOUS
<1>2. CleanState(term, vote, log) /\ content \in Seq(Nat) /\ shorts \in 0..MaxShort
    BY <1>1, Zenon DEF FileInv
<1>3. PICK text, rest : /\ text = Text(term, vote, log)
                        /\ rest = SubSeq(content, Len(text) + 1, Len(content))
    OBVIOUS
<1>4. text \in Seq(Nat)
    BY <1>2, <1>3, TextOfState
<1>5. rest \in Seq(Nat)
    <2>1. Len(text) \in Nat
        BY <1>4, LenProperties
    <2>2. QED  BY <1>2, <1>3, <2>1, RestIs
<1>6. text \o rest \in Seq(Nat)
    BY <1>4, <1>5, ConcatProperties
<1>7. Begins(text, text \o rest)
    BY <1>4, <1>5, BeginsItself, BeginsOn
<1>8. /\ content' = text \o rest /\ UNCHANGED memory
      /\ saved' = <<[term |-> term, votedFor |-> vote, logs |-> log]>>
      /\ shorts' = shorts
    BY <1>1, <1>3, Zenon DEF Write, Overwritten
<1>9. m_curTerm' = term /\ m_votedFor' = vote /\ m_logs' = log
    BY <1>1, <1>8 DEF memory
<1>10. CleanState(m_curTerm', m_votedFor', m_logs') /\ content' \in Seq(Nat)
    BY <1>2, <1>6, <1>8, <1>9, Zenon
<1>11. SavedBegins(term, vote, log, content')
    BY <1>2, <1>3, <1>7, <1>8, Zenon DEF SavedBegins
<1>12. SavedInv'
    BY <1>8, <1>11, Zenon DEF SavedInv
<1>13. QED  BY <1>2, <1>8, <1>10, <1>12, Zenon DEF FileInv

(* It writes the beginning of the state over it, and the process ends.     *)
LEMMA ShortFile == ASSUME FileInv, WriteShort PROVE FileInv'
<1>1. PICK text, k : /\ text = Text(m_curTerm, m_votedFor, m_logs)
                     /\ k \in 1..(Len(text) - 1)
                     /\ content' = Overwritten(content, SubSeq(text, 1, k))
    BY DEF WriteShort
<1>2. /\ m_curTerm' = 0 /\ m_votedFor' = None /\ m_logs' = <<>>
      /\ saved' = <<>> /\ shorts' = shorts + 1 /\ shorts < MaxShort
    BY DEF WriteShort, Stop
<1>3. CleanState(m_curTerm, m_votedFor, m_logs) /\ content \in Seq(Nat)
      /\ shorts \in 0..MaxShort
    BY Zenon DEF FileInv
<1>4. text \in Seq(Nat)
    BY <1>1, <1>3, TextOfState
<1>5. PICK part : part = SubSeq(text, 1, k)
    OBVIOUS
<1>6. part \in Seq(Nat)
    BY <1>1, <1>4, <1>5, PartIs, Zenon
<1>7. content' = part \o SubSeq(content, Len(part) + 1, Len(content))
    BY <1>1, <1>5, Zenon DEF Overwritten
<1>8. content' \in Seq(Nat)
    BY <1>3, <1>6, <1>7, OverlaidIs, Zenon
<1>9. shorts' \in 0..MaxShort
    BY <1>2, <1>3, FileAssumption
<1>10. CleanState(m_curTerm', m_votedFor', m_logs')
    <2>1. <<>> \in Seq(PlainEntry) /\ 0 \in Int /\ None \in Int
        BY DEF None
    <2>2. QED  BY <1>2, <2>1, Zenon DEF CleanState
<1>11. SavedInv'
    BY <1>2, Zenon DEF SavedInv
<1>12. QED  BY <1>8, <1>9, <1>10, <1>11, Zenon DEF FileInv

(* The process is lost.                                                    *)
LEMMA CrashFile == ASSUME FileInv, Crash PROVE FileInv'
<1>1. /\ m_curTerm' = 0 /\ m_votedFor' = None /\ m_logs' = <<>>
      /\ content' = content /\ saved' = saved /\ shorts' = shorts
    BY DEF Crash, Stop, history
<1>2. <<>> \in Seq(PlainEntry) /\ 0 \in Int /\ None \in Int
    BY DEF None
<1>3. CleanState(m_curTerm', m_votedFor', m_logs')
    BY <1>1, <1>2, Zenon DEF CleanState
<1>4. QED  BY <1>1, <1>3, Zenon DEF FileInv, SavedInv

(* It reads the file.                                                      *)
LEMMA BufferIs ==
    ASSUME content \in Seq(Nat), NEW beyond \in Beyond
    PROVE  beyond \in Seq(Nat) /\ content \o beyond \in Seq(Nat)
<1>1. beyond \in Seq(Nat)
    BY FileAssumption
<1>2. QED  BY <1>1, ConcatProperties

(* Memory is clean after a read of the file, whatever was in it.           *)
LEMMA ReadsFile ==
    ASSUME FileInv, NEW beyond \in Beyond, readRaftState(beyond)
    PROVE  CleanState(m_curTerm, m_votedFor, m_logs)'
<1>1. CleanState(m_curTerm, m_votedFor, m_logs) /\ content \in Seq(Nat)
    BY Zenon DEF FileInv
<1>2. PICK buffer, read : buffer = content \o beyond /\ read = deserialize(buffer)
    OBVIOUS
<1>3. buffer \in Seq(Nat)
    BY <1>1, <1>2, BufferIs, Zenon
<1>4. CASE read.outcome # "running"
    <2>1. UNCHANGED memory
        BY <1>2, <1>4, Zenon DEF readRaftState
    <2>2. m_curTerm' = m_curTerm /\ m_votedFor' = m_votedFor /\ m_logs' = m_logs
        BY <2>1 DEF memory
    <2>3. QED  BY <1>1, <2>2, Zenon DEF CleanState
<1>5. CASE read.outcome = "running"
    <2>1. /\ m_curTerm' = read.term /\ m_votedFor' = read.votedFor
          /\ m_logs' = m_logs \o read.logs
        BY <1>2, <1>5, Zenon DEF readRaftState
    <2>2. CleanState(read.term, read.votedFor, read.logs)
        BY <1>2, <1>3, <1>5, ReadIsClean
    <2>3. \A u, v \in Seq(PlainEntry) : u \o v \in Seq(PlainEntry)
        BY ConcatProperties
    <2>4. QED  BY <1>1, <2>1, <2>2, <2>3, Zenon DEF CleanState
<1>6. QED  BY <1>4, <1>5

(* A node starts, with the file or without.                                *)
LEMMA StartFile ==
    ASSUME FileInv, NEW beyond \in Beyond, Start(beyond)
    PROVE  FileInv'
<1>1. content' = content /\ saved' = saved /\ shorts' = shorts
    BY DEF Start, history
<1>2. CleanState(m_curTerm, m_votedFor, m_logs)'
    <2>1. CASE exists
        <3>1. readRaftState(beyond)
            BY <2>1, Zenon DEF Start
        <3>2. QED  BY <3>1, ReadsFile
    <2>2. CASE ~exists
        <3>1. UNCHANGED memory
            BY <2>2, Zenon DEF Start
        <3>2. m_curTerm' = m_curTerm /\ m_votedFor' = m_votedFor /\ m_logs' = m_logs
            BY <3>1 DEF memory
        <3>3. QED  BY <3>2, Zenon DEF CleanState, FileInv
    <2>3. QED  BY <2>1, <2>2
<1>3. QED  BY <1>1, <1>2, Zenon DEF FileInv, SavedInv

(* A running node reads the file back.                                     *)
LEMMA ReadBackFile ==
    ASSUME FileInv, NEW beyond \in Beyond, ReadBack(beyond)
    PROVE  FileInv'
<1>1. content' = content /\ saved' = saved /\ shorts' = shorts
    BY DEF ReadBack, history
<1>2. CleanState(m_curTerm, m_votedFor, m_logs)'
    <2>1. readRaftState(beyond)
        BY Zenon DEF ReadBack
    <2>2. QED  BY <2>1, ReadsFile
<1>3. QED  BY <1>1, <1>2, Zenon DEF FileInv, SavedInv

(* So it stays.                                                            *)
LEMMA FileAlways == Spec => []FileInv
<1>1. ASSUME FileInv, [Next]_vars PROVE FileInv'
    <2>1. ASSUME NEW term \in Terms \cup {m_curTerm},
                 NEW vote \in Voted \cup {None, m_votedFor},
                 NEW cut \in 0..Len(m_logs), NEW added \in SeqOf(Entry, MaxAdded),
                 Open(term, vote, cut, added)
          PROVE  FileInv'
        BY <1>1, <2>1, OpenFile
    <2>2. CASE Write
        BY <1>1, <2>2, WriteFile
    <2>3. CASE Crash
        BY <1>1, <2>3, CrashFile
    <2>4. ASSUME NEW beyond \in Beyond, Start(beyond) PROVE FileInv'
        BY <1>1, <2>4, StartFile
    <2>5. ASSUME NEW beyond \in Beyond, ReadBack(beyond) PROVE FileInv'
        BY <1>1, <2>5, ReadBackFile
    <2>6. CASE UNCHANGED vars
        <3>1. /\ m_curTerm' = m_curTerm /\ m_votedFor' = m_votedFor
              /\ m_logs' = m_logs /\ content' = content /\ saved' = saved
              /\ shorts' = shorts
            BY <2>6 DEF vars, memory, history
        <3>2. QED  BY <1>1, <3>1, Zenon DEF FileInv, SavedInv, CleanState
    <2>7. CASE WriteShort
        BY <1>1, <2>7, ShortFile
    <2>8. QED
        BY <1>1, <2>1, <2>2, <2>3, <2>4, <2>5, <2>6, <2>7, Zenon DEF Next
<1>2. QED  BY InitFile, <1>1, PTL DEF Spec

(* The state that was saved last comes first in what deserialize() makes   *)
(* of the file, whatever the file had before, writes that were cut short   *)
(* included, however often the process was lost since, and whatever lies   *)
(* behind the buffer.  After a write that was cut short, and until the     *)
(* next whole one, nothing is said: what it left is no state of the node.  *)
THEOREM SavedLeads == Spec => []SavedStateLeads
<1>1. ASSUME FileInv PROVE SavedStateLeads
    <2> SUFFICES ASSUME NEW k \in DOMAIN saved, NEW beyond \in Beyond
                 PROVE  ReadsAs(Read(beyond), saved[k].term, saved[k].votedFor,
                                saved[k].logs)
        BY Zenon DEF SavedStateLeads, ReadsAs
    <2>1. saved # <<>>
        OBVIOUS
    <2>2. content \in Seq(Nat) /\ SavedInv
        BY <1>1, Zenon DEF FileInv
    <2>3. PICK term, vote, log :
            /\ saved = <<[term |-> term, votedFor |-> vote, logs |-> log]>>
            /\ SavedBegins(term, vote, log, content)
        BY <2>1, <2>2, Zenon DEF SavedInv
    <2>4. /\ saved[k].term = term /\ saved[k].votedFor = vote
          /\ saved[k].logs = log
        BY <2>3
    <2>5. /\ CleanState(term, vote, log)
          /\ Begins(Text(term, vote, log), content)
        BY <2>3, Zenon DEF SavedBegins
    <2>6. PICK text, buffer : /\ text = Text(term, vote, log)
                              /\ buffer = content \o beyond
        OBVIOUS
    <2>7. beyond \in Seq(Nat) /\ buffer \in Seq(Nat) /\ text \in Seq(Nat)
        BY <2>2, <2>5, <2>6, BufferIs, TextOfState, Zenon
    <2>8. Begins(text, buffer)
        BY <2>2, <2>5, <2>6, <2>7, BeginsOn
    <2>9. term \in Int /\ vote \in Int /\ log \in Seq(PlainEntry)
        BY <2>5, Zenon DEF CleanState
    <2>10. ReadsAs(deserialize(buffer), term, vote, log)
        BY <2>6, <2>7, <2>8, <2>9, SavedIsRead
    <2>11. QED  BY <2>4, <2>6, <2>10, Zenon DEF Read
<1>2. QED  BY <1>1, FileAlways, PTL

(* What is written over a file is not nothing.                             *)
LEMMA OverlaidNotEmpty ==
    ASSUME NEW part \in Seq(Nat), part # <<>>, NEW old \in Seq(Nat)
    PROVE  Overwritten(old, part) # <<>>
<1>1. PICK rest : rest = SubSeq(old, Len(part) + 1, Len(old))
    OBVIOUS
<1>2. Len(part) \in Nat /\ Len(part) # 0
    BY LenProperties, EmptySeq
<1>3. rest \in Seq(Nat)
    BY <1>1, <1>2, RestIs
<1>4. Len(rest) \in Nat /\ Len(part \o rest) = Len(part) + Len(rest)
    BY <1>3, LenProperties, ConcatProperties
<1>5. part \o rest # <<>>
    BY <1>2, <1>4, EmptySeq
<1>6. QED  BY <1>1, <1>5, Zenon DEF Overwritten

(* After a write, whole or cut short, the file is not empty.               *)
LEMMA WrittenNotEmpty ==
    ASSUME FileInv, Write \/ WriteShort PROVE content' # <<>>
<1>1. PICK text : text = Text(m_curTerm, m_votedFor, m_logs)
    OBVIOUS
<1>2. content \in Seq(Nat) /\ text \in Seq(Nat) /\ text # <<>>
    BY <1>1, TextOfState, Zenon DEF FileInv
<1>3. CASE Write
    <2>1. content' = Overwritten(content, text)
        BY <1>1, <1>3, Zenon DEF Write
    <2>2. QED  BY <1>2, <2>1, OverlaidNotEmpty, Zenon
<1>4. CASE WriteShort
    <2>1. PICK k \in 1..(Len(text) - 1) :
            content' = Overwritten(content, SubSeq(text, 1, k))
        BY <1>1, <1>4, Zenon DEF WriteShort
    <2>2. PICK part : part = SubSeq(text, 1, k)
        OBVIOUS
    <2>3. part \in Seq(Nat) /\ Len(part) = k
        BY <1>2, <2>2, PartIs, Zenon
    <2>4. part # <<>>
        <3>1. Len(<<>>) = 0 /\ k # 0
            BY EmptySeq
        <3>2. QED  BY <2>3, <3>1
    <2>5. QED  BY <1>2, <2>1, <2>2, <2>3, <2>4, OverlaidNotEmpty, Zenon
<1>5. QED  BY <1>3, <1>4

(* The file is empty only as long as no write() has taken anything.        *)
THEOREM EmptyOnlyBeforeFirst == Spec => []EmptyBeforeFirst
<1>1. Init => EmptyBeforeFirst
    BY Zenon DEF Init, EmptyBeforeFirst
<1>2. ASSUME FileInv, EmptyBeforeFirst, [Next]_vars PROVE EmptyBeforeFirst'
    <2>1. CASE UNCHANGED <<content, headers, shorts>>
        <3>1. content' = content /\ headers' = headers /\ shorts' = shorts
            BY <2>1
        <3>2. QED  BY <1>2, <3>1, Zenon DEF EmptyBeforeFirst
    <2>2. CASE Write \/ WriteShort
        BY <1>2, <2>2, WrittenNotEmpty, Zenon DEF EmptyBeforeFirst
    <2>3. ASSUME NEW term \in Terms \cup {m_curTerm},
                 NEW vote \in Voted \cup {None, m_votedFor},
                 NEW cut \in 0..Len(m_logs), NEW added \in SeqOf(Entry, MaxAdded),
                 Open(term, vote, cut, added)
          PROVE  EmptyBeforeFirst'
        BY <2>1, <2>3 DEF Open, Opened
    <2>4. CASE Crash
        BY <2>1, <2>4 DEF Crash, history
    <2>5. ASSUME NEW beyond \in Beyond, Start(beyond) \/ ReadBack(beyond)
          PROVE  EmptyBeforeFirst'
        BY <2>1, <2>5 DEF Start, ReadBack, history
    <2>6. CASE UNCHANGED vars
        BY <2>1, <2>6 DEF vars, history
    <2>7. QED
        BY <1>2, <2>2, <2>3, <2>4, <2>5, <2>6, Zenon DEF Next
<1>3. QED  BY <1>1, <1>2, FileAlways, PTL DEF Spec
-----------------------------------------------------------------------------
(* Terms that are read are no integers below zero.                         *)

(* The number that digits make is a natural number.                        *)
LEMMA NumberNat == ASSUME NEW s \in Seq(Digit) PROVE Number(s) \in Nat
<1>1. s \in Seq(Int) /\ \A i \in 1..Len(s) : s[i] - Zero \in Nat
    <2>1. Digit \subseteq Int
        BY DEF Digit, Zero
    <2>2. s \in Seq(Int)
        BY <2>1, SeqMonotonic
    <2>3. \A i \in 1..Len(s) : s[i] \in Digit
        BY ElementOfSeq
    <2>4. \A x \in Digit : x - Zero \in Nat
        BY DEF Digit, Zero
    <2>5. QED  BY <2>2, <2>3, <2>4
<1>2. PICK sum : /\ sum[0] = 0 /\ Number(s) = sum[Len(s)]
                 /\ \A i \in 1..Len(s) : sum[i] = 10 * sum[i - 1] + (s[i] - Zero)
    BY <1>1, NumberIs
<1>3. PICK n : n = Len(s)
    OBVIOUS
<1>4. n \in Nat
    BY <1>3, LenProperties
<1> DEFINE T == {i \in Nat : i <= n => sum[i] \in Nat}
<1>5. 0 \in T
    BY <1>2
<1>6. ASSUME NEW i \in Nat, i \in T PROVE i + 1 \in T
    <2> SUFFICES ASSUME i + 1 <= n PROVE sum[i + 1] \in Nat
        OBVIOUS
    <2>1. sum[i] \in Nat /\ i + 1 \in 1..n /\ (i + 1) - 1 = i
        BY <1>4, <1>6
    <2>2. PICK d : d = s[i + 1] - Zero
        OBVIOUS
    <2>3. sum[i + 1] = 10 * sum[i] + d /\ d \in Nat
        BY <1>1, <1>2, <1>3, <2>1, <2>2
    <2>4. QED  BY <2>1, <2>3
<1>7. n \in T
    <2> HIDE DEF T
    <2>1. QED  BY <1>4, <1>5, <1>6, InductionOn
<1>8. QED  BY <1>2, <1>3, <1>4, <1>7

(* So is that of the leading digits of a text.                             *)
LEMMA UnsignedNat == ASSUME NEW s \in Seq(Nat) PROVE Unsigned(s) \in Nat
<1>1. PICK n, d : n = Len(s) /\ d = Before(s, NoDigit)
    OBVIOUS
<1>2. n \in Nat /\ \A i \in 1..n : s[i] \in Nat
    BY <1>1, LenProperties, ElementOfSeq
<1>3. GoesTo(s, NoDigit, d)
    BY <1>1, <1>2, BeforeIs
<1>4. d \in Nat /\ d <= n /\ \A i \in 1..d : s[i] \notin NoDigit
    <2>1. d \in 0..n /\ \A i \in 1..d : s[i] \notin NoDigit
        BY <1>1, <1>3, Zenon DEF GoesTo
    <2>2. QED  BY <1>2, <2>1
<1>5. \A i \in 1..d : s[i] \in Digit
    BY <1>2, <1>4 DEF NoDigit
<1>6. SubSeq(s, 1, d) \in Seq(Digit)
    <2>1. 1 \in Int /\ d \in Int
        BY <1>4
    <2>2. QED  BY <1>5, <2>1, SubSeqProperties
<1>7. QED  BY <1>1, <1>6, NumberNat, Zenon DEF Unsigned

(* So is what atoi() makes of a text without a sign.                       *)
LEMMA AtoiNat ==
    ASSUME NEW s \in Seq(Nat), s # <<>> => s[1] # Minus
    PROVE  atoi(s) \in Nat
<1>1. Unsigned(s) \in Nat
    BY UnsignedNat
<1>2. QED  BY <1>1, Zenon DEF atoi

(* A text without a comma that a minus follows.                            *)
NoSign(s) == \A i \in 1..(Len(s) - 1) : s[i] = Comma => s[i + 1] # Minus

(* Such an entry has a term that is a natural number.                      *)
LEMMA EntryTermNat ==
    ASSUME NEW entry \in Seq(EntryChars), NoSign(entry)
    PROVE  ParsedEntry(entry) \in [term : Nat, cmd : Seq(Nat)]
<1>1. PICK n, j : n = Len(entry) /\ j = Before(entry, {Comma})
    OBVIOUS
<1>2. n \in Nat /\ \A i \in 1..n : entry[i] \in Nat
    <2>1. EntryChars \subseteq Nat
        BY DEF EntryChars, FieldChars, Chars
    <2>2. QED  BY <1>1, <2>1, LenProperties, ElementOfSeq
<1>3. GoesTo(entry, {Comma}, j)
    BY <1>1, <1>2, BeforeIs
<1>4. j \in Nat /\ j <= n /\ (j < n => entry[j + 1] = Comma)
    <2>1. j \in 0..n /\ (j < n => entry[j + 1] \in {Comma})
        BY <1>1, <1>3, Zenon DEF GoesTo
    <2>2. QED  BY <1>2, <2>1
<1>5. \A i \in 1..(n - 1) : entry[i] = Comma => entry[i + 1] # Minus
    BY <1>1, Zenon DEF NoSign
<1>6. PICK number, cmd : /\ number = SubSeq(entry, j + 2, n)
                         /\ cmd = SubSeq(entry, 1, j)
    OBVIOUS
<1>7. cmd \in Seq(Nat)
    <2>1. 1 \in Int /\ j \in Int /\ \A i \in 1..j : entry[i] \in Nat
        BY <1>2, <1>4
    <2>2. SubSeq(entry, 1, j) \in Seq(Nat)
        BY <2>1, SubSeqProperties
    <2>3. QED  BY <1>6, <2>2, Zenon
<1>8. number \in Seq(Nat) /\ (number # <<>> => number[1] # Minus)
    <2>1. j + 2 \in Int /\ n \in Int /\ \A i \in (j + 2)..n : entry[i] \in Nat
        BY <1>2, <1>4
    <2>2. /\ SubSeq(entry, j + 2, n) \in Seq(Nat)
          /\ Len(SubSeq(entry, j + 2, n)) =
                IF j + 2 <= n THEN n - (j + 2) + 1 ELSE 0
          /\ \A i \in 1..(n - (j + 2) + 1) :
                SubSeq(entry, j + 2, n)[i] = entry[(j + 2) + i - 1]
        BY <2>1, SubSeqProperties
    <2>3. /\ number \in Seq(Nat)
          /\ Len(number) = IF j + 2 <= n THEN n - (j + 2) + 1 ELSE 0
          /\ \A i \in 1..(n - (j + 2) + 1) : number[i] = entry[(j + 2) + i - 1]
        BY <1>6, <2>2, Zenon
    <2>4. ASSUME number # <<>> PROVE number[1] # Minus
        <3>1. Len(number) # 0
            BY <2>3, <2>4, EmptySeq
        <3>2. j + 2 <= n
            BY <2>3, <3>1
        <3>3. /\ 1 \in 1..(n - (j + 2) + 1) /\ (j + 2) + 1 - 1 = j + 1 + 1
              /\ j + 1 \in 1..(n - 1) /\ j < n
            BY <1>2, <1>4, <3>2
        <3>4. number[1] = entry[j + 1 + 1]
            BY <2>3, <3>3
        <3>5. QED  BY <1>4, <1>5, <3>3, <3>4
    <2>5. QED  BY <2>3, <2>4
<1>9. PICK term : term = atoi(number)
    OBVIOUS
<1>10. term \in Nat
    BY <1>8, <1>9, AtoiNat
<1>11. ParsedEntry(entry) = [term |-> term, cmd |-> cmd]
    BY <1>1, <1>6, <1>9, Zenon DEF ParsedEntry
<1>12. [term |-> term, cmd |-> cmd] \in [term : Nat, cmd : Seq(Nat)]
    BY <1>7, <1>10
<1>13. QED  BY <1>11, <1>12, Zenon
-----------------------------------------------------------------------------
(* Where the parts of a text are in it.                                    *)

(* The characters of e are those of s after a and up to b, where b is not  *)
(* before c, and they come after c or a character that ends a part.        *)
Cut(s, ends, c, e, a, b) ==
    /\ a \in Nat /\ b \in Nat /\ c <= a /\ a <= b /\ b <= Len(s)
    /\ Len(e) = b - a
    /\ \A i \in 1..(b - a) : e[i] = s[a + i]
    /\ \A i \in 1..(b - a) : e[i] # ends
    /\ a = c \/ s[a] = ends

(* They are some, and such a character comes after them.                   *)
EndedCut(s, ends, c, e, a, b) ==
    /\ Cut(s, ends, c, e, a, b)
    /\ a < b /\ b < Len(s) /\ s[b + 1] = ends

(* Only such characters come between c and a.                              *)
OnlyEnds(s, ends, c, a) == \A j \in (c + 1)..a : s[j] = ends

(* What the loop has in tmp after i characters, when it had x after c.     *)
TmpIsCut(s, ends, c, n, y, i) ==
    \E a \in Nat : /\ Cut(s, ends, c, y.tmp, a, i)
                   /\ Len(y.parts) = n => OnlyEnds(s, ends, c, a)

(* The parts it has added to n of them.                                    *)
PartIsCut(s, ends, c, n, y, k) ==
    \E a, b \in Nat : /\ EndedCut(s, ends, c, y.parts[k], a, b)
                      /\ k = n + 1 => OnlyEnds(s, ends, c, a)
PartsAreCut(s, ends, c, n, y) ==
    \A k \in (n + 1)..Len(y.parts) : PartIsCut(s, ends, c, n, y, k)

AllCut(s, ends, c, n, y, i) ==
    /\ n <= Len(y.parts)
    /\ PartsAreCut(s, ends, c, n, y)
    /\ TmpIsCut(s, ends, c, n, y, i)

(* Another character for tmp.                                              *)
LEMMA CutLonger ==
    ASSUME NEW s, Len(s) \in Nat, NEW ends, NEW c \in Nat, NEW C, NEW e \in Seq(C),
           NEW a, NEW i \in Nat, Cut(s, ends, c, e, a, i), i + 1 <= Len(s),
           s[i + 1] # ends, s[i + 1] \in C
    PROVE  Cut(s, ends, c, Append(e, s[i + 1]), a, i + 1)
<1>1. PICK q, x : q = Append(e, x) /\ x = s[i + 1]
    OBVIOUS
<1>2. /\ a \in Nat /\ c <= a /\ a <= i /\ Len(e) = i - a
      /\ \A j \in 1..(i - a) : e[j] = s[a + j] /\ e[j] # ends
      /\ a = c \/ s[a] = ends
    BY Zenon DEF Cut
<1>3. Len(q) = Len(e) + 1 /\ q[Len(e) + 1] = x /\ \A j \in 1..Len(e) : q[j] = e[j]
    BY <1>1, AppendProperties
<1>4. PICK m : m = i - a
    OBVIOUS
<1>5. m \in Nat /\ a + (m + 1) = i + 1 /\ (i + 1) - a = m + 1
    BY <1>2, <1>4
<1>6. Len(q) = m + 1 /\ q[m + 1] = x /\ \A j \in 1..m : q[j] = e[j]
    BY <1>2, <1>3, <1>4
<1>7. \A j \in 1..(m + 1) : j \in 1..m \/ j = m + 1
    BY <1>5
<1>8. \A j \in 1..(m + 1) : q[j] = s[a + j] /\ q[j] # ends
    BY <1>1, <1>2, <1>4, <1>5, <1>6, <1>7, Zenon
<1>9. a <= i + 1 /\ i + 1 \in Nat
    BY <1>2
<1>10. Cut(s, ends, c, q, a, i + 1)
    BY <1>2, <1>5, <1>6, <1>8, <1>9, Zenon DEF Cut
<1>11. QED  BY <1>1, <1>10, Zenon

(* Nothing is cut out at one place.                                        *)
LEMMA EmptyCut ==
    ASSUME NEW s, Len(s) \in Nat, NEW ends, NEW c \in Nat, NEW a \in Nat,
           c <= a, a <= Len(s), a = c \/ s[a] = ends
    PROVE  Cut(s, ends, c, <<>>, a, a)
<1>1. Len(<<>>) = a - a /\ 1..(a - a) = {}
    OBVIOUS
<1>2. QED  BY <1>1 DEF Cut

(* A turn adds to tmp, or makes a part of it, or passes an end of a part   *)
(* with nothing before it.                                                 *)
LEMMA TurnCuts ==
    ASSUME NEW s, Len(s) \in Nat, NEW ends, NEW c \in Nat, NEW n \in Nat, NEW C,
           NEW y \in Loop(C), NEW i \in Nat, c <= i, i + 1 <= Len(s),
           s[i + 1] # ends => s[i + 1] \in C, AllCut(s, ends, c, n, y, i),
           NEW z, z = Scanned(y, s[i + 1], ends)
    PROVE  AllCut(s, ends, c, n, z, i + 1)
<1>1. y.parts \in Seq(Seq(C)) /\ y.tmp \in Seq(C)
      /\ y = [parts |-> y.parts, tmp |-> y.tmp]
    BY LoopFields
<1>2. PICK m, t, x : m = Len(y.parts) /\ t = y.tmp /\ x = s[i + 1]
    OBVIOUS
<1>3. m \in Nat /\ n <= m /\ i + 1 \in Nat /\ c <= i + 1
    BY <1>1, <1>2, LenProperties DEF AllCut
<1>4. PICK a \in Nat : /\ Cut(s, ends, c, t, a, i)
                       /\ m = n => OnlyEnds(s, ends, c, a)
    BY <1>2, Zenon DEF AllCut, TmpIsCut
<1>5. PartsAreCut(s, ends, c, n, y)
    BY Zenon DEF AllCut
<1>6. CASE x # ends
    <2>1. PICK q : q = Append(t, x)
        OBVIOUS
    <2>2. z = [parts |-> y.parts, tmp |-> q]
        BY <1>2, <1>6, <2>1, TurnIs, Zenon
    <2>3. z.parts = y.parts /\ z.tmp = q
        BY <2>2
    <2>4. Cut(s, ends, c, q, a, i + 1)
        BY <1>1, <1>2, <1>4, <1>6, <2>1, CutLonger
    <2>5. TmpIsCut(s, ends, c, n, z, i + 1)
        BY <1>2, <1>4, <2>3, <2>4, Zenon DEF TmpIsCut
    <2>6. PartsAreCut(s, ends, c, n, z)
        BY <1>5, <2>3, Zenon DEF PartsAreCut, PartIsCut
    <2>7. QED  BY <1>2, <1>3, <2>3, <2>5, <2>6, Zenon DEF AllCut
<1>7. Cut(s, ends, c, <<>>, i + 1, i + 1) \/ x # ends
    BY <1>2, <1>3, EmptyCut
<1>8. CASE x = ends /\ t = <<>>
    <2>1. z = [parts |-> y.parts, tmp |-> <<>>]
        BY <1>2, <1>8, TurnIs, Zenon DEF Pushed
    <2>2. z.parts = y.parts /\ z.tmp = <<>>
        BY <2>1
    <2>3. a = i
        <3>1. Len(t) = i - a /\ Len(t) = 0
            BY <1>4, <1>8 DEF Cut
        <3>2. QED  BY <3>1
    <2>4. ASSUME m = n PROVE OnlyEnds(s, ends, c, i + 1)
        <3>1. \A j \in (c + 1)..i : s[j] = ends
            BY <1>4, <2>3, <2>4, Zenon DEF OnlyEnds
        <3>2. \A j \in (c + 1)..(i + 1) : j \in (c + 1)..i \/ j = i + 1
            OBVIOUS
        <3>3. QED  BY <1>2, <1>8, <3>1, <3>2, Zenon DEF OnlyEnds
    <2>5. TmpIsCut(s, ends, c, n, z, i + 1)
        BY <1>2, <1>3, <1>7, <1>8, <2>2, <2>4, Zenon DEF TmpIsCut
    <2>6. PartsAreCut(s, ends, c, n, z)
        BY <1>5, <2>2, Zenon DEF PartsAreCut, PartIsCut
    <2>7. QED  BY <1>2, <1>3, <2>2, <2>5, <2>6, Zenon DEF AllCut
<1>9. CASE x = ends /\ t # <<>>
    <2>1. PICK q : q = Append(y.parts, t)
        OBVIOUS
    <2>2. z = [parts |-> q, tmp |-> <<>>]
        BY <1>2, <1>9, <2>1, TurnIs, Zenon DEF Pushed
    <2>3. z.parts = q /\ z.tmp = <<>>
        BY <2>2
    <2>4. Len(q) = m + 1 /\ q[m + 1] = t /\ \A k \in 1..m : q[k] = y.parts[k]
        BY <1>1, <1>2, <2>1, AppendProperties
    <2>5. EndedCut(s, ends, c, t, a, i)
        <3>1. Len(t) = i - a /\ a <= i
            BY <1>4, Zenon DEF Cut
        <3>2. Len(t) # 0
            BY <1>1, <1>2, <1>9, EmptySeq
        <3>3. a < i /\ i < Len(s)
            BY <3>1, <3>2
        <3>4. QED  BY <1>2, <1>4, <1>9, <3>3, Zenon DEF EndedCut
    <2>6. PartIsCut(s, ends, c, n, z, m + 1)
        <3>1. m + 1 = n + 1 => m = n
            BY <1>3
        <3>2. QED  BY <1>4, <2>3, <2>4, <2>5, <3>1, Zenon DEF PartIsCut
    <2>7. ASSUME NEW k \in (n + 1)..m PROVE PartIsCut(s, ends, c, n, z, k)
        <3>1. PartIsCut(s, ends, c, n, y, k)
            BY <1>2, <1>5, Zenon DEF PartsAreCut
        <3>2. z.parts[k] = y.parts[k]
            <4>1. k \in 1..m
                BY <1>3
            <4>2. QED  BY <2>3, <2>4, <4>1, Zenon
        <3>3. QED  BY <3>1, <3>2, Zenon DEF PartIsCut
    <2>8. PartsAreCut(s, ends, c, n, z)
        <3>1. \A k \in (n + 1)..(m + 1) : k \in (n + 1)..m \/ k = m + 1
            BY <1>3
        <3>2. QED  BY <2>3, <2>4, <2>6, <2>7, <3>1, Zenon DEF PartsAreCut
    <2>9. TmpIsCut(s, ends, c, n, z, i + 1)
        <3>1. m + 1 # n
            BY <1>3
        <3>2. QED  BY <1>3, <1>7, <1>9, <2>3, <2>4, <3>1, Zenon DEF TmpIsCut
    <2>10. n <= m + 1
        BY <1>3
    <2>11. QED  BY <2>3, <2>4, <2>8, <2>9, <2>10, Zenon DEF AllCut
<1>10. QED  BY <1>6, <1>8, <1>9

(* So, from where tmp is empty, what the loop adds is all cut out of the   *)
(* text behind that place.                                                 *)
LEMMA TurnsCut ==
    ASSUME NEW S, NEW s \in Seq(S), NEW ends, NEW f, Turns(f, s, ends, S \ {ends}),
           NEW c \in 0..Len(s), f[c].tmp = <<>>,
           NEW n, n = Len(f[c].parts)
    PROVE  n \in Nat /\ AllCut(s, ends, c, n, f[Len(s)], Len(s))
<1>1. PICK m : m = Len(s)
    OBVIOUS
<1>2. m \in Nat /\ c \in Nat /\ c <= m
    BY <1>1, LenProperties
<1>3. /\ \A i \in 1..m : f[i] = Scanned(f[i - 1], s[i], ends)
      /\ \A i \in 0..m : f[i] \in Loop(S \ {ends})
    BY <1>1, Zenon DEF Turns
<1>4. \A i \in 1..m : s[i] # ends => s[i] \in S \ {ends}
    BY <1>1, ElementOfSeq
<1>5. f[c].parts \in Seq(Seq(S \ {ends})) /\ n \in Nat
    <2>1. f[c] \in Loop(S \ {ends})
        BY <1>1, <1>3
    <2>2. QED  BY <2>1, LoopFields, LenProperties
<1> DEFINE T == {k \in Nat : c + k <= m => AllCut(s, ends, c, n, f[c + k], c + k)}
<1>6. 0 \in T
    <2>1. PartsAreCut(s, ends, c, n, f[c])
        <3>1. (n + 1)..n = {}
            BY <1>5
        <3>2. QED  BY <3>1 DEF PartsAreCut
    <2>2. Cut(s, ends, c, <<>>, c, c)
        BY <1>1, <1>2, EmptyCut
    <2>3. OnlyEnds(s, ends, c, c)
        BY <1>2 DEF OnlyEnds
    <2>4. TmpIsCut(s, ends, c, n, f[c], c)
        BY <1>2, <2>2, <2>3, Zenon DEF TmpIsCut
    <2>5. n <= n
        BY <1>5
    <2>6. AllCut(s, ends, c, n, f[c], c)
        BY <2>1, <2>4, <2>5, Zenon DEF AllCut
    <2>7. c + 0 = c
        BY <1>2
    <2>8. QED  BY <2>6, <2>7
<1>7. ASSUME NEW k \in Nat, k \in T PROVE k + 1 \in T
    <2> SUFFICES ASSUME c + (k + 1) <= m
                 PROVE  AllCut(s, ends, c, n, f[c + (k + 1)], c + (k + 1))
        OBVIOUS
    <2>1. PICK i : i = c + k
        OBVIOUS
    <2>2. /\ i \in Nat /\ i \in 0..m /\ i + 1 \in 1..m /\ i + 1 = c + (k + 1)
          /\ (i + 1) - 1 = i /\ c <= i /\ i + 1 <= m
        BY <1>2, <2>1
    <2>3. AllCut(s, ends, c, n, f[i], i)
        BY <1>7, <2>1, <2>2
    <2>4. PICK z : z = f[i + 1]
        OBVIOUS
    <2>5. z = Scanned(f[i], s[i + 1], ends) /\ f[i] \in Loop(S \ {ends})
          /\ (s[i + 1] # ends => s[i + 1] \in S \ {ends})
        BY <1>3, <1>4, <2>2, <2>4
    <2>6. AllCut(s, ends, c, n, z, i + 1)
        BY <1>1, <1>2, <1>5, <2>2, <2>3, <2>5, TurnCuts
    <2>7. QED  BY <2>2, <2>4, <2>6
<1>8. m - c \in T
    <2>1. m - c \in Nat
        BY <1>2
    <2> HIDE DEF T
    <2>2. QED  BY <1>6, <1>7, <2>1, InductionOn
<1>9. c + (m - c) = m
    BY <1>2
<1>10. QED  BY <1>1, <1>2, <1>5, <1>8, <1>9
(* What is cut out of a text without signs has none.                       *)
LEMMA CutNoSign ==
    ASSUME NEW s, Len(s) \in Nat, NEW ends, NEW c \in Nat, NEW e, NEW a, NEW b,
           Cut(s, ends, c, e, a, b), NoSign(s)
    PROVE  NoSign(e)
<1>1. /\ a \in Nat /\ b \in Nat /\ a <= b /\ b <= Len(s) /\ Len(e) = b - a
      /\ \A i \in 1..(b - a) : e[i] = s[a + i]
    BY Zenon DEF Cut
<1>2. ASSUME NEW i \in 1..(Len(e) - 1), e[i] = Comma PROVE e[i + 1] # Minus
    <2>1. /\ i \in 1..(b - a) /\ i + 1 \in 1..(b - a)
          /\ a + i \in 1..(Len(s) - 1) /\ a + (i + 1) = (a + i) + 1
        BY <1>1
    <2>2. s[a + i] = Comma
        BY <1>1, <1>2, <2>1
    <2>3. s[(a + i) + 1] # Minus
        BY <2>1, <2>2, Zenon DEF NoSign
    <2>4. e[i + 1] = s[(a + i) + 1]
        BY <1>1, <2>1
    <2>5. QED  BY <2>3, <2>4
<1>3. QED  BY <1>2, Zenon DEF NoSign

(* The loop over a whole text cuts parts and tmp out of it.                *)
LEMMA ScanCut ==
    ASSUME NEW S, NEW s \in Seq(S), NEW ends
    PROVE  AllCut(s, ends, 0, 0, Scan(s, ends), Len(s))
<1>1. PICK f : Turns(f, s, ends, S \ {ends}) /\ Scan(s, ends) = f[Len(s)]
    BY ScanIs
<1>2. f[0] = LoopStart
    BY <1>1, Zenon DEF Turns
<1>3. f[0].tmp = <<>> /\ f[0].parts = <<>>
    BY <1>2 DEF LoopStart
<1>4. 0 \in 0..Len(s) /\ 0 = Len(f[0].parts)
    BY <1>3, LenProperties
<1>5. AllCut(s, ends, 0, 0, f[Len(s)], Len(s))
    BY <1>1, <1>3, <1>4, TurnsCut
<1>6. QED  BY <1>1, <1>5, Zenon

(* A part has no sign when the text has none, and neither has tmp.         *)
LEMMA PartsNoSign ==
    ASSUME NEW S, NEW s \in Seq(S), NEW ends, NoSign(s),
           NEW y, y = Scan(s, ends)
    PROVE  NoSign(y.tmp) /\ \A k \in 1..Len(y.parts) : NoSign(y.parts[k])
<1>1. AllCut(s, ends, 0, 0, y, Len(s)) /\ Len(s) \in Nat
    BY ScanCut, LenProperties
<1>2. NoSign(y.tmp)
    <2>1. PICK a : Cut(s, ends, 0, y.tmp, a, Len(s))
        BY <1>1, Zenon DEF AllCut, TmpIsCut
    <2>2. QED  BY <1>1, <2>1, CutNoSign
<1>3. ASSUME NEW k \in 1..Len(y.parts) PROVE NoSign(y.parts[k])
    <2>1. k \in (0 + 1)..Len(y.parts)
        OBVIOUS
    <2>2. PICK a, b : Cut(s, ends, 0, y.parts[k], a, b)
        BY <1>1, <2>1, Zenon DEF AllCut, PartsAreCut, PartIsCut, EndedCut
    <2>3. QED  BY <1>1, <2>2, CutNoSign
<1>4. QED  BY <1>2, <1>3

(* So no entry that deserialize() has of a buffer has a sign in its term,  *)
(* when the buffer has none.                                               *)
LEMMA PiecesNoSign ==
    ASSUME NEW buffer \in Seq(Nat), NoSign(CString(buffer)),
           Len(Persist(buffer)) >= 3,
           NEW k \in 1..Len(Pieces(buffer))
    PROVE  NoSign(Pieces(buffer)[k])
<1>1. PICK s, w, p, t, q : /\ s = CString(buffer) /\ w = Fields(buffer)
                           /\ p = w.parts /\ t = w.tmp /\ q = Append(p, t)
    OBVIOUS
<1>2. s \in Seq(Chars) /\ NoSign(s) /\ w = Scan(s, Semicolon)
    BY <1>1, CStringKeeps, Zenon DEF Fields
<1>3. NoSign(t) /\ \A i \in 1..Len(p) : NoSign(p[i])
    BY <1>1, <1>2, PartsNoSign
<1>4. /\ w \in Loop(FieldChars) /\ Persist(buffer) = q
      /\ q \in Seq(Seq(FieldChars))
    <2>1. Persist(buffer) = q
        BY <1>1, Zenon DEF Persist
    <2>2. w \in Loop(FieldChars) /\ Persist(buffer) \in Seq(Seq(FieldChars))
        BY <1>1, PersistTypes
    <2>3. QED  BY <2>1, <2>2, Zenon
<1>5. p \in Seq(Seq(FieldChars)) /\ t \in Seq(FieldChars)
    BY <1>1, <1>4, LoopFields
<1>6. Len(q) = Len(p) + 1 /\ q[Len(p) + 1] = t /\ \A i \in 1..Len(p) : q[i] = p[i]
    BY <1>1, <1>5, AppendProperties
<1>7. PICK m : m = Len(p)
    OBVIOUS
<1>8. m \in Nat /\ Len(q) >= 3 /\ Len(q) = m + 1
    <2>1. m \in Nat
        BY <1>5, <1>7, LenProperties
    <2>2. Len(q) >= 3
        BY <1>4, Zenon
    <2>3. QED  BY <1>6, <1>7, <2>1, <2>2
<1>9. 3 \in 1..Len(q) /\ (3 \in 1..m \/ 3 = m + 1)
    BY <1>8
<1>10. NoSign(q[3]) /\ q[3] \in Seq(FieldChars)
    <2>1. NoSign(q[3])
        BY <1>3, <1>6, <1>7, <1>9, Zenon
    <2>2. QED  BY <1>4, <1>9, <2>1, ElementOfSeq
<1>11. PICK v : v = Scan(q[3], Dot)
    OBVIOUS
<1>12. Pieces(buffer) = v.parts
    BY <1>4, <1>11, Zenon DEF Pieces
<1>13. \A i \in 1..Len(v.parts) : NoSign(v.parts[i])
    BY <1>10, <1>11, PartsNoSign
<1>14. QED  BY <1>12, <1>13, Zenon

(* string(buf) of a text without NUL and of what comes after it.           *)
LEMMA CStringBehind ==
    ASSUME NEW x \in Seq(Chars), NEW y \in Seq(Nat), NEW z, z = x \o y
    PROVE  Both(x, CString(y), CString(z))
<1>1. x \in Seq(Nat)
    <2>1. \A u \in Seq(Chars) : u \in Seq(Nat)
        BY CharsOfText, SeqMonotonic
    <2>2. QED  BY <2>1
<1>2. PICK n, m, d : n = Len(x) /\ m = Len(y) /\ d = Before(y, {NUL})
    OBVIOUS
<1>3. /\ n \in Nat /\ m \in Nat /\ z \in Seq(Nat)
      /\ \A i \in 1..n : x[i] \in Chars
      /\ Len(z) = n + m /\ (\A i \in 1..n : z[i] = x[i])
      /\ \A i \in 1..m : z[n + i] = y[i]
    <2>1. z \in Seq(Nat) /\ Both(x, y, z)
        BY <1>1, BothTexts
    <2>2. n \in Nat /\ m \in Nat /\ \A i \in 1..n : x[i] \in Chars
        BY <1>2, LenProperties, ElementOfSeq
    <2>3. QED  BY <1>2, <2>1, <2>2, Zenon DEF Both
<1>4. GoesTo(y, {NUL}, d)
    BY <1>2, <1>3, BeforeIs
<1>5. /\ d \in Nat /\ d <= m /\ (d < m => y[d + 1] = NUL)
      /\ \A i \in 1..d : y[i] # NUL
    <2>1. d \in 0..m /\ (d < m => y[d + 1] \in {NUL})
          /\ \A i \in 1..d : y[i] \notin {NUL}
        BY <1>2, <1>4, Zenon DEF GoesTo
    <2>2. QED  BY <1>3, <2>1
<1>6. GoesTo(z, {NUL}, n + d)
    <2>1. \A i \in 1..(n + d) : z[i] \notin {NUL}
        <3> SUFFICES ASSUME NEW i \in 1..(n + d) PROVE z[i] # NUL
            OBVIOUS
        <3>1. CASE i <= n
            <4>1. z[i] \in Chars
                BY <1>3, <3>1
            <4>2. QED  BY <4>1 DEF Chars
        <3>2. CASE ~(i <= n)
            <4>1. i - n \in 1..d /\ i - n \in 1..m /\ n + (i - n) = i
                BY <1>3, <1>5, <3>2
            <4>2. QED  BY <1>3, <1>5, <4>1
        <3>3. QED  BY <3>1, <3>2
    <2>2. n + d < Len(z) => z[(n + d) + 1] \in {NUL}
        <3> SUFFICES ASSUME n + d < Len(z) PROVE z[(n + d) + 1] = NUL
            OBVIOUS
        <3>1. d < m /\ d + 1 \in 1..m /\ n + (d + 1) = (n + d) + 1
            BY <1>3, <1>5
        <3>2. QED  BY <1>3, <1>5, <3>1
    <2>3. n + d \in 0..Len(z)
        BY <1>3, <1>5
    <2>4. QED  BY <2>1, <2>2, <2>3, Zenon DEF GoesTo
<1>7. PICK e : e = n + d
    OBVIOUS
<1>8. Before(z, {NUL}) = e /\ e \in Nat /\ e <= Len(z)
    <2>1. Len(z) \in Nat /\ e \in Nat /\ e <= Len(z)
        BY <1>3, <1>5, <1>7
    <2>2. GoesTo(z, {NUL}, e)
        BY <1>6, <1>7, Zenon
    <2>3. Before(z, {NUL}) = e
        BY <2>1, <2>2, BeforeOnly
    <2>4. QED  BY <2>1, <2>3
<1>9. ASSUME NEW w \in Seq(Nat), NEW k \in Nat, k <= Len(w),
             NEW u, u = SubSeq(w, 1, k)
      PROVE  Len(u) = k /\ \A i \in 1..k : u[i] = w[i]
    <2>1. 1 \in Int /\ k \in Int /\ \A i \in 1..k : w[i] \in Nat
        BY <1>9, LenProperties, ElementOfSeq
    <2>2. /\ Len(SubSeq(w, 1, k)) = IF 1 <= k THEN k - 1 + 1 ELSE 0
          /\ \A i \in 1..(k - 1 + 1) : SubSeq(w, 1, k)[i] = w[1 + i - 1]
        BY <2>1, SubSeqProperties
    <2>3. /\ Len(u) = IF 1 <= k THEN k - 1 + 1 ELSE 0
          /\ \A i \in 1..(k - 1 + 1) : u[i] = w[1 + i - 1]
        BY <1>9, <2>2, Zenon
    <2>4. QED  BY <2>3
<1>10. PICK u, v : u = CString(y) /\ v = CString(z)
    OBVIOUS
<1>11. u = SubSeq(y, 1, d) /\ v = SubSeq(z, 1, e)
    BY <1>2, <1>8, <1>10, Zenon DEF CString
<1>12. Len(u) = d /\ \A i \in 1..d : u[i] = y[i]
    <2>1. d \in Nat /\ d <= Len(y)
        BY <1>2, <1>5
    <2>2. QED  BY <1>9, <1>11, <2>1, Zenon
<1>13. Len(v) = e /\ \A i \in 1..e : v[i] = z[i]
    <2>1. z \in Seq(Nat) /\ e \in Nat /\ e <= Len(z)
        BY <1>3, <1>8, Zenon
    <2>2. v = SubSeq(z, 1, e)
        BY <1>11, Zenon
    <2>3. QED  BY <1>9, <2>1, <2>2, Zenon
<1>14. /\ Len(v) = n + d /\ (\A i \in 1..n : v[i] = x[i])
       /\ \A i \in 1..d : v[n + i] = u[i]
    <2>1. /\ \A i \in 1..n : i \in 1..e
          /\ \A i \in 1..d : n + i \in 1..e /\ i \in 1..m
        BY <1>3, <1>5, <1>7
    <2>2. QED  BY <1>3, <1>7, <1>12, <1>13, <2>1, Zenon
<1>15. QED  BY <1>2, <1>10, <1>12, <1>14, Zenon DEF Both
-----------------------------------------------------------------------------
(* The types of what is in memory and in the file.                         *)

(* What a read that did not fail was made of.                              *)
EntriesOf(pieces) == [k \in 1..Len(pieces) |-> ParsedEntry(pieces[k])]
RunningFrom(buffer, read, persist, pieces) ==
    /\ persist = Persist(buffer) /\ pieces = Pieces(buffer)
    /\ persist \in Seq(Seq(FieldChars)) /\ Len(persist) >= 3
    /\ pieces \in Seq(Seq(EntryChars))
    /\ \A k \in 1..Len(pieces) : HasComma(pieces[k])
    /\ read.term = atoi(persist[1]) /\ read.votedFor = atoi(persist[2])
    /\ read.logs = EntriesOf(pieces)

(* It had three parts and a comma in every entry.                          *)
LEMMA RunningIs ==
    ASSUME NEW buffer \in Seq(Nat), NEW read, read = deserialize(buffer),
           read.outcome = "running"
    PROVE  \E persist, pieces : RunningFrom(buffer, read, persist, pieces)
<1>1. PICK persist, pieces : persist = Persist(buffer) /\ pieces = Pieces(buffer)
    OBVIOUS
<1>2. persist \in Seq(Seq(FieldChars)) /\ Len(persist) \in Nat
    BY <1>1, PersistTypes, LenProperties
<1>3. Len(persist) >= 3
    <2> SUFFICES ASSUME Len(persist) < 3 PROVE FALSE
        BY <1>2
    <2>1. deserialize(buffer) = [outcome |-> "undefined"]
        BY <1>1, Zenon DEF deserialize, Persist, Fields
    <2>2. read.outcome = "undefined"
        BY <2>1
    <2>3. QED  BY <2>2
<1>4. read = IF \E k \in DOMAIN pieces : ~HasComma(pieces[k])
             THEN [outcome |-> "thrown"]
             ELSE [outcome |-> "running", term |-> atoi(persist[1]),
                   votedFor |-> atoi(persist[2]),
                   logs |-> [k \in DOMAIN pieces |-> ParsedEntry(pieces[k])]]
    BY <1>1, <1>2, <1>3, DeserializeIs, Zenon
<1>5. ~\E k \in DOMAIN pieces : ~HasComma(pieces[k])
    <2> SUFFICES ASSUME \E k \in DOMAIN pieces : ~HasComma(pieces[k]) PROVE FALSE
        OBVIOUS
    <2>1. read = [outcome |-> "thrown"]
        BY <1>4, Zenon
    <2>2. read.outcome = "thrown"
        BY <2>1
    <2>3. QED  BY <2>2
<1>6. PICK term, vote, logs :
        /\ term = atoi(persist[1]) /\ vote = atoi(persist[2])
        /\ logs = [k \in DOMAIN pieces |-> ParsedEntry(pieces[k])]
    OBVIOUS
<1>7. read.term = term /\ read.votedFor = vote /\ read.logs = logs
    <2>1. read = [outcome |-> "running", term |-> term, votedFor |-> vote,
                  logs |-> logs]
        BY <1>4, <1>5, <1>6, Zenon
    <2>2. QED  BY <2>1
<1>8. pieces \in Seq(Seq(EntryChars)) /\ DOMAIN pieces = 1..Len(pieces)
    <2>1. pieces \in Seq(Seq(EntryChars))
        BY <1>1, <1>3, PersistTypes, Zenon
    <2>2. QED  BY <2>1, LenProperties
<1>9. /\ logs = EntriesOf(pieces)
      /\ \A k \in 1..Len(pieces) : HasComma(pieces[k])
    BY <1>5, <1>6, <1>8, Zenon DEF EntriesOf
<1>10. RunningFrom(buffer, read, persist, pieces)
    BY <1>1, <1>2, <1>3, <1>6, <1>7, <1>8, <1>9, Zenon DEF RunningFrom
<1>11. QED  BY <1>10

(* The entries of a log, as TypeOK has them.                               *)
TypedEntry == [term : Nat, cmd : Seq(Nat)]

(* A buffer without signs behind commas is read as such entries.           *)
LEMMA ReadIsTyped ==
    ASSUME NEW buffer \in Seq(Nat), NoSign(CString(buffer)),
           NEW read, read = deserialize(buffer), read.outcome = "running"
    PROVE  read.logs \in Seq(TypedEntry)
<1>1. PICK persist, pieces : RunningFrom(buffer, read, persist, pieces)
    BY RunningIs
<1>2. /\ persist = Persist(buffer) /\ pieces = Pieces(buffer)
      /\ Len(persist) >= 3 /\ pieces \in Seq(Seq(EntryChars))
      /\ read.logs = EntriesOf(pieces)
    BY <1>1, Zenon DEF RunningFrom
<1>3. PICK m : m = Len(pieces)
    OBVIOUS
<1>4. m \in Nat /\ \A k \in 1..m : pieces[k] \in Seq(EntryChars)
    BY <1>2, <1>3, LenProperties, ElementOfSeq
<1>5. \A k \in 1..m : NoSign(pieces[k])
    <2>1. Len(Persist(buffer)) >= 3
        BY <1>2, Zenon
    <2>2. \A k \in 1..Len(Pieces(buffer)) : NoSign(Pieces(buffer)[k])
        BY <2>1, PiecesNoSign
    <2>3. QED  BY <1>2, <1>3, <2>2, Zenon
<1>6. \A k \in 1..m : ParsedEntry(pieces[k]) \in TypedEntry
    BY <1>4, <1>5, EntryTermNat, Zenon DEF TypedEntry
<1>7. PICK logs : logs = [k \in 1..m |-> ParsedEntry(pieces[k])]
    OBVIOUS
<1>8. logs \in [1..m -> TypedEntry]
    BY <1>6, <1>7
<1>9. logs \in Seq(TypedEntry)
    BY <1>4, <1>8
<1>10. QED  BY <1>2, <1>3, <1>7, <1>9, Zenon DEF EntriesOf

(* A text in which something other than a minus follows every comma.       *)
Tidy(s) == NoSign(s) /\ (s # <<>> => s[Len(s)] # Comma)

(* A text without commas.                                                  *)
LEMMA TidyPlain ==
    ASSUME NEW T, Comma \notin T, NEW s \in Seq(T)
    PROVE  Tidy(s)
<1>1. PICK n : n = Len(s)
    OBVIOUS
<1>2. n \in Nat /\ \A i \in 1..n : s[i] \in T
    BY <1>1, LenProperties, ElementOfSeq
<1>3. \A i \in 1..(n - 1) : s[i] # Comma
    BY <1>2
<1>4. s # <<>> => n \in 1..n
    <2>1. s # <<>> => n # 0
        BY <1>1, EmptySeq
    <2>2. QED  BY <1>2, <2>1
<1>5. s # <<>> => s[n] # Comma
    BY <1>2, <1>4
<1>6. QED  BY <1>1, <1>3, <1>5, Zenon DEF Tidy, NoSign

(* One text and another, of which the second does not begin with a minus   *)
(* where the first has a comma.                                            *)
LEMMA TidyBoth ==
    ASSUME NEW S, NEW x \in Seq(S), NEW y \in Seq(S), NEW z, z = x \o y,
           NoSign(x), Tidy(y),
           x # <<>> /\ x[Len(x)] = Comma => y # <<>> /\ y[1] # Minus
    PROVE  Tidy(z)
<1>1. PICK n, m : n = Len(x) /\ m = Len(y)
    OBVIOUS
<1>2. /\ n \in Nat /\ m \in Nat /\ Len(z) = n + m
      /\ (\A i \in 1..n : z[i] = x[i]) /\ \A i \in 1..m : z[n + i] = y[i]
      /\ (x # <<>> <=> n # 0) /\ (y # <<>> <=> m # 0)
    <2>1. z \in Seq(S) /\ Both(x, y, z)
        BY BothTexts
    <2>2. n \in Nat /\ m \in Nat /\ (x # <<>> <=> n # 0) /\ (y # <<>> <=> m # 0)
        BY <1>1, LenProperties, EmptySeq
    <2>3. QED  BY <1>1, <2>1, <2>2, Zenon DEF Both
<1>3. /\ \A i \in 1..(n - 1) : x[i] = Comma => x[i + 1] # Minus
      /\ \A i \in 1..(m - 1) : y[i] = Comma => y[i + 1] # Minus
      /\ m # 0 => y[m] # Comma
      /\ n # 0 /\ x[n] = Comma => m # 0 /\ y[1] # Minus
    BY <1>1, <1>2, Zenon DEF Tidy, NoSign
<1>4. PICK k : k = n + m
    OBVIOUS
<1>5. ASSUME NEW i \in 1..(k - 1), z[i] = Comma PROVE z[i + 1] # Minus
    <2>1. CASE i < n
        <3>1. i \in 1..(n - 1) /\ i \in 1..n /\ i + 1 \in 1..n
            BY <1>2, <2>1
        <3>2. QED  BY <1>2, <1>3, <1>5, <3>1
    <2>2. CASE i = n
        <3>1. n # 0 /\ i \in 1..n /\ 1 \in 1..m /\ i + 1 = n + 1
            BY <1>2, <1>4, <2>2
        <3>2. QED  BY <1>2, <1>3, <1>5, <2>2, <3>1
    <2>3. CASE i > n
        <3>1. PICK j : j = i - n
            OBVIOUS
        <3>2. /\ j \in 1..(m - 1) /\ j \in 1..m /\ j + 1 \in 1..m
              /\ i = n + j /\ i + 1 = n + (j + 1)
            BY <1>2, <1>4, <2>3, <3>1
        <3>3. z[i] = y[j] /\ z[i + 1] = y[j + 1]
            BY <1>2, <3>2
        <3>4. QED  BY <1>3, <1>5, <3>2, <3>3
    <2>4. QED  BY <1>2, <1>4, <2>1, <2>2, <2>3
<1>6. ASSUME k # 0 PROVE z[k] # Comma
    <2>1. CASE m # 0
        <3>1. m \in 1..m /\ k = n + m
            BY <1>2, <1>4, <2>1
        <3>2. QED  BY <1>2, <1>3, <2>1, <3>1
    <2>2. CASE m = 0
        <3>1. n # 0 /\ n \in 1..n /\ k = n
            BY <1>2, <1>6, <1>4, <2>2
        <3>2. QED  BY <1>2, <1>3, <2>2, <3>1
    <2>3. QED  BY <2>1, <2>2
<1>7. z # <<>> => k # 0
    <2>1. z \in Seq(S)
        BY ConcatProperties
    <2>2. QED  BY <1>2, <1>4, <2>1, EmptySeq
<1>8. k = Len(z)
    BY <1>2, <1>4, Zenon
<1>9. QED  BY <1>5, <1>6, <1>7, <1>8, Zenon DEF Tidy, NoSign

(* It is tidy if the text is.                                              *)
LEMMA TidyRest ==
    ASSUME NEW S, NEW y \in Seq(S), NEW k \in Nat, Tidy(y),
           NEW z, z = SubSeq(y, k + 1, Len(y))
    PROVE  Tidy(z)
<1>1. PICK n, m : n = Len(y) /\ m = Len(z)
    OBVIOUS
<1>2. /\ z \in Seq(S) /\ n \in Nat /\ m \in Nat
      /\ m = (IF k <= n THEN n - k ELSE 0) /\ \A i \in 1..m : z[i] = y[k + i]
      /\ (y # <<>> <=> n # 0) /\ (z # <<>> <=> m # 0)
    <2>1. z \in Seq(S) /\ Remains(y, k, z)
        BY RestIs
    <2>2. n \in Nat /\ m \in Nat /\ (y # <<>> <=> n # 0) /\ (z # <<>> <=> m # 0)
        BY <1>1, <2>1, LenProperties, EmptySeq
    <2>3. QED  BY <1>1, <2>1, <2>2, Zenon DEF Remains
<1>3. /\ \A i \in 1..(n - 1) : y[i] = Comma => y[i + 1] # Minus
      /\ n # 0 => y[n] # Comma
    BY <1>1, <1>2, Zenon DEF Tidy, NoSign
<1>4. ASSUME NEW i \in 1..(m - 1), z[i] = Comma PROVE z[i + 1] # Minus
    <2>1. PICK j : j = k + i
        OBVIOUS
    <2>2. /\ j \in 1..(n - 1) /\ i \in 1..m /\ i + 1 \in 1..m
          /\ k + (i + 1) = j + 1
        BY <1>2, <2>1
    <2>3. z[i] = y[j] /\ z[i + 1] = y[j + 1]
        BY <1>2, <2>1, <2>2
    <2>4. QED  BY <1>3, <1>4, <2>2, <2>3
<1>5. ASSUME m # 0 PROVE z[m] # Comma
    <2>1. n # 0 /\ m \in 1..m /\ k + m = n
        BY <1>2, <1>5
    <2>2. z[m] = y[n]
        BY <1>2, <2>1
    <2>3. QED  BY <1>3, <2>1, <2>2
<1>6. QED  BY <1>1, <1>2, <1>4, <1>5, Zenon DEF Tidy, NoSign
(* The text of a natural number is digits.                                 *)
LEMMA NaturalText ==
    ASSUME NEW n \in Nat
    PROVE  /\ to_string(n) \in Seq(Digit) /\ to_string(n) # <<>>
           /\ to_string(n)[1] # Minus
<1>1. PICK d : d = Digits(n)
    OBVIOUS
<1>2. d \in Seq(Digit) /\ Len(d) >= 1
    BY <1>1, NumberOfDigits
<1>3. to_string(n) = d
    BY <1>1 DEF to_string
<1>4. d # <<>> /\ 1 \in 1..Len(d)
    <2>1. Len(d) \in Nat
        BY <1>2, LenProperties
    <2>2. Len(d) # 0
        BY <1>2, <2>1
    <2>3. d # <<>>
        BY <1>2, <2>2, EmptySeq
    <2>4. QED  BY <1>2, <2>1, <2>3
<1>5. d[1] # Minus
    <2>1. d[1] \in Digit
        BY <1>2, <1>4, ElementOfSeq
    <2>2. QED  BY <2>1 DEF Minus, Zero, Digit
<1>6. QED  BY <1>2, <1>3, <1>4, <1>5

(* Commas are in no number, nor in what ends one or an entry.              *)
LEMMA CommaElsewhere ==
    /\ Comma \notin Plain /\ Comma \notin Numeral /\ Comma \notin Digit
    /\ Comma \notin {Semicolon} /\ Comma \notin {Dot} /\ Comma # Dot
    /\ Digit \subseteq Chars /\ Plain \subseteq Chars /\ Comma \in Chars
    /\ Dot \in Chars
BY DEF Numeral, Digit, Zero, Minus, Plain, Chars, NUL, Comma, Dot, Semicolon

(* The text of an entry is tidy if its term is a natural number.           *)
LEMMA TidyEntry ==
    ASSUME NEW e \in PlainEntry, e.term \in Nat
    PROVE  EntryText(e) \in Seq(Chars) /\ Tidy(EntryText(e))
<1>1. PICK cmd, number, comma, dot :
        /\ cmd = e.cmd /\ number = to_string(e.term)
        /\ comma = <<Comma>> /\ dot = <<Dot>>
    OBVIOUS
<1>2. /\ cmd \in Seq(Plain)
      /\ number \in Seq(Digit) /\ number # <<>> /\ number[1] # Minus
    <2>1. cmd \in Seq(Plain)
        BY <1>1 DEF PlainEntry
    <2>2. QED  BY <1>1, <2>1, NaturalText
<1>3. /\ cmd \in Seq(Chars) /\ number \in Seq(Chars) /\ comma \in Seq(Chars)
      /\ dot \in Seq(Chars)
    <2>1. \A u \in Seq(Plain) : u \in Seq(Chars)
        BY CommaElsewhere, SeqMonotonic
    <2>2. \A u \in Seq(Digit) : u \in Seq(Chars)
        BY CommaElsewhere, SeqMonotonic
    <2>3. <<Comma>> \in Seq(Chars) /\ <<Dot>> \in Seq(Chars)
        BY CommaElsewhere
    <2>4. QED  BY <1>1, <1>2, <2>1, <2>2, <2>3, Zenon
<1>4. \A u, v \in Seq(Chars) : u \o v \in Seq(Chars)
    BY ConcatProperties
<1>5. PICK front, bare : front = cmd \o comma /\ bare = front \o number
    OBVIOUS
<1>6. front \in Seq(Chars) /\ bare \in Seq(Chars) /\ bare \o dot \in Seq(Chars)
    BY <1>3, <1>4, <1>5, Zenon
<1>7. NoSign(front)
    <2>1. PICK c : c = Len(cmd)
        OBVIOUS
    <2>2. Len(comma) = 1
        BY <1>1
    <2>3. Both(cmd, comma, front)
        BY <1>3, <1>5, BothTexts
    <2>4. Len(front) = c + 1 /\ \A i \in 1..c : front[i] = cmd[i]
        BY <2>1, <2>2, <2>3, Zenon DEF Both
    <2>5. c \in Nat /\ \A i \in 1..c : cmd[i] \in Plain
        BY <1>2, <2>1, LenProperties, ElementOfSeq
    <2>6. \A i \in 1..(Len(front) - 1) : i \in 1..c
        BY <2>4, <2>5
    <2>7. QED  BY <2>4, <2>5, <2>6, CommaElsewhere, Zenon DEF NoSign
<1>8. Tidy(number)
    BY <1>2, CommaElsewhere, TidyPlain
<1>9. Tidy(bare)
    BY <1>2, <1>3, <1>5, <1>6, <1>7, <1>8, TidyBoth
<1>10. Tidy(dot)
    <2>1. <<Dot>> \in Seq({Dot})
        OBVIOUS
    <2>2. QED  BY <1>1, <2>1, CommaElsewhere, TidyPlain
<1>11. Tidy(bare \o dot)
    <2>1. NoSign(bare) /\ (bare # <<>> => bare[Len(bare)] # Comma)
        BY <1>9, Zenon DEF Tidy
    <2>2. QED  BY <1>3, <1>6, <1>10, <2>1, TidyBoth
<1>12. EntryText(e) = bare \o dot
    BY <1>1, <1>5, Zenon DEF EntryText
<1>13. QED  BY <1>6, <1>11, <1>12

(* Terms that nodes write.                                                 *)
Dated(log) == \A i \in 1..Len(log) : log[i].term \in Nat

(* The text of the entries of a log is tidy.                               *)
LEMMA TidyEntries ==
    ASSUME NEW log \in Seq(PlainEntry), Dated(log)
    PROVE  Tidy(Entries(log))
<1>1. PICK n : n = Len(log)
    OBVIOUS
<1>2. n \in Nat /\ \A i \in 1..n : log[i] \in PlainEntry /\ log[i].term \in Nat
    BY <1>1, LenProperties, ElementOfSeq DEF Dated
<1>3. PICK t : Texts(t, log, n) /\ Entries(log) = t[n]
    BY <1>1, TextsOfLog
<1>4. /\ t[0] = <<>> /\ \A i \in 1..n : t[i] = t[i - 1] \o EntryText(log[i])
      /\ \A i \in 0..n : t[i] \in Seq(InField)
    BY <1>3, Zenon DEF Texts
<1> DEFINE T == {i \in Nat : i <= n => Tidy(t[i])}
<1>5. 0 \in T
    <2>1. <<>> \in Seq({Dot})
        OBVIOUS
    <2>2. Tidy(<<>>)
        BY <2>1, CommaElsewhere, TidyPlain
    <2>3. QED  BY <1>4, <2>2
<1>6. ASSUME NEW i \in Nat, i \in T PROVE i + 1 \in T
    <2> SUFFICES ASSUME i + 1 <= n PROVE Tidy(t[i + 1])
        OBVIOUS
    <2>1. PICK x, y, z : x = t[i] /\ y = EntryText(log[i + 1]) /\ z = t[i + 1]
        OBVIOUS
    <2>2. i \in 0..n /\ i + 1 \in 1..n /\ (i + 1) - 1 = i
        BY <1>2
    <2>3. x \in Seq(InField) /\ z = x \o y
        BY <1>4, <2>1, <2>2
    <2>4. y \in Seq(Chars) /\ Tidy(y)
        BY <1>2, <2>1, <2>2, TidyEntry
    <2>5. Tidy(x)
        BY <1>6, <2>1, <2>2, <1>2
    <2>6. x \in Seq(Chars)
        <3>1. \A u \in Seq(InField) : u \in Seq(Chars)
            BY CharsOfText, SeqMonotonic
        <3>2. QED  BY <2>3, <3>1
    <2>7. NoSign(x) /\ (x # <<>> => x[Len(x)] # Comma)
        BY <2>5, Zenon DEF Tidy
    <2>8. Tidy(z)
        BY <2>3, <2>4, <2>6, <2>7, TidyBoth
    <2>9. QED  BY <2>1, <2>8
<1>7. n \in T
    <2> HIDE DEF T
    <2>1. QED  BY <1>2, <1>5, <1>6, InductionOn
<1>8. QED  BY <1>2, <1>3, <1>7

(* So is the text of a state.                                              *)
LEMMA TidyText ==
    ASSUME NEW term \in Int, NEW vote \in Int, NEW log \in Seq(PlainEntry),
           Dated(log)
    PROVE  Text(term, vote, log) \in Seq(Chars) /\ Tidy(Text(term, vote, log))
<1>1. PICK text, x, y, z, e : /\ text = Text(term, vote, log) /\ z = Entries(log)
                              /\ x = to_string(term) /\ y = to_string(vote)
                              /\ e = <<Semicolon>>
    OBVIOUS
<1>2. PICK front \in Seq(Chars), header \in Seq(Chars) :
        /\ text \in Seq(Chars) /\ x \in Seq(Chars) /\ y \in Seq(Chars)
        /\ z \in Seq(Chars) /\ ThreeTexts(text, x, y, front, header, z)
    BY <1>1, TextIs, Zenon
<1>3. /\ front = x \o e /\ header = front \o (y \o e) /\ text = header \o z
    BY <1>1, <1>2, Zenon DEF ThreeTexts
<1>4. e \in Seq(Chars)
    <2>1. <<Semicolon>> \in Seq(Chars)
        BY CharsOfText
    <2>2. QED  BY <1>1, <2>1
<1>5. Tidy(x) /\ Tidy(y) /\ Tidy(e) /\ Tidy(z)
    <2>1. x \in Seq(Numeral) /\ y \in Seq(Numeral)
        BY <1>1, NumberComesBack
    <2>2. <<Semicolon>> \in Seq({Semicolon})
        OBVIOUS
    <2>3. Tidy(z)
        BY <1>1, TidyEntries
    <2>4. QED  BY <1>1, <2>1, <2>2, <2>3, CommaElsewhere, TidyPlain
<1>6. ASSUME NEW u \in Seq(Chars), NEW v \in Seq(Chars), Tidy(u), Tidy(v)
      PROVE  Tidy(u \o v) /\ u \o v \in Seq(Chars)
    <2>1. NoSign(u) /\ (u # <<>> => u[Len(u)] # Comma)
        BY <1>6, Zenon DEF Tidy
    <2>2. Tidy(u \o v)
        BY <1>6, <2>1, TidyBoth
    <2>3. QED  BY <2>2, ConcatProperties
<1>7. Tidy(front)
    BY <1>2, <1>3, <1>4, <1>5, <1>6, Zenon
<1>8. Tidy(y \o e) /\ y \o e \in Seq(Chars)
    BY <1>2, <1>4, <1>5, <1>6, Zenon
<1>9. Tidy(header)
    BY <1>2, <1>3, <1>6, <1>7, <1>8, Zenon
<1>10. Tidy(text)
    BY <1>2, <1>3, <1>5, <1>6, <1>9, Zenon
<1>11. QED  BY <1>1, <1>2, <1>10, Zenon
(* Memory, and the file, between two steps: what TypeOK says, and that the *)
(* file is that of a node, with nothing before the first save and no sign  *)
(* behind a comma.                                                         *)
MemoryTyped ==
    /\ m_curTerm \in Nat /\ m_votedFor \in Voted \cup {None}
    /\ m_logs \in Seq(TypedEntry) /\ Len(m_logs) <= MaxLog

SavedTyped ==
    saved # <<>> =>
        \E term \in Nat, vote \in Voted \cup {None} : \E log :
            /\ saved = <<[term |-> term, votedFor |-> vote, logs |-> log]>>
            /\ SavedBegins(term, vote, log, content)

FileTyped ==
    /\ content \in Seq(Chars) /\ Tidy(content)
    /\ saved = <<>> => content = <<>>
    /\ SavedTyped

States == {"down", "running", "opened", "undefined", "thrown"}

TypeInv ==
    /\ pc \in States /\ exists \in BOOLEAN
    /\ MemoryTyped /\ FileTyped

(* It is so at the start.                                                  *)
LEMMA InitTyped == Init => TypeInv
<1> SUFFICES ASSUME Init PROVE TypeInv
    OBVIOUS
<1>1. /\ m_curTerm = 0 /\ m_votedFor = None /\ m_logs = <<>> /\ content = <<>>
      /\ saved = <<>> /\ pc = "down" /\ exists = FALSE
    BY DEF Init
<1>2. /\ <<>> \in Seq(TypedEntry) /\ <<>> \in Seq(Chars) /\ 0 \in Nat
      /\ Len(<<>>) <= MaxLog /\ <<>> \in Seq({Dot})
    BY FileAssumption
<1>3. Tidy(<<>>)
    BY <1>2, CommaElsewhere, TidyPlain
<1>4. pc \in States /\ exists \in BOOLEAN /\ None \in Voted \cup {None}
    BY <1>1 DEF States
<1>5. MemoryTyped
    BY <1>1, <1>2, <1>4, Zenon DEF MemoryTyped
<1>6. FileTyped
    BY <1>1, <1>2, <1>3, Zenon DEF FileTyped, SavedTyped
<1>7. QED  BY <1>4, <1>5, <1>6, Zenon DEF TypeInv

(* The entries of nodes are of the type.                                   *)
LEMMA EntriesAreTyped == Entry \subseteq TypedEntry
<1> SUFFICES ASSUME NEW e \in Entry PROVE e \in TypedEntry
    OBVIOUS
<1>1. PICK term \in Terms, key \in Keys : e = [term |-> term, cmd |-> getCmd(key)]
    BY DEF Entry
<1>2. PICK cmd : cmd = getCmd(key)
    OBVIOUS
<1>3. term \in Nat /\ cmd \in Seq(Nat)
    <2>1. term \in Nat /\ key \in Nat
        BY FileAssumption
    <2>2. \A u \in Seq(Plain) : u \in Seq(Nat)
        BY PlainBetween, SeqMonotonic
    <2>3. QED  BY <1>2, <2>1, <2>2, CommandPlain
<1>4. e = [term |-> term, cmd |-> cmd]
    BY <1>1, <1>2, Zenon
<1>5. QED  BY <1>3, <1>4 DEF TypedEntry

(* A save opens the file.                                                  *)
LEMMA OpenTyped ==
    ASSUME TypeInv, NEW term \in Terms \cup {m_curTerm},
           NEW vote \in Voted \cup {None, m_votedFor},
           NEW cut \in 0..Len(m_logs), NEW added \in SeqOf(Entry, MaxAdded),
           Open(term, vote, cut, added)
    PROVE  TypeInv'
<1>1. m_logs \in Seq(TypedEntry) /\ FileTyped
    BY Zenon DEF TypeInv, MemoryTyped
<1>2. /\ m_curTerm' = term /\ m_votedFor' = vote
      /\ m_logs' = SubSeq(m_logs, 1, cut) \o added
      /\ content' = content /\ saved' = saved
      /\ cut + Len(added) <= MaxLog /\ pc' = "opened" /\ exists' = TRUE
    BY Zenon DEF Open, Opened
<1>3. added \in Seq(TypedEntry)
    <2>1. PICK m \in 0..MaxAdded : added \in [1..m -> Entry]
        BY DEF SeqOf
    <2>2. m \in Nat
        BY FileAssumption
    <2>3. added \in [1..m -> TypedEntry]
        BY <2>1, EntriesAreTyped
    <2>4. QED  BY <2>2, <2>3
<1>4. PICK front, log : front = SubSeq(m_logs, 1, cut) /\ log = front \o added
    OBVIOUS
<1>5. front \in Seq(TypedEntry) /\ Len(front) = cut
    <2>1. PICK n : n = Len(m_logs)
        OBVIOUS
    <2>2. n \in Nat /\ \A i \in 1..n : m_logs[i] \in TypedEntry
        BY <1>1, <2>1, LenProperties, ElementOfSeq
    <2>3. 1 \in Int /\ cut \in Int /\ cut <= n /\ 0 <= cut
        BY <2>1, <2>2
    <2>4. \A i \in 1..cut : m_logs[i] \in TypedEntry
        BY <2>2, <2>3
    <2>5. /\ SubSeq(m_logs, 1, cut) \in Seq(TypedEntry)
          /\ Len(SubSeq(m_logs, 1, cut)) = IF 1 <= cut THEN cut - 1 + 1 ELSE 0
        BY <2>3, <2>4, SubSeqProperties
    <2>6. /\ front \in Seq(TypedEntry)
          /\ Len(front) = IF 1 <= cut THEN cut - 1 + 1 ELSE 0
        BY <1>4, <2>5, Zenon
    <2>7. QED  BY <2>3, <2>6
<1>6. log \in Seq(TypedEntry) /\ Len(log) <= MaxLog
    <2>1. log \in Seq(TypedEntry) /\ Both(front, added, log)
        BY <1>3, <1>4, <1>5, BothTexts
    <2>2. Len(log) = cut + Len(added)
        BY <1>5, <2>1, Zenon DEF Both
    <2>3. QED  BY <1>2, <2>1, <2>2, Zenon
<1>7. term \in Nat /\ vote \in Voted \cup {None}
    <2>1. m_curTerm \in Nat /\ m_votedFor \in Voted \cup {None}
        BY Zenon DEF TypeInv, MemoryTyped
    <2>2. QED  BY <2>1, FileAssumption
<1>8. MemoryTyped'
    BY <1>2, <1>4, <1>6, <1>7, Zenon DEF MemoryTyped
<1>9. FileTyped'
    BY <1>1, <1>2, Zenon DEF FileTyped, SavedTyped
<1>10. pc' \in States /\ exists' \in BOOLEAN
    BY <1>2 DEF States
<1>11. QED  BY <1>8, <1>9, <1>10, Zenon DEF TypeInv

(* It writes the state over it.                                            *)
LEMMA WriteTyped == ASSUME FileInv, TypeInv, Write PROVE TypeInv'
<1>1. PICK term, vote, log : term = m_curTerm /\ vote = m_votedFor /\ log = m_logs
    OBVIOUS
<1>2. CleanState(term, vote, log) /\ content \in Seq(Chars) /\ Tidy(content)
    BY <1>1, Zenon DEF FileInv, TypeInv, FileTyped
<1>3. /\ term \in Nat /\ vote \in Voted \cup {None} /\ log \in Seq(TypedEntry)
      /\ exists \in BOOLEAN
    BY <1>1, Zenon DEF TypeInv, MemoryTyped
<1>4. term \in Int /\ vote \in Int /\ log \in Seq(PlainEntry)
    BY <1>2, Zenon DEF CleanState
<1>5. Dated(log)
    <2>1. \A i \in 1..Len(log) : log[i] \in TypedEntry
        BY <1>3, ElementOfSeq
    <2>2. QED  BY <2>1 DEF Dated, TypedEntry
<1>6. PICK text, rest : /\ text = Text(term, vote, log)
                        /\ rest = SubSeq(content, Len(text) + 1, Len(content))
    OBVIOUS
<1>7. text \in Seq(Chars) /\ Tidy(text)
    BY <1>4, <1>5, <1>6, TidyText, Zenon
<1>8. rest \in Seq(Chars) /\ Tidy(rest)
    <2>1. Len(text) \in Nat
        BY <1>7, LenProperties
    <2>2. QED  BY <1>2, <1>6, <2>1, RestIs, TidyRest
<1>9. text \o rest \in Seq(Chars) /\ Tidy(text \o rest)
    <2>1. NoSign(text) /\ (text # <<>> => text[Len(text)] # Comma)
        BY <1>7, Zenon DEF Tidy
    <2>2. QED  BY <1>7, <1>8, <2>1, TidyBoth, ConcatProperties
<1>10. Begins(text, text \o rest)
    BY <1>7, <1>8, BeginsItself, BeginsOn
<1>11. /\ content' = text \o rest /\ UNCHANGED memory
       /\ saved' = <<[term |-> term, votedFor |-> vote, logs |-> log]>>
       /\ pc' = "running" /\ exists' = exists
    BY <1>1, <1>6, Zenon DEF Write, Overwritten
<1>12. m_curTerm' = m_curTerm /\ m_votedFor' = m_votedFor /\ m_logs' = m_logs
    BY <1>11 DEF memory
<1>13. MemoryTyped'
    BY <1>12, Zenon DEF TypeInv, MemoryTyped
<1>14. SavedBegins(term, vote, log, content')
    BY <1>2, <1>6, <1>10, <1>11, Zenon DEF SavedBegins
<1>15. SavedTyped'
    BY <1>3, <1>11, <1>14, Zenon DEF SavedTyped
<1>16. saved' # <<>>
    <2>1. Len(saved') = 1 /\ Len(<<>>) = 0
        BY <1>11
    <2>2. 1 # 0
        OBVIOUS
    <2>3. QED  BY <2>1, <2>2, Zenon
<1>17. FileTyped'
    BY <1>9, <1>11, <1>15, <1>16, Zenon DEF FileTyped
<1>18. pc' \in States /\ exists' \in BOOLEAN
    BY <1>3, <1>11 DEF States
<1>19. QED  BY <1>13, <1>17, <1>18, Zenon DEF TypeInv

(* The process is lost.                                                    *)
LEMMA CrashTyped == ASSUME TypeInv, Crash PROVE TypeInv'
<1>1. /\ m_curTerm' = 0 /\ m_votedFor' = None /\ m_logs' = <<>>
      /\ content' = content /\ saved' = saved /\ pc' = "down" /\ exists' = exists
    BY DEF Crash, Stop, history
<1>2. <<>> \in Seq(TypedEntry) /\ 0 \in Nat /\ Len(<<>>) <= MaxLog
      /\ None \in Voted \cup {None} /\ "down" \in States
    BY FileAssumption DEF States
<1>3. MemoryTyped'
    BY <1>1, <1>2, Zenon DEF MemoryTyped
<1>4. QED
    BY <1>1, <1>2, <1>3, Zenon DEF TypeInv, FileTyped, SavedTyped

(* How deserialize() may end.                                              *)
LEMMA OutcomeIs ==
    ASSUME NEW buffer
    PROVE  deserialize(buffer).outcome \in {"undefined", "thrown", "running"}
<1>1. PICK read : read = deserialize(buffer)
    OBVIOUS
<1>2. \/ read = [outcome |-> "undefined"]
      \/ read = [outcome |-> "thrown"]
      \/ \E term, vote, logs : read = [outcome |-> "running", term |-> term,
                                       votedFor |-> vote, logs |-> logs]
    BY <1>1, Zenon DEF deserialize
<1>3. read.outcome \in {"undefined", "thrown", "running"}
    BY <1>2
<1>4. QED  BY <1>1, <1>3

(* What is read behind what nodes have written has no sign but theirs, if  *)
(* memory has none.                                                        *)
LEMMA BufferNoSign ==
    ASSUME HarmlessMemory, content \in Seq(Chars), Tidy(content),
           NEW beyond \in Beyond, NEW buffer, buffer = content \o beyond
    PROVE  NoSign(CString(buffer))
<1>1. beyond \in Seq(Nat)
    BY FileAssumption
<1>2. PICK x, y, z : x = content /\ y = CString(beyond) /\ z = CString(buffer)
    OBVIOUS
<1>3. Both(x, y, z)
    BY <1>1, <1>2, CStringBehind, Zenon
<1>4. x \in Seq(Chars) /\ y \in Seq(Chars)
    BY <1>1, <1>2, CStringKeeps
<1>5. NoSign(y)
    BY <1>2, Zenon DEF HarmlessMemory, NoSign
<1>6. PICK n, m : n = Len(x) /\ m = Len(y)
    OBVIOUS
<1>7. /\ n \in Nat /\ m \in Nat /\ (x # <<>> <=> n # 0)
      /\ Len(z) = n + m
      /\ (\A i \in 1..n : z[i] = x[i]) /\ \A i \in 1..m : z[n + i] = y[i]
    <2>1. n \in Nat /\ m \in Nat /\ (x # <<>> <=> n # 0)
        BY <1>4, <1>6, LenProperties, EmptySeq
    <2>2. QED  BY <1>3, <1>6, <2>1, Zenon DEF Both
<1>8. /\ \A i \in 1..(n - 1) : x[i] = Comma => x[i + 1] # Minus
      /\ \A i \in 1..(m - 1) : y[i] = Comma => y[i + 1] # Minus
      /\ n # 0 => x[n] # Comma
    <2>1. Tidy(x)
        BY <1>2, Zenon
    <2>2. QED  BY <1>5, <1>6, <1>7, <2>1, Zenon DEF Tidy, NoSign
<1>9. ASSUME NEW i \in 1..(Len(z) - 1), z[i] = Comma PROVE z[i + 1] # Minus
    <2>1. CASE i < n
        <3>1. i \in 1..(n - 1) /\ i \in 1..n /\ i + 1 \in 1..n
            BY <1>7, <2>1
        <3>2. QED  BY <1>7, <1>8, <1>9, <3>1
    <2>2. CASE i = n
        <3>1. n # 0 /\ i \in 1..n
            BY <1>7, <2>2
        <3>2. QED  BY <1>7, <1>8, <1>9, <2>2, <3>1
    <2>3. CASE i > n
        <3>1. PICK j : j = i - n
            OBVIOUS
        <3>2. /\ j \in 1..(m - 1) /\ j \in 1..m /\ j + 1 \in 1..m
              /\ i = n + j /\ i + 1 = n + (j + 1)
            BY <1>7, <2>3, <3>1
        <3>3. z[i] = y[j] /\ z[i + 1] = y[j + 1]
            BY <1>7, <3>2
        <3>4. QED  BY <1>8, <1>9, <3>2, <3>3
    <2>4. QED  BY <1>7, <2>1, <2>2, <2>3
<1>10. QED  BY <1>2, <1>9, Zenon DEF NoSign

(* With harmless memory only a file that was saved is read: without one    *)
(* there are no three parts.                                               *)
LEMMA OnlySavedIsRead ==
    ASSUME HarmlessMemory, TypeInv, NEW beyond \in Beyond,
           saved = <<>>
    PROVE  deserialize(content \o beyond).outcome = "undefined"
<1>1. content = <<>> /\ beyond \in Seq(Nat)
    BY FileAssumption, Zenon DEF TypeInv, FileTyped
<1>2. <<>> \o beyond = beyond
    BY <1>1, ConcatEmptySeq
<1>3. deserialize(beyond).outcome = "undefined"
    BY Zenon DEF HarmlessMemory
<1>4. QED  BY <1>1, <1>2, <1>3, Zenon

(* A read leaves memory with terms, votes and entries of nodes.            *)
LEMMA ReadsTyped ==
    ASSUME HarmlessMemory, FileInv, TypeInv, NEW beyond \in Beyond,
           readRaftState(beyond)
    PROVE  pc' \in States /\ MemoryTyped'
<1>1. MemoryTyped /\ content \in Seq(Chars) /\ Tidy(content) /\ SavedTyped
      /\ content \in Seq(Nat)
    BY Zenon DEF TypeInv, FileTyped, FileInv
<1>2. PICK buffer, read : buffer = content \o beyond /\ read = deserialize(buffer)
    OBVIOUS
<1>3. buffer \in Seq(Nat) /\ beyond \in Seq(Nat)
    BY <1>1, <1>2, BufferIs, Zenon
<1>4. CASE read.outcome # "running"
    <2>1. UNCHANGED memory /\ pc' = read.outcome
        BY <1>2, <1>4, Zenon DEF readRaftState
    <2>2. m_curTerm' = m_curTerm /\ m_votedFor' = m_votedFor /\ m_logs' = m_logs
        BY <2>1 DEF memory
    <2>3. read.outcome \in States
        <3>1. read.outcome \in {"undefined", "thrown", "running"}
            BY <1>2, OutcomeIs
        <3>2. QED  BY <3>1 DEF States
    <2>4. QED  BY <1>1, <2>1, <2>2, <2>3, Zenon DEF MemoryTyped
<1>5. CASE read.outcome = "running"
    <2>1. /\ m_curTerm' = read.term /\ m_votedFor' = read.votedFor
          /\ m_logs' = m_logs \o read.logs
          /\ Len(m_logs \o read.logs) <= MaxLog /\ pc' = "running"
        BY <1>2, <1>5, Zenon DEF readRaftState
    <2>2. saved # <<>>
        <3>1. "undefined" # "running"
            OBVIOUS
        <3>2. QED  BY <1>2, <1>5, <3>1, OnlySavedIsRead
    <2>3. PICK term \in Nat, vote \in Voted \cup {None} : \E log :
            SavedBegins(term, vote, log, content)
        BY <1>1, <2>2, Zenon DEF SavedTyped
    <2>4. PICK log : SavedBegins(term, vote, log, content)
        BY <2>3
    <2>5. PICK text : text = Text(term, vote, log)
        OBVIOUS
    <2>6. /\ term \in Int /\ vote \in Int /\ log \in Seq(PlainEntry)
          /\ CleanState(term, vote, log) /\ Begins(text, content)
        BY <2>4, <2>5, Zenon DEF SavedBegins, CleanState
    <2>7. Begins(text, buffer)
        <3>1. text \in Seq(Nat)
            BY <2>5, <2>6, TextOfState, Zenon
        <3>2. QED  BY <1>1, <1>2, <1>3, <2>6, <3>1, BeginsOn
    <2>8. ReadsAs(read, term, vote, log)
        BY <1>2, <1>3, <2>5, <2>6, <2>7, SavedIsRead, Zenon
    <2>9. read.term = term /\ read.votedFor = vote
        <3>1. read.outcome # "thrown"
            BY <1>5
        <3>2. QED  BY <2>8, <3>1, Zenon DEF ReadsAs
    <2>10. NoSign(CString(buffer))
        BY <1>1, <1>2, BufferNoSign
    <2>11. read.logs \in Seq(TypedEntry)
        BY <1>2, <1>3, <1>5, <2>10, ReadIsTyped
    <2>12. m_logs \o read.logs \in Seq(TypedEntry)
        <3>1. m_logs \in Seq(TypedEntry)
            BY <1>1, Zenon DEF MemoryTyped
        <3>2. QED  BY <2>11, <3>1, ConcatProperties
    <2>13. MemoryTyped'
        BY <2>1, <2>3, <2>9, <2>12, Zenon DEF MemoryTyped
    <2>14. pc' \in States
        BY <2>1 DEF States
    <2>15. QED  BY <2>13, <2>14
<1>6. QED  BY <1>4, <1>5

(* A node starts, or a running one reads the file back.                    *)
LEMMA StartTyped ==
    ASSUME HarmlessMemory, FileInv, TypeInv, NEW beyond \in Beyond,
           Start(beyond) \/ ReadBack(beyond)
    PROVE  TypeInv'
<1>1. content' = content /\ saved' = saved /\ exists' = exists
    BY DEF Start, ReadBack, history
<1>2. FileTyped' /\ exists' \in BOOLEAN
    BY <1>1, Zenon DEF TypeInv, FileTyped, SavedTyped
<1>3. pc' \in States /\ MemoryTyped'
    <2>1. CASE readRaftState(beyond)
        BY <2>1, ReadsTyped
    <2>2. CASE pc' = "running" /\ UNCHANGED memory
        <3>1. m_curTerm' = m_curTerm /\ m_votedFor' = m_votedFor /\ m_logs' = m_logs
            BY <2>2 DEF memory
        <3>2. MemoryTyped'
            BY <3>1, Zenon DEF MemoryTyped, TypeInv
        <3>3. pc' \in States
            BY <2>2 DEF States
        <3>4. QED  BY <3>2, <3>3
    <2>3. QED  BY <2>1, <2>2, Zenon DEF Start, ReadBack
<1>4. QED  BY <1>2, <1>3, Zenon DEF TypeInv

(* What was whole so far was so before a step, and the step cuts nothing   *)
(* short.                                                                  *)
LEMMA WholeBefore ==
    ASSUME FileInv, [Next]_vars, WritesWhole'
    PROVE  WritesWhole /\ ~WriteShort
<1>1. shorts \in Nat
    BY FileAssumption DEF FileInv
<1>2. ~WriteShort
    <2> SUFFICES ASSUME WriteShort PROVE FALSE
        OBVIOUS
    <2>1. shorts' = shorts + 1 /\ shorts' = 0
        BY DEF WriteShort, WritesWhole
    <2>2. QED  BY <1>1, <2>1
<1>3. shorts' = shorts
    BY <1>2, Zenon DEF Next, Open, Write, Crash, Start, ReadBack, history, vars
<1>4. QED  BY <1>2, <1>3, Zenon DEF WritesWhole

(* So it stays, whatever the node does while writes are whole, when memory *)
(* is harmless.                                                            *)
TypedWhole == WritesWhole => TypeInv
LEMMA TypedAlways == HarmlessMemory => (Spec => [](FileInv /\ TypedWhole))
<1> SUFFICES ASSUME HarmlessMemory PROVE Spec => [](FileInv /\ TypedWhole)
    OBVIOUS
<1>1. ASSUME FileInv, TypedWhole, [Next]_vars PROVE TypedWhole'
    <2> SUFFICES ASSUME WritesWhole' PROVE TypeInv'
        BY Zenon DEF TypedWhole
    <2>0. TypeInv /\ ~WriteShort
        BY <1>1, WholeBefore, Zenon DEF TypedWhole
    <2>1. ASSUME NEW term \in Terms \cup {m_curTerm},
                 NEW vote \in Voted \cup {None, m_votedFor},
                 NEW cut \in 0..Len(m_logs), NEW added \in SeqOf(Entry, MaxAdded),
                 Open(term, vote, cut, added)
          PROVE  TypeInv'
        BY <1>1, <2>1, <2>0, OpenTyped
    <2>2. CASE Write
        BY <1>1, <2>2, <2>0, WriteTyped
    <2>3. CASE Crash
        BY <1>1, <2>3, <2>0, CrashTyped
    <2>4. ASSUME NEW beyond \in Beyond, Start(beyond) \/ ReadBack(beyond)
          PROVE  TypeInv'
        BY <1>1, <2>4, <2>0, StartTyped
    <2>5. CASE UNCHANGED vars
        <3>1. /\ m_curTerm' = m_curTerm /\ m_votedFor' = m_votedFor
              /\ m_logs' = m_logs /\ content' = content /\ saved' = saved
              /\ pc' = pc /\ exists' = exists
            BY <2>5 DEF vars, memory, history
        <3>2. QED
            BY <2>0, <3>1, Zenon
            DEF TypeInv, MemoryTyped, FileTyped, SavedTyped
    <2>6. QED  BY <1>1, <2>0, <2>1, <2>2, <2>3, <2>4, <2>5, Zenon DEF Next
<1>2. Init => TypedWhole
    BY InitTyped, Zenon DEF TypedWhole
<1>3. QED  BY <1>2, FileAlways, <1>1, PTL DEF Spec

-----------------------------------------------------------------------------
(* What holds also after a write() that was cut short: the file begins     *)
(* with a digit, so the term that is read from it has no sign.             *)

(* A number that is not below zero begins with a digit.                    *)
LEMMA FirstDigit ==
    ASSUME NEW n \in Nat
    PROVE  to_string(n) # <<>> /\ to_string(n)[1] \in Digit
<1>1. PICK d : d = Digits(n)
    OBVIOUS
<1>2. d \in Seq(Digit) /\ Len(d) >= 1
    BY <1>1, NumberOfDigits
<1>3. to_string(n) = d
    BY <1>1 DEF to_string
<1>4. d # <<>> /\ d[1] \in Digit
    BY <1>2
<1>5. QED  BY <1>3, <1>4, Zenon

(* What begins a text that goes on.                                        *)
LEMMA FirstStays ==
    ASSUME NEW x \in Seq(Nat), NEW y \in Seq(Nat), x # <<>>,
           NEW z, z = x \o y
    PROVE  z \in Seq(Nat) /\ z # <<>> /\ z[1] = x[1]
<1>1. z \in Seq(Nat) /\ Both(x, y, z)
    BY BothTexts
<1>2. PICK n, m, k : n = Len(x) /\ m = Len(y) /\ k = Len(z)
    OBVIOUS
<1>3. n \in Nat /\ m \in Nat /\ n # 0
    BY <1>2, LenProperties, EmptySeq
<1>4. k = n + m /\ \A i \in 1..n : z[i] = x[i]
    BY <1>1, <1>2, Zenon DEF Both
<1>5. 1 \in 1..n /\ k # 0
    BY <1>3, <1>4
<1>6. z # <<>>
    BY <1>1, <1>2, <1>5, EmptySeq
<1>7. QED  BY <1>1, <1>4, <1>5, <1>6, Zenon

(* So does the text of a state.                                            *)
LEMMA TextDigit ==
    ASSUME NEW term \in Nat, NEW vote \in Int, NEW log \in Seq(PlainEntry)
    PROVE  /\ Text(term, vote, log) \in Seq(Nat)
           /\ Text(term, vote, log) # <<>> /\ Text(term, vote, log)[1] \in Digit
<1>1. PICK text, x, y, z, e : /\ text = Text(term, vote, log) /\ z = Entries(log)
                              /\ x = to_string(term) /\ y = to_string(vote)
                              /\ e = <<Semicolon>>
    OBVIOUS
<1>2. term \in Int
    OBVIOUS
<1>3. PICK front \in Seq(Chars), header \in Seq(Chars) :
        /\ text \in Seq(Chars) /\ x \in Seq(Chars) /\ y \in Seq(Chars)
        /\ z \in Seq(Chars) /\ ThreeTexts(text, x, y, front, header, z)
    BY <1>1, <1>2, TextIs, Zenon
<1>4. /\ front = x \o e /\ header = front \o (y \o e) /\ text = header \o z
    BY <1>1, <1>3, Zenon DEF ThreeTexts
<1>5. \A u \in Seq(Chars) : u \in Seq(Nat)
    BY CharsOfText, SeqMonotonic
<1>6. e \in Seq(Nat)
    BY <1>1 DEF Semicolon
<1>7. x # <<>> /\ x[1] \in Digit
    BY <1>1, FirstDigit
<1>8. y \o e \in Seq(Nat)
    <2>1. y \in Seq(Nat)
        BY <1>3, <1>5, Zenon
    <2>2. QED  BY <1>6, <2>1, ConcatProperties
<1>9. front # <<>> /\ front[1] = x[1]
    <2>1. x \in Seq(Nat)
        BY <1>3, <1>5, Zenon
    <2>2. QED  BY <1>4, <1>6, <1>7, <2>1, FirstStays
<1>10. header # <<>> /\ header[1] = front[1]
    <2>1. front \in Seq(Nat)
        BY <1>3, <1>5, Zenon
    <2>2. QED  BY <1>4, <1>8, <1>9, <2>1, FirstStays
<1>11. text \in Seq(Nat) /\ text # <<>> /\ text[1] = header[1]
    <2>1. header \in Seq(Nat) /\ z \in Seq(Nat)
        BY <1>3, <1>5, Zenon
    <2>2. QED  BY <1>4, <1>10, <2>1, FirstStays
<1>12. QED  BY <1>1, <1>7, <1>9, <1>10, <1>11, Zenon

(* What a file begins with, its first field begins with.                   *)
LEMMA FirstField ==
    ASSUME NEW buffer \in Seq(Nat), buffer # <<>>, buffer[1] \in Digit
    PROVE  Persist(buffer)[1] # <<>> /\ Persist(buffer)[1][1] = buffer[1]
<1>1. PICK c, s, t : c = buffer[1] /\ s = CString(buffer) /\ t = <<c>>
    OBVIOUS
<1>2. c \in Chars /\ c # Semicolon
    BY <1>1 DEF Digit, Zero, Chars, NUL, Semicolon
<1>3. t \in Seq(Chars) /\ Len(t) = 1 /\ t[1] = c
    BY <1>1, <1>2
<1>4. s \in Seq(Chars) /\ Begins(t, s)
    <2>1. Len(buffer) \in Nat /\ Len(buffer) # 0
        BY LenProperties, EmptySeq
    <2>2. Begins(t, buffer)
        <3>1. Len(t) <= Len(buffer)
            BY <1>3, <2>1
        <3>2. \A i \in 1..Len(t) : t[i] = buffer[i]
            BY <1>1, <1>3
        <3>3. QED  BY <3>1, <3>2, Zenon DEF Begins
    <2>3. QED  BY <1>1, <1>3, <2>2, CStringKeeps, Zenon
<1>5. PICK n : n = Len(s) /\ n \in Nat
    BY <1>4, LenProperties
<1>6. n >= 1 /\ s[1] = c
    BY <1>3, <1>4, <1>5 DEF Begins
<1>7. PICK f : /\ Turns(f, s, Semicolon, Chars \ {Semicolon})
               /\ Scan(s, Semicolon) = f[n]
    BY <1>4, <1>5, ScanIs
<1> DEFINE C == Chars \ {Semicolon}
<1>8. /\ f[0] = LoopStart /\ f[1] = Scanned(f[0], s[1], Semicolon)
      /\ f[1] \in Loop(C) /\ f[n] \in Loop(C) /\ Leads(f[1], f[n])
    <2>1. 1 \in 1..n /\ 1 \in 0..n /\ n \in 0..n /\ 1 - 1 = 0
        BY <1>5, <1>6
    <2>2. Leads(f[1], f[n])
        BY <1>4, <1>5, <1>7, <2>1, TurnsLead
    <2>3. QED  BY <1>5, <1>7, <2>1, <2>2, Zenon DEF Turns
<1> HIDE DEF C
<1>9. f[1].parts = <<>> /\ f[1].tmp = t
    <2>1. f[1] = Scanned(LoopStart, c, Semicolon)
        BY <1>6, <1>8, Zenon
    <2>2. f[1] = [LoopStart EXCEPT !.tmp = Append(@, c)]
        BY <1>2, <2>1, Zenon DEF Scanned
    <2>3. Append(<<>>, c) = t
        BY <1>1
    <2>4. QED  BY <2>2, <2>3 DEF LoopStart
<1>10. PICK y, p, u : y = f[n] /\ p = y.parts /\ u = y.tmp
    OBVIOUS
<1>11. p \in Seq(Seq(C)) /\ u \in Seq(C)
    BY <1>8, <1>10, LoopFields
<1>12. Begins(t, PartAt(y, 1))
    <2>1. Begins(f[1].tmp, PartAt(y, Len(f[1].parts) + 1))
        BY <1>8, <1>10, Zenon DEF Leads
    <2>2. Len(<<>>) + 1 = 1
        OBVIOUS
    <2>3. QED  BY <1>9, <2>1, <2>2, Zenon
<1>13. PICK q : q = Append(p, u)
    OBVIOUS
<1>14. q[1] = PartAt(y, 1)
    <2>1. PICK k : k = Len(p)
        OBVIOUS
    <2>2. k \in Nat /\ q[k + 1] = u /\ \A i \in 1..k : q[i] = p[i]
        BY <1>11, <1>13, <2>1, AppendProperties, LenProperties
    <2>3. CASE 1 <= k
        <3>1. 1 \in 1..k
            BY <2>2, <2>3
        <3>2. PartAt(y, 1) = p[1]
            BY <1>10, <2>1, <2>3, Zenon DEF PartAt
        <3>3. QED  BY <2>2, <3>1, <3>2, Zenon
    <2>4. CASE ~(1 <= k)
        <3>1. k = 0 /\ k + 1 = 1
            BY <2>2, <2>4
        <3>2. PartAt(y, 1) = u
            BY <1>10, <2>1, <2>4, Zenon DEF PartAt
        <3>3. QED  BY <2>2, <3>1, <3>2, Zenon
    <2>5. QED  BY <2>3, <2>4
<1>15. PartAt(y, 1) \in Seq(C)
    <2>1. CASE 1 <= Len(p)
        <3>1. 1 \in 1..Len(p)
            BY <1>11, <2>1, LenProperties
        <3>2. p[1] \in Seq(C)
            BY <1>11, <3>1, ElementOfSeq
        <3>3. QED  BY <1>10, <2>1, <3>2, Zenon DEF PartAt
    <2>2. CASE ~(1 <= Len(p))
        BY <1>10, <1>11, <2>2, Zenon DEF PartAt
    <2>3. QED  BY <2>1, <2>2
<1>16. q[1] # <<>> /\ q[1][1] = c
    <2>1. PICK g : g = q[1]
        OBVIOUS
    <2>2. g \in Seq(C) /\ Len(t) <= Len(g) /\ \A i \in 1..Len(t) : t[i] = g[i]
        BY <1>12, <1>14, <1>15, <2>1, Zenon DEF Begins
    <2>3. Len(g) \in Nat /\ 1 \in 1..1
        BY <2>2, LenProperties
    <2>4. g[1] = c
        BY <1>3, <2>2, <2>3, Zenon
    <2>5. g # <<>>
        BY <1>3, <2>2, <2>3
    <2>6. QED  BY <2>1, <2>4, <2>5, Zenon
<1>17. Persist(buffer) = q
    BY <1>1, <1>7, <1>10, <1>13, Zenon DEF Persist, Fields
<1>18. QED  BY <1>1, <1>16, <1>17, Zenon

(* So the file begins, and what is in memory has a term without a sign and *)
(* no more entries than there is room for.                                 *)
LeadingDigit == content # <<>> => content[1] \in Digit
RunInv ==
    /\ pc \in States /\ exists \in BOOLEAN
    /\ m_curTerm \in Nat /\ Len(m_logs) <= MaxLog
    /\ LeadingDigit

(* It is so at the start.                                                  *)
LEMMA InitRuns == Init => RunInv
<1> SUFFICES ASSUME Init PROVE RunInv
    OBVIOUS
<1>1. TypeInv /\ content = <<>>
    BY InitTyped DEF Init
<1>2. m_curTerm \in Nat /\ Len(m_logs) <= MaxLog
    BY <1>1, Zenon DEF TypeInv, MemoryTyped
<1>3. QED  BY <1>1, <1>2, Zenon DEF TypeInv, RunInv, LeadingDigit

(* A save opens the file.                                                  *)
LEMMA OpenRuns ==
    ASSUME FileInv, RunInv, NEW term \in Terms \cup {m_curTerm},
           NEW vote \in Voted \cup {None, m_votedFor},
           NEW cut \in 0..Len(m_logs), NEW added \in SeqOf(Entry, MaxAdded),
           Open(term, vote, cut, added)
    PROVE  RunInv'
<1>1. /\ m_logs \in Seq(PlainEntry) /\ m_curTerm \in Nat /\ LeadingDigit
    BY Zenon DEF FileInv, CleanState, RunInv
<1>2. /\ m_curTerm' = term /\ m_logs' = SubSeq(m_logs, 1, cut) \o added
      /\ content' = content
      /\ cut + Len(added) <= MaxLog /\ pc' = "opened" /\ exists' = TRUE
    BY Zenon DEF Open, Opened
<1>3. added \in Seq(PlainEntry)
    <2>1. PICK m \in 0..MaxAdded : added \in [1..m -> Entry]
        BY DEF SeqOf
    <2>2. m \in Nat
        BY FileAssumption
    <2>3. added \in [1..m -> PlainEntry]
        BY <2>1, EntriesArePlain
    <2>4. QED  BY <2>2, <2>3
<1>4. PICK front, log : front = SubSeq(m_logs, 1, cut) /\ log = front \o added
    OBVIOUS
<1>5. front \in Seq(PlainEntry) /\ Len(front) = cut
    <2>1. PICK n : n = Len(m_logs)
        OBVIOUS
    <2>2. n \in Nat /\ \A i \in 1..n : m_logs[i] \in PlainEntry
        BY <1>1, <2>1, LenProperties, ElementOfSeq
    <2>3. 1 \in Int /\ cut \in Int /\ cut <= n /\ 0 <= cut
        BY <2>1, <2>2
    <2>4. \A i \in 1..cut : m_logs[i] \in PlainEntry
        BY <2>2, <2>3
    <2>5. /\ SubSeq(m_logs, 1, cut) \in Seq(PlainEntry)
          /\ Len(SubSeq(m_logs, 1, cut)) = IF 1 <= cut THEN cut - 1 + 1 ELSE 0
        BY <2>3, <2>4, SubSeqProperties
    <2>6. /\ front \in Seq(PlainEntry)
          /\ Len(front) = IF 1 <= cut THEN cut - 1 + 1 ELSE 0
        BY <1>4, <2>5, Zenon
    <2>7. QED  BY <2>3, <2>6
<1>6. Len(log) <= MaxLog
    <2>1. Both(front, added, log)
        BY <1>3, <1>4, <1>5, BothTexts
    <2>2. Len(log) = cut + Len(added)
        BY <1>5, <2>1, Zenon DEF Both
    <2>3. QED  BY <1>2, <2>2, Zenon
<1>7. term \in Nat
    BY <1>1, FileAssumption
<1>8. LeadingDigit'
    BY <1>1, <1>2, Zenon DEF LeadingDigit
<1>9. pc' \in States /\ exists' \in BOOLEAN
    BY <1>2 DEF States
<1>10. QED  BY <1>2, <1>4, <1>6, <1>7, <1>8, <1>9, Zenon DEF RunInv

(* What is written over it begins as the text of the state does.           *)
LEMMA WrittenDigit ==
    ASSUME FileInv, RunInv, NEW text, text = Text(m_curTerm, m_votedFor, m_logs),
           NEW part \in Seq(Nat), part # <<>>, part[1] = text[1],
           content' = Overwritten(content, part)
    PROVE  LeadingDigit'
<1>1. /\ m_curTerm \in Nat /\ m_votedFor \in Int /\ m_logs \in Seq(PlainEntry)
      /\ content \in Seq(Nat)
    BY Zenon DEF FileInv, CleanState, RunInv
<1>2. part[1] \in Digit
    BY <1>1, TextDigit, Zenon
<1>3. PICK rest : rest = SubSeq(content, Len(part) + 1, Len(content))
    OBVIOUS
<1>4. rest \in Seq(Nat)
    <2>1. Len(part) \in Nat
        BY LenProperties
    <2>2. QED  BY <1>1, <1>3, <2>1, RestIs
<1>5. content' = part \o rest
    BY <1>3, Zenon DEF Overwritten
<1>6. content'[1] = part[1]
    BY <1>4, <1>5, FirstStays
<1>7. QED  BY <1>2, <1>6, Zenon DEF LeadingDigit

(* It writes the state.                                                    *)
LEMMA WriteRuns == ASSUME FileInv, RunInv, Write PROVE RunInv'
<1>1. PICK text : text = Text(m_curTerm, m_votedFor, m_logs)
    OBVIOUS
<1>2. text \in Seq(Nat) /\ text # <<>>
    BY <1>1, TextOfState, Zenon DEF FileInv
<1>3. /\ content' = Overwritten(content, text) /\ UNCHANGED memory
      /\ pc' = "running" /\ exists' = exists
    BY <1>1, Zenon DEF Write
<1>4. m_curTerm' = m_curTerm /\ m_logs' = m_logs
    BY <1>3 DEF memory
<1>5. LeadingDigit'
    BY <1>1, <1>2, <1>3, WrittenDigit
<1>6. pc' \in States
    BY <1>3 DEF States
<1>7. QED  BY <1>3, <1>4, <1>5, <1>6, Zenon DEF RunInv

(* It writes the beginning of it, and the process ends.                    *)
LEMMA ShortRuns == ASSUME FileInv, RunInv, WriteShort PROVE RunInv'
<1>1. PICK text, k : /\ text = Text(m_curTerm, m_votedFor, m_logs)
                     /\ k \in 1..(Len(text) - 1)
                     /\ content' = Overwritten(content, SubSeq(text, 1, k))
    BY DEF WriteShort
<1>2. text \in Seq(Nat)
    BY <1>1, TextOfState, Zenon DEF FileInv
<1>3. PICK part : part = SubSeq(text, 1, k)
    OBVIOUS
<1>4. part \in Seq(Nat) /\ part[1] = text[1] /\ Len(part) = k
    BY <1>1, <1>2, <1>3, PartIs, Zenon
<1>5. part # <<>>
    <2>1. k # 0
        BY <1>1, <1>2, LenProperties
    <2>2. QED  BY <1>4, <2>1, EmptySeq
<1>6. LeadingDigit'
    BY <1>1, <1>3, <1>4, <1>5, WrittenDigit
<1>7. /\ m_curTerm' = 0 /\ m_logs' = <<>> /\ pc' = "down" /\ exists' = exists
    BY DEF WriteShort, Stop
<1>8. 0 \in Nat /\ Len(<<>>) <= MaxLog /\ "down" \in States
    BY FileAssumption DEF States
<1>9. QED  BY <1>6, <1>7, <1>8, Zenon DEF RunInv

(* The process is lost.                                                    *)
LEMMA CrashRuns == ASSUME RunInv, Crash PROVE RunInv'
<1>1. /\ m_curTerm' = 0 /\ m_logs' = <<>> /\ pc' = "down"
      /\ exists' = exists /\ content' = content
    BY DEF Crash, Stop
<1>2. 0 \in Nat /\ Len(<<>>) <= MaxLog /\ "down" \in States
    BY FileAssumption DEF States
<1>3. QED  BY <1>1, <1>2, Zenon DEF RunInv, LeadingDigit

(* It reads the file, whatever was cut short in it: only with harmless     *)
(* memory, since behind an empty file there is nothing else.               *)
LEMMA ReadsRuns ==
    ASSUME HarmlessMemory, FileInv, RunInv, NEW beyond \in Beyond,
           readRaftState(beyond)
    PROVE  pc' \in States /\ m_curTerm' \in Nat /\ Len(m_logs') <= MaxLog
<1>1. PICK buffer, read : buffer = content \o beyond /\ read = deserialize(buffer)
    OBVIOUS
<1>2. content \in Seq(Nat) /\ beyond \in Seq(Nat) /\ buffer \in Seq(Nat)
    BY <1>1, BufferIs, Zenon DEF FileInv
<1>3. CASE read.outcome # "running"
    <2>1. UNCHANGED memory /\ pc' = read.outcome
        BY <1>1, <1>3, Zenon DEF readRaftState
    <2>2. m_curTerm' = m_curTerm /\ m_logs' = m_logs
        BY <2>1 DEF memory
    <2>3. read.outcome \in States
        <3>1. read.outcome \in {"undefined", "thrown", "running"}
            BY <1>1, OutcomeIs
        <3>2. QED  BY <3>1 DEF States
    <2>4. QED  BY <2>1, <2>2, <2>3, Zenon DEF RunInv
<1>4. CASE read.outcome = "running"
    <2>1. /\ m_curTerm' = read.term /\ m_logs' = m_logs \o read.logs
          /\ Len(m_logs \o read.logs) <= MaxLog /\ pc' = "running"
        BY <1>1, <1>4, Zenon DEF readRaftState
    <2>2. content # <<>>
        <3> SUFFICES ASSUME content = <<>> PROVE FALSE
            OBVIOUS
        <3>1. buffer = beyond
            BY <1>1, <1>2, ConcatEmptySeq
        <3>2. read.outcome = "undefined"
            BY <1>1, <3>1, Zenon DEF HarmlessMemory
        <3>3. QED  BY <1>4, <3>2
    <2>3. buffer # <<>> /\ buffer[1] = content[1]
        BY <1>1, <1>2, <2>2, FirstStays
    <2>4. buffer[1] \in Digit
        BY <2>2, <2>3, Zenon DEF RunInv, LeadingDigit
    <2>5. PICK persist, pieces : RunningFrom(buffer, read, persist, pieces)
        BY <1>1, <1>2, <1>4, RunningIs
    <2>6. /\ persist = Persist(buffer) /\ persist \in Seq(Seq(FieldChars))
          /\ Len(persist) >= 3 /\ read.term = atoi(persist[1])
        BY <2>5, Zenon DEF RunningFrom
    <2>7. persist[1] # <<>> /\ persist[1][1] = buffer[1]
        BY <1>2, <2>3, <2>4, <2>6, FirstField
    <2>8. persist[1] \in Seq(Nat)
        <3>1. 1 \in 1..Len(persist)
            BY <2>6, LenProperties
        <3>2. persist[1] \in Seq(FieldChars)
            BY <2>6, <3>1, ElementOfSeq
        <3>3. FieldChars \subseteq Nat
            BY DEF FieldChars, Chars
        <3>4. \A s \in Seq(FieldChars) : s \in Seq(Nat)
            BY <3>3, SeqMonotonic
        <3>5. QED  BY <3>2, <3>4, Zenon
    <2>9. persist[1][1] # Minus
        <3>1. Minus \notin Digit
            BY DEF Minus, Digit, Zero
        <3>2. QED  BY <2>4, <2>7, <3>1, Zenon
    <2>10. atoi(persist[1]) \in Nat
        BY <2>8, <2>9, AtoiNat
    <2>11. "running" \in States
        BY DEF States
    <2>12. QED  BY <2>1, <2>6, <2>10, <2>11, Zenon
<1>5. QED  BY <1>3, <1>4

(* So it stays, whatever is cut short.                                     *)
LEMMA RunsAlways == HarmlessMemory => (Spec => [](FileInv /\ RunInv))
<1> SUFFICES ASSUME HarmlessMemory PROVE Spec => [](FileInv /\ RunInv)
    OBVIOUS
<1>1. ASSUME FileInv, RunInv, [Next]_vars PROVE RunInv'
    <2>1. ASSUME NEW term \in Terms \cup {m_curTerm},
                 NEW vote \in Voted \cup {None, m_votedFor},
                 NEW cut \in 0..Len(m_logs), NEW added \in SeqOf(Entry, MaxAdded),
                 Open(term, vote, cut, added)
          PROVE  RunInv'
        BY <1>1, <2>1, OpenRuns
    <2>2. CASE Write
        BY <1>1, <2>2, WriteRuns
    <2>3. CASE WriteShort
        BY <1>1, <2>3, ShortRuns
    <2>4. CASE Crash
        BY <1>1, <2>4, CrashRuns
    <2>5. ASSUME NEW beyond \in Beyond, Start(beyond) \/ ReadBack(beyond)
          PROVE  RunInv'
        <3>1. content' = content /\ exists' = exists
            BY <2>5 DEF Start, ReadBack
        <3>2. CASE readRaftState(beyond)
            <4>1. pc' \in States /\ m_curTerm' \in Nat /\ Len(m_logs') <= MaxLog
                BY <1>1, <3>2, ReadsRuns
            <4>2. QED  BY <1>1, <3>1, <4>1, Zenon DEF RunInv, LeadingDigit
        <3>3. CASE pc' = "running" /\ UNCHANGED memory
            <4>1. m_curTerm' = m_curTerm /\ m_logs' = m_logs /\ pc' \in States
                BY <3>3 DEF memory, States
            <4>2. QED  BY <1>1, <3>1, <4>1, Zenon DEF RunInv, LeadingDigit
        <3>4. QED  BY <2>5, <3>2, <3>3, Zenon DEF Start, ReadBack
    <2>6. CASE UNCHANGED vars
        <3>1. /\ m_curTerm' = m_curTerm /\ m_logs' = m_logs
              /\ content' = content /\ pc' = pc /\ exists' = exists
            BY <2>6 DEF vars, memory
        <3>2. QED  BY <1>1, <3>1, Zenon DEF RunInv, LeadingDigit
    <2>7. QED
        BY <1>1, <2>1, <2>2, <2>3, <2>4, <2>5, <2>6, Zenon DEF Next
<1>2. QED  BY InitRuns, FileAlways, <1>1, PTL DEF Spec

(* Whatever a node writes, loses and reads back, it has terms, votes and   *)
(* entries in memory, and no more entries than there is room for, if what  *)
(* lies behind the buffer is harmless: only those that were given and had  *)
(* while writes are whole, and some numbers after one was cut short.       *)
THEOREM FileTypes == HarmlessMemory => (Spec => []TypeOK)
<1> SUFFICES ASSUME HarmlessMemory PROVE Spec => []TypeOK
    OBVIOUS
<1>1. ASSUME FileInv, RunInv, TypedWhole PROVE TypeOK
    <2>1. /\ pc \in {"down", "running", "opened", "undefined", "thrown"}
          /\ exists \in BOOLEAN /\ content \in Seq(Nat) /\ shorts \in 0..MaxShort
          /\ m_curTerm \in Nat /\ m_votedFor \in Int /\ Len(m_logs) <= MaxLog
          /\ m_logs \in Seq(PlainEntry)
        BY <1>1, Zenon DEF RunInv, States, FileInv, CleanState
    <2>2. m_logs \in Seq([term : Int, cmd : Seq(Nat)])
        <3>1. \A u \in Seq(Plain) : u \in Seq(Nat)
            BY PlainBetween, SeqMonotonic
        <3>2. PlainEntry \subseteq [term : Int, cmd : Seq(Nat)]
            BY <3>1 DEF PlainEntry
        <3>3. QED  BY <2>1, <3>2, SeqMonotonic
    <2>3. ASSUME WritesWhole
          PROVE  /\ m_votedFor \in Voted \cup {None}
                 /\ \A i \in DOMAIN m_logs : m_logs[i].term \in Nat
        <3>1. m_votedFor \in Voted \cup {None} /\ m_logs \in Seq(TypedEntry)
            BY <1>1, <2>3, Zenon DEF TypedWhole, TypeInv, MemoryTyped
        <3>2. \A i \in DOMAIN m_logs : m_logs[i] \in TypedEntry
            BY <3>1
        <3>3. QED  BY <3>1, <3>2 DEF TypedEntry
    <2>4. QED  BY <2>1, <2>2, <2>3, Zenon DEF TypeOK
<1>2. QED  BY <1>1, TypedAlways, RunsAlways, PTL
-----------------------------------------------------------------------------
(* A file of entries of one width.                                         *)

(* Where the entry i begins, behind a header of h characters and entries   *)
(* of w.                                                                   *)
Place(h, w, i) == h + (i - 1) * w

(* One entry after another.                                                *)
LEMMA PlaceIs ==
    ASSUME NEW h \in Nat, NEW w \in Nat, NEW i \in Nat, i >= 1
    PROVE  /\ Place(h, w, i) \in Nat /\ Place(h, w, i) >= h
           /\ Place(h, w, 1) = h
           /\ Place(h, w, i + 1) = Place(h, w, i) + w
           /\ Place(h, w, i) = h + Place(0, w, i)
           /\ Place(h + 1, w, i) = Place(h, w, i) + 1
<1>1. PICK j : j = i - 1
    OBVIOUS
<1>2. j \in Nat /\ i = j + 1
    BY <1>1
<1>3. j * w \in Nat /\ (j + 1) * w = j * w + w /\ 0 * w = 0
    BY <1>2
<1>4. PICK p : p = j * w
    OBVIOUS
<1>5. /\ Place(h, w, i) = h + p /\ Place(0, w, i) = 0 + p
      /\ Place(h + 1, w, i) = (h + 1) + p
    BY <1>1, <1>4 DEF Place
<1>6. Place(h, w, i + 1) = h + (p + w)
    <2>1. (i + 1) - 1 = j + 1
        BY <1>2
    <2>2. QED  BY <1>3, <1>4, <2>1 DEF Place
<1>7. Place(h, w, 1) = h
    <2>1. 1 - 1 = 0
        OBVIOUS
    <2>2. QED  BY <1>3, <2>1 DEF Place
<1>8. p \in Nat
    BY <1>3, <1>4
<1>9. QED  BY <1>5, <1>6, <1>7, <1>8

(* In this order.                                                          *)
LEMMA PlaceOrder ==
    ASSUME NEW h \in Nat, NEW w \in Nat, NEW i \in Nat, i >= 1,
           NEW j \in Nat, i < j
    PROVE  Place(h, w, i) + w <= Place(h, w, j)
<1>1. PICK k, l : k = i - 1 /\ l = j - i - 1
    OBVIOUS
<1>2. k \in Nat /\ l \in Nat /\ j - 1 = k + (l + 1)
    BY <1>1
<1>3. (k + (l + 1)) * w = k * w + l * w + w
    BY <1>2
<1>4. k * w \in Nat /\ l * w \in Nat
    BY <1>2
<1>5. PICK p, q : p = k * w /\ q = l * w
    OBVIOUS
<1>6. Place(h, w, i) = h + p /\ Place(h, w, j) = h + (p + q + w)
    BY <1>1, <1>2, <1>3, <1>5 DEF Place
<1>7. p \in Nat /\ q \in Nat
    BY <1>4, <1>5
<1>8. QED  BY <1>6, <1>7

(* What comes before the entry i.                                          *)
Sep(i) == IF i = 1 THEN Semicolon ELSE Dot

(* The text of an entry, e, its dot last, behind a characters: where it    *)
(* was written first, if need be with the end of what comes before it in   *)
(* the place of its first character; or where it was written first by a    *)
(* save with a header longer by one, behind the end of what came before.   *)
Cell(s, a, sep, e, w) ==
    \/ /\ a + w <= Len(s) /\ s[a + 1] \in {sep, e[1]}
       /\ \A k \in 2..w : s[a + k] = e[k]
    \/ /\ a + 1 + w <= Len(s) /\ s[a + 1] = sep
       /\ \A k \in 1..w : s[a + 1 + k] = e[k]

Cells(s, h, w, log) ==
    \A i \in 1..Len(log) :
        Cell(s, Place(h, w, i), Sep(i), EntryText(log[i]), w)

(* The file has these, and at most one more character, the end of what     *)
(* came before.                                                            *)
EndsAt(s, p, sep) == Len(s) = p \/ (Len(s) = p + 1 /\ s[p + 1] = sep)

Shape(s, h, w, log) ==
    /\ Cells(s, h, w, log)
    /\ EndsAt(s, Place(h, w, Len(log) + 1), Sep(Len(log) + 1))
    /\ \A p \in (h + 2)..Len(s) : s[p] # Semicolon

(* The entries of a log are of width w.                                    *)
OfWidth(log, w) == \A i \in 1..Len(log) : Len(EntryText(log[i])) = w

(* A text of such entries, all at their places, behind h characters.       *)
Placed(text, h, w, log) ==
    /\ h <= Len(text) /\ Len(text) = Place(h, w, Len(log) + 1)
    /\ \A i \in 1..(Len(log) + 1) : text[Place(h, w, i)] = Sep(i)
    /\ \A i \in 1..Len(log) : \A k \in 1..w :
          text[Place(h, w, i) + k] = EntryText(log[i])[k]
    /\ \A p \in (h + 1)..Len(text) : text[p] # Semicolon

(* The text of an entry: its characters and then a dot, the only one.      *)
EntryChar(e, w) ==
    LET text == EntryText(e) IN
    /\ w \in Nat /\ w >= 2 /\ Len(Bare(e)) = w - 1
    /\ text[w] = Dot
    /\ \A k \in 1..(w - 1) : text[k] = Bare(e)[k] /\ text[k] # Dot
    /\ \A k \in 1..w : text[k] # Semicolon

(* This is so for every entry.                                             *)
LEMMA EntryChars2 ==
    ASSUME NEW e \in PlainEntry, NEW w, w = Len(EntryText(e))
    PROVE  EntryChar(e, w)
<1>1. PICK bare, dot, text : bare = Bare(e) /\ dot = <<Dot>> /\ text = EntryText(e)
    OBVIOUS
<1>2. /\ bare \in Seq(Between) /\ bare # <<>> /\ text = bare \o dot
      /\ text \in Seq(InField)
    BY <1>1, BareIs, Zenon
<1>3. bare \in Seq(InField) /\ dot \in Seq(InField) /\ Len(dot) = 1 /\ dot[1] = Dot
    <2>1. \A b \in Seq(Between) : b \in Seq(InField)
        BY PlainBetween, SeqMonotonic
    <2>2. bare \in Seq(InField)
        BY <1>2, <2>1
    <2>3. QED  BY <1>1, <2>2, PlainBetween
<1>4. PICK l : l = Len(bare)
    OBVIOUS
<1>5. l \in Nat /\ l # 0 /\ \A k \in 1..l : bare[k] \in Between
    BY <1>2, <1>4, LenProperties, ElementOfSeq, EmptySeq
<1>6. Len(text) = l + 1 /\ text[l + 1] = Dot /\ \A k \in 1..l : text[k] = bare[k]
    <2>1. Both(bare, dot, text)
        BY <1>2, <1>3, BothTexts
    <2>2. 1 \in 1..1
        OBVIOUS
    <2>3. QED  BY <1>3, <1>4, <2>1, <2>2, Zenon DEF Both
<1>7. w = l + 1 /\ w \in Nat /\ w >= 2 /\ w - 1 = l
    BY <1>1, <1>5, <1>6
<1>8. \A k \in 1..w : text[k] \in InField
    BY <1>1, <1>2, ElementOfSeq
<1>9. \A k \in 1..w : text[k] # Semicolon
    BY <1>8, CharsOfText
<1>10. \A k \in 1..(w - 1) : text[k] = bare[k] /\ text[k] # Dot
    <2>1. Dot \notin Between
        BY DEF Between
    <2>2. QED  BY <1>5, <1>6, <1>7, <2>1
<1>11. text[w] = Dot /\ Len(bare) = w - 1
    BY <1>4, <1>6, <1>7
<1>12. QED  BY <1>1, <1>7, <1>9, <1>10, <1>11, Zenon DEF EntryChar

(* A term and a vote, each with a semicolon.                               *)
HeadedBy(header, x, y, front) ==
    /\ x \in Seq(Chars) /\ y \in Seq(Chars) /\ x # <<>> /\ y # <<>>
    /\ \A i \in 1..Len(x) : x[i] # Semicolon
    /\ \A i \in 1..Len(y) : y[i] # Semicolon
    /\ front \in Seq(Chars) /\ front = x \o <<Semicolon>>
    /\ header \in Seq(Chars) /\ header = front \o (y \o <<Semicolon>>)

(* A header, and a text that it begins.                                    *)
Heads(header, text, rest) ==
    /\ \E x, y, front : HeadedBy(header, x, y, front)
    /\ Len(header) \in Nat /\ Len(header) >= 1
    /\ header[Len(header)] = Semicolon
    /\ text = header \o rest

(* The header of a file, and what follows.                                 *)
LEMMA HeaderIs ==
    ASSUME NEW term \in Int, NEW vote \in Int, NEW log \in Seq(PlainEntry)
    PROVE  Heads(Header(term, vote), Text(term, vote, log), Entries(log))
<1>0. PICK header : header = Header(term, vote)
    OBVIOUS
<1>1. PICK x, y, e : /\ x = to_string(term) /\ y = to_string(vote)
                     /\ e = <<Semicolon>>
    OBVIOUS
<1>2. x \in Seq(Numeral) /\ y \in Seq(Numeral) /\ x # <<>> /\ y # <<>>
    BY <1>1, NumberComesBack, Zenon
<1>3. x \in Seq(Chars) /\ y \in Seq(Chars) /\ e \in Seq(Chars)
    <2>1. \A w \in Seq(Numeral) : w \in Seq(Chars)
        BY CharsOfText, SeqMonotonic
    <2>2. <<Semicolon>> \in Seq(Chars)
        BY CharsOfText
    <2>3. QED  BY <1>1, <1>2, <2>1, <2>2, Zenon
<1>4. /\ \A i \in 1..Len(x) : x[i] # Semicolon
      /\ \A i \in 1..Len(y) : y[i] # Semicolon
    <2>1. /\ \A i \in 1..Len(x) : x[i] \in Numeral
          /\ \A i \in 1..Len(y) : y[i] \in Numeral
        BY <1>2, ElementOfSeq
    <2>2. QED  BY <2>1, CharsOfText
<1>5. \A u, v \in Seq(Chars) : u \o v \in Seq(Chars)
    BY ConcatProperties
<1>6. PICK front, last : front = x \o e /\ last = y \o e
    OBVIOUS
<1>7. front \in Seq(Chars) /\ last \in Seq(Chars)
    BY <1>3, <1>5, <1>6, Zenon
<1>8. header = front \o last
    <2>1. \A u, v, w \in Seq(Chars) : (u \o v) \o w = u \o (v \o w)
        BY ConcatAssociative
    <2>2. header = (front \o y) \o e
        BY <1>0, <1>1, <1>6, Zenon DEF Header
    <2>3. (front \o y) \o e = front \o (y \o e)
        BY <1>3, <1>7, <2>1, Zenon
    <2>4. front \o (y \o e) = front \o last
        BY <1>6, Zenon
    <2>5. QED  BY <2>2, <2>3, <2>4, Zenon
<1>9. header \in Seq(Chars)
    BY <1>5, <1>7, <1>8, Zenon
<1>10. HeadedBy(header, x, y, front)
    BY <1>1, <1>2, <1>3, <1>4, <1>6, <1>7, <1>8, <1>9, Zenon DEF HeadedBy
<1>11. Both(y, e, last) /\ Both(front, last, header)
    BY <1>3, <1>6, <1>7, <1>8, BothTexts
<1>12. PICK k, l, m, n : k = Len(y) /\ l = Len(last) /\ m = Len(front) /\ n = Len(header)
    OBVIOUS
<1>13. k \in Nat /\ l \in Nat /\ m \in Nat /\ n \in Nat
    BY <1>3, <1>7, <1>9, <1>12, LenProperties
<1>14. Len(e) = 1 /\ e[1] = Semicolon
    BY <1>1
<1>15. l = k + 1 /\ n = m + l /\ last[k + 1] = Semicolon
    <2>1. 1 \in 1..1
        OBVIOUS
    <2>2. QED  BY <1>11, <1>12, <1>14, <2>1, Zenon DEF Both
<1>16. header[m + l] = last[l]
    <2>1. l \in 1..l
        BY <1>13, <1>15
    <2>2. QED  BY <1>11, <1>12, <2>1, Zenon DEF Both
<1>17. header[n] = Semicolon
    <2>1. header[n] = last[l]
        BY <1>15, <1>16, Zenon
    <2>2. last[l] = Semicolon
        BY <1>15, Zenon
    <2>3. QED  BY <2>1, <2>2, Zenon
<1>18. n >= 1
    BY <1>13, <1>15
<1>19. Text(term, vote, log) = header \o Entries(log)
    BY <1>0, Zenon DEF Text
<1>20. QED
    BY <1>0, <1>10, <1>12, <1>13, <1>17, <1>18, <1>19, Zenon DEF Heads

(* How far a text of such entries goes.                                    *)
LEMMA TextPlace ==
    ASSUME NEW log \in Seq(PlainEntry), NEW w \in Nat, OfWidth(log, w),
           NEW n, n = Len(log), NEW t, Texts(t, log, n)
    PROVE  \A i \in Nat : i <= n => Len(t[i]) = Place(0, w, i + 1)
<1>1. n \in Nat
    BY LenProperties
<1> DEFINE T == {i \in Nat : i <= n => Len(t[i]) = Place(0, w, i + 1)}
<1>2. 0 \in T
    <2>1. t[0] = <<>> /\ Len(<<>>) = 0
        BY DEF Texts
    <2>2. Place(0, w, 1) = 0 /\ 0 + 1 = 1
        BY PlaceIs
    <2>3. Len(t[0]) = Place(0, w, 0 + 1)
        BY <2>1, <2>2, Zenon
    <2>4. QED  BY <2>3
<1>3. ASSUME NEW i \in Nat, i \in T PROVE i + 1 \in T
    <2> SUFFICES ASSUME i + 1 <= n PROVE Len(t[i + 1]) = Place(0, w, (i + 1) + 1)
        OBVIOUS
    <2>1. PICK j : j = i + 1
        OBVIOUS
    <2>2. j \in 1..n /\ j - 1 = i /\ i \in 0..n /\ j \in Nat /\ j >= 1
        BY <1>1, <2>1
    <2>3. PICK e : e = EntryText(log[j])
        OBVIOUS
    <2>4. t[j] = t[i] \o e /\ t[i] \in Seq(InField)
        BY <2>2, <2>3, Zenon DEF Texts
    <2>5. e \in Seq(InField) /\ Len(e) = w
        <3>1. log[j] \in PlainEntry
            BY <2>2, ElementOfSeq
        <3>2. Len(EntryText(log[j])) = w
            BY <2>2, Zenon DEF OfWidth
        <3>3. QED  BY <2>3, <3>1, <3>2, BareIs, Zenon
    <2>6. Len(t[i] \o e) = Len(t[i]) + Len(e)
        BY <2>4, <2>5, ConcatProperties
    <2>7. Len(t[i]) = Place(0, w, j)
        BY <1>3, <2>1, <2>2
    <2>8. Place(0, w, j + 1) = Place(0, w, j) + w
        BY <2>2, PlaceIs
    <2>9. Len(t[j]) = Place(0, w, j + 1)
        BY <2>4, <2>5, <2>6, <2>7, <2>8, Zenon
    <2>10. QED  BY <2>1, <2>9, Zenon
<1>4. \A i \in Nat : i \in T
    <2> HIDE DEF T
    <2>1. QED  BY <1>2, <1>3, InductionOn
<1>5. QED  BY <1>4

(* Entries of width w, one behind the other.                               *)
Lined(z, w, log, n) ==
    /\ Len(z) = Place(0, w, n + 1)
    /\ \A i \in 1..n : \A k \in 1..w :
          /\ Place(0, w, i) + k \in 1..Len(z)
          /\ z[Place(0, w, i) + k] = EntryText(log[i])[k]

(* Where the entries are in it.                                            *)
LEMMA EntriesPlaced ==
    ASSUME NEW log \in Seq(PlainEntry), NEW w \in Nat, OfWidth(log, w)
    PROVE  Lined(Entries(log), w, log, Len(log))
<1>0. PICK z, n : z = Entries(log) /\ n = Len(log)
    OBVIOUS
<1>1. PICK t : Texts(t, log, n) /\ z = t[n]
    BY <1>0, TextsOfLog, Zenon
<1>2. n \in Nat
    BY <1>0, LenProperties
<1>3. \A i \in Nat : i <= n => Len(t[i]) = Place(0, w, i + 1)
    BY <1>0, <1>1, TextPlace
<1>4. Len(z) = Place(0, w, n + 1)
    BY <1>1, <1>2, <1>3
<1>5. ASSUME NEW i \in 1..n, NEW k \in 1..w
      PROVE  /\ Place(0, w, i) + k \in 1..Len(z)
             /\ z[Place(0, w, i) + k] = EntryText(log[i])[k]
    <2>1. PICK j, e, y : j = i - 1 /\ e = EntryText(log[i]) /\ y = t[i]
        OBVIOUS
    <2>2. /\ j \in Nat /\ j + 1 = i /\ j \in 0..n /\ i \in Nat /\ i >= 1
          /\ i <= n /\ j <= n /\ i \in 0..n /\ n \in 0..n /\ j = i - 1
        BY <1>2, <2>1
    <2>3. /\ y = t[j] \o e /\ t[j] \in Seq(InField) /\ y \in Seq(InField)
          /\ z \in Seq(InField) /\ Begins(y, z)
        <3>1. /\ t[i] = t[i - 1] \o EntryText(log[i]) /\ t[j] \in Seq(InField)
              /\ t[i] \in Seq(InField) /\ Begins(t[i], t[n]) /\ t[n] \in Seq(InField)
            BY <1>1, <2>2, Zenon DEF Texts
        <3>2. QED  BY <1>1, <2>1, <3>1, Zenon
    <2>4. e \in Seq(InField) /\ Len(e) = w
        <3>1. log[i] \in PlainEntry
            BY <1>0, <2>2, ElementOfSeq
        <3>2. Len(EntryText(log[i])) = w
            BY <1>0, Zenon DEF OfWidth
        <3>3. QED  BY <2>1, <3>1, <3>2, BareIs, Zenon
    <2>5. PICK x, a, l : x = t[j] /\ a = Place(0, w, i) /\ l = Len(y)
        OBVIOUS
    <2>6. Len(x) = a
        BY <1>3, <2>2, <2>5
    <2>7. Both(x, e, y)
        BY <2>3, <2>4, <2>5, BothTexts
    <2>8. l = a + w /\ y[a + k] = e[k]
        BY <2>4, <2>5, <2>6, <2>7, Zenon DEF Both
    <2>9. a \in Nat
        BY <2>2, <2>5, PlaceIs
    <2>10. a + k \in 1..l
        BY <2>8, <2>9
    <2>11. l <= Len(z) /\ z[a + k] = y[a + k]
        BY <2>3, <2>5, <2>10, Zenon DEF Begins
    <2>12. Len(z) \in Nat
        BY <2>3, LenProperties
    <2>13. a + k \in 1..Len(z)
        BY <2>8, <2>9, <2>11, <2>12
    <2>14. QED  BY <2>1, <2>5, <2>8, <2>11, <2>13, Zenon
<1>6. QED  BY <1>0, <1>4, <1>5, Zenon DEF Lined

(* So the text of a state has its entries at their places.                 *)
LEMMA TextPlaced ==
    ASSUME NEW term \in Int, NEW vote \in Int, NEW log \in Seq(PlainEntry),
           NEW w \in Nat, OfWidth(log, w), NEW text, text = Text(term, vote, log),
           NEW h, h = Len(Header(term, vote))
    PROVE  text \in Seq(Chars) /\ h \in Nat /\ h >= 1 /\ Placed(text, h, w, log)
<1>1. PICK header, z, n : /\ header = Header(term, vote) /\ z = Entries(log)
                          /\ n = Len(log)
    OBVIOUS
<1>2. /\ \E x, y, front : HeadedBy(header, x, y, front)
      /\ Len(header) \in Nat /\ Len(header) >= 1
      /\ header[Len(header)] = Semicolon /\ text = header \o z
    <2>1. Heads(Header(term, vote), Text(term, vote, log), Entries(log))
        BY HeaderIs
    <2>2. QED  BY <1>1, <2>1, Zenon DEF Heads
<1>3. header \in Seq(Chars) /\ z \in Seq(Chars) /\ z \in Seq(InField)
    <2>1. header \in Seq(Chars)
        BY <1>2, Zenon DEF HeadedBy
    <2>2. z \in Seq(InField)
        BY <1>1, EntriesText
    <2>3. \A u \in Seq(InField) : u \in Seq(Chars)
        BY CharsOfText, SeqMonotonic
    <2>4. QED  BY <2>1, <2>2, <2>3
<1>4. h \in Nat /\ h >= 1 /\ n \in Nat /\ h = Len(header) /\ header[h] = Semicolon
    <2>1. h = Len(header)
        BY <1>1, Zenon
    <2>2. n \in Nat
        BY <1>1, LenProperties
    <2>3. QED  BY <1>2, <2>1, <2>2, Zenon
<1>5. text \in Seq(Chars) /\ Both(header, z, text)
    BY <1>2, <1>3, BothTexts
<1>6. PICK l, m : l = Len(z) /\ m = Len(text)
    OBVIOUS
<1>7. /\ l \in Nat /\ m = h + l
      /\ \A i \in 1..h : text[i] = header[i]
      /\ \A i \in 1..l : text[h + i] = z[i]
    <2>1. l \in Nat
        BY <1>3, <1>6, LenProperties
    <2>2. QED  BY <1>4, <1>5, <1>6, <2>1, Zenon DEF Both
<1>8. /\ l = Place(0, w, n + 1)
      /\ \A i \in 1..n : \A k \in 1..w :
            /\ Place(0, w, i) + k \in 1..l
            /\ z[Place(0, w, i) + k] = EntryText(log[i])[k]
    <2>1. Lined(Entries(log), w, log, Len(log))
        BY EntriesPlaced
    <2>2. QED  BY <1>1, <1>6, <2>1, Zenon DEF Lined
<1>9. m = Place(h, w, n + 1)
    <2>1. n + 1 \in Nat /\ n + 1 >= 1
        BY <1>4
    <2>2. Place(h, w, n + 1) = h + Place(0, w, n + 1)
        BY <1>4, <2>1, PlaceIs
    <2>3. QED  BY <1>7, <1>8, <2>2
<1>10. ASSUME NEW i \in 1..n, NEW k \in 1..w
       PROVE  text[Place(h, w, i) + k] = EntryText(log[i])[k]
    <2>1. PICK a, b : a = Place(0, w, i) /\ b = Place(h, w, i)
        OBVIOUS
    <2>2. a \in Nat /\ b = h + a
        <3>1. i \in Nat /\ i >= 1 /\ 0 \in Nat
            BY <1>4
        <3>2. Place(0, w, i) \in Nat
            BY <3>1, PlaceIs
        <3>3. Place(h, w, i) = h + Place(0, w, i)
            BY <1>4, <3>1, PlaceIs
        <3>4. QED  BY <2>1, <3>2, <3>3, Zenon
    <2>3. a + k \in 1..l /\ z[a + k] = EntryText(log[i])[k]
        BY <1>8, <2>1, Zenon
    <2>4. b + k = h + (a + k)
        BY <1>4, <2>2
    <2>5. text[h + (a + k)] = z[a + k]
        BY <1>7, <2>3, Zenon
    <2>6. text[b + k] = EntryText(log[i])[k]
        BY <2>3, <2>4, <2>5, Zenon
    <2>7. QED  BY <2>1, <2>6, Zenon
<1>11. ASSUME NEW i \in 1..(n + 1) PROVE text[Place(h, w, i)] = Sep(i)
    <2>1. CASE i = 1
        <3>1. Place(h, w, i) = h /\ h \in 1..h
            BY <1>4, <2>1, PlaceIs
        <3>2. Sep(i) = Semicolon
            BY <2>1 DEF Sep
        <3>3. QED  BY <1>4, <1>7, <3>1, <3>2, Zenon
    <2>2. CASE i # 1
        <3>1. PICK j : j = i - 1
            OBVIOUS
        <3>2. j \in 1..n /\ j \in Nat /\ j >= 1 /\ j + 1 = i
            BY <1>4, <2>2, <3>1
        <3>3. log[j] \in PlainEntry /\ w = Len(EntryText(log[j]))
            BY <1>1, <3>2, ElementOfSeq DEF OfWidth
        <3>4. w >= 2 /\ EntryText(log[j])[w] = Dot
            <4>1. EntryChar(log[j], w)
                BY <3>3, EntryChars2
            <4>2. QED  BY <4>1, Zenon DEF EntryChar
        <3>5. w \in 1..w
            BY <3>4
        <3>6. text[Place(h, w, j) + w] = Dot
            BY <1>10, <3>2, <3>4, <3>5, Zenon
        <3>7. Place(h, w, i) = Place(h, w, j) + w
            <4>1. Place(h, w, j + 1) = Place(h, w, j) + w
                BY <1>4, <3>2, PlaceIs
            <4>2. QED  BY <3>2, <4>1, Zenon
        <3>8. Sep(i) = Dot
            BY <2>2 DEF Sep
        <3>9. QED  BY <3>6, <3>7, <3>8, Zenon
    <2>3. QED  BY <2>1, <2>2
<1>12. ASSUME NEW p \in (h + 1)..m PROVE text[p] # Semicolon
    <2>1. PICK i : i = p - h
        OBVIOUS
    <2>2. i \in 1..l /\ p = h + i
        BY <1>4, <1>7, <2>1
    <2>3. text[p] = z[i]
        BY <1>7, <2>2, Zenon
    <2>4. z[i] \in InField
        BY <1>3, <1>6, <2>2, ElementOfSeq
    <2>5. QED  BY <2>3, <2>4, CharsOfText
<1>13. h <= m
    BY <1>4, <1>7
<1>14. Placed(text, h, w, log)
    BY <1>1, <1>6, <1>9, <1>10, <1>11, <1>12, <1>13, Zenon DEF Placed
<1>15. QED  BY <1>4, <1>5, <1>14

(* Behind t characters a file is the old one.                               *)
Keeps(old, file, t) ==
    Len(old) <= Len(file) /\ \A i \in (t + 1)..Len(file) : file[i] = old[i]

(* A cell that was written before, behind what is written now, or with the *)
(* end of that in its first place.                                         *)
LEMMA CellKept ==
    ASSUME NEW old, NEW file, NEW a \in Nat, NEW sep, NEW e, NEW w \in Nat, w >= 1,
           Len(old) \in Nat, Len(file) \in Nat, NEW t \in Nat, Keeps(old, file, t),
           t <= a \/ (t = a + 1 /\ file[t] = sep),
           Cell(old, a, sep, e, w)
    PROVE  Cell(file, a, sep, e, w)
<1>1. PICK n, m : n = Len(old) /\ m = Len(file)
    OBVIOUS
<1>2. n \in Nat /\ m \in Nat
    BY <1>1
<1>3. n <= m /\ \A i \in (t + 1)..m : file[i] = old[i]
    BY <1>1, Zenon DEF Keeps
<1>4. CASE /\ a + w <= n /\ old[a + 1] \in {sep, e[1]}
           /\ \A k \in 2..w : old[a + k] = e[k]
    <2>1. a + w <= m /\ a + 1 \in 1..m
        BY <1>4, <1>2, <1>3
    <2>2. file[a + 1] \in {sep, e[1]}
        <3>1. CASE t <= a
            <4>1. a + 1 \in (t + 1)..m
                BY <2>1, <3>1
            <4>2. QED  BY <1>4, <1>3, <4>1, Zenon
        <3>2. CASE t = a + 1 /\ file[t] = sep
            BY <3>2
        <3>3. QED  BY <3>1, <3>2
    <2>3. ASSUME NEW k \in 2..w PROVE file[a + k] = e[k]
        <3>1. a + k \in (t + 1)..m
            BY <1>2, <2>1
        <3>2. QED  BY <1>4, <1>3, <3>1, Zenon
    <2>4. QED  BY <1>1, <2>1, <2>2, <2>3, Zenon DEF Cell
<1>5. CASE /\ a + 1 + w <= n /\ old[a + 1] = sep
           /\ \A k \in 1..w : old[a + 1 + k] = e[k]
    <2>1. a + 1 + w <= m /\ a + 1 \in 1..m
        BY <1>5, <1>2, <1>3
    <2>2. file[a + 1] = sep
        <3>1. CASE t <= a
            <4>1. a + 1 \in (t + 1)..m
                BY <2>1, <3>1
            <4>2. QED  BY <1>5, <1>3, <4>1, Zenon
        <3>2. CASE t = a + 1 /\ file[t] = sep
            BY <3>2
        <3>3. QED  BY <3>1, <3>2
    <2>3. ASSUME NEW k \in 1..w PROVE file[a + 1 + k] = e[k]
        <3>1. a + 1 + k \in (t + 1)..m
            BY <1>2, <2>1
        <3>2. QED  BY <1>5, <1>3, <3>1, Zenon
    <2>4. QED  BY <1>1, <2>1, <2>2, <2>3, Zenon DEF Cell
<1>6. QED  BY <1>4, <1>5, <1>1, Zenon DEF Cell

(* A text with its entries at their places, or each one further.           *)
LEMMA CellWritten ==
    ASSUME NEW text, NEW file, NEW h \in Nat, h >= 1, NEW d \in {0, 1},
           NEW w \in Nat, w >= 1, NEW log, Len(log) \in Nat,
           NEW g, g = h + d, Placed(text, g, w, log), Begins(text, file),
           Len(text) \in Nat, Len(file) \in Nat, NEW i \in 1..Len(log)
    PROVE  Cell(file, Place(h, w, i), Sep(i), EntryText(log[i]), w)
<1>1. PICK n, t, m : n = Len(log) /\ t = Len(text) /\ m = Len(file)
    OBVIOUS
<1>2. PICK a, b, e, sep, k, z : /\ a = Place(h, w, i) /\ b = Place(g, w, i)
                                /\ e = EntryText(log[i]) /\ sep = Sep(i)
                                /\ z = Place(g, w, n + 1) /\ k = n + 1
    OBVIOUS
<1>3. /\ n \in Nat /\ t \in Nat /\ m \in Nat /\ i \in 1..n
       /\ t <= m /\ \A j \in 1..t : file[j] = text[j]
    BY <1>1, Zenon DEF Begins
<1>4. i \in Nat /\ i >= 1 /\ k \in Nat /\ i < k /\ g \in Nat
    BY <1>2, <1>3
<1>5. a \in Nat /\ a >= h
    BY <1>2, <1>4, PlaceIs
<1>6. b = a + d
    <2>1. CASE d = 0
        <3>1. g = h
            BY <2>1
        <3>2. QED  BY <1>2, <1>5, <2>1, <3>1
    <2>2. CASE d = 1
        <3>1. Place(h + 1, w, i) = Place(h, w, i) + 1
            BY <1>4, PlaceIs
        <3>2. QED  BY <1>2, <2>2, <3>1, Zenon
    <2>3. QED  BY <2>1, <2>2
<1>7. b + w <= z
    <2>1. Place(g, w, i) + w <= Place(g, w, k)
        BY <1>4, PlaceOrder
    <2>2. QED  BY <1>2, <2>1, Zenon
<1>8. /\ t = z /\ text[b] = sep
      /\ \A j \in 1..w : text[b + j] = e[j]
    <2>1. i \in 1..(n + 1)
        BY <1>4, <1>3
    <2>2. QED  BY <1>1, <1>2, <1>3, <2>1, Zenon DEF Placed
<1>9. b + w <= t /\ b \in 1..t /\ \A j \in 1..w : b + j \in 1..t
    BY <1>5, <1>6, <1>7, <1>8, <1>3
<1>10. file[b] = sep /\ \A j \in 1..w : file[b + j] = e[j]
    BY <1>8, <1>9, <1>3, Zenon
<1>11. Cell(file, a, sep, e, w)
    <2>1. CASE d = 0
        <3>1. b = a /\ a + w <= m /\ 1 \in 1..w
            BY <1>5, <1>6, <1>9, <1>3, <2>1
        <3>2. \A j \in 1..w : file[a + j] = e[j]
            BY <1>10, <3>1, Zenon
        <3>3. file[a + 1] \in {sep, e[1]}
            <4>1. file[a + 1] = e[1]
                BY <3>1, <3>2, Zenon
            <4>2. QED  BY <4>1
        <3>4. \A j \in 2..w : j \in 1..w
            OBVIOUS
        <3>5. QED  BY <1>1, <3>1, <3>2, <3>3, <3>4, Zenon DEF Cell
    <2>2. CASE d = 1
        <3>1. b = a + 1 /\ a + 1 + w <= m
            BY <1>5, <1>6, <1>9, <1>3, <2>2
        <3>2. file[a + 1] = sep /\ \A j \in 1..w : file[a + 1 + j] = e[j]
            BY <1>10, <3>1, Zenon
        <3>3. QED  BY <1>1, <3>1, <3>2, Zenon DEF Cell
    <2>3. QED  BY <2>1, <2>2
<1>12. QED  BY <1>2, <1>11, Zenon

(* The end of a text with n entries and a header longer by d.              *)
Ends(text, h, d, w, n) ==
    /\ Len(text) = Place(h, w, n + 1) + d
    /\ text[Len(text)] = Sep(n + 1)
    /\ Len(text) \in Nat /\ Len(text) >= h + d

(* There a text ends that has its entries at their places.                 *)
LEMMA TextEnd ==
    ASSUME NEW h \in Nat, h >= 1, NEW d \in {0, 1}, NEW w \in Nat,
           NEW g, g = h + d, NEW text, NEW log, Len(log) \in Nat,
           Placed(text, g, w, log)
    PROVE  Ends(text, h, d, w, Len(log))
<1>1. PICK n : n = Len(log)
    OBVIOUS
<1>2. PICK k, z : k = n + 1 /\ z = Place(g, w, k)
    OBVIOUS
<1>3. k \in Nat /\ k >= 1 /\ g \in Nat /\ k \in 1..k
    BY <1>1, <1>2
<1>4. Len(text) = z /\ text[z] = Sep(k)
    BY <1>1, <1>2, <1>3, Zenon DEF Placed
<1>5. z = Place(h, w, k) + d
    <2>1. CASE d = 0
        <3>1. Place(h, w, k) \in Nat
            BY <1>3, PlaceIs
        <3>2. g = h
            BY <2>1
        <3>3. QED  BY <1>2, <2>1, <3>1, <3>2
    <2>2. CASE d = 1
        <3>1. Place(h + 1, w, k) = Place(h, w, k) + 1
            BY <1>3, PlaceIs
        <3>2. QED  BY <1>2, <2>2, <3>1, Zenon
    <2>3. QED  BY <2>1, <2>2
<1>6. z \in Nat /\ z >= g
    <2>1. Place(g, w, k) \in Nat /\ Place(g, w, k) >= g
        BY <1>3, PlaceIs
    <2>2. QED  BY <1>2, <2>1
<1>7. QED  BY <1>1, <1>2, <1>4, <1>5, <1>6, Zenon DEF Ends

(* The entries of a file that is written over.                             *)
LEMMA CellsWritten ==
    ASSUME NEW h \in Nat, h >= 1, NEW d \in {0, 1}, NEW w \in Nat, w >= 1,
           NEW g, g = h + d, NEW text, NEW old, NEW file,
           NEW new, NEW log, NEW both,
           Overlaid(text, old, file), Overlaid(new, log, both),
           Placed(text, g, w, new), Cells(old, h, w, log),
           Len(old) \in Nat, Len(file) \in Nat,
           NEW n \in Nat, n = Len(new), NEW k \in Nat, k = Len(both),
           Len(log) \in Nat
    PROVE  Cells(file, h, w, both)
<1>1. PICK t, l, m : t = Len(text) /\ l = Len(old) /\ m = Len(file)
    OBVIOUS
<1>2. /\ t = Place(h, w, n + 1) + d /\ text[t] = Sep(n + 1)
      /\ t \in Nat /\ l \in Nat /\ m \in Nat /\ t >= h + d
    <2>1. Ends(text, h, d, w, n)
        BY TextEnd
    <2>2. QED  BY <1>1, <2>1, Zenon DEF Ends
<1>3. /\ t <= m /\ l <= m
      /\ \A i \in 1..t : file[i] = text[i]
      /\ \A i \in (t + 1)..m : file[i] = old[i]
    BY <1>1, Zenon DEF Overlaid
<1>4. /\ n <= k /\ k \in {n, Len(log)}
      /\ \A i \in 1..n : both[i] = new[i]
      /\ \A i \in (n + 1)..k : both[i] = log[i]
    BY Zenon DEF Overlaid
<1>5. ASSUME NEW i \in 1..k
      PROVE  Cell(file, Place(h, w, i), Sep(i), EntryText(both[i]), w)
    <2>1. CASE i <= n
        <3>1. i \in 1..n
            BY <2>1
        <3>2. both[i] = new[i]
            BY <1>4, <3>1, Zenon
        <3>3. Cell(file, Place(h, w, i), Sep(i), EntryText(new[i]), w)
            <4>1. Begins(text, file) /\ Len(text) \in Nat
                BY <1>1, <1>2, <1>3, Zenon DEF Begins
            <4>2. QED  BY <3>1, <4>1, CellWritten
        <3>4. QED  BY <3>2, <3>3, Zenon
    <2>2. CASE i > n
        <3>1. i \in (n + 1)..k /\ i \in 1..Len(log)
            BY <1>4, <2>2
        <3>2. both[i] = log[i]
            BY <1>4, <3>1, Zenon
        <3>3. PICK a, e, sep : a = Place(h, w, i) /\ e = EntryText(log[i]) /\ sep = Sep(i)
            OBVIOUS
        <3>4. Cell(old, a, sep, e, w)
            BY <3>1, <3>3, Zenon DEF Cells
        <3>5. a \in Nat
            <4>1. i \in Nat /\ i >= 1
                BY <3>1
            <4>2. Place(h, w, i) \in Nat
                BY <4>1, PlaceIs
            <4>3. QED  BY <3>3, <4>2
        <3>6. t <= a \/ (t = a + 1 /\ file[t] = sep)
            <4>1. CASE i = n + 1
                <5>1. t = a + d
                    BY <1>2, <3>3, <4>1
                <5>2. CASE d = 0
                    BY <3>5, <5>1, <5>2
                <5>3. CASE d = 1
                    <6>1. t = a + 1 /\ t \in 1..t
                        BY <1>2, <3>5, <5>1, <5>3
                    <6>2. file[t] = text[t]
                        BY <1>3, <6>1, Zenon
                    <6>3. sep = Sep(n + 1)
                        BY <3>3, <4>1
                    <6>4. QED  BY <1>2, <6>1, <6>2, <6>3
                <5>4. QED  BY <5>2, <5>3
            <4>2. CASE i # n + 1
                <5>1. n + 1 < i /\ n + 1 \in Nat /\ n + 1 >= 1 /\ i \in Nat
                    BY <2>2, <4>2
                <5>2. Place(h, w, n + 1) + w <= Place(h, w, i)
                    BY <5>1, PlaceOrder
                <5>3. Place(h, w, n + 1) \in Nat
                    BY <5>1, PlaceIs
                <5>4. PICK b : b = Place(h, w, n + 1)
                    OBVIOUS
                <5>5. b \in Nat /\ b + w <= a /\ t = b + d
                    BY <1>2, <3>3, <5>2, <5>3, <5>4
                <5>6. t <= a
                    BY <3>5, <5>5
                <5>7. QED  BY <5>6
            <4>3. QED  BY <4>1, <4>2
        <3>7. Cell(file, a, sep, e, w)
            <4>1. Keeps(old, file, t)
                BY <1>1, <1>3, Zenon DEF Keeps
            <4>2. QED  BY <1>2, <3>4, <3>5, <3>6, <4>1, CellKept
        <3>8. QED  BY <3>2, <3>3, <3>7, Zenon
    <2>3. QED  BY <2>1, <2>2
<1>6. QED  BY <1>5, Zenon DEF Cells

(* Where a file with n entries ends, if anything was written yet.          *)
OldEnd(old, h, w, n) ==
    \/ EndsAt(old, Place(h, w, n + 1), Sep(n + 1))
    \/ Len(old) = 0 /\ n = 0

(* Where the file then ends.                                               *)
LEMMA EndWritten ==
    ASSUME NEW h \in Nat, h >= 1, NEW d \in {0, 1}, NEW w \in Nat, w >= 1,
           NEW g, g = h + d, NEW text, NEW old, NEW file,
           NEW new, NEW log, NEW both,
           Overlaid(text, old, file), Overlaid(new, log, both),
           Placed(text, g, w, new), Len(old) \in Nat, Len(file) \in Nat,
           Len(new) \in Nat, Len(log) \in Nat, Len(both) \in Nat,
           OldEnd(old, h, w, Len(log))
    PROVE  EndsAt(file, Place(h, w, Len(both) + 1), Sep(Len(both) + 1))
<1>1. PICK n, j, k : n = Len(new) /\ j = Len(log) /\ k = Len(both)
    OBVIOUS
<1> SUFFICES EndsAt(file, Place(h, w, k + 1), Sep(k + 1))
    BY <1>1, Zenon
<1>2. n \in Nat /\ j \in Nat /\ k \in Nat /\ OldEnd(old, h, w, j)
    BY <1>1
<1>3. PICK t, l, m, a, b : /\ t = Len(text) /\ l = Len(old) /\ m = Len(file)
                           /\ a = Place(h, w, n + 1) /\ b = Place(h, w, j + 1)
    OBVIOUS
<1>4. /\ t = a + d /\ text[t] = Sep(n + 1)
      /\ t \in Nat /\ l \in Nat /\ m \in Nat /\ t >= h + d
    <2>1. Ends(text, h, d, w, n)
        BY <1>1, <1>2, TextEnd
    <2>2. QED  BY <1>3, <2>1, Zenon DEF Ends
<1>5. /\ t <= m /\ l <= m /\ m \in {t, l}
      /\ \A i \in 1..t : file[i] = text[i]
      /\ \A i \in (t + 1)..m : file[i] = old[i]
    BY <1>3, Zenon DEF Overlaid
<1>6. n <= k /\ j <= k /\ k \in {n, j}
    BY <1>1, Zenon DEF Overlaid
<1>7. a \in Nat /\ b \in Nat /\ b >= h
    <2>1. n + 1 \in Nat /\ n + 1 >= 1 /\ j + 1 \in Nat /\ j + 1 >= 1
        BY <1>2
    <2>2. Place(h, w, n + 1) \in Nat
        BY <2>1, PlaceIs
    <2>3. Place(h, w, j + 1) \in Nat /\ Place(h, w, j + 1) >= h
        BY <2>1, PlaceIs
    <2>4. QED  BY <1>3, <2>2, <2>3, Zenon
<1>8. l = b \/ (l = b + 1 /\ old[l] = Sep(j + 1)) \/ (l = 0 /\ j = 0)
    BY <1>3, <1>2, Zenon DEF OldEnd, EndsAt
<1>9. CASE j <= n
    <2>1. k = n
        BY <1>6, <1>9, <1>2
    <2>2. b <= a /\ (b = a \/ b + w <= a) /\ (b = a => j = n)
        <3>1. CASE j = n
            <4>1. b = a
                BY <1>3, <3>1
            <4>2. QED  BY <1>7, <3>1, <4>1
        <3>2. CASE j # n
            <4>1. j + 1 < n + 1 /\ j + 1 \in Nat /\ j + 1 >= 1 /\ n + 1 \in Nat
                BY <1>9, <1>2, <3>2
            <4>2. Place(h, w, j + 1) + w <= Place(h, w, n + 1)
                BY <4>1, PlaceOrder
            <4>3. b + w <= a
                BY <1>3, <4>2, Zenon
            <4>4. QED  BY <1>7, <4>3
        <3>3. QED  BY <3>1, <3>2
    <2>3. CASE m = t
        <3>1. CASE d = 0
            BY <1>3, <1>4, <1>7, <2>1, <2>3, <3>1 DEF EndsAt
        <3>2. CASE d = 1
            <4>1. m = a + 1 /\ m \in 1..t
                BY <1>4, <1>7, <2>3, <3>2
            <4>2. file[m] = Sep(n + 1)
                BY <1>4, <1>5, <2>3, <4>1, Zenon
            <4>3. file[a + 1] = Sep(n + 1)
                BY <4>1, <4>2, Zenon
            <4>4. QED  BY <1>3, <2>1, <4>1, <4>3, Zenon DEF EndsAt
        <3>3. QED  BY <3>1, <3>2
    <2>4. CASE m # t
        <3>1. m = l /\ l > t
            BY <1>4, <1>5, <2>4
        <3>2. l = b + 1 /\ old[l] = Sep(j + 1) /\ b = a /\ d = 0
            BY <1>4, <1>7, <1>8, <2>2, <3>1
        <3>3. j = n
            BY <2>2, <3>2
        <3>4. m \in (t + 1)..m /\ m = a + 1
            BY <1>4, <3>1, <3>2
        <3>5. file[m] = Sep(n + 1)
            BY <1>5, <3>1, <3>2, <3>3, <3>4, Zenon
        <3>6. file[a + 1] = Sep(n + 1)
            BY <3>4, <3>5, Zenon
        <3>7. QED  BY <1>3, <2>1, <3>4, <3>6, Zenon DEF EndsAt
    <2>5. QED  BY <2>3, <2>4
<1>10. CASE j > n
    <2>1. k = j
        BY <1>6, <1>10, <1>2
    <2>2. a + w <= b
        <3>1. n + 1 < j + 1 /\ j + 1 \in Nat /\ n + 1 >= 1 /\ n + 1 \in Nat
            BY <1>10, <1>2
        <3>2. Place(h, w, n + 1) + w <= Place(h, w, j + 1)
            BY <3>1, PlaceOrder
        <3>3. QED  BY <1>3, <3>2, Zenon
    <2>3. t <= b /\ j # 0
        BY <1>4, <1>7, <1>10, <1>2, <2>2
    <2>4. m = l
        BY <1>4, <1>5, <1>7, <1>8, <2>3
    <2>5. CASE l = b
        BY <1>3, <2>1, <2>4, <2>5, Zenon DEF EndsAt
    <2>6. CASE l = b + 1 /\ old[l] = Sep(j + 1)
        <3>1. m \in (t + 1)..m /\ m = b + 1
            BY <1>4, <1>7, <2>3, <2>4, <2>6
        <3>2. file[m] = Sep(j + 1)
            BY <1>5, <2>4, <2>6, <3>1, Zenon
        <3>3. file[b + 1] = Sep(j + 1)
            BY <3>1, <3>2, Zenon
        <3>4. QED  BY <1>3, <2>1, <3>1, <3>3, Zenon DEF EndsAt
    <2>7. QED  BY <1>8, <2>3, <2>5, <2>6
<1>11. QED  BY <1>2, <1>9, <1>10

(* So a file of entries of one width, with headers of one width or one     *)
(* more, stays of this shape, with the entries that Written() says.        *)
LEMMA ShapeWritten ==
    ASSUME NEW h \in Nat, h >= 1, NEW d \in {0, 1}, NEW w \in Nat, w >= 1,
           NEW g, g = h + d, NEW text, NEW old, NEW file,
           NEW new, NEW log, NEW both,
           Overlaid(text, old, file), Overlaid(new, log, both),
           Placed(text, g, w, new), Len(old) \in Nat, Len(file) \in Nat,
           Len(new) \in Nat, Len(log) \in Nat, Len(both) \in Nat,
           Shape(old, h, w, log) \/ (Len(old) = 0 /\ Len(log) = 0)
    PROVE  Shape(file, h, w, both)
<1>1. Cells(old, h, w, log)
    <2>1. CASE Shape(old, h, w, log)
        BY <2>1, Zenon DEF Shape
    <2>2. CASE Len(old) = 0 /\ Len(log) = 0
        <3>1. 1..Len(log) = {}
            BY <2>2
        <3>2. QED  BY <3>1 DEF Cells
    <2>3. QED  BY <2>1, <2>2
<1>2. Cells(file, h, w, both)
    BY <1>1, CellsWritten
<1>3. EndsAt(file, Place(h, w, Len(both) + 1), Sep(Len(both) + 1))
    <2>1. OldEnd(old, h, w, Len(log))
        BY Zenon DEF Shape, OldEnd
    <2>2. QED  BY <2>1, EndWritten
<1>4. PICK t, l, m : t = Len(text) /\ l = Len(old) /\ m = Len(file)
    OBVIOUS
<1>5. ASSUME NEW p \in (h + 2)..m PROVE file[p] # Semicolon
    <2>1. t \in Nat /\ l \in Nat /\ m \in Nat
        <3>1. Ends(text, h, d, w, Len(new))
            BY TextEnd
        <3>2. QED  BY <1>4, <3>1, Zenon DEF Ends
    <2>2. /\ t <= m /\ l <= m /\ m \in {t, l}
          /\ \A i \in 1..t : file[i] = text[i]
          /\ \A i \in (t + 1)..m : file[i] = old[i]
        BY <1>4, Zenon DEF Overlaid
    <2>3. CASE p <= t
        <3>1. p \in 1..t /\ p \in (g + 1)..t
            BY <2>3
        <3>2. text[p] # Semicolon
            BY <1>4, <3>1, Zenon DEF Placed
        <3>3. QED  BY <2>2, <3>1, <3>2, Zenon
    <2>4. CASE p > t
        <3>1. p \in (t + 1)..m /\ p \in (h + 2)..l /\ l # 0
            BY <2>1, <2>2, <2>4
        <3>2. Shape(old, h, w, log)
            BY <1>4, <3>1
        <3>3. old[p] # Semicolon
            BY <1>4, <3>1, <3>2, Zenon DEF Shape
        <3>4. QED  BY <2>2, <3>1, <3>3, Zenon
    <2>5. QED  BY <2>1, <2>3, <2>4
<1>6. QED  BY <1>2, <1>3, <1>4, <1>5, Zenon DEF Shape
-----------------------------------------------------------------------------
(* Such a file, read.                                                      *)

(* What ends a part changes nothing where no part has begun.               *)
LEMMA EmptyTurn ==
    ASSUME NEW s, Len(s) \in Nat, NEW C, NEW ends, NEW f, Turns(f, s, ends, C),
           NEW a \in Nat, a + 1 <= Len(s), s[a + 1] = ends, f[a].tmp = <<>>
    PROVE  f[a + 1] = f[a]
<1>1. PICK b : b = a + 1
    OBVIOUS
<1>2. b \in 1..Len(s) /\ a \in 0..Len(s) /\ b - 1 = a
    BY <1>1
<1>3. f[b] = Scanned(f[a], s[b], ends) /\ f[a] \in Loop(C)
    BY <1>2, Zenon DEF Turns
<1>4. PICK x, char, parts : x = f[a] /\ char = s[b] /\ parts = x.parts
    OBVIOUS
<1>5. x \in Loop(C) /\ char = ends /\ x.tmp = <<>>
    BY <1>1, <1>3, <1>4, Zenon
<1>6. Scanned(x, char, ends) = [parts |-> Pushed(x.parts, x.tmp), tmp |-> <<>>]
    BY <1>5, TurnIs
<1>7. Pushed(x.parts, x.tmp) = x.parts
    BY <1>5, Zenon DEF Pushed
<1>8. x = [parts |-> x.parts, tmp |-> x.tmp]
    BY <1>5, LoopFields
<1>9. Scanned(x, char, ends) = x
    BY <1>5, <1>6, <1>7, <1>8, Zenon
<1>10. QED  BY <1>1, <1>3, <1>4, <1>9, Zenon

(* Two parts are read and a third has not begun, and a file has no more    *)
(* semicolons.                                                             *)
ThirdFrom(f, s, h, o) ==
    /\ o \in Nat /\ o \in {h, h + 1} /\ o <= Len(s)
    /\ f[o].tmp = <<>> /\ Len(f[o].parts) = 2
    /\ \A p \in (o + 1)..Len(s) : s[p] # Semicolon

(* This is so behind the header, or one behind it, where the header of an  *)
(* older save ended.                                                       *)
LEMMA ThirdBegins ==
    ASSUME NEW s, Len(s) \in Nat, NEW t, Len(t) \in Nat, Begins(s, t),
           NEW f, NEW C, Turns(f, t, Semicolon, C),
           NEW h \in Nat, h >= 1, NEW d \in {0, 1}, NEW g, g = h + d,
           NEW x, NEW y, TwoRead(f[g], x, y), g <= Len(s),
           \A p \in (h + 2)..Len(s) : s[p] # Semicolon
    PROVE  \E o : ThirdFrom(f, s, h, o)
<1>1. PICK m : m = Len(s)
    OBVIOUS
<1>2. m \in Nat /\ m <= Len(t) /\ \A i \in 1..m : s[i] = t[i]
    BY <1>1, Zenon DEF Begins
<1>3. f[g].tmp = <<>> /\ Len(f[g].parts) = 2
    BY Zenon DEF TwoRead
<1>4. CASE d = 1
    <2>1. g = h + 1 /\ (h + 1) + 1 = h + 2 /\ g \in Nat
        BY <1>4
    <2>2. \A p \in (g + 1)..Len(s) : s[p] # Semicolon
        BY <2>1, Zenon
    <2>3. ThirdFrom(f, s, h, g)
        BY <1>3, <2>1, <2>2, Zenon DEF ThirdFrom
    <2>4. QED  BY <2>3
<1>5. CASE d = 0 /\ h + 1 <= m /\ s[h + 1] = Semicolon
    <2>1. PICK o : o = h + 1
        OBVIOUS
    <2>2. g = h /\ o \in Nat /\ o \in 1..m /\ o <= Len(t) /\ o + 1 = h + 2
        BY <1>2, <1>5, <2>1
    <2>3. t[h + 1] = Semicolon
        BY <1>2, <1>5, <2>1, <2>2, Zenon
    <2>4. f[h + 1] = f[h]
        <3>1. h + 1 <= Len(t) /\ f[h].tmp = <<>>
            BY <1>3, <2>1, <2>2
        <3>2. QED  BY <2>3, <3>1, EmptyTurn
    <2>5. f[o].tmp = <<>> /\ Len(f[o].parts) = 2
        BY <1>3, <2>1, <2>2, <2>4, Zenon
    <2>6. o <= Len(s)
        BY <1>1, <1>5, <2>1
    <2>7. \A p \in (o + 1)..Len(s) : s[p] # Semicolon
        BY <2>2, Zenon
    <2>8. o \in {h, h + 1}
        BY <2>1
    <2>9. ThirdFrom(f, s, h, o)
        BY <2>2, <2>5, <2>6, <2>7, <2>8, Zenon DEF ThirdFrom
    <2>10. QED  BY <2>9
<1>6. CASE d = 0 /\ ~(h + 1 <= m /\ s[h + 1] = Semicolon)
    <2>1. g = h
        BY <1>6
    <2>2. ASSUME NEW p \in (h + 1)..m PROVE s[p] # Semicolon
        <3>1. CASE p = h + 1
            <4>1. h + 1 <= m
                BY <2>2, <3>1
            <4>2. QED  BY <1>6, <3>1, <4>1
        <3>2. CASE p # h + 1
            <4>1. p \in (h + 2)..m
                BY <1>2, <3>2
            <4>2. QED  BY <1>1, <4>1
        <3>3. QED  BY <3>1, <3>2
    <2>3. ThirdFrom(f, s, h, h)
        <3>1. h \in {h, h + 1}
            OBVIOUS
        <3>2. QED  BY <1>1, <1>3, <2>1, <2>2, <3>1, Zenon DEF ThirdFrom
    <2>4. QED  BY <2>3
<1>7. QED  BY <1>4, <1>5, <1>6

(* What comes after a file, t, is the file's third part, q, and then q has *)
(* no semicolon.                                                           *)
Third(t, m, o, q, a, b) ==
    /\ a \in Nat /\ b \in Nat /\ a <= b /\ m <= b /\ b <= Len(t)
    /\ a = o \/ (a > o /\ o = m /\ t[a] = Semicolon)
    /\ Len(q) = b - a
    /\ \A i \in 1..(b - a) : q[i] = t[a + i] /\ q[i] # Semicolon

(* The third of the parts of deserialize().                                *)
LEMMA ThirdIs ==
    ASSUME NEW C, NEW w \in Loop(C), Len(w.parts) >= 2
    PROVE  /\ Len(Append(w.parts, w.tmp)) >= 3
           /\ Append(w.parts, w.tmp)[3] = PartAt(w, 3)
<1>1. PICK p, z : p = w.parts /\ z = w.tmp
    OBVIOUS
<1>2. p \in Seq(Seq(C)) /\ z \in Seq(C)
    BY <1>1, LoopFields
<1>3. PICK n : n = Len(p)
    OBVIOUS
<1>4. n \in Nat /\ n >= 2
    BY <1>1, <1>2, <1>3, LenProperties
<1>5. /\ Len(Append(p, z)) = n + 1 /\ Append(p, z)[n + 1] = z
      /\ \A i \in 1..n : Append(p, z)[i] = p[i]
    BY <1>2, <1>3, AppendProperties
<1>6. CASE n >= 3
    <2>1. 3 \in 1..n
        BY <1>4, <1>6
    <2>2. Append(p, z)[3] = p[3]
        BY <1>5, <2>1, Zenon
    <2>3. 3 <= Len(p)
        BY <1>3, <1>6, <1>4
    <2>4. PartAt(w, 3) = p[3]
        BY <1>1, <2>3, Zenon DEF PartAt
    <2>5. Len(Append(p, z)) >= 3
        BY <1>4, <1>5
    <2>6. QED  BY <1>1, <2>2, <2>4, <2>5, Zenon
<1>7. CASE n < 3
    <2>1. n + 1 = 3 /\ ~(3 <= Len(p)) /\ 3 >= 3
        BY <1>3, <1>4, <1>7
    <2>2. Append(p, z)[3] = z /\ Len(Append(p, z)) >= 3
        BY <1>5, <2>1, Zenon
    <2>3. PartAt(w, 3) = z
        BY <1>1, <2>1, Zenon DEF PartAt
    <2>4. QED  BY <1>1, <2>2, <2>3, Zenon
<1>8. QED  BY <1>4, <1>6, <1>7

(* It takes all of the file from o on, or begins only behind it.           *)
LEMMA ThirdCut ==
    ASSUME NEW S, NEW t \in Seq(S), NEW s, Len(s) \in Nat, Begins(s, t),
           NEW f, Turns(f, t, Semicolon, S \ {Semicolon}),
           NEW h \in Nat, NEW o, ThirdFrom(f, s, h, o)
    PROVE  /\ Len(f[Len(t)].parts) >= 2
           /\ \E a, b : Third(t, Len(s), o, PartAt(f[Len(t)], 3), a, b)
<1>1. PICK m, l, w, q : m = Len(s) /\ l = Len(t) /\ w = f[l] /\ q = PartAt(w, 3)
    OBVIOUS
<1>2. m \in Nat /\ l \in Nat /\ m <= l /\ \A i \in 1..m : t[i] = s[i]
    BY <1>1, LenProperties DEF Begins
<1>3. /\ o \in Nat /\ o <= m /\ f[o].tmp = <<>> /\ Len(f[o].parts) = 2
      /\ \A p \in (o + 1)..m : s[p] # Semicolon
    BY <1>1, Zenon DEF ThirdFrom
<1>4. AllCut(t, Semicolon, o, 2, w, l)
    <2>1. o \in 0..Len(t)
        BY <1>1, <1>2, <1>3
    <2>2. AllCut(t, Semicolon, o, Len(f[o].parts), f[Len(t)], Len(t))
        BY <1>3, <2>1, TurnsCut
    <2>3. QED  BY <1>1, <1>3, <2>2, Zenon
<1>5. /\ 2 <= Len(w.parts) /\ PartsAreCut(t, Semicolon, o, 2, w)
      /\ TmpIsCut(t, Semicolon, o, 2, w, l)
    BY <1>4, Zenon DEF AllCut
<1>6. Len(w.parts) \in Nat
    <2>1. l \in 0..Len(t)
        BY <1>1, <1>2
    <2>2. w \in Loop(S \ {Semicolon})
        BY <1>1, <2>1, Zenon DEF Turns
    <2>3. QED  BY <2>2, LoopFields, LenProperties
<1>7. \E a, b \in Nat : /\ Cut(t, Semicolon, o, q, a, b) /\ OnlyEnds(t, Semicolon, o, a)
                        /\ b = l \/ (b < l /\ t[b + 1] = Semicolon)
    <2>1. CASE Len(w.parts) >= 3
        <3>1. 3 \in (2 + 1)..Len(w.parts) /\ 3 = 2 + 1 /\ 3 <= Len(w.parts)
            BY <1>6, <2>1
        <3>2. q = w.parts[3]
            BY <1>1, <3>1, Zenon DEF PartAt
        <3>3. PartIsCut(t, Semicolon, o, 2, w, 3)
            BY <1>5, <3>1, Zenon DEF PartsAreCut
        <3>4. PICK a \in Nat, b \in Nat : /\ EndedCut(t, Semicolon, o, q, a, b)
                                          /\ OnlyEnds(t, Semicolon, o, a)
            BY <3>1, <3>2, <3>3, Zenon DEF PartIsCut
        <3>5. Cut(t, Semicolon, o, q, a, b) /\ b < l /\ t[b + 1] = Semicolon
            BY <1>1, <3>4, Zenon DEF EndedCut
        <3>6. QED  BY <3>4, <3>5, Zenon
    <2>2. CASE Len(w.parts) < 3
        <3>1. Len(w.parts) = 2 /\ ~(3 <= Len(w.parts))
            <4>1. PICK k : k = Len(w.parts)
                OBVIOUS
            <4>2. 2 <= k /\ k \in Nat /\ k < 3
                BY <1>5, <1>6, <2>2, <4>1, Zenon
            <4>3. k = 2 /\ ~(3 <= k)
                BY <4>2
            <4>4. QED  BY <4>1, <4>3, Zenon
        <3>2. q = w.tmp
            BY <1>1, <3>1, Zenon DEF PartAt
        <3>3. PICK a \in Nat : /\ Cut(t, Semicolon, o, q, a, l)
                               /\ OnlyEnds(t, Semicolon, o, a)
            BY <1>5, <3>1, <3>2, Zenon DEF TmpIsCut
        <3>4. QED  BY <1>2, <3>3, Zenon
    <2>3. QED  BY <1>6, <2>1, <2>2
<1>8. PICK a \in Nat, b \in Nat :
        /\ Cut(t, Semicolon, o, q, a, b) /\ OnlyEnds(t, Semicolon, o, a)
        /\ b = l \/ (b < l /\ t[b + 1] = Semicolon)
    BY <1>7
<1>9. /\ o <= a /\ a <= b /\ b <= l /\ Len(q) = b - a
      /\ \A i \in 1..(b - a) : q[i] = t[a + i]
      /\ \A i \in 1..(b - a) : q[i] # Semicolon
      /\ \A j \in (o + 1)..a : t[j] = Semicolon
    BY <1>1, <1>8, Zenon DEF Cut, OnlyEnds
<1>10. m <= b
    <2> SUFFICES ASSUME b < m PROVE FALSE
        BY <1>2, <1>8
    <2>1. b < l /\ b + 1 \in (o + 1)..m /\ b + 1 \in 1..m
        BY <1>2, <1>3, <1>9
    <2>2. t[b + 1] = Semicolon
        BY <1>8, <2>1
    <2>3. s[b + 1] # Semicolon /\ t[b + 1] = s[b + 1]
        BY <1>2, <1>3, <2>1, Zenon
    <2>4. QED  BY <2>2, <2>3
<1>11. a = o \/ (a > o /\ o = m /\ t[a] = Semicolon)
    <2> SUFFICES ASSUME a # o PROVE a > o /\ o = m /\ t[a] = Semicolon
        OBVIOUS
    <2>1. a > o /\ a \in (o + 1)..a /\ o + 1 \in (o + 1)..a
        BY <1>3, <1>9
    <2>2. t[a] = Semicolon /\ t[o + 1] = Semicolon
        BY <1>9, <2>1, Zenon
    <2>3. CASE o < m
        <3>1. o + 1 \in (o + 1)..m /\ o + 1 \in 1..m
            BY <1>2, <1>3, <2>3
        <3>2. s[o + 1] # Semicolon /\ t[o + 1] = s[o + 1]
            BY <1>2, <1>3, <3>1, Zenon
        <3>3. QED  BY <2>2, <3>2
    <2>4. QED  BY <1>2, <1>3, <2>1, <2>2, <2>3
<1>12. Third(t, m, o, q, a, b)
    BY <1>1, <1>9, <1>10, <1>11, Zenon DEF Third
<1>13. Len(w.parts) >= 2
    BY <1>5, <1>6
<1>14. QED  BY <1>1, <1>12, <1>13, Zenon

(* An entry whose command has lost its first character.                    *)
Short(e) == [term |-> e.term, cmd |-> Tail(e.cmd)]

(* What is left is an entry, and its text is the rest of the text.         *)
LEMMA ShortIs ==
    ASSUME NEW e \in PlainEntry, e.cmd # <<>>,
           NEW w, w = Len(EntryText(e))
    PROVE  /\ Short(e) \in PlainEntry
           /\ Len(EntryText(Short(e))) = w - 1
           /\ \A k \in 1..(w - 1) : EntryText(Short(e))[k] = EntryText(e)[k + 1]
<1>1. PICK cmd, rest, head, short : /\ cmd = e.cmd /\ rest = Tail(cmd)
                                    /\ head = <<Head(cmd)>> /\ short = Short(e)
    OBVIOUS
<1>2. cmd \in Seq(Plain) /\ e.term \in Int /\ cmd # <<>>
    BY <1>1 DEF PlainEntry
<1>3. /\ Head(cmd) \in Plain /\ rest \in Seq(Plain) /\ Len(rest) = Len(cmd) - 1
      /\ \A i \in 1..Len(rest) : rest[i] = cmd[i + 1]
    BY <1>1, <1>2, HeadTailProperties
<1>4. short.term = e.term /\ short.cmd = rest /\ short \in PlainEntry
    <2>1. short = [term |-> e.term, cmd |-> rest]
        BY <1>1, Zenon DEF Short
    <2>2. QED  BY <1>2, <1>3, <2>1 DEF PlainEntry
<1>5. head \in Seq(Plain) /\ Len(head) = 1 /\ head[1] = cmd[1]
    <2>1. head \in Seq(Plain) /\ Len(head) = 1 /\ head[1] = Head(cmd)
        BY <1>1, <1>3
    <2>2. Head(cmd) = cmd[1]
        BY <1>2
    <2>3. QED  BY <2>1, <2>2, Zenon
<1>6. cmd = head \o rest
    <2>1. PICK z : z = head \o rest
        OBVIOUS
    <2>2. z \in Seq(Plain) /\ Both(head, rest, z)
        BY <1>3, <1>5, <2>1, BothTexts
    <2>3. PICK l, n : l = Len(rest) /\ n = Len(cmd)
        OBVIOUS
    <2>4. n \in Nat /\ l \in Nat /\ n = l + 1
        BY <1>2, <1>3, <2>3, LenProperties
    <2>5. /\ Len(z) = 1 + l /\ z[1] = cmd[1]
          /\ \A i \in 1..l : z[1 + i] = rest[i]
        <3>1. 1 \in 1..1
            OBVIOUS
        <3>2. QED  BY <1>5, <2>2, <2>3, <3>1, Zenon DEF Both
    <2>6. ASSUME NEW i \in 1..n PROVE z[i] = cmd[i]
        <3>1. CASE i = 1
            BY <2>5, <3>1
        <3>2. CASE i # 1
            <4>1. PICK j : j = i - 1
                OBVIOUS
            <4>2. j \in 1..l /\ 1 + j = i /\ j + 1 = i
                BY <2>4, <3>2, <4>1
            <4>3. z[i] = rest[j]
                BY <2>5, <4>2, Zenon
            <4>4. rest[j] = cmd[i]
                BY <1>3, <2>3, <4>2, Zenon
            <4>5. QED  BY <4>3, <4>4
        <3>3. QED  BY <3>1, <3>2
    <2>7. Len(z) = n
        BY <2>4, <2>5
    <2>8. z = cmd
        BY <1>2, <2>2, <2>3, <2>6, <2>7, SeqEqual
    <2>9. QED  BY <2>1, <2>8, Zenon
<1>7. PICK comma, number, dot : /\ comma = <<Comma>> /\ number = to_string(e.term)
                                /\ dot = <<Dot>>
    OBVIOUS
<1>8. /\ comma \in Seq(InField) /\ number \in Seq(InField) /\ dot \in Seq(InField)
      /\ head \in Seq(InField) /\ rest \in Seq(InField)
    <2>1. number \in Seq(Numeral)
        BY <1>2, <1>7, NumberComesBack
    <2>2. <<Comma>> \in Seq(InField) /\ <<Dot>> \in Seq(InField)
        BY PlainBetween
    <2>3. \A u \in Seq(Plain) : u \in Seq(InField)
        BY PlainBetween, SeqMonotonic
    <2>4. \A u \in Seq(Numeral) : u \in Seq(Plain)
        BY NumeralsPlain, SeqMonotonic
    <2>5. QED  BY <1>3, <1>5, <1>7, <2>1, <2>2, <2>3, <2>4, Zenon
<1>9. /\ \A u, v \in Seq(InField) : u \o v \in Seq(InField)
      /\ \A u, v, x \in Seq(InField) : (u \o v) \o x = u \o (v \o x)
    BY ConcatProperties, ConcatAssociative
<1>10. EntryText(e) = ((cmd \o comma) \o number) \o dot
    BY <1>1, <1>7, Zenon DEF EntryText
<1>11. EntryText(short) = ((rest \o comma) \o number) \o dot
    BY <1>4, <1>7, Zenon DEF EntryText
<1>12. PICK x, y : x = rest \o comma /\ y = x \o number
    OBVIOUS
<1>13. x \in Seq(InField) /\ y \in Seq(InField)
    BY <1>8, <1>9, <1>12, Zenon
<1>14. cmd \o comma = head \o x
    BY <1>6, <1>8, <1>9, <1>12, Zenon
<1>15. (head \o x) \o number = head \o y
    <2>1. \A u, v, z \in Seq(InField) : (u \o v) \o z = u \o (v \o z)
        BY <1>9, Zenon
    <2>2. (head \o x) \o number = head \o (x \o number)
        BY <1>8, <1>13, <2>1, Zenon
    <2>3. QED  BY <1>12, <2>2, Zenon
<1>16. (head \o y) \o dot = head \o (y \o dot)
    <2>1. \A u, v, z \in Seq(InField) : (u \o v) \o z = u \o (v \o z)
        BY <1>9, Zenon
    <2>2. QED  BY <1>8, <1>13, <2>1, Zenon
<1>17. PICK text, left : text = EntryText(e) /\ left = EntryText(short)
    OBVIOUS
<1>18. left = y \o dot /\ text = head \o left
    BY <1>10, <1>11, <1>12, <1>14, <1>15, <1>16, <1>17, Zenon
<1>19. left \in Seq(InField)
    BY <1>8, <1>9, <1>13, <1>18, Zenon
<1>20. Both(head, left, text)
    BY <1>8, <1>18, <1>19, BothTexts
<1>21. PICK n : n = Len(left)
    OBVIOUS
<1>22. n \in Nat /\ w = 1 + n /\ \A i \in 1..n : text[1 + i] = left[i]
    <2>1. n \in Nat
        BY <1>19, <1>21, LenProperties
    <2>2. QED  BY <1>5, <1>17, <1>20, <1>21, <2>1, Zenon DEF Both
<1>23. n = w - 1 /\ \A k \in 1..(w - 1) : left[k] = text[k + 1]
    <2>1. n = w - 1
        BY <1>22
    <2>2. \A k \in 1..n : 1 + k = k + 1
        BY <1>22
    <2>3. \A k \in 1..n : left[k] = text[k + 1]
        BY <1>22, <2>2, Zenon
    <2>4. QED  BY <2>1, <2>3, Zenon
<1>24. QED  BY <1>1, <1>4, <1>17, <1>21, <1>23, Zenon

(* A text has what a file has behind o characters.                         *)
Over(q, s, o) ==
    /\ Len(s) - o <= Len(q)
    /\ \A j \in 1..(Len(s) - o) : q[j] = s[o + j]

(* An entry of a file, taken by the loop that dots end.                    *)
LEMMA EntryTaken ==
    ASSUME NEW S, NEW q \in Seq(S), NEW C, NEW g, Turns(g, q, Dot, C),
           NEW s, Len(s) \in Nat, NEW o \in Nat, Over(q, s, o),
           NEW a \in Nat, o <= a, NEW e \in PlainEntry,
           NEW w, w = Len(EntryText(e)), a + w <= Len(s),
           \A k \in 1..w : s[a + k] = EntryText(e)[k], g[a - o].tmp = <<>>
    PROVE  PartAdded(g[a - o], g[(a + w) - o], Bare(e))
<1>1. PICK m, c, bare, text, l : /\ m = Len(s) /\ c = a - o /\ bare = Bare(e)
                                 /\ text = EntryText(e) /\ l = Len(q)
    OBVIOUS
<1>2. /\ w \in Nat /\ w >= 2 /\ Len(bare) = w - 1 /\ text[w] = Dot
      /\ \A k \in 1..(w - 1) : text[k] = bare[k] /\ text[k] # Dot
    <2>1. EntryChar(e, w)
        BY EntryChars2
    <2>2. QED  BY <1>1, <2>1, Zenon DEF EntryChar
<1>3. /\ m - o <= l /\ \A j \in 1..(m - o) : q[j] = s[o + j]
      /\ \A k \in 1..w : s[a + k] = text[k]
    BY <1>1, Zenon DEF Over
<1>4. m \in Nat /\ l \in Nat /\ c \in Nat /\ a = o + c /\ a + w <= m
    BY <1>1, LenProperties
<1>5. ASSUME NEW k \in 1..w PROVE c + k \in 1..l /\ q[c + k] = text[k]
    <2>1. c + k \in 1..(m - o) /\ o + (c + k) = a + k
        BY <1>2, <1>4
    <2>2. q[c + k] = s[o + (c + k)]
        BY <1>3, <2>1, Zenon
    <2>3. q[c + k] = text[k]
        BY <1>3, <2>1, <2>2, Zenon
    <2>4. c + k \in 1..l
        BY <1>3, <1>4, <2>1
    <2>5. QED  BY <2>3, <2>4
<1>6. \A k \in 1..(w - 1) : q[c + k] = bare[k] /\ bare[k] # Dot
    <2>1. \A k \in 1..(w - 1) : k \in 1..w
        BY <1>2
    <2>2. QED  BY <1>2, <1>5, <2>1, Zenon
<1>7. bare \in Seq(Between) /\ bare # <<>>
    BY <1>1, BareIs, Zenon
<1>8. LiesAt(q, c, bare, Dot)
    <2>1. c + w \in 1..l /\ q[c + w] = Dot
        <3>1. w \in 1..w
            BY <1>2
        <3>2. QED  BY <1>2, <1>5, <3>1, Zenon
    <2>2. (c + (w - 1)) + 1 = c + w /\ c + (w - 1) <= l
        BY <1>2, <1>4, <2>1
    <2>3. PICK b : b = w - 1
        OBVIOUS
    <2>4. c + b <= Len(q) /\ (c + b) + 1 <= Len(q)
        BY <1>1, <1>2, <1>4, <2>1, <2>3
    <2>5. q[(c + b) + 1] = Dot
        BY <2>1, <2>2, <2>3, Zenon
    <2>6. Len(bare) = b
        BY <1>2, <2>3, Zenon
    <2>7. \A k \in 1..b : q[c + k] = bare[k] /\ bare[k] # Dot
        BY <1>6, <2>3, Zenon
    <2>8. QED  BY <2>4, <2>5, <2>6, <2>7, Zenon DEF LiesAt, Within
<1>9. PartAdded(g[c], g[c + Len(bare) + 1], bare)
    <2>1. g[c].tmp = <<>>
        BY <1>1, Zenon
    <2>2. QED  BY <1>4, <1>7, <1>8, <2>1, PartScanned
<1>10. c + Len(bare) + 1 = (a + w) - o
    <2>1. PICK b : b = Len(bare)
        OBVIOUS
    <2>2. b = w - 1
        BY <1>2, <2>1, Zenon
    <2>3. c + b + 1 = (a + w) - o
        BY <1>2, <1>4, <2>2
    <2>4. QED  BY <2>1, <2>3, Zenon
<1>11. QED  BY <1>1, <1>9, <1>10, Zenon

(* The text of an entry, or what is left without its first character.      *)
Bit(e, piece) == piece = Bare(e) \/ piece = Bare(Short(e))

(* The loop has so far the first entries of a log, and nothing begun.      *)
Got(x, log, i) ==
    /\ x.tmp = <<>> /\ Len(x.parts) = i
    /\ \A k \in 1..i : Bit(log[k], x.parts[k])

(* With one more part.                                                     *)
LEMMA GotMore ==
    ASSUME NEW C, NEW x \in Loop(C), NEW y, NEW log, NEW i \in Nat,
           Got(x, log, i), NEW Z, NEW e \in Seq(Z), PartAdded(x, y, e),
           Bit(log[i + 1], e)
    PROVE  Got(y, log, i + 1)
<1>1. /\ y.tmp = <<>> /\ Len(y.parts) = Len(x.parts) + 1
      /\ y.parts[Len(x.parts) + 1] = e
      /\ \A k \in 1..Len(x.parts) : y.parts[k] = x.parts[k]
    <2>1. LastPart(x, y, e)
        BY PartIsLast
    <2>2. QED  BY <2>1, Zenon DEF LastPart
<1>2. Len(x.parts) = i /\ \A k \in 1..i : Bit(log[k], x.parts[k])
    BY Zenon DEF Got
<1>3. PICK j, p, q : j = i + 1 /\ p = x.parts /\ q = y.parts
    OBVIOUS
<1>4. /\ Len(q) = j /\ q[j] = e /\ \A k \in 1..i : q[k] = p[k] /\ Bit(log[k], p[k])
    BY <1>1, <1>2, <1>3, Zenon
<1>5. ASSUME NEW k \in 1..j PROVE Bit(log[k], q[k])
    <2>1. CASE k = j
        BY <1>3, <1>4, <2>1, Zenon
    <2>2. CASE k # j
        <3>1. k \in 1..i
            BY <1>3, <2>2
        <3>2. QED  BY <1>4, <3>1, Zenon
    <2>3. QED  BY <2>1, <2>2
<1>6. QED  BY <1>1, <1>3, <1>4, <1>5, Zenon DEF Got

(* Where the entry i + 1 begins, or one further.                           *)
About(h, w, i, c) == c = Place(h, w, i + 1) \/ c = Place(h, w, i + 1) + 1

(* After i entries of a file the loop is at the next one, or behind the    *)
(* end of what was written last, which is in its first place.              *)
CellRead(g, s, o, h, w, log, i) ==
    \E c \in Nat : /\ About(h, w, i, c) /\ o <= c /\ c <= Len(s)
                   /\ Got(g[c - o], log, i)

(* The text of an entry, in a file.                                        *)
Wide(e, w) == Len(EntryText(e)) = w
Whole(s, a, e, w) ==
    /\ Wide(e, w) /\ a + w <= Len(s)
    /\ \A k \in 1..w : s[a + k] = EntryText(e)[k]

(* An entry, whole or without its first character, is one more.            *)
LEMMA OneTaken ==
    ASSUME NEW S, NEW q \in Seq(S), NEW C, NEW g, Turns(g, q, Dot, C),
           NEW s, Len(s) \in Nat, NEW o \in Nat, Over(q, s, o),
           NEW a \in Nat, o <= a, NEW e \in PlainEntry,
           NEW v, Whole(s, a, e, v),
           NEW log, NEW i \in Nat, Got(g[a - o], log, i), Bit(log[i + 1], Bare(e)),
           NEW h \in Nat, NEW w \in Nat, About(h, w, i + 1, a + v)
    PROVE  CellRead(g, s, o, h, w, log, i + 1)
<1>1. /\ v = Len(EntryText(e)) /\ a + v <= Len(s)
      /\ \A k \in 1..v : s[a + k] = EntryText(e)[k]
    BY Zenon DEF Whole, Wide
<1>2. g[a - o].tmp = <<>>
    BY Zenon DEF Got
<1>3. PartAdded(g[a - o], g[(a + v) - o], Bare(e))
    BY <1>1, <1>2, EntryTaken
<1>4. v \in Nat /\ v >= 2
    <2>1. EntryChar(e, v)
        BY <1>1, EntryChars2
    <2>2. QED  BY <2>1, Zenon DEF EntryChar
<1>5. a - o \in 0..Len(q)
    <2>1. PICK m, l : m = Len(s) /\ l = Len(q)
        OBVIOUS
    <2>2. m \in Nat /\ l \in Nat /\ m - o <= l /\ a + v <= m
        <3>1. m \in Nat /\ l \in Nat
            BY <2>1, LenProperties
        <3>2. QED  BY <1>1, <2>1, <3>1, Zenon DEF Over
    <2>3. a - o \in 0..l
        BY <1>4, <2>2
    <2>4. QED  BY <2>1, <2>3, Zenon
<1>6. g[a - o] \in Loop(C)
    BY <1>5, Zenon DEF Turns
<1>7. Bare(e) \in Seq(Between)
    BY BareIs
<1>8. Got(g[(a + v) - o], log, i + 1)
    BY <1>3, <1>6, <1>7, GotMore
<1>9. a + v \in Nat /\ o <= a + v
    BY <1>4
<1>10. QED  BY <1>1, <1>8, <1>9, Zenon DEF CellRead

(* So the loop takes the entry of every cell.                              *)
LEMMA CellTaken ==
    ASSUME NEW S, NEW q \in Seq(S), NEW C, NEW g, Turns(g, q, Dot, C),
           NEW s, Len(s) \in Nat, NEW o \in Nat, Over(q, s, o),
           \A p \in (o + 1)..Len(s) : s[p] # Semicolon,
           NEW h \in Nat, NEW w \in Nat, NEW log, NEW i \in Nat,
           log[i + 1] \in PlainEntry, log[i + 1].cmd # <<>>,
           Wide(log[i + 1], w),
           Cell(s, Place(h, w, i + 1), Sep(i + 1), EntryText(log[i + 1]), w),
           CellRead(g, s, o, h, w, log, i)
    PROVE  CellRead(g, s, o, h, w, log, i + 1)
<1>1. PICK a, e, sep, text, m : /\ a = Place(h, w, i + 1) /\ e = log[i + 1]
                                /\ sep = Sep(i + 1) /\ text = EntryText(e)
                                /\ m = Len(s)
    OBVIOUS
<1>2. /\ e \in PlainEntry /\ e.cmd # <<>> /\ w = Len(text) /\ m \in Nat /\ Wide(e, w)
      /\ Cell(s, a, sep, text, w) /\ w = Len(EntryText(e))
    BY <1>1, Zenon DEF Wide
<1>3. w >= 2
    <2>1. EntryChar(e, w)
        BY <1>2, EntryChars2
    <2>2. QED  BY <2>1, Zenon DEF EntryChar
<1>4. a \in Nat /\ Place(h, w, (i + 1) + 1) = a + w
    <2>1. i + 1 \in Nat /\ i + 1 >= 1
        OBVIOUS
    <2>2. /\ Place(h, w, i + 1) \in Nat
          /\ Place(h, w, (i + 1) + 1) = Place(h, w, i + 1) + w
        BY <2>1, PlaceIs
    <2>3. QED  BY <1>1, <2>2, Zenon
<1>5. PICK c \in Nat : /\ c = a \/ c = a + 1
                       /\ o <= c /\ c <= m /\ Got(g[c - o], log, i)
    BY <1>1, Zenon DEF CellRead, About
<1>6. PICK short, left, v : /\ short = Short(e) /\ left = EntryText(short)
                            /\ v = Len(left)
    OBVIOUS
<1>7. /\ short \in PlainEntry /\ v = w - 1
      /\ \A k \in 1..(w - 1) : left[k] = text[k + 1]
    <2>1. /\ Short(e) \in PlainEntry /\ Len(EntryText(Short(e))) = w - 1
          /\ \A k \in 1..(w - 1) : EntryText(Short(e))[k] = EntryText(e)[k + 1]
        BY <1>2, ShortIs
    <2>2. QED  BY <1>1, <1>6, <2>1, Zenon
<1>8. Bit(log[i + 1], Bare(e)) /\ Bit(log[i + 1], Bare(short))
    BY <1>1, <1>6, Zenon DEF Bit
<1>9. /\ a + w \in Nat /\ a + 1 \in Nat /\ a + 1 + w \in Nat
      /\ (a + 1) + v = a + w
    <2>1. w \in Nat /\ v = w - 1 /\ a \in Nat
        BY <1>4, <1>7, Zenon
    <2>2. QED  BY <1>3, <2>1
<1>10. CASE /\ c = a /\ a + w <= m /\ s[a + 1] = text[1]
            /\ \A k \in 2..w : s[a + k] = text[k]
    <2>1. ASSUME NEW k \in 1..w PROVE s[a + k] = text[k]
        <3>1. CASE k = 1
            BY <1>10, <3>1
        <3>2. CASE k # 1
            <4>1. k \in 2..w
                BY <3>2
            <4>2. QED  BY <1>10, <4>1, Zenon
        <3>3. QED  BY <3>1, <3>2
    <2>2. Whole(s, a, e, w)
        BY <1>1, <1>2, <1>10, <2>1, Zenon DEF Whole
    <2>3. Got(g[a - o], log, i) /\ o <= a /\ About(h, w, i + 1, a + w)
        BY <1>4, <1>5, <1>10, Zenon DEF About
    <2>4. QED  BY <1>2, <1>4, <1>8, <2>2, <2>3, OneTaken
<1>11. CASE ~(/\ c = a /\ a + w <= m /\ s[a + 1] = text[1]
              /\ \A k \in 2..w : s[a + k] = text[k])
    <2>1. \/ /\ a + w <= m /\ s[a + 1] \in {sep, text[1]}
             /\ \A k \in 2..w : s[a + k] = text[k]
          \/ /\ a + 1 + w <= m /\ s[a + 1] = sep
             /\ \A k \in 1..w : s[a + 1 + k] = text[k]
        BY <1>1, <1>2, Zenon DEF Cell
    <2>2. a + 1 <= m /\ o <= a + 1
        <3>1. a + w <= m \/ a + 1 + w <= m
            BY <2>1, Zenon
        <3>2. a \in Nat /\ m \in Nat
            BY <1>2, <1>4
        <3>3. o <= c /\ (c = a \/ c = a + 1)
            BY <1>5, Zenon
        <3>4. QED  BY <1>3, <3>1, <3>2, <3>3
    <2>3. Got(g[(a + 1) - o], log, i)
        <3>1. CASE c = a + 1
            BY <1>5, <3>1
        <3>2. CASE c = a
            <4>1. s[a + 1] = sep
                BY <1>11, <2>1, <3>2
            <4>2. s[a + 1] # Semicolon
                <5>1. a \in Nat /\ m \in Nat /\ o <= a
                    BY <1>2, <1>4, <1>5, <3>2, Zenon
                <5>2. a + 1 \in (o + 1)..m
                    BY <2>2, <5>1
                <5>3. QED  BY <1>1, <5>2, Zenon
            <4>3. s[a + 1] = Dot
                BY <1>1, <4>1, <4>2 DEF Sep
            <4>4. PICK b, l : b = a - o /\ l = Len(q)
                OBVIOUS
            <4>5. /\ b \in Nat /\ b + 1 = (a + 1) - o /\ l \in Nat
                  /\ b + 1 \in 1..(m - o) /\ o + (b + 1) = a + 1
                BY <1>2, <1>4, <1>5, <2>2, <3>2, <4>4, LenProperties
            <4>6. m - o <= l /\ \A j \in 1..(m - o) : q[j] = s[o + j]
                BY <1>1, <4>4, Zenon DEF Over
            <4>7. q[b + 1] = Dot
                BY <4>3, <4>5, <4>6, Zenon
            <4>8. g[b].tmp = <<>>
                BY <1>5, <3>2, <4>4, Zenon DEF Got
            <4>9. b + 1 <= Len(q) /\ Len(q) \in Nat
                BY <1>2, <4>4, <4>5, <4>6
            <4>10. g[b + 1] = g[b]
                BY <4>5, <4>7, <4>8, <4>9, EmptyTurn
            <4>11. QED  BY <1>5, <3>2, <4>4, <4>5, <4>10, Zenon
        <3>3. QED  BY <1>5, <3>1, <3>2
    <2>4. PICK b : b = a + 1
        OBVIOUS
    <2>5. b \in Nat /\ o <= b /\ Got(g[b - o], log, i) /\ b + v = a + w
        BY <1>9, <2>2, <2>3, <2>4, Zenon
    <2>6. CASE /\ a + w <= m
               /\ \A k \in 2..w : s[a + k] = text[k]
        <3>1. ASSUME NEW k \in 1..v PROVE s[b + k] = left[k]
            <4>1. w \in Nat /\ v = w - 1 /\ a \in Nat
                BY <1>4, <1>7, Zenon
            <4>2. k + 1 \in 2..w /\ b + k = a + (k + 1) /\ k \in 1..(w - 1)
                BY <1>3, <2>4, <4>1
            <4>3. s[a + (k + 1)] = text[k + 1] /\ left[k] = text[k + 1]
                BY <1>7, <2>6, <4>2, Zenon
            <4>4. QED  BY <4>2, <4>3, Zenon
        <3>2. Whole(s, b, short, v)
            <4>1. b + v <= Len(s)
                BY <1>1, <2>5, <2>6, Zenon
            <4>2. Wide(short, v)
                BY <1>6, Zenon DEF Wide
            <4>3. QED  BY <1>6, <3>1, <4>1, <4>2, Zenon DEF Whole
        <3>3. About(h, w, i + 1, b + v)
            BY <1>4, <2>5, Zenon DEF About
        <3>4. QED  BY <1>7, <1>8, <2>5, <3>2, <3>3, OneTaken
    <2>7. CASE /\ a + 1 + w <= m
               /\ \A k \in 1..w : s[a + 1 + k] = text[k]
        <3>1. Whole(s, b, e, w)
            BY <1>1, <1>2, <2>4, <2>7, Zenon DEF Whole
        <3>2. b + w = (a + w) + 1
            <4>1. a \in Nat
                BY <1>4, Zenon
            <4>2. QED  BY <2>4, <4>1
        <3>3. About(h, w, i + 1, b + w)
            BY <1>4, <3>2, Zenon DEF About
        <3>4. QED  BY <1>2, <1>8, <2>5, <3>1, <3>3, OneTaken
    <2>8. QED  BY <2>1, <2>6, <2>7, Zenon
<1>12. QED  BY <1>10, <1>11

(* The loop goes on to the end of the file, and has all its entries.       *)
LEMMA CellsTaken ==
    ASSUME NEW S, NEW q \in Seq(S), NEW C, NEW g, Turns(g, q, Dot, C),
           NEW s, Len(s) \in Nat, NEW o \in Nat, Over(q, s, o), o <= Len(s),
           \A p \in (o + 1)..Len(s) : s[p] # Semicolon,
           NEW h \in Nat, NEW w \in Nat, o \in {h, h + 1},
           NEW log \in Seq(PlainEntry), OfWidth(log, w),
           \A i \in 1..Len(log) : log[i].cmd # <<>>, Shape(s, h, w, log)
    PROVE  Got(g[Len(s) - o], log, Len(log))
<1>1. PICK n, m : n = Len(log) /\ m = Len(s)
    OBVIOUS
<1>2. n \in Nat /\ m \in Nat
    BY <1>1, LenProperties
<1> DEFINE T == {i \in Nat : i <= n => CellRead(g, s, o, h, w, log, i)}
<1>3. 0 \in T
    <2>1. About(h, w, 0, o)
        <3>1. Place(h, w, 1) = h /\ 0 + 1 = 1
            BY PlaceIs
        <3>2. o = Place(h, w, 0 + 1) \/ o = Place(h, w, 0 + 1) + 1
            BY <3>1
        <3>3. QED  BY <3>2, Zenon DEF About
    <2>2. Got(g[0], log, 0)
        <3>1. g[0] = LoopStart
            BY Zenon DEF Turns
        <3>2. g[0].tmp = <<>> /\ Len(g[0].parts) = 0
            BY <3>1 DEF LoopStart
        <3>3. 1..0 = {}
            OBVIOUS
        <3>4. QED  BY <3>2, <3>3 DEF Got
    <2>3. o - o = 0 /\ o <= o
        OBVIOUS
    <2>4. CellRead(g, s, o, h, w, log, 0)
        BY <2>1, <2>2, <2>3, Zenon DEF CellRead
    <2>5. QED  BY <2>4
<1>4. ASSUME NEW i \in Nat, i \in T PROVE i + 1 \in T
    <2> SUFFICES ASSUME i + 1 <= n PROVE CellRead(g, s, o, h, w, log, i + 1)
        OBVIOUS
    <2>1. CellRead(g, s, o, h, w, log, i)
        BY <1>2, <1>4
    <2>2. i + 1 \in 1..Len(log)
        BY <1>1, <1>2
    <2>3. log[i + 1] \in PlainEntry /\ log[i + 1].cmd # <<>>
        BY <2>2, ElementOfSeq
    <2>4. Wide(log[i + 1], w)
        BY <2>2, Zenon DEF OfWidth, Wide
    <2>5. Cell(s, Place(h, w, i + 1), Sep(i + 1), EntryText(log[i + 1]), w)
        BY <2>2, Zenon DEF Shape, Cells
    <2> HIDE DEF T
    <2>6. QED  BY <2>1, <2>3, <2>4, <2>5, CellTaken
<1>5. n \in T
    <2> HIDE DEF T
    <2>1. QED  BY <1>2, <1>3, <1>4, InductionOn
<1>6. CellRead(g, s, o, h, w, log, n)
    BY <1>2, <1>5
<1> HIDE DEF T
<1>7. PICK b : b = Place(h, w, n + 1)
    OBVIOUS
<1>8. b \in Nat
    <2>1. n + 1 \in Nat /\ n + 1 >= 1
        BY <1>2
    <2>2. QED  BY <1>7, <2>1, PlaceIs
<1>9. PICK c \in Nat : /\ c = b \/ c = b + 1
                       /\ o <= c /\ c <= m /\ Got(g[c - o], log, n)
    BY <1>1, <1>6, <1>7, Zenon DEF CellRead, About
<1>10. m = b \/ (m = b + 1 /\ s[b + 1] = Sep(n + 1))
    BY <1>1, <1>7, Zenon DEF Shape, EndsAt
<1>11. CASE c = m
    BY <1>1, <1>9, <1>11, Zenon
<1>12. CASE c # m
    <2>1. c = b /\ m = b + 1 /\ s[b + 1] = Sep(n + 1) /\ o <= b
        BY <1>2, <1>8, <1>9, <1>10, <1>12
    <2>2. s[b + 1] # Semicolon
        <3>1. b + 1 \in (o + 1)..m
            BY <1>2, <1>8, <2>1
        <3>2. QED  BY <1>1, <3>1, Zenon
    <2>3. s[b + 1] = Dot
        BY <2>1, <2>2 DEF Sep
    <2>4. PICK a, l : a = b - o /\ l = Len(q)
        OBVIOUS
    <2>5. /\ a \in Nat /\ a + 1 = m - o /\ l \in Nat
          /\ a + 1 \in 1..(m - o) /\ o + (a + 1) = b + 1
        BY <1>2, <1>8, <2>1, <2>4, LenProperties
    <2>6. m - o <= l /\ \A j \in 1..(m - o) : q[j] = s[o + j]
        BY <1>1, <2>4, Zenon DEF Over
    <2>7. q[a + 1] = Dot
        BY <2>3, <2>5, <2>6, Zenon
    <2>8. g[a].tmp = <<>>
        BY <1>9, <2>1, <2>4, Zenon DEF Got
    <2>9. a + 1 <= Len(q) /\ Len(q) \in Nat
        <3>1. a + 1 <= l
            BY <2>5, <2>6, Zenon
        <3>2. QED  BY <2>4, <2>5, <3>1, Zenon
    <2>10. g[a + 1] = g[a]
        BY <2>5, <2>7, <2>8, <2>9, EmptyTurn
    <2>11. QED  BY <1>1, <1>9, <2>1, <2>4, <2>5, <2>10, Zenon
<1>13. QED  BY <1>11, <1>12

(* In what comes after a file, y, an entry has a command and a comma.      *)
Harmless(y) ==
    \A a, b \in 0..Len(y) : EntryLies(y, a, b) =>
        y[a + 1] # Comma /\ \E i \in (a + 1)..b : y[i] = Comma

(* Such a piece.                                                           *)
Sound(piece) ==
    HasComma(piece) /\ Len(piece) \in Nat /\ Len(piece) >= 1 /\ piece[1] # Comma

(* What dots make of the third part behind the file is sound.              *)
LEMMA PieceBehind ==
    ASSUME NEW s, NEW y, NEW t, Both(s, y, t), Len(s) \in Nat, Len(y) \in Nat,
           Harmless(y), NEW o \in Nat, o <= Len(s),
           NEW q, NEW a, NEW b, Third(t, Len(s), o, q, a, b),
           NEW Z, NEW e \in Seq(Z), NEW c \in Nat, NEW d \in Nat,
           EndedCut(q, Dot, Len(s) - o, e, c, d)
    PROVE  Sound(e) /\ Len(y) # 0
<1>1. PICK m, k, r : m = Len(s) /\ k = Len(y) /\ r = m - o
    OBVIOUS
<1>2. m \in Nat /\ k \in Nat /\ r \in Nat /\ m = o + r
    BY <1>1
<1>3. /\ a \in Nat /\ b \in Nat /\ a <= b /\ b <= m + k
      /\ a = o \/ (a > o /\ o = m /\ t[a] = Semicolon)
      /\ Len(q) = b - a
      /\ \A i \in 1..(b - a) : q[i] = t[a + i] /\ q[i] # Semicolon
      /\ \A i \in 1..k : t[m + i] = y[i]
    BY <1>1, Zenon DEF Third, Both
<1>4. /\ r <= c /\ c < d /\ d < b - a /\ Len(e) = d - c
      /\ \A i \in 1..(d - c) : e[i] = q[c + i] /\ e[i] # Dot
      /\ c = r \/ q[c] = Dot
      /\ q[d + 1] = Dot
    BY <1>1, <1>3, Zenon DEF EndedCut, Cut
<1>5. a + r >= m /\ (a = o => a + r = m) /\ (a > o /\ o = m => r = 0)
    <2>1. a = o \/ (a > o /\ o = m)
        BY <1>3, Zenon
    <2>2. a \in Nat
        BY <1>3, Zenon
    <2>3. QED  BY <1>2, <2>1, <2>2
<1>6. PICK u, v : u = (a + c) - m /\ v = (a + d) - m
    OBVIOUS
<1>7. /\ a \in Nat /\ b \in Nat /\ a <= b /\ b <= m + k /\ r <= c /\ c < d
      /\ d < b - a
    BY <1>3, <1>4, Zenon
<1>8. /\ u \in Nat /\ v \in Nat /\ u < v /\ v < k /\ m + u = a + c /\ m + v = a + d
      /\ d - c = v - u
    BY <1>2, <1>5, <1>6, <1>7
<1>9. ASSUME NEW i \in 1..(b - a), NEW p \in 1..k, m + p = a + i
      PROVE  y[p] = q[i]
    <2>1. q[i] = t[a + i] /\ t[m + p] = y[p]
        BY <1>3, Zenon
    <2>2. QED  BY <1>9, <2>1, Zenon
<1>10. y[v + 1] = Dot
    <2>1. d + 1 \in 1..(b - a) /\ v + 1 \in 1..k /\ m + (v + 1) = a + (d + 1)
        BY <1>2, <1>7, <1>8
    <2>2. y[v + 1] = q[d + 1]
        BY <1>9, <2>1, Zenon
    <2>3. QED  BY <1>4, <2>2
<1>11. u = 0 \/ y[u] \in {Dot, Semicolon}
    <2>1. CASE c = r /\ a = o
        <3>1. a + r = m
            BY <1>5, <2>1
        <3>2. u = 0
            BY <1>2, <1>6, <1>7, <2>1, <3>1
        <3>3. QED  BY <3>2
    <2>2. CASE c = r /\ a > o /\ o = m /\ t[a] = Semicolon
        <3>1. r = 0
            BY <1>5, <2>2
        <3>2. u \in 1..k /\ m + u = a
            BY <1>2, <1>7, <1>8, <2>2, <3>1
        <3>3. y[u] = t[m + u]
            BY <1>3, <3>2, Zenon
        <3>4. y[u] = Semicolon
            BY <2>2, <3>2, <3>3, Zenon
        <3>5. QED  BY <3>4
    <2>3. CASE c # r /\ q[c] = Dot
        <3>1. c \in 1..(b - a) /\ u \in 1..k
            BY <1>2, <1>5, <1>7, <1>8, <2>3
        <3>2. y[u] = q[c]
            BY <1>8, <1>9, <3>1, Zenon
        <3>3. QED  BY <2>3, <3>2
    <2>4. QED  BY <1>3, <1>4, <2>1, <2>2, <2>3, Zenon
<1>12. ASSUME NEW i \in 1..(d - c)
       PROVE  y[u + i] = e[i] /\ y[u + i] \notin {Dot, Semicolon}
    <2>1. c + i \in 1..(b - a) /\ u + i \in 1..k /\ m + (u + i) = a + (c + i)
        BY <1>2, <1>7, <1>8
    <2>2. y[u + i] = q[c + i]
        BY <1>9, <2>1, Zenon
    <2>3. e[i] = q[c + i] /\ e[i] # Dot /\ q[c + i] # Semicolon
        BY <1>3, <1>4, <2>1, Zenon
    <2>4. QED  BY <2>2, <2>3
<1>13. EntryLies(y, u, v)
    <2>1. ASSUME NEW j \in (u + 1)..v PROVE y[j] \notin {Dot, Semicolon}
        <3>1. PICK i : i = j - u
            OBVIOUS
        <3>2. i \in 1..(d - c) /\ u + i = j
            BY <1>8, <3>1
        <3>3. QED  BY <1>12, <3>2, Zenon
    <2>2. u < v /\ v < Len(y)
        BY <1>1, <1>8, Zenon
    <2>3. QED  BY <1>10, <1>11, <2>1, <2>2, Zenon DEF EntryLies
<1>14. y[u + 1] # Comma /\ \E j \in (u + 1)..v : y[j] = Comma
    <2>1. u \in 0..k /\ v \in 0..k
        BY <1>2, <1>8
    <2>2. QED  BY <1>1, <1>13, <2>1, Zenon DEF Harmless
<1>15. 1 \in 1..(d - c) /\ Len(e) \in Nat /\ Len(e) >= 1
    <2>1. Len(e) = d - c /\ c < d
        BY <1>4, Zenon
    <2>2. QED  BY <2>1
<1>16. e[1] # Comma
    <2>1. y[u + 1] = e[1]
        BY <1>12, <1>15, Zenon
    <2>2. QED  BY <1>14, <2>1
<1>17. HasComma(e)
    <2>1. PICK j \in (u + 1)..v : y[j] = Comma
        BY <1>14
    <2>2. PICK i : i = j - u
        OBVIOUS
    <2>3. i \in 1..(d - c) /\ u + i = j
        BY <1>8, <2>2
    <2>4. e[i] = Comma
        BY <1>12, <2>1, <2>3, Zenon
    <2>5. DOMAIN e = 1..Len(e)
        BY LenProperties
    <2>6. i \in DOMAIN e
        BY <1>4, <2>3, <2>5, Zenon
    <2>7. QED  BY <2>4, <2>6, Zenon DEF HasComma
<1>18. k # 0
    BY <1>8
<1>19. QED  BY <1>1, <1>15, <1>16, <1>17, <1>18, Zenon DEF Sound

(* What deserialize() makes of the third part: what was written, and what  *)
(* has a command and a comma, if there is anything behind the file.        *)
PiecesOf(pieces, log, y) ==
    /\ Len(log) <= Len(pieces)
    /\ \A k \in 1..Len(log) : Bit(log[k], pieces[k])
    /\ \A k \in (Len(log) + 1)..Len(pieces) : Sound(pieces[k]) /\ Len(y) # 0

(* This is what the loop that dots end makes of it.                        *)
LEMMA ThirdRead ==
    ASSUME NEW s, NEW y, NEW t, Both(s, y, t), Len(s) \in Nat, Len(y) \in Nat,
           Harmless(y), NEW h \in Nat, NEW f, NEW o, ThirdFrom(f, s, h, o),
           NEW S, NEW q \in Seq(S), NEW a, NEW b, Third(t, Len(s), o, q, a, b),
           NEW w \in Nat, NEW log \in Seq(PlainEntry), OfWidth(log, w),
           \A i \in 1..Len(log) : log[i].cmd # <<>>, Shape(s, h, w, log)
    PROVE  PiecesOf(Scan(q, Dot).parts, log, y)
<1>1. PICK m, l, n : m = Len(s) /\ l = Len(q) /\ n = Len(log)
    OBVIOUS
<1>2. m \in Nat /\ l \in Nat /\ n \in Nat
    BY <1>1, LenProperties
<1>3. /\ o \in Nat /\ o \in {h, h + 1} /\ o <= m
      /\ \A p \in (o + 1)..Len(s) : s[p] # Semicolon
    BY <1>1, Zenon DEF ThirdFrom
<1>4. /\ a \in Nat /\ b \in Nat /\ a <= b /\ m <= b
      /\ a = o \/ (a > o /\ o = m)
      /\ l = b - a /\ \A i \in 1..(b - a) : q[i] = t[a + i]
      /\ \A i \in 1..m : t[i] = s[i]
    BY <1>1, Zenon DEF Third, Both
<1>5. PICK r : r = m - o
    OBVIOUS
<1>6. r \in Nat /\ r <= l
    BY <1>2, <1>3, <1>4, <1>5
<1>7. Over(q, s, o)
    <2>1. ASSUME NEW j \in 1..r PROVE q[j] = s[o + j]
        <3>1. a = o
            BY <1>2, <1>3, <1>4, <1>5
        <3>2. j \in 1..(b - a) /\ o + j \in 1..m
            BY <1>2, <1>3, <1>4, <1>5, <3>1
        <3>3. q[j] = t[a + j] /\ t[o + j] = s[o + j]
            BY <1>4, <3>2, Zenon
        <3>4. QED  BY <3>1, <3>3, Zenon
    <2>2. QED  BY <1>1, <1>5, <1>6, <2>1, Zenon DEF Over
<1>8. PICK g : Turns(g, q, Dot, S \ {Dot}) /\ Scan(q, Dot) = g[Len(q)]
    BY ScanIs
<1>9. Got(g[r], log, n)
    <2>1. o <= Len(s)
        BY <1>1, <1>3
    <2>2. Got(g[Len(s) - o], log, Len(log))
        BY <1>3, <1>7, <1>8, <2>1, CellsTaken
    <2>3. QED  BY <1>1, <1>5, <2>2, Zenon
<1>10. PICK x, z : x = g[r] /\ z = g[Len(q)]
    OBVIOUS
<1>11. /\ x.tmp = <<>> /\ Len(x.parts) = n
       /\ \A k \in 1..n : Bit(log[k], x.parts[k])
    BY <1>9, <1>10, Zenon DEF Got
<1>12. r \in 0..Len(q)
    BY <1>1, <1>2, <1>6
<1>13. n <= Len(z.parts) /\ \A k \in 1..n : z.parts[k] = x.parts[k]
    <2>1. Leads(x, z)
        BY <1>8, <1>10, <1>12, TurnsLead
    <2>2. Begins(x.parts, z.parts)
        BY <2>1, Zenon DEF Leads
    <2>3. QED  BY <1>11, <2>2, Zenon DEF Begins
<1>14. AllCut(q, Dot, r, n, z, Len(q))
    <2>1. g[r].tmp = <<>> /\ n = Len(g[r].parts)
        BY <1>10, <1>11, Zenon
    <2>2. AllCut(q, Dot, r, n, g[Len(q)], Len(q))
        BY <1>8, <1>12, <2>1, TurnsCut
    <2>3. QED  BY <1>10, <2>2, Zenon
<1>15. PartsAreCut(q, Dot, r, n, z)
    BY <1>14, Zenon DEF AllCut
<1>16. z.parts \in Seq(Seq(S \ {Dot}))
    <2>1. Len(q) \in 0..Len(q)
        BY <1>1, <1>2
    <2>2. z \in Loop(S \ {Dot})
        BY <1>8, <1>10, <2>1, Zenon DEF Turns
    <2>3. QED  BY <2>2, LoopFields
<1>17. ASSUME NEW k \in (n + 1)..Len(z.parts)
       PROVE  Sound(z.parts[k]) /\ Len(y) # 0
    <2>1. PICK e : e = z.parts[k]
        OBVIOUS
    <2>2. k \in 1..Len(z.parts)
        <3>1. Len(z.parts) \in Nat
            BY <1>16, LenProperties
        <3>2. QED  BY <1>2, <3>1
    <2>3. e \in Seq(S \ {Dot})
        BY <1>16, <2>1, <2>2, ElementOfSeq
    <2>4. PartIsCut(q, Dot, r, n, z, k)
        BY <1>15, Zenon DEF PartsAreCut
    <2>5. PICK c \in Nat, d \in Nat : EndedCut(q, Dot, r, e, c, d)
        BY <2>1, <2>4, Zenon DEF PartIsCut
    <2>6. EndedCut(q, Dot, Len(s) - o, e, c, d) /\ o <= Len(s)
        BY <1>1, <1>3, <1>5, <2>5, Zenon
    <2>7. Sound(e) /\ Len(y) # 0
        BY <1>3, <2>3, <2>6, PieceBehind
    <2>8. QED  BY <2>1, <2>7, Zenon
<1>18. \A k \in 1..n : Bit(log[k], z.parts[k])
    BY <1>11, <1>13, Zenon
<1>19. PiecesOf(z.parts, log, y)
    BY <1>1, <1>13, <1>17, <1>18, Zenon DEF PiecesOf
<1>20. QED  BY <1>8, <1>10, <1>19, Zenon

(* A sound piece has a command.                                            *)
LEMMA SoundCommand ==
    ASSUME NEW S, NEW p \in Seq(S), Sound(p)
    PROVE  ParsedEntry(p).cmd # <<>>
<1>1. PICK j : j = Before(p, {Comma})
    OBVIOUS
<1>2. Len(p) \in Nat /\ Len(p) >= 1 /\ p[1] # Comma
    BY Zenon DEF Sound
<1>3. GoesTo(p, {Comma}, j)
    BY <1>1, <1>2, BeforeIs
<1>4. j \in 0..Len(p) /\ (j < Len(p) => p[j + 1] \in {Comma})
    BY <1>3, Zenon DEF GoesTo
<1>5. j # 0
    <2> SUFFICES ASSUME j = 0 PROVE FALSE
        OBVIOUS
    <2>1. j < Len(p) /\ j + 1 = 1
        BY <1>2
    <2>2. p[1] \in {Comma}
        BY <1>4, <2>1, Zenon
    <2>3. QED  BY <1>2, <2>2
<1>6. PICK cmd : cmd = SubSeq(p, 1, j)
    OBVIOUS
<1>7. Len(cmd) = j
    <2>1. 1 \in Int /\ j \in Int /\ j >= 1 /\ j <= Len(p) /\ j \in Nat
        BY <1>2, <1>4, <1>5
    <2>2. cmd = [i \in 1..j |-> p[i]]
        BY <1>6, <2>1
    <2>3. QED  BY <2>1, <2>2
<1>8. cmd # <<>>
    <2>1. Len(<<>>) = 0
        OBVIOUS
    <2>2. QED  BY <1>5, <1>7, <2>1, Zenon
<1>9. ParsedEntry(p).cmd = cmd
    <2>1. PICK term : term = atoi(SubSeq(p, j + 2, Len(p)))
        OBVIOUS
    <2>2. ParsedEntry(p) = [term |-> term, cmd |-> cmd]
        BY <1>1, <1>6, <2>1, Zenon DEF ParsedEntry
    <2>3. QED  BY <2>2
<1>10. QED  BY <1>8, <1>9, Zenon

(* The log that is read: the one that was written, entries without the     *)
(* first character of their commands at worst, and then entries with       *)
(* commands, if there is anything behind the file.                         *)
LogOf(logs, log, y) ==
    /\ Len(logs) \in Nat /\ Len(log) <= Len(logs)
    /\ \A k \in 1..Len(log) : logs[k] = log[k] \/ logs[k] = Short(log[k])
    /\ \A k \in (Len(log) + 1)..Len(logs) : logs[k].cmd # <<>> /\ Len(y) # 0

(* This is what such pieces are parsed to.                                 *)
LEMMA PiecesParsed ==
    ASSUME NEW S, NEW pieces \in Seq(Seq(S)), NEW log \in Seq(PlainEntry),
           \A i \in 1..Len(log) : log[i].cmd # <<>>,
           NEW y, PiecesOf(pieces, log, y)
    PROVE  /\ \A k \in 1..Len(pieces) : HasComma(pieces[k])
           /\ LogOf(EntriesOf(pieces), log, y)
<1>1. PICK n, m : n = Len(log) /\ m = Len(pieces)
    OBVIOUS
<1>2. n \in Nat /\ m \in Nat
    BY <1>1, LenProperties
<1>3. /\ n <= m /\ \A k \in 1..n : Bit(log[k], pieces[k])
      /\ \A k \in (n + 1)..m : Sound(pieces[k]) /\ Len(y) # 0
    BY <1>1, Zenon DEF PiecesOf
<1>4. ASSUME NEW k \in 1..n
      PROVE  /\ HasComma(pieces[k])
             /\ ParsedEntry(pieces[k]) = log[k] \/ ParsedEntry(pieces[k]) = Short(log[k])
    <2>1. PICK e : e = log[k]
        OBVIOUS
    <2>2. e \in PlainEntry /\ e.cmd # <<>>
        BY <1>1, <2>1, ElementOfSeq
    <2>3. Short(e) \in PlainEntry
        BY <2>2, ShortIs
    <2>4. /\ HasComma(Bare(e)) /\ ParsedEntry(Bare(e)) = e
          /\ HasComma(Bare(Short(e))) /\ ParsedEntry(Bare(Short(e))) = Short(e)
        BY <2>2, <2>3, EntryComesBack
    <2>5. pieces[k] = Bare(e) \/ pieces[k] = Bare(Short(e))
        BY <1>3, <2>1, Zenon DEF Bit
    <2>6. QED  BY <2>1, <2>4, <2>5, Zenon
<1>5. ASSUME NEW k \in (n + 1)..m
      PROVE  /\ HasComma(pieces[k]) /\ ParsedEntry(pieces[k]).cmd # <<>>
             /\ Len(y) # 0
    <2>1. Sound(pieces[k]) /\ Len(y) # 0
        BY <1>3, Zenon
    <2>2. pieces[k] \in Seq(S)
        <3>1. k \in 1..Len(pieces)
            BY <1>1, <1>2
        <3>2. QED  BY <3>1, ElementOfSeq
    <2>3. HasComma(pieces[k])
        BY <2>1, Zenon DEF Sound
    <2>4. QED  BY <2>1, <2>2, <2>3, SoundCommand
<1>6. \A k \in 1..m : k \in 1..n \/ k \in (n + 1)..m
    BY <1>2
<1>7. \A k \in 1..m : HasComma(pieces[k])
    BY <1>4, <1>5, <1>6, Zenon
<1>8. PICK logs : logs = EntriesOf(pieces)
    OBVIOUS
<1>9. Len(logs) = m /\ \A k \in 1..m : logs[k] = ParsedEntry(pieces[k])
    <2>1. logs = [k \in 1..m |-> ParsedEntry(pieces[k])]
        BY <1>1, <1>8, Zenon DEF EntriesOf
    <2>2. QED  BY <1>2, <2>1
<1>10. LogOf(logs, log, y)
    <2>1. ASSUME NEW k \in 1..n PROVE logs[k] = log[k] \/ logs[k] = Short(log[k])
        <3>1. k \in 1..m
            BY <1>2, <1>3
        <3>2. QED  BY <1>4, <1>9, <3>1, Zenon
    <2>2. ASSUME NEW k \in (n + 1)..m PROVE logs[k].cmd # <<>> /\ Len(y) # 0
        <3>1. k \in 1..m
            BY <1>2
        <3>2. QED  BY <1>5, <1>9, <3>1, Zenon
    <2>3. QED  BY <1>1, <1>2, <1>3, <1>9, <2>1, <2>2, Zenon DEF LogOf
<1>11. QED  BY <1>1, <1>7, <1>8, <1>10, Zenon

-----------------------------------------------------------------------------
(* What a read of such a file makes of it: it does not fail, and the log   *)
(* is what the file is taken for, with what lies behind the buffer.        *)
ReadOf(read, log, y) == read.outcome = "running" /\ LogOf(read.logs, log, y)

(* When the third field has sound pieces, deserialize() parses them all.   *)
LEMMA PiecesRead ==
    ASSUME NEW buffer \in Seq(Nat), Len(Persist(buffer)) >= 3,
           NEW log \in Seq(PlainEntry), \A i \in 1..Len(log) : log[i].cmd # <<>>,
           NEW y, PiecesOf(Pieces(buffer), log, y)
    PROVE  ReadOf(deserialize(buffer), log, y)
<1>1. PICK pieces, read, persist : /\ pieces = Pieces(buffer)
                                   /\ read = deserialize(buffer)
                                   /\ persist = Persist(buffer)
    OBVIOUS
<1>2. pieces \in Seq(Seq(EntryChars)) /\ Len(persist) \in Nat
    BY <1>1, PersistTypes, LenProperties
<1>3. DOMAIN pieces = 1..Len(pieces)
    BY <1>2, LenProperties
<1>4. /\ \A k \in 1..Len(pieces) : HasComma(pieces[k])
      /\ LogOf(EntriesOf(pieces), log, y)
    BY <1>1, <1>2, PiecesParsed
<1>5. PICK term, vote, logs :
        /\ term = atoi(persist[1]) /\ vote = atoi(persist[2])
        /\ logs = [k \in DOMAIN pieces |-> ParsedEntry(pieces[k])]
    OBVIOUS
<1>6. read = [outcome |-> "running", term |-> term, votedFor |-> vote,
              logs |-> logs]
    <2>1. read = IF \E k \in DOMAIN pieces : ~HasComma(pieces[k])
                 THEN [outcome |-> "thrown"]
                 ELSE [outcome |-> "running", term |-> atoi(persist[1]),
                       votedFor |-> atoi(persist[2]),
                       logs |-> [k \in DOMAIN pieces |-> ParsedEntry(pieces[k])]]
        BY <1>1, <1>2, DeserializeIs, Zenon
    <2>2. ~\E k \in DOMAIN pieces : ~HasComma(pieces[k])
        BY <1>3, <1>4, Zenon
    <2>3. QED  BY <1>5, <2>1, <2>2, Zenon
<1>7. read.outcome = "running" /\ read.logs = logs
    BY <1>6
<1>8. logs = EntriesOf(pieces)
    BY <1>3, <1>5, Zenon DEF EntriesOf
<1>9. QED  BY <1>1, <1>4, <1>7, <1>8, Zenon DEF ReadOf

(* A text that a header leads has two fields before the place where the    *)
(* header ends.                                                            *)
LEMMA HeaderRead ==
    ASSUME NEW S, NEW t \in Seq(S), NEW term \in Int, NEW vote \in Int,
           Begins(Header(term, vote), t),
           NEW f, Turns(f, t, Semicolon, S \ {Semicolon})
    PROVE  \E x, y : TwoRead(f[Len(Header(term, vote))], x, y)
<1>1. PICK header : header = Header(term, vote)
    OBVIOUS
<1>2. PICK x, y, front : HeadedBy(header, x, y, front)
    <2>1. <<>> \in Seq(PlainEntry)
        OBVIOUS
    <2>2. Heads(Header(term, vote), Text(term, vote, <<>>), Entries(<<>>))
        BY <2>1, HeaderIs
    <2>3. QED  BY <1>1, <2>2, Zenon DEF Heads
<1>3. /\ x \in Seq(Chars) /\ y \in Seq(Chars) /\ x # <<>> /\ y # <<>>
      /\ \A i \in 1..Len(x) : x[i] # Semicolon
      /\ \A i \in 1..Len(y) : y[i] # Semicolon
      /\ front \in Seq(Chars) /\ front = x \o <<Semicolon>>
      /\ header \in Seq(Chars) /\ header = front \o (y \o <<Semicolon>>)
    BY <1>2, Zenon DEF HeadedBy
<1>4. Begins(header, t)
    BY <1>1, Zenon
<1>5. TwoRead(f[Len(header)], x, y)
    BY <1>3, <1>4, HeaderScanned
<1>6. QED  BY <1>1, <1>5, Zenon

(* A header is characters, one at least.                                   *)
LEMMA HeaderType ==
    ASSUME NEW term \in Int, NEW vote \in Int
    PROVE  /\ Header(term, vote) \in Seq(Chars)
           /\ Len(Header(term, vote)) \in Nat /\ Len(Header(term, vote)) >= 1
<1>1. <<>> \in Seq(PlainEntry)
    OBVIOUS
<1>2. Heads(Header(term, vote), Text(term, vote, <<>>), Entries(<<>>))
    BY <1>1, HeaderIs
<1>3. QED  BY <1>2, Zenon DEF Heads, HeadedBy

(* A file of entries of one width, read with memory behind it.             *)
LEMMA ShapeRead ==
    ASSUME NEW s \in Seq(Chars), NEW beyond \in Seq(Nat), Harmless(CString(beyond)),
           NEW h \in Nat, h >= 1, NEW d \in {0, 1}, NEW g, g = h + d,
           NEW term \in Int, NEW vote \in Int, g = Len(Header(term, vote)),
           Begins(Header(term, vote), s),
           NEW w \in Nat, NEW log \in Seq(PlainEntry), OfWidth(log, w),
           \A i \in 1..Len(log) : log[i].cmd # <<>>, Shape(s, h, w, log)
    PROVE  ReadOf(deserialize(s \o beyond), log, CString(beyond))
<1>1. PICK header, buffer, y, t : /\ header = Header(term, vote)
                                  /\ buffer = s \o beyond
                                  /\ y = CString(beyond) /\ t = CString(buffer)
    OBVIOUS
<1>2. buffer \in Seq(Nat)
    <2>1. s \in Seq(Nat)
        <3>1. \A u \in Seq(Chars) : u \in Seq(Nat)
            BY DEF Chars
        <3>2. QED  BY <3>1, Zenon
    <2>2. QED  BY <1>1, <2>1
<1>3. y \in Seq(Chars) /\ t \in Seq(Chars)
    BY <1>1, <1>2, CStringKeeps, Zenon
<1>4. Both(s, y, t)
    BY <1>1, CStringBehind
<1>5. Len(s) \in Nat /\ Len(y) \in Nat /\ Len(t) \in Nat
    BY <1>3, LenProperties
<1>6. Begins(s, t)
    <2>1. Len(t) = Len(s) + Len(y) /\ \A i \in 1..Len(s) : t[i] = s[i]
        BY <1>4, Zenon DEF Both
    <2>2. Len(s) <= Len(t)
        BY <1>5, <2>1
    <2>3. QED  BY <2>1, <2>2, Zenon DEF Begins
<1>7. header \in Seq(Chars) /\ Len(header) \in Nat /\ g = Len(header)
    BY <1>1, HeaderType, Zenon
<1>8. Begins(header, t) /\ g <= Len(s)
    <2>1. Begins(header, s)
        BY <1>1, Zenon
    <2>2. Begins(header, t)
        BY <1>5, <1>6, <1>7, <2>1, BeginsThrough
    <2>3. QED  BY <1>7, <2>1, <2>2, Zenon DEF Begins
<1>9. PICK f : /\ Turns(f, t, Semicolon, Chars \ {Semicolon})
               /\ Scan(t, Semicolon) = f[Len(t)]
    BY <1>3, ScanIs
<1>10. PICK x, z : TwoRead(f[g], x, z)
    <2>1. Begins(Header(term, vote), t)
        BY <1>1, <1>8, Zenon
    <2>2. \E x, z : TwoRead(f[Len(Header(term, vote))], x, z)
        BY <1>3, <1>9, <2>1, HeaderRead
    <2>3. QED  BY <1>1, <1>7, <2>2, Zenon
<1>11. PICK o : ThirdFrom(f, s, h, o)
    <2>1. \A p \in (h + 2)..Len(s) : s[p] # Semicolon
        BY Zenon DEF Shape
    <2>2. QED  BY <1>5, <1>6, <1>8, <1>9, <1>10, <2>1, ThirdBegins
<1>12. PICK v, q : v = f[Len(t)] /\ q = PartAt(v, 3)
    OBVIOUS
<1>13. Len(v.parts) >= 2 /\ \E a, b : Third(t, Len(s), o, q, a, b)
    <2>1. /\ Len(f[Len(t)].parts) >= 2
          /\ \E a, b : Third(t, Len(s), o, PartAt(f[Len(t)], 3), a, b)
        BY <1>3, <1>5, <1>6, <1>9, <1>11, ThirdCut
    <2>2. QED  BY <1>12, <2>1, Zenon
<1>14. v \in Loop(FieldChars) /\ v = Fields(buffer)
    <2>1. v = Fields(buffer)
        BY <1>1, <1>9, <1>12, Zenon DEF Fields
    <2>2. QED  BY <1>2, <2>1, PersistTypes, Zenon
<1>15. /\ Len(Append(v.parts, v.tmp)) >= 3
       /\ Append(v.parts, v.tmp)[3] = q
    BY <1>12, <1>13, <1>14, ThirdIs
<1>16. Len(Persist(buffer)) >= 3 /\ Persist(buffer)[3] = q
    BY <1>14, <1>15, Zenon DEF Persist
<1>17. q \in Seq(FieldChars)
    <2>1. Persist(buffer) \in Seq(Seq(FieldChars))
        BY <1>2, PersistTypes, Zenon
    <2>2. 3 \in 1..Len(Persist(buffer))
        BY <1>16, <2>1, LenProperties
    <2>3. QED  BY <1>16, <2>1, <2>2, ElementOfSeq
<1>18. PiecesOf(Pieces(buffer), log, y)
    <2>1. PICK a, b : Third(t, Len(s), o, q, a, b)
        BY <1>13
    <2>2. Harmless(y)
        BY <1>1, Zenon
    <2>3. PiecesOf(Scan(q, Dot).parts, log, y)
        BY <1>4, <1>5, <1>11, <1>17, <2>1, <2>2, ThirdRead
    <2>4. QED  BY <1>16, <2>3, Zenon DEF Pieces
<1>19. ReadOf(deserialize(buffer), log, y)
    BY <1>2, <1>16, <1>18, PiecesRead
<1>20. QED  BY <1>1, <1>19, Zenon

-----------------------------------------------------------------------------
(* That a file keeps the form, as long as saves have entries of one width  *)
(* and headers that differ by a character at most.                         *)
Widths == Nat \ {0}
Equal ==
    /\ \A x, y \in widths : x = y
    /\ \A h, k \in headers : h - k <= 1

WidthsTyped == widths \subseteq Widths /\ headers \subseteq Widths

(* What RaftState takes the file for.                                      *)
KeptLog ==
    /\ kept.logs \in Seq(PlainEntry)
    /\ \A i \in 1..Len(kept.logs) : Len(EntryText(kept.logs[i])) \in widths
    /\ saved = <<>> => Len(kept.logs) = 0

(* The file begins with a header.                                          *)
HeaderInFile(file) ==
    \E term, vote \in Int :
        Len(Header(term, vote)) \in headers /\ Begins(Header(term, vote), file)
HeaderSaved == saved # <<>> => HeaderInFile(content)

Fits(h, w) == headers \subseteq {h, h + 1} /\ widths \subseteq {w}
ShapeSaved ==
    saved # <<>> => \A h, w \in Widths :
                        Fits(h, w) => Shape(content, h, w, kept.logs)

(* A node has entries without a command in memory only from a read, and    *)
(* then of another width.                                                  *)
OtherWidth(e, ws) == \E x \in ws : Len(EntryText(e)) # x
MemoryCommands ==
    Equal => \A i \in 1..Len(m_logs) :
                 m_logs[i].cmd = <<>> => OtherWidth(m_logs[i], widths)
KeptCommands == Equal => \A i \in 1..Len(kept.logs) : kept.logs[i].cmd # <<>>

ThrownWidths == pc = "thrown" => ~Equal

WidthInv ==
    /\ WidthsTyped /\ KeptLog /\ HeaderSaved /\ ShapeSaved
    /\ MemoryCommands /\ KeptCommands /\ ThrownWidths

(* It is so before the first save.                                         *)
LEMMA InitWidths == Init => WidthInv
<1> SUFFICES ASSUME Init PROVE WidthInv
    OBVIOUS
<1>1. /\ m_logs = <<>> /\ saved = <<>> /\ pc = "down" /\ kept = NoFile
      /\ widths = {} /\ headers = {}
    BY DEF Init
<1>2. kept.logs = <<>>
    BY <1>1 DEF NoFile
<1>3. <<>> \in Seq(PlainEntry) /\ Len(<<>>) = 0 /\ 1..0 = {}
    OBVIOUS
<1>4. WidthsTyped
    BY <1>1, Zenon DEF WidthsTyped
<1>5. KeptLog
    BY <1>2, <1>3, Zenon DEF KeptLog
<1>6. HeaderSaved /\ ShapeSaved
    BY <1>1, Zenon DEF HeaderSaved, ShapeSaved
<1>7. MemoryCommands
    BY <1>1, <1>3, Zenon DEF MemoryCommands
<1>8. KeptCommands
    BY <1>2, <1>3, Zenon DEF KeptCommands
<1>9. ThrownWidths
    BY <1>1 DEF ThrownWidths
<1>10. QED  BY <1>4, <1>5, <1>6, <1>7, <1>8, <1>9, Zenon DEF WidthInv

(* The history and the file do not change, except when the file is written.*)
SameFile ==
    /\ content' = content /\ saved' = saved /\ kept' = kept
    /\ widths' = widths /\ headers' = headers

(* Then only what the memory of the node has is to be looked at.           *)
LEMMA SameFileWidths ==
    ASSUME WidthInv, SameFile, MemoryCommands', ThrownWidths'
    PROVE  WidthInv'
<1>1. /\ content' = content /\ saved' = saved /\ kept' = kept
      /\ widths' = widths /\ headers' = headers
    BY DEF SameFile
<1>2. WidthsTyped' /\ KeptLog'
    BY <1>1, Zenon DEF WidthInv, WidthsTyped, KeptLog
<1>3. HeaderSaved' /\ ShapeSaved'
    BY <1>1, Zenon DEF WidthInv, HeaderSaved, HeaderInFile, ShapeSaved, Fits
<1>4. KeptCommands'
    BY <1>1, Zenon DEF WidthInv, KeptCommands, Equal
<1>5. QED  BY <1>2, <1>3, <1>4, Zenon DEF WidthInv

(* Commands of nodes are not empty.                                        *)
LEMMA CommandsThere ==
    ASSUME NEW e \in Entry
    PROVE  e.cmd # <<>>
<1>1. PICK term \in Terms, key \in Keys : e = [term |-> term, cmd |-> getCmd(key)]
    BY DEF Entry
<1>2. PICK cmd : cmd = getCmd(key)
    OBVIOUS
<1>3. cmd # <<>>
    <2>1. PICK x : x = to_string(key)
        OBVIOUS
    <2>2. x \in Seq(Nat)
        <3>1. key \in Int
            BY FileAssumption
        <3>2. x \in Seq(Numeral)
            BY <2>1, <3>1, NumberComesBack
        <3>3. \A u \in Seq(Numeral) : u \in Seq(Nat)
            BY SeqMonotonic, NumeralsPlain, PlainBetween
        <3>4. QED  BY <3>2, <3>3, Zenon
    <2>3. cmd = <<Put>> \o x \o <<Space>> \o x
        BY <1>2, <2>1, Zenon DEF getCmd
    <2>4. Put \in Nat /\ Space \in Nat
        BY DEF Put, Space
    <2>5. QED  BY <2>2, <2>3, <2>4
<1>4. e = [term |-> term, cmd |-> cmd]
    BY <1>1, <1>2, Zenon
<1>5. e.cmd = cmd
    BY <1>4
<1>6. QED  BY <1>3, <1>5, Zenon

(* A save opens the file.                                                  *)
LEMMA OpenWidths ==
    ASSUME FileInv, WidthInv, NEW term \in Terms \cup {m_curTerm},
           NEW vote \in Voted \cup {None, m_votedFor},
           NEW cut \in 0..Len(m_logs), NEW added \in SeqOf(Entry, MaxAdded),
           Open(term, vote, cut, added)
    PROVE  WidthInv'
<1>1. SameFile /\ m_logs' = SubSeq(m_logs, 1, cut) \o added /\ pc' = "opened"
    BY Zenon DEF Open, Opened, SameFile
<1>2. widths' = widths /\ headers' = headers
    BY <1>1, Zenon DEF SameFile
<1>3. ThrownWidths'
    BY <1>1 DEF ThrownWidths
<1>4. added \in Seq(Entry)
    <2>1. PICK m \in 0..MaxAdded : added \in [1..m -> Entry]
        BY DEF SeqOf
    <2>2. m \in Nat
        BY FileAssumption
    <2>3. QED  BY <2>1, <2>2
<1>5. PICK n, front, log : /\ n = Len(m_logs) /\ front = SubSeq(m_logs, 1, cut)
                           /\ log = front \o added
    OBVIOUS
<1>6. m_logs \in Seq(PlainEntry)
    BY Zenon DEF FileInv, CleanState
<1>7. n \in Nat /\ cut \in 0..n /\ cut \in Nat
    BY <1>5, <1>6, LenProperties
<1>8. Len(front) = cut /\ \A i \in 1..cut : front[i] = m_logs[i]
    <2>1. \A i \in 1..cut : m_logs[i] \in PlainEntry
        BY <1>5, <1>6, <1>7
    <2>2. QED  BY <1>5, <1>6, <1>7
<1>9. Len(log) = cut + Len(added) /\ Len(added) \in Nat
    BY <1>4, <1>5, <1>6, <1>7, <1>8
<1>10. ASSUME NEW i \in 1..Len(log)
       PROVE  \/ \E j \in 1..n : log[i] = m_logs[j]
              \/ log[i] \in Entry
    <2>1. CASE i <= cut
        BY <1>4, <1>5, <1>6, <1>7, <1>8, <2>1
    <2>2. CASE i > cut
        <3>1. log[i] = added[i - cut] /\ i - cut \in 1..Len(added)
            BY <1>4, <1>5, <1>6, <1>7, <1>8, <1>9, <2>2
        <3>2. QED  BY <1>4, <3>1, ElementOfSeq
    <2>3. QED  BY <1>7, <1>9, <2>1, <2>2
<1>11. MemoryCommands'
    <2> SUFFICES ASSUME Equal', NEW i \in 1..Len(m_logs'), m_logs'[i].cmd = <<>>
                 PROVE  OtherWidth(m_logs'[i], widths')
        BY Zenon DEF MemoryCommands
    <2>1. Equal
        BY <1>2, Zenon DEF Equal
    <2>2. m_logs' = log
        BY <1>1, <1>5, Zenon
    <2>3. PICK j \in 1..n : log[i] = m_logs[j]
        <3>1. log[i] \notin Entry
            BY <2>2, CommandsThere
        <3>2. i \in 1..Len(log)
            BY <2>2, Zenon
        <3>3. QED  BY <1>10, <3>1, <3>2, Zenon
    <2>4. OtherWidth(m_logs[j], widths)
        <3>1. m_logs[j].cmd = <<>>
            BY <2>2, <2>3, Zenon
        <3>2. QED  BY <1>5, <2>1, <3>1, Zenon DEF WidthInv, MemoryCommands
    <2>5. QED  BY <1>2, <2>2, <2>3, <2>4, Zenon
<1>12. QED  BY <1>1, <1>3, <1>11, SameFileWidths

(* The process is lost.                                                    *)
LEMMA CrashWidths == ASSUME WidthInv, Crash PROVE WidthInv'
<1>1. SameFile /\ m_logs' = <<>> /\ pc' = "down"
    BY DEF Crash, Stop, history, SameFile
<1>2. 1..Len(<<>>) = {}
    OBVIOUS
<1>3. MemoryCommands' /\ ThrownWidths'
    <2>1. MemoryCommands'
        BY <1>1, <1>2, Zenon DEF MemoryCommands
    <2>2. ThrownWidths'
        BY <1>1 DEF ThrownWidths
    <2>3. QED  BY <2>1, <2>2
<1>4. QED  BY <1>1, <1>3, SameFileWidths

(* The width of an entry is not 0.                                         *)
LEMMA WidthOf ==
    ASSUME NEW e \in PlainEntry
    PROVE  Len(EntryText(e)) \in Widths
<1>1. PICK w : w = Len(EntryText(e))
    OBVIOUS
<1>2. EntryChar(e, w)
    BY <1>1, EntryChars2
<1>3. w \in Nat /\ w >= 2
    BY <1>2, Zenon DEF EntryChar
<1>4. w \in Widths
    BY <1>3 DEF Widths
<1>5. QED  BY <1>1, <1>4, Zenon

(* What is written over something longer leaves its end.                   *)
Laid(x, y, z) == z = x \o SubSeq(y, Len(x) + 1, Len(y))

(* A file of the form, or an empty one, has the form after a write too.    *)
LEMMA FormWritten ==
    ASSUME NEW h \in Widths, NEW w \in Widths, NEW term \in Int, NEW vote \in Int,
           NEW log \in Seq(PlainEntry), NEW old \in Seq(PlainEntry),
           NEW file \in Seq(Chars), Len(Header(term, vote)) \in {h, h + 1},
           OfWidth(log, w), NEW new, Laid(Text(term, vote, log), file, new),
           NEW both, Laid(log, old, both),
           Shape(file, h, w, old) \/ (Len(file) = 0 /\ Len(old) = 0)
    PROVE  Shape(new, h, w, both)
<1>1. h \in Nat /\ h >= 1 /\ w \in Nat /\ w >= 1
    BY DEF Widths
<1>2. PICK g, text : g = Len(Header(term, vote)) /\ text = Text(term, vote, log)
    OBVIOUS
<1>3. text \in Seq(Chars) /\ Placed(text, g, w, log)
    BY <1>1, <1>2, TextPlaced
<1>4. PICK d \in {0, 1} : g = h + d
    <2>1. g = h \/ g = h + 1
        BY <1>2
    <2>2. h = h + 0
        BY <1>1
    <2>3. QED  BY <2>1, <2>2
<1>5. new \in Seq(Chars) /\ Overlaid(text, file, new)
    <2>1. new = text \o SubSeq(file, Len(text) + 1, Len(file))
        BY <1>2, Zenon DEF Laid
    <2>2. QED  BY <1>3, <2>1, OverlaidIs
<1>6. both \in Seq(PlainEntry) /\ Overlaid(log, old, both)
    BY OverlaidIs DEF Laid
<1>7. /\ Len(file) \in Nat /\ Len(new) \in Nat /\ Len(log) \in Nat
      /\ Len(old) \in Nat /\ Len(both) \in Nat
    BY <1>5, <1>6, LenProperties
<1>8. QED  BY <1>1, <1>3, <1>4, <1>5, <1>6, <1>7, ShapeWritten

(* A header leads the text.                                                *)
LEMMA HeaderLeads ==
    ASSUME NEW term \in Int, NEW vote \in Int, NEW log \in Seq(PlainEntry),
           NEW file, Len(file) \in Nat, Begins(Text(term, vote, log), file)
    PROVE  Begins(Header(term, vote), file)
<1>1. PICK header, text, rest : /\ header = Header(term, vote)
                                /\ text = Text(term, vote, log)
                                /\ rest = Entries(log)
    OBVIOUS
<1>2. header \in Seq(Chars) /\ rest \in Seq(Chars) /\ text \in Seq(Chars)
    BY <1>1, HeaderType, TextIs, Zenon
<1>3. text = header \o rest
    BY <1>1, Zenon DEF Text
<1>4. Begins(header, text)
    <2>1. Begins(header, header \o rest)
        BY <1>2, BeginsItself, BeginsOn
    <2>2. QED  BY <1>3, <2>1, Zenon
<1>5. Len(header) \in Nat /\ Len(text) \in Nat
    BY <1>2, LenProperties
<1>6. Begins(text, file)
    BY <1>1, Zenon
<1>7. Begins(header, file)
    BY <1>4, <1>5, <1>6, BeginsThrough
<1>8. QED  BY <1>1, <1>7, Zenon

(* The entries of two logs, one laid over the other, are of one or the     *)
(* other.                                                                  *)
LEMMA OfEither ==
    ASSUME NEW log, NEW old, NEW both, Overlaid(log, old, both),
           Len(log) \in Nat, Len(old) \in Nat, Len(both) \in Nat,
           NEW i \in 1..Len(both)
    PROVE  \/ \E j \in 1..Len(log) : both[i] = log[j]
           \/ \E j \in 1..Len(old) : both[i] = old[j]
<1>1. PICK n, m, k : n = Len(log) /\ m = Len(old) /\ k = Len(both)
    OBVIOUS
<1>2. /\ k = n \/ k = m
      /\ \A j \in 1..n : both[j] = log[j]
      /\ \A j \in (n + 1)..k : both[j] = old[j]
    BY <1>1, Zenon DEF Overlaid
<1>3. i \in 1..n \/ (i \in (n + 1)..k /\ i \in 1..m)
    BY <1>1, <1>2
<1>4. QED  BY <1>1, <1>2, <1>3, Zenon

(* It writes the state over it.                                            *)
LEMMA WriteWidths == ASSUME FileInv, TypeInv, WidthInv, Write PROVE WidthInv'
<1>1. PICK term, vote, log, old, file : /\ term = m_curTerm /\ vote = m_votedFor
                                        /\ log = m_logs /\ old = kept.logs
                                        /\ file = content
    OBVIOUS
<1>2. /\ term \in Int /\ vote \in Int /\ log \in Seq(PlainEntry)
      /\ file \in Seq(Chars) /\ (saved = <<>> => file = <<>>)
    BY <1>1, Zenon DEF FileInv, CleanState, TypeInv, FileTyped
<1>3. /\ WidthsTyped /\ ShapeSaved /\ MemoryCommands /\ KeptCommands
      /\ old \in Seq(PlainEntry) /\ (saved = <<>> => Len(old) = 0)
      /\ \A i \in 1..Len(old) : Len(EntryText(old[i])) \in widths
    BY <1>1, Zenon DEF WidthInv, KeptLog
<1>4. PICK text, g, new, both :
        /\ text = Text(term, vote, log) /\ g = Len(Header(term, vote))
        /\ new = text \o SubSeq(file, Len(text) + 1, Len(file))
        /\ both = log \o SubSeq(old, Len(log) + 1, Len(old))
    OBVIOUS
<1>5. /\ content' = new /\ pc' = "running" /\ m_logs' = log
      /\ headers' = headers \cup {g}
    BY <1>1, <1>4 DEF Write, Overwritten, memory
<1>6. kept'.logs = both
    <2>1. kept' = Written(kept, term, vote, log)
        BY <1>1, Zenon DEF Write
    <2>2. kept'.logs = log \o SubSeq(kept.logs, Len(log) + 1, Len(kept.logs))
        BY <2>1 DEF Written
    <2>3. QED  BY <1>1, <1>4, <2>2, Zenon
<1>7. saved' # <<>>
    <2>1. saved' = <<[term |-> term, votedFor |-> vote, logs |-> log]>>
        BY <1>1, Zenon DEF Write
    <2>2. Len(saved') = 1 /\ Len(<<>>) = 0
        BY <2>1
    <2>3. 1 # 0
        OBVIOUS
    <2>4. QED  BY <2>2, <2>3, Zenon
<1>8. widths' = widths \cup {Len(EntryText(log[i])) : i \in 1..Len(log)}
    <2>1. DOMAIN log = 1..Len(log)
        BY <1>2, LenProperties
    <2>2. QED  BY <1>1, <2>1, Zenon DEF Write
<1>9. /\ widths \subseteq widths' /\ headers \subseteq headers' /\ g \in headers'
      /\ \A i \in 1..Len(log) : Len(EntryText(log[i])) \in widths'
    BY <1>5, <1>8, Zenon
<1>10. text \in Seq(Chars) /\ g \in Widths
    <2>1. text \in Seq(Chars)
        BY <1>2, <1>4, TextIs, Zenon
    <2>2. g \in Nat /\ g >= 1
        BY <1>2, <1>4, HeaderType, Zenon
    <2>3. QED  BY <2>1, <2>2 DEF Widths
<1>11. WidthsTyped'
    <2>1. \A i \in 1..Len(log) : Len(EntryText(log[i])) \in Widths
        BY <1>2, WidthOf, ElementOfSeq
    <2>2. QED  BY <1>3, <1>5, <1>8, <1>10, <2>1, Zenon DEF WidthsTyped
<1>12. /\ both \in Seq(PlainEntry) /\ Overlaid(log, old, both)
       /\ Len(log) \in Nat /\ Len(old) \in Nat /\ Len(both) \in Nat
    <2>1. both \in Seq(PlainEntry) /\ Overlaid(log, old, both)
        BY <1>2, <1>3, <1>4, OverlaidIs
    <2>2. QED  BY <1>2, <1>3, <2>1, LenProperties
<1>13. ASSUME NEW i \in 1..Len(both)
       PROVE  \/ \E j \in 1..Len(log) : both[i] = log[j]
              \/ \E j \in 1..Len(old) : both[i] = old[j]
    BY <1>12, OfEither
<1>14. KeptLog'
    <2>1. ASSUME NEW i \in 1..Len(both) PROVE Len(EntryText(both[i])) \in widths'
        BY <1>3, <1>9, <1>13, Zenon
    <2>2. QED  BY <1>6, <1>7, <1>12, <2>1, Zenon DEF KeptLog
<1>15. HeaderSaved'
    <2>1. new \in Seq(Chars) /\ Begins(text, new)
        <3>1. new \in Seq(Chars) /\ Overlaid(text, file, new)
            BY <1>2, <1>4, <1>10, OverlaidIs
        <3>2. Len(text) <= Len(new) /\ \A i \in 1..Len(text) : new[i] = text[i]
            BY <3>1, Zenon DEF Overlaid
        <3>3. QED  BY <3>1, <3>2, Zenon DEF Begins
    <2>2. Begins(Header(term, vote), new)
        <3>1. Len(new) \in Nat
            BY <2>1, LenProperties
        <3>2. Begins(Text(term, vote, log), new)
            BY <1>4, <2>1, Zenon
        <3>3. QED  BY <1>2, <3>1, <3>2, HeaderLeads
    <2>3. Len(Header(term, vote)) \in headers'
        BY <1>4, <1>9, Zenon
    <2>4. QED  BY <1>2, <1>5, <2>2, <2>3, Zenon DEF HeaderSaved, HeaderInFile
<1>16. ShapeSaved'
    <2>1. ASSUME NEW h \in Widths, NEW w \in Widths,
                 headers' \subseteq {h, h + 1}, widths' \subseteq {w}
          PROVE  Shape(new, h, w, both)
        <3>1. Len(Header(term, vote)) \in {h, h + 1}
            BY <1>4, <1>9, <2>1, Zenon
        <3>2. OfWidth(log, w)
            BY <1>9, <2>1 DEF OfWidth
        <3>3. Shape(file, h, w, old) \/ (Len(file) = 0 /\ Len(old) = 0)
            <4>1. CASE saved = <<>>
                BY <1>2, <1>3, <4>1
            <4>2. CASE saved # <<>>
                <5>1. Fits(h, w)
                    BY <1>9, <2>1, Zenon DEF Fits
                <5>2. QED  BY <1>1, <1>3, <4>2, <5>1, Zenon DEF ShapeSaved
            <4>3. QED  BY <4>1, <4>2, Zenon
        <3>4. /\ term \in Int /\ vote \in Int /\ log \in Seq(PlainEntry)
              /\ old \in Seq(PlainEntry) /\ file \in Seq(Chars)
            BY <1>2, <1>3, Zenon
        <3>5. Laid(Text(term, vote, log), file, new) /\ Laid(log, old, both)
            BY <1>4, Zenon DEF Laid
        <3>6. QED  BY <3>1, <3>2, <3>3, <3>4, <3>5, FormWritten
    <2>2. QED  BY <1>5, <1>6, <2>1, Zenon DEF ShapeSaved, Fits
<1>17. ASSUME Equal' PROVE Equal /\ \A i \in 1..Len(log) : log[i].cmd # <<>>
    <2>1. /\ \A x, y \in widths' : x = y
          /\ \A h, k \in headers' : h - k <= 1
        BY <1>17, Zenon DEF Equal
    <2>2. Equal
        BY <1>9, <2>1, Zenon DEF Equal
    <2>3. ASSUME NEW i \in 1..Len(log), log[i].cmd = <<>> PROVE FALSE
        <3>1. OtherWidth(log[i], widths)
            BY <1>1, <1>3, <2>2, <2>3, Zenon DEF MemoryCommands
        <3>2. QED  BY <1>9, <2>1, <3>1, Zenon DEF OtherWidth
    <2>4. QED  BY <2>2, <2>3, Zenon
<1>18. MemoryCommands'
    BY <1>5, <1>17, Zenon DEF MemoryCommands
<1>19. KeptCommands'
    <2>1. ASSUME Equal', NEW i \in 1..Len(both) PROVE both[i].cmd # <<>>
        <3>1. \A j \in 1..Len(old) : old[j].cmd # <<>>
            BY <1>1, <1>3, <1>17, <2>1, Zenon DEF KeptCommands
        <3>2. \A j \in 1..Len(log) : log[j].cmd # <<>>
            BY <1>17, <2>1, Zenon
        <3>3. QED  BY <1>13, <3>1, <3>2, Zenon
    <2>2. QED  BY <1>6, <2>1, Zenon DEF KeptCommands
<1>20. ThrownWidths'
    BY <1>5 DEF ThrownWidths
<1>21. QED
    BY <1>11, <1>14, <1>15, <1>16, <1>18, <1>19, <1>20, Zenon DEF WidthInv

(* With these widths there are two for the header at most and one for the  *)
(* entries.                                                                *)
LEMMA WidthsFit ==
    ASSUME WidthsTyped, Equal, headers # {}
    PROVE  \E h, w \in Widths : Fits(h, w)
<1>1. PICK h \in headers : \A k \in headers : h <= k
    <2>1. headers \in SUBSET Nat
        BY DEF WidthsTyped, Widths
    <2>2. QED  BY <2>1, LeastOf
<1>2. headers \subseteq {h, h + 1}
    BY <1>1 DEF WidthsTyped, Widths, Equal
<1>3. h \in Widths
    BY Zenon DEF WidthsTyped
<1>4. \E w \in Widths : widths \subseteq {w}
    <2>1. CASE widths = {}
        <3>1. 1 \in Widths
            BY DEF Widths
        <3>2. QED  BY <2>1, <3>1, Zenon
    <2>2. CASE widths # {}
        BY <2>2, Zenon DEF WidthsTyped, Equal
    <2>3. QED  BY <2>1, <2>2, Zenon
<1>5. QED  BY <1>2, <1>3, <1>4, Zenon DEF Fits

(* With them deserialize() finds in the file what RaftState takes it for.  *)
LEMMA KeptIsRead ==
    ASSUME TypeInv, WidthInv, Equal, saved # <<>>,
           NEW beyond \in Seq(Nat), Harmless(CString(beyond))
    PROVE  ReadOf(deserialize(content \o beyond), kept.logs, CString(beyond))
<1>1. PICK log, file : log = kept.logs /\ file = content
    OBVIOUS
<1>2. /\ log \in Seq(PlainEntry) /\ file \in Seq(Chars) /\ WidthsTyped
      /\ \A i \in 1..Len(log) : Len(EntryText(log[i])) \in widths
      /\ HeaderInFile(file)
      /\ \A h, w \in Widths : Fits(h, w) => Shape(file, h, w, log)
      /\ \A i \in 1..Len(log) : log[i].cmd # <<>>
    BY <1>1, Zenon
    DEF TypeInv, FileTyped, WidthInv, KeptLog, HeaderSaved, ShapeSaved, KeptCommands
<1>3. PICK term \in Int, vote \in Int :
        Len(Header(term, vote)) \in headers /\ Begins(Header(term, vote), file)
    BY <1>2, Zenon DEF HeaderInFile
<1>4. PICK h \in Widths, w \in Widths : Fits(h, w)
    BY <1>2, <1>3, WidthsFit
<1>5. h \in Nat /\ h >= 1 /\ w \in Nat
    BY DEF Widths
<1>6. PICK g : g = Len(Header(term, vote))
    OBVIOUS
<1>7. PICK d \in {0, 1} : g = h + d
    <2>1. g \in {h, h + 1}
        BY <1>3, <1>4, <1>6, Zenon DEF Fits
    <2>2. h = h + 0
        BY <1>5
    <2>3. QED  BY <2>1, <2>2
<1>8. OfWidth(log, w)
    BY <1>2, <1>4, Zenon DEF OfWidth, Fits
<1>9. Shape(file, h, w, log)
    BY <1>2, <1>4, Zenon
<1>10. ReadOf(deserialize(file \o beyond), log, CString(beyond))
    <2>1. /\ log \in Seq(PlainEntry) /\ file \in Seq(Chars)
          /\ \A i \in 1..Len(log) : log[i].cmd # <<>>
          /\ Begins(Header(term, vote), file)
        BY <1>2, <1>3, Zenon
    <2>2. QED  BY <1>5, <1>6, <1>7, <1>8, <1>9, <2>1, ShapeRead
<1>11. QED  BY <1>1, <1>10, Zenon

(* Memory that is harmless has only sound entries.                         *)
LEMMA BeyondHarmless ==
    ASSUME HarmlessMemory, NEW beyond \in Beyond
    PROVE  beyond \in Seq(Nat) /\ Harmless(CString(beyond))
<1>1. beyond \in Seq(Nat)
    BY FileAssumption
<1>2. Harmless(CString(beyond))
    BY Zenon DEF HarmlessMemory, Harmless
<1>3. QED  BY <1>1, <1>2

(* An entry without a command that was read was saved with one character.  *)
LEMMA ReadCommands ==
    ASSUME NEW logs, NEW log \in Seq(PlainEntry), NEW y, LogOf(logs, log, y),
           \A k \in 1..Len(log) : /\ log[k].cmd # <<>>
                                  /\ Len(EntryText(log[k])) \in widths,
           NEW i \in 1..Len(logs), logs[i].cmd = <<>>
    PROVE  OtherWidth(logs[i], widths)
<1>1. PICK n : n = Len(log)
    OBVIOUS
<1>2. n \in Nat /\ Len(logs) \in Nat
    BY <1>1, LenProperties, Zenon DEF LogOf
<1>3. i \in 1..n
    <2>1. i \notin (n + 1)..Len(logs)
        BY <1>1, Zenon DEF LogOf
    <2>2. QED  BY <1>2, <2>1
<1>4. logs[i] = Short(log[i]) /\ log[i].cmd # <<>> /\ Len(EntryText(log[i])) \in widths
    BY <1>1, <1>3, Zenon DEF LogOf
<1>5. PICK e, w : e = log[i] /\ w = Len(EntryText(e))
    OBVIOUS
<1>6. e \in PlainEntry
    BY <1>1, <1>3, <1>5, ElementOfSeq
<1>7. Len(EntryText(Short(e))) = w - 1 /\ w \in Widths
    BY <1>4, <1>5, <1>6, ShortIs, WidthOf
<1>8. Len(EntryText(Short(e))) # w
    BY <1>7 DEF Widths
<1>9. QED  BY <1>4, <1>5, <1>8, Zenon DEF OtherWidth

(* A read does not end the process with these widths, nor bring entries    *)
(* without a command that they have.                                       *)
LEMMA ReadsWidths ==
    ASSUME HarmlessMemory, FileInv, TypeInv, WidthInv, SameFile,
           NEW beyond \in Beyond, readRaftState(beyond)
    PROVE  MemoryCommands' /\ ThrownWidths'
<1>1. PICK buffer, read, log : /\ buffer = content \o beyond
                               /\ read = deserialize(buffer) /\ log = kept.logs
    OBVIOUS
<1>2. widths' = widths /\ headers' = headers
    BY DEF SameFile
<1>3. Equal' => Equal
    BY <1>2, Zenon DEF Equal
<1>4. ASSUME Equal, read.outcome # "undefined"
      PROVE  ReadOf(read, log, CString(beyond))
    <2>1. saved # <<>>
        BY <1>1, <1>4, OnlySavedIsRead
    <2>2. beyond \in Seq(Nat) /\ Harmless(CString(beyond))
        BY BeyondHarmless
    <2>3. ReadOf(deserialize(content \o beyond), kept.logs, CString(beyond))
        BY <1>4, <2>1, <2>2, KeptIsRead
    <2>4. QED  BY <1>1, <2>3, Zenon
<1>5. MemoryCommands
    BY Zenon DEF WidthInv
<1>6. CASE read.outcome # "running"
    <2>1. UNCHANGED memory /\ pc' = read.outcome
        BY <1>1, <1>6, Zenon DEF readRaftState
    <2>2. m_logs' = m_logs
        BY <2>1 DEF memory
    <2>3. MemoryCommands'
        BY <1>2, <1>3, <1>5, <2>2, Zenon DEF MemoryCommands
    <2>4. ASSUME pc' = "thrown", Equal PROVE FALSE
        <3>1. read.outcome # "undefined"
            BY <2>1, <2>4
        <3>2. read.outcome = "running"
            BY <1>4, <2>4, <3>1, Zenon DEF ReadOf
        <3>3. QED  BY <1>6, <3>2
    <2>5. ThrownWidths'
        BY <1>3, <2>4, Zenon DEF ThrownWidths
    <2>6. QED  BY <2>3, <2>5
<1>7. CASE read.outcome = "running"
    <2>1. m_logs' = m_logs \o read.logs /\ pc' = "running"
        BY <1>1, <1>7, Zenon DEF readRaftState
    <2>2. ThrownWidths'
        BY <2>1 DEF ThrownWidths
    <2>3. PICK logs, all : logs = read.logs /\ all = m_logs \o logs
        OBVIOUS
    <2>4. m_logs \in Seq(PlainEntry) /\ logs \in Seq(PlainEntry)
        <3>1. buffer \in Seq(Nat)
            BY <1>1, BufferIs, Zenon DEF FileInv
        <3>2. CleanState(read.term, read.votedFor, read.logs)
            BY <1>1, <1>7, <3>1, ReadIsClean
        <3>3. QED  BY <2>3, <3>2, Zenon DEF CleanState, FileInv
    <2>5. Both(m_logs, logs, all)
        BY <2>3, <2>4, BothTexts
    <2>6. PICK n, m : n = Len(m_logs) /\ m = Len(logs)
        OBVIOUS
    <2>7. /\ n \in Nat /\ m \in Nat /\ Len(all) = n + m
          /\ \A i \in 1..n : all[i] = m_logs[i]
          /\ \A i \in 1..m : all[n + i] = logs[i]
        <3>1. n \in Nat /\ m \in Nat
            BY <2>4, <2>6, LenProperties
        <3>2. QED  BY <2>5, <2>6, <3>1, Zenon DEF Both
    <2>8. ASSUME Equal, NEW i \in 1..Len(all), all[i].cmd = <<>>
          PROVE  OtherWidth(all[i], widths)
        <3>1. CASE i \in 1..n
            BY <1>5, <2>6, <2>7, <2>8, <3>1, Zenon DEF MemoryCommands
        <3>2. CASE i \notin 1..n
            <4>1. PICK j \in 1..m : i = n + j
                <5>1. i - n \in 1..m /\ i = n + (i - n)
                    BY <2>7, <3>2
                <5>2. QED  BY <5>1
            <4>2. all[i] = logs[j] /\ j \in 1..Len(logs)
                BY <2>6, <2>7, <4>1, Zenon
            <4>3. LogOf(logs, log, CString(beyond))
                <5>1. read.outcome # "undefined"
                    BY <1>7
                <5>2. QED  BY <1>4, <2>3, <2>8, <5>1, Zenon DEF ReadOf
            <4>4. /\ log \in Seq(PlainEntry)
                  /\ \A k \in 1..Len(log) : /\ log[k].cmd # <<>>
                                            /\ Len(EntryText(log[k])) \in widths
                BY <1>1, <2>8, Zenon DEF WidthInv, KeptLog, KeptCommands
            <4>5. logs[j].cmd = <<>>
                BY <2>8, <4>2, Zenon
            <4>6. OtherWidth(logs[j], widths)
                BY <4>2, <4>3, <4>4, <4>5, ReadCommands
            <4>7. QED  BY <4>2, <4>6, Zenon
        <3>3. QED  BY <3>1, <3>2
    <2>9. m_logs' = all
        BY <2>1, <2>3, Zenon
    <2>10. MemoryCommands'
        BY <1>2, <1>3, <2>8, <2>9, Zenon DEF MemoryCommands
    <2>11. QED  BY <2>2, <2>10
<1>8. QED  BY <1>6, <1>7

(* A node starts, or a running one reads the file back.                    *)
LEMMA StartWidths ==
    ASSUME HarmlessMemory, FileInv, TypeInv, WidthInv, NEW beyond \in Beyond,
           Start(beyond) \/ ReadBack(beyond)
    PROVE  WidthInv'
<1>1. SameFile
    BY DEF Start, ReadBack, history, SameFile
<1>2. MemoryCommands' /\ ThrownWidths'
    <2>1. CASE readRaftState(beyond)
        BY <1>1, <2>1, ReadsWidths
    <2>2. CASE pc' = "running" /\ UNCHANGED memory
        <3>1. m_logs' = m_logs /\ pc' = "running"
            BY <2>2 DEF memory
        <3>2. widths' = widths /\ headers' = headers
            BY <1>1 DEF SameFile
        <3>3. MemoryCommands'
            BY <3>1, <3>2, Zenon DEF MemoryCommands, Equal, WidthInv
        <3>4. ThrownWidths'
            BY <3>1 DEF ThrownWidths
        <3>5. QED  BY <3>3, <3>4
    <2>3. QED  BY <2>1, <2>2, Zenon DEF Start, ReadBack
<1>3. QED  BY <1>1, <1>2, SameFileWidths

(* So it stays while writes are whole, when memory is harmless.            *)
WidthWhole == WritesWhole => WidthInv
LEMMA WidthsAlways ==
    HarmlessMemory => (Spec => [](FileInv /\ TypedWhole /\ WidthWhole))
<1> SUFFICES ASSUME HarmlessMemory
             PROVE  Spec => [](FileInv /\ TypedWhole /\ WidthWhole)
    OBVIOUS
<1>1. ASSUME FileInv, TypedWhole, WidthWhole, [Next]_vars PROVE WidthWhole'
    <2> SUFFICES ASSUME WritesWhole' PROVE WidthInv'
        BY Zenon DEF WidthWhole
    <2>0. TypeInv /\ WidthInv /\ ~WriteShort
        BY <1>1, WholeBefore, Zenon DEF TypedWhole, WidthWhole
    <2>1. ASSUME NEW term \in Terms \cup {m_curTerm},
                 NEW vote \in Voted \cup {None, m_votedFor},
                 NEW cut \in 0..Len(m_logs), NEW added \in SeqOf(Entry, MaxAdded),
                 Open(term, vote, cut, added)
          PROVE  WidthInv'
        BY <1>1, <2>1, <2>0, OpenWidths
    <2>2. CASE Write
        BY <1>1, <2>2, <2>0, WriteWidths
    <2>3. CASE Crash
        BY <1>1, <2>3, <2>0, CrashWidths
    <2>4. ASSUME NEW beyond \in Beyond, Start(beyond) \/ ReadBack(beyond)
          PROVE  WidthInv'
        BY <1>1, <2>4, <2>0, StartWidths
    <2>5. CASE UNCHANGED vars
        <3>1. SameFile /\ m_logs' = m_logs /\ pc' = pc
            BY <2>5 DEF vars, memory, history, SameFile
        <3>2. widths' = widths /\ headers' = headers
            BY <3>1 DEF SameFile
        <3>3. MemoryCommands'
            BY <2>0, <3>1, <3>2, Zenon DEF MemoryCommands, Equal, WidthInv
        <3>4. ThrownWidths'
            BY <2>0, <3>1, <3>2, Zenon DEF ThrownWidths, Equal, WidthInv
        <3>5. QED  BY <1>1, <3>1, <3>3, <3>4, <2>0, SameFileWidths
    <2>6. QED  BY <1>1, <2>0, <2>1, <2>2, <2>3, <2>4, <2>5, Zenon DEF Next
<1>2. Spec => [](FileInv /\ TypedWhole)
    BY TypedAlways
<1>3. Init => WidthWhole
    BY InitWidths, Zenon DEF WidthWhole
<1>4. QED  BY <1>1, <1>2, <1>3, PTL DEF Spec

(* There are finitely many widths.                                         *)
Finite == IsFiniteSet(widths)

(* A save adds those of the entries of one log.                            *)
LEMMA FiniteWidths == Spec => []Finite
<1>1. Init => Finite
    BY FS_EmptySet DEF Init, Finite
<1>2. ASSUME FileInv, Finite, [Next]_vars PROVE Finite'
    <2>1. CASE Write
        <3>1. PICK n, new : /\ n = Len(m_logs)
                            /\ new = {Len(EntryText(m_logs[i])) : i \in 1..n}
            OBVIOUS
        <3>2. DOMAIN m_logs = 1..n /\ n \in Nat
            BY <1>2, <3>1, LenProperties DEF FileInv, CleanState
        <3>3. widths' = widths \cup new
            BY <2>1, <3>1, <3>2, Zenon DEF Write
        <3>4. PICK f : f = [i \in 1..n |-> Len(EntryText(m_logs[i]))]
            OBVIOUS
        <3>5. f \in Surjection(1..n, new)
            BY <3>1, <3>4 DEF Surjection
        <3>6. IsFiniteSet(1..n)
            <4>1. 1 \in Int /\ n \in Int
                BY <3>2
            <4>2. QED  BY <4>1, FS_Interval
        <3>7. IsFiniteSet(new)
            BY <3>5, <3>6, FS_Surjection
        <3>8. IsFiniteSet(widths \cup new)
            BY <1>2, <3>7, FS_Union DEF Finite
        <3>9. QED  BY <3>3, <3>8, Zenon DEF Finite
    <2>2. CASE widths' = widths
        BY <1>2, <2>2, Zenon DEF Finite
    <2>3. QED
        BY <1>2, <2>1, <2>2, Zenon
        DEF Next, Open, WriteShort, Crash, Start, ReadBack, history, vars
<1>3. QED  BY <1>1, <1>2, FileAlways, PTL DEF Spec

(* That there is one of them, and that headers differ by a character.      *)
LEMMA EqualIs ==
    ASSUME EqualWidths, Finite
    PROVE  Equal
<1>1. Cardinality(widths) <= 1 /\ \A h, k \in headers : h - k <= 1
    BY DEF EqualWidths
<1>2. ASSUME NEW x \in widths, NEW y \in widths, x # y PROVE FALSE
    <2>1. IsFiniteSet({x}) /\ Cardinality({x}) = 1
        BY FS_Singleton
    <2>2. PICK u : u = {x} \cup {y}
        OBVIOUS
    <2>3. Cardinality(u) = 2
        <3>1. y \notin {x}
            BY <1>2
        <3>2. Cardinality(u) = Cardinality({x}) + 1
            BY <2>1, <2>2, <3>1, FS_AddElement, Zenon
        <3>3. QED  BY <2>1, <3>2
    <2>4. u \in SUBSET widths
        BY <2>2
    <2>5. Cardinality(u) <= Cardinality(widths) /\ Cardinality(widths) \in Nat
        BY <2>4, FS_Subset, FS_CardinalityType DEF Finite
    <2>6. QED  BY <1>1, <2>3, <2>5
<1>3. QED  BY <1>1, <1>2, Zenon DEF Equal

(* Whatever was saved, with entries of one width and with terms and votes  *)
(* that together differ by a character at most, while no write() was cut   *)
(* short, however often the process was lost: the file parses to as many   *)
(* entries as RaftState takes it for, of the same terms, and at most the   *)
(* first character of a command is lost; if what lies behind the buffer is *)
(* harmless, since a node writes again what it has read.                   *)
THEOREM TailIsAsWritten == HarmlessMemory => (Spec => []TailAsWritten)
<1> SUFFICES ASSUME HarmlessMemory PROVE Spec => []TailAsWritten
    OBVIOUS
<1>1. ASSUME TypedWhole, WidthWhole, Finite PROVE TailAsWritten
    <2> SUFFICES ASSUME WritesWhole, EqualWidths, saved # <<>>,
                        NEW read, read = Read(<<>>)
                 PROVE  /\ read.outcome = "running"
                        /\ Len(read.logs) = Len(kept.logs)
                        /\ \A i \in DOMAIN kept.logs :
                             /\ read.logs[i].term = kept.logs[i].term
                             /\ read.logs[i].cmd
                                  \in {kept.logs[i].cmd, Tail(kept.logs[i].cmd)}
        BY Zenon DEF TailAsWritten
    <2>0. TypeInv /\ WidthInv
        BY <1>1, Zenon DEF TypedWhole, WidthWhole
    <2>1. Equal
        BY <1>1, EqualIs
    <2>2. PICK y : y = CString(<<>>)
        OBVIOUS
    <2>3. <<>> \in Seq(Nat) /\ Len(y) = 0
        <3>1. Len(<<>>) = 0 /\ <<>> \in Seq(Nat)
            OBVIOUS
        <3>2. Before(<<>>, {NUL}) = 0
            BY <3>1, BeforeIs DEF GoesTo
        <3>3. y = SubSeq(<<>>, 1, 0)
            BY <2>2, <3>2, Zenon DEF CString
        <3>4. QED  BY <3>1, <3>3
    <2>4. Harmless(CString(<<>>))
        <3>1. ASSUME NEW a \in 0..Len(y), NEW b \in 0..Len(y) PROVE ~EntryLies(y, a, b)
            <4>1. ~(a < b)
                BY <2>3
            <4>2. QED  BY <4>1, Zenon DEF EntryLies
        <3>2. QED  BY <2>2, <3>1, Zenon DEF Harmless
    <2>5. PICK log, logs : log = kept.logs /\ logs = read.logs
        OBVIOUS
    <2>6. read.outcome = "running" /\ LogOf(logs, log, y)
        <3>1. ReadOf(deserialize(content \o <<>>), kept.logs, CString(<<>>))
            BY <2>0, <2>1, <2>3, <2>4, KeptIsRead
        <3>2. ReadOf(read, log, y)
            BY <2>2, <2>5, <3>1, Zenon DEF Read
        <3>3. QED  BY <2>5, <3>2, Zenon DEF ReadOf
    <2>7. log \in Seq(PlainEntry)
        BY <2>0, <2>5, Zenon DEF WidthInv, KeptLog
    <2>8. PICK n, m : n = Len(log) /\ m = Len(logs)
        OBVIOUS
    <2>9. /\ n <= m /\ m \in Nat
          /\ \A k \in 1..n : logs[k] = log[k] \/ logs[k] = Short(log[k])
          /\ \A k \in (n + 1)..m : Len(y) # 0
        BY <2>6, <2>8, Zenon DEF LogOf
    <2>10. n \in Nat /\ DOMAIN log = 1..n
        BY <2>7, <2>8, LenProperties
    <2>11. n = m
        BY <2>3, <2>9, <2>10
    <2>12. ASSUME NEW i \in 1..n
           PROVE  /\ logs[i].term = log[i].term
                  /\ logs[i].cmd \in {log[i].cmd, Tail(log[i].cmd)}
        <3>1. PICK e : e = log[i]
            OBVIOUS
        <3>2. Short(e).term = e.term /\ Short(e).cmd = Tail(e.cmd)
            BY DEF Short
        <3>3. logs[i] = e \/ logs[i] = Short(e)
            BY <2>9, <3>1, Zenon
        <3>4. QED  BY <3>1, <3>2, <3>3, Zenon
    <2>13. QED  BY <2>5, <2>6, <2>8, <2>10, <2>11, <2>12, Zenon
<1>2. Spec => [](FileInv /\ TypedWhole /\ WidthWhole)
    BY WidthsAlways
<1>3. QED  BY <1>1, <1>2, FiniteWidths, PTL

(* deserialize() throws, and the process ends, only on a file that saves   *)
(* may have left a fragment in, with entries of different widths, terms    *)
(* and votes that grew by more than a character, or a write() that was cut *)
(* short; if what lies behind the buffer is harmless.                      *)
THEOREM OnlyFragmentsThrow == HarmlessMemory => (Spec => []ThrowsOnFragments)
<1> SUFFICES ASSUME HarmlessMemory PROVE Spec => []ThrowsOnFragments
    OBVIOUS
<1>1. ASSUME WidthWhole, Finite PROVE ThrowsOnFragments
    <2>1. EqualWidths => Equal
        BY <1>1, EqualIs
    <2>2. WritesWhole /\ pc = "thrown" => ~Equal
        BY <1>1, Zenon DEF WidthWhole, WidthInv, ThrownWidths
    <2>3. QED  BY <2>1, <2>2, Zenon DEF ThrowsOnFragments
<1>2. Spec => [](FileInv /\ TypedWhole /\ WidthWhole)
    BY WidthsAlways
<1>3. QED  BY <1>1, <1>2, FiniteWidths, PTL
=============================================================================
