--------------------------- MODULE RpcValueProofs ---------------------------
(***************************************************************************)
(* Proofs about the values that the RPC library carries, byte for byte.    *)
(*                                                                         *)
(* The Serializer reads back what it has written, whatever memory holds    *)
(* beyond it: but for strings too long for their length, each value comes  *)
(* back as it was.  So functions get the arguments their callers passed,   *)
(* callers what the functions returned, and main() of the worker the       *)
(* numbers of the master.                                                  *)
(*                                                                         *)
(* Induction over the bytes and the values of a message is by the least    *)
(* number for which what is to be proved would fail.                       *)
(***************************************************************************)
EXTENDS ButtonRpcProofs, SequenceTheorems, WellFoundedInduction

(* The order of the natural numbers, as a relation.                        *)
Less == {p \in Nat \X Nat : p[1] < p[2]}

(* The natural numbers are well ordered by <.                              *)
LEMMA LessWellFounded == IsWellFoundedOn(Less, Nat)
    BY NatLessThanWellFounded DEF OpToRel, Less

(* A set of naturals that is not empty has a least member.                 *)
LEMMA LeastOf ==
    ASSUME NEW S \in SUBSET Nat, S # {}
    PROVE  \E n \in S : \A m \in S : n <= m
<1>1. PICK n \in S : \A m \in S : <<m, n>> \notin Less
    BY LessWellFounded, WFMin
<1>2. ASSUME NEW m \in S PROVE n <= m
    <2>1. <<m, n>> \in Nat \X Nat /\ <<m, n>>[1] = m /\ <<m, n>>[2] = n
        OBVIOUS
    <2>2. QED  BY <1>1, <2>1 DEF Less
<1>3. QED  BY <1>2

(* Induction.                                                              *)
LEMMA InductionOn ==
    ASSUME NEW S, 0 \in S, \A n \in Nat : n \in S => n + 1 \in S
    PROVE  \A n \in Nat : n \in S
<1> SUFFICES ASSUME Nat \ S # {} PROVE FALSE
    OBVIOUS
<1>1. PICK n \in Nat \ S : \A m \in Nat \ S : n <= m
    BY LeastOf
<1>2. n # 0 /\ n - 1 \in S
    BY <1>1
<1>3. QED  BY <1>1, <1>2

(* A function may be defined by recursion on an initial segment of Nat.    *)
Follows(f, n, first, step) ==
    /\ f[0] = first
    /\ \A k \in 1..n : f[k] = step[k][f[k - 1]]

(* There is such a function.                                               *)
LEMMA Recursion ==
    ASSUME NEW n \in Nat, NEW S, NEW first \in S, NEW step \in [1..n -> [S -> S]]
    PROVE  \E f \in [0..n -> S] : Follows(f, n, first, step)
<1> DEFINE T == {m \in Nat : m <= n =>
                    \E f \in [0..m -> S] : Follows(f, m, first, step)}
<1>1. 0 \in T
    <2> DEFINE g == [k \in 0..0 |-> first]
    <2>1. g \in [0..0 -> S] /\ g[0] = first
        OBVIOUS
    <2> HIDE DEF g
    <2>2. Follows(g, 0, first, step)
        BY <2>1 DEF Follows
    <2>3. QED  BY <2>1, <2>2
<1>2. ASSUME NEW m \in Nat, m \in T PROVE m + 1 \in T
    <2> SUFFICES ASSUME m + 1 <= n
                 PROVE  \E f \in [0..(m + 1) -> S] :
                            Follows(f, m + 1, first, step)
        OBVIOUS
    <2>1. PICK f \in [0..m -> S] : Follows(f, m, first, step)
        BY <1>2
    <2> DEFINE g == [k \in 0..(m + 1) |->
                       IF k <= m THEN f[k] ELSE step[m + 1][f[m]]]
    <2>2. g \in [0..(m + 1) -> S]
        OBVIOUS
    <2>3. Follows(g, m + 1, first, step)
        BY <2>1 DEF Follows
    <2> HIDE DEF g
    <2>4. QED  BY <2>2, <2>3
<1>3. n \in T
    <2> HIDE DEF T
    <2>1. QED  BY <1>1, <1>2, InductionOn
<1>4. QED  BY <1>3
-----------------------------------------------------------------------------
(* A byte.                                                                 *)
LEMMA ByteIs == \A b : b \in Byte <=> b \in Int /\ 0 <= b /\ b <= 255
    BY DEF Byte

(* What each byte of a number counts.                                      *)
Weight(k) == 256^(k - 1)

(* They are, for the bytes of a number of up to 32 bits.                   *)
LEMMA WeightIs ==
    /\ Weight(1) = 1 /\ Weight(2) = 256
    /\ Weight(3) = 65536 /\ Weight(4) = 16777216
BY DEF Weight

(* What the bytes of a number are.                                         *)
LEMMA BytesAre ==
    ASSUME NEW n \in Int, NEW w \in 1..4
    PROVE  /\ BytesOf(n, w) \in Seq(Byte) /\ Len(BytesOf(n, w)) = w
           /\ \A k \in 1..w : BytesOf(n, w)[k] = (n \div Weight(k)) % 256
<1> DEFINE s == BytesOf(n, w)
<1>1. s = [k \in 1..w |-> (n \div Weight(k)) % 256]
    BY DEF BytesOf, Weight
<1>2. ASSUME NEW k \in 1..w PROVE (n \div Weight(k)) % 256 \in Byte
    <2>1. k = 1 \/ k = 2 \/ k = 3 \/ k = 4
        OBVIOUS
    <2>2. n \div Weight(k) \in Int
        BY <2>1, WeightIs
    <2>3. \A x \in Int : x % 256 \in Byte
        BY ByteIs
    <2>4. QED  BY <2>2, <2>3
<1>3. s \in [1..w -> Byte]
    BY <1>1, <1>2
<1>4. s \in Seq(Byte) /\ Len(s) = w
    BY <1>3
<1>5. QED  BY <1>1, <1>4

(* The sums of what bytes count, each the one before it and one more.      *)
Sums(f, n, b) ==
    f = [k \in 0..n |-> IF k = 0 THEN 0 ELSE f[k - 1] + b[k] * Weight(k)]

(* The sums, one by one.                                                   *)
LEMMA SumsUnfold ==
    ASSUME NEW n \in Nat, NEW b, NEW sum, Sums(sum, n, b)
    PROVE  /\ sum[0] = 0
           /\ \A k \in 1..n : sum[k] = sum[k - 1] + b[k] * Weight(k)
BY DEF Sums

(* There are such sums.                                                    *)
LEMMA SumsExist ==
    ASSUME NEW n \in Nat, NEW b, \A k \in 1..n : b[k] * Weight(k) \in Int
    PROVE  \E sum : Sums(sum, n, b)
<1> DEFINE step == [k \in 1..n |-> [x \in Int |-> x + b[k] * Weight(k)]]
<1>1. step \in [1..n -> [Int -> Int]]
    OBVIOUS
<1>2. PICK g \in [0..n -> Int] : Follows(g, n, 0, step)
    <2> DEFINE S == Int
    <2>1. 0 \in S /\ step \in [1..n -> [S -> S]]
        BY <1>1
    <2> HIDE DEF step, S
    <2>2. \E g \in [0..n -> S] : Follows(g, n, 0, step)
        BY <2>1, Recursion
    <2>3. QED  BY <2>2 DEF S
<1>3. ASSUME NEW k \in 1..n PROVE g[k] = g[k - 1] + b[k] * Weight(k)
    <2>1. \A x \in Int : step[k][x] = x + b[k] * Weight(k)
        OBVIOUS
    <2> HIDE DEF step
    <2>2. g[k - 1] \in Int /\ g[k] = step[k][g[k - 1]]
        BY <1>2 DEF Follows
    <2>3. QED  BY <2>1, <2>2
<1>4. g[0] = 0
    BY <1>2 DEF Follows
<1>5. Sums(g, n, b)
    BY <1>3, <1>4 DEF Sums
<1>6. QED  BY <1>5

(* The number that up to three bytes make is such a sum.                   *)
LEMMA UnsignedSums ==
    ASSUME NEW b \in Seq(Byte), Len(b) <= 3
    PROVE  \E sum : Sums(sum, Len(b), b) /\ Unsigned(b) = sum[Len(b)]
<1>1. ASSUME NEW k \in 1..Len(b) PROVE b[k] * Weight(k) \in Int
    <2>1. b[k] \in Int /\ (k = 1 \/ k = 2 \/ k = 3)
        BY ByteIs
    <2>2. QED  BY <2>1, WeightIs
<1>2. \E sum : Sums(sum, Len(b), b)
    <2>1. Len(b) \in Nat
        OBVIOUS
    <2>2. QED  BY <1>1, <2>1, SumsExist, Zenon
<1>3. Unsigned(b) = (CHOOSE f : Sums(f, Len(b), b))[Len(b)]
    BY DEF Unsigned, Weight, Sums
<1>4. QED  BY <1>2, <1>3

(* The numbers that one, two and three bytes make.                         *)
LEMMA UnsignedIs ==
    ASSUME NEW b \in Seq(Byte)
    PROVE  /\ Len(b) = 1 => Unsigned(b) = b[1]
           /\ Len(b) = 2 => Unsigned(b) = b[1] + b[2] * 256
           /\ Len(b) = 3 => Unsigned(b) = b[1] + b[2] * 256 + b[3] * 65536
<1> SUFFICES ASSUME NEW n \in 1..3, n = Len(b)
             PROVE  /\ n = 1 => Unsigned(b) = b[1]
                    /\ n = 2 => Unsigned(b) = b[1] + b[2] * 256
                    /\ n = 3 => Unsigned(b) = b[1] + b[2] * 256 + b[3] * 65536
    OBVIOUS
<1>1. PICK sum : Sums(sum, n, b) /\ Unsigned(b) = sum[n]
    <2>1. Len(b) <= 3
        OBVIOUS
    <2>2. \E sum : Sums(sum, Len(b), b) /\ Unsigned(b) = sum[Len(b)]
        BY <2>1, UnsignedSums
    <2>3. QED  BY <2>2
<1>2. \A k \in 1..n : b[k] \in Int
    BY ByteIs
<1>3. /\ sum[0] = 0
      /\ \A k \in 1..n : sum[k] = sum[k - 1] + b[k] * Weight(k)
    BY <1>1, SumsUnfold
<1>4. sum[1] = b[1]
    BY <1>2, <1>3, WeightIs
<1>5. n > 1 => sum[2] = b[1] + b[2] * 256
    BY <1>2, <1>3, <1>4, WeightIs
<1>6. n > 2 => sum[3] = b[1] + b[2] * 256 + b[3] * 65536
    BY <1>2, <1>3, <1>5, WeightIs
<1>7. Unsigned(b) = sum[n]
    BY <1>1
<1>8. CASE n = 1
    BY <1>4, <1>7, <1>8
<1>9. CASE n = 2
    BY <1>5, <1>7, <1>9
<1>10. CASE n = 3
    BY <1>6, <1>7, <1>10
<1>11. QED  BY <1>8, <1>9, <1>10

(* A number that fits in its bytes is read as it was written.              *)
LEMMA NumberComesBack ==
    ASSUME NEW n \in Int
    PROVE  /\ n \in Int32 => Signed(BytesOf(n, 4)) = n
           /\ 0 <= n /\ n < 256 => Unsigned(BytesOf(n, 1)) = n
           /\ 0 <= n /\ n < 65536 => Unsigned(BytesOf(n, 2)) = n
<1>0. 1 \in 1..4 /\ 2 \in 1..4 /\ 4 \in 1..4
    OBVIOUS
<1>1. ASSUME n \in Int32, NEW s, s = BytesOf(n, 4) PROVE Signed(s) = n
    <2> DEFINE low == SubSeq(s, 1, 3)
    <2>1. /\ s \in Seq(Byte) /\ Len(s) = 4
          /\ \A k \in 1..4 : s[k] = (n \div Weight(k)) % 256
        BY <1>0, <1>1, BytesAre
    <2>2. /\ s[1] = n % 256 /\ s[2] = (n \div 256) % 256
          /\ s[3] = (n \div 65536) % 256 /\ s[4] = (n \div 16777216) % 256
        BY <2>1, WeightIs
    <2>3. /\ low \in Seq(Byte) /\ Len(low) = 3
          /\ low[1] = s[1] /\ low[2] = s[2] /\ low[3] = s[3]
        <3>1. s \in Seq(Byte) /\ Len(s) = 4
            BY <2>1
        <3>2. QED  BY <3>1
    <2> HIDE DEF low
    <2>4. Unsigned(low) = s[1] + s[2] * 256 + s[3] * 65536
        BY <2>3, UnsignedIs
    <2>5. Signed(s) = Unsigned(low)
                        + (IF s[4] < 128 THEN s[4] ELSE s[4] - 256) * 16777216
        <3>1. Len(s) - 1 = 3 /\ 256^3 = 16777216
            BY <2>1
        <3>2. Signed(s) = Unsigned(SubSeq(s, 1, Len(s) - 1))
                    + (IF s[Len(s)] < 128 THEN s[Len(s)] ELSE s[Len(s)] - 256)
                        * 256^(Len(s) - 1)
            BY DEF Signed
        <3>3. QED  BY <2>1, <3>1, <3>2 DEF low
    <2>6. (n \div 16777216) = IF s[4] < 128 THEN s[4] ELSE s[4] - 256
        BY <1>1, <2>2 DEF Int32
    <2>7. n = (n % 256) + ((n \div 256) % 256) * 256
                + ((n \div 65536) % 256) * 65536 + (n \div 16777216) * 16777216
        OBVIOUS
    <2>8. QED  BY <2>2, <2>4, <2>5, <2>6, <2>7
<1>2. ASSUME 0 <= n, n < 256, NEW s, s = BytesOf(n, 1) PROVE Unsigned(s) = n
    <2>1. /\ s \in Seq(Byte) /\ Len(s) = 1
          /\ \A k \in 1..1 : s[k] = (n \div Weight(k)) % 256
        BY <1>0, <1>2, BytesAre
    <2>2. s[1] = n
        BY <1>2, <2>1, WeightIs
    <2>3. QED  BY <2>1, <2>2, UnsignedIs
<1>3. ASSUME 0 <= n, n < 65536, NEW s, s = BytesOf(n, 2) PROVE Unsigned(s) = n
    <2>1. /\ s \in Seq(Byte) /\ Len(s) = 2
          /\ \A k \in 1..2 : s[k] = (n \div Weight(k)) % 256
        BY <1>0, <1>3, BytesAre
    <2>2. s[1] = n % 256 /\ s[2] = (n \div 256) % 256
        BY <2>1, WeightIs
    <2>3. (n % 256) + ((n \div 256) % 256) * 256 = n
        BY <1>3
    <2>4. QED  BY <2>1, <2>2, <2>3, UnsignedIs
<1>4. QED  BY <1>1, <1>2, <1>3
-----------------------------------------------------------------------------
(* The bytes of a value, and what of the value they give back: of a string *)
(* as much as its length, which may have wrapped, says.                    *)
Encoded(type, value) == input_type(<<>>, type, value)
Wrapped(text) == Len(text) % LengthLimit
Arrived(type, value) ==
    IF type = "string" THEN SubSeq(value, 1, Wrapped(value)) ELSE value

(* The numbers of each type.                                              *)
LEMMA ValuesAre ==
    /\ DOMAIN Values = {"int", "bool", "void", "code", "string"}
    /\ Values["string"] = Seq(Byte) /\ Values["int"] = Int32
    /\ Values["bool"] = {0, 1} /\ Values["void"] = {0}
    /\ Values["code"] = UInt16
BY DEF Values

(* Int32 and UInt16 are sets of numbers.                                   *)
LEMMA Int32Is == \A n \in Int32 : n \in Int
    BY DEF Int32

LEMMA UInt16Is == \A n \in UInt16 : n \in Nat /\ n < 65536
    BY DEF UInt16

(* How many bytes a type other than a string has.                          *)
LEMMA SizesAre ==
    /\ sizeof["int"] = 4 /\ sizeof["bool"] = 1
    /\ sizeof["void"] = 1 /\ sizeof["code"] = 2
BY DEF sizeof

(* A number is written in as many bytes as its type has, and comes back.   *)
LEMMA NumberEncoded ==
    ASSUME NEW type \in DOMAIN Values \ {"string"}, NEW n \in Values[type]
    PROVE  /\ sizeof[type] \in 1..4
           /\ Encoded(type, n) = BytesOf(n, sizeof[type])
           /\ Encoded(type, n) \in Seq(Byte)
           /\ Len(Encoded(type, n)) = sizeof[type]
           /\ n = IF type = "int" THEN Signed(Encoded(type, n))
                  ELSE Unsigned(Encoded(type, n))
<1>1. type \in {"int", "bool", "void", "code"}
    BY ValuesAre
<1>2. n \in Int /\ sizeof[type] \in 1..4
    BY <1>1, ValuesAre, SizesAre, Int32Is, UInt16Is
<1>3. /\ BytesOf(n, sizeof[type]) \in Seq(Byte)
      /\ Len(BytesOf(n, sizeof[type])) = sizeof[type]
    <2>1. \A w \in 1..4 : BytesOf(n, w) \in Seq(Byte) /\ Len(BytesOf(n, w)) = w
        BY <1>2, BytesAre
    <2>2. QED  BY <1>2, <2>1
<1>4. Encoded(type, n) = BytesOf(n, sizeof[type])
    <2>1. Encoded(type, n) = <<>> \o BytesOf(n, sizeof[type])
        BY DEF Encoded, input_type
    <2>2. QED  BY <1>3, <2>1
<1>5. ASSUME type = "int" PROVE n = Signed(Encoded(type, n))
    BY <1>2, <1>4, <1>5, ValuesAre, SizesAre, NumberComesBack
<1>6. ASSUME type \in {"bool", "void"} PROVE n = Unsigned(Encoded(type, n))
    <2>1. 0 <= n /\ n < 256 /\ sizeof[type] = 1
        BY <1>6, ValuesAre, SizesAre
    <2>2. QED  BY <1>2, <1>4, <2>1, NumberComesBack
<1>7. ASSUME type = "code" PROVE n = Unsigned(Encoded(type, n))
    <2>1. 0 <= n /\ n < 65536 /\ sizeof[type] = 2
        BY <1>7, ValuesAre, SizesAre, UInt16Is
    <2>2. QED  BY <1>2, <1>4, <2>1, NumberComesBack
<1>8. n = IF type = "int" THEN Signed(Encoded(type, n))
          ELSE Unsigned(Encoded(type, n))
    BY <1>1, <1>5, <1>6, <1>7
<1>9. QED  BY <1>2, <1>3, <1>4, <1>8

(* The length of a string wraps.                                           *)
LEMMA WrappedIs ==
    ASSUME NEW text \in Seq(Byte)
    PROVE  /\ Wrapped(text) \in Nat /\ Wrapped(text) < 65536
           /\ Wrapped(text) <= Len(text)
           /\ Len(text) < LengthLimit => Wrapped(text) = Len(text)
<1>1. LengthLimit \in Nat /\ 0 < LengthLimit /\ LengthLimit <= 65536
    BY LengthAssumption
<1>2. Len(text) \in Nat
    OBVIOUS
<1>3. \A n \in Nat : /\ n % LengthLimit \in Nat /\ n % LengthLimit < LengthLimit
                     /\ n % LengthLimit <= n
                     /\ n < LengthLimit => n % LengthLimit = n
    BY <1>1
<1>4. QED  BY <1>1, <1>2, <1>3 DEF Wrapped

(* A string is written with its length before it.                          *)
LEMMA StringEncoded ==
    ASSUME NEW text \in Seq(Byte)
    PROVE  LET len == Wrapped(text) IN
           /\ BytesOf(len, 2) \in Seq(Byte) /\ Len(BytesOf(len, 2)) = 2
           /\ Unsigned(BytesOf(len, 2)) = len
           /\ SubSeq(text, 1, len) \in Seq(Byte)
           /\ Len(SubSeq(text, 1, len)) = len
           /\ Encoded("string", text) = BytesOf(len, 2) \o SubSeq(text, 1, len)
           /\ Encoded("string", text) \in Seq(Byte)
           /\ Len(Encoded("string", text)) = 2 + len
<1> DEFINE len == Wrapped(text)
<1>1. len \in Nat /\ len < 65536 /\ len <= Len(text)
    BY WrappedIs
<1> HIDE DEF len
<1>2. BytesOf(len, 2) \in Seq(Byte) /\ Len(BytesOf(len, 2)) = 2
    <2>1. len \in Int /\ 2 \in 1..4
        BY <1>1
    <2>2. QED  BY <2>1, BytesAre
<1>3. Unsigned(BytesOf(len, 2)) = len
    BY <1>1, NumberComesBack
<1>4. SubSeq(text, 1, len) \in Seq(Byte) /\ Len(SubSeq(text, 1, len)) = len
    BY <1>1
<1>5. Encoded("string", text) = BytesOf(len, 2) \o SubSeq(text, 1, len)
    <2>1. Encoded("string", text) = <<>> \o BytesOf(len, 2) \o SubSeq(text, 1, len)
        BY DEF Encoded, input_type, len, Wrapped
    <2>2. <<>> \o BytesOf(len, 2) = BytesOf(len, 2)
        BY <1>2
    <2>3. QED  BY <2>1, <2>2
<1>6. \A a, b \in Seq(Byte) : a \o b \in Seq(Byte) /\ Len(a \o b) = Len(a) + Len(b)
    OBVIOUS
<1>7. /\ Encoded("string", text) \in Seq(Byte)
      /\ Len(Encoded("string", text)) = 2 + len
    BY <1>2, <1>4, <1>5, <1>6
<1>8. QED  BY <1>2, <1>3, <1>4, <1>5, <1>7 DEF len
-----------------------------------------------------------------------------
(* A memory has the bytes b at a place.                                    *)
Holds(memory, place, b) ==
    /\ place + Len(b) <= Len(memory)
    /\ \A i \in 1..Len(b) : memory[place + i] = b[i]

(* Two sequences with the same elements are one.                           *)
LEMMA SameSeq ==
    ASSUME NEW S, NEW a \in Seq(S), NEW b \in Seq(S), Len(a) = Len(b),
           \A i \in 1..Len(b) : a[i] = b[i]
    PROVE  a = b
BY SeqEqual

(* As many bytes of it as b has are then b.                                *)
LEMMA HeldIsRead ==
    ASSUME NEW m \in Seq(Byte), NEW p \in Nat, NEW b \in Seq(Byte),
           Holds(m, p, b)
    PROVE  SubSeq(m, p + 1, p + Len(b)) = b
<1>1. p + Len(b) <= Len(m) /\ \A i \in 1..Len(b) : m[p + i] = b[i]
    BY DEF Holds
<1> DEFINE s == SubSeq(m, p + 1, p + Len(b))
<1>2. s \in Seq(Byte) /\ Len(s) = Len(b)
    BY <1>1
<1>3. \A i \in 1..Len(b) : s[i] = m[p + i]
    BY <1>1
<1> HIDE DEF s
<1>4. \A i \in 1..Len(b) : s[i] = b[i]
    BY <1>1, <1>3
<1>5. s = b
    BY <1>2, <1>4, SameSeq, Zenon
<1>6. QED  BY <1>5 DEF s

(* A memory that has two texts after another has each.                     *)
LEMMA HeldInParts ==
    ASSUME NEW m \in Seq(Byte), NEW p \in Nat,
           NEW a \in Seq(Byte), NEW b \in Seq(Byte), Holds(m, p, a \o b)
    PROVE  Holds(m, p, a) /\ Holds(m, p + Len(a), b)
<1>1. /\ a \o b \in Seq(Byte) /\ Len(a \o b) = Len(a) + Len(b)
      /\ \A i \in 1..Len(a) : (a \o b)[i] = a[i]
      /\ \A i \in 1..Len(b) : (a \o b)[Len(a) + i] = b[i]
    OBVIOUS
<1>2. /\ p + Len(a \o b) <= Len(m)
      /\ \A i \in 1..Len(a \o b) : m[p + i] = (a \o b)[i]
    BY DEF Holds
<1>3. Holds(m, p, a)
    <2>1. p + Len(a) <= Len(m)
        BY <1>1, <1>2
    <2>2. \A i \in 1..Len(a) : m[p + i] = a[i]
        BY <1>1, <1>2
    <2>3. QED  BY <2>1, <2>2 DEF Holds
<1>4. Holds(m, p + Len(a), b)
    <2>1. p + Len(a) + Len(b) <= Len(m)
        BY <1>1, <1>2
    <2>2. ASSUME NEW i \in 1..Len(b) PROVE m[p + Len(a) + i] = b[i]
        <3>1. Len(a) + i \in 1..Len(a \o b) /\ p + Len(a) + i = p + (Len(a) + i)
            BY <1>1
        <3>2. QED  BY <1>1, <1>2, <3>1
    <2>3. QED  BY <2>1, <2>2 DEF Holds
<1>5. QED  BY <1>3, <1>4

(* A stream over a memory with its cursor somewhere.                       *)
Stream(memory, size, pos) == [memory |-> memory, size |-> size, pos |-> pos]

(* What is read at the cursor.                                             *)
LEMMA StreamCurrent ==
    ASSUME NEW m, NEW size, NEW p, NEW n
    PROVE  current(Stream(m, size, p), n) = SubSeq(m, p + 1, p + n)
BY DEF Stream, current

(* Where the cursor is after it.                                           *)
LEMMA StreamOffset ==
    ASSUME NEW m, NEW size, NEW p, NEW n
    PROVE  offset(Stream(m, size, p), n) = Stream(m, size, p + n)
BY DEF Stream, offset

(* When a read finds the stream at its end.                                *)
LEMMA StreamEof ==
    ASSUME NEW m, NEW size, NEW p
    PROVE  is_eof(Stream(m, size, p)) <=> p >= size
BY DEF Stream, is_eof

(* What is read at the place of a text, and the place after it.            *)
TextAt(m, size, p, b, len) ==
    /\ current(Stream(m, size, p), len) = b
    /\ offset(Stream(m, size, p), len) = Stream(m, size, p + len)

(* A text that is held is read.                                            *)
LEMMA TextRead ==
    ASSUME NEW m \in Seq(Byte), NEW size, NEW p \in Nat, NEW b \in Seq(Byte),
           Holds(m, p, b)
    PROVE  TextAt(m, size, p, b, Len(b))
<1>1. current(Stream(m, size, p), Len(b)) = SubSeq(m, p + 1, p + Len(b))
    BY StreamCurrent, Zenon
<1>2. SubSeq(m, p + 1, p + Len(b)) = b
    BY HeldIsRead
<1>3. offset(Stream(m, size, p), Len(b)) = Stream(m, size, p + Len(b))
    BY DEF Stream, offset
<1>4. QED  BY <1>1, <1>2, <1>3, Zenon DEF TextAt

(* What operator >> reads where the bytes of a value are.                  *)
Reads(m, size, p, type, val, before) ==
    output_type(Stream(m, size, p), type, before)
      = [value |-> Arrived(type, val),
         stream |-> Stream(m, size, p + Len(Encoded(type, val)))]

(* A number that is held is read back.                                     *)
LEMMA NumberReadBack ==
    ASSUME NEW type \in DOMAIN Values \ {"string"}, NEW val \in Values[type],
           NEW m \in Seq(Byte), NEW size \in Nat, NEW p \in Nat, NEW before,
           Holds(m, p, Encoded(type, val)), p < size
    PROVE  Reads(m, size, p, type, val, before)
<1> DEFINE b == Encoded(type, val)
           stream == Stream(m, size, p)
<1>1. /\ b \in Seq(Byte) /\ Len(b) = sizeof[type]
      /\ val = IF type = "int" THEN Signed(b) ELSE Unsigned(b)
    BY NumberEncoded
<1>2. Holds(m, p, b)
    OBVIOUS
<1> HIDE DEF b
<1>3. /\ current(stream, Len(b)) = b
      /\ offset(stream, Len(b)) = Stream(m, size, p + Len(b))
    <2>1. TextAt(m, size, p, b, Len(b))
        BY <1>1, <1>2, TextRead
    <2>2. QED  BY <2>1, Zenon DEF TextAt
<1>4. ~is_eof(stream)
    BY StreamEof
<1> HIDE DEF stream
<1>5. type # "string"
    OBVIOUS
<1>6. output_type(stream, type, before)
        = [value |-> val, stream |-> Stream(m, size, p + Len(b))]
    BY <1>1, <1>3, <1>4, <1>5, Zenon DEF output_type
<1>7. QED  BY <1>5, <1>6 DEF Reads, Arrived, b, stream

(* So is a string, as far as its length tells.                             *)
LEMMA StringReadBack ==
    ASSUME NEW val \in Seq(Byte),
           NEW m \in Seq(Byte), NEW size \in Nat, NEW p \in Nat, NEW before,
           Holds(m, p, Encoded("string", val))
    PROVE  Reads(m, size, p, "string", val, before)
<1> DEFINE len == Wrapped(val)
           head == BytesOf(len, 2)
           text == SubSeq(val, 1, len)
           stream == Stream(m, size, p)
<1>1. /\ head \in Seq(Byte) /\ Len(head) = 2 /\ Unsigned(head) = len
      /\ text \in Seq(Byte) /\ Len(text) = len
      /\ Encoded("string", val) = head \o text
      /\ Len(Encoded("string", val)) = 2 + len
    BY StringEncoded, Zenon
<1>2. len \in Nat
    BY WrappedIs
<1> HIDE DEF len, head, text
<1>3. Holds(m, p, head) /\ Holds(m, p + 2, text)
    <2>1. Holds(m, p, head \o text)
        BY <1>1
    <2>2. QED  BY <1>1, <2>1, HeldInParts
<1>4. current(stream, 2) = head /\ offset(stream, 2) = Stream(m, size, p + 2)
    <2>1. head \in Seq(Byte) /\ Holds(m, p, head)
        BY <1>1, <1>3
    <2>2. TextAt(m, size, p, head, Len(head))
        BY <2>1, TextRead
    <2>3. Len(head) = 2
        BY <1>1
    <2>4. QED  BY <2>2, <2>3, Zenon DEF TextAt
<1>5. /\ current(Stream(m, size, p + 2), len) = text
      /\ offset(Stream(m, size, p + 2), len) = Stream(m, size, p + 2 + len)
    <2>1. p + 2 \in Nat /\ text \in Seq(Byte) /\ Holds(m, p + 2, text)
        BY <1>1, <1>3
    <2>2. TextAt(m, size, p + 2, text, Len(text))
        BY <2>1, TextRead
    <2>3. Len(text) = len
        BY <1>1
    <2>4. QED  BY <2>2, <2>3, Zenon DEF TextAt
<1>6. p + 2 + len = p + Len(Encoded("string", val))
    <2>1. Len(Encoded("string", val)) = 2 + len
        BY <1>1
    <2> HIDE DEF stream
    <2>2. p + 2 + len = p + (2 + len)
        BY <1>2
    <2>3. QED  BY <2>1, <2>2, Zenon
<1> HIDE DEF stream
<1>7. output_type(stream, "string", before) = output_string(stream)
    BY DEF output_type
<1>8. output_string(stream)
        = [value |-> text, stream |-> Stream(m, size, p + 2 + len)]
    BY <1>1, <1>4, <1>5, Zenon DEF output_string
<1>9. Arrived("string", val) = text
    BY DEF Arrived, text, len
<1>10. QED  BY <1>6, <1>7, <1>8, <1>9, Zenon DEF Reads, stream

(* So is a value of any type.                                              *)
LEMMA ReadBack ==
    ASSUME NEW type \in DOMAIN Values, NEW val \in Values[type],
           NEW m \in Seq(Byte), NEW size \in Nat, NEW p \in Nat, NEW before,
           Holds(m, p, Encoded(type, val)), p < size
    PROVE  Reads(m, size, p, type, val, before)
<1>1. ASSUME type = "string" PROVE Reads(m, size, p, type, val, before)
    <2>1. val \in Seq(Byte)
        BY <1>1, ValuesAre
    <2>2. QED  BY <1>1, <2>1, StringReadBack
<1>2. ASSUME type # "string" PROVE Reads(m, size, p, type, val, before)
    BY <1>2, NumberReadBack
<1>3. QED  BY <1>1, <1>2
-----------------------------------------------------------------------------
(* Values of the types given.                                              *)
Typed(types, values) ==
    /\ types \in Seq(DOMAIN Values)
    /\ \A k \in 1..Len(types) : values[k] \in Values[types[k]]

(* What has been written after each value.                                 *)
Written(w, start, types, values) ==
    /\ w \in [0..Len(types) -> Seq(Byte)]
    /\ w[0] = start
    /\ \A k \in 1..Len(types) : w[k] = w[k - 1] \o Encoded(types[k], values[k])
    /\ input_all(start, types, values) = w[Len(types)]

(* The bytes of a value.                                                   *)
LEMMA EncodedBytes ==
    ASSUME NEW type \in DOMAIN Values, NEW val \in Values[type]
    PROVE  Encoded(type, val) \in Seq(Byte) /\ Len(Encoded(type, val)) > 0
<1>1. CASE type = "string"
    <2>1. val \in Seq(Byte)
        BY <1>1, ValuesAre
    <2>2. /\ Encoded("string", val) \in Seq(Byte)
          /\ Len(Encoded("string", val)) = 2 + Wrapped(val)
        BY <2>1, StringEncoded, Zenon
    <2>3. Wrapped(val) \in Nat
        BY <2>1, WrappedIs
    <2>4. 2 + Wrapped(val) > 0
        BY <2>3
    <2>5. QED  BY <1>1, <2>2, <2>4, Zenon
<1>2. CASE type # "string"
    <2> DEFINE l == sizeof[type]
    <2>1. /\ l \in 1..4 /\ Encoded(type, val) \in Seq(Byte)
          /\ Len(Encoded(type, val)) = l
        BY <1>2, NumberEncoded
    <2> HIDE DEF l
    <2>2. l > 0
        BY <2>1
    <2>3. QED  BY <2>1, <2>2, Zenon
<1>3. QED  BY <1>1, <1>2

(* operator << writes at the end.                                          *)
LEMMA WritesAtEnd ==
    ASSUME NEW type \in DOMAIN Values, NEW val \in Values[type],
           NEW s \in Seq(Byte)
    PROVE  input_type(s, type, val) = s \o Encoded(type, val)
<1>1. CASE type = "string"
    <2>1. val \in Seq(Byte)
        BY <1>1, ValuesAre
    <2> DEFINE head == BytesOf(Wrapped(val), 2)
               text == SubSeq(val, 1, Wrapped(val))
    <2>2. /\ head \in Seq(Byte) /\ text \in Seq(Byte)
          /\ Encoded("string", val) = head \o text
        BY <2>1, StringEncoded, Zenon
    <2>3. input_type(s, "string", val) = s \o head \o text
        BY DEF input_type, Wrapped
    <2> HIDE DEF head, text
    <2>4. (s \o head) \o text = s \o (head \o text)
        <3> DEFINE B == Byte
        <3>1. s \in Seq(B) /\ head \in Seq(B) /\ text \in Seq(B)
            BY <2>2
        <3> HIDE DEF B
        <3>2. QED  BY <3>1, ConcatAssociative
    <2>5. QED  BY <1>1, <2>2, <2>3, <2>4, Zenon
<1>2. CASE type # "string"
    <2>1. Encoded(type, val) = BytesOf(val, sizeof[type])
        BY <1>2, NumberEncoded
    <2>2. QED  BY <1>2, <2>1 DEF input_type
<1>3. QED  BY <1>1, <1>2

(* What input_all() writes, value after value.                             *)
LEMMA WritesAll ==
    ASSUME NEW types, NEW values, Typed(types, values), NEW start \in Seq(Byte)
    PROVE  \E w : Written(w, start, types, values)
<1> DEFINE n == Len(types)
           Step(k, s) == s \o Encoded(types[k], values[k])
           Eq(w) == w = [k \in 0..n |->
                            IF k = 0 THEN start
                            ELSE input_type(w[k - 1], types[k], values[k])]
<1>1. n \in Nat /\ \A k \in 1..n : /\ types[k] \in DOMAIN Values
                                   /\ values[k] \in Values[types[k]]
    BY DEF Typed
<1>2. \A k \in 1..n : \A s \in Seq(Byte) :
        /\ input_type(s, types[k], values[k]) = Step(k, s)
        /\ Step(k, s) \in Seq(Byte)
    <2> SUFFICES ASSUME NEW k \in 1..n, NEW s \in Seq(Byte)
                 PROVE  /\ input_type(s, types[k], values[k]) = Step(k, s)
                        /\ Step(k, s) \in Seq(Byte)
        OBVIOUS
    <2>1. input_type(s, types[k], values[k]) = Step(k, s)
        BY <1>1, WritesAtEnd
    <2>2. Encoded(types[k], values[k]) \in Seq(Byte)
        BY <1>1, EncodedBytes
    <2>3. QED  BY <2>1, <2>2
<1> DEFINE S == Seq(Byte)
<1>0. start \in S
    OBVIOUS
<1>3. \A k \in 1..n : \A s \in S :
        /\ input_type(s, types[k], values[k]) = Step(k, s)
        /\ Step(k, s) \in S
    BY <1>2
<1> HIDE DEF n, Step, S
<1>4. \A k \in 1..n : k \in Nat /\ k # 0 /\ k - 1 \in 0..n /\ k \in 0..n
    BY <1>1
<1> DEFINE step == [k \in 1..n |-> [s \in S |-> Step(k, s)]]
<1>5. step \in [1..n -> [S -> S]]
    BY <1>3
<1>6. \A k \in 1..n : \A s \in S : step[k][s] = Step(k, s)
    OBVIOUS
<1> HIDE DEF step
<1>7. PICK g \in [0..n -> S] : Follows(g, n, start, step)
    BY <1>0, <1>1, <1>5, Recursion
<1>8. \E w : Eq(w)
    <2>1. g[0] = start /\ \A k \in 1..n : g[k] = step[k][g[k - 1]]
        BY <1>7 DEF Follows
    <2>2. ASSUME NEW k \in 1..n
          PROVE  g[k] = input_type(g[k - 1], types[k], values[k])
        <3>1. g[k - 1] \in S
            BY <1>4, <1>7
        <3>2. g[k] = step[k][g[k - 1]]
            BY <2>1
        <3>3. QED  BY <1>3, <1>6, <3>1, <3>2, Zenon
    <2>3. Eq(g)
        BY <1>1, <2>1, <2>2
    <2>4. QED  BY <2>3
<1> DEFINE w == CHOOSE v : Eq(v)
<1>9. Eq(w)
    BY <1>8
<1>10. input_all(start, types, values) = w[n]
    BY DEF input_all, n
<1> HIDE DEF w
<1>11. DOMAIN w = 0..n /\ w = [k \in 0..n |-> w[k]]
    BY <1>9
<1>12. w[0] = start
    BY <1>1, <1>9
<1>13. \A k \in 1..n : w[k] = input_type(w[k - 1], types[k], values[k])
    BY <1>4, <1>9
<1> HIDE DEF Eq
<1> DEFINE T == {k \in Nat : k <= n => w[k] \in S}
<1>14. 0 \in T
    BY <1>0, <1>12
<1>15. ASSUME NEW k \in Nat, k \in T PROVE k + 1 \in T
    <2>1. ASSUME k + 1 <= n PROVE w[k + 1] \in S
        <3>1. k + 1 \in 1..n /\ k + 1 - 1 = k /\ w[k] \in S
            BY <1>1, <1>15, <2>1
        <3>2. w[k + 1] = input_type(w[k], types[k + 1], values[k + 1])
            BY <1>13, <3>1
        <3>3. QED  BY <1>3, <3>1, <3>2
    <2>2. QED  BY <2>1
<1>16. \A k \in Nat : k \in T
    <2> HIDE DEF T
    <2>1. QED  BY <1>14, <1>15, InductionOn
<1>17. \A k \in 0..n : w[k] \in S
    BY <1>1, <1>16
<1>18. \A k \in 1..n : w[k] = Step(k, w[k - 1])
    <2> SUFFICES ASSUME NEW k \in 1..n PROVE w[k] = Step(k, w[k - 1])
        OBVIOUS
    <2>1. w[k - 1] \in S
        BY <1>4, <1>17
    <2>2. QED  BY <1>3, <1>13, <2>1, Zenon
<1>19. w \in [0..n -> S]
    BY <1>11, <1>17
<1>20. Written(w, start, types, values)
    BY <1>10, <1>12, <1>18, <1>19 DEF Written, n, Step, S
<1>21. QED  BY <1>20
(* The values lie one after the other in a memory, each at its place.      *)
Laid(m, size, places, types, values) ==
    /\ m \in Seq(Byte) /\ size \in Nat
    /\ \A k \in 0..Len(types) : places[k] \in Nat
    /\ \A k \in 1..Len(types) :
        /\ Holds(m, places[k - 1], Encoded(types[k], values[k]))
        /\ places[k - 1] < size /\ places[k] <= size
        /\ places[k] = places[k - 1] + Len(Encoded(types[k], values[k]))

(* input_all() lays them so, in whatever memory its bytes are.             *)
LEMMA WrittenIsLaid ==
    ASSUME NEW types, NEW values, Typed(types, values), NEW w, NEW start,
           Written(w, start, types, values), NEW m \in Seq(Byte),
           NEW p \in Nat, Holds(m, p, w[Len(types)]), NEW size \in Nat,
           p + Len(w[Len(types)]) <= size
    PROVE  Laid(m, size, [k \in 0..Len(types) |-> p + Len(w[k])], types, values)
<1> DEFINE n == Len(types)
           e(k) == Encoded(types[k], values[k])
<1>1. n \in Nat
    BY DEF Typed
<1>2. ASSUME NEW k \in 1..n PROVE e(k) \in Seq(Byte) /\ Len(e(k)) > 0
    <2>1. types[k] \in DOMAIN Values /\ values[k] \in Values[types[k]]
        BY <1>2 DEF Typed
    <2>2. QED  BY <2>1, EncodedBytes
<1>3. \A k \in 1..n : w[k] = w[k - 1] \o e(k)
    BY DEF Written
<1>4. \A k \in 0..n : w[k] \in Seq(Byte)
    BY DEF Written
<1>5. Holds(m, p, w[n]) /\ p + Len(w[n]) <= size
    OBVIOUS
<1> HIDE DEF n, e
<1>6. ASSUME NEW k \in 1..n
      PROVE  /\ k - 1 \in 0..n /\ k \in 0..n
             /\ w[k - 1] \in Seq(Byte) /\ w[k] \in Seq(Byte)
             /\ e(k) \in Seq(Byte) /\ w[k] = w[k - 1] \o e(k)
    BY <1>1, <1>2, <1>3, <1>4
<1>7. ASSUME NEW k \in 1..n
      PROVE  /\ Len(w[k]) = Len(w[k - 1]) + Len(e(k))
             /\ Len(w[k - 1]) < Len(w[k])
             /\ Len(w[k - 1]) \in Nat /\ Len(e(k)) \in Nat /\ Len(w[k]) \in Nat
    <2>1. \A a, b \in Seq(Byte) : Len(a \o b) = Len(a) + Len(b)
        OBVIOUS
    <2>2. Len(w[k]) = Len(w[k - 1]) + Len(e(k))
        BY <1>6, <2>1, Zenon
    <2>3. Len(w[k - 1]) \in Nat /\ Len(e(k)) \in Nat /\ Len(e(k)) > 0
        BY <1>2, <1>6
    <2>4. Len(w[k]) \in Nat
        BY <1>6
    <2>5. QED  BY <2>2, <2>3, <2>4
<1> DEFINE T == {j \in Nat : j <= n => /\ Holds(m, p, w[n - j])
                                       /\ p + Len(w[n - j]) <= size}
<1>8. 0 \in T
    BY <1>1, <1>5
<1>9. ASSUME NEW j \in Nat, j \in T PROVE j + 1 \in T
    <2> SUFFICES ASSUME j + 1 <= n
                 PROVE  /\ Holds(m, p, w[n - (j + 1)])
                        /\ p + Len(w[n - (j + 1)]) <= size
        OBVIOUS
    <2> DEFINE k == n - j
    <2>1. k \in 1..n /\ n - (j + 1) = k - 1
        BY <1>1
    <2>2. Holds(m, p, w[k]) /\ p + Len(w[k]) <= size
        BY <1>1, <1>9
    <2> HIDE DEF k, T
    <2>3. /\ w[k - 1] \in Seq(Byte) /\ e(k) \in Seq(Byte)
          /\ Holds(m, p, w[k - 1] \o e(k))
        BY <1>6, <2>1, <2>2
    <2>4. Holds(m, p, w[k - 1])
        BY <2>3, HeldInParts
    <2>5. p + Len(w[k - 1]) <= size
        <3>1. /\ Len(w[k - 1]) < Len(w[k])
              /\ Len(w[k]) \in Nat /\ Len(w[k - 1]) \in Nat
            BY <1>7, <2>1
        <3>2. \A a, b \in Nat : a < b /\ p + b <= size => p + a <= size
            OBVIOUS
        <3>3. QED  BY <2>2, <3>1, <3>2, Zenon
    <2>6. QED  BY <2>1, <2>4, <2>5, Zenon
<1>10. \A j \in Nat : j \in T
    <2> HIDE DEF T
    <2>1. QED  BY <1>8, <1>9, InductionOn
<1>11. ASSUME NEW k \in 0..n PROVE Holds(m, p, w[k]) /\ p + Len(w[k]) <= size
    <2>1. n - k \in Nat /\ n - k <= n /\ n - (n - k) = k
        BY <1>1
    <2>2. QED  BY <1>10, <2>1
<1> DEFINE places == [k \in 0..n |-> p + Len(w[k])]
<1>12. \A k \in 0..n : places[k] \in Nat
    BY <1>4
<1>13. ASSUME NEW k \in 1..n
       PROVE  /\ Holds(m, places[k - 1], e(k))
              /\ places[k - 1] < size /\ places[k] <= size
              /\ places[k] = places[k - 1] + Len(e(k))
    <2>1. places[k - 1] = p + Len(w[k - 1]) /\ places[k] = p + Len(w[k])
        BY <1>6
    <2>2. /\ w[k - 1] \in Seq(Byte) /\ e(k) \in Seq(Byte)
          /\ Holds(m, p, w[k - 1] \o e(k)) /\ p + Len(w[k]) <= size
        BY <1>6, <1>11
    <2>3. Holds(m, p + Len(w[k - 1]), e(k))
        BY <2>2, HeldInParts
    <2>4. /\ Len(w[k]) = Len(w[k - 1]) + Len(e(k)) /\ Len(w[k - 1]) < Len(w[k])
          /\ Len(w[k - 1]) \in Nat /\ Len(e(k)) \in Nat /\ Len(w[k]) \in Nat
        BY <1>7
    <2>5. p + Len(w[k - 1]) < size
        BY <2>2, <2>4
    <2>6. p + Len(w[k]) = p + Len(w[k - 1]) + Len(e(k))
        BY <2>4
    <2>7. QED  BY <2>1, <2>2, <2>3, <2>5, <2>6, Zenon
<1> HIDE DEF places
<1>14. Laid(m, size, places, types, values)
    BY <1>12, <1>13 DEF Laid, n, e
<1>15. QED  BY <1>14 DEF places, n

(* operator >> reads the next of them.                                     *)
ReadNext(m, size, places, types, values, k, before) ==
    output_type(Stream(m, size, places[k - 1]), types[k], before)
      = [value |-> Arrived(types[k], values[k]),
         stream |-> Stream(m, size, places[k])]

(* It is read from where the one before it ends.                           *)
LEMMA ReadsNext ==
    ASSUME NEW types, NEW values, Typed(types, values), NEW m, NEW size,
           NEW places, Laid(m, size, places, types, values),
           NEW k \in 1..Len(types), NEW before
    PROVE  ReadNext(m, size, places, types, values, k, before)
<1> DEFINE n == Len(types)
<1>1. n \in Nat /\ types[k] \in DOMAIN Values /\ values[k] \in Values[types[k]]
    BY DEF Typed
<1>2. /\ m \in Seq(Byte) /\ size \in Nat
      /\ \A i \in 0..n : places[i] \in Nat
      /\ Holds(m, places[k - 1], Encoded(types[k], values[k]))
      /\ places[k - 1] < size
      /\ places[k] = places[k - 1] + Len(Encoded(types[k], values[k]))
    BY DEF Laid
<1> HIDE DEF n
<1>3. places[k - 1] \in Nat
    BY <1>1, <1>2 DEF n
<1>4. Reads(m, size, places[k - 1], types[k], values[k], before)
    BY <1>1, <1>2, <1>3, ReadBack
<1>5. QED  BY <1>2, <1>4, Zenon DEF Reads, ReadNext

(* output_all() reads what is laid so.                                     *)
LEMMA ReadsAll ==
    ASSUME NEW types, NEW values, Typed(types, values), NEW m, NEW size,
           NEW places, Laid(m, size, places, types, values), NEW before
    PROVE  output_all(Stream(m, size, places[0]), types, before)
             = [k \in 1..Len(types) |-> Arrived(types[k], values[k])]
<1> DEFINE n == Len(types)
           v(k) == Arrived(types[k], values[k])
           R(k) == [value |-> v(k), stream |-> Stream(m, size, places[k])]
           stream == Stream(m, size, places[0])
           Eq(r) == r = [k \in 1..n |->
                           output_type(IF k = 1 THEN stream ELSE r[k - 1].stream,
                                       types[k], before)]
           g == [k \in 1..n |-> R(k)]
<1>1. n \in Nat
    BY DEF Typed
<1>2. ASSUME NEW k \in 1..n
      PROVE  output_type(Stream(m, size, places[k - 1]), types[k], before) = R(k)
    <2>1. ReadNext(m, size, places, types, values, k, before)
        BY <1>2, ReadsNext
    <2>2. QED  BY <2>1, Zenon DEF ReadNext
<1> HIDE DEF n, v
<1>3. Eq(g)
    <2>1. ASSUME NEW k \in 1..n
          PROVE  (IF k = 1 THEN stream ELSE g[k - 1].stream)
                   = Stream(m, size, places[k - 1])
        <3>1. k = 1 \/ k - 1 \in 1..n
            BY <1>1
        <3>2. k = 1 => k - 1 = 0
            OBVIOUS
        <3>3. QED  BY <3>1, <3>2
    <2>2. QED  BY <1>2, <2>1
<1> DEFINE r == CHOOSE f : Eq(f)
<1>4. Eq(r)
    <2> HIDE DEF Eq, g
    <2>1. QED  BY <1>3
<1>5. output_all(stream, types, before) = [k \in 1..n |-> r[k].value]
    BY DEF output_all, n
<1> HIDE DEF r
<1>6. \A k \in 1..n :
        r[k] = output_type(IF k = 1 THEN stream ELSE r[k - 1].stream,
                           types[k], before)
    BY <1>4
<1> HIDE DEF Eq, g
<1> DEFINE T == {k \in Nat : k \in 1..n => r[k] = R(k)}
<1>7. 0 \in T
    OBVIOUS
<1>8. ASSUME NEW k \in Nat, k \in T PROVE k + 1 \in T
    <2> SUFFICES ASSUME NEW i \in 1..n, i = k + 1 PROVE r[i] = R(i)
        OBVIOUS
    <2>1. i - 1 = k /\ (i = 1 => k = 0) /\ (i # 1 => k \in 1..n)
        BY <1>1
    <2>2. (IF i = 1 THEN stream ELSE r[i - 1].stream)
            = Stream(m, size, places[i - 1])
        <3>1. CASE i = 1
            BY <2>1, <3>1
        <3>2. CASE i # 1
            BY <1>8, <2>1, <3>2
        <3>3. QED  BY <3>1, <3>2
    <2> HIDE DEF T, R, stream
    <2>3. QED  BY <1>2, <1>6, <2>2, Zenon
<1>9. \A k \in Nat : k \in T
    <2> HIDE DEF T, R
    <2>1. QED  BY <1>7, <1>8, InductionOn
<1>10. \A k \in 1..n : r[k].value = v(k)
    <2>1. \A k \in 1..n : k \in T
        BY <1>9
    <2> SUFFICES ASSUME NEW k \in 1..n PROVE r[k].value = v(k)
        OBVIOUS
    <2>2. R(k).value = v(k)
        OBVIOUS
    <2> HIDE DEF R
    <2>3. r[k] = R(k)
        BY <2>1
    <2>4. QED  BY <2>2, <2>3, Zenon
<1>11. QED  BY <1>5, <1>10, Zenon DEF n, v
(* The start of a memory.                                                  *)
LEMMA HeldAtStart ==
    ASSUME NEW a \in Seq(Byte), NEW rest \in Seq(Byte)
    PROVE  a \o rest \in Seq(Byte) /\ Holds(a \o rest, 0, a)
<1>1. /\ a \o rest \in Seq(Byte) /\ Len(a \o rest) = Len(a) + Len(rest)
      /\ \A i \in 1..Len(a) : (a \o rest)[i] = a[i]
    OBVIOUS
<1>2. 0 + Len(a) <= Len(a \o rest)
    BY <1>1
<1>3. \A i \in 1..Len(a) : (a \o rest)[0 + i] = a[i]
    BY <1>1
<1>4. QED  BY <1>1, <1>2, <1>3, Zenon DEF Holds

(* The memory of the stream of a buffer.                                   *)
LEMMA BufferStream ==
    ASSUME NEW in, NEW beyond
    PROVE  StreamBuffer(in, beyond) = Stream(in \o beyond, Len(in), 0)
BY DEF StreamBuffer, Stream

(* What input_all() writes into an empty buffer lies from its start.       *)
LaidFromStart(in, beyond, places, types, values) ==
    /\ Laid(in \o beyond, Len(in), places, types, values)
    /\ places[0] = 0
    /\ StreamBuffer(in, beyond) = Stream(in \o beyond, Len(in), places[0])

(* What input_all() writes into an empty stream is laid from its start.    *)
LEMMA BufferLaid ==
    ASSUME NEW types, NEW values, Typed(types, values), NEW beyond \in Seq(Byte)
    PROVE  LET s == input_all(<<>>, types, values) IN
           /\ s \in Seq(Byte)
           /\ \E places : LaidFromStart(s, beyond, places, types, values)
<1> DEFINE n == Len(types)
           s == input_all(<<>>, types, values)
<1>1. PICK w : Written(w, <<>>, types, values)
    <2>1. <<>> \in Seq(Byte)
        OBVIOUS
    <2>2. QED  BY <2>1, WritesAll
<1>2. n \in Nat /\ s = w[n] /\ w[0] = <<>> /\ w[n] \in Seq(Byte)
    <2>1. n \in Nat
        BY DEF Typed
    <2>2. n \in 0..n
        BY <2>1
    <2>3. w \in [0..n -> Seq(Byte)] /\ w[0] = <<>> /\ s = w[n]
        BY <1>1, Zenon DEF Written
    <2>4. QED  BY <2>1, <2>2, <2>3
<1>3. /\ s \o beyond \in Seq(Byte) /\ Holds(s \o beyond, 0, w[n])
      /\ Len(s) \in Nat /\ 0 + Len(w[n]) <= Len(s)
    <2>1. /\ w[n] \o beyond \in Seq(Byte) /\ Holds(w[n] \o beyond, 0, w[n])
        BY <1>2, HeldAtStart
    <2>2. Len(w[n]) \in Nat
        BY <1>2
    <2> HIDE DEF s, n
    <2>3. 0 + Len(w[n]) <= Len(w[n])
        BY <2>2
    <2>4. QED  BY <1>2, <2>1, <2>2, <2>3, Zenon
<1> DEFINE places == [k \in 0..n |-> 0 + Len(w[k])]
<1>4. Laid(s \o beyond, Len(s), places, types, values)
    <2> HIDE DEF s
    <2>1. 0 \in Nat
        OBVIOUS
    <2>2. QED  BY <1>1, <1>3, <2>1, WrittenIsLaid
<1>5. places[0] = 0
    BY <1>2
<1> HIDE DEF places, s
<1>6. StreamBuffer(s, beyond) = Stream(s \o beyond, Len(s), places[0])
    BY <1>5, BufferStream, Zenon
<1>7. LaidFromStart(s, beyond, places, types, values)
    BY <1>4, <1>5, <1>6, Zenon DEF LaidFromStart
<1>8. QED  BY <1>2, <1>7 DEF s

(* output_all() reads from it every value as it was, but a string too long *)
(* for its length.                                                         *)
THEOREM ValuesComeBack ==
    ASSUME NEW types, NEW values, Typed(types, values),
           NEW beyond \in Seq(Byte), NEW before
    PROVE  output_all(StreamBuffer(input_all(<<>>, types, values), beyond),
                      types, before)
             = [k \in 1..Len(types) |-> Arrived(types[k], values[k])]
<1> DEFINE s == input_all(<<>>, types, values)
<1>1. PICK places : LaidFromStart(s, beyond, places, types, values)
    BY BufferLaid
<1> HIDE DEF s
<1>2. /\ Laid(s \o beyond, Len(s), places, types, values)
      /\ StreamBuffer(s, beyond) = Stream(s \o beyond, Len(s), places[0])
    BY <1>1 DEF LaidFromStart
<1>3. output_all(StreamBuffer(s, beyond), types, before)
        = [k \in 1..Len(types) |-> Arrived(types[k], values[k])]
    BY <1>2, ReadsAll
<1>4. QED  BY <1>3 DEF s

(* Values lie one after the other, and none before the first.              *)
LEMMA PlacesGrow ==
    ASSUME NEW types, NEW values, Typed(types, values), NEW m, NEW size,
           NEW places, Laid(m, size, places, types, values)
    PROVE  \A k \in 1..Len(types) : places[1] <= places[k]
<1> DEFINE n == Len(types)
           T == {k \in Nat : k \in 1..n => places[1] <= places[k]}
<1>1. n \in Nat
    BY DEF Typed
<1>2. 0 \in T
    OBVIOUS
<1>3. ASSUME NEW k \in Nat, k \in T PROVE k + 1 \in T
    <2> SUFFICES ASSUME NEW i \in 1..n, i = k + 1 PROVE places[1] <= places[i]
        OBVIOUS
    <2> HIDE DEF n
    <2>1. /\ i \in 0..n /\ i - 1 \in 0..n /\ i - 1 = k /\ 1 \in 0..n
          /\ i # 1 => k \in 1..n
        BY <1>1
    <2>2. \A j \in 0..n : places[j] \in Nat
        BY DEF Laid, n
    <2>3. places[i] \in Nat /\ places[i - 1] \in Nat /\ places[1] \in Nat
        BY <2>1, <2>2
    <2>4. i # 1 => places[1] <= places[i - 1]
        BY <1>3, <2>1
    <2> DEFINE e == Encoded(types[i], values[i])
    <2>5. places[i] = places[i - 1] + Len(e)
        BY DEF Laid, n
    <2>6. Len(e) \in Nat
        <3>1. types[i] \in DOMAIN Values /\ values[i] \in Values[types[i]]
            BY DEF Typed, n
        <3>2. e \in Seq(Byte)
            BY <3>1, EncodedBytes
        <3> HIDE DEF e
        <3>3. QED  BY <3>2
    <2> HIDE DEF e
    <2>7. QED  BY <2>3, <2>4, <2>5, <2>6
<1>4. \A k \in Nat : k \in T
    <2> HIDE DEF T
    <2>1. QED  BY <1>2, <1>3, InductionOn
<1>5. QED  BY <1>1, <1>4

(* A part of a memory, with another behind it, holds what it held there.   *)
LEMMA HeldInPart ==
    ASSUME NEW m \in Seq(Byte), NEW q \in Nat, NEW len \in Nat,
           q + len <= Len(m), NEW beyond \in Seq(Byte),
           NEW p \in Nat, NEW b \in Seq(Byte), Holds(m, p, b),
           q <= p, p + Len(b) <= q + len
    PROVE  Holds(SubSeq(m, q + 1, q + len) \o beyond, p - q, b)
<1> DEFINE s == SubSeq(m, q + 1, q + len)
           d == s \o beyond
<1>1. /\ s \in Seq(Byte) /\ Len(s) = len
      /\ \A i \in 1..len : s[i] = m[q + i]
    OBVIOUS
<1> HIDE DEF s
<1>2. /\ Len(d) = len + Len(beyond) /\ \A i \in 1..len : d[i] = s[i]
    <2>1. \A x, y \in Seq(Byte) :
            /\ Len(x \o y) = Len(x) + Len(y)
            /\ \A i \in 1..Len(x) : (x \o y)[i] = x[i]
        OBVIOUS
    <2>2. /\ Len(d) = Len(s) + Len(beyond)
          /\ \A i \in 1..Len(s) : d[i] = s[i]
        BY <1>1, <2>1, Zenon
    <2>3. QED  BY <1>1, <2>2, Zenon
<1> HIDE DEF d
<1>3. \A i \in 1..Len(b) : m[p + i] = b[i]
    BY DEF Holds
<1>4. Len(b) \in Nat /\ Len(beyond) \in Nat
    OBVIOUS
<1>5. (p - q) + Len(b) <= Len(d)
    BY <1>2, <1>4
<1>6. ASSUME NEW i \in 1..Len(b) PROVE d[(p - q) + i] = b[i]
    <2>1. (p - q) + i \in 1..len /\ q + ((p - q) + i) = p + i
        BY <1>4
    <2>2. QED  BY <1>1, <1>2, <1>3, <2>1
<1>7. QED  BY <1>5, <1>6 DEF Holds, d, s
-----------------------------------------------------------------------------
(* One element with a sequence behind it.                                  *)
Follow(x, y, xy, S) ==
    /\ xy \in Seq(S) /\ Len(xy) = Len(y) + 1
    /\ xy[1] = x[1]
    /\ \A k \in 1..Len(y) : xy[k + 1] = y[k]

(* A sequence of one and another after it.                                 *)
LEMMA AfterFirst ==
    ASSUME NEW S, NEW x \in Seq(S), Len(x) = 1, NEW y \in Seq(S)
    PROVE  Follow(x, y, x \o y, S)
<1>1. /\ x \o y \in Seq(S) /\ Len(x \o y) = Len(x) + Len(y)
      /\ \A i \in 1..(Len(x) + Len(y)) :
           (x \o y)[i] = IF i <= Len(x) THEN x[i] ELSE y[i - Len(x)]
    BY ConcatProperties, Zenon
<1> DEFINE xy == x \o y
           n == Len(y)
<1>2. n \in Nat
    OBVIOUS
<1> HIDE DEF xy, n
<1>3. /\ xy \in Seq(S) /\ Len(xy) = 1 + n
      /\ \A i \in 1..(1 + n) : xy[i] = IF i <= 1 THEN x[i] ELSE y[i - 1]
    BY <1>1, Zenon DEF xy, n
<1>4. xy[1] = x[1]
    <2>1. 1 \in 1..(1 + n) /\ 1 <= 1
        BY <1>2
    <2>2. QED  BY <1>3, <2>1, Zenon
<1>5. ASSUME NEW k \in 1..n PROVE xy[k + 1] = y[k]
    <2> DEFINE i == k + 1
    <2>1. i \in 1..(1 + n) /\ ~(i <= 1) /\ i - 1 = k
        BY <1>2
    <2> HIDE DEF i
    <2>2. xy[i] = y[k]
        BY <1>3, <2>1, Zenon
    <2>3. QED  BY <2>2 DEF i
<1>6. 1 + n = n + 1
    BY <1>2
<1>7. QED  BY <1>3, <1>4, <1>5, <1>6, Zenon DEF Follow, xy, n

(* The types and values of a request.                                      *)
LEMMA RequestTyped ==
    ASSUME NEW f \in Function, NEW args \in Arguments[f]
    PROVE  /\ Typed(Parameters[f], args)
           /\ Typed(<<"string">> \o Parameters[f], <<Name[f]>> \o args)
           /\ Len(<<"string">> \o Parameters[f]) = Len(Parameters[f]) + 1
           /\ (<<"string">> \o Parameters[f])[1] = "string"
           /\ (<<Name[f]>> \o args)[1] = Name[f]
           /\ \A k \in 1..Len(Parameters[f]) :
                /\ (<<"string">> \o Parameters[f])[k + 1] = Parameters[f][k]
                /\ (<<Name[f]>> \o args)[k + 1] = args[k]
<1> DEFINE P == Parameters[f]
           D == DOMAIN Values
           n == Len(P)
           V == {args[k] : k \in 1..n} \cup {Name[f]}
           types == <<"string">> \o P
           values == <<Name[f]>> \o args
<1>1. /\ P \in Seq(D) /\ Name[f] \in Seq(Byte)
      /\ args = [k \in DOMAIN P |-> args[k]]
      /\ \A k \in DOMAIN args : args[k] \in Values[P[k]]
    BY ValuesAssumption
<1>2. "string" \in D /\ Values["string"] = Seq(Byte)
    BY ValuesAre
<1> HIDE DEF P, D
<1>3. n \in Nat /\ DOMAIN P = 1..n
    BY <1>1
<1>4. DOMAIN args = 1..n
    BY <1>1, <1>3
<1>5. Typed(P, args)
    <2>1. \A k \in 1..n : args[k] \in Values[P[k]]
        BY <1>1, <1>4, Zenon
    <2>2. QED  BY <1>1, <2>1 DEF Typed, D
<1>6. <<"string">> \in Seq(D) /\ Len(<<"string">>) = 1
    BY <1>2
<1>7. args \in [1..n -> V]
    <2>1. \A k \in 1..n : args[k] \in V
        OBVIOUS
    <2>2. args = [k \in 1..n |-> args[k]]
        BY <1>1, <1>3
    <2> HIDE DEF V
    <2>3. QED  BY <2>1, <2>2
<1>8. Name[f] \in V
    OBVIOUS
<1> HIDE DEF V
<1>9. args \in Seq(V) /\ Len(args) = n
    BY <1>3, <1>7
<1>10. <<Name[f]>> \in Seq(V) /\ Len(<<Name[f]>>) = 1 /\ <<Name[f]>>[1] = Name[f]
    BY <1>8
<1>11. /\ types \in Seq(D) /\ Len(types) = n + 1 /\ types[1] = "string"
       /\ \A k \in 1..n : types[k + 1] = P[k]
    <2>1. Follow(<<"string">>, P, types, D)
        BY <1>1, <1>6, AfterFirst
    <2>2. <<"string">>[1] = "string"
        OBVIOUS
    <2>3. QED  BY <2>1, <2>2, Zenon DEF Follow
<1>12. /\ Len(values) = n + 1 /\ values[1] = Name[f]
       /\ \A k \in 1..n : values[k + 1] = args[k]
    <2>1. Follow(<<Name[f]>>, args, values, V)
        BY <1>9, <1>10, AfterFirst
    <2>2. QED  BY <1>9, <1>10, <2>1, Zenon DEF Follow
<1> HIDE DEF types, values
<1>13. Typed(types, values)
    <2>1. ASSUME NEW k \in 1..(n + 1) PROVE values[k] \in Values[types[k]]
        <3>1. CASE k = 1
            BY <1>1, <1>2, <1>11, <1>12, <3>1
        <3>2. CASE k # 1
            <4> DEFINE i == k - 1
            <4>1. i \in 1..n /\ k = i + 1
                BY <1>3, <3>2
            <4> HIDE DEF i
            <4>2. args[i] \in Values[P[i]]
                BY <1>1, <1>4, <4>1
            <4>3. values[i + 1] = args[i] /\ types[i + 1] = P[i]
                BY <1>11, <1>12, <4>1
            <4>4. QED  BY <4>1, <4>2, <4>3, Zenon
        <3>3. QED  BY <3>1, <3>2
    <2>2. QED  BY <1>11, <2>1 DEF Typed, D
<1>14. QED  BY <1>5, <1>11, <1>12, <1>13 DEF types, values, P, n
(* The bytes of a request for f, and the byte its message is longer.       *)
IsRequest(bytes, f, args) ==
    \E byte \in Byte : bytes = Append(RequestOf(f, args), byte)

(* What arrives of the arguments of f.                                     *)
ArgumentsOf(f, args) ==
    [k \in 1..Len(Parameters[f]) |-> Arrived(Parameters[f][k], args[k])]

(* run() and call_() read the name of f from the bytes, and callproxy_()   *)
(* what arrives of the arguments.                                          *)
IsRead(bytes, beyond, f, args, before) ==
    LET ds == StreamBuffer(bytes, beyond)
        name == output_type(ds, "string", <<>>)
    IN /\ name.value = Name[f]
       /\ output_all(StreamBuffer(Data(ds, name), beyond), Parameters[f], before)
            = ArgumentsOf(f, args)

(* A message with a byte more, in memory.                                  *)
LEMMA MessageHeld ==
    ASSUME NEW s \in Seq(Byte), NEW byte \in Byte, NEW beyond \in Seq(Byte)
    PROVE  LET m == Append(s, byte) \o beyond IN
           /\ m \in Seq(Byte) /\ Len(m) = Len(s) + 1 + Len(beyond)
           /\ Holds(m, 0, s)
<1> DEFINE m == Append(s, byte) \o beyond
           a == Append(s, byte)
<1>1. /\ a \in Seq(Byte) /\ Len(a) = Len(s) + 1
      /\ \A i \in 1..Len(s) : a[i] = s[i]
    OBVIOUS
<1>2. Len(s) \in Nat /\ Len(beyond) \in Nat
    OBVIOUS
<1> HIDE DEF a
<1>3. a \o beyond \in Seq(Byte) /\ Holds(a \o beyond, 0, a)
    BY <1>1, HeldAtStart
<1>4. Len(a \o beyond) = Len(s) + 1 + Len(beyond)
    <2>1. Len(a \o beyond) = Len(a) + Len(beyond)
        <3>1. a \in Seq(Byte)
            BY <1>1
        <3>2. QED  BY <3>1
    <2>2. QED  BY <1>1, <2>1, Zenon
<1>5. Holds(a \o beyond, 0, s)
    <2> DEFINE m2 == a \o beyond
    <2>1. 0 + Len(a) <= Len(m2) /\ \A i \in 1..Len(a) : m2[0 + i] = a[i]
        BY <1>3 DEF Holds
    <2> HIDE DEF m2
    <2>2. Len(s) + 1 <= Len(m2)
        BY <1>1, <1>2, <2>1
    <2>3. 0 + Len(s) <= Len(m2)
        <3>1. Len(m2) = Len(s) + 1 + Len(beyond)
            BY <1>4 DEF m2
        <3>2. QED  BY <1>2, <3>1
    <2>4. ASSUME NEW i \in 1..Len(s) PROVE m2[0 + i] = s[i]
        <3>1. i \in 1..(Len(s) + 1)
            BY <1>2
        <3>2. i \in 1..Len(a)
            BY <1>1, <3>1, Zenon
        <3>3. QED  BY <1>1, <2>1, <3>2, Zenon
    <2>5. QED  BY <2>3, <2>4, Zenon DEF Holds, m2
<1>6. QED  BY <1>3, <1>4, <1>5, Zenon DEF a

(* A request, in memory, has its name and its arguments in their places.   *)
LaidRequest(m, size, places, f, args) ==
    /\ Laid(m, size, places, <<"string">> \o Parameters[f], <<Name[f]>> \o args)
    /\ places[0] = 0

(* A request is laid from the start of its message.                        *)
LEMMA RequestLaid ==
    ASSUME NEW f \in Function, NEW args \in Arguments[f],
           NEW byte \in Byte, NEW beyond \in Seq(Byte)
    PROVE  LET s == RequestOf(f, args)
               m == Append(s, byte) \o beyond
           IN /\ s \in Seq(Byte) /\ m \in Seq(Byte)
              /\ Len(m) = Len(s) + 1 + Len(beyond)
              /\ \E places : LaidRequest(m, Len(s), places, f, args)
<1> DEFINE types == <<"string">> \o Parameters[f]
           values == <<Name[f]>> \o args
           n == Len(types)
           s == RequestOf(f, args)
           m == Append(s, byte) \o beyond
<1>1. Typed(types, values)
    BY RequestTyped
<1>2. PICK w : Written(w, <<>>, types, values)
    <2>1. <<>> \in Seq(Byte)
        OBVIOUS
    <2> HIDE DEF types, values
    <2>2. QED  BY <1>1, <2>1, WritesAll
<1>3. n \in Nat /\ s = w[n] /\ w[0] = <<>> /\ w[n] \in Seq(Byte)
    <2>1. n \in Nat
        BY <1>1 DEF Typed
    <2>2. n \in 0..n
        BY <2>1
    <2>3. w \in [0..n -> Seq(Byte)] /\ w[0] = <<>> /\ s = w[n]
        BY <1>2, Zenon DEF Written, RequestOf
    <2>4. QED  BY <2>1, <2>2, <2>3
<1> HIDE DEF types, values, s, n
<1>4. /\ m \in Seq(Byte) /\ Holds(m, 0, w[n])
      /\ Len(m) = Len(s) + 1 + Len(beyond)
    BY <1>3, MessageHeld
<1>5. Len(s) \in Nat /\ 0 + Len(w[n]) <= Len(s) /\ 0 \in Nat
    <2>1. Len(w[n]) \in Nat
        BY <1>3
    <2>2. 0 + Len(w[n]) <= Len(w[n]) /\ 0 \in Nat
        BY <2>1
    <2>3. QED  BY <1>3, <2>1, <2>2, Zenon
<1> HIDE DEF m
<1> DEFINE places == [k \in 0..n |-> 0 + Len(w[k])]
<1>6. Laid(m, Len(s), places, types, values)
    BY <1>1, <1>2, <1>4, <1>5, WrittenIsLaid DEF n
<1>7. places[0] = 0
    BY <1>3
<1> HIDE DEF places
<1>8. LaidRequest(m, Len(s), places, f, args)
    BY <1>6, <1>7 DEF LaidRequest, types, values
<1>9. QED  BY <1>3, <1>4, <1>8, Zenon DEF m, s
(* A string that fits in its length arrives whole.                         *)
LEMMA ArrivesWhole ==
    ASSUME NEW text \in Seq(Byte), Len(text) < LengthLimit
    PROVE  /\ Arrived("string", text) = text
           /\ Len(Encoded("string", text)) = 2 + Len(text)
<1>1. Wrapped(text) = Len(text)
    BY WrappedIs
<1>2. Len(Encoded("string", text)) = 2 + Wrapped(text)
    BY StringEncoded, Zenon
<1>3. SubSeq(text, 1, Len(text)) = text
    BY SubSeqFull
<1>4. Arrived("string", text) = text
    BY <1>1, <1>3, Zenon DEF Arrived
<1>5. QED  BY <1>1, <1>2, <1>4, Zenon

(* The bytes after the name hold the arguments as the whole message does.  *)
IsPart(m, size, places, q, len) ==
    q = places[1] /\ size <= q + len /\ q + len <= Len(m)

(* The arguments are laid in the part of it that call_() is given.         *)
LEMMA ArgumentsLaid ==
    ASSUME NEW f \in Function, NEW args \in Arguments[f],
           NEW m \in Seq(Byte), NEW size \in Nat, NEW places,
           LaidRequest(m, size, places, f, args),
           NEW q \in Nat, NEW len \in Nat,
           IsPart(m, size, places, q, len), NEW beyond \in Seq(Byte)
    PROVE  Laid(SubSeq(m, q + 1, q + len) \o beyond, len,
                [k \in 0..Len(Parameters[f]) |-> places[k + 1] - q],
                Parameters[f], args)
<1> DEFINE P == Parameters[f]
           n == Len(P)
           types == <<"string">> \o P
           values == <<Name[f]>> \o args
           d == SubSeq(m, q + 1, q + len) \o beyond
           e(k) == Encoded(P[k], args[k])
           there == [k \in 0..n |-> places[k + 1] - q]
<1>1. /\ Typed(P, args) /\ Typed(types, values) /\ Len(types) = n + 1
      /\ \A k \in 1..n : types[k + 1] = P[k] /\ values[k + 1] = args[k]
    BY RequestTyped
<1>2. n \in Nat
    BY <1>1 DEF Typed
<1>3. Laid(m, size, places, types, values)
    BY DEF LaidRequest
<1>4. \A k \in 1..Len(types) : places[1] <= places[k]
    <2> HIDE DEF types, values
    <2>1. QED  BY <1>1, <1>3, PlacesGrow
<1> HIDE DEF types, values, P, n
<1>5. \A k \in 0..(n + 1) : places[k] \in Nat
    BY <1>1, <1>3 DEF Laid
<1>6. ASSUME NEW k \in 1..n
      PROVE  /\ Holds(m, places[k], e(k)) /\ places[k] < size
             /\ places[k + 1] <= size /\ places[k + 1] = places[k] + Len(e(k))
             /\ places[k] \in Nat /\ places[k + 1] \in Nat
             /\ q <= places[k] /\ q <= places[k + 1]
             /\ e(k) \in Seq(Byte)
    <2> DEFINE i == k + 1
    <2>1. /\ i \in 1..(n + 1) /\ k \in 1..(n + 1) /\ i - 1 = k
          /\ i \in 0..(n + 1) /\ k \in 0..(n + 1)
        BY <1>2
    <2>2. types[i] = P[k] /\ values[i] = args[k]
        BY <1>1
    <2> HIDE DEF i
    <2>3. /\ Holds(m, places[i - 1], Encoded(types[i], values[i]))
          /\ places[i - 1] < size /\ places[i] <= size
          /\ places[i] = places[i - 1] + Len(Encoded(types[i], values[i]))
        BY <1>1, <1>3, <2>1, Zenon DEF Laid
    <2>4. q <= places[k] /\ q <= places[i]
        BY <1>1, <1>4, <2>1, Zenon DEF IsPart
    <2>5. e(k) \in Seq(Byte)
        <3>1. P[k] \in DOMAIN Values /\ args[k] \in Values[P[k]]
            BY <1>1 DEF Typed, n
        <3>2. QED  BY <3>1, EncodedBytes
    <2>6. places[k] \in Nat /\ places[i] \in Nat
        BY <1>5, <2>1
    <2>7. QED  BY <2>1, <2>2, <2>3, <2>4, <2>5, <2>6, Zenon DEF i
<1>7. d \in Seq(Byte)
    <2>1. SubSeq(m, q + 1, q + len) \in Seq(Byte)
        BY DEF IsPart
    <2>2. QED  BY <2>1
<1> HIDE DEF e
<1>8. \A k \in 0..n : there[k] = places[k + 1] - q
    OBVIOUS
<1> HIDE DEF there
<1>9. \A k \in 0..n : there[k] \in Nat
    <2> SUFFICES ASSUME NEW k \in 0..n PROVE there[k] \in Nat
        OBVIOUS
    <2>1. places[k + 1] \in Nat /\ q <= places[k + 1]
        <3>1. k = 0 \/ k \in 1..n
            BY <1>2
        <3>2. CASE k = 0
            BY <3>2 DEF IsPart
        <3>3. CASE k \in 1..n
            BY <1>6, <3>3
        <3>4. QED  BY <3>1, <3>2, <3>3
    <2>2. QED  BY <1>8, <2>1
<1>10. ASSUME NEW k \in 1..n
       PROVE  /\ Holds(d, there[k - 1], e(k))
              /\ there[k - 1] < len /\ there[k] <= len
              /\ there[k] = there[k - 1] + Len(e(k))
    <2>1. /\ there[k] = places[k + 1] - q /\ there[k - 1] = places[k] - q
        <3>1. k \in 0..n /\ k - 1 \in 0..n /\ k - 1 + 1 = k
            BY <1>2
        <3>2. there[k - 1] = places[k - 1 + 1] - q
            BY <1>8, <3>1, Zenon
        <3>3. QED  BY <1>8, <3>1, <3>2, Zenon
    <2> DEFINE x == places[k]
               y == places[k + 1]
               l == Len(e(k))
    <2>2. /\ Holds(m, x, e(k)) /\ x < size /\ y <= size /\ y = x + l
          /\ x \in Nat /\ y \in Nat /\ q <= x /\ e(k) \in Seq(Byte)
        BY <1>6
    <2>3. l \in Nat
        BY <2>2
    <2>4. x + Len(e(k)) <= q + len
        <3>1. size <= q + len
            BY DEF IsPart
        <3> HIDE DEF x, y
        <3>2. y <= q + len
            BY <2>2, <3>1
        <3>3. QED  BY <2>2, <3>2, Zenon
    <2>5. Holds(d, x - q, e(k))
        <3>1. q + len <= Len(m)
            BY DEF IsPart
        <3>2. QED  BY <2>2, <2>4, <3>1, HeldInPart
    <2> HIDE DEF x, y, l, d
    <2>6. x - q < len /\ y - q <= len /\ y - q = (x - q) + l
        <3>1. size <= q + len
            BY DEF IsPart
        <3>2. QED  BY <2>2, <2>3, <3>1
    <2>7. QED  BY <2>1, <2>5, <2>6, Zenon DEF x, y, l
<1>11. Laid(d, len, there, P, args)
    <2> HIDE DEF d
    <2>1. QED  BY <1>7, <1>9, <1>10 DEF Laid, n, e
<1>12. QED  BY <1>11 DEF there, P, n
(* What run(), call_() and callproxy_() read of a request is what arrives  *)
(* of what was passed, although call_() gives callproxy_() two bytes from  *)
(* behind the message.                                                     *)
LEMMA RequestRead ==
    ASSUME NEW f \in Function, NEW args \in Arguments[f], NEW bytes,
           IsRequest(bytes, f, args), NEW beyond \in Beyond, NEW before
    PROVE  IsRead(bytes, beyond, f, args, before)
<1> DEFINE s == RequestOf(f, args)
           m == bytes \o beyond
           N == Name[f]
           P == Parameters[f]
           types == <<"string">> \o P
           values == <<N>> \o args
           size == Len(s)
<1>1. PICK byte \in Byte : bytes = Append(s, byte)
    BY DEF IsRequest
<1>2. beyond \in Seq(Byte) /\ Len(beyond) \in Nat /\ Len(beyond) >= 2
    BY ValuesAssumption
<1>3. /\ s \in Seq(Byte) /\ m \in Seq(Byte) /\ Len(m) = size + 1 + Len(beyond)
      /\ \E places : LaidRequest(m, size, places, f, args)
    BY <1>1, <1>2, RequestLaid, Zenon
<1>4. PICK places : LaidRequest(m, size, places, f, args)
    BY <1>3
<1>5. Len(bytes) = size + 1 /\ size \in Nat
    BY <1>1, <1>3
<1>6. /\ N \in Seq(Byte) /\ Len(N) \in Nat /\ Len(N) < LengthLimit
    BY ValuesAssumption
<1>7. /\ Typed(P, args) /\ Len(types) = Len(P) + 1 /\ Len(P) \in Nat
      /\ types[1] = "string" /\ values[1] = N
    <2>1. Typed(P, args) => Len(P) \in Nat
        BY DEF Typed
    <2>2. QED  BY <2>1, RequestTyped
<1> DEFINE q == 2 + Len(N)
           len == (size + 1) - Len(N)
<1>8. q = Len(Encoded("string", N)) /\ Arrived("string", N) = N /\ q \in Nat
    BY <1>6, ArrivesWhole
<1> HIDE DEF s, m, N, P, types, values, size
<1>9. /\ Holds(m, places[0], Encoded("string", N)) /\ places[0] = 0
      /\ places[1] = q /\ q <= size
    <2>1. Laid(m, size, places, types, values) /\ places[0] = 0
        BY <1>4 DEF LaidRequest, types, values, P, N
    <2>2. 1 \in 1..Len(types) /\ 1 - 1 = 0
        BY <1>7
    <2> HIDE DEF q
    <2>3. /\ Holds(m, places[0], Encoded("string", N))
          /\ places[1] <= size
          /\ places[1] = places[0] + Len(Encoded("string", N))
        BY <1>7, <2>1, <2>2, Zenon DEF Laid
    <2>4. 0 + q = q
        BY <1>8
    <2>5. QED  BY <1>8, <2>1, <2>3, <2>4, Zenon
<1>10. len \in Nat /\ size <= q + len /\ q + len <= Len(m)
    <2>1. len \in Nat /\ q + len = size + 3
        BY <1>5, <1>6, <1>9
    <2> DEFINE l == Len(beyond)
    <2>2. l \in Nat /\ l >= 2 /\ Len(m) = size + 1 + l
        BY <1>2, <1>3
    <2> HIDE DEF l, len, q
    <2>3. QED  BY <1>5, <2>1, <2>2
<1> HIDE DEF len, q
<1> DEFINE ds == StreamBuffer(bytes, beyond)
           name == output_type(ds, "string", <<>>)
           data == SubSeq(m, q + 1, q + len)
           there == [k \in 0..Len(P) |-> places[k + 1] - q]
<1>11. ds = Stream(m, size + 1, 0) /\ ds.size = size + 1
    BY <1>5, BufferStream DEF m, Stream
<1>12. name = [value |-> N, stream |-> Stream(m, size + 1, q)]
    <2>1. Holds(m, 0, Encoded("string", N)) /\ 0 \in Nat /\ size + 1 \in Nat
        BY <1>5, <1>9
    <2>2. Reads(m, size + 1, 0, "string", N, <<>>)
        BY <1>3, <1>6, <2>1, StringReadBack
    <2>3. 0 + q = q
        BY <1>8
    <2>4. QED  BY <1>8, <1>11, <2>2, <2>3, Zenon DEF Reads
<1> HIDE DEF ds, name
<1>13. name.value = N /\ name.stream = Stream(m, size + 1, q)
    BY <1>12
<1>14. Data(ds, name) = data
    <2>1. Data(ds, name) = current(Stream(m, size + 1, q), len)
        BY <1>11, <1>13, Zenon DEF Data, len
    <2>2. QED  BY <2>1, StreamCurrent
<1>15. Laid(data \o beyond, len, there, P, args)
    <2>1. IsPart(m, size, places, q, len)
        BY <1>9, <1>10 DEF IsPart
    <2>2. m \in Seq(Byte) /\ size \in Nat /\ q \in Nat /\ len \in Nat
        BY <1>3, <1>5, <1>8, <1>10
    <2>3. QED  BY <1>2, <1>4, <2>1, <2>2, ArgumentsLaid DEF P
<1>16. Len(data) = len
    BY <1>3, <1>8, <1>10
<1>17. there[0] = 0
    <2>1. 0 \in 0..Len(P)
        BY <1>7
    <2>2. q - q = 0
        BY <1>8
    <2>3. there[0] = places[1] - q
        BY <2>1
    <2> HIDE DEF there
    <2>4. QED  BY <1>9, <2>2, <2>3, Zenon
<1> HIDE DEF data, there
<1>18. StreamBuffer(data, beyond) = Stream(data \o beyond, len, there[0])
    BY <1>16, <1>17, BufferStream, Zenon
<1>19. output_all(StreamBuffer(data, beyond), P, before)
         = [k \in 1..Len(P) |-> Arrived(P[k], args[k])]
    BY <1>7, <1>15, <1>18, ReadsAll
<1>20. QED
    BY <1>13, <1>14, <1>19, Zenon DEF IsRead, ArgumentsOf, ds, name, N, P
-----------------------------------------------------------------------------
(* What follows a code in an answer does not matter to the code.           *)
CodeIsRead(types, values, beyond, type, before) ==
    OutputValue(input_all(<<>>, types, values), beyond, type, before).code
      = values[1]

(* The code of an answer is read first.                                    *)
LEMMA CodeRead ==
    ASSUME NEW types, NEW values, Typed(types, values), Len(types) >= 1,
           types[1] = "code", NEW beyond \in Seq(Byte), NEW type, NEW before
    PROVE  CodeIsRead(types, values, beyond, type, before)
<1> DEFINE s == input_all(<<>>, types, values)
<1>1. PICK places : LaidFromStart(s, beyond, places, types, values)
    BY BufferLaid
<1> HIDE DEF s
<1> DEFINE m == s \o beyond
           size == Len(s)
           code == output_type(StreamBuffer(s, beyond), "code", 0)
<1>2. /\ Laid(m, size, places, types, values)
      /\ StreamBuffer(s, beyond) = Stream(m, size, places[0])
    BY <1>1 DEF LaidFromStart
<1>3. 1 \in 1..Len(types) /\ 1 - 1 = 0
    <2>1. Len(types) \in Nat
        BY DEF Typed
    <2>2. QED  BY <2>1
<1> HIDE DEF m, size
<1>4. ReadNext(m, size, places, types, values, 1, 0)
    BY <1>2, <1>3, ReadsNext
<1>5. code = [value |-> Arrived(types[1], values[1]),
              stream |-> Stream(m, size, places[1])]
    BY <1>2, <1>3, <1>4, Zenon DEF ReadNext
<1> HIDE DEF code
<1>6. Arrived(types[1], values[1]) = values[1]
    BY DEF Arrived
<1>7. code.value = values[1]
    BY <1>5, <1>6
<1>8. OutputValue(s, beyond, type, before).code = code.value
    BY DEF OutputValue, code
<1>9. QED  BY <1>7, <1>8, Zenon DEF CodeIsRead, s

(* The types and values of an answer.                                      *)
LEMMA AnswerTyped ==
    ASSUME NEW code \in UInt16, NEW type \in DOMAIN Values,
           NEW val \in Values[type], NEW msg \in Seq(Byte)
    PROVE  /\ Typed(<<"code", "string", type>>, <<code, msg, val>>)
           /\ Len(<<"code", "string", type>>) = 3
           /\ Typed(<<"code", "string">>, <<code, msg>>)
           /\ Len(<<"code", "string">>) = 2
<1>1. "code" \in DOMAIN Values /\ "string" \in DOMAIN Values
    BY ValuesAre
<1>2. code \in Values["code"] /\ msg \in Values["string"]
    BY ValuesAre
<1> DEFINE t == <<"code", "string", type>>
           v == <<code, msg, val>>
           t2 == <<"code", "string">>
           v2 == <<code, msg>>
<1>3. /\ t \in Seq(DOMAIN Values) /\ Len(t) = 3
      /\ t[1] = "code" /\ t[2] = "string" /\ t[3] = type
      /\ v[1] = code /\ v[2] = msg /\ v[3] = val
    BY <1>1
<1>4. /\ t2 \in Seq(DOMAIN Values) /\ Len(t2) = 2
      /\ t2[1] = "code" /\ t2[2] = "string"
      /\ v2[1] = code /\ v2[2] = msg
    BY <1>1
<1> HIDE DEF t, v, t2, v2
<1>5. \A k \in 1..3 : v[k] \in Values[t[k]]
    BY <1>2, <1>3
<1>6. \A k \in 1..2 : v2[k] \in Values[t2[k]]
    BY <1>2, <1>4
<1>7. Typed(t, v) /\ Len(t) = 3
    BY <1>3, <1>5 DEF Typed
<1>8. Typed(t2, v2) /\ Len(t2) = 2
    BY <1>4, <1>6 DEF Typed
<1>9. QED  BY <1>7, <1>8 DEF t, v, t2, v2

(* An answer with a value is read as a success with what arrives of it.    *)
AnswerIsRead(type, val, beyond, before) ==
    OutputValue(InputValue(RPC_ERR_SUCCESS, <<>>, type, val), beyond, type, before)
      = [code |-> RPC_ERR_SUCCESS, val |-> Arrived(type, val)]

(* An answer with a value is read so.                                      *)
LEMMA AnswerRead ==
    ASSUME NEW type \in DOMAIN Values, NEW val \in Values[type],
           NEW beyond \in Beyond, NEW before
    PROVE  AnswerIsRead(type, val, beyond, before)
<1> DEFINE types == <<"code", "string", type>>
           values == <<RPC_ERR_SUCCESS, <<>>, val>>
           s == input_all(<<>>, types, values)
<1>1. RPC_ERR_SUCCESS \in UInt16 /\ <<>> \in Seq(Byte)
    BY DEF RPC_ERR_SUCCESS, UInt16
<1>2. Typed(types, values) /\ Len(types) = 3
    BY <1>1, AnswerTyped
<1>3. /\ types[1] = "code" /\ types[2] = "string" /\ types[3] = type
      /\ values[1] = RPC_ERR_SUCCESS /\ values[2] = <<>> /\ values[3] = val
    OBVIOUS
<1>4. beyond \in Seq(Byte)
    BY ValuesAssumption
<1> HIDE DEF types, values
<1>5. PICK places : LaidFromStart(s, beyond, places, types, values)
    BY <1>2, <1>4, BufferLaid
<1> HIDE DEF s
<1> DEFINE m == s \o beyond
           size == Len(s)
           code == output_type(StreamBuffer(s, beyond), "code", 0)
           msg == output_type(code.stream, "string", <<>>)
           last == output_type(msg.stream, type, before)
<1>6. /\ Laid(m, size, places, types, values)
      /\ StreamBuffer(s, beyond) = Stream(m, size, places[0])
    BY <1>5 DEF LaidFromStart
<1> HIDE DEF m, size
<1>7. /\ 1 \in 1..Len(types) /\ 2 \in 1..Len(types) /\ 3 \in 1..Len(types)
      /\ 1 - 1 = 0 /\ 2 - 1 = 1 /\ 3 - 1 = 2
    BY <1>2
<1>8. code = [value |-> RPC_ERR_SUCCESS, stream |-> Stream(m, size, places[1])]
    <2>1. ReadNext(m, size, places, types, values, 1, 0)
        BY <1>2, <1>6, <1>7, ReadsNext
    <2>2. Arrived(types[1], values[1]) = RPC_ERR_SUCCESS
        BY <1>3 DEF Arrived
    <2>3. QED  BY <1>3, <1>6, <1>7, <2>1, <2>2, Zenon DEF ReadNext
<1> HIDE DEF code
<1>9. code.value = RPC_ERR_SUCCESS /\ code.stream = Stream(m, size, places[1])
    BY <1>8
<1>10. msg = [value |-> Arrived(types[2], values[2]),
              stream |-> Stream(m, size, places[2])]
    <2>1. ReadNext(m, size, places, types, values, 2, <<>>)
        BY <1>2, <1>6, <1>7, ReadsNext
    <2>2. QED  BY <1>3, <1>7, <1>9, <2>1, Zenon DEF ReadNext
<1> HIDE DEF msg
<1>11. msg.stream = Stream(m, size, places[2])
    BY <1>10
<1>12. last = [value |-> Arrived(type, val), stream |-> Stream(m, size, places[3])]
    <2>1. ReadNext(m, size, places, types, values, 3, before)
        BY <1>2, <1>6, <1>7, ReadsNext
    <2>2. QED  BY <1>3, <1>7, <1>11, <2>1, Zenon DEF ReadNext
<1> HIDE DEF last
<1>13. last.value = Arrived(type, val)
    BY <1>12
<1>14. OutputValue(s, beyond, type, before)
         = [code |-> code.value,
            val |-> IF code.value = RPC_ERR_SUCCESS THEN last.value ELSE before]
    BY DEF OutputValue, code, msg, last
<1>15. s = InputValue(RPC_ERR_SUCCESS, <<>>, type, val)
    BY DEF InputValue, s, types, values
<1>16. QED  BY <1>9, <1>13, <1>14, <1>15, Zenon DEF AnswerIsRead
-----------------------------------------------------------------------------
FunctionOf(c, j) == calls[c][j].function
PassedTo(c, j) == calls[c][j].args
Ran(c, j) == executed[c][j] # <<>>
Ret(c, j) == executed[c][j][1].val

(* A message is the request of a call, or the answer to one: what its      *)
(* execution returned, or that nothing is bound to the name.               *)
RequestOfCall(c, r) ==
    \E j \in 1..Len(calls[c]) :
        /\ r = [call |-> j, bytes |-> r.bytes]
        /\ IsRequest(r.bytes, FunctionOf(c, j), PassedTo(c, j))

Refusal(f) ==
    input_all(<<>>, <<"code", "string">>, <<RPC_ERR_FUNCTIION_NOT_BIND, Name[f]>>)

AnswerOfCall(c, a) ==
    \E j \in 1..Len(calls[c]) :
        /\ a = [call |-> j, bytes |-> a.bytes]
        /\ \/ /\ Ran(c, j)
              /\ a.bytes = InputValue(RPC_ERR_SUCCESS, <<>>,
                                      Result[FunctionOf(c, j)], Ret(c, j))
           \/ /\ FunctionOf(c, j) \notin Bound
              /\ a.bytes = Refusal(FunctionOf(c, j))

(* A call was executed with what arrives of its arguments.                 *)
RanWell(c, j) ==
    /\ FunctionOf(c, j) \in Bound
    /\ executed[c][j][1].args = ArgumentsOf(FunctionOf(c, j), PassedTo(c, j))
    /\ Ret(c, j) \in Values[Result[FunctionOf(c, j)]]

(* The result of a call that did not time out is that of the call it took  *)
(* the answer to.                                                          *)
ResultOf(c, i, j) ==
    \/ /\ Ran(c, j) /\ results[c][i].code = RPC_ERR_SUCCESS
       /\ Result[FunctionOf(c, i)] = Result[FunctionOf(c, j)] =>
            results[c][i].val = Arrived(Result[FunctionOf(c, j)], Ret(c, j))
    \/ /\ FunctionOf(c, j) \notin Bound
       /\ results[c][i].code = RPC_ERR_FUNCTIION_NOT_BIND

ResultWell(c, i) ==
    IF TimedOut(c, i) THEN results[c][i].code = RPC_ERR_RECV_TIMEOUT
    ELSE answered[c][i] \in 1..Len(calls[c]) /\ ResultOf(c, i, answered[c][i])

Messages(c) ==
    /\ requests[c] # <<>> => RequestOfCall(c, requests[c][1])
    /\ Serves(c) =>
         /\ serving = [step |-> "call", client |-> c, request |-> serving.request]
         /\ RequestOfCall(c, serving.request)
    /\ answers[c] # <<>> => AnswerOfCall(c, answers[c][1])
Called(c) ==
    \A j \in 1..Len(calls[c]) :
        /\ FunctionOf(c, j) \in Function
        /\ PassedTo(c, j) \in Arguments[FunctionOf(c, j)]
Executed(c) == \A j \in 1..Len(calls[c]) : Ran(c, j) => RanWell(c, j)
Returned(c) ==
    /\ \E S : results[c] \in Seq(S)
    /\ Len(results[c]) = Len(answered[c])
    /\ \A i \in 1..Len(answered[c]) : ResultWell(c, i)

DataInv(c) == Messages(c) /\ Called(c) /\ Executed(c) /\ Returned(c)
ValueInv ==
    /\ results = [c \in Client |-> results[c]]
    /\ \A c \in Client : DataInv(c)

(* The invariant holds at first.                                           *)
LEMMA ValueInit == Init => ValueInv
<1> SUFFICES ASSUME Init PROVE ValueInv
    OBVIOUS
<1>1. ASSUME NEW c \in Client PROVE DataInv(c)
    <2>1. /\ calls[c] = <<>> /\ results[c] = <<>> /\ answered[c] = <<>>
          /\ requests[c] = <<>> /\ answers[c] = <<>> /\ serving = Nobody
        BY DEF Init
    <2>2. Messages(c)
        BY <2>1 DEF Messages, Serves
    <2>3. Len(<<>>) = 0 /\ 1..0 = {} /\ <<>> \in Seq({})
        OBVIOUS
    <2>4. Called(c) /\ Executed(c)
        BY <2>1, <2>3 DEF Called, Executed
    <2>5. Returned(c)
        BY <2>1, <2>3 DEF Returned
    <2>6. QED  BY <2>2, <2>4, <2>5 DEF DataInv
<1>2. results = [c \in Client |-> results[c]]
    BY DEF Init
<1>3. QED  BY <1>1, <1>2 DEF ValueInv

(* What is known of a client's calls.                                      *)
LEMMA CallsOf ==
    ASSUME RpcInv, NEW c \in Client
    PROVE  /\ calls[c] \in Seq(CallRecord) /\ Len(calls[c]) \in Nat
           /\ answered[c] \in Seq(Nat) /\ Len(answered[c]) \in Nat
           /\ Len(answered[c]) <= Len(calls[c]) /\ Len(calls[c]) <= MaxCalls[c]
           /\ MaxCalls[c] \in Nat
<1>1. Types /\ InOrder(c)
    BY DEF RpcInv, ClientInv
<1>2. /\ calls[c] \in Seq(CallRecord) /\ Len(calls[c]) \in Nat
      /\ answered[c] \in Seq(Nat) /\ Len(answered[c]) \in Nat
    BY <1>1 DEF Types
<1>3. Len(answered[c]) <= Len(calls[c]) /\ Len(calls[c]) <= MaxCalls[c]
    <2>1. Len(calls[c]) \in {Len(answered[c]), Len(answered[c]) + 1}
        BY <1>1 DEF InOrder
    <2> DEFINE x == Len(calls[c])
               y == Len(answered[c])
    <2>2. x \in Nat /\ y \in Nat /\ x \in {y, y + 1}
        BY <1>2, <2>1
    <2> HIDE DEF x, y
    <2>3. y <= x
        BY <2>2
    <2>4. QED  BY <1>1, <2>3 DEF InOrder, x, y
<1>4. QED  BY <1>2, <1>3, ClientsAssumption

(* A step that keeps the calls made and the executions.                    *)
Grown(c) ==
    /\ Len(calls[c]) \in Nat /\ Len(calls'[c]) \in Nat
    /\ Len(calls[c]) <= Len(calls'[c])
    /\ \A j \in 1..Len(calls[c]) :
        /\ calls'[c][j] = calls[c][j]
        /\ Ran(c, j) => executed'[c][j] = executed[c][j]

(* It keeps what a message is, and what a result is.                       *)
LEMMA GrownCall ==
    ASSUME NEW c, Grown(c), NEW j \in 1..Len(calls[c])
    PROVE  /\ j \in 1..Len(calls'[c])
           /\ FunctionOf(c, j)' = FunctionOf(c, j)
           /\ PassedTo(c, j)' = PassedTo(c, j)
           /\ Ran(c, j) => Ran(c, j)' /\ Ret(c, j)' = Ret(c, j)
           /\ Ran(c, j) /\ RanWell(c, j) => RanWell(c, j)'
<1>1. /\ calls'[c][j] = calls[c][j]
      /\ Ran(c, j) => executed'[c][j] = executed[c][j]
    BY DEF Grown
<1>2. j \in 1..Len(calls'[c])
    BY DEF Grown
<1>3. QED
    BY <1>1, <1>2, Zenon DEF FunctionOf, PassedTo, Ran, Ret, RanWell

(* A message stays the request of its call.                                *)
LEMMA RequestKept ==
    ASSUME NEW c, Grown(c), NEW r, RequestOfCall(c, r)
    PROVE  RequestOfCall(c, r)'
<1>1. PICK j \in 1..Len(calls[c]) :
         /\ r = [call |-> j, bytes |-> r.bytes]
         /\ IsRequest(r.bytes, FunctionOf(c, j), PassedTo(c, j))
    BY DEF RequestOfCall
<1>2. /\ j \in 1..Len(calls'[c]) /\ FunctionOf(c, j)' = FunctionOf(c, j)
      /\ PassedTo(c, j)' = PassedTo(c, j)
    BY GrownCall
<1>3. IsRequest(r.bytes, FunctionOf(c, j)', PassedTo(c, j)')
    BY <1>1, <1>2, Zenon
<1>4. QED  BY <1>1, <1>2, <1>3, Zenon DEF RequestOfCall, IsRequest

(* And the answer to it.                                                   *)
LEMMA AnswerKept ==
    ASSUME NEW c, Grown(c), NEW a, AnswerOfCall(c, a)
    PROVE  AnswerOfCall(c, a)'
<1>1. PICK j \in 1..Len(calls[c]) :
        /\ a = [call |-> j, bytes |-> a.bytes]
        /\ \/ /\ Ran(c, j)
              /\ a.bytes = InputValue(RPC_ERR_SUCCESS, <<>>,
                                      Result[FunctionOf(c, j)], Ret(c, j))
           \/ /\ FunctionOf(c, j) \notin Bound
              /\ a.bytes = Refusal(FunctionOf(c, j))
    BY DEF AnswerOfCall
<1>2. /\ j \in 1..Len(calls'[c]) /\ FunctionOf(c, j)' = FunctionOf(c, j)
      /\ Ran(c, j) => Ran(c, j)' /\ Ret(c, j)' = Ret(c, j)
    BY GrownCall
<1>3. \/ /\ Ran(c, j)'
         /\ a.bytes = InputValue(RPC_ERR_SUCCESS, <<>>,
                                 Result[FunctionOf(c, j)'], Ret(c, j)')
      \/ /\ FunctionOf(c, j)' \notin Bound
         /\ a.bytes = Refusal(FunctionOf(c, j)')
    BY <1>1, <1>2, Zenon
<1>4. QED  BY <1>1, <1>2, <1>3, Zenon DEF AnswerOfCall, Refusal, InputValue

(* A result stays that of the call it took the answer to.                  *)
LEMMA ResultKept ==
    ASSUME NEW c, Grown(c), NEW i \in 1..Len(calls[c]), ResultWell(c, i),
           results'[c][i] = results[c][i], answered'[c][i] = answered[c][i]
    PROVE  ResultWell(c, i)'
<1>1. CASE TimedOut(c, i)
    BY <1>1 DEF ResultWell, TimedOut
<1>2. CASE ~TimedOut(c, i)
    <2> DEFINE j == answered[c][i]
    <2>1. j \in 1..Len(calls[c]) /\ ResultOf(c, i, j)
        BY <1>2 DEF ResultWell
    <2>2. PICK k : k = j
        OBVIOUS
    <2> HIDE DEF j
    <2>3. k \in 1..Len(calls[c]) /\ ResultOf(c, i, k)
        BY <2>1, <2>2
    <2>4. /\ k \in 1..Len(calls'[c]) /\ FunctionOf(c, k)' = FunctionOf(c, k)
          /\ Ran(c, k) => Ran(c, k)' /\ Ret(c, k)' = Ret(c, k)
          /\ FunctionOf(c, i)' = FunctionOf(c, i)
        BY <2>3, GrownCall
    <2>5. ResultOf(c, i, k)'
        BY <2>3, <2>4, Zenon DEF ResultOf
    <2>6. answered'[c][i] = k /\ ~TimedOut(c, i)'
        BY <1>2, <2>2 DEF TimedOut, j
    <2>7. QED  BY <2>4, <2>5, <2>6, Zenon DEF ResultWell
<1>3. QED  BY <1>1, <1>2

(* A queue of at most one that is not empty.                               *)
LEMMA QueuesOf ==
    ASSUME RpcInv, NEW c \in Client
    PROVE  /\ requests[c] # <<>> =>
                /\ requests[c] = <<requests[c][1]>>
                /\ Head(requests[c]) = requests[c][1]
                /\ answers[c] = <<>> /\ ~Serves(c)
           /\ answers[c] # <<>> =>
                /\ answers[c] = <<answers[c][1]>>
                /\ Head(answers[c]) = answers[c][1] /\ Tail(answers[c]) = <<>>
                /\ requests[c] = <<>> /\ ~Serves(c)
           /\ Serves(c) => requests[c] = <<>> /\ answers[c] = <<>>
<1>1. InTurn(c)
    BY DEF RpcInv, ClientInv
<1>2. \/ requests[c] = <<>> /\ ~Serves(c) /\ answers[c] = <<>>
      \/ \E j \in 1..Len(calls[c]) : UnderWay(c, j)
    BY <1>1 DEF InTurn
<1>3. ASSUME requests[c] # <<>>
      PROVE  /\ requests[c] = <<requests[c][1]>>
             /\ answers[c] = <<>> /\ ~Serves(c)
    BY <1>2, <1>3 DEF UnderWay, OneOf
<1>4. ASSUME answers[c] # <<>>
      PROVE  /\ answers[c] = <<answers[c][1]>>
             /\ requests[c] = <<>> /\ ~Serves(c)
    BY <1>2, <1>4 DEF UnderWay, OneOf
<1>5. ASSUME NEW x PROVE Head(<<x>>) = x /\ Tail(<<x>>) = <<>>
    BY QueueOfOne
<1>6. requests[c] # <<>> => Head(requests[c]) = requests[c][1]
    BY <1>3, <1>5
<1>7. answers[c] # <<>> =>
        Head(answers[c]) = answers[c][1] /\ Tail(answers[c]) = <<>>
    BY <1>4, <1>5
<1>8. Serves(c) => requests[c] = <<>> /\ answers[c] = <<>>
    BY <1>3, <1>4
<1>9. QED  BY <1>3, <1>4, <1>6, <1>7, <1>8

(* The messages of a client that stay where they are.                      *)
LEMMA MessagesKept ==
    ASSUME NEW c, Messages(c), Grown(c), requests'[c] = requests[c],
           answers'[c] = answers[c], Serves(c)' => Serves(c) /\ serving' = serving
    PROVE  Messages(c)'
<1>1. requests'[c] # <<>> => RequestOfCall(c, requests[c][1])'
    <2> SUFFICES ASSUME requests[c] # <<>> PROVE RequestOfCall(c, requests[c][1])'
        OBVIOUS
    <2>1. PICK r : r = requests[c][1]
        OBVIOUS
    <2>2. RequestOfCall(c, r)
        BY <2>1 DEF Messages
    <2>3. RequestOfCall(c, r)'
        BY <2>2, RequestKept
    <2>4. requests'[c][1] = r
        BY <2>1
    <2>5. QED  BY <2>3, <2>4, Zenon DEF RequestOfCall
<1>2. answers'[c] # <<>> => AnswerOfCall(c, answers[c][1])'
    <2> SUFFICES ASSUME answers[c] # <<>> PROVE AnswerOfCall(c, answers[c][1])'
        OBVIOUS
    <2>1. PICK a : a = answers[c][1]
        OBVIOUS
    <2>2. AnswerOfCall(c, a)
        BY <2>1 DEF Messages
    <2>3. AnswerOfCall(c, a)'
        BY <2>2, AnswerKept
    <2>4. answers'[c][1] = a
        BY <2>1
    <2>5. QED  BY <2>3, <2>4, Zenon DEF AnswerOfCall
<1>3. Serves(c)' =>
        /\ serving' = [step |-> "call", client |-> c, request |-> serving'.request]
        /\ RequestOfCall(c, serving.request)'
    <2> SUFFICES ASSUME Serves(c), serving' = serving
                 PROVE  /\ serving' = [step |-> "call", client |-> c,
                                       request |-> serving'.request]
                        /\ RequestOfCall(c, serving.request)'
        OBVIOUS
    <2>1. PICK r : r = serving.request
        OBVIOUS
    <2>2. /\ RequestOfCall(c, r)
          /\ serving = [step |-> "call", client |-> c, request |-> serving.request]
        BY <2>1 DEF Messages
    <2>3. RequestOfCall(c, r)'
        BY <2>2, RequestKept
    <2>4. serving'.request = r
        BY <2>1
    <2>5. QED  BY <2>2, <2>3, <2>4, Zenon DEF RequestOfCall
<1>4. QED  BY <1>1, <1>2, <1>3, Zenon DEF Messages

(* A client whose state stays as it is.                                    *)
LEMMA DataAlone ==
    ASSUME RpcInv, NEW c \in Client, DataInv(c),
           calls'[c] = calls[c], results'[c] = results[c],
           answered'[c] = answered[c], requests'[c] = requests[c],
           answers'[c] = answers[c], executed'[c] = executed[c],
           Serves(c)' => Serves(c) /\ serving' = serving
    PROVE  DataInv(c)'
<1>1. Len(calls[c]) \in Nat /\ Len(answered[c]) \in Nat
      /\ Len(answered[c]) <= Len(calls[c])
    BY CallsOf
<1>2. Grown(c)
    BY <1>1 DEF Grown
<1>3. Messages(c)'
    BY <1>2, MessagesKept DEF DataInv
<1>4. Called(c)'
    BY DEF DataInv, Called, FunctionOf, PassedTo
<1>5. Executed(c)'
    BY DEF DataInv, Executed, Ran, RanWell, Ret, FunctionOf, PassedTo
<1>6. ASSUME NEW i \in 1..Len(answered[c]) PROVE ResultWell(c, i)'
    <2>1. ResultWell(c, i)
        BY DEF DataInv, Returned
    <2>2. i \in 1..Len(calls[c])
        BY <1>1
    <2>3. QED  BY <1>2, <2>1, <2>2, ResultKept
<1>7. Returned(c)'
    <2>1. /\ \E S : results[c] \in Seq(S)
          /\ Len(results[c]) = Len(answered[c])
        BY DEF DataInv, Returned
    <2>2. QED  BY <1>6, <2>1, Zenon DEF Returned
<1>8. QED  BY <1>3, <1>4, <1>5, <1>7 DEF DataInv

(* A sequence with an element appended.                                    *)
Longer(s, x, t) ==
    /\ Len(t) = Len(s) + 1 /\ t[Len(s) + 1] = x
    /\ \A j \in 1..Len(s) : t[j] = s[j]

(* Append() makes such a sequence.                                         *)
LEMMA AppendIs ==
    ASSUME NEW S, NEW s \in Seq(S), NEW x \in S
    PROVE  Longer(s, x, Append(s, x))
BY AppendProperties DEF Longer

(* A call that is made.                                                    *)
LEMMA CallValues ==
    ASSUME RpcInv, ValueInv, NEW c \in Client, NEW f \in Function,
           NEW args \in Arguments[f], NEW beyond \in Beyond,
           Call(c, f, args, beyond)
    PROVE  ValueInv'
<1>0. PICK n : n = Len(calls[c])
    OBVIOUS
<1> DEFINE call == [function |-> f, args |-> args]
<1>1. /\ calls' = [calls EXCEPT ![c] = Append(@, call)]
      /\ results' = results /\ answered' = answered /\ serving' = serving
      /\ executed' = executed /\ answers' = answers
    BY DEF Call
<1>2. Types /\ DataInv(c)
    BY DEF RpcInv, ValueInv
<1>3. /\ calls[c] \in Seq(CallRecord) /\ n \in Nat /\ Len(answered[c]) \in Nat
      /\ Len(answered[c]) <= n
    BY <1>0, CallsOf
<1>4. call \in CallRecord
    BY DEF CallRecord
<1>5. calls'[c] = Append(calls[c], call)
    BY <1>1, <1>2 DEF Types
<1>6. /\ Len(calls'[c]) = n + 1 /\ calls'[c][n + 1] = call
      /\ \A j \in 1..n : calls'[c][j] = calls[c][j]
    <2> HIDE DEF call
    <2>1. Longer(calls[c], call, calls'[c])
        BY <1>3, <1>4, <1>5, AppendIs
    <2>2. QED  BY <1>0, <2>1, Zenon DEF Longer
<1>7. Grown(c)
    <2> HIDE DEF call
    <2>1. n + 1 \in Nat /\ n <= n + 1
        BY <1>3
    <2>2. QED  BY <1>0, <1>1, <1>3, <1>6, <2>1, Zenon DEF Grown
<1>8. ASSUME NEW j \in 1..n
      PROVE  FunctionOf(c, j)' = FunctionOf(c, j) /\ PassedTo(c, j)' = PassedTo(c, j)
    BY <1>6 DEF FunctionOf, PassedTo
<1>9. FunctionOf(c, n + 1)' = f /\ PassedTo(c, n + 1)' = args
    <2>1. FunctionOf(c, n + 1)' = calls'[c][n + 1].function
          /\ PassedTo(c, n + 1)' = calls'[c][n + 1].args
        BY DEF FunctionOf, PassedTo
    <2>2. QED  BY <1>6, <2>1
<1>10. \A j \in 1..(n + 1) : j \in 1..n \/ j = n + 1
    BY <1>3
<1>11. Called(c)'
    <2>1. ASSUME NEW j \in 1..(n + 1)
          PROVE  /\ FunctionOf(c, j)' \in Function
                 /\ PassedTo(c, j)' \in Arguments[FunctionOf(c, j)']
        <3>1. CASE j \in 1..n
            BY <1>0, <1>2, <1>8, <3>1 DEF DataInv, Called
        <3>2. CASE j = n + 1
            BY <1>9, <3>2
        <3>3. QED  BY <1>10, <3>1, <3>2
    <2>2. QED  BY <1>6, <2>1 DEF Called
<1>12. Executed(c)'
    <2> SUFFICES ASSUME NEW j \in 1..(n + 1), Ran(c, j)' PROVE RanWell(c, j)'
        BY <1>6 DEF Executed
    <2>1. Ran(c, j)
        BY <1>1 DEF Ran
    <2>2. j \in 1..n
        <3>1. Executions(c) /\ n < MaxCalls[c] /\ MaxCalls[c] \in Nat
            BY <1>0, ClientsAssumption DEF RpcInv, ClientInv, Call
        <3>2. j \in 1..MaxCalls[c]
            BY <1>3, <3>1
        <3>3. j <= n
            BY <1>0, <2>1, <3>1, <3>2 DEF Executions, Unexecuted, Ran
        <3>4. QED  BY <1>3, <3>3
    <2>3. RanWell(c, j)
        BY <1>0, <1>2, <2>1, <2>2 DEF DataInv, Executed
    <2>4. QED  BY <1>0, <1>7, <2>1, <2>2, <2>3, GrownCall
<1>13. Returned(c)'
    <2>1. ASSUME NEW i \in 1..Len(answered[c]) PROVE ResultWell(c, i)'
        <3>1. ResultWell(c, i)
            BY <1>2 DEF DataInv, Returned
        <3>2. i \in 1..Len(calls[c])
            BY <1>0, <1>3
        <3>3. QED  BY <1>1, <1>7, <3>1, <3>2, ResultKept
    <2>2. /\ \E S : results[c] \in Seq(S)
          /\ Len(results[c]) = Len(answered[c])
        BY <1>2 DEF DataInv, Returned
    <2>3. QED  BY <1>1, <2>1, <2>2, Zenon DEF Returned
<1>14. Messages(c)'
    <2>1. CASE requests'[c] = requests[c]
        BY <1>1, <1>2, <1>7, <2>1, MessagesKept DEF DataInv, Serves
    <2>2. CASE requests'[c] # requests[c]
        <3> DEFINE r == [call |-> Len(calls'[c]),
                         bytes |-> Append(RequestOf(f, args), Head(beyond))]
        <3>1. Sends(c) /\ socket[c] = "send" /\ requests'[c] = Append(requests[c], r)
            BY <1>2, <2>2 DEF Call, Types
        <3>2. requests[c] = <<>> /\ ~Serves(c) /\ answers[c] = <<>>
            BY <3>1 DEF RpcInv, ClientInv, InTurn
        <3>3. requests'[c] = <<r>> /\ <<r>>[1] = r
            <4> HIDE DEF r
            <4>1. QED  BY <3>1, <3>2, QueueOfOne
        <3>4. IsRequest(r.bytes, f, args)
            <4>1. Head(beyond) \in Byte
                <5>1. beyond \in Seq(Byte) /\ Len(beyond) >= 2
                    BY ValuesAssumption
                <5>2. 1 \in 1..Len(beyond) /\ Head(beyond) = beyond[1]
                    BY <5>1
                <5>3. QED  BY <5>1, <5>2
            <4>2. r.bytes = Append(RequestOf(f, args), Head(beyond))
                OBVIOUS
            <4>3. QED  BY <4>1, <4>2, Zenon DEF IsRequest
        <3>5. r = [call |-> n + 1, bytes |-> r.bytes]
            BY <1>6
        <3> HIDE DEF r
        <3>6. n + 1 \in 1..(n + 1)
            BY <1>3
        <3>7. PICK m : m = r
            OBVIOUS
        <3>8. RequestOfCall(c, m)'
            BY <1>6, <1>9, <3>4, <3>5, <3>6, <3>7, Zenon
            DEF RequestOfCall, IsRequest, RequestOf
        <3>9. requests'[c][1] = m
            BY <3>3, <3>7
        <3>10. RequestOfCall(c, requests[c][1])'
            BY <3>8, <3>9, Zenon DEF RequestOfCall
        <3>11. ~Serves(c)' /\ answers'[c] = <<>>
            BY <1>1, <3>2 DEF Serves
        <3>12. QED  BY <3>10, <3>11, Zenon DEF Messages
    <2>3. QED  BY <2>1, <2>2
<1>15. DataInv(c)'
    BY <1>11, <1>12, <1>13, <1>14 DEF DataInv
<1>16. ASSUME NEW d \in Client, d # c PROVE DataInv(d)'
    <2>1. calls'[d] = calls[d] /\ requests'[d] = requests[d]
        BY <1>2, <1>16 DEF Types, Call
    <2>2. DataInv(d)
        BY DEF ValueInv
    <2>3. QED  BY <1>1, <2>1, <2>2, DataAlone DEF Serves
<1>17. results' = [d \in Client |-> results'[d]]
    BY <1>1 DEF ValueInv
<1>18. QED  BY <1>15, <1>16, <1>17 DEF ValueInv
(* A call that is over is one result more.                                 *)
LEMMA ReturnedLonger ==
    ASSUME RpcInv, NEW c \in Client, Grown(c), Returned(c),
           NEW n, n = Len(answered[c]), NEW k \in Nat, NEW v,
           results'[c] = Append(results[c], v),
           answered'[c] = Append(answered[c], k), ResultWell(c, n + 1)'
    PROVE  Returned(c)'
<1>1. /\ answered[c] \in Seq(Nat) /\ n \in Nat /\ Len(calls[c]) \in Nat
      /\ n <= Len(calls[c])
    BY CallsOf
<1>2. Longer(answered[c], k, answered'[c])
    BY <1>1, AppendIs
<1>3. PICK S : results[c] \in Seq(S)
    BY DEF Returned
<1>4. results[c] \in Seq(S \cup {v}) /\ v \in S \cup {v}
    BY <1>3
<1>5. Longer(results[c], v, results'[c])
    <2> DEFINE T == S \cup {v}
    <2>1. results[c] \in Seq(T) /\ v \in T
        BY <1>4
    <2> HIDE DEF T
    <2>2. QED  BY <2>1, AppendIs
<1>6. results'[c] \in Seq(S \cup {v})
    BY <1>4
<1>7. Len(results[c]) = n
    BY DEF Returned
<1>8. Len(results'[c]) = Len(answered'[c]) /\ Len(answered'[c]) = n + 1
    BY <1>2, <1>5, <1>7, Zenon DEF Longer
<1>9. ASSUME NEW i \in 1..(n + 1) PROVE ResultWell(c, i)'
    <2>1. CASE i = n + 1
        BY <2>1
    <2>2. CASE i # n + 1
        <3>1. i \in 1..n /\ i \in 1..Len(calls[c])
            BY <1>1, <2>2
        <3>2. ResultWell(c, i)
            BY <3>1 DEF Returned
        <3>3. results'[c][i] = results[c][i] /\ answered'[c][i] = answered[c][i]
            BY <1>2, <1>5, <1>7, <3>1, Zenon DEF Longer
        <3>4. QED  BY <3>1, <3>2, <3>3, ResultKept
    <2>3. QED  BY <2>1, <2>2
<1>10. QED  BY <1>6, <1>8, <1>9, Zenon DEF Returned

(* An answer that is taken.                                                *)
LEMMA ReceiveValues ==
    ASSUME RpcInv, ValueInv, NEW c \in Client, NEW beyond \in Beyond,
           NEW uninitialized, Receive(c, beyond, uninitialized)
    PROVE  ValueInv'
<1>0. PICK n : n = Len(answered[c])
    OBVIOUS
<1>1. Types /\ DataInv(c)
    BY DEF RpcInv, ValueInv
<1>2. /\ calls' = calls /\ requests' = requests /\ serving' = serving
      /\ executed' = executed /\ answers[c] # <<>> /\ Calling(c)
    BY DEF Receive
<1>3. /\ n \in Nat /\ Len(calls[c]) = n + 1 /\ Len(calls[c]) \in Nat
      /\ answered[c] \in Seq(Nat)
    BY <1>0, <1>1, <1>2, CallsOf DEF RpcInv, ClientInv, InOrder, Calling
<1>4. Grown(c)
    <2>1. Len(calls[c]) <= Len(calls[c])
        BY <1>3
    <2>2. QED  BY <1>2, <1>3, <2>1, Zenon DEF Grown
<1>5. PICK a : a = answers[c][1]
    OBVIOUS
<1>6. /\ Head(answers[c]) = a /\ Tail(answers[c]) = <<>>
      /\ requests[c] = <<>> /\ ~Serves(c) /\ AnswerOfCall(c, a)
    BY <1>1, <1>2, <1>5, QueuesOf DEF DataInv, Messages
<1>7. PICK j \in 1..Len(calls[c]) :
        /\ a = [call |-> j, bytes |-> a.bytes]
        /\ \/ /\ Ran(c, j)
              /\ a.bytes = InputValue(RPC_ERR_SUCCESS, <<>>,
                                      Result[FunctionOf(c, j)], Ret(c, j))
           \/ /\ FunctionOf(c, j) \notin Bound
              /\ a.bytes = Refusal(FunctionOf(c, j))
    BY <1>6 DEF AnswerOfCall
<1>8. a.call = j /\ j \in Nat /\ j # 0
    <2>1. a.call = j
        BY <1>7
    <2>2. QED  BY <1>3, <2>1
<1>9. PICK type : type = Result[CallOf(c).function]
    OBVIOUS
<1>10. type = Result[FunctionOf(c, n + 1)]
    BY <1>3, <1>9 DEF CallOf, FunctionOf
<1> DEFINE value == OutputValue(a.bytes, beyond, type, uninitialized)
<1>11. PICK v : v = value
    OBVIOUS
<1>12. /\ results' = [results EXCEPT ![c] = Append(@, v)]
       /\ answered' = [answered EXCEPT ![c] = Append(@, j)]
       /\ answers' = [answers EXCEPT ![c] = Tail(@)]
    BY <1>6, <1>8, <1>9, <1>11, Zenon DEF Receive
<1>13. /\ results'[c] = Append(results[c], v)
       /\ answered'[c] = Append(answered[c], j) /\ answers'[c] = <<>>
    BY <1>1, <1>6, <1>12 DEF Types, ValueInv
<1>14. answered'[c][n + 1] = j /\ results'[c][n + 1] = v
    <2>1. Longer(answered[c], j, answered'[c])
        BY <1>3, <1>8, <1>13, AppendIs
    <2>2. PICK S : results[c] \in Seq(S)
        BY <1>1 DEF DataInv, Returned
    <2> DEFINE T == S \cup {v}
    <2>3. results[c] \in Seq(T) /\ v \in T
        BY <2>2
    <2> HIDE DEF T
    <2>4. Longer(results[c], v, results'[c])
        BY <1>13, <2>3, AppendIs
    <2>5. Len(results[c]) = n
        BY <1>0, <1>1 DEF DataInv, Returned
    <2>6. QED  BY <1>0, <2>1, <2>4, <2>5, Zenon DEF Longer
<1>15. FunctionOf(c, j) \in Function
    BY <1>1 DEF DataInv, Called
<1>16. \/ /\ Ran(c, j) /\ v.code = RPC_ERR_SUCCESS
          /\ type = Result[FunctionOf(c, j)] =>
               v.val = Arrived(Result[FunctionOf(c, j)], Ret(c, j))
       \/ FunctionOf(c, j) \notin Bound /\ v.code = RPC_ERR_FUNCTIION_NOT_BIND
    <2> DEFINE f == FunctionOf(c, j)
               t == Result[f]
    <2>1. t \in DOMAIN Values /\ Name[f] \in Seq(Byte) /\ beyond \in Seq(Byte)
        BY <1>15, ValuesAssumption
    <2>2. CASE /\ Ran(c, j)
               /\ a.bytes = InputValue(RPC_ERR_SUCCESS, <<>>, t, Ret(c, j))
        <3>1. Ret(c, j) \in Values[t]
            BY <1>1, <2>2 DEF DataInv, Executed, RanWell
        <3> HIDE DEF f, t
        <3>2. v.code = RPC_ERR_SUCCESS
            <4> DEFINE ts == <<"code", "string", t>>
                       vs == <<RPC_ERR_SUCCESS, <<>>, Ret(c, j)>>
            <4>1. RPC_ERR_SUCCESS \in UInt16 /\ <<>> \in Seq(Byte)
                BY DEF RPC_ERR_SUCCESS, UInt16
            <4>2. Typed(ts, vs) /\ Len(ts) = 3
                BY <2>1, <3>1, <4>1, AnswerTyped
            <4>3. ts[1] = "code" /\ vs[1] = RPC_ERR_SUCCESS
                OBVIOUS
            <4>4. a.bytes = input_all(<<>>, ts, vs)
                BY <2>2 DEF InputValue
            <4> HIDE DEF ts, vs
            <4>5. Len(ts) >= 1
                BY <4>2
            <4>6. CodeIsRead(ts, vs, beyond, type, uninitialized)
                BY <2>1, <4>2, <4>3, <4>5, CodeRead
            <4>7. QED  BY <1>11, <4>3, <4>4, <4>6, Zenon DEF CodeIsRead
        <3>3. type = t => v.val = Arrived(t, Ret(c, j))
            <4> SUFFICES ASSUME type = t PROVE v.val = Arrived(t, Ret(c, j))
                OBVIOUS
            <4>1. AnswerIsRead(t, Ret(c, j), beyond, uninitialized)
                BY <2>1, <3>1, AnswerRead
            <4>2. v = [code |-> RPC_ERR_SUCCESS, val |-> Arrived(t, Ret(c, j))]
                BY <1>11, <2>2, <4>1, Zenon DEF AnswerIsRead
            <4>3. QED  BY <4>2
        <3>4. QED  BY <2>2, <3>2, <3>3 DEF f, t
    <2>3. CASE f \notin Bound /\ a.bytes = Refusal(f)
        <3> DEFINE ts == <<"code", "string">>
                   vs == <<RPC_ERR_FUNCTIION_NOT_BIND, Name[f]>>
        <3>1. RPC_ERR_FUNCTIION_NOT_BIND \in UInt16 /\ 0 \in Values["void"]
              /\ "void" \in DOMAIN Values
            BY ValuesAre DEF RPC_ERR_FUNCTIION_NOT_BIND, UInt16
        <3>2. Typed(ts, vs) /\ Len(ts) = 2
            BY <2>1, <3>1, AnswerTyped
        <3>3. ts[1] = "code" /\ vs[1] = RPC_ERR_FUNCTIION_NOT_BIND
            OBVIOUS
        <3>4. a.bytes = input_all(<<>>, ts, vs)
            BY <2>3 DEF Refusal
        <3> HIDE DEF ts, vs
        <3>5. Len(ts) >= 1
            BY <3>2
        <3>6. CodeIsRead(ts, vs, beyond, type, uninitialized)
            BY <2>1, <3>2, <3>3, <3>5, CodeRead
        <3>7. v.code = RPC_ERR_FUNCTIION_NOT_BIND
            BY <1>11, <3>3, <3>4, <3>6, Zenon DEF CodeIsRead
        <3>8. QED  BY <2>3, <3>7
    <2>4. QED  BY <1>7, <2>2, <2>3
<1>17. ResultWell(c, n + 1)'
    <2>1. FunctionOf(c, j)' = FunctionOf(c, j)
          /\ FunctionOf(c, n + 1)' = FunctionOf(c, n + 1)
        BY <1>2 DEF FunctionOf
    <2>2. Ran(c, j)' <=> Ran(c, j)
        BY <1>2 DEF Ran
    <2>3. Ret(c, j)' = Ret(c, j)
        BY <1>2 DEF Ret
    <2>4. ResultOf(c, n + 1, j)'
        BY <1>10, <1>14, <1>16, <2>1, <2>2, <2>3, Zenon DEF ResultOf
    <2>5. ~TimedOut(c, n + 1)'
        BY <1>8, <1>14 DEF TimedOut
    <2>6. j \in 1..Len(calls'[c])
        BY <1>2
    <2>7. QED  BY <1>14, <2>4, <2>5, <2>6, Zenon DEF ResultWell
<1>18. Returned(c)'
    BY <1>0, <1>1, <1>4, <1>8, <1>13, <1>17, ReturnedLonger DEF DataInv
<1>19. Called(c)' /\ Executed(c)'
    BY <1>1, <1>2
    DEF DataInv, Called, Executed, Ran, RanWell, Ret, FunctionOf, PassedTo
<1>20. Messages(c)'
    <2>1. requests'[c] = <<>> /\ ~Serves(c)' /\ answers'[c] = <<>>
        BY <1>2, <1>6, <1>13 DEF Serves
    <2>2. QED  BY <2>1, Zenon DEF Messages
<1>21. DataInv(c)'
    BY <1>18, <1>19, <1>20 DEF DataInv
<1>22. ASSUME NEW d \in Client, d # c PROVE DataInv(d)'
    <2>1. /\ results'[d] = results[d] /\ answered'[d] = answered[d]
          /\ answers'[d] = answers[d]
        BY <1>1, <1>12, <1>22 DEF Types, ValueInv
    <2>2. DataInv(d)
        BY DEF ValueInv
    <2>3. QED  BY <1>2, <2>1, <2>2, DataAlone DEF Serves
<1>23. results' = [d \in Client |-> results'[d]]
    BY <1>12 DEF ValueInv
<1>24. QED  BY <1>21, <1>22, <1>23 DEF ValueInv

(* A call that times out has no answer.                                    *)
LEMMA TimeOutValues ==
    ASSUME RpcInv, ValueInv, NEW c \in Client, NEW uninitialized,
           TimeOut(c, uninitialized)
    PROVE  ValueInv'
<1>0. PICK n : n = Len(answered[c])
    OBVIOUS
<1>1. Types /\ DataInv(c)
    BY DEF RpcInv, ValueInv
<1> DEFINE value == [code |-> RPC_ERR_RECV_TIMEOUT, val |-> uninitialized]
<1>2. /\ calls' = calls /\ requests' = requests /\ serving' = serving
      /\ executed' = executed /\ answers' = answers
      /\ results' = [results EXCEPT ![c] = Append(@, value)]
      /\ answered' = [answered EXCEPT ![c] = Append(@, 0)]
    BY DEF TimeOut
<1>3. /\ n \in Nat /\ Len(calls[c]) \in Nat /\ answered[c] \in Seq(Nat)
    BY <1>0, CallsOf
<1>4. Grown(c)
    <2>1. Len(calls[c]) <= Len(calls[c])
        BY <1>3
    <2>2. QED  BY <1>2, <1>3, <2>1, Zenon DEF Grown
<1>5. PICK v : v = value
    OBVIOUS
<1>6. /\ results'[c] = Append(results[c], v)
      /\ answered'[c] = Append(answered[c], 0)
    BY <1>1, <1>2, <1>5 DEF Types, ValueInv
<1>7. answered'[c][n + 1] = 0 /\ results'[c][n + 1] = v
    <2>1. Longer(answered[c], 0, answered'[c])
        <3>1. 0 \in Nat
            OBVIOUS
        <3>2. QED  BY <1>3, <1>6, <3>1, AppendIs
    <2>2. PICK S : results[c] \in Seq(S)
        BY <1>1 DEF DataInv, Returned
    <2> DEFINE T == S \cup {v}
    <2>3. results[c] \in Seq(T) /\ v \in T
        BY <2>2
    <2> HIDE DEF T
    <2>4. Longer(results[c], v, results'[c])
        BY <1>6, <2>3, AppendIs
    <2>5. Len(results[c]) = n
        BY <1>0, <1>1 DEF DataInv, Returned
    <2>6. QED  BY <1>0, <2>1, <2>4, <2>5, Zenon DEF Longer
<1>8. ResultWell(c, n + 1)'
    <2>1. v.code = RPC_ERR_RECV_TIMEOUT
        BY <1>5
    <2>2. TimedOut(c, n + 1)'
        BY <1>7 DEF TimedOut
    <2>3. QED  BY <1>7, <2>1, <2>2, Zenon DEF ResultWell
<1>9. Returned(c)'
    <2>1. 0 \in Nat
        OBVIOUS
    <2>2. QED  BY <1>0, <1>1, <1>4, <1>6, <1>8, <2>1, ReturnedLonger DEF DataInv
<1>10. Called(c)' /\ Executed(c)'
    BY <1>1, <1>2
    DEF DataInv, Called, Executed, Ran, RanWell, Ret, FunctionOf, PassedTo
<1>11. Messages(c)'
    BY <1>1, <1>2, <1>4, MessagesKept DEF DataInv, Serves
<1>12. DataInv(c)'
    BY <1>9, <1>10, <1>11 DEF DataInv
<1>13. ASSUME NEW d \in Client, d # c PROVE DataInv(d)'
    <2>1. results'[d] = results[d] /\ answered'[d] = answered[d]
        BY <1>1, <1>2, <1>13 DEF Types, ValueInv
    <2>2. DataInv(d)
        BY DEF ValueInv
    <2>3. QED  BY <1>2, <2>1, <2>2, DataAlone DEF Serves
<1>14. results' = [d \in Client |-> results'[d]]
    BY <1>2 DEF ValueInv
<1>15. QED  BY <1>12, <1>13, <1>14 DEF ValueInv

(* A request that run() takes up.                                          *)
LEMMA AcceptValues ==
    ASSUME RpcInv, ValueInv, NEW c \in Client, Accept(c)
    PROVE  ValueInv'
<1>1. Types /\ DataInv(c)
    BY DEF RpcInv, ValueInv
<1>2. PICK r : r = requests[c][1]
    OBVIOUS
<1>3. /\ Head(requests[c]) = r /\ requests[c] = <<r>> /\ answers[c] = <<>>
      /\ RequestOfCall(c, r) /\ Tail(<<r>>) = <<>>
    BY <1>1, <1>2, QueuesOf, QueueOfOne DEF Accept, DataInv, Messages
<1>4. /\ calls' = calls /\ results' = results /\ answered' = answered
      /\ executed' = executed /\ answers' = answers
      /\ serving' = [step |-> "call", client |-> c, request |-> r]
      /\ requests' = [requests EXCEPT ![c] = Tail(@)]
    BY <1>3 DEF Accept, clientVars
<1>5. requests'[c] = <<>>
    BY <1>1, <1>3, <1>4 DEF Types
<1>6. /\ serving'.client = c /\ serving'.request = r
      /\ serving' = [step |-> "call", client |-> c, request |-> serving'.request]
    BY <1>4
<1>7. Grown(c)
    <2>1. Len(calls[c]) \in Nat /\ Len(calls[c]) <= Len(calls[c])
        BY CallsOf
    <2>2. QED  BY <1>4, <2>1, Zenon DEF Grown
<1>8. RequestOfCall(c, serving.request)'
    <2>1. RequestOfCall(c, r)'
        BY <1>3, <1>7, RequestKept
    <2>2. QED  BY <1>6, <2>1, Zenon DEF RequestOfCall
<1>9. Messages(c)'
    <2>1. answers'[c] = <<>>
        BY <1>3, <1>4
    <2>2. QED  BY <1>5, <1>6, <1>8, <2>1, Zenon DEF Messages
<1>10. DataInv(c)'
    <2>1. Called(c)' /\ Executed(c)'
        BY <1>1, <1>4
        DEF DataInv, Called, Executed, Ran, RanWell, Ret, FunctionOf, PassedTo
    <2>2. Len(answered[c]) \in Nat /\ Len(calls[c]) \in Nat
          /\ Len(answered[c]) <= Len(calls[c])
        BY CallsOf
    <2>3. ASSUME NEW i \in 1..Len(answered[c]) PROVE ResultWell(c, i)'
        <3>1. ResultWell(c, i)
            BY <1>1 DEF DataInv, Returned
        <3>2. i \in 1..Len(calls[c])
            BY <2>2
        <3>3. QED  BY <1>4, <1>7, <3>1, <3>2, ResultKept
    <2>4. /\ \E S : results[c] \in Seq(S)
          /\ Len(results[c]) = Len(answered[c])
        BY <1>1 DEF DataInv, Returned
    <2>5. Returned(c)'
        BY <1>4, <2>3, <2>4, Zenon DEF Returned
    <2>6. QED  BY <1>9, <2>1, <2>5 DEF DataInv
<1>11. ASSUME NEW d \in Client, d # c PROVE DataInv(d)'
    <2>1. requests'[d] = requests[d] /\ ~Serves(d)'
        BY <1>1, <1>4, <1>6, <1>11 DEF Types, Serves
    <2>2. DataInv(d)
        BY DEF ValueInv
    <2>3. QED  BY <1>4, <2>1, <2>2, DataAlone
<1>12. results' = [d \in Client |-> results'[d]]
    BY <1>4 DEF ValueInv
<1>13. QED  BY <1>10, <1>11, <1>12 DEF ValueInv

(* What call_() does with the request for f.                               *)
HandlesCall(c, j, f, args, returns) ==
    IF f \in Bound
    THEN /\ executed' = [executed EXCEPT ![c][j] =
               Append(@, [args |-> ArgumentsOf(f, args),
                          val |-> returns[f]])]
         /\ answers' = [answers EXCEPT ![c] =
               Append(@, [call |-> j,
                          bytes |-> InputValue(RPC_ERR_SUCCESS, <<>>,
                                      Result[f], returns[f])])]
    ELSE /\ executed' = executed
         /\ answers' = [answers EXCEPT ![c] =
               @ \o <<[call |-> j, bytes |-> Refusal(f)]>>]

(* It is what the bytes of the request ask for.                            *)
LEMMA ExecuteEffect ==
    ASSUME ValueInv, NEW c \in Client, Serves(c), c = serving.client,
           NEW beyond \in Beyond, NEW uninitialized, NEW returns \in Returns,
           call_(beyond, uninitialized, returns),
           NEW j \in 1..Len(calls[c]), serving.request.call = j,
           NEW f \in Function, NEW args \in Arguments[f],
           IsRequest(serving.request.bytes, f, args)
    PROVE  HandlesCall(c, j, f, args, returns)
<1> DEFINE ds == StreamBuffer(serving.request.bytes, beyond)
           name == output_type(ds, "string", <<>>)
           handlers == {h \in Bound : Name[h] = name.value}
           g == CHOOSE h \in handlers : TRUE
           execution == callproxy_(g, Data(ds, name), beyond, uninitialized,
                                   returns)
<1>1. IsRead(serving.request.bytes, beyond, f, args, uninitialized)
    BY RequestRead
<1>2. /\ name.value = Name[f]
      /\ output_all(StreamBuffer(Data(ds, name), beyond), Parameters[f],
                    uninitialized) = ArgumentsOf(f, args)
    BY <1>1, Zenon DEF IsRead
<1>3. handlers = IF f \in Bound THEN {f} ELSE {}
    BY <1>2, ClientsAssumption
<1>4. CASE f \notin Bound
    <2>1. handlers = {}
        BY <1>3, <1>4
    <2>2. /\ answers' = [answers EXCEPT ![serving.client] =
                @ \o NotBound(serving.request.call, name.value)]
          /\ executed' = executed
        BY <2>1 DEF call_
    <2>3. NotBound(j, Name[f]) = <<[call |-> j, bytes |-> Refusal(f)]>>
        BY DEF NotBound, Refusal
    <2> HIDE DEF name
    <2>4. QED  BY <1>2, <1>4, <2>2, <2>3, Zenon DEF HandlesCall
<1>5. CASE f \in Bound
    <2>1. handlers # {} /\ g = f
        BY <1>3, <1>5
    <2>2. /\ executed' = [executed EXCEPT
                ![serving.client][serving.request.call] = Append(@, execution)]
          /\ answers' = [answers EXCEPT ![serving.client] =
                Append(@, [call |-> serving.request.call,
                           bytes |-> InputValue(RPC_ERR_SUCCESS, <<>>,
                                       Result[g], execution.val)])]
        BY <2>1 DEF call_
    <2>3. execution = [args |-> ArgumentsOf(f, args), val |-> returns[f]]
        <3> HIDE DEF g, ds, name
        <3>1. QED  BY <1>2, <2>1, Zenon DEF callproxy_
    <2>4. execution.val = returns[f]
        <3> HIDE DEF execution
        <3>1. QED  BY <2>3
    <2> HIDE DEF execution, g
    <2>5. QED  BY <1>5, <2>1, <2>2, <2>3, <2>4, Zenon DEF HandlesCall
<1>6. QED  BY <1>4, <1>5

(* The request is that of a call which has not been executed.              *)
CallHandled(c, j, returns) ==
    /\ Serves(c) /\ ~Ran(c, j) /\ requests[c] = <<>> /\ answers[c] = <<>>
    /\ j \in 1..MaxCalls[c] /\ Indexed(c)
    /\ HandlesCall(c, j, FunctionOf(c, j), PassedTo(c, j), returns)

(* call_() handles such a call.                                            *)
LEMMA ExecuteHandles ==
    ASSUME RpcInv, ValueInv, NEW beyond \in Beyond, NEW uninitialized,
           NEW returns \in Returns, call_(beyond, uninitialized, returns)
    PROVE  \E c \in Client : \E j \in 1..Len(calls[c]) : CallHandled(c, j, returns)
<1>1. Types /\ serving # Nobody
    BY DEF RpcInv, call_
<1>2. PICK c \in Client : c = serving.client
    BY <1>1 DEF Types
<1>3. Serves(c) /\ DataInv(c)
    BY <1>1, <1>2 DEF Serves, ValueInv
<1>4. requests[c] = <<>> /\ answers[c] = <<>>
    BY <1>3, QueuesOf
<1>5. PICK r : r = serving.request
    OBVIOUS
<1>6. PICK j \in 1..Len(calls[c]) :
        /\ r = [call |-> j, bytes |-> r.bytes]
        /\ IsRequest(r.bytes, FunctionOf(c, j), PassedTo(c, j))
    BY <1>3, <1>5 DEF DataInv, Messages, RequestOfCall
<1>7. PICK f \in Function : f = FunctionOf(c, j)
    BY <1>3 DEF DataInv, Called
<1>8. PICK args \in Arguments[f] : args = PassedTo(c, j)
    BY <1>3, <1>7 DEF DataInv, Called
<1>9. IsRequest(serving.request.bytes, f, args) /\ serving.request.call = j
    <2>1. r.call = j
        BY <1>6
    <2>2. QED  BY <1>5, <1>6, <1>7, <1>8, <2>1, Zenon
<1>10. HandlesCall(c, j, f, args, returns)
    BY <1>2, <1>3, <1>9, ExecuteEffect
<1>11. ~Ran(c, j)
    <2>1. UnderWay(c, serving.request.call)
        BY <1>3 DEF RpcInv, ClientInv, InTurn, UnderWay
    <2>2. QED  BY <1>3, <1>9, <2>1 DEF UnderWay, Unexecuted, Ran
<1>12. j \in 1..MaxCalls[c] /\ Indexed(c)
    <2>1. Len(calls[c]) <= MaxCalls[c] /\ Len(calls[c]) \in Nat
          /\ MaxCalls[c] \in Nat
        BY CallsOf
    <2>2. j \in 1..MaxCalls[c]
        BY <2>1
    <2>3. QED  BY <2>2 DEF RpcInv, ClientInv, Executions
<1>13. CallHandled(c, j, returns)
    BY <1>3, <1>4, <1>7, <1>8, <1>10, <1>11, <1>12, Zenon DEF CallHandled
<1>14. QED  BY <1>13

(* A request that is executed, or refused.                                 *)
LEMMA ExecuteValues ==
    ASSUME RpcInv, ValueInv, NEW beyond \in Beyond, NEW uninitialized,
           NEW returns \in Returns, call_(beyond, uninitialized, returns)
    PROVE  ValueInv'
<1>1. Types
    BY DEF RpcInv
<1>2. PICK c \in Client : \E j \in 1..Len(calls[c]) : CallHandled(c, j, returns)
    BY ExecuteHandles
<1>3. DataInv(c)
    BY DEF ValueInv
<1>4. PICK j \in 1..Len(calls[c]) : CallHandled(c, j, returns)
    BY <1>2
<1>5. /\ Serves(c) /\ requests[c] = <<>> /\ answers[c] = <<>>
      /\ ~Ran(c, j) /\ j \in 1..MaxCalls[c] /\ Indexed(c)
    BY <1>4 DEF CallHandled
<1>6. PICK f \in Function : f = FunctionOf(c, j)
    BY <1>3 DEF DataInv, Called
<1>7. PICK args \in Arguments[f] : args = PassedTo(c, j)
    BY <1>3, <1>6 DEF DataInv, Called
<1>8. HandlesCall(c, j, f, args, returns)
    BY <1>4, <1>6, <1>7, Zenon DEF CallHandled
<1>9. PICK x : x = [args |-> ArgumentsOf(f, args), val |-> returns[f]]
    OBVIOUS
<1>10. PICK good : good = [call |-> j,
                           bytes |-> InputValue(RPC_ERR_SUCCESS, <<>>,
                                                Result[f], returns[f])]
    OBVIOUS
<1>11. PICK bad : bad = [call |-> j, bytes |-> Refusal(f)]
    OBVIOUS
<1>12. IF f \in Bound
       THEN /\ executed' = [executed EXCEPT ![c][j] = Append(@, x)]
            /\ answers' = [answers EXCEPT ![c] = Append(@, good)]
       ELSE /\ executed' = executed
            /\ answers' = [answers EXCEPT ![c] = @ \o <<bad>>]
    BY <1>8, <1>9, <1>10, <1>11, Zenon DEF HandlesCall
<1>13. /\ calls' = calls /\ results' = results /\ answered' = answered
       /\ requests' = requests /\ serving' = Nobody
    BY DEF call_, clientVars
<1>14. /\ f \in Bound => executed'[c][j] = <<x>> /\ answers'[c] = <<good>>
       /\ f \notin Bound => executed'[c][j] = <<>> /\ answers'[c] = <<bad>>
       /\ \A k \in 1..Len(calls[c]) : k # j => executed'[c][k] = executed[c][k]
    <2>1. executed[c][j] = <<>>
        BY <1>5 DEF Ran
    <2>2. ASSUME f \in Bound
          PROVE  executed'[c][j] = <<x>> /\ answers'[c] = <<good>>
        <3>1. /\ executed'[c] = [executed[c] EXCEPT ![j] = Append(@, x)]
              /\ answers'[c] = Append(<<>>, good)
            BY <1>1, <1>5, <1>12, <2>2 DEF Types
        <3>2. executed'[c][j] = Append(<<>>, x)
            BY <1>5, <2>1, <3>1 DEF Indexed
        <3>3. QED  BY <3>1, <3>2, QueueOfOne
    <2>3. ASSUME f \notin Bound
          PROVE  executed'[c][j] = <<>> /\ answers'[c] = <<bad>>
        <3>1. executed'[c][j] = <<>> /\ answers'[c] = <<>> \o <<bad>>
            BY <1>1, <1>5, <1>12, <2>1, <2>3 DEF Types
        <3>2. QED  BY <3>1, QueueOfOne
    <2>4. ASSUME NEW k \in 1..Len(calls[c]), k # j
          PROVE  executed'[c][k] = executed[c][k]
        <3>1. k \in 1..MaxCalls[c]
            <4>1. Len(calls[c]) <= MaxCalls[c] /\ Len(calls[c]) \in Nat
                  /\ MaxCalls[c] \in Nat
                BY CallsOf
            <4>2. QED  BY <4>1
        <3>2. CASE f \in Bound
            <4>1. executed'[c] = [executed[c] EXCEPT ![j] = Append(@, x)]
                BY <1>1, <1>12, <3>2 DEF Types
            <4>2. QED  BY <1>5, <2>4, <3>1, <4>1 DEF Indexed
        <3>3. CASE f \notin Bound
            BY <1>12, <3>3
        <3>4. QED  BY <3>2, <3>3
    <2>5. QED  BY <2>2, <2>3, <2>4
<1>15. Grown(c)
    <2>1. Len(calls[c]) \in Nat /\ Len(calls[c]) <= Len(calls[c])
        BY CallsOf
    <2>2. QED  BY <1>13, <1>5, <1>14, <2>1, Zenon DEF Grown
<1>16. /\ FunctionOf(c, j)' = f /\ PassedTo(c, j)' = args
       /\ j \in 1..Len(calls'[c])
    BY <1>6, <1>7, <1>13 DEF FunctionOf, PassedTo
<1>17. f \in Bound => Ran(c, j)' /\ Ret(c, j)' = returns[f] /\ RanWell(c, j)'
    <2> SUFFICES ASSUME f \in Bound
                 PROVE  Ran(c, j)' /\ Ret(c, j)' = returns[f] /\ RanWell(c, j)'
        OBVIOUS
    <2>1. executed'[c][j] # <<>> /\ executed'[c][j][1] = x
        BY <1>14, QueueOfOne
    <2>2. x.args = ArgumentsOf(f, args) /\ x.val = returns[f]
        BY <1>9
    <2>3. returns[f] \in Values[Result[f]]
        BY ValuesAssumption
    <2>4. Ran(c, j)' /\ Ret(c, j)' = returns[f]
        BY <2>1, <2>2 DEF Ran, Ret
    <2>5. executed'[c][j][1].args
            = ArgumentsOf(FunctionOf(c, j)', PassedTo(c, j)')
        BY <1>16, <2>1, <2>2, Zenon
    <2>6. RanWell(c, j)'
        BY <1>16, <2>3, <2>4, <2>5, Zenon DEF RanWell, ArgumentsOf
    <2>7. QED  BY <2>4, <2>6
<1>18. Messages(c)'
    <2>1. requests'[c] = <<>> /\ ~Serves(c)'
        BY <1>5, <1>13 DEF Serves
    <2>2. AnswerOfCall(c, answers[c][1])'
        <3>1. CASE f \in Bound
            <4>1. good = [call |-> j, bytes |-> good.bytes]
                  /\ good.bytes = InputValue(RPC_ERR_SUCCESS, <<>>,
                                             Result[f], returns[f])
                BY <1>10
            <4>2. good.bytes = InputValue(RPC_ERR_SUCCESS, <<>>,
                                   Result[FunctionOf(c, j)'], Ret(c, j)')
                BY <1>16, <1>17, <3>1, <4>1, Zenon
            <4>3. AnswerOfCall(c, good)'
                BY <1>16, <1>17, <3>1, <4>1, <4>2, Zenon
                DEF AnswerOfCall, InputValue
            <4>4. answers'[c][1] = good
                BY <1>14, <3>1, QueueOfOne
            <4>5. QED  BY <4>3, <4>4, Zenon DEF AnswerOfCall
        <3>2. CASE f \notin Bound
            <4>1. bad = [call |-> j, bytes |-> bad.bytes]
                  /\ bad.bytes = Refusal(f)
                BY <1>11
            <4>2. bad.bytes = Refusal(FunctionOf(c, j)')
                BY <1>16, <4>1, Zenon
            <4>3. AnswerOfCall(c, bad)'
                BY <1>16, <3>2, <4>1, <4>2, Zenon DEF AnswerOfCall, Refusal
            <4>4. answers'[c][1] = bad
                BY <1>14, <3>2, QueueOfOne
            <4>5. QED  BY <4>3, <4>4, Zenon DEF AnswerOfCall
        <3>3. QED  BY <3>1, <3>2
    <2>3. QED  BY <2>1, <2>2, Zenon DEF Messages
<1>19. Called(c)'
    BY <1>3, <1>13 DEF DataInv, Called, FunctionOf, PassedTo
<1>20. Executed(c)'
    <2>1. ASSUME NEW k \in 1..Len(calls[c]), Ran(c, k)' PROVE RanWell(c, k)'
        <3>1. CASE k = j
            <4>1. f \in Bound
                BY <1>14, <2>1, <3>1 DEF Ran
            <4>2. QED  BY <1>17, <3>1, <4>1, Zenon
        <3>2. CASE k # j
            <4>1. Ran(c, k)
                BY <1>14, <2>1, <3>2 DEF Ran
            <4>2. RanWell(c, k)
                BY <1>3, <4>1 DEF DataInv, Executed
            <4>3. QED  BY <1>15, <4>1, <4>2, GrownCall
        <3>3. QED  BY <3>1, <3>2
    <2>2. QED  BY <1>13, <2>1, Zenon DEF Executed
<1>21. Returned(c)'
    <2>1. Len(answered[c]) \in Nat /\ Len(calls[c]) \in Nat
          /\ Len(answered[c]) <= Len(calls[c])
        BY CallsOf
    <2>2. ASSUME NEW i \in 1..Len(answered[c]) PROVE ResultWell(c, i)'
        <3>1. ResultWell(c, i)
            BY <1>3 DEF DataInv, Returned
        <3>2. i \in 1..Len(calls[c])
            BY <2>1
        <3>3. QED  BY <1>13, <1>15, <3>1, <3>2, ResultKept
    <2>3. /\ \E S : results[c] \in Seq(S)
          /\ Len(results[c]) = Len(answered[c])
        BY <1>3 DEF DataInv, Returned
    <2>4. QED  BY <1>13, <2>2, <2>3, Zenon DEF Returned
<1>22. DataInv(c)'
    BY <1>18, <1>19, <1>20, <1>21 DEF DataInv
<1>23. ASSUME NEW d \in Client, d # c PROVE DataInv(d)'
    <2>1. executed'[d] = executed[d] /\ answers'[d] = answers[d] /\ ~Serves(d)'
        BY <1>1, <1>12, <1>13, <1>23 DEF Types, Serves
    <2>2. DataInv(d)
        BY DEF ValueInv
    <2>3. QED  BY <1>13, <2>1, <2>2, DataAlone
<1>24. results' = [d \in Client |-> results'[d]]
    BY <1>13 DEF ValueInv
<1>25. QED  BY <1>22, <1>23, <1>24 DEF ValueInv

(* The function of the call is the one whose value it is given.            *)
LEMMA ExecuteReturns ==
    ASSUME RpcInv, ValueInv, NEW beyond \in Beyond, NEW uninitialized,
           NEW returns \in Returns, call_(beyond, uninitialized, returns),
           NEW d \in Client, NEW k \in 1..Len(calls[d])
    PROVE  \/ executed'[d][k] = executed[d][k]
           \/ Ret(d, k)' = returns[FunctionOf(d, k)]
<1>1. Types
    BY DEF RpcInv
<1>2. PICK c \in Client : \E j \in 1..Len(calls[c]) : CallHandled(c, j, returns)
    BY ExecuteHandles
<1>3. PICK j \in 1..Len(calls[c]) : CallHandled(c, j, returns)
    BY <1>2
<1>4. ~Ran(c, j) /\ j \in 1..MaxCalls[c] /\ Indexed(c)
    BY <1>3 DEF CallHandled
<1>5. PICK f : f = FunctionOf(c, j)
    OBVIOUS
<1>6. PICK x : x = [args |-> ArgumentsOf(f, PassedTo(c, j)), val |-> returns[f]]
    OBVIOUS
<1>7. \/ executed' = executed
      \/ executed' = [executed EXCEPT ![c][j] = Append(@, x)]
    BY <1>3, <1>5, <1>6, Zenon DEF CallHandled, HandlesCall
<1>8. CASE executed' = [executed EXCEPT ![c][j] = Append(@, x)]
    <2>1. CASE d # c
        BY <1>1, <1>8, <2>1 DEF Types
    <2>2. CASE d = c
        <3>1. executed'[c] = [executed[c] EXCEPT ![j] = Append(@, x)]
            BY <1>1, <1>8 DEF Types
        <3>2. CASE k = j
            <4>1. executed'[c][j] = Append(<<>>, x)
                BY <1>4, <3>1 DEF Indexed, Ran
            <4>2. executed'[c][j][1] = x
                BY <4>1, QueueOfOne
            <4>3. Ret(c, j)' = returns[f]
                BY <1>6, <4>2 DEF Ret
            <4>4. QED  BY <1>5, <2>2, <3>2, <4>3, Zenon
        <3>3. CASE k # j
            <4>1. k \in 1..MaxCalls[c]
                <5>1. Len(calls[c]) <= MaxCalls[c] /\ Len(calls[c]) \in Nat
                      /\ MaxCalls[c] \in Nat
                    BY CallsOf
                <5>2. QED  BY <2>2, <5>1
            <4>2. executed'[c][k] = executed[c][k]
                BY <1>4, <3>1, <3>3, <4>1 DEF Indexed
            <4>3. QED  BY <2>2, <4>2
        <3>4. QED  BY <3>2, <3>3
    <2>3. QED  BY <2>1, <2>2
<1>9. QED  BY <1>7, <1>8

(* So does every step.                                                     *)
LEMMA ValueStep == RpcInv /\ ValueInv /\ [Next]_vars => ValueInv'
<1> SUFFICES ASSUME RpcInv, ValueInv, [Next]_vars PROVE ValueInv'
    OBVIOUS
<1>1. ASSUME NEW c \in Client, NEW f \in Function, NEW args \in Arguments[f],
             NEW beyond \in Beyond, Call(c, f, args, beyond)
      PROVE  ValueInv'
    BY <1>1, CallValues
<1>2. ASSUME NEW c \in Client, net_call(c) PROVE ValueInv'
    BY <1>2, ReceiveValues, TimeOutValues DEF net_call
<1>3. CASE run
    BY <1>3, AcceptValues, ExecuteValues DEF run
<1>4. CASE UNCHANGED vars
    <2>1. /\ calls' = calls /\ results' = results /\ answered' = answered
          /\ requests' = requests /\ answers' = answers
          /\ executed' = executed /\ serving' = serving
        BY <1>4 DEF vars, clientVars
    <2>2. ASSUME NEW c \in Client PROVE DataInv(c)'
        <3>1. DataInv(c)
            BY DEF ValueInv
        <3>2. QED  BY <2>1, <3>1, DataAlone DEF Serves
    <2>3. QED  BY <2>1, <2>2 DEF ValueInv
<1>5. QED  BY <1>1, <1>2, <1>3, <1>4 DEF Next

(* The invariant of all that the library does.                             *)
LEMMA ValueInvariant == Spec => [](RpcInv /\ ValueInv)
<1>1. RpcInv /\ ValueInv /\ [Next]_vars => (RpcInv /\ ValueInv)'
    BY RpcStep, ValueStep
<1>2. QED  BY <1>1, RpcInit, ValueInit, PTL DEF Spec
-----------------------------------------------------------------------------
(* A value that fits arrives as it was sent.                               *)
LEMMA FitsArrives ==
    ASSUME NEW type \in DOMAIN Values, NEW val \in Values[type], Fits(type, val)
    PROVE  Arrived(type, val) = val
<1>1. CASE type # "string"
    BY <1>1 DEF Arrived
<1>2. CASE type = "string"
    <2>1. val \in Seq(Byte) /\ Len(val) < LengthLimit
        BY <1>2, ValuesAre DEF Fits
    <2>2. QED  BY <1>2, <2>1, ArrivesWhole
<1>3. QED  BY <1>1, <1>2

(* Functions get the arguments their callers passed: whatever memory holds *)
(* beyond the message, each is read back from its own bytes.               *)
THEOREM ArgumentsOfCaller == Spec => []ArgumentsArrive
<1>1. ASSUME RpcInv, ValueInv, NEW c \in Client, NEW i \in DOMAIN calls[c],
             NEW k \in DOMAIN executed[c][i],
             NEW p \in DOMAIN Parameters[calls[c][i].function],
             Fits(Parameters[calls[c][i].function][p], calls[c][i].args[p])
      PROVE  executed[c][i][k].args[p] = calls[c][i].args[p]
    <2>1. PICK f : f = FunctionOf(c, i)
        OBVIOUS
    <2>2. PICK args : args = PassedTo(c, i)
        OBVIOUS
    <2>3. i \in 1..Len(calls[c]) /\ i \in 1..MaxCalls[c]
        <3>1. /\ calls[c] \in Seq(CallRecord) /\ Len(calls[c]) <= MaxCalls[c]
              /\ Len(calls[c]) \in Nat /\ MaxCalls[c] \in Nat
            BY <1>1, CallsOf
        <3>2. DOMAIN calls[c] = 1..Len(calls[c])
            BY <3>1
        <3>3. i \in 1..Len(calls[c])
            BY <3>2
        <3>4. QED  BY <3>1, <3>3
    <2>4. Unexecuted(c, i) \/ Once(c, i)
        BY <1>1, <2>3 DEF RpcInv, ClientInv, Executions
    <2>5. Ran(c, i) /\ k = 1
        <3>1. ~Unexecuted(c, i)
            BY DEF Unexecuted
        <3>2. PICK e : executed[c][i] = <<e>>
            BY <2>4, <3>1 DEF Once
        <3>3. k \in 1..1 /\ <<e>> # <<>>
            BY <3>2, QueueOfOne
        <3>4. QED  BY <3>2, <3>3 DEF Ran
    <2>6. executed[c][i][1].args = ArgumentsOf(f, args)
        BY <1>1, <2>1, <2>2, <2>3, <2>5, Zenon
        DEF ValueInv, DataInv, Executed, RanWell
    <2>7. f \in Function /\ args \in Arguments[f]
        BY <1>1, <2>1, <2>2, <2>3 DEF ValueInv, DataInv, Called
    <2>8. /\ p \in 1..Len(Parameters[f]) /\ p \in DOMAIN Parameters[f]
          /\ Parameters[f][p] \in DOMAIN Values /\ args[p] \in Values[Parameters[f][p]]
        <3>1. Parameters[f] \in Seq(DOMAIN Values) /\ Typed(Parameters[f], args)
            BY <2>7, RequestTyped, ValuesAssumption
        <3>2. p \in DOMAIN Parameters[f]
            BY <2>1 DEF FunctionOf
        <3>3. p \in 1..Len(Parameters[f])
            BY <3>1, <3>2
        <3>4. QED  BY <3>1, <3>2, <3>3 DEF Typed
    <2>9. Fits(Parameters[f][p], args[p])
        BY <1>1, <2>1, <2>2, Zenon DEF FunctionOf, PassedTo
    <2>10. Arrived(Parameters[f][p], args[p]) = args[p]
        BY <2>8, <2>9, FitsArrives
    <2>11. ArgumentsOf(f, args)[p] = args[p]
        BY <2>8, <2>10 DEF ArgumentsOf
    <2>12. QED  BY <2>2, <2>5, <2>6, <2>11, Zenon DEF PassedTo
<1>2. RpcInv /\ ValueInv => ArgumentsArrive
    BY <1>1, Zenon DEF ArgumentsArrive
<1>3. QED  BY <1>2, ValueInvariant, PTL

(* A success is of a call that was executed, and who gets its own answer   *)
(* gets what the function returned.                                        *)
THEOREM ResultsOfFunction == Spec => []ResultsArrive
<1>1. ASSUME RpcInv, ValueInv, NEW c \in Client, NEW i \in DOMAIN results[c],
             results[c][i].code = RPC_ERR_SUCCESS
      PROVE  /\ executed[c][answered[c][i]] # <<>>
             /\ answered[c][i] = i
                /\ Fits(Result[calls[c][i].function], executed[c][i][1].val)
                => results[c][i].val = executed[c][i][1].val
    <2>1. i \in 1..Len(answered[c]) /\ i \in 1..Len(calls[c])
        <3>1. PICK S : results[c] \in Seq(S)
            BY <1>1 DEF ValueInv, DataInv, Returned
        <3>2. /\ Len(results[c]) = Len(answered[c])
              /\ Len(answered[c]) \in Nat /\ Len(calls[c]) \in Nat
              /\ Len(answered[c]) <= Len(calls[c])
            BY <1>1, CallsOf DEF ValueInv, DataInv, Returned
        <3>3. DOMAIN results[c] = 1..Len(results[c])
            BY <3>1
        <3>4. i \in 1..Len(answered[c])
            BY <3>2, <3>3
        <3>5. QED  BY <3>2, <3>4
    <2>2. ResultWell(c, i)
        BY <1>1, <2>1 DEF ValueInv, DataInv, Returned
    <2>3. PICK j : j = answered[c][i]
        OBVIOUS
    <2>4. j \in 1..Len(calls[c]) /\ ResultOf(c, i, j)
        BY <1>1, <2>2, <2>3
        DEF ResultWell, RPC_ERR_SUCCESS, RPC_ERR_RECV_TIMEOUT
    <2>5. /\ Ran(c, j)
          /\ Result[FunctionOf(c, i)] = Result[FunctionOf(c, j)] =>
               results[c][i].val = Arrived(Result[FunctionOf(c, j)], Ret(c, j))
        BY <1>1, <2>4
        DEF ResultOf, RPC_ERR_SUCCESS, RPC_ERR_FUNCTIION_NOT_BIND
    <2>6. ASSUME j = i, Fits(Result[FunctionOf(c, i)], Ret(c, i))
          PROVE  results[c][i].val = Ret(c, i)
        <3>1. results[c][i].val = Arrived(Result[FunctionOf(c, i)], Ret(c, i))
            BY <2>5, <2>6, Zenon
        <3>2. FunctionOf(c, i) \in Function
            BY <1>1, <2>1 DEF ValueInv, DataInv, Called
        <3>3. Result[FunctionOf(c, i)] \in DOMAIN Values
            BY <3>2, ValuesAssumption
        <3>4. Ret(c, i) \in Values[Result[FunctionOf(c, i)]]
            BY <1>1, <2>1, <2>5, <2>6 DEF ValueInv, DataInv, Executed, RanWell
        <3>5. QED  BY <2>6, <3>1, <3>3, <3>4, FitsArrives, Zenon
    <2>7. QED  BY <2>3, <2>5, <2>6, Zenon DEF Ran, Ret, FunctionOf
<1>2. RpcInv /\ ValueInv => ResultsArrive
    BY <1>1, Zenon DEF ResultsArrive
<1>3. QED  BY <1>2, ValueInvariant, PTL

(* What is sent is bytes.                                                  *)
LEMMA RequestIsSent ==
    ASSUME NEW c, Called(c), NEW r, RequestOfCall(c, r)
    PROVE  r \in Sent
<1>1. PICK j \in 1..Len(calls[c]) :
        /\ r = [call |-> j, bytes |-> r.bytes]
        /\ IsRequest(r.bytes, FunctionOf(c, j), PassedTo(c, j))
    BY DEF RequestOfCall
<1>2. PICK f \in Function : f = FunctionOf(c, j)
    BY DEF Called
<1>3. PICK args \in Arguments[f] : args = PassedTo(c, j)
    BY <1>2 DEF Called
<1>4. PICK byte \in Byte : r.bytes = Append(RequestOf(f, args), byte)
    BY <1>1, <1>2, <1>3, Zenon DEF IsRequest
<1>5. RequestOf(f, args) \in Seq(Byte)
    <2>1. <<>> \in Seq(Byte)
        OBVIOUS
    <2>2. QED  BY <1>4, <2>1, RequestLaid
<1>6. r.bytes \in Seq(Byte)
    BY <1>4, <1>5
<1>7. j \in Nat
    OBVIOUS
<1>8. QED  BY <1>1, <1>6, <1>7 DEF Sent

(* So is an answer.                                                        *)
LEMMA AnswerIsSent ==
    ASSUME NEW c, Called(c), Executed(c), NEW a, AnswerOfCall(c, a)
    PROVE  a \in Sent
<1>1. PICK j \in 1..Len(calls[c]) :
        /\ a = [call |-> j, bytes |-> a.bytes]
        /\ \/ /\ Ran(c, j)
              /\ a.bytes = InputValue(RPC_ERR_SUCCESS, <<>>,
                                      Result[FunctionOf(c, j)], Ret(c, j))
           \/ /\ FunctionOf(c, j) \notin Bound
              /\ a.bytes = Refusal(FunctionOf(c, j))
    BY DEF AnswerOfCall
<1>2. PICK f \in Function : f = FunctionOf(c, j)
    BY DEF Called
<1>3. /\ Result[f] \in DOMAIN Values /\ Name[f] \in Seq(Byte)
      /\ <<>> \in Seq(Byte)
    BY ValuesAssumption
<1>4. RPC_ERR_SUCCESS \in UInt16 /\ RPC_ERR_FUNCTIION_NOT_BIND \in UInt16
    BY DEF RPC_ERR_SUCCESS, RPC_ERR_FUNCTIION_NOT_BIND, UInt16
<1>5. a.bytes \in Seq(Byte)
    <2>1. CASE Ran(c, j) /\ a.bytes = InputValue(RPC_ERR_SUCCESS, <<>>,
                                        Result[FunctionOf(c, j)], Ret(c, j))
        <3>1. Ret(c, j) \in Values[Result[f]]
            BY <1>2, <2>1 DEF Executed, RanWell
        <3>2. Typed(<<"code", "string", Result[f]>>,
                    <<RPC_ERR_SUCCESS, <<>>, Ret(c, j)>>)
            BY <1>3, <1>4, <3>1, AnswerTyped
        <3>3. input_all(<<>>, <<"code", "string", Result[f]>>,
                        <<RPC_ERR_SUCCESS, <<>>, Ret(c, j)>>) \in Seq(Byte)
            BY <1>3, <3>2, BufferLaid
        <3>4. QED  BY <1>2, <2>1, <3>3, Zenon DEF InputValue
    <2>2. CASE FunctionOf(c, j) \notin Bound
               /\ a.bytes = Refusal(FunctionOf(c, j))
        <3>1. 0 \in Int32 /\ Values["int"] = Int32 /\ "int" \in DOMAIN Values
            BY ValuesAre DEF Int32
        <3>2. Typed(<<"code", "string">>, <<RPC_ERR_FUNCTIION_NOT_BIND, Name[f]>>)
            BY <1>3, <1>4, <3>1, AnswerTyped
        <3>3. input_all(<<>>, <<"code", "string">>,
                        <<RPC_ERR_FUNCTIION_NOT_BIND, Name[f]>>) \in Seq(Byte)
            BY <1>3, <3>2, BufferLaid
        <3>4. QED  BY <1>2, <2>2, <3>3, Zenon DEF Refusal
    <2>3. QED  BY <1>1, <2>1, <2>2
<1>6. j \in Nat
    OBVIOUS
<1>7. QED  BY <1>1, <1>5, <1>6 DEF Sent

(* The library holds values of their types, and of each client no more     *)
(* than one request or answer.                                             *)
THEOREM LibraryTypes == Spec => []TypeOK
<1>1. ASSUME RpcInv, ValueInv, NEW c \in Client
      PROVE  /\ requests[c] \in Seq(Sent) /\ answers[c] \in Seq(Sent)
             /\ Len(requests[c]) + Len(answers[c]) <= 1
             /\ Len(results[c]) = Len(answered[c])
             /\ Len(calls[c]) - Len(results[c]) \in {0, 1}
             /\ Serves(c) =>
                  serving \in [step: {"call"}, client: Client, request: Sent]
    <2>1. Messages(c) /\ Called(c) /\ Executed(c) /\ Returned(c)
        BY <1>1 DEF ValueInv, DataInv
    <2>2. ASSUME requests[c] # <<>>
          PROVE  /\ requests[c] = <<requests[c][1]>>
                 /\ requests[c][1] \in Sent /\ answers[c] = <<>>
        BY <1>1, <2>1, <2>2, QueuesOf, RequestIsSent DEF Messages
    <2>3. ASSUME answers[c] # <<>>
          PROVE  /\ answers[c] = <<answers[c][1]>>
                 /\ answers[c][1] \in Sent /\ requests[c] = <<>>
        BY <1>1, <2>1, <2>3, QueuesOf, AnswerIsSent DEF Messages
    <2>4. ASSUME NEW x \in Sent
          PROVE  <<x>> \in Seq(Sent) /\ Len(<<x>>) = 1
        OBVIOUS
    <2>5. <<>> \in Seq(Sent) /\ Len(<<>>) = 0
        OBVIOUS
    <2>6. requests[c] \in Seq(Sent) /\ answers[c] \in Seq(Sent)
        BY <2>2, <2>3, <2>4, <2>5
    <2>7. Len(requests[c]) + Len(answers[c]) <= 1
        <3>1. requests[c] = <<>> \/ answers[c] = <<>>
            BY <2>2
        <3>2. Len(requests[c]) \in {0, 1} /\ Len(answers[c]) \in {0, 1}
            BY <2>2, <2>3, <2>4, <2>5
        <3>3. /\ requests[c] = <<>> => Len(requests[c]) = 0
              /\ answers[c] = <<>> => Len(answers[c]) = 0
            BY <2>5
        <3> DEFINE x == Len(requests[c])
                   y == Len(answers[c])
        <3>4. x \in {0, 1} /\ y \in {0, 1} /\ (x = 0 \/ y = 0)
            BY <3>1, <3>2, <3>3, Zenon
        <3> HIDE DEF x, y
        <3>5. x + y <= 1
            BY <3>4
        <3>6. QED  BY <3>5 DEF x, y
    <2>8. Len(results[c]) = Len(answered[c])
        BY <2>1 DEF Returned
    <2>9. Len(calls[c]) - Len(results[c]) \in {0, 1}
        <3>1. /\ Len(calls[c]) \in {Len(answered[c]), Len(answered[c]) + 1}
              /\ Len(answered[c]) \in Nat
            BY <1>1, CallsOf DEF RpcInv, ClientInv, InOrder
        <3>2. QED  BY <2>8, <3>1
    <2>10. ASSUME Serves(c)
           PROVE  serving \in [step: {"call"}, client: Client, request: Sent]
        <3>1. PICK r : r = serving.request
            OBVIOUS
        <3>2. /\ serving = [step |-> "call", client |-> c, request |-> r]
              /\ RequestOfCall(c, r)
            BY <2>1, <2>10, <3>1 DEF Messages
        <3>3. r \in Sent
            BY <2>1, <3>2, RequestIsSent
        <3>4. QED  BY <3>2, <3>3
    <2>11. QED  BY <2>6, <2>7, <2>8, <2>9, <2>10
<1>2. ASSUME RpcInv, ValueInv PROVE TypeOK
    <2>1. Types
        BY <1>2 DEF RpcInv
    <2>2. requests \in [Client -> Seq(Sent)] /\ answers \in [Client -> Seq(Sent)]
        BY <1>1, <1>2, <2>1 DEF Types
    <2>3. serving \in [step: {"call"}, client: Client, request: Sent] \cup {Nobody}
        <3>1. CASE serving # Nobody
            <4>1. PICK c \in Client : c = serving.client
                BY <2>1, <3>1 DEF Types
            <4>2. Serves(c)
                BY <3>1, <4>1 DEF Serves
            <4>3. QED  BY <1>1, <1>2, <4>2
        <3>2. QED  BY <3>1
    <2>4. QED  BY <1>1, <1>2, <2>1, <2>2, <2>3 DEF TypeOK, Types
<1>3. QED  BY <1>2, ValueInvariant, PTL
-----------------------------------------------------------------------------
(* The call that main() makes as its i-th.                                 *)
MainFunction(i) ==
    IF i = 1 THEN "getMapNum" ELSE IF i = 2 THEN "getReduceNum" ELSE "Done"

(* What the master has returned to it is what was true then: the numbers   *)
(* are constant, and a job that is done stays so.                          *)
Returnable(val, j) ==
    \E isDone \in BOOLEAN :
        /\ isDone => done
        /\ val = MasterReturns(isDone)[MainFunction(j)]

MainAsked ==
    \A j \in 1..Len(calls[Main]) :
        /\ FunctionOf(Main, j) = MainFunction(j)
        /\ Ran(Main, j) => Returnable(Ret(Main, j), j)

MainKnows ==
    LET m == Len(answered[Main]) IN
    /\ mainPc # "left" => mainPc = MainFunction(m + 1)
    /\ mainPc = "left" => m > 2 /\ results[Main][m].val # 0
    /\ m > 0 => map_task_num = results[Main][1].val
    /\ m > 1 => reduce_task_num = results[Main][2].val

MainInv == MainPlaces /\ MainAsked /\ MainKnows

(* What main() asks for is bound, and a number.                            *)
LEMMA MainFunctions ==
    ASSUME NEW i
    PROVE  /\ MainFunction(i) \in {"getMapNum", "getReduceNum", "Done"}
           /\ MainFunction(i) \in Bound /\ Result[MainFunction(i)] # "string"
           /\ Main \in Client
BY MasterAssumption, MainAssumption DEF MainFunction

(* All calls but the first two are of Done.                                *)
LEMMA DoneLast ==
    ASSUME NEW m \in Nat, m > 2
    PROVE  MainFunction(m) = "Done"
BY DEF MainFunction

(* What a call of main() that did not time out returned: what the master   *)
(* returned to the last that was sent, if both are of one type.            *)
LEMMA MainsResult ==
    ASSUME RpcInv, ValueInv, MainAsked, NEW i \in 1..Len(answered[Main]),
           ~TimedOut(Main, i)
    PROVE  \E j \in 1..i :
             /\ IsLastSent(Main, i, j)
             /\ Result[MainFunction(i)] = Result[MainFunction(j)] =>
                  Returnable(results[Main][i].val, j)
<1>1. PICK j : j = answered[Main][i]
    OBVIOUS
<1>2. Main \in Client
    BY MainAssumption
<1>3. IsLastSent(Main, i, j)
    BY <1>1, <1>2 DEF RpcInv, ClientInv, Taken
<1>4. ResultWell(Main, i) /\ Executed(Main)
    BY <1>2 DEF ValueInv, DataInv, Returned
<1>5. j \in 1..Len(calls[Main]) /\ ResultOf(Main, i, j)
    BY <1>1, <1>4 DEF ResultWell
<1>6. i \in 1..Len(calls[Main])
    <2>1. /\ Len(answered[Main]) \in Nat /\ Len(calls[Main]) \in Nat
          /\ Len(answered[Main]) <= Len(calls[Main])
        BY <1>2, CallsOf
    <2>2. QED  BY <2>1
<1>7. FunctionOf(Main, j) = MainFunction(j) /\ FunctionOf(Main, i) = MainFunction(i)
    BY <1>5, <1>6 DEF MainAsked
<1>8. Ran(Main, j) /\ (Result[MainFunction(i)] = Result[MainFunction(j)] =>
        results[Main][i].val = Arrived(Result[MainFunction(j)], Ret(Main, j)))
    BY <1>5, <1>7, MainFunctions, Zenon DEF ResultOf
<1>9. Arrived(Result[MainFunction(j)], Ret(Main, j)) = Ret(Main, j)
    BY MainFunctions DEF Arrived
<1>10. Returnable(Ret(Main, j), j)
    BY <1>5, <1>8 DEF MainAsked
<1>11. j \in 1..i
    BY <1>3 DEF IsLastSent
<1>12. QED  BY <1>3, <1>8, <1>9, <1>10, <1>11, Zenon

(* The first two of them.                                                  *)
LEMMA MapNumReturned ==
    ASSUME RpcInv, ValueInv, MainAsked, Len(answered[Main]) > 0
    PROVE  results[Main][1].val = MapNum \/ MainTimedOut(1)
<1>1. Len(answered[Main]) \in Nat /\ answered[Main] \in Seq(Nat)
    BY CallsOf, MainAssumption
<1>2. 1 \in 1..Len(answered[Main]) /\ 1 \in DOMAIN answered[Main]
    BY <1>1
<1>3. ASSUME ~TimedOut(Main, 1) PROVE results[Main][1].val = MapNum
    <2>1. PICK j \in 1..1 : Result[MainFunction(1)] = Result[MainFunction(j)] =>
                              Returnable(results[Main][1].val, j)
        BY <1>2, <1>3, MainsResult
    <2>2. Returnable(results[Main][1].val, 1)
        BY <2>1
    <2>3. MainFunction(1) = "getMapNum"
        BY DEF MainFunction
    <2>4. QED  BY <2>2, <2>3 DEF Returnable, MasterReturns
<1>4. QED  BY <1>2, <1>3 DEF MainTimedOut

(* The second call, which may get the answer to the first.                 *)
LEMMA ReduceNumReturned ==
    ASSUME RpcInv, ValueInv, MainAsked, Len(answered[Main]) > 1
    PROVE  \/ MainTimedOut(2)
           \/ results[Main][2].val = IF MainTimedOut(1) THEN MapNum ELSE ReduceNum
<1>1. Len(answered[Main]) \in Nat /\ answered[Main] \in Seq(Nat)
    BY CallsOf, MainAssumption
<1>2. /\ 2 \in 1..Len(answered[Main]) /\ 2 \in DOMAIN answered[Main]
      /\ 1 \in DOMAIN answered[Main]
    BY <1>1
<1>3. ASSUME ~TimedOut(Main, 2)
      PROVE  results[Main][2].val = IF MainTimedOut(1) THEN MapNum ELSE ReduceNum
    <2>1. PICK j \in 1..2 :
            /\ IsLastSent(Main, 2, j)
            /\ Result[MainFunction(2)] = Result[MainFunction(j)] =>
                 Returnable(results[Main][2].val, j)
        BY <1>2, <1>3, MainsResult
    <2>2. MainFunction(1) = "getMapNum" /\ MainFunction(2) = "getReduceNum"
        BY DEF MainFunction
    <2>3. Returnable(results[Main][2].val, j)
        <3>1. j = 1 \/ j = 2
            OBVIOUS
        <3>2. QED  BY <2>1, <2>2, <3>1, MasterAssumption
    <2>4. CASE j = 1
        <3>1. TimedOut(Main, 1)
            BY <2>1, <2>4 DEF IsLastSent
        <3>2. results[Main][2].val = MapNum
            BY <2>2, <2>3, <2>4 DEF Returnable, MasterReturns
        <3>3. QED  BY <1>2, <3>1, <3>2 DEF MainTimedOut
    <2>5. CASE j = 2
        <3>1. ~TimedOut(Main, 1)
            BY <2>1, <2>5 DEF IsLastSent
        <3>2. results[Main][2].val = ReduceNum
            BY <2>2, <2>3, <2>5 DEF Returnable, MasterReturns
        <3>3. QED  BY <3>1, <3>2 DEF MainTimedOut
    <2>6. QED  BY <2>4, <2>5
<1>4. QED  BY <1>2, <1>3 DEF MainTimedOut

(* The answer to one of the later calls.                                   *)
LEMMA DoneReturned ==
    ASSUME RpcInv, ValueInv, MainAsked, NEW m, m = Len(answered[Main]), m > 2,
           results[Main][m].val # 0
    PROVE  done \/ \E i \in 2..m : MainTimedOut(i)
<1>1. m \in Nat /\ answered[Main] \in Seq(Nat)
    BY CallsOf, MainAssumption
<1>2. m \in 1..m /\ \A i \in 2..m : i \in DOMAIN answered[Main]
    BY <1>1
<1>3. SUFFICES ASSUME \A i \in 2..m : ~TimedOut(Main, i) PROVE done
    BY <1>2 DEF MainTimedOut
<1>4. ~TimedOut(Main, m) /\ ~TimedOut(Main, m - 1)
    BY <1>1, <1>3
<1>5. PICK j \in 1..m :
        /\ IsLastSent(Main, m, j)
        /\ Result[MainFunction(m)] = Result[MainFunction(j)] =>
             Returnable(results[Main][m].val, j)
    BY <1>2, <1>4, MainsResult
<1>6. j = m
    BY <1>1, <1>4, <1>5 DEF IsLastSent
<1>7. MainFunction(m) = "Done"
    BY <1>1, DoneLast
<1>8. Returnable(results[Main][m].val, m)
    BY <1>5, <1>6
<1>9. PICK isDone \in BOOLEAN :
        (isDone => done) /\ results[Main][m].val = MasterReturns(isDone)["Done"]
    BY <1>7, <1>8 DEF Returnable
<1>10. MasterReturns(isDone)["Done"] = IF isDone THEN 1 ELSE 0
    BY DEF MasterReturns
<1>11. QED  BY <1>9, <1>10

(* A step that leaves main()'s calls as they are.                          *)
LEMMA MainAlone ==
    ASSUME RpcInv, ValueInv, MainInv, MainPlaces',
           calls'[Main] = calls[Main], answered'[Main] = answered[Main],
           results'[Main] = results[Main],
           mainPc' = mainPc, map_task_num' = map_task_num,
           reduce_task_num' = reduce_task_num, done => done',
           \A j \in 1..Len(calls[Main]) :
               \/ executed'[Main][j] = executed[Main][j]
               \/ Returnable(Ret(Main, j), j)'
    PROVE  MainInv'
<1>1. MainAsked'
    <2> SUFFICES ASSUME NEW j \in 1..Len(calls[Main])
                 PROVE  /\ FunctionOf(Main, j)' = MainFunction(j)
                        /\ Ran(Main, j)' => Returnable(Ret(Main, j), j)'
        BY DEF MainAsked, MainFunction
    <2>1. FunctionOf(Main, j)' = MainFunction(j)
        BY DEF MainInv, MainAsked, FunctionOf
    <2>2. CASE executed'[Main][j] = executed[Main][j]
        <3>1. Ran(Main, j)' <=> Ran(Main, j)
            BY <2>2 DEF Ran
        <3>2. Ret(Main, j)' = Ret(Main, j)
            BY <2>2 DEF Ret
        <3>3. Ran(Main, j) => Returnable(Ret(Main, j), j)
            BY DEF MainInv, MainAsked
        <3>4. ASSUME Ran(Main, j) PROVE Returnable(Ret(Main, j), j)'
            <4>1. PICK isDone \in BOOLEAN :
                    /\ isDone => done
                    /\ Ret(Main, j) = MasterReturns(isDone)[MainFunction(j)]
                BY <3>3, <3>4 DEF Returnable
            <4>2. /\ isDone => done'
                  /\ Ret(Main, j)' = MasterReturns(isDone)[MainFunction(j)]
                BY <3>2, <4>1
            <4>3. QED  BY <4>2, Zenon DEF Returnable, MasterReturns, MainFunction
        <3>5. QED  BY <2>1, <3>1, <3>4, Zenon
    <2>3. QED  BY <2>1, <2>2
<1>2. MainKnows'
    BY DEF MainInv, MainKnows, MainFunction
<1>3. QED  BY <1>1, <1>2 DEF MainInv

(* main() makes its next call.                                             *)
LEMMA MainCallsInv ==
    ASSUME RpcInv, ValueInv, MainInv, MainPlaces', MainCalls
    PROVE  MainInv'
<1>1. PICK beyond \in Beyond : Call(Main, mainPc, <<>>, beyond)
    BY DEF MainCalls
<1>2. Main \in Client /\ Types /\ mainPc \in Function /\ <<>> \in Arguments[mainPc]
    BY MainAssumption, MasterAssumption, ClientsAssumption
    DEF RpcInv, MainCalls, MainInv, MainPlaces
<1>3. PICK call : call = [function |-> mainPc, args |-> <<>>]
    OBVIOUS
<1>4. call \in CallRecord /\ call.function = mainPc
    BY <1>2, <1>3 DEF CallRecord
<1>5. /\ calls'[Main] = Append(calls[Main], call)
      /\ results' = results /\ answered' = answered /\ executed' = executed
    BY <1>1, <1>2, <1>3 DEF Types, Call
<1>6. PICK n : n = Len(calls[Main])
    OBVIOUS
<1>7. /\ n \in Nat /\ calls[Main] \in Seq(CallRecord) /\ Len(answered[Main]) = n
      /\ n < MaxCalls[Main] /\ MaxCalls[Main] \in Nat
    BY <1>1, <1>2, <1>6, CallsOf
    DEF Call, Calling, RpcInv, ClientInv, InOrder
<1>8. /\ Len(calls'[Main]) = n + 1 /\ calls'[Main][n + 1] = call
      /\ \A j \in 1..n : calls'[Main][j] = calls[Main][j]
    <2>1. Longer(calls[Main], call, calls'[Main])
        BY <1>4, <1>5, <1>7, AppendIs
    <2>2. QED  BY <1>6, <2>1, Zenon DEF Longer
<1>9. /\ mainPc' = mainPc /\ map_task_num' = map_task_num /\ done' = done
      /\ reduce_task_num' = reduce_task_num /\ mainPc # "left"
    BY DEF MainCalls, mainVars
<1>10. mainPc = MainFunction(n + 1)
    <2>1. mainPc = MainFunction(Len(answered[Main]) + 1)
        BY <1>9, Zenon DEF MainInv, MainKnows
    <2>2. QED  BY <1>7, <2>1, Zenon
<1>11. MainAsked'
    <2>1. ASSUME NEW j \in 1..(n + 1)
          PROVE  /\ FunctionOf(Main, j)' = MainFunction(j)
                 /\ Ran(Main, j)' => Returnable(Ret(Main, j), j)'
        <3>1. CASE j = n + 1
            <4>1. FunctionOf(Main, j)' = MainFunction(j)
                BY <1>4, <1>8, <1>10, <3>1 DEF FunctionOf
            <4>2. j \in 1..MaxCalls[Main] /\ ~(j <= Len(calls[Main]))
                BY <1>6, <1>7, <3>1
            <4>3. Unexecuted(Main, j)
                BY <1>2, <4>2 DEF RpcInv, ClientInv, Executions
            <4>4. QED  BY <1>5, <4>1, <4>3 DEF Unexecuted, Ran
        <3>2. CASE j \in 1..n
            <4>1. FunctionOf(Main, j) = MainFunction(j)
                  /\ (Ran(Main, j) => Returnable(Ret(Main, j), j))
                BY <1>6, <3>2, Zenon DEF MainInv, MainAsked
            <4>2. FunctionOf(Main, j)' = FunctionOf(Main, j)
                BY <1>8, <3>2 DEF FunctionOf
            <4>3. (Ran(Main, j)' <=> Ran(Main, j)) /\ Ret(Main, j)' = Ret(Main, j)
                BY <1>5 DEF Ran, Ret
            <4>4. QED  BY <1>9, <4>1, <4>2, <4>3, Zenon
                       DEF Returnable, MasterReturns, MainFunction
        <3>3. QED  BY <1>7, <3>1, <3>2
    <2>2. QED  BY <1>8, <2>1, Zenon DEF MainAsked, MainFunction
<1>12. MainKnows'
    BY <1>5, <1>9, Zenon DEF MainInv, MainKnows, MainFunction
<1>13. QED  BY <1>11, <1>12 DEF MainInv

(* Its call returns, with or without an answer.                            *)
LEMMA NetCall ==
    ASSUME RpcInv, ValueInv, NEW c \in Client, net_call(c)
    PROVE  /\ calls' = calls /\ executed' = executed
           /\ \E v, a : /\ Longer(results[c], v, results'[c])
                        /\ Longer(answered[c], a, answered'[c])
           /\ \A d \in Client : d # c =>
                results'[d] = results[d] /\ answered'[d] = answered[d]
<1>1. Types /\ Returned(c)
    BY DEF RpcInv, ValueInv, DataInv
<1>2. \E v, a : /\ results' = [results EXCEPT ![c] = Append(@, v)]
                /\ answered' = [answered EXCEPT ![c] = Append(@, a)]
                /\ calls' = calls /\ executed' = executed
    BY DEF net_call, Receive, TimeOut
<1>3. PICK v, a : /\ results' = [results EXCEPT ![c] = Append(@, v)]
                  /\ answered' = [answered EXCEPT ![c] = Append(@, a)]
                  /\ calls' = calls /\ executed' = executed
    BY <1>2
<1>4. /\ results'[c] = Append(results[c], v)
      /\ answered'[c] = Append(answered[c], a)
      /\ \A d \in Client : d # c =>
           results'[d] = results[d] /\ answered'[d] = answered[d]
    BY <1>1, <1>3 DEF Types, ValueInv
<1>5. Longer(results[c], v, results'[c])
    <2>1. PICK S : results[c] \in Seq(S)
        BY <1>1 DEF Returned
    <2>2. PICK T : T = S \cup {v}
        OBVIOUS
    <2>3. results[c] \in Seq(T) /\ v \in T
        BY <2>1, <2>2
    <2>4. QED  BY <1>4, <2>3, AppendIs
<1>6. Longer(answered[c], a, answered'[c])
    <2>1. answered[c] \in Seq(Nat)
        BY CallsOf
    <2>2. PICK T : T = Nat \cup {a}
        OBVIOUS
    <2>3. answered[c] \in Seq(T) /\ a \in T
        BY <2>1, <2>2
    <2>4. QED  BY <1>4, <2>3, AppendIs
<1>7. QED  BY <1>3, <1>4, <1>5, <1>6

(* main() takes what its call returns.                                     *)
LEMMA MainTakesInv ==
    ASSUME RpcInv, ValueInv, MainInv, MainPlaces', MainTakes
    PROVE  MainInv'
<1>1. Main \in Client
    BY MainAssumption
<1>2. /\ calls' = calls /\ executed' = executed /\ done' = done
      /\ \E v, a : /\ Longer(results[Main], v, results'[Main])
                   /\ Longer(answered[Main], a, answered'[Main])
    BY <1>1, NetCall DEF MainTakes
<1>3. PICK v, a : /\ Longer(results[Main], v, results'[Main])
                  /\ Longer(answered[Main], a, answered'[Main])
    BY <1>2
<1>4. PICK m : m = Len(answered[Main])
    OBVIOUS
<1>5. m \in Nat /\ Len(results[Main]) = m
    BY <1>1, <1>4, CallsOf DEF ValueInv, DataInv, Returned
<1>6. /\ Len(results'[Main]) = m + 1 /\ Len(answered'[Main]) = m + 1
      /\ \A i \in 1..m : results'[Main][i] = results[Main][i]
    BY <1>3, <1>4, <1>5, Zenon DEF Longer
<1>7. PICK val : val = results'[Main][m + 1].val
    OBVIOUS
<1>8. \/ /\ mainPc = "getMapNum" /\ mainPc' = "getReduceNum"
         /\ map_task_num' = val
      \/ /\ mainPc = "getReduceNum" /\ mainPc' = "Done"
         /\ reduce_task_num' = val /\ map_task_num' = map_task_num
      \/ /\ mainPc = "Done" /\ mainPc' = IF val # 0 THEN "left" ELSE "Done"
         /\ map_task_num' = map_task_num /\ reduce_task_num' = reduce_task_num
    BY <1>6, <1>7, Zenon DEF MainTakes, Leaves
<1>9. MainAsked'
    BY <1>2, Zenon
    DEF MainInv, MainAsked, FunctionOf, Ran, Ret, Returnable, MasterReturns,
        MainFunction
<1>10. /\ mainPc # "left" => mainPc = MainFunction(m + 1)
       /\ m > 0 => map_task_num = results[Main][1].val
       /\ m > 1 => reduce_task_num = results[Main][2].val
    BY <1>4, Zenon DEF MainInv, MainKnows
<1>11. /\ mainPc = "getMapNum" => m = 0
       /\ mainPc = "getReduceNum" => m = 1
       /\ mainPc = "Done" => m > 1
    BY <1>5, <1>10 DEF MainFunction
<1>12. MainKnows'
    <2>1. /\ mainPc' # "left" => mainPc' = MainFunction(m + 2)
          /\ mainPc' = "left" => m + 1 > 2 /\ results'[Main][m + 1].val # 0
        BY <1>5, <1>7, <1>8, <1>11 DEF MainFunction
    <2>2. map_task_num' = results'[Main][1].val
        <3>1. CASE mainPc = "getMapNum"
            <4>1. m + 1 = 1 /\ map_task_num' = val
                BY <1>8, <1>11, <3>1
            <4>2. QED  BY <1>7, <4>1
        <3>2. CASE mainPc # "getMapNum"
            <4>1. m > 0 /\ 1 \in 1..m /\ map_task_num' = map_task_num
                BY <1>5, <1>8, <1>11, <3>2
            <4>2. QED  BY <1>6, <1>10, <4>1
        <3>3. QED  BY <3>1, <3>2
    <2>3. m + 1 > 1 => reduce_task_num' = results'[Main][2].val
        <3>1. CASE mainPc = "getMapNum"
            BY <1>11, <3>1
        <3>2. CASE mainPc = "getReduceNum"
            <4>1. m + 1 = 2 /\ reduce_task_num' = val
                BY <1>8, <1>11, <3>2
            <4>2. QED  BY <1>7, <4>1
        <3>3. CASE mainPc = "Done"
            <4>1. m > 1 /\ 2 \in 1..m /\ reduce_task_num' = reduce_task_num
                BY <1>5, <1>8, <1>11, <3>3
            <4>2. QED  BY <1>6, <1>10, <4>1
        <3>4. QED  BY <1>8, <3>1, <3>2, <3>3
    <2>4. m + 1 + 1 = m + 2
        BY <1>5
    <2>5. QED  BY <1>6, <2>1, <2>2, <2>3, <2>4, Zenon DEF MainKnows, MainFunction
<1>13. QED  BY <1>9, <1>12 DEF MainInv

(* The master runs.                                                        *)
LEMMA MasterRunsInv ==
    ASSUME RpcInv, ValueInv, MainInv, MainPlaces', MasterRuns
    PROVE  MainInv'
<1>1. /\ mainPc' = mainPc /\ map_task_num' = map_task_num /\ done' = done
      /\ reduce_task_num' = reduce_task_num
    BY DEF MasterRuns, mainVars
<1>2. CASE \E c \in Client : Accept(c)
    <2>1. /\ calls' = calls /\ answered' = answered /\ results' = results
          /\ executed' = executed
        BY <1>2 DEF Accept, clientVars
    <2>2. QED  BY <1>1, <2>1, MainAlone
<1>3. CASE \E beyond \in Beyond, uninitialized \in Uninitialized :
             call_(beyond, uninitialized, MasterReturns(done))
    <2>1. PICK beyond \in Beyond, uninitialized \in Uninitialized :
             call_(beyond, uninitialized, MasterReturns(done))
        BY <1>3
    <2>2. /\ calls' = calls /\ answered' = answered /\ results' = results
        BY <2>1 DEF call_, clientVars
    <2>3. ASSUME NEW j \in 1..Len(calls[Main])
          PROVE  \/ executed'[Main][j] = executed[Main][j]
                 \/ Returnable(Ret(Main, j), j)'
        <3>1. MasterReturns(done) \in Returns
            BY MasterAssumption DEF MainInv, MainPlaces
        <3>2. \/ executed'[Main][j] = executed[Main][j]
              \/ Ret(Main, j)' = MasterReturns(done)[FunctionOf(Main, j)]
            BY <2>1, <3>1, MainAssumption, ExecuteReturns
        <3>3. FunctionOf(Main, j) = MainFunction(j)
            BY DEF MainInv, MainAsked
        <3>4. ASSUME Ret(Main, j)' = MasterReturns(done)[MainFunction(j)]
              PROVE  Returnable(Ret(Main, j), j)'
            <4>1. PICK isDone \in BOOLEAN : isDone = done
                BY DEF MainInv, MainPlaces
            <4>2. /\ isDone => done'
                  /\ Ret(Main, j)' = MasterReturns(isDone)[MainFunction(j)]
                BY <1>1, <3>4, <4>1
            <4>3. QED  BY <4>2, Zenon DEF Returnable, MasterReturns, MainFunction
        <3>5. QED  BY <3>2, <3>3, <3>4, Zenon
    <2>4. QED  BY <1>1, <2>2, <2>3, MainAlone
<1>4. QED  BY <1>2, <1>3 DEF MasterRuns

(* So does every other step.                                               *)
LEMMA MainStep ==
    RpcInv /\ ValueInv /\ MainInv /\ [MainNext]_workerVars => MainInv'
<1> SUFFICES ASSUME RpcInv, ValueInv, MainInv, [MainNext]_workerVars
             PROVE  MainInv'
    OBVIOUS
<1>1. MainPlaces'
    BY WorkerStep DEF MainInv
<1>2. CASE MainCalls
    BY <1>1, <1>2, MainCallsInv
<1>3. CASE MainTakes
    BY <1>1, <1>3, MainTakesInv
<1>4. ASSUME NEW c \in Client, ThreadCalls(c) PROVE MainInv'
    <2>1. /\ mainPc' = mainPc /\ map_task_num' = map_task_num /\ done' = done
          /\ reduce_task_num' = reduce_task_num /\ c # Main
        BY <1>4 DEF ThreadCalls, mainVars
    <2>2. /\ calls'[Main] = calls[Main] /\ answered' = answered
          /\ results' = results /\ executed' = executed
        BY <1>4, MainAssumption DEF ThreadCalls, Call, RpcInv, Types
    <2>3. QED  BY <1>1, <2>1, <2>2, MainAlone
<1>5. ASSUME NEW c \in Client, ThreadTakes(c) PROVE MainInv'
    <2>1. /\ mainPc' = mainPc /\ map_task_num' = map_task_num /\ done' = done
          /\ reduce_task_num' = reduce_task_num /\ c # Main
        BY <1>5 DEF ThreadTakes, mainVars
    <2>2. /\ calls' = calls /\ answered'[Main] = answered[Main]
          /\ results'[Main] = results[Main] /\ executed' = executed
        <3>1. net_call(c) /\ Main \in Client
            BY <1>5, MainAssumption DEF ThreadTakes
        <3>2. QED  BY <2>1, <3>1, NetCall
    <2>3. QED  BY <1>1, <2>1, <2>2, MainAlone
<1>6. CASE MasterRuns
    BY <1>1, <1>6, MasterRunsInv
<1>7. CASE JobDone
    <2>1. /\ calls' = calls /\ answered' = answered
          /\ results' = results /\ executed' = executed
          /\ mainPc' = mainPc /\ map_task_num' = map_task_num
          /\ reduce_task_num' = reduce_task_num /\ (done => done')
        BY <1>7 DEF JobDone, vars, clientVars, mainVars
    <2>2. QED  BY <1>1, <2>1, MainAlone
<1>8. CASE UNCHANGED workerVars
    <2>1. /\ calls' = calls /\ answered' = answered
          /\ results' = results /\ executed' = executed
          /\ mainPc' = mainPc /\ map_task_num' = map_task_num
          /\ reduce_task_num' = reduce_task_num /\ (done => done')
        BY <1>8 DEF workerVars, vars, clientVars, mainVars
    <2>2. QED  BY <1>1, <2>1, MainAlone
<1>9. QED  BY <1>2, <1>3, <1>4, <1>5, <1>6, <1>7, <1>8 DEF MainNext

(* The invariant of main() over the library.                               *)
LEMMA MainInvariant == MainSpec => [](RpcInv /\ ValueInv /\ MainInv)
<1>1. MainInit => MainInv
    <2> SUFFICES ASSUME MainInit PROVE MainInv
        OBVIOUS
    <2>1. calls[Main] = <<>> /\ answered[Main] = <<>> /\ mainPc = "getMapNum"
        BY MainAssumption DEF MainInit, Init
    <2>2. Len(<<>>) = 0 /\ 1..0 = {} /\ 0 + 1 = 1
        OBVIOUS
    <2>3. MainAsked
        BY <2>1, <2>2 DEF MainAsked
    <2>4. MainKnows
        BY <2>1, <2>2 DEF MainKnows, MainFunction
    <2>5. QED  BY <2>3, <2>4 DEF MainInv, MainPlaces, MainInit
<1>2. MainSpec => [](RpcInv /\ ValueInv)
    BY WorkerUsesLibrary, ValueInvariant, PTL
<1>3. QED  BY <1>1, <1>2, MainStep, PTL DEF MainSpec

(* main() has the numbers of the master unless a call has timed out.  The  *)
(* number of maps is then any, if it was the first call; that of reduces   *)
(* is any if the second has timed out, and that of maps if the first has.  *)
THEOREM MainHasNumbers == MainSpec => []NumbersOfMaster
<1>1. ASSUME RpcInv, ValueInv, MainInv PROVE NumbersOfMaster
    <2>1. PICK m : m = Len(answered[Main])
        OBVIOUS
    <2>2. m \in Nat
        BY <2>1, CallsOf, MainAssumption, <1>1
    <2>3. /\ mainPc # "left" => mainPc = MainFunction(m + 1)
          /\ mainPc = "left" => m > 2
          /\ m > 0 => map_task_num = results[Main][1].val
          /\ m > 1 => reduce_task_num = results[Main][2].val
        BY <1>1, <2>1, Zenon DEF MainInv, MainKnows
    <2>4. m > 0 => map_task_num = MapNum \/ MainTimedOut(1)
        BY <1>1, <2>1, <2>3, MapNumReturned, Zenon DEF MainInv
    <2>5. m > 1 =>
            \/ MainTimedOut(2)
            \/ reduce_task_num = IF MainTimedOut(1) THEN MapNum ELSE ReduceNum
        BY <1>1, <2>1, <2>3, ReduceNumReturned, Zenon DEF MainInv
    <2>6. /\ mainPc # "getMapNum" => m > 0
          /\ mainPc \notin {"getMapNum", "getReduceNum"} => m > 1
        BY <2>2, <2>3 DEF MainFunction
    <2>7. QED  BY <2>4, <2>5, <2>6, Zenon DEF NumbersOfMaster
<1>2. QED  BY <1>1, MainInvariant, PTL

(* main() removes the intermediate files when the job is done, or one of   *)
(* its calls has timed out.                                                *)
THEOREM MainLeavesWhenDone == MainSpec => []LeavesWhenDone
<1>1. ASSUME RpcInv, ValueInv, MainInv PROVE LeavesWhenDone
    <2> SUFFICES ASSUME mainPc = "left"
                 PROVE  done \/ \E i \in 2..Len(answered[Main]) : MainTimedOut(i)
        BY DEF LeavesWhenDone
    <2>1. PICK m : m = Len(answered[Main])
        OBVIOUS
    <2>2. m > 2 /\ results[Main][m].val # 0
        BY <1>1, <2>1, Zenon DEF MainInv, MainKnows
    <2>3. done \/ \E i \in 2..m : MainTimedOut(i)
        BY <1>1, <2>1, <2>2, DoneReturned DEF MainInv
    <2>4. QED  BY <2>1, <2>3, Zenon
<1>2. QED  BY <1>1, MainInvariant, PTL
=============================================================================
