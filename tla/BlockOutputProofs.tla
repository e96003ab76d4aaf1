-------------------------- MODULE BlockOutputProofs --------------------------
(***************************************************************************)
(* Theorems about BlockOutput: no bit is lost, the file is the deflate     *)
(* stream of its blocks, and flush_block counts the bits it writes; for    *)
(* bytes of any width, any outbuf and any blocks.                          *)
(***************************************************************************)
EXTENDS BlockOutput, SequenceTheorems, WellFoundedInduction, TLAPS

-----------------------------------------------------------------------------
(* Numbers                                                                 *)

\* A set of natural numbers has a least element.
LEMMA Least ==
    ASSUME NEW T, T \subseteq Nat, T # {}
    PROVE  \E n \in T : \A m \in T : n <= m
  <1> DEFINE R == {ss \in Nat \X Nat : ss[1] < ss[2]}
  <1>1. IsWellFoundedOn(R, Nat)
    BY NatLessThanWellFounded DEF OpToRel
  <1>2. \A n, m \in Nat : m < n => <<m, n>> \in R
    OBVIOUS
  <1> HIDE DEF R
  <1>3. PICK n \in T : \A m \in T : ~(<<m, n>> \in R)
    BY <1>1, WFMin
  <1>4. \A m \in T : n \in Nat /\ m \in Nat /\ ~(m < n)
    BY <1>2, <1>3
  <1>5. \A p, q \in Nat : ~(q < p) => p <= q
    OBVIOUS
  <1>6. \A m \in T : n <= m
    BY <1>4, <1>5
  <1> QED BY <1>6

-----------------------------------------------------------------------------
(* Division                                                                *)

\* Quotient and remainder are determined.
LEMMA DivMod ==
    ASSUME NEW b \in Nat \ {0}, NEW q \in Int, NEW r \in 0 .. b - 1
    PROVE  (q * b + r) % b = r /\ (q * b + r) \div b = q
  <1> DEFINE x == q * b + r
             d == x \div b
             m == x % b
  <1>1. d \in Int /\ m \in 0 .. b - 1 /\ x = b * d + m
    OBVIOUS
  <1> HIDE DEF d, m
  <1>2. b * (d - q) = r - m
    BY <1>1
  <1>3. d - q \in Int /\ (d - q >= 1 \/ d - q <= -1 \/ d - q = 0)
    BY <1>1
  <1>4. r - m < b /\ r - m > -b
    BY <1>1
  <1>5. CASE d - q >= 1
    <2>1. b * (d - q) >= b
      BY <1>3, <1>5
    <2> QED BY <1>2, <1>4, <2>1
  <1>6. CASE d - q <= -1
    <2>1. b * (d - q) <= -b
      BY <1>3, <1>6
    <2> QED BY <1>1, <1>2, <1>4, <2>1
  <1>7. CASE d - q = 0
    BY <1>1, <1>2, <1>7 DEF d, m
  <1> QED BY <1>3, <1>5, <1>6, <1>7

\* A place among n bytes is a place in one of them.
LEMMA PlaceOf ==
    ASSUME NEW b \in Nat \ {0}, NEW n \in Nat, NEW x \in 0 .. b * n - 1
    PROVE  /\ x \div b \in 0 .. n - 1 /\ x % b \in 0 .. b - 1
           /\ x = (x \div b) * b + (x % b)
  <1> DEFINE q == x \div b
             r == x % b
  <1>1. q \in Int /\ r \in 0 .. b - 1 /\ x = b * q + r
    OBVIOUS
  <1>2. b * n \in Nat /\ x \in Nat /\ x < b * n
    OBVIOUS
  <1> HIDE DEF q, r
  <1>3. q >= 0
    <2>1. SUFFICES ASSUME q <= -1 PROVE FALSE
      BY <1>1
    <2>2. b * q <= -b
      BY <1>1, <2>1
    <2> QED BY <1>1, <1>2, <2>2
  <1>4. q < n
    <2>1. SUFFICES ASSUME q - n >= 0 PROVE FALSE
      BY <1>1
    <2>2. b * (q - n) >= 0
      BY <1>1, <2>1
    <2>3. b * q = b * n + b * (q - n)
      BY <1>1
    <2> QED BY <1>1, <1>2, <2>2, <2>3
  <1> QED BY <1>1, <1>3, <1>4 DEF q, r

\* The byte and the bit in it, as witnesses.
LEMMA ByteOf ==
    ASSUME NEW b \in Nat \ {0}, NEW n \in Nat, NEW x \in 0 .. b * n - 1
    PROVE  \E q \in 0 .. n - 1, r \in 0 .. b - 1 : x = q * b + r
  <1> DEFINE d == x \div b
             m == x % b
  <1>1. d \in 0 .. n - 1 /\ m \in 0 .. b - 1 /\ x = d * b + m
    BY PlaceOf
  <1> HIDE DEF d, m
  <1> QED BY <1>1

\* A product of natural numbers is one.
LEMMA Product ==
    ASSUME NEW x \in Nat, NEW y \in Nat
    PROVE  x * y \in Nat
OBVIOUS

\* The same number of whole bytes before changes no remainder.
LEMMA SameRest ==
    ASSUME NEW b \in Nat \ {0}, NEW n \in Int, NEW x \in Int
    PROVE  (n * b + x) % b = x % b /\ x % b \in 0 .. b - 1
  <1> DEFINE q == x \div b
             r == x % b
  <1>1. q \in Int /\ r \in 0 .. b - 1 /\ x = b * q + r
    OBVIOUS
  <1> HIDE DEF q, r
  <1>2. n * b + x = (n + q) * b + r /\ n + q \in Int
    <2>1. (n + q) * b = n * b + b * q /\ n * b \in Int /\ b * q \in Int
      BY <1>1
    <2> QED BY <1>1, <2>1
  <1>3. ((n + q) * b + r) % b = r
    BY <1>1, <1>2, DivMod
  <1> QED BY <1>1, <1>2, <1>3 DEF r

-----------------------------------------------------------------------------
(* Bits of bytes                                                           *)

\* Buf_size holds two bytes of at least two bits.
LEMMA Widths == /\ ByteBits \in Nat /\ ByteBits >= 2 /\ Buf_size = 2 * ByteBits
                /\ Buf_size \in Nat /\ ByteBits \in Nat \ {0}
BY ByteBitsAssumption DEF Buf_size

\* The first bits of a short.
LEMMA BitsType ==
    ASSUME NEW w \in Short, NEW n \in 0 .. Buf_size
    PROVE  /\ Bits(w, n) \in Seq(Bit) /\ Len(Bits(w, n)) = n
           /\ \A k \in 1 .. n : Bits(w, n)[k] = w[k - 1]
  <1>1. \A k \in 1 .. n : k - 1 \in 0 .. Buf_size - 1
    BY Widths
  <1>2. \A k \in 1 .. n : w[k - 1] \in Bit
    BY <1>1 DEF Short
  <1>3. n \in Nat
    BY Widths
  <1> QED BY <1>2, <1>3 DEF Bits

\* The bits of a byte.
LEMMA ByteBitsType ==
    ASSUME NEW c \in Byte
    PROVE  /\ Bits(c, ByteBits) \in Seq(Bit) /\ Len(Bits(c, ByteBits)) = ByteBits
           /\ \A k \in 1 .. ByteBits : Bits(c, ByteBits)[k] = c[k - 1]
  <1>1. \A k \in 1 .. ByteBits : k - 1 \in 0 .. ByteBits - 1
    BY Widths
  <1>2. \A k \in 1 .. ByteBits : c[k - 1] \in Bit
    BY <1>1 DEF Byte
  <1> QED BY <1>2, Widths DEF Bits

\* The bits of a sequence of bytes, each at its place.
LEMMA BitsOfType ==
    ASSUME NEW bytes \in Seq(Byte)
    PROVE  /\ BitsOf(bytes) \in Seq(Bit) /\ Len(BitsOf(bytes)) = ByteBits * Len(bytes)
           /\ \A q \in 0 .. Len(bytes) - 1, r \in 0 .. ByteBits - 1 :
                BitsOf(bytes)[q * ByteBits + r + 1] = bytes[q + 1][r]
  <1> DEFINE n == ByteBits * Len(bytes)
             s == BitsOf(bytes)
  <1>1. n \in Nat /\ Len(bytes) \in Nat
    BY Widths
  <1>2. ASSUME NEW k \in 1 .. n
        PROVE  /\ (k - 1) \div ByteBits + 1 \in 1 .. Len(bytes)
               /\ (k - 1) % ByteBits \in 0 .. ByteBits - 1
    <2>1. k - 1 \in 0 .. ByteBits * Len(bytes) - 1
      BY <1>1
    <2>2. /\ (k - 1) \div ByteBits \in 0 .. Len(bytes) - 1
          /\ (k - 1) % ByteBits \in 0 .. ByteBits - 1
      BY <1>1, <2>1, PlaceOf, Widths
    <2> QED BY <1>1, <2>2
  <1>3. ASSUME NEW k \in 1 .. n
        PROVE  bytes[(k - 1) \div ByteBits + 1][(k - 1) % ByteBits] \in Bit
    <2>1. bytes[(k - 1) \div ByteBits + 1] \in Byte
      BY <1>2
    <2> QED BY <1>2, <2>1 DEF Byte
  <1>4. s \in Seq(Bit) /\ Len(s) = n
    BY <1>1, <1>3 DEF BitsOf
  <1>5. ASSUME NEW q \in 0 .. Len(bytes) - 1, NEW r \in 0 .. ByteBits - 1
        PROVE  s[q * ByteBits + r + 1] = bytes[q + 1][r]
    <2> DEFINE k == q * ByteBits + r + 1
    <2>1. k \in 1 .. n
      <3>1. (Len(bytes) - q) - 1 >= 0 /\ ByteBits * ((Len(bytes) - q) - 1) >= 0
        BY <1>1, Widths
      <3>2. n = q * ByteBits + ByteBits * ((Len(bytes) - q) - 1) + ByteBits
        BY <1>1, Widths
      <3>3. q * ByteBits \in Nat
        BY Widths
      <3> QED BY <1>1, <3>1, <3>2, <3>3, Widths
    <2>2. k - 1 = q * ByteBits + r
      BY Widths
    <2>3. (k - 1) % ByteBits = r /\ (k - 1) \div ByteBits = q
      BY <2>2, DivMod, Widths
    <2> HIDE DEF k
    <2>4. s[k] = bytes[(k - 1) \div ByteBits + 1][(k - 1) % ByteBits]
      BY <2>1 DEF BitsOf
    <2> QED BY <2>3, <2>4 DEF k
  <1> QED BY <1>4, <1>5

\* The bytes one after the other.
LEMMA BitsOfConcat ==
    ASSUME NEW a \in Seq(Byte), NEW c \in Seq(Byte)
    PROVE  BitsOf(a \o c) = BitsOf(a) \o BitsOf(c)
  <1> DEFINE ac == a \o c
             s == BitsOf(ac)
             x == BitsOf(a)
             y == BitsOf(c)
             t == x \o y
  <1>1. /\ ac \in Seq(Byte) /\ Len(ac) = Len(a) + Len(c) /\ Len(a) \in Nat /\ Len(c) \in Nat
        /\ \A k \in 1 .. Len(a) + Len(c) : ac[k] = IF k <= Len(a) THEN a[k] ELSE c[k - Len(a)]
    BY ConcatProperties
  <1> HIDE DEF ac
  <1>2. /\ s \in Seq(Bit) /\ Len(s) = ByteBits * Len(ac)
        /\ \A q \in 0 .. Len(ac) - 1, r \in 0 .. ByteBits - 1 :
             s[q * ByteBits + r + 1] = ac[q + 1][r]
    BY <1>1, BitsOfType
  <1>3. /\ x \in Seq(Bit) /\ Len(x) = ByteBits * Len(a)
        /\ \A q \in 0 .. Len(a) - 1, r \in 0 .. ByteBits - 1 :
             x[q * ByteBits + r + 1] = a[q + 1][r]
    BY BitsOfType
  <1>4. /\ y \in Seq(Bit) /\ Len(y) = ByteBits * Len(c)
        /\ \A q \in 0 .. Len(c) - 1, r \in 0 .. ByteBits - 1 :
             y[q * ByteBits + r + 1] = c[q + 1][r]
    BY BitsOfType
  <1> HIDE DEF s, x, y
  <1>5. /\ t \in Seq(Bit) /\ Len(t) = Len(x) + Len(y)
        /\ \A k \in 1 .. Len(x) + Len(y) : t[k] = IF k <= Len(x) THEN x[k] ELSE y[k - Len(x)]
    BY <1>3, <1>4, ConcatProperties
  <1> HIDE DEF t
  <1>6. Len(s) = Len(t)
    BY <1>1, <1>2, <1>3, <1>4, <1>5, Widths
  <1>7. ASSUME NEW k \in 1 .. Len(s) PROVE s[k] = t[k]
    <2>1. Len(s) \in Nat /\ k - 1 \in 0 .. ByteBits * Len(ac) - 1
      BY <1>1, <1>2, Widths
    <2> DEFINE j == k - 1
    <2> HIDE DEF j
    <2>2. j \in 0 .. ByteBits * Len(ac) - 1 /\ Len(ac) \in Nat
      BY <1>1, <2>1 DEF j
    <2>3. \E q \in 0 .. Len(ac) - 1, r \in 0 .. ByteBits - 1 : j = q * ByteBits + r
      BY <2>2, ByteOf, Widths
    <2>4. PICK q \in 0 .. Len(ac) - 1, r \in 0 .. ByteBits - 1 : k - 1 = q * ByteBits + r
      BY <2>3 DEF j
    <2>5. q \in Nat /\ r \in Nat /\ q * ByteBits \in Nat /\ ByteBits * Len(a) \in Nat
          /\ k = q * ByteBits + r + 1
      BY <1>1, <2>4, Widths
    <2>6. s[k] = ac[q + 1][r]
      BY <1>2, <2>5
    <2>7. CASE q < Len(a)
      <3>1. q \in 0 .. Len(a) - 1 /\ ac[q + 1] = a[q + 1]
        BY <1>1, <2>5, <2>7
      <3>2. x[k] = a[q + 1][r]
        BY <1>3, <2>5, <3>1
      <3>3. k <= Len(x)
        <4>1. ByteBits * Len(a) = q * ByteBits + ByteBits * (Len(a) - q - 1) + ByteBits
          BY <1>1, <2>5, Widths
        <4>2. Len(a) - q - 1 \in Nat
          BY <1>1, <2>5, <2>7
        <4>3. ByteBits * (Len(a) - q - 1) \in Nat
          BY <4>2, Product, Widths
        <4> QED BY <1>3, <2>5, <4>1, <4>3, Widths
      <3>4. t[k] = x[k]
        BY <1>2, <1>5, <1>6, <3>3
      <3> QED BY <2>6, <3>1, <3>2, <3>4
    <2>8. CASE q >= Len(a)
      <3> DEFINE p == q - Len(a)
      <3>1. p \in 0 .. Len(c) - 1 /\ ac[q + 1] = c[p + 1]
        <4>1. q + 1 \in 1 .. Len(a) + Len(c) /\ ~(q + 1 <= Len(a)) /\ q + 1 - Len(a) = p + 1
          BY <1>1, <2>5, <2>8
        <4>2. p \in 0 .. Len(c) - 1
          BY <1>1, <2>5, <2>8
        <4> QED BY <1>1, <4>1, <4>2
      <3>2. k = ByteBits * Len(a) + (p * ByteBits + r + 1)
        <4>1. q * ByteBits = ByteBits * Len(a) + p * ByteBits
          BY <1>1, <2>5, Widths
        <4> QED BY <1>1, <2>5, <3>1, <4>1, Widths
      <3> HIDE DEF p
      <3>3. p * ByteBits + r + 1 \in Nat /\ p * ByteBits + r + 1 >= 1
        <4>1. p \in Nat
          BY <1>1, <3>1
        <4>2. p * ByteBits \in Nat
          BY <4>1, Product, Widths
        <4> QED BY <2>5, <4>2
      <3>4. ~(k <= Len(x)) /\ k - Len(x) = p * ByteBits + r + 1
        BY <1>3, <2>5, <3>2, <3>3
      <3>5. t[k] = y[p * ByteBits + r + 1]
        BY <1>2, <1>5, <1>6, <3>4
      <3>6. y[p * ByteBits + r + 1] = c[p + 1][r]
        BY <1>4, <3>1
      <3> QED BY <2>6, <3>1, <3>5, <3>6
    <2> QED BY <1>1, <2>5, <2>7, <2>8
  <1>8. s = t
    BY <1>2, <1>5, <1>6, <1>7, SeqEqual
  <1> QED BY <1>8 DEF s, t, x, y, ac

\* The bits of one byte.
LEMMA BitsOfOne ==
    ASSUME NEW c \in Byte
    PROVE  BitsOf(<<c>>) = Bits(c, ByteBits)
  <1> DEFINE s == BitsOf(<<c>>)
             t == Bits(c, ByteBits)
  <1>1. /\ s \in Seq(Bit) /\ Len(s) = ByteBits
        /\ \A r \in 0 .. ByteBits - 1 : s[r + 1] = c[r]
    <2> DEFINE o == <<c>>
    <2>1. o \in Seq(Byte) /\ Len(o) = 1 /\ o[0 + 1] = c
      OBVIOUS
    <2> HIDE DEF o
    <2>2. /\ BitsOf(o) \in Seq(Bit) /\ Len(BitsOf(o)) = ByteBits * Len(o)
          /\ \A q \in 0 .. Len(o) - 1, r \in 0 .. ByteBits - 1 :
               BitsOf(o)[q * ByteBits + r + 1] = o[q + 1][r]
      BY <2>1, BitsOfType
    <2>3. 0 \in 0 .. Len(o) - 1 /\ ByteBits * Len(o) = ByteBits
          /\ \A r \in 0 .. ByteBits - 1 : 0 * ByteBits + r + 1 = r + 1
      BY <2>1, Widths
    <2>4. \A r \in 0 .. ByteBits - 1 : BitsOf(o)[0 * ByteBits + r + 1] = o[0 + 1][r]
      BY <2>2, <2>3
    <2> QED BY <2>1, <2>2, <2>3, <2>4 DEF o
  <1>2. /\ t \in Seq(Bit) /\ Len(t) = ByteBits
        /\ \A k \in 1 .. ByteBits : t[k] = c[k - 1]
    BY ByteBitsType
  <1> HIDE DEF s, t
  <1>3. ASSUME NEW k \in 1 .. Len(s) PROVE s[k] = t[k]
    <2>1. k - 1 \in 0 .. ByteBits - 1 /\ (k - 1) + 1 = k
      BY <1>1, Widths
    <2> QED BY <1>1, <1>2, <2>1
  <1>4. s = t
    BY <1>1, <1>2, <1>3, SeqEqual
  <1> QED BY <1>4 DEF s, t

\* No bytes have no bits.
LEMMA BitsOfNone == BitsOf(<< >>) = << >>
  <1> DEFINE e == << >>
  <1>1. e \in Seq(Byte) /\ Len(e) = 0
    OBVIOUS
  <1> HIDE DEF e
  <1>2. BitsOf(e) \in Seq(Bit) /\ Len(BitsOf(e)) = ByteBits * Len(e)
    BY <1>1, BitsOfType
  <1>3. ByteBits * Len(e) = 0
    BY <1>1, Widths
  <1>4. BitsOf(e) = << >>
    BY <1>2, <1>3, EmptySeq
  <1> QED BY <1>4 DEF e

-----------------------------------------------------------------------------
(* The bits of a sequence of codes                                         *)

\* f[k] is the length of the first k codes.
SumsUp(cs, n, f) ==
    /\ f \in [0 .. n -> Nat] /\ f[0] = 0
    /\ \A k \in 1 .. n : f[k] = f[k - 1] + Len(cs[k])

\* There is such a function, up to any code.
LEMMA SumExists ==
    ASSUME NEW cs \in Seq(Codes), NEW n \in 0 .. Len(cs)
    PROVE  \E f : SumsUp(cs, n, f)
  <1> DEFINE T == {m \in 0 .. Len(cs) : \A f : ~SumsUp(cs, m, f)}
  <1>1. SUFFICES ASSUME T # {} PROVE FALSE
    OBVIOUS
  <1>2. T \subseteq Nat
    OBVIOUS
  <1>3. PICK m \in T : \A l \in T : m <= l
    BY <1>1, <1>2, Least
  <1>4. m \in 0 .. Len(cs) /\ \A f : ~SumsUp(cs, m, f)
    OBVIOUS
  <1>5. m # 0
    <2>1. SUFFICES ASSUME m = 0 PROVE FALSE
      OBVIOUS
    <2>2. SumsUp(cs, 0, [k \in 0 .. 0 |-> 0])
      BY DEF SumsUp
    <2> QED BY <1>4, <2>1, <2>2
  <1>6. m - 1 \in 0 .. Len(cs) /\ m - 1 \notin T
    BY <1>3, <1>4, <1>5
  <1>7. PICK f : SumsUp(cs, m - 1, f)
    BY <1>6
  <1>8. Len(cs[m]) \in Nat
    BY <1>4, <1>5 DEF Codes
  <1> DEFINE g == [k \in 0 .. m |-> IF k = m THEN f[m - 1] + Len(cs[m]) ELSE f[k]]
  <1>9. f \in [0 .. m - 1 -> Nat] /\ f[0] = 0
        /\ \A k \in 1 .. m - 1 : f[k] = f[k - 1] + Len(cs[k])
    BY <1>7 DEF SumsUp
  <1>10. /\ \A k \in 0 .. m : g[k] = IF k = m THEN f[m - 1] + Len(cs[m]) ELSE f[k]
         /\ DOMAIN g = 0 .. m
    OBVIOUS
  <1>11. g \in [0 .. m -> Nat] /\ g[0] = 0
    BY <1>4, <1>5, <1>8, <1>9
  <1> HIDE DEF g, T
  <1>12. ASSUME NEW k \in 1 .. m PROVE g[k] = g[k - 1] + Len(cs[k])
    <2>1. m \in Nat /\ k - 1 \in 0 .. m /\ k \in 0 .. m /\ k - 1 # m
      BY <1>4
    <2>2. g[k - 1] = f[k - 1]
      BY <1>10, <2>1
    <2>3. CASE k = m
      BY <1>10, <2>1, <2>2, <2>3
    <2>4. CASE k # m
      <3>1. k \in 1 .. m - 1
        BY <2>1, <2>4
      <3> QED BY <1>9, <1>10, <2>1, <2>2, <2>4, <3>1
    <2> QED BY <2>3, <2>4
  <1>13. SumsUp(cs, m, g)
    BY <1>11, <1>12 DEF SumsUp
  <1> QED BY <1>4, <1>13

\* BitLength is its last value.
LEMMA LengthIsSum ==
    ASSUME NEW cs \in Seq(Codes)
    PROVE  \E f : SumsUp(cs, Len(cs), f) /\ BitLength(cs) = f[Len(cs)]
  <1> DEFINE F(f) == [k \in 0 .. Len(cs) |-> IF k = 0 THEN 0 ELSE f[k - 1] + Len(cs[k])]
             sum == CHOOSE f : f = F(f)
  <1>1. PICK f : SumsUp(cs, Len(cs), f)
    BY SumExists
  <1>2. f = F(f)
    BY <1>1 DEF SumsUp
  <1>3. sum = F(sum)
    BY <1>2
  <1>4. BitLength(cs) = sum[Len(cs)]
    BY DEF BitLength
  <1> HIDE DEF sum
  <1>5. /\ DOMAIN sum = 0 .. Len(cs) /\ sum[0] = 0
        /\ \A k \in 1 .. Len(cs) : sum[k] = sum[k - 1] + Len(cs[k])
    BY <1>3
  <1>6. sum \in [0 .. Len(cs) -> Nat]
    <2> DEFINE T == {k \in 0 .. Len(cs) : sum[k] \notin Nat}
    <2>1. T = {}
      <3>1. SUFFICES ASSUME T # {} PROVE FALSE
        OBVIOUS
      <3>2. T \subseteq Nat
        OBVIOUS
      <3>3. PICK m \in T : \A l \in T : m <= l
        BY <3>1, <3>2, Least
      <3>4. m \in 0 .. Len(cs) /\ sum[m] \notin Nat
        OBVIOUS
      <3>5. m # 0
        BY <1>5, <3>4
      <3>6. m - 1 \in 0 .. Len(cs) /\ m - 1 \notin T
        BY <3>3, <3>4, <3>5
      <3>7. sum[m - 1] \in Nat
        BY <3>6
      <3>8. Len(cs[m]) \in Nat /\ m \in 1 .. Len(cs)
        BY <3>4, <3>5 DEF Codes
      <3> QED BY <1>5, <3>4, <3>7, <3>8
    <2>2. \A k \in 0 .. Len(cs) : sum[k] \in Nat
      BY <2>1
    <2> QED BY <1>3, <2>2
  <1>7. SumsUp(cs, Len(cs), sum)
    BY <1>5, <1>6 DEF SumsUp
  <1> QED BY <1>4, <1>7

\* No codes have no bits.
LEMMA LengthOfNone == BitLength(<< >>) = 0
  <1> DEFINE e == << >>
  <1>1. e \in Seq(Codes) /\ Len(e) = 0
    OBVIOUS
  <1> HIDE DEF e
  <1>2. PICK f : SumsUp(e, Len(e), f) /\ BitLength(e) = f[Len(e)]
    BY <1>1, LengthIsSum
  <1> QED BY <1>1, <1>2 DEF SumsUp, e

\* BitLength is a natural number.
LEMMA LengthType ==
    ASSUME NEW cs \in Seq(Codes)
    PROVE  BitLength(cs) \in Nat
  <1>1. PICK f : SumsUp(cs, Len(cs), f) /\ BitLength(cs) = f[Len(cs)]
    BY LengthIsSum
  <1>2. Len(cs) \in 0 .. Len(cs)
    OBVIOUS
  <1> QED BY <1>1, <1>2 DEF SumsUp

\* Sending a code leaves the bits of the others.
LEMMA LengthOfTail ==
    ASSUME NEW cs \in Seq(Codes), cs # << >>
    PROVE  BitLength(cs) = Len(Head(cs)) + BitLength(Tail(cs))
  <1> DEFINE tl == Tail(cs)
             n == Len(cs)
  <1>1. tl \in Seq(Codes) /\ Len(tl) = n - 1 /\ n \in Nat \ {0} /\ Head(cs) = cs[1]
        /\ \A k \in 1 .. n - 1 : tl[k] = cs[k + 1]
    <2>1. n \in Nat \ {0}
      BY EmptySeq
    <2> QED BY <2>1, HeadTailProperties
  <1> HIDE DEF tl, n
  <1>2. PICK f : SumsUp(cs, n, f) /\ BitLength(cs) = f[n]
    BY LengthIsSum DEF n
  <1>3. PICK g : SumsUp(tl, n - 1, g) /\ BitLength(tl) = g[n - 1]
    BY <1>1, LengthIsSum
  <1>4. f \in [0 .. n -> Nat] /\ f[0] = 0 /\ \A k \in 1 .. n : f[k] = f[k - 1] + Len(cs[k])
    BY <1>2 DEF SumsUp
  <1>5. /\ g \in [0 .. n - 1 -> Nat] /\ g[0] = 0
        /\ \A k \in 1 .. n - 1 : g[k] = g[k - 1] + Len(tl[k])
    BY <1>3 DEF SumsUp
  <1>6. Len(cs[1]) \in Nat /\ \A k \in 1 .. n : cs[k] \in Codes /\ Len(cs[k]) \in Nat
    BY <1>1 DEF n, Codes
  <1> DEFINE T == {k \in 0 .. n - 1 : f[k + 1] # Len(cs[1]) + g[k]}
  <1>7. T = {}
    <2>1. SUFFICES ASSUME T # {} PROVE FALSE
      OBVIOUS
    <2>2. T \subseteq Nat
      BY <1>1
    <2>3. PICK m \in T : \A l \in T : m <= l
      BY <2>1, <2>2, Least
    <2>4. m \in 0 .. n - 1 /\ f[m + 1] # Len(cs[1]) + g[m]
      OBVIOUS
    <2>5. m # 0
      <3>1. SUFFICES ASSUME m = 0 PROVE FALSE
        OBVIOUS
      <3>2. 1 \in 1 .. n /\ 1 - 1 = 0
        BY <1>1
      <3>3. f[1] = f[0] + Len(cs[1])
        BY <1>4, <3>2
      <3> QED BY <1>4, <1>5, <1>6, <2>4, <3>1, <3>3
    <2>6. m - 1 \in 0 .. n - 1 /\ m - 1 \notin T
      BY <1>1, <2>3, <2>4, <2>5
    <2>7. f[m] = Len(cs[1]) + g[m - 1]
      BY <2>4, <2>6
    <2>8. m \in 1 .. n - 1 /\ m + 1 \in 1 .. n /\ m \in 0 .. n /\ m + 1 - 1 = m
      BY <1>1, <2>4, <2>5
    <2>9. f[m + 1] = f[m] + Len(cs[m + 1]) /\ g[m] = g[m - 1] + Len(cs[m + 1])
      <3>1. f[m + 1] = f[m + 1 - 1] + Len(cs[m + 1])
        BY <1>4, <2>8
      <3>2. g[m] = g[m - 1] + Len(tl[m]) /\ tl[m] = cs[m + 1]
        BY <1>1, <1>5, <2>8
      <3> QED BY <2>8, <3>1, <3>2
    <2>10. g[m - 1] \in Nat /\ Len(cs[m + 1]) \in Nat
      BY <1>5, <1>6, <2>6, <2>8
    <2> QED BY <1>6, <2>4, <2>7, <2>9, <2>10
  <1>8. n - 1 \in 0 .. n - 1 /\ n - 1 + 1 = n
    BY <1>1
  <1>9. f[n] = Len(cs[1]) + g[n - 1]
    BY <1>7, <1>8
  <1> QED BY <1>1, <1>2, <1>3, <1>9 DEF tl

-----------------------------------------------------------------------------
(* What the operations of the output do                                    *)

Output == [bi_buf : Short, bi_valid : 0 .. Buf_size, outbuf : Seq(Byte), vector : Seq(Byte)]
BytesOf(o) == o.vector \o o.outbuf
Held(o) == BitsOf(BytesOf(o)) \o Bits(o.bi_buf, o.bi_valid)
Clear(o) == \A k \in o.bi_valid .. Buf_size - 1 : o.bi_buf[k] = 0
SameBits(p, o) == p.bi_buf = o.bi_buf /\ p.bi_valid = o.bi_valid

\* Emptying outbuf moves its bytes to the vector.
LEMMA FlushKeeps ==
    ASSUME NEW o \in Output
    PROVE  LET p == flush_outbuf(o)
           IN  p \in Output /\ SameBits(p, o) /\ p.vector = BytesOf(o) /\ BytesOf(p) = BytesOf(o)
  <1> DEFINE p == flush_outbuf(o)
  <1>1. /\ o.vector \in Seq(Byte) /\ o.outbuf \in Seq(Byte)
        /\ o.vector \o o.outbuf \in Seq(Byte) /\ << >> \in Seq(Byte)
    BY ConcatProperties DEF Output
  <1>2. p = [o EXCEPT !.vector = o.vector \o o.outbuf, !.outbuf = << >>]
    BY DEF flush_outbuf
  <1>3. p \in Output /\ SameBits(p, o) /\ p.vector = BytesOf(o) /\ p.outbuf = << >>
    BY <1>1, <1>2 DEF Output, SameBits, BytesOf
  <1>4. BytesOf(p) = BytesOf(o)
    BY <1>1, <1>3, ConcatEmptySeq DEF BytesOf
  <1> QED BY <1>3, <1>4

\* Wherever outbuf fills, put_byte adds its byte to what is written.
LEMMA PutByte ==
    ASSUME NEW o \in Output, NEW c \in Byte
    PROVE  LET p == put_byte(o, c)
           IN  /\ p \in Output /\ SameBits(p, o)
               /\ BytesOf(p) = BytesOf(o) \o <<c>>
               /\ BitsOf(BytesOf(p)) = BitsOf(BytesOf(o)) \o Bits(c, ByteBits)
  <1> DEFINE q == [o EXCEPT !.outbuf = Append(@, c)]
             p == put_byte(o, c)
             one == <<c>>
  <1>1. o.vector \in Seq(Byte) /\ o.outbuf \in Seq(Byte) /\ one \in Seq(Byte)
    BY DEF Output
  <1>2. Append(o.outbuf, c) = o.outbuf \o one /\ Append(o.outbuf, c) \in Seq(Byte)
    BY <1>1, AppendIsConcat, AppendProperties
  <1>3. q \in Output /\ SameBits(q, o) /\ q.vector = o.vector /\ q.outbuf = o.outbuf \o one
    BY <1>2 DEF Output, SameBits
  <1>4. p = IF Len(q.outbuf) = OUTBUFSIZ THEN flush_outbuf(q) ELSE q
    BY DEF put_byte
  <1>5. BitsOf(one) = Bits(c, ByteBits)
    BY BitsOfOne
  <1> HIDE DEF q, p, one
  <1>6. p \in Output /\ SameBits(p, q) /\ BytesOf(p) = BytesOf(q)
    BY <1>3, <1>4, FlushKeeps DEF SameBits
  <1>7. BytesOf(q) = BytesOf(o) \o one
    <2> DEFINE v == o.vector
               u == o.outbuf
    <2>1. v \in Seq(Byte) /\ u \in Seq(Byte)
      BY <1>1
    <2>2. BytesOf(q) = v \o (u \o one) /\ BytesOf(o) = v \o u
      BY <1>3 DEF BytesOf
    <2> HIDE DEF v, u
    <2>3. (v \o u) \o one = v \o (u \o one)
      BY <1>1, <2>1, ConcatAssociative
    <2> QED BY <2>2, <2>3
  <1>8. BytesOf(o) \in Seq(Byte)
    BY <1>1, ConcatProperties DEF BytesOf
  <1>9. BitsOf(BytesOf(o) \o one) = BitsOf(BytesOf(o)) \o BitsOf(one)
    BY <1>1, <1>8, BitsOfConcat
  <1> QED BY <1>3, <1>5, <1>6, <1>7, <1>9 DEF SameBits, p, one

\* The two bytes of a short have its bits, the low byte first.
LEMMA LowHigh ==
    ASSUME NEW w \in Short
    PROVE  /\ Low(w) \in Byte /\ High(w) \in Byte
           /\ Bits(Low(w), ByteBits) \o Bits(High(w), ByteBits) = Bits(w, Buf_size)
  <1>1. \A k \in 0 .. ByteBits - 1 : w[k] \in Bit /\ w[k + ByteBits] \in Bit
    <2>1. \A k \in 0 .. ByteBits - 1 : k \in 0 .. Buf_size - 1 /\ k + ByteBits \in 0 .. Buf_size - 1
      BY Widths
    <2> QED BY <2>1 DEF Short
  <1>2. Low(w) \in Byte /\ High(w) \in Byte
    BY <1>1 DEF Byte, Low, High
  <1> DEFINE l == Low(w)
             h == High(w)
             x == Bits(l, ByteBits)
             y == Bits(h, ByteBits)
             s == x \o y
             t == Bits(w, Buf_size)
  <1>3. \A k \in 0 .. ByteBits - 1 : l[k] = w[k] /\ h[k] = w[k + ByteBits]
    BY DEF Low, High
  <1> HIDE DEF l, h
  <1>4. /\ x \in Seq(Bit) /\ y \in Seq(Bit) /\ Len(x) = ByteBits /\ Len(y) = ByteBits
        /\ \A k \in 1 .. ByteBits : x[k] = l[k - 1] /\ y[k] = h[k - 1]
    BY <1>2, ByteBitsType DEF l, h
  <1>5. t \in Seq(Bit) /\ Len(t) = Buf_size /\ \A k \in 1 .. Buf_size : t[k] = w[k - 1]
    BY BitsType, Widths
  <1> HIDE DEF x, y, t
  <1>6. /\ s \in Seq(Bit) /\ Len(s) = Len(x) + Len(y)
        /\ \A k \in 1 .. Len(x) + Len(y) : s[k] = IF k <= Len(x) THEN x[k] ELSE y[k - Len(x)]
    BY <1>4, ConcatProperties
  <1> HIDE DEF s
  <1>7. /\ s \in Seq(Bit) /\ Len(s) = ByteBits + ByteBits
        /\ \A k \in 1 .. ByteBits + ByteBits :
             s[k] = IF k <= ByteBits THEN x[k] ELSE y[k - ByteBits]
    BY <1>4, <1>6
  <1>8. ASSUME NEW k \in 1 .. Len(s) PROVE s[k] = t[k]
    <2>1. k \in 1 .. Buf_size /\ k \in 1 .. ByteBits + ByteBits
      BY <1>7, Widths
    <2>2. CASE k <= ByteBits
      <3>1. k \in 1 .. ByteBits /\ k - 1 \in 0 .. ByteBits - 1
        BY <2>1, <2>2, Widths
      <3> QED BY <1>3, <1>4, <1>5, <1>7, <2>1, <2>2, <3>1
    <2>3. CASE ~(k <= ByteBits)
      <3>1. /\ k - ByteBits \in 1 .. ByteBits /\ k - ByteBits - 1 \in 0 .. ByteBits - 1
            /\ k - ByteBits - 1 + ByteBits = k - 1
        BY <2>1, <2>3, Widths
      <3>2. s[k] = y[k - ByteBits]
        BY <1>7, <2>1, <2>3
      <3>3. y[k - ByteBits] = h[k - ByteBits - 1]
        BY <1>4, <3>1
      <3>4. h[k - ByteBits - 1] = w[k - 1]
        BY <1>3, <3>1
      <3> QED BY <1>5, <2>1, <3>2, <3>3, <3>4
    <2> QED BY <2>2, <2>3
  <1>9. Len(s) = Len(t)
    BY <1>5, <1>7, Widths
  <1>10. s = t
    BY <1>5, <1>7, <1>8, <1>9, SeqEqual
  <1> QED BY <1>2, <1>10 DEF s, t, x, y, l, h

\* The bits in outbuf and the vector.
LEMMA BitsOfBytes ==
    ASSUME NEW o \in Output
    PROVE  BytesOf(o) \in Seq(Byte) /\ BitsOf(BytesOf(o)) \in Seq(Bit)
           /\ Len(BitsOf(BytesOf(o))) = ByteBits * Len(BytesOf(o))
  <1>1. o.vector \in Seq(Byte) /\ o.outbuf \in Seq(Byte)
    BY DEF Output
  <1>2. BytesOf(o) \in Seq(Byte)
    BY <1>1, ConcatProperties DEF BytesOf
  <1> QED BY <1>2, BitsOfType

\* put_short adds the bits of its value to what is written.
LEMMA PutShort ==
    ASSUME NEW o \in Output, NEW w \in Short
    PROVE  LET p == put_short(o, w)
           IN  /\ p \in Output /\ SameBits(p, o)
               /\ BitsOf(BytesOf(p)) = BitsOf(BytesOf(o)) \o Bits(w, Buf_size)
  <1> DEFINE l == Low(w)
             h == High(w)
             q == put_byte(o, l)
             p == put_byte(q, h)
             x == Bits(l, ByteBits)
             y == Bits(h, ByteBits)
             b == BitsOf(BytesOf(o))
  <1>1. l \in Byte /\ h \in Byte /\ x \o y = Bits(w, Buf_size)
    BY LowHigh
  <1>2. p = put_short(o, w)
    BY DEF put_short
  <1>3. x \in Seq(Bit) /\ y \in Seq(Bit) /\ b \in Seq(Bit)
    BY <1>1, ByteBitsType, BitsOfBytes
  <1> HIDE DEF l, h
  <1>4. q \in Output /\ SameBits(q, o) /\ BitsOf(BytesOf(q)) = b \o x
    BY <1>1, PutByte
  <1> HIDE DEF q, b
  <1>5. p \in Output /\ SameBits(p, q) /\ BitsOf(BytesOf(p)) = BitsOf(BytesOf(q)) \o y
    BY <1>1, <1>4, PutByte
  <1> HIDE DEF p, x, y
  <1>6. (b \o x) \o y = b \o (x \o y)
    BY <1>3, ConcatAssociative
  <1> QED BY <1>1, <1>2, <1>4, <1>5, <1>6 DEF SameBits, b

\* The value of a code has its bits, and zeros above them.
LEMMA ValueBits ==
    ASSUME NEW code \in Codes
    PROVE  /\ Value(code) \in Short
           /\ \A k \in 0 .. Buf_size - 1 :
                Value(code)[k] = IF k < Len(code) THEN code[k + 1] ELSE 0
           /\ Len(code) \in 0 .. Buf_size /\ code \in Seq(Bit)
  <1>1. Len(code) \in 0 .. Buf_size /\ code \in Seq(Bit)
    BY Widths DEF Codes
  <1>2. \A k \in 0 .. Buf_size - 1 : (IF k < Len(code) THEN code[k + 1] ELSE 0) \in Bit
    <2>1. ASSUME NEW k \in 0 .. Buf_size - 1, k < Len(code) PROVE code[k + 1] \in Bit
      <3>1. k + 1 \in 1 .. Len(code)
        BY <1>1, <2>1, Widths
      <3> QED BY <1>1, <3>1
    <2> QED BY <2>1 DEF Bit
  <1>3. Value(code) \in Short
    BY <1>2 DEF Value, Short
  <1> QED BY <1>1, <1>3 DEF Value

\* The code shifted to the first free place.
LEMMA BothBits ==
    ASSUME NEW b \in Short, NEW v \in 0 .. Buf_size, NEW code \in Codes,
           \A k \in v .. Buf_size - 1 : b[k] = 0
    PROVE  LET both == Or(b, Left(Value(code), v))
           IN  /\ both \in Short
               /\ \A k \in 0 .. Buf_size - 1 :
                    both[k] = IF k < v THEN b[k]
                              ELSE IF k - v < Len(code) THEN code[k - v + 1] ELSE 0
  <1> DEFINE w == Value(code)
             l == Left(w, v)
             both == Or(b, l)
  <1>1. /\ w \in Short
        /\ \A k \in 0 .. Buf_size - 1 : w[k] = IF k < Len(code) THEN code[k + 1] ELSE 0
    BY ValueBits
  <1>2. \A k \in 0 .. Buf_size - 1 : l[k] = IF k < v THEN 0 ELSE w[k - v]
    BY DEF Left
  <1>3. \A k \in 0 .. Buf_size - 1 : both[k] = IF b[k] = 1 \/ l[k] = 1 THEN 1 ELSE 0
    BY DEF Or
  <1>4. both \in Short
    BY DEF Or, Short, Bit
  <1> HIDE DEF w, l, both
  <1>5. ASSUME NEW k \in 0 .. Buf_size - 1
        PROVE  both[k] = IF k < v THEN b[k]
                         ELSE IF k - v < Len(code) THEN code[k - v + 1] ELSE 0
    <2>1. b[k] \in {0, 1}
      BY DEF Short, Bit
    <2>2. CASE k < v
      BY <1>2, <1>3, <2>1, <2>2
    <2>3. CASE ~(k < v)
      <3>1. k - v \in 0 .. Buf_size - 1 /\ k \in v .. Buf_size - 1
        BY <2>3, Widths
      <3>2. w[k - v] \in {0, 1}
        BY <1>1, <3>1 DEF Short, Bit
      <3>3. b[k] = 0
        BY <3>1
      <3>4. both[k] = w[k - v]
        BY <1>2, <1>3, <2>3, <3>2, <3>3
      <3>5. w[k - v] = IF k - v < Len(code) THEN code[k - v + 1] ELSE 0
        BY <1>1, <3>1
      <3> QED BY <2>3, <3>4, <3>5
    <2> QED BY <2>2, <2>3
  <1> QED BY <1>4, <1>5 DEF w, l, both

\* A code that fits follows the bits in the buffer, and what is above is zero.
LEMMA CodeFits ==
    ASSUME NEW b \in Short, NEW v \in 0 .. Buf_size, NEW code \in Codes,
           \A k \in v .. Buf_size - 1 : b[k] = 0, v <= Buf_size - Len(code)
    PROVE  LET both == Or(b, Left(Value(code), v))
           IN  /\ both \in Short
               /\ Bits(both, v + Len(code)) = Bits(b, v) \o code
               /\ \A k \in v + Len(code) .. Buf_size - 1 : both[k] = 0
  <1> DEFINE both == Or(b, Left(Value(code), v))
             n == v + Len(code)
             s == Bits(both, n)
             x == Bits(b, v)
             t == x \o code
  <1>1. /\ both \in Short
        /\ \A k \in 0 .. Buf_size - 1 :
             both[k] = IF k < v THEN b[k]
                       ELSE IF k - v < Len(code) THEN code[k - v + 1] ELSE 0
    BY BothBits
  <1> HIDE DEF both
  <1>2. Len(code) \in 0 .. Buf_size /\ code \in Seq(Bit) /\ n \in 0 .. Buf_size /\ v \in Nat
    BY ValueBits, Widths
  <1>3. \A k \in n .. Buf_size - 1 : both[k] = 0
    <2>1. ASSUME NEW k \in n .. Buf_size - 1
          PROVE  k \in 0 .. Buf_size - 1 /\ ~(k < v) /\ ~(k - v < Len(code))
      BY <1>2, Widths
    <2> QED BY <1>1, <2>1
  <1>4. s \in Seq(Bit) /\ Len(s) = n /\ \A k \in 1 .. n : s[k] = both[k - 1]
    BY <1>1, <1>2, BitsType
  <1>5. x \in Seq(Bit) /\ Len(x) = v /\ \A k \in 1 .. v : x[k] = b[k - 1]
    BY BitsType
  <1> HIDE DEF s, x
  <1>6. /\ t \in Seq(Bit) /\ Len(t) = Len(x) + Len(code)
        /\ \A k \in 1 .. Len(x) + Len(code) : t[k] = IF k <= Len(x) THEN x[k] ELSE code[k - Len(x)]
    BY <1>2, <1>5, ConcatProperties
  <1> HIDE DEF t
  <1>7. ASSUME NEW k \in 1 .. Len(s) PROVE s[k] = t[k]
    <2>1. k \in 1 .. n /\ k - 1 \in 0 .. Buf_size - 1 /\ k \in Nat /\ Len(s) = n
      BY <1>2, <1>4, Widths
    <2>2. s[k] = both[k - 1]
      BY <1>4, <2>1
    <2>3. CASE k <= v
      <3>1. k \in 1 .. v /\ k - 1 < v
        BY <1>2, <2>1, <2>3
      <3>2. t[k] = x[k]
        BY <1>2, <1>5, <1>6, <2>1, <2>3
      <3>3. both[k - 1] = b[k - 1]
        BY <1>1, <2>1, <3>1
      <3> QED BY <1>5, <2>2, <3>1, <3>2, <3>3
    <2>4. CASE ~(k <= v)
      <3>1. ~(k - 1 < v) /\ k - 1 - v < Len(code) /\ k - 1 - v + 1 = k - v
        BY <1>2, <2>1, <2>4
      <3>2. t[k] = code[k - v]
        BY <1>2, <1>5, <1>6, <2>1, <2>4
      <3>3. both[k - 1] = code[k - 1 - v + 1]
        BY <1>1, <2>1, <3>1
      <3> QED BY <2>2, <3>1, <3>2, <3>3
    <2> QED BY <2>3, <2>4
  <1>8. Len(s) = Len(t)
    BY <1>4, <1>5, <1>6
  <1>9. s = t
    BY <1>4, <1>6, <1>7, <1>8, SeqEqual
  <1> QED BY <1>1, <1>3, <1>9 DEF both, s, t, x

\* What does not fit is kept for the next bytes.
LEMMA CodeDivided ==
    ASSUME NEW b \in Short, NEW v \in 0 .. Buf_size, NEW code \in Codes,
           \A k \in v .. Buf_size - 1 : b[k] = 0, v > Buf_size - Len(code)
    PROVE  LET both == Or(b, Left(Value(code), v))
               over == Right(Value(code), Buf_size - v)
               n == v + Len(code) - Buf_size
           IN  /\ both \in Short /\ over \in Short /\ n \in 0 .. Buf_size
               /\ Bits(both, Buf_size) \o Bits(over, n) = Bits(b, v) \o code
               /\ \A k \in n .. Buf_size - 1 : over[k] = 0
  <1> DEFINE both == Or(b, Left(Value(code), v))
             w == Value(code)
             over == Right(w, Buf_size - v)
             n == v + Len(code) - Buf_size
             y == Bits(both, Buf_size)
             z == Bits(over, n)
             s == y \o z
             x == Bits(b, v)
             t == x \o code
  <1>1. /\ both \in Short
        /\ \A k \in 0 .. Buf_size - 1 :
             both[k] = IF k < v THEN b[k]
                       ELSE IF k - v < Len(code) THEN code[k - v + 1] ELSE 0
    BY BothBits
  <1> HIDE DEF both
  <1>2. Len(code) \in 0 .. Buf_size /\ code \in Seq(Bit) /\ n \in 0 .. Buf_size /\ v \in Nat
        /\ Len(code) \in Nat /\ Buf_size \in Nat
    BY ValueBits, Widths
  <1>3. /\ w \in Short
        /\ \A k \in 0 .. Buf_size - 1 : w[k] = IF k < Len(code) THEN code[k + 1] ELSE 0
    BY ValueBits
  <1>4. \A k \in 0 .. Buf_size - 1 :
          over[k] = IF k + (Buf_size - v) < Buf_size THEN w[k + (Buf_size - v)] ELSE 0
    BY DEF Right
  <1> HIDE DEF w
  <1>5. \A k \in 0 .. Buf_size - 1 : over[k] = IF k < n THEN code[k + (Buf_size - v) + 1] ELSE 0
    <2> SUFFICES ASSUME NEW k \in 0 .. Buf_size - 1
                 PROVE  over[k] = IF k < n THEN code[k + (Buf_size - v) + 1] ELSE 0
      OBVIOUS
    <2>1. CASE k + (Buf_size - v) < Buf_size
      <3>1. k + (Buf_size - v) \in 0 .. Buf_size - 1
        BY <1>2, <2>1
      <3>2. k < n <=> k + (Buf_size - v) < Len(code)
        BY <1>2
      <3> HIDE DEF over, n
      <3> QED BY <1>3, <1>4, <2>1, <3>1, <3>2
    <2>2. CASE ~(k + (Buf_size - v) < Buf_size)
      <3>1. ~(k < n)
        BY <1>2, <2>2
      <3> HIDE DEF over, n
      <3> QED BY <1>4, <2>2, <3>1
    <2> QED BY <2>1, <2>2
  <1>6. over \in Short
    <2>1. \A k \in 0 .. Buf_size - 1 :
            (IF k + (Buf_size - v) < Buf_size THEN w[k + (Buf_size - v)] ELSE 0) \in Bit
      <3>1. ASSUME NEW k \in 0 .. Buf_size - 1, k + (Buf_size - v) < Buf_size
            PROVE  w[k + (Buf_size - v)] \in Bit
        <4>1. k + (Buf_size - v) \in 0 .. Buf_size - 1
          BY <1>2, <3>1
        <4> QED BY <1>3, <4>1 DEF Short
      <3> QED BY <3>1 DEF Bit
    <2> QED BY <2>1 DEF Right, Short
  <1> HIDE DEF over
  <1>7. \A k \in n .. Buf_size - 1 : over[k] = 0
    <2>1. ASSUME NEW k \in n .. Buf_size - 1 PROVE k \in 0 .. Buf_size - 1 /\ ~(k < n)
      BY <1>2
    <2> QED BY <1>5, <2>1
  <1>8. y \in Seq(Bit) /\ Len(y) = Buf_size /\ \A k \in 1 .. Buf_size : y[k] = both[k - 1]
    BY <1>1, BitsType, Widths
  <1>9. z \in Seq(Bit) /\ Len(z) = n /\ \A k \in 1 .. n : z[k] = over[k - 1]
    BY <1>2, <1>6, BitsType
  <1>10. x \in Seq(Bit) /\ Len(x) = v /\ \A k \in 1 .. v : x[k] = b[k - 1]
    BY BitsType
  <1> HIDE DEF x, y, z
  <1>11. /\ t \in Seq(Bit) /\ Len(t) = Len(x) + Len(code)
         /\ \A k \in 1 .. Len(x) + Len(code) : t[k] = IF k <= Len(x) THEN x[k] ELSE code[k - Len(x)]
    BY <1>2, <1>10, ConcatProperties
  <1>12. /\ s \in Seq(Bit) /\ Len(s) = Len(y) + Len(z)
         /\ \A k \in 1 .. Len(y) + Len(z) : s[k] = IF k <= Len(y) THEN y[k] ELSE z[k - Len(y)]
    BY <1>8, <1>9, ConcatProperties
  <1> HIDE DEF s, t
  <1>13. Len(s) = v + Len(code) /\ Len(t) = v + Len(code)
    BY <1>2, <1>8, <1>9, <1>10, <1>11, <1>12
  <1>14. ASSUME NEW k \in 1 .. v + Len(code) PROVE t[k] = IF k <= v THEN b[k - 1] ELSE code[k - v]
    <2>1. k <= v => k \in 1 .. v
      BY <1>2
    <2>2. k \in 1 .. Len(x) + Len(code)
      BY <1>10
    <2> QED BY <1>10, <1>11, <2>1, <2>2
  <1>15. ASSUME NEW k \in 1 .. v + Len(code) PROVE s[k] = IF k <= v THEN b[k - 1] ELSE code[k - v]
    <2>1. k \in 1 .. Len(y) + Len(z) /\ k \in Nat
      BY <1>2, <1>8, <1>9
    <2>2. CASE k <= Buf_size
      <3>1. k \in 1 .. Buf_size /\ k - 1 \in 0 .. Buf_size - 1
        BY <1>2, <2>1, <2>2
      <3>2. s[k] = both[k - 1]
        BY <1>8, <1>12, <2>1, <2>2, <3>1
      <3>3. k <= v <=> k - 1 < v
        BY <1>2, <2>1
      <3>4. k - 1 - v < Len(code) /\ k - 1 - v + 1 = k - v
        BY <1>2, <2>1
      <3> QED BY <1>1, <3>1, <3>2, <3>3, <3>4
    <2>3. CASE ~(k <= Buf_size)
      <3>1. k - Buf_size \in 1 .. n /\ ~(k <= v) /\ k - Buf_size - 1 \in 0 .. Buf_size - 1
            /\ k - Buf_size - 1 < n
            /\ k - Buf_size - 1 + (Buf_size - v) + 1 = k - v
        BY <1>2, <2>1, <2>3
      <3>2. s[k] = z[k - Buf_size]
        BY <1>8, <1>12, <2>1, <2>3
      <3>3. z[k - Buf_size] = over[k - Buf_size - 1]
        BY <1>9, <3>1
      <3>4. over[k - Buf_size - 1] = code[k - Buf_size - 1 + (Buf_size - v) + 1]
        BY <1>5, <3>1
      <3> QED BY <3>1, <3>2, <3>3, <3>4
    <2> QED BY <2>2, <2>3
  <1>16. s = t
    BY <1>11, <1>12, <1>13, <1>14, <1>15, SeqEqual
  <1> QED BY <1>1, <1>2, <1>6, <1>7, <1>16 DEF both, over, w, s, t, x, y, z

\* send_bits adds the bits of its code to what is held, wherever the buffers fill.
LEMMA SendBits ==
    ASSUME NEW o \in Output, Clear(o), NEW code \in Codes
    PROVE  LET p == send_bits(o, code)
           IN  p \in Output /\ Clear(p) /\ Held(p) = Held(o) \o code
  <1> DEFINE b == o.bi_buf
             v == o.bi_valid
             both == Or(b, Left(Value(code), v))
             over == Right(Value(code), Buf_size - v)
             p == send_bits(o, code)
             bits == BitsOf(BytesOf(o))
  <1>1. b \in Short /\ v \in 0 .. Buf_size /\ \A k \in v .. Buf_size - 1 : b[k] = 0
    BY DEF Output, Clear
  <1>2. Len(code) \in 0 .. Buf_size /\ code \in Seq(Bit)
    BY ValueBits
  <1>3. p = IF v > Buf_size - Len(code)
            THEN [put_short(o, both) EXCEPT !.bi_buf = over, !.bi_valid = @ + Len(code) - Buf_size]
            ELSE [o EXCEPT !.bi_buf = both, !.bi_valid = @ + Len(code)]
    BY DEF send_bits
  <1>4. bits \in Seq(Bit)
    BY BitsOfBytes
  <1>5. Bits(b, v) \in Seq(Bit) /\ Held(o) = bits \o Bits(b, v)
    BY <1>1, BitsType DEF Held
  <1> HIDE DEF p, both, over
  <1>6. CASE v <= Buf_size - Len(code)
    <2> DEFINE n == v + Len(code)
    <2>1. both \in Short /\ Bits(both, n) = Bits(b, v) \o code
          /\ \A k \in n .. Buf_size - 1 : both[k] = 0
      BY <1>1, <1>6, CodeFits DEF both
    <2>2. n \in 0 .. Buf_size /\ ~(v > Buf_size - Len(code))
      BY <1>1, <1>2, <1>6, Widths
    <2> HIDE DEF n
    <2>3. p = [o EXCEPT !.bi_buf = both, !.bi_valid = n]
      BY <1>3, <2>2 DEF n
    <2>4. p \in Output /\ p.bi_buf = both /\ p.bi_valid = n /\ BytesOf(p) = BytesOf(o)
      BY <2>1, <2>2, <2>3 DEF Output, BytesOf
    <2>5. Held(p) = bits \o (Bits(b, v) \o code)
      BY <2>1, <2>4 DEF Held
    <2>6. Clear(p)
      BY <2>1, <2>4 DEF Clear
    <2> HIDE DEF bits, b, v
    <2>7. (bits \o Bits(b, v)) \o code = bits \o (Bits(b, v) \o code)
      BY <1>2, <1>4, <1>5, ConcatAssociative
    <2> QED BY <1>5, <2>4, <2>5, <2>6, <2>7 DEF p
  <1>7. CASE v > Buf_size - Len(code)
    <2> DEFINE n == v + Len(code) - Buf_size
               q == put_short(o, both)
               y == Bits(both, Buf_size)
               z == Bits(over, n)
    <2>1. /\ both \in Short /\ over \in Short /\ n \in 0 .. Buf_size
          /\ y \o z = Bits(b, v) \o code
          /\ \A k \in n .. Buf_size - 1 : over[k] = 0
      BY <1>1, <1>7, CodeDivided DEF both, over
    <2>2. q \in Output /\ SameBits(q, o) /\ BitsOf(BytesOf(q)) = bits \o y
      BY <2>1, PutShort
    <2>3. y \in Seq(Bit) /\ z \in Seq(Bit)
      BY <2>1, BitsType, Widths
    <2>4. p = [q EXCEPT !.bi_buf = over, !.bi_valid = n]
      BY <1>3, <1>7, <2>2 DEF SameBits
    <2> HIDE DEF q, y, n
    <2>5. p \in Output /\ p.bi_buf = over /\ p.bi_valid = n /\ BytesOf(p) = BytesOf(q)
      BY <2>1, <2>2, <2>4 DEF Output, BytesOf
    <2>6. Held(p) = (bits \o y) \o z
      BY <2>2, <2>5 DEF Held
    <2>7. Clear(p)
      BY <2>1, <2>5 DEF Clear
    <2> HIDE DEF bits, b, v, z
    <2>8. (bits \o Bits(b, v)) \o code = bits \o (Bits(b, v) \o code)
      BY <1>2, <1>4, <1>5, ConcatAssociative
    <2>9. (bits \o y) \o z = bits \o (y \o z)
      BY <1>4, <2>3, ConcatAssociative
    <2> QED BY <1>5, <2>1, <2>5, <2>6, <2>7, <2>8, <2>9 DEF p
  <1> QED BY <1>1, <1>2, <1>6, <1>7, Widths

-----------------------------------------------------------------------------
(* Padding                                                                 *)

Zeros(n) == [k \in 1 .. n |-> 0]

\* Padding is less than a byte of zeros.
LEMMA PaddingType ==
    ASSUME NEW n \in Int
    PROVE  /\ (-n) % ByteBits \in 0 .. ByteBits - 1
           /\ Padding(n) = Zeros((-n) % ByteBits)
           /\ Padding(n) \in Seq(Bit) /\ Len(Padding(n)) = (-n) % ByteBits
  <1> DEFINE r == (-n) % ByteBits
  <1>1. r \in 0 .. ByteBits - 1
    BY Widths
  <1>2. Padding(n) = [k \in 1 .. r |-> 0]
    BY DEF Padding
  <1> HIDE DEF r
  <1>3. r \in Nat
    BY <1>1, Widths
  <1>4. [k \in 1 .. r |-> 0] \in Seq(Bit) /\ Len([k \in 1 .. r |-> 0]) = r
    BY <1>3 DEF Bit
  <1> QED BY <1>1, <1>2, <1>4 DEF r, Zeros

\* Whole bytes before change no padding.
LEMMA PaddingSame ==
    ASSUME NEW m \in Int, NEW n \in Int
    PROVE  Padding(m * ByteBits + n) = Padding(n)
  <1>1. -(m * ByteBits + n) = (-m) * ByteBits + (-n) /\ -m \in Int /\ -n \in Int
    BY Widths
  <1>2. ((-m) * ByteBits + (-n)) % ByteBits = (-n) % ByteBits
    BY <1>1, SameRest, Widths
  <1> QED BY <1>1, <1>2 DEF Padding

\* What is clear above v is zero up to any place.
LEMMA Filled ==
    ASSUME NEW b \in Short, NEW v \in 0 .. Buf_size, NEW m \in v .. Buf_size,
           \A k \in v .. Buf_size - 1 : b[k] = 0
    PROVE  Bits(b, m) = Bits(b, v) \o Zeros(m - v)
  <1> DEFINE s == Bits(b, m)
             x == Bits(b, v)
             y == Zeros(m - v)
             t == x \o y
  <1>1. m \in 0 .. Buf_size /\ m - v \in Nat /\ v \in Nat /\ m \in Nat
    BY Widths
  <1>2. s \in Seq(Bit) /\ Len(s) = m /\ \A k \in 1 .. m : s[k] = b[k - 1]
    BY <1>1, BitsType
  <1>3. x \in Seq(Bit) /\ Len(x) = v /\ \A k \in 1 .. v : x[k] = b[k - 1]
    BY BitsType
  <1>4. y \in Seq(Bit) /\ Len(y) = m - v /\ \A k \in 1 .. m - v : y[k] = 0
    BY <1>1 DEF Zeros, Bit
  <1> HIDE DEF s, x, y
  <1>5. /\ t \in Seq(Bit) /\ Len(t) = Len(x) + Len(y)
        /\ \A k \in 1 .. Len(x) + Len(y) : t[k] = IF k <= Len(x) THEN x[k] ELSE y[k - Len(x)]
    BY <1>3, <1>4, ConcatProperties
  <1> HIDE DEF t
  <1>6. ASSUME NEW k \in 1 .. Len(s) PROVE s[k] = t[k]
    <2>1. k \in 1 .. m /\ k \in 1 .. Len(x) + Len(y)
      BY <1>1, <1>2, <1>3, <1>4
    <2>2. CASE k <= v
      <3>1. k \in 1 .. v
        BY <1>1, <2>1, <2>2
      <3> QED BY <1>2, <1>3, <1>5, <2>1, <2>2, <3>1
    <2>3. CASE ~(k <= v)
      <3>1. k - v \in 1 .. m - v /\ k - 1 \in v .. Buf_size - 1
        BY <1>1, <2>1, <2>3, Widths
      <3>2. t[k] = y[k - v]
        BY <1>3, <1>5, <2>1, <2>3
      <3>3. s[k] = b[k - 1] /\ b[k - 1] = 0
        BY <1>2, <2>1, <3>1
      <3>4. y[k - v] = 0
        BY <1>4, <3>1
      <3> QED BY <3>2, <3>3, <3>4
    <2> QED BY <2>2, <2>3
  <1>7. Len(s) = Len(t)
    BY <1>1, <1>2, <1>3, <1>4, <1>5
  <1>8. s = t
    BY <1>2, <1>5, <1>6, <1>7, SeqEqual
  <1> QED BY <1>8 DEF s, t, x, y

\* What is held is whole bytes and bi_valid bits.
LEMMA HeldType ==
    ASSUME NEW o \in Output
    PROVE  /\ Held(o) \in Seq(Bit)
           /\ Len(BytesOf(o)) \in Nat
           /\ Len(Held(o)) = Len(BytesOf(o)) * ByteBits + o.bi_valid
           /\ Padding(Len(Held(o))) = Padding(o.bi_valid)
  <1> DEFINE n == Len(BytesOf(o))
             x == BitsOf(BytesOf(o))
             y == Bits(o.bi_buf, o.bi_valid)
  <1>1. o.bi_buf \in Short /\ o.bi_valid \in 0 .. Buf_size
    BY DEF Output
  <1>2. y \in Seq(Bit) /\ Len(y) = o.bi_valid
    BY <1>1, BitsType
  <1>3. x \in Seq(Bit) /\ Len(x) = ByteBits * n /\ n \in Nat
    BY BitsOfBytes
  <1> HIDE DEF n, x, y
  <1>4. x \o y \in Seq(Bit) /\ Len(x \o y) = Len(x) + Len(y)
    BY <1>2, <1>3, ConcatProperties
  <1>5. Held(o) = x \o y
    BY DEF Held, x, y
  <1>6. Len(Held(o)) = n * ByteBits + o.bi_valid
    BY <1>1, <1>2, <1>3, <1>4, <1>5, Widths
  <1>7. Padding(n * ByteBits + o.bi_valid) = Padding(o.bi_valid)
    <2>1. n \in Int /\ o.bi_valid \in Int
      BY <1>1, <1>3, Widths
    <2> QED BY <2>1, PaddingSame
  <1> QED BY <1>3, <1>4, <1>5, <1>6, <1>7 DEF n

\* What bi_windup makes of the bits in the buffer.
LEMMA RoundedUp ==
    ASSUME NEW b \in Short, NEW v \in 0 .. Buf_size,
           \A k \in v .. Buf_size - 1 : b[k] = 0
    PROVE  /\ v = 0 => Padding(v) = << >>
           /\ v \in 1 .. ByteBits => Bits(Low(b), ByteBits) = Bits(b, v) \o Padding(v)
           /\ v > ByteBits => Bits(b, Buf_size) = Bits(b, v) \o Padding(v)
  <1>1. v \in Int /\ ByteBits \in Nat \ {0} /\ Buf_size = 2 * ByteBits
    BY Widths
  <1>2. Padding(v) = Zeros((-v) % ByteBits) /\ Padding(v) \in Seq(Bit)
        /\ Len(Padding(v)) = (-v) % ByteBits
    BY <1>1, PaddingType
  <1>3. ASSUME v = 0 PROVE Padding(v) = << >>
    <2>1. (0 * ByteBits + 0) % ByteBits = 0
      BY <1>1, DivMod
    <2>2. (-v) % ByteBits = 0
      BY <1>1, <1>3, <2>1
    <2>3. Padding(v) \in Seq(Bit) /\ Len(Padding(v)) = 0
      BY <1>2, <2>2
    <2> QED BY <2>3, EmptySeq
  <1>4. ASSUME v \in 1 .. ByteBits PROVE Bits(Low(b), ByteBits) = Bits(b, v) \o Padding(v)
    <2>1. ByteBits - v \in 0 .. ByteBits - 1 /\ -1 \in Int
          /\ -v = (-1) * ByteBits + (ByteBits - v)
      BY <1>1, <1>4
    <2>2. ((-1) * ByteBits + (ByteBits - v)) % ByteBits = ByteBits - v
      BY <1>1, <2>1, DivMod
    <2>3. Padding(v) = Zeros(ByteBits - v)
      BY <1>2, <2>1, <2>2
    <2>4. ByteBits \in v .. Buf_size
      BY <1>1, <1>4
    <2>5. Bits(b, ByteBits) = Bits(b, v) \o Zeros(ByteBits - v)
      BY <2>4, Filled
    <2>6. Bits(Low(b), ByteBits) = Bits(b, ByteBits)
      <3>1. \A k \in 1 .. ByteBits : k - 1 \in 0 .. ByteBits - 1
        BY <1>1
      <3>2. \A k \in 1 .. ByteBits : Low(b)[k - 1] = b[k - 1]
        BY <3>1 DEF Low
      <3> QED BY <3>2 DEF Bits
    <2> QED BY <2>3, <2>5, <2>6
  <1>5. ASSUME v > ByteBits PROVE Bits(b, Buf_size) = Bits(b, v) \o Padding(v)
    <2>1. Buf_size - v \in 0 .. ByteBits - 1 /\ -2 \in Int
          /\ -v = (-2) * ByteBits + (Buf_size - v)
      BY <1>1, <1>5
    <2>2. ((-2) * ByteBits + (Buf_size - v)) % ByteBits = Buf_size - v
      BY <1>1, <2>1, DivMod
    <2>3. Padding(v) = Zeros(Buf_size - v)
      BY <1>2, <2>1, <2>2
    <2>4. Buf_size \in v .. Buf_size
      BY <1>1
    <2> QED BY <2>3, <2>4, Filled
  <1> QED BY <1>3, <1>4, <1>5

\* bi_windup ends a byte.
LEMMA WindUp ==
    ASSUME NEW o \in Output, Clear(o)
    PROVE  LET p == bi_windup(o)
           IN  /\ p \in Output /\ Clear(p) /\ p.bi_valid = 0
               /\ Held(p) = Held(o) \o Padding(Len(Held(o)))
  <1> DEFINE b == o.bi_buf
             v == o.bi_valid
             q == IF v > ByteBits THEN put_short(o, b)
                  ELSE IF v > 0 THEN put_byte(o, Low(b)) ELSE o
             p == bi_windup(o)
             none == [k \in 0 .. Buf_size - 1 |-> 0]
             bits == BitsOf(BytesOf(o))
             x == Bits(b, v)
             y == Padding(v)
  <1>1. b \in Short /\ v \in 0 .. Buf_size /\ \A k \in v .. Buf_size - 1 : b[k] = 0
    BY DEF Output, Clear
  <1>2. bits \in Seq(Bit) /\ x \in Seq(Bit) /\ y \in Seq(Bit)
    <2>1. v \in Int
      BY <1>1, Widths
    <2> QED BY <1>1, <2>1, BitsOfBytes, BitsType, PaddingType
  <1>3. none \in Short /\ \A k \in 0 .. Buf_size - 1 : none[k] = 0
    BY DEF Short, Bit
  <1>4. p = [q EXCEPT !.bi_buf = none, !.bi_valid = 0]
    BY DEF bi_windup, bi_init
  <1>5. Held(o) = bits \o x /\ Padding(Len(Held(o))) = y
    BY HeldType DEF Held
  <1>6. /\ v = 0 => y = << >> /\ x = << >>
        /\ v \in 1 .. ByteBits => Bits(Low(b), ByteBits) = x \o y
        /\ v > ByteBits => Bits(b, Buf_size) = x \o y
    <2>1. v = 0 => x = << >>
      BY DEF Bits
    <2> QED BY <1>1, <2>1, RoundedUp
  <1>7. q \in Output /\ BitsOf(BytesOf(q)) = bits \o (x \o y)
    <2>1. CASE v > ByteBits
      BY <1>1, <1>6, <2>1, PutShort
    <2>2. CASE v \in 1 .. ByteBits
      <3>1. ~(v > ByteBits) /\ v > 0
        BY <2>2, Widths
      <3>2. Low(b) \in Byte
        BY <1>1, LowHigh
      <3> QED BY <1>6, <2>2, <3>1, <3>2, PutByte
    <2>3. CASE v = 0
      <3>1. ~(v > ByteBits) /\ ~(v > 0)
        BY <2>3, Widths
      <3>2. q = o /\ x \o y = << >> \o << >>
        BY <1>6, <2>3, <3>1
      <3>3. << >> \o << >> = << >> /\ << >> \in Seq(Bit)
        BY ConcatEmptySeq, EmptySeq
      <3> HIDE DEF bits, q
      <3>4. bits \o << >> = bits
        BY <1>2, ConcatEmptySeq
      <3> QED BY <3>2, <3>3, <3>4 DEF bits
    <2> QED BY <1>1, <2>1, <2>2, <2>3, Widths
  <1> HIDE DEF q, p, none
  <1>8. p \in Output /\ p.bi_buf = none /\ p.bi_valid = 0 /\ BytesOf(p) = BytesOf(q)
    <2>1. 0 \in 0 .. Buf_size
      BY Widths
    <2> QED BY <1>3, <1>4, <1>7, <2>1 DEF Output, BytesOf
  <1>9. Clear(p)
    BY <1>3, <1>8 DEF Clear
  <1>10. Held(p) = BitsOf(BytesOf(q)) \o << >> /\ BitsOf(BytesOf(q)) \in Seq(Bit)
    <2>1. Bits(none, 0) = << >>
      BY DEF Bits
    <2> QED BY <1>7, <1>8, <2>1, BitsOfBytes DEF Held
  <1>11. Held(p) = BitsOf(BytesOf(q))
    BY <1>10, ConcatEmptySeq
  <1> HIDE DEF bits, x, y, b, v
  <1>12. bits \o (x \o y) = (bits \o x) \o y
    BY <1>2, ConcatAssociative
  <1> QED BY <1>5, <1>7, <1>8, <1>9, <1>11, <1>12 DEF p

\* The length of a block and its complement are shorts.
LEMMA Words ==
    ASSUME NEW n
    PROVE  Word(n) \in Short /\ Not(Word(n)) \in Short
  <1>1. Word(n) \in Short
    BY DEF Word, Short, Bit
  <1>2. \A k \in 0 .. Buf_size - 1 : 1 - Word(n)[k] \in Bit
    BY DEF Word, Bit
  <1> QED BY <1>1, <1>2 DEF Not, Short

\* put_short on the end of a byte.
LEMMA PutAligned ==
    ASSUME NEW o \in Output, Clear(o), o.bi_valid = 0, NEW w \in Short
    PROVE  LET p == put_short(o, w)
           IN  /\ p \in Output /\ Clear(p) /\ p.bi_valid = 0
               /\ Held(p) = Held(o) \o Bits(w, Buf_size)
  <1> DEFINE p == put_short(o, w)
             x == BitsOf(BytesOf(o))
             y == Bits(w, Buf_size)
             e == << >>
  <1>1. p \in Output /\ SameBits(p, o) /\ BitsOf(BytesOf(p)) = x \o y
    BY PutShort
  <1>2. x \in Seq(Bit) /\ y \in Seq(Bit)
    BY BitsOfBytes, BitsType, Widths
  <1> HIDE DEF p, y
  <1>3. Clear(p) /\ p.bi_valid = 0
    BY <1>1 DEF Clear, SameBits
  <1>4. Held(p) = (x \o y) \o e /\ Held(o) = x \o e
    BY <1>1, <1>3 DEF Held, Bits
  <1> HIDE DEF x
  <1>5. x \o y \in Seq(Bit)
    BY <1>2, ConcatProperties
  <1>6. x \o e = x /\ (x \o y) \o e = x \o y
    BY <1>2, <1>5, ConcatEmptySeq
  <1> QED BY <1>1, <1>3, <1>4, <1>6 DEF p, y

\* put_byte on the end of a byte.
LEMMA PutByteAligned ==
    ASSUME NEW o \in Output, Clear(o), o.bi_valid = 0, NEW c \in Byte
    PROVE  LET p == put_byte(o, c)
           IN  /\ p \in Output /\ Clear(p) /\ p.bi_valid = 0
               /\ Held(p) = Held(o) \o Bits(c, ByteBits)
  <1> DEFINE p == put_byte(o, c)
             x == BitsOf(BytesOf(o))
             y == Bits(c, ByteBits)
             e == << >>
  <1>1. p \in Output /\ SameBits(p, o) /\ BitsOf(BytesOf(p)) = x \o y
    BY PutByte
  <1>2. x \in Seq(Bit) /\ y \in Seq(Bit)
    BY BitsOfBytes, ByteBitsType
  <1> HIDE DEF p, y
  <1>3. Clear(p) /\ p.bi_valid = 0
    BY <1>1 DEF Clear, SameBits
  <1>4. Held(p) = (x \o y) \o e /\ Held(o) = x \o e
    BY <1>1, <1>3 DEF Held, Bits
  <1> HIDE DEF x
  <1>5. x \o y \in Seq(Bit)
    BY <1>2, ConcatProperties
  <1>6. x \o e = x /\ (x \o y) \o e = x \o y
    BY <1>2, <1>5, ConcatEmptySeq
  <1> QED BY <1>1, <1>3, <1>4, <1>6 DEF p, y

\* copy_block ends a byte, and writes the length and its complement if asked to.
LEMMA CopyBlock ==
    ASSUME NEW o \in Output, Clear(o), NEW len
    PROVE  LET p == copy_block(o, len, FALSE)
               q == copy_block(o, len, TRUE)
           IN  /\ p \in Output /\ Clear(p) /\ p.bi_valid = 0
               /\ Held(p) = Held(o) \o Padding(Len(Held(o)))
               /\ q \in Output /\ Clear(q) /\ q.bi_valid = 0
               /\ Held(q) = Held(o) \o Padding(Len(Held(o))) \o Bits(Word(len), Buf_size)
                              \o Bits(Not(Word(len)), Buf_size)
  <1> DEFINE w == bi_windup(o)
             r == put_short(w, Word(len))
             q == put_short(r, Not(Word(len)))
  <1>1. Word(len) \in Short /\ Not(Word(len)) \in Short
    BY Words
  <1>2. copy_block(o, len, FALSE) = w /\ copy_block(o, len, TRUE) = q
    BY DEF copy_block
  <1>3. w \in Output /\ Clear(w) /\ w.bi_valid = 0 /\ Held(w) = Held(o) \o Padding(Len(Held(o)))
    BY WindUp
  <1> HIDE DEF w
  <1>4. r \in Output /\ Clear(r) /\ r.bi_valid = 0
        /\ Held(r) = Held(w) \o Bits(Word(len), Buf_size)
    BY <1>1, <1>3, PutAligned
  <1> HIDE DEF r
  <1>5. q \in Output /\ Clear(q) /\ q.bi_valid = 0
        /\ Held(q) = Held(r) \o Bits(Not(Word(len)), Buf_size)
    BY <1>1, <1>4, PutAligned
  <1> HIDE DEF q
  <1> QED BY <1>2, <1>3, <1>4, <1>5

-----------------------------------------------------------------------------
(* The invariant                                                           *)

TypeInv ==
    /\ input \in Seq(Seq(BlockSet)) /\ out \in Output /\ compressed_len \in Nat
    /\ eof \in {0, 1} /\ codes \in Seq(Codes) /\ buf \in Seq(Byte)
    /\ file \in Seq(Byte) /\ sent \in Seq(Bit) /\ stream \in Seq(Bit)
    /\ raw \in BOOLEAN /\ cut \in BOOLEAN
    /\ pc \in {"block", "send", "end"}

\* Bytes are copied at the end of a byte, after every code; the last block of all
\* is wound up, and nothing follows it.
StageInv ==
    /\ pc \in {"block", "end"} => codes = << >> /\ buf = << >>
    /\ pc \in {"send", "end"} => input # << >> /\ Chunk # << >> /\ eof = EofBit
    /\ buf # << >> => codes = << >> /\ out.bi_valid = 0
    /\ pc = "block" /\ eof = 1 =>
         out.bi_valid = 0 /\ (input = << >> \/ (Len(input) = 1 /\ Chunk = << >>))
    /\ input = << >> => sent = << >>

KeptInv == Clear(out) /\ Held(out) = sent

\* What is counted already and what is not sent yet.
LengthInv ==
    /\ pc = "block" /\ eof = 0 => compressed_len = Len(sent)
    /\ pc = "send" => compressed_len = Len(sent) + BitLength(codes) + ByteBits * Len(buf)
    /\ pc = "end" => compressed_len = Len(sent)

\* The stream is in the file and in what the context holds.
StreamInv == ~raw /\ ~cut => stream = BitsOf(file) \o sent

OutputInv == TypeInv /\ StageInv /\ KeptInv /\ LengthInv /\ StreamInv

-----------------------------------------------------------------------------
(* What the steps write                                                    *)

\* Bits after bits.
LEMMA Joined ==
    ASSUME NEW s \in Seq(Bit), NEW t \in Seq(Bit)
    PROVE  s \o t \in Seq(Bit) /\ Len(s \o t) = Len(s) + Len(t)
BY ConcatProperties

\* Bits after bits after bits.
LEMMA Regroup ==
    ASSUME NEW s \in Seq(Bit), NEW t \in Seq(Bit), NEW u \in Seq(Bit)
    PROVE  (s \o t) \o u = s \o (t \o u)
BY ConcatAssociative

\* The header of a block has three bits, and is a code send_bits takes.
LEMMA HeaderType ==
    ASSUME NEW type \in {STORED_BLOCK, STATIC_TREES, DYN_TREES}
    PROVE  Header(type) \in Codes /\ Header(type) \in Seq(Bit) /\ Len(Header(type)) = 3
  <1>1. EofBit \in Bit
    BY DEF EofBit, Bit
  <1>2. type \in Seq(Bit) /\ Len(type) = 2
    <2>1. /\ <<0, 0>> \in Seq(Bit) /\ Len(<<0, 0>>) = 2 /\ <<1, 0>> \in Seq(Bit)
          /\ Len(<<1, 0>>) = 2 /\ <<0, 1>> \in Seq(Bit) /\ Len(<<0, 1>>) = 2
      BY DEF Bit
    <2>2. type \in {<<0, 0>>, <<1, 0>>, <<0, 1>>}
      BY DEF STORED_BLOCK, STATIC_TREES, DYN_TREES
    <2> QED BY <2>1, <2>2
  <1> DEFINE e == EofBit
             one == <<e>>
  <1>3. one \in Seq(Bit) /\ Len(one) = 1
    BY <1>1
  <1> HIDE DEF one
  <1>4. one \o type \in Seq(Bit) /\ Len(one \o type) = Len(one) + Len(type)
    BY <1>2, <1>3, ConcatProperties
  <1>5. Header(type) = one \o type
    BY DEF Header, one
  <1>6. 3 <= Buf_size
    BY Widths
  <1> QED BY <1>2, <1>3, <1>4, <1>5, <1>6 DEF Codes

\* Aligned adds the length of the padding.
LEMMA AlignedPads ==
    ASSUME NEW n \in Nat
    PROVE  Aligned(n) = n + ((-n) % ByteBits)
  <1> DEFINE m == n + ByteBits - 1
             q == m \div ByteBits
             r == m % ByteBits
  <1>1. m \in Int /\ q \in Int /\ r \in 0 .. ByteBits - 1 /\ m = ByteBits * q + r
    BY Widths
  <1>2. Aligned(n) = m - r
    BY DEF Aligned
  <1> HIDE DEF q, r
  <1>3. -n = (-q) * ByteBits + (ByteBits - 1 - r) /\ -q \in Int
        /\ ByteBits - 1 - r \in 0 .. ByteBits - 1
    <2>1. -n = -(ByteBits * q) + (ByteBits - 1 - r)
      BY <1>1, Widths
    <2>2. -(ByteBits * q) = (-q) * ByteBits
      BY <1>1, Widths
    <2> QED BY <1>1, <2>1, <2>2, Widths
  <1>4. ((-q) * ByteBits + (ByteBits - 1 - r)) % ByteBits = ByteBits - 1 - r
    BY <1>3, DivMod, Widths
  <1>5. (-n) % ByteBits = ByteBits - 1 - r
    BY <1>3, <1>4
  <1> QED BY <1>1, <1>2, <1>5, Widths

\* Whole bytes before change neither the padding nor what follows it.
LEMMA PaddedAfter ==
    ASSUME NEW bytes \in Seq(Byte), NEW s \in Seq(Bit)
    PROVE  /\ BitsOf(bytes) \o s \in Seq(Bit)
           /\ Padding(Len(BitsOf(bytes) \o s)) = Padding(Len(s))
  <1> DEFINE x == BitsOf(bytes)
             n == Len(bytes)
             l == Len(s)
  <1>1. x \in Seq(Bit) /\ Len(x) = ByteBits * n /\ n \in Nat /\ l \in Nat
    BY BitsOfType
  <1> HIDE DEF x, n
  <1>2. x \o s \in Seq(Bit) /\ Len(x \o s) = Len(x) + l
    BY <1>1, ConcatProperties
  <1> HIDE DEF l
  <1>3. Len(x \o s) = n * ByteBits + l
    BY <1>1, <1>2, Widths
  <1>4. n \in Int /\ l \in Int
    BY <1>1
  <1>5. Padding(n * ByteBits + l) = Padding(l)
    BY <1>4, PaddingSame
  <1> QED BY <1>2, <1>3, <1>5 DEF x, l

\* The length of what comes before the bytes of a stored block.
LEMMA StoredFacts ==
    ASSUME NEW bits \in Seq(Bit)
    PROVE  /\ StoredOn(bits) \in Seq(Bit)
           /\ Len(StoredOn(bits)) = Aligned(Len(bits) + 3) + 4 * ByteBits
  <1>1. PICK h : h = Header(STORED_BLOCK)
    OBVIOUS
  <1>2. PICK l : l = Word(stored_len)
    OBVIOUS
  <1> DEFINE begun == bits \o h
             p == Padding(Len(begun))
             w == Bits(l, Buf_size)
             n == Bits(Not(l), Buf_size)
             x == begun \o p
             y == x \o w
             z == y \o n
  <1>3. StoredOn(bits) = z
    BY <1>1, <1>2 DEF StoredOn
  <1>4. h \in Seq(Bit) /\ Len(h) = 3
    BY <1>1, HeaderType
  <1>5. w \in Seq(Bit) /\ Len(w) = Buf_size /\ n \in Seq(Bit) /\ Len(n) = Buf_size
    BY <1>2, Words, BitsType, Widths
  <1> HIDE DEF w, n
  <1>6. begun \in Seq(Bit) /\ Len(begun) = Len(bits) + 3 /\ Len(bits) + 3 \in Nat
    <2>1. begun \in Seq(Bit) /\ Len(begun) = Len(bits) + Len(h)
      BY <1>4, Joined
    <2> QED BY <1>4, <2>1
  <1> HIDE DEF begun
  <1>7. p \in Seq(Bit) /\ Len(p) = (-(Len(bits) + 3)) % ByteBits
    BY <1>6, PaddingType
  <1> HIDE DEF p
  <1>8. x \in Seq(Bit) /\ Len(x) = Aligned(Len(bits) + 3)
    <2>1. x \in Seq(Bit) /\ Len(x) = Len(begun) + Len(p)
      BY <1>6, <1>7, Joined
    <2>2. Aligned(Len(bits) + 3) = (Len(bits) + 3) + ((-(Len(bits) + 3)) % ByteBits)
      BY <1>6, AlignedPads
    <2> QED BY <1>6, <1>7, <2>1, <2>2
  <1> HIDE DEF x
  <1>9. y \in Seq(Bit) /\ Len(y) = Len(x) + Buf_size
    BY <1>5, <1>8, Joined
  <1> HIDE DEF y
  <1>10. z \in Seq(Bit) /\ Len(z) = Len(y) + Buf_size
    BY <1>5, <1>9, Joined
  <1> HIDE DEF z
  <1>11. Len(x) \in Nat /\ Len(z) = Len(x) + 4 * ByteBits
    <2>1. Len(x) \in Nat
      BY <1>8
    <2> QED BY <1>9, <1>10, <2>1, Widths
  <1> QED BY <1>3, <1>8, <1>10, <1>11

\* Whole bytes before do not change it.
LEMMA StoredAfter ==
    ASSUME NEW bytes \in Seq(Byte), NEW s \in Seq(Bit)
    PROVE  StoredOn(BitsOf(bytes) \o s) = BitsOf(bytes) \o StoredOn(s)
  <1>1. PICK h : h = Header(STORED_BLOCK)
    OBVIOUS
  <1>2. PICK l : l = Word(stored_len)
    OBVIOUS
  <1> DEFINE f == BitsOf(bytes)
             w == Bits(l, Buf_size)
             n == Bits(Not(l), Buf_size)
             sh == s \o h
             p == Padding(Len(sh))
             shp == sh \o p
             shpw == shp \o w
  <1>3. f \in Seq(Bit) /\ h \in Seq(Bit) /\ w \in Seq(Bit) /\ n \in Seq(Bit)
    BY <1>1, <1>2, BitsOfType, HeaderType, Words, BitsType, Widths
  <1>4. StoredOn(s) = shpw \o n
    BY <1>1, <1>2 DEF StoredOn
  <1>5. StoredOn(f \o s) = ((((f \o s) \o h) \o Padding(Len((f \o s) \o h))) \o w) \o n
    BY <1>1, <1>2 DEF StoredOn
  <1> HIDE DEF w, n
  <1>6. sh \in Seq(Bit) /\ (f \o s) \o h = f \o sh
    <2> HIDE DEF f
    <2>1. sh \in Seq(Bit)
      BY <1>3, Joined
    <2>2. (f \o s) \o h = f \o (s \o h)
      BY <1>3, Regroup
    <2> QED BY <2>1, <2>2
  <1> HIDE DEF sh
  <1>7. Padding(Len(f \o sh)) = p /\ p \in Seq(Bit)
    <2>1. Len(sh) \in Int
      BY <1>6
    <2> QED BY <1>6, <2>1, PaddedAfter, PaddingType
  <1> HIDE DEF f, p
  <1>8. shp \in Seq(Bit) /\ (f \o sh) \o p = f \o shp
    <2>1. shp \in Seq(Bit)
      BY <1>6, <1>7, Joined
    <2>2. (f \o sh) \o p = f \o (sh \o p)
      <3>1. f \in Seq(Bit) /\ sh \in Seq(Bit) /\ p \in Seq(Bit)
        BY <1>3, <1>6, <1>7
      <3> QED BY <3>1, Regroup
    <2> QED BY <2>1, <2>2
  <1> HIDE DEF shp
  <1>9. shpw \in Seq(Bit) /\ (f \o shp) \o w = f \o shpw
    <2>1. shpw \in Seq(Bit)
      BY <1>3, <1>8, Joined
    <2>2. (f \o shp) \o w = f \o (shp \o w)
      <3>1. f \in Seq(Bit) /\ shp \in Seq(Bit) /\ w \in Seq(Bit)
        BY <1>3, <1>8
      <3> QED BY <3>1, Regroup
    <2> QED BY <2>1, <2>2
  <1> HIDE DEF shpw
  <1>10. (f \o shpw) \o n = f \o (shpw \o n)
    BY <1>3, <1>9, Regroup
  <1> QED BY <1>4, <1>5, <1>6, <1>7, <1>8, <1>9, <1>10 DEF f

\* The parts of the block flush_block is about to send, and what is left after it.
LEMMA BlockFacts ==
    ASSUME TypeInv, input # << >>, Chunk # << >>
    PROVE  /\ Block.bytes \in Seq(Byte) /\ stored_len \in Nat
           /\ Block.static \in Seq(Codes) /\ Block.dynamic \in Seq(Codes)
           /\ Rest \in Seq(Seq(BlockSet)) /\ Rest # << >>
           /\ IsLast => Len(Rest) = 1 /\ Head(Rest) = << >>
  <1> DEFINE S == Seq(BlockSet)
             c == Chunk
             tl == Tail(input)
             rc == Tail(c)
             one == <<rc>>
  <1>1. c \in S /\ tl \in Seq(S) /\ Len(tl) = Len(input) - 1
    BY HeadTailProperties DEF TypeInv, Chunk
  <1>2. Head(c) \in BlockSet /\ rc \in S /\ Len(rc) = Len(c) - 1
    BY <1>1, HeadTailProperties
  <1>3. /\ Block.bytes \in Seq(Byte) /\ stored_len \in Nat
        /\ Block.static \in Seq(Codes) /\ Block.dynamic \in Seq(Codes)
    BY <1>2 DEF Block, BlockSet, stored_len
  <1> HIDE DEF rc, tl
  <1>4. one \in Seq(S) /\ Len(one) = 1 /\ one[1] = rc
    BY <1>2
  <1>5. Rest = one \o tl
    BY DEF Rest, rc, tl
  <1> HIDE DEF one, S
  <1>6. one \o tl \in Seq(S) /\ Len(one \o tl) = Len(one) + Len(tl)
        /\ \A k \in 1 .. Len(one) + Len(tl) : (one \o tl)[k] = IF k <= Len(one) THEN one[k] ELSE tl[k - Len(one)]
    BY <1>1, <1>4, ConcatProperties
  <1>7. Len(tl) \in Nat
    BY <1>1
  <1>8. Len(Rest) = 1 + Len(tl) /\ Rest[1] = rc /\ Rest \in Seq(S)
    BY <1>4, <1>5, <1>6, <1>7
  <1>9. Rest # << >> /\ Head(Rest) = rc
    BY <1>7, <1>8
  <1>10. ASSUME IsLast PROVE Len(Rest) = 1 /\ rc = << >>
    <2>1. Len(c) = 1 /\ Len(input) = 1
      BY <1>10 DEF IsLast
    <2>2. rc \in S /\ Len(rc) = 0 /\ Len(tl) = 0
      BY <1>1, <1>2, <2>1
    <2> QED BY <1>8, <2>2, EmptySeq DEF S
  <1> QED BY <1>3, <1>8, <1>9, <1>10 DEF S

-----------------------------------------------------------------------------
(* Every step keeps the invariant                                          *)

\* The invariant holds at first.
LEMMA InitInv ==
    ASSUME Init
    PROVE  OutputInv
  <1> DEFINE none == [k \in 0 .. Buf_size - 1 |-> 0]
             e == << >>
  <1>1. out = [bi_buf |-> none, bi_valid |-> 0, outbuf |-> e, vector |-> e]
    BY DEF Init, bi_init
  <1>2. none \in Short /\ \A k \in 0 .. Buf_size - 1 : none[k] = 0
    BY DEF Short, Bit
  <1>3. Bits(none, 0) = e
    BY DEF Bits
  <1>4. e \in Seq(Byte) /\ e \in Seq(Bit) /\ e \in Seq(Codes) /\ Len(e) = 0 /\ e \o e = e
    BY EmptySeq, ConcatEmptySeq
  <1>5. BitsOf(e) = e /\ 0 \in 0 .. Buf_size
    BY BitsOfNone, Widths
  <1> HIDE DEF none, e
  <1>6. out \in Output /\ out.bi_valid = 0 /\ BytesOf(out) = e /\ out.bi_buf = none
    BY <1>1, <1>2, <1>4, <1>5 DEF Output, BytesOf
  <1>7. Clear(out)
    BY <1>2, <1>6 DEF Clear
  <1>8. Held(out) = e
    BY <1>3, <1>4, <1>5, <1>6 DEF Held
  <1>9. /\ input \in Seq(Seq(BlockSet)) /\ compressed_len = 0 /\ eof = 0 /\ codes = e /\ buf = e
        /\ file = e /\ sent = e /\ stream = e /\ raw = FALSE /\ cut = FALSE /\ pc = "block"
    BY InputAssumption DEF Init, e
  <1>10. TypeInv
    BY <1>4, <1>6, <1>9 DEF TypeInv
  <1>11. StageInv
    BY <1>6, <1>9 DEF StageInv, e
  <1>12. LengthInv
    BY <1>4, <1>9 DEF LengthInv
  <1>13. StreamInv
    BY <1>4, <1>5, <1>9 DEF StreamInv
  <1> QED BY <1>7, <1>8, <1>9, <1>10, <1>11, <1>12, <1>13 DEF OutputInv, KeptInv

\* A code goes where the last one ended.
LEMMA SendCodeKeeps ==
    ASSUME OutputInv, SendCode
    PROVE  OutputInv'
  <1> USE DEF OutputInv
  <1>1. PICK o, c, s, t, f : o = out /\ c = Head(codes) /\ s = sent /\ t = stream /\ f = BitsOf(file)
    OBVIOUS
  <1>2. codes \in Seq(Codes) /\ codes # << >>
    BY DEF TypeInv, SendCode
  <1>3. c \in Codes /\ Tail(codes) \in Seq(Codes) /\ c \in Seq(Bit) /\ Len(c) \in Nat
    BY <1>1, <1>2, HeadTailProperties DEF Codes
  <1>4. PICK p : p = send_bits(o, c)
    OBVIOUS
  <1>5. o \in Output /\ Clear(o) /\ Held(o) = s
    BY <1>1 DEF TypeInv, KeptInv
  <1>6. p \in Output /\ Clear(p) /\ Held(p) = s \o c
    BY <1>3, <1>4, <1>5, SendBits
  <1>7. /\ out' = p /\ sent' = s \o c /\ stream' = t \o c /\ codes' = Tail(codes) /\ pc = "send"
        /\ UNCHANGED <<input, compressed_len, eof, buf, file, raw, cut, pc>>
    BY <1>1, <1>4 DEF SendCode
  <1>8. s \in Seq(Bit) /\ t \in Seq(Bit) /\ f \in Seq(Bit)
    BY <1>1, BitsOfType DEF TypeInv
  <1>9. s \o c \in Seq(Bit) /\ Len(s \o c) = Len(s) + Len(c) /\ t \o c \in Seq(Bit)
    BY <1>3, <1>8, Joined
  <1>10. TypeInv'
    BY <1>3, <1>6, <1>7, <1>9 DEF TypeInv
  <1>11. StageInv'
    BY <1>2, <1>7 DEF StageInv, EofBit, IsLast, Chunk
  <1>12. KeptInv'
    BY <1>6, <1>7 DEF KeptInv
  <1>13. LengthInv'
    <2>1. BitLength(codes) = Len(c) + BitLength(Tail(codes))
      BY <1>1, <1>2, LengthOfTail
    <2>2. BitLength(Tail(codes)) \in Nat /\ Len(s) \in Nat /\ Len(buf) \in Nat
      <3>1. BitLength(Tail(codes)) \in Nat
        BY <1>3, LengthType
      <3>2. buf \in Seq(Byte)
        BY DEF TypeInv
      <3> QED BY <1>8, <3>1, <3>2
    <2>3. ByteBits * Len(buf) \in Nat
      BY <2>2, Product, Widths
    <2>4. compressed_len = Len(s) + BitLength(codes) + ByteBits * Len(buf)
      BY <1>1, <1>7 DEF LengthInv
    <2>5. compressed_len = Len(s \o c) + BitLength(Tail(codes)) + ByteBits * Len(buf)
      BY <1>3, <1>9, <2>1, <2>2, <2>3, <2>4
    <2> QED BY <1>7, <2>5 DEF LengthInv
  <1>14. StreamInv'
    <2>1. SUFFICES ASSUME ~raw, ~cut PROVE t \o c = f \o (s \o c)
      BY <1>1, <1>7 DEF StreamInv
    <2>2. t = f \o s
      BY <1>1, <2>1 DEF StreamInv
    <2>3. (f \o s) \o c = f \o (s \o c)
      BY <1>3, <1>8, Regroup
    <2> QED BY <2>2, <2>3
  <1> QED BY <1>10, <1>11, <1>12, <1>13, <1>14

\* A byte is copied when no bits are left in the bit buffer.
LEMMA CopyByteKeeps ==
    ASSUME OutputInv, CopyByte
    PROVE  OutputInv'
  <1> USE DEF OutputInv
  <1>1. PICK o, c, s, t, f : o = out /\ c = Head(buf) /\ s = sent /\ t = stream /\ f = BitsOf(file)
    OBVIOUS
  <1>2. buf \in Seq(Byte) /\ buf # << >>
    BY DEF TypeInv, CopyByte
  <1>3. c \in Byte /\ Tail(buf) \in Seq(Byte) /\ Len(Tail(buf)) = Len(buf) - 1
    BY <1>1, <1>2, HeadTailProperties
  <1>4. PICK p, b : p = put_byte(o, c) /\ b = Bits(c, ByteBits)
    OBVIOUS
  <1>5. o \in Output /\ Clear(o) /\ Held(o) = s /\ o.bi_valid = 0 /\ codes = << >>
    BY <1>1, <1>2 DEF TypeInv, KeptInv, StageInv
  <1>6. p \in Output /\ Clear(p) /\ p.bi_valid = 0 /\ Held(p) = s \o b
    BY <1>3, <1>4, <1>5, PutByteAligned
  <1>7. /\ out' = p /\ sent' = s \o b /\ stream' = t \o b /\ buf' = Tail(buf) /\ pc = "send"
        /\ UNCHANGED <<input, compressed_len, eof, codes, file, raw, cut, pc>>
    BY <1>1, <1>4 DEF CopyByte
  <1>8. s \in Seq(Bit) /\ t \in Seq(Bit) /\ f \in Seq(Bit) /\ b \in Seq(Bit) /\ Len(b) = ByteBits
    BY <1>1, <1>3, <1>4, BitsOfType, ByteBitsType DEF TypeInv
  <1>9. s \o b \in Seq(Bit) /\ Len(s \o b) = Len(s) + Len(b) /\ t \o b \in Seq(Bit)
    BY <1>8, Joined
  <1>10. TypeInv'
    BY <1>3, <1>6, <1>7, <1>9 DEF TypeInv
  <1>11. StageInv'
    BY <1>2, <1>5, <1>6, <1>7 DEF StageInv, EofBit, IsLast, Chunk
  <1>12. KeptInv'
    BY <1>6, <1>7 DEF KeptInv
  <1>13. LengthInv'
    <2>1. PICK n : n = Len(Tail(buf))
      OBVIOUS
    <2>2. Len(buf) = n + 1 /\ n \in Nat /\ Len(s) \in Nat
      BY <1>2, <1>3, <1>8, <2>1
    <2>3. ByteBits * (n + 1) = ByteBits * n + ByteBits /\ ByteBits * n \in Nat
      BY <2>2, Widths
    <2>4. PICK l : l = BitLength(codes) /\ l \in Nat
      BY LengthType DEF TypeInv
    <2>5. compressed_len = Len(s) + l + ByteBits * Len(buf)
      BY <1>1, <1>7, <2>4 DEF LengthInv
    <2>6. compressed_len = Len(s \o b) + l + ByteBits * n
      BY <1>8, <1>9, <2>2, <2>3, <2>4, <2>5, Widths
    <2> QED BY <1>7, <2>1, <2>4, <2>6 DEF LengthInv
  <1>14. StreamInv'
    <2>1. SUFFICES ASSUME ~raw, ~cut PROVE t \o b = f \o (s \o b)
      BY <1>1, <1>7 DEF StreamInv
    <2>2. t = f \o s
      BY <1>1, <2>1 DEF StreamInv
    <2>3. (f \o s) \o b = f \o (s \o b)
      BY <1>8, Regroup
    <2> QED BY <2>2, <2>3
  <1> QED BY <1>10, <1>11, <1>12, <1>13, <1>14

\* When all is sent, all is counted.
LEMMA AllSentKeeps ==
    ASSUME OutputInv, AllSent
    PROVE  OutputInv'
  <1> USE DEF OutputInv
  <1>1. /\ pc = "send" /\ codes = << >> /\ buf = << >> /\ pc' = "end"
        /\ UNCHANGED <<input, out, compressed_len, eof, codes, buf, file, sent, stream, raw, cut>>
    BY DEF AllSent
  <1>2. TypeInv'
    BY <1>1 DEF TypeInv
  <1>3. StageInv'
    BY <1>1 DEF StageInv, EofBit, IsLast, Chunk
  <1>4. KeptInv'
    BY <1>1 DEF KeptInv
  <1>5. LengthInv'
    <2>1. PICK n : n = Len(sent)
      OBVIOUS
    <2>2. n \in Nat
      <3>1. sent \in Seq(Bit)
        BY DEF TypeInv
      <3> QED BY <2>1, <3>1
    <2>3. BitLength(codes) = 0 /\ Len(buf) = 0
      BY <1>1, LengthOfNone
    <2>4. compressed_len = n + 0 + ByteBits * 0
      BY <1>1, <2>1, <2>3 DEF LengthInv
    <2>5. compressed_len = n
      BY <2>2, <2>4, Widths
    <2> QED BY <1>1, <2>1, <2>5 DEF LengthInv
  <1>6. StreamInv'
    BY <1>1 DEF StreamInv
  <1> QED BY <1>2, <1>3, <1>4, <1>5, <1>6

\* The codes of a block begin after its header, as the stream does.
LEMMA FlushTreesKeeps ==
    ASSUME OutputInv, FlushTrees
    PROVE  OutputInv'
  <1> USE DEF OutputInv
  <1>1. PICK o, s, t, f : o = out /\ s = sent /\ t = stream /\ f = BitsOf(file)
    OBVIOUS
  <1>2. PICK h : /\ h \in {Header(STATIC_TREES), Header(DYN_TREES)}
                 /\ out' = send_bits(o, h) /\ sent' = s \o h /\ stream' = t \o h
    BY <1>1 DEF FlushTrees
  <1>3. /\ pc = "block" /\ input # << >> /\ Chunk # << >> /\ eof' = EofBit /\ pc' = "send"
        /\ codes' \in {Block.static, Block.dynamic}
        /\ compressed_len' = compressed_len + 3 + BitLength(codes')
        /\ UNCHANGED <<input, buf, file, raw, cut>>
    BY DEF FlushTrees
  <1>4. h \in Codes /\ h \in Seq(Bit) /\ Len(h) = 3
    BY <1>2, HeaderType
  <1>5. PICK p : p = send_bits(o, h)
    OBVIOUS
  <1>6. o \in Output /\ Clear(o) /\ Held(o) = s
    BY <1>1 DEF TypeInv, KeptInv
  <1>7. p \in Output /\ Clear(p) /\ Held(p) = s \o h
    BY <1>4, <1>5, <1>6, SendBits
  <1>8. s \in Seq(Bit) /\ t \in Seq(Bit) /\ f \in Seq(Bit)
    BY <1>1, BitsOfType DEF TypeInv
  <1>9. s \o h \in Seq(Bit) /\ Len(s \o h) = Len(s) + 3 /\ t \o h \in Seq(Bit)
    <2>1. s \o h \in Seq(Bit) /\ Len(s \o h) = Len(s) + Len(h) /\ t \o h \in Seq(Bit)
      BY <1>4, <1>8, Joined
    <2> QED BY <1>4, <2>1
  <1>10. PICK c : c = codes'
    OBVIOUS
  <1>11. c \in Seq(Codes)
    BY <1>3, <1>10, BlockFacts
  <1>12. PICK l : l = BitLength(c) /\ l \in Nat
    BY <1>11, LengthType
  <1>13. eof = 0 /\ codes = << >> /\ buf = << >>
    <2>1. eof # 1
      <3>1. SUFFICES ASSUME eof = 1 PROVE FALSE
        OBVIOUS
      <3> QED BY <1>3, <3>1 DEF StageInv
    <2> QED BY <1>3, <2>1 DEF TypeInv, StageInv
  <1>14. compressed_len = Len(s) /\ Len(s) \in Nat
    BY <1>1, <1>3, <1>8, <1>13 DEF LengthInv
  <1>15. compressed_len' = Len(s) + 3 + l
    BY <1>3, <1>10, <1>12, <1>14
  <1>16. TypeInv'
    <2>1. compressed_len' \in Nat
      BY <1>12, <1>14, <1>15
    <2>2. eof' \in {0, 1}
      BY <1>3 DEF EofBit
    <2> QED BY <1>2, <1>3, <1>5, <1>7, <1>9, <1>10, <1>11, <2>1, <2>2 DEF TypeInv
  <1>17. StageInv'
    BY <1>3, <1>13 DEF StageInv, EofBit, IsLast, Chunk
  <1>18. KeptInv'
    BY <1>2, <1>5, <1>7 DEF KeptInv
  <1>19. LengthInv'
    <2>1. Len(buf') = 0
      BY <1>3, <1>13
    <2>2. compressed_len' = Len(s \o h) + l + ByteBits * 0
      BY <1>9, <1>12, <1>14, <1>15, Widths
    <2> QED BY <1>2, <1>3, <1>10, <1>12, <2>1, <2>2 DEF LengthInv
  <1>20. StreamInv'
    <2>1. SUFFICES ASSUME ~raw, ~cut PROVE t \o h = f \o (s \o h)
      BY <1>1, <1>2, <1>3 DEF StreamInv
    <2>2. t = f \o s
      BY <1>1, <2>1 DEF StreamInv
    <2>3. (f \o s) \o h = f \o (s \o h)
      BY <1>4, <1>8, Regroup
    <2> QED BY <2>2, <2>3
  <1> QED BY <1>16, <1>17, <1>18, <1>19, <1>20

\* The bytes of a stored block begin where RFC 1951 puts them.
LEMMA FlushStoredKeeps ==
    ASSUME OutputInv, FlushStored
    PROVE  OutputInv'
  <1> USE DEF OutputInv
  <1>1. PICK o, s, t, h, n : o = out /\ s = sent /\ t = stream /\ h = Header(STORED_BLOCK) /\ n = stored_len
    OBVIOUS
  <1>2. PICK u, x : u = StoredOn(s) /\ x = StoredOn(t)
    OBVIOUS
  <1>3. /\ pc = "block" /\ input # << >> /\ Chunk # << >> /\ eof' = EofBit /\ pc' = "send"
        /\ out' = copy_block(send_bits(o, h), n, TRUE) /\ buf' = Block.bytes
        /\ compressed_len' = Aligned(compressed_len + 3) + ByteBits * (n + 4)
        /\ sent' = u /\ stream' = x
        /\ UNCHANGED <<input, codes, file, raw, cut>>
    BY <1>1, <1>2 DEF FlushStored
  <1>4. h \in Codes
    BY <1>1, HeaderType
  <1>5. PICK q : q = send_bits(o, h)
    OBVIOUS
  <1>6. o \in Output /\ Clear(o) /\ Held(o) = s
    BY <1>1 DEF TypeInv, KeptInv
  <1>7. q \in Output /\ Clear(q) /\ Held(q) = s \o h
    BY <1>4, <1>5, <1>6, SendBits
  <1>8. PICK p : p = copy_block(q, n, TRUE)
    OBVIOUS
  <1>9. p \in Output /\ Clear(p) /\ p.bi_valid = 0
        /\ Held(p) = Held(q) \o Padding(Len(Held(q))) \o Bits(Word(n), Buf_size)
                       \o Bits(Not(Word(n)), Buf_size)
    BY <1>7, <1>8, CopyBlock
  <1>10. Held(p) = u
    BY <1>1, <1>2, <1>7, <1>9 DEF StoredOn
  <1>11. s \in Seq(Bit) /\ t \in Seq(Bit) /\ file \in Seq(Byte) /\ Len(s) \in Nat
    BY <1>1 DEF TypeInv
  <1>12. u \in Seq(Bit) /\ Len(u) = Aligned(Len(s) + 3) + 4 * ByteBits /\ x \in Seq(Bit)
    BY <1>2, <1>11, StoredFacts
  <1>13. eof = 0 /\ codes = << >> /\ buf = << >>
    <2>1. eof # 1
      <3>1. SUFFICES ASSUME eof = 1 PROVE FALSE
        OBVIOUS
      <3> QED BY <1>3, <3>1 DEF StageInv
    <2> QED BY <1>3, <2>1 DEF TypeInv, StageInv
  <1>14. compressed_len = Len(s)
    BY <1>1, <1>3, <1>13 DEF LengthInv
  <1>15. n \in Nat /\ buf' \in Seq(Byte) /\ Len(buf') = n
    <2>1. Block.bytes \in Seq(Byte) /\ stored_len \in Nat
      BY <1>3, BlockFacts
    <2> QED BY <1>1, <1>3, <2>1 DEF stored_len
  <1>16. PICK a : a = Aligned(Len(s) + 3) /\ a \in Nat
    <2>1. Len(s) + 3 \in Nat
      BY <1>11
    <2>2. Aligned(Len(s) + 3) = (Len(s) + 3) + ((-(Len(s) + 3)) % ByteBits)
      BY <2>1, AlignedPads
    <2>3. (-(Len(s) + 3)) % ByteBits \in 0 .. ByteBits - 1
      BY <2>1, PaddingType
    <2>4. Aligned(Len(s) + 3) \in Nat
      BY <2>1, <2>2, <2>3, Widths
    <2> QED BY <2>4
  <1>17. compressed_len' = a + 4 * ByteBits + ByteBits * n /\ ByteBits * n \in Nat
    <2>1. compressed_len' = a + ByteBits * (n + 4)
      BY <1>3, <1>14, <1>16
    <2>2. ByteBits * (n + 4) = ByteBits * n + 4 * ByteBits /\ ByteBits * n \in Nat
      BY <1>15, Widths
    <2> QED BY <1>16, <2>1, <2>2, Widths
  <1>18. TypeInv'
    <2>1. compressed_len' \in Nat
      BY <1>16, <1>17, Widths
    <2>2. eof' \in {0, 1}
      BY <1>3 DEF EofBit
    <2> QED BY <1>3, <1>5, <1>8, <1>9, <1>12, <1>15, <2>1, <2>2 DEF TypeInv
  <1>19. StageInv'
    BY <1>3, <1>5, <1>8, <1>9, <1>13 DEF StageInv, EofBit, IsLast, Chunk
  <1>20. KeptInv'
    BY <1>3, <1>5, <1>8, <1>9, <1>10 DEF KeptInv
  <1>21. LengthInv'
    <2>1. BitLength(codes') = 0
      BY <1>3, <1>13, LengthOfNone
    <2>2. compressed_len' = Len(u) + 0 + ByteBits * n
      BY <1>12, <1>16, <1>17, Widths
    <2> QED BY <1>3, <1>15, <2>1, <2>2 DEF LengthInv
  <1>22. StreamInv'
    <2>1. SUFFICES ASSUME ~raw, ~cut PROVE x = BitsOf(file) \o u
      BY <1>3 DEF StreamInv
    <2>2. t = BitsOf(file) \o s
      BY <1>1, <2>1 DEF StreamInv
    <2>3. PICK g : g = file
      OBVIOUS
    <2>4. StoredOn(BitsOf(g) \o s) = BitsOf(g) \o StoredOn(s)
      BY <1>11, <2>3, StoredAfter
    <2> QED BY <1>2, <2>2, <2>3, <2>4
  <1> QED BY <1>18, <1>19, <1>20, <1>21, <1>22

\* The one block of a chunk goes out bare, from the beginning of a byte.
LEMMA FlushRawKeeps ==
    ASSUME OutputInv, FlushRaw
    PROVE  OutputInv'
  <1> USE DEF OutputInv
  <1>1. PICK o, s, t, n, y : /\ o = out /\ s = sent /\ t = stream /\ n = stored_len
                             /\ y = Padding(Len(s))
    OBVIOUS
  <1>2. PICK x : x = StoredOn(t)
    OBVIOUS
  <1>3. /\ pc = "block" /\ input # << >> /\ Chunk # << >> /\ eof' = EofBit /\ pc' = "send"
        /\ out' = copy_block(o, n, FALSE) /\ buf' = Block.bytes
        /\ compressed_len = 0 /\ compressed_len' = ByteBits * n
        /\ sent' = s \o y /\ stream' = x /\ raw' = TRUE
        /\ UNCHANGED <<input, codes, file, cut>>
    BY <1>1, <1>2 DEF FlushRaw, WholeFileStored
  <1>4. PICK p : p = copy_block(o, n, FALSE)
    OBVIOUS
  <1>5. o \in Output /\ Clear(o) /\ Held(o) = s
    BY <1>1 DEF TypeInv, KeptInv
  <1>6. p \in Output /\ Clear(p) /\ p.bi_valid = 0 /\ Held(p) = s \o y
    <2>1. p \in Output /\ Clear(p) /\ p.bi_valid = 0 /\ Held(p) = Held(o) \o Padding(Len(Held(o)))
      BY <1>4, <1>5, CopyBlock
    <2> QED BY <1>1, <1>5, <2>1
  <1>7. s \in Seq(Bit) /\ t \in Seq(Bit) /\ Len(s) \in Nat
    BY <1>1 DEF TypeInv
  <1>8. x \in Seq(Bit)
    BY <1>2, <1>7, StoredFacts
  <1>9. eof = 0 /\ codes = << >> /\ buf = << >>
    <2>1. eof # 1
      <3>1. SUFFICES ASSUME eof = 1 PROVE FALSE
        OBVIOUS
      <3> QED BY <1>3, <3>1 DEF StageInv
    <2> QED BY <1>3, <2>1 DEF TypeInv, StageInv
  <1>10. Len(s) = 0
    BY <1>1, <1>3, <1>9 DEF LengthInv
  <1>11. y \in Seq(Bit) /\ Len(y) = 0
    <2>1. y \in Seq(Bit) /\ Len(y) = (-0) % ByteBits
      BY <1>1, <1>7, <1>10, PaddingType
    <2>2. (0 * ByteBits + 0) % ByteBits = 0
      BY DivMod, Widths
    <2>3. (-0) % ByteBits = 0
      BY <2>2, Widths
    <2> QED BY <2>1, <2>3
  <1>12. s \o y \in Seq(Bit) /\ Len(s \o y) = 0
    <2>1. s \o y \in Seq(Bit) /\ Len(s \o y) = Len(s) + Len(y)
      BY <1>7, <1>11, Joined
    <2> QED BY <1>10, <1>11, <2>1
  <1>13. n \in Nat /\ buf' \in Seq(Byte) /\ Len(buf') = n
    <2>1. Block.bytes \in Seq(Byte) /\ stored_len \in Nat
      BY <1>3, BlockFacts
    <2> QED BY <1>1, <1>3, <2>1 DEF stored_len
  <1>14. ByteBits * n \in Nat
    BY <1>13, Product, Widths
  <1>15. TypeInv'
    <2>1. eof' \in {0, 1}
      BY <1>3 DEF EofBit
    <2> QED BY <1>3, <1>4, <1>6, <1>8, <1>12, <1>13, <1>14, <2>1 DEF TypeInv
  <1>16. StageInv'
    BY <1>3, <1>4, <1>6, <1>9 DEF StageInv, EofBit, IsLast, Chunk
  <1>17. KeptInv'
    BY <1>3, <1>4, <1>6 DEF KeptInv
  <1>18. LengthInv'
    <2>1. BitLength(codes') = 0
      BY <1>3, <1>9, LengthOfNone
    <2>2. compressed_len' = Len(s \o y) + 0 + ByteBits * n
      BY <1>3, <1>12, <1>14
    <2> QED BY <1>3, <1>13, <2>1, <2>2 DEF LengthInv
  <1>19. StreamInv'
    BY <1>3 DEF StreamInv
  <1> QED BY <1>15, <1>16, <1>17, <1>18, <1>19

\* The last block of all ends with its byte.
LEMMA EndBlockKeeps ==
    ASSUME OutputInv, EndBlock
    PROVE  OutputInv'
  <1> USE DEF OutputInv
  <1>1. PICK o, s, t : o = out /\ s = sent /\ t = stream
    OBVIOUS
  <1>2. PICK p, y, z : p = bi_windup(o) /\ y = Padding(Len(s)) /\ z = Padding(Len(t))
    OBVIOUS
  <1>3. /\ pc = "end" /\ input' = Rest /\ pc' = "block"
        /\ IF eof = 1
           THEN out' = p /\ compressed_len' = compressed_len + 7 /\ sent' = s \o y /\ stream' = t \o z
           ELSE UNCHANGED <<out, compressed_len, sent, stream>>
        /\ UNCHANGED <<eof, codes, buf, file, raw, cut>>
    BY <1>1, <1>2 DEF EndBlock
  <1>4. /\ input # << >> /\ Chunk # << >> /\ eof = EofBit /\ codes = << >> /\ buf = << >>
        /\ compressed_len = Len(sent) /\ compressed_len \in Nat /\ eof \in {0, 1}
    BY <1>3 DEF StageInv, LengthInv, TypeInv
  <1>5. /\ Rest \in Seq(Seq(BlockSet)) /\ Rest # << >>
        /\ eof = 1 => Len(Rest) = 1 /\ Head(Rest) = << >>
    <2>1. eof = 1 => IsLast
      BY <1>4 DEF EofBit
    <2> QED BY <1>4, <2>1, BlockFacts
  <1>6. CASE eof = 0
    <2>1. /\ UNCHANGED <<out, compressed_len, sent, stream, eof, codes, buf, file, raw, cut>>
          /\ input' = Rest /\ pc' = "block"
      BY <1>3, <1>6
    <2>2. TypeInv'
      BY <1>5, <2>1 DEF TypeInv
    <2>3. StageInv'
      BY <1>4, <1>5, <1>6, <2>1 DEF StageInv
    <2>4. KeptInv' /\ LengthInv' /\ StreamInv'
      BY <1>4, <2>1 DEF KeptInv, LengthInv, StreamInv
    <2> QED BY <2>2, <2>3, <2>4
  <1>7. CASE eof = 1
    <2>1. /\ out' = p /\ compressed_len' = compressed_len + 7 /\ sent' = s \o y /\ stream' = t \o z
          /\ UNCHANGED <<eof, codes, buf, file, raw, cut>> /\ input' = Rest /\ pc' = "block"
      BY <1>3, <1>7
    <2>2. o \in Output /\ Clear(o) /\ Held(o) = s
      BY <1>1 DEF TypeInv, KeptInv
    <2>3. p \in Output /\ Clear(p) /\ p.bi_valid = 0 /\ Held(p) = s \o y
      <3>1. p \in Output /\ Clear(p) /\ p.bi_valid = 0 /\ Held(p) = Held(o) \o Padding(Len(Held(o)))
        BY <1>2, <2>2, WindUp
      <3> QED BY <1>2, <2>2, <3>1
    <2>4. s \in Seq(Bit) /\ t \in Seq(Bit) /\ Len(s) \in Int /\ Len(t) \in Int
      BY <1>1 DEF TypeInv
    <2>5. y \in Seq(Bit) /\ z \in Seq(Bit)
      BY <1>2, <2>4, PaddingType
    <2>6. s \o y \in Seq(Bit) /\ t \o z \in Seq(Bit)
      BY <2>4, <2>5, Joined
    <2>7. TypeInv'
      <3>1. compressed_len' \in Nat
        BY <1>4, <2>1
      <3> QED BY <1>5, <2>1, <2>3, <2>6, <3>1 DEF TypeInv
    <2>8. Chunk' = Head(Rest)
      BY <2>1 DEF Chunk
    <2>9. StageInv'
      BY <1>4, <1>5, <1>7, <2>1, <2>3, <2>8 DEF StageInv
    <2>10. KeptInv'
      BY <2>1, <2>3 DEF KeptInv
    <2>11. LengthInv'
      BY <1>7, <2>1 DEF LengthInv
    <2>12. StreamInv'
      <3>1. SUFFICES ASSUME ~raw, ~cut PROVE t \o z = BitsOf(file) \o (s \o y)
        BY <2>1 DEF StreamInv
      <3>2. PICK f : f = file /\ f \in Seq(Byte)
        BY DEF TypeInv
      <3>3. PICK b : b = BitsOf(f) /\ b \in Seq(Bit)
        BY <3>2, BitsOfType
      <3>4. t = b \o s
        BY <1>1, <3>1, <3>2, <3>3 DEF StreamInv
      <3>5. Padding(Len(BitsOf(f) \o s)) = Padding(Len(s))
        BY <2>4, <3>2, PaddedAfter
      <3>6. z = y
        BY <1>2, <3>3, <3>4, <3>5
      <3>7. (b \o s) \o y = b \o (s \o y)
        BY <2>4, <2>5, <3>3, Regroup
      <3> QED BY <3>2, <3>3, <3>4, <3>6, <3>7
    <2> QED BY <2>7, <2>9, <2>10, <2>11, <2>12
  <1> QED BY <1>4, <1>6, <1>7

\* A context that ends with a whole byte leaves all it holds in the file.
LEMMA FinishChunkKeeps ==
    ASSUME OutputInv, FinishChunk
    PROVE  OutputInv'
  <1> USE DEF OutputInv
  <1>1. PICK o, f : o = out /\ f = file
    OBVIOUS
  <1>2. PICK q : q = flush_outbuf(o)
    OBVIOUS
  <1> DEFINE none == [k \in 0 .. Buf_size - 1 |-> 0]
             e == << >>
             p == [q EXCEPT !.vector = e, !.bi_buf = none, !.bi_valid = 0]
  <1>3. /\ pc = "block" /\ input # << >> /\ Chunk = << >>
        /\ file' = f \o q.vector /\ out' = p /\ compressed_len' = 0 /\ sent' = e
        /\ cut' = (cut \/ (eof = 0 /\ out.bi_valid # 0)) /\ input' = Tail(input)
        /\ UNCHANGED <<eof, codes, buf, stream, raw, pc>>
    BY <1>1, <1>2 DEF FinishChunk, bi_init
  <1>4. o \in Output /\ f \in Seq(Byte)
    BY <1>1 DEF TypeInv
  <1>5. q \in Output /\ q.vector = BytesOf(o) /\ q.outbuf = e
    <2>1. q \in Output /\ q.vector = BytesOf(o)
      BY <1>2, <1>4, FlushKeeps
    <2>2. q.outbuf = e
      BY <1>2, <1>4 DEF flush_outbuf, Output
    <2> QED BY <2>1, <2>2
  <1>6. none \in Short /\ \A k \in 0 .. Buf_size - 1 : none[k] = 0
    BY DEF Short, Bit
  <1>7. Bits(none, 0) = e
    BY DEF Bits
  <1>8. e \in Seq(Byte) /\ e \in Seq(Bit) /\ Len(e) = 0 /\ e \o e = e /\ BitsOf(e) = e
        /\ 0 \in 0 .. Buf_size
    BY EmptySeq, ConcatEmptySeq, BitsOfNone, Widths
  <1> HIDE DEF none, e
  <1>9. /\ p \in Output /\ p.bi_valid = 0 /\ p.bi_buf = none
        /\ p.vector = e /\ p.outbuf = e
    BY <1>5, <1>6, <1>8 DEF Output
  <1> HIDE DEF p
  <1>10. Clear(p) /\ Held(p) = e
    <2>1. Clear(p)
      BY <1>6, <1>9 DEF Clear
    <2>2. Held(p) = e
      BY <1>7, <1>8, <1>9 DEF Held, BytesOf
    <2> QED BY <2>1, <2>2
  <1>11. Tail(input) \in Seq(Seq(BlockSet)) /\ Len(Tail(input)) = Len(input) - 1
    <2>1. input \in Seq(Seq(BlockSet))
      BY DEF TypeInv
    <2> QED BY <1>3, <2>1, HeadTailProperties
  <1>12. PICK v : v = BytesOf(o) /\ v \in Seq(Byte)
    BY <1>4, BitsOfBytes
  <1>13. f \o v \in Seq(Byte) /\ BitsOf(f \o v) = BitsOf(f) \o BitsOf(v)
    BY <1>4, <1>12, ConcatProperties, BitsOfConcat
  <1>14. TypeInv'
    BY <1>3, <1>5, <1>8, <1>9, <1>11, <1>12, <1>13 DEF TypeInv
  <1>15. StageInv'
    <2>1. codes' = << >> /\ buf' = << >>
      BY <1>3 DEF StageInv
    <2>2. eof' = 1 => input' = << >>
      <3>1. SUFFICES ASSUME eof = 1 PROVE Tail(input) = << >>
        BY <1>3
      <3>2. Len(Tail(input)) = 0
        BY <1>3, <1>11, <3>1 DEF StageInv
      <3> QED BY <1>11, <3>2, EmptySeq
    <2>3. sent' = << >> /\ out'.bi_valid = 0 /\ pc' = "block"
      BY <1>3, <1>9 DEF e
    <2> QED BY <2>1, <2>2, <2>3 DEF StageInv
  <1>16. KeptInv'
    BY <1>3, <1>10 DEF KeptInv
  <1>17. LengthInv'
    BY <1>3, <1>8 DEF LengthInv
  <1>18. StreamInv'
    <2>1. SUFFICES ASSUME ~raw, ~cut' PROVE stream = BitsOf(f \o v) \o e
      BY <1>3, <1>5, <1>12 DEF StreamInv
    <2>2. ~cut /\ o.bi_valid = 0
      BY <1>1, <1>3, <2>1 DEF StageInv, TypeInv
    <2>3. sent = BitsOf(v) \o e
      <3>1. Held(o) = sent
        BY <1>1 DEF KeptInv
      <3>2. Bits(o.bi_buf, 0) = e
        BY DEF Bits, e
      <3> QED BY <1>12, <2>2, <3>1, <3>2 DEF Held
    <2>4. PICK x, y : x = BitsOf(f) /\ y = BitsOf(v) /\ x \in Seq(Bit) /\ y \in Seq(Bit)
      BY <1>4, <1>12, BitsOfType
    <2>5. stream = x \o (y \o e)
      BY <1>1, <2>1, <2>2, <2>3, <2>4 DEF StreamInv
    <2>6. (x \o y) \o e = x \o (y \o e)
      BY <1>8, <2>4, Regroup
    <2> QED BY <1>13, <2>4, <2>5, <2>6
  <1> QED BY <1>14, <1>15, <1>16, <1>17, <1>18

\* Every step keeps the invariant.
LEMMA OutputStep ==
    ASSUME OutputInv, [Next]_vars
    PROVE  OutputInv'
  <1>1. CASE FlushRaw
    BY <1>1, FlushRawKeeps
  <1>2. CASE FlushStored
    BY <1>2, FlushStoredKeeps
  <1>3. CASE FlushTrees
    BY <1>3, FlushTreesKeeps
  <1>4. CASE SendCode
    BY <1>4, SendCodeKeeps
  <1>5. CASE CopyByte
    BY <1>5, CopyByteKeeps
  <1>6. CASE AllSent
    BY <1>6, AllSentKeeps
  <1>7. CASE EndBlock
    BY <1>7, EndBlockKeeps
  <1>8. CASE FinishChunk
    BY <1>8, FinishChunkKeeps
  <1>9. CASE UNCHANGED vars
    <2>1. UNCHANGED <<input, out, compressed_len, eof, codes, buf, file, sent, stream, raw, cut, pc>>
      BY <1>9 DEF vars
    <2>2. TypeInv'
      BY <2>1 DEF OutputInv, TypeInv
    <2>3. StageInv'
      BY <2>1 DEF OutputInv, StageInv, EofBit, IsLast, Chunk
    <2>4. KeptInv' /\ LengthInv' /\ StreamInv'
      BY <2>1 DEF OutputInv, KeptInv, LengthInv, StreamInv
    <2> QED BY <2>2, <2>3, <2>4 DEF OutputInv
  <1> QED BY <1>1, <1>2, <1>3, <1>4, <1>5, <1>6, <1>7, <1>8, <1>9 DEF Next, Done

-----------------------------------------------------------------------------
(* Theorems                                                                *)

\* Of any codes up to Buf_size bits, and wherever the bit buffer and outbuf fill,
\* none of the bits is lost or moved, and none is left above bi_valid.
THEOREM BitsAlwaysKept == Spec => []BitsKept
  <1>1. OutputInv => BitsKept
    BY DEF OutputInv, KeptInv, BitsKept, Held, BytesOf, Clear
  <1> QED BY <1>1, InitInv, OutputStep, PTL DEF Spec

\* Blocks of every kind in any order, in chunks that end with a byte, make the file
\* the deflate stream of those blocks.
THEOREM StreamWritten == Spec => []FileIsStream
  <1>1. OutputInv => FileIsStream
    <2>1. SUFFICES ASSUME OutputInv, input = << >>, ~raw, ~cut
                   PROVE  BitsOf(file) = stream
      BY DEF FileIsStream
    <2>2. sent = << >> /\ stream = BitsOf(file) \o sent /\ file \in Seq(Byte)
      BY <2>1 DEF OutputInv, StageInv, StreamInv, TypeInv
    <2>3. PICK x : x = BitsOf(file) /\ x \in Seq(Bit)
      BY <2>2, BitsOfType
    <2>4. x \o << >> = x
      BY <2>3, ConcatEmptySeq
    <2> QED BY <2>2, <2>3, <2>4
  <1> QED BY <1>1, InitInv, OutputStep, PTL DEF Spec

\* At the end of any block compressed_len is the number of bits sent.
THEOREM LengthRight == Spec => []LengthCounted
  <1>1. OutputInv => LengthCounted
    BY DEF OutputInv, LengthInv, LengthCounted
  <1> QED BY <1>1, InitInv, OutputStep, PTL DEF Spec
=============================================================================
