------------------------- MODULE HuffmanTreeProofs -------------------------
(***************************************************************************)
(* For every alphabet, all frequencies and every limit on lengths: the     *)
(* code that build_tree(), gen_bitlen() and gen_codes() make is complete,  *)
(* no code in it begins another one, its cost is counted rightly, and it   *)
(* is an optimal one if no length had to be cut.                           *)
(*                                                                         *)
(* The first four follow from an inductive invariant, IInv:                *)
(*                                                                         *)
(*  - while symbols are counted the queue has just the symbols that occur, *)
(*    each once (CountInv);                                                *)
(*  - while the tree is built each node is at one place, of the queue or   *)
(*    of the sorted end, but for the one pqremove holds; each join takes   *)
(*    a node away, so that with as many joins as leaves but one the root   *)
(*    is left (Placed, QueueInv, TreeInv);                                 *)
(*  - while lengths are assigned, twice the space the leaves take and the  *)
(*    space that is open at nodes still without a length make twice the    *)
(*    whole space and one for each overflow (LengthsInv); each turn of the *)
(*    overflow loop gives back two (OverflowInv), so that the loop can end *)
(*    with the whole space taken, and the new lengths are those counted    *)
(*    (ReassignInv): the code is complete (LengthsMade);                   *)
(*  - the costs are those of the leaves that have their lengths, less what *)
(*    the forced symbols will add (CostInv);                               *)
(*  - a code of length len is an interval of the codes of MAX_BITS, and    *)
(*    each new one begins where those before it end (FirstInv, CodesInv,   *)
(*    HandedOut): none begins another one.                                 *)
(*                                                                         *)
(* Optimality follows from a second one, OInv, that rests on the first:    *)
(* the queue is a heap (OrderInv), so that each join takes two least       *)
(* frequent nodes; a father is as frequent as its sons together (SonsInv); *)
(* for any lengths of the leaves there are lengths of the nodes without a  *)
(* father that cost no more, one bit counted for each father (RootsInv).   *)
(* That is the exchange of two longest codes for those of the two nodes    *)
(* joined.  The root costs nothing: no lengths cost less than all fathers  *)
(* together (BestInv).  From the root down each bit assigned is paid by    *)
(* a father (ScanInv), so that the lengths made cost just that.            *)
(***************************************************************************)
EXTENDS HuffmanTree, FiniteSetTheorems, WellFoundedInduction, TLAPS

-----------------------------------------------------------------------------
(* Sums                                                                     *)

\* A set of natural numbers has a least element.
LEMMA Least ==
    ASSUME NEW T, T \subseteq Nat, T # {}
    PROVE  \E i \in T : \A j \in T : i <= j
  <1> DEFINE R == {ss \in Nat \X Nat : ss[1] < ss[2]}
  <1>1. IsWellFoundedOn(R, Nat)
    BY NatLessThanWellFounded DEF OpToRel
  <1>2. \A i, j \in Nat : j < i => <<j, i>> \in R
    OBVIOUS
  <1> HIDE DEF R
  <1>3. PICK i \in T : \A j \in T : ~(<<j, i>> \in R)
    BY <1>1, WFMin
  <1>4. \A j \in T : i \in Nat /\ j \in Nat /\ ~(j < i)
    BY <1>2, <1>3
  <1>5. \A p, q \in Nat : ~(q < p) => p <= q
    OBVIOUS
  <1>6. \A j \in T : i <= j
    BY <1>4, <1>5
  <1> QED BY <1>6

\* g[0], .., g[to - 1] are integers.
Summable(g, to) == \A i \in 0 .. to - 1 : g[i] \in Int

\* s[m] is the sum of the first m.
SumsUp(g, to, s) ==
    /\ s \in [0 .. to -> Int] /\ s[0] = 0
    /\ \A m \in 1 .. to : s[m] = s[m - 1] + g[m - 1]

\* Every sum of integers has its partial sums.
LEMMA SumExists ==
    ASSUME NEW to \in Nat, NEW g, Summable(g, to)
    PROVE  \E s : SumsUp(g, to, s)
  <1> DEFINE T == {m \in 0 .. to : \A s : ~SumsUp(g, m, s)}
  <1>1. SUFFICES ASSUME T # {} PROVE FALSE
    OBVIOUS
  <1>2. PICK m \in T : \A l \in T : m <= l
    <2>1. T \subseteq Nat
      OBVIOUS
    <2> QED BY <1>1, <2>1, Least
  <1>3. m \in 0 .. to /\ \A s : ~SumsUp(g, m, s)
    OBVIOUS
  <1>4. m # 0
    <2>1. SumsUp(g, 0, [i \in 0 .. 0 |-> 0])
      BY DEF SumsUp
    <2> QED BY <1>3, <2>1
  <1>5. m - 1 \in 0 .. to /\ m - 1 \notin T
    BY <1>2, <1>3, <1>4
  <1>6. PICK s : SumsUp(g, m - 1, s)
    BY <1>5
  <1> DEFINE t == [i \in 0 .. m |-> IF i = m THEN s[m - 1] + g[m - 1] ELSE s[i]]
  <1>7. s \in [0 .. m - 1 -> Int] /\ s[0] = 0 /\ \A l \in 1 .. m - 1 : s[l] = s[l - 1] + g[l - 1]
    BY <1>6 DEF SumsUp
  <1>8. g[m - 1] \in Int
    BY <1>3, <1>4 DEF Summable
  <1>9. t \in [0 .. m -> Int] /\ t[0] = 0
    BY <1>3, <1>4, <1>7, <1>8
  <1>10. ASSUME NEW l \in 1 .. m PROVE t[l] = t[l - 1] + g[l - 1]
    <2>1. m \in Nat /\ l - 1 \in 0 .. m - 1 /\ l \in 0 .. m /\ l - 1 # m
      BY <1>3
    <2>2. t[l - 1] = s[l - 1]
      BY <2>1
    <2>3. CASE l = m
      BY <2>1, <2>2, <2>3
    <2>4. CASE l # m
      <3>1. l \in 1 .. m - 1
        BY <2>1, <2>4
      <3>2. t[l] = s[l]
        BY <2>1, <2>4
      <3> QED BY <1>7, <2>2, <3>1, <3>2
    <2> QED BY <2>3, <2>4
  <1>11. SumsUp(g, m, t)
    BY <1>9, <1>10 DEF SumsUp
  <1> QED BY <1>3, <1>11

\* There is but one such sum.
LEMMA SumUnique ==
    ASSUME NEW to \in Nat, NEW m \in 0 .. to, NEW g, NEW s, NEW t, SumsUp(g, to, s), SumsUp(g, m, t)
    PROVE  s[m] = t[m]
  <1> DEFINE T == {l \in 0 .. m : s[l] # t[l]}
  <1>1. SUFFICES ASSUME T # {} PROVE FALSE
    OBVIOUS
  <1>2. PICK l \in T : \A j \in T : l <= j
    <2>1. T \subseteq Nat
      OBVIOUS
    <2> QED BY <1>1, <2>1, Least
  <1>3. l \in 0 .. m /\ s[l] # t[l]
    OBVIOUS
  <1>4. l # 0
    BY <1>3 DEF SumsUp
  <1>5. l - 1 \in 0 .. m /\ l - 1 \notin T /\ l \in 1 .. m /\ l \in 1 .. to
    BY <1>2, <1>3, <1>4
  <1>6. s[l - 1] = t[l - 1]
    BY <1>5
  <1> QED BY <1>3, <1>5, <1>6 DEF SumsUp

\* The recursive function in Total is the partial sums.
LEMMA TotalSumsUp ==
    ASSUME NEW to \in Nat, NEW g, Summable(g, to)
    PROVE  \E s : SumsUp(g, to, s) /\ Total(g, to) = s[to]
  <1> DEFINE F(s) == [i \in 0 .. to |-> IF i = 0 THEN 0 ELSE s[i - 1] + g[i - 1]]
             sum == CHOOSE s : s = F(s)
  <1>1. PICK s : SumsUp(g, to, s)
    BY SumExists
  <1>2. s = F(s)
    BY <1>1 DEF SumsUp
  <1>3. sum = F(sum)
    BY <1>2
  <1>4. Total(g, to) = sum[to]
    BY DEF Total
  <1> HIDE DEF sum
  <1>5. /\ DOMAIN sum = 0 .. to /\ sum[0] = 0
        /\ \A m \in 1 .. to : sum[m] = sum[m - 1] + g[m - 1]
    BY <1>3
  <1>6. sum \in [0 .. to -> Int]
    <2> DEFINE T == {m \in 0 .. to : sum[m] \notin Int}
    <2>1. T = {}
      <3>1. SUFFICES ASSUME T # {} PROVE FALSE
        OBVIOUS
      <3>2. PICK m \in T : \A l \in T : m <= l
        <4>1. T \subseteq Nat
          OBVIOUS
        <4> QED BY <3>1, <4>1, Least
      <3>3. m \in 0 .. to /\ sum[m] \notin Int
        OBVIOUS
      <3>4. m # 0
        BY <1>5, <3>3
      <3>5. m - 1 \in 0 .. to /\ m - 1 \notin T /\ m \in 1 .. to /\ m - 1 \in 0 .. to - 1
        BY <3>2, <3>3, <3>4
      <3>6. sum[m - 1] \in Int /\ g[m - 1] \in Int
        BY <3>5 DEF Summable
      <3> QED BY <1>5, <3>3, <3>5, <3>6
    <2>2. \A m \in 0 .. to : sum[m] \in Int
      BY <2>1
    <2> QED BY <1>3, <2>2
  <1>7. SumsUp(g, to, sum)
    BY <1>5, <1>6 DEF SumsUp
  <1> QED BY <1>4, <1>7

\* The sum of none, and of one more.
LEMMA TotalNone ==
    ASSUME NEW g PROVE Total(g, 0) = 0
  <1>1. Summable(g, 0)
    BY DEF Summable
  <1>2. PICK s : SumsUp(g, 0, s) /\ Total(g, 0) = s[0]
    BY <1>1, TotalSumsUp
  <1> QED BY <1>2 DEF SumsUp

\* One term more.
LEMMA TotalNext ==
    ASSUME NEW m \in Nat, NEW g, Summable(g, m + 1)
    PROVE  Total(g, m) \in Int /\ Total(g, m + 1) = Total(g, m) + g[m]
  <1>1. Summable(g, m) /\ m + 1 \in Nat /\ m \in 0 .. m + 1
    BY DEF Summable
  <1>2. PICK s : SumsUp(g, m, s) /\ Total(g, m) = s[m]
    BY <1>1, TotalSumsUp
  <1>3. PICK t : SumsUp(g, m + 1, t) /\ Total(g, m + 1) = t[m + 1]
    BY <1>1, TotalSumsUp
  <1>4. t[m] = s[m]
    BY <1>1, <1>2, <1>3, SumUnique
  <1>5. t[m + 1] = t[(m + 1) - 1] + g[(m + 1) - 1]
    BY <1>1, <1>3 DEF SumsUp
  <1>6. s[m] \in Int
    BY <1>2 DEF SumsUp
  <1> QED BY <1>2, <1>3, <1>4, <1>5, <1>6

\* Up to to, from one to the next.
LEMMA Upwards ==
    ASSUME NEW to \in Nat, NEW T, 0 \in T, \A m \in 0 .. to - 1 : m \in T => m + 1 \in T
    PROVE  \A m \in 0 .. to : m \in T
  <1> DEFINE O == {m \in 0 .. to : m \notin T}
  <1>1. SUFFICES ASSUME O # {} PROVE FALSE
    OBVIOUS
  <1>2. PICK m \in O : \A l \in O : m <= l
    <2>1. O \subseteq Nat
      OBVIOUS
    <2> QED BY <1>1, <2>1, Least
  <1>3. m \in 0 .. to /\ m \notin T /\ m # 0
    OBVIOUS
  <1>4. m - 1 \in 0 .. to - 1 /\ m - 1 \notin O /\ (m - 1) + 1 = m
    BY <1>2, <1>3
  <1> QED BY <1>3, <1>4

\* A sum of integers is an integer.
LEMMA TotalType ==
    ASSUME NEW to \in Nat, NEW g, Summable(g, to)
    PROVE  Total(g, to) \in Int
  <1>1. CASE to = 0
    BY <1>1, TotalNone
  <1>2. CASE to # 0
    <2>1. to - 1 \in Nat /\ (to - 1) + 1 = to /\ g[to - 1] \in Int
      BY <1>2 DEF Summable
    <2> QED BY <2>1, TotalNext
  <1> QED BY <1>1, <1>2

\* Less is summable, too.
LEMMA SummableLess ==
    ASSUME NEW to \in Nat, NEW g, Summable(g, to), NEW m \in 0 .. to - 1
    PROVE  /\ Summable(g, m) /\ Summable(g, m + 1) /\ g[m] \in Int /\ m \in Nat
           /\ Total(g, m) \in Int /\ Total(g, m + 1) = Total(g, m) + g[m]
  <1>1. Summable(g, m) /\ Summable(g, m + 1) /\ g[m] \in Int /\ m \in Nat
    BY DEF Summable
  <1> QED BY <1>1, TotalNext

\* Of natural numbers, a natural number.
LEMMA TotalNat ==
    ASSUME NEW to \in Nat, NEW g, \A i \in 0 .. to - 1 : g[i] \in Nat
    PROVE  Total(g, to) \in Nat /\ Summable(g, to)
  <1> DEFINE T == {m \in 0 .. to : Total(g, m) \in Nat}
  <1>0. Summable(g, to)
    BY DEF Summable
  <1>1. 0 \in T
    BY TotalNone
  <1>2. ASSUME NEW m \in 0 .. to - 1, m \in T PROVE m + 1 \in T
    <2>1. g[m] \in Nat /\ Total(g, m + 1) = Total(g, m) + g[m]
      BY <1>0, SummableLess
    <2> QED BY <1>2, <2>1
  <1>3. to \in T
    <2> HIDE DEF T
    <2> QED BY <1>1, <1>2, Upwards
  <1> QED BY <1>0, <1>3

\* Of the same numbers, the same.
LEMMA TotalSame ==
    ASSUME NEW to \in Nat, NEW g, NEW e, Summable(g, to), \A i \in 0 .. to - 1 : e[i] = g[i]
    PROVE  Total(e, to) = Total(g, to) /\ Summable(e, to)
  <1> DEFINE T == {m \in 0 .. to : Total(e, m) = Total(g, m)}
  <1>0. Summable(e, to)
    BY DEF Summable
  <1>1. 0 \in T
    BY TotalNone
  <1>2. ASSUME NEW m \in 0 .. to - 1, m \in T PROVE m + 1 \in T
    <2>1. Total(g, m + 1) = Total(g, m) + g[m]
      BY SummableLess
    <2>2. Total(e, m + 1) = Total(e, m) + e[m]
      BY <1>0, SummableLess
    <2> QED BY <1>2, <2>1, <2>2
  <1>3. to \in T
    <2> HIDE DEF T
    <2> QED BY <1>1, <1>2, Upwards
  <1> QED BY <1>0, <1>3

\* A change of one of them changes the sum as much.
LEMMA TotalChange ==
    ASSUME NEW to \in Nat, NEW g, NEW e, NEW j \in 0 .. to - 1, Summable(g, to), Summable(e, to),
           \A i \in 0 .. to - 1 : i # j => e[i] = g[i]
    PROVE  Total(e, to) = Total(g, to) + (e[j] - g[j])
  <1> DEFINE T == {m \in 0 .. to : Total(e, m) = Total(g, m) + IF m > j THEN e[j] - g[j] ELSE 0}
  <1>1. 0 \in T
    BY TotalNone
  <1>2. ASSUME NEW m \in 0 .. to - 1, m \in T PROVE m + 1 \in T
    <2>1. g[m] \in Int /\ Total(g, m) \in Int /\ Total(g, m + 1) = Total(g, m) + g[m]
      BY SummableLess
    <2>2. e[m] \in Int /\ Total(e, m) \in Int /\ Total(e, m + 1) = Total(e, m) + e[m]
      BY SummableLess
    <2>3. Total(e, m) = Total(g, m) + IF m > j THEN e[j] - g[j] ELSE 0
      BY <1>2
    <2>4. e[j] \in Int /\ g[j] \in Int
      BY DEF Summable
    <2>5. Total(e, m + 1) = Total(g, m + 1) + IF m + 1 > j THEN e[j] - g[j] ELSE 0
      <3>1. CASE m = j
        BY <2>1, <2>2, <2>3, <2>4, <3>1
      <3>2. CASE m > j
        BY <2>1, <2>2, <2>3, <2>4, <3>2
      <3>3. CASE m < j
        BY <2>1, <2>2, <2>3, <2>4, <3>3
      <3> QED BY <3>1, <3>2, <3>3
    <2> QED BY <2>5
  <1>3. to \in T
    <2> HIDE DEF T
    <2> QED BY <1>1, <1>2, Upwards
  <1> QED BY <1>3

\* Of zeros, zero.
LEMMA TotalZero ==
    ASSUME NEW to \in Nat, NEW g, \A i \in 0 .. to - 1 : g[i] = 0
    PROVE  Total(g, to) = 0 /\ Summable(g, to)
  <1> DEFINE T == {m \in 0 .. to : Total(g, m) = 0}
  <1>0. Summable(g, to)
    BY DEF Summable
  <1>1. 0 \in T
    BY TotalNone
  <1>2. ASSUME NEW m \in 0 .. to - 1, m \in T PROVE m + 1 \in T
    <2>1. g[m] = 0 /\ Total(g, m + 1) = Total(g, m) + g[m]
      BY <1>0, SummableLess
    <2> QED BY <1>2, <2>1
  <1>3. to \in T
    <2> HIDE DEF T
    <2> QED BY <1>1, <1>2, Upwards
  <1> QED BY <1>0, <1>3

\* Of numbers that are no greater, no more.
LEMMA TotalMost ==
    ASSUME NEW to \in Nat, NEW g, NEW e, Summable(g, to), Summable(e, to), \A i \in 0 .. to - 1 : e[i] <= g[i]
    PROVE  Total(e, to) <= Total(g, to)
  <1> DEFINE T == {m \in 0 .. to : Total(e, m) <= Total(g, m)}
  <1>1. 0 \in T
    BY TotalNone
  <1>2. ASSUME NEW m \in 0 .. to - 1, m \in T PROVE m + 1 \in T
    <2>1. g[m] \in Int /\ Total(g, m) \in Int /\ Total(g, m + 1) = Total(g, m) + g[m]
      BY SummableLess
    <2>2. e[m] \in Int /\ Total(e, m) \in Int /\ Total(e, m + 1) = Total(e, m) + e[m]
      BY SummableLess
    <2>3. e[m] <= g[m]
      OBVIOUS
    <2> QED BY <1>2, <2>1, <2>2, <2>3
  <1>3. to \in T
    <2> HIDE DEF T
    <2> QED BY <1>1, <1>2, Upwards
  <1> QED BY <1>3

\* Of sums, the sum.
LEMMA TotalPlus ==
    ASSUME NEW to \in Nat, NEW g, NEW e, NEW f, Summable(g, to), Summable(e, to),
           \A i \in 0 .. to - 1 : f[i] = g[i] + e[i]
    PROVE  Total(f, to) = Total(g, to) + Total(e, to) /\ Summable(f, to)
  <1> DEFINE T == {m \in 0 .. to : Total(f, m) = Total(g, m) + Total(e, m)}
  <1>0. Summable(f, to)
    BY DEF Summable
  <1>1. 0 \in T
    BY TotalNone
  <1>2. ASSUME NEW m \in 0 .. to - 1, m \in T PROVE m + 1 \in T
    <2>1. g[m] \in Int /\ Total(g, m) \in Int /\ Total(g, m + 1) = Total(g, m) + g[m]
      BY SummableLess
    <2>2. e[m] \in Int /\ Total(e, m) \in Int /\ Total(e, m + 1) = Total(e, m) + e[m]
      BY SummableLess
    <2>3. Total(f, m + 1) = Total(f, m) + f[m]
      BY <1>0, SummableLess
    <2>4. f[m] = g[m] + e[m]
      OBVIOUS
    <2> QED BY <1>2, <2>1, <2>2, <2>3, <2>4
  <1>3. to \in T
    <2> HIDE DEF T
    <2> QED BY <1>1, <1>2, Upwards
  <1> QED BY <1>0, <1>3

\* Products and sums.
LEMMA Distributes ==
    ASSUME NEW a \in Int, NEW b \in Int, NEW u \in Int
    PROVE  a * u + b * u = (a + b) * u /\ u * a + u * b = u * (a + b)
  OBVIOUS

\* Of multiples, the multiple.
LEMMA TotalTimes ==
    ASSUME NEW to \in Nat, NEW g, NEW e, NEW u \in Int, Summable(g, to), \A i \in 0 .. to - 1 : e[i] = g[i] * u
    PROVE  Total(e, to) = Total(g, to) * u /\ Summable(e, to)
  <1> DEFINE T == {m \in 0 .. to : Total(e, m) = Total(g, m) * u}
  <1>0. Summable(e, to)
    BY DEF Summable
  <1>1. 0 \in T
    BY TotalNone
  <1>2. ASSUME NEW m \in 0 .. to - 1, m \in T PROVE m + 1 \in T
    <2>1. g[m] \in Int /\ Total(g, m) \in Int /\ Total(g, m + 1) = Total(g, m) + g[m]
      BY SummableLess
    <2>2. Total(e, m + 1) = Total(e, m) + e[m]
      BY <1>0, SummableLess
    <2>3. e[m] = g[m] * u /\ Total(e, m) = Total(g, m) * u
      BY <1>2
    <2>4. Total(e, m + 1) = (Total(g, m) + g[m]) * u
      BY <2>1, <2>2, <2>3, Distributes
    <2> QED BY <2>1, <2>4
  <1>3. to \in T
    <2> HIDE DEF T
    <2> QED BY <1>1, <1>2, Upwards
  <1> QED BY <1>0, <1>3

\* Of ones, how many there are.
LEMMA TotalOnes ==
    ASSUME NEW to \in Nat, NEW g, \A i \in 0 .. to - 1 : g[i] = 1
    PROVE  Total(g, to) = to /\ Summable(g, to)
  <1> DEFINE T == {m \in 0 .. to : Total(g, m) = m}
  <1>0. Summable(g, to)
    BY DEF Summable
  <1>1. 0 \in T
    BY TotalNone
  <1>2. ASSUME NEW m \in 0 .. to - 1, m \in T PROVE m + 1 \in T
    <2>1. g[m] = 1 /\ Total(g, m + 1) = Total(g, m) + g[m]
      BY <1>0, SummableLess
    <2> QED BY <1>2, <2>1
  <1>3. to \in T
    <2> HIDE DEF T
    <2> QED BY <1>1, <1>2, Upwards
  <1> QED BY <1>0, <1>3

\* Zeros at the end add nothing.
LEMMA TotalMore ==
    ASSUME NEW from \in Nat, NEW to \in Nat, from <= to, NEW g, Summable(g, from), \A i \in from .. to - 1 : g[i] = 0
    PROVE  Total(g, to) = Total(g, from) /\ Summable(g, to)
  <1> DEFINE T == {m \in 0 .. to : m >= from => Total(g, m) = Total(g, from)}
  <1>0. Summable(g, to)
    BY DEF Summable
  <1>1. 0 \in T
    BY TotalNone
  <1>2. ASSUME NEW m \in 0 .. to - 1, m \in T PROVE m + 1 \in T
    <2>1. Total(g, m + 1) = Total(g, m) + g[m]
      BY <1>0, SummableLess
    <2>2. Total(g, from) \in Int
      BY TotalType
    <2>3. m >= from => g[m] = 0
      OBVIOUS
    <2>4. m < from => m + 1 <= from
      OBVIOUS
    <2>5. m + 1 >= from => Total(g, m + 1) = Total(g, from)
      BY <1>2, <2>1, <2>2, <2>3, <2>4
    <2> QED BY <2>5
  <1>3. to \in T
    <2> HIDE DEF T
    <2> QED BY <1>1, <1>2, Upwards
  <1> QED BY <1>0, <1>3

\* Of two of them, or of three.
LEMMA TotalChange2 ==
    ASSUME NEW to \in Nat, NEW g, NEW e, Summable(g, to), Summable(e, to),
           NEW a \in 0 .. to - 1, NEW b \in 0 .. to - 1, a # b,
           \A i \in 0 .. to - 1 : i # a /\ i # b => e[i] = g[i]
    PROVE  Total(e, to) = Total(g, to) + (e[a] - g[a]) + (e[b] - g[b])
  <1> DEFINE f == [i \in 0 .. to - 1 |-> IF i = a THEN e[a] ELSE g[i]]
  <1>1. \A i \in 0 .. to - 1 : g[i] \in Int /\ e[i] \in Int /\ f[i] = IF i = a THEN e[a] ELSE g[i]
    BY DEF Summable
  <1> HIDE DEF f
  <1>2. Summable(f, to)
    BY <1>1 DEF Summable
  <1>3. Total(f, to) = Total(g, to) + (f[a] - g[a])
    BY <1>1, <1>2, TotalChange
  <1>4. Total(e, to) = Total(f, to) + (e[b] - f[b])
    <2>1. \A i \in 0 .. to - 1 : i # b => e[i] = f[i]
      BY <1>1
    <2> QED BY <1>2, <2>1, TotalChange
  <1>5. f[a] = e[a] /\ f[b] = g[b] /\ Total(g, to) \in Int /\ Total(f, to) \in Int
    BY <1>1, <1>2, TotalType
  <1> QED BY <1>1, <1>3, <1>4, <1>5

\* A sum of which three terms change.
LEMMA TotalChange3 ==
    ASSUME NEW to \in Nat, NEW g, NEW e, Summable(g, to), Summable(e, to),
           NEW a \in 0 .. to - 1, NEW b \in 0 .. to - 1, NEW c \in 0 .. to - 1, a # b, a # c, b # c,
           \A i \in 0 .. to - 1 : i # a /\ i # b /\ i # c => e[i] = g[i]
    PROVE  Total(e, to) = Total(g, to) + (e[a] - g[a]) + (e[b] - g[b]) + (e[c] - g[c])
  <1> DEFINE f == [i \in 0 .. to - 1 |-> IF i = a THEN e[a] ELSE g[i]]
  <1>1. \A i \in 0 .. to - 1 : g[i] \in Int /\ e[i] \in Int /\ f[i] = IF i = a THEN e[a] ELSE g[i]
    BY DEF Summable
  <1> HIDE DEF f
  <1>2. Summable(f, to)
    BY <1>1 DEF Summable
  <1>3. Total(f, to) = Total(g, to) + (f[a] - g[a])
    BY <1>1, <1>2, TotalChange
  <1>4. Total(e, to) = Total(f, to) + (e[b] - f[b]) + (e[c] - f[c])
    BY <1>1, <1>2, TotalChange2
  <1>5. f[a] = e[a] /\ f[b] = g[b] /\ f[c] = g[c] /\ Total(g, to) \in Int /\ Total(f, to) \in Int
    BY <1>1, <1>2, TotalType
  <1> QED BY <1>1, <1>3, <1>4, <1>5

-----------------------------------------------------------------------------
(* Powers of two, and codes last bit first                                  *)

Doubles(m, p) == p \in [0 .. m -> Nat \ {0}] /\ p[0] = 1 /\ \A i \in 1 .. m : p[i] = 2 * p[i - 1]

\* The powers of two exist as a function.
LEMMA DoublesExist == ASSUME NEW m \in Nat PROVE \E p : Doubles(m, p)
  <1> DEFINE T == {l \in 0 .. m : \E p : Doubles(l, p)}
  <1>1. 0 \in T
    <2>1. Doubles(0, [i \in 0 .. 0 |-> 1])
      BY DEF Doubles
    <2> QED BY <2>1
  <1>2. ASSUME NEW l \in 0 .. m - 1, l \in T PROVE l + 1 \in T
    <2>1. PICK p : Doubles(l, p)
      BY <1>2
    <2> DEFINE q == [i \in 0 .. l + 1 |-> IF i = l + 1 THEN 2 * p[l] ELSE p[i]]
    <2>2. p \in [0 .. l -> Nat \ {0}] /\ p[0] = 1 /\ \A i \in 1 .. l : p[i] = 2 * p[i - 1]
      BY <2>1 DEF Doubles
    <2>3. q \in [0 .. l + 1 -> Nat \ {0}] /\ q[0] = 1
      BY <2>2
    <2>4. ASSUME NEW i \in 1 .. l + 1 PROVE q[i] = 2 * q[i - 1]
      <3>1. i - 1 \in 0 .. l /\ q[i - 1] = p[i - 1]
        OBVIOUS
      <3>2. CASE i = l + 1
        BY <3>1, <3>2
      <3>3. CASE i # l + 1
        <4>1. i \in 1 .. l /\ q[i] = p[i]
          BY <3>3
        <4> QED BY <2>2, <3>1, <4>1
      <3> QED BY <3>2, <3>3
    <2>5. Doubles(l + 1, q)
      BY <2>3, <2>4 DEF Doubles
    <2> QED BY <2>5
  <1>3. m \in T
    <2> HIDE DEF T
    <2> QED BY <1>1, <1>2, Upwards
  <1> QED BY <1>3

\* What Power2 is.
LEMMA Powers ==
    /\ Power2 \in [0 .. MAX_BITS -> Nat \ {0}] /\ Power2[0] = 1
    /\ \A i \in 0 .. MAX_BITS - 1 : Power2[i + 1] = 2 * Power2[i]
  <1> DEFINE F(p) == [i \in 0 .. MAX_BITS |-> IF i = 0 THEN 1 ELSE 2 * p[i - 1]]
  <1>0. MAX_BITS \in Nat
    BY LengthAssumption
  <1>1. PICK p : Doubles(MAX_BITS, p)
    BY <1>0, DoublesExist
  <1>2. p = F(p)
    BY <1>0, <1>1 DEF Doubles
  <1>3. Power2 = CHOOSE q : q = F(q)
    BY DEF Power2
  <1>4. Power2 = F(Power2)
    BY <1>2, <1>3
  <1>5. Power2[0] = 1 /\ \A i \in 0 .. MAX_BITS - 1 : Power2[i + 1] = 2 * Power2[i]
    <2>1. ASSUME NEW i \in 0 .. MAX_BITS - 1 PROVE Power2[i + 1] = 2 * Power2[i]
      <3>1. i + 1 \in 0 .. MAX_BITS /\ i + 1 # 0 /\ (i + 1) - 1 = i
        BY <1>0
      <3> QED BY <1>4, <3>1
    <2> QED BY <1>0, <1>4, <2>1
  <1> DEFINE T == {i \in 0 .. MAX_BITS : Power2[i] \in Nat \ {0}}
  <1>6. 0 \in T
    BY <1>0, <1>5
  <1>7. ASSUME NEW i \in 0 .. MAX_BITS - 1, i \in T PROVE i + 1 \in T
    BY <1>0, <1>5, <1>7
  <1>8. \A i \in 0 .. MAX_BITS : Power2[i] \in Nat \ {0}
    <2>1. \A i \in 0 .. MAX_BITS : i \in T
      <3> HIDE DEF T
      <3> QED BY <1>0, <1>6, <1>7, Upwards
    <2> QED BY <2>1
  <1>9. DOMAIN Power2 = 0 .. MAX_BITS
    BY <1>4
  <1>10. Power2 \in [0 .. MAX_BITS -> Nat \ {0}]
    <2>1. Power2 = [i \in 0 .. MAX_BITS |-> Power2[i]]
      <3> DEFINE f == Power2
      <3>1. f = F(f)
        BY <1>4
      <3> HIDE DEF f
      <3>2. f = [i \in 0 .. MAX_BITS |-> f[i]]
        BY <3>1
      <3> QED BY <3>2 DEF f
    <2> QED BY <1>8, <2>1
  <1> QED BY <1>5, <1>10

\* A greater power is a multiple.
LEMMA PowersMultiply ==
    ASSUME NEW i \in Nat, NEW j \in Nat, i + j <= MAX_BITS
    PROVE  /\ Power2[i] \in Nat \ {0} /\ Power2[j] \in Nat \ {0} /\ Power2[i + j] \in Nat \ {0}
           /\ Power2[i + j] = Power2[i] * Power2[j]
  <1>0. MAX_BITS \in Nat
    BY LengthAssumption
  <1>1. Power2[i] \in Nat \ {0} /\ Power2[j] \in Nat \ {0} /\ Power2[i + j] \in Nat \ {0}
    BY <1>0, Powers
  <1> DEFINE T == {m \in 0 .. j : Power2[i + m] = Power2[i] * Power2[m]}
  <1>2. 0 \in T
    BY <1>0, <1>1, Powers
  <1>3. ASSUME NEW m \in 0 .. j - 1, m \in T PROVE m + 1 \in T
    <2>1. m \in 0 .. MAX_BITS - 1 /\ i + m \in 0 .. MAX_BITS - 1 /\ (i + m) + 1 = i + (m + 1)
      BY <1>0
    <2>2. Power2[m + 1] = 2 * Power2[m] /\ Power2[i + (m + 1)] = 2 * Power2[i + m]
      BY <2>1, Powers
    <2>3. Power2[m] \in Nat /\ Power2[i + m] = Power2[i] * Power2[m]
      BY <1>0, <1>3, <2>1, Powers
    <2>4. \A a, b, c, d, e \in Nat : d = 2 * b /\ c = a * b /\ e = 2 * c => e = a * d
      OBVIOUS
    <2>5. Power2[m + 1] \in Nat /\ Power2[i + (m + 1)] \in Nat /\ Power2[i + m] \in Nat
      BY <1>0, <2>1, Powers
    <2>6. Power2[i + (m + 1)] = Power2[i] * Power2[m + 1]
      BY <1>1, <2>2, <2>3, <2>4, <2>5
    <2> QED BY <2>6
  <1>4. j \in T
    <2> HIDE DEF T
    <2> QED BY <1>2, <1>3, Upwards
  <1> QED BY <1>1, <1>4

\* Powers of two grow.
LEMMA PowersGrow ==
    ASSUME NEW i \in 0 .. MAX_BITS, NEW j \in 0 .. MAX_BITS, i <= j
    PROVE  Power2[i] \in Nat \ {0} /\ Power2[j] \in Nat \ {0} /\ Power2[i] <= Power2[j]
  <1>0. MAX_BITS \in Nat /\ j - i \in Nat /\ i \in Nat /\ i + (j - i) = j
    BY LengthAssumption
  <1>1. /\ Power2[i] \in Nat \ {0} /\ Power2[j - i] \in Nat \ {0} /\ Power2[j] \in Nat \ {0}
        /\ Power2[j] = Power2[i] * Power2[j - i]
    BY <1>0, PowersMultiply
  <1>2. \A a, b \in Nat \ {0} : a <= a * b
    OBVIOUS
  <1> QED BY <1>1, <1>2

-----------------------------------------------------------------------------

Reverses(m, r) ==
    /\ r \in [0 .. m -> [Nat -> Nat]]
    /\ \A c \in Nat : r[0][c] = 0
    /\ \A l \in 1 .. m, c \in Nat : r[l][c] = (c % 2) * Power2[l - 1] + r[l - 1][c \div 2]

\* A number is its half, twice, and its last bit.
LEMMA Halves ==
    ASSUME NEW c \in Nat
    PROVE  c \div 2 \in Nat /\ c % 2 \in {0, 1} /\ c = 2 * (c \div 2) + (c % 2)
  OBVIOUS

\* The table of reversed codes exists as a function.
LEMMA ReversesExist == \E r : Reverses(MAX_BITS, r)
  <1>0. MAX_BITS \in Nat
    BY LengthAssumption
  <1> DEFINE T == {l \in 0 .. MAX_BITS : \E r : Reverses(l, r)}
  <1>1. 0 \in T
    <2>1. Reverses(0, [i \in 0 .. 0 |-> [c \in Nat |-> 0]])
      BY DEF Reverses
    <2> QED BY <1>0, <2>1
  <1>2. ASSUME NEW l \in 0 .. MAX_BITS - 1, l \in T PROVE l + 1 \in T
    <2>1. PICK r : Reverses(l, r)
      BY <1>2
    <2>2. /\ r \in [0 .. l -> [Nat -> Nat]]
          /\ \A c \in Nat : r[0][c] = 0
          /\ \A i \in 1 .. l, c \in Nat : r[i][c] = (c % 2) * Power2[i - 1] + r[i - 1][c \div 2]
      BY <2>1 DEF Reverses
    <2> DEFINE more == [c \in Nat |-> (c % 2) * Power2[l] + r[l][c \div 2]]
               q == [i \in 0 .. l + 1 |-> IF i = l + 1 THEN more ELSE r[i]]
    <2>3. more \in [Nat -> Nat]
      <3>1. Power2[l] \in Nat
        BY <1>0, Powers
      <3>2. ASSUME NEW c \in Nat PROVE (c % 2) * Power2[l] + r[l][c \div 2] \in Nat
        <4>1. c \div 2 \in Nat /\ c % 2 \in {0, 1} /\ l \in 0 .. l /\ l \in Nat
          BY <1>0, Halves
        <4>2. r[l][c \div 2] \in Nat
          BY <2>2, <4>1
        <4> QED BY <3>1, <4>1, <4>2
      <3> QED BY <3>2
    <2>4. q \in [0 .. l + 1 -> [Nat -> Nat]]
      <3> DEFINE S == [Nat -> Nat]
      <3>1. l \in Nat
        BY <1>0
      <3>2. r \in [0 .. l -> S]
        BY <2>2
      <3>3. more \in S
        BY <2>3
      <3> HIDE DEF more, S
      <3>4. q \in [0 .. l + 1 -> S]
        BY <3>1, <3>2, <3>3
      <3> QED BY <3>4 DEF S
    <2>5. \A c \in Nat : q[0][c] = 0
      BY <2>2
    <2>6. ASSUME NEW i \in 1 .. l + 1, NEW c \in Nat
          PROVE  q[i][c] = (c % 2) * Power2[i - 1] + q[i - 1][c \div 2]
      <3>1. i - 1 \in 0 .. l /\ q[i - 1] = r[i - 1]
        OBVIOUS
      <3>2. CASE i = l + 1
        <4>1. q[i] = more /\ i - 1 = l
          BY <3>2
        <4> QED BY <3>1, <4>1
      <3>3. CASE i # l + 1
        <4>1. i \in 1 .. l /\ q[i] = r[i]
          BY <3>3
        <4> QED BY <2>2, <3>1, <4>1
      <3> QED BY <3>2, <3>3
    <2>7. Reverses(l + 1, q)
      <3> HIDE DEF q
      <3> QED BY <2>4, <2>5, <2>6 DEF Reverses
    <2> QED BY <1>0, <2>7
  <1>3. MAX_BITS \in T
    <2> HIDE DEF T
    <2> QED BY <1>0, <1>1, <1>2, Upwards
  <1> QED BY <1>3

\* What Reversed is.
LEMMA Reversal ==
    /\ \A c \in Nat : Reversed[0][c] = 0
    /\ \A l \in 0 .. MAX_BITS - 1, c \in Nat :
         Reversed[l + 1][c] = (c % 2) * Power2[l] + Reversed[l][c \div 2]
  <1>0. MAX_BITS \in Nat
    BY LengthAssumption
  <1> DEFINE G(r, l, c) == IF l = 0 THEN 0 ELSE (c % 2) * Power2[l - 1] + r[l - 1][c \div 2]
             F(r) == [l \in 0 .. MAX_BITS |-> [c \in Nat |-> G(r, l, c)]]
  <1>1. PICK r : Reverses(MAX_BITS, r)
    BY ReversesExist
  <1>2. r = F(r)
    <2>1. r \in [0 .. MAX_BITS -> [Nat -> Nat]]
      BY <1>1 DEF Reverses
    <2>2. ASSUME NEW l \in 0 .. MAX_BITS PROVE r[l] = [c \in Nat |-> G(r, l, c)]
      <3>1. r[l] \in [Nat -> Nat]
        BY <2>1
      <3>2. ASSUME NEW c \in Nat PROVE r[l][c] = G(r, l, c)
        <4>1. CASE l = 0
          BY <1>1, <4>1 DEF Reverses
        <4>2. CASE l # 0
          <5>1. l \in 1 .. MAX_BITS
            BY <1>0, <4>2
          <5> QED BY <1>1, <4>2, <5>1 DEF Reverses
        <4> QED BY <4>1, <4>2
      <3> HIDE DEF G
      <3> QED BY <3>1, <3>2
    <2> HIDE DEF G
    <2> QED BY <2>1, <2>2
  <1>3. Reversed = CHOOSE q : q = F(q)
    BY DEF Reversed
  <1>4. Reversed = F(Reversed)
    BY <1>2, <1>3
  <1>5. \A l \in 0 .. MAX_BITS, c \in Nat : Reversed[l][c] = G(Reversed, l, c)
    <2> DEFINE f == Reversed
    <2>1. f = F(f)
      BY <1>4
    <2> HIDE DEF f, G
    <2>2. ASSUME NEW l \in 0 .. MAX_BITS, NEW c \in Nat PROVE f[l][c] = G(f, l, c)
      <3>1. f[l] = [d \in Nat |-> G(f, l, d)]
        BY <2>1
      <3> DEFINE fl == f[l]
      <3>2. fl = [d \in Nat |-> G(f, l, d)]
        BY <3>1
      <3> HIDE DEF fl
      <3>3. fl[c] = G(f, l, c)
        BY <3>2
      <3> QED BY <3>3 DEF fl
    <2> QED BY <2>2 DEF f
  <1>6. \A c \in Nat : Reversed[0][c] = 0
    BY <1>0, <1>5
  <1>7. ASSUME NEW l \in 0 .. MAX_BITS - 1, NEW c \in Nat
        PROVE  Reversed[l + 1][c] = (c % 2) * Power2[l] + Reversed[l][c \div 2]
    <2>1. l + 1 \in 0 .. MAX_BITS /\ l + 1 # 0 /\ (l + 1) - 1 = l
      BY <1>0
    <2>2. Reversed[l + 1][c] = G(Reversed, l + 1, c)
      BY <1>5, <2>1
    <2> QED BY <2>1, <2>2
  <1> QED BY <1>6, <1>7

\* It has as many bits.
LEMMA ReversedFits ==
    \A l \in 0 .. MAX_BITS, c \in Nat : Reversed[l][c] \in 0 .. Power2[l] - 1
  <1>0. MAX_BITS \in Nat
    BY LengthAssumption
  <1> DEFINE T == {l \in 0 .. MAX_BITS : \A c \in Nat : Reversed[l][c] \in 0 .. Power2[l] - 1}
  <1>1. 0 \in T
    BY <1>0, Powers, Reversal
  <1>2. ASSUME NEW l \in 0 .. MAX_BITS - 1, l \in T PROVE l + 1 \in T
    <2>1. ASSUME NEW c \in Nat PROVE Reversed[l + 1][c] \in 0 .. Power2[l + 1] - 1
      <3>1. c \div 2 \in Nat /\ c % 2 \in {0, 1}
        BY Halves
      <3>2. Reversed[l][c \div 2] \in 0 .. Power2[l] - 1
        BY <1>2, <3>1
      <3>3. Power2[l] \in Nat /\ Power2[l + 1] = 2 * Power2[l]
        BY <1>0, Powers
      <3>4. Reversed[l + 1][c] = (c % 2) * Power2[l] + Reversed[l][c \div 2]
        BY Reversal
      <3> DEFINE r == Reversed[l][c \div 2]
                 d == c % 2
                 p == Power2[l]
      <3>5. r \in 0 .. p - 1 /\ d \in {0, 1} /\ p \in Nat
        BY <3>1, <3>2, <3>3
      <3> HIDE DEF r, d, p
      <3>6. d * p + r \in 0 .. 2 * p - 1
        BY <3>5
      <3> QED BY <3>3, <3>4, <3>6 DEF r, d, p
    <2> QED BY <1>0, <2>1
  <1>3. \A l \in 0 .. MAX_BITS : l \in T
    <2> HIDE DEF T
    <2> QED BY <1>0, <1>1, <1>2, Upwards
  <1> QED BY <1>3

\* Different codes of a length stay different.
LEMMA ReversedApart ==
    \A l \in 0 .. MAX_BITS : \A c, d \in 0 .. Power2[l] - 1 : Reversed[l][c] = Reversed[l][d] => c = d
  <1>0. MAX_BITS \in Nat
    BY LengthAssumption
  <1> DEFINE Apart(l) == \A c, d \in 0 .. Power2[l] - 1 : Reversed[l][c] = Reversed[l][d] => c = d
             T == {l \in 0 .. MAX_BITS : Apart(l)}
  <1>1. 0 \in T
    BY <1>0, Powers
  <1>2. ASSUME NEW l \in 0 .. MAX_BITS - 1, l \in T PROVE l + 1 \in T
    <2>1. ASSUME NEW c \in 0 .. Power2[l + 1] - 1, NEW d \in 0 .. Power2[l + 1] - 1,
                 Reversed[l + 1][c] = Reversed[l + 1][d]
          PROVE  c = d
      <3>0. Power2[l] \in Nat /\ Power2[l + 1] = 2 * Power2[l] /\ l \in 0 .. MAX_BITS
        BY <1>0, Powers
      <3>1. /\ c \in Nat /\ c \div 2 \in Nat /\ c % 2 \in {0, 1} /\ c = 2 * (c \div 2) + (c % 2)
            /\ d \in Nat /\ d \div 2 \in Nat /\ d % 2 \in {0, 1} /\ d = 2 * (d \div 2) + (d % 2)
        BY <3>0, Halves
      <3>2. c \div 2 \in 0 .. Power2[l] - 1 /\ d \div 2 \in 0 .. Power2[l] - 1
        BY <3>0, <3>1
      <3>3. /\ Reversed[l + 1][c] = (c % 2) * Power2[l] + Reversed[l][c \div 2]
            /\ Reversed[l + 1][d] = (d % 2) * Power2[l] + Reversed[l][d \div 2]
        BY <3>1, Reversal
      <3>4. /\ Reversed[l][c \div 2] \in 0 .. Power2[l] - 1
            /\ Reversed[l][d \div 2] \in 0 .. Power2[l] - 1
        BY <3>0, <3>1, ReversedFits
      <3>5. c % 2 = d % 2 /\ Reversed[l][c \div 2] = Reversed[l][d \div 2]
        <4> DEFINE p == Power2[l]
                   x == c % 2
                   y == d % 2
                   r == Reversed[l][c \div 2]
                   s == Reversed[l][d \div 2]
        <4>1. p \in Nat /\ x \in {0, 1} /\ y \in {0, 1} /\ r \in 0 .. p - 1 /\ s \in 0 .. p - 1
              /\ x * p + r = y * p + s
          BY <2>1, <3>0, <3>1, <3>3, <3>4
        <4> HIDE DEF p, x, y, r, s
        <4>2. x = y /\ r = s
          BY <4>1
        <4> QED BY <4>2 DEF x, y, r, s
      <3>6. c \div 2 = d \div 2
        BY <1>2, <3>2, <3>5
      <3> QED BY <3>1, <3>5, <3>6
    <2> QED BY <1>0, <2>1
  <1>3. \A l \in 0 .. MAX_BITS : l \in T
    <2> HIDE DEF T
    <2> QED BY <1>0, <1>1, <1>2, Upwards
  <1> QED BY <1>3

\* A reversed code that begins with another one is that one and more bits.
LEMMA ReversedBeginning ==
    ASSUME NEW i \in 0 .. MAX_BITS, NEW u \in 0 .. Power2[i] - 1, NEW j \in Nat, i + j <= MAX_BITS,
           NEW v \in 0 .. Power2[i + j] - 1, Reversed[i + j][v] % Power2[i] = Reversed[i][u]
    PROVE  u * Power2[j] <= v /\ v < (u + 1) * Power2[j]
  <1>0. MAX_BITS \in Nat /\ i \in Nat
    BY LengthAssumption
  <1>1. Power2[i] \in Nat \ {0}
    BY <1>0, Powers
  <1> DEFINE Begins(m) == \A w \in 0 .. Power2[i + m] - 1 :
                            Reversed[i + m][w] % Power2[i] = Reversed[i][u]
                               => u * Power2[m] <= w /\ w < (u + 1) * Power2[m]
             T == {m \in 0 .. j : Begins(m)}
  <1>2. 0 \in T
    <2>1. ASSUME NEW w \in 0 .. Power2[i + 0] - 1, Reversed[i + 0][w] % Power2[i] = Reversed[i][u]
          PROVE  u * Power2[0] <= w /\ w < (u + 1) * Power2[0]
      <3>1. i + 0 = i /\ w \in Nat /\ w \in 0 .. Power2[i] - 1
        BY <1>0, <1>1
      <3>2. Reversed[i][w] \in 0 .. Power2[i] - 1
        BY <3>1, ReversedFits
      <3>3. Reversed[i][w] % Power2[i] = Reversed[i][w]
        BY <1>1, <3>2
      <3>4. Reversed[i][w] = Reversed[i][u]
        BY <2>1, <3>1, <3>3
      <3>5. w = u
        BY <3>1, <3>4, ReversedApart
      <3> QED BY <1>1, <3>1, <3>5, Powers
    <2> QED BY <2>1
  <1>3. ASSUME NEW m \in 0 .. j - 1, m \in T PROVE m + 1 \in T
    <2>1. ASSUME NEW w \in 0 .. Power2[i + (m + 1)] - 1,
                 Reversed[i + (m + 1)][w] % Power2[i] = Reversed[i][u]
          PROVE  u * Power2[m + 1] <= w /\ w < (u + 1) * Power2[m + 1]
      <3>1. /\ i + (m + 1) = (i + m) + 1 /\ i + m \in 0 .. MAX_BITS - 1 /\ m \in 0 .. MAX_BITS - 1
            /\ i + m \in 0 .. MAX_BITS /\ m \in Nat
        BY <1>0
      <3>2. /\ Power2[i + m] \in Nat \ {0} /\ Power2[i + (m + 1)] = 2 * Power2[i + m]
            /\ Power2[m] \in Nat \ {0} /\ Power2[m + 1] = 2 * Power2[m]
            /\ Power2[i + m] = Power2[i] * Power2[m]
        <4>0. Power2[m + 1] = 2 * Power2[m]
          BY <3>1, Powers
        <4>1. Power2[i + m] \in Nat \ {0} /\ Power2[m] \in Nat \ {0}
          BY <1>0, <3>1, PowersMultiply
        <4>2. Power2[(i + m) + 1] = 2 * Power2[i + m]
          BY <3>1, Powers
        <4>3. Power2[i + m] = Power2[i] * Power2[m]
          BY <1>0, <3>1, PowersMultiply
        <4> QED BY <3>1, <4>0, <4>1, <4>2, <4>3
      <3>3. w \in Nat /\ w \div 2 \in Nat /\ w % 2 \in {0, 1} /\ w = 2 * (w \div 2) + (w % 2)
        BY <3>2, Halves
      <3>4. w \div 2 \in 0 .. Power2[i + m] - 1
        BY <3>2, <3>3
      <3>5. Reversed[i + (m + 1)][w] = (w % 2) * Power2[i + m] + Reversed[i + m][w \div 2]
        BY <3>1, <3>3, Reversal
      <3>6. Reversed[i + m][w \div 2] \in Nat
        BY <3>1, <3>2, <3>3, ReversedFits
      <3>7. Reversed[i + (m + 1)][w] % Power2[i] = Reversed[i + m][w \div 2] % Power2[i]
        <4>1. ASSUME NEW p \in Nat \ {0}, NEW q \in Nat, NEW r \in Nat
              PROVE  (p * q + r) % p = r % p
          <5>1. r % p \in 0 .. p - 1 /\ r \div p \in Nat /\ r = p * (r \div p) + (r % p)
            OBVIOUS
          <5> DEFINE x == r \div p
                     y == r % p
          <5>2. y \in 0 .. p - 1 /\ x \in Nat /\ r = p * x + y
            BY <5>1
          <5> HIDE DEF x, y
          <5>3. p * q + r = p * (q + x) + y /\ q + x \in Nat /\ p * q + r \in Nat
            BY <5>2
          <5>4. \A z \in Nat, a \in Nat, b \in 0 .. p - 1 : z = p * a + b => z % p = b
            OBVIOUS
          <5>5. (p * q + r) % p = y
            BY <5>2, <5>3, <5>4
          <5> QED BY <5>5 DEF y
        <4>2. CASE w % 2 = 0
          BY <3>2, <3>5, <3>6, <4>2
        <4>3. CASE w % 2 = 1
          <5>1. Reversed[i + (m + 1)][w] = Power2[i] * Power2[m] + Reversed[i + m][w \div 2]
            BY <3>2, <3>5, <3>6, <4>3
          <5>2. Power2[i] \in Nat \ {0} /\ Power2[m] \in Nat /\ Reversed[i + m][w \div 2] \in Nat
            BY <1>1, <3>2, <3>6
          <5>3. (Power2[i] * Power2[m] + Reversed[i + m][w \div 2]) % Power2[i]
                  = Reversed[i + m][w \div 2] % Power2[i]
            BY <4>1, <5>2
          <5> QED BY <5>1, <5>3
        <4> QED BY <3>3, <4>2, <4>3
      <3>8. u * Power2[m] <= w \div 2 /\ w \div 2 < (u + 1) * Power2[m]
        BY <1>3, <2>1, <3>4, <3>7
      <3>9. \A a, b, p, q \in Nat : b = 2 * p => u * b = 2 * (u * p) /\ (u + 1) * b = 2 * ((u + 1) * p)
        BY <1>1
      <3>10. /\ u * Power2[m + 1] = 2 * (u * Power2[m])
             /\ (u + 1) * Power2[m + 1] = 2 * ((u + 1) * Power2[m])
        BY <3>2, <3>9
      <3> DEFINE low == u * Power2[m]
                 high == (u + 1) * Power2[m]
                 half == w \div 2
                 d == w % 2
      <3>11. low \in Int /\ high \in Int /\ low <= half /\ half < high /\ half \in Nat /\ d \in {0, 1}
             /\ w = 2 * half + d
        BY <1>1, <3>2, <3>3, <3>8
      <3> HIDE DEF low, high, half, d
      <3>12. 2 * low <= w /\ w < 2 * high
        BY <3>11
      <3> QED BY <3>10, <3>12 DEF low, high
    <2> QED BY <2>1
  <1>4. j \in T
    <2> HIDE DEF T
    <2> QED BY <1>2, <1>3, Upwards
  <1> QED BY <1>4

-----------------------------------------------------------------------------
(* The invariants                                                           *)

TypeOK ==
    /\ freq \in [Symbols -> Nat] /\ fc \in [Nodes -> Nat] /\ dl \in [Nodes -> Nat]
    /\ depth \in [Nodes -> Nat]
    /\ heap \in [0 .. HEAP_SIZE - 1 -> Nodes] /\ heap_len \in Nat /\ heap_max \in Nat
    /\ node \in elems .. 2 * elems - 1 /\ max_code \in -1 .. elems - 1
    /\ opt_len \in Int /\ stat_len \in Int
    /\ bl_count \in [0 .. MAX_BITS -> Nat] /\ overflow \in Int /\ cut \in BOOLEAN
    /\ next_code \in [1 .. MAX_BITS -> Nat] /\ code \in Nat
    /\ n \in Nat /\ h \in Nat /\ k \in Nat \ {0} /\ bits \in Nat
    /\ after \in {"heapify", "join", "joined"}
    /\ pc \in {"count", "heapify", "sift", "remove", "join", "joined", "lengths", "overflow",
               "reassign", "first", "codes", "done"}

Building == pc \in {"heapify", "sift", "remove", "join", "joined"}
Measuring == pc \in {"lengths", "overflow", "reassign"}
Held == pc = "join" \/ (pc = "sift" /\ after = "join")

\* The leaves and the fathers of the tree, and the places of the heap that have them: the
\* queue at its beginning, and those that have a father, sorted, at its end.
Leaf == {i \in Symbols : fc[i] # 0}
Made == elems .. node - 1
Joins == node - elems
Queue == 1 .. heap_len
Sorted == heap_max .. HEAP_SIZE - 1
Places == IF Building THEN Queue \cup Sorted ELSE Sorted

\* The father of the node at place j.
Father(j) == elems + ((HEAP_SIZE - 1 - j) \div 2)

\* How many symbols a set has.
Count(S) == Total([i \in Symbols |-> IF i \in S THEN 1 ELSE 0], elems)

Forced == {i \in Symbols : fc[i] # freq[i]}
ForcedInv ==
    /\ \A i \in Forced : freq[i] = 0 /\ fc[i] = 1 /\ i <= 2
    /\ (Building \/ Measuring) /\ Forced # {} => Count(Leaf) = 2

CountInv ==
    /\ n <= elems /\ node = elems /\ heap_max = HEAP_SIZE /\ heap_len <= elems
    /\ heap_len = Count({i \in Leaf : i < n})
    /\ \A q \in Queue : heap[q] \in Leaf /\ heap[q] < n
    /\ \A q, r \in Queue : heap[q] = heap[r] => q = r
    /\ \A i \in Leaf : i < n => (\E q \in Queue : heap[q] = i) /\ i <= max_code
    /\ max_code < n
    /\ heap_len = 0 => max_code = -1
    /\ heap_len = 1 => max_code = heap[1]
    /\ \A i \in Symbols : i < n /\ i \notin Leaf => dl[i] = 0
    /\ Forced # {} => n = elems /\ heap_len <= 2

Placed ==
    /\ \A q \in Places : heap[q] \in Leaf \cup Made
    /\ \A q, r \in Places : heap[q] = heap[r] => q = r
    /\ \A x \in Leaf \cup Made : (\E q \in Places : heap[q] = x) \/ (Held /\ x = n)
    /\ \A j \in Sorted : heap[j] < Father(j)
    /\ \A i \in Symbols : i \notin Leaf => dl[i] = 0
    /\ \A i \in Leaf : i <= max_code

QueueInv ==
    /\ heap_max = HEAP_SIZE - 2 * Joins
    /\ heap_len + Joins + (IF Held THEN 1 ELSE 0) = Count(Leaf)
    /\ heap_len >= 1
    /\ pc \in {"heapify", "remove"} \/ (pc = "sift" /\ after = "heapify") => heap_len >= 2
    /\ pc = "joined" \/ (pc = "sift" /\ after = "joined") => Joins >= 1
    /\ Held => n \in Leaf \cup Made /\ \A q \in Places : heap[q] # n
    /\ \A j \in Sorted : dl[heap[j]] = Father(j)

TreeInv ==
    /\ Joins >= 1 /\ Joins + 1 = Count(Leaf)
    /\ heap_max = HEAP_SIZE - 2 * Joins - 1 /\ heap[heap_max] = node - 1

\* The nodes that have their lengths, and what is open below them.
Seen == {heap[j] : j \in heap_max .. h - 1}
Open == [j \in 0 .. HEAP_SIZE - 1 |->
           IF j >= h /\ Father(j) \in Seen THEN Power2[max_length - dl[Father(j)]] ELSE 0]
OpenLong == [j \in 0 .. HEAP_SIZE - 1 |->
               IF j >= h /\ Father(j) \in Seen /\ dl[Father(j)] = max_length THEN 1 ELSE 0]
LeafAt == [j \in 0 .. HEAP_SIZE - 1 |-> IF j >= heap_max /\ heap[j] \in Leaf THEN 1 ELSE 0]

\* What leaves of these lengths take of the space the longest ones have.
Space(c) == Total([b \in 0 .. max_length |-> c[b] * Power2[max_length - b]], max_length + 1)

InLimits ==
    /\ bl_count[0] = 0
    /\ \A b \in max_length + 1 .. MAX_BITS : bl_count[b] = 0

LengthsInv ==
    /\ h \in heap_max + 1 .. HEAP_SIZE
    /\ \A j \in h .. HEAP_SIZE - 1 : dl[heap[j]] = Father(j)
    /\ dl[heap[heap_max]] = 0
    /\ \A j \in heap_max + 1 .. h - 1 : dl[heap[j]] \in 1 .. max_length
    /\ \A b \in 0 .. MAX_BITS : bl_count[b] = Count({i \in Leaf : i \in Seen /\ dl[i] = b})
    /\ Total(bl_count, MAX_BITS + 1) = Total(LeafAt, h)
    /\ InLimits
    /\ overflow >= 0
    /\ 2 * Space(bl_count) + Total(Open, HEAP_SIZE) = 2 * Power2[max_length] + overflow
    /\ 2 * bl_count[max_length] + Total(OpenLong, HEAP_SIZE) >= overflow
    /\ Joins = 1 => overflow = 0 /\ \A i \in Leaf : i \in Seen => dl[i] = 1

OverflowInv ==
    /\ h = HEAP_SIZE /\ Joins >= 2
    /\ InLimits
    /\ overflow > 0
    /\ 2 * Space(bl_count) = 2 * Power2[max_length] + overflow
    /\ 2 * bl_count[max_length] >= overflow
    /\ Total(bl_count, MAX_BITS + 1) = Total(LeafAt, HEAP_SIZE)
    /\ \A i \in Leaf : dl[i] \in 1 .. max_length

Given == {heap[j] : j \in h .. HEAP_SIZE - 1}
ReassignInv ==
    /\ h \in heap_max .. HEAP_SIZE /\ bits \in 1 .. max_length /\ n <= bl_count[bits] /\ Joins >= 2
    /\ InLimits
    /\ Space(bl_count) = Power2[max_length]
    /\ Total(LeafAt, h) = Total(bl_count, bits) + n
    /\ \A b \in 0 .. MAX_BITS :
         Count({i \in Leaf : i \in Given /\ dl[i] = b})
           = IF b > bits THEN bl_count[b] ELSE IF b = bits THEN bl_count[b] - n ELSE 0
    /\ \A i \in Leaf : dl[i] \in 1 .. max_length

\* The costs of the leaves in P, less those of the symbols that were forced.
OptCost(P) == [i \in Symbols |-> (IF i \in P /\ i \in Leaf THEN fc[i] * (dl[i] + xbits(i)) ELSE 0)
                                   - (IF i \in Forced THEN 1 ELSE 0)]
StatCost(P) == [i \in Symbols |->
                  (IF HasStatic /\ i \in P /\ i \in Leaf THEN fc[i] * (static_len[i] + xbits(i)) ELSE 0)
                    - (IF HasStatic /\ i \in Forced THEN static_len[i] ELSE 0)]
Measured == IF pc = "count" \/ Building THEN {} ELSE IF pc = "lengths" THEN Seen ELSE Symbols
CostInv ==
    pc \notin {"first", "codes", "done"} =>
        opt_len = Total(OptCost(Measured), elems) /\ stat_len = Total(StatCost(Measured), elems)

\* The space codes of a length take, and those of all shorter ones.
Weight(b) == Power2[MAX_BITS - b]
Taken(b) == Total([c \in 0 .. MAX_BITS |-> bl_count[c] * Weight(c)], b)

LengthsMade ==
    /\ \A i \in Symbols : dl[i] <= max_length
    /\ \A i \in Symbols : freq[i] # 0 => dl[i] # 0
    /\ \A i \in Symbols : dl[i] # 0 => i <= max_code
    /\ (\E i \in Coded : freq[i] = 0) => Cardinality(Coded) = 2
    /\ opt_len = Cost(dl) /\ stat_len = IF HasStatic THEN Cost(static_len) ELSE 0
    /\ bl_count[0] = 0
    /\ \A b \in 1 .. MAX_BITS : bl_count[b] = Count({i \in Symbols : dl[i] = b})
    /\ Taken(MAX_BITS + 1) = Power2[MAX_BITS]

FirstInv ==
    /\ bits \in 1 .. MAX_BITS + 1
    /\ code * Weight(bits - 1) = Taken(bits - 1)
    /\ \A b \in 1 .. bits - 1 : next_code[b] * Weight(b) = Taken(b)

CodesInv ==
    /\ code + bl_count[MAX_BITS] = Power2[MAX_BITS]
    /\ \A b \in 1 .. MAX_BITS :
         next_code[b] * Weight(b) = Taken(b) + Count({i \in Symbols : i < n /\ dl[i] = b}) * Weight(b)
    /\ pc = "done" => n > max_code

\* The code u of a symbol, first bit first: it comes after those of the symbols of its
\* length before it.
Before(i) == Count({j \in Symbols : j < i /\ dl[j] = dl[i]})
HandedOut ==
    \A i \in Symbols : i < n /\ dl[i] # 0 =>
      \E u \in 0 .. Power2[dl[i]] - 1 :
        /\ fc[i] = Reversed[dl[i]][u]
        /\ u * Weight(dl[i]) = Taken(dl[i]) + Before(i) * Weight(dl[i])

IInv ==
    /\ TypeOK
    /\ pc \notin {"codes", "done"} => ForcedInv
    /\ pc = "count" => CountInv
    /\ Building \/ Measuring => Placed
    /\ Building => QueueInv
    /\ Measuring => TreeInv
    /\ pc = "lengths" => LengthsInv
    /\ pc = "overflow" => OverflowInv
    /\ pc = "reassign" => ReassignInv
    /\ CostInv
    /\ pc \in {"first", "codes", "done"} => LengthsMade
    /\ pc = "first" => FirstInv
    /\ pc \in {"codes", "done"} => CodesInv /\ HandedOut

-----------------------------------------------------------------------------
(* Counting symbols                                                         *)

\* What the assumptions say of the sizes, and what the sets of indices are.
LEMMA Sizes ==
    /\ elems \in Nat /\ elems >= 3 /\ HEAP_SIZE \in Nat /\ HEAP_SIZE >= 2 * elems + 1
    /\ MAX_BITS \in Nat /\ max_length \in 1 .. MAX_BITS
    /\ Symbols = 0 .. elems - 1 /\ Nodes = 0 .. 2 * elems - 2 /\ Symbols \subseteq Nodes
  <1>1. elems \in Nat /\ elems >= 3 /\ HEAP_SIZE \in Nat /\ HEAP_SIZE >= 2 * elems + 1
        /\ MAX_BITS \in Nat /\ max_length \in 1 .. MAX_BITS
    BY LengthAssumption
  <1> QED BY <1>1 DEF Symbols, Nodes

\* The sizes without the sets.
LEMMA Numbers ==
    /\ elems \in Nat /\ elems >= 3 /\ HEAP_SIZE \in Nat /\ HEAP_SIZE >= 2 * elems + 1
    /\ MAX_BITS \in Nat /\ max_length \in Nat /\ max_length >= 1 /\ max_length <= MAX_BITS
  BY LengthAssumption

\* A count is a natural number, at most that of all symbols.
LEMMA CountType ==
    ASSUME NEW S
    PROVE  Count(S) \in Nat /\ Count(S) <= elems
  <1> DEFINE g == [i \in Symbols |-> IF i \in S THEN 1 ELSE 0]
             e == [i \in Symbols |-> 1]
  <1>1. /\ \A i \in 0 .. elems - 1 : g[i] \in Nat /\ g[i] <= e[i] /\ e[i] = 1
        /\ elems \in Nat
    BY Sizes
  <1>2. Count(S) = Total(g, elems)
    BY DEF Count
  <1> HIDE DEF g, e
  <1>3. Total(g, elems) \in Nat /\ Summable(g, elems)
    BY <1>1, TotalNat
  <1>4. Total(e, elems) = elems /\ Summable(e, elems)
    BY <1>1, TotalOnes
  <1>5. Total(g, elems) <= Total(e, elems)
    BY <1>1, <1>3, <1>4, TotalMost
  <1> QED BY <1>2, <1>3, <1>4, <1>5

\* No symbols count nothing.
LEMMA CountNone ==
    ASSUME NEW S, \A i \in Symbols : i \notin S
    PROVE  Count(S) = 0
  <1> DEFINE g == [i \in Symbols |-> IF i \in S THEN 1 ELSE 0]
  <1>1. elems \in Nat /\ \A i \in 0 .. elems - 1 : g[i] = 0
    BY Sizes
  <1>2. Count(S) = Total(g, elems)
    BY DEF Count
  <1> HIDE DEF g
  <1> QED BY <1>1, <1>2, TotalZero

\* The same symbols count the same.
LEMMA CountSame ==
    ASSUME NEW S, NEW R, \A i \in Symbols : i \in S <=> i \in R
    PROVE  Count(S) = Count(R)
  <1>1. [i \in Symbols |-> IF i \in S THEN 1 ELSE 0] = [i \in Symbols |-> IF i \in R THEN 1 ELSE 0]
    OBVIOUS
  <1> QED BY <1>1 DEF Count

\* One symbol more.
LEMMA CountOneMore ==
    ASSUME NEW S, NEW R, NEW x \in Symbols, x \notin S, x \in R,
           \A i \in Symbols : i # x => (i \in S <=> i \in R)
    PROVE  Count(R) = Count(S) + 1
  <1> DEFINE g == [i \in Symbols |-> IF i \in S THEN 1 ELSE 0]
             e == [i \in Symbols |-> IF i \in R THEN 1 ELSE 0]
  <1>1. /\ elems \in Nat /\ x \in 0 .. elems - 1 /\ g[x] = 0 /\ e[x] = 1
        /\ \A i \in 0 .. elems - 1 : g[i] \in Nat /\ e[i] \in Nat /\ (i # x => e[i] = g[i])
    BY Sizes
  <1>2. Count(S) = Total(g, elems) /\ Count(R) = Total(e, elems)
    BY DEF Count
  <1> HIDE DEF g, e
  <1>3. Summable(g, elems) /\ Summable(e, elems)
    BY <1>1 DEF Summable
  <1>4. Total(e, elems) = Total(g, elems) + (e[x] - g[x])
    BY <1>1, <1>3, TotalChange
  <1>5. Total(g, elems) \in Int
    BY <1>1, <1>3, TotalType
  <1> QED BY <1>1, <1>2, <1>4, <1>5

\* Some of the symbols count no more than all.
LEMMA CountLess ==
    ASSUME NEW S, NEW R, \A i \in Symbols : i \in S => i \in R
    PROVE  Count(S) <= Count(R)
  <1> DEFINE g == [i \in Symbols |-> IF i \in S THEN 1 ELSE 0]
             e == [i \in Symbols |-> IF i \in R THEN 1 ELSE 0]
  <1>1. elems \in Nat /\ \A i \in 0 .. elems - 1 : g[i] \in Nat /\ e[i] \in Nat /\ g[i] <= e[i]
    BY Sizes
  <1>2. Count(S) = Total(g, elems) /\ Count(R) = Total(e, elems)
    BY DEF Count
  <1> HIDE DEF g, e
  <1>3. Summable(g, elems) /\ Summable(e, elems)
    BY <1>1 DEF Summable
  <1> QED BY <1>1, <1>2, <1>3, TotalMost

\* One less counts less.
LEMMA CountStrict ==
    ASSUME NEW S, NEW R, NEW x \in Symbols, x \notin S, x \in R, \A i \in Symbols : i \in S => i \in R
    PROVE  Count(S) + 1 <= Count(R)
  <1>1. Count(S \cup {x}) = Count(S) + 1
    BY CountOneMore
  <1>2. Count(S \cup {x}) <= Count(R)
    BY CountLess
  <1> QED BY <1>1, <1>2

\* Sums over the symbols.
LEMMA SymbolsSummable ==
    ASSUME NEW g, \A i \in Symbols : g[i] \in Int
    PROVE  Summable(g, elems) /\ Total(g, elems) \in Int /\ elems \in Nat
  <1>1. elems \in Nat /\ \A i \in 0 .. elems - 1 : g[i] \in Int
    BY Sizes
  <1>2. Summable(g, elems)
    BY <1>1 DEF Summable
  <1> QED BY <1>1, <1>2, TotalType

\* A sum over the symbols of which one term changes.
LEMMA SymbolsChange ==
    ASSUME NEW g, NEW e, NEW x \in Symbols, \A i \in Symbols : g[i] \in Int /\ e[i] \in Int,
           \A i \in Symbols : i # x => e[i] = g[i]
    PROVE  Total(e, elems) = Total(g, elems) + (e[x] - g[x]) /\ Total(g, elems) \in Int
  <1>1. Summable(g, elems) /\ Total(g, elems) \in Int /\ elems \in Nat /\ Summable(e, elems)
    BY SymbolsSummable
  <1>2. x \in 0 .. elems - 1 /\ \A i \in 0 .. elems - 1 : i # x => e[i] = g[i]
    BY Sizes
  <1> QED BY <1>1, <1>2, TotalChange

\* The costs, while no length is known.
LEMMA CostsNone ==
    /\ OptCost({}) = [i \in Symbols |-> IF i \in Forced THEN -1 ELSE 0]
    /\ StatCost({}) = [i \in Symbols |-> IF HasStatic /\ i \in Forced THEN -static_len[i] ELSE 0]
  <1>1. OptCost({}) = [i \in Symbols |-> IF i \in Forced THEN -1 ELSE 0]
    BY DEF OptCost
  <1>2. StatCost({}) = [i \in Symbols |-> IF HasStatic /\ i \in Forced THEN -static_len[i] ELSE 0]
    <2>1. ASSUME NEW i \in Symbols
          PROVE  (IF HasStatic /\ i \in {} /\ i \in Leaf THEN fc[i] * (static_len[i] + xbits(i)) ELSE 0)
                    - (IF HasStatic /\ i \in Forced THEN static_len[i] ELSE 0)
                   = IF HasStatic /\ i \in Forced THEN -static_len[i] ELSE 0
      <3>1. HasStatic => static_len[i] \in Nat
        BY BitsAssumption
      <3> QED BY <3>1
    <2> QED BY <2>1 DEF StatCost
  <1> QED BY <1>1, <1>2

\* They stay while the frequencies do.
LEMMA CostsNoneFrame ==
    ASSUME UNCHANGED <<opt_len, stat_len>>, Forced' = Forced, CostInv,
           pc = "count" \/ Building, (pc = "count" \/ Building)'
    PROVE  CostInv'
  <1>1. Measured = {} /\ Measured' = {} /\ pc \notin {"first", "codes", "done"}
    BY DEF Measured, Building
  <1>2. Forced' = Forced
    OBVIOUS
  <1>3. OptCost({}) = OptCost({})' /\ StatCost({}) = StatCost({})'
    BY <1>2 DEF OptCost, StatCost
  <1>4. opt_len = Total(OptCost({}), elems) /\ stat_len = Total(StatCost({}), elems)
    BY <1>1 DEF CostInv
  <1>5. OptCost(Measured)' = OptCost({}) /\ StatCost(Measured)' = StatCost({})
    BY <1>1, <1>3 DEF OptCost, StatCost
  <1> QED BY <1>4, <1>5 DEF CostInv

-----------------------------------------------------------------------------
(* build_tree: the heap                                                     *)

\* What init_block and the last block left satisfies the invariant.
LEMMA InitInv == Init => IInv
  <1> SUFFICES ASSUME Init PROVE IInv
    OBVIOUS
  <1>1. /\ freq \in [Symbols -> Nat] /\ fc = [i \in Nodes |-> IF i \in Symbols THEN freq[i] ELSE 0]
        /\ pc = "count" /\ n = 0 /\ heap_len = 0 /\ max_code = -1 /\ node = elems /\ heap_max = HEAP_SIZE
        /\ opt_len = 0 /\ stat_len = 0
    BY FrequenciesAssumption DEF Init
  <1>2. TypeOK
    <2>1. max_length \in Nat
      BY Sizes
    <2>2. /\ dl \in [Nodes -> Nat] /\ depth \in [Nodes -> Nat] /\ heap \in [0 .. HEAP_SIZE - 1 -> Nodes]
          /\ bl_count \in [0 .. MAX_BITS -> Nat] /\ next_code \in [1 .. MAX_BITS -> Nat]
      <3>1. 0 \in Nodes
        BY Sizes
      <3> QED BY <2>1, <3>1 DEF Init
    <2>3. fc \in [Nodes -> Nat]
      BY <1>1
    <2>4. /\ overflow = 0 /\ cut = FALSE /\ code = 0 /\ h = 0 /\ k = 1 /\ bits = 0 /\ after = "heapify"
      BY DEF Init
    <2>5. node \in elems .. 2 * elems - 1 /\ max_code \in -1 .. elems - 1
      BY <1>1, Numbers
    <2>6. /\ heap_len \in Nat /\ heap_max \in Nat /\ opt_len \in Int /\ stat_len \in Int /\ overflow \in Int
          /\ code \in Nat /\ n \in Nat /\ h \in Nat /\ k \in Nat \ {0} /\ bits \in Nat
      <3>1. heap_len = 0 /\ heap_max = HEAP_SIZE /\ opt_len = 0 /\ stat_len = 0 /\ n = 0
        BY <1>1
      <3> QED BY <2>4, <3>1, Numbers
    <2>8. cut \in BOOLEAN
      BY <2>4
    <2>7. freq \in [Symbols -> Nat] /\ pc = "count" /\ after = "heapify"
      BY <1>1, <2>4
    <2> QED BY <2>2, <2>3, <2>5, <2>6, <2>7, <2>8 DEF TypeOK
  <1>3. Forced = {}
    BY <1>1, Sizes DEF Forced
  <1>4. CountInv
    <2>1. Count({i \in Leaf : i < 0}) = 0
      <3>1. \A i \in Symbols : i \notin {j \in Leaf : j < 0}
        BY Sizes
      <3> QED BY <3>1, CountNone
    <2> QED BY <1>1, <1>3, <2>1, Sizes DEF CountInv, Queue, Leaf
  <1>5. CostInv
    <2>1. \A i \in 0 .. elems - 1 : OptCost({})[i] = 0 /\ StatCost({})[i] = 0
      BY <1>3, CostsNone, Sizes
    <2>2. Total(OptCost({}), elems) = 0 /\ Total(StatCost({}), elems) = 0
      BY <2>1, Sizes, TotalZero
    <2> QED BY <1>1, <2>2 DEF CostInv, Measured
  <1> QED BY <1>1, <1>2, <1>3, <1>4, <1>5 DEF IInv, ForcedInv, Building, Measuring

\* Taking a symbol that occurs into the heap, or leaving one out that does not.
LEMMA CountSymbolInv == IInv /\ CountSymbol => IInv'
  <1> SUFFICES ASSUME IInv, CountSymbol PROVE IInv'
    OBVIOUS
  <1>1. TypeOK /\ ForcedInv /\ CountInv /\ CostInv /\ pc = "count" /\ n < elems
    BY DEF IInv, CountSymbol
  <1>2. /\ n' = n + 1 /\ pc' = "count"
        /\ UNCHANGED <<freq, fc, heap_max, node, opt_len, stat_len, bl_count, overflow, cut,
                       next_code, code, h, k, bits, after>>
    BY <1>1 DEF CountSymbol, costs, counts, codes
  <1>3. n \in Symbols /\ n \in Nodes /\ n \in Nat
    BY <1>1, Sizes DEF TypeOK
  <1>4. heap_len + 1 \in 0 .. HEAP_SIZE - 1 /\ heap_len \in Nat
    <2>1. heap_len \in Nat
      BY <1>1 DEF TypeOK
    <2>2. heap_len <= elems
      BY <1>1 DEF CountInv
    <2> QED BY <2>1, <2>2, Numbers
  <1>5. Leaf' = Leaf /\ Forced' = Forced /\ Forced = {}
    BY <1>1, <1>2 DEF Leaf, Forced, CountInv, TypeOK
  <1>6. ForcedInv'
    BY <1>1, <1>2, <1>5 DEF ForcedInv, Building, Measuring
  <1>7. CostInv'
    BY <1>1, <1>2, <1>5, CostsNoneFrame
  <1>8. CASE fc[n] # 0
    <2>1. /\ heap' = [heap EXCEPT ![heap_len + 1] = n] /\ heap_len' = heap_len + 1 /\ max_code' = n
          /\ depth' = [depth EXCEPT ![n] = 0] /\ dl' = dl
      BY <1>8 DEF CountSymbol
    <2>2. TypeOK'
      <3>1. heap' \in [0 .. HEAP_SIZE - 1 -> Nodes] /\ depth' \in [Nodes -> Nat]
        BY <1>1, <1>3, <2>1 DEF TypeOK
      <3>2. n' \in Nat /\ heap_len' \in Nat /\ max_code' \in -1 .. elems - 1
        BY <1>1, <1>2, <1>3, <1>4, <2>1, Numbers
      <3> QED BY <1>1, <1>2, <2>1, <3>1, <3>2 DEF TypeOK
    <2>3. n \in Leaf
      BY <1>3, <1>8 DEF Leaf
    <2>4. heap_len' = Count({i \in Leaf : i < n'}) /\ heap_len' <= elems
      <3>1. Count({i \in Leaf : i < n + 1}) = Count({i \in Leaf : i < n}) + 1
        <4>1. \A i \in Symbols : i # n => (i \in {j \in Leaf : j < n} <=> i \in {j \in Leaf : j < n + 1})
          BY <1>3, Sizes
        <4> QED BY <1>3, <2>3, <4>1, CountOneMore
      <3>2. Count({i \in Leaf : i < n + 1}) <= elems
        BY CountType
      <3> QED BY <1>1, <1>2, <2>1, <3>1, <3>2 DEF CountInv
    <2>5. /\ heap'[heap_len + 1] = n
          /\ \A q \in Queue : heap'[q] = heap[q] /\ heap[q] \in Leaf /\ heap[q] < n
          /\ Queue' = Queue \cup {heap_len + 1} /\ heap_len + 1 \notin Queue
      <3>1. heap' = [heap EXCEPT ![heap_len + 1] = n] /\ heap \in [0 .. HEAP_SIZE - 1 -> Nodes]
        BY <1>1, <2>1 DEF TypeOK
      <3>2. heap_len + 1 \notin Queue /\ Queue' = Queue \cup {heap_len + 1}
        BY <1>4, <2>1 DEF Queue
      <3>3. \A q \in Queue : q \in 0 .. HEAP_SIZE - 1 /\ q # heap_len + 1
        BY <1>4, Numbers DEF Queue
      <3> QED BY <1>1, <1>4, <3>1, <3>2, <3>3 DEF CountInv
    <2>6. \A i \in Leaf : i < n + 1 => i < n \/ i = n
      BY <1>3, Sizes DEF Leaf
    <2>7. CountInv'
      <3>1. \A q \in Queue' : heap'[q] \in Leaf /\ heap'[q] < n'
        <4>1. \A q \in Queue : heap[q] \in Nat
          BY <2>5, Sizes DEF Leaf
        <4> QED BY <1>2, <1>3, <2>3, <2>5, <4>1
      <3>2. \A q, r \in Queue' : heap'[q] = heap'[r] => q = r
        BY <1>1, <1>3, <2>5 DEF CountInv
      <3>3. \A i \in Leaf : i < n' => (\E q \in Queue' : heap'[q] = i) /\ i <= max_code'
        <4>1. ASSUME NEW i \in Leaf, i < n PROVE (\E q \in Queue' : heap'[q] = i) /\ i <= n
          <5>1. PICK q \in Queue : heap[q] = i
            BY <1>1, <4>1 DEF CountInv
          <5> QED BY <1>3, <2>5, <4>1, <5>1, Sizes DEF Leaf
        <4> QED BY <1>2, <1>3, <2>1, <2>5, <2>6, <4>1
      <3>4. heap_len' = 1 => max_code' = heap'[1]
        BY <1>4, <2>1, <2>5
      <3>5. \A i \in Symbols : i < n' /\ i \notin Leaf => dl'[i] = 0
        <4>1. \A i \in Symbols : i < n + 1 /\ i \notin Leaf => i < n
          BY <1>3, <2>3, Sizes
        <4> QED BY <1>1, <1>2, <2>1, <4>1 DEF CountInv
      <3>6. heap_len' # 0 /\ max_code' < n' /\ n' <= elems
        BY <1>1, <1>2, <1>3, <1>4, <2>1, Sizes
      <3> QED BY <1>1, <1>2, <1>5, <2>4, <3>1, <3>2, <3>3, <3>4, <3>5, <3>6 DEF CountInv
    <2> QED BY <1>2, <1>6, <1>7, <2>2, <2>7 DEF IInv, Building, Measuring
  <1>9. CASE fc[n] = 0
    <2>1. dl' = [dl EXCEPT ![n] = 0] /\ UNCHANGED <<heap, heap_len, max_code, depth>>
      BY <1>9 DEF CountSymbol
    <2>2. TypeOK'
      <3>1. dl' \in [Nodes -> Nat]
        BY <1>1, <1>3, <2>1 DEF TypeOK
      <3> QED BY <1>1, <1>2, <1>3, <2>1, <3>1 DEF TypeOK
    <2>3. n \notin Leaf
      BY <1>9 DEF Leaf
    <2>4. {i \in Leaf : i < n'} = {i \in Leaf : i < n}
      BY <1>2, <1>3, <2>3, Sizes DEF Leaf
    <2>5. Queue' = Queue
      BY <2>1 DEF Queue
    <2>6. CountInv'
      <3>1. \A q \in Queue' : heap'[q] \in Leaf /\ heap'[q] < n'
        <4>1. \A q \in Queue : heap[q] \in Leaf /\ heap[q] < n /\ heap[q] \in Nat
          BY <1>1, Sizes DEF CountInv, Leaf
        <4> QED BY <1>2, <1>3, <2>1, <2>5, <4>1
      <3>2. \A i \in Leaf : i < n' => (\E q \in Queue' : heap'[q] = i) /\ i <= max_code'
        <4>1. \A i \in Leaf : i < n' => i < n
          BY <2>4
        <4> QED BY <1>1, <2>1, <2>5, <4>1 DEF CountInv
      <3>3. \A i \in Symbols : i < n' /\ i \notin Leaf => dl'[i] = 0
        <4>1. ASSUME NEW i \in Symbols, i < n', i \notin Leaf PROVE dl'[i] = 0
          <5>1. CASE i = n
            BY <1>1, <1>3, <2>1, <5>1 DEF TypeOK
          <5>2. CASE i # n
            <6>1. i < n
              BY <1>2, <1>3, <4>1, <5>2, Sizes
            <6> QED BY <1>1, <2>1, <4>1, <5>2, <6>1, Sizes DEF CountInv, TypeOK
          <5> QED BY <5>1, <5>2
        <4> QED BY <4>1
      <3>4. max_code' < n' /\ n' <= elems
        BY <1>1, <1>2, <1>3, <2>1, Sizes DEF CountInv, TypeOK
      <3> QED BY <1>1, <1>2, <1>5, <2>1, <2>4, <2>5, <3>1, <3>2, <3>3, <3>4 DEF CountInv
    <2> QED BY <1>2, <1>6, <1>7, <2>2, <2>6 DEF IInv, Building, Measuring
  <1> QED BY <1>8, <1>9

\* Forcing a symbol when less than two occur.
LEMMA ForceSymbolInv == IInv /\ ForceSymbol => IInv'
  <1> SUFFICES ASSUME IInv, ForceSymbol PROVE IInv'
    OBVIOUS
  <1>1. TypeOK /\ ForcedInv /\ CountInv /\ CostInv /\ pc = "count" /\ n = elems /\ heap_len < 2
    BY DEF IInv, ForceSymbol
  <1> DEFINE new == IF max_code < 2 THEN max_code + 1 ELSE 0
  <1>2. /\ pc' = "count" /\ heap_len' = heap_len + 1 /\ heap' = [heap EXCEPT ![heap_len + 1] = new]
        /\ max_code' = IF max_code < 2 THEN new ELSE max_code
        /\ fc' = [fc EXCEPT ![new] = 1] /\ depth' = [depth EXCEPT ![new] = 0]
        /\ opt_len' = opt_len - 1 /\ stat_len' = stat_len - IF HasStatic THEN static_len[new] ELSE 0
        /\ UNCHANGED <<freq, dl, heap_max, node, bl_count, overflow, cut, next_code, code, n, h, k,
                       bits, after>>
    BY <1>1 DEF ForceSymbol, OffCost, counts, codes
  <1>3. /\ fc \in [Nodes -> Nat] /\ freq \in [Symbols -> Nat] /\ heap \in [0 .. HEAP_SIZE - 1 -> Nodes]
        /\ depth \in [Nodes -> Nat] /\ heap_len \in Nat /\ max_code \in -1 .. elems - 1
        /\ opt_len \in Int /\ stat_len \in Int
    BY <1>1 DEF TypeOK
  <1>4. /\ \A q \in Queue : heap[q] \in Leaf
        /\ \A q, r \in Queue : heap[q] = heap[r] => q = r
        /\ \A i \in Leaf : (\E q \in Queue : heap[q] = i) /\ i <= max_code
        /\ heap_len = 0 => max_code = -1
        /\ heap_len = 1 => max_code = heap[1]
        /\ node = elems /\ heap_max = HEAP_SIZE
    <2>1. \A i \in Leaf : i < n
      BY <1>1, Sizes DEF Leaf
    <2> QED BY <1>1, <2>1 DEF CountInv
  <1>5. new \in Symbols /\ new \in Nodes /\ new \in Nat /\ new <= 2
    BY <1>3, Sizes, SMTT(30)
  <1>6. new \notin Leaf
    <2>1. CASE max_code < 2
      <3>1. new > max_code
        BY <1>3, <2>1
      <3> QED BY <1>3, <1>4, <1>5, <3>1
    <2>2. CASE max_code >= 2
      <3>1. heap_len = 1 /\ Queue = {1}
        BY <1>1, <1>3, <1>4, <2>2 DEF Queue
      <3>2. new = 0 /\ \A i \in Leaf : i = max_code
        BY <1>3, <1>4, <2>2, <3>1
      <3> QED BY <1>3, <2>2, <3>2
    <2> QED BY <1>3, <2>1, <2>2
  <1> HIDE DEF new
  <1>7. fc[new] = 0 /\ new \notin Forced /\ freq[new] = 0
    <2>1. fc[new] = 0
      BY <1>5, <1>6 DEF Leaf
    <2>2. new \notin Forced
      BY <1>1, <2>1 DEF ForcedInv
    <2> QED BY <1>5, <2>1, <2>2 DEF Forced
  <1>8. Leaf' = Leaf \cup {new} /\ Forced' = Forced \cup {new}
    <2>1. \A i \in Symbols : fc'[i] = IF i = new THEN 1 ELSE fc[i]
      BY <1>2, <1>3, <1>5, Sizes
    <2> QED BY <1>2, <1>5, <1>7, <2>1 DEF Leaf, Forced
  <1>9. heap_len + 1 \in 0 .. HEAP_SIZE - 1
    BY <1>1, <1>3, Numbers
  <1>10. TypeOK'
    <2>1. fc' \in [Nodes -> Nat] /\ depth' \in [Nodes -> Nat] /\ heap' \in [0 .. HEAP_SIZE - 1 -> Nodes]
      BY <1>2, <1>3, <1>5
    <2>2. max_code' \in -1 .. elems - 1
      BY <1>2, <1>3, <1>5, Numbers
    <2>3. opt_len' \in Int /\ stat_len' \in Int
      <3>1. HasStatic => static_len[new] \in Nat
        BY <1>5, BitsAssumption
      <3> QED BY <1>2, <1>3, <3>1
    <2>4. heap_len' \in Nat
      BY <1>2, <1>3
    <2> QED BY <1>1, <1>2, <2>1, <2>2, <2>3, <2>4 DEF TypeOK
  <1>11. ForcedInv'
    <2>1. \A i \in Forced' : freq'[i] = 0 /\ fc'[i] = 1 /\ i <= 2
      BY <1>1, <1>2, <1>3, <1>5, <1>7, <1>8, Sizes DEF ForcedInv, Forced
    <2> QED BY <1>2, <2>1 DEF ForcedInv, Building, Measuring
  <1>12. CountInv'
    <2>1. /\ Queue' = Queue \cup {heap_len + 1} /\ heap_len + 1 \notin Queue
          /\ heap'[heap_len + 1] = new /\ \A q \in Queue : heap'[q] = heap[q]
      <3>1. Queue' = Queue \cup {heap_len + 1} /\ heap_len + 1 \notin Queue
        BY <1>2, <1>3 DEF Queue
      <3>2. \A q \in Queue : q \in 0 .. HEAP_SIZE - 1
        BY <1>1, <1>3, Numbers DEF Queue
      <3> QED BY <1>2, <1>3, <1>9, <3>1, <3>2
    <2>2. heap_len' = Count({i \in Leaf' : i < n'})
      <3>1. heap_len = Count({i \in Leaf : i < n})
        BY <1>1 DEF CountInv
      <3>2. \A i \in Symbols : i < n
        BY <1>1, Sizes
      <3>3. Count({i \in Leaf' : i < n}) = Count({i \in Leaf : i < n}) + 1
        <4>1. new \notin {i \in Leaf : i < n} /\ new \in {i \in Leaf' : i < n}
          BY <1>5, <1>6, <1>8, <3>2
        <4>2. \A i \in Symbols : i # new => (i \in {j \in Leaf : j < n} <=> i \in {j \in Leaf' : j < n})
          BY <1>8
        <4> QED BY <1>5, <4>1, <4>2, CountOneMore
      <3> QED BY <1>2, <3>1, <3>3
    <2>3. \A q \in Queue' : heap'[q] \in Leaf' /\ heap'[q] < n'
      <3>1. \A i \in Leaf' : i < n'
        BY <1>1, <1>2, <1>5, <1>8, Sizes DEF Leaf
      <3> QED BY <1>4, <1>8, <2>1, <3>1
    <2>4. \A q, r \in Queue' : heap'[q] = heap'[r] => q = r
      BY <1>4, <1>6, <2>1
    <2>5. \A i \in Leaf' : i < n' => (\E q \in Queue' : heap'[q] = i) /\ i <= max_code'
      <3>1. max_code <= max_code' /\ new <= max_code'
        BY <1>2, <1>3, <1>5 DEF new
      <3>2. \A i \in Leaf : i <= max_code'
        <4>1. \A i \in Leaf : i \in Int /\ i <= max_code
          BY <1>4, Sizes DEF Leaf
        <4>2. max_code' \in Int
          BY <1>10 DEF TypeOK
        <4> QED BY <1>3, <3>1, <4>1, <4>2
      <3> QED BY <1>4, <1>8, <2>1, <3>1, <3>2
    <2>6. max_code' < n'
      BY <1>1, <1>2, <1>3, <1>5, Numbers
    <2>7. heap_len' = 1 => max_code' = heap'[1]
      <3>1. ASSUME heap_len' = 1 PROVE max_code' = heap'[1]
        <4>1. heap_len = 0 /\ max_code = -1
          BY <1>2, <1>3, <1>4, <3>1
        <4> QED BY <1>2, <2>1, <4>1
      <3> QED BY <3>1
    <2>8. \A i \in Symbols : i < n' /\ i \notin Leaf' => dl'[i] = 0
      BY <1>1, <1>2, <1>8 DEF CountInv
    <2>9. heap_len' # 0 /\ heap_len' <= elems /\ heap_len' <= 2 /\ n' = elems /\ n' <= elems
      BY <1>1, <1>2, <1>3, Numbers
    <2> QED BY <1>2, <1>4, <2>2, <2>3, <2>4, <2>5, <2>6, <2>7, <2>8, <2>9 DEF CountInv
  <1>13. CostInv'
    <2>1. Measured = {} /\ Measured' = {}
      BY <1>1, <1>2 DEF Measured
    <2>2. opt_len = Total(OptCost({}), elems) /\ stat_len = Total(StatCost({}), elems)
      BY <1>1, <2>1 DEF CostInv
    <2> DEFINE o == OptCost({})
               s == StatCost({})
               op == OptCost({})'
               sp == StatCost({})'
    <2>3. /\ o = [i \in Symbols |-> IF i \in Forced THEN -1 ELSE 0]
          /\ s = [i \in Symbols |-> IF HasStatic /\ i \in Forced THEN -static_len[i] ELSE 0]
      BY CostsNone
    <2>4. /\ op = [i \in Symbols |-> IF i \in Forced' THEN -1 ELSE 0]
          /\ sp = [i \in Symbols |-> IF HasStatic /\ i \in Forced' THEN -static_len[i] ELSE 0]
      <3>1. op = [i \in Symbols |-> IF i \in Forced' THEN -1 ELSE 0]
        BY DEF OptCost
      <3>2. \A i \in Symbols : HasStatic => static_len[i] \in Nat
        BY BitsAssumption
      <3>3. \A i \in Symbols : (IF HasStatic /\ i \in {} /\ i \in Leaf' THEN fc'[i] * (static_len[i] + xbits(i)) ELSE 0)
                    - (IF HasStatic /\ i \in Forced' THEN static_len[i] ELSE 0)
                   = IF HasStatic /\ i \in Forced' THEN -static_len[i] ELSE 0
        BY <3>2
      <3>4. sp = [i \in Symbols |-> IF HasStatic /\ i \in Forced' THEN -static_len[i] ELSE 0]
        BY <3>3 DEF StatCost
      <3> QED BY <3>1, <3>4
    <2> HIDE DEF o, s, op, sp
    <2>5. \A i \in Symbols : HasStatic => static_len[i] \in Nat
      BY BitsAssumption
    <2>6. /\ \A i \in Symbols : o[i] \in Int /\ s[i] \in Int /\ op[i] \in Int /\ sp[i] \in Int
          /\ \A i \in Symbols : i # new => op[i] = o[i] /\ sp[i] = s[i]
          /\ op[new] = -1 /\ o[new] = 0 /\ sp[new] = (IF HasStatic THEN -static_len[new] ELSE 0) /\ s[new] = 0
      BY <1>5, <1>7, <1>8, <2>3, <2>4, <2>5
    <2>7. Total(op, elems) = Total(o, elems) + (op[new] - o[new]) /\ Total(o, elems) \in Int
      BY <1>5, <2>6, SymbolsChange
    <2>8. Total(sp, elems) = Total(s, elems) + (sp[new] - s[new]) /\ Total(s, elems) \in Int
      BY <1>5, <2>6, SymbolsChange
    <2>9. opt_len' = Total(op, elems) /\ stat_len' = Total(sp, elems)
      <3>1. HasStatic => static_len[new] \in Nat
        BY <1>5, <2>5
      <3>2. Total(o, elems) = opt_len /\ Total(s, elems) = stat_len
        BY <2>2 DEF o, s
      <3>3. opt_len' = Total(op, elems)
        BY <1>2, <2>6, <2>7, <3>2
      <3>4. stat_len' = Total(sp, elems)
        BY <1>2, <2>6, <2>8, <3>1, <3>2
      <3> QED BY <3>3, <3>4
    <2>10. OptCost(Measured)' = op /\ StatCost(Measured)' = sp
      BY <2>1 DEF op, sp, OptCost, StatCost
    <2> QED BY <2>9, <2>10 DEF CostInv
  <1> QED BY <1>2, <1>10, <1>11, <1>12, <1>13 DEF IInv, Building, Measuring

\* The heap has all leaves, and at least two.
LEMMA HeapFilledInv == IInv /\ HeapFilled => IInv'
  <1> SUFFICES ASSUME IInv, HeapFilled PROVE IInv'
    OBVIOUS
  <1>1. TypeOK /\ ForcedInv /\ CountInv /\ CostInv /\ pc = "count" /\ n = elems /\ heap_len >= 2
    BY DEF IInv, HeapFilled
  <1>2. /\ n' = heap_len \div 2 /\ pc' = "heapify"
        /\ UNCHANGED <<freq, fc, dl, depth, heap, heap_len, heap_max, node, max_code, opt_len, stat_len,
                       bl_count, overflow, cut, next_code, code, h, k, bits, after>>
    BY <1>1 DEF HeapFilled, tree, queue, costs, counts, codes
  <1>3. heap_len \in Nat /\ node = elems /\ heap_max = HEAP_SIZE /\ elems \in Nat /\ HEAP_SIZE \in Nat
    BY <1>1, Numbers DEF TypeOK, CountInv
  <1>4. TypeOK'
    <2>1. n' \in Nat
      BY <1>2, <1>3
    <2> QED BY <1>1, <1>2, <2>1 DEF TypeOK
  <1>5. Leaf' = Leaf /\ Forced' = Forced /\ Made = {} /\ Made' = {} /\ Joins' = 0 /\ Sorted = {} /\ Sorted' = {}
        /\ Queue' = Queue /\ Places' = Queue /\ ~Held'
    <2>1. Leaf' = Leaf /\ Forced' = Forced /\ Queue' = Queue
      BY <1>2 DEF Leaf, Forced, Queue
    <2>2. Made = {} /\ Made' = {} /\ Joins' = 0 /\ Sorted = {} /\ Sorted' = {}
      BY <1>2, <1>3 DEF Made, Joins, Sorted
    <2>3. Places' = Queue /\ ~Held'
      BY <1>2, <2>1, <2>2 DEF Places, Building, Held
    <2> QED BY <2>1, <2>2, <2>3
  <1>6. \A i \in Symbols : i < n
    BY <1>1, Sizes
  <1>7. {i \in Leaf : i < n} = Leaf /\ \A i \in Leaf : i \in Symbols /\ i < n
    BY <1>6 DEF Leaf
  <1>8. heap_len = Count(Leaf)
    BY <1>1, <1>7 DEF CountInv
  <1>9. ForcedInv'
    <2>1. Forced # {} => Count(Leaf) = 2
      BY <1>1, <1>3, <1>8 DEF CountInv
    <2>2. Count(Leaf)' = Count(Leaf)
      BY <1>5 DEF Count
    <2> QED BY <1>1, <1>2, <1>5, <2>1, <2>2 DEF ForcedInv
  <1>10. Placed'
    <2>1. \A q \in Queue : heap[q] \in Leaf
      BY <1>1 DEF CountInv
    <2>2. \A q, r \in Queue : heap[q] = heap[r] => q = r
      BY <1>1 DEF CountInv
    <2>3. \A x \in Leaf : (\E q \in Queue : heap[q] = x) /\ x <= max_code
      BY <1>1, <1>7 DEF CountInv
    <2>4. \A i \in Symbols : i \notin Leaf => dl[i] = 0
      BY <1>1, <1>6 DEF CountInv
    <2> QED BY <1>2, <1>5, <2>1, <2>2, <2>3, <2>4 DEF Placed
  <1>11. QueueInv'
    <2>1. Count(Leaf)' = Count(Leaf)
      BY <1>5 DEF Count
    <2>2. heap_len' + Joins' + (IF Held' THEN 1 ELSE 0) = Count(Leaf)'
      BY <1>2, <1>3, <1>5, <1>8, <2>1
    <2>3. heap_max' = HEAP_SIZE - 2 * Joins' /\ heap_len' >= 1 /\ heap_len' >= 2
      BY <1>1, <1>2, <1>3, <1>5
    <2> QED BY <1>2, <1>5, <2>2, <2>3 DEF QueueInv
  <1>12. CostInv'
    BY <1>1, <1>2, <1>5, CostsNoneFrame DEF Building
  <1> QED BY <1>2, <1>4, <1>9, <1>10, <1>11, <1>12 DEF IInv, Building, Measuring

-----------------------------------------------------------------------------
(* build_tree: the queue                                                    *)

\* The places of the queue and those of the sorted nodes are apart.
LEMMA Room ==
    ASSUME TypeOK, QueueInv
    PROVE  /\ Joins \in Nat /\ heap_len \in Nat /\ heap_len >= 1 /\ heap_len + Joins <= elems
           /\ Held => heap_len + Joins + 1 <= elems
           /\ heap_max + 2 * Joins = HEAP_SIZE /\ heap_max \in Nat
           /\ heap_len < heap_max /\ heap_max >= 3 /\ (Held => heap_len + 2 < heap_max)
           /\ node = elems + Joins
           /\ \A q \in Queue : q \in 1 .. HEAP_SIZE - 1 /\ q \notin Sorted
           /\ \A j \in Sorted : j \in 1 .. HEAP_SIZE - 1
  <1>1. Joins \in Nat /\ heap_len \in Nat /\ heap_max \in Nat /\ node = elems + Joins
    BY Numbers DEF TypeOK, Joins
  <1>2. Count(Leaf) \in Nat /\ Count(Leaf) <= elems
    BY CountType
  <1>3. heap_len + Joins + (IF Held THEN 1 ELSE 0) = Count(Leaf) /\ heap_len >= 1
        /\ heap_max = HEAP_SIZE - 2 * Joins
    BY DEF QueueInv
  <1>4. heap_len + Joins <= elems /\ (Held => heap_len + Joins + 1 <= elems)
    BY <1>1, <1>2, <1>3, Numbers
  <1>5. heap_max + 2 * Joins = HEAP_SIZE /\ heap_len < heap_max /\ heap_max >= 3
        /\ (Held => heap_len + 2 < heap_max)
    BY <1>1, <1>3, <1>4, Numbers
  <1>6. \A q \in Queue : q \in 1 .. HEAP_SIZE - 1 /\ q \notin Sorted
    BY <1>1, <1>5, Numbers DEF Queue, Sorted
  <1>7. \A j \in Sorted : j \in 1 .. HEAP_SIZE - 1
    BY <1>1, <1>5, Numbers DEF Queue, Sorted
  <1> QED BY <1>1, <1>3, <1>4, <1>5, <1>6, <1>7

\* What is left of the tree when only the queue changes.
LEMMA TreeFrame ==
    ASSUME UNCHANGED <<freq, fc, dl, node, heap_max, max_code>>
    PROVE  /\ Leaf' = Leaf /\ Forced' = Forced /\ Made' = Made /\ Joins' = Joins /\ Sorted' = Sorted
           /\ Count(Leaf)' = Count(Leaf)
  BY DEF Leaf, Forced, Made, Joins, Sorted, Count

\* The forced symbols stay what they are while their frequencies do.
LEMMA ForcedFrame ==
    ASSUME UNCHANGED freq, Forced' = Forced, \A i \in Symbols : fc'[i] = fc[i], Leaf' = Leaf,
           Building \/ Measuring, ForcedInv
    PROVE  ForcedInv'
  <1>1. Count(Leaf)' = Count(Leaf)
    BY DEF Count
  <1>2. \A i \in Forced : i \in Symbols
    BY DEF Forced
  <1> QED BY <1>1, <1>2 DEF ForcedInv

\* Starting pqdownheap from the next father, or going on to the loop.
LEMMA HeapifyInv == IInv /\ Heapify => IInv'
  <1> SUFFICES ASSUME IInv, Heapify PROVE IInv'
    OBVIOUS
  <1>1. TypeOK /\ ForcedInv /\ Placed /\ QueueInv /\ CostInv /\ pc = "heapify" /\ Building
    BY DEF IInv, Heapify, Building
  <1>2. UNCHANGED <<freq, fc, dl, depth, heap, heap_len, heap_max, node, max_code, opt_len, stat_len,
                    bl_count, overflow, cut, next_code, code, h, bits>>
    BY DEF Heapify, tree, queue, costs, counts, codes
  <1>3. \/ n >= 1 /\ k' = n /\ after' = "heapify" /\ pc' = "sift" /\ n' = n - 1
        \/ n = 0 /\ pc' = "remove" /\ UNCHANGED <<n, k, after>>
    BY DEF Heapify, Sift
  <1>4. TypeOK'
    <2>1. n' \in Nat /\ k' \in Nat \ {0} /\ after' \in {"heapify", "join", "joined"}
      BY <1>1, <1>3 DEF TypeOK
    <2>2. pc' \in {"sift", "remove"}
      BY <1>3
    <2> QED BY <1>1, <1>2, <2>1, <2>2 DEF TypeOK
  <1>5. Building' /\ ~Held /\ ~Held'
    BY <1>1, <1>3 DEF Building, Held
  <1>6. /\ Leaf' = Leaf /\ Forced' = Forced /\ Made' = Made /\ Joins' = Joins /\ Sorted' = Sorted
        /\ Count(Leaf)' = Count(Leaf)
    BY <1>2, TreeFrame
  <1>7. Queue' = Queue /\ Places' = Places
    BY <1>1, <1>2, <1>5, <1>6 DEF Places, Queue
  <1>8. Placed'
    BY <1>1, <1>2, <1>5, <1>6, <1>7 DEF Placed, Father
  <1>9. QueueInv'
    <2>1. heap_len >= 2
      BY <1>1 DEF QueueInv
    <2>2. ~(pc' = "joined" \/ (pc' = "sift" /\ after' = "joined"))
      BY <1>3
    <2> QED BY <1>1, <1>2, <1>5, <1>6, <2>1, <2>2 DEF QueueInv, Father
  <1>10. ForcedInv'
    BY <1>1, <1>2, <1>6, ForcedFrame
  <1>11. CostInv'
    BY <1>1, <1>2, <1>6, <1>5, CostsNoneFrame
  <1> QED BY <1>3, <1>4, <1>5, <1>8, <1>9, <1>10, <1>11 DEF IInv, Building, Measuring

\* A turn of pqdownheap changes the order of the queue and nothing else.
LEMMA pqdownheapInv == IInv /\ pqdownheap => IInv'
  <1> SUFFICES ASSUME IInv, pqdownheap PROVE IInv'
    OBVIOUS
  <1>1. TypeOK /\ ForcedInv /\ Placed /\ QueueInv /\ CostInv /\ pc = "sift" /\ Building
    BY DEF IInv, pqdownheap, Building
  <1>2. UNCHANGED <<freq, fc, dl, depth, heap_len, heap_max, node, max_code, opt_len, stat_len,
                    bl_count, overflow, cut, next_code, code, n, h, bits, after>>
    BY DEF pqdownheap, tree, costs, counts, codes
  <1>3. /\ Leaf' = Leaf /\ Forced' = Forced /\ Made' = Made /\ Joins' = Joins /\ Sorted' = Sorted
        /\ Count(Leaf)' = Count(Leaf)
    BY <1>2, TreeFrame
  <1>4. after \in {"heapify", "join", "joined"} /\ heap \in [0 .. HEAP_SIZE - 1 -> Nodes] /\ k \in Nat \ {0}
        /\ heap_len \in Nat
    BY <1>1 DEF TypeOK
  <1>5. CASE pc' = after /\ UNCHANGED <<heap, k>>
    <2>1. TypeOK'
      <3>1. pc' \in {"heapify", "join", "joined"}
        BY <1>4, <1>5
      <3> QED BY <1>1, <1>2, <1>5, <3>1 DEF TypeOK
    <2>2. Building' /\ (Held' <=> Held)
      BY <1>1, <1>2, <1>4, <1>5 DEF Building, Held
    <2>3. Queue' = Queue /\ Places' = Places
      BY <1>1, <1>2, <1>3, <2>2 DEF Places, Queue
    <2>4. Placed'
      BY <1>1, <1>2, <1>3, <1>5, <2>2, <2>3 DEF Placed, Father
    <2>5. QueueInv'
      <3>1. pc' \in {"heapify", "remove"} \/ (pc' = "sift" /\ after' = "heapify") => heap_len >= 2
        BY <1>1, <1>2, <1>4, <1>5 DEF QueueInv
      <3>2. pc' = "joined" \/ (pc' = "sift" /\ after' = "joined") => Joins >= 1
        BY <1>1, <1>2, <1>4, <1>5 DEF QueueInv
      <3> QED BY <1>1, <1>2, <1>3, <1>5, <2>2, <2>3, <3>1, <3>2 DEF QueueInv, Father
    <2>6. ForcedInv'
      BY <1>1, <1>2, <1>3, ForcedFrame
    <2>7. CostInv'
      BY <1>1, <1>2, <1>3, <2>2, CostsNoneFrame
    <2>8. pc' \in {"heapify", "join", "joined"}
      BY <1>4, <1>5
    <2> QED BY <2>1, <2>2, <2>4, <2>5, <2>6, <2>7, <2>8 DEF IInv, Building, Measuring
  <1>6. CASE /\ 2 * k <= heap_len /\ pc' = pc /\ k' = Son
             /\ heap' = [heap EXCEPT ![k] = heap[Son], ![Son] = heap[k]]
    <2>1. Son \in Queue /\ k \in Queue /\ Son # k /\ Son \in Nat \ {0}
      <3>1. Son = 2 * k \/ (Son = 2 * k + 1 /\ 2 * k < heap_len)
        BY DEF Son
      <3> QED BY <1>4, <1>6, <3>1 DEF Queue
    <2>2. Building' /\ (Held' <=> Held) /\ pc' = "sift"
      BY <1>1, <1>2, <1>6 DEF Building, Held
    <2>3. Queue' = Queue /\ Places' = Places /\ Places = Queue \cup Sorted
      BY <1>1, <1>2, <1>3, <2>2 DEF Places, Queue
    <2>4. /\ \A q \in Queue : q \in 1 .. HEAP_SIZE - 1 /\ q \notin Sorted
          /\ \A q \in Sorted : q \in 1 .. HEAP_SIZE - 1
      BY <1>1, Room
    <2> DEFINE to(q) == IF q = k THEN Son ELSE IF q = Son THEN k ELSE q
    <2>5. \A q \in Places : to(q) \in Places /\ heap'[q] = heap[to(q)] /\ to(to(q)) = q
      <3>1. \A q \in Places : q \in 0 .. HEAP_SIZE - 1
        BY <2>3, <2>4
      <3>2. \A q \in Places : to(q) \in Places /\ to(to(q)) = q
        BY <2>1, <2>3
      <3>3. k \in Places /\ Son \in Places
        BY <2>1, <2>3
      <3>4. \A q \in Places : heap'[q] = IF q = Son THEN heap[k] ELSE IF q = k THEN heap[Son] ELSE heap[q]
        BY <1>4, <1>6, <3>1, <3>3
      <3> QED BY <2>1, <3>2, <3>4
    <2>6. \A j \in Sorted : heap'[j] = heap[j]
      BY <2>1, <2>3, <2>4, <2>5
    <2> HIDE DEF to
    <2>7. TypeOK'
      <3>1. heap' \in [0 .. HEAP_SIZE - 1 -> Nodes]
        <4>1. Son \in 0 .. HEAP_SIZE - 1 /\ k \in 0 .. HEAP_SIZE - 1
          BY <2>1, <2>4
        <4> QED BY <1>4, <1>6, <4>1
      <3> QED BY <1>1, <1>2, <1>6, <2>1, <3>1 DEF TypeOK
    <2>8. Placed'
      <3>1. \A q \in Places' : heap'[q] \in Leaf \cup Made
        BY <1>1, <2>3, <2>5 DEF Placed
      <3>2. \A q, r \in Places' : heap'[q] = heap'[r] => q = r
        <4>1. \A q, r \in Places : heap'[q] = heap'[r] => to(q) = to(r)
          BY <1>1, <2>5 DEF Placed
        <4>2. \A q, r \in Places : to(q) = to(r) => q = r
          BY <2>5
        <4> QED BY <2>3, <4>1, <4>2
      <3>3. \A x \in Leaf \cup Made : (\E q \in Places' : heap'[q] = x) \/ (Held' /\ x = n')
        <4>1. ASSUME NEW x \in Leaf \cup Made, NEW q \in Places, heap[q] = x
              PROVE  \E r \in Places : heap'[r] = x
          <5>1. to(q) \in Places /\ heap'[to(q)] = x
            BY <2>5, <4>1
          <5> QED BY <5>1
        <4> QED BY <1>1, <1>2, <2>2, <2>3, <4>1 DEF Placed
      <3>4. \A j \in Sorted' : heap'[j] < Father(j)
        BY <1>1, <1>3, <2>6 DEF Placed
      <3>5. Father(0)' = Father(0) /\ \A j \in Sorted : Father(j)' = Father(j)
        BY DEF Father
      <3> QED BY <1>1, <1>2, <1>3, <3>1, <3>2, <3>3, <3>4, <3>5 DEF Placed, Father
    <2>9. QueueInv'
      <3>1. Held => n \in Leaf \cup Made /\ \A q \in Places' : heap'[q] # n
        BY <1>1, <2>3, <2>5 DEF QueueInv
      <3>2. \A j \in Sorted : dl[heap'[j]] = Father(j)
        BY <1>1, <2>6 DEF QueueInv
      <3> QED BY <1>1, <1>2, <1>3, <1>6, <2>2, <3>1, <3>2 DEF QueueInv, Father
    <2>10. ForcedInv'
      BY <1>1, <1>2, <1>3, ForcedFrame
    <2>11. CostInv'
      BY <1>1, <1>2, <1>3, <2>2, CostsNoneFrame
    <2> QED BY <2>2, <2>7, <2>8, <2>9, <2>10, <2>11 DEF IInv, Building, Measuring
  <1> QED BY <1>5, <1>6 DEF pqdownheap

\* Taking the first node off the queue.
LEMMA pqremoveInv == IInv /\ pqremove => IInv'
  <1> SUFFICES ASSUME IInv, pqremove PROVE IInv'
    OBVIOUS
  <1>1. TypeOK /\ ForcedInv /\ Placed /\ QueueInv /\ CostInv /\ pc = "remove" /\ Building
    BY DEF IInv, pqremove, Building
  <1>2. /\ n' = heap[1] /\ heap' = [heap EXCEPT ![1] = heap[heap_len]] /\ heap_len' = heap_len - 1
        /\ k' = 1 /\ after' = "join" /\ pc' = "sift"
        /\ UNCHANGED <<freq, fc, dl, depth, heap_max, node, max_code, opt_len, stat_len,
                       bl_count, overflow, cut, next_code, code, h, bits>>
    BY DEF pqremove, Sift, SMALLEST, tree, costs, counts, codes
  <1>3. /\ Leaf' = Leaf /\ Forced' = Forced /\ Made' = Made /\ Joins' = Joins /\ Sorted' = Sorted
        /\ Count(Leaf)' = Count(Leaf)
    BY <1>2, TreeFrame
  <1>4. heap \in [0 .. HEAP_SIZE - 1 -> Nodes] /\ heap_len \in Nat /\ heap_len >= 2
    BY <1>1 DEF TypeOK, QueueInv
  <1>5. Building' /\ ~Held /\ Held'
    BY <1>1, <1>2 DEF Building, Held
  <1>6. Places = Queue \cup Sorted /\ Places' = Queue' \cup Sorted
    BY <1>1, <1>3, <1>5 DEF Places
  <1>7. /\ \A q \in Queue : q \in 1 .. HEAP_SIZE - 1 /\ q \notin Sorted
        /\ \A q \in Sorted : q \in 1 .. HEAP_SIZE - 1
    BY <1>1, Room
  <1>8. Queue' \cup {heap_len} = Queue /\ heap_len \notin Queue' /\ 1 \in Queue' /\ heap_len # 1
    BY <1>2, <1>4 DEF Queue
  <1> DEFINE from(q) == IF q = 1 THEN heap_len ELSE q
  <1>9. /\ \A q \in Places' : from(q) \in Places /\ from(q) # 1 /\ heap'[q] = heap[from(q)]
        /\ \A q, r \in Places' : from(q) = from(r) => q = r
        /\ \A q \in Places : q # 1 => \E r \in Places' : from(r) = q
    <2>1. heap_len \in Places /\ 1 \in Places /\ heap_len \notin Places' /\ 1 \in Places' /\ 1 \notin Sorted
      BY <1>6, <1>7, <1>8
    <2>2. Places' \subseteq Places /\ Places = Places' \cup {heap_len}
      BY <1>6, <1>8
    <2>3. \A q \in Places' : q \in 0 .. HEAP_SIZE - 1
      BY <1>6, <1>7, <2>2
    <2>4. \A q \in Places' : heap'[q] = heap[from(q)]
      BY <1>2, <1>4, <2>3
    <2>5. \A q \in Places' : from(q) \in Places /\ from(q) # 1
      BY <1>8, <2>1, <2>2
    <2>6. \A q, r \in Places' : from(q) = from(r) => q = r
      BY <2>1
    <2>7. ASSUME NEW q \in Places, q # 1 PROVE \E r \in Places' : from(r) = q
      <3>1. CASE q = heap_len
        BY <2>1, <3>1
      <3>2. CASE q # heap_len
        <4>1. q \in Places' /\ from(q) = q
          BY <2>2, <2>7, <3>2
        <4> QED BY <4>1
      <3> QED BY <3>1, <3>2
    <2> QED BY <2>4, <2>5, <2>6, <2>7
  <1>10. \A j \in Sorted : heap'[j] = heap[j] /\ j # 1
    <2>1. \A j \in Sorted : j # 1 /\ j \in Places'
      BY <1>6, <1>7, <1>8
    <2> QED BY <1>9, <2>1
  <1> HIDE DEF from
  <1>11. 1 \in Places
    BY <1>6, <1>8
  <1>12. TypeOK'
    <2>1. heap' \in [0 .. HEAP_SIZE - 1 -> Nodes] /\ n' \in Nat
      <3>1. heap_len \in 0 .. HEAP_SIZE - 1 /\ 1 \in 0 .. HEAP_SIZE - 1
        BY <1>7, <1>8
      <3> QED BY <1>2, <1>4, <3>1, Sizes
    <2>2. heap_len' \in Nat
      BY <1>2, <1>4
    <2> QED BY <1>1, <1>2, <2>1, <2>2 DEF TypeOK
  <1>13. Placed'
    <2>1. \A q \in Places' : heap'[q] \in Leaf \cup Made
      BY <1>1, <1>9 DEF Placed
    <2>2. \A q, r \in Places' : heap'[q] = heap'[r] => q = r
      <3>1. \A q, r \in Places' : heap'[q] = heap'[r] => from(q) = from(r)
        BY <1>1, <1>9 DEF Placed
      <3> QED BY <1>9, <3>1
    <2>3. \A x \in Leaf \cup Made : (\E q \in Places' : heap'[q] = x) \/ (Held' /\ x = n')
      <3>1. ASSUME NEW x \in Leaf \cup Made PROVE (\E q \in Places' : heap'[q] = x) \/ x = heap[1]
        <4>1. PICK q \in Places : heap[q] = x
          BY <1>1, <1>5, <3>1 DEF Placed
        <4>2. CASE q = 1
          BY <4>1, <4>2
        <4>3. CASE q # 1
          <5>1. PICK r \in Places' : from(r) = q
            BY <1>9, <4>3
          <5> QED BY <1>9, <4>1, <5>1
        <4> QED BY <4>2, <4>3
      <3> QED BY <1>2, <1>5, <3>1
    <2>4. \A j \in Sorted' : heap'[j] < Father(j)
      BY <1>1, <1>3, <1>10 DEF Placed
    <2> QED BY <1>1, <1>2, <1>3, <2>1, <2>2, <2>3, <2>4 DEF Placed, Father
  <1>14. QueueInv'
    <2>1. n' \in Leaf \cup Made /\ \A q \in Places' : heap'[q] # n'
      BY <1>1, <1>2, <1>9, <1>11 DEF Placed
    <2>2. \A j \in Sorted : dl[heap'[j]] = Father(j)
      BY <1>1, <1>10 DEF QueueInv
    <2>3. heap_len' + Joins' + (IF Held' THEN 1 ELSE 0) = Count(Leaf)' /\ heap_len' >= 1
      <3>1. heap_len + Joins = Count(Leaf) /\ Joins \in Nat
        <4>1. heap_len + Joins + (IF Held THEN 1 ELSE 0) = Count(Leaf)
          BY <1>1 DEF QueueInv
        <4>2. Joins \in Nat
          BY <1>1, Room
        <4> QED BY <1>4, <1>5, <4>1, <4>2
      <3> QED BY <1>2, <1>3, <1>4, <1>5, <3>1
    <2>4. heap_max' = HEAP_SIZE - 2 * Joins'
      BY <1>1, <1>2, <1>3 DEF QueueInv
    <2> QED BY <1>2, <1>3, <1>5, <2>1, <2>2, <2>3, <2>4 DEF QueueInv, Father
  <1>15. ForcedInv'
    BY <1>1, <1>2, <1>3, ForcedFrame
  <1>16. CostInv'
    BY <1>1, <1>2, <1>3, <1>5, CostsNoneFrame
  <1> QED BY <1>2, <1>5, <1>12, <1>13, <1>14, <1>15, <1>16 DEF IInv, Building, Measuring

-----------------------------------------------------------------------------
(* build_tree: joining                                                      *)

\* The places of a father's sons.
LEMMA Sons ==
    ASSUME NEW i \in Nat, NEW j \in 0 .. HEAP_SIZE - 1
    PROVE  Father(j) = elems + i <=> j = HEAP_SIZE - 1 - 2 * i \/ j = HEAP_SIZE - 2 - 2 * i
  BY Numbers DEF Father

\* Making a father of the node taken and the one that is first now.
LEMMA JoinInv == IInv /\ Join => IInv'
  <1> SUFFICES ASSUME IInv, Join PROVE IInv'
    OBVIOUS
  <1>1. TypeOK /\ ForcedInv /\ Placed /\ QueueInv /\ CostInv /\ pc = "join" /\ Building /\ Held
    BY DEF IInv, Join, Building, Held
  <1> DEFINE m == heap[1]
  <1>2. /\ heap' = [heap EXCEPT ![heap_max - 1] = n, ![heap_max - 2] = m, ![1] = node]
        /\ fc' = [fc EXCEPT ![node] = fc[n] + fc[m]]
        /\ depth' = [depth EXCEPT ![node] = Higher(depth[n], depth[m]) + 1]
        /\ dl' = [dl EXCEPT ![n] = node, ![m] = node]
        /\ heap_max' = heap_max - 2 /\ node' = node + 1
        /\ k' = 1 /\ after' = "joined" /\ pc' = "sift"
        /\ UNCHANGED <<freq, heap_len, max_code, opt_len, stat_len, bl_count, overflow, cut, next_code,
                       code, n, h, bits>>
    BY DEF Join, Sift, SMALLEST, costs, counts, codes
  <1> HIDE DEF m
  <1>3. /\ heap \in [0 .. HEAP_SIZE - 1 -> Nodes] /\ fc \in [Nodes -> Nat] /\ dl \in [Nodes -> Nat]
        /\ depth \in [Nodes -> Nat]
    BY <1>1 DEF TypeOK
  <1>4. /\ Joins \in Nat /\ heap_len \in Nat /\ heap_len >= 1 /\ heap_len + Joins + 1 <= elems
        /\ heap_max + 2 * Joins = HEAP_SIZE /\ heap_max \in Nat /\ heap_len + 2 < heap_max
        /\ node = elems + Joins
        /\ \A q \in Queue : q \in 1 .. HEAP_SIZE - 1 /\ q \notin Sorted
        /\ \A j \in Sorted : j \in 1 .. HEAP_SIZE - 1
    BY <1>1, Room
  <1>5. node \in Nodes /\ node \in Nat /\ node \notin Symbols /\ node <= 2 * elems - 2
    BY <1>4, Sizes
  <1>6. Building' /\ ~Held'
    BY <1>2 DEF Building, Held
  <1> DEFINE a == heap_max - 1
             b == heap_max - 2
  <1>7. /\ a \in 0 .. HEAP_SIZE - 1 /\ b \in 0 .. HEAP_SIZE - 1 /\ 1 \in 0 .. HEAP_SIZE - 1
        /\ a # b /\ a # 1 /\ b # 1 /\ a \notin Places /\ b \notin Places /\ 1 \in Queue
        /\ Sorted' = Sorted \cup {a, b} /\ Queue' = Queue
        /\ Places = Queue \cup Sorted /\ Places' = (Queue \cup Sorted) \cup {a, b}
    <2>1. a \in 0 .. HEAP_SIZE - 1 /\ b \in 0 .. HEAP_SIZE - 1 /\ 1 \in 0 .. HEAP_SIZE - 1
          /\ a # b /\ a # 1 /\ b # 1
      BY <1>4, Numbers
    <2>2. a \notin Queue /\ b \notin Queue /\ a \notin Sorted /\ b \notin Sorted /\ 1 \in Queue
      BY <1>4 DEF Queue, Sorted
    <2>3. Sorted' = Sorted \cup {a, b} /\ Queue' = Queue
      BY <1>2, <1>4, Numbers DEF Sorted, Queue
    <2>4. Places = Queue \cup Sorted /\ Places' = Queue' \cup Sorted'
      BY <1>1, <1>6 DEF Places
    <2> QED BY <2>1, <2>2, <2>3, <2>4
  <1>8. m \in Leaf \cup Made /\ n \in Leaf \cup Made /\ n # m
    BY <1>1, <1>7 DEF Placed, QueueInv, m
  <1>9. \A x \in Leaf \cup Made : x \in Nodes /\ x < node /\ x \in Nat
    BY <1>4, <1>5, Sizes DEF Leaf, Made
  <1>10. /\ heap'[a] = n /\ heap'[b] = m /\ heap'[1] = node
         /\ \A q \in Places : q # 1 => heap'[q] = heap[q]
    <2>1. \A q \in Places : q \in 0 .. HEAP_SIZE - 1
      BY <1>4, <1>7
    <2>2. heap' = [heap EXCEPT ![a] = n, ![b] = m, ![1] = node]
      BY <1>2
    <2> HIDE DEF a, b
    <2> QED BY <1>3, <1>7, <2>1, <2>2
  <1> HIDE DEF a, b
  <1>11. \A q \in Places : q # 1 => /\ heap[q] \in Leaf \cup Made
                                    /\ heap[q] # n /\ heap[q] # m /\ heap[q] # node
    <2>1. \A q \in Places : heap[q] \in Leaf \cup Made /\ heap[q] # n
      BY <1>1 DEF Placed, QueueInv
    <2>2. \A q \in Places : q # 1 => heap[q] # m
      BY <1>1, <1>7 DEF Placed, m
    <2> QED BY <1>9, <2>1, <2>2
  <1>12. n # node /\ m # node /\ node \notin Leaf \cup Made
    BY <1>8, <1>9
  <1>13. Leaf' = Leaf /\ Forced' = Forced /\ (\A i \in Symbols : fc'[i] = fc[i])
    <2>1. \A i \in Symbols : fc'[i] = fc[i]
      BY <1>2, <1>3, <1>5, Sizes
    <2> QED BY <1>2, <2>1 DEF Leaf, Forced
  <1>14. Made' = Made \cup {node} /\ Joins' = Joins + 1
    <2>1. Made' = Made \cup {node}
      BY <1>2, <1>4, Numbers DEF Made
    <2>2. Joins' = Joins + 1
      BY <1>2, <1>4, Numbers DEF Joins
    <2> QED BY <2>1, <2>2
  <1>15. /\ \A x \in Nodes : x # n /\ x # m => dl'[x] = dl[x]
         /\ dl'[n] = node /\ dl'[m] = node
    BY <1>2, <1>3, <1>5, <1>8, <1>9
  <1>16. Father(a) = node /\ Father(b) = node
    <2>1. a = HEAP_SIZE - 1 - 2 * Joins /\ b = HEAP_SIZE - 2 - 2 * Joins
      BY <1>4, Numbers DEF a, b
    <2> QED BY <1>4, <1>7, <2>1, Sons
  <1>17. TypeOK'
    <2>1. heap' \in [0 .. HEAP_SIZE - 1 -> Nodes] /\ dl' \in [Nodes -> Nat]
      BY <1>2, <1>3, <1>5, <1>8, <1>9
    <2>2. fc' \in [Nodes -> Nat]
      <3>1. fc[n] + fc[m] \in Nat
        BY <1>3, <1>8, <1>9
      <3> QED BY <1>2, <1>3, <3>1
    <2>3. depth' \in [Nodes -> Nat]
      <3>1. Higher(depth[n], depth[m]) + 1 \in Nat
        BY <1>3, <1>8, <1>9 DEF Higher
      <3> QED BY <1>2, <1>3, <3>1
    <2>4. heap_max' \in Nat /\ node' \in elems .. 2 * elems - 1
      BY <1>2, <1>4, <1>5, Numbers
    <2>5. k' \in Nat \ {0} /\ after' \in {"heapify", "join", "joined"} /\ pc' = "sift"
      BY <1>2
    <2>6. TypeOK /\ UNCHANGED <<freq, heap_len, max_code, opt_len, stat_len, bl_count, overflow, cut,
                               next_code, code, n, h, bits>>
      BY <1>1, <1>2
    <2> QED BY <2>1, <2>2, <2>3, <2>4, <2>5, <2>6 DEF TypeOK
  <1>18. Placed'
    <2>1. \A q \in Places' : heap'[q] \in Leaf \cup (Made \cup {node})
      BY <1>7, <1>8, <1>10, <1>11
    <2>2. \A q, r \in Places' : heap'[q] = heap'[r] => q = r
      <3>1. \A q, r \in Places : q # 1 /\ r # 1 /\ heap'[q] = heap'[r] => q = r
        BY <1>1, <1>10 DEF Placed
      <3>2. \A q \in Places' : q \in Places \/ q = a \/ q = b
        BY <1>7
      <3>3. \A q \in Places : q # 1 => heap'[q] # n /\ heap'[q] # m /\ heap'[q] # node
        BY <1>10, <1>11
      <3> QED BY <1>8, <1>10, <1>12, <3>1, <3>2, <3>3
    <2>3. \A x \in Leaf \cup (Made \cup {node}) : \E q \in Places' : heap'[q] = x
      <3>1. ASSUME NEW x \in Leaf \cup Made PROVE \E q \in Places' : heap'[q] = x
        <4>1. CASE x = n
          BY <1>7, <1>10, <4>1
        <4>2. CASE x # n
          <5>1. PICK q \in Places : heap[q] = x
            BY <1>1, <3>1, <4>2 DEF Placed
          <5>2. CASE q = 1
            BY <1>7, <1>10, <5>1, <5>2 DEF m
          <5>3. CASE q # 1
            BY <1>7, <1>10, <5>1, <5>3
          <5> QED BY <5>2, <5>3
        <4> QED BY <4>1, <4>2
      <3>2. \E q \in Places' : heap'[q] = node
        BY <1>7, <1>10
      <3> QED BY <3>1, <3>2
    <2>4. \A j \in Sorted' : heap'[j] < Father(j)
      <3>1. \A j \in Sorted : heap'[j] = heap[j]
        BY <1>4, <1>7, <1>10
      <3>2. n < node /\ m < node
        BY <1>8, <1>9
      <3> QED BY <1>1, <1>7, <1>10, <1>16, <3>1, <3>2 DEF Placed
    <2>5. \A i \in Symbols : i \notin Leaf => dl'[i] = 0
      <3>1. \A i \in Symbols : i \notin Leaf => i # n /\ i # m /\ i \in Nodes
        BY <1>4, <1>8, Sizes DEF Made
      <3> QED BY <1>1, <1>15, <3>1 DEF Placed
    <2> QED BY <1>1, <1>2, <1>13, <1>14, <2>1, <2>2, <2>3, <2>4, <2>5 DEF Placed, Father
  <1>19. QueueInv'
    <2>1. heap_max' = HEAP_SIZE - 2 * Joins'
      BY <1>2, <1>4, <1>14, Numbers
    <2>2. heap_len' + Joins' + (IF Held' THEN 1 ELSE 0) = Count(Leaf)'
      <3>1. Count(Leaf)' = Count(Leaf)
        BY <1>13 DEF Count
      <3>2. heap_len + Joins + 1 = Count(Leaf)
        BY <1>1 DEF QueueInv
      <3> QED BY <1>2, <1>4, <1>6, <1>14, <3>1, <3>2
    <2>3. \A j \in Sorted' : dl'[heap'[j]] = Father(j)
      <3>1. \A j \in Sorted : heap'[j] = heap[j] /\ heap[j] \in Nodes /\ heap[j] # n /\ heap[j] # m
        BY <1>4, <1>7, <1>9, <1>10, <1>11
      <3>2. \A j \in Sorted : dl'[heap'[j]] = Father(j)
        BY <1>1, <1>15, <3>1 DEF QueueInv
      <3> QED BY <1>7, <1>10, <1>15, <1>16, <3>2
    <2>4. heap_len' >= 1 /\ Joins' >= 1
      BY <1>2, <1>4, <1>14
    <2> QED BY <1>2, <1>6, <2>1, <2>2, <2>3, <2>4 DEF QueueInv, Father
  <1>20. ForcedInv'
    BY <1>1, <1>2, <1>13, ForcedFrame
  <1>21. CostInv'
    BY <1>1, <1>2, <1>6, <1>13, CostsNoneFrame
  <1> QED BY <1>2, <1>6, <1>17, <1>18, <1>19, <1>20, <1>21 DEF IInv, Building, Measuring

-----------------------------------------------------------------------------
(* gen_bitlen: sums over lengths and places                                 *)

\* Sums to a last number.
LEMMA ZeroToLast ==
    ASSUME NEW m \in Nat, NEW g, \A i \in 0 .. m : g[i] = 0
    PROVE  Total(g, m + 1) = 0 /\ Summable(g, m + 1)
  <1>1. PICK to \in Nat : to = m + 1
    OBVIOUS
  <1>2. \A i \in 0 .. to - 1 : g[i] = 0
    BY <1>1
  <1>3. Total(g, to) = 0 /\ Summable(g, to)
    BY <1>1, <1>2, TotalZero
  <1> QED BY <1>1, <1>3

\* The node left in the queue is the last one made.
LEMMA RootIsLast ==
    ASSUME TypeOK, Placed, QueueInv, pc = "joined", heap_len = 1
    PROVE  heap[1] = node - 1
  <1>1. Building /\ ~Held /\ Joins >= 1 /\ Queue = {1} /\ Places = Queue \cup Sorted
    BY DEF Building, Held, QueueInv, Queue, Places
  <1>2. /\ Joins \in Nat /\ heap_max + 2 * Joins = HEAP_SIZE /\ heap_max \in Nat /\ node = elems + Joins
    BY Room
  <1>3. node - 1 \in Made
    BY <1>1, <1>2, Numbers DEF Made
  <1>4. PICK q \in Places : heap[q] = node - 1
    BY <1>1, <1>3 DEF Placed
  <1>5. ASSUME q \in Sorted PROVE FALSE
    <2>1. q \in heap_max .. HEAP_SIZE - 1 /\ heap[q] < Father(q)
      BY <1>5 DEF Sorted, Placed
    <2>2. Father(q) <= node - 1
      BY <1>2, <2>1, Numbers DEF Father
    <2>3. Father(q) \in Int /\ node - 1 \in Int
      BY <1>2, <2>1, Numbers DEF Father
    <2> QED BY <1>4, <2>1, <2>2, <2>3
  <1> QED BY <1>1, <1>4, <1>5

\* Two nodes or more are left.
LEMMA JoinedOn == IInv /\ Joined /\ heap_len >= 2 => IInv'
  <1> SUFFICES ASSUME IInv, Joined, heap_len >= 2 PROVE IInv'
    OBVIOUS
  <1>1. TypeOK /\ ForcedInv /\ Placed /\ QueueInv /\ CostInv /\ pc = "joined" /\ Building
    BY DEF IInv, Joined, Building
  <1>2. /\ pc' = "remove"
        /\ UNCHANGED <<freq, fc, dl, depth, heap, heap_len, heap_max, node, max_code, opt_len, stat_len,
                       bl_count, overflow, cut, next_code, code, n, h, k, bits, after>>
    <2>1. heap_len \in Nat
      BY <1>1 DEF TypeOK
    <2> QED BY <2>1 DEF Joined, costs, codes
  <1>3. TypeOK'
    BY <1>1, <1>2 DEF TypeOK
  <1>4. Building' /\ ~Held /\ ~Held'
    BY <1>1, <1>2 DEF Building, Held
  <1>5. /\ Leaf' = Leaf /\ Forced' = Forced /\ Made' = Made /\ Joins' = Joins /\ Sorted' = Sorted
        /\ Count(Leaf)' = Count(Leaf)
    BY <1>2, TreeFrame
  <1>6. Queue' = Queue /\ Places' = Places
    BY <1>1, <1>2, <1>4, <1>5 DEF Places, Queue
  <1>7. Placed'
    BY <1>1, <1>2, <1>4, <1>5, <1>6 DEF Placed, Father
  <1>8. QueueInv'
    BY <1>1, <1>2, <1>4, <1>5 DEF QueueInv, Father
  <1>9. ForcedInv'
    BY <1>1, <1>2, <1>5, ForcedFrame
  <1>10. CostInv'
    BY <1>1, <1>2, <1>4, <1>5, CostsNoneFrame
  <1> QED BY <1>2, <1>3, <1>4, <1>7, <1>8, <1>9, <1>10 DEF IInv, Building, Measuring

\* The root is left, and gets the length 0.
LEMMA JoinedEnd == IInv /\ Joined /\ heap_len < 2 => IInv'
  <1> SUFFICES ASSUME IInv, Joined, heap_len < 2 PROVE IInv'
    OBVIOUS
  <1>1. TypeOK /\ ForcedInv /\ Placed /\ QueueInv /\ CostInv /\ pc = "joined" /\ Building
    BY DEF IInv, Joined, Building
  <1>2. heap_len \in Nat /\ heap_len = 1
    BY <1>1 DEF TypeOK, QueueInv
  <1> DEFINE root == heap[1]
             r == heap_max - 1
  <1>3. /\ pc' = "lengths" /\ heap' = [heap EXCEPT ![r] = root] /\ heap_max' = r
        /\ dl' = [dl EXCEPT ![root] = 0]
        /\ bl_count' = [b \in 0 .. MAX_BITS |-> 0] /\ overflow' = 0 /\ h' = heap_max
        /\ UNCHANGED <<freq, fc, depth, heap_len, node, max_code, opt_len, stat_len, cut, next_code, code,
                       n, k, bits, after>>
    BY <1>2 DEF Joined, SMALLEST, costs, codes
  <1>4. heap \in [0 .. HEAP_SIZE - 1 -> Nodes] /\ dl \in [Nodes -> Nat]
    BY <1>1 DEF TypeOK
  <1>5. /\ Joins \in Nat /\ Joins >= 1 /\ Joins + 1 <= elems /\ heap_max + 2 * Joins = HEAP_SIZE /\ heap_max \in Nat
        /\ heap_max >= 3 /\ node = elems + Joins
        /\ \A j \in Sorted : j \in 1 .. HEAP_SIZE - 1 /\ j # 1
    <2>1. Joins >= 1
      BY <1>1 DEF QueueInv
    <2>2. /\ Joins \in Nat /\ Joins + 1 <= elems /\ heap_max + 2 * Joins = HEAP_SIZE /\ heap_max \in Nat
          /\ heap_max >= 3 /\ node = elems + Joins
          /\ \A j \in Sorted : j \in 1 .. HEAP_SIZE - 1
      BY <1>1, <1>2, Room, Numbers
    <2>3. \A j \in Sorted : j # 1
      BY <2>2, Numbers DEF Sorted
    <2> QED BY <2>1, <2>2, <2>3
  <1>6. root = node - 1
    BY <1>1, <1>2, RootIsLast
  <1>7. root \in Nodes /\ root \in Nat /\ root \notin Symbols /\ root \in Made
    BY <1>5, <1>6, Sizes DEF Made
  <1>8. ~Building' /\ Measuring' /\ ~Held /\ ~Held'
    BY <1>1, <1>3 DEF Building, Measuring, Held
  <1>9. /\ Leaf' = Leaf /\ Forced' = Forced /\ Made' = Made /\ Joins' = Joins /\ Count(Leaf)' = Count(Leaf)
    BY <1>3 DEF Leaf, Forced, Made, Joins, Count
  <1>10. /\ r \in 0 .. HEAP_SIZE - 1 /\ r \notin Sorted /\ Sorted' = Sorted \cup {r} /\ Places' = Sorted'
         /\ Places = Sorted \cup {1} /\ 1 \notin Sorted
    <2>1. r \in 0 .. HEAP_SIZE - 1
      BY <1>5, Numbers
    <2>2. r \notin Sorted /\ Sorted' = Sorted \cup {r} /\ 1 \notin Sorted
      BY <1>3, <1>5, Numbers, SMTT(30) DEF Sorted
    <2>3. Places' = Sorted' /\ Places = Queue \cup Sorted /\ Queue = {1}
      BY <1>1, <1>2, <1>8 DEF Places, Queue
    <2> QED BY <2>1, <2>2, <2>3
  <1>11. heap'[r] = root /\ \A j \in Sorted : heap'[j] = heap[j] /\ heap[j] # root /\ heap[j] \in Nodes
    <2>1. \A j \in Sorted : j \in 0 .. HEAP_SIZE - 1 /\ j # r /\ j # 1
      BY <1>5, <1>10
    <2>2. \A j \in Sorted : heap[j] # root
      BY <1>1, <1>10, <2>1 DEF Placed
    <2> HIDE DEF root
    <2> QED BY <1>3, <1>4, <1>10, <2>1, <2>2
  <1> HIDE DEF root, r
  <1>12. dl'[root] = 0 /\ \A x \in Nodes : x # root => dl'[x] = dl[x]
    BY <1>3, <1>4, <1>7
  <1>13. TypeOK'
    <2>1. heap' \in [0 .. HEAP_SIZE - 1 -> Nodes] /\ dl' \in [Nodes -> Nat]
      BY <1>3, <1>4, <1>7
    <2>2. bl_count' \in [0 .. MAX_BITS -> Nat] /\ overflow' \in Int
      BY <1>3
    <2>3. heap_max' \in Nat /\ h' \in Nat
      BY <1>3, <1>5 DEF r
    <2>4. TypeOK /\ pc' = "lengths" /\
          UNCHANGED <<freq, fc, depth, heap_len, node, max_code, opt_len, stat_len, cut, next_code, code,
                      n, k, bits, after>>
      BY <1>1, <1>3
    <2> QED BY <2>1, <2>2, <2>3, <2>4 DEF TypeOK
  <1>14. Placed'
    <2>1. \A q \in Places' : heap'[q] \in Leaf \cup Made
      BY <1>1, <1>7, <1>10, <1>11 DEF Placed
    <2>2. \A q, s \in Places' : heap'[q] = heap'[s] => q = s
      <3>1. \A q, s \in Sorted : heap'[q] = heap'[s] => q = s
        BY <1>1, <1>10, <1>11 DEF Placed
      <3> QED BY <1>10, <1>11, <3>1
    <2>3. \A x \in Leaf \cup Made : \E q \in Places' : heap'[q] = x
      <3>1. ASSUME NEW x \in Leaf \cup Made PROVE \E q \in Places' : heap'[q] = x
        <4>1. PICK q \in Places : heap[q] = x
          BY <1>1, <1>8, <3>1 DEF Placed
        <4>2. CASE q = 1
          BY <1>10, <1>11, <4>1, <4>2 DEF root
        <4>3. CASE q # 1
          BY <1>10, <1>11, <4>1, <4>3
        <4> QED BY <4>2, <4>3
      <3> QED BY <3>1
    <2>4. \A j \in Sorted' : heap'[j] < Father(j)
      <3>1. Father(r) = node
        BY <1>5, Numbers DEF Father, r
      <3>2. root < node
        BY <1>5, <1>6, Numbers
      <3> QED BY <1>1, <1>10, <1>11, <3>1, <3>2 DEF Placed
    <2>5. \A i \in Symbols : i \notin Leaf => dl'[i] = 0
      BY <1>1, <1>7, <1>12, Sizes DEF Placed
    <2> QED BY <1>1, <1>3, <1>9, <2>1, <2>2, <2>3, <2>4, <2>5 DEF Placed, Father
  <1>15. TreeInv'
    <2>1. Joins + 1 = Count(Leaf)
      BY <1>1, <1>2, <1>5, <1>8 DEF QueueInv
    <2>2. heap_max' = HEAP_SIZE - 2 * Joins' - 1
      BY <1>3, <1>5, <1>9, Numbers DEF r
    <2> QED BY <1>3, <1>5, <1>6, <1>9, <1>11, <2>1, <2>2 DEF TreeInv
  <1>16. Seen' = {root}
    <2>1. heap_max' .. h' - 1 = {r}
      BY <1>3, <1>5 DEF r
    <2>2. Seen' = {heap'[j] : j \in heap_max' .. h' - 1}
      BY DEF Seen
    <2> QED BY <1>11, <2>1, <2>2
  <1>17. LengthsInv'
    <2>1. h' \in heap_max' + 1 .. HEAP_SIZE
      BY <1>3, <1>5, Numbers DEF r
    <2>2. \A j \in h' .. HEAP_SIZE - 1 : dl'[heap'[j]] = Father(j)
      <3>1. \A j \in h' .. HEAP_SIZE - 1 : j \in Sorted
        BY <1>3 DEF Sorted
      <3> QED BY <1>1, <1>11, <1>12, <3>1 DEF QueueInv
    <2>3. dl'[heap'[heap_max']] = 0
      BY <1>3, <1>11, <1>12
    <2>4. \A j \in heap_max' + 1 .. h' - 1 : dl'[heap'[j]] \in 1 .. max_length
      BY <1>3, <1>5 DEF r
    <2>5. \A b \in 0 .. MAX_BITS : bl_count'[b] = Count({i \in Leaf' : i \in Seen' /\ dl'[i] = b})
      <3>1. ASSUME NEW b \in 0 .. MAX_BITS PROVE Count({i \in Leaf' : i \in Seen' /\ dl'[i] = b}) = 0
        <4>1. \A i \in Symbols : i \notin {j \in Leaf' : j \in Seen' /\ dl'[j] = b}
          BY <1>7, <1>16
        <4> QED BY <4>1, CountNone
      <3> QED BY <1>3, <3>1
    <2>6. Total(bl_count', MAX_BITS + 1) = 0 /\ bl_count' \in [0 .. MAX_BITS -> Nat]
          /\ \A b \in 0 .. MAX_BITS : bl_count'[b] = 0
      <3>1. bl_count' \in [0 .. MAX_BITS -> Nat] /\ \A b \in 0 .. MAX_BITS : bl_count'[b] = 0
        BY <1>3
      <3>2. Total(bl_count', MAX_BITS + 1) = 0
        BY <3>1, Numbers, ZeroToLast
      <3> QED BY <3>1, <3>2
    <2>7. Total(LeafAt', h') = 0
      <3> DEFINE la == LeafAt'
      <3>1. ASSUME NEW j \in 0 .. h' - 1 PROVE la[j] = 0
        <4>1. j \in 0 .. HEAP_SIZE - 1 /\ (j >= heap_max' => j = r)
          BY <1>3, <1>5, Numbers DEF r
        <4>2. heap'[r] \notin Leaf'
          BY <1>7, <1>11 DEF Leaf
        <4> QED BY <4>1, <4>2 DEF LeafAt
      <3>2. h' \in Nat
        BY <1>3, <1>5
      <3> HIDE DEF la
      <3>3. Total(la, h') = 0
        BY <3>1, <3>2, TotalZero
      <3> QED BY <3>3 DEF la
    <2>8. InLimits'
      BY <2>6, Numbers DEF InLimits
    <2>9. 2 * Space(bl_count') + Total(Open', HEAP_SIZE) = 2 * Power2[max_length] + overflow'
      <3>1. Space(bl_count') = 0
        <4> DEFINE g == [b \in 0 .. max_length |-> bl_count'[b] * Power2[max_length - b]]
        <4>1. \A b \in 0 .. max_length : g[b] = 0
          <5>1. ASSUME NEW b \in 0 .. max_length PROVE g[b] = 0
            <6>1. bl_count'[b] = 0 /\ max_length - b \in 0 .. MAX_BITS
              BY <2>6, Numbers
            <6>2. Power2[max_length - b] \in Nat
              BY <6>1, Powers
            <6> QED BY <6>1, <6>2
          <5> QED BY <5>1
        <4>2. Space(bl_count') = Total(g, max_length + 1)
          BY DEF Space
        <4> HIDE DEF g
        <4> QED BY <4>1, <4>2, Numbers, ZeroToLast
      <3> DEFINE op == Open'
                 z == [j \in 0 .. HEAP_SIZE - 1 |-> 0]
                 c == heap_max
                 d == heap_max + 1
      <3>2. c \in 0 .. HEAP_SIZE - 1 /\ d \in 0 .. HEAP_SIZE - 1 /\ c # d
        BY <1>5, Numbers
      <3>3. \A j \in 0 .. HEAP_SIZE - 1 : op[j] = IF j = c \/ j = d THEN Power2[max_length] ELSE 0
        <4>1. ASSUME NEW j \in 0 .. HEAP_SIZE - 1 PROVE Father(j) = root <=> j = c \/ j = d
          <5>1. root = elems + (Joins - 1) /\ Joins - 1 \in Nat
            BY <1>5, <1>6, Numbers
          <5>2. d = HEAP_SIZE - 1 - 2 * (Joins - 1) /\ c = HEAP_SIZE - 2 - 2 * (Joins - 1)
            BY <1>5, Numbers
          <5> HIDE DEF c, d
          <5> QED BY <5>1, <5>2, Sons
        <4>2. \A j \in 0 .. HEAP_SIZE - 1 : op[j] =
                IF j >= h' /\ Father(j) \in Seen' THEN Power2[max_length - dl'[Father(j)]] ELSE 0
          BY DEF Open, Father
        <4>3. c >= h' /\ d >= h'
          BY <1>3, <1>5
        <4>4. max_length - 0 = max_length
          BY Numbers
        <4> HIDE DEF op, c, d
        <4> QED BY <1>12, <1>16, <4>1, <4>2, <4>3, <4>4
      <3>4. Power2[max_length] \in Nat
        BY Powers, Numbers
      <3> HIDE DEF op, c, d
      <3>5. Total(z, HEAP_SIZE) = 0 /\ Summable(z, HEAP_SIZE)
        BY Numbers, TotalZero
      <3>6. Summable(op, HEAP_SIZE)
        BY <3>3, <3>4 DEF Summable
      <3>7. \A j \in 0 .. HEAP_SIZE - 1 : z[j] = 0
        OBVIOUS
      <3> HIDE DEF z
      <3>8. Total(op, HEAP_SIZE) = Total(z, HEAP_SIZE) + (op[c] - z[c]) + (op[d] - z[d])
        <4>1. \A j \in 0 .. HEAP_SIZE - 1 : j # c /\ j # d => op[j] = z[j]
          BY <3>3, <3>7
        <4> QED BY <3>2, <3>5, <3>6, <4>1, Numbers, TotalChange2
      <3>9. Total(op, HEAP_SIZE) = 2 * Power2[max_length]
        BY <3>2, <3>3, <3>4, <3>5, <3>7, <3>8
      <3> QED BY <1>3, <3>1, <3>4, <3>9 DEF op
    <2>10. 2 * bl_count'[max_length] + Total(OpenLong', HEAP_SIZE) >= overflow'
      <3> DEFINE ol == OpenLong'
      <3>1. \A j \in 0 .. HEAP_SIZE - 1 : ol[j] \in Nat
        BY DEF OpenLong
      <3> HIDE DEF ol
      <3>2. Total(ol, HEAP_SIZE) \in Nat
        BY <3>1, Numbers, TotalNat
      <3>3. bl_count'[max_length] = 0
        BY <2>6, Numbers
      <3> QED BY <1>3, <3>2, <3>3 DEF ol
    <2>11. \A i \in Leaf' : i \notin Seen'
      BY <1>7, <1>16 DEF Leaf
    <2>12. Total(bl_count, MAX_BITS + 1)' = 0 /\ Total(LeafAt, h)' = 0 /\ overflow' = 0
      BY <1>3, <2>6, <2>7
    <2>13. /\ (\A j \in h .. HEAP_SIZE - 1 : dl[heap[j]] = Father(j))'
           /\ (2 * Space(bl_count) + Total(Open, HEAP_SIZE) = 2 * Power2[max_length] + overflow)'
           /\ (2 * bl_count[max_length] + Total(OpenLong, HEAP_SIZE) >= overflow)'
           /\ (\A b \in 0 .. MAX_BITS : bl_count[b] = Count({i \in Leaf : i \in Seen /\ dl[i] = b}))'
      BY <2>2, <2>5, <2>9, <2>10 DEF Father, Space, Count
    <2>14. (overflow >= 0)' /\ (Total(bl_count, MAX_BITS + 1) = Total(LeafAt, h))'
           /\ (Joins = 1 => overflow = 0 /\ \A i \in Leaf : i \in Seen => dl[i] = 1)'
      BY <2>11, <2>12
    <2> QED BY <2>1, <2>3, <2>4, <2>8, <2>13, <2>14 DEF LengthsInv
  <1>18. ForcedInv'
    BY <1>1, <1>3, <1>9, ForcedFrame
  <1>19. CostInv'
    <2>1. Measured = {} /\ Measured' = Seen'
      BY <1>1, <1>3, <1>8 DEF Measured
    <2>2. opt_len = Total(OptCost({}), elems) /\ stat_len = Total(StatCost({}), elems)
      BY <1>1, <2>1 DEF CostInv
    <2>3. \A i \in Symbols : i \notin Seen'
      BY <1>7, <1>16
    <2>4. OptCost(Seen)' = OptCost({}) /\ StatCost(Seen)' = StatCost({})
      BY <1>3, <1>9, <2>3 DEF OptCost, StatCost
    <2>5. OptCost(Measured)' = OptCost({}) /\ StatCost(Measured)' = StatCost({})
      BY <2>1, <2>4 DEF OptCost, StatCost
    <2> QED BY <1>3, <2>2, <2>5 DEF CostInv
  <1> QED BY <1>3, <1>8, <1>13, <1>14, <1>15, <1>17, <1>18, <1>19 DEF IInv, Building, Measuring

-----------------------------------------------------------------------------
(* gen_bitlen: assigning a length                                           *)

\* The node AssignLength is at, whether the limit cuts its length, and the length.
Now == heap[h]
Long == dl[dl[Now]] + 1 > max_length
NowLength == IF Long THEN max_length ELSE dl[dl[Now]] + 1

\* A node and its father before it.
LEMMA AssignFather ==
    ASSUME TypeOK, Placed, TreeInv, LengthsInv, pc = "lengths", h < HEAP_SIZE
    PROVE  /\ Joins \in Nat /\ Joins >= 1 /\ node = elems + Joins /\ heap_max = HEAP_SIZE - 2 * Joins - 1
           /\ heap_max \in Nat /\ h \in Nat /\ h >= heap_max + 1 /\ h \in Sorted
           /\ Places = Sorted /\ ~Held
           /\ Now \in Leaf \cup Made /\ Now \in Nodes /\ Now \in Nat
           /\ dl[Now] = Father(h) /\ Father(h) \in Made /\ Father(h) \in Nodes
           /\ Father(h) # Now /\ Father(h) \in Seen /\ Now \notin Seen
           /\ dl[Father(h)] \in 0 .. max_length
           /\ Joins = 1 => dl[Father(h)] = 0
           /\ NowLength \in 1 .. max_length
           /\ (Long <=> dl[Father(h)] = max_length)
           /\ (~Long => NowLength = dl[Father(h)] + 1) /\ (Long => NowLength = max_length)
           /\ \A j \in Sorted : j \in 0 .. HEAP_SIZE - 1 /\ heap[j] \in Nodes
           /\ \A j \in Sorted : j # h => heap[j] # Now
           /\ Seen = {heap[j] : j \in heap_max .. h - 1}
  <1>1. /\ Joins \in Nat /\ Joins >= 1 /\ node = elems + Joins /\ heap_max = HEAP_SIZE - 2 * Joins - 1
        /\ heap_max \in Nat /\ h \in Nat /\ h >= heap_max + 1
    BY Numbers DEF TypeOK, TreeInv, Joins, LengthsInv
  <1>2. Joins + 1 <= elems /\ node <= 2 * elems - 1
    <2>1. Count(Leaf) <= elems /\ Count(Leaf) \in Nat
      BY CountType
    <2> QED BY <1>1, <2>1, Numbers DEF TreeInv
  <1>3. Places = Sorted /\ ~Held
    BY DEF Places, Building, Held
  <1>4. h \in Sorted /\ \A j \in Sorted : j \in 0 .. HEAP_SIZE - 1
    BY <1>1, Numbers DEF Sorted
  <1>5. \A x \in Leaf \cup Made : x \in Nodes /\ x \in Nat
    BY <1>1, <1>2, Sizes DEF Leaf, Made
  <1>6. Now \in Leaf \cup Made /\ Now \in Nodes /\ Now \in Nat /\ \A j \in Sorted : heap[j] \in Nodes
    BY <1>3, <1>4, <1>5 DEF Placed, Now
  <1>7. dl[Now] = Father(h)
    <2>1. h \in h .. HEAP_SIZE - 1
      BY <1>1, Numbers
    <2> QED BY <2>1 DEF LengthsInv, Now
  <1>8. Father(h) \in Made
    <2>1. Father(h) >= elems /\ Father(h) <= node - 1 /\ Father(h) \in Int
      BY <1>1, Numbers DEF Father
    <2> QED BY <1>1, <2>1, Numbers DEF Made
  <1>9. PICK j \in Sorted : heap[j] = Father(h)
    BY <1>3, <1>8 DEF Placed
  <1>10. j \in heap_max .. h - 1 /\ j # h
    <2>1. Father(h) < Father(j)
      BY <1>9 DEF Placed
    <2>2. j < h
      BY <1>1, <1>4, <2>1, Numbers DEF Father
    <2>3. j >= heap_max /\ j \in Nat
      BY <1>1, <1>9 DEF Sorted
    <2> QED BY <1>1, <2>2, <2>3
  <1>11. Father(h) \in Seen
    BY <1>9, <1>10 DEF Seen
  <1>12. \A l \in Sorted : l # h => heap[l] # Now
    BY <1>3, <1>4 DEF Placed, Now
  <1>13. Father(h) # Now /\ Now \notin Seen
    <2>1. \A l \in heap_max .. h - 1 : l \in Sorted /\ l # h
      BY <1>1, Numbers DEF Sorted
    <2>2. \A l \in heap_max .. h - 1 : heap[l] # Now
      BY <1>12, <2>1
    <2> QED BY <1>9, <1>10, <2>2 DEF Seen
  <1>14. dl[Father(h)] \in 0 .. max_length /\ (Joins = 1 => dl[Father(h)] = 0)
    <2>1. dl[heap[heap_max]] = 0 /\ heap[heap_max] = node - 1
      BY DEF LengthsInv, TreeInv
    <2>2. CASE j = heap_max
      BY <1>9, <2>1, <2>2, Numbers
    <2>3. CASE j # heap_max
      <3>1. j \in heap_max + 1 .. h - 1
        BY <1>1, <1>10, <2>3
      <3>2. dl[heap[j]] \in 1 .. max_length
        BY <3>1 DEF LengthsInv
      <3>3. Joins # 1
        <4>1. ASSUME Joins = 1 PROVE FALSE
          <5>1. Father(h) = node - 1
            BY <1>1, <1>8, <4>1, Numbers DEF Made
          <5>2. heap_max \in Sorted
            BY <1>1, Numbers DEF Sorted
          <5> QED BY <1>3, <1>9, <2>1, <2>3, <5>1, <5>2 DEF Placed
        <4> QED BY <4>1
      <3> QED BY <1>9, <3>2, <3>3, Numbers
    <2> QED BY <2>2, <2>3
  <1>15. /\ NowLength \in 1 .. max_length /\ (Long <=> dl[Father(h)] = max_length)
         /\ (~Long => NowLength = dl[Father(h)] + 1) /\ (Long => NowLength = max_length)
    BY <1>7, <1>14, Numbers DEF NowLength, Long
  <1>16. Father(h) \in Nodes
    BY <1>5, <1>8
  <1> QED BY <1>1, <1>3, <1>4, <1>6, <1>7, <1>8, <1>11, <1>12, <1>13, <1>14, <1>15, <1>16 DEF Seen

\* What the step does.
LEMMA AssignStep ==
    ASSUME IInv, AssignLength
    PROVE  /\ TypeOK /\ ForcedInv /\ Placed /\ TreeInv /\ LengthsInv /\ CostInv /\ pc = "lengths" /\ h < HEAP_SIZE
           /\ dl' = [dl EXCEPT ![Now] = NowLength] /\ dl'[Now] = NowLength
           /\ \A x \in Nodes : x # Now => dl'[x] = dl[x]
           /\ overflow' = IF Long THEN overflow + 1 ELSE overflow
           /\ Now \in Leaf => /\ bl_count' = [bl_count EXCEPT ![NowLength] = @ + 1]
                              /\ opt_len' = opt_len + fc[Now] * (NowLength + xbits(Now))
                              /\ stat_len' = stat_len + IF HasStatic THEN fc[Now] * (static_len[Now] + xbits(Now)) ELSE 0
           /\ Now \notin Leaf => UNCHANGED <<bl_count, opt_len, stat_len>>
           /\ h' = h + 1
           /\ UNCHANGED <<freq, fc, depth, heap, heap_len, heap_max, node, max_code, cut, next_code, code,
                          n, k, bits, after, pc>>
           /\ Leaf' = Leaf /\ Forced' = Forced /\ Made' = Made /\ Joins' = Joins /\ Sorted' = Sorted
           /\ Count(Leaf)' = Count(Leaf)
           /\ Seen' = Seen \cup {Now}
           /\ Now \notin Leaf => Now \in Made
  <1>1. TypeOK /\ ForcedInv /\ Placed /\ TreeInv /\ LengthsInv /\ CostInv /\ pc = "lengths" /\ h < HEAP_SIZE
    BY DEF IInv, AssignLength, Measuring
  <1>2. /\ Now \in Leaf \cup Made /\ Now \in Nodes /\ heap_max \in Nat /\ h \in Nat /\ h >= heap_max + 1
        /\ node = elems + Joins
    BY <1>1, AssignFather
  <1>3. /\ dl' = [dl EXCEPT ![Now] = NowLength]
        /\ overflow' = IF Long THEN overflow + 1 ELSE overflow
        /\ \/ ~IsLeaf(Now) /\ UNCHANGED <<bl_count, opt_len, stat_len>>
           \/ /\ IsLeaf(Now)
              /\ bl_count' = [bl_count EXCEPT ![NowLength] = @ + 1]
              /\ opt_len' = opt_len + fc[Now] * (NowLength + xbits(Now))
              /\ stat_len' = stat_len + IF HasStatic THEN fc[Now] * (static_len[Now] + xbits(Now)) ELSE 0
        /\ h' = h + 1
        /\ UNCHANGED <<freq, fc, depth, heap, heap_len, heap_max, node, max_code, cut, next_code, code,
                       n, k, bits, after, pc>>
    BY DEF AssignLength, NowLength, Long, Now, costs, queue, codes
  <1>4. IsLeaf(Now) <=> Now \in Leaf
    <2>1. Now \in Leaf => Now <= max_code
      BY <1>1 DEF Placed
    <2>2. Now \in Made => ~(Now <= max_code)
      BY <1>1, Numbers DEF Made, TypeOK
    <2> QED BY <1>2, <2>1, <2>2 DEF IsLeaf
  <1>5. dl'[Now] = NowLength /\ \A x \in Nodes : x # Now => dl'[x] = dl[x]
    BY <1>1, <1>2, <1>3 DEF TypeOK
  <1>6. Leaf' = Leaf /\ Forced' = Forced /\ Made' = Made /\ Joins' = Joins /\ Sorted' = Sorted
        /\ Count(Leaf)' = Count(Leaf)
    BY <1>3 DEF Leaf, Forced, Made, Joins, Sorted, Count
  <1>7. Seen' = Seen \cup {Now}
    <2>1. heap_max .. h = (heap_max .. h - 1) \cup {h}
      BY <1>2
    <2>2. Seen' = {heap[j] : j \in heap_max .. h}
      <3>1. h' - 1 = h
        BY <1>2, <1>3
      <3> QED BY <1>3, <3>1 DEF Seen
    <2> QED BY <2>1, <2>2 DEF Seen, Now
  <1> QED BY <1>1, <1>2, <1>3, <1>4, <1>5, <1>6, <1>7

\* The counts stay those of the leaves that have their lengths.
LEMMA AssignCounts ==
    ASSUME IInv, AssignLength
    PROVE  /\ \A b \in 0 .. MAX_BITS : bl_count'[b] = Count({i \in Leaf : i \in Seen' /\ dl'[i] = b})
           /\ bl_count' \in [0 .. MAX_BITS -> Nat] /\ InLimits'
           /\ Total(bl_count', MAX_BITS + 1) = Total(LeafAt, h + 1)
  <1>1. /\ TypeOK /\ Placed /\ TreeInv /\ LengthsInv /\ pc = "lengths" /\ h < HEAP_SIZE
        /\ dl'[Now] = NowLength /\ (\A x \in Nodes : x # Now => dl'[x] = dl[x])
        /\ (Now \in Leaf => bl_count' = [bl_count EXCEPT ![NowLength] = @ + 1])
        /\ (Now \notin Leaf => bl_count' = bl_count) /\ Seen' = Seen \cup {Now}
    BY AssignStep
  <1>2. /\ Now \notin Seen /\ NowLength \in 1 .. max_length /\ h \in Nat /\ h >= heap_max + 1
        /\ heap_max \in Nat
    BY <1>1, AssignFather
  <1>3. bl_count \in [0 .. MAX_BITS -> Nat] /\ NowLength \in 0 .. MAX_BITS /\ MAX_BITS \in Nat
    BY <1>1, <1>2, Numbers DEF TypeOK
  <1>4. \A b \in 0 .. MAX_BITS : bl_count[b] = Count({i \in Leaf : i \in Seen /\ dl[i] = b})
    BY <1>1 DEF LengthsInv
  <1>5. \A i \in Leaf : i \in Symbols /\ i \in Nodes
    BY Sizes DEF Leaf
  <1>6. Total(LeafAt, h + 1) = Total(LeafAt, h) + LeafAt[h] /\ Total(LeafAt, h) \in Int
        /\ LeafAt[h] = IF Now \in Leaf THEN 1 ELSE 0
    <2>1. \A j \in 0 .. HEAP_SIZE - 1 : LeafAt[j] = IF j >= heap_max /\ heap[j] \in Leaf THEN 1 ELSE 0
      BY DEF LeafAt
    <2>2. Summable(LeafAt, h + 1)
      <3>1. \A j \in 0 .. h : j \in 0 .. HEAP_SIZE - 1
        BY <1>1, <1>2, Numbers
      <3>2. \A j \in 0 .. h : LeafAt[j] \in Int
        BY <2>1, <3>1
      <3>3. (h + 1) - 1 = h
        BY <1>2
      <3> QED BY <3>2, <3>3 DEF Summable
    <2>3. LeafAt[h] = IF Now \in Leaf THEN 1 ELSE 0
      <3>1. h \in 0 .. HEAP_SIZE - 1 /\ h >= heap_max
        BY <1>1, <1>2, Numbers
      <3> QED BY <2>1, <3>1 DEF Now
    <2> QED BY <1>2, <2>2, <2>3, TotalNext
  <1>7. Total(bl_count, MAX_BITS + 1) = Total(LeafAt, h)
    BY <1>1 DEF LengthsInv
  <1>8. CASE Now \in Leaf
    <2>1. bl_count' = [bl_count EXCEPT ![NowLength] = @ + 1]
      BY <1>1, <1>8
    <2>2. bl_count' \in [0 .. MAX_BITS -> Nat] /\ bl_count'[NowLength] = bl_count[NowLength] + 1
          /\ \A b \in 0 .. MAX_BITS : b # NowLength => bl_count'[b] = bl_count[b]
      BY <1>3, <2>1
    <2>3. ASSUME NEW b \in 0 .. MAX_BITS
          PROVE  bl_count'[b] = Count({i \in Leaf : i \in Seen' /\ dl'[i] = b})
      <3> DEFINE S == {i \in Leaf : i \in Seen /\ dl[i] = b}
                 R == {i \in Leaf : i \in Seen' /\ dl'[i] = b}
      <3>1. \A i \in Symbols : i # Now => (i \in S <=> i \in R)
        BY <1>1, <1>5
      <3>2. Now \notin S /\ (Now \in R <=> b = NowLength) /\ Now \in Symbols
        BY <1>1, <1>2, <1>5, <1>8
      <3>3. CASE b = NowLength
        <4>1. Now \in R
          BY <3>2, <3>3
        <4>2. Count(R) = Count(S) + 1
          <5> HIDE DEF R, S
          <5> QED BY <3>1, <3>2, <4>1, CountOneMore
        <4> QED BY <1>4, <2>2, <3>3, <4>2
      <3>4. CASE b # NowLength
        <4>1. \A i \in Symbols : i \in S <=> i \in R
          <5> HIDE DEF R, S
          <5> QED BY <3>1, <3>2, <3>4
        <4>2. Count(R) = Count(S)
          <5> HIDE DEF R, S
          <5> QED BY <4>1, CountSame
        <4> QED BY <1>4, <2>2, <3>4, <4>2
      <3> QED BY <3>3, <3>4
    <2>4. InLimits'
      <3>1. NowLength # 0 /\ \A b \in max_length + 1 .. MAX_BITS : b # NowLength /\ b \in 0 .. MAX_BITS
        BY <1>2, Numbers
      <3>2. 0 \in 0 .. MAX_BITS
        BY Numbers
      <3> QED BY <1>1, <2>2, <3>1, <3>2 DEF LengthsInv, InLimits
    <2>5. Total(bl_count', MAX_BITS + 1) = Total(bl_count, MAX_BITS + 1) + 1
      <3>1. PICK to \in Nat : to = MAX_BITS + 1
        BY <1>3
      <3>2. \A b \in 0 .. to - 1 : b \in 0 .. MAX_BITS
        BY <1>3, <3>1
      <3>3. Summable(bl_count, to) /\ Summable(bl_count', to) /\ NowLength \in 0 .. to - 1
        BY <1>3, <2>2, <3>1, <3>2 DEF Summable
      <3>4. \A b \in 0 .. to - 1 : b # NowLength => bl_count'[b] = bl_count[b]
        BY <2>2, <3>2
      <3>5. Total(bl_count', to) = Total(bl_count, to) + (bl_count'[NowLength] - bl_count[NowLength])
        BY <3>3, <3>4, TotalChange
      <3>6. Total(bl_count, to) \in Int /\ bl_count[NowLength] \in Nat
        BY <1>3, <3>3, TotalType
      <3> QED BY <2>2, <3>1, <3>5, <3>6
    <2> QED BY <1>6, <1>7, <1>8, <2>2, <2>3, <2>4, <2>5
  <1>9. CASE Now \notin Leaf
    <2>1. bl_count' = bl_count
      BY <1>1, <1>9
    <2>2. ASSUME NEW b \in 0 .. MAX_BITS
          PROVE  bl_count'[b] = Count({i \in Leaf : i \in Seen' /\ dl'[i] = b})
      <3>1. {i \in Leaf : i \in Seen' /\ dl'[i] = b} = {i \in Leaf : i \in Seen /\ dl[i] = b}
        BY <1>1, <1>5, <1>9
      <3> QED BY <1>4, <2>1, <3>1
    <2>3. InLimits'
      BY <1>1, <2>1 DEF LengthsInv, InLimits
    <2> QED BY <1>3, <1>6, <1>7, <1>9, <2>1, <2>2, <2>3
  <1> QED BY <1>8, <1>9

-----------------------------------------------------------------------------
(* gen_bitlen: the space equation                                           *)

\* A sum over the places whose father has its length: the node's own place is filled, its
\* sons' places, if it has sons, are new.
LEMMA OpenChange ==
    ASSUME IInv, AssignLength, NEW W, W \in [0 .. max_length -> Nat], NEW g, NEW e,
           \A j \in 0 .. HEAP_SIZE - 1 : g[j] = IF j >= h /\ Father(j) \in Seen THEN W[dl[Father(j)]] ELSE 0,
           \A j \in 0 .. HEAP_SIZE - 1 : e[j] = IF j >= h' /\ Father(j) \in Seen' THEN W[dl'[Father(j)]] ELSE 0
    PROVE  /\ Total(g, HEAP_SIZE) \in Nat /\ Total(e, HEAP_SIZE) \in Nat
           /\ Total(e, HEAP_SIZE) = Total(g, HEAP_SIZE) - W[dl[Father(h)]]
                                      + (IF Now \in Leaf THEN 0 ELSE 2 * W[NowLength])
  <1>1. /\ TypeOK /\ Placed /\ TreeInv /\ LengthsInv /\ pc = "lengths" /\ h < HEAP_SIZE
        /\ dl'[Now] = NowLength /\ (\A x \in Nodes : x # Now => dl'[x] = dl[x])
        /\ h' = h + 1 /\ Seen' = Seen \cup {Now} /\ (Now \notin Leaf => Now \in Made)
        /\ node = elems + Joins
    BY AssignStep, AssignFather
  <1>2. /\ Joins \in Nat /\ heap_max \in Nat /\ h \in Nat /\ h >= heap_max + 1 /\ h \in Sorted
        /\ Now \in Nodes /\ Now \in Nat /\ Father(h) \in Seen /\ Now \notin Seen
        /\ dl[Father(h)] \in 0 .. max_length /\ NowLength \in 1 .. max_length
        /\ \A j \in Sorted : j \in 0 .. HEAP_SIZE - 1 /\ heap[j] \in Nodes
    BY <1>1, AssignFather
  <1>3. \A x \in Seen : x \in Nodes /\ x # Now /\ dl[x] \in 0 .. max_length
    <2>1. ASSUME NEW j \in heap_max .. h - 1 PROVE heap[j] \in Nodes /\ dl[heap[j]] \in 0 .. max_length
      <3>1. j \in Sorted
        BY <1>1, <1>2, Numbers DEF Sorted
      <3>2. CASE j = heap_max
        BY <1>1, <1>2, <3>1, <3>2, Numbers DEF LengthsInv
      <3>3. CASE j # heap_max
        <4>1. j \in heap_max + 1 .. h - 1
          BY <1>2, <3>3
        <4> QED BY <1>1, <1>2, <3>1, <4>1, Numbers, SMTT(30) DEF LengthsInv
      <3> QED BY <3>2, <3>3
    <2> QED BY <1>2, <2>1 DEF Seen
  <1>4. \A x \in Seen' : dl'[x] \in 0 .. max_length
    <2>1. NowLength \in 0 .. max_length
      BY <1>2, Numbers
    <2> QED BY <1>1, <1>3, <2>1
  <1>5. (\A j \in 0 .. HEAP_SIZE - 1 : g[j] \in Nat) /\ \A j \in 0 .. HEAP_SIZE - 1 : e[j] \in Nat
    BY <1>3, <1>4
  <1>6. /\ Total(g, HEAP_SIZE) \in Nat /\ Total(e, HEAP_SIZE) \in Nat
        /\ Summable(g, HEAP_SIZE) /\ Summable(e, HEAP_SIZE) /\ HEAP_SIZE \in Nat
    BY <1>5, TotalNat, Numbers
  <1>7. h \in 0 .. HEAP_SIZE - 1 /\ g[h] = W[dl[Father(h)]] /\ e[h] = 0 /\ g[h] \in Nat
    BY <1>1, <1>2, <1>5
  <1>8. ASSUME NEW j \in 0 .. HEAP_SIZE - 1, j # h, Father(j) # Now PROVE e[j] = g[j]
    <2>1. j >= h' <=> j >= h
      BY <1>1, <1>2, <1>8
    <2>2. Father(j) \in Seen' <=> Father(j) \in Seen
      BY <1>1, <1>8
    <2>3. Father(j) \in Seen => dl'[Father(j)] = dl[Father(j)]
      BY <1>1, <1>3
    <2> QED BY <2>1, <2>2, <2>3
  <1>9. CASE Now \in Leaf
    <2>1. ASSUME NEW j \in 0 .. HEAP_SIZE - 1 PROVE Father(j) # Now
      <3>1. Now \in Int /\ Now <= elems - 1
        BY <1>9, Sizes DEF Leaf
      <3>2. Father(j) >= elems /\ Father(j) \in Int
        BY Numbers DEF Father
      <3> QED BY <3>1, <3>2, Numbers
    <2>2. \A j \in 0 .. HEAP_SIZE - 1 : j # h => e[j] = g[j]
      BY <1>8, <2>1
    <2>3. Total(e, HEAP_SIZE) = Total(g, HEAP_SIZE) + (e[h] - g[h])
      <3> DEFINE at == h
      <3>1. at \in 0 .. HEAP_SIZE - 1 /\ \A j \in 0 .. HEAP_SIZE - 1 : j # at => e[j] = g[j]
        BY <1>7, <2>2
      <3> HIDE DEF at
      <3>2. Total(e, HEAP_SIZE) = Total(g, HEAP_SIZE) + (e[at] - g[at])
        BY <1>6, <3>1, TotalChange
      <3> QED BY <3>2 DEF at
    <2> QED BY <1>6, <1>7, <1>9, <2>3
  <1>10. CASE Now \notin Leaf
    <2>1. PICK i \in Nat : Now = elems + i
      <3>1. Now - elems \in Nat /\ Now = elems + (Now - elems)
        BY <1>1, <1>2, <1>10, Numbers DEF Made
      <3> QED BY <3>1
    <2> DEFINE c == HEAP_SIZE - 1 - 2 * i
               d == HEAP_SIZE - 2 - 2 * i
    <2>2. Now < Father(h)
      BY <1>1, <1>2 DEF Placed, Now
    <2>3. c > h /\ d > h /\ c # d /\ c \in 0 .. HEAP_SIZE - 1 /\ d \in 0 .. HEAP_SIZE - 1
      BY <1>1, <1>2, <2>1, <2>2, Numbers DEF Father
    <2>4. \A j \in 0 .. HEAP_SIZE - 1 : Father(j) = Now <=> j = c \/ j = d
      BY <2>1, Sons
    <2> HIDE DEF c, d
    <2>5. /\ g[c] = 0 /\ g[d] = 0
      BY <1>2, <2>3, <2>4
    <2>6. e[c] = W[NowLength] /\ e[d] = W[NowLength]
      <3>1. c >= h' /\ d >= h'
        BY <1>1, <1>2, <2>3
      <3> QED BY <1>1, <2>3, <2>4, <3>1
    <2>7. \A j \in 0 .. HEAP_SIZE - 1 : j # h /\ j # c /\ j # d => e[j] = g[j]
      BY <1>8, <2>4
    <2>8. Total(e, HEAP_SIZE) = Total(g, HEAP_SIZE) + (e[h] - g[h]) + (e[c] - g[c]) + (e[d] - g[d])
      <3>1. h # c /\ h # d
        BY <1>2, <2>3
      <3> QED BY <1>6, <1>7, <2>3, <2>7, <3>1, TotalChange3
    <2>9. W[NowLength] \in Nat
      BY <1>2, Numbers
    <2> QED BY <1>6, <1>7, <1>10, <2>5, <2>6, <2>8, <2>9
  <1> QED BY <1>6, <1>9, <1>10

\* One leaf more of a length takes its space.
LEMMA SpaceChange ==
    ASSUME NEW c \in [0 .. MAX_BITS -> Int], NEW e \in [0 .. MAX_BITS -> Int], NEW l \in 0 .. max_length,
           \A b \in 0 .. max_length : b # l => e[b] = c[b]
    PROVE  Space(c) \in Int /\ Space(e) = Space(c) + (e[l] - c[l]) * Power2[max_length - l]
  <1> DEFINE f == [b \in 0 .. max_length |-> c[b] * Power2[max_length - b]]
             g == [b \in 0 .. max_length |-> e[b] * Power2[max_length - b]]
  <1>1. \A b \in 0 .. max_length : max_length - b \in 0 .. MAX_BITS /\ b \in 0 .. MAX_BITS
    BY Numbers
  <1>2. \A b \in 0 .. max_length : Power2[max_length - b] \in Nat
    BY <1>1, Powers
  <1>3. PICK to \in Nat : to = max_length + 1
    BY Numbers
  <1>4. \A b \in 0 .. to - 1 : b \in 0 .. max_length
    BY <1>3, Numbers
  <1>5. ASSUME NEW b \in 0 .. max_length PROVE f[b] \in Int /\ g[b] \in Int
    <2>1. c[b] \in Int /\ e[b] \in Int /\ Power2[max_length - b] \in Nat
      BY <1>1, <1>2
    <2> QED BY <2>1
  <1>6. Space(c) = Total(f, to) /\ Space(e) = Total(g, to)
    BY <1>3 DEF Space
  <1>7. \A b \in 0 .. max_length : b # l => g[b] = f[b]
    OBVIOUS
  <1>8. g[l] - f[l] = (e[l] - c[l]) * Power2[max_length - l]
    <2> DEFINE p == Power2[max_length - l]
    <2>1. p \in Int /\ c[l] \in Int /\ e[l] \in Int
      BY <1>1, <1>2
    <2>2. g[l] = e[l] * p /\ f[l] = c[l] * p
      OBVIOUS
    <2> HIDE DEF p
    <2>3. e[l] * p = c[l] * p + (e[l] - c[l]) * p
      BY <2>1
    <2> QED BY <2>1, <2>2, <2>3 DEF p
  <1> HIDE DEF f, g
  <1>9. Summable(f, to) /\ Summable(g, to) /\ l \in 0 .. to - 1
    BY <1>3, <1>4, <1>5, Numbers DEF Summable
  <1>10. Total(g, to) = Total(f, to) + (g[l] - f[l])
    BY <1>4, <1>7, <1>9, TotalChange
  <1>11. Total(f, to) \in Int
    BY <1>9, TotalType
  <1> QED BY <1>6, <1>8, <1>10, <1>11

\* The equation of the space, when a node gets its length.
LEMMA AssignSpace ==
    ASSUME IInv, AssignLength
    PROVE  2 * Space(bl_count') + Total(Open', HEAP_SIZE) = 2 * Power2[max_length] + overflow'
  <1>1. /\ TypeOK /\ Placed /\ TreeInv /\ LengthsInv /\ pc = "lengths" /\ h < HEAP_SIZE
        /\ overflow' = (IF Long THEN overflow + 1 ELSE overflow)
        /\ (Now \in Leaf => bl_count' = [bl_count EXCEPT ![NowLength] = @ + 1])
        /\ (Now \notin Leaf => bl_count' = bl_count)
        /\ heap_max' = heap_max
    BY AssignStep
  <1>2. /\ dl[Father(h)] \in 0 .. max_length /\ NowLength \in 1 .. max_length
        /\ (Long <=> dl[Father(h)] = max_length)
        /\ (~Long => NowLength = dl[Father(h)] + 1) /\ (Long => NowLength = max_length)
    BY <1>1, AssignFather
  <1> DEFINE W == [b \in 0 .. max_length |-> Power2[max_length - b]]
             g == Open
             e == Open'
             w == W[NowLength]
             x == W[dl[Father(h)]]
  <1>3. W \in [0 .. max_length -> Nat] /\ \A b \in 0 .. max_length : W[b] = Power2[max_length - b]
    <2>1. \A b \in 0 .. max_length : max_length - b \in 0 .. MAX_BITS
      BY Numbers
    <2> QED BY <2>1, Powers
  <1> HIDE DEF W
  <1>4. x = IF Long THEN 1 ELSE 2 * w
    <2>1. CASE Long
      <3>1. max_length - max_length = 0 /\ max_length \in 0 .. max_length
        BY Numbers
      <3> QED BY <1>2, <1>3, <2>1, <3>1, Powers
    <2>2. CASE ~Long
      <3>1. PICK i \in 0 .. MAX_BITS - 1 : i = max_length - NowLength
        BY <1>2, Numbers
      <3>2. max_length - dl[Father(h)] = i + 1
        BY <1>2, <2>2, <3>1, Numbers
      <3>3. NowLength \in 0 .. max_length
        BY <1>2, Numbers
      <3>4. w = Power2[i] /\ x = Power2[i + 1]
        BY <1>2, <1>3, <3>1, <3>2, <3>3
      <3> QED BY <2>2, <3>1, <3>4, Powers
    <2> QED BY <2>1, <2>2
  <1>5. Long => w = 1
    <2>1. max_length - max_length = 0 /\ max_length \in 0 .. max_length
      BY Numbers
    <2> QED BY <1>2, <1>3, <2>1, Powers
  <1>6. /\ \A j \in 0 .. HEAP_SIZE - 1 : g[j] = IF j >= h /\ Father(j) \in Seen THEN W[dl[Father(j)]] ELSE 0
        /\ \A j \in 0 .. HEAP_SIZE - 1 : e[j] = IF j >= h' /\ Father(j) \in Seen' THEN W[dl'[Father(j)]] ELSE 0
    <2>0. \A j \in heap_max .. h - 1 : j \in Sorted /\ heap[j] \in Nodes
      <3>1. h \in Nat /\ heap_max \in Nat
        BY <1>1 DEF TypeOK
      <3>2. \A j \in heap_max .. h - 1 : j \in Sorted
        BY <1>1, <3>1, Numbers DEF Sorted
      <3> QED BY <1>1, <3>2, AssignFather
    <2>1. \A y \in Seen : dl[y] \in 0 .. max_length
      <3>1. ASSUME NEW j \in heap_max .. h - 1 PROVE dl[heap[j]] \in 0 .. max_length
        <4>1. j = heap_max \/ j \in heap_max + 1 .. h - 1
          <5>1. h \in Nat /\ heap_max \in Nat
            BY <1>1 DEF TypeOK
          <5> QED BY <5>1
        <4>2. dl[heap[heap_max]] = 0 /\ \A l \in heap_max + 1 .. h - 1 : dl[heap[l]] \in 1 .. max_length
          BY <1>1 DEF LengthsInv
        <4> QED BY <4>1, <4>2, Numbers
      <3> QED BY <3>1 DEF Seen
    <2>2. \A y \in Seen' : dl'[y] \in 0 .. max_length
      <3>1. /\ dl'[Now] = NowLength /\ (\A y \in Nodes : y # Now => dl'[y] = dl[y]) /\ Seen' = Seen \cup {Now}
        BY AssignStep
      <3>2. Now \notin Seen /\ \A y \in Seen : y \in Nodes
        BY <1>1, <2>0, AssignFather DEF Seen
      <3>3. NowLength \in 0 .. max_length
        BY <1>2, Numbers
      <3> QED BY <2>1, <3>1, <3>2, <3>3
    <2>3. \A j \in 0 .. HEAP_SIZE - 1 : g[j] = IF j >= h /\ Father(j) \in Seen THEN Power2[max_length - dl[Father(j)]] ELSE 0
      BY DEF Open
    <2>4. \A j \in 0 .. HEAP_SIZE - 1 :
            e[j] = IF j >= h' /\ Father(j) \in Seen' THEN Power2[max_length - dl'[Father(j)]] ELSE 0
      BY DEF Open, Father
    <2> HIDE DEF g, e
    <2> QED BY <1>3, <2>1, <2>2, <2>3, <2>4
  <1> HIDE DEF g, e
  <1>7. /\ Total(g, HEAP_SIZE) \in Nat /\ Total(e, HEAP_SIZE) \in Nat
        /\ Total(e, HEAP_SIZE) = Total(g, HEAP_SIZE) - x + (IF Now \in Leaf THEN 0 ELSE 2 * w)
    BY <1>3, <1>6, OpenChange
  <1>8. 2 * Space(bl_count) + Total(g, HEAP_SIZE) = 2 * Power2[max_length] + overflow
    BY <1>1 DEF LengthsInv, g
  <1>9. w \in Nat /\ Power2[max_length] \in Nat /\ overflow \in Int
    <2>1. NowLength \in 0 .. max_length /\ max_length \in 0 .. MAX_BITS
      BY <1>2, Numbers
    <2> QED BY <1>1, <1>3, <2>1, Powers DEF TypeOK
  <1>10. Space(bl_count) \in Int /\ Space(bl_count') = Space(bl_count) + (IF Now \in Leaf THEN w ELSE 0)
    <2>1. bl_count \in [0 .. MAX_BITS -> Int] /\ NowLength \in 0 .. max_length /\ NowLength \in 0 .. MAX_BITS
      BY <1>1, <1>2, Numbers DEF TypeOK
    <2>2. Power2[max_length - NowLength] = w
      BY <1>3, <2>1
    <2>3. CASE Now \in Leaf
      <3>1. /\ bl_count' \in [0 .. MAX_BITS -> Int] /\ bl_count'[NowLength] = bl_count[NowLength] + 1
            /\ \A b \in 0 .. max_length : b # NowLength => bl_count'[b] = bl_count[b]
        <4>1. \A b \in 0 .. max_length : b \in 0 .. MAX_BITS
          BY Numbers
        <4> QED BY <1>1, <2>1, <2>3, <4>1
      <3>2. Space(bl_count) \in Int
            /\ Space(bl_count') = Space(bl_count)
                 + (bl_count'[NowLength] - bl_count[NowLength]) * Power2[max_length - NowLength]
        BY <2>1, <3>1, SpaceChange
      <3>3. bl_count'[NowLength] - bl_count[NowLength] = 1
        BY <2>1, <3>1
      <3> QED BY <1>9, <2>2, <2>3, <3>2, <3>3
    <2>4. CASE Now \notin Leaf
      <3>2. Space(bl_count) \in Int
        BY <2>1, SpaceChange
      <3> QED BY <1>1, <2>4, <3>2
    <2> QED BY <2>3, <2>4
  <1> HIDE DEF w, x
  <1>11. 2 * Space(bl_count') + Total(e, HEAP_SIZE) = 2 * Power2[max_length] + overflow'
    BY <1>1, <1>4, <1>5, <1>7, <1>8, <1>9, <1>10
  <1> QED BY <1>11 DEF e

\* There are longest leaves for all overflows, when a node gets its length.
LEMMA AssignLong ==
    ASSUME IInv, AssignLength
    PROVE  overflow' >= 0 /\ 2 * bl_count'[max_length] + Total(OpenLong', HEAP_SIZE) >= overflow'
  <1>1. /\ TypeOK /\ Placed /\ TreeInv /\ LengthsInv /\ pc = "lengths" /\ h < HEAP_SIZE
        /\ overflow' = (IF Long THEN overflow + 1 ELSE overflow)
        /\ (Now \in Leaf => bl_count' = [bl_count EXCEPT ![NowLength] = @ + 1])
        /\ (Now \notin Leaf => bl_count' = bl_count)
    BY AssignStep
  <1>2. /\ dl[Father(h)] \in 0 .. max_length /\ NowLength \in 1 .. max_length
        /\ (Long <=> dl[Father(h)] = max_length) /\ (Long => NowLength = max_length)
    BY <1>1, AssignFather
  <1> DEFINE W == [b \in 0 .. max_length |-> IF b = max_length THEN 1 ELSE 0]
             g == OpenLong
             e == OpenLong'
  <1>3. W \in [0 .. max_length -> Nat] /\ \A b : b \in 0 .. max_length => W[b] = IF b = max_length THEN 1 ELSE 0
    OBVIOUS
  <1>4. /\ \A y \in Seen : dl[y] \in 0 .. max_length
        /\ \A y \in Seen' : dl'[y] \in 0 .. max_length
    <2>0. h \in Nat /\ heap_max \in Nat
      BY <1>1 DEF TypeOK
    <2>1. \A j \in heap_max .. h - 1 : heap[j] \in Nodes /\ dl[heap[j]] \in 0 .. max_length
      <3>1. ASSUME NEW j \in heap_max .. h - 1 PROVE heap[j] \in Nodes /\ dl[heap[j]] \in 0 .. max_length
        <4>1. j = heap_max \/ j \in heap_max + 1 .. h - 1
          BY <2>0
        <4>2. dl[heap[heap_max]] = 0 /\ \A l \in heap_max + 1 .. h - 1 : dl[heap[l]] \in 1 .. max_length
          BY <1>1 DEF LengthsInv
        <4>3. j \in Sorted
          BY <1>1, <2>0, Numbers DEF Sorted
        <4>4. heap[j] \in Nodes
          BY <1>1, <4>3, AssignFather
        <4> QED BY <4>1, <4>2, <4>4, Numbers
      <3> QED BY <3>1
    <2>2. \A y \in Seen : y \in Nodes /\ dl[y] \in 0 .. max_length
      BY <2>1 DEF Seen
    <2>3. /\ dl'[Now] = NowLength /\ (\A y \in Nodes : y # Now => dl'[y] = dl[y]) /\ Seen' = Seen \cup {Now}
      BY AssignStep
    <2>4. NowLength \in 0 .. max_length /\ Now \notin Seen
      BY <1>1, <1>2, Numbers, AssignFather
    <2> QED BY <2>2, <2>3, <2>4
  <1>5. /\ \A j \in 0 .. HEAP_SIZE - 1 : g[j] = IF j >= h /\ Father(j) \in Seen THEN W[dl[Father(j)]] ELSE 0
        /\ \A j \in 0 .. HEAP_SIZE - 1 : e[j] = IF j >= h' /\ Father(j) \in Seen' THEN W[dl'[Father(j)]] ELSE 0
    <2>1. \A j \in 0 .. HEAP_SIZE - 1 :
            g[j] = IF j >= h /\ Father(j) \in Seen /\ dl[Father(j)] = max_length THEN 1 ELSE 0
      BY DEF OpenLong
    <2>2. \A j \in 0 .. HEAP_SIZE - 1 :
            e[j] = IF j >= h' /\ Father(j) \in Seen' /\ dl'[Father(j)] = max_length THEN 1 ELSE 0
      BY DEF OpenLong, Father
    <2> HIDE DEF g, e, W
    <2> QED BY <1>3, <1>4, <2>1, <2>2
  <1> HIDE DEF g, e, W
  <1>6. /\ Total(g, HEAP_SIZE) \in Nat /\ Total(e, HEAP_SIZE) \in Nat
        /\ Total(e, HEAP_SIZE) = Total(g, HEAP_SIZE) - W[dl[Father(h)]]
                                   + (IF Now \in Leaf THEN 0 ELSE 2 * W[NowLength])
    BY <1>3, <1>5, OpenChange
  <1>7. overflow >= 0 /\ 2 * bl_count[max_length] + Total(g, HEAP_SIZE) >= overflow /\ overflow \in Int
    BY <1>1 DEF LengthsInv, g, TypeOK
  <1>8. /\ bl_count[max_length] \in Nat /\ bl_count'[max_length] \in Nat
        /\ bl_count'[max_length] = bl_count[max_length]
             + (IF Now \in Leaf /\ NowLength = max_length THEN 1 ELSE 0)
    <2>1. max_length \in 0 .. MAX_BITS /\ NowLength \in 0 .. MAX_BITS
      BY <1>2, Numbers
    <2>2. bl_count \in [0 .. MAX_BITS -> Nat]
      BY <1>1 DEF TypeOK
    <2>3. CASE Now \in Leaf
      BY <1>1, <2>1, <2>2, <2>3
    <2>4. CASE Now \notin Leaf
      BY <1>1, <2>1, <2>2, <2>4
    <2> QED BY <2>3, <2>4
  <1>9. /\ W[NowLength] = (IF NowLength = max_length THEN 1 ELSE 0)
        /\ W[dl[Father(h)]] = (IF Long THEN 1 ELSE 0)
    <2>1. NowLength \in 0 .. max_length
      BY <1>2, Numbers
    <2> QED BY <1>2, <1>3, <2>1
  <1>10. overflow' >= 0 /\ 2 * bl_count'[max_length] + Total(e, HEAP_SIZE) >= overflow'
    <2>1. CASE Now \in Leaf
      BY <1>1, <1>2, <1>6, <1>7, <1>8, <1>9, <2>1
    <2>2. CASE Now \notin Leaf
      BY <1>1, <1>2, <1>6, <1>7, <1>8, <1>9, <2>2
    <2> QED BY <2>1, <2>2
  <1> QED BY <1>10 DEF e

-----------------------------------------------------------------------------
(* gen_bitlen: the costs                                                    *)

\* Costs are integers.
LEMMA CostTypes ==
    ASSUME TypeOK, NEW P, NEW i \in Symbols
    PROVE  /\ OptCost(P)[i] \in Int /\ StatCost(P)[i] \in Int
           /\ fc[i] * (dl[i] + xbits(i)) \in Int
           /\ HasStatic => fc[i] * (static_len[i] + xbits(i)) \in Int /\ static_len[i] \in Int
           /\ OptCost(P)[i] = (IF i \in P /\ i \in Leaf THEN fc[i] * (dl[i] + xbits(i)) ELSE 0)
                                - (IF i \in Forced THEN 1 ELSE 0)
           /\ StatCost(P)[i] = (IF HasStatic /\ i \in P /\ i \in Leaf THEN fc[i] * (static_len[i] + xbits(i)) ELSE 0)
                                 - (IF HasStatic /\ i \in Forced THEN static_len[i] ELSE 0)
  <1>1. i \in Nodes /\ fc[i] \in Nat /\ dl[i] \in Nat /\ xbits(i) \in Nat
    BY BitsAssumption, Sizes DEF TypeOK
  <1>2. HasStatic => static_len[i] \in Nat
    BY BitsAssumption
  <1> DEFINE x == xbits(i)
  <1>3. fc[i] * (dl[i] + x) \in Int /\ (HasStatic => fc[i] * (static_len[i] + x) \in Int)
    <2> HIDE DEF x
    <2>1. x \in Nat
      BY <1>1 DEF x
    <2> QED BY <1>1, <1>2, <2>1
  <1>4. /\ OptCost(P)[i] = (IF i \in P /\ i \in Leaf THEN fc[i] * (dl[i] + x) ELSE 0)
                             - (IF i \in Forced THEN 1 ELSE 0)
        /\ StatCost(P)[i] = (IF HasStatic /\ i \in P /\ i \in Leaf THEN fc[i] * (static_len[i] + x) ELSE 0)
                              - (IF HasStatic /\ i \in Forced THEN static_len[i] ELSE 0)
    BY DEF OptCost, StatCost
  <1> HIDE DEF x
  <1>5. OptCost(P)[i] \in Int /\ StatCost(P)[i] \in Int
    BY <1>2, <1>3, <1>4
  <1> QED BY <1>2, <1>3, <1>4, <1>5 DEF x

\* The types, when a node gets its length.
LEMMA AssignType == ASSUME IInv, AssignLength PROVE TypeOK'
  <1>1. /\ TypeOK /\ Placed /\ TreeInv /\ LengthsInv /\ pc = "lengths" /\ h < HEAP_SIZE
        /\ dl' = [dl EXCEPT ![Now] = NowLength]
        /\ overflow' = (IF Long THEN overflow + 1 ELSE overflow)
        /\ (Now \in Leaf => /\ opt_len' = opt_len + fc[Now] * (NowLength + xbits(Now))
                            /\ stat_len' = stat_len + IF HasStatic THEN fc[Now] * (static_len[Now] + xbits(Now)) ELSE 0)
        /\ (Now \notin Leaf => UNCHANGED <<opt_len, stat_len>>)
        /\ h' = h + 1
        /\ UNCHANGED <<freq, fc, depth, heap, heap_len, heap_max, node, max_code, cut, next_code, code,
                       n, k, bits, after, pc>>
    BY AssignStep
  <1>2. bl_count' \in [0 .. MAX_BITS -> Nat]
    BY AssignCounts
  <1>3. NowLength \in Nat /\ Now \in Nodes /\ h \in Nat
    <2>1. NowLength \in 1 .. max_length /\ Now \in Nodes /\ h \in Nat
      BY <1>1, AssignFather
    <2> QED BY <2>1, Numbers
  <1>4. dl' \in [Nodes -> Nat] /\ overflow' \in Int /\ h' \in Nat
    BY <1>1, <1>3 DEF TypeOK
  <1>5. opt_len' \in Int /\ stat_len' \in Int
    <2>1. CASE Now \in Leaf
      <3>1. Now \in Symbols
        BY <2>1 DEF Leaf
      <3>2. HasStatic => fc[Now] * (static_len[Now] + xbits(Now)) \in Int
        BY <1>1, <3>1, CostTypes
      <3>3. fc[Now] * (NowLength + xbits(Now)) \in Int
        <4> DEFINE x == xbits(Now)
        <4>1. x \in Nat /\ fc[Now] \in Nat
          BY <1>1, <1>3, <3>1, BitsAssumption DEF TypeOK
        <4> HIDE DEF x
        <4>2. fc[Now] * (NowLength + x) \in Int
          BY <1>3, <4>1
        <4> QED BY <4>2 DEF x
      <3>4. opt_len \in Int /\ stat_len \in Int
        BY <1>1 DEF TypeOK
      <3> QED BY <1>1, <2>1, <3>2, <3>3, <3>4
    <2>2. CASE Now \notin Leaf
      BY <1>1, <2>2 DEF TypeOK
    <2> QED BY <2>1, <2>2
  <1>6. TypeOK /\ UNCHANGED <<freq, fc, depth, heap, heap_len, heap_max, node, max_code, cut, next_code, code,
                              n, k, bits, after, pc>>
    BY <1>1
  <1> QED BY <1>2, <1>4, <1>5, <1>6 DEF TypeOK

\* The costs, when a node gets its length.
LEMMA AssignCosts == ASSUME IInv, AssignLength PROVE CostInv'
  <1>1. /\ TypeOK /\ Placed /\ TreeInv /\ LengthsInv /\ CostInv /\ pc = "lengths" /\ h < HEAP_SIZE
        /\ dl'[Now] = NowLength /\ (\A x \in Nodes : x # Now => dl'[x] = dl[x])
        /\ (Now \in Leaf => /\ opt_len' = opt_len + fc[Now] * (NowLength + xbits(Now))
                            /\ stat_len' = stat_len + IF HasStatic THEN fc[Now] * (static_len[Now] + xbits(Now)) ELSE 0)
        /\ (Now \notin Leaf => UNCHANGED <<opt_len, stat_len>>)
        /\ UNCHANGED <<fc, pc>> /\ Leaf' = Leaf /\ Forced' = Forced /\ Seen' = Seen \cup {Now}
        /\ (Now \notin Leaf => Now \in Made)
    BY AssignStep
  <1>2. NowLength \in 1 .. max_length /\ Now \notin Seen /\ Now \in Nodes /\ node = elems + Joins
    BY <1>1, AssignFather
  <1>3. TypeOK'
    BY AssignType
  <1>4. Measured = Seen /\ Measured' = Seen'
    BY <1>1 DEF Measured, Building
  <1>5. opt_len = Total(OptCost(Seen), elems) /\ stat_len = Total(StatCost(Seen), elems)
    BY <1>1, <1>4 DEF CostInv
  <1> DEFINE g == OptCost(Seen)
             e == OptCost(Seen)'
             gs == StatCost(Seen)
             es == StatCost(Seen)'
             cost == fc[Now] * (NowLength + xbits(Now))
             stat == IF HasStatic THEN fc[Now] * (static_len[Now] + xbits(Now)) ELSE 0
  <1>6. /\ OptCost(Measured)' = e /\ StatCost(Measured)' = es
    BY <1>4 DEF OptCost, StatCost
  <1>7. \A i \in Symbols : /\ g[i] = (IF i \in Seen /\ i \in Leaf THEN fc[i] * (dl[i] + xbits(i)) ELSE 0)
                                       - (IF i \in Forced THEN 1 ELSE 0)
                           /\ gs[i] = (IF HasStatic /\ i \in Seen /\ i \in Leaf THEN fc[i] * (static_len[i] + xbits(i)) ELSE 0)
                                       - (IF HasStatic /\ i \in Forced THEN static_len[i] ELSE 0)
                           /\ g[i] \in Int /\ gs[i] \in Int
    BY <1>1, CostTypes
  <1>8. \A i \in Symbols : /\ e[i] = (IF i \in Seen' /\ i \in Leaf THEN fc[i] * (dl'[i] + xbits(i)) ELSE 0)
                                       - (IF i \in Forced THEN 1 ELSE 0)
                           /\ es[i] = (IF HasStatic /\ i \in Seen' /\ i \in Leaf THEN fc[i] * (static_len[i] + xbits(i)) ELSE 0)
                                       - (IF HasStatic /\ i \in Forced THEN static_len[i] ELSE 0)
    BY <1>1 DEF OptCost, StatCost, xbits
  <1> HIDE DEF g, e, gs, es
  <1>9. \A i \in Symbols : i # Now \/ Now \notin Leaf => e[i] = g[i] /\ es[i] = gs[i]
    <2>1. ASSUME NEW i \in Symbols, i # Now \/ Now \notin Leaf PROVE i # Now
      <3>1. Now \notin Leaf => Now >= elems
        BY <1>1, <1>2, Numbers DEF Made
      <3> QED BY <2>1, <3>1, Sizes
    <2>2. \A i \in Symbols : i \in Nodes
      BY Sizes
    <2>3. ASSUME NEW i \in Symbols, i # Now PROVE e[i] = g[i] /\ es[i] = gs[i]
      <3>1. dl'[i] = dl[i] /\ (i \in Seen' <=> i \in Seen)
        BY <1>1, <2>2, <2>3
      <3> QED BY <1>7, <1>8, <3>1
    <2> QED BY <2>1, <2>3
  <1>10. CASE Now \in Leaf
    <2>1. Now \in Symbols
      BY <1>10 DEF Leaf
    <2>2. cost \in Int /\ stat \in Int
      <3>1. HasStatic => fc[Now] * (static_len[Now] + xbits(Now)) \in Int
        BY <1>1, <2>1, CostTypes
      <3>2. fc[Now] * (NowLength + xbits(Now)) \in Int
        <4> DEFINE x == xbits(Now)
        <4>1. x \in Nat /\ fc[Now] \in Nat
          BY <1>1, <1>2, <2>1, BitsAssumption DEF TypeOK
        <4>2. NowLength \in Nat
          BY <1>2, Numbers
        <4> HIDE DEF x
        <4>3. fc[Now] * (NowLength + x) \in Int
          BY <4>1, <4>2
        <4> QED BY <4>3 DEF x
      <3> QED BY <3>1, <3>2
    <2>3. e[Now] = cost - (IF Now \in Forced THEN 1 ELSE 0)
          /\ g[Now] = 0 - (IF Now \in Forced THEN 1 ELSE 0)
          /\ es[Now] = stat - (IF HasStatic /\ Now \in Forced THEN static_len[Now] ELSE 0)
          /\ gs[Now] = 0 - (IF HasStatic /\ Now \in Forced THEN static_len[Now] ELSE 0)
      BY <1>1, <1>2, <1>7, <1>8, <1>10, <2>1
    <2>4. opt_len' = opt_len + cost /\ stat_len' = stat_len + stat
      BY <1>1, <1>10
    <2>5. HasStatic => static_len[Now] \in Int
      BY <2>1, BitsAssumption
    <2> HIDE DEF cost, stat
    <2>6. e[Now] - g[Now] = cost /\ es[Now] - gs[Now] = stat /\ e[Now] \in Int /\ es[Now] \in Int
      BY <2>2, <2>3, <2>5
    <2>7. \A i \in Symbols : e[i] \in Int /\ es[i] \in Int
      BY <1>7, <1>9, <2>6
    <2> DEFINE at == Now
    <2>8. at \in Symbols /\ \A i \in Symbols : i # at => e[i] = g[i] /\ es[i] = gs[i]
      BY <1>9, <2>1
    <2> HIDE DEF at
    <2>9. /\ Total(e, elems) = Total(g, elems) + (e[at] - g[at])
          /\ Total(es, elems) = Total(gs, elems) + (es[at] - gs[at])
      BY <1>7, <2>7, <2>8, SymbolsChange
    <2>10. opt_len' = Total(e, elems) /\ stat_len' = Total(es, elems)
      BY <1>5, <2>4, <2>6, <2>9 DEF at, g, gs
    <2> QED BY <1>6, <2>10 DEF CostInv
  <1>11. CASE Now \notin Leaf
    <2>1. \A i \in Symbols : e[i] = g[i] /\ es[i] = gs[i]
      BY <1>9, <1>11
    <2>2. Total(e, elems) = Total(g, elems) /\ Total(es, elems) = Total(gs, elems)
      <3>1. Summable(g, elems) /\ Summable(gs, elems) /\ elems \in Nat
        BY <1>7, SymbolsSummable
      <3>2. \A i \in 0 .. elems - 1 : e[i] = g[i] /\ es[i] = gs[i]
        BY <2>1, Sizes
      <3> QED BY <3>1, <3>2, TotalSame
    <2>3. opt_len' = Total(e, elems) /\ stat_len' = Total(es, elems)
      BY <1>1, <1>5, <1>11, <2>2 DEF g, gs
    <2> QED BY <1>6, <2>3 DEF CostInv
  <1> QED BY <1>10, <1>11

\* Assigning a length.
LEMMA AssignLengthInv == IInv /\ AssignLength => IInv'
  <1> SUFFICES ASSUME IInv, AssignLength PROVE IInv'
    OBVIOUS
  <1>1. /\ TypeOK /\ ForcedInv /\ Placed /\ TreeInv /\ LengthsInv /\ pc = "lengths" /\ h < HEAP_SIZE
        /\ dl'[Now] = NowLength /\ (\A x \in Nodes : x # Now => dl'[x] = dl[x])
        /\ overflow' = (IF Long THEN overflow + 1 ELSE overflow)
        /\ h' = h + 1
        /\ UNCHANGED <<freq, fc, heap, heap_len, heap_max, node, max_code, n, pc>>
        /\ Leaf' = Leaf /\ Forced' = Forced /\ Made' = Made /\ Joins' = Joins /\ Sorted' = Sorted
        /\ Count(Leaf)' = Count(Leaf) /\ Seen' = Seen \cup {Now}
        /\ (Now \notin Leaf => Now \in Made)
    BY AssignStep
  <1>2. /\ heap_max \in Nat /\ h \in Nat /\ h >= heap_max + 1 /\ h \in Sorted /\ Places = Sorted /\ ~Held
        /\ Now \in Nodes /\ Now \in Nat /\ NowLength \in 1 .. max_length
        /\ (Long <=> dl[Father(h)] = max_length) /\ (~Long => NowLength = dl[Father(h)] + 1)
        /\ (Joins = 1 => dl[Father(h)] = 0)
        /\ (\A j \in Sorted : j \in 0 .. HEAP_SIZE - 1 /\ heap[j] \in Nodes)
        /\ \A j \in Sorted : j # h => heap[j] # Now
        /\ node = elems + Joins
    BY <1>1, AssignFather
  <1>3. ~Building' /\ Measuring' /\ ~Held' /\ Places' = Sorted
    BY <1>1 DEF Building, Measuring, Held, Places
  <1>4. \A i \in Symbols : i # Now \/ Now \in Leaf
    <2>1. Now \notin Leaf => Now >= elems
      BY <1>1, <1>2, Numbers DEF Made
    <2> QED BY <2>1, Sizes
  <1>5. Placed'
    <2>1. \A i \in Symbols : i \notin Leaf => dl'[i] = 0
      <3>1. ASSUME NEW i \in Symbols, i \notin Leaf PROVE dl'[i] = 0
        <4>1. i # Now /\ i \in Nodes
          BY <1>4, <3>1, Sizes
        <4> QED BY <1>1, <3>1, <4>1 DEF Placed
      <3> QED BY <3>1
    <2> QED BY <1>1, <1>2, <1>3, <2>1 DEF Placed, Father
  <1>6. TreeInv'
    BY <1>1 DEF TreeInv
  <1>7. LengthsInv'
    <2>1. h' \in heap_max' + 1 .. HEAP_SIZE
      BY <1>1, <1>2, Numbers
    <2>2. \A j \in h' .. HEAP_SIZE - 1 : dl'[heap'[j]] = Father(j)
      <3>1. \A j \in h' .. HEAP_SIZE - 1 : j \in Sorted /\ j # h /\ j \in h .. HEAP_SIZE - 1
        BY <1>1, <1>2, Numbers DEF Sorted
      <3> QED BY <1>1, <1>2, <3>1 DEF LengthsInv
    <2>3. dl'[heap'[heap_max']] = 0
      <3>1. heap_max \in Sorted /\ heap_max # h
        BY <1>1, <1>2, Numbers DEF Sorted
      <3> QED BY <1>1, <1>2, <3>1 DEF LengthsInv
    <2>4. \A j \in heap_max' + 1 .. h' - 1 : dl'[heap'[j]] \in 1 .. max_length
      <3>1. ASSUME NEW j \in heap_max' + 1 .. h' - 1 PROVE dl'[heap'[j]] \in 1 .. max_length
        <4>1. CASE j = h
          BY <1>1, <1>2, <4>1 DEF Now
        <4>2. CASE j # h
          <5>1. j \in heap_max + 1 .. h - 1 /\ j \in Sorted
            BY <1>1, <1>2, <3>1, <4>2, Numbers DEF Sorted
          <5> QED BY <1>1, <1>2, <4>2, <5>1 DEF LengthsInv
        <4> QED BY <4>1, <4>2
      <3> QED BY <3>1
    <2>5. \A b \in 0 .. MAX_BITS : bl_count'[b] = Count({i \in Leaf : i \in Seen' /\ dl'[i] = b})
      BY AssignCounts
    <2>6. Total(bl_count', MAX_BITS + 1) = Total(LeafAt, h)' /\ InLimits'
      <3>1. LeafAt' = LeafAt
        BY <1>1 DEF LeafAt
      <3> QED BY <1>1, <3>1, AssignCounts
    <2>7. overflow' >= 0 /\ 2 * bl_count'[max_length] + Total(OpenLong', HEAP_SIZE) >= overflow'
      BY AssignLong
    <2>8. 2 * Space(bl_count') + Total(Open', HEAP_SIZE) = 2 * Power2[max_length] + overflow'
      BY AssignSpace
    <2>9. Joins = 1 => overflow' = 0 /\ \A i \in Leaf : i \in Seen' => dl'[i] = 1
      <3>1. ASSUME Joins = 1 PROVE overflow' = 0 /\ \A i \in Leaf : i \in Seen' => dl'[i] = 1
        <4>1. ~Long /\ NowLength = 1
          BY <1>2, <3>1, Numbers
        <4>2. \A i \in Leaf : i \in Nodes
          BY Sizes DEF Leaf
        <4>3. overflow = 0 /\ \A i \in Leaf : i \in Seen => dl[i] = 1
          BY <1>1, <3>1 DEF LengthsInv
        <4> QED BY <1>1, <4>1, <4>2, <4>3
      <3> QED BY <3>1
    <2>10. /\ (\A j \in h .. HEAP_SIZE - 1 : dl[heap[j]] = Father(j))'
           /\ (2 * Space(bl_count) + Total(Open, HEAP_SIZE) = 2 * Power2[max_length] + overflow)'
           /\ (2 * bl_count[max_length] + Total(OpenLong, HEAP_SIZE) >= overflow)'
           /\ (\A b \in 0 .. MAX_BITS : bl_count[b] = Count({i \in Leaf : i \in Seen /\ dl[i] = b}))'
           /\ (Total(bl_count, MAX_BITS + 1) = Total(LeafAt, h))'
           /\ (Joins = 1 => overflow = 0 /\ \A i \in Leaf : i \in Seen => dl[i] = 1)'
      BY <1>1, <2>2, <2>5, <2>6, <2>7, <2>8, <2>9 DEF Father, Space, Count
    <2>11. /\ (h \in heap_max + 1 .. HEAP_SIZE)' /\ (dl[heap[heap_max]] = 0)'
           /\ (\A j \in heap_max + 1 .. h - 1 : dl[heap[j]] \in 1 .. max_length)'
           /\ InLimits' /\ (overflow >= 0)'
      BY <2>1, <2>3, <2>4, <2>6, <2>7
    <2> QED BY <2>10, <2>11 DEF LengthsInv
  <1>8. ForcedInv'
    <2>1. \A i \in Symbols : fc'[i] = fc[i]
      BY <1>1
    <2> QED BY <1>1, <2>1, ForcedFrame DEF Measuring
  <1>9. TypeOK' /\ CostInv'
    BY AssignType, AssignCosts
  <1> QED BY <1>1, <1>3, <1>5, <1>6, <1>7, <1>8, <1>9 DEF IInv, Building, Measuring

-----------------------------------------------------------------------------
(* gen_bitlen: when no length overflows                                     *)

\* How many symbols a set has is its cardinality.
LEMMA CountCardinality ==
    ASSUME NEW S, S \subseteq Symbols
    PROVE  IsFiniteSet(S) /\ Cardinality(S) = Count(S)
  <1> DEFINE g == [i \in Symbols |-> IF i \in S THEN 1 ELSE 0]
             below(m) == {i \in S : i < m}
             T == {m \in 0 .. elems : IsFiniteSet(below(m)) /\ Cardinality(below(m)) = Total(g, m)}
  <1>1. elems \in Nat /\ \A i \in S : i \in 0 .. elems - 1
    BY Sizes
  <1>2. \A i \in 0 .. elems - 1 : g[i] = IF i \in S THEN 1 ELSE 0
    BY Sizes
  <1>3. Count(S) = Total(g, elems)
    BY DEF Count
  <1> HIDE DEF g
  <1>4. Summable(g, elems)
    BY <1>2 DEF Summable
  <1>5. 0 \in T
    <2>1. below(0) = {}
      BY <1>1
    <2> QED BY <1>1, <2>1, FS_EmptySet, TotalNone
  <1>6. ASSUME NEW m \in 0 .. elems - 1, m \in T PROVE m + 1 \in T
    <2>1. m + 1 \in 0 .. elems /\ m \in Nat
      BY <1>1
    <2>2. Total(g, m + 1) = Total(g, m) + g[m] /\ Total(g, m) \in Int
      BY <1>1, <1>4, SummableLess
    <2>3. CASE m \in S
      <3>1. below(m + 1) = below(m) \cup {m} /\ m \notin below(m)
        <4>1. \A i \in S : i < m + 1 <=> i < m \/ i = m
          BY <1>1, <2>1
        <4>2. ~(m < m)
          BY <2>1
        <4> QED BY <2>3, <4>1, <4>2
      <3> HIDE DEF below
      <3>2. IsFiniteSet(below(m)) /\ Cardinality(below(m)) = Total(g, m)
        BY <1>6
      <3>3. IsFiniteSet(below(m) \cup {m}) /\ Cardinality(below(m) \cup {m}) = Cardinality(below(m)) + 1
        BY <3>1, <3>2, FS_AddElement
      <3> QED BY <1>2, <2>1, <2>2, <2>3, <3>1, <3>2, <3>3
    <2>4. CASE m \notin S
      <3>1. below(m + 1) = below(m)
        BY <1>1, <2>1, <2>4
      <3> HIDE DEF below
      <3>2. IsFiniteSet(below(m)) /\ Cardinality(below(m)) = Total(g, m)
        BY <1>6
      <3> QED BY <1>2, <2>1, <2>2, <2>4, <3>1, <3>2
    <2> QED BY <2>3, <2>4
  <1>7. elems \in T
    <2> HIDE DEF T
    <2>1. \A m \in 0 .. elems : m \in T
      BY <1>1, <1>5, <1>6, Upwards
    <2> QED BY <1>1, <2>1
  <1>8. below(elems) = S
    BY <1>1
  <1> QED BY <1>3, <1>7, <1>8

\* Every leaf has its length when the end of the heap is reached.
LEMMA AllSeen ==
    ASSUME TypeOK, Placed, TreeInv, LengthsInv, pc = "lengths", h = HEAP_SIZE
    PROVE  /\ \A i \in Leaf : i \in Seen /\ dl[i] \in 1 .. max_length
           /\ Total(Open, HEAP_SIZE) = 0 /\ Total(OpenLong, HEAP_SIZE) = 0
  <1>1. heap_max \in Nat /\ Places = Sorted /\ ~Held /\ node - 1 >= elems
    <2>1. Joins >= 1 /\ Joins = node - elems /\ node \in Nat
      BY Numbers DEF TreeInv, Joins, TypeOK
    <2> QED BY <2>1, Numbers DEF Places, Building, Held, TypeOK
  <1>2. ASSUME NEW i \in Leaf PROVE i \in Seen /\ dl[i] \in 1 .. max_length
    <2>1. PICK q \in Sorted : heap[q] = i
      BY <1>1 DEF Placed
    <2>2. i < elems
      BY Sizes DEF Leaf
    <2>3. q # heap_max
      <3>1. heap[heap_max] = node - 1
        BY DEF TreeInv
      <3>2. i \in Int /\ node - 1 \in Int
        BY Sizes DEF Leaf, TypeOK
      <3> QED BY <1>1, <2>1, <2>2, <3>1, <3>2, Numbers
    <2>4. q \in heap_max + 1 .. h - 1 /\ q \in heap_max .. h - 1
      BY <1>1, <2>1, <2>3, Numbers DEF Sorted
    <2> QED BY <2>1, <2>4 DEF LengthsInv, Seen
  <1> DEFINE g == Open
             e == OpenLong
  <1>3. \A j \in 0 .. HEAP_SIZE - 1 : g[j] = 0 /\ e[j] = 0
    BY Numbers DEF Open, OpenLong
  <1> HIDE DEF g, e
  <1>4. Total(g, HEAP_SIZE) = 0 /\ Total(e, HEAP_SIZE) = 0
    BY <1>3, TotalZero, Numbers
  <1> QED BY <1>2, <1>4 DEF g, e

\* Lengths that fill the space fill the codes of the greatest length.
LEMMA SpaceTaken ==
    ASSUME TypeOK, InLimits, Space(bl_count) = Power2[max_length]
    PROVE  Taken(MAX_BITS + 1) = Power2[MAX_BITS]
  <1> DEFINE f == [c \in 0 .. MAX_BITS |-> bl_count[c] * Weight(c)]
             s == [b \in 0 .. max_length |-> bl_count[b] * Power2[max_length - b]]
             more == Power2[MAX_BITS - max_length]
  <1>1. PICK to \in Nat : to = MAX_BITS + 1
    BY Numbers
  <1>2. PICK from \in Nat : from = max_length + 1
    BY Numbers
  <1>3. Taken(MAX_BITS + 1) = Total(f, to) /\ Space(bl_count) = Total(s, from)
    BY <1>1, <1>2 DEF Taken, Space
  <1>4. /\ (MAX_BITS - max_length) \in Nat /\ max_length \in Nat
        /\ max_length + (MAX_BITS - max_length) = MAX_BITS
    BY Numbers
  <1>5. more \in Nat /\ Power2[MAX_BITS] = Power2[max_length] * more
    <2>1. PICK d \in Nat : d = MAX_BITS - max_length
      BY <1>4
    <2>2. max_length + d = MAX_BITS
      BY <1>4, <2>1
    <2>3. Power2[max_length + d] = Power2[max_length] * Power2[d] /\ Power2[d] \in Nat
      BY <1>4, <2>2, Numbers, PowersMultiply
    <2> QED BY <2>1, <2>2, <2>3
  <1>6. \A c \in 0 .. MAX_BITS : bl_count[c] \in Nat
    BY DEF TypeOK
  <1>7. ASSUME NEW c \in 0 .. from - 1 PROVE s[c] \in Int /\ f[c] = s[c] * more
    <2>1. c \in 0 .. max_length /\ c \in 0 .. MAX_BITS /\ max_length - c \in Nat
          /\ (max_length - c) + (MAX_BITS - max_length) = MAX_BITS - c
          /\ max_length - c <= MAX_BITS /\ MAX_BITS - c <= MAX_BITS
      BY <1>2, Numbers
    <2>2. PICK d \in Nat : d = MAX_BITS - max_length
      BY <1>4
    <2>3. PICK l \in Nat : l = max_length - c
      BY <2>1
    <2>4. l + d = MAX_BITS - c /\ l + d <= MAX_BITS
      BY <2>1, <2>2, <2>3, Numbers
    <2>5. Power2[l + d] = Power2[l] * Power2[d] /\ Power2[l] \in Nat /\ Power2[d] \in Nat
      BY <2>4, PowersMultiply
    <2> DEFINE a == bl_count[c]
               p == Power2[l]
               q == Power2[d]
    <2>6. f[c] = a * (p * q) /\ s[c] = a * p /\ more = q
      BY <2>1, <2>2, <2>3, <2>4, <2>5 DEF Weight
    <2>7. a \in Nat /\ p \in Nat /\ q \in Nat
      BY <1>6, <2>1, <2>5
    <2> HIDE DEF a, p, q, f, s, more
    <2>8. a * (p * q) = (a * p) * q /\ a * p \in Int
      BY <2>7
    <2> QED BY <2>6, <2>8
  <1>8. ASSUME NEW c \in from .. to - 1 PROVE f[c] = 0
    <2>1. c \in 0 .. MAX_BITS /\ c \in max_length + 1 .. MAX_BITS
      BY <1>1, <1>2, Numbers
    <2>2. bl_count[c] = 0 /\ MAX_BITS - c \in 0 .. MAX_BITS
      BY <2>1, Numbers DEF InLimits
    <2>3. Weight(c) \in Nat
      BY <2>2, Powers DEF Weight
    <2> QED BY <2>1, <2>2, <2>3
  <1> HIDE DEF f, s, more
  <1>9. Summable(s, from)
    BY <1>7 DEF Summable
  <1>10. Total(f, from) = Total(s, from) * more /\ Summable(f, from)
    BY <1>5, <1>7, <1>9, TotalTimes
  <1>11. Total(f, to) = Total(f, from)
    BY <1>1, <1>2, <1>8, <1>10, TotalMore, Numbers
  <1> QED BY <1>3, <1>5, <1>10, <1>11

\* What gen_bitlen leaves to gen_codes and to flush_block.
LEMMA LengthsAreMade ==
    ASSUME TypeOK, ForcedInv, Placed, TreeInv, Measuring, InLimits, Space(bl_count) = Power2[max_length],
           \A i \in Leaf : dl[i] \in 1 .. max_length,
           \A b \in 1 .. MAX_BITS : bl_count[b] = Count({i \in Leaf : dl[i] = b}),
           opt_len = Total(OptCost(Symbols), elems), stat_len = Total(StatCost(Symbols), elems),
           Joins = 1 => \A i \in Leaf : dl[i] = 1
    PROVE  LengthsMade
  <1>1. \A i \in Symbols : i \in Nodes /\ dl[i] \in Nat /\ fc[i] \in Nat /\ freq[i] \in Nat
    BY Sizes DEF TypeOK
  <1>2. \A i \in Symbols : i \in Leaf <=> dl[i] # 0
    <2>1. \A i \in Symbols : i \notin Leaf => dl[i] = 0
      BY DEF Placed
    <2>2. \A i \in Leaf : dl[i] # 0
      BY Numbers
    <2> QED BY <2>1, <2>2
  <1>3. \A i \in Symbols : dl[i] <= max_length
    <2>1. ASSUME NEW i \in Symbols PROVE dl[i] <= max_length
      <3>1. CASE i \in Leaf
        BY <3>1, Numbers
      <3>2. CASE i \notin Leaf
        BY <1>1, <1>2, <3>2, Numbers
      <3> QED BY <3>1, <3>2
    <2> QED BY <2>1
  <1>4. \A i \in Symbols : i \in Leaf <=> fc[i] # 0
    BY DEF Leaf
  <1>5. \A i \in Symbols : i \in Forced <=> fc[i] # freq[i]
    BY DEF Forced
  <1>6. \A i \in Forced : i \in Symbols /\ freq[i] = 0 /\ fc[i] = 1 /\ i <= 2
    BY DEF ForcedInv, Forced
  <1>7. \A i \in Symbols : freq[i] # 0 => dl[i] # 0
    BY <1>2, <1>4, <1>5, <1>6
  <1>8. \A i \in Symbols : dl[i] # 0 => i <= max_code
    BY <1>2 DEF Placed
  <1>9. Coded = Leaf
    BY <1>2, <1>8 DEF Coded, Leaf
  <1>10. Forced # {} => Count(Leaf) = 2
    BY DEF ForcedInv
  <1>11. (\E i \in Coded : freq[i] = 0) => Cardinality(Coded) = 2
    <2>1. ASSUME NEW i \in Coded, freq[i] = 0 PROVE Cardinality(Coded) = 2
      <3>1. i \in Forced
        BY <1>4, <1>5, <1>9, <2>1 DEF Leaf
      <3>2. Cardinality(Leaf) = Count(Leaf)
        BY CountCardinality DEF Leaf
      <3> QED BY <1>9, <1>10, <3>1, <3>2
    <2> QED BY <2>1
  <1>12. \A i \in Forced : dl[i] = 1
    <2>1. ASSUME NEW i \in Forced PROVE dl[i] = 1
      <3>1. Count(Leaf) = 2
        BY <1>10, <2>1
      <3>2. Joins = 1
        BY <3>1, Numbers DEF TreeInv, Joins, TypeOK
      <3>3. i \in Leaf
        BY <1>4, <1>6, <2>1
      <3> QED BY <3>2, <3>3
    <2> QED BY <2>1
  <1>13. \A i \in Symbols : xbits(i) \in Nat /\ (i <= 2 => xbits(i) = 0)
    BY BitsAssumption
  <1>14. opt_len = Cost(dl)
    <2> DEFINE g == OptCost(Symbols)
               e == [i \in Symbols |-> freq[i] * (dl[i] + xbits(i))]
    <2>1. ASSUME NEW i \in Symbols PROVE g[i] \in Int /\ e[i] = g[i]
      <3>1. /\ g[i] \in Int
            /\ g[i] = (IF i \in Leaf THEN fc[i] * (dl[i] + xbits(i)) ELSE 0) - (IF i \in Forced THEN 1 ELSE 0)
            /\ fc[i] * (dl[i] + xbits(i)) \in Int
        BY CostTypes
      <3>2. e[i] = freq[i] * (dl[i] + xbits(i))
        OBVIOUS
      <3> DEFINE x == dl[i] + xbits(i)
      <3>3. x \in Nat /\ fc[i] \in Nat /\ freq[i] \in Nat
        BY <1>1, <1>13
      <3>4. CASE i \in Forced
        <4>1. i \in Leaf /\ fc[i] = 1 /\ freq[i] = 0 /\ x = 1
          BY <1>4, <1>6, <1>12, <1>13, <3>4
        <4> HIDE DEF g, e
        <4>2. g[i] = fc[i] * x - 1 /\ e[i] = freq[i] * x
          BY <3>1, <3>2, <3>4, <4>1
        <4> HIDE DEF x
        <4>3. g[i] = 0 /\ e[i] = 0
          BY <4>1, <4>2
        <4> QED BY <4>3
      <3>5. CASE i \notin Forced
        <4>1. fc[i] = freq[i]
          BY <1>5, <3>5
        <4> HIDE DEF g, e
        <4>2. g[i] = (IF i \in Leaf THEN fc[i] * x ELSE 0) - 0 /\ e[i] = freq[i] * x
          BY <3>1, <3>2, <3>5
        <4>3. i \notin Leaf => fc[i] = 0
          BY <1>4
        <4> HIDE DEF x
        <4>4. fc[i] * x \in Int /\ 0 * x = 0
          BY <3>3
        <4> QED BY <3>1, <4>1, <4>2, <4>3, <4>4
      <3> QED BY <3>4, <3>5
    <2>2. Cost(dl) = Total(e, elems)
      BY DEF Cost
    <2> HIDE DEF g, e
    <2>3. Summable(g, elems) /\ elems \in Nat /\ \A i \in 0 .. elems - 1 : e[i] = g[i]
      BY <2>1, SymbolsSummable, Sizes
    <2>4. Total(e, elems) = Total(g, elems)
      BY <2>3, TotalSame
    <2> QED BY <2>2, <2>4 DEF g
  <1>15. stat_len = IF HasStatic THEN Cost(static_len) ELSE 0
    <2> DEFINE g == StatCost(Symbols)
               e == [i \in Symbols |-> freq[i] * (static_len[i] + xbits(i))]
    <2>1. \A i \in Symbols :
            /\ g[i] \in Int
            /\ g[i] = (IF HasStatic /\ i \in Leaf THEN fc[i] * (static_len[i] + xbits(i)) ELSE 0)
                        - (IF HasStatic /\ i \in Forced THEN static_len[i] ELSE 0)
      BY CostTypes
    <2>2. CASE ~HasStatic
      <3>1. \A i \in Symbols : g[i] = 0
        BY <2>1, <2>2
      <3> HIDE DEF g
      <3>2. Total(g, elems) = 0
        BY <3>1, TotalZero, Sizes
      <3> QED BY <2>2, <3>2 DEF g
    <2>3. CASE HasStatic
      <3>1. ASSUME NEW i \in Symbols PROVE e[i] = g[i]
        <4> DEFINE x == static_len[i] + xbits(i)
        <4>1. x \in Nat /\ fc[i] \in Nat /\ freq[i] \in Nat /\ static_len[i] \in Nat
          BY <1>1, <1>13, <2>3, BitsAssumption
        <4>2. e[i] = freq[i] * x
          OBVIOUS
        <4>3. g[i] = (IF i \in Leaf THEN fc[i] * x ELSE 0) - (IF i \in Forced THEN static_len[i] ELSE 0)
          BY <2>1, <2>3
        <4> HIDE DEF g, e
        <4>4. CASE i \in Forced
          <5>1. i \in Leaf /\ fc[i] = 1 /\ freq[i] = 0 /\ x = static_len[i]
            BY <1>4, <1>6, <1>13, <4>1, <4>4
          <5> HIDE DEF x
          <5> QED BY <4>1, <4>2, <4>3, <4>4, <5>1
        <4>5. CASE i \notin Forced
          <5>1. fc[i] = freq[i] /\ (i \notin Leaf => fc[i] = 0)
            BY <1>4, <1>5, <4>5
          <5> HIDE DEF x
          <5>2. fc[i] * x \in Int /\ 0 * x = 0
            BY <4>1
          <5> QED BY <4>2, <4>3, <4>5, <5>1, <5>2
        <4> QED BY <4>4, <4>5
      <3>2. Cost(static_len) = Total(e, elems)
        BY DEF Cost
      <3> HIDE DEF g, e
      <3>3. Summable(g, elems) /\ elems \in Nat /\ \A i \in 0 .. elems - 1 : e[i] = g[i]
        BY <2>1, <3>1, SymbolsSummable, Sizes
      <3>4. Total(e, elems) = Total(g, elems)
        BY <3>3, TotalSame
      <3> QED BY <2>3, <3>2, <3>4 DEF g
    <2> QED BY <2>2, <2>3
  <1>16. \A b \in 1 .. MAX_BITS : bl_count[b] = Count({i \in Symbols : dl[i] = b})
    <2>1. ASSUME NEW b \in 1 .. MAX_BITS PROVE {i \in Symbols : dl[i] = b} = {i \in Leaf : dl[i] = b}
      <3>1. b # 0
        BY Numbers
      <3> QED BY <1>2, <3>1 DEF Leaf
    <2> QED BY <2>1
  <1>17. Taken(MAX_BITS + 1) = Power2[MAX_BITS] /\ bl_count[0] = 0
    BY SpaceTaken DEF InLimits
  <1> QED BY <1>3, <1>7, <1>8, <1>11, <1>14, <1>15, <1>16, <1>17 DEF LengthsMade

-----------------------------------------------------------------------------
(* gen_bitlen: overflow                                                     *)

\* With the lengths made gen_codes can begin.
LEMMA FirstStart ==
    ASSUME TypeOK, TypeOK', ForcedInv, LengthsMade, ToCodes,
           UNCHANGED <<freq, fc, dl, depth, max_code, opt_len, stat_len, bl_count>>
    PROVE  IInv'
  <1>1. pc' = "first" /\ bits' = 1 /\ code' = 0
    BY DEF ToCodes
  <1>2. ForcedInv'
    BY <1>1 DEF ForcedInv, Forced, Building, Measuring
  <1>3. LengthsMade'
    BY DEF LengthsMade, Coded, Cost, Count, Taken
  <1>4. FirstInv'
    <2>1. Taken(0)' = 0
      <3> DEFINE g == [c \in 0 .. MAX_BITS |-> bl_count'[c] * Weight(c)]
      <3>1. Taken(0)' = Total(g, 0)
        BY DEF Taken, Weight
      <3> HIDE DEF g
      <3> QED BY <3>1, TotalNone
    <2>2. Weight(0) \in Nat
      <3>1. MAX_BITS - 0 \in 0 .. MAX_BITS
        BY Numbers
      <3> QED BY <3>1, Powers DEF Weight
    <2>3. 1 \in 1 .. MAX_BITS + 1 /\ 1 - 1 = 0
      BY Numbers
    <2>4. code' * Weight(bits' - 1) = 0
      BY <1>1, <2>2, <2>3
    <2>5. (code * Weight(bits - 1) = Taken(bits - 1))'
      <3>1. Taken(bits - 1)' = Taken(0)'
        BY <1>1, <2>3 DEF Taken
      <3> QED BY <2>1, <2>4, <3>1 DEF Weight
    <2>6. (\A b \in 1 .. bits - 1 : next_code[b] * Weight(b) = Taken(b))'
      BY <1>1
    <2> QED BY <1>1, <2>3, <2>5, <2>6 DEF FirstInv
  <1> QED BY <1>1, <1>2, <1>3, <1>4 DEF IInv, CostInv, Building, Measuring

\* All nodes have lengths: they are the code, or some overflowed.
LEMMA LengthsAssignedInv == IInv /\ LengthsAssigned => IInv'
  <1> SUFFICES ASSUME IInv, LengthsAssigned PROVE IInv'
    OBVIOUS
  <1>1. TypeOK /\ ForcedInv /\ Placed /\ TreeInv /\ LengthsInv /\ CostInv /\ pc = "lengths" /\ h = HEAP_SIZE
        /\ Measuring
    BY DEF IInv, LengthsAssigned, Measuring
  <1>2. /\ \A i \in Leaf : i \in Seen /\ dl[i] \in 1 .. max_length
        /\ Total(Open, HEAP_SIZE) = 0 /\ Total(OpenLong, HEAP_SIZE) = 0
    BY <1>1, AllSeen
  <1>3. /\ cut' = (overflow # 0)
        /\ UNCHANGED <<freq, fc, dl, depth, heap, heap_len, heap_max, node, max_code, opt_len, stat_len,
                       bl_count, overflow, next_code, n, h, k, after>>
    BY DEF LengthsAssigned, tree, queue, costs
  <1>4. OptCost(Seen) = OptCost(Symbols) /\ StatCost(Seen) = StatCost(Symbols)
    BY <1>2 DEF OptCost, StatCost
  <1>5. opt_len = Total(OptCost(Symbols), elems) /\ stat_len = Total(StatCost(Symbols), elems)
    BY <1>1, <1>4 DEF CostInv, Measured, Building
  <1>6. /\ 2 * Space(bl_count) = 2 * Power2[max_length] + overflow
        /\ 2 * bl_count[max_length] >= overflow /\ overflow >= 0 /\ overflow \in Int
        /\ Space(bl_count) \in Int /\ Power2[max_length] \in Nat
    <2>1. 2 * Space(bl_count) + 0 = 2 * Power2[max_length] + overflow
          /\ 2 * bl_count[max_length] + 0 >= overflow /\ overflow >= 0 /\ overflow \in Int
      BY <1>1, <1>2 DEF LengthsInv, TypeOK
    <2>2. bl_count \in [0 .. MAX_BITS -> Int] /\ bl_count[max_length] \in Int
      BY <1>1, Numbers DEF TypeOK
    <2>3. Space(bl_count) \in Int
      <3>1. 0 \in 0 .. max_length
        BY Numbers
      <3> QED BY <2>2, <3>1, SpaceChange
    <2>4. Power2[max_length] \in Nat
      BY Powers, Numbers
    <2> QED BY <2>1, <2>2, <2>3, <2>4
  <1>7. CASE overflow = 0
    <2>1. ToCodes
      BY <1>7 DEF LengthsAssigned
    <2>2. TypeOK'
      <3>1. bits' \in Nat /\ code' \in Nat /\ pc' = "first" /\ cut' \in BOOLEAN
        BY <1>3, <2>1 DEF ToCodes
      <3> QED BY <1>1, <1>3, <3>1 DEF TypeOK
    <2>3. Space(bl_count) = Power2[max_length]
      BY <1>6, <1>7
    <2>4. \A b \in 1 .. MAX_BITS : bl_count[b] = Count({i \in Leaf : dl[i] = b})
      <3>1. ASSUME NEW b \in 1 .. MAX_BITS PROVE bl_count[b] = Count({i \in Leaf : dl[i] = b})
        <4>1. b \in 0 .. MAX_BITS
          BY Numbers
        <4>2. bl_count[b] = Count({i \in Leaf : i \in Seen /\ dl[i] = b})
          BY <1>1, <4>1 DEF LengthsInv
        <4>3. {i \in Leaf : i \in Seen /\ dl[i] = b} = {i \in Leaf : dl[i] = b}
          BY <1>2
        <4> QED BY <4>2, <4>3
      <3> QED BY <3>1
    <2>5. InLimits /\ (Joins = 1 => \A i \in Leaf : dl[i] = 1)
      BY <1>1, <1>2 DEF LengthsInv
    <2>6. LengthsMade
      BY <1>1, <1>2, <1>5, <2>3, <2>4, <2>5, LengthsAreMade
    <2> QED BY <1>1, <1>3, <2>1, <2>2, <2>6, FirstStart
  <1>8. CASE overflow # 0
    <2>1. pc' = "overflow" /\ UNCHANGED <<bits, code>>
      BY <1>8 DEF LengthsAssigned
    <2>2. TypeOK'
      <3>1. cut' \in BOOLEAN
        BY <1>3
      <3> QED BY <1>1, <1>3, <2>1, <3>1 DEF TypeOK
    <2>3. Measuring' /\ ~Building' /\ ~Held /\ ~Held' /\ ~Building
      BY <1>1, <2>1 DEF Measuring, Building, Held
    <2>4. /\ Leaf' = Leaf /\ Forced' = Forced /\ Made' = Made /\ Joins' = Joins /\ Sorted' = Sorted
          /\ Count(Leaf)' = Count(Leaf)
      BY <1>3, TreeFrame
    <2>5. Placed'
      BY <1>1, <1>3, <2>3, <2>4 DEF Placed, Places, Father
    <2>6. TreeInv'
      BY <1>1, <1>3, <2>4 DEF TreeInv
    <2>7. ForcedInv'
      BY <1>1, <1>3, <2>4, ForcedFrame
    <2>8. CostInv'
      <3>1. Measured' = Symbols
        BY <2>1 DEF Measured, Building
      <3>2. OptCost(Measured)' = OptCost(Symbols) /\ StatCost(Measured)' = StatCost(Symbols)
        BY <1>3, <2>4, <3>1 DEF OptCost, StatCost, xbits
      <3> QED BY <1>3, <1>5, <3>2 DEF CostInv
    <2>9. OverflowInv
      <3>1. Joins >= 2
        <4>1. Joins # 1 /\ Joins >= 1 /\ Joins \in Int
          BY <1>1, <1>8, Numbers DEF LengthsInv, TreeInv, Joins, TypeOK
        <4> QED BY <4>1
      <3>2. overflow > 0
        BY <1>6, <1>8
      <3> QED BY <1>1, <1>2, <1>6, <3>1, <3>2 DEF OverflowInv, LengthsInv
    <2>10. OverflowInv'
      <3>1. LeafAt' = LeafAt
        BY <1>3, <2>4 DEF LeafAt
      <3> QED BY <1>3, <2>4, <2>9, <3>1 DEF OverflowInv, InLimits, Space
    <2> QED BY <2>1, <2>2, <2>3, <2>5, <2>6, <2>7, <2>8, <2>10 DEF IInv
  <1> QED BY <1>7, <1>8

\* What MoveDown does to the counts.
LEMMA MovedDown ==
    ASSUME NEW c \in [0 .. MAX_BITS -> Nat], NEW b \in 0 .. max_length - 1, c[b] # 0, c[max_length] # 0
    PROVE  /\ MoveDown(c, b) \in [0 .. MAX_BITS -> Nat]
           /\ Space(c) \in Int /\ Space(MoveDown(c, b)) = Space(c) - 1
           /\ Total(MoveDown(c, b), MAX_BITS + 1) = Total(c, MAX_BITS + 1)
           /\ MoveDown(c, b)[max_length] >= c[max_length] - 1
           /\ MoveDown(c, b)[b] = c[b] - 1
           /\ \A l \in 0 .. MAX_BITS : l # b /\ l # b + 1 /\ l # max_length => MoveDown(c, b)[l] = c[l]
  <1> DEFINE c1 == [c EXCEPT ![b] = @ - 1]
             c2 == [c1 EXCEPT ![b + 1] = @ + 2]
             c3 == [c2 EXCEPT ![max_length] = @ - 1]
  <1>1. /\ b \in 0 .. MAX_BITS /\ b + 1 \in 0 .. MAX_BITS /\ max_length \in 0 .. MAX_BITS /\ b # max_length
        /\ b \in 0 .. max_length /\ b + 1 \in 0 .. max_length /\ max_length \in 0 .. max_length
        /\ b + 1 # b /\ MAX_BITS \in Nat
    BY Numbers
  <1>2. MoveDown(c, b) = c3
    BY DEF MoveDown
  <1>3. /\ c1 \in [0 .. MAX_BITS -> Nat] /\ c1[b] = c[b] - 1
        /\ \A l \in 0 .. MAX_BITS : l # b => c1[l] = c[l]
    BY <1>1
  <1> HIDE DEF c1
  <1>4. /\ c2 \in [0 .. MAX_BITS -> Nat] /\ c2[b + 1] = c1[b + 1] + 2
        /\ \A l \in 0 .. MAX_BITS : l # b + 1 => c2[l] = c1[l]
    BY <1>1, <1>3, SMTT(30)
  <1> HIDE DEF c2
  <1>5. c2[max_length] >= c[max_length] /\ c2[max_length] \in Nat /\ c2[max_length] # 0
    <2>1. CASE max_length = b + 1
      BY <1>1, <1>3, <1>4, <2>1
    <2>2. CASE max_length # b + 1
      BY <1>1, <1>3, <1>4, <2>2
    <2> QED BY <2>1, <2>2
  <1>6. /\ c3 \in [0 .. MAX_BITS -> Nat] /\ c3[max_length] = c2[max_length] - 1
        /\ \A l \in 0 .. MAX_BITS : l # max_length => c3[l] = c2[l]
    <2>0. c2[max_length] - 1 \in Nat
      BY <1>5
    <2>1. c2[max_length] - 1 \in Nat /\ c2 \in [0 .. MAX_BITS -> Nat] /\ max_length \in 0 .. MAX_BITS
      BY <1>1, <1>4, <2>0
    <2> QED BY <2>1
  <1> HIDE DEF c3
  <1>7. \A l \in 0 .. max_length : l \in 0 .. MAX_BITS
    BY Numbers
  <1>8. Space(c) \in Int /\ Space(c3) = Space(c) - 1
    <2>0. c \in [0 .. MAX_BITS -> Int] /\ c1 \in [0 .. MAX_BITS -> Int] /\ c2 \in [0 .. MAX_BITS -> Int]
          /\ c3 \in [0 .. MAX_BITS -> Int]
      BY <1>3, <1>4, <1>6
    <2>1. Space(c) \in Int /\ Space(c1) = Space(c) + (c1[b] - c[b]) * Power2[max_length - b]
      BY <1>1, <1>3, <1>7, <2>0, SpaceChange
    <2>2. Space(c1) \in Int /\ Space(c2) = Space(c1) + (c2[b + 1] - c1[b + 1]) * Power2[max_length - (b + 1)]
      BY <1>1, <1>4, <1>7, <2>0, SpaceChange
    <2>3. Space(c2) \in Int /\ Space(c3) = Space(c2) + (c3[max_length] - c2[max_length]) * Power2[max_length - max_length]
      BY <1>1, <1>6, <1>7, <2>0, SpaceChange
    <2>4. PICK i \in 0 .. MAX_BITS - 1 : i = max_length - (b + 1)
      BY Numbers
    <2>5. max_length - b = i + 1 /\ max_length - max_length = 0
      BY <1>1, <2>4, Numbers
    <2>6. Power2[i + 1] = 2 * Power2[i] /\ Power2[i] \in Nat /\ Power2[0] = 1
      <3>1. i \in 0 .. MAX_BITS
        BY <2>4, Numbers
      <3> QED BY <3>1, Powers
    <2> DEFINE p == Power2[i]
    <2>7. c1[b] - c[b] = -1 /\ c2[b + 1] - c1[b + 1] = 2 /\ c3[max_length] - c2[max_length] = -1
      <3>1. c[b] \in Int /\ c1[b + 1] \in Int /\ c2[max_length] \in Int
        BY <1>1, <1>3, <1>4
      <3> QED BY <1>3, <1>4, <1>6, <3>1, SMTT(30)
    <2>8. Space(c1) = Space(c) + (-1) * (2 * p) /\ Space(c2) = Space(c1) + 2 * p /\ Space(c3) = Space(c2) + (-1) * 1
      BY <2>1, <2>2, <2>3, <2>4, <2>5, <2>6, <2>7
    <2>9. p \in Nat
      BY <2>6
    <2> HIDE DEF p
    <2> QED BY <2>1, <2>2, <2>3, <2>8, <2>9
  <1>9. Total(c3, MAX_BITS + 1) = Total(c, MAX_BITS + 1)
    <2>1. PICK to \in Nat : to = MAX_BITS + 1
      BY <1>1
    <2>2. \A l \in 0 .. to - 1 : l \in 0 .. MAX_BITS
      BY <1>1, <2>1
    <2>3. Summable(c, to) /\ Summable(c1, to) /\ Summable(c2, to) /\ Summable(c3, to)
      BY <1>3, <1>4, <1>6, <2>2, SMTT(30) DEF Summable
    <2>4. b \in 0 .. to - 1 /\ b + 1 \in 0 .. to - 1 /\ max_length \in 0 .. to - 1
      BY <1>1, <2>1
    <2>5. Total(c1, to) = Total(c, to) + (c1[b] - c[b])
      BY <1>3, <2>2, <2>3, <2>4, TotalChange
    <2>6. Total(c2, to) = Total(c1, to) + (c2[b + 1] - c1[b + 1])
      BY <1>4, <2>2, <2>3, <2>4, TotalChange, ZenonT(60)
    <2>7. Total(c3, to) = Total(c2, to) + (c3[max_length] - c2[max_length])
      BY <1>6, <2>2, <2>3, <2>4, TotalChange
    <2>8. c1[b] - c[b] = -1 /\ c2[b + 1] - c1[b + 1] = 2 /\ c3[max_length] - c2[max_length] = -1
      <3>1. c[b] \in Int /\ c1[b + 1] \in Int /\ c2[max_length] \in Int
        BY <1>1, <1>3, <1>4
      <3> QED BY <1>3, <1>4, <1>6, <3>1, SMTT(30)
    <2>9. Total(c, to) \in Int /\ Total(c1, to) \in Int /\ Total(c2, to) \in Int /\ Total(c3, to) \in Int
      BY <2>3, TotalType
    <2> QED BY <2>1, <2>5, <2>6, <2>7, <2>8, <2>9
  <1>10. c3[max_length] >= c[max_length] - 1
    BY <1>1, <1>5, <1>6, SMTT(30)
  <1>11. c3[b] = c[b] - 1
    BY <1>1, <1>3, <1>4, <1>6
  <1>12. \A l \in 0 .. MAX_BITS : l # b /\ l # b + 1 /\ l # max_length => c3[l] = c[l]
    BY <1>3, <1>4, <1>6
  <1> QED BY <1>2, <1>6, <1>8, <1>9, <1>10, <1>11, <1>12

-----------------------------------------------------------------------------
(* gen_bitlen: handing out lengths again                                    *)

\* A sum of natural numbers is at least each of them.
LEMMA TotalSome ==
    ASSUME NEW to \in Nat, NEW g, \A i \in 0 .. to - 1 : g[i] \in Nat, NEW j \in 0 .. to - 1
    PROVE  Total(g, to) \in Nat /\ Total(g, to) >= g[j]
  <1> DEFINE e == [i \in 0 .. to - 1 |-> IF i = j THEN 0 ELSE g[i]]
  <1>1. e[j] = 0 /\ \A i \in 0 .. to - 1 : e[i] \in Nat /\ (i # j => e[i] = g[i])
    OBVIOUS
  <1> HIDE DEF e
  <1>2. Total(g, to) \in Nat /\ Summable(g, to) /\ Total(e, to) \in Nat /\ Summable(e, to)
    BY <1>1, TotalNat
  <1>3. Total(e, to) = Total(g, to) + (e[j] - g[j])
    BY <1>1, <1>2, TotalChange
  <1> QED BY <1>1, <1>2, <1>3

\* The frame of the steps between the lengths and their overflow's end.
LEMMA MeasuringFrame ==
    ASSUME TypeOK, Placed, TreeInv, ForcedInv, Measuring, Measuring',
           UNCHANGED <<freq, fc, heap, heap_len, heap_max, node, max_code, n>> \/
           UNCHANGED <<freq, fc, heap, heap_len, heap_max, node, max_code>>,
           \A i \in Symbols : i \notin Leaf => dl'[i] = 0
    PROVE  /\ Placed' /\ TreeInv' /\ ForcedInv' /\ ~Building'
           /\ Leaf' = Leaf /\ Forced' = Forced /\ Made' = Made /\ Joins' = Joins /\ Sorted' = Sorted
           /\ LeafAt' = LeafAt
  <1>1. UNCHANGED <<freq, fc, heap, heap_len, heap_max, node, max_code>>
    OBVIOUS
  <1>2. ~Building /\ ~Building' /\ ~Held /\ ~Held'
    BY DEF Building, Measuring, Held
  <1>3. /\ Leaf' = Leaf /\ Forced' = Forced /\ Made' = Made /\ Joins' = Joins /\ Sorted' = Sorted
        /\ Count(Leaf)' = Count(Leaf)
    BY <1>1 DEF Leaf, Forced, Made, Joins, Sorted, Count
  <1>4. Placed'
    BY <1>1, <1>2, <1>3 DEF Placed, Places, Father
  <1>5. TreeInv'
    BY <1>1, <1>3 DEF TreeInv
  <1>6. ForcedInv'
    <2>1. \A i \in Symbols : fc'[i] = fc[i]
      BY <1>1
    <2> QED BY <1>1, <1>3, <2>1, ForcedFrame
  <1>7. LeafAt' = LeafAt
    BY <1>1, <1>3 DEF LeafAt
  <1> QED BY <1>2, <1>3, <1>4, <1>5, <1>6, <1>7

\* Moving a leaf down for two overflows.
LEMMA FixOverflowInv == IInv /\ FixOverflow => IInv'
  <1> SUFFICES ASSUME IInv, FixOverflow PROVE IInv'
    OBVIOUS
  <1>1. TypeOK /\ ForcedInv /\ Placed /\ TreeInv /\ OverflowInv /\ CostInv /\ pc = "overflow" /\ Measuring
    BY DEF IInv, FixOverflow, Measuring
  <1>2. PICK b \in 0 .. max_length - 1 : /\ bl_count[b] # 0 /\ bl_count' = MoveDown(bl_count, b)
    BY DEF FixOverflow
  <1>3. /\ overflow' = overflow - 2
        /\ \/ overflow' > 0 /\ UNCHANGED <<bits, n, pc>>
           \/ overflow' <= 0 /\ bits' = max_length /\ n' = bl_count'[max_length] /\ pc' = "reassign"
        /\ UNCHANGED <<freq, fc, dl, depth, heap, heap_len, heap_max, node, max_code, opt_len, stat_len,
                       cut, next_code, code, h, k, after>>
    BY DEF FixOverflow, tree, queue, costs, codes
  <1>4. /\ h = HEAP_SIZE /\ Joins >= 2 /\ InLimits /\ overflow > 0 /\ overflow \in Int
        /\ 2 * Space(bl_count) = 2 * Power2[max_length] + overflow
        /\ 2 * bl_count[max_length] >= overflow
        /\ Total(bl_count, MAX_BITS + 1) = Total(LeafAt, HEAP_SIZE)
        /\ (\A i \in Leaf : dl[i] \in 1 .. max_length)
        /\ Power2[max_length] \in Nat /\ bl_count \in [0 .. MAX_BITS -> Nat]
    <2>1. max_length \in 0 .. MAX_BITS
      BY Numbers
    <2>2. Power2[max_length] \in Nat
      BY <2>1, Powers
    <2> QED BY <1>1, <2>2 DEF OverflowInv, TypeOK
  <1>5. /\ bl_count[max_length] # 0 /\ bl_count[max_length] \in Nat
        /\ b # 0 /\ b \in 0 .. MAX_BITS /\ b + 1 \in 0 .. MAX_BITS /\ max_length \in 0 .. MAX_BITS
    <2>1. max_length \in 0 .. MAX_BITS
      BY Numbers
    <2>2. bl_count[max_length] \in Nat
      BY <1>4, <2>1
    <2>3. bl_count[0] = 0
      BY <1>4 DEF InLimits
    <2>4. b # 0
      BY <1>2, <2>3
    <2> QED BY <1>4, <2>1, <2>2, <2>4, Numbers
  <1>6. /\ bl_count' \in [0 .. MAX_BITS -> Nat]
        /\ Space(bl_count) \in Int /\ Space(bl_count') = Space(bl_count) - 1
        /\ Total(bl_count', MAX_BITS + 1) = Total(bl_count, MAX_BITS + 1)
        /\ bl_count'[max_length] >= bl_count[max_length] - 1
        /\ \A l \in 0 .. MAX_BITS : l # b /\ l # b + 1 /\ l # max_length => bl_count'[l] = bl_count[l]
    BY <1>2, <1>4, <1>5, MovedDown
  <1>7. bl_count'[max_length] \in Nat
    BY <1>5, <1>6
  <1>8. InLimits'
    <2>1. bl_count'[0] = 0
      <3>1. 0 # b /\ 0 # b + 1 /\ 0 # max_length /\ 0 \in 0 .. MAX_BITS
        BY <1>5, Numbers
      <3>2. bl_count'[0] = bl_count[0]
        BY <1>6, <3>1
      <3> QED BY <1>4, <3>2 DEF InLimits
    <2>2. ASSUME NEW l \in max_length + 1 .. MAX_BITS PROVE bl_count'[l] = 0
      <3>1. l # b /\ l # b + 1 /\ l # max_length /\ l \in 0 .. MAX_BITS
        BY Numbers
      <3>2. bl_count'[l] = bl_count[l]
        BY <1>6, <3>1
      <3> QED BY <1>4, <3>2 DEF InLimits
    <2> QED BY <2>1, <2>2 DEF InLimits
  <1>9. TypeOK'
    <2>1. overflow' \in Int /\ pc' \in {"overflow", "reassign"} /\ bits' \in Nat /\ n' \in Nat
      <3>1. bits \in Nat /\ n \in Nat /\ max_length \in Nat
        BY <1>1, Numbers DEF TypeOK
      <3>2. overflow' \in Int
        BY <1>3, <1>4
      <3> QED BY <1>1, <1>3, <1>7, <3>1, <3>2
    <2>2. TypeOK /\ bl_count' \in [0 .. MAX_BITS -> Nat]
          /\ UNCHANGED <<freq, fc, dl, depth, heap, heap_len, heap_max, node, max_code, opt_len, stat_len,
                         cut, next_code, code, h, k, after>>
      BY <1>1, <1>3, <1>6
    <2> QED BY <2>1, <2>2 DEF TypeOK
  <1>10. Measuring' /\ pc' \in {"overflow", "reassign"}
    BY <1>1, <1>3 DEF Measuring
  <1>11. /\ Placed' /\ TreeInv' /\ ForcedInv' /\ ~Building'
         /\ Leaf' = Leaf /\ Forced' = Forced /\ Joins' = Joins /\ LeafAt' = LeafAt
    <2>1. \A i \in Symbols : i \notin Leaf => dl'[i] = 0
      BY <1>1, <1>3 DEF Placed
    <2> QED BY <1>1, <1>3, <1>10, <2>1, MeasuringFrame
  <1>12. CostInv'
    <2>1. Measured = Symbols /\ Measured' = Symbols
      BY <1>1, <1>10, <1>11 DEF Measured, Building
    <2>2. OptCost(Measured)' = OptCost(Measured) /\ StatCost(Measured)' = StatCost(Measured)
      BY <1>3, <1>11, <2>1 DEF OptCost, StatCost, xbits
    <2> QED BY <1>1, <1>3, <2>2 DEF CostInv
  <1>13. CASE overflow' > 0
    <2>1. pc' = "overflow"
      BY <1>1, <1>3, <1>4, <1>13
    <2>2. 2 * Space(bl_count') = 2 * Power2[max_length] + overflow'
          /\ 2 * bl_count'[max_length] >= overflow'
      <3>1. overflow' = overflow - 2 /\ overflow \in Int
        BY <1>3, <1>4
      <3>2. 2 * bl_count'[max_length] >= overflow'
        BY <1>4, <1>5, <1>6, <1>7, <3>1
      <3> DEFINE s == Space(bl_count)
                 t == Space(bl_count')
                 p == Power2[max_length]
      <3>3. s \in Int /\ t = s - 1 /\ p \in Nat /\ 2 * s = 2 * p + overflow
        BY <1>4, <1>6
      <3> HIDE DEF s, t, p
      <3>4. 2 * t = 2 * p + overflow'
        BY <3>1, <3>3
      <3> QED BY <3>2, <3>4 DEF t, p
    <2>3. Total(bl_count', MAX_BITS + 1) = Total(LeafAt', HEAP_SIZE)
      BY <1>4, <1>6, <1>11
    <2>4. \A i \in Leaf' : dl'[i] \in 1 .. max_length
      BY <1>3, <1>4, <1>11
    <2>5. (2 * Space(bl_count) = 2 * Power2[max_length] + overflow)'
      BY <2>2 DEF Space
    <2>6. h' = HEAP_SIZE /\ Joins' >= 2
      BY <1>3, <1>4, <1>11
    <2>7. OverflowInv'
      BY <1>8, <1>13, <2>2, <2>3, <2>4, <2>5, <2>6 DEF OverflowInv
    <2> QED BY <1>9, <1>10, <1>11, <1>12, <2>1, <2>7 DEF IInv
  <1>14. CASE ~(overflow' > 0)
    <2>1. pc' = "reassign" /\ bits' = max_length /\ n' = bl_count'[max_length] /\ overflow' <= 0
      BY <1>3, <1>4, <1>14
    <2>2. Space(bl_count') = Power2[max_length]
      BY <1>3, <1>4, <1>6, <2>1
    <2>3. (Space(bl_count) = Power2[max_length])'
      BY <2>2 DEF Space
    <2>4. Total(LeafAt', h') = Total(bl_count', bits') + n'
      <3> DEFINE c == bl_count'
      <3>1. PICK to \in Nat : to = MAX_BITS + 1
        BY Numbers
      <3>2. PICK from \in Nat : from = max_length + 1
        BY Numbers
      <3>3. \A l \in 0 .. to - 1 : l \in 0 .. MAX_BITS
        BY <3>1, Numbers
      <3>4. Summable(c, to) /\ (\A l \in from .. to - 1 : c[l] = 0)
        <4>1. \A l \in from .. to - 1 : l \in max_length + 1 .. MAX_BITS
          BY <3>1, <3>2, Numbers
        <4> QED BY <1>6, <1>8, <3>3, <4>1 DEF Summable, InLimits
      <3>5. from <= to /\ max_length \in 0 .. to - 1 /\ \A l \in 0 .. from - 1 : l \in 0 .. to - 1
        BY <3>1, <3>2, Numbers
      <3> HIDE DEF c
      <3>6. Summable(c, from)
        BY <3>4, <3>5 DEF Summable
      <3>7. Total(c, to) = Total(c, from)
        BY <3>4, <3>5, <3>6, TotalMore
      <3>8. Total(c, max_length + 1) = Total(c, max_length) + c[max_length]
        BY <3>4, <3>5, SummableLess
      <3>9. Total(c, to) = Total(LeafAt, HEAP_SIZE)
        BY <1>4, <1>6, <3>1 DEF c
      <3>10. h' = HEAP_SIZE
        BY <1>3, <1>4
      <3> QED BY <1>11, <2>1, <3>2, <3>7, <3>8, <3>9, <3>10 DEF c
    <2>5. ASSUME NEW l \in 0 .. MAX_BITS
          PROVE  Count({i \in Leaf' : i \in Given' /\ dl'[i] = l})
                   = IF l > bits' THEN bl_count'[l] ELSE IF l = bits' THEN bl_count'[l] - n' ELSE 0
      <3>1. Given' = {}
        <4>1. h' .. HEAP_SIZE - 1 = {}
          BY <1>3, <1>4, Numbers
        <4> QED BY <4>1 DEF Given
      <3>2. Count({i \in Leaf' : i \in Given' /\ dl'[i] = l}) = 0
        BY <3>1, CountNone
      <3>3. l > max_length => bl_count'[l] = 0
        <4>1. l > max_length => l \in max_length + 1 .. MAX_BITS
          BY Numbers
        <4> QED BY <1>8, <4>1 DEF InLimits
      <3>4. l = max_length => bl_count'[l] - n' = 0
        BY <1>7, <2>1
      <3> QED BY <2>1, <3>2, <3>3, <3>4
    <2>6. (\A l \in 0 .. MAX_BITS : Count({i \in Leaf : i \in Given /\ dl[i] = l})
             = IF l > bits THEN bl_count[l] ELSE IF l = bits THEN bl_count[l] - n ELSE 0)'
      BY <2>5 DEF Count
    <2>7. h' \in heap_max' .. HEAP_SIZE /\ bits' \in 1 .. max_length /\ n' <= bl_count'[bits'] /\ Joins' >= 2
      <3>1. heap_max' \in Nat /\ heap_max' <= HEAP_SIZE
        <4>1. heap_max = HEAP_SIZE - 2 * Joins - 1 /\ Joins \in Int /\ heap_max \in Nat
          BY <1>1, Numbers DEF TreeInv, Joins, TypeOK
        <4> QED BY <1>3, <1>4, <4>1, Numbers
      <3> QED BY <1>3, <1>4, <1>7, <1>11, <2>1, <3>1, Numbers
    <2>8. (Total(LeafAt, h) = Total(bl_count, bits) + n)' /\ (\A i \in Leaf : dl[i] \in 1 .. max_length)'
      BY <1>3, <1>4, <1>11, <2>4
    <2>9. (h \in heap_max .. HEAP_SIZE /\ bits \in 1 .. max_length /\ n <= bl_count[bits] /\ Joins >= 2)'
      BY <2>7
    <2>10. ReassignInv'
      BY <1>8, <2>3, <2>6, <2>8, <2>9 DEF ReassignInv
    <2> QED BY <1>9, <1>10, <1>11, <1>12, <2>1, <2>10 DEF IInv
  <1> QED BY <1>13, <1>14

-----------------------------------------------------------------------------
(* gen_bitlen: handing out lengths again, the steps                         *)

\* A leaf is left below h as long as lengths are.
LEMMA LeafLeft ==
    ASSUME TypeOK, Placed, TreeInv, ReassignInv, n # 0
    PROVE  /\ h - 1 \in heap_max .. HEAP_SIZE - 1 /\ h - 1 \in Sorted /\ heap_max \in Nat /\ h \in Nat
           /\ Total(LeafAt, h) = Total(LeafAt, h - 1) + LeafAt[h - 1] /\ Total(LeafAt, h - 1) \in Int
           /\ LeafAt[h - 1] = IF heap[h - 1] \in Leaf THEN 1 ELSE 0
  <1>1. /\ h \in heap_max .. HEAP_SIZE /\ bits \in 1 .. max_length /\ n \in Nat /\ n # 0 /\ heap_max \in Nat /\ h \in Nat
        /\ Total(LeafAt, h) = Total(bl_count, bits) + n
    BY DEF ReassignInv, TypeOK
  <1> DEFINE la == LeafAt
  <1>2. \A j \in 0 .. HEAP_SIZE - 1 : la[j] = IF j >= heap_max /\ heap[j] \in Leaf THEN 1 ELSE 0
    BY DEF LeafAt
  <1> HIDE DEF la
  <1>3. \A j \in 0 .. h - 1 : j \in 0 .. HEAP_SIZE - 1
    BY <1>1, Numbers
  <1>4. Summable(la, h)
    BY <1>2, <1>3 DEF Summable
  <1>5. Total(bl_count, bits) \in Nat
    <2>1. \A b \in 0 .. bits - 1 : bl_count[b] \in Nat
      <3>1. \A b \in 0 .. bits - 1 : b \in 0 .. MAX_BITS
        BY <1>1, Numbers
      <3> QED BY <3>1 DEF TypeOK
    <2>2. bits \in Nat
      BY DEF TypeOK
    <2> QED BY <2>1, <2>2, TotalNat
  <1>6. h # heap_max
    <2>1. ASSUME h = heap_max PROVE FALSE
      <3>1. \A j \in 0 .. h - 1 : la[j] = 0
        BY <1>1, <1>2, <1>3, <2>1
      <3>2. Total(la, h) = 0
        BY <1>1, <3>1, TotalZero
      <3> QED BY <1>1, <1>5, <3>2 DEF la
    <2> QED BY <2>1
  <1>7. PICK m \in Nat : m = h - 1
    BY <1>1, <1>6
  <1>8. m \in 0 .. h - 1 /\ m + 1 = h /\ m >= heap_max /\ m \in 0 .. HEAP_SIZE - 1
    BY <1>1, <1>6, <1>7, Numbers
  <1>9. Total(la, m) \in Int /\ Total(la, m + 1) = Total(la, m) + la[m]
    BY <1>1, <1>4, <1>8, SummableLess
  <1>10. la[m] = IF heap[m] \in Leaf THEN 1 ELSE 0
    BY <1>2, <1>8
  <1>11. h - 1 \in heap_max .. HEAP_SIZE - 1 /\ h - 1 \in Sorted
    BY <1>1, <1>7, <1>8 DEF Sorted
  <1> QED BY <1>1, <1>7, <1>8, <1>9, <1>10, <1>11 DEF la

\* The node Reassign is at.
At == heap[h - 1]

\* What a turn of the second pass of gen_bitlen knows and does.
LEMMA ReassignStep ==
    ASSUME IInv, Reassign
    PROVE  /\ TypeOK /\ ForcedInv /\ Placed /\ TreeInv /\ ReassignInv /\ CostInv /\ pc = "reassign" /\ n # 0 /\ n \in Nat
           /\ At \in Nodes /\ At \notin Given /\ Given' = Given \cup {At}
           /\ \/ At \notin Leaf /\ UNCHANGED <<dl, opt_len, n>>
              \/ /\ At \in Leaf /\ At \in Symbols
                 /\ dl' = [dl EXCEPT ![At] = bits] /\ dl'[At] = bits /\ \A x \in Nodes : x # At => dl'[x] = dl[x]
                 /\ opt_len' = opt_len + (bits - dl[At]) * fc[At]
                 /\ n' = n - 1
           /\ h' = h - 1
           /\ UNCHANGED <<freq, fc, depth, heap, heap_len, heap_max, node, max_code, stat_len, bl_count, overflow, cut,
                          next_code, code, k, bits, after, pc>>
           /\ Placed' /\ TreeInv' /\ ForcedInv' /\ ~Building' /\ ~Building /\ Measuring'
           /\ Leaf' = Leaf /\ Forced' = Forced /\ Joins' = Joins /\ LeafAt' = LeafAt
  <1>1. TypeOK /\ ForcedInv /\ Placed /\ TreeInv /\ ReassignInv /\ CostInv /\ pc = "reassign" /\ n # 0 /\ Measuring
        /\ ~Building /\ ~Held
    BY DEF IInv, Reassign, Measuring, Building, Held
  <1>2. /\ h - 1 \in heap_max .. HEAP_SIZE - 1 /\ h - 1 \in Sorted /\ heap_max \in Nat /\ h \in Nat
        /\ Sorted = heap_max .. HEAP_SIZE - 1
    BY <1>1, LeafLeft DEF Sorted
  <1>3. Places = Sorted
    BY <1>1 DEF Places
  <1>4. At \in Leaf \cup Made /\ At \in Nodes
    <2>1. h - 1 \in 0 .. HEAP_SIZE - 1
      BY <1>2
    <2> QED BY <1>1, <1>2, <1>3, <2>1 DEF Placed, At, TypeOK
  <1>5. IsLeaf(At) <=> At \in Leaf
    <2>1. At \in Leaf => At <= max_code
      BY <1>1 DEF Placed
    <2>2. At \in Made => ~(At <= max_code)
      BY <1>1, Numbers DEF Made, TypeOK
    <2> QED BY <1>4, <2>1, <2>2 DEF IsLeaf
  <1>6. /\ h' = h - 1
        /\ UNCHANGED <<freq, fc, depth, heap, heap_len, heap_max, node, max_code, stat_len, bl_count, overflow, cut,
                       next_code, code, k, bits, after, pc>>
        /\ \/ At \notin Leaf /\ UNCHANGED <<dl, opt_len, n>>
           \/ /\ At \in Leaf
              /\ dl' = [dl EXCEPT ![At] = bits]
              /\ opt_len' = opt_len + (bits - dl[At]) * fc[At]
              /\ n' = n - 1
    BY <1>5 DEF Reassign, At, queue, counts, codes
  <1>7. At \in Leaf => At \in Symbols /\ dl'[At] = bits /\ \A x \in Nodes : x # At => dl'[x] = dl[x]
    BY <1>1, <1>4, <1>6 DEF TypeOK, Leaf
  <1>8. At \notin Given
    <2>1. \A j \in h .. HEAP_SIZE - 1 : j \in Sorted /\ j # h - 1
      BY <1>2, Numbers DEF Sorted
    <2>2. \A j \in h .. HEAP_SIZE - 1 : heap[j] # At
      BY <1>1, <1>2, <1>3, <2>1 DEF Placed, At
    <2> QED BY <2>2 DEF Given
  <1>9. Given' = Given \cup {At}
    <2>1. h - 1 .. HEAP_SIZE - 1 = (h .. HEAP_SIZE - 1) \cup {h - 1}
      BY <1>2, Numbers
    <2>2. Given' = {heap[j] : j \in h - 1 .. HEAP_SIZE - 1}
      BY <1>6 DEF Given
    <2> QED BY <2>1, <2>2 DEF Given, At
  <1>10. Measuring'
    BY <1>1, <1>6 DEF Measuring
  <1>11. /\ Placed' /\ TreeInv' /\ ForcedInv' /\ ~Building'
         /\ Leaf' = Leaf /\ Forced' = Forced /\ Joins' = Joins /\ LeafAt' = LeafAt
    <2>1. \A i \in Symbols : i \notin Leaf => dl'[i] = 0
      <3>1. ASSUME NEW i \in Symbols, i \notin Leaf PROVE dl'[i] = 0
        <4>1. i \in Nodes /\ dl[i] = 0
          BY <1>1, <3>1, Sizes DEF Placed
        <4> QED BY <1>6, <1>7, <3>1, <4>1
      <3> QED BY <3>1
    <2> QED BY <1>1, <1>6, <1>10, <2>1, MeasuringFrame
  <1>12. n \in Nat
    BY <1>1 DEF TypeOK
  <1> QED BY <1>1, <1>4, <1>6, <1>7, <1>8, <1>9, <1>10, <1>11, <1>12

\* Giving a leaf its new length.
LEMMA ReassignedInv == IInv /\ Reassign => IInv'
  <1> SUFFICES ASSUME IInv, Reassign PROVE IInv'
    OBVIOUS
  <1>1. /\ TypeOK /\ ForcedInv /\ Placed /\ TreeInv /\ ReassignInv /\ CostInv /\ pc = "reassign" /\ n # 0 /\ n \in Nat
        /\ At \in Nodes /\ At \notin Given /\ Given' = Given \cup {At}
        /\ \/ At \notin Leaf /\ UNCHANGED <<dl, opt_len, n>>
           \/ /\ At \in Leaf /\ At \in Symbols
              /\ dl' = [dl EXCEPT ![At] = bits] /\ dl'[At] = bits /\ \A x \in Nodes : x # At => dl'[x] = dl[x]
              /\ opt_len' = opt_len + (bits - dl[At]) * fc[At]
              /\ n' = n - 1
        /\ h' = h - 1
        /\ UNCHANGED <<freq, fc, depth, heap, heap_len, heap_max, node, max_code, stat_len, bl_count, overflow, cut,
                       next_code, code, k, bits, after, pc>>
        /\ Placed' /\ TreeInv' /\ ForcedInv' /\ ~Building' /\ ~Building /\ Measuring'
        /\ Leaf' = Leaf /\ Forced' = Forced /\ Joins' = Joins /\ LeafAt' = LeafAt
    BY ReassignStep
  <1>2. /\ h - 1 \in heap_max .. HEAP_SIZE - 1 /\ heap_max \in Nat /\ h \in Nat
        /\ Total(LeafAt, h) = Total(LeafAt, h - 1) + LeafAt[h - 1] /\ Total(LeafAt, h - 1) \in Int
        /\ LeafAt[h - 1] = IF At \in Leaf THEN 1 ELSE 0
    BY <1>1, LeafLeft DEF At
  <1>3. /\ bits \in 1 .. max_length /\ n <= bl_count[bits] /\ Joins >= 2 /\ InLimits
        /\ Space(bl_count) = Power2[max_length]
        /\ Total(LeafAt, h) = Total(bl_count, bits) + n
        /\ (\A b \in 0 .. MAX_BITS :
              Count({i \in Leaf : i \in Given /\ dl[i] = b})
                = IF b > bits THEN bl_count[b] ELSE IF b = bits THEN bl_count[b] - n ELSE 0)
        /\ (\A i \in Leaf : dl[i] \in 1 .. max_length)
        /\ bits \in 0 .. MAX_BITS /\ bits \in Nat
    BY <1>1, Numbers DEF ReassignInv
  <1>4. (\A b \in 0 .. MAX_BITS : bl_count[b] \in Nat) /\ Total(bl_count, bits) \in Nat
    <2>1. \A b \in 0 .. MAX_BITS : bl_count[b] \in Nat
      BY <1>1 DEF TypeOK
    <2>2. \A b \in 0 .. bits - 1 : b \in 0 .. MAX_BITS
      BY <1>3, Numbers
    <2> QED BY <1>3, <2>1, <2>2, TotalNat
  <1>5. \A i \in Leaf : i \in Symbols /\ i \in Nodes
    BY Sizes DEF Leaf
  <1>6. Measured = Symbols /\ Measured' = Symbols
    BY <1>1 DEF Measured
  <1>7. opt_len = Total(OptCost(Symbols), elems) /\ stat_len = Total(StatCost(Symbols), elems)
    BY <1>1, <1>6 DEF CostInv
  <1>8. StatCost(Measured)' = StatCost(Symbols)
    BY <1>1, <1>6 DEF StatCost, xbits
  <1>9. CASE At \notin Leaf
    <2>1. UNCHANGED <<dl, opt_len, n>>
      BY <1>1, <1>9
    <2>2. TypeOK'
      <3>1. h' \in Nat
        BY <1>1, <1>2
      <3> QED BY <1>1, <2>1, <3>1 DEF TypeOK
    <2>3. CostInv'
      <3>1. OptCost(Measured)' = OptCost(Symbols)
        BY <1>1, <1>6, <2>1 DEF OptCost, xbits
      <3> QED BY <1>1, <1>7, <1>8, <2>1, <3>1 DEF CostInv
    <2>4. Total(LeafAt', h') = Total(bl_count', bits') + n'
      BY <1>1, <1>2, <1>3, <1>9, <2>1
    <2>5. ASSUME NEW b \in 0 .. MAX_BITS
          PROVE  Count({i \in Leaf' : i \in Given' /\ dl'[i] = b})
                   = IF b > bits' THEN bl_count'[b] ELSE IF b = bits' THEN bl_count'[b] - n' ELSE 0
      <3>1. {i \in Leaf' : i \in Given' /\ dl'[i] = b} = {i \in Leaf : i \in Given /\ dl[i] = b}
        BY <1>1, <1>9, <2>1
      <3> QED BY <1>1, <1>3, <2>1, <3>1
    <2>6. (\A b \in 0 .. MAX_BITS : Count({i \in Leaf : i \in Given /\ dl[i] = b})
             = IF b > bits THEN bl_count[b] ELSE IF b = bits THEN bl_count[b] - n ELSE 0)'
      BY <2>5 DEF Count
    <2>7. (h \in heap_max .. HEAP_SIZE /\ bits \in 1 .. max_length /\ n <= bl_count[bits] /\ Joins >= 2)'
      BY <1>1, <1>2, <1>3, <2>1, Numbers
    <2>8. (InLimits /\ Space(bl_count) = Power2[max_length])'
      BY <1>1, <1>3 DEF InLimits, Space
    <2>9. (Total(LeafAt, h) = Total(bl_count, bits) + n)' /\ (\A i \in Leaf : dl[i] \in 1 .. max_length)'
      BY <1>1, <1>3, <2>1, <2>4
    <2>10. ReassignInv'
      BY <2>6, <2>7, <2>8, <2>9 DEF ReassignInv
    <2> QED BY <1>1, <2>2, <2>3, <2>10 DEF IInv
  <1>10. CASE At \in Leaf
    <2>1. /\ At \in Symbols
          /\ dl' = [dl EXCEPT ![At] = bits] /\ dl'[At] = bits /\ (\A x \in Nodes : x # At => dl'[x] = dl[x])
          /\ opt_len' = opt_len + (bits - dl[At]) * fc[At]
          /\ n' = n - 1
      BY <1>1, <1>10
    <2>2. dl[At] \in Nat /\ fc[At] \in Nat /\ xbits(At) \in Nat /\ opt_len \in Int
      BY <1>1, <2>1, BitsAssumption DEF TypeOK
    <2>3. TypeOK'
      <3>1. h' \in Nat /\ n' \in Nat
        BY <1>1, <1>2, <2>1
      <3>2. opt_len' \in Int
        BY <1>3, <2>1, <2>2
      <3>3. dl' \in [Nodes -> Nat]
        BY <1>1, <1>3, <2>1 DEF TypeOK
      <3> QED BY <1>1, <3>1, <3>2, <3>3 DEF TypeOK
    <2>4. CostInv'
      <3> DEFINE g == OptCost(Symbols)
                 e == OptCost(Measured)'
                 at == At
                 x == xbits(At)
                 l == dl[At]
                 f == fc[At]
      <3>1. \A i \in Symbols : /\ g[i] \in Int
                               /\ g[i] = (IF i \in Leaf THEN fc[i] * (dl[i] + xbits(i)) ELSE 0)
                                           - (IF i \in Forced THEN 1 ELSE 0)
        BY <1>1, CostTypes
      <3>2. \A i \in Symbols : e[i] = (IF i \in Leaf THEN fc[i] * (dl'[i] + xbits(i)) ELSE 0)
                                        - (IF i \in Forced THEN 1 ELSE 0)
        BY <1>1, <1>6 DEF OptCost, xbits
      <3>3. ASSUME NEW i \in Symbols, i # At PROVE e[i] = g[i]
        <4>1. dl'[i] = dl[i]
          BY <2>1, <3>3, Sizes
        <4> QED BY <3>1, <3>2, <4>1
      <3>4. /\ e[At] = f * (bits + x) - (IF At \in Forced THEN 1 ELSE 0)
            /\ g[At] = f * (l + x) - (IF At \in Forced THEN 1 ELSE 0)
        <4> HIDE DEF g, e
        <4> QED BY <1>10, <2>1, <3>1, <3>2
      <3>5. opt_len' = opt_len + (bits - l) * f
        BY <2>1
      <3>6. l \in Nat /\ f \in Nat /\ x \in Nat
        BY <2>2
      <3>7. OptCost(Measured)' = e /\ opt_len = Total(g, elems)
        BY <1>7
      <3> HIDE DEF g, e, x, l, f
      <3>8. e[At] \in Int /\ g[At] \in Int /\ e[At] - g[At] = (bits - l) * f
        <4>1. f * (bits + x) \in Int /\ f * (l + x) \in Int /\ f * (bits + x) - f * (l + x) = (bits - l) * f
          BY <1>3, <3>6
        <4> QED BY <3>4, <4>1
      <3>9. at \in Symbols /\ \A i \in Symbols : g[i] \in Int /\ e[i] \in Int /\ (i # at => e[i] = g[i])
        BY <2>1, <3>1, <3>3, <3>8
      <3> HIDE DEF at
      <3>10. Total(e, elems) = Total(g, elems) + (e[at] - g[at])
        BY <3>9, SymbolsChange
      <3>11. opt_len' = Total(e, elems)
        BY <3>5, <3>7, <3>8, <3>10 DEF at
      <3> QED BY <1>1, <1>7, <1>8, <3>7, <3>11 DEF CostInv
    <2>5. Total(LeafAt', h') = Total(bl_count', bits') + n'
      BY <1>1, <1>2, <1>3, <1>4, <1>10, <2>1
    <2>6. ASSUME NEW b \in 0 .. MAX_BITS
          PROVE  Count({i \in Leaf' : i \in Given' /\ dl'[i] = b})
                   = IF b > bits' THEN bl_count'[b] ELSE IF b = bits' THEN bl_count'[b] - n' ELSE 0
      <3> DEFINE S == {i \in Leaf : i \in Given /\ dl[i] = b}
                 R == {i \in Leaf' : i \in Given' /\ dl'[i] = b}
                 at == At
      <3>1. \A i \in Symbols : i # At => (i \in S <=> i \in R)
        BY <1>1, <1>5, <2>1
      <3>2. at \in Symbols /\ at \notin S /\ (at \in R <=> b = bits)
        BY <1>1, <1>10, <2>1
      <3>3. bl_count[b] \in Nat /\ Count(S) = IF b > bits THEN bl_count[b] ELSE IF b = bits THEN bl_count[b] - n ELSE 0
        BY <1>3, <1>4
      <3>4. CASE b = bits
        <4>1. Count(R) = Count(S) + 1
          <5>1. at \in R /\ \A i \in Symbols : i # at => (i \in S <=> i \in R)
            BY <3>1, <3>2, <3>4
          <5> HIDE DEF S, R, at
          <5> QED BY <3>2, <5>1, CountOneMore
        <4>2. Count(S) = bl_count[b] - n
          <5> HIDE DEF S, R, at
          <5> QED BY <1>3, <3>3, <3>4
        <4> HIDE DEF S, R, at
        <4>3. Count(R) = bl_count[b] - (n - 1)
          BY <1>1, <3>3, <4>1, <4>2
        <4> QED BY <1>1, <1>3, <2>1, <3>4, <4>3 DEF R
      <3>5. CASE b # bits
        <4>1. \A i \in Symbols : i \in S <=> i \in R
          <5> HIDE DEF S, R
          <5> QED BY <3>1, <3>2, <3>5
        <4>2. Count(R) = Count(S)
          <5> HIDE DEF S, R
          <5> QED BY <4>1, CountSame
        <4> HIDE DEF S, R
        <4> QED BY <1>1, <3>3, <3>5, <4>2 DEF R
      <3> QED BY <3>4, <3>5
    <2>7. (\A b \in 0 .. MAX_BITS : Count({i \in Leaf : i \in Given /\ dl[i] = b})
             = IF b > bits THEN bl_count[b] ELSE IF b = bits THEN bl_count[b] - n ELSE 0)'
      BY <2>6 DEF Count
    <2>8. (h \in heap_max .. HEAP_SIZE /\ bits \in 1 .. max_length /\ n <= bl_count[bits] /\ Joins >= 2)'
      <3>1. n' <= bl_count[bits]
        BY <1>1, <1>3, <1>4, <2>1
      <3> QED BY <1>1, <1>2, <1>3, <3>1, Numbers
    <2>9. (InLimits /\ Space(bl_count) = Power2[max_length])'
      BY <1>1, <1>3 DEF InLimits, Space
    <2>10. (Total(LeafAt, h) = Total(bl_count, bits) + n)' /\ (\A i \in Leaf : dl[i] \in 1 .. max_length)'
      <3>1. \A i \in Leaf : dl'[i] \in 1 .. max_length
        BY <1>3, <1>5, <2>1
      <3> QED BY <1>1, <2>5, <3>1
    <2>11. ReassignInv'
      BY <2>7, <2>8, <2>9, <2>10 DEF ReassignInv
    <2> QED BY <1>1, <2>3, <2>4, <2>11 DEF IInv
  <1> QED BY <1>9, <1>10

\* All leaves of a length have it.
LEMMA NextLengthInv == IInv /\ NextLength => IInv'
  <1> SUFFICES ASSUME IInv, NextLength PROVE IInv'
    OBVIOUS
  <1>1. TypeOK /\ ForcedInv /\ Placed /\ TreeInv /\ ReassignInv /\ CostInv /\ pc = "reassign" /\ n = 0 /\ Measuring
        /\ ~Building /\ ~Held
    BY DEF IInv, NextLength, Measuring, Building, Held
  <1>2. UNCHANGED <<freq, fc, dl, depth, heap, heap_len, heap_max, node, max_code, opt_len, stat_len,
                    bl_count, overflow, cut, next_code, h, k, after>>
    BY DEF NextLength, tree, queue, costs, counts
  <1>3. /\ h \in heap_max .. HEAP_SIZE /\ bits \in 1 .. max_length /\ Joins >= 2 /\ InLimits
        /\ Space(bl_count) = Power2[max_length]
        /\ Total(LeafAt, h) = Total(bl_count, bits)
        /\ (\A b \in 0 .. MAX_BITS :
              Count({i \in Leaf : i \in Given /\ dl[i] = b}) = IF b >= bits THEN bl_count[b] ELSE 0)
        /\ (\A i \in Leaf : dl[i] \in 1 .. max_length)
        /\ bits \in 0 .. MAX_BITS /\ bits \in Nat /\ h \in Nat /\ heap_max \in Nat
    <2>1. /\ h \in heap_max .. HEAP_SIZE /\ bits \in 1 .. max_length /\ Joins >= 2 /\ InLimits
          /\ Space(bl_count) = Power2[max_length]
          /\ Total(LeafAt, h) = Total(bl_count, bits) + 0
          /\ (\A b \in 0 .. MAX_BITS :
                Count({i \in Leaf : i \in Given /\ dl[i] = b})
                  = IF b > bits THEN bl_count[b] ELSE IF b = bits THEN bl_count[b] - 0 ELSE 0)
          /\ (\A i \in Leaf : dl[i] \in 1 .. max_length)
      BY <1>1 DEF ReassignInv
    <2>2. bits \in 0 .. MAX_BITS /\ bits \in Nat /\ h \in Nat /\ heap_max \in Nat
      BY <1>1, <2>1, Numbers DEF TypeOK
    <2>3. \A b \in 0 .. MAX_BITS : bl_count[b] \in Nat
      BY <1>1 DEF TypeOK
    <2>4. Total(bl_count, bits) \in Nat
      <3>1. \A b \in 0 .. bits - 1 : b \in 0 .. MAX_BITS
        BY <2>2, Numbers
      <3> QED BY <2>2, <2>3, <3>1, TotalNat
    <2>5. \A b \in 0 .. MAX_BITS : b \in Int
      OBVIOUS
    <2>6. \A b \in 0 .. MAX_BITS :
            Count({i \in Leaf : i \in Given /\ dl[i] = b}) = IF b >= bits THEN bl_count[b] ELSE 0
      BY <2>1, <2>2, <2>3, <2>5
    <2> QED BY <2>1, <2>2, <2>4, <2>6
  <1>4. opt_len = Total(OptCost(Symbols), elems) /\ stat_len = Total(StatCost(Symbols), elems)
    BY <1>1 DEF CostInv, Measured
  <1>5. \A b \in 0 .. MAX_BITS : bl_count[b] \in Nat
    BY <1>1 DEF TypeOK
  <1>6. CASE bits > 1
    <2>1. bits' = bits - 1 /\ n' = bl_count[bits - 1] /\ UNCHANGED <<code, pc>>
      BY <1>3, <1>6 DEF NextLength
    <2>2. PICK m \in Nat : m = bits - 1
      BY <1>3, <1>6
    <2>3. m \in 0 .. bits - 1 /\ m \in 0 .. MAX_BITS /\ m + 1 = bits /\ m \in 1 .. max_length
      BY <1>3, <1>6, <2>2, Numbers
    <2>4. Total(bl_count, m) \in Int /\ Total(bl_count, bits) = Total(bl_count, m) + bl_count[m]
      <3>1. \A b \in 0 .. bits - 1 : b \in 0 .. MAX_BITS
        BY <1>3, Numbers
      <3>2. Summable(bl_count, bits)
        BY <1>5, <3>1 DEF Summable
      <3>3. Total(bl_count, m) \in Int /\ Total(bl_count, m + 1) = Total(bl_count, m) + bl_count[m]
        BY <1>3, <2>3, <3>2, SummableLess
      <3> QED BY <2>3, <3>3
    <2>5. TypeOK'
      <3>1. bits' \in Nat /\ n' \in Nat
        BY <1>5, <2>1, <2>2, <2>3
      <3> QED BY <1>1, <1>2, <2>1, <3>1 DEF TypeOK
    <2>6. Measuring'
      BY <1>1, <2>1 DEF Measuring
    <2>7. /\ Placed' /\ TreeInv' /\ ForcedInv' /\ ~Building'
          /\ Leaf' = Leaf /\ Forced' = Forced /\ Joins' = Joins /\ LeafAt' = LeafAt
      <3>1. \A i \in Symbols : i \notin Leaf => dl'[i] = 0
        BY <1>1, <1>2 DEF Placed
      <3> QED BY <1>1, <1>2, <2>6, <3>1, MeasuringFrame
    <2>8. CostInv'
      <3>1. Measured' = Symbols
        BY <1>1, <2>1, <2>7 DEF Measured
      <3>2. OptCost(Measured)' = OptCost(Symbols) /\ StatCost(Measured)' = StatCost(Symbols)
        BY <1>2, <2>7, <3>1 DEF OptCost, StatCost, xbits
      <3> QED BY <1>2, <1>4, <3>2 DEF CostInv
    <2>9. Given' = Given
      BY <1>2 DEF Given
    <2>10. ASSUME NEW b \in 0 .. MAX_BITS
           PROVE  Count({i \in Leaf' : i \in Given' /\ dl'[i] = b})
                    = IF b > bits' THEN bl_count'[b] ELSE IF b = bits' THEN bl_count'[b] - n' ELSE 0
      <3>1. {i \in Leaf' : i \in Given' /\ dl'[i] = b} = {i \in Leaf : i \in Given /\ dl[i] = b}
        BY <1>2, <2>7, <2>9
      <3>2. bl_count[b] \in Nat /\ bl_count[m] \in Nat /\ b \in Int
        BY <1>5, <2>3
      <3>3. Count({i \in Leaf : i \in Given /\ dl[i] = b}) = IF b >= bits THEN bl_count[b] ELSE 0
        BY <1>3
      <3>4. bits' = m /\ n' = bl_count[m] /\ bl_count'[b] = bl_count[b]
        BY <1>2, <2>1, <2>2
      <3>5. (IF b >= bits THEN bl_count[b] ELSE 0)
              = IF b > m THEN bl_count[b] ELSE IF b = m THEN bl_count[b] - bl_count[m] ELSE 0
        <4>1. CASE b = m
          BY <2>2, <2>3, <3>2, <4>1
        <4>2. CASE b # m
          BY <2>2, <2>3, <3>2, <4>2
        <4> QED BY <4>1, <4>2
      <3> QED BY <3>1, <3>3, <3>4, <3>5
    <2>11. (\A b \in 0 .. MAX_BITS : Count({i \in Leaf : i \in Given /\ dl[i] = b})
              = IF b > bits THEN bl_count[b] ELSE IF b = bits THEN bl_count[b] - n ELSE 0)'
      BY <2>10 DEF Count
    <2>12. (h \in heap_max .. HEAP_SIZE /\ bits \in 1 .. max_length /\ n <= bl_count[bits] /\ Joins >= 2)'
      <3>1. n' <= bl_count'[bits'] /\ bits' \in 1 .. max_length
        BY <1>2, <1>5, <2>1, <2>2, <2>3
      <3> QED BY <1>2, <1>3, <2>7, <3>1
    <2>13. (InLimits /\ Space(bl_count) = Power2[max_length])'
      BY <1>2, <1>3 DEF InLimits, Space
    <2>14. (Total(LeafAt, h) = Total(bl_count, bits) + n)' /\ (\A i \in Leaf : dl[i] \in 1 .. max_length)'
      <3>1. Total(LeafAt', h') = Total(bl_count', bits') + n'
        BY <1>2, <1>3, <2>1, <2>2, <2>4, <2>7
      <3> QED BY <1>2, <1>3, <2>7, <3>1
    <2>15. ReassignInv'
      BY <2>11, <2>12, <2>13, <2>14 DEF ReassignInv
    <2> QED BY <1>1, <2>1, <2>5, <2>6, <2>7, <2>8, <2>15 DEF IInv
  <1>7. CASE ~(bits > 1)
    <2>1. bits = 1 /\ ToCodes /\ UNCHANGED n
      BY <1>3, <1>7 DEF NextLength
    <2>2. TypeOK'
      <3>1. bits' \in Nat /\ code' \in Nat /\ pc' = "first"
        BY <2>1 DEF ToCodes
      <3> QED BY <1>1, <1>2, <2>1, <3>1 DEF TypeOK
    <2>3. Total(LeafAt, h) = 0
      <3>1. \A b \in 0 .. 1 - 1 : bl_count[b] = 0
        BY <1>3 DEF InLimits
      <3>2. Total(bl_count, 1) = 0
        BY <3>1, TotalZero
      <3> QED BY <1>3, <2>1, <3>2
    <2>4. ASSUME NEW i \in Leaf PROVE i \in Given
      <3>1. PICK q \in Sorted : heap[q] = i
        BY <1>1 DEF Placed, Places
      <3>2. q \in heap_max .. HEAP_SIZE - 1 /\ q \in Nat
        BY <1>3, <3>1, Numbers DEF Sorted
      <3>3. ASSUME q < h PROVE FALSE
        <4> DEFINE la == LeafAt
        <4>1. \A j \in 0 .. h - 1 : la[j] \in Nat
          <5>1. \A j \in 0 .. h - 1 : j \in 0 .. HEAP_SIZE - 1
            BY <1>3, Numbers
          <5> QED BY <5>1 DEF LeafAt
        <4>2. la[q] = 1
          <5>1. q \in 0 .. HEAP_SIZE - 1 /\ q >= heap_max
            BY <1>3, <3>2, Numbers
          <5> QED BY <3>1, <5>1 DEF LeafAt
        <4>3. q \in 0 .. h - 1
          BY <1>3, <3>2, <3>3
        <4> HIDE DEF la
        <4>4. Total(la, h) >= la[q]
          BY <1>3, <4>1, <4>3, TotalSome
        <4> QED BY <2>3, <4>2, <4>4 DEF la
      <3>4. q \in h .. HEAP_SIZE - 1
        BY <1>3, <3>2, <3>3, Numbers
      <3> QED BY <3>1, <3>4 DEF Given
    <2>5. \A b \in 1 .. MAX_BITS : bl_count[b] = Count({i \in Leaf : dl[i] = b})
      <3>1. ASSUME NEW b \in 1 .. MAX_BITS PROVE bl_count[b] = Count({i \in Leaf : dl[i] = b})
        <4>1. b \in 0 .. MAX_BITS /\ b >= bits
          BY <2>1, Numbers
        <4>2. bl_count[b] = Count({i \in Leaf : i \in Given /\ dl[i] = b})
          BY <1>3, <4>1
        <4>3. {i \in Leaf : i \in Given /\ dl[i] = b} = {i \in Leaf : dl[i] = b}
          BY <2>4
        <4> QED BY <4>2, <4>3
      <3> QED BY <3>1
    <2>6. Joins = 1 => \A i \in Leaf : dl[i] = 1
      BY <1>3
    <2>7. LengthsMade
      BY <1>1, <1>3, <1>4, <2>5, <2>6, LengthsAreMade
    <2> QED BY <1>1, <1>2, <2>1, <2>2, <2>7, FirstStart
  <1> QED BY <1>6, <1>7

-----------------------------------------------------------------------------
(* gen_codes                                                                *)

\* The weights of the lengths, and the space taken up to one.
LEMMA Weights ==
    ASSUME NEW b \in 0 .. MAX_BITS
    PROVE  /\ Weight(b) \in Nat \ {0} /\ Power2[b] \in Nat \ {0} /\ Power2[MAX_BITS] = Power2[b] * Weight(b)
           /\ b >= 1 => Weight(b - 1) = 2 * Weight(b)
           /\ b = MAX_BITS => Weight(b) = 1
  <1>1. PICK d \in Nat : d = MAX_BITS - b
    BY Numbers
  <1>2. b \in Nat /\ b + d = MAX_BITS /\ d \in 0 .. MAX_BITS
    BY <1>1, Numbers
  <1>3. Power2[b + d] = Power2[b] * Power2[d] /\ Power2[b] \in Nat \ {0} /\ Power2[d] \in Nat \ {0}
    BY <1>2, Numbers, PowersMultiply
  <1>4. Weight(b) = Power2[d]
    BY <1>1 DEF Weight
  <1>5. ASSUME b >= 1 PROVE Weight(b - 1) = 2 * Weight(b)
    <2>1. d \in 0 .. MAX_BITS - 1 /\ MAX_BITS - (b - 1) = d + 1
      BY <1>1, <1>2, <1>5, Numbers
    <2>2. Power2[d + 1] = 2 * Power2[d]
      BY <2>1, Powers
    <2> QED BY <1>4, <2>1, <2>2 DEF Weight
  <1>6. b = MAX_BITS => Weight(b) = 1
    BY <1>1, <1>2, <1>4, Powers
  <1> QED BY <1>2, <1>3, <1>4, <1>5, <1>6

\* The space taken, length by length.
LEMMA Takes ==
    ASSUME TypeOK
    PROVE  /\ \A b \in 0 .. MAX_BITS : /\ Taken(b) \in Nat /\ Taken(b + 1) \in Nat
                                       /\ Taken(b + 1) = Taken(b) + bl_count[b] * Weight(b)
           /\ \A b \in 0 .. MAX_BITS, c \in 0 .. MAX_BITS + 1 : b < c => Taken(b + 1) <= Taken(c)
  <1> DEFINE f == [c \in 0 .. MAX_BITS |-> bl_count[c] * Weight(c)]
             t(b) == Total(f, b)
  <1>1. PICK to \in Nat : to = MAX_BITS + 1
    BY Numbers
  <1>2. \A b \in 0 .. to - 1 : b \in 0 .. MAX_BITS
    BY <1>1, Numbers
  <1>3. \A b \in 0 .. MAX_BITS : b \in 0 .. to - 1 /\ b \in Nat
    BY <1>1, Numbers
  <1>4. ASSUME NEW b \in 0 .. MAX_BITS PROVE f[b] = bl_count[b] * Weight(b) /\ f[b] \in Nat
    <2>1. bl_count[b] \in Nat /\ Weight(b) \in Nat
      BY Weights DEF TypeOK
    <2> DEFINE w == Weight(b)
               c == bl_count[b]
    <2>2. c \in Nat /\ w \in Nat /\ f[b] = c * w
      BY <2>1
    <2> HIDE DEF c, w, f
    <2>3. f[b] \in Nat
      BY <2>2
    <2> QED BY <2>2, <2>3 DEF c, w
  <1>5. \A b : Taken(b) = Total(f, b)
    BY DEF Taken
  <1> HIDE DEF f
  <1>6. Summable(f, to) /\ \A i \in 0 .. to - 1 : f[i] \in Nat
    BY <1>2, <1>4 DEF Summable
  <1>7. ASSUME NEW b \in 0 .. to PROVE Total(f, b) \in Nat
    <2>1. b \in Nat /\ \A i \in 0 .. b - 1 : f[i] \in Nat
      BY <1>1, <1>6
    <2> QED BY <2>1, TotalNat
  <1>8. ASSUME NEW b \in 0 .. MAX_BITS
        PROVE  /\ Taken(b) \in Nat /\ Taken(b + 1) \in Nat /\ Taken(b + 1) = Taken(b) + bl_count[b] * Weight(b)
               /\ Taken(b) <= Taken(b + 1)
    <2>1. b \in 0 .. to - 1 /\ b \in 0 .. to /\ b + 1 \in 0 .. to
      BY <1>1, <1>3
    <2>2. Total(f, b + 1) = Total(f, b) + f[b]
      BY <1>6, <2>1, SummableLess
    <2>3. Total(f, b) \in Nat /\ Total(f, b + 1) \in Nat
      BY <1>7, <2>1
    <2>4. f[b] \in Nat
      BY <1>4
    <2>5. Total(f, b) <= Total(f, b + 1)
      BY <2>2, <2>3, <2>4
    <2> QED BY <1>4, <1>5, <2>2, <2>3, <2>5
  <1>9. ASSUME NEW b \in 0 .. MAX_BITS, NEW c \in 0 .. MAX_BITS + 1, b < c PROVE Taken(b + 1) <= Taken(c)
    <2> DEFINE T == {m \in 0 .. to : b + 1 <= m => Taken(b + 1) <= Taken(m)}
    <2>1. 0 \in T
      BY <1>1, <1>3
    <2>2. ASSUME NEW m \in 0 .. to - 1, m \in T PROVE m + 1 \in T
      <3>1. m \in 0 .. MAX_BITS /\ m + 1 \in 0 .. to
        BY <1>1, <1>2
      <3>2. Taken(m) \in Nat /\ Taken(m + 1) \in Nat /\ Taken(m) <= Taken(m + 1) /\ Taken(b + 1) \in Nat
        BY <1>8, <3>1
      <3>3. CASE b + 1 <= m
        BY <2>2, <3>1, <3>2, <3>3
      <3>4. CASE ~(b + 1 <= m)
        <4>1. b + 1 <= m + 1 => b = m
          BY <3>1, <3>4
        <4> QED BY <3>1, <3>2, <4>1
      <3> QED BY <3>3, <3>4
    <2>3. c \in 0 .. to
      BY <1>1
    <2>4. c \in T
      <3> HIDE DEF T
      <3>1. \A m \in 0 .. to : m \in T
        BY <2>1, <2>2, Upwards
      <3> QED BY <2>3, <3>1
    <2> QED BY <1>9, <2>4
  <1> QED BY <1>8, <1>9

\* Reckoning the first code of a length.
LEMMA FirstCodeInv == IInv /\ FirstCode => IInv'
  <1> SUFFICES ASSUME IInv, FirstCode PROVE IInv'
    OBVIOUS
  <1>1. TypeOK /\ ForcedInv /\ LengthsMade /\ FirstInv /\ pc = "first"
    BY DEF IInv, FirstCode
  <1>2. UNCHANGED <<freq, fc, dl, depth, heap, heap_len, heap_max, node, max_code, opt_len, stat_len,
                    bl_count, overflow, cut, h, k, after>>
    BY DEF FirstCode, tree, queue, costs, counts
  <1>3. LengthsMade'
    BY <1>1, <1>2 DEF LengthsMade, Coded, Cost, Count, Taken
  <1>4. /\ bits \in 1 .. MAX_BITS + 1 /\ bits \in Nat /\ code \in Nat
        /\ code * Weight(bits - 1) = Taken(bits - 1)
        /\ (\A b \in 1 .. bits - 1 : next_code[b] * Weight(b) = Taken(b))
        /\ next_code \in [1 .. MAX_BITS -> Nat] /\ bl_count \in [0 .. MAX_BITS -> Nat]
    BY <1>1 DEF FirstInv, TypeOK
  <1>5. \A b : Taken(b)' = Taken(b)
    BY <1>2 DEF Taken, Weight
  <1>6. PICK l \in 0 .. MAX_BITS : l = bits - 1
    BY <1>4, Numbers
  <1>7. /\ code * Weight(l) = Taken(l) /\ Taken(l) \in Nat /\ bl_count[l] \in Nat /\ Weight(l) \in Nat
        /\ Taken(l + 1) = Taken(l) + bl_count[l] * Weight(l)
        /\ (code + bl_count[l]) * Weight(l) = Taken(l + 1)
    <2>1. /\ code * Weight(l) = Taken(l) /\ Taken(l) \in Nat /\ bl_count[l] \in Nat /\ Weight(l) \in Nat
          /\ Taken(l + 1) = Taken(l) + bl_count[l] * Weight(l)
      BY <1>1, <1>4, <1>6, Takes, Weights
    <2> DEFINE w == Weight(l)
               c == bl_count[l]
    <2>2. w \in Nat /\ c \in Nat
      BY <2>1
    <2> HIDE DEF w, c
    <2>3. (code + c) * w = code * w + c * w
      BY <1>4, <2>2
    <2> QED BY <2>1, <2>3 DEF w, c
  <1>8. CASE bits <= MAX_BITS
    <2>1. /\ code' = 2 * (code + bl_count[bits - 1])
          /\ next_code' = [next_code EXCEPT ![bits] = code']
          /\ bits' = bits + 1
          /\ UNCHANGED <<n, pc>>
      BY <1>4, <1>8, Numbers DEF FirstCode
    <2>2. bits \in 1 .. MAX_BITS /\ l + 1 = bits
      BY <1>4, <1>6, <1>8
    <2>3. code' \in Nat /\ next_code' \in [1 .. MAX_BITS -> Nat]
      BY <1>4, <1>6, <1>7, <2>1, <2>2
    <2>4. TypeOK'
      <3>1. bits' \in Nat
        BY <1>4, <2>1
      <3> QED BY <1>1, <1>2, <2>1, <2>3, <3>1 DEF TypeOK
    <2>5. code' * Weight(bits) = Taken(bits)
      <3>1. bits \in 0 .. MAX_BITS /\ bits >= 1
        BY <2>2
      <3>2. Weight(bits - 1) = 2 * Weight(bits) /\ Weight(bits) \in Nat
        BY <3>1, Weights
      <3> DEFINE w == Weight(bits)
                 c == bl_count[l]
      <3>3. w \in Nat /\ c \in Nat /\ Weight(l) = 2 * w
        BY <1>6, <1>7, <3>2
      <3>4. (code + c) * (2 * w) = Taken(l + 1)
        BY <1>7, <3>3
      <3>5. code' = 2 * (code + c)
        BY <1>6, <2>1
      <3> HIDE DEF w, c
      <3>6. (2 * (code + c)) * w = (code + c) * (2 * w)
        BY <1>4, <3>3
      <3> QED BY <2>2, <3>4, <3>5, <3>6 DEF w
    <2>6. FirstInv'
      <3>1. bits' \in 1 .. MAX_BITS + 1 /\ bits' - 1 = bits
        BY <1>4, <2>1, <2>2, Numbers
      <3>2. ASSUME NEW b \in 1 .. bits PROVE next_code'[b] * Weight(b) = Taken(b)
        <4>1. CASE b = bits
          BY <1>4, <2>1, <2>2, <2>5, <4>1
        <4>2. CASE b # bits
          <5>1. b \in 1 .. bits - 1 /\ b \in 1 .. MAX_BITS
            BY <1>4, <2>2, <4>2, Numbers
          <5>2. next_code'[b] = next_code[b]
            BY <1>4, <2>1, <4>2, <5>1
          <5> QED BY <1>4, <5>1, <5>2
        <4> QED BY <4>1, <4>2
      <3>3. (code * Weight(bits - 1) = Taken(bits - 1))'
        <4>1. Taken(bits - 1)' = Taken(bits)
          BY <1>2, <3>1 DEF Taken, Weight
        <4> QED BY <2>5, <3>1, <4>1 DEF Weight
      <3>4. (\A b \in 1 .. bits - 1 : next_code[b] * Weight(b) = Taken(b))'
        BY <1>2, <3>1, <3>2 DEF Taken, Weight
      <3> QED BY <3>1, <3>3, <3>4 DEF FirstInv
    <2>7. ForcedInv'
      BY <1>1, <1>2, <2>1 DEF ForcedInv, Forced, Building, Measuring
    <2> QED BY <1>1, <1>3, <2>1, <2>4, <2>6, <2>7 DEF IInv, CostInv, Building, Measuring
  <1>9. CASE ~(bits <= MAX_BITS)
    <2>1. n' = 0 /\ pc' = "codes" /\ UNCHANGED <<next_code, code, bits>>
      BY <1>4, <1>9, Numbers DEF FirstCode, codes
    <2>2. TypeOK'
      BY <1>1, <1>2, <2>1 DEF TypeOK
    <2>3. l = MAX_BITS /\ MAX_BITS \in 0 .. MAX_BITS /\ bits = MAX_BITS + 1
      BY <1>4, <1>6, <1>9, Numbers
    <2>4. code + bl_count[MAX_BITS] = Power2[MAX_BITS]
      <3>1. Weight(l) = 1
        BY <2>3, Weights
      <3>2. Taken(l + 1) = Power2[MAX_BITS]
        BY <1>1, <2>3 DEF LengthsMade
      <3> QED BY <1>4, <1>7, <2>3, <3>1, <3>2
    <2>5. ASSUME NEW b \in 1 .. MAX_BITS
          PROVE  next_code[b] * Weight(b) = Taken(b) + Count({i \in Symbols : i < 0 /\ dl[i] = b}) * Weight(b)
      <3>1. b \in 1 .. bits - 1 /\ b \in 0 .. MAX_BITS
        BY <2>3, Numbers
      <3>2. Count({i \in Symbols : i < 0 /\ dl[i] = b}) = 0
        <4>1. \A i \in Symbols : ~(i < 0)
          BY Sizes
        <4> QED BY <4>1, CountNone
      <3>3. Weight(b) \in Nat /\ Taken(b) \in Nat
        BY <1>1, <3>1, Weights, Takes
      <3>4. Taken(b) + 0 * Weight(b) = Taken(b)
        BY <3>3
      <3> QED BY <1>4, <3>1, <3>2, <3>4
    <2>6. CodesInv'
      <3>1. (\A b \in 1 .. MAX_BITS :
               next_code[b] * Weight(b) = Taken(b) + Count({i \in Symbols : i < n /\ dl[i] = b}) * Weight(b))'
        BY <1>2, <2>1, <2>5 DEF Taken, Weight, Count
      <3> QED BY <1>2, <2>1, <2>4, <3>1 DEF CodesInv
    <2>7. HandedOut'
      <3>1. \A i \in Symbols : ~(i < n')
        BY <2>1, Sizes
      <3> QED BY <3>1 DEF HandedOut
    <2> QED BY <1>3, <2>1, <2>2, <2>6, <2>7 DEF IInv, CostInv, Building, Measuring
  <1> QED BY <1>8, <1>9

-----------------------------------------------------------------------------
(* The theorems about the code                                              *)

\* The codes of a length end before those of the next one begin.
LEMMA CodeFits ==
    ASSUME TypeOK, LengthsMade, NEW l \in 1 .. MAX_BITS, NEW m \in Nat, m + 1 <= bl_count[l],
           NEW u \in Nat, u * Weight(l) = Taken(l) + m * Weight(l)
    PROVE  u \in 0 .. Power2[l] - 1 /\ (u + 1) * Weight(l) <= Taken(l + 1)
  <1>1. l \in 0 .. MAX_BITS /\ l < MAX_BITS + 1 /\ MAX_BITS + 1 \in 0 .. MAX_BITS + 1
    BY Numbers
  <1> DEFINE w == Weight(l)
             p == Power2[l]
             c == bl_count[l]
  <1>2. w \in Nat \ {0} /\ p \in Nat \ {0} /\ Power2[MAX_BITS] = p * w
    BY <1>1, Weights
  <1>3. /\ Taken(l) \in Nat /\ Taken(l + 1) \in Nat /\ Taken(l + 1) = Taken(l) + c * w
        /\ Taken(l + 1) <= Taken(MAX_BITS + 1)
    BY <1>1, Takes
  <1>4. Taken(MAX_BITS + 1) = p * w
    BY <1>2 DEF LengthsMade
  <1>5. c \in Nat /\ m + 1 <= c /\ u * w = Taken(l) + m * w
    BY <1>1 DEF TypeOK
  <1> HIDE DEF w, p, c
  <1>6. (u + 1) * w = u * w + w /\ (m + 1) * w = m * w + w /\ (m + 1) * w <= c * w
    BY <1>2, <1>5
  <1>7. u * w \in Nat /\ m * w \in Nat /\ c * w \in Nat /\ p * w \in Nat
    BY <1>2, <1>5
  <1>8. (u + 1) * w <= Taken(l + 1) /\ (u + 1) * w <= p * w
    BY <1>2, <1>3, <1>4, <1>5, <1>6, <1>7
  <1>9. u + 1 <= p
    BY <1>2, <1>8
  <1> QED BY <1>2, <1>8, <1>9 DEF w, p

\* Giving a symbol its code.
LEMMA AssignCodeInv == IInv /\ AssignCode => IInv'
  <1> SUFFICES ASSUME IInv, AssignCode PROVE IInv'
    OBVIOUS
  <1>1. TypeOK /\ LengthsMade /\ CodesInv /\ HandedOut /\ pc = "codes"
    BY DEF IInv, AssignCode
  <1>2. UNCHANGED <<freq, dl, depth, heap, heap_len, heap_max, node, max_code, opt_len, stat_len,
                    bl_count, overflow, cut, code, h, k, bits, after>>
    BY DEF AssignCode, queue, costs, counts
  <1>3. LengthsMade'
    BY <1>1, <1>2 DEF LengthsMade, Coded, Cost, Count, Taken
  <1>4. /\ n \in Nat /\ max_code \in -1 .. elems - 1 /\ elems \in Nat
        /\ fc \in [Nodes -> Nat] /\ dl \in [Nodes -> Nat] /\ next_code \in [1 .. MAX_BITS -> Nat]
        /\ bl_count \in [0 .. MAX_BITS -> Nat]
    BY <1>1, Numbers DEF TypeOK
  <1>5. \A b \in 1 .. MAX_BITS :
          next_code[b] * Weight(b) = Taken(b) + Count({i \in Symbols : i < n /\ dl[i] = b}) * Weight(b)
    BY <1>1 DEF CodesInv
  <1>6. \A i \in Symbols : i \in Int /\ i \in Nodes
    BY Sizes
  <1>7. n <= max_code => n \in Symbols /\ n \in Nodes /\ n \in 0 .. elems - 1
    BY <1>4, Sizes
  <1>8. CASE n <= max_code /\ dl[n] # 0
    <2> DEFINE l == dl[n]
               u == next_code[l]
               Sooner(b) == {i \in Symbols : i < n /\ dl[i] = b}
               Later(b) == {i \in Symbols : i < n + 1 /\ dl[i] = b}
    <2>1. /\ fc' = [fc EXCEPT ![n] = bi_reverse(u, l)]
          /\ next_code' = [next_code EXCEPT ![l] = @ + 1]
          /\ n' = n + 1 /\ pc' = pc
      BY <1>4, <1>8 DEF AssignCode
    <2>2. n \in Symbols /\ n \in Nodes
      BY <1>7, <1>8
    <2>3. l \in 1 .. MAX_BITS /\ l \in 0 .. MAX_BITS /\ u \in Nat
      <3>1. l \in Nat /\ l # 0 /\ l <= max_length
        BY <1>1, <1>4, <1>8, <2>2 DEF LengthsMade
      <3>2. l \in 1 .. MAX_BITS /\ l \in 0 .. MAX_BITS
        BY <3>1, Numbers
      <3> QED BY <1>4, <3>2
    <2>4. bi_reverse(u, l) = Reversed[l][u] /\ Reversed[l][u] \in Nat
      <3>1. Reversed[l][u] \in 0 .. Power2[l] - 1
        BY <2>3, ReversedFits
      <3>2. bi_reverse(u, l) = Reversed[l][u]
        BY DEF bi_reverse
      <3> QED BY <3>1, <3>2
    <2>5. Before(n) = Count(Sooner(l)) /\ Count(Sooner(l)) \in Nat
      <3>1. Before(n) = Count(Sooner(l))
        BY DEF Before
      <3> QED BY <3>1, CountType
    <2> HIDE DEF u
    <2>6. /\ fc' \in [Nodes -> Nat] /\ fc'[n] = Reversed[l][u] /\ (\A i \in Nodes : i # n => fc'[i] = fc[i])
          /\ next_code' \in [1 .. MAX_BITS -> Nat] /\ next_code'[l] = u + 1
          /\ (\A b \in 1 .. MAX_BITS : b # l => next_code'[b] = next_code[b])
      BY <1>4, <2>1, <2>2, <2>3, <2>4 DEF u
    <2>7. TypeOK'
      <3>1. n' \in Nat
        BY <1>4, <2>1
      <3> QED BY <1>1, <1>2, <2>1, <2>6, <3>1 DEF TypeOK
    <2>8. u * Weight(l) = Taken(l) + Before(n) * Weight(l)
      BY <1>5, <2>3, <2>5 DEF u
    <2>9. Before(n) + 1 <= bl_count[l]
      <3>1. bl_count[l] = Count({i \in Symbols : dl[i] = l})
        BY <1>1, <2>3 DEF LengthsMade
      <3> DEFINE All == {i \in Symbols : dl[i] = l}
                 S == Sooner(l)
                 at == n
      <3>2. at \in Symbols /\ at \notin S /\ at \in All /\ \A i \in Symbols : i \in S => i \in All
        BY <1>4, <2>2
      <3> HIDE DEF All, S, at
      <3>3. Count(S) + 1 <= Count(All)
        BY <3>2, CountStrict
      <3> QED BY <2>5, <3>1, <3>3 DEF All, S
    <2>10. u \in 0 .. Power2[l] - 1
      BY <1>1, <2>3, <2>5, <2>8, <2>9, CodeFits
    <2>11. ASSUME NEW b \in 1 .. MAX_BITS
           PROVE  next_code'[b] * Weight(b) = Taken(b) + Count(Later(b)) * Weight(b)
      <3>1. b \in 0 .. MAX_BITS
        OBVIOUS
      <3>2. Weight(b) \in Nat /\ Taken(b) \in Nat
        BY <1>1, <3>1, Weights, Takes
      <3> DEFINE S == Sooner(b)
                 R == Later(b)
                 at == n
                 w == Weight(b)
                 cs == Count(S)
      <3>3. \A i \in Symbols : i # at => (i \in S <=> i \in R)
        BY <1>4, <1>6
      <3>4. at \in Symbols /\ at \notin S /\ (at \in R <=> b = l)
        BY <1>4, <2>2
      <3>5. CASE b = l
        <4>1. Count(R) = cs + 1 /\ cs \in Nat
          <5>1. at \in R
            BY <3>4, <3>5
          <5> HIDE DEF S, R, at
          <5> QED BY <3>3, <3>4, <5>1, CountOneMore, CountType
        <4>2. u * w = Taken(b) + cs * w /\ w \in Nat /\ next_code'[b] = u + 1
          BY <2>5, <2>6, <2>8, <3>2, <3>5
        <4> HIDE DEF w, cs, R
        <4>3. (u + 1) * w = u * w + w /\ (cs + 1) * w = cs * w + w /\ u * w \in Nat /\ cs * w \in Nat
          BY <2>3, <4>1, <4>2
        <4>4. next_code'[b] * w = Taken(b) + Count(R) * w
          BY <3>2, <4>1, <4>2, <4>3
        <4> QED BY <4>4 DEF w, R
      <3>6. CASE b # l
        <4>1. Count(R) = Count(S)
          <5> HIDE DEF S, R, at
          <5> QED BY <3>3, <3>4, <3>6, CountSame
        <4>2. next_code'[b] = next_code[b]
          BY <2>6, <3>6
        <4> QED BY <1>5, <4>1, <4>2
      <3> QED BY <3>5, <3>6
    <2>12. CodesInv'
      <3>1. (\A b \in 1 .. MAX_BITS :
               next_code[b] * Weight(b) = Taken(b) + Count({i \in Symbols : i < n /\ dl[i] = b}) * Weight(b))'
        BY <1>2, <2>1, <2>11 DEF Taken, Weight, Count
      <3> QED BY <1>1, <1>2, <2>1, <3>1 DEF CodesInv
    <2>13. HandedOut'
      <3>1. ASSUME NEW i \in Symbols, i < n + 1, dl[i] # 0
            PROVE  \E v \in 0 .. Power2[dl[i]] - 1 :
                     /\ fc'[i] = Reversed[dl[i]][v]
                     /\ v * Weight(dl[i]) = Taken(dl[i]) + Before(i) * Weight(dl[i])
        <4>1. CASE i = n
          BY <2>6, <2>8, <2>10, <4>1
        <4>2. CASE i # n
          <5>1. i < n /\ fc'[i] = fc[i]
            BY <1>4, <1>6, <2>6, <3>1, <4>2
          <5> QED BY <1>1, <3>1, <5>1 DEF HandedOut
        <4> QED BY <4>1, <4>2
      <3> QED BY <1>2, <2>1, <3>1 DEF HandedOut, Before, Taken, Weight, Count
    <2> QED BY <1>1, <1>3, <2>1, <2>7, <2>12, <2>13 DEF IInv, CostInv, Building, Measuring
  <1>9. CASE n <= max_code /\ dl[n] = 0
    <2>1. n' = n + 1 /\ UNCHANGED <<fc, next_code, pc>>
      BY <1>4, <1>9 DEF AssignCode
    <2>2. TypeOK'
      <3>1. n' \in Nat
        BY <1>4, <2>1
      <3> QED BY <1>1, <1>2, <2>1, <3>1 DEF TypeOK
    <2>3. \A i \in Symbols : dl[i] # 0 => (i < n + 1 <=> i < n)
      BY <1>4, <1>6, <1>9
    <2>4. ASSUME NEW b \in 1 .. MAX_BITS
          PROVE  {i \in Symbols : i < n + 1 /\ dl[i] = b} = {i \in Symbols : i < n /\ dl[i] = b}
      <3>1. b # 0
        OBVIOUS
      <3> QED BY <2>3, <3>1
    <2>5. CodesInv'
      <3>1. \A b \in 1 .. MAX_BITS :
              next_code[b] * Weight(b) = Taken(b) + Count({i \in Symbols : i < n + 1 /\ dl[i] = b}) * Weight(b)
        BY <1>5, <2>4
      <3>2. (\A b \in 1 .. MAX_BITS :
               next_code[b] * Weight(b) = Taken(b) + Count({i \in Symbols : i < n /\ dl[i] = b}) * Weight(b))'
        BY <1>2, <2>1, <3>1 DEF Taken, Weight, Count
      <3> QED BY <1>1, <1>2, <2>1, <3>2 DEF CodesInv
    <2>6. HandedOut'
      BY <1>1, <1>2, <2>1, <2>3 DEF HandedOut, Before, Taken, Weight, Count
    <2> QED BY <1>1, <1>3, <2>1, <2>2, <2>5, <2>6 DEF IInv, CostInv, Building, Measuring
  <1>10. CASE ~(n <= max_code)
    <2>1. n > max_code /\ pc' = "done" /\ UNCHANGED <<fc, next_code, n>>
      BY <1>4, <1>10 DEF AssignCode
    <2>2. TypeOK'
      BY <1>1, <1>2, <2>1 DEF TypeOK
    <2>3. CodesInv'
      BY <1>1, <1>2, <2>1 DEF CodesInv, Taken, Weight, Count
    <2>4. HandedOut'
      BY <1>1, <1>2, <2>1 DEF HandedOut, Before, Taken, Weight, Count
    <2> QED BY <1>3, <2>1, <2>2, <2>3, <2>4 DEF IInv, CostInv, Building, Measuring
  <1> QED BY <1>8, <1>9, <1>10

\* The loop of build_tree goes on, or ends.
LEMMA JoinedInv == IInv /\ Joined => IInv'
  <1>1. IInv => heap_len \in Nat
    BY DEF IInv, TypeOK
  <1>2. IInv => heap_len >= 2 \/ heap_len < 2
    BY <1>1
  <1> QED BY <1>2, JoinedOn, JoinedEnd

\* A step that changes nothing keeps the invariant.
LEMMA StutterInv == IInv /\ UNCHANGED vars => IInv'
  <1> SUFFICES ASSUME IInv, UNCHANGED vars PROVE IInv'
    OBVIOUS
  <1>1. UNCHANGED <<freq, fc, dl, depth, heap, heap_len, heap_max, node, max_code, opt_len, stat_len,
                    bl_count, overflow, cut, next_code, code, n, h, k, bits, after, pc>>
    BY DEF vars, tree, queue, costs, counts, codes
  <1>2. (TypeOK => TypeOK') /\ (ForcedInv => ForcedInv') /\ (CountInv => CountInv') /\ (Placed => Placed')
        /\ (QueueInv => QueueInv') /\ (TreeInv => TreeInv')
    <2>1. Building' = Building /\ Measuring' = Measuring /\ Held' = Held
      BY <1>1 DEF Building, Measuring, Held
    <2>2. /\ Leaf' = Leaf /\ Forced' = Forced /\ Made' = Made /\ Joins' = Joins /\ Sorted' = Sorted
          /\ Queue' = Queue
      BY <1>1 DEF Leaf, Forced, Made, Joins, Sorted, Queue
    <2>3. Places' = Places
      BY <2>1, <2>2 DEF Places
    <2>4. TypeOK => TypeOK'
      BY <1>1 DEF TypeOK
    <2>5. (ForcedInv => ForcedInv') /\ (CountInv => CountInv')
      BY <1>1, <2>1, <2>2 DEF ForcedInv, CountInv, Count
    <2>6. (Placed => Placed') /\ (QueueInv => QueueInv') /\ (TreeInv => TreeInv')
      BY <1>1, <2>1, <2>2, <2>3 DEF Placed, QueueInv, TreeInv, Count, Father
    <2> QED BY <2>4, <2>5, <2>6
  <1>3. (LengthsInv => LengthsInv') /\ (OverflowInv => OverflowInv') /\ (ReassignInv => ReassignInv')
    <2>1. /\ Leaf' = Leaf /\ Joins' = Joins /\ Seen' = Seen /\ Given' = Given
      BY <1>1 DEF Leaf, Joins, Seen, Given
    <2>2. Open' = Open /\ OpenLong' = OpenLong /\ LeafAt' = LeafAt
      BY <1>1, <2>1 DEF Open, OpenLong, LeafAt, Father
    <2>3. InLimits => InLimits'
      BY <1>1 DEF InLimits
    <2> QED BY <1>1, <2>1, <2>2, <2>3 DEF LengthsInv, OverflowInv, ReassignInv, Space, Count, Father
  <1>4. CostInv => CostInv'
    BY <1>1 DEF CostInv, OptCost, StatCost, Measured, Building, Leaf, Forced, Seen, xbits
  <1>5. (LengthsMade => LengthsMade') /\ (FirstInv => FirstInv') /\ (CodesInv => CodesInv')
        /\ (HandedOut => HandedOut')
    BY <1>1 DEF LengthsMade, FirstInv, CodesInv, HandedOut, Before, Coded, Cost, Count, Taken, Weight
  <1> QED BY <1>1, <1>2, <1>3, <1>4, <1>5 DEF IInv, Building, Measuring

\* The invariant holds in every state of build_tree, gen_bitlen and gen_codes, for all
\* frequencies and every limit on lengths that leaves room for the symbols.
THEOREM Invariance == Spec => []IInv
  <1>1. Init => IInv
    BY InitInv
  <1>2. IInv /\ [Next]_vars => IInv'
    <2>1. IInv /\ build_tree => IInv'
      BY CountSymbolInv, ForceSymbolInv, HeapFilledInv, HeapifyInv, pqdownheapInv, pqremoveInv, JoinInv,
         JoinedInv DEF build_tree
    <2>2. IInv /\ gen_bitlen => IInv'
      BY AssignLengthInv, LengthsAssignedInv, FixOverflowInv, ReassignedInv, NextLengthInv DEF gen_bitlen
    <2>3. IInv /\ gen_codes => IInv'
      BY FirstCodeInv, AssignCodeInv DEF gen_codes
    <2>4. IInv /\ Ended => IInv'
      BY StutterInv DEF Ended
    <2> QED BY <2>1, <2>2, <2>3, <2>4, StutterInv DEF Next
  <1> QED BY <1>1, <1>2, PTL DEF Spec

\* Every node the heap names is one of the tree, the fathers build_tree makes have room in it,
\* and no position of the heap and no count of gen_bitlen goes below zero.
THEOREM TypeCorrect == Spec => []TypeOK
  <1>1. IInv => TypeOK
    BY DEF IInv
  <1> QED BY <1>1, Invariance, PTL

\* gen_codes' Assert "inconsistent bit counts" never fails: every symbol that occurs has a
\* code, no longer than the limit even where gen_bitlen had to cut lengths, and the codes
\* take all the space there is.
THEOREM CodesComplete == Spec => []CodeComplete
  <1>1. IInv => CodeComplete
    <2> SUFFICES ASSUME IInv, pc \in {"codes", "done"} PROVE CodeComplete
      BY DEF CodeComplete
    <2>1. LengthsMade /\ CodesInv
      BY DEF IInv
    <2> QED BY <2>1 DEF LengthsMade, CodesInv, CodeComplete, Coded
  <1> QED BY <1>1, Invariance, PTL

\* opt_len and static_len, which flush_block compares, are the bits of the symbols with either
\* code, also when build_tree forced symbols and when gen_bitlen changed lengths.
THEOREM CostsCounted == Spec => []CostCounted
  <1>1. IInv => CostCounted
    <2> SUFFICES ASSUME IInv, pc = "done" PROVE CostCounted
      BY DEF CostCounted
    <2>1. LengthsMade
      BY DEF IInv
    <2> QED BY <2>1 DEF LengthsMade, CostCounted
  <1> QED BY <1>1, Invariance, PTL

\* No code that gen_codes hands out is the beginning of another one, in the order in which
\* the bits are sent: what inflate reads is what was written.
THEOREM CodesPrefixFree == Spec => []PrefixFree
  <1>1. IInv => PrefixFree
    <2> SUFFICES ASSUME IInv, pc = "done",
                        NEW i \in Coded, NEW j \in Coded, i # j, dl[i] <= dl[j], fc[j] % Power2[dl[i]] = fc[i]
                 PROVE  FALSE
      BY DEF PrefixFree
    <2>1. TypeOK /\ LengthsMade /\ CodesInv /\ HandedOut
      BY DEF IInv
    <2>2. /\ i \in Symbols /\ j \in Symbols /\ dl[i] # 0 /\ dl[j] # 0 /\ i <= max_code /\ j <= max_code
          /\ i \in Int /\ j \in Int
      BY Sizes DEF Coded
    <2>3. dl[i] \in 1 .. MAX_BITS /\ dl[j] \in 1 .. MAX_BITS /\ dl[i] \in 0 .. MAX_BITS /\ dl[j] \in 0 .. MAX_BITS
      <3>1. dl[i] \in Nat /\ dl[j] \in Nat
        BY <2>1, <2>2, Sizes DEF TypeOK
      <3>2. dl[i] <= max_length /\ dl[j] <= max_length
        BY <2>1, <2>2 DEF LengthsMade
      <3> QED BY <2>2, <3>1, <3>2, Numbers
    <2>4. i < n /\ j < n
      BY <2>1, <2>2 DEF CodesInv, TypeOK
    <2> DEFINE Code(x, y) == /\ fc[x] = Reversed[dl[x]][y]
                             /\ y * Weight(dl[x]) = Taken(dl[x]) + Before(x) * Weight(dl[x])
    <2>5. PICK u \in 0 .. Power2[dl[i]] - 1 : Code(i, u)
      BY <2>1, <2>2, <2>4 DEF HandedOut
    <2>6. PICK v \in 0 .. Power2[dl[j]] - 1 : Code(j, v)
      BY <2>1, <2>2, <2>4 DEF HandedOut
    <2> DEFINE a == dl[i]
               b == dl[j]
    <2>7. PICK d \in Nat : d = b - a
      BY <2>3
    <2>8. a + d = b /\ a + d <= MAX_BITS /\ u \in Nat /\ v \in Nat
      BY <2>3, <2>7
    <2>9. u * Power2[d] <= v /\ v < (u + 1) * Power2[d]
      <3>1. v \in 0 .. Power2[a + d] - 1 /\ Reversed[a + d][v] % Power2[a] = Reversed[a][u]
        BY <2>5, <2>6, <2>8
      <3>2. a \in 0 .. MAX_BITS /\ u \in 0 .. Power2[a] - 1
        BY <2>3, <2>5
      <3> HIDE DEF a, b
      <3> QED BY <2>8, <3>1, <3>2, ReversedBeginning
    <2>10. /\ Before(i) \in Nat /\ Before(j) \in Nat
      BY CountType DEF Before
    <2>11. Before(i) + 1 <= bl_count[a]
      <3>1. bl_count[a] = Count({x \in Symbols : dl[x] = a})
        BY <2>1, <2>3 DEF LengthsMade
      <3> DEFINE All == {x \in Symbols : dl[x] = a}
                 S == {x \in Symbols : x < i /\ dl[x] = a}
      <3>2. i \notin S /\ i \in All /\ \A x \in Symbols : x \in S => x \in All
        BY <2>2
      <3>3. Before(i) = Count(S)
        BY DEF Before
      <3> HIDE DEF All, S
      <3>4. Count(S) + 1 <= Count(All)
        BY <2>2, <3>2, CountStrict
      <3> QED BY <3>1, <3>3, <3>4 DEF All
    <2>12. CASE a = b
      <3>1. d = 0 /\ Power2[0] = 1
        BY <2>3, <2>7, <2>12, Powers
      <3>2. u = v
        BY <2>8, <2>9, <3>1
      <3>3. Before(i) = Before(j)
        <4> DEFINE w == Weight(a)
                   ci == Before(i)
                   cj == Before(j)
        <4>1. w \in Nat \ {0} /\ Taken(a) \in Nat
          BY <2>1, <2>3, Weights, Takes
        <4>2. u * w = Taken(a) + ci * w /\ u * w = Taken(a) + cj * w
          BY <2>5, <2>6, <2>12, <3>2
        <4>3. ci \in Nat /\ cj \in Nat
          BY <2>10
        <4> HIDE DEF w, ci, cj, a
        <4>4. ci * w = cj * w
          <5>1. ci * w \in Nat /\ cj * w \in Nat /\ u * w \in Nat
            BY <2>8, <4>1, <4>3
          <5> QED BY <4>1, <4>2, <5>1
        <4>5. ci = cj
          BY <4>1, <4>3, <4>4
        <4> QED BY <4>5 DEF ci, cj
      <3>4. ASSUME NEW x \in Symbols, NEW y \in Symbols, x < y, dl[x] = a, dl[y] = a PROVE Before(x) + 1 <= Before(y)
        <4> DEFINE S == {z \in Symbols : z < x /\ dl[z] = a}
                   R == {z \in Symbols : z < y /\ dl[z] = a}
        <4>1. x \notin S /\ x \in R /\ \A z \in Symbols : z \in S => z \in R
          BY <3>4, Sizes
        <4>2. Before(x) = Count(S) /\ Before(y) = Count(R)
          BY <3>4 DEF Before
        <4> HIDE DEF S, R
        <4> QED BY <4>1, <4>2, CountStrict
      <3> QED BY <2>2, <2>10, <2>12, <3>3, <3>4
    <2>13. CASE a # b
      <3>1. a < b
        BY <2>3, <2>13
      <3> DEFINE w == Weight(b)
                 wa == Weight(a)
                 p == Power2[d]
                 cj == Before(j)
      <3>2. w \in Nat \ {0} /\ p \in Nat \ {0} /\ wa = p * w
        <4>1. PICK e \in Nat : e = MAX_BITS - b
          BY <2>3, Numbers
        <4>2. MAX_BITS - a = d + e /\ d + e <= MAX_BITS
          BY <2>3, <2>7, <4>1, Numbers
        <4>3. Power2[d + e] = Power2[d] * Power2[e] /\ Power2[d] \in Nat \ {0} /\ Power2[e] \in Nat \ {0}
          BY <4>2, PowersMultiply
        <4> QED BY <4>1, <4>2, <4>3 DEF Weight
      <3>3. (u + 1) * wa <= Taken(a + 1)
        BY <2>1, <2>3, <2>5, <2>8, <2>10, <2>11, CodeFits
      <3>4. Taken(a + 1) <= Taken(b) /\ Taken(b) \in Nat /\ Taken(a + 1) \in Nat
        <4>1. b \in 0 .. MAX_BITS + 1
          BY <2>3, Numbers
        <4> QED BY <2>1, <2>3, <3>1, <4>1, Takes
      <3>5. v * w = Taken(b) + cj * w /\ cj \in Nat
        BY <2>6, <2>10
      <3>6. v < (u + 1) * p
        BY <2>9
      <3> HIDE DEF w, wa, p, cj, a, b
      <3>7. v * w < ((u + 1) * p) * w /\ ((u + 1) * p) * w = (u + 1) * (p * w) /\ cj * w \in Nat /\ v * w \in Nat
        BY <2>8, <3>2, <3>5, <3>6
      <3> QED BY <2>8, <3>2, <3>3, <3>4, <3>5, <3>7
    <2> QED BY <2>12, <2>13
  <1> QED BY <1>1, Invariance, PTL

-----------------------------------------------------------------------------
(* Why the code is optimal                                                  *)

\* The fathers of the queue from Low on are no more frequent than their sons; the element
\* that goes down may be, but not its own father than its sons.
Low == IF pc = "heapify" \/ (pc = "sift" /\ after = "heapify") THEN n + 1 ELSE 1
OrderInv ==
    /\ pc = "sift" => k >= Low
    /\ \A q \in 2 .. heap_len :
         q \div 2 >= Low /\ ~(pc = "sift" /\ q \div 2 = k) => fc[heap[q \div 2]] <= fc[heap[q]]
    /\ pc = "sift" =>
         \A q \in 2 .. heap_len : q \div 2 = k /\ k \div 2 >= Low => fc[heap[k \div 2]] <= fc[heap[q]]
    /\ Held => \A q \in Queue : fc[n] <= fc[heap[q]]

\* A father is as frequent as its sons together.
SonsInv ==
    \A i \in 0 .. Joins - 1 :
      fc[elems + i] = fc[heap[HEAP_SIZE - 1 - 2 * i]] + fc[heap[HEAP_SIZE - 2 - 2 * i]]

\* Lengths of the nodes in S, the space their codes take and the bits of all their
\* occurrences.
Lengths == [Nodes -> 0 .. MAX_BITS]
SpaceAt(S, len) == [x \in Nodes |-> IF x \in S THEN Weight(len[x]) ELSE 0]
SpaceOf(S, len) == Total(SpaceAt(S, len), 2 * elems - 1)
BitsAt(S, len) == [x \in Nodes |-> IF x \in S THEN fc[x] * len[x] ELSE 0]
BitsOf(S, len) == Total(BitsAt(S, len), 2 * elems - 1)
Fits(S, len) == SpaceOf(S, len) <= Power2[MAX_BITS]

\* The nodes without a father.
Roots == {heap[q] : q \in Queue} \cup (IF Held THEN {n} ELSE {})
FatherAt == [x \in Nodes |-> IF x \in Made THEN fc[x] ELSE 0]
Fathers == Total(FatherAt, 2 * elems - 1)

\* Whatever the lengths of the leaves, there are lengths of the nodes without a father that
\* make no longer a text, with one bit for each father an occurrence has.
RootsInv ==
    \A len \in Lengths : Fits(Leaf, len) =>
      \E l \in Lengths : Fits(Roots, l) /\ BitsOf(Roots, l) + Fathers <= BitsOf(Leaf, len)
BestInv == \A len \in Lengths : Fits(Leaf, len) => Fathers <= BitsOf(Leaf, len)

\* The bits of the leaves that have their lengths, less one for each father, and those of
\* the nodes that are next.
Spent == [x \in Nodes |-> IF x \in Seen THEN IF x \in Leaf THEN fc[x] * dl[x] ELSE -fc[x] ELSE 0]
Reached == [j \in 0 .. HEAP_SIZE - 1 |->
                IF j >= h /\ Father(j) \in Seen THEN fc[heap[j]] * (dl[Father(j)] + 1) ELSE 0]
ScanInv == Total(Spent, 2 * elems - 1) + Total(Reached, HEAP_SIZE) = 0

Optimal ==
    \A len \in [Coded -> 1 .. MAX_BITS] : Kraft(Coded, len) => Length(Coded, dl) <= Length(Coded, len)

OInv ==
    /\ Building => OrderInv /\ SonsInv /\ RootsInv
    /\ pc = "lengths" => SonsInv /\ BestInv /\ (overflow = 0 => ScanInv)
    /\ pc \in {"overflow", "reassign"} => cut
    /\ pc \in {"first", "codes", "done"} /\ ~cut => Optimal

-----------------------------------------------------------------------------
(* Optimality: the queue is a heap                                          *)

\* The father of a place of the queue, and its sons.
LEMMA HalfFacts ==
    ASSUME NEW q \in Nat, q >= 2
    PROVE  /\ q \div 2 \in Nat /\ q \div 2 >= 1 /\ q \div 2 < q
           /\ q = 2 * (q \div 2) \/ q = 2 * (q \div 2) + 1
  OBVIOUS

\* The places of the sons of a place of the queue.
LEMMA SonsOf ==
    ASSUME NEW p \in Nat, p >= 1
    PROVE  (2 * p) \div 2 = p /\ (2 * p + 1) \div 2 = p /\ p \div 2 \in Nat /\ p \div 2 < p
  OBVIOUS

\* With all fathers no more frequent than their sons, the one on top is the least frequent.
LEMMA TopIsLeast ==
    ASSUME NEW to \in Nat, NEW v, \A q \in 1 .. to : v[q] \in Nat,
           \A q \in 2 .. to : v[q \div 2] <= v[q]
    PROVE  \A q \in 1 .. to : v[1] <= v[q]
  <1> DEFINE T == {q \in 1 .. to : ~(v[1] <= v[q])}
  <1> SUFFICES ASSUME T # {} PROVE FALSE
    OBVIOUS
  <1>1. PICK q \in T : \A r \in T : q <= r
    <2>1. T \subseteq Nat
      OBVIOUS
    <2> QED BY <2>1, Least
  <1>2. q \in 1 .. to /\ ~(v[1] <= v[q]) /\ q \in Nat
    BY <1>1
  <1>3. q # 1 /\ q >= 2 /\ q \in 2 .. to /\ 1 \in 1 .. to
    BY <1>2
  <1>4. q \div 2 \in Nat /\ q \div 2 >= 1 /\ q \div 2 < q
    BY <1>2, <1>3, HalfFacts
  <1>5. q \div 2 \in 1 .. to /\ q \div 2 \notin T
    BY <1>1, <1>2, <1>4
  <1>6. v[1] <= v[q \div 2] /\ v[q \div 2] <= v[q]
    BY <1>3, <1>5
  <1> QED BY <1>2, <1>3, <1>5, <1>6

\* The places of the queue have nodes with frequencies.
LEMMA QueueTypes ==
    ASSUME TypeOK, Placed, QueueInv, Building
    PROVE  /\ \A q \in Queue : /\ q \in 0 .. HEAP_SIZE - 1 /\ q \in Nat /\ q >= 1 /\ q <= heap_len
                               /\ heap[q] \in Nodes /\ heap[q] \in Leaf \cup Made /\ fc[heap[q]] \in Nat
           /\ \A q \in Nat : q >= 1 /\ q <= heap_len => q \in Queue
           /\ heap_len \in Nat
  <1>1. heap_len \in Nat /\ heap \in [0 .. HEAP_SIZE - 1 -> Nodes] /\ fc \in [Nodes -> Nat]
    BY DEF TypeOK
  <1>2. \A q \in Queue : q \in 1 .. HEAP_SIZE - 1 /\ q \in Nat /\ q >= 1 /\ q <= heap_len
    BY <1>1, Room DEF Queue
  <1>3. \A q \in Queue : heap[q] \in Leaf \cup Made
    BY DEF Placed, Places
  <1>4. \A q \in Queue : q \in 0 .. HEAP_SIZE - 1
    BY <1>2, Numbers
  <1> QED BY <1>1, <1>2, <1>3, <1>4 DEF Queue

\* Outside pqdownheap the whole queue is in order.
LEMMA OrderedAll ==
    ASSUME TypeOK, Placed, QueueInv, Building, OrderInv, Low = 1, pc # "sift"
    PROVE  /\ \A q \in 2 .. heap_len : fc[heap[q \div 2]] <= fc[heap[q]]
           /\ \A q \in 1 .. heap_len : fc[heap[1]] <= fc[heap[q]]
  <1>3. /\ \A q \in Queue : /\ q \in 0 .. HEAP_SIZE - 1 /\ q \in Nat /\ q >= 1 /\ q <= heap_len
                            /\ heap[q] \in Nodes /\ fc[heap[q]] \in Nat
        /\ \A q \in Nat : q >= 1 /\ q <= heap_len => q \in Queue
        /\ heap_len \in Nat /\ heap_len >= 1
    BY QueueTypes DEF QueueInv
  <1>4. \A q \in 2 .. heap_len : fc[heap[q \div 2]] <= fc[heap[q]]
    <2>1. \A q \in 2 .. heap_len : q \div 2 >= 1
      BY HalfFacts
    <2> QED BY <2>1 DEF OrderInv
  <1>5. \A q \in 1 .. heap_len : fc[heap[1]] <= fc[heap[q]]
    <2> DEFINE v == [q \in 1 .. heap_len |-> fc[heap[q]]]
    <2>1. \A q \in 1 .. heap_len : v[q] \in Nat /\ v[q] = fc[heap[q]]
      BY <1>3 DEF Queue
    <2>2. \A q \in 2 .. heap_len : v[q \div 2] <= v[q]
      <3>1. ASSUME NEW q \in 2 .. heap_len PROVE v[q \div 2] <= v[q]
        <4>1. q \div 2 \in Nat /\ q \div 2 >= 1 /\ q \div 2 < q /\ q \in Nat /\ q <= heap_len
          BY <1>3, HalfFacts
        <4>2. q \div 2 \in 1 .. heap_len /\ q \in 1 .. heap_len
          BY <1>3, <4>1
        <4> QED BY <1>4, <2>1, <4>2
      <3> QED BY <3>1
    <2>3. 1 \in 1 .. heap_len
      BY <1>3
    <2> HIDE DEF v
    <2>4. \A q \in 1 .. heap_len : v[1] <= v[q]
      BY <1>3, <2>1, <2>2, TopIsLeast
    <2> QED BY <2>1, <2>3, <2>4
  <1> QED BY <1>4, <1>5

\* Of a queue no father is in order yet.
LEMMA HeapFilledOrder == ASSUME IInv, HeapFilled PROVE OrderInv'
  <1>1. TypeOK /\ pc' = "heapify" /\ n' = heap_len \div 2 /\ heap_len' = heap_len /\ heap_len >= 2
    BY DEF IInv, HeapFilled, queue
  <1>2. heap_len \in Nat /\ heap_len \div 2 \in Nat
    BY <1>1, HalfFacts DEF TypeOK
  <1>3. Low' = heap_len \div 2 + 1
    BY <1>1 DEF Low
  <1>4. \A q \in 2 .. heap_len : ~(q \div 2 >= heap_len \div 2 + 1)
    BY <1>2
  <1> QED BY <1>1, <1>3, <1>4 DEF OrderInv, Held

\* The heap order from n on, before pqdownheap and after it.
LEMMA HeapifyOrder == ASSUME IInv, OrderInv, Heapify PROVE OrderInv'
  <1>1. TypeOK /\ pc = "heapify" /\ n \in Nat
    BY DEF IInv, Heapify, TypeOK
  <1>2. UNCHANGED <<fc, heap, heap_len>>
    BY DEF Heapify, tree, queue
  <1>3. Low = n + 1 /\ (\A q \in 2 .. heap_len : q \div 2 >= n + 1 => fc[heap[q \div 2]] <= fc[heap[q]])
    BY <1>1 DEF OrderInv, Low
  <1>4. CASE n >= 1 /\ k' = n /\ after' = "heapify" /\ pc' = "sift" /\ n' = n - 1
    <2>1. Low' = n /\ ~Held'
      BY <1>1, <1>4 DEF Low, Held
    <2>2. n \div 2 \in Nat /\ n \div 2 < n
      BY <1>1, <1>4, SonsOf
    <2>3. \A q \in 2 .. heap_len : q \div 2 \in Nat
      BY HalfFacts
    <2>4. \A q \in 2 .. heap_len : q \div 2 >= n /\ q \div 2 # n => q \div 2 >= n + 1
      BY <1>1, <2>3
    <2>5. \A q \in 2 .. heap_len : q \div 2 >= n /\ q \div 2 # n => fc[heap[q \div 2]] <= fc[heap[q]]
      BY <1>3, <2>4
    <2>6. n >= n /\ ~(n \div 2 >= n)
      BY <1>1, <2>2
    <2> QED BY <1>2, <1>4, <2>1, <2>5, <2>6 DEF OrderInv
  <1>5. CASE n = 0 /\ pc' = "remove" /\ UNCHANGED <<n, k, after>>
    <2>1. Low' = 1 /\ ~Held' /\ n + 1 = 1
      BY <1>1, <1>5 DEF Low, Held
    <2> QED BY <1>2, <1>3, <1>5, <2>1 DEF OrderInv
  <1> QED BY <1>4, <1>5 DEF Heapify, Sift

\* A turn of pqdownheap: the smaller son goes up, and the father it gets is not more frequent.
LEMMA SiftOrder == ASSUME IInv, OrderInv, pqdownheap PROVE OrderInv'
  <1>1. TypeOK /\ Placed /\ QueueInv /\ pc = "sift" /\ Building
    BY DEF IInv, pqdownheap, Building
  <1>2. UNCHANGED <<fc, heap_len, n, after, depth>>
    BY DEF pqdownheap, tree
  <1>3. /\ \A q \in Queue : /\ q \in 0 .. HEAP_SIZE - 1 /\ q \in Nat /\ q >= 1 /\ q <= heap_len
                            /\ heap[q] \in Nodes /\ fc[heap[q]] \in Nat
        /\ \A q \in Nat : q >= 1 /\ q <= heap_len => q \in Queue
        /\ heap_len \in Nat
    BY <1>1, QueueTypes
  <1>4. after \in {"heapify", "join", "joined"} /\ heap \in [0 .. HEAP_SIZE - 1 -> Nodes] /\ k \in Nat
        /\ k >= 1 /\ n \in Nat
    BY <1>1 DEF TypeOK
  <1> DEFINE v(q) == fc[heap[q]]
  <1>5. /\ k >= Low
        /\ \A q \in 2 .. heap_len : q \div 2 >= Low /\ q \div 2 # k => v(q \div 2) <= v(q)
        /\ \A q \in 2 .. heap_len : q \div 2 = k /\ k \div 2 >= Low => v(k \div 2) <= v(q)
        /\ Held => \A q \in Queue : fc[n] <= v(q)
    BY <1>1 DEF OrderInv
  <1>6. Low \in Nat /\ Low >= 1
    BY <1>4 DEF Low
  <1>7. Son \in Nat /\ (Son = 2 * k \/ (Son = 2 * k + 1 /\ 2 * k < heap_len)) /\ Son > k
    BY <1>4 DEF Son
  <1>8. ASSUME 2 * k <= heap_len
        PROVE  /\ k \in Queue /\ Son \in Queue /\ Son \in 2 .. heap_len /\ Son \div 2 = k
               /\ \A q \in 2 .. heap_len : q \div 2 = k => v(Son) <= v(q)
    <2>1. k \in Queue /\ Son \in Queue /\ Son \in 2 .. heap_len
      BY <1>3, <1>4, <1>7, <1>8
    <2>2. Son \div 2 = k
      BY <1>4, <1>7, SonsOf
    <2>3. ASSUME NEW q \in 2 .. heap_len, q \div 2 = k PROVE v(Son) <= v(q)
      <3>1. q = 2 * k \/ q = 2 * k + 1
        BY <2>3, HalfFacts
      <3>2. q \in Queue /\ 2 * k \in Queue
        BY <1>3, <1>4, <1>8
      <3>3. v(q) \in Nat /\ v(2 * k) \in Nat
        BY <1>3, <3>2
      <3>4. CASE q = Son
        BY <3>3, <3>4
      <3>5. CASE q # Son /\ q = 2 * k
        <4>1. smaller(heap[2 * k + 1], heap[2 * k]) /\ Son = 2 * k + 1
          BY <1>4, <3>5 DEF Son
        <4>2. v(Son) \in Nat
          BY <1>3, <2>1
        <4> QED BY <3>3, <3>5, <4>1, <4>2 DEF smaller
      <3>6. CASE q # Son /\ q = 2 * k + 1
        <4>1. Son = 2 * k /\ 2 * k < heap_len
          BY <1>4, <1>7, <3>6, <2>3, <1>3
        <4>2. ~smaller(heap[2 * k + 1], heap[2 * k])
          BY <4>1, <1>4 DEF Son
        <4> QED BY <3>3, <3>6, <4>1, <4>2 DEF smaller
      <3> QED BY <3>1, <3>4, <3>5, <3>6
    <2> QED BY <2>1, <2>2, <2>3
  <1>9. CASE (2 * k > heap_len \/ smaller(heap[k], heap[Son])) /\ pc' = after /\ UNCHANGED <<heap, k>>
    <2>1. Low' = Low /\ pc' # "sift" /\ (Held' <=> Held) /\ Queue' = Queue
      BY <1>1, <1>2, <1>4, <1>9 DEF Low, Held, Queue
    <2>2. ASSUME NEW q \in 2 .. heap_len, q \div 2 = k PROVE v(k) <= v(q)
      <3>1. q = 2 * k \/ q = 2 * k + 1
        BY <2>2, HalfFacts
      <3>2. 2 * k <= heap_len
        BY <1>3, <1>4, <3>1
      <3>3. smaller(heap[k], heap[Son]) /\ v(Son) <= v(q) /\ k \in Queue /\ Son \in Queue /\ q \in Queue
        BY <1>3, <1>4, <1>8, <1>9, <2>2, <3>2
      <3>4. v(k) \in Nat /\ v(Son) \in Nat /\ v(q) \in Nat
        BY <1>3, <3>3
      <3>5. v(k) <= v(Son)
        BY <3>3, <3>4 DEF smaller
      <3> QED BY <3>3, <3>4, <3>5
    <2>3. \A q \in 2 .. heap_len : q \div 2 >= Low => v(q \div 2) <= v(q)
      BY <1>5, <2>2
    <2> QED BY <1>2, <1>5, <1>9, <2>1, <2>3 DEF OrderInv
  <1>10. CASE /\ 2 * k <= heap_len /\ ~smaller(heap[k], heap[Son]) /\ pc' = pc /\ k' = Son
              /\ heap' = [heap EXCEPT ![k] = heap[Son], ![Son] = heap[k]]
    <2>1. /\ k \in Queue /\ Son \in Queue /\ Son \in 2 .. heap_len /\ Son \div 2 = k
          /\ \A q \in 2 .. heap_len : q \div 2 = k => v(Son) <= v(q)
      BY <1>8, <1>10
    <2>2. Low' = Low /\ pc' = "sift" /\ (Held' <=> Held) /\ Queue' = Queue
      BY <1>1, <1>2, <1>10 DEF Low, Held, Queue
    <2>3. k \in 0 .. HEAP_SIZE - 1 /\ Son \in 0 .. HEAP_SIZE - 1 /\ Son # k
      BY <1>3, <1>4, <1>7, <2>1
    <2>4. /\ heap'[k] = heap[Son] /\ heap'[Son] = heap[k]
          /\ \A q \in 0 .. HEAP_SIZE - 1 : q # k /\ q # Son => heap'[q] = heap[q]
      BY <1>4, <1>10, <2>3
    <2>5. v(Son) <= v(k)
      <3>1. v(k) \in Nat /\ v(Son) \in Nat
        BY <1>3, <2>1
      <3> QED BY <1>10, <3>1 DEF smaller
    <2> DEFINE w(q) == fc[heap'[q]]
    <2>6. w(k) = v(Son) /\ w(Son) = v(k) /\ \A q \in Queue : q # k /\ q # Son => w(q) = v(q)
      BY <1>3, <2>4
    <2>7. \A q \in 2 .. heap_len : q \in Queue /\ q \div 2 \in Queue /\ q \div 2 < q
      <3>1. ASSUME NEW q \in 2 .. heap_len PROVE q \in Queue /\ q \div 2 \in Queue /\ q \div 2 < q
        <4>1. q \in Nat /\ q \div 2 \in Nat /\ q \div 2 >= 1 /\ q \div 2 < q /\ q <= heap_len /\ q >= 1
          BY <1>3, HalfFacts
        <4>2. q \div 2 <= heap_len
          BY <1>3, <4>1
        <4> QED BY <1>3, <4>1, <4>2
      <3> QED BY <3>1
    <2>8. ASSUME NEW q \in 2 .. heap_len, q \div 2 >= Low, q \div 2 # Son PROVE w(q \div 2) <= w(q)
      <3>1. q \in Queue /\ q \div 2 \in Queue
        BY <2>7
      <3>2. CASE q \div 2 = k
        <4>1. q # k
          BY <2>7, <3>2
        <4>2. CASE q = Son
          BY <2>5, <2>6, <3>2, <4>2
        <4>3. CASE q # Son
          BY <2>1, <2>6, <3>1, <3>2, <4>1, <4>3
        <4> QED BY <4>2, <4>3
      <3>3. CASE q \div 2 # k /\ q = k
        <4>1. w(q) = v(Son) /\ w(q \div 2) = v(k \div 2)
          BY <2>6, <2>8, <3>1, <3>3
        <4> QED BY <1>5, <2>1, <2>8, <3>3, <4>1
      <3>4. CASE q \div 2 # k /\ q # k
        <4>1. q # Son
          BY <2>1, <3>4
        <4>2. w(q) = v(q) /\ w(q \div 2) = v(q \div 2)
          BY <2>6, <2>8, <3>1, <3>4, <4>1
        <4> QED BY <1>5, <2>8, <3>4, <4>2
      <3> QED BY <3>2, <3>3, <3>4
    <2>9. ASSUME NEW q \in 2 .. heap_len, q \div 2 = Son PROVE w(Son \div 2) <= w(q)
      <3>1. q \in Queue /\ q # Son /\ q # k
        <4>1. q \in Queue /\ q \div 2 < q
          BY <2>7
        <4> QED BY <1>3, <1>4, <1>7, <2>9, <4>1
      <3>2. w(q) = v(q) /\ w(Son \div 2) = v(Son)
        BY <2>1, <2>6, <3>1
      <3>3. q \div 2 >= Low /\ q \div 2 # k
        BY <1>4, <1>5, <1>6, <1>7, <2>9
      <3> QED BY <1>5, <2>9, <3>2, <3>3
    <2>10. Held => \A q \in Queue : fc[n] <= w(q)
      BY <1>5, <2>1, <2>6
    <2>11. Son >= Low
      BY <1>4, <1>5, <1>6, <1>7
    <2> QED BY <1>2, <1>10, <2>2, <2>8, <2>9, <2>10, <2>11 DEF OrderInv
  <1> QED BY <1>9, <1>10 DEF pqdownheap

\* The node taken is the least frequent one.
LEMMA pqremoveOrder == ASSUME IInv, OrderInv, pqremove PROVE OrderInv'
  <1>1. TypeOK /\ Placed /\ QueueInv /\ pc = "remove" /\ Building /\ ~Held
    BY DEF IInv, pqremove, Building, Held
  <1>2. /\ n' = heap[1] /\ heap' = [heap EXCEPT ![1] = heap[heap_len]] /\ heap_len' = heap_len - 1
        /\ k' = 1 /\ after' = "join" /\ pc' = "sift" /\ fc' = fc
    BY DEF pqremove, Sift, SMALLEST, tree
  <1>3. /\ \A q \in Queue : /\ q \in 0 .. HEAP_SIZE - 1 /\ q \in Nat /\ q >= 1 /\ q <= heap_len
                            /\ heap[q] \in Nodes /\ fc[heap[q]] \in Nat
        /\ \A q \in Nat : q >= 1 /\ q <= heap_len => q \in Queue
        /\ heap_len \in Nat /\ heap_len >= 2 /\ heap \in [0 .. HEAP_SIZE - 1 -> Nodes]
    BY <1>1, QueueTypes DEF QueueInv, TypeOK
  <1>4. \A q \in 2 .. heap_len : fc[heap[q \div 2]] <= fc[heap[q]]
    BY <1>1, OrderedAll DEF Low
  <1>5. \A q \in 1 .. heap_len : fc[heap[1]] <= fc[heap[q]]
    BY <1>1, OrderedAll DEF Low
  <1>6. Low' = 1 /\ Held'
    BY <1>2 DEF Low, Held
  <1>7. \A q \in 0 .. HEAP_SIZE - 1 : heap'[q] = IF q = 1 THEN heap[heap_len] ELSE heap[q]
    BY <1>2, <1>3
  <1>8. ASSUME NEW q \in 2 .. heap_len', q \div 2 # 1 PROVE fc[heap'[q \div 2]] <= fc[heap'[q]]
    <2>1. q \in 2 .. heap_len /\ q \div 2 \in Nat /\ q \div 2 >= 1 /\ q \div 2 < q /\ q \in Nat
      BY <1>2, <1>3, <1>8, HalfFacts
    <2>2. q \in Queue /\ q \div 2 \in Queue /\ q # 1
      BY <1>3, <2>1
    <2> QED BY <1>3, <1>4, <1>7, <1>8, <2>1, <2>2
  <1>9. ASSUME NEW q \in Queue' PROVE fc[n'] <= fc[heap'[q]]
    <2>1. q \in 1 .. heap_len /\ q \in Queue /\ heap_len \in 1 .. heap_len
      BY <1>2, <1>3 DEF Queue
    <2> QED BY <1>2, <1>3, <1>5, <1>7, <2>1
  <1>10. 1 \div 2 = 0
    OBVIOUS
  <1> QED BY <1>2, <1>6, <1>8, <1>9, <1>10 DEF OrderInv

\* The second node taken was the least frequent one of the rest.
LEMMA JoinOrder == ASSUME IInv, OrderInv, Join PROVE OrderInv'
  <1>1. TypeOK /\ Placed /\ QueueInv /\ pc = "join" /\ Building /\ Held
    BY DEF IInv, Join, Building, Held
  <1>2. /\ heap' = [heap EXCEPT ![heap_max - 1] = n, ![heap_max - 2] = heap[1], ![1] = node]
        /\ fc' = [fc EXCEPT ![node] = fc[n] + fc[heap[1]]]
        /\ heap_len' = heap_len /\ k' = 1 /\ after' = "joined" /\ pc' = "sift"
    BY DEF Join, Sift, SMALLEST
  <1>3. /\ \A q \in Queue : /\ q \in 0 .. HEAP_SIZE - 1 /\ q \in Nat /\ q >= 1 /\ q <= heap_len
                            /\ heap[q] \in Nodes /\ heap[q] \in Leaf \cup Made /\ fc[heap[q]] \in Nat
        /\ \A q \in Nat : q >= 1 /\ q <= heap_len => q \in Queue
        /\ heap_len \in Nat /\ heap \in [0 .. HEAP_SIZE - 1 -> Nodes] /\ fc \in [Nodes -> Nat]
    BY <1>1, QueueTypes DEF TypeOK
  <1>4. heap_max \in Nat /\ heap_len + 2 < heap_max /\ node \in Nat
    BY <1>1, Room, Numbers DEF TypeOK
  <1>5. \A q \in Queue : heap[q] # node
    <2>1. \A x \in Leaf \cup Made : x # node
      BY <1>1, Numbers DEF Leaf, Made, Symbols, TypeOK
    <2> QED BY <1>3, <2>1
  <1>6. \A q \in Queue : q # 1 => heap'[q] = heap[q] /\ fc'[heap'[q]] = fc[heap[q]]
    <2>1. \A q \in Queue : q # heap_max - 1 /\ q # heap_max - 2
      BY <1>3, <1>4
    <2>2. \A q \in Queue : q # 1 => heap'[q] = heap[q]
      BY <1>2, <1>3, <2>1
    <2> QED BY <1>2, <1>3, <1>5, <2>2
  <1>7. Low' = 1 /\ Low = 1 /\ ~Held'
    BY <1>1, <1>2 DEF Low, Held
  <1>8. ASSUME NEW q \in 2 .. heap_len, q \div 2 # 1 PROVE fc'[heap'[q \div 2]] <= fc'[heap'[q]]
    <2>1. q \div 2 \in Nat /\ q \div 2 >= 1 /\ q \div 2 < q /\ q \in Nat /\ q <= heap_len
      BY <1>3, <1>8, HalfFacts
    <2>2. q \in Queue /\ q \div 2 \in Queue /\ q # 1
      BY <1>3, <2>1
    <2>3. fc[heap[q \div 2]] <= fc[heap[q]]
      BY <1>1, <1>7, <2>1 DEF OrderInv
    <2> QED BY <1>6, <1>8, <2>2, <2>3
  <1>9. 1 \div 2 = 0
    OBVIOUS
  <1>10. \A q \in 2 .. heap_len' : q \div 2 >= Low' /\ ~(pc' = "sift" /\ q \div 2 = k')
                                     => fc'[heap'[q \div 2]] <= fc'[heap'[q]]
    BY <1>2, <1>8
  <1>11. k' >= Low' /\ ~(k' \div 2 >= Low')
    BY <1>2, <1>7, <1>9
  <1> QED BY <1>7, <1>10, <1>11 DEF OrderInv

\* The heap is in order when the loop goes on.
LEMMA JoinedOrder == ASSUME IInv, OrderInv, Joined, Building' PROVE OrderInv'
  <1>1. pc = "joined" /\ pc' = "remove" /\ UNCHANGED <<fc, heap, heap_len, n>>
    BY DEF Joined, Building
  <1>2. Low' = 1 /\ Low = 1 /\ ~Held'
    BY <1>1 DEF Low, Held
  <1> QED BY <1>1, <1>2 DEF OrderInv

-----------------------------------------------------------------------------
(* Optimality: fathers and sons                                             *)

\* The places of the sons of the fathers made.
LEMMA SonPlaces ==
    ASSUME TypeOK, NEW i \in 0 .. Joins - 1, heap_max <= HEAP_SIZE - 2 * Joins, heap_max \in Nat
    PROVE  /\ i \in Nat /\ Joins \in Nat /\ elems + i \in Made /\ elems + i \in Nodes
           /\ HEAP_SIZE - 1 - 2 * i \in Sorted /\ HEAP_SIZE - 2 - 2 * i \in Sorted
           /\ HEAP_SIZE - 1 - 2 * i >= HEAP_SIZE - 2 * Joins /\ HEAP_SIZE - 2 - 2 * i >= HEAP_SIZE - 2 * Joins
  <1>1. node \in Nat /\ node >= elems /\ node <= 2 * elems - 1 /\ Joins = node - elems /\ Joins \in Nat
    BY Numbers DEF TypeOK, Joins
  <1>2. i \in Nat /\ i <= Joins - 1
    BY <1>1
  <1>3. elems + i \in Made /\ elems + i \in Nodes
    BY <1>1, <1>2, Numbers DEF Made, Nodes
  <1>4. /\ HEAP_SIZE - 1 - 2 * i >= HEAP_SIZE - 2 * Joins /\ HEAP_SIZE - 2 - 2 * i >= HEAP_SIZE - 2 * Joins
        /\ HEAP_SIZE - 1 - 2 * i <= HEAP_SIZE - 1 /\ HEAP_SIZE - 2 - 2 * i <= HEAP_SIZE - 1
    BY <1>1, <1>2, Numbers
  <1>5. HEAP_SIZE - 1 - 2 * i \in Sorted /\ HEAP_SIZE - 2 - 2 * i \in Sorted
    BY <1>1, <1>2, <1>4, Numbers DEF Sorted
  <1> QED BY <1>1, <1>2, <1>3, <1>4, <1>5

\* While only the queue changes.
LEMMA SonsFrame ==
    ASSUME TypeOK, SonsInv, heap_max \in Nat, heap_max <= HEAP_SIZE - 2 * Joins, UNCHANGED <<fc, node>>,
           \A j \in Sorted : heap'[j] = heap[j]
    PROVE  SonsInv'
  <1>1. Joins' = Joins
    BY DEF Joins
  <1>2. ASSUME NEW i \in 0 .. Joins - 1
        PROVE  fc'[elems + i] = fc'[heap'[HEAP_SIZE - 1 - 2 * i]] + fc'[heap'[HEAP_SIZE - 2 - 2 * i]]
    <2>1. HEAP_SIZE - 1 - 2 * i \in Sorted /\ HEAP_SIZE - 2 - 2 * i \in Sorted
      BY SonPlaces
    <2> QED BY <2>1 DEF SonsInv
  <1> QED BY <1>1, <1>2 DEF SonsInv

\* There are no fathers at first.
LEMMA HeapFilledSons == ASSUME IInv, HeapFilled PROVE SonsInv'
  <1>1. node = elems /\ node' = node
    BY DEF IInv, HeapFilled, CountInv
  <1>2. Joins' = 0
    BY <1>1, Numbers DEF Joins
  <1> QED BY <1>2 DEF SonsInv

\* What happens in the queue leaves fathers and sons alone.
LEMMA QueueSons == ASSUME IInv, SonsInv, Heapify \/ pqdownheap \/ pqremove PROVE SonsInv'
  <1>1. TypeOK /\ Placed /\ QueueInv /\ Building
    BY DEF IInv, Heapify, pqdownheap, pqremove, Building
  <1>2. /\ heap_max \in Nat /\ heap_max = HEAP_SIZE - 2 * Joins /\ heap_len < heap_max
        /\ heap \in [0 .. HEAP_SIZE - 1 -> Nodes] /\ heap_len \in Nat /\ heap_max >= 3
    BY <1>1, Room DEF QueueInv, TypeOK
  <1>3. UNCHANGED <<fc, node>>
    BY DEF Heapify, pqdownheap, pqremove, tree
  <1>4. \A j \in Sorted : j \in Nat /\ j > heap_len /\ j \in 0 .. HEAP_SIZE - 1 /\ j # 1
    BY <1>2, Numbers DEF Sorted
  <1>5. \A j \in Sorted : heap'[j] = heap[j]
    <2>1. CASE Heapify
      BY <2>1 DEF Heapify, queue
    <2>2. CASE pqremove
      BY <1>2, <1>4, <2>2 DEF pqremove, SMALLEST
    <2>3. CASE pqdownheap
      <3>1. CASE UNCHANGED heap
        BY <3>1
      <3>2. CASE 2 * k <= heap_len /\ heap' = [heap EXCEPT ![k] = heap[Son], ![Son] = heap[k]]
        <4>1. k \in Nat /\ k >= 1
          BY <1>1 DEF TypeOK
        <4>2. Son = 2 * k \/ (Son = 2 * k + 1 /\ 2 * k < heap_len)
          BY DEF Son
        <4>3. k <= heap_len /\ Son <= heap_len /\ Son \in Nat
          BY <1>2, <3>2, <4>1, <4>2
        <4>4. \A j \in Sorted : j # k /\ j # Son
          BY <1>2, <1>4, <4>1, <4>3
        <4> QED BY <1>2, <1>4, <3>2, <4>4
      <3> QED BY <2>3, <3>1, <3>2 DEF pqdownheap
    <2> QED BY <2>1, <2>2, <2>3
  <1>6. heap_max <= HEAP_SIZE - 2 * Joins
    BY <1>2
  <1> QED BY <1>1, <1>2, <1>3, <1>5, <1>6, SonsFrame

\* The father made is as frequent as its sons.
LEMMA JoinSons == ASSUME IInv, SonsInv, Join PROVE SonsInv'
  <1>1. TypeOK /\ Placed /\ QueueInv /\ pc = "join" /\ Building /\ Held
    BY DEF IInv, Join, Building, Held
  <1>2. /\ heap' = [heap EXCEPT ![heap_max - 1] = n, ![heap_max - 2] = heap[1], ![1] = node]
        /\ fc' = [fc EXCEPT ![node] = fc[n] + fc[heap[1]]]
        /\ node' = node + 1
    BY DEF Join, SMALLEST
  <1>3. heap \in [0 .. HEAP_SIZE - 1 -> Nodes] /\ fc \in [Nodes -> Nat]
    BY <1>1 DEF TypeOK
  <1>4. /\ Joins \in Nat /\ heap_len \in Nat /\ heap_len >= 1 /\ heap_len + Joins + 1 <= elems
        /\ heap_max + 2 * Joins = HEAP_SIZE /\ heap_max \in Nat /\ heap_len + 2 < heap_max
        /\ node = elems + Joins /\ heap_max = HEAP_SIZE - 2 * Joins
    BY <1>1, Room DEF QueueInv
  <1>5. \A x \in Leaf \cup Made : x # node
    BY <1>1, Numbers DEF Leaf, Made, Symbols, TypeOK
  <1>6. node \in Nodes
    BY <1>4, Numbers DEF Nodes
  <1>7. Joins' = Joins + 1
    BY <1>2, <1>4, Numbers DEF Joins
  <1>8. \A j \in Sorted : heap'[j] = heap[j] /\ heap[j] # node
    <2>1. \A j \in Sorted : j \in 0 .. HEAP_SIZE - 1 /\ j # 1 /\ j # heap_max - 1 /\ j # heap_max - 2
      BY <1>4, Numbers DEF Sorted
    <2>2. \A j \in Sorted : heap[j] \in Leaf \cup Made
      BY <1>1 DEF Placed, Places
    <2> QED BY <1>2, <1>3, <1>5, <2>1, <2>2
  <1>9. ASSUME NEW i \in 0 .. Joins
        PROVE  fc'[elems + i] = fc'[heap'[HEAP_SIZE - 1 - 2 * i]] + fc'[heap'[HEAP_SIZE - 2 - 2 * i]]
    <2>1. CASE i \in 0 .. Joins - 1
      <3>1. /\ HEAP_SIZE - 1 - 2 * i \in Sorted /\ HEAP_SIZE - 2 - 2 * i \in Sorted /\ elems + i \in Made
            /\ elems + i \in Nodes
        <4>1. heap_max <= HEAP_SIZE - 2 * Joins
          BY <1>4
        <4> QED BY <1>1, <1>4, <2>1, <4>1, SonPlaces
      <3>2. fc[elems + i] = fc[heap[HEAP_SIZE - 1 - 2 * i]] + fc[heap[HEAP_SIZE - 2 - 2 * i]]
        BY <2>1 DEF SonsInv
      <3>3. \A x : x # node => fc'[x] = fc[x]
        BY <1>2, <1>3, <1>6
      <3>4. elems + i # node
        BY <1>5, <3>1
      <3> QED BY <1>8, <3>1, <3>2, <3>3, <3>4
    <2>2. CASE i = Joins
      <3>1. HEAP_SIZE - 1 - 2 * i = heap_max - 1 /\ HEAP_SIZE - 2 - 2 * i = heap_max - 2 /\ elems + i = node
        BY <1>4, <2>2, Numbers
      <3>2. /\ heap_max - 1 \in 0 .. HEAP_SIZE - 1 /\ heap_max - 2 \in 0 .. HEAP_SIZE - 1
            /\ heap_max - 1 # heap_max - 2 /\ heap_max - 1 # 1 /\ heap_max - 2 # 1
        BY <1>4, Numbers
      <3>3. heap'[heap_max - 1] = n /\ heap'[heap_max - 2] = heap[1]
        BY <1>2, <1>3, <3>2
      <3>4. n # node /\ heap[1] # node
        <4>1. 1 \in Places
          BY <1>1, <1>4 DEF Places, Queue
        <4> QED BY <1>1, <1>5, <4>1 DEF QueueInv, Placed
      <3>5. fc'[n] = fc[n] /\ fc'[heap[1]] = fc[heap[1]] /\ fc'[node] = fc[n] + fc[heap[1]]
        BY <1>2, <1>3, <1>6, <3>4
      <3> QED BY <3>1, <3>3, <3>5
    <2> QED BY <1>4, <2>1, <2>2
  <1>10. 0 .. Joins' - 1 = 0 .. Joins
    BY <1>4, <1>7
  <1> QED BY <1>9, <1>10 DEF SonsInv

\* Taking the root out leaves fathers and sons alone.
LEMMA JoinedSons == ASSUME IInv, SonsInv, Joined PROVE SonsInv'
  <1>1. TypeOK /\ QueueInv /\ Building
    BY DEF IInv, Joined, Building
  <1>2. heap_max \in Nat /\ heap_max = HEAP_SIZE - 2 * Joins /\ heap \in [0 .. HEAP_SIZE - 1 -> Nodes] /\ Joins \in Nat
    BY <1>1, Room DEF QueueInv, TypeOK
  <1>3. UNCHANGED <<fc, node>>
    BY DEF Joined
  <1>4. heap' = heap \/ heap' = [heap EXCEPT ![heap_max - 1] = heap[1]]
    BY DEF Joined, SMALLEST
  <1>5. \A j \in Sorted : heap'[j] = heap[j]
    <2>1. \A j \in Sorted : j # heap_max - 1 /\ j \in 0 .. HEAP_SIZE - 1
      BY <1>2, Numbers DEF Sorted
    <2> QED BY <1>2, <1>4, <2>1
  <1>6. heap_max <= HEAP_SIZE - 2 * Joins
    BY <1>2, Numbers
  <1> QED BY <1>1, <1>2, <1>3, <1>5, <1>6, SonsFrame

\* Lengths leave frequencies alone.
LEMMA AssignSons == ASSUME SonsInv, AssignLength PROVE SonsInv'
  <1>1. UNCHANGED <<fc, heap, node>>
    BY DEF AssignLength, queue
  <1> QED BY <1>1 DEF SonsInv, Joins

-----------------------------------------------------------------------------
(* Optimality: sums over nodes, and the exchange of two lengths             *)

\* Sums over the nodes.
LEMMA NodesSum ==
    ASSUME NEW g, \A x \in Nodes : g[x] \in Int
    PROVE  /\ 2 * elems - 1 \in Nat /\ Summable(g, 2 * elems - 1) /\ Total(g, 2 * elems - 1) \in Int
           /\ (\A x \in Nodes : g[x] \in Nat) => Total(g, 2 * elems - 1) \in Nat
  <1>1. PICK to \in Nat : to = 2 * elems - 1
    BY Numbers
  <1>2. Nodes = 0 .. to - 1
    BY <1>1, Numbers DEF Nodes
  <1>3. Summable(g, to)
    BY <1>2 DEF Summable
  <1>4. Total(g, to) \in Int
    BY <1>3, TotalType
  <1>5. (\A x \in Nodes : g[x] \in Nat) => Total(g, to) \in Nat
    BY <1>2, TotalNat
  <1> QED BY <1>1, <1>3, <1>4, <1>5

\* A sum over the nodes of which one term changes.
LEMMA NodesChange ==
    ASSUME NEW g, NEW e, NEW p \in Nodes, \A x \in Nodes : g[x] \in Int /\ e[x] \in Int,
           \A x \in Nodes : x # p => e[x] = g[x]
    PROVE  Total(e, 2 * elems - 1) = Total(g, 2 * elems - 1) + (e[p] - g[p])
  <1>1. PICK to \in Nat : to = 2 * elems - 1
    BY Numbers
  <1>2. Nodes = 0 .. to - 1
    BY <1>1, Numbers DEF Nodes
  <1>3. Summable(g, to) /\ Summable(e, to)
    BY <1>2 DEF Summable
  <1>4. Total(e, to) = Total(g, to) + (e[p] - g[p])
    BY <1>2, <1>3, TotalChange
  <1> QED BY <1>1, <1>4

\* A sum over the nodes of which two terms change.
LEMMA NodesChange2 ==
    ASSUME NEW g, NEW e, NEW p \in Nodes, NEW q \in Nodes, p # q, \A x \in Nodes : g[x] \in Int /\ e[x] \in Int,
           \A x \in Nodes : x # p /\ x # q => e[x] = g[x]
    PROVE  Total(e, 2 * elems - 1) = Total(g, 2 * elems - 1) + (e[p] - g[p]) + (e[q] - g[q])
  <1>1. PICK to \in Nat : to = 2 * elems - 1
    BY Numbers
  <1>2. Nodes = 0 .. to - 1
    BY <1>1, Numbers DEF Nodes
  <1>3. Summable(g, to) /\ Summable(e, to)
    BY <1>2 DEF Summable
  <1>4. Total(e, to) = Total(g, to) + (e[p] - g[p]) + (e[q] - g[q])
    BY <1>2, <1>3, TotalChange2
  <1> QED BY <1>1, <1>4

\* A sum over the nodes of which three terms change.
LEMMA NodesChange3 ==
    ASSUME NEW g, NEW e, NEW p \in Nodes, NEW q \in Nodes, NEW r \in Nodes, p # q, p # r, q # r,
           \A x \in Nodes : g[x] \in Int /\ e[x] \in Int,
           \A x \in Nodes : x # p /\ x # q /\ x # r => e[x] = g[x]
    PROVE  Total(e, 2 * elems - 1)
             = Total(g, 2 * elems - 1) + (e[p] - g[p]) + (e[q] - g[q]) + (e[r] - g[r])
  <1>1. PICK to \in Nat : to = 2 * elems - 1
    BY Numbers
  <1>2. Nodes = 0 .. to - 1
    BY <1>1, Numbers DEF Nodes
  <1>3. Summable(g, to) /\ Summable(e, to)
    BY <1>2 DEF Summable
  <1>4. Total(e, to) = Total(g, to) + (e[p] - g[p]) + (e[q] - g[q]) + (e[r] - g[r])
    BY <1>2, <1>3, TotalChange3
  <1> QED BY <1>1, <1>4

\* Space and bits are numbers.
LEMMA LengthTypes ==
    ASSUME NEW l \in Lengths
    PROVE  \A x \in Nodes : l[x] \in 0 .. MAX_BITS /\ l[x] \in Nat /\ l[x] \in Int
  BY Numbers DEF Lengths

\* The space and the bits of nodes.
LEMMA LengthFacts ==
    ASSUME NEW S, NEW l \in Lengths
    PROVE  /\ \A x \in Nodes : /\ l[x] \in 0 .. MAX_BITS /\ l[x] \in Nat
                               /\ SpaceAt(S, l)[x] = (IF x \in S THEN Weight(l[x]) ELSE 0)
                               /\ SpaceAt(S, l)[x] \in Nat
           /\ SpaceOf(S, l) \in Nat /\ Total(l, 2 * elems - 1) \in Nat
  <1>1. \A x \in Nodes : l[x] \in 0 .. MAX_BITS /\ l[x] \in Nat
    BY Numbers DEF Lengths
  <1>2. \A x \in Nodes : SpaceAt(S, l)[x] = (IF x \in S THEN Weight(l[x]) ELSE 0)
    BY DEF SpaceAt
  <1>3. \A x \in Nodes : SpaceAt(S, l)[x] \in Nat
    BY <1>1, <1>2, Weights
  <1>4. SpaceOf(S, l) \in Nat
    BY <1>3, NodesSum DEF SpaceOf
  <1>5. Total(l, 2 * elems - 1) \in Nat
    BY <1>1, NodesSum
  <1> QED BY <1>1, <1>2, <1>3, <1>4, <1>5

\* The bits of a node.
LEMMA BitFacts ==
    ASSUME NEW S, NEW l \in Lengths, fc \in [Nodes -> Nat]
    PROVE  /\ \A x \in Nodes : /\ BitsAt(S, l)[x] = (IF x \in S THEN fc[x] * l[x] ELSE 0)
                               /\ BitsAt(S, l)[x] \in Nat
           /\ BitsOf(S, l) \in Nat
  <1>1. \A x \in Nodes : BitsAt(S, l)[x] = (IF x \in S THEN fc[x] * l[x] ELSE 0)
    BY DEF BitsAt
  <1>2. \A x \in Nodes : BitsAt(S, l)[x] \in Nat
    <2>1. \A x \in Nodes : l[x] \in Nat /\ fc[x] \in Nat
      BY LengthFacts
    <2>2. \A u, v \in Nat : u * v \in Nat
      OBVIOUS
    <2> QED BY <1>1, <2>1, <2>2
  <1>3. BitsOf(S, l) \in Nat
    BY <1>2, NodesSum DEF BitsOf
  <1> QED BY <1>1, <1>2, <1>3

\* The more frequent one is better off with the smaller length.
LEMMA Crossed ==
    ASSUME NEW a \in Nat, NEW b \in Nat, NEW c \in Nat, NEW d \in Nat, a <= b, c <= d
    PROVE  a * d + b * c <= a * c + b * d
  <1>1. PICK u \in Nat : b = a + u
    <2>1. b - a \in Nat /\ b = a + (b - a)
      OBVIOUS
    <2> QED BY <2>1
  <1>2. PICK v \in Nat : d = c + v
    <2>1. d - c \in Nat /\ d = c + (d - c)
      OBVIOUS
    <2> QED BY <2>1
  <1>3. u * v \in Nat
    OBVIOUS
  <1>4. a * (c + v) = a * c + a * v /\ (a + u) * c = a * c + u * c
    OBVIOUS
  <1>5. (a + u) * (c + v) = a * c + a * v + u * c + u * v
    OBVIOUS
  <1> QED BY <1>1, <1>2, <1>3, <1>4, <1>5

\* Exchanging two lengths so that the more frequent node has the shorter one makes the text no longer.
LEMMA Swap ==
    ASSUME fc \in [Nodes -> Nat], NEW S, S \subseteq Nodes, NEW l \in Lengths, NEW p \in S, NEW q \in S,
           fc[p] <= fc[q], l[p] <= l[q]
    PROVE  \E e \in Lengths :
             /\ e[p] = l[q] /\ e[q] = l[p] /\ \A x \in Nodes : x # p /\ x # q => e[x] = l[x]
             /\ SpaceOf(S, e) = SpaceOf(S, l) /\ BitsOf(S, e) <= BitsOf(S, l)
  <1>1. p \in Nodes /\ q \in Nodes /\ l[p] \in Nat /\ l[q] \in Nat /\ l[p] \in 0 .. MAX_BITS /\ l[q] \in 0 .. MAX_BITS
        /\ fc[p] \in Nat /\ fc[q] \in Nat
    BY LengthFacts
  <1>2. CASE p = q
    BY <1>2, BitFacts
  <1>3. CASE p # q
    <2> DEFINE e == [x \in Nodes |-> IF x = p THEN l[q] ELSE IF x = q THEN l[p] ELSE l[x]]
    <2>1. e \in Lengths
      BY <1>1, LengthFacts DEF Lengths
    <2>2. e[p] = l[q] /\ e[q] = l[p] /\ \A x \in Nodes : x # p /\ x # q => e[x] = l[x]
      BY <1>1, <1>3
    <2> HIDE DEF e
    <2>3. SpaceOf(S, e) = SpaceOf(S, l)
      <3> DEFINE f == SpaceAt(S, l)
                 g == SpaceAt(S, e)
      <3>1. /\ \A x \in Nodes : f[x] \in Int /\ g[x] \in Int
            /\ \A x \in Nodes : x # p /\ x # q => g[x] = f[x]
            /\ f[p] = g[q] /\ f[q] = g[p]
        <4>1. /\ \A x \in Nodes : f[x] = (IF x \in S THEN Weight(l[x]) ELSE 0) /\ f[x] \in Nat
              /\ \A x \in Nodes : g[x] = (IF x \in S THEN Weight(e[x]) ELSE 0) /\ g[x] \in Nat
          BY <2>1, LengthFacts
        <4> HIDE DEF f, g
        <4> QED BY <1>1, <2>2, <4>1
      <3> HIDE DEF f, g
      <3>2. Total(g, 2 * elems - 1) = Total(f, 2 * elems - 1) + (g[p] - f[p]) + (g[q] - f[q])
        BY <1>1, <1>3, <3>1, NodesChange2
      <3>3. Total(f, 2 * elems - 1) \in Int
        BY <3>1, NodesSum
      <3>4. Total(g, 2 * elems - 1) = Total(f, 2 * elems - 1)
        BY <1>1, <3>1, <3>2, <3>3
      <3> QED BY <3>4 DEF f, g, SpaceOf
    <2>4. BitsOf(S, e) <= BitsOf(S, l)
      <3> DEFINE f == BitsAt(S, l)
                 g == BitsAt(S, e)
      <3>1. /\ \A x \in Nodes : f[x] \in Int /\ g[x] \in Int
            /\ \A x \in Nodes : x # p /\ x # q => g[x] = f[x]
            /\ f[p] = fc[p] * l[p] /\ f[q] = fc[q] * l[q] /\ g[p] = fc[p] * l[q] /\ g[q] = fc[q] * l[p]
        <4>1. /\ \A x \in Nodes : f[x] = (IF x \in S THEN fc[x] * l[x] ELSE 0) /\ f[x] \in Nat
              /\ \A x \in Nodes : g[x] = (IF x \in S THEN fc[x] * e[x] ELSE 0) /\ g[x] \in Nat
          BY <2>1, BitFacts
        <4> HIDE DEF f, g
        <4> QED BY <1>1, <2>2, <4>1
      <3> HIDE DEF f, g
      <3>2. Total(g, 2 * elems - 1) = Total(f, 2 * elems - 1) + (g[p] - f[p]) + (g[q] - f[q])
        BY <1>1, <1>3, <3>1, NodesChange2
      <3>3. Total(f, 2 * elems - 1) \in Int
        BY <3>1, NodesSum
      <3>4. g[p] + g[q] <= f[p] + f[q]
        BY <1>1, <3>1, Crossed
      <3>5. Total(g, 2 * elems - 1) <= Total(f, 2 * elems - 1)
        <4>1. f[p] \in Int /\ f[q] \in Int /\ g[p] \in Int /\ g[q] \in Int
          BY <1>1, <3>1
        <4> QED BY <3>2, <3>3, <3>4, <4>1
      <3> QED BY <3>5 DEF f, g, BitsOf
    <2> QED BY <2>1, <2>2, <2>3, <2>4
  <1> QED BY <1>2, <1>3

-----------------------------------------------------------------------------
(* Optimality: codes with free space                                        *)

\* One node a bit shorter.
LEMMA Shorten ==
    ASSUME fc \in [Nodes -> Nat], NEW S, S \subseteq Nodes, NEW l \in Lengths, NEW p \in S, l[p] >= 1
    PROVE  \E e \in Lengths :
             /\ SpaceOf(S, e) = SpaceOf(S, l) + Weight(l[p]) /\ BitsOf(S, e) <= BitsOf(S, l)
             /\ Total(e, 2 * elems - 1) = Total(l, 2 * elems - 1) - 1
  <1>1. p \in Nodes /\ l[p] \in Nat /\ l[p] \in 0 .. MAX_BITS /\ l[p] - 1 \in 0 .. MAX_BITS /\ fc[p] \in Nat
    <2>1. p \in Nodes /\ l[p] \in Nat /\ l[p] \in 0 .. MAX_BITS /\ fc[p] \in Nat
      BY LengthTypes
    <2> QED BY <2>1, Numbers
  <1> DEFINE e == [x \in Nodes |-> IF x = p THEN l[p] - 1 ELSE l[x]]
  <1>2. e \in Lengths
    BY <1>1, LengthFacts DEF Lengths
  <1>3. e[p] = l[p] - 1 /\ \A x \in Nodes : x # p => e[x] = l[x]
    BY <1>1
  <1> HIDE DEF e
  <1>4. \A x \in Nodes : l[x] \in Int /\ e[x] \in Int
    BY <1>2, LengthTypes
  <1>5. SpaceOf(S, e) = SpaceOf(S, l) + Weight(l[p])
    <2> DEFINE f == SpaceAt(S, l)
               g == SpaceAt(S, e)
    <2>1. /\ \A x \in Nodes : f[x] \in Int /\ g[x] \in Int
          /\ \A x \in Nodes : x # p => g[x] = f[x]
          /\ f[p] = Weight(l[p]) /\ g[p] = Weight(l[p] - 1)
      <3>1. /\ \A x \in Nodes : f[x] = (IF x \in S THEN Weight(l[x]) ELSE 0) /\ f[x] \in Nat
            /\ \A x \in Nodes : g[x] = (IF x \in S THEN Weight(e[x]) ELSE 0) /\ g[x] \in Nat
        BY <1>2, LengthFacts
      <3> HIDE DEF f, g
      <3> QED BY <1>1, <1>3, <3>1
    <2> HIDE DEF f, g
    <2>2. Total(g, 2 * elems - 1) = Total(f, 2 * elems - 1) + (g[p] - f[p]) /\ Total(f, 2 * elems - 1) \in Int
      BY <1>1, <2>1, NodesChange, NodesSum
    <2>3. Weight(l[p] - 1) = 2 * Weight(l[p]) /\ Weight(l[p]) \in Nat
      BY <1>1, Weights
    <2>4. Total(g, 2 * elems - 1) = Total(f, 2 * elems - 1) + Weight(l[p])
      BY <2>1, <2>2, <2>3
    <2> QED BY <2>4 DEF f, g, SpaceOf
  <1>6. BitsOf(S, e) <= BitsOf(S, l)
    <2> DEFINE f == BitsAt(S, l)
               g == BitsAt(S, e)
    <2>1. /\ \A x \in Nodes : f[x] \in Int /\ g[x] \in Int
          /\ \A x \in Nodes : x # p => g[x] = f[x]
          /\ f[p] = fc[p] * l[p] /\ g[p] = fc[p] * (l[p] - 1)
      <3>1. /\ \A x \in Nodes : f[x] = (IF x \in S THEN fc[x] * l[x] ELSE 0) /\ f[x] \in Nat
            /\ \A x \in Nodes : g[x] = (IF x \in S THEN fc[x] * e[x] ELSE 0) /\ g[x] \in Nat
        BY <1>2, BitFacts
      <3> HIDE DEF f, g
      <3> QED BY <1>1, <1>3, <3>1
    <2> HIDE DEF f, g
    <2>2. Total(g, 2 * elems - 1) = Total(f, 2 * elems - 1) + (g[p] - f[p]) /\ Total(f, 2 * elems - 1) \in Int
      BY <1>1, <2>1, NodesChange, NodesSum
    <2>3. g[p] <= f[p] /\ g[p] \in Int /\ f[p] \in Int
      <3>1. fc[p] * (l[p] - 1) = fc[p] * l[p] - fc[p]
        BY <1>1
      <3> QED BY <1>1, <2>1, <3>1
    <2>4. Total(g, 2 * elems - 1) <= Total(f, 2 * elems - 1)
      BY <2>2, <2>3
    <2> QED BY <2>4 DEF f, g, BitsOf
  <1>7. Total(e, 2 * elems - 1) = Total(l, 2 * elems - 1) + (e[p] - l[p]) /\ Total(l, 2 * elems - 1) \in Int
    BY <1>1, <1>3, <1>4, NodesChange, NodesSum
  <1>8. Total(e, 2 * elems - 1) = Total(l, 2 * elems - 1) - 1
    BY <1>1, <1>3, <1>7
  <1> QED BY <1>2, <1>5, <1>6, <1>8

\* Of the codes that are no longer there is a shortest one.
LEMMA Shortest ==
    ASSUME fc \in [Nodes -> Nat], NEW S, NEW l \in Lengths, Fits(S, l)
    PROVE  \E e \in Lengths :
             /\ Fits(S, e) /\ BitsOf(S, e) <= BitsOf(S, l)
             /\ \A d \in Lengths : Fits(S, d) /\ BitsOf(S, d) <= BitsOf(S, l)
                                     => Total(e, 2 * elems - 1) <= Total(d, 2 * elems - 1)
  <1> DEFINE Good == {d \in Lengths : Fits(S, d) /\ BitsOf(S, d) <= BitsOf(S, l)}
             T == {Total(d, 2 * elems - 1) : d \in Good}
  <1>1. l \in Good
    <2>1. BitsOf(S, l) \in Nat
      BY BitFacts
    <2> QED BY <2>1
  <1>2. T \subseteq Nat /\ T # {}
    <2>1. \A d \in Good : Total(d, 2 * elems - 1) \in Nat
      BY LengthFacts
    <2> QED BY <1>1, <2>1
  <1>3. PICK i \in T : \A j \in T : i <= j
    <2> HIDE DEF T
    <2> QED BY <1>2, Least
  <1>4. PICK e \in Good : i = Total(e, 2 * elems - 1)
    OBVIOUS
  <1>5. \A d \in Good : Total(e, 2 * elems - 1) <= Total(d, 2 * elems - 1)
    BY <1>3, <1>4
  <1> QED BY <1>4, <1>5

\* A single longest code leaves a gap as big as its own space.
LEMMA SingleLongest ==
    ASSUME NEW S, S \subseteq Nodes, NEW l \in Lengths, NEW p \in S, l[p] >= 1,
           \A x \in S : x # p => l[x] < l[p], Fits(S, l)
    PROVE  SpaceOf(S, l) + Weight(l[p]) <= Power2[MAX_BITS]
  <1>1. p \in Nodes /\ l[p] \in Nat /\ l[p] \in 0 .. MAX_BITS
    BY LengthFacts
  <1>2. PICK m \in Nat : l[p] = m + 1 /\ m \in 0 .. MAX_BITS /\ m + 1 <= MAX_BITS
    <2>1. l[p] - 1 \in Nat /\ l[p] = (l[p] - 1) + 1 /\ l[p] - 1 \in 0 .. MAX_BITS /\ (l[p] - 1) + 1 <= MAX_BITS
      BY <1>1, Numbers
    <2> QED BY <2>1
  <1> DEFINE w == Weight(m + 1)
             W == Weight(m)
             f == SpaceAt(S, l)
             g == [x \in Nodes |-> IF x = p THEN 0 ELSE f[x]]
             e == [x \in Nodes |-> IF x \in S /\ x # p THEN Power2[m - l[x]] ELSE 0]
  <1>3. W = 2 * w /\ w \in Nat \ {0} /\ W \in Nat \ {0}
    <2>1. m + 1 \in 0 .. MAX_BITS /\ (m + 1) - 1 = m
      BY <1>2, Numbers
    <2> QED BY <1>2, <2>1, Weights
  <1>4. /\ \A x \in Nodes : f[x] = (IF x \in S THEN Weight(l[x]) ELSE 0) /\ f[x] \in Nat
        /\ f[p] = w
    <2>1. \A x \in Nodes : f[x] = (IF x \in S THEN Weight(l[x]) ELSE 0) /\ f[x] \in Nat
      BY LengthFacts
    <2> HIDE DEF f
    <2> QED BY <1>1, <1>2, <2>1
  <1> HIDE DEF f
  <1>5. /\ \A x \in Nodes : g[x] \in Nat /\ (x # p => g[x] = f[x])
        /\ g[p] = 0
    BY <1>1, <1>4
  <1>6. ASSUME NEW x \in Nodes PROVE e[x] \in Nat /\ g[x] = e[x] * W
    <2>1. CASE x \in S /\ x # p
      <3>1. l[x] \in Nat /\ l[x] <= m
        <4>1. l[x] < l[p] /\ l[x] \in Nat
          BY <2>1, LengthTypes
        <4> QED BY <1>1, <1>2, <4>1
      <3>2. m - l[x] \in Nat /\ MAX_BITS - m \in Nat /\ (m - l[x]) + (MAX_BITS - m) <= MAX_BITS
            /\ (m - l[x]) + (MAX_BITS - m) = MAX_BITS - l[x]
        BY <1>2, <3>1, Numbers
      <3>3. /\ Power2[m - l[x]] \in Nat
            /\ Power2[(m - l[x]) + (MAX_BITS - m)] = Power2[m - l[x]] * Power2[MAX_BITS - m]
        BY <3>2, PowersMultiply
      <3>4. f[x] = Weight(l[x])
        BY <1>4, <2>1
      <3> QED BY <1>4, <2>1, <3>2, <3>3, <3>4 DEF Weight
    <2>2. CASE x = p
      BY <1>3, <2>2
    <2>3. CASE x \notin S
      BY <1>3, <1>4, <2>3
    <2> QED BY <2>1, <2>2, <2>3
  <1> HIDE DEF g, e
  <1>7. Total(g, 2 * elems - 1) = Total(f, 2 * elems - 1) + (g[p] - f[p]) /\ Total(f, 2 * elems - 1) \in Nat
        /\ Total(g, 2 * elems - 1) \in Nat
    <2>1. \A x \in Nodes : f[x] \in Int /\ g[x] \in Int /\ f[x] \in Nat /\ g[x] \in Nat /\ (x # p => g[x] = f[x])
      BY <1>4, <1>5
    <2>2. \A x \in Nodes : x # p => g[x] = f[x]
      BY <2>1
    <2> QED BY <1>1, <2>1, <2>2, NodesChange, NodesSum
  <1>8. Total(e, 2 * elems - 1) \in Nat
    <2>1. \A x \in Nodes : e[x] \in Int /\ e[x] \in Nat
      BY <1>6
    <2> QED BY <2>1, NodesSum
  <1>9. Total(g, 2 * elems - 1) = Total(e, 2 * elems - 1) * W
    <2>1. PICK to \in Nat : to = 2 * elems - 1
      BY Numbers
    <2>2. Nodes = 0 .. to - 1
      BY <2>1, Numbers DEF Nodes
    <2>3. Summable(e, to) /\ \A i \in 0 .. to - 1 : g[i] = e[i] * W
      BY <1>6, <2>2 DEF Summable
    <2>4. W \in Int
      BY <1>3
    <2> HIDE DEF W
    <2>5. Total(g, to) = Total(e, to) * W
      BY <2>3, <2>4, TotalTimes
    <2> QED BY <2>1, <2>5
  <1>10. PICK u \in Nat : u = Total(e, 2 * elems - 1)
    BY <1>8
  <1>11. SpaceOf(S, l) = u * W + w
    <2>1. SpaceOf(S, l) = Total(f, 2 * elems - 1)
      BY DEF SpaceOf, f
    <2>2. w \in Nat /\ u * W \in Nat
      BY <1>3
    <2> HIDE DEF W, w
    <2> QED BY <1>4, <1>5, <1>7, <1>9, <1>10, <2>1, <2>2
  <1>12. PICK b \in Nat : Power2[MAX_BITS] = b * W
    BY <1>2, Weights
  <1>13. u * W + w <= b * W
    BY <1>11, <1>12 DEF Fits
  <1>14. u * W + 2 * w <= b * W
    <2> HIDE DEF W, w
    <2>1. u < b
      <3>1. ASSUME b <= u PROVE FALSE
        <4>1. PICK v \in Nat : u = b + v
          <5>1. u - b \in Nat /\ u = b + (u - b)
            BY <3>1
          <5> QED BY <5>1
        <4>2. u * W = b * W + v * W /\ v * W \in Nat /\ b * W \in Nat
          BY <1>3, <4>1
        <4> QED BY <1>3, <1>13, <4>2
      <3> QED BY <3>1
    <2>2. PICK v \in Nat : b = u + 1 + v
      <3>1. b - u - 1 \in Nat /\ b = u + 1 + (b - u - 1)
        BY <2>1
      <3> QED BY <3>1
    <2>3. b * W = u * W + W + v * W /\ v * W \in Nat /\ u * W \in Nat
      BY <1>3, <2>2
    <2> QED BY <1>3, <2>3
  <1>15. Weight(l[p]) = w
    BY <1>2
  <1>16. SpaceOf(S, l) + w <= Power2[MAX_BITS]
    <2>1. w \in Nat /\ u * W \in Nat /\ b * W \in Nat
      BY <1>3
    <2> HIDE DEF W, w
    <2> QED BY <1>11, <1>12, <1>14, <2>1
  <1> QED BY <1>15, <1>16

-----------------------------------------------------------------------------
(* Optimality: two longest codes                                            *)

\* Among the shortest codes that are no longer there is one with two longest lengths.
LEMMA TwoLongest ==
    ASSUME fc \in [Nodes -> Nat], NEW S, S \subseteq Nodes, NEW a \in S, NEW b \in S, a # b,
           NEW l \in Lengths, Fits(S, l)
    PROVE  \E e \in Lengths :
             /\ Fits(S, e) /\ BitsOf(S, e) <= BitsOf(S, l)
             /\ \E x \in S, y \in S : /\ x # y /\ e[x] = e[y] /\ e[x] >= 1
                                      /\ \A z \in S : e[z] <= e[x]
  <1>1. PICK e \in Lengths :
             /\ Fits(S, e) /\ BitsOf(S, e) <= BitsOf(S, l)
             /\ \A d \in Lengths : Fits(S, d) /\ BitsOf(S, d) <= BitsOf(S, l)
                                     => Total(e, 2 * elems - 1) <= Total(d, 2 * elems - 1)
    BY Shortest
  <1>2. \A x \in S : x \in Nodes /\ e[x] \in Nat /\ e[x] \in 0 .. MAX_BITS
    BY LengthTypes
  <1>3. PICK x \in S : \A z \in S : e[z] <= e[x]
    <2> DEFINE T == {MAX_BITS - e[z] : z \in S}
    <2>1. T \subseteq Nat /\ T # {}
      <3>1. \A z \in S : MAX_BITS - e[z] \in Nat
        BY <1>2, Numbers
      <3> QED BY <3>1
    <2>2. PICK i \in T : \A j \in T : i <= j
      <3> HIDE DEF T
      <3> QED BY <2>1, Least
    <2>3. PICK x \in S : i = MAX_BITS - e[x]
      OBVIOUS
    <2>4. ASSUME NEW z \in S PROVE e[z] <= e[x]
      <3>1. MAX_BITS - e[x] <= MAX_BITS - e[z]
        BY <2>2, <2>3
      <3> QED BY <1>2, <3>1, Numbers
    <2> QED BY <2>4
  <1>4. e[x] >= 1
    <2> SUFFICES ASSUME e[x] = 0 PROVE FALSE
      BY <1>2
    <2>1. e[a] = 0 /\ e[b] = 0
      BY <1>2, <1>3
    <2> DEFINE f == SpaceAt(S, e)
               o == [z \in Nodes |-> 0]
               g == [z \in Nodes |-> IF z = a \/ z = b THEN f[z] ELSE 0]
    <2>2. Weight(0) \in Nat \ {0} /\ Weight(0) = Power2[MAX_BITS]
      <3>1. 0 \in 0 .. MAX_BITS /\ MAX_BITS - 0 = MAX_BITS
        BY Numbers
      <3> QED BY <3>1, Weights DEF Weight
    <2>3. (\A z \in Nodes : f[z] \in Nat) /\ f[a] = Weight(0) /\ f[b] = Weight(0)
      <3>1. \A z \in Nodes : f[z] = (IF z \in S THEN Weight(e[z]) ELSE 0) /\ f[z] \in Nat
        BY LengthFacts
      <3> HIDE DEF f
      <3> QED BY <1>2, <2>1, <3>1
    <2> HIDE DEF f
    <2>4. \A z \in Nodes : o[z] = 0 /\ o[z] \in Int /\ g[z] \in Int /\ g[z] <= f[z] /\ f[z] \in Int
      BY <2>3
    <2>5. g[a] = f[a] /\ g[b] = f[b] /\ \A z \in Nodes : z # a /\ z # b => g[z] = o[z]
      BY <1>2
    <2> HIDE DEF g, o
    <2>6. PICK to \in Nat : to = 2 * elems - 1
      BY Numbers
    <2>7. Nodes = 0 .. to - 1
      BY <2>6, Numbers DEF Nodes
    <2>8. Total(g, 2 * elems - 1) = Total(o, 2 * elems - 1) + (g[a] - o[a]) + (g[b] - o[b])
      <3>1. \A z \in Nodes : o[z] \in Int /\ g[z] \in Int
        BY <2>4
      <3>2. \A z \in Nodes : z # a /\ z # b => g[z] = o[z]
        BY <2>5
      <3>3. a \in Nodes /\ b \in Nodes
        OBVIOUS
      <3> QED BY <3>1, <3>2, <3>3, NodesChange2
    <2>9. Total(o, to) = 0
      BY <2>4, <2>7, TotalZero
    <2>10. Total(g, to) <= Total(f, to) /\ Total(f, to) \in Int
      <3>1. Summable(g, to) /\ Summable(f, to)
        BY <2>4, <2>7 DEF Summable
      <3> QED BY <2>4, <2>7, <3>1, TotalMost, TotalType
    <2>11. Total(f, to) >= 2 * Power2[MAX_BITS]
      BY <1>2, <2>2, <2>3, <2>4, <2>5, <2>6, <2>8, <2>9, <2>10
    <2>12. Total(f, to) <= Power2[MAX_BITS]
      BY <1>1, <2>6 DEF Fits, SpaceOf, f
    <2> QED BY <2>2, <2>10, <2>11, <2>12
  <1>5. \E y \in S : y # x /\ e[y] = e[x]
    <2> SUFFICES ASSUME \A y \in S : y # x => e[y] # e[x] PROVE FALSE
      OBVIOUS
    <2>1. \A y \in S : y # x => e[y] < e[x]
      BY <1>2, <1>3
    <2>2. SpaceOf(S, e) + Weight(e[x]) <= Power2[MAX_BITS]
      BY <1>1, <1>4, <2>1, SingleLongest
    <2>3. PICK d \in Lengths : /\ SpaceOf(S, d) = SpaceOf(S, e) + Weight(e[x]) /\ BitsOf(S, d) <= BitsOf(S, e)
                               /\ Total(d, 2 * elems - 1) = Total(e, 2 * elems - 1) - 1
      BY <1>4, Shorten
    <2>4. BitsOf(S, d) \in Nat /\ BitsOf(S, e) \in Nat /\ BitsOf(S, l) \in Nat
      BY BitFacts
    <2>5. Fits(S, d) /\ BitsOf(S, d) <= BitsOf(S, l)
      BY <1>1, <2>2, <2>3, <2>4 DEF Fits
    <2>6. Total(e, 2 * elems - 1) <= Total(d, 2 * elems - 1)
      BY <1>1, <2>5
    <2>7. Total(e, 2 * elems - 1) \in Nat
      BY LengthFacts
    <2> QED BY <2>3, <2>6, <2>7
  <1>6. PICK y \in S : y # x /\ e[y] = e[x]
    BY <1>5
  <1>7. \E u \in S, v \in S : u # v /\ e[u] = e[v] /\ e[u] >= 1 /\ \A z \in S : e[z] <= e[u]
    BY <1>3, <1>4, <1>6
  <1> QED BY <1>1, <1>7

\* The two least frequent nodes may as well be those with the longest codes.
LEMMA Exchange ==
    ASSUME fc \in [Nodes -> Nat], NEW S, S \subseteq Nodes, NEW a \in S, NEW b \in S, a # b,
           \A x \in S : fc[a] <= fc[x], \A x \in S : x # a => fc[b] <= fc[x],
           NEW l \in Lengths, Fits(S, l)
    PROVE  \E e \in Lengths :
             /\ Fits(S, e) /\ BitsOf(S, e) <= BitsOf(S, l)
             /\ e[a] = e[b] /\ e[a] >= 1
  <1>1. PICK e \in Lengths :
             /\ Fits(S, e) /\ BitsOf(S, e) <= BitsOf(S, l)
             /\ \E x \in S, y \in S : /\ x # y /\ e[x] = e[y] /\ e[x] >= 1
                                      /\ \A z \in S : e[z] <= e[x]
    BY TwoLongest
  <1>2. PICK x \in S, y \in S : /\ x # y /\ y # a /\ e[x] = e[y] /\ e[x] >= 1
                                /\ \A z \in S : e[z] <= e[x]
    <2>1. PICK x \in S, y \in S : /\ x # y /\ e[x] = e[y] /\ e[x] >= 1
                                  /\ \A z \in S : e[z] <= e[x]
      BY <1>1
    <2>2. CASE y # a
      BY <2>1, <2>2
    <2>3. CASE y = a
      <3>1. y # x /\ x # a /\ e[y] = e[x] /\ e[y] >= 1 /\ \A z \in S : e[z] <= e[y]
        BY <2>1, <2>3
      <3> QED BY <3>1
    <2> QED BY <2>2, <2>3
  <1>3. PICK d \in Lengths :
             /\ d[a] = e[x] /\ d[x] = e[a] /\ \A z \in Nodes : z # a /\ z # x => d[z] = e[z]
             /\ SpaceOf(S, d) = SpaceOf(S, e) /\ BitsOf(S, d) <= BitsOf(S, e)
    <2>1. fc[a] <= fc[x] /\ e[a] <= e[x]
      BY <1>2
    <2> QED BY <2>1, Swap, ZenonT(60)
  <1>4. d[y] = e[x] /\ d[b] <= e[x]
    <2>1. y \in Nodes /\ b \in Nodes
      OBVIOUS
    <2>2. d[y] = e[y]
      BY <1>2, <1>3, <2>1
    <2>3. d[b] <= e[x]
      <3>1. CASE b = x
        BY <1>2, <1>3, <3>1
      <3>2. CASE b # x
        BY <1>2, <1>3, <2>1, <3>2
      <3> QED BY <3>1, <3>2
    <2> QED BY <1>2, <2>2, <2>3
  <1>5. PICK c \in Lengths :
             /\ c[b] = d[y] /\ c[y] = d[b] /\ \A z \in Nodes : z # b /\ z # y => c[z] = d[z]
             /\ SpaceOf(S, c) = SpaceOf(S, d) /\ BitsOf(S, c) <= BitsOf(S, d)
    <2>1. fc[b] <= fc[y] /\ d[b] <= d[y]
      BY <1>2, <1>4
    <2> QED BY <2>1, Swap
  <1>6. c[a] = e[x] /\ c[b] = e[x]
    <2>1. a \in Nodes /\ a # b /\ a # y
      BY <1>2
    <2> QED BY <1>3, <1>4, <1>5, <2>1
  <1>7. Fits(S, c)
    BY <1>1, <1>3, <1>5 DEF Fits
  <1>8. BitsOf(S, c) <= BitsOf(S, l)
    <2>1. BitsOf(S, c) \in Nat /\ BitsOf(S, d) \in Nat /\ BitsOf(S, e) \in Nat /\ BitsOf(S, l) \in Nat
      BY BitFacts
    <2> QED BY <1>1, <1>3, <1>5, <2>1
  <1> QED BY <1>2, <1>6, <1>7, <1>8

-----------------------------------------------------------------------------
(* Optimality: the nodes without a father                                   *)

\* Leaves and fathers are different nodes.
LEMMA NodeSets ==
    ASSUME TypeOK
    PROVE  /\ Leaf \subseteq Nodes /\ Made \subseteq Nodes /\ node \notin Leaf /\ node \notin Made
           /\ (\A x \in Leaf : x \in Symbols) /\ Leaf \cap Made = {}
  <1>1. node \in Nat /\ node >= elems /\ node <= 2 * elems - 1
    BY Numbers DEF TypeOK
  <1>2. \A x \in Leaf : x \in Symbols /\ x \in Nat /\ x < elems
    BY Numbers DEF Leaf, Symbols
  <1>3. \A x \in Made : x \in Nat /\ x >= elems /\ x < node
    BY <1>1, Numbers DEF Made
  <1>4. Leaf \subseteq Nodes /\ Made \subseteq Nodes
    BY <1>1, <1>2, <1>3, Numbers DEF Nodes
  <1> QED BY <1>1, <1>2, <1>3, <1>4, Numbers

\* While the nodes without a father are the same.
LEMMA RootsFrame ==
    ASSUME RootsInv, Roots' = Roots, UNCHANGED <<fc, node>>
    PROVE  RootsInv'
  <1>1. Leaf' = Leaf /\ Fathers' = Fathers
    BY DEF Leaf, Fathers, FatherAt, Made
  <1>3. \A len \in Lengths : BitsOf(Roots, len)' = BitsOf(Roots, len) /\ BitsOf(Leaf, len)' = BitsOf(Leaf, len)
    BY <1>1 DEF BitsOf, BitsAt
  <1>4. \A len \in Lengths : (Fits(Roots, len)' <=> Fits(Roots, len)) /\ (Fits(Leaf, len)' <=> Fits(Leaf, len))
    BY <1>1 DEF Fits, SpaceOf, SpaceAt, Weight
  <1> QED BY <1>1, <1>3, <1>4 DEF RootsInv

\* At first the leaves are the nodes without a father.
LEMMA HeapFilledRoots == ASSUME IInv, HeapFilled PROVE RootsInv'
  <1>1. TypeOK /\ CountInv /\ TypeOK' /\ pc' = "heapify" /\ n = elems
    BY HeapFilledInv DEF IInv, HeapFilled
  <1>2. UNCHANGED <<fc, node, heap, heap_len>> /\ node = elems
    BY <1>1 DEF HeapFilled, tree, queue, CountInv
  <1>3. Roots' = Leaf /\ Leaf' = Leaf
    <2>1. ~Held'
      BY <1>1 DEF Held
    <2>2. \A i \in Leaf : i < n
      BY <1>1, Numbers DEF Leaf, Symbols
    <2>3. {heap[q] : q \in Queue} = Leaf
      BY <1>1, <2>2 DEF CountInv
    <2>4. Roots' = {heap[q] : q \in Queue}
      BY <1>2, <2>1 DEF Roots, Queue
    <2> QED BY <1>2, <2>3, <2>4 DEF Leaf
  <1>4. Fathers' = 0
    <2>1. Made' = {}
      BY <1>2, Numbers DEF Made
    <2>2. PICK to \in Nat : to = 2 * elems - 1
      BY Numbers
    <2>3. Nodes = 0 .. to - 1
      BY <2>2, Numbers DEF Nodes
    <2>4. \A i \in 0 .. to - 1 : FatherAt'[i] = 0
      BY <2>1, <2>3 DEF FatherAt
    <2>5. Total(FatherAt', to) = 0
      BY <2>4, TotalZero
    <2> QED BY <2>2, <2>5 DEF Fathers
  <1>5. ASSUME NEW len \in Lengths, Fits(Leaf, len)'
        PROVE  \E l \in Lengths : Fits(Roots, l)' /\ BitsOf(Roots, l)' + Fathers' <= BitsOf(Leaf, len)'
    <2>1. Fits(Roots, len)'
      BY <1>3, <1>5 DEF Fits, SpaceOf, SpaceAt
    <2>2. BitsOf(Roots, len)' = BitsOf(Leaf, len)'
      BY <1>3 DEF BitsOf, BitsAt
    <2>3. BitsOf(Leaf, len) \in Nat /\ BitsOf(Leaf, len)' = BitsOf(Leaf, len)
      <3>1. fc \in [Nodes -> Nat]
        BY <1>1 DEF TypeOK
      <3>2. BitsOf(Leaf, len) \in Nat
        BY <3>1, BitFacts
      <3>3. BitsOf(Leaf, len)' = BitsOf(Leaf, len)
        BY <1>2, <1>3 DEF BitsOf, BitsAt
      <3> QED BY <3>2, <3>3
    <2>4. BitsOf(Roots, len)' + Fathers' <= BitsOf(Leaf, len)'
      BY <1>4, <2>2, <2>3
    <2> QED BY <2>1, <2>4
  <1> QED BY <1>5 DEF RootsInv

\* What happens in the queue changes no set of nodes.
LEMMA QueueRoots == ASSUME IInv, RootsInv, Heapify \/ pqdownheap \/ pqremove PROVE RootsInv'
  <1>1. TypeOK /\ Placed /\ QueueInv /\ Building
    BY DEF IInv, Heapify, pqdownheap, pqremove, Building
  <1>2. UNCHANGED <<fc, node>>
    BY DEF Heapify, pqdownheap, pqremove, tree
  <1>3. /\ \A q \in Queue : q \in 0 .. HEAP_SIZE - 1 /\ q \in Nat /\ q >= 1 /\ q <= heap_len
        /\ \A q \in Nat : q >= 1 /\ q <= heap_len => q \in Queue
        /\ heap_len \in Nat /\ heap_len >= 1 /\ heap \in [0 .. HEAP_SIZE - 1 -> Nodes]
    BY <1>1, QueueTypes DEF TypeOK, QueueInv
  <1>4. Roots' = Roots
    <2>1. CASE Heapify
      <3>1. UNCHANGED <<heap, heap_len>> /\ ~Held /\ ~Held'
        BY <2>1 DEF Heapify, queue, Held, Sift
      <3> QED BY <3>1 DEF Roots, Queue
    <2>2. CASE pqdownheap
      <3>1. (Held' <=> Held) /\ n' = n /\ Queue' = Queue
        BY <1>1, <2>2 DEF pqdownheap, Held, Queue, TypeOK
      <3>2. CASE UNCHANGED heap
        BY <3>1, <3>2 DEF Roots
      <3>3. CASE 2 * k <= heap_len /\ heap' = [heap EXCEPT ![k] = heap[Son], ![Son] = heap[k]]
        <4>1. k \in Nat /\ k >= 1
          BY <1>1 DEF TypeOK
        <4>2. Son = 2 * k \/ (Son = 2 * k + 1 /\ 2 * k < heap_len)
          BY DEF Son
        <4>3. k \in Queue /\ Son \in Queue
          BY <1>3, <3>3, <4>1, <4>2
        <4>4. \A q \in Queue : heap'[q] = IF q = Son THEN heap[k] ELSE IF q = k THEN heap[Son] ELSE heap[q]
          BY <1>3, <3>3, <4>3
        <4>5. {heap'[q] : q \in Queue} = {heap[q] : q \in Queue}
          BY <4>3, <4>4
        <4> QED BY <3>1, <4>5 DEF Roots
      <3> QED BY <2>2, <3>2, <3>3 DEF pqdownheap
    <2>3. CASE pqremove
      <3>1. /\ n' = heap[1] /\ heap' = [heap EXCEPT ![1] = heap[heap_len]] /\ heap_len' = heap_len - 1
            /\ ~Held /\ Held'
        BY <2>3 DEF pqremove, Sift, SMALLEST, Held
      <3>2. 1 \in Queue /\ heap_len \in Queue
        BY <1>3
      <3>3. \A q \in Queue : heap'[q] = IF q = 1 THEN heap[heap_len] ELSE heap[q]
        BY <1>3, <3>1
      <3>4. Queue' = Queue \ {heap_len}
        BY <1>3, <3>1 DEF Queue
      <3>5. {heap[q] : q \in Queue} = {heap'[q] : q \in Queue \ {heap_len}} \cup {heap[1]}
        <4>1. ASSUME NEW q \in Queue PROVE heap[q] \in {heap'[r] : r \in Queue \ {heap_len}} \cup {heap[1]}
          <5>1. CASE q = 1
            BY <5>1
          <5>2. CASE q # 1 /\ q # heap_len
            <6>1. heap[q] = heap'[q] /\ q \in Queue \ {heap_len}
              BY <3>3, <5>2
            <6> QED BY <6>1
          <5>3. CASE q # 1 /\ q = heap_len
            <6>1. heap[q] = heap'[1] /\ 1 \in Queue \ {heap_len}
              BY <3>2, <3>3, <5>3
            <6> QED BY <6>1
          <5> QED BY <5>1, <5>2, <5>3
        <4>2. ASSUME NEW q \in Queue \ {heap_len} PROVE heap'[q] \in {heap[r] : r \in Queue}
          BY <3>2, <3>3
        <4>3. heap[1] \in {heap[r] : r \in Queue}
          BY <3>2
        <4> QED BY <4>1, <4>2, <4>3
      <3> QED BY <3>1, <3>4, <3>5 DEF Roots
    <2> QED BY <2>1, <2>2, <2>3
  <1> QED BY <1>2, <1>4, RootsFrame

\* Going on changes no set of nodes.
LEMMA JoinedRoots == ASSUME IInv, RootsInv, Joined, Building' PROVE RootsInv'
  <1>1. pc = "joined" /\ pc' = "remove" /\ UNCHANGED <<fc, heap, heap_len, n, node>>
    BY DEF Joined, Building
  <1>2. Roots' = Roots
    BY <1>1 DEF Roots, Held, Queue
  <1> QED BY <1>1, <1>2, RootsFrame

\* The root alone is left: it may have length 0, so that the fathers are all there is to pay.
LEMMA JoinedBest == ASSUME IInv, RootsInv, Joined, ~Building' PROVE BestInv'
  <1>1. TypeOK /\ UNCHANGED <<fc, node>>
    BY DEF IInv, Joined
  <1>2. Leaf' = Leaf /\ Fathers' = Fathers
    BY <1>1 DEF Leaf, Fathers, FatherAt, Made
  <1>3. \A len \in Lengths : BitsOf(Leaf, len)' = BitsOf(Leaf, len) /\ (Fits(Leaf, len)' <=> Fits(Leaf, len))
    BY <1>1, <1>2 DEF Fits, SpaceOf, SpaceAt, Weight, BitsOf, BitsAt
  <1>4. fc \in [Nodes -> Nat]
    BY <1>1 DEF TypeOK
  <1>5. ASSUME NEW len \in Lengths, Fits(Leaf, len) PROVE Fathers <= BitsOf(Leaf, len)
    <2>1. PICK l \in Lengths : Fits(Roots, l) /\ BitsOf(Roots, l) + Fathers <= BitsOf(Leaf, len)
      BY <1>5 DEF RootsInv
    <2>2. BitsOf(Roots, l) \in Nat /\ BitsOf(Leaf, len) \in Nat
      BY <1>4, BitFacts
    <2>3. Fathers \in Int
      <3>1. \A x \in Nodes : FatherAt[x] \in Int
        BY <1>4 DEF FatherAt
      <3> QED BY <3>1, NodesSum DEF Fathers
    <2> QED BY <2>1, <2>2, <2>3
  <1> QED BY <1>2, <1>3, <1>5 DEF BestInv

-----------------------------------------------------------------------------
(* Optimality: a join                                                       *)

\* Bits with the frequencies v.
BitsWith(v, S, len) == Total([x \in Nodes |-> IF x \in S THEN v[x] * len[x] ELSE 0], 2 * elems - 1)

\* Two nodes of a length, a bit longer than that of their father.
LEMMA Fathered ==
    ASSUME NEW a \in Nodes, NEW b \in Nodes, NEW c \in Nodes, a # b, a # c, b # c,
           NEW S, S \subseteq Nodes, a \in S, b \in S, c \notin S,
           NEW v, v \in [Nodes -> Nat], NEW w, w \in [Nodes -> Nat], w[c] = v[a] + v[b],
           \A x \in S : w[x] = v[x],
           NEW e \in Lengths, e[a] = e[b], e[a] >= 1, NEW R, R = (S \ {a, b}) \cup {c}
    PROVE  \E d \in Lengths :
             /\ SpaceOf(R, d) = SpaceOf(S, e)
             /\ BitsWith(w, R, d) + v[a] + v[b] = BitsWith(v, S, e)
             /\ BitsWith(w, R, d) \in Int
  <1> DEFINE d == [x \in Nodes |-> IF x = c THEN e[a] - 1 ELSE e[x]]
             g == [x \in Nodes |-> IF x \in S THEN v[x] * e[x] ELSE 0]
             f == [x \in Nodes |-> IF x \in R THEN w[x] * d[x] ELSE 0]
  <1>1. e[a] \in Nat /\ e[a] \in 0 .. MAX_BITS /\ e[a] - 1 \in 0 .. MAX_BITS /\ \A x \in Nodes : e[x] \in 0 .. MAX_BITS
    <2>1. e[a] \in Nat /\ e[a] \in 0 .. MAX_BITS /\ \A x \in Nodes : e[x] \in 0 .. MAX_BITS
      BY LengthTypes
    <2> QED BY <2>1, Numbers
  <1>2. d \in Lengths
    BY <1>1 DEF Lengths
  <1>3. d[c] = e[a] - 1 /\ \A x \in Nodes : x # c => d[x] = e[x]
    OBVIOUS
  <1>4. R \subseteq Nodes /\ a \notin R /\ b \notin R /\ c \in R /\ \A x : x # a /\ x # b /\ x # c => (x \in R <=> x \in S)
    OBVIOUS
  <1>5. SpaceOf(R, d) = SpaceOf(S, e)
    <2> DEFINE p == SpaceAt(S, e)
               q == SpaceAt(R, d)
    <2>1. /\ \A x \in Nodes : p[x] = (IF x \in S THEN Weight(e[x]) ELSE 0) /\ p[x] \in Int
          /\ \A x \in Nodes : q[x] = (IF x \in R THEN Weight(d[x]) ELSE 0) /\ q[x] \in Int
      <3> HIDE DEF d
      <3> QED BY <1>2, LengthFacts
    <2> HIDE DEF p, q, d
    <2>2. \A x \in Nodes : x # a /\ x # b /\ x # c => q[x] = p[x]
      BY <1>3, <1>4, <2>1
    <2>3. p[a] = Weight(e[a]) /\ p[b] = Weight(e[a]) /\ p[c] = 0 /\ q[a] = 0 /\ q[b] = 0 /\ q[c] = Weight(e[a] - 1)
      BY <1>3, <1>4, <2>1
    <2>4. Total(q, 2 * elems - 1)
            = Total(p, 2 * elems - 1) + (q[a] - p[a]) + (q[b] - p[b]) + (q[c] - p[c])
      <3>1. \A x \in Nodes : p[x] \in Int /\ q[x] \in Int
        BY <2>1
      <3> QED BY <2>2, <3>1, NodesChange3, ZenonT(60)
    <2>5. Weight(e[a] - 1) = 2 * Weight(e[a]) /\ Weight(e[a]) \in Nat
      BY <1>1, Weights
    <2>6. Total(p, 2 * elems - 1) \in Int
      BY <2>1, NodesSum
    <2>7. Total(q, 2 * elems - 1) = Total(p, 2 * elems - 1)
      BY <2>3, <2>4, <2>5, <2>6
    <2> QED BY <2>7 DEF p, q, SpaceOf
  <1>6. Total(f, 2 * elems - 1) + v[a] + v[b] = Total(g, 2 * elems - 1) /\ Total(f, 2 * elems - 1) \in Int
    <2>1. \A x \in Nodes : v[x] \in Nat /\ w[x] \in Nat /\ e[x] \in Nat /\ d[x] \in Nat
      <3>1. \A x \in Nodes : e[x] \in Nat
        BY LengthTypes
      <3>2. \A x \in Nodes : d[x] \in Nat
        <4> HIDE DEF d
        <4> QED BY <1>2, LengthTypes
      <3> QED BY <3>1, <3>2
    <2>2. \A x, y \in Nat : x * y \in Int
      OBVIOUS
    <2> HIDE DEF d
    <2>3. \A x \in Nodes : g[x] \in Int /\ f[x] \in Int
      BY <2>1, <2>2
    <2>4. \A x \in Nodes : x # a /\ x # b /\ x # c => f[x] = g[x]
      BY <1>3, <1>4
    <2>5. /\ g[a] = v[a] * e[a] /\ g[b] = v[b] * e[a] /\ g[c] = 0
          /\ f[a] = 0 /\ f[b] = 0 /\ f[c] = (v[a] + v[b]) * (e[a] - 1)
      BY <1>3, <1>4
    <2> HIDE DEF f, g
    <2>6. Total(f, 2 * elems - 1)
            = Total(g, 2 * elems - 1) + (f[a] - g[a]) + (f[b] - g[b]) + (f[c] - g[c])
      BY <2>3, <2>4, NodesChange3, ZenonT(60)
    <2>7. Total(g, 2 * elems - 1) \in Int /\ Total(f, 2 * elems - 1) \in Int
      BY <2>3, NodesSum
    <2>8. (v[a] + v[b]) * (e[a] - 1) = v[a] * e[a] + v[b] * e[a] - v[a] - v[b]
      <3>1. \A x, y, z \in Nat : (x + y) * (z - 1) = x * z + y * z - x - y
        OBVIOUS
      <3> QED BY <2>1, <3>1
    <2>9. v[a] * e[a] \in Int /\ v[b] * e[a] \in Int /\ v[a] \in Int /\ v[b] \in Int
      BY <2>1, <2>2
    <2> QED BY <2>5, <2>6, <2>7, <2>8, <2>9
  <1> HIDE DEF d
  <1>7. BitsWith(w, R, d) = Total(f, 2 * elems - 1) /\ BitsWith(v, S, e) = Total(g, 2 * elems - 1)
    BY DEF BitsWith
  <1> HIDE DEF f, g
  <1> QED BY <1>2, <1>5, <1>6, <1>7

\* Of the best lengths two longest go to the nodes joined, which are the least frequent;
\* their father is a bit shorter.
LEMMA JoinRoots == ASSUME IInv, OrderInv, RootsInv, Join PROVE RootsInv'
  <1>1. TypeOK /\ Placed /\ QueueInv /\ pc = "join" /\ Building /\ Held /\ TypeOK'
    BY JoinInv DEF IInv, Join, Building, Held
  <1> DEFINE m == heap[1]
             S == Roots
  <1>2. /\ heap' = [heap EXCEPT ![heap_max - 1] = n, ![heap_max - 2] = m, ![1] = node]
        /\ fc' = [fc EXCEPT ![node] = fc[n] + fc[m]]
        /\ heap_len' = heap_len /\ node' = node + 1 /\ ~Held'
    BY DEF Join, Sift, SMALLEST, Held
  <1>3. /\ \A q \in Queue : /\ q \in 0 .. HEAP_SIZE - 1 /\ q \in Nat /\ q >= 1 /\ q <= heap_len
                            /\ heap[q] \in Nodes /\ heap[q] \in Leaf \cup Made /\ fc[heap[q]] \in Nat
        /\ \A q \in Nat : q >= 1 /\ q <= heap_len => q \in Queue
        /\ heap_len \in Nat /\ heap_len >= 1 /\ heap \in [0 .. HEAP_SIZE - 1 -> Nodes] /\ fc \in [Nodes -> Nat]
        /\ fc' \in [Nodes -> Nat]
    BY <1>1, QueueTypes DEF TypeOK, QueueInv
  <1>4. /\ heap_max \in Nat /\ heap_len + 2 < heap_max /\ node \in Nodes /\ node \in Nat
        /\ Joins \in Nat /\ node = elems + Joins
    <2>1. /\ Joins \in Nat /\ heap_len \in Nat /\ heap_len >= 1 /\ heap_len + Joins + 1 <= elems
          /\ heap_max \in Nat /\ heap_len + 2 < heap_max /\ node = elems + Joins
      BY <1>1, Room
    <2> QED BY <2>1, Numbers DEF Nodes
  <1>5. /\ Leaf \subseteq Nodes /\ Made \subseteq Nodes /\ node \notin Leaf /\ node \notin Made
        /\ \A x \in Leaf : x \in Symbols
    BY <1>1, NodeSets
  <1>6. 1 \in Queue /\ Queue' = Queue /\ n \in Leaf \cup Made /\ \A q \in Queue : heap[q] # n
    <2>1. Queue \subseteq Places
      BY <1>1 DEF Places
    <2> QED BY <1>1, <1>2, <1>3, <2>1, SMTT(30) DEF QueueInv, Queue
  <1>7. /\ S \subseteq Leaf \cup Made /\ S \subseteq Nodes /\ n \in S /\ m \in S /\ n # m /\ node \notin S
        /\ n \in Nodes /\ m \in Nodes /\ n # node /\ m # node
        /\ S = {heap[q] : q \in Queue} \cup {n}
    <2>1. S = {heap[q] : q \in Queue} \cup {n}
      BY <1>1 DEF Roots
    <2> HIDE DEF S
    <2>2. m \in S /\ n \in S /\ n # m
      BY <1>6, <2>1
    <2>3. S \subseteq Leaf \cup Made
      BY <1>3, <1>6, <2>1
    <2> QED BY <1>5, <2>1, <2>2, <2>3
  <1>8. Roots' = (S \ {n, m}) \cup {node}
    <2>1. \A q \in Queue : heap'[q] = IF q = 1 THEN node ELSE heap[q]
      <3>1. \A q \in Queue : q # heap_max - 1 /\ q # heap_max - 2
        BY <1>3, <1>4
      <3> QED BY <1>2, <1>3, <3>1
    <2>2. \A q \in Queue : heap[q] = m => q = 1
      <3>1. Queue \subseteq Places
        BY <1>1 DEF Places
      <3> QED BY <1>1, <1>6, <3>1 DEF Placed
    <2>3. Roots' = {heap'[q] : q \in Queue}
      BY <1>2, <1>6 DEF Roots
    <2> HIDE DEF m, S
    <2>4. \A x : x \in {heap'[q] : q \in Queue} <=> x \in (S \ {n, m}) \cup {node}
      <3>1. ASSUME NEW q \in Queue PROVE heap'[q] \in (S \ {n, m}) \cup {node}
        BY <1>6, <1>7, <2>1, <2>2
      <3>2. node \in {heap'[q] : q \in Queue}
        BY <1>6, <2>1
      <3>3. ASSUME NEW x \in S \ {n, m} PROVE x \in {heap'[q] : q \in Queue}
        <4>1. PICK q \in Queue : heap[q] = x
          BY <1>7, <3>3
        <4>2. q # 1
          BY <3>3, <4>1 DEF m
        <4> QED BY <2>1, <4>1, <4>2
      <3> QED BY <3>1, <3>2, <3>3
    <2> QED BY <2>3, <2>4
  <1>9. (\A x \in S : fc[n] <= fc[x]) /\ \A x \in S : x # n => fc[m] <= fc[x]
    <2>1. \A q \in Queue : fc[n] <= fc[heap[q]]
      BY <1>1 DEF OrderInv
    <2>2. \A q \in Queue : fc[m] <= fc[heap[q]]
      <3>1. Low = 1
        BY <1>1 DEF Low
      <3> QED BY <1>1, <3>1, OrderedAll DEF Queue
    <2>3. fc[n] \in Nat
      BY <1>3, <1>7
    <2> HIDE DEF m, S
    <2> QED BY <1>7, <2>1, <2>2, <2>3
  <1>10. fc'[node] = fc[n] + fc[m] /\ (\A x \in Nodes : x # node => fc'[x] = fc[x]) /\ Leaf' = Leaf
    <2>1. fc'[node] = fc[n] + fc[m] /\ \A x \in Nodes : x # node => fc'[x] = fc[x]
      BY <1>2, <1>3, <1>4
    <2>2. \A x \in Symbols : x \in Nodes /\ x # node
      BY <1>4, Numbers DEF Symbols, Nodes
    <2> QED BY <2>1, <2>2 DEF Leaf
  <1> HIDE DEF m, S
  <1>11. Fathers' = Fathers + fc[n] + fc[m] /\ Fathers \in Int
    <2>1. Made' = Made \cup {node}
      BY <1>2, <1>4, Numbers DEF Made
    <2>2. \A x \in Nodes : /\ FatherAt[x] = (IF x \in Made THEN fc[x] ELSE 0)
                           /\ FatherAt'[x] = (IF x \in Made' THEN fc'[x] ELSE 0)
      BY DEF FatherAt
    <2>3. \A x \in Nodes : FatherAt[x] \in Int /\ FatherAt'[x] \in Int
      BY <1>3, <2>2
    <2>4. FatherAt[node] = 0 /\ FatherAt'[node] = fc[n] + fc[m] /\ \A x \in Nodes : x # node => FatherAt'[x] = FatherAt[x]
      BY <1>4, <1>5, <1>10, <2>1, <2>2
    <2>5. Total(FatherAt', 2 * elems - 1) = Total(FatherAt, 2 * elems - 1) + (FatherAt'[node] - FatherAt[node])
          /\ Total(FatherAt, 2 * elems - 1) \in Int
      BY <1>4, <2>3, <2>4, NodesChange, NodesSum
    <2>6. fc[n] \in Nat /\ fc[m] \in Nat
      BY <1>3, <1>7
    <2> QED BY <2>4, <2>5, <2>6 DEF Fathers
  <1>12. ASSUME NEW len \in Lengths
         PROVE  BitsOf(Leaf, len)' = BitsOf(Leaf, len) /\ (Fits(Leaf, len)' <=> Fits(Leaf, len))
    <2>1. \A x \in Leaf : fc'[x] = fc[x]
      BY <1>5, <1>10
    <2>2. BitsAt(Leaf, len)' = BitsAt(Leaf, len)
      BY <1>10, <2>1 DEF BitsAt
    <2> QED BY <1>10, <2>2 DEF BitsOf, Fits, SpaceOf, SpaceAt, Weight
  <1>13. ASSUME NEW len \in Lengths, Fits(Leaf, len)
         PROVE  \E d \in Lengths : Fits(Roots, d)' /\ BitsOf(Roots, d)' + Fathers' <= BitsOf(Leaf, len)
    <2>1. PICK l \in Lengths : Fits(S, l) /\ BitsOf(S, l) + Fathers <= BitsOf(Leaf, len)
      BY <1>13 DEF RootsInv, S
    <2>2. PICK e \in Lengths : Fits(S, e) /\ BitsOf(S, e) <= BitsOf(S, l) /\ e[n] = e[m] /\ e[n] >= 1
      BY <1>3, <1>7, <1>9, <2>1, Exchange
    <2> DEFINE R == Roots'
    <2>3. PICK d \in Lengths :
             /\ SpaceOf(R, d) = SpaceOf(S, e)
             /\ BitsWith(fc', R, d) + fc[n] + fc[m] = BitsWith(fc, S, e)
             /\ BitsWith(fc', R, d) \in Int
      <3>1. \A x \in S : fc'[x] = fc[x]
        BY <1>7, <1>10
      <3>2. R = (S \ {n, m}) \cup {node}
        BY <1>8
      <3>3. /\ n \in Nodes /\ m \in Nodes /\ node \in Nodes /\ n # m /\ n # node /\ m # node
            /\ S \subseteq Nodes /\ n \in S /\ m \in S /\ node \notin S
            /\ fc \in [Nodes -> Nat] /\ fc' \in [Nodes -> Nat] /\ fc'[node] = fc[n] + fc[m]
            /\ e \in Lengths /\ e[n] = e[m] /\ e[n] >= 1
        BY <1>3, <1>4, <1>7, <1>10, <2>2
      <3> HIDE DEF R
      <3> QED BY <3>1, <3>2, <3>3, Fathered, SMTT(30)
    <2>4. BitsWith(fc, S, e) = BitsOf(S, e)
      BY DEF BitsOf, BitsAt, BitsWith
    <2>5. BitsWith(fc', R, d) = BitsOf(Roots, d)'
      BY DEF BitsOf, BitsAt, BitsWith
    <2>6. Fits(Roots, d)'
      <3>1. SpaceOf(Roots, d)' = SpaceOf(R, d)
        BY DEF SpaceOf, SpaceAt, Weight
      <3> QED BY <2>2, <2>3, <3>1 DEF Fits
    <2>7. BitsOf(S, e) \in Nat /\ BitsOf(S, l) \in Nat /\ BitsOf(Leaf, len) \in Nat
      BY <1>3, BitFacts
    <2>8. fc[n] \in Nat /\ fc[m] \in Nat
      BY <1>3, <1>7
    <2>9. BitsOf(Roots, d)' + fc[n] + fc[m] = BitsOf(S, e)
      BY <2>3, <2>4, <2>5
    <2>10. BitsOf(Roots, d)' \in Int
      BY <2>3, <2>5
    <2>11. BitsOf(Roots, d)' + Fathers' <= BitsOf(Leaf, len)
      BY <1>11, <2>1, <2>2, <2>7, <2>8, <2>9, <2>10
    <2> QED BY <2>6, <2>11
  <1> QED BY <1>12, <1>13 DEF RootsInv

-----------------------------------------------------------------------------
(* Optimality: the scan of the lengths                                      *)

\* The root has its length, and no other node.
AtScanStart ==
    TypeOK /\ Placed /\ TreeInv /\ LengthsInv /\ SonsInv /\ pc = "lengths" /\ h = heap_max + 1

\* With its length the root stands for all fathers.
LEMMA ScanStart == AtScanStart => ScanInv
  <1> SUFFICES ASSUME TypeOK, Placed, TreeInv, LengthsInv, SonsInv, pc = "lengths", h = heap_max + 1
               PROVE  ScanInv
    BY DEF AtScanStart
  <1>1. /\ Joins \in Nat /\ Joins >= 1 /\ node = elems + Joins /\ node \in Nat /\ node <= 2 * elems - 1
        /\ heap_max = HEAP_SIZE - 2 * Joins - 1 /\ heap_max \in Nat /\ h \in Nat
    BY Numbers DEF TypeOK, TreeInv, Joins
  <1>2. heap \in [0 .. HEAP_SIZE - 1 -> Nodes] /\ fc \in [Nodes -> Nat]
    BY DEF TypeOK
  <1> DEFINE r == node - 1
  <1>3. Seen = {r} /\ r \in Nodes /\ r \notin Leaf /\ dl[r] = 0
    <2>1. heap_max .. h - 1 = {heap_max}
      BY <1>1
    <2>2. heap[heap_max] = r /\ dl[heap[heap_max]] = 0
      BY DEF TreeInv, LengthsInv
    <2>3. r \in Nodes /\ r \notin Leaf
      BY <1>1, Numbers DEF Nodes, Leaf, Symbols
    <2> HIDE DEF r
    <2> QED BY <2>1, <2>2, <2>3 DEF Seen
  <1>4. PICK i \in Nat : r = elems + i /\ i = Joins - 1 /\ i \in 0 .. Joins - 1
    <2>1. Joins - 1 \in Nat /\ r = elems + (Joins - 1) /\ Joins - 1 \in 0 .. Joins - 1
      BY <1>1, Numbers
    <2> QED BY <2>1
  <1> DEFINE c == HEAP_SIZE - 1 - 2 * i
             d == HEAP_SIZE - 2 - 2 * i
  <1>5. c >= h /\ d >= h /\ c # d /\ c \in 0 .. HEAP_SIZE - 1 /\ d \in 0 .. HEAP_SIZE - 1
    BY <1>1, <1>4, Numbers
  <1>6. \A j \in 0 .. HEAP_SIZE - 1 : Father(j) = r <=> j = c \/ j = d
    BY <1>4, Sons
  <1>7. fc[r] = fc[heap[c]] + fc[heap[d]]
    BY <1>4 DEF SonsInv
  <1> HIDE DEF c, d, r
  <1>8. fc[r] \in Nat /\ fc[heap[c]] \in Nat /\ fc[heap[d]] \in Nat
    BY <1>2, <1>3, <1>5
  <1>9. Total(Spent, 2 * elems - 1) = -fc[r]
    <2> DEFINE o == [x \in Nodes |-> 0]
    <2>1. \A x \in Nodes : Spent[x] = IF x = r THEN -fc[r] ELSE 0
      BY <1>3 DEF Spent
    <2>2. \A x \in Nodes : o[x] = 0 /\ o[x] \in Int /\ Spent[x] \in Int /\ (x # r => Spent[x] = o[x])
      BY <1>8, <2>1
    <2> HIDE DEF o
    <2>3. \A x \in Nodes : o[x] \in Int /\ Spent[x] \in Int
      BY <2>2
    <2>4. Total(Spent, 2 * elems - 1) = Total(o, 2 * elems - 1) + (Spent[r] - o[r])
      BY <1>3, <2>2, <2>3, NodesChange
    <2>5. PICK to \in Nat : to = 2 * elems - 1
      BY Numbers
    <2>6. Nodes = 0 .. to - 1
      BY <2>5, Numbers DEF Nodes
    <2>7. Total(o, to) = 0
      BY <2>2, <2>6, TotalZero
    <2> QED BY <1>3, <1>8, <2>1, <2>2, <2>4, <2>5, <2>7
  <1>10. Total(Reached, HEAP_SIZE) = fc[heap[c]] + fc[heap[d]]
    <2> DEFINE o == [j \in 0 .. HEAP_SIZE - 1 |-> 0]
    <2>1. \A j \in 0 .. HEAP_SIZE - 1 : Reached[j] = IF j >= h /\ Father(j) \in Seen THEN fc[heap[j]] * (dl[Father(j)] + 1) ELSE 0
      BY DEF Reached
    <2>2. Reached[c] = fc[heap[c]] /\ Reached[d] = fc[heap[d]]
      <3>1. Reached[c] = fc[heap[c]] * (0 + 1) /\ Reached[d] = fc[heap[d]] * (0 + 1)
        BY <1>3, <1>5, <1>6, <2>1
      <3> QED BY <1>8, <3>1
    <2>3. \A j \in 0 .. HEAP_SIZE - 1 : j # c /\ j # d => Reached[j] = 0
      BY <1>3, <1>6, <2>1
    <2>4. \A j \in 0 .. HEAP_SIZE - 1 : o[j] = 0
      OBVIOUS
    <2> HIDE DEF o
    <2>5. Summable(o, HEAP_SIZE) /\ Summable(Reached, HEAP_SIZE) /\ HEAP_SIZE \in Nat
      BY <1>8, <2>2, <2>3, <2>4, Numbers DEF Summable
    <2>6. Total(Reached, HEAP_SIZE) = Total(o, HEAP_SIZE) + (Reached[c] - o[c]) + (Reached[d] - o[d])
      BY <1>5, <2>3, <2>4, <2>5, TotalChange2
    <2>7. Total(o, HEAP_SIZE) = 0
      BY <2>4, <2>5, TotalZero
    <2> QED BY <1>5, <1>8, <2>2, <2>4, <2>6, <2>7
  <1> QED BY <1>7, <1>8, <1>9, <1>10 DEF ScanInv

\* The same after a step.
LEMMA NextScanStart == AtScanStart' => ScanInv'
BY ScanStart, PTL

\* A node that gets its length is paid for, a father pays for its sons.
LEMMA AssignScan ==
    ASSUME IInv, IInv', SonsInv, overflow = 0 => ScanInv, AssignLength, overflow' = 0
    PROVE  ScanInv'
  <1>1. /\ TypeOK /\ Placed /\ TreeInv /\ LengthsInv /\ pc = "lengths" /\ h < HEAP_SIZE
        /\ dl'[Now] = NowLength /\ (\A x \in Nodes : x # Now => dl'[x] = dl[x])
        /\ overflow' = (IF Long THEN overflow + 1 ELSE overflow)
        /\ h' = h + 1 /\ Seen' = Seen \cup {Now} /\ (Now \notin Leaf => Now \in Made)
        /\ Leaf' = Leaf /\ UNCHANGED <<fc, heap, node, heap_max>> /\ TypeOK'
    BY AssignStep DEF IInv
  <1>2. /\ Joins \in Nat /\ heap_max \in Nat /\ h \in Nat /\ h >= heap_max + 1 /\ h \in Sorted
        /\ Now \in Nodes /\ Now \in Nat /\ Father(h) \in Seen /\ Now \notin Seen /\ Father(h) \in Nodes
        /\ \A j \in Sorted : j \in 0 .. HEAP_SIZE - 1 /\ heap[j] \in Nodes
        /\ node = elems + Joins
        /\ (~Long => NowLength = dl[Father(h)] + 1)
    BY <1>1, AssignFather
  <1>3. /\ fc \in [Nodes -> Nat] /\ dl \in [Nodes -> Nat] /\ dl' \in [Nodes -> Nat]
        /\ heap \in [0 .. HEAP_SIZE - 1 -> Nodes]
    BY <1>1 DEF TypeOK
  <1>4. ~Long /\ overflow = 0 /\ ScanInv /\ NowLength = dl[Father(h)] + 1 /\ NowLength \in Nat
    <2>1. overflow \in Nat
      BY <1>1 DEF TypeOK, LengthsInv
    <2>2. ~Long /\ overflow = 0
      BY <1>1, <2>1
    <2>3. ScanInv
      BY <2>2
    <2>4. NowLength = dl[Father(h)] + 1 /\ dl[Father(h)] \in Nat
      BY <1>2, <1>3, <2>2
    <2> QED BY <2>2, <2>3, <2>4
  <1>5. \A x \in Seen' : x \in Nodes
    <2>1. \A j \in heap_max .. h - 1 : j \in Sorted
      BY <1>1, <1>2, Numbers DEF Sorted
    <2> QED BY <1>1, <1>2, <2>1 DEF Seen
  <1>6. \A x, y \in Nat : x * y \in Nat /\ x * (y + 1) \in Nat /\ -x \in Int
    OBVIOUS
  <1> DEFINE f == fc[Now]
             g == Reached
             e == Reached'
             s == Spent
             t == Spent'
  <1>7. f \in Nat
    BY <1>2, <1>3
  <1>8. /\ \A j \in 0 .. HEAP_SIZE - 1 :
             g[j] = IF j >= h /\ Father(j) \in Seen THEN fc[heap[j]] * (dl[Father(j)] + 1) ELSE 0
        /\ \A j \in 0 .. HEAP_SIZE - 1 :
             e[j] = IF j >= h' /\ Father(j) \in Seen' THEN fc[heap[j]] * (dl'[Father(j)] + 1) ELSE 0
    BY <1>1 DEF Reached, Father
  <1>9. /\ \A x \in Nodes : s[x] = IF x \in Seen THEN IF x \in Leaf THEN fc[x] * dl[x] ELSE -fc[x] ELSE 0
        /\ \A x \in Nodes : t[x] = IF x \in Seen' THEN IF x \in Leaf THEN fc[x] * dl'[x] ELSE -fc[x] ELSE 0
    BY <1>1 DEF Spent
  <1>10. Total(s, 2 * elems - 1) + Total(g, HEAP_SIZE) = 0
    BY <1>4 DEF ScanInv
  <1> HIDE DEF g, e, s, t
  <1>11. /\ (\A j \in 0 .. HEAP_SIZE - 1 : g[j] \in Int /\ e[j] \in Int)
         /\ \A x \in Nodes : s[x] \in Int /\ t[x] \in Int
    <2>1. \A j \in 0 .. HEAP_SIZE - 1 : fc[heap[j]] \in Nat
      BY <1>3
    <2>2. \A x \in Seen' : dl'[x] \in Nat /\ fc[x] \in Nat
      BY <1>3, <1>5
    <2>3. \A x \in Seen : dl[x] \in Nat /\ fc[x] \in Nat
      BY <1>1, <1>3, <1>5
    <2>4. \A j \in 0 .. HEAP_SIZE - 1 : g[j] \in Int /\ e[j] \in Int
      BY <1>6, <1>8, <2>1, <2>2, <2>3
    <2>5. \A x \in Nodes : s[x] \in Int /\ t[x] \in Int
      BY <1>6, <1>9, <2>2, <2>3
    <2> QED BY <2>4, <2>5
  <1>12. /\ Summable(g, HEAP_SIZE) /\ Summable(e, HEAP_SIZE) /\ HEAP_SIZE \in Nat
         /\ Total(g, HEAP_SIZE) \in Int /\ Total(s, 2 * elems - 1) \in Int
    <2>1. Summable(g, HEAP_SIZE) /\ Summable(e, HEAP_SIZE) /\ HEAP_SIZE \in Nat
      BY <1>11, Numbers DEF Summable
    <2> QED BY <1>11, <2>1, TotalType, NodesSum
  <1>13. h \in 0 .. HEAP_SIZE - 1 /\ g[h] = f * NowLength /\ e[h] = 0
    BY <1>1, <1>2, <1>4, <1>8 DEF Now
  <1>14. ASSUME NEW j \in 0 .. HEAP_SIZE - 1, j # h, Father(j) # Now PROVE e[j] = g[j]
    <2>1. j >= h' <=> j >= h
      BY <1>1, <1>2, <1>14
    <2>2. Father(j) \in Seen' <=> Father(j) \in Seen
      BY <1>1, <1>14
    <2>3. Father(j) \in Seen => dl'[Father(j)] = dl[Father(j)]
      BY <1>1, <1>5, <1>14
    <2> QED BY <1>8, <2>1, <2>2, <2>3
  <1>15. /\ \A x \in Nodes : x # Now => t[x] = s[x]
         /\ s[Now] = 0 /\ t[Now] = IF Now \in Leaf THEN f * NowLength ELSE -f
    BY <1>1, <1>2, <1>9
  <1>16. Total(t, 2 * elems - 1) = Total(s, 2 * elems - 1) + t[Now] /\ t[Now] \in Int
    <2>1. Total(t, 2 * elems - 1) = Total(s, 2 * elems - 1) + (t[Now] - s[Now])
      BY <1>2, <1>11, <1>15, NodesChange
    <2> QED BY <1>2, <1>11, <1>12, <1>15, <2>1
  <1>17. f * NowLength \in Nat
    BY <1>4, <1>6, <1>7
  <1>18. CASE Now \in Leaf
    <2>1. ASSUME NEW j \in 0 .. HEAP_SIZE - 1 PROVE Father(j) # Now
      <3>1. Now \in Int /\ Now <= elems - 1
        BY <1>18, Sizes DEF Leaf
      <3>2. Father(j) >= elems /\ Father(j) \in Int
        BY Numbers DEF Father
      <3> QED BY <3>1, <3>2, Numbers
    <2>2. \A j \in 0 .. HEAP_SIZE - 1 : j # h => e[j] = g[j]
      BY <1>14, <2>1
    <2>3. Total(e, HEAP_SIZE) = Total(g, HEAP_SIZE) + (e[h] - g[h])
      <3> DEFINE at == h
      <3>1. at \in 0 .. HEAP_SIZE - 1 /\ \A j \in 0 .. HEAP_SIZE - 1 : j # at => e[j] = g[j]
        BY <1>13, <2>2
      <3> HIDE DEF at
      <3>2. Total(e, HEAP_SIZE) = Total(g, HEAP_SIZE) + (e[at] - g[at])
        BY <1>12, <3>1, TotalChange
      <3> QED BY <3>2 DEF at
    <2>4. Total(t, 2 * elems - 1) + Total(e, HEAP_SIZE) = 0
      BY <1>10, <1>12, <1>13, <1>15, <1>16, <1>17, <1>18, <2>3
    <2> QED BY <2>4 DEF ScanInv, t, e
  <1>19. CASE Now \notin Leaf
    <2>1. PICK i \in Nat : Now = elems + i /\ i \in 0 .. Joins - 1
      <3>1. Now - elems \in Nat /\ Now = elems + (Now - elems) /\ Now - elems \in 0 .. Joins - 1
        BY <1>1, <1>2, <1>19, Numbers DEF Made
      <3> QED BY <3>1
    <2> DEFINE c == HEAP_SIZE - 1 - 2 * i
               d == HEAP_SIZE - 2 - 2 * i
    <2>2. Now < Father(h)
      BY <1>1, <1>2 DEF Placed, Now
    <2>3. c > h /\ d > h /\ c # d /\ c \in 0 .. HEAP_SIZE - 1 /\ d \in 0 .. HEAP_SIZE - 1
      BY <1>1, <1>2, <2>1, <2>2, Numbers DEF Father
    <2>4. \A j \in 0 .. HEAP_SIZE - 1 : Father(j) = Now <=> j = c \/ j = d
      BY <2>1, Sons
    <2>5. f = fc[heap[c]] + fc[heap[d]]
      BY <2>1 DEF SonsInv
    <2> HIDE DEF c, d, f
    <2>6. g[c] = 0 /\ g[d] = 0
      BY <1>2, <1>8, <2>3, <2>4
    <2> DEFINE u == fc[heap[c]]
               v == fc[heap[d]]
    <2>7. e[c] = u * (NowLength + 1) /\ e[d] = v * (NowLength + 1)
      <3>1. c >= h' /\ d >= h'
        BY <1>1, <1>2, <2>3
      <3> QED BY <1>1, <1>8, <2>3, <2>4, <3>1
    <2>8. \A j \in 0 .. HEAP_SIZE - 1 : j # h /\ j # c /\ j # d => e[j] = g[j]
      BY <1>14, <2>4
    <2>9. Total(e, HEAP_SIZE) = Total(g, HEAP_SIZE) + (e[h] - g[h]) + (e[c] - g[c]) + (e[d] - g[d])
      <3>1. h # c /\ h # d
        BY <1>2, <2>3
      <3> QED BY <1>12, <1>13, <2>3, <2>8, <3>1, TotalChange3
    <2>10. u \in Nat /\ v \in Nat
      BY <1>3, <2>3
    <2> HIDE DEF u, v
    <2>11. u * (NowLength + 1) + v * (NowLength + 1) = f * NowLength + f
      <3>1. \A x, y, z \in Nat : x * (z + 1) + y * (z + 1) = (x + y) * z + (x + y)
        OBVIOUS
      <3>2. f = u + v
        BY <2>5 DEF u, v
      <3> QED BY <1>4, <2>10, <3>1, <3>2
    <2>12. e[c] \in Int /\ e[d] \in Int
      BY <1>11, <2>3
    <2>13. Total(e, HEAP_SIZE) = Total(g, HEAP_SIZE) + f
      BY <1>7, <1>12, <1>13, <1>17, <2>6, <2>7, <2>9, <2>11, <2>12
    <2>14. Total(t, 2 * elems - 1) + Total(e, HEAP_SIZE) = 0
      BY <1>7, <1>10, <1>12, <1>15, <1>16, <1>19, <2>13
    <2> QED BY <2>14 DEF ScanInv, t, e
  <1> QED BY <1>18, <1>19

-----------------------------------------------------------------------------
(* Optimality: the theorems                                                 *)

\* A sum over the nodes to which only symbols contribute.
LEMMA NodesSymbols ==
    ASSUME NEW g, NEW e, \A i \in Symbols : g[i] = e[i] /\ e[i] \in Int,
           \A x \in Nodes : x \notin Symbols => g[x] = 0
    PROVE  Total(g, 2 * elems - 1) = Total(e, elems)
  <1>1. PICK to \in Nat : to = 2 * elems - 1
    BY Numbers
  <1>2. elems <= to /\ elems \in Nat /\ Symbols = 0 .. elems - 1
    BY <1>1, Numbers DEF Symbols
  <1>3. \A x \in elems .. to - 1 : g[x] = 0
    <2>1. \A x \in elems .. to - 1 : x \in Nodes /\ x \notin Symbols
      BY <1>1, Numbers DEF Nodes, Symbols
    <2> QED BY <2>1
  <1>4. Summable(e, elems) /\ Summable(g, elems)
    BY <1>2 DEF Summable
  <1>5. Total(g, to) = Total(g, elems)
    BY <1>2, <1>3, <1>4, TotalMore
  <1>6. Total(g, elems) = Total(e, elems)
    BY <1>2, <1>4, TotalSame
  <1> QED BY <1>1, <1>5, <1>6

\* Once all nodes have their lengths, the leaves take the bits that are unavoidable.
LEMMA EndOptimal ==
    ASSUME IInv, pc = "lengths", h = HEAP_SIZE, overflow = 0, BestInv, ScanInv
    PROVE  Optimal
  <1>1. TypeOK /\ ForcedInv /\ Placed /\ TreeInv /\ LengthsInv
    BY DEF IInv, Measuring
  <1>2. /\ fc \in [Nodes -> Nat] /\ dl \in [Nodes -> Nat] /\ freq \in [Symbols -> Nat]
    BY <1>1 DEF TypeOK
  <1>3. \A i \in Leaf : i \in Seen /\ dl[i] \in 1 .. max_length /\ dl[i] \in Nat /\ i \in Symbols /\ i \in Nodes
    <2>1. \A i \in Leaf : i \in Seen /\ dl[i] \in 1 .. max_length
      BY <1>1, AllSeen
    <2>2. Symbols \subseteq Nodes
      BY Sizes
    <2> QED BY <1>2, <2>1, <2>2 DEF Leaf
  <1>4. Coded = Leaf
    <2>1. \A i \in Symbols : i \notin Leaf => dl[i] = 0
      BY <1>1 DEF Placed
    <2>2. \A i \in Leaf : i <= max_code /\ dl[i] # 0
      BY <1>1, <1>3, Numbers DEF Placed
    <2> QED BY <1>3, <2>1, <2>2 DEF Coded
  <1>5. \A x \in Nodes : x \in Seen <=> x \in Leaf \/ x \in Made
    <2>1. Places = Sorted /\ ~Held
      BY DEF Places, Building, Held
    <2>2. Sorted = heap_max .. h - 1
      BY DEF Sorted
    <2> QED BY <1>1, <2>1, <2>2 DEF Placed, Seen
  <1>6. Total(Spent, 2 * elems - 1) = 0
    <2>1. \A j \in 0 .. HEAP_SIZE - 1 : Reached[j] = 0
      BY Numbers DEF Reached
    <2>2. Total(Reached, HEAP_SIZE) = 0
      BY <2>1, TotalZero, Numbers
    <2>3. \A x \in Nodes : Spent[x] \in Int
      <3>1. \A x, y \in Nat : x * y \in Int /\ -x \in Int
        OBVIOUS
      <3>2. \A x \in Nodes : fc[x] \in Nat /\ dl[x] \in Nat
        BY <1>2
      <3> QED BY <3>1, <3>2 DEF Spent
    <2>4. Total(Spent, 2 * elems - 1) \in Int
      BY <2>3, NodesSum
    <2> QED BY <2>2, <2>4 DEF ScanInv
  <1>7. BitsOf(Leaf, dl) = Fathers
    <2> DEFINE f == BitsAt(Leaf, dl)
               g == FatherAt
               s == Spent
    <2>1. PICK to \in Nat : to = 2 * elems - 1
      BY Numbers
    <2>2. Nodes = 0 .. to - 1
      BY <2>1, Numbers DEF Nodes
    <2>3. \A x \in Nodes : f[x] = s[x] + g[x] /\ s[x] \in Int /\ g[x] \in Int
      <3>1. \A x, y \in Nat : x * y \in Int /\ -x \in Int
        OBVIOUS
      <3>2. \A x \in Nodes : fc[x] \in Nat /\ dl[x] \in Nat
        BY <1>2
      <3>3. Leaf \cap Made = {}
        BY <1>1, NodeSets
      <3>4. /\ \A x \in Nodes : f[x] = IF x \in Leaf THEN fc[x] * dl[x] ELSE 0
            /\ \A x \in Nodes : g[x] = IF x \in Made THEN fc[x] ELSE 0
            /\ \A x \in Nodes : s[x] = IF x \in Leaf THEN fc[x] * dl[x] ELSE IF x \in Made THEN -fc[x] ELSE 0
        BY <1>5 DEF BitsAt, FatherAt, Spent
      <3> HIDE DEF f, g, s
      <3>5. ASSUME NEW x \in Nodes PROVE f[x] = s[x] + g[x] /\ s[x] \in Int /\ g[x] \in Int
        <4>1. fc[x] * dl[x] \in Int /\ fc[x] \in Nat
          BY <3>1, <3>2
        <4> QED BY <3>3, <3>4, <4>1
      <3> QED BY <3>5
    <2> HIDE DEF f, g, s
    <2>4. Summable(s, to) /\ Summable(g, to)
      BY <2>2, <2>3 DEF Summable
    <2>5. Total(f, to) = Total(s, to) + Total(g, to) /\ Total(g, to) \in Int
      BY <2>2, <2>3, <2>4, TotalPlus, TotalType
    <2>6. Total(s, to) = 0
      BY <1>6, <2>1 DEF s
    <2>7. Total(f, to) = Total(g, to)
      BY <2>5, <2>6
    <2> QED BY <2>1, <2>7 DEF BitsOf, Fathers, f, g
  <1>8. ASSUME NEW len \in [Coded -> 1 .. MAX_BITS], Kraft(Coded, len)
        PROVE  Length(Coded, dl) <= Length(Coded, len)
    <2> DEFINE D == [i \in Symbols |-> IF i \in Coded THEN freq[i] * dl[i] ELSE 0]
               E == [i \in Symbols |-> IF i \in Coded THEN freq[i] * len[i] ELSE 0]
               K == [i \in Symbols |-> IF i \in Coded THEN Power2[MAX_BITS - len[i]] ELSE 0]
    <2>1. \A i \in Leaf : len[i] \in 1 .. MAX_BITS /\ len[i] \in Nat /\ len[i] >= 1 /\ MAX_BITS - len[i] \in 0 .. MAX_BITS
      <3>1. \A i \in Leaf : len[i] \in 1 .. MAX_BITS
        BY <1>4
      <3> QED BY <3>1, Numbers
    <2>2. \A x, y \in Nat : x * y \in Int
      OBVIOUS
    <2>3. /\ \A i \in Symbols : D[i] = IF i \in Leaf THEN freq[i] * dl[i] ELSE 0
          /\ \A i \in Symbols : E[i] = IF i \in Leaf THEN freq[i] * len[i] ELSE 0
          /\ \A i \in Symbols : K[i] = IF i \in Leaf THEN Weight(len[i]) ELSE 0
          /\ Length(Coded, dl) = Total(D, elems) /\ Length(Coded, len) = Total(E, elems)
          /\ Total(K, elems) <= Power2[MAX_BITS]
      BY <1>4, <1>8 DEF Length, Kraft, Weight
    <2> HIDE DEF D, E, K
    <2>4. \A i \in Symbols : D[i] \in Int /\ E[i] \in Int /\ K[i] \in Int
      <3>1. \A i \in Leaf : Weight(len[i]) \in Int
        BY <2>1, Powers DEF Weight
      <3>2. \A i \in Leaf : freq[i] \in Nat /\ dl[i] \in Nat /\ len[i] \in Nat
        BY <1>2, <1>3, <2>1
      <3> QED BY <2>2, <2>3, <3>1, <3>2
    <2>5. CASE Forced = {}
      <3> DEFINE ln == [x \in Nodes |-> IF x \in Leaf THEN len[x] ELSE 0]
      <3>1. ln \in Lengths /\ \A x \in Leaf : ln[x] = len[x]
        <4>1. \A x \in Leaf : len[x] \in 0 .. MAX_BITS
          BY <2>1, Numbers
        <4>2. 0 \in 0 .. MAX_BITS
          BY Numbers
        <4> QED BY <1>3, <4>1, <4>2 DEF Lengths
      <3> HIDE DEF ln
      <3>2. \A i \in Symbols : fc[i] = freq[i] /\ i \in Nodes
        BY <2>5, Sizes DEF Forced
      <3>3. Total(SpaceAt(Leaf, ln), 2 * elems - 1) = Total(K, elems)
        <4> DEFINE g == SpaceAt(Leaf, ln)
        <4>1. \A x \in Nodes : g[x] = IF x \in Leaf THEN Weight(len[x]) ELSE 0
          BY <3>1 DEF SpaceAt
        <4>2. \A i \in Symbols : g[i] = K[i] /\ K[i] \in Int
          BY <2>3, <2>4, <3>2, <4>1
        <4>3. \A x \in Nodes : x \notin Symbols => g[x] = 0
          BY <1>3, <4>1
        <4> HIDE DEF g
        <4>4. Total(g, 2 * elems - 1) = Total(K, elems)
          BY <4>2, <4>3, NodesSymbols
        <4> QED BY <4>4 DEF g
      <3>4. Total(BitsAt(Leaf, ln), 2 * elems - 1) = Total(E, elems)
        <4> DEFINE g == BitsAt(Leaf, ln)
        <4>1. \A x \in Nodes : g[x] = IF x \in Leaf THEN fc[x] * len[x] ELSE 0
          BY <3>1 DEF BitsAt
        <4>2. \A i \in Symbols : g[i] = E[i] /\ E[i] \in Int
          BY <2>3, <2>4, <3>2, <4>1
        <4>3. \A x \in Nodes : x \notin Symbols => g[x] = 0
          BY <1>3, <4>1
        <4> HIDE DEF g
        <4>4. Total(g, 2 * elems - 1) = Total(E, elems)
          BY <4>2, <4>3, NodesSymbols
        <4> QED BY <4>4 DEF g
      <3>5. Total(BitsAt(Leaf, dl), 2 * elems - 1) = Total(D, elems)
        <4> DEFINE g == BitsAt(Leaf, dl)
        <4>1. \A x \in Nodes : g[x] = IF x \in Leaf THEN fc[x] * dl[x] ELSE 0
          BY DEF BitsAt
        <4>2. \A i \in Symbols : g[i] = D[i] /\ D[i] \in Int
          BY <2>3, <2>4, <3>2, <4>1
        <4>3. \A x \in Nodes : x \notin Symbols => g[x] = 0
          BY <1>3, <4>1
        <4> HIDE DEF g
        <4>4. Total(g, 2 * elems - 1) = Total(D, elems)
          BY <4>2, <4>3, NodesSymbols
        <4> QED BY <4>4 DEF g
      <3>6. Fits(Leaf, ln)
        BY <2>3, <3>3 DEF Fits, SpaceOf
      <3>7. Fathers <= BitsOf(Leaf, ln)
        BY <3>1, <3>6 DEF BestInv
      <3> QED BY <1>7, <2>3, <3>4, <3>5, <3>7 DEF BitsOf
    <2>6. CASE Forced # {}
      <3>1. Joins = 1
        <4>1. Count(Leaf) = 2 /\ Joins + 1 = Count(Leaf)
          BY <1>1, <2>6 DEF ForcedInv, Measuring, TreeInv
        <4>2. Joins \in Int
          BY <1>1, Numbers DEF Joins, TypeOK
        <4> QED BY <4>1, <4>2
      <3>2. \A i \in Leaf : dl[i] = 1
        BY <1>1, <1>3, <3>1 DEF LengthsInv
      <3>3. \A i \in Symbols : D[i] <= E[i]
        <4>1. \A x, y \in Nat : y >= 1 => x * 1 <= x * y
          OBVIOUS
        <4>2. ASSUME NEW i \in Symbols PROVE D[i] <= E[i]
          <5>1. CASE i \in Leaf
            <6>1. freq[i] \in Nat /\ len[i] \in Nat /\ len[i] >= 1
              BY <1>2, <2>1, <5>1
            <6>2. freq[i] * 1 <= freq[i] * len[i]
              BY <4>1, <6>1
            <6> QED BY <2>3, <3>2, <5>1, <6>2
          <5>2. CASE i \notin Leaf
            BY <2>3, <5>2
          <5> QED BY <5>1, <5>2
        <4> QED BY <4>2
      <3>4. Total(D, elems) <= Total(E, elems)
        <4>1. elems \in Nat /\ Symbols = 0 .. elems - 1
          BY Sizes
        <4>2. Summable(D, elems) /\ Summable(E, elems)
          BY <2>4, <4>1 DEF Summable
        <4> QED BY <3>3, <4>1, <4>2, TotalMost
      <3> QED BY <2>3, <3>4
    <2> QED BY <2>5, <2>6
  <1> QED BY <1>8 DEF Optimal

\* A code stays optimal while lengths and frequencies do.
LEMMA OptimalFrame == ASSUME Optimal, UNCHANGED <<freq, dl, max_code>> PROVE Optimal'
  <1>1. Coded' = Coded
    BY DEF Coded
  <1>2. \A len : Length(Coded, len)' = Length(Coded, len)
    BY <1>1 DEF Length
  <1>3. Length(Coded, dl)' = Length(Coded, dl)
    BY <1>1 DEF Length
  <1>4. \A len : Kraft(Coded, len)' <=> Kraft(Coded, len)
    BY <1>1 DEF Kraft
  <1> QED BY <1>1, <1>2, <1>3, <1>4 DEF Optimal

\* The steps of build_tree keep the second invariant.
LEMMA BuildOptimal ==
    ASSUME IInv, IInv', OInv, build_tree
    PROVE  OInv'
  <1>1. CASE CountSymbol \/ ForceSymbol
    <2>1. pc' = "count"
      BY <1>1 DEF CountSymbol, ForceSymbol
    <2> QED BY <2>1 DEF OInv, Building
  <1>2. CASE HeapFilled
    <2>1. pc' = "heapify" /\ Building'
      BY <1>2 DEF HeapFilled, Building
    <2>2. OrderInv' /\ SonsInv' /\ RootsInv'
      BY <1>2, HeapFilledOrder, HeapFilledSons, HeapFilledRoots
    <2> QED BY <2>1, <2>2 DEF OInv
  <1>3. CASE Heapify \/ pqdownheap \/ pqremove \/ Join
    <2>1. Building /\ TypeOK
      BY <1>3 DEF Heapify, pqdownheap, pqremove, Join, Building, IInv
    <2>2. pc' \in {"heapify", "sift", "remove", "join", "joined"}
      BY <1>3, <2>1 DEF Heapify, pqdownheap, pqremove, Join, Sift, TypeOK
    <2>3. OrderInv /\ SonsInv /\ RootsInv
      BY <2>1 DEF OInv
    <2>4. OrderInv'
      BY <1>3, <2>3, HeapifyOrder, SiftOrder, pqremoveOrder, JoinOrder
    <2>5. SonsInv'
      BY <1>3, <2>3, QueueSons, JoinSons
    <2>6. RootsInv'
      BY <1>3, <2>3, QueueRoots, JoinRoots
    <2> QED BY <2>2, <2>4, <2>5, <2>6 DEF OInv, Building
  <1>4. CASE Joined
    <2>1. Building /\ TypeOK /\ QueueInv
      BY <1>4 DEF Joined, Building, IInv
    <2>2. OrderInv /\ SonsInv /\ RootsInv
      BY <2>1 DEF OInv
    <2>3. CASE Building'
      <3>1. OrderInv' /\ SonsInv' /\ RootsInv'
        BY <1>4, <2>2, <2>3, JoinedOrder, JoinedSons, JoinedRoots
      <3>2. pc' \in {"heapify", "sift", "remove", "join", "joined"}
        BY <2>3 DEF Building
      <3> QED BY <3>1, <3>2 DEF OInv
    <2>4. CASE ~Building'
      <3>1. pc' = "lengths" /\ heap_max' = heap_max - 1 /\ h' = heap_max /\ heap_max \in Nat
        BY <1>4, <2>1, <2>4 DEF Joined, Building, TypeOK
      <3>2. h' = heap_max' + 1
        BY <3>1
      <3>3. SonsInv' /\ BestInv'
        BY <1>4, <2>2, <2>4, JoinedSons, JoinedBest
      <3>4. TypeOK' /\ Placed' /\ TreeInv' /\ LengthsInv'
        BY <3>1 DEF IInv, Measuring
      <3>5. AtScanStart'
        BY <3>1, <3>2, <3>3, <3>4 DEF AtScanStart
      <3>6. ScanInv'
        BY <3>5, NextScanStart
      <3> QED BY <2>4, <3>1, <3>3, <3>6 DEF OInv
    <2> QED BY <2>3, <2>4
  <1> QED BY <1>1, <1>2, <1>3, <1>4 DEF build_tree

\* The steps of gen_bitlen keep the second invariant.
LEMMA LengthsOptimal ==
    ASSUME IInv, IInv', OInv, gen_bitlen
    PROVE  OInv'
  <1>1. CASE AssignLength
    <2>1. pc = "lengths" /\ pc' = "lengths" /\ UNCHANGED <<fc, node>>
      BY <1>1 DEF AssignLength
    <2>2. SonsInv /\ BestInv /\ (overflow = 0 => ScanInv)
      BY <2>1 DEF OInv
    <2>3. SonsInv' /\ (overflow' = 0 => ScanInv')
      BY <1>1, <2>2, AssignSons, AssignScan
    <2>4. BestInv'
      <3>1. Leaf' = Leaf /\ Fathers' = Fathers
        BY <2>1 DEF Leaf, Fathers, FatherAt, Made
      <3>2. \A len \in Lengths : BitsOf(Leaf, len)' = BitsOf(Leaf, len) /\ (Fits(Leaf, len)' <=> Fits(Leaf, len))
        BY <2>1, <3>1 DEF Fits, SpaceOf, SpaceAt, Weight, BitsOf, BitsAt
      <3> QED BY <2>2, <3>1, <3>2 DEF BestInv
    <2> QED BY <2>1, <2>3, <2>4 DEF OInv, Building
  <1>2. CASE LengthsAssigned
    <2>1. pc = "lengths" /\ h = HEAP_SIZE /\ cut' = (overflow # 0) /\ UNCHANGED <<freq, dl, max_code>>
      BY <1>2 DEF LengthsAssigned, tree
    <2>2. BestInv /\ (overflow = 0 => ScanInv)
      BY <2>1 DEF OInv
    <2>3. CASE overflow = 0 /\ ToCodes
      <3>1. Optimal
        BY <2>1, <2>2, <2>3, EndOptimal
      <3>2. Optimal'
        BY <2>1, <3>1, OptimalFrame
      <3>3. pc' = "first"
        BY <2>3 DEF ToCodes
      <3> QED BY <3>2, <3>3 DEF OInv, Building
    <2>4. CASE overflow # 0 /\ pc' = "overflow"
      BY <2>1, <2>4 DEF OInv, Building
    <2> QED BY <1>2, <2>3, <2>4 DEF LengthsAssigned
  <1>3. CASE FixOverflow \/ Reassign \/ NextLength
    <2>1. pc \in {"overflow", "reassign"} /\ cut' = cut /\ pc' \in {"overflow", "reassign", "first"}
      BY <1>3 DEF FixOverflow, Reassign, NextLength, counts, ToCodes
    <2>2. cut'
      BY <2>1 DEF OInv
    <2> QED BY <2>1, <2>2 DEF OInv, Building
  <1> QED BY <1>1, <1>2, <1>3 DEF gen_bitlen

\* gen_codes leaves the lengths alone.
LEMMA CodesKeptOptimal == ASSUME OInv, gen_codes PROVE OInv'
  <1>1. /\ pc \in {"first", "codes"} /\ pc' \in {"first", "codes", "done"}
        /\ UNCHANGED <<freq, dl, max_code, cut>>
    BY DEF gen_codes, FirstCode, AssignCode, tree, counts
  <1>2. ~cut => Optimal
    BY <1>1 DEF OInv
  <1>3. ~cut => Optimal'
    BY <1>1, <1>2, OptimalFrame
  <1> QED BY <1>1, <1>3 DEF OInv, Building

\* A step that changes nothing keeps the second invariant.
LEMMA StutterOptimal == ASSUME OInv, UNCHANGED vars PROVE OInv'
  <1>1. UNCHANGED <<freq, fc, dl, heap, heap_len, heap_max, node, max_code, overflow, cut, n, h, k, after, pc>>
    BY DEF vars, tree, queue, costs, counts, codes
  <1>2. (Building' <=> Building) /\ (OrderInv => OrderInv') /\ (SonsInv => SonsInv')
    BY <1>1 DEF Building, OrderInv, SonsInv, Low, Held, Queue, Joins
  <1>3. RootsInv => RootsInv'
    <2>1. Roots' = Roots
      BY <1>1 DEF Roots, Held, Queue
    <2> QED BY <1>1, <2>1, RootsFrame
  <1>4. BestInv => BestInv'
    BY <1>1 DEF BestInv, Leaf, Fathers, FatherAt, Made, Fits, SpaceOf, SpaceAt, Weight, BitsOf, BitsAt
  <1>5. ScanInv => ScanInv'
    BY <1>1 DEF ScanInv, Spent, Reached, Seen, Leaf, Father
  <1>6. Optimal => Optimal'
    BY <1>1, OptimalFrame
  <1> QED BY <1>1, <1>2, <1>3, <1>4, <1>5, <1>6 DEF OInv

\* The second invariant holds in every state: each join of build_tree takes two least
\* frequent nodes, and no lengths of the symbols make a shorter text than those from the tree.
THEOREM OptimalInvariance == Spec => []OInv
  <1>1. Init => OInv
    BY DEF Init, OInv, Building
  <1>2. IInv /\ IInv' /\ OInv /\ [Next]_vars => OInv'
    BY BuildOptimal, LengthsOptimal, CodesKeptOptimal, StutterOptimal DEF Next, Ended
  <1> QED BY <1>1, <1>2, Invariance, PTL DEF Spec

\* The lengths of gen_bitlen are optimal for the frequencies build_tree had, if none had to be
\* cut: no code without doubts makes the text shorter, whatever lengths up to MAX_BITS it has.
THEOREM CodesOptimal == Spec => []CodeOptimal
  <1>1. OInv => CodeOptimal
    BY DEF OInv, Optimal, CodeOptimal
  <1> QED BY <1>1, OptimalInvariance, PTL
=============================================================================
