---- MODULE SumsProofs ----
(***************************************************************************)
(* Induction and recursion over numbers, and what the sums and the joined  *)
(* sequences of Sums are.  The rules of induction in the library take an   *)
(* operator as a parameter; here they are for a set of numbers.            *)
(***************************************************************************)
EXTENDS Sums, FiniteSetTheorems, SequenceTheorems, WellFoundedInduction, TLAPS

(***************************************************************************)
(* Induction and recursion.                                                *)
(***************************************************************************)
\* A set of numbers with 0, and with the next of each of its members, has all of them:
\* of the intervals that end outside of it, there is no minimal one.
LEMMA Induction ==
  ASSUME NEW S, 0 \in S, \A n \in Nat : n \in S => n + 1 \in S
  PROVE  Nat \subseteq S
<1> SUFFICES ASSUME NEW k \in Nat, k \notin S
             PROVE  FALSE
  OBVIOUS
<1> DEFINE Outside == { 0 .. n : n \in (0 .. k) \ S }
<1>1. IsFiniteSet(0 .. k)
  BY FS_Interval
<1>2. IsWellFoundedOn(StrictSubsetOrdering(0 .. k), SUBSET (0 .. k))
  BY <1>1, FS_StrictSubsetOrderingWellFounded, FS_FiniteSubsetsOfFinite
<1>3. Outside \subseteq SUBSET (0 .. k) /\ Outside # {}
  OBVIOUS
<1>4. PICK T \in Outside : \A U \in Outside : <<U, T>> \notin StrictSubsetOrdering(0 .. k)
  BY <1>2, <1>3, WFMin
<1>5. PICK n \in (0 .. k) \ S : T = 0 .. n
  OBVIOUS
<1>6. n - 1 \in Nat /\ n - 1 + 1 = n
  BY <1>5
<1>7. 0 .. n - 1 \in Outside
  BY <1>5, <1>6
<1>8. n \in 0 .. n /\ n \notin 0 .. n - 1 /\ 0 .. n - 1 \subseteq 0 .. n
  BY <1>6
<1>9. <<0 .. n - 1, T>> \in StrictSubsetOrdering(0 .. k)
  BY <1>5, <1>8 DEF StrictSubsetOrdering
<1> QED
  BY <1>4, <1>7, <1>9

\* The same up to N.
LEMMA InductionTo ==
  ASSUME NEW N \in Nat, NEW S, 0 \in S, \A n \in 1 .. N : n - 1 \in S => n \in S
  PROVE  0 .. N \subseteq S
<1> DEFINE All == { n \in Nat : n \in S \/ n > N }
<1>1. 0 \in All
  OBVIOUS
<1>2. ASSUME NEW n \in Nat, n \in All
      PROVE  n + 1 \in All
  <2>1. CASE n + 1 > N
    BY <2>1
  <2>2. CASE ~(n + 1 > N)
    <3>1. n \in S /\ n + 1 \in 1 .. N /\ n + 1 - 1 = n
      BY <1>2, <2>2
    <3> QED
      BY <3>1
  <2> QED
    BY <2>1, <2>2
<1>3. Nat \subseteq All
  <2> HIDE DEF All
  <2> QED
    BY <1>1, <1>2, Induction
<1> QED
  BY <1>3

\* The function that begins with b and goes on with f.
RecursiveTo(N, b, f, g) == g = [n \in 0 .. N |-> IF n = 0 THEN b ELSE f[<<g[n - 1], n>>]]

\* Functions defined by recursion up to N exist: one up to n - 1 is extended by a step.
LEMMA Recursion ==
  ASSUME NEW N \in Nat, NEW V, NEW b \in V, NEW f \in [V \X (1 .. N) -> V]
  PROVE  \E g \in [0 .. N -> V] : RecursiveTo(N, b, f, g)
<1> DEFINE Until(n) == \E g \in [0 .. n -> V] :
             g[0] = b /\ \A i \in 1 .. n : g[i] = f[<<g[i - 1], i>>]
           S == { n \in 0 .. N : Until(n) }
<1>1. 0 \in S
  <2>1. PICK g : g = [i \in 0 .. 0 |-> b]
    OBVIOUS
  <2>2. g \in [0 .. 0 -> V] /\ g[0] = b
    BY <2>1
  <2>3. Until(0) /\ 0 \in 0 .. N
    BY <2>2
  <2> QED
    BY <2>3
<1>2. ASSUME NEW n \in 1 .. N, n - 1 \in S
      PROVE  n \in S
  <2>1. n - 1 \in 0 .. n - 1 /\ n \in 0 .. N /\ n \in Nat /\ 0 \in 0 .. n - 1
    OBVIOUS
  <2>2. PICK g \in [0 .. n - 1 -> V] :
          g[0] = b /\ \A i \in 1 .. n - 1 : g[i] = f[<<g[i - 1], i>>]
    BY <1>2
  <2>3. PICK v \in V : v = f[<<g[n - 1], n>>]
    BY <2>1, <2>2
  <2>4. PICK h : h = [i \in 0 .. n |-> IF i = n THEN v ELSE g[i]]
    OBVIOUS
  <2>5. h \in [0 .. n -> V] /\ h[n] = v /\ \A i \in 0 .. n - 1 : h[i] = g[i]
    BY <2>1, <2>4
  <2>6. \A i \in 1 .. n : h[i] = f[<<h[i - 1], i>>]
    <3> TAKE i \in 1 .. n
    <3>1. i - 1 \in 0 .. n - 1 /\ h[i - 1] = g[i - 1]
      BY <2>1, <2>5
    <3>2. CASE i = n
      BY <2>3, <2>5, <3>1, <3>2
    <3>3. CASE i # n
      <4>1. i \in 1 .. n - 1 /\ i \in 0 .. n - 1
        BY <2>1, <3>3
      <4> QED
        BY <2>2, <2>5, <3>1, <4>1
    <3> QED
      BY <3>2, <3>3
  <2>7. h[0] = b
    BY <2>1, <2>2, <2>5
  <2> QED
    BY <2>1, <2>5, <2>6, <2>7
<1>3. N \in S
  <2>1. 0 .. N \subseteq S
    <3> HIDE DEF S
    <3> QED
      BY <1>1, <1>2, InductionTo
  <2>2. N \in 0 .. N
    OBVIOUS
  <2> HIDE DEF S
  <2> QED
    BY <2>1, <2>2
<1>4. PICK g \in [0 .. N -> V] : g[0] = b /\ \A i \in 1 .. N : g[i] = f[<<g[i - 1], i>>]
  BY <1>3
<1>5. g = [n \in 0 .. N |-> IF n = 0 THEN b ELSE f[<<g[n - 1], n>>]]
  <2>1. \A n \in 0 .. N : g[n] = IF n = 0 THEN b ELSE f[<<g[n - 1], n>>]
    <3> TAKE n \in 0 .. N
    <3>1. CASE n = 0
      BY <1>4, <3>1
    <3>2. CASE n # 0
      <4>1. n \in 1 .. N
        BY <3>2
      <4> QED
        BY <1>4, <3>2, <4>1
    <3> QED
      BY <3>1, <3>2
  <2> QED
    BY <1>4, <2>1
<1> QED
  BY <1>5 DEF RecursiveTo

\* A set of places that has, with each, all those before it, is the first ones.
LEMMA FirstOnes ==
  ASSUME NEW N \in Nat, NEW P \in SUBSET (1 .. N),
         \A i \in P : \A j \in 1 .. i : j \in P
  PROVE  Cardinality(P) \in 0 .. N /\ P = 1 .. Cardinality(P)
<1>1. \E m \in 0 .. N : P = 1 .. m
  <2> DEFINE S == { n \in 0 .. N : 1 .. n \subseteq P }
  <2>1. 0 \in S
    OBVIOUS
  <2>2. CASE \A n \in 1 .. N : n - 1 \in S => n \in S
    <3>1. N \in S
      <4>1. 0 .. N \subseteq S
        <5> HIDE DEF S
        <5> QED
          BY <2>1, <2>2, InductionTo
      <4>2. N \in 0 .. N
        OBVIOUS
      <4> QED
        BY <4>1, <4>2
    <3> QED
      BY <3>1
  <2>3. CASE ~ \A n \in 1 .. N : n - 1 \in S => n \in S
    <3>1. PICK n \in 1 .. N : n - 1 \in S /\ n \notin S
      BY <2>3
    <3>2. n \notin P
      BY <3>1
    <3>3. \A i \in P : i \in 1 .. n - 1
      BY <3>2
    <3>4. P = 1 .. n - 1 /\ n - 1 \in 0 .. N
      BY <3>1, <3>3
    <3> QED
      BY <3>4
  <2> QED
    BY <2>2, <2>3
<1>2. PICK m \in 0 .. N : P = 1 .. m
  BY <1>1
<1>3. m \in Int /\ 1 \in Int
  OBVIOUS
<1>4. Cardinality(1 .. m) = IF 1 > m THEN 0 ELSE m - 1 + 1
  BY <1>3, FS_Interval
<1>5. Cardinality(P) = m
  BY <1>2, <1>4
<1> QED
  BY <1>2, <1>5

(***************************************************************************)
(* Sums and chains.                                                        *)
(***************************************************************************)
\* The sums of the first numbers of a sequence, one after the other.
SumsOf(lens, g) ==
  /\ g \in [0 .. Len(lens) -> Nat] /\ g[0] = 0
  /\ \A i \in 1 .. Len(lens) : g[i] = g[i - 1] + lens[i]

\* Total is the last of them.
LEMMA TotalIs ==
  ASSUME NEW lens \in Seq(Nat)
  PROVE  \E g : SumsOf(lens, g) /\ Total(lens) = g[Len(lens)]
<1>1. PICK N \in Nat : N = Len(lens)
  BY LenProperties
<1>2. \A i \in 1 .. N : lens[i] \in Nat
  BY <1>1, ElementOfSeq
<1>3. PICK f : f = [x \in Nat \X (1 .. N) |-> x[1] + lens[x[2]]]
  OBVIOUS
<1>4. f \in [Nat \X (1 .. N) -> Nat] /\ \A a \in Nat, i \in 1 .. N : f[<<a, i>>] = a + lens[i]
  <2>1. \A x \in Nat \X (1 .. N) : x[1] + lens[x[2]] \in Nat
    <3> TAKE x \in Nat \X (1 .. N)
    <3>1. x[1] \in Nat /\ x[2] \in 1 .. N
      OBVIOUS
    <3>2. lens[x[2]] \in Nat
      BY <1>2, <3>1
    <3> QED
      BY <3>1, <3>2
  <2>2. f \in [Nat \X (1 .. N) -> Nat]
    BY <1>3, <2>1
  <2>3. \A a \in Nat, i \in 1 .. N : f[<<a, i>>] = a + lens[i]
    BY <1>3
  <2> QED
    BY <2>2, <2>3
<1>5. PICK g \in [0 .. N -> Nat] :
        g = [n \in 0 .. N |-> IF n = 0 THEN 0 ELSE f[<<g[n - 1], n>>]]
  <2>1. PICK zero \in Nat : zero = 0
    OBVIOUS
  <2>2. \E g \in [0 .. N -> Nat] : RecursiveTo(N, zero, f, g)
    BY <1>4, Recursion
  <2> QED
    BY <2>1, <2>2 DEF RecursiveTo
<1>6. \A n \in 0 .. N : g[n] = IF n = 0 THEN 0 ELSE g[n - 1] + lens[n]
  <2> TAKE n \in 0 .. N
  <2>1. CASE n = 0
    BY <1>5, <2>1
  <2>2. CASE n # 0
    <3>1. n \in 1 .. N /\ n - 1 \in 0 .. N
      BY <2>2
    <3>2. g[n] = f[<<g[n - 1], n>>] /\ g[n - 1] \in Nat
      BY <1>5, <2>2, <3>1
    <3> QED
      BY <1>4, <2>2, <3>1, <3>2
  <2> QED
    BY <2>1, <2>2
<1>7. g = [n \in 0 .. N |-> IF n = 0 THEN 0 ELSE g[n - 1] + lens[n]]
  BY <1>5, <1>6
<1>8. PICK h : h = [n \in 0 .. N |-> IF n = 0 THEN 0 ELSE h[n - 1] + lens[n]]
               /\ Total(lens) = h[N]
  BY <1>1, <1>7 DEF Total
<1>9. h[0] = 0 /\ \A n \in 1 .. N : h[n] = h[n - 1] + lens[n]
  <2>1. 0 \in 0 .. N /\ \A n \in 1 .. N : n \in 0 .. N /\ n # 0
    OBVIOUS
  <2> QED
    BY <1>8, <2>1
<1>10. h \in [0 .. N -> Nat]
  <2> DEFINE S == { n \in 0 .. N : h[n] \in Nat }
  <2>1. 0 \in S
    BY <1>9
  <2>2. ASSUME NEW n \in 1 .. N, n - 1 \in S
        PROVE  n \in S
    <3>0. h[n - 1] \in Nat
      BY <2>2
    <3>1. PICK a \in Nat, b \in Nat : a = h[n - 1] /\ b = lens[n] /\ h[n] = a + b
      BY <1>2, <1>9, <3>0
    <3>2. a + b \in Nat /\ n \in 0 .. N
      OBVIOUS
    <3> QED
      BY <3>1, <3>2
  <2>3. 0 .. N \subseteq S
    <3> HIDE DEF S
    <3> QED
      BY <2>1, <2>2, InductionTo
  <2>4. \A n \in 0 .. N : h[n] \in Nat
    BY <2>3
  <2>5. DOMAIN h = 0 .. N /\ h = [n \in DOMAIN h |-> h[n]]
    BY <1>8
  <2> QED
    BY <2>4, <2>5
<1> QED
  BY <1>1, <1>8, <1>9, <1>10 DEF SumsOf

\* There is one function of those sums.
LEMMA TotalOf ==
  ASSUME NEW lens \in Seq(Nat), NEW g, SumsOf(lens, g)
  PROVE  Total(lens) = g[Len(lens)]
<1>1. PICK h : SumsOf(lens, h) /\ Total(lens) = h[Len(lens)]
  BY TotalIs
<1>2. PICK N \in Nat : N = Len(lens)
  BY LenProperties
<1> DEFINE S == { n \in 0 .. N : g[n] = h[n] }
<1>3. 0 \in S
  BY <1>1, <1>2 DEF SumsOf
<1>4. ASSUME NEW n \in 1 .. N, n - 1 \in S
      PROVE  n \in S
  BY <1>1, <1>2, <1>4 DEF SumsOf
<1>5. 0 .. N \subseteq S
  <2> HIDE DEF S
  <2> QED
    BY <1>3, <1>4, InductionTo
<1>6. g[N] = h[N]
  <2>1. N \in 0 .. N
    OBVIOUS
  <2> QED
    BY <1>5, <2>1
<1> QED
  BY <1>1, <1>2, <1>6

\* The sum of a sequence is a number.
LEMMA TotalNat ==
  ASSUME NEW lens \in Seq(Nat)
  PROVE  Total(lens) \in Nat
<1>1. PICK g : SumsOf(lens, g) /\ Total(lens) = g[Len(lens)]
  BY TotalIs
<1>2. PICK N \in Nat : N = Len(lens)
  BY LenProperties
<1>3. g \in [0 .. N -> Nat] /\ N \in 0 .. N
  BY <1>1, <1>2 DEF SumsOf
<1> QED
  BY <1>1, <1>2, <1>3

\* Nothing adds up to 0.
LEMMA TotalNone == Total(<<>>) = 0
<1>1. PICK none \in Seq(Nat) : none = <<>>
  BY EmptySeq
<1>2. Len(none) = 0
  BY <1>1, EmptySeq
<1>3. PICK g : SumsOf(none, g) /\ Total(none) = g[Len(none)]
  BY TotalIs
<1>4. g[0] = 0
  BY <1>3 DEF SumsOf
<1> QED
  BY <1>1, <1>2, <1>3, <1>4

\* One number adds up to itself.
LEMMA TotalOne ==
  ASSUME NEW n \in Nat
  PROVE  Total(<<n>>) = n
<1>1. PICK one \in Seq(Nat) : one = <<n>>
  <2>1. <<n>> \in Seq(Nat)
    OBVIOUS
  <2> QED
    BY <2>1
<1>2. Len(one) = 1 /\ one[1] = n
  BY <1>1
<1>3. PICK g : SumsOf(one, g) /\ Total(one) = g[Len(one)]
  BY TotalIs
<1>4. g[0] = 0 /\ g[1] = g[0] + one[1]
  <2>1. g[0] = 0 /\ \A i \in 1 .. 1 : g[i] = g[i - 1] + one[i]
    BY <1>2, <1>3 DEF SumsOf
  <2>2. 1 \in 1 .. 1 /\ 1 - 1 = 0
    OBVIOUS
  <2> QED
    BY <2>1, <2>2
<1> QED
  BY <1>1, <1>2, <1>3, <1>4

\* Two sequences, one behind the other, add up to both of their sums.
LEMMA TotalConcat ==
  ASSUME NEW a \in Seq(Nat), NEW b \in Seq(Nat)
  PROVE  Total(a \o b) = Total(a) + Total(b)
<1>1. PICK g : SumsOf(a, g) /\ Total(a) = g[Len(a)]
  BY TotalIs
<1>2. PICK h : SumsOf(b, h) /\ Total(b) = h[Len(b)]
  BY TotalIs
<1>3. PICK N \in Nat : N = Len(a)
  BY LenProperties
<1>4. PICK M \in Nat : M = Len(b)
  BY LenProperties
<1>5. PICK c \in Seq(Nat) : c = a \o b
  BY ConcatProperties
<1>6. /\ Len(c) = N + M
      /\ \A i \in 1 .. N + M : c[i] = IF i <= N THEN a[i] ELSE b[i - N]
  BY <1>3, <1>4, <1>5, ConcatProperties
<1>7. /\ g \in [0 .. N -> Nat] /\ g[0] = 0
      /\ \A i \in 1 .. N : g[i] = g[i - 1] + a[i]
  BY <1>1, <1>3 DEF SumsOf
<1>8. /\ h \in [0 .. M -> Nat] /\ h[0] = 0
      /\ \A i \in 1 .. M : h[i] = h[i - 1] + b[i]
  BY <1>2, <1>4 DEF SumsOf
<1>9. PICK f : f = [i \in 0 .. N + M |-> IF i <= N THEN g[i] ELSE g[N] + h[i - N]]
  OBVIOUS
<1>10. \A i \in 0 .. N + M : f[i] = IF i <= N THEN g[i] ELSE g[N] + h[i - N]
  BY <1>9
<1>11. f \in [0 .. N + M -> Nat]
  <2>1. \A i \in 0 .. N + M : f[i] \in Nat
    <3> TAKE i \in 0 .. N + M
    <3>1. CASE i <= N
      BY <1>7, <1>10, <3>1
    <3>2. CASE ~(i <= N)
      <4>1. i - N \in 0 .. M /\ N \in 0 .. N
        BY <3>2
      <4>2. g[N] \in Nat /\ h[i - N] \in Nat
        BY <1>7, <1>8, <4>1
      <4> QED
        BY <1>10, <3>2, <4>2
    <3> QED
      BY <3>1, <3>2
  <2> QED
    BY <1>9, <2>1
<1>12. \A i \in 1 .. N + M : f[i] = f[i - 1] + c[i]
  <2> TAKE i \in 1 .. N + M
  <2>1. i \in 0 .. N + M /\ i - 1 \in 0 .. N + M
    OBVIOUS
  <2>2. CASE i <= N
    <3>1. i - 1 <= N /\ i \in 1 .. N
      BY <2>2
    <3> QED
      BY <1>6, <1>7, <1>10, <2>1, <2>2, <3>1
  <2>3. CASE i = N + 1
    <3>1. 1 \in 1 .. M /\ 0 \in 0 .. M /\ i - N = 1 /\ ~(i <= N) /\ i - 1 = N /\ 1 - 1 = 0
          /\ N <= N
      BY <2>3
    <3>2. f[i] = g[N] + h[1] /\ f[i - 1] = g[N] /\ c[i] = b[1]
      BY <1>6, <1>10, <2>1, <3>1
    <3>3. h[1] = h[0] + b[1] /\ h[0] = 0
      BY <1>8, <3>1
    <3>4. h[1] \in Nat /\ h[0] \in Nat /\ b[1] \in Nat
      BY <1>4, <1>8, <3>1, ElementOfSeq
    <3>5. \A x, y, z \in Nat : z = 0 /\ y = z + x => \A n \in Nat : n + y = n + x
      OBVIOUS
    <3> QED
      BY <1>7, <3>2, <3>3, <3>4, <3>5
  <2>4. CASE i > N + 1
    <3>1. i - N \in 1 .. M /\ i - N - 1 \in 0 .. M /\ i - N \in 0 .. M /\ ~(i <= N)
          /\ ~(i - 1 <= N) /\ i - 1 - N = i - N - 1 /\ N \in 0 .. N
      BY <2>4
    <3>2. f[i] = g[N] + h[i - N] /\ f[i - 1] = g[N] + h[i - N - 1] /\ c[i] = b[i - N]
      BY <1>6, <1>10, <2>1, <3>1
    <3>3. h[i - N] = h[i - N - 1] + b[i - N]
      BY <1>8, <3>1
    <3>4. h[i - N] \in Nat /\ h[i - N - 1] \in Nat /\ b[i - N] \in Nat /\ g[N] \in Nat
      BY <1>4, <1>7, <1>8, <3>1, ElementOfSeq
    <3>5. PICK x \in Nat, y \in Nat, z \in Nat, n \in Nat :
            x = h[i - N] /\ y = h[i - N - 1] /\ z = b[i - N] /\ n = g[N]
      BY <3>4
    <3>6. f[i] = n + x /\ f[i - 1] = n + y /\ c[i] = z /\ x = y + z
      BY <3>2, <3>3, <3>5
    <3>7. n + x = (n + y) + z
      BY <3>6
    <3> QED
      BY <3>6, <3>7
  <2> QED
    BY <2>2, <2>3, <2>4
<1>13. SumsOf(c, f)
  <2>1. f[0] = 0
    BY <1>7, <1>10
  <2> QED
    BY <1>6, <1>11, <1>12, <2>1 DEF SumsOf
<1>14. Total(c) = f[N + M]
  BY <1>6, <1>13, TotalOf
<1>15. f[N + M] = g[N] + h[M]
  <2>1. N + M \in 0 .. N + M /\ N \in 0 .. N /\ g[N] \in Nat
    BY <1>7
  <2>2. CASE M = 0
    BY <1>8, <1>10, <2>1, <2>2
  <2>3. CASE M # 0
    <3>1. ~(N + M <= N) /\ N + M - N = M
      BY <2>3
    <3> QED
      BY <1>10, <2>1, <3>1
  <2> QED
    BY <2>2, <2>3
<1> QED
  BY <1>1, <1>2, <1>3, <1>4, <1>5, <1>14, <1>15

\* The chains up to each pbuf of chain, flattened.
ChainsOf(chain, g) ==
  /\ g \in [0 .. Len(chain) -> Seq(Nat)] /\ g[0] = <<>>
  /\ \A i \in 1 .. Len(chain) : g[i] = g[i - 1] \o chain[i]

\* Flattened is the last of them.
LEMMA FlattenedIs ==
  ASSUME NEW chain \in Seq(Seq(Nat))
  PROVE  \E g : ChainsOf(chain, g) /\ Flattened(chain) = g[Len(chain)]
<1>1. PICK N \in Nat : N = Len(chain)
  BY LenProperties
<1>2. \A i \in 1 .. N : chain[i] \in Seq(Nat)
  BY <1>1, ElementOfSeq
<1>3. PICK f : f = [x \in Seq(Nat) \X (1 .. N) |-> x[1] \o chain[x[2]]]
  OBVIOUS
<1>4. /\ f \in [Seq(Nat) \X (1 .. N) -> Seq(Nat)]
      /\ \A a \in Seq(Nat), i \in 1 .. N : f[<<a, i>>] = a \o chain[i]
  BY <1>2, <1>3, ConcatProperties
<1>5. PICK g \in [0 .. N -> Seq(Nat)] :
        g = [n \in 0 .. N |-> IF n = 0 THEN <<>> ELSE f[<<g[n - 1], n>>]]
  <2>1. PICK none \in Seq(Nat) : none = <<>>
    BY EmptySeq
  <2>2. \E g \in [0 .. N -> Seq(Nat)] : RecursiveTo(N, none, f, g)
    BY <1>4, Recursion
  <2> QED
    BY <2>1, <2>2 DEF RecursiveTo
<1>6. \A n \in 0 .. N : g[n] = IF n = 0 THEN <<>> ELSE g[n - 1] \o chain[n]
  <2> TAKE n \in 0 .. N
  <2>1. CASE n = 0
    BY <1>5, <2>1
  <2>2. CASE n # 0
    <3>1. n \in 1 .. N /\ n - 1 \in 0 .. N
      BY <2>2
    <3>2. g[n] = f[<<g[n - 1], n>>] /\ g[n - 1] \in Seq(Nat)
      BY <1>5, <2>2, <3>1
    <3> QED
      BY <1>4, <2>2, <3>1, <3>2
  <2> QED
    BY <2>1, <2>2
<1>7. g = [n \in 0 .. N |-> IF n = 0 THEN <<>> ELSE g[n - 1] \o chain[n]]
  BY <1>5, <1>6
<1>8. PICK h : h = [n \in 0 .. N |-> IF n = 0 THEN <<>> ELSE h[n - 1] \o chain[n]]
               /\ Flattened(chain) = h[N]
  BY <1>1, <1>7 DEF Flattened
<1>9. h[0] = <<>> /\ \A n \in 1 .. N : h[n] = h[n - 1] \o chain[n]
  <2>1. 0 \in 0 .. N /\ \A n \in 1 .. N : n \in 0 .. N /\ n # 0
    OBVIOUS
  <2> QED
    BY <1>8, <2>1
<1>10. h \in [0 .. N -> Seq(Nat)]
  <2> DEFINE S == { n \in 0 .. N : h[n] \in Seq(Nat) }
  <2>1. 0 \in S
    <3>1. h[0] \in Seq(Nat) /\ 0 \in 0 .. N
      BY <1>9, EmptySeq
    <3> QED
      BY <3>1
  <2>2. ASSUME NEW n \in 1 .. N, n - 1 \in S
        PROVE  n \in S
    <3>1. h[n - 1] \in Seq(Nat) /\ chain[n] \in Seq(Nat) /\ h[n] = h[n - 1] \o chain[n]
      BY <1>2, <1>9, <2>2
    <3>2. h[n] \in Seq(Nat)
      BY <3>1, ConcatProperties
    <3> QED
      BY <3>2
  <2>3. 0 .. N \subseteq S
    <3> HIDE DEF S
    <3> QED
      BY <2>1, <2>2, InductionTo
  <2>4. \A n \in 0 .. N : h[n] \in Seq(Nat)
    BY <2>3
  <2>5. DOMAIN h = 0 .. N /\ h = [n \in DOMAIN h |-> h[n]]
    BY <1>8
  <2> QED
    BY <2>4, <2>5
<1> QED
  BY <1>1, <1>8, <1>9, <1>10 DEF ChainsOf

\* There is one function of those chains.
LEMMA FlattenedOf ==
  ASSUME NEW chain \in Seq(Seq(Nat)), NEW g, ChainsOf(chain, g)
  PROVE  Flattened(chain) = g[Len(chain)]
<1>1. PICK h : ChainsOf(chain, h) /\ Flattened(chain) = h[Len(chain)]
  BY FlattenedIs
<1>2. PICK N \in Nat : N = Len(chain)
  BY LenProperties
<1> DEFINE S == { n \in 0 .. N : g[n] = h[n] }
<1>3. 0 \in S
  BY <1>1, <1>2 DEF ChainsOf
<1>4. ASSUME NEW n \in 1 .. N, n - 1 \in S
      PROVE  n \in S
  <2>1. g[n - 1] = h[n - 1]
    BY <1>4
  <2>2. g[n] = g[n - 1] \o chain[n] /\ h[n] = h[n - 1] \o chain[n]
    BY <1>1, <1>2 DEF ChainsOf
  <2>3. g[n] = h[n]
    BY <2>1, <2>2
  <2>4. n \in 0 .. N
    OBVIOUS
  <2> QED
    BY <2>3, <2>4
<1>5. 0 .. N \subseteq S
  <2> HIDE DEF S
  <2> QED
    BY <1>3, <1>4, InductionTo
<1>6. g[N] = h[N]
  <2>1. N \in 0 .. N
    OBVIOUS
  <2> QED
    BY <1>5, <2>1
<1> QED
  BY <1>1, <1>2, <1>6

\* What each part of chain adds up to.
TotalsOf(chain, lens) ==
  Len(lens) = Len(chain) /\ \A i \in 1 .. Len(chain) : lens[i] = Total(chain[i])

\* What is flattened adds up to what its parts add up to.
LEMMA TotalFlattened ==
  ASSUME NEW chain \in Seq(Seq(Nat)), NEW lens \in Seq(Nat), TotalsOf(chain, lens)
  PROVE  Flattened(chain) \in Seq(Nat) /\ Total(Flattened(chain)) = Total(lens)
<1>1. PICK N \in Nat : N = Len(chain)
  BY LenProperties
<1>2. PICK g : ChainsOf(chain, g) /\ Flattened(chain) = g[N]
  BY <1>1, FlattenedIs
<1>3. PICK h : SumsOf(lens, h) /\ Total(lens) = h[N]
  <2>1. Len(lens) = N
    BY <1>1 DEF TotalsOf
  <2>2. PICK h : SumsOf(lens, h) /\ Total(lens) = h[Len(lens)]
    BY TotalIs
  <2> QED
    BY <2>1, <2>2
<1>4. /\ g \in [0 .. N -> Seq(Nat)] /\ g[0] = <<>>
      /\ \A i \in 1 .. N : g[i] = g[i - 1] \o chain[i]
  BY <1>1, <1>2 DEF ChainsOf
<1>5. /\ h \in [0 .. N -> Nat] /\ h[0] = 0
      /\ \A i \in 1 .. N : h[i] = h[i - 1] + lens[i]
  BY <1>1, <1>3 DEF SumsOf, TotalsOf
<1> DEFINE S == { n \in 0 .. N : Total(g[n]) = h[n] }
<1>6. 0 \in S
  <2>1. Total(g[0]) = h[0] /\ 0 \in 0 .. N
    BY <1>4, <1>5, TotalNone
  <2> QED
    BY <2>1
<1>7. ASSUME NEW n \in 1 .. N, n - 1 \in S
      PROVE  n \in S
  <2>1. PICK k \in 0 .. N : k = n - 1
    OBVIOUS
  <2>2. PICK a \in Seq(Nat), b \in Seq(Nat) : a = g[k] /\ b = chain[n]
    BY <1>1, <1>4, ElementOfSeq
  <2>3. g[n] = a \o b
    BY <1>4, <2>1, <2>2
  <2>4. Total(a \o b) = Total(a) + Total(b)
    BY TotalConcat
  <2>5. Total(a) = h[k]
    BY <1>7, <2>1, <2>2
  <2>6. Total(b) = lens[n]
    BY <1>1, <2>2 DEF TotalsOf
  <2>7. h[n] = h[k] + lens[n]
    BY <1>5, <2>1
  <2>8. Total(g[n]) = h[n] /\ n \in 0 .. N
    BY <2>3, <2>4, <2>5, <2>6, <2>7
  <2> QED
    BY <2>8
<1>8. 0 .. N \subseteq S
  <2> HIDE DEF S
  <2> QED
    BY <1>6, <1>7, InductionTo
<1>9. g[N] \in Seq(Nat) /\ Total(g[N]) = h[N]
  <2>1. N \in 0 .. N
    OBVIOUS
  <2> QED
    BY <1>4, <1>8, <2>1
<1> QED
  BY <1>2, <1>3, <1>9
====
