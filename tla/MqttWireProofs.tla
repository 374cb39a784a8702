---- MODULE MqttWireProofs ----
(***************************************************************************)
(* For every MSS, send buffer, queue and heap that lwip_init lets through  *)
(* and for every set of packets: lwIP's books on what the client writes    *)
(* balance, a packet is cut only where tcp_write refused a piece, and none *)
(* of up to TCP_MSS bytes is cut while heap and pbufs for two full buffers *)
(* are free before it.                                                     *)
(***************************************************************************)
EXTENDS MqttWire, SumsProofs

(***************************************************************************)
(* Bytes, pbufs and memory of queues.                                      *)
(***************************************************************************)
\* The heap that a pbuf takes at most: a full segment and its headers.
PbufSize == MemOfTransport(TCP_MSS)

\* The pbufs of a segment are no larger than that.
Thrifty(s) == s.mem <= s.pbufs * PbufSize

\* A segment that TCP may send.
Fitting == { s \in [len : 0 .. TCP_MSS, pbufs : Nat, mem : Nat] : Thrifty(s) }

\* The numbers that Bytes, Pbufs and Memory add up.
LEMMA Columns ==
  ASSUME NEW segs \in Seq(Fitting)
  PROVE  /\ [i \in DOMAIN segs |-> segs[i].len] \in Seq(Nat)
         /\ [i \in DOMAIN segs |-> segs[i].pbufs] \in Seq(Nat)
         /\ [i \in DOMAIN segs |-> segs[i].mem] \in Seq(Nat)
<1>1. PICK N \in Nat : N = Len(segs)
  BY LenProperties
<1>2. DOMAIN segs = 1 .. N
  BY <1>1, LenProperties
<1>3. \A i \in 1 .. N : segs[i] \in Fitting
  BY <1>1, ElementOfSeq
<1>4. \A i \in 1 .. N : segs[i].len \in Nat /\ segs[i].pbufs \in Nat /\ segs[i].mem \in Nat
  BY <1>3, SendQueueAssumption DEF Fitting
<1>5. /\ [i \in 1 .. N |-> segs[i].len] \in Seq(Nat)
      /\ [i \in 1 .. N |-> segs[i].pbufs] \in Seq(Nat)
      /\ [i \in 1 .. N |-> segs[i].mem] \in Seq(Nat)
  BY <1>4, IsASeq
<1> QED
  BY <1>2, <1>5

\* They are numbers.
LEMMA SumsNat ==
  ASSUME NEW segs \in Seq(Fitting)
  PROVE  Bytes(segs) \in Nat /\ Pbufs(segs) \in Nat /\ Memory(segs) \in Nat
<1>1. Bytes(segs) \in Nat
  BY Columns, TotalNat DEF Bytes
<1>2. Pbufs(segs) \in Nat
  BY Columns, TotalNat DEF Pbufs
<1>3. Memory(segs) \in Nat
  BY Columns, TotalNat DEF Memory
<1> QED
  BY <1>1, <1>2, <1>3

\* An empty queue has nothing.
LEMMA SumsNone == Bytes(<<>>) = 0 /\ Pbufs(<<>>) = 0 /\ Memory(<<>>) = 0
<1>1. /\ [i \in DOMAIN <<>> |-> <<>>[i].len] = <<>>
      /\ [i \in DOMAIN <<>> |-> <<>>[i].pbufs] = <<>>
      /\ [i \in DOMAIN <<>> |-> <<>>[i].mem] = <<>>
  OBVIOUS
<1> QED
  BY <1>1, TotalNone DEF Bytes, Pbufs, Memory

\* One segment has its own.
LEMMA SumsOne ==
  ASSUME NEW s \in Fitting
  PROVE  Bytes(<<s>>) = s.len /\ Pbufs(<<s>>) = s.pbufs /\ Memory(<<s>>) = s.mem
<1>1. s.len \in Nat /\ s.pbufs \in Nat /\ s.mem \in Nat
  BY SendQueueAssumption DEF Fitting
<1>2. /\ [i \in DOMAIN <<s>> |-> <<s>>[i].len] = <<s.len>>
      /\ [i \in DOMAIN <<s>> |-> <<s>>[i].pbufs] = <<s.pbufs>>
      /\ [i \in DOMAIN <<s>> |-> <<s>>[i].mem] = <<s.mem>>
  OBVIOUS
<1>3. Total(<<s.len>>) = s.len /\ Total(<<s.pbufs>>) = s.pbufs /\ Total(<<s.mem>>) = s.mem
  BY <1>1, TotalOne
<1> QED
  BY <1>2, <1>3 DEF Bytes, Pbufs, Memory

\* The members of z are those of x and then those of y.
IsJoined(x, y, z) ==
  /\ Len(z) = Len(x) + Len(y)
  /\ \A i \in 1 .. Len(z) : z[i] = IF i <= Len(x) THEN x[i] ELSE y[i - Len(x)]

\* Such a sequence is x with y behind it.
LEMMA Joined ==
  ASSUME NEW x \in Seq(Nat), NEW y \in Seq(Nat), NEW z \in Seq(Nat),
         IsJoined(x, y, z)
  PROVE  z = x \o y
<1>1. PICK c \in Seq(Nat) : c = x \o y
  BY ConcatProperties
<1>2. /\ Len(c) = Len(x) + Len(y)
      /\ \A i \in 1 .. Len(x) + Len(y) : c[i] = IF i <= Len(x) THEN x[i] ELSE y[i - Len(x)]
  BY <1>1, ConcatProperties
<1>3. Len(c) = Len(z) /\ \A i \in 1 .. Len(c) : c[i] = z[i]
  BY <1>2 DEF IsJoined
<1>4. c = z
  BY <1>3, SeqEqual
<1> QED
  BY <1>1, <1>4

\* Of two queues, one behind the other, they are the sums.
LEMMA SumsConcat ==
  ASSUME NEW a \in Seq(Fitting), NEW b \in Seq(Fitting)
  PROVE  /\ a \o b \in Seq(Fitting)
         /\ Bytes(a \o b) = Bytes(a) + Bytes(b)
         /\ Pbufs(a \o b) = Pbufs(a) + Pbufs(b)
         /\ Memory(a \o b) = Memory(a) + Memory(b)
<1>1. PICK c \in Seq(Fitting) : c = a \o b
  BY ConcatProperties
<1>2. PICK N \in Nat : N = Len(a)
  BY LenProperties
<1>3. PICK M \in Nat : M = Len(b)
  BY LenProperties
<1>4. /\ Len(c) = N + M
      /\ \A i \in 1 .. N + M : c[i] = IF i <= N THEN a[i] ELSE b[i - N]
  BY <1>1, <1>2, <1>3, ConcatProperties
<1>5. DOMAIN a = 1 .. N /\ DOMAIN b = 1 .. M /\ DOMAIN c = 1 .. N + M
  BY <1>2, <1>3, <1>4, LenProperties
<1>6. Bytes(c) = Bytes(a) + Bytes(b)
  <2>1. PICK x \in Seq(Nat) : x = [i \in DOMAIN a |-> a[i].len]
    BY Columns
  <2>2. PICK y \in Seq(Nat) : y = [i \in DOMAIN b |-> b[i].len]
    BY Columns
  <2>3. PICK z \in Seq(Nat) : z = [i \in DOMAIN c |-> c[i].len]
    BY Columns
  <2>4. z = x \o y
    <3>1. Len(x) = N /\ Len(y) = M /\ Len(z) = N + M
      BY <1>5, <2>1, <2>2, <2>3, LenProperties
    <3>2. \A i \in 1 .. N + M : z[i] = IF i <= N THEN x[i] ELSE y[i - N]
      <4> TAKE i \in 1 .. N + M
      <4>1. z[i] = c[i].len
        BY <1>5, <2>3
      <4>2. CASE i <= N
        BY <1>4, <1>5, <2>1, <4>1, <4>2
      <4>3. CASE ~(i <= N)
        <5>1. i - N \in 1 .. M
          BY <4>3
        <5> QED
          BY <1>4, <1>5, <2>2, <4>1, <4>3, <5>1
      <4> QED
        BY <4>2, <4>3
    <3>3. IsJoined(x, y, z)
      BY <3>1, <3>2 DEF IsJoined
    <3> QED
      BY <3>3, Joined
  <2>5. Bytes(a) = Total(x) /\ Bytes(b) = Total(y) /\ Bytes(c) = Total(z)
    BY <2>1, <2>2, <2>3 DEF Bytes
  <2>6. Total(x \o y) = Total(x) + Total(y)
    BY TotalConcat
  <2> QED
    BY <2>4, <2>5, <2>6
<1>7. Pbufs(c) = Pbufs(a) + Pbufs(b)
  <2>1. PICK x \in Seq(Nat) : x = [i \in DOMAIN a |-> a[i].pbufs]
    BY Columns
  <2>2. PICK y \in Seq(Nat) : y = [i \in DOMAIN b |-> b[i].pbufs]
    BY Columns
  <2>3. PICK z \in Seq(Nat) : z = [i \in DOMAIN c |-> c[i].pbufs]
    BY Columns
  <2>4. z = x \o y
    <3>1. Len(x) = N /\ Len(y) = M /\ Len(z) = N + M
      BY <1>5, <2>1, <2>2, <2>3, LenProperties
    <3>2. \A i \in 1 .. N + M : z[i] = IF i <= N THEN x[i] ELSE y[i - N]
      <4> TAKE i \in 1 .. N + M
      <4>1. z[i] = c[i].pbufs
        BY <1>5, <2>3
      <4>2. CASE i <= N
        BY <1>4, <1>5, <2>1, <4>1, <4>2
      <4>3. CASE ~(i <= N)
        <5>1. i - N \in 1 .. M
          BY <4>3
        <5> QED
          BY <1>4, <1>5, <2>2, <4>1, <4>3, <5>1
      <4> QED
        BY <4>2, <4>3
    <3>3. IsJoined(x, y, z)
      BY <3>1, <3>2 DEF IsJoined
    <3> QED
      BY <3>3, Joined
  <2>5. Pbufs(a) = Total(x) /\ Pbufs(b) = Total(y) /\ Pbufs(c) = Total(z)
    BY <2>1, <2>2, <2>3 DEF Pbufs
  <2>6. Total(x \o y) = Total(x) + Total(y)
    BY TotalConcat
  <2> QED
    BY <2>4, <2>5, <2>6
<1>8. Memory(c) = Memory(a) + Memory(b)
  <2>1. PICK x \in Seq(Nat) : x = [i \in DOMAIN a |-> a[i].mem]
    BY Columns
  <2>2. PICK y \in Seq(Nat) : y = [i \in DOMAIN b |-> b[i].mem]
    BY Columns
  <2>3. PICK z \in Seq(Nat) : z = [i \in DOMAIN c |-> c[i].mem]
    BY Columns
  <2>4. z = x \o y
    <3>1. Len(x) = N /\ Len(y) = M /\ Len(z) = N + M
      BY <1>5, <2>1, <2>2, <2>3, LenProperties
    <3>2. \A i \in 1 .. N + M : z[i] = IF i <= N THEN x[i] ELSE y[i - N]
      <4> TAKE i \in 1 .. N + M
      <4>1. z[i] = c[i].mem
        BY <1>5, <2>3
      <4>2. CASE i <= N
        BY <1>4, <1>5, <2>1, <4>1, <4>2
      <4>3. CASE ~(i <= N)
        <5>1. i - N \in 1 .. M
          BY <4>3
        <5> QED
          BY <1>4, <1>5, <2>2, <4>1, <4>3, <5>1
      <4> QED
        BY <4>2, <4>3
    <3>3. IsJoined(x, y, z)
      BY <3>1, <3>2 DEF IsJoined
    <3> QED
      BY <3>3, Joined
  <2>5. Memory(a) = Total(x) /\ Memory(b) = Total(y) /\ Memory(c) = Total(z)
    BY <2>1, <2>2, <2>3 DEF Memory
  <2>6. Total(x \o y) = Total(x) + Total(y)
    BY TotalConcat
  <2> QED
    BY <2>4, <2>5, <2>6
<1> QED
  BY <1>1, <1>6, <1>7, <1>8

\* A queue is what comes before a place in it and what comes after.
LEMMA Split ==
  ASSUME NEW S, NEW q \in Seq(S), NEW n \in 0 .. Len(q)
  PROVE  /\ SubSeq(q, 1, n) \in Seq(S) /\ SubSeq(q, n + 1, Len(q)) \in Seq(S)
         /\ q = SubSeq(q, 1, n) \o SubSeq(q, n + 1, Len(q))
         /\ Len(SubSeq(q, 1, n)) = n /\ Len(SubSeq(q, n + 1, Len(q))) = Len(q) - n
<1>1. PICK N \in Nat : N = Len(q)
  BY LenProperties
<1>2. \A i \in 1 .. N : q[i] \in S
  BY <1>1, ElementOfSeq
<1>3. PICK k \in Int : k = n + 1
  OBVIOUS
<1>4. SubSeq(q, 1, n) \in Seq(S) /\ Len(SubSeq(q, 1, n)) = n
  <2>1. 1 \in Int /\ n \in Int /\ \A i \in 1 .. n : q[i] \in S
    BY <1>1, <1>2
  <2>2. /\ SubSeq(q, 1, n) \in Seq(S)
        /\ Len(SubSeq(q, 1, n)) = IF 1 <= n THEN n - 1 + 1 ELSE 0
    BY <2>1, SubSeqProperties
  <2> QED
    BY <2>2
<1>5. SubSeq(q, k, N) \in Seq(S) /\ Len(SubSeq(q, k, N)) = N - n
  <2>1. k \in Int /\ N \in Int /\ \A i \in k .. N : q[i] \in S
    BY <1>2, <1>3
  <2>2. /\ SubSeq(q, k, N) \in Seq(S)
        /\ Len(SubSeq(q, k, N)) = IF k <= N THEN N - k + 1 ELSE 0
    BY <2>1, SubSeqProperties
  <2> QED
    BY <1>1, <1>3, <2>2
<1>6. q = SubSeq(q, 1, n) \o SubSeq(q, n + 1, N)
  <2>1. 1 \in 1 .. Len(q) + 1 /\ n \in 1 - 1 .. Len(q) /\ N \in n .. Len(q)
    BY <1>1
  <2>2. SubSeq(q, 1, n) \o SubSeq(q, n + 1, N) = SubSeq(q, 1, N)
    BY <2>1, ConcatAdjacentSubSeq
  <2> QED
    BY <1>1, <2>2, SubSeqFull
<1> QED
  BY <1>1, <1>3, <1>4, <1>5, <1>6

\* The last segment of a queue, and those in front of it.
LEMMA LastSplit ==
  ASSUME NEW S, NEW q \in Seq(S), q # <<>>
  PROVE  /\ Front(q) \in Seq(S) /\ Last(q) \in S
         /\ q = Front(q) \o <<Last(q)>>
<1>1. PICK N \in Nat : N = Len(q)
  BY LenProperties
<1>2. N # 0
  BY <1>1, EmptySeq
<1>3. N \in 1 .. N /\ 1 \in 1 .. N /\ N - 1 \in 0 .. N /\ N \in 1 .. N
  BY <1>2
<1>4. SubSeq(q, 1, N - 1) \in Seq(S) /\ q[N] \in S
  BY <1>1, <1>3, Split, ElementOfSeq
<1>5. SubSeq(q, 1, N) = SubSeq(q, 1, N - 1) \o <<q[N]>>
  BY <1>1, <1>3, SubSeqRecursiveSecond
<1>6. SubSeq(q, 1, N) = q
  BY <1>1, SubSeqFull
<1> QED
  BY <1>1, <1>4, <1>5, <1>6 DEF Front, Last

\* The last segment of two queues, one behind the other, is that of the second.
LEMMA LastOfJoined ==
  ASSUME NEW S, NEW a \in Seq(S), NEW b \in Seq(S), b # <<>>
  PROVE  Last(a \o b) = Last(b)
<1>1. PICK N \in Nat : N = Len(a)
  BY LenProperties
<1>2. PICK M \in Nat \ {0} : M = Len(b)
  BY EmptySeq
<1>3. Len(a \o b) = N + M /\ N + M \in 1 .. N + M
  BY <1>1, <1>2, ConcatProperties
<1>4. (a \o b)[N + M] = b[M]
  <2>1. ~(N + M <= N) /\ N + M - N = M
    BY <1>2
  <2> QED
    BY <1>1, <1>2, <1>3, <2>1, ConcatProperties
<1> QED
  BY <1>2, <1>3, <1>4 DEF Last

(***************************************************************************)
(* The sizes that tcp_write computes.                                      *)
(***************************************************************************)
\* Aligning does not shorten.
LEMMA Aligned ==
  ASSUME NEW n \in Nat
  PROVE  Align4(n) \in Nat /\ Align4(n) >= n
<1>1. PICK q \in Nat : q = (n + 3) \div 4
  OBVIOUS
<1>2. q * 4 >= n
  BY <1>1
<1> QED
  BY <1>1, <1>2 DEF Align4

\* Blocks of the heap have sizes.
LEMMA BlockSizes ==
  ASSUME NEW n \in Nat
  PROVE  MemOfRaw(n) \in Nat /\ MemOfTransport(n) \in Nat
<1>1. Align4(n) \in Nat /\ Align4(16 + 14 + 20 + 20) \in Nat
  BY Aligned
<1> QED
  BY <1>1 DEF MemOfRaw, MemOfTransport

\* The buffer that is allocated holds what is to be written, and no more than a segment has room for.
LEMMA RoomFor ==
  ASSUME NEW p, NEW max \in Nat, NEW length \in 0 .. max, NEW first
  PROVE  PreallocSize(p, length, max, first) \in length .. max
<1>1. PICK a \in Nat : a = Align4(length + TCP_MSS) /\ a >= length
  <2>1. length + TCP_MSS \in Nat /\ length + TCP_MSS >= length
    BY SendQueueAssumption
  <2>2. Align4(length + TCP_MSS) \in Nat /\ Align4(length + TCP_MSS) >= length + TCP_MSS
    BY <2>1, Aligned
  <2> QED
    BY <2>1, <2>2, SendQueueAssumption
<1>2. Least(max, a) \in length .. max
  BY <1>1 DEF Least
<1>3. length \in length .. max
  OBVIOUS
<1>4. \/ PreallocSize(p, length, max, first) = Least(max, a)
      \/ PreallocSize(p, length, max, first) = length
  BY <1>1 DEF PreallocSize
<1> QED
  BY <1>2, <1>3, <1>4

\* Aligning keeps the order.
LEMMA AlignedOrder ==
  ASSUME NEW m \in Nat, NEW n \in Nat, m <= n
  PROVE  Align4(m) <= Align4(n)
<1>1. PICK a \in Nat, b \in Nat : a = (m + 3) \div 4 /\ b = (n + 3) \div 4
  OBVIOUS
<1>2. a <= b
  BY <1>1
<1>3. a * 4 <= b * 4
  BY <1>2
<1> QED
  BY <1>1, <1>3 DEF Align4

\* No pbuf takes more than one for a full segment, neither that of the SYN nor one added to a
\* segment.
LEMMA PbufSizes ==
  /\ PbufSize \in Nat /\ MemOfTransport(4) <= PbufSize
  /\ \A n \in 0 .. TCP_MSS : MemOfRaw(n) <= PbufSize /\ MemOfTransport(n) <= PbufSize
<1>1. PICK m \in Nat \ {0} : m = TCP_MSS
  BY SendQueueAssumption
<1>2. PICK a \in Nat : a = Align4(m)
  BY Aligned
<1>3. Align4(16 + 14 + 20 + 20) = 72 /\ Align4(4) = 4
  BY DEF Align4
<1>4. PbufSize = 80 + a
  BY <1>1, <1>2, <1>3 DEF PbufSize, MemOfTransport
<1>5. a >= 4
  <2>1. Align4(1) = 4 /\ Align4(1) <= Align4(m)
    <3>1. Align4(1) = 4
      BY DEF Align4
    <3>2. 1 \in Nat /\ m \in Nat /\ 1 <= m
      OBVIOUS
    <3> QED
      BY <3>1, <3>2, AlignedOrder
  <2> QED
    BY <1>2, <2>1
<1>6. MemOfTransport(4) <= PbufSize
  <2>1. MemOfTransport(4) = 84
    BY <1>3 DEF MemOfTransport
  <2> QED
    BY <1>4, <1>5, <2>1
<1>7. ASSUME NEW n \in 0 .. m
      PROVE  MemOfRaw(n) <= PbufSize /\ MemOfTransport(n) <= PbufSize
  <2>1. PICK b \in Nat : b = Align4(n) /\ b <= a
    <3>1. n \in Nat /\ n <= m
      OBVIOUS
    <3>2. Align4(n) \in Nat /\ Align4(n) <= Align4(m)
      BY <3>1, Aligned, AlignedOrder
    <3> QED
      BY <1>2, <3>2
  <2>2. MemOfRaw(n) = 24 + b /\ MemOfTransport(n) = 80 + b
    BY <1>3, <2>1 DEF MemOfRaw, MemOfTransport
  <2> QED
    BY <1>4, <2>1, <2>2
<1> QED
  BY <1>1, <1>4, <1>6, <1>7

\* What a queue takes of the heap is bounded by its pbufs.
LEMMA MemoryOfPbufs ==
  ASSUME NEW segs \in Seq(Fitting)
  PROVE  Memory(segs) <= Pbufs(segs) * PbufSize
<1>1. PICK N \in Nat : N = Len(segs) /\ DOMAIN segs = 1 .. N
  BY LenProperties
<1>2. PICK K \in Nat : K = PbufSize
  BY PbufSizes
<1>3. PICK ps \in Seq(Nat), ms \in Seq(Nat) :
        /\ ps = [i \in 1 .. N |-> segs[i].pbufs] /\ ms = [i \in 1 .. N |-> segs[i].mem]
        /\ Pbufs(segs) = Total(ps) /\ Memory(segs) = Total(ms)
  BY <1>1, Columns DEF Pbufs, Memory
<1>4. Len(ps) = N /\ Len(ms) = N
  <2>1. DOMAIN ps = 1 .. N /\ DOMAIN ms = 1 .. N
    BY <1>3
  <2> QED
    BY <2>1, LenProperties
<1>5. \A i \in 1 .. N : ps[i] \in Nat /\ ms[i] \in Nat /\ ms[i] <= ps[i] * K
  <2> TAKE i \in 1 .. N
  <2>1. segs[i] \in Fitting
    BY <1>1, ElementOfSeq
  <2>2. segs[i].pbufs \in Nat /\ segs[i].mem \in Nat
    BY <2>1 DEF Fitting
  <2>3. segs[i].mem <= segs[i].pbufs * K
    BY <1>2, <2>1 DEF Fitting, Thrifty
  <2> QED
    BY <1>3, <2>2, <2>3
<1>6. PICK f : SumsOf(ps, f) /\ Total(ps) = f[Len(ps)]
  BY TotalIs
<1>7. PICK g : SumsOf(ms, g) /\ Total(ms) = g[Len(ms)]
  BY TotalIs
<1>8. /\ f \in [0 .. N -> Nat] /\ g \in [0 .. N -> Nat] /\ f[0] = 0 /\ g[0] = 0
      /\ \A i \in 1 .. N : f[i] = f[i - 1] + ps[i] /\ g[i] = g[i - 1] + ms[i]
  BY <1>4, <1>6, <1>7 DEF SumsOf
<1> DEFINE S == { n \in 0 .. N : g[n] <= f[n] * K }
<1>9. 0 \in S
  <2>1. 0 <= 0 * K /\ 0 \in 0 .. N
    OBVIOUS
  <2> QED
    BY <1>8, <2>1
<1>10. ASSUME NEW n \in 1 .. N, n - 1 \in S
       PROVE  n \in S
  <2>1. n - 1 \in 0 .. N /\ n \in 0 .. N
    OBVIOUS
  <2>2. PICK a \in Nat, b \in Nat, x \in Nat, y \in Nat :
          a = f[n - 1] /\ b = g[n - 1] /\ x = ps[n] /\ y = ms[n]
    BY <1>5, <1>8, <2>1
  <2>3. b <= a * K /\ y <= x * K
    BY <1>5, <1>10, <2>2
  <2>4. (a + x) * K = a * K + x * K /\ a * K \in Nat /\ x * K \in Nat
    OBVIOUS
  <2>5. b + y <= (a + x) * K
    BY <2>3, <2>4
  <2>6. f[n] = a + x /\ g[n] = b + y
    BY <1>8, <2>2
  <2> QED
    BY <2>1, <2>5, <2>6
<1>11. N \in S
  <2>1. 0 .. N \subseteq S
    <3> HIDE DEF S
    <3> QED
      BY <1>9, <1>10, InductionTo
  <2>2. N \in 0 .. N
    OBVIOUS
  <2> HIDE DEF S
  <2> QED
    BY <2>1, <2>2
<1> QED
  BY <1>2, <1>3, <1>4, <1>6, <1>7, <1>11

\* As many segments as are needed, and not one more.
LEMMA Pieces ==
  ASSUME NEW left \in Nat
  PROVE  \E k \in Nat : /\ k = (left + TCP_MSS - 1) \div TCP_MSS
                       /\ left <= k * TCP_MSS
                       /\ (k - 1) * TCP_MSS < left
<1>1. PICK m \in Nat \ {0} : m = TCP_MSS
  BY SendQueueAssumption
<1>2. PICK k \in Nat : k = (left + m - 1) \div m
  OBVIOUS
<1>3. k * m <= left + m - 1 /\ left + m - 1 < k * m + m
  BY <1>2
<1>4. (k - 1) * m = k * m - m
  OBVIOUS
<1>5. k * m \in Int
  OBVIOUS
<1>6. left <= k * m /\ (k - 1) * m < left
  BY <1>3, <1>4, <1>5
<1> QED
  BY <1>1, <1>2, <1>6

\* The segments are no longer than the MSS and together as long as what is left.
LEMMA LengthsIs ==
  ASSUME NEW left \in Nat
  PROVE  /\ SegmentLengths(left) \in Seq(0 .. TCP_MSS)
         /\ Total(SegmentLengths(left)) = left
<1>1. PICK m \in Nat \ {0} : m = TCP_MSS
  BY SendQueueAssumption
<1>2. PICK k \in Nat : k = (left + m - 1) \div m /\ left <= k * m /\ (k - 1) * m < left
  BY <1>1, Pieces
<1>3. PICK L : L = [i \in 1 .. k |-> Least(m, left - (i - 1) * m)]
  OBVIOUS
<1>4. SegmentLengths(left) = L
  BY <1>1, <1>2, <1>3 DEF SegmentLengths
<1>5. \A i \in 1 .. k : (i - 1) * m = i * m - m /\ i * m \in Nat /\ (i - 1) * m \in Nat
  <2> TAKE i \in 1 .. k
  <2>1. (i - 1) * m = i * m - m
    OBVIOUS
  <2>2. i \in Nat /\ i - 1 \in Nat
    OBVIOUS
  <2>3. i * m \in Nat /\ (i - 1) * m \in Nat
    BY <2>2
  <2> QED
    BY <2>1, <2>3
<1>6. \A i \in 1 .. k : (i - 1) * m < left
  <2> TAKE i \in 1 .. k
  <2>1. i - 1 \in Nat /\ k - 1 \in Nat /\ i - 1 <= k - 1
    OBVIOUS
  <2>2. (i - 1) * m <= (k - 1) * m
    BY <2>1
  <2>3. (i - 1) * m \in Nat /\ (k - 1) * m \in Nat
    BY <2>1
  <2> QED
    BY <1>2, <2>2, <2>3
<1>7. \A i \in 1 .. k : L[i] = Least(m, left - (i - 1) * m)
  BY <1>3
<1>8. \A i \in 1 .. k : L[i] \in 0 .. m
  <2> TAKE i \in 1 .. k
  <2>1. PICK a \in Nat : a = (i - 1) * m /\ a < left
    BY <1>5, <1>6
  <2>2. L[i] = Least(m, left - a)
    BY <1>7, <2>1
  <2> QED
    BY <2>1, <2>2 DEF Least
<1>9. L \in Seq(0 .. m) /\ L \in Seq(Nat) /\ Len(L) = k
  <2>1. L \in [1 .. k -> 0 .. m]
    BY <1>3, <1>8
  <2>2. L \in [1 .. k -> Nat]
    BY <2>1
  <2> QED
    BY <2>1, <2>2
<1>10. PICK g : g = [i \in 0 .. k |-> Least(left, i * m)]
  OBVIOUS
<1>11. g \in [0 .. k -> Nat] /\ g[0] = 0 /\ g[k] = left
  <2>1. \A i \in 0 .. k : g[i] \in Nat
    <3> TAKE i \in 0 .. k
    <3>1. PICK a \in Nat : a = i * m
      OBVIOUS
    <3>2. g[i] = Least(left, a)
      BY <1>10, <3>1
    <3> QED
      BY <3>1, <3>2 DEF Least
  <2>2. g[0] = Least(left, 0)
    <3>1. 0 * m = 0 /\ 0 \in 0 .. k
      OBVIOUS
    <3> QED
      BY <1>10, <3>1
  <2>3. g[k] = Least(left, k * m)
    BY <1>10
  <2>4. PICK a \in Nat : a = k * m /\ left <= a
    BY <1>2
  <2>5. g[0] = 0
    BY <2>2 DEF Least
  <2>6. g[k] = left
    BY <2>3, <2>4 DEF Least
  <2> QED
    BY <1>10, <2>1, <2>5, <2>6
<1>12. \A i \in 1 .. k : g[i] = g[i - 1] + L[i]
  <2> TAKE i \in 1 .. k
  <2>1. PICK a \in Nat : a = (i - 1) * m /\ a < left
    BY <1>5, <1>6
  <2>2. i * m = a + m
    BY <1>5, <2>1
  <2>3. i \in 0 .. k /\ i - 1 \in 0 .. k
    OBVIOUS
  <2>4. g[i] = Least(left, a + m) /\ g[i - 1] = Least(left, a)
    BY <1>10, <2>1, <2>2, <2>3
  <2>5. L[i] = Least(m, left - a)
    BY <1>7, <2>1
  <2> QED
    BY <2>1, <2>4, <2>5 DEF Least
<1>13. SumsOf(L, g)
  BY <1>9, <1>11, <1>12 DEF SumsOf
<1>14. Total(L) = left
  BY <1>9, <1>11, <1>13, TotalOf
<1> QED
  BY <1>1, <1>4, <1>9, <1>14

(***************************************************************************)
(* The books of a pcb.                                                     *)
(***************************************************************************)
Pcbs == [snd_buf : 0 .. TCP_SND_BUF, snd_queuelen : 0 .. TCP_SND_QUEUELEN,
         unsent : Seq(Fitting), unacked : Seq(Fitting), unsent_oversize : 0 .. TCP_MSS,
         out : 0 .. TCP_SND_BUF, cwnd : 1 .. TCP_SND_BUF, memerr : BOOLEAN,
         free : 0 .. MEM_SIZE]

\* What is on a pcb's two queues agrees with its counters.
Balanced(p) ==
  /\ p.snd_buf + (Bytes(p.unacked) + Bytes(p.unsent)) = TCP_SND_BUF
  /\ p.snd_queuelen = Pbufs(p.unacked) + Pbufs(p.unsent)
  /\ p.free + (Memory(p.unacked) + Memory(p.unsent)) = MEM_SIZE
  /\ p.out <= Bytes(p.unacked) + Bytes(p.unsent)

\* The room kept in the last segment of a queue is inside of it.
RoomKept(unsent, room) ==
  IF unsent = <<>> THEN room = 0 ELSE room + Last(unsent).len <= TCP_MSS

PcbOK(p) == p \in Pcbs /\ Balanced(p) /\ RoomKept(p.unsent, p.unsent_oversize)

\* How tcp_write divides len among the old buffer, a buffer added to the last segment, and new
\* segments.
LEMMA Division ==
  ASSUME NEW p, PcbOK(p), NEW len \in Nat
  PROVE  \E o \in Nat, s \in Nat, c \in Nat, r \in Nat :
           /\ o = InOversize(p, len) /\ s = SpaceInLast(p, len) /\ c = InConcat(p, len)
           /\ r = len - InOversize(p, len) - InConcat(p, len) /\ c <= s
           /\ p.unsent = <<>> => o = 0 /\ c = 0
           /\ p.unsent # <<>> => /\ Last(p.unsent).len + o + c <= TCP_MSS
                                 /\ o <= p.unsent_oversize
                                 /\ c > 0 => Last(p.unsent).len + o + s <= TCP_MSS
<1>1. PICK m \in Nat \ {0} : m = TCP_MSS
  BY SendQueueAssumption
<1>2. PICK v \in Nat : v = p.unsent_oversize
  BY <1>1 DEF PcbOK, Pcbs
<1>3. p.unsent \in Seq(Fitting)
  BY DEF PcbOK, Pcbs
<1>4. CASE p.unsent = <<>>
  <2>1. InOversize(p, len) = 0 /\ SpaceInLast(p, len) = 0
    BY <1>4 DEF InOversize, SpaceInLast
  <2>2. InConcat(p, len) = 0
    BY <2>1 DEF InConcat, Least
  <2>3. PICK r \in Nat : r = len - InOversize(p, len) - InConcat(p, len)
    BY <2>1, <2>2
  <2>4. /\ 0 = InOversize(p, len) /\ 0 = SpaceInLast(p, len) /\ 0 = InConcat(p, len)
        /\ r = len - InOversize(p, len) - InConcat(p, len) /\ 0 <= 0
        /\ p.unsent = <<>> => 0 = 0 /\ 0 = 0
    BY <2>1, <2>2, <2>3
  <2>5. 0 \in Nat
    OBVIOUS
  <2> QED
    BY <1>4, <2>4, <2>5
<1>5. CASE p.unsent # <<>>
  <2>1. PICK l \in Nat : l = Last(p.unsent).len /\ v + l <= m
    <3>1. Last(p.unsent) \in Fitting
      BY <1>3, <1>5, LastSplit
    <3>2. Last(p.unsent).len \in Nat
      BY <1>1, <3>1 DEF Fitting
    <3>3. p.unsent_oversize + Last(p.unsent).len <= TCP_MSS
      BY <1>5 DEF PcbOK, RoomKept
    <3> QED
      BY <1>1, <1>2, <3>2, <3>3
  <2>2. PICK o \in Nat : o = InOversize(p, len) /\ o <= v /\ o <= len
    <3>1. InOversize(p, len) = Least(v, len)
      BY <1>2, <1>5 DEF InOversize
    <3> QED
      BY <3>1 DEF Least
  <2>3. PICK s \in Nat : s = SpaceInLast(p, len) /\ s = IF l = 0 THEN 0 ELSE m - l - o
    <3>1. SpaceInLast(p, len) = IF l = 0 THEN 0 ELSE m - l - o
      BY <1>1, <1>5, <2>1, <2>2 DEF SpaceInLast
    <3> QED
      BY <2>1, <2>2, <3>1
  <2>4. PICK c \in Nat : c = InConcat(p, len) /\ c <= s /\ c <= len - o
    <3>1. InConcat(p, len) = Least(s, len - o)
      BY <2>2, <2>3 DEF InConcat
    <3> QED
      BY <2>2, <3>1 DEF Least
  <2>5. PICK r \in Nat : r = len - o - c
    BY <2>2, <2>4
  <2>6. l + o + c <= m /\ (c > 0 => l + o + s <= m)
    BY <2>1, <2>2, <2>3, <2>4
  <2>7. r = len - InOversize(p, len) - InConcat(p, len)
    BY <2>2, <2>4, <2>5
  <2>8. /\ o = InOversize(p, len) /\ s = SpaceInLast(p, len) /\ c = InConcat(p, len)
        /\ r = len - InOversize(p, len) - InConcat(p, len) /\ c <= s
        /\ Last(p.unsent).len + o + c <= TCP_MSS /\ o <= p.unsent_oversize
        /\ c > 0 => Last(p.unsent).len + o + s <= TCP_MSS
    BY <1>1, <1>2, <2>1, <2>2, <2>3, <2>4, <2>6, <2>7
  <2> QED
    BY <1>5, <2>8
<1> QED
  BY <1>4, <1>5

\* The new segments hold what is left of len; the last one has its place in its buffer.
LEMMA NewIs ==
  ASSUME NEW p, PcbOK(p), NEW len \in Nat
  PROVE  \E new \in Seq(Fitting) :
           /\ new = NewSegments(p, len)
           /\ Bytes(new) = len - InOversize(p, len) - InConcat(p, len)
<1>0. PICK r \in Nat : r = len - InOversize(p, len) - InConcat(p, len)
  BY Division
<1>1. PICK L \in Seq(0 .. TCP_MSS) : L = SegmentLengths(r) /\ Total(L) = r
  BY LengthsIs
<1>2. PICK k \in Nat : k = Len(L) /\ DOMAIN L = 1 .. k
  BY LenProperties
<1>3. \A i \in 1 .. k : L[i] \in 0 .. TCP_MSS
  BY <1>2, ElementOfSeq
<1>4. PICK new :
        /\ new = NewSegments(p, len)
        /\ new = [i \in 1 .. k |->
                   [len |-> L[i], pbufs |-> 1,
                    mem |-> MemOfTransport(PreallocSize(p, L[i], TCP_MSS, i = 1))]]
  BY <1>0, <1>1, <1>2 DEF NewSegments
<1>5. \A i \in 1 .. k : new[i] \in Fitting
  <2> TAKE i \in 1 .. k
  <2>1. TCP_MSS \in Nat /\ L[i] \in 0 .. TCP_MSS
    BY <1>3, SendQueueAssumption
  <2>2. PreallocSize(p, L[i], TCP_MSS, i = 1) \in L[i] .. TCP_MSS
    BY <2>1, RoomFor
  <2>3. PreallocSize(p, L[i], TCP_MSS, i = 1) \in Nat
    BY <2>1, <2>2
  <2>4. PICK h \in Nat : h = MemOfTransport(PreallocSize(p, L[i], TCP_MSS, i = 1))
    BY <2>3, BlockSizes
  <2>5. new[i] = [len |-> L[i], pbufs |-> 1, mem |-> h]
    BY <1>4, <2>4
  <2>6. new[i] \in [len : 0 .. TCP_MSS, pbufs : Nat, mem : Nat]
    BY <2>1, <2>5
  <2>7. Thrifty(new[i])
    <3>1. PreallocSize(p, L[i], TCP_MSS, i = 1) \in 0 .. TCP_MSS
      BY <2>1, <2>2
    <3>2. PbufSize \in Nat /\ h <= PbufSize
      BY <2>4, <3>1, PbufSizes
    <3>3. h <= 1 * PbufSize
      BY <3>2
    <3> QED
      BY <2>5, <3>3 DEF Thrifty
  <2> QED
    BY <2>6, <2>7 DEF Fitting
<1>6. new \in Seq(Fitting) /\ DOMAIN new = 1 .. k
  <2>1. new \in [1 .. k -> Fitting]
    BY <1>4, <1>5
  <2> QED
    BY <2>1
<1>7. [i \in DOMAIN new |-> new[i].len] = L
  <2>1. \A i \in 1 .. k : new[i].len = L[i]
    BY <1>4
  <2>2. L = [i \in 1 .. k |-> L[i]]
    BY <1>2, LenProperties
  <2> QED
    BY <1>6, <2>1, <2>2
<1>8. Bytes(new) = r
  BY <1>1, <1>7 DEF Bytes
<1> QED
  BY <1>0, <1>4, <1>6, <1>8

\* The buffers that the write of len bytes takes, and where they end, with after on the unsent
\* queue: at most one buffer is added to the last segment.
Took(p, len, after) ==
  LET new == NewSegments(p, len)
      added == IF InConcat(p, len) > 0 THEN 1 ELSE 0
  IN /\ Pbufs(after) = Pbufs(p.unsent) + added + Pbufs(new)
     /\ Memory(after) <= Memory(p.unsent) + added * PbufSize + Memory(new)
     /\ new = <<>> => Last(after).len =
                       Last(p.unsent).len + InOversize(p, len) + InConcat(p, len)
     /\ new # <<>> => Last(after) = Last(new)

\* What tcp_write leaves on the unsent queue: len bytes more, and room that is counted right.
LEMMA AfterIs ==
  ASSUME NEW p, PcbOK(p), NEW len \in Nat \ {0}
  PROVE  \E after \in Seq(Fitting), room \in 0 .. TCP_MSS :
           /\ after = UnsentAfter(p, len) /\ after # <<>>
           /\ Bytes(after) = Bytes(p.unsent) + len
           /\ NewSegments(p, len) = <<>> => Pbufs(after) <= Pbufs(p.unsent) + 1
           /\ room = Oversize(p, len) /\ RoomKept(after, room) /\ Took(p, len, after)
<1>1. PICK m \in Nat \ {0} : m = TCP_MSS
  BY SendQueueAssumption
<1>2. PICK v \in 0 .. m : v = p.unsent_oversize
  BY <1>1 DEF PcbOK, Pcbs
<1>3. p.unsent \in Seq(Fitting)
  BY DEF PcbOK, Pcbs
<1>4. PICK o \in Nat, s \in Nat, c \in Nat, r \in Nat :
        /\ o = InOversize(p, len) /\ s = SpaceInLast(p, len) /\ c = InConcat(p, len)
        /\ r = len - o - c /\ c <= s
        /\ p.unsent = <<>> => o = 0 /\ c = 0
        /\ p.unsent # <<>> => /\ Last(p.unsent).len + o + c <= TCP_MSS
                              /\ o <= p.unsent_oversize
                              /\ c > 0 => Last(p.unsent).len + o + s <= TCP_MSS
  BY Division
<1>5. PICK new \in Seq(Fitting) : new = NewSegments(p, len) /\ Bytes(new) = r
  BY <1>4, NewIs
<1>6. Pbufs(p.unsent) \in Nat /\ Bytes(p.unsent) \in Nat
  BY <1>3, SumsNat
<1>7. ASSUME new # <<>>
      PROVE  \E room \in 0 .. m : /\ room = Oversize(p, len)
                                  /\ room + Last(new).len <= m
  <2>1. PICK l \in 0 .. m : l = Last(new).len
    <3>1. Last(new) \in Fitting
      BY <1>7, LastSplit
    <3> QED
      BY <1>1, <3>1 DEF Fitting
  <2>2. PICK big \in l .. m : big = PreallocSize(p, l, m, Len(new) = 1)
    BY RoomFor
  <2>3. Oversize(p, len) = big - l
    BY <1>1, <1>5, <1>7, <2>1, <2>2 DEF Oversize
  <2> QED
    BY <2>1, <2>2, <2>3
<1>8. PICK a \in {0, 1} : a = (IF InConcat(p, len) > 0 THEN 1 ELSE 0) /\ (c > 0 <=> a = 1)
  BY <1>4
<1>9. CASE p.unsent = <<>>
  <2>1. UnsentAfter(p, len) = new
    <3>1. UnsentAfter(p, len) = <<>> \o new
      BY <1>5, <1>9 DEF UnsentAfter
    <3> QED
      BY <3>1, ConcatEmptySeq
  <2>2. r = len /\ Bytes(p.unsent) = 0
    BY <1>4, <1>9, SumsNone
  <2>3. new # <<>>
    BY <1>5, <2>2, SumsNone
  <2>4. PICK room \in 0 .. m : room = Oversize(p, len) /\ room + Last(new).len <= m
    BY <1>7, <2>3
  <2>5. RoomKept(new, room)
    BY <1>1, <2>3, <2>4 DEF RoomKept
  <2>6. Bytes(new) = Bytes(p.unsent) + len
    BY <1>5, <2>2
  <2>7. Took(p, len, new)
    <3>1. PICK np \in Nat, nm \in Nat : np = Pbufs(new) /\ nm = Memory(new)
      BY SumsNat
    <3>2. a = 0 /\ Pbufs(p.unsent) = 0 /\ Memory(p.unsent) = 0
      BY <1>4, <1>9, <1>8, SumsNone
    <3>3. np = 0 + 0 + np /\ nm <= 0 + 0 * PbufSize + nm
      BY PbufSizes
    <3> QED
      BY <1>5, <1>8, <2>3, <3>1, <3>2, <3>3 DEF Took
  <2> QED
    BY <1>1, <1>5, <2>1, <2>3, <2>4, <2>5, <2>6, <2>7
<1>10. CASE p.unsent # <<>>
  <2>1. PICK f \in Seq(Fitting), e \in Fitting :
          /\ f = Front(p.unsent) /\ e = Last(p.unsent) /\ p.unsent = f \o <<e>>
    BY <1>3, <1>10, LastSplit
  <2>2. PICK l \in Nat, b \in Nat, h \in Nat : l = e.len /\ b = e.pbufs /\ h = e.mem
    BY SendQueueAssumption DEF Fitting
  <2>3. l + o + c <= m /\ o <= v /\ (c > 0 => l + o + s <= m)
    BY <1>1, <1>2, <1>4, <1>10, <2>1, <2>2
  <2>4. PICK z \in c .. s : z = ConcatSize(p, len)
    <3>1. s \in Nat /\ c \in 0 .. s
      BY <1>4
    <3>2. PreallocSize(p, c, s, TRUE) \in c .. s
      BY <3>1, RoomFor
    <3>3. ConcatSize(p, len) = PreallocSize(p, c, s, TRUE)
      BY <1>4 DEF ConcatSize
    <3> QED
      BY <3>2, <3>3
  <2>5. PICK x \in Fitting : /\ x = ExtendedLast(p, len) /\ x.len = l + o + c
                             /\ x.pbufs = b + (IF c > 0 THEN 1 ELSE 0)
                             /\ x.mem <= h + a * PbufSize
    <3>1. MemOfRaw(z) \in Nat
      <4>1. z \in Nat
        OBVIOUS
      <4> QED
        BY <4>1, BlockSizes
    <3>2. PbufSize \in Nat /\ h <= b * PbufSize /\ (c > 0 => MemOfRaw(z) <= PbufSize)
      <4>1. h <= b * PbufSize
        BY <2>1, <2>2 DEF Fitting, Thrifty
      <4>2. ASSUME c > 0
            PROVE  z \in 0 .. TCP_MSS
        BY <1>1, <2>2, <2>3, <4>2
      <4> QED
        BY <4>1, <4>2, PbufSizes
    <3>3. ExtendedLast(p, len) =
            [len |-> l + o + c, pbufs |-> b + (IF c > 0 THEN 1 ELSE 0),
             mem |-> h + (IF c > 0 THEN MemOfRaw(z) ELSE 0)]
      BY <1>4, <2>1, <2>2, <2>4 DEF ExtendedLast
    <3>4. CASE c > 0
      <4>1. ExtendedLast(p, len) = [len |-> l + o + c, pbufs |-> b + 1, mem |-> h + MemOfRaw(z)]
        BY <3>3, <3>4
      <4>2. l + o + c \in 0 .. TCP_MSS /\ b + 1 \in Nat /\ h + MemOfRaw(z) \in Nat
        BY <1>1, <2>3, <3>1
      <4>3. Thrifty([len |-> l + o + c, pbufs |-> b + 1, mem |-> h + MemOfRaw(z)])
        <5>1. PICK K \in Nat, y \in Nat : K = PbufSize /\ y = MemOfRaw(z)
          BY <3>1, <3>2
        <5>2. h <= b * K /\ y <= K
          BY <3>2, <3>4, <5>1
        <5>3. (b + 1) * K = b * K + K /\ b * K \in Nat
          OBVIOUS
        <5>4. h + y <= (b + 1) * K
          BY <5>2, <5>3
        <5> QED
          BY <5>1, <5>4 DEF Thrifty
      <4>4. [len |-> l + o + c, pbufs |-> b + 1, mem |-> h + MemOfRaw(z)] \in Fitting
        BY <4>2, <4>3 DEF Fitting
      <4>5. h + MemOfRaw(z) <= h + a * PbufSize
        <5>1. a * PbufSize = PbufSize
          BY <1>8, <3>2, <3>4
        <5> QED
          BY <3>1, <3>2, <3>4, <5>1
      <4> QED
        BY <3>4, <4>1, <4>4, <4>5
    <3>5. CASE ~(c > 0)
      <4>1. ExtendedLast(p, len) = [len |-> l + o + c, pbufs |-> b + 0, mem |-> h + 0]
        BY <3>3, <3>5
      <4>2. l + o + c \in 0 .. TCP_MSS /\ b + 0 \in Nat /\ h + 0 \in Nat
        BY <1>1, <2>3
      <4>3. Thrifty([len |-> l + o + c, pbufs |-> b + 0, mem |-> h + 0])
        <5>1. b + 0 = b /\ h + 0 = h
          OBVIOUS
        <5> QED
          BY <3>2, <5>1 DEF Thrifty
      <4>4. [len |-> l + o + c, pbufs |-> b + 0, mem |-> h + 0] \in Fitting
        BY <4>2, <4>3 DEF Fitting
      <4>5. h + 0 <= h + a * PbufSize
        <5>1. a * PbufSize \in Nat
          BY <1>8, <3>2
        <5> QED
          BY <5>1
      <4> QED
        BY <3>5, <4>1, <4>4, <4>5
    <3> QED
      BY <3>4, <3>5
  <2>6. PICK g \in Seq(Fitting) : g = Append(f, x) /\ g = f \o <<x>> /\ g # <<>>
    <3>1. Append(f, x) \in Seq(Fitting) /\ Append(f, x) # <<>>
      BY AppendProperties
    <3>2. Append(f, x) = f \o <<x>>
      BY AppendIsConcat
    <3> QED
      BY <3>1, <3>2
  <2>7. PICK after \in Seq(Fitting) : after = UnsentAfter(p, len) /\ after = g \o new
    <3>1. UnsentAfter(p, len) = g \o new
      BY <1>5, <1>10, <2>1, <2>5, <2>6 DEF UnsentAfter
    <3> QED
      BY <3>1, ConcatProperties
  <2>8. after # <<>>
    BY <2>6, <2>7, ConcatEqualIffEmpty
  <2>9. /\ Bytes(p.unsent) = Bytes(f) + l /\ Bytes(g) = Bytes(f) + (l + o + c)
        /\ Pbufs(p.unsent) = Pbufs(f) + b /\ Pbufs(g) = Pbufs(f) + x.pbufs
        /\ Bytes(f) \in Nat /\ Pbufs(f) \in Nat
    <3>1. <<e>> \in Seq(Fitting) /\ <<x>> \in Seq(Fitting)
      OBVIOUS
    <3>2. Bytes(<<e>>) = l /\ Pbufs(<<e>>) = b
      BY <2>2, SumsOne
    <3>3. Bytes(<<x>>) = l + o + c /\ Pbufs(<<x>>) = x.pbufs
      BY <2>5, SumsOne
    <3>4. /\ Bytes(f \o <<e>>) = Bytes(f) + Bytes(<<e>>)
          /\ Pbufs(f \o <<e>>) = Pbufs(f) + Pbufs(<<e>>)
      BY <3>1, SumsConcat
    <3>5. /\ Bytes(f \o <<x>>) = Bytes(f) + Bytes(<<x>>)
          /\ Pbufs(f \o <<x>>) = Pbufs(f) + Pbufs(<<x>>)
      BY <3>1, SumsConcat
    <3>6. Bytes(f) \in Nat /\ Pbufs(f) \in Nat
      BY SumsNat
    <3>7. Bytes(p.unsent) = Bytes(f) + l /\ Pbufs(p.unsent) = Pbufs(f) + b
      BY <2>1, <3>2, <3>4
    <3>8. Bytes(g) = Bytes(f) + (l + o + c) /\ Pbufs(g) = Pbufs(f) + x.pbufs
      <4>1. g = f \o <<x>>
        BY <2>6
      <4>2. PICK k, j, u : k = Bytes(<<x>>) /\ j = Pbufs(<<x>>) /\ u = l + o + c
        OBVIOUS
      <4>3. k = u /\ j = x.pbufs
        BY <3>3, <4>2
      <4>4. Bytes(g) = Bytes(f) + k /\ Pbufs(g) = Pbufs(f) + j
        BY <3>5, <4>1, <4>2
      <4> QED
        BY <4>2, <4>3, <4>4
    <3> QED
      BY <3>6, <3>7, <3>8
  <2>10. Bytes(after) = Bytes(p.unsent) + len
    <3>1. Bytes(after) = Bytes(g) + r
      BY <1>5, <2>7, SumsConcat
    <3>2. o + c + r = len
      <4>1. r = len - o - c
        BY <1>4
      <4>2. \A k \in Nat : k = len - o - c => o + c + k = len
        OBVIOUS
      <4> QED
        BY <4>1, <4>2
    <3>3. PICK n \in Nat : n = Bytes(f)
      BY <2>9
    <3>4. Bytes(p.unsent) = n + l /\ Bytes(g) = n + (l + o + c)
      BY <2>9, <3>3
    <3>5. Bytes(after) = n + (l + o + c) + r
      BY <3>1, <3>4
    <3>6. n + (l + o + c) + r = n + l + len
      BY <3>2
    <3> QED
      BY <3>4, <3>5, <3>6
  <2>11. ASSUME new = <<>>
         PROVE  after = g
    BY <2>7, <2>11, ConcatEmptySeq
  <2>12. ASSUME new = <<>>
         PROVE  Pbufs(after) <= Pbufs(p.unsent) + 1
    <3>1. Pbufs(after) = Pbufs(f) + b + (IF c > 0 THEN 1 ELSE 0)
      <4>1. after = g
        BY <2>11, <2>12
      <4>2. Pbufs(g) = Pbufs(f) + x.pbufs
        BY <2>9
      <4>3. x.pbufs = b + (IF c > 0 THEN 1 ELSE 0)
        BY <2>5
      <4>4. Pbufs(f) \in Nat
        BY <2>9
      <4> QED
        BY <4>1, <4>2, <4>3, <4>4
    <3> QED
      BY <2>2, <2>9, <3>1
  <2>13. ASSUME new # <<>>
         PROVE  Last(after) = Last(new)
    BY <2>7, <2>13, LastOfJoined
  <2>14. ASSUME new = <<>>
         PROVE  Last(after) = x
    <3>1. Last(f \o <<x>>) = Last(<<x>>)
      <4>1. <<x>> \in Seq(Fitting) /\ <<x>> # <<>>
        OBVIOUS
      <4> QED
        BY <4>1, LastOfJoined
    <3>2. Last(<<x>>) = x
      BY DEF Last
    <3> QED
      BY <2>6, <2>11, <2>14, <3>1, <3>2
  <2>15. Took(p, len, after)
    <3>1. PICK fp \in Nat, fm \in Nat, np \in Nat, nm \in Nat, K \in Nat :
            /\ fp = Pbufs(f) /\ fm = Memory(f) /\ np = Pbufs(new) /\ nm = Memory(new)
            /\ K = a * PbufSize
      <4>1. a * PbufSize \in Nat
        BY <1>8, PbufSizes
      <4> QED
        BY <4>1, SumsNat
    <3>2. PICK t \in Nat : t = x.mem /\ t <= h + K
      BY <2>5, <3>1 DEF Fitting
    <3>3. <<e>> \in Seq(Fitting) /\ <<x>> \in Seq(Fitting)
      OBVIOUS
    <3>4. Memory(<<e>>) = h /\ Memory(<<x>>) = t
      BY <2>2, <3>2, SumsOne
    <3>5. Memory(p.unsent) = fm + h /\ Memory(g) = fm + t
      <4>1. Memory(f \o <<e>>) = Memory(f) + Memory(<<e>>)
        BY <3>3, SumsConcat
      <4>2. Memory(f \o <<x>>) = Memory(f) + Memory(<<x>>)
        BY <3>3, SumsConcat
      <4>3. p.unsent = f \o <<e>> /\ g = f \o <<x>>
        BY <2>1, <2>6
      <4> QED
        BY <3>1, <3>4, <4>1, <4>2, <4>3
    <3>6. Pbufs(after) = Pbufs(g) + np /\ Memory(after) = Memory(g) + nm
      BY <2>7, <3>1, SumsConcat
    <3>7. Pbufs(p.unsent) = fp + b /\ Pbufs(g) = fp + (b + a)
      <4>1. x.pbufs = b + a
        BY <1>8, <2>5
      <4> QED
        BY <2>9, <3>1, <4>1
    <3>8. Pbufs(after) = Pbufs(p.unsent) + a + Pbufs(new)
      BY <3>1, <3>6, <3>7
    <3>9. Memory(after) <= Memory(p.unsent) + a * PbufSize + Memory(new)
      <4>1. fm + t + nm <= fm + h + K + nm
        BY <3>2
      <4> QED
        BY <3>1, <3>5, <3>6, <4>1
    <3>10. new = <<>> => Last(after).len = Last(p.unsent).len + InOversize(p, len) + InConcat(p, len)
      BY <1>4, <2>1, <2>2, <2>5, <2>14
    <3> QED
      BY <1>5, <1>8, <2>13, <3>8, <3>9, <3>10 DEF Took
  <2>16. \E room \in 0 .. m : room = Oversize(p, len) /\ RoomKept(after, room)
    <3>1. CASE new # <<>>
      <4>1. PICK room \in 0 .. m : room = Oversize(p, len) /\ room + Last(new).len <= m
        BY <1>7, <3>1
      <4>2. Last(after) = Last(new)
        BY <2>13, <3>1
      <4>3. RoomKept(after, room)
        BY <1>1, <2>8, <4>1, <4>2 DEF RoomKept
      <4> QED
        BY <4>1, <4>3
    <3>2. CASE new = <<>>
      <4>1. Last(after) = x
        BY <2>14, <3>2
      <4>2. CASE c > 0
        <5>1. Oversize(p, len) = z - c
          BY <1>4, <1>5, <2>4, <3>2, <4>2 DEF Oversize
        <5>2. PICK room \in 0 .. m : room = z - c /\ room + (l + o + c) <= m
          BY <2>3, <4>2
        <5>3. RoomKept(after, room)
          BY <1>1, <2>5, <2>8, <4>1, <5>2 DEF RoomKept
        <5> QED
          BY <5>1, <5>2, <5>3
      <4>3. CASE ~(c > 0)
        <5>1. Oversize(p, len) = v - o
          BY <1>2, <1>4, <1>5, <3>2, <4>3 DEF Oversize
        <5>2. v + l <= m
          BY <1>1, <1>2, <1>10, <2>1, <2>2 DEF PcbOK, RoomKept
        <5>3. PICK room \in 0 .. m : room = v - o /\ room + (l + o + c) <= m
          BY <2>3, <4>3, <5>2
        <5>4. RoomKept(after, room)
          BY <1>1, <2>5, <2>8, <4>1, <5>3 DEF RoomKept
        <5> QED
          BY <5>1, <5>3, <5>4
      <4> QED
        BY <4>2, <4>3
    <3> QED
      BY <3>1, <3>2
  <2> QED
    BY <1>1, <1>5, <2>7, <2>8, <2>10, <2>12, <2>16, <2>15
<1> QED
  BY <1>9, <1>10

\* What the writes of n bytes make of p: either they all are queued, or some were refused.
Wrote(p, q, n) ==
  /\ PcbOK(q) /\ q.unacked = p.unacked /\ q.cwnd = p.cwnd
  /\ p.memerr => q.memerr
  /\ q.memerr \/ q.snd_buf + n = p.snd_buf

\* The fields of a pcb.
LEMMA IsPcb ==
  ASSUME NEW p, PcbOK(p)
  PROVE  /\ p.unsent \in Seq(Fitting) /\ p.unacked \in Seq(Fitting)
         /\ p.snd_buf \in 0 .. TCP_SND_BUF /\ p.snd_queuelen \in 0 .. TCP_SND_QUEUELEN
         /\ p.unsent_oversize \in 0 .. TCP_MSS /\ p.out \in 0 .. TCP_SND_BUF
         /\ p.cwnd \in 1 .. TCP_SND_BUF /\ p.free \in 0 .. MEM_SIZE
         /\ p.memerr \in BOOLEAN
<1>1. p \in Pcbs
  BY DEF PcbOK
<1>2. p.unsent \in Seq(Fitting) /\ p.unacked \in Seq(Fitting)
  BY <1>1 DEF Pcbs
<1>3. /\ p.snd_buf \in 0 .. TCP_SND_BUF /\ p.snd_queuelen \in 0 .. TCP_SND_QUEUELEN
      /\ p.unsent_oversize \in 0 .. TCP_MSS /\ p.out \in 0 .. TCP_SND_BUF
      /\ p.cwnd \in 1 .. TCP_SND_BUF /\ p.free \in 0 .. MEM_SIZE
  BY <1>1 DEF Pcbs
<1>4. p.memerr \in BOOLEAN
  BY <1>1 DEF Pcbs
<1> QED
  BY <1>2, <1>3, <1>4

\* A write keeps the books, queues all of its bytes or none, and leaves what was sent alone.
LEMMA WriteKeeps ==
  ASSUME NEW p, PcbOK(p), NEW len \in Nat
  PROVE  Wrote(p, tcp_write(p, len), len)
<1>1. CASE len = 0
  <2>1. tcp_write(p, len) = p
    BY <1>1 DEF tcp_write
  <2>2. p.snd_buf + len = p.snd_buf
    <3>1. p.snd_buf \in 0 .. TCP_SND_BUF
      BY IsPcb
    <3> QED
      BY <1>1, <3>1
  <2> QED
    BY <2>1, <2>2 DEF Wrote
<1>2. CASE len # 0 /\ ~WriteFits(p, len)
  <2>1. PICK q : q = tcp_write(p, len) /\ q = [p EXCEPT !.memerr = TRUE]
    BY <1>2 DEF tcp_write
  <2>2. q \in Pcbs
    BY <2>1 DEF PcbOK, Pcbs
  <2>3. p \in Pcbs
    BY DEF PcbOK
  <2>4. /\ q.memerr = TRUE /\ q.snd_buf = p.snd_buf /\ q.snd_queuelen = p.snd_queuelen
        /\ q.unsent = p.unsent /\ q.unacked = p.unacked
        /\ q.unsent_oversize = p.unsent_oversize /\ q.out = p.out /\ q.cwnd = p.cwnd
        /\ q.free = p.free
    BY <2>1, <2>3 DEF Pcbs
  <2>5. Balanced(q) /\ RoomKept(q.unsent, q.unsent_oversize)
    BY <2>4 DEF PcbOK, Balanced
  <2> QED
    BY <2>1, <2>2, <2>4, <2>5 DEF Wrote, PcbOK
<1>3. CASE len # 0 /\ WriteFits(p, len)
  <2>1. PICK after \in Seq(Fitting), room \in 0 .. TCP_MSS :
          /\ after = UnsentAfter(p, len) /\ after # <<>>
          /\ Bytes(after) = Bytes(p.unsent) + len
          /\ NewSegments(p, len) = <<>> => Pbufs(after) <= Pbufs(p.unsent) + 1
          /\ room = Oversize(p, len) /\ RoomKept(after, room)
    BY <1>3, AfterIs
  <2>2. p \in Pcbs /\ Balanced(p)
    BY DEF PcbOK
  <2>3. PICK buf \in Nat, n \in Nat, free \in Nat, out \in Nat, size \in Nat :
          /\ buf = p.snd_buf /\ n = p.snd_queuelen /\ free = p.free /\ out = p.out
          /\ size = MEM_SIZE
    <3>1. /\ p.snd_buf \in 0 .. TCP_SND_BUF /\ p.snd_queuelen \in 0 .. TCP_SND_QUEUELEN
          /\ p.free \in 0 .. MEM_SIZE /\ p.out \in 0 .. TCP_SND_BUF
      BY IsPcb
    <3>2. /\ p.snd_buf \in Nat /\ p.snd_queuelen \in Nat /\ p.free \in Nat /\ p.out \in Nat
          /\ MEM_SIZE \in Nat
      BY <3>1, SynAssumption, SendQueueAssumption
    <3> QED
      BY <3>2
  <2>4. PICK ub \in Nat, up \in Nat, um \in Nat :
          ub = Bytes(p.unacked) /\ up = Pbufs(p.unacked) /\ um = Memory(p.unacked)
    BY IsPcb, SumsNat
  <2>5. PICK sb \in Nat, sp \in Nat, sm \in Nat :
          sb = Bytes(p.unsent) /\ sp = Pbufs(p.unsent) /\ sm = Memory(p.unsent)
    BY IsPcb, SumsNat
  <2>6. PICK ab \in Nat, ap \in Nat, am \in Nat :
          ab = Bytes(after) /\ ap = Pbufs(after) /\ am = Memory(after)
    BY SumsNat
  <2>7. /\ buf + (ub + sb) = TCP_SND_BUF /\ n = up + sp /\ free + (um + sm) = size
        /\ out <= ub + sb
    BY <2>2, <2>3, <2>4, <2>5 DEF Balanced
  <2>8. ab = sb + len
    BY <2>1, <2>5, <2>6
  <2>9. len <= buf /\ am - sm <= free
    BY <1>3, <2>1, <2>3, <2>5, <2>6 DEF WriteFits
  <2>10. up + ap <= TCP_SND_QUEUELEN
    <3>1. CASE NewSegments(p, len) = <<>>
      <4>1. n < TCP_SND_QUEUELEN
        BY <1>3, <2>3 DEF WriteFits
      <4>2. ap <= sp + 1
        BY <2>1, <2>5, <2>6, <3>1
      <4> QED
        BY <2>7, <4>1, <4>2, SendQueueAssumption
    <3>2. CASE NewSegments(p, len) # <<>>
      BY <1>3, <2>1, <2>4, <2>6, <3>2 DEF WriteFits
    <3> QED
      BY <3>1, <3>2
  <2>11. PICK q : /\ q = tcp_write(p, len)
                  /\ q = [p EXCEPT !.unsent = after, !.unsent_oversize = room,
                                   !.snd_buf = buf - len, !.snd_queuelen = n + ap - sp,
                                   !.free = free + sm - am]
    BY <1>3, <2>1, <2>3, <2>5, <2>6 DEF tcp_write
  <2>12. /\ q.unsent = after /\ q.unsent_oversize = room /\ q.snd_buf = buf - len
         /\ q.snd_queuelen = n + ap - sp /\ q.free = free + sm - am
         /\ q.unacked = p.unacked /\ q.out = p.out /\ q.cwnd = p.cwnd
         /\ q.memerr = p.memerr
    BY <2>2, <2>11 DEF Pcbs
  <2>13. /\ buf - len \in 0 .. TCP_SND_BUF /\ n + ap - sp \in 0 .. TCP_SND_QUEUELEN
         /\ free + sm - am \in 0 .. size
    BY <2>7, <2>8, <2>9, <2>10, SendQueueAssumption
  <2>14. q \in Pcbs
    BY <2>2, <2>3, <2>11, <2>13 DEF Pcbs
  <2>15. Balanced(q)
    <3>1. buf - len + (ub + ab) = TCP_SND_BUF /\ n + ap - sp = up + ap
          /\ free + sm - am + (um + am) = size /\ out <= ub + ab
      BY <2>7, <2>8
    <3> QED
      BY <2>3, <2>4, <2>6, <2>12, <3>1 DEF Balanced
  <2>16. q.snd_buf + len = p.snd_buf
    <3>1. buf - len + len = buf
      OBVIOUS
    <3> QED
      BY <2>3, <2>12, <3>1
  <2>17. PcbOK(q)
    BY <2>1, <2>12, <2>14, <2>15 DEF PcbOK
  <2> QED
    BY <2>11, <2>12, <2>16, <2>17 DEF Wrote
<1> QED
  BY <1>1, <1>2, <1>3

\* Writes one after the other.
LEMMA WroteMore ==
  ASSUME NEW p, NEW q, NEW r, NEW n \in Nat, NEW m \in Nat, PcbOK(p),
         Wrote(p, q, n), Wrote(q, r, m)
  PROVE  Wrote(p, r, n + m)
<1>1. PcbOK(q) /\ PcbOK(r)
  BY DEF Wrote
<1>2. PICK a \in Nat, b \in Nat, c \in Nat : a = p.snd_buf /\ b = q.snd_buf /\ c = r.snd_buf
  <2>1. p.snd_buf \in 0 .. TCP_SND_BUF
    BY IsPcb
  <2>2. q.snd_buf \in 0 .. TCP_SND_BUF
    BY <1>1, IsPcb
  <2>3. r.snd_buf \in 0 .. TCP_SND_BUF
    BY <1>1, IsPcb
  <2> QED
    BY <2>1, <2>2, <2>3
<1>3. p.memerr \in BOOLEAN /\ q.memerr \in BOOLEAN /\ r.memerr \in BOOLEAN
  BY <1>1, IsPcb
<1>4. /\ r.unacked = p.unacked /\ r.cwnd = p.cwnd
  BY DEF Wrote
<1>5. p.memerr => r.memerr
  BY DEF Wrote
<1>6. ASSUME ~r.memerr
      PROVE  r.snd_buf + (n + m) = p.snd_buf
  <2>1. ~q.memerr
    BY <1>6 DEF Wrote
  <2>2. q.snd_buf + n = p.snd_buf /\ r.snd_buf + m = q.snd_buf
    BY <1>6, <2>1 DEF Wrote
  <2>3. b + n = a /\ c + m = b
    BY <1>2, <2>2
  <2>4. c + (n + m) = a
    BY <2>3
  <2> QED
    BY <1>2, <2>4
<1> QED
  BY <1>1, <1>4, <1>5, <1>6 DEF Wrote

\* w is the pcb before the first write of a packet and after each of them.
Writes(p, packet, w) ==
  /\ w[0] = p
  /\ \A n \in 1 .. Len(packet.pieces) : w[n] = tcp_write(w[n - 1], packet.pieces[n])

\* Each of the writes of a packet keeps the books, and so do all of them together.
LEMMA WritesKeep ==
  ASSUME NEW p, PcbOK(p), NEW packet, packet.pieces \in Seq(Nat)
  PROVE  \E w, sum : /\ Writes(p, packet, w) /\ Written(p, packet) = w[Len(packet.pieces)]
                     /\ SumsOf(packet.pieces, sum)
                     /\ Total(packet.pieces) = sum[Len(packet.pieces)]
                     /\ \A n \in 0 .. Len(packet.pieces) : Wrote(p, w[n], sum[n])
<1>1. PICK pieces \in Seq(Nat) : pieces = packet.pieces
  OBVIOUS
<1>2. PICK N \in Nat : N = Len(pieces)
  BY LenProperties
<1>3. \A i \in 1 .. N : pieces[i] \in Nat
  BY <1>2, ElementOfSeq
<1>4. PICK sum : SumsOf(pieces, sum) /\ Total(pieces) = sum[N]
  BY <1>2, TotalIs
<1> DEFINE V == { q \in Pcbs : PcbOK(q) }
<1>5. \A q \in V, i \in 1 .. N : tcp_write(q, pieces[i]) \in V
  <2> TAKE q \in V, i \in 1 .. N
  <2>1. PcbOK(q) /\ pieces[i] \in Nat
    BY <1>3
  <2>2. Wrote(q, tcp_write(q, pieces[i]), pieces[i])
    BY <2>1, WriteKeeps
  <2> QED
    BY <2>2 DEF Wrote, PcbOK
<1>6. PICK f : f = [x \in V \X (1 .. N) |-> tcp_write(x[1], pieces[x[2]])]
  OBVIOUS
<1>7. /\ f \in [V \X (1 .. N) -> V]
      /\ \A q \in V, i \in 1 .. N : f[<<q, i>>] = tcp_write(q, pieces[i])
  <2> HIDE DEF V
  <2> QED
    BY <1>5, <1>6
<1>8. PICK g \in [0 .. N -> V] :
        g = [n \in 0 .. N |-> IF n = 0 THEN p ELSE f[<<g[n - 1], n>>]]
  <2>1. p \in V
    BY DEF PcbOK
  <2>2. \E g \in [0 .. N -> V] : RecursiveTo(N, p, f, g)
    <3> HIDE DEF V
    <3> QED
      BY <1>7, <2>1, Recursion
  <2> QED
    BY <2>2 DEF RecursiveTo
<1>9. \A n \in 0 .. N : g[n] = IF n = 0 THEN p ELSE tcp_write(g[n - 1], pieces[n])
  <2> TAKE n \in 0 .. N
  <2>1. CASE n = 0
    BY <1>8, <2>1
  <2>2. CASE n # 0
    <3>1. n \in 1 .. N /\ n - 1 \in 0 .. N
      BY <2>2
    <3>2. g[n] = f[<<g[n - 1], n>>] /\ g[n - 1] \in V
      <4> HIDE DEF V
      <4> QED
        BY <1>8, <2>2, <3>1
    <3> QED
      BY <1>7, <2>2, <3>1, <3>2
  <2> QED
    BY <2>1, <2>2
<1>10. g = [n \in 0 .. N |-> IF n = 0 THEN p ELSE tcp_write(g[n - 1], pieces[n])]
  BY <1>8, <1>9
<1>11. PICK w : w = [n \in 0 .. N |-> IF n = 0 THEN p ELSE tcp_write(w[n - 1], pieces[n])]
                /\ Written(p, packet) = w[N]
  BY <1>1, <1>2, <1>10 DEF Written
<1>12. w[0] = p /\ \A n \in 1 .. N : w[n] = tcp_write(w[n - 1], pieces[n])
  <2>1. 0 \in 0 .. N /\ \A n \in 1 .. N : n \in 0 .. N /\ n # 0
    OBVIOUS
  <2> QED
    BY <1>11, <2>1
<1>13. /\ sum \in [0 .. N -> Nat] /\ sum[0] = 0
       /\ \A n \in 1 .. N : sum[n] = sum[n - 1] + pieces[n]
  BY <1>2, <1>4 DEF SumsOf
<1> DEFINE S == { n \in 0 .. N : Wrote(p, w[n], sum[n]) }
<1>14. 0 \in S
  <2>1. tcp_write(p, 0) = p
    BY DEF tcp_write
  <2>2. Wrote(p, p, 0)
    BY <2>1, WriteKeeps
  <2>3. Wrote(p, w[0], sum[0]) /\ 0 \in 0 .. N
    BY <1>12, <1>13, <2>2
  <2> QED
    BY <2>3
<1>15. ASSUME NEW n \in 1 .. N, n - 1 \in S
       PROVE  n \in S
  <2>0. PICK k \in 0 .. N : k = n - 1
    OBVIOUS
  <2>1. PICK q, s, b : /\ q = w[n - 1] /\ s = sum[n - 1] /\ b = pieces[n]
                       /\ s \in Nat /\ b \in Nat /\ Wrote(p, q, s)
    <3>1. sum[k] \in Nat /\ pieces[n] \in Nat
      BY <1>3, <1>13, <2>0
    <3>2. Wrote(p, w[k], sum[k])
      BY <1>15, <2>0
    <3> QED
      BY <2>0, <3>1, <3>2
  <2>2. PcbOK(q)
    BY <2>1 DEF Wrote
  <2>3. Wrote(q, tcp_write(q, b), b)
    BY <2>1, <2>2, WriteKeeps
  <2>4. Wrote(p, tcp_write(q, b), s + b)
    BY <2>1, <2>3, WroteMore
  <2>5. w[n] = tcp_write(q, b) /\ sum[n] = s + b /\ n \in 0 .. N
    BY <1>12, <1>13, <2>1
  <2> QED
    BY <2>4, <2>5
<1>16. 0 .. N \subseteq S
  <2> HIDE DEF S
  <2> QED
    BY <1>14, <1>15, InductionTo
<1>17. \A n \in 0 .. N : Wrote(p, w[n], sum[n])
  BY <1>16
<1>18. Writes(p, packet, w)
  BY <1>1, <1>2, <1>12 DEF Writes
<1> QED
  BY <1>1, <1>2, <1>4, <1>11, <1>17, <1>18

\* The pieces of a packet, written one after the other, are written as one would be.
LEMMA WrittenIs ==
  ASSUME NEW p, PcbOK(p), NEW packet, packet.pieces \in Seq(Nat)
  PROVE  Wrote(p, Written(p, packet), Total(packet.pieces))
<1>1. PICK N \in Nat : N = Len(packet.pieces)
  BY LenProperties
<1>2. N \in 0 .. N
  OBVIOUS
<1> QED
  BY <1>1, <1>2, WritesKeep

(***************************************************************************)
(* What tcp_output, acknowledgements and timeouts do to the queues.        *)
(***************************************************************************)
\* q is p after tcp_output: what goes out goes in order, and if there was something to send,
\* something is on its way.
Sent(p, q) ==
  /\ PcbOK(q) /\ q.cwnd = p.cwnd /\ ~q.memerr
  /\ q.unsent # <<>> => q.unacked # <<>>
  /\ p.unacked # <<>> => q.unacked # <<>> /\ q.unacked[1] = p.unacked[1]
  /\ p.unacked = <<>> /\ p.unsent # <<>> => q.unacked # <<>> /\ q.unacked[1] = p.unsent[1]

\* What leaves the front of one queue for the end of the other is still counted.
LEMMA SumsMove ==
  ASSUME NEW a \in Seq(Fitting), NEW b \in Seq(Fitting), NEW c \in Seq(Fitting)
  PROVE  /\ Bytes(a \o b) + Bytes(c) = Bytes(a) + Bytes(b \o c)
         /\ Pbufs(a \o b) + Pbufs(c) = Pbufs(a) + Pbufs(b \o c)
         /\ Memory(a \o b) + Memory(c) = Memory(a) + Memory(b \o c)
<1>1. Bytes(a \o b) + Bytes(c) = Bytes(a) + Bytes(b \o c)
  <2>1. PICK x \in Nat, y \in Nat, z \in Nat : x = Bytes(a) /\ y = Bytes(b) /\ z = Bytes(c)
    BY SumsNat
  <2>2. Bytes(a \o b) = x + y
    BY <2>1, SumsConcat
  <2>3. Bytes(b \o c) = y + z
    BY <2>1, SumsConcat
  <2>4. (x + y) + z = x + (y + z)
    OBVIOUS
  <2> QED
    BY <2>1, <2>2, <2>3, <2>4
<1>2. Pbufs(a \o b) + Pbufs(c) = Pbufs(a) + Pbufs(b \o c)
  <2>1. PICK x \in Nat, y \in Nat, z \in Nat : x = Pbufs(a) /\ y = Pbufs(b) /\ z = Pbufs(c)
    BY SumsNat
  <2>2. Pbufs(a \o b) = x + y
    BY <2>1, SumsConcat
  <2>3. Pbufs(b \o c) = y + z
    BY <2>1, SumsConcat
  <2>4. (x + y) + z = x + (y + z)
    OBVIOUS
  <2> QED
    BY <2>1, <2>2, <2>3, <2>4
<1>3. Memory(a \o b) + Memory(c) = Memory(a) + Memory(b \o c)
  <2>1. PICK x \in Nat, y \in Nat, z \in Nat : x = Memory(a) /\ y = Memory(b) /\ z = Memory(c)
    BY SumsNat
  <2>2. Memory(a \o b) = x + y
    BY <2>1, SumsConcat
  <2>3. Memory(b \o c) = y + z
    BY <2>1, SumsConcat
  <2>4. (x + y) + z = x + (y + z)
    OBVIOUS
  <2> QED
    BY <2>1, <2>2, <2>3, <2>4
<1> QED
  BY <1>1, <1>2, <1>3

\* The first segment of a queue.
LEMMA FirstSegment ==
  ASSUME NEW q \in Seq(Fitting), q # <<>>
  PROVE  SubSeq(q, 1, 1) = <<q[1]>> /\ q[1] \in Fitting
<1>1. PICK N \in Nat \ {0} : N = Len(q)
  BY EmptySeq
<1>2. 1 \in 1 .. Len(q) /\ 1 \in 1 .. N
  BY <1>1
<1>3. SubSeq(q, 1, 1) = <<q[1]>> \o SubSeq(q, 1 + 1, 1)
  BY <1>2, SubSeqRecursiveFirst
<1>4. SubSeq(q, 1 + 1, 1) = <<>>
  <2>1. 1 + 1 \in Int /\ 1 \in Int /\ 1 < 1 + 1
    OBVIOUS
  <2> QED
    BY <2>1, SubSeqEmpty
<1>5. q[1] \in Fitting
  BY <1>2, ElementOfSeq
<1>6. <<q[1]>> \in Seq(Fitting)
  BY <1>5
<1> QED
  BY <1>3, <1>4, <1>5, <1>6, ConcatEmptySeq

\* The first member of two sequences, one behind the other.
LEMMA FirstOfJoined ==
  ASSUME NEW S, NEW a \in Seq(S), NEW b \in Seq(S)
  PROVE  /\ a # <<>> => a \o b # <<>> /\ (a \o b)[1] = a[1]
         /\ a = <<>> => a \o b = b
<1>1. ASSUME a # <<>>
      PROVE  a \o b # <<>> /\ (a \o b)[1] = a[1]
  <2>1. PICK N \in Nat \ {0} : N = Len(a)
    BY <1>1, EmptySeq
  <2>2. PICK M \in Nat : M = Len(b)
    BY LenProperties
  <2>3. 1 \in 1 .. N + M /\ 1 <= N
    BY <2>1
  <2>4. (a \o b)[1] = a[1]
    BY <2>1, <2>2, <2>3, ConcatProperties
  <2> QED
    BY <1>1, <2>4, ConcatEqualIffEmpty
<1>2. ASSUME a = <<>>
      PROVE  a \o b = b
  BY <1>2, ConcatEmptySeq
<1> QED
  BY <1>1, <1>2

\* With data to send and none on its way, a congestion window of one segment lets one go.
LEMMA OutputKeeps ==
  ASSUME NEW p, PcbOK(p), p.unacked # <<>> \/ p.cwnd >= TCP_MSS
  PROVE  Sent(p, tcp_output(p))
<1>1. PICK unacked0 \in Seq(Fitting), unsent0 \in Seq(Fitting) :
        unacked0 = p.unacked /\ unsent0 = p.unsent
  BY IsPcb
<1>2. PICK N \in Nat : N = Len(unsent0) /\ DOMAIN unsent0 = 1 .. N
  BY LenProperties
<1>3. PICK P : P = { i \in 1 .. N : \A j \in 1 .. i : MayLeave(p, j) }
  OBVIOUS
<1>4. PICK n \in 0 .. N : n = Cardinality(P) /\ P = 1 .. n
  <2>1. P \in SUBSET (1 .. N) /\ \A i \in P : \A j \in 1 .. i : j \in P
    BY <1>3
  <2> QED
    BY <2>1, FirstOnes
<1>5. PICK gone \in Seq(Fitting), unsent \in Seq(Fitting) :
        /\ gone = SubSeq(unsent0, 1, n) /\ unsent = SubSeq(unsent0, n + 1, N)
        /\ unsent0 = gone \o unsent /\ Len(gone) = n
  <2>1. n \in 0 .. Len(unsent0)
    BY <1>2
  <2>2. SubSeq(unsent0, 1, n) \in Seq(Fitting) /\ Len(SubSeq(unsent0, 1, n)) = n
    BY <2>1, Split
  <2>3. SubSeq(unsent0, n + 1, Len(unsent0)) \in Seq(Fitting)
    BY <2>1, Split
  <2>4. unsent0 = SubSeq(unsent0, 1, n) \o SubSeq(unsent0, n + 1, Len(unsent0))
    BY <2>1, Split
  <2> QED
    BY <1>2, <2>2, <2>3, <2>4
<1>5a. unsent0 = gone \o unsent
  BY <1>5
<1>6. PICK unacked \in Seq(Fitting) : unacked = unacked0 \o gone
  BY ConcatProperties
<1>7. PICK bytes \in Nat : bytes = Bytes(unacked)
  BY SumsNat
<1>8. PICK q : /\ q = tcp_output(p)
               /\ q = [p EXCEPT !.unacked = unacked, !.unsent = unsent, !.memerr = FALSE,
                                !.unsent_oversize = IF unsent = <<>> THEN 0 ELSE @,
                                !.out = IF bytes > @ THEN bytes ELSE @]
  <2>1. Cardinality({i \in DOMAIN p.unsent : \A j \in 1 .. i : MayLeave(p, j)}) = n
    BY <1>1, <1>2, <1>3, <1>4
  <2> QED
    BY <1>1, <1>2, <1>5, <1>6, <1>7, <2>1 DEF tcp_output
<1>9. p \in Pcbs /\ Balanced(p) /\ RoomKept(unsent0, p.unsent_oversize)
  BY <1>1 DEF PcbOK
<1>10. /\ q.unacked = unacked /\ q.unsent = unsent /\ q.memerr = FALSE
       /\ q.unsent_oversize = IF unsent = <<>> THEN 0 ELSE p.unsent_oversize
       /\ q.out = IF bytes > p.out THEN bytes ELSE p.out
       /\ q.snd_buf = p.snd_buf /\ q.snd_queuelen = p.snd_queuelen /\ q.cwnd = p.cwnd
       /\ q.free = p.free
  BY <1>8, <1>9 DEF Pcbs
<1>11. /\ Bytes(unacked) + Bytes(unsent) = Bytes(unacked0) + Bytes(unsent0)
       /\ Pbufs(unacked) + Pbufs(unsent) = Pbufs(unacked0) + Pbufs(unsent0)
       /\ Memory(unacked) + Memory(unsent) = Memory(unacked0) + Memory(unsent0)
  BY <1>5a, <1>6, SumsMove
<1>12. PICK sb \in Nat, buf \in Nat, out \in Nat :
         sb = Bytes(unsent) /\ buf = p.snd_buf /\ out = p.out
  <2>1. Bytes(unsent) \in Nat
    BY SumsNat
  <2>2. p.snd_buf \in Nat /\ p.out \in Nat
    BY IsPcb, SendQueueAssumption
  <2> QED
    BY <2>1, <2>2
<1>13. buf + (bytes + sb) = TCP_SND_BUF /\ out <= bytes + sb
  BY <1>1, <1>7, <1>9, <1>11, <1>12 DEF Balanced
<1>14. /\ q.out <= Bytes(q.unacked) + Bytes(q.unsent) /\ q.out \in 0 .. TCP_SND_BUF
  <2>1. q.out = IF bytes > out THEN bytes ELSE out
    BY <1>10, <1>12
  <2>2. q.out <= bytes + sb /\ q.out \in 0 .. TCP_SND_BUF
    BY <1>13, <2>1, SendQueueAssumption
  <2> QED
    BY <1>7, <1>10, <1>12, <2>2
<1>15. Balanced(q)
  BY <1>1, <1>9, <1>10, <1>11, <1>14 DEF Balanced
<1>16. q.unsent_oversize \in 0 .. TCP_MSS /\ RoomKept(q.unsent, q.unsent_oversize)
  <2>1. CASE unsent = <<>>
    BY <1>10, <2>1, SendQueueAssumption DEF RoomKept
  <2>2. CASE unsent # <<>>
    <3>1. Last(unsent0) = Last(unsent)
      BY <1>5a, <2>2, LastOfJoined
    <3>2. unsent0 # <<>>
      BY <1>5a, <2>2, ConcatEqualIffEmpty
    <3>3. q.unsent_oversize = p.unsent_oversize /\ q.unsent = unsent
      BY <1>10, <2>2
    <3>4. p.unsent_oversize \in 0 .. TCP_MSS
      BY IsPcb
    <3> QED
      BY <1>9, <2>2, <3>1, <3>2, <3>3, <3>4 DEF RoomKept
  <2> QED
    BY <2>1, <2>2
<1>17. q \in Pcbs
  <2>1. PICK room \in 0 .. TCP_MSS, o \in 0 .. TCP_SND_BUF :
          room = q.unsent_oversize /\ o = q.out
    BY <1>14, <1>16
  <2>2. q = [p EXCEPT !.unacked = unacked, !.unsent = unsent, !.memerr = FALSE,
                     !.unsent_oversize = room, !.out = o]
    BY <1>8, <1>9, <1>10, <2>1 DEF Pcbs
  <2> QED
    BY <1>9, <2>2 DEF Pcbs
<1>18. PcbOK(q)
  BY <1>15, <1>16, <1>17 DEF PcbOK
<1>19. ASSUME unacked0 # <<>>
       PROVE  unacked # <<>> /\ unacked[1] = unacked0[1]
  BY <1>6, <1>19, FirstOfJoined
<1>20. ASSUME unacked0 = <<>>, unsent0 # <<>>
       PROVE  unacked # <<>> /\ unacked[1] = unsent0[1]
  <2>1. 1 \in 1 .. N
    BY <1>2, <1>20, EmptySeq
  <2>2. MayLeave(p, 1)
    <3>1. SubSeq(unsent0, 1, 1) = <<unsent0[1]>> /\ unsent0[1] \in Fitting
      BY <1>20, FirstSegment
    <3>2. Bytes(SubSeq(unsent0, 1, 1)) = unsent0[1].len
      BY <3>1, SumsOne
    <3>3. unsent0[1].len \in 0 .. TCP_MSS
      BY <3>1 DEF Fitting
    <3>4. PICK l \in 0 .. TCP_MSS : l = Bytes(SubSeq(p.unsent, 1, 1))
      BY <1>1, <3>2, <3>3
    <3>5. Bytes(p.unacked) = 0
      BY <1>1, <1>20, SumsNone
    <3>6. PICK w \in Nat : w = p.cwnd /\ w >= TCP_MSS
      <4>1. p.cwnd \in 1 .. TCP_SND_BUF
        BY IsPcb
      <4> QED
        BY <1>1, <1>20, <4>1, SendQueueAssumption
    <3>7. SynAhead(p, 1) + Bytes(p.unacked) + Bytes(SubSeq(p.unsent, 1, 1)) <= p.cwnd
      <4>1. DOMAIN unacked0 = {} /\ 1 .. 1 - 1 = {}
        BY <1>20, EmptySeq
      <4>2. SynAhead(p, 1) = 0
        BY <1>1, <4>1 DEF SynAhead
      <4> QED
        BY <3>4, <3>5, <3>6, <4>2, SendQueueAssumption
    <3>8. NagleAllows(p, 1)
      BY <1>1, <1>20 DEF NagleAllows
    <3> QED
      BY <3>7, <3>8 DEF MayLeave
  <2>3. 1 \in P
    <3>1. \A j \in 1 .. 1 : j = 1
      OBVIOUS
    <3> QED
      BY <1>3, <2>1, <2>2, <3>1
  <2>4. n # 0
    <3>1. 1 \in 1 .. n
      BY <1>4, <2>3
    <3> QED
      BY <3>1
  <2>5. gone # <<>>
    BY <1>5, <2>4, EmptySeq
  <2>6. gone[1] = unsent0[1]
    BY <1>5a, <2>5, FirstOfJoined
  <2> QED
    BY <1>6, <1>20, <2>5, <2>6, ConcatEmptySeq
<1>21. unsent # <<>> => unacked # <<>>
  <2>1. unsent # <<>> => unsent0 # <<>>
    BY <1>5a, ConcatEqualIffEmpty
  <2> QED
    BY <1>19, <1>20, <2>1
<1> QED
  BY <1>1, <1>8, <1>10, <1>18, <1>19, <1>20, <1>21 DEF Sent

\* What was on two queues is on two others, but for what is gone; the last unsent segment stays the
\* last for as long as there is one.
Rest(gone, unacked, unsent, unacked0, unsent0) ==
  /\ gone \in Seq(Fitting) /\ unacked \in Seq(Fitting) /\ unsent \in Seq(Fitting)
  /\ Bytes(gone) + (Bytes(unacked) + Bytes(unsent)) = Bytes(unacked0) + Bytes(unsent0)
  /\ Pbufs(gone) + (Pbufs(unacked) + Pbufs(unsent)) = Pbufs(unacked0) + Pbufs(unsent0)
  /\ Memory(gone) + (Memory(unacked) + Memory(unsent)) = Memory(unacked0) + Memory(unsent0)
  /\ unsent # <<>> => unsent0 # <<>> /\ Last(unsent) = Last(unsent0)

\* Of the segments on the unacked queue, some go.
LEMMA RestOfUnacked ==
  ASSUME NEW a \in Seq(Fitting), NEW b \in Seq(Fitting), NEW c \in Seq(Fitting)
  PROVE  Rest(a, b, c, a \o b, c)
<1>1. PICK x \in Nat, y \in Nat, z \in Nat : x = Bytes(a) /\ y = Bytes(b) /\ z = Bytes(c)
  BY SumsNat
<1>2. Bytes(a \o b) = x + y
  BY <1>1, SumsConcat
<1>3. x + (y + z) = (x + y) + z
  OBVIOUS
<1>4. Bytes(a) + (Bytes(b) + Bytes(c)) = Bytes(a \o b) + Bytes(c)
  BY <1>1, <1>2, <1>3
<1>5. PICK k \in Nat, l \in Nat, m \in Nat : k = Pbufs(a) /\ l = Pbufs(b) /\ m = Pbufs(c)
  BY SumsNat
<1>6. Pbufs(a \o b) = k + l
  BY <1>5, SumsConcat
<1>7. k + (l + m) = (k + l) + m
  OBVIOUS
<1>8. Pbufs(a) + (Pbufs(b) + Pbufs(c)) = Pbufs(a \o b) + Pbufs(c)
  BY <1>5, <1>6, <1>7
<1>9. PICK r \in Nat, s \in Nat, t \in Nat : r = Memory(a) /\ s = Memory(b) /\ t = Memory(c)
  BY SumsNat
<1>10. Memory(a \o b) = r + s
  BY <1>9, SumsConcat
<1>11. r + (s + t) = (r + s) + t
  OBVIOUS
<1>12. Memory(a) + (Memory(b) + Memory(c)) = Memory(a \o b) + Memory(c)
  BY <1>9, <1>10, <1>11
<1> QED
  BY <1>4, <1>8, <1>12 DEF Rest

\* All of those go, and some of the unsent ones with them.
LEMMA RestOfUnsent ==
  ASSUME NEW a \in Seq(Fitting), NEW b \in Seq(Fitting), NEW c \in Seq(Fitting)
  PROVE  Rest(a \o b, <<>>, c, a, b \o c)
<1>1. PICK none \in Seq(Fitting) : none = <<>>
  BY EmptySeq
<1>2. PICK ab \in Seq(Fitting) : ab = a \o b
  BY ConcatProperties
<1>3. Rest(ab, none, c, ab \o none, c)
  BY RestOfUnacked
<1>4. ab \o none = ab
  BY <1>1, ConcatEmptySeq
<1>5. /\ Bytes(ab) + Bytes(c) = Bytes(a) + Bytes(b \o c)
      /\ Pbufs(ab) + Pbufs(c) = Pbufs(a) + Pbufs(b \o c)
      /\ Memory(ab) + Memory(c) = Memory(a) + Memory(b \o c)
  BY <1>2, SumsMove
<1>6. c # <<>> => b \o c # <<>> /\ Last(c) = Last(b \o c)
  BY ConcatEqualIffEmpty, LastOfJoined
<1>7. Rest(ab, none, c, ab, c)
  BY <1>3, <1>4
<1> QED
  BY <1>1, <1>2, <1>5, <1>6, <1>7 DEF Rest

\* The first n segments of the queues, and what stays of each queue.
LEMMA AckedParts ==
  ASSUME NEW p, PcbOK(p), NEW n \in 1 .. Len(Queued(p))
  PROVE  \E f, k, gone, unacked, unsent :
           /\ f = Least(n, Len(p.unacked)) /\ k = n - f
           /\ gone = SubSeq(Queued(p), 1, n)
           /\ unacked = SubSeq(p.unacked, f + 1, Len(p.unacked))
           /\ unsent = SubSeq(p.unsent, k + 1, Len(p.unsent))
           /\ Rest(gone, unacked, unsent, p.unacked, p.unsent)
<1>0. PICK f, k : f = Least(n, Len(p.unacked)) /\ k = n - f
  OBVIOUS
<1>1. PICK ua \in Seq(Fitting), us \in Seq(Fitting) : ua = p.unacked /\ us = p.unsent
  BY IsPcb
<1>2. PICK A \in Nat : A = Len(ua)
  BY LenProperties
<1>3. PICK B \in Nat : B = Len(us)
  BY LenProperties
<1>4. PICK q \in Seq(Fitting) : q = ua \o us /\ q = Queued(p) /\ Len(q) = A + B
  BY <1>1, <1>2, <1>3, ConcatProperties DEF Queued
<1>5. n \in 1 .. A + B
  BY <1>4
<1>6. CASE n <= A
  <2>1. f = n /\ k = 0
    BY <1>0, <1>1, <1>2, <1>5, <1>6 DEF Least
  <2>2. n \in 0 .. Len(ua) /\ n \in 1 .. Len(ua) /\ 1 \in 1 .. Len(ua)
    BY <1>2, <1>5, <1>6
  <2>3. SubSeq(q, 1, n) = SubSeq(ua, 1, n)
    <3>1. PICK e \in 1 .. Len(ua), d \in 1 .. Len(ua) : e = n /\ d = 1
      BY <2>2
    <3>2. SubSeq(ua \o us, d, e) = SubSeq(ua, d, e)
      BY SubSeqOfConcat1
    <3> QED
      BY <1>4, <3>1, <3>2
  <2>4. SubSeq(ua, 1, n) \in Seq(Fitting) /\ SubSeq(ua, n + 1, Len(ua)) \in Seq(Fitting)
    BY <2>2, Split
  <2>5. ua = SubSeq(ua, 1, n) \o SubSeq(ua, n + 1, Len(ua))
    BY <2>2, Split
  <2>6. PICK a \in Seq(Fitting), b \in Seq(Fitting) :
          a = SubSeq(ua, 1, n) /\ b = SubSeq(ua, n + 1, Len(ua))
    BY <2>4
  <2>7. ua = a \o b
    BY <2>5, <2>6
  <2>8. SubSeq(us, 0 + 1, Len(us)) = us
    <3>1. SubSeq(us, 1, Len(us)) = us
      BY SubSeqFull
    <3> QED
      BY <3>1
  <2>9. Rest(a, b, us, a \o b, us)
    BY RestOfUnacked
  <2>10. SubSeq(Queued(p), 1, n) = a
    BY <1>4, <2>3, <2>6
  <2>11. SubSeq(p.unacked, f + 1, Len(p.unacked)) = b
    BY <1>1, <2>1, <2>6
  <2>12. SubSeq(p.unsent, k + 1, Len(p.unsent)) = us
    BY <1>1, <2>1, <2>8
  <2>13. Rest(a, b, us, p.unacked, p.unsent)
    BY <1>1, <2>7, <2>9
  <2> QED
    BY <1>0, <2>10, <2>11, <2>12, <2>13
<1>7. CASE ~(n <= A)
  <2>1. f = A /\ k = n - A /\ k \in 0 .. B /\ k \in 1 .. B /\ A + k = n
    BY <1>0, <1>1, <1>2, <1>5, <1>7 DEF Least
  <2>2. SubSeq(us, 1, k) \in Seq(Fitting) /\ SubSeq(us, k + 1, Len(us)) \in Seq(Fitting)
    BY <1>3, <2>1, Split
  <2>3. us = SubSeq(us, 1, k) \o SubSeq(us, k + 1, Len(us))
    BY <1>3, <2>1, Split
  <2>4. PICK b \in Seq(Fitting), c \in Seq(Fitting) :
          b = SubSeq(us, 1, k) /\ c = SubSeq(us, k + 1, Len(us))
    BY <2>2
  <2>5. us = b \o c
    BY <2>3, <2>4
  <2>6. SubSeq(ua, A + 1, Len(ua)) = <<>>
    <3>1. A + 1 \in Int /\ A \in Int /\ A < A + 1
      OBVIOUS
    <3> QED
      BY <1>2, <3>1, SubSeqEmpty
  <2>7. SubSeq(q, 1, A) = ua
    <3>1. CASE A = 0
      <4>1. ua = <<>>
        BY <1>2, <3>1, EmptySeq
      <4>2. SubSeq(q, 1, 0) = <<>>
        <5>1. 1 \in Int /\ 0 \in Int /\ 0 < 1
          OBVIOUS
        <5> QED
          BY <5>1, SubSeqEmpty
      <4> QED
        BY <3>1, <4>1, <4>2
    <3>2. CASE A # 0
      <4>1. A \in 1 .. Len(ua) /\ 1 \in 1 .. Len(ua)
        BY <1>2, <3>2
      <4>2. SubSeq(ua \o us, 1, A) = SubSeq(ua, 1, A)
        BY <4>1, SubSeqOfConcat1
      <4> QED
        BY <1>2, <1>4, <4>2, SubSeqFull
    <3> QED
      BY <3>1, <3>2
  <2>8. SubSeq(q, A + 1, n) = b
    <3>1. A + 1 \in Len(ua) + 1 .. Len(ua) + Len(us) /\ n \in Len(ua) + 1 .. Len(ua) + Len(us)
      BY <1>2, <1>3, <1>5, <1>7
    <3>2. PICK d \in Len(ua) + 1 .. Len(ua) + Len(us), e \in Len(ua) + 1 .. Len(ua) + Len(us) :
            d = A + 1 /\ e = n
      BY <3>1
    <3>3. SubSeq(ua \o us, d, e) = SubSeq(us, d - Len(ua), e - Len(ua))
      BY SubSeqOfConcat2
    <3>4. d - Len(ua) = 1 /\ e - Len(ua) = k
      BY <1>2, <2>1, <3>2
    <3>5. SubSeq(ua \o us, d, e) = b
      BY <2>4, <3>3, <3>4
    <3> QED
      BY <1>4, <3>2, <3>5
  <2>9. SubSeq(q, 1, n) = ua \o b
    <3>1. 1 \in 1 .. Len(q) + 1 /\ A \in 1 - 1 .. Len(q) /\ n \in A .. Len(q)
      BY <1>4, <1>5, <1>7
    <3>2. SubSeq(q, 1, A) \o SubSeq(q, A + 1, n) = SubSeq(q, 1, n)
      BY <3>1, ConcatAdjacentSubSeq
    <3> QED
      BY <2>7, <2>8, <3>2
  <2>10. Rest(ua \o b, <<>>, c, ua, b \o c)
    BY RestOfUnsent
  <2>11. SubSeq(p.unacked, f + 1, Len(p.unacked)) = <<>>
    BY <1>1, <2>1, <2>6
  <2>12. SubSeq(p.unsent, k + 1, Len(p.unsent)) = c
    BY <1>1, <2>4
  <2>13. SubSeq(Queued(p), 1, n) = ua \o b
    BY <1>4, <2>9
  <2>14. Rest(ua \o b, <<>>, c, p.unacked, p.unsent)
    BY <1>1, <2>5, <2>10
  <2> QED
    BY <1>0, <2>11, <2>12, <2>13, <2>14
<1> QED
  BY <1>5, <1>6, <1>7

\* An acknowledgement of n segments that were sent takes them off the books, and the congestion
\* window does not fall below a segment.
LEMMA AckKeeps ==
  ASSUME NEW p, PcbOK(p), NEW n \in Coverable(p)
  PROVE  /\ PcbOK(Acknowledged(p, n)) /\ Acknowledged(p, n).memerr = p.memerr
         /\ p.cwnd >= TCP_MSS => Acknowledged(p, n).cwnd >= TCP_MSS
<1>1. n \in 1 .. Len(Queued(p)) /\ Bytes(SubSeq(Queued(p), 1, n)) <= p.out
  BY DEF Coverable
<1>2. PICK f, k, gone, unacked, unsent :
        /\ f = Least(n, Len(p.unacked)) /\ k = n - f
        /\ gone = SubSeq(Queued(p), 1, n)
        /\ unacked = SubSeq(p.unacked, f + 1, Len(p.unacked))
        /\ unsent = SubSeq(p.unsent, k + 1, Len(p.unsent))
        /\ Rest(gone, unacked, unsent, p.unacked, p.unsent)
  BY <1>1, AckedParts
<1>3. gone \in Seq(Fitting) /\ unacked \in Seq(Fitting) /\ unsent \in Seq(Fitting)
  BY <1>2 DEF Rest
<1>4. PICK gb \in Nat, gp \in Nat, gm \in Nat :
        gb = Bytes(gone) /\ gp = Pbufs(gone) /\ gm = Memory(gone)
  BY <1>3, SumsNat
<1>5. PICK ub \in Nat, up \in Nat, um \in Nat :
        ub = Bytes(unacked) /\ up = Pbufs(unacked) /\ um = Memory(unacked)
  BY <1>3, SumsNat
<1>6. PICK sb \in Nat, sp \in Nat, sm \in Nat :
        sb = Bytes(unsent) /\ sp = Pbufs(unsent) /\ sm = Memory(unsent)
  BY <1>3, SumsNat
<1>7. p \in Pcbs /\ Balanced(p) /\ RoomKept(p.unsent, p.unsent_oversize)
  BY DEF PcbOK
<1>8. PICK buf \in Nat, len \in Nat, free \in Nat, out \in Nat, cwnd \in Nat \ {0} :
        /\ buf = p.snd_buf /\ len = p.snd_queuelen /\ free = p.free /\ out = p.out
        /\ cwnd = p.cwnd /\ cwnd <= TCP_SND_BUF
  <2>1. /\ p.snd_buf \in 0 .. TCP_SND_BUF /\ p.snd_queuelen \in 0 .. TCP_SND_QUEUELEN
        /\ p.free \in 0 .. MEM_SIZE /\ p.out \in 0 .. TCP_SND_BUF
    BY IsPcb
  <2>2. p.cwnd \in 1 .. TCP_SND_BUF
    BY IsPcb
  <2>3. /\ p.snd_buf \in Nat /\ p.snd_queuelen \in Nat /\ p.free \in Nat /\ p.out \in Nat
    BY <2>1
  <2>4. p.cwnd \in Nat \ {0} /\ p.cwnd <= TCP_SND_BUF
    BY <2>2
  <2> QED
    BY <2>3, <2>4
<1>9. /\ buf + (gb + (ub + sb)) = TCP_SND_BUF
      /\ len = gp + (up + sp)
      /\ free + (gm + (um + sm)) = MEM_SIZE
      /\ out <= gb + (ub + sb)
  BY <1>2, <1>4, <1>5, <1>6, <1>7, <1>8 DEF Rest, Balanced
<1>10. gb <= out
  BY <1>1, <1>2, <1>4, <1>8
<1>11. PICK w \in 1 .. TCP_SND_BUF : /\ w = Least(TCP_SND_BUF, cwnd + Least(gb, TCP_MSS))
                                     /\ cwnd >= TCP_MSS => w >= TCP_MSS
  <2>1. PICK a \in Nat : a = Least(gb, TCP_MSS)
    BY SendQueueAssumption DEF Least
  <2>2. /\ Least(TCP_SND_BUF, cwnd + a) \in 1 .. TCP_SND_BUF
        /\ cwnd >= TCP_MSS => Least(TCP_SND_BUF, cwnd + a) >= TCP_MSS
    BY <1>8, SendQueueAssumption DEF Least
  <2> QED
    BY <2>1, <2>2
<1>12. PICK q : /\ q = Acknowledged(p, n)
                /\ q = [p EXCEPT !.unacked = unacked, !.unsent = unsent,
                                 !.unsent_oversize = IF unsent = <<>> THEN 0 ELSE @,
                                 !.snd_buf = buf + gb, !.snd_queuelen = len - gp,
                                 !.free = free + gm, !.out = out - gb, !.cwnd = w]
  BY <1>2, <1>4, <1>8, <1>11 DEF Acknowledged
<1>13. /\ q.unacked = unacked /\ q.unsent = unsent
       /\ q.unsent_oversize = IF unsent = <<>> THEN 0 ELSE p.unsent_oversize
       /\ q.snd_buf = buf + gb /\ q.snd_queuelen = len - gp /\ q.free = free + gm
       /\ q.out = out - gb /\ q.cwnd = w /\ q.memerr = p.memerr
  BY <1>7, <1>12 DEF Pcbs
<1>14. q.unsent_oversize \in 0 .. TCP_MSS /\ RoomKept(unsent, q.unsent_oversize)
  <2>1. CASE unsent = <<>>
    BY <1>13, <2>1, SendQueueAssumption DEF RoomKept
  <2>2. CASE unsent # <<>>
    <3>1. p.unsent # <<>> /\ Last(unsent) = Last(p.unsent)
      BY <1>2, <2>2 DEF Rest
    <3>2. p.unsent_oversize \in 0 .. TCP_MSS
      BY IsPcb
    <3>3. q.unsent_oversize = p.unsent_oversize
      BY <1>13, <2>2
    <3> QED
      BY <1>7, <2>2, <3>1, <3>2, <3>3 DEF RoomKept
  <2> QED
    BY <2>1, <2>2
<1>15. /\ buf + gb \in 0 .. TCP_SND_BUF /\ len - gp \in 0 .. TCP_SND_QUEUELEN
       /\ free + gm \in 0 .. MEM_SIZE /\ out - gb \in 0 .. TCP_SND_BUF
  <2>1. len \in 0 .. TCP_SND_QUEUELEN /\ out \in 0 .. TCP_SND_BUF
    BY <1>8, IsPcb
  <2> QED
    BY <1>9, <1>10, <2>1, SendQueueAssumption, SynAssumption
<1>16. q \in Pcbs
  <2>1. PICK room \in 0 .. TCP_MSS : room = q.unsent_oversize
    BY <1>14
  <2>2. q = [p EXCEPT !.unacked = unacked, !.unsent = unsent, !.unsent_oversize = room,
                     !.snd_buf = buf + gb, !.snd_queuelen = len - gp,
                     !.free = free + gm, !.out = out - gb, !.cwnd = w]
    BY <1>7, <1>12, <1>13, <2>1 DEF Pcbs
  <2> QED
    BY <1>3, <1>7, <1>15, <2>2 DEF Pcbs
<1>17. Balanced(q)
  <2>1. /\ buf + gb + (ub + sb) = TCP_SND_BUF /\ len - gp = up + sp
        /\ free + gm + (um + sm) = MEM_SIZE /\ out - gb <= ub + sb
    BY <1>9, SendQueueAssumption, SynAssumption
  <2> QED
    BY <1>5, <1>6, <1>13, <2>1 DEF Balanced
<1>18. PcbOK(q)
  BY <1>13, <1>14, <1>16, <1>17 DEF PcbOK
<1> QED
  BY <1>8, <1>11, <1>12, <1>13, <1>18

\* The SYN takes no byte, one pbuf and its memory.
LEMMA SynIs ==
  /\ Syn \in Fitting /\ <<Syn>> \in Seq(Fitting)
  /\ Bytes(<<Syn>>) = 0 /\ Pbufs(<<Syn>>) = 1 /\ Memory(<<Syn>>) = Syn.mem
  /\ Syn.mem \in Nat
<1>1. PICK h \in Nat : h = MemOfTransport(4)
  BY BlockSizes
<1>2. Syn = [len |-> 0, pbufs |-> 1, mem |-> h]
  BY <1>1 DEF Syn
<1>3. Syn \in Fitting
  <2>1. PICK K \in Nat : K = PbufSize /\ h <= K
    BY <1>1, PbufSizes
  <2>2. h <= 1 * K
    BY <2>1
  <2>3. Thrifty(Syn)
    BY <1>2, <2>1, <2>2 DEF Thrifty
  <2> QED
    BY <1>2, <2>3, SendQueueAssumption DEF Fitting
<1>4. Bytes(<<Syn>>) = Syn.len /\ Pbufs(<<Syn>>) = Syn.pbufs /\ Memory(<<Syn>>) = Syn.mem
  BY <1>3, SumsOne
<1>5. Syn.len = 0 /\ Syn.pbufs = 1 /\ Syn.mem = h
  BY <1>2
<1> QED
  BY <1>3, <1>4, <1>5

\* The acknowledged SYN leaves the books, and the congestion window opens.
LEMMA SynAckKeeps ==
  ASSUME NEW p, PcbOK(p), p.unacked # <<>>, p.unacked[1] = Syn
  PROVE  /\ PcbOK(SynAcknowledged(p)) /\ SynAcknowledged(p).cwnd >= TCP_MSS
<1>1. PICK ua \in Seq(Fitting), us \in Seq(Fitting) : ua = p.unacked /\ us = p.unsent
  BY IsPcb
<1>2. PICK t \in Seq(Fitting) : t = Tail(ua) /\ ua = <<Syn>> \o t
  <2>1. 1 \in 0 .. Len(ua)
    BY <1>1, EmptySeq
  <2>2. ua = SubSeq(ua, 1, 1) \o SubSeq(ua, 1 + 1, Len(ua))
    BY <2>1, Split
  <2>3. SubSeq(ua, 1, 1) = <<Syn>>
    BY <1>1, FirstSegment
  <2>4. Tail(ua) = SubSeq(ua, 2, Len(ua)) /\ Tail(ua) \in Seq(Fitting)
    BY <1>1, TailIsSubSeq, HeadTailProperties
  <2>5. 1 + 1 = 2
    OBVIOUS
  <2> QED
    BY <2>2, <2>3, <2>4, <2>5
<1>3. PICK tb \in Nat, tp \in Nat, tm \in Nat :
        tb = Bytes(t) /\ tp = Pbufs(t) /\ tm = Memory(t)
  BY SumsNat
<1>4. PICK sb \in Nat, sp \in Nat, sm \in Nat :
        sb = Bytes(us) /\ sp = Pbufs(us) /\ sm = Memory(us)
  BY SumsNat
<1>5. PICK h \in Nat : h = Syn.mem
  BY SynIs
<1>6. Bytes(ua) = 0 + tb /\ Pbufs(ua) = 1 + tp /\ Memory(ua) = h + tm
  <2>1. PICK s \in Seq(Fitting) : s = <<Syn>>
    BY SynIs
  <2>2. /\ Bytes(s \o t) = Bytes(s) + Bytes(t) /\ Pbufs(s \o t) = Pbufs(s) + Pbufs(t)
        /\ Memory(s \o t) = Memory(s) + Memory(t)
    BY SumsConcat
  <2>3. Bytes(s) = 0 /\ Pbufs(s) = 1 /\ Memory(s) = h
    BY <1>5, <2>1, SynIs
  <2> QED
    BY <1>2, <1>3, <2>1, <2>2, <2>3
<1>7. p \in Pcbs /\ Balanced(p) /\ RoomKept(us, p.unsent_oversize)
  BY <1>1 DEF PcbOK
<1>8. PICK buf \in Nat, len \in Nat, free \in Nat, out \in Nat :
        /\ buf = p.snd_buf /\ len = p.snd_queuelen /\ free = p.free /\ out = p.out
        /\ len <= TCP_SND_QUEUELEN
  <2>1. /\ p.snd_buf \in 0 .. TCP_SND_BUF /\ p.snd_queuelen \in 0 .. TCP_SND_QUEUELEN
        /\ p.free \in 0 .. MEM_SIZE /\ p.out \in 0 .. TCP_SND_BUF
    BY IsPcb
  <2>2. /\ p.snd_buf \in Nat /\ p.snd_queuelen \in Nat /\ p.free \in Nat /\ p.out \in Nat
        /\ p.snd_queuelen <= TCP_SND_QUEUELEN
    BY <2>1, SendQueueAssumption, SynAssumption
  <2> QED
    BY <2>2
<1>9. /\ buf + (0 + tb + sb) = TCP_SND_BUF /\ len = 1 + tp + sp
      /\ free + (h + tm + sm) = MEM_SIZE /\ out <= 0 + tb + sb
  BY <1>1, <1>4, <1>6, <1>7, <1>8 DEF Balanced
<1>10. PICK w \in 1 .. TCP_SND_BUF : w = Least(TCP_SND_BUF, 4 * TCP_MSS) /\ w >= TCP_MSS
  BY SendQueueAssumption DEF Least
<1>11. PICK q : /\ q = SynAcknowledged(p)
                /\ q = [p EXCEPT !.unacked = t, !.unsent = us, !.snd_queuelen = len - 1,
                                 !.free = free + h, !.cwnd = w]
  BY <1>1, <1>2, <1>5, <1>8, <1>10 DEF SynAcknowledged
<1>12. /\ q.unacked = t /\ q.unsent = us /\ q.snd_queuelen = len - 1 /\ q.free = free + h
       /\ q.cwnd = w /\ q.snd_buf = buf /\ q.out = out
       /\ q.unsent_oversize = p.unsent_oversize
  BY <1>7, <1>8, <1>11 DEF Pcbs
<1>13. len - 1 \in 0 .. TCP_SND_QUEUELEN /\ free + h \in 0 .. MEM_SIZE
  <2>1. PICK Q \in Nat, M \in Nat : Q = TCP_SND_QUEUELEN /\ M = MEM_SIZE
    BY SendQueueAssumption, SynAssumption
  <2>2. len <= Q /\ len = 1 + tp + sp /\ free + (h + tm + sm) = M
    BY <1>8, <1>9, <2>1
  <2>3. len - 1 \in 0 .. Q
    BY <2>2
  <2>4. free + h \in 0 .. M
    BY <2>2
  <2> QED
    BY <2>1, <2>3, <2>4
<1>14. q \in Pcbs
  BY <1>7, <1>11, <1>13 DEF Pcbs
<1>15. Balanced(q)
  <2>1. /\ buf + (tb + sb) = TCP_SND_BUF /\ len - 1 = tp + sp
        /\ free + h + (tm + sm) = MEM_SIZE /\ out <= tb + sb
    BY <1>9, SendQueueAssumption, SynAssumption
  <2> QED
    BY <1>3, <1>4, <1>12, <2>1 DEF Balanced
<1>16. PcbOK(q)
  BY <1>7, <1>12, <1>14, <1>15 DEF PcbOK
<1> QED
  BY <1>10, <1>11, <1>12, <1>16

\* Segments that are sent again are on the books as they were.
LEMMA RequeueKeeps ==
  ASSUME NEW p, PcbOK(p)
  PROVE  /\ PcbOK(Requeued(p)) /\ Requeued(p).cwnd = TCP_MSS
         /\ Requeued(p).unacked = <<>> /\ Requeued(p).unsent = p.unacked \o p.unsent
<1>1. PICK ua \in Seq(Fitting), us \in Seq(Fitting) : ua = p.unacked /\ us = p.unsent
  BY IsPcb
<1>2. PICK all \in Seq(Fitting) : all = ua \o us
  BY ConcatProperties
<1>3. PICK none \in Seq(Fitting) : none = <<>>
  BY EmptySeq
<1>4. p \in Pcbs /\ Balanced(p) /\ RoomKept(us, p.unsent_oversize)
  BY <1>1 DEF PcbOK
<1>5. PICK q : /\ q = Requeued(p)
               /\ q = [p EXCEPT !.unsent = all, !.unacked = none, !.cwnd = TCP_MSS]
  BY <1>1, <1>2, <1>3 DEF Requeued
<1>6. /\ q.unsent = all /\ q.unacked = none /\ q.cwnd = TCP_MSS /\ q.snd_buf = p.snd_buf
      /\ q.snd_queuelen = p.snd_queuelen /\ q.free = p.free /\ q.out = p.out
      /\ q.unsent_oversize = p.unsent_oversize
  BY <1>4, <1>5 DEF Pcbs
<1>7. TCP_MSS \in 1 .. TCP_SND_BUF
  BY SendQueueAssumption
<1>8. q \in Pcbs
  BY <1>4, <1>5, <1>7 DEF Pcbs
<1>9. Balanced(q)
  <2>1. PICK ab \in Nat, ap \in Nat, am \in Nat :
          ab = Bytes(all) /\ ap = Pbufs(all) /\ am = Memory(all)
    BY SumsNat
  <2>2. /\ Bytes(ua) + Bytes(us) = ab /\ Pbufs(ua) + Pbufs(us) = ap
        /\ Memory(ua) + Memory(us) = am
    <3>1. Bytes(ua \o us) = Bytes(ua) + Bytes(us)
      BY SumsConcat
    <3>2. Pbufs(ua \o us) = Pbufs(ua) + Pbufs(us)
      BY SumsConcat
    <3>3. Memory(ua \o us) = Memory(ua) + Memory(us)
      BY SumsConcat
    <3> QED
      BY <1>2, <2>1, <3>1, <3>2, <3>3
  <2>3. /\ Bytes(none) + Bytes(all) = ab /\ Pbufs(none) + Pbufs(all) = ap
        /\ Memory(none) + Memory(all) = am
    BY <1>3, <2>1, SumsNone
  <2> QED
    BY <1>1, <1>4, <1>6, <2>2, <2>3 DEF Balanced
<1>10. RoomKept(all, p.unsent_oversize)
  <2>1. CASE us # <<>>
    <3>1. all # <<>>
      BY <1>2, <2>1, ConcatEqualIffEmpty
    <3>2. Last(all) = Last(us)
      BY <1>2, <2>1, LastOfJoined
    <3> QED
      BY <1>4, <2>1, <3>1, <3>2 DEF RoomKept
  <2>2. CASE us = <<>>
    <3>1. all = ua /\ p.unsent_oversize = 0
      BY <1>2, <1>4, <2>2, ConcatEmptySeq DEF RoomKept
    <3>2. CASE ua = <<>>
      BY <3>1, <3>2 DEF RoomKept
    <3>3. CASE ua # <<>>
      <4>1. Last(ua) \in Fitting
        BY <3>3, LastSplit
      <4>2. 0 + Last(ua).len <= TCP_MSS
        BY <4>1, SendQueueAssumption DEF Fitting
      <4> QED
        BY <3>1, <3>3, <4>2 DEF RoomKept
    <3> QED
      BY <3>2, <3>3
  <2> QED
    BY <2>1, <2>2
<1>11. PcbOK(q)
  BY <1>6, <1>8, <1>9, <1>10 DEF PcbOK
<1> QED
  BY <1>1, <1>2, <1>3, <1>5, <1>6, <1>11

(***************************************************************************)
(* Packets: what the encoders announce is what the senders write.          *)
(***************************************************************************)
\* Its pieces add up to the length it is announced with, below the 64 KB that length can say.
Announced(packet) ==
  /\ packet.pieces \in Seq(Nat)
  /\ Total(packet.pieces) < 65536 => packet.len = Total(packet.pieces)

\* Two numbers add up to their sum.
LEMMA TotalTwo ==
  ASSUME NEW m \in Nat, NEW n \in Nat
  PROVE  <<m, n>> \in Seq(Nat) /\ Total(<<m, n>>) = m + n
<1>1. PICK a \in Seq(Nat), b \in Seq(Nat) : a = <<m>> /\ b = <<n>>
  <2>1. <<m>> \in Seq(Nat) /\ <<n>> \in Seq(Nat)
    OBVIOUS
  <2> QED
    BY <2>1
<1>2. <<m, n>> = <<m>> \o <<n>> /\ <<m, n>> \in Seq(Nat)
  <2>1. <<m, n>> \in Seq(Nat)
    OBVIOUS
  <2>2. <<m, n>> = Append(<<m>>, n)
    OBVIOUS
  <2>3. Append(a, n) = a \o <<n>>
    BY AppendIsConcat
  <2> QED
    BY <1>1, <2>1, <2>2, <2>3
<1>3. Total(a) = m /\ Total(b) = n
  BY <1>1, TotalOne
<1>4. Total(a \o b) = Total(a) + Total(b)
  BY TotalConcat
<1> QED
  BY <1>1, <1>2, <1>3, <1>4

\* The number of digits that is announced is the number that is written.
LEMMA Digits ==
  ASSUME NEW n \in Nat, n < 65536
  PROVE  get_digits_remaining_len(n) = encode_remaining_len(n)
<1>1. CASE n < 128
  <2>1. n \div 128 = 0
    BY <1>1
  <2>2. get_digits_remaining_len(n) = 1
    BY <1>1 DEF get_digits_remaining_len
  <2> QED
    BY <2>1, <2>2 DEF encode_remaining_len
<1>2. CASE n >= 128 /\ n < 16384
  <2>1. n \div 128 # 0 /\ (n \div 128) \div 128 = 0
    BY <1>2
  <2>2. get_digits_remaining_len(n) = 2
    BY <1>2 DEF get_digits_remaining_len
  <2> QED
    BY <2>1, <2>2 DEF encode_remaining_len
<1>3. CASE n >= 16384
  <2>1. n \div 128 # 0 /\ (n \div 128) \div 128 # 0 /\ ((n \div 128) \div 128) \div 128 = 0
    BY <1>3
  <2>2. get_digits_remaining_len(n) = 3
    BY <1>3 DEF get_digits_remaining_len
  <2> QED
    BY <2>1, <2>2 DEF encode_remaining_len
<1> QED
  BY <1>1, <1>2, <1>3

\* A packet whose remaining length is what its pieces add up to is announced.
LEMMA PacketIs ==
  ASSUME NEW pieces \in Seq(Nat)
  PROVE  Announced(Packet(Total(pieces), pieces))
<1>1. PICK r \in Nat : r = Total(pieces)
  BY TotalNat
<1>2. PICK d \in Nat : d = encode_remaining_len(r)
  BY DEF encode_remaining_len
<1>3. PICK header \in Seq(Nat) : header = FixedHeader(r) /\ Total(header) = 1 + d
  BY <1>2, TotalTwo DEF FixedHeader
<1>4. PICK all \in Seq(Nat) : all = header \o pieces /\ Total(all) = 1 + d + r
  <2>1. header \o pieces \in Seq(Nat)
    BY ConcatProperties
  <2>2. Total(header \o pieces) = Total(header) + Total(pieces)
    BY TotalConcat
  <2> QED
    BY <1>1, <1>3, <2>1, <2>2
<1>5. PICK packet : packet = Packet(r, pieces)
  OBVIOUS
<1>6. packet.pieces = all /\ packet.len = get_packet_len(r)
  BY <1>3, <1>4, <1>5 DEF Packet
<1>7. ASSUME Total(all) < 65536
      PROVE  packet.len = Total(all)
  <2>1. r < 65536 /\ r + 1 + d < 65536 /\ r + 1 + d = 1 + d + r
    BY <1>4, <1>7
  <2>2. get_digits_remaining_len(r) = d
    BY <1>2, <2>1, Digits
  <2>3. get_packet_len(r) = (r + 1 + d) % 65536
    BY <2>2 DEF get_packet_len
  <2>4. (r + 1 + d) % 65536 = r + 1 + d
    BY <2>1
  <2> QED
    BY <1>4, <1>6, <2>1, <2>3, <2>4
<1> QED
  BY <1>1, <1>5, <1>6, <1>7 DEF Announced

\* The same, when remaining is that sum.
LEMMA PacketOf ==
  ASSUME NEW remaining, NEW pieces \in Seq(Nat), Total(pieces) = remaining
  PROVE  Announced(Packet(remaining, pieces))
BY PacketIs

\* A string is two bytes and its characters.
LEMMA Utf8Is ==
  ASSUME NEW len \in Nat
  PROVE  Utf8(len) \in Seq(Nat) /\ Total(Utf8(len)) = 2 + len
BY TotalTwo DEF Utf8

\* CONNECT is announced with the length of all its strings.
LEMMA ConnectIs ==
  ASSUME NEW c \in ClientIdLens, NEW extras \in ConnectExtras
  PROVE  Announced(ConnectPacket(c, extras))
<1>1. c \in Nat
  BY WireAssumption
<1>2. PICK n \in 0 .. MaxExtras : extras \in [1 .. n -> TopicLens]
  BY DEF ConnectExtras
<1>3. n \in Nat /\ DOMAIN extras = 1 .. n /\ \A i \in 1 .. n : extras[i] \in Nat
  <2>1. n \in Nat
    BY WireAssumption
  <2>2. DOMAIN extras = 1 .. n
    BY <1>2
  <2>3. \A i \in 1 .. n : extras[i] \in TopicLens
    BY <1>2
  <2>4. \A i \in 1 .. n : extras[i] \in Nat
    BY <2>3, WireAssumption
  <2> QED
    BY <2>1, <2>2, <2>4
<1>4. PICK chain \in Seq(Seq(Nat)) :
        /\ chain = [i \in DOMAIN extras |-> Utf8(extras[i])] /\ Len(chain) = n
        /\ \A i \in 1 .. n : chain[i] = Utf8(extras[i])
  <2>1. \A i \in 1 .. n : Utf8(extras[i]) \in Seq(Nat)
    BY <1>3, Utf8Is
  <2>2. PICK chain : chain = [i \in 1 .. n |-> Utf8(extras[i])]
    OBVIOUS
  <2>3. chain \in [1 .. n -> Seq(Nat)]
    BY <2>1, <2>2
  <2> QED
    BY <1>3, <2>2, <2>3
<1>5. PICK lens \in Seq(Nat) :
        /\ lens = [i \in DOMAIN extras |-> 2 + extras[i]] /\ Len(lens) = n
        /\ \A i \in 1 .. n : lens[i] = 2 + extras[i]
  <2>1. PICK lens : lens = [i \in 1 .. n |-> 2 + extras[i]]
    OBVIOUS
  <2>2. lens \in [1 .. n -> Nat]
    BY <1>3, <2>1
  <2>3. lens \in Seq(Nat) /\ Len(lens) = n
    BY <1>3, <2>2
  <2>4. lens = [i \in DOMAIN extras |-> 2 + extras[i]]
    BY <1>3, <2>1
  <2>5. \A i \in 1 .. n : lens[i] = 2 + extras[i]
    BY <2>1
  <2> QED
    BY <2>3, <2>4, <2>5
<1>6. PICK flat \in Seq(Nat) : flat = Flattened(chain) /\ Total(flat) = Total(lens)
  <2>1. \A i \in 1 .. n : lens[i] = Total(chain[i])
    BY <1>3, <1>4, <1>5, Utf8Is
  <2>2. TotalsOf(chain, lens)
    BY <1>4, <1>5, <2>1 DEF TotalsOf
  <2> QED
    BY <2>2, TotalFlattened
<1>7. PICK name \in Seq(Nat) : name = Utf8(4) /\ Total(name) = 6
  <2>1. Utf8(4) \in Seq(Nat) /\ Total(Utf8(4)) = 2 + 4
    BY Utf8Is
  <2> QED
    BY <2>1
<1>8. PICK fixed \in Seq(Nat) : fixed = <<1, 1, 2>> /\ Total(fixed) = 4
  <2>1. PICK a \in Seq(Nat), b \in Seq(Nat) : a = <<1>> /\ b = <<1, 2>>
    <3>1. <<1>> \in Seq(Nat) /\ <<1, 2>> \in Seq(Nat)
      OBVIOUS
    <3> QED
      BY <3>1
  <2>2. <<1, 1, 2>> = <<1>> \o <<1, 2>> /\ <<1, 1, 2>> \in Seq(Nat)
    OBVIOUS
  <2>3. Total(a) = 1 /\ Total(b) = 3
    BY <2>1, TotalOne, TotalTwo
  <2>4. Total(a \o b) = Total(a) + Total(b)
    BY TotalConcat
  <2>5. Total(a \o b) = 4
    BY <2>3, <2>4
  <2>6. a \o b = <<1, 1, 2>>
    BY <2>1, <2>2
  <2> QED
    BY <2>2, <2>5, <2>6
<1>9. PICK id \in Seq(Nat) : id = Utf8(c) /\ Total(id) = 2 + c
  BY <1>1, Utf8Is
<1>10. PICK x \in Seq(Nat) : x = name \o fixed /\ Total(x) = 10
  <2>1. Total(name \o fixed) = Total(name) + Total(fixed)
    BY TotalConcat
  <2>2. name \o fixed \in Seq(Nat)
    BY ConcatProperties
  <2>3. Total(name \o fixed) = 10
    BY <1>7, <1>8, <2>1
  <2> QED
    BY <2>2, <2>3
<1>11. PICK y \in Seq(Nat) : y = x \o id /\ Total(y) = 12 + c
  <2>1. Total(x \o id) = Total(x) + Total(id)
    BY TotalConcat
  <2>2. x \o id \in Seq(Nat)
    BY ConcatProperties
  <2>3. 10 + (2 + c) = 12 + c
    BY <1>1
  <2>4. Total(x \o id) = 12 + c
    BY <1>9, <1>10, <2>1, <2>3
  <2> QED
    BY <2>2, <2>4
<1>12. PICK t \in Nat : t = Total(lens)
  BY TotalNat
<1>13. PICK z \in Seq(Nat) : z = y \o flat /\ Total(z) = 10 + 2 + c + t
  <2>1. Total(y \o flat) = Total(y) + Total(flat)
    BY TotalConcat
  <2>2. y \o flat \in Seq(Nat)
    BY ConcatProperties
  <2>3. 12 + c + t = 10 + 2 + c + t
    BY <1>1
  <2> QED
    BY <1>6, <1>11, <1>12, <2>1, <2>2, <2>3
<1>14. ConnectPacket(c, extras) = Packet(10 + 2 + c + t, z)
  BY <1>4, <1>5, <1>6, <1>7, <1>8, <1>9, <1>10, <1>11, <1>12, <1>13 DEF ConnectPacket
<1>15. Announced(Packet(10 + 2 + c + t, z))
  BY <1>13, PacketOf
<1> QED
  BY <1>14, <1>15

\* PUBLISH has its packet id for QoS 1 and 2.
LEMMA PublishIs ==
  ASSUME NEW topic \in TopicLens, NEW payload \in PayloadLens, NEW qos \in 0 .. 2
  PROVE  Announced(PublishPacket(topic, payload, qos))
<1>1. topic \in Nat /\ payload \in Nat
  BY WireAssumption
<1>2. PICK name \in Seq(Nat) : name = Utf8(topic) /\ Total(name) = 2 + topic
  BY <1>1, Utf8Is
<1>3. PICK last \in Seq(Nat) : last = <<payload>> /\ Total(last) = payload
  <2>1. <<payload>> \in Seq(Nat)
    BY <1>1
  <2> QED
    BY <1>1, <2>1, TotalOne
<1>4. PICK i \in 0 .. 2, id \in Seq(Nat) :
        /\ i = (IF qos # 0 THEN 2 ELSE 0)
        /\ id = (IF qos # 0 THEN <<2>> ELSE <<>>) /\ Total(id) = i
  <2>1. CASE qos = 0
    <3>1. <<>> \in Seq(Nat)
      BY EmptySeq
    <3> QED
      BY <2>1, <3>1, TotalNone
  <2>2. CASE qos # 0
    <3>1. <<2>> \in Seq(Nat)
      OBVIOUS
    <3>2. Total(<<2>>) = 2
      BY TotalOne
    <3>3. PICK id \in Seq(Nat) : id = <<2>>
      BY <3>1
    <3>4. PICK two \in 0 .. 2 : two = 2
      OBVIOUS
    <3>5. two = (IF qos # 0 THEN 2 ELSE 0) /\ id = (IF qos # 0 THEN <<2>> ELSE <<>>)
      BY <2>2, <3>3, <3>4
    <3>6. Total(id) = two
      BY <3>2, <3>3, <3>4
    <3> QED
      BY <3>5, <3>6
  <2> QED
    BY <2>1, <2>2
<1>5. PICK x \in Seq(Nat) : x = name \o id /\ Total(x) = 2 + topic + i
  <2>1. Total(name \o id) = Total(name) + Total(id)
    BY TotalConcat
  <2>2. name \o id \in Seq(Nat)
    BY ConcatProperties
  <2>3. Total(name \o id) = 2 + topic + i
    BY <1>2, <1>4, <2>1
  <2> QED
    BY <2>2, <2>3
<1>6. PICK z \in Seq(Nat) : z = x \o last /\ Total(z) = 2 + topic + payload + i
  <2>1. Total(x \o last) = Total(x) + Total(last)
    BY TotalConcat
  <2>2. x \o last \in Seq(Nat)
    BY ConcatProperties
  <2>3. 2 + topic + i + payload = 2 + topic + payload + i
    BY <1>1
  <2>4. Total(x \o last) = 2 + topic + payload + i
    BY <1>3, <1>5, <2>1, <2>3
  <2> QED
    BY <2>2, <2>4
<1>7. get_publish_packet_len(topic, payload, qos) = 2 + topic + payload + i
  BY <1>4 DEF get_publish_packet_len
<1>8. PublishPacket(topic, payload, qos) = Packet(2 + topic + payload + i, z)
  BY <1>2, <1>3, <1>4, <1>5, <1>6, <1>7 DEF PublishPacket
<1>9. Announced(Packet(2 + topic + payload + i, z))
  BY <1>6, PacketOf
<1> QED
  BY <1>8, <1>9

\* SUBSCRIBE and UNSUBSCRIBE.
LEMMA SubscribeIs ==
  ASSUME NEW topic \in TopicLens
  PROVE  Announced(SubscribePacket(topic)) /\ Announced(UnsubscribePacket(topic))
<1>1. topic \in Nat
  BY WireAssumption
<1>2. PICK name \in Seq(Nat) : name = Utf8(topic) /\ Total(name) = 2 + topic
  BY <1>1, Utf8Is
<1>3. PICK id \in Seq(Nat) : id = <<2>> /\ Total(id) = 2
  <2>1. <<2>> \in Seq(Nat)
    OBVIOUS
  <2> QED
    BY <2>1, TotalOne
<1>4. PICK qos \in Seq(Nat) : qos = <<1>> /\ Total(qos) = 1
  <2>1. <<1>> \in Seq(Nat)
    OBVIOUS
  <2> QED
    BY <2>1, TotalOne
<1>5. PICK x \in Seq(Nat) : x = id \o name /\ Total(x) = 2 + 2 + topic
  <2>1. Total(id \o name) = Total(id) + Total(name)
    BY TotalConcat
  <2>2. id \o name \in Seq(Nat)
    BY ConcatProperties
  <2>3. Total(id \o name) = 2 + 2 + topic
    BY <1>1, <1>2, <1>3, <2>1
  <2> QED
    BY <2>2, <2>3
<1>6. PICK z \in Seq(Nat) : z = x \o qos /\ Total(z) = 2 + 2 + topic + 1
  <2>1. Total(x \o qos) = Total(x) + Total(qos)
    BY TotalConcat
  <2>2. x \o qos \in Seq(Nat)
    BY ConcatProperties
  <2>3. Total(x \o qos) = 2 + 2 + topic + 1
    BY <1>4, <1>5, <2>1
  <2> QED
    BY <2>2, <2>3
<1>7. SubscribePacket(topic) = Packet(2 + 2 + topic + 1, z)
  BY <1>2, <1>3, <1>4, <1>5, <1>6 DEF SubscribePacket
<1>8. UnsubscribePacket(topic) = Packet(2 + 2 + topic, x)
  BY <1>2, <1>3, <1>5 DEF UnsubscribePacket
<1>9. Announced(Packet(2 + 2 + topic + 1, z)) /\ Announced(Packet(2 + 2 + topic, x))
  BY <1>5, <1>6, PacketOf
<1> QED
  BY <1>7, <1>8, <1>9

\* PINGREQ, and the packets that are a packet id.
LEMMA SmallOnesAre == Announced(PingreqPacket) /\ Announced(AnswerPacket)
<1>1. Announced(PingreqPacket)
  <2>1. <<>> \in Seq(Nat)
    BY EmptySeq
  <2>2. Announced(Packet(0, <<>>))
    BY <2>1, TotalNone, PacketOf
  <2> QED
    BY <2>2 DEF PingreqPacket
<1>2. Announced(AnswerPacket)
  <2>1. <<2>> \in Seq(Nat) /\ Total(<<2>>) = 2
    BY TotalOne
  <2>2. Announced(Packet(2, <<2>>))
    BY <2>1, PacketOf
  <2> QED
    BY <2>2 DEF AnswerPacket
<1> QED
  BY <1>1, <1>2

\* Every packet that the client can send.
SentPackets ==
  {ConnectPacket(c, x) : c \in ClientIdLens, x \in ConnectExtras}
    \cup {PublishPacket(t, m, 0) : t \in TopicLens, m \in PayloadLens}
    \cup RequestPackets \cup {AnswerPacket}

\* Each of them is as long as it is announced.
LEMMA PacketsAnnounced == \A packet \in SentPackets : Announced(packet)
<1> SUFFICES ASSUME NEW packet \in SentPackets
             PROVE  Announced(packet)
  OBVIOUS
<1>1. CASE packet \in {ConnectPacket(c, x) : c \in ClientIdLens, x \in ConnectExtras}
  BY <1>1, ConnectIs
<1>2. CASE packet \in {PublishPacket(t, m, 0) : t \in TopicLens, m \in PayloadLens}
  <2>1. PICK t \in TopicLens, m \in PayloadLens : packet = PublishPacket(t, m, 0)
    BY <1>2
  <2>2. 0 \in 0 .. 2
    OBVIOUS
  <2> QED
    BY <2>1, <2>2, PublishIs
<1>3. CASE packet \in RequestPackets
  <2>1. CASE packet \in {PublishPacket(t, m, q) : t \in TopicLens, m \in PayloadLens, q \in {1, 2}}
    <3>1. PICK t \in TopicLens, m \in PayloadLens, q \in {1, 2} : packet = PublishPacket(t, m, q)
      BY <2>1
    <3>2. q \in 0 .. 2
      OBVIOUS
    <3> QED
      BY <3>1, <3>2, PublishIs
  <2>2. CASE packet \in {SubscribePacket(t) : t \in TopicLens}
    BY <2>2, SubscribeIs
  <2>3. CASE packet \in {UnsubscribePacket(t) : t \in TopicLens}
    BY <2>3, SubscribeIs
  <2>4. CASE packet = PingreqPacket
    BY <2>4, SmallOnesAre
  <2> QED
    BY <1>3, <2>1, <2>2, <2>3, <2>4 DEF RequestPackets
<1>4. CASE packet = AnswerPacket
  BY <1>4, SmallOnesAre
<1> QED
  BY <1>1, <1>2, <1>3, <1>4 DEF SentPackets

(***************************************************************************)
(* The inductive invariant.                                                *)
(***************************************************************************)
\* Before the broker answers the SYN, it is the first segment on its way; from then on the
\* congestion window has room for a segment.
Ready(ph, p) ==
  IF ph \in {"closed", "syn_sent"} THEN p.unacked # <<>> /\ p.unacked[1] = Syn
  ELSE p.cwnd >= TCP_MSS

\* A pcb between two calls of lwIP.
Settled(ph, p) ==
  /\ PcbOK(p) /\ Ready(ph, p)
  /\ ph # "receiving" => ~p.memerr /\ (p.unsent # <<>> => p.unacked # <<>>)

WireInv ==
  /\ phase \in {"closed", "syn_sent", "established", "connected", "receiving", "given_up"}
  /\ requests \in Nat /\ replies \in Nat /\ timeouts \in Nat /\ whole \in BOOLEAN
  /\ Settled(phase, pcb)

\* tcp_output settles a pcb.
LEMMA OutputSettles ==
  ASSUME NEW ph, NEW p, PcbOK(p), Ready(ph, p)
  PROVE  Settled(ph, tcp_output(p))
<1>1. p.unacked # <<>> \/ p.cwnd >= TCP_MSS
  BY DEF Ready
<1>2. Sent(p, tcp_output(p))
  BY <1>1, OutputKeeps
<1>3. Ready(ph, tcp_output(p))
  BY <1>2 DEF Sent, Ready
<1> QED
  BY <1>2, <1>3 DEF Sent, Settled

\* So does sending a packet.
LEMMA SendSettles ==
  ASSUME NEW ph, NEW p, PcbOK(p), Ready(ph, p), NEW packet \in SentPackets
  PROVE  /\ Settled(ph, tcp_output(Written(p, packet)))
         /\ Wrote(p, Written(p, packet), Total(packet.pieces))
<1>1. packet.pieces \in Seq(Nat)
  BY PacketsAnnounced DEF Announced
<1>2. PICK q : q = Written(p, packet)
  OBVIOUS
<1>3. Wrote(p, q, Total(packet.pieces))
  BY <1>1, <1>2, WrittenIs
<1>4. PcbOK(q) /\ Ready(ph, q)
  BY <1>3 DEF Wrote, Ready
<1> QED
  BY <1>2, <1>3, <1>4, OutputSettles

\* What Send leaves.
LEMMA SendKeeps ==
  ASSUME NEW ph, PcbOK(pcb), Ready(ph, pcb), NEW packet \in SentPackets, Send(packet)
  PROVE  Settled(ph, pcb') /\ whole' \in BOOLEAN
<1>1. pcb' = tcp_output(Written(pcb, packet)) /\ whole' \in BOOLEAN
  BY DEF Send, Accepted
<1> QED
  BY <1>1, SendSettles

\* The first state: the SYN is out.
LEMMA WireInitInv == WireInit => WireInv
<1> SUFFICES ASSUME WireInit
             PROVE  WireInv
  OBVIOUS
<1>1. PICK h \in Nat : h = Syn.mem /\ h <= MEM_SIZE
  BY SynIs, SynAssumption
<1>2. PICK none \in Seq(Fitting), one \in Seq(Fitting) : none = <<>> /\ one = <<Syn>>
  BY SynIs, EmptySeq
<1>3. PICK p : p = [snd_buf |-> TCP_SND_BUF, snd_queuelen |-> 1, unsent |-> none, unacked |-> one,
                    unsent_oversize |-> 0, out |-> 0, cwnd |-> 1, memerr |-> FALSE,
                    free |-> MEM_SIZE - h]
  OBVIOUS
<1>4. pcb = p
  BY <1>1, <1>2, <1>3 DEF WireInit, PcbWithSyn
<1>5. /\ p.snd_buf = TCP_SND_BUF /\ p.snd_queuelen = 1 /\ p.unsent = none /\ p.unacked = one
      /\ p.unsent_oversize = 0 /\ p.out = 0 /\ p.cwnd = 1 /\ p.memerr = FALSE
      /\ p.free = MEM_SIZE - h
  BY <1>3
<1>6. p \in Pcbs
  <2>1. /\ TCP_SND_BUF \in 0 .. TCP_SND_BUF /\ 1 \in 0 .. TCP_SND_QUEUELEN /\ 0 \in 0 .. TCP_MSS
        /\ 0 \in 0 .. TCP_SND_BUF /\ 1 \in 1 .. TCP_SND_BUF
    BY SendQueueAssumption
  <2>2. MEM_SIZE - h \in 0 .. MEM_SIZE
    BY <1>1, SynAssumption
  <2> QED
    BY <1>3, <2>1, <2>2 DEF Pcbs
<1>7. Balanced(p)
  <2>1. /\ Bytes(p.unsent) = 0 /\ Pbufs(p.unsent) = 0 /\ Memory(p.unsent) = 0
    BY <1>2, <1>5, SumsNone
  <2>2. /\ Bytes(p.unacked) = 0 /\ Pbufs(p.unacked) = 1 /\ Memory(p.unacked) = h
    BY <1>1, <1>2, <1>5, SynIs
  <2>3. /\ TCP_SND_BUF + (0 + 0) = TCP_SND_BUF /\ 1 = 1 + 0 /\ 0 <= 0 + 0
        /\ MEM_SIZE - h + (h + 0) = MEM_SIZE
    BY <1>1, SendQueueAssumption, SynAssumption
  <2> QED
    BY <1>5, <2>1, <2>2, <2>3 DEF Balanced
<1>8. RoomKept(p.unsent, p.unsent_oversize)
  BY <1>2, <1>5 DEF RoomKept
<1>9. PcbOK(p)
  BY <1>6, <1>7, <1>8 DEF PcbOK
<1>10. p.unacked # <<>> /\ p.unacked[1] = Syn
  BY <1>2, <1>5
<1>11. Settled("closed", p)
  BY <1>2, <1>5, <1>9, <1>10 DEF Settled, Ready
<1>12. requests \in Nat /\ replies \in Nat /\ timeouts \in Nat
  BY DEF WireInit
<1>13. phase = "closed" /\ whole \in BOOLEAN
  BY DEF WireInit
<1> QED
  BY <1>4, <1>11, <1>12, <1>13 DEF WireInv

\* MQTTClient_connect.
LEMMA ConnectKeeps ==
  ASSUME WireInv, NEW c \in ClientIdLens, NEW x \in ConnectExtras, Connect(c, x)
  PROVE  WireInv'
<1>1. PcbOK(pcb) /\ Ready("syn_sent", pcb)
  BY DEF WireInv, Connect, Settled, Ready
<1>2. ConnectPacket(c, x) \in SentPackets /\ Send(ConnectPacket(c, x))
  BY DEF SentPackets, Connect
<1>3. Settled("syn_sent", pcb') /\ whole' \in BOOLEAN
  BY <1>1, <1>2, SendKeeps
<1>4. phase' = "syn_sent" /\ UNCHANGED <<requests, replies, timeouts>>
  BY DEF Connect
<1> QED
  BY <1>3, <1>4 DEF WireInv

\* A QoS 0 publish.
LEMMA PublishQos0Keeps ==
  ASSUME WireInv, NEW t \in TopicLens, NEW m \in PayloadLens, PublishQos0(t, m)
  PROVE  WireInv'
<1>1. PcbOK(pcb) /\ Ready(phase, pcb)
  BY DEF WireInv, Settled
<1>2. PublishPacket(t, m, 0) \in SentPackets /\ Send(PublishPacket(t, m, 0))
  BY DEF SentPackets, PublishQos0
<1>3. Settled(phase, pcb') /\ whole' \in BOOLEAN
  BY <1>1, <1>2, SendKeeps
<1>4. UNCHANGED <<phase, requests, replies, timeouts>>
  BY DEF PublishQos0
<1> QED
  BY <1>3, <1>4 DEF WireInv

\* A packet that will be answered.
LEMMA RequestKeeps ==
  ASSUME WireInv, NEW packet \in RequestPackets, Request(packet)
  PROVE  WireInv'
<1>1. PcbOK(pcb) /\ Ready(phase, pcb)
  BY DEF WireInv, Settled
<1>2. packet \in SentPackets /\ Send(packet)
  BY DEF SentPackets, Request
<1>3. Settled(phase, pcb') /\ whole' \in BOOLEAN
  BY <1>1, <1>2, SendKeeps
<1>4. UNCHANGED <<phase, replies, timeouts>>
  BY DEF Request
<1>5. requests' \in Nat
  BY DEF Request, WireInv
<1> QED
  BY <1>3, <1>4, <1>5 DEF WireInv

\* The broker answers the SYN.
LEMMA SynAckStepKeeps ==
  ASSUME WireInv, SynAck
  PROVE  WireInv'
<1>1. PcbOK(pcb) /\ pcb.unacked # <<>> /\ pcb.unacked[1] = Syn
  BY DEF WireInv, SynAck, Settled, Ready
<1>2. PcbOK(SynAcknowledged(pcb)) /\ SynAcknowledged(pcb).cwnd >= TCP_MSS
  BY <1>1, SynAckKeeps
<1>3. Ready("established", SynAcknowledged(pcb))
  BY <1>2 DEF Ready
<1>4. Settled("established", pcb')
  BY <1>2, <1>3, OutputSettles DEF SynAck
<1>5. phase' = "established" /\ UNCHANGED <<requests, replies, timeouts, whole>>
  BY DEF SynAck
<1> QED
  BY <1>4, <1>5 DEF WireInv

\* A pcb with an acknowledgement taken off, from the SYN's answer on.
LEMMA AckReady ==
  ASSUME WireInv, phase \notin {"closed", "syn_sent", "receiving"}, NEW n \in Coverable(pcb),
         NEW ph \in {"established", "connected", "receiving"}
  PROVE  /\ PcbOK(Acknowledged(pcb, n)) /\ Ready(ph, Acknowledged(pcb, n))
         /\ ~Acknowledged(pcb, n).memerr
<1>1. PcbOK(pcb) /\ pcb.cwnd >= TCP_MSS /\ ~pcb.memerr
  BY DEF WireInv, Settled, Ready
<1>2. PICK q : q = Acknowledged(pcb, n)
  OBVIOUS
<1>3. PcbOK(q) /\ q.cwnd >= TCP_MSS
  BY <1>1, <1>2, AckKeeps
<1>4. ~q.memerr
  BY <1>1, <1>2, AckKeeps
<1> QED
  BY <1>2, <1>3, <1>4 DEF Ready

\* CONNACK.
LEMMA ConnackKeeps ==
  ASSUME WireInv, Connack
  PROVE  WireInv'
<1>1. PICK n \in Coverable(pcb) : n = Len(Queued(pcb))
  BY DEF Connack
<1>2. phase \notin {"closed", "syn_sent", "receiving"}
  BY DEF Connack
<1>3. PcbOK(Acknowledged(pcb, n)) /\ Ready("connected", Acknowledged(pcb, n))
  BY <1>2, AckReady
<1>4. Settled("connected", pcb')
  BY <1>1, <1>3, OutputSettles DEF Connack
<1>5. phase' = "connected" /\ UNCHANGED <<requests, replies, timeouts, whole>>
  BY DEF Connack
<1> QED
  BY <1>4, <1>5 DEF WireInv

\* An acknowledgement.
LEMMA AckStepKeeps ==
  ASSUME WireInv, NEW n \in Coverable(pcb), Ack(n)
  PROVE  WireInv'
<1>1. phase \in {"established", "connected"}
  BY DEF Ack
<1>2. PcbOK(Acknowledged(pcb, n)) /\ Ready(phase, Acknowledged(pcb, n))
  BY <1>1, AckReady
<1>3. Settled(phase, pcb')
  BY <1>2, OutputSettles DEF Ack
<1>4. UNCHANGED <<phase, requests, replies, timeouts, whole>>
  BY DEF Ack
<1> QED
  BY <1>3, <1>4 DEF WireInv

\* A segment comes whose packets will be answered.
LEMMA ReceiveKeeps ==
  ASSUME WireInv, NEW n \in {0} \cup Coverable(pcb), Receive(n)
  PROVE  WireInv'
<1>1. /\ phase = "connected" /\ phase' = "receiving"
      /\ pcb' = IF n = 0 THEN pcb ELSE Acknowledged(pcb, n)
      /\ UNCHANGED <<requests, replies, timeouts, whole>>
  BY DEF Receive
<1>2. CASE n = 0
  <2>1. PcbOK(pcb') /\ Ready("receiving", pcb')
    BY <1>1, <1>2 DEF WireInv, Settled, Ready
  <2> QED
    BY <1>1, <2>1 DEF WireInv, Settled
<1>3. CASE n # 0
  <2>1. PcbOK(pcb') /\ Ready("receiving", pcb')
    BY <1>1, <1>3, AckReady
  <2> QED
    BY <1>1, <2>1 DEF WireInv, Settled
<1> QED
  BY <1>2, <1>3

\* An answer of the client is written.
LEMMA AnswerKeeps ==
  ASSUME WireInv, Answer
  PROVE  WireInv'
<1>1. /\ phase = "receiving" /\ UNCHANGED <<phase, requests, timeouts>>
      /\ pcb' = Written(pcb, AnswerPacket) /\ whole' \in BOOLEAN /\ replies' = replies + 1
  BY DEF Answer, Accepted
<1>2. AnswerPacket \in SentPackets /\ PcbOK(pcb) /\ Ready(phase, pcb)
  BY DEF SentPackets, WireInv, Settled
<1>3. Wrote(pcb, pcb', Total(AnswerPacket.pieces))
  BY <1>1, <1>2, SendSettles
<1>4. PcbOK(pcb') /\ Ready(phase, pcb')
  BY <1>2, <1>3 DEF Wrote, Ready
<1> QED
  BY <1>1, <1>4 DEF WireInv, Settled

\* The end of tcp_input, and of the connection.
LEMMA InputDoneKeeps ==
  ASSUME WireInv, InputDone \/ GiveUp
  PROVE  WireInv'
<1>1. /\ phase = "receiving" /\ phase' \in {"connected", "given_up"} /\ pcb' = tcp_output(pcb)
      /\ UNCHANGED <<requests, replies, timeouts, whole>>
  BY DEF InputDone, GiveUp
<1>2. PcbOK(pcb) /\ Ready(phase', pcb)
  BY <1>1 DEF WireInv, Settled, Ready
<1>3. Settled(phase', pcb')
  BY <1>1, <1>2, OutputSettles
<1> QED
  BY <1>1, <1>3 DEF WireInv

\* A timeout: everything is unsent again, and the first segment leaves again.
LEMMA TimeoutKeeps ==
  ASSUME WireInv, Timeout
  PROVE  WireInv'
<1>1. PcbOK(pcb) /\ Ready(phase, pcb) /\ pcb.unacked # <<>>
  BY DEF WireInv, Settled, Timeout
<1>2. PICK p : p = Requeued(pcb)
  OBVIOUS
<1>3. PcbOK(p) /\ p.cwnd = TCP_MSS /\ p.unacked = <<>> /\ p.unsent = pcb.unacked \o pcb.unsent
  BY <1>1, <1>2, RequeueKeeps
<1>4. p.cwnd >= TCP_MSS
  BY <1>3, SendQueueAssumption
<1>5. Sent(p, pcb')
  BY <1>2, <1>3, <1>4, OutputKeeps DEF Timeout
<1>6. p.unsent # <<>> /\ p.unsent[1] = pcb.unacked[1]
  <2>1. PICK ua \in Seq(Fitting), us \in Seq(Fitting) : ua = pcb.unacked /\ us = pcb.unsent
    BY <1>1, IsPcb
  <2>2. ua # <<>> /\ p.unsent = ua \o us
    BY <1>1, <1>3, <2>1
  <2>3. ua \o us # <<>> /\ (ua \o us)[1] = ua[1]
    BY <2>2, FirstOfJoined
  <2> QED
    BY <2>1, <2>2, <2>3
<1>7. Ready(phase, pcb')
  <2>1. CASE phase \in {"closed", "syn_sent"}
    BY <1>1, <1>3, <1>5, <1>6, <2>1 DEF Sent, Ready
  <2>2. CASE phase \notin {"closed", "syn_sent"}
    BY <1>4, <1>5, <2>2 DEF Sent, Ready
  <2> QED
    BY <2>1, <2>2
<1>8. Settled(phase, pcb')
  BY <1>5, <1>7 DEF Sent, Settled
<1>9. UNCHANGED <<phase, requests, replies, whole>>
  BY DEF Timeout
<1>10. timeouts' \in Nat
  BY DEF Timeout, WireInv
<1> QED
  BY <1>8, <1>9, <1>10 DEF WireInv

\* No step breaks the invariant.
LEMMA WireStepKeeps == WireInv /\ [WireNext]_wireVars => WireInv'
<1> SUFFICES ASSUME WireInv, [WireNext]_wireVars
             PROVE  WireInv'
  OBVIOUS
<1>1. ASSUME NEW c \in ClientIdLens, NEW x \in ConnectExtras, Connect(c, x)
      PROVE  WireInv'
  BY <1>1, ConnectKeeps
<1>2. ASSUME NEW t \in TopicLens, NEW m \in PayloadLens, PublishQos0(t, m)
      PROVE  WireInv'
  BY <1>2, PublishQos0Keeps
<1>3. ASSUME NEW packet \in RequestPackets, Request(packet)
      PROVE  WireInv'
  BY <1>3, RequestKeeps
<1>4. CASE SynAck
  BY <1>4, SynAckStepKeeps
<1>5. CASE Connack
  BY <1>5, ConnackKeeps
<1>6. ASSUME NEW n \in Coverable(pcb), Ack(n)
      PROVE  WireInv'
  BY <1>6, AckStepKeeps
<1>7. ASSUME NEW n \in {0} \cup Coverable(pcb), Receive(n)
      PROVE  WireInv'
  BY <1>7, ReceiveKeeps
<1>8. CASE Answer
  BY <1>8, AnswerKeeps
<1>9. CASE GiveUp \/ InputDone
  BY <1>9, InputDoneKeeps
<1>10. CASE Timeout
  BY <1>10, TimeoutKeeps
<1>11. CASE UNCHANGED wireVars
  BY <1>11 DEF wireVars, WireInv
<1> QED
  BY <1>1, <1>2, <1>3, <1>4, <1>5, <1>6, <1>7, <1>8, <1>9, <1>10, <1>11 DEF WireNext

\* The invariant always holds.
LEMMA WireInvAlways == WireSpec => []WireInv
<1>1. WireInit => WireInv
  BY WireInitInv
<1>2. WireInv /\ [WireNext]_wireVars => WireInv'
  BY WireStepKeeps
<1> QED
  BY <1>1, <1>2, PTL DEF WireSpec

(***************************************************************************)
(* The theorems.                                                           *)
(***************************************************************************)
\* The invariant says what lwIP's assertions do.
LEMMA WireInvSays == WireInv => WireTypeOK /\ BooksBalance /\ SegmentsFit /\ HeldDataAwaitsAck
<1> SUFFICES ASSUME WireInv
             PROVE  WireTypeOK /\ BooksBalance /\ SegmentsFit /\ HeldDataAwaitsAck
  OBVIOUS
<1>1. PcbOK(pcb) /\ (phase # "receiving" /\ pcb.unsent # <<>> => pcb.unacked # <<>>)
  BY DEF WireInv, Settled
<1>2. PICK ua \in Seq(Fitting), us \in Seq(Fitting) : ua = pcb.unacked /\ us = pcb.unsent
  BY <1>1, IsPcb
<1>3. PICK all \in Seq(Fitting) : all = ua \o us /\ all = Queued(pcb)
  BY <1>2, ConcatProperties DEF Queued
<1>4. WireTypeOK
  <2>1. Fitting \subseteq Segment
    BY SendQueueAssumption DEF Fitting, Segment
  <2>2. Seq(Fitting) \subseteq Seq(Segment)
    BY <2>1, SeqMonotonic
  <2>3. pcb \in Pcbs
    BY <1>1 DEF PcbOK
  <2>4. pcb \in [snd_buf : 0 .. TCP_SND_BUF, snd_queuelen : 0 .. TCP_SND_QUEUELEN,
                 unsent : Seq(Segment), unacked : Seq(Segment), unsent_oversize : 0 .. TCP_MSS,
                 out : 0 .. TCP_SND_BUF, cwnd : 1 .. TCP_SND_BUF, memerr : BOOLEAN,
                 free : 0 .. MEM_SIZE]
    BY <2>2, <2>3 DEF Pcbs
  <2> QED
    BY <2>4 DEF WireTypeOK, WireInv
<1>5. BooksBalance
  <2>1. Balanced(pcb)
    BY <1>1 DEF PcbOK
  <2>2. /\ Bytes(all) = Bytes(ua) + Bytes(us) /\ Pbufs(all) = Pbufs(ua) + Pbufs(us)
        /\ Memory(all) = Memory(ua) + Memory(us)
    <3>1. Bytes(ua \o us) = Bytes(ua) + Bytes(us)
      BY SumsConcat
    <3>2. Pbufs(ua \o us) = Pbufs(ua) + Pbufs(us)
      BY SumsConcat
    <3>3. Memory(ua \o us) = Memory(ua) + Memory(us)
      BY SumsConcat
    <3> QED
      BY <1>3, <3>1, <3>2, <3>3
  <2> QED
    BY <1>2, <1>3, <2>1, <2>2 DEF Balanced, BooksBalance
<1>6. SegmentsFit
  <2>1. \A i \in DOMAIN all : all[i].len <= TCP_MSS
    <3> TAKE i \in DOMAIN all
    <3>1. all[i] \in Fitting
      BY LenProperties, ElementOfSeq
    <3> QED
      BY <3>1, SendQueueAssumption DEF Fitting
  <2>2. RoomKept(pcb.unsent, pcb.unsent_oversize)
    BY <1>1 DEF PcbOK
  <2> QED
    BY <1>3, <2>1, <2>2 DEF RoomKept, SegmentsFit
<1>7. HeldDataAwaitsAck
  BY <1>1 DEF HeldDataAwaitsAck
<1> QED
  BY <1>4, <1>5, <1>6, <1>7

\* Of any number of packets of any size, acknowledgements and timeouts: the state keeps its types,
\* so that no counter of lwIP's runs below 0 or past its limit.
THEOREM WireTypesCorrect == WireSpec => []WireTypeOK
BY WireInvAlways, WireInvSays, PTL

\* What tcp_write, tcp_output and tcp_receive count agrees with the two queues, whatever was cut,
\* appended, sent, acknowledged or sent again.
THEOREM BooksAlwaysBalance == WireSpec => []BooksBalance
BY WireInvAlways, WireInvSays, PTL

\* The assertions of tcp_write hold: no segment outgrows the MSS, and the room kept in the last one
\* is inside of it.
THEOREM SegmentsAlwaysFit == WireSpec => []SegmentsFit
BY WireInvAlways, WireInvSays, PTL

\* Nagle never holds data back with nothing on its way, the SYN included: an acknowledgement or a
\* timeout will let it go.
THEOREM NothingHeldForGood == WireSpec => []HeldDataAwaitsAck
BY WireInvAlways, WireInvSays, PTL

(***************************************************************************)
(* What cuts a packet.                                                     *)
(***************************************************************************)
\* A sum up to n is no more than the whole.
LEMMA SumsGrow ==
  ASSUME NEW lens \in Seq(Nat), NEW g, SumsOf(lens, g), NEW m \in 0 .. Len(lens)
  PROVE  g[m] <= g[Len(lens)]
<1>1. PICK N \in Nat : N = Len(lens)
  BY LenProperties
<1>2. \A i \in 1 .. N : lens[i] \in Nat
  BY <1>1, ElementOfSeq
<1>3. g \in [0 .. N -> Nat] /\ \A i \in 1 .. N : g[i] = g[i - 1] + lens[i]
  BY <1>1 DEF SumsOf
<1> DEFINE S == { n \in 0 .. N : m <= n => g[m] <= g[n] }
<1>4. 0 \in S
  <2>1. g[0] \in Nat /\ 0 \in 0 .. N
    BY <1>3
  <2>2. m <= 0 => m = 0
    BY <1>1
  <2> QED
    BY <2>1, <2>2
<1>5. ASSUME NEW n \in 1 .. N, n - 1 \in S
      PROVE  n \in S
  <2>1. n - 1 \in 0 .. N /\ n \in 0 .. N /\ m \in 0 .. N
    BY <1>1
  <2>2. PICK a \in Nat, b \in Nat, c \in Nat, d \in Nat :
          a = g[n - 1] /\ b = g[n] /\ c = lens[n] /\ d = g[m] /\ b = a + c
    BY <1>2, <1>3, <2>1
  <2>3. m <= n - 1 => d <= a
    BY <1>5, <2>2
  <2>4. m <= n => m <= n - 1 \/ m = n
    BY <2>1
  <2>5. m <= n => d <= b
    <3>1. CASE m <= n - 1
      <4>1. d <= a /\ a <= b
        BY <2>2, <2>3, <3>1
      <4> QED
        BY <4>1
    <3>2. CASE m = n
      <4>1. d = b
        BY <2>2, <3>2
      <4> QED
        BY <2>2, <4>1
    <3> QED
      BY <2>4, <3>1, <3>2
  <2> QED
    BY <2>1, <2>2, <2>5
<1>6. N \in S
  <2>1. 0 .. N \subseteq S
    <3> HIDE DEF S
    <3> QED
      BY <1>4, <1>5, InductionTo
  <2>2. N \in 0 .. N
    OBVIOUS
  <2> HIDE DEF S
  <2> QED
    BY <2>1, <2>2
<1> QED
  BY <1>1, <1>6

\* A packet whose bytes are not all queued has a piece that was refused.
LEMMA SomePieceRefused ==
  ASSUME NEW p, PcbOK(p), NEW packet, packet.pieces \in Seq(Nat),
         Written(p, packet).snd_buf + Total(packet.pieces) # p.snd_buf
  PROVE  \E w \in [0 .. Len(packet.pieces) -> Pcbs] :
           /\ Writes(p, packet, w) /\ Written(p, packet) = w[Len(packet.pieces)]
           /\ \E n \in 1 .. Len(packet.pieces) :
                packet.pieces[n] > 0 /\ ~WriteFits(w[n - 1], packet.pieces[n])
<1>1. PICK pieces \in Seq(Nat), N \in Nat : pieces = packet.pieces /\ N = Len(pieces)
  BY LenProperties
<1>2. PICK v, sum :
        /\ Writes(p, packet, v) /\ Written(p, packet) = v[N]
        /\ SumsOf(pieces, sum) /\ Total(pieces) = sum[N]
        /\ \A n \in 0 .. N : Wrote(p, v[n], sum[n])
  BY <1>1, WritesKeep
<1>3. PICK w : w = [n \in 0 .. N |-> v[n]]
  OBVIOUS
<1>4. \A n \in 0 .. N : w[n] \in Pcbs /\ PcbOK(w[n])
  BY <1>2, <1>3 DEF Wrote, PcbOK
<1>5. w \in [0 .. N -> Pcbs]
  BY <1>3, <1>4
<1>6. w[0] = p /\ \A n \in 1 .. N : w[n] = tcp_write(w[n - 1], pieces[n])
  <2>1. v[0] = p /\ \A n \in 1 .. N : v[n] = tcp_write(v[n - 1], pieces[n])
    BY <1>1, <1>2 DEF Writes
  <2>2. 0 \in 0 .. N /\ N \in 0 .. N /\ \A n \in 1 .. N : n \in 0 .. N /\ n - 1 \in 0 .. N
    OBVIOUS
  <2> QED
    BY <1>3, <2>1, <2>2
<1>7. Writes(p, packet, w) /\ Written(p, packet) = w[N]
  <2>1. N \in 0 .. N
    OBVIOUS
  <2> QED
    BY <1>1, <1>2, <1>3, <1>6, <2>1 DEF Writes
<1>8. PICK buf \in Nat : buf = p.snd_buf
  <2>1. p.snd_buf \in Nat
    BY IsPcb, SendQueueAssumption
  <2> QED
    BY <2>1
<1>9. /\ sum \in [0 .. N -> Nat] /\ sum[0] = 0
      /\ \A n \in 1 .. N : sum[n] = sum[n - 1] + pieces[n]
  BY <1>1, <1>2 DEF SumsOf
<1>10. \E n \in 1 .. N : pieces[n] > 0 /\ ~WriteFits(w[n - 1], pieces[n])
  <2> SUFFICES ASSUME \A n \in 1 .. N : ~(pieces[n] > 0 /\ ~WriteFits(w[n - 1], pieces[n]))
               PROVE  FALSE
    OBVIOUS
  <2> DEFINE S == { n \in 0 .. N : w[n].snd_buf + sum[n] = buf }
  <2>1. 0 \in S
    <3>1. buf + 0 = buf /\ 0 \in 0 .. N
      OBVIOUS
    <3> QED
      BY <1>6, <1>8, <1>9, <3>1
  <2>2. ASSUME NEW n \in 1 .. N, n - 1 \in S
        PROVE  n \in S
    <3>1. n - 1 \in 0 .. N /\ n \in 0 .. N
      OBVIOUS
    <3>2. PICK q \in Pcbs, len \in Nat : q = w[n - 1] /\ len = pieces[n] /\ PcbOK(q)
      <4>1. pieces[n] \in Nat
        BY <1>1, ElementOfSeq
      <4> QED
        BY <1>4, <3>1, <4>1
    <3>3. PICK s \in Nat, t \in Nat, b \in Nat :
            s = sum[n - 1] /\ t = sum[n] /\ t = s + len /\ b = q.snd_buf /\ b + s = buf
      <4>1. sum[n - 1] \in Nat /\ sum[n] \in Nat /\ sum[n] = sum[n - 1] + pieces[n]
        BY <1>9, <3>1
      <4>2. q.snd_buf \in Nat
        BY <3>2, IsPcb, SendQueueAssumption
      <4> QED
        BY <2>2, <3>2, <4>1, <4>2
    <3>4. w[n] = tcp_write(q, len)
      BY <1>6, <3>2
    <3>5. CASE len = 0
      <4>1. w[n].snd_buf = b
        BY <3>3, <3>4, <3>5 DEF tcp_write
      <4>2. b + t = buf
        BY <3>3, <3>5
      <4> QED
        BY <3>1, <3>3, <4>1, <4>2
    <3>6. CASE len # 0
      <4>1. WriteFits(q, len)
        BY <3>2, <3>6
      <4>2. w[n].snd_buf = b - len
        BY <3>3, <3>4, <3>6, <4>1 DEF tcp_write, Pcbs
      <4>3. b - len + t = buf
        <5>1. t = s + len /\ b + s = buf
          BY <3>3
        <5>2. s \in Int /\ t \in Int /\ b \in Int /\ len \in Int
          OBVIOUS
        <5> QED
          BY ONLY <5>1, <5>2
      <4> QED
        BY <3>1, <3>3, <4>2, <4>3
    <3> QED
      BY <3>5, <3>6
  <2>3. N \in S
    <3>1. 0 .. N \subseteq S
      <4> HIDE DEF S
      <4> QED
        BY <2>1, <2>2, InductionTo
    <3>2. N \in 0 .. N
      OBVIOUS
    <3> HIDE DEF S
    <3> QED
      BY <3>1, <3>2
  <2>4. Written(p, packet).snd_buf + Total(packet.pieces) = p.snd_buf
    BY <1>1, <1>2, <1>7, <1>8, <2>3
  <2> QED
    BY <2>4
<1> QED
  BY <1>1, <1>5, <1>7, <1>10

\* A step in which tcp_write refused a piece of a packet.
SomethingRefused ==
  \E packet \in SentPackets :
  \E w \in [0 .. Len(packet.pieces) -> Pcbs] :
    /\ Writes(pcb, packet, w)
    /\ pcb' \in {w[Len(packet.pieces)], tcp_output(w[Len(packet.pieces)])}
    /\ \E n \in 1 .. Len(packet.pieces) :
         packet.pieces[n] > 0 /\ ~WriteFits(w[n - 1], packet.pieces[n])

\* Strings below the 64 KB that a length of 16 bits can say.
PacketsShort == \A packet \in SentPackets : Total(packet.pieces) < 65536

\* A packet that is sent is queued whole, unless a piece of it is refused.
LEMMA SentWhole ==
  ASSUME PacketsShort, PcbOK(pcb), NEW packet \in SentPackets, Accepted(packet),
         pcb' \in {Written(pcb, packet), tcp_output(Written(pcb, packet))}
  PROVE  whole' \/ SomethingRefused
<1>1. packet.pieces \in Seq(Nat) /\ packet.len = Total(packet.pieces)
  BY PacketsAnnounced DEF PacketsShort, Announced
<1>2. CASE Written(pcb, packet).snd_buf + Total(packet.pieces) = pcb.snd_buf
  BY <1>1, <1>2 DEF Accepted
<1>3. CASE Written(pcb, packet).snd_buf + Total(packet.pieces) # pcb.snd_buf
  <2>1. PICK w \in [0 .. Len(packet.pieces) -> Pcbs] :
          /\ Writes(pcb, packet, w) /\ Written(pcb, packet) = w[Len(packet.pieces)]
          /\ \E n \in 1 .. Len(packet.pieces) :
               packet.pieces[n] > 0 /\ ~WriteFits(w[n - 1], packet.pieces[n])
    BY <1>1, <1>3, SomePieceRefused
  <2> QED
    BY <2>1 DEF SomethingRefused
<1> QED
  BY <1>2, <1>3

\* A step sends a packet, or leaves the record of the last one alone.
LEMMA StepSends ==
  ASSUME [WireNext]_wireVars
  PROVE  \/ UNCHANGED whole
         \/ \E packet \in SentPackets :
              Accepted(packet) /\ pcb' \in {Written(pcb, packet), tcp_output(Written(pcb, packet))}
<1>1. ASSUME NEW c \in ClientIdLens, NEW x \in ConnectExtras, Connect(c, x)
      PROVE  \E packet \in SentPackets : Send(packet)
  BY <1>1 DEF Connect, SentPackets
<1>2. ASSUME NEW t \in TopicLens, NEW m \in PayloadLens, PublishQos0(t, m)
      PROVE  \E packet \in SentPackets : Send(packet)
  BY <1>2 DEF PublishQos0, SentPackets
<1>3. ASSUME NEW packet \in RequestPackets, Request(packet)
      PROVE  \E p \in SentPackets : Send(p)
  BY <1>3 DEF Request, SentPackets
<1>4. CASE Answer
  <2>1. AnswerPacket \in SentPackets
    BY DEF SentPackets
  <2> QED
    BY <1>4, <2>1 DEF Answer
<1>5. ASSUME NEW packet \in SentPackets, Send(packet)
      PROVE  Accepted(packet) /\ pcb' \in {Written(pcb, packet), tcp_output(Written(pcb, packet))}
  BY <1>5 DEF Send
<1>6. CASE SynAck \/ Connack \/ GiveUp \/ InputDone \/ Timeout
  BY <1>6 DEF SynAck, Connack, GiveUp, InputDone, Timeout
<1>7. ASSUME NEW n \in {0} \cup Coverable(pcb), Ack(n) \/ Receive(n)
      PROVE  UNCHANGED whole
  BY <1>7 DEF Ack, Receive
<1>8. CASE UNCHANGED wireVars
  BY <1>8 DEF wireVars
<1> QED
  BY <1>1, <1>2, <1>3, <1>4, <1>5, <1>6, <1>7, <1>8 DEF WireNext

\* Of all steps, only one in which a piece was refused leaves a packet cut.
LEMMA StepWhole ==
  ASSUME PacketsShort, WireInv, [WireNext]_wireVars, PacketsWhole
  PROVE  PacketsWhole' \/ SomethingRefused
<1>1. PcbOK(pcb)
  BY DEF WireInv, Settled
<1>2. CASE UNCHANGED whole
  BY <1>2 DEF PacketsWhole
<1>3. ASSUME NEW packet \in SentPackets, Accepted(packet),
             pcb' \in {Written(pcb, packet), tcp_output(Written(pcb, packet))}
      PROVE  PacketsWhole' \/ SomethingRefused
  BY <1>1, <1>3, SentWhole DEF PacketsWhole
<1> QED
  BY <1>2, <1>3, StepSends

\* A packet is cut in the output buffer only by a tcp_write that refused a piece of it for want of
\* memory or of pbufs, whose result the client ignores: the encoders' lengths are those that the
\* senders write, and the space that is_output_buffer_full saw stays until all is written.
THEOREM CutOnlyByRefusal ==
  ASSUME PacketsShort
  PROVE  WireSpec => [][PacketsWhole => PacketsWhole' \/ SomethingRefused]_wireVars
<1>1. WireInv /\ [WireNext]_wireVars => (PacketsWhole => PacketsWhole' \/ SomethingRefused)
  BY StepWhole
<1> QED
  BY <1>1, WireInvAlways, PTL DEF WireSpec

\* As long as lwIP finds memory and pbufs for what is written, every packet that was sent with
\* MQTT_SUCCESS is queued whole.
THEOREM PacketsStayWhole ==
  ASSUME PacketsShort
  PROVE  WireSpec /\ [][~SomethingRefused]_wireVars => []PacketsWhole
<1>1. WireInit => PacketsWhole
  BY DEF WireInit, PacketsWhole
<1>2. WireInv /\ PacketsWhole /\ [WireNext]_wireVars /\ [~SomethingRefused]_wireVars => PacketsWhole'
  <2>1. CASE UNCHANGED wireVars
    BY <2>1 DEF wireVars, PacketsWhole
  <2>2. CASE ~SomethingRefused
    BY <2>2, StepWhole
  <2> QED
    BY <2>1, <2>2
<1> QED
  BY <1>1, <1>2, WireInvAlways, PTL DEF WireSpec

(***************************************************************************)
(* What a packet needs, whatever is queued before it.                      *)
(***************************************************************************)
\* Heap and pbufs for k full buffers.
Room(p, k) == p.free >= k * PbufSize /\ p.snd_queuelen + k < TCP_SND_QUEUELEN

\* The write of len bytes takes k buffers at most, and ends l bytes into a segment, with room for
\* v more.
Effect(p, len, k, l, v) ==
  \E after \in Seq(Fitting) :
    /\ after = UnsentAfter(p, len) /\ after # <<>>
    /\ Last(after).len = l /\ Oversize(p, len) = v
    /\ Pbufs(after) = Pbufs(p.unsent) + k
    /\ Memory(after) <= Memory(p.unsent) + k * PbufSize

\* Up to TCP_MSS bytes make one segment, and none none.
LEMMA OneNew ==
  ASSUME NEW p, PcbOK(p), NEW len \in Nat, NEW r \in 0 .. TCP_MSS,
         r = len - InOversize(p, len) - InConcat(p, len)
  PROVE  /\ r = 0 => NewSegments(p, len) = <<>>
         /\ r > 0 => NewSegments(p, len) =
                       << [len |-> r, pbufs |-> 1,
                           mem |-> MemOfTransport(PreallocSize(p, r, TCP_MSS, TRUE))] >>
<1>1. PICK m \in Nat \ {0} : m = TCP_MSS
  BY SendQueueAssumption
<1>2. PICK k \in Nat : k = (r + m - 1) \div m /\ r <= k * m /\ (k - 1) * m < r
  BY <1>1, Pieces
<1>3. k <= 1
  <2>1. SUFFICES ASSUME k >= 2
                 PROVE  FALSE
    BY <1>2
  <2>2. PICK j \in Nat : j = k - 2
    BY <2>1
  <2>3. (k - 1) * m = j * m + m /\ j * m \in Nat
    BY <2>2
  <2> QED
    BY <1>1, <1>2, <2>3
<1>4. PICK L : L = SegmentLengths(r) /\ L = [i \in 1 .. k |-> Least(m, r - (i - 1) * m)]
  BY <1>1, <1>2 DEF SegmentLengths
<1>5. PICK new \in Seq(Fitting) :
        /\ new = NewSegments(p, len)
        /\ new = [i \in DOMAIN L |->
                   [len |-> L[i], pbufs |-> 1,
                    mem |-> MemOfTransport(PreallocSize(p, L[i], TCP_MSS, i = 1))]]
  <2>1. NewSegments(p, len) =
          [i \in DOMAIN L |->
            [len |-> L[i], pbufs |-> 1,
             mem |-> MemOfTransport(PreallocSize(p, L[i], TCP_MSS, i = 1))]]
    BY <1>4 DEF NewSegments
  <2> QED
    BY <2>1, NewIs
<1>6. DOMAIN new = 1 .. k /\ Len(new) = k
  <2>1. DOMAIN new = 1 .. k
    BY <1>4, <1>5
  <2> QED
    BY <2>1, LenProperties
<1>7. CASE r = 0
  <2>1. k # 1
    BY <1>2, <1>7
  <2>2. Len(new) = 0
    BY <1>3, <1>6, <2>1
  <2>3. new = <<>>
    BY <2>2, EmptySeq
  <2>4. NewSegments(p, len) = <<>> /\ ~(r > 0)
    BY <1>5, <1>7, <2>3
  <2> QED
    BY <2>4
<1>8. CASE r > 0
  <2>1. k = 1
    <3>1. k # 0
      BY <1>2, <1>8
    <3> QED
      BY <1>3, <3>1
  <2>2. L[1] = Least(m, r - (1 - 1) * m) /\ 1 \in DOMAIN L
    BY <1>4, <2>1
  <2>3. L[1] = r
    <3>1. r - (1 - 1) * m = r
      OBVIOUS
    <3> QED
      BY <1>1, <2>2, <3>1 DEF Least
  <2>4. new[1] = [len |-> r, pbufs |-> 1, mem |-> MemOfTransport(PreallocSize(p, r, TCP_MSS, TRUE))]
    <3>1. new[1] = [len |-> L[1], pbufs |-> 1,
                    mem |-> MemOfTransport(PreallocSize(p, L[1], TCP_MSS, 1 = 1))]
      BY <1>5, <2>2
    <3>2. (1 = 1) = TRUE
      OBVIOUS
    <3> QED
      BY <2>3, <3>1, <3>2
  <2>5. new = <<new[1]>>
    <3>1. PICK one \in Seq(Fitting) : one = <<new[1]>> /\ Len(one) = 1 /\ one[1] = new[1]
      <4>1. 1 \in 1 .. Len(new)
        BY <1>6, <2>1
      <4>2. new[1] \in Fitting
        BY <4>1, ElementOfSeq
      <4>3. <<new[1]>> \in Seq(Fitting) /\ Len(<<new[1]>>) = 1 /\ <<new[1]>>[1] = new[1]
        BY <4>2
      <4> QED
        BY <4>3
    <3>2. Len(new) = Len(one) /\ \A i \in 1 .. Len(new) : new[i] = one[i]
      BY <1>6, <2>1, <3>1
    <3> QED
      BY <3>1, <3>2, SeqEqual
  <2> QED
    BY <1>5, <1>8, <2>4, <2>5
<1> QED
  BY <1>7, <1>8

\* Behind other segments, the buffer that is allocated fills up the segment.
LEMMA PreallocFull ==
  ASSUME NEW p, p.unsent # <<>>, NEW s \in 0 .. TCP_MSS, NEW c \in 0 .. s, NEW first
  PROVE  PreallocSize(p, c, s, first) = s
<1>1. PICK a \in Nat : a = Align4(c + TCP_MSS) /\ a >= s
  <2>1. c + TCP_MSS \in Nat /\ c + TCP_MSS >= s
    BY SendQueueAssumption
  <2>2. Align4(c + TCP_MSS) \in Nat /\ Align4(c + TCP_MSS) >= c + TCP_MSS
    BY <2>1, Aligned
  <2> QED
    BY <2>1, <2>2, SendQueueAssumption
<1>2. CASE c < s
  <2>1. PreallocSize(p, c, s, first) = Least(s, a)
    BY <1>1, <1>2 DEF PreallocSize
  <2> QED
    BY <1>1, <2>1 DEF Least
<1>3. CASE ~(c < s)
  <2>1. PreallocSize(p, c, s, first) = c /\ c = s
    BY <1>3 DEF PreallocSize
  <2> QED
    BY <2>1
<1> QED
  BY <1>2, <1>3

\* The bytes that a write of len puts in new segments decide where it ends.
LEMMA EffectIs ==
  ASSUME NEW p, PcbOK(p), NEW len \in 1 .. TCP_MSS, NEW a \in {0, 1}, NEW r \in 0 .. TCP_MSS,
         a = (IF InConcat(p, len) > 0 THEN 1 ELSE 0),
         r = len - InOversize(p, len) - InConcat(p, len)
  PROVE  /\ r = 0 => Effect(p, len, a, Last(p.unsent).len + InOversize(p, len) + InConcat(p, len),
                            Oversize(p, len))
         /\ r > 0 => Effect(p, len, a + 1, r, PreallocSize(p, r, TCP_MSS, TRUE) - r)
<1>1. PICK m \in Nat \ {0} : m = TCP_MSS
  BY SendQueueAssumption
<1>2. len \in Nat \ {0}
  BY <1>1
<1>3. PICK after \in Seq(Fitting), room \in 0 .. TCP_MSS :
        /\ after = UnsentAfter(p, len) /\ after # <<>>
        /\ room = Oversize(p, len) /\ Took(p, len, after)
  BY <1>2, AfterIs
<1>4. PICK K \in Nat : K = PbufSize
  BY PbufSizes
<1>5. PICK sp \in Nat, sm \in Nat, ap \in Nat, am \in Nat :
        /\ sp = Pbufs(p.unsent) /\ sm = Memory(p.unsent)
        /\ ap = Pbufs(after) /\ am = Memory(after)
  BY IsPcb, SumsNat
<1>6. PICK new \in Seq(Fitting) : new = NewSegments(p, len)
  BY <1>2, NewIs
<1>7. /\ ap = sp + a + Pbufs(new) /\ am <= sm + a * K + Memory(new)
      /\ new = <<>> => Last(after).len =
                        Last(p.unsent).len + InOversize(p, len) + InConcat(p, len)
      /\ new # <<>> => Last(after) = Last(new)
  BY <1>3, <1>4, <1>5, <1>6 DEF Took
<1>8. CASE r = 0
  <2>1. new = <<>>
    BY <1>2, <1>6, <1>8, OneNew
  <2>2. Pbufs(new) = 0 /\ Memory(new) = 0
    BY <2>1, SumsNone
  <2>3. ap = sp + a
    BY <1>7, <2>2
  <2>4. am <= sm + a * K
    BY <1>7, <2>2
  <2>5. PICK l, v : /\ l = Last(p.unsent).len + InOversize(p, len) + InConcat(p, len)
                    /\ v = Oversize(p, len)
    OBVIOUS
  <2>6. Last(after).len = l
    BY <1>7, <2>1, <2>5
  <2>7. Pbufs(after) = Pbufs(p.unsent) + a /\ Memory(after) <= Memory(p.unsent) + a * PbufSize
    BY <1>4, <1>5, <2>3, <2>4
  <2>8. Effect(p, len, a, l, v)
    BY <1>3, <2>5, <2>6, <2>7 DEF Effect
  <2>9. ~(r > 0)
    BY <1>8
  <2> QED
    BY <2>5, <2>8, <2>9
<1>9. CASE r > 0
  <2>1. PICK z \in r .. m : z = PreallocSize(p, r, TCP_MSS, TRUE)
    BY <1>1, RoomFor
  <2>2. PICK h \in Nat : h = MemOfTransport(z) /\ h <= K
    <3>1. z \in Nat /\ z \in 0 .. TCP_MSS
      BY <1>1
    <3> QED
      BY <1>4, <3>1, BlockSizes, PbufSizes
  <2>3. PICK x : x = [len |-> r, pbufs |-> 1, mem |-> h]
    OBVIOUS
  <2>4. new = <<x>>
    BY <1>2, <1>6, <1>9, <2>1, <2>2, <2>3, OneNew
  <2>5. x \in Fitting
    <3>1. x \in [len : 0 .. TCP_MSS, pbufs : Nat, mem : Nat]
      BY <2>3
    <3>2. h <= 1 * K
      BY <2>2
    <3>3. Thrifty(x)
      BY <1>4, <2>3, <3>2 DEF Thrifty
    <3> QED
      BY <3>1, <3>3 DEF Fitting
  <2>6. Pbufs(new) = 1 /\ Memory(new) = h
    BY <2>3, <2>4, <2>5, SumsOne
  <2>7. new # <<>> /\ Last(new) = x /\ Len(new) = 1
    BY <2>4 DEF Last
  <2>8. Last(after).len = r
    BY <1>7, <2>3, <2>7
  <2>9. Oversize(p, len) = z - r
    <3>1. (Len(new) = 1) = TRUE
      BY <2>7
    <3>2. Oversize(p, len) = PreallocSize(p, Last(new).len, TCP_MSS, Len(new) = 1) - Last(new).len
      BY <1>6, <2>7 DEF Oversize
    <3>3. Last(new).len = r
      BY <2>3, <2>7
    <3>4. PreallocSize(p, r, TCP_MSS, Len(new) = 1) = z
      BY <2>1, <3>1
    <3> QED
      BY <3>2, <3>3, <3>4
  <2>10. ap = sp + (a + 1) /\ am <= sm + (a + 1) * K
    <3>1. (a + 1) * K = a * K + K /\ a * K \in Nat
      OBVIOUS
    <3> QED
      BY <1>7, <2>2, <2>6, <3>1
  <2>11. PICK k : k = a + 1
    OBVIOUS
  <2>12. Pbufs(after) = Pbufs(p.unsent) + k /\ Memory(after) <= Memory(p.unsent) + k * PbufSize
    BY <1>4, <1>5, <2>10, <2>11
  <2>13. Effect(p, len, k, r, z - r)
    BY <1>3, <2>8, <2>9, <2>12 DEF Effect
  <2>14. ~(r = 0)
    BY <1>9
  <2> QED
    BY <2>1, <2>11, <2>13, <2>14
<1> QED
  BY <1>8, <1>9

\* A write to an empty queue takes one buffer.
LEMMA WriteToNone ==
  ASSUME NEW p, PcbOK(p), p.unsent = <<>>, NEW len \in 1 .. TCP_MSS
  PROVE  \E v : Effect(p, len, 1, len, v)
<1>1. PICK m \in Nat \ {0} : m = TCP_MSS
  BY SendQueueAssumption
<1>2. InOversize(p, len) = 0 /\ InConcat(p, len) = 0
  <2>1. InOversize(p, len) = 0 /\ SpaceInLast(p, len) = 0
    BY DEF InOversize, SpaceInLast
  <2>2. InConcat(p, len) = 0
    BY <1>1, <2>1 DEF InConcat, Least
  <2> QED
    BY <2>1, <2>2
<1>3. PICK a \in {0, 1} : a = 0 /\ a = (IF InConcat(p, len) > 0 THEN 1 ELSE 0)
  BY <1>2
<1>4. PICK r \in 0 .. TCP_MSS : r = len /\ r > 0 /\ r = len - InOversize(p, len) - InConcat(p, len)
  BY <1>1, <1>2
<1>5. Effect(p, len, a + 1, r, PreallocSize(p, r, TCP_MSS, TRUE) - r)
  BY <1>3, <1>4, EffectIs
<1>6. a + 1 = 1
  BY <1>3
<1> QED
  BY <1>4, <1>5, <1>6

\* A write behind a last segment of l bytes, whose buffer has room for v more: they go into that
\* buffer; into one more that is added to the segment; into a new segment when the last one has no
\* room but in its buffer (or is that of a SYN); or they fill up the last segment and go on in a
\* new one.
LEMMA WriteBehind ==
  ASSUME NEW p, PcbOK(p), p.unsent # <<>>, NEW len \in 1 .. TCP_MSS,
         NEW l, NEW v, l = Last(p.unsent).len, v = p.unsent_oversize
  PROVE  /\ l \in 0 .. TCP_MSS /\ v \in 0 .. TCP_MSS /\ l + v <= TCP_MSS
         /\ len <= v => Effect(p, len, 0, l + len, v - len)
         /\ v < len /\ l > 0 /\ l + len <= TCP_MSS =>
              Effect(p, len, 1, l + len, TCP_MSS - (l + len))
         /\ v < len /\ (l = 0 \/ l + v = TCP_MSS) =>
              Effect(p, len, 1, len - v, TCP_MSS - (len - v))
         /\ l > 0 /\ l + v < TCP_MSS /\ l + len > TCP_MSS =>
              Effect(p, len, 2, len - (TCP_MSS - l), TCP_MSS - (len - (TCP_MSS - l)))
<1>1. PICK m \in Nat \ {0} : m = TCP_MSS
  BY SendQueueAssumption
<1>2. l \in 0 .. m /\ v \in 0 .. m /\ l + v <= m
  <2>1. p.unsent \in Seq(Fitting) /\ v \in 0 .. m
    BY <1>1, IsPcb
  <2>2. Last(p.unsent) \in Fitting
    BY <2>1, LastSplit
  <2>3. l \in 0 .. m
    BY <1>1, <2>2 DEF Fitting
  <2>4. v + l <= m
    BY <1>1 DEF PcbOK, RoomKept
  <2> QED
    BY <2>1, <2>3, <2>4
<1>3. PICK o \in Nat : /\ o = InOversize(p, len)
                       /\ len <= v => o = len
                       /\ v < len => o = v
  <2>1. InOversize(p, len) = IF v < len THEN v ELSE len
    BY DEF InOversize, Least
  <2> QED
    BY <1>1, <1>2, <2>1
<1>4. PICK s \in Nat : s = SpaceInLast(p, len) /\ s = IF l = 0 THEN 0 ELSE m - l - o
  <2>1. SpaceInLast(p, len) = IF l = 0 THEN 0 ELSE m - l - o
    BY <1>1, <1>3 DEF SpaceInLast
  <2> QED
    BY <1>1, <1>2, <1>3, <2>1
<1>5. PICK c \in Nat : c = InConcat(p, len) /\ c = IF s < len - o THEN s ELSE len - o
  <2>1. InConcat(p, len) = IF s < len - o THEN s ELSE len - o
    BY <1>3, <1>4 DEF InConcat, Least
  <2> QED
    BY <1>1, <1>2, <1>3, <1>4, <2>1
<1>6. PICK r \in 0 .. TCP_MSS : r = len - InOversize(p, len) - InConcat(p, len) /\ r = len - o - c
  BY <1>1, <1>2, <1>3, <1>4, <1>5
<1>7. PICK a \in {0, 1} : /\ a = (IF InConcat(p, len) > 0 THEN 1 ELSE 0)
                          /\ c > 0 => a = 1
                          /\ c = 0 => a = 0
  BY <1>5
<1>8. /\ r = 0 => Effect(p, len, a, l + o + c, Oversize(p, len))
      /\ r > 0 => Effect(p, len, a + 1, r, PreallocSize(p, r, TCP_MSS, TRUE) - r)
  BY <1>3, <1>5, <1>6, <1>7, EffectIs
<1>9. r > 0 => Effect(p, len, a + 1, r, m - r)
  <2>1. TCP_MSS \in 0 .. TCP_MSS /\ r \in 0 .. TCP_MSS
    BY <1>1
  <2>2. PreallocSize(p, r, TCP_MSS, TRUE) = TCP_MSS
    BY <2>1, PreallocFull
  <2> QED
    BY <1>1, <1>8, <2>2
<1>10. r = 0 => NewSegments(p, len) = <<>>
  <2>1. len \in Nat
    BY <1>1
  <2> QED
    BY <1>6, <2>1, OneNew
<1>11. ASSUME len <= v
       PROVE  Effect(p, len, 0, l + len, v - len)
  <2>1. o = len /\ len - o = 0
    BY <1>1, <1>3, <1>11
  <2>2. c = 0
    BY <1>4, <1>5, <2>1
  <2>3. r = 0 /\ a = 0
    BY <1>1, <1>6, <1>7, <2>1, <2>2
  <2>4. Oversize(p, len) = v - len
    <3>1. ~(InConcat(p, len) > 0)
      BY <1>5, <2>2
    <3> QED
      BY <1>3, <1>10, <2>1, <2>3, <3>1 DEF Oversize
  <2>5. l + o + c = l + len
    BY <1>1, <1>2, <2>1, <2>2
  <2> QED
    BY <1>8, <2>3, <2>4, <2>5
<1>12. ASSUME v < len, l > 0, l + len <= m
       PROVE  Effect(p, len, 1, l + len, m - (l + len))
  <2>1. o = v /\ s = m - l - v /\ c = len - v
    BY <1>1, <1>2, <1>3, <1>4, <1>5, <1>12
  <2>2. c > 0 /\ c <= s /\ s <= m
    <3>1. l \in Nat /\ v \in Nat /\ m \in Nat /\ len \in Nat
      BY <1>1, <1>2
    <3> QED
      BY ONLY <1>12, <2>1, <3>1
  <2>3. a = 1
    BY <1>7, <2>2
  <2>4. r = 0
    BY <1>1, <1>2, <1>6, <2>1
  <2>5. Oversize(p, len) = s - c
    <3>1. InConcat(p, len) > 0
      BY <1>5, <2>2
    <3>2. Oversize(p, len) = ConcatSize(p, len) - InConcat(p, len)
      BY <1>10, <2>4, <3>1 DEF Oversize
    <3>3. s \in 0 .. TCP_MSS /\ c \in 0 .. s
      BY <1>1, <2>2
    <3>4. PreallocSize(p, c, s, TRUE) = s
      BY <3>3, PreallocFull
    <3> QED
      BY <1>4, <1>5, <3>2, <3>4 DEF ConcatSize
  <2>6. s - c = m - (l + len) /\ l + o + c = l + len
    <3>1. l \in Int /\ v \in Int /\ m \in Int /\ len \in Int
      BY <1>1, <1>2
    <3> QED
      BY ONLY <2>1, <3>1
  <2> QED
    BY <1>8, <2>3, <2>4, <2>5, <2>6
<1>13. ASSUME v < len, l = 0 \/ l + v = m
       PROVE  Effect(p, len, 1, len - v, m - (len - v))
  <2>1. o = v /\ s = 0
    BY <1>1, <1>2, <1>3, <1>4, <1>13
  <2>2. c = 0
    BY <1>1, <1>2, <1>5, <1>13, <2>1
  <2>3. r = len - v /\ r > 0
    BY <1>1, <1>2, <1>6, <1>13, <2>1, <2>2
  <2>4. a + 1 = 1
    BY <1>7, <2>2
  <2> QED
    BY <1>9, <2>2, <2>3, <2>4
<1>14. ASSUME l > 0, l + v < m, l + len > m
       PROVE  Effect(p, len, 2, len - (m - l), m - (len - (m - l)))
  <2>1. v < len
    BY <1>1, <1>2, <1>14
  <2>2. o = v /\ s = m - l - v
    BY <1>1, <1>2, <1>3, <1>4, <1>14, <2>1
  <2>3. c = s /\ c > 0
    BY <1>1, <1>2, <1>5, <1>14, <2>1, <2>2
  <2>4. r = len - (m - l) /\ r > 0
    <3>1. l \in Int /\ v \in Int /\ m \in Int /\ len \in Int
      BY <1>1, <1>2
    <3>2. r = len - v - (m - l - v)
      BY <1>6, <2>2, <2>3
    <3> QED
      BY ONLY <1>14, <3>1, <3>2
  <2>5. a + 1 = 2
    BY <1>7, <2>3
  <2> QED
    BY <1>9, <2>4, <2>5
<1> QED
  BY <1>1, <1>2, <1>11, <1>12, <1>13, <1>14

\* A write that takes no more buffers than there are is not refused.
LEMMA FitsIn ==
  ASSUME NEW p, PcbOK(p), NEW len \in 1 .. TCP_MSS, len <= p.snd_buf,
         NEW K \in Nat, Room(p, K), NEW k \in 0 .. K, NEW l, NEW v, Effect(p, len, k, l, v)
  PROVE  /\ WriteFits(p, len)
         /\ \A q : q = tcp_write(p, len) =>
              /\ q.unsent # <<>> /\ Last(q.unsent).len = l /\ q.unsent_oversize = v
              /\ Room(q, K - k)
<1>1. PICK after \in Seq(Fitting) :
        /\ after = UnsentAfter(p, len) /\ after # <<>>
        /\ Last(after).len = l /\ Oversize(p, len) = v
        /\ Pbufs(after) = Pbufs(p.unsent) + k
        /\ Memory(after) <= Memory(p.unsent) + k * PbufSize
  BY DEF Effect
<1>2. PICK S \in Nat, Q \in Nat : S = PbufSize /\ Q = TCP_SND_QUEUELEN
  BY PbufSizes, SendQueueAssumption
<1>3. PICK n \in Nat, free \in Nat : n = p.snd_queuelen /\ free = p.free
  BY IsPcb, SendQueueAssumption, SynAssumption
<1>4. PICK up \in Nat, sp \in Nat, ap \in Nat, sm \in Nat, am \in Nat :
        /\ up = Pbufs(p.unacked) /\ sp = Pbufs(p.unsent) /\ ap = Pbufs(after)
        /\ sm = Memory(p.unsent) /\ am = Memory(after)
  BY IsPcb, SumsNat
<1>5. free >= K * S /\ n + K < Q
  BY <1>2, <1>3 DEF Room
<1>6. PICK ks \in Nat, rs \in Nat : ks = k * S /\ rs = (K - k) * S /\ K * S = ks + rs
  <2>1. K - k \in Nat /\ k \in Nat
    OBVIOUS
  <2>2. k * S \in Nat /\ (K - k) * S \in Nat
    BY <2>1
  <2>3. PICK j \in Nat : j = K - k /\ K = k + j
    BY <2>1
  <2>4. (k + j) * S = k * S + j * S
    BY <2>1
  <2> QED
    BY <2>2, <2>3, <2>4
<1>7. ap = sp + k /\ am <= sm + ks
  BY <1>1, <1>2, <1>4, <1>6
<1>8. n = up + sp
  BY <1>3, <1>4 DEF PcbOK, Balanced
<1>9. WriteFits(p, len)
  <2>1. n < Q /\ up + ap <= Q /\ am - sm <= free
    BY <1>5, <1>6, <1>7, <1>8
  <2> QED
    BY <1>1, <1>2, <1>3, <1>4, <2>1 DEF WriteFits
<1>10. ASSUME NEW q, q = tcp_write(p, len)
       PROVE  /\ q.unsent # <<>> /\ Last(q.unsent).len = l /\ q.unsent_oversize = v
              /\ Room(q, K - k)
  <2>1. len # 0
    OBVIOUS
  <2>2. q = [p EXCEPT !.unsent = after, !.unsent_oversize = v, !.snd_buf = p.snd_buf - len,
                      !.snd_queuelen = n + ap - sp, !.free = free + sm - am]
    BY <1>1, <1>3, <1>4, <1>9, <1>10, <2>1 DEF tcp_write
  <2>3. /\ q.unsent = after /\ q.unsent_oversize = v
        /\ q.snd_queuelen = n + ap - sp /\ q.free = free + sm - am
    BY <2>2 DEF PcbOK, Pcbs
  <2>4. free + sm - am >= rs /\ n + ap - sp + (K - k) < Q
    BY <1>5, <1>6, <1>7
  <2> QED
    BY <1>1, <1>2, <1>6, <2>3, <2>4 DEF Room
<1> QED
  BY <1>9, <1>10

\* With one buffer more n bytes are queued: they end in the last segment, or fill the room in its
\* buffer before they need a new one.
OneBufferLeft(p, n) ==
  /\ Room(p, 1) /\ p.unsent # <<>>
  /\ \/ Last(p.unsent).len > 0 /\ Last(p.unsent).len + n <= TCP_MSS
     \/ Last(p.unsent).len + p.unsent_oversize = TCP_MSS

\* With none more: there is room for them in the last buffer.
NoBufferNeeded(p, n) == Room(p, 0) /\ p.unsent # <<>> /\ n <= p.unsent_oversize

\* n bytes can be queued, in whatever pieces they are written.
RoomToWrite(p, n) == n <= TCP_MSS /\ (Room(p, 2) \/ OneBufferLeft(p, n) \/ NoBufferNeeded(p, n))

\* A piece of them is not refused, and leaves room for the others.
LEMMA PieceFits ==
  ASSUME NEW p, PcbOK(p), NEW n \in Nat, NEW len \in 1 .. n, len <= p.snd_buf, RoomToWrite(p, n)
  PROVE  WriteFits(p, len) /\ RoomToWrite(tcp_write(p, len), n - len)
<1>1. PICK m \in Nat \ {0} : m = TCP_MSS
  BY SendQueueAssumption
<1>2. n <= m /\ len \in 1 .. TCP_MSS
  BY <1>1 DEF RoomToWrite
<1>3. PICK q : q = tcp_write(p, len)
  OBVIOUS
<1> DEFINE Left(k, l, v) ==
      /\ WriteFits(p, len) /\ Room(q, k)
      /\ q.unsent # <<>> /\ Last(q.unsent).len = l /\ q.unsent_oversize = v
<1>4. ASSUME NEW K \in Nat, Room(p, K), NEW k \in 0 .. K, NEW l, NEW v, Effect(p, len, k, l, v)
      PROVE  Left(K - k, l, v)
  BY <1>2, <1>3, <1>4, FitsIn
<1>5. CASE p.unsent = <<>>
  <2>1. Room(p, 2)
    BY <1>5 DEF RoomToWrite, OneBufferLeft, NoBufferNeeded
  <2>2. PICK v : Effect(p, len, 1, len, v)
    BY <1>2, <1>5, WriteToNone
  <2>3. 2 \in Nat /\ 1 \in 0 .. 2 /\ 2 - 1 = 1
    OBVIOUS
  <2>4. Left(1, len, v)
    <3>1. Left(2 - 1, len, v)
      BY <1>4, <2>1, <2>2, <2>3
    <3> QED
      BY <2>3, <3>1
  <2>5. len > 0 /\ len + (n - len) <= m /\ n - len <= m
    BY <1>2
  <2>6. OneBufferLeft(q, n - len)
    BY <1>1, <2>4, <2>5 DEF OneBufferLeft
  <2> QED
    BY <1>1, <1>3, <2>4, <2>5, <2>6 DEF RoomToWrite
<1>6. CASE p.unsent # <<>>
  <2>1. PICK l, v : l = Last(p.unsent).len /\ v = p.unsent_oversize
    OBVIOUS
  <2>2. l \in 0 .. m /\ v \in 0 .. m /\ l + v <= m
    BY <1>1, <1>2, <1>6, <2>1, WriteBehind
  <2>3. len <= v => Effect(p, len, 0, l + len, v - len)
    BY <1>1, <1>2, <1>6, <2>1, WriteBehind
  <2>4. v < len /\ l > 0 /\ l + len <= m => Effect(p, len, 1, l + len, m - (l + len))
    BY <1>1, <1>2, <1>6, <2>1, WriteBehind
  <2>5. v < len /\ (l = 0 \/ l + v = m) => Effect(p, len, 1, len - v, m - (len - v))
    BY <1>1, <1>2, <1>6, <2>1, WriteBehind
  <2>6. l > 0 /\ l + v < m /\ l + len > m =>
          Effect(p, len, 2, len - (m - l), m - (len - (m - l)))
    BY <1>1, <1>2, <1>6, <2>1, WriteBehind
  <2>7. n - len \in Nat /\ n - len <= m
    BY <1>2
  <2>8. CASE Room(p, 2)
    <3>0. 2 \in Nat /\ 0 \in 0 .. 2 /\ 1 \in 0 .. 2 /\ 2 \in 0 .. 2 /\ 2 - 0 = 2 /\ 2 - 1 = 1 /\ 2 - 2 = 0
      OBVIOUS
    <3>1. CASE len <= v
      <4>1. Left(2 - 0, l + len, v - len)
        BY <1>4, <2>3, <2>8, <3>0, <3>1
      <4> QED
        BY <1>1, <1>3, <2>7, <3>0, <4>1 DEF RoomToWrite
    <3>2. CASE v < len /\ l > 0 /\ l + len <= m
      <4>1. Left(2 - 1, l + len, m - (l + len))
        BY <1>4, <2>4, <2>8, <3>0, <3>2
      <4>2. l + len + (m - (l + len)) = m
        BY <1>1, <2>2
      <4>3. OneBufferLeft(q, n - len)
        BY <1>1, <3>0, <4>1, <4>2 DEF OneBufferLeft
      <4> QED
        BY <1>1, <1>3, <2>7, <4>1, <4>3 DEF RoomToWrite
    <3>3. CASE v < len /\ (l = 0 \/ l + v = m)
      <4>1. Left(2 - 1, len - v, m - (len - v))
        BY <1>4, <2>5, <2>8, <3>0, <3>3
      <4>2. len - v + (m - (len - v)) = m
        BY <1>1, <2>2
      <4>3. OneBufferLeft(q, n - len)
        BY <1>1, <3>0, <4>1, <4>2 DEF OneBufferLeft
      <4> QED
        BY <1>1, <1>3, <2>7, <4>1, <4>3 DEF RoomToWrite
    <3>4. CASE l > 0 /\ l + v < m /\ l + len > m
      <4>1. Left(2 - 2, len - (m - l), m - (len - (m - l)))
        BY <1>4, <2>6, <2>8, <3>0, <3>4
      <4>2. n - len <= m - (len - (m - l))
        BY <1>1, <1>2, <2>2
      <4>3. NoBufferNeeded(q, n - len)
        BY <3>0, <4>1, <4>2 DEF NoBufferNeeded
      <4> QED
        BY <1>1, <1>3, <2>7, <4>1, <4>3 DEF RoomToWrite
    <3> QED
      BY <1>1, <1>2, <2>2, <3>1, <3>2, <3>3, <3>4
  <2>9. CASE OneBufferLeft(p, n)
    <3>0. 1 \in Nat /\ 0 \in 0 .. 1 /\ 1 \in 0 .. 1 /\ 1 - 0 = 1 /\ 1 - 1 = 0
      OBVIOUS
    <3>1. Room(p, 1) /\ ((l > 0 /\ l + n <= m) \/ l + v = m)
      BY <1>1, <2>1, <2>9 DEF OneBufferLeft
    <3>2. CASE len <= v
      <4>1. Left(1 - 0, l + len, v - len)
        BY <1>4, <2>3, <3>0, <3>1, <3>2
      <4>2. \/ l + len > 0 /\ l + len + (n - len) <= m
            \/ l + len + (v - len) = m
        <5>1. l \in Int /\ v \in Int /\ len \in Nat /\ n \in Int /\ m \in Int
          BY <1>1, <1>2, <2>2
        <5> QED
          BY <3>1, <5>1
      <4>3. OneBufferLeft(q, n - len)
        BY <1>1, <3>0, <4>1, <4>2 DEF OneBufferLeft
      <4> QED
        BY <1>1, <1>3, <2>7, <4>1, <4>3 DEF RoomToWrite
    <3>3. CASE v < len /\ l > 0 /\ l + n <= m
      <4>1. l + len <= m
        BY <1>1, <1>2, <2>2, <3>3
      <4>2. Left(1 - 1, l + len, m - (l + len))
        BY <1>4, <2>4, <3>0, <3>1, <3>3, <4>1
      <4>3. n - len <= m - (l + len)
        BY <1>1, <1>2, <2>2, <3>3
      <4>4. NoBufferNeeded(q, n - len)
        BY <3>0, <4>2, <4>3 DEF NoBufferNeeded
      <4> QED
        BY <1>1, <1>3, <2>7, <4>2, <4>4 DEF RoomToWrite
    <3>4. CASE v < len /\ l + v = m
      <4>1. Left(1 - 1, len - v, m - (len - v))
        BY <1>4, <2>5, <3>0, <3>1, <3>4
      <4>2. n - len <= m - (len - v)
        BY <1>1, <1>2, <2>2
      <4>3. NoBufferNeeded(q, n - len)
        BY <3>0, <4>1, <4>2 DEF NoBufferNeeded
      <4> QED
        BY <1>1, <1>3, <2>7, <4>1, <4>3 DEF RoomToWrite
    <3> QED
      BY <1>1, <1>2, <2>2, <3>1, <3>2, <3>3, <3>4
  <2>10. CASE NoBufferNeeded(p, n)
    <3>0. 0 \in Nat /\ 0 \in 0 .. 0 /\ 0 - 0 = 0
      OBVIOUS
    <3>1. Room(p, 0) /\ n <= v /\ len <= v
      BY <1>2, <2>1, <2>2, <2>10 DEF NoBufferNeeded
    <3>2. Left(0 - 0, l + len, v - len)
      BY <1>4, <2>3, <3>0, <3>1
    <3>3. n - len <= v - len
      BY <1>2, <2>2, <3>1
    <3>4. NoBufferNeeded(q, n - len)
      BY <3>0, <3>2, <3>3 DEF NoBufferNeeded
    <3> QED
      BY <1>1, <1>3, <2>7, <3>2, <3>4 DEF RoomToWrite
  <2> QED
    BY <2>8, <2>9, <2>10 DEF RoomToWrite
<1> QED
  BY <1>5, <1>6

\* So a packet of up to TCP_MSS bytes is queued whole when there are two full buffers to spare.
LEMMA SpareWhole ==
  ASSUME NEW p, PcbOK(p), NEW packet, packet.pieces \in Seq(Nat),
         Total(packet.pieces) <= TCP_MSS, Total(packet.pieces) <= p.snd_buf, Room(p, 2)
  PROVE  Written(p, packet).snd_buf + Total(packet.pieces) = p.snd_buf
<1>1. PICK pieces \in Seq(Nat), N \in Nat : pieces = packet.pieces /\ N = Len(pieces)
  BY LenProperties
<1>2. PICK w, sum :
        /\ Writes(p, packet, w) /\ Written(p, packet) = w[N]
        /\ SumsOf(pieces, sum) /\ Total(pieces) = sum[N]
        /\ \A n \in 0 .. N : Wrote(p, w[n], sum[n])
  BY <1>1, WritesKeep
<1>3. w[0] = p /\ \A n \in 1 .. N : w[n] = tcp_write(w[n - 1], pieces[n])
  BY <1>1, <1>2 DEF Writes
<1>4. /\ sum \in [0 .. N -> Nat] /\ sum[0] = 0
      /\ \A n \in 1 .. N : sum[n] = sum[n - 1] + pieces[n]
  BY <1>1, <1>2 DEF SumsOf
<1>5. PICK T \in Nat, buf \in Nat, m \in Nat :
        T = sum[N] /\ buf = p.snd_buf /\ m = TCP_MSS /\ T <= m /\ T <= buf
  <2>1. N \in 0 .. N
    OBVIOUS
  <2>2. sum[N] \in Nat
    BY <1>4, <2>1
  <2>3. p.snd_buf \in Nat /\ TCP_MSS \in Nat
    BY IsPcb, SendQueueAssumption
  <2> QED
    BY <1>1, <1>2, <2>2, <2>3
<1>6. \A n \in 0 .. N : sum[n] <= T
  BY <1>1, <1>2, <1>5, SumsGrow
<1> DEFINE S == { n \in 0 .. N : w[n].snd_buf + sum[n] = buf /\ RoomToWrite(w[n], T - sum[n]) }
<1>7. 0 \in S
  <2>1. buf + 0 = buf /\ T - 0 = T /\ 0 \in 0 .. N
    OBVIOUS
  <2>2. RoomToWrite(p, T)
    BY <1>5 DEF RoomToWrite
  <2> QED
    BY <1>3, <1>4, <1>5, <2>1, <2>2
<1>8. ASSUME NEW n \in 1 .. N, n - 1 \in S
      PROVE  n \in S
  <2>1. n - 1 \in 0 .. N /\ n \in 0 .. N
    OBVIOUS
  <2>2. PICK q : q = w[n - 1] /\ PcbOK(q)
    BY <1>2, <2>1 DEF Wrote
  <2>3. PICK len \in Nat : len = pieces[n]
    BY <1>1, ElementOfSeq
  <2>4. PICK s \in Nat, t \in Nat, b \in Nat :
          s = sum[n - 1] /\ t = sum[n] /\ t = s + len /\ b = q.snd_buf /\ b + s = buf
    <3>1. sum[n - 1] \in Nat /\ sum[n] \in Nat /\ sum[n] = sum[n - 1] + pieces[n]
      BY <1>4, <2>1
    <3>2. q.snd_buf \in Nat
      BY <2>2, IsPcb, SendQueueAssumption
    <3> QED
      BY <1>8, <2>2, <2>3, <3>1, <3>2
  <2>5. w[n] = tcp_write(q, len)
    BY <1>3, <2>2, <2>3
  <2>6. t <= T /\ RoomToWrite(q, T - s)
    BY <1>6, <1>8, <2>1, <2>2, <2>4
  <2>7. CASE len = 0
    <3>1. w[n] = q /\ t = s
      BY <2>4, <2>5, <2>7 DEF tcp_write
    <3> QED
      BY <2>1, <2>4, <2>6, <3>1
  <2>8. CASE len # 0
    <3>1. PICK left \in Nat : left = T - s /\ len \in 1 .. left /\ left - len = T - t /\ len <= b
      <4>1. t = s + len /\ b + s = buf /\ t <= T /\ T <= buf
        BY <1>5, <2>4, <2>6
      <4>2. s \in Nat /\ t \in Nat /\ b \in Nat /\ len \in Nat /\ T \in Nat /\ buf \in Nat
        OBVIOUS
      <4> QED
        BY ONLY <2>8, <4>1, <4>2
    <3>2. WriteFits(q, len) /\ RoomToWrite(tcp_write(q, len), left - len)
      BY <2>2, <2>4, <2>6, <3>1, PieceFits
    <3>3. w[n].snd_buf = b - len
      <4>1. q \in Pcbs
        BY <2>2 DEF PcbOK
      <4> QED
        BY <2>4, <2>5, <2>8, <3>2, <4>1 DEF tcp_write, Pcbs
    <3>4. b - len + t = buf
      <4>1. t = s + len /\ b + s = buf
        BY <2>4
      <4>2. s \in Int /\ t \in Int /\ b \in Int /\ len \in Int
        OBVIOUS
      <4> QED
        BY ONLY <4>1, <4>2
    <3> QED
      BY <2>1, <2>4, <2>5, <3>1, <3>2, <3>3, <3>4
  <2> QED
    BY <2>7, <2>8
<1>9. N \in S
  <2>1. 0 .. N \subseteq S
    <3> HIDE DEF S
    <3> QED
      BY <1>7, <1>8, InductionTo
  <2>2. N \in 0 .. N
    OBVIOUS
  <2> HIDE DEF S
  <2> QED
    BY <2>1, <2>2
<1> QED
  BY <1>1, <1>2, <1>5, <1>9

\* Whatever is queued before it, a packet that is written while there are heap and pbufs for two
\* full buffers is queued whole: the pieces of a packet, however many, and the room that lwIP
\* keeps behind them take no more.  For packets of up to TCP_MSS bytes.
THEOREM SpareKeepsPacketsWhole ==
  ASSUME PacketsShort, \A packet \in SentPackets : Total(packet.pieces) <= TCP_MSS
  PROVE  WireSpec => SpareKeepsWhole
<1>1. ASSUME WireInv, [WireNext]_wireVars, whole, TwoPbufsFree
      PROVE  whole'
  <2>1. PcbOK(pcb)
    BY <1>1 DEF WireInv, Settled
  <2>2. Room(pcb, 2)
    BY <1>1 DEF TwoPbufsFree, Room, PbufSize
  <2>3. ASSUME NEW packet \in SentPackets, Accepted(packet)
        PROVE  whole'
    <3>1. packet.pieces \in Seq(Nat) /\ packet.len = Total(packet.pieces)
      BY PacketsAnnounced DEF PacketsShort, Announced
    <3>2. Total(packet.pieces) <= pcb.snd_buf
      <4>1. Total(packet.pieces) \in Nat /\ pcb.snd_buf \in Nat
        BY <2>1, <3>1, TotalNat, IsPcb, SendQueueAssumption
      <4> QED
        BY <2>3, <3>1, <4>1 DEF Accepted, is_output_buffer_full
    <3>3. Written(pcb, packet).snd_buf + Total(packet.pieces) = pcb.snd_buf
      BY <2>1, <2>2, <3>1, <3>2, SpareWhole
    <3> QED
      BY <2>3, <3>1, <3>3 DEF Accepted
  <2>4. CASE UNCHANGED whole
    BY <1>1, <2>4
  <2> QED
    BY <1>1, <2>3, <2>4, StepSends
<1> QED
  BY <1>1, WireInvAlways, PTL DEF WireSpec, SpareKeepsWhole
====
