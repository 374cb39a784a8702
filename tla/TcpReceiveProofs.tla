---- MODULE TcpReceiveProofs ----
(***************************************************************************)
(* Reassembly, the window and the callback's loop, for every window,       *)
(* segment size and stream: the bytes of the stream are delivered in their *)
(* order, each once, and the packets in them are handled as they were      *)
(* sent.                                                                   *)
(***************************************************************************)
EXTENDS TcpReceive, SumsProofs

(***************************************************************************)
(* Sums and chains.                                                        *)
(***************************************************************************)
\* The lengths of the pbufs of a chain.
LEMMA ChainLens ==
  ASSUME NEW chain \in Seq(Seq(Nat))
  PROVE  \E lens \in Seq(Nat) :
           /\ Len(lens) = Len(chain) /\ Bytes(chain) = Total(lens)
           /\ \A i \in 1 .. Len(chain) : lens[i] = Len(chain[i])
<1>1. PICK N \in Nat : N = Len(chain) /\ DOMAIN chain = 1 .. N
  BY LenProperties
<1>2. PICK lens : lens = [i \in 1 .. N |-> Len(chain[i])]
  OBVIOUS
<1>3. \A i \in 1 .. N : Len(chain[i]) \in Nat
  BY <1>1, ElementOfSeq, LenProperties
<1>4. lens \in Seq(Nat) /\ Len(lens) = N
  BY <1>2, <1>3, IsASeq, LenProperties
<1> QED
  BY <1>1, <1>2, <1>4 DEF Bytes

\* A chain grows by the length of the pbuf added to it.
LEMMA BytesOfChain ==
  ASSUME NEW chain \in Seq(Seq(Nat))
  PROVE  /\ Bytes(chain) \in Nat
         /\ chain = <<>> => Bytes(chain) = 0
         /\ chain # <<>> => Len(chain[1]) <= Bytes(chain)
         /\ Len(chain) = 1 => Bytes(chain) = Len(chain[1])
<1>1. PICK lens \in Seq(Nat) :
        /\ Len(lens) = Len(chain) /\ Bytes(chain) = Total(lens)
        /\ \A i \in 1 .. Len(chain) : lens[i] = Len(chain[i])
  BY ChainLens
<1>2. PICK g : SumsOf(lens, g) /\ Total(lens) = g[Len(lens)]
  BY TotalIs
<1>3. PICK N \in Nat : N = Len(chain)
  BY LenProperties
<1>4. g[0] = 0 /\ g[N] \in Nat /\ Bytes(chain) = g[N] /\ \A i \in 1 .. N : g[i] = g[i - 1] + lens[i]
  BY <1>1, <1>2, <1>3 DEF SumsOf
<1>5. chain = <<>> => Bytes(chain) = 0
  BY <1>3, <1>4
<1>6. ASSUME chain # <<>>
      PROVE  Len(chain[1]) <= Bytes(chain) /\ (N = 1 => Bytes(chain) = Len(chain[1]))
  <2>1. N > 0 /\ 1 \in 1 .. N
    BY <1>3, <1>6, EmptySeq
  <2>2. g[1] = Len(chain[1]) /\ Len(chain[1]) \in Nat
    <3>1. Len(chain[1]) \in Nat /\ lens[1] = Len(chain[1])
      BY <1>1, <1>3, <2>1, ElementOfSeq, LenProperties
    <3>2. g[1] = g[1 - 1] + lens[1]
      BY <1>4, <2>1
    <3> QED
      BY <1>4, <3>1, <3>2
  <2> DEFINE S == { n \in 0 .. N : n > 0 => g[n] >= g[1] }
  <2>3. 0 \in S
    OBVIOUS
  <2>4. ASSUME NEW n \in 1 .. N, n - 1 \in S
        PROVE  n \in S
    <3>1. g[n] = g[n - 1] + lens[n] /\ lens[n] \in Nat /\ g[n - 1] \in Nat
      <4>1. lens[n] \in Nat
        BY <1>1, <1>3, ElementOfSeq
      <4>2. g \in [0 .. N -> Nat] /\ n - 1 \in 0 .. N
        BY <1>1, <1>2, <1>3 DEF SumsOf
      <4> QED
        BY <1>4, <4>1, <4>2
    <3>2. CASE n = 1
      BY <2>2, <3>2
    <3>3. CASE n # 1
      <4>1. g[n - 1] >= g[1]
        BY <2>4, <3>3
      <4> QED
        BY <2>2, <3>1, <4>1
    <3> QED
      BY <3>2, <3>3
  <2>5. 0 .. N \subseteq S
    <3> HIDE DEF S
    <3> QED
      BY <2>3, <2>4, InductionTo
  <2>6. g[N] >= g[1]
    <3>1. N \in 0 .. N
      OBVIOUS
    <3> QED
      BY <2>1, <2>5, <3>1
  <2> QED
    BY <1>4, <2>2, <2>6
<1>7. Len(chain) = 1 => chain # <<>>
  <2>1. chain = <<>> => Len(chain) = 0
    BY EmptySeq
  <2> QED
    BY <2>1
<1> QED
  BY <1>3, <1>4, <1>5, <1>6, <1>7

\* A chain, flattened, has the bytes of its pbufs and begins with those of the first.
LEMMA FlattenedChain ==
  ASSUME NEW chain \in Seq(Seq(Nat))
  PROVE  /\ Flattened(chain) \in Seq(Nat) /\ Len(Flattened(chain)) = Bytes(chain)
         /\ chain # <<>> => \A k \in 1 .. Len(chain[1]) : Flattened(chain)[k] = chain[1][k]
<1>1. PICK g : ChainsOf(chain, g) /\ Flattened(chain) = g[Len(chain)]
  BY FlattenedIs
<1>2. PICK N \in Nat : N = Len(chain)
  BY LenProperties
<1>3. /\ g \in [0 .. N -> Seq(Nat)] /\ g[0] = <<>> /\ Flattened(chain) = g[N]
      /\ \A i \in 1 .. N : g[i] = g[i - 1] \o chain[i]
  BY <1>1, <1>2 DEF ChainsOf
<1>4. \A i \in 1 .. N : chain[i] \in Seq(Nat) /\ Len(chain[i]) \in Nat
  BY <1>2, ElementOfSeq, LenProperties
<1>5. \A i \in 1 .. N :
        /\ g[i - 1] \in Seq(Nat) /\ g[i] \in Seq(Nat) /\ Len(g[i - 1]) \in Nat
        /\ Len(g[i]) = Len(g[i - 1]) + Len(chain[i])
        /\ \A k \in 1 .. Len(g[i - 1]) : g[i][k] = g[i - 1][k]
        /\ \A k \in 1 .. Len(chain[i]) : g[i][Len(g[i - 1]) + k] = chain[i][k]
  <2> TAKE i \in 1 .. N
  <2>1. PICK a \in Seq(Nat), b \in Seq(Nat) : a = g[i - 1] /\ b = chain[i]
    <3>1. i - 1 \in 0 .. N
      OBVIOUS
    <3> QED
      BY <1>3, <1>4, <3>1
  <2>2. g[i] = a \o b
    BY <1>3, <2>1
  <2>3. /\ a \o b \in Seq(Nat) /\ Len(a) \in Nat /\ Len(b) \in Nat
        /\ Len(a \o b) = Len(a) + Len(b)
        /\ \A k \in 1 .. Len(a) : (a \o b)[k] = a[k]
        /\ \A k \in 1 .. Len(b) : (a \o b)[Len(a) + k] = b[k]
    <3>1. Len(a) \in Nat /\ Len(b) \in Nat
      BY LenProperties
    <3>2. /\ a \o b \in Seq(Nat) /\ Len(a \o b) = Len(a) + Len(b)
          /\ \A k \in 1 .. Len(a) + Len(b) :
               (a \o b)[k] = IF k <= Len(a) THEN a[k] ELSE b[k - Len(a)]
      BY ConcatProperties
    <3>3. ASSUME NEW k \in 1 .. Len(b)
          PROVE  (a \o b)[Len(a) + k] = b[k]
      <4>1. Len(a) + k \in 1 .. Len(a) + Len(b) /\ ~(Len(a) + k <= Len(a)) /\ Len(a) + k - Len(a) = k
        BY <3>1
      <4> QED
        BY <3>2, <4>1
    <3>4. ASSUME NEW k \in 1 .. Len(a)
          PROVE  (a \o b)[k] = a[k]
      <4>1. k \in 1 .. Len(a) + Len(b) /\ k <= Len(a)
        BY <3>1
      <4> QED
        BY <3>2, <4>1
    <3> QED
      BY <3>1, <3>2, <3>3, <3>4
  <2> QED
    BY <2>1, <2>2, <2>3
<1>6. Len(Flattened(chain)) = Bytes(chain)
  <2>1. PICK lens \in Seq(Nat) :
          /\ Len(lens) = N /\ Bytes(chain) = Total(lens)
          /\ \A i \in 1 .. N : lens[i] = Len(chain[i])
    BY <1>2, ChainLens
  <2>2. PICK sum : sum = [i \in 0 .. N |-> Len(g[i])]
    OBVIOUS
  <2>3. \A i \in 0 .. N : sum[i] = Len(g[i]) /\ sum[i] \in Nat
    BY <1>3, <2>2, LenProperties
  <2>4. \A i \in 1 .. N : sum[i] = sum[i - 1] + lens[i]
    <3> TAKE i \in 1 .. N
    <3>1. i \in 0 .. N /\ i - 1 \in 0 .. N
      OBVIOUS
    <3> QED
      BY <1>5, <2>1, <2>3, <3>1
  <2>5. sum[0] = 0
    <3>1. Len(g[0]) = 0 /\ 0 \in 0 .. N
      BY <1>3, EmptySeq
    <3> QED
      BY <2>3, <3>1
  <2>6. SumsOf(lens, sum)
    BY <2>1, <2>2, <2>3, <2>4, <2>5 DEF SumsOf
  <2>7. Total(lens) = sum[N] /\ N \in 0 .. N
    BY <2>1, <2>6, TotalOf
  <2> QED
    BY <1>3, <2>1, <2>3, <2>7
<1>7. ASSUME N > 0
      PROVE  \A k \in 1 .. Len(chain[1]) : Flattened(chain)[k] = chain[1][k]
  <2> DEFINE Begins(n) == /\ Len(g[n]) >= Len(chain[1])
                          /\ \A k \in 1 .. Len(chain[1]) : g[n][k] = chain[1][k]
             S == { n \in 0 .. N : n > 0 => Begins(n) }
  <2>1. 0 \in S
    OBVIOUS
  <2>2. ASSUME NEW n \in 1 .. N, n - 1 \in S
        PROVE  n \in S
    <3>1. Begins(n)
      <4> PICK a \in Seq(Nat), b \in Seq(Nat) : a = g[n - 1] /\ b = g[n]
        BY <1>5
      <4> PICK c, d : c = chain[1] /\ d = chain[n]
        OBVIOUS
      <4>1. /\ Len(b) = Len(a) + Len(d) /\ Len(a) \in Nat /\ Len(d) \in Nat /\ Len(c) \in Nat
            /\ \A k \in 1 .. Len(a) : b[k] = a[k]
            /\ \A k \in 1 .. Len(d) : b[Len(a) + k] = d[k]
        <5>1. 1 \in 1 .. N
          BY <1>7
        <5> QED
          BY <1>4, <1>5, <5>1
      <4>2. CASE n = 1
        <5>1. Len(a) = 0 /\ c = d
          BY <1>3, <4>2, EmptySeq
        <5>2. \A k \in 1 .. Len(d) : Len(a) + k = k
          BY <5>1
        <5> QED
          BY <4>1, <5>1, <5>2
      <4>3. CASE n # 1
        <5>1. Len(a) >= Len(c) /\ \A k \in 1 .. Len(c) : a[k] = c[k]
          <6>1. Begins(n - 1)
            BY <2>2, <4>3
          <6> QED
            BY <6>1
        <5>2. Len(b) >= Len(c) /\ \A k \in 1 .. Len(c) : k \in 1 .. Len(a)
          <6>1. PICK la \in Nat, lc \in Nat, ld \in Nat : la = Len(a) /\ lc = Len(c) /\ ld = Len(d)
            BY <4>1
          <6>2. la >= lc /\ Len(b) = la + ld
            BY <4>1, <5>1, <6>1
          <6>3. la + ld >= lc /\ \A k \in 1 .. lc : k \in 1 .. la
            BY <6>2
          <6> QED
            BY <6>1, <6>2, <6>3
        <5>3. \A k \in 1 .. Len(c) : b[k] = c[k]
          BY <4>1, <5>1, <5>2
        <5> QED
          BY <5>2, <5>3
      <4> QED
        BY <4>2, <4>3
    <3> HIDE DEF Begins
    <3> QED
      BY <3>1
  <2>3. 0 .. N \subseteq S
    <3> HIDE DEF S
    <3> QED
      BY <2>1, <2>2, InductionTo
  <2>4. Begins(N)
    <3>1. N \in 0 .. N
      OBVIOUS
    <3> HIDE DEF Begins
    <3> QED
      BY <1>7, <2>3, <3>1
  <2> QED
    BY <1>3, <2>4
<1>8. chain # <<>> => N > 0
  BY <1>2, EmptySeq
<1>9. Flattened(chain) \in Seq(Nat)
  <2>1. N \in 0 .. N
    OBVIOUS
  <2> QED
    BY <1>3, <2>1
<1> QED
  BY <1>6, <1>7, <1>8, <1>9

\* pbuf_cat of one more: its bytes come behind those of the chain.
LEMMA FlattenedAppend ==
  ASSUME NEW chain \in Seq(Seq(Nat)), NEW data \in Seq(Nat)
  PROVE  /\ Append(chain, data) \in Seq(Seq(Nat))
         /\ Flattened(Append(chain, data)) = Flattened(chain) \o data
         /\ Bytes(Append(chain, data)) = Bytes(chain) + Len(data)
<1>1. PICK N \in Nat : N = Len(chain)
  BY LenProperties
<1>2. PICK longer \in Seq(Seq(Nat)) :
        /\ longer = Append(chain, data) /\ Len(longer) = N + 1 /\ longer[N + 1] = data
        /\ \A i \in 1 .. N : longer[i] = chain[i]
  <2>1. PICK Datas : Datas = Seq(Nat)
    OBVIOUS
  <2>2. chain \in Seq(Datas) /\ data \in Datas
    BY <2>1
  <2>3. /\ Append(chain, data) \in Seq(Datas) /\ Len(Append(chain, data)) = Len(chain) + 1
        /\ \A i \in 1 .. Len(chain) : Append(chain, data)[i] = chain[i]
        /\ Append(chain, data)[Len(chain) + 1] = data
    BY <2>2, AppendProperties
  <2> QED
    BY <1>1, <2>1, <2>3
<1>3. PICK g \in [0 .. N -> Seq(Nat)] :
        /\ g[0] = <<>> /\ Flattened(chain) = g[N]
        /\ \A i \in 1 .. N : g[i] = g[i - 1] \o chain[i]
  BY <1>1, FlattenedIs DEF ChainsOf
<1>4. PICK all \in Seq(Nat) : all = g[N] \o data
  <2>1. g[N] \in Seq(Nat)
    BY <1>3
  <2> QED
    BY <2>1, ConcatProperties
<1>5. PICK h : h = [i \in 0 .. N + 1 |-> IF i = N + 1 THEN all ELSE g[i]]
  OBVIOUS
<1>6. /\ h \in [0 .. N + 1 -> Seq(Nat)] /\ h[N + 1] = all
      /\ \A i \in 0 .. N : h[i] = g[i]
  <2>1. \A i \in 0 .. N + 1 : i = N + 1 \/ i \in 0 .. N
    OBVIOUS
  <2>2. N + 1 \in 0 .. N + 1 /\ \A i \in 0 .. N : i \in 0 .. N + 1 /\ i # N + 1
    OBVIOUS
  <2> QED
    BY <1>3, <1>5, <2>1, <2>2
<1>7. \A i \in 1 .. N + 1 : h[i] = h[i - 1] \o longer[i]
  <2> TAKE i \in 1 .. N + 1
  <2>1. CASE i = N + 1
    <3>1. i - 1 = N /\ N \in 0 .. N
      BY <2>1
    <3> QED
      BY <1>2, <1>4, <1>6, <2>1, <3>1
  <2>2. CASE i # N + 1
    <3>1. i \in 1 .. N /\ i \in 0 .. N /\ i - 1 \in 0 .. N
      BY <2>2
    <3> QED
      BY <1>2, <1>3, <1>6, <3>1
  <2> QED
    BY <2>1, <2>2
<1>8. h[0] = <<>>
  <2>1. 0 \in 0 .. N
    OBVIOUS
  <2> QED
    BY <1>3, <1>6, <2>1
<1>9. ChainsOf(longer, h)
  BY <1>2, <1>6, <1>7, <1>8 DEF ChainsOf
<1>10. Flattened(longer) = Flattened(chain) \o data
  BY <1>2, <1>3, <1>4, <1>6, <1>9, FlattenedOf
<1>11. Bytes(longer) = Bytes(chain) + Len(data)
  <2>1. PICK f \in Seq(Nat) : f = Flattened(chain) /\ Len(f) = Bytes(chain)
    BY FlattenedChain
  <2>2. Bytes(longer) = Len(f \o data)
    BY <1>10, <2>1, FlattenedChain
  <2>3. Len(f \o data) = Len(f) + Len(data)
    BY ConcatProperties
  <2> QED
    BY <2>1, <2>2, <2>3
<1> QED
  BY <1>2, <1>10, <1>11

\* The chains that Joined builds, one segment after the other.
Segments == [seqno : Nat, data : Seq(Nat), fin : BOOLEAN]
JoinedTo(segments, g) ==
  /\ g \in [0 .. Len(segments) -> Seq(Seq(Nat))] /\ g[0] = <<>>
  /\ \A i \in 1 .. Len(segments) :
       g[i] = IF segments[i].data = <<>> THEN g[i - 1] ELSE Append(g[i - 1], segments[i].data)

\* Joined is the last of them.
LEMMA JoinedIs ==
  ASSUME NEW segments \in Seq(Segments)
  PROVE  \E g : JoinedTo(segments, g) /\ Joined(segments) = g[Len(segments)]
<1>1. PICK N \in Nat : N = Len(segments)
  BY LenProperties
<1>2. \A i \in 1 .. N : segments[i].data \in Seq(Nat)
  <2>1. \A i \in 1 .. N : segments[i] \in Segments
    BY <1>1, ElementOfSeq
  <2> QED
    BY <2>1 DEF Segments
<1>3. PICK f : f = [x \in Seq(Seq(Nat)) \X (1 .. N) |->
                      IF segments[x[2]].data = <<>> THEN x[1]
                      ELSE Append(x[1], segments[x[2]].data)]
  OBVIOUS
<1>4. /\ f \in [Seq(Seq(Nat)) \X (1 .. N) -> Seq(Seq(Nat))]
      /\ \A a \in Seq(Seq(Nat)), i \in 1 .. N :
           f[<<a, i>>] = IF segments[i].data = <<>> THEN a ELSE Append(a, segments[i].data)
  BY <1>2, <1>3, AppendProperties
<1>5. PICK g \in [0 .. N -> Seq(Seq(Nat))] :
        g = [n \in 0 .. N |-> IF n = 0 THEN <<>> ELSE f[<<g[n - 1], n>>]]
  <2>1. PICK none \in Seq(Seq(Nat)) : none = <<>>
    BY EmptySeq
  <2>2. \E g \in [0 .. N -> Seq(Seq(Nat))] : RecursiveTo(N, none, f, g)
    BY <1>4, Recursion
  <2> QED
    BY <2>1, <2>2 DEF RecursiveTo
<1>6. \A n \in 0 .. N :
        g[n] = IF n = 0 THEN <<>> ELSE IF segments[n].data = <<>> THEN g[n - 1]
               ELSE Append(g[n - 1], segments[n].data)
  <2> TAKE n \in 0 .. N
  <2>1. CASE n = 0
    BY <1>5, <2>1
  <2>2. CASE n # 0
    <3>1. n \in 1 .. N /\ n - 1 \in 0 .. N
      BY <2>2
    <3>2. g[n] = f[<<g[n - 1], n>>] /\ g[n - 1] \in Seq(Seq(Nat))
      BY <1>5, <2>2, <3>1
    <3> QED
      BY <1>4, <2>2, <3>1, <3>2
  <2> QED
    BY <2>1, <2>2
<1>7. g = [n \in 0 .. N |-> IF n = 0 THEN <<>> ELSE IF segments[n].data = <<>> THEN g[n - 1]
                            ELSE Append(g[n - 1], segments[n].data)]
  BY <1>5, <1>6
<1>8. PICK h : h = [n \in 0 .. N |-> IF n = 0 THEN <<>> ELSE IF segments[n].data = <<>> THEN h[n - 1]
                                     ELSE Append(h[n - 1], segments[n].data)]
               /\ Joined(segments) = h[N]
  BY <1>1, <1>7 DEF Joined
<1>9. /\ h[0] = <<>>
      /\ \A n \in 1 .. N : h[n] = IF segments[n].data = <<>> THEN h[n - 1]
                                  ELSE Append(h[n - 1], segments[n].data)
  <2>1. 0 \in 0 .. N /\ \A n \in 1 .. N : n \in 0 .. N /\ n # 0
    OBVIOUS
  <2> QED
    BY <1>8, <2>1
<1>10. h \in [0 .. N -> Seq(Seq(Nat))]
  <2> DEFINE S == { n \in 0 .. N : h[n] \in Seq(Seq(Nat)) }
  <2>1. 0 \in S
    <3>1. h[0] \in Seq(Seq(Nat)) /\ 0 \in 0 .. N
      BY <1>9, EmptySeq
    <3> QED
      BY <3>1
  <2>2. ASSUME NEW n \in 1 .. N, n - 1 \in S
        PROVE  n \in S
    <3>1. PICK a \in Seq(Seq(Nat)), d \in Seq(Nat) : a = h[n - 1] /\ d = segments[n].data
      BY <1>2, <2>2
    <3>2. h[n] = a \/ h[n] = Append(a, d)
      BY <1>9, <3>1
    <3>3. h[n] \in Seq(Seq(Nat))
      <4>1. Append(a, d) \in Seq(Seq(Nat))
        BY FlattenedAppend
      <4> QED
        BY <3>2, <4>1
    <3> QED
      BY <3>3
  <2>3. 0 .. N \subseteq S
    <3> HIDE DEF S
    <3> QED
      BY <2>1, <2>2, InductionTo
  <2>4. \A n \in 0 .. N : h[n] \in Seq(Seq(Nat))
    BY <2>3
  <2>5. DOMAIN h = 0 .. N /\ h = [n \in DOMAIN h |-> h[n]]
    BY <1>8
  <2> QED
    BY <2>4, <2>5
<1> QED
  BY <1>1, <1>8, <1>9, <1>10 DEF JoinedTo

-----------------------------------------------------------------------------
(***************************************************************************)
(* Segments and queues.  Eof does not change; the lemmas are about any     *)
(* number eof in its place.                                                *)
(***************************************************************************)
\* The bytes of a segment are those of the stream that its numbers say, and its FIN
\* is behind the last of them.
OfStream(s, eof) ==
  /\ s \in Segments /\ s.seqno > 0
  /\ \A i \in 1 .. Len(s.data) : s.data[i] = s.seqno + i - 1
  /\ TCP_TCPLEN(s) > 0 /\ EndOfData(s) <= eof /\ (s.fin => EndOfData(s) = eof)

\* A queue has such segments, one behind the other, and nothing behind a FIN.
InOrder(queue) ==
  \A i, j \in 1 .. Len(queue) : i < j => EndOfSeg(queue[i]) <= queue[j].seqno /\ ~queue[i].fin
Between(queue, from, to, eof) ==
  \A i \in 1 .. Len(queue) :
    OfStream(queue[i], eof) /\ from <= queue[i].seqno /\ EndOfSeg(queue[i]) <= to
Queue(queue, from, to, eof) ==
  queue \in Seq(Segments) /\ InOrder(queue) /\ Between(queue, from, to, eof)

\* The ends of a segment are numbers.
LEMMA SegmentEnds ==
  ASSUME NEW s \in Segments
  PROVE  /\ s.seqno \in Nat /\ s.data \in Seq(Nat) /\ Len(s.data) \in Nat /\ s.fin \in BOOLEAN
         /\ EndOfData(s) = s.seqno + Len(s.data) /\ EndOfData(s) \in Nat
         /\ TCP_TCPLEN(s) \in Nat /\ EndOfSeg(s) = s.seqno + TCP_TCPLEN(s) /\ EndOfSeg(s) \in Nat
         /\ s.fin => TCP_TCPLEN(s) = Len(s.data) + 1 /\ EndOfSeg(s) = EndOfData(s) + 1
         /\ ~s.fin => TCP_TCPLEN(s) = Len(s.data) /\ EndOfSeg(s) = EndOfData(s)
<1>1. s.seqno \in Nat /\ s.data \in Seq(Nat) /\ s.fin \in BOOLEAN
  BY DEF Segments
<1>2. PICK n \in Nat, a \in Nat : n = Len(s.data) /\ a = s.seqno
  BY <1>1, LenProperties
<1>3. FinLen(s) \in {0, 1} /\ (s.fin => FinLen(s) = 1) /\ (~s.fin => FinLen(s) = 0)
  BY <1>1, Zenon DEF FinLen
<1>4. PICK f \in {0, 1} : FinLen(s) = f
  BY <1>3
<1>5. EndOfData(s) = a + n /\ TCP_TCPLEN(s) = n + f /\ EndOfSeg(s) = a + (n + f)
  BY <1>2, <1>4 DEF EndOfData, EndOfSeg, TCP_TCPLEN
<1>6. a + n \in Nat /\ n + f \in Nat /\ a + (n + f) \in Nat
  OBVIOUS
<1>7. (f = 1 => a + (n + f) = a + n + 1 /\ n + f = n + 1) /\ (f = 0 => a + (n + f) = a + n /\ n + f = n)
  OBVIOUS
<1>8. (s.fin => f = 1) /\ (~s.fin => f = 0)
  BY <1>3, <1>4
<1> QED
  BY <1>1, <1>2, <1>5, <1>6, <1>7, <1>8, Zenon

\* The data of segments without a gap, joined: the stream from the first byte on.
LEMMA JoinedInOrder ==
  ASSUME NEW segments \in Seq(Segments), NEW eof, Len(segments) > 0,
         \A i \in 1 .. Len(segments) : OfStream(segments[i], eof),
         \A i \in 2 .. Len(segments) : segments[i].seqno = EndOfData(segments[i - 1])
  PROVE  /\ Joined(segments) \in Seq(Seq(Nat))
         /\ \A i \in 1 .. Len(Joined(segments)) : Joined(segments)[i] # <<>>
         /\ segments[1].seqno + Bytes(Joined(segments)) = EndOfData(segments[Len(segments)])
         /\ \A k \in 1 .. Bytes(Joined(segments)) :
              Flattened(Joined(segments))[k] = segments[1].seqno + k - 1
<1>1. PICK N \in Nat : N = Len(segments)
  BY LenProperties
<1>2. PICK g : /\ g \in [0 .. N -> Seq(Seq(Nat))] /\ g[0] = <<>> /\ Joined(segments) = g[N]
               /\ \A i \in 1 .. N : g[i] = IF segments[i].data = <<>> THEN g[i - 1]
                                           ELSE Append(g[i - 1], segments[i].data)
  BY <1>1, JoinedIs DEF JoinedTo
<1>3. \A i \in 1 .. N : segments[i] \in Segments
  BY <1>1, ElementOfSeq
<1>4. PICK first \in Nat : first = segments[1].seqno
  <2>1. 1 \in 1 .. N
    BY <1>1
  <2> QED
    BY <1>3, <2>1, SegmentEnds
<1> DEFINE Good(n) ==
      /\ \A i \in 1 .. Len(g[n]) : g[n][i] # <<>>
      /\ first + Bytes(g[n]) = IF n = 0 THEN first ELSE EndOfData(segments[n])
      /\ \A k \in 1 .. Bytes(g[n]) : Flattened(g[n])[k] = first + k - 1
    S == { n \in 0 .. N : Good(n) }
<1>5. 0 \in S
  <2>1. PICK c \in Seq(Seq(Nat)) : c = g[0] /\ Len(c) = 0 /\ Bytes(c) = 0
    BY <1>2, EmptySeq, BytesOfChain
  <2>2. Good(0) /\ 0 \in 0 .. N
    BY <1>4, <2>1
  <2> HIDE DEF Good
  <2> QED
    BY <2>2
<1>6. ASSUME NEW n \in 1 .. N, n - 1 \in S
      PROVE  n \in S
  <2>1. PICK c \in Seq(Seq(Nat)), s \in Segments : c = g[n - 1] /\ s = segments[n]
    <3>1. n - 1 \in 0 .. N
      OBVIOUS
    <3>2. g[n - 1] \in Seq(Seq(Nat)) /\ segments[n] \in Segments
      BY <1>2, <1>3, <3>1
    <3> QED
      BY <3>2
  <2>2. PICK d \in Seq(Nat), m \in Nat, l \in Nat :
          d = s.data /\ l = Len(d) /\ m = Bytes(c) /\ EndOfData(s) = s.seqno + l /\ s.seqno \in Nat
    <3>1. PICK d \in Seq(Nat) :
            d = s.data /\ Len(d) \in Nat /\ EndOfData(s) = s.seqno + Len(d) /\ s.seqno \in Nat
      BY SegmentEnds
    <3>2. Bytes(c) \in Nat
      BY BytesOfChain
    <3> QED
      BY <3>1, <3>2
  <2>3. /\ \A i \in 1 .. Len(c) : c[i] # <<>>
        /\ first + m = IF n = 1 THEN first ELSE EndOfData(segments[n - 1])
        /\ \A k \in 1 .. m : Flattened(c)[k] = first + k - 1
    <3>1. Good(n - 1) /\ (n - 1 = 0 <=> n = 1)
      BY <1>6
    <3> QED
      BY <2>1, <2>2, <3>1
  <2>4. s.seqno = first + m
    <3>1. CASE n = 1
      BY <1>4, <2>1, <2>3, <3>1
    <3>2. CASE n # 1
      <4>1. n \in 2 .. N
        BY <3>2
      <4> QED
        BY <1>1, <2>1, <2>3, <3>2, <4>1
    <3> QED
      BY <3>1, <3>2
  <2>5. \A i \in 1 .. l : d[i] = s.seqno + i - 1
    BY <1>1, <2>1, <2>2 DEF OfStream
  <2>6. CASE d = <<>>
    <3>1. g[n] = c /\ l = 0
      BY <1>2, <2>1, <2>2, <2>6, EmptySeq
    <3>2. first + m = EndOfData(s)
      BY <2>2, <2>4, <3>1
    <3>3. Good(n)
      BY <2>1, <2>2, <2>3, <3>1, <3>2
    <3> HIDE DEF Good
    <3> QED
      BY <3>3
  <2>7. CASE d # <<>>
    <3>1. PICK r \in Seq(Seq(Nat)) :
            /\ r = g[n] /\ r = Append(c, d) /\ Flattened(r) = Flattened(c) \o d
            /\ Bytes(r) = m + l
      BY <1>2, <2>1, <2>2, <2>7, FlattenedAppend
    <3>2. \A i \in 1 .. Len(r) : r[i] # <<>>
      <4>1. PICK Datas : Datas = Seq(Nat)
        OBVIOUS
      <4>2. c \in Seq(Datas) /\ d \in Datas /\ Len(c) \in Nat
        BY <4>1, LenProperties
      <4>3. /\ Len(r) = Len(c) + 1 /\ r[Len(c) + 1] = d
            /\ \A i \in 1 .. Len(c) : r[i] = c[i]
        BY <3>1, <4>2, AppendProperties
      <4>4. \A i \in 1 .. Len(r) : i \in 1 .. Len(c) \/ i = Len(c) + 1
        BY <4>2, <4>3
      <4> QED
        BY <2>3, <2>7, <4>3, <4>4
    <3>3. \A k \in 1 .. m + l : Flattened(r)[k] = first + k - 1
      <4>1. PICK f \in Seq(Nat) : f = Flattened(c) /\ Len(f) = m
        BY <2>2, FlattenedChain
      <4>2. \A k \in 1 .. m + l : (f \o d)[k] = IF k <= m THEN f[k] ELSE d[k - m]
        BY SMTT(30), <2>2, <4>1, ConcatProperties
      <4> TAKE k \in 1 .. m + l
      <4>3. CASE k <= m
        <5>1. k \in 1 .. m
          BY <4>3
        <5> QED
          BY <2>3, <3>1, <4>1, <4>2, <4>3, <5>1
      <4>4. CASE ~(k <= m)
        <5>1. PICK i \in 1 .. l : i = k - m
          BY <4>4
        <5>2. d[i] = s.seqno + i - 1
          BY <2>5
        <5>3. (f \o d)[k] = d[i]
          BY <4>2, <4>4, <5>1
        <5>4. s.seqno + i - 1 = first + k - 1
          BY <2>4, <5>1
        <5> QED
          BY <3>1, <4>1, <5>2, <5>3, <5>4
      <4> QED
        BY <4>3, <4>4
    <3>4. first + (m + l) = EndOfData(s)
      BY <2>2, <2>4
    <3>5. Good(n)
      <4>1. \A i \in 1 .. Len(g[n]) : g[n][i] # <<>>
        BY <3>1, <3>2
      <4>2. first + Bytes(g[n]) = EndOfData(segments[n]) /\ n # 0
        BY <2>1, <3>1, <3>4
      <4>3. \A k \in 1 .. Bytes(g[n]) : Flattened(g[n])[k] = first + k - 1
        BY <3>1, <3>3
      <4> QED
        BY <4>1, <4>2, <4>3
    <3> HIDE DEF Good
    <3> QED
      BY <3>5
  <2> QED
    BY <2>6, <2>7
<1>7. Good(N)
  <2>1. N \in 0 .. N
    OBVIOUS
  <2>2. 0 .. N \subseteq S
    <3> HIDE DEF S
    <3> QED
      BY <1>5, <1>6, InductionTo
  <2> HIDE DEF Good
  <2> QED
    BY <2>1, <2>2
<1>8. g[N] \in Seq(Seq(Nat)) /\ N # 0
  <2>1. N \in 0 .. N
    OBVIOUS
  <2> QED
    BY <1>1, <1>2, <2>1
<1> QED
  BY <1>1, <1>2, <1>4, <1>7, <1>8

(***************************************************************************)
(* The stream.                                                             *)
(***************************************************************************)
\* What EndOf computes: where each packet ends, at least two bytes behind the one before.
EndsOf(g) ==
  /\ g \in [0 .. Len(stream) -> Nat] /\ g[0] = 1
  /\ \A n \in 1 .. Len(stream) :
       PacketLen(stream[n]) \in Nat /\ PacketLen(stream[n]) >= 2 /\ g[n] = g[n - 1] + PacketLen(stream[n])

\* EndOf is that function.
LEMMA EndOfIs ==
  ASSUME stream \in Seq(Packets)
  PROVE  EndsOf(EndOf)
<1>1. PICK N \in Nat : N = Len(stream)
  BY LenProperties
<1>2. \A n \in 1 .. N : PacketLen(stream[n]) \in Nat /\ PacketLen(stream[n]) >= 2
  <2> TAKE n \in 1 .. N
  <2>1. PICK p \in Packets : p = stream[n]
    BY <1>1, ElementOfSeq
  <2>2. p.remaining_len \in Nat
    <3>1. CASE p \in [type : {"PINGRESP"}, remaining_len : {0}]
      BY <3>1
    <3>2. CASE p \in [type : {"PUBACK"}, remaining_len : {2}]
      BY <3>2
    <3>3. CASE p \in [type : {"SUBACK"}, remaining_len : {3}]
      BY <3>3
    <3>4. CASE p \in [type : {"PUBLISH"}, remaining_len : PublishLens]
      <4>1. p.remaining_len \in PublishLens
        BY <3>4
      <4>2. PublishLens \subseteq Nat
        BY ReceiveAssumption
      <4> QED
        BY <4>1, <4>2
    <3> QED
      BY <3>1, <3>2, <3>3, <3>4 DEF Packets
  <2>3. PICK r \in Nat : r = p.remaining_len
    BY <2>2
  <2>4. PICK d \in 1 .. 4 : d = encode_remaining_len(r)
    BY DEF encode_remaining_len
  <2>5. PacketLen(p) = 1 + d + r
    BY <2>3, <2>4 DEF PacketLen
  <2> QED
    BY <2>1, <2>5
<1>3. PICK lens : lens = [n \in 1 .. N |-> PacketLen(stream[n])]
  OBVIOUS
<1>4. lens \in [1 .. N -> Nat] /\ \A n \in 1 .. N : lens[n] = PacketLen(stream[n])
  BY <1>2, <1>3
<1>5. PICK f : f = [x \in Nat \X (1 .. N) |-> x[1] + lens[x[2]]]
  OBVIOUS
<1>6. f \in [Nat \X (1 .. N) -> Nat] /\ \A a \in Nat, i \in 1 .. N : f[<<a, i>>] = a + lens[i]
  BY SMTT(30), <1>4, <1>5
<1>7. PICK g \in [0 .. N -> Nat] :
        g = [n \in 0 .. N |-> IF n = 0 THEN 1 ELSE f[<<g[n - 1], n>>]]
  <2>1. PICK one \in Nat : one = 1
    OBVIOUS
  <2>2. \E g \in [0 .. N -> Nat] : RecursiveTo(N, one, f, g)
    BY <1>6, Recursion
  <2> QED
    BY <2>1, <2>2 DEF RecursiveTo
<1>8. \A n \in 0 .. N : g[n] = IF n = 0 THEN 1 ELSE g[n - 1] + PacketLen(stream[n])
  <2> TAKE n \in 0 .. N
  <2>1. CASE n = 0
    BY <1>7, <2>1
  <2>2. CASE n # 0
    <3>1. n \in 1 .. N /\ n - 1 \in 0 .. N
      BY <2>2
    <3>2. g[n] = f[<<g[n - 1], n>>] /\ g[n - 1] \in Nat
      BY <1>7, <2>2, <3>1
    <3> QED
      BY <1>4, <1>6, <2>2, <3>1, <3>2
  <2> QED
    BY <2>1, <2>2
<1>9. g = [n \in 0 .. N |-> IF n = 0 THEN 1 ELSE g[n - 1] + PacketLen(stream[n])]
  BY <1>7, <1>8
<1>10. PICK h : h = EndOf /\ h = [n \in 0 .. N |-> IF n = 0 THEN 1 ELSE h[n - 1] + PacketLen(stream[n])]
  BY <1>1, <1>9 DEF EndOf
<1>11. h[0] = 1 /\ \A n \in 1 .. N : h[n] = h[n - 1] + PacketLen(stream[n])
  <2>1. 0 \in 0 .. N /\ \A n \in 1 .. N : n \in 0 .. N /\ n # 0
    OBVIOUS
  <2> QED
    BY <1>10, <2>1
<1>12. h \in [0 .. N -> Nat]
  <2> DEFINE S == { n \in 0 .. N : h[n] \in Nat }
  <2>1. 0 \in S
    BY <1>11
  <2>2. ASSUME NEW n \in 1 .. N, n - 1 \in S
        PROVE  n \in S
    <3>1. h[n - 1] \in Nat /\ PacketLen(stream[n]) \in Nat /\ h[n] = h[n - 1] + PacketLen(stream[n])
      BY <1>2, <1>11, <2>2
    <3>2. h[n] \in Nat
      BY <3>1
    <3> QED
      BY <3>2
  <2>3. 0 .. N \subseteq S
    <3> HIDE DEF S
    <3> QED
      BY <2>1, <2>2, InductionTo
  <2>4. \A n \in 0 .. N : h[n] \in Nat
    BY <2>3
  <2>5. DOMAIN h = 0 .. N /\ h = [n \in DOMAIN h |-> h[n]]
    BY <1>10
  <2> QED
    BY <2>4, <2>5
<1> QED
  BY <1>1, <1>2, <1>10, <1>11, <1>12 DEF EndsOf

\* A later packet ends later.
LEMMA EndsGrow ==
  ASSUME NEW g, EndsOf(g), stream \in Seq(Packets),
         NEW m \in 0 .. Len(stream), NEW n \in 0 .. Len(stream), m < n
  PROVE  g[m] < g[n]
<1>1. PICK N \in Nat : N = Len(stream)
  BY LenProperties
<1>2. /\ g \in [0 .. N -> Nat]
      /\ \A k \in 1 .. N : PacketLen(stream[k]) \in Nat /\ PacketLen(stream[k]) >= 2
                           /\ g[k] = g[k - 1] + PacketLen(stream[k])
  BY <1>1 DEF EndsOf
<1> DEFINE S == { k \in 0 .. N : k > m => g[m] < g[k] }
<1>3. 0 \in S
  BY <1>1
<1>4. ASSUME NEW k \in 1 .. N, k - 1 \in S
      PROVE  k \in S
  <2>1. PICK a \in Nat, l \in Nat : a = g[k - 1] /\ l = PacketLen(stream[k]) /\ l >= 2
    <3>1. k - 1 \in 0 .. N
      OBVIOUS
    <3> QED
      BY <1>2, <3>1
  <2>2. g[k] = a + l
    BY <1>2, <2>1
  <2>3. g[m] \in Nat
    BY <1>1, <1>2
  <2>4. ASSUME k > m
        PROVE  g[m] < g[k]
    <3>1. CASE k - 1 = m
      BY <2>1, <2>2, <2>3, <3>1
    <3>2. CASE k - 1 # m
      <4>1. k - 1 > m
        BY <1>1, <2>4, <3>2
      <4>2. g[m] < a
        BY <1>4, <2>1, <4>1
      <4> QED
        BY <2>1, <2>2, <2>3, <4>2
    <3> QED
      BY <3>1, <3>2
  <2>5. k \in 0 .. N
    OBVIOUS
  <2> QED
    BY <2>4, <2>5
<1>5. 0 .. N \subseteq S
  <2> HIDE DEF S
  <2> QED
    BY <1>3, <1>4, InductionTo
<1> QED
  BY <1>1, <1>5

\* So the place of an end says which packet ends there.
LEMMA EndsDiffer ==
  ASSUME NEW g, EndsOf(g), stream \in Seq(Packets),
         NEW m \in 0 .. Len(stream), NEW n \in 0 .. Len(stream)
  PROVE  /\ g[m] \in Nat /\ g[m] > 0
         /\ g[m] = g[n] => m = n
         /\ g[m] < g[n] => m < n
<1>1. PICK N \in Nat : N = Len(stream)
  BY LenProperties
<1>2. g \in [0 .. N -> Nat] /\ g[0] = 1
  BY <1>1 DEF EndsOf
<1>3. g[m] \in Nat /\ g[n] \in Nat
  BY <1>1, <1>2
<1>4. m < n => g[m] < g[n]
  BY EndsGrow
<1>5. n < m => g[n] < g[m]
  BY EndsGrow
<1>6. 0 < m => g[0] < g[m]
  <2>1. 0 \in 0 .. Len(stream)
    BY <1>1
  <2> QED
    BY <2>1, EndsGrow
<1>7. g[m] > 0
  <2>1. m = 0 \/ 0 < m
    BY <1>1
  <2> QED
    BY <1>2, <1>3, <1>6, <2>1
<1> QED
  BY <1>1, <1>3, <1>4, <1>5, <1>7

(***************************************************************************)
(* Queues.                                                                 *)
(***************************************************************************)
\* What is said of a segment of a queue.
LEMMA InQueue ==
  ASSUME NEW queue, NEW from, NEW to, NEW eof, Queue(queue, from, to, eof),
         NEW i \in 1 .. Len(queue)
  PROVE  /\ queue[i] \in Segments /\ OfStream(queue[i], eof)
         /\ from <= queue[i].seqno /\ EndOfSeg(queue[i]) <= to
BY ElementOfSeq DEF Queue, Between

\* Of two segments of a queue the first ends before the second, and has no FIN.
LEMMA QueuedBefore ==
  ASSUME NEW queue, NEW from, NEW to, NEW eof, Queue(queue, from, to, eof),
         NEW i \in 1 .. Len(queue), NEW j \in 1 .. Len(queue), i < j
  PROVE  EndOfSeg(queue[i]) <= queue[j].seqno /\ ~queue[i].fin
BY DEF Queue, InOrder

\* A segment that occupies numbers begins before it ends.
LEMMA SegmentOf ==
  ASSUME NEW s, NEW eof \in Nat, OfStream(s, eof)
  PROVE  /\ s \in Segments /\ s.seqno \in Nat /\ s.seqno > 0 /\ s.fin \in BOOLEAN
         /\ EndOfData(s) \in Nat /\ EndOfSeg(s) \in Nat
         /\ s.seqno < EndOfSeg(s) /\ s.seqno <= EndOfData(s) /\ EndOfData(s) <= EndOfSeg(s)
         /\ EndOfData(s) <= eof
         /\ ~s.fin => EndOfSeg(s) = EndOfData(s)
         /\ s.fin => EndOfData(s) = eof /\ EndOfSeg(s) = eof + 1
<1>1. s \in Segments /\ s.seqno > 0 /\ TCP_TCPLEN(s) > 0 /\ EndOfData(s) <= eof /\ (s.fin => EndOfData(s) = eof)
  BY DEF OfStream
<1>2. PICK a \in Nat, n \in Nat, l \in Nat, e \in Nat, d \in Nat :
        /\ a = s.seqno /\ n = Len(s.data) /\ l = TCP_TCPLEN(s) /\ e = EndOfSeg(s) /\ d = EndOfData(s)
        /\ d = a + n /\ e = a + l
  BY <1>1, SegmentEnds
<1>3. /\ s.fin \in BOOLEAN
      /\ (s.fin => l = n + 1 /\ e = d + 1) /\ (~s.fin => l = n /\ e = d)
  BY <1>1, <1>2, SegmentEnds
<1>4. d <= e
  <2>1. CASE e = d + 1
    BY <2>1
  <2>2. CASE e = d
    BY <2>2
  <2> QED
    BY <1>3, <2>1, <2>2
<1>5. a < e /\ a <= d
  BY <1>1, <1>2
<1> QED
  BY <1>1, <1>2, <1>3, <1>4, <1>5

\* A queue of one segment.
LEMMA OneQueued ==
  ASSUME NEW s, NEW from, NEW to, NEW eof, OfStream(s, eof), from <= s.seqno, EndOfSeg(s) <= to
  PROVE  Queue(<<s>>, from, to, eof) /\ Len(<<s>>) = 1 /\ <<s>>[1] = s
<1>1. PICK q : q = <<s>>
  OBVIOUS
<1>2. q \in Seq(Segments) /\ Len(q) = 1 /\ q[1] = s
  BY <1>1 DEF OfStream
<1>3. InOrder(q)
  <2>1. \A i, j \in 1 .. 1 : ~(i < j)
    OBVIOUS
  <2> QED
    BY <1>2, <2>1 DEF InOrder
<1>4. Between(q, from, to, eof)
  <2>1. \A i \in 1 .. 1 : i = 1
    OBVIOUS
  <2> QED
    BY <1>2, <2>1 DEF Between
<1> QED
  BY <1>1, <1>2, <1>3, <1>4 DEF Queue

\* The first n of a queue, and the rest.
Parts(queue, n, head, rest) ==
  head = SubSeq(queue, 1, n) /\ rest = SubSeq(queue, n + 1, Len(queue))

\* Both parts of a queue are queues.
LEMMA QueueParts ==
  ASSUME NEW queue, NEW from \in Nat, NEW to \in Nat, NEW eof \in Nat, Queue(queue, from, to, eof),
         NEW n \in 0 .. Len(queue), NEW a, NEW b, Parts(queue, n, a, b)
  PROVE  /\ Queue(a, from, to, eof) /\ Len(a) = n
         /\ \A i \in 1 .. n : a[i] = queue[i]
         /\ Queue(b, from, to, eof) /\ Len(b) = Len(queue) - n
         /\ \A i \in 1 .. Len(queue) - n : b[i] = queue[n + i]
<1>1. PICK N \in Nat, k \in Nat : N = Len(queue) /\ k = n + 1
  <2>1. queue \in Seq(Segments)
    BY DEF Queue
  <2>2. Len(queue) \in Nat
    BY <2>1, LenProperties
  <2>3. n + 1 \in Nat
    BY <2>2
  <2> QED
    BY <2>2, <2>3
<1>3. a = SubSeq(queue, 1, n) /\ b = SubSeq(queue, k, N)
  BY <1>1 DEF Parts
<1>2. \A i \in 1 .. N : queue[i] \in Segments
  BY <1>1, InQueue
<1>4. a \in Seq(Segments) /\ Len(a) = n /\ \A i \in 1 .. n : a[i] = queue[i]
  <2>1. 1 \in Int /\ n \in Int /\ \A i \in 1 .. n : queue[i] \in Segments
    BY <1>1, <1>2
  <2>2. /\ a \in Seq(Segments) /\ Len(a) = IF 1 <= n THEN n - 1 + 1 ELSE 0
        /\ \A i \in 1 .. n - 1 + 1 : a[i] = queue[1 + i - 1]
    BY <1>3, <2>1, SubSeqProperties
  <2>3. n - 1 + 1 = n /\ n >= 0 /\ \A i \in 1 .. n : 1 + i - 1 = i
    BY <1>1
  <2> QED
    BY <2>2, <2>3
<1>5. b \in Seq(Segments) /\ Len(b) = N - n /\ \A i \in 1 .. N - n : b[i] = queue[n + i]
  <2>1. k \in Int /\ N \in Int /\ \A i \in k .. N : queue[i] \in Segments
    BY <1>1, <1>2
  <2>2. /\ b \in Seq(Segments) /\ Len(b) = IF k <= N THEN N - k + 1 ELSE 0
        /\ \A i \in 1 .. N - k + 1 : b[i] = queue[k + i - 1]
    BY SMTT(30), <1>3, <2>1, SubSeqProperties
  <2>3. N - k + 1 = N - n /\ n <= N /\ (~(k <= N) => N - n = 0) /\ \A i \in 1 .. N - n : k + i - 1 = n + i
    BY <1>1
  <2> QED
    BY <2>2, <2>3
<1>6. InOrder(a) /\ Between(a, from, to, eof)
  <2>1. \A i \in 1 .. n : i \in 1 .. N
    BY <1>1
  <2>2. \A i \in 1 .. n : OfStream(a[i], eof) /\ from <= a[i].seqno /\ EndOfSeg(a[i]) <= to
    BY <1>1, <1>4, <2>1, InQueue
  <2>3. \A i, j \in 1 .. n : i < j => EndOfSeg(a[i]) <= a[j].seqno /\ ~a[i].fin
    BY <1>1, <1>4, <2>1, QueuedBefore
  <2> QED
    BY <1>4, <2>2, <2>3 DEF InOrder, Between
<1>7. InOrder(b) /\ Between(b, from, to, eof)
  <2>1. \A i \in 1 .. N - n : n + i \in 1 .. N
    BY <1>1
  <2>2. \A i \in 1 .. N - n : OfStream(b[i], eof) /\ from <= b[i].seqno /\ EndOfSeg(b[i]) <= to
    <3> TAKE i \in 1 .. N - n
    <3>1. PICK m \in 1 .. N : m = n + i
      BY <2>1
    <3>2. OfStream(queue[m], eof) /\ from <= queue[m].seqno /\ EndOfSeg(queue[m]) <= to
      BY <1>1, InQueue
    <3> QED
      BY <1>5, <3>1, <3>2
  <2>3. \A i, j \in 1 .. N - n : i < j => EndOfSeg(b[i]) <= b[j].seqno /\ ~b[i].fin
    <3> SUFFICES ASSUME NEW i \in 1 .. N - n, NEW j \in 1 .. N - n, i < j
                 PROVE  EndOfSeg(b[i]) <= b[j].seqno /\ ~b[i].fin
      OBVIOUS
    <3>1. PICK m \in 1 .. N, l \in 1 .. N : m = n + i /\ l = n + j /\ m < l
      BY <1>1, <2>1
    <3>2. EndOfSeg(queue[m]) <= queue[l].seqno /\ ~queue[m].fin
      BY <1>1, <3>1, QueuedBefore
    <3> QED
      BY <1>5, <3>1, <3>2
  <2> QED
    BY <1>5, <2>2, <2>3 DEF InOrder, Between
<1> QED
  BY <1>1, <1>4, <1>5, <1>6, <1>7 DEF Queue

\* All of a queue is within its first and last number.
LEMMA QueueFrom ==
  ASSUME NEW queue, NEW from \in Nat, NEW to \in Nat, NEW eof \in Nat, Queue(queue, from, to, eof)
  PROVE  queue # <<>> => /\ Len(queue) \in Nat /\ Len(queue) > 0 /\ queue[1].seqno \in Nat
                         /\ from <= queue[1].seqno
                         /\ Queue(queue, queue[1].seqno, to, eof)
<1> SUFFICES ASSUME queue # <<>>
             PROVE  /\ Len(queue) \in Nat /\ Len(queue) > 0 /\ queue[1].seqno \in Nat
                    /\ from <= queue[1].seqno
                    /\ Queue(queue, queue[1].seqno, to, eof)
  OBVIOUS
<1>1. queue \in Seq(Segments)
  BY DEF Queue
<1>2. PICK N \in Nat : N = Len(queue) /\ N > 0
  <2>1. Len(queue) \in Nat /\ Len(queue) # 0
    BY <1>1, LenProperties, EmptySeq
  <2> QED
    BY <2>1
<1>3. 1 \in 1 .. N
  BY <1>2
<1>4. PICK s : s = queue[1]
  OBVIOUS
<1>5. OfStream(s, eof) /\ from <= s.seqno
  BY <1>2, <1>3, <1>4, InQueue
<1>6. PICK a \in Nat, e \in Nat : a = s.seqno /\ e = EndOfSeg(s) /\ a < e
  BY <1>5, SegmentOf
<1>7. ASSUME NEW i \in 1 .. N
      PROVE  OfStream(queue[i], eof) /\ a <= queue[i].seqno /\ EndOfSeg(queue[i]) <= to
  <2>1. OfStream(queue[i], eof) /\ EndOfSeg(queue[i]) <= to
    BY <1>2, InQueue
  <2>2. PICK b \in Nat : b = queue[i].seqno
    BY <2>1, SegmentOf
  <2>3. a <= b
    <3>1. CASE i = 1
      BY <1>4, <1>6, <2>2, <3>1
    <3>2. CASE i # 1
      <4>1. 1 < i
        BY <3>2
      <4>2. EndOfSeg(queue[1]) <= queue[i].seqno
        BY <1>2, <1>3, <4>1, QueuedBefore
      <4>3. e <= b
        BY <1>4, <1>6, <2>2, <4>2
      <4> QED
        BY <1>6, <4>3
    <3> QED
      BY <3>1, <3>2
  <2> QED
    BY <2>1, <2>2, <2>3
<1>8. Queue(queue, a, to, eof)
  BY <1>2, <1>7 DEF Queue, Between
<1> QED
  BY <1>2, <1>4, <1>5, <1>6, <1>8

\* A queue behind another is one with it: what is before a segment has no FIN.
LEMMA QueueJoin ==
  ASSUME NEW a, NEW b, NEW from \in Nat, NEW middle \in Nat, NEW to \in Nat, NEW eof \in Nat,
         from <= middle, middle <= to,
         Queue(a, from, middle, eof), Queue(b, middle, to, eof)
  PROVE  Queue(a \o b, from, to, eof)
<1>1. PICK n \in Nat, m \in Nat : n = Len(a) /\ m = Len(b) /\ a \in Seq(Segments) /\ b \in Seq(Segments)
  <2>1. a \in Seq(Segments) /\ b \in Seq(Segments)
    BY DEF Queue
  <2> QED
    BY <2>1, LenProperties
<1>2. PICK q \in Seq(Segments) :
        /\ q = a \o b /\ Len(q) = n + m
        /\ \A i \in 1 .. n + m : q[i] = IF i <= n THEN a[i] ELSE b[i - n]
  <2>1. a \in Seq(Segments) /\ b \in Seq(Segments)
    BY <1>1
  <2>2. /\ a \o b \in Seq(Segments) /\ Len(a \o b) = Len(a) + Len(b)
        /\ \A i \in 1 .. Len(a) + Len(b) : (a \o b)[i] = IF i <= Len(a) THEN a[i] ELSE b[i - Len(a)]
    BY <2>1, ConcatProperties
  <2> QED
    BY <1>1, <2>2
<1>3. ASSUME NEW i \in 1 .. n + m
      PROVE  OfStream(q[i], eof) /\ from <= q[i].seqno /\ EndOfSeg(q[i]) <= to
  <2>1. CASE i <= n
    <3>1. i \in 1 .. n /\ q[i] = a[i]
      BY <1>2, <2>1
    <3>2. OfStream(a[i], eof) /\ from <= a[i].seqno /\ EndOfSeg(a[i]) <= middle
      BY <1>1, <3>1, InQueue
    <3>3. PICK e \in Nat : e = EndOfSeg(a[i])
      BY <3>2, SegmentOf
    <3>4. e <= to
      BY <3>2, <3>3
    <3> QED
      BY <3>1, <3>2, <3>3, <3>4
  <2>2. CASE ~(i <= n)
    <3>1. PICK k \in 1 .. m : k = i - n /\ q[i] = b[k]
      BY <1>2, <2>2
    <3>2. OfStream(b[k], eof) /\ middle <= b[k].seqno /\ EndOfSeg(b[k]) <= to
      BY <1>1, InQueue
    <3>3. PICK e \in Nat : e = b[k].seqno
      BY <3>2, SegmentOf
    <3>4. from <= e
      BY <3>2, <3>3
    <3> QED
      BY <3>1, <3>2, <3>3, <3>4
  <2> QED
    BY <2>1, <2>2
<1>4. ASSUME NEW i \in 1 .. n + m, NEW j \in 1 .. n + m, i < j
      PROVE  EndOfSeg(q[i]) <= q[j].seqno /\ ~q[i].fin
  <2>1. CASE j <= n
    <3>1. i \in 1 .. n /\ j \in 1 .. n /\ i <= n
      BY <1>4, <2>1
    <3>2. EndOfSeg(a[i]) <= a[j].seqno /\ ~a[i].fin
      BY <1>1, <1>4, <3>1, QueuedBefore
    <3> QED
      BY <1>2, <2>1, <3>1, <3>2
  <2>2. CASE i <= n /\ ~(j <= n)
    <3>1. PICK k \in 1 .. m : k = j - n /\ q[j] = b[k]
      <4>1. j - n \in 1 .. m
        BY <2>2
      <4> QED
        BY <1>2, <2>2, <4>1
    <3>2. i \in 1 .. n /\ q[i] = a[i]
      BY <1>2, <2>2
    <3>3. OfStream(a[i], eof) /\ EndOfSeg(a[i]) <= middle
      BY <1>1, <3>2, InQueue
    <3>4. OfStream(b[k], eof) /\ middle <= b[k].seqno
      BY <1>1, InQueue
    <3>5. PICK e \in Nat, f \in Nat : e = EndOfSeg(a[i]) /\ f = b[k].seqno
      BY <3>3, <3>4, SegmentOf
    <3>6. e <= f
      BY <3>3, <3>4, <3>5
    <3>7. ~a[i].fin
      <4>1. f <= EndOfData(b[k]) /\ EndOfData(b[k]) <= eof /\ EndOfData(b[k]) \in Nat
        BY <3>4, <3>5, SegmentOf
      <4>2. ~(e = eof + 1)
        BY <3>6, <4>1
      <4>3. a[i].fin => e = eof + 1
        BY <3>3, <3>5, SegmentOf
      <4> QED
        BY <4>2, <4>3
    <3> QED
      BY <3>1, <3>2, <3>5, <3>6, <3>7
  <2>3. CASE ~(i <= n)
    <3>1. PICK k \in 1 .. m, l \in 1 .. m : k = i - n /\ l = j - n /\ q[i] = b[k] /\ q[j] = b[l]
      <4>1. i - n \in 1 .. m /\ j - n \in 1 .. m /\ ~(j <= n)
        BY <1>4, <2>3
      <4> QED
        BY <1>2, <2>3, <4>1
    <3>2. k < l
      BY <1>4, <3>1
    <3>3. EndOfSeg(b[k]) <= b[l].seqno /\ ~b[k].fin
      BY <1>1, <3>2, QueuedBefore
    <3> QED
      BY <3>1, <3>3
  <2> QED
    BY <2>1, <2>2, <2>3
<1>5. InOrder(q) /\ Between(q, from, to, eof)
  BY <1>2, <1>3, <1>4 DEF InOrder, Between
<1> QED
  BY <1>2, <1>5 DEF Queue

\* A queue that begins later also begins here.
LEMMA QueueEarlier ==
  ASSUME NEW queue, NEW from \in Nat, NEW later \in Nat, NEW to, NEW eof \in Nat,
         from <= later, Queue(queue, later, to, eof)
  PROVE  Queue(queue, from, to, eof)
<1>1. ASSUME NEW i \in 1 .. Len(queue)
      PROVE  OfStream(queue[i], eof) /\ from <= queue[i].seqno /\ EndOfSeg(queue[i]) <= to
  <2>1. OfStream(queue[i], eof) /\ later <= queue[i].seqno /\ EndOfSeg(queue[i]) <= to
    BY InQueue
  <2>2. PICK b \in Nat : b = queue[i].seqno
    BY <2>1, SegmentOf
  <2>3. from <= b
    BY <2>1, <2>2
  <2> QED
    BY <2>1, <2>2, <2>3
<1> QED
  BY <1>1 DEF Queue, Between

\* One segment before a queue.
LEMMA OneBefore ==
  ASSUME NEW s, NEW queue, NEW from \in Nat, NEW to \in Nat, NEW eof \in Nat,
         Queue(queue, from, to, eof), OfStream(s, eof), EndOfSeg(s) <= to,
         queue # <<>> => EndOfSeg(s) <= queue[1].seqno
  PROVE  /\ Queue(<<s>> \o queue, s.seqno, to, eof)
         /\ Len(<<s>> \o queue) > 0 /\ (<<s>> \o queue)[1] = s
<1>1. PICK a \in Nat, e \in Nat : a = s.seqno /\ e = EndOfSeg(s) /\ a < e
  BY SegmentOf
<1>2. PICK middle \in Nat : /\ middle <= to /\ e <= middle /\ Queue(queue, middle, to, eof)
  <2>1. CASE queue = <<>>
    <3>1. \A i \in 1 .. Len(queue) : FALSE
      BY <2>1, EmptySeq
    <3>2. Queue(queue, to, to, eof)
      <4>1. queue \in Seq(Segments)
        BY DEF Queue
      <4> QED
        BY <3>1, <4>1 DEF Queue, InOrder, Between
    <3> QED
      BY <1>1, <3>2
  <2>2. CASE queue # <<>>
    <3>1. PICK b \in Nat : b = queue[1].seqno /\ Queue(queue, b, to, eof) /\ 1 \in 1 .. Len(queue)
      BY <2>2, QueueFrom
    <3>2. OfStream(queue[1], eof) /\ EndOfSeg(queue[1]) <= to
      BY <3>1, InQueue
    <3>3. PICK f \in Nat : f = EndOfSeg(queue[1]) /\ b < f
      BY <3>1, <3>2, SegmentOf
    <3>4. b <= to /\ e <= b
      BY <1>1, <2>2, <3>1, <3>2, <3>3
    <3> QED
      BY <3>1, <3>4
  <2> QED
    BY <2>1, <2>2
<1>3. PICK one : one = <<s>> /\ Queue(one, a, middle, eof) /\ Len(one) = 1 /\ one[1] = s
  <2>1. EndOfSeg(s) <= middle /\ a <= s.seqno
    BY <1>1, <1>2
  <2> QED
    BY <2>1, OneQueued
<1>4. Queue(one \o queue, a, to, eof)
  <2>1. a <= middle
    BY <1>1, <1>2
  <2> QED
    BY <1>2, <1>3, <2>1, QueueJoin
<1>5. Len(one \o queue) > 0 /\ (one \o queue)[1] = s
  <2>1. one \in Seq(Segments) /\ queue \in Seq(Segments)
    BY <1>3 DEF Queue
  <2>2. PICK m \in Nat : m = Len(queue)
    BY <2>1, LenProperties
  <2>3. /\ Len(one \o queue) = 1 + m
        /\ \A i \in 1 .. 1 + m : (one \o queue)[i] = IF i <= 1 THEN one[i] ELSE queue[i - 1]
    BY <1>3, <2>1, <2>2, ConcatProperties
  <2>4. 1 \in 1 .. 1 + m
    OBVIOUS
  <2> QED
    BY <1>3, <2>3, <2>4
<1> QED
  BY <1>1, <1>3, <1>4, <1>5

\* A segment cut short, where it had data.
LEMMA ShortenedIs ==
  ASSUME NEW s, NEW eof \in Nat, OfStream(s, eof), ~s.fin,
         NEW to \in Nat, s.seqno < to, to < EndOfData(s)
  PROVE  /\ OfStream(Shortened(s, to), eof) /\ ~Shortened(s, to).fin
         /\ Shortened(s, to).seqno = s.seqno /\ EndOfSeg(Shortened(s, to)) = to
<1>1. s \in Segments /\ \A i \in 1 .. Len(s.data) : s.data[i] = s.seqno + i - 1
  BY DEF OfStream
<1>2. PICK a \in Nat, d \in Seq(Nat), n \in Nat :
        a = s.seqno /\ d = s.data /\ n = Len(d) /\ EndOfData(s) = a + n /\ a > 0
  BY <1>1, SegmentEnds, SegmentOf
<1>3. PICK l \in Nat : l = to - a /\ l > 0 /\ l <= n
  <2>1. to - a \in Nat /\ to - a > 0 /\ to - a <= n
    BY <1>2
  <2> QED
    BY <2>1
<1>4. PICK c \in Seq(Nat) : c = SubSeq(d, 1, l) /\ Len(c) = l /\ \A i \in 1 .. l : c[i] = d[i]
  <2>1. 1 \in Int /\ l \in Int /\ \A i \in 1 .. l : d[i] \in Nat
    <3>1. \A i \in 1 .. n : d[i] \in Nat
      BY <1>2, ElementOfSeq
    <3>2. \A i \in 1 .. l : i \in 1 .. n
      BY <1>3
    <3> QED
      BY <3>1, <3>2
  <2>2. /\ SubSeq(d, 1, l) \in Seq(Nat) /\ Len(SubSeq(d, 1, l)) = IF 1 <= l THEN l - 1 + 1 ELSE 0
        /\ \A i \in 1 .. l - 1 + 1 : SubSeq(d, 1, l)[i] = d[1 + i - 1]
    BY <2>1, SubSeqProperties
  <2>3. l - 1 + 1 = l /\ 1 <= l /\ \A i \in 1 .. l : 1 + i - 1 = i
    BY <1>3
  <2> QED
    BY <2>2, <2>3
<1>5. PICK r \in Segments : r = Shortened(s, to) /\ r.seqno = a /\ r.data = c /\ r.fin = s.fin
  <2>1. Shortened(s, to) = [s EXCEPT !.data = c]
    BY <1>2, <1>3, <1>4 DEF Shortened
  <2>2. [s EXCEPT !.data = c] \in Segments
    BY <1>1, <1>4 DEF Segments
  <2>3. /\ [s EXCEPT !.data = c].seqno = a /\ [s EXCEPT !.data = c].data = c
        /\ [s EXCEPT !.data = c].fin = s.fin
    BY <1>1, <1>2 DEF Segments
  <2> QED
    BY <2>1, <2>2, <2>3
<1>6. ~r.fin
  BY <1>5
<1>7. EndOfData(r) = a + l /\ TCP_TCPLEN(r) = l /\ EndOfSeg(r) = a + l
  <2>1. TCP_TCPLEN(r) = Len(r.data) /\ EndOfSeg(r) = EndOfData(r) /\ EndOfData(r) = r.seqno + Len(r.data)
    BY <1>6, SegmentEnds
  <2> QED
    BY <1>4, <1>5, <2>1
<1>8. a + l = to /\ a + l <= eof
  <2>1. EndOfData(s) <= eof
    BY DEF OfStream
  <2> QED
    BY SMTT(30), <1>2, <1>3, <2>1
<1>9. \A i \in 1 .. Len(r.data) : r.data[i] = r.seqno + i - 1
  <2>1. \A i \in 1 .. l : i \in 1 .. n
    BY <1>3
  <2> QED
    BY <1>1, <1>2, <1>4, <1>5, <2>1
<1>10. OfStream(r, eof)
  BY <1>2, <1>3, <1>5, <1>6, <1>7, <1>8, <1>9 DEF OfStream
<1> QED
  BY <1>2, <1>5, <1>6, <1>7, <1>8, <1>10

\* What Covered counts.
LEMMA CoveredIs ==
  ASSUME NEW queue, NEW from \in Nat, NEW to \in Nat, NEW eof \in Nat, Queue(queue, from, to, eof),
         NEW s, OfStream(s, eof)
  PROVE  \E n \in 0 .. Len(queue) :
           /\ n = Covered(s, queue)
           /\ \A i \in 1 .. n : EndOfData(queue[i]) <= EndOfData(s)
           /\ n < Len(queue) => EndOfData(s) < EndOfData(queue[n + 1])
<1>1. PICK N \in Nat : N = Len(queue) /\ DOMAIN queue = 1 .. N
  <2>1. queue \in Seq(Segments)
    BY DEF Queue
  <2> QED
    BY <2>1, LenProperties
<1>2. PICK P : P = {i \in 1 .. N : \A j \in 1 .. i : EndOfData(queue[j]) <= EndOfData(s)}
  OBVIOUS
<1>3. P \in SUBSET (1 .. N) /\ \A i \in P : \A j \in 1 .. i : j \in P
  <2>1. P \subseteq 1 .. N
    BY <1>2
  <2>2. ASSUME NEW i \in P, NEW j \in 1 .. i
        PROVE  j \in P
    <3>1. i \in 1 .. N /\ \A k \in 1 .. i : EndOfData(queue[k]) <= EndOfData(s)
      BY <1>2
    <3>2. j \in 1 .. N /\ \A k \in 1 .. j : k \in 1 .. i
      BY <3>1
    <3> QED
      BY <1>2, <3>1, <3>2
  <2> QED
    BY <2>1, <2>2
<1>4. PICK n \in 0 .. N : n = Cardinality(P) /\ P = 1 .. n
  BY <1>3, FirstOnes
<1>5. n = Covered(s, queue)
  BY <1>1, <1>2, <1>4 DEF Covered
<1>6. ASSUME NEW i \in 1 .. n
      PROVE  EndOfData(queue[i]) <= EndOfData(s)
  <2>1. i \in P
    BY <1>4
  <2>2. i \in 1 .. i
    OBVIOUS
  <2> QED
    BY <1>2, <2>1, <2>2
<1>7. ASSUME n < N
      PROVE  EndOfData(s) < EndOfData(queue[n + 1])
  <2>1. n + 1 \in 1 .. N /\ n + 1 \notin 1 .. n
    BY <1>7
  <2>2. PICK j \in 1 .. n + 1 : ~(EndOfData(queue[j]) <= EndOfData(s))
    BY <1>2, <1>4, <2>1
  <2>3. j = n + 1
    <3>1. j \notin 1 .. n
      BY <1>6, <2>2
    <3> QED
      BY <3>1
  <2>4. EndOfData(s) \in Nat /\ EndOfData(queue[j]) \in Nat
    <3>1. OfStream(queue[j], eof)
      BY <1>1, <2>1, <2>3, InQueue
    <3> QED
      BY <3>1, SegmentOf
  <2> QED
    BY <2>2, <2>3, <2>4
<1> QED
  BY <1>1, <1>5, <1>6, <1>7

\* A segment that takes over a FIN, when its data ends where the stream does.
LEMMA WithFin ==
  ASSUME NEW s, NEW eof \in Nat, OfStream(s, eof), ~s.fin,
         NEW fin \in BOOLEAN, fin => EndOfData(s) = eof
  PROVE  /\ OfStream([s EXCEPT !.fin = fin], eof)
         /\ [s EXCEPT !.fin = fin].seqno = s.seqno /\ [s EXCEPT !.fin = fin].fin = fin
         /\ EndOfData([s EXCEPT !.fin = fin]) = EndOfData(s)
<1>1. s \in Segments /\ \A i \in 1 .. Len(s.data) : s.data[i] = s.seqno + i - 1
  BY DEF OfStream
<1>2. PICK w \in Segments : /\ w = [s EXCEPT !.fin = fin] /\ w.seqno = s.seqno /\ w.data = s.data
                            /\ w.fin = fin
  <2>1. [s EXCEPT !.fin = fin] \in Segments
    BY <1>1 DEF Segments
  <2>2. /\ [s EXCEPT !.fin = fin].seqno = s.seqno /\ [s EXCEPT !.fin = fin].data = s.data
        /\ [s EXCEPT !.fin = fin].fin = fin
    BY <1>1 DEF Segments
  <2> QED
    BY <2>1, <2>2
<1>3. EndOfData(w) = EndOfData(s)
  BY <1>2 DEF EndOfData
<1>4. PICK d \in Nat, n \in Nat : n = Len(s.data) /\ d = EndOfData(s) /\ TCP_TCPLEN(s) = n
  BY <1>1, SegmentEnds
<1>5. n > 0 /\ d <= eof /\ s.seqno > 0
  BY <1>4 DEF OfStream
<1>6. TCP_TCPLEN(w) > 0
  <2>1. (w.fin => TCP_TCPLEN(w) = n + 1) /\ (~w.fin => TCP_TCPLEN(w) = n)
    BY <1>2, <1>4, SegmentEnds
  <2>2. TCP_TCPLEN(w) = n + 1 \/ TCP_TCPLEN(w) = n
    BY <2>1
  <2> QED
    BY <1>5, <2>2
<1>7. w.fin => EndOfData(w) = eof
  BY <1>2, <1>3
<1>8. OfStream(w, eof)
  BY <1>1, <1>2, <1>3, <1>4, <1>5, <1>6, <1>7 DEF OfStream
<1> QED
  BY <1>2, <1>3, <1>8

\* The segment s has more data than one with its number at the head of queue.
Longer(s, queue) ==
  queue # <<>> /\ queue[1].seqno = s.seqno => EndOfData(queue[1]) < EndOfData(s)

\* tcp_oos_insert_segment: the result is a queue again, and begins with the segment.
LEMMA BeforeQueueIs ==
  ASSUME NEW queue, NEW from \in Nat, NEW to \in Nat, NEW eof \in Nat, Queue(queue, from, to, eof),
         NEW s, OfStream(s, eof), s.seqno <= from, EndOfSeg(s) <= to, Longer(s, queue)
  PROVE  /\ Queue(BeforeQueue(s, queue), s.seqno, to, eof)
         /\ Len(BeforeQueue(s, queue)) > 0 /\ BeforeQueue(s, queue)[1].seqno = s.seqno
<1>1. PICK n \in 0 .. Len(queue) :
        /\ n = Covered(s, queue)
        /\ \A i \in 1 .. n : EndOfData(queue[i]) <= EndOfData(s)
        /\ n < Len(queue) => EndOfData(s) < EndOfData(queue[n + 1])
  BY CoveredIs
<1>2. PICK N \in Nat : N = Len(queue) /\ n \in 0 .. N
  <2>1. queue \in Seq(Segments)
    BY DEF Queue
  <2> QED
    BY <2>1, LenProperties
<1>3. PICK rest :
        /\ rest = SubSeq(queue, n + 1, Len(queue)) /\ Queue(rest, from, to, eof)
        /\ Len(rest) = N - n /\ \A i \in 1 .. N - n : rest[i] = queue[n + i]
  <2>1. PICK head, rest : Parts(queue, n, head, rest)
    BY DEF Parts
  <2>2. /\ Queue(rest, from, to, eof) /\ Len(rest) = Len(queue) - n
        /\ \A i \in 1 .. Len(queue) - n : rest[i] = queue[n + i]
    BY <2>1, QueueParts
  <2> QED
    BY <1>2, <2>1, <2>2 DEF Parts
<1>4. PICK a \in Nat, d \in Nat, e \in Nat : a = s.seqno /\ d = EndOfData(s) /\ e = EndOfSeg(s)
  BY SegmentOf
<1>5. s.fin \in BOOLEAN /\ s \in Segments /\ d <= eof
  BY <1>4, SegmentOf
<1>6. rest # <<>> => n < N /\ n + 1 \in 1 .. N /\ rest[1] = queue[n + 1]
  <2>1. rest # <<>> => Len(rest) > 0
    BY <1>3, QueueFrom
  <2>2. N - n > 0 => 1 \in 1 .. N - n /\ n < N /\ n + 1 \in 1 .. N
    BY <1>2
  <2> QED
    BY <1>3, <2>1, <2>2
<1>7. CASE s.fin
  <2>1. BeforeQueue(s, queue) = <<s>>
    BY <1>7 DEF BeforeQueue
  <2>2. Queue(<<s>>, a, to, eof) /\ Len(<<s>>) = 1 /\ <<s>>[1] = s
    <3>1. a <= s.seqno
      BY <1>4
    <3> QED
      BY <3>1, OneQueued
  <2> QED
    BY <1>4, <2>1, <2>2
<1>8. CASE ~s.fin
  <2>1. PICK fin \in BOOLEAN : fin = (s.fin \/ \E i \in 1 .. n : queue[i].fin)
    <3>1. (s.fin \/ \E i \in 1 .. n : queue[i].fin) \in BOOLEAN
      OBVIOUS
    <3> QED
      BY <3>1
  <2>2. ASSUME fin
        PROVE  d = eof /\ rest = <<>> /\ eof + 1 <= to
    <3>1. PICK i \in 1 .. n : queue[i].fin
      BY <1>8, <2>1, <2>2
    <3>2. i \in 1 .. N
      BY <1>2
    <3>3. OfStream(queue[i], eof) /\ EndOfSeg(queue[i]) <= to
      BY <1>2, <3>2, InQueue
    <3>4. EndOfData(queue[i]) = eof /\ EndOfSeg(queue[i]) = eof + 1
      BY <3>1, <3>3, SegmentOf
    <3>5. eof <= d
      BY <1>1, <1>4, <3>4
    <3>6. rest = <<>>
      <4>1. SUFFICES ASSUME rest # <<>>
                     PROVE  FALSE
        OBVIOUS
      <4>2. n + 1 \in 1 .. N /\ i < n + 1
        BY <1>6, <4>1
      <4>3. ~queue[i].fin
        BY <1>2, <3>2, <4>2, QueuedBefore
      <4> QED
        BY <3>1, <4>3
    <3> QED
      BY <1>5, <3>3, <3>4, <3>5, <3>6
  <2>3. PICK w :
          /\ w = [s EXCEPT !.fin = @ \/ \E i \in 1 .. n : queue[i].fin]
          /\ OfStream(w, eof) /\ w.seqno = a /\ w.fin = fin /\ EndOfData(w) = d
    <3>1. PICK w : w = [s EXCEPT !.fin = fin]
      OBVIOUS
    <3>2. w = [s EXCEPT !.fin = @ \/ \E i \in 1 .. n : queue[i].fin]
      BY <2>1, <3>1
    <3>3. fin => EndOfData(s) = eof
      BY <1>4, <2>2
    <3>4. OfStream(w, eof) /\ w.seqno = s.seqno /\ w.fin = fin /\ EndOfData(w) = EndOfData(s)
      BY <1>8, <3>1, <3>3, WithFin
    <3> QED
      BY <1>4, <3>2, <3>4
  <2>4. CASE rest # <<>> /\ d > rest[1].seqno
    <3>1. BeforeQueue(s, queue) = <<Shortened(w, rest[1].seqno)>> \o rest
      BY <1>1, <1>3, <1>4, <1>8, <2>3, <2>4 DEF BeforeQueue
    <3>2. PICK t \in Nat : t = rest[1].seqno /\ from <= t /\ Queue(rest, t, to, eof)
      BY <1>3, <2>4, QueueFrom
    <3>3. ~w.fin
      BY <2>2, <2>3, <2>4
    <3>4. a < t
      <4>1. CASE n = 0
        <5>1. rest[1] = queue[1] /\ queue # <<>>
          <6>1. N > 0 /\ n + 1 = 1
            BY <1>6, <2>4, <4>1
          <6>2. queue # <<>>
            BY <1>2, <6>1, EmptySeq
          <6> QED
            BY <1>6, <2>4, <6>1, <6>2
        <5>2. d < EndOfData(queue[1])
          BY <1>1, <1>2, <1>4, <1>6, <2>4, <4>1
        <5>3. EndOfData(queue[1]) \in Nat
          <6>1. 1 \in 1 .. N
            BY <1>6, <2>4, <4>1
          <6>2. OfStream(queue[1], eof)
            BY <1>2, <6>1, InQueue
          <6> QED
            BY <6>2, SegmentOf
        <5>4. t # a
          <6>1. queue[1].seqno = s.seqno => EndOfData(queue[1]) < d
            BY <1>4, <5>1 DEF Longer
          <6> QED
            BY <1>4, <3>2, <5>1, <5>2, <5>3, <6>1
        <5> QED
          BY <1>4, <3>2, <5>4
      <4>2. CASE n # 0
        <5>1. 1 \in 1 .. N /\ n + 1 \in 1 .. N /\ 1 < n + 1
          BY <1>2, <1>6, <2>4, <4>2
        <5>2. OfStream(queue[1], eof) /\ from <= queue[1].seqno
          BY <1>2, <5>1, InQueue
        <5>3. EndOfSeg(queue[1]) <= queue[n + 1].seqno
          BY <1>2, <5>1, QueuedBefore
        <5>4. PICK b \in Nat, f \in Nat : b = queue[1].seqno /\ f = EndOfSeg(queue[1]) /\ b < f
          BY <5>2, SegmentOf
        <5>5. a <= b
          BY <1>4, <5>2, <5>4
        <5>6. f <= t
          <6>1. t = queue[n + 1].seqno
            BY <1>6, <2>4, <3>2
          <6> QED
            BY <5>3, <5>4, <6>1
        <5> QED
          BY <5>4, <5>5, <5>6
      <4> QED
        BY <4>1, <4>2
    <3>5. PICK x : /\ x = Shortened(w, t) /\ OfStream(x, eof) /\ x.seqno = a /\ EndOfSeg(x) = t
      <4>1. w.seqno < t /\ t < EndOfData(w) /\ OfStream(w, eof)
        BY <2>3, <2>4, <3>2, <3>4
      <4>2. PICK x : x = Shortened(w, t)
        OBVIOUS
      <4>3. OfStream(x, eof) /\ x.seqno = w.seqno /\ EndOfSeg(x) = t
        BY <3>3, <4>1, <4>2, ShortenedIs
      <4> QED
        BY <2>3, <4>2, <4>3
    <3>6. t <= to
      <4>1. 1 \in 1 .. Len(rest)
        BY <1>3, <2>4, QueueFrom
      <4>2. OfStream(rest[1], eof) /\ EndOfSeg(rest[1]) <= to
        BY <1>3, <4>1, InQueue
      <4>3. rest[1].seqno < EndOfSeg(rest[1]) /\ EndOfSeg(rest[1]) \in Nat
        BY <4>2, SegmentOf
      <4> QED
        BY <3>2, <4>2, <4>3
    <3>7. EndOfSeg(x) <= to /\ EndOfSeg(x) <= rest[1].seqno
      BY <3>2, <3>5, <3>6
    <3>8. /\ Queue(<<x>> \o rest, x.seqno, to, eof)
          /\ Len(<<x>> \o rest) > 0 /\ (<<x>> \o rest)[1] = x
      BY <1>3, <3>5, <3>7, OneBefore
    <3> QED
      BY <1>4, <3>1, <3>2, <3>5, <3>8
  <2>5. CASE ~(rest # <<>> /\ d > rest[1].seqno)
    <3>1. BeforeQueue(s, queue) = <<w>> \o rest
      BY <1>1, <1>3, <1>4, <1>8, <2>3, <2>5 DEF BeforeQueue
    <3>2. PICK f \in Nat : f = EndOfSeg(w)
      BY <2>3, SegmentOf
    <3>3. f <= to /\ (rest # <<>> => f <= rest[1].seqno)
      <4>1. CASE fin
        <5>1. f = eof + 1
          BY <2>3, <3>2, <4>1, SegmentOf
        <5> QED
          BY <2>2, <4>1, <5>1
      <4>2. CASE ~fin
        <5>1. f = d
          BY <2>3, <3>2, <4>2, SegmentOf
        <5>2. e = d
          BY <1>4, <1>8, SegmentOf
        <5>3. rest # <<>> => rest[1].seqno \in Nat
          BY <1>3, QueueFrom
        <5> QED
          BY <1>4, <2>5, <5>1, <5>2, <5>3
      <4> QED
        BY <4>1, <4>2
    <3>4. /\ Queue(<<w>> \o rest, w.seqno, to, eof)
          /\ Len(<<w>> \o rest) > 0 /\ (<<w>> \o rest)[1] = w
      BY <1>3, <2>3, <3>2, <3>3, OneBefore
    <3> QED
      BY <1>4, <2>3, <3>1, <3>4
  <2> QED
    BY <2>4, <2>5
<1> QED
  BY <1>5, <1>7, <1>8

\* The place of a segment in a queue: those before it begin before it does.
LEMMA PlaceInQueue ==
  ASSUME NEW queue, NEW from \in Nat, NEW to \in Nat, NEW eof \in Nat, Queue(queue, from, to, eof),
         NEW seqno \in Nat
  PROVE  \E n \in 0 .. Len(queue) :
           /\ n = Cardinality({i \in DOMAIN queue : queue[i].seqno < seqno})
           /\ \A i \in 1 .. n : queue[i].seqno < seqno
           /\ \A i \in 1 .. Len(queue) : i > n => seqno <= queue[i].seqno
<1>1. PICK N \in Nat : N = Len(queue) /\ DOMAIN queue = 1 .. N
  <2>1. queue \in Seq(Segments)
    BY DEF Queue
  <2> QED
    BY <2>1, LenProperties
<1>2. PICK P : P = {i \in 1 .. N : queue[i].seqno < seqno}
  OBVIOUS
<1>3. \A i \in 1 .. N : /\ queue[i].seqno \in Nat /\ EndOfSeg(queue[i]) \in Nat
                        /\ queue[i].seqno < EndOfSeg(queue[i])
  <2> TAKE i \in 1 .. N
  <2>1. OfStream(queue[i], eof)
    BY <1>1, InQueue
  <2> QED
    BY <2>1, SegmentOf
<1>4. P \in SUBSET (1 .. N) /\ \A i \in P : \A j \in 1 .. i : j \in P
  <2>1. P \subseteq 1 .. N
    BY <1>2
  <2>2. ASSUME NEW i \in P, NEW j \in 1 .. i
        PROVE  j \in P
    <3>1. i \in 1 .. N /\ queue[i].seqno < seqno
      BY <1>2
    <3>2. j \in 1 .. N
      BY <3>1
    <3>3. CASE j = i
      BY <3>3
    <3>4. CASE j # i
      <4>1. j < i
        BY <3>1, <3>4
      <4>2. EndOfSeg(queue[j]) <= queue[i].seqno
        BY <1>1, <3>1, <3>2, <4>1, QueuedBefore
      <4>3. PICK a \in Nat, b \in Nat, e \in Nat :
              a = queue[j].seqno /\ b = queue[i].seqno /\ e = EndOfSeg(queue[j]) /\ a < e
        BY <1>3, <3>1, <3>2
      <4>4. a < seqno
        BY <3>1, <4>2, <4>3
      <4> QED
        BY <1>2, <3>2, <4>3, <4>4
    <3> QED
      BY <3>3, <3>4
  <2> QED
    BY <2>1, <2>2
<1>5. PICK n \in 0 .. N : n = Cardinality(P) /\ P = 1 .. n
  BY <1>4, FirstOnes
<1>6. n = Cardinality({i \in DOMAIN queue : queue[i].seqno < seqno})
  BY <1>1, <1>2, <1>5
<1>7. ASSUME NEW i \in 1 .. n
      PROVE  queue[i].seqno < seqno
  <2>1. i \in P
    BY <1>5
  <2> QED
    BY <1>2, <2>1
<1>8. ASSUME NEW i \in 1 .. N, i > n
      PROVE  seqno <= queue[i].seqno
  <2>1. i \notin P
    <3>1. i \notin 1 .. n
      BY <1>8
    <3> QED
      BY <1>5, <3>1
  <2>2. ~(queue[i].seqno < seqno)
    BY <1>2, <2>1
  <2> QED
    BY <1>3, <2>2
<1> QED
  BY <1>1, <1>6, <1>7, <1>8

\* The queue stays one when an early segment is put into it.
LEMMA QueuedIs ==
  ASSUME NEW from \in Nat, NEW to \in Nat, NEW eof \in Nat, Queue(ooseq, from, to, eof),
         NEW s, OfStream(s, eof), from <= s.seqno, EndOfSeg(s) <= to
  PROVE  Queue(Queued(s), from, to, eof)
<1>1. PICK a \in Nat, d \in Nat : a = s.seqno /\ d = EndOfData(s) /\ s \in Segments
  BY SegmentOf
<1>2. PICK n \in 0 .. Len(ooseq) :
        /\ n = Cardinality({i \in DOMAIN ooseq : ooseq[i].seqno < a})
        /\ \A i \in 1 .. n : ooseq[i].seqno < a
        /\ \A i \in 1 .. Len(ooseq) : i > n => a <= ooseq[i].seqno
  BY PlaceInQueue
<1>3. PICK N \in Nat : N = Len(ooseq) /\ n \in 0 .. N
  <2>1. ooseq \in Seq(Segments)
    BY DEF Queue
  <2> QED
    BY <2>1, LenProperties
<1>4. PICK head, rest : Parts(ooseq, n, head, rest)
  BY DEF Parts
<1>5. /\ Queue(rest, from, to, eof) /\ Len(rest) = N - n
      /\ \A i \in 1 .. N - n : rest[i] = ooseq[n + i]
  BY <1>3, <1>4, QueueParts
<1>6. PICK previous : previous = ooseq[n]
  OBVIOUS
<1>7. PICK keeps \in BOOLEAN : keeps = (rest # <<>> /\ rest[1].seqno = a)
  OBVIOUS
<1>8. Queued(s) = IF keeps /\ Len(s.data) <= Len(rest[1].data) THEN ooseq
                  ELSE IF n = 0 THEN BeforeQueue(s, rest)
                  ELSE IF rest = <<>> /\ previous.fin THEN ooseq
                  ELSE SubSeq(ooseq, 1, n - 1)
                         \o <<IF EndOfData(previous) > a /\ ~keeps
                              THEN Shortened(previous, a) ELSE previous>>
                         \o BeforeQueue(s, rest)
  BY <1>1, <1>2, <1>4, <1>6, <1>7 DEF Queued, Parts
<1>9. Queue(rest, a, to, eof)
  <2>1. ASSUME NEW i \in 1 .. N - n
        PROVE  OfStream(rest[i], eof) /\ a <= rest[i].seqno /\ EndOfSeg(rest[i]) <= to
    <3>1. n + i \in 1 .. N /\ n + i > n
      BY <1>3
    <3>2. a <= ooseq[n + i].seqno
      BY <1>2, <1>3, <3>1
    <3>3. OfStream(rest[i], eof) /\ EndOfSeg(rest[i]) <= to
      BY <1>5, InQueue
    <3> QED
      BY <1>5, <3>2, <3>3
  <2> QED
    BY <1>5, <2>1 DEF Queue, Between
<1>10. ASSUME ~(keeps /\ Len(s.data) <= Len(rest[1].data))
       PROVE  Queue(BeforeQueue(s, rest), a, to, eof)
  <2>1. ASSUME rest # <<>>, rest[1].seqno = s.seqno
        PROVE  EndOfData(rest[1]) < EndOfData(s)
    <3>1. ~(Len(s.data) <= Len(rest[1].data))
      BY <1>1, <1>7, <1>10, <2>1
    <3>2. 1 \in 1 .. Len(rest)
      BY <1>5, <2>1, QueueFrom
    <3>3. rest[1] \in Segments
      BY <1>5, <3>2, InQueue
    <3>4. PICK l \in Nat, m \in Nat :
            /\ l = Len(s.data) /\ m = Len(rest[1].data)
            /\ EndOfData(s) = a + l /\ EndOfData(rest[1]) = rest[1].seqno + m
      BY <1>1, <3>3, SegmentEnds
    <3>5. m < l
      BY <3>1, <3>4
    <3>6. a + m < a + l
      BY <3>5
    <3>7. rest[1].seqno = a
      BY <1>1, <2>1
    <3> QED
      BY <3>4, <3>6, <3>7
  <2>2. s.seqno <= a /\ Longer(s, rest)
    BY <1>1, <2>1 DEF Longer
  <2>3. Queue(BeforeQueue(s, rest), s.seqno, to, eof)
    BY <1>9, <2>2, BeforeQueueIs
  <2> QED
    BY <1>1, <2>3
<1>11. CASE keeps /\ Len(s.data) <= Len(rest[1].data)
  BY <1>8, <1>11
<1>12. CASE ~(keeps /\ Len(s.data) <= Len(rest[1].data)) /\ n = 0
  <2>1. Queued(s) = BeforeQueue(s, rest)
    BY <1>8, <1>12
  <2>2. from <= a
    BY <1>1
  <2> QED
    BY <1>10, <1>12, <2>1, <2>2, QueueEarlier
<1>13. CASE ~(keeps /\ Len(s.data) <= Len(rest[1].data)) /\ n # 0 /\ rest = <<>> /\ previous.fin
  BY <1>8, <1>13
<1>14. CASE ~(keeps /\ Len(s.data) <= Len(rest[1].data)) /\ n # 0 /\ ~(rest = <<>> /\ previous.fin)
  <2>1. n \in 1 .. N /\ n - 1 \in 0 .. N /\ n - 1 + 1 = n
    BY <1>3, <1>14
  <2>2. OfStream(previous, eof) /\ from <= previous.seqno
    BY <1>3, <1>6, <2>1, InQueue
  <2>3. PICK b \in Nat, f \in Nat, e \in Nat :
          /\ b = previous.seqno /\ f = EndOfData(previous) /\ e = EndOfSeg(previous) /\ b < e
          /\ previous.fin \in BOOLEAN /\ (~previous.fin => e = f)
    BY <2>2, SegmentOf
  <2>4. b < a
    BY SMTT(30), <1>2, <1>6, <2>1, <2>3
  <2>5. rest # <<>> => rest[1].seqno \in Nat /\ e <= rest[1].seqno /\ ~previous.fin
    <3>1. SUFFICES ASSUME rest # <<>>
                   PROVE  rest[1].seqno \in Nat /\ e <= rest[1].seqno /\ ~previous.fin
      OBVIOUS
    <3>2. Len(rest) > 0 /\ rest[1].seqno \in Nat
      BY <1>5, <3>1, QueueFrom
    <3>3. n + 1 \in 1 .. N /\ n < n + 1 /\ 1 \in 1 .. N - n
      BY <1>3, <1>5, <3>2
    <3>4. EndOfSeg(ooseq[n]) <= ooseq[n + 1].seqno /\ ~ooseq[n].fin
      BY <1>3, <2>1, <3>3, QueuedBefore
    <3> QED
      BY <1>5, <1>6, <2>3, <3>2, <3>3, <3>4
  <2>6. ~previous.fin /\ e = f
    BY <1>14, <2>3, <2>5
  <2>7. PICK p : /\ p = IF f > a /\ ~keeps THEN Shortened(previous, a) ELSE previous
                 /\ OfStream(p, eof) /\ p.seqno = b /\ EndOfSeg(p) <= a
    <3>1. CASE f > a /\ ~keeps
      <4>1. previous.seqno < a /\ a < EndOfData(previous)
        BY <2>3, <2>4, <3>1
      <4>2. PICK p : p = Shortened(previous, a)
        OBVIOUS
      <4>3. OfStream(p, eof) /\ p.seqno = previous.seqno /\ EndOfSeg(p) = a
        BY <2>2, <2>6, <4>1, <4>2, ShortenedIs
      <4> QED
        BY <2>3, <3>1, <4>2, <4>3
    <3>2. CASE ~(f > a /\ ~keeps)
      <4>1. EndOfSeg(previous) <= a
        <5>1. CASE keeps
          BY <1>7, <2>3, <2>5, <5>1
        <5>2. CASE ~keeps
          BY <2>3, <2>6, <3>2, <5>2
        <5> QED
          BY <5>1, <5>2
      <4> QED
        BY <2>2, <2>3, <3>2, <4>1
    <3> QED
      BY <3>1, <3>2
  <2>8. PICK first, last : Parts(ooseq, n - 1, first, last)
    BY DEF Parts
  <2>9. Queue(first, from, b, eof)
    <3>1. /\ Queue(first, from, to, eof) /\ Len(first) = n - 1
          /\ \A i \in 1 .. n - 1 : first[i] = ooseq[i]
      <4>1. PICK k \in 0 .. Len(ooseq) : k = n - 1
        BY <1>3, <2>1
      <4>2. Parts(ooseq, k, first, last)
        BY <2>8, <4>1
      <4>3. Queue(first, from, to, eof) /\ Len(first) = k /\ \A i \in 1 .. k : first[i] = ooseq[i]
        BY <4>2, QueueParts
      <4> QED
        BY <4>1, <4>3
    <3>2. ASSUME NEW i \in 1 .. n - 1
          PROVE  OfStream(first[i], eof) /\ from <= first[i].seqno /\ EndOfSeg(first[i]) <= b
      <4>1. OfStream(first[i], eof) /\ from <= first[i].seqno
        BY <3>1, InQueue
      <4>2. i \in 1 .. N /\ i < n
        BY <1>3, <2>1
      <4>3. EndOfSeg(ooseq[i]) <= ooseq[n].seqno
        BY <1>3, <2>1, <4>2, QueuedBefore
      <4> QED
        BY <1>6, <2>3, <3>1, <4>1, <4>3
    <3> QED
      BY <3>1, <3>2 DEF Queue, Between
  <2>10. Queue(<<p>>, b, a, eof)
    <3>1. b <= p.seqno
      BY <2>7
    <3> QED
      BY <2>7, <3>1, OneQueued
  <2>11. from <= b /\ b <= a /\ a <= to
    <3>1. a < EndOfSeg(s) /\ EndOfSeg(s) \in Nat
      BY <1>1, SegmentOf
    <3> QED
      BY <2>2, <2>3, <2>4, <3>1
  <2>12. PICK firsts : firsts = first \o <<p>> /\ Queue(firsts, from, a, eof)
    BY <2>9, <2>10, <2>11, QueueJoin
  <2>13. Queue(firsts \o BeforeQueue(s, rest), from, to, eof)
    <3>1. from <= a
      BY <2>11
    <3>2. Queue(BeforeQueue(s, rest), a, to, eof)
      BY <1>10, <1>14
    <3> QED
      BY <2>11, <2>12, <3>1, <3>2, QueueJoin
  <2>14. Queued(s) = firsts \o BeforeQueue(s, rest)
    <3>1. Queued(s) = SubSeq(ooseq, 1, n - 1)
                         \o <<IF EndOfData(previous) > a /\ ~keeps
                              THEN Shortened(previous, a) ELSE previous>>
                         \o BeforeQueue(s, rest)
      BY <1>8, <1>14
    <3>2. first = SubSeq(ooseq, 1, n - 1)
      BY <2>8 DEF Parts
    <3> QED
      BY <2>3, <2>7, <2>12, <3>1, <3>2
  <2> QED
    BY <2>13, <2>14
<1> QED
  BY <1>11, <1>12, <1>13, <1>14

\* What Contiguous counts.
LEMMA ContiguousIs ==
  ASSUME NEW queue, NEW from \in Nat, NEW to \in Nat, NEW eof \in Nat, Queue(queue, from, to, eof),
         Len(queue) > 0
  PROVE  \E n \in 1 .. Len(queue) :
           /\ n = Contiguous(queue)
           /\ \A j \in 2 .. n : queue[j].seqno = EndOfSeg(queue[j - 1])
           /\ n < Len(queue) => queue[n + 1].seqno # EndOfSeg(queue[n])
<1>1. PICK N \in Nat : N = Len(queue) /\ DOMAIN queue = 1 .. N
  <2>1. queue \in Seq(Segments)
    BY DEF Queue
  <2> QED
    BY <2>1, LenProperties
<1>2. PICK P : P = {i \in 1 .. N : \A j \in 2 .. i : queue[j].seqno = EndOfSeg(queue[j - 1])}
  OBVIOUS
<1>3. P \in SUBSET (1 .. N) /\ \A i \in P : \A j \in 1 .. i : j \in P
  <2>1. P \subseteq 1 .. N
    BY <1>2
  <2>2. ASSUME NEW i \in P, NEW j \in 1 .. i
        PROVE  j \in P
    <3>1. i \in 1 .. N /\ \A k \in 2 .. i : queue[k].seqno = EndOfSeg(queue[k - 1])
      BY <1>2
    <3>2. j \in 1 .. N /\ \A k \in 2 .. j : k \in 2 .. i
      BY <3>1
    <3> QED
      BY <1>2, <3>1, <3>2
  <2> QED
    BY <2>1, <2>2
<1>4. PICK n \in 0 .. N : n = Cardinality(P) /\ P = 1 .. n
  BY <1>3, FirstOnes
<1>5. n = Contiguous(queue)
  BY <1>1, <1>2, <1>4 DEF Contiguous
<1>6. n \in 1 .. N
  <2>1. 1 \in 1 .. N /\ \A j \in 2 .. 1 : FALSE
    BY <1>1
  <2>2. 1 \in P
    BY <1>2, <2>1
  <2>3. 1 \in 1 .. n
    BY <1>4, <2>2
  <2> QED
    BY <2>3
<1>7. n \in P
  <2>1. n \in 1 .. n
    BY <1>6
  <2> QED
    BY <1>4, <2>1
<1>8. \A j \in 2 .. n : queue[j].seqno = EndOfSeg(queue[j - 1])
  BY <1>2, <1>7
<1>9. ASSUME n < N, queue[n + 1].seqno = EndOfSeg(queue[n])
      PROVE  FALSE
  <2>1. PICK m \in 1 .. N : m = n + 1
    BY <1>6, <1>9
  <2>2. m \notin 1 .. n
    BY <2>1
  <2>3. m \notin P
    BY <1>4, <2>2
  <2>4. PICK j \in 2 .. m : queue[j].seqno # EndOfSeg(queue[j - 1])
    BY <1>2, <2>3
  <2>5. CASE j = m
    <3>1. j - 1 = n
      BY <2>1, <2>5
    <3> QED
      BY <1>9, <2>1, <2>4, <2>5, <3>1
  <2>6. CASE j # m
    <3>1. j \in 2 .. n
      BY <2>1, <2>6
    <3> QED
      BY <1>8, <2>4, <3>1
  <2> QED
    BY <2>5, <2>6
<1> QED
  BY <1>1, <1>5, <1>6, <1>8, <1>9

\* The lengths of segments without a gap add up to the numbers they occupy.
LEMMA TotalOfQueue ==
  ASSUME NEW queue, NEW from \in Nat, NEW to \in Nat, NEW eof \in Nat, Queue(queue, from, to, eof),
         NEW n \in 1 .. Len(queue), \A j \in 2 .. n : queue[j].seqno = EndOfSeg(queue[j - 1]),
         NEW len, len = Total([i \in 1 .. n |-> TCP_TCPLEN(queue[i])])
  PROVE  len \in Nat /\ len > 0 /\ queue[1].seqno + len = EndOfSeg(queue[n])
<1>1. PICK N \in Nat : N = Len(queue)
  <2>1. queue \in Seq(Segments)
    BY DEF Queue
  <2> QED
    BY <2>1, LenProperties
<1>2. ASSUME NEW i \in 1 .. N
      PROVE  /\ queue[i].seqno \in Nat /\ EndOfSeg(queue[i]) \in Nat /\ TCP_TCPLEN(queue[i]) \in Nat
             /\ EndOfSeg(queue[i]) = queue[i].seqno + TCP_TCPLEN(queue[i])
             /\ queue[i].seqno < EndOfSeg(queue[i])
  <2>1. queue[i] \in Segments /\ OfStream(queue[i], eof)
    BY <1>1, InQueue
  <2> QED
    BY <2>1, SegmentOf, SegmentEnds
<1>3. PICK first \in Nat : first = queue[1].seqno
  <2>1. 1 \in 1 .. N
    BY <1>1
  <2> QED
    BY <1>2, <2>1
<1>4. n \in Nat /\ n >= 1 /\ n <= N /\ \A i \in 1 .. n : i \in 1 .. N
  BY <1>1
<1>5. PICK lens : lens = [i \in 1 .. n |-> TCP_TCPLEN(queue[i])]
  OBVIOUS
<1>6. \A i \in 1 .. n : lens[i] = TCP_TCPLEN(queue[i]) /\ lens[i] \in Nat
  BY <1>2, <1>4, <1>5
<1>7. lens \in Seq(Nat) /\ Len(lens) = n
  BY <1>4, <1>5, <1>6, IsASeq, LenProperties
<1>8. \A i \in 1 .. n : first < EndOfSeg(queue[i])
  <2> TAKE i \in 1 .. n
  <2>1. PICK b \in Nat, e \in Nat : b = queue[i].seqno /\ e = EndOfSeg(queue[i]) /\ b < e
    BY <1>2, <1>4
  <2>2. CASE i = 1
    BY <1>3, <2>1, <2>2
  <2>3. CASE i # 1
    <3>1. 1 < i /\ 1 \in 1 .. N /\ i \in 1 .. N
      BY <1>4, <2>3
    <3>2. EndOfSeg(queue[1]) <= queue[i].seqno
      BY <1>1, <3>1, QueuedBefore
    <3>3. PICK f \in Nat : f = EndOfSeg(queue[1]) /\ first < f
      BY <1>2, <1>3, <3>1
    <3>4. f <= b
      BY <2>1, <3>2, <3>3
    <3>5. first < e
      BY <2>1, <3>3, <3>4
    <3> QED
      BY <2>1, <3>5
  <2> QED
    BY <2>2, <2>3
<1>9. PICK sum : sum = [i \in 0 .. n |-> IF i = 0 THEN 0 ELSE EndOfSeg(queue[i]) - first]
  OBVIOUS
<1>10. sum[0] = 0 /\ \A i \in 1 .. n : sum[i] = EndOfSeg(queue[i]) - first /\ sum[i] \in Nat
  <2>1. sum[0] = 0
    BY <1>4, <1>9
  <2>2. ASSUME NEW i \in 1 .. n
        PROVE  sum[i] = EndOfSeg(queue[i]) - first /\ sum[i] \in Nat
    <3>1. i \in 0 .. n /\ i # 0 /\ i \in 1 .. N
      BY <1>4
    <3>2. PICK e \in Nat : e = EndOfSeg(queue[i]) /\ first < e
      BY <1>2, <1>8, <3>1
    <3>3. sum[i] = e - first
      BY <1>9, <3>1, <3>2
    <3>4. e - first \in Nat
      BY <3>2
    <3> QED
      BY <3>2, <3>3, <3>4
  <2> QED
    BY <2>1, <2>2
<1>11. \A i \in 1 .. n : sum[i] = sum[i - 1] + lens[i]
  <2> TAKE i \in 1 .. n
  <2>1. PICK b \in Nat, l \in Nat, e \in Nat :
          b = queue[i].seqno /\ l = TCP_TCPLEN(queue[i]) /\ e = EndOfSeg(queue[i]) /\ e = b + l
    BY <1>2, <1>4
  <2>2. sum[i] = e - first /\ lens[i] = l
    BY <1>6, <1>10, <2>1
  <2>3. CASE i = 1
    <3>1. b = first /\ i - 1 = 0
      BY <1>3, <2>1, <2>3
    <3> QED
      BY <1>10, <2>1, <2>2, <3>1
  <2>4. CASE i # 1
    <3>1. i \in 2 .. n /\ i - 1 \in 1 .. n
      BY <2>4
    <3>2. b = EndOfSeg(queue[i - 1])
      BY <2>1, <3>1
    <3>3. sum[i - 1] = b - first
      BY <1>10, <3>1, <3>2
    <3> QED
      BY SMTT(30), <2>1, <2>2, <3>3
  <2> QED
    BY <2>3, <2>4
<1>12. SumsOf(lens, sum)
  <2>1. sum \in [0 .. n -> Nat]
    <3>1. \A i \in 0 .. n : sum[i] \in Nat
      <4> TAKE i \in 0 .. n
      <4>1. CASE i = 0
        BY <1>10, <4>1
      <4>2. CASE i # 0
        <5>1. i \in 1 .. n
          BY <4>2
        <5> QED
          BY <1>10, <5>1
      <4> QED
        BY <4>1, <4>2
    <3>2. DOMAIN sum = 0 .. n /\ sum = [i \in DOMAIN sum |-> sum[i]]
      BY <1>9
    <3> QED
      BY <3>1, <3>2
  <2> QED
    BY <1>7, <1>10, <1>11, <2>1 DEF SumsOf
<1>13. len = sum[n] /\ n \in 1 .. n
  <2>1. Total(lens) = sum[Len(lens)]
    BY <1>7, <1>12, TotalOf
  <2> QED
    BY <1>4, <1>5, <1>7, <2>1
<1>14. PICK e \in Nat : e = EndOfSeg(queue[n]) /\ first < e
  BY <1>2, <1>4, <1>8, <1>13
<1>15. len = e - first
  BY <1>10, <1>13, <1>14
<1> QED
  BY SMTT(30), <1>3, <1>14, <1>15

\* The segments at the head of queue that follow each other without a gap, as tcp_receive
\* passes them up: a chain of len numbers, with the FIN or without.
Passed(queue, n, chain, rest, len, fin) ==
  /\ n = Contiguous(queue) /\ Parts(queue, n, chain, rest)
  /\ len = Total([i \in 1 .. n |-> TCP_TCPLEN(queue[i])])
  /\ fin = \E i \in DOMAIN chain : chain[i].fin

\* What goes to the application from the head of a queue that begins at nxt: the bytes
\* from nxt on, each once, and with them a FIN exactly when it ends the stream.
LEMMA PassedUpIs ==
  ASSUME NEW queue, NEW nxt \in Nat, NEW to \in Nat, NEW eof \in Nat, Queue(queue, nxt, to, eof),
         Len(queue) > 0, queue[1].seqno = nxt, nxt > 0,
         NEW n, NEW chain, NEW rest, NEW len, NEW fin \in BOOLEAN,
         Passed(queue, n, chain, rest, len, fin)
  PROVE  /\ len \in Nat /\ len > 0 /\ nxt + len <= to
         /\ Queue(rest, nxt + len + 1, to, eof)
         /\ Joined(chain) \in Seq(Seq(Nat))
         /\ \A i \in 1 .. Len(Joined(chain)) : Joined(chain)[i] # <<>>
         /\ \A k \in 1 .. Bytes(Joined(chain)) : Flattened(Joined(chain))[k] = nxt + k - 1
         /\ fin => Bytes(Joined(chain)) + 1 = len /\ nxt + len = eof + 1
         /\ ~fin => Bytes(Joined(chain)) = len /\ nxt + len <= eof
<1>1. PICK N \in Nat : N = Len(queue)
  <2>1. queue \in Seq(Segments)
    BY DEF Queue
  <2> QED
    BY <2>1, LenProperties
<1>2. /\ n \in 1 .. N /\ n \in 0 .. N /\ n \in 0 .. Len(queue) /\ n \in Nat /\ n >= 1
      /\ \A j \in 2 .. n : queue[j].seqno = EndOfSeg(queue[j - 1])
      /\ n < N => queue[n + 1].seqno # EndOfSeg(queue[n])
  <2>1. \E m \in 1 .. Len(queue) :
          /\ m = Contiguous(queue)
          /\ \A j \in 2 .. m : queue[j].seqno = EndOfSeg(queue[j - 1])
          /\ m < Len(queue) => queue[m + 1].seqno # EndOfSeg(queue[m])
    BY ContiguousIs
  <2> QED
    BY <1>1, <2>1 DEF Passed
<1>3. len \in Nat /\ len > 0 /\ nxt + len = EndOfSeg(queue[n])
  <2>1. n \in 1 .. Len(queue)
    BY <1>1, <1>2
  <2> QED
    BY <1>2, <2>1, TotalOfQueue DEF Passed
<1>4. /\ Queue(chain, nxt, to, eof) /\ Len(chain) = n /\ \A i \in 1 .. n : chain[i] = queue[i]
      /\ Queue(rest, nxt, to, eof) /\ Len(rest) = N - n
      /\ \A i \in 1 .. N - n : rest[i] = queue[n + i]
  <2>1. PICK m \in 0 .. Len(queue) : m = n
    BY <1>2
  <2>2. Parts(queue, m, chain, rest)
    BY <2>1 DEF Passed
  <2>3. /\ Queue(chain, nxt, to, eof) /\ Len(chain) = m /\ \A i \in 1 .. m : chain[i] = queue[i]
        /\ Queue(rest, nxt, to, eof) /\ Len(rest) = Len(queue) - m
        /\ \A i \in 1 .. Len(queue) - m : rest[i] = queue[m + i]
    BY <2>2, QueueParts
  <2> QED
    BY <1>1, <2>1, <2>3
<1>5. OfStream(queue[n], eof) /\ EndOfSeg(queue[n]) <= to
  BY <1>1, <1>2, InQueue
<1>6. PICK d \in Nat, e \in Nat :
        /\ d = EndOfData(queue[n]) /\ e = EndOfSeg(queue[n]) /\ d <= eof
        /\ queue[n].fin \in BOOLEAN
        /\ (queue[n].fin => d = eof /\ e = eof + 1) /\ (~queue[n].fin => e = d)
  BY <1>5, SegmentOf
<1>7. \A i \in 1 .. n : i # n => ~queue[i].fin
  <2> SUFFICES ASSUME NEW i \in 1 .. n, i # n
               PROVE  ~queue[i].fin
    OBVIOUS
  <2>1. i \in 1 .. N /\ i < n
    BY <1>2
  <2> QED
    BY <1>1, <1>2, <2>1, QueuedBefore
<1>8. fin <=> queue[n].fin
  <2>1. chain \in Seq(Segments)
    BY <1>4 DEF Queue
  <2>2. DOMAIN chain = 1 .. n
    BY <1>4, <2>1, LenProperties
  <2>3. fin <=> \E i \in 1 .. n : queue[i].fin
    BY <1>4, <2>2 DEF Passed
  <2>4. n \in 1 .. n
    BY <1>2
  <2> QED
    BY <1>7, <2>3, <2>4
<1>9. PICK c \in Seq(Seq(Nat)), b \in Nat :
        /\ c = Joined(chain) /\ b = Bytes(c) /\ \A i \in 1 .. Len(c) : c[i] # <<>>
        /\ \A k \in 1 .. b : Flattened(c)[k] = nxt + k - 1
        /\ nxt + b = d
  <2>1. chain \in Seq(Segments) /\ Len(chain) > 0
    BY <1>2, <1>4 DEF Queue
  <2>2. \A i \in 1 .. Len(chain) : OfStream(chain[i], eof)
    BY <1>4, InQueue
  <2>3. \A i \in 2 .. Len(chain) : chain[i].seqno = EndOfData(chain[i - 1])
    <3> TAKE i \in 2 .. Len(chain)
    <3>1. i \in 2 .. n /\ i \in 1 .. n /\ i - 1 \in 1 .. n /\ i - 1 # n /\ i - 1 \in 1 .. N
      BY <1>2, <1>4
    <3>2. queue[i].seqno = EndOfSeg(queue[i - 1]) /\ ~queue[i - 1].fin
      BY <1>2, <1>7, <3>1
    <3>3. OfStream(queue[i - 1], eof)
      BY <1>1, <3>1, InQueue
    <3>4. EndOfSeg(queue[i - 1]) = EndOfData(queue[i - 1])
      BY <3>2, <3>3, SegmentOf
    <3> QED
      BY <1>4, <3>1, <3>2, <3>4
  <2>4. PICK c : c = Joined(chain)
    OBVIOUS
  <2>5. /\ c \in Seq(Seq(Nat)) /\ \A i \in 1 .. Len(c) : c[i] # <<>>
        /\ chain[1].seqno + Bytes(c) = EndOfData(chain[Len(chain)])
        /\ \A k \in 1 .. Bytes(c) : Flattened(c)[k] = chain[1].seqno + k - 1
    BY <2>1, <2>2, <2>3, <2>4, JoinedInOrder
  <2>6. Bytes(c) \in Nat
    BY <2>5, BytesOfChain
  <2>7. chain[1].seqno = nxt /\ chain[Len(chain)] = queue[n]
    <3>1. 1 \in 1 .. n /\ n \in 1 .. n
      BY <1>2
    <3> QED
      BY <1>4, <3>1
  <2> QED
    BY <1>6, <2>4, <2>5, <2>6, <2>7
<1>10. ASSUME fin
       PROVE  b + 1 = len /\ nxt + len = eof + 1
  <2>1. queue[n].fin
    BY <1>8, <1>10
  <2>2. d = eof /\ e = eof + 1
    BY <1>6, <2>1
  <2>3. nxt + len = e /\ nxt + b = d
    BY <1>3, <1>6, <1>9
  <2> QED
    BY <1>3, <2>2, <2>3
<1>11. ASSUME ~fin
       PROVE  b = len /\ nxt + len <= eof
  <2>1. ~queue[n].fin
    BY <1>8, <1>11
  <2>2. e = d /\ d <= eof
    BY <1>6, <2>1
  <2>3. nxt + len = e /\ nxt + b = d
    BY <1>3, <1>6, <1>9
  <2> QED
    BY <1>3, <2>2, <2>3
<1>12. PICK later \in Nat : later = nxt + len + 1 /\ Queue(rest, later, to, eof)
  <2>1. PICK later \in Nat : later = nxt + len + 1 /\ later = e + 1
    <3>1. nxt + len = e
      BY <1>3, <1>6
    <3>2. e + 1 \in Nat
      OBVIOUS
    <3> QED
      BY <3>1, <3>2
  <2>2. ASSUME NEW i \in 1 .. N - n
        PROVE  OfStream(rest[i], eof) /\ later <= rest[i].seqno /\ EndOfSeg(rest[i]) <= to
    <3>1. OfStream(rest[i], eof) /\ EndOfSeg(rest[i]) <= to
      BY <1>4, InQueue
    <3>2. PICK a \in Nat : a = rest[i].seqno
      BY <3>1, SegmentOf
    <3>3. n + i \in 1 .. N /\ n < n + i /\ n + 1 \in 1 .. N /\ n < N
      <4>1. PICK m \in Nat : m = n /\ m >= 1
        BY <1>2
      <4>2. i \in 1 .. N - m
        BY <4>1
      <4>3. m + i \in 1 .. N /\ m < m + i /\ m + 1 \in 1 .. N /\ m < N
        BY <4>1, <4>2
      <4> QED
        BY <4>1, <4>3
    <3>4. e <= a
      <4>1. EndOfSeg(queue[n]) <= queue[n + i].seqno
        BY <1>1, <1>2, <3>3, QueuedBefore
      <4> QED
        BY <1>4, <1>6, <3>2, <4>1
    <3>5. e # a
      <4>1. CASE i = 1
        <5>1. queue[n + 1].seqno # e
          BY <1>2, <1>6, <3>3
        <5> QED
          BY <1>4, <3>2, <4>1, <5>1
      <4>2. CASE i # 1
        <5>1. n + 1 < n + i /\ n < n + 1
          BY <1>2, <4>2
        <5>2. EndOfSeg(queue[n]) <= queue[n + 1].seqno /\ EndOfSeg(queue[n + 1]) <= queue[n + i].seqno
          BY <1>1, <1>2, <3>3, <5>1, QueuedBefore
        <5>3. OfStream(queue[n + 1], eof)
          BY <1>1, <3>3, InQueue
        <5>4. PICK f \in Nat, g \in Nat :
                f = queue[n + 1].seqno /\ g = EndOfSeg(queue[n + 1]) /\ f < g
          BY <5>3, SegmentOf
        <5>5. e <= f /\ g <= a
          BY <1>4, <1>6, <3>2, <5>2, <5>4
        <5> QED
          BY <5>4, <5>5
      <4> QED
        BY <4>1, <4>2
    <3> QED
      BY <2>1, <3>1, <3>2, <3>4, <3>5
  <2>3. Queue(rest, later, to, eof)
    BY <1>4, <2>2 DEF Queue, Between
  <2> QED
    BY <2>1, <2>3
<1>13. nxt + len <= to
  BY <1>3, <1>5
<1> QED
  BY <1>3, <1>9, <1>10, <1>11, <1>12, <1>13

\* A queue within more numbers.
LEMMA QueueWider ==
  ASSUME NEW queue, NEW from \in Nat, NEW to \in Nat, NEW more \in Nat, NEW eof \in Nat,
         to <= more, Queue(queue, from, to, eof)
  PROVE  Queue(queue, from, more, eof)
<1>1. ASSUME NEW i \in 1 .. Len(queue)
      PROVE  OfStream(queue[i], eof) /\ from <= queue[i].seqno /\ EndOfSeg(queue[i]) <= more
  <2>1. OfStream(queue[i], eof) /\ from <= queue[i].seqno /\ EndOfSeg(queue[i]) <= to
    BY InQueue
  <2>2. PICK e \in Nat : e = EndOfSeg(queue[i])
    BY <2>1, SegmentOf
  <2>3. e <= more
    BY <2>1, <2>2
  <2> QED
    BY <2>1, <2>2, <2>3
<1> QED
  BY <1>1 DEF Queue, Between

-----------------------------------------------------------------------------
(***************************************************************************)
(* Segments that arrive, and the window.                                   *)
(***************************************************************************)
\* What the broker sends is of the stream, and within what was announced.
LEMMA ArrivingIs ==
  ASSUME Eof \in Nat, rcv_ann_right_edge \in Nat, NEW n \in 1 .. Eof, NEW s \in SegmentsFrom(n)
  PROVE  OfStream(s, Eof) /\ EndOfSeg(s) <= rcv_ann_right_edge
<1>1. PICK len \in Nat, f \in BOOLEAN : s = Segment(n, len, f) /\ Sendable(s)
  <2>1. PICK to \in CutsFrom(n), f \in BOOLEAN : s = Segment(n, to - n, f) /\ Sendable(s)
    BY DEF SegmentsFrom
  <2>2. to \in CutPoints \cup {Eof} /\ n <= to
    BY DEF CutsFrom
  <2>3. to \in Nat
    BY <2>2, ReceiveAssumption
  <2>4. to - n \in Nat
    BY <2>2, <2>3
  <2> QED
    BY <2>1, <2>4
<1>2. PICK data : data = [i \in 1 .. len |-> n + i - 1]
  OBVIOUS
<1>3. data \in Seq(Nat) /\ Len(data) = len /\ \A i \in 1 .. len : data[i] = n + i - 1
  <2>1. \A i \in 1 .. len : n + i - 1 \in Nat
    BY <1>1
  <2> QED
    BY <1>2, <2>1, IsASeq, LenProperties
<1>4. s = [seqno |-> n, data |-> data, fin |-> f]
  BY <1>1, <1>2 DEF Segment
<1>5. s.seqno = n /\ s.data = data /\ s.fin = f /\ n \in Nat /\ n > 0
  BY <1>4
<1>6. s \in Segments
  BY <1>3, <1>4, <1>5 DEF Segments
<1>7. \A i \in 1 .. Len(s.data) : s.data[i] = s.seqno + i - 1
  BY <1>3, <1>5
<1>8. /\ TCP_TCPLEN(s) > 0 /\ EndOfSeg(s) <= rcv_ann_right_edge
      /\ EndOfData(s) <= Eof /\ (s.fin => EndOfData(s) = Eof)
  BY <1>1 DEF Sendable
<1> QED
  BY <1>5, <1>6, <1>7, <1>8 DEF OfStream

\* What is left of it when its head is cut off.
LEMMA TrimmedIs ==
  ASSUME NEW s, NEW eof \in Nat, OfStream(s, eof), rcv_nxt \in Nat, rcv_nxt > 0
  PROVE  OfStream(Trimmed(s), eof) /\ EndOfSeg(Trimmed(s)) = EndOfSeg(s)
<1>1. s \in Segments /\ \A i \in 1 .. Len(s.data) : s.data[i] = s.seqno + i - 1
  BY DEF OfStream
<1>2. PICK a \in Nat, d \in Seq(Nat), n \in Nat, e \in Nat, nxt \in Nat, f \in Nat :
        /\ a = s.seqno /\ d = s.data /\ n = Len(d) /\ f = EndOfData(s) /\ f = a + n
        /\ e = EndOfSeg(s) /\ nxt = rcv_nxt /\ nxt > 0 /\ f <= eof
  BY <1>1, SegmentEnds, SegmentOf
<1>3. /\ s.fin \in BOOLEAN /\ (~s.fin => e = f) /\ (s.fin => f = eof /\ e = eof + 1)
  BY <1>2, SegmentOf
<1>4. CASE ~(a < nxt /\ nxt < e)
  <2>1. Trimmed(s) = s
    BY <1>2, <1>4 DEF Trimmed
  <2> QED
    BY <2>1
<1>5. CASE a < nxt /\ nxt < e
  <2>1. nxt <= f
    <3>1. e = f \/ e = f + 1
      BY <1>3
    <3> QED
      BY <1>5, <3>1
  <2>2. PICK k \in Nat, l \in Nat : k = nxt - a + 1 /\ l = n - (nxt - a) /\ nxt + l = f
    <3>1. PICK cut \in Nat : cut = nxt - a
      <4>1. nxt - a \in Nat
        BY <1>5
      <4> QED
        BY <4>1
    <3>2. cut <= n /\ nxt = a + cut /\ f = a + n
      BY <1>2, <2>1, <3>1
    <3>3. cut + 1 \in Nat /\ n - cut \in Nat /\ nxt + (n - cut) = f
      BY <3>2
    <3> QED
      BY <3>1, <3>3
  <2>3. PICK c : c = SubSeq(d, k, n)
    OBVIOUS
  <2>4. c \in Seq(Nat) /\ Len(c) = l /\ \A i \in 1 .. l : c[i] = nxt + i - 1
    <3>1. k \in Int /\ n \in Int /\ \A i \in k .. n : d[i] \in Nat
      <4>1. \A i \in 1 .. n : d[i] \in Nat
        BY <1>2, ElementOfSeq
      <4>2. \A i \in k .. n : i \in 1 .. n
        BY <1>5, <2>2
      <4> QED
        BY <4>1, <4>2
    <3>2. /\ c \in Seq(Nat) /\ Len(c) = IF k <= n THEN n - k + 1 ELSE 0
          /\ \A i \in 1 .. n - k + 1 : c[i] = d[k + i - 1]
      BY <2>3, <3>1, SubSeqProperties
    <3>3. n - k + 1 = l /\ (~(k <= n) => l = 0)
      BY <2>2
    <3>4. ASSUME NEW i \in 1 .. l
          PROVE  c[i] = nxt + i - 1
      <4>1. PICK j \in 1 .. n : j = k + i - 1 /\ a + j - 1 = nxt + i - 1
        <5>1. k + i - 1 \in 1 .. n /\ a + (k + i - 1) - 1 = nxt + i - 1
          BY <1>5, <2>2
        <5> QED
          BY <5>1
      <4>2. d[j] = a + j - 1
        BY <1>1, <1>2
      <4> QED
        BY <3>2, <3>3, <4>1, <4>2
    <3> QED
      BY <3>2, <3>3, <3>4
  <2>5. PICK r \in Segments : r = Trimmed(s) /\ r.seqno = nxt /\ r.data = c /\ r.fin = s.fin
    <3>1. Trimmed(s) = [s EXCEPT !.seqno = nxt, !.data = c]
      BY <1>2, <1>5, <2>2, <2>3 DEF Trimmed
    <3>2. [s EXCEPT !.seqno = nxt, !.data = c] \in Segments
      BY <1>1, <2>4 DEF Segments
    <3>3. /\ [s EXCEPT !.seqno = nxt, !.data = c].seqno = nxt
          /\ [s EXCEPT !.seqno = nxt, !.data = c].data = c
          /\ [s EXCEPT !.seqno = nxt, !.data = c].fin = s.fin
      BY <1>1 DEF Segments
    <3> QED
      BY <3>1, <3>2, <3>3
  <2>6. /\ EndOfData(r) = nxt + l
        /\ r.fin => TCP_TCPLEN(r) = l + 1 /\ EndOfSeg(r) = nxt + l + 1
        /\ ~r.fin => TCP_TCPLEN(r) = l /\ EndOfSeg(r) = nxt + l
    BY <2>4, <2>5, SegmentEnds
  <2>7. EndOfSeg(r) = e
    <3>1. CASE s.fin
      <4>1. EndOfSeg(r) = nxt + l + 1 /\ f = eof /\ e = eof + 1
        BY <1>3, <2>5, <2>6, <3>1
      <4> QED
        BY <2>2, <4>1
    <3>2. CASE ~s.fin
      <4>1. EndOfSeg(r) = nxt + l /\ e = f
        BY <1>3, <2>5, <2>6, <3>2
      <4> QED
        BY <2>2, <4>1
    <3> QED
      BY <1>3, <3>1, <3>2
  <2>8. TCP_TCPLEN(r) > 0
    <3>1. CASE s.fin
      <4>1. TCP_TCPLEN(r) = l + 1
        BY <2>5, <2>6, <3>1
      <4> QED
        BY <4>1
    <3>2. CASE ~s.fin
      <4>1. TCP_TCPLEN(r) = l /\ e = f
        BY <1>3, <2>5, <2>6, <3>2
      <4> QED
        BY <1>5, <2>2, <4>1
    <3> QED
      BY <1>3, <3>1, <3>2
  <2>9. EndOfData(r) <= eof /\ (r.fin => EndOfData(r) = eof)
    <3>1. r.fin => f = eof
      BY <1>3, <2>5
    <3>2. EndOfData(r) = f
      BY <2>2, <2>6
    <3> QED
      BY <1>2, <3>1, <3>2
  <2>10. \A i \in 1 .. Len(r.data) : r.data[i] = r.seqno + i - 1
    BY <2>4, <2>5
  <2>11. OfStream(r, eof)
    BY <1>2, <2>5, <2>8, <2>9, <2>10 DEF OfStream
  <2> QED
    BY <1>2, <2>5, <2>7, <2>11
<1> QED
  BY <1>4, <1>5

\* The announced window is not more than there is, and is open when nearly all is free.
LEMMA AnnouncedIs ==
  ASSUME rcv_ann_right_edge \in Nat, NEW nxt \in Nat, NEW wnd \in Nat, wnd <= TCP_WND,
         rcv_ann_right_edge <= nxt + wnd
  PROVE  /\ tcp_update_rcv_ann_wnd(nxt, wnd) \in Nat /\ tcp_update_rcv_ann_wnd(nxt, wnd) <= wnd
         /\ wnd >= TCP_WND - 1 => tcp_update_rcv_ann_wnd(nxt, wnd) > 0
<1>1. PICK w \in Nat, m \in Nat, edge \in Nat :
        w = TCP_WND /\ m = TCP_MSS /\ edge = rcv_ann_right_edge /\ m >= 1 /\ w >= 2 * m
  BY ReceiveAssumption
<1>2. PICK least \in Nat : least = Least(TCP_WND \div 2, TCP_MSS) /\ least <= w - 1 /\ least >= 1
  <2>1. w \div 2 \in Nat /\ w \div 2 <= w - 1 /\ w \div 2 >= 1 /\ m <= w - 1
    BY <1>1
  <2> QED
    BY <1>1, <2>1 DEF Least
<1>3. CASE nxt + wnd >= edge + least
  <2>1. tcp_update_rcv_ann_wnd(nxt, wnd) = wnd
    BY <1>1, <1>2, <1>3 DEF tcp_update_rcv_ann_wnd
  <2> QED
    BY <1>1, <2>1
<1>4. CASE ~(nxt + wnd >= edge + least) /\ nxt > edge
  <2>1. tcp_update_rcv_ann_wnd(nxt, wnd) = 0
    BY <1>1, <1>2, <1>4 DEF tcp_update_rcv_ann_wnd
  <2>2. ~(wnd >= w - 1)
    BY <1>1, <1>2, <1>4
  <2> QED
    BY <1>1, <2>1, <2>2
<1>5. CASE ~(nxt + wnd >= edge + least) /\ ~(nxt > edge)
  <2>1. tcp_update_rcv_ann_wnd(nxt, wnd) = edge - nxt
    BY <1>1, <1>2, <1>5 DEF tcp_update_rcv_ann_wnd
  <2>2. edge - nxt \in Nat /\ edge - nxt <= wnd
    BY <1>1, <1>5
  <2>3. wnd >= w - 1 => edge - nxt > 0
    BY <1>1, <1>2, <1>5
  <2> QED
    BY <1>1, <2>1, <2>2, <2>3
<1> QED
  BY <1>3, <1>4, <1>5

-----------------------------------------------------------------------------
(***************************************************************************)
(* The invariant.                                                          *)
(***************************************************************************)
\* What recv_data holds and tcp_recved has not given back.
Waiting == IF bytes_left = 0 THEN Bytes(recv_data) ELSE 0

\* The queue is behind rcv_nxt, and within the window.
QueueInv == Queue(ooseq, rcv_nxt + 1, rcv_nxt + rcv_wnd, Eof)

\* The window that is not free is in recv_data, and in a FIN that is to be reported.
WindowInv ==
  /\ rcv_ann_right_edge <= rcv_nxt + rcv_wnd /\ rcv_ann_wnd <= rcv_wnd
  /\ got_fin => rcv_wnd + Waiting + 1 = TCP_WND
  /\ ~got_fin => rcv_wnd + Waiting = TCP_WND
  /\ (recv_data = <<>> \/ bytes_left # 0) => rcv_ann_wnd > 0

\* recv_data has the bytes behind those delivered, or, when the callback has begun, the
\* last of them.
ChainInv ==
  /\ \A i \in 1 .. Len(recv_data) : recv_data[i] # <<>>
  /\ bytes_left <= Bytes(recv_data) /\ bytes_left <= TCP_WND
  /\ bytes_left = 0 =>
       \A k \in 1 .. Bytes(recv_data) : Flattened(recv_data)[k] = Len(delivered) + k
  /\ bytes_left # 0 => recv_data[1][1] + Bytes(recv_data) = Len(delivered) + 1

\* The bytes of the stream are delivered up to rcv_nxt but for those in recv_data, and a FIN
\* is behind the last of them.
DeliveredInv ==
  /\ \A i \in 1 .. Len(delivered) : delivered[i] = i
  /\ state = "ESTABLISHED" => ~got_fin /\ rcv_nxt = Len(delivered) + 1 + Waiting /\ rcv_nxt <= Eof
  /\ state \in {"CLOSE_WAIT", "LAST_ACK"} => Eof = Len(delivered) + 1 + Waiting
  /\ state = "CLOSE_WAIT" => got_fin
  /\ state = "LAST_ACK" => ~got_fin /\ recv_data = <<>>

\* The packets handled end where bytes_left begins, as long as that is known; and it is
\* as long as all came in one piece.  Nothing more is given to a client that has failed.
HandledInv ==
  /\ \A i \in 1 .. Len(handled) : handled[i] = i
  /\ Len(handled) <= Len(stream)
  /\ ~astray /\ (rc = "MQTT_SUCCESS" \/ bytes_left # 0) =>
       EndOf[Len(handled)] + bytes_left = Len(delivered) + 1
  /\ rc # "MQTT_SUCCESS" => state # "ESTABLISHED" /\ Waiting = 0
  /\ ~in_pieces => ~astray
  /\ ~in_pieces /\ bytes_left # 0 =>
       Len(recv_data) = 1 /\ \E n \in 0 .. Len(stream) : EndOf[n] = Len(delivered) + 1

ReceiveInv ==
  ReceiveTypeOK /\ QueueInv /\ WindowInv /\ ChainInv /\ DeliveredInv /\ HandledInv

\* The numbers of the state, and what the types say of them.
LEMMA Numbers ==
  ASSUME ReceiveTypeOK
  PROVE  /\ Eof \in Nat /\ Eof > 0 /\ TCP_WND \in Nat /\ TCP_WND >= 2
         /\ rcv_nxt \in Nat /\ rcv_nxt > 0 /\ rcv_wnd \in Nat /\ rcv_wnd <= TCP_WND
         /\ rcv_ann_wnd \in Nat /\ rcv_ann_right_edge \in Nat
         /\ bytes_left \in Nat /\ Len(delivered) \in Nat /\ Len(handled) \in Nat /\ Len(stream) \in Nat
         /\ Bytes(recv_data) \in Nat /\ Waiting \in Nat
<1>1. TCP_WND \in Nat /\ TCP_WND >= 2
  BY ReceiveAssumption
<1>2. /\ stream \in Seq(Packets) /\ delivered \in Seq(Nat) /\ handled \in Seq(Nat)
      /\ recv_data \in Seq(Seq(Nat)) /\ bytes_left \in Nat
  BY DEF ReceiveTypeOK
<1>3. Len(delivered) \in Nat /\ Len(handled) \in Nat /\ Len(stream) \in Nat
  BY <1>2, LenProperties
<1>4. Eof \in Nat /\ Eof > 0
  <2>1. PICK g : g = EndOf /\ EndsOf(g)
    BY <1>2, EndOfIs
  <2>2. PICK n \in 0 .. Len(stream) : n = Len(stream)
    BY <1>3
  <2>3. g[n] \in Nat /\ g[n] > 0
    BY <1>2, <2>1, EndsDiffer
  <2> QED
    BY <2>1, <2>2, <2>3 DEF Eof
<1>5. Bytes(recv_data) \in Nat /\ Waiting \in Nat
  <2>1. Bytes(recv_data) \in Nat
    BY <1>2, BytesOfChain
  <2> QED
    BY <2>1 DEF Waiting
<1>6. /\ rcv_nxt \in Nat /\ rcv_nxt > 0 /\ rcv_wnd \in Nat /\ rcv_wnd <= TCP_WND
      /\ rcv_ann_wnd \in Nat /\ rcv_ann_right_edge \in Nat
  BY <1>1 DEF ReceiveTypeOK
<1> QED
  BY <1>1, <1>2, <1>3, <1>4, <1>5, <1>6

\* The stream does not change.
LEMMA SameStream ==
  ASSUME stream' = stream
  PROVE  EndOf' = EndOf /\ Eof' = Eof
BY DEF EndOf, Eof

\* A chain without empty pbufs that has no bytes is empty.
LEMMA NoBytes ==
  ASSUME NEW chain \in Seq(Seq(Nat)), \A i \in 1 .. Len(chain) : chain[i] # <<>>, chain # <<>>
  PROVE  /\ Bytes(chain) > 0 /\ chain[1] \in Seq(Nat) /\ Len(chain[1]) \in Nat /\ Len(chain[1]) > 0
         /\ Len(chain[1]) <= Bytes(chain)
<1>1. PICK N \in Nat : N = Len(chain) /\ N > 0
  <2>1. Len(chain) \in Nat /\ Len(chain) # 0
    BY LenProperties, EmptySeq
  <2> QED
    BY <2>1
<1>2. 1 \in 1 .. N
  BY <1>1
<1>3. PICK d \in Seq(Nat) : d = chain[1] /\ d # <<>>
  BY <1>1, <1>2, ElementOfSeq
<1>4. Len(d) \in Nat /\ Len(d) # 0
  BY <1>3, LenProperties, EmptySeq
<1>5. Len(d) <= Bytes(chain) /\ Bytes(chain) \in Nat
  BY <1>3, BytesOfChain
<1>6. Bytes(chain) > 0 /\ Len(d) > 0
  BY <1>4, <1>5
<1> QED
  BY <1>3, <1>4, <1>5, <1>6

(***************************************************************************)
(* The actions.                                                            *)
(***************************************************************************)
\* An acknowledgement moves the announced edge, within the window.
LEMMA SendAckKeeps ==
  ASSUME ReceiveInv, SendAck
  PROVE  ReceiveInv'
<1>1. /\ UNCHANGED <<stream, state, rcv_nxt, rcv_wnd, rcv_ann_wnd, ooseq, recv_data, got_fin>>
      /\ UNCHANGED <<bytes_left, rc, delivered, handled, in_pieces, astray>>
      /\ rcv_ann_right_edge' = rcv_nxt + rcv_ann_wnd
  BY DEF SendAck, clientVars
<1>2. /\ rcv_nxt \in Nat /\ rcv_ann_wnd \in Nat /\ rcv_wnd \in Nat /\ rcv_ann_wnd <= rcv_wnd
  BY Numbers DEF ReceiveInv, WindowInv
<1>3. rcv_ann_right_edge' \in Nat /\ rcv_ann_right_edge' <= rcv_nxt + rcv_wnd
  BY <1>1, <1>2
<1>4. ReceiveTypeOK'
  BY <1>1, <1>3 DEF ReceiveInv, ReceiveTypeOK
<1>5. EndOf' = EndOf /\ Eof' = Eof
  BY <1>1, SameStream
<1>6. Waiting' = Waiting
  BY <1>1 DEF Waiting
<1>7. QueueInv'
  BY <1>1, <1>5 DEF ReceiveInv, QueueInv
<1>8. WindowInv'
  BY <1>1, <1>3, <1>6 DEF ReceiveInv, WindowInv
<1>9. ChainInv'
  BY <1>1 DEF ReceiveInv, ChainInv
<1>10. DeliveredInv'
  BY <1>1, <1>5, <1>6 DEF ReceiveInv, DeliveredInv
<1>11. HandledInv'
  BY <1>1, <1>5, <1>6 DEF ReceiveInv, HandledInv
<1> QED
  BY <1>4, <1>7, <1>8, <1>9, <1>10, <1>11 DEF ReceiveInv

\* Closing leaves neither a pcb that receives nor one that waits for the client to close.
LEMMA CloseIs ==
  ASSUME NEW st \in {"ESTABLISHED", "CLOSE_WAIT", "LAST_ACK", "FIN_WAIT_1", "freed"}, NEW wnd
  PROVE  /\ tcp_close(st, wnd) \in {"LAST_ACK", "FIN_WAIT_1", "freed"}
         /\ tcp_close(st, wnd) = "LAST_ACK" => st = "LAST_ACK" \/ (st = "CLOSE_WAIT" /\ wnd = TCP_WND)
         /\ st = "CLOSE_WAIT" /\ wnd = TCP_WND => tcp_close(st, wnd) = "LAST_ACK"
<1>1. CASE st \in {"ESTABLISHED", "CLOSE_WAIT"} /\ wnd # TCP_WND
  BY <1>1 DEF tcp_close
<1>2. CASE st = "ESTABLISHED" /\ wnd = TCP_WND
  BY <1>2 DEF tcp_close
<1>3. CASE st = "CLOSE_WAIT" /\ wnd = TCP_WND
  BY <1>3 DEF tcp_close
<1>4. CASE st \notin {"ESTABLISHED", "CLOSE_WAIT"}
  <2>1. tcp_close(st, wnd) = st
    BY <1>4 DEF tcp_close
  <2> QED
    BY <1>4, <2>1
<1> QED
  BY <1>1, <1>2, <1>3, <1>4

\* The FIN, and with it the last of the window, is given back.
LEMMA ClosedKeeps ==
  ASSUME ReceiveInv, tcp_received_cb_closed
  PROVE  ReceiveInv' /\ (state = "CLOSE_WAIT" => state' = "LAST_ACK")
<1>1. /\ got_fin /\ recv_data = <<>> /\ got_fin' = FALSE /\ state' = tcp_close(state, rcv_wnd')
      /\ rcv_wnd' = IF rcv_wnd # TCP_WND THEN rcv_wnd + 1 ELSE rcv_wnd
      /\ UNCHANGED <<stream, rcv_nxt, rcv_ann_wnd, rcv_ann_right_edge, ooseq, recv_data>>
      /\ UNCHANGED <<bytes_left, rc, delivered, handled, in_pieces, astray>>
  BY DEF tcp_received_cb_closed, clientVars
<1>2. PICK nxt \in Nat, wnd \in Nat, all \in Nat, ann \in Nat, edge \in Nat :
        /\ nxt = rcv_nxt /\ wnd = rcv_wnd /\ all = TCP_WND /\ ann = rcv_ann_wnd /\ edge = rcv_ann_right_edge
        /\ wnd <= all /\ Eof \in Nat
  BY Numbers DEF ReceiveInv
<1>3. Waiting = 0 /\ Waiting' = 0
  <2>1. recv_data \in Seq(Seq(Nat))
    BY DEF ReceiveInv, ReceiveTypeOK
  <2>2. Bytes(recv_data) = 0
    BY <1>1, <2>1, BytesOfChain
  <2> QED
    BY <1>1, <2>2 DEF Waiting
<1>4. wnd + 1 = all
  <2>1. rcv_wnd + Waiting + 1 = TCP_WND
    BY <1>1 DEF ReceiveInv, WindowInv
  <2> QED
    BY <1>2, <1>3, <2>1
<1>5. rcv_wnd' = all /\ rcv_wnd' = wnd + 1
  BY <1>1, <1>2, <1>4
<1>16. /\ state' \in {"LAST_ACK", "FIN_WAIT_1", "freed"}
       /\ state' = "LAST_ACK" => state \in {"CLOSE_WAIT", "LAST_ACK"}
       /\ state = "CLOSE_WAIT" => state' = "LAST_ACK"
  <2>1. state \in {"ESTABLISHED", "CLOSE_WAIT", "LAST_ACK", "FIN_WAIT_1", "freed"}
    BY DEF ReceiveInv, ReceiveTypeOK
  <2> QED
    BY <1>1, <1>2, <1>5, <2>1, CloseIs
<1>6. ReceiveTypeOK'
  <2>1. rcv_wnd' \in 0 .. TCP_WND
    BY <1>2, <1>5
  <2>2. /\ state' \in {"ESTABLISHED", "CLOSE_WAIT", "LAST_ACK", "FIN_WAIT_1", "freed"}
        /\ got_fin' \in BOOLEAN
    BY <1>1, <1>16
  <2> QED
    BY <1>1, <2>1, <2>2 DEF ReceiveInv, ReceiveTypeOK
<1>7. EndOf' = EndOf /\ Eof' = Eof
  BY <1>1, SameStream
<1>8. QueueInv'
  <2>1. PICK from \in Nat, to \in Nat, more \in Nat :
          from = rcv_nxt + 1 /\ to = rcv_nxt + rcv_wnd /\ more = rcv_nxt + rcv_wnd' /\ to <= more
    BY <1>2, <1>5
  <2>2. Queue(ooseq, from, to, Eof)
    BY <2>1 DEF ReceiveInv, QueueInv
  <2>3. Queue(ooseq, from, more, Eof)
    BY <1>2, <2>1, <2>2, QueueWider
  <2> QED
    BY <1>1, <1>7, <2>1, <2>3 DEF QueueInv
<1>9. WindowInv'
  <2>1. /\ edge <= nxt + wnd /\ ann <= wnd /\ ann > 0
    BY <1>1, <1>2 DEF ReceiveInv, WindowInv
  <2>2. edge <= nxt + (wnd + 1) /\ ann <= wnd + 1 /\ all + 0 = all
    BY <1>2, <2>1
  <2> QED
    BY <1>1, <1>2, <1>3, <1>5, <2>1, <2>2 DEF WindowInv
<1>10. ChainInv'
  BY <1>1 DEF ReceiveInv, ChainInv
<1>11. DeliveredInv'
  <2>1. /\ \A i \in 1 .. Len(delivered) : delivered[i] = i
        /\ state \in {"CLOSE_WAIT", "LAST_ACK"} => Eof = Len(delivered) + 1 + Waiting
    BY DEF ReceiveInv, DeliveredInv
  <2> QED
    BY <1>1, <1>3, <1>7, <1>16, <2>1 DEF DeliveredInv
<1>12. HandledInv'
  BY <1>1, <1>3, <1>7, <1>16 DEF ReceiveInv, HandledInv
<1> QED
  BY <1>6, <1>8, <1>9, <1>10, <1>11, <1>12, <1>16 DEF ReceiveInv

\* tcp_recved: what is given back is what was waiting.
LEMMA ReceivedKeeps ==
  ASSUME ReceiveInv, tcp_received_cb
  PROVE  ReceiveInv'
<1> DEFINE B == Bytes(recv_data)
           F == Flattened(recv_data)
<1>1. /\ recv_data # <<>> /\ bytes_left = 0
      /\ rcv_wnd' = Least(rcv_wnd + B, TCP_WND)
      /\ rcv_ann_wnd' = tcp_update_rcv_ann_wnd(rcv_nxt, rcv_wnd')
      /\ delivered' = delivered \o F
      /\ bytes_left' = B /\ rc' = "MQTT_SUCCESS"
      /\ in_pieces' = (in_pieces \/ ~InOnePiece)
      /\ UNCHANGED <<stream, state, rcv_nxt, rcv_ann_right_edge, ooseq, recv_data, got_fin>>
      /\ UNCHANGED <<handled, astray>>
  BY DEF tcp_received_cb, Received
<1>2. PICK nxt \in Nat, wnd \in Nat, all \in Nat, edge \in Nat, l \in Nat, b \in Nat :
        /\ nxt = rcv_nxt /\ wnd = rcv_wnd /\ all = TCP_WND /\ edge = rcv_ann_right_edge
        /\ l = Len(delivered) /\ b = B /\ wnd <= all /\ all >= 2 /\ Eof \in Nat
  BY Numbers DEF ReceiveInv
<1>3. recv_data \in Seq(Seq(Nat)) /\ \A i \in 1 .. Len(recv_data) : recv_data[i] # <<>>
  BY DEF ReceiveInv, ReceiveTypeOK, ChainInv
<1>4. b > 0 /\ recv_data[1] \in Seq(Nat) /\ Len(recv_data[1]) \in Nat /\ Len(recv_data[1]) > 0
  BY <1>1, <1>2, <1>3, NoBytes
<1>5. Waiting = b /\ Waiting' = 0
  <2>1. Waiting = b
    BY <1>1, <1>2 DEF Waiting
  <2>2. bytes_left' # 0
    BY <1>1, <1>2, <1>4
  <2> QED
    BY <2>1, <2>2 DEF Waiting
<1>6. PICK wnd2 \in Nat : /\ wnd2 = rcv_wnd' /\ wnd2 = wnd + b /\ wnd2 <= all
                          /\ (got_fin => wnd2 + 1 = all) /\ (~got_fin => wnd2 = all)
  <2>1. /\ got_fin => wnd + b + 1 = all
        /\ ~got_fin => wnd + b = all
    BY <1>2, <1>5 DEF ReceiveInv, WindowInv
  <2>2. got_fin \in BOOLEAN
    BY DEF ReceiveInv, ReceiveTypeOK
  <2>3. wnd + b <= all
    <3>1. wnd + b + 1 = all \/ wnd + b = all
      BY <2>1, <2>2
    <3> QED
      BY <3>1
  <2>4. Least(wnd + b, all) = wnd + b
    BY <2>3 DEF Least
  <2>5. wnd + b \in Nat /\ rcv_wnd' = wnd + b
    BY <1>1, <1>2, <2>4
  <2> QED
    BY <2>1, <2>3, <2>5
<1>7. edge <= nxt + wnd2
  <2>1. edge <= nxt + wnd
    BY <1>2 DEF ReceiveInv, WindowInv
  <2> QED
    BY <1>6, <2>1
<1>8. PICK ann \in Nat : ann = rcv_ann_wnd' /\ ann <= wnd2 /\ ann > 0
  <2>1. rcv_ann_right_edge \in Nat /\ wnd2 <= TCP_WND /\ rcv_ann_right_edge <= nxt + wnd2
    BY <1>2, <1>6, <1>7
  <2>2. wnd2 >= TCP_WND - 1
    <3>1. got_fin \in BOOLEAN
      BY DEF ReceiveInv, ReceiveTypeOK
    <3>2. wnd2 + 1 = all \/ wnd2 = all
      BY <1>6, <3>1
    <3> QED
      BY <1>2, <3>2
  <2>3. PICK ann : ann = tcp_update_rcv_ann_wnd(nxt, wnd2)
    OBVIOUS
  <2>4. ann \in Nat /\ ann <= wnd2 /\ ann > 0
    BY <2>1, <2>2, <2>3, AnnouncedIs
  <2>5. rcv_ann_wnd' = ann
    BY <1>1, <1>2, <1>6, <2>3
  <2> QED
    BY <2>4, <2>5
<1>9. PICK f \in Seq(Nat) :
        /\ f = F /\ Len(f) = b
        /\ \A k \in 1 .. Len(recv_data[1]) : f[k] = recv_data[1][k]
        /\ \A k \in 1 .. b : f[k] = l + k
  <2>1. /\ F \in Seq(Nat) /\ Len(F) = B
        /\ \A k \in 1 .. Len(recv_data[1]) : F[k] = recv_data[1][k]
    BY <1>1, <1>3, FlattenedChain
  <2>2. \A k \in 1 .. B : F[k] = Len(delivered) + k
    BY <1>1 DEF ReceiveInv, ChainInv
  <2> QED
    BY <1>2, <2>1, <2>2
<1>10. PICK d \in Seq(Nat) : /\ d = delivered' /\ Len(d) = l + b
                             /\ \A i \in 1 .. l + b : d[i] = i
  <2>1. delivered \in Seq(Nat) /\ \A i \in 1 .. l : delivered[i] = i
    BY <1>2 DEF ReceiveInv, ReceiveTypeOK, DeliveredInv
  <2>2. /\ delivered \o f \in Seq(Nat) /\ Len(delivered \o f) = Len(delivered) + Len(f)
        /\ \A i \in 1 .. Len(delivered) + Len(f) :
             (delivered \o f)[i] = IF i <= Len(delivered) THEN delivered[i] ELSE f[i - Len(delivered)]
    BY <2>1, ConcatProperties
  <2>3. PICK d \in Seq(Nat) : /\ d = delivered \o f /\ Len(d) = l + b
                              /\ \A i \in 1 .. l + b : d[i] = IF i <= l THEN delivered[i] ELSE f[i - l]
    BY <1>2, <1>9, <2>2
  <2>4. \A i \in 1 .. l + b : d[i] = i
    <3> TAKE i \in 1 .. l + b
    <3>1. CASE i <= l
      <4>1. i \in 1 .. l
        BY <3>1
      <4> QED
        BY <2>1, <2>3, <3>1, <4>1
    <3>2. CASE ~(i <= l)
      <4>1. PICK k \in 1 .. b : k = i - l /\ l + k = i
        <5>1. i - l \in 1 .. b /\ l + (i - l) = i
          BY <3>2
        <5> QED
          BY <5>1
      <4>2. d[i] = f[k] /\ f[k] = l + k
        BY <1>9, <2>3, <3>2, <4>1
      <4> QED
        BY <4>1, <4>2
    <3> QED
      BY <3>1, <3>2
  <2>5. delivered' = d
    BY <1>1, <1>9, <2>3
  <2> QED
    BY <2>3, <2>4, <2>5
<1>11. EndOf' = EndOf /\ Eof' = Eof
  BY <1>1, SameStream
<1>12. ReceiveTypeOK'
  <2>1. in_pieces' \in BOOLEAN
    <3>1. in_pieces \in BOOLEAN
      BY DEF ReceiveInv, ReceiveTypeOK
    <3> QED
      BY <1>1, <3>1
  <2>2. rcv_wnd' \in 0 .. TCP_WND /\ rcv_ann_wnd' \in 0 .. TCP_WND
    BY <1>2, <1>6, <1>8
  <2>3. bytes_left' \in Nat /\ delivered' \in Seq(Nat) /\ rc' \in {"MQTT_SUCCESS", "failure"}
    BY <1>1, <1>2, <1>10
  <2> QED
    BY <1>1, <2>1, <2>2, <2>3 DEF ReceiveInv, ReceiveTypeOK
<1>13. QueueInv'
  <2>1. PICK from \in Nat, to \in Nat, more \in Nat :
          from = rcv_nxt + 1 /\ to = rcv_nxt + rcv_wnd /\ more = rcv_nxt + rcv_wnd' /\ to <= more
    <3>1. rcv_wnd' = wnd2 /\ wnd2 = wnd + b
      BY <1>6
    <3>2. nxt + 1 \in Nat /\ nxt + wnd \in Nat /\ nxt + wnd2 \in Nat /\ nxt + wnd <= nxt + wnd2
      BY <3>1
    <3> QED
      BY <1>2, <3>1, <3>2
  <2>2. Queue(ooseq, from, to, Eof)
    BY <2>1 DEF ReceiveInv, QueueInv
  <2>3. Queue(ooseq, from, more, Eof)
    BY <1>2, <2>1, <2>2, QueueWider
  <2> QED
    BY <1>1, <1>11, <2>1, <2>3 DEF QueueInv
<1>14. WindowInv'
  <2>1. /\ got_fin => wnd2 + 0 + 1 = all
        /\ ~got_fin => wnd2 + 0 = all
    BY <1>6
  <2> QED
    BY <1>1, <1>2, <1>5, <1>6, <1>7, <1>8, <2>1 DEF WindowInv
<1>15. ChainInv'
  <2>1. recv_data[1][1] + b = l + b + 1
    <3>1. 1 \in 1 .. Len(recv_data[1]) /\ 1 \in 1 .. b
      BY <1>4
    <3>2. recv_data[1][1] = l + 1
      BY <1>9, <3>1
    <3> QED
      BY <3>2
  <2>2. bytes_left' # 0 /\ bytes_left' = b /\ b <= b
    BY <1>1, <1>2, <1>4
  <2>3. b <= all
    <3>1. wnd2 = wnd + b /\ wnd2 <= all
      BY <1>6
    <3> QED
      BY <3>1
  <2> QED
    BY <1>1, <1>2, <1>3, <1>10, <2>1, <2>2, <2>3 DEF ChainInv
<1>16. DeliveredInv'
  <2>1. /\ state = "ESTABLISHED" => ~got_fin /\ rcv_nxt = l + 1 + b /\ rcv_nxt <= Eof
        /\ state \in {"CLOSE_WAIT", "LAST_ACK"} => Eof = l + 1 + b
        /\ state = "CLOSE_WAIT" => got_fin
        /\ state # "LAST_ACK"
    BY <1>1, <1>2, <1>5 DEF ReceiveInv, DeliveredInv
  <2>2. l + b + 1 + 0 = l + 1 + b
    OBVIOUS
  <2> QED
    BY <1>1, <1>5, <1>10, <1>11, <2>1, <2>2 DEF DeliveredInv
<1>17. HandledInv'
  <2>1. ~astray => EndOf[Len(handled)] + b = l + b + 1
    <3>1. SUFFICES ASSUME ~astray
                   PROVE  EndOf[Len(handled)] + b = l + b + 1
      OBVIOUS
    <3>2. EndOf[Len(handled)] + 0 = l + 1
      <4>1. rc = "MQTT_SUCCESS"
        BY <1>4, <1>5 DEF ReceiveInv, HandledInv
      <4> QED
        BY <1>1, <1>2, <3>1, <4>1 DEF ReceiveInv, HandledInv
    <3>3. EndOf[Len(handled)] \in Nat
      <4>1. PICK n \in 0 .. Len(stream) : n = Len(handled)
        BY Numbers DEF ReceiveInv, HandledInv
      <4>2. stream \in Seq(Packets)
        BY DEF ReceiveInv, ReceiveTypeOK
      <4>3. PICK g : g = EndOf /\ EndsOf(g)
        BY <4>2, EndOfIs
      <4>4. g[n] \in Nat
        BY <4>2, <4>3, EndsDiffer
      <4> QED
        BY <4>1, <4>3, <4>4
    <3>4. EndOf[Len(handled)] = l + 1
      BY <3>2, <3>3
    <3>5. l + 1 + b = l + b + 1
      OBVIOUS
    <3> QED
      BY <3>4, <3>5
  <2>2. ~in_pieces' => ~in_pieces /\ InOnePiece
    BY <1>1
  <2>3. ~in_pieces' => ~astray
    BY <2>2 DEF ReceiveInv, HandledInv
  <2>4. ASSUME ~in_pieces'
        PROVE  Len(recv_data) = 1 /\ \E n \in 0 .. Len(stream) : EndOf[n] = l + b + 1
    <3>1. PICK n \in 0 .. Len(stream) :
            Len(recv_data) = 1 /\ EndOf[n] = Len(delivered) + 1 + Len(recv_data[1])
      BY <2>2, <2>4 DEF InOnePiece
    <3>2. Len(recv_data[1]) = b
      BY <1>2, <1>3, <3>1, BytesOfChain
    <3>3. EndOf[n] = l + b + 1
      BY <1>2, <3>1, <3>2
    <3> QED
      BY <3>1, <3>3
  <2>5. (\A i \in 1 .. Len(handled) : handled[i] = i) /\ Len(handled) <= Len(stream)
    BY DEF ReceiveInv, HandledInv
  <2> QED
    BY <1>1, <1>2, <1>10, <1>11, <2>1, <2>3, <2>4, <2>5 DEF HandledInv
<1> QED
  BY <1>12, <1>13, <1>14, <1>15, <1>16, <1>17 DEF ReceiveInv

\* The digits that are subtracted are those that were sent, in all that fits in a window.
LEMMA DigitsAgree ==
  ASSUME NEW r \in Nat, r <= 65535
  PROVE  get_digits_remaining_len(r) = encode_remaining_len(r)
<1>1. CASE r < 128
  <2>1. r \div 128 = 0
    BY <1>1
  <2> QED
    BY <1>1, <2>1 DEF get_digits_remaining_len, encode_remaining_len
<1>2. CASE r >= 128 /\ r < 16384
  <2>1. PICK q \in Nat : q = r \div 128 /\ q # 0 /\ q < 128
    BY <1>2
  <2>2. q \div 128 = 0
    BY <2>1
  <2> QED
    BY <1>2, <2>1, <2>2 DEF get_digits_remaining_len, encode_remaining_len
<1>3. CASE r >= 16384
  <2>1. PICK q \in Nat : q = r \div 128 /\ q >= 128 /\ q < 512
    BY <1>3
  <2>2. PICK t \in Nat : t = q \div 128 /\ t # 0 /\ t < 128
    BY <2>1
  <2>3. t \div 128 = 0 /\ q # 0
    BY <2>1, <2>2
  <2>4. encode_remaining_len(r) = 3
    BY <2>1, <2>2, <2>3 DEF encode_remaining_len
  <2>5. get_digits_remaining_len(r) = 3
    BY <1>3 DEF get_digits_remaining_len
  <2> QED
    BY <2>4, <2>5
<1> QED
  BY <1>1, <1>2, <1>3

\* What get_mqtt_packet leaves of tot_len.
LEMMA BytesLeftIs ==
  ASSUME NEW p \in Packets, NEW left \in Nat, NEW l \in Nat, l = PacketLen(p), l <= left,
         left <= 65535
  PROVE  BytesLeft(left, p) \in Nat /\ BytesLeft(left, p) + l = left
<1>1. p.remaining_len \in Nat /\ (p.type = "PINGRESP" => p.remaining_len = 0)
  <2>1. CASE p \in [type : {"PINGRESP"}, remaining_len : {0}]
    BY <2>1
  <2>2. CASE p \in [type : {"PUBACK"}, remaining_len : {2}]
    BY <2>2
  <2>3. CASE p \in [type : {"SUBACK"}, remaining_len : {3}]
    BY <2>3
  <2>4. CASE p \in [type : {"PUBLISH"}, remaining_len : PublishLens]
    <3>1. p.remaining_len \in PublishLens /\ p.type = "PUBLISH"
      BY <2>4
    <3>2. PublishLens \subseteq Nat
      BY ReceiveAssumption
    <3>3. p.remaining_len \in Nat
      BY ONLY <3>1, <3>2
    <3>4. p.type # "PINGRESP"
      BY ONLY <3>1
    <3> QED
      BY <3>3, <3>4
  <2> QED
    BY <2>1, <2>2, <2>3, <2>4 DEF Packets
<1>2. PICK r \in Nat, d \in 1 .. 4 :
        r = p.remaining_len /\ d = encode_remaining_len(r) /\ l = 1 + d + r
  <2>1. PICK r \in Nat : r = p.remaining_len
    BY <1>1
  <2>2. PICK d \in 1 .. 4 : d = encode_remaining_len(r)
    BY DEF encode_remaining_len
  <2> QED
    BY <2>1, <2>2 DEF PacketLen
<1>3. CASE p.type = "PINGRESP"
  <2>1. r = 0
    BY <1>1, <1>2, <1>3
  <2>2. d = 1
    BY <1>2, <2>1 DEF encode_remaining_len
  <2>3. BytesLeft(left, p) = left - 2 /\ l = 2
    BY <1>2, <1>3, <2>1, <2>2 DEF BytesLeft
  <2> QED
    BY <2>3
<1>4. CASE p.type # "PINGRESP"
  <2>1. get_digits_remaining_len(r) = d
    BY <1>2, DigitsAgree
  <2>2. BytesLeft(left, p) = left - 1 - d - r
    BY <1>2, <1>4, <2>1 DEF BytesLeft
  <2>3. left - 1 - d - r \in Nat /\ left - 1 - d - r + l = left
    BY <1>2
  <2> QED
    BY <2>2, <2>3
<1> QED
  BY <1>3, <1>4

\* Where the callback is in its chain: at the end of what was handled.
LEMMA InCallback ==
  ASSUME ReceiveInv, bytes_left # 0
  PROVE  /\ recv_data # <<>> /\ recv_data[1][1] \in Nat
         /\ Len(recv_data[1]) \in Nat /\ Len(recv_data[1]) <= Bytes(recv_data)
         /\ Waiting = 0
         /\ Offset \in Nat /\ Offset + bytes_left = Bytes(recv_data)
         /\ Position \in Nat /\ Position + bytes_left = Len(delivered) + 1
         /\ ~astray => Position = EndOf[Len(handled)]
<1>1. PICK b \in Nat, left \in Nat, l \in Nat :
        /\ b = Bytes(recv_data) /\ left = bytes_left /\ l = Len(delivered) /\ left <= b /\ left > 0
        /\ recv_data[1][1] + b = l + 1
  <2>1. Bytes(recv_data) \in Nat /\ bytes_left \in Nat /\ Len(delivered) \in Nat
    BY Numbers DEF ReceiveInv
  <2>2. bytes_left <= Bytes(recv_data) /\ recv_data[1][1] + Bytes(recv_data) = Len(delivered) + 1
    BY DEF ReceiveInv, ChainInv
  <2>3. bytes_left > 0
    BY <2>1
  <2> QED
    BY <2>1, <2>2, <2>3
<1>2. recv_data \in Seq(Seq(Nat)) /\ \A i \in 1 .. Len(recv_data) : recv_data[i] # <<>>
  BY DEF ReceiveInv, ReceiveTypeOK, ChainInv
<1>3. recv_data # <<>>
  BY <1>1, <1>2, BytesOfChain
<1>4. /\ recv_data[1] \in Seq(Nat) /\ Len(recv_data[1]) \in Nat /\ Len(recv_data[1]) > 0
      /\ Len(recv_data[1]) <= Bytes(recv_data)
  BY <1>2, <1>3, NoBytes
<1>5. PICK x \in Nat : x = recv_data[1][1]
  <2>1. 1 \in 1 .. Len(recv_data[1])
    BY <1>4
  <2> QED
    BY <1>4, <2>1, ElementOfSeq
<1>6. PICK o \in Nat : o = Offset /\ o + left = b
  <2>1. Offset = b - left
    BY <1>1 DEF Offset
  <2>2. b - left \in Nat /\ b - left + left = b
    BY <1>1
  <2> QED
    BY <2>1, <2>2
<1>7. PICK q \in Nat : q = Position /\ q + left = l + 1
  <2>1. Position = x + o
    BY <1>5, <1>6 DEF Position
  <2>2. x + b = l + 1
    BY <1>1, <1>5
  <2>3. x + o \in Nat /\ x + o + left = l + 1
    BY <1>6, <2>2
  <2> QED
    BY <2>1, <2>3
<1>8. ASSUME ~astray
      PROVE  q = EndOf[Len(handled)]
  <2>1. EndOf[Len(handled)] + left = l + 1
    <3>1. bytes_left # 0
      BY <1>1
    <3> QED
      BY <1>1, <1>8, <3>1 DEF ReceiveInv, HandledInv
  <2>2. PICK e \in Nat : e = EndOf[Len(handled)]
    <3>1. PICK n \in 0 .. Len(stream) : n = Len(handled)
      BY Numbers DEF ReceiveInv, HandledInv
    <3>2. stream \in Seq(Packets)
      BY DEF ReceiveInv, ReceiveTypeOK
    <3>3. PICK g : g = EndOf /\ EndsOf(g)
      BY <3>2, EndOfIs
    <3>4. g[n] \in Nat
      BY <3>2, <3>3, EndsDiffer
    <3> QED
      BY <3>1, <3>3, <3>4
  <2>3. e + left = l + 1
    BY <2>1, <2>2
  <2>4. q = e
    BY <1>7, <2>3
  <2> QED
    BY <2>2, <2>4
<1>9. Waiting = 0
  BY DEF Waiting
<1> QED
  BY <1>1, <1>3, <1>4, <1>5, <1>6, <1>7, <1>8, <1>9

\* A packet that is there is handled: what is left goes down by its length.
LEMMA GetPacketKeeps ==
  ASSUME ReceiveInv, get_mqtt_packet
  PROVE  ReceiveInv'
<1>1. /\ bytes_left # 0 /\ ~astray
      /\ UNCHANGED <<stream, state, rcv_nxt, ooseq, got_fin, delivered, in_pieces, astray>>
      /\ UNCHANGED <<rcv_wnd, rcv_ann_wnd, rcv_ann_right_edge>>
  BY DEF get_mqtt_packet, windowVars
<1>2. PICK n \in PacketAt(Position) :
        /\ IsThere(n) /\ handled' = Append(handled, n) /\ rc' = "MQTT_SUCCESS"
        /\ bytes_left' = BytesLeft(bytes_left, stream[n])
        /\ recv_data' = IF bytes_left' = 0 THEN <<>> ELSE recv_data
  BY DEF get_mqtt_packet
<1>3. /\ stream \in Seq(Packets) /\ handled \in Seq(Nat) /\ recv_data \in Seq(Seq(Nat))
  BY DEF ReceiveInv, ReceiveTypeOK
<1>4. PICK b \in Nat, left \in Nat, l \in Nat, h \in Nat, m \in Nat, o \in Nat, q \in Nat, N \in Nat :
        /\ b = Bytes(recv_data) /\ left = bytes_left /\ l = Len(delivered) /\ h = Len(handled)
        /\ m = Len(recv_data[1]) /\ m <= b /\ o = Offset /\ o + left = b
        /\ q = Position /\ q + left = l + 1 /\ N = Len(stream)
  BY <1>1, Numbers, InCallback DEF ReceiveInv
<1>5. recv_data # <<>> /\ Waiting = 0 /\ q = EndOf[h]
  BY <1>1, <1>4, InCallback
<1>6. n \in 1 .. N /\ EndOf[n - 1] = q
  <2>1. DOMAIN stream = 1 .. N
    BY <1>3, <1>4, LenProperties
  <2> QED
    BY <1>2, <1>4, <2>1 DEF PacketAt
<1>7. PICK g : g = EndOf /\ EndsOf(g)
  BY <1>3, EndOfIs
<1>8. h <= N
  BY <1>4 DEF ReceiveInv, HandledInv
<1>9. n = h + 1
  <2>1. PICK k \in 0 .. Len(stream) : k = n - 1
    BY <1>4, <1>6
  <2>2. h \in 0 .. Len(stream)
    BY <1>4, <1>8
  <2>3. g[k] = g[h]
    BY <1>5, <1>6, <1>7, <2>1
  <2>4. k = h
    BY <1>3, <1>7, <2>1, <2>2, <2>3, EndsDiffer
  <2> QED
    BY <1>6, <2>1, <2>4
<1>10. PICK p \in Nat : p = PacketLen(stream[n]) /\ EndOf[n] = q + p
  <2>1. n \in 1 .. Len(stream)
    BY <1>4, <1>6
  <2>2. PacketLen(stream[n]) \in Nat /\ g[n] = g[n - 1] + PacketLen(stream[n])
    BY <1>7, <2>1 DEF EndsOf
  <2> QED
    BY <1>6, <1>7, <2>2
<1>11. PICK left2 \in Nat : bytes_left' = left2 /\ left = left2 + p
  <2>1. o + p <= m
    BY <1>2, <1>4, <1>10 DEF IsThere
  <2>2. p <= left
    BY <1>4, <2>1
  <2>3. PICK packet \in Packets : packet = stream[n]
    <3>1. n \in 1 .. Len(stream)
      BY <1>4, <1>6
    <3> QED
      BY <1>3, <3>1, ElementOfSeq
  <2>5. left <= 65535
    <3>1. left <= TCP_WND
      BY <1>4 DEF ReceiveInv, ChainInv
    <3> QED
      BY <1>4, <3>1, ReceiveAssumption
  <2>4. BytesLeft(left, packet) \in Nat /\ BytesLeft(left, packet) + p = left
    BY <1>10, <2>2, <2>3, <2>5, BytesLeftIs
  <2> QED
    BY <1>2, <1>4, <2>3, <2>4
<1>12. PICK hs \in Seq(Nat) : /\ hs = handled' /\ Len(hs) = h + 1 /\ \A i \in 1 .. h + 1 : hs[i] = i
  <2>1. n \in Nat
    BY <1>6
  <2>2. /\ Append(handled, n) \in Seq(Nat) /\ Len(Append(handled, n)) = Len(handled) + 1
        /\ \A i \in 1 .. Len(handled) : Append(handled, n)[i] = handled[i]
        /\ Append(handled, n)[Len(handled) + 1] = n
    BY <1>3, <2>1, AppendProperties
  <2>3. PICK hs \in Seq(Nat) :
          /\ hs = Append(handled, n) /\ Len(hs) = h + 1
          /\ (\A i \in 1 .. h : hs[i] = handled[i]) /\ hs[h + 1] = n
    BY <1>4, <2>2
  <2>4. \A i \in 1 .. h : handled[i] = i
    BY <1>4 DEF ReceiveInv, HandledInv
  <2>5. \A i \in 1 .. h + 1 : i \in 1 .. h \/ i = h + 1
    OBVIOUS
  <2>6. \A i \in 1 .. h + 1 : hs[i] = i
    BY <1>9, <2>3, <2>4, <2>5
  <2> QED
    BY <1>2, <2>3, <2>6
<1>13. EndOf' = EndOf /\ Eof' = Eof
  BY <1>1, SameStream
<1>14. Waiting' = 0
  <2>1. CASE bytes_left' = 0
    <3>1. recv_data' = <<>> /\ <<>> \in Seq(Seq(Nat))
      BY <1>2, <2>1, EmptySeq
    <3>2. PICK c \in Seq(Seq(Nat)) : c = <<>> /\ Bytes(c) = 0
      BY <3>1, BytesOfChain
    <3> QED
      BY <2>1, <3>1, <3>2 DEF Waiting
  <2>2. CASE bytes_left' # 0
    BY <2>2 DEF Waiting
  <2> QED
    BY <2>1, <2>2
<1>15. ReceiveTypeOK'
  <2>1. recv_data' \in Seq(Seq(Nat))
    BY <1>2, <1>3, EmptySeq
  <2> QED
    BY <1>1, <1>2, <1>11, <1>12, <2>1 DEF ReceiveInv, ReceiveTypeOK
<1>16. QueueInv'
  BY <1>1, <1>13 DEF ReceiveInv, QueueInv
<1>17. WindowInv'
  BY <1>1, <1>5, <1>14 DEF ReceiveInv, WindowInv
<1>18. ChainInv'
  <2>1. CASE bytes_left' = 0
    <3>1. PICK c \in Seq(Seq(Nat)) : c = recv_data' /\ c = <<>> /\ Bytes(c) = 0 /\ Len(c) = 0
      <4>1. recv_data' = <<>> /\ <<>> \in Seq(Seq(Nat))
        BY <1>2, <2>1, EmptySeq
      <4>2. PICK c \in Seq(Seq(Nat)) : c = <<>> /\ Bytes(c) = 0 /\ Len(c) = 0
        BY <4>1, BytesOfChain, EmptySeq
      <4> QED
        BY <4>1, <4>2
    <3>2. (\A i \in 1 .. 0 : FALSE) /\ 0 <= TCP_WND
      BY ReceiveAssumption
    <3> QED
      BY <2>1, <3>1, <3>2 DEF ChainInv
  <2>2. CASE bytes_left' # 0
    <3>1. recv_data' = recv_data
      BY <1>2, <2>2
    <3>2. left2 <= b /\ left2 <= left
      <4>1. o + left = b
        BY <1>4
      <4> QED
        BY <1>11, <4>1
    <3>3. bytes_left' <= Bytes(recv_data)
      BY <1>4, <1>11, <3>2
    <3>4. bytes_left' <= TCP_WND
      <4>1. left <= TCP_WND
        BY <1>4 DEF ReceiveInv, ChainInv
      <4>2. PICK all \in Nat : all = TCP_WND
        BY ReceiveAssumption
      <4> QED
        BY <1>4, <1>11, <3>2, <4>1, <4>2
    <3> QED
      BY <1>1, <2>2, <3>1, <3>3, <3>4 DEF ReceiveInv, ChainInv
  <2> QED
    BY <2>1, <2>2
<1>19. DeliveredInv'
  <2>1. state # "LAST_ACK"
    BY <1>5 DEF ReceiveInv, DeliveredInv
  <2> QED
    BY <1>1, <1>5, <1>13, <1>14, <2>1 DEF ReceiveInv, DeliveredInv
<1>20. HandledInv'
  <2>1. h + 1 <= N
    BY <1>6, <1>9
  <2>2. EndOf[h + 1] + left2 = l + 1
    <3>1. q + p + left2 = l + 1
      <4>1. q + left = l + 1
        BY <1>4
      <4> QED
        BY <1>11, <4>1
    <3> QED
      BY <1>9, <1>10, <3>1
  <2>3. ASSUME ~in_pieces, bytes_left' # 0
        PROVE  Len(recv_data') = 1 /\ \E k \in 0 .. Len(stream) : EndOf[k] = Len(delivered) + 1
    <3>1. recv_data' = recv_data
      BY <1>2, <2>3
    <3> QED
      BY <1>1, <2>3, <3>1 DEF ReceiveInv, HandledInv
  <2>4. ~in_pieces => ~astray
    BY DEF ReceiveInv, HandledInv
  <2> QED
    BY <1>1, <1>2, <1>4, <1>11, <1>12, <1>13, <2>1, <2>2, <2>3, <2>4 DEF HandledInv
<1> QED
  BY <1>15, <1>16, <1>17, <1>18, <1>19, <1>20 DEF ReceiveInv

\* As long as all came in one piece, the next packet is there.
LEMMA NextIsThere ==
  ASSUME ReceiveInv, bytes_left # 0, ~in_pieces
  PROVE  \E n \in PacketAt(Position) : IsThere(n)
<1>1. ~astray
  BY DEF ReceiveInv, HandledInv
<1>2. stream \in Seq(Packets) /\ recv_data \in Seq(Seq(Nat))
  BY DEF ReceiveInv, ReceiveTypeOK
<1>3. PICK b \in Nat, left \in Nat, l \in Nat, h \in Nat, o \in Nat, q \in Nat, N \in Nat :
        /\ b = Bytes(recv_data) /\ left = bytes_left /\ left > 0 /\ l = Len(delivered) /\ h = Len(handled)
        /\ o = Offset /\ o + left = b /\ q = Position /\ q + left = l + 1 /\ N = Len(stream)
  <2>1. /\ Bytes(recv_data) \in Nat /\ bytes_left \in Nat /\ Len(delivered) \in Nat
        /\ Len(handled) \in Nat /\ Len(stream) \in Nat
    BY Numbers DEF ReceiveInv
  <2>2. /\ Offset \in Nat /\ Offset + bytes_left = Bytes(recv_data)
        /\ Position \in Nat /\ Position + bytes_left = Len(delivered) + 1
    BY InCallback
  <2>3. bytes_left > 0
    BY <2>1
  <2> QED
    BY <2>1, <2>2, <2>3
<1>4. q = EndOf[h] /\ h <= N
  BY <1>1, <1>3, InCallback DEF ReceiveInv, HandledInv
<1>5. PICK k \in 0 .. Len(stream) : Len(recv_data) = 1 /\ EndOf[k] = l + 1
  BY <1>3 DEF ReceiveInv, HandledInv
<1>6. Len(recv_data[1]) = b
  BY <1>2, <1>3, <1>5, BytesOfChain
<1>7. PICK g : g = EndOf /\ EndsOf(g)
  BY <1>2, EndOfIs
<1>8. h < k
  <2>1. h \in 0 .. Len(stream)
    BY <1>3, <1>4
  <2>2. g[h] < g[k]
    <3>1. q < l + 1
      BY <1>3
    <3> QED
      BY <1>4, <1>5, <1>7, <3>1
  <2> QED
    BY <1>2, <1>7, <2>1, <2>2, EndsDiffer
<1>9. PICK n \in 1 .. N : n = h + 1 /\ n - 1 = h /\ n <= k
  <2>1. h + 1 \in 1 .. N /\ h + 1 - 1 = h /\ h + 1 <= k
    BY <1>3, <1>5, <1>8
  <2> QED
    BY <2>1
<1>10. PICK p \in Nat : p = PacketLen(stream[n]) /\ g[n] = q + p
  <2>1. n \in 1 .. Len(stream)
    BY <1>3
  <2>2. PacketLen(stream[n]) \in Nat /\ g[n] = g[n - 1] + PacketLen(stream[n])
    BY <1>7, <2>1 DEF EndsOf
  <2> QED
    BY <1>4, <1>7, <1>9, <2>2
<1>11. q + p <= l + 1
  <2>1. CASE n = k
    BY <1>5, <1>7, <1>10, <2>1
  <2>2. CASE n # k
    <3>1. n \in 0 .. Len(stream) /\ n < k
      BY <1>3, <1>5, <1>9, <2>2
    <3>2. g[n] < g[k]
      BY <1>2, <1>7, <3>1, EndsGrow
    <3>3. q + p < l + 1
      BY <1>5, <1>7, <1>10, <3>2
    <3> QED
      BY <3>3
  <2> QED
    BY <2>1, <2>2
<1>12. n \in PacketAt(Position)
  <2>1. DOMAIN stream = 1 .. N
    BY <1>2, <1>3, LenProperties
  <2>2. EndOf[n - 1] = Position
    BY <1>3, <1>4, <1>9
  <2> QED
    BY <2>1, <2>2 DEF PacketAt
<1>13. IsThere(n)
  <2>1. o + p <= b
    BY <1>3, <1>11
  <2> QED
    BY <1>3, <1>6, <1>10, <2>1 DEF IsThere
<1> QED
  BY <1>12, <1>13

\* A step of the callback's loop that takes no packet off, and may close or end the callback.
LEMMA LoopKeeps ==
  ASSUME ReceiveInv, bytes_left # 0, state' \in {state, tcp_close(state, rcv_wnd)},
         \/ bytes_left' = 0 /\ recv_data' = <<>>
         \/ UNCHANGED <<bytes_left, recv_data>>,
         rc' \in {"MQTT_SUCCESS", "failure"}, astray' \in BOOLEAN,
         UNCHANGED <<stream, rcv_nxt, ooseq, got_fin, delivered, handled, in_pieces>>,
         UNCHANGED <<rcv_wnd, rcv_ann_wnd, rcv_ann_right_edge>>
  PROVE  /\ ReceiveTypeOK' /\ QueueInv' /\ WindowInv' /\ ChainInv' /\ DeliveredInv'
         /\ EndOf' = EndOf /\ Waiting' = 0
<1>1. recv_data # <<>> /\ Waiting = 0
  BY InCallback
<1>2. PICK c \in Seq(Seq(Nat)) : c = <<>> /\ Bytes(c) = 0 /\ Len(c) = 0
  <2>1. <<>> \in Seq(Seq(Nat))
    BY EmptySeq
  <2> QED
    BY <2>1, BytesOfChain, EmptySeq
<1>3. EndOf' = EndOf /\ Eof' = Eof
  BY SameStream
<1>4. Waiting' = 0
  <2>1. CASE bytes_left' = 0 /\ recv_data' = <<>>
    BY <1>2, <2>1 DEF Waiting
  <2>2. CASE UNCHANGED <<bytes_left, recv_data>>
    BY <2>2 DEF Waiting
  <2> QED
    BY <2>1, <2>2
<1>5. state \in {"ESTABLISHED", "CLOSE_WAIT", "LAST_ACK", "FIN_WAIT_1", "freed"} /\ state # "LAST_ACK"
  BY <1>1 DEF ReceiveInv, ReceiveTypeOK, DeliveredInv
<1>6. state = "CLOSE_WAIT" => rcv_wnd # TCP_WND
  <2>1. SUFFICES ASSUME state = "CLOSE_WAIT"
                 PROVE  rcv_wnd # TCP_WND
    OBVIOUS
  <2>2. rcv_wnd + 0 + 1 = TCP_WND
    BY <1>1, <2>1 DEF ReceiveInv, DeliveredInv, WindowInv
  <2> QED
    BY <2>2, Numbers DEF ReceiveInv
<1>7. state' = state \/ state' \in {"FIN_WAIT_1", "freed"}
  BY <1>5, <1>6, CloseIs
<1>8. ReceiveTypeOK'
  <2>1. bytes_left' \in Nat /\ recv_data' \in Seq(Seq(Nat))
    <3>1. bytes_left \in Nat /\ recv_data \in Seq(Seq(Nat)) /\ 0 \in Nat
      BY DEF ReceiveInv, ReceiveTypeOK
    <3> QED
      BY <1>2, <3>1
  <2>2. state' \in {"ESTABLISHED", "CLOSE_WAIT", "LAST_ACK", "FIN_WAIT_1", "freed"}
    BY <1>5, <1>7
  <2> QED
    BY <2>1, <2>2 DEF ReceiveInv, ReceiveTypeOK
<1>9. QueueInv'
  BY <1>3 DEF ReceiveInv, QueueInv
<1>10. WindowInv'
  BY <1>1, <1>4 DEF ReceiveInv, WindowInv
<1>11. ChainInv'
  <2>1. CASE bytes_left' = 0 /\ recv_data' = <<>>
    <3>1. PICK d : d = recv_data' /\ d = c
      BY <1>2, <2>1
    <3>2. (\A i \in 1 .. 0 : FALSE) /\ 0 <= TCP_WND /\ 0 <= 0
      BY ReceiveAssumption
    <3> QED
      BY <1>2, <2>1, <3>1, <3>2 DEF ChainInv
  <2>2. CASE UNCHANGED <<bytes_left, recv_data>>
    BY <2>2 DEF ReceiveInv, ChainInv
  <2> QED
    BY <2>1, <2>2
<1>12. DeliveredInv'
  <2>1. CASE state' = state
    BY <1>1, <1>3, <1>4, <1>5, <2>1 DEF ReceiveInv, DeliveredInv
  <2>2. CASE state' \in {"FIN_WAIT_1", "freed"}
    BY <2>2 DEF ReceiveInv, DeliveredInv
  <2> QED
    BY <1>7, <2>1, <2>2
<1> QED
  BY <1>3, <1>4, <1>8, <1>9, <1>10, <1>11, <1>12

\* A packet that fails is still the next one, unless the callback ends with it.
LEMMA FailsKeeps ==
  ASSUME ReceiveInv, get_mqtt_packet_fails
  PROVE  ReceiveInv'
<1>1. /\ bytes_left # 0 /\ ~astray /\ rc' = "failure" /\ state' = tcp_close(state, rcv_wnd)
      /\ \/ bytes_left' = 0 /\ recv_data' = <<>>
         \/ UNCHANGED <<bytes_left, recv_data>>
      /\ UNCHANGED <<stream, rcv_nxt, ooseq, got_fin, delivered, handled, in_pieces, astray>>
      /\ UNCHANGED <<rcv_wnd, rcv_ann_wnd, rcv_ann_right_edge>>
  BY DEF get_mqtt_packet_fails, windowVars
<1>2. astray' \in BOOLEAN
  BY <1>1 DEF ReceiveInv, ReceiveTypeOK
<1>3. /\ ReceiveTypeOK' /\ QueueInv' /\ WindowInv' /\ ChainInv' /\ DeliveredInv'
      /\ EndOf' = EndOf /\ Waiting' = 0
  BY <1>1, <1>2, LoopKeeps
<1>4. state' # "ESTABLISHED"
  <2>1. state \in {"ESTABLISHED", "CLOSE_WAIT", "LAST_ACK", "FIN_WAIT_1", "freed"}
    BY DEF ReceiveInv, ReceiveTypeOK
  <2> QED
    BY <1>1, <2>1, CloseIs
<1>5. HandledInv'
  BY <1>1, <1>3, <1>4 DEF ReceiveInv, HandledInv
<1> QED
  BY <1>3, <1>5 DEF ReceiveInv

\* Something came in pieces before a packet is read that is not all there.
LEMMA BeyondKeeps ==
  ASSUME ReceiveInv, get_mqtt_packet_beyond
  PROVE  ReceiveInv'
<1>1. /\ bytes_left # 0 /\ (astray \/ ~ \E n \in PacketAt(Position) : IsThere(n))
      /\ astray' = TRUE
      /\ \/ rc' = "MQTT_SUCCESS" /\ state' = state
         \/ rc' = "failure" /\ state' = tcp_close(state, rcv_wnd)
      /\ \/ bytes_left' = 0 /\ recv_data' = <<>>
         \/ UNCHANGED <<bytes_left, recv_data>>
      /\ UNCHANGED <<stream, rcv_nxt, ooseq, got_fin, delivered, handled, in_pieces>>
      /\ UNCHANGED <<rcv_wnd, rcv_ann_wnd, rcv_ann_right_edge>>
  BY DEF get_mqtt_packet_beyond, windowVars
<1>2. in_pieces
  <2>1. SUFFICES ASSUME ~in_pieces
                 PROVE  FALSE
    BY DEF ReceiveInv, ReceiveTypeOK
  <2>2. ~astray
    BY <2>1 DEF ReceiveInv, HandledInv
  <2>3. \E n \in PacketAt(Position) : IsThere(n)
    BY <1>1, <2>1, NextIsThere
  <2> QED
    BY <1>1, <2>2, <2>3
<1>3. /\ ReceiveTypeOK' /\ QueueInv' /\ WindowInv' /\ ChainInv' /\ DeliveredInv'
      /\ EndOf' = EndOf /\ Waiting' = 0
  <2>1. state' \in {state, tcp_close(state, rcv_wnd)} /\ rc' \in {"MQTT_SUCCESS", "failure"}
        /\ astray' \in BOOLEAN
    BY <1>1
  <2> QED
    BY <1>1, <2>1, LoopKeeps
<1>4. rc' # "MQTT_SUCCESS" => state' # "ESTABLISHED"
  <2>1. state \in {"ESTABLISHED", "CLOSE_WAIT", "LAST_ACK", "FIN_WAIT_1", "freed"}
    BY DEF ReceiveInv, ReceiveTypeOK
  <2> QED
    BY <1>1, <2>1, CloseIs
<1>5. HandledInv'
  BY <1>1, <1>2, <1>3, <1>4 DEF ReceiveInv, HandledInv
<1> QED
  BY <1>3, <1>5 DEF ReceiveInv

\* Between two segments nothing waits, and all of the window is free.
LEMMA BetweenSegments ==
  ASSUME ReceiveInv, state = "ESTABLISHED", recv_data = <<>>
  PROVE  /\ bytes_left = 0 /\ Waiting = 0 /\ ~got_fin
         /\ rcv_wnd = TCP_WND /\ rcv_nxt = Len(delivered) + 1 /\ rcv_nxt <= Eof
         /\ rcv_ann_right_edge <= rcv_nxt + rcv_wnd
<1>1. recv_data \in Seq(Seq(Nat))
  BY DEF ReceiveInv, ReceiveTypeOK
<1>2. Bytes(recv_data) = 0
  BY <1>1, BytesOfChain
<1>3. bytes_left = 0
  <2>1. bytes_left <= Bytes(recv_data) /\ bytes_left \in Nat
    BY Numbers DEF ReceiveInv, ChainInv
  <2> QED
    BY <1>2, <2>1
<1>4. Waiting = 0
  BY <1>2, <1>3 DEF Waiting
<1>5. ~got_fin /\ rcv_nxt = Len(delivered) + 1 + Waiting /\ rcv_nxt <= Eof
  BY DEF ReceiveInv, DeliveredInv
<1>6. rcv_wnd + Waiting = TCP_WND /\ rcv_ann_right_edge <= rcv_nxt + rcv_wnd
  BY <1>5 DEF ReceiveInv, WindowInv
<1>7. rcv_wnd \in Nat /\ Len(delivered) \in Nat
  BY Numbers DEF ReceiveInv
<1> QED
  BY <1>3, <1>4, <1>5, <1>6, <1>7

\* A segment ahead of rcv_nxt changes the queue only.
LEMMA EarlyKeeps ==
  ASSUME ReceiveInv, NEW s, OfStream(s, Eof), EndOfSeg(s) <= rcv_ann_right_edge,
         state = "ESTABLISHED", recv_data = <<>>, s.seqno > rcv_nxt, Early(s),
         UNCHANGED <<stream, rcv_ann_right_edge>>,
         UNCHANGED <<bytes_left, rc, delivered, handled, in_pieces, astray>>
  PROVE  ReceiveInv'
<1>1. /\ ooseq' = Queued(s)
      /\ UNCHANGED <<rcv_nxt, rcv_wnd, rcv_ann_wnd, recv_data, got_fin, state>>
  BY DEF Early
<1>2. PICK nxt \in Nat, wnd \in Nat, edge \in Nat, eof \in Nat :
        nxt = rcv_nxt /\ wnd = rcv_wnd /\ edge = rcv_ann_right_edge /\ eof = Eof /\ edge <= nxt + wnd
  BY Numbers, BetweenSegments DEF ReceiveInv
<1>3. EndOf' = EndOf /\ Eof' = Eof
  BY SameStream
<1>4. PICK from \in Nat, to \in Nat : from = nxt + 1 /\ to = nxt + wnd
  OBVIOUS
<1>5. Queue(Queued(s), from, to, eof)
  <2>1. Queue(ooseq, from, to, eof)
    BY <1>2, <1>4 DEF ReceiveInv, QueueInv
  <2>2. PICK a \in Nat, e \in Nat : a = s.seqno /\ e = EndOfSeg(s)
    BY <1>2, SegmentOf
  <2>3. from <= s.seqno /\ EndOfSeg(s) <= to
    BY <1>2, <1>4, <2>2
  <2>4. OfStream(s, eof)
    BY <1>2
  <2> QED
    BY <2>1, <2>3, <2>4, QueuedIs
<1>6. QueueInv'
  BY <1>1, <1>2, <1>3, <1>4, <1>5 DEF QueueInv
<1>7. ReceiveTypeOK'
  <2>1. ooseq' \in Seq([seqno : Nat, data : Seq(Nat), fin : BOOLEAN])
    BY <1>1, <1>5 DEF Queue, Segments
  <2> QED
    BY <1>1, <2>1 DEF ReceiveInv, ReceiveTypeOK
<1>8. Waiting' = Waiting
  BY <1>1 DEF Waiting
<1>9. WindowInv'
  BY <1>1, <1>8 DEF ReceiveInv, WindowInv
<1>10. ChainInv'
  BY <1>1 DEF ReceiveInv, ChainInv
<1>11. DeliveredInv'
  BY <1>1, <1>3, <1>8 DEF ReceiveInv, DeliveredInv
<1>12. HandledInv'
  BY <1>1, <1>3, <1>8 DEF ReceiveInv, HandledInv
<1> QED
  BY <1>6, <1>7, <1>9, <1>10, <1>11, <1>12 DEF ReceiveInv

\* A segment at rcv_nxt, and those that join up with it, take from the window what they
\* put in recv_data.
LEMMA InSequenceKeeps ==
  ASSUME ReceiveInv, NEW s, OfStream(s, Eof), EndOfSeg(s) <= rcv_ann_right_edge,
         state = "ESTABLISHED", recv_data = <<>>, s.seqno = rcv_nxt, InSequence(s),
         UNCHANGED <<stream, rcv_ann_right_edge>>,
         UNCHANGED <<bytes_left, rc, delivered, handled, in_pieces, astray>>
  PROVE  ReceiveInv'
<1>1. PICK queue, n, chain, rest, len :
        /\ queue = BeforeQueue(s, ooseq) /\ n = Contiguous(queue) /\ Parts(queue, n, chain, rest)
        /\ len = Total([i \in 1 .. n |-> TCP_TCPLEN(queue[i])])
        /\ PassedUp(chain, rest, len)
  BY DEF InSequence, Parts
<1>2. PICK fin \in BOOLEAN : fin = \E i \in DOMAIN chain : chain[i].fin
  OBVIOUS
<1>3. /\ rcv_nxt' = rcv_nxt + len /\ rcv_wnd' = rcv_wnd - len
      /\ rcv_ann_wnd' = tcp_update_rcv_ann_wnd(rcv_nxt + len, rcv_wnd - len)
      /\ ooseq' = rest /\ recv_data' = Joined(chain) /\ got_fin' = fin
      /\ state' = IF fin THEN "CLOSE_WAIT" ELSE state
  BY <1>1, <1>2 DEF PassedUp
<1>4. PICK nxt \in Nat, wnd \in Nat, edge \in Nat, eof \in Nat, all \in Nat, l \in Nat :
        /\ rcv_nxt = nxt /\ rcv_wnd = wnd /\ rcv_ann_right_edge = edge /\ Eof = eof /\ edge <= nxt + wnd
        /\ TCP_WND = all /\ wnd = all /\ Len(delivered) = l /\ nxt = l + 1 /\ nxt > 0
        /\ bytes_left = 0 /\ all >= 2
  BY Numbers, BetweenSegments DEF ReceiveInv
<1>5. EndOf' = EndOf /\ Eof' = Eof
  BY SameStream
<1>6. PICK to \in Nat : to = nxt + wnd
  OBVIOUS
<1>7. Queue(queue, nxt, to, eof) /\ Len(queue) > 0 /\ queue[1].seqno = nxt
  <2>1. PICK from \in Nat : from = nxt + 1 /\ Queue(ooseq, from, to, eof)
    BY <1>4, <1>6 DEF ReceiveInv, QueueInv
  <2>2. PICK e \in Nat : e = EndOfSeg(s)
    BY <1>4, SegmentOf
  <2>3. s.seqno <= from /\ EndOfSeg(s) <= to /\ OfStream(s, eof)
    BY <1>4, <1>6, <2>1, <2>2
  <2>4. PICK q : q = ooseq /\ Queue(q, from, to, eof)
    BY <2>1
  <2>5. q # <<>> => q[1].seqno # s.seqno
    <3>1. SUFFICES ASSUME q # <<>>
                   PROVE  q[1].seqno # s.seqno
      OBVIOUS
    <3>2. q[1].seqno \in Nat /\ from <= q[1].seqno
      BY <2>4, <3>1, QueueFrom
    <3> QED
      BY <1>4, <2>1, <3>2
  <2>6. Longer(s, q)
    BY <2>5 DEF Longer
  <2>7. /\ Queue(BeforeQueue(s, q), s.seqno, to, eof) /\ Len(BeforeQueue(s, q)) > 0
        /\ BeforeQueue(s, q)[1].seqno = s.seqno
    BY <2>3, <2>4, <2>6, BeforeQueueIs
  <2> QED
    BY <1>1, <1>4, <2>4, <2>7
<1>8. PICK c : c = Joined(chain)
  OBVIOUS
<1>9. /\ len \in Nat /\ len > 0 /\ nxt + len <= to
      /\ Queue(rest, nxt + len + 1, to, eof)
      /\ c \in Seq(Seq(Nat)) /\ \A i \in 1 .. Len(c) : c[i] # <<>>
      /\ \A k \in 1 .. Bytes(c) : Flattened(c)[k] = nxt + k - 1
      /\ fin => Bytes(c) + 1 = len /\ nxt + len = eof + 1
      /\ ~fin => Bytes(c) = len /\ nxt + len <= eof
  <2>1. Passed(queue, n, chain, rest, len, fin)
    BY <1>1, <1>2 DEF Passed
  <2>2. Queue(queue, nxt, to, eof) /\ Len(queue) > 0 /\ queue[1].seqno = nxt /\ nxt > 0
    BY <1>4, <1>7
  <2>3. /\ len \in Nat /\ len > 0 /\ nxt + len <= to
        /\ Queue(rest, nxt + len + 1, to, eof)
        /\ Joined(chain) \in Seq(Seq(Nat))
        /\ \A i \in 1 .. Len(Joined(chain)) : Joined(chain)[i] # <<>>
        /\ \A k \in 1 .. Bytes(Joined(chain)) : Flattened(Joined(chain))[k] = nxt + k - 1
        /\ fin => Bytes(Joined(chain)) + 1 = len /\ nxt + len = eof + 1
        /\ ~fin => Bytes(Joined(chain)) = len /\ nxt + len <= eof
    BY SMTT(30), <2>1, <2>2, PassedUpIs
  <2> QED
    BY <1>8, <2>3
<1>10. PICK b \in Nat, nxt2 \in Nat, wnd2 \in Nat :
         /\ Bytes(c) = b /\ nxt2 = nxt + len /\ wnd = wnd2 + len
         /\ rcv_nxt' = nxt2 /\ rcv_wnd' = wnd2 /\ nxt2 + wnd2 = to
  <2>1. Bytes(c) \in Nat
    BY <1>9, BytesOfChain
  <2>2. PICK k \in Nat : k = len
    BY <1>9
  <2>3. nxt + k <= nxt + wnd
    BY <1>6, <1>9, <2>2
  <2>4. nxt + k \in Nat /\ wnd - k \in Nat /\ wnd = wnd - k + k /\ nxt + k + (wnd - k) = to
    BY <1>6, <2>3
  <2> QED
    BY <1>3, <1>4, <2>1, <2>2, <2>4
<1>11. /\ recv_data' = c /\ bytes_left' = 0
       /\ bytes_left' = bytes_left /\ delivered' = delivered
  BY <1>3, <1>4, <1>8
<1>12. Waiting' = b
  BY <1>10, <1>11 DEF Waiting
<1>13. ASSUME fin
       PROVE  wnd2 + b + 1 = all /\ eof = l + 1 + b /\ wnd2 + 1 + b = all
  <2>1. b + 1 = len /\ nxt + len = eof + 1
    BY <1>9, <1>10, <1>13
  <2>2. wnd2 + (b + 1) = all
    BY <1>4, <1>10, <2>1
  <2>3. l + 1 + (b + 1) = eof + 1
    BY <1>4, <2>1
  <2> QED
    BY <2>2, <2>3
<1>14. ASSUME ~fin
       PROVE  wnd2 + b = all /\ nxt2 = l + 1 + b /\ nxt2 <= eof
  <2>1. b = len /\ nxt + len <= eof
    BY <1>9, <1>10, <1>14
  <2> QED
    BY <1>4, <1>10, <2>1
<1>15. edge <= nxt2 + wnd2
  BY <1>4, <1>6, <1>10
<1>16. PICK ann \in Nat : rcv_ann_wnd' = ann /\ ann <= wnd2 /\ (c = <<>> => ann > 0)
  <2>1. PICK ann : ann = tcp_update_rcv_ann_wnd(nxt2, wnd2)
    OBVIOUS
  <2>2. rcv_ann_wnd' = ann
    <3>1. rcv_nxt + len = nxt2 /\ rcv_wnd - len = wnd2
      BY <1>3, <1>10
    <3> QED
      BY <1>3, <2>1, <3>1
  <2>3. rcv_ann_right_edge \in Nat /\ wnd2 <= TCP_WND /\ rcv_ann_right_edge <= nxt2 + wnd2
    <3>1. wnd2 <= wnd
      BY <1>9, <1>10
    <3> QED
      BY <1>4, <1>15, <3>1
  <2>4. ann \in Nat /\ ann <= wnd2 /\ (wnd2 >= TCP_WND - 1 => ann > 0)
    BY <2>1, <2>3, AnnouncedIs
  <2>5. c = <<>> => wnd2 >= TCP_WND - 1
    <3>1. SUFFICES ASSUME c = <<>>
                   PROVE  wnd2 >= TCP_WND - 1
      OBVIOUS
    <3>2. b = 0
      BY <1>9, <1>10, <3>1, BytesOfChain
    <3>3. CASE fin
      BY <1>4, <1>13, <3>2, <3>3
    <3>4. CASE ~fin
      BY <1>4, <1>14, <3>2, <3>4
    <3> QED
      BY <3>3, <3>4
  <2> QED
    BY <2>2, <2>4, <2>5
<1>17. state' # "ESTABLISHED" <=> fin
  BY <1>3
<1>18. ReceiveTypeOK'
  <2>1. rcv_nxt' \in Nat \ {0} /\ rcv_wnd' \in 0 .. TCP_WND /\ rcv_ann_wnd' \in 0 .. TCP_WND
    <3>1. nxt2 > 0 /\ wnd2 <= wnd /\ ann <= wnd2
      BY <1>4, <1>9, <1>10, <1>16
    <3>2. wnd2 \in 0 .. wnd /\ ann \in 0 .. wnd
      BY <3>1
    <3> QED
      BY <1>4, <1>10, <1>16, <3>1, <3>2
  <2>2. ooseq' \in Seq([seqno : Nat, data : Seq(Nat), fin : BOOLEAN])
    BY <1>3, <1>9 DEF Queue, Segments
  <2>3. recv_data' \in Seq(Seq(Nat)) /\ got_fin' \in BOOLEAN
    BY <1>3, <1>9, <1>11
  <2>4. state' \in {"ESTABLISHED", "CLOSE_WAIT", "LAST_ACK", "FIN_WAIT_1", "freed"}
    BY <1>3
  <2> QED
    BY <2>1, <2>2, <2>3, <2>4 DEF ReceiveInv, ReceiveTypeOK
<1>19. QueueInv'
  <2>1. Queue(rest, nxt2 + 1, to, eof)
    BY <1>9, <1>10
  <2> QED
    BY <1>3, <1>4, <1>5, <1>10, <2>1 DEF QueueInv
<1>20. WindowInv'
  <2>1. got_fin' => wnd2 + b + 1 = all
    BY <1>3, <1>13
  <2>2. ~got_fin' => wnd2 + b = all
    BY <1>3, <1>14
  <2>3. rcv_ann_right_edge' <= rcv_nxt' + rcv_wnd'
    BY <1>4, <1>10, <1>15
  <2> QED
    BY <1>4, <1>10, <1>11, <1>12, <1>16, <2>1, <2>2, <2>3 DEF WindowInv
<1>21. ChainInv'
  <2>1. \A k \in 1 .. b : Flattened(c)[k] = l + k
    <3> TAKE k \in 1 .. b
    <3>1. Flattened(c)[k] = nxt + k - 1
      BY <1>9, <1>10
    <3>2. nxt + k - 1 = l + k
      BY <1>4
    <3> QED
      BY <3>1, <3>2
  <2>2. 0 <= b /\ 0 <= all
    OBVIOUS
  <2> QED
    BY <1>4, <1>9, <1>10, <1>11, <2>1, <2>2 DEF ChainInv
<1>22. DeliveredInv'
  <2>1. \A i \in 1 .. Len(delivered) : delivered[i] = i
    BY DEF ReceiveInv, DeliveredInv
  <2>2. state' = "ESTABLISHED" => ~got_fin' /\ nxt2 = l + 1 + b /\ nxt2 <= eof
    BY <1>3, <1>14, <1>17
  <2>3. state' # "ESTABLISHED" => eof = l + 1 + b
    BY <1>13, <1>17
  <2>4. state' # "LAST_ACK" /\ (state' = "CLOSE_WAIT" => got_fin')
    BY <1>3
  <2> QED
    BY <1>4, <1>5, <1>10, <1>11, <1>12, <2>1, <2>2, <2>3, <2>4 DEF DeliveredInv
<1>23. HandledInv'
  <2>1. bytes_left' = bytes_left /\ bytes_left = 0
    BY <1>4, <1>11
  <2>2. rc = "MQTT_SUCCESS"
    BY DEF ReceiveInv, HandledInv
  <2> QED
    BY <1>5, <2>1, <2>2 DEF ReceiveInv, HandledInv
<1> QED
  BY <1>18, <1>19, <1>20, <1>21, <1>22, <1>23 DEF ReceiveInv

\* A segment that comes is early or in sequence, once what came before is cut off.
LEMMA ReceiveKeeps ==
  ASSUME ReceiveInv, NEW n \in 1 .. Eof, NEW arriving \in SegmentsFrom(n), tcp_receive(arriving)
  PROVE  ReceiveInv'
<1>1. PICK s : s = Trimmed(arriving)
  OBVIOUS
<1>2. /\ state = "ESTABLISHED" /\ recv_data = <<>>
      /\ UNCHANGED <<stream, rcv_ann_right_edge>>
      /\ UNCHANGED <<bytes_left, rc, delivered, handled, in_pieces, astray>>
      /\ \/ s.seqno = rcv_nxt /\ InSequence(s)
         \/ s.seqno > rcv_nxt /\ Early(s)
  BY <1>1 DEF tcp_receive, clientVars
<1>3. Eof \in Nat /\ rcv_ann_right_edge \in Nat /\ rcv_nxt \in Nat /\ rcv_nxt > 0
  BY Numbers DEF ReceiveInv
<1>4. OfStream(arriving, Eof) /\ EndOfSeg(arriving) <= rcv_ann_right_edge
  BY <1>3, ArrivingIs
<1>5. OfStream(s, Eof) /\ EndOfSeg(s) <= rcv_ann_right_edge
  <2>1. PICK eof \in Nat : eof = Eof
    BY <1>3
  <2>2. OfStream(arriving, eof)
    BY <1>4, <2>1
  <2>3. OfStream(s, eof) /\ EndOfSeg(s) = EndOfSeg(arriving)
    BY <1>1, <1>3, <2>2, TrimmedIs
  <2> QED
    BY <1>4, <2>1, <2>3
<1>6. CASE s.seqno = rcv_nxt /\ InSequence(s)
  BY <1>2, <1>5, <1>6, InSequenceKeeps
<1>7. CASE s.seqno > rcv_nxt /\ Early(s)
  BY <1>2, <1>5, <1>7, EarlyKeeps
<1> QED
  BY <1>2, <1>6, <1>7

\* At the start nothing has come.
LEMMA InitInv ==
  ASSUME ReceiveInit
  PROVE  ReceiveInv
<1>1. /\ state = "ESTABLISHED" /\ rcv_nxt = 1
      /\ rcv_wnd = TCP_WND /\ rcv_ann_wnd = TCP_WND /\ rcv_ann_right_edge = 1 + TCP_WND
      /\ ooseq = <<>> /\ recv_data = <<>> /\ got_fin = FALSE
      /\ bytes_left = 0 /\ rc = "MQTT_SUCCESS" /\ delivered = <<>> /\ handled = <<>>
      /\ in_pieces = FALSE /\ astray = FALSE
  BY DEF ReceiveInit
<1>2. stream \in Seq(Packets)
  <2>1. PICK n \in 0 .. MaxPackets : stream \in [1 .. n -> Packets]
    BY DEF ReceiveInit
  <2>2. n \in Nat
    BY ReceiveAssumption
  <2> QED
    BY <2>1, <2>2, SeqDef
<1>3. PICK all \in Nat : all = TCP_WND /\ all >= 2
  BY ReceiveAssumption
<1>4. <<>> \in Seq(Nat) /\ <<>> \in Seq(Seq(Nat)) /\ <<>> \in Seq(Segments) /\ Len(<<>>) = 0
  <2>1. <<>> \in Seq(Nat) /\ Len(<<>>) = 0
    BY EmptySeq
  <2>2. <<>> \in Seq(Seq(Nat))
    BY EmptySeq
  <2>3. <<>> \in Seq(Segments)
    BY EmptySeq
  <2> QED
    BY <2>1, <2>2, <2>3
<1>5. ReceiveTypeOK
  <2>1. all \in 0 .. all /\ 1 + all \in Nat /\ 1 \in Nat \ {0}
    BY <1>3
  <2>2. /\ rcv_nxt \in Nat \ {0} /\ rcv_wnd \in 0 .. TCP_WND /\ rcv_ann_wnd \in 0 .. TCP_WND
        /\ rcv_ann_right_edge \in Nat /\ bytes_left \in Nat
    BY <1>1, <1>3, <2>1
  <2>3. /\ ooseq \in Seq([seqno : Nat, data : Seq(Nat), fin : BOOLEAN])
        /\ recv_data \in Seq(Seq(Nat)) /\ delivered \in Seq(Nat) /\ handled \in Seq(Nat)
    BY <1>1, <1>4 DEF Segments
  <2>4. /\ state \in {"ESTABLISHED", "CLOSE_WAIT", "LAST_ACK", "FIN_WAIT_1", "freed"}
        /\ rc \in {"MQTT_SUCCESS", "failure"} /\ got_fin \in BOOLEAN /\ in_pieces \in BOOLEAN /\ astray \in BOOLEAN
    BY <1>1
  <2> QED
    BY <1>2, <2>2, <2>3, <2>4 DEF ReceiveTypeOK
<1>6. PICK c \in Seq(Seq(Nat)) : c = recv_data /\ Bytes(c) = 0 /\ Len(c) = 0
  <2>1. PICK c \in Seq(Seq(Nat)) : c = <<>>
    BY <1>4
  <2>2. Bytes(c) = 0 /\ Len(c) = 0
    BY <1>4, <2>1, BytesOfChain
  <2> QED
    BY <1>1, <2>1, <2>2
<1>7. Waiting = 0
  BY <1>6 DEF Waiting
<1>8. \A i \in 1 .. 0 : FALSE
  OBVIOUS
<1>9. EndOf[0] = 1 /\ Len(stream) \in Nat /\ Eof \in Nat /\ Eof > 0
  BY <1>2, <1>5, Numbers, EndOfIs DEF EndsOf
<1>10. QueueInv
  <2>1. PICK q : q = ooseq /\ q \in Seq(Segments) /\ Len(q) = 0
    BY <1>1, <1>4
  <2>2. InOrder(q) /\ Between(q, rcv_nxt + 1, rcv_nxt + rcv_wnd, Eof)
    BY <1>8, <2>1 DEF InOrder, Between
  <2> QED
    BY <2>1, <2>2 DEF QueueInv, Queue
<1>11. WindowInv
  BY <1>1, <1>3, <1>7 DEF WindowInv
<1>12. ChainInv
  <2>1. 0 <= TCP_WND
    BY <1>3
  <2> QED
    BY <1>1, <1>6, <1>8, <2>1 DEF ChainInv
<1>13. DeliveredInv
  BY <1>1, <1>4, <1>7, <1>8, <1>9 DEF DeliveredInv
<1>14. HandledInv
  BY <1>1, <1>4, <1>8, <1>9 DEF HandledInv
<1> QED
  BY <1>5, <1>10, <1>11, <1>12, <1>13, <1>14 DEF ReceiveInv

\* Every step keeps the invariant.
LEMMA StepKeeps ==
  ASSUME ReceiveInv, [ReceiveNext]_vars
  PROVE  ReceiveInv'
<1>1. ASSUME NEW n \in {1} \cup (CutPoints \cap 1 .. Eof) \cup {Eof}, NEW s \in SegmentsFrom(n),
             tcp_receive(s)
      PROVE  ReceiveInv'
  <2>1. Eof \in Nat /\ Eof > 0
    BY Numbers DEF ReceiveInv
  <2>2. n \in 1 .. Eof
    BY <2>1
  <2> QED
    BY <1>1, <2>2, ReceiveKeeps
<1>2. CASE SendAck
  BY <1>2, SendAckKeeps
<1>3. CASE tcp_received_cb
  BY <1>3, ReceivedKeeps
<1>4. CASE get_mqtt_packet
  BY <1>4, GetPacketKeeps
<1>5. CASE get_mqtt_packet_beyond
  BY <1>5, BeyondKeeps
<1>8. CASE get_mqtt_packet_fails
  BY <1>8, FailsKeeps
<1>6. CASE tcp_received_cb_closed
  BY <1>6, ClosedKeeps
<1>7. CASE UNCHANGED vars
  <2>1. /\ UNCHANGED <<stream, state, rcv_nxt, rcv_wnd, rcv_ann_wnd, rcv_ann_right_edge>>
        /\ UNCHANGED <<ooseq, recv_data, got_fin>>
        /\ UNCHANGED <<bytes_left, rc, delivered, handled, in_pieces, astray>>
    BY <1>7 DEF vars, windowVars, clientVars
  <2>2. EndOf' = EndOf /\ Eof' = Eof
    BY <2>1, SameStream
  <2>3. Waiting' = Waiting
    BY <2>1 DEF Waiting
  <2>4. ReceiveTypeOK'
    BY <2>1 DEF ReceiveInv, ReceiveTypeOK
  <2>5. QueueInv'
    BY <2>1, <2>2 DEF ReceiveInv, QueueInv
  <2>6. WindowInv' /\ ChainInv'
    BY <2>1, <2>3 DEF ReceiveInv, WindowInv, ChainInv
  <2>7. DeliveredInv'
    BY <2>1, <2>2, <2>3 DEF ReceiveInv, DeliveredInv
  <2>8. HandledInv'
    BY <2>1, <2>2, <2>3 DEF ReceiveInv, HandledInv
  <2> QED
    BY <2>4, <2>5, <2>6, <2>7, <2>8 DEF ReceiveInv
<1> QED
  BY <1>1, <1>2, <1>3, <1>4, <1>5, <1>6, <1>7, <1>8 DEF ReceiveNext, Packet

\* The invariant holds in every state.
LEMMA ReceiveInvAlways == ReceiveSpec => []ReceiveInv
<1>1. ReceiveInit => ReceiveInv
  BY InitInv
<1>2. ReceiveInv /\ [ReceiveNext]_vars => ReceiveInv'
  BY StepKeeps
<1> QED
  BY <1>1, <1>2, PTL DEF ReceiveSpec

\* When no callback is under way none of its bytes is left.
LEMMA NothingLeft ==
  ASSUME ReceiveInv, recv_data = <<>>
  PROVE  bytes_left = 0 /\ Waiting = 0
<1>1. Bytes(recv_data) = 0
  BY BytesOfChain DEF ReceiveInv, ReceiveTypeOK
<1>2. bytes_left <= Bytes(recv_data) /\ bytes_left \in Nat
  BY Numbers DEF ReceiveInv, ChainInv
<1> QED
  BY <1>1, <1>2 DEF Waiting

(***************************************************************************)
(* The theorems.                                                           *)
(***************************************************************************)
\* The window stays within TCP_WND, the numbers are numbers and the queue, the chain and
\* what is delivered are sequences, whatever segments come (tcp_receive, tcp_recved).
THEOREM ReceiveTypesCorrect == ReceiveSpec => []ReceiveTypeOK
<1>1. ReceiveInv => ReceiveTypeOK
  BY DEF ReceiveInv
<1> QED
  BY <1>1, ReceiveInvAlways, PTL

\* The application is given the bytes of the stream in their order, each once, and the
\* end of the stream after the last of them, for every window, segment size and stream
\* and however the segments are cut, lost, repeated and reordered (tcp_receive, tcp_input).
THEOREM BytesDeliveredInOrder == ReceiveSpec => []DeliveredInOrder
<1>1. ASSUME ReceiveInv
      PROVE  DeliveredInOrder
  <2>1. delivered \in Seq(Nat) /\ Len(delivered) \in Nat /\ DOMAIN delivered = 1 .. Len(delivered)
    BY <1>1, LenProperties DEF ReceiveInv, ReceiveTypeOK
  <2>2. \A i \in 1 .. Len(delivered) : delivered[i] = i
    BY <1>1 DEF ReceiveInv, DeliveredInv
  <2>3. ASSUME state = "LAST_ACK"
        PROVE  Len(delivered) = Eof - 1
    <3>1. recv_data = <<>>
      BY <1>1, <2>3 DEF ReceiveInv, DeliveredInv
    <3>2. Waiting = 0
      BY <1>1, <3>1, NothingLeft
    <3>3. Eof = Len(delivered) + 1 + Waiting
      BY <1>1, <2>3 DEF ReceiveInv, DeliveredInv
    <3> QED
      BY <2>1, <3>2, <3>3
  <2> QED
    BY <2>1, <2>2, <2>3 DEF DeliveredInOrder
<1> QED
  BY <1>1, ReceiveInvAlways, PTL

\* Between two segments all of the window is free again and the announced one is not
\* closed, whatever was cut short, queued or joined (tcp_receive's rcv_wnd against
\* tcp_recved).
THEOREM WindowIsRestored == ReceiveSpec => []WindowRestored
<1>1. ASSUME ReceiveInv
      PROVE  WindowRestored
  <2>1. SUFFICES ASSUME recv_data = <<>>, ~got_fin
                 PROVE  rcv_wnd = TCP_WND /\ rcv_ann_wnd > 0
    BY DEF WindowRestored
  <2>2. Waiting = 0
    BY <1>1, <2>1, NothingLeft
  <2>3. rcv_wnd + Waiting = TCP_WND /\ rcv_ann_wnd > 0
    BY <1>1, <2>1 DEF ReceiveInv, WindowInv
  <2>4. rcv_wnd \in Nat
    BY <1>1, Numbers DEF ReceiveInv
  <2> QED
    BY <2>2, <2>3, <2>4
<1> QED
  BY <1>1, ReceiveInvAlways, PTL

\* The client handles the packets of the stream in their order, whatever their lengths and
\* however many digits those have.  As long as every callback was given one pbuf of whole
\* packets it reads no further than the pbuf, and has by the end of a callback handled all
\* that came, unless the callback ended with a packet that failed (bytes_left, the offset
\* tcp_received_cb computes from it, and the error path of its loop).
THEOREM PacketsHandledAsSent == ReceiveSpec => []HandledAsSent
<1>1. ASSUME ReceiveInv
      PROVE  HandledAsSent
  <2>1. handled \in Seq(Nat) /\ DOMAIN handled = 1 .. Len(handled)
    BY <1>1, LenProperties DEF ReceiveInv, ReceiveTypeOK
  <2>2. \A i \in 1 .. Len(handled) : handled[i] = i
    BY <1>1 DEF ReceiveInv, HandledInv
  <2>3. ~in_pieces => ~astray
    BY <1>1 DEF ReceiveInv, HandledInv
  <2>4. ASSUME ~in_pieces, recv_data = <<>>, rc = "MQTT_SUCCESS"
        PROVE  EndOf[Len(handled)] = Len(delivered) + 1
    <3>1. PICK e \in Nat : e = EndOf[Len(handled)]
      <4>1. PICK g : g = EndOf /\ EndsOf(g)
        BY <1>1, EndOfIs DEF ReceiveInv, ReceiveTypeOK
      <4>2. Len(handled) \in 0 .. Len(stream)
        BY <1>1, Numbers DEF ReceiveInv, HandledInv
      <4> QED
        BY <4>1, <4>2 DEF EndsOf
    <3>2. bytes_left = 0
      BY <1>1, <2>4, NothingLeft
    <3>3. EndOf[Len(handled)] + bytes_left = Len(delivered) + 1
      BY <1>1, <2>3, <2>4 DEF ReceiveInv, HandledInv
    <3> QED
      BY <3>1, <3>2, <3>3
  <2> QED
    BY <2>1, <2>2, <2>3, <2>4 DEF HandledAsSent
<1> QED
  BY <1>1, ReceiveInvAlways, PTL

\* The broker's FIN is answered with a FIN and not with a RST, whatever was received before
\* it: of the window only the FIN's own number is still missing when it is reported, and
\* tcp_input gives that back (tcp_input, tcp_close).
THEOREM FinAnsweredWithFin == ReceiveSpec => OrderlyClose
<1>1. ASSUME ReceiveInv, [ReceiveNext]_vars, state = "CLOSE_WAIT", got_fin, ~got_fin'
      PROVE  state' = "LAST_ACK"
  <2>1. CASE tcp_received_cb_closed
    BY <1>1, <2>1, ClosedKeeps
  <2>2. ASSUME NEW s, tcp_receive(s)
        PROVE  FALSE
    BY <1>1, <2>2 DEF tcp_receive
  <2>3. CASE SendAck \/ tcp_received_cb \/ Packet \/ UNCHANGED vars
    <3>1. got_fin' = got_fin
      BY <2>3 DEF SendAck, tcp_received_cb, Received, Packet, get_mqtt_packet, get_mqtt_packet_fails,
                  get_mqtt_packet_beyond, vars
    <3> QED
      BY <1>1, <3>1
  <2> QED
    BY <1>1, <2>1, <2>2, <2>3 DEF ReceiveNext
<1>2. ReceiveInv /\ [ReceiveNext]_vars =>
        [state = "CLOSE_WAIT" /\ got_fin /\ ~got_fin' => state' = "LAST_ACK"]_vars
  BY <1>1
<1> QED
  BY <1>2, ReceiveInvAlways, PTL DEF ReceiveSpec, OrderlyClose

====
