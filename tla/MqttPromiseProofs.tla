---- MODULE MqttPromiseProofs ----
(***************************************************************************)
(* The client keeps the promise of MqttPromise, for all values of the      *)
(* constants: over any number of connections, with any resets, for any     *)
(* order of packets.  The invariant says where a request and a message can *)
(* be: a request in at most one slot and not reported, a message of the    *)
(* broker in one place on its way to the client or kept in one slot, and   *)
(* not delivered.                                                          *)
(***************************************************************************)
EXTENDS MqttSystemProofs

ContextAt(i) == req_queue.requests[i].context
StateAt(i) == req_queue.requests[i].conv_state

\* A request holds one slot and is not reported while it does.
RequestsApart ==
  /\ \A i \in Slots : StateAt(i) \in RequestStates =>
       ContextAt(i) \in 1 .. requests /\ completed[ContextAt(i)] = 0
  /\ \A i, j \in Slots :
       /\ StateAt(i) \in RequestStates /\ StateAt(j) \in RequestStates
       /\ ContextAt(i) = ContextAt(j)
       => i = j
  /\ \A r \in 1 .. MaxRequests :
       completed[r] <= 1 /\ (r > requests => completed[r] = 0)

\* Where packets for the client are: in the segment handled (lane NULL) or on
\* the way in a connection.
Lane(c) == IF c = NULL THEN rx ELSE conn[c].in
Carries(c, k, m) == Lane(c)[k].type = "PUBLISH" /\ Lane(c)[k].body = m
UnderWay(m) == \E c \in Pcbs : \E k \in 1 .. Len(Lane(c)) : Carries(c, k, m)

PublishesDiffer ==
  \A c, d \in Pcbs : \A k \in 1 .. Len(Lane(c)), l \in 1 .. Len(Lane(d)) :
    /\ Lane(c)[k].type = "PUBLISH" /\ Lane(d)[l].type = "PUBLISH"
    /\ Lane(c)[k].body = Lane(d)[l].body
    => c = d /\ k = l

Releasable(i) == StateAt(i) = "WAITING_FOR_PUBREL"
Fresh(m) ==
  /\ m \in 1 .. msgs_sent /\ delivered[m] = 0
  /\ \A i \in Slots : Releasable(i) => ContextAt(i) # m

\* A message is in one place, and not delivered, until it is.
MessagesApart ==
  /\ PublishesDiffer
  /\ \A m : UnderWay(m) => Fresh(m)
  /\ \A i \in Slots : Releasable(i) =>
       ContextAt(i) \in 1 .. msgs_sent /\ delivered[ContextAt(i)] = 0
  /\ \A i, j \in Slots :
       Releasable(i) /\ Releasable(j) /\ ContextAt(i) = ContextAt(j) => i = j
  /\ \A m \in 1 .. MaxMsgs : m > msgs_sent => delivered[m] = 0

\* The broker's answers are no messages.
OwedAreAnswers ==
  \A c \in Conns : \A p \in broker[c].owed : p \in Packets /\ p.type # "PUBLISH"

Apart == Inv /\ RequestsApart /\ MessagesApart /\ OwedAreAnswers

----
(***************************************************************************)
(* Lanes.                                                                  *)
(***************************************************************************)
\* Every lane is a sequence of packets.
LEMMA LaneType ==
  ASSUME Inv, NEW c \in Pcbs
  PROVE  Lane(c) \in Seq(Packets) /\ Len(Lane(c)) \in Nat
<1>1. rx \in Seq(Packets) /\ conn[c].in \in Seq(Packets)
  BY ConnType DEF Inv, TypeOK, ClientTypeOK
<1> QED
  BY <1>1, LenProperties DEF Lane

\* In a step the packet at place k of lane c was at k + off[c] of lane src[c], if
\* it is a message.
MovedFrom(src, off) ==
  \A c \in Pcbs : \A k \in 1 .. Len(Lane(c)') :
    Lane(c)'[k].type = "PUBLISH" =>
      /\ k + off[c] \in 1 .. Len(Lane(src[c]))
      /\ Lane(c)'[k] = Lane(src[c])[k + off[c]]
OnePlaceEach(src, off) ==
  \A c, d \in Pcbs : \A k \in 1 .. Len(Lane(c)'), l \in 1 .. Len(Lane(d)') :
    src[c] = src[d] /\ k + off[c] = l + off[d] => c = d /\ k = l

\* Messages stay apart, and no other comes under way.
NoneNew == PublishesDiffer' /\ \A m : UnderWay(m)' => UnderWay(m)

\* If every message came from a place of its own, none is new.
LEMMA MovedLanes ==
  ASSUME PublishesDiffer,
         NEW src \in [Pcbs -> Pcbs], NEW off \in [Pcbs -> Nat],
         MovedFrom(src, off), OnePlaceEach(src, off)
  PROVE  NoneNew
<1>1. ASSUME NEW c \in Pcbs, NEW d \in Pcbs,
             NEW k \in 1 .. Len(Lane(c)'), NEW l \in 1 .. Len(Lane(d)'),
             Lane(c)'[k].type = "PUBLISH", Lane(d)'[l].type = "PUBLISH",
             Lane(c)'[k].body = Lane(d)'[l].body
      PROVE  c = d /\ k = l
  <2>1. /\ k + off[c] \in 1 .. Len(Lane(src[c])) /\ src[c] \in Pcbs
        /\ l + off[d] \in 1 .. Len(Lane(src[d])) /\ src[d] \in Pcbs
        /\ Lane(c)'[k] = Lane(src[c])[k + off[c]]
        /\ Lane(d)'[l] = Lane(src[d])[l + off[d]]
    BY <1>1 DEF MovedFrom
  <2> DEFINE i == k + off[c]
             j == l + off[d]
             x == Lane(src[c])[i]
             y == Lane(src[d])[j]
  <2>2. x.type = "PUBLISH" /\ y.type = "PUBLISH" /\ x.body = y.body
    BY <1>1, <2>1
  <2>3. i \in 1 .. Len(Lane(src[c])) /\ j \in 1 .. Len(Lane(src[d]))
    BY <2>1
  <2> HIDE DEF i, j
  <2>4. src[c] = src[d] /\ i = j
    BY <2>1, <2>2, <2>3, SMTT(30) DEF PublishesDiffer
  <2> USE DEF i, j
  <2> QED
    BY <2>4 DEF OnePlaceEach
<1>2. ASSUME NEW m, UnderWay(m)'
      PROVE  UnderWay(m)
  <2>1. PICK c \in Pcbs : \E k \in 1 .. Len(Lane(c)') :
          Lane(c)'[k].type = "PUBLISH" /\ Lane(c)'[k].body = m
    BY <1>2 DEF UnderWay, Carries
  <2>2. PICK k \in 1 .. Len(Lane(c)') :
          Lane(c)'[k].type = "PUBLISH" /\ Lane(c)'[k].body = m
    BY <2>1
  <2>3. /\ k + off[c] \in 1 .. Len(Lane(src[c])) /\ src[c] \in Pcbs
        /\ Lane(src[c])[k + off[c]].type = "PUBLISH"
        /\ Lane(src[c])[k + off[c]].body = m
    BY <2>2 DEF MovedFrom
  <2> QED
    BY <2>3 DEF UnderWay, Carries
<1> QED
  BY <1>1, <1>2 DEF PublishesDiffer, NoneNew

\* Packets are taken off the segment handled, and connections lose theirs.
LEMMA DroppedLanes ==
  ASSUME Inv, PublishesDiffer,
         \A c \in Conns : conn'[c].in = conn[c].in \/ conn'[c].in = <<>>,
         rx' = rx \/ rx' = <<>> \/ (rx # <<>> /\ rx' = Tail(rx))
  PROVE  NoneNew
<1> DEFINE n == IF rx # <<>> /\ rx' = Tail(rx) THEN 1 ELSE 0
           src == [c \in Pcbs |-> c]
           off == [c \in Pcbs |-> IF c = NULL THEN n ELSE 0]
<1>1. /\ n \in Nat /\ src \in [Pcbs -> Pcbs] /\ off \in [Pcbs -> Nat]
      /\ rx \in Seq(Packets) /\ Len(rx) \in Nat
  BY LenProperties DEF Inv, TypeOK, ClientTypeOK
<1>2. ASSUME NEW c \in Pcbs, NEW k \in 1 .. Len(Lane(c)')
      PROVE  /\ k + off[c] \in 1 .. Len(Lane(src[c]))
             /\ Lane(c)'[k] = Lane(src[c])[k + off[c]]
  <2>1. CASE c # NULL
    <3>1. c \in Conns /\ off[c] = 0 /\ src[c] = c
      BY <2>1 DEF Pcbs
    <3>2. Lane(c)' = conn'[c].in /\ Lane(c) = conn[c].in
      BY <2>1 DEF Lane
    <3>3. Lane(c)' = Lane(c)
      BY <1>2, <3>1, <3>2, EmptySeq
    <3> QED
      BY <1>2, <3>1, <3>3, LaneType
  <2>2. CASE c = NULL
    <3>1. /\ off[c] = n /\ src[c] = c
          /\ Lane(c)' = rx' /\ Lane(c) = rx
      BY <2>2 DEF Lane
    <3>2. CASE rx # <<>> /\ rx' = Tail(rx)
      <4>1. /\ Len(rx') = Len(rx) - 1
            /\ \A j \in 1 .. Len(rx') : rx'[j] = rx[j + 1]
        BY <1>1, <3>2, HeadTailProperties
      <4>2. n = 1 /\ k \in 1 .. Len(rx')
        BY <1>2, <3>1, <3>2
      <4> HIDE DEF n, src, off
      <4> QED
        BY <1>1, <3>1, <4>1, <4>2
    <3>3. CASE ~(rx # <<>> /\ rx' = Tail(rx))
      <4>1. rx' = rx
        BY <1>2, <3>1, <3>3, EmptySeq
      <4> QED
        BY <1>1, <1>2, <3>1, <3>3, <4>1
    <3> QED
      BY <3>2, <3>3
  <2> QED
    BY <2>1, <2>2
<1>3. MovedFrom(src, off)
  BY <1>2 DEF MovedFrom
<1>4. OnePlaceEach(src, off)
  BY <1>1 DEF OnePlaceEach
<1> HIDE DEF src, off, n
<1> QED
  BY <1>1, <1>3, <1>4, MovedLanes

\* Packets other than messages enter a connection.
LEMMA AppendedLanes ==
  ASSUME Inv, PublishesDiffer, NEW d \in Conns, NEW s \in Seq(Packets),
         \A k \in 1 .. Len(s) : s[k].type # "PUBLISH",
         conn'[d].in = conn[d].in \o s,
         \A c \in Conns \ {d} : conn'[c].in = conn[c].in,
         rx' = rx
  PROVE  NoneNew
<1> DEFINE src == [c \in Pcbs |-> c]
           off == [c \in Pcbs |-> 0]
<1>1. src \in [Pcbs -> Pcbs] /\ off \in [Pcbs -> Nat]
  OBVIOUS
<1>2. ASSUME NEW c \in Pcbs, NEW k \in 1 .. Len(Lane(c)'),
             Lane(c)'[k].type = "PUBLISH"
      PROVE  /\ k + off[c] \in 1 .. Len(Lane(src[c]))
             /\ Lane(c)'[k] = Lane(src[c])[k + off[c]]
  <2>1. CASE c # d
    <3>1. Lane(c)' = Lane(c)
      BY <2>1 DEF Lane, Pcbs
    <3> QED
      BY <1>2, <3>1, LaneType
  <2>2. CASE c = d
    <3>1. Lane(c) = conn[d].in /\ Lane(c)' = conn[d].in \o s
      BY <2>2 DEF Lane, NULL, Conns
    <3>2. /\ Lane(c) \in Seq(Packets) /\ Len(Lane(c)) \in Nat
          /\ Len(s) \in Nat
      BY LaneType, LenProperties
    <3>3. /\ Len(Lane(c)') = Len(Lane(c)) + Len(s)
          /\ \A j \in 1 .. Len(Lane(c)') :
               Lane(c)'[j] = IF j <= Len(Lane(c)) THEN Lane(c)[j]
                             ELSE s[j - Len(Lane(c))]
      BY <3>1, <3>2, ConcatProperties
    <3>4. k <= Len(Lane(c))
      <4>1. SUFFICES ASSUME k > Len(Lane(c)) PROVE FALSE
        BY <3>2, <3>3
      <4>2. k - Len(Lane(c)) \in 1 .. Len(s)
        BY <3>2, <3>3, <4>1
      <4> QED
        BY <1>2, <3>2, <3>3, <4>1, <4>2
    <3> QED
      BY <1>2, <3>2, <3>3, <3>4
  <2> QED
    BY <2>1, <2>2
<1>3. MovedFrom(src, off)
  BY <1>2 DEF MovedFrom
<1>4. OnePlaceEach(src, off)
  BY DEF OnePlaceEach
<1> HIDE DEF src, off
<1> QED
  BY <1>1, <1>3, <1>4, MovedLanes

\* lwIP hands over the first packets of a connection as a segment.
LEMMA HandedLanes ==
  ASSUME Inv, PublishesDiffer, NEW d \in Conns, NEW n \in 1 .. Len(conn[d].in),
         rx = <<>>, rx' = SubSeq(conn[d].in, 1, n),
         conn'[d].in = SubSeq(conn[d].in, n + 1, Len(conn[d].in)),
         \A c \in Conns \ {d} : conn'[c].in = conn[c].in
  PROVE  NoneNew
<1> DEFINE src == [c \in Pcbs |-> IF c = NULL THEN d ELSE c]
           off == [c \in Pcbs |-> IF c = d THEN n ELSE 0]
           s == conn[d].in
<1>0. d # NULL /\ d \in Pcbs
  BY DEF NULL, Conns, Pcbs
<1>1. /\ s \in Seq(Packets) /\ Len(s) \in Nat /\ n \in Nat
      /\ Lane(d) = s
  BY <1>0, LaneType DEF Lane
<1>2. src \in [Pcbs -> Pcbs] /\ off \in [Pcbs -> Nat]
  BY <1>0, <1>1
<1>3. /\ Len(Lane(NULL)') = n
      /\ \A k \in 1 .. n : Lane(NULL)'[k] = s[k]
  <2>1. Lane(NULL)' = SubSeq(s, 1, n)
    BY DEF Lane
  <2>2. \A k \in 1 .. Len(s) : s[k] \in Packets
    BY <1>1, ElementOfSeq
  <2> QED
    BY <1>1, <2>1, <2>2, SubSeqProperties
<1>4. /\ Len(Lane(d)') = Len(s) - n
      /\ \A k \in 1 .. Len(s) - n : Lane(d)'[k] = s[k + n]
  <2>1. Lane(d)' = SubSeq(s, n + 1, Len(s))
    BY <1>0 DEF Lane
  <2>2. \A k \in 1 .. Len(s) : s[k] \in Packets
    BY <1>1, ElementOfSeq
  <2> QED
    BY <1>1, <2>1, <2>2, SubSeqProperties
<1>5. \A c \in Pcbs \ {NULL, d} : Lane(c)' = Lane(c)
  BY DEF Lane, Pcbs
<1>6. ASSUME NEW c \in Pcbs, NEW k \in 1 .. Len(Lane(c)')
      PROVE  /\ k + off[c] \in 1 .. Len(Lane(src[c]))
             /\ Lane(c)'[k] = Lane(src[c])[k + off[c]]
  <2>1. CASE c = NULL
    <3>1. src[c] = d /\ off[c] = 0
      BY <1>0, <2>1
    <3> QED
      BY <1>1, <1>3, <1>6, <2>1, <3>1
  <2>2. CASE c = d
    <3>1. src[c] = d /\ off[c] = n
      BY <1>0, <2>2
    <3> QED
      BY <1>1, <1>4, <1>6, <2>2, <3>1
  <2>3. CASE c \notin {NULL, d}
    <3>1. src[c] = c /\ off[c] = 0 /\ Lane(c)' = Lane(c)
      BY <1>5, <2>3
    <3> QED
      BY <1>6, <3>1, LaneType
  <2> QED
    BY <2>1, <2>2, <2>3
<1>7. ASSUME NEW c \in Pcbs, NEW e \in Pcbs,
             NEW k \in 1 .. Len(Lane(c)'), NEW l \in 1 .. Len(Lane(e)'),
             src[c] = src[e], k + off[c] = l + off[e]
      PROVE  c = e /\ k = l
  <2>1. c = NULL => k <= n
    BY <1>1, <1>3
  <2>2. e = NULL => l <= n
    BY <1>1, <1>3
  <2> QED
    BY <1>0, <1>1, <1>7, <2>1, <2>2
<1> HIDE DEF src, off, s
<1>8. MovedFrom(src, off)
  BY <1>6 DEF MovedFrom
<1>9. OnePlaceEach(src, off)
  BY <1>7 DEF OnePlaceEach
<1> QED
  BY <1>2, <1>8, <1>9, MovedLanes

\* A new message enters a connection.
LEMMA PublishedLanes ==
  ASSUME Inv, PublishesDiffer, NEW d \in Conns, NEW p \in Packets,
         ~UnderWay(p.body),
         conn'[d].in = conn[d].in \o << p >>,
         \A c \in Conns \ {d} : conn'[c].in = conn[c].in,
         rx' = rx
  PROVE  /\ PublishesDiffer'
         /\ \A m : UnderWay(m)' => UnderWay(m) \/ m = p.body
<1> DEFINE n == Len(Lane(d)) + 1
<1>1. /\ Lane(d) \in Seq(Packets) /\ Len(Lane(d)) \in Nat
      /\ d \in Pcbs /\ Lane(d) = conn[d].in /\ Lane(d)' = Lane(d) \o << p >>
  BY LaneType DEF Lane, Pcbs, NULL, Conns
<1>2. /\ Len(Lane(d)') = n
      /\ \A k \in 1 .. n - 1 : Lane(d)'[k] = Lane(d)[k]
      /\ Lane(d)'[n] = p
  <2>1. << p >> \in Seq(Packets) /\ Len(<< p >>) = 1 /\ << p >>[1] = p
    OBVIOUS
  <2> HIDE DEF n
  <2>2. n = Len(Lane(d)) + 1 /\ n \in Nat
    BY <1>1 DEF n
  <2> QED
    BY <1>1, <2>1, <2>2, ConcatProperties
<1>3. \A c \in Pcbs \ {d} : Lane(c)' = Lane(c)
  BY DEF Lane, Pcbs
<1> HIDE DEF n
<1>4. ASSUME NEW c \in Pcbs, NEW k \in 1 .. Len(Lane(c)'), ~(c = d /\ k = n)
      PROVE  k \in 1 .. Len(Lane(c)) /\ Lane(c)'[k] = Lane(c)[k]
  <2>1. CASE c = d
    <3>1. n = Len(Lane(d)) + 1
      BY DEF n
    <3> QED
      BY <1>1, <1>2, <1>4, <2>1, <3>1
  <2>2. CASE c # d
    BY <1>3, <1>4, <2>2
  <2> QED
    BY <2>1, <2>2
<1>5. ASSUME NEW c \in Pcbs, NEW k \in 1 .. Len(Lane(c)'), ~(c = d /\ k = n),
             Lane(c)'[k].type = "PUBLISH"
      PROVE  UnderWay(Lane(c)'[k].body) /\ Lane(c)'[k].body # p.body
  BY <1>4, <1>5 DEF UnderWay, Carries
<1>6. ASSUME NEW c \in Pcbs, NEW e \in Pcbs,
             NEW k \in 1 .. Len(Lane(c)'), NEW l \in 1 .. Len(Lane(e)'),
             Lane(c)'[k].type = "PUBLISH", Lane(e)'[l].type = "PUBLISH",
             Lane(c)'[k].body = Lane(e)'[l].body
      PROVE  c = e /\ k = l
  <2>1. CASE c = d /\ k = n
    BY <1>2, <1>5, <1>6, <2>1
  <2>2. CASE e = d /\ l = n
    BY <1>2, <1>5, <1>6, <2>2
  <2>3. CASE ~(c = d /\ k = n) /\ ~(e = d /\ l = n)
    <3>1. /\ k \in 1 .. Len(Lane(c)) /\ Lane(c)'[k] = Lane(c)[k]
          /\ l \in 1 .. Len(Lane(e)) /\ Lane(e)'[l] = Lane(e)[l]
      BY <1>4, <2>3
    <3> QED
      BY <1>6, <3>1 DEF PublishesDiffer
  <2> QED
    BY <2>1, <2>2, <2>3
<1>7. ASSUME NEW m, UnderWay(m)'
      PROVE  UnderWay(m) \/ m = p.body
  <2>1. PICK c \in Pcbs : \E k \in 1 .. Len(Lane(c)') :
          Lane(c)'[k].type = "PUBLISH" /\ Lane(c)'[k].body = m
    BY <1>7 DEF UnderWay, Carries
  <2>2. PICK k \in 1 .. Len(Lane(c)') :
          Lane(c)'[k].type = "PUBLISH" /\ Lane(c)'[k].body = m
    BY <2>1
  <2> QED
    BY <1>2, <1>5, <2>2
<1> QED
  BY <1>6, <1>7 DEF PublishesDiffer

\* The message at the head of the segment leaves its place when it is handled.
LEMMA HandledLanes ==
  ASSUME Inv, PublishesDiffer, rx # <<>>, rx' = Tail(rx),
         NEW m, Head(rx).type = "PUBLISH", Head(rx).body = m,
         \A c \in Conns : conn'[c].in = conn[c].in
  PROVE  UnderWay(m) /\ ~UnderWay(m)'
<1>1. /\ rx \in Seq(Packets) /\ Len(rx) \in Nat /\ 1 \in 1 .. Len(rx)
      /\ Lane(NULL) = rx /\ NULL \in Pcbs /\ Head(rx) = rx[1]
  BY LaneType, EmptySeq, LenProperties DEF Lane, Pcbs, Inv, TypeOK, ClientTypeOK
<1>2. Lane(NULL)[1].type = "PUBLISH" /\ Lane(NULL)[1].body = m
  BY <1>1
<1>3. UnderWay(m)
  BY <1>1, <1>2 DEF UnderWay, Carries
<1>4. SUFFICES ASSUME UnderWay(m)'
               PROVE  FALSE
  BY <1>3
<1>5. PICK c \in Pcbs : \E k \in 1 .. Len(Lane(c)') :
        Lane(c)'[k].type = "PUBLISH" /\ Lane(c)'[k].body = m
  BY <1>4 DEF UnderWay, Carries
<1>6. PICK k \in 1 .. Len(Lane(c)') :
        Lane(c)'[k].type = "PUBLISH" /\ Lane(c)'[k].body = m
  BY <1>5
<1>7. CASE c = NULL
  <2>1. Lane(c)' = Tail(rx)
    BY <1>7 DEF Lane
  <2>2. /\ Len(Tail(rx)) = Len(rx) - 1
        /\ \A j \in 1 .. Len(Tail(rx)) : Tail(rx)[j] = rx[j + 1]
    BY <1>1, HeadTailProperties
  <2>3. /\ k + 1 \in 1 .. Len(Lane(NULL)) /\ k + 1 # 1
        /\ Lane(NULL)[k + 1].type = "PUBLISH" /\ Lane(NULL)[k + 1].body = m
    BY <1>1, <1>6, <2>1, <2>2
  <2> DEFINE j == k + 1
  <2> HIDE DEF j
  <2>4. j \in 1 .. Len(Lane(NULL)) /\ j # 1
        /\ Lane(NULL)[j].type = "PUBLISH" /\ Lane(NULL)[j].body = m
    BY <2>3 DEF j
  <2> QED
    BY <1>1, <1>2, <2>4 DEF PublishesDiffer
<1>8. CASE c # NULL
  <2>1. Lane(c)' = Lane(c)
    BY <1>8 DEF Lane, Pcbs
  <2> QED
    BY <1>1, <1>2, <1>6, <1>8, <2>1 DEF PublishesDiffer
<1> QED
  BY <1>7, <1>8

----
(***************************************************************************)
(* What steps do to the slots, and to what is open and kept.               *)
(***************************************************************************)
SameSlot(i) ==
  /\ StateAt(i)' \in RequestStates <=> StateAt(i) \in RequestStates
  /\ StateAt(i)' = "NO_REQUEST" <=> StateAt(i) = "NO_REQUEST"
  /\ Releasable(i)' => Releasable(i)
  /\ StateAt(i)' # "NO_REQUEST" => ContextAt(i)' = ContextAt(i)
SameSlots == \A i \in Slots : SameSlot(i)
SameSlotsBut(i) == \A j \in Slots \ {i} : SameSlot(j)

Filled(i, state, m) ==
  /\ StateAt(i) = "NO_REQUEST" /\ SameSlotsBut(i)
  /\ StateAt(i)' = state /\ ContextAt(i)' = m
Freed(i) ==
  /\ StateAt(i) # "NO_REQUEST" /\ SameSlotsBut(i)
  /\ StateAt(i)' = "NO_REQUEST"

\* The two sets of the promise, as predicates.
IsOpen(r) == \E i \in Slots : StateAt(i) \in RequestStates /\ ContextAt(i) = r
IsKept(m) ==
  \E i \in Slots : /\ StateAt(i) \notin RequestStates
                   /\ StateAt(i) # "NO_REQUEST" /\ ContextAt(i) = m

\* A request is open, a message kept, if a slot says so.
LEMMA OpenAndKept ==
  /\ \A r : r \in OpenRequests <=> IsOpen(r)
  /\ \A m : m \in KeptMessages <=> IsKept(m)
  /\ \A r : r \in OpenRequests' <=> IsOpen(r)'
  /\ \A m : m \in KeptMessages' <=> IsKept(m)'
BY DEF OpenRequests, KeptMessages, IsOpen, IsKept, StateAt, ContextAt, BusySlots

\* With a slot free there is room for one more request or message.
LEMMA RoomBehindFullTest ==
  ASSUME Inv, ~is_request_queue_full(req_queue)
  PROVE  Promise!Room
<1> DEFINE q == req_queue
           Asking == { j \in Slots : StateAt(j) \in RequestStates }
           Keeping == { j \in BusySlots(q) : StateAt(j) \notin RequestStates }
           f == [i \in Asking |-> ContextAt(i)]
           g == [i \in Keeping |-> ContextAt(i)]
<1>1. /\ IsFiniteSet(BusySlots(q))
      /\ Cardinality(BusySlots(q)) < MQTT_REQUESTS_QUEUE_LEN
  <2>1. /\ Cardinality(BusySlots(q)) \in 0 .. MQTT_REQUESTS_QUEUE_LEN
        /\ IsFiniteSet(BusySlots(q))
    BY BusyAndFree
  <2>2. Cardinality(BusySlots(q)) # MQTT_REQUESTS_QUEUE_LEN
    BY DEF Inv, QueueCounterExact, CounterExact, is_request_queue_full
  <2> QED
    BY <2>1, <2>2, QueueLenAssumption
<1>2. Asking \subseteq BusySlots(q) /\ Keeping \subseteq BusySlots(q)
      /\ Asking \cap Keeping = {}
  BY DEF BusySlots, StateAt, RequestStates
<1>3. /\ IsFiniteSet(Asking) /\ IsFiniteSet(Keeping)
      /\ Cardinality(Asking) \in Nat /\ Cardinality(Keeping) \in Nat
      /\ Cardinality(BusySlots(q)) \in Nat
  BY <1>1, <1>2, FS_Subset, FS_CardinalityType
<1>4. Cardinality(Asking) + Cardinality(Keeping) <= Cardinality(BusySlots(q))
  <2>1. Cardinality(Asking \cup Keeping) =
          Cardinality(Asking) + Cardinality(Keeping) - Cardinality(Asking \cap Keeping)
    BY <1>3, FS_Union
  <2>2. Cardinality(Asking \cap Keeping) = 0
    BY <1>2, FS_EmptySet
  <2>3. Cardinality(Asking \cup Keeping) <= Cardinality(BusySlots(q))
    BY <1>1, <1>2, FS_Subset
  <2> HIDE DEF Asking, Keeping, q
  <2> QED
    BY <1>3, <2>1, <2>2, <2>3
<1>5. f \in Surjection(Asking, OpenRequests)
  BY DEF Surjection, OpenRequests, StateAt, ContextAt
<1>6. g \in Surjection(Keeping, KeptMessages)
  BY DEF Surjection, KeptMessages, StateAt, ContextAt
<1>7. /\ IsFiniteSet(OpenRequests) /\ IsFiniteSet(KeptMessages)
      /\ Cardinality(OpenRequests) <= Cardinality(Asking)
      /\ Cardinality(KeptMessages) <= Cardinality(Keeping)
  <2> HIDE DEF Asking, Keeping, f, g
  <2> QED
    BY <1>3, <1>5, <1>6, FS_Surjection
<1>8. Cardinality(OpenRequests) \in Nat /\ Cardinality(KeptMessages) \in Nat
  BY <1>7, FS_CardinalityType
<1>9. Cardinality(OpenRequests) + Cardinality(KeptMessages) < MQTT_REQUESTS_QUEUE_LEN
  <2> HIDE DEF Asking, Keeping, q
  <2> QED
    BY <1>1, <1>3, <1>4, <1>7, <1>8, QueueLenAssumption
<1> QED
  BY <1>9 DEF Promise!Room, Promise!Cardinality, Cardinality

\* What keeps the promise: a step of it, or none.
PromiseStep == [Promise!PromiseNext]_(Promise!promiseVars)

\* The slots alone say which requests are apart.
LEMMA SlotsKeepRequestsApart ==
  ASSUME RequestsApart, SameSlots, UNCHANGED <<requests, completed>>
  PROVE  RequestsApart'
BY DEF RequestsApart, SameSlots, SameSlot, RequestStates

\* Without a new message, or a slot that may be released, messages stay apart.
LEMMA SlotsKeepMessagesApart ==
  ASSUME MessagesApart, NoneNew, UNCHANGED <<msgs_sent, delivered>>,
         \A i \in Slots : Releasable(i)' =>
           Releasable(i) /\ ContextAt(i)' = ContextAt(i)
  PROVE  MessagesApart'
BY DEF MessagesApart, NoneNew, Fresh

\* A step that only moves conversations on, or packets.
Quiet == SameSlots /\ NoneNew /\ UNCHANGED <<msgs_sent, appVars>>
LEMMA QuietStep ==
  ASSUME Apart, Quiet
  PROVE  RequestsApart' /\ MessagesApart' /\ PromiseStep
<1>1. \A r : IsOpen(r)' <=> IsOpen(r)
  BY DEF Quiet, SameSlots, SameSlot, IsOpen, RequestStates
<1>2. \A m : IsKept(m)' <=> IsKept(m)
  BY DEF Quiet, SameSlots, SameSlot, IsKept
<1>3. UNCHANGED <<OpenRequests, KeptMessages>>
  <2>1. OpenRequests' = OpenRequests
    BY <1>1, OpenAndKept
  <2>2. KeptMessages' = KeptMessages
    BY <1>2, OpenAndKept
  <2> QED
    BY <2>1, <2>2
<1>4. PromiseStep
  BY <1>3 DEF PromiseStep, Promise!promiseVars, Quiet, appVars
<1>5. \A i \in Slots : Releasable(i)' =>
        Releasable(i) /\ ContextAt(i)' = ContextAt(i)
  BY DEF Quiet, SameSlots, SameSlot, Releasable
<1> QED
  BY <1>4, <1>5, SlotsKeepRequestsApart, SlotsKeepMessagesApart
     DEF Quiet, appVars, Apart

\* A request takes a slot.
Asked ==
  /\ requests < MaxRequests /\ requests' = requests + 1
  /\ ~is_request_queue_full(req_queue)
  /\ \E i \in Slots, state \in RequestStates : Filled(i, state, requests + 1)
  /\ NoneNew /\ UNCHANGED <<msgs_sent, completed, delivered>>
LEMMA AskedStep ==
  ASSUME Apart, Asked
  PROVE  RequestsApart' /\ MessagesApart' /\ PromiseStep
<1>1. PICK i \in Slots, state \in RequestStates : Filled(i, state, requests + 1)
  BY DEF Asked
<1>2. /\ requests \in Nat /\ requests + 1 \in 1 .. MaxRequests
      /\ completed \in [1 .. MaxRequests -> Nat] /\ MaxRequests \in Nat
  BY ClientAssumption DEF Apart, Inv, TypeOK, ClientTypeOK, Asked
<1>3. ASSUME NEW j \in Slots, StateAt(j)' \in RequestStates, j # i
      PROVE  /\ StateAt(j) \in RequestStates
             /\ ContextAt(j)' = ContextAt(j) /\ ContextAt(j) \in 1 .. requests
  BY <1>1, <1>3 DEF Filled, SameSlotsBut, SameSlot, RequestStates, Apart,
     RequestsApart
<1>4. /\ StateAt(i)' \in RequestStates /\ ContextAt(i)' = requests + 1
      /\ completed[requests + 1] = 0
  BY <1>1, <1>2 DEF Filled, Apart, RequestsApart
<1>5. RequestsApart'
  <2>1. \A j \in Slots : StateAt(j)' \in RequestStates =>
          ContextAt(j)' \in 1 .. requests' /\ completed'[ContextAt(j)'] = 0
    BY <1>2, <1>3, <1>4 DEF Asked, Apart, RequestsApart
  <2>2. \A j, k \in Slots :
          /\ StateAt(j)' \in RequestStates /\ StateAt(k)' \in RequestStates
          /\ ContextAt(j)' = ContextAt(k)'
          => j = k
    BY <1>2, <1>3, <1>4 DEF Apart, RequestsApart
  <2>3. \A r \in 1 .. MaxRequests :
          completed'[r] <= 1 /\ (r > requests' => completed'[r] = 0)
    BY <1>2 DEF Asked, Apart, RequestsApart
  <2> QED
    BY <2>1, <2>2, <2>3 DEF RequestsApart
<1>6. MessagesApart'
  <2>1. \A j \in Slots : Releasable(j)' =>
          Releasable(j) /\ ContextAt(j)' = ContextAt(j)
    BY <1>1 DEF Filled, SameSlotsBut, SameSlot, Releasable, RequestStates
  <2> QED
    BY <2>1, SlotsKeepMessagesApart DEF Asked, Apart
<1>7. OpenRequests' = OpenRequests \cup {requests + 1}
  <2>1. \A r : IsOpen(r)' <=> IsOpen(r) \/ r = requests + 1
    BY <1>1 DEF Filled, SameSlotsBut, SameSlot, IsOpen, RequestStates
  <2> QED
    BY <2>1, OpenAndKept
<1>8. KeptMessages' = KeptMessages
  <2>1. \A m : IsKept(m)' <=> IsKept(m)
    BY <1>1 DEF Filled, SameSlotsBut, SameSlot, IsKept, RequestStates
  <2> QED
    BY <2>1, OpenAndKept
<1>9. Promise!Ask
  BY <1>7, <1>8, RoomBehindFullTest DEF Promise!Ask, Asked, Apart
<1> QED
  BY <1>5, <1>6, <1>9 DEF PromiseStep, Promise!PromiseNext

\* A request is sent and forgotten.
Forgotten ==
  /\ requests < MaxRequests /\ requests' = requests + 1
  /\ NoneNew /\ UNCHANGED <<req_queue, msgs_sent, completed, delivered>>
LEMMA ForgottenStep ==
  ASSUME Apart, Forgotten
  PROVE  RequestsApart' /\ MessagesApart' /\ PromiseStep
<1>1. /\ requests \in Nat /\ MaxRequests \in Nat
      /\ completed \in [1 .. MaxRequests -> Nat]
  BY ClientAssumption DEF Apart, Inv, TypeOK, ClientTypeOK
<1>2. /\ \A i \in Slots : StateAt(i)' = StateAt(i) /\ ContextAt(i)' = ContextAt(i)
      /\ UNCHANGED <<OpenRequests, KeptMessages>>
  BY DEF Forgotten, StateAt, ContextAt, OpenRequests, KeptMessages, BusySlots
<1>3. RequestsApart'
  BY <1>1, <1>2 DEF Forgotten, Apart, RequestsApart
<1>4. MessagesApart'
  <2>1. \A j \in Slots : Releasable(j)' =>
          Releasable(j) /\ ContextAt(j)' = ContextAt(j)
    BY <1>2 DEF Releasable
  <2> QED
    BY <2>1, SlotsKeepMessagesApart DEF Forgotten, Apart
<1>5. Promise!Forget
  BY <1>2 DEF Promise!Forget, Forgotten
<1> QED
  BY <1>3, <1>4, <1>5 DEF PromiseStep, Promise!PromiseNext

\* A request gives its slot back, reported or not.
Ended(i) ==
  /\ StateAt(i) \in RequestStates /\ Freed(i)
  /\ \/ completed' = [completed EXCEPT ![ContextAt(i)] = @ + 1]
     \/ completed' = completed
  /\ NoneNew /\ UNCHANGED <<msgs_sent, requests, delivered>>
LEMMA EndedStep ==
  ASSUME Apart, NEW i \in Slots, Ended(i)
  PROVE  RequestsApart' /\ MessagesApart' /\ PromiseStep
<1> DEFINE r == ContextAt(i)
<1>1. /\ requests \in Nat /\ MaxRequests \in Nat /\ requests <= MaxRequests
      /\ completed \in [1 .. MaxRequests -> Nat]
      /\ r \in 1 .. requests /\ completed[r] = 0 /\ r \in 1 .. MaxRequests
  <2>1. /\ requests \in 0 .. MaxRequests /\ MaxRequests \in Nat
        /\ completed \in [1 .. MaxRequests -> Nat]
    BY ClientAssumption DEF Apart, Inv, TypeOK, ClientTypeOK
  <2>2. r \in 1 .. requests /\ completed[r] = 0
    BY DEF Apart, RequestsApart, Ended
  <2> QED
    BY <2>1, <2>2
<1>2. /\ \A x \in 1 .. MaxRequests : x # r => completed'[x] = completed[x]
      /\ completed'[r] \in {0, 1}
  BY <1>1 DEF Ended
<1>3. ASSUME NEW j \in Slots, StateAt(j)' \in RequestStates
      PROVE  /\ j # i /\ StateAt(j) \in RequestStates
             /\ ContextAt(j)' = ContextAt(j) /\ ContextAt(j) # r
             /\ ContextAt(j) \in 1 .. requests /\ completed[ContextAt(j)] = 0
  <2>1. j # i /\ StateAt(j) \in RequestStates /\ ContextAt(j)' = ContextAt(j)
    BY <1>3 DEF Ended, Freed, SameSlotsBut, SameSlot, RequestStates
  <2> QED
    BY <2>1 DEF Apart, RequestsApart, Ended
<1>4. RequestsApart'
  <2>1. \A j \in Slots : StateAt(j)' \in RequestStates =>
          ContextAt(j)' \in 1 .. requests' /\ completed'[ContextAt(j)'] = 0
    BY <1>1, <1>2, <1>3 DEF Ended
  <2>2. \A j, k \in Slots :
          /\ StateAt(j)' \in RequestStates /\ StateAt(k)' \in RequestStates
          /\ ContextAt(j)' = ContextAt(k)'
          => j = k
    BY <1>3 DEF Apart, RequestsApart
  <2>3. \A x \in 1 .. MaxRequests :
          completed'[x] <= 1 /\ (x > requests' => completed'[x] = 0)
    BY <1>1, <1>2 DEF Ended, Apart, RequestsApart
  <2> QED
    BY <2>1, <2>2, <2>3 DEF RequestsApart
<1>5. MessagesApart'
  <2>1. \A j \in Slots : Releasable(j)' =>
          Releasable(j) /\ ContextAt(j)' = ContextAt(j)
    BY DEF Ended, Freed, SameSlotsBut, SameSlot, Releasable
  <2> QED
    BY <2>1, SlotsKeepMessagesApart DEF Ended, Apart
<1>6. OpenRequests' = OpenRequests \ {r} /\ r \in OpenRequests
  <2>1. \A x : IsOpen(x)' <=> IsOpen(x) /\ x # r
    BY <1>3 DEF Ended, Freed, SameSlotsBut, SameSlot, IsOpen
  <2>2. IsOpen(r)
    BY DEF IsOpen, Ended
  <2> HIDE DEF r
  <2> QED
    BY <2>1, <2>2, OpenAndKept
<1>7. KeptMessages' = KeptMessages
  <2>1. \A m : IsKept(m)' <=> IsKept(m)
    BY DEF Ended, Freed, SameSlotsBut, SameSlot, IsKept
  <2> QED
    BY <2>1, OpenAndKept
<1>8. Promise!Report(r) \/ Promise!Finish(r)
  BY <1>6, <1>7 DEF Promise!Report, Promise!Finish, Ended
<1> QED
  BY <1>1, <1>4, <1>5, <1>8 DEF PromiseStep, Promise!PromiseNext

\* A message takes a slot.  If the slot may be released, its PUBLISH is gone.
KeepsMessage(i, m) ==
  /\ ~is_request_queue_full(req_queue) /\ UnderWay(m)
  /\ StateAt(i)' \notin RequestStates /\ StateAt(i)' # "NO_REQUEST"
  /\ Filled(i, StateAt(i)', m)
  /\ Releasable(i)' => ~UnderWay(m)'
  /\ NoneNew /\ UNCHANGED <<msgs_sent, appVars>>
LEMMA KeepsMessageStep ==
  ASSUME Apart, NEW i \in Slots, NEW m, KeepsMessage(i, m)
  PROVE  RequestsApart' /\ MessagesApart' /\ PromiseStep
<1>1. /\ m \in 1 .. msgs_sent /\ delivered[m] = 0 /\ m \in 1 .. MaxMsgs
      /\ \A j \in Slots : Releasable(j) => ContextAt(j) # m
  <2>1. Fresh(m)
    BY DEF KeepsMessage, Apart, MessagesApart
  <2>2. msgs_sent \in 0 .. MaxMsgs /\ MaxMsgs \in Nat
    BY ClientAssumption DEF Apart, Inv, TypeOK, BrokerTypeOK
  <2> QED
    BY <2>1, <2>2 DEF Fresh
<1>2. RequestsApart'
  BY DEF KeepsMessage, Filled, SameSlotsBut, SameSlot, RequestStates, appVars,
     Apart, RequestsApart
<1>3. ASSUME NEW j \in Slots, Releasable(j)'
      PROVE  /\ j # i => Releasable(j) /\ ContextAt(j)' = ContextAt(j)
             /\ j = i => ContextAt(j)' = m /\ ~UnderWay(m)'
  BY <1>3 DEF KeepsMessage, Filled, SameSlotsBut, SameSlot, Releasable
<1>4. MessagesApart'
  <2>1. ASSUME NEW n, UnderWay(n)'
        PROVE  Fresh(n)'
    <3>1. UnderWay(n) /\ Fresh(n)
      BY <2>1 DEF KeepsMessage, NoneNew, Apart, MessagesApart
    <3> QED
      BY <1>3, <2>1, <3>1 DEF Fresh, KeepsMessage, appVars
  <2>2. \A j \in Slots : Releasable(j)' =>
          ContextAt(j)' \in 1 .. msgs_sent' /\ delivered'[ContextAt(j)'] = 0
    BY <1>1, <1>3 DEF KeepsMessage, appVars, Apart, MessagesApart
  <2>3. \A j, k \in Slots :
          Releasable(j)' /\ Releasable(k)' /\ ContextAt(j)' = ContextAt(k)' => j = k
    BY <1>1, <1>3 DEF Apart, MessagesApart
  <2> QED
    BY <2>1, <2>2, <2>3 DEF MessagesApart, KeepsMessage, NoneNew, appVars, Apart
<1>5. OpenRequests' = OpenRequests
  <2>1. \A r : IsOpen(r)' <=> IsOpen(r)
    BY DEF KeepsMessage, Filled, SameSlotsBut, SameSlot, IsOpen, RequestStates
  <2> QED
    BY <2>1, OpenAndKept
<1>6. KeptMessages' = KeptMessages \cup {m}
  <2>1. \A n : IsKept(n)' <=> IsKept(n) \/ n = m
    BY DEF KeepsMessage, Filled, SameSlotsBut, SameSlot, IsKept
  <2> QED
    BY <2>1, OpenAndKept
<1>7. Promise!Keep(m)
  BY <1>1, <1>5, <1>6, RoomBehindFullTest
     DEF Promise!Keep, KeepsMessage, appVars, Apart
<1> QED
  BY <1>1, <1>2, <1>4, <1>7 DEF PromiseStep, Promise!PromiseNext

\* A message is delivered at once.
Received(m) ==
  /\ UnderWay(m) /\ ~UnderWay(m)' /\ SameSlots
  /\ delivered' = [delivered EXCEPT ![m] = @ + 1]
  /\ NoneNew /\ UNCHANGED <<msgs_sent, requests, completed>>
LEMMA ReceivedStep ==
  ASSUME Apart, NEW m, Received(m)
  PROVE  RequestsApart' /\ MessagesApart' /\ PromiseStep
<1>1. /\ m \in 1 .. msgs_sent /\ delivered[m] = 0 /\ m \in 1 .. MaxMsgs
      /\ delivered \in [1 .. MaxMsgs -> Nat] /\ msgs_sent \in Nat
      /\ \A j \in Slots : Releasable(j) => ContextAt(j) # m
  <2>1. Fresh(m)
    BY DEF Received, Apart, MessagesApart
  <2>2. /\ msgs_sent \in 0 .. MaxMsgs /\ MaxMsgs \in Nat
        /\ delivered \in [1 .. MaxMsgs -> Nat]
    BY ClientAssumption DEF Apart, Inv, TypeOK, BrokerTypeOK, ClientTypeOK
  <2> QED
    BY <2>1, <2>2 DEF Fresh
<1>2. \A n : n # m => delivered'[n] = delivered[n]
  BY <1>1 DEF Received
<1>3. RequestsApart'
  BY SlotsKeepRequestsApart DEF Received, Apart
<1>4. \A j \in Slots : Releasable(j)' =>
        Releasable(j) /\ ContextAt(j)' = ContextAt(j) /\ ContextAt(j) # m
  BY <1>1 DEF Received, SameSlots, SameSlot, Releasable
<1>5. MessagesApart'
  <2>1. ASSUME NEW n, UnderWay(n)'
        PROVE  Fresh(n)'
    <3>1. Fresh(n) /\ n # m
      BY <2>1 DEF Received, NoneNew, Apart, MessagesApart
    <3> QED
      BY <1>2, <1>4, <3>1 DEF Fresh, Received
  <2>2. \A j \in Slots : Releasable(j)' =>
          ContextAt(j)' \in 1 .. msgs_sent' /\ delivered'[ContextAt(j)'] = 0
    BY <1>2, <1>4 DEF Received, Apart, MessagesApart
  <2>3. \A j, k \in Slots :
          Releasable(j)' /\ Releasable(k)' /\ ContextAt(j)' = ContextAt(k)' => j = k
    BY <1>4 DEF Apart, MessagesApart
  <2>4. \A n \in 1 .. MaxMsgs : n > msgs_sent' => delivered'[n] = 0
    BY <1>1, <1>2 DEF Received, Apart, MessagesApart
  <2> QED
    BY <2>1, <2>2, <2>3, <2>4 DEF MessagesApart, Received, NoneNew
<1>6. UNCHANGED <<OpenRequests, KeptMessages>>
  <2>1. \A r : IsOpen(r)' <=> IsOpen(r)
    BY DEF Received, SameSlots, SameSlot, IsOpen, RequestStates
  <2>2. \A n : IsKept(n)' <=> IsKept(n)
    BY DEF Received, SameSlots, SameSlot, IsKept
  <2>3. OpenRequests' = OpenRequests
    BY <2>1, OpenAndKept
  <2>4. KeptMessages' = KeptMessages
    BY <2>2, OpenAndKept
  <2> QED
    BY <2>3, <2>4
<1>7. Promise!Receive(m)
  BY <1>1, <1>6 DEF Promise!Receive, Received
<1> QED
  BY <1>1, <1>3, <1>5, <1>7 DEF PromiseStep, Promise!PromiseNext

\* A message kept is delivered and gives its slot back.
Released(i) ==
  /\ Releasable(i) /\ Freed(i)
  /\ delivered' = [delivered EXCEPT ![ContextAt(i)] = @ + 1]
  /\ NoneNew /\ UNCHANGED <<msgs_sent, requests, completed>>
LEMMA ReleasedStep ==
  ASSUME Apart, NEW i \in Slots, Released(i)
  PROVE  RequestsApart' /\ MessagesApart' /\ PromiseStep
<1> DEFINE m == ContextAt(i)
<1>1. /\ m \in 1 .. msgs_sent /\ delivered[m] = 0 /\ m \in 1 .. MaxMsgs
      /\ delivered \in [1 .. MaxMsgs -> Nat] /\ msgs_sent \in Nat
      /\ ~UnderWay(m)
  <2>1. m \in 1 .. msgs_sent /\ delivered[m] = 0
    BY DEF Released, Apart, MessagesApart
  <2>2. /\ msgs_sent \in 0 .. MaxMsgs /\ MaxMsgs \in Nat
        /\ delivered \in [1 .. MaxMsgs -> Nat]
    BY ClientAssumption DEF Apart, Inv, TypeOK, BrokerTypeOK, ClientTypeOK
  <2>3. ~Fresh(m)
    BY DEF Fresh, Released
  <2>4. ~UnderWay(m)
    BY <2>3 DEF Apart, MessagesApart
  <2> QED
    BY <2>1, <2>2, <2>4
<1>2. /\ \A n : n # m => delivered'[n] = delivered[n]
      /\ delivered' = [delivered EXCEPT ![m] = @ + 1]
  BY <1>1 DEF Released
<1>3. RequestsApart'
  BY DEF Released, Freed, SameSlotsBut, SameSlot, RequestStates, Apart,
     RequestsApart
<1>4. \A j \in Slots : Releasable(j)' =>
        /\ j # i /\ Releasable(j) /\ ContextAt(j)' = ContextAt(j)
        /\ ContextAt(j) # m
  BY DEF Released, Freed, SameSlotsBut, SameSlot, Releasable, Apart,
     MessagesApart
<1>5. MessagesApart'
  <2> HIDE DEF m
  <2>1. ASSUME NEW n, UnderWay(n)'
        PROVE  Fresh(n)'
    <3>1. UnderWay(n) /\ Fresh(n)
      BY <2>1 DEF Released, NoneNew, Apart, MessagesApart
    <3>2. n # m
      BY <1>1, <3>1
    <3> QED
      BY <1>2, <1>4, <3>1, <3>2 DEF Fresh, Released
  <2>2. \A j \in Slots : Releasable(j)' =>
          ContextAt(j)' \in 1 .. msgs_sent' /\ delivered'[ContextAt(j)'] = 0
    BY <1>2, <1>4 DEF Released, Apart, MessagesApart
  <2>3. \A j, k \in Slots :
          Releasable(j)' /\ Releasable(k)' /\ ContextAt(j)' = ContextAt(k)' => j = k
    BY <1>4 DEF Apart, MessagesApart
  <2>4. \A n \in 1 .. MaxMsgs : n > msgs_sent' => delivered'[n] = 0
    BY <1>1, <1>2 DEF Released, Apart, MessagesApart
  <2> QED
    BY <2>1, <2>2, <2>3, <2>4 DEF MessagesApart, Released, NoneNew
<1>6. OpenRequests' = OpenRequests
  <2>1. \A r : IsOpen(r)' <=> IsOpen(r)
    BY DEF Released, Releasable, Freed, SameSlotsBut, SameSlot, IsOpen,
       RequestStates
  <2> QED
    BY <2>1, OpenAndKept
<1>7. m \in KeptMessages
  <2>1. IsKept(m)
    BY DEF Released, Releasable, IsKept, RequestStates
  <2> QED
    BY <2>1, OpenAndKept
<1>8. KeptMessages' = KeptMessages \/ KeptMessages' = KeptMessages \ {m}
  <2>1. \A n : n # m => (IsKept(n)' <=> IsKept(n))
    BY DEF Released, Releasable, Freed, SameSlotsBut, SameSlot, IsKept,
       RequestStates
  <2> HIDE DEF m
  <2> QED
    BY <1>7, <2>1, OpenAndKept
<1>9. Promise!Receive(m) \/ Promise!Release(m)
  BY <1>1, <1>2, <1>6, <1>7, <1>8 DEF Promise!Receive, Promise!Release, Released
<1> QED
  BY <1>1, <1>3, <1>5, <1>9 DEF PromiseStep, Promise!PromiseNext

\* The broker publishes: nothing the promise speaks of.
Published ==
  /\ UNCHANGED <<req_queue, appVars>>
  /\ msgs_sent < MaxMsgs /\ msgs_sent' = msgs_sent + 1
  /\ PublishesDiffer'
  /\ \A m : UnderWay(m)' => UnderWay(m) \/ m = msgs_sent + 1
LEMMA PublishedStep ==
  ASSUME Apart, Published
  PROVE  RequestsApart' /\ MessagesApart' /\ PromiseStep
<1>1. /\ msgs_sent \in Nat /\ MaxMsgs \in Nat
      /\ msgs_sent + 1 \in 1 .. MaxMsgs
  BY ClientAssumption DEF Apart, Inv, TypeOK, BrokerTypeOK, Published
<1>2. /\ \A i \in Slots : StateAt(i)' = StateAt(i) /\ ContextAt(i)' = ContextAt(i)
      /\ \A i \in Slots : Releasable(i)' <=> Releasable(i)
      /\ UNCHANGED <<OpenRequests, KeptMessages>>
      /\ UNCHANGED <<requests, completed, delivered>>
  BY DEF Published, appVars, StateAt, ContextAt, OpenRequests, KeptMessages,
     BusySlots, Releasable
<1>3. RequestsApart'
  BY <1>2 DEF Apart, RequestsApart
<1>4. MessagesApart'
  <2>1. ASSUME NEW m, UnderWay(m)'
        PROVE  Fresh(m)'
    <3>1. CASE UnderWay(m)
      BY <1>1, <1>2, <3>1 DEF Published, Fresh, Apart, MessagesApart
    <3>2. CASE m = msgs_sent + 1
      BY <1>1, <1>2, <3>2 DEF Published, Fresh, Apart, MessagesApart
    <3> QED
      BY <2>1, <3>1, <3>2 DEF Published
  <2>2. \A i \in Slots : Releasable(i)' =>
          ContextAt(i)' \in 1 .. msgs_sent' /\ delivered'[ContextAt(i)'] = 0
    BY <1>1, <1>2 DEF Published, Apart, MessagesApart
  <2>3. \A i, j \in Slots :
          Releasable(i)' /\ Releasable(j)' /\ ContextAt(i)' = ContextAt(j)' => i = j
    BY <1>2 DEF Apart, MessagesApart
  <2>4. \A m \in 1 .. MaxMsgs : m > msgs_sent' => delivered'[m] = 0
    BY <1>1, <1>2 DEF Published, Apart, MessagesApart
  <2> QED
    BY <2>1, <2>2, <2>3, <2>4 DEF MessagesApart, Published
<1>5. PromiseStep
  BY <1>2 DEF PromiseStep, Promise!promiseVars
<1> QED
  BY <1>3, <1>4, <1>5

----
(***************************************************************************)
(* What the queue's operators do to the slots.                             *)
(***************************************************************************)
\* A queue left alone leaves the slots alone.
LEMMA QueueUnchanged ==
  ASSUME UNCHANGED req_queue
  PROVE  SameSlots
BY DEF SameSlots, SameSlot, StateAt, ContextAt, Releasable

\* The slot an acknowledgement finds moves on: it is freed, or goes from one
\* sending state to the next wait.
LEMMA FoundMoves ==
  ASSUME Inv, NEW p \in Packets, p.type \in AckTypes, Found(p) # {},
         NEW i, i = FirstSlot(Found(p))
  PROVE  /\ i \in Slots /\ StateAt(i) = Awaited(p.type) /\ ContextAt(i) = ContextOf(p)
         /\ req_queue' = FindRequest(p) =>
              IF p.type \in {"PUBREC", "PUBREL"} THEN SameSlots
              ELSE Freed(i) /\ StateAt(i) \in RequestStates
         /\ /\ p.type = "PUBREC"
            /\ req_queue' = mqtt_req_queue_update(FindRequest(p), "SENDING_PUBREL", i)
            => SameSlots
         /\ /\ p.type = "PUBREL"
            /\ req_queue' = mqtt_req_queue_update(FindRequest(p), "SENDING_PUBCOMP", i)
            => Freed(i) /\ Releasable(i)
<1> DEFINE next == get_next_conv_state(Awaited(p.type))
<1>1. /\ i \in Slots /\ StateAt(i) = Awaited(p.type) /\ ContextAt(i) = ContextOf(p)
      /\ req_queue \in QueueOf(Requests) /\ FindRequest(p) \in QueueOf(Requests)
  BY FoundType, BusyAndFree
     DEF Inv, TypeOK, ClientTypeOK, StateAt, ContextAt, ContextOf
<1>2. FindRequest(p) = mqtt_req_queue_update(req_queue, Awaited(p.type), i)
  BY DEF FindRequest, Found, mqtt_req_queue_find
<1>3. \A j \in Slots : req_queue.requests[j] \in Requests
  BY <1>1 DEF QueueOf
<1>4. \A j \in Slots : FindRequest(p).requests[j] =
        IF j = i THEN [req_queue.requests[j] EXCEPT !.conv_state = next]
        ELSE req_queue.requests[j]
  BY <1>1, <1>2, UpdateChanges
<1>5. /\ FindRequest(p).requests[i].conv_state = next
      /\ FindRequest(p).requests[i].context = ContextAt(i)
  BY <1>1, <1>3, <1>4 DEF Requests, ContextAt
<1>6. ASSUME req_queue' = FindRequest(p)
      PROVE  IF p.type \in {"PUBREC", "PUBREL"} THEN SameSlots
             ELSE Freed(i) /\ StateAt(i) \in RequestStates
  <2>1. /\ StateAt(i)' = next /\ ContextAt(i)' = ContextAt(i)
        /\ SameSlotsBut(i)
    BY <1>4, <1>5, <1>6 DEF StateAt, ContextAt, SameSlotsBut, SameSlot, Releasable
  <2>2. CASE p.type \in {"PUBREC", "PUBREL"}
    <3>1. /\ p.type = "PUBREC" =>
                StateAt(i) = "WAITING_FOR_PUBREC" /\ StateAt(i)' = "SENDING_PUBREL"
          /\ p.type = "PUBREL" =>
                StateAt(i) = "WAITING_FOR_PUBREL" /\ StateAt(i)' = "SENDING_PUBCOMP"
      BY <1>1, <2>1 DEF Awaited, get_next_conv_state
    <3>2. SameSlot(i)
      BY <2>1, <2>2, <3>1 DEF SameSlot, RequestStates, Releasable
    <3> QED
      BY <2>1, <2>2, <3>2 DEF SameSlots, SameSlotsBut
  <2>3. CASE p.type \notin {"PUBREC", "PUBREL"}
    <3>1. StateAt(i) \in RequestStates /\ StateAt(i)' = "NO_REQUEST"
      BY <1>1, <2>1, <2>3
         DEF AckTypes, Awaited, get_next_conv_state, RequestStates
    <3> QED
      BY <2>1, <2>3, <3>1 DEF Freed, RequestStates
  <2> QED
    BY <2>2, <2>3
<1>7. ASSUME NEW state,
             req_queue' = mqtt_req_queue_update(FindRequest(p), state, i)
      PROVE  /\ StateAt(i)' = get_next_conv_state(state)
             /\ ContextAt(i)' = ContextAt(i) /\ SameSlotsBut(i)
  <2>1. \A j \in Slots : req_queue'.requests[j] =
          IF j = i THEN [FindRequest(p).requests[j] EXCEPT
                           !.conv_state = get_next_conv_state(state)]
          ELSE FindRequest(p).requests[j]
    BY <1>1, <1>7, UpdateChanges
  <2>2. FindRequest(p).requests[i] \in Requests
    BY <1>1 DEF QueueOf
  <2>3. /\ StateAt(i)' = get_next_conv_state(state)
        /\ ContextAt(i)' = ContextAt(i)
    BY <1>1, <1>5, <2>1, <2>2 DEF Requests, StateAt, ContextAt
  <2>4. SameSlotsBut(i)
    BY <1>4, <2>1 DEF StateAt, ContextAt, SameSlotsBut, SameSlot, Releasable
  <2> QED
    BY <2>3, <2>4
<1>8. ASSUME p.type = "PUBREC",
             req_queue' = mqtt_req_queue_update(FindRequest(p), "SENDING_PUBREL", i)
      PROVE  SameSlots
  <2>1. StateAt(i)' = "WAITING_FOR_PUBCOMP" /\ ContextAt(i)' = ContextAt(i)
        /\ SameSlotsBut(i) /\ StateAt(i) = "WAITING_FOR_PUBREC"
    BY <1>1, <1>7, <1>8 DEF get_next_conv_state, Awaited
  <2> QED
    BY <1>1, <2>1
       DEF SameSlots, SameSlotsBut, SameSlot, RequestStates, Releasable
<1>9. ASSUME p.type = "PUBREL",
             req_queue' = mqtt_req_queue_update(FindRequest(p), "SENDING_PUBCOMP", i)
      PROVE  Freed(i) /\ Releasable(i)
  <2>1. StateAt(i)' = "NO_REQUEST" /\ SameSlotsBut(i)
        /\ StateAt(i) = "WAITING_FOR_PUBREL"
    BY <1>1, <1>7, <1>9 DEF get_next_conv_state, Awaited
  <2> QED
    BY <2>1 DEF Freed, Releasable
<1> QED
  BY <1>1, <1>6, <1>8, <1>9

\* A message kept fills a free slot; answered, its slot is free again (QoS 1) or
\* waits for the release (QoS 2).
LEMMA KeptMoves ==
  ASSUME Inv, NEW p \in Packets, ~Discarded(p), NEW i, i = AddedAt,
         NEW state \in {"SENDING_PUBACK", "SENDING_PUBREC"}
  PROVE  /\ i \in Slots
         /\ req_queue' = Kept(p, state) => Filled(i, state, p.body)
         /\ req_queue' = mqtt_req_queue_update(Kept(p, state), state, i) =>
              IF state = "SENDING_PUBACK" THEN SameSlots
              ELSE Filled(i, "WAITING_FOR_PUBREL", p.body)
<1> DEFINE req == [ packet_id |-> p.id, context |-> p.body, conv_state |-> state ]
           k == Kept(p, state)
<1>1. /\ k \in QueueOf(Requests) /\ i \in FreeSlots(req_queue) /\ i \in Slots
      /\ StateAt(i) = "NO_REQUEST" /\ FreeSlots(req_queue) # {}
      /\ req_queue \in QueueOf(Requests)
  <2>1. state \in ConvStates /\ state # "NO_REQUEST"
    BY DEF ConvStates
  <2> QED
    BY <2>1, KeptType, BusyAndFree DEF FreeSlots, StateAt, Inv, TypeOK, ClientTypeOK
<1>2. k.requests = [req_queue.requests EXCEPT ![i] = req]
  BY <1>1 DEF Kept, mqtt_req_queue_add, AddedAt
<1>3. \A j \in Slots : k.requests[j] = IF j = i THEN req ELSE req_queue.requests[j]
  BY <1>1, <1>2 DEF QueueOf
<1>4. ASSUME req_queue' = k
      PROVE  Filled(i, state, p.body)
  <2>1. /\ StateAt(i)' = state /\ ContextAt(i)' = p.body /\ SameSlotsBut(i)
    BY <1>1, <1>3, <1>4 DEF StateAt, ContextAt, SameSlotsBut, SameSlot, Releasable
  <2> QED
    BY <1>1, <2>1 DEF Filled
<1>5. ASSUME req_queue' = mqtt_req_queue_update(k, state, i)
      PROVE  IF state = "SENDING_PUBACK" THEN SameSlots
             ELSE Filled(i, "WAITING_FOR_PUBREL", p.body)
  <2>1. \A j \in Slots : req_queue'.requests[j] =
          IF j = i THEN [k.requests[j] EXCEPT
                           !.conv_state = get_next_conv_state(state)]
          ELSE k.requests[j]
    BY <1>1, <1>5, UpdateChanges
  <2>2. req_queue'.requests[i] =
          [req EXCEPT !.conv_state = get_next_conv_state(state)]
    BY <1>1, <1>3, <2>1
  <2>3. /\ StateAt(i)' = get_next_conv_state(state) /\ ContextAt(i)' = p.body
    BY <2>2 DEF StateAt, ContextAt
  <2>4. SameSlotsBut(i)
    BY <1>3, <2>1 DEF StateAt, ContextAt, SameSlotsBut, SameSlot, Releasable
  <2> QED
    BY <1>1, <2>3, <2>4
       DEF get_next_conv_state, SameSlots, SameSlotsBut, SameSlot, Filled,
           RequestStates, Releasable
<1> QED
  BY <1>1, <1>4, <1>5

\* Closing a connection keeps what is on the way to the client, or drops it.
LEMMA CloseKeepsIn ==
  ASSUME NEW n \in ConnRecords
  PROVE  TCPHandler_close(n).in = n.in \/ TCPHandler_close(n).in = <<>>
<1>1. CASE n.state \in {"allocated", "syn_sent"}
  BY <1>1 DEF TCPHandler_close
<1>2. CASE n.state = "established"
  <2>1. TCPHandler_close(n) =
          [n EXCEPT !.state = "fin_wait", !.out = Append(n.out, Fin)]
    BY <1>2 DEF TCPHandler_close
  <2> QED
    BY <2>1 DEF ConnRecords
<1>3. CASE n.state \notin {"allocated", "syn_sent", "established"}
  BY <1>3 DEF TCPHandler_close
<1> QED
  BY <1>1, <1>2, <1>3

\* Sending and closing put nothing on the way to the client.
LEMMA ClientLanes ==
  ASSUME Inv
  PROVE  /\ \A packet : Send(packet) => \A c \in Conns : conn'[c].in = conn[c].in
         /\ Close => \A c \in Conns : conn'[c].in = conn[c].in \/ conn'[c].in = <<>>
<1>1. /\ conn \in [Pcbs -> ConnRecords] /\ pcb \in Pcbs /\ Conns \subseteq Pcbs
  BY DEF Inv, TypeOK, ConnTypeOK, ClientTypeOK, ConnRecords, Pcbs
<1>2. \A n \in ConnRecords : \A packet : TCPHandler_write(n, packet).in = n.in
  BY DEF TCPHandler_write, ConnRecords
<1>3. \A n \in ConnRecords :
        TCPHandler_close(n).in = n.in \/ TCPHandler_close(n).in = <<>>
  BY CloseKeepsIn
<1> QED
  BY <1>1, <1>2, <1>3 DEF Send, Close

----
(***************************************************************************)
(* Every step is one of these.                                             *)
(***************************************************************************)
Effect ==
  \/ Quiet \/ Asked \/ Forgotten \/ Published
  \/ \E i \in Slots : Ended(i) \/ Released(i) \/ \E m : KeepsMessage(i, m)
  \/ \E m : Received(m)

LanesDropped ==
  /\ \A c \in Conns : conn'[c].in = conn[c].in \/ conn'[c].in = <<>>
  /\ rx' = rx \/ rx' = <<>> \/ (rx # <<>> /\ rx' = Tail(rx))

LEMMA LanesDroppedNoneNew ==
  ASSUME Apart, LanesDropped
  PROVE  NoneNew
BY DroppedLanes DEF Apart, MessagesApart, LanesDropped

LEMMA QuietLanes ==
  ASSUME Apart, LanesDropped, UNCHANGED <<req_queue, msgs_sent, appVars>>
  PROVE  Quiet
BY LanesDroppedNoneNew, QueueUnchanged DEF Quiet

\* The types of what a step starts from.
LEMMA ApartTypes ==
  ASSUME Apart
  PROVE  /\ conn \in [Pcbs -> ConnRecords] /\ pcb \in Pcbs /\ Conns \subseteq Pcbs
         /\ requests \in 0 .. MaxRequests /\ rx \in Seq(Packets)
BY DEF Apart, Inv, TypeOK, ConnTypeOK, ClientTypeOK, ConnRecords, Pcbs

\* The calls of the API.
LEMMA ApplicationEffect ==
  ASSUME Apart, Application
  PROVE  Effect
<1>0. /\ conn \in [Pcbs -> ConnRecords] /\ pcb \in Pcbs /\ Conns \subseteq Pcbs
      /\ requests \in 0 .. MaxRequests
  BY ApartTypes
<1>1. CASE MQTTClient_connect \/ ConnectMemoryErr \/ ConnectTcpFailure
           \/ MQTTClient_loop
  <2>1. CASE MQTTClient_connect \/ ConnectTcpFailure
    <3>1. Unused # {} /\ pcb' = TCPHandler_get_pcb
      BY <2>1 DEF MQTTClient_connect, ConnectTcpFailure
    <3>2. PICK d \in Pcbs : d = pcb'
      BY <1>0, <3>1, NewPcb
    <3>3. \A c \in Conns : conn'[c].in = conn[c].in \/ conn'[c].in = <<>>
      <4>1. CASE MQTTClient_connect
        BY <1>0, <3>2, <4>1 DEF MQTTClient_connect
      <4>2. CASE ConnectTcpFailure
        <5>1. conn' = [conn EXCEPT ![d] = [conn[d] EXCEPT !.state = "allocated"]]
          BY <3>2, <4>2 DEF ConnectTcpFailure
        <5>2. [conn[d] EXCEPT !.state = "allocated"].in = conn[d].in
          BY <1>0 DEF ConnRecords
        <5> QED
          BY <1>0, <5>1, <5>2
      <4> QED
        BY <2>1, <4>1, <4>2
    <3> QED
      BY <2>1, <3>3, QuietLanes DEF MQTTClient_connect, ConnectTcpFailure,
         brokerVars, queueVars, rxVars, LanesDropped, Effect
  <2>2. CASE ConnectMemoryErr \/ MQTTClient_loop
    BY <2>2, QuietLanes DEF ConnectMemoryErr, MQTTClient_loop, brokerVars,
       queueVars, rxVars, LanesDropped, Effect
  <2> QED
    BY <1>1, <2>1, <2>2
<1>2. CASE MQTTClient_disconnect
  <2>1. PICK full \in is_output_buffer_full(pcb) :
          conn' = [conn EXCEPT ![pcb] =
                     TCPHandler_close(
                       IF full THEN @
                       ELSE TCPHandler_write(@, Packet("DISCONNECT", 0, 0, 0)))]
    BY <1>2 DEF MQTTClient_disconnect
  <2> DEFINE n == IF full THEN conn[pcb]
                  ELSE TCPHandler_write(conn[pcb], Packet("DISCONNECT", 0, 0, 0))
  <2>2. n \in ConnRecords /\ n.in = conn[pcb].in
    <3>1. Packet("DISCONNECT", 0, 0, 0) \in Packets
      BY SmallNumbers, PacketType DEF PacketTypes
    <3>2. conn[pcb] \in ConnRecords
      BY <1>0
    <3>3. /\ TCPHandler_write(conn[pcb], Packet("DISCONNECT", 0, 0, 0)) \in ConnRecords
          /\ TCPHandler_write(conn[pcb], Packet("DISCONNECT", 0, 0, 0)).in = conn[pcb].in
      BY <3>1, <3>2, WriteAndCloseType DEF TCPHandler_write, ConnRecords
    <3> QED
      BY <3>2, <3>3
  <2>3. conn' = [conn EXCEPT ![pcb] = TCPHandler_close(n)]
    BY <2>1
  <2> HIDE DEF n
  <2>4. TCPHandler_close(n).in = n.in \/ TCPHandler_close(n).in = <<>>
    BY <2>2, CloseKeepsIn
  <2>5. \A c \in Conns : conn'[c].in = conn[c].in \/ conn'[c].in = <<>>
    BY <1>0, <2>2, <2>3, <2>4
  <2> QED
    BY <1>2, <2>5, QuietLanes DEF MQTTClient_disconnect, brokerVars, queueVars,
       rxVars, LanesDropped, Effect
<1>3. CASE PublishQos0
  <2>1. LanesDropped
    BY <1>3, ClientLanes DEF PublishQos0, rxVars, LanesDropped, Apart
  <2>2. Forgotten
    BY <1>3, <2>1, LanesDroppedNoneNew DEF PublishQos0, MayCall, Forgotten,
       brokerVars, queueVars
  <2> QED
    BY <2>2 DEF Effect
<1>4. ASSUME NEW type, NEW qos, NEW state \in RequestStates,
             requests < MaxRequests, Request(type, qos, state)
      PROVE  Effect
  <2> DEFINE req == [ packet_id |-> last_packet_id', context |-> requests + 1,
                      conv_state |-> state ]
  <2>1. LanesDropped
    BY <1>4, ClientLanes DEF Request, rxVars, LanesDropped, Apart
  <2>2. /\ req_queue.requests \in [Slots -> Requests]
        /\ FreeSlots(req_queue) # {}
        /\ FirstSlot(FreeSlots(req_queue)) \in FreeSlots(req_queue)
        /\ FirstSlot(FreeSlots(req_queue)) \in Slots
    <3>1. FreeSlots(req_queue) # {}
      BY <1>4, NotFullHasFreeSlot DEF Request, Apart, Inv, QueueCounterExact
    <3> QED
      BY <3>1, FirstSlotIn, BusyAndFree
         DEF Apart, Inv, TypeOK, ClientTypeOK, QueueOf
  <2>7. PICK i \in Slots : i = FirstSlot(FreeSlots(req_queue))
    BY <2>2
  <2>3. req_queue'.requests = [req_queue.requests EXCEPT ![i] = req]
    BY <1>4, <2>2, <2>7 DEF Request, mqtt_req_queue_add
  <2>4. \A j \in Slots : req_queue'.requests[j] =
          IF j = i THEN req ELSE req_queue.requests[j]
    BY <2>2, <2>3
  <2>5. Filled(i, state, requests + 1)
    BY <2>2, <2>7, <2>4 DEF Filled, SameSlotsBut, SameSlot, StateAt, ContextAt,
       FreeSlots, Releasable
  <2>6. Asked
    BY <1>4, <2>1, <2>2, <2>5, LanesDroppedNoneNew DEF Asked, Request, brokerVars
  <2> QED
    BY <2>6 DEF Effect
<1>5. CASE MQTTClient_subscribe \/ MQTTClient_unsubscribe
           \/ (MQTTClient_publish /\ ~PublishQos0)
  BY <1>4, <1>5 DEF MQTTClient_subscribe, MQTTClient_unsubscribe,
     MQTTClient_publish, MayCall, RequestStates
<1> QED
  BY <1>1, <1>2, <1>3, <1>5 DEF Application

\* The waits of connect and loop, and the clock.
LEMMA WaitingEffect ==
  ASSUME Apart, Waiting \/ Tick
  PROVE  Effect
<1>1. CASE wait_for_connack \/ LoopNotConnected \/ PingProcessed \/ Tick
  BY <1>1, QuietLanes DEF wait_for_connack, LoopNotConnected, PingProcessed,
     Tick, brokerVars, queueVars, rxVars, LanesDropped, Effect
<1>2. CASE mqtt_handle_keepalive \/ mqtt_handle_timeout_on_ping
  <2>1. UNCHANGED conn \/ Close \/ \E packet : Send(packet)
    BY <1>2 DEF mqtt_handle_keepalive, mqtt_handle_timeout_on_ping
  <2>2. \A c \in Conns : conn'[c].in = conn[c].in \/ conn'[c].in = <<>>
    BY <2>1, ClientLanes DEF Apart
  <2> QED
    BY <1>2, <2>2, QuietLanes
       DEF mqtt_handle_keepalive, mqtt_handle_timeout_on_ping, brokerVars,
           queueVars, rxVars, LanesDropped, Effect
<1> QED
  BY <1>1, <1>2 DEF Waiting

\* Handling a packet: what becomes of the lanes.
LEMMA ReceptionLanes ==
  ASSUME Apart, rx # <<>>,
         \/ PacketDone /\ (UNCHANGED conn \/ \E packet : Send(packet))
         \/ PacketFailed
  PROVE  /\ LanesDropped
         /\ NoneNew
         /\ Head(rx) \in Packets
         /\ PacketDone /\ Head(rx).type = "PUBLISH"
              /\ (UNCHANGED conn \/ \E packet : Send(packet)) =>
              \A m : m = Head(rx).body => UnderWay(m) /\ ~UnderWay(m)'
<1>1. LanesDropped
  BY ClientLanes DEF PacketDone, PacketFailed, LanesDropped, Apart
<1>2. UNCHANGED conn \/ (\E packet : Send(packet)) =>
        \A c \in Conns : conn'[c].in = conn[c].in
  BY ClientLanes DEF Apart
<1> QED
  BY <1>1, <1>2, LanesDroppedNoneNew, HandledLanes, PacketTypesKept
     DEF PacketDone, Apart, MessagesApart

\* The packets that touch neither slots nor callbacks.
LEMMA OtherPacketsEffect ==
  ASSUME Apart, HandleConnack \/ HandlePingresp \/ HandlePublishDiscarded
                \/ RequestNotFound
  PROVE  Effect
<1>1. rx # <<>> /\ ((PacketDone /\ UNCHANGED conn) \/ PacketFailed)
  BY DEF HandleConnack, HandlePingresp, HandlePublishDiscarded, RequestNotFound,
     Receiving
<1>2. UNCHANGED <<req_queue, msgs_sent, appVars>>
  BY DEF HandleConnack, HandlePingresp, HandlePublishDiscarded, RequestNotFound,
     queueVars, brokerVars
<1> QED
  BY <1>1, <1>2, ReceptionLanes, QuietLanes DEF Effect

\* The last acknowledgement of a request.
LEMMA LastAckEffect ==
  ASSUME Apart, HandlePuback \/ HandlePubcomp \/ HandleSuback \/ HandleUnsuback
  PROVE  Effect
<1> DEFINE p == Head(rx)
<1>1. /\ rx # <<>> /\ PacketDone /\ UNCHANGED conn /\ req_queue' = FindRequest(p)
      /\ p.type \in AckTypes \ {"PUBREC", "PUBREL"} /\ Found(p) # {}
  BY DEF HandlePuback, HandlePubcomp, HandleSuback, HandleUnsuback,
     HandleLastAck, Receiving, AckTypes
<1>2. NoneNew /\ p \in Packets
  BY <1>1, ReceptionLanes
<1>3. PICK i \in Slots : i = FirstSlot(Found(p))
  BY <1>1, <1>2, FoundMoves DEF Apart
<1>4. Freed(i) /\ StateAt(i) \in RequestStates /\ ContextAt(i) = ContextOf(p)
  BY <1>1, <1>2, <1>3, FoundMoves DEF Apart
<1>5. /\ UNCHANGED <<msgs_sent, requests, delivered>>
      /\ \/ completed' = completed
         \/ completed' = [completed EXCEPT ![ContextAt(i)] = @ + 1]
  BY <1>4 DEF HandlePuback, HandlePubcomp, HandleSuback, HandleUnsuback,
     HandleLastAck, brokerVars, appVars
<1>6. Ended(i)
  BY <1>2, <1>4, <1>5 DEF Ended
<1> QED
  BY <1>6 DEF Effect

\* The middle of a QoS 2 publish, and the release of a message.
LEMMA ReleaseEffect ==
  ASSUME Apart, HandlePubrec \/ HandlePubrel
  PROVE  Effect
<1> DEFINE p == Head(rx)
<1>1. /\ rx # <<>> /\ p.type \in AckTypes /\ Found(p) # {}
      /\ HandlePubrec => p.type = "PUBREC"
      /\ HandlePubrel => p.type = "PUBREL"
      /\ UNCHANGED <<msgs_sent, requests, completed>>
      /\ (PacketDone /\ \E packet : Send(packet)) \/ PacketFailed
  BY DEF HandlePubrec, HandlePubrel, Receiving, AckTypes, Answer,
     AnswerDoesNotFit, brokerVars, appVars
<1>2. NoneNew /\ p \in Packets
  BY <1>1, ReceptionLanes
<1>3. PICK i \in Slots : i = FirstSlot(Found(p))
  BY <1>1, <1>2, FoundMoves DEF Apart
<1>4. /\ StateAt(i) = Awaited(p.type) /\ ContextAt(i) = ContextOf(p)
      /\ p.type \in {"PUBREC", "PUBREL"} /\ req_queue' = FindRequest(p) => SameSlots
      /\ /\ p.type = "PUBREC"
         /\ req_queue' = mqtt_req_queue_update(FindRequest(p), "SENDING_PUBREL", i)
         => SameSlots
      /\ /\ p.type = "PUBREL"
         /\ req_queue' = mqtt_req_queue_update(FindRequest(p), "SENDING_PUBCOMP", i)
         => Freed(i) /\ Releasable(i)
  <2> HIDE DEF p
  <2> QED
    BY <1>1, <1>2, <1>3, FoundMoves DEF Apart
<1>5. CASE AnswerDoesNotFit(FindRequest(p))
  <2>1. SameSlots
    BY <1>1, <1>4, <1>5 DEF AnswerDoesNotFit
  <2> QED
    BY <1>1, <1>2, <1>5, <2>1 DEF AnswerDoesNotFit, Quiet, Effect
<1>6. CASE HandlePubrec /\ ~AnswerDoesNotFit(FindRequest(p))
  <2>1. /\ req_queue' = mqtt_req_queue_update(FindRequest(p), "SENDING_PUBREL", i)
        /\ UNCHANGED delivered
    BY <1>3, <1>6 DEF HandlePubrec, Answer
  <2>2. SameSlots
    BY <1>1, <1>4, <1>6, <2>1
  <2> QED
    BY <1>1, <1>2, <2>1, <2>2 DEF Quiet, appVars, Effect
<1>7. CASE HandlePubrel /\ ~AnswerDoesNotFit(FindRequest(p))
  <2>1. /\ req_queue' = mqtt_req_queue_update(FindRequest(p), "SENDING_PUBCOMP", i)
        /\ delivered' = [delivered EXCEPT ![ContextAt(i)] = @ + 1]
    BY <1>3, <1>4, <1>7 DEF HandlePubrel, Answer, Deliver
  <2>2. Freed(i) /\ Releasable(i)
    BY <1>1, <1>4, <1>7, <2>1
  <2>3. Released(i)
    BY <1>1, <1>2, <2>1, <2>2 DEF Released
  <2> QED
    BY <2>3 DEF Effect
<1> QED
  BY <1>5, <1>6, <1>7

\* A PUBLISH of any QoS that is not dropped.
LEMMA PublishEffect ==
  ASSUME Apart, HandlePublishQos0 \/ HandlePublishQos1 \/ HandlePublishQos2
  PROVE  Effect
<1> DEFINE p == Head(rx)
<1>1. /\ rx # <<>> /\ p.type = "PUBLISH" /\ ~Discarded(p)
      /\ ~is_request_queue_full(req_queue)
      /\ UNCHANGED <<msgs_sent, requests, completed>>
      /\ \/ PacketDone /\ (UNCHANGED conn \/ \E packet : Send(packet))
         \/ PacketFailed
  BY DEF HandlePublishQos0, HandlePublishQos1, HandlePublishQos2, Receiving,
     Answer, AnswerDoesNotFit, brokerVars, appVars, Discarded
<1>2. NoneNew /\ p \in Packets
  BY <1>1, ReceptionLanes
<1>3. PICK m : m = p.body
  OBVIOUS
<1>4. PacketDone /\ (UNCHANGED conn \/ \E packet : Send(packet)) =>
        UnderWay(m) /\ ~UnderWay(m)'
  BY <1>1, <1>3, ReceptionLanes
<1>5. CASE HandlePublishQos0
  <2>1. /\ delivered' = [delivered EXCEPT ![m] = @ + 1] /\ PacketDone
        /\ UNCHANGED conn /\ UNCHANGED req_queue
    BY <1>3, <1>5 DEF HandlePublishQos0, Deliver, queueVars
  <2>2. Received(m)
    BY <1>1, <1>2, <1>4, <2>1, QueueUnchanged DEF Received
  <2> QED
    BY <2>2 DEF Effect
<1>6. PICK i \in Slots : i = AddedAt
  BY <1>1, <1>2, KeptMoves DEF Apart
<1>7. ASSUME NEW state \in {"SENDING_PUBACK", "SENDING_PUBREC"}
      PROVE  /\ req_queue' = Kept(p, state) => Filled(i, state, m)
             /\ req_queue' = mqtt_req_queue_update(Kept(p, state), state, i) =>
                  IF state = "SENDING_PUBACK" THEN SameSlots
                  ELSE Filled(i, "WAITING_FOR_PUBREL", m)
  <2> HIDE DEF p
  <2> QED
    BY <1>1, <1>2, <1>3, <1>6, KeptMoves DEF Apart
<1>8. ASSUME NEW state \in {"SENDING_PUBACK", "SENDING_PUBREC"},
             AnswerDoesNotFit(Kept(p, state))
      PROVE  Effect
  <2>1. Filled(i, state, m) /\ UNCHANGED appVars
    BY <1>7, <1>8 DEF AnswerDoesNotFit
  <2>2. /\ StateAt(i)' = state /\ state # "NO_REQUEST" /\ state \notin RequestStates
        /\ ~Releasable(i)'
    BY <2>1 DEF Filled, RequestStates, Releasable
  <2>3. UnderWay(m)
    <3>1. /\ rx \in Seq(Packets) /\ 1 \in 1 .. Len(rx) /\ Head(rx) = rx[1]
      BY <1>1, ApartTypes, EmptySeq, LenProperties
    <3>2. NULL \in Pcbs /\ Lane(NULL) = rx
      BY DEF Pcbs, Lane
    <3>3. Carries(NULL, 1, m)
      BY <1>1, <1>3, <3>1, <3>2 DEF Carries
    <3> QED
      BY <3>1, <3>2, <3>3 DEF UnderWay
  <2>4. KeepsMessage(i, m)
    BY <1>1, <1>2, <2>1, <2>2, <2>3 DEF KeepsMessage
  <2> QED
    BY <2>4 DEF Effect
<1>9. CASE HandlePublishQos1 /\ ~AnswerDoesNotFit(Kept(p, "SENDING_PUBACK"))
  <2>1. /\ req_queue' = mqtt_req_queue_update(Kept(p, "SENDING_PUBACK"),
                                              "SENDING_PUBACK", i)
        /\ delivered' = [delivered EXCEPT ![m] = @ + 1]
        /\ PacketDone /\ \E packet : Send(packet)
    BY <1>3, <1>6, <1>9 DEF HandlePublishQos1, Answer, Deliver
  <2>2. SameSlots
    BY <1>7, <2>1
  <2>3. Received(m)
    BY <1>1, <1>2, <1>4, <2>1, <2>2 DEF Received
  <2> QED
    BY <2>3 DEF Effect
<1>10. CASE HandlePublishQos2 /\ ~AnswerDoesNotFit(Kept(p, "SENDING_PUBREC"))
  <2>1. /\ req_queue' = mqtt_req_queue_update(Kept(p, "SENDING_PUBREC"),
                                              "SENDING_PUBREC", i)
        /\ UNCHANGED delivered /\ PacketDone /\ \E packet : Send(packet)
    BY <1>6, <1>10 DEF HandlePublishQos2, Answer
  <2>2. Filled(i, "WAITING_FOR_PUBREL", m)
    BY <1>7, <2>1
  <2>3. /\ Filled(i, StateAt(i)', m) /\ StateAt(i)' # "NO_REQUEST"
        /\ StateAt(i)' \notin RequestStates
    BY <2>2 DEF Filled, RequestStates
  <2>4. KeepsMessage(i, m)
    BY <1>1, <1>2, <1>4, <2>1, <2>3 DEF KeepsMessage, appVars
  <2> QED
    BY <2>4 DEF Effect
<1> QED
  BY <1>5, <1>8, <1>9, <1>10 DEF HandlePublishQos1, HandlePublishQos2

\* Every packet of a segment.
LEMMA ReceptionEffect ==
  ASSUME Apart, get_mqtt_packet
  PROVE  Effect
BY OtherPacketsEffect, LastAckEffect, ReleaseEffect, PublishEffect
   DEF get_mqtt_packet

\* What lwIP does, for any connection.
LEMMA NetworkEffect ==
  ASSUME Apart, NEW c \in Conns, Network(c)
  PROVE  Effect
<1>1. conn \in [Pcbs -> ConnRecords] /\ c \in Pcbs /\ Conns \subseteq Pcbs
  BY ApartTypes
<1>2. CASE tcp_received_cb(c)
  <2>1. PICK n \in 1 .. Len(conn[c].in) :
          /\ rx' = SubSeq(conn[c].in, 1, n)
          /\ conn' = [conn EXCEPT ![c].in =
                        SubSeq(conn[c].in, n + 1, Len(conn[c].in))]
    <3>1. PICK n \in 1 .. MaxSeg :
            /\ n <= Len(conn[c].in)
            /\ rx' = SubSeq(conn[c].in, 1, n)
            /\ conn' = [conn EXCEPT ![c].in =
                          SubSeq(conn[c].in, n + 1, Len(conn[c].in))]
      BY <1>2 DEF tcp_received_cb
    <3>2. Len(conn[c].in) \in Nat /\ MaxSeg \in Nat
      BY <1>1, LenProperties, ClientAssumption DEF ConnRecords
    <3>3. n \in 1 .. Len(conn[c].in)
      BY <3>1, <3>2
    <3> QED
      BY <3>1, <3>3
  <2>2. /\ conn'[c].in = SubSeq(conn[c].in, n + 1, Len(conn[c].in))
        /\ \A d \in Conns \ {c} : conn'[d].in = conn[d].in
    BY <1>1, <2>1 DEF ConnRecords
  <2>3. rx = <<>>
    BY <1>2 DEF tcp_received_cb, Processing
  <2>4. NoneNew
    BY <2>1, <2>2, <2>3, HandedLanes DEF Apart, MessagesApart
  <2> QED
    BY <1>2, <2>4, QueueUnchanged DEF tcp_received_cb, brokerVars, queueVars,
       Quiet, Effect
<1>3. CASE ~tcp_received_cb(c)
  <2>1. /\ \/ \E n \in ConnRecords :
                /\ conn' = [conn EXCEPT ![c] = n]
                /\ n.in = conn[c].in \/ n.in = <<>>
        /\ UNCHANGED <<req_queue, msgs_sent, appVars, rx>>
    <3>1. CASE tcp_connected_cb(c)
      <4>1. conn' = [conn EXCEPT ![c] = [conn[c] EXCEPT !.state = "established"]]
        BY <3>1 DEF tcp_connected_cb
      <4>2. /\ [conn[c] EXCEPT !.state = "established"] \in ConnRecords
            /\ [conn[c] EXCEPT !.state = "established"].in = conn[c].in
        BY <1>1 DEF ConnRecords, PcbStates
      <4> QED
        BY <3>1, <4>1, <4>2 DEF tcp_connected_cb, clientVars, brokerVars,
           queueVars, rxVars
    <3>2. CASE tcp_received_cb_closed(c)
      <4> DEFINE n == [ state |-> "freed", in |-> <<>>,
                        out |-> TCPHandler_close(conn[c]).out ]
      <4>1. conn' = [conn EXCEPT ![c] = n]
        BY <3>2 DEF tcp_received_cb_closed
      <4>2. TCPHandler_close(conn[c]) \in ConnRecords
        BY <1>1, FinType, WriteAndCloseType
      <4>3. n \in ConnRecords /\ n.in = <<>>
        BY <4>2, EmptySeq DEF ConnRecords, PcbStates
      <4> QED
        BY <3>2, <4>1, <4>3 DEF tcp_received_cb_closed, brokerVars, queueVars,
           rxVars
    <3>3. CASE DataAfterClose(c) \/ tcp_error_cb(c)
      <4>1. Aborted \in ConnRecords /\ Aborted.in = <<>>
        BY EmptyConns DEF Aborted, PcbStates
      <4> QED
        BY <3>3, <4>1 DEF DataAfterClose, tcp_error_cb, clientVars, brokerVars,
           queueVars, rxVars
    <3> QED
      BY <1>3, <3>1, <3>2, <3>3 DEF Network
  <2>2. LanesDropped
    BY <1>1, <2>1 DEF LanesDropped
  <2> QED
    BY <2>1, <2>2, QuietLanes DEF Effect
<1> QED
  BY <1>2, <1>3

\* What the broker sends enters a connection, or is lost with it.
LEMMA ToClientLanes ==
  ASSUME Apart, NEW c \in Conns, NEW n \in ConnRecords, n.in = conn[c].in,
         NEW s \in Seq(Packets), conn' = [conn EXCEPT ![c] = ToClient(n, s)],
         rx' = rx, \A k \in 1 .. Len(s) : s[k].type # "PUBLISH"
  PROVE  NoneNew
<1>1. /\ conn'[c].in = conn[c].in \/ conn'[c].in = conn[c].in \o s
      /\ \A d \in Conns \ {c} : conn'[d].in = conn[d].in
  BY ApartTypes DEF ToClient, ConnRecords
<1>2. CASE conn'[c].in = conn[c].in
  BY <1>1, <1>2, LanesDroppedNoneNew DEF LanesDropped
<1>3. CASE conn'[c].in = conn[c].in \o s
  BY <1>1, <1>3, AppendedLanes DEF Apart, MessagesApart
<1> QED
  BY <1>1, <1>2, <1>3

\* The broker publishes.
LEMMA BrokerPublishEffect ==
  ASSUME Apart, NEW c \in Conns, NEW qos \in 0 .. 2, BrokerPublish(c, qos)
  PROVE  Effect
<1>1. /\ conn \in [Pcbs -> ConnRecords] /\ Conns \subseteq Pcbs
      /\ msgs_sent \in 0 .. MaxMsgs /\ msgs_sent' = msgs_sent + 1
      /\ msgs_sent < MaxMsgs /\ MaxMsgs \in Nat
  BY ApartTypes, ClientAssumption
     DEF BrokerPublish, Apart, Inv, TypeOK, BrokerTypeOK
<1>2. PICK id \in PacketIds :
        conn' = [conn EXCEPT ![c] =
                   ToClient(@, << Packet("PUBLISH", id, msgs_sent + 1, qos) >>)]
  <2>1. PICK id \in IF qos = 0 THEN {0}
                    ELSE { i \in 1 .. MaxPacketId : SentUnder(broker[c], i) = {} } :
          conn' = [conn EXCEPT ![c] =
                     ToClient(@, << Packet("PUBLISH", id, msgs_sent', qos) >>)]
    BY DEF BrokerPublish
  <2>2. id \in PacketIds
    BY SmallNumbers
  <2> QED
    BY <1>1, <2>1, <2>2
<1> DEFINE p == Packet("PUBLISH", id, msgs_sent + 1, qos)
<1>3. /\ p \in Packets /\ p.body = msgs_sent + 1
  <2>1. msgs_sent + 1 \in Contexts
    BY <1>1, SmallNumbers
  <2> QED
    BY <2>1, PacketType DEF Packet, PacketTypes
<1>4. /\ conn'[c].in = conn[c].in \/ conn'[c].in = conn[c].in \o << p >>
      /\ \A d \in Conns \ {c} : conn'[d].in = conn[d].in
      /\ UNCHANGED <<req_queue, appVars, rx>>
  <2>1. UNCHANGED <<req_queue, appVars, rx>>
    BY DEF BrokerPublish, clientVars, queueVars, rxVars
  <2>2. ToClient(conn[c], << p >>).in \in {conn[c].in, conn[c].in \o << p >>}
    BY <1>1 DEF ToClient, ConnRecords
  <2> QED
    BY <1>1, <1>2, <2>1, <2>2
<1>5. ~UnderWay(msgs_sent + 1)
  <2>1. ~Fresh(msgs_sent + 1)
    BY <1>1 DEF Fresh
  <2> QED
    BY <2>1 DEF Apart, MessagesApart
<1>6. /\ PublishesDiffer'
      /\ \A m : UnderWay(m)' => UnderWay(m) \/ m = msgs_sent + 1
  <2> HIDE DEF p
  <2>1. CASE conn'[c].in = conn[c].in
    <3>1. NoneNew
      BY <1>4, <2>1, LanesDroppedNoneNew DEF LanesDropped
    <3> QED
      BY <3>1 DEF NoneNew
  <2>2. CASE conn'[c].in = conn[c].in \o << p >>
    BY <1>3, <1>4, <1>5, <2>2, PublishedLanes DEF Apart, MessagesApart
  <2> QED
    BY <1>4, <2>1, <2>2
<1> QED
  BY <1>1, <1>4, <1>6 DEF Published, Effect

\* The broker, for any connection.
LEMMA BrokerEffect ==
  ASSUME Apart, NEW c \in Conns, Broker(c)
  PROVE  Effect
<1>1. /\ conn \in [Pcbs -> ConnRecords] /\ c \in Pcbs /\ Conns \subseteq Pcbs
      /\ conn[c] \in ConnRecords
  BY ApartTypes
<1>2. CASE \E qos \in 0 .. 2 : BrokerPublish(c, qos)
  BY <1>2, BrokerPublishEffect
<1>3. ASSUME NoneNew, UNCHANGED <<clientVars, msgs_sent>>
      PROVE  Effect
  BY <1>3, QueueUnchanged DEF clientVars, queueVars, Quiet, Effect
<1>4. /\ Incoming(c) =>
           /\ Taken(c) \in ConnRecords /\ Taken(c).in = conn[c].in
      /\ rx' = rx \/ \E qos \in 0 .. 2 : BrokerPublish(c, qos)
  <2>1. ASSUME Incoming(c)
        PROVE  Taken(c) \in ConnRecords /\ Taken(c).in = conn[c].in
    <3>1. conn[c].out \in Seq(Packets) /\ conn[c].out # <<>>
      BY <1>1, <2>1 DEF ConnRecords, Incoming
    <3>2. Tail(conn[c].out) \in Seq(Packets)
      BY <3>1, HeadTailType
    <3> QED
      BY <1>1, <3>2 DEF Taken, ConnRecords
  <2>2. rx' = rx \/ \E qos \in 0 .. 2 : BrokerPublish(c, qos)
    BY DEF Broker, BrokerConnect, BrokerReceive, BrokerDisconnected,
       BrokerIgnores, BrokerReply, BrokerClose, clientVars, rxVars
  <2> QED
    BY <2>1, <2>2
<1>5. CASE BrokerReceive(c) \/ BrokerIgnores(c)
  <2>1. conn' = [conn EXCEPT ![c] = Taken(c)] /\ Incoming(c)
        /\ UNCHANGED <<clientVars, msgs_sent>>
    BY <1>5 DEF BrokerReceive, BrokerIgnores, brokerVars
  <2>2. LanesDropped
    BY <1>1, <1>4, <2>1 DEF LanesDropped, clientVars, rxVars
  <2> QED
    BY <1>3, <2>1, <2>2, LanesDroppedNoneNew
<1>6. ASSUME NEW n \in ConnRecords, n.in = conn[c].in, NEW s \in Seq(Packets),
             conn' = [conn EXCEPT ![c] = ToClient(n, s)],
             \A k \in 1 .. Len(s) : s[k].type # "PUBLISH",
             UNCHANGED <<clientVars, msgs_sent>>
      PROVE  Effect
  BY <1>3, <1>6, ToClientLanes DEF clientVars, rxVars
<1>7. /\ << Fin >> \in Seq(Packets)
      /\ \A k \in 1 .. Len(<< Fin >>) : << Fin >>[k].type # "PUBLISH"
  BY FinType DEF Fin
<1>8. CASE BrokerConnect(c)
  <2> DEFINE yes == << Packet("CONNACK", 0, Accepted, 0) >>
             no == << Packet("CONNACK", 0, Refused, 0), Fin >>
  <2>1. /\ Packet("CONNACK", 0, Accepted, 0) \in Packets
        /\ Packet("CONNACK", 0, Refused, 0) \in Packets
    BY SmallNumbers, PacketType DEF PacketTypes
  <2>2. /\ yes \in Seq(Packets) /\ \A k \in 1 .. Len(yes) : yes[k].type # "PUBLISH"
        /\ no \in Seq(Packets) /\ \A k \in 1 .. Len(no) : no[k].type # "PUBLISH"
    BY <2>1, FinType DEF Packet, Fin
  <2>3. /\ Incoming(c) /\ UNCHANGED <<clientVars, msgs_sent>>
        /\ \/ conn' = [conn EXCEPT ![c] = ToClient(Taken(c), yes)]
           \/ conn' = [conn EXCEPT ![c] = ToClient(Taken(c), no)]
    BY <1>8 DEF BrokerConnect
  <2> HIDE DEF yes, no
  <2> QED
    BY <1>4, <1>6, <2>2, <2>3
<1>9. CASE BrokerDisconnected(c)
  <2>1. /\ Incoming(c) /\ UNCHANGED <<clientVars, msgs_sent>>
        /\ conn' = [conn EXCEPT ![c] = ToClient(Taken(c), << Fin >>)]
    BY <1>9 DEF BrokerDisconnected
  <2> QED
    BY <1>4, <1>6, <1>7, <2>1
<1>10. CASE BrokerClose(c)
  <2>1. /\ UNCHANGED <<clientVars, msgs_sent>>
        /\ conn' = [conn EXCEPT ![c] = ToClient(conn[c], << Fin >>)]
    BY <1>10 DEF BrokerClose
  <2> QED
    BY <1>1, <1>6, <1>7, <2>1
<1>11. CASE BrokerReply(c)
  <2>1. PICK p \in broker[c].owed :
          /\ conn' = [conn EXCEPT ![c] = ToClient(@, << p >>)]
          /\ UNCHANGED <<clientVars, msgs_sent>>
    BY <1>11 DEF BrokerReply
  <2>2. p \in Packets /\ p.type # "PUBLISH"
    BY DEF Apart, OwedAreAnswers
  <2>3. << p >> \in Seq(Packets) /\ \A k \in 1 .. Len(<< p >>) : << p >>[k].type # "PUBLISH"
    BY <2>2
  <2>4. conn' = [conn EXCEPT ![c] = ToClient(conn[c], << p >>)]
    BY <2>1
  <2> QED
    BY <1>1, <1>6, <2>1, <2>3, <2>4
<1> QED
  BY <1>2, <1>5, <1>8, <1>9, <1>10, <1>11 DEF Broker

\* The broker goes on owing answers only.
LEMMA OwedStep ==
  ASSUME Apart, [Next]_vars
  PROVE  OwedAreAnswers'
<1>1. /\ \A c \in Conns : broker[c].owed \subseteq Packets
      /\ DOMAIN broker = Conns
      /\ \A c \in Conns : broker[c] \in
            [ phase : {"new", "accepted", "refused", "closed"},
              subscribed : BOOLEAN, owed : SUBSET Packets,
              inflight : SUBSET Inflight ]
  BY DEF Apart, Inv, TypeOK, BrokerTypeOK
<1>2. CASE UNCHANGED broker
  BY <1>2 DEF Apart, OwedAreAnswers
<1>3. CASE \E c \in Conns : Broker(c)
  <2>1. PICK c \in Conns : Broker(c)
    BY <1>3
  <2>2. ASSUME NEW b, broker' = [broker EXCEPT ![c] = b],
               \A p \in b.owed : p \in broker[c].owed
                                \/ (p \in Packets /\ p.type # "PUBLISH")
        PROVE  OwedAreAnswers'
    BY <1>1, <2>2 DEF Apart, OwedAreAnswers
  <2>3. \A phase : Gone(broker[c], phase).owed = {}
    BY <1>1 DEF Gone
  <2>4. CASE BrokerReceive(c)
    <3> DEFINE p == Head(conn[c].out)
               b == broker[c]
               n == [ phase |-> "accepted",
                      subscribed |-> IF p.type = "SUBSCRIBE" THEN TRUE
                                     ELSE b.subscribed /\ p.type # "UNSUBSCRIBE",
                      owed |-> b.owed \cup Replies(b, p),
                      inflight |-> b.inflight \ Finished(b, p) ]
    <3>1. broker' = [broker EXCEPT ![c] = n]
      BY <2>4 DEF BrokerReceive
    <3>2. p \in Packets
      <4>1. conn[c].out \in Seq(Packets) /\ conn[c].out # <<>>
        BY <2>4, ApartTypes DEF ConnRecords, BrokerReceive, Incoming
      <4> QED
        BY <4>1, HeadTailType
    <3>3. \A r \in Replies(b, p) : r \in Packets /\ r.type # "PUBLISH"
      <4>1. Replies(b, p) \subseteq Packets
        BY <1>1, <3>2, RepliesType DEF BrokerRecords
      <4>2. \A r \in Replies(b, p) : r.type # "PUBLISH"
        <5> HIDE DEF p, b
        <5> QED
          BY DEF Replies, Packet
      <4> QED
        BY <4>1, <4>2
    <3>4. n.owed = b.owed \cup Replies(b, p)
      OBVIOUS
    <3> HIDE DEF n, p
    <3> QED
      BY <2>2, <3>1, <3>3, <3>4
  <2>5. CASE BrokerReply(c)
    <3>1. PICK p \in broker[c].owed :
            broker' = [broker EXCEPT ![c] = [broker[c] EXCEPT !.owed = @ \ {p}]]
      BY <2>5 DEF BrokerReply
    <3>2. [broker[c] EXCEPT !.owed = @ \ {p}].owed \subseteq broker[c].owed
      BY <1>1
    <3> QED
      BY <2>2, <3>1, <3>2
  <2>6. CASE \E qos \in 0 .. 2 : BrokerPublish(c, qos)
    <3>1. PICK qos \in 0 .. 2 : BrokerPublish(c, qos)
      BY <2>6
    <3>2. \/ broker' = broker
          \/ \E f : broker' =
               [broker EXCEPT ![c] = [broker[c] EXCEPT !.inflight = @ \cup f]]
      BY <3>1 DEF BrokerPublish
    <3>3. CASE broker' = broker
      BY <1>2, <3>3
    <3>4. ASSUME NEW f, broker' =
               [broker EXCEPT ![c] = [broker[c] EXCEPT !.inflight = @ \cup f]]
          PROVE  OwedAreAnswers'
      <4>1. [broker[c] EXCEPT !.inflight = @ \cup f].owed = broker[c].owed
        BY <1>1
      <4> QED
        BY <2>2, <3>4, <4>1
    <3> QED
      BY <3>2, <3>3, <3>4
  <2>7. CASE BrokerConnect(c)
    <3>1. \/ broker' = [broker EXCEPT ![c] = Gone(broker[c], "refused")]
          \/ broker' = [broker EXCEPT ![c] = [broker[c] EXCEPT !.phase = "accepted"]]
      BY <2>7 DEF BrokerConnect
    <3>2. [broker[c] EXCEPT !.phase = "accepted"].owed = broker[c].owed
      BY <1>1
    <3> QED
      BY <2>2, <2>3, <3>1, <3>2
  <2>8. CASE BrokerDisconnected(c) \/ BrokerClose(c)
    BY <2>2, <2>3, <2>8 DEF BrokerDisconnected, BrokerClose
  <2>9. CASE BrokerIgnores(c)
    BY <1>2, <2>9 DEF BrokerIgnores, brokerVars
  <2> QED
    BY <2>1, <2>4, <2>5, <2>6, <2>7, <2>8, <2>9 DEF Broker
<1>4. CASE Application \/ Waiting \/ get_mqtt_packet \/ Tick
           \/ \E c \in Conns : Network(c)
  <2>1. Application => UNCHANGED broker
    BY DEF Application, MQTTClient_connect, ConnectMemoryErr, ConnectTcpFailure,
       MQTTClient_publish, PublishQos0, Request, MQTTClient_subscribe,
       MQTTClient_unsubscribe, MQTTClient_disconnect, MQTTClient_loop, brokerVars
  <2>2. Waiting \/ Tick => UNCHANGED broker
    BY DEF Waiting, wait_for_connack, LoopNotConnected, mqtt_handle_keepalive,
       mqtt_handle_timeout_on_ping, PingProcessed, Tick, brokerVars
  <2>3. get_mqtt_packet => UNCHANGED broker
    BY DEF get_mqtt_packet, HandleConnack, HandlePuback, HandlePubrec,
       HandlePubcomp, HandleSuback, HandleUnsuback, HandlePubrel,
       HandlePingresp, HandlePublishDiscarded, HandlePublishQos0,
       HandlePublishQos1, HandlePublishQos2, RequestNotFound, HandleLastAck,
       Answer, AnswerDoesNotFit, brokerVars
  <2>4. (\E c \in Conns : Network(c)) => UNCHANGED broker
    BY DEF Network, tcp_connected_cb, tcp_received_cb, tcp_received_cb_closed,
       DataAfterClose, tcp_error_cb, brokerVars
  <2> QED
    BY <1>2, <1>4, <2>1, <2>2, <2>3, <2>4
<1>5. CASE UNCHANGED vars
  BY <1>2, <1>5 DEF vars, brokerVars
<1> QED
  BY <1>3, <1>4, <1>5 DEF Next

----
(***************************************************************************)
(* The theorems.                                                           *)
(***************************************************************************)
LEMMA NextEffect ==
  ASSUME Apart, Next
  PROVE  Effect
BY ApplicationEffect, WaitingEffect, ReceptionEffect, NetworkEffect, BrokerEffect
   DEF Next

\* Every step keeps requests and messages apart, and is one of the promise.
LEMMA NextApart == Apart /\ [Next]_vars => Apart' /\ PromiseStep
<1> SUFFICES ASSUME Apart, [Next]_vars
             PROVE  Apart' /\ PromiseStep
  OBVIOUS
<1>1. Inv' /\ OwedAreAnswers'
  BY NextInv, OwedStep DEF Apart
<1>2. CASE Next
  <2>1. RequestsApart' /\ MessagesApart' /\ PromiseStep
    BY <1>2, NextEffect, QuietStep, AskedStep, ForgottenStep, PublishedStep,
       EndedStep, ReleasedStep, KeepsMessageStep, ReceivedStep DEF Effect
  <2> QED
    BY <1>1, <2>1 DEF Apart
<1>3. CASE UNCHANGED vars
  <2>1. Quiet
    BY <1>3, QuietLanes DEF vars, clientVars, brokerVars, queueVars, rxVars,
       LanesDropped
  <2> QED
    BY <1>1, <2>1, QuietStep DEF Apart
<1> QED
  BY <1>2, <1>3

\* At the start nothing is asked for and nothing is under way.
LEMMA InitApart == Init => Apart /\ Promise!PromiseInit
<1> SUFFICES ASSUME Init
             PROVE  Apart /\ Promise!PromiseInit
  OBVIOUS
<1>1. Inv
  BY InitInv
<1>2. \A i \in Slots : StateAt(i) = "NO_REQUEST"
  BY DEF Init, MQTTClient_init, mqtt_req_queue_init, NoRequest, StateAt
<1>3. \A c \in Pcbs : Lane(c) = <<>>
  BY DEF Init, MQTTClient_init, TcpInit, NoConn, Lane
<1>4. PublishesDiffer /\ \A m : ~UnderWay(m)
  BY <1>3, EmptySeq DEF PublishesDiffer, UnderWay
<1>5. RequestsApart
  BY <1>2 DEF Init, MQTTClient_init, RequestsApart, RequestStates
<1>6. MessagesApart
  BY <1>2, <1>4 DEF Init, MQTTClient_init, MessagesApart, Releasable
<1>7. OwedAreAnswers
  BY DEF Init, BrokerInit, OwedAreAnswers
<1>8. Promise!PromiseInit
  <2>1. OpenRequests = {} /\ KeptMessages = {}
    BY <1>2 DEF OpenRequests, KeptMessages, BusySlots, StateAt, RequestStates
  <2> QED
    BY <2>1 DEF Promise!PromiseInit, Init, MQTTClient_init
<1> QED
  BY <1>1, <1>5, <1>6, <1>7, <1>8 DEF Apart

\* In every state a request has at most one slot, and a message of the broker
\* is in at most one place.
THEOREM ApartAlways == Spec => []Apart
<1>1. Init => Apart
  BY InitApart
<1>2. Apart /\ [Next]_vars => Apart'
  BY NextApart
<1> QED
  BY <1>1, <1>2, PTL DEF Spec

\* The client implements its promise: its steps are steps of MqttPromise, or
\* change nothing that MqttPromise speaks of.
THEOREM PromiseAlwaysKept == Spec => PromiseKept
<1>1. Init => Promise!PromiseInit
  BY InitApart
<1>2. Apart /\ [Next]_vars => [Promise!PromiseNext]_(Promise!promiseVars)
  BY NextApart DEF PromiseStep
<1> QED
  BY <1>1, <1>2, ApartAlways, PTL DEF Spec, PromiseKept, Promise!PromiseSpec

\* A request is reported complete at most once, and holds no slot after it.
THEOREM CompletedOnceAlways == Spec => []CompletedOnce
<1>1. Apart => CompletedOnce
  <2> SUFFICES ASSUME Apart, NEW r \in 1 .. MaxRequests
               PROVE  /\ completed[r] <= 1
                      /\ completed[r] = 1 =>
                           ~ \E i \in Slots :
                               ContextAt(i) = r /\ StateAt(i) \in RequestStates
    BY DEF CompletedOnce, ContextAt, StateAt
  <2> QED
    BY DEF Apart, RequestsApart
<1> QED
  BY <1>1, ApartAlways, PTL

====
