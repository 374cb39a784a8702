---- MODULE MqttAnswersProofs ----
(***************************************************************************)
(* Every answer finds the request it belongs to, and every request waits   *)
(* for one packet, as long as the client has one connection and its packet *)
(* ids are not used twice (PacketIdsDiffer; the runs stale_session and     *)
(* packet_id_reuse show what happens otherwise).  A packet that asks for   *)
(* an answer, and the answer, have the key of the slot that waits: what it *)
(* waits for, and the packet id.  The invariant says that a key is in one  *)
(* place: on the way to the broker, with the broker, or on the way back.   *)
(***************************************************************************)
EXTENDS MqttDeliveryProofs

\* What the client will wait for when it has sent p.
Asking(p) ==
  CASE p.type = "PUBLISH" /\ p.qos = 1 -> "WAITING_FOR_PUBACK"
    [] p.type = "PUBLISH" /\ p.qos = 2 -> "WAITING_FOR_PUBREC"
    [] p.type = "SUBSCRIBE"            -> "WAITING_FOR_SUBACK"
    [] p.type = "UNSUBSCRIBE"          -> "WAITING_FOR_UNSUBACK"
    [] p.type = "PUBREL"               -> "WAITING_FOR_PUBCOMP"
    [] p.type = "PUBREC"               -> "WAITING_FOR_PUBREL"
    [] OTHER                           -> "NO_REQUEST"

\* What the client waits for when p comes.  A QoS 2 PUBLISH finds no slot, but
\* will take one: until then its id is PUBLISHED.
Answering(p) ==
  CASE p.type \in AckTypes             -> Awaited(p.type)
    [] p.type = "PUBLISH" /\ p.qos = 2 -> "PUBLISHED"
    [] OTHER                           -> "NO_REQUEST"

Key(state, id) == IF state = "NO_REQUEST" THEN << state, 0 >> ELSE << state, id >>
NoKey == << "NO_REQUEST", 0 >>
KeyUp == [p \in Packets |-> Key(Asking(p), p.id)]
KeyDown == [p \in Packets |-> Key(Answering(p), p.id)]
SlotKey(i) == Key(StateAt(i), IdAt(i))
Opening(id) == << "PUBLISHED", id >>

\* The keys of the packets of a set, and a sequence in which none is twice.
KeysIn(S, K) == { K[p] : p \in S } \ {NoKey}
Once(s, K) ==
  \A k, l \in 1 .. Len(s) : K[s[k]] # NoKey /\ K[s[k]] = K[s[l]] => k = l
OnceIn(S, K) == \A p, q \in S : K[p] # NoKey /\ K[p] = K[q] => p = q

\* A key is in one place: out, on the way to the broker, owed by it, or on the
\* way in.
OnePlace(out, owed, in) ==
  /\ Once(out, KeyUp) /\ OnceIn(owed, KeyDown) /\ Once(in, KeyDown)
  /\ KeysIn(Elements(out), KeyUp) \cap KeysIn(owed, KeyDown) = {}
  /\ KeysIn(Elements(out), KeyUp) \cap KeysIn(Elements(in), KeyDown) = {}
  /\ KeysIn(owed, KeyDown) \cap KeysIn(Elements(in), KeyDown) = {}
KeysOf(out, owed, in) ==
  KeysIn(Elements(out), KeyUp) \cup KeysIn(owed, KeyDown)
    \cup KeysIn(Elements(in), KeyDown)

\* The three places.
Out == conn[1].out
Owed == broker[1].owed
Arriving == rx \o conn[1].in
Keys == KeysOf(Out, Owed, Arriving)

\* The slot that waits for the answer to p.  The PUBREC of a message does not say
\* which one it is.  A PUBLISH that wants no answer has no packet id.
Plain(p) == KeyUp[p] = NoKey /\ (p.type = "PUBLISH" => p.id = 0)
HasAsked(p) ==
  \/ Plain(p)
  \/ /\ KeyUp[p] # NoKey
     /\ \E i \in Slots : /\ SlotKey(i) = KeyUp[p]
                         /\ p.type # "PUBREC" => ContextAt(i) = p.body
\* The slot that waits for p.
WillAnswer(p) ==
  p.type \in AckTypes =>
    \E i \in Slots : SlotKey(i) = KeyDown[p] /\ ContextAt(i) = p.body

SlotKeysDiffer ==
  \A i, j \in Slots : SlotKey(i) # NoKey /\ SlotKey(i) = SlotKey(j) => i = j
\* Packets and slots belong together: a packet has its slot, a message about to
\* be kept has none yet, and a slot has its packet while the broker is there.
Matched ==
  /\ SlotKeysDiffer
  /\ \A p \in Elements(Out) : HasAsked(p)
  /\ \A p \in Owed \cup Elements(Arriving) : WillAnswer(p)
  /\ \A i \in Slots : Releasable(i) => Opening(IdAt(i)) \notin Keys
  /\ \A i \in Slots : StateAt(i) \in RequestStates => IdAt(i) # 0
  /\ BrokerThere => \A i \in Slots : SlotKey(i) # NoKey => SlotKey(i) \in Keys

Tidy == OnePlace(Out, Owed, Arriving) /\ Matched

\* The client's side of its connection, and the client before it has one.
Open == pcb = 1 /\ conn[1].state \in {"syn_sent", "established"}
Idle ==
  /\ conn[1] = NoConn /\ rx = <<>> /\ ~mqtt_connected /\ pc # "connect"
  /\ broker[1].phase = "new" /\ \A i \in Slots : SlotKey(i) = NoKey

\* Before the connection nothing goes on, and what is no connection stays so.
Surround ==
  /\ conn[NULL].state = "unused"
  /\ broker[1].phase = "new" => Owed = {}
  /\ conn[1].state = "unused" => Idle

Answered ==
  /\ Told /\ Surround
  /\ Open => Tidy

----
(***************************************************************************)
(* Keys in sequences.                                                      *)
(***************************************************************************)
\* What a sequence holds after a packet more, or one less.
LEMMA ElementsParts ==
  ASSUME NEW s \in Seq(Packets)
  PROVE  /\ Elements(<<>>) = {} /\ Elements(s) \subseteq Packets
         /\ \A p \in Packets : Elements(Append(s, p)) = Elements(s) \cup {p}
         /\ s # <<>> => Elements(s) = {Head(s)} \cup Elements(Tail(s))
<1>1. Len(s) \in Nat /\ \A k \in 1 .. Len(s) : s[k] \in Packets
  BY LenProperties, ElementOfSeq
<1>2. Elements(<<>>) = {} /\ Elements(s) \subseteq Packets
  BY <1>1, EmptySeq DEF Elements
<1>3. ASSUME NEW p \in Packets
      PROVE  Elements(Append(s, p)) = Elements(s) \cup {p}
  <2>1. /\ Len(Append(s, p)) = Len(s) + 1
        /\ \A k \in 1 .. Len(s) : Append(s, p)[k] = s[k]
        /\ Append(s, p)[Len(s) + 1] = p
    BY AppendProperties
  <2>2. \A k \in 1 .. Len(s) + 1 : k \in 1 .. Len(s) \/ k = Len(s) + 1
    BY <1>1
  <2>3. \A k \in 1 .. Len(s) : k \in 1 .. Len(s) + 1
    BY <1>1
  <2>4. Len(s) + 1 \in 1 .. Len(s) + 1
    BY <1>1
  <2> QED
    BY <2>1, <2>2, <2>3, <2>4 DEF Elements
<1>4. ASSUME s # <<>>
      PROVE  Elements(s) = {Head(s)} \cup Elements(Tail(s))
  <2>1. /\ Head(s) = s[1] /\ Len(Tail(s)) = Len(s) - 1 /\ Len(s) # 0
        /\ \A k \in 1 .. Len(Tail(s)) : Tail(s)[k] = s[k + 1]
    BY <1>4, HeadTailProperties, EmptySeq
  <2>2. \A k \in 1 .. Len(s) : k = 1 \/ k - 1 \in 1 .. Len(s) - 1
    BY <1>1
  <2>3. \A k \in 1 .. Len(s) - 1 : k + 1 \in 1 .. Len(s)
    BY <1>1
  <2>4. \A k \in 1 .. Len(s) : k = 1 \/ s[k] = Tail(s)[k - 1]
    <3> TAKE k \in 1 .. Len(s)
    <3>1. ASSUME k # 1 PROVE s[k] = Tail(s)[k - 1]
      <4>1. k - 1 \in 1 .. Len(Tail(s)) /\ (k - 1) + 1 = k
        BY <2>1, <2>2, <3>1
      <4> QED
        BY <2>1, <4>1
    <3> QED
      BY <3>1
  <2>5. 1 \in 1 .. Len(s)
    BY <1>1, <2>1
  <2>6. ASSUME NEW x \in Elements(s)
        PROVE  x \in {Head(s)} \cup Elements(Tail(s))
    <3>1. PICK k \in 1 .. Len(s) : x = s[k]
      BY DEF Elements
    <3>2. CASE k = 1
      BY <2>1, <3>1, <3>2
    <3>3. CASE k # 1
      <4>1. k - 1 \in 1 .. Len(Tail(s)) /\ x = Tail(s)[k - 1]
        BY <2>1, <2>2, <2>4, <3>1, <3>3
      <4> QED
        BY <4>1 DEF Elements
    <3> QED
      BY <3>2, <3>3
  <2>7. ASSUME NEW x \in Elements(Tail(s))
        PROVE  x \in Elements(s)
    <3>1. PICK k \in 1 .. Len(Tail(s)) : x = Tail(s)[k]
      BY DEF Elements
    <3>2. k + 1 \in 1 .. Len(s) /\ x = s[k + 1]
      BY <2>1, <2>3, <3>1
    <3> QED
      BY <3>2 DEF Elements
  <2>8. Head(s) \in Elements(s)
    BY <2>1, <2>5 DEF Elements
  <2> QED
    BY <2>6, <2>7, <2>8
<1> QED
  BY <1>2, <1>3, <1>4

\* A packet with a key that is new, or with none, leaves keys apart.
LEMMA OnceAppended ==
  ASSUME NEW s \in Seq(Packets), NEW K, NEW p \in Packets, Once(s, K),
         K[p] \notin KeysIn(Elements(s), K)
  PROVE  /\ Once(Append(s, p), K)
         /\ KeysIn(Elements(Append(s, p)), K)
              = KeysIn(Elements(s), K) \cup ({K[p]} \ {NoKey})
<1>1. /\ Len(s) \in Nat /\ Len(Append(s, p)) = Len(s) + 1
      /\ \A k \in 1 .. Len(s) : Append(s, p)[k] = s[k]
      /\ Append(s, p)[Len(s) + 1] = p
  BY LenProperties, AppendProperties
<1>2. \A k \in 1 .. Len(s) + 1 : k \in 1 .. Len(s) \/ k = Len(s) + 1
  BY <1>1
<1>3. \A k \in 1 .. Len(s) : K[s[k]] = NoKey \/ K[s[k]] # K[p]
  BY DEF KeysIn, Elements
<1>4. Once(Append(s, p), K)
  BY <1>1, <1>2, <1>3 DEF Once
<1>5. KeysIn(Elements(Append(s, p)), K)
        = KeysIn(Elements(s), K) \cup ({K[p]} \ {NoKey})
  BY ElementsParts DEF KeysIn
<1> QED
  BY <1>4, <1>5

\* The packet taken off a sequence takes its key with it.
LEMMA OnceTaken ==
  ASSUME NEW s \in Seq(Packets), s # <<>>, NEW K, Once(s, K)
  PROVE  /\ Once(Tail(s), K)
         /\ KeysIn(Elements(Tail(s)), K) = KeysIn(Elements(s), K) \ {K[Head(s)]}
<1>1. /\ Len(s) \in Nat /\ Len(s) # 0 /\ Head(s) = s[1]
      /\ Len(Tail(s)) = Len(s) - 1
      /\ \A k \in 1 .. Len(Tail(s)) : Tail(s)[k] = s[k + 1]
  BY LenProperties, HeadTailProperties, EmptySeq
<1>2. \A k \in 1 .. Len(Tail(s)) : k + 1 \in 1 .. Len(s) /\ k + 1 # 1
  BY <1>1
<1>3. Once(Tail(s), K)
  <2> SUFFICES ASSUME NEW k \in 1 .. Len(Tail(s)), NEW l \in 1 .. Len(Tail(s)),
                      K[Tail(s)[k]] # NoKey, K[Tail(s)[k]] = K[Tail(s)[l]]
               PROVE  k = l
    BY DEF Once
  <2>1. /\ k + 1 \in 1 .. Len(s) /\ Tail(s)[k] = s[k + 1]
        /\ l + 1 \in 1 .. Len(s) /\ Tail(s)[l] = s[l + 1]
    BY <1>1, <1>2
  <2>2. k + 1 = l + 1
    BY <2>1 DEF Once
  <2> QED
    BY <2>2
<1>4. ASSUME NEW k \in 1 .. Len(Tail(s)), K[Tail(s)[k]] # NoKey
      PROVE  K[Tail(s)[k]] # K[Head(s)]
  <2>1. /\ k + 1 \in 1 .. Len(s) /\ Tail(s)[k] = s[k + 1] /\ k + 1 # 1
        /\ 1 \in 1 .. Len(s)
    BY <1>1, <1>2
  <2> QED
    BY <1>1, <1>4, <2>1 DEF Once
<1>5. \A x \in KeysIn(Elements(Tail(s)), K) : x # K[Head(s)]
  BY <1>4 DEF KeysIn, Elements
<1>6. KeysIn(Elements(s), K) = KeysIn(Elements(Tail(s)), K) \cup ({K[Head(s)]} \ {NoKey})
  BY ElementsParts DEF KeysIn
<1> QED
  BY <1>3, <1>5, <1>6

----
(***************************************************************************)
(* Keys move from place to place.                                          *)
(***************************************************************************)
\* The keys of the packets of a set with one more.
LEMMA OnceInAdded ==
  ASSUME NEW S, NEW K, NEW p, OnceIn(S, K), K[p] \notin KeysIn(S, K)
  PROVE  /\ OnceIn(S \cup {p}, K)
         /\ KeysIn(S \cup {p}, K) = KeysIn(S, K) \cup ({K[p]} \ {NoKey})
<1>1. \A q \in S : K[q] = NoKey \/ K[q] # K[p]
  BY DEF KeysIn
<1> QED
  BY <1>1 DEF OnceIn, KeysIn

\* The keys of the packets of a set with one less.
LEMMA OnceInRemoved ==
  ASSUME NEW S, NEW K, NEW p \in S, OnceIn(S, K)
  PROVE  /\ OnceIn(S \ {p}, K)
         /\ KeysIn(S \ {p}, K) = KeysIn(S, K) \ {K[p]}
BY DEF OnceIn, KeysIn

\* One packet more on the way out: its key, if it has one, is nowhere yet.
LEMMA OutGrows ==
  ASSUME NEW o \in Seq(Packets), NEW w, NEW a, NEW p \in Packets,
         OnePlace(o, w, a), KeyUp[p] \notin KeysOf(o, w, a)
  PROVE  /\ OnePlace(Append(o, p), w, a)
         /\ KeysOf(Append(o, p), w, a) = KeysOf(o, w, a) \cup ({KeyUp[p]} \ {NoKey})
<1>1. /\ Once(Append(o, p), KeyUp)
      /\ KeysIn(Elements(Append(o, p)), KeyUp)
           = KeysIn(Elements(o), KeyUp) \cup ({KeyUp[p]} \ {NoKey})
  BY OnceAppended DEF OnePlace, KeysOf
<1> QED
  BY <1>1 DEF OnePlace, KeysOf

\* One more that the broker owes.
LEMMA OwedGrows ==
  ASSUME NEW o, NEW w, NEW a, NEW p \in Packets,
         OnePlace(o, w, a), KeyDown[p] \notin KeysOf(o, w, a)
  PROVE  /\ OnePlace(o, w \cup {p}, a)
         /\ KeysOf(o, w \cup {p}, a) = KeysOf(o, w, a) \cup ({KeyDown[p]} \ {NoKey})
<1>1. /\ OnceIn(w \cup {p}, KeyDown)
      /\ KeysIn(w \cup {p}, KeyDown) = KeysIn(w, KeyDown) \cup ({KeyDown[p]} \ {NoKey})
  BY OnceInAdded DEF OnePlace, KeysOf
<1> QED
  BY <1>1 DEF OnePlace, KeysOf

\* One more on the way in.
LEMMA InGrows ==
  ASSUME NEW o, NEW w, NEW a \in Seq(Packets), NEW p \in Packets,
         OnePlace(o, w, a), KeyDown[p] \notin KeysOf(o, w, a)
  PROVE  /\ OnePlace(o, w, Append(a, p))
         /\ KeysOf(o, w, Append(a, p)) = KeysOf(o, w, a) \cup ({KeyDown[p]} \ {NoKey})
<1>1. /\ Once(Append(a, p), KeyDown)
      /\ KeysIn(Elements(Append(a, p)), KeyDown)
           = KeysIn(Elements(a), KeyDown) \cup ({KeyDown[p]} \ {NoKey})
  BY OnceAppended DEF OnePlace, KeysOf
<1> QED
  BY <1>1 DEF OnePlace, KeysOf

\* One packet less on the way out: its key is nowhere any more.
LEMMA OutShrinks ==
  ASSUME NEW o \in Seq(Packets), NEW w, NEW a, OnePlace(o, w, a), o # <<>>
  PROVE  /\ OnePlace(Tail(o), w, a)
         /\ KeysOf(Tail(o), w, a) = KeysOf(o, w, a) \ {KeyUp[Head(o)]}
         /\ KeyUp[Head(o)] # NoKey => KeyUp[Head(o)] \in KeysOf(o, w, a)
<1>1. /\ Once(Tail(o), KeyUp)
      /\ KeysIn(Elements(Tail(o)), KeyUp) = KeysIn(Elements(o), KeyUp) \ {KeyUp[Head(o)]}
  BY OnceTaken DEF OnePlace
<1>2. KeyUp[Head(o)] # NoKey => KeyUp[Head(o)] \in KeysIn(Elements(o), KeyUp)
  BY ElementsParts DEF KeysIn
<1>3. KeyUp[Head(o)] \in KeysIn(Elements(o), KeyUp) =>
        /\ KeyUp[Head(o)] \notin KeysIn(w, KeyDown)
        /\ KeyUp[Head(o)] \notin KeysIn(Elements(a), KeyDown)
  BY DEF OnePlace
<1>4. NoKey \notin KeysIn(w, KeyDown) /\ NoKey \notin KeysIn(Elements(a), KeyDown)
  BY DEF KeysIn
<1> QED
  BY <1>1, <1>2, <1>3, <1>4 DEF OnePlace, KeysOf

\* One less that the broker owes.
LEMMA OwedShrinks ==
  ASSUME NEW o, NEW w, NEW a, NEW p \in w, OnePlace(o, w, a)
  PROVE  /\ OnePlace(o, w \ {p}, a)
         /\ KeysOf(o, w \ {p}, a) = KeysOf(o, w, a) \ {KeyDown[p]}
         /\ KeyDown[p] # NoKey => KeyDown[p] \in KeysOf(o, w, a)
<1>1. /\ OnceIn(w \ {p}, KeyDown)
      /\ KeysIn(w \ {p}, KeyDown) = KeysIn(w, KeyDown) \ {KeyDown[p]}
  BY OnceInRemoved DEF OnePlace
<1>2. KeyDown[p] # NoKey => KeyDown[p] \in KeysIn(w, KeyDown)
  BY DEF KeysIn
<1>3. KeyDown[p] \in KeysIn(w, KeyDown) =>
        /\ KeyDown[p] \notin KeysIn(Elements(o), KeyUp)
        /\ KeyDown[p] \notin KeysIn(Elements(a), KeyDown)
  BY DEF OnePlace
<1>4. NoKey \notin KeysIn(Elements(o), KeyUp) /\ NoKey \notin KeysIn(Elements(a), KeyDown)
  BY DEF KeysIn
<1> QED
  BY <1>1, <1>2, <1>3, <1>4 DEF OnePlace, KeysOf

\* One less on the way in.
LEMMA InShrinks ==
  ASSUME NEW o, NEW w, NEW a \in Seq(Packets), OnePlace(o, w, a), a # <<>>
  PROVE  /\ OnePlace(o, w, Tail(a))
         /\ KeysOf(o, w, Tail(a)) = KeysOf(o, w, a) \ {KeyDown[Head(a)]}
         /\ KeyDown[Head(a)] # NoKey => KeyDown[Head(a)] \in KeysOf(o, w, a)
<1>1. /\ Once(Tail(a), KeyDown)
      /\ KeysIn(Elements(Tail(a)), KeyDown)
           = KeysIn(Elements(a), KeyDown) \ {KeyDown[Head(a)]}
  BY OnceTaken DEF OnePlace
<1>2. KeyDown[Head(a)] # NoKey => KeyDown[Head(a)] \in KeysIn(Elements(a), KeyDown)
  BY ElementsParts DEF KeysIn
<1>3. KeyDown[Head(a)] \in KeysIn(Elements(a), KeyDown) =>
        /\ KeyDown[Head(a)] \notin KeysIn(Elements(o), KeyUp)
        /\ KeyDown[Head(a)] \notin KeysIn(w, KeyDown)
  BY DEF OnePlace
<1>4. NoKey \notin KeysIn(Elements(o), KeyUp) /\ NoKey \notin KeysIn(w, KeyDown)
  BY DEF KeysIn
<1> QED
  BY <1>1, <1>2, <1>3, <1>4 DEF OnePlace, KeysOf

\* What the broker owes is forgotten.
LEMMA OwedForgotten ==
  ASSUME NEW o, NEW w, NEW a, OnePlace(o, w, a)
  PROVE  OnePlace(o, {}, a) /\ KeysOf(o, {}, a) \subseteq KeysOf(o, w, a)
<1>1. OnceIn({}, KeyDown) /\ KeysIn({}, KeyDown) = {}
  BY DEF OnceIn, KeysIn
<1> QED
  BY <1>1 DEF OnePlace, KeysOf

----
(***************************************************************************)
(* Slots and packets.                                                      *)
(***************************************************************************)
\* What the keys are.
LEMMA KeysAre ==
  /\ \A p \in Packets : /\ KeyUp[p] = Key(Asking(p), p.id)
                        /\ KeyDown[p] = Key(Answering(p), p.id)
                        /\ p.type \in AckTypes => KeyDown[p] = << Awaited(p.type), p.id >>
                        /\ p.type \in AckTypes => KeyDown[p] # NoKey
  /\ \A state, id : Key(state, id) = NoKey <=> state = "NO_REQUEST"
  /\ \A state, id : state # "NO_REQUEST" => Key(state, id) = << state, id >>
<1>1. \A state, id : Key(state, id) = NoKey <=> state = "NO_REQUEST"
  BY DEF Key, NoKey
<1>2. \A state, id : state # "NO_REQUEST" => Key(state, id) = << state, id >>
  BY DEF Key
<1>3. ASSUME NEW p \in Packets
      PROVE  /\ KeyUp[p] = Key(Asking(p), p.id)
             /\ KeyDown[p] = Key(Answering(p), p.id)
  BY DEF KeyUp, KeyDown
<1>4. ASSUME NEW p \in Packets, p.type \in AckTypes
      PROVE  KeyDown[p] = << Awaited(p.type), p.id >> /\ KeyDown[p] # NoKey
  <2>1. Answering(p) = Awaited(p.type) /\ Awaited(p.type) # "NO_REQUEST"
    BY <1>4 DEF Answering, Awaited, AckTypes
  <2> QED
    BY <1>1, <1>2, <1>3, <2>1
<1> QED
  BY <1>1, <1>2, <1>3, <1>4

\* No slot waits with the key of a message about to be kept.
LEMMA OpeningsAreNoSlots ==
  ASSUME Inv
  PROVE  /\ \A i \in Slots : StateAt(i) \in ConvStates
         /\ \A i \in Slots, id \in PacketIds : SlotKey(i) # Opening(id)
         /\ \A state, id, jd : state \in ConvStates => Key(state, id) # Opening(jd)
<1>1. \A i \in Slots : StateAt(i) \in ConvStates
  BY DEF Inv, TypeOK, ClientTypeOK, QueueOf, Requests, StateAt
<1>2. \A state, id, jd : state \in ConvStates => Key(state, id) # Opening(jd)
  BY DEF ConvStates, Key, Opening
<1> QED
  BY <1>1, <1>2 DEF SlotKey

\* The places hold packets.
LEMMA PlaceTypes ==
  ASSUME Apart, OneConnection
  PROVE  /\ Out \in Seq(Packets) /\ Owed \in SUBSET Packets /\ Arriving \in Seq(Packets)
         /\ Elements(Out) \subseteq Packets /\ Elements(Arriving) \subseteq Packets
<1>1. /\ conn[1].out \in Seq(Packets) /\ conn[1].in \in Seq(Packets)
      /\ rx \in Seq(Packets) /\ broker[1] \in BrokerRecords
  BY OneConnectionTypes
<1>2. Out \in Seq(Packets) /\ Owed \in SUBSET Packets
  BY <1>1 DEF Out, Owed, BrokerRecords
<1>3. Arriving \in Seq(Packets)
  BY <1>1, ConcatProperties DEF Arriving
<1> QED
  BY <1>2, <1>3, ElementsParts

\* Slots in use are as they were, and the free ones free.
SameKeys ==
  \A j \in Slots :
    /\ SlotKey(j)' = SlotKey(j)
    /\ SlotKey(j) # NoKey => req_queue'.requests[j] = req_queue.requests[j]

\* Packets that only move, come without a key, or go without being waited for.
LEMMA MatchedStays ==
  ASSUME Matched, SameKeys, Apart, OneConnection,
         \A p \in Elements(Out)' : p \in Elements(Out) \/ HasAsked(p),
         \A p \in (Owed \cup Elements(Arriving))' :
           p \in Owed \cup Elements(Arriving) \/ (p \in Packets /\ WillAnswer(p)),
         \A i \in Slots : Releasable(i) => Opening(IdAt(i)) \notin Keys',
         BrokerThere' => /\ BrokerThere
                         /\ \A i \in Slots : SlotKey(i) \in Keys => SlotKey(i) \in Keys'
  PROVE  Matched'
<1>1. SlotKeysDiffer'
  BY DEF Matched, SlotKeysDiffer, SameKeys
<1>2. \A p : HasAsked(p) => HasAsked(p)'
  BY DEF HasAsked, SameKeys, ContextAt
<1>3. \A p \in Packets : WillAnswer(p) => WillAnswer(p)'
  BY KeysAre DEF WillAnswer, SameKeys, ContextAt
<1>4. Owed \cup Elements(Arriving) \subseteq Packets
  BY PlaceTypes
<1>5. \A i \in Slots : StateAt(i)' # "NO_REQUEST" =>
        req_queue'.requests[i] = req_queue.requests[i]
  BY KeysAre DEF SameKeys, SlotKey
<1>6. \A i \in Slots : Releasable(i)' => Opening(IdAt(i)') \notin Keys'
  BY <1>5 DEF Releasable, StateAt, IdAt
<1>7. \A i \in Slots : StateAt(i)' \in RequestStates => IdAt(i)' # 0
  BY <1>5 DEF Matched, StateAt, IdAt, RequestStates
<1>8. \A p \in Elements(Out)' : HasAsked(p)'
  BY <1>2 DEF Matched
<1>9. \A p \in (Owed \cup Elements(Arriving))' : WillAnswer(p)'
  BY <1>3, <1>4 DEF Matched
<1>10. BrokerThere' => \A i \in Slots : SlotKey(i)' # NoKey => SlotKey(i)' \in Keys'
  BY DEF Matched, SameKeys
<1> QED
  BY <1>1, <1>6, <1>7, <1>8, <1>9, <1>10 DEF Matched

\* One slot is filled, freed or moves on, and packets come and go with it.
LEMMA MatchedMoves ==
  ASSUME Matched, NEW i \in Slots,
         \A j \in Slots \ {i} : req_queue'.requests[j] = req_queue.requests[j],
         \A j \in Slots \ {i} : SlotKey(i)' # NoKey => SlotKey(j) # SlotKey(i)',
         \A p \in Elements(Out)' :
           \/ p \in Elements(Out) /\ (KeyUp[p] = SlotKey(i) => KeyUp[p] = NoKey)
           \/ HasAsked(p)',
         \A p \in (Owed \cup Elements(Arriving))' :
           \/ p \in Owed \cup Elements(Arriving) /\ (p.type \in AckTypes => KeyDown[p] # SlotKey(i))
           \/ WillAnswer(p)',
         \A j \in Slots \ {i} : Releasable(j) => Opening(IdAt(j)) \notin Keys',
         Releasable(i)' => Opening(IdAt(i)') \notin Keys',
         StateAt(i)' \in RequestStates => IdAt(i)' # 0,
         BrokerThere' =>
           /\ BrokerThere
           /\ \A j \in Slots \ {i} : SlotKey(j) \in Keys => SlotKey(j) \in Keys'
           /\ SlotKey(i)' # NoKey => SlotKey(i)' \in Keys'
  PROVE  Matched'
<1>1. \A j \in Slots \ {i} : /\ SlotKey(j)' = SlotKey(j) /\ ContextAt(j)' = ContextAt(j)
                             /\ StateAt(j)' = StateAt(j) /\ IdAt(j)' = IdAt(j)
  BY DEF SlotKey, ContextAt, StateAt, IdAt
<1>2. SlotKeysDiffer'
  BY <1>1 DEF Matched, SlotKeysDiffer
<1>3. ASSUME NEW p \in Elements(Out)' PROVE HasAsked(p)'
  <2>1. CASE p \in Elements(Out) /\ (KeyUp[p] = SlotKey(i) => KeyUp[p] = NoKey)
    BY <1>1, <2>1 DEF Matched, HasAsked
  <2> QED
    BY <2>1
<1>4. ASSUME NEW p \in (Owed \cup Elements(Arriving))' PROVE WillAnswer(p)'
  <2>1. CASE /\ p \in Owed \cup Elements(Arriving)
             /\ p.type \in AckTypes => KeyDown[p] # SlotKey(i)
    BY <1>1, <2>1 DEF Matched, WillAnswer
  <2> QED
    BY <2>1
<1>5. \A j \in Slots : Releasable(j)' => Opening(IdAt(j)') \notin Keys'
  BY <1>1 DEF Releasable
<1>6. \A j \in Slots : StateAt(j)' \in RequestStates => IdAt(j)' # 0
  BY <1>1 DEF Matched
<1>7. BrokerThere' => \A j \in Slots : SlotKey(j)' # NoKey => SlotKey(j)' \in Keys'
  BY <1>1 DEF Matched
<1> QED
  BY <1>2, <1>3, <1>4, <1>5, <1>6, <1>7 DEF Matched

----
(***************************************************************************)
(* What arrives: the segment handled, and what is behind it.               *)
(***************************************************************************)
\* The first packet of a segment is the first that arrives; handing a segment
\* over moves nothing; what the broker sends comes last.
LEMMA ArrivingMoves ==
  ASSUME Apart, OneConnection
  PROVE  /\ Elements(Arriving) = Elements(rx) \cup Elements(conn[1].in)
         /\ rx # <<>> => Arriving # <<>> /\ Head(Arriving) = Head(rx)
         /\ rx # <<>> /\ rx' = Tail(rx) /\ conn'[1].in = conn[1].in =>
              Arriving' = Tail(Arriving)
         /\ rx' = rx /\ conn'[1].in = conn[1].in => Arriving' = Arriving
         /\ \A n \in 1 .. Len(conn[1].in) :
              /\ rx = <<>> /\ rx' = SubSeq(conn[1].in, 1, n)
              /\ conn'[1].in = SubSeq(conn[1].in, n + 1, Len(conn[1].in))
              => Arriving' = Arriving
         /\ \A p \in Packets :
              rx' = rx /\ conn'[1].in = conn[1].in \o <<p>> =>
                Arriving' = Append(Arriving, p)
<1> DEFINE r == rx
           s == conn[1].in
<1>1. /\ r \in Seq(Packets) /\ s \in Seq(Packets) /\ Arriving = r \o s
      /\ Arriving' = rx' \o conn'[1].in
  BY OneConnectionTypes DEF Arriving
<1> HIDE DEF r, s
<1>2. /\ Len(r) \in Nat /\ Len(s) \in Nat /\ r \o s \in Seq(Packets)
      /\ Len(r \o s) = Len(r) + Len(s)
      /\ \A k \in 1 .. Len(r) + Len(s) :
           (r \o s)[k] = IF k <= Len(r) THEN r[k] ELSE s[k - Len(r)]
  BY <1>1, LenProperties, ConcatProperties
<1>3. Elements(r \o s) = Elements(r) \cup Elements(s)
  <2>1. \A k \in 1 .. Len(r) + Len(s) :
          \/ k \in 1 .. Len(r) /\ (r \o s)[k] = r[k]
          \/ k - Len(r) \in 1 .. Len(s) /\ (r \o s)[k] = s[k - Len(r)]
    BY <1>2
  <2>2. \A k \in 1 .. Len(r) : k \in 1 .. Len(r) + Len(s) /\ (r \o s)[k] = r[k]
    BY <1>2
  <2>3. \A k \in 1 .. Len(s) :
          k + Len(r) \in 1 .. Len(r) + Len(s) /\ (r \o s)[k + Len(r)] = s[k]
    <3> TAKE k \in 1 .. Len(s)
    <3>1. /\ k + Len(r) \in 1 .. Len(r) + Len(s) /\ ~(k + Len(r) <= Len(r))
          /\ (k + Len(r)) - Len(r) = k
      BY <1>2
    <3> QED
      BY <1>2, <3>1
  <2>4. Elements(r \o s) \subseteq Elements(r) \cup Elements(s)
    <3> SUFFICES ASSUME NEW k \in 1 .. Len(r) + Len(s)
                 PROVE  (r \o s)[k] \in Elements(r) \cup Elements(s)
      BY <1>2 DEF Elements
    <3>1. CASE k \in 1 .. Len(r) /\ (r \o s)[k] = r[k]
      BY <3>1 DEF Elements
    <3>2. CASE k - Len(r) \in 1 .. Len(s) /\ (r \o s)[k] = s[k - Len(r)]
      BY <3>2 DEF Elements
    <3> QED
      BY <2>1, <3>1, <3>2
  <2>5. Elements(r) \subseteq Elements(r \o s)
    BY <1>2, <2>2 DEF Elements
  <2>6. Elements(s) \subseteq Elements(r \o s)
    BY <1>2, <2>3 DEF Elements
  <2> QED
    BY <2>4, <2>5, <2>6
<1>4. ASSUME r # <<>>
      PROVE  r \o s # <<>> /\ Head(r \o s) = Head(r)
  <2>1. Len(r) # 0 /\ Len(r \o s) # 0
    BY <1>1, <1>2, <1>4, EmptySeq
  <2>2. r \o s # <<>>
    BY <2>1, EmptySeq
  <2>3. Head(r \o s) = (r \o s)[1] /\ Head(r) = r[1] /\ (r \o s)[1] = r[1]
    BY <1>1, <1>2, <1>4, <2>1, <2>2
  <2> QED
    BY <2>2, <2>3
<1>5. ASSUME r # <<>>
      PROVE  Tail(r) \o s = Tail(r \o s)
  <2>1. /\ Tail(r) \in Seq(Packets) /\ Len(Tail(r)) = Len(r) - 1
        /\ \A k \in 1 .. Len(Tail(r)) : Tail(r)[k] = r[k + 1]
    BY <1>1, <1>5, HeadTailProperties
  <2>2. /\ Tail(r \o s) \in Seq(Packets) /\ Len(Tail(r \o s)) = Len(r \o s) - 1
        /\ \A k \in 1 .. Len(Tail(r \o s)) : Tail(r \o s)[k] = (r \o s)[k + 1]
    BY <1>2, <1>4, <1>5, HeadTailProperties
  <2>3. /\ Tail(r) \o s \in Seq(Packets) /\ Len(Tail(r) \o s) = Len(Tail(r)) + Len(s)
        /\ \A k \in 1 .. Len(Tail(r)) + Len(s) :
             (Tail(r) \o s)[k] = IF k <= Len(Tail(r)) THEN Tail(r)[k]
                                 ELSE s[k - Len(Tail(r))]
    BY <1>1, <2>1, ConcatProperties
  <2>4. Len(Tail(r) \o s) = Len(Tail(r \o s))
    BY <1>2, <2>1, <2>2, <2>3
  <2>5. ASSUME NEW k \in 1 .. Len(Tail(r) \o s)
        PROVE  (Tail(r) \o s)[k] = Tail(r \o s)[k]
    <3>1. /\ k + 1 \in 1 .. Len(r) + Len(s) /\ k \in 1 .. Len(Tail(r)) + Len(s)
          /\ k \in 1 .. Len(Tail(r \o s))
      BY <1>2, <2>1, <2>3, <2>4
    <3>2. Tail(r \o s)[k] = IF k + 1 <= Len(r) THEN r[k + 1] ELSE s[(k + 1) - Len(r)]
      BY <1>2, <2>2, <3>1
    <3>3. CASE k + 1 <= Len(r)
      <4>1. k \in 1 .. Len(Tail(r)) /\ k <= Len(Tail(r))
        BY <1>2, <2>1, <3>1, <3>3
      <4> QED
        BY <2>1, <2>3, <3>1, <3>2, <3>3, <4>1
    <3>4. CASE ~(k + 1 <= Len(r))
      <4>1. ~(k <= Len(Tail(r))) /\ k - Len(Tail(r)) = (k + 1) - Len(r)
        BY <1>2, <2>1, <3>1, <3>4
      <4> QED
        BY <2>3, <3>1, <3>2, <3>4, <4>1
    <3> QED
      BY <3>3, <3>4
  <2> QED
    BY <2>2, <2>3, <2>4, <2>5, SeqEqual
<1>6. ASSUME NEW n \in 1 .. Len(s), r = <<>>
      PROVE  SubSeq(s, 1, n) \o SubSeq(s, n + 1, Len(s)) = r \o s
  <2>1. /\ 1 \in 1 .. Len(s) + 1 /\ n \in 1 - 1 .. Len(s) /\ Len(s) \in n .. Len(s)
    BY <1>2
  <2>2. SubSeq(s, 1, n) \o SubSeq(s, n + 1, Len(s)) = SubSeq(s, 1, Len(s))
    BY <1>1, <2>1, ConcatAdjacentSubSeq
  <2> QED
    BY <1>1, <1>6, <2>2, SubSeqFull, ConcatEmptySeq
<1>7. ASSUME NEW p \in Packets
      PROVE  r \o (s \o <<p>>) = Append(r \o s, p)
  <2>1. <<p>> \in Seq(Packets)
    OBVIOUS
  <2> QED
    BY <1>1, <1>2, <2>1, ConcatAssociative, AppendIsConcat
<1> QED
  BY <1>1, <1>3, <1>4, <1>5, <1>6, <1>7 DEF r, s

----
(***************************************************************************)
(* Before and after the connection.                                        *)
(***************************************************************************)
\* A pcb that is not in use stays as it is, one that is not open any more does
\* not open.
Ages(n, m) ==
  /\ n.state = "unused" => m = n
  /\ n.state # "unused" => m.state # "unused"
  /\ m.state \in {"syn_sent", "established"} => n.state \in {"syn_sent", "established"}

\* What the client does to a pcb with tcp_write and tcp_close.
LEMMA WritingAges ==
  ASSUME NEW n \in ConnRecords
  PROVE  /\ Ages(n, n) /\ \A packet : Ages(n, TCPHandler_write(n, packet))
         /\ \A packet : TCPHandler_write(n, packet).in = n.in
         /\ Ages(n, TCPHandler_close(n))
         /\ TCPHandler_close(n).state \notin {"syn_sent", "established"}
<1>1. \A packet : /\ Ages(n, TCPHandler_write(n, packet))
                  /\ TCPHandler_write(n, packet).in = n.in
  BY DEF Ages, TCPHandler_write, ConnRecords
<1>2. CASE n.state \in {"allocated", "syn_sent"}
  BY <1>1, <1>2 DEF Ages, TCPHandler_close
<1>3. CASE n.state = "established"
  <2>1. TCPHandler_close(n) =
          [n EXCEPT !.state = "fin_wait", !.out = Append(n.out, Fin)]
    BY <1>3 DEF TCPHandler_close
  <2>2. TCPHandler_close(n).state = "fin_wait"
    BY <2>1 DEF ConnRecords
  <2> QED
    BY <1>1, <1>3, <2>2 DEF Ages
<1>4. CASE n.state \notin {"allocated", "syn_sent", "established"}
  BY <1>1, <1>4 DEF Ages, TCPHandler_close
<1> QED
  BY <1>1, <1>2, <1>3, <1>4 DEF Ages

\* What the client does to its connections without opening one.
ClientWrites ==
  \/ UNCHANGED conn
  \/ \E packet : Send(packet)
  \/ Close
  \/ MQTTClient_disconnect

\* The client's pcbs age, and one it closes is not open after it.
LEMMA ClientAges ==
  ASSUME Apart, OneConnection, ClientWrites
  PROVE  /\ Ages(conn[0], conn'[0]) /\ Ages(conn[1], conn'[1])
         /\ (Close \/ MQTTClient_disconnect) /\ pcb' = pcb => ~Open'
<1>1. /\ conn \in [Pcbs -> ConnRecords] /\ pcb \in {0, 1} /\ Pcbs = {0, 1}
      /\ conn[0] \in ConnRecords /\ conn[1] \in ConnRecords
  BY OneConnectionTypes
<1>2. ASSUME UNCHANGED conn
      PROVE  Ages(conn[0], conn'[0]) /\ Ages(conn[1], conn'[1])
  BY <1>1, <1>2, WritingAges
<1>3. ASSUME \E packet : Send(packet)
      PROVE  Ages(conn[0], conn'[0]) /\ Ages(conn[1], conn'[1])
  <2>1. PICK packet : conn' = [conn EXCEPT ![pcb] = TCPHandler_write(conn[pcb], packet)]
    BY <1>3 DEF Send
  <2> QED
    BY <1>1, <2>1, WritingAges
<1>4. CASE Close
  <2>1. conn' = [conn EXCEPT ![pcb] = TCPHandler_close(conn[pcb])]
    BY <1>4 DEF Close
  <2> QED
    BY <1>1, <2>1, WritingAges DEF Open
<1>5. CASE MQTTClient_disconnect
  <2> DEFINE x == Packet("DISCONNECT", 0, 0, 0)
  <2>1. PICK full \in BOOLEAN :
          conn' = [conn EXCEPT ![pcb] =
                     TCPHandler_close(IF full THEN conn[pcb]
                                      ELSE TCPHandler_write(conn[pcb], x))]
    BY <1>5 DEF MQTTClient_disconnect, is_output_buffer_full
  <2>2. PICK n : n = IF full THEN conn[pcb] ELSE TCPHandler_write(conn[pcb], x)
    OBVIOUS
  <2>3. n \in ConnRecords /\ Ages(conn[pcb], n)
    <3>1. x \in Packets
      BY SmallNumbers, PacketType DEF PacketTypes
    <3> HIDE DEF x
    <3> QED
      BY <1>1, <2>2, <3>1, WritingAges, WriteAndCloseType
  <2>4. conn' = [conn EXCEPT ![pcb] = TCPHandler_close(n)]
    BY <2>1, <2>2
  <2>5. Ages(n, TCPHandler_close(n))
        /\ TCPHandler_close(n).state \notin {"syn_sent", "established"}
    BY <2>3, WritingAges
  <2>6. Ages(conn[pcb], TCPHandler_close(n))
    BY <2>3, <2>5 DEF Ages
  <2> QED
    BY <1>1, <2>4, <2>5, <2>6, WritingAges DEF Open
<1> QED
  BY <1>2, <1>3, <1>4, <1>5 DEF ClientWrites

\* A step of the client on its connection.
LEMMA ClientSurround ==
  ASSUME Apart, OneConnection, Surround, UNCHANGED brokerVars, ClientWrites,
         conn[1].state = "unused" =>
           UNCHANGED <<rx, req_queue>> /\ ~mqtt_connected' /\ pc' # "connect"
  PROVE  Surround' /\ (Open' /\ pcb' = pcb => Open)
<1>1. Ages(conn[0], conn'[0]) /\ Ages(conn[1], conn'[1])
  BY ClientAges
<1> QED
  BY <1>1 DEF Surround, Ages, NULL, Idle, Owed, brokerVars, Open, SlotKey, StateAt, IdAt

\* The client's steps.
LEMMA ClientStepSurround ==
  ASSUME Apart, OneConnection, Surround,
         Application \/ Waiting \/ get_mqtt_packet \/ Tick
  PROVE  Surround' /\ (Open' => Open \/ MQTTClient_connect)
<1>0. /\ conn \in [Pcbs -> ConnRecords] /\ pcb \in {0, 1} /\ Pcbs = {0, 1}
      /\ Conns = {1}
  BY OneConnectionTypes
<1>1. CASE MQTTClient_connect
  <2>1. pcb' = 1
    BY <1>0, <1>1, NewPcb DEF MQTTClient_connect
  <2>2. /\ conn'[0] = conn[0] /\ conn'[1].state = "syn_sent" /\ UNCHANGED brokerVars
    BY <1>0, <1>1, <2>1 DEF MQTTClient_connect
  <2> QED
    BY <1>1, <2>2 DEF Surround, NULL, Owed, brokerVars
<1>2. CASE ConnectTcpFailure
  <2>1. pcb' = 1
    BY <1>0, <1>2, NewPcb DEF ConnectTcpFailure
  <2>2. /\ conn'[0] = conn[0] /\ conn'[1].state = "allocated" /\ UNCHANGED brokerVars
    BY <1>0, <1>2, <2>1 DEF ConnectTcpFailure, ConnRecords
  <2> QED
    BY <2>2 DEF Surround, NULL, Owed, brokerVars, Open
<1>3. CASE ConnectMemoryErr
  <2>1. /\ UNCHANGED <<conn, brokerVars, rx, req_queue, mqtt_connected, pc>> /\ pcb' = 0
    BY <1>3 DEF ConnectMemoryErr, queueVars, rxVars, NULL
  <2>2. Surround'
    <3>1. conn[1].state = "unused" =>
            UNCHANGED <<rx, req_queue>> /\ ~mqtt_connected' /\ pc' # "connect"
      BY <2>1 DEF Surround, Idle
    <3> QED
      BY <2>1, <3>1, ClientSurround DEF ClientWrites
  <2> QED
    BY <2>1, <2>2 DEF Open
<1>4. CASE MQTTClient_publish \/ MQTTClient_subscribe \/ MQTTClient_unsubscribe
           \/ MQTTClient_disconnect
  <2>1. UNCHANGED brokerVars /\ pcb' = pcb /\ mqtt_connected
    BY <1>4 DEF MQTTClient_publish, MQTTClient_subscribe, MQTTClient_unsubscribe,
       MQTTClient_disconnect, PublishQos0, Request, MayCall, linkVars
  <2>2. ClientWrites
    BY <1>4 DEF MQTTClient_publish, MQTTClient_subscribe, MQTTClient_unsubscribe,
       PublishQos0, Request, ClientWrites
  <2> QED
    BY <2>1, <2>2, ClientSurround DEF Surround, Idle
<1>5. CASE MQTTClient_loop \/ Waiting \/ Tick
  <2>1. UNCHANGED <<brokerVars, pcb, rx, req_queue>>
    BY <1>5 DEF MQTTClient_loop, Waiting, Tick, wait_for_connack, LoopNotConnected,
       mqtt_handle_keepalive, mqtt_handle_timeout_on_ping, PingProcessed, linkVars,
       rxVars, queueVars
  <2>2. UNCHANGED conn \/ Close \/ \E packet : Send(packet)
    BY <1>5 DEF MQTTClient_loop, Waiting, Tick, wait_for_connack, LoopNotConnected,
       mqtt_handle_keepalive, mqtt_handle_timeout_on_ping, PingProcessed
  <2>3. pc # "connect" /\ ~mqtt_connected => ~mqtt_connected' /\ pc' # "connect"
    BY <1>5 DEF MQTTClient_loop, Waiting, Tick, wait_for_connack, LoopNotConnected,
       mqtt_handle_keepalive, mqtt_handle_timeout_on_ping, PingProcessed, linkVars
  <2> QED
    BY <2>1, <2>2, <2>3, ClientSurround DEF Surround, Idle, ClientWrites
<1>6. CASE get_mqtt_packet
  <2>1. UNCHANGED <<brokerVars, pcb>> /\ rx # <<>>
    BY <1>6 DEF get_mqtt_packet, HandleConnack, HandlePuback, HandlePubrec,
       HandlePubcomp, HandleSuback, HandleUnsuback, HandlePubrel, HandlePingresp,
       HandlePublishDiscarded, HandlePublishQos0, HandlePublishQos1,
       HandlePublishQos2, RequestNotFound, HandleLastAck, Answer, AnswerDoesNotFit,
       Receiving, linkVars
  <2>2. ClientWrites
    BY <1>6 DEF get_mqtt_packet, HandleConnack, HandlePuback, HandlePubrec,
       HandlePubcomp, HandleSuback, HandleUnsuback, HandlePubrel, HandlePingresp,
       HandlePublishDiscarded, HandlePublishQos0, HandlePublishQos1,
       HandlePublishQos2, RequestNotFound, HandleLastAck, Answer, AnswerDoesNotFit,
       PacketFailed, ClientWrites
  <2> QED
    BY <2>1, <2>2, ClientSurround DEF Surround, Idle
<1> QED
  BY <1>1, <1>2, <1>3, <1>4, <1>5, <1>6 DEF Application

\* What the broker does with a packet.
LEMMA BrokerReceives ==
  ASSUME Apart, OneConnection, BrokerReceive(1)
  PROVE  /\ Out # <<>> /\ broker[1].phase = "accepted" /\ UNCHANGED clientVars
         /\ conn' = [conn EXCEPT ![1] = Taken(1)]
         /\ Out' = Tail(Out) /\ conn'[1].in = conn[1].in
         /\ Owed' = Owed \cup Replies(broker[1], Head(Out))
         /\ \E b : broker' = [broker EXCEPT ![1] = b] /\ b.phase = "accepted"
<1>0. /\ conn \in [Pcbs -> ConnRecords] /\ 1 \in Pcbs /\ 1 \in Conns
      /\ conn[1] \in ConnRecords /\ broker \in [Conns -> BrokerRecords]
  BY OneConnectionTypes
<1> DEFINE p == Head(conn[1].out)
           b == [ phase |-> "accepted",
                  subscribed |-> IF p.type = "SUBSCRIBE" THEN TRUE
                                 ELSE broker[1].subscribed /\ p.type # "UNSUBSCRIBE",
                  owed |-> broker[1].owed \cup Replies(broker[1], p),
                  inflight |-> broker[1].inflight \ Finished(broker[1], p) ]
<1>1. /\ broker' = [broker EXCEPT ![1] = b]
      /\ conn' = [conn EXCEPT ![1] = Taken(1)] /\ conn[1].out # <<>>
      /\ broker[1].phase = "accepted" /\ UNCHANGED clientVars
  BY DEF BrokerReceive, Incoming
<1>2. b.phase = "accepted" /\ b.owed = Owed \cup Replies(broker[1], p)
  BY DEF Owed
<1> HIDE DEF b
<1>3. Owed' = Owed \cup Replies(broker[1], p)
  BY <1>0, <1>1, <1>2 DEF Owed
<1>4. Out' = Tail(Out) /\ conn'[1].in = conn[1].in
  BY <1>0, <1>1 DEF Out, Taken, ConnRecords
<1> QED
  BY <1>1, <1>2, <1>3, <1>4 DEF Out

\* The network and the broker.
LEMMA OutsideSurround ==
  ASSUME Apart, OneConnection, Surround, NEW c \in Conns, Network(c) \/ Broker(c)
  PROVE  Surround' /\ (Open' => Open)
<1>0. /\ conn \in [Pcbs -> ConnRecords] /\ Pcbs = {0, 1} /\ Conns = {1} /\ c = 1
      /\ conn[1] \in ConnRecords /\ broker \in [Conns -> BrokerRecords]
      /\ broker[1] \in BrokerRecords
  BY OneConnectionTypes
<1>1. ASSUME NEW n, conn' = [conn EXCEPT ![1] = n], conn[1].state # "unused",
             Ages(conn[1], n), UNCHANGED pcb,
             broker'[1].phase = "new" => broker[1].phase = "new" /\ Owed' \subseteq Owed
      PROVE  Surround' /\ (Open' => Open)
  <2>1. conn'[0] = conn[0] /\ conn'[1] = n
    BY <1>0, <1>1
  <2> QED
    BY <1>1, <2>1 DEF Surround, Ages, NULL, Open
<1>2. CASE Network(c)
  <2>1. UNCHANGED <<brokerVars, pcb>> /\ conn[1].state # "unused"
    BY <1>0, <1>2 DEF Network, tcp_connected_cb, tcp_received_cb,
       tcp_received_cb_closed, DataAfterClose, tcp_error_cb, clientVars, linkVars
  <2>2. \E n : conn' = [conn EXCEPT ![1] = n] /\ Ages(conn[1], n)
    <3>1. CASE tcp_connected_cb(c)
      <4>1. conn' = [conn EXCEPT ![1] = [conn[1] EXCEPT !.state = "established"]]
        BY <1>0, <3>1 DEF tcp_connected_cb
      <4>2. Ages(conn[1], [conn[1] EXCEPT !.state = "established"])
        BY <1>0, <3>1 DEF tcp_connected_cb, Ages, ConnRecords
      <4> QED
        BY <4>1, <4>2
    <3>2. CASE tcp_received_cb(c)
      <4>1. PICK s : conn' = [conn EXCEPT ![1] = [conn[1] EXCEPT !.in = s]]
        BY <1>0, <3>2 DEF tcp_received_cb
      <4>2. Ages(conn[1], [conn[1] EXCEPT !.in = s])
        BY <1>0, <3>2 DEF tcp_received_cb, Ages, ConnRecords
      <4> QED
        BY <4>1, <4>2
    <3>3. CASE tcp_received_cb_closed(c)
      <4> DEFINE n == [ state |-> "freed", in |-> <<>>,
                        out |-> TCPHandler_close(conn[1]).out ]
      <4>1. conn' = [conn EXCEPT ![1] = n] /\ n.state = "freed"
        BY <1>0, <3>3 DEF tcp_received_cb_closed
      <4> HIDE DEF n
      <4> QED
        BY <2>1, <4>1 DEF Ages
    <3>4. CASE DataAfterClose(c) \/ tcp_error_cb(c)
      <4>1. conn' = [conn EXCEPT ![1] = Aborted] /\ Aborted.state = "freed"
        BY <1>0, <3>4 DEF DataAfterClose, tcp_error_cb, Aborted
      <4> QED
        BY <2>1, <4>1 DEF Ages
    <3> QED
      BY <1>2, <3>1, <3>2, <3>3, <3>4 DEF Network
  <2> QED
    BY <1>1, <2>1, <2>2 DEF brokerVars, Owed
<1>3. CASE Broker(c)
  <2>1. UNCHANGED pcb
    BY <1>3 DEF Broker, BrokerConnect, BrokerReceive, BrokerDisconnected,
       BrokerIgnores, BrokerReply, BrokerPublish, BrokerClose, clientVars, linkVars
  <2>2. conn[1].state # "unused"
    <3> SUFFICES ASSUME conn[1].out = <<>>, broker[1].phase = "new", Owed = {}
                 PROVE  FALSE
      BY DEF Surround, Idle, NoConn
    <3> QED
      BY <1>0, <1>3 DEF Broker, BrokerConnect, BrokerReceive, BrokerDisconnected,
         BrokerIgnores, BrokerReply, BrokerPublish, BrokerClose, Incoming, Over, Owed
  <2>3. \E n : conn' = [conn EXCEPT ![1] = n] /\ Ages(conn[1], n)
    <3>1. /\ Taken(1).state = conn[1].state /\ Taken(1) = [conn[1] EXCEPT !.out = Tail(conn[1].out)]
          /\ \A s : ToClient(conn[1], s).state = conn[1].state
          /\ \A s : ToClient(Taken(1), s).state = conn[1].state
      BY <1>0 DEF ToClient, Taken, ConnRecords
    <3>2. /\ Ages(conn[1], Taken(1))
          /\ \A s : Ages(conn[1], ToClient(conn[1], s)) /\ Ages(conn[1], ToClient(Taken(1), s))
      BY <2>2, <3>1 DEF Ages
    <3>3. \/ \E s : conn' = [conn EXCEPT ![1] = ToClient(conn[1], s)]
          \/ \E s : conn' = [conn EXCEPT ![1] = ToClient(Taken(1), s)]
          \/ conn' = [conn EXCEPT ![1] = Taken(1)]
      BY <1>0, <1>3 DEF Broker, BrokerConnect, BrokerReceive, BrokerDisconnected,
         BrokerIgnores, BrokerReply, BrokerPublish, BrokerClose
    <3> QED
      BY <3>2, <3>3
  <2>4. broker'[1].phase = "new" => broker[1].phase = "new" /\ Owed' \subseteq Owed
    <3>1. CASE BrokerConnect(c) \/ BrokerReceive(c) \/ BrokerDisconnected(c) \/ BrokerClose(c)
      <4>1. \E b : /\ broker' = [broker EXCEPT ![1] = b]
                   /\ b.phase \in {"accepted", "refused", "closed"}
        <5>1. \A phase : Gone(broker[1], phase).phase = phase
          BY <1>0 DEF Gone, BrokerRecords
        <5>2. [broker[1] EXCEPT !.phase = "accepted"].phase = "accepted"
          BY <1>0 DEF BrokerRecords
        <5>3. CASE BrokerConnect(c)
          <6>1. \/ broker' = [broker EXCEPT ![1] = Gone(broker[1], "refused")]
                \/ broker' = [broker EXCEPT ![1] = [broker[1] EXCEPT !.phase = "accepted"]]
            BY <1>0, <5>3 DEF BrokerConnect
          <6> QED
            BY <5>1, <5>2, <6>1
        <5>4. CASE BrokerReceive(c)
          BY <1>0, <5>4, BrokerReceives
        <5>5. CASE BrokerDisconnected(c) \/ BrokerClose(c)
          <6>1. broker' = [broker EXCEPT ![1] = Gone(broker[1], "closed")]
            BY <1>0, <5>5 DEF BrokerDisconnected, BrokerClose
          <6> QED
            BY <5>1, <6>1
        <5> QED
          BY <3>1, <5>3, <5>4, <5>5
      <4> QED
        BY <1>0, <4>1
    <3>2. CASE BrokerIgnores(c)
      BY <1>0, <3>2 DEF BrokerIgnores, brokerVars, Owed
    <3>3. CASE BrokerReply(c)
      BY <1>0, <3>3 DEF BrokerReply, Owed, BrokerRecords
    <3>4. CASE \E qos \in 0 .. 2 : BrokerPublish(c, qos)
      BY <1>0, <3>4 DEF BrokerPublish, Owed, BrokerRecords
    <3> QED
      BY <1>3, <3>1, <3>2, <3>3, <3>4 DEF Broker
  <2> QED
    BY <1>1, <2>1, <2>2, <2>3, <2>4
<1> QED
  BY <1>2, <1>3

----
(***************************************************************************)
(* Steps while the connection is open: packets that no slot waits for.     *)
(***************************************************************************)
\* Where the packets are after a step of the client.
LEMMA ClientPlaces ==
  ASSUME Apart, OneConnection, Open, UNCHANGED brokerVars
  PROVE  /\ Owed' = Owed /\ (BrokerThere' <=> BrokerThere)
         /\ UNCHANGED conn => Out' = Out /\ conn'[1].in = conn[1].in
         /\ \A p \in Packets : Send(p) =>
              Out' = Append(Out, p) /\ conn'[1].in = conn[1].in
<1>1. /\ conn \in [Pcbs -> ConnRecords] /\ 1 \in Pcbs /\ conn[1] \in ConnRecords
  BY OneConnectionTypes
<1>2. ASSUME NEW p \in Packets, Send(p)
      PROVE  Out' = Append(Out, p) /\ conn'[1].in = conn[1].in
  <2>1. conn' = [conn EXCEPT ![1] = [conn[1] EXCEPT !.out = Append(conn[1].out, p)]]
    BY <1>2 DEF Send, Open, TCPHandler_write
  <2> QED
    BY <1>1, <2>1 DEF Out, ConnRecords
<1> QED
  BY <1>2 DEF Owed, brokerVars, BrokerThere, Out

\* The head of what arrives, in keys.
LEMMA NoAckNoSlot ==
  ASSUME Apart, OneConnection, NEW p \in Packets, p.type \notin AckTypes
  PROVE  /\ KeyDown[p] = IF p.type = "PUBLISH" /\ p.qos = 2 THEN Opening(p.id) ELSE NoKey
         /\ \A i \in Slots : SlotKey(i) # NoKey => SlotKey(i) # KeyDown[p]
<1>1. KeyDown[p] = IF p.type = "PUBLISH" /\ p.qos = 2 THEN Opening(p.id) ELSE NoKey
  <2>1. Answering(p) = IF p.type = "PUBLISH" /\ p.qos = 2 THEN "PUBLISHED" ELSE "NO_REQUEST"
    BY DEF Answering
  <2> QED
    BY <2>1, KeysAre DEF Opening
<1>2. p.id \in PacketIds
  BY DEF Packets
<1> QED
  BY <1>1, <1>2, OpeningsAreNoSlots DEF Apart

\* What is sent without a key changes no place.
LEMMA KeylessOut ==
  ASSUME Tidy, Apart, OneConnection,
         \/ Out' = Out
         \/ \E x \in Packets : Plain(x) /\ Out' = Append(Out, x)
  PROVE  /\ Out' \in Seq(Packets) /\ OnePlace(Out', Owed, Arriving)
         /\ KeysOf(Out', Owed, Arriving) = Keys
         /\ \A p \in Elements(Out)' :
              p \in Elements(Out) \/ (p \in Packets /\ Plain(p))
<1>0. /\ Out \in Seq(Packets) /\ Owed \in SUBSET Packets /\ Arriving \in Seq(Packets)
      /\ OnePlace(Out, Owed, Arriving)
  BY PlaceTypes DEF Tidy
<1>1. CASE Out' = Out
  BY <1>0, <1>1 DEF Keys, Elements
<1>2. ASSUME NEW x \in Packets, Plain(x), Out' = Append(Out, x)
      PROVE  /\ Out' \in Seq(Packets) /\ OnePlace(Out', Owed, Arriving)
             /\ KeysOf(Out', Owed, Arriving) = Keys
             /\ \A p \in Elements(Out)' :
                  p \in Elements(Out) \/ (p \in Packets /\ Plain(p))
  <2>1. Append(Out, x) \in Seq(Packets) /\ Elements(Append(Out, x)) = Elements(Out) \cup {x}
    BY <1>0, AppendProperties, ElementsParts
  <2>2. /\ OnePlace(Append(Out, x), Owed, Arriving)
        /\ KeysOf(Append(Out, x), Owed, Arriving) = Keys \cup ({KeyUp[x]} \ {NoKey})
    <3>1. KeyUp[x] \notin KeysOf(Out, Owed, Arriving)
      BY <1>2 DEF KeysOf, KeysIn, Plain
    <3> QED
      BY <1>0, <3>1, OutGrows DEF Keys
  <2>3. Elements(Out)' = Elements(Out) \cup {x}
    BY <1>2, <2>1 DEF Elements
  <2> QED
    BY <1>2, <2>1, <2>2, <2>3 DEF Plain
<1> QED
  BY <1>1, <1>2

\* Packets without a key come and go, and messages about to be kept go.
LEMMA KeylessTidy ==
  ASSUME Tidy, Apart, OneConnection, SameKeys, BrokerThere' => BrokerThere, Owed' = Owed,
         \/ Out' = Out
         \/ \E x \in Packets : Plain(x) /\ Out' = Append(Out, x),
         \/ Arriving' = Arriving
         \/ /\ Arriving # <<>> /\ Head(Arriving).type \notin AckTypes
            /\ Arriving' = Tail(Arriving)
         \/ \E y \in Packets : KeyDown[y] = NoKey /\ Arriving' = Append(Arriving, y)
  PROVE  Tidy'
<1>0. /\ Out \in Seq(Packets) /\ Owed \in SUBSET Packets /\ Arriving \in Seq(Packets)
      /\ OnePlace(Out, Owed, Arriving) /\ Matched
  BY PlaceTypes DEF Tidy
<1>1. \A o, w, a : NoKey \notin KeysOf(o, w, a)
  BY DEF KeysOf, KeysIn
<1>2. /\ Out' \in Seq(Packets) /\ OnePlace(Out', Owed, Arriving)
      /\ KeysOf(Out', Owed, Arriving) = Keys
      /\ \A p \in Elements(Out)' : p \in Elements(Out) \/ HasAsked(p)
  BY KeylessOut DEF HasAsked
<1>3. /\ OnePlace(Out', Owed', Arriving') /\ Keys' \subseteq Keys
      /\ \A k \in Keys : k \in Keys' \/ \A i \in Slots : SlotKey(i) # NoKey => SlotKey(i) # k
      /\ \A p \in (Owed \cup Elements(Arriving))' :
           p \in Owed \cup Elements(Arriving) \/ (p \in Packets /\ WillAnswer(p))
  <2>0. Keys' = KeysOf(Out', Owed, Arriving')
    BY DEF Keys, KeysOf, KeysIn, Elements, KeyUp, KeyDown
  <2>1. CASE Arriving' = Arriving
    BY <1>2, <2>0, <2>1 DEF Elements
  <2>2. CASE /\ Arriving # <<>> /\ Head(Arriving).type \notin AckTypes
             /\ Arriving' = Tail(Arriving)
    <3>1. /\ OnePlace(Out', Owed, Tail(Arriving))
          /\ KeysOf(Out', Owed, Tail(Arriving)) = Keys \ {KeyDown[Head(Arriving)]}
      BY <1>0, <1>2, <2>2, InShrinks
    <3>2. Elements(Tail(Arriving)) \subseteq Elements(Arriving) /\ Head(Arriving) \in Packets
      BY <1>0, <2>2, ElementsParts
    <3>3. \A i \in Slots : SlotKey(i) # NoKey => SlotKey(i) # KeyDown[Head(Arriving)]
      BY <2>2, <3>2, NoAckNoSlot
    <3>4. Elements(Arriving)' = Elements(Tail(Arriving))
      BY <2>2 DEF Elements
    <3> QED
      BY <2>0, <2>2, <3>1, <3>2, <3>3, <3>4
  <2>3. ASSUME NEW y \in Packets, KeyDown[y] = NoKey, Arriving' = Append(Arriving, y)
        PROVE  /\ OnePlace(Out', Owed', Arriving') /\ Keys' = Keys
               /\ \A p \in (Owed \cup Elements(Arriving))' :
                    p \in Owed \cup Elements(Arriving) \/ (p \in Packets /\ WillAnswer(p))
    <3>1. /\ OnePlace(Out', Owed, Append(Arriving, y))
          /\ KeysOf(Out', Owed, Append(Arriving, y)) = Keys \cup ({KeyDown[y]} \ {NoKey})
      <4>1. KeyDown[y] \notin KeysOf(Out', Owed, Arriving)
        BY <1>1, <2>3
      <4> QED
        BY <1>0, <1>2, <4>1, InGrows
    <3>2. Elements(Append(Arriving, y)) = Elements(Arriving) \cup {y}
      BY <1>0, ElementsParts
    <3>3. WillAnswer(y)
      BY <2>3, KeysAre DEF WillAnswer
    <3>4. Elements(Arriving)' = Elements(Append(Arriving, y))
      BY <2>3 DEF Elements
    <3> QED
      BY <2>0, <2>3, <3>1, <3>2, <3>3, <3>4
  <2> QED
    BY <2>1, <2>2, <2>3
<1>4. Matched'
  <2>1. \A i \in Slots : Releasable(i) => Opening(IdAt(i)) \notin Keys'
    BY <1>0, <1>3 DEF Matched
  <2>2. \A i \in Slots : SlotKey(i) \in Keys => SlotKey(i) \in Keys'
    <3>1. \A i \in Slots : SlotKey(i) \in Keys => SlotKey(i) # NoKey
      BY <1>1 DEF Keys
    <3> QED
      BY <1>3, <3>1
  <2> QED
    BY <1>0, <1>2, <1>3, <2>1, <2>2, MatchedStays
<1> QED
  BY <1>3, <1>4 DEF Tidy, OnePlace, Once, OnceIn, KeysIn, Elements, KeyUp, KeyDown

----
(***************************************************************************)
(* What the handlers do to the slots.                                      *)
(***************************************************************************)
\* A free slot takes a request; no other slot changes.
LEMMA AddedSlot ==
  ASSUME Inv, ~is_request_queue_full(req_queue), NEW req,
         NEW i, i = FirstSlot(FreeSlots(req_queue))
  PROVE  /\ i \in Slots /\ SlotKey(i) = NoKey /\ StateAt(i) = "NO_REQUEST"
         /\ \A j \in Slots : mqtt_req_queue_add(req_queue, req).requests[j] =
              IF j = i THEN req ELSE req_queue.requests[j]
<1>1. /\ req_queue \in QueueOf(Requests) /\ CounterExact(req_queue)
  BY DEF Inv, TypeOK, ClientTypeOK, QueueCounterExact
<1>2. FreeSlots(req_queue) # {} /\ FreeSlots(req_queue) \in SUBSET Slots
  BY <1>1, NotFullHasFreeSlot, BusyAndFree
<1>3. i \in Slots /\ StateAt(i) = "NO_REQUEST"
  BY <1>2, FirstSlotIn DEF FreeSlots, StateAt
<1>4. SlotKey(i) = NoKey
  BY <1>3, KeysAre DEF SlotKey
<1>5. mqtt_req_queue_add(req_queue, req).requests = [req_queue.requests EXCEPT ![i] = req]
  BY <1>2 DEF mqtt_req_queue_add
<1> QED
  BY <1>1, <1>3, <1>4, <1>5 DEF QueueOf

\* The slot an acknowledgement finds has its key.
LEMMA FoundSlot ==
  ASSUME Inv, NEW p \in Packets, p.type \in AckTypes, Found(p) # {},
         NEW i, i = FirstSlot(Found(p))
  PROVE  /\ i \in Slots /\ SlotKey(i) = KeyDown[p] /\ IdAt(i) = p.id
         /\ StateAt(i) = Awaited(p.type) /\ ContextAt(i) = ContextOf(p)
<1>1. /\ i \in Slots /\ StateAt(i) = Awaited(p.type) /\ ContextAt(i) = ContextOf(p)
  BY FoundType, BusyAndFree
     DEF Inv, TypeOK, ClientTypeOK, StateAt, ContextAt, ContextOf
<1>2. IdAt(i) = p.id
  <2>1. Found(p) \in SUBSET Slots
    BY DEF Found, SlotsMatching
  <2>2. i \in Found(p)
    BY <2>1, FirstSlotIn
  <2> QED
    BY <2>2 DEF Found, SlotsMatching, IdAt
<1>3. SlotKey(i) = KeyDown[p]
  BY <1>1, <1>2, KeysAre DEF SlotKey, Awaited, AckTypes
<1> QED
  BY <1>1, <1>2, <1>3

\* It alone moves on, to its next state,
LEMMA FoundSlotFound ==
  ASSUME Inv, NEW p \in Packets, p.type \in AckTypes, Found(p) # {},
         NEW i, i = FirstSlot(Found(p)), NEW j \in Slots
  PROVE  FindRequest(p).requests[j] =
           IF j = i
           THEN [req_queue.requests[j] EXCEPT
                   !.conv_state = get_next_conv_state(Awaited(p.type))]
           ELSE req_queue.requests[j]
<1>1. i \in Slots /\ req_queue \in QueueOf(Requests)
  BY FoundSlot DEF Inv, TypeOK, ClientTypeOK
<1>2. FindRequest(p) = mqtt_req_queue_update(req_queue, Awaited(p.type), i)
  BY DEF FindRequest, Found, mqtt_req_queue_find
<1> QED
  BY <1>1, <1>2, UpdateChanges

\* and to the one after it when the answer is sent.
LEMMA FoundSlotMoves ==
  ASSUME Inv, NEW p \in Packets, p.type \in AckTypes, Found(p) # {},
         NEW i, i = FirstSlot(Found(p)), NEW j \in Slots, NEW state
  PROVE  mqtt_req_queue_update(FindRequest(p), state, i).requests[j] =
           IF j = i
           THEN [req_queue.requests[j] EXCEPT !.conv_state = get_next_conv_state(state)]
           ELSE req_queue.requests[j]
<1>1. /\ i \in Slots /\ req_queue \in QueueOf(Requests)
      /\ FindRequest(p) \in QueueOf(Requests)
  BY FoundSlot, FoundType DEF Inv, TypeOK, ClientTypeOK
<1>2. mqtt_req_queue_update(FindRequest(p), state, i).requests[j] =
        IF j = i
        THEN [FindRequest(p).requests[j] EXCEPT !.conv_state = get_next_conv_state(state)]
        ELSE FindRequest(p).requests[j]
  BY <1>1, UpdateChanges
<1>3. req_queue.requests[j] \in Requests
  BY <1>1 DEF QueueOf
<1>4. FindRequest(p).requests[j] =
        IF j = i
        THEN [req_queue.requests[j] EXCEPT
                !.conv_state = get_next_conv_state(Awaited(p.type))]
        ELSE req_queue.requests[j]
  BY FoundSlotFound
<1> QED
  BY <1>2, <1>3, <1>4 DEF Requests

\* A message kept and answered takes a free slot,
LEMMA KeptSlot ==
  ASSUME Inv, NEW p \in Packets, ~Discarded(p)
  PROVE  /\ AddedAt \in Slots /\ SlotKey(AddedAt) = NoKey
         /\ StateAt(AddedAt) = "NO_REQUEST"
BY AddedSlot DEF Discarded, AddedAt

\* which has gone one state on.
LEMMA KeptSlotMoves ==
  ASSUME Inv, NEW p \in Packets, ~Discarded(p),
         NEW state \in {"SENDING_PUBACK", "SENDING_PUBREC"}, NEW j \in Slots
  PROVE  mqtt_req_queue_update(Kept(p, state), state, AddedAt).requests[j] =
           IF j = AddedAt
           THEN [ packet_id |-> p.id, context |-> p.body,
                  conv_state |-> get_next_conv_state(state) ]
           ELSE req_queue.requests[j]
<1> DEFINE req == [ packet_id |-> p.id, context |-> p.body, conv_state |-> state ]
<1>1. Kept(p, state) \in QueueOf(Requests)
  BY KeptType DEF ConvStates
<1>2. AddedAt \in Slots
  BY KeptSlot
<1>3. Kept(p, state).requests[j] = IF j = AddedAt THEN req ELSE req_queue.requests[j]
  BY AddedSlot DEF Discarded, AddedAt, Kept
<1>4. mqtt_req_queue_update(Kept(p, state), state, AddedAt).requests[j] =
        IF j = AddedAt
        THEN [Kept(p, state).requests[j] EXCEPT !.conv_state = get_next_conv_state(state)]
        ELSE Kept(p, state).requests[j]
  BY <1>1, <1>2, UpdateChanges
<1> QED
  BY <1>3, <1>4

----
(***************************************************************************)
(* The client's steps while the connection is open.                        *)
(***************************************************************************)
\* A packet of the segment is handled.
LEMMA Handling ==
  ASSUME Apart, OneConnection, Open, UNCHANGED brokerVars, rx # <<>>, PacketDone,
         UNCHANGED conn \/ \E x \in Packets : Send(x)
  PROVE  /\ Arriving # <<>> /\ Head(Arriving) = Head(rx) /\ Head(rx) \in Packets
         /\ Arriving' = Tail(Arriving)
         /\ Owed' = Owed /\ (BrokerThere' => BrokerThere)
<1>1. /\ conn'[1].in = conn[1].in /\ Owed' = Owed /\ (BrokerThere' => BrokerThere)
  BY ClientPlaces
<1>2. rx \in Seq(Packets) /\ rx' = Tail(rx)
  BY OneConnectionTypes DEF PacketDone
<1> QED
  BY <1>1, <1>2, ArrivingMoves, HeadTailType

\* Steps that leave the slots alone, or fill one and free it again.
LEMMA QuietClientTidy ==
  ASSUME Apart, OneConnection, Tidy, Open, Open',
         \/ PublishQos0 \/ MQTTClient_loop \/ Waiting \/ Tick
         \/ HandleConnack \/ HandlePingresp \/ HandlePublishDiscarded
         \/ HandlePublishQos0 \/ HandlePublishQos1
  PROVE  Tidy'
<1> DEFINE p == Head(rx)
<1>0. Inv /\ requests \in 0 .. MaxRequests
  BY DEF Apart, Inv, TypeOK, ClientTypeOK
<1>1. UNCHANGED req_queue => SameKeys
  BY DEF SameKeys, SlotKey, StateAt, IdAt
<1>2. CASE PublishQos0
  <2> DEFINE x == Packet("PUBLISH", 0, requests + 1, 0)
  <2>1. x \in Packets
    <3>1. requests + 1 \in Contexts
      BY <1>0, <1>2, ClientAssumption, SmallNumbers DEF PublishQos0, MayCall
    <3> QED
      BY <3>1, SmallNumbers, PacketType DEF PacketTypes
  <2>2. Plain(x)
    BY <2>1, KeysAre DEF Asking, Packet, Plain
  <2>3. /\ Send(x) /\ UNCHANGED <<brokerVars, rx, req_queue>>
    BY <1>2 DEF PublishQos0, rxVars, queueVars
  <2> HIDE DEF x
  <2>4. /\ Out' = Append(Out, x) /\ conn'[1].in = conn[1].in
        /\ Owed' = Owed /\ (BrokerThere' => BrokerThere)
    BY <2>1, <2>3, ClientPlaces
  <2>5. Arriving' = Arriving
    BY <2>3, <2>4, ArrivingMoves
  <2> QED
    BY <1>1, <2>1, <2>2, <2>3, <2>4, <2>5, KeylessTidy
<1>3. CASE MQTTClient_loop \/ Waiting \/ Tick
  <2> DEFINE x == Packet("PINGREQ", 0, 0, 0)
  <2>1. UNCHANGED <<brokerVars, rx, req_queue, pcb>>
    BY <1>3 DEF MQTTClient_loop, Waiting, wait_for_connack, LoopNotConnected,
       mqtt_handle_keepalive, mqtt_handle_timeout_on_ping, PingProcessed, Tick,
       linkVars, rxVars, queueVars
  <2>2. ~Close
    BY <2>1, ClientAges DEF ClientWrites
  <2>3. UNCHANGED conn \/ Send(x)
    BY <1>3, <2>2 DEF MQTTClient_loop, Waiting, wait_for_connack, LoopNotConnected,
       mqtt_handle_keepalive, mqtt_handle_timeout_on_ping, PingProcessed, Tick
  <2>4. x \in Packets
    BY SmallNumbers, PacketType DEF PacketTypes
  <2>5. Plain(x)
    BY <2>4, KeysAre DEF Asking, Packet, Plain
  <2> HIDE DEF x
  <2>6. /\ Out' = Out \/ Out' = Append(Out, x)
        /\ conn'[1].in = conn[1].in
        /\ Owed' = Owed /\ (BrokerThere' => BrokerThere)
    BY <2>1, <2>3, <2>4, ClientPlaces
  <2>7. Arriving' = Arriving
    BY <2>1, <2>6, ArrivingMoves
  <2> QED
    BY <1>1, <2>1, <2>4, <2>5, <2>6, <2>7, KeylessTidy
<1>4. CASE \/ HandleConnack \/ HandlePingresp \/ HandlePublishDiscarded
           \/ HandlePublishQos0
  <2>1. /\ UNCHANGED <<brokerVars, conn, req_queue>> /\ rx # <<>> /\ PacketDone
        /\ p.type \notin AckTypes
    BY <1>4 DEF HandleConnack, HandlePingresp, HandlePublishDiscarded,
       HandlePublishQos0, Receiving, queueVars, AckTypes
  <2>2. /\ Arriving # <<>> /\ Head(Arriving) = p /\ Arriving' = Tail(Arriving)
        /\ Owed' = Owed /\ (BrokerThere' => BrokerThere) /\ Out' = Out
    BY <2>1, Handling, ClientPlaces
  <2> QED
    BY <1>1, <2>1, <2>2, KeylessTidy
<1>5. CASE HandlePublishQos1
  <2> DEFINE x == Packet("PUBACK", p.id, 0, 0)
             q == Kept(p, "SENDING_PUBACK")
  <2>1. /\ UNCHANGED <<brokerVars, pcb>> /\ rx # <<>> /\ p.type = "PUBLISH"
        /\ p.type \notin AckTypes /\ ~Discarded(p)
        /\ Answer(q, AddedAt, "SENDING_PUBACK", x) \/ AnswerDoesNotFit(q)
    BY <1>5 DEF HandlePublishQos1, Receiving, AckTypes, Answer, AnswerDoesNotFit,
       linkVars
  <2>2. ~Close
    BY <2>1, ClientAges DEF ClientWrites
  <2>3. /\ req_queue' = mqtt_req_queue_update(q, "SENDING_PUBACK", AddedAt)
        /\ Send(x) /\ PacketDone
    BY <2>1, <2>2 DEF Answer, AnswerDoesNotFit, PacketFailed
  <2>4. p \in Packets /\ x \in Packets
    <3>1. p \in Packets
      BY <2>1, OneConnectionTypes, HeadTailType
    <3> QED
      BY <3>1, SmallNumbers, PacketType DEF Packets, PacketTypes
  <2>5. Plain(x)
    BY <2>4, KeysAre DEF Asking, Packet, Plain
  <2>6. SameKeys
    <3>1. PICK i, state : i = AddedAt /\ state = "SENDING_PUBACK"
      OBVIOUS
    <3>2. i \in Slots /\ SlotKey(i) = NoKey
      BY <1>0, <2>1, <2>4, <3>1, KeptSlot
    <3>3. ASSUME NEW j \in Slots
          PROVE  mqtt_req_queue_update(Kept(p, state), state, AddedAt).requests[j] =
                   IF j = AddedAt
                   THEN [ packet_id |-> p.id, context |-> p.body,
                          conv_state |-> get_next_conv_state(state) ]
                   ELSE req_queue.requests[j]
      <4>1. Inv /\ p \in Packets /\ ~Discarded(p)
            /\ state \in {"SENDING_PUBACK", "SENDING_PUBREC"}
        BY <1>0, <2>1, <2>4, <3>1
      <4> QED
        BY <4>1, KeptSlotMoves
    <3>4. \A j \in Slots : req_queue'.requests[j] =
            IF j = i
            THEN [ packet_id |-> p.id, context |-> p.body,
                   conv_state |-> get_next_conv_state("SENDING_PUBACK") ]
            ELSE req_queue.requests[j]
      BY <2>3, <3>1, <3>3
    <3>5. StateAt(i)' = "NO_REQUEST"
      BY <3>2, <3>4 DEF StateAt, get_next_conv_state
    <3>6. SlotKey(i)' = NoKey
      BY <3>5, KeysAre DEF SlotKey
    <3> QED
      BY <3>2, <3>4, <3>6 DEF SameKeys, SlotKey, StateAt, IdAt
  <2> HIDE DEF x, q
  <2>7. /\ Arriving # <<>> /\ Head(Arriving) = p /\ Arriving' = Tail(Arriving)
        /\ Owed' = Owed /\ (BrokerThere' => BrokerThere)
        /\ Out' = Append(Out, x)
    BY <2>1, <2>3, <2>4, Handling, ClientPlaces
  <2> QED
    BY <2>1, <2>4, <2>5, <2>6, <2>7, KeylessTidy
<1> QED
  BY <1>2, <1>3, <1>4, <1>5

\* The places after a step.
LEMMA PlacesNext ==
  /\ Keys' = KeysOf(Out', Owed', Arriving')
  /\ OnePlace(Out', Owed', Arriving') /\ Matched' => Tidy'
  /\ Elements(Out)' = Elements(Out') /\ Elements(Arriving)' = Elements(Arriving')
BY DEF Keys, KeysOf, KeysIn, Elements, KeyUp, KeyDown, Tidy, OnePlace, Once, OnceIn

\* A key is a slot's, or that of a message about to be kept.
LEMMA KeysHaveSlots ==
  ASSUME Apart, OneConnection, Matched, NEW k \in Keys
  PROVE  /\ k # NoKey
         /\ (\E i \in Slots : SlotKey(i) = k) \/ (\E id \in PacketIds : k = Opening(id))
<1>1. k # NoKey
  BY DEF Keys, KeysOf, KeysIn
<1>2. CASE k \in KeysIn(Elements(Out), KeyUp)
  <2>1. PICK p \in Elements(Out) : k = KeyUp[p]
    BY <1>2 DEF KeysIn
  <2> QED
    BY <1>1, <2>1 DEF Matched, HasAsked, Plain
<1>3. CASE k \in KeysIn(Owed, KeyDown) \cup KeysIn(Elements(Arriving), KeyDown)
  <2>1. PICK p \in Owed \cup Elements(Arriving) : k = KeyDown[p]
    BY <1>3 DEF KeysIn
  <2>2. p \in Packets /\ p.id \in PacketIds
    BY PlaceTypes DEF Packets
  <2>3. CASE p.type \in AckTypes
    BY <1>1, <2>1, <2>3 DEF Matched, WillAnswer
  <2>4. CASE p.type \notin AckTypes
    BY <1>1, <2>1, <2>2, <2>4, NoAckNoSlot
  <2> QED
    BY <2>3, <2>4
<1> QED
  BY <1>1, <1>2, <1>3 DEF Keys, KeysOf

\* A request is new: its id is not that of another one.
LEMMA RequestTidy ==
  ASSUME Apart, OneConnection, Tidy, Open, PacketIdsDiffer', requests < MaxRequests,
         NEW type \in PacketTypes, NEW qos \in 0 .. 2, NEW state \in RequestStates,
         Key(state, 1) = Key(Asking(Packet(type, 1, 0, qos)), 1),
         Request(type, qos, state)
  PROVE  Tidy'
<1> DEFINE req == [ packet_id |-> last_packet_id', context |-> requests + 1,
                    conv_state |-> state ]
<1> PICK x : x = Packet(type, last_packet_id', requests + 1, qos)
  OBVIOUS
<1>0. /\ Inv /\ Matched /\ OnePlace(Out, Owed, Arriving)
      /\ Out \in Seq(Packets) /\ Owed \in SUBSET Packets /\ Arriving \in Seq(Packets)
      /\ Elements(Out) \subseteq Packets /\ Elements(Arriving) \subseteq Packets
  BY PlaceTypes DEF Apart, Tidy
<1>1. /\ last_packet_id' \in 1 .. MaxPacketId /\ last_packet_id' \in PacketIds
      /\ last_packet_id' # 0 /\ x \in Packets
  <2>1. last_packet_id' \in 1 .. MaxPacketId
    BY <1>0, PacketIdType DEF Request, Inv, TypeOK, ClientTypeOK
  <2>2. requests + 1 \in Contexts
    <3>1. requests \in 0 .. MaxRequests
      BY <1>0 DEF Inv, TypeOK, ClientTypeOK
    <3> QED
      BY <3>1, ClientAssumption, SmallNumbers
  <2> QED
    BY <2>1, <2>2, SmallNumbers, PacketType, ClientAssumption
<1>2. KeyUp[x] = << state, last_packet_id' >> /\ state # "NO_REQUEST"
  <2>1. Asking(x) = Asking(Packet(type, 1, 0, qos))
    BY DEF Asking, Packet
  <2>2. state # "NO_REQUEST"
    BY DEF RequestStates
  <2>3. Asking(x) = state
    BY <2>1, <2>2 DEF Key
  <2> QED
    BY <1>1, <2>2, <2>3, KeysAre DEF Packet
<1>3. PICK i : i = FirstSlot(FreeSlots(req_queue))
  OBVIOUS
<1>4. /\ i \in Slots /\ SlotKey(i) = NoKey
      /\ \A j \in Slots : req_queue'.requests[j] = IF j = i THEN req ELSE req_queue.requests[j]
  BY <1>0, <1>3, AddedSlot DEF Request
<1>5. /\ Out' = Append(Out, x) /\ Owed' = Owed /\ Arriving' = Arriving
      /\ (BrokerThere' => BrokerThere)
  <2>1. Send(x) /\ UNCHANGED <<brokerVars, rx>>
    BY DEF Request, rxVars
  <2> QED
    BY <1>1, <2>1, ClientPlaces, ArrivingMoves
<1> DEFINE k == << state, last_packet_id' >>
<1>6. /\ SlotKey(i)' = k /\ StateAt(i)' = state /\ IdAt(i)' = last_packet_id'
      /\ ContextAt(i)' = requests + 1
  BY <1>2, <1>4, KeysAre DEF SlotKey, StateAt, IdAt, ContextAt
<1>7. \A j \in Slots \ {i} : SlotKey(j) # k
  <2> SUFFICES ASSUME NEW j \in Slots \ {i}, SlotKey(j) = k
               PROVE  FALSE
    OBVIOUS
  <2>1. StateAt(j) = state /\ IdAt(j) = last_packet_id'
    BY <1>2 DEF SlotKey, Key
  <2>2. /\ req_queue'.requests[j].conv_state = state
        /\ req_queue'.requests[j].packet_id = last_packet_id'
        /\ req_queue'.requests[i].conv_state = state
        /\ req_queue'.requests[i].packet_id = last_packet_id'
    BY <1>4, <2>1 DEF StateAt, IdAt
  <2> QED
    BY <1>2, <1>4, <2>2 DEF PacketIdsDiffer, BusySlots
<1>8. k \notin Keys /\ k # NoKey /\ \A id : Opening(id) # k
  <2>1. k # NoKey /\ \A id : Opening(id) # k
    BY <1>2 DEF Opening, NoKey, RequestStates
  <2> QED
    BY <1>0, <1>4, <1>7, <2>1, KeysHaveSlots
<1> HIDE DEF k
<1>9. /\ OnePlace(Out', Owed', Arriving') /\ Keys' = Keys \cup {k}
      /\ Elements(Out)' = Elements(Out) \cup {x}
      /\ Elements(Arriving)' = Elements(Arriving)
  <2>1. /\ OnePlace(Append(Out, x), Owed, Arriving)
        /\ KeysOf(Append(Out, x), Owed, Arriving) = Keys \cup ({KeyUp[x]} \ {NoKey})
    BY <1>0, <1>1, <1>2, <1>8, OutGrows DEF Keys, k
  <2>2. Elements(Append(Out, x)) = Elements(Out) \cup {x}
    BY <1>0, <1>1, ElementsParts
  <2>3. KeyUp[x] = k
    BY <1>2 DEF k
  <2>4. /\ Elements(Out)' = Elements(Out) \cup {x}
        /\ Elements(Arriving)' = Elements(Arriving)
    BY <1>5, <2>2, PlacesNext
  <2>5. Keys' = Keys \cup {k} /\ OnePlace(Out', Owed', Arriving')
    BY <1>5, <1>8, <2>1, <2>3, PlacesNext
  <2> QED
    BY <2>4, <2>5
<1>10. HasAsked(x)'
  BY <1>2, <1>4, <1>6, <1>8 DEF HasAsked, k, Packet
<1>11. \A p \in Elements(Out)' :
         \/ p \in Elements(Out) /\ (KeyUp[p] = SlotKey(i) => KeyUp[p] = NoKey)
         \/ HasAsked(p)'
  BY <1>4, <1>9, <1>10
<1>12. \A p \in (Owed \cup Elements(Arriving))' :
         p \in Owed \cup Elements(Arriving) /\ (p.type \in AckTypes => KeyDown[p] # SlotKey(i))
  BY <1>0, <1>4, <1>5, <1>9, KeysAre
<1>13. \A j \in Slots : Releasable(j) => Opening(IdAt(j)) \notin Keys'
  BY <1>0, <1>8, <1>9 DEF Matched
<1>14. ~Releasable(i)'
  BY <1>6 DEF Releasable, RequestStates
<1>15. Matched'
  BY <1>0, <1>1, <1>4, <1>5, <1>6, <1>7, <1>9, <1>11, <1>12, <1>13, <1>14, MatchedMoves
<1> QED
  BY <1>9, <1>15, PlacesNext

\* The answer a slot waited for comes: the slot is free.
LEMMA AnswerComesTidy ==
  ASSUME Apart, OneConnection, Tidy, Open, UNCHANGED brokerVars, rx # <<>>, PacketDone,
         UNCHANGED conn \/ \E x \in Packets : Plain(x) /\ Send(x),
         Head(rx).type \in AckTypes,
         NEW i \in Slots, SlotKey(i) = KeyDown[Head(rx)], StateAt(i)' = "NO_REQUEST",
         \A j \in Slots \ {i} : req_queue'.requests[j] = req_queue.requests[j]
  PROVE  Tidy'
<1> DEFINE k == KeyDown[Head(rx)]
<1>0. /\ Matched /\ OnePlace(Out, Owed, Arriving)
      /\ Out \in Seq(Packets) /\ Owed \in SUBSET Packets /\ Arriving \in Seq(Packets)
  BY PlaceTypes DEF Tidy
<1>1. /\ Arriving # <<>> /\ Head(Arriving) = Head(rx) /\ Head(rx) \in Packets
      /\ Arriving' = Tail(Arriving) /\ Owed' = Owed /\ (BrokerThere' => BrokerThere)
  BY Handling
<1>2. k # NoKey
  BY <1>1, KeysAre
<1>3. Out' = Out \/ \E x \in Packets : Plain(x) /\ Out' = Append(Out, x)
  BY ClientPlaces
<1>4. /\ Out' \in Seq(Packets) /\ OnePlace(Out', Owed, Arriving)
      /\ KeysOf(Out', Owed, Arriving) = Keys
      /\ \A p \in Elements(Out)' :
           p \in Elements(Out) \/ (p \in Packets /\ Plain(p))
  BY <1>3, KeylessOut
<1>5. /\ OnePlace(Out', Owed', Arriving') /\ Keys' = Keys \ {k}
      /\ Elements(Arriving)' \subseteq Elements(Arriving)
  <2>1. /\ OnePlace(Out', Owed, Tail(Arriving))
        /\ KeysOf(Out', Owed, Tail(Arriving)) = Keys \ {k}
    BY <1>0, <1>1, <1>4, InShrinks
  <2>2. Elements(Tail(Arriving)) \subseteq Elements(Arriving)
    BY <1>0, <1>1, ElementsParts
  <2> QED
    BY <1>1, <2>1, <2>2, PlacesNext
<1>6. SlotKey(i)' = NoKey
  BY KeysAre DEF SlotKey
<1> HIDE DEF k
<1>7. \A p \in Elements(Out)' : KeyUp[p] # k
  <2>1. \A p \in Elements(Out') : KeyUp[p] = NoKey \/ KeyUp[p] \in KeysOf(Out', Owed', Arriving')
    BY DEF KeysOf, KeysIn
  <2> QED
    BY <1>2, <1>5, <2>1, PlacesNext
<1>8. \A p \in (Owed \cup Elements(Arriving))' : KeyDown[p] # k
  <2>1. \A p \in Owed' \cup Elements(Arriving') :
          KeyDown[p] = NoKey \/ KeyDown[p] \in KeysOf(Out', Owed', Arriving')
    BY DEF KeysOf, KeysIn
  <2> QED
    BY <1>2, <1>5, <2>1, PlacesNext
<1>9. \A p \in Elements(Out)' :
        \/ p \in Elements(Out) /\ (KeyUp[p] = SlotKey(i) => KeyUp[p] = NoKey)
        \/ HasAsked(p)'
  <2>1. \A p : Plain(p) => HasAsked(p)' /\ KeyUp[p] = NoKey
    BY DEF HasAsked, Plain
  <2> QED
    BY <1>4, <1>7, <2>1 DEF k
<1>10. \A p \in (Owed \cup Elements(Arriving))' :
         p \in Owed \cup Elements(Arriving) /\ (p.type \in AckTypes => KeyDown[p] # SlotKey(i))
  BY <1>1, <1>5, <1>8 DEF k
<1>11. \A j \in Slots \ {i} : SlotKey(j) \in Keys => SlotKey(j) \in Keys'
  BY <1>0, <1>2, <1>5 DEF Matched, SlotKeysDiffer, k
<1>12. \A j \in Slots : Releasable(j) => Opening(IdAt(j)) \notin Keys'
  BY <1>0, <1>5 DEF Matched
<1>13. ~Releasable(i)' /\ StateAt(i)' \notin RequestStates
  BY DEF Releasable, RequestStates
<1>14. Matched'
  BY <1>0, <1>1, <1>6, <1>9, <1>10, <1>11, <1>12, <1>13, MatchedMoves
<1> QED
  BY <1>5, <1>14, PlacesNext

\* The last acknowledgement of a request, and the release of a message.
LEMMA LastAckTidy ==
  ASSUME Apart, OneConnection, Tidy, Open, Open',
         HandlePuback \/ HandlePubcomp \/ HandleSuback \/ HandleUnsuback \/ HandlePubrel
  PROVE  Tidy'
<1> PICK p : p = Head(rx)
  OBVIOUS
<1>0. Inv
  BY DEF Apart
<1>1. /\ UNCHANGED <<brokerVars, pcb>> /\ rx # <<>> /\ Found(p) # {}
      /\ p.type \in AckTypes \ {"PUBREC"}
      /\ HandlePubrel => p.type = "PUBREL"
      /\ ~HandlePubrel => p.type # "PUBREL"
  BY DEF HandlePuback, HandlePubcomp, HandleSuback, HandleUnsuback, HandlePubrel,
     HandleLastAck, Receiving, AckTypes, Answer, AnswerDoesNotFit, linkVars
<1>2. PICK i : i = FirstSlot(Found(p))
  OBVIOUS
<1>3. p \in Packets
  BY <1>1, OneConnectionTypes, HeadTailType
<1>4. /\ i \in Slots /\ SlotKey(i) = KeyDown[p]
  BY <1>0, <1>1, <1>2, <1>3, FoundSlot
<1>5. req_queue.requests[i] \in Requests
  BY <1>0, <1>4 DEF Inv, TypeOK, ClientTypeOK, QueueOf
<1>6. CASE HandlePuback \/ HandlePubcomp \/ HandleSuback \/ HandleUnsuback
  <2>1. /\ req_queue' = FindRequest(p) /\ UNCHANGED conn /\ PacketDone
        /\ p.type # "PUBREL"
    BY <1>6 DEF HandlePuback, HandlePubcomp, HandleSuback, HandleUnsuback,
       HandleLastAck, Receiving
  <2>2. get_next_conv_state(Awaited(p.type)) = "NO_REQUEST"
    BY <1>1, <2>1 DEF AckTypes, Awaited, get_next_conv_state
  <2>3. \A j \in Slots : req_queue'.requests[j] =
          IF j = i THEN [req_queue.requests[j] EXCEPT !.conv_state = "NO_REQUEST"]
          ELSE req_queue.requests[j]
    BY <1>0, <1>1, <1>2, <1>3, <2>1, <2>2, FoundSlotFound
  <2>4. /\ StateAt(i)' = "NO_REQUEST"
        /\ \A j \in Slots \ {i} : req_queue'.requests[j] = req_queue.requests[j]
    BY <1>4, <1>5, <2>3 DEF StateAt, Requests
  <2> QED
    BY <1>1, <1>4, <2>1, <2>4, AnswerComesTidy
<1>7. CASE HandlePubrel
  <2> DEFINE x == Packet("PUBCOMP", p.id, 0, 0)
  <2>1. \/ Answer(FindRequest(p), FirstSlot(Found(p)), "SENDING_PUBCOMP", x)
        \/ AnswerDoesNotFit(FindRequest(p))
    BY <1>7 DEF HandlePubrel
  <2>2. ~Close
    BY <1>1, ClientAges DEF ClientWrites
  <2>3. /\ req_queue' = mqtt_req_queue_update(FindRequest(p), "SENDING_PUBCOMP", i)
        /\ Send(x) /\ PacketDone
    BY <1>2, <2>1, <2>2 DEF Answer, AnswerDoesNotFit, PacketFailed
  <2>4. x \in Packets
    BY <1>3, SmallNumbers, PacketType DEF Packets, PacketTypes
  <2>5. Plain(x)
    BY <2>4, KeysAre DEF Asking, Packet, Plain
  <2>6. get_next_conv_state("SENDING_PUBCOMP") = "NO_REQUEST"
    BY DEF get_next_conv_state
  <2>7. \A j \in Slots : req_queue'.requests[j] =
          IF j = i THEN [req_queue.requests[j] EXCEPT !.conv_state = "NO_REQUEST"]
          ELSE req_queue.requests[j]
    <3>1. \A j \in Slots :
            mqtt_req_queue_update(FindRequest(p), "SENDING_PUBCOMP", i).requests[j] =
              IF j = i
              THEN [req_queue.requests[j] EXCEPT
                      !.conv_state = get_next_conv_state("SENDING_PUBCOMP")]
              ELSE req_queue.requests[j]
      <4> PICK state : state = "SENDING_PUBCOMP"
        OBVIOUS
      <4> TAKE j \in Slots
      <4>1. mqtt_req_queue_update(FindRequest(p), state, i).requests[j] =
              IF j = i
              THEN [req_queue.requests[j] EXCEPT !.conv_state = get_next_conv_state(state)]
              ELSE req_queue.requests[j]
        <5>1. p.type \in AckTypes /\ Found(p) # {}
          BY <1>1
        <5> QED
          BY <1>0, <1>2, <1>3, <5>1, FoundSlotMoves
      <4> QED
        BY <4>1
    <3> QED
      BY <2>3, <2>6, <3>1
  <2>8. /\ StateAt(i)' = "NO_REQUEST"
        /\ \A j \in Slots \ {i} : req_queue'.requests[j] = req_queue.requests[j]
    BY <1>4, <1>5, <2>7 DEF StateAt, Requests
  <2> HIDE DEF x
  <2> QED
    BY <1>1, <1>4, <2>3, <2>4, <2>5, <2>8, AnswerComesTidy
<1> QED
  BY <1>6, <1>7

\* A packet is answered with one that waits for an answer itself: the slot's key
\* is that of the answer.
LEMMA GoesOnTidy ==
  ASSUME Apart, OneConnection, Tidy, Open, UNCHANGED brokerVars, rx # <<>>, PacketDone,
         NEW k, k = KeyDown[Head(rx)], k # NoKey,
         NEW x \in Packets, Send(x), KeyUp[x] # NoKey, KeyUp[x] \notin Keys,
         \A id : Opening(id) # KeyUp[x],
         NEW i \in Slots, SlotKey(i) = k \/ SlotKey(i) = NoKey, SlotKey(i)' = KeyUp[x],
         x.type # "PUBREC" => ContextAt(i)' = x.body,
         Releasable(i)' => Opening(IdAt(i)') = k,
         StateAt(i)' \in RequestStates => IdAt(i)' # 0,
         \A j \in Slots \ {i} : /\ req_queue'.requests[j] = req_queue.requests[j]
                                /\ SlotKey(j) # KeyUp[x] /\ SlotKey(j) # k
  PROVE  Tidy'
<1>0. /\ Matched /\ OnePlace(Out, Owed, Arriving)
      /\ Out \in Seq(Packets) /\ Owed \in SUBSET Packets /\ Arriving \in Seq(Packets)
      /\ Elements(Arriving) \subseteq Packets
  BY PlaceTypes DEF Tidy
<1>1. /\ Arriving # <<>> /\ Head(Arriving) = Head(rx) /\ Head(rx) \in Packets
      /\ Arriving' = Tail(Arriving) /\ Owed' = Owed /\ (BrokerThere' => BrokerThere)
  BY Handling
<1>2. Out' = Append(Out, x)
  BY ClientPlaces
<1>3. /\ OnePlace(Out', Owed, Arriving) /\ KeysOf(Out', Owed, Arriving) = Keys \cup {KeyUp[x]}
  <2>1. /\ OnePlace(Append(Out, x), Owed, Arriving)
        /\ KeysOf(Append(Out, x), Owed, Arriving) = Keys \cup ({KeyUp[x]} \ {NoKey})
    BY <1>0, OutGrows DEF Keys
  <2> QED
    BY <1>2, <2>1
<1>4. OnePlace(Out', Owed', Arriving') /\ Keys' = (Keys \cup {KeyUp[x]}) \ {k}
  <2>1. /\ OnePlace(Out', Owed, Tail(Arriving))
        /\ KeysOf(Out', Owed, Tail(Arriving)) = (Keys \cup {KeyUp[x]}) \ {k}
    BY <1>0, <1>1, <1>3, InShrinks
  <2> QED
    BY <1>1, <2>1, PlacesNext
<1>5. /\ Elements(Out)' = Elements(Out) \cup {x}
      /\ Elements(Arriving)' \subseteq Elements(Arriving)
  <2>1. /\ Elements(Append(Out, x)) = Elements(Out) \cup {x}
        /\ Elements(Tail(Arriving)) \subseteq Elements(Arriving)
    BY <1>0, <1>1, ElementsParts
  <2> QED
    BY <1>1, <1>2, <2>1, PlacesNext
<1>6. k \in Keys /\ KeyUp[x] # k
  <2>1. KeyDown[Head(Arriving)] # NoKey =>
          KeyDown[Head(Arriving)] \in KeysOf(Out, Owed, Arriving)
    BY <1>0, <1>1, InShrinks
  <2> QED
    BY <1>1, <2>1 DEF Keys
<1>7. \A p \in Elements(Out)' : KeyUp[p] # k
  <2>1. \A p \in Elements(Out') : KeyUp[p] = NoKey \/ KeyUp[p] \in KeysOf(Out', Owed', Arriving')
    BY DEF KeysOf, KeysIn
  <2> QED
    BY <1>4, <2>1, PlacesNext
<1>8. \A p \in (Owed \cup Elements(Arriving))' : KeyDown[p] # k
  <2>1. \A p \in Owed' \cup Elements(Arriving') :
          KeyDown[p] = NoKey \/ KeyDown[p] \in KeysOf(Out', Owed', Arriving')
    BY DEF KeysOf, KeysIn
  <2> QED
    BY <1>4, <2>1, PlacesNext
<1>9. \A p \in Elements(Out)' :
        \/ p \in Elements(Out) /\ (KeyUp[p] = SlotKey(i) => KeyUp[p] = NoKey)
        \/ HasAsked(p)'
  <2>1. HasAsked(x)'
    BY DEF HasAsked
  <2> QED
    BY <1>5, <1>7, <2>1
<1>10. \A p \in (Owed \cup Elements(Arriving))' :
         p \in Owed \cup Elements(Arriving) /\ (p.type \in AckTypes => KeyDown[p] # SlotKey(i))
  BY <1>0, <1>1, <1>5, <1>8, KeysAre
<1>11. \A j \in Slots \ {i} : SlotKey(j) \in Keys => SlotKey(j) \in Keys'
  BY <1>4
<1>12. /\ \A j \in Slots \ {i} : Releasable(j) => Opening(IdAt(j)) \notin Keys'
       /\ Releasable(i)' => Opening(IdAt(i)') \notin Keys'
  BY <1>0, <1>4 DEF Matched
<1>13. SlotKey(i)' \in Keys'
  BY <1>4, <1>6
<1>14. Matched'
  BY <1>0, <1>1, <1>9, <1>10, <1>11, <1>12, <1>13, MatchedMoves
<1> QED
  BY <1>4, <1>14, PlacesNext

\* PUBREC is answered with PUBREL: the id is not that of another request.
LEMMA PubrecTidy ==
  ASSUME Apart, OneConnection, Tidy, Open, Open', PacketIdsDiffer, HandlePubrec
  PROVE  Tidy'
<1> PICK p : p = Head(rx)
  OBVIOUS
<1> PICK i : i = FirstSlot(Found(p))
  OBVIOUS
<1> PICK x : x = Packet("PUBREL", p.id, ContextOf(p), 0)
  OBVIOUS
<1> PICK k2 : k2 = << "WAITING_FOR_PUBCOMP", p.id >>
  OBVIOUS
<1>0. Inv /\ Matched
  BY DEF Apart, Tidy
<1>1. /\ UNCHANGED <<brokerVars, pcb>> /\ rx # <<>> /\ Found(p) # {}
      /\ p.type = "PUBREC" /\ p.type \in AckTypes
  BY DEF HandlePubrec, Receiving, AckTypes, Answer, AnswerDoesNotFit, linkVars
<1>2. p \in Packets
  BY <1>1, OneConnectionTypes, HeadTailType
<1>3. /\ i \in Slots /\ SlotKey(i) = KeyDown[p] /\ IdAt(i) = p.id
      /\ StateAt(i) = "WAITING_FOR_PUBREC" /\ ContextAt(i) = ContextOf(p)
  BY <1>0, <1>1, <1>2, FoundSlot DEF Awaited
<1>4. /\ req_queue' = mqtt_req_queue_update(FindRequest(p), "SENDING_PUBREL", i)
      /\ Send(x) /\ PacketDone
  <2>1. ~Close
    BY <1>1, ClientAges DEF ClientWrites
  <2>2. \/ Answer(FindRequest(p), FirstSlot(Found(p)), "SENDING_PUBREL", x)
        \/ AnswerDoesNotFit(FindRequest(p))
    BY DEF HandlePubrec
  <2> QED
    BY <2>1, <2>2 DEF Answer, AnswerDoesNotFit, PacketFailed
<1>5. x \in Packets
  <2>1. ContextOf(p) \in Contexts
    BY <1>0, <1>1, <1>2, FoundType
  <2> QED
    BY <1>2, <2>1, PacketType DEF Packets, PacketTypes
<1>6. KeyUp[x] = k2 /\ KeyUp[x] # NoKey /\ \A id : Opening(id) # KeyUp[x]
  <2>1. Asking(x) = "WAITING_FOR_PUBCOMP" /\ x.id = p.id
    BY DEF Asking, Packet
  <2> QED
    BY <1>5, <2>1, KeysAre DEF Opening, NoKey
<1>7. KeyDown[p] # NoKey /\ KeyDown[p] = << "WAITING_FOR_PUBREC", p.id >>
  BY <1>1, <1>2, KeysAre DEF Awaited
<1>8. \A j \in Slots : req_queue'.requests[j] =
        IF j = i THEN [req_queue.requests[j] EXCEPT !.conv_state = "WAITING_FOR_PUBCOMP"]
        ELSE req_queue.requests[j]
  <2> TAKE j \in Slots
  <2>1. PICK state : state = "SENDING_PUBREL"
    OBVIOUS
  <2>2. mqtt_req_queue_update(FindRequest(p), state, i).requests[j] =
          IF j = i
          THEN [req_queue.requests[j] EXCEPT !.conv_state = get_next_conv_state(state)]
          ELSE req_queue.requests[j]
    <3>1. p.type \in AckTypes /\ Found(p) # {}
      BY <1>1
    <3> QED
      BY <1>0, <1>2, <3>1, FoundSlotMoves
  <2>3. get_next_conv_state(state) = "WAITING_FOR_PUBCOMP"
    BY <2>1 DEF get_next_conv_state
  <2> QED
    BY <1>4, <2>1, <2>2, <2>3
<1>9. req_queue.requests[i] \in Requests
  BY <1>0, <1>3 DEF Inv, TypeOK, ClientTypeOK, QueueOf
<1>10. /\ StateAt(i)' = "WAITING_FOR_PUBCOMP" /\ IdAt(i)' = p.id
       /\ ContextAt(i)' = ContextOf(p)
  BY <1>3, <1>8, <1>9 DEF StateAt, IdAt, ContextAt, Requests
<1>11. SlotKey(i)' = k2
  BY <1>10, KeysAre DEF SlotKey
<1>12. \A j \in Slots \ {i} : SlotKey(j) # k2 /\ SlotKey(j) # KeyDown[p]
  <2> SUFFICES ASSUME NEW j \in Slots \ {i}, SlotKey(j) \in {k2, KeyDown[p]}
               PROVE  FALSE
    OBVIOUS
  <2>1. StateAt(j) \in {"WAITING_FOR_PUBREC", "WAITING_FOR_PUBCOMP"} /\ IdAt(j) = p.id
    BY <1>7 DEF SlotKey, Key
  <2> QED
    BY <1>3, <2>1 DEF PacketIdsDiffer, BusySlots, StateAt, IdAt, RequestStates
<1>13. k2 \notin Keys
  <2>1. SlotKey(i) # k2
    BY <1>3, <1>7
  <2> QED
    BY <1>0, <1>6, <1>12, <2>1, KeysHaveSlots
<1>14. IdAt(i)' # 0 /\ ~Releasable(i)'
  BY <1>0, <1>3, <1>10 DEF Matched, RequestStates, Releasable
<1>15. ContextAt(i)' = x.body
  BY <1>10 DEF Packet
<1>16. \A j \in Slots \ {i} : /\ req_queue'.requests[j] = req_queue.requests[j]
                              /\ SlotKey(j) # KeyUp[x] /\ SlotKey(j) # KeyDown[p]
  BY <1>6, <1>8, <1>12
<1> QED
  BY <1>1, <1>3, <1>4, <1>5, <1>6, <1>7, <1>11, <1>13, <1>14, <1>15, <1>16, GoesOnTidy

\* A message kept is answered with PUBREC: no other one is kept under its id.
LEMMA PublishQos2Tidy ==
  ASSUME Apart, OneConnection, Tidy, Open, Open', HandlePublishQos2
  PROVE  Tidy'
<1> PICK p : p = Head(rx)
  OBVIOUS
<1> PICK i : i = AddedAt
  OBVIOUS
<1> PICK x : x = Packet("PUBREC", p.id, 0, 0)
  OBVIOUS
<1> PICK k2 : k2 = << "WAITING_FOR_PUBREL", p.id >>
  OBVIOUS
<1>0. Inv /\ Matched /\ Arriving \in Seq(Packets) /\ OnePlace(Out, Owed, Arriving)
  BY PlaceTypes DEF Apart, Tidy
<1>1. /\ UNCHANGED <<brokerVars, pcb>> /\ rx # <<>> /\ ~Discarded(p)
      /\ p.type = "PUBLISH" /\ p.qos = 2 /\ p.type \notin AckTypes
  BY DEF HandlePublishQos2, Receiving, AckTypes, Answer, AnswerDoesNotFit, linkVars
<1>2. p \in Packets /\ p.id \in PacketIds
  <2>1. p \in Packets
    BY <1>1, OneConnectionTypes, HeadTailType
  <2> QED
    BY <2>1 DEF Packets
<1>3. /\ req_queue' = mqtt_req_queue_update(Kept(p, "SENDING_PUBREC"), "SENDING_PUBREC", i)
      /\ Send(x) /\ PacketDone
  <2>1. ~Close
    BY <1>1, ClientAges DEF ClientWrites
  <2>2. \/ Answer(Kept(p, "SENDING_PUBREC"), AddedAt, "SENDING_PUBREC", x)
        \/ AnswerDoesNotFit(Kept(p, "SENDING_PUBREC"))
    BY DEF HandlePublishQos2
  <2> QED
    BY <2>1, <2>2 DEF Answer, AnswerDoesNotFit, PacketFailed
<1>4. x \in Packets
  BY <1>2, SmallNumbers, PacketType DEF PacketTypes
<1>5. KeyUp[x] = k2 /\ KeyUp[x] # NoKey /\ \A id : Opening(id) # KeyUp[x]
  <2>1. Asking(x) = "WAITING_FOR_PUBREL" /\ x.id = p.id
    BY DEF Asking, Packet
  <2> QED
    BY <1>4, <2>1, KeysAre DEF Opening, NoKey
<1>6. KeyDown[p] = Opening(p.id) /\ KeyDown[p] # NoKey
  <2>1. KeyDown[p] = Opening(p.id)
    BY <1>1, <1>2, NoAckNoSlot
  <2> QED
    BY <2>1 DEF Opening, NoKey
<1>7. /\ i \in Slots /\ SlotKey(i) = NoKey
      /\ \A j \in Slots : req_queue'.requests[j] =
           IF j = i
           THEN [ packet_id |-> p.id, context |-> p.body,
                  conv_state |-> get_next_conv_state("SENDING_PUBREC") ]
           ELSE req_queue.requests[j]
  <2>1. PICK state : state = "SENDING_PUBREC"
    OBVIOUS
  <2>2. state \in {"SENDING_PUBACK", "SENDING_PUBREC"}
    BY <2>1
  <2>3. ~Discarded(p)
    BY <1>1
  <2>4. i \in Slots /\ SlotKey(i) = NoKey
    BY <1>0, <1>2, <2>3, KeptSlot
  <2>5. ASSUME NEW j \in Slots
        PROVE  mqtt_req_queue_update(Kept(p, state), state, AddedAt).requests[j] =
                 IF j = AddedAt
                 THEN [ packet_id |-> p.id, context |-> p.body,
                        conv_state |-> get_next_conv_state(state) ]
                 ELSE req_queue.requests[j]
    BY <1>0, <1>2, <2>2, <2>3, KeptSlotMoves
  <2> QED
    BY <1>3, <2>1, <2>4, <2>5
<1>8. StateAt(i)' = "WAITING_FOR_PUBREL" /\ IdAt(i)' = p.id
  BY <1>7 DEF StateAt, IdAt, get_next_conv_state
<1>9. SlotKey(i)' = k2
  BY <1>8, KeysAre DEF SlotKey
<1>10. KeyDown[p] \in Keys
  <2>1. Arriving # <<>> /\ Head(Arriving) = p
    BY <1>1, ArrivingMoves
  <2> QED
    BY <1>0, <1>6, <2>1, InShrinks DEF Keys
<1>11. \A j \in Slots : SlotKey(j) # k2
  <2> SUFFICES ASSUME NEW j \in Slots, SlotKey(j) = k2
               PROVE  FALSE
    OBVIOUS
  <2>1. StateAt(j) = "WAITING_FOR_PUBREL" /\ IdAt(j) = p.id
    BY DEF SlotKey, Key
  <2> QED
    BY <1>0, <1>6, <1>10, <2>1 DEF Matched, Releasable
<1>12. k2 \notin Keys
  BY <1>0, <1>5, <1>11, KeysHaveSlots
<1>13. \A j \in Slots : SlotKey(j) # KeyDown[p]
  BY <1>0, <1>2, <1>6, OpeningsAreNoSlots
<1>14. \A j \in Slots \ {i} : /\ req_queue'.requests[j] = req_queue.requests[j]
                              /\ SlotKey(j) # KeyUp[x] /\ SlotKey(j) # KeyDown[p]
  BY <1>5, <1>7, <1>11, <1>13
<1>15. x.type = "PUBREC" /\ StateAt(i)' \notin RequestStates /\ Opening(IdAt(i)') = KeyDown[p]
  BY <1>6, <1>8 DEF RequestStates, Packet
<1> QED
  BY <1>1, <1>3, <1>4, <1>5, <1>6, <1>7, <1>9, <1>12, <1>14, <1>15, GoesOnTidy

----
(***************************************************************************)
(* The connection opens; the network.                                      *)
(***************************************************************************)
\* On a new connection there is the CONNECT, and no slot waits.
LEMMA ConnectTidy ==
  ASSUME Apart, OneConnection, Surround, MQTTClient_connect
  PROVE  Tidy'
<1> DEFINE x == Packet("CONNECT", 0, 0, 0)
<1>0. /\ conn \in [Pcbs -> ConnRecords] /\ Pcbs = {0, 1} /\ Conns = {1}
  BY OneConnectionTypes
<1>1. /\ pcb' = 1 /\ conn[1].state = "unused"
      /\ UNCHANGED <<brokerVars, rx, req_queue>>
  BY <1>0, NewPcb DEF MQTTClient_connect, Unused, rxVars, queueVars
<1>2. /\ Idle /\ Owed = {} /\ rx = <<>>
  BY <1>1 DEF Surround, Idle
<1>3. /\ Out' = <<x>> /\ conn'[1].in = <<>>
  BY <1>0, <1>1 DEF MQTTClient_connect, Out
<1>4. Owed' = {} /\ Arriving' = <<>>
  <2>1. <<>> \o <<>> = <<>>
    OBVIOUS
  <2> QED
    BY <1>1, <1>2, <1>3, <2>1 DEF Owed, Arriving, brokerVars
<1>5. x \in Packets /\ Plain(x)
  <2>1. x \in Packets
    BY SmallNumbers, PacketType DEF PacketTypes
  <2> QED
    BY <2>1, KeysAre DEF Asking, Packet, Plain
<1>6. /\ Len(<<x>>) = 1 /\ <<x>>[1] = x /\ Len(<<>>) = 0
  OBVIOUS
<1>7. Elements(<<x>>) = {x} /\ Elements(<<>>) = {}
  <2>1. 1 .. 1 = {1} /\ 1 .. 0 = {}
    OBVIOUS
  <2> HIDE DEF x
  <2> QED
    BY <1>6, <2>1 DEF Elements
<1> HIDE DEF x
<1>8. KeysOf(<<x>>, {}, <<>>) = {}
  BY <1>5, <1>7 DEF KeysOf, KeysIn, Plain
<1>9. OnePlace(<<x>>, {}, <<>>)
  BY <1>5, <1>6, <1>7 DEF OnePlace, Once, OnceIn, KeysIn
<1>10. \A i \in Slots : SlotKey(i)' = NoKey
  BY <1>1, <1>2 DEF Idle, SlotKey, StateAt, IdAt
<1>11. \A i \in Slots : StateAt(i)' = "NO_REQUEST"
  BY <1>10, KeysAre DEF SlotKey
<1>12. Matched'
  <2>1. SlotKeysDiffer'
    BY <1>10 DEF SlotKeysDiffer
  <2>2. \A p \in Elements(Out)' : HasAsked(p)'
    BY <1>3, <1>5, <1>7, PlacesNext DEF HasAsked
  <2>3. \A p \in (Owed \cup Elements(Arriving))' : WillAnswer(p)'
    BY <1>4, <1>7, PlacesNext
  <2>4. \A i \in Slots : Releasable(i)' => Opening(IdAt(i)') \notin Keys'
    BY <1>11 DEF Releasable
  <2>5. \A i \in Slots : StateAt(i)' \in RequestStates => IdAt(i)' # 0
    BY <1>11 DEF RequestStates
  <2>6. \A i \in Slots : SlotKey(i)' # NoKey => SlotKey(i)' \in Keys'
    BY <1>10
  <2> QED
    BY <2>1, <2>2, <2>3, <2>4, <2>5, <2>6 DEF Matched
<1> QED
  BY <1>3, <1>4, <1>9, <1>12, PlacesNext

\* The network moves packets from the connection to the segment, or ends it.
LEMMA NetworkTidy ==
  ASSUME Apart, OneConnection, Tidy, Open, Open', NEW c \in Conns, Network(c)
  PROVE  Tidy'
<1>0. /\ conn \in [Pcbs -> ConnRecords] /\ Pcbs = {0, 1} /\ Conns = {1} /\ c = 1
      /\ conn[1] \in ConnRecords
  BY OneConnectionTypes
<1>1. UNCHANGED <<brokerVars, req_queue, pcb>>
  BY DEF Network, tcp_connected_cb, tcp_received_cb, tcp_received_cb_closed,
     DataAfterClose, tcp_error_cb, clientVars, queueVars, linkVars
<1>2. SameKeys /\ Owed' = Owed /\ (BrokerThere' => BrokerThere)
  BY <1>1, ClientPlaces DEF SameKeys, SlotKey, StateAt, IdAt
<1>3. ~tcp_received_cb_closed(c) /\ ~DataAfterClose(c) /\ ~tcp_error_cb(c)
  BY <1>0 DEF Open, tcp_received_cb_closed, DataAfterClose, tcp_error_cb, Aborted
<1>4. CASE tcp_connected_cb(c)
  <2>1. Out' = Out /\ conn'[1].in = conn[1].in /\ rx' = rx
    BY <1>0, <1>4 DEF tcp_connected_cb, Out, ConnRecords, clientVars, rxVars
  <2> QED
    BY <1>2, <2>1, ArrivingMoves, KeylessTidy
<1>5. CASE tcp_received_cb(c)
  <2>1. PICK n \in 1 .. Len(conn[1].in) :
          /\ rx' = SubSeq(conn[1].in, 1, n)
          /\ conn' = [conn EXCEPT ![1].in = SubSeq(conn[1].in, n + 1, Len(conn[1].in))]
    <3>1. Len(conn[1].in) \in Nat
      BY <1>0, LenProperties DEF ConnRecords
    <3>2. PICK n \in 1 .. MaxSeg :
            /\ n <= Len(conn[1].in)
            /\ rx' = SubSeq(conn[1].in, 1, n)
            /\ conn' = [conn EXCEPT ![1].in = SubSeq(conn[1].in, n + 1, Len(conn[1].in))]
      BY <1>0, <1>5 DEF tcp_received_cb
    <3>3. n \in 1 .. Len(conn[1].in)
      BY <3>1, <3>2, SmallNumbers
    <3> QED
      BY <3>2, <3>3
  <2>2. /\ Out' = Out /\ rx = <<>>
        /\ conn'[1].in = SubSeq(conn[1].in, n + 1, Len(conn[1].in))
    BY <1>0, <1>5, <2>1 DEF tcp_received_cb, Processing, Out, ConnRecords
  <2>3. Arriving' = Arriving
    BY <2>1, <2>2, ArrivingMoves
  <2> QED
    BY <1>2, <2>2, <2>3, KeylessTidy
<1> QED
  BY <1>3, <1>4, <1>5 DEF Network

\* A packet that fails closes the connection, and so does the application.
LEMMA FailedIsClosed ==
  ASSUME Apart, OneConnection, Open, Open'
  PROVE  /\ ~RequestNotFound /\ ~MQTTClient_disconnect
         /\ ~ConnectMemoryErr /\ ~ConnectTcpFailure
<1>1. ~RequestNotFound
  <2> SUFFICES ASSUME RequestNotFound
               PROVE  FALSE
    OBVIOUS
  <2>1. Close /\ pcb' = pcb
    BY DEF RequestNotFound, PacketFailed
  <2> QED
    BY <2>1, ClientAges DEF ClientWrites
<1>2. ~MQTTClient_disconnect
  <2> SUFFICES ASSUME MQTTClient_disconnect
               PROVE  FALSE
    OBVIOUS
  <2>1. pcb' = pcb
    BY DEF MQTTClient_disconnect
  <2> QED
    BY <2>1, ClientAges DEF ClientWrites
<1>3. ~ConnectMemoryErr
  BY DEF ConnectMemoryErr, Open, NULL
<1>4. ~ConnectTcpFailure
  <2>1. Unused = {}
    BY OneConnectionTypes DEF Unused, Open
  <2> QED
    BY <2>1 DEF ConnectTcpFailure
<1> QED
  BY <1>1, <1>2, <1>3, <1>4

----
(***************************************************************************)
(* The broker's steps.                                                     *)
(***************************************************************************)
\* What the broker sends arrives after all that is under way.
LEMMA BrokerMoves ==
  ASSUME Apart, OneConnection, Open, UNCHANGED clientVars
  PROVE  /\ UNCHANGED <<rx, req_queue>> /\ SameKeys
         /\ \A s : conn' = [conn EXCEPT ![1] = ToClient(conn[1], s)] =>
              Out' = Out /\ conn'[1].in = conn[1].in \o s
         /\ \A s : conn' = [conn EXCEPT ![1] = ToClient(Taken(1), s)] =>
              Out' = Tail(Out) /\ conn'[1].in = conn[1].in \o s
         /\ conn' = [conn EXCEPT ![1] = Taken(1)] =>
              Out' = Tail(Out) /\ conn'[1].in = conn[1].in
<1>0. /\ conn \in [Pcbs -> ConnRecords] /\ 1 \in Pcbs /\ conn[1] \in ConnRecords
      /\ conn[1].state # "freed"
  BY OneConnectionTypes DEF Open
<1>1. /\ Taken(1).state = conn[1].state /\ Taken(1).in = conn[1].in
      /\ Taken(1).out = Tail(Out) /\ Taken(1) = [conn[1] EXCEPT !.out = Tail(conn[1].out)]
  BY <1>0 DEF Taken, ConnRecords, Out
<1>2. \A s : /\ ToClient(conn[1], s).in = conn[1].in \o s
             /\ ToClient(conn[1], s).out = Out
  BY <1>0 DEF ToClient, ConnRecords, Out
<1>3. \A s : /\ ToClient(Taken(1), s).in = conn[1].in \o s
             /\ ToClient(Taken(1), s).out = Tail(Out)
  BY <1>0, <1>1 DEF ToClient, ConnRecords, Out
<1>4. UNCHANGED <<rx, req_queue>> /\ SameKeys
  BY DEF clientVars, queueVars, rxVars, SameKeys, SlotKey, StateAt, IdAt
<1>5. \A n : conn' = [conn EXCEPT ![1] = n] => Out' = n.out /\ conn'[1].in = n.in
  BY <1>0 DEF Out
<1>6. ASSUME NEW s, conn' = [conn EXCEPT ![1] = ToClient(conn[1], s)]
      PROVE  Out' = Out /\ conn'[1].in = conn[1].in \o s
  BY <1>2, <1>5, <1>6
<1>7. ASSUME NEW s, conn' = [conn EXCEPT ![1] = ToClient(Taken(1), s)]
      PROVE  Out' = Tail(Out) /\ conn'[1].in = conn[1].in \o s
  BY <1>3, <1>5, <1>7
<1>8. ASSUME conn' = [conn EXCEPT ![1] = Taken(1)]
      PROVE  Out' = Tail(Out) /\ conn'[1].in = conn[1].in
  BY <1>1, <1>5, <1>8
<1> QED
  BY <1>4, <1>6, <1>7, <1>8

\* Two packets sent at once are sent one after the other.
LEMMA PairIsConcat ==
  ASSUME NEW y \in Packets, NEW z \in Packets
  PROVE  /\ <<y, z>> = <<y>> \o <<z>> /\ <<y>> \in Seq(Packets) /\ <<z>> \in Seq(Packets)
         /\ <<y, z>> \in Seq(Packets)
<1>1. PICK u, v, w : u = <<y>> /\ v = <<z>> /\ w = <<y, z>>
  OBVIOUS
<1>2. /\ u \in Seq(Packets) /\ Len(u) = 1 /\ u[1] = y
      /\ v \in Seq(Packets) /\ Len(v) = 1 /\ v[1] = z
  BY <1>1
<1>3. w \in Seq(Packets) /\ Len(w) = 2 /\ w[1] = y /\ w[2] = z
  BY <1>1
<1>4. /\ u \o v \in Seq(Packets) /\ Len(u \o v) = 2
      /\ (u \o v)[1] = y /\ (u \o v)[2] = z
  <2>1. /\ u \o v \in Seq(Packets) /\ Len(u \o v) = Len(u) + Len(v)
        /\ \A k \in 1 .. Len(u) + Len(v) :
             (u \o v)[k] = IF k <= Len(u) THEN u[k] ELSE v[k - Len(u)]
    BY <1>2, ConcatProperties
  <2>2. /\ 1 \in 1 .. 1 + 1 /\ 2 \in 1 .. 1 + 1 /\ 1 <= 1 /\ ~(2 <= 1) /\ 2 - 1 = 1
    OBVIOUS
  <2> QED
    BY <1>2, <2>1, <2>2
<1>5. w = u \o v
  <2>1. \A k \in 1 .. 2 : k = 1 \/ k = 2
    OBVIOUS
  <2> QED
    BY <1>3, <1>4, <2>1, SeqEqual
<1> QED
  BY <1>1, <1>2, <1>3, <1>5

\* A key that is let go is not missed once the broker is not there.
LEMMA LetGoTidy ==
  ASSUME Tidy, Apart, OneConnection, SameKeys, Owed' \in {Owed, {}},
         \/ Out' = Out
         \/ Out # <<>> /\ Out' = Tail(Out),
         NEW s \in Seq(Packets),
         \A k \in 1 .. Len(s) : s[k] \in Packets /\ KeyDown[s[k]] = NoKey,
         s = <<>> \/ (\E y : s = <<y>>) \/ (\E y, z : s = <<y, z>>),
         rx' = rx, conn'[1].in = conn[1].in \o s,
         BrokerThere' => /\ BrokerThere /\ Owed' = Owed
                         /\ Out' = Out \/ KeyUp[Head(Out)] = NoKey
  PROVE  Tidy'
<1>0. /\ Out \in Seq(Packets) /\ Owed \in SUBSET Packets /\ Arriving \in Seq(Packets)
      /\ OnePlace(Out, Owed, Arriving) /\ Matched
      /\ rx \in Seq(Packets) /\ conn[1].in \in Seq(Packets)
  BY PlaceTypes, OneConnectionTypes DEF Tidy
<1>1. /\ Out' \in Seq(Packets) /\ OnePlace(Out', Owed, Arriving)
      /\ KeysOf(Out', Owed, Arriving) \subseteq Keys
      /\ BrokerThere' => KeysOf(Out', Owed, Arriving) = Keys
      /\ Elements(Out') \subseteq Elements(Out)
  <2>1. CASE Out' = Out
    BY <1>0, <2>1 DEF Keys
  <2>2. CASE Out # <<>> /\ Out' = Tail(Out)
    <3>1. /\ OnePlace(Tail(Out), Owed, Arriving)
          /\ KeysOf(Tail(Out), Owed, Arriving) = Keys \ {KeyUp[Head(Out)]}
      BY <1>0, <2>2, OutShrinks DEF Keys
    <3>2. Tail(Out) \in Seq(Packets) /\ Elements(Tail(Out)) \subseteq Elements(Out)
      BY <1>0, <2>2, ElementsParts, HeadTailProperties
    <3>3. NoKey \notin Keys
      BY DEF Keys, KeysOf, KeysIn
    <3>4. ASSUME BrokerThere' PROVE KeyUp[Head(Out)] = NoKey \/ Out' = Out
      BY <3>4
    <3>5. ASSUME BrokerThere' PROVE KeysOf(Out', Owed, Arriving) = Keys
      <4>1. CASE Out' = Out
        BY <4>1 DEF Keys
      <4>2. CASE KeyUp[Head(Out)] = NoKey
        BY <2>2, <3>1, <3>3, <4>2
      <4> QED
        BY <3>4, <3>5, <4>1, <4>2
    <3> QED
      BY <2>2, <3>1, <3>2, <3>5
  <2> QED
    BY <2>1, <2>2
<1>2. /\ OnePlace(Out', Owed', Arriving)
      /\ KeysOf(Out', Owed', Arriving) \subseteq Keys
      /\ BrokerThere' => KeysOf(Out', Owed', Arriving) = Keys
  <2>1. CASE Owed' = Owed
    BY <1>1, <2>1
  <2>2. CASE Owed' = {} /\ ~BrokerThere'
    BY <1>1, <2>2, OwedForgotten
  <2> QED
    BY <2>1, <2>2
<1>3. ASSUME NEW a \in Seq(Packets), NEW y \in Packets, KeyDown[y] = NoKey,
             OnePlace(Out', Owed', a)
      PROVE  /\ OnePlace(Out', Owed', Append(a, y))
             /\ KeysOf(Out', Owed', Append(a, y)) = KeysOf(Out', Owed', a)
             /\ Append(a, y) \in Seq(Packets)
             /\ Elements(Append(a, y)) = Elements(a) \cup {y}
  <2>1. PICK o, w : o = Out' /\ w = Owed'
    OBVIOUS
  <2>2. KeyDown[y] \notin KeysOf(o, w, a) /\ OnePlace(o, w, a)
    BY <1>3, <2>1 DEF KeysOf, KeysIn
  <2>3. /\ OnePlace(o, w, Append(a, y))
        /\ KeysOf(o, w, Append(a, y)) = KeysOf(o, w, a) \cup ({KeyDown[y]} \ {NoKey})
    BY <2>2, InGrows
  <2>4. Append(a, y) \in Seq(Packets) /\ Elements(Append(a, y)) = Elements(a) \cup {y}
    BY ElementsParts, AppendProperties
  <2> QED
    BY <1>3, <2>1, <2>3, <2>4
<1>4. /\ OnePlace(Out', Owed', Arriving')
      /\ KeysOf(Out', Owed', Arriving') = KeysOf(Out', Owed', Arriving)
      /\ \A p \in Elements(Arriving') :
           p \in Elements(Arriving) \/ (p \in Packets /\ KeyDown[p] = NoKey)
  <2>1. CASE s = <<>>
    <3>1. conn'[1].in = conn[1].in
      BY <1>0, <2>1, ConcatEmptySeq
    <3>2. Arriving' = Arriving
      BY <3>1, ArrivingMoves
    <3> QED
      BY <1>2, <3>2
  <2>2. ASSUME NEW y, s = <<y>>
        PROVE  Arriving' = Append(Arriving, y) /\ y \in Packets /\ KeyDown[y] = NoKey
    <3>1. y \in Packets /\ KeyDown[y] = NoKey
      <4>1. 1 \in 1 .. Len(s) /\ s[1] = y
        BY <2>2
      <4> QED
        BY <4>1
    <3> QED
      BY <2>2, <3>1, ArrivingMoves
  <2>3. ASSUME NEW y, NEW z, s = <<y, z>>
        PROVE  /\ Arriving' = Append(Append(Arriving, y), z)
               /\ y \in Packets /\ KeyDown[y] = NoKey
               /\ z \in Packets /\ KeyDown[z] = NoKey
    <3>1. /\ y \in Packets /\ KeyDown[y] = NoKey
          /\ z \in Packets /\ KeyDown[z] = NoKey
      <4>1. 1 \in 1 .. Len(s) /\ s[1] = y /\ 2 \in 1 .. Len(s) /\ s[2] = z
        BY <2>3
      <4> QED
        BY <4>1
    <3>2. Arriving' = rx \o (conn[1].in \o <<y, z>>) /\ Arriving = rx \o conn[1].in
      BY <2>3 DEF Arriving
    <3>3. /\ <<y, z>> = <<y>> \o <<z>> /\ <<y>> \in Seq(Packets) /\ <<z>> \in Seq(Packets)
          /\ <<y, z>> \in Seq(Packets)
      BY <3>1, PairIsConcat
    <3>4. rx \o (conn[1].in \o <<y, z>>) = (rx \o conn[1].in) \o <<y, z>>
      <4>1. PICK v \in Seq(Packets) : v = <<y, z>>
        BY <3>3
      <4>2. PICK r, in \in Seq(Packets) : r = rx /\ in = conn[1].in
        BY <1>0
      <4>3. r \o (in \o v) = (r \o in) \o v
        BY ConcatAssociative, SMTT(30)
      <4> QED
        BY <4>1, <4>2, <4>3
    <3>5. Arriving \o (<<y>> \o <<z>>) = (Arriving \o <<y>>) \o <<z>>
      BY <1>0, <3>3, ConcatAssociative
    <3>6. Append(Arriving, y) = Arriving \o <<y>> /\ Append(Arriving, y) \in Seq(Packets)
      BY <1>0, <3>1, AppendIsConcat, AppendProperties
    <3>7. Append(Append(Arriving, y), z) = Append(Arriving, y) \o <<z>>
      BY <3>1, <3>6, AppendIsConcat
    <3> QED
      BY <3>1, <3>2, <3>3, <3>4, <3>5, <3>6, <3>7
  <2>4. CASE \E y : s = <<y>>
    <3>1. PICK y : s = <<y>>
      BY <2>4
    <3>2. Arriving' = Append(Arriving, y) /\ y \in Packets /\ KeyDown[y] = NoKey
      BY <2>2, <3>1
    <3>3. /\ OnePlace(Out', Owed', Append(Arriving, y))
          /\ KeysOf(Out', Owed', Append(Arriving, y)) = KeysOf(Out', Owed', Arriving)
          /\ Elements(Append(Arriving, y)) = Elements(Arriving) \cup {y}
      BY <1>0, <1>2, <1>3, <3>2
    <3> QED
      BY <3>2, <3>3
  <2>5. CASE \E y, z : s = <<y, z>>
    <3>1. PICK y, z : s = <<y, z>>
      BY <2>5
    <3>2. /\ Arriving' = Append(Append(Arriving, y), z)
          /\ y \in Packets /\ KeyDown[y] = NoKey /\ z \in Packets /\ KeyDown[z] = NoKey
      BY <2>3, <3>1
    <3>3. /\ OnePlace(Out', Owed', Append(Arriving, y))
          /\ KeysOf(Out', Owed', Append(Arriving, y)) = KeysOf(Out', Owed', Arriving)
          /\ Append(Arriving, y) \in Seq(Packets)
          /\ Elements(Append(Arriving, y)) = Elements(Arriving) \cup {y}
      BY <1>0, <1>2, <1>3, <3>2
    <3>4. /\ OnePlace(Out', Owed', Append(Append(Arriving, y), z))
          /\ KeysOf(Out', Owed', Append(Append(Arriving, y), z))
               = KeysOf(Out', Owed', Append(Arriving, y))
          /\ Elements(Append(Append(Arriving, y), z)) = Elements(Append(Arriving, y)) \cup {z}
      BY <1>3, <3>2, <3>3
    <3> QED
      BY <3>2, <3>3, <3>4
  <2> QED
    BY <2>1, <2>4, <2>5
<1>5. Keys' \subseteq Keys /\ (BrokerThere' => Keys' = Keys)
  BY <1>2, <1>4, PlacesNext
<1>6. \A p \in Elements(Out)' : p \in Elements(Out) \/ HasAsked(p)
  BY <1>1, PlacesNext
<1>7. \A p \in (Owed \cup Elements(Arriving))' :
        p \in Owed \cup Elements(Arriving) \/ (p \in Packets /\ WillAnswer(p))
  BY <1>4, PlacesNext, KeysAre DEF WillAnswer
<1>8. \A i \in Slots : Releasable(i) => Opening(IdAt(i)) \notin Keys'
  BY <1>0, <1>5 DEF Matched
<1>9. Matched'
  BY <1>0, <1>5, <1>6, <1>7, <1>8, MatchedStays
<1> QED
  BY <1>4, <1>9, PlacesNext

\* The broker's side begins or ends, or it does not listen any more.
LEMMA BrokerEndsTidy ==
  ASSUME Apart, OneConnection, Tidy, Open,
         BrokerConnect(1) \/ BrokerDisconnected(1) \/ BrokerIgnores(1) \/ BrokerClose(1)
  PROVE  Tidy'
<1>0. /\ conn \in [Pcbs -> ConnRecords] /\ 1 \in Pcbs /\ 1 \in Conns
      /\ broker \in [Conns -> BrokerRecords] /\ broker[1] \in BrokerRecords
      /\ Out \in Seq(Packets)
  BY OneConnectionTypes DEF Out
<1>1. UNCHANGED clientVars
  BY DEF BrokerConnect, BrokerDisconnected, BrokerIgnores, BrokerClose
<1>2. /\ UNCHANGED <<rx, req_queue>> /\ SameKeys
      /\ \A s : conn' = [conn EXCEPT ![1] = ToClient(conn[1], s)] =>
           Out' = Out /\ conn'[1].in = conn[1].in \o s
      /\ \A s : conn' = [conn EXCEPT ![1] = ToClient(Taken(1), s)] =>
           Out' = Tail(Out) /\ conn'[1].in = conn[1].in \o s
      /\ conn' = [conn EXCEPT ![1] = Taken(1)] =>
           Out' = Tail(Out) /\ conn'[1].in = conn[1].in
  BY <1>1, BrokerMoves
<1>3. PICK y1, y2 : y1 = Packet("CONNACK", 0, Accepted, 0) /\ y2 = Packet("CONNACK", 0, Refused, 0)
  OBVIOUS
<1>4. /\ y1 \in Packets /\ y2 \in Packets /\ Fin \in Packets
      /\ KeyDown[y1] = NoKey /\ KeyDown[y2] = NoKey /\ KeyDown[Fin] = NoKey
  <2>1. y1 \in Packets /\ y2 \in Packets /\ Fin \in Packets
    BY <1>3, SmallNumbers, PacketType, FinType DEF PacketTypes
  <2>2. /\ Answering(y1) = "NO_REQUEST" /\ Answering(y2) = "NO_REQUEST"
        /\ Answering(Fin) = "NO_REQUEST"
    BY <1>3 DEF Answering, AckTypes, Packet, Fin
  <2> QED
    BY <2>1, <2>2, KeysAre
<1>5. ASSUME NEW phase \in {"refused", "closed"},
             broker' = [broker EXCEPT ![1] = Gone(broker[1], phase)]
      PROVE  Owed' = {} /\ ~BrokerThere'
  BY <1>0, <1>5 DEF Gone, BrokerRecords, Owed, BrokerThere
<1>6. CASE BrokerConnect(1)
  <2>1. /\ Out # <<>> /\ Head(Out).type = "CONNECT" /\ broker[1].phase = "new"
        /\ \/ /\ broker' = [broker EXCEPT ![1].phase = "accepted"]
              /\ conn' = [conn EXCEPT ![1] = ToClient(Taken(1), <<y1>>)]
           \/ /\ broker' = [broker EXCEPT ![1] = Gone(broker[1], "refused")]
              /\ conn' = [conn EXCEPT ![1] = ToClient(Taken(1), <<y2, Fin>>)]
    BY <1>0, <1>3, <1>6 DEF BrokerConnect, Incoming, Out
  <2>2. KeyUp[Head(Out)] = NoKey
    <3>1. Head(Out) \in Packets /\ Asking(Head(Out)) = "NO_REQUEST"
      BY <1>0, <2>1, HeadTailType DEF Asking
    <3> QED
      BY <3>1, KeysAre
  <2>3. CASE /\ broker' = [broker EXCEPT ![1].phase = "accepted"]
             /\ conn' = [conn EXCEPT ![1] = ToClient(Taken(1), <<y1>>)]
    <3>1. Owed' = Owed /\ BrokerThere
      BY <1>0, <2>1, <2>3 DEF Owed, BrokerThere, BrokerRecords
    <3>2. PICK s : s = <<y1>>
      OBVIOUS
    <3>3. /\ s \in Seq(Packets) /\ \E y : s = <<y>>
          /\ \A k \in 1 .. Len(s) : s[k] \in Packets /\ KeyDown[s[k]] = NoKey
      BY <1>4, <3>2
    <3>4. Out' = Tail(Out) /\ conn'[1].in = conn[1].in \o s
      BY <1>2, <2>3, <3>2
    <3> QED
      BY <1>2, <2>1, <2>2, <3>1, <3>3, <3>4, LetGoTidy
  <2>4. CASE /\ broker' = [broker EXCEPT ![1] = Gone(broker[1], "refused")]
             /\ conn' = [conn EXCEPT ![1] = ToClient(Taken(1), <<y2, Fin>>)]
    <3>1. Owed' = {} /\ ~BrokerThere'
      BY <1>5, <2>4
    <3>2. PICK s : s = <<y2, Fin>>
      OBVIOUS
    <3>3. /\ s \in Seq(Packets) /\ \E y, z : s = <<y, z>>
          /\ \A k \in 1 .. Len(s) : s[k] \in Packets /\ KeyDown[s[k]] = NoKey
      BY <1>4, <3>2
    <3>4. Out' = Tail(Out) /\ conn'[1].in = conn[1].in \o s
      BY <1>2, <2>4, <3>2
    <3> QED
      BY <1>2, <2>1, <3>1, <3>3, <3>4, LetGoTidy
  <2> QED
    BY <2>1, <2>3, <2>4
<1>7. CASE BrokerDisconnected(1) \/ BrokerClose(1)
  <2>1. Owed' = {} /\ ~BrokerThere'
    BY <1>5, <1>7 DEF BrokerDisconnected, BrokerClose
  <2>2. PICK s : s = <<Fin>>
    OBVIOUS
  <2>3. /\ s \in Seq(Packets) /\ \E y : s = <<y>>
        /\ \A k \in 1 .. Len(s) : s[k] \in Packets /\ KeyDown[s[k]] = NoKey
    BY <1>4, <2>2
  <2>4. /\ conn'[1].in = conn[1].in \o s
        /\ Out' = Out \/ (Out # <<>> /\ Out' = Tail(Out))
    BY <1>2, <1>7, <2>2 DEF BrokerDisconnected, BrokerClose, Incoming, Out
  <2> QED
    BY <1>2, <2>1, <2>3, <2>4, LetGoTidy
<1>8. CASE BrokerIgnores(1)
  <2>1. /\ Out # <<>> /\ Out' = Tail(Out) /\ conn'[1].in = conn[1].in
        /\ Owed' = Owed /\ ~BrokerThere'
    BY <1>2, <1>8 DEF BrokerIgnores, Incoming, Out, Over, BrokerThere, Owed, brokerVars
  <2>2. PICK s : s = <<>>
    OBVIOUS
  <2>3. s \in Seq(Packets) /\ \A k \in 1 .. Len(s) : s[k] \in Packets /\ KeyDown[s[k]] = NoKey
    BY <2>2
  <2>4. conn'[1].in = conn[1].in \o s
    BY <2>1, <2>2, OneConnectionTypes, ConcatEmptySeq
  <2> QED
    BY <1>2, <2>1, <2>2, <2>3, <2>4, LetGoTidy
<1> QED
  BY <1>6, <1>7, <1>8

\* The answer to a packet has its key, and names what the slot is about.
LEMMA ReplyIs ==
  ASSUME Told, OneConnection, Tidy, BrokerThere, NEW p \in Elements(Out)
  PROVE  \/ Replies(broker[1], p) = {} /\ KeyUp[p] = NoKey
         \/ \E y \in Packets : /\ Replies(broker[1], p) = {y}
                               /\ KeyDown[y] = KeyUp[p] /\ WillAnswer(y)
<1>0. /\ p \in Packets /\ HasAsked(p) /\ broker[1] \in BrokerRecords
      /\ Replies(broker[1], p) \subseteq Packets
  BY PlaceTypes, OneConnectionTypes, RepliesType DEF Told, Tidy, Matched
<1>1. ASSUME NEW y, Replies(broker[1], p) = {y}, y.id = p.id, y.body = p.body,
             y.type \in AckTypes, Awaited(y.type) = Asking(p), p.type # "PUBREC"
      PROVE  y \in Packets /\ KeyDown[y] = KeyUp[p] /\ WillAnswer(y)
  <2>1. y \in Packets
    BY <1>0, <1>1
  <2>2. KeyDown[y] = << Asking(p), p.id >> /\ KeyDown[y] # NoKey
    BY <1>1, <2>1, KeysAre
  <2>3. Asking(p) # "NO_REQUEST"
    BY <1>1 DEF Awaited, AckTypes
  <2>4. KeyDown[y] = KeyUp[p]
    BY <1>0, <2>2, <2>3, KeysAre
  <2> QED
    BY <1>0, <1>1, <2>1, <2>2, <2>4 DEF HasAsked, WillAnswer, Plain
<1>2. CASE p.type = "PUBREC"
  <2>1. PICK i \in Slots : SlotKey(i) = KeyUp[p]
    <3>1. Asking(p) # "NO_REQUEST"
      BY <1>2 DEF Asking
    <3> QED
      BY <1>0, <3>1, KeysAre DEF HasAsked, Plain
  <2>2. KeyUp[p] = << "WAITING_FOR_PUBREL", p.id >>
    BY <1>0, <1>2, KeysAre DEF Asking
  <2>3. Releasable(i) /\ IdAt(i) = p.id
    BY <2>1, <2>2 DEF SlotKey, Key, Releasable
  <2>4. PICK f \in InFlight : f.id = p.id /\ f.body = ContextAt(i)
    BY <2>3 DEF Told, Tracked, KeptInFlight
  <2>5. SentUnder(broker[1], p.id) = {f}
    BY <2>4 DEF Told, Tracked, InFlightDiffer, SentUnder, InFlight
  <2>6. PICK y : y = Packet("PUBREL", p.id, f.body, 0)
    OBVIOUS
  <2>7. Replies(broker[1], p) = {y}
    BY <1>2, <2>5, <2>6 DEF Replies
  <2>8. y \in Packets /\ y.type = "PUBREL" /\ y.id = p.id /\ y.body = ContextAt(i)
    BY <1>0, <2>4, <2>6, <2>7 DEF Packet
  <2>9. KeyDown[y] = KeyUp[p]
    BY <2>2, <2>8, KeysAre DEF AckTypes, Awaited
  <2> QED
    BY <2>1, <2>7, <2>8, <2>9 DEF WillAnswer
<1>3. CASE p.type = "PINGREQ"
  <2>1. PICK y : y = Packet("PINGRESP", 0, 0, 0)
    OBVIOUS
  <2>2. Replies(broker[1], p) = {y}
    BY <1>3, <2>1 DEF Replies
  <2>3. y \in Packets /\ y.type \notin AckTypes /\ Answering(y) = "NO_REQUEST"
    BY <1>0, <2>1, <2>2 DEF Packet, AckTypes, Answering
  <2>4. Asking(p) = "NO_REQUEST"
    BY <1>3 DEF Asking
  <2>5. KeyDown[y] = NoKey /\ KeyUp[p] = NoKey
    BY <1>0, <2>3, <2>4, KeysAre
  <2> QED
    BY <2>2, <2>3, <2>5 DEF WillAnswer
<1>4. CASE \/ p.type \in {"PUBREL", "SUBSCRIBE", "UNSUBSCRIBE"}
           \/ p.type = "PUBLISH" /\ p.qos \in {1, 2}
  <2>1. PICK type \in AckTypes :
          /\ Replies(broker[1], p) = { Packet(type, p.id, p.body, 0) }
          /\ Awaited(type) = Asking(p)
    <3>1. CASE p.type = "PUBLISH" /\ p.qos = 1
      BY <3>1 DEF Replies, Awaited, Asking, AckTypes
    <3>2. CASE p.type = "PUBLISH" /\ p.qos = 2
      BY <3>2 DEF Replies, Awaited, Asking, AckTypes
    <3>3. CASE p.type = "PUBREL"
      BY <3>3 DEF Replies, Awaited, Asking, AckTypes
    <3>4. CASE p.type = "SUBSCRIBE"
      BY <3>4 DEF Replies, Awaited, Asking, AckTypes
    <3>5. CASE p.type = "UNSUBSCRIBE"
      BY <3>5 DEF Replies, Awaited, Asking, AckTypes
    <3> QED
      BY <1>4, <3>1, <3>2, <3>3, <3>4, <3>5
  <2>2. PICK y : y = Packet(type, p.id, p.body, 0)
    OBVIOUS
  <2>3. /\ Replies(broker[1], p) = {y} /\ y.id = p.id /\ y.body = p.body
        /\ y.type \in AckTypes /\ Awaited(y.type) = Asking(p) /\ p.type # "PUBREC"
    BY <1>4, <2>1, <2>2 DEF Packet
  <2> QED
    BY <1>1, <2>3
<1>5. CASE /\ p.type \notin {"PUBREC", "PINGREQ", "PUBREL", "SUBSCRIBE", "UNSUBSCRIBE"}
           /\ p.type = "PUBLISH" => p.qos \notin {1, 2}
  <2>1. Replies(broker[1], p) = {} /\ Asking(p) = "NO_REQUEST"
    BY <1>5 DEF Replies, Asking
  <2> QED
    BY <1>0, <2>1, KeysAre
<1> QED
  BY <1>2, <1>3, <1>4, <1>5

\* A packet is answered: its key goes from the way out to what the broker owes.
LEMMA BrokerReceiveTidy ==
  ASSUME Told, OneConnection, Tidy, Open, BrokerReceive(1)
  PROVE  Tidy'
<1> PICK p : p = Head(Out)
  OBVIOUS
<1>0. /\ Apart /\ Matched /\ OnePlace(Out, Owed, Arriving)
      /\ Out \in Seq(Packets) /\ Owed \in SUBSET Packets /\ Arriving \in Seq(Packets)
      /\ conn[1].in \in Seq(Packets)
  BY PlaceTypes, OneConnectionTypes DEF Told, Tidy
<1>1. /\ Out # <<>> /\ BrokerThere /\ UNCHANGED clientVars
      /\ conn' = [conn EXCEPT ![1] = Taken(1)]
      /\ Out' = Tail(Out) /\ conn'[1].in = conn[1].in
      /\ Owed' = Owed \cup Replies(broker[1], p)
  BY <1>0, BrokerReceives DEF BrokerThere
<1>2. UNCHANGED <<rx, req_queue>> /\ SameKeys
  BY <1>0, <1>1, BrokerMoves
<1>3. p \in Elements(Out)
  BY <1>0, <1>1, ElementsParts
<1>4. CASE Replies(broker[1], p) = {} /\ KeyUp[p] = NoKey
  <2>1. PICK s : s = <<>>
    OBVIOUS
  <2>2. /\ s \in Seq(Packets) /\ conn'[1].in = conn[1].in \o s
        /\ \A k \in 1 .. Len(s) : s[k] \in Packets /\ KeyDown[s[k]] = NoKey
    BY <1>0, <1>1, <2>1, ConcatEmptySeq
  <2>3. Owed' = Owed
    BY <1>1, <1>4
  <2> QED
    BY <1>0, <1>1, <1>2, <1>4, <2>1, <2>2, <2>3, LetGoTidy
<1>5. ASSUME NEW y \in Packets, Replies(broker[1], p) = {y},
             KeyDown[y] = KeyUp[p], WillAnswer(y)
      PROVE  Tidy'
  <2>1. Arriving' = Arriving
    BY <1>0, <1>1, <1>2, ArrivingMoves
  <2>2. PICK o, w, k : o = Tail(Out) /\ w = Owed /\ k = KeyDown[y]
    OBVIOUS
  <2>3. /\ OnePlace(o, w, Arriving) /\ KeysOf(o, w, Arriving) = Keys \ {k}
        /\ k # NoKey => k \in Keys
    BY <1>0, <1>1, <1>5, <2>2, OutShrinks DEF Keys
  <2>4. NoKey \notin Keys
    BY DEF Keys, KeysOf, KeysIn
  <2>5. OnePlace(Out', Owed', Arriving') /\ Keys' = Keys
    <3>1. PICK a : a = Arriving
      OBVIOUS
    <3>2. OnePlace(o, w, a) /\ KeyDown[y] \notin KeysOf(o, w, a)
      BY <2>2, <2>3, <3>1
    <3>3. /\ OnePlace(o, w \cup {y}, a)
          /\ KeysOf(o, w \cup {y}, a) = KeysOf(o, w, a) \cup ({KeyDown[y]} \ {NoKey})
      BY <3>2, OwedGrows
    <3>4. KeysOf(o, w \cup {y}, a) = Keys
      BY <2>2, <2>3, <2>4, <3>1, <3>3
    <3>5. Out' = o /\ Owed' = w \cup {y} /\ Arriving' = a
      BY <1>1, <1>5, <2>1, <2>2, <3>1
    <3> QED
      BY <3>3, <3>4, <3>5, PlacesNext
  <2>6. Elements(Out)' \subseteq Elements(Out) /\ Elements(Arriving)' = Elements(Arriving)
    BY <1>0, <1>1, <2>1, ElementsParts, PlacesNext
  <2>7. \A q \in (Owed \cup Elements(Arriving))' :
          q \in Owed \cup Elements(Arriving) \/ (q \in Packets /\ WillAnswer(q))
    BY <1>1, <1>5, <2>6
  <2>8. Matched'
    BY <1>0, <1>1, <1>2, <2>5, <2>6, <2>7, MatchedStays DEF Matched
  <2> QED
    BY <2>5, <2>8, PlacesNext
<1> QED
  BY <1>0, <1>1, <1>3, <1>4, <1>5, ReplyIs

\* An answer is sent: its key goes from what the broker owes to the way in.
LEMMA BrokerReplyTidy ==
  ASSUME Apart, OneConnection, Tidy, Open, BrokerReply(1)
  PROVE  Tidy'
<1>0. /\ Matched /\ OnePlace(Out, Owed, Arriving)
      /\ Out \in Seq(Packets) /\ Owed \in SUBSET Packets /\ Arriving \in Seq(Packets)
      /\ broker \in [Conns -> BrokerRecords] /\ broker[1] \in BrokerRecords /\ 1 \in Conns
  BY PlaceTypes, OneConnectionTypes DEF Tidy
<1>1. PICK y \in Owed : /\ broker' = [broker EXCEPT ![1].owed = Owed \ {y}]
                        /\ conn' = [conn EXCEPT ![1] = ToClient(conn[1], <<y>>)]
                        /\ UNCHANGED clientVars
  BY DEF BrokerReply, Owed
<1>2. Owed' = Owed \ {y} /\ (BrokerThere' => BrokerThere)
  BY <1>0, <1>1 DEF Owed, BrokerThere, BrokerRecords
<1>3. /\ UNCHANGED <<rx, req_queue>> /\ SameKeys /\ Out' = Out
      /\ conn'[1].in = conn[1].in \o <<y>>
  BY <1>1, BrokerMoves
<1>4. Arriving' = Append(Arriving, y) /\ y \in Packets
  BY <1>0, <1>3, ArrivingMoves
<1>5. /\ OnePlace(Out, Owed \ {y}, Arriving)
      /\ KeysOf(Out, Owed \ {y}, Arriving) = Keys \ {KeyDown[y]}
      /\ KeyDown[y] # NoKey => KeyDown[y] \in Keys
  BY <1>0, OwedShrinks DEF Keys
<1>6. /\ OnePlace(Out, Owed \ {y}, Append(Arriving, y))
      /\ KeysOf(Out, Owed \ {y}, Append(Arriving, y))
           = (Keys \ {KeyDown[y]}) \cup ({KeyDown[y]} \ {NoKey})
  <2>1. PICK o, w, a : o = Out /\ w = Owed \ {y} /\ a = Arriving
    OBVIOUS
  <2>2. /\ a \in Seq(Packets) /\ OnePlace(o, w, a) /\ KeyDown[y] \notin KeysOf(o, w, a)
    BY <1>0, <1>5, <2>1
  <2>3. /\ OnePlace(o, w, Append(a, y))
        /\ KeysOf(o, w, Append(a, y)) = KeysOf(o, w, a) \cup ({KeyDown[y]} \ {NoKey})
    BY <1>4, <2>2, InGrows
  <2> QED
    BY <1>5, <2>1, <2>3
<1>7. NoKey \notin Keys
  BY DEF Keys, KeysOf, KeysIn
<1>8. OnePlace(Out', Owed', Arriving') /\ Keys' = Keys
  BY <1>2, <1>3, <1>4, <1>5, <1>6, <1>7, PlacesNext
<1>9. /\ Elements(Out)' = Elements(Out)
      /\ (Owed \cup Elements(Arriving))' \subseteq Owed \cup Elements(Arriving)
  <2>1. Elements(Append(Arriving, y)) = Elements(Arriving) \cup {y}
    BY <1>0, <1>4, ElementsParts
  <2> QED
    BY <1>2, <1>3, <1>4, <2>1, PlacesNext
<1>10. Matched'
  BY <1>0, <1>2, <1>3, <1>8, <1>9, MatchedStays DEF Matched
<1> QED
  BY <1>8, <1>10, PlacesNext

\* A message is sent: one of QoS 2 under an id that nothing has.
LEMMA BrokerPublishTidy ==
  ASSUME Told, OneConnection, Tidy, Open, NEW qos \in 0 .. 2, BrokerPublish(1, qos)
  PROVE  Tidy'
<1>0. /\ Apart /\ Inv /\ Matched /\ OnePlace(Out, Owed, Arriving)
      /\ Out \in Seq(Packets) /\ Owed \in SUBSET Packets /\ Arriving \in Seq(Packets)
      /\ Elements(Arriving) \subseteq Packets
      /\ broker \in [Conns -> BrokerRecords] /\ broker[1] \in BrokerRecords /\ 1 \in Conns
      /\ Pcbs = {0, 1}
  BY PlaceTypes, OneConnectionTypes DEF Told, Tidy, Apart
<1>1. /\ BrokerThere /\ Tracked /\ UNCHANGED clientVars
      /\ msgs_sent' \in Contexts
  <2>1. BrokerThere /\ UNCHANGED clientVars
    BY DEF BrokerPublish, BrokerThere
  <2>2. msgs_sent' \in 0 .. MaxMsgs
    <3>1. msgs_sent \in 0 .. MaxMsgs /\ msgs_sent < MaxMsgs /\ msgs_sent' = msgs_sent + 1
      BY <1>0 DEF BrokerPublish, Inv, TypeOK, BrokerTypeOK
    <3> QED
      BY <3>1, ClientAssumption
  <2> QED
    BY <2>1, <2>2, SmallNumbers DEF Told
<1>2. PICK id \in PacketIds :
        /\ conn' = [conn EXCEPT ![1] =
                      ToClient(conn[1], << Packet("PUBLISH", id, msgs_sent', qos) >>)]
        /\ qos = 2 => SentUnder(broker[1], id) = {}
        /\ \/ broker' = broker
           \/ \E s : broker' = [broker EXCEPT ![1].inflight = s]
  <2>1. PICK id \in IF qos = 0 THEN {0}
                    ELSE { i \in 1 .. MaxPacketId : SentUnder(broker[1], i) = {} } :
          /\ conn' = [conn EXCEPT ![1] =
                        ToClient(@, << Packet("PUBLISH", id, msgs_sent', qos) >>)]
          /\ broker' = IF qos = 0 THEN broker
                       ELSE [broker EXCEPT ![1].inflight =
                               @ \cup {[ id |-> id, body |-> msgs_sent' ]}]
    BY DEF BrokerPublish
  <2>2. id \in PacketIds /\ (qos = 2 => SentUnder(broker[1], id) = {})
    BY SmallNumbers
  <2> QED
    BY <2>1, <2>2
<1>3. Owed' = Owed /\ (BrokerThere' => BrokerThere)
  BY <1>0, <1>1, <1>2 DEF Owed, BrokerRecords
<1>4. PICK y : y = Packet("PUBLISH", id, msgs_sent', qos)
  OBVIOUS
<1>5. y \in Packets /\ y.id = id /\ y.type = "PUBLISH" /\ y.qos = qos /\ y.type \notin AckTypes
  <2>1. y \in Packets
    BY <1>1, <1>4, PacketType DEF PacketTypes
  <2> QED
    BY <1>4, <2>1 DEF Packet, AckTypes
<1>6. /\ UNCHANGED <<rx, req_queue>> /\ SameKeys /\ Out' = Out
      /\ conn'[1].in = conn[1].in \o <<y>>
  BY <1>0, <1>1, <1>2, <1>4, BrokerMoves
<1>7. Arriving' = Append(Arriving, y)
  BY <1>0, <1>5, <1>6, ArrivingMoves
<1>8. CASE qos # 2
  <2>1. KeyDown[y] = NoKey
    BY <1>0, <1>5, <1>8, NoAckNoSlot
  <2> QED
    BY <1>0, <1>3, <1>5, <1>6, <1>7, <2>1, KeylessTidy
<1>9. CASE qos = 2
  <2>1. KeyDown[y] = Opening(id)
    BY <1>0, <1>5, <1>9, NoAckNoSlot
  <2>2. \A f \in InFlight : f.id # id
    BY <1>2, <1>9 DEF SentUnder, InFlight
  <2>3. \A p \in Elements(Arriving) : p.type = "PUBLISH" /\ p.qos = 2 => p.id # id
    <3> SUFFICES ASSUME NEW p \in Elements(Arriving), p.type = "PUBLISH", p.qos = 2
                 PROVE  p.id # id
      OBVIOUS
    <3>1. p \in Elements(rx) \/ p \in Elements(conn[1].in)
      BY <1>0, ArrivingMoves
    <3>2. \E c \in Pcbs : \E k \in 1 .. Len(Lane(c)) : Lane(c)[k] = p
      <4>1. Lane(0) = rx /\ Lane(1) = conn[1].in
        BY DEF Lane, NULL
      <4> QED
        BY <1>0, <3>1, <4>1 DEF Elements
    <3>3. Coming(p)
      BY <3>2 DEF Coming
    <3> QED
      BY <1>1, <2>2, <3>3 DEF Tracked, ComingInFlight
  <2>4. \A p \in Owed : p.type # "PUBLISH"
    BY <1>0 DEF Apart, OwedAreAnswers, Owed
  <2>5. Opening(id) \notin KeysIn(Owed \cup Elements(Arriving), KeyDown)
    <3> SUFFICES ASSUME NEW p \in Owed \cup Elements(Arriving), KeyDown[p] = Opening(id)
                 PROVE  FALSE
      BY DEF KeysIn
    <3>1. p \in Packets
      BY <1>0
    <3>2. CASE p.type \in AckTypes
      BY <3>1, <3>2, KeysAre DEF Opening, AckTypes, Awaited
    <3>3. CASE p.type \notin AckTypes
      <4>1. KeyDown[p] = IF p.type = "PUBLISH" /\ p.qos = 2 THEN Opening(p.id) ELSE NoKey
        BY <1>0, <3>1, <3>3, NoAckNoSlot
      <4>2. p.type = "PUBLISH" /\ p.qos = 2 /\ p.id = id
        BY <4>1 DEF Opening, NoKey
      <4> QED
        BY <2>3, <2>4, <4>2
    <3> QED
      BY <3>2, <3>3
  <2>6. Opening(id) \notin KeysIn(Elements(Out), KeyUp)
    <3> SUFFICES ASSUME NEW p \in Elements(Out), KeyUp[p] = Opening(id)
                 PROVE  FALSE
      BY DEF KeysIn
    <3>1. KeyUp[p] # NoKey
      BY DEF Opening, NoKey
    <3>2. PICK i \in Slots : SlotKey(i) = Opening(id)
      BY <1>0, <3>1 DEF Matched, HasAsked, Plain
    <3> QED
      BY <1>0, <3>2, OpeningsAreNoSlots
  <2>7. Opening(id) \notin Keys
    BY <2>5, <2>6 DEF Keys, KeysOf, KeysIn
  <2>8. /\ OnePlace(Out, Owed, Append(Arriving, y))
        /\ KeysOf(Out, Owed, Append(Arriving, y)) = Keys \cup ({KeyDown[y]} \ {NoKey})
    BY <1>0, <1>5, <2>1, <2>7, InGrows DEF Keys
  <2>9. OnePlace(Out', Owed', Arriving') /\ Keys' = Keys \cup {Opening(id)}
    <3>1. Opening(id) # NoKey
      BY DEF Opening, NoKey
    <3> QED
      BY <1>3, <1>6, <1>7, <2>1, <2>8, <3>1, PlacesNext
  <2>10. /\ Elements(Out)' = Elements(Out)
         /\ Elements(Arriving)' = Elements(Arriving) \cup {y}
    <3>1. Elements(Append(Arriving, y)) = Elements(Arriving) \cup {y}
      BY <1>0, <1>5, ElementsParts
    <3> QED
      BY <1>6, <1>7, <3>1, PlacesNext
  <2>11. \A p \in (Owed \cup Elements(Arriving))' :
           p \in Owed \cup Elements(Arriving) \/ (p \in Packets /\ WillAnswer(p))
    BY <1>3, <1>5, <2>10 DEF WillAnswer
  <2>12. \A i \in Slots : Releasable(i) => Opening(IdAt(i)) \notin Keys'
    <3> SUFFICES ASSUME NEW i \in Slots, Releasable(i)
                 PROVE  Opening(IdAt(i)) \notin Keys'
      OBVIOUS
    <3>1. Opening(IdAt(i)) \notin Keys
      BY <1>0 DEF Matched
    <3>2. IdAt(i) # id
      BY <1>1, <2>2 DEF Tracked, KeptInFlight
    <3> QED
      BY <2>9, <3>1, <3>2 DEF Opening
  <2>13. Matched'
    BY <1>0, <1>1, <1>3, <1>6, <2>9, <2>10, <2>11, <2>12, MatchedStays
  <2> QED
    BY <2>9, <2>13, PlacesNext
<1> QED
  BY <1>8, <1>9

----
(***************************************************************************)
(* The invariant, and what follows from it.                                *)
(***************************************************************************)
\* The client, as long as its requests have different packet ids.
LEMMA ClientTidy ==
  ASSUME Apart, OneConnection, Tidy, Open, Open', PacketIdsDiffer, PacketIdsDiffer',
         Application \/ Waiting \/ get_mqtt_packet \/ Tick
  PROVE  Tidy'
<1>1. ~MQTTClient_connect
  <2>1. Unused = {}
    BY OneConnectionTypes DEF Unused, Open
  <2> QED
    BY <2>1 DEF MQTTClient_connect
<1>2. ASSUME NEW type \in PacketTypes, NEW qos \in 0 .. 2, NEW state \in RequestStates,
             Asking(Packet(type, 1, 0, qos)) = state, NEW kind, MayCall(kind),
             Request(type, qos, state)
      PROVE  Tidy'
  <2>1. requests < MaxRequests
    BY <1>2 DEF MayCall
  <2>2. Key(state, 1) = Key(Asking(Packet(type, 1, 0, qos)), 1)
    BY <1>2
  <2> QED
    BY <1>2, <2>1, <2>2, RequestTidy
<1>3. CASE MayCall("pub1") /\ Request("PUBLISH", 1, "WAITING_FOR_PUBACK")
  <2>1. PICK type, qos, state : type = "PUBLISH" /\ qos = 1 /\ state = "WAITING_FOR_PUBACK"
    OBVIOUS
  <2>2. /\ type \in PacketTypes /\ qos \in 0 .. 2 /\ state \in RequestStates
        /\ Asking(Packet(type, 1, 0, qos)) = state
    BY <2>1 DEF PacketTypes, RequestStates, Asking, Packet
  <2> QED
    BY <1>2, <1>3, <2>1, <2>2
<1>4. CASE MayCall("pub2") /\ Request("PUBLISH", 2, "WAITING_FOR_PUBREC")
  <2>1. PICK type, qos, state : type = "PUBLISH" /\ qos = 2 /\ state = "WAITING_FOR_PUBREC"
    OBVIOUS
  <2>2. /\ type \in PacketTypes /\ qos \in 0 .. 2 /\ state \in RequestStates
        /\ Asking(Packet(type, 1, 0, qos)) = state
    BY <2>1 DEF PacketTypes, RequestStates, Asking, Packet
  <2> QED
    BY <1>2, <1>4, <2>1, <2>2
<1>5. CASE MQTTClient_subscribe
  <2>1. PICK type, qos, state : type = "SUBSCRIBE" /\ qos = 0 /\ state = "WAITING_FOR_SUBACK"
    OBVIOUS
  <2>2. /\ type \in PacketTypes /\ qos \in 0 .. 2 /\ state \in RequestStates
        /\ Asking(Packet(type, 1, 0, qos)) = state
    BY <2>1 DEF PacketTypes, RequestStates, Asking, Packet
  <2> QED
    BY <1>2, <1>5, <2>1, <2>2 DEF MQTTClient_subscribe
<1>6. CASE MQTTClient_unsubscribe
  <2>1. PICK type, qos, state :
          type = "UNSUBSCRIBE" /\ qos = 0 /\ state = "WAITING_FOR_UNSUBACK"
    OBVIOUS
  <2>2. /\ type \in PacketTypes /\ qos \in 0 .. 2 /\ state \in RequestStates
        /\ Asking(Packet(type, 1, 0, qos)) = state
    BY <2>1 DEF PacketTypes, RequestStates, Asking, Packet
  <2> QED
    BY <1>2, <1>6, <2>1, <2>2 DEF MQTTClient_unsubscribe
<1>7. CASE PublishQos0 \/ MQTTClient_loop \/ Waiting \/ Tick
  BY <1>7, QuietClientTidy
<1>8. CASE get_mqtt_packet
  <2>1. ~RequestNotFound
    BY FailedIsClosed
  <2>2. CASE \/ HandleConnack \/ HandlePingresp \/ HandlePublishDiscarded
             \/ HandlePublishQos0 \/ HandlePublishQos1
    BY <2>2, QuietClientTidy
  <2>3. CASE HandlePuback \/ HandlePubcomp \/ HandleSuback \/ HandleUnsuback \/ HandlePubrel
    BY <2>3, LastAckTidy
  <2>4. CASE HandlePubrec
    BY <2>4, PubrecTidy
  <2>5. CASE HandlePublishQos2
    BY <2>5, PublishQos2Tidy
  <2> QED
    BY <1>8, <2>1, <2>2, <2>3, <2>4, <2>5 DEF get_mqtt_packet
<1>9. ~MQTTClient_disconnect /\ ~ConnectMemoryErr /\ ~ConnectTcpFailure
  BY FailedIsClosed
<1> QED
  BY <1>1, <1>3, <1>4, <1>5, <1>6, <1>7, <1>8, <1>9 DEF Application, MQTTClient_publish

\* The network and the broker.
LEMMA OutsideTidy ==
  ASSUME Told, OneConnection, Tidy, Open, Open', NEW c \in Conns, Network(c) \/ Broker(c)
  PROVE  Tidy'
<1>1. Apart /\ c = 1
  BY OneConnectionTypes DEF Told
<1>2. CASE Network(c)
  BY <1>1, <1>2, NetworkTidy
<1>3. CASE \/ BrokerConnect(c) \/ BrokerDisconnected(c) \/ BrokerIgnores(c)
           \/ BrokerClose(c)
  BY <1>1, <1>3, BrokerEndsTidy
<1>4. CASE BrokerReceive(c)
  BY <1>1, <1>4, BrokerReceiveTidy
<1>5. CASE BrokerReply(c)
  BY <1>1, <1>5, BrokerReplyTidy
<1>6. CASE \E qos \in 0 .. 2 : BrokerPublish(c, qos)
  BY <1>1, <1>6, BrokerPublishTidy
<1> QED
  BY <1>2, <1>3, <1>4, <1>5, <1>6 DEF Broker

\* Every step.
LEMMA NextAnswered ==
  ASSUME Answered, OneConnection, PacketIdsDiffer, PacketIdsDiffer', [Next]_vars
  PROVE  Answered'
<1>1. Told /\ Told' /\ Apart /\ Surround
  BY NextTold DEF Answered, Told
<1>2. CASE UNCHANGED vars
  <2>1. UNCHANGED <<conn, brokerVars, rx, req_queue, pcb, mqtt_connected, pc>>
    BY <1>2 DEF vars, clientVars, linkVars, queueVars, rxVars
  <2>2. Surround' /\ (Open' => Open)
    BY <1>1, <2>1 DEF Surround, Idle, Open, Owed, brokerVars, SlotKey, StateAt, IdAt
  <2>3. Tidy => Tidy'
    <3>1. /\ Out' = Out /\ Owed' = Owed /\ Arriving' = Arriving /\ SameKeys
          /\ (BrokerThere' => BrokerThere)
      BY <2>1 DEF Out, Owed, Arriving, SameKeys, SlotKey, StateAt, IdAt, brokerVars,
         BrokerThere
    <3> QED
      BY <1>1, <3>1, KeylessTidy
  <2> QED
    BY <1>1, <2>2, <2>3 DEF Answered
<1>3. CASE Application \/ Waiting \/ get_mqtt_packet \/ Tick
  <2>1. Surround' /\ (Open' => Open \/ MQTTClient_connect)
    BY <1>1, <1>3, ClientStepSurround
  <2>2. CASE MQTTClient_connect
    BY <1>1, <2>1, <2>2, ConnectTidy DEF Answered
  <2>3. ASSUME Open, Open'
        PROVE  Tidy'
    <3>1. Tidy
      BY <2>3 DEF Answered
    <3> QED
      BY <1>1, <1>3, <2>3, <3>1, ClientTidy
  <2> QED
    BY <1>1, <2>1, <2>2, <2>3 DEF Answered
<1>4. CASE \E c \in Conns : Network(c) \/ Broker(c)
  <2>1. PICK c \in Conns : Network(c) \/ Broker(c)
    BY <1>4
  <2>2. Surround' /\ (Open' => Open)
    BY <1>1, <2>1, OutsideSurround
  <2>3. ASSUME Open, Open'
        PROVE  Tidy'
    <3>1. Tidy
      BY <2>3 DEF Answered
    <3> QED
      BY <1>1, <2>1, <2>3, <3>1, OutsideTidy
  <2> QED
    BY <1>1, <2>2, <2>3 DEF Answered
<1> QED
  BY <1>2, <1>3, <1>4 DEF Next

\* There is no connection at the start.
LEMMA InitAnswered ==
  ASSUME Init, OneConnection
  PROVE  Answered
<1>1. Told
  BY InitTold
<1>2. /\ 1 \in Conns /\ 1 \in Pcbs /\ NULL \in Pcbs
  BY <1>1, OneConnectionTypes DEF Told, NULL
<1>3. conn[NULL] = NoConn /\ conn[1] = NoConn
  BY <1>2 DEF Init, TcpInit
<1>4. /\ broker[1].phase = "new" /\ Owed = {} /\ rx = <<>> /\ ~mqtt_connected
      /\ pc = "app"
  BY <1>2 DEF Init, BrokerInit, MQTTClient_init, Owed
<1>5. \A i \in Slots : SlotKey(i) = NoKey
  BY KeysAre DEF Init, MQTTClient_init, mqtt_req_queue_init, NoRequest, SlotKey, StateAt
<1>6. Surround /\ ~Open
  BY <1>3, <1>4, <1>5 DEF Surround, Idle, NoConn, Open
<1> QED
  BY <1>1, <1>6 DEF Answered

\* The client's connection is the one there is, and the packets on their way
\* down are those that have arrived and those that are owed.
LEMMA UpIsOpen ==
  ASSUME Answered, OneConnection, IsUp
  PROVE  /\ Open /\ Tidy /\ Apart
         /\ Up = Elements(Out) /\ Down = Owed \cup Elements(Arriving)
<1>1. Apart
  BY DEF Answered, Told
<1>2. pcb = 1
  BY <1>1, OneConnectionTypes DEF IsUp, Answered, Surround, NULL
<1>3. Open /\ Tidy
  BY <1>2 DEF IsUp, Open, Answered
<1>4. Elements(Arriving) = Elements(rx) \cup Elements(conn[1].in)
  BY <1>1, ArrivingMoves
<1>5. Up = Elements(Out) /\ Down = Elements(rx) \cup Elements(conn[1].in) \cup Owed
  BY <1>2 DEF Up, Down, Out, Owed
<1> QED
  BY <1>1, <1>3, <1>4, <1>5

\* An acknowledgement finds the slot of what it acknowledges, and no other.
LEMMA AnsweredFinds ==
  ASSUME Answered, OneConnection
  PROVE  AckFindsItsRequest
<1> SUFFICES ASSUME IsUp, NEW p \in Down, p.type \in AckTypes
             PROVE  \E i \in Slots : /\ Found(p) = {i}
                                     /\ req_queue.requests[i].context = p.body
  BY DEF AckFindsItsRequest
<1>1. Apart /\ Inv /\ Matched /\ Down = Owed \cup Elements(Arriving)
  BY UpIsOpen DEF Tidy, Apart
<1>2. p \in Packets /\ WillAnswer(p)
  BY <1>1, PlaceTypes DEF Matched
<1>3. PICK i \in Slots : SlotKey(i) = KeyDown[p] /\ ContextAt(i) = p.body
  BY <1>2 DEF WillAnswer
<1>4. KeyDown[p] = << Awaited(p.type), p.id >> /\ Awaited(p.type) # "NO_REQUEST"
  BY <1>2, KeysAre DEF Awaited, AckTypes
<1>5. \A j \in Slots : j \in Found(p) <=> SlotKey(j) = KeyDown[p]
  BY <1>4 DEF Found, SlotsMatching, SlotKey, Key, StateAt, IdAt
<1>6. Found(p) = {i}
  <2>1. Found(p) \subseteq Slots
    BY DEF Found, SlotsMatching
  <2>2. KeyDown[p] # NoKey
    BY <1>2, KeysAre
  <2> QED
    BY <1>1, <1>3, <1>5, <2>1, <2>2 DEF Matched, SlotKeysDiffer
<1> QED
  BY <1>3, <1>6 DEF ContextAt

\* A set whose members are all equal has one.
LEMMA AllEqualIsOne ==
  ASSUME NEW S, S # {}, \A p, q \in S : p = q
  PROVE  \E p : S = {p}
<1>1. PICK p : p \in S
  OBVIOUS
<1>2. S = {p}
  BY <1>1
<1> QED
  BY <1>2

\* A key is the key of one packet.
LEMMA KeyIsOnePackets ==
  ASSUME Apart, OneConnection, Tidy, NEW k \in Keys
  PROVE  LET up == { p \in Elements(Out) : KeyUp[p] = k }
             down == { p \in Owed \cup Elements(Arriving) : KeyDown[p] = k }
         IN \/ down = {} /\ \E p : up = {p}
            \/ up = {} /\ \E p : down = {p}
<1> DEFINE up == { p \in Elements(Out) : KeyUp[p] = k }
           down == { p \in Owed \cup Elements(Arriving) : KeyDown[p] = k }
<1>0. OnePlace(Out, Owed, Arriving) /\ k # NoKey
  BY DEF Tidy, Keys, KeysOf, KeysIn
<1>1. \A p, q \in up : p = q
  <2>1. \A a, b \in 1 .. Len(Out) : KeyUp[Out[a]] = k /\ KeyUp[Out[b]] = k => a = b
    BY <1>0 DEF OnePlace, Once
  <2> QED
    BY <2>1 DEF Elements
<1>2. \A p, q \in Elements(Arriving) : KeyDown[p] = k /\ KeyDown[q] = k => p = q
  <2>1. \A a, b \in 1 .. Len(Arriving) :
          KeyDown[Arriving[a]] = k /\ KeyDown[Arriving[b]] = k => a = b
    BY <1>0 DEF OnePlace, Once
  <2> QED
    BY <2>1 DEF Elements
<1>3. \A p, q \in Owed : KeyDown[p] = k /\ KeyDown[q] = k => p = q
  BY <1>0 DEF OnePlace, OnceIn
<1>4. k \in KeysIn(Elements(Out), KeyUp) <=> up # {}
  BY <1>0 DEF KeysIn
<1>5. k \in KeysIn(Owed, KeyDown) <=> \E p \in Owed : KeyDown[p] = k
  BY <1>0 DEF KeysIn
<1>6. k \in KeysIn(Elements(Arriving), KeyDown) <=>
        \E p \in Elements(Arriving) : KeyDown[p] = k
  BY <1>0 DEF KeysIn
<1>7. \A p, q \in down : p = q
  BY <1>0, <1>2, <1>3, <1>5, <1>6 DEF OnePlace
<1>8. down = {} <=> k \notin KeysIn(Owed, KeyDown) /\ k \notin KeysIn(Elements(Arriving), KeyDown)
  BY <1>5, <1>6
<1>9. \/ up # {} /\ down = {}
      \/ up = {} /\ down # {}
  BY <1>0, <1>4, <1>8 DEF OnePlace, Keys, KeysOf
<1> HIDE DEF up, down
<1>10. up # {} => \E p : up = {p}
  BY <1>1, AllEqualIsOne
<1>11. down # {} => \E p : down = {p}
  BY <1>7, AllEqualIsOne
<1> QED
  BY <1>9, <1>10, <1>11 DEF up, down

\* A slot whose key is on its way waits.
LEMMA KeysWait ==
  ASSUME Apart, OneConnection, NEW i \in Slots, SlotKey(i) \in Keys
  PROVE  StateAt(i) \in { "WAITING_FOR_PUBACK", "WAITING_FOR_PUBREC",
                          "WAITING_FOR_PUBCOMP", "WAITING_FOR_SUBACK",
                          "WAITING_FOR_UNSUBACK", "WAITING_FOR_PUBREL" }
<1>0. /\ SlotKey(i) # NoKey /\ StateAt(i) # "NO_REQUEST"
      /\ SlotKey(i) = << StateAt(i), IdAt(i) >> /\ StateAt(i) \in ConvStates
      /\ Elements(Out) \subseteq Packets /\ Owed \cup Elements(Arriving) \subseteq Packets
  <2>1. SlotKey(i) # NoKey
    BY DEF Keys, KeysOf, KeysIn
  <2>2. StateAt(i) # "NO_REQUEST"
    BY <2>1, KeysAre DEF SlotKey
  <2>3. SlotKey(i) = << StateAt(i), IdAt(i) >>
    BY <2>2, KeysAre DEF SlotKey
  <2> QED
    BY <2>1, <2>2, <2>3, PlaceTypes, OpeningsAreNoSlots DEF Apart
<1>1. CASE SlotKey(i) \in KeysIn(Elements(Out), KeyUp)
  <2>1. PICK p \in Packets : SlotKey(i) = KeyUp[p]
    BY <1>0, <1>1 DEF KeysIn
  <2>2. Asking(p) # "NO_REQUEST"
    BY <1>0, <2>1, KeysAre
  <2>3. StateAt(i) = Asking(p)
    BY <1>0, <2>1, <2>2, KeysAre
  <2> QED
    BY <2>2, <2>3 DEF Asking
<1>2. CASE SlotKey(i) \in KeysIn(Owed, KeyDown) \cup KeysIn(Elements(Arriving), KeyDown)
  <2>1. PICK p \in Packets : SlotKey(i) = KeyDown[p]
    BY <1>0, <1>2 DEF KeysIn
  <2>2. p.type \in AckTypes
    BY <1>0, <2>1, NoAckNoSlot
  <2>3. StateAt(i) = Awaited(p.type)
    BY <1>0, <2>1, <2>2, KeysAre
  <2> QED
    BY <2>2, <2>3 DEF Awaited, AckTypes
<1> QED
  BY <1>1, <1>2 DEF Keys, KeysOf

\* A slot in use waits for one packet.
LEMMA AnsweredWaits ==
  ASSUME Answered, OneConnection, PacketIdsDiffer
  PROVE  SlotAwaitsOnePacket
<1> SUFFICES
      ASSUME Live, NEW i \in BusySlots(req_queue)
      PROVE  LET r == req_queue.requests[i]
                 questions == { p \in Up : p.type = Asks(r.conv_state)
                                          /\ p.id = r.packet_id }
                 answers == { p \in Down : /\ p.type \in AckTypes
                                           /\ Awaited(p.type) = r.conv_state
                                           /\ p.id = r.packet_id }
             IN Cardinality(questions) + Cardinality(answers) = 1
  BY DEF SlotAwaitsOnePacket
<1> DEFINE questions == { p \in Up : p.type = Asks(StateAt(i)) /\ p.id = IdAt(i) }
           answers == { p \in Down : /\ p.type \in AckTypes
                                     /\ Awaited(p.type) = StateAt(i) /\ p.id = IdAt(i) }
           k == SlotKey(i)
<1>0. /\ Apart /\ Tidy /\ Matched /\ Open /\ BrokerThere
      /\ Up = Elements(Out) /\ Down = Owed \cup Elements(Arriving)
      /\ Elements(Out) \subseteq Packets /\ Owed \cup Elements(Arriving) \subseteq Packets
  <2>1. /\ Apart /\ Tidy /\ Open
        /\ Up = Elements(Out) /\ Down = Owed \cup Elements(Arriving)
    BY UpIsOpen DEF Live
  <2>2. BrokerThere
    BY <2>1 DEF Live, Open, BrokerThere
  <2> QED
    BY <2>1, <2>2, PlaceTypes DEF Tidy
<1>1. /\ i \in Slots /\ StateAt(i) # "NO_REQUEST" /\ k # NoKey
      /\ k = << StateAt(i), IdAt(i) >> /\ k \in Keys
  <2>1. i \in Slots /\ StateAt(i) # "NO_REQUEST"
    BY DEF BusySlots, StateAt
  <2>2. k # NoKey /\ k = << StateAt(i), IdAt(i) >>
    BY <2>1, KeysAre DEF SlotKey
  <2> QED
    BY <1>0, <2>1, <2>2 DEF Matched
<1>2. StateAt(i) \in { "WAITING_FOR_PUBACK", "WAITING_FOR_PUBREC",
                       "WAITING_FOR_PUBCOMP", "WAITING_FOR_SUBACK",
                       "WAITING_FOR_UNSUBACK", "WAITING_FOR_PUBREL" }
  BY <1>0, <1>1, KeysWait
<1> HIDE DEF k
<1>3. answers = { p \in Owed \cup Elements(Arriving) : KeyDown[p] = k }
  <2>1. ASSUME NEW p \in Packets
        PROVE  KeyDown[p] = k <=> /\ p.type \in AckTypes
                                  /\ Awaited(p.type) = StateAt(i) /\ p.id = IdAt(i)
    <3>1. CASE p.type \in AckTypes
      BY <1>1, <3>1, KeysAre
    <3>2. CASE p.type \notin AckTypes
      BY <1>0, <1>1, <3>2, NoAckNoSlot DEF k
    <3> QED
      BY <3>1, <3>2
  <2> QED
    BY <1>0, <2>1
<1>4. questions = { p \in Elements(Out) : KeyUp[p] = k }
  <2>1. ASSUME NEW p \in Packets, KeyUp[p] = k
        PROVE  p.type = Asks(StateAt(i)) /\ p.id = IdAt(i)
    <3>1. Asking(p) = StateAt(i) /\ p.id = IdAt(i)
      <4>1. Asking(p) # "NO_REQUEST"
        BY <1>1, <2>1, KeysAre
      <4> QED
        BY <1>1, <2>1, <4>1, KeysAre
    <3> QED
      BY <1>2, <3>1 DEF Asking, Asks
  <2>2. ASSUME NEW p \in Elements(Out), p.type = Asks(StateAt(i)), p.id = IdAt(i)
        PROVE  KeyUp[p] = k
    <3>0. p \in Packets /\ HasAsked(p)
      BY <1>0 DEF Matched
    <3>1. CASE p.type # "PUBLISH"
      <4>1. Asking(p) = StateAt(i)
        BY <1>2, <2>2, <3>1 DEF Asks, Asking
      <4> QED
        BY <1>1, <2>2, <3>0, <4>1, KeysAre
    <3>2. CASE p.type = "PUBLISH"
      <4>1. StateAt(i) \in {"WAITING_FOR_PUBACK", "WAITING_FOR_PUBREC"}
        BY <1>2, <2>2, <3>2 DEF Asks
      <4>2. IdAt(i) # 0
        BY <1>0, <1>1, <4>1 DEF Matched, RequestStates
      <4>3. PICK j \in Slots : SlotKey(j) = KeyUp[p] /\ KeyUp[p] # NoKey
        BY <2>2, <3>0, <3>2, <4>2 DEF HasAsked, Plain
      <4>4. Asking(p) \in {"WAITING_FOR_PUBACK", "WAITING_FOR_PUBREC"}
        <5>1. Asking(p) # "NO_REQUEST"
          BY <3>0, <4>3, KeysAre
        <5> QED
          BY <3>2, <5>1 DEF Asking
      <4>5. KeyUp[p] = << Asking(p), p.id >>
        BY <3>0, <4>4, KeysAre
      <4>6. StateAt(j) = Asking(p) /\ IdAt(j) = IdAt(i)
        BY <2>2, <4>3, <4>5 DEF SlotKey, Key, NoKey
      <4>7. i = j
        <5>1. /\ StateAt(i) \in RequestStates /\ StateAt(j) \in RequestStates
              /\ StateAt(j) # "NO_REQUEST"
          BY <4>1, <4>4, <4>6 DEF RequestStates
        <5> QED
          BY <1>1, <4>6, <5>1 DEF PacketIdsDiffer, BusySlots, StateAt, IdAt
      <4> QED
        BY <4>3, <4>7 DEF k
    <3> QED
      BY <3>1, <3>2
  <2> QED
    BY <1>0, <2>1, <2>2
<1> HIDE DEF questions, answers
<1>5. \/ answers = {} /\ \E p : questions = {p}
      \/ questions = {} /\ \E p : answers = {p}
  BY <1>0, <1>1, <1>3, <1>4, KeyIsOnePackets
<1>6. Cardinality(questions) + Cardinality(answers) = 1
  <2>1. CASE answers = {} /\ \E p : questions = {p}
    <3>1. PICK p : questions = {p}
      BY <2>1
    <3>2. Cardinality(questions) = 1
      BY <3>1, FS_Singleton
    <3>3. Cardinality(answers) = 0
      BY <2>1, FS_EmptySet
    <3> QED
      BY <3>2, <3>3
  <2>2. CASE questions = {} /\ \E p : answers = {p}
    <3>1. PICK p : answers = {p}
      BY <2>2
    <3>2. Cardinality(answers) = 1
      BY <3>1, FS_Singleton
    <3>3. Cardinality(questions) = 0
      BY <2>2, FS_EmptySet
    <3> QED
      BY <3>2, <3>3
  <2> QED
    BY <1>5, <2>1, <2>2
<1> QED
  BY <1>6 DEF questions, answers, StateAt, IdAt

----
(***************************************************************************)
(* The packet ids.  Until the counter of get_packet_id starts again, a     *)
(* request takes an id above all those taken before it, on whatever        *)
(* connection they were.                                                   *)
(***************************************************************************)
\* No id has been taken twice, and no request has an id not yet taken.
IdsAscend ==
  /\ last_packet_id <= requests
  /\ \A i \in Slots : StateAt(i) \in RequestStates => IdAt(i) \in 1 .. last_packet_id
  /\ PacketIdsDiffer

\* In queue q the requests are some of those of req_queue.
KeepsIds(q) ==
  \A j \in Slots : q.requests[j].conv_state \in RequestStates =>
    StateAt(j) \in RequestStates /\ q.requests[j].packet_id = IdAt(j)

\* No state but NO_REQUEST comes after the wait for the last answer, and none of
\* a request after the states of a message.
LEMMA AfterStates ==
  /\ \A state \in { "WAITING_FOR_PUBACK", "WAITING_FOR_PUBCOMP", "WAITING_FOR_SUBACK",
                    "WAITING_FOR_UNSUBACK", "WAITING_FOR_PUBREL", "SENDING_PUBCOMP",
                    "SENDING_PUBACK", "SENDING_PUBREC" } :
       get_next_conv_state(state) \notin RequestStates
  /\ Awaited("PUBREC") \in RequestStates
  /\ Awaited("PUBREL") = "WAITING_FOR_PUBREL"
BY DEF get_next_conv_state, RequestStates, Awaited

\* A slot an acknowledgement moves on keeps its id, or is no request's any more.
LEMMA FoundKeepsIds ==
  ASSUME Inv, NEW p \in Packets, p.type \in AckTypes, Found(p) # {}
  PROVE  /\ KeepsIds(FindRequest(p))
         /\ p.type = "PUBREC" =>
              KeepsIds(mqtt_req_queue_update(FindRequest(p), "SENDING_PUBREL",
                                             FirstSlot(Found(p))))
         /\ p.type = "PUBREL" =>
              KeepsIds(mqtt_req_queue_update(FindRequest(p), "SENDING_PUBCOMP",
                                             FirstSlot(Found(p))))
<1> DEFINE i == FirstSlot(Found(p))
<1>1. /\ i \in Slots /\ StateAt(i) = Awaited(p.type)
      /\ req_queue.requests \in [Slots -> Requests]
  BY FoundSlot DEF Inv, TypeOK, ClientTypeOK, QueueOf
<1>2. ASSUME NEW j \in Slots, NEW state, NEW r,
             r = IF j = i THEN [req_queue.requests[j] EXCEPT
                                  !.conv_state = get_next_conv_state(state)]
                 ELSE req_queue.requests[j],
             \/ StateAt(i) \in RequestStates
             \/ get_next_conv_state(state) \notin RequestStates,
             r.conv_state \in RequestStates
      PROVE  StateAt(j) \in RequestStates /\ r.packet_id = IdAt(j)
  <2>1. req_queue.requests[j] \in Requests
    BY <1>1
  <2>2. CASE j = i
    <3>1. r.conv_state = get_next_conv_state(state) /\ r.packet_id = IdAt(j)
      BY <1>2, <2>1, <2>2 DEF Requests, IdAt
    <3> QED
      BY <1>2, <2>2, <3>1
  <2>3. CASE j # i
    BY <1>2, <2>3 DEF StateAt, IdAt
  <2> QED
    BY <2>2, <2>3
<1> HIDE DEF i
<1>3. KeepsIds(FindRequest(p))
  <2>1. \/ StateAt(i) \in RequestStates
        \/ get_next_conv_state(Awaited(p.type)) \notin RequestStates
    BY <1>1 DEF AckTypes, Awaited, RequestStates, get_next_conv_state
  <2>2. PICK q, state : q = FindRequest(p) /\ state = Awaited(p.type)
    OBVIOUS
  <2>3. ASSUME NEW j \in Slots, q.requests[j].conv_state \in RequestStates
        PROVE  StateAt(j) \in RequestStates /\ q.requests[j].packet_id = IdAt(j)
    <3>1. q.requests[j] =
            IF j = i THEN [req_queue.requests[j] EXCEPT
                             !.conv_state = get_next_conv_state(state)]
            ELSE req_queue.requests[j]
      BY <2>2, FoundSlotFound DEF i
    <3> QED
      BY <1>2, <2>1, <2>2, <2>3, <3>1
  <2> QED
    BY <2>2, <2>3 DEF KeepsIds
<1>4. ASSUME NEW state, \/ StateAt(i) \in RequestStates
                        \/ get_next_conv_state(state) \notin RequestStates
      PROVE  KeepsIds(mqtt_req_queue_update(FindRequest(p), state, i))
  <2>1. PICK q : q = mqtt_req_queue_update(FindRequest(p), state, i)
    OBVIOUS
  <2>2. ASSUME NEW j \in Slots, q.requests[j].conv_state \in RequestStates
        PROVE  StateAt(j) \in RequestStates /\ q.requests[j].packet_id = IdAt(j)
    <3>1. q.requests[j] =
            IF j = i THEN [req_queue.requests[j] EXCEPT
                             !.conv_state = get_next_conv_state(state)]
            ELSE req_queue.requests[j]
      BY <2>1, FoundSlotMoves DEF i
    <3> QED
      BY <1>2, <1>4, <2>2, <3>1
  <2> QED
    BY <2>1, <2>2 DEF KeepsIds
<1>5. p.type = "PUBREC" => KeepsIds(mqtt_req_queue_update(FindRequest(p), "SENDING_PUBREL", i))
  BY <1>1, <1>4, AfterStates
<1>6. p.type = "PUBREL" => KeepsIds(mqtt_req_queue_update(FindRequest(p), "SENDING_PUBCOMP", i))
  BY <1>4, AfterStates
<1> QED
  BY <1>3, <1>5, <1>6 DEF i

\* The slot of a message kept is no request's.
LEMMA KeptKeepsIds ==
  ASSUME Inv, NEW p \in Packets, ~Discarded(p),
         NEW state \in {"SENDING_PUBACK", "SENDING_PUBREC"}
  PROVE  /\ KeepsIds(Kept(p, state))
         /\ KeepsIds(mqtt_req_queue_update(Kept(p, state), state, AddedAt))
<1>1. ASSUME NEW j \in Slots, NEW r, NEW s, s \notin RequestStates,
             r = IF j = AddedAt
                 THEN [ packet_id |-> p.id, context |-> p.body, conv_state |-> s ]
                 ELSE req_queue.requests[j],
             r.conv_state \in RequestStates
      PROVE  StateAt(j) \in RequestStates /\ r.packet_id = IdAt(j)
  BY <1>1 DEF StateAt, IdAt
<1>2. state \notin RequestStates /\ get_next_conv_state(state) \notin RequestStates
  BY DEF get_next_conv_state, RequestStates
<1>3. KeepsIds(Kept(p, state))
  <2>1. PICK q : q = Kept(p, state)
    OBVIOUS
  <2>2. ASSUME NEW j \in Slots, q.requests[j].conv_state \in RequestStates
        PROVE  StateAt(j) \in RequestStates /\ q.requests[j].packet_id = IdAt(j)
    <3>1. q.requests[j] =
            IF j = AddedAt
            THEN [ packet_id |-> p.id, context |-> p.body, conv_state |-> state ]
            ELSE req_queue.requests[j]
      BY <2>1, AddedSlot DEF Discarded, AddedAt, Kept
    <3> QED
      BY <1>1, <1>2, <2>2, <3>1
  <2> QED
    BY <2>1, <2>2 DEF KeepsIds
<1>4. KeepsIds(mqtt_req_queue_update(Kept(p, state), state, AddedAt))
  <2>1. PICK q : q = mqtt_req_queue_update(Kept(p, state), state, AddedAt)
    OBVIOUS
  <2>2. ASSUME NEW j \in Slots, q.requests[j].conv_state \in RequestStates
        PROVE  StateAt(j) \in RequestStates /\ q.requests[j].packet_id = IdAt(j)
    <3>1. q.requests[j] =
            IF j = AddedAt
            THEN [ packet_id |-> p.id, context |-> p.body,
                   conv_state |-> get_next_conv_state(state) ]
            ELSE req_queue.requests[j]
      BY <2>1, KeptSlotMoves
    <3> QED
      BY <1>1, <1>2, <2>2, <3>1
  <2> QED
    BY <2>1, <2>2 DEF KeepsIds
<1> QED
  BY <1>3, <1>4

\* A step that makes no request.
LEMMA QuietIds ==
  ASSUME Inv, IdsAscend, KeepsIds(req_queue'), UNCHANGED last_packet_id,
         requests <= requests', requests' \in Nat
  PROVE  IdsAscend'
<1>1. last_packet_id \in Nat /\ requests \in Nat
  BY ClientAssumption DEF Inv, TypeOK, ClientTypeOK, PacketIds
<1>2. \A j \in Slots : StateAt(j)' \in RequestStates =>
         StateAt(j) \in RequestStates /\ IdAt(j)' = IdAt(j)
  BY DEF KeepsIds, StateAt, IdAt
<1>3. \A i, j \in BusySlots(req_queue) :
        /\ i # j /\ StateAt(i) \in RequestStates /\ StateAt(j) \in RequestStates
        => IdAt(i) # IdAt(j)
  BY DEF IdsAscend, PacketIdsDiffer, StateAt, IdAt
<1>4. \A i \in Slots : StateAt(i) \in RequestStates => i \in BusySlots(req_queue)
  BY DEF RequestStates, BusySlots, StateAt
<1>5. ASSUME NEW i \in BusySlots(req_queue)', NEW j \in BusySlots(req_queue)', i # j,
             StateAt(i)' \in RequestStates, StateAt(j)' \in RequestStates
      PROVE  IdAt(i)' # IdAt(j)'
  <2>1. i \in Slots /\ j \in Slots
    BY DEF BusySlots
  <2> QED
    BY <1>2, <1>3, <1>4, <1>5, <2>1
<1>6. PacketIdsDiffer'
  BY <1>5 DEF PacketIdsDiffer, StateAt, IdAt
<1> QED
  BY <1>1, <1>2, <1>6 DEF IdsAscend

\* A request takes the next id.
LEMMA RequestIds ==
  ASSUME Inv, IdsAscend, MaxRequests <= MaxPacketId, requests < MaxRequests,
         NEW type, NEW qos, NEW state, Request(type, qos, state)
  PROVE  IdsAscend'
<1>1. /\ last_packet_id \in Nat /\ requests \in Nat
      /\ MaxPacketId \in Nat /\ MaxRequests \in Nat
  BY ClientAssumption DEF Inv, TypeOK, ClientTypeOK, PacketIds
<1>2. last_packet_id' = last_packet_id + 1 /\ requests' = requests + 1
  BY <1>1 DEF Request, get_packet_id, IdsAscend
<1>3. PICK id, s : id = last_packet_id' /\ s = FirstSlot(FreeSlots(req_queue))
  OBVIOUS
<1>4. /\ s \in Slots
      /\ \A j \in Slots : req_queue'.requests[j] =
           IF j = s THEN [ packet_id |-> id, context |-> requests + 1, conv_state |-> state ]
           ELSE req_queue.requests[j]
  <2>1. PICK req : req = [ packet_id |-> id, context |-> requests + 1, conv_state |-> state ]
    OBVIOUS
  <2>2. req_queue' = mqtt_req_queue_add(req_queue, req) /\ ~is_request_queue_full(req_queue)
    BY <1>3, <2>1 DEF Request
  <2> QED
    BY <1>3, <2>1, <2>2, AddedSlot
<1>5. \A j \in Slots : IF j = s THEN IdAt(j)' = id
                       ELSE StateAt(j)' = StateAt(j) /\ IdAt(j)' = IdAt(j)
  BY <1>4 DEF StateAt, IdAt
<1>6. \A i \in Slots : StateAt(i) \in RequestStates =>
         IdAt(i) \in 1 .. last_packet_id /\ i \in BusySlots(req_queue)
  BY DEF IdsAscend, RequestStates, BusySlots, StateAt
<1>7. \A i, j \in BusySlots(req_queue) :
        /\ i # j /\ StateAt(i) \in RequestStates /\ StateAt(j) \in RequestStates
        => IdAt(i) # IdAt(j)
  BY DEF IdsAscend, PacketIdsDiffer, StateAt, IdAt
<1>8. ASSUME NEW i \in BusySlots(req_queue)', NEW j \in BusySlots(req_queue)', i # j,
             StateAt(i)' \in RequestStates, StateAt(j)' \in RequestStates
      PROVE  IdAt(i)' # IdAt(j)'
  <2>1. i \in Slots /\ j \in Slots
    BY DEF BusySlots
  <2>2. CASE i # s /\ j # s
    BY <1>5, <1>6, <1>7, <1>8, <2>1, <2>2
  <2>3. CASE i = s
    <3>1. IdAt(i)' = last_packet_id + 1 /\ IdAt(j)' \in 1 .. last_packet_id
      BY <1>2, <1>3, <1>5, <1>6, <1>8, <2>1, <2>3
    <3> QED
      BY <1>1, <3>1
  <2>4. CASE j = s
    <3>1. IdAt(j)' = last_packet_id + 1 /\ IdAt(i)' \in 1 .. last_packet_id
      BY <1>2, <1>3, <1>5, <1>6, <1>8, <2>1, <2>4
    <3> QED
      BY <1>1, <3>1
  <2> QED
    BY <2>2, <2>3, <2>4
<1>9. PacketIdsDiffer'
  BY <1>8 DEF PacketIdsDiffer, StateAt, IdAt
<1>10. last_packet_id' <= requests'
  BY <1>1, <1>2 DEF IdsAscend
<1>11. \A i \in Slots : StateAt(i)' \in RequestStates => IdAt(i)' \in 1 .. last_packet_id'
  BY <1>1, <1>2, <1>3, <1>5, <1>6
<1> QED
  BY <1>9, <1>10, <1>11 DEF IdsAscend

\* The client's handlers of the answers and of the messages.
LEMMA ReceptionKeepsIds ==
  ASSUME Inv, get_mqtt_packet
  PROVE  /\ KeepsIds(req_queue') /\ UNCHANGED <<last_packet_id, requests>>
<1>0. PICK p : p = Head(rx)
  OBVIOUS
<1>1. UNCHANGED <<last_packet_id, requests>>
  BY DEF get_mqtt_packet, HandleConnack, HandlePuback, HandlePubrec, HandlePubcomp,
     HandleSuback, HandleUnsuback, HandleLastAck, HandlePubrel, HandlePingresp,
     HandlePublishDiscarded, HandlePublishQos0, HandlePublishQos1, HandlePublishQos2,
     RequestNotFound, Answer, AnswerDoesNotFit, queueVars, appVars
<1> SUFFICES KeepsIds(req_queue')
  BY <1>1
<1>2. CASE UNCHANGED req_queue
  BY <1>2 DEF KeepsIds, StateAt, IdAt
<1>3. CASE rx # <<>> /\ p.type \in AckTypes /\ Found(p) # {}
           /\ req_queue' = FindRequest(p)
  <2>1. p \in Packets
    BY <1>0, <1>3, PacketTypesKept
  <2>2. KeepsIds(FindRequest(p))
    BY <1>3, <2>1, FoundKeepsIds
  <2> QED
    BY <1>3, <2>2
<1>4. CASE HandlePubrec \/ HandlePubrel
  <2>1. /\ rx # <<>> /\ Found(p) # {}
        /\ HandlePubrec => p.type = "PUBREC"
        /\ HandlePubrel => p.type = "PUBREL"
    BY <1>0, <1>4 DEF HandlePubrec, HandlePubrel, Receiving
  <2>2. p \in Packets /\ p.type \in AckTypes
    BY <1>0, <1>4, <2>1, PacketTypesKept DEF AckTypes
  <2>3. \/ req_queue' = FindRequest(p)
        \/ /\ p.type = "PUBREC"
           /\ req_queue' = mqtt_req_queue_update(FindRequest(p),
                             "SENDING_PUBREL", FirstSlot(Found(p)))
        \/ /\ p.type = "PUBREL"
           /\ req_queue' = mqtt_req_queue_update(FindRequest(p),
                             "SENDING_PUBCOMP", FirstSlot(Found(p)))
    BY <1>0, <1>4, <2>1 DEF HandlePubrec, HandlePubrel, Answer, AnswerDoesNotFit
  <2>4. KeepsIds(FindRequest(p))
    BY <2>1, <2>2, FoundKeepsIds
  <2>5. p.type = "PUBREC" =>
          KeepsIds(mqtt_req_queue_update(FindRequest(p), "SENDING_PUBREL",
                                         FirstSlot(Found(p))))
    BY <2>1, <2>2, FoundKeepsIds
  <2>6. p.type = "PUBREL" =>
          KeepsIds(mqtt_req_queue_update(FindRequest(p), "SENDING_PUBCOMP",
                                         FirstSlot(Found(p))))
    BY <2>1, <2>2, FoundKeepsIds
  <2> QED
    BY <2>3, <2>4, <2>5, <2>6
<1>5. CASE HandlePublishQos1 \/ HandlePublishQos2
  <2>1. rx # <<>> /\ ~Discarded(p)
    BY <1>0, <1>5 DEF HandlePublishQos1, HandlePublishQos2, Receiving
  <2>2. p \in Packets
    BY <1>0, <2>1, PacketTypesKept
  <2>3. PICK state \in {"SENDING_PUBACK", "SENDING_PUBREC"} :
          \/ req_queue' = Kept(p, state)
          \/ req_queue' = mqtt_req_queue_update(Kept(p, state), state, AddedAt)
    BY <1>0, <1>5 DEF HandlePublishQos1, HandlePublishQos2, Answer, AnswerDoesNotFit
  <2>4. KeepsIds(Kept(p, state))
    BY <2>1, <2>2, KeptKeepsIds
  <2>5. KeepsIds(mqtt_req_queue_update(Kept(p, state), state, AddedAt))
    BY <2>1, <2>2, KeptKeepsIds
  <2> QED
    BY <2>3, <2>4, <2>5
<1>6. CASE HandleConnack \/ HandlePingresp \/ HandlePublishDiscarded
           \/ HandlePublishQos0 \/ RequestNotFound
  BY <1>2, <1>6 DEF HandleConnack, HandlePingresp, HandlePublishDiscarded,
     HandlePublishQos0, RequestNotFound, queueVars
<1>7. CASE HandlePuback \/ HandlePubcomp \/ HandleSuback \/ HandleUnsuback
  BY <1>0, <1>3, <1>7 DEF HandlePuback, HandlePubcomp, HandleSuback,
     HandleUnsuback, HandleLastAck, Receiving, AckTypes
<1> QED
  BY <1>1, <1>4, <1>5, <1>6, <1>7 DEF get_mqtt_packet

\* No step gives a request an id that another request has.
LEMMA NextAscends ==
  ASSUME Inv, IdsAscend, MaxRequests <= MaxPacketId, [Next]_vars
  PROVE  IdsAscend'
<1>0. requests \in Nat /\ requests <= requests + 1 /\ requests + 1 \in Nat
  BY ClientAssumption DEF Inv, TypeOK, ClientTypeOK
<1>1. CASE UNCHANGED queueVars /\ requests' \in {requests, requests + 1}
  <2>1. KeepsIds(req_queue')
    BY <1>1 DEF KeepsIds, StateAt, IdAt, queueVars
  <2> QED
    BY <1>0, <1>1, <2>1, QuietIds DEF queueVars
<1>2. CASE MQTTClient_publish \/ MQTTClient_subscribe \/ MQTTClient_unsubscribe
  <2>1. CASE PublishQos0
    BY <1>1, <2>1 DEF PublishQos0
  <2>2. CASE ~PublishQos0
    <3>1. PICK type, qos, state : Request(type, qos, state) /\ requests < MaxRequests
      BY <1>2, <2>2 DEF MQTTClient_publish, MQTTClient_subscribe,
         MQTTClient_unsubscribe, MayCall
    <3> QED
      BY <3>1, RequestIds
  <2> QED
    BY <2>1, <2>2
<1>3. CASE \/ MQTTClient_connect \/ ConnectMemoryErr \/ ConnectTcpFailure
           \/ MQTTClient_disconnect \/ MQTTClient_loop
  BY <1>1, <1>3 DEF MQTTClient_connect, ConnectMemoryErr, ConnectTcpFailure,
     MQTTClient_disconnect, MQTTClient_loop, appVars
<1>4. CASE Waiting \/ Tick
  BY <1>1, <1>4 DEF Waiting, wait_for_connack, LoopNotConnected,
     mqtt_handle_keepalive, mqtt_handle_timeout_on_ping, PingProcessed, Tick, appVars
<1>5. CASE get_mqtt_packet
  BY <1>0, <1>5, ReceptionKeepsIds, QuietIds
<1>6. CASE \E c \in Conns : Network(c) \/ Broker(c)
  <2>1. PICK c \in Conns : Network(c) \/ Broker(c)
    BY <1>6
  <2>2. CASE Network(c)
    BY <1>1, <2>2 DEF Network, tcp_connected_cb, tcp_received_cb,
       tcp_received_cb_closed, DataAfterClose, tcp_error_cb, clientVars, appVars
  <2>3. CASE Broker(c)
    BY <1>1, <2>3 DEF Broker, BrokerConnect, BrokerReceive,
       BrokerDisconnected, BrokerIgnores, BrokerReply, BrokerPublish,
       BrokerClose, clientVars, appVars
  <2> QED
    BY <2>1, <2>2, <2>3
<1>7. CASE UNCHANGED vars
  BY <1>1, <1>7 DEF vars, clientVars, appVars
<1> QED
  BY <1>2, <1>3, <1>4, <1>5, <1>6, <1>7 DEF Next, Application

----
(***************************************************************************)
(* The theorems.                                                           *)
(***************************************************************************)
\* While get_packet_id has not started again at 1 (no more requests than ids),
\* the requests that wait for answers have different packet ids, those that
\* earlier connections left in the queue included.
THEOREM IdsDifferUntilTheyStartAgain ==
  ASSUME MaxRequests <= MaxPacketId
  PROVE  Spec => []PacketIdsDiffer
<1>1. Init => IdsAscend
  <2> SUFFICES ASSUME Init
               PROVE  IdsAscend
    OBVIOUS
  <2>1. last_packet_id = 0 /\ requests = 0
    BY DEF Init, MQTTClient_init
  <2>2. \A i \in Slots : StateAt(i) = "NO_REQUEST"
    BY DEF Init, MQTTClient_init, mqtt_req_queue_init, NoRequest, StateAt
  <2> QED
    BY <2>1, <2>2 DEF IdsAscend, PacketIdsDiffer, RequestStates, StateAt, BusySlots
<1>2. Inv /\ IdsAscend /\ [Next]_vars => IdsAscend'
  BY NextAscends
<1>3. IdsAscend => PacketIdsDiffer
  BY DEF IdsAscend
<1> QED
  BY <1>1, <1>2, <1>3, InvAlways, PTL DEF Spec

\* On one connection, while no id is taken again before its request is over,
\* every acknowledgement under way finds one slot, that of the request or
\* message it answers: mqtt_req_queue_find returns the right context.
THEOREM AcksFindTheirRequests ==
  ASSUME OneConnection
  PROVE  Spec /\ []PacketIdsDiffer => []AckFindsItsRequest
<1>1. Init => Answered
  BY InitAnswered
<1>2. Answered /\ PacketIdsDiffer /\ PacketIdsDiffer' /\ [Next]_vars => Answered'
  BY NextAnswered
<1>3. Answered => AckFindsItsRequest
  BY AnsweredFinds
<1> QED
  BY <1>1, <1>2, <1>3, PTL DEF Spec

\* Under the same conditions, while the accepted connection is up, every slot in
\* use waits for one packet on its way: its question or the answer, never both,
\* so none is lost, sent twice or answered twice.
THEOREM SlotsAwaitOnePacket ==
  ASSUME OneConnection
  PROVE  Spec /\ []PacketIdsDiffer => []SlotAwaitsOnePacket
<1>1. Init => Answered
  BY InitAnswered
<1>2. Answered /\ PacketIdsDiffer /\ PacketIdsDiffer' /\ [Next]_vars => Answered'
  BY NextAnswered
<1>3. Answered /\ PacketIdsDiffer => SlotAwaitsOnePacket
  BY AnsweredWaits
<1> QED
  BY <1>1, <1>2, <1>3, PTL DEF Spec

\* Both hold of a session on one connection with no more requests than ids.
THEOREM OneSessionIsAnswered ==
  ASSUME OneConnection, MaxRequests <= MaxPacketId
  PROVE  Spec => []AckFindsItsRequest /\ []SlotAwaitsOnePacket
BY AcksFindTheirRequests, SlotsAwaitOnePacket, IdsDifferUntilTheyStartAgain, PTL

====
