---- MODULE MqttDeliveryProofs ----
(***************************************************************************)
(* What the broker was told is safe has reached the application, as long   *)
(* as the client has one connection (with a second one it may not: the run *)
(* stale_session).  The invariant follows a packet id of the broker: while *)
(* its message is in flight, the PUBLISH, the slot that keeps the message, *)
(* and the last acknowledgement of it all speak of that message, and only  *)
(* one of them is there.                                                   *)
(***************************************************************************)
EXTENDS MqttPromiseProofs

OneConnection == MaxConnects = 1

IdAt(i) == req_queue.requests[i].packet_id
InFlight == broker[1].inflight
IsLastAck(p) == p.type \in {"PUBACK", "PUBCOMP"}

\* A message on its way to the client that wants an answer.
Coming(p) ==
  /\ p.type = "PUBLISH" /\ p.qos # 0
  /\ \E c \in Pcbs : \E k \in 1 .. Len(Lane(c)) : Lane(c)[k] = p

\* The broker uses an id for one message at a time.
InFlightDiffer ==
  /\ \A f \in InFlight : f.body \in 1 .. msgs_sent
  /\ \A f, g \in InFlight : f.id = g.id \/ f.body = g.body => f = g

\* What is on its way, and what is kept, is in flight under its id.
ComingInFlight ==
  \A p : Coming(p) => \E f \in InFlight : f.id = p.id /\ f.body = p.body
KeptInFlight ==
  \A i \in Slots : Releasable(i) =>
    \E f \in InFlight : f.id = IdAt(i) /\ f.body = ContextAt(i)

\* The last acknowledgement of a message is sent once it is delivered, and
\* once only.
LastAcksTrue(s) ==
  \A k \in 1 .. Len(s) : IsLastAck(s[k]) =>
    \E f \in InFlight : f.id = s[k].id /\ delivered[f.body] = 1
LastAcksDiffer(s) ==
  \A k, l \in 1 .. Len(s) :
    IsLastAck(s[k]) /\ IsLastAck(s[l]) /\ s[k].id = s[l].id => k = l

\* Until the broker's side of the connection ends.
BrokerThere == broker[1].phase \in {"new", "accepted"}
Tracked ==
  /\ InFlightDiffer /\ ComingInFlight /\ KeptInFlight
  /\ LastAcksTrue(conn[1].out) /\ LastAcksDiffer(conn[1].out)

Told ==
  /\ Apart /\ AckedWasDelivered /\ acked \subseteq 1 .. MaxMsgs
  /\ BrokerThere => Tracked


----
(***************************************************************************)
(* Sequences of packets.                                                   *)
(***************************************************************************)
\* The last acknowledgements in s are those of a part of t, in order.
AcksFrom(s, t) ==
  \E off \in Nat : \A k \in 1 .. Len(s) :
    IsLastAck(s[k]) => k + off \in 1 .. Len(t) /\ s[k] = t[k + off]

\* What TCP and the client do to the packets on their way to the broker.
LEMMA AcksFromParts ==
  ASSUME NEW t \in Seq(Packets)
  PROVE  /\ AcksFrom(t, t) /\ AcksFrom(<<>>, t)
         /\ t # <<>> => AcksFrom(Tail(t), t)
         /\ \A p \in Packets : ~IsLastAck(p) => AcksFrom(Append(t, p), t)
<1>1. Len(t) \in Nat
  BY LenProperties
<1>2. AcksFrom(t, t) /\ AcksFrom(<<>>, t)
  <2>1. \A k \in 1 .. Len(t) : k + 0 \in 1 .. Len(t) /\ t[k] = t[k + 0]
    BY <1>1
  <2>2. Len(<<>>) = 0 /\ 0 \in Nat
    BY EmptySeq
  <2> QED
    BY <2>1, <2>2 DEF AcksFrom
<1>3. ASSUME t # <<>>
      PROVE  AcksFrom(Tail(t), t)
  <2>1. /\ Len(Tail(t)) = Len(t) - 1
        /\ \A k \in 1 .. Len(Tail(t)) : Tail(t)[k] = t[k + 1]
    BY <1>3, HeadTailProperties
  <2>2. \A k \in 1 .. Len(Tail(t)) : k + 1 \in 1 .. Len(t)
    BY <1>1, <2>1
  <2> QED
    BY <2>1, <2>2 DEF AcksFrom
<1>4. ASSUME NEW p \in Packets, ~IsLastAck(p)
      PROVE  AcksFrom(Append(t, p), t)
  <2>1. /\ Len(Append(t, p)) = Len(t) + 1
        /\ \A k \in 1 .. Len(t) : Append(t, p)[k] = t[k]
        /\ Append(t, p)[Len(t) + 1] = p
    BY AppendProperties
  <2>2. \A k \in 1 .. Len(Append(t, p)) : IsLastAck(Append(t, p)[k]) =>
          k + 0 \in 1 .. Len(t) /\ Append(t, p)[k] = t[k + 0]
    BY <1>1, <1>4, <2>1
  <2> QED
    BY <2>2 DEF AcksFrom
<1> QED
  BY <1>2, <1>3, <1>4

\* A part of a part is a part.
LEMMA AcksFromTransitive ==
  ASSUME NEW r, NEW s, NEW t, AcksFrom(r, s), AcksFrom(s, t), Len(r) \in Nat
  PROVE  AcksFrom(r, t)
<1>1. PICK a \in Nat : \A k \in 1 .. Len(r) :
        IsLastAck(r[k]) => k + a \in 1 .. Len(s) /\ r[k] = s[k + a]
  BY DEF AcksFrom
<1>2. PICK b \in Nat : \A k \in 1 .. Len(s) :
        IsLastAck(s[k]) => k + b \in 1 .. Len(t) /\ s[k] = t[k + b]
  BY DEF AcksFrom
<1>3. ASSUME NEW k \in 1 .. Len(r), IsLastAck(r[k])
      PROVE  k + (a + b) \in 1 .. Len(t) /\ r[k] = t[k + (a + b)]
  <2>1. k + a \in 1 .. Len(s) /\ r[k] = s[k + a]
    BY <1>1, <1>3
  <2>2. (k + a) + b \in 1 .. Len(t) /\ s[k + a] = t[(k + a) + b]
    BY <1>2, <1>3, <2>1
  <2>3. (k + a) + b = k + (a + b)
    OBVIOUS
  <2> QED
    BY <2>1, <2>2, <2>3
<1>4. PICK c \in Nat : c = a + b
  OBVIOUS
<1> QED
  BY <1>3, <1>4 DEF AcksFrom

\* The types of what a step starts from, with one connection.
LEMMA OneConnectionTypes ==
  ASSUME Apart, OneConnection
  PROVE  /\ Conns = {1} /\ Pcbs = {0, 1} /\ conn \in [Pcbs -> ConnRecords]
         /\ conn[1] \in ConnRecords /\ conn[1].out \in Seq(Packets)
         /\ conn[1].in \in Seq(Packets) /\ rx \in Seq(Packets) /\ pcb \in {0, 1}
         /\ broker \in [Conns -> BrokerRecords] /\ broker[1] \in BrokerRecords
<1>1. Conns = {1} /\ Pcbs = {0, 1}
  BY DEF OneConnection, Conns, Pcbs, NULL
<1>2. broker \in [Conns -> BrokerRecords]
  BY DEF Apart, Inv, TypeOK, BrokerTypeOK, BrokerRecords
<1> QED
  BY <1>1, <1>2, ApartTypes DEF ConnRecords

----
(***************************************************************************)
(* Messages on their way to the client.                                    *)
(***************************************************************************)
NoneComes == \A p : Coming(p)' => Coming(p)

\* So all that is shown of a message under way holds for one that is coming.
LEMMA ComingIsUnderWay ==
  ASSUME NEW p, Coming(p)
  PROVE  UnderWay(p.body)
BY DEF Coming, UnderWay, Carries

\* Packets taken off a segment, and lost with a connection, bring none.
LEMMA DroppedBringsNone ==
  ASSUME Apart, LanesDropped
  PROVE  NoneComes
<1> SUFFICES ASSUME NEW c \in Pcbs, NEW k \in 1 .. Len(Lane(c)')
             PROVE  \E j \in 1 .. Len(Lane(c)) : Lane(c)'[k] = Lane(c)[j]
  BY DEF NoneComes, Coming
<1>1. rx \in Seq(Packets) /\ Len(rx) \in Nat
  BY ApartTypes, LenProperties
<1>2. CASE c # NULL
  <2>1. Lane(c)' = Lane(c) \/ Lane(c)' = <<>>
    BY <1>2 DEF LanesDropped, Lane, Pcbs
  <2> QED
    BY <2>1, EmptySeq
<1>3. CASE c = NULL /\ rx # <<>> /\ rx' = Tail(rx)
  <2>1. /\ Len(Tail(rx)) = Len(rx) - 1
        /\ \A j \in 1 .. Len(Tail(rx)) : Tail(rx)[j] = rx[j + 1]
    BY <1>1, <1>3, HeadTailProperties
  <2>2. k + 1 \in 1 .. Len(rx) /\ Tail(rx)[k] = rx[k + 1]
    BY <1>1, <1>3, <2>1 DEF Lane
  <2> QED
    BY <1>3, <2>2 DEF Lane
<1>4. CASE c = NULL /\ (rx' = rx \/ rx' = <<>>)
  BY <1>4, EmptySeq DEF Lane
<1> QED
  BY <1>2, <1>3, <1>4 DEF LanesDropped

\* A segment is made of packets that were on their way.
LEMMA HandedBringsNone ==
  ASSUME Apart, OneConnection, NEW n \in 1 .. Len(conn[1].in),
         rx' = SubSeq(conn[1].in, 1, n),
         conn'[1].in = SubSeq(conn[1].in, n + 1, Len(conn[1].in))
  PROVE  NoneComes
<1> DEFINE s == conn[1].in
<1>1. /\ s \in Seq(Packets) /\ Len(s) \in Nat /\ \A k \in 1 .. Len(s) : s[k] \in Packets
      /\ Pcbs = {0, 1} /\ Lane(1) = s /\ Lane(1)' = conn'[1].in /\ Lane(0)' = rx'
  BY OneConnectionTypes, LenProperties, ElementOfSeq DEF Lane, NULL
<1>2. /\ Len(rx') = n /\ \A k \in 1 .. n : rx'[k] = s[k]
  BY <1>1, SubSeqProperties
<1>3. /\ Len(conn'[1].in) = Len(s) - n
      /\ \A k \in 1 .. Len(s) - n : conn'[1].in[k] = s[k + n]
  BY <1>1, SubSeqProperties
<1>4. 1 \in Pcbs
  BY <1>1
<1> SUFFICES ASSUME NEW c \in Pcbs, NEW k \in 1 .. Len(Lane(c)')
             PROVE  \E j \in 1 .. Len(Lane(1)) : Lane(c)'[k] = Lane(1)[j]
  BY <1>4 DEF NoneComes, Coming
<1>5. CASE c = 0
  <2>1. k \in 1 .. Len(s) /\ Lane(c)'[k] = s[k]
    BY <1>1, <1>2, <1>5
  <2> QED
    BY <1>1, <2>1
<1>6. CASE c = 1
  <2>1. k + n \in 1 .. Len(s) /\ Lane(c)'[k] = s[k + n]
    BY <1>1, <1>3, <1>6
  <2> HIDE DEF s
  <2> QED
    BY <1>1, <2>1
<1> QED
  BY <1>1, <1>5, <1>6

\* What the broker sends joins the packets on their way.
LEMMA AppendedBrings ==
  ASSUME Apart, OneConnection, NEW s \in Seq(Packets), rx' = rx,
         conn'[1].in = conn[1].in \/ conn'[1].in = conn[1].in \o s
  PROVE  \A p : Coming(p)' =>
           Coming(p) \/ \E j \in 1 .. Len(s) : s[j] = p
<1>1. /\ conn[1].in \in Seq(Packets) /\ Len(conn[1].in) \in Nat /\ Len(s) \in Nat
      /\ Pcbs = {0, 1} /\ Lane(0)' = Lane(0)
      /\ Lane(1) = conn[1].in /\ Lane(1)' = conn'[1].in
  BY OneConnectionTypes, LenProperties DEF Lane, NULL
<1> SUFFICES ASSUME NEW c \in Pcbs, NEW k \in 1 .. Len(Lane(c)')
             PROVE  \/ \E j \in 1 .. Len(Lane(c)) : Lane(c)'[k] = Lane(c)[j]
                    \/ \E j \in 1 .. Len(s) : Lane(c)'[k] = s[j]
  BY DEF Coming
<1>2. CASE Lane(c)' = Lane(c)
  BY <1>2
<1>3. CASE c = 1 /\ conn'[1].in = conn[1].in \o s
  <2>1. /\ Len(conn[1].in \o s) = Len(conn[1].in) + Len(s)
        /\ \A j \in 1 .. Len(conn[1].in) + Len(s) :
             (conn[1].in \o s)[j] = IF j <= Len(conn[1].in) THEN conn[1].in[j]
                                    ELSE s[j - Len(conn[1].in)]
    BY <1>1, ConcatProperties
  <2>2. CASE k <= Len(conn[1].in)
    <3>1. k \in 1 .. Len(Lane(c)) /\ Lane(c)'[k] = Lane(c)[k]
      BY <1>1, <1>3, <2>1, <2>2
    <3> QED
      BY <3>1
  <2>3. CASE k > Len(conn[1].in)
    <3>1. k - Len(conn[1].in) \in 1 .. Len(s) /\ Lane(c)'[k] = s[k - Len(conn[1].in)]
      BY <1>1, <1>3, <2>1, <2>3
    <3> QED
      BY <3>1
  <2> QED
    BY <1>1, <2>2, <2>3
<1> QED
  BY <1>1, <1>2, <1>3

----
(***************************************************************************)
(* What keeps the invariant.                                               *)
(***************************************************************************)
\* A slot that may be released was one before, or keeps a message that came.
SlotsTold ==
  \A i \in Slots : Releasable(i)' =>
    \/ Releasable(i) /\ IdAt(i)' = IdAt(i) /\ ContextAt(i)' = ContextAt(i)
    \/ \E p : Coming(p) /\ p.id = IdAt(i)' /\ p.body = ContextAt(i)'

\* What the broker has in flight stays, or is of no importance any more.
BrokerStays ==
  BrokerThere' => BrokerThere /\ InFlight' = InFlight

\* Deliveries are counted up, of messages not delivered before.
DeliveredMore ==
  \A m \in 1 .. MaxMsgs :
    delivered'[m] = delivered[m] \/ (delivered[m] = 0 /\ delivered'[m] = 1)

Routine ==
  NoneComes /\ SlotsTold /\ BrokerStays /\ DeliveredMore
  /\ UNCHANGED <<msgs_sent, acked>>

\* Told messages stay delivered.
LEMMA AckedStays ==
  ASSUME Told, Routine
  PROVE  AckedWasDelivered' /\ acked' \subseteq 1 .. MaxMsgs
BY DEF Told, Routine, DeliveredMore, AckedWasDelivered

\* All but the acknowledgements.
LEMMA RoutineInFlight ==
  ASSUME Told, Routine, BrokerThere'
  PROVE  /\ InFlightDiffer' /\ ComingInFlight' /\ KeptInFlight'
         /\ BrokerThere /\ InFlight' = InFlight /\ Tracked
<1>1. BrokerThere /\ InFlight' = InFlight /\ Tracked
  BY DEF Told, Routine, BrokerStays
<1>2. InFlightDiffer'
  BY <1>1 DEF Routine, Tracked, InFlightDiffer
<1>3. ComingInFlight'
  BY <1>1 DEF Routine, NoneComes, Tracked, ComingInFlight
<1>4. KeptInFlight'
  BY <1>1 DEF Routine, SlotsTold, Tracked, ComingInFlight, KeptInFlight
<1> QED
  BY <1>1, <1>2, <1>3, <1>4

\* What is in flight is one of the messages.
LEMMA InFlightAreMessages ==
  ASSUME Told, BrokerThere, NEW f \in InFlight
  PROVE  f.body \in 1 .. msgs_sent /\ f.body \in 1 .. MaxMsgs
<1>1. f.body \in 1 .. msgs_sent
  BY DEF Told, Tracked, InFlightDiffer
<1>2. msgs_sent \in 0 .. MaxMsgs /\ MaxMsgs \in Nat
  BY ClientAssumption DEF Told, Apart, Inv, TypeOK, BrokerTypeOK
<1> QED
  BY <1>1, <1>2

\* No last acknowledgement joins those on the way to the broker.
LEMMA RoutineStep ==
  ASSUME Told, Apart', Routine, AcksFrom(conn'[1].out, conn[1].out)
  PROVE  Told'
<1> SUFFICES ASSUME BrokerThere'
             PROVE  Tracked'
  BY AckedStays DEF Told
<1> DEFINE s == conn[1].out
           t == conn'[1].out
<1>1. /\ InFlightDiffer' /\ ComingInFlight' /\ KeptInFlight'
      /\ BrokerThere /\ InFlight' = InFlight /\ LastAcksTrue(s) /\ LastAcksDiffer(s)
  BY RoutineInFlight DEF Tracked
<1>2. PICK off \in Nat : \A k \in 1 .. Len(t) :
        IsLastAck(t[k]) => k + off \in 1 .. Len(s) /\ t[k] = s[k + off]
  BY DEF AcksFrom
<1> HIDE DEF s, t
<1>3. ASSUME NEW k \in 1 .. Len(t), IsLastAck(t[k])
      PROVE  \E f \in InFlight' : f.id = t[k].id /\ delivered'[f.body] = 1
  <2>1. PICK f \in InFlight : f.id = t[k].id /\ delivered[f.body] = 1
    BY <1>1, <1>2, <1>3 DEF LastAcksTrue
  <2>2. f.body \in 1 .. MaxMsgs
    BY <1>1, InFlightAreMessages
  <2> QED
    BY <1>1, <2>1, <2>2 DEF Routine, DeliveredMore
<1>4. ASSUME NEW k \in 1 .. Len(t), NEW l \in 1 .. Len(t),
             IsLastAck(t[k]), IsLastAck(t[l]), t[k].id = t[l].id
      PROVE  k = l
  <2>1. /\ k + off \in 1 .. Len(s) /\ t[k] = s[k + off]
        /\ l + off \in 1 .. Len(s) /\ t[l] = s[l + off]
    BY <1>2, <1>4
  <2>2. PICK i \in 1 .. Len(s) : i = k + off
    BY <2>1
  <2>3. PICK j \in 1 .. Len(s) : j = l + off
    BY <2>1
  <2>4. i = j
    BY <1>1, <1>4, <2>1, <2>2, <2>3 DEF LastAcksDiffer
  <2> QED
    BY <2>2, <2>3, <2>4
<1> USE DEF s, t
<1>5. LastAcksTrue(conn[1].out)' /\ LastAcksDiffer(conn[1].out)'
  BY <1>3, <1>4 DEF LastAcksTrue, LastAcksDiffer
<1> QED
  BY <1>1, <1>5 DEF Tracked

\* A message is delivered, and the acknowledgement that ends it is sent.
LEMMA LastAckStep ==
  ASSUME Told, Apart', Routine, NEW p \in Packets, IsLastAck(p),
         conn[1].out \in Seq(Packets),
         conn'[1].out = Append(conn[1].out, p),
         NEW m, delivered[m] = 0, delivered'[m] = 1,
         BrokerThere => \E f \in InFlight : f.id = p.id /\ f.body = m
  PROVE  Told'
<1> SUFFICES ASSUME BrokerThere'
             PROVE  Tracked'
  BY AckedStays DEF Told
<1> DEFINE s == conn[1].out
           t == conn'[1].out
<1>1. /\ InFlightDiffer' /\ ComingInFlight' /\ KeptInFlight'
      /\ BrokerThere /\ InFlight' = InFlight /\ InFlightDiffer
      /\ LastAcksTrue(s) /\ LastAcksDiffer(s)
  BY RoutineInFlight DEF Tracked
<1>2. /\ Len(s) \in Nat /\ Len(t) = Len(s) + 1
      /\ \A k \in 1 .. Len(s) : t[k] = s[k]
      /\ t[Len(s) + 1] = p
  BY AppendProperties, LenProperties
<1>3. PICK f \in InFlight : f.id = p.id /\ f.body = m
  BY <1>1
<1> HIDE DEF s, t
<1>4. ASSUME NEW k \in 1 .. Len(s), IsLastAck(s[k])
      PROVE  /\ s[k].id # p.id
             /\ \E g \in InFlight' : g.id = s[k].id /\ delivered'[g.body] = 1
  <2>1. PICK g \in InFlight : g.id = s[k].id /\ delivered[g.body] = 1
    BY <1>1, <1>4 DEF LastAcksTrue
  <2>2. g # f /\ g.id # f.id
    BY <1>1, <1>3, <2>1 DEF InFlightDiffer
  <2>3. g.body \in 1 .. MaxMsgs
    BY <1>1, InFlightAreMessages
  <2> QED
    BY <1>1, <1>3, <2>1, <2>2, <2>3 DEF Routine, DeliveredMore
<1>5. ASSUME NEW k \in 1 .. Len(t), IsLastAck(t[k])
      PROVE  /\ \E g \in InFlight' : g.id = t[k].id /\ delivered'[g.body] = 1
             /\ t[k].id = p.id => k = Len(s) + 1
             /\ k # Len(s) + 1 => k \in 1 .. Len(s) /\ t[k] = s[k]
  <2>1. CASE k = Len(s) + 1
    BY <1>1, <1>2, <1>3, <2>1
  <2>2. CASE k # Len(s) + 1
    <3>1. k \in 1 .. Len(s) /\ t[k] = s[k]
      BY <1>2, <1>5, <2>2
    <3> QED
      BY <1>4, <1>5, <2>2, <3>1
  <2> QED
    BY <2>1, <2>2
<1>6. ASSUME NEW k \in 1 .. Len(t), NEW l \in 1 .. Len(t),
             IsLastAck(t[k]), IsLastAck(t[l]), t[k].id = t[l].id
      PROVE  k = l
  <2>1. CASE t[k].id = p.id
    BY <1>5, <1>6, <2>1
  <2>2. CASE t[k].id # p.id
    <3>1. k # Len(s) + 1 /\ l # Len(s) + 1
      BY <1>2, <1>6, <2>2
    <3>2. k \in 1 .. Len(s) /\ t[k] = s[k] /\ l \in 1 .. Len(s) /\ t[l] = s[l]
      BY <1>5, <1>6, <3>1
    <3> QED
      BY <1>1, <1>6, <3>2 DEF LastAcksDiffer
  <2> QED
    BY <2>1, <2>2
<1> USE DEF s, t
<1>7. LastAcksTrue(conn[1].out)' /\ LastAcksDiffer(conn[1].out)'
  BY <1>5, <1>6 DEF LastAcksTrue, LastAcksDiffer
<1> QED
  BY <1>1, <1>7 DEF Tracked

----
(***************************************************************************)
(* The client's steps.                                                     *)
(***************************************************************************)
\* A packet that ends no message of the broker.
LEMMA OtherPacket ==
  ASSUME NEW type \in PacketTypes \ {"PUBACK", "PUBCOMP"}, NEW id \in PacketIds,
         NEW body \in Contexts, NEW qos \in 0 .. 2
  PROVE  Packet(type, id, body, qos) \in Packets /\ ~IsLastAck(Packet(type, id, body, qos))
<1>1. Packet(type, id, body, qos) \in Packets
  BY PacketType
<1> QED
  BY <1>1 DEF Packet, IsLastAck

\* What the client sends and closes.
LEMMA ClientSends ==
  ASSUME Apart, OneConnection
  PROVE  /\ \A packet \in Packets : Send(packet) =>
              conn'[1].out \in {conn[1].out, Append(conn[1].out, packet)}
         /\ Close => AcksFrom(conn'[1].out, conn[1].out)
<1>1. /\ conn \in [Pcbs -> ConnRecords] /\ pcb \in {0, 1} /\ Pcbs = {0, 1}
      /\ conn[1] \in ConnRecords /\ conn[1].out \in Seq(Packets)
  BY OneConnectionTypes
<1>2. \A n \in ConnRecords : \A packet :
        TCPHandler_write(n, packet).out \in {n.out, Append(n.out, packet)}
  BY DEF TCPHandler_write, ConnRecords
<1>3. ASSUME NEW n \in ConnRecords
      PROVE  TCPHandler_close(n).out \in {n.out, <<>>, Append(n.out, Fin)}
  <2>1. CASE n.state \in {"allocated", "syn_sent"}
    BY <2>1 DEF TCPHandler_close
  <2>2. CASE n.state = "established"
    <3>1. TCPHandler_close(n) =
            [n EXCEPT !.state = "fin_wait", !.out = Append(n.out, Fin)]
      BY <2>2 DEF TCPHandler_close
    <3> QED
      BY <3>1 DEF ConnRecords
  <2>3. CASE n.state \notin {"allocated", "syn_sent", "established"}
    BY <2>3 DEF TCPHandler_close
  <2> QED
    BY <2>1, <2>2, <2>3
<1>4. ~IsLastAck(Fin) /\ Fin \in Packets
  BY FinType DEF Fin, IsLastAck
<1>5. \A packet : Send(packet) =>
        conn'[1].out \in {conn[1].out, Append(conn[1].out, packet)}
  BY <1>1, <1>2 DEF Send
<1>6. Close => conn'[1].out \in {conn[1].out, <<>>, Append(conn[1].out, Fin)}
  BY <1>1, <1>3 DEF Close
<1> QED
  BY <1>1, <1>4, <1>5, <1>6, AcksFromParts

\* Sending any other packet.
LEMMA OtherSends ==
  ASSUME Apart, OneConnection, NEW packet \in Packets, ~IsLastAck(packet),
         Send(packet)
  PROVE  AcksFrom(conn'[1].out, conn[1].out)
BY ClientSends, AcksFromParts, OneConnectionTypes

\* A conversation does not come to the wait for a PUBREL but from a free slot.
LEMMA FreeSlotsTell ==
  ASSUME Apart, ChainsFollowed,
         \A i \in Slots : StateAt(i) = "NO_REQUEST" /\ Releasable(i)' =>
           \E p : Coming(p) /\ p.id = IdAt(i)' /\ p.body = ContextAt(i)'
  PROVE  SlotsTold
<1> SUFFICES ASSUME NEW i \in Slots, Releasable(i)', StateAt(i) # "NO_REQUEST"
             PROVE  /\ Releasable(i) /\ IdAt(i)' = IdAt(i)
                    /\ ContextAt(i)' = ContextAt(i)
  BY DEF SlotsTold
<1> DEFINE r == req_queue.requests[i]
           t == req_queue'.requests[i]
<1>1. \/ t = r
      \/ t.conv_state \in Later(r.conv_state)
  BY DEF ChainsFollowed, BusySlots, StateAt
<1>2. t.conv_state = "WAITING_FOR_PUBREL"
  BY DEF Releasable, StateAt
<1>3. t = r
  BY <1>1, <1>2 DEF Later
<1> QED
  BY <1>2, <1>3 DEF Releasable, StateAt, IdAt, ContextAt

\* A step that leaves the queue alone.
LEMMA QueueTells ==
  ASSUME UNCHANGED req_queue
  PROVE  SlotsTold
BY DEF SlotsTold, Releasable, StateAt, IdAt, ContextAt

\* A step of the client that delivers nothing and tells the broker nothing.
LEMMA SilentStep ==
  ASSUME Told, Apart', OneConnection, LanesDropped, SlotsTold,
         AcksFrom(conn'[1].out, conn[1].out),
         UNCHANGED <<brokerVars, delivered>>
  PROVE  Told'
<1>1. Routine
  BY DroppedBringsNone
     DEF Told, Routine, BrokerStays, BrokerThere, InFlight, DeliveredMore, brokerVars
<1> QED
  BY <1>1, RoutineStep

\* The calls of the API.
LEMMA ApplicationTold ==
  ASSUME Told, Apart', ChainsFollowed, OneConnection, Application
  PROVE  Told'
<1>0. /\ Apart /\ conn \in [Pcbs -> ConnRecords] /\ pcb \in Pcbs /\ Conns \subseteq Pcbs
      /\ Conns = {1} /\ Pcbs = {0, 1} /\ 1 \in Pcbs
      /\ conn[1] \in ConnRecords /\ conn[1].out \in Seq(Packets)
      /\ requests \in 0 .. MaxRequests
  BY OneConnectionTypes, ApartTypes DEF Told
<1>1. CASE MQTTClient_connect
  <2>1. pcb' = 1
    BY <1>0, <1>1, NewPcb DEF MQTTClient_connect
  <2>2. /\ conn'[1].out = << Packet("CONNECT", 0, 0, 0) >> /\ conn'[1].in = <<>>
        /\ UNCHANGED <<brokerVars, delivered, rx, req_queue>>
    BY <1>0, <1>1, <2>1 DEF MQTTClient_connect, queueVars, rxVars, appVars
  <2>3. AcksFrom(conn'[1].out, conn[1].out)
    <3>1. ~IsLastAck(Packet("CONNECT", 0, 0, 0))
      BY DEF IsLastAck, Packet
    <3>2. \A k \in 1 .. Len(conn'[1].out) : ~IsLastAck(conn'[1].out[k])
      BY <2>2, <3>1
    <3> QED
      BY <3>2 DEF AcksFrom
  <2> QED
    BY <1>0, <2>2, <2>3, QueueTells, SilentStep DEF LanesDropped
<1>2. CASE ConnectTcpFailure
  <2>1. pcb' = 1
    BY <1>0, <1>2, NewPcb DEF ConnectTcpFailure
  <2>2. conn' = [conn EXCEPT ![1] = [conn[1] EXCEPT !.state = "allocated"]]
    BY <1>2, <2>1 DEF ConnectTcpFailure
  <2>3. /\ [conn[1] EXCEPT !.state = "allocated"].in = conn[1].in
        /\ [conn[1] EXCEPT !.state = "allocated"].out = conn[1].out
    BY <1>0 DEF ConnRecords
  <2>4. conn'[1].in = conn[1].in /\ conn'[1].out = conn[1].out
    BY <1>0, <2>2, <2>3
  <2>5. UNCHANGED <<brokerVars, delivered, rx, req_queue>>
    BY <1>2 DEF ConnectTcpFailure, queueVars, rxVars, appVars
  <2> QED
    BY <1>0, <2>4, <2>5, AcksFromParts, QueueTells, SilentStep DEF LanesDropped
<1>3. CASE ConnectMemoryErr \/ MQTTClient_loop
  <2>1. UNCHANGED <<conn, brokerVars, delivered, rx, req_queue>>
    BY <1>3 DEF ConnectMemoryErr, MQTTClient_loop, queueVars, rxVars, appVars
  <2> QED
    BY <1>0, <2>1, AcksFromParts, QueueTells, SilentStep DEF LanesDropped
<1>4. CASE MQTTClient_disconnect
  <2>1. PICK full \in is_output_buffer_full(pcb) :
          conn' = [conn EXCEPT ![pcb] =
                     TCPHandler_close(
                       IF full THEN @
                       ELSE TCPHandler_write(@, Packet("DISCONNECT", 0, 0, 0)))]
    BY <1>4 DEF MQTTClient_disconnect
  <2> DEFINE x == Packet("DISCONNECT", 0, 0, 0)
             n == IF full THEN conn[pcb] ELSE TCPHandler_write(conn[pcb], x)
  <2>2. x \in Packets /\ ~IsLastAck(x) /\ Fin \in Packets /\ ~IsLastAck(Fin)
    <3>1. x \in Packets /\ ~IsLastAck(x)
      BY SmallNumbers, OtherPacket DEF PacketTypes
    <3> QED
      BY <3>1, FinType DEF IsLastAck, Fin
  <2> HIDE DEF x
  <2>3. /\ n \in ConnRecords /\ n.in = conn[pcb].in
        /\ n.out \in {conn[pcb].out, Append(conn[pcb].out, x)}
    <3>1. conn[pcb] \in ConnRecords
      BY <1>0
    <3>2. /\ TCPHandler_write(conn[pcb], x) \in ConnRecords
          /\ TCPHandler_write(conn[pcb], x).in = conn[pcb].in
          /\ TCPHandler_write(conn[pcb], x).out \in {conn[pcb].out, Append(conn[pcb].out, x)}
      BY <2>2, <3>1, WriteAndCloseType DEF TCPHandler_write, ConnRecords
    <3> QED
      BY <3>1, <3>2
  <2>4. conn' = [conn EXCEPT ![pcb] = TCPHandler_close(n)]
    BY <2>1 DEF x
  <2> HIDE DEF n
  <2>5. TCPHandler_close(n).in = n.in \/ TCPHandler_close(n).in = <<>>
    BY <2>3, CloseKeepsIn
  <2>6. TCPHandler_close(n).out \in {n.out, <<>>, Append(n.out, Fin)}
    <3>1. CASE n.state = "established"
      <4>1. TCPHandler_close(n) =
              [n EXCEPT !.state = "fin_wait", !.out = Append(n.out, Fin)]
        BY <3>1 DEF TCPHandler_close
      <4> QED
        BY <2>3, <4>1 DEF ConnRecords
    <3>2. CASE n.state # "established"
      BY <3>2 DEF TCPHandler_close
    <3> QED
      BY <3>1, <3>2
  <2>7. \A c \in Conns : conn'[c].in = conn[c].in \/ conn'[c].in = <<>>
    BY <1>0, <2>3, <2>4, <2>5
  <2>8. AcksFrom(conn'[1].out, conn[1].out)
    <3>1. CASE pcb = 1
      <4>1. AcksFrom(n.out, conn[1].out)
        BY <1>0, <2>2, <2>3, <3>1, AcksFromParts
      <4>2. n.out \in Seq(Packets) /\ conn'[1].out = TCPHandler_close(n).out
        BY <1>0, <2>3, <2>4, <3>1 DEF ConnRecords
      <4>3. AcksFrom(conn'[1].out, n.out) /\ conn'[1].out \in Seq(Packets)
        <5>1. conn'[1].out \in {n.out, <<>>, Append(n.out, Fin)}
          BY <2>6, <4>2
        <5>2. /\ AcksFrom(n.out, n.out) /\ AcksFrom(<<>>, n.out)
              /\ AcksFrom(Append(n.out, Fin), n.out)
          BY <2>2, <4>2, AcksFromParts
        <5>3. <<>> \in Seq(Packets) /\ Append(n.out, Fin) \in Seq(Packets)
          BY <2>2, <4>2, EmptySeq, AppendProperties
        <5> QED
          BY <4>2, <5>1, <5>2, <5>3
      <4> QED
        BY <4>1, <4>3, AcksFromTransitive, LenProperties
    <3>2. CASE pcb = 0
      <4>1. conn'[1] = conn[1]
        BY <1>0, <2>4, <3>2
      <4> QED
        BY <1>0, <4>1, AcksFromParts
    <3> QED
      BY <1>0, <3>1, <3>2
  <2>9. UNCHANGED <<brokerVars, delivered, rx, req_queue>>
    BY <1>4 DEF MQTTClient_disconnect, queueVars, rxVars, appVars
  <2> QED
    BY <2>7, <2>8, <2>9, QueueTells, SilentStep DEF LanesDropped
<1>5. ASSUME NEW packet \in Packets, ~IsLastAck(packet), Send(packet),
             UNCHANGED <<brokerVars, delivered, rx>>, SlotsTold
      PROVE  Told'
  <2>1. LanesDropped
    BY <1>0, <1>5, ClientLanes DEF LanesDropped, Apart
  <2> QED
    BY <1>0, <1>5, <2>1, OtherSends, SilentStep
<1>6. CASE PublishQos0
  <2>1. /\ Send(Packet("PUBLISH", 0, requests + 1, 0))
        /\ UNCHANGED <<brokerVars, delivered, rx, req_queue>>
        /\ requests + 1 \in Contexts
    BY <1>0, <1>6, ClientAssumption, SmallNumbers
       DEF PublishQos0, MayCall, queueVars, rxVars
  <2>2. /\ Packet("PUBLISH", 0, requests + 1, 0) \in Packets
        /\ ~IsLastAck(Packet("PUBLISH", 0, requests + 1, 0))
    BY <2>1, SmallNumbers, OtherPacket DEF PacketTypes
  <2> QED
    BY <1>5, <2>1, <2>2, QueueTells
<1>7. ASSUME NEW type \in PacketTypes, type \notin {"PUBACK", "PUBCOMP"},
             NEW qos \in 0 .. 2, NEW state \in RequestStates,
             requests < MaxRequests, Request(type, qos, state)
      PROVE  Told'
  <2> DEFINE x == Packet(type, last_packet_id', requests + 1, qos)
  <2>1. /\ Send(x) /\ UNCHANGED <<brokerVars, delivered, rx>>
        /\ x \in Packets /\ ~IsLastAck(x)
    <3>1. requests + 1 \in Contexts /\ last_packet_id' \in PacketIds
      BY <1>0, <1>7, ClientAssumption, SmallNumbers, PacketIdType
         DEF Request, Apart, Inv, TypeOK, ClientTypeOK
    <3> QED
      BY <1>7, <3>1, OtherPacket DEF Request, rxVars
  <2>2. /\ req_queue.requests \in [Slots -> Requests]
        /\ FreeSlots(req_queue) # {}
        /\ FirstSlot(FreeSlots(req_queue)) \in Slots
    <3>1. FreeSlots(req_queue) # {}
      BY <1>0, <1>7, NotFullHasFreeSlot DEF Request, Apart, Inv, QueueCounterExact
    <3> QED
      BY <1>0, <3>1, FirstSlotIn, BusyAndFree
         DEF Apart, Inv, TypeOK, ClientTypeOK, QueueOf
  <2>3. \A j \in Slots : StateAt(j) = "NO_REQUEST" => ~Releasable(j)'
    BY <1>7, <2>2 DEF Request, mqtt_req_queue_add, StateAt, Releasable, RequestStates
  <2> QED
    BY <1>0, <1>5, <2>1, <2>3, FreeSlotsTell
<1>8. CASE MQTTClient_subscribe \/ MQTTClient_unsubscribe
           \/ (MQTTClient_publish /\ ~PublishQos0)
  <2>1. requests < MaxRequests
    BY <1>8 DEF MQTTClient_subscribe, MQTTClient_unsubscribe, MQTTClient_publish, MayCall
  <2>2. \/ Request("PUBLISH", 1, "WAITING_FOR_PUBACK")
        \/ Request("PUBLISH", 2, "WAITING_FOR_PUBREC")
        \/ Request("SUBSCRIBE", 0, "WAITING_FOR_SUBACK")
        \/ Request("UNSUBSCRIBE", 0, "WAITING_FOR_UNSUBACK")
    BY <1>8 DEF MQTTClient_subscribe, MQTTClient_unsubscribe, MQTTClient_publish
  <2>3. /\ {"PUBLISH", "SUBSCRIBE", "UNSUBSCRIBE"} \subseteq PacketTypes \ {"PUBACK", "PUBCOMP"}
        /\ {"WAITING_FOR_PUBACK", "WAITING_FOR_PUBREC", "WAITING_FOR_SUBACK",
            "WAITING_FOR_UNSUBACK"} \subseteq RequestStates
        /\ {0, 1, 2} \subseteq 0 .. 2
    BY DEF PacketTypes, RequestStates
  <2> QED
    BY <1>7, <2>1, <2>2, <2>3
<1> QED
  BY <1>1, <1>2, <1>3, <1>4, <1>6, <1>8 DEF Application

\* The waits, and the clock.
LEMMA WaitingTold ==
  ASSUME Told, Apart', OneConnection, Waiting \/ Tick
  PROVE  Told'
<1>0. Apart /\ Conns = {1} /\ conn[1].out \in Seq(Packets)
  BY OneConnectionTypes DEF Told
<1>1. UNCHANGED <<brokerVars, delivered, rx, req_queue>>
  BY DEF Waiting, wait_for_connack, LoopNotConnected, mqtt_handle_keepalive,
     mqtt_handle_timeout_on_ping, PingProcessed, Tick, queueVars, rxVars, appVars
<1>2. UNCHANGED conn \/ Close \/ Send(Packet("PINGREQ", 0, 0, 0))
  BY DEF Waiting, wait_for_connack, LoopNotConnected, mqtt_handle_keepalive,
     mqtt_handle_timeout_on_ping, PingProcessed, Tick
<1>3. /\ Packet("PINGREQ", 0, 0, 0) \in Packets
      /\ ~IsLastAck(Packet("PINGREQ", 0, 0, 0))
  BY SmallNumbers, OtherPacket DEF PacketTypes
<1>4. \A c \in Conns : conn'[c].in = conn[c].in \/ conn'[c].in = <<>>
  BY <1>0, <1>2, ClientLanes DEF Apart
<1>5. AcksFrom(conn'[1].out, conn[1].out)
  BY <1>0, <1>2, <1>3, ClientSends, OtherSends, AcksFromParts
<1> QED
  BY <1>0, <1>1, <1>4, <1>5, QueueTells, SilentStep DEF LanesDropped

----
(***************************************************************************)
(* The packets the client handles.                                         *)
(***************************************************************************)
\* Slots that are left alone, freed, or filled to wait for something else.
LEMMA SlotsTell ==
  ASSUME Apart, ChainsFollowed,
         \/ SameSlots
         \/ \E i \in Slots : Freed(i)
         \/ \E i \in Slots : \E state \in ConvStates \ {"WAITING_FOR_PUBREL"} : \E m :
              Filled(i, state, m)
  PROVE  SlotsTold
<1>1. \A i \in Slots : StateAt(i) = "NO_REQUEST" => ~Releasable(i)'
  BY DEF SameSlots, SameSlotsBut, SameSlot, Freed, Filled, Releasable
<1> QED
  BY <1>1, FreeSlotsTell

\* A packet that delivers nothing and tells the broker nothing.
LEMMA SilentReception ==
  ASSUME Told, Apart', OneConnection, rx # <<>>, SlotsTold,
         UNCHANGED <<brokerVars, delivered>>,
         \/ PacketDone /\ (\/ UNCHANGED conn
                           \/ \E packet \in Packets : ~IsLastAck(packet) /\ Send(packet))
         \/ PacketFailed
  PROVE  Told'
<1>1. LanesDropped
  BY ReceptionLanes DEF Told
<1>2. AcksFrom(conn'[1].out, conn[1].out)
  <2>1. Apart /\ conn[1].out \in Seq(Packets)
    BY OneConnectionTypes DEF Told
  <2> QED
    BY <2>1, ClientSends, OtherSends, AcksFromParts DEF PacketFailed
<1> QED
  BY <1>1, <1>2, SilentStep

\* A packet that delivers a message, and may tell the broker so.
LEMMA DeliveringReception ==
  ASSUME Told, Apart', OneConnection, rx # <<>>, PacketDone, SlotsTold,
         UNCHANGED brokerVars,
         NEW m \in 1 .. MaxMsgs, Deliver(m), delivered[m] = 0,
         \/ UNCHANGED conn
         \/ \E p \in Packets :
              /\ IsLastAck(p) /\ Send(p)
              /\ BrokerThere => \E f \in InFlight : f.id = p.id /\ f.body = m
  PROVE  Told'
<1>1. Apart /\ conn[1].out \in Seq(Packets)
  BY OneConnectionTypes DEF Told
<1>2. /\ DeliveredMore /\ delivered'[m] = 1
  <2>1. delivered \in [1 .. MaxMsgs -> Nat]
    BY <1>1 DEF Apart, Inv, TypeOK, ClientTypeOK
  <2>2. \A n \in 1 .. MaxMsgs :
          delivered'[n] = IF n = m THEN delivered[n] + 1 ELSE delivered[n]
    BY <2>1 DEF Deliver
  <2> QED
    BY <2>2 DEF DeliveredMore
<1>3. Routine
  <2>1. LanesDropped
    BY <1>1, ReceptionLanes
  <2>2. NoneComes
    BY <1>1, <2>1, DroppedBringsNone
  <2> QED
    BY <1>2, <2>2 DEF Routine, BrokerStays, BrokerThere, InFlight, brokerVars
<1>4. CASE UNCHANGED conn
  <2>1. AcksFrom(conn'[1].out, conn[1].out)
    BY <1>1, <1>4, AcksFromParts
  <2> QED
    BY <1>3, <2>1, RoutineStep
<1>5. ASSUME NEW p \in Packets, IsLastAck(p), Send(p),
             BrokerThere => \E f \in InFlight : f.id = p.id /\ f.body = m
      PROVE  Told'
  <2>1. conn'[1].out \in {conn[1].out, Append(conn[1].out, p)}
    BY <1>1, <1>5, ClientSends
  <2>2. CASE conn'[1].out = conn[1].out
    <3>1. AcksFrom(conn'[1].out, conn[1].out)
      BY <1>1, <2>2, AcksFromParts
    <3> QED
      BY <1>3, <3>1, RoutineStep
  <2>3. CASE conn'[1].out = Append(conn[1].out, p)
    BY <1>1, <1>2, <1>3, <1>5, <2>3, LastAckStep
  <2> QED
    BY <2>1, <2>2, <2>3
<1> QED
  BY <1>4, <1>5

\* Packets that leave the queue alone, and those that end a request.
LEMMA OtherPacketsTold ==
  ASSUME Told, Apart', OneConnection, ChainsFollowed,
         \/ HandleConnack \/ HandlePingresp \/ HandlePublishDiscarded
         \/ RequestNotFound
         \/ HandlePuback \/ HandlePubcomp \/ HandleSuback \/ HandleUnsuback
  PROVE  Told'
<1> DEFINE p == Head(rx)
<1>1. CASE HandleConnack \/ HandlePingresp \/ HandlePublishDiscarded
           \/ RequestNotFound
  <2>1. /\ rx # <<>> /\ ((PacketDone /\ UNCHANGED conn) \/ PacketFailed)
        /\ UNCHANGED <<brokerVars, delivered, req_queue>>
    BY <1>1 DEF HandleConnack, HandlePingresp, HandlePublishDiscarded,
       RequestNotFound, Receiving, queueVars, appVars
  <2> QED
    BY <2>1, QueueTells, SilentReception
<1>2. CASE HandlePuback \/ HandlePubcomp \/ HandleSuback \/ HandleUnsuback
  <2>1. /\ rx # <<>> /\ PacketDone /\ UNCHANGED conn /\ req_queue' = FindRequest(p)
        /\ p.type \in AckTypes \ {"PUBREC", "PUBREL"} /\ Found(p) # {}
        /\ UNCHANGED <<brokerVars, delivered>>
    BY <1>2 DEF HandlePuback, HandlePubcomp, HandleSuback, HandleUnsuback,
       HandleLastAck, Receiving, AckTypes, appVars
  <2>2. p \in Packets
    BY <2>1, ReceptionLanes DEF Told
  <2>3. PICK i \in Slots : i = FirstSlot(Found(p))
    BY <2>1, <2>2, FoundMoves DEF Told, Apart
  <2>4. Freed(i)
    <3> HIDE DEF p
    <3> QED
      BY <2>1, <2>2, <2>3, FoundMoves DEF Told, Apart
  <2>5. SlotsTold
    BY <2>4, SlotsTell DEF Told
  <2> QED
    BY <2>1, <2>5, SilentReception
<1> QED
  BY <1>1, <1>2

\* PUBREC and PUBREL.  A message released is the one in flight under the id.
LEMMA ReleaseTold ==
  ASSUME Told, Apart', OneConnection, ChainsFollowed, HandlePubrec \/ HandlePubrel
  PROVE  Told'
<1> DEFINE p == Head(rx)
<1>1. /\ rx # <<>> /\ p.type \in AckTypes /\ Found(p) # {}
      /\ HandlePubrec => p.type = "PUBREC"
      /\ HandlePubrel => p.type = "PUBREL"
      /\ UNCHANGED brokerVars
      /\ (PacketDone /\ \E packet : Send(packet)) \/ PacketFailed
  BY DEF HandlePubrec, HandlePubrel, Receiving, AckTypes, Answer,
     AnswerDoesNotFit
<1>2. p \in Packets /\ p.id \in PacketIds /\ Apart
  <2>1. p \in Packets
    BY <1>1, ReceptionLanes DEF Told
  <2> QED
    BY <2>1 DEF Packets, Told
<1>3. PICK i \in Slots : i = FirstSlot(Found(p))
  BY <1>1, <1>2, FoundMoves DEF Apart
<1>4. /\ StateAt(i) = Awaited(p.type) /\ ContextAt(i) = ContextOf(p)
      /\ p.type \in {"PUBREC", "PUBREL"} /\ req_queue' = FindRequest(p) => SameSlots
      /\ /\ p.type = "PUBREC"
         /\ req_queue' = mqtt_req_queue_update(FindRequest(p), "SENDING_PUBREL", i)
         => SameSlots
      /\ /\ p.type = "PUBREL"
         /\ req_queue' = mqtt_req_queue_update(FindRequest(p), "SENDING_PUBCOMP", i)
         => Freed(i) /\ Releasable(i)
  <2> HIDE DEF p
  <2> QED
    BY <1>1, <1>2, <1>3, FoundMoves DEF Apart
<1>5. CASE AnswerDoesNotFit(FindRequest(p))
  <2>1. SameSlots /\ PacketFailed /\ UNCHANGED delivered
    BY <1>1, <1>4, <1>5 DEF AnswerDoesNotFit, appVars
  <2>2. SlotsTold
    BY <1>2, <2>1, SlotsTell
  <2> QED
    BY <1>1, <2>1, <2>2, SilentReception
<1>6. CASE HandlePubrec /\ ~AnswerDoesNotFit(FindRequest(p))
  <2> DEFINE x == Packet("PUBREL", p.id, ContextOf(p), 0)
  <2>1. /\ req_queue' = mqtt_req_queue_update(FindRequest(p), "SENDING_PUBREL", i)
        /\ UNCHANGED delivered /\ PacketDone /\ Send(x)
    BY <1>3, <1>6 DEF HandlePubrec, Answer
  <2>2. SlotsTold
    BY <1>1, <1>2, <1>4, <1>6, <2>1, SlotsTell
  <2>3. x \in Packets /\ ~IsLastAck(x)
    <3>1. ContextOf(p) \in Contexts
      BY <1>1, <1>2, FoundType DEF Apart
    <3> QED
      BY <1>2, <3>1, OtherPacket DEF PacketTypes
  <2> HIDE DEF x
  <2> QED
    BY <1>1, <2>1, <2>2, <2>3, SilentReception
<1>7. CASE HandlePubrel /\ ~AnswerDoesNotFit(FindRequest(p))
  <2> DEFINE x == Packet("PUBCOMP", p.id, 0, 0)
             m == ContextAt(i)
  <2>1. /\ req_queue' = mqtt_req_queue_update(FindRequest(p), "SENDING_PUBCOMP", i)
        /\ Deliver(m) /\ PacketDone /\ Send(x)
    BY <1>3, <1>4, <1>7 DEF HandlePubrel, Answer
  <2>2. Freed(i) /\ Releasable(i)
    BY <1>1, <1>4, <1>7, <2>1
  <2>3. SlotsTold
    BY <1>2, <2>2, SlotsTell
  <2>4. m \in 1 .. MaxMsgs /\ delivered[m] = 0
    <3>1. m \in 1 .. msgs_sent /\ delivered[m] = 0
      BY <1>2, <2>2 DEF Apart, MessagesApart
    <3>2. msgs_sent \in 0 .. MaxMsgs /\ MaxMsgs \in Nat
      BY <1>2, ClientAssumption DEF Apart, Inv, TypeOK, BrokerTypeOK
    <3> QED
      BY <3>1, <3>2
  <2>5. IdAt(i) = p.id
    <3>1. i \in Found(p)
      BY <1>1, <1>3, FirstSlotIn DEF Found, SlotsMatching
    <3> QED
      BY <3>1 DEF Found, SlotsMatching, IdAt
  <2>6. x \in Packets /\ IsLastAck(x) /\ x.id = p.id
    <3>1. x \in Packets
      BY <1>2, SmallNumbers, PacketType DEF PacketTypes
    <3> QED
      BY <3>1 DEF Packet, IsLastAck
  <2>7. BrokerThere => \E f \in InFlight : f.id = x.id /\ f.body = m
    BY <2>2, <2>5, <2>6 DEF Told, Tracked, KeptInFlight
  <2> HIDE DEF x, m
  <2> QED
    BY <1>1, <2>1, <2>3, <2>4, <2>6, <2>7, DeliveringReception
<1> QED
  BY <1>5, <1>6, <1>7

\* A PUBLISH of any QoS that is not dropped.
LEMMA PublishTold ==
  ASSUME Told, Apart', OneConnection, ChainsFollowed,
         HandlePublishQos0 \/ HandlePublishQos1 \/ HandlePublishQos2
  PROVE  Told'
<1> DEFINE p == Head(rx)
           m == p.body
<1>1. /\ rx # <<>> /\ p.type = "PUBLISH" /\ ~Discarded(p)
      /\ UNCHANGED brokerVars
      /\ \/ PacketDone /\ (UNCHANGED conn \/ \E packet : Send(packet))
         \/ PacketFailed
  BY DEF HandlePublishQos0, HandlePublishQos1, HandlePublishQos2, Receiving,
     Answer, AnswerDoesNotFit
<1>2. p \in Packets /\ p.id \in PacketIds /\ Apart
  <2>1. p \in Packets
    BY <1>1, ReceptionLanes DEF Told
  <2> QED
    BY <2>1 DEF Packets, Told
<1>3. /\ UnderWay(m)
      /\ p.qos # 0 => Coming(p)
  <2>1. /\ rx \in Seq(Packets) /\ 1 \in 1 .. Len(rx) /\ p = rx[1]
    BY <1>1, <1>2, ApartTypes, EmptySeq, LenProperties
  <2>2. NULL \in Pcbs /\ Lane(NULL) = rx
    BY DEF Pcbs, Lane
  <2> QED
    BY <1>1, <2>1, <2>2 DEF UnderWay, Carries, Coming
<1>4. m \in 1 .. MaxMsgs /\ delivered[m] = 0
  <2>1. Fresh(m)
    BY <1>2, <1>3 DEF Apart, MessagesApart
  <2>2. msgs_sent \in 0 .. MaxMsgs /\ MaxMsgs \in Nat
    BY <1>2, ClientAssumption DEF Apart, Inv, TypeOK, BrokerTypeOK
  <2> QED
    BY <2>1, <2>2 DEF Fresh
<1>5. PICK i \in Slots : i = AddedAt
  BY <1>1, <1>2, KeptMoves DEF Apart
<1>6. ASSUME NEW state \in {"SENDING_PUBACK", "SENDING_PUBREC"}
      PROVE  /\ req_queue' = Kept(p, state) => Filled(i, state, m)
             /\ req_queue' = mqtt_req_queue_update(Kept(p, state), state, i) =>
                  IF state = "SENDING_PUBACK" THEN SameSlots
                  ELSE Filled(i, "WAITING_FOR_PUBREL", m)
  <2> HIDE DEF p
  <2> QED
    BY <1>1, <1>2, <1>5, KeptMoves DEF Apart
<1>7. CASE HandlePublishQos0
  <2>1. Deliver(m) /\ PacketDone /\ UNCHANGED <<conn, req_queue>>
    BY <1>7 DEF HandlePublishQos0, queueVars
  <2> HIDE DEF m
  <2> QED
    BY <1>1, <1>4, <2>1, QueueTells, DeliveringReception
<1>8. ASSUME NEW state \in {"SENDING_PUBACK", "SENDING_PUBREC"},
             AnswerDoesNotFit(Kept(p, state))
      PROVE  Told'
  <2>1. Filled(i, state, m) /\ PacketFailed /\ UNCHANGED delivered
    BY <1>6, <1>8 DEF AnswerDoesNotFit, appVars
  <2>2. SlotsTold
    <3>1. state \in ConvStates \ {"WAITING_FOR_PUBREL"}
      BY DEF ConvStates
    <3> QED
      BY <1>2, <2>1, <3>1, SlotsTell
  <2> QED
    BY <1>1, <2>1, <2>2, SilentReception
<1>9. CASE HandlePublishQos1 /\ ~AnswerDoesNotFit(Kept(p, "SENDING_PUBACK"))
  <2> DEFINE x == Packet("PUBACK", p.id, 0, 0)
  <2>1. /\ req_queue' = mqtt_req_queue_update(Kept(p, "SENDING_PUBACK"),
                                              "SENDING_PUBACK", i)
        /\ Deliver(m) /\ PacketDone /\ Send(x) /\ p.qos = 1
    BY <1>5, <1>9 DEF HandlePublishQos1, Answer
  <2>2. SlotsTold
    BY <1>2, <1>6, <2>1, SlotsTell
  <2>3. x \in Packets /\ IsLastAck(x) /\ x.id = p.id
    <3>1. x \in Packets
      BY <1>2, SmallNumbers, PacketType DEF PacketTypes
    <3> QED
      BY <3>1 DEF Packet, IsLastAck
  <2>4. BrokerThere => \E f \in InFlight : f.id = x.id /\ f.body = m
    BY <1>3, <2>1, <2>3 DEF Told, Tracked, ComingInFlight
  <2> HIDE DEF x, m
  <2> QED
    BY <1>1, <1>4, <2>1, <2>2, <2>3, <2>4, DeliveringReception
<1>10. CASE HandlePublishQos2 /\ ~AnswerDoesNotFit(Kept(p, "SENDING_PUBREC"))
  <2> DEFINE x == Packet("PUBREC", p.id, 0, 0)
  <2>1. /\ req_queue' = mqtt_req_queue_update(Kept(p, "SENDING_PUBREC"),
                                              "SENDING_PUBREC", i)
        /\ UNCHANGED delivered /\ PacketDone /\ Send(x) /\ p.qos = 2
    BY <1>5, <1>10 DEF HandlePublishQos2, Answer
  <2>2. Filled(i, "WAITING_FOR_PUBREL", m) /\ Coming(p)
    BY <1>3, <1>6, <2>1
  <2>3. IdAt(i)' = p.id
    <3>1. Kept(p, "SENDING_PUBREC") \in QueueOf(Requests)
      BY <1>1, <1>2, KeptType DEF Apart, ConvStates
    <3>2. Kept(p, "SENDING_PUBREC").requests[i].packet_id = p.id
      <4>1. FreeSlots(req_queue) # {} /\ i = FirstSlot(FreeSlots(req_queue))
        BY <1>1, <1>2, <1>5, KeptType DEF Apart, ConvStates, AddedAt
      <4>2. req_queue.requests \in [Slots -> Requests]
        BY <1>2 DEF Apart, Inv, TypeOK, ClientTypeOK, QueueOf
      <4> HIDE DEF p
      <4> QED
        BY <4>1, <4>2 DEF Kept, mqtt_req_queue_add
    <3>3. req_queue'.requests[i] =
            [Kept(p, "SENDING_PUBREC").requests[i] EXCEPT
               !.conv_state = get_next_conv_state("SENDING_PUBREC")]
      BY <2>1, <3>1, UpdateChanges
    <3>4. Kept(p, "SENDING_PUBREC").requests[i] \in Requests
      BY <3>1 DEF QueueOf
    <3> QED
      BY <3>2, <3>3, <3>4 DEF Requests, IdAt
  <2>4. SlotsTold
    <3> SUFFICES ASSUME NEW j \in Slots, StateAt(j) = "NO_REQUEST", Releasable(j)'
                 PROVE  \E y : Coming(y) /\ y.id = IdAt(j)' /\ y.body = ContextAt(j)'
      BY <1>2, FreeSlotsTell
    <3>1. j = i
      BY <2>2 DEF Filled, SameSlotsBut, SameSlot, Releasable
    <3> QED
      BY <2>2, <2>3, <3>1 DEF Filled
  <2>5. x \in Packets /\ ~IsLastAck(x)
    BY <1>2, SmallNumbers, OtherPacket DEF PacketTypes
  <2> HIDE DEF x
  <2> QED
    BY <1>1, <2>1, <2>4, <2>5, SilentReception
<1> QED
  BY <1>7, <1>8, <1>9, <1>10 DEF HandlePublishQos1, HandlePublishQos2

\* get_mqtt_packet, whatever the packet.
LEMMA ReceptionTold ==
  ASSUME Told, Apart', OneConnection, ChainsFollowed, get_mqtt_packet
  PROVE  Told'
BY OtherPacketsTold, ReleaseTold, PublishTold DEF get_mqtt_packet

----
(***************************************************************************)
(* The network and the broker.                                             *)
(***************************************************************************)
\* lwIP and the network between packets.
LEMMA NetworkTold ==
  ASSUME Told, Apart', OneConnection, NEW c \in Conns, Network(c)
  PROVE  Told'
<1>0. /\ Apart /\ c = 1 /\ Conns = {1} /\ 1 \in Pcbs /\ conn \in [Pcbs -> ConnRecords]
      /\ conn[1] \in ConnRecords /\ conn[1].out \in Seq(Packets)
      /\ conn[1].in \in Seq(Packets)
  BY OneConnectionTypes DEF Told
<1>1. UNCHANGED <<brokerVars, delivered, req_queue>>
  BY DEF Network, tcp_connected_cb, tcp_received_cb, tcp_received_cb_closed,
     DataAfterClose, tcp_error_cb, clientVars, queueVars, appVars
<1>2. CASE tcp_received_cb(c)
  <2>1. PICK n \in 1 .. MaxSeg :
          /\ n <= Len(conn[1].in)
          /\ rx' = SubSeq(conn[1].in, 1, n)
          /\ conn' = [conn EXCEPT ![1].in = SubSeq(conn[1].in, n + 1, Len(conn[1].in))]
    BY <1>0, <1>2 DEF tcp_received_cb
  <2>2. n \in 1 .. Len(conn[1].in)
    BY <1>0, <2>1, LenProperties, ClientAssumption
  <2>3. /\ conn'[1].in = SubSeq(conn[1].in, n + 1, Len(conn[1].in))
        /\ conn'[1].out = conn[1].out
    BY <1>0, <2>1 DEF ConnRecords
  <2>4. Routine
    <3>1. NoneComes
      BY <1>0, <2>1, <2>2, <2>3, HandedBringsNone
    <3>2. SlotsTold
      BY <1>1, QueueTells
    <3> QED
      BY <1>1, <3>1, <3>2 DEF Routine, BrokerStays, BrokerThere, InFlight,
         DeliveredMore, brokerVars
  <2> QED
    BY <1>0, <2>3, <2>4, AcksFromParts, RoutineStep
<1>3. CASE ~tcp_received_cb(c)
  <2>1. /\ rx' = rx
        /\ \E n : /\ conn' = [conn EXCEPT ![1] = n]
                  /\ n.in = conn[1].in \/ n.in = <<>>
                  /\ n.out \in {conn[1].out, <<>>, Append(conn[1].out, Fin)}
    <3>1. CASE tcp_connected_cb(c)
      <4>1. /\ [conn[1] EXCEPT !.state = "established"].in = conn[1].in
            /\ [conn[1] EXCEPT !.state = "established"].out = conn[1].out
        BY <1>0 DEF ConnRecords
      <4>2. conn' = [conn EXCEPT ![1] = [conn[1] EXCEPT !.state = "established"]]
        BY <1>0, <3>1 DEF tcp_connected_cb
      <4> QED
        BY <3>1, <4>1, <4>2 DEF tcp_connected_cb, clientVars, rxVars
    <3>2. CASE tcp_received_cb_closed(c)
      <4>1. TCPHandler_close(conn[1]).out
              \in {conn[1].out, <<>>, Append(conn[1].out, Fin)}
        <5>1. CASE conn[1].state = "established"
          <6>1. TCPHandler_close(conn[1]) =
                  [conn[1] EXCEPT !.state = "fin_wait",
                                  !.out = Append(conn[1].out, Fin)]
            BY <5>1 DEF TCPHandler_close
          <6> QED
            BY <1>0, <6>1 DEF ConnRecords
        <5>2. CASE conn[1].state # "established"
          BY <5>2 DEF TCPHandler_close
        <5> QED
          BY <5>1, <5>2
      <4> DEFINE n == [ state |-> "freed", in |-> <<>>,
                        out |-> TCPHandler_close(conn[1]).out ]
      <4>2. conn' = [conn EXCEPT ![1] = n] /\ rx' = rx
        BY <1>0, <3>2 DEF tcp_received_cb_closed, rxVars
      <4>3. n.in = <<>> /\ n.out = TCPHandler_close(conn[1]).out
        OBVIOUS
      <4> HIDE DEF n
      <4> QED
        BY <4>1, <4>2, <4>3
    <3>3. CASE DataAfterClose(c) \/ tcp_error_cb(c)
      BY <1>0, <3>3 DEF DataAfterClose, tcp_error_cb, Aborted, clientVars, rxVars
    <3> QED
      BY <1>3, <3>1, <3>2, <3>3 DEF Network
  <2>2. /\ conn'[1].in = conn[1].in \/ conn'[1].in = <<>>
        /\ conn'[1].out \in {conn[1].out, <<>>, Append(conn[1].out, Fin)}
    BY <1>0, <2>1
  <2>3. AcksFrom(conn'[1].out, conn[1].out)
    <3>1. Fin \in Packets /\ ~IsLastAck(Fin)
      BY FinType DEF Fin, IsLastAck
    <3> QED
      BY <1>0, <2>2, <3>1, AcksFromParts
  <2> QED
    BY <1>0, <1>1, <2>1, <2>2, <2>3, QueueTells, SilentStep DEF LanesDropped
<1> QED
  BY <1>2, <1>3

\* The broker gives the connection up, or has done so.
LEMMA BrokerLeaves ==
  ASSUME Told, Apart', ~BrokerThere', UNCHANGED <<delivered, acked>>
  PROVE  Told'
BY DEF Told, AckedWasDelivered

\* What the broker puts in a connection, and takes from it.
LEMMA BrokerSends ==
  ASSUME Apart, OneConnection, NEW n, n.out = conn[1].out \/ n.out = Tail(conn[1].out),
         n.in = conn[1].in, NEW s \in Seq(Packets),
         n \in ConnRecords, conn' = [conn EXCEPT ![1] = ToClient(n, s)]
  PROVE  /\ conn'[1].in = conn[1].in \/ conn'[1].in = conn[1].in \o s
         /\ conn'[1].out = n.out
<1>1. conn \in [Pcbs -> ConnRecords] /\ 1 \in Pcbs
  BY OneConnectionTypes
<1> QED
  BY <1>1 DEF ToClient, ConnRecords

\* The broker accepts the connection, or answers.
LEMMA BrokerAnswersTold ==
  ASSUME Told, Apart', OneConnection, UNCHANGED <<clientVars, msgs_sent, acked>>,
         BrokerStays, NEW n \in ConnRecords, n.in = conn[1].in,
         \/ n.out = conn[1].out
         \/ n.out = Tail(conn[1].out) /\ conn[1].out # <<>>,
         NEW p \in Packets, p.type # "PUBLISH",
         conn' = [conn EXCEPT ![1] = ToClient(n, <<p>>)]
  PROVE  Told'
<1>0. Apart /\ conn[1].out \in Seq(Packets) /\ <<p>> \in Seq(Packets)
  BY OneConnectionTypes DEF Told
<1>1. UNCHANGED <<req_queue, delivered, rx>>
  BY DEF clientVars, queueVars, rxVars, appVars
<1>2. /\ conn'[1].in = conn[1].in \/ conn'[1].in = conn[1].in \o <<p>>
      /\ conn'[1].out = n.out
  BY <1>0, BrokerSends
<1>3. NoneComes
  <2> SUFFICES ASSUME NEW q, Coming(q)'
               PROVE  Coming(q)
    BY DEF NoneComes
  <2>1. Coming(q) \/ \E j \in 1 .. Len(<<p>>) : <<p>>[j] = q
    BY <1>0, <1>1, <1>2, AppendedBrings
  <2> QED
    BY <2>1 DEF Coming
<1>4. AcksFrom(conn'[1].out, conn[1].out)
  BY <1>0, <1>2, AcksFromParts
<1>5. Routine
  BY <1>1, <1>3, QueueTells DEF Routine, DeliveredMore
<1> QED
  BY <1>4, <1>5, RoutineStep

\* The broker takes a packet.  The last acknowledgement of a message ends what
\* the broker has in flight under the id, and the message is delivered.
LEMMA BrokerReceiveTold ==
  ASSUME Told, Apart', OneConnection, BrokerReceive(1)
  PROVE  Told'
<1> DEFINE b == broker[1]
           s == conn[1].out
           p == Head(s)
<1>0. /\ Apart /\ 1 \in Conns /\ 1 \in Pcbs /\ conn \in [Pcbs -> ConnRecords]
      /\ conn[1] \in ConnRecords /\ s \in Seq(Packets) /\ broker \in [Conns -> BrokerRecords]
      /\ delivered \in [1 .. MaxMsgs -> Nat]
  BY OneConnectionTypes DEF Told, Apart, Inv, TypeOK, ClientTypeOK
<1>1. /\ s # <<>> /\ b.phase = "accepted" /\ BrokerThere /\ Tracked
      /\ conn' = [conn EXCEPT ![1] = Taken(1)]
      /\ InFlight' = InFlight \ Finished(b, p)
      /\ acked' = acked \cup { f.body : f \in Finished(b, p) }
      /\ UNCHANGED <<rx, delivered, req_queue, msgs_sent>>
  BY <1>0 DEF BrokerReceive, Incoming, InFlight, BrokerThere, Told, clientVars,
     queueVars, rxVars, appVars
<1>2. /\ conn'[1].in = conn[1].in /\ conn'[1].out = Tail(s)
  BY <1>0, <1>1 DEF Taken, ConnRecords
<1>3. /\ Len(s) \in Nat /\ 1 \in 1 .. Len(s) /\ p = s[1]
      /\ Len(Tail(s)) = Len(s) - 1
      /\ \A k \in 1 .. Len(Tail(s)) : k + 1 \in 1 .. Len(s) /\ Tail(s)[k] = s[k + 1]
  <2>1. /\ Len(s) \in Nat /\ Len(s) # 0 /\ p = s[1]
        /\ Len(Tail(s)) = Len(s) - 1
        /\ \A k \in 1 .. Len(Tail(s)) : Tail(s)[k] = s[k + 1]
    BY <1>0, <1>1, LenProperties, EmptySeq, HeadTailProperties
  <2> HIDE DEF s
  <2> QED
    BY <2>1
<1>4. NoneComes
  BY <1>0, <1>1, <1>2, DroppedBringsNone DEF LanesDropped
<1> HIDE DEF b, s, p
<1>5. /\ Finished(b, p) = IF IsLastAck(p) THEN { f \in InFlight : f.id = p.id } ELSE {}
      /\ InFlight' \subseteq InFlight
  BY <1>1 DEF Finished, SentUnder, IsLastAck, InFlight, b
<1>6. \A f \in Finished(b, p) : delivered[f.body] = 1 /\ f.body \in 1 .. MaxMsgs
  <2> SUFFICES ASSUME NEW f \in InFlight, f.id = p.id, IsLastAck(p)
               PROVE  delivered[f.body] = 1 /\ f.body \in 1 .. MaxMsgs
    BY <1>5
  <2>1. PICK g \in InFlight : g.id = p.id /\ delivered[g.body] = 1
    BY <1>1, <1>3 DEF Tracked, LastAcksTrue, s
  <2>2. f = g
    BY <1>1, <2>1 DEF Tracked, InFlightDiffer
  <2> QED
    BY <1>1, <2>1, <2>2, InFlightAreMessages
<1>7. AckedWasDelivered' /\ acked' \subseteq 1 .. MaxMsgs
  BY <1>1, <1>6 DEF Told, AckedWasDelivered
<1>8. \A f \in InFlight : delivered[f.body] = 0 => f \in InFlight'
  BY <1>1, <1>6
<1>9. InFlightDiffer'
  BY <1>1, <1>5 DEF Tracked, InFlightDiffer
<1>10. ComingInFlight'
  <2> SUFFICES ASSUME NEW q, Coming(q)
               PROVE  \E f \in InFlight' : f.id = q.id /\ f.body = q.body
    BY <1>4 DEF ComingInFlight, NoneComes
  <2>1. PICK f \in InFlight : f.id = q.id /\ f.body = q.body
    BY <1>1 DEF Tracked, ComingInFlight
  <2>2. delivered[q.body] = 0
    BY <1>0, ComingIsUnderWay DEF Apart, MessagesApart, Fresh
  <2> QED
    BY <1>8, <2>1, <2>2
<1>11. KeptInFlight'
  <2> SUFFICES ASSUME NEW i \in Slots, Releasable(i)
               PROVE  \E f \in InFlight' : f.id = IdAt(i) /\ f.body = ContextAt(i)
    BY <1>1 DEF KeptInFlight, Releasable, StateAt, IdAt, ContextAt
  <2>1. PICK f \in InFlight : f.id = IdAt(i) /\ f.body = ContextAt(i)
    BY <1>1 DEF Tracked, KeptInFlight
  <2>2. delivered[ContextAt(i)] = 0
    BY <1>0 DEF Apart, MessagesApart
  <2> QED
    BY <1>8, <2>1, <2>2
<1>12. LastAcksTrue(conn[1].out)' /\ LastAcksDiffer(conn[1].out)'
  <2> DEFINE t == Tail(s)
  <2>1. LastAcksTrue(s) /\ LastAcksDiffer(s)
    BY <1>1 DEF Tracked, s
  <2>2. ASSUME NEW k \in 1 .. Len(t), IsLastAck(t[k])
        PROVE  \E f \in InFlight' : f.id = t[k].id /\ delivered[f.body] = 1
    <3>1. k + 1 \in 1 .. Len(s) /\ t[k] = s[k + 1]
      BY <1>3
    <3>2. PICK j \in 1 .. Len(s) : j = k + 1 /\ t[k] = s[j] /\ j # 1
      BY <3>1
    <3>3. PICK f \in InFlight : f.id = t[k].id /\ delivered[f.body] = 1
      BY <2>1, <2>2, <3>2 DEF LastAcksTrue
    <3>4. f \notin Finished(b, p)
      <4> SUFFICES ASSUME IsLastAck(p), f.id = p.id
                   PROVE  FALSE
        BY <1>5
      <4>1. s[j].id = s[1].id /\ IsLastAck(s[j]) /\ IsLastAck(s[1])
        BY <1>3, <2>2, <3>2, <3>3
      <4> QED
        BY <1>3, <2>1, <3>2, <4>1 DEF LastAcksDiffer
    <3> QED
      BY <1>1, <3>3, <3>4
  <2>3. ASSUME NEW k \in 1 .. Len(t), NEW l \in 1 .. Len(t),
               IsLastAck(t[k]), IsLastAck(t[l]), t[k].id = t[l].id
        PROVE  k = l
    <3>1. /\ k + 1 \in 1 .. Len(s) /\ t[k] = s[k + 1]
          /\ l + 1 \in 1 .. Len(s) /\ t[l] = s[l + 1]
      BY <1>3
    <3>2. PICK i \in 1 .. Len(s) : i = k + 1
      BY <3>1
    <3>3. PICK j \in 1 .. Len(s) : j = l + 1
      BY <3>1
    <3>4. i = j
      BY <2>1, <2>3, <3>1, <3>2, <3>3 DEF LastAcksDiffer
    <3> QED
      BY <3>2, <3>3, <3>4
  <2>4. conn'[1].out = t
    BY <1>2
  <2> HIDE DEF t
  <2> QED
    BY <1>1, <2>2, <2>3, <2>4 DEF LastAcksTrue, LastAcksDiffer
<1>13. Tracked'
  BY <1>9, <1>10, <1>11, <1>12 DEF Tracked
<1> QED
  BY <1>7, <1>13 DEF Told

\* The broker publishes: a new message, under an id that is not in use.
LEMMA BrokerPublishTold ==
  ASSUME Told, Apart', OneConnection, NEW qos \in 0 .. 2, BrokerPublish(1, qos)
  PROVE  Told'
<1> DEFINE m == msgs_sent + 1
           b == broker[1]
<1>0. /\ Apart /\ 1 \in Conns /\ 1 \in Pcbs /\ conn \in [Pcbs -> ConnRecords]
      /\ conn[1] \in ConnRecords /\ broker \in [Conns -> BrokerRecords]
      /\ conn[1].out \in Seq(Packets) /\ b \in BrokerRecords
  BY OneConnectionTypes DEF Told
<1>1. /\ b.phase = "accepted" /\ BrokerThere /\ Tracked
      /\ msgs_sent \in 0 .. MaxMsgs /\ MaxMsgs \in Nat /\ msgs_sent' = m
      /\ msgs_sent < MaxMsgs
      /\ UNCHANGED <<rx, delivered, req_queue, acked>>
  BY <1>0, ClientAssumption DEF BrokerPublish, BrokerThere, Told, clientVars, queueVars,
     rxVars, appVars, Apart, Inv, TypeOK, BrokerTypeOK
<1>2. PICK id \in PacketIds :
        /\ conn' = [conn EXCEPT ![1] =
                      ToClient(conn[1], << Packet("PUBLISH", id, m, qos) >>)]
        /\ qos = 0 => broker' = broker
        /\ qos # 0 =>
             /\ SentUnder(b, id) = {}
             /\ broker' = [broker EXCEPT ![1] =
                  [b EXCEPT !.inflight = b.inflight \cup {[ id |-> id, body |-> m ]}]]
  <2>1. PICK id \in IF qos = 0 THEN {0}
                    ELSE { i \in 1 .. MaxPacketId : SentUnder(broker[1], i) = {} } :
          /\ conn' = [conn EXCEPT ![1] =
                        ToClient(@, << Packet("PUBLISH", id, msgs_sent', qos) >>)]
          /\ broker' = IF qos = 0 THEN broker
                       ELSE [broker EXCEPT ![1].inflight =
                               @ \cup {[ id |-> id, body |-> msgs_sent' ]}]
    BY DEF BrokerPublish
  <2>2. id \in PacketIds /\ (qos # 0 => SentUnder(b, id) = {})
    BY SmallNumbers
  <2>3. /\ conn' = [conn EXCEPT ![1] =
                      ToClient(conn[1], << Packet("PUBLISH", id, m, qos) >>)]
        /\ qos = 0 => broker' = broker
    BY <1>0, <1>1, <2>1
  <2>4. qos # 0 => broker' = [broker EXCEPT ![1] =
                  [b EXCEPT !.inflight = b.inflight \cup {[ id |-> id, body |-> m ]}]]
    BY <1>0, <1>1, <2>1
  <2> QED
    BY <2>2, <2>3, <2>4
<1> DEFINE p == Packet("PUBLISH", id, m, qos)
           f == [ id |-> id, body |-> m ]
<1>3. p \in Packets /\ <<p>> \in Seq(Packets) /\ p.id = id /\ p.body = m /\ p.qos = qos
  <2>1. m \in Contexts
    BY <1>1, SmallNumbers
  <2>2. p \in Packets
    BY <2>1, PacketType DEF PacketTypes
  <2> QED
    BY <2>2 DEF Packet
<1>4. /\ conn'[1].in = conn[1].in \/ conn'[1].in = conn[1].in \o <<p>>
      /\ conn'[1].out = conn[1].out
  <2>1. conn' = [conn EXCEPT ![1] = ToClient(conn[1], <<p>>)]
    BY <1>2
  <2> HIDE DEF p
  <2> QED
    BY <1>0, <1>3, <2>1, BrokerSends
<1>5. InFlight \subseteq InFlight'
      /\ (qos = 0 => InFlight' = InFlight) /\ (qos # 0 => InFlight' = InFlight \cup {f})
  <2>1. CASE qos = 0
    BY <1>2, <2>1 DEF InFlight
  <2>2. CASE qos # 0
    <3>1. broker'[1] = [b EXCEPT !.inflight = b.inflight \cup {f}]
      BY <1>0, <1>2, <2>2
    <3>2. broker'[1].inflight = b.inflight \cup {f}
      BY <1>0, <3>1 DEF BrokerRecords
    <3> QED
      BY <2>2, <3>2 DEF InFlight
  <2> QED
    BY <2>1, <2>2
<1> HIDE DEF p
<1>6. InFlightDiffer'
  <2>1. \A g \in InFlight : g.body \in 1 .. msgs_sent /\ g.body # m
    BY <1>1 DEF Tracked, InFlightDiffer
  <2>2. CASE qos = 0
    BY <1>1, <1>5, <2>1, <2>2 DEF Tracked, InFlightDiffer
  <2>3. CASE qos # 0
    <3>1. \A g \in InFlight : g.id # f.id
      BY <1>2, <2>3 DEF SentUnder, InFlight
    <3>2. f.body = m /\ f.body \in 1 .. msgs_sent'
      BY <1>1
    <3>3. \A g \in InFlight : g.body \in 1 .. msgs_sent'
      BY <1>1, <2>1
    <3> HIDE DEF f, m
    <3> QED
      BY <1>1, <1>5, <2>1, <2>3, <3>1, <3>2, <3>3 DEF Tracked, InFlightDiffer
  <2> QED
    BY <2>2, <2>3
<1>7. ComingInFlight'
  <2> SUFFICES ASSUME NEW q, Coming(q)'
               PROVE  \E g \in InFlight' : g.id = q.id /\ g.body = q.body
    BY DEF ComingInFlight
  <2>1. Coming(q) \/ \E j \in 1 .. Len(<<p>>) : <<p>>[j] = q
    BY <1>0, <1>1, <1>3, <1>4, AppendedBrings
  <2>2. CASE Coming(q)
    BY <1>1, <1>5, <2>2 DEF Tracked, ComingInFlight
  <2>3. CASE q = p
    <3>1. qos # 0
      BY <1>3, <2>3 DEF Coming
    <3>2. f.id = p.id /\ f.body = p.body
      BY <1>3
    <3> QED
      BY <1>5, <2>3, <3>1, <3>2
  <2> QED
    BY <2>1, <2>2, <2>3
<1>8. KeptInFlight'
  BY <1>1, <1>5 DEF Tracked, KeptInFlight, Releasable, StateAt, IdAt, ContextAt
<1>9. LastAcksTrue(conn[1].out)' /\ LastAcksDiffer(conn[1].out)'
  BY <1>1, <1>4, <1>5 DEF Tracked, LastAcksTrue, LastAcksDiffer
<1>10. Tracked'
  BY <1>6, <1>7, <1>8, <1>9 DEF Tracked
<1>11. AckedWasDelivered' /\ acked' \subseteq 1 .. MaxMsgs
  BY <1>1 DEF Told, AckedWasDelivered
<1> QED
  BY <1>10, <1>11 DEF Told

\* The broker, whatever it does.
LEMMA BrokerTold ==
  ASSUME Told, Apart', OneConnection, NEW c \in Conns, Broker(c)
  PROVE  Told'
<1>0. /\ Apart /\ c = 1 /\ 1 \in Conns /\ 1 \in Pcbs /\ conn \in [Pcbs -> ConnRecords]
      /\ conn[1] \in ConnRecords /\ broker \in [Conns -> BrokerRecords]
      /\ conn[1].out \in Seq(Packets)
  BY OneConnectionTypes DEF Told
<1>1. ASSUME NEW phase \in {"refused", "closed"},
             broker' = [broker EXCEPT ![1] = Gone(broker[1], phase)],
             UNCHANGED <<clientVars, acked>>
      PROVE  Told'
  <2>1. ~BrokerThere'
    BY <1>0, <1>1 DEF BrokerThere, Gone, BrokerRecords
  <2> QED
    BY <1>1, <2>1, BrokerLeaves DEF clientVars, appVars
<1>2. CASE BrokerConnect(c)
  <2>1. CASE broker' = [broker EXCEPT ![1] = Gone(broker[1], "refused")]
    BY <1>1, <1>2, <2>1 DEF BrokerConnect
  <2>2. CASE /\ broker[1].phase = "new"
             /\ broker' = [broker EXCEPT ![1].phase = "accepted"]
             /\ conn' = [conn EXCEPT ![1] =
                           ToClient(Taken(1), << Packet("CONNACK", 0, Accepted, 0) >>)]
    <3> DEFINE p == Packet("CONNACK", 0, Accepted, 0)
    <3>1. p \in Packets /\ p.type # "PUBLISH"
      <4>1. p \in Packets
        BY SmallNumbers, PacketType DEF PacketTypes
      <4> QED
        BY <4>1 DEF Packet
    <3>2. /\ conn[1].out # <<>> /\ Taken(1) \in ConnRecords
          /\ Taken(1).in = conn[1].in /\ Taken(1).out = Tail(conn[1].out)
      <4>1. conn[1].out # <<>>
        BY <1>0, <1>2 DEF BrokerConnect, Incoming
      <4>2. Tail(conn[1].out) \in Seq(Packets)
        BY <1>0, <4>1, HeadTailType
      <4> QED
        BY <1>0, <4>1, <4>2 DEF Taken, ConnRecords
    <3>3. BrokerStays
      BY <1>0, <2>2 DEF BrokerStays, BrokerThere, InFlight, BrokerRecords
    <3>4. UNCHANGED <<clientVars, msgs_sent, acked>>
      BY <1>2 DEF BrokerConnect
    <3> HIDE DEF p
    <3>5. conn' = [conn EXCEPT ![1] = ToClient(Taken(1), <<p>>)]
      BY <2>2 DEF p
    <3> QED
      BY <3>1, <3>2, <3>3, <3>4, <3>5, BrokerAnswersTold
  <2> QED
    BY <1>0, <1>2, <2>1, <2>2 DEF BrokerConnect
<1>3. CASE BrokerDisconnected(c) \/ BrokerClose(c)
  BY <1>0, <1>1, <1>3 DEF BrokerDisconnected, BrokerClose
<1>4. CASE BrokerIgnores(c)
  <2>1. ~BrokerThere' /\ UNCHANGED <<delivered, acked>>
    BY <1>0, <1>4 DEF BrokerIgnores, Over, BrokerThere, brokerVars, clientVars, appVars
  <2> QED
    BY <2>1, BrokerLeaves
<1>5. CASE BrokerReply(c)
  <2>1. PICK p \in broker[1].owed :
          /\ broker' = [broker EXCEPT ![1].owed = @ \ {p}]
          /\ conn' = [conn EXCEPT ![1] = ToClient(conn[1], << p >>)]
          /\ UNCHANGED <<clientVars, msgs_sent, acked>>
    BY <1>0, <1>5 DEF BrokerReply
  <2>2. p \in Packets /\ p.type # "PUBLISH"
    BY <1>0 DEF Apart, OwedAreAnswers
  <2>3. BrokerStays
    BY <1>0, <2>1 DEF BrokerStays, BrokerThere, InFlight, BrokerRecords
  <2> QED
    BY <1>0, <2>1, <2>2, <2>3, BrokerAnswersTold
<1> QED
  BY <1>0, <1>2, <1>3, <1>4, <1>5, BrokerReceiveTold, BrokerPublishTold DEF Broker

----
(***************************************************************************)
(* The theorem.                                                            *)
(***************************************************************************)
\* At the start nothing is in flight.
LEMMA InitTold ==
  ASSUME Init, OneConnection
  PROVE  Told
<1>1. Apart
  BY InitApart
<1>2. /\ 1 \in Conns /\ 1 \in Pcbs /\ InFlight = {} /\ acked = {}
      /\ conn[1].out = <<>> /\ \A c \in Pcbs : Lane(c) = <<>>
      /\ \A i \in Slots : ~Releasable(i) /\ \A m \in 1 .. MaxMsgs : delivered[m] = 0
  BY <1>1, OneConnectionTypes
     DEF Init, MQTTClient_init, TcpInit, BrokerInit, NoConn, Lane, InFlight,
         mqtt_req_queue_init, NoRequest, Releasable, StateAt
<1>3. \A m \in 1 .. MaxMsgs : delivered[m] = 0
  BY DEF Init, MQTTClient_init
<1>4. AckedWasDelivered /\ acked \subseteq 1 .. MaxMsgs
  BY <1>2, <1>3 DEF AckedWasDelivered
<1>5. \A q : ~Coming(q)
  BY <1>2, EmptySeq DEF Coming
<1>6. Tracked
  BY <1>2, <1>5, EmptySeq DEF Tracked, InFlightDiffer, ComingInFlight, KeptInFlight,
     LastAcksTrue, LastAcksDiffer
<1> QED
  BY <1>1, <1>4, <1>6 DEF Told

\* Every step, with what the earlier modules show of it.
LEMMA NextTold ==
  ASSUME Told, OneConnection, [Next]_vars
  PROVE  Told'
<1>1. Apart /\ Apart' /\ ChainsFollowed
  BY NextApart, NextFollows DEF Told, Apart
<1>2. CASE UNCHANGED vars
  <2>1. /\ UNCHANGED <<conn, brokerVars, delivered, rx, req_queue>>
        /\ conn[1].out \in Seq(Packets)
    BY <1>1, <1>2, OneConnectionTypes DEF vars, clientVars, queueVars, rxVars, appVars
  <2> QED
    BY <1>1, <2>1, AcksFromParts, QueueTells, SilentStep DEF LanesDropped
<1>3. CASE Next
  BY <1>1, <1>3, ApplicationTold, WaitingTold, ReceptionTold, NetworkTold, BrokerTold
     DEF Next
<1> QED
  BY <1>2, <1>3

\* On one connection no message of the broker reaches the application twice,
\* and one the broker was told is safe (PUBACK or PUBCOMP) has reached it: in
\* mqtt_receive.c the case that sends the answer also calls on_msg_received_cb.
THEOREM AckedWasDeliveredOnOneConnection ==
  ASSUME OneConnection
  PROVE  Spec => []AckedWasDelivered
<1>1. Init => Told
  BY InitTold
<1>2. Told /\ [Next]_vars => Told'
  BY NextTold
<1>3. Told => AckedWasDelivered
  BY DEF Told
<1> QED
  BY <1>1, <1>2, <1>3, PTL DEF Spec

====
