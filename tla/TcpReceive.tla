---- MODULE TcpReceive ----
(***************************************************************************)
(* How the broker's bytes become packets: lwIP's tcp_receive puts segments *)
(* that were lost and sent again, duplicated, reordered or cut anew back   *)
(* in order (tcp_in.c), keeps the window (tcp.c), and hands a chain of     *)
(* pbufs to tcp_received_cb, which takes it apart packet by packet with    *)
(* the bytes_left of get_mqtt_packet and closes when a packet fails.  A    *)
(* byte of the stream is its number.                                       *)
(***************************************************************************)
EXTENDS Naturals, Sequences, FiniteSets, Sums, MqttLength

CONSTANTS TCP_WND,       \* 4 * TCP_MSS in opt.h
          TCP_MSS,       \* 536
          PublishLens,   \* instance: remaining lengths of PUBLISH
          CutPoints,     \* instance: bytes before which the broker may cut the stream
          MaxPackets     \* bound: packets the broker sends before it closes

\* lwip_init wants the window to fit in 16 bits (init.c); four digits of
\* remaining length are the most MQTT has.
ASSUME ReceiveAssumption ==
  /\ TCP_MSS \in Nat \ {0} /\ TCP_WND \in Nat /\ TCP_WND >= 2 * TCP_MSS /\ TCP_WND <= 65535
  /\ PublishLens \subseteq Nat /\ \A len \in PublishLens : len <= 268435455
  /\ CutPoints \subseteq Nat /\ MaxPackets \in Nat

VARIABLES
  stream,               \* the packets the broker sends, and then a FIN
  state,                \* "ESTABLISHED", "CLOSE_WAIT"; closed by the client:
                        \* "LAST_ACK", "FIN_WAIT_1", or "freed" after a RST
  rcv_nxt, rcv_wnd, rcv_ann_wnd, rcv_ann_right_edge,
  ooseq,                \* segments ahead of rcv_nxt, in order
  recv_data,            \* the chain of pbufs in tcp_received_cb, or <<>>
  got_fin,              \* TF_GOT_FIN: to be reported after recv_data
  bytes_left,           \* of tcp_received_cb; 0 when none is under way
  rc,                   \* what get_mqtt_packet returned last: "MQTT_SUCCESS" or "failure"
  delivered,            \* the bytes tcp_received_cb was given, in that order
  handled,              \* the packets get_mqtt_packet returned MQTT_SUCCESS for
  in_pieces,            \* history: a callback was given a chain or part of a packet
  astray                \* get_mqtt_packet was called for bytes that are not there

windowVars == <<rcv_wnd, rcv_ann_wnd, rcv_ann_right_edge>>
clientVars == <<bytes_left, rc, delivered, handled, in_pieces, astray>>
vars == <<stream, state, rcv_nxt, windowVars, ooseq, recv_data, got_fin, clientVars>>

-----------------------------------------------------------------------------
(* The stream.                                                              *)

Packets ==
  [type : {"PINGRESP"}, remaining_len : {0}] \cup [type : {"PUBACK"}, remaining_len : {2}]
    \cup [type : {"SUBACK"}, remaining_len : {3}] \cup [type : {"PUBLISH"}, remaining_len : PublishLens]

\* A type byte, the digits of the remaining length, and the rest.
PacketLen(p) == 1 + encode_remaining_len(p.remaining_len) + p.remaining_len

\* The byte behind the first n packets.
EndOf[n \in 0 .. Len(stream)] ==
  IF n = 0 THEN 1 ELSE EndOf[n - 1] + PacketLen(stream[n])

Eof == EndOf[Len(stream)]           \* the number of the FIN

\* A segment of the broker; its data may be cut at any of CutPoints, and
\* differently when it is sent again, but keeps to the window it was told of.
Segment(seqno, len, fin) ==
  [seqno |-> seqno, data |-> [i \in 1 .. len |-> seqno + i - 1], fin |-> fin]

FinLen(s) == IF s.fin THEN 1 ELSE 0
EndOfData(s) == s.seqno + Len(s.data)
TCP_TCPLEN(s) == Len(s.data) + FinLen(s)
EndOfSeg(s) == s.seqno + TCP_TCPLEN(s)

Sendable(s) ==
  /\ TCP_TCPLEN(s) > 0 /\ EndOfSeg(s) <= rcv_ann_right_edge
  /\ EndOfData(s) <= Eof /\ (s.fin => EndOfData(s) = Eof)

CutsFrom(n) == {to \in CutPoints \cup {Eof} : n <= to /\ to <= n + TCP_MSS}

SegmentsFrom(n) ==
  {s \in {Segment(n, to - n, f) : to \in CutsFrom(n), f \in BOOLEAN} : Sendable(s)}

ReceiveInit ==
  /\ stream \in UNION {[1 .. n -> Packets] : n \in 0 .. MaxPackets}
  /\ state = "ESTABLISHED" /\ rcv_nxt = 1
  /\ rcv_wnd = TCP_WND /\ rcv_ann_wnd = TCP_WND /\ rcv_ann_right_edge = 1 + TCP_WND
  /\ ooseq = <<>> /\ recv_data = <<>> /\ got_fin = FALSE
  /\ bytes_left = 0 /\ rc = "MQTT_SUCCESS" /\ delivered = <<>> /\ handled = <<>>
  /\ in_pieces = FALSE /\ astray = FALSE

-----------------------------------------------------------------------------
(* The window.                                                              *)

Least(a, b) == IF a < b THEN a ELSE b

\* Mutant: the window is never opened again.
WindowKept(nxt, wnd) == IF nxt > rcv_ann_right_edge THEN 0 ELSE rcv_ann_right_edge - nxt

\* tcp_update_rcv_ann_wnd: a little more window is not announced.
tcp_update_rcv_ann_wnd(nxt, wnd) ==
  IF nxt + wnd >= rcv_ann_right_edge + Least(TCP_WND \div 2, TCP_MSS) THEN wnd
  ELSE IF nxt > rcv_ann_right_edge THEN 0
  ELSE rcv_ann_right_edge - nxt

\* An acknowledgement tells the broker, by itself or with a packet the client
\* sends, which may be an answer from within the callback.
SendAck ==
  /\ state # "freed" /\ (recv_data # <<>> => bytes_left # 0)
  /\ rcv_ann_right_edge' = rcv_nxt + rcv_ann_wnd
  /\ UNCHANGED <<stream, state, rcv_nxt, rcv_wnd, rcv_ann_wnd, ooseq, recv_data, got_fin, clientVars>>

-----------------------------------------------------------------------------
(* tcp_receive.                                                             *)

Shortened(s, to) == [s EXCEPT !.data = SubSeq(@, 1, to - s.seqno)]

\* Mutant: the sequence number is moved up and the data is not.
TrimmedHeaderOnly(s) ==
  IF s.seqno < rcv_nxt /\ rcv_nxt < EndOfSeg(s)
  THEN [s EXCEPT !.seqno = rcv_nxt]
  ELSE s

\* What has been received before is cut off.
Trimmed(s) ==
  IF s.seqno < rcv_nxt /\ rcv_nxt < EndOfSeg(s)
  THEN [s EXCEPT !.seqno = rcv_nxt, !.data = SubSeq(@, rcv_nxt - s.seqno + 1, Len(@))]
  ELSE s

\* Of the segments in queue, how many at its head s has all the data of.
Covered(s, queue) ==
  Cardinality({i \in DOMAIN queue : \A j \in 1 .. i : EndOfData(queue[j]) <= EndOfData(s)})

\* tcp_oos_insert_segment, and the same for a segment in sequence: s replaces
\* what it covers, takes over a FIN from it, and ends where the next begins;
\* behind a FIN there is nothing.
BeforeQueue(s, queue) ==
  LET n == Covered(s, queue)
      rest == SubSeq(queue, n + 1, Len(queue))
      whole == [s EXCEPT !.fin = @ \/ \E i \in 1 .. n : queue[i].fin]
  IN IF s.fin THEN <<s>>
     ELSE IF rest # <<>> /\ EndOfData(s) > rest[1].seqno
          THEN <<Shortened(whole, rest[1].seqno)>> \o rest
          ELSE <<whole>> \o rest

\* The place of an early segment in the queue: for those with the same number
\* the longer one stays; one that comes behind another cuts it short.
Queued(s) ==
  LET before == Cardinality({i \in DOMAIN ooseq : ooseq[i].seqno < s.seqno})
      rest == SubSeq(ooseq, before + 1, Len(ooseq))
      previous == ooseq[before]
  IN IF rest # <<>> /\ rest[1].seqno = s.seqno /\ Len(s.data) <= Len(rest[1].data) THEN ooseq
     ELSE IF before = 0 THEN BeforeQueue(s, rest)
     ELSE IF rest = <<>> /\ previous.fin THEN ooseq
     ELSE SubSeq(ooseq, 1, before - 1)
            \o <<IF EndOfData(previous) > s.seqno /\ ~(rest # <<>> /\ rest[1].seqno = s.seqno)
                 THEN Shortened(previous, s.seqno) ELSE previous>>
            \o BeforeQueue(s, rest)

\* How many segments at the head of queue follow each other without a gap.
Contiguous(queue) ==
  Cardinality({i \in DOMAIN queue :
                 \A j \in 2 .. i : queue[j].seqno = EndOfSeg(queue[j - 1])})

\* pbuf_cat: the data of the segments in one chain, without those that have none.
Joined(segments) ==
  LET joined[i \in 0 .. Len(segments)] ==
        IF i = 0 THEN <<>>
        ELSE IF segments[i].data = <<>> THEN joined[i - 1]
        ELSE Append(joined[i - 1], segments[i].data)
  IN joined[Len(segments)]

\* The chain, and the rest of the queue.
PassedUp(chain, rest, len) ==
  /\ rcv_nxt' = rcv_nxt + len
  /\ rcv_wnd' = rcv_wnd - len
  /\ rcv_ann_wnd' = tcp_update_rcv_ann_wnd(rcv_nxt + len, rcv_wnd - len)
  /\ ooseq' = rest
  /\ recv_data' = Joined(chain)
  /\ got_fin' = \E i \in DOMAIN chain : chain[i].fin
  /\ state' = IF \E i \in DOMAIN chain : chain[i].fin THEN "CLOSE_WAIT" ELSE state

\* In sequence: the segment, and the queued ones it joins up with, go to the
\* application in one chain.
InSequence(s) ==
  \E queue \in {BeforeQueue(s, ooseq)} :
    \E n \in {Contiguous(queue)} :
      PassedUp(SubSeq(queue, 1, n), SubSeq(queue, n + 1, Len(queue)),
               Total([i \in 1 .. n |-> TCP_TCPLEN(queue[i])]))

Early(s) ==
  /\ ooseq' = Queued(s)
  /\ UNCHANGED <<rcv_nxt, rcv_wnd, rcv_ann_wnd, recv_data, got_fin, state>>

\* A segment comes, for the first time or again.  (One whose bytes have all
\* come before changes nothing, nor does one after the FIN.  What comes after
\* the client has closed is not handed over, and left out here.)
tcp_receive(arriving) ==
  LET s == Trimmed(arriving) IN
  /\ state = "ESTABLISHED" /\ recv_data = <<>>
  /\ \/ s.seqno = rcv_nxt /\ InSequence(s)
     \/ s.seqno > rcv_nxt /\ s.seqno < rcv_nxt + rcv_wnd /\ Early(s)
  /\ UNCHANGED <<stream, rcv_ann_right_edge, clientVars>>

-----------------------------------------------------------------------------
(* The client's callback.                                                   *)

Bytes(chain) == Total([i \in DOMAIN chain |-> Len(chain[i])])

\* The pbuf handed over is one, and the packets in it are whole.
InOnePiece ==
  /\ Len(recv_data) = 1
  /\ \E m, n \in 0 .. Len(stream) :
       EndOf[m] = Len(delivered) + 1 /\ EndOf[n] = Len(delivered) + 1 + Len(recv_data[1])

\* tcp_close: a RST, and the end of the pcb, when not all of the window has
\* been given back; otherwise a FIN, the first time.
tcp_close(st, wnd) ==
  CASE st \in {"ESTABLISHED", "CLOSE_WAIT"} /\ wnd # TCP_WND -> "freed"
    [] st = "ESTABLISHED" /\ wnd = TCP_WND -> "FIN_WAIT_1"
    [] st = "CLOSE_WAIT" /\ wnd = TCP_WND -> "LAST_ACK"
    [] st \notin {"ESTABLISHED", "CLOSE_WAIT"} -> st

\* tcp_recved gives back n bytes of window; then all the data is walked over.
Received(n) ==
  /\ recv_data # <<>> /\ bytes_left = 0
  /\ rcv_wnd' = Least(rcv_wnd + n, TCP_WND)
  /\ rcv_ann_wnd' = tcp_update_rcv_ann_wnd(rcv_nxt, rcv_wnd')
  /\ delivered' = delivered \o Flattened(recv_data)
  /\ bytes_left' = Bytes(recv_data) /\ rc' = "MQTT_SUCCESS"
  /\ in_pieces' = (in_pieces \/ ~InOnePiece)
  /\ UNCHANGED <<stream, state, rcv_nxt, rcv_ann_right_edge, ooseq, recv_data, got_fin,
                 handled, astray>>

\* Mutant: tcp_recved is given p->len.
ReceivedOfFirst == Received(Len(recv_data[1]))

tcp_received_cb == Received(Bytes(recv_data))

\* Where payload + offset is, and the packet that begins there.
Offset == Bytes(recv_data) - bytes_left
Position == recv_data[1][1] + Offset
PacketAt(position) == {n \in DOMAIN stream : EndOf[n - 1] = position}

\* Only the first pbuf of the chain is at payload.
IsThere(n) == Offset + PacketLen(stream[n]) <= Len(recv_data[1])

\* Mutant: the remaining length is taken to have one digit.
BytesLeftOneDigit(tot_len, p) ==
  IF p.type = "PINGRESP" THEN tot_len - 2 ELSE tot_len - 1 - 1 - p.remaining_len

\* Mutant: the fixed header is taken off twice.
BytesLeftHeaderTwice(tot_len, p) ==
  IF p.type = "PINGRESP" THEN tot_len - 2 ELSE tot_len - 1 - 1 - (2 + p.remaining_len)

\* What get_mqtt_packet stores in *bytes_left.
BytesLeft(tot_len, p) ==
  IF p.type = "PINGRESP" THEN tot_len - 2
  ELSE tot_len - 1 - get_digits_remaining_len(p.remaining_len) - p.remaining_len

\* Mutant: a PINGRESP leaves *bytes_left as it is, and is looked at for ever.
PongNotTakenOff ==
  /\ bytes_left # 0 /\ ~astray
  /\ \E n \in PacketAt(Position) :
       /\ IsThere(n) /\ (rc = "MQTT_SUCCESS" \/ stream[n].type = "PUBLISH")
       /\ stream[n].type # "PINGRESP"
       /\ handled' = Append(handled, n) /\ rc' = "MQTT_SUCCESS"
       /\ bytes_left' = BytesLeft(bytes_left, stream[n])
       /\ recv_data' = IF bytes_left' = 0 THEN <<>> ELSE recv_data
  /\ UNCHANGED <<stream, state, rcv_nxt, windowVars, ooseq, got_fin, delivered, in_pieces,
                 astray>>

\* MQTT_SUCCESS.  A packet that has failed in this callback fails again, but
\* for a PUBLISH, which takes a slot each time until it is discarded.
get_mqtt_packet ==
  /\ bytes_left # 0 /\ ~astray
  /\ \E n \in PacketAt(Position) :
       /\ IsThere(n) /\ (rc = "MQTT_SUCCESS" \/ stream[n].type = "PUBLISH")
       /\ handled' = Append(handled, n) /\ rc' = "MQTT_SUCCESS"
       /\ bytes_left' = BytesLeft(bytes_left, stream[n])
       /\ recv_data' = IF bytes_left' = 0 THEN <<>> ELSE recv_data
  /\ UNCHANGED <<stream, state, rcv_nxt, windowVars, ooseq, got_fin, delivered, in_pieces,
                 astray>>

\* An error (no request waits for it, or there is no room for an answer): the
\* callback closes, and returns if this was the first packet; if it was not,
\* *bytes_left is as before and the same packet is next.
get_mqtt_packet_fails ==
  /\ bytes_left # 0 /\ ~astray
  /\ \E n \in PacketAt(Position) : IsThere(n) /\ stream[n].type # "PINGRESP"
  /\ rc' = "failure" /\ state' = tcp_close(state, rcv_wnd)
  /\ \/ Offset = 0 /\ bytes_left' = 0 /\ recv_data' = <<>>
     \/ Offset # 0 /\ UNCHANGED <<bytes_left, recv_data>>
  /\ UNCHANGED <<stream, rcv_nxt, windowVars, ooseq, got_fin, delivered, handled, in_pieces,
                 astray>>

\* A packet that does not end in this pbuf is read beyond it.  From then on
\* bytes_left may be anything: the callback may go on, for ever, or return, and
\* may close.
get_mqtt_packet_beyond ==
  /\ bytes_left # 0
  /\ astray \/ ~ \E n \in PacketAt(Position) : IsThere(n)
  /\ astray' = TRUE
  /\ \/ rc' = "MQTT_SUCCESS" /\ UNCHANGED state
     \/ rc' = "failure" /\ state' = tcp_close(state, rcv_wnd)
  /\ \/ bytes_left' = 0 /\ recv_data' = <<>>
     \/ UNCHANGED <<bytes_left, recv_data>>
  /\ UNCHANGED <<stream, rcv_nxt, windowVars, ooseq, got_fin, delivered, handled, in_pieces>>

\* Mutant: the FIN's number is not given back.
ClosedWithoutFin ==
  /\ got_fin /\ recv_data = <<>>
  /\ got_fin' = FALSE /\ rcv_wnd' = rcv_wnd
  /\ state' = tcp_close(state, rcv_wnd')
  /\ UNCHANGED <<stream, rcv_nxt, rcv_ann_wnd, rcv_ann_right_edge, ooseq, recv_data, clientVars>>

\* The FIN is reported when the data has been: tcp_received_cb with NULL,
\* which closes.  Nobody calls tcp_recved for the FIN.
tcp_received_cb_closed ==
  /\ got_fin /\ recv_data = <<>>
  /\ got_fin' = FALSE
  /\ rcv_wnd' = IF rcv_wnd # TCP_WND THEN rcv_wnd + 1 ELSE rcv_wnd
  /\ state' = tcp_close(state, rcv_wnd')
  /\ UNCHANGED <<stream, rcv_nxt, rcv_ann_wnd, rcv_ann_right_edge, ooseq, recv_data, clientVars>>

Packet == get_mqtt_packet \/ get_mqtt_packet_fails \/ get_mqtt_packet_beyond

ReceiveNext ==
  \/ \E n \in {1} \cup (CutPoints \cap 1 .. Eof) \cup {Eof} :
       \E s \in SegmentsFrom(n) : tcp_receive(s)
  \/ SendAck
  \/ tcp_received_cb \/ Packet \/ tcp_received_cb_closed

ReceiveSpec == ReceiveInit /\ [][ReceiveNext]_vars

\* The broker sends again what was not acknowledged, and sometimes it arrives.
Retransmission == \E s \in SegmentsFrom(rcv_nxt) : tcp_receive(s)

\* tcp_input goes on, and so does the callback as long as packets are whole and
\* succeed; nothing is assumed of one that has failed or reads beyond its pbuf.
ReceiveLiveSpec ==
  /\ ReceiveSpec
  /\ SF_vars(Retransmission) /\ WF_vars(SendAck)
  /\ WF_vars(tcp_received_cb) /\ WF_vars(tcp_received_cb_closed)
  /\ WF_vars(rc = "MQTT_SUCCESS" /\ ~astray /\ Packet)

-----------------------------------------------------------------------------

ReceiveTypeOK ==
  /\ stream \in Seq(Packets)
  /\ state \in {"ESTABLISHED", "CLOSE_WAIT", "LAST_ACK", "FIN_WAIT_1", "freed"}
  /\ rcv_nxt \in Nat \ {0} /\ rcv_wnd \in 0 .. TCP_WND /\ rcv_ann_wnd \in 0 .. TCP_WND
  /\ rcv_ann_right_edge \in Nat
  /\ ooseq \in Seq([seqno : Nat, data : Seq(Nat), fin : BOOLEAN])
  /\ recv_data \in Seq(Seq(Nat)) /\ got_fin \in BOOLEAN
  /\ bytes_left \in Nat /\ rc \in {"MQTT_SUCCESS", "failure"}
  /\ delivered \in Seq(Nat) /\ handled \in Seq(Nat)
  /\ in_pieces \in BOOLEAN /\ astray \in BOOLEAN

\* The application is given the bytes of the stream in their order, each once,
\* and the end of the stream after the last of them (tcp_receive, tcp_input).
DeliveredInOrder ==
  /\ \A i \in DOMAIN delivered : delivered[i] = i
  /\ state = "LAST_ACK" => Len(delivered) = Eof - 1

\* Between two segments all of the window is free again, whatever was cut
\* short, queued or joined, and the announced one is not closed (tcp_receive's
\* rcv_wnd against tcp_recved).
WindowRestored ==
  recv_data = <<>> /\ ~got_fin => rcv_wnd = TCP_WND /\ rcv_ann_wnd > 0

\* The client handles the packets of the stream in their order, whatever
\* their length.  As long as every callback was given one pbuf of whole packets
\* it reads no further than the pbuf, and has by the end of a callback handled
\* all that came, unless the callback ended with a packet that failed
\* (bytes_left, and the offset tcp_received_cb computes from it).
HandledAsSent ==
  /\ \A i \in DOMAIN handled : handled[i] = i
  /\ ~in_pieces =>
       /\ ~astray
       /\ recv_data = <<>> /\ rc = "MQTT_SUCCESS" => EndOf[Len(handled)] = Len(delivered) + 1

\* The broker's FIN is answered with a FIN, never with a RST: by then all of
\* the window has been given back (tcp_close looks at rcv_wnd, to which
\* tcp_input adds the FIN).
OrderlyClose == [][state = "CLOSE_WAIT" /\ got_fin /\ ~got_fin' => state' = "LAST_ACK"]_vars

\* A callback that is given whole packets in one pbuf returns, unless one of
\* them fails (the loop of tcp_received_cb).
CallbackReturns == recv_data # <<>> ~> (recv_data = <<>> \/ astray \/ rc = "failure")

\* As long as every callback returns, the stream reaches the application up to
\* its end, or the client closes before (tcp_receive, tcp_received_cb).
StreamEnds ==
  []<>(recv_data = <<>>) => <>(state \in {"LAST_ACK", "FIN_WAIT_1", "freed"})
====
