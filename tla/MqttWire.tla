---- MODULE MqttWire ----
(***************************************************************************)
(* How packets reach TCP: an encoder (mqtt_encode.c) announces a length,   *)
(* compares it with the space in the output buffer, and then the senders   *)
(* (mqtt_send.c) write the packet piece by piece with tcp_write, whose     *)
(* result is ignored (TCPHandler_write).  Only lengths matter here.        *)
(***************************************************************************)
EXTENDS TcpSendQueue, MqttLength

CONSTANTS ClientIdLens,    \* instance: lengths of the strings in CONNECT
          TopicLens,       \* instance: below MQTT_MAX_TOPIC_LEN
          PayloadLens,     \* instance: below MQTT_MAX_PAYLOAD_LEN
          MaxExtras,       \* bound: strings in CONNECT besides the client id, up to 4
          MaxRequests,     \* bound: packets that wait for an answer (MQTT_REQUESTS_QUEUE_LEN)
          MaxReplies,      \* bound: answers the client sends in all
          MaxTimeouts      \* bound: retransmission timeouts

ASSUME WireAssumption ==
  /\ ClientIdLens \subseteq Nat /\ TopicLens \subseteq Nat /\ PayloadLens \subseteq Nat
  /\ MaxExtras \in 0 .. 4
  /\ MaxRequests \in Nat /\ MaxReplies \in Nat /\ MaxTimeouts \in Nat

VARIABLES phase,      \* "closed", "syn_sent", "established", "connected", "given_up";
                      \* "receiving": connected, and inside of tcp_input
          pcb,        \* lwIP's side of the connection
          requests,   \* packets that will be answered, so far
          replies,    \* PUBACK and the like, so far
          timeouts,
          whole       \* the last packet sent with MQTT_SUCCESS: queued as announced

wireVars == <<phase, pcb, requests, replies, timeouts, whole>>

-----------------------------------------------------------------------------
(* Lengths as the encoders compute them and as the senders write them.      *)

get_packet_len(remaining) == (remaining + 1 + get_digits_remaining_len(remaining)) % 65536

Utf8(len) == <<2, len>>
FixedHeader(remaining) == <<1, encode_remaining_len(remaining)>>

\* A packet: the length it is announced with and the pieces it is written in.
Packet(remaining, pieces) ==
  [len |-> get_packet_len(remaining), pieces |-> FixedHeader(remaining) \o pieces]

ConnectPacket(client_id, extras) ==
  Packet(10 + 2 + client_id + Total([i \in DOMAIN extras |-> 2 + extras[i]]),
         Utf8(4) \o <<1, 1, 2>> \o Utf8(client_id)
           \o Flattened([i \in DOMAIN extras |-> Utf8(extras[i])]))

\* Mutant: the packet id is not counted.
PublishLenWithoutId(topic, payload, qos) ==
  2 + topic + payload

get_publish_packet_len(topic, payload, qos) ==
  2 + topic + payload + (IF qos # 0 THEN 2 ELSE 0)

PublishPacket(topic, payload, qos) ==
  Packet(get_publish_packet_len(topic, payload, qos),
         Utf8(topic) \o (IF qos # 0 THEN <<2>> ELSE <<>>) \o <<payload>>)

SubscribePacket(topic) == Packet(2 + 2 + topic + 1, <<2>> \o Utf8(topic) \o <<1>>)
UnsubscribePacket(topic) == Packet(2 + 2 + topic, <<2>> \o Utf8(topic))
PingreqPacket == Packet(0, <<>>)
AnswerPacket == Packet(2, <<2>>)      \* PUBACK, PUBREC, PUBREL, PUBCOMP

\* will topic and payload, username, password: any of them may be absent.
ConnectExtras == UNION {[1 .. n -> TopicLens] : n \in 0 .. MaxExtras}

-----------------------------------------------------------------------------

\* The pieces of a packet are written one after the other, each on its own.
Written(p, packet) ==
  LET written[i \in 0 .. Len(packet.pieces)] ==
        IF i = 0 THEN p ELSE tcp_write(written[i - 1], packet.pieces[i])
  IN written[Len(packet.pieces)]

is_output_buffer_full(p, packet) == packet.len > p.snd_buf

\* A packet is encoded and written, and MQTT_SUCCESS returned.
Accepted(packet) ==
  /\ ~is_output_buffer_full(pcb, packet)
  /\ whole' = (Written(pcb, packet).snd_buf + packet.len = pcb.snd_buf)

Send(packet) == Accepted(packet) /\ pcb' = tcp_output(Written(pcb, packet))

WireInit ==
  /\ phase = "closed" /\ pcb = PcbWithSyn
  /\ requests = 0 /\ replies = 0 /\ timeouts = 0 /\ whole = TRUE

\* MQTTClient_connect, which writes CONNECT behind the SYN.
Connect(client_id, extras) ==
  /\ phase = "closed" /\ phase' = "syn_sent"
  /\ Send(ConnectPacket(client_id, extras))
  /\ UNCHANGED <<requests, replies, timeouts>>

\* A QoS 0 publish, and the keep-alive of MQTTClient_loop.
PublishQos0(topic, payload) ==
  /\ phase = "connected"
  /\ Send(PublishPacket(topic, payload, 0))
  /\ UNCHANGED <<phase, requests, replies, timeouts>>

\* The packets that take a slot of the request queue, and PINGREQ, of which
\* there is one at a time.
Request(packet) ==
  /\ phase = "connected" /\ requests < MaxRequests
  /\ requests' = requests + 1
  /\ Send(packet)
  /\ UNCHANGED <<phase, replies, timeouts>>

RequestPackets ==
  {PublishPacket(t, m, q) : t \in TopicLens, m \in PayloadLens, q \in {1, 2}}
    \cup {SubscribePacket(t) : t \in TopicLens} \cup {UnsubscribePacket(t) : t \in TopicLens}
    \cup {PingreqPacket}

-----------------------------------------------------------------------------
(* The network (lwIP calls tcp_output when it is done with the input).      *)

SynAck ==
  /\ phase = "syn_sent" /\ phase' = "established"
  /\ pcb' = tcp_output(SynAcknowledged(pcb))
  /\ UNCHANGED <<requests, replies, timeouts, whole>>

\* CONNACK: the broker has all of CONNECT.
Connack ==
  /\ phase = "established" /\ Len(Queued(pcb)) \in Coverable(pcb)
  /\ phase' = "connected"
  /\ pcb' = tcp_output(Acknowledged(pcb, Len(Queued(pcb))))
  /\ UNCHANGED <<requests, replies, timeouts, whole>>

\* An acknowledgement of the first n segments, and nothing else.
Ack(n) ==
  /\ phase \in {"established", "connected"}
  /\ n \in Coverable(pcb)
  /\ pcb' = tcp_output(Acknowledged(pcb, n))
  /\ UNCHANGED <<phase, requests, replies, timeouts, whole>>

\* A segment with packets that the client answers from tcp_received_cb; it
\* acknowledges n segments of the client.
Receive(n) ==
  /\ phase = "connected" /\ replies < MaxReplies
  /\ n \in {0} \cup Coverable(pcb)
  /\ phase' = "receiving"
  /\ pcb' = IF n = 0 THEN pcb ELSE Acknowledged(pcb, n)
  /\ UNCHANGED <<requests, replies, timeouts, whole>>

\* An answer: the client's tcp_output does nothing inside of tcp_input.
Answer ==
  /\ phase = "receiving" /\ replies < MaxReplies
  /\ replies' = replies + 1
  /\ Accepted(AnswerPacket) /\ pcb' = Written(pcb, AnswerPacket)
  /\ UNCHANGED <<phase, requests, timeouts>>

\* Without room for the answer the client closes the connection.
GiveUp ==
  /\ phase = "receiving" /\ is_output_buffer_full(pcb, AnswerPacket)
  /\ phase' = "given_up" /\ pcb' = tcp_output(pcb)
  /\ UNCHANGED <<requests, replies, timeouts, whole>>

\* The end of tcp_input.
InputDone ==
  /\ phase = "receiving" /\ phase' = "connected"
  /\ pcb' = tcp_output(pcb)
  /\ UNCHANGED <<requests, replies, timeouts, whole>>

\* Nothing was acknowledged in time: tcp_slowtmr sends again.
Timeout ==
  /\ phase \notin {"closed", "receiving"} /\ timeouts < MaxTimeouts /\ pcb.unacked # <<>>
  /\ timeouts' = timeouts + 1
  /\ pcb' = tcp_output(Requeued(pcb))
  /\ UNCHANGED <<phase, requests, replies, whole>>

WireNext ==
  \/ \E c \in ClientIdLens, x \in ConnectExtras : Connect(c, x)
  \/ \E t \in TopicLens, m \in PayloadLens : PublishQos0(t, m)
  \/ \E packet \in RequestPackets : Request(packet)
  \/ SynAck \/ Connack
  \/ \E n \in Coverable(pcb) : Ack(n)
  \/ \E n \in {0} \cup Coverable(pcb) : Receive(n)
  \/ Answer \/ GiveUp \/ InputDone
  \/ Timeout

WireSpec == WireInit /\ [][WireNext]_wireVars

-----------------------------------------------------------------------------

Segment == [len : Nat, pbufs : Nat, mem : Nat]

WireTypeOK ==
  /\ phase \in {"closed", "syn_sent", "established", "connected", "receiving", "given_up"}
  /\ pcb \in [snd_buf : 0 .. TCP_SND_BUF, snd_queuelen : 0 .. TCP_SND_QUEUELEN,
              unsent : Seq(Segment), unacked : Seq(Segment), unsent_oversize : 0 .. TCP_MSS,
              out : 0 .. TCP_SND_BUF, cwnd : 1 .. TCP_SND_BUF, memerr : BOOLEAN,
              free : 0 .. MEM_SIZE]
  /\ requests \in Nat /\ replies \in Nat /\ timeouts \in Nat
  /\ whole \in BOOLEAN

\* A packet whose call returned MQTT_SUCCESS is queued whole, as long as it
\* was announced (mqtt_encode.c's lengths against mqtt_send.c's writes; the
\* comment of tcp_write says to try again what it refused with ERR_MEM).
PacketsWhole == whole

\* lwIP's books: the space it reports, its count of pbufs and the heap agree
\* with what is on its two queues (tcp_write, tcp_free_acked_segments).
BooksBalance ==
  /\ pcb.snd_buf + Bytes(Queued(pcb)) = TCP_SND_BUF
  /\ pcb.snd_queuelen = Pbufs(Queued(pcb))
  /\ pcb.free + Memory(Queued(pcb)) = MEM_SIZE

\* No segment outgrows the MSS, and the room kept at the end of the last one
\* is inside it (the assertions of tcp_write on mss_local and oversize).
SegmentsFit ==
  /\ \A i \in DOMAIN Queued(pcb) : Queued(pcb)[i].len <= TCP_MSS
  /\ IF pcb.unsent = <<>> THEN pcb.unsent_oversize = 0
     ELSE pcb.unsent_oversize + Last(pcb.unsent).len <= TCP_MSS

\* What Nagle holds back waits for an acknowledgement that is to come: there
\* is no timer that would send it otherwise.
HeldDataAwaitsAck == phase # "receiving" /\ pcb.unsent # <<>> => pcb.unacked # <<>>

\* Heap and pbufs for two full buffers besides what is queued.
TwoPbufsFree ==
  pcb.free >= 2 * MemOfTransport(TCP_MSS) /\ pcb.snd_queuelen + 2 < TCP_SND_QUEUELEN

\* With that to spare, no packet of up to TCP_MSS bytes is cut, however many
\* tcp_writes it takes and whatever was queued before it.
SpareKeepsWhole == [][whole /\ TwoPbufsFree => whole']_wireVars
====
