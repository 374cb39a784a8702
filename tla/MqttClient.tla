---- MODULE MqttClient ----
(***************************************************************************)
(* The MQTT client: the API of src/MQTTClient/Src/mqtt_client.c, the       *)
(* encoders' checks, the receive path of mqtt_receive.c and the callbacks  *)
(* of src/TCPConnectionRaw that lwIP makes while it processes frames.      *)
(*                                                                         *)
(* The program is one thread.  Between two calls of the API control is in  *)
(* "app"; connect and loop also rest inside MX_LWIP_Process ("connect",    *)
(* "loop", "ping"), where lwIP hands over what has arrived, and loop rests *)
(* at the test of its ping wait ("ping_test").  A segment being handled is *)
(* rx, one packet a step.  API calls that return an error without changing *)
(* anything are stuttering steps.                                          *)
(***************************************************************************)
EXTENDS MqttReqQueue, TcpConnection

CONSTANTS
  MaxPacketId,      \* 65535 in the code: the last id before it starts again
  KeepAlive,        \* conn_opts->keepalive_ms, in ticks
  ConnectTimeout,   \* timeout_on_connect_response_ms, in ticks
  PingTimeout,      \* timeout_on_ping_response_ms, in ticks
  MaxAge,           \* bound: older time stamps are all alike; 0 stops time
  MaxRequests,      \* bound: publish, subscribe and unsubscribe calls
  Kinds,            \* what the application asks for
  MaxMsgs,          \* bound: messages published by the broker
  LongMsgs,         \* those too long for the client's buffers
  MaxSeg            \* bound: packets in one TCP segment

ASSUME ClientAssumption ==
  /\ MaxPacketId \in Nat \ {0}
  /\ {KeepAlive, ConnectTimeout, PingTimeout, MaxAge} \subseteq Nat
  /\ MaxRequests \in Nat /\ MaxMsgs \in Nat
  /\ Kinds \subseteq {"pub0", "pub1", "pub2", "sub", "unsub"}
  /\ LongMsgs \subseteq 1 .. MaxMsgs
  /\ MaxSeg \in Nat \ {0}

VARIABLES
  mqtt_connected, pcb, connack_resp, connack_resp_available,
  last_packet_id, req_queue, is_pong_pending,
  since_activity,   \* elapsed_time_cb() - last_activity
  since_ping,       \* elapsed_time_cb() - last_ping_sent_time
  waited,           \* elapsed_time_cb() - entry_time_ms of wait_for_connack
  pc, rx,
  rx_first,         \* rx is handled by the first call of get_mqtt_packet
  requests,         \* how many requests the application has made
  completed,        \* how often each was reported complete to it
  delivered         \* how often each message reached on_msg_received_cb

linkVars == <<mqtt_connected, pcb>>
connackVars == <<connack_resp, connack_resp_available>>
queueVars == <<last_packet_id, req_queue>>
timeVars == <<since_activity, since_ping, waited>>
rxVars == <<rx, rx_first>>
appVars == <<requests, completed, delivered>>
clientVars == <<linkVars, connackVars, queueVars, is_pong_pending, timeVars,
                pc, rxVars, appVars>>

PacketTypes ==
  { "CONNECT", "CONNACK", "PUBLISH", "PUBACK", "PUBREC", "PUBREL", "PUBCOMP",
    "SUBSCRIBE", "SUBACK", "UNSUBSCRIBE", "UNSUBACK", "PINGREQ", "PINGRESP",
    "DISCONNECT", "FIN" }

PacketIds == 0 .. MaxPacketId
Contexts == 0 .. 1 + MaxRequests + MaxMsgs
Requests == [ packet_id : PacketIds, context : Contexts,
              conv_state : ConvStates ]

\* body is the content: the number of the request or message, or the return
\* code of a CONNACK.  In an acknowledgement it names what is acknowledged,
\* for the properties only: the client never reads it.
Packets == [ type : PacketTypes, id : PacketIds, body : Contexts, qos : 0 .. 2 ]
Packet(type, id, body, qos) ==
  [ type |-> type, id |-> id, body |-> body, qos |-> qos ]

Accepted == 0   \* MQTT_CONNECTION_ACCEPTED
Refused == 1

MQTTClient_init ==
  /\ mqtt_connected = FALSE /\ pcb = NULL
  /\ connack_resp = Accepted /\ connack_resp_available = FALSE
  /\ last_packet_id = 0 /\ req_queue = mqtt_req_queue_init
  /\ is_pong_pending = FALSE
  /\ since_activity = 0 /\ since_ping = 0 /\ waited = 0
  /\ pc = "app" /\ rx = <<>> /\ rx_first = TRUE
  /\ requests = 0
  /\ completed = [r \in 1 .. MaxRequests |-> 0]
  /\ delivered = [m \in 1 .. MaxMsgs |-> 0]

\* Mutant: incremented twice.
PacketIdTwice == IF last_packet_id = MaxPacketId THEN 1 ELSE last_packet_id + 2
\* Mutant: not incremented.
PacketIdKept == IF last_packet_id = 0 THEN 1 ELSE last_packet_id

get_packet_id == IF last_packet_id = MaxPacketId THEN 1 ELSE last_packet_id + 1

\* A packet goes out on the client's pcb.
Send(packet) == conn' = [conn EXCEPT ![pcb] = TCPHandler_write(@, packet)]
Close == conn' = [conn EXCEPT ![pcb] = TCPHandler_close(@)]

----
(***************************************************************************)
(* MQTTClient_connect.  tcp_new may find no memory and tcp_connect may     *)
(* fail; both leave the pointer changed.  A CONNECT always fits a fresh    *)
(* output buffer here.  The call then waits in wait_for_connack.           *)
(***************************************************************************)
ConnectMemoryErr ==
  /\ pc = "app" /\ ~mqtt_connected
  /\ pcb' = NULL
  /\ UNCHANGED <<brokerVars, conn, mqtt_connected, connackVars, queueVars,
                is_pong_pending, timeVars, pc, rxVars, appVars>>

ConnectTcpFailure ==
  /\ pc = "app" /\ ~mqtt_connected /\ Unused # {}
  /\ pcb' = TCPHandler_get_pcb
  /\ conn' = [conn EXCEPT ![pcb'].state = "allocated"]
  /\ UNCHANGED <<brokerVars, mqtt_connected, connackVars, queueVars,
                is_pong_pending, timeVars, pc, rxVars, appVars>>

\* Mutant: packet ids start again with each connection.
ConnectResetsIds ==
  /\ pc = "app" /\ ~mqtt_connected /\ Unused # {}
  /\ pcb' = TCPHandler_get_pcb
  /\ conn' = [conn EXCEPT ![pcb'] =
                [ state |-> "syn_sent",
                  out |-> << Packet("CONNECT", 0, 0, 0) >>, in |-> <<>> ]]
  /\ since_activity' = 0 /\ waited' = 0 /\ last_packet_id' = 0
  /\ pc' = "connect"
  /\ UNCHANGED <<brokerVars, mqtt_connected, connackVars, req_queue,
                 is_pong_pending, since_ping, rxVars, appVars>>

MQTTClient_connect ==
  /\ pc = "app" /\ ~mqtt_connected /\ Unused # {}
  /\ pcb' = TCPHandler_get_pcb
  /\ conn' = [conn EXCEPT ![pcb'] =
                [ state |-> "syn_sent",
                  out |-> << Packet("CONNECT", 0, 0, 0) >>, in |-> <<>> ]]
  /\ since_activity' = 0 /\ waited' = 0
  /\ pc' = "connect"
  /\ UNCHANGED <<brokerVars, mqtt_connected, connackVars, queueVars,
                is_pong_pending, since_ping, rxVars, appVars>>

\* Mutant: the loop does not look at the clock.
ConnackWithoutTimeout ==
  /\ pc = "connect" /\ rx = <<>> /\ connack_resp_available
  /\ mqtt_connected' = (connack_resp = Accepted)
  /\ pc' = "app" /\ waited' = 0
  /\ UNCHANGED <<brokerVars, conn, pcb, connackVars, queueVars, is_pong_pending,
                 since_activity, since_ping, rxVars, appVars>>

\* The test that ends the do-while loop, and the rest of connect.
wait_for_connack ==
  /\ pc = "connect" /\ rx = <<>>
  /\ connack_resp_available \/ waited > ConnectTimeout
  /\ mqtt_connected' = IF connack_resp_available
                       THEN connack_resp = Accepted ELSE mqtt_connected
  /\ pc' = "app" /\ waited' = 0
  /\ UNCHANGED <<brokerVars, conn, pcb, connackVars, queueVars,
                is_pong_pending, since_activity, since_ping, rxVars, appVars>>

----
(***************************************************************************)
(* publish, subscribe and unsubscribe: the encoder checks the output       *)
(* buffer and the queue, takes a packet id, and sends; then the request is *)
(* put in the queue, to wait in the given state.  A QoS 0 publish neither  *)
(* looks at the queue nor takes an id.  The request's number stands for    *)
(* its topic and payload, which fit.                                       *)
(***************************************************************************)
MayCall(kind) ==
  /\ pc = "app" /\ mqtt_connected
  /\ kind \in Kinds /\ requests < MaxRequests
  /\ FALSE \in is_output_buffer_full(pcb)

Request(type, qos, state) ==
  /\ ~is_request_queue_full(req_queue)
  /\ last_packet_id' = get_packet_id
  /\ Send(Packet(type, last_packet_id', requests + 1, qos))
  /\ since_activity' = 0
  /\ req_queue' = mqtt_req_queue_add(req_queue,
                    [ packet_id |-> last_packet_id', context |-> requests + 1,
                      conv_state |-> state ])
  /\ requests' = requests + 1
  /\ UNCHANGED <<brokerVars, linkVars, connackVars, is_pong_pending,
                since_ping, waited, pc, rxVars, completed, delivered>>

PublishQos0 ==
  /\ MayCall("pub0")
  /\ Send(Packet("PUBLISH", 0, requests + 1, 0))
  /\ since_activity' = 0
  /\ requests' = requests + 1
  /\ UNCHANGED <<brokerVars, linkVars, connackVars, queueVars, is_pong_pending,
                since_ping, waited, pc, rxVars, completed, delivered>>

MQTTClient_publish ==
  \/ PublishQos0
  \/ MayCall("pub1") /\ Request("PUBLISH", 1, "WAITING_FOR_PUBACK")
  \/ MayCall("pub2") /\ Request("PUBLISH", 2, "WAITING_FOR_PUBREC")

MQTTClient_subscribe ==
  MayCall("sub") /\ Request("SUBSCRIBE", 0, "WAITING_FOR_SUBACK")

MQTTClient_unsubscribe ==
  MayCall("unsub") /\ Request("UNSUBSCRIBE", 0, "WAITING_FOR_UNSUBACK")

\* The connection is closed whether or not the DISCONNECT fits.
MQTTClient_disconnect ==
  /\ pc = "app" /\ mqtt_connected
  /\ \E full \in is_output_buffer_full(pcb) :
       conn' = [conn EXCEPT ![pcb] =
                  TCPHandler_close(
                    IF full THEN @
                    ELSE TCPHandler_write(@, Packet("DISCONNECT", 0, 0, 0)))]
  /\ mqtt_connected' = FALSE
  /\ UNCHANGED <<brokerVars, pcb, connackVars, queueVars, is_pong_pending,
                timeVars, pc, rxVars, appVars>>

----
(***************************************************************************)
(* MQTTClient_loop: process what lwIP has, keep the connection alive, wait *)
(* for the answer to a ping.                                               *)
(***************************************************************************)
MQTTClient_loop ==
  /\ pc = "app"
  /\ pc' = "loop"
  /\ UNCHANGED <<brokerVars, conn, linkVars, connackVars, queueVars,
                is_pong_pending, timeVars, rxVars, appVars>>

LoopNotConnected ==
  /\ pc = "loop" /\ rx = <<>> /\ ~mqtt_connected
  /\ pc' = "app"
  /\ UNCHANGED <<brokerVars, conn, linkVars, connackVars, queueVars,
                is_pong_pending, timeVars, rxVars, appVars>>

\* Nothing to do, a PINGREQ goes out, or it does not fit and all is closed.
mqtt_handle_keepalive ==
  /\ pc = "loop" /\ rx = <<>> /\ mqtt_connected
  /\ \/ /\ since_activity < KeepAlive
        /\ pc' = "ping_test"
        /\ UNCHANGED <<conn, mqtt_connected, since_activity, since_ping,
                       is_pong_pending>>
     \/ /\ since_activity >= KeepAlive
        /\ FALSE \in is_output_buffer_full(pcb)
        /\ Send(Packet("PINGREQ", 0, 0, 0))
        /\ since_activity' = 0 /\ since_ping' = 0
        /\ is_pong_pending' = TRUE
        /\ pc' = "ping_test"
        /\ UNCHANGED mqtt_connected
     \/ /\ since_activity >= KeepAlive
        /\ TRUE \in is_output_buffer_full(pcb)
        /\ Close /\ mqtt_connected' = FALSE
        /\ pc' = "app"
        /\ UNCHANGED <<since_activity, since_ping, is_pong_pending>>
  /\ UNCHANGED <<brokerVars, pcb, connackVars, queueVars, waited, rxVars,
                appVars>>

\* Mutant: the connection is closed but still taken for connected.
PingTimeoutKeepsFlag ==
  /\ pc = "ping_test"
  /\ IF is_pong_pending /\ since_ping < PingTimeout
     THEN pc' = "ping" /\ UNCHANGED conn
     ELSE /\ pc' = "app"
          /\ IF is_pong_pending THEN Close ELSE UNCHANGED conn
  /\ UNCHANGED <<brokerVars, linkVars, connackVars, queueVars, is_pong_pending,
                 timeVars, rxVars, appVars>>

\* The while test.  A pong still pending afterwards closes the connection.
mqtt_handle_timeout_on_ping ==
  /\ pc = "ping_test"
  /\ \/ /\ ~is_pong_pending
        /\ pc' = "app"
        /\ UNCHANGED <<conn, mqtt_connected>>
     \/ /\ is_pong_pending /\ since_ping < PingTimeout
        /\ pc' = "ping"
        /\ UNCHANGED <<conn, mqtt_connected>>
     \/ /\ is_pong_pending /\ since_ping >= PingTimeout
        /\ Close /\ mqtt_connected' = FALSE
        /\ pc' = "app"
  /\ UNCHANGED <<brokerVars, pcb, connackVars, queueVars, is_pong_pending,
                timeVars, rxVars, appVars>>

PingProcessed ==
  /\ pc = "ping" /\ rx = <<>>
  /\ pc' = "ping_test"
  /\ UNCHANGED <<brokerVars, conn, linkVars, connackVars, queueVars,
                is_pong_pending, timeVars, rxVars, appVars>>

----
(***************************************************************************)
(* get_mqtt_packet on the head of rx.  After an error tcp_received_cb      *)
(* closes the client's pcb; the rest of the segment is dropped if it was   *)
(* the first packet.  Otherwise bytes_left keeps its value and the loop    *)
(* comes back to the same packet.                                          *)
(***************************************************************************)
Receiving(type) == rx # <<>> /\ Head(rx).type = type

PacketDone == rx' = Tail(rx) /\ rx_first' = (Tail(rx) = <<>>)

PacketFailed ==
  /\ Close /\ mqtt_connected' = FALSE
  /\ rx' = IF rx_first THEN <<>> ELSE rx
  /\ UNCHANGED rx_first

Awaited(type) ==
  CASE type = "PUBACK"   -> "WAITING_FOR_PUBACK"
    [] type = "PUBREC"   -> "WAITING_FOR_PUBREC"
    [] type = "PUBCOMP"  -> "WAITING_FOR_PUBCOMP"
    [] type = "SUBACK"   -> "WAITING_FOR_SUBACK"
    [] type = "UNSUBACK" -> "WAITING_FOR_UNSUBACK"
    [] type = "PUBREL"   -> "WAITING_FOR_PUBREL"

AckTypes == {"PUBACK", "PUBREC", "PUBCOMP", "SUBACK", "UNSUBACK", "PUBREL"}

Found(p) == SlotsMatching(req_queue, Awaited(p.type), p.id)
FindRequest(p) == mqtt_req_queue_find(req_queue, Awaited(p.type), p.id)
\* Mutant: the index found is not used.
ContextOfSlot0(p) == req_queue.requests[0].context
ContextOf(p) == req_queue.requests[FirstSlot(Found(p))].context

RequestNotFound ==
  /\ rx # <<>> /\ Head(rx).type \in AckTypes /\ Found(Head(rx)) = {}
  /\ PacketFailed
  /\ UNCHANGED <<brokerVars, pcb, connackVars, queueVars, is_pong_pending,
                timeVars, pc, appVars>>

HandleConnack ==
  /\ Receiving("CONNACK")
  /\ connack_resp' = Head(rx).body /\ connack_resp_available' = TRUE
  /\ PacketDone
  /\ UNCHANGED <<brokerVars, conn, linkVars, queueVars, is_pong_pending,
                timeVars, pc, appVars>>

\* PUBACK, PUBCOMP and SUBACK end in a callback with the slot's context.
HandleLastAck(type) ==
  /\ Receiving(type) /\ Found(Head(rx)) # {}
  /\ req_queue' = FindRequest(Head(rx))
  /\ completed' = [completed EXCEPT ![ContextOf(Head(rx))] = @ + 1]
  /\ PacketDone
  /\ UNCHANGED <<brokerVars, conn, linkVars, connackVars, last_packet_id,
                is_pong_pending, timeVars, pc, requests, delivered>>

HandlePuback == HandleLastAck("PUBACK")
HandlePubcomp == HandleLastAck("PUBCOMP")
HandleSuback == HandleLastAck("SUBACK")

HandleUnsuback ==
  /\ Receiving("UNSUBACK") /\ Found(Head(rx)) # {}
  /\ req_queue' = FindRequest(Head(rx))
  /\ PacketDone
  /\ UNCHANGED <<brokerVars, conn, linkVars, connackVars, last_packet_id,
                is_pong_pending, timeVars, pc, appVars>>

HandlePingresp ==
  /\ Receiving("PINGRESP")
  /\ is_pong_pending' = FALSE
  /\ PacketDone
  /\ UNCHANGED <<brokerVars, conn, linkVars, connackVars, queueVars, timeVars,
                pc, appVars>>

(***************************************************************************)
(* The packets the client answers: slot i of queue q is in a sending       *)
(* state.  If the answer fits the output buffer the slot moves on and the  *)
(* answer goes out, else the slot stays in the sending state.              *)
(***************************************************************************)
\* Mutant: the answer is encoded but never sent.
AnswerNotSent(q, i, state, packet) ==
  /\ FALSE \in is_output_buffer_full(pcb)
  /\ req_queue' = mqtt_req_queue_update(q, state, i)
  /\ since_activity' = 0
  /\ PacketDone
  /\ UNCHANGED <<brokerVars, conn, linkVars, connackVars, last_packet_id,
                 is_pong_pending, since_ping, waited, pc, requests, completed>>

Answer(q, i, state, packet) ==
  /\ FALSE \in is_output_buffer_full(pcb)
  /\ req_queue' = mqtt_req_queue_update(q, state, i)
  /\ Send(packet)
  /\ since_activity' = 0
  /\ PacketDone
  /\ UNCHANGED <<brokerVars, linkVars, connackVars, last_packet_id,
                is_pong_pending, since_ping, waited, pc, requests, completed>>

AnswerDoesNotFit(q) ==
  /\ TRUE \in is_output_buffer_full(pcb)
  /\ req_queue' = q
  /\ PacketFailed
  /\ UNCHANGED <<brokerVars, pcb, connackVars, last_packet_id, is_pong_pending,
                timeVars, pc, appVars>>

Deliver(m) == delivered' = [delivered EXCEPT ![m] = @ + 1]

\* The context of the slot is a ghost in the PUBREL: it carries the id only.
HandlePubrec ==
  /\ Receiving("PUBREC") /\ Found(Head(rx)) # {}
  /\ LET p == Head(rx) IN
       \/ /\ Answer(FindRequest(p), FirstSlot(Found(p)), "SENDING_PUBREL",
                    Packet("PUBREL", p.id, ContextOf(p), 0))
          /\ UNCHANGED delivered
       \/ AnswerDoesNotFit(FindRequest(p))

\* The message delivered is the one kept in the slot.
HandlePubrel ==
  /\ Receiving("PUBREL") /\ Found(Head(rx)) # {}
  /\ LET p == Head(rx) IN
       \/ /\ Answer(FindRequest(p), FirstSlot(Found(p)), "SENDING_PUBCOMP",
                    Packet("PUBCOMP", p.id, 0, 0))
          /\ Deliver(ContextOf(p))
       \/ AnswerDoesNotFit(FindRequest(p))

\* A PUBLISH that cannot be kept is dropped, of whatever QoS.
Discarded(p) == is_request_queue_full(req_queue) \/ p.body \in LongMsgs

\* Mutant: what is dropped is acknowledged all the same.
HandlePublishDroppedAcked ==
  /\ Receiving("PUBLISH") /\ Discarded(Head(rx))
  /\ Send(Packet("PUBACK", Head(rx).id, 0, 0))
  /\ PacketDone
  /\ UNCHANGED <<brokerVars, linkVars, connackVars, queueVars, is_pong_pending,
                 timeVars, pc, appVars>>

HandlePublishDiscarded ==
  /\ Receiving("PUBLISH") /\ Discarded(Head(rx))
  /\ PacketDone
  /\ UNCHANGED <<brokerVars, conn, linkVars, connackVars, queueVars,
                is_pong_pending, timeVars, pc, appVars>>

HandlePublishQos0 ==
  /\ Receiving("PUBLISH") /\ ~Discarded(Head(rx)) /\ Head(rx).qos = 0
  /\ Deliver(Head(rx).body)
  /\ PacketDone
  /\ UNCHANGED <<brokerVars, conn, linkVars, connackVars, queueVars,
                is_pong_pending, timeVars, pc, requests, completed>>

Kept(p, state) ==
  mqtt_req_queue_add(req_queue, [ packet_id |-> p.id, context |-> p.body,
                                  conv_state |-> state ])
\* Mutant: the index at which the request was added is not used.
AddedAtSlot0 == 0
AddedAt == FirstSlot(FreeSlots(req_queue))

HandlePublishQos1 ==
  /\ Receiving("PUBLISH") /\ ~Discarded(Head(rx)) /\ Head(rx).qos = 1
  /\ LET p == Head(rx) IN
       \/ /\ Answer(Kept(p, "SENDING_PUBACK"), AddedAt, "SENDING_PUBACK",
                    Packet("PUBACK", p.id, 0, 0))
          /\ Deliver(p.body)
       \/ AnswerDoesNotFit(Kept(p, "SENDING_PUBACK"))

\* Mutant: the message is delivered at once, and again at its PUBREL.
HandlePublishQos2Early ==
  /\ Receiving("PUBLISH") /\ ~Discarded(Head(rx)) /\ Head(rx).qos = 2
  /\ LET p == Head(rx) IN
       \/ /\ Answer(Kept(p, "SENDING_PUBREC"), AddedAt, "SENDING_PUBREC",
                    Packet("PUBREC", p.id, 0, 0))
          /\ Deliver(p.body)
       \/ AnswerDoesNotFit(Kept(p, "SENDING_PUBREC"))

HandlePublishQos2 ==
  /\ Receiving("PUBLISH") /\ ~Discarded(Head(rx)) /\ Head(rx).qos = 2
  /\ LET p == Head(rx) IN
       \/ /\ Answer(Kept(p, "SENDING_PUBREC"), AddedAt, "SENDING_PUBREC",
                    Packet("PUBREC", p.id, 0, 0))
          /\ UNCHANGED delivered
       \/ AnswerDoesNotFit(Kept(p, "SENDING_PUBREC"))

\* The default branch drops the rest of a segment at a packet of any other type;
\* the broker sends none.
get_mqtt_packet ==
  \/ HandleConnack \/ HandlePuback \/ HandlePubrec \/ HandlePubcomp
  \/ HandleSuback \/ HandleUnsuback \/ HandlePubrel \/ HandlePingresp
  \/ HandlePublishDiscarded \/ HandlePublishQos0
  \/ HandlePublishQos1 \/ HandlePublishQos2
  \/ RequestNotFound

----
(***************************************************************************)
(* What lwIP does while the client processes frames.                       *)
(***************************************************************************)
Processing == pc \in {"connect", "loop", "ping"} /\ rx = <<>>

\* The handshake ends: from now on received data is handed over.
tcp_connected_cb(c) ==
  /\ Processing /\ conn[c].state = "syn_sent"
  /\ conn' = [conn EXCEPT ![c].state = "established"]
  /\ UNCHANGED <<brokerVars, clientVars>>

\* A segment: the next few packets, all of them whole and in one pbuf.
tcp_received_cb(c) ==
  /\ Processing /\ conn[c].state = "established"
  /\ \E n \in 1 .. MaxSeg :
       /\ n <= Len(conn[c].in)
       /\ \A i \in 1 .. n : conn[c].in[i] # Fin
       /\ rx' = SubSeq(conn[c].in, 1, n)
       /\ conn' = [conn EXCEPT ![c].in = SubSeq(@, n + 1, Len(@))]
  /\ UNCHANGED <<brokerVars, linkVars, connackVars, queueVars, is_pong_pending,
                timeVars, pc, rx_first, appVars>>

\* The broker's FIN is a call without a pbuf, also on a pcb this side has
\* closed or left behind: the client's flag goes down.
tcp_received_cb_closed(c) ==
  /\ Processing /\ conn[c].state \in {"established", "fin_wait"}
  /\ conn[c].in # <<>> /\ Head(conn[c].in) = Fin
  /\ conn' = [conn EXCEPT ![c] = [ state |-> "freed", in |-> <<>>,
                                   out |-> TCPHandler_close(conn[c]).out ]]
  /\ mqtt_connected' = FALSE
  /\ UNCHANGED <<brokerVars, pcb, connackVars, queueVars, is_pong_pending,
                timeVars, pc, rxVars, appVars>>

\* lwIP aborts a closed connection on which data arrives.
DataAfterClose(c) ==
  /\ Processing /\ conn[c].state = "fin_wait"
  /\ conn[c].in # <<>> /\ Head(conn[c].in) # Fin
  /\ conn' = [conn EXCEPT ![c] = Aborted]
  /\ UNCHANGED <<brokerVars, clientVars>>

\* The connection is reset.  tcp_error_cb is empty: the client's pcb dangles.
tcp_error_cb(c) ==
  /\ Processing /\ conn[c].state \in {"syn_sent", "established", "fin_wait"}
  /\ conn' = [conn EXCEPT ![c] = Aborted]
  /\ UNCHANGED <<brokerVars, clientVars>>

\* Time passes; an age stops at MaxAge.
Older(age) == IF age < MaxAge THEN age + 1 ELSE age
Tick ==
  /\ since_activity' = Older(since_activity)
  /\ since_ping' = Older(since_ping)
  /\ waited' = IF pc = "connect" THEN Older(waited) ELSE waited
  /\ UNCHANGED <<brokerVars, conn, linkVars, connackVars, queueVars,
                is_pong_pending, pc, rxVars, appVars>>

====
