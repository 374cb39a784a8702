---- MODULE MqttSystem ----
(***************************************************************************)
(* The client, its TCP connections and the broker together, and what is    *)
(* expected of them.                                                       *)
(***************************************************************************)
EXTENDS MqttBroker

CONSTANTS Resets,        \* may a connection be reset?
          BrokerCloses,  \* may the broker close a connection by itself?
          ConnectFails   \* may tcp_new or tcp_connect fail?

ASSUME SystemAssumption == {Resets, BrokerCloses, ConnectFails} \subseteq BOOLEAN

vars == <<conn, clientVars, brokerVars>>

Init == TcpInit /\ MQTTClient_init /\ BrokerInit

Application ==
  \/ MQTTClient_connect
  \/ ConnectFails /\ (ConnectMemoryErr \/ ConnectTcpFailure)
  \/ MQTTClient_publish \/ MQTTClient_subscribe \/ MQTTClient_unsubscribe
  \/ MQTTClient_disconnect \/ MQTTClient_loop

Waiting ==
  \/ wait_for_connack \/ LoopNotConnected \/ mqtt_handle_keepalive
  \/ mqtt_handle_timeout_on_ping \/ PingProcessed

Network(c) ==
  \/ tcp_connected_cb(c) \/ tcp_received_cb(c) \/ tcp_received_cb_closed(c)
  \/ DataAfterClose(c)
  \/ Resets /\ tcp_error_cb(c)

Broker(c) ==
  \/ BrokerConnect(c) \/ BrokerReceive(c) \/ BrokerDisconnected(c)
  \/ BrokerIgnores(c) \/ BrokerReply(c)
  \/ \E qos \in 0 .. 2 : BrokerPublish(c, qos)
  \/ BrokerCloses /\ BrokerClose(c)

Next ==
  \/ Application \/ Waiting \/ get_mqtt_packet \/ Tick
  \/ \E c \in Conns : Network(c) \/ Broker(c)

Spec == Init /\ [][Next]_vars

(***************************************************************************)
(* Fairness.  The application goes on calling MQTTClient_loop, a call that *)
(* can return does, the CPU goes on handling the packets of a segment, and *)
(* time passes; lwIP delivers what the network brings again and again      *)
(* (frames come only while the client processes them, hence SF); the       *)
(* broker takes what is sent to it and answers.  Nothing makes the         *)
(* application issue a request, or the broker accept, publish or close.    *)
(***************************************************************************)
BrokerTakes(c) ==
  BrokerConnect(c) \/ BrokerReceive(c) \/ BrokerDisconnected(c) \/ BrokerIgnores(c)

Fairness ==
  /\ WF_vars(MQTTClient_loop)
  /\ WF_vars(Waiting)
  /\ WF_vars(get_mqtt_packet)
  /\ WF_vars(Tick)
  /\ \A c \in Conns :
       /\ SF_vars(\/ tcp_connected_cb(c) \/ tcp_received_cb(c)
                  \/ tcp_received_cb_closed(c) \/ BrokerTakes(c))
       /\ WF_vars(BrokerReply(c))

FairSpec == Spec /\ Fairness

----
\* The values of the connections, of the client's variables and of the broker's.
ConnTypeOK ==
  conn \in [Pcbs -> [ state : PcbStates, out : Seq(Packets), in : Seq(Packets) ]]

ClientTypeOK ==
  /\ mqtt_connected \in BOOLEAN /\ pcb \in Pcbs
  /\ connack_resp \in Contexts /\ connack_resp_available \in BOOLEAN
  /\ last_packet_id \in PacketIds /\ req_queue \in QueueOf(Requests)
  /\ is_pong_pending \in BOOLEAN
  /\ since_activity \in 0 .. MaxAge
  /\ since_ping \in 0 .. MaxAge
  /\ waited \in 0 .. MaxAge
  /\ pc \in {"app", "connect", "loop", "ping_test", "ping"}
  /\ rx \in Seq(Packets) /\ rx_first \in BOOLEAN
  /\ requests \in 0 .. MaxRequests
  /\ completed \in [1 .. MaxRequests -> Nat]
  /\ delivered \in [1 .. MaxMsgs -> Nat]

BrokerTypeOK ==
  /\ broker \in [Conns -> [ phase : {"new", "accepted", "refused", "closed"},
                            subscribed : BOOLEAN, owed : SUBSET Packets,
                            inflight : SUBSET Inflight ]]
  /\ msgs_sent \in 0 .. MaxMsgs /\ acked \subseteq Contexts

TypeOK == ConnTypeOK /\ ClientTypeOK /\ BrokerTypeOK

\* The counter the full-queue test reads is the number of slots in use, so
\* no request is dropped by an add and none is refused while a slot is free
\* (mqtt_req_queue.c, is_request_queue_full).
QueueCounterExact == CounterExact(req_queue)

\* The client's connection is up; it is live if the broker has not closed it.
IsUp == mqtt_connected /\ conn[pcb].state = "established"
Live == IsUp /\ broker[pcb].phase = "accepted"

Elements(s) == { s[k] : k \in 1 .. Len(s) }
Up == Elements(conn[pcb].out)
Down == Elements(rx) \cup Elements(conn[pcb].in) \cup broker[pcb].owed

\* Every acknowledgement under way will find one slot, and it is the slot of
\* what is acknowledged, whatever ids both sides chose and however answers
\* overtake each other (mqtt_req_queue_find looks at state and id only).
AckFindsItsRequest ==
  IsUp => \A p \in Down : p.type \in AckTypes =>
            \E i \in Slots : /\ Found(p) = {i}
                             /\ req_queue.requests[i].context = p.body

Asks(state) ==
  CASE state = "WAITING_FOR_SUBACK"   -> "SUBSCRIBE"
    [] state = "WAITING_FOR_UNSUBACK" -> "UNSUBSCRIBE"
    [] state = "WAITING_FOR_PUBCOMP"  -> "PUBREL"
    [] state = "WAITING_FOR_PUBREL"   -> "PUBREC"
    [] OTHER                          -> "PUBLISH"

\* A slot in use is waiting for exactly one packet, either its question on
\* the way up or the answer on the way down: no conversation is lost, and
\* none is left in a sending state, while the connection lives.
SlotAwaitsOnePacket ==
  Live => \A i \in BusySlots(req_queue) :
    LET r == req_queue.requests[i]
        questions == { p \in Up : p.type = Asks(r.conv_state)
                                 /\ p.id = r.packet_id }
        answers == { p \in Down : /\ p.type \in AckTypes
                                  /\ Awaited(p.type) = r.conv_state
                                  /\ p.id = r.packet_id }
    IN Cardinality(questions) + Cardinality(answers) = 1

\* No message of the broker reaches the application twice, and one the broker
\* was told is safe (PUBACK, PUBCOMP) has reached it.
AckedWasDelivered ==
  /\ \A m \in 1 .. MaxMsgs : delivered[m] <= 1
  /\ \A m \in acked : delivered[m] = 1

RequestStates ==
  { "WAITING_FOR_PUBACK", "WAITING_FOR_SUBACK", "WAITING_FOR_UNSUBACK",
    "WAITING_FOR_PUBREC", "SENDING_PUBREL", "WAITING_FOR_PUBCOMP" }

\* A request is reported complete once, and then holds no slot.
CompletedOnce ==
  \A r \in 1 .. MaxRequests :
    /\ completed[r] <= 1
    /\ completed[r] = 1 =>
         ~ \E i \in Slots : /\ req_queue.requests[i].context = r
                            /\ req_queue.requests[i].conv_state \in RequestStates

Later(state) ==
  CASE state = "WAITING_FOR_PUBREC" -> {"SENDING_PUBREL", "WAITING_FOR_PUBCOMP"}
    [] state = "WAITING_FOR_PUBREL" -> {"SENDING_PUBCOMP", "NO_REQUEST"}
    [] OTHER -> {"NO_REQUEST"}

\* Until it ends, a conversation keeps its packet id and its context and moves
\* along the chains in the comment at the top of mqtt_req_queue.c; one that
\* failed while sending (its connection is closed) does not move again.
ChainsFollowed ==
  \A i \in BusySlots(req_queue) :
    LET r == req_queue.requests[i]
        s == req_queue'.requests[i] IN
      \/ s = r
      \/ /\ s.conv_state \in Later(r.conv_state)
         /\ s = [r EXCEPT !.conv_state = s.conv_state]

SlotsFollowTheChains == [][ChainsFollowed]_vars

\* Every request that took a slot is finished in the end, unless the
\* connection goes down.
RequestsFinish ==
  \A i \in Slots : (Live /\ i \in BusySlots(req_queue))
                     ~> (i \notin BusySlots(req_queue) \/ ~Live)

\* Every call of connect and loop returns, whatever fails meanwhile: the waits
\* for a CONNACK and a PINGRESP end by an answer or by their timeouts.  The one
\* exception is the loop of tcp_received_cb over the packets of a segment, which
\* does not end when a packet behind the first one fails (see SegmentsEnd); the
\* calls return if that loop always comes to an end.
CallsReturn == []<>(rx = <<>>) => (pc # "app" ~> pc = "app")

\* A client that takes a dead connection for a live one (closed while connect
\* was waiting, or reset: tcp_error_cb is empty) finds out by its keep-alive.
DeadConnectionNoticed ==
  (mqtt_connected /\ conn[pcb].state \in {"fin_wait", "freed"}) ~> ~mqtt_connected

\* The loop over the packets of a segment ends (tcp_received_cb's comment
\* says that get_mqtt_packet fills in bytes_left).
SegmentsEnd == rx # <<>> ~> rx = <<>>

\* MQTT_SUCCESS from connect, and calls of the API after it, mean that the
\* broker has accepted this connection.
ConnectedMeansAccepted ==
  mqtt_connected => broker[pcb].phase \in {"accepted", "closed"}

\* The packet ids of the requests that wait for an answer are different.
PacketIdsDiffer ==
  \A i, j \in BusySlots(req_queue) :
    /\ i # j
    /\ req_queue.requests[i].conv_state \in RequestStates
    /\ req_queue.requests[j].conv_state \in RequestStates
    => req_queue.requests[i].packet_id # req_queue.requests[j].packet_id

----
(***************************************************************************)
(* The promise of MqttPromise, kept by this system: the requests open and  *)
(* the messages kept are those with a slot in use.                         *)
(***************************************************************************)
OpenRequests ==
  { req_queue.requests[i].context :
      i \in { j \in Slots : req_queue.requests[j].conv_state \in RequestStates } }

KeptMessages ==
  { req_queue.requests[i].context :
      i \in { j \in BusySlots(req_queue) :
               req_queue.requests[j].conv_state \notin RequestStates } }

Promise == INSTANCE MqttPromise WITH
  Capacity <- MQTT_REQUESTS_QUEUE_LEN, MaxAsked <- MaxRequests,
  Messages <- 1 .. MaxMsgs,
  asked <- requests, open <- OpenRequests, kept <- KeptMessages,
  reports <- completed, deliveries <- delivered

\* Whatever the connections, the broker and the order of packets do, a request
\* is reported at most once and only while it has a slot, a message reaches
\* the application at most once, and a slot is used for nothing else
\* (mqtt_receive.c and mqtt_req_queue.c together).
PromiseKept == Promise!PromiseSpec

====
