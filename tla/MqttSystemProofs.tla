---- MODULE MqttSystemProofs ----
(***************************************************************************)
(* Theorems about the client, for every queue length, every number of      *)
(* connections, requests and messages, and every timeout.                  *)
(***************************************************************************)
EXTENDS MqttSystem, SequenceTheorems, FiniteSetTheorems,
        WellFoundedInduction, TLAPS

----
(***************************************************************************)
(* What the queue's functions do to a queue whose counter is exact, for    *)
(* any queue length a uint8_t can index.                                   *)
(***************************************************************************)
RequestsOver(P, C) == [ packet_id : P, context : C, conv_state : ConvStates ]

\* A slot's index is a number; there are finitely many.
LEMMA SlotsFinite ==
  /\ Slots \subseteq Nat
  /\ IsFiniteSet(Slots) /\ Cardinality(Slots) = MQTT_REQUESTS_QUEUE_LEN
<1>1. MQTT_REQUESTS_QUEUE_LEN \in Nat
  BY QueueLenAssumption
<1>2. MQTT_REQUESTS_QUEUE_LEN - 1 - 0 + 1 = MQTT_REQUESTS_QUEUE_LEN
  BY <1>1
<1>3. ~ 0 > MQTT_REQUESTS_QUEUE_LEN - 1
  BY QueueLenAssumption
<1> QED
  BY <1>1, <1>2, <1>3, FS_Interval, QueueLenAssumption DEF Slots

\* The loops of add and find stop at a slot of the set they look for: of the
\* sets of slots below a member, a minimal one is empty.
LEMMA FirstSlotIn ==
  ASSUME NEW S \in SUBSET Slots, S # {}
  PROVE  FirstSlot(S) \in S
<1> DEFINE Below(i) == { j \in Slots : j < i }
           All == { Below(i) : i \in S }
<1>1. IsWellFoundedOn(StrictSubsetOrdering(Slots), SUBSET Slots)
  BY SlotsFinite, FS_StrictSubsetOrderingWellFounded, FS_FiniteSubsetsOfFinite
<1>2. All \subseteq SUBSET Slots /\ All # {}
  OBVIOUS
<1>3. PICK T \in All : \A U \in All : <<U, T>> \notin StrictSubsetOrdering(Slots)
  BY <1>1, <1>2, WFMin
<1>4. PICK i \in S : T = Below(i)
  OBVIOUS
<1>5. ASSUME NEW j \in S, j < i
      PROVE  FALSE
  <2>1. i \in Nat /\ j \in Nat
    BY SlotsFinite
  <2>2. Below(j) \subseteq Below(i)
    <3> SUFFICES ASSUME NEW k \in Slots, k < j
                 PROVE  k < i
      OBVIOUS
    <3>1. k \in Nat
      BY SlotsFinite
    <3> QED
      BY <3>1, <2>1, <1>5
  <2>3. j \in Below(i) /\ j \notin Below(j)
    BY <2>1, <1>5
  <2>4. <<Below(j), Below(i)>> \in StrictSubsetOrdering(Slots)
    BY <2>2, <2>3 DEF StrictSubsetOrdering
  <2> QED
    BY <2>4, <1>3, <1>4
<1>6. \A j \in S : i <= j
  <2> TAKE j \in S
  <2>1. i \in Nat /\ j \in Nat
    BY SlotsFinite
  <2> QED
    BY <2>1, <1>5
<1> QED
  BY <1>6 DEF FirstSlot

\* Free and busy slots divide the queue.
LEMMA BusyAndFree ==
  ASSUME NEW q
  PROVE  /\ FreeSlots(q) \subseteq Slots /\ BusySlots(q) \subseteq Slots
         /\ FreeSlots(q) = Slots \ BusySlots(q)
         /\ IsFiniteSet(BusySlots(q))
         /\ Cardinality(BusySlots(q)) \in 0 .. MQTT_REQUESTS_QUEUE_LEN
         /\ Cardinality(BusySlots(q)) = MQTT_REQUESTS_QUEUE_LEN
              => FreeSlots(q) = {}
<1>1. /\ FreeSlots(q) \subseteq Slots /\ BusySlots(q) \subseteq Slots
      /\ FreeSlots(q) = Slots \ BusySlots(q)
  BY DEF FreeSlots, BusySlots
<1>2. /\ IsFiniteSet(BusySlots(q))
      /\ Cardinality(BusySlots(q)) <= MQTT_REQUESTS_QUEUE_LEN
      /\ Cardinality(BusySlots(q)) = MQTT_REQUESTS_QUEUE_LEN
           => BusySlots(q) = Slots
  BY <1>1, SlotsFinite, FS_Subset
<1>3. Cardinality(BusySlots(q)) \in Nat
  BY <1>2, FS_CardinalityType
<1> QED
  BY <1>1, <1>2, <1>3, QueueLenAssumption

\* The full test is exact: behind it, add finds a slot.
LEMMA NotFullHasFreeSlot ==
  ASSUME NEW q, CounterExact(q)
  PROVE  is_request_queue_full(q) <=> FreeSlots(q) = {}
<1>1. ASSUME FreeSlots(q) = {}
      PROVE  BusySlots(q) = Slots
  BY <1>1, BusyAndFree
<1> QED
  BY <1>1, BusyAndFree, SlotsFinite DEF CounterExact, is_request_queue_full

\* Adding a conversation to a queue counts it.
LEMMA AddExact ==
  ASSUME NEW P, NEW C, NEW q \in QueueOf(RequestsOver(P, C)), CounterExact(q),
         NEW req \in RequestsOver(P, C), req.conv_state # "NO_REQUEST"
  PROVE  /\ mqtt_req_queue_add(q, req) \in QueueOf(RequestsOver(P, C))
         /\ CounterExact(mqtt_req_queue_add(q, req))
         /\ FreeSlots(q) # {} =>
              /\ FirstSlot(FreeSlots(q)) \in FreeSlots(q)
              /\ FirstSlot(FreeSlots(q)) \in BusySlots(mqtt_req_queue_add(q, req))
<1>1. CASE FreeSlots(q) = {}
  BY <1>1 DEF mqtt_req_queue_add
<1>2. CASE FreeSlots(q) # {}
  <2> DEFINE i == FirstSlot(FreeSlots(q))
             a == mqtt_req_queue_add(q, req)
  <2>1. i \in Slots /\ i \in FreeSlots(q) /\ i \notin BusySlots(q)
    BY <1>2, FirstSlotIn, BusyAndFree
  <2>2. a = [ requests |-> [q.requests EXCEPT ![i] = req],
              num_active_req |-> Incremented(q.num_active_req) ]
    BY <1>2 DEF mqtt_req_queue_add
  <2>3. q.requests \in [Slots -> RequestsOver(P, C)]
        /\ q.num_active_req \in 0 .. 255
    BY DEF QueueOf
  <2>4. a.requests \in [Slots -> RequestsOver(P, C)]
        /\ \A j \in Slots : a.requests[j] = IF j = i THEN req ELSE q.requests[j]
    BY <2>1, <2>2, <2>3
  <2>5. BusySlots(a) = BusySlots(q) \cup {i}
    BY <2>1, <2>4 DEF BusySlots
  <2>6. Cardinality(BusySlots(a)) = Cardinality(BusySlots(q)) + 1
    BY <2>1, <2>5, BusyAndFree, FS_AddElement
  <2>7. Cardinality(BusySlots(a)) \in 0 .. MQTT_REQUESTS_QUEUE_LEN
    BY BusyAndFree
  <2>8. a.num_active_req = q.num_active_req + 1
    BY <2>2, <2>3, <2>6, <2>7, QueueLenAssumption
       DEF CounterExact, Incremented
  <2>9. a.num_active_req \in 0 .. 255
    BY <2>3, <2>6, <2>7, <2>8, QueueLenAssumption DEF CounterExact
  <2> QED
    BY <2>1, <2>2, <2>4, <2>5, <2>6, <2>8, <2>9 DEF QueueOf, CounterExact
<1> QED
  BY <1>1, <1>2

\* The next state of a conversation is a state, and moving a slot in use on
\* from it keeps the counter exact.
LEMMA UpdateExact ==
  ASSUME NEW P, NEW C, NEW q \in QueueOf(RequestsOver(P, C)), CounterExact(q),
         NEW i \in BusySlots(q), NEW state
  PROVE  /\ mqtt_req_queue_update(q, state, i) \in QueueOf(RequestsOver(P, C))
         /\ CounterExact(mqtt_req_queue_update(q, state, i))
<1> DEFINE next == get_next_conv_state(state)
           u == mqtt_req_queue_update(q, state, i)
<1>1. next \in ConvStates
  BY DEF get_next_conv_state, ConvStates
<1>2. i \in Slots /\ q.requests[i].conv_state # "NO_REQUEST"
  BY DEF BusySlots
<1>3. q.requests \in [Slots -> RequestsOver(P, C)]
      /\ q.num_active_req \in 0 .. 255
  BY DEF QueueOf
<1>4. [q.requests[i] EXCEPT !.conv_state = next] \in RequestsOver(P, C)
      /\ [q.requests[i] EXCEPT !.conv_state = next].conv_state = next
  BY <1>1, <1>2, <1>3 DEF RequestsOver
<1>5. u.requests = [q.requests EXCEPT ![i].conv_state = next]
      /\ u.num_active_req = IF next = "NO_REQUEST"
                            THEN Decremented(q.num_active_req)
                            ELSE q.num_active_req
  BY DEF mqtt_req_queue_update
<1> HIDE DEF next
<1>6. u.requests \in [Slots -> RequestsOver(P, C)]
      /\ \A j \in Slots : u.requests[j].conv_state =
                            IF j = i THEN next ELSE q.requests[j].conv_state
  BY <1>2, <1>3, <1>4, <1>5
<1>7. BusySlots(u) = IF next = "NO_REQUEST" THEN BusySlots(q) \ {i}
                     ELSE BusySlots(q)
  BY <1>2, <1>6 DEF BusySlots
<1>8. IF next = "NO_REQUEST"
      THEN Cardinality(BusySlots(u)) = Cardinality(BusySlots(q)) - 1
      ELSE Cardinality(BusySlots(u)) = Cardinality(BusySlots(q))
  BY <1>7, BusyAndFree, FS_RemoveElement
<1>9. Cardinality(BusySlots(u)) \in 0 .. MQTT_REQUESTS_QUEUE_LEN
      /\ Cardinality(BusySlots(q)) \in 0 .. MQTT_REQUESTS_QUEUE_LEN
  BY BusyAndFree
<1>10. u.num_active_req = Cardinality(BusySlots(u))
       /\ u.num_active_req \in 0 .. 255
  BY <1>3, <1>5, <1>8, <1>9, QueueLenAssumption DEF CounterExact, Decremented
<1>11. u = [ requests |-> u.requests, num_active_req |-> u.num_active_req ]
  BY DEF mqtt_req_queue_update
<1> QED
  BY <1>6, <1>10, <1>11 DEF QueueOf, CounterExact

\* find moves on a slot in use, or leaves the queue alone.
LEMMA FindExact ==
  ASSUME NEW P, NEW C, NEW q \in QueueOf(RequestsOver(P, C)), CounterExact(q),
         NEW state, state # "NO_REQUEST", NEW id
  PROVE  /\ mqtt_req_queue_find(q, state, id) \in QueueOf(RequestsOver(P, C))
         /\ CounterExact(mqtt_req_queue_find(q, state, id))
         /\ SlotsMatching(q, state, id) # {} =>
              FirstSlot(SlotsMatching(q, state, id)) \in SlotsMatching(q, state, id)
         /\ SlotsMatching(q, state, id) \subseteq BusySlots(q)
<1>1. SlotsMatching(q, state, id) \subseteq BusySlots(q)
  BY DEF SlotsMatching, BusySlots
<1>2. SlotsMatching(q, state, id) \in SUBSET Slots
  BY DEF SlotsMatching
<1>3. CASE SlotsMatching(q, state, id) = {}
  BY <1>1, <1>3 DEF mqtt_req_queue_find
<1>4. CASE SlotsMatching(q, state, id) # {}
  <2>1. FirstSlot(SlotsMatching(q, state, id)) \in SlotsMatching(q, state, id)
    BY <1>2, <1>4, FirstSlotIn
  <2> QED
    BY <1>1, <1>4, <2>1, UpdateExact DEF mqtt_req_queue_find
<1> QED
  BY <1>3, <1>4

----
ConnRecords == [ state : PcbStates, out : Seq(Packets), in : Seq(Packets) ]

----
(***************************************************************************)
(* Operators and their types.                                              *)
(***************************************************************************)
\* The requests of the client are requests over its ids and contexts.
LEMMA RequestsAreOver == Requests = RequestsOver(PacketIds, Contexts)
BY DEF Requests, RequestsOver

\* A packet put together from its parts is a packet.
LEMMA PacketType ==
  ASSUME NEW type \in PacketTypes, NEW id \in PacketIds,
         NEW body \in Contexts, NEW qos \in 0 .. 2
  PROVE  Packet(type, id, body, qos) \in Packets
BY DEF Packet, Packets

\* The constants that packets carry.
LEMMA SmallNumbers ==
  /\ 0 \in PacketIds /\ 0 \in Contexts /\ 1 \in Contexts
  /\ Accepted \in Contexts /\ Refused \in Contexts
  /\ 0 \in 0 .. MaxAge
  /\ \A n \in 0 .. MaxRequests : n \in Contexts
  /\ \A n \in 0 .. MaxMsgs : n \in Contexts
  /\ 1 .. MaxPacketId \subseteq PacketIds
BY ClientAssumption DEF PacketIds, Contexts, Accepted, Refused

\* A FIN is a packet too.
LEMMA FinType == Fin \in Packets
BY SmallNumbers DEF Fin, Packets, PacketTypes

\* A connection without packets.
LEMMA EmptyConns ==
  \A state \in PcbStates :
    [ state |-> state, out |-> <<>>, in |-> <<>> ] \in ConnRecords
<1>1. <<>> \in Seq(Packets)
  BY EmptySeq
<1> QED
  BY <1>1 DEF ConnRecords

\* Writing to a connection, and closing it, give a connection.
LEMMA WriteAndCloseType ==
  ASSUME NEW n \in ConnRecords, NEW packet \in Packets
  PROVE  /\ TCPHandler_write(n, packet) \in ConnRecords
         /\ TCPHandler_close(n) \in ConnRecords
<1>1. /\ n.state \in PcbStates /\ n.in \in Seq(Packets)
      /\ Append(n.out, packet) \in Seq(Packets)
      /\ Append(n.out, Fin) \in Seq(Packets)
  BY FinType, AppendProperties DEF ConnRecords
<1>2. TCPHandler_write(n, packet) \in ConnRecords
  BY <1>1 DEF TCPHandler_write, ConnRecords
<1>3. CASE n.state \in {"allocated", "syn_sent"}
  <2>1. TCPHandler_close(n) = [ state |-> "freed", out |-> <<>>, in |-> <<>> ]
    BY <1>3 DEF TCPHandler_close
  <2> QED
    BY <1>2, <2>1, EmptyConns DEF PcbStates
<1>4. CASE n.state = "established"
  <2>1. TCPHandler_close(n) =
          [n EXCEPT !.state = "fin_wait", !.out = Append(n.out, Fin)]
    BY <1>4 DEF TCPHandler_close
  <2>2. "fin_wait" \in PcbStates
    BY DEF PcbStates
  <2> QED
    BY <1>1, <1>2, <2>1, <2>2 DEF ConnRecords
<1>5. CASE n.state \notin {"allocated", "syn_sent", "established"}
  BY <1>2, <1>5 DEF TCPHandler_close
<1> QED
  BY <1>3, <1>4, <1>5

\* The packets after the first n, and the first n themselves.
LEMMA SplitType ==
  ASSUME NEW s \in Seq(Packets), NEW n \in 1 .. Len(s)
  PROVE  /\ SubSeq(s, 1, n) \in Seq(Packets)
         /\ SubSeq(s, n + 1, Len(s)) \in Seq(Packets)
<1>1. Len(s) \in Nat /\ \A k \in 1 .. Len(s) : s[k] \in Packets
  BY LenProperties, ElementOfSeq
<1> QED
  BY <1>1, SubSeqProperties

\* The head and the tail of a sequence of packets.
LEMMA HeadTailType ==
  ASSUME NEW s \in Seq(Packets), s # <<>>
  PROVE  Head(s) \in Packets /\ Tail(s) \in Seq(Packets)
BY HeadTailProperties

----
(***************************************************************************)
(* The invariant, and what a step has to show for it.                      *)
(***************************************************************************)
Inv == TypeOK /\ QueueCounterExact

\* Replacing one connection by another keeps the connections' type.
LEMMA ConnChange ==
  ASSUME ConnTypeOK, NEW c \in Pcbs, NEW r \in ConnRecords,
         conn' = [conn EXCEPT ![c] = r]
  PROVE  ConnTypeOK'
BY DEF ConnTypeOK, ConnRecords

\* A connection is one; writing to it and closing it give another.
LEMMA ConnType ==
  ASSUME ConnTypeOK, NEW c \in Pcbs
  PROVE  /\ conn[c] \in ConnRecords
         /\ conn[c].state \in PcbStates
         /\ conn[c].out \in Seq(Packets) /\ conn[c].in \in Seq(Packets)
BY DEF ConnTypeOK, ConnRecords

\* Sending a packet keeps the connections' type, and so does closing one.
LEMMA SendType ==
  ASSUME ConnTypeOK, pcb \in Pcbs, NEW packet \in Packets
  PROVE  /\ Send(packet) => ConnTypeOK'
         /\ Close => ConnTypeOK'
<1>1. conn[pcb] \in ConnRecords
  BY ConnType
<1>2. /\ TCPHandler_write(conn[pcb], packet) \in ConnRecords
      /\ TCPHandler_close(conn[pcb]) \in ConnRecords
  BY <1>1, WriteAndCloseType
<1> QED
  BY <1>2, ConnChange DEF Send, Close

\* The pcb tcp_new hands out.
LEMMA NewPcb ==
  ASSUME Unused # {}
  PROVE  TCPHandler_get_pcb \in Conns
BY DEF TCPHandler_get_pcb, Unused

\* Time keeps to its bound.
LEMMA OlderType ==
  ASSUME NEW age \in 0 .. MaxAge
  PROVE  Older(age) \in 0 .. MaxAge
BY ClientAssumption DEF Older

\* The parts of the client's type that a step of the broker, or of lwIP
\* between packets, leaves alone.
LEMMA ClientUnchanged ==
  ASSUME Inv, UNCHANGED clientVars
  PROVE  ClientTypeOK' /\ QueueCounterExact'
BY DEF Inv, TypeOK, ClientTypeOK, QueueCounterExact, clientVars, linkVars,
       connackVars, queueVars, timeVars, rxVars, appVars

\* The broker's variables, when a step leaves them alone.
LEMMA BrokerUnchanged ==
  ASSUME BrokerTypeOK, UNCHANGED brokerVars
  PROVE  BrokerTypeOK'
BY DEF BrokerTypeOK, brokerVars

\* The id after last_packet_id is an id.
LEMMA PacketIdType ==
  ASSUME last_packet_id \in PacketIds
  PROVE  get_packet_id \in 1 .. MaxPacketId
BY ClientAssumption DEF PacketIds, get_packet_id

----
(***************************************************************************)
(* The initial state.                                                      *)
(***************************************************************************)
\* No connection, an empty queue, nothing published.
LEMMA InitInv == Init => Inv
<1> SUFFICES ASSUME Init
             PROVE  Inv
  OBVIOUS
<1>1. ConnTypeOK
  <2>1. NoConn \in ConnRecords
    BY EmptyConns DEF NoConn, PcbStates
  <2> QED
    BY <2>1 DEF Init, TcpInit, ConnTypeOK, ConnRecords
<1>2. NoRequest \in Requests
  BY SmallNumbers DEF NoRequest, Requests, ConvStates
<1>3. req_queue \in QueueOf(Requests) /\ QueueCounterExact
  <2>1. req_queue = mqtt_req_queue_init
    BY DEF Init, MQTTClient_init
  <2>2. mqtt_req_queue_init \in QueueOf(Requests)
    BY <1>2 DEF mqtt_req_queue_init, QueueOf
  <2>3. BusySlots(mqtt_req_queue_init) = {}
    BY DEF mqtt_req_queue_init, BusySlots, NoRequest
  <2>4. Cardinality({}) = 0
    BY FS_EmptySet
  <2> QED
    BY <2>1, <2>2, <2>3, <2>4 DEF QueueCounterExact, CounterExact,
                                  mqtt_req_queue_init
<1>4. ClientTypeOK
  <2>1. rx \in Seq(Packets)
    BY EmptySeq DEF Init, MQTTClient_init
  <2>2. pcb \in Pcbs
    BY DEF Init, MQTTClient_init, Pcbs, NULL
  <2>3. /\ completed \in [1 .. MaxRequests -> Nat]
        /\ delivered \in [1 .. MaxMsgs -> Nat]
    BY DEF Init, MQTTClient_init
  <2>4. 0 \in 0 .. MaxRequests
    BY ClientAssumption
  <2>5. /\ since_activity \in 0 .. MaxAge /\ since_ping \in 0 .. MaxAge
        /\ waited \in 0 .. MaxAge
    BY SmallNumbers DEF Init, MQTTClient_init
  <2> QED
    BY <1>3, <2>1, <2>2, <2>3, <2>4, <2>5, SmallNumbers
       DEF Init, MQTTClient_init, ClientTypeOK
<1>5. BrokerTypeOK
  BY ClientAssumption DEF Init, BrokerInit, BrokerTypeOK
<1> QED
  BY <1>1, <1>3, <1>4, <1>5 DEF Inv, TypeOK

----
(***************************************************************************)
(* The calls of the application.                                           *)
(***************************************************************************)
\* Connecting, or failing to, and the end of the wait for the CONNACK.
LEMMA ConnectInv ==
  ASSUME Inv,
         \/ ConnectMemoryErr \/ ConnectTcpFailure \/ MQTTClient_connect
         \/ wait_for_connack
  PROVE  Inv'
<1> USE DEF Inv, TypeOK
<1>1. CASE ConnectMemoryErr
  <2>1. ConnTypeOK'
    BY <1>1 DEF ConnectMemoryErr, ConnTypeOK
  <2>2. ClientTypeOK' /\ QueueCounterExact'
    BY <1>1 DEF ConnectMemoryErr, ClientTypeOK, QueueCounterExact, Pcbs,
           linkVars, connackVars, queueVars, timeVars, rxVars, appVars
  <2> QED
    BY <1>1, <2>1, <2>2, BrokerUnchanged DEF ConnectMemoryErr
<1>2. CASE ConnectTcpFailure
  <2>1. pcb' \in Conns /\ pcb' \in Pcbs
    BY <1>2, NewPcb DEF ConnectTcpFailure, Pcbs
  <2>2. [conn[pcb'] EXCEPT !.state = "allocated"] \in ConnRecords
    BY <2>1, ConnType DEF ConnRecords, PcbStates
  <2>3. conn' = [conn EXCEPT ![pcb'] = [conn[pcb'] EXCEPT !.state = "allocated"]]
    BY <1>2 DEF ConnectTcpFailure
  <2>4. ConnTypeOK'
    BY <2>1, <2>2, <2>3 DEF ConnTypeOK, ConnRecords
  <2>5. ClientTypeOK' /\ QueueCounterExact'
    BY <1>2, <2>1 DEF ConnectTcpFailure, ClientTypeOK, QueueCounterExact,
           linkVars, connackVars, queueVars, timeVars, rxVars, appVars
  <2> QED
    BY <1>2, <2>4, <2>5, BrokerUnchanged DEF ConnectTcpFailure
<1>3. CASE MQTTClient_connect
  <2>1. pcb' \in Conns /\ pcb' \in Pcbs
    BY <1>3, NewPcb DEF MQTTClient_connect, Pcbs
  <2>2. Packet("CONNECT", 0, 0, 0) \in Packets
    BY SmallNumbers, PacketType DEF PacketTypes
  <2>3. << >> \in Seq(Packets) /\ << Packet("CONNECT", 0, 0, 0) >> \in Seq(Packets)
    BY <2>2, EmptySeq
  <2>4. [ state |-> "syn_sent", out |-> << Packet("CONNECT", 0, 0, 0) >>,
          in |-> <<>> ] \in ConnRecords
    BY <2>3 DEF ConnRecords, PcbStates
  <2>5. ConnTypeOK'
    BY <1>3, <2>1, <2>4 DEF MQTTClient_connect, ConnTypeOK, ConnRecords
  <2>6. ClientTypeOK' /\ QueueCounterExact'
    BY <1>3, <2>1, SmallNumbers
       DEF MQTTClient_connect, ClientTypeOK, QueueCounterExact,
           connackVars, queueVars, rxVars, appVars
  <2> QED
    BY <1>3, <2>5, <2>6, BrokerUnchanged DEF MQTTClient_connect
<1>4. CASE wait_for_connack
  <2>1. ConnTypeOK'
    BY <1>4 DEF wait_for_connack, ConnTypeOK
  <2>2. ClientTypeOK' /\ QueueCounterExact'
    BY <1>4, SmallNumbers
       DEF wait_for_connack, ClientTypeOK, QueueCounterExact,
           connackVars, queueVars, rxVars, appVars
  <2> QED
    BY <1>4, <2>1, <2>2, BrokerUnchanged DEF wait_for_connack
<1> QED
  BY <1>1, <1>2, <1>3, <1>4

\* Asking the broker for something: there is room in the queue, and the
\* request goes into it.
LEMMA RequestInv ==
  ASSUME Inv, NEW type \in PacketTypes, NEW qos \in 0 .. 2,
         NEW state \in ConvStates, state # "NO_REQUEST",
         requests < MaxRequests, Request(type, qos, state)
  PROVE  Inv'
<1> DEFINE req == [ packet_id |-> last_packet_id', context |-> requests + 1,
                    conv_state |-> state ]
<1> USE DEF Inv, TypeOK
<1>1. /\ last_packet_id' \in PacketIds
      /\ requests + 1 \in 0 .. MaxRequests /\ requests + 1 \in Contexts
  <2>1. get_packet_id \in PacketIds
    BY PacketIdType, SmallNumbers DEF ClientTypeOK
  <2>2. requests + 1 \in 0 .. MaxRequests
    BY ClientAssumption DEF ClientTypeOK
  <2> QED
    BY <2>1, <2>2, SmallNumbers DEF Request
<1>2. ConnTypeOK'
  <2>1. Packet(type, last_packet_id', requests + 1, qos) \in Packets
    BY <1>1, PacketType
  <2> QED
    BY <2>1, SendType DEF Request, ClientTypeOK
<1>3. req_queue' \in QueueOf(Requests) /\ QueueCounterExact'
  <2>1. req \in Requests
    BY <1>1 DEF Requests
  <2>2. req_queue' = mqtt_req_queue_add(req_queue, req)
    BY DEF Request
  <2>3. req.conv_state # "NO_REQUEST"
    OBVIOUS
  <2>4. req_queue \in QueueOf(Requests) /\ CounterExact(req_queue)
    BY DEF ClientTypeOK, QueueCounterExact
  <2> HIDE DEF req
  <2> QED
    BY <2>1, <2>2, <2>3, <2>4, RequestsAreOver, AddExact
       DEF QueueCounterExact
<1>4. ClientTypeOK'
  BY <1>1, <1>3, SmallNumbers
     DEF Request, ClientTypeOK, linkVars, connackVars, rxVars
<1> QED
  BY <1>2, <1>3, <1>4, BrokerUnchanged DEF Request

\* The other calls of the application.
LEMMA ApplicationInv ==
  ASSUME Inv, Application
  PROVE  Inv'
<1> USE DEF Inv, TypeOK
<1>1. CASE MQTTClient_connect \/ ConnectMemoryErr \/ ConnectTcpFailure
  BY <1>1, ConnectInv
<1>2. CASE PublishQos0
  <2>1. requests + 1 \in 0 .. MaxRequests /\ requests + 1 \in Contexts
    BY <1>2, ClientAssumption, SmallNumbers
       DEF PublishQos0, MayCall, ClientTypeOK
  <2>2. Packet("PUBLISH", 0, requests + 1, 0) \in Packets
    BY <2>1, SmallNumbers, PacketType DEF PacketTypes
  <2>3. ConnTypeOK'
    BY <1>2, <2>2, SendType DEF PublishQos0, ClientTypeOK
  <2>4. ClientTypeOK' /\ QueueCounterExact'
    BY <1>2, <2>1, SmallNumbers
       DEF PublishQos0, ClientTypeOK, QueueCounterExact, linkVars,
           connackVars, queueVars, rxVars
  <2> QED
    BY <1>2, <2>3, <2>4, BrokerUnchanged DEF PublishQos0
<1>3. CASE MQTTClient_publish /\ ~PublishQos0
  <2>1. \/ Request("PUBLISH", 1, "WAITING_FOR_PUBACK")
        \/ Request("PUBLISH", 2, "WAITING_FOR_PUBREC")
    BY <1>3 DEF MQTTClient_publish
  <2>2. requests < MaxRequests
    BY <1>3 DEF MQTTClient_publish, MayCall
  <2> QED
    BY <2>1, <2>2, RequestInv DEF PacketTypes, ConvStates
<1>4. CASE MQTTClient_subscribe
  BY <1>4, RequestInv DEF MQTTClient_subscribe, MayCall, PacketTypes, ConvStates
<1>5. CASE MQTTClient_unsubscribe
  BY <1>5, RequestInv DEF MQTTClient_unsubscribe, MayCall, PacketTypes, ConvStates
<1>6. CASE MQTTClient_disconnect
  <2>1. PICK full \in BOOLEAN :
          conn' = [conn EXCEPT ![pcb] =
                     TCPHandler_close(
                       IF full THEN conn[pcb]
                       ELSE TCPHandler_write(conn[pcb],
                                             Packet("DISCONNECT", 0, 0, 0)))]
    BY <1>6 DEF MQTTClient_disconnect, is_output_buffer_full
  <2>2. Packet("DISCONNECT", 0, 0, 0) \in Packets
    BY SmallNumbers, PacketType DEF PacketTypes
  <2>3. pcb \in Pcbs /\ conn[pcb] \in ConnRecords
    BY ConnType DEF ClientTypeOK
  <2>4. (IF full THEN conn[pcb]
         ELSE TCPHandler_write(conn[pcb], Packet("DISCONNECT", 0, 0, 0)))
          \in ConnRecords
    BY <2>2, <2>3, WriteAndCloseType
  <2>5. ConnTypeOK'
    BY <2>1, <2>2, <2>3, <2>4, WriteAndCloseType, ConnChange
  <2>6. ClientTypeOK' /\ QueueCounterExact'
    BY <1>6 DEF MQTTClient_disconnect, ClientTypeOK, QueueCounterExact,
                connackVars, queueVars, timeVars, rxVars, appVars
  <2> QED
    BY <1>6, <2>5, <2>6, BrokerUnchanged DEF MQTTClient_disconnect
<1>7. CASE MQTTClient_loop
  <2>1. ConnTypeOK'
    BY <1>7 DEF MQTTClient_loop, ConnTypeOK
  <2>2. ClientTypeOK' /\ QueueCounterExact'
    BY <1>7 DEF MQTTClient_loop, ClientTypeOK, QueueCounterExact, linkVars,
                connackVars, queueVars, timeVars, rxVars, appVars
  <2> QED
    BY <1>7, <2>1, <2>2, BrokerUnchanged DEF MQTTClient_loop
<1> QED
  BY <1>1, <1>2, <1>3, <1>4, <1>5, <1>6, <1>7 DEF Application

\* The steps of connect and loop between two passes through lwIP.
LEMMA WaitingInv ==
  ASSUME Inv, Waiting
  PROVE  Inv'
<1> USE DEF Inv, TypeOK
<1>1. CASE wait_for_connack
  BY <1>1, ConnectInv
<1>2. CASE LoopNotConnected \/ PingProcessed
  <2>1. ConnTypeOK'
    BY <1>2 DEF LoopNotConnected, PingProcessed, ConnTypeOK
  <2>2. ClientTypeOK' /\ QueueCounterExact'
    BY <1>2 DEF LoopNotConnected, PingProcessed, ClientTypeOK,
                QueueCounterExact, linkVars, connackVars, queueVars, timeVars,
                rxVars, appVars
  <2> QED
    BY <1>2, <2>1, <2>2, BrokerUnchanged DEF LoopNotConnected, PingProcessed
<1>3. CASE mqtt_handle_keepalive
  <2>1. Packet("PINGREQ", 0, 0, 0) \in Packets
    BY SmallNumbers, PacketType DEF PacketTypes
  <2>2. UNCHANGED conn \/ Send(Packet("PINGREQ", 0, 0, 0)) \/ Close
    BY <1>3 DEF mqtt_handle_keepalive
  <2>3. ConnTypeOK'
    BY <2>1, <2>2, SendType DEF ClientTypeOK, ConnTypeOK
  <2>4. ClientTypeOK' /\ QueueCounterExact'
    BY <1>3, SmallNumbers
       DEF mqtt_handle_keepalive, ClientTypeOK, QueueCounterExact,
           connackVars, queueVars, rxVars, appVars
  <2> QED
    BY <1>3, <2>3, <2>4, BrokerUnchanged DEF mqtt_handle_keepalive
<1>4. CASE mqtt_handle_timeout_on_ping
  <2>1. UNCHANGED conn \/ Close
    BY <1>4 DEF mqtt_handle_timeout_on_ping
  <2>2. ConnTypeOK'
    BY <2>1, SendType, FinType DEF ClientTypeOK, ConnTypeOK
  <2>3. ClientTypeOK' /\ QueueCounterExact'
    BY <1>4 DEF mqtt_handle_timeout_on_ping, ClientTypeOK, QueueCounterExact,
                connackVars, queueVars, timeVars, rxVars, appVars
  <2> QED
    BY <1>4, <2>2, <2>3, BrokerUnchanged DEF mqtt_handle_timeout_on_ping
<1> QED
  BY <1>1, <1>2, <1>3, <1>4 DEF Waiting

----
(***************************************************************************)
(* The packets received.                                                   *)
(***************************************************************************)
\* Handling a packet leaves a segment, and failing closes a connection.
LEMMA PacketTypesKept ==
  ASSUME Inv, rx # <<>>
  PROVE  /\ Head(rx) \in Packets
         /\ PacketDone => rx' \in Seq(Packets) /\ rx_first' \in BOOLEAN
         /\ PacketFailed => /\ rx' \in Seq(Packets) /\ rx_first' \in BOOLEAN
                            /\ ConnTypeOK' /\ mqtt_connected' \in BOOLEAN
<1> USE DEF Inv, TypeOK
<1>1. rx \in Seq(Packets) /\ <<>> \in Seq(Packets)
  BY EmptySeq DEF ClientTypeOK
<1>2. Head(rx) \in Packets /\ Tail(rx) \in Seq(Packets)
  BY <1>1, HeadTailType
<1>3. Close => ConnTypeOK'
  BY FinType, SendType DEF ClientTypeOK
<1> QED
  BY <1>1, <1>2, <1>3 DEF PacketDone, PacketFailed, ClientTypeOK

\* What find gives an acknowledgement: the queue, still exact, and a slot in
\* use that holds the context.  Before its answer the slot is in use too.
LEMMA FoundType ==
  ASSUME Inv, NEW p \in Packets, p.type \in AckTypes
  PROVE  /\ FindRequest(p) \in QueueOf(Requests) /\ CounterExact(FindRequest(p))
         /\ Found(p) # {} =>
              /\ FirstSlot(Found(p)) \in BusySlots(req_queue)
              /\ req_queue.requests[FirstSlot(Found(p))].conv_state
                   = Awaited(p.type)
              /\ ContextOf(p) \in Contexts
              /\ p.type \in {"PUBREC", "PUBREL"} =>
                   FirstSlot(Found(p)) \in BusySlots(FindRequest(p))
<1> DEFINE i == FirstSlot(Found(p))
<1>1. Awaited(p.type) # "NO_REQUEST"
  BY DEF Awaited, AckTypes
<1>2. req_queue \in QueueOf(Requests) /\ CounterExact(req_queue)
  BY DEF Inv, TypeOK, ClientTypeOK, QueueCounterExact
<1>3. /\ FindRequest(p) \in QueueOf(Requests) /\ CounterExact(FindRequest(p))
      /\ Found(p) # {} => i \in Found(p) /\ i \in BusySlots(req_queue)
  BY <1>1, <1>2, RequestsAreOver, FindExact DEF FindRequest, Found
<1>4. req_queue.requests \in [Slots -> Requests]
  BY <1>2 DEF QueueOf
<1>5. ASSUME Found(p) # {}
      PROVE  /\ i \in Slots
             /\ req_queue.requests[i].conv_state = Awaited(p.type)
             /\ ContextOf(p) \in Contexts
  <2>1. i \in Slots /\ req_queue.requests[i].conv_state = Awaited(p.type)
    BY <1>3, <1>5 DEF Found, SlotsMatching
  <2>2. req_queue.requests[i] \in Requests
    BY <1>4, <2>1
  <2> QED
    BY <2>1, <2>2 DEF ContextOf, Requests
<1>6. ASSUME Found(p) # {}, p.type \in {"PUBREC", "PUBREL"}
      PROVE  i \in BusySlots(FindRequest(p))
  <2>1. get_next_conv_state(Awaited(p.type)) # "NO_REQUEST"
    BY <1>6 DEF get_next_conv_state, Awaited
  <2>2. FindRequest(p) = mqtt_req_queue_update(req_queue, Awaited(p.type), i)
    BY <1>6 DEF FindRequest, Found, mqtt_req_queue_find
  <2>3. FindRequest(p).requests[i] =
          [req_queue.requests[i] EXCEPT !.conv_state =
             get_next_conv_state(Awaited(p.type))]
    BY <1>4, <1>5, <1>6, <2>2 DEF mqtt_req_queue_update
  <2>4. req_queue.requests[i] \in Requests
    BY <1>4, <1>5, <1>6
  <2>5. FindRequest(p).requests[i].conv_state =
          get_next_conv_state(Awaited(p.type))
    BY <2>3, <2>4 DEF Requests
  <2> QED
    BY <1>5, <1>6, <2>1, <2>5 DEF BusySlots
<1> QED
  BY <1>3, <1>5, <1>6

\* Answering, with a slot in use that was put in its sending state.
LEMMA AnswerInv ==
  ASSUME Inv, rx # <<>>, NEW q \in QueueOf(Requests), CounterExact(q),
         NEW i \in BusySlots(q), NEW state, NEW packet \in Packets,
         Answer(q, i, state, packet),
         delivered' \in [1 .. MaxMsgs -> Nat]
  PROVE  Inv'
<1> USE DEF Inv, TypeOK
<1>1. req_queue' \in QueueOf(Requests) /\ QueueCounterExact'
  BY RequestsAreOver, UpdateExact DEF Answer, QueueCounterExact
<1>2. ConnTypeOK'
  BY SendType DEF Answer, ClientTypeOK
<1>3. ClientTypeOK'
  BY <1>1, SmallNumbers, PacketTypesKept
     DEF Answer, ClientTypeOK, linkVars, connackVars
<1> QED
  BY <1>1, <1>2, <1>3, BrokerUnchanged DEF Answer

\* Without room for the answer the queue keeps the slot in its sending state.
LEMMA AnswerDoesNotFitInv ==
  ASSUME Inv, rx # <<>>, NEW q \in QueueOf(Requests), CounterExact(q),
         AnswerDoesNotFit(q)
  PROVE  Inv'
<1> USE DEF Inv, TypeOK
<1>1. ClientTypeOK' /\ QueueCounterExact' /\ ConnTypeOK'
  BY PacketTypesKept
     DEF AnswerDoesNotFit, ClientTypeOK, QueueCounterExact, connackVars,
         timeVars, appVars
<1> QED
  BY <1>1, BrokerUnchanged DEF AnswerDoesNotFit

\* Counting one more keeps counts what they are.
LEMMA CountsType ==
  ASSUME NEW S, NEW f \in [S -> Nat], NEW k
  PROVE  [f EXCEPT ![k] = f[k] + 1] \in [S -> Nat]
<1>1. \A j \in S : f[j] \in Nat /\ f[j] + 1 \in Nat
  OBVIOUS
<1>2. CASE k \in S
  BY <1>1, <1>2
<1>3. CASE k \notin S
  <2>1. [f EXCEPT ![k] = f[k] + 1] = f
    BY <1>3
  <2> QED
    BY <2>1
<1> QED
  BY <1>2, <1>3

\* A delivery keeps the counts of deliveries.
LEMMA DeliverType ==
  ASSUME Inv, NEW m, Deliver(m)
  PROVE  delivered' \in [1 .. MaxMsgs -> Nat]
<1>1. delivered \in [1 .. MaxMsgs -> Nat]
  BY DEF Inv, TypeOK, ClientTypeOK
<1> QED
  BY <1>1, CountsType DEF Deliver

\* An acknowledgement the client does not answer: CONNACK and PINGRESP set
\* flags, PUBACK, PUBCOMP, SUBACK and UNSUBACK end a conversation, and one
\* without a request closes the connection.
LEMMA HandleAckInv ==
  ASSUME Inv,
         \/ HandleConnack \/ HandlePingresp \/ HandlePuback \/ HandlePubcomp
         \/ HandleSuback \/ HandleUnsuback \/ RequestNotFound
  PROVE  Inv'
<1> USE DEF Inv, TypeOK
<1>1. CASE HandleConnack
  <2>1. Head(rx) \in Packets /\ rx' \in Seq(Packets) /\ rx_first' \in BOOLEAN
    BY <1>1, PacketTypesKept DEF HandleConnack, Receiving
  <2>2. Head(rx).body \in Contexts
    BY <2>1 DEF Packets
  <2>3. ConnTypeOK' /\ ClientTypeOK' /\ QueueCounterExact'
    BY <1>1, <2>1, <2>2
       DEF HandleConnack, ConnTypeOK, ClientTypeOK, QueueCounterExact,
           linkVars, queueVars, timeVars, appVars
  <2> QED
    BY <1>1, <2>3, BrokerUnchanged DEF HandleConnack
<1>2. CASE HandlePingresp
  <2>1. rx' \in Seq(Packets) /\ rx_first' \in BOOLEAN
    BY <1>2, PacketTypesKept DEF HandlePingresp, Receiving
  <2>2. ConnTypeOK' /\ ClientTypeOK' /\ QueueCounterExact'
    BY <1>2, <2>1
       DEF HandlePingresp, ConnTypeOK, ClientTypeOK, QueueCounterExact,
           linkVars, connackVars, queueVars, timeVars, appVars
  <2> QED
    BY <1>2, <2>2, BrokerUnchanged DEF HandlePingresp
<1>3. ASSUME NEW type \in {"PUBACK", "PUBCOMP", "SUBACK"}, HandleLastAck(type)
      PROVE  Inv'
  <2>1. /\ Head(rx) \in Packets /\ Head(rx).type \in AckTypes
        /\ rx' \in Seq(Packets) /\ rx_first' \in BOOLEAN
    BY <1>3, PacketTypesKept DEF HandleLastAck, Receiving, AckTypes
  <2>2. req_queue' \in QueueOf(Requests) /\ QueueCounterExact'
    BY <1>3, <2>1, FoundType DEF HandleLastAck, QueueCounterExact
  <2>3. completed' \in [1 .. MaxRequests -> Nat]
    BY <1>3, CountsType DEF HandleLastAck, ClientTypeOK
  <2>4. ConnTypeOK' /\ ClientTypeOK'
    BY <1>3, <2>1, <2>2, <2>3
       DEF HandleLastAck, ConnTypeOK, ClientTypeOK, linkVars, connackVars,
           timeVars
  <2> QED
    BY <1>3, <2>2, <2>4, BrokerUnchanged DEF HandleLastAck
<1>4. CASE HandleUnsuback
  <2>1. /\ Head(rx) \in Packets /\ Head(rx).type \in AckTypes
        /\ rx' \in Seq(Packets) /\ rx_first' \in BOOLEAN
    BY <1>4, PacketTypesKept DEF HandleUnsuback, Receiving, AckTypes
  <2>2. req_queue' \in QueueOf(Requests) /\ QueueCounterExact'
    BY <1>4, <2>1, FoundType DEF HandleUnsuback, QueueCounterExact
  <2>3. ConnTypeOK' /\ ClientTypeOK'
    BY <1>4, <2>1, <2>2
       DEF HandleUnsuback, ConnTypeOK, ClientTypeOK, linkVars, connackVars,
           timeVars, appVars
  <2> QED
    BY <1>4, <2>2, <2>3, BrokerUnchanged DEF HandleUnsuback
<1>5. CASE RequestNotFound
  <2>1. /\ rx' \in Seq(Packets) /\ rx_first' \in BOOLEAN
        /\ ConnTypeOK' /\ mqtt_connected' \in BOOLEAN
    BY <1>5, PacketTypesKept DEF RequestNotFound
  <2>2. ClientTypeOK' /\ QueueCounterExact'
    BY <1>5, <2>1
       DEF RequestNotFound, ClientTypeOK, QueueCounterExact, connackVars,
           queueVars, timeVars, appVars
  <2> QED
    BY <1>5, <2>1, <2>2, BrokerUnchanged DEF RequestNotFound
<1> QED
  BY <1>1, <1>2, <1>3, <1>4, <1>5 DEF HandlePuback, HandlePubcomp, HandleSuback

\* PUBREC and PUBREL: the slot found is in a sending state, and in use, when
\* the answer goes out or does not.
LEMMA HandleReleaseInv ==
  ASSUME Inv, HandlePubrec \/ HandlePubrel
  PROVE  Inv'
<1> DEFINE p == Head(rx)
<1>1. /\ rx # <<>> /\ p \in Packets /\ p.id \in PacketIds
      /\ p.type \in {"PUBREC", "PUBREL"} /\ p.type \in AckTypes /\ Found(p) # {}
  <2>1. rx # <<>> /\ p.type \in {"PUBREC", "PUBREL"} /\ Found(p) # {}
    BY DEF HandlePubrec, HandlePubrel, Receiving
  <2>2. p \in Packets
    BY <2>1, PacketTypesKept
  <2> QED
    BY <2>1, <2>2 DEF AckTypes, Packets
<1>2. /\ FindRequest(p) \in QueueOf(Requests) /\ CounterExact(FindRequest(p))
      /\ FirstSlot(Found(p)) \in BusySlots(FindRequest(p))
      /\ ContextOf(p) \in Contexts
  BY <1>1, FoundType
<1>3. /\ Packet("PUBREL", p.id, ContextOf(p), 0) \in Packets
      /\ Packet("PUBCOMP", p.id, 0, 0) \in Packets
  BY <1>1, <1>2, SmallNumbers, PacketType DEF PacketTypes
<1>4. CASE AnswerDoesNotFit(FindRequest(p))
  BY <1>1, <1>2, <1>4, AnswerDoesNotFitInv
<1>5. CASE /\ Answer(FindRequest(p), FirstSlot(Found(p)), "SENDING_PUBREL",
                     Packet("PUBREL", p.id, ContextOf(p), 0))
           /\ UNCHANGED delivered
  <2>1. delivered' \in [1 .. MaxMsgs -> Nat]
    BY <1>5 DEF Inv, TypeOK, ClientTypeOK
  <2> QED
    BY <1>1, <1>2, <1>3, <1>5, <2>1, AnswerInv
<1>6. CASE /\ Answer(FindRequest(p), FirstSlot(Found(p)), "SENDING_PUBCOMP",
                     Packet("PUBCOMP", p.id, 0, 0))
           /\ Deliver(ContextOf(p))
  <2>1. delivered' \in [1 .. MaxMsgs -> Nat]
    BY <1>6, DeliverType
  <2> QED
    BY <1>1, <1>2, <1>3, <1>6, <2>1, AnswerInv
<1> QED
  BY <1>4, <1>5, <1>6 DEF HandlePubrec, HandlePubrel

\* A PUBLISH that is kept finds a free slot: the queue was not full.
LEMMA KeptType ==
  ASSUME Inv, NEW p \in Packets, ~Discarded(p),
         NEW state \in ConvStates, state # "NO_REQUEST"
  PROVE  /\ Kept(p, state) \in QueueOf(Requests) /\ CounterExact(Kept(p, state))
         /\ AddedAt \in FreeSlots(req_queue)
         /\ AddedAt \in BusySlots(Kept(p, state))
<1> DEFINE req == [ packet_id |-> p.id, context |-> p.body, conv_state |-> state ]
<1>1. req \in Requests /\ req.conv_state # "NO_REQUEST"
  BY DEF Requests, Packets
<1>2. req_queue \in QueueOf(Requests) /\ CounterExact(req_queue)
  BY DEF Inv, TypeOK, ClientTypeOK, QueueCounterExact
<1>3. FreeSlots(req_queue) # {}
  BY <1>2, NotFullHasFreeSlot DEF Discarded
<1>4. Kept(p, state) = mqtt_req_queue_add(req_queue, req)
  BY DEF Kept
<1> HIDE DEF req
<1> QED
  BY <1>1, <1>2, <1>3, <1>4, RequestsAreOver, AddExact DEF AddedAt

\* A PUBLISH, of each QoS: dropped, delivered, answered, or not answered.
LEMMA HandlePublishInv ==
  ASSUME Inv,
         \/ HandlePublishDiscarded \/ HandlePublishQos0
         \/ HandlePublishQos1 \/ HandlePublishQos2
  PROVE  Inv'
<1> DEFINE p == Head(rx)
<1>1. rx # <<>> /\ p \in Packets /\ p.id \in PacketIds
  <2>1. rx # <<>>
    BY DEF HandlePublishDiscarded, HandlePublishQos0, HandlePublishQos1,
           HandlePublishQos2, Receiving
  <2>2. p \in Packets
    BY <2>1, PacketTypesKept
  <2> QED
    BY <2>1, <2>2 DEF Packets
<1>2. CASE HandlePublishDiscarded \/ HandlePublishQos0
  <2>1. rx' \in Seq(Packets) /\ rx_first' \in BOOLEAN
    BY <1>1, <1>2, PacketTypesKept DEF HandlePublishDiscarded, HandlePublishQos0
  <2>2. /\ delivered' \in [1 .. MaxMsgs -> Nat]
        /\ requests' = requests /\ completed' = completed
    BY <1>2, DeliverType
       DEF HandlePublishDiscarded, HandlePublishQos0, appVars, Inv, TypeOK,
           ClientTypeOK
  <2>3. ConnTypeOK' /\ ClientTypeOK' /\ QueueCounterExact'
    BY <1>2, <2>1, <2>2
       DEF HandlePublishDiscarded, HandlePublishQos0, Inv, TypeOK, ConnTypeOK,
           ClientTypeOK, QueueCounterExact, linkVars, connackVars, queueVars,
           timeVars
  <2> QED
    BY <1>2, <2>3, BrokerUnchanged
       DEF HandlePublishDiscarded, HandlePublishQos0, Inv, TypeOK
<1>3. CASE HandlePublishQos1
  <2>1. ~Discarded(p)
    BY <1>3 DEF HandlePublishQos1
  <2>2. /\ Kept(p, "SENDING_PUBACK") \in QueueOf(Requests)
        /\ CounterExact(Kept(p, "SENDING_PUBACK"))
        /\ AddedAt \in BusySlots(Kept(p, "SENDING_PUBACK"))
    BY <1>1, <2>1, KeptType DEF ConvStates
  <2>3. Packet("PUBACK", p.id, 0, 0) \in Packets
    BY <1>1, SmallNumbers, PacketType DEF PacketTypes
  <2>4. CASE AnswerDoesNotFit(Kept(p, "SENDING_PUBACK"))
    BY <1>1, <2>2, <2>4, AnswerDoesNotFitInv
  <2>5. CASE /\ Answer(Kept(p, "SENDING_PUBACK"), AddedAt, "SENDING_PUBACK",
                       Packet("PUBACK", p.id, 0, 0))
             /\ Deliver(p.body)
    <3>1. delivered' \in [1 .. MaxMsgs -> Nat]
      BY <2>5, DeliverType
    <3> QED
      BY <1>1, <2>2, <2>3, <2>5, <3>1, AnswerInv
  <2> QED
    BY <1>3, <2>4, <2>5 DEF HandlePublishQos1
<1>4. CASE HandlePublishQos2
  <2>1. ~Discarded(p)
    BY <1>4 DEF HandlePublishQos2
  <2>2. /\ Kept(p, "SENDING_PUBREC") \in QueueOf(Requests)
        /\ CounterExact(Kept(p, "SENDING_PUBREC"))
        /\ AddedAt \in BusySlots(Kept(p, "SENDING_PUBREC"))
    BY <1>1, <2>1, KeptType DEF ConvStates
  <2>3. Packet("PUBREC", p.id, 0, 0) \in Packets
    BY <1>1, SmallNumbers, PacketType DEF PacketTypes
  <2>4. CASE AnswerDoesNotFit(Kept(p, "SENDING_PUBREC"))
    BY <1>1, <2>2, <2>4, AnswerDoesNotFitInv
  <2>5. CASE /\ Answer(Kept(p, "SENDING_PUBREC"), AddedAt, "SENDING_PUBREC",
                       Packet("PUBREC", p.id, 0, 0))
             /\ UNCHANGED delivered
    <3>1. delivered' \in [1 .. MaxMsgs -> Nat]
      BY <2>5 DEF Inv, TypeOK, ClientTypeOK
    <3> QED
      BY <1>1, <2>2, <2>3, <2>5, <3>1, AnswerInv
  <2> QED
    BY <1>4, <2>4, <2>5 DEF HandlePublishQos2
<1> QED
  BY <1>2, <1>3, <1>4

----
(***************************************************************************)
(* The network, the broker, and time.                                      *)
(***************************************************************************)
\* What lwIP does with a connection, and what it tells the client.
LEMMA NetworkInv ==
  ASSUME Inv, NEW c \in Conns, Network(c)
  PROVE  Inv'
<1> USE DEF Inv, TypeOK
<1>1. c \in Pcbs
  BY DEF Pcbs
<1>2. /\ conn[c] \in ConnRecords
      /\ conn[c].out \in Seq(Packets) /\ conn[c].in \in Seq(Packets)
  BY <1>1, ConnType
<1>3. CASE tcp_connected_cb(c)
  <2>1. [conn[c] EXCEPT !.state = "established"] \in ConnRecords
    BY <1>2 DEF ConnRecords, PcbStates
  <2>2. conn' = [conn EXCEPT ![c] = [conn[c] EXCEPT !.state = "established"]]
    BY <1>3 DEF tcp_connected_cb
  <2> QED
    BY <1>1, <1>3, <2>1, <2>2, ConnChange, ClientUnchanged, BrokerUnchanged
       DEF tcp_connected_cb
<1>4. CASE tcp_received_cb(c)
  <2>1. PICK n \in 1 .. MaxSeg :
          /\ n <= Len(conn[c].in)
          /\ rx' = SubSeq(conn[c].in, 1, n)
          /\ conn' = [conn EXCEPT ![c].in =
                        SubSeq(conn[c].in, n + 1, Len(conn[c].in))]
    BY <1>4 DEF tcp_received_cb
  <2>2. n \in 1 .. Len(conn[c].in)
    BY <1>2, <2>1, LenProperties, ClientAssumption
  <2>3. /\ SubSeq(conn[c].in, 1, n) \in Seq(Packets)
        /\ SubSeq(conn[c].in, n + 1, Len(conn[c].in)) \in Seq(Packets)
    BY <1>2, <2>2, SplitType
  <2>4. [conn[c] EXCEPT !.in = SubSeq(conn[c].in, n + 1, Len(conn[c].in))]
          \in ConnRecords
    BY <1>2, <2>3 DEF ConnRecords
  <2>5. conn' = [conn EXCEPT ![c] =
                   [conn[c] EXCEPT !.in =
                      SubSeq(conn[c].in, n + 1, Len(conn[c].in))]]
    BY <2>1
  <2>6. ConnTypeOK'
    BY <1>1, <2>4, <2>5, ConnChange
  <2>7. ClientTypeOK' /\ QueueCounterExact'
    BY <1>4, <2>1, <2>3
       DEF tcp_received_cb, ClientTypeOK, QueueCounterExact, linkVars,
           connackVars, queueVars, timeVars, appVars
  <2> QED
    BY <1>4, <2>6, <2>7, BrokerUnchanged DEF tcp_received_cb
<1>5. CASE tcp_received_cb_closed(c)
  <2>1. TCPHandler_close(conn[c]).out \in Seq(Packets)
    BY <1>2, FinType, WriteAndCloseType DEF ConnRecords
  <2>2. [ state |-> "freed", in |-> <<>>, out |-> TCPHandler_close(conn[c]).out ]
          \in ConnRecords
    BY <2>1, EmptySeq DEF ConnRecords, PcbStates
  <2>3. ConnTypeOK'
    BY <1>1, <1>5, <2>2, ConnChange DEF tcp_received_cb_closed
  <2>4. ClientTypeOK' /\ QueueCounterExact'
    BY <1>5 DEF tcp_received_cb_closed, ClientTypeOK, QueueCounterExact,
                connackVars, queueVars, timeVars, rxVars, appVars
  <2> QED
    BY <1>5, <2>3, <2>4, BrokerUnchanged DEF tcp_received_cb_closed
<1>6. CASE DataAfterClose(c) \/ tcp_error_cb(c)
  <2>1. Aborted \in ConnRecords
    BY EmptyConns DEF Aborted, PcbStates
  <2>2. ConnTypeOK'
    BY <1>1, <1>6, <2>1, ConnChange DEF DataAfterClose, tcp_error_cb
  <2> QED
    BY <1>6, <2>2, ClientUnchanged, BrokerUnchanged
       DEF DataAfterClose, tcp_error_cb
<1> QED
  BY <1>3, <1>4, <1>5, <1>6 DEF Network

\* Packets on their way to the client.
LEMMA ToClientType ==
  ASSUME NEW n \in ConnRecords, NEW packets \in Seq(Packets)
  PROVE  ToClient(n, packets) \in ConnRecords
<1>1. n.in \o packets \in Seq(Packets)
  BY ConcatProperties DEF ConnRecords
<1> QED
  BY <1>1 DEF ToClient, ConnRecords

\* The record the broker keeps of a connection.
BrokerRecords ==
  [ phase : {"new", "accepted", "refused", "closed"}, subscribed : BOOLEAN,
    owed : SUBSET Packets, inflight : SUBSET Inflight ]

\* What the broker answers, and what it forgets, is of its type.
LEMMA RepliesType ==
  ASSUME NEW b \in BrokerRecords, NEW p \in Packets
  PROVE  /\ Replies(b, p) \subseteq Packets
         /\ Finished(b, p) \subseteq Inflight
         /\ { f.body : f \in Finished(b, p) } \subseteq Contexts
<1>1. p.id \in PacketIds /\ p.body \in Contexts
  BY DEF Packets
<1>2. \A id : SentUnder(b, id) \subseteq Inflight
  BY DEF SentUnder, BrokerRecords
<1>3. \A f \in Inflight : f.body \in Contexts
  BY DEF Inflight
<1>4. \A f \in SentUnder(b, p.id) : Packet("PUBREL", p.id, f.body, 0) \in Packets
  BY <1>1, <1>2, <1>3, PacketType DEF PacketTypes
<1>5. \A type \in {"PUBACK", "PUBREC", "PUBCOMP", "SUBACK", "UNSUBACK"} :
        Packet(type, p.id, p.body, 0) \in Packets
  BY <1>1, PacketType DEF PacketTypes
<1>6. Packet("PINGRESP", 0, 0, 0) \in Packets
  BY SmallNumbers, PacketType DEF PacketTypes
<1>7. Replies(b, p) \subseteq Packets
  BY <1>4, <1>5, <1>6 DEF Replies
<1>8. Finished(b, p) \subseteq Inflight
  BY <1>2 DEF Finished
<1> QED
  BY <1>3, <1>7, <1>8

\* The steps of the broker.
LEMMA BrokerInv ==
  ASSUME Inv, NEW c \in Conns, Broker(c)
  PROVE  Inv'
<1> USE DEF Inv, TypeOK
<1>1. /\ c \in Pcbs /\ conn[c] \in ConnRecords
      /\ conn[c].out \in Seq(Packets)
  BY ConnType DEF Pcbs
<1>2. broker \in [Conns -> BrokerRecords] /\ broker[c] \in BrokerRecords
  BY DEF BrokerTypeOK, BrokerRecords
<1>3. ASSUME UNCHANGED clientVars
      PROVE  ClientTypeOK' /\ QueueCounterExact'
  BY <1>3, ClientUnchanged
<1>4. ASSUME Incoming(c)
      PROVE  Taken(c) \in ConnRecords /\ Head(conn[c].out) \in Packets
  <2>1. Head(conn[c].out) \in Packets /\ Tail(conn[c].out) \in Seq(Packets)
    BY <1>1, <1>4, HeadTailType DEF Incoming
  <2> QED
    BY <1>1, <2>1 DEF Taken, ConnRecords
<1>5. \A phase \in {"refused", "closed"} : Gone(broker[c], phase) \in BrokerRecords
  BY <1>2 DEF Gone, BrokerRecords
<1>6. \A p \in Packets : << p >> \in Seq(Packets) /\ << p, Fin >> \in Seq(Packets)
  BY FinType
<1>7. ASSUME NEW b \in BrokerRecords, broker' = [broker EXCEPT ![c] = b]
      PROVE  broker' \in [Conns -> BrokerRecords]
  BY <1>2, <1>7
<1>8. CASE BrokerConnect(c)
  <2>1. /\ Packet("CONNACK", 0, Accepted, 0) \in Packets
        /\ Packet("CONNACK", 0, Refused, 0) \in Packets
    BY SmallNumbers, PacketType DEF PacketTypes
  <2>2. Incoming(c) /\ UNCHANGED <<clientVars, msgs_sent, acked>>
    BY <1>8 DEF BrokerConnect
  <2>3. /\ [broker[c] EXCEPT !.phase = "accepted"] \in BrokerRecords
        /\ Gone(broker[c], "refused") \in BrokerRecords
    BY <1>2, <1>5 DEF BrokerRecords
  <2>4. /\ \/ broker' = [broker EXCEPT ![c] = [broker[c] EXCEPT !.phase = "accepted"]]
           \/ broker' = [broker EXCEPT ![c] = Gone(broker[c], "refused")]
        /\ \/ conn' = [conn EXCEPT ![c] =
                ToClient(Taken(c), << Packet("CONNACK", 0, Accepted, 0) >>)]
           \/ conn' = [conn EXCEPT ![c] =
                ToClient(Taken(c), << Packet("CONNACK", 0, Refused, 0), Fin >>)]
    BY <1>8 DEF BrokerConnect
  <2>5. broker' \in [Conns -> BrokerRecords]
    BY <1>2, <2>3, <2>4
  <2>6. ConnTypeOK'
    BY <1>1, <1>4, <1>6, <2>1, <2>2, <2>4, ToClientType, ConnChange
  <2> QED
    BY <1>3, <2>2, <2>5, <2>6 DEF BrokerTypeOK, BrokerRecords
<1>9. CASE BrokerReceive(c)
  <2> DEFINE p == Head(conn[c].out)
             b == [ phase |-> "accepted",
                    subscribed |-> IF p.type = "SUBSCRIBE" THEN TRUE
                                   ELSE /\ broker[c].subscribed
                                        /\ p.type # "UNSUBSCRIBE",
                    owed |-> broker[c].owed \cup Replies(broker[c], p),
                    inflight |-> broker[c].inflight \ Finished(broker[c], p) ]
  <2>1. /\ Incoming(c) /\ UNCHANGED <<clientVars, msgs_sent>>
        /\ broker' = [broker EXCEPT ![c] = b]
        /\ acked' = acked \cup { f.body : f \in Finished(broker[c], p) }
        /\ conn' = [conn EXCEPT ![c] = Taken(c)]
    BY <1>9 DEF BrokerReceive
  <2>2. p \in Packets /\ Taken(c) \in ConnRecords
    BY <1>4, <2>1
  <2>3. b \in BrokerRecords
    <3>1. /\ broker[c].owed \cup Replies(broker[c], p) \subseteq Packets
          /\ broker[c].inflight \ Finished(broker[c], p) \subseteq Inflight
          /\ broker[c].subscribed \in BOOLEAN
      BY <1>2, <2>2, RepliesType DEF BrokerRecords
    <3>2. b.subscribed \in BOOLEAN
      BY <3>1
    <3> QED
      BY <3>1, <3>2 DEF BrokerRecords
  <2>4. acked' \subseteq Contexts
    BY <1>2, <2>1, <2>2, RepliesType DEF BrokerTypeOK
  <2> HIDE DEF b
  <2>5. ConnTypeOK'
    BY <1>1, <2>1, <2>2, ConnChange
  <2> QED
    BY <1>3, <1>7, <2>1, <2>3, <2>4, <2>5 DEF BrokerTypeOK, BrokerRecords
<1>10. CASE BrokerDisconnected(c)
  <2>1. /\ Incoming(c) /\ UNCHANGED <<clientVars, msgs_sent, acked>>
        /\ broker' = [broker EXCEPT ![c] = Gone(broker[c], "closed")]
        /\ conn' = [conn EXCEPT ![c] = ToClient(Taken(c), << Fin >>)]
    BY <1>10 DEF BrokerDisconnected
  <2>2. ConnTypeOK'
    BY <1>1, <1>4, <1>6, <2>1, FinType, ToClientType, ConnChange
  <2> QED
    BY <1>3, <1>5, <1>7, <2>1, <2>2 DEF BrokerTypeOK, BrokerRecords
<1>11. CASE BrokerIgnores(c)
  <2>1. ConnTypeOK'
    BY <1>1, <1>4, <1>11, ConnChange DEF BrokerIgnores
  <2> QED
    BY <1>3, <1>11, <2>1, BrokerUnchanged DEF BrokerIgnores
<1>12. CASE BrokerReply(c)
  <2>1. PICK p \in broker[c].owed :
          /\ broker' = [broker EXCEPT ![c] =
                          [broker[c] EXCEPT !.owed = broker[c].owed \ {p}]]
          /\ conn' = [conn EXCEPT ![c] = ToClient(conn[c], << p >>)]
          /\ UNCHANGED <<clientVars, msgs_sent, acked>>
    BY <1>12 DEF BrokerReply
  <2>2. p \in Packets
    BY <1>2 DEF BrokerRecords
  <2>3. [broker[c] EXCEPT !.owed = broker[c].owed \ {p}] \in BrokerRecords
    BY <1>2 DEF BrokerRecords
  <2>4. ConnTypeOK'
    BY <1>1, <1>6, <2>1, <2>2, ToClientType, ConnChange
  <2> QED
    BY <1>3, <1>7, <2>1, <2>3, <2>4 DEF BrokerTypeOK, BrokerRecords
<1>13. ASSUME NEW qos \in 0 .. 2, BrokerPublish(c, qos)
       PROVE  Inv'
  <2>1. PICK id \in PacketIds :
          /\ conn' = [conn EXCEPT ![c] =
                 ToClient(conn[c], << Packet("PUBLISH", id, msgs_sent', qos) >>)]
          /\ broker' = IF qos = 0 THEN broker
                       ELSE [broker EXCEPT ![c] =
                               [broker[c] EXCEPT !.inflight =
                                  broker[c].inflight
                                    \cup {[ id |-> id, body |-> msgs_sent' ]}]]
    BY <1>13, SmallNumbers DEF BrokerPublish
  <2>2. msgs_sent' \in 0 .. MaxMsgs /\ msgs_sent' \in Contexts
    BY <1>13, ClientAssumption, SmallNumbers DEF BrokerPublish, BrokerTypeOK
  <2>3. Packet("PUBLISH", id, msgs_sent', qos) \in Packets
    BY <2>2, PacketType DEF PacketTypes
  <2>4. [ id |-> id, body |-> msgs_sent' ] \in Inflight
    BY <2>2 DEF Inflight
  <2>5. [broker[c] EXCEPT !.inflight =
           broker[c].inflight \cup {[ id |-> id, body |-> msgs_sent' ]}]
          \in BrokerRecords
    BY <1>2, <2>4 DEF BrokerRecords
  <2>6. ConnTypeOK'
    BY <1>1, <1>6, <2>1, <2>3, ToClientType, ConnChange
  <2>7. broker' \in [Conns -> BrokerRecords]
    BY <1>2, <1>7, <2>1, <2>5
  <2> QED
    BY <1>3, <1>13, <2>2, <2>6, <2>7 DEF BrokerPublish, BrokerTypeOK, BrokerRecords
<1>14. CASE BrokerClose(c)
  <2>1. /\ broker' = [broker EXCEPT ![c] = Gone(broker[c], "closed")]
        /\ conn' = [conn EXCEPT ![c] = ToClient(conn[c], << Fin >>)]
        /\ UNCHANGED <<clientVars, msgs_sent, acked>>
    BY <1>14 DEF BrokerClose
  <2>2. ConnTypeOK'
    BY <1>1, <1>6, <2>1, FinType, ToClientType, ConnChange
  <2> QED
    BY <1>3, <1>5, <1>7, <2>1, <2>2 DEF BrokerTypeOK, BrokerRecords
<1> QED
  BY <1>8, <1>9, <1>10, <1>11, <1>12, <1>13, <1>14 DEF Broker

\* Time passes.
LEMMA TickInv ==
  ASSUME Inv, Tick
  PROVE  Inv'
<1> USE DEF Inv, TypeOK
<1>1. ConnTypeOK' /\ QueueCounterExact'
  BY DEF Tick, ConnTypeOK, QueueCounterExact, queueVars
<1>2. /\ since_activity' \in 0 .. MaxAge /\ since_ping' \in 0 .. MaxAge
      /\ waited' \in 0 .. MaxAge
  BY OlderType DEF Tick, ClientTypeOK
<1>3. ClientTypeOK'
  BY <1>2 DEF Tick, ClientTypeOK, linkVars, connackVars, queueVars, rxVars,
              appVars
<1> QED
  BY <1>1, <1>3, BrokerUnchanged DEF Tick

----
(***************************************************************************)
(* Every step keeps the invariant.                                         *)
(***************************************************************************)
LEMMA NextInv == Inv /\ [Next]_vars => Inv'
<1> SUFFICES ASSUME Inv, [Next]_vars
             PROVE  Inv'
  OBVIOUS
<1>1. CASE Application
  BY <1>1, ApplicationInv
<1>2. CASE Waiting
  BY <1>2, WaitingInv
<1>3. CASE get_mqtt_packet
  BY <1>3, HandleAckInv, HandleReleaseInv, HandlePublishInv DEF get_mqtt_packet
<1>4. CASE Tick
  BY <1>4, TickInv
<1>5. CASE \E c \in Conns : Network(c) \/ Broker(c)
  BY <1>5, NetworkInv, BrokerInv
<1>6. CASE UNCHANGED vars
  <2>1. ConnTypeOK'
    BY <1>6 DEF vars, Inv, TypeOK, ConnTypeOK
  <2> QED
    BY <1>6, <2>1, ClientUnchanged, BrokerUnchanged DEF vars, Inv, TypeOK
<1> QED
  BY <1>1, <1>2, <1>3, <1>4, <1>5, <1>6 DEF Next

\* The invariant holds in every behaviour of the client, its connections and
\* the broker.
THEOREM InvAlways == Spec => []Inv
<1> QED
  BY InitInv, NextInv, PTL DEF Spec

\* Every variable keeps to its type, a slot to the states of the enum and to
\* the ids and contexts of the client.
THEOREM TypeCorrect == Spec => []TypeOK
<1>1. Inv => TypeOK
  BY DEF Inv
<1> QED
  BY <1>1, InvAlways, PTL

\* num_active_req is the number of slots in use after any call, packet, reset
\* or reconnection, for any length of the queue: is_request_queue_full
\* refuses a request exactly when there is no slot for it.
THEOREM CounterAlwaysExact == Spec => []QueueCounterExact
<1>1. Inv => QueueCounterExact
  BY DEF Inv
<1> QED
  BY <1>1, InvAlways, PTL

----
(***************************************************************************)
(* The conversations of the request queue follow the chains in the comment *)
(* at the top of src/MQTTClient/Src/mqtt_req_queue.c.                      *)
(***************************************************************************)
\* What ChainsFollowed asks of slot i when the queue becomes q.
Follows(i, q) ==
  \/ q.requests[i] = req_queue.requests[i]
  \/ /\ q.requests[i].conv_state \in Later(req_queue.requests[i].conv_state)
     /\ q.requests[i] = [req_queue.requests[i] EXCEPT
                            !.conv_state = q.requests[i].conv_state]

\* ChainsFollowed is Follows of the slots in use.
LEMMA ChainsAreFollows ==
  ASSUME \A i \in BusySlots(req_queue) : Follows(i, req_queue')
  PROVE  ChainsFollowed
BY DEF ChainsFollowed, Follows

\* Adding a request touches no slot in use.
LEMMA AddLeavesBusy ==
  ASSUME Inv, NEW req, NEW j \in BusySlots(req_queue)
  PROVE  mqtt_req_queue_add(req_queue, req).requests[j] = req_queue.requests[j]
<1> DEFINE i == FirstSlot(FreeSlots(req_queue))
<1>1. CASE FreeSlots(req_queue) = {}
  BY <1>1 DEF mqtt_req_queue_add
<1>2. CASE FreeSlots(req_queue) # {}
  <2>1. i \in Slots /\ i # j /\ j \in Slots
    BY <1>2, BusyAndFree, FirstSlotIn
  <2>2. req_queue.requests \in [Slots -> Requests]
    BY DEF Inv, TypeOK, ClientTypeOK, QueueOf
  <2>3. mqtt_req_queue_add(req_queue, req).requests
          = [req_queue.requests EXCEPT ![i] = req]
    BY <1>2 DEF mqtt_req_queue_add
  <2> QED
    BY <2>1, <2>2, <2>3
<1> QED
  BY <1>1, <1>2

\* An update changes the conversation state of one slot and nothing else.
LEMMA UpdateChanges ==
  ASSUME NEW q \in QueueOf(Requests), NEW state,
         NEW i \in Slots, NEW j \in Slots
  PROVE  mqtt_req_queue_update(q, state, i).requests[j] =
           IF j = i
           THEN [q.requests[j] EXCEPT !.conv_state = get_next_conv_state(state)]
           ELSE q.requests[j]
<1>1. q.requests \in [Slots -> Requests]
  BY DEF QueueOf
<1>2. mqtt_req_queue_update(q, state, i).requests =
        [q.requests EXCEPT
           ![i] = [q.requests[i] EXCEPT !.conv_state = get_next_conv_state(state)]]
  BY DEF mqtt_req_queue_update
<1> QED
  BY <1>1, <1>2

\* A request found moves one link on; the others stay.
LEMMA FindFollows ==
  ASSUME Inv, NEW p \in Packets, p.type \in AckTypes, Found(p) # {},
         NEW j \in BusySlots(req_queue)
  PROVE  /\ Follows(j, FindRequest(p))
         /\ j # FirstSlot(Found(p)) =>
              FindRequest(p).requests[j] = req_queue.requests[j]
         /\ j = FirstSlot(Found(p)) =>
              FindRequest(p).requests[j] =
                [req_queue.requests[j] EXCEPT
                   !.conv_state = get_next_conv_state(Awaited(p.type))]
<1> DEFINE i == FirstSlot(Found(p))
           next == get_next_conv_state(Awaited(p.type))
<1>1. /\ i \in Slots /\ j \in Slots /\ req_queue \in QueueOf(Requests)
      /\ req_queue.requests[i].conv_state = Awaited(p.type)
  BY FoundType, BusyAndFree DEF Inv, TypeOK, ClientTypeOK
<1>2. FindRequest(p) = mqtt_req_queue_update(req_queue, Awaited(p.type), i)
  BY DEF FindRequest, Found, mqtt_req_queue_find
<1>3. FindRequest(p).requests[j] =
        IF j = i THEN [req_queue.requests[j] EXCEPT !.conv_state = next]
        ELSE req_queue.requests[j]
  BY <1>1, <1>2, UpdateChanges
<1>4. next \in Later(Awaited(p.type))
  BY DEF get_next_conv_state, Later, Awaited, AckTypes
<1>5. req_queue.requests[j] \in Requests
  BY <1>1 DEF QueueOf
<1>6. [req_queue.requests[j] EXCEPT !.conv_state = next].conv_state = next
  BY <1>5 DEF Requests
<1>7. CASE j = i
  BY <1>1, <1>3, <1>4, <1>6, <1>7 DEF Follows
<1>8. CASE j # i
  BY <1>3, <1>8 DEF Follows
<1> QED
  BY <1>7, <1>8

\* The answer to a PUBREC or PUBREL moves the slot found one more link on.
LEMMA ReleaseFollows ==
  ASSUME Inv, NEW p \in Packets, Found(p) # {},
         NEW type \in {"PUBREC", "PUBREL"}, p.type = type,
         NEW state, state = IF type = "PUBREC" THEN "SENDING_PUBREL"
                            ELSE "SENDING_PUBCOMP",
         NEW j \in BusySlots(req_queue)
  PROVE  Follows(j, mqtt_req_queue_update(FindRequest(p), state,
                                          FirstSlot(Found(p))))
<1> DEFINE i == FirstSlot(Found(p))
           next == get_next_conv_state(state)
           found == get_next_conv_state(Awaited(type))
           r == req_queue.requests[j]
           u == mqtt_req_queue_update(FindRequest(p), state, i)
<1>1. p.type \in AckTypes
  BY DEF AckTypes
<1>2. /\ i \in Slots /\ j \in Slots /\ FindRequest(p) \in QueueOf(Requests)
      /\ req_queue \in QueueOf(Requests)
      /\ req_queue.requests[i].conv_state = Awaited(type)
  BY <1>1, FoundType, BusyAndFree DEF Inv, TypeOK, ClientTypeOK
<1>3. u.requests[j] =
        IF j = i THEN [FindRequest(p).requests[j] EXCEPT !.conv_state = next]
        ELSE FindRequest(p).requests[j]
  BY <1>2, UpdateChanges
<1>4. CASE j # i
  BY <1>1, <1>3, <1>4, FindFollows DEF Follows
<1>5. CASE j = i
  <2>1. FindRequest(p).requests[j] = [r EXCEPT !.conv_state = found]
    BY <1>1, <1>5, FindFollows
  <2>2. r \in Requests
    BY <1>2 DEF QueueOf
  <2>3. u.requests[j] = [[r EXCEPT !.conv_state = found] EXCEPT !.conv_state = next]
    BY <1>3, <1>5, <2>1
  <2>4. u.requests[j] = [r EXCEPT !.conv_state = next]
    BY <2>2, <2>3 DEF Requests
  <2>5. u.requests[j].conv_state = next
    BY <2>2, <2>4 DEF Requests
  <2>6. next \in Later(Awaited(type))
    BY DEF get_next_conv_state, Later, Awaited
  <2> QED
    BY <1>2, <1>5, <2>4, <2>5, <2>6 DEF Follows
<1> QED
  BY <1>4, <1>5

\* A PUBLISH kept uses a slot that was free: the others stay, whether the
\* answer is sent or not.
LEMMA KeptFollows ==
  ASSUME Inv, NEW p \in Packets, ~Discarded(p),
         NEW state \in ConvStates, state # "NO_REQUEST",
         NEW j \in BusySlots(req_queue)
  PROVE  /\ Follows(j, Kept(p, state))
         /\ Follows(j, mqtt_req_queue_update(Kept(p, state), state, AddedAt))
<1>1. Kept(p, state).requests[j] = req_queue.requests[j]
  BY AddLeavesBusy DEF Kept
<1>2. /\ Kept(p, state) \in QueueOf(Requests)
      /\ AddedAt \in Slots /\ j \in Slots /\ AddedAt # j
  BY KeptType, BusyAndFree
<1>3. mqtt_req_queue_update(Kept(p, state), state, AddedAt).requests[j] =
        IF j = AddedAt
        THEN [Kept(p, state).requests[j] EXCEPT
                !.conv_state = get_next_conv_state(state)]
        ELSE Kept(p, state).requests[j]
  BY <1>2, UpdateChanges
<1> QED
  BY <1>1, <1>2, <1>3 DEF Follows

\* Every step moves the slots in use along the chains.
LEMMA NextFollows == Inv /\ [Next]_vars => ChainsFollowed
<1> SUFFICES ASSUME Inv, [Next]_vars, NEW j \in BusySlots(req_queue)
             PROVE  Follows(j, req_queue')
  BY ChainsAreFollows
<1> DEFINE p == Head(rx)
<1>1. CASE UNCHANGED req_queue
  BY <1>1 DEF Follows
<1>2. CASE \E type, qos, state : Request(type, qos, state)
  BY <1>2, AddLeavesBusy DEF Request, Follows
<1>3. CASE rx # <<>> /\ p.type \in AckTypes /\ Found(p) # {}
           /\ req_queue' = FindRequest(p)
  BY <1>3, PacketTypesKept, FindFollows
<1>4. CASE HandlePubrec \/ HandlePubrel
  <2>1. /\ rx # <<>> /\ Found(p) # {}
        /\ HandlePubrec => p.type = "PUBREC"
        /\ HandlePubrel => p.type = "PUBREL"
    BY <1>4 DEF HandlePubrec, HandlePubrel, Receiving
  <2>2. p \in Packets /\ p.type \in AckTypes
    BY <1>4, <2>1, PacketTypesKept DEF AckTypes
  <2>3. \/ req_queue' = FindRequest(p)
        \/ /\ HandlePubrec
           /\ req_queue' = mqtt_req_queue_update(FindRequest(p),
                             "SENDING_PUBREL", FirstSlot(Found(p)))
        \/ /\ HandlePubrel
           /\ req_queue' = mqtt_req_queue_update(FindRequest(p),
                             "SENDING_PUBCOMP", FirstSlot(Found(p)))
    BY <1>4 DEF HandlePubrec, HandlePubrel, Answer, AnswerDoesNotFit
  <2>4. CASE req_queue' = FindRequest(p)
    BY <2>1, <2>2, <2>4, FindFollows
  <2>5. CASE /\ HandlePubrec
             /\ req_queue' = mqtt_req_queue_update(FindRequest(p),
                               "SENDING_PUBREL", FirstSlot(Found(p)))
    <3>1. p.type = "PUBREC"
      BY <2>1, <2>5
    <3>2. Follows(j, mqtt_req_queue_update(FindRequest(p), "SENDING_PUBREL",
                                           FirstSlot(Found(p))))
      BY <2>1, <2>2, <3>1, ReleaseFollows
    <3> QED
      BY <2>5, <3>2
  <2>6. CASE /\ HandlePubrel
             /\ req_queue' = mqtt_req_queue_update(FindRequest(p),
                               "SENDING_PUBCOMP", FirstSlot(Found(p)))
    <3>1. p.type = "PUBREL"
      BY <2>1, <2>6
    <3>2. Follows(j, mqtt_req_queue_update(FindRequest(p), "SENDING_PUBCOMP",
                                           FirstSlot(Found(p))))
      BY <2>1, <2>2, <3>1, ReleaseFollows
    <3> QED
      BY <2>6, <3>2
  <2> QED
    BY <2>3, <2>4, <2>5, <2>6
<1>5. CASE HandlePublishQos1 \/ HandlePublishQos2
  <2>1. rx # <<>> /\ ~Discarded(p)
    BY <1>5 DEF HandlePublishQos1, HandlePublishQos2, Receiving
  <2>2. p \in Packets
    BY <2>1, PacketTypesKept
  <2>3. PICK state \in {"SENDING_PUBACK", "SENDING_PUBREC"} :
          \/ req_queue' = Kept(p, state)
          \/ req_queue' = mqtt_req_queue_update(Kept(p, state), state, AddedAt)
    BY <1>5 DEF HandlePublishQos1, HandlePublishQos2, Answer, AnswerDoesNotFit
  <2> QED
    BY <2>1, <2>2, <2>3, KeptFollows DEF ConvStates
<1>6. CASE Application
  <2>1. UNCHANGED req_queue \/ \E type, qos, state : Request(type, qos, state)
    BY <1>6 DEF Application, MQTTClient_connect, ConnectMemoryErr,
           ConnectTcpFailure, MQTTClient_publish, PublishQos0,
           MQTTClient_subscribe, MQTTClient_unsubscribe,
           MQTTClient_disconnect, MQTTClient_loop, queueVars
  <2> QED
    BY <1>1, <1>2, <2>1
<1>7. CASE Waiting \/ Tick
  BY <1>1, <1>7 DEF Waiting, wait_for_connack, LoopNotConnected,
     mqtt_handle_keepalive, mqtt_handle_timeout_on_ping, PingProcessed, Tick,
     queueVars
<1>8. CASE get_mqtt_packet
  <2>1. CASE HandleConnack \/ HandlePingresp \/ HandlePublishDiscarded
             \/ HandlePublishQos0 \/ RequestNotFound
    BY <1>1, <2>1 DEF HandleConnack, HandlePingresp, HandlePublishDiscarded,
       HandlePublishQos0, RequestNotFound, queueVars
  <2>2. CASE HandlePuback \/ HandlePubcomp \/ HandleSuback \/ HandleUnsuback
    BY <1>3, <2>2 DEF HandlePuback, HandlePubcomp, HandleSuback,
       HandleUnsuback, HandleLastAck, Receiving, AckTypes
  <2> QED
    BY <1>4, <1>5, <1>8, <2>1, <2>2 DEF get_mqtt_packet
<1>9. CASE \E c \in Conns : Network(c) \/ Broker(c)
  <2>1. PICK c \in Conns : Network(c) \/ Broker(c)
    BY <1>9
  <2>2. CASE Network(c)
    BY <1>1, <2>2 DEF Network, tcp_connected_cb, tcp_received_cb,
       tcp_received_cb_closed, DataAfterClose, tcp_error_cb, clientVars,
       queueVars
  <2>3. CASE Broker(c)
    BY <1>1, <2>3 DEF Broker, BrokerConnect, BrokerReceive,
       BrokerDisconnected, BrokerIgnores, BrokerReply, BrokerPublish,
       BrokerClose, clientVars, queueVars
  <2> QED
    BY <2>1, <2>2, <2>3
<1>10. CASE UNCHANGED vars
  BY <1>1, <1>10 DEF vars, clientVars, queueVars
<1> QED
  BY <1>6, <1>7, <1>8, <1>9, <1>10 DEF Next

\* Until it ends, a conversation keeps its packet id and context and moves
\* along its chain, through any packet order, partial failure or
\* reconnection; one that failed while sending does not move again.
THEOREM ChainsAlwaysFollowed == Spec => SlotsFollowTheChains
<1>1. Inv /\ [Next]_vars => [ChainsFollowed]_vars
  BY NextFollows
<1> QED
  BY <1>1, InvAlways, PTL DEF Spec, SlotsFollowTheChains

====
