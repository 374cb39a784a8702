---- MODULE MqttReqQueue ----
(***************************************************************************)
(* The request queue of src/MQTTClient/Src/mqtt_req_queue.c: a fixed array *)
(* of slots, each one conversation with the broker, and a counter of the   *)
(* slots in use.  A queue is a record with the two members of struct       *)
(* mqtt_req_queue_t; the C functions become operators from queues to       *)
(* queues.  What a function returns through idx_at_added or idx_at_found   *)
(* is FirstSlot of the set of slots its loop is looking for.               *)
(***************************************************************************)
EXTENDS Integers, FiniteSets

CONSTANT MQTT_REQUESTS_QUEUE_LEN

\* The slots are counted, and indexed, by a uint8_t.
ASSUME QueueLenAssumption == MQTT_REQUESTS_QUEUE_LEN \in 1 .. 255

Slots == 0 .. MQTT_REQUESTS_QUEUE_LEN - 1

\* enum mqtt_conv_state_t, without its MQTT_ prefix.
ConvStates ==
  { "NO_REQUEST",
    "WAITING_FOR_PUBACK", "WAITING_FOR_SUBACK", "WAITING_FOR_UNSUBACK",
    "WAITING_FOR_PUBREC", "SENDING_PUBREL", "WAITING_FOR_PUBCOMP",
    "SENDING_PUBACK", "SENDING_PUBREC", "WAITING_FOR_PUBREL",
    "SENDING_PUBCOMP" }

\* The packet ids and contexts are the client's affair: see Requests there.
QueueOf(Requests) ==
  [ requests : [Slots -> Requests], num_active_req : 0 .. 255 ]

get_next_conv_state(s) ==
  CASE s = "WAITING_FOR_PUBREC" -> "SENDING_PUBREL"
    [] s = "SENDING_PUBREL"     -> "WAITING_FOR_PUBCOMP"
    [] s = "SENDING_PUBREC"     -> "WAITING_FOR_PUBREL"
    [] s = "WAITING_FOR_PUBREL" -> "SENDING_PUBCOMP"
    [] OTHER                    -> "NO_REQUEST"

NoRequest == [ packet_id |-> 0, context |-> 0, conv_state |-> "NO_REQUEST" ]

\* memset to 0: every slot free, packet id 0.
mqtt_req_queue_init ==
  [ requests |-> [i \in Slots |-> NoRequest], num_active_req |-> 0 ]

FreeSlots(q) == { i \in Slots : q.requests[i].conv_state = "NO_REQUEST" }
BusySlots(q) == { i \in Slots : q.requests[i].conv_state # "NO_REQUEST" }
\* Mutant: the packet id is not compared.
SlotsInState(q, state, id) ==
  { i \in Slots : q.requests[i].conv_state = state }
SlotsMatching(q, state, id) ==
  { i \in Slots : /\ q.requests[i].conv_state = state
                  /\ q.requests[i].packet_id = id }

\* The loops run from slot 0 upwards and stop at the first hit.
FirstSlot(S) == CHOOSE i \in S : \A j \in S : i <= j

\* num_active_req is a uint8_t.
Incremented(n) == IF n = 255 THEN 0 ELSE n + 1
Decremented(n) == IF n = 0 THEN 255 ELSE n - 1

is_request_queue_full(q) == q.num_active_req = MQTT_REQUESTS_QUEUE_LEN

\* Without a free slot the request is dropped: the caller never looks at the
\* returned false.
mqtt_req_queue_add(q, req) ==
  IF FreeSlots(q) = {} THEN q
  ELSE [ requests |-> [q.requests EXCEPT ![FirstSlot(FreeSlots(q))] = req],
         num_active_req |-> Incremented(q.num_active_req) ]

\* Mutant: the slot is counted as free at every move.
UpdateAlwaysDecrements(q, state, i) ==
  [ requests |->
      [q.requests EXCEPT ![i].conv_state = get_next_conv_state(state)],
    num_active_req |-> Decremented(q.num_active_req) ]

\* Slot i moves on from the conversation state the caller names.
mqtt_req_queue_update(q, state, i) ==
  [ requests |->
      [q.requests EXCEPT ![i].conv_state = get_next_conv_state(state)],
    num_active_req |-> IF get_next_conv_state(state) = "NO_REQUEST"
                       THEN Decremented(q.num_active_req)
                       ELSE q.num_active_req ]

\* Mutant: finding a request does not move it on.
FindOnly(q, state, id) == q

\* Finding a request also moves it on.
mqtt_req_queue_find(q, state, id) ==
  IF SlotsMatching(q, state, id) = {} THEN q
  ELSE mqtt_req_queue_update(q, state, FirstSlot(SlotsMatching(q, state, id)))

(***************************************************************************)
(* What the client relies on: the counter is the number of slots in use,   *)
(* so is_request_queue_full is exact and an add behind it cannot fail.     *)
(***************************************************************************)
CounterExact(q) == q.num_active_req = Cardinality(BusySlots(q))

====
