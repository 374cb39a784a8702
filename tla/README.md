# Verification of the MQTT client

TLA+ models, TLC runs and TLAPS proofs for the MQTT 3.1.1 client of this
repository (`src/MQTTClient`, `src/TCPConnectionRaw`). The client is a library
for a microcontroller without an operating system: one thread, a fixed queue of
conversations with the broker, lwIP's raw API underneath, and a polled Ethernet
driver at the bottom. The models follow a packet all the way: from the call of
the API into lwIP's send queue, through the rings of the Ethernet controller,
and back through lwIP's reassembly into the callback.

## 1. The system

| part | state | operations | interacts by |
|---|---|---|---|
| request queue (`mqtt_req_queue.c`) | slots with packet id, context, conversation state; counter of slots in use | `init`, `add`, `find`, `update`, the full test in `mqtt_validate.c` | called by the API and by packet reception |
| client API and keep-alive (`mqtt_client.c`) | connected flag, pcb pointer, CONNACK and its flag, last packet id, time stamps, pong flag | `init`, `connect`, `publish`, `subscribe`, `unsubscribe`, `disconnect`, `loop` | calls the encoders and `MX_LWIP_Process`, in which lwIP calls back |
| packet reception (`mqtt_receive.c`) | none of its own | `get_mqtt_packet`, a branch for each packet type | called from `tcp_received_cb`; changes the client, sends answers, calls the application |
| TCP glue (`tcp_connection_raw.c`) | `bytes_left` of the segment being handled | `connected`, `received`, `error` and `poll` callbacks; `get_pcb`, `write`, `output`, `close` | between lwIP and the client |
| encoders, senders (`mqtt_encode.c`, `mqtt_send.c`) | last packet id | one function for each packet type | called by the API and by reception |
| decoders, helpers (`mqtt_decode.c`, `mqtt_helpers.c`) | none | header, one decoder for each packet type | called by reception |
| contexts (`mqtt_context.c`) | none | copies of topic and payload | kept in the slots |
| example (`Core/Src/main.c`) | | connect, publish, subscribe, loop | calls the API |
| lwIP, sending (`tcp_out.c`, `tcp_in.c`) | unsent and unacked segments, send buffer, count of pbufs, heap | `tcp_write`, `tcp_output`, acknowledgement, retransmission timeout | written to piece by piece by the senders |
| lwIP, receiving (`tcp_in.c`, `tcp.c`) | `rcv_nxt`, queue of early segments, window and announced window | `tcp_receive`, `tcp_recved` | calls `tcp_received_cb` with a chain of pbufs |
| Ethernet driver (`ethernetif.c`, HAL) | two rings of descriptors, position in each, the frame being read | `low_level_input`, `low_level_output` and the HAL functions they call | shares the rings with the DMA, polled by `MX_LWIP_Process` |
| the rest of lwIP, HAL, CMSIS, RTT | | | vendor and generated code |

What is hard here is not in any one function. lwIP calls back in the middle of
`connect` and of `loop`, for the pcb in use and for those left behind; one
client structure outlives its connections; a conversation is spread over
several packets, whose answers may find no room; acknowledgements are matched
by state and packet id alone while both sides choose ids; two timeouts race the
answers they wait for. Below the client, segments are lost, repeated, cut anew
and overtake each other, memory runs out between two pieces of a packet, and a
DMA changes descriptors beside the processor. `PROJECT.json` lists these hazards line by line.

What makes each part correct:

* the queue: its counter is the number of slots in use, and a conversation keeps
  its id and context and moves along its chain;
* reception: an acknowledgement finds the one slot it is meant for; a message
  reaches the application once, and before the broker is told that it is safe;
  a request is reported complete once;
* the API: calls return, requests finish, a dead connection is noticed;
* the connection's life: success of `connect` means an accepting broker, and
  nothing of an old connection decides on a new one;
* the wire: a packet is queued as long as it was announced, and all of it;
  lwIP's counters agree with its queues; what waits for room is sent later;
* reassembly: the client gets the bytes in order and once, the window is given
  back, and the loop over a buffer finds each packet in it;
* the driver: frames go up and out whole, in order and once, every buffer comes
  back, and neither direction stops for good.

Over all of it stands the promise to the application (`MqttPromise`): a request
is reported at most once and while it is open, a message is delivered at most
once, and no more is open or kept than the queue has room for.

## 2. The modules

```
MqttReqQueue   TcpConnection      operators on queues; pcbs and lwIP's promises
        \       /
        MqttClient                the client: API, waits, packets, callbacks
            |
        MqttBroker                the far end (external)
            |
        MqttSystem ----------->   composition, fairness, properties; implements
            |                     MqttPromise, the abstract specification
        MqttSystemProofs          types, counter, chains
            |
        MqttPromiseProofs         the refinement
            |
        MqttDeliveryProofs        what the broker was told is safe was delivered
            |
        MqttAnswersProofs         acknowledgements and requests find each other

Sums, SumsProofs                  totals and joined pieces, and the induction
MqttLength                        that says what they are; the digits of the
     |                            remaining length; used by the next two
     |
     +-- TcpSendQueue             lwIP's queues for sending, as operators
     |        |
     |    MqttWire                encoders and senders on top of it
     |        |
     |    MqttWireProofs          all of it, for any packets, heap and queue
     |
     +-- TcpReceive               reassembly, window, the loop of the callback
              |
          TcpReceiveProofs        all of it, for any window and stream

EthDriver                         descriptor rings, processor and DMA
     |
  EthDriverProofs                 both rings, for any size
```

`MqttSystem` rests on what the lower modules show. Its connections deliver
packets whole and in order (`MqttWire`, `TcpReceive`), and frames come up while
they are polled (`EthDriver`). Where a lower layer does not keep that up, as when
memory runs out or a packet comes in pieces, section 4 has a finding.

The instances are small sets and numbers, so each `.cfg` gives the constants of
`MqttSystem` their values directly.

**MqttReqQueue.** A queue is a record with the members of
`struct mqtt_req_queue_t`; the C functions are operators from queue to queue.
The index a function returns through a pointer is `FirstSlot` of the set its
loop looks for. The counter wraps like the `uint8_t` it is.

**TcpConnection.** A pcb is a connection with the packets on their way to the
broker (`out`) and to the client (`in`). Packets are whole, in order, and not
lost while the connection lives. A pcb is `freed` when lwIP has let go of it; the
client may still point to it, and what it then reads there is any value
(`is_output_buffer_full` is a *set* of possible answers). Writing to or closing
a freed pcb is taken to have no effect: the model does not follow memory
corruption. The output buffer is measured in packets.

**MqttClient.** The control point `pc` says where the thread is: in the
application, or in `connect` or `loop` while `MX_LWIP_Process` runs. Callbacks
are possible in those states only, one packet a step, and the test that ends a
wait is a step of its own, so answers and timeouts race. Time stamps are kept
as ages (what the code computes by subtraction), which stop at `MaxAge`. With
`MaxAge = 0` (`session`, `messages`) ages stay 0 and no
keep-alive comes up: pings and their timeout belong to `lifecycle`, where time
runs. `rx` is the segment being handled and `rx_first` tells the call of
`get_mqtt_packet` before the loop in `tcp_received_cb` from those inside it,
which differ when a packet fails. The contexts (topics, payloads) are numbers:
`1 .. MaxRequests` for requests, `1 .. MaxMsgs` for messages of the broker;
`completed` and `delivered` count the callbacks. Each branch of
`get_mqtt_packet` is an action; where an answer is sent there are two outcomes,
`Answer` and `AnswerDoesNotFit`. API calls that return an error and change
nothing are stuttering steps. The number in an acknowledgement (`body`) is read
by the properties only.

**MqttBroker.** An MQTT 3.1.1 broker: accepts or refuses, answers each packet
once in any order, publishes to a subscriber with an id of its own choosing,
forgets the session with the connection, may close. It takes a packet together
with the client's lwIP hearing of it, because the output buffer gets room only
while frames are processed.

**MqttSystem.** `Next` lets the application, the waits, reception, each
connection, the broker and the clock take steps. `Promise` instantiates
`MqttPromise` with a refinement mapping: open requests and kept messages are the
contexts of the slots in use, in the states of either kind; reports and
deliveries are the callbacks counted.

**MqttPromise.** Requests are asked for, reported or finished; messages are
kept, received or released; `Room` is all it knows of the queue. It has no
packets, ids, connections or broker, so whatever these do must be a step of it
or a stutter.

**Sums.** `Total` adds lengths up and `Flattened` joins pieces, as the loops
over segments and pbufs do. Both are recursive functions, so that they can be
proved about.

**MqttLength.** The digits of the remaining length: how many the client takes a
length to have (`get_digits_remaining_len`, a table), and how many are written
and read (`encode_remaining_len`, a loop). Encoders and reception both depend on
the two agreeing.

**TcpSendQueue.** A segment is its length, its number of pbufs and the heap they
take; a pcb is a record with the members of `struct tcp_pcb` that matter for
sending. `tcp_write` follows the three phases of the function: the room left in
the last buffer, a buffer added to the last segment, new segments; it queues
all or nothing. `tcp_output` sends a prefix of the unsent segments as the
congestion window and Nagle allow; the SYN takes a number of the window and no
byte. Block headers and alignment of `mem.c` and
`pbuf.c` are counted. Its assumptions are what `lwip_init` refuses to start
without: a send buffer of two segments and a queue of two pbufs (`init.c:299`,
`init.c:157`). `SynAssumption` adds a heap that has room for the SYN, without
which `tcp_connect` fails and no connection exists. Simplified: the broker's window is larger than the send
buffer, an acknowledgement covers whole segments, there is no fast retransmit,
and the heap is neither fragmented nor used by others, each of which would
leave less room, not more.

**MqttWire.** Each encoder is a record of the length it announces
(`mqtt_encode.c`) and the lengths its senders write (`mqtt_send.c`); the two are
computed by different functions in the code and here. `Send` is the test of the
output buffer, the writes one by one, and `tcp_output`. Answers are written
inside of `tcp_input` ("receiving"), where `tcp_output` does nothing
(`tcp_out.c:1258`): any number of them wait for the end of the segment. Without
room for one the client closes ("given_up"). `whole` remembers
whether the last packet put on the queue what it announced.

**TcpReceive.** A byte of the broker's stream is its number. A segment is any
interval of it that keeps to the window the broker was told of; it may come any
number of times, in any order, cut in any way, with the FIN at the end.
`BeforeQueue` is `tcp_oos_insert_segment` and its twin for segments in
sequence, `Queued` the search for the place of an early one. `tcp_received_cb`
gives back the window first and then walks over the data with `bytes_left`,
one packet a step; each packet may fail (`get_mqtt_packet_fails`), which closes
(`tcp_close`, with a FIN or, with window not given back, a RST), and ends the
callback if it was the first packet, but leaves `bytes_left` as it was if it was a
later one. `in_pieces` remembers whether a callback was ever given a
chain or part of a packet; then the code reads beyond the first pbuf and
`bytes_left` wraps around. From there on (`get_mqtt_packet_beyond`, `astray`) the
callback may do anything: go on for ever, close, or return. A segment that finds
no memory is a lost one. Segments beyond the window, which a correct broker
does not send, and those that come after the client has closed are left out.

**EthDriver.** Each descriptor has its OWN bit, its FS and LS bits and what is
in its buffer. `step` is where the processor is between two looks at the rings,
and the DMA takes its steps in between: it fills or sends a buffer, or suspends
at a descriptor it does not own and raises RBUS or TBUS. A frame fills one or
two buffers of 1524 bytes, because the watchdog ends it at 2048; when it meets a
descriptor it does not own inside a frame it closes the frame there with an
error (`RxCut`). The driver does not look at error bits, so a cut frame goes up
and lwIP's checksums must refuse it. Reception is polled and no interrupt is
enabled. The TUS branch of `low_level_output` is left out: with store and
forward (`stm32f4xx_hal_eth.c:2004`) there is no underflow.

## 3. The runs

`session`, `messages`, `reconnect`, `lifecycle` and the four `stale_...`,
`endless_segment` and `packet_id_reuse` check `MqttSystem`; `wire`
and `partial_write` check `MqttWire`, `reassembly` checks `TcpReceive`, `ethernet`
checks `EthDriver`.

| run | shows | bounds |
|---|---|---|
| `session` | types, exact counter, acknowledgements find their slot, every busy slot awaits exactly one packet, acknowledged means delivered, completed once, chains, the promise kept, `RequestsFinish` | 1 connection, 2 slots (as in `mqtt_config.h`), 3 requests of the kinds that take a slot, 1 message, ids 1..3, room for 2 packets |
| `messages` | the same for inbound traffic: 3 messages, one too long | 2 requests, ids 1..2, so the ids of both sides coincide |
| `reconnect` | counter, acknowledgements, completion and the promise across connections | 2 connections, resets, closes and failing connects; QoS 0 publishes too |
| `lifecycle` | `CallsReturn`, `DeadConnectionNoticed` | 2 connections, time up to 2, one slot and one QoS 2 publish, whose PUBREC may come behind another packet and fail |
| `wire` | `SpareKeepsWhole`, `BooksBalance`, `SegmentsFit`, `HeldDataAwaitsAck` | lwIP's own MSS, send buffer, queue length and heap; CONNECT of 131 (remaining length 128, the first of two digits) and 615 bytes, without optional strings, publishes of 67 and 69 bytes; 1 request, 2 answers, 1 timeout, any number of QoS 0 publishes |
| `reassembly` | `DeliveredInOrder`, `WindowRestored`, `HandledAsSent`, `OrderlyClose`, `CallbackReturns`, `StreamEnds` | segments of up to 131 bytes and a window of two, streams of up to 2 packets of 2, 4, 5 or 131 bytes (two digits of length), cut before any of the first six bytes but the second, inside of the long packet and behind it |
| `ethernet` | `FramesAreWhole`, `FramesInOrder`, `SentAsAccepted`, `BuffersReturn`, `ReceptionResumes`, `AcceptedAreSent` | rings of 2, 3 frames in and 3 out, 1 or 2 buffers each |
| `stale_connack`, `endless_segment`, `stale_session`, `packet_id_reuse`, `partial_write` | the disagreements of section 4 | |

Why the bounds are enough: the queue has two slots, so three requests reach the
full queue and a slot used again; two packets in a segment reach the first and
a later call of `get_mqtt_packet`; an output buffer of two or three packets
fills up; two connections make an old one and a new one. A third connection, or
more messages than ids, would only repeat these. The sizes of `wire` are those
of the build, so no case of `tcp_write` is scaled away, and the state space is
finite without a bound on publishes; one request, two answers and one timeout are
bounds of cost, and what `wire` shows of its heap is shown for no more of them.
The second answer is the one written inside of the same segment. A third of
`reassembly`'s streams do not fit in one segment, early segments wait in a queue
of up to seven, and a window of twice the segment makes the announced one lag
behind. Its segment is as long as its longest packet, so that PUBLISH comes
whole too; short packets come whole, alone or two to a segment, so that a later
packet of a segment fails. In `lifecycle` the slot of a
lost connection is taken by the PUBREC it waited for, or a PUBREC finds none, first
or second in its segment: without the condition of `CallsReturn` the run fails. In `ethernet` a frame of two buffers
fills the ring, so rings of 2 reach every mix of full, cut and dropped that
rings of 4 do, and three frames are enough for one to follow a cut one.

`AckFindsItsRequest` and `SlotAwaitsOnePacket` are stated while the connection
is up (`IsUp`, `Live`): slots of a lost connection wait for nothing. In `session` and
`reconnect` the ids do not wrap around; that they may be used again too early
is the finding `packet_id_reuse`. In `messages` the client makes no more than
`MaxPacketId` requests.

**Fairness** (`FairSpec`). The application calls `MQTTClient_loop` again and
again, as `main.c` does; a call whose wait is over returns; the packets of a
segment are handled; time passes (`HAL_GetTick` counts in an interrupt); lwIP
hands over what the network brings. Frames arrive only while they are
processed, so a delivery is not enabled for good and gets strong fairness. The
broker takes what it is sent and answers. Nothing forces a request, nor the
broker to accept, publish or close, nor a connection to be reset.

`RequestsFinish` is checked with an output buffer that may be full: an answer
that does not fit closes the connection, an outcome the property allows.

`EthLiveSpec`: `MX_LWIP_Process` comes to `low_level_input` in every round of
the main loop, whatever is sent in between, so reading a descriptor gets strong
fairness; the driver's functions run to their end and the DMA does not stop
while it owns a descriptor. Frames need not arrive: a suspended reception must be
resumed by the driver, not by the next frame.

`CallsReturn` has a condition, `[]<>(rx = <<>>)`: the loop over the packets of a
segment comes to its end again and again. Fairness cannot give that, because the
loop goes on for ever over a packet that fails behind the first one
(`endless_segment`); everything else that could keep `connect` or `loop` from
returning is in the run.

`ReceiveLiveSpec`: the broker sends again what was not acknowledged and does not
lose it for ever, so a segment that begins at `rcv_nxt` arrives in the end
(strong fairness, because a callback under way delays it); acknowledgements are
sent; a callback begins, and its loop goes on as long as packets are whole and
succeed (weak fairness). Nothing is assumed of a loop whose packet has failed, or
that reads beyond its pbuf: it may never end. So `CallbackReturns` is about the
others, and `StreamEnds` has the condition that callbacks return.

## 4. Disagreements

* `stale_connack`: `connack_resp_available` is never cleared
  (`mqtt_client.c:111`). A second `connect` returns success on the first one's
  CONNACK.
* `endless_segment`: `get_mqtt_packet` leaves `bytes_left` alone on an error
  (`tcp_connection_raw.c:26`). For any packet but the first of a segment the
  loop in `tcp_received_cb` never ends.
* `stale_session`: `connect` asks for a clean session and keeps the queue
  (`mqtt_client.c:90`). A slot left in `WAITING_FOR_PUBREL` takes the PUBREL of
  the next session.
* `packet_id_reuse`: `get_packet_id` does not look for ids in use
  (`mqtt_encode.c:64`). The run scales 65535 down to 2.
* `partial_write`: the results of `tcp_write` are dropped
  (`tcp_connection_raw.c:90`). The test of the output buffer is for bytes, the
  heap of 1600 bytes ends earlier: eight unacknowledged publishes of 67 bytes
  leave room for part of a ninth, whose call returns `MQTT_SUCCESS`. It does not
  happen to a packet that finds two full buffers free (`wire`).
* Without a run: the loop of `tcp_received_cb` takes a chain of pbufs, or a part
  of a packet, for one buffer of whole packets (`tcp_connection_raw.c:17`,
  `mqtt_receive.c:163`); the will QoS is shifted by 4 (`mqtt_encode.c:39`).

## 5. The proofs

For all values of the constants, from the assumptions `QueueLenAssumption`
(1 to 255 slots: a `uint8_t` indexes and counts them), `TcpAssumption`,
`ClientAssumption` (bounds are numbers) and `SystemAssumption`; below the
client, from the assumptions named:

* `TypeCorrect`: `Spec => []TypeOK`;
* `CounterAlwaysExact`: `Spec => []QueueCounterExact`;
* `ChainsAlwaysFollowed`: `Spec => SlotsFollowTheChains`;
* `CompletedOnceAlways`: `Spec => []CompletedOnce`;
* `PromiseAlwaysKept`: `Spec => PromiseKept`, the refinement;
* `AckedWasDeliveredOnOneConnection`: `MaxConnects = 1` gives
  `Spec => []AckedWasDelivered`;
* `IdsDifferUntilTheyStartAgain`: `MaxRequests <= MaxPacketId` gives
  `Spec => []PacketIdsDiffer`, over any number of connections;
* `AcksFindTheirRequests`, `SlotsAwaitOnePacket`: `MaxConnects = 1` gives
  `Spec /\ []PacketIdsDiffer => []AckFindsItsRequest`, and the same for
  `SlotAwaitsOnePacket`;
* `OneSessionIsAnswered`: the three together, for a session of at most
  `MaxPacketId` requests (65535 in the code);
* `TransmitRingCorrect`: `EthSpec => []SentAsAccepted`, from `EthAssumption`;
* `ReceivedFramesAreWhole`, `ReceivedFramesInOrder`, `EthTypesCorrect`:
  `EthSpec => []FramesAreWhole`, `[]FramesInOrder`, `[]EthTypeOK`, likewise;
* `BytesDeliveredInOrder`, `WindowIsRestored`, `PacketsHandledAsSent`,
  `ReceiveTypesCorrect`: `ReceiveSpec => []DeliveredInOrder`, `[]WindowRestored`,
  `[]HandledAsSent`, `[]ReceiveTypeOK`, and `FinAnsweredWithFin`:
  `ReceiveSpec => OrderlyClose`, from `ReceiveAssumption` (a window of at
  least two segments and of 16 bits, lengths of four digits);
* `BooksAlwaysBalance`, `SegmentsAlwaysFit`, `NothingHeldForGood`,
  `WireTypesCorrect`: `WireSpec => []BooksBalance`, `[]SegmentsFit`,
  `[]HeldDataAwaitsAck`, `[]WireTypeOK`, from `SendQueueAssumption`,
  `SynAssumption` and `WireAssumption` (lengths are numbers);
* `PacketsStayWhole`: `WireSpec /\ [][~SomethingRefused]_wireVars => []PacketsWhole`,
  and `CutOnlyByRefusal`, the same of each step, for packets below 64 KB
  (`PacketsShort`);
* `SpareKeepsPacketsWhole`: `WireSpec => SpareKeepsWhole`, for packets below
  64 KB that have at most `TCP_MSS` bytes (536 in the build; only a CONNECT or a
  PUBLISH of long strings has more).

The inductive invariant of the first three is `Inv == TypeOK /\ QueueCounterExact`. Neither half
is enough: without the counter, a `PUBLISH` taken behind the full test might
find no free slot, and the update that follows would change a slot nobody
chose; without the types, the counter's wrap at 255 could not be excluded.
The argument has two layers.

1. About queues alone (the first section of `MqttSystemProofs`). The loops stop at a member of the
   set they look for (`FirstSlotIn`, from the well-foundedness of strict subsets
   of a finite set); free and busy slots divide the queue (`BusyAndFree`); the
   full test is exact (`NotFullHasFreeSlot`); `add`, `update` of a slot in use,
   and `find` keep the counter exact (`AddExact`, `UpdateExact`, `FindExact`).
2. About steps. Each action changes the queue by one of
   those operators, applied where its lemma's condition holds: `KeptType` gives
   a free slot behind the full test, `FoundType` says that the slot found for a
   PUBREC or PUBREL is still in use when its answer is sent. One lemma for each
   group of actions, `NextInv` for all of them.

The last section of the module adds what a step does to a single busy slot (`Follows`): an
`add` leaves it alone, a `find` moves it one link, an answer one more.

`MqttPromiseProofs` needs more, because a step of `MqttPromise` reports a request
that is open and delivers a message that was not. Its invariant `Apart`
(`ApartAlways`) adds where things are: a request has at most one slot and is not
reported while it has (`RequestsApart`); a message of the broker is in one place, in
the segment handled, on its way in one connection, or kept in one slot, and is
not delivered until it leaves it (`MessagesApart`); what the broker still owes
is no message (`OwedAreAnswers`). The last is needed because an answer joins the
packets under way from there. `MessagesApart` is the hard part: packets move
between lanes in half of the actions, and each proof names from which place to
which (`MovedFrom`), so that one lemma carries the invariant over all of them.
Then each action is matched with one of `MqttPromise` or with a stutter.
`CompletedOnce` follows from `RequestsApart`.

`MqttDeliveryProofs` shows `AckedWasDelivered` for every constant but one,
`MaxConnects = 1` (`OneConnection`): across a reconnection it is false, as
`stale_session` shows. Its invariant `Told` follows a packet id of the broker
while its message is in flight (`Tracked`): ids and messages in flight are
different (`InFlightDiffer`); a PUBLISH under way and a slot that waits for the
PUBREL carry the message in flight under their id (`ComingInFlight`,
`KeptInFlight`); a PUBACK or PUBCOMP under way stands for one that is delivered
(`LastAcksTrue`), and no two have the same id (`LastAcksDiffer`), so that the
first does not end a message the second speaks of. `Apart` gives the rest: what
is still coming or kept is not delivered, so nothing that an acknowledgement
ends is. Of `ChainsFollowed` it uses that a slot comes to wait for a PUBREL only
from being free. `Told` ends with the broker's side of the connection.

`MqttAnswersProofs` relates the queue to the packets under way. A packet that
asks for an answer, and the answer, have the key of the slot that waits: what it
waits for, and the packet id (`KeyUp`, `KeyDown`, `SlotKey`). The invariant is
that a key is in one place (`OnePlace`): on the way to the broker, owed by it, or
on the way back, and in each of them once; and that packets and slots belong
together (`Matched`): no two slots have one key, every packet has its slot with
its context, a message about to be kept has none yet, and while the broker is
there every key of a slot has its packet. Both hold from the connection until it
is lost (`Tidy`, `Open`); before it nothing is under way (`Surround`). A step then
moves a key: a call opens one, which needs an id that is new, hence
`PacketIdsDiffer`; the broker turns one on its way up into one it owes; an
acknowledgement that comes ends one, or makes the next of its chain. `Told` and
`Apart` give that the messages of the broker are different. Its two limits are the code's: `packet_id_reuse` shows ids
that start again while one is in use, and `stale_session` a slot of the session
before. How far ids are apart is an invariant of its own (`IdsAscend`): each slot's
id is one that was taken, and a new one is above all of them until they start
again at 1, which takes `MaxPacketId` requests; failed sends use ids up too.

`EthDriverProofs` shows both rings for any size. `SentAsAccepted` says
nothing of frames still on the ring; `TxInv` adds how far the driver is ahead of the DMA
(`DriverAhead`: never more than the ring), that the descriptors in between are
the DMA's and hold the frames accepted in their order (`RingHoldsFrames`), and
that a frame copied is the one accepted next (`FrameCopied`). For reception,
`RxInv` says that the descriptors the processor owns are a queue: there are a
descriptor `t` and a sequence `q` such that `q` is what lies on the ring from `t`
on, and everything else, from where the DMA is, is the DMA's (`RingHolds`). The
pieces in the queue follow one another (`Follow`), up to the one the DMA fills
next (`Upcoming`); the driver has taken the first of them (`CpuAt`), and those
are one frame from its first piece (`CpuHolds`); what was handed up, and the
pbuf about to be, comes before what is still to be taken (`Given`). Each step is
one of the queue: the DMA appends, the driver takes one more, or gives the first
back, which moves `t`. The invariant was checked with TLC on four sizes of ring
first.

`TcpReceiveProofs` shows reassembly, the window and the loop over a buffer with
one invariant, `ReceiveInv`. The queue of early segments (`Queue`) has segments
of the stream only, the bytes their numbers say and a FIN only at its end, each
behind the one before, nothing behind a FIN, all between `rcv_nxt` and the end
of the window (`QueueInv`); the broker keeps to an edge that lies in it. The
window that is not free is what waits in `recv_data`, and one more for a FIN
that is to be reported (`WindowInv`); `recv_data` has the bytes behind those
delivered (`ChainInv`), `rcv_nxt` is behind both (`DeliveredInv`), and the
packets handled end where `bytes_left` begins, as long as no byte beyond a pbuf
was taken for a packet (`HandledInv`). An error changes none of this but the
state: the failed packet is not handled, and one behind the first stays where
`bytes_left` is (`FailsKeeps`). That `bytes_left` is taken down by the length of
the packet needs the two ways to count its digits to agree (`DigitsAgree`), which
they do for what fits in a window of 16 bits. That a FIN is answered with a FIN is
the window once more: when it is reported, only its own number is missing. The hard part is
what `tcp_receive` does with a queue, shown without regard to the state:
`BeforeQueueIs` and `QueuedIs` say that a segment put into a queue, with those it
covers removed and the overlap cut off on either side, gives a queue;
`PassedUpIs` that the segments from its head up to the first gap have, joined,
the bytes that follow `rcv_nxt`, as many as the window is charged. That the
announced window does not close between segments uses
`TCP_WND >= 2 * TCP_MSS` (`AnnouncedIs`).

`ReceiveInv`, too, was checked with TLC first, on the instance of `reassembly`.

`MqttWireProofs` has one invariant for the sending side, `WireInv`. It says of
the pcb (`PcbOK`) that the send buffer, the count of pbufs and the heap are what
the two queues leave of them (`Balanced`), that every segment on them fits
(`Fitting`) and that the room remembered in the last one, `unsent_oversize`,
lies inside of it (`RoomKept`). These are not enough for `HeldDataAwaitsAck`:
`tcp_output` could find nothing on its way and a congestion window too small
for the first segment. So the invariant has what rules that out (`Ready`): until
the broker answers the SYN, it is the first segment on its way, and from then
on the congestion window has room for one. The steps are those of lwIP: the
three places where `tcp_write` puts a piece, each with its books, all or
nothing; `tcp_output`, which moves a prefix from one queue to the other, and at
least one segment when nothing is on its way; `tcp_receive`, which takes whole
segments off and gives back what they took; the timeout, which puts them back.

`PacketsWhole` is false of the build, as `partial_write` shows, and is stated for
what the code does guarantee: only a refused `tcp_write` cuts a packet
(`CutOnlyByRefusal`). That takes the lengths, which the encoders and the senders
compute by different functions (`PacketsAnnounced`: `get_digits_remaining_len`
and `encode_remaining_len` agree, and the pieces add up to what was announced),
and that no piece finds less room in the send buffer than was tested: each one
takes its own length from it (`SentWhole`). Below 64 KB, because the length
announced is a `uint16_t`.

When no piece is refused is a question of how many buffers a packet takes, however
it is cut into writes (`SpareKeepsPacketsWhole`). One write goes into the room of the
old buffer, or takes one more for the same segment, or one for a new segment,
or both (`WriteBehind`), and a buffer added to the segment reaches to its end, and
so does that of a new one behind others. So the bytes left to write always find
one of three situations (`RoomToWrite`): two full buffers to spare; one, and they
end in the last segment or fill its buffer first; or none, and they fit in the
last buffer. Each write goes from one of them to itself or a later one, and is not
refused in any (`PieceFits`). Without that
room before it a packet may be cut, as `partial_write` shows.

The sums and chains of these modules (`Total`, `Flattened`, `EndOf`, `Joined`,
`Written`) are recursive functions. The rules of induction in the library take
an operator as a parameter, which the provers cannot instantiate; `Induction`
of `SumsProofs` gets one for a *set* of numbers from the fact that strict
inclusion on the subsets of an interval is well-founded, and `Recursion` from it
that such a function is defined.

Only model-checked: `AckFindsItsRequest`, `SlotAwaitsOnePacket` and
`AckedWasDelivered` where there is more than one connection; and the liveness
properties, which are out of the prover's reach.

## 6. Not modelled

* Contents: flags, fields, strings and payloads, except the lengths and whether
  a message is too long to keep; malformed packets. They are local and
  sequential, and a test reaches them.
* What the client does with bytes beyond a pbuf, or through a pcb that is gone.
* `tcp_poll_cb`, which processes frames from within lwIP's timer: it would need
  lwIP's list of pcbs and the timers that walk it.
* Callbacks that call the API again: the callbacks of `main.c` only print.
* The example: its sequence of calls is one of those of the model's application.
* IP, ARP, checksums, the PHY, clocks, start-up, RTT.

Nearly all of the 207,000 lines of the repository are vendor code: HAL and CMSIS
headers of registers for one family of chips, and the parts of lwIP (sockets,
DNS, SNMP, PPP, IPv6) that this build does not link. The client and its glue are
about 1,000 lines, and nearly all of them that decide anything are modelled; of
lwIP and the HAL, the functions on the way of a packet.

## 7. Plan

1. *Done*: queue, connections, client, broker, their composition; the type,
   counter and chain theorems.
2. *Done*: the abstract promise, its refinement checked and proved.
3. *Done*: lengths and lwIP's send queue; reassembly and the callback's loop; the
   Ethernet driver, with the transmit ring proved.
4. *Done*: for one connection, `AckedWasDelivered`, and that acknowledgements and
   requests find each other; the receive ring; reassembly; the sending side.
5. `tcp_poll_cb` inside `tcp_slowtmr`, with a list of pcbs that changes under it.
6. Callbacks that call the API; the pong flag left from an earlier connection.
