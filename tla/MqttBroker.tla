---- MODULE MqttBroker ----
(***************************************************************************)
(* The MQTT 3.1.1 broker at the other end: not part of the repository.  It *)
(* accepts or refuses each CONNECT, answers every packet once, in any      *)
(* order, publishes to a subscribed client, uses a packet id for one       *)
(* message at a time, and may close the connection.  Sessions are clean:   *)
(* a connection inherits nothing from an earlier one.                      *)
(***************************************************************************)
EXTENDS MqttClient

Inflight == [ id : PacketIds, body : Contexts ]

BrokerInit ==
  /\ broker = [c \in Conns |-> [ phase |-> "new", subscribed |-> FALSE,
                                 owed |-> {}, inflight |-> {} ]]
  /\ msgs_sent = 0 /\ acked = {}

\* Packets enter the connection unless the client's side of it is gone.
ToClient(n, packets) ==
  IF n.state = "freed" THEN n ELSE [n EXCEPT !.in = @ \o packets]

\* What a connection still had to do ends with it.
Gone(b, phase) == [b EXCEPT !.phase = phase, !.owed = {}, !.inflight = {}]
Over(c) == broker[c].phase \in {"refused", "closed"}

\* The messages the broker has in flight under an id.
SentUnder(b, id) == { f \in b.inflight : f.id = id }

Replies(b, p) ==
  CASE p.type = "PUBLISH" /\ p.qos = 1 -> { Packet("PUBACK", p.id, p.body, 0) }
    [] p.type = "PUBLISH" /\ p.qos = 2 -> { Packet("PUBREC", p.id, p.body, 0) }
    [] p.type = "PUBREL"      -> { Packet("PUBCOMP", p.id, p.body, 0) }
    [] p.type = "SUBSCRIBE"   -> { Packet("SUBACK", p.id, p.body, 0) }
    [] p.type = "UNSUBSCRIBE" -> { Packet("UNSUBACK", p.id, p.body, 0) }
    [] p.type = "PINGREQ"     -> { Packet("PINGRESP", 0, 0, 0) }
    [] p.type = "PUBREC"      -> { Packet("PUBREL", p.id, f.body, 0) :
                                   f \in SentUnder(b, p.id) }
    [] OTHER -> {}

\* The end of a message the broker sent.
Finished(b, p) ==
  IF p.type \in {"PUBACK", "PUBCOMP"} THEN SentUnder(b, p.id) ELSE {}

\* The broker takes a packet together with the client's lwIP hearing of it (the
\* ACK), so the output buffer gets room only while frames are processed.
Incoming(c) ==
  Processing /\ conn[c].state # "syn_sent" /\ conn[c].out # <<>>
Taken(c) == [conn[c] EXCEPT !.out = Tail(@)]

BrokerConnect(c) ==
  /\ Incoming(c) /\ Head(conn[c].out).type = "CONNECT"
  /\ \/ /\ broker[c].phase = "new"
        /\ broker' = [broker EXCEPT ![c].phase = "accepted"]
        /\ conn' = [conn EXCEPT ![c] =
                      ToClient(Taken(c), << Packet("CONNACK", 0, Accepted, 0) >>)]
     \/ /\ broker[c].phase = "new"
        /\ broker' = [broker EXCEPT ![c] = Gone(@, "refused")]
        /\ conn' = [conn EXCEPT ![c] =
                      ToClient(Taken(c),
                               << Packet("CONNACK", 0, Refused, 0), Fin >>)]
  /\ UNCHANGED <<clientVars, msgs_sent, acked>>

BrokerReceive(c) ==
  /\ Incoming(c) /\ broker[c].phase = "accepted"
  /\ LET p == Head(conn[c].out)
         b == broker[c] IN
       /\ p.type \notin {"DISCONNECT", "FIN"}
       /\ broker' = [broker EXCEPT ![c] =
            [ phase |-> "accepted",
              subscribed |-> IF p.type = "SUBSCRIBE" THEN TRUE
                             ELSE b.subscribed /\ p.type # "UNSUBSCRIBE",
              owed |-> b.owed \cup Replies(b, p),
              inflight |-> b.inflight \ Finished(b, p) ]]
       /\ acked' = acked \cup { f.body : f \in Finished(b, p) }
       /\ conn' = [conn EXCEPT ![c] = Taken(c)]
  /\ UNCHANGED <<clientVars, msgs_sent>>

\* The client says goodbye or is gone: the broker closes its side too.
BrokerDisconnected(c) ==
  /\ Incoming(c) /\ ~Over(c)
  /\ Head(conn[c].out).type \in {"DISCONNECT", "FIN"}
  /\ broker' = [broker EXCEPT ![c] = Gone(@, "closed")]
  /\ conn' = [conn EXCEPT ![c] = ToClient(Taken(c), << Fin >>)]
  /\ UNCHANGED <<clientVars, msgs_sent, acked>>

BrokerIgnores(c) ==
  /\ Incoming(c) /\ Over(c)
  /\ conn' = [conn EXCEPT ![c] = Taken(c)]
  /\ UNCHANGED <<clientVars, brokerVars>>

BrokerReply(c) ==
  \E p \in broker[c].owed :
    /\ broker' = [broker EXCEPT ![c].owed = @ \ {p}]
    /\ conn' = [conn EXCEPT ![c] = ToClient(@, << p >>)]
    /\ UNCHANGED <<clientVars, msgs_sent, acked>>

BrokerPublish(c, qos) ==
  /\ broker[c].phase = "accepted" /\ broker[c].subscribed
  /\ msgs_sent < MaxMsgs
  /\ msgs_sent' = msgs_sent + 1
  /\ \E id \in IF qos = 0 THEN {0}
               ELSE { i \in 1 .. MaxPacketId : SentUnder(broker[c], i) = {} } :
       /\ conn' = [conn EXCEPT ![c] =
                     ToClient(@, << Packet("PUBLISH", id, msgs_sent', qos) >>)]
       /\ broker' = IF qos = 0 THEN broker
                    ELSE [broker EXCEPT ![c].inflight =
                            @ \cup {[ id |-> id, body |-> msgs_sent' ]}]
  /\ UNCHANGED <<clientVars, acked>>

BrokerClose(c) ==
  /\ broker[c].phase = "accepted"
  /\ broker' = [broker EXCEPT ![c] = Gone(@, "closed")]
  /\ conn' = [conn EXCEPT ![c] = ToClient(@, << Fin >>)]
  /\ UNCHANGED <<clientVars, msgs_sent, acked>>

====
