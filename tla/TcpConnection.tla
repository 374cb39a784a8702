---- MODULE TcpConnection ----
(***************************************************************************)
(* The TCP connections under the client: src/TCPConnectionRaw and the part *)
(* of lwIP's raw API it calls.  Each pcb the client ever allocates is one  *)
(* connection, with the packets on their way to the broker (out) and to    *)
(* the client (in); packets stay in order and none is lost while the       *)
(* connection lives.  Connection 0 is the NULL pcb.                        *)
(***************************************************************************)
EXTENDS Integers, Sequences

CONSTANTS MaxConnects,   \* bound: pcbs allocated in one behaviour
          SndBuf         \* output buffer of a pcb, in packets

ASSUME TcpAssumption == /\ MaxConnects \in Nat \ {0}
                        /\ SndBuf \in Nat \ {0}

VARIABLES conn,
          \* The broker at the far end; MqttBroker says what it does.
          broker,      \* one record for each connection
          msgs_sent,   \* messages published so far
          acked        \* messages it has been told are safe with the client

brokerVars == <<broker, msgs_sent, acked>>

NULL == 0
Conns == 1 .. MaxConnects
Pcbs == {NULL} \cup Conns

(***************************************************************************)
(* unused: no such pcb yet.  allocated: tcp_new, but tcp_connect failed.   *)
(* fin_wait: closed by this side, tcp_received_cb still registered.        *)
(* freed: lwIP calls back no more and may give the memory away; a pcb the  *)
(* client still points to dangles.                                         *)
(***************************************************************************)
PcbStates ==
  {"unused", "allocated", "syn_sent", "established", "fin_wait", "freed"}

\* The end of one direction of a connection travels behind its packets.
Fin == [ type |-> "FIN", id |-> 0, body |-> 0, qos |-> 0 ]

NoConn == [ state |-> "unused", out |-> <<>>, in |-> <<>> ]

TcpInit == conn = [c \in Pcbs |-> NoConn]

Unused == { c \in Conns : conn[c].state = "unused" }

\* tcp_new hands out a pcb that no one uses.
TCPHandler_get_pcb == CHOOSE c \in Unused : TRUE

\* The values the test packet_len > pcb->snd_buf can have.  The memory of a
\* freed pcb, or at NULL, may hold anything.
is_output_buffer_full(p) ==
  IF p = NULL \/ conn[p].state = "freed" THEN BOOLEAN
  ELSE { Len(conn[p].out) >= SndBuf }

\* Several tcp_write calls put one packet together and tcp_output sends it;
\* lwIP refuses a write (ERR_CONN) on a pcb that is not open, and
\* TCPHandler_write does not look at the result.
TCPHandler_write(n, packet) ==
  IF n.state \in {"syn_sent", "established"}
  THEN [n EXCEPT !.out = Append(@, packet)]
  ELSE n

\* In SYN_SENT nothing has left yet: the pcb is purged and freed.
TCPHandler_close(n) ==
  CASE n.state \in {"allocated", "syn_sent"} ->
         [ state |-> "freed", out |-> <<>>, in |-> <<>> ]
    [] n.state = "established" ->
         [n EXCEPT !.state = "fin_wait", !.out = Append(@, Fin)]
    [] OTHER -> n

\* The connection is gone on both sides (RST, retransmission limit).
Aborted == [ state |-> "freed", out |-> <<>>, in |-> <<>> ]

====
