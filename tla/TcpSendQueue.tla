---- MODULE TcpSendQueue ----
(***************************************************************************)
(* What lwIP does with the bytes the client writes (tcp_out.c, tcp_in.c):  *)
(* tcp_write cuts them into segments whose buffers come from a heap of     *)
(* MEM_SIZE bytes, tcp_output sends what the windows and the algorithm of  *)
(* Nagle let go, an acknowledgement frees whole segments, and a timeout    *)
(* puts the ones that were sent back in front.  A segment is its length,   *)
(* its number of pbufs and the heap they take.                             *)
(***************************************************************************)
EXTENDS Naturals, Sequences, FiniteSets, SequencesExt, Sums

CONSTANTS TCP_MSS,           \* 536 in opt.h
          TCP_SND_BUF,       \* 2 * TCP_MSS
          TCP_SND_QUEUELEN,  \* 9 in lwipopts.h
          MEM_SIZE           \* 1600 in opt.h

\* What lwip_init checks of its options (init.c).
ASSUME SendQueueAssumption ==
  /\ TCP_MSS \in Nat \ {0} /\ TCP_SND_BUF \in Nat /\ TCP_SND_BUF >= 2 * TCP_MSS
  /\ TCP_SND_QUEUELEN \in Nat /\ TCP_SND_QUEUELEN >= 2

Least(a, b) == IF a < b THEN a ELSE b

Bytes(segs) == Total([i \in DOMAIN segs |-> segs[i].len])
Pbufs(segs) == Total([i \in DOMAIN segs |-> segs[i].pbufs])
Memory(segs) == Total([i \in DOMAIN segs |-> segs[i].mem])

\* A block of the heap with the headers of mem.c and of the pbuf; in front of a
\* segment there is room for the Ethernet, IP and TCP headers.
Align4(n) == ((n + 3) \div 4) * 4
MemOfRaw(n) == 8 + 16 + Align4(n)
MemOfTransport(n) == 8 + Align4(16 + 14 + 20 + 20) + Align4(n)

\* A pcb after tcp_connect: the SYN, with its option, is out, and the
\* congestion window lets no data follow it.
Syn == [len |-> 0, pbufs |-> 1, mem |-> MemOfTransport(4)]

\* The SYN found its memory: tcp_connect succeeded.
ASSUME SynAssumption == MEM_SIZE \in Nat /\ MEM_SIZE >= Syn.mem

PcbWithSyn ==
  [snd_buf |-> TCP_SND_BUF, snd_queuelen |-> 1, unsent |-> <<>>, unacked |-> <<Syn>>,
   unsent_oversize |-> 0, out |-> 0, cwnd |-> 1, memerr |-> FALSE,
   free |-> MEM_SIZE - Syn.mem]

Queued(pcb) == pcb.unacked \o pcb.unsent

\* Mutant: no room is kept.
PreallocNone(pcb, length, max_length, first_seg) == length

\* tcp_pbuf_prealloc: room for the rest of the segment, unless it is going to
\* be sent at once.
PreallocSize(pcb, length, max_length, first_seg) ==
  IF length < max_length /\ (~first_seg \/ pcb.unsent # <<>> \/ pcb.unacked # <<>>)
  THEN Least(max_length, Align4(length + TCP_MSS)) ELSE length

\* The three phases of tcp_write: the room left in the last buffer of the last
\* segment, a buffer added to that segment, new segments.
InOversize(pcb, len) == IF pcb.unsent = <<>> THEN 0 ELSE Least(pcb.unsent_oversize, len)

\* Mutant: the bytes put in the old buffer are not subtracted.
SpaceBeforeOversize(pcb, len) ==
  IF pcb.unsent = <<>> THEN 0
  ELSE IF Last(pcb.unsent).len = 0 THEN 0
  ELSE TCP_MSS - Last(pcb.unsent).len

SpaceInLast(pcb, len) ==
  IF pcb.unsent = <<>> THEN 0
  ELSE IF Last(pcb.unsent).len = 0 THEN 0
  ELSE TCP_MSS - Last(pcb.unsent).len - InOversize(pcb, len)

InConcat(pcb, len) == Least(SpaceInLast(pcb, len), len - InOversize(pcb, len))

ConcatSize(pcb, len) == PreallocSize(pcb, InConcat(pcb, len), SpaceInLast(pcb, len), TRUE)

SegmentLengths(left) ==
  [i \in 1 .. (left + TCP_MSS - 1) \div TCP_MSS |-> Least(TCP_MSS, left - (i - 1) * TCP_MSS)]

NewSegments(pcb, len) ==
  LET lengths == SegmentLengths(len - InOversize(pcb, len) - InConcat(pcb, len))
  IN [i \in DOMAIN lengths |->
        [len |-> lengths[i], pbufs |-> 1,
         mem |-> MemOfTransport(PreallocSize(pcb, lengths[i], TCP_MSS, i = 1))]]

\* What is left over in the buffer that was filled last.
Oversize(pcb, len) ==
  LET new == NewSegments(pcb, len) IN
  IF new # <<>>
  THEN PreallocSize(pcb, Last(new).len, TCP_MSS, Len(new) = 1) - Last(new).len
  ELSE IF InConcat(pcb, len) > 0 THEN ConcatSize(pcb, len) - InConcat(pcb, len)
  ELSE pcb.unsent_oversize - InOversize(pcb, len)

ExtendedLast(pcb, len) ==
  LET grown == InConcat(pcb, len) > 0
      l == Last(pcb.unsent)
  IN [len |-> l.len + InOversize(pcb, len) + InConcat(pcb, len),
      pbufs |-> l.pbufs + (IF grown THEN 1 ELSE 0),
      mem |-> l.mem + (IF grown THEN MemOfRaw(ConcatSize(pcb, len)) ELSE 0)]

UnsentAfter(pcb, len) ==
  (IF pcb.unsent = <<>> THEN <<>> ELSE Append(Front(pcb.unsent), ExtendedLast(pcb, len)))
    \o NewSegments(pcb, len)

\* All of the bytes are queued, or none (ERR_MEM).
WriteFits(pcb, len) ==
  LET new == NewSegments(pcb, len)
      after == UnsentAfter(pcb, len)
  IN /\ len <= pcb.snd_buf /\ pcb.snd_queuelen < TCP_SND_QUEUELEN
     /\ new # <<>> => Pbufs(pcb.unacked) + Pbufs(after) <= TCP_SND_QUEUELEN
     /\ Memory(after) - Memory(pcb.unsent) <= pcb.free

tcp_write(pcb, len) ==
  IF len = 0 THEN pcb
  ELSE IF ~WriteFits(pcb, len) THEN [pcb EXCEPT !.memerr = TRUE]
  ELSE LET after == UnsentAfter(pcb, len)
       IN [pcb EXCEPT !.unsent = after,
                      !.unsent_oversize = Oversize(pcb, len),
                      !.snd_buf = @ - len,
                      !.snd_queuelen = @ + Pbufs(after) - Pbufs(pcb.unsent),
                      !.free = @ + Memory(pcb.unsent) - Memory(after)]

\* tcp_output: segments go out in order while each may.  The broker's window
\* is taken to be larger than TCP_SND_BUF.
\* Mutant: the first small segment waits as well.
NagleFullSegments(pcb, i) ==
  \/ i < Len(pcb.unsent) \/ pcb.unsent[i].len >= TCP_MSS
  \/ pcb.snd_buf = 0 \/ pcb.snd_queuelen >= TCP_SND_QUEUELEN
  \/ pcb.memerr

NagleAllows(pcb, i) ==
  \/ i = 1 /\ pcb.unacked = <<>>
  \/ i < Len(pcb.unsent) \/ pcb.unsent[i].len >= TCP_MSS
  \/ pcb.snd_buf = 0 \/ pcb.snd_queuelen >= TCP_SND_QUEUELEN
  \/ pcb.memerr

\* The SYN has a sequence number and no byte; it is the segment without data.
SynAhead(pcb, i) ==
  IF \/ \E j \in DOMAIN pcb.unacked : pcb.unacked[j].len = 0
     \/ \E j \in 1 .. i - 1 : pcb.unsent[j].len = 0
  THEN 1 ELSE 0

MayLeave(pcb, i) ==
  /\ SynAhead(pcb, i) + Bytes(pcb.unacked) + Bytes(SubSeq(pcb.unsent, 1, i)) <= pcb.cwnd
  /\ NagleAllows(pcb, i)

tcp_output(pcb) ==
  LET n == Cardinality({i \in DOMAIN pcb.unsent : \A j \in 1 .. i : MayLeave(pcb, j)})
      unacked == pcb.unacked \o SubSeq(pcb.unsent, 1, n)
      unsent == SubSeq(pcb.unsent, n + 1, Len(pcb.unsent))
  IN [pcb EXCEPT !.unacked = unacked, !.unsent = unsent, !.memerr = FALSE,
                 !.unsent_oversize = IF unsent = <<>> THEN 0 ELSE @,
                 !.out = IF Bytes(unacked) > @ THEN Bytes(unacked) ELSE @]

\* Mutant: one pbuf is counted for a segment (no pbuf_clen).
AcknowledgedOnePbuf(pcb, n) ==
  LET fromUnacked == Least(n, Len(pcb.unacked))
      gone == SubSeq(Queued(pcb), 1, n)
      unsent == SubSeq(pcb.unsent, n - fromUnacked + 1, Len(pcb.unsent))
  IN [pcb EXCEPT !.unacked = SubSeq(@, fromUnacked + 1, Len(@)),
                 !.unsent = unsent,
                 !.unsent_oversize = IF unsent = <<>> THEN 0 ELSE @,
                 !.snd_buf = @ + Bytes(gone), !.snd_queuelen = @ - Len(gone),
                 !.free = @ + Memory(gone), !.out = @ - Bytes(gone),
                 !.cwnd = Least(TCP_SND_BUF, @ + Least(Bytes(gone), TCP_MSS))]

\* tcp_receive: the first n segments, wherever they are queued, are freed.
\* Beyond the send buffer the congestion window makes no difference.
Acknowledged(pcb, n) ==
  LET fromUnacked == Least(n, Len(pcb.unacked))
      gone == SubSeq(Queued(pcb), 1, n)
      unsent == SubSeq(pcb.unsent, n - fromUnacked + 1, Len(pcb.unsent))
  IN [pcb EXCEPT !.unacked = SubSeq(@, fromUnacked + 1, Len(@)),
                 !.unsent = unsent,
                 !.unsent_oversize = IF unsent = <<>> THEN 0 ELSE @,
                 !.snd_buf = @ + Bytes(gone), !.snd_queuelen = @ - Pbufs(gone),
                 !.free = @ + Memory(gone), !.out = @ - Bytes(gone),
                 !.cwnd = Least(TCP_SND_BUF, @ + Least(Bytes(gone), TCP_MSS))]

\* How many segments an acknowledgement of what was sent can cover.
Coverable(pcb) ==
  {n \in 1 .. Len(Queued(pcb)) : Bytes(SubSeq(Queued(pcb), 1, n)) <= pcb.out}

\* tcp_process in SYN_SENT: the SYN leaves the queues, the window opens.
SynAcknowledged(pcb) ==
  [pcb EXCEPT !.unacked = IF @ = <<>> THEN @ ELSE Tail(@),
              !.unsent = IF pcb.unacked = <<>> THEN Tail(@) ELSE @,
              !.snd_queuelen = @ - 1, !.free = @ + Syn.mem,
              !.cwnd = Least(TCP_SND_BUF, 4 * TCP_MSS)]

\* Mutant: the segments stay on the unacked list.
RequeuedCopies(pcb) ==
  [pcb EXCEPT !.unsent = pcb.unacked \o @, !.cwnd = TCP_MSS]

\* tcp_rexmit_rto_prepare and the end of tcp_slowtmr's timeout.
Requeued(pcb) ==
  [pcb EXCEPT !.unsent = pcb.unacked \o @, !.unacked = <<>>, !.cwnd = TCP_MSS]
====
