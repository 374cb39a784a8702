---- MODULE EthDriver ----
(***************************************************************************)
(* The Ethernet driver under lwIP: two rings of descriptors shared by the  *)
(* processor, which polls them from the main loop (ethernetif.c and the    *)
(* HAL functions it calls), and the DMA of the controller, which runs      *)
(* beside it.  The OWN bit of a descriptor says whose it is.  A DMA that   *)
(* meets a descriptor it does not own suspends and raises a flag (RBUS,    *)
(* TBUS); the processor clears the flag and demands that it polls again.   *)
(* The DMA is not in the repository: its actions are external.             *)
(***************************************************************************)
EXTENDS Naturals, Sequences

CONSTANTS RxBufNb,     \* ETH_RXBUFNB, 4 in stm32f4xx_hal_conf.h
          TxBufNb,     \* ETH_TXBUFNB, 4
          MaxPieces,   \* buffers a frame may fill: 2048 bytes at most, 1524 each
          MaxFrames,   \* bound: frames that arrive
          MaxSends     \* bound: frames lwIP sends

ASSUME EthAssumption ==
  /\ RxBufNb \in Nat /\ TxBufNb \in Nat \ {0} /\ MaxPieces \in Nat \ {0}
  /\ MaxFrames \in Nat /\ MaxSends \in Nat /\ RxBufNb > 1

VARIABLES
  rx,          \* DMARxDscrTab: owner, FS and LS bits, length, and the buffer's contents
  rxDesc,      \* heth.RxDesc
  fsRxDesc,    \* heth.RxFrameInfos.FSRxDesc
  segCount,    \* heth.RxFrameInfos.SegCount
  length,      \* heth.RxFrameInfos.length, in buffers
  rbus,        \* ETH_DMASR_RBUS
  rxDma,       \* the DMA: the descriptor it is at, whether it runs, what it receives
  tx, txDesc, tbus, txDma,
  step,        \* where the processor is in the driver; "loop" outside
  pbuf,        \* p of low_level_input
  released,    \* i of its release loop
  arrived,     \* the frames that came from the wire: how many buffers each fills
  cut,         \* those the DMA had no buffers for to the end
  handedUp,    \* what netif->input was given
  accepted,    \* frames HAL_ETH_TransmitFrame took
  sends,       \* calls of low_level_output
  sent         \* frames on the wire

rxCpuVars == <<rxDesc, fsRxDesc, segCount, length, pbuf, released, handedUp>>
rxVars == <<rx, rxCpuVars, rbus, rxDma, arrived, cut>>
txVars == <<tx, txDesc, tbus, txDma, accepted, sends, sent>>
vars == <<rxVars, txVars, step>>

RxSlots == 0 .. RxBufNb - 1
TxSlots == 0 .. TxBufNb - 1
NextRx(d) == (d + 1) % RxBufNb      \* Buffer2NextDescAddr
NextTx(d) == (d + 1) % TxBufNb

Idle == <<>>                        \* no frame is being received
NoPbuf == <<>>                      \* NULL

RxDescriptor(own, first, last, len, frame, piece) ==
  [own |-> own, first |-> first, last |-> last, len |-> len,
   data |-> [frame |-> frame, piece |-> piece]]

EthInit ==
  /\ rx = [d \in RxSlots |-> RxDescriptor("dma", FALSE, FALSE, 0, 0, 0)]
  /\ rxDesc = 0 /\ fsRxDesc = 0 /\ segCount = 0 /\ length = 0 /\ rbus = FALSE
  /\ rxDma = [at |-> 0, runs |-> TRUE, frame |-> Idle]
  /\ tx = [d \in TxSlots |-> [own |-> "cpu", frame |-> 0]]
  /\ txDesc = 0 /\ tbus = FALSE /\ txDma = [at |-> 0, runs |-> TRUE]
  /\ step = "loop" /\ pbuf = NoPbuf /\ released = 0
  /\ arrived = <<>> /\ cut = {} /\ handedUp = <<>> /\ accepted = <<>> /\ sends = 0 /\ sent = <<>>

-----------------------------------------------------------------------------
(* Reception: low_level_input, called once a round through MX_LWIP_Process. *)

\* Mutant: the OWN bit is not looked at.
GetReceivedFrameUnowned ==
  LET d == rx[rxDesc]
      n == IF d.first /\ ~d.last THEN 1 ELSE segCount + 1
  IN /\ step = "loop"
     /\ segCount' = n
     /\ fsRxDesc' = IF n = 1 /\ (d.first \/ d.last) THEN rxDesc ELSE fsRxDesc
     /\ length' = IF d.last THEN d.len ELSE length
     /\ step' = IF d.last THEN "received" ELSE "loop"
     /\ rxDesc' = NextRx(rxDesc)
     /\ UNCHANGED <<rx, rbus, rxDma, pbuf, released, arrived, cut, handedUp, txVars>>

\* Mutant: the last descriptor is taken for the first.
GetReceivedFrameFromLast ==
  LET d == rx[rxDesc]
      n == IF d.first /\ ~d.last THEN 1 ELSE segCount + 1
  IN /\ step = "loop" /\ d.own = "cpu"
     /\ segCount' = n
     /\ fsRxDesc' = IF d.first \/ d.last THEN rxDesc ELSE fsRxDesc
     /\ length' = IF d.last THEN d.len ELSE length
     /\ step' = IF d.last THEN "received" ELSE "loop"
     /\ rxDesc' = NextRx(rxDesc)
     /\ UNCHANGED <<rx, rbus, rxDma, pbuf, released, arrived, cut, handedUp, txVars>>

\* HAL_ETH_GetReceivedFrame takes one descriptor a call.  Only the last one of
\* a frame returns HAL_OK; with any other low_level_input returns NULL, and
\* the next call goes on from there.
GetReceivedFrame ==
  LET d == rx[rxDesc]
      n == IF d.first /\ ~d.last THEN 1 ELSE segCount + 1
  IN /\ step = "loop" /\ d.own = "cpu"
     /\ segCount' = n
     /\ fsRxDesc' = IF n = 1 /\ (d.first \/ d.last) THEN rxDesc ELSE fsRxDesc
     /\ length' = IF d.last THEN d.len ELSE length
     /\ step' = IF d.last THEN "received" ELSE "loop"
     /\ rxDesc' = NextRx(rxDesc)
     /\ UNCHANGED <<rx, rbus, rxDma, pbuf, released, arrived, cut, handedUp, txVars>>

\* The buffers that the copy walks over, one after the other from the first.
Walk == [i \in 1 .. length |-> (fsRxDesc + i - 1) % RxBufNb]

\* Mutant: low_level_input returns when there is no pbuf.
CopyFrameOrReturn ==
  /\ step = "received"
  /\ pbuf' \in {[i \in 1 .. length |-> rx[Walk[i]].data], NoPbuf}
  /\ step' = IF pbuf' = NoPbuf THEN "loop" ELSE "release"
  /\ UNCHANGED <<rx, rxDesc, fsRxDesc, segCount, length, rbus, rxDma, released, arrived, cut, handedUp,
                 txVars>>

\* pbuf_alloc and the copy, or no memory for it.
CopyFrame ==
  /\ step = "received"
  /\ pbuf' \in {[i \in 1 .. length |-> rx[Walk[i]].data], NoPbuf}
  /\ step' = "release"
  /\ UNCHANGED <<rx, rxDesc, fsRxDesc, segCount, length, rbus, rxDma, released, arrived, cut, handedUp,
                 txVars>>

\* The descriptors go back to the DMA, with or without a pbuf.
ReleaseDescriptor ==
  /\ step = "release" /\ released < segCount
  /\ rx' = [rx EXCEPT ![(fsRxDesc + released) % RxBufNb].own = "dma"]
  /\ released' = released + 1
  /\ UNCHANGED <<rxDesc, fsRxDesc, segCount, length, rbus, rxDma, pbuf, arrived,
                 cut, handedUp, txVars, step>>

\* Mutant: SegCount is not cleared.
ResumeReceptionCounting ==
  /\ step = "release" /\ released = segCount
  /\ UNCHANGED segCount
  /\ IF rbus THEN rbus' = FALSE /\ rxDma' = [rxDma EXCEPT !.runs = TRUE]
             ELSE UNCHANGED <<rbus, rxDma>>
  /\ handedUp' = IF pbuf = NoPbuf THEN handedUp ELSE Append(handedUp, pbuf)
  /\ step' = "loop" /\ released' = 0 /\ pbuf' = NoPbuf
  /\ UNCHANGED <<rx, rxDesc, fsRxDesc, length, arrived, cut, txVars>>

\* Mutant: RBUS is cleared without a poll demand.
ResumeReceptionNoDemand ==
  /\ step = "release" /\ released = segCount
  /\ segCount' = 0
  /\ IF rbus THEN rbus' = FALSE /\ rxDma' = rxDma
             ELSE UNCHANGED <<rbus, rxDma>>
  /\ handedUp' = IF pbuf = NoPbuf THEN handedUp ELSE Append(handedUp, pbuf)
  /\ step' = "loop" /\ released' = 0 /\ pbuf' = NoPbuf
  /\ UNCHANGED <<rx, rxDesc, fsRxDesc, length, arrived, cut, txVars>>

\* Then the DMA is resumed if it waits, and netif->input gets the frame.
ResumeReception ==
  /\ step = "release" /\ released = segCount
  /\ segCount' = 0
  /\ IF rbus THEN rbus' = FALSE /\ rxDma' = [rxDma EXCEPT !.runs = TRUE]
             ELSE UNCHANGED <<rbus, rxDma>>
  /\ handedUp' = IF pbuf = NoPbuf THEN handedUp ELSE Append(handedUp, pbuf)
  /\ step' = "loop" /\ released' = 0 /\ pbuf' = NoPbuf
  /\ UNCHANGED <<rx, rxDesc, fsRxDesc, length, arrived, cut, txVars>>

-----------------------------------------------------------------------------
(* Transmission: low_level_output, called by lwIP between two receptions.   *)

\* Mutant: the OWN bit is not looked at.
OutputUnowned ==
  /\ step = "loop" /\ sends < MaxSends
  /\ sends' = sends + 1
  /\ IF TRUE
     THEN tx' = [tx EXCEPT ![txDesc].frame = sends'] /\ step' = "transmit"
     ELSE UNCHANGED <<tx, step>>
  /\ UNCHANGED <<rxVars, txDesc, tbus, txDma, accepted, sent>>

\* The frame is copied to the next buffer, or refused while the DMA has it.
\* lwIP's frames fit in one buffer (mtu 1500).
Output ==
  /\ step = "loop" /\ sends < MaxSends
  /\ sends' = sends + 1
  /\ IF tx[txDesc].own = "cpu"
     THEN tx' = [tx EXCEPT ![txDesc].frame = sends'] /\ step' = "transmit"
     ELSE UNCHANGED <<tx, step>>
  /\ UNCHANGED <<rxVars, txDesc, tbus, txDma, accepted, sent>>

\* HAL_ETH_TransmitFrame gives the descriptor to the DMA ...
TransmitFrame ==
  /\ step = "transmit"
  /\ tx' = [tx EXCEPT ![txDesc].own = "dma"]
  /\ accepted' = Append(accepted, sends)
  /\ txDesc' = NextTx(txDesc) /\ step' = "demand"
  /\ UNCHANGED <<rxVars, tbus, txDma, sends, sent>>

\* Mutant: TBUS is cleared without a poll demand.
ResumeTransmissionNoDemand ==
  /\ step = "demand"
  /\ IF tbus THEN tbus' = FALSE /\ txDma' = txDma
             ELSE UNCHANGED <<tbus, txDma>>
  /\ step' = "loop"
  /\ UNCHANGED <<rxVars, tx, txDesc, accepted, sends, sent>>

\* ... and then resumes it if it waits.
ResumeTransmission ==
  /\ step = "demand"
  /\ IF tbus THEN tbus' = FALSE /\ txDma' = [txDma EXCEPT !.runs = TRUE]
             ELSE UNCHANGED <<tbus, txDma>>
  /\ step' = "loop"
  /\ UNCHANGED <<rxVars, tx, txDesc, accepted, sends, sent>>

Cpu == \/ GetReceivedFrame \/ CopyFrame \/ ReleaseDescriptor \/ ResumeReception
       \/ Output \/ TransmitFrame \/ ResumeTransmission

-----------------------------------------------------------------------------
(* The DMA (external).                                                      *)

RxOwned(d) == rx[d].own = "dma"

\* A frame comes.  A DMA that waits looks at its descriptor again, and the
\* frame is lost if it still does not own it.
FrameArrives(n) ==
  /\ rxDma.frame = Idle /\ Len(arrived) < MaxFrames
  /\ arrived' = Append(arrived, n)
  /\ rxDma' = IF RxOwned(rxDma.at)
              THEN [rxDma EXCEPT !.runs = TRUE, !.frame = <<Len(arrived'), 1>>]
              ELSE rxDma
  /\ UNCHANGED <<rx, rxCpuVars, rbus, cut, txVars, step>>

\* It fills a buffer and closes its descriptor ...
WriteBuffer(last, len) ==
  rx' = [rx EXCEPT ![rxDma.at] =
           RxDescriptor("cpu", rxDma.frame[2] = 1, last, len, rxDma.frame[1], rxDma.frame[2])]

\* ... whether the frame ends here or goes on in the next buffer.
RxWrite ==
  LET id == rxDma.frame[1]
      piece == rxDma.frame[2]
      last == piece = arrived[id]
  IN /\ rxDma.frame # Idle
     /\ last \/ RxOwned(NextRx(rxDma.at))
     /\ WriteBuffer(last, IF last THEN piece ELSE 0)
     /\ rxDma' = [rxDma EXCEPT !.at = NextRx(@),
                               !.frame = IF last THEN Idle ELSE <<id, piece + 1>>]
     /\ UNCHANGED <<rxCpuVars, rbus, arrived, cut, txVars, step>>

\* A frame whose next buffer is not the DMA's is cut: its last descriptor is
\* marked as the end, with an error and a length that means nothing, and the
\* rest is flushed (ETH_FLUSHRECEIVEDFRAME_ENABLE).
RxCut ==
  /\ rxDma.frame # Idle /\ rxDma.frame[2] < arrived[rxDma.frame[1]]
  /\ ~RxOwned(NextRx(rxDma.at))
  /\ \E len \in 1 .. MaxPieces : WriteBuffer(TRUE, len)
  /\ rxDma' = [rxDma EXCEPT !.at = NextRx(@), !.frame = Idle]
  /\ cut' = cut \cup {rxDma.frame[1]}
  /\ UNCHANGED <<rxCpuVars, rbus, arrived, txVars, step>>

RxSuspend ==
  /\ rxDma.frame = Idle /\ rxDma.runs /\ ~RxOwned(rxDma.at)
  /\ rxDma' = [rxDma EXCEPT !.runs = FALSE] /\ rbus' = TRUE
  /\ UNCHANGED <<rx, rxCpuVars, arrived, cut, txVars, step>>

TxSend ==
  /\ txDma.runs /\ tx[txDma.at].own = "dma"
  /\ sent' = Append(sent, tx[txDma.at].frame)
  /\ tx' = [tx EXCEPT ![txDma.at].own = "cpu"]
  /\ txDma' = [txDma EXCEPT !.at = NextTx(@)]
  /\ UNCHANGED <<rxVars, txDesc, tbus, accepted, sends, step>>

TxSuspend ==
  /\ txDma.runs /\ tx[txDma.at].own = "cpu"
  /\ txDma' = [txDma EXCEPT !.runs = FALSE] /\ tbus' = TRUE
  /\ UNCHANGED <<rxVars, tx, txDesc, accepted, sends, sent, step>>

Dma == \/ \E n \in 1 .. MaxPieces : FrameArrives(n)
       \/ RxWrite \/ RxCut \/ RxSuspend \/ TxSend \/ TxSuspend

EthNext == Cpu \/ Dma

EthSpec == EthInit /\ [][EthNext]_vars

\* The main loop comes to ethernetif_input in every round, whatever lwIP has
\* to send; the rest of the driver runs to its end; the DMA does not stop.
EthLiveSpec ==
  /\ EthSpec
  /\ SF_vars(GetReceivedFrame)
  /\ WF_vars(CopyFrame) /\ WF_vars(ReleaseDescriptor) /\ WF_vars(ResumeReception)
  /\ WF_vars(TransmitFrame) /\ WF_vars(ResumeTransmission)
  /\ WF_vars(RxWrite) /\ WF_vars(RxCut) /\ WF_vars(RxSuspend)
  /\ WF_vars(TxSend) /\ WF_vars(TxSuspend)

-----------------------------------------------------------------------------

EthTypeOK ==
  /\ rx \in [RxSlots -> [own : {"cpu", "dma"}, first : BOOLEAN, last : BOOLEAN, len : Nat,
                         data : [frame : Nat, piece : Nat]]]
  /\ rxDesc \in RxSlots /\ fsRxDesc \in RxSlots /\ segCount \in 0 .. RxBufNb
  /\ length \in 0 .. MaxPieces /\ rbus \in BOOLEAN
  /\ rxDma \in [at : RxSlots, runs : BOOLEAN, frame : {Idle} \cup (Nat \X Nat)]
  /\ tx \in [TxSlots -> [own : {"cpu", "dma"}, frame : 0 .. sends]]
  /\ txDesc \in TxSlots /\ tbus \in BOOLEAN /\ txDma \in [at : TxSlots, runs : BOOLEAN]
  /\ step \in {"loop", "received", "release", "transmit", "demand"}
  /\ pbuf \in Seq([frame : Nat, piece : Nat]) /\ released \in 0 .. segCount
  /\ arrived \in Seq(1 .. MaxPieces) /\ cut \subseteq DOMAIN arrived
  /\ handedUp \in Seq(Seq([frame : Nat, piece : Nat]))
  /\ accepted \in Seq(Nat) /\ sends \in Nat /\ sent \in Seq(Nat)

\* What lwIP is given is one frame as it came, from its first buffer to its
\* last, unless the DMA had to cut it (low_level_input: FSRxDesc, SegCount).
FramesAreWhole ==
  \A i \in DOMAIN handedUp :
    LET id == handedUp[i][1].frame
    IN id \in cut \/ handedUp[i] = [k \in 1 .. arrived[id] |-> [frame |-> id, piece |-> k]]

\* lwIP gets the frames in the order of the wire, and none twice.
FramesInOrder ==
  \A i, j \in DOMAIN handedUp : i < j => handedUp[i][1].frame < handedUp[j][1].frame

\* The frames taken for transmission go out in that order, each once, with
\* the contents they were taken with (the OWN test of low_level_output).
SentAsAccepted ==
  /\ Len(sent) <= Len(accepted)
  /\ \A i \in DOMAIN sent : sent[i] = accepted[i]

\* Every buffer that holds a frame goes back to the DMA.
BuffersReturn == \A d \in RxSlots : rx[d].own = "cpu" ~> rx[d].own = "dma"

\* A reception that waits for a buffer is resumed: by the driver, not by luck
\* with another frame (RBUS and DMARPDR at the end of low_level_input).
ReceptionResumes == ~rxDma.runs ~> rxDma.runs

\* A frame taken for transmission leaves (TBUS and DMATPDR after OWN is set).
AcceptedAreSent == \A n \in 1 .. MaxSends : Len(accepted) >= n ~> Len(sent) >= n
====
