---- MODULE EthDriverProofs ----
(***************************************************************************)
(* The two rings for every number of descriptors.  What the driver took    *)
(* for transmission leaves in that order, once, and as it was when it was  *)
(* taken; what it hands up is what came in, in the order of the wire.      *)
(***************************************************************************)
EXTENDS EthDriver, SequenceTheorems, TLAPS

\* How far behind the DMA's descriptor d comes on the ring.
Behind(d) == IF d >= txDma.at THEN d - txDma.at ELSE d + TxBufNb - txDma.at

\* Frames taken and not yet sent.
InFlight == Len(accepted) - Len(sent)

TxTypes ==
  /\ tx \in [TxSlots -> [own : {"cpu", "dma"}, frame : Nat]]
  /\ txDesc \in TxSlots /\ txDma \in [at : TxSlots, runs : BOOLEAN]
  /\ accepted \in Seq(Nat) /\ sent \in Seq(Nat) /\ sends \in Nat

\* The processor is as many descriptors ahead of the DMA as frames are in
\* flight; with all of them in flight it has come round to it.
DriverAhead ==
  /\ InFlight \in 0 .. TxBufNb
  /\ InFlight < TxBufNb => Behind(txDesc) = InFlight
  /\ InFlight = TxBufNb => txDesc = txDma.at

\* The DMA owns the descriptors of the frames in flight, no other, and each
\* of them holds the frame whose turn it is.
RingHoldsFrames ==
  \A d \in TxSlots :
    /\ tx[d].own = "dma" <=> Behind(d) < InFlight
    /\ Behind(d) < InFlight => tx[d].frame = accepted[Len(sent) + Behind(d) + 1]

\* Between low_level_output and HAL_ETH_TransmitFrame the descriptor is free
\* and holds the frame of the call.
FrameCopied ==
  step = "transmit" => tx[txDesc].own = "cpu" /\ tx[txDesc].frame = sends

TxInv == TxTypes /\ DriverAhead /\ RingHoldsFrames /\ FrameCopied /\ SentAsAccepted

-----------------------------------------------------------------------------

\* Buffer2NextDescAddr: the next descriptor, round the end of the ring.
LEMMA NextTxIs ==
  ASSUME NEW d \in TxSlots
  PROVE  NextTx(d) = (IF d = TxBufNb - 1 THEN 0 ELSE d + 1) /\ NextTx(d) \in TxSlots
<1>1. TxBufNb \in Nat \ {0} /\ d \in Nat /\ d < TxBufNb
  BY EthAssumption DEF TxSlots
<1>2. CASE d = TxBufNb - 1
  <2>1. (d + 1) % TxBufNb = 0
    BY <1>1, <1>2
  <2> QED
    BY <1>1, <1>2, <2>1 DEF NextTx, TxSlots
<1>3. CASE d # TxBufNb - 1
  <2>1. (d + 1) % TxBufNb = d + 1
    BY <1>1, <1>3
  <2> QED
    BY <1>1, <1>3, <2>1 DEF NextTx, TxSlots
<1> QED
  BY <1>2, <1>3

\* A descriptor is less than a ring's length behind another.
LEMMA BehindRange ==
  ASSUME TxTypes, NEW d \in TxSlots
  PROVE  Behind(d) \in 0 .. TxBufNb - 1 /\ (Behind(d) = 0 <=> d = txDma.at)
<1>1. txDma.at \in TxSlots
  BY DEF TxTypes
<1> QED
  BY <1>1, EthAssumption DEF Behind, TxSlots

\* No two descriptors are equally far behind.
LEMMA BehindApart ==
  ASSUME TxTypes, NEW d \in TxSlots, NEW e \in TxSlots, Behind(d) = Behind(e)
  PROVE  d = e
BY EthAssumption DEF TxTypes, Behind, TxSlots

\* In every step that leaves the transmit ring alone, nothing is lost.
LEMMA TxUnchanged ==
  ASSUME TxInv, UNCHANGED txVars, step' = "transmit" => step = "transmit"
  PROVE  TxInv'
BY DEF TxInv, txVars, TxTypes, DriverAhead, RingHoldsFrames, FrameCopied, SentAsAccepted,
       InFlight, Behind

\* Every descriptor is the driver's at the start.
LEMMA TxInit == EthInit => TxInv
<1> SUFFICES ASSUME EthInit
             PROVE  TxInv
  OBVIOUS
<1>1. TxTypes
  BY EthAssumption DEF EthInit, TxTypes, TxSlots
<1>2. InFlight = 0 /\ SentAsAccepted
  BY DEF EthInit, InFlight, SentAsAccepted
<1>3. DriverAhead
  BY <1>1, <1>2, BehindRange, EthAssumption DEF DriverAhead, EthInit, TxTypes
<1>4. RingHoldsFrames
  BY <1>1, <1>2, BehindRange, EthAssumption DEF RingHoldsFrames, EthInit
<1> QED
  BY <1>1, <1>2, <1>3, <1>4 DEF TxInv, FrameCopied, EthInit

\* A frame accepted, or refused, by low_level_output.
LEMMA TxOutput ==
  ASSUME TxInv, Output
  PROVE  TxInv'
<1> USE DEF TxInv
<1>1. TxTypes'
  <2>1. tx' \in [TxSlots -> [own : {"cpu", "dma"}, frame : Nat]]
    <3>1. sends' \in Nat /\ txDesc \in TxSlots /\ tx \in [TxSlots -> [own : {"cpu", "dma"}, frame : Nat]]
      BY DEF Output, TxTypes
    <3>2. tx' = tx \/ tx' = [tx EXCEPT ![txDesc] = [@ EXCEPT !.frame = sends']]
      BY DEF Output
    <3> QED
      BY <3>1, <3>2
  <2> QED
    BY <2>1 DEF Output, TxTypes
<1>2. UNCHANGED <<txDesc, txDma, accepted, sent, InFlight>> /\ \A d \in TxSlots : Behind(d)' = Behind(d)
  BY DEF Output, InFlight, Behind
<1>3. DriverAhead' /\ SentAsAccepted'
  BY <1>2 DEF DriverAhead, SentAsAccepted, TxTypes
<1>4. CASE tx[txDesc].own = "cpu"
  <2>1. tx' = [tx EXCEPT ![txDesc].frame = sends']
    BY <1>4 DEF Output
  <2>2. ~ Behind(txDesc) < InFlight
    BY <1>4 DEF RingHoldsFrames, TxTypes
  <2>3. RingHoldsFrames'
    BY <1>2, <2>1, <2>2 DEF RingHoldsFrames, TxTypes
  <2>4. FrameCopied'
    BY <1>2, <2>1, <1>4 DEF FrameCopied, TxTypes
  <2> QED
    BY <1>1, <1>3, <2>3, <2>4
<1>5. CASE tx[txDesc].own # "cpu"
  <2>1. UNCHANGED <<tx, step>>
    BY <1>5 DEF Output
  <2>2. RingHoldsFrames'
    BY <1>2, <2>1 DEF RingHoldsFrames
  <2>3. FrameCopied'
    BY <1>5, <2>1 DEF FrameCopied, Output
  <2> QED
    BY <1>1, <1>3, <2>2, <2>3
<1> QED
  BY <1>4, <1>5

\* HAL_ETH_TransmitFrame hands the descriptors of a frame to the DMA.
LEMMA TxTransmitFrame ==
  ASSUME TxInv, TransmitFrame
  PROVE  TxInv'
<1> USE DEF TxInv
<1>1. /\ tx' = [tx EXCEPT ![txDesc].own = "dma"] /\ accepted' = Append(accepted, sends)
      /\ txDesc' = NextTx(txDesc) /\ step' = "demand" /\ UNCHANGED <<txDma, sends, sent>>
      /\ tx[txDesc].own = "cpu" /\ tx[txDesc].frame = sends
  BY DEF TransmitFrame, FrameCopied
<1>2. TxTypes' /\ TxBufNb \in Nat \ {0}
  BY <1>1, NextTxIs, EthAssumption DEF TxTypes
<1>3. Len(accepted) \in Nat /\ Len(sent) \in Nat /\ Len(accepted)' = Len(accepted) + 1
  BY <1>1 DEF TxTypes
<1>4. InFlight' = InFlight + 1 /\ \A d \in TxSlots : Behind(d)' = Behind(d)
  BY <1>1, <1>3 DEF InFlight, Behind
<1>5. InFlight < TxBufNb /\ Behind(txDesc) = InFlight
  <2>1. ~ Behind(txDesc) < InFlight
    BY <1>1 DEF RingHoldsFrames, TxTypes
  <2>2. Behind(txDesc) \in 0 .. TxBufNb - 1 /\ (Behind(txDesc) = 0 <=> txDesc = txDma.at)
    BY BehindRange DEF TxTypes
  <2> QED
    BY <2>1, <2>2, <1>2 DEF DriverAhead
<1>6. DriverAhead'
  <2>1. txDesc \in TxSlots /\ txDma.at \in TxSlots /\ txDma' = txDma
    BY <1>1 DEF TxTypes
  <2>2. txDesc' = IF txDesc = TxBufNb - 1 THEN 0 ELSE txDesc + 1
    BY <1>1, <2>1, NextTxIs
  <2> QED
    BY <1>2, <1>4, <1>5, <2>1, <2>2 DEF DriverAhead, Behind, TxSlots
<1>7. RingHoldsFrames'
  <2> SUFFICES ASSUME NEW d \in TxSlots
               PROVE  /\ tx'[d].own = "dma" <=> Behind(d) < InFlight + 1
                      /\ Behind(d) < InFlight + 1 =>
                           tx'[d].frame = accepted'[Len(sent) + Behind(d) + 1]
    BY <1>1, <1>4 DEF RingHoldsFrames
  <2>1. Behind(d) \in Nat /\ InFlight \in Nat
    BY BehindRange, <1>2 DEF DriverAhead
  <2>2. CASE d = txDesc
    <3>1. tx'[d].own = "dma" /\ tx'[d].frame = sends
      BY <1>1, <2>2 DEF TxTypes
    <3>2. Len(sent) + Behind(d) + 1 = Len(accepted) + 1
      BY <1>3, <1>5, <2>2 DEF InFlight
    <3>3. accepted'[Len(accepted) + 1] = sends
      BY <1>1 DEF TxTypes
    <3> QED
      BY <3>1, <3>2, <3>3, <1>5, <2>1, <2>2
  <2>3. CASE d # txDesc
    <3>1. tx'[d] = tx[d]
      BY <1>1, <2>3 DEF TxTypes
    <3>2. Behind(d) # InFlight
      BY <1>5, <2>3, BehindApart DEF TxTypes
    <3>3. Behind(d) < InFlight =>
            accepted'[Len(sent) + Behind(d) + 1] = accepted[Len(sent) + Behind(d) + 1]
      BY <1>1, <1>3, <2>1 DEF TxTypes, InFlight
    <3> QED
      BY <3>1, <3>2, <3>3, <2>1 DEF RingHoldsFrames
  <2> QED
    BY <2>2, <2>3
<1>8. SentAsAccepted'
  BY <1>1, <1>3 DEF SentAsAccepted, TxTypes
<1> QED
  BY <1>1, <1>2, <1>6, <1>7, <1>8 DEF FrameCopied

\* Mutual exclusion on a buffer: the DMA sends what was taken, and the
\* descriptor it returns is the one the driver comes to last.
LEMMA TxTxSend ==
  ASSUME TxInv, TxSend
  PROVE  TxInv'
<1> USE DEF TxInv
<1> DEFINE at == txDma.at
<1>1. /\ tx[at].own = "dma" /\ sent' = Append(sent, tx[at].frame)
      /\ tx' = [tx EXCEPT ![at].own = "cpu"] /\ txDma' = [txDma EXCEPT !.at = NextTx(@)]
      /\ UNCHANGED <<txDesc, accepted, sends, step>>
  BY DEF TxSend
<1>2. at \in TxSlots /\ txDma'.at = NextTx(at) /\ TxBufNb \in Nat \ {0}
  BY <1>1, EthAssumption DEF TxTypes
<1>3. TxTypes'
  <2>1. NextTx(at) \in TxSlots
    BY <1>2, NextTxIs
  <2>2. tx[at].frame \in Nat /\ sent' \in Seq(Nat)
    BY <1>1, <1>2 DEF TxTypes
  <2>3. tx' \in [TxSlots -> [own : {"cpu", "dma"}, frame : Nat]]
    BY <1>1, <1>2 DEF TxTypes
  <2>4. txDma' \in [at : TxSlots, runs : BOOLEAN]
    BY <1>1, <2>1 DEF TxTypes
  <2> QED
    BY <1>1, <2>2, <2>3, <2>4 DEF TxTypes
<1>4. Len(accepted) \in Nat /\ Len(sent) \in Nat /\ Len(sent)' = Len(sent) + 1
  BY <1>1, <1>2 DEF TxTypes
<1>5. Behind(at) = 0 /\ 0 < InFlight /\ InFlight' = InFlight - 1
  BY <1>1, <1>2, <1>4, BehindRange DEF RingHoldsFrames, InFlight
<1>6. \A d \in TxSlots : Behind(d)' = IF d = at THEN TxBufNb - 1 ELSE Behind(d) - 1
  <2> TAKE d \in TxSlots
  <2>1. txDma'.at = IF at = TxBufNb - 1 THEN 0 ELSE at + 1
    BY <1>2, NextTxIs
  <2> QED
    BY <2>1, <1>2 DEF Behind, TxSlots
<1>7. DriverAhead'
  BY <1>1, <1>2, <1>4, <1>5, <1>6, BehindRange DEF DriverAhead, TxTypes
<1>8. RingHoldsFrames'
  <2> SUFFICES ASSUME NEW d \in TxSlots
               PROVE  /\ tx'[d].own = "dma" <=> Behind(d)' < InFlight - 1
                      /\ Behind(d)' < InFlight - 1 =>
                           tx'[d].frame = accepted[Len(sent) + 1 + Behind(d)' + 1]
    BY <1>1, <1>4, <1>5 DEF RingHoldsFrames
  <2>1. Behind(d) \in 0 .. TxBufNb - 1 /\ (Behind(d) = 0 <=> d = at) /\ InFlight \in 0 .. TxBufNb
    BY BehindRange DEF DriverAhead
  <2>2. CASE d = at
    <3>1. tx'[d].own = "cpu" /\ Behind(d)' = TxBufNb - 1
      BY <1>1, <1>2, <1>6, <2>2 DEF TxTypes
    <3> QED
      BY <3>1, <2>1, <1>2
  <2>3. CASE d # at
    <3>1. tx'[d] = tx[d] /\ Behind(d)' = Behind(d) - 1
      BY <1>1, <1>6, <2>3 DEF TxTypes
    <3>2. Len(sent) + 1 + Behind(d)' + 1 = Len(sent) + Behind(d) + 1
      BY <3>1, <2>1, <1>4
    <3>3. /\ tx[d].own = "dma" <=> Behind(d) < InFlight
          /\ Behind(d) < InFlight => tx[d].frame = accepted[Len(sent) + Behind(d) + 1]
      BY DEF RingHoldsFrames
    <3>4. Behind(d)' < InFlight - 1 <=> Behind(d) < InFlight
      BY <3>1, <2>1
    <3> QED
      BY <3>1, <3>2, <3>3, <3>4
  <2> QED
    BY <2>2, <2>3
<1>9. FrameCopied'
  <2>1. step = "transmit" => txDesc # at
    BY <1>1 DEF FrameCopied
  <2> QED
    BY <2>1, <1>1 DEF FrameCopied, TxTypes
<1>10. SentAsAccepted'
  <2>1. tx[at].frame = accepted[Len(sent) + 1]
    BY <1>2, <1>4, <1>5 DEF RingHoldsFrames
  <2>2. Len(sent) + 1 <= Len(accepted)
    BY <1>4, <1>5 DEF InFlight
  <2>3. \A i \in DOMAIN sent' : sent'[i] = accepted[i]
    <3> TAKE i \in DOMAIN sent'
    <3>1. i \in 1 .. Len(sent) + 1
      BY <1>1, <1>2 DEF TxTypes
    <3>2. CASE i = Len(sent) + 1
      BY <1>1, <1>2, <2>1, <3>2 DEF TxTypes
    <3>3. CASE i # Len(sent) + 1
      <4>1. i \in DOMAIN sent /\ sent'[i] = sent[i]
        BY <1>1, <1>2, <3>1, <3>3 DEF TxTypes
      <4> QED
        BY <4>1 DEF SentAsAccepted
    <3> QED
      BY <3>2, <3>3
  <2> QED
    BY <2>2, <2>3, <1>1, <1>4 DEF SentAsAccepted
<1> QED
  BY <1>3, <1>7, <1>8, <1>9, <1>10

\* A DMA that suspends or is resumed moves no frame.
LEMMA TxRunStops ==
  ASSUME TxInv, TxSuspend \/ ResumeTransmission
  PROVE  TxInv'
<1>1. /\ UNCHANGED <<tx, txDesc, accepted, sends, sent>> /\ txDma'.at = txDma.at
      /\ step' = "transmit" => step = "transmit"
  BY DEF TxInv, TxTypes, TxSuspend, ResumeTransmission
<1>2. TxTypes'
  BY <1>1 DEF TxInv, TxTypes, TxSuspend, ResumeTransmission
<1> QED
  BY <1>1, <1>2 DEF TxInv, DriverAhead, RingHoldsFrames, FrameCopied, SentAsAccepted,
                    InFlight, Behind

\* Every step of the driver and the DMA.
LEMMA TxStep ==
  ASSUME TxInv, [EthNext]_vars
  PROVE  TxInv'
<1>1. CASE GetReceivedFrame
  BY <1>1, TxUnchanged DEF GetReceivedFrame
<1>2. CASE CopyFrame
  BY <1>2, TxUnchanged DEF CopyFrame
<1>3. CASE ReleaseDescriptor
  BY <1>3, TxUnchanged DEF ReleaseDescriptor
<1>4. CASE ResumeReception
  BY <1>4, TxUnchanged DEF ResumeReception
<1>5. CASE Output
  BY <1>5, TxOutput
<1>6. CASE TransmitFrame
  BY <1>6, TxTransmitFrame
<1>7. CASE TxSuspend \/ ResumeTransmission
  BY <1>7, TxRunStops
<1>8. CASE \E n \in 1 .. MaxPieces : FrameArrives(n)
  BY <1>8, TxUnchanged DEF FrameArrives
<1>9. CASE RxWrite
  BY <1>9, TxUnchanged DEF RxWrite
<1>10. CASE RxCut
  BY <1>10, TxUnchanged DEF RxCut
<1>11. CASE RxSuspend
  BY <1>11, TxUnchanged DEF RxSuspend
<1>12. CASE TxSend
  BY <1>12, TxTxSend
<1>13. CASE UNCHANGED vars
  BY <1>13, TxUnchanged DEF vars
<1> QED
  BY <1>1, <1>2, <1>3, <1>4, <1>5, <1>6, <1>7, <1>8, <1>9, <1>10, <1>11, <1>12, <1>13
     DEF EthNext, Cpu, Dma

\* Whatever the driver and the DMA do beside each other, and for every size of
\* the ring: the frames HAL_ETH_TransmitFrame took leave in that order, each
\* once, with the contents low_level_output copied.
THEOREM TransmitRingCorrect == EthSpec => []SentAsAccepted
<1>1. EthInit => TxInv
  BY TxInit
<1>2. TxInv /\ [EthNext]_vars => TxInv'
  BY TxStep
<1>3. TxInv => SentAsAccepted
  BY DEF TxInv
<1> QED
  BY <1>1, <1>2, <1>3, PTL DEF EthSpec

-----------------------------------------------------------------------------
(***************************************************************************)
(* The receive ring.  The descriptors the processor owns are a queue q     *)
(* that begins at t: the DMA appends the buffers it fills, the driver      *)
(* takes them one a call and gives them back from the first.               *)
(***************************************************************************)
Descriptors ==
  [own : {"cpu", "dma"}, first : BOOLEAN, last : BOOLEAN, len : Nat,
   data : [frame : Nat, piece : Nat]]

\* The k-th descriptor from t.
Slot(t, k) == IF t + k <= RxBufNb THEN t + k - 1 ELSE t + k - 1 - RxBufNb

RingHolds(t, q) ==
  /\ Len(q) <= RxBufNb
  /\ \A k \in 1 .. Len(q) : rx[Slot(t, k)] = q[k]
  /\ \A k \in Len(q) + 1 .. RxBufNb : rx[Slot(t, k)].own = "dma"
  /\ rxDma.at = Slot(t, Len(q) + 1)

\* The data of the buffer the DMA will fill next, of a frame that is coming in or
\* of the next to come; and those of the k-th buffer, u being the next.
Upcoming ==
  IF rxDma.frame = Idle THEN [frame |-> Len(arrived) + 1, piece |-> 1]
  ELSE [frame |-> Len(arrived), piece |-> rxDma.frame[2]]
DataAt(q, u, k) == IF k <= Len(q) THEN q[k].data ELSE u

\* A buffer with a piece of a frame; only the last one of a frame has a length.
FilledBuffer(d) ==
  /\ d.own = "cpu" /\ (d.first <=> d.data.piece = 1)
  /\ d.data.frame \in 1 .. Len(arrived)
  /\ d.last => /\ d.len \in 1 .. MaxPieces
               /\ \/ d.data.frame \in cut
                  \/ d.data.piece = arrived[d.data.frame] /\ d.len = d.data.piece
Filled(q) == \A k \in 1 .. Len(q) : FilledBuffer(q[k])

\* The pieces of a frame follow one another, and later frames its last.
Follow(q, u) ==
  /\ \A k \in 1 .. Len(q) :
       IF q[k].last THEN DataAt(q, u, k + 1).piece = 1
       ELSE /\ DataAt(q, u, k + 1).frame = q[k].data.frame
            /\ DataAt(q, u, k + 1).piece = q[k].data.piece + 1
  /\ \A j \in 1 .. Len(q) : \A k \in j + 1 .. Len(q) + 1 :
       q[j].last => q[j].data.frame < DataAt(q, u, k).frame

\* While the DMA receives a frame, the newest, it owns its descriptor.
DmaReceives(q) ==
  rxDma.frame # Idle =>
    /\ Len(q) < RxBufNb /\ Len(arrived) > 0 /\ rxDma.frame[1] = Len(arrived)
    /\ rxDma.frame[2] \in 1 .. arrived[Len(arrived)]

\* The driver has taken the first descriptors of the queue; those of a frame it
\* releases one by one.
Taken == segCount - released
HasFrame == step \in {"received", "release"}
CpuAt(t, q) ==
  /\ released \in 0 .. segCount /\ Taken <= Len(q)
  /\ rxDesc = Slot(t, Taken + 1)
  /\ segCount > 0 => t = Slot(fsRxDesc, released + 1)
  /\ step # "release" => released = 0 /\ pbuf = NoPbuf

\* They are a frame from its first piece on, with its last if there is a frame to
\* copy.
CpuHolds(q, u) ==
  /\ \A k \in 1 .. Taken : /\ q[k].data.piece = released + k
                           /\ q[k].data.frame = q[1].data.frame
                           /\ q[k].last <=> k = Taken /\ HasFrame
  /\ HasFrame => segCount > 0
  /\ HasFrame \/ segCount = 0 => DataAt(q, u, Taken + 1).piece = 1
  /\ step = "received" => length = q[segCount].len

WholeOrCut(p) ==
  /\ p # <<>> /\ p[1].frame \in 1 .. Len(arrived)
  /\ \/ p[1].frame \in cut
     \/ p = [k \in 1 .. arrived[p[1].frame] |-> [frame |-> p[1].frame, piece |-> k]]

\* What was handed up, and the pbuf about to be, comes before the frames in the
\* queue.
Before(p, q, u, n) == \A k \in n + 1 .. Len(q) + 1 : p[1].frame < DataAt(q, u, k).frame
Given(q, u) ==
  /\ \A i \in DOMAIN handedUp :
       /\ WholeOrCut(handedUp[i])
       /\ Before(handedUp[i], q, u, IF step = "release" THEN Taken ELSE 0)
       /\ pbuf # NoPbuf => handedUp[i][1].frame < pbuf[1].frame
  /\ pbuf # NoPbuf => WholeOrCut(pbuf) /\ Before(pbuf, q, u, Taken)
  /\ FramesInOrder

RingIs(t, q) ==
  /\ RingHolds(t, q) /\ Filled(q) /\ Follow(q, Upcoming) /\ DmaReceives(q)
  /\ CpuAt(t, q) /\ CpuHolds(q, Upcoming) /\ Given(q, Upcoming)

RxTypes ==
  /\ rx \in [RxSlots -> Descriptors]
  /\ rxDesc \in RxSlots /\ fsRxDesc \in RxSlots /\ segCount \in 0 .. RxBufNb
  /\ length \in 0 .. MaxPieces /\ rbus \in BOOLEAN
  /\ rxDma \in [at : RxSlots, runs : BOOLEAN, frame : {Idle} \cup (Nat \X Nat)]
  /\ step \in {"loop", "received", "release", "transmit", "demand"}
  /\ pbuf \in Seq([frame : Nat, piece : Nat]) /\ released \in 0 .. segCount
  /\ arrived \in Seq(1 .. MaxPieces) /\ cut \subseteq DOMAIN arrived
  /\ handedUp \in Seq(Seq([frame : Nat, piece : Nat]))

RxInv == RxTypes /\ \E t \in RxSlots : \E q \in Seq(Descriptors) : RingIs(t, q)

-----------------------------------------------------------------------------

\* Round the end of the ring once.
LEMMA RoundIs ==
  ASSUME NEW a \in Nat, a < 2 * RxBufNb
  PROVE  a % RxBufNb = IF a < RxBufNb THEN a ELSE a - RxBufNb
<1>1. RxBufNb \in Nat /\ RxBufNb > 1
  BY EthAssumption
<1>2. CASE a < RxBufNb
  BY <1>1, <1>2
<1>3. CASE a >= RxBufNb
  BY <1>1, <1>3
<1> QED
  BY <1>1, <1>2, <1>3

\* The descriptors from t, each once.
LEMMA SlotsAre ==
  ASSUME NEW t \in RxSlots, NEW k \in 1 .. RxBufNb + 1
  PROVE  /\ Slot(t, k) \in RxSlots
         /\ \A l \in 1 .. RxBufNb : k <= RxBufNb /\ Slot(t, k) = Slot(t, l) => k = l
         /\ Slot(t, 1) = t
         /\ k <= RxBufNb => NextRx(Slot(t, k)) = Slot(t, k + 1)
         /\ k = RxBufNb + 1 => Slot(t, k) = t
<1>1. RxBufNb \in Nat /\ RxBufNb > 1 /\ t \in Nat /\ t < RxBufNb /\ k \in Nat
  BY EthAssumption DEF RxSlots
<1>2. ASSUME k <= RxBufNb
      PROVE  NextRx(Slot(t, k)) = Slot(t, k + 1)
  <2>1. PICK s : s = Slot(t, k)
    OBVIOUS
  <2>2. s \in Nat /\ s < RxBufNb
    BY <1>1, <1>2, <2>1 DEF Slot
  <2>3. PICK a \in Nat : a = s + 1 /\ a < 2 * RxBufNb
    BY <1>1, <2>2
  <2>4. NextRx(s) = IF a < RxBufNb THEN a ELSE a - RxBufNb
    BY <2>3, RoundIs DEF NextRx
  <2> QED
    BY <1>1, <1>2, <2>1, <2>2, <2>3, <2>4 DEF Slot
<1> QED
  BY <1>1, <1>2 DEF Slot, RxSlots

\* Counting from the second descriptor.
LEMMA SlotsShift ==
  ASSUME NEW t \in RxSlots, NEW s, s = Slot(t, 2), NEW k \in 1 .. RxBufNb
  PROVE  s \in RxSlots /\ Slot(s, k) = Slot(t, k + 1)
<1>1. RxBufNb \in Nat /\ RxBufNb > 1 /\ t \in Nat /\ t < RxBufNb /\ k \in Nat
  BY EthAssumption DEF RxSlots
<1> QED
  BY <1>1 DEF Slot, RxSlots

-----------------------------------------------------------------------------

\* The queue stays as it is when neither the driver's reception nor the DMA moves.
LEMMA RingStays ==
  ASSUME RxTypes, NEW t \in RxSlots, NEW q \in Seq(Descriptors), RingIs(t, q),
         UNCHANGED <<rx, rxCpuVars, arrived, cut>>,
         rxDma'.at = rxDma.at, rxDma'.frame = rxDma.frame,
         \/ step' = step
         \/ {step, step'} \subseteq {"loop", "transmit", "demand"}
  PROVE  RingIs(t, q)'
<1>1. Upcoming' = Upcoming
  BY DEF Upcoming
<1>2. (step' \in {"received", "release"} <=> HasFrame) /\ (step' = "release" <=> step = "release")
      /\ (step' = "received" <=> step = "received")
  BY DEF HasFrame
<1>3. RingHolds(t, q)' /\ Filled(q)' /\ DmaReceives(q)'
  BY DEF RingIs, RingHolds, Filled, FilledBuffer, DmaReceives, rxCpuVars
<1>4. Follow(q, Upcoming)'
  BY <1>1 DEF RingIs, Follow, DataAt
<1>5. CpuAt(t, q)'
  BY <1>2 DEF RingIs, CpuAt, Taken, rxCpuVars
<1>6. CpuHolds(q, Upcoming)'
  BY <1>1, <1>2 DEF RingIs, CpuHolds, Taken, HasFrame, DataAt, rxCpuVars
<1>7. Given(q, Upcoming)'
  BY <1>1, <1>2 DEF RingIs, Given, Taken, WholeOrCut, Before, DataAt, FramesInOrder, rxCpuVars
<1> QED
  BY <1>3, <1>4, <1>5, <1>6, <1>7 DEF RingIs

\* The data of the buffer to come are those of a piece of a frame not cut yet.
LEMMA UpcomingType ==
  ASSUME RxTypes, NEW q, DmaReceives(q)
  PROVE  /\ Upcoming \in [frame : Nat, piece : Nat] /\ Upcoming.piece > 0
         /\ rxDma.frame = Idle => Upcoming.frame = Len(arrived) + 1 /\ Upcoming.piece = 1
         /\ rxDma.frame # Idle =>
              /\ Upcoming.frame = Len(arrived) /\ Upcoming.piece = rxDma.frame[2]
              /\ rxDma.frame[1] = Len(arrived) /\ rxDma.frame[2] \in 1 .. MaxPieces
         /\ Len(arrived) \in Nat
<1>1. Len(arrived) \in Nat /\ MaxPieces \in Nat
  BY EthAssumption, LenProperties DEF RxTypes
<1>2. CASE rxDma.frame = Idle
  BY <1>1, <1>2 DEF Upcoming
<1>3. CASE rxDma.frame # Idle
  <2>1. arrived[Len(arrived)] \in 1 .. MaxPieces
    BY <1>1, <1>3 DEF DmaReceives, RxTypes
  <2>2. rxDma.frame[2] \in 1 .. MaxPieces
    BY <1>1, <1>3, <2>1 DEF DmaReceives
  <2> QED
    BY <1>1, <1>3, <2>2 DEF Upcoming, DmaReceives
<1> QED
  BY <1>1, <1>2, <1>3

\* A frame comes, and the DMA has a buffer for it or not.
LEMMA RingAtArrival ==
  ASSUME RxTypes, NEW t \in RxSlots, NEW q \in Seq(Descriptors), RingIs(t, q),
         NEW n \in 1 .. MaxPieces, FrameArrives(n)
  PROVE  RingIs(t, q)'
<1>1. /\ arrived' = Append(arrived, n) /\ Len(arrived) \in Nat
      /\ Len(arrived') = Len(arrived) + 1 /\ arrived'[Len(arrived) + 1] = n
      /\ \A i \in 1 .. Len(arrived) : arrived'[i] = arrived[i]
  BY AppendProperties, LenProperties DEF FrameArrives, RxTypes
<1>2. /\ UNCHANGED <<rx, rxCpuVars, cut, step>> /\ rxDma.frame = Idle
      /\ rxDma'.at = rxDma.at
  BY DEF FrameArrives, RxTypes
<1>3. PICK u, v : u = Upcoming /\ v = Upcoming'
  OBVIOUS
<1>4. u = [frame |-> Len(arrived) + 1, piece |-> 1]
  BY <1>2, <1>3 DEF Upcoming
<1>5. /\ v.piece = 1 /\ v.frame >= u.frame /\ v.frame \in Nat
      /\ rxDma'.frame # Idle => rxDma'.frame[1] = Len(arrived) + 1 /\ rxDma'.frame[2] = 1
                                /\ RxOwned(rxDma.at)
  <2>1. CASE RxOwned(rxDma.at)
    <3>1. rxDma'.frame = << Len(arrived'), 1 >>
      BY <2>1 DEF FrameArrives, RxTypes
    <3>2. rxDma'.frame # Idle
      BY <3>1 DEF Idle
    <3>3. v = [frame |-> Len(arrived'), piece |-> rxDma'.frame[2]]
      BY <1>3, <3>2 DEF Upcoming
    <3> QED
      BY <1>1, <1>4, <2>1, <3>1, <3>3
  <2>2. CASE ~RxOwned(rxDma.at)
    <3>1. rxDma'.frame = Idle
      BY <1>2, <2>2 DEF FrameArrives
    <3>2. v = [frame |-> Len(arrived') + 1, piece |-> 1]
      BY <1>3, <3>1 DEF Upcoming
    <3> QED
      BY <1>1, <1>4, <3>1, <3>2
  <2> QED
    BY <2>1, <2>2
<1>6. /\ Len(q) \in Nat /\ Len(q) <= RxBufNb /\ rxDma.at = Slot(t, Len(q) + 1)
      /\ \A k \in 1 .. Len(q) : q[k] \in Descriptors /\ FilledBuffer(q[k])
      /\ \A k \in 1 .. Len(q) : rx[Slot(t, k)] = q[k]
  BY LenProperties, ElementOfSeq DEF RingIs, RingHolds, Filled
<1>7. RingHolds(t, q)'
  BY <1>2 DEF RingIs, RingHolds
<1>8. Filled(q)'
  BY <1>1, <1>2, <1>6 DEF Filled, FilledBuffer
<1>9. Follow(q, v)
  <2>1. \A k \in 1 .. Len(q) : IF q[k].last THEN DataAt(q, u, k + 1).piece = 1
       ELSE /\ DataAt(q, u, k + 1).frame = q[k].data.frame
            /\ DataAt(q, u, k + 1).piece = q[k].data.piece + 1
    BY <1>3 DEF RingIs, Follow
  <2>2. ASSUME NEW k \in 1 .. Len(q)
        PROVE  IF q[k].last THEN DataAt(q, v, k + 1).piece = 1
               ELSE /\ DataAt(q, v, k + 1).frame = q[k].data.frame
                    /\ DataAt(q, v, k + 1).piece = q[k].data.piece + 1
    <3>1. CASE k < Len(q)
      BY <1>6, <2>1, <3>1 DEF DataAt
    <3>2. CASE k = Len(q)
      <4>1. q[k].data.frame <= Len(arrived) /\ DataAt(q, u, k + 1) = u
            /\ DataAt(q, v, k + 1) = v
        BY <1>1, <1>6, <3>2 DEF DataAt, FilledBuffer
      <4>2. q[k].last
        BY <1>1, <1>4, <1>6, <2>1, <4>1 DEF Descriptors
      <4> QED
        BY <1>5, <4>1, <4>2
    <3> QED
      BY <1>6, <3>1, <3>2
  <2>3. ASSUME NEW j \in 1 .. Len(q), NEW k \in j + 1 .. Len(q) + 1, q[j].last
        PROVE  q[j].data.frame < DataAt(q, v, k).frame
    <3>1. q[j].data.frame < DataAt(q, u, k).frame /\ q[j].data.frame \in Nat
      BY <1>3, <1>6, <2>3 DEF RingIs, Follow, Descriptors
    <3> QED
      BY <1>4, <1>5, <1>6, <3>1 DEF DataAt
  <2> QED
    BY <2>2, <2>3 DEF Follow
<1>10. Len(q) < RxBufNb \/ ~RxOwned(rxDma.at)
  <2>1. SUFFICES ASSUME Len(q) = RxBufNb
                 PROVE  ~RxOwned(rxDma.at)
    BY <1>6, EthAssumption
  <2>2. 1 \in 1 .. Len(q) /\ rxDma.at = t /\ Slot(t, 1) = t
    BY <1>6, <2>1, SlotsAre, EthAssumption
  <2> QED
    BY <1>6, <2>2 DEF FilledBuffer, RxOwned
<1>11. DmaReceives(q)'
  BY <1>1, <1>5, <1>10 DEF DmaReceives
<1>12. CpuAt(t, q)'
  BY <1>2 DEF RingIs, CpuAt, Taken, rxCpuVars
<1>13. CpuHolds(q, v)'
  <2>1. CpuHolds(q, u)
    BY <1>3 DEF RingIs
  <2>2. HasFrame \/ segCount = 0 => DataAt(q, v, Taken + 1).piece = 1
    BY <1>4, <1>5, <2>1 DEF CpuHolds, DataAt
  <2> QED
    BY <1>2, <2>1, <2>2 DEF CpuHolds, Taken, HasFrame, DataAt, rxCpuVars
<1>14. ASSUME NEW p \in Seq([frame : Nat, piece : Nat]), WholeOrCut(p)
       PROVE  /\ WholeOrCut(p)'
              /\ \A m : Before(p, q, u, m) => Before(p, q, v, m)
  <2>1. p[1].frame \in 1 .. Len(arrived)
    BY <1>14 DEF WholeOrCut
  <2>2. WholeOrCut(p)'
    BY <1>1, <1>2, <1>14, <2>1 DEF WholeOrCut
  <2>3. ASSUME NEW m, Before(p, q, u, m), NEW k \in m + 1 .. Len(q) + 1
        PROVE  p[1].frame < DataAt(q, v, k).frame
    <3>1. p[1].frame < DataAt(q, u, k).frame
      BY <2>3 DEF Before
    <3> QED
      BY <1>1, <1>4, <1>5, <1>6, <2>1, <3>1 DEF DataAt
  <2> QED
    BY <2>2, <2>3 DEF Before
<1>15. Given(q, v)'
  <2>1. Given(q, u)
    BY <1>3 DEF RingIs
  <2>2. \A i \in DOMAIN handedUp : handedUp[i] \in Seq([frame : Nat, piece : Nat])
    BY DEF RxTypes
  <2>3. pbuf \in Seq([frame : Nat, piece : Nat])
    BY DEF RxTypes
  <2>4. UNCHANGED <<handedUp, pbuf, step, segCount, released>>
    BY <1>2 DEF rxCpuVars
  <2>5. ASSUME NEW i \in DOMAIN handedUp
        PROVE  /\ WholeOrCut(handedUp[i])'
               /\ Before(handedUp[i], q, v, IF step = "release" THEN Taken ELSE 0)
    <3>1. PICK p, m : p = handedUp[i] /\ m = IF step = "release" THEN Taken ELSE 0
      OBVIOUS
    <3>2. p \in Seq([frame : Nat, piece : Nat]) /\ WholeOrCut(p) /\ Before(p, q, u, m)
      BY <2>1, <2>2, <3>1 DEF Given
    <3>3. p' = p
      BY <2>4, <3>1
    <3>4. WholeOrCut(p)' /\ Before(p, q, v, m)
      BY <1>14, <3>2
    <3> QED
      BY <2>4, <3>1, <3>3, <3>4 DEF WholeOrCut
  <2>6. pbuf # NoPbuf => WholeOrCut(pbuf)' /\ Before(pbuf, q, v, Taken)
    BY <1>14, <2>1, <2>3, <2>4 DEF Given
  <2> QED
    BY <2>1, <2>4, <2>5, <2>6 DEF Given, Before, DataAt, FramesInOrder, Taken
<1> QED
  BY <1>3, <1>7, <1>8, <1>9, <1>11, <1>12, <1>13, <1>15 DEF RingIs, Follow, DataAt

\* Queue r, before v, is q and what came after it as its n-th.
Appended(q, u, r, v, n) ==
  /\ \A k \in 1 .. n : DataAt(r, v, k) = DataAt(q, u, k)
  /\ DataAt(r, v, n + 1) = v /\ DataAt(q, u, n) = u
  /\ Follow(r, v)
  /\ \A p, l : l \in 0 .. n - 1 /\ p[1].frame \in Nat /\ Before(p, q, u, l)
             => Before(p, r, v, l)

\* One more buffer at the end of the queue, before the one to come.
LEMMA FollowAppended ==
  ASSUME NEW q \in Seq(Descriptors), NEW r \in Seq(Descriptors), NEW n \in Nat \ {0},
         NEW d \in Descriptors, NEW u, NEW v \in [frame : Nat, piece : Nat],
         Len(q) = n - 1, Len(r) = n, r[n] = d, \A k \in 1 .. n - 1 : r[k] = q[k],
         d.data = u, Follow(q, u),
         IF d.last THEN v.piece = 1 /\ u.frame < v.frame
         ELSE v.piece = u.piece + 1 /\ v.frame = u.frame
  PROVE  Appended(q, u, r, v, n)
<1>0. u \in [frame : Nat, piece : Nat] /\ u.frame <= v.frame
  BY DEF Descriptors
<1>1. /\ \A k \in 1 .. n : DataAt(r, v, k) = DataAt(q, u, k)
      /\ DataAt(r, v, n + 1) = v /\ DataAt(q, u, n) = u
  BY DEF DataAt
<1>2. \A k \in 1 .. n - 1 : q[k] \in Descriptors
  BY ElementOfSeq
<1>3. ASSUME NEW k \in 1 .. n
      PROVE  IF r[k].last THEN DataAt(r, v, k + 1).piece = 1
             ELSE /\ DataAt(r, v, k + 1).frame = r[k].data.frame
                  /\ DataAt(r, v, k + 1).piece = r[k].data.piece + 1
  <2>1. CASE k < n
    <3>1. r[k] = q[k] /\ DataAt(r, v, k + 1) = DataAt(q, u, k + 1) /\ k \in 1 .. Len(q)
      BY <1>1, <2>1
    <3> QED
      BY <3>1 DEF Follow
  <2>2. CASE k = n
    BY <1>1, <2>2
  <2> QED
    BY <2>1, <2>2
<1>4. ASSUME NEW j \in 1 .. n, NEW k \in j + 1 .. n + 1, r[j].last
      PROVE  r[j].data.frame < DataAt(r, v, k).frame
  <2>1. CASE j = n
    <3>1. k = n + 1
      BY <2>1
    <3> QED
      BY <1>1, <1>4, <2>1, <3>1
  <2>2. CASE j < n
    <3>1. j \in 1 .. Len(q) /\ r[j] = q[j]
      BY <2>2
    <3>2. q[j].data.frame \in Nat
      BY <1>2, <3>1 DEF Descriptors
    <3>3. \A l \in j + 1 .. n : q[j].data.frame < DataAt(q, u, l).frame
      BY <1>4, <3>1 DEF Follow
    <3>4. q[j].data.frame < u.frame
      BY <1>1, <2>2, <3>3
    <3>5. CASE k = n + 1
      BY <1>0, <1>1, <3>1, <3>2, <3>4, <3>5
    <3>6. CASE k < n + 1
      BY <1>1, <3>1, <3>3, <3>6
    <3> QED
      BY <3>5, <3>6
  <2> QED
    BY <2>1, <2>2
<1>5. ASSUME NEW p, NEW l \in 0 .. n - 1, p[1].frame \in Nat, Before(p, q, u, l)
      PROVE  Before(p, r, v, l)
  <2>1. \A i \in l + 1 .. n : p[1].frame < DataAt(q, u, i).frame
    BY <1>5 DEF Before
  <2>2. p[1].frame < u.frame
    BY <1>1, <2>1
  <2>3. p[1].frame < v.frame
    BY <1>0, <1>5, <2>2
  <2>4. \A i \in l + 1 .. n + 1 : p[1].frame < DataAt(r, v, i).frame
    BY <1>1, <2>1, <2>3
  <2> QED
    BY <2>4 DEF Before
<1>6. Follow(r, v)
  BY <1>3, <1>4 DEF Follow
<1> QED
  BY <1>1, <1>5, <1>6 DEF Appended

\* The DMA fills the buffer it owns and goes on to the next.
LEMMA RingAtWrite ==
  ASSUME RxTypes, NEW t \in RxSlots, NEW q \in Seq(Descriptors), RingIs(t, q),
         rxDma.frame # Idle, NEW last \in BOOLEAN, NEW len \in Nat,
         WriteBuffer(last, len), UNCHANGED <<rxCpuVars, step, arrived>>, cut \subseteq cut',
         rxDma'.at = NextRx(rxDma.at),
         rxDma'.frame = IF last THEN Idle ELSE << rxDma.frame[1], rxDma.frame[2] + 1 >>,
         last => /\ len \in 1 .. MaxPieces
                 /\ \/ Len(arrived) \in cut'
                    \/ rxDma.frame[2] = arrived[Len(arrived)] /\ len = rxDma.frame[2],
         ~last => /\ RxOwned(NextRx(rxDma.at))
                  /\ rxDma.frame[2] < arrived[Len(arrived)]
  PROVE  \E r \in Seq(Descriptors) : RingIs(t, r)'
<1>1. PICK u, v : u = Upcoming /\ v = Upcoming'
  OBVIOUS
<1>2. PICK n : n = Len(q) + 1
  OBVIOUS
<1>3. DmaReceives(q) /\ Len(q) \in Nat
  BY LenProperties DEF RingIs
<1>4. PICK a \in Nat : a = Len(arrived) /\ a > 0 /\ a \in 1 .. Len(arrived)
  BY <1>3, LenProperties DEF DmaReceives, RxTypes
<1>5. PICK m \in 1 .. MaxPieces : m = rxDma.frame[2]
  BY <1>3, UpcomingType
<1>6. /\ u = [frame |-> a, piece |-> m] /\ rxDma.frame[1] = a
      /\ n \in 1 .. RxBufNb /\ Len(q) = n - 1 /\ m \in Nat /\ RxBufNb \in Nat
  BY <1>1, <1>2, <1>3, <1>4, <1>5, EthAssumption DEF Upcoming, DmaReceives
<1>7. v.piece = (IF last THEN 1 ELSE m + 1) /\ v.frame = IF last THEN a + 1 ELSE a
  <2>1. CASE last
    BY <1>1, <1>4, <2>1 DEF Upcoming
  <2>2. CASE ~last
    <3>1. rxDma'.frame = << a, m + 1 >> /\ rxDma'.frame # Idle
      BY <1>5, <1>6, <2>2 DEF Idle
    <3> QED
      BY <1>1, <1>4, <2>2, <3>1 DEF Upcoming
  <2> QED
    BY <2>1, <2>2
<1>8. PICK d \in Descriptors :
        /\ d = RxDescriptor("cpu", m = 1, last, len, a, m)
        /\ d.own = "cpu" /\ (d.first <=> m = 1) /\ d.last = last /\ d.len = len /\ d.data = u
  <2>1. PICK first \in BOOLEAN : first = (m = 1)
    OBVIOUS
  <2>2. [own |-> "cpu", first |-> first, last |-> last, len |-> len, data |-> u] \in Descriptors
    BY <1>4, <1>6 DEF Descriptors
  <2> QED
    BY <1>6, <2>1, <2>2 DEF RxDescriptor
<1>9. PICK r \in Seq(Descriptors) :
        /\ Len(r) = n /\ r[n] = d /\ \A k \in 1 .. Len(q) : r[k] = q[k]
  <2>1. /\ Append(q, d) \in Seq(Descriptors) /\ Len(Append(q, d)) = n
        /\ Append(q, d)[n] = d /\ \A k \in 1 .. Len(q) : Append(q, d)[k] = q[k]
    BY <1>2, AppendProperties
  <2> QED
    BY <2>1
<1>10. /\ \A k \in 1 .. n : DataAt(r, v, k) = DataAt(q, u, k)
       /\ DataAt(r, v, n + 1) = v /\ DataAt(q, u, n) = u
       /\ Follow(r, v)
       /\ \A p, l : l \in 0 .. n - 1 /\ p[1].frame \in Nat /\ Before(p, q, u, l)
                  => Before(p, r, v, l)
  <2>1. v \in [frame : Nat, piece : Nat]
    BY <1>1, <1>4, <1>5, <1>6, <1>7, LenProperties DEF Upcoming
  <2>2. IF d.last THEN v.piece = 1 /\ u.frame < v.frame
        ELSE v.piece = u.piece + 1 /\ v.frame = u.frame
    BY <1>4, <1>6, <1>7, <1>8
  <2>3. Follow(q, u) /\ n \in Nat \ {0}
    BY <1>1, <1>6 DEF RingIs
  <2>4. Len(q) = n - 1 /\ d.data = u /\ \A k \in 1 .. n - 1 : r[k] = q[k]
    BY <1>6, <1>8, <1>9
  <2>5. Appended(q, u, r, v, n)
    BY <1>9, <2>1, <2>2, <2>3, <2>4, FollowAppended
  <2> QED
    BY <2>5 DEF Appended
<1>11. rx' = [rx EXCEPT ![rxDma.at] = d] /\ rxDma.at = Slot(t, n)
  BY <1>2, <1>5, <1>6, <1>8 DEF WriteBuffer, RingIs, RingHolds
<1>12. \A k \in 1 .. RxBufNb : rx'[Slot(t, k)] = IF k = n THEN d ELSE rx[Slot(t, k)]
  <2>1. \A k \in 1 .. RxBufNb : Slot(t, k) \in RxSlots /\ (Slot(t, k) = Slot(t, n) => k = n)
    BY <1>6, SlotsAre
  <2> QED
    BY <1>11, <2>1 DEF RxTypes
<1>13. rxDma'.at = Slot(t, n + 1) /\ (n = RxBufNb => rxDma'.at = t) /\ Slot(t, 1) = t
  BY <1>6, <1>11, SlotsAre
<1>14. RingHolds(t, r)'
  <2>1. /\ \A k \in 1 .. Len(q) : rx[Slot(t, k)] = q[k]
        /\ \A k \in n .. RxBufNb : rx[Slot(t, k)].own = "dma"
    BY <1>2 DEF RingIs, RingHolds
  <2>2. \A k \in 1 .. n : rx'[Slot(t, k)] = r[k]
    BY <1>6, <1>9, <1>12, <2>1
  <2>3. \A k \in n + 1 .. RxBufNb : rx'[Slot(t, k)].own = "dma"
    BY <1>6, <1>12, <2>1
  <2> QED
    BY <1>6, <1>9, <1>13, <2>2, <2>3 DEF RingHolds
<1>15. \A k \in 1 .. Len(q) : q[k] \in Descriptors /\ FilledBuffer(q[k])
  BY ElementOfSeq DEF RingIs, Filled
<1>16. Filled(r)'
  <2>1. FilledBuffer(d)'
    BY <1>4, <1>5, <1>6, <1>8 DEF FilledBuffer
  <2>2. \A k \in 1 .. Len(q) : FilledBuffer(q[k])'
    BY <1>15 DEF FilledBuffer
  <2>3. \A k \in 1 .. n : FilledBuffer(r[k])'
    <3>1. ASSUME NEW k \in 1 .. n
          PROVE  FilledBuffer(r[k])'
      <4>1. CASE k = n
        BY <1>9, <2>1, <4>1
      <4>2. CASE k # n
        BY <1>6, <1>9, <2>2, <4>2
      <4> QED
        BY <4>1, <4>2
    <3> QED
      BY <3>1
  <2> QED
    BY <1>9, <2>3 DEF Filled
<1>18. DmaReceives(r)'
  <2>1. SUFFICES ASSUME ~last
                 PROVE  /\ n < RxBufNb /\ rxDma'.frame[1] = a
                        /\ rxDma'.frame[2] \in 1 .. arrived[a]
    BY <1>4, <1>9 DEF DmaReceives
  <2>2. rxDma'.frame = << a, m + 1 >>
    BY <1>5, <1>6, <2>1
  <2>3. arrived[a] \in Nat /\ m < arrived[a]
    <3>1. arrived[a] \in 1 .. MaxPieces
      BY <1>4, ElementOfSeq DEF RxTypes
    <3> QED
      BY <1>4, <1>5, <2>1, <3>1, EthAssumption
  <2>4. n # RxBufNb
    <3>1. SUFFICES ASSUME n = RxBufNb
                   PROVE  FALSE
      OBVIOUS
    <3>2. rx[t].own = "dma" /\ 1 \in 1 .. Len(q)
      BY <1>6, <1>13, <2>1, <3>1, EthAssumption DEF RxOwned
    <3>3. rx[t] = q[1]
      BY <1>13, <3>2 DEF RingIs, RingHolds
    <3> QED
      BY <1>15, <3>2, <3>3 DEF FilledBuffer
  <2> QED
    BY <1>4, <1>6, <2>2, <2>3, <2>4
<1>19. CpuAt(t, q) /\ Taken \in Nat /\ Taken <= Len(q)
  <2>1. released \in 0 .. segCount /\ segCount \in 0 .. RxBufNb
    BY DEF RxTypes
  <2>2. CpuAt(t, q)
    BY DEF RingIs
  <2> QED
    BY <2>1, <2>2 DEF CpuAt, Taken
<1>20. CpuAt(t, r)'
  BY <1>6, <1>9, <1>19 DEF CpuAt, Taken, rxCpuVars
<1>21. CpuHolds(r, v)'
  <2>1. CpuHolds(q, u)
    BY <1>1 DEF RingIs
  <2>2. /\ \A k \in 1 .. Taken : r[k] = q[k] /\ r[1] = q[1]
        /\ DataAt(r, v, Taken + 1) = DataAt(q, u, Taken + 1)
    BY <1>6, <1>9, <1>10, <1>19
  <2>3. step = "received" /\ segCount > 0 => r[segCount] = q[segCount]
    <3>1. step = "received" => Taken = segCount
      BY <1>19 DEF CpuAt, Taken, RxTypes
    <3>2. ASSUME step = "received", segCount > 0
          PROVE  r[segCount] = q[segCount]
      <4>1. segCount \in 1 .. Taken
        BY <1>19, <3>1, <3>2
      <4> QED
        BY <2>2, <4>1
    <3> QED
      BY <3>2
  <2> QED
    BY <2>1, <2>2, <2>3 DEF CpuHolds, Taken, HasFrame, DataAt, rxCpuVars
<1>22. ASSUME NEW p \in Seq([frame : Nat, piece : Nat]), WholeOrCut(p)
       PROVE  /\ WholeOrCut(p)'
              /\ \A l \in 0 .. Len(q) : Before(p, q, u, l) => Before(p, r, v, l)
  <2>1. WholeOrCut(p)'
    BY <1>22 DEF WholeOrCut
  <2>2. p[1].frame \in Nat
    BY <1>4, <1>22 DEF WholeOrCut
  <2> QED
    BY <1>6, <1>10, <2>1, <2>2
<1>23. Given(r, v)'
  <2>1. Given(q, u)
    BY <1>1 DEF RingIs
  <2>2. /\ \A i \in DOMAIN handedUp : handedUp[i] \in Seq([frame : Nat, piece : Nat])
        /\ pbuf \in Seq([frame : Nat, piece : Nat])
    BY DEF RxTypes
  <2>3. UNCHANGED <<handedUp, pbuf, step, segCount, released>>
    BY DEF rxCpuVars
  <2>4. Taken \in 0 .. Len(q) /\ 0 \in 0 .. Len(q)
    BY <1>3, <1>19
  <2>5. ASSUME NEW i \in DOMAIN handedUp
        PROVE  /\ WholeOrCut(handedUp[i])'
               /\ Before(handedUp[i], r, v, IF step = "release" THEN Taken ELSE 0)
    <3>1. PICK p, l : p = handedUp[i] /\ l = IF step = "release" THEN Taken ELSE 0
      OBVIOUS
    <3>2. p \in Seq([frame : Nat, piece : Nat]) /\ WholeOrCut(p) /\ Before(p, q, u, l)
      BY <2>1, <2>2, <3>1 DEF Given
    <3>3. p' = p /\ l \in 0 .. Len(q)
      BY <2>3, <2>4, <3>1
    <3>4. WholeOrCut(p)' /\ Before(p, r, v, l)
      BY <1>22, <3>2, <3>3
    <3> QED
      BY <2>3, <3>1, <3>3, <3>4 DEF WholeOrCut
  <2>6. pbuf # NoPbuf => WholeOrCut(pbuf)' /\ Before(pbuf, r, v, Taken)
    BY <1>22, <2>1, <2>2, <2>3, <2>4 DEF Given
  <2> QED
    BY <2>1, <2>3, <2>5, <2>6 DEF Given, Before, DataAt, FramesInOrder, Taken
<1>24. RingIs(t, r)'
  BY <1>1, <1>10, <1>14, <1>16, <1>18, <1>20, <1>21, <1>23 DEF RingIs, Follow, DataAt
<1> QED
  BY <1>24

\* Whether the frame ends there, goes on in the next buffer or is cut.
LEMMA RingAtRxWrite ==
  ASSUME RxTypes, NEW t \in RxSlots, NEW q \in Seq(Descriptors), RingIs(t, q),
         RxWrite \/ RxCut
  PROVE  \E r \in Seq(Descriptors) : RingIs(t, r)'
<1>1. /\ rxDma.frame # Idle /\ DmaReceives(q)
      /\ rxDma \in [at : RxSlots, runs : BOOLEAN, frame : {Idle} \cup (Nat \X Nat)]
  BY DEF RingIs, RxWrite, RxCut, RxTypes
<1>2. PICK a, m : a = rxDma.frame[1] /\ m = rxDma.frame[2]
  OBVIOUS
<1>3. a = Len(arrived) /\ a \in 1 .. Len(arrived) /\ m \in 1 .. arrived[a] /\ m \in Nat
  BY <1>1, <1>2, LenProperties DEF DmaReceives, RxTypes
<1>4. arrived[a] \in 1 .. MaxPieces /\ MaxPieces \in Nat
  BY <1>3, ElementOfSeq, EthAssumption DEF RxTypes
<1>5. CASE RxWrite
  <2>1. PICK last \in BOOLEAN : last = (m = arrived[a])
    OBVIOUS
  <2>2. PICK len \in Nat : len = IF last THEN m ELSE 0
    BY <1>3
  <2>3. WriteBuffer(last, len)
    BY <1>2, <1>5, <2>1, <2>2 DEF RxWrite
  <2>4. /\ rxDma'.at = NextRx(rxDma.at)
        /\ rxDma'.frame = IF last THEN Idle ELSE << a, m + 1 >>
        /\ UNCHANGED <<rxCpuVars, step, arrived, cut>>
    BY <1>1, <1>2, <1>5, <2>1 DEF RxWrite
  <2>5. last => len \in 1 .. MaxPieces /\ m = arrived[a] /\ len = m
    BY <1>3, <1>4, <2>1, <2>2
  <2>6. ~last => RxOwned(NextRx(rxDma.at)) /\ m < arrived[a]
    <3>1. ~last => m # arrived[a]
      BY <2>1
    <3>2. ~last => RxOwned(NextRx(rxDma.at))
      BY <1>2, <1>5, <3>1 DEF RxWrite
    <3>3. ~last => m < arrived[a]
      BY <1>3, <1>4, <3>1
    <3> QED
      BY <3>2, <3>3
  <2> QED
    BY <1>1, <1>2, <1>3, <2>3, <2>4, <2>5, <2>6, RingAtWrite
<1>6. CASE RxCut
  <2>1. PICK len \in 1 .. MaxPieces : WriteBuffer(TRUE, len)
    BY <1>6 DEF RxCut
  <2>2. /\ rxDma'.at = NextRx(rxDma.at) /\ rxDma'.frame = Idle
        /\ UNCHANGED <<rxCpuVars, step, arrived>> /\ cut \subseteq cut' /\ a \in cut'
    BY <1>1, <1>2, <1>6 DEF RxCut
  <2>3. PICK last \in BOOLEAN : last = TRUE
    OBVIOUS
  <2>4. len \in Nat
    BY <1>4
  <2>5. WriteBuffer(last, len)
    BY <2>1, <2>3, Zenon
  <2> QED
    BY <1>1, <1>2, <1>3, <2>1, <2>2, <2>3, <2>4, <2>5, RingAtWrite
<1> QED
  BY <1>5, <1>6

\* The driver takes the next descriptor of the queue.
LEMMA RingAtGet ==
  ASSUME RxTypes, NEW t \in RxSlots, NEW q \in Seq(Descriptors), RingIs(t, q),
         GetReceivedFrame
  PROVE  RingIs(t, q)' /\ segCount' \in 0 .. RxBufNb /\ length' \in 0 .. MaxPieces
<1>1. /\ step = "loop" /\ released = 0 /\ pbuf = NoPbuf /\ Taken = segCount
      /\ segCount \in 0 .. RxBufNb /\ segCount <= Len(q) /\ Len(q) \in Nat
      /\ Len(q) <= RxBufNb /\ RxBufNb \in Nat /\ RxBufNb > 1
      /\ rxDesc = Slot(t, segCount + 1) /\ (segCount > 0 => t = Slot(fsRxDesc, 1))
  <2>1. step = "loop" /\ segCount \in 0 .. RxBufNb /\ Len(q) \in Nat
    BY LenProperties DEF GetReceivedFrame, RxTypes
  <2>2. CpuAt(t, q) /\ Len(q) <= RxBufNb
    BY DEF RingIs, RingHolds
  <2>3. released = 0 /\ pbuf = NoPbuf
    BY <2>1, <2>2 DEF CpuAt
  <2> QED
    BY <2>1, <2>2, <2>3, EthAssumption DEF CpuAt, Taken
<1>2. PICK n : n = segCount + 1
  OBVIOUS
<1>3. PICK u : u = Upcoming
  OBVIOUS
<1>4. Follow(q, u) /\ CpuHolds(q, u) /\ Filled(q) /\ DmaReceives(q) /\ Given(q, u)
  BY <1>3 DEF RingIs
<1>5. /\ u.frame \in Nat /\ u.piece \in Nat /\ u.piece > 0
      /\ rxDma.frame = Idle => u.piece = 1
  BY <1>3, <1>4, UpcomingType
<1>6. n \in 1 .. Len(q)
  <2>1. SUFFICES ASSUME segCount = Len(q)
                 PROVE  FALSE
    BY <1>1, <1>2
  <2>2. rx[rxDesc].own = "cpu"
    BY DEF GetReceivedFrame
  <2>3. CASE Len(q) < RxBufNb
    <3>1. rx[Slot(t, Len(q) + 1)].own = "dma"
      BY <1>1, <2>3 DEF RingIs, RingHolds
    <3> QED
      BY <1>1, <2>1, <2>2, <3>1
  <2>4. CASE Len(q) = RxBufNb
    <3>1. ~q[Len(q)].last /\ Len(q) \in 1 .. Len(q)
      <4>1. Len(q) \in 1 .. Taken
        BY <1>1, <2>1, <2>4
      <4> QED
        BY <1>1, <1>4, <4>1 DEF CpuHolds, HasFrame
    <3>2. u.piece = q[Len(q)].data.piece + 1 /\ q[Len(q)] \in Descriptors
      BY <1>1, <1>4, <3>1, ElementOfSeq DEF Follow, DataAt
    <3>3. q[Len(q)].data.piece > 0
      <4>1. q[Len(q)].data.piece = released + Len(q)
        BY <1>1, <1>4, <2>1, <3>1 DEF CpuHolds
      <4> QED
        BY <1>1, <2>4, <4>1
    <3>4. rxDma.frame # Idle
      BY <1>5, <3>2, <3>3 DEF Descriptors
    <3> QED
      BY <1>1, <1>4, <2>4, <3>4 DEF DmaReceives
  <2> QED
    BY <1>1, <2>3, <2>4
<1>7. /\ rx[rxDesc] = q[n] /\ q[n] \in Descriptors /\ FilledBuffer(q[n])
      /\ n \in Nat /\ segCount = n - 1
  BY <1>1, <1>2, <1>4, <1>6, ElementOfSeq DEF RingIs, RingHolds, Filled
<1>8. q[n].data.piece = n /\ q[n].data.frame = q[1].data.frame
  <2>1. CASE n = 1
    BY <1>1, <1>2, <1>4, <1>6, <2>1 DEF CpuHolds, DataAt
  <2>2. CASE n # 1
    <3>1. segCount \in 1 .. Taken /\ segCount \in 1 .. Len(q) /\ segCount < Len(q)
      BY <1>1, <1>2, <1>6, <2>2
    <3>2. /\ ~q[segCount].last /\ q[segCount].data.piece = segCount
          /\ q[segCount].data.frame = q[1].data.frame
      BY <1>1, <1>4, <3>1 DEF CpuHolds, HasFrame
    <3>3. DataAt(q, u, segCount + 1) = q[n].data
      BY <1>2, <1>6 DEF DataAt
    <3> QED
      BY <1>2, <1>4, <3>1, <3>2, <3>3 DEF Follow
  <2> QED
    BY <2>1, <2>2
<1>9. segCount' = n /\ step' = (IF q[n].last THEN "received" ELSE "loop")
      /\ length' = (IF q[n].last THEN q[n].len ELSE length)
      /\ fsRxDesc' = (IF n = 1 THEN rxDesc ELSE fsRxDesc)
      /\ rxDesc' = NextRx(rxDesc)
      /\ UNCHANGED <<rx, rxDma, pbuf, released, arrived, cut, handedUp>>
  <2>1. q[n].first <=> n = 1
    BY <1>7, <1>8 DEF FilledBuffer
  <2>2. (IF q[n].first /\ ~q[n].last THEN 1 ELSE segCount + 1) = n
    BY <1>2, <2>1
  <2>3. segCount' = n /\ step' = (IF q[n].last THEN "received" ELSE "loop")
        /\ length' = (IF q[n].last THEN q[n].len ELSE length)
        /\ rxDesc' = NextRx(rxDesc)
        /\ fsRxDesc' = (IF n = 1 /\ (q[n].first \/ q[n].last) THEN rxDesc ELSE fsRxDesc)
        /\ UNCHANGED <<rx, rxDma, pbuf, released, arrived, cut, handedUp>>
    BY <1>7, <2>2 DEF GetReceivedFrame
  <2> QED
    BY <2>1, <2>3
<1>10. segCount' \in 0 .. RxBufNb /\ length' \in 0 .. MaxPieces
  BY <1>1, <1>6, <1>7, <1>9, EthAssumption DEF FilledBuffer, RxTypes
<1>11. Upcoming' = u /\ Taken' = n /\ released' = 0
  BY <1>1, <1>3, <1>7, <1>9 DEF Upcoming, Taken
<1>12. RingHolds(t, q)' /\ Filled(q)' /\ DmaReceives(q)'
  BY <1>9 DEF RingIs, RingHolds, Filled, FilledBuffer, DmaReceives
<1>13. CpuAt(t, q)'
  <2>1. rxDesc' = Slot(t, n + 1)
    <3>1. n \in 1 .. RxBufNb + 1 /\ n <= RxBufNb /\ rxDesc = Slot(t, n)
      BY <1>1, <1>2, <1>6
    <3> QED
      BY <1>9, <3>1, SlotsAre
  <2>2. t = Slot(fsRxDesc', 1)
    <3>1. CASE n = 1
      <4>1. rxDesc = t
        BY <1>1, <1>7, <3>1, SlotsAre
      <4> QED
        BY <1>1, <1>9, <3>1, <4>1, SlotsAre
    <3>2. CASE n # 1
      BY <1>1, <1>6, <1>7, <1>9, <3>2
    <3> QED
      BY <3>1, <3>2
  <2>3. released' \in 0 .. segCount' /\ pbuf' = NoPbuf /\ released' + 1 = 1
    BY <1>1, <1>6, <1>9, <1>11
  <2> QED
    BY <1>6, <1>11, <2>1, <2>2, <2>3 DEF CpuAt
<1>14. CpuHolds(q, u)'
  <2>1. HasFrame' <=> q[n].last
    BY <1>7, <1>9 DEF HasFrame
  <2>2. ASSUME NEW k \in 1 .. n
        PROVE  /\ q[k].data.piece = k /\ q[k].data.frame = q[1].data.frame
               /\ q[k].last <=> k = n /\ q[n].last
    <3>1. CASE k = n
      BY <1>8, <3>1
    <3>2. CASE k # n
      <4>1. k \in 1 .. Taken
        BY <1>1, <1>2, <1>7, <3>2
      <4> QED
        BY <1>1, <1>4, <3>2, <4>1 DEF CpuHolds, HasFrame
    <3> QED
      BY <3>1, <3>2
  <2>3. q[n].last => DataAt(q, u, n + 1).piece = 1
    BY <1>4, <1>6 DEF Follow
  <2>4. segCount' # 0 /\ segCount' > 0
    BY <1>6, <1>9
  <2>5. step' = "received" => length' = q[n].len
    BY <1>9
  <2>6. \A k \in 1 .. n : released' + k = k
    BY <1>7, <1>11
  <2> QED
    BY <1>9, <1>11, <2>1, <2>2, <2>3, <2>4, <2>5, <2>6 DEF CpuHolds, DataAt
<1>15. Given(q, u)'
  BY <1>1, <1>4, <1>9 DEF Given, WholeOrCut, Before, DataAt, FramesInOrder
<1> QED
  BY <1>4, <1>10, <1>11, <1>12, <1>13, <1>14, <1>15 DEF RingIs, Follow, DataAt

\* The copy is the frame the driver holds; a cut one may be followed by anything.
LEMMA RingAtCopy ==
  ASSUME RxTypes, NEW t \in RxSlots, NEW q \in Seq(Descriptors), RingIs(t, q),
         CopyFrame
  PROVE  RingIs(t, q)' /\ pbuf' \in Seq([frame : Nat, piece : Nat])
<1>1. PICK u, n, f :
        u = Upcoming /\ n = segCount /\ f = [i \in 1 .. length |-> rx[Walk[i]].data]
  OBVIOUS
<1>2. Follow(q, u) /\ CpuHolds(q, u) /\ Filled(q) /\ CpuAt(t, q) /\ Given(q, u)
      /\ DmaReceives(q) /\ RingHolds(t, q)
  BY <1>1 DEF RingIs
<1>3. /\ step = "received" /\ step' = "release" /\ released = 0 /\ pbuf = NoPbuf
      /\ pbuf' \in {f, NoPbuf}
      /\ UNCHANGED <<rx, rxDesc, fsRxDesc, segCount, length, rxDma, released, arrived, cut,
                     handedUp>>
  BY <1>1, <1>2 DEF CopyFrame, CpuAt
<1>4. /\ n \in 1 .. Len(q) /\ Taken = n /\ Len(q) \in Nat /\ Len(q) <= RxBufNb
      /\ RxBufNb \in Nat /\ RxBufNb > 1 /\ n \in Nat /\ MaxPieces \in Nat
  <2>1. n \in 0 .. RxBufNb /\ Len(q) \in Nat
    BY <1>1, LenProperties DEF RxTypes
  <2>2. n > 0
    BY <1>1, <1>2, <1>3 DEF CpuHolds, HasFrame
  <2> QED
    BY <1>1, <1>2, <1>3, <2>1, <2>2, EthAssumption DEF CpuAt, Taken, RingHolds
<1>5. \A k \in 1 .. n : /\ q[k].data.piece = k /\ q[k].data.frame = q[1].data.frame
                        /\ q[k] \in Descriptors /\ FilledBuffer(q[k])
  <2>1. \A k \in 1 .. n : q[k].data.piece = released + k /\ q[k].data.frame = q[1].data.frame
    BY <1>2, <1>4 DEF CpuHolds
  <2>2. \A k \in 1 .. Len(q) : q[k] \in Descriptors /\ FilledBuffer(q[k])
    BY <1>2, ElementOfSeq DEF Filled
  <2> QED
    BY <1>3, <1>4, <2>1, <2>2
<1>6. q[n].last /\ length = q[n].len /\ length \in 1 .. MaxPieces
  <2>1. q[n].last /\ length = q[n].len
    BY <1>1, <1>2, <1>3, <1>4 DEF CpuHolds, HasFrame
  <2> QED
    BY <1>4, <1>5, <2>1 DEF FilledBuffer
<1>7. PICK id \in 1 .. Len(arrived) : id = q[1].data.frame
  BY <1>4, <1>5 DEF FilledBuffer
<1>8. \A k \in n + 1 .. Len(q) + 1 : id < DataAt(q, u, k).frame
  BY <1>2, <1>4, <1>5, <1>6, <1>7 DEF Follow
<1>9. fsRxDesc = t /\ t \in Nat /\ t < RxBufNb
  BY <1>1, <1>2, <1>3, <1>4, SlotsAre DEF CpuAt, RxSlots, RxTypes
<1>10. f \in Seq([frame : Nat, piece : Nat]) /\ Len(f) = length
  <2>1. ASSUME NEW i \in 1 .. length
        PROVE  rx[Walk[i]].data \in [frame : Nat, piece : Nat]
    <3>1. PICK a \in Nat : a = fsRxDesc + i - 1
      BY <1>6, <1>9
    <3>2. a % RxBufNb \in RxSlots
      BY <1>4, <3>1 DEF RxSlots
    <3>3. Walk[i] = a % RxBufNb
      BY <3>1 DEF Walk
    <3> QED
      BY <3>2, <3>3 DEF RxTypes, Descriptors
  <2>2. length \in Nat
    BY <1>4, <1>6
  <2> QED
    BY <1>1, <2>1, <2>2, LenProperties
<1>11. \A i \in 1 .. length : i <= n => /\ rx[Walk[i]].data = [frame |-> id, piece |-> i]
                                        /\ f[i] = [frame |-> id, piece |-> i]
  <2>1. ASSUME NEW i \in 1 .. length, i <= n
        PROVE  /\ rx[Walk[i]].data = [frame |-> id, piece |-> i]
               /\ f[i] = [frame |-> id, piece |-> i]
    <3>1. PICK a \in Nat : a = fsRxDesc + i - 1 /\ a < 2 * RxBufNb /\ i \in 1 .. RxBufNb
      BY <1>4, <1>6, <1>9, <2>1
    <3>2. Walk[i] = Slot(t, i)
      <4>1. Walk[i] = a % RxBufNb
        BY <3>1 DEF Walk
      <4>2. a % RxBufNb = IF a < RxBufNb THEN a ELSE a - RxBufNb
        BY <3>1, RoundIs
      <4> QED
        BY <1>4, <1>9, <3>1, <4>1, <4>2 DEF Slot
    <3>3. rx[Walk[i]] = q[i]
      BY <1>2, <1>4, <1>6, <2>1, <3>2 DEF RingHolds
    <3>4. q[i].data = [frame |-> id, piece |-> i]
      BY <1>4, <1>5, <1>6, <1>7, <2>1 DEF Descriptors
    <3> QED
      BY <1>1, <3>3, <3>4
  <2> QED
    BY <2>1
<1>12. f # <<>> /\ f[1].frame = id
  <2>1. 1 \in 1 .. length /\ 1 <= n
    BY <1>4, <1>6
  <2>2. f[1] = [frame |-> id, piece |-> 1]
    BY <1>11, <2>1
  <2>3. f # <<>>
    BY <1>6, <1>10, EmptySeq
  <2> QED
    BY <2>2, <2>3
<1>13. WholeOrCut(f)
  <2>1. CASE id \in cut
    BY <1>12, <2>1 DEF WholeOrCut
  <2>2. CASE id \notin cut
    <3>1. length = n /\ n = arrived[id]
      BY <1>4, <1>5, <1>6, <1>7, <2>2 DEF FilledBuffer
    <3>2. \A k \in 1 .. n : rx[Walk[k]].data = [frame |-> id, piece |-> k]
      BY <1>4, <1>11, <3>1
    <3>3. f = [k \in 1 .. n |-> [frame |-> id, piece |-> k]]
      BY <1>1, <3>1, <3>2
    <3> QED
      BY <1>12, <3>1, <3>3 DEF WholeOrCut
  <2> QED
    BY <2>1, <2>2
<1>14. pbuf' \in Seq([frame : Nat, piece : Nat])
  <2>1. NoPbuf \in Seq([frame : Nat, piece : Nat])
    BY EmptySeq DEF NoPbuf
  <2> QED
    BY <1>3, <1>10, <2>1
<1>15. RingHolds(t, q)' /\ Filled(q)' /\ DmaReceives(q)' /\ Upcoming' = u
  BY <1>1, <1>2, <1>3 DEF RingHolds, Filled, FilledBuffer, DmaReceives, Upcoming
<1>16. CpuAt(t, q)'
  BY <1>2, <1>3 DEF CpuAt, Taken
<1>17. CpuHolds(q, u)'
  BY <1>2, <1>3 DEF CpuHolds, Taken, HasFrame, DataAt
<1>18. Given(q, u)'
  <2>1. ASSUME NEW i \in DOMAIN handedUp
        PROVE  /\ WholeOrCut(handedUp[i]) /\ Before(handedUp[i], q, u, n)
               /\ handedUp[i][1].frame < id
    <3>1. PICK p : p = handedUp[i]
      OBVIOUS
    <3>2. WholeOrCut(p) /\ Before(p, q, u, 0)
      BY <1>2, <1>3, <3>1 DEF Given
    <3>3. p[1].frame < DataAt(q, u, 1).frame /\ DataAt(q, u, 1).frame = id
      BY <1>4, <1>7, <3>2 DEF Before, DataAt
    <3>4. Before(p, q, u, n)
      BY <1>4, <3>2 DEF Before
    <3> QED
      BY <3>1, <3>2, <3>3, <3>4
  <2>2. pbuf' # NoPbuf => pbuf' = f
    BY <1>3
  <2>3. Before(f, q, u, n)
    BY <1>8, <1>12 DEF Before
  <2>4. Taken' = n /\ FramesInOrder
    BY <1>2, <1>3, <1>4 DEF Taken, Given
  <2>5. \A p : WholeOrCut(p) => WholeOrCut(p)'
    BY <1>3 DEF WholeOrCut
  <2>6. ASSUME NEW i \in DOMAIN handedUp'
        PROVE  /\ WholeOrCut(handedUp[i])'
               /\ Before(handedUp[i], q, u, IF step = "release" THEN Taken ELSE 0)'
               /\ pbuf' # NoPbuf => handedUp'[i][1].frame < pbuf'[1].frame
    BY <1>3, <1>12, <2>1, <2>2, <2>4 DEF WholeOrCut, Before, DataAt
  <2>7. pbuf' # NoPbuf => WholeOrCut(pbuf)' /\ Before(pbuf, q, u, Taken)'
    BY <1>3, <1>13, <2>2, <2>3, <2>4 DEF WholeOrCut, Before, DataAt
  <2>8. FramesInOrder'
    BY <1>3, <2>4 DEF FramesInOrder
  <2> QED
    BY <2>6, <2>7, <2>8 DEF Given
<1> QED
  BY <1>2, <1>14, <1>15, <1>16, <1>17, <1>18 DEF RingIs, Follow, DataAt

\* The frame copied goes up, and reception starts from an empty count.
LEMMA RingAtResume ==
  ASSUME RxTypes, NEW t \in RxSlots, NEW q \in Seq(Descriptors), RingIs(t, q),
         ResumeReception
  PROVE  RingIs(t, q)' /\ handedUp' \in Seq(Seq([frame : Nat, piece : Nat]))
<1>1. PICK u, p : u = Upcoming /\ p = pbuf
  OBVIOUS
<1>2. Follow(q, u) /\ CpuHolds(q, u) /\ Filled(q) /\ CpuAt(t, q) /\ Given(q, u)
      /\ DmaReceives(q) /\ RingHolds(t, q)
  BY <1>1 DEF RingIs
<1>3. /\ step = "release" /\ step' = "loop" /\ released = segCount
      /\ released' = 0 /\ segCount' = 0 /\ pbuf' = NoPbuf
      /\ handedUp' = (IF p = NoPbuf THEN handedUp ELSE Append(handedUp, p))
      /\ rxDma'.at = rxDma.at /\ rxDma'.frame = rxDma.frame
      /\ UNCHANGED <<rx, rxDesc, fsRxDesc, length, arrived, cut>>
  BY <1>1 DEF ResumeReception, RxTypes
<1>4. Taken = 0 /\ Taken' = 0 /\ segCount \in Nat
  BY <1>3, EthAssumption DEF Taken, RxTypes
<1>5. /\ handedUp \in Seq(Seq([frame : Nat, piece : Nat])) /\ Len(handedUp) \in Nat
      /\ p \in Seq([frame : Nat, piece : Nat])
  BY <1>1, LenProperties DEF RxTypes
<1>6. /\ handedUp' \in Seq(Seq([frame : Nat, piece : Nat]))
      /\ \A i \in DOMAIN handedUp' :
           \/ i \in DOMAIN handedUp /\ handedUp'[i] = handedUp[i]
           \/ p # NoPbuf /\ i = Len(handedUp) + 1 /\ handedUp'[i] = p
      /\ DOMAIN handedUp = 1 .. Len(handedUp)
  <2>1. CASE p = NoPbuf
    BY <1>3, <1>5, <2>1, LenProperties
  <2>2. CASE p # NoPbuf
    <3>1. /\ Append(handedUp, p) \in Seq(Seq([frame : Nat, piece : Nat]))
          /\ Len(Append(handedUp, p)) = Len(handedUp) + 1
          /\ Append(handedUp, p)[Len(handedUp) + 1] = p
          /\ \A i \in 1 .. Len(handedUp) : Append(handedUp, p)[i] = handedUp[i]
      BY <1>5, AppendProperties
    <3>2. /\ DOMAIN handedUp' = 1 .. Len(handedUp) + 1
          /\ DOMAIN handedUp = 1 .. Len(handedUp)
      BY <1>3, <1>5, <2>2, <3>1, LenProperties
    <3> QED
      BY <1>3, <1>5, <2>2, <3>1, <3>2
  <2> QED
    BY <2>1, <2>2
<1>7. RingHolds(t, q)' /\ Filled(q)' /\ DmaReceives(q)' /\ Upcoming' = u
  BY <1>1, <1>2, <1>3 DEF RingHolds, Filled, FilledBuffer, DmaReceives, Upcoming
<1>8. CpuAt(t, q)'
  BY <1>2, <1>3, <1>4 DEF CpuAt
<1>9. CpuHolds(q, u)'
  <2>1. DataAt(q, u, 1).piece = 1
    BY <1>2, <1>3, <1>4 DEF CpuHolds, HasFrame
  <2> QED
    BY <1>3, <1>4, <2>1 DEF CpuHolds, HasFrame, DataAt
<1>10. Given(q, u)'
  <2>1. ASSUME NEW i \in DOMAIN handedUp'
        PROVE  WholeOrCut(handedUp'[i]) /\ Before(handedUp'[i], q, u, 0)
    BY <1>1, <1>2, <1>3, <1>4, <1>6 DEF Given
  <2>2. FramesInOrder'
    <3>1. ASSUME NEW i \in DOMAIN handedUp', NEW j \in DOMAIN handedUp', i < j
          PROVE  handedUp'[i][1].frame < handedUp'[j][1].frame
      <4>1. i \in DOMAIN handedUp /\ handedUp'[i] = handedUp[i]
        <5>1. PICK m \in Nat : m = Len(handedUp)
          BY <1>5
        <5>2. DOMAIN handedUp = 1 .. m
          BY <1>6, <5>1
        <5>3. \A l \in DOMAIN handedUp' : l \in 1 .. m \/ l = m + 1
          BY <1>6, <5>1, <5>2
        <5>4. i # m + 1
          BY <3>1, <5>3
        <5> QED
          BY <1>6, <5>1, <5>4
      <4>2. CASE j \in DOMAIN handedUp /\ handedUp'[j] = handedUp[j]
        BY <1>2, <3>1, <4>1, <4>2 DEF Given, FramesInOrder
      <4>3. CASE p # NoPbuf /\ handedUp'[j] = p
        BY <1>1, <1>2, <4>1, <4>3 DEF Given
      <4> QED
        BY <1>6, <4>2, <4>3
    <3> QED
      BY <3>1 DEF FramesInOrder
  <2> QED
    BY <1>3, <1>4, <2>1, <2>2 DEF Given, WholeOrCut, Before, DataAt
<1> QED
  BY <1>2, <1>6, <1>7, <1>8, <1>9, <1>10 DEF RingIs, Follow, DataAt

\* The first descriptor of the queue goes back to the DMA.
LEMMA RingAtRelease ==
  ASSUME RxTypes, NEW t \in RxSlots, NEW q \in Seq(Descriptors), RingIs(t, q),
         ReleaseDescriptor
  PROVE  \E s \in RxSlots : \E r \in Seq(Descriptors) : RingIs(s, r)'
<1>1. PICK u, n : u = Upcoming /\ n = Taken
  OBVIOUS
<1>2. Follow(q, u) /\ CpuHolds(q, u) /\ Filled(q) /\ CpuAt(t, q) /\ Given(q, u)
      /\ DmaReceives(q) /\ RingHolds(t, q)
  BY <1>1 DEF RingIs
<1>3. /\ step = "release" /\ step' = "release" /\ released < segCount
      /\ released' = released + 1 /\ released \in Nat /\ segCount \in Nat
      /\ UNCHANGED <<rxDesc, fsRxDesc, segCount, length, rxDma, pbuf, arrived, cut,
                     handedUp>>
  <2>1. released \in 0 .. segCount /\ segCount \in 0 .. RxBufNb
    BY DEF RxTypes
  <2> QED
    BY <2>1, EthAssumption DEF ReleaseDescriptor
<1>4. /\ n \in 1 .. Len(q) /\ n = segCount - released /\ Taken' = n - 1 /\ Len(q) \in Nat
      /\ Len(q) <= RxBufNb /\ RxBufNb \in Nat /\ RxBufNb > 1 /\ segCount <= RxBufNb
      /\ rxDma.at = Slot(t, Len(q) + 1) /\ rxDesc = Slot(t, n + 1)
      /\ t = Slot(fsRxDesc, released + 1) /\ fsRxDesc \in RxSlots
  <2>1. /\ n = segCount - released /\ segCount' = segCount /\ released' = released + 1
        /\ n <= Len(q) /\ rxDesc = Slot(t, n + 1)
        /\ segCount > 0 => t = Slot(fsRxDesc, released + 1)
    BY <1>1, <1>2, <1>3 DEF CpuAt, Taken
  <2>2. Len(q) \in Nat /\ Len(q) <= RxBufNb /\ rxDma.at = Slot(t, Len(q) + 1)
    BY <1>2, LenProperties DEF RingHolds
  <2>3. RxBufNb \in Nat /\ RxBufNb > 1 /\ segCount <= RxBufNb /\ fsRxDesc \in RxSlots
    BY EthAssumption DEF RxTypes
  <2>4. Taken' = n - 1
    BY <1>3, <2>1 DEF Taken
  <2> QED
    BY <1>3, <2>1, <2>2, <2>3, <2>4
<1>5. (fsRxDesc + released) % RxBufNb = t
  <2>1. fsRxDesc \in Nat /\ fsRxDesc < RxBufNb /\ released \in Nat /\ released < RxBufNb
        /\ RxBufNb \in Nat /\ t = Slot(fsRxDesc, released + 1)
    BY <1>3, <1>4 DEF RxSlots
  <2>2. PICK a \in Nat : a = fsRxDesc + released
    BY <2>1
  <2>3. a < 2 * RxBufNb
    BY <2>1, <2>2
  <2>4. a % RxBufNb = IF a < RxBufNb THEN a ELSE a - RxBufNb
    BY <2>3, RoundIs
  <2>5. t = IF a < RxBufNb THEN a ELSE a - RxBufNb
    BY <2>1, <2>2 DEF Slot
  <2> QED
    BY <2>2, <2>4, <2>5
<1>6. PICK s : s = Slot(t, 2)
  OBVIOUS
<1>7. /\ s \in RxSlots /\ s = Slot(fsRxDesc, released' + 1)
      /\ \A k \in 1 .. RxBufNb : Slot(s, k) = Slot(t, k + 1)
  <2>1. 1 \in 1 .. RxBufNb /\ \A k \in 1 .. RxBufNb : s \in RxSlots /\ Slot(s, k) = Slot(t, k + 1)
    BY <1>4, <1>6, SlotsShift
  <2>2. PICK i \in 1 .. RxBufNb : i = released + 1
    BY <1>3, <1>4
  <2>3. NextRx(t) = Slot(t, 2)
    BY <1>4, SlotsAre
  <2>4. NextRx(Slot(fsRxDesc, i)) = Slot(fsRxDesc, i + 1)
    BY <1>4, SlotsAre
  <2> QED
    BY <1>3, <1>4, <1>6, <2>1, <2>2, <2>3, <2>4
<1>8. PICK r \in Seq(Descriptors) :
        Len(r) = Len(q) - 1 /\ \A k \in 1 .. Len(r) : r[k] = q[k + 1]
  <2>1. q # <<>>
    BY <1>4, EmptySeq
  <2>2. /\ Tail(q) \in Seq(Descriptors) /\ Len(Tail(q)) = Len(q) - 1
        /\ \A k \in 1 .. Len(Tail(q)) : Tail(q)[k] = q[k + 1]
    BY <2>1, HeadTailProperties
  <2> QED
    BY <2>2
<1>9. \A k \in 1 .. Len(r) + 1 : DataAt(r, u, k) = DataAt(q, u, k + 1)
  <2>1. ASSUME NEW k \in 1 .. Len(r) + 1
        PROVE  DataAt(r, u, k) = DataAt(q, u, k + 1)
    <3>1. Len(r) = Len(q) - 1 /\ Len(q) \in Nat /\ Len(q) > 0 /\ k \in Nat
      BY <1>4, <1>8
    <3>2. CASE k <= Len(r)
      <4>1. k \in 1 .. Len(r) /\ k + 1 <= Len(q)
        BY <3>1, <3>2
      <4> QED
        BY <1>8, <3>2, <4>1 DEF DataAt
    <3>3. CASE ~(k <= Len(r))
      <4>1. ~(k + 1 <= Len(q))
        BY <3>1, <3>3
      <4> QED
        BY <3>3, <4>1 DEF DataAt
    <3> QED
      BY <3>2, <3>3
  <2> QED
    BY <2>1
<1>10. /\ \A k \in 2 .. RxBufNb : rx'[Slot(t, k)] = rx[Slot(t, k)]
       /\ rx'[t].own = "dma"
  <2>1. \A k \in 1 .. RxBufNb : Slot(t, k) \in RxSlots
    BY <1>4, SlotsAre
  <2>2. \A k \in 2 .. RxBufNb : Slot(t, k) # t
    <3>1. 1 \in 1 .. RxBufNb /\ Slot(t, 1) = t
      BY <1>4, SlotsAre
    <3>2. \A k \in 1 .. RxBufNb : Slot(t, 1) = Slot(t, k) => 1 = k
      BY <1>4, <3>1, SlotsAre
    <3> QED
      BY <1>4, <3>1, <3>2
  <2>3. rx' = [rx EXCEPT ![t] = [rx[t] EXCEPT !.own = "dma"]]
    BY <1>5 DEF ReleaseDescriptor
  <2> QED
    BY <2>1, <2>2, <2>3 DEF RxTypes, Descriptors
<1>11. RingHolds(s, r)'
  <2>1. ASSUME NEW k \in 1 .. Len(r)
        PROVE  rx'[Slot(s, k)] = r[k]
    <3>1. PICK l \in 2 .. Len(q) : l = k + 1
      BY <1>4, <1>8
    <3>2. l \in 1 .. Len(q) /\ l \in 2 .. RxBufNb /\ k \in 1 .. RxBufNb
      BY <1>4, <3>1
    <3>3. Slot(s, k) = Slot(t, l) /\ r[k] = q[l]
      BY <1>7, <1>8, <3>1, <3>2
    <3> QED
      BY <1>2, <1>10, <3>2, <3>3 DEF RingHolds
  <2>2. ASSUME NEW k \in Len(r) + 1 .. RxBufNb
        PROVE  rx'[Slot(s, k)].own = "dma"
    <3>1. PICK l \in Len(q) + 1 .. RxBufNb + 1 : l = k + 1 /\ k \in 1 .. RxBufNb
      BY <1>4, <1>8
    <3>2. Slot(s, k) = Slot(t, l)
      BY <1>7, <3>1
    <3>3. CASE l = RxBufNb + 1
      <4>1. Slot(t, l) = t
        BY <1>4, <3>3, SlotsAre
      <4> QED
        BY <1>10, <3>2, <4>1
    <3>4. CASE l # RxBufNb + 1
      <4>1. l \in 2 .. RxBufNb /\ l \in Len(q) + 1 .. RxBufNb
        BY <1>4, <3>1, <3>4
      <4> QED
        BY <1>2, <1>10, <3>2, <4>1 DEF RingHolds
    <3> QED
      BY <3>3, <3>4
  <2>3. rxDma'.at = Slot(s, Len(r) + 1)
    <3>1. Len(q) \in 1 .. RxBufNb /\ Len(r) + 1 = Len(q)
      BY <1>4, <1>8
    <3> QED
      BY <1>3, <1>4, <1>7, <3>1
  <2>4. Len(r) <= RxBufNb
    BY <1>4, <1>8
  <2> QED
    BY <2>1, <2>2, <2>3, <2>4 DEF RingHolds
<1>12. Filled(r)'
  <2>1. \A k \in 1 .. Len(q) : FilledBuffer(q[k])'
    BY <1>2, <1>3 DEF Filled, FilledBuffer
  <2>2. \A k \in 1 .. Len(r) : FilledBuffer(r[k])'
    BY <1>4, <1>8, <2>1
  <2> QED
    BY <2>2 DEF Filled
<1>13. Follow(r, u)
  <2>1. ASSUME NEW k \in 1 .. Len(r)
        PROVE  IF r[k].last THEN DataAt(r, u, k + 1).piece = 1
               ELSE /\ DataAt(r, u, k + 1).frame = r[k].data.frame
                    /\ DataAt(r, u, k + 1).piece = r[k].data.piece + 1
    <3>1. PICK l \in 1 .. Len(q) : l = k + 1
      BY <1>4, <1>8
    <3>2. r[k] = q[l] /\ DataAt(r, u, k + 1) = DataAt(q, u, l + 1)
      BY <1>4, <1>8, <1>9, <3>1
    <3> QED
      BY <1>2, <3>2 DEF Follow
  <2>2. ASSUME NEW j \in 1 .. Len(r), NEW k \in j + 1 .. Len(r) + 1, r[j].last
        PROVE  r[j].data.frame < DataAt(r, u, k).frame
    <3>1. PICK i \in 1 .. Len(q) : i = j + 1
      BY <1>4, <1>8
    <3>2. PICK l \in i + 1 .. Len(q) + 1 : l = k + 1
      BY <1>4, <1>8, <3>1
    <3>3. r[j] = q[i] /\ DataAt(r, u, k) = DataAt(q, u, l)
      BY <1>4, <1>8, <1>9, <3>1, <3>2
    <3> QED
      BY <1>2, <2>2, <3>3 DEF Follow
  <2> QED
    BY <2>1, <2>2 DEF Follow
<1>14. DmaReceives(r)' /\ Upcoming' = u
  BY <1>1, <1>2, <1>3, <1>4, <1>8 DEF DmaReceives, Upcoming
<1>15. CpuAt(s, r)'
  <2>1. rxDesc' = Slot(s, n)
    <3>1. n \in 1 .. RxBufNb
      BY <1>4
    <3> QED
      BY <1>3, <1>4, <1>7, <3>1
  <2>2. released' \in 0 .. segCount' /\ Taken' <= Len(r) /\ Taken' + 1 = n
    BY <1>3, <1>4, <1>8
  <2> QED
    BY <1>3, <1>7, <2>1, <2>2 DEF CpuAt
<1>16. CpuHolds(r, u)'
  <2>1. ASSUME NEW k \in 1 .. n - 1
        PROVE  /\ r[k].data.piece = released + 1 + k /\ r[k].data.frame = q[1].data.frame
               /\ r[k].last <=> k = n - 1
    <3>1. PICK l \in 1 .. n : l = k + 1
      BY <1>4
    <3>2. r[k] = q[l]
      BY <1>4, <1>8, <3>1
    <3>3. /\ q[l].data.piece = released + l /\ q[l].data.frame = q[1].data.frame
          /\ q[l].last <=> l = n
      BY <1>1, <1>2, <1>3, <3>1 DEF CpuHolds, HasFrame
    <3>4. released \in Nat /\ k \in Nat /\ n \in Nat
      BY <1>3, <1>4
    <3>5. released + l = released + 1 + k /\ (l = n <=> k = n - 1)
      BY <3>1, <3>4
    <3> QED
      BY <3>2, <3>3, <3>5
  <2>2. \A k \in 1 .. n - 1 : r[k].data.frame = r[1].data.frame
    <3>1. ASSUME NEW k \in 1 .. n - 1
          PROVE  r[k].data.frame = r[1].data.frame
      <4>1. 1 \in 1 .. n - 1
        BY <1>4
      <4> QED
        BY <2>1, <4>1
    <3> QED
      BY <3>1
  <2>3. DataAt(r, u, n).piece = 1 /\ n - 1 + 1 = n
    <3>1. DataAt(q, u, n + 1).piece = 1
      BY <1>1, <1>2, <1>3 DEF CpuHolds, HasFrame
    <3> QED
      BY <1>4, <1>8, <1>9, <3>1
  <2>4. segCount' > 0 /\ HasFrame' /\ step' # "received"
    BY <1>3 DEF HasFrame
  <2> QED
    BY <1>3, <1>4, <2>1, <2>2, <2>3, <2>4 DEF CpuHolds, DataAt
<1>17. Given(r, u)'
  <2>1. ASSUME NEW p, Before(p, q, u, n)
        PROVE  Before(p, r, u, n - 1)
    <3>1. ASSUME NEW k \in n - 1 + 1 .. Len(r) + 1
          PROVE  p[1].frame < DataAt(r, u, k).frame
      <4>1. PICK l \in n + 1 .. Len(q) + 1 : l = k + 1 /\ k \in 1 .. Len(r) + 1
        BY <1>4, <1>8
      <4> QED
        BY <1>9, <2>1, <4>1 DEF Before
    <3> QED
      BY <3>1 DEF Before
  <2>2. \A p : WholeOrCut(p) => WholeOrCut(p)'
    BY <1>3 DEF WholeOrCut
  <2>3. ASSUME NEW i \in DOMAIN handedUp
        PROVE  /\ WholeOrCut(handedUp[i]) /\ Before(handedUp[i], r, u, n - 1)
               /\ pbuf # NoPbuf => handedUp[i][1].frame < pbuf[1].frame
    BY <1>1, <1>2, <1>3, <2>1 DEF Given
  <2>4. pbuf # NoPbuf => WholeOrCut(pbuf) /\ Before(pbuf, r, u, n - 1)
    BY <1>1, <1>2, <2>1 DEF Given
  <2>5. FramesInOrder'
    BY <1>2, <1>3 DEF Given, FramesInOrder
  <2> QED
    BY <1>3, <1>4, <2>2, <2>3, <2>4, <2>5 DEF Given, Before, DataAt, WholeOrCut
<1>18. RingIs(s, r)'
  BY <1>11, <1>12, <1>13, <1>14, <1>15, <1>16, <1>17 DEF RingIs, Follow, DataAt
<1> QED
  BY <1>7, <1>18

\* The types of what the driver and the DMA change in the descriptors.
LEMMA RxDescriptorsType ==
  ASSUME RxTypes, [EthNext]_vars
  PROVE  rx' \in [RxSlots -> Descriptors]
<1>0. RxBufNb \in Nat /\ RxBufNb > 1 /\ MaxPieces \in Nat /\ rx \in [RxSlots -> Descriptors]
  BY EthAssumption DEF RxTypes
<1>1. CASE RxWrite \/ RxCut
  <2>1. /\ rxDma.frame # Idle
        /\ rxDma \in [at : RxSlots, runs : BOOLEAN, frame : {Idle} \cup (Nat \X Nat)]
    BY <1>1 DEF RxWrite, RxCut, RxTypes
  <2>2. PICK f \in Nat, m \in Nat, at \in RxSlots :
          f = rxDma.frame[1] /\ m = rxDma.frame[2] /\ at = rxDma.at
    BY <2>1
  <2>3. PICK first \in BOOLEAN : first = (rxDma.frame[2] = 1)
    OBVIOUS
  <2>4. \E last \in BOOLEAN : \E len \in Nat : WriteBuffer(last, len)
    <3>1. CASE RxWrite
      <4>1. PICK last \in BOOLEAN : last = (rxDma.frame[2] = arrived[rxDma.frame[1]])
        OBVIOUS
      <4>2. PICK len \in Nat : len = IF last THEN rxDma.frame[2] ELSE 0
        BY <2>2
      <4>3. WriteBuffer(last, len)
        BY <3>1, <4>1, <4>2 DEF RxWrite
      <4> QED
        BY <4>3
    <3>2. CASE RxCut
      <4>1. PICK len \in 1 .. MaxPieces : WriteBuffer(TRUE, len)
        BY <3>2 DEF RxCut
      <4>2. PICK last \in BOOLEAN : last = TRUE
        OBVIOUS
      <4>3. len \in Nat
        BY <1>0
      <4>4. WriteBuffer(last, len)
        BY <4>1, <4>2, Zenon
      <4> QED
        BY <4>3, <4>4
    <3> QED
      BY <1>1, <3>1, <3>2
  <2>5. PICK last \in BOOLEAN, len \in Nat : WriteBuffer(last, len)
    BY <2>4
  <2>6. PICK d : d = RxDescriptor("cpu", first, last, len, f, m)
    OBVIOUS
  <2>7. d \in Descriptors
    BY <2>2, <2>6 DEF RxDescriptor, Descriptors
  <2>8. rx' = [rx EXCEPT ![at] = d]
    BY <2>2, <2>3, <2>5, <2>6 DEF WriteBuffer
  <2> QED
    BY <1>0, <2>7, <2>8
<1>2. CASE ReleaseDescriptor
  <2>1. PICK at : at = (fsRxDesc + released) % RxBufNb
    OBVIOUS
  <2>2. rx' = [rx EXCEPT ![at].own = "dma"]
    BY <1>2, <2>1 DEF ReleaseDescriptor
  <2> QED
    BY <1>0, <2>2 DEF Descriptors
<1>3. CASE UNCHANGED rx
  BY <1>0, <1>3
<1> QED
  BY <1>1, <1>2, <1>3
     DEF EthNext, Cpu, Dma, GetReceivedFrame, CopyFrame, ResumeReception, Output, TransmitFrame,
         ResumeTransmission, FrameArrives, RxSuspend, TxSend, TxSuspend, vars, rxVars

\* The DMA is at a descriptor of the ring.
LEMMA RxDmaType ==
  ASSUME RxTypes, [EthNext]_vars
  PROVE  rxDma' \in [at : RxSlots, runs : BOOLEAN, frame : {Idle} \cup (Nat \X Nat)]
<1>0. /\ RxBufNb \in Nat /\ RxBufNb > 1
      /\ rxDma \in [at : RxSlots, runs : BOOLEAN, frame : {Idle} \cup (Nat \X Nat)]
  BY EthAssumption DEF RxTypes
<1>1. CASE RxWrite \/ RxCut
  <2>1. PICK s \in RxSlots : s = NextRx(rxDma.at)
    <3>1. rxDma.at \in Nat
      BY <1>0 DEF RxSlots
    <3> QED
      BY <1>0, <3>1 DEF NextRx, RxSlots
  <2>2. rxDma.frame \in Nat \X Nat
    BY <1>0, <1>1 DEF RxWrite, RxCut
  <2>3. PICK f \in {Idle} \cup (Nat \X Nat) : rxDma' = [rxDma EXCEPT !.at = s, !.frame = f]
    <3>1. PICK g \in Nat \X Nat : g = <<rxDma.frame[1], rxDma.frame[2] + 1>>
      <4>1. PICK f \in Nat, m \in Nat : f = rxDma.frame[1] /\ m = rxDma.frame[2]
        BY <2>2
      <4>2. <<f, m + 1>> \in Nat \X Nat
        BY <4>1
      <4> QED
        BY <4>1, <4>2
    <3>2. rxDma' = [rxDma EXCEPT !.at = s, !.frame = Idle]
          \/ rxDma' = [rxDma EXCEPT !.at = s, !.frame = g]
      BY <1>1, <2>1, <3>1 DEF RxWrite, RxCut
    <3> QED
      BY <3>1, <3>2
  <2> QED
    BY <1>0, <2>1, <2>3
<1>2. CASE \E n \in 1 .. MaxPieces : FrameArrives(n)
  <2>1. PICK n \in 1 .. MaxPieces : FrameArrives(n)
    BY <1>2
  <2>2. PICK m \in Nat : m = Len(arrived')
    BY <2>1, AppendProperties, LenProperties, EthAssumption DEF FrameArrives, RxTypes
  <2>3. PICK g \in Nat \X Nat : g = <<m, 1>>
    BY <2>2
  <2>4. rxDma' = rxDma \/ rxDma' = [rxDma EXCEPT !.runs = TRUE, !.frame = g]
    BY <2>1, <2>2, <2>3 DEF FrameArrives
  <2> QED
    BY <1>0, <2>3, <2>4
<1>3. CASE RxSuspend \/ ResumeReception \/ UNCHANGED rxDma
  <2>1. PICK b \in BOOLEAN : rxDma' = [rxDma EXCEPT !.runs = b]
    BY <1>0, <1>3 DEF RxSuspend, ResumeReception
  <2> QED
    BY <1>0, <2>1
<1> QED
  BY <1>1, <1>2, <1>3
     DEF EthNext, Cpu, Dma, GetReceivedFrame, CopyFrame, ReleaseDescriptor, Output, TransmitFrame,
         ResumeTransmission, TxSend, TxSuspend, vars, rxVars

\* The types of the rest of what a step changes; those of the driver's count and of the
\* pbuf depend on where it is on the ring.
LEMMA RxTypesKept ==
  ASSUME RxTypes, [EthNext]_vars,
         segCount' \in 0 .. RxBufNb, released' \in 0 .. segCount', length' \in 0 .. MaxPieces,
         pbuf' \in Seq([frame : Nat, piece : Nat]),
         handedUp' \in Seq(Seq([frame : Nat, piece : Nat])),
         RxCut => rxDma.frame[1] \in DOMAIN arrived
  PROVE  RxTypes'
<1>0. RxBufNb \in Nat /\ RxBufNb > 1 /\ MaxPieces \in Nat
  BY EthAssumption
<1>1. /\ rxDesc' \in RxSlots /\ fsRxDesc' \in RxSlots
      /\ step' \in {"loop", "received", "release", "transmit", "demand"} /\ rbus' \in BOOLEAN
  <2>1. NextRx(rxDesc) \in RxSlots
    BY <1>0 DEF NextRx, RxTypes, RxSlots
  <2>2. CASE Cpu
    BY <2>1, <2>2 DEF Cpu, GetReceivedFrame, CopyFrame, ReleaseDescriptor, ResumeReception,
       Output, TransmitFrame, ResumeTransmission, rxVars, rxCpuVars, RxTypes
  <2>3. CASE Dma
    BY <2>3 DEF Dma, FrameArrives, RxWrite, RxCut, RxSuspend, TxSend, TxSuspend,
       rxVars, rxCpuVars, RxTypes
  <2>4. CASE UNCHANGED vars
    BY <2>4 DEF vars, rxVars, rxCpuVars, RxTypes
  <2> QED
    BY <2>2, <2>3, <2>4 DEF EthNext
<1>2. arrived' \in Seq(1 .. MaxPieces) /\ cut' \subseteq DOMAIN arrived'
  <2>1. CASE \E n \in 1 .. MaxPieces : FrameArrives(n)
    <3>1. PICK n \in 1 .. MaxPieces : arrived' = Append(arrived, n) /\ cut' = cut
      BY <2>1 DEF FrameArrives
    <3> QED
      BY <3>1, AppendProperties, LenProperties DEF RxTypes
  <2>2. CASE UNCHANGED <<arrived, cut>>
    BY <2>2 DEF RxTypes
  <2>3. CASE RxCut
    BY <2>3 DEF RxCut, RxTypes
  <2> QED
    BY <2>1, <2>2, <2>3
       DEF EthNext, Cpu, Dma, GetReceivedFrame, CopyFrame, ReleaseDescriptor, ResumeReception,
           Output, TransmitFrame, ResumeTransmission, RxWrite, RxSuspend, TxSend, TxSuspend,
           vars, rxVars
<1> QED
  BY <1>1, <1>2, RxDescriptorsType, RxDmaType DEF RxTypes

\* A step of the driver or the DMA leaves the ring a queue.
LEMMA RingStep ==
  ASSUME RxTypes, [EthNext]_vars, NEW t \in RxSlots, NEW q \in Seq(Descriptors), RingIs(t, q)
  PROVE  /\ \E s \in RxSlots : \E r \in Seq(Descriptors) : RingIs(s, r)'
         /\ segCount' \in 0 .. RxBufNb /\ length' \in 0 .. MaxPieces
         /\ pbuf' \in Seq([frame : Nat, piece : Nat])
         /\ handedUp' \in Seq(Seq([frame : Nat, piece : Nat]))
<1>1. /\ segCount \in 0 .. RxBufNb /\ length \in 0 .. MaxPieces
      /\ pbuf \in Seq([frame : Nat, piece : Nat])
      /\ handedUp \in Seq(Seq([frame : Nat, piece : Nat]))
      /\ RxBufNb \in Nat
  BY EthAssumption DEF RxTypes
<1>2. CASE GetReceivedFrame
  BY <1>1, <1>2, RingAtGet DEF GetReceivedFrame
<1>3. CASE CopyFrame
  BY <1>1, <1>3, RingAtCopy DEF CopyFrame
<1>4. CASE ReleaseDescriptor
  BY <1>1, <1>4, RingAtRelease DEF ReleaseDescriptor
<1>5. CASE ResumeReception
  <2>1. pbuf' = <<>> /\ segCount' = 0 /\ length' = length
    BY <1>5 DEF ResumeReception, NoPbuf
  <2>2. pbuf' \in Seq([frame : Nat, piece : Nat])
    BY <2>1, EmptySeq
  <2>3. RingIs(t, q)' /\ handedUp' \in Seq(Seq([frame : Nat, piece : Nat]))
    BY <1>5, RingAtResume
  <2> QED
    BY <1>1, <2>1, <2>2, <2>3
<1>6. CASE \E n \in 1 .. MaxPieces : FrameArrives(n)
  BY <1>1, <1>6, RingAtArrival DEF FrameArrives, rxCpuVars
<1>7. CASE RxWrite \/ RxCut
  BY <1>1, <1>7, RingAtRxWrite DEF RxWrite, RxCut, rxCpuVars
<1>8. CASE \/ Output \/ TransmitFrame \/ ResumeTransmission \/ RxSuspend \/ TxSend \/ TxSuspend
           \/ UNCHANGED vars
  <2>1. UNCHANGED <<rx, rxCpuVars, arrived, cut>>
    BY <1>8 DEF Output, TransmitFrame, ResumeTransmission, RxSuspend, TxSend, TxSuspend, vars, rxVars
  <2>2. rxDma'.at = rxDma.at /\ rxDma'.frame = rxDma.frame
    BY <1>8 DEF Output, TransmitFrame, ResumeTransmission, RxSuspend, TxSend, TxSuspend, vars, rxVars,
                RxTypes
  <2>3. step' = step \/ {step, step'} \subseteq {"loop", "transmit", "demand"}
    BY <1>8 DEF Output, TransmitFrame, ResumeTransmission, RxSuspend, TxSend, TxSuspend, vars
  <2>4. RingIs(t, q)'
    BY <2>1, <2>2, <2>3, RingStays
  <2> QED
    BY <1>1, <2>1, <2>4 DEF rxCpuVars
<1> QED
  BY <1>2, <1>3, <1>4, <1>5, <1>6, <1>7, <1>8 DEF EthNext, Cpu, Dma

\* At the start the DMA owns the whole ring.
LEMMA RxInit == EthInit => RxInv
<1> SUFFICES ASSUME EthInit
             PROVE  RxInv
  OBVIOUS
<1>0. RxBufNb \in Nat /\ RxBufNb > 1 /\ MaxPieces \in Nat /\ 0 \in RxSlots
  BY EthAssumption DEF RxSlots
<1>1. RxTypes
  <2>1. <<>> \in Seq([frame : Nat, piece : Nat]) /\ <<>> \in Seq(1 .. MaxPieces)
        /\ <<>> \in Seq(Seq([frame : Nat, piece : Nat]))
    BY EmptySeq
  <2>2. rx \in [RxSlots -> Descriptors]
    BY DEF EthInit, RxDescriptor, Descriptors
  <2>3. rxDma \in [at : RxSlots, runs : BOOLEAN, frame : {Idle} \cup (Nat \X Nat)]
    BY <1>0 DEF EthInit
  <2>4. /\ rxDesc \in RxSlots /\ fsRxDesc \in RxSlots /\ segCount \in 0 .. RxBufNb
        /\ length \in 0 .. MaxPieces /\ released \in 0 .. segCount
        /\ step \in {"loop", "received", "release", "transmit", "demand"}
    <3>1. rxDesc = 0 /\ fsRxDesc = 0 /\ segCount = 0 /\ length = 0 /\ step = "loop" /\ released = 0
      BY DEF EthInit
    <3> QED
      BY <1>0, <3>1
  <2>5. /\ pbuf \in Seq([frame : Nat, piece : Nat]) /\ arrived \in Seq(1 .. MaxPieces)
        /\ cut \subseteq DOMAIN arrived /\ handedUp \in Seq(Seq([frame : Nat, piece : Nat]))
    <3>1. pbuf = <<>> /\ arrived = <<>> /\ handedUp = <<>> /\ cut = {}
      BY DEF EthInit, NoPbuf
    <3> QED
      BY <2>1, <3>1
  <2>6. rbus \in BOOLEAN
    BY Zenon DEF EthInit
  <2> QED
    BY <2>2, <2>3, <2>4, <2>5, <2>6 DEF RxTypes
<1>2. PICK q \in Seq(Descriptors) : q = <<>> /\ Len(q) = 0
  BY EmptySeq
<1>3. RingHolds(0, q)
  <2>1. \A k \in 1 .. RxBufNb : Slot(0, k) \in RxSlots
    BY <1>0, SlotsAre
  <2>2. Slot(0, 1) = 0
    BY <1>0 DEF Slot
  <2> QED
    BY <1>0, <1>2, <2>1, <2>2 DEF RingHolds, EthInit, RxDescriptor
<1>4. Filled(q) /\ Follow(q, Upcoming) /\ DmaReceives(q)
  BY <1>2 DEF Filled, Follow, DmaReceives, EthInit
<1>5. Taken = 0
  BY DEF Taken, EthInit
<1>6. CpuAt(0, q)
  <2>1. Slot(0, 1) = 0
    BY <1>0 DEF Slot
  <2> QED
    BY <1>2, <1>5, <2>1 DEF CpuAt, EthInit
<1>7. CpuHolds(q, Upcoming)
  <2>1. Upcoming.piece = 1
    BY DEF Upcoming, EthInit
  <2> QED
    BY <1>2, <1>5, <2>1 DEF CpuHolds, HasFrame, DataAt, EthInit
<1>8. Given(q, Upcoming)
  BY DEF Given, FramesInOrder, EthInit
<1> QED
  BY <1>0, <1>1, <1>2, <1>3, <1>4, <1>6, <1>7, <1>8 DEF RxInv, RingIs

\* Every step of the driver and the DMA keeps the receive ring a queue.
LEMMA RxStep ==
  ASSUME RxInv, [EthNext]_vars
  PROVE  RxInv'
<1>1. RxTypes
  BY DEF RxInv
<1>2. PICK t \in RxSlots, q \in Seq(Descriptors) : RingIs(t, q)
  BY DEF RxInv
<1>3. /\ \E s \in RxSlots : \E r \in Seq(Descriptors) : RingIs(s, r)'
      /\ segCount' \in 0 .. RxBufNb /\ length' \in 0 .. MaxPieces
      /\ pbuf' \in Seq([frame : Nat, piece : Nat])
      /\ handedUp' \in Seq(Seq([frame : Nat, piece : Nat]))
  BY <1>1, <1>2, RingStep
<1>4. released' \in 0 .. segCount'
  BY <1>3 DEF RingIs, CpuAt
<1>5. RxCut => rxDma.frame[1] \in DOMAIN arrived
  <2>1. DmaReceives(q) /\ Len(arrived) \in Nat /\ DOMAIN arrived = 1 .. Len(arrived)
    BY <1>1, <1>2, LenProperties DEF RingIs, RxTypes
  <2> QED
    BY <2>1 DEF DmaReceives, RxCut
<1>6. RxTypes'
  BY <1>1, <1>3, <1>4, <1>5, RxTypesKept
<1>7. (\E s \in RxSlots : \E r \in Seq(Descriptors) : RingIs(s, r))'
  BY <1>3
<1> QED
  BY <1>6, <1>7 DEF RxInv

\* What HAL_ETH_GetReceivedFrame finds and low_level_input copies is one frame as it
\* came, for every size of the ring and of the frames: whatever the DMA fills while the
\* driver is between two descriptors, two calls or two releases, no buffer of another
\* frame gets among those of this one.  The frames the DMA had to cut are the exception.
THEOREM ReceivedFramesAreWhole == EthSpec => []FramesAreWhole
<1>1. RxInv => FramesAreWhole
  <2> SUFFICES ASSUME RxInv, NEW i \in DOMAIN handedUp
               PROVE  LET id == handedUp[i][1].frame
                      IN  \/ id \in cut
                          \/ handedUp[i] = [k \in 1 .. arrived[id] |-> [frame |-> id, piece |-> k]]
    BY DEF FramesAreWhole
  <2>1. PICK t \in RxSlots, q \in Seq(Descriptors) : RingIs(t, q)
    BY DEF RxInv
  <2> QED
    BY <2>1 DEF RingIs, Given, WholeOrCut
<1> QED
  BY <1>1, RxInit, RxStep, PTL DEF EthSpec

\* lwIP is handed the frames in the order they came from the wire, none of them twice:
\* a descriptor that was given back is not taken again before the DMA filled it anew.
THEOREM ReceivedFramesInOrder == EthSpec => []FramesInOrder
<1>1. RxInv => FramesInOrder
  BY DEF RxInv, RingIs, Given
<1> QED
  BY <1>1, RxInit, RxStep, PTL DEF EthSpec

\* A buffer to transmit holds no frame that low_level_output was not called with.
TxHolds == tbus \in BOOLEAN /\ \A d \in TxSlots : tx[d].frame <= sends

\* It is so at the start, and low_level_output alone fills buffers.
LEMMA TxHoldsKept ==
  /\ EthInit => TxHolds
  /\ TxInv /\ TxHolds /\ [EthNext]_vars => TxHolds'
<1>1. EthInit => TxHolds
  <2>1. EthInit => tbus \in BOOLEAN
    BY Zenon DEF EthInit
  <2>2. EthInit => \A d \in TxSlots : tx[d].frame <= sends
    <3>1. EthInit => tx = [d \in TxSlots |-> [own |-> "cpu", frame |-> 0]] /\ sends = 0
      BY DEF EthInit
    <3> QED
      BY <3>1
  <2> QED
    BY <2>1, <2>2 DEF TxHolds
<1>2. ASSUME TxInv, TxHolds, [EthNext]_vars
      PROVE  TxHolds'
  <2>1. /\ tx \in [TxSlots -> [own : {"cpu", "dma"}, frame : Nat]] /\ sends \in Nat
        /\ txDesc \in TxSlots /\ txDma.at \in TxSlots
    BY <1>2 DEF TxInv, TxTypes
  <2>2. tbus' \in BOOLEAN
    BY <1>2 DEF TxHolds, EthNext, Cpu, Dma, GetReceivedFrame, CopyFrame, ReleaseDescriptor,
       ResumeReception, Output, TransmitFrame, ResumeTransmission, FrameArrives, RxWrite, RxCut,
       RxSuspend, TxSend, TxSuspend, vars, txVars
  <2>3. CASE Output
    <3>1. sends' = sends + 1 /\ (tx' = tx \/ tx' = [tx EXCEPT ![txDesc].frame = sends'])
      BY <2>3 DEF Output
    <3> QED
      BY <1>2, <2>1, <2>2, <3>1 DEF TxHolds
  <2>4. CASE TransmitFrame
    <3>1. sends' = sends /\ tx' = [tx EXCEPT ![txDesc].own = "dma"]
      BY <2>4 DEF TransmitFrame
    <3> QED
      BY <1>2, <2>1, <2>2, <3>1 DEF TxHolds
  <2>5. CASE TxSend
    <3>1. sends' = sends /\ tx' = [tx EXCEPT ![txDma.at].own = "cpu"]
      BY <2>5 DEF TxSend
    <3> QED
      BY <1>2, <2>1, <2>2, <3>1 DEF TxHolds
  <2>6. CASE UNCHANGED <<tx, sends>>
    BY <1>2, <2>2, <2>6 DEF TxHolds
  <2> QED
    BY <1>2, <2>3, <2>4, <2>5, <2>6 DEF EthNext, Cpu, Dma, GetReceivedFrame, CopyFrame,
       ReleaseDescriptor, ResumeReception, ResumeTransmission, FrameArrives, RxWrite, RxCut,
       RxSuspend, TxSuspend, vars, txVars
<1> QED
  BY <1>1, <1>2

\* The types of both rings, of the driver's indices into them and of its counts: SegCount
\* never exceeds the number of descriptors, nor the length that of a frame's buffers.
THEOREM EthTypesCorrect == EthSpec => []EthTypeOK
<1>1. RxInv /\ TxInv /\ TxHolds => EthTypeOK
  <2> SUFFICES ASSUME RxInv, TxInv, TxHolds
               PROVE  EthTypeOK
    OBVIOUS
  <2>1. RxTypes /\ TxTypes
    BY DEF RxInv, TxInv
  <2>2. tx \in [TxSlots -> [own : {"cpu", "dma"}, frame : 0 .. sends]]
    <3>1. \A d \in TxSlots : tx[d] \in [own : {"cpu", "dma"}, frame : 0 .. sends]
      BY <2>1 DEF TxTypes, TxHolds
    <3> QED
      BY <2>1, <3>1 DEF TxTypes
  <2> QED
    BY <2>1, <2>2 DEF RxTypes, TxTypes, TxHolds, Descriptors, EthTypeOK
<1> QED
  BY <1>1, RxInit, RxStep, TxInit, TxStep, TxHoldsKept, PTL DEF EthSpec

====
