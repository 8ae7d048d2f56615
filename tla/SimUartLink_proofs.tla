-------------------------- MODULE SimUartLink_proofs --------------------------
(***************************************************************************)
(* Proofs about SimUartLink for every frame length, buffer size, set of    *)
(* messages and bound.                                                     *)
(***************************************************************************)
EXTENDS SimUartLink, TLAPS

LEMMA FrameBits == DATA_BITS \in Nat \ {0} /\ FRAME_BITS = DATA_BITS + 2 /\ FRAME_BITS \in Nat
BY UartAssumption DEF FRAME_BITS, START_BIT, STOP_BIT

-----------------------------------------------------------------------------
(* The transmitter.  The interrupt shifts only while tx_enable, so a call   *)
(* in progress owns the control block until its last assignment.            *)

\* Values of tx_pc at which sim_uart_send has run past an assignment.
PastLength == {"tx_index", "tx_bit_pos", "tx_busy", "tx_enable"}
PastIndex  == {"tx_bit_pos", "tx_busy", "tx_enable"}

TxInv ==
  /\ tx_pc # "idle" => ~tx_enable
  /\ tx_enable => tx_busy
  /\ tx_enable => tx_index < tx_length
  /\ tx_pc = "tx_enable" => tx_busy
  /\ tx_pc = "copy" => Len(tx_arg) # 0 /\ Len(tx_arg) <= SIM_UART_BUFFER_SIZE
  /\ tx_pc \in PastLength => tx_length # 0
  /\ tx_pc \in PastIndex => tx_index = 0

\* The level put on the pin is a bit, whatever the byte and the position.
LEMMA FrameLevelIsBit ==
  ASSUME NEW byte \in Byte, NEW pos \in Nat
  PROVE  FrameLevel(byte, pos) \in {0, 1}
BY FrameBits DEF FrameLevel, Byte, START_BIT

\* The transmitter's invariant holds when sim_uart_init returns.
LEMMA TxInitInv == TxInit => TxTypeOK /\ TxInv
BY FrameBits, UartAssumption
DEF TxInit, TxTypeOK, TxInv, Byte, ZeroByte, PastLength, PastIndex

\* tx_timer_cb preserves the transmitter's types and invariant.
LEMMA TxTimerInv == TxTypeOK /\ TxInv /\ tx_timer_cb => TxTypeOK' /\ TxInv'
<1> SUFFICES ASSUME TxTypeOK, TxInv, tx_timer_cb
             PROVE  TxTypeOK' /\ TxInv'
  OBVIOUS
<1> USE FrameBits, UartAssumption
<1>1. CASE TxTickIdle
  BY <1>1 DEF TxTickIdle, tx_vars, TxTypeOK, TxInv
<1>2. CASE TxTickBit
  <2>1. tx_buf[tx_index] \in Byte
    BY <1>2 DEF TxTickBit, TxTypeOK, TxInv
  <2>2. tx_pin' \in {0, 1}
    BY <1>2, <2>1, FrameLevelIsBit DEF TxTickBit, TxTypeOK
  <2> QED
    BY <1>2, <2>2 DEF TxTickBit, tx_call, TxTypeOK, TxInv
<1>3. CASE TxTickNext
  <2>1. tx_index < tx_length /\ tx_pc = "idle"
    BY <1>3 DEF TxTickNext, TxInv, TxTypeOK
  <2>2. CASE tx_index + 1 >= tx_length
    <3>1. ~tx_busy' /\ ~tx_enable' /\ tx_pin' = 1 /\ tx_busy' \in BOOLEAN /\ tx_enable' \in BOOLEAN
      BY <1>3, <2>2 DEF TxTickNext
    <3> QED
      BY <1>3, <2>1, <3>1 DEF TxTickNext, tx_call, TxTypeOK, TxInv, PastLength, PastIndex
  <2>3. CASE ~(tx_index + 1 >= tx_length)
    BY <1>3, <2>1, <2>3 DEF TxTickNext, tx_call, TxTypeOK, TxInv, PastLength, PastIndex
  <2> QED
    BY <2>2, <2>3
<1> QED
  BY <1>1, <1>2, <1>3 DEF tx_timer_cb

\* So does every assignment of sim_uart_send.
LEMMA TxSendInv == TxTypeOK /\ TxInv /\ sim_uart_send => TxTypeOK' /\ TxInv'
<1> SUFFICES ASSUME TxTypeOK, TxInv, sim_uart_send
             PROVE  TxTypeOK' /\ TxInv'
  OBVIOUS
<1> USE FrameBits, UartAssumption
<1>1. CASE \E data \in TxData : SendBegin(data)
  <2> PICK data \in TxData : SendBegin(data)
    BY <1>1
  <2>1. data \in Seq(Byte)
    BY TxAssumption
  <2> QED
    BY <2>1 DEF SendBegin, SendAccepts, tx_ctrl, TxTypeOK, TxInv, PastLength, PastIndex
<1>2. CASE SendCopy
  <2>1. tx_arg[tx_i + 1] \in Byte
    BY <1>2 DEF SendCopy, TxTypeOK
  <2>2. sent' \in Seq(Byte)
    BY <1>2, <2>1 DEF SendCopy, TxTypeOK
  <2>3. tx_buf' \in [0 .. SIM_UART_BUFFER_SIZE - 1 -> Byte]
    BY <1>2, <2>1 DEF SendCopy, TxTypeOK
  <2> QED
    BY <1>2, <2>2, <2>3 DEF SendCopy, TxTypeOK, TxInv, PastLength, PastIndex
<1>3. CASE SendLength
  BY <1>3 DEF SendLength, TxTypeOK, TxInv, PastLength, PastIndex
<1>4. CASE SendIndex
  BY <1>4 DEF SendIndex, TxTypeOK, TxInv, PastLength, PastIndex
<1>5. CASE SendBitPos
  BY <1>5 DEF SendBitPos, TxTypeOK, TxInv, PastLength, PastIndex
<1>6. CASE SendBusy
  BY <1>6 DEF SendBusy, TxTypeOK, TxInv, PastLength, PastIndex
<1>7. CASE SendEnable
  BY <1>7 DEF SendEnable, TxTypeOK, TxInv, PastLength, PastIndex
<1> QED
  BY <1>1, <1>2, <1>3, <1>4, <1>5, <1>6, <1>7 DEF sim_uart_send

\* And every assignment of sim_uart_abort_tx.
LEMMA TxAbortInv == TxTypeOK /\ TxInv /\ sim_uart_abort_tx => TxTypeOK' /\ TxInv'
<1> SUFFICES ASSUME TxTypeOK, TxInv, sim_uart_abort_tx
             PROVE  TxTypeOK' /\ TxInv'
  OBVIOUS
<1>1. CASE AbortEnable
  BY <1>1 DEF AbortEnable, TxTypeOK, TxInv, PastLength, PastIndex
<1>2. CASE AbortBusy
  BY <1>2 DEF AbortBusy, TxTypeOK, TxInv, PastLength, PastIndex
<1>3. CASE AbortPin
  BY <1>3 DEF AbortPin, TxTypeOK, TxInv, PastLength, PastIndex
<1> QED
  BY <1>1, <1>2, <1>3 DEF sim_uart_abort_tx

-----------------------------------------------------------------------------
(* The receiver.  sim_uart_receive holds no lock against rx_timer_cb: the   *)
(* order of what it hands out rests on the order of the slots and on the    *)
(* index being cleared last.                                                *)

Slots == 0 .. SIM_UART_BUFFER_SIZE - 1

\* Slots still to be handed out by the copy in progress, or by the next one.
Pending(k) == k < rx_buffer_index /\ (rx_pc = "idle" \/ rx_i <= k)

RxInv ==
  /\ rx_pc = "copy" => rx_i <= rx_copied /\ rx_copied <= rx_buffer_index
  /\ \A k \in Slots : k < rx_buffer_index => rx_serial[k] <= decoded
  /\ \A k, l \in Slots : k < l /\ l < rx_buffer_index => rx_serial[k] < rx_serial[l]
  /\ \A j \in 1 .. Len(delivered) : delivered[j].serial <= decoded
  /\ \A j \in 1 .. Len(delivered), k \in Slots :
       Pending(k) => delivered[j].serial < rx_serial[k]
  /\ DeliveredInOrder

\* What the types say of the numbers the ordering is about.
LEMMA RxTypeFacts ==
  RxTypeOK =>
    /\ \A k \in Slots : rx_serial[k] \in Nat
    /\ \A j \in 1 .. Len(delivered) : delivered[j].serial \in Nat
    /\ Len(delivered) \in Nat
    /\ decoded \in Nat
    /\ rx_buffer_index \in Nat
<1> SUFFICES ASSUME RxTypeOK PROVE RxTypeFacts!2
  OBVIOUS
<1> DEFINE E == [serial : Nat, byte : Byte]
<1>1. delivered \in Seq(E)
  BY DEF RxTypeOK
<1>2. \A r \in E : r.serial \in Nat
  OBVIOUS
<1> HIDE DEF E
<1>3. Len(delivered) \in Nat /\ \A j \in 1 .. Len(delivered) : delivered[j] \in E
  BY <1>1
<1>4. /\ \A k \in Slots : rx_serial[k] \in Nat
      /\ decoded \in Nat
      /\ rx_buffer_index \in Nat
  BY UartAssumption DEF RxTypeOK, Slots
<1> QED
  BY <1>2, <1>3, <1>4

LEMMA ZeroByteIsByte == ZeroByte \in Byte
BY DEF ZeroByte, Byte

\* The receiver's invariant holds before the first interrupt.
LEMMA RxInitInv == RxInit => RxTypeOK /\ RxInv
<1>1. RxInit => RxTypeOK
  BY FrameBits, UartAssumption, ZeroByteIsByte DEF RxInit, RxTypeOK
<1>2. RxInit => RxInv
  BY DEF RxInit, RxInv, Slots, Pending, DeliveredInOrder
<1> QED
  BY <1>1, <1>2

\* A stored byte gets the highest number and the last slot, so every slot the
\* copy has yet to read stays as it was.
LEMMA RxStopInv ==
  ASSUME NEW bit \in {0, 1}, RxTypeOK, RxInv, RxTickStop(bit)
  PROVE  RxTypeOK' /\ RxInv'
<1> USE FrameBits, UartAssumption
<1>0. RxTypeFacts!2
  BY RxTypeFacts
<1>1. decoded' \in Nat /\ decoded' >= decoded
  BY DEF RxTickStop, RxTypeOK
<1>2. RxTypeOK'
  <2>1. rx_buffer_index' \in 0 .. SIM_UART_BUFFER_SIZE
    BY DEF RxTickStop, RxTypeOK
  <2>2. rx_buffer' \in [0 .. SIM_UART_BUFFER_SIZE - 1 -> Byte]
    BY DEF RxTickStop, RxTypeOK
  <2>3. rx_serial' \in [0 .. SIM_UART_BUFFER_SIZE - 1 -> Nat]
    BY DEF RxTickStop, RxTypeOK
  <2> QED
    BY <1>1, <2>1, <2>2, <2>3 DEF RxTickStop, rx_call, RxTypeOK
<1>3. UNCHANGED <<delivered, rx_pc, rx_i, rx_copied>>
  BY DEF RxTickStop, rx_call
<1>4. \A j \in 1 .. Len(delivered) : delivered[j].serial <= decoded'
  BY <1>1, <1>0 DEF RxInv
<1>5. CASE bit = 1 /\ rx_buffer_index < SIM_UART_BUFFER_SIZE
  <2>1. /\ rx_buffer_index' = rx_buffer_index + 1
        /\ rx_buffer_index \in Slots
        /\ decoded' = decoded + 1
        /\ rx_serial'[rx_buffer_index] = decoded + 1
        /\ \A k \in Slots : k # rx_buffer_index => rx_serial'[k] = rx_serial[k]
    BY <1>5 DEF RxTickStop, RxTypeOK, Slots
  <2>2. ASSUME NEW k \in Slots, k < rx_buffer_index'
        PROVE  rx_serial'[k] <= decoded'
    <3>1. CASE k = rx_buffer_index
      BY <1>0, <2>1, <3>1
    <3>2. CASE k # rx_buffer_index
      <4>1. k < rx_buffer_index
        BY <1>0, <2>1, <2>2, <3>2 DEF Slots
      <4>2. rx_serial[k] <= decoded
        BY <4>1 DEF RxInv
      <4> QED
        BY <1>0, <2>1, <3>2, <4>2
    <3> QED
      BY <3>1, <3>2
  <2>3. ASSUME NEW k \in Slots, NEW l \in Slots, k < l, l < rx_buffer_index'
        PROVE  rx_serial'[k] < rx_serial'[l]
    <3>1. k < rx_buffer_index /\ rx_serial'[k] = rx_serial[k]
      BY <1>0, <2>1, <2>3 DEF Slots
    <3>2. CASE l = rx_buffer_index
      <4>1. rx_serial[k] <= decoded
        BY <3>1 DEF RxInv
      <4> QED
        BY <1>0, <2>1, <3>1, <3>2, <4>1
    <3>3. CASE l # rx_buffer_index
      <4>1. l < rx_buffer_index /\ rx_serial'[l] = rx_serial[l]
        BY <1>0, <2>1, <2>3, <3>3 DEF Slots
      <4> QED
        BY <2>3, <3>1, <4>1 DEF RxInv
    <3> QED
      BY <3>2, <3>3
  <2>4. \A j \in 1 .. Len(delivered), k \in Slots :
          Pending(k)' => delivered[j].serial < rx_serial'[k]
    <3> SUFFICES ASSUME NEW j \in 1 .. Len(delivered), NEW k \in Slots, Pending(k)'
                 PROVE  delivered[j].serial < rx_serial'[k]
      OBVIOUS
    <3>1. CASE k = rx_buffer_index
      <4>1. delivered[j].serial <= decoded
        BY DEF RxInv
      <4> QED
        BY <1>0, <2>1, <3>1, <4>1
    <3>2. CASE k # rx_buffer_index
      <4>1. Pending(k) /\ rx_serial'[k] = rx_serial[k]
        BY <1>0, <1>3, <2>1, <3>2 DEF Pending, Slots
      <4> QED
        BY <4>1 DEF RxInv
    <3> QED
      BY <3>1, <3>2
  <2>5. rx_pc' = "copy" => rx_i' <= rx_copied' /\ rx_copied' <= rx_buffer_index'
    BY <2>1, <1>3 DEF RxInv, RxTypeOK
  <2> QED
    BY <1>2, <1>3, <1>4, <2>2, <2>3, <2>4, <2>5 DEF RxInv, DeliveredInOrder
<1>6. CASE ~(bit = 1 /\ rx_buffer_index < SIM_UART_BUFFER_SIZE)
  <2>1. UNCHANGED <<rx_serial, rx_buffer_index>>
    BY <1>6 DEF RxTickStop
  <2>2. \A k \in Slots : k < rx_buffer_index' => rx_serial'[k] <= decoded'
    BY <2>1, <1>1, <1>0 DEF RxInv
  <2> QED
    BY <1>2, <1>3, <1>4, <2>1, <2>2 DEF RxInv, Pending, DeliveredInOrder
<1> QED
  BY <1>5, <1>6

\* rx_timer_cb preserves it at whatever point of sim_uart_receive it fires.
LEMMA RxTimerInv ==
  ASSUME NEW bit \in {0, 1}, RxTypeOK, RxInv, rx_timer_cb(bit)
  PROVE  RxTypeOK' /\ RxInv'
<1>1. CASE RxTickHunt(bit)
  <2>1. RxInv'
    BY <1>1 DEF RxTickHunt, rx_ring, rx_call, RxInv, Pending, DeliveredInOrder
  <2>2. CASE bit = 0
    <3>1. rx_start' \in BOOLEAN /\ rx_bit_count' \in 0 .. DATA_BITS /\ rx_byte' \in Byte
      BY <1>1, <2>2, ZeroByteIsByte, FrameBits DEF RxTickHunt
    <3> QED
      BY <1>1, <2>1, <3>1 DEF RxTickHunt, rx_ring, rx_call, RxTypeOK
  <2>3. CASE bit # 0
    BY <1>1, <2>1, <2>3 DEF RxTickHunt, rx_isr, rx_ring, rx_call, RxTypeOK
  <2> QED
    BY <2>2, <2>3
<1>2. CASE RxTickData(bit)
  <2>1. rx_byte' \in Byte
    BY <1>2, FrameBits DEF RxTickData, RxTypeOK, Byte
  <2>2. RxTypeOK'
    BY <1>2, <2>1, FrameBits DEF RxTickData, rx_ring, rx_call, RxTypeOK
  <2>3. RxInv'
    BY <1>2 DEF RxTickData, rx_ring, rx_call, RxInv, Pending, DeliveredInOrder
  <2> QED
    BY <2>2, <2>3
<1>3. CASE RxTickStop(bit)
  BY <1>3, RxStopInv
<1> QED
  BY <1>1, <1>2, <1>3 DEF rx_timer_cb

\* The copy hands out the lowest pending slot and moves past it.
LEMMA RxCopyInv ==
  ASSUME RxTypeOK, RxInv, ReceiveCopy
  PROVE  RxTypeOK' /\ RxInv'
<1> DEFINE e == [serial |-> rx_serial[rx_i], byte |-> rx_buffer[rx_i]]
<1> USE UartAssumption
<1>0. RxTypeFacts!2
  BY RxTypeFacts
<1>1. rx_i \in Slots /\ Pending(rx_i) /\ rx_pc = "copy"
  BY DEF ReceiveCopy, RxTypeOK, RxInv, Slots, Pending
<1>2. e \in [serial : Nat, byte : Byte] /\ e.serial = rx_serial[rx_i]
  BY <1>1 DEF RxTypeOK, Slots
<1> HIDE DEF e
<1>3. delivered' = Append(delivered, e)
  BY DEF ReceiveCopy, e
<1>4. /\ delivered' \in Seq([serial : Nat, byte : Byte])
      /\ Len(delivered') = Len(delivered) + 1
      /\ delivered'[Len(delivered) + 1] = e
      /\ \A j \in 1 .. Len(delivered) : delivered'[j] = delivered[j]
  BY <1>2, <1>3 DEF RxTypeOK
<1>5. RxTypeOK'
  <2>1. rx_i' \in Nat
    BY DEF ReceiveCopy, RxTypeOK
  <2> QED
    BY <1>4, <2>1 DEF ReceiveCopy, rx_isr, rx_ring, RxTypeOK
<1>6. /\ UNCHANGED <<rx_serial, decoded, rx_buffer_index, rx_copied, rx_pc>>
      /\ rx_i' = rx_i + 1
  BY DEF ReceiveCopy, rx_ring
<1>7. \A j \in 1 .. Len(delivered') : delivered'[j].serial <= decoded'
  <2>1. rx_serial[rx_i] <= decoded
    BY <1>1 DEF RxInv, Pending
  <2>2. \A j \in 1 .. Len(delivered) : delivered'[j].serial <= decoded
    BY <1>4 DEF RxInv
  <2> QED
    BY <1>2, <1>4, <1>6, <1>0, <2>1, <2>2
<1>8. \A j \in 1 .. Len(delivered'), k \in Slots :
        Pending(k)' => delivered'[j].serial < rx_serial'[k]
  <2> SUFFICES ASSUME NEW j \in 1 .. Len(delivered'), NEW k \in Slots, Pending(k)'
               PROVE  delivered'[j].serial < rx_serial'[k]
    OBVIOUS
  <2>1. k \in Nat /\ rx_i \in Nat /\ rx_i < k /\ k < rx_buffer_index
    BY <1>1, <1>6 DEF Pending, Slots, RxTypeOK
  <2>2. rx_serial[rx_i] < rx_serial[k]
    BY <1>1, <2>1 DEF RxInv
  <2>3. delivered[j].serial < rx_serial[k] \/ j = Len(delivered) + 1
    BY <1>4, <2>1, <1>0 DEF RxInv, Pending
  <2> QED
    BY <2>2, <2>3, <1>2, <1>4, <1>6, <1>0
<1>9. rx_pc' = "copy" => rx_i' <= rx_copied' /\ rx_copied' <= rx_buffer_index'
  BY <1>6 DEF RxInv, RxTypeOK, ReceiveCopy
<1>10. DeliveredInOrder'
  <2> SUFFICES ASSUME NEW j \in 1 .. Len(delivered') - 1
               PROVE  delivered'[j].serial < delivered'[j + 1].serial
    BY DEF DeliveredInOrder
  <2>1. CASE j = Len(delivered)
    <3>1. delivered'[j] = delivered[j] /\ j \in 1 .. Len(delivered)
      BY <1>4, <2>1, <1>0
    <3>2. delivered'[j + 1].serial = rx_serial[rx_i]
      BY <1>2, <1>4, <2>1
    <3> QED
      BY <1>1, <3>1, <3>2 DEF RxInv
  <2>2. CASE j \in 1 .. Len(delivered) - 1
    <3>1. delivered'[j] = delivered[j] /\ delivered'[j + 1] = delivered[j + 1]
      BY <1>4, <1>0, <2>2
    <3> QED
      BY <2>2, <3>1 DEF RxInv, DeliveredInOrder
  <2> QED
    BY <2>1, <2>2, <1>4, <1>0
<1> QED
  BY <1>5, <1>6, <1>7, <1>8, <1>9, <1>10 DEF RxInv

\* Every step of sim_uart_receive preserves the receiver's invariant.
LEMMA RxReceiveInv ==
  ASSUME RxTypeOK, RxInv, sim_uart_receive
  PROVE  RxTypeOK' /\ RxInv'
<1>1. CASE \E m \in MaxLength : ReceiveBegin(m)
  <2> PICK m \in MaxLength : ReceiveBegin(m)
    BY <1>1
  <2>1. rx_copied' \in Nat /\ rx_copied' <= rx_buffer_index
    BY RxAssumption, UartAssumption DEF ReceiveBegin, RxTypeOK
  <2>2. RxTypeOK'
    BY <2>1 DEF ReceiveBegin, RxTypeOK, rx_isr, rx_ring
  <2>3. RxInv'
    BY <2>1 DEF ReceiveBegin, RxInv, rx_ring, Slots, Pending, DeliveredInOrder
  <2> QED
    BY <2>2, <2>3
<1>2. CASE ReceiveCopy
  BY <1>2, RxCopyInv
<1>3. CASE ReceiveReset
  <2>1. RxTypeOK'
    BY <1>3, UartAssumption DEF ReceiveReset, RxTypeOK, rx_isr, rx_ring
  <2>2. RxInv'
    BY <1>3 DEF ReceiveReset, RxInv, rx_ring, Slots, Pending, DeliveredInOrder
  <2> QED
    BY <2>1, <2>2
<1> QED
  BY <1>1, <1>2, <1>3 DEF sim_uart_receive

\* So does sim_uart_enable_rx.
LEMMA RxEnableInv ==
  ASSUME NEW enable \in BOOLEAN, RxTypeOK, RxInv, sim_uart_enable_rx(enable)
  PROVE  RxTypeOK' /\ RxInv'
<1>1. RxTypeOK'
  BY DEF sim_uart_enable_rx, rx_isr, rx_ring, rx_call, RxTypeOK
<1>2. RxInv'
  BY DEF sim_uart_enable_rx, rx_ring, rx_call, RxInv, Pending, DeliveredInOrder
<1> QED
  BY <1>1, <1>2

-----------------------------------------------------------------------------
(* The whole link. *)

LinkInv == TypeOK /\ TxInv /\ RxInv

\* The inductive step of every safety theorem below.
LEMMA LinkStep == LinkInv /\ [Next]_vars => LinkInv'
<1> SUFFICES ASSUME LinkInv, [Next]_vars PROVE LinkInv'
  OBVIOUS
<1> USE DEF LinkInv, TypeOK
<1>10. UNCHANGED tx_vars => TxTypeOK' /\ TxInv'
  BY DEF tx_vars, TxTypeOK, TxInv
<1>11. UNCHANGED rx_vars => RxTypeOK' /\ RxInv'
  <2>1. UNCHANGED rx_vars => RxTypeOK'
    BY DEF rx_vars, RxTypeOK
  <2>2. UNCHANGED rx_vars => RxInv'
    BY DEF rx_vars, RxInv, Pending, DeliveredInOrder
  <2> QED
    BY <2>1, <2>2
<1>1. CASE TxTick
  BY <1>1, <1>11, TxTimerInv DEF TxTick
<1>2. CASE RxTick
  <2>1. tx_pin \in {0, 1}
    BY DEF TxTypeOK
  <2> QED
    BY <1>2, <1>10, <2>1, RxTimerInv DEF RxTick
<1>3. CASE RxTickMissed
  BY <1>3, <1>10, <1>11 DEF RxTickMissed, RxTickSkipped
<1>4. CASE Send
  BY <1>4, <1>11, TxSendInv DEF Send
<1>5. CASE Receive
  BY <1>5, <1>10, RxReceiveInv DEF Receive
<1>6. CASE Abort
  BY <1>6, <1>11, TxAbortInv DEF Abort
<1>7. CASE SwitchRx
  BY <1>7, <1>10, RxEnableInv DEF SwitchRx
<1>8. CASE UNCHANGED vars
  BY <1>8, <1>10, <1>11 DEF vars
<1> QED
  BY <1>1, <1>2, <1>3, <1>4, <1>5, <1>6, <1>7, <1>8 DEF Next

LEMMA LinkInvariant == Spec => []LinkInv
<1>1. Init => LinkInv
  BY TxInitInv, RxInitInv DEF Init, LinkInv, TypeOK
<1> QED
  BY <1>1, LinkStep, PTL DEF Spec

\* Type correctness: no index of tx_timer_cb, rx_timer_cb or a copy loop ever
\* leaves its buffer, at any interleaving of the interrupts with the calls.
THEOREM TypeCorrect == Spec => []TypeOK
<1>1. LinkInv => TypeOK
  BY DEF LinkInv
<1> QED
  BY <1>1, LinkInvariant, PTL

\* A running transmission is always busy, so sim_uart_send refuses to
\* overwrite it.
THEOREM RunningIsBusy == Spec => []EnabledIsBusy
<1>1. LinkInv => EnabledIsBusy
  BY DEF LinkInv, TxInv, EnabledIsBusy
<1> QED
  BY <1>1, LinkInvariant, PTL

\* sim_uart_receive hands bytes out in the order they were decoded, none
\* twice, although it races with the interrupt that stores them.
THEOREM InOrder == Spec => [](DeliveredInOrder /\ CopyWithinFilled)
<1>1. LinkInv => DeliveredInOrder /\ CopyWithinFilled
  BY DEF LinkInv, RxInv, CopyWithinFilled
<1> QED
  BY <1>1, LinkInvariant, PTL

\* No step of a call touches the bytes of a transmission in progress.
THEOREM RunningStable == Spec => RunningSendIsStable
<1>1. LinkInv /\ [Next]_vars =>
        [tx_enable /\ tx_enable' => UNCHANGED <<tx_buf, tx_length, sent>>]_vars
  <2> SUFFICES ASSUME LinkInv, Next, tx_enable, tx_enable'
               PROVE  UNCHANGED <<tx_buf, tx_length, sent>>
    OBVIOUS
  <2>1. tx_pc = "idle" /\ tx_busy
    BY DEF LinkInv, TxInv
  <2>2. CASE TxTick
    BY <2>2 DEF TxTick, tx_timer_cb, TxTickIdle, TxTickBit, TxTickNext, tx_vars, tx_call
  <2>3. CASE Send
    BY <2>1, <2>3 DEF Send, sim_uart_send, SendBegin, SendAccepts, SendCopy, SendLength,
                      SendIndex, SendBitPos, SendBusy, SendEnable
  <2>4. CASE Abort
    BY <2>1, <2>4 DEF Abort, sim_uart_abort_tx, AbortEnable, AbortBusy, AbortPin
  <2>5. CASE UNCHANGED tx_vars
    BY <2>5 DEF tx_vars
  <2> QED
    BY <2>2, <2>3, <2>4, <2>5 DEF Next, RxTick, RxTickMissed, Receive, SwitchRx
<1> QED
  BY <1>1, LinkInvariant, PTL DEF Spec, RunningSendIsStable

-----------------------------------------------------------------------------
(* The wire.  On a clean line the receiver follows the transmitter one bit  *)
(* behind: its state is a function of where tx_timer_cb stands and of whose *)
(* turn it is.                                                              *)

\* Bytes at the end of sent that are in tx_buf and not yet known to be out: the
\* transmission in progress, or what sim_uart_send has copied so far.
Copied ==
  IF tx_enable \/ tx_pc \in PastLength THEN tx_length
  ELSE IF tx_pc = "copy" THEN tx_i ELSE 0

\* Bits of the frame in progress that rx_timer_cb has sampled.
Sampled ==
  IF ~tx_enable \/ tx_bit_pos = 0 THEN 0
  ELSE IF phase = "rx" THEN tx_bit_pos - 1 ELSE tx_bit_pos

\* Bytes of the transmission in progress that are decoded.
Shifted ==
  IF ~tx_enable THEN 0
  ELSE IF Sampled = FRAME_BITS THEN tx_index + 1 ELSE tx_index

\* tx_buf holds the last bytes accepted, and all before them are decoded.
BufferIsSent ==
  /\ Copied <= Len(sent)
  /\ \A k \in Slots : k < Copied => tx_buf[k] = sent[Len(sent) - Copied + k + 1]
  /\ decoded = Len(sent) - Copied + Shifted
  /\ tx_pc \in {"tx_busy", "tx_enable"} => tx_bit_pos = 0

\* The pin shows the last bit put out, and is high between transmissions.
PinInStep ==
  tx_pin = IF tx_enable /\ tx_bit_pos # 0
           THEN FrameLevel(tx_buf[tx_index], tx_bit_pos - 1) ELSE 1

\* The receiver is in a byte exactly while start and data bits go by, and has
\* its bits so far.
ReceiverInStep ==
  /\ rx_start <=> Sampled \in 1 .. DATA_BITS + 1
  /\ rx_start => /\ rx_bit_count = Sampled - 1
                 /\ \A b \in 0 .. DATA_BITS - 1 :
                      rx_byte[b] = IF b < rx_bit_count THEN tx_buf[tx_index][b] ELSE 0

\* Every byte stored or handed out is the byte of that number in sent.
WasSent(serial, byte) == serial \in 1 .. Len(sent) /\ byte = sent[serial]

StoredWereSent ==
  /\ \A k \in Slots : k < rx_buffer_index => WasSent(rx_serial[k], rx_buffer[k])
  /\ \A j \in 1 .. Len(delivered) : WasSent(delivered[j].serial, delivered[j].byte)

\* What WireInv says of a clean line.
Wire ==
  /\ rx_enable
  /\ tx_pc \notin {"abort_busy", "abort_pin"}
  /\ BufferIsSent
  /\ PinInStep
  /\ ReceiverInStep
  /\ StoredWereSent

WireInv == clean => Wire

\* The levels of a frame, bit by bit.
LEMMA FrameLevels ==
  ASSUME NEW byte \in Byte
  PROVE  /\ FrameLevel(byte, 0) = 0
         /\ \A p \in 1 .. DATA_BITS : FrameLevel(byte, p) = byte[p - 1]
         /\ FrameLevel(byte, DATA_BITS + 1) = 1
BY FrameBits DEF FrameLevel, START_BIT, Byte

\* The types of what the wire relates.
LEMMA WireTypes ==
  LinkInv =>
    /\ tx_index \in Nat /\ tx_bit_pos \in 0 .. FRAME_BITS /\ tx_length \in Nat
    /\ tx_i \in Nat /\ Len(sent) \in Nat /\ Len(tx_arg) \in Nat
    /\ Copied \in 0 .. SIM_UART_BUFFER_SIZE
    /\ Sampled \in 0 .. FRAME_BITS
    /\ tx_enable => /\ tx_index \in Slots /\ tx_index < tx_length
                    /\ tx_buf[tx_index] \in Byte
                    /\ tx_pc = "idle" /\ Copied = tx_length
    /\ decoded \in Nat
<1> SUFFICES ASSUME LinkInv PROVE WireTypes!2
  OBVIOUS
<1> USE FrameBits, UartAssumption DEF LinkInv, TypeOK
<1>1. /\ tx_index \in Nat /\ tx_bit_pos \in 0 .. FRAME_BITS /\ tx_length \in 0 .. SIM_UART_BUFFER_SIZE
      /\ tx_i \in 0 .. Len(tx_arg) /\ Len(sent) \in Nat /\ Len(tx_arg) \in Nat /\ decoded \in Nat
  BY DEF TxTypeOK, RxTypeOK
<1>2. tx_pc = "copy" => Len(tx_arg) <= SIM_UART_BUFFER_SIZE
  BY DEF TxInv
<1>3. Copied \in 0 .. SIM_UART_BUFFER_SIZE
  BY <1>1, <1>2 DEF Copied
<1>4. Sampled \in 0 .. FRAME_BITS
  BY <1>1 DEF Sampled
<1>5. ASSUME tx_enable
      PROVE  /\ tx_index \in Slots /\ tx_index < tx_length
             /\ tx_buf[tx_index] \in Byte
             /\ tx_pc = "idle" /\ Copied = tx_length
  BY <1>1, <1>5 DEF TxTypeOK, TxInv, Slots, Copied
<1> QED
  BY <1>1, <1>3, <1>4, <1>5

\* A tick that puts the next bit out leaves the receiver one bit behind.
LEMMA WireTxBit ==
  ASSUME LinkInv, Wire, phase = "tx", phase' = "rx", TxTickBit, UNCHANGED rx_vars
  PROVE  Wire'
<1> USE FrameBits
<1>0. WireTypes!2
  BY WireTypes
<1>1. /\ tx_enable /\ tx_enable' = tx_enable /\ tx_bit_pos \in 0 .. FRAME_BITS - 1
      /\ tx_bit_pos' = tx_bit_pos + 1
      /\ UNCHANGED <<tx_buf, tx_index, tx_length, tx_pc, tx_i, sent>>
      /\ tx_pin' = FrameLevel(tx_buf[tx_index], tx_bit_pos)
  BY <1>0 DEF TxTickBit, tx_call
<1>2. UNCHANGED <<rx_enable, rx_start, rx_bit_count, rx_byte, rx_buffer, rx_buffer_index,
                  rx_serial, decoded, delivered>>
  BY DEF rx_vars
<1>3. Sampled = tx_bit_pos /\ Sampled' = Sampled
  BY <1>0, <1>1 DEF Sampled
<1>4. Copied' = Copied
  BY <1>1 DEF Copied
<1>5. Shifted' = Shifted
  BY <1>1, <1>3 DEF Shifted
<1>6. BufferIsSent'
  BY <1>0, <1>1, <1>2, <1>4, <1>5 DEF Wire, BufferIsSent
<1>7. PinInStep'
  BY <1>0, <1>1 DEF PinInStep
<1>8. ReceiverInStep'
  BY <1>1, <1>2, <1>3 DEF Wire, ReceiverInStep
<1>9. StoredWereSent'
  BY <1>1, <1>2 DEF Wire, StoredWereSent, WasSent
<1> QED
  BY <1>1, <1>2, <1>6, <1>7, <1>8, <1>9 DEF Wire

\* The tick after the stop bit finds it sampled and the byte counted.
LEMMA WireTxNext ==
  ASSUME LinkInv, Wire, phase = "tx", phase' = "rx", TxTickNext, UNCHANGED rx_vars
  PROVE  Wire'
<1> USE FrameBits
<1>0. WireTypes!2
  BY WireTypes
<1>1. /\ tx_enable /\ tx_bit_pos = FRAME_BITS
      /\ tx_bit_pos' = 0 /\ tx_index' = tx_index + 1
      /\ UNCHANGED <<tx_buf, tx_length, tx_pc, tx_i, sent>>
  BY <1>0 DEF TxTickNext, tx_call
<1>2. UNCHANGED <<rx_enable, rx_start, rx_bit_count, rx_byte, rx_buffer, rx_buffer_index,
                  rx_serial, decoded, delivered>>
  BY DEF rx_vars
<1>3. Sampled = FRAME_BITS /\ Sampled' = 0
  BY <1>0, <1>1 DEF Sampled
<1>4. ~rx_start
  BY <1>3 DEF Wire, ReceiverInStep
<1>5. tx_pin = 1
  BY <1>0, <1>1, FrameLevels DEF Wire, PinInStep
<1>6. decoded = Len(sent) - tx_length + tx_index + 1
  BY <1>0, <1>1, <1>3 DEF Wire, BufferIsSent, Shifted
<1>7. tx_pin' = 1
  BY <1>5 DEF TxTickNext
<1>8. PinInStep'
  BY <1>1, <1>7 DEF PinInStep
<1>9. ReceiverInStep'
  BY <1>2, <1>3, <1>4 DEF ReceiverInStep
<1>10. StoredWereSent'
  BY <1>1, <1>2 DEF Wire, StoredWereSent, WasSent
<1>11. BufferIsSent'
  <2>1. CASE tx_index + 1 >= tx_length
    <3>1. ~tx_enable'
      BY <2>1 DEF TxTickNext
    <3>2. tx_index + 1 = tx_length
      BY <1>0, <1>1, <2>1
    <3>3. Copied' = 0 /\ Shifted' = 0
      BY <1>0, <1>1, <3>1 DEF Copied, Shifted, PastLength
    <3> QED
      BY <1>0, <1>1, <1>2, <1>6, <3>2, <3>3 DEF BufferIsSent, Slots
  <2>2. CASE ~(tx_index + 1 >= tx_length)
    <3>1. tx_enable'
      BY <1>1, <2>2 DEF TxTickNext
    <3>2. Copied' = tx_length /\ Shifted' = tx_index + 1 /\ Copied = tx_length
      BY <1>0, <1>1, <1>3, <3>1 DEF Copied, Shifted
    <3> QED
      BY <1>0, <1>1, <1>2, <1>6, <3>2 DEF Wire, BufferIsSent
  <2> QED
    BY <2>1, <2>2
<1> QED
  BY <1>1, <1>2, <1>8, <1>9, <1>10, <1>11 DEF Wire

\* So tx_timer_cb, at any of its branches, keeps the wire in step.
LEMMA WireTxTick ==
  ASSUME LinkInv, Wire, TxTick
  PROVE  Wire'
<1>1. phase = "tx" /\ phase' = "rx" /\ UNCHANGED rx_vars
  BY DEF TxTick
<1>2. CASE TxTickIdle
  <2>1. UNCHANGED tx_vars /\ ~tx_enable
    BY <1>2 DEF TxTickIdle
  <2>2. Sampled = 0 /\ Sampled' = 0
    BY <2>1 DEF Sampled, tx_vars
  <2>3. Copied' = Copied /\ Shifted' = Shifted
    BY <2>1 DEF Copied, Shifted, tx_vars
  <2>4. BufferIsSent'
    BY <1>1, <2>1, <2>3 DEF Wire, BufferIsSent, tx_vars, rx_vars
  <2>5. PinInStep'
    BY <2>1 DEF Wire, PinInStep, tx_vars
  <2>6. ReceiverInStep'
    BY <1>1, <2>1, <2>2 DEF Wire, ReceiverInStep, tx_vars, rx_vars
  <2>7. StoredWereSent'
    BY <1>1, <2>1 DEF Wire, StoredWereSent, WasSent, tx_vars, rx_vars
  <2> QED
    BY <1>1, <2>1, <2>4, <2>5, <2>6, <2>7 DEF Wire, tx_vars, rx_vars
<1>3. CASE TxTickBit
  BY <1>1, <1>3, WireTxBit
<1>4. CASE TxTickNext
  BY <1>1, <1>4, WireTxNext
<1> QED
  BY <1>2, <1>3, <1>4 DEF TxTick, tx_timer_cb

\* In rx_timer_cb's turn the last bit put out is the one to sample.
LEMMA WireRxTurn ==
  ASSUME LinkInv, phase = "rx", phase' = "tx", UNCHANGED tx_vars
  PROVE  /\ Sampled \in 0 .. DATA_BITS + 1
         /\ tx_enable /\ tx_bit_pos # 0 =>
              Sampled = tx_bit_pos - 1 /\ Sampled' = Sampled + 1
         /\ ~(tx_enable /\ tx_bit_pos # 0) => Sampled = 0 /\ Sampled' = 0
         /\ Copied' = Copied
<1>0. WireTypes!2
  BY WireTypes
<1>1. UNCHANGED <<tx_enable, tx_bit_pos, tx_pc, tx_length, tx_i>>
  BY DEF tx_vars
<1> QED
  BY <1>0, <1>1, FrameBits DEF Sampled, Copied

\* A sample that is not a stop bit stores and counts nothing.
LEMMA WireRxQuiet ==
  ASSUME LinkInv, Wire, phase = "rx", phase' = "tx", UNCHANGED tx_vars,
         UNCHANGED <<rx_enable, rx_buffer_index, rx_ring, rx_call>>,
         Sampled' # FRAME_BITS, ReceiverInStep'
  PROVE  Wire'
<1>1. UNCHANGED <<tx_buf, tx_index, tx_bit_pos, tx_length, tx_enable, tx_pin, tx_pc, tx_i, sent,
                  rx_buffer, rx_serial, decoded, delivered>>
  BY DEF tx_vars, rx_ring, rx_call
<1>2. Sampled # FRAME_BITS /\ Copied' = Copied
  BY WireRxTurn, FrameBits
<1>3. Shifted' = Shifted
  BY <1>1, <1>2 DEF Shifted
<1>4. BufferIsSent'
  BY <1>1, <1>2, <1>3 DEF Wire, BufferIsSent
<1>5. PinInStep'
  BY <1>1 DEF Wire, PinInStep
<1>6. StoredWereSent'
  BY <1>1 DEF Wire, StoredWereSent, WasSent
<1> QED
  BY <1>1, <1>4, <1>5, <1>6 DEF Wire

\* The hunt sees the start bit of a frame at once, and nothing before it.
LEMMA WireRxHunt ==
  ASSUME LinkInv, Wire, phase = "rx", phase' = "tx", UNCHANGED tx_vars, RxTickHunt(tx_pin)
  PROVE  Wire'
<1> USE FrameBits
<1>0. WireTypes!2
  BY WireTypes
<1>1. /\ UNCHANGED <<rx_enable, rx_buffer_index, rx_ring, rx_call>>
      /\ UNCHANGED <<tx_enable, tx_bit_pos, tx_index, tx_buf>>
      /\ ~rx_start
  BY DEF RxTickHunt, tx_vars
<1>2. Sampled = 0
  BY <1>1, WireRxTurn DEF Wire, ReceiverInStep
<1>3. CASE tx_enable /\ tx_bit_pos # 0
  <2>1. tx_bit_pos = 1 /\ Sampled' = 1
    BY <1>0, <1>2, <1>3, WireRxTurn
  <2>2. tx_pin = 0
    BY <1>0, <1>3, <2>1, FrameLevels DEF Wire, PinInStep
  <2>3. rx_start' /\ rx_bit_count' = 0 /\ rx_byte' = ZeroByte
    BY <2>2 DEF RxTickHunt
  <2>4. ReceiverInStep'
    BY <2>1, <2>3 DEF ReceiverInStep, ZeroByte
  <2> QED
    BY <1>1, <2>1, <2>4, WireRxQuiet
<1>4. CASE ~(tx_enable /\ tx_bit_pos # 0)
  <2>1. tx_pin = 1
    BY <1>4 DEF Wire, PinInStep
  <2>2. UNCHANGED <<rx_start, rx_bit_count, rx_byte>>
    BY <2>1 DEF RxTickHunt, rx_isr
  <2>3. Sampled' = 0
    BY <1>4, WireRxTurn
  <2>4. ReceiverInStep'
    BY <1>1, <2>2, <2>3 DEF ReceiverInStep
  <2> QED
    BY <1>1, <2>3, <2>4, WireRxQuiet
<1> QED
  BY <1>3, <1>4

\* Each data bit goes to its own place in rx_byte.
LEMMA WireRxData ==
  ASSUME LinkInv, Wire, phase = "rx", phase' = "tx", UNCHANGED tx_vars, RxTickData(tx_pin)
  PROVE  Wire'
<1> USE FrameBits
<1>0. WireTypes!2
  BY WireTypes
<1>1. /\ UNCHANGED <<rx_enable, rx_start, rx_buffer_index, rx_ring, rx_call>>
      /\ UNCHANGED <<tx_enable, tx_bit_pos, tx_index, tx_buf>>
      /\ rx_start
      /\ rx_bit_count < DATA_BITS /\ rx_bit_count' = rx_bit_count + 1
      /\ rx_byte' = [rx_byte EXCEPT ![rx_bit_count] = IF tx_pin = 1 THEN 1 ELSE @]
  BY DEF RxTickData, tx_vars
<1>2. Sampled \in 1 .. DATA_BITS + 1 /\ rx_bit_count = Sampled - 1
  BY <1>1 DEF Wire, ReceiverInStep
<1>3. tx_enable /\ tx_bit_pos = Sampled + 1 /\ Sampled' = Sampled + 1 /\ tx_bit_pos # 0
  BY <1>0, <1>2, WireRxTurn
<1>4. Sampled \in 1 .. DATA_BITS
  BY <1>1, <1>2
<1> DEFINE byte == tx_buf[tx_index]
<1>5. byte \in Byte
  BY <1>0, <1>3
<1>6. tx_pin = FrameLevel(byte, Sampled)
  BY <1>2, <1>3 DEF Wire, PinInStep
<1>7. tx_pin = byte[rx_bit_count]
  BY <1>2, <1>4, <1>5, <1>6, FrameLevels
<1>8. byte' = byte
  BY <1>1
<1>9. rx_byte \in [0 .. DATA_BITS - 1 -> {0, 1}]
  BY DEF LinkInv, TypeOK, RxTypeOK, Byte
<1>10. \A b \in 0 .. DATA_BITS - 1 :
         rx_byte[b] = IF b < rx_bit_count THEN byte[b] ELSE 0
  BY <1>1 DEF Wire, ReceiverInStep
<1>11. byte[rx_bit_count] \in {0, 1} /\ rx_bit_count \in 0 .. DATA_BITS - 1
  BY <1>2, <1>4, <1>5 DEF Byte
<1> HIDE DEF byte
<1>12. ASSUME NEW b \in 0 .. DATA_BITS - 1
       PROVE  rx_byte'[b] = IF b < rx_bit_count' THEN byte[b] ELSE 0
  <2>1. CASE b = rx_bit_count
    BY <1>1, <1>7, <1>9, <1>10, <1>11, <2>1
  <2>2. CASE b # rx_bit_count
    <3>1. rx_byte'[b] = rx_byte[b]
      BY <1>1, <1>9, <2>2
    <3>2. b < rx_bit_count' <=> b < rx_bit_count
      BY <1>1, <1>11, <2>2
    <3> QED
      BY <1>10, <3>1, <3>2
  <2> QED
    BY <2>1, <2>2
<1>13. ReceiverInStep'
  BY <1>1, <1>2, <1>3, <1>4, <1>8, <1>12 DEF ReceiverInStep, byte
<1> QED
  BY <1>1, <1>3, <1>4, <1>13, WireRxQuiet

\* At the stop bit the whole byte has been read and gets its number in sent.
LEMMA WireRxStop ==
  ASSUME LinkInv, Wire, phase = "rx", phase' = "tx", UNCHANGED tx_vars, RxTickStop(tx_pin)
  PROVE  Wire'
<1> USE FrameBits
<1>0. WireTypes!2
  BY WireTypes
<1>1. /\ UNCHANGED <<rx_enable, rx_bit_count, rx_byte, delivered>>
      /\ UNCHANGED <<tx_buf, tx_index, tx_bit_pos, tx_length, tx_enable, tx_pin, tx_pc, tx_i, sent>>
      /\ rx_start /\ rx_start' = FALSE
      /\ rx_bit_count = DATA_BITS
      /\ decoded' = decoded + tx_pin
  BY DEF RxTickStop, tx_vars, rx_call
<1>2. Sampled = DATA_BITS + 1
  BY <1>0, <1>1 DEF Wire, ReceiverInStep
<1>3. tx_enable /\ tx_bit_pos = DATA_BITS + 2 /\ Sampled' = FRAME_BITS
  BY <1>0, <1>2, WireRxTurn
<1>4. tx_pin = 1
  BY <1>0, <1>3, FrameLevels DEF Wire, PinInStep
<1>5. Copied' = Copied /\ Copied = tx_length
  BY <1>0, <1>3, WireRxTurn
<1>6. Shifted = tx_index /\ Shifted' = tx_index + 1
  BY <1>1, <1>2, <1>3 DEF Shifted
<1>7. decoded = Len(sent) - tx_length + tx_index /\ tx_length <= Len(sent)
  BY <1>0, <1>5, <1>6 DEF Wire, BufferIsSent
<1>8. BufferIsSent'
  BY <1>0, <1>1, <1>4, <1>5, <1>6, <1>7 DEF Wire, BufferIsSent
<1>9. PinInStep'
  BY <1>1 DEF Wire, PinInStep
<1>10. ReceiverInStep'
  BY <1>1, <1>3 DEF ReceiverInStep
<1>11. WasSent(decoded + 1, rx_byte)
  <2>1. decoded + 1 \in 1 .. Len(sent)
    BY <1>0, <1>3, <1>7
  <2>2. tx_buf[tx_index] = sent[decoded + 1]
    BY <1>0, <1>3, <1>5, <1>7 DEF Wire, BufferIsSent
  <2>3. tx_buf[tx_index] \in [0 .. DATA_BITS - 1 -> {0, 1}] /\ rx_byte \in [0 .. DATA_BITS - 1 -> {0, 1}]
    BY <1>0, <1>3 DEF LinkInv, TypeOK, RxTypeOK, Byte
  <2>4. \A b \in 0 .. DATA_BITS - 1 : rx_byte[b] = tx_buf[tx_index][b]
    BY <1>1 DEF Wire, ReceiverInStep
  <2>5. rx_byte = tx_buf[tx_index]
    BY <2>3, <2>4
  <2> QED
    BY <2>1, <2>2, <2>5 DEF WasSent
<1>12. StoredWereSent'
  <2>1. \A j \in 1 .. Len(delivered') : WasSent(delivered[j].serial, delivered[j].byte)'
    BY <1>1 DEF Wire, StoredWereSent, WasSent
  <2>2. ASSUME NEW k \in Slots, k < rx_buffer_index'
        PROVE  WasSent(rx_serial[k], rx_buffer[k])'
    <3>0. /\ rx_serial \in [Slots -> Nat] /\ rx_buffer \in [Slots -> Byte]
          /\ rx_buffer_index \in Nat
      BY UartAssumption DEF LinkInv, TypeOK, RxTypeOK, Slots
    <3>1. CASE rx_buffer_index < SIM_UART_BUFFER_SIZE
      <4>1. /\ rx_buffer' = [rx_buffer EXCEPT ![rx_buffer_index] = rx_byte]
            /\ rx_serial' = [rx_serial EXCEPT ![rx_buffer_index] = decoded + 1]
            /\ rx_buffer_index' = rx_buffer_index + 1
        BY <1>4, <3>1 DEF RxTickStop
      <4>2. CASE k = rx_buffer_index
        BY <1>1, <1>11, <3>0, <4>1, <4>2 DEF WasSent
      <4>3. CASE k # rx_buffer_index
        <5>1. k < rx_buffer_index /\ rx_serial'[k] = rx_serial[k] /\ rx_buffer'[k] = rx_buffer[k]
          BY <2>2, <3>0, <4>1, <4>3 DEF Slots
        <5>2. WasSent(rx_serial[k], rx_buffer[k])
          BY <5>1 DEF Wire, StoredWereSent
        <5> QED
          BY <1>1, <5>1, <5>2 DEF WasSent
      <4> QED
        BY <4>2, <4>3
    <3>2. CASE ~(rx_buffer_index < SIM_UART_BUFFER_SIZE)
      <4>1. UNCHANGED <<rx_buffer, rx_serial, rx_buffer_index>>
        BY <3>2 DEF RxTickStop
      <4> QED
        BY <1>1, <2>2, <4>1 DEF Wire, StoredWereSent, WasSent
    <3> QED
      BY <3>1, <3>2
  <2> QED
    BY <2>1, <2>2 DEF StoredWereSent
<1> QED
  BY <1>1, <1>8, <1>9, <1>10, <1>12 DEF Wire

\* So rx_timer_cb, at any of its branches, keeps the wire in step.
LEMMA WireRxTick ==
  ASSUME LinkInv, Wire, RxTick
  PROVE  Wire'
<1>1. phase = "rx" /\ phase' = "tx" /\ UNCHANGED tx_vars
  BY DEF RxTick
<1>2. RxTickHunt(tx_pin) \/ RxTickData(tx_pin) \/ RxTickStop(tx_pin)
  BY DEF RxTick, rx_timer_cb
<1> QED
  BY <1>1, <1>2, WireRxHunt, WireRxData, WireRxStop

\* What the calls leave alone keeps both ends in step.
LEMMA WireKept ==
  ASSUME Wire, BufferIsSent', StoredWereSent',
         UNCHANGED <<rx_enable, rx_start, rx_bit_count, rx_byte, phase>>,
         UNCHANGED <<tx_index, tx_bit_pos, tx_buf, tx_enable, tx_pin>>,
         tx_pc' \notin {"abort_busy", "abort_pin"}
  PROVE  Wire'
<1>1. Sampled' = Sampled
  BY DEF Sampled
<1>2. PinInStep'
  BY DEF Wire, PinInStep
<1>3. ReceiverInStep'
  BY <1>1 DEF Wire, ReceiverInStep
<1> QED
  BY <1>2, <1>3 DEF Wire

\* sim_uart_receive hands out slots that are filled.
LEMMA WireReceive ==
  ASSUME LinkInv, Wire, Receive
  PROVE  Wire'
<1>1. /\ UNCHANGED <<tx_buf, tx_index, tx_bit_pos, tx_length, tx_busy, tx_enable, tx_pin,
                     tx_pc, tx_arg, tx_i, sent, phase>>
      /\ UNCHANGED <<rx_enable, rx_start, rx_bit_count, rx_byte, rx_serial, rx_buffer, decoded>>
  BY DEF Receive, tx_vars, sim_uart_receive, ReceiveBegin, ReceiveCopy, ReceiveReset,
         rx_isr, rx_ring
<1>2. BufferIsSent'
  <2>1. Copied' = Copied /\ Shifted' = Shifted
    BY <1>1 DEF Copied, Shifted, Sampled
  <2> QED
    BY <1>1, <2>1 DEF Wire, BufferIsSent
<1>3. StoredWereSent'
  <2>1. CASE ReceiveCopy
    <3> DEFINE e == [serial |-> rx_serial[rx_i], byte |-> rx_buffer[rx_i]]
    <3>1. rx_i \in Slots /\ rx_i < rx_buffer_index
      BY <2>1, UartAssumption DEF ReceiveCopy, LinkInv, TypeOK, RxTypeOK, RxInv, Slots
    <3>2. e.serial = rx_serial[rx_i] /\ e.byte = rx_buffer[rx_i]
      OBVIOUS
    <3>3. e \in [serial : Nat, byte : Byte]
      BY <3>1 DEF LinkInv, TypeOK, RxTypeOK, Slots
    <3> HIDE DEF e
    <3>4. delivered' = Append(delivered, e) /\ UNCHANGED rx_buffer_index
      BY <2>1 DEF ReceiveCopy, e
    <3>5. /\ Len(delivered') = Len(delivered) + 1 /\ Len(delivered) \in Nat
          /\ delivered'[Len(delivered) + 1] = e
          /\ \A j \in 1 .. Len(delivered) : delivered'[j] = delivered[j]
      BY <3>3, <3>4 DEF LinkInv, TypeOK, RxTypeOK
    <3>6. WasSent(e.serial, e.byte)
      BY <3>1, <3>2 DEF Wire, StoredWereSent
    <3>7. ASSUME NEW j \in 1 .. Len(delivered')
          PROVE  WasSent(delivered[j].serial, delivered[j].byte)'
      <4>1. CASE j = Len(delivered) + 1
        BY <1>1, <3>5, <3>6, <4>1 DEF WasSent
      <4>2. CASE j \in 1 .. Len(delivered)
        <5>1. WasSent(delivered[j].serial, delivered[j].byte)
          BY <4>2 DEF Wire, StoredWereSent
        <5> QED
          BY <1>1, <3>5, <4>2, <5>1 DEF WasSent
      <4> QED
        BY <3>5, <4>1, <4>2
    <3> QED
      BY <1>1, <3>4, <3>7 DEF Wire, StoredWereSent, WasSent
  <2>2. CASE ~ReceiveCopy
    <3>1. delivered' = delivered
      BY <2>2 DEF Receive, sim_uart_receive, ReceiveBegin, ReceiveReset
    <3>2. rx_buffer_index' \in {rx_buffer_index, 0}
      BY <2>2 DEF Receive, sim_uart_receive, ReceiveBegin, ReceiveReset
    <3>3. \A k \in Slots : k < rx_buffer_index' => k < rx_buffer_index
      BY <3>2 DEF Slots
    <3> QED
      BY <1>1, <3>1, <3>3 DEF Wire, StoredWereSent, WasSent
  <2> QED
    BY <2>1, <2>2
<1>4. tx_pc' \notin {"abort_busy", "abort_pin"}
  BY <1>1 DEF Wire
<1> QED
  BY <1>1, <1>2, <1>3, <1>4, WireKept

\* The bytes accepted so far keep their numbers when another one is.
LEMMA WasSentStays ==
  ASSUME LinkInv, StoredWereSent, UNCHANGED rx_vars,
         \/ UNCHANGED sent
         \/ \E byte \in Byte : sent' = Append(sent, byte)
  PROVE  StoredWereSent'
<1>1. Len(sent') >= Len(sent) /\ \A n \in 1 .. Len(sent) : sent'[n] = sent[n] /\ n \in 1 .. Len(sent')
  BY DEF LinkInv, TypeOK, TxTypeOK
<1>2. \A serial, byte : WasSent(serial, byte) => serial \in 1 .. Len(sent') /\ byte = sent'[serial]
  BY <1>1 DEF WasSent
<1>3. UNCHANGED <<rx_buffer, rx_serial, rx_buffer_index, delivered>>
  BY DEF rx_vars
<1> QED
  BY <1>2, <1>3 DEF StoredWereSent, WasSent

\* While sim_uart_send runs no frame is on the wire.
LEMMA WireSilent ==
  ASSUME Wire, ~tx_enable, ~tx_enable', tx_pin' = tx_pin, UNCHANGED rx_vars,
         BufferIsSent', StoredWereSent', tx_pc' \notin {"abort_busy", "abort_pin"}
  PROVE  Wire'
<1>1. Sampled = 0 /\ Sampled' = 0
  BY DEF Sampled
<1>2. PinInStep'
  BY DEF Wire, PinInStep
<1>3. ReceiverInStep'
  BY <1>1 DEF Wire, ReceiverInStep, rx_vars
<1> QED
  BY <1>2, <1>3 DEF Wire, rx_vars

\* Nothing but the copy touches the bytes; the others move on from counting by
\* tx_i to counting by tx_length.
LEMMA WireSendStep ==
  ASSUME LinkInv, Wire, UNCHANGED <<rx_vars, tx_buf, sent, tx_pin>>,
         ~tx_enable, ~tx_enable', Copied' = Copied,
         tx_pc' \notin {"abort_busy", "abort_pin"},
         tx_pc' \in {"tx_busy", "tx_enable"} => tx_bit_pos' = 0
  PROVE  Wire'
<1>1. Shifted = 0 /\ Shifted' = 0
  BY DEF Shifted
<1>2. decoded' = decoded
  BY DEF rx_vars
<1>3. BufferIsSent'
  BY <1>1, <1>2 DEF Wire, BufferIsSent
<1>4. StoredWereSent'
  BY WasSentStays DEF Wire
<1> QED
  BY <1>3, <1>4, WireSilent

LEMMA WireSendCopy ==
  ASSUME LinkInv, Wire, SendCopy, UNCHANGED rx_vars
  PROVE  Wire'
<1>0. WireTypes!2
  BY WireTypes
<1>1. ~tx_enable /\ ~tx_enable' /\ tx_pc = "copy" /\ tx_pc' = "copy"
  BY DEF SendCopy, LinkInv, TxInv
<1>2. tx_i < Len(tx_arg) /\ Len(tx_arg) <= SIM_UART_BUFFER_SIZE
  BY <1>1 DEF SendCopy, LinkInv, TxInv
<1> DEFINE byte == tx_arg[tx_i + 1]
<1>3. byte \in Byte
  BY <1>0, <1>2 DEF LinkInv, TypeOK, TxTypeOK
<1>4. /\ tx_buf' = [tx_buf EXCEPT ![tx_i] = byte] /\ sent' = Append(sent, byte)
      /\ tx_i' = tx_i + 1 /\ tx_pin' = tx_pin /\ tx_length' = tx_length
  BY DEF SendCopy
<1> HIDE DEF byte
<1>5. Copied = tx_i /\ Copied' = tx_i + 1 /\ Shifted = 0 /\ Shifted' = 0
  BY <1>1, <1>4 DEF Copied, Shifted, PastLength
<1>6. /\ Len(sent') = Len(sent) + 1 /\ sent'[Len(sent) + 1] = byte
      /\ \A n \in 1 .. Len(sent) : sent'[n] = sent[n]
  BY <1>3, <1>4 DEF LinkInv, TypeOK, TxTypeOK
<1>7. tx_buf \in [Slots -> Byte] /\ tx_i \in Slots
  BY <1>0, <1>2, UartAssumption DEF LinkInv, TypeOK, TxTypeOK, Slots
<1>8. ASSUME NEW k \in Slots, k < Copied'
      PROVE  tx_buf'[k] = sent'[Len(sent') - Copied' + k + 1]
  <2>1. CASE k = tx_i
    <3>1. Len(sent') - Copied' + k + 1 = Len(sent) + 1
      BY <1>0, <1>5, <1>6, <2>1
    <3>2. tx_buf'[k] = byte
      BY <1>4, <1>7, <2>1
    <3> QED
      BY <1>6, <3>1, <3>2
  <2>2. CASE k # tx_i
    <3>1. k < Copied /\ k \in Nat /\ Copied <= Len(sent)
      BY <1>0, <1>5, <1>8, <2>2 DEF Slots, Wire, BufferIsSent
    <3>2. tx_buf'[k] = tx_buf[k]
      BY <1>4, <1>7, <2>2
    <3>3. tx_buf[k] = sent[Len(sent) - Copied + k + 1]
      BY <3>1 DEF Wire, BufferIsSent
    <3>4. /\ Len(sent') - Copied' + k + 1 = Len(sent) - Copied + k + 1
          /\ Len(sent) - Copied + k + 1 \in 1 .. Len(sent)
      BY <1>0, <1>5, <1>6, <3>1
    <3> QED
      BY <1>6, <3>2, <3>3, <3>4
  <2> QED
    BY <2>1, <2>2
<1>9. decoded' = decoded
  BY DEF rx_vars
<1>10. BufferIsSent'
  BY <1>0, <1>1, <1>5, <1>6, <1>8, <1>9 DEF Wire, BufferIsSent
<1>11. StoredWereSent'
  BY <1>3, <1>4, WasSentStays DEF Wire
<1> QED
  BY <1>1, <1>4, <1>10, <1>11, WireSilent

\* The last assignment of sim_uart_send starts the frame at bit 0 of byte 0.
LEMMA WireSendEnable ==
  ASSUME LinkInv, Wire, SendEnable, UNCHANGED <<rx_vars, phase>>
  PROVE  Wire'
<1>0. WireTypes!2
  BY WireTypes
<1>1. ~tx_enable /\ tx_pc = "tx_enable" /\ tx_index = 0 /\ tx_length # 0
  BY DEF SendEnable, LinkInv, TxInv, PastLength, PastIndex
<1>2. tx_bit_pos = 0
  BY <1>1 DEF Wire, BufferIsSent
<1>3. /\ tx_enable' /\ tx_pc' = "idle"
      /\ UNCHANGED <<tx_buf, tx_index, tx_bit_pos, tx_length, tx_pin, sent>>
  BY DEF SendEnable
<1>4. Copied = tx_length /\ Copied' = tx_length
  BY <1>1, <1>3 DEF Copied, PastLength
<1>5. Sampled = 0 /\ Sampled' = 0 /\ FRAME_BITS # 0
  BY <1>1, <1>2, <1>3, FrameBits DEF Sampled
<1>6. Shifted = 0 /\ Shifted' = 0
  BY <1>1, <1>3, <1>5 DEF Shifted
<1>7. BufferIsSent'
  <2>1. decoded' = decoded
    BY DEF rx_vars
  <2> QED
    BY <1>2, <1>3, <1>4, <1>6, <2>1 DEF Wire, BufferIsSent
<1>8. PinInStep'
  BY <1>1, <1>2, <1>3 DEF Wire, PinInStep
<1>9. ReceiverInStep'
  BY <1>5 DEF Wire, ReceiverInStep, rx_vars
<1>10. StoredWereSent'
  BY <1>3, WasSentStays DEF Wire
<1> QED
  BY <1>3, <1>7, <1>8, <1>9, <1>10 DEF Wire, rx_vars

\* So sim_uart_send, at any of its assignments, keeps the wire in step.
LEMMA WireSend ==
  ASSUME LinkInv, Wire, Send
  PROVE  Wire'
<1>0. UNCHANGED <<rx_vars, phase>> /\ sim_uart_send
  BY DEF Send
<1>1. CASE \E data \in TxData : SendBegin(data)
  <2> PICK data \in TxData : SendBegin(data)
    BY <1>1
  <2>1. ~tx_enable /\ ~tx_enable' /\ tx_pc = "idle" /\ tx_pc' = "copy" /\ tx_i' = 0
    BY DEF SendBegin, SendAccepts, tx_ctrl, LinkInv, TxInv
  <2>2. Copied = 0 /\ Copied' = 0
    BY <2>1 DEF Copied, PastLength
  <2>3. UNCHANGED <<rx_vars, tx_buf, sent, tx_pin>>
    BY <1>0 DEF SendBegin, tx_ctrl
  <2> QED
    BY <2>1, <2>2, <2>3, WireSendStep
<1>2. CASE SendCopy
  BY <1>0, <1>2, WireSendCopy
<1>3. CASE SendLength
  <2>1. /\ ~tx_enable /\ ~tx_enable' /\ tx_pc = "copy" /\ tx_pc' = "tx_index"
        /\ tx_length' = tx_i
    BY <1>3 DEF SendLength, LinkInv, TxInv
  <2>2. Copied' = Copied
    BY <2>1 DEF Copied, PastLength
  <2>3. UNCHANGED <<rx_vars, tx_buf, sent, tx_pin>>
    BY <1>0, <1>3 DEF SendLength
  <2> QED
    BY <2>1, <2>2, <2>3, WireSendStep
<1>4. CASE SendIndex \/ SendBitPos \/ SendBusy
  <2>1. /\ tx_pc \in PastLength /\ tx_pc' \in PastLength
        /\ ~tx_enable /\ ~tx_enable' /\ tx_length' = tx_length
    BY <1>4 DEF SendIndex, SendBitPos, SendBusy, LinkInv, TxInv, PastLength
  <2>2. Copied' = Copied
    BY <2>1 DEF Copied
  <2>3. UNCHANGED <<rx_vars, tx_buf, sent, tx_pin>>
    BY <1>0, <1>4 DEF SendIndex, SendBitPos, SendBusy
  <2>4. tx_pc' \in {"tx_busy", "tx_enable"} => tx_bit_pos' = 0
    BY <1>4 DEF SendIndex, SendBitPos, SendBusy, Wire, BufferIsSent
  <2>5. tx_pc' \notin {"abort_busy", "abort_pin"}
    BY <2>1 DEF PastLength
  <2> QED
    BY <2>1, <2>2, <2>3, <2>4, <2>5, WireSendStep
<1>5. CASE SendEnable
  BY <1>0, <1>5, WireSendEnable
<1> QED
  BY <1>0, <1>1, <1>2, <1>3, <1>4, <1>5 DEF sim_uart_send

\* The line starts silent and empty.
LEMMA WireInit == Init => Wire
<1> SUFFICES ASSUME Init PROVE Wire
  OBVIOUS
<1> USE DEF Init, TxInit, RxInit
<1>1. Copied = 0 /\ Sampled = 0 /\ Shifted = 0
  BY DEF Copied, Sampled, Shifted, PastLength
<1>2. BufferIsSent
  BY <1>1 DEF BufferIsSent, Slots
<1>3. ReceiverInStep
  BY <1>1 DEF ReceiverInStep
<1> QED
  BY <1>2, <1>3 DEF Wire, PinInStep, StoredWereSent, Slots

\* Until something disturbs the line, both ends stay in step.
LEMMA WireStep == LinkInv /\ WireInv /\ [Next]_vars => WireInv'
<1> SUFFICES ASSUME LinkInv, WireInv, [Next]_vars, clean' PROVE Wire'
  BY DEF WireInv
<1>1. clean /\ (TxTick \/ RxTick \/ Send \/ Receive \/ UNCHANGED vars)
  BY DEF Next, TxTick, RxTick, RxTickMissed, Send, Receive, Abort, SwitchRx, vars
<1>2. Wire
  BY <1>1 DEF WireInv
<1>3. CASE UNCHANGED vars
  <2>1. UNCHANGED <<tx_buf, tx_index, tx_bit_pos, tx_length, tx_enable, tx_pin, tx_pc, tx_i, sent>>
    BY <1>3 DEF vars, tx_vars
  <2>2. UNCHANGED <<rx_vars, phase>>
    BY <1>3 DEF vars
  <2>3. Copied' = Copied /\ Shifted' = Shifted
    BY <2>1, <2>2 DEF Copied, Shifted, Sampled
  <2>4. BufferIsSent'
    BY <1>2, <2>1, <2>2, <2>3 DEF Wire, BufferIsSent, rx_vars
  <2>5. StoredWereSent'
    BY <1>2, <2>1, <2>2, WasSentStays DEF Wire
  <2> QED
    BY <1>2, <2>1, <2>2, <2>4, <2>5, WireKept DEF rx_vars, Wire
<1> QED
  BY <1>1, <1>2, <1>3, WireTxTick, WireRxTick, WireSend, WireReceive

\* End to end, for every frame length, buffer size and interleaving: on a line
\* nothing has disturbed, each byte sim_uart_receive hands out is the byte of that
\* number that sim_uart_send accepted.
THEOREM BytesSurvive == Spec => []DeliveredWereSent
<1>1. Init => WireInv
  BY WireInit DEF WireInv
<1>2. WireInv => DeliveredWereSent
  BY DEF WireInv, Wire, StoredWereSent, WasSent, DeliveredWereSent
<1>3. Spec => []WireInv
  BY <1>1, WireStep, LinkInvariant, PTL DEF Spec
<1> QED
  BY <1>2, <1>3, PTL
=============================================================================
