---------------------------- MODULE SimUartLink ----------------------------
(***************************************************************************)
(* One direction of the 485 line: the TX pin of one device is the RX pin   *)
(* of its peer, and both run xd_simulate_485_uart.c.  sim_uart_init gives  *)
(* TX_TIMER and RX_TIMER the same period, one bit time, so exactly one     *)
(* tx_timer_cb falls between two consecutive rx_timer_cb (phase); the      *)
(* calls of the two tasks fall anywhere.                                   *)
(*                                                                         *)
(* The line is clean until a transmission is aborted, a sample is skipped  *)
(* because ql_gpio_get_level failed, or reception is switched off: each of *)
(* them breaks the frame in progress and the receiver cannot tell.         *)
(***************************************************************************)
EXTENDS SimUartTx, SimUartRx

VARIABLES
  phase,  \* which timer expires next
  clean   \* history: nothing has disturbed the line so far

vars == <<tx_vars, rx_vars, phase, clean>>

Init ==
  /\ TxInit
  /\ RxInit
  /\ phase = "tx"
  /\ clean = TRUE

TxTick ==
  /\ phase = "tx"
  /\ phase' = "rx"
  /\ tx_timer_cb
  /\ UNCHANGED <<rx_vars, clean>>

RxTick ==
  /\ phase = "rx"
  /\ phase' = "tx"
  /\ rx_timer_cb(tx_pin)
  /\ UNCHANGED <<tx_vars, clean>>

\* ql_gpio_get_level fails, or reception is off: the bit goes by unseen.
RxTickMissed ==
  /\ phase = "rx"
  /\ phase' = "tx"
  /\ RxTickSkipped
  /\ clean' = FALSE
  /\ UNCHANGED tx_vars

Send    == sim_uart_send /\ UNCHANGED <<rx_vars, phase, clean>>
Receive == sim_uart_receive /\ UNCHANGED <<tx_vars, phase, clean>>

Abort ==
  /\ sim_uart_abort_tx
  /\ clean' = FALSE
  /\ UNCHANGED <<rx_vars, phase>>

SwitchRx ==
  /\ \E enable \in BOOLEAN : enable # rx_enable /\ sim_uart_enable_rx(enable)
  /\ clean' = FALSE
  /\ UNCHANGED <<tx_vars, phase>>

Next == TxTick \/ RxTick \/ RxTickMissed \/ Send \/ Receive \/ Abort \/ SwitchRx

Spec == Init /\ [][Next]_vars

\* The two hardware timers keep running and the task finishes the call it is
\* in; nothing makes it start another one.
Fairness ==
  /\ WF_vars(TxTick)
  /\ WF_vars(RxTick)
  /\ WF_vars(Send /\ tx_pc # "idle")

FairSpec == Spec /\ Fairness

TypeOK ==
  /\ TxTypeOK
  /\ RxTypeOK
  /\ phase \in {"tx", "rx"}
  /\ clean \in BOOLEAN

-----------------------------------------------------------------------------
\* End to end: on a clean line every byte sim_uart_receive hands out is the
\* byte with the same number that the peer's sim_uart_send accepted.  Bytes
\* may be dropped by a full rx_buffer, a short max_length or the race with
\* the interrupt, but none is altered, invented or credited to another.
DeliveredWereSent ==
  clean => \A j \in 1 .. Len(delivered) :
             /\ delivered[j].serial \in 1 .. Len(sent)
             /\ delivered[j].byte = sent[delivered[j].serial]

\* sim_uart_send refuses only while tx_busy, so tx_buf may change under the
\* interrupt unless a running transmission is always busy, between any two
\* assignments of sim_uart_send and sim_uart_abort_tx.
EnabledIsBusy == tx_enable => tx_busy

\* No step of a call alters the bytes or the length of a transmission that
\* tx_timer_cb is shifting out.
RunningSendIsStable ==
  [][tx_enable /\ tx_enable' => UNCHANGED <<tx_buf, tx_length, sent>>]_vars

\* Whatever is accepted is decoded by the peer unless the line is disturbed:
\* again and again there is a moment with nothing left to decode.
SentIsDecoded == []<>(decoded = Len(sent) \/ ~clean)
=============================================================================
