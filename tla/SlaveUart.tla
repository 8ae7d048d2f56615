----------------------------- MODULE SlaveUart -----------------------------
(***************************************************************************)
(* uart_task of app_task_slave_uart.c: a message at an interval, and an    *)
(* echo of whatever was received, once per pass of an endless loop.        *)
(*                                                                         *)
(* The UART is taken at the level of its calls, which SimUartTx, SimUartRx *)
(* and SimUartLink justify: sim_uart_send is refused while tx_busy and     *)
(* leaves it set, tx_timer_cb clears it when the last byte is out,         *)
(* rx_timer_cb stores a byte at any time unless rx_buffer is full, and     *)
(* sim_uart_receive reads the index, then copies, then clears the index.   *)
(* A transmission of a whole buffer takes 200 * 11 bit times of 104 us,    *)
(* 229 ms, so it is over before the 1000 ms sleep is.                      *)
(*                                                                         *)
(* Time is counted in ticks of the 32-bit millisecond clock, scaled down;  *)
(* the clock may stand anywhere when the task starts.                      *)
(***************************************************************************)
EXTENDS Naturals, Sequences

CONSTANTS
  WRAP,                  \* the clock counts modulo WRAP (2^32)
  SEND_INTERVAL_MS,      \* 5000
  SLEEP_MS,              \* 1000
  MaxDelay,              \* most time a pass takes besides its sleep
  SIM_UART_BUFFER_SIZE,  \* 200
  MaxBytes               \* bound on the bytes the peer sends

ASSUME SlaveAssumption ==
  /\ WRAP \in Nat /\ SEND_INTERVAL_MS \in Nat \ {0} /\ SLEEP_MS \in Nat \ {0}
  /\ MaxDelay \in Nat
  /\ SEND_INTERVAL_MS + SLEEP_MS + MaxDelay < WRAP
  /\ SIM_UART_BUFFER_SIZE \in Nat \ {0}
  /\ MaxBytes \in Nat

VARIABLES
  clock,      \* rtos_get_time()
  now, last_send, init_flag, recv_len,   \* locals of uart_task
  pc,         \* "top", "send", "receive", "clear", "echo", "sleep"
  tx_busy,    \* sim_ctrl.tx_busy
  rx_buffer,  \* rx_buffer[0 .. rx_buffer_index - 1]; a byte is its arrival number
  rx_buf,     \* what sim_uart_receive copied
  arrived,    \* history: bytes decoded by rx_timer_cb
  elapsed,    \* history: true time from the pass of the last message sent to
              \* now, counted up to WRAP
  sentNow,    \* history: the message went out in this pass
  refused     \* history: bytes whose echo was refused

task == <<now, last_send, init_flag, recv_len, pc>>
uart == <<tx_busy, rx_buffer, rx_buf>>
vars == <<clock, now, last_send, init_flag, recv_len, pc, tx_busy, rx_buffer, rx_buf,
          arrived, elapsed, sentNow, refused>>

Init ==
  /\ clock \in 0 .. WRAP - 1
  /\ now = 0 /\ last_send = 0 /\ init_flag = TRUE /\ recv_len = 0
  /\ pc = "top"
  /\ tx_busy = FALSE
  /\ rx_buffer = <<>> /\ rx_buf = <<>>
  /\ arrived = 0 /\ elapsed = 0 /\ sentNow = FALSE
  /\ refused = {}

-----------------------------------------------------------------------------
(* The interrupts. *)

tx_done ==
  /\ tx_busy
  /\ tx_busy' = FALSE
  /\ UNCHANGED <<clock, task, rx_buffer, rx_buf, arrived, elapsed, sentNow, refused>>

rx_byte ==
  /\ arrived < MaxBytes
  /\ arrived' = arrived + 1
  /\ rx_buffer' = IF Len(rx_buffer) < SIM_UART_BUFFER_SIZE
                  THEN Append(rx_buffer, arrived + 1) ELSE rx_buffer
  /\ UNCHANGED <<clock, task, tx_busy, rx_buf, elapsed, sentNow, refused>>

-----------------------------------------------------------------------------
(* One pass of the loop. *)

ReadClock ==
  /\ pc = "top"
  /\ now' = clock
  /\ pc' = "send"
  /\ sentNow' = FALSE
  /\ UNCHANGED <<clock, last_send, init_flag, recv_len, uart, arrived, elapsed, refused>>

\* Faulty variants: the deadline is computed first and compared as it stands;
\* the interval has to be met exactly.
DueByDeadline == now >= (last_send + SEND_INTERVAL_MS) % WRAP
DueExactly == (now + WRAP - last_send) % WRAP = SEND_INTERVAL_MS

\* now - last_send >= SEND_INTERVAL_MS, on uint32_t.
Due == (now + WRAP - last_send) % WRAP >= SEND_INTERVAL_MS

SendMessage ==
  /\ pc = "send"
  /\ IF (init_flag \/ Due) /\ ~tx_busy
     THEN /\ tx_busy' = TRUE
          /\ last_send' = now
          /\ init_flag' = FALSE
          /\ sentNow' = TRUE
          /\ elapsed' = 0
     ELSE UNCHANGED <<tx_busy, last_send, init_flag, sentNow, elapsed>>
  /\ pc' = "receive"
  /\ UNCHANGED <<clock, now, recv_len, rx_buffer, rx_buf, arrived, refused>>

\* sim_uart_receive: the index is read and that many bytes are copied ...
Receive ==
  /\ pc = "receive"
  /\ recv_len' = Len(rx_buffer)
  /\ rx_buf' = rx_buffer
  /\ pc' = "clear"
  /\ UNCHANGED <<clock, now, last_send, init_flag, tx_busy, rx_buffer, arrived,
                 elapsed, sentNow, refused>>

\* ... and then it is cleared, with what arrived in between.
ReceiveClear ==
  /\ pc = "clear"
  /\ rx_buffer' = <<>>
  /\ pc' = IF recv_len > 0 THEN "echo" ELSE "sleep"
  /\ UNCHANGED <<clock, now, last_send, init_flag, recv_len, tx_busy, rx_buf,
                 arrived, elapsed, sentNow, refused>>

\* The result of sim_uart_send is not looked at.
Echo ==
  /\ pc = "echo"
  /\ IF tx_busy
     THEN /\ refused' = refused \cup {rx_buf[i] : i \in 1 .. recv_len}
          /\ UNCHANGED tx_busy
     ELSE /\ tx_busy' = TRUE
          /\ UNCHANGED refused
  /\ pc' = "sleep"
  /\ UNCHANGED <<clock, now, last_send, init_flag, recv_len, rx_buffer, rx_buf,
                 arrived, elapsed, sentNow>>

\* ql_rtos_task_sleep_ms, longer than any transmission; delay is the time the
\* rest of the pass took.
Sleep ==
  /\ pc = "sleep"
  /\ ~tx_busy
  /\ \E delay \in 0 .. MaxDelay :
       /\ clock' = (clock + SLEEP_MS + delay) % WRAP
       /\ elapsed' = IF elapsed >= WRAP THEN elapsed ELSE elapsed + SLEEP_MS + delay
  /\ pc' = "top"
  /\ UNCHANGED <<now, last_send, init_flag, recv_len, uart, arrived, sentNow, refused>>

uart_task == ReadClock \/ SendMessage \/ Receive \/ ReceiveClear \/ Echo \/ Sleep

Next == uart_task \/ tx_done \/ rx_byte

Spec == Init /\ [][Next]_vars

\* The task is scheduled and the transmit timer keeps ticking.
FairSpec == Spec /\ WF_vars(uart_task) /\ WF_vars(tx_done)

-----------------------------------------------------------------------------
\* Unsigned subtraction measures the true time since the last message across
\* the wrap of the clock, so the message is never sent before the interval has
\* passed, and is sent in the first pass after it: the periodic message itself
\* is never refused.
IntervalKept ==
  /\ ~init_flag /\ pc = "send" => (Due <=> elapsed >= SEND_INTERVAL_MS)
  /\ ~init_flag /\ pc \in {"receive", "clear", "echo", "sleep"} => elapsed < SEND_INTERVAL_MS

\* "Echo the data received" (app_task_slave_uart.c:35): no byte that
\* sim_uart_receive has handed over is dropped instead of being sent back.  The
\* code drops them in a pass that has just sent its message: sim_uart_send
\* returns SIM_UART_BUSY and the result is not looked at.
ReceivedIsEchoed == refused = {}

\* The message is sent again and again.
MessageRecurs == []<>sentNow
=============================================================================
