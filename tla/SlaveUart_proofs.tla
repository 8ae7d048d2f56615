-------------------------- MODULE SlaveUart_proofs --------------------------
(***************************************************************************)
(* Theorems about SlaveUart, for every width of the clock and every        *)
(* interval, sleep and delay that together fit into it, and for every      *)
(* buffer and number of bytes.                                             *)
(***************************************************************************)
EXTENDS SlaveUart, Integers, TLAPS

-----------------------------------------------------------------------------
(* The clock. *)

\* Reduction modulo w of what is less than twice w.
LEMMA ModBelow ==
  ASSUME NEW w \in Nat \ {0}, NEW x \in 0 .. w - 1
  PROVE  x % w = x
OBVIOUS

LEMMA ModAbove ==
  ASSUME NEW w \in Nat \ {0}, NEW x \in w .. 2 * w - 1
  PROVE  x % w = x - w
OBVIOUS

-----------------------------------------------------------------------------
(* The invariant. *)

\* The clock stands where the last message was sent, plus the true time since,
\* around its wrap at most once.
Measures(time) ==
  time = last_send + elapsed \/ time = last_send + elapsed - WRAP

SlaveTypes ==
  /\ clock \in 0 .. WRAP - 1 /\ now \in 0 .. WRAP - 1 /\ last_send \in 0 .. WRAP - 1
  /\ init_flag \in BOOLEAN /\ tx_busy \in BOOLEAN
  /\ pc \in {"top", "send", "receive", "clear", "echo", "sleep"}
  /\ elapsed \in Nat

\* Where the pass stands in the interval.
TimeInv ==
  /\ pc \in {"receive", "clear", "echo", "sleep"} => ~init_flag
  /\ pc = "send" => now = clock
  /\ ~init_flag =>
       /\ Measures(clock)
       /\ elapsed < SEND_INTERVAL_MS + SLEEP_MS + MaxDelay
       /\ pc \in {"receive", "clear", "echo", "sleep"} => elapsed < SEND_INTERVAL_MS

\* The sleep outlasts every transmission, so the periodic message is never refused.
BusyInv == pc \in {"top", "send"} => ~tx_busy

SlaveInv == SlaveTypes /\ TimeInv /\ BusyInv

-----------------------------------------------------------------------------
(* The subtraction on uint32_t. *)

\* It gives back the true time since the last message, wherever the clock has
\* wrapped, because that time is less than its period.
LEMMA DifferenceIsElapsed ==
  ASSUME SlaveTypes, Measures(now), elapsed < SEND_INTERVAL_MS + SLEEP_MS + MaxDelay
  PROVE  (now + WRAP - last_send) % WRAP = elapsed
<1>1. /\ WRAP \in Nat \ {0} /\ elapsed \in 0 .. WRAP - 1
      /\ now \in Nat /\ last_send \in Nat
  BY SlaveAssumption DEF SlaveTypes
<1>2. CASE now = last_send + elapsed
  <2>1. now + WRAP - last_send = elapsed + WRAP
    BY <1>1, <1>2
  <2>2. elapsed + WRAP \in WRAP .. 2 * WRAP - 1
    BY <1>1
  <2> QED
    BY <1>1, <2>1, <2>2, ModAbove
<1>3. CASE now = last_send + elapsed - WRAP
  <2>1. now + WRAP - last_send = elapsed
    BY <1>1, <1>3
  <2> QED
    BY <1>1, <2>1, ModBelow
<1> QED
  BY <1>2, <1>3 DEF Measures

\* And an advance of the clock keeps it so.
LEMMA AdvanceMeasures ==
  ASSUME SlaveTypes, Measures(clock), NEW d \in Nat, elapsed + d < WRAP
  PROVE  /\ (clock + d) % WRAP = last_send + (elapsed + d)
            \/ (clock + d) % WRAP = last_send + (elapsed + d) - WRAP
<1>1. /\ WRAP \in Nat \ {0} /\ clock \in 0 .. WRAP - 1 /\ last_send \in 0 .. WRAP - 1
      /\ elapsed \in Nat
  BY SlaveAssumption DEF SlaveTypes
<1>2. CASE clock + d < WRAP
  <2>1. (clock + d) % WRAP = clock + d
    BY <1>1, <1>2, ModBelow
  <2> QED
    BY <1>1, <1>2, <2>1 DEF Measures
<1>3. CASE clock + d >= WRAP
  <2>1. clock + d \in WRAP .. 2 * WRAP - 1
    BY <1>1, <1>3
  <2>2. (clock + d) % WRAP = (clock + d) - WRAP
    BY <1>1, <2>1, ModAbove, Zenon
  <2>3. clock = last_send + elapsed
    BY <1>1, <1>3 DEF Measures
  <2> QED
    BY <1>1, <2>2, <2>3
<1> QED
  BY <1>1, <1>2, <1>3

\* uint32_t arithmetic stays within the clock's range.
LEMMA ClockInRange ==
  ASSUME NEW x \in Int
  PROVE  x % WRAP \in 0 .. WRAP - 1
BY SlaveAssumption

-----------------------------------------------------------------------------
(* The steps. *)

LEMMA SlaveStarts == ASSUME Init PROVE SlaveInv
<1>1. SlaveTypes
  <2>1. init_flag \in BOOLEAN /\ tx_busy \in BOOLEAN
    BY Zenon DEF Init
  <2>2. /\ clock \in 0 .. WRAP - 1 /\ now \in 0 .. WRAP - 1 /\ last_send \in 0 .. WRAP - 1
        /\ pc \in {"top", "send", "receive", "clear", "echo", "sleep"}
        /\ elapsed \in Nat
    BY SlaveAssumption DEF Init
  <2> QED
    BY <2>1, <2>2 DEF SlaveTypes
<1>2. TimeInv
  BY DEF Init, TimeInv
<1>3. BusyInv
  BY DEF Init, BusyInv
<1> QED
  BY <1>1, <1>2, <1>3 DEF SlaveInv

\* The interrupts only end transmissions and add bytes.
LEMMA InterruptKeeps ==
  ASSUME SlaveInv, tx_done \/ rx_byte
  PROVE  SlaveInv'
<1>1. UNCHANGED <<clock, now, last_send, init_flag, pc, elapsed, sentNow>>
  BY DEF tx_done, rx_byte, task
<1>2. tx_busy' \in BOOLEAN /\ (tx_busy' => tx_busy)
  <2>1. CASE tx_done
    BY <2>1, Zenon DEF tx_done
  <2>2. CASE rx_byte
    BY <2>2, Zenon DEF rx_byte, SlaveInv, SlaveTypes
  <2> QED
    BY <2>1, <2>2
<1>3. SlaveTypes'
  BY <1>1, <1>2 DEF SlaveInv, SlaveTypes
<1>4. TimeInv'
  BY <1>1 DEF SlaveInv, TimeInv, Measures
<1>5. BusyInv'
  BY <1>1, <1>2 DEF SlaveInv, BusyInv
<1> QED
  BY <1>3, <1>4, <1>5 DEF SlaveInv

LEMMA ReadClockKeeps == ASSUME SlaveInv, ReadClock PROVE SlaveInv'
<1>1. /\ pc = "top" /\ pc' = "send" /\ now' = clock
      /\ UNCHANGED <<clock, last_send, init_flag, tx_busy, elapsed>>
  BY DEF ReadClock, uart
<1>2. SlaveTypes'
  BY <1>1 DEF SlaveInv, SlaveTypes
<1>3. TimeInv'
  BY <1>1 DEF SlaveInv, TimeInv, Measures
<1>4. BusyInv'
  BY <1>1 DEF SlaveInv, BusyInv
<1> QED
  BY <1>2, <1>3, <1>4 DEF SlaveInv

\* In the pass that reads the clock, Due is what it is meant to be.
LEMMA DueIsTrue ==
  ASSUME SlaveInv, ~init_flag, pc = "send"
  PROVE  Due <=> elapsed >= SEND_INTERVAL_MS
<1>1. (now + WRAP - last_send) % WRAP = elapsed
  BY DifferenceIsElapsed DEF SlaveInv, TimeInv, Measures
<1> QED
  BY <1>1 DEF Due

\* The message is never refused, so a pass that is due sends it.
LEMMA SendMessageKeeps == ASSUME SlaveInv, SendMessage PROVE SlaveInv'
<1>1. /\ pc = "send" /\ pc' = "receive" /\ UNCHANGED <<clock, now>>
  BY DEF SendMessage
<1>2. ~tx_busy /\ now = clock
  BY <1>1 DEF SlaveInv, BusyInv, TimeInv
<1>3. /\ SEND_INTERVAL_MS \in Nat \ {0} /\ SLEEP_MS \in Nat /\ MaxDelay \in Nat
      /\ now \in Nat /\ elapsed \in Nat
  BY SlaveAssumption DEF SlaveInv, SlaveTypes
<1>4. CASE init_flag \/ Due
  <2>1. tx_busy' = TRUE /\ last_send' = now /\ init_flag' = FALSE /\ sentNow' = TRUE /\ elapsed' = 0
    BY <1>2, <1>4 DEF SendMessage
  <2>2. SlaveTypes'
    BY <1>1, <2>1 DEF SlaveInv, SlaveTypes
  <2>3. TimeInv'
    BY <1>1, <1>2, <1>3, <2>1 DEF TimeInv, Measures
  <2>4. BusyInv'
    BY <1>1, <2>1 DEF BusyInv
  <2> QED
    BY <2>2, <2>3, <2>4 DEF SlaveInv
<1>5. CASE ~(init_flag \/ Due)
  <2>1. UNCHANGED <<tx_busy, last_send, init_flag, sentNow, elapsed>>
    BY <1>5 DEF SendMessage
  <2>2. elapsed < SEND_INTERVAL_MS
    BY <1>1, <1>3, <1>5, DueIsTrue
  <2>3. SlaveTypes'
    BY <1>1, <2>1 DEF SlaveInv, SlaveTypes
  <2>4. TimeInv'
    BY <1>1, <1>5, <2>1, <2>2 DEF SlaveInv, TimeInv, Measures
  <2>5. BusyInv'
    BY <1>1, <1>2, <2>1 DEF BusyInv
  <2> QED
    BY <2>3, <2>4, <2>5 DEF SlaveInv
<1> QED
  BY <1>4, <1>5

\* The rest of the pass takes no account of time.
LEMMA PassKeeps ==
  ASSUME SlaveInv, Receive \/ ReceiveClear \/ Echo
  PROVE  SlaveInv'
<1>1. /\ pc \in {"receive", "clear", "echo"} /\ pc' \in {"clear", "echo", "sleep"}
      /\ UNCHANGED <<clock, now, last_send, init_flag, elapsed, sentNow>>
  BY DEF Receive, ReceiveClear, Echo
<1>2. tx_busy' \in BOOLEAN
  BY DEF Receive, ReceiveClear, Echo, SlaveInv, SlaveTypes
<1>3. pc' # "sleep" => tx_busy' = tx_busy
  BY DEF Receive, ReceiveClear, Echo
<1>4. SlaveTypes'
  BY <1>1, <1>2 DEF SlaveInv, SlaveTypes
<1>5. TimeInv'
  BY <1>1 DEF SlaveInv, TimeInv, Measures
<1>6. BusyInv'
  BY <1>1, <1>3 DEF SlaveInv, BusyInv
<1> QED
  BY <1>4, <1>5, <1>6 DEF SlaveInv

\* The pass sleeps for less than what remains of the clock's period.
LEMMA SleepKeeps == ASSUME SlaveInv, Sleep PROVE SlaveInv'
<1>1. /\ pc = "sleep" /\ pc' = "top" /\ ~tx_busy
      /\ UNCHANGED <<now, last_send, init_flag, tx_busy, sentNow>>
  BY DEF Sleep, uart
<1>2. ~init_flag /\ Measures(clock) /\ elapsed < SEND_INTERVAL_MS
  BY <1>1 DEF SlaveInv, TimeInv
<1>3. /\ SEND_INTERVAL_MS \in Nat \ {0} /\ SLEEP_MS \in Nat /\ MaxDelay \in Nat
      /\ WRAP \in Nat /\ elapsed \in Nat /\ clock \in Nat
      /\ SEND_INTERVAL_MS + SLEEP_MS + MaxDelay < WRAP
  BY SlaveAssumption DEF SlaveInv, SlaveTypes
<1>4. PICK delay \in 0 .. MaxDelay :
        /\ clock' = (clock + SLEEP_MS + delay) % WRAP
        /\ elapsed' = IF elapsed >= WRAP THEN elapsed ELSE elapsed + SLEEP_MS + delay
  BY DEF Sleep
<1> DEFINE d == SLEEP_MS + delay
<1>5. /\ d \in Nat /\ d <= SLEEP_MS + MaxDelay
      /\ clock + SLEEP_MS + delay = clock + d
      /\ elapsed + SLEEP_MS + delay = elapsed + d
  BY <1>3
<1> HIDE DEF d
<1>6. elapsed < WRAP /\ elapsed + d < WRAP
  BY <1>2, <1>3, <1>5
<1>7. clock' = (clock + d) % WRAP /\ elapsed' = elapsed + d
  BY <1>4, <1>5, <1>6, <1>3
<1>8. SlaveTypes'
  <2>1. clock' \in 0 .. WRAP - 1
    BY <1>3, <1>5, <1>7, ClockInRange
  <2>2. elapsed' \in Nat
    BY <1>3, <1>5, <1>7
  <2> QED
    BY <1>1, <2>1, <2>2 DEF SlaveInv, SlaveTypes
<1>9. TimeInv'
  <2>1. Measures(clock)'
    <3>1. \/ clock' = last_send + elapsed'
          \/ clock' = last_send + elapsed' - WRAP
      BY <1>2, <1>5, <1>6, <1>7, AdvanceMeasures DEF SlaveInv
    <3> QED
      BY <1>1, <3>1 DEF Measures
  <2>2. elapsed' < SEND_INTERVAL_MS + SLEEP_MS + MaxDelay
    BY <1>2, <1>3, <1>5, <1>7
  <2> QED
    BY <1>1, <2>1, <2>2 DEF TimeInv
<1>10. BusyInv'
  BY <1>1 DEF BusyInv
<1> QED
  BY <1>8, <1>9, <1>10 DEF SlaveInv

LEMMA SlaveStep == ASSUME SlaveInv, [Next]_vars PROVE SlaveInv'
<1>1. CASE uart_task
  BY <1>1, ReadClockKeeps, SendMessageKeeps, PassKeeps, SleepKeeps DEF uart_task
<1>2. CASE tx_done \/ rx_byte
  BY <1>2, InterruptKeeps
<1>3. CASE UNCHANGED vars
  <2>1. UNCHANGED <<clock, now, last_send, init_flag, pc, tx_busy, elapsed, sentNow>>
    BY <1>3 DEF vars
  <2>2. SlaveTypes'
    BY <2>1 DEF SlaveInv, SlaveTypes
  <2>3. TimeInv'
    BY <2>1 DEF SlaveInv, TimeInv, Measures
  <2>4. BusyInv'
    BY <2>1 DEF SlaveInv, BusyInv
  <2> QED
    BY <2>2, <2>3, <2>4 DEF SlaveInv
<1> QED
  BY <1>1, <1>2, <1>3 DEF Next

\* SlaveInv holds in every reachable state.
THEOREM SlaveInvariant == Spec => []SlaveInv
<1>1. Init => SlaveInv
  BY SlaveStarts
<1>2. SlaveInv /\ [Next]_vars => SlaveInv'
  BY SlaveStep
<1> QED
  BY <1>1, <1>2, PTL DEF Spec

-----------------------------------------------------------------------------
(* What the task promises. *)

\* In the pass that decides, the test on the wrapped difference of two clock
\* readings holds exactly when the interval has truly passed, and no pass ends
\* with a message overdue: never early, never late by more than one pass,
\* whenever and however often the clock wraps (line 25 of the task).
THEOREM MessageInTime == Spec => []IntervalKept
<1>1. SlaveInv => IntervalKept
  <2> SUFFICES ASSUME SlaveInv PROVE IntervalKept
    OBVIOUS
  <2>1. ~init_flag /\ pc = "send" => (Due <=> elapsed >= SEND_INTERVAL_MS)
    BY DueIsTrue
  <2>2. ~init_flag /\ pc \in {"receive", "clear", "echo", "sleep"} => elapsed < SEND_INTERVAL_MS
    BY DEF SlaveInv, TimeInv
  <2> QED
    BY <2>1, <2>2 DEF IntervalKept
<1> QED
  BY <1>1, SlaveInvariant, PTL
=============================================================================
