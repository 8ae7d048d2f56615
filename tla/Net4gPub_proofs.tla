--------------------------- MODULE Net4gPub_proofs ---------------------------
(***************************************************************************)
(* Proofs about Net4gPub for every size of the ring, every wait and limit, *)
(* and every bound.                                                        *)
(***************************************************************************)
EXTENDS Net4gPub, SequenceTheorems, TLAPS

-----------------------------------------------------------------------------
(* What the stages of the loop and of the send machine rely on.             *)

\* The loop never sees more messages than are queued: it sends only while one is.
SeenIsQueued == Visible <= saved - popped

\* The scanner throws the FIFO away only when it was not told to look for a
\* prompt or a response.
DropIsNotDeaf == pc = "drop" => ~check_pubMiddleFlag /\ ~check_pubAckFlag

\* The device reboots at the RETRY_LIMITth disconnection.
RetryBelowLimit == pc # "down" => net4g_process_retry_times < RETRY_LIMIT

\* Past its first stage the send machine works on the head of the queue, also
\* when a disconnection stopped it half-way.
MachineOnHead == overrun \/ (process_work_step # 0 => commanded = popped + 1)

\* The data of the head of the queue has been written only in the last stage, the
\* data of those behind it not at all.
PayloadsBehind ==
  \A i \in 1 .. Len(payloads) :
    payloads[i] + Visible <= IF process_work_step = 3 THEN saved + 1 ELSE saved

Control ==
  /\ DropIsNotDeaf
  /\ RetryBelowLimit
  /\ MachineOnHead

PubInv ==
  /\ TypeOK
  /\ QueueHoldsUnsent
  /\ SeenIsQueued
  /\ PayloadsBehind
  /\ DeafOnlyWhileSending
  /\ CommandedInTurn
  /\ PayloadAtMostOnce
  /\ Control

-----------------------------------------------------------------------------
(* The message ring. *)

ringVars == <<queue, qHead, qTail, saved, popped, overrun>>

QueueTypes ==
  /\ queue \in [0 .. QUEU_SIZE - 1 -> Nat]
  /\ qHead \in 0 .. QUEU_SIZE - 1
  /\ qTail \in 0 .. QUEU_SIZE - 1
  /\ saved \in Nat
  /\ popped \in Nat

\* The loop sees at most a full ring, and sends only while it sees a message.
LEMMA SeenBounds ==
  ASSUME QueueTypes
  PROVE  /\ QUEU_SIZE \in Nat \ {0}
         /\ Waiting \in 0 .. QUEU_SIZE - 1 /\ Visible \in 0 .. QUEU_SIZE
         /\ communicateStep = 2 => Visible > 0
         /\ communicateStep # 2 => Visible = Waiting
         /\ Visible = Waiting \/ (Waiting = 0 /\ Visible = QUEU_SIZE)
<1>1. QUEU_SIZE \in Nat \ {0}
  BY PubAssumption
<1>2. Waiting \in 0 .. QUEU_SIZE - 1
  BY <1>1 DEF QueueTypes, Waiting
<1> QED
  BY <1>1, <1>2 DEF Visible

\* Counted from the tail or from the head, the slots are the same.
LEMMA SlotIsBack ==
  ASSUME QueueTypes
  PROVE  /\ \A i \in 1 .. Visible : Slot(i - 1) = Back(Visible - i + 1)
         /\ Visible > 0 => qHead = Back(Visible)
<1>1. /\ QUEU_SIZE \in Nat \ {0} /\ Visible \in 0 .. QUEU_SIZE
      /\ Visible = Waiting \/ (Waiting = 0 /\ Visible = QUEU_SIZE)
  BY SeenBounds
<1>2. \/ qTail >= qHead /\ Visible = qTail - qHead
      \/ qTail < qHead /\ Visible = qTail + QUEU_SIZE - qHead
      \/ qTail = qHead /\ Visible = QUEU_SIZE
  BY <1>1 DEF Waiting, QueueTypes
<1> QED
  BY <1>1, <1>2 DEF Slot, Back, QueueTypes

\* The messages the loop sees are those queued last.
LEMMA SeenAreLast ==
  ASSUME QueueTypes, QueueHoldsUnsent, SeenIsQueued
  PROVE  /\ \A i \in 1 .. Visible : queue[Slot(i - 1)] = (saved - Visible) + i
         /\ Visible > 0 => queue[qHead] = saved - Visible + 1
         /\ saved - Visible \in Nat
<1>1. /\ QUEU_SIZE \in Nat \ {0} /\ Visible \in 0 .. QUEU_SIZE /\ saved \in Nat
      /\ Visible <= saved
  BY SeenBounds DEF SeenIsQueued, QueueTypes
<1>2. \A j \in 1 .. Visible : queue[Back(j)] = saved - j + 1
  BY <1>1 DEF QueueHoldsUnsent
<1>3. ASSUME NEW i \in 1 .. Visible PROVE queue[Slot(i - 1)] = (saved - Visible) + i
  <2>1. Visible - i + 1 \in 1 .. Visible
    BY <1>1
  <2>2. queue[Back(Visible - i + 1)] = saved - (Visible - i + 1) + 1
    BY <1>2, <2>1
  <2>3. Slot(i - 1) = Back(Visible - i + 1)
    BY SlotIsBack
  <2> QED
    BY <1>1, <2>2, <2>3
<1>4. ASSUME Visible > 0 PROVE queue[qHead] = saved - Visible + 1
  <2>1. qHead = Back(Visible)
    BY <1>4, SlotIsBack
  <2> QED
    BY <1>1, <1>2, <1>4, <2>1
<1> QED
  BY <1>1, <1>3, <1>4

\* While it is sending in a ring never overrun, the loop sees them all.
LEMMA SeesAll ==
  ASSUME QueueTypes, QueueHoldsUnsent, SeenIsQueued, communicateStep = 2, ~overrun
  PROVE  saved - popped = Visible /\ queue[qHead] = popped + 1
<1>1. Visible > 0 /\ Visible <= saved - popped /\ saved \in Nat /\ popped \in Nat
      /\ QUEU_SIZE \in Nat \ {0} /\ Waiting \in 0 .. QUEU_SIZE - 1
  BY SeenBounds DEF SeenIsQueued, QueueTypes
<1>2. saved - popped = Visible
  BY <1>1 DEF QueueHoldsUnsent, Visible
<1> QED
  BY <1>1, <1>2, SeenAreLast

\* save_pub_msg_to_queue keeps the ring right.  The loop sees one message more,
\* none of a ring that filled up, or the new one alone.
LEMMA SaveKeepsQueue ==
  ASSUME QueueTypes, QueueHoldsUnsent, SeenIsQueued, save_pub_msg_to_queue
  PROVE  /\ QueueTypes' /\ QueueHoldsUnsent' /\ SeenIsQueued'
         /\ \/ Visible < QUEU_SIZE /\ Visible' = Visible + 1
            \/ Visible = QUEU_SIZE - 1 /\ Visible' = 0
            \/ Visible = QUEU_SIZE /\ Visible' = 1
<1>1. /\ qHead' = qHead /\ popped' = popped /\ saved' = saved + 1
      /\ communicateStep' = communicateStep
      /\ qTail' = NextIndex(qTail) /\ queue' = [queue EXCEPT ![qTail] = saved + 1]
      /\ overrun' = (overrun \/ saved - popped >= QUEU_SIZE)
  BY DEF save_pub_msg_to_queue
<1>2. QUEU_SIZE \in Nat \ {0} /\ Visible \in 0 .. QUEU_SIZE /\ Waiting \in 0 .. QUEU_SIZE - 1
  BY SeenBounds
<1>3. QueueTypes'
  BY <1>1, <1>2 DEF QueueTypes, NextIndex
<1>4. Waiting' = IF Waiting + 1 = QUEU_SIZE THEN 0 ELSE Waiting + 1
  BY <1>1, <1>2 DEF QueueTypes, Waiting, NextIndex
<1>5. \/ Visible < QUEU_SIZE /\ Visible' = Visible + 1
      \/ Visible = QUEU_SIZE - 1 /\ Visible' = 0
      \/ Visible = QUEU_SIZE /\ Visible' = 1
  BY <1>1, <1>2, <1>4 DEF Visible
<1>6. SeenIsQueued'
  BY <1>1, <1>2, <1>5 DEF SeenIsQueued, QueueTypes
<1>7. ASSUME NEW j \in 1 .. QUEU_SIZE, j <= saved + 1
      PROVE  queue'[Back(j)'] = saved + 1 - j + 1
  <2>1. CASE j = 1
    <3>1. Back(j)' = qTail
      BY <1>1, <1>2, <2>1 DEF Back, NextIndex, QueueTypes
    <3> QED
      BY <1>1, <2>1, <3>1 DEF QueueTypes
  <2>2. CASE j # 1
    <3>1. Back(j)' = Back(j - 1) /\ Back(j - 1) # qTail /\ Back(j - 1) \in 0 .. QUEU_SIZE - 1
      BY <1>1, <1>2, <2>2 DEF Back, NextIndex, QueueTypes
    <3>2. j - 1 \in 1 .. QUEU_SIZE /\ j - 1 <= saved
      BY <1>2, <1>7, <2>2 DEF QueueTypes
    <3>3. queue[Back(j - 1)] = saved - (j - 1) + 1
      BY <3>2 DEF QueueHoldsUnsent
    <3> QED
      BY <1>1, <3>1, <3>3 DEF QueueTypes
  <2> QED
    BY <2>1, <2>2
<1>8. popped' <= saved'
  BY <1>1 DEF QueueTypes, QueueHoldsUnsent
<1>9. ASSUME ~overrun'
      PROVE  Waiting' = saved' - popped' \/ (Waiting' = 0 /\ saved' - popped' = QUEU_SIZE)
  <2>1. ~overrun /\ ~(saved - popped >= QUEU_SIZE)
    BY <1>1, <1>9
  <2>2. Waiting = saved - popped
    BY <1>2, <2>1 DEF QueueHoldsUnsent, QueueTypes
  <2> QED
    BY <1>1, <1>2, <1>4, <2>2 DEF QueueTypes
<1>10. QueueHoldsUnsent'
  <2>1. \A j \in 1 .. QUEU_SIZE : j <= saved' => queue'[Back(j)'] = saved' - j + 1
    <3> SUFFICES ASSUME NEW j \in 1 .. QUEU_SIZE, j <= saved'
                 PROVE  queue'[Back(j)'] = saved' - j + 1
      BY Zenon
    <3>1. saved' = saved + 1
      BY <1>1
    <3>2. j <= saved + 1
      BY <3>1
    <3>3. queue'[Back(j)'] = saved + 1 - j + 1
      BY <1>7, <3>2, Zenon
    <3>4. j \in Nat /\ saved \in Nat
      BY <1>2 DEF QueueTypes
    <3>5. saved + 1 - j + 1 = saved' - j + 1
      BY <3>1, <3>4
    <3> QED
      BY <3>3, <3>5, Zenon
  <2>2. ~overrun' => Waiting' = saved' - popped' \/ (Waiting' = 0 /\ saved' - popped' = QUEU_SIZE)
    BY <1>9, Zenon
  <2> QED
    BY <1>8, <2>1, <2>2, Zenon DEF QueueHoldsUnsent
<1> QED
  BY <1>3, <1>5, <1>6, <1>10

\* reset_pub_msg_queue removes the first message the loop sees.
LEMMA PopKeepsQueue ==
  ASSUME QueueTypes, QueueHoldsUnsent, SeenIsQueued, communicateStep = 2,
         PopHead, communicateStep' = 1, UNCHANGED <<saved, overrun>>
  PROVE  QueueTypes' /\ QueueHoldsUnsent' /\ SeenIsQueued' /\ Visible' = Visible - 1
<1>1. /\ qHead' = NextIndex(qHead) /\ popped' = popped + 1 /\ qTail' = qTail
      /\ queue' = queue /\ saved' = saved
  BY DEF PopHead
<1>2. /\ QUEU_SIZE \in Nat \ {0} /\ Visible \in 0 .. QUEU_SIZE /\ Visible > 0
      /\ Waiting \in 0 .. QUEU_SIZE - 1
  BY SeenBounds
<1>3. QueueTypes'
  BY <1>1, <1>2 DEF QueueTypes, NextIndex
<1>4. Waiting' = IF Waiting = 0 THEN QUEU_SIZE - 1 ELSE Waiting - 1
  BY <1>1, <1>2 DEF QueueTypes, Waiting, NextIndex
<1>5. Visible' = Visible - 1
  BY <1>2, <1>4 DEF Visible
<1>6. SeenIsQueued' /\ popped' <= saved'
  BY <1>1, <1>2, <1>5 DEF SeenIsQueued, QueueTypes
<1>7. ~overrun => Waiting' = saved' - popped'
  <2>1. ~overrun => saved - popped = Visible
    BY SeesAll
  <2>2. Waiting' = Visible'
    BY <1>3 DEF Visible
  <2> QED
    BY <1>1, <1>2, <1>5, <2>1, <2>2 DEF QueueTypes
<1>8. \A j \in 1 .. QUEU_SIZE : j <= saved => queue[Back(j)] = saved - j + 1
  BY DEF QueueHoldsUnsent
<1>9. QueueHoldsUnsent'
  BY <1>1, <1>6, <1>7, <1>8 DEF QueueHoldsUnsent, Back
<1> QED
  BY <1>3, <1>5, <1>6, <1>9

\* Without a change to the ring the loop sees what it saw, or a ring that filled up
\* while it was sending looks empty when it stops.
LEMMA SeenFrame ==
  ASSUME QueueTypes, UNCHANGED <<qHead, qTail>>,
         communicateStep' = 2 => communicateStep = 2 \/ get_pub_msg_flag
  PROVE  \/ Visible' = Visible
         \/ Visible = QUEU_SIZE /\ Visible' = 0
<1>1. Waiting' = Waiting /\ (get_pub_msg_flag => Waiting # 0)
  BY PubAssumption DEF Waiting, get_pub_msg_flag, QueueTypes
<1> QED
  BY <1>1 DEF Visible

-----------------------------------------------------------------------------
(* Every action preserves PubInv. *)

LEMMA TypeGivesQueueTypes == TypeOK => QueueTypes
BY DEF TypeOK, QueueTypes

\* A step that touches neither the ring nor its history keeps it right.
LEMMA QueueFrame ==
  ASSUME PubInv, UNCHANGED ringVars, UNCHANGED <<payloads, process_work_step>>,
         communicateStep' = 2 => communicateStep = 2 \/ get_pub_msg_flag
  PROVE  QueueHoldsUnsent' /\ SeenIsQueued' /\ PayloadsBehind'
<1>1. QueueTypes
  BY TypeGivesQueueTypes DEF PubInv
<1>2. QueueHoldsUnsent'
  BY DEF PubInv, QueueHoldsUnsent, ringVars, Back, Waiting
<1>3. Visible' = Visible \/ (Visible = QUEU_SIZE /\ Visible' = 0)
  BY <1>1, SeenFrame DEF ringVars
<1>4. Visible \in 0 .. QUEU_SIZE /\ QUEU_SIZE \in Nat \ {0}
  BY <1>1, SeenBounds
<1>5. SeenIsQueued'
  BY <1>1, <1>3, <1>4 DEF PubInv, SeenIsQueued, ringVars, QueueTypes
<1>6. PayloadsBehind'
  <2> SUFFICES ASSUME NEW i \in 1 .. Len(payloads)
               PROVE  payloads[i] + Visible' <= IF process_work_step = 3 THEN saved + 1 ELSE saved
    BY DEF PayloadsBehind, ringVars
  <2>1. payloads[i] \in Nat /\ saved \in Nat
    BY DEF PubInv, TypeOK
  <2>2. payloads[i] + Visible <= IF process_work_step = 3 THEN saved + 1 ELSE saved
    BY DEF PubInv, PayloadsBehind
  <2> QED
    BY <1>3, <1>4, <2>1, <2>2
<1> QED
  BY <1>2, <1>5, <1>6

\* The state after power-on.
LEMMA PubInitInv == Init => PubInv
<1> SUFFICES ASSUME Init PROVE PubInv
  OBVIOUS
<1> USE PubAssumption
<1>1. TypeOK
  <2>1. /\ queue \in [0 .. QUEU_SIZE - 1 -> Nat]
        /\ qHead \in 0 .. QUEU_SIZE - 1 /\ qTail \in 0 .. QUEU_SIZE - 1
        /\ fifo \in Seq(Token) /\ payloads \in Seq(Nat)
    BY DEF Init
  <2>2. modem \in [session : BOOLEAN, wants_data : BOOLEAN,
                   prompts : 0 .. 1, acks : Nat, polls : 0 .. 1]
    BY DEF Init, FreshModem
  <2> QED
    BY <2>1, <2>2 DEF Init, TypeOK
<1>2. QueueHoldsUnsent /\ SeenIsQueued /\ PayloadsBehind
  BY DEF Init, QueueHoldsUnsent, Back, SeenIsQueued, PayloadsBehind, Visible, Waiting
<1>3. DeafOnlyWhileSending /\ CommandedInTurn /\ PayloadAtMostOnce
  BY DEF Init, DeafOnlyWhileSending, CommandedInTurn, PayloadAtMostOnce
<1>4. Control
  BY DEF Init, Control, DropIsNotDeaf, RetryBelowLimit, MachineOnHead
<1> QED
  BY <1>1, <1>2, <1>3, <1>4 DEF PubInv

\* Another task queues a message.
LEMMA SaveInv == PubInv /\ save_pub_msg_to_queue => PubInv'
<1> SUFFICES ASSUME PubInv, save_pub_msg_to_queue PROVE PubInv'
  OBVIOUS
<1> USE PubAssumption
<1>1. /\ QueueTypes /\ QueueTypes' /\ QueueHoldsUnsent' /\ SeenIsQueued'
      /\ \/ Visible < QUEU_SIZE /\ Visible' = Visible + 1
         \/ Visible = QUEU_SIZE - 1 /\ Visible' = 0
         \/ Visible = QUEU_SIZE /\ Visible' = 1
  BY SaveKeepsQueue, TypeGivesQueueTypes DEF PubInv
<1>2. TypeOK'
  BY <1>1 DEF PubInv, TypeOK, QueueTypes, save_pub_msg_to_queue, ring, flags, send, cell
<1>3. DeafOnlyWhileSending' /\ CommandedInTurn' /\ PayloadAtMostOnce'
  BY DEF PubInv, TypeOK, save_pub_msg_to_queue, flags, send, DeafOnlyWhileSending,
         CommandedInTurn, PayloadAtMostOnce
<1>4. Control'
  BY DEF PubInv, TypeOK, save_pub_msg_to_queue, flags, send, Control, DropIsNotDeaf,
         RetryBelowLimit, MachineOnHead
<1>5. PayloadsBehind'
  <2>1. /\ saved' = saved + 1 /\ payloads' = payloads
        /\ process_work_step' = process_work_step
    BY DEF save_pub_msg_to_queue, send
  <2> SUFFICES ASSUME NEW i \in 1 .. Len(payloads)
               PROVE  payloads[i] + Visible' <= IF process_work_step = 3 THEN saved + 2 ELSE saved + 1
    BY <2>1 DEF PayloadsBehind, PubInv, TypeOK
  <2>2. payloads[i] \in Nat /\ saved \in Nat
        /\ Visible \in 0 .. QUEU_SIZE /\ QUEU_SIZE \in Nat \ {0}
    BY <1>1, SeenBounds DEF PubInv, TypeOK
  <2>3. payloads[i] + Visible <= IF process_work_step = 3 THEN saved + 1 ELSE saved
    BY DEF PubInv, PayloadsBehind
  <2> QED
    BY <1>1, <2>2, <2>3
<1> QED
  BY <1>1, <1>2, <1>3, <1>4, <1>5 DEF PubInv

\* What a scan may do to the FIFO: it stays a sequence of answers.
LEMMA FifoStaysTyped ==
  ASSUME NEW s \in Seq(Token)
  PROVE  /\ \A i \in 1 .. Len(s) : SubSeq(s, i, Len(s)) \in Seq(Token)
         /\ s # <<>> => Tail(s) \in Seq(Token)
         /\ \A t \in Token : Append(s, t) \in Seq(Token)
OBVIOUS

\* A scan of the FIFO changes at most what the scanner owns.
LEMMA ScanInv == PubInv /\ get_net4G_recv_cmd => PubInv'
<1> SUFFICES ASSUME PubInv, get_net4G_recv_cmd PROVE PubInv'
  OBVIOUS
<1> USE PubAssumption
<1>0. fifo \in Seq(Token) /\ cmds \in Nat /\ mem \in {"start", "whole", "cut"}
      /\ banner \in BOOLEAN /\ gone \in BOOLEAN /\ cmd_get_step \in 0 .. 3
  BY DEF PubInv, TypeOK
<1>1. /\ fifo' \in Seq(Token) /\ cmds' \in Nat /\ mem' \in {"start", "whole", "cut"}
      /\ banner' \in BOOLEAN /\ gone' \in BOOLEAN /\ cmd_get_step' \in 0 .. 3
      /\ pc' \in {"drop", "switch"}
      /\ pc' = "drop" => ~check_pubMiddleFlag' /\ ~check_pubAckFlag'
  <2>1. CASE ScanForPrompt
    BY <1>0, <2>1 DEF ScanForPrompt, ring
  <2>2. CASE ScanForAck
    BY <1>0, <2>2 DEF ScanForAck, ring
  <2>3. CASE ScanForCommand
    <3>1. ~check_pubMiddleFlag' /\ ~check_pubAckFlag'
      BY <2>3 DEF ScanForCommand, flags
    <3>2. ASSUME NoHeader
          PROVE  /\ fifo' \in Seq(Token) /\ mem' \in {"start", "whole", "cut"}
                 /\ banner' \in BOOLEAN /\ gone' \in BOOLEAN /\ pc' = "drop"
      <4>1. CASE banner /\ ~Has("disc")
        <5>1. fifo' = <<>> /\ mem' = "start" /\ banner' = FALSE /\ gone' = TRUE /\ pc' = "drop"
          BY <3>2, <4>1, Zenon DEF NoHeader
        <5>2. fifo' \in Seq(Token)
          BY <5>1
        <5>3. mem' \in {"start", "whole", "cut"} /\ banner' \in BOOLEAN /\ gone' \in BOOLEAN
          BY <5>1, Zenon
        <5> QED
          BY <5>1, <5>2, <5>3, Zenon
      <4>2. CASE ~(banner /\ ~Has("disc"))
        <5>1. gone' \in BOOLEAN
          BY <3>2, <4>2, Zenon DEF NoHeader, Has
        <5> QED
          BY <1>0, <3>2, <4>2, <5>1 DEF NoHeader, ring
      <4> QED
        BY <4>1, <4>2
    <3>3. ASSUME NEW i \in 1 .. Len(fifo) PROVE SubSeq(fifo, i, Len(fifo)) \in Seq(Token)
      BY <1>0, FifoStaysTyped
    <3>4. fifo # <<>> => Tail(fifo) \in Seq(Token)
      BY <1>0, FifoStaysTyped
    <3>5. CASE NoHeader
      <4>1. cmds' \in Nat /\ cmd_get_step' \in 0 .. 3
        BY <1>0, <2>3 DEF ScanForCommand
      <4> QED
        BY <3>1, <3>2, <3>5, <4>1
    <3>6. CASE cmd_get_step = 0 /\ ~NoHeader
      BY <1>0, <2>3, <3>6 DEF ScanForCommand, ring
    <3>7. CASE cmd_get_step = 1 /\ ~NoHeader
      <4>1. \E i \in 1 .. Len(fifo) : fifo' = SubSeq(fifo, i, Len(fifo))
        BY <2>3, <3>7 DEF ScanForCommand
      <4>2. fifo' \in Seq(Token)
        BY <3>3, <4>1
      <4>3. cmd_get_step' = 2 /\ pc' = "switch" /\ UNCHANGED <<mem, banner, cmds, gone>>
        BY <2>3, <3>7 DEF ScanForCommand
      <4> QED
        BY <1>0, <4>2, <4>3
    <3>8. CASE cmd_get_step = 2 /\ ~NoHeader
      BY <1>0, <2>3, <3>8 DEF ScanForCommand, ring
    <3>9. CASE cmd_get_step = 3 /\ ~NoHeader
      <4>1. fifo' \in Seq(Token)
        BY <1>0, <2>3, <3>4, <3>9 DEF ScanForCommand
      <4> QED
        BY <1>0, <2>3, <3>9, <4>1 DEF ScanForCommand
    <3> QED
      BY <1>0, <3>5, <3>6, <3>7, <3>8, <3>9
  <2> QED
    BY <2>1, <2>2, <2>3 DEF get_net4G_recv_cmd
<1>2. /\ check_pubMiddleFlag' \in BOOLEAN /\ pubMiddleFlag' \in BOOLEAN
      /\ check_pubAckFlag' \in BOOLEAN /\ pubAckFlag' \in BOOLEAN
      /\ check_pubMiddleFlag' => check_pubMiddleFlag
      /\ check_pubAckFlag' => check_pubAckFlag
  <2>1. CASE ScanForPrompt
    BY <2>1 DEF ScanForPrompt, PubInv, TypeOK, Has
  <2>2. CASE ScanForAck
    BY <2>2 DEF ScanForAck, PubInv, TypeOK, Has
  <2>3. CASE ScanForCommand
    BY <2>3 DEF ScanForCommand, flags, PubInv, TypeOK
  <2> QED
    BY <2>1, <2>2, <2>3 DEF get_net4G_recv_cmd
<1>3. pc = "recv" /\ UNCHANGED <<sendQ, send, communicateStep, cell,
                               net4g_process_retry_times, modem, events, hist>>
  BY DEF get_net4G_recv_cmd
<1>4. TypeOK'
  BY <1>1, <1>2, <1>3 DEF PubInv, TypeOK, sendQ, send, cell, hist
<1>5. QueueHoldsUnsent' /\ SeenIsQueued' /\ PayloadsBehind'
  BY <1>3, QueueFrame DEF ringVars, sendQ, send, hist
<1>6. DeafOnlyWhileSending' /\ CommandedInTurn' /\ PayloadAtMostOnce'
  BY <1>1, <1>2, <1>3 DEF PubInv, DeafOnlyWhileSending, CommandedInTurn, PayloadAtMostOnce,
                          send, hist
<1>7. Control'
  BY <1>1, <1>2, <1>3 DEF PubInv, Control, DropIsNotDeaf, RetryBelowLimit,
                          MachineOnHead, send, hist
<1> QED
  BY <1>4, <1>5, <1>6, <1>7 DEF PubInv

\* The FIFO is thrown away, and a disconnection is returned if one was found.
LEMMA DropInv == PubInv /\ DropFifo => PubInv'
<1> SUFFICES ASSUME PubInv, DropFifo PROVE PubInv'
  OBVIOUS
<1> USE PubAssumption
<1>1. UNCHANGED <<sendQ, mem, banner, cmd_get_step, cmds, flags, send, cell, modem,
                  events, hist>>
  BY DEF DropFifo
<1>2. /\ pc' \in {"switch", "down"} /\ communicateStep' \in {0, communicateStep}
      /\ net4g_process_retry_times' \in 0 .. RETRY_LIMIT
      /\ pc' = "switch" => net4g_process_retry_times' < RETRY_LIMIT
      /\ ~check_pubMiddleFlag /\ ~check_pubAckFlag
      /\ fifo' = <<>> /\ gone' = FALSE
  <2>1. /\ pc = "drop" /\ ~check_pubMiddleFlag /\ ~check_pubAckFlag
        /\ net4g_process_retry_times \in Nat /\ net4g_process_retry_times < RETRY_LIMIT
    BY DEF DropFifo, PubInv, TypeOK, Control, RetryBelowLimit, DropIsNotDeaf
  <2>2. CASE gone
    BY <2>1, <2>2 DEF DropFifo, ReturnDisconnect
  <2>3. CASE ~gone
    BY <2>1, <2>3 DEF DropFifo
  <2> QED
    BY <2>2, <2>3
<1>3. TypeOK'
  <2>1. fifo' \in Seq(Token) /\ communicateStep' \in 0 .. 2
    BY <1>2 DEF PubInv, TypeOK
  <2>2. /\ gone' \in BOOLEAN /\ banner' \in BOOLEAN /\ overrun' \in BOOLEAN
        /\ prompted' \in BOOLEAN /\ net4g_get_cell_info_flag' \in BOOLEAN
        /\ check_pubMiddleFlag' \in BOOLEAN /\ pubMiddleFlag' \in BOOLEAN
        /\ check_pubAckFlag' \in BOOLEAN /\ pubAckFlag' \in BOOLEAN
    BY <1>1, <1>2 DEF PubInv, TypeOK, flags, cell, hist
  <2> QED
    BY <1>1, <1>2, <2>1, <2>2 DEF PubInv, TypeOK, sendQ, send, cell, hist
<1>4. QueueHoldsUnsent' /\ SeenIsQueued' /\ PayloadsBehind'
  BY <1>1, <1>2, QueueFrame DEF ringVars, sendQ, send, hist
<1>5. DeafOnlyWhileSending' /\ CommandedInTurn' /\ PayloadAtMostOnce'
  BY <1>1, <1>2 DEF PubInv, DeafOnlyWhileSending, CommandedInTurn, PayloadAtMostOnce,
                    flags, send, hist
<1>6. Control'
  BY <1>1, <1>2 DEF PubInv, TypeOK, Control, DropIsNotDeaf,
                    RetryBelowLimit, MachineOnHead, flags, send, hist
<1> QED
  BY <1>3, <1>4, <1>5, <1>6 DEF PubInv

\* Cases 0 and 1 of the switch: nothing is being sent.
LEMMA SwitchReceiveInv ==
  ASSUME PubInv, Switch,
         StartReceiving \/ HandleCommand \/ TurnToSend \/ PollModem \/ NothingToDo
  PROVE  PubInv'
<1> USE PubAssumption
<1>1. UNCHANGED <<sendQ, flags, send, net4g_process_retry_times, hist, ring, cmd_get_step,
                  gone, events>>
  BY DEF Switch, StartReceiving, HandleCommand, TurnToSend, PollModem, NothingToDo
<1>2. pc = "switch" /\ pc' = "recv" /\ communicateStep \in {0, 1}
  BY DEF Switch, StartReceiving, HandleCommand, TurnToSend, PollModem, NothingToDo
<1>3. communicateStep' \in {1, 2} /\ (communicateStep' = 2 => get_pub_msg_flag)
  BY DEF StartReceiving, HandleCommand, TurnToSend, PollModem, NothingToDo
<1>4. /\ cmds' \in Nat
      /\ net4g_get_cell_info_flag' \in BOOLEAN /\ getCellInfoStep' \in 0 .. 1
      /\ modem' \in [session : BOOLEAN, wants_data : BOOLEAN,
                     prompts : 0 .. 1, acks : Nat, polls : 0 .. 1]
  <2>0. /\ cmds \in Nat
        /\ net4g_get_cell_info_flag \in BOOLEAN /\ getCellInfoStep \in 0 .. 1
        /\ modem \in [session : BOOLEAN, wants_data : BOOLEAN,
                      prompts : 0 .. 1, acks : Nat, polls : 0 .. 1]
    BY DEF PubInv, TypeOK
  <2>1. CASE StartReceiving
    BY <2>0, <2>1 DEF StartReceiving, cell
  <2>2. CASE HandleCommand
    BY <2>0, <2>2 DEF HandleCommand, cell
  <2>3. CASE TurnToSend
    BY <2>0, <2>3 DEF TurnToSend, cell
  <2>4. CASE PollModem
    BY <2>0, <2>4 DEF PollModem
  <2>5. CASE NothingToDo
    BY <2>0, <2>5 DEF NothingToDo, cell
  <2> QED
    BY <2>1, <2>2, <2>3, <2>4, <2>5
<1>6. TypeOK'
  BY <1>1, <1>2, <1>3, <1>4 DEF PubInv, TypeOK, sendQ, flags, send, hist, ring
<1>7. QueueHoldsUnsent' /\ SeenIsQueued' /\ PayloadsBehind'
  BY <1>1, <1>3, QueueFrame DEF ringVars, sendQ, send, hist
<1>8. ~check_pubMiddleFlag /\ ~check_pubAckFlag
  BY <1>2 DEF PubInv, DeafOnlyWhileSending
<1>9. DeafOnlyWhileSending' /\ CommandedInTurn' /\ PayloadAtMostOnce'
  BY <1>1, <1>8 DEF PubInv, DeafOnlyWhileSending, CommandedInTurn, PayloadAtMostOnce,
                    flags, hist
<1>10. Control'
  BY <1>1, <1>2, <1>3 DEF PubInv, Control, DropIsNotDeaf,
       RetryBelowLimit, MachineOnHead, send, hist
<1> QED
  BY <1>6, <1>7, <1>9, <1>10 DEF PubInv

\* After a reconnection the send machine and the scanner resume with the
\* values they had.
LEMMA ReconnectInv == PubInv /\ Reconnect => PubInv'
<1> SUFFICES ASSUME PubInv, Reconnect PROVE PubInv'
  OBVIOUS
<1> USE PubAssumption
<1>1. UNCHANGED <<sendQ, cmd_get_step, cmds, flags, send, communicateStep, cell,
                  net4g_process_retry_times, gone, events, saved, popped, commanded,
                  payloads, overrun>>
  BY DEF Reconnect
<1>2. /\ pc = "down" /\ pc' = "recv" /\ net4g_process_retry_times < RETRY_LIMIT
      /\ banner' = FALSE /\ prompted' = FALSE /\ modem' = FreshModem
  BY DEF Reconnect
<1>3. fifo' \in Seq(Token)
  <2>1. <<>> \in Seq(Token) /\ <<"junk">> \in Seq(Token)
    BY DEF Token
  <2> QED
    BY <2>1, Zenon DEF Reconnect
<1>4. mem' \in {"start", "whole", "cut"}
  BY DEF Reconnect
<1>5. modem' \in [session : BOOLEAN, wants_data : BOOLEAN,
                  prompts : 0 .. 1, acks : Nat, polls : 0 .. 1]
  BY <1>2 DEF FreshModem
<1>6. TypeOK'
  BY <1>1, <1>2, <1>3, <1>4, <1>5 DEF PubInv, TypeOK, sendQ, flags, send, cell
<1>7. QueueHoldsUnsent' /\ SeenIsQueued' /\ PayloadsBehind'
  BY <1>1, QueueFrame DEF ringVars, sendQ, send
<1>8. DeafOnlyWhileSending' /\ CommandedInTurn' /\ PayloadAtMostOnce'
  BY <1>1, <1>2 DEF PubInv, DeafOnlyWhileSending, CommandedInTurn, PayloadAtMostOnce, flags
<1>9. Control'
  BY <1>1, <1>2 DEF PubInv, Control, DropIsNotDeaf, RetryBelowLimit,
                    MachineOnHead, flags, send
<1> QED
  BY <1>6, <1>7, <1>8, <1>9 DEF PubInv

\* A reboot starts over.
LEMMA RebootInv == PubInv /\ Reboot => PubInv'
<1> SUFFICES ASSUME PubInv, Reboot PROVE PubInv'
  OBVIOUS
<1> USE PubAssumption
<1>1. TypeOK'
  <2>1. /\ (queue \in [0 .. QUEU_SIZE - 1 -> Nat])'
        /\ (qHead \in 0 .. QUEU_SIZE - 1)' /\ (qTail \in 0 .. QUEU_SIZE - 1)'
        /\ (fifo \in Seq(Token))' /\ (payloads \in Seq(Nat))'
    BY DEF Reboot
  <2>2. modem' \in [session : BOOLEAN, wants_data : BOOLEAN,
                    prompts : 0 .. 1, acks : Nat, polls : 0 .. 1]
    BY DEF Reboot, FreshModem
  <2>3. events' \in Nat
    BY DEF Reboot, PubInv, TypeOK
  <2>4. /\ mem' = "start" /\ banner' = FALSE /\ cmd_get_step' = 0 /\ cmds' = 0
        /\ check_pubMiddleFlag' = FALSE /\ pubMiddleFlag' = FALSE
        /\ check_pubAckFlag' = FALSE /\ pubAckFlag' = FALSE
        /\ process_work_step' = 0 /\ wait_time_count' = 0 /\ data_send_fail_times' = 0
        /\ data_send_wait_rsp1_fail_times' = 0 /\ communicateStep' = 0
        /\ net4g_get_cell_info_flag' = FALSE /\ getCellInfoStep' = 0
        /\ net4g_process_retry_times' = 0 /\ pc' = "recv" /\ gone' = FALSE
        /\ saved' = 0 /\ popped' = 0 /\ commanded' = 0 /\ prompted' = FALSE
        /\ overrun' = FALSE
    BY DEF Reboot
  <2>5. /\ (cmd_get_step \in 0 .. 3)' /\ (cmds \in Nat)' /\ (process_work_step \in 0 .. 3)'
        /\ (wait_time_count \in Nat)' /\ (data_send_fail_times \in 0 .. FAIL_LIMIT - 1)'
        /\ (data_send_wait_rsp1_fail_times \in 0 .. FAIL_LIMIT - 1)'
        /\ (communicateStep \in 0 .. 2)' /\ (getCellInfoStep \in 0 .. 1)'
        /\ (net4g_process_retry_times \in 0 .. RETRY_LIMIT)'
        /\ (saved \in Nat)' /\ (popped \in Nat)' /\ (commanded \in Nat)'
    BY <2>4
  <2>6. (overrun \in BOOLEAN)'
    BY <2>4, Zenon
  <2> QED
    BY <2>1, <2>2, <2>3, <2>4, <2>5, <2>6, Zenon DEF TypeOK
<1>2. QueueHoldsUnsent' /\ SeenIsQueued' /\ PayloadsBehind'
  BY DEF Reboot, QueueHoldsUnsent, Back, SeenIsQueued, PayloadsBehind, Visible, Waiting
<1>3. DeafOnlyWhileSending' /\ CommandedInTurn' /\ PayloadAtMostOnce'
  BY DEF Reboot, DeafOnlyWhileSending, CommandedInTurn, PayloadAtMostOnce
<1>4. Control'
  BY DEF Reboot, Control, DropIsNotDeaf, RetryBelowLimit, MachineOnHead
<1> QED
  BY <1>1, <1>2, <1>3, <1>4 DEF PubInv

\* The modem and the UART interrupt touch only the FIFO.
LEMMA ModemInv == PubInv /\ Modem => PubInv'
<1> SUFFICES ASSUME PubInv, Modem PROVE PubInv'
  OBVIOUS
<1> USE PubAssumption
<1> DEFINE M == [session : BOOLEAN, wants_data : BOOLEAN,
                 prompts : 0 .. 1, acks : Nat, polls : 0 .. 1]
<1>0. fifo \in Seq(Token) /\ mem \in {"start", "whole", "cut"} /\ banner \in BOOLEAN
      /\ events \in Nat /\ modem \in M
  BY DEF PubInv, TypeOK
<1>1. UNCHANGED <<sendQ, cmd_get_step, cmds, flags, send, communicateStep, cell,
                  net4g_process_retry_times, pc, gone, hist>>
  BY DEF Modem
<1>2. ASSUME NEW token \in Token, Arrives(token)
      PROVE  fifo' \in Seq(Token) /\ mem' \in {"start", "whole", "cut"} /\ banner' \in BOOLEAN
  <2>1. fifo' \in Seq(Token)
    BY <1>0, <1>2 DEF Arrives
  <2>2. mem' \in {"start", "whole", "cut"}
    BY <1>0, <1>2 DEF Arrives
  <2>3. banner' \in BOOLEAN
    BY <1>0, <1>2, Zenon DEF Arrives
  <2> QED
    BY <2>1, <2>2, <2>3
<1>3. ASSUME NEW kind \in {"prompts", "acks", "polls"}, Owes(kind),
             modem' = [modem EXCEPT ![kind] = @ - 1]
      PROVE  modem' \in M
  <2>1. CASE kind = "prompts"
    BY <1>0, <1>3, <2>1 DEF Owes
  <2>2. CASE kind = "acks"
    BY <1>0, <1>3, <2>2 DEF Owes
  <2>3. CASE kind = "polls"
    BY <1>0, <1>3, <2>3 DEF Owes
  <2> QED
    BY <1>3, <2>1, <2>2, <2>3
<1> HIDE DEF M
<1>4. /\ fifo' \in Seq(Token) /\ mem' \in {"start", "whole", "cut"} /\ banner' \in BOOLEAN
      /\ modem' \in M /\ events' \in Nat
  <2>1. CASE Answer("prompts", "prompt")
    BY <1>0, <1>2, <1>3, <2>1 DEF Answer, Token
  <2>2. CASE Answer("acks", "ack")
    BY <1>0, <1>2, <1>3, <2>2 DEF Answer, Token
  <2>3. CASE Answer("polls", "query")
    BY <1>0, <1>2, <1>3, <2>3 DEF Answer, Token
  <2>4. CASE \E kind \in {"prompts", "acks", "polls"} : Lose(kind)
    BY <1>0, <1>3, <2>4 DEF Lose, ring
  <2>5. ASSUME NEW token \in {"disc", "boot"}, SessionEnds(token)
        PROVE  /\ fifo' \in Seq(Token) /\ mem' \in {"start", "whole", "cut"}
               /\ banner' \in BOOLEAN /\ modem' \in M /\ events' \in Nat
    <3>1. modem' \in M
      <4>1. modem' = [modem EXCEPT !.session = FALSE, !.wants_data = FALSE,
                                   !.prompts = 0, !.acks = 0]
        BY <2>5 DEF SessionEnds
      <4>2. modem' = [session |-> FALSE, wants_data |-> FALSE, prompts |-> 0, acks |-> 0,
                      polls |-> modem.polls]
        BY <1>0, <4>1 DEF M
      <4>3. modem.polls \in 0 .. 1
        BY <1>0 DEF M
      <4> QED
        BY <4>2, <4>3 DEF M
    <3> QED
      BY <1>0, <1>2, <2>5, <3>1 DEF SessionEnds, Token
  <2>6. CASE CloudCommand
    BY <1>0, <1>2, <2>6 DEF CloudCommand, Token
  <2> QED
    BY <2>1, <2>2, <2>3, <2>4, <2>5, <2>6 DEF Modem
<1>5. TypeOK'
  BY <1>1, <1>4 DEF PubInv, TypeOK, sendQ, flags, send, cell, hist, M
<1>6. QueueHoldsUnsent' /\ SeenIsQueued' /\ PayloadsBehind'
  BY <1>1, QueueFrame DEF ringVars, sendQ, send, hist
<1>7. DeafOnlyWhileSending' /\ CommandedInTurn' /\ PayloadAtMostOnce'
  BY <1>1 DEF PubInv, DeafOnlyWhileSending, CommandedInTurn, PayloadAtMostOnce, flags, send, hist
<1>8. Control'
  BY <1>1 DEF PubInv, Control, DropIsNotDeaf, RetryBelowLimit,
              MachineOnHead, flags, send, hist
<1> QED
  BY <1>5, <1>6, <1>7, <1>8 DEF PubInv

\* So does the request of the timer task for cell information.
LEMMA RequestInv == PubInv /\ RequestCellInfo => PubInv'
<1> SUFFICES ASSUME PubInv, RequestCellInfo PROVE PubInv'
  OBVIOUS
<1>1. UNCHANGED <<sendQ, ring, cmd_get_step, cmds, flags, send, communicateStep,
                  getCellInfoStep, net4g_process_retry_times, pc, gone, modem, hist>>
  BY DEF RequestCellInfo
<1>2. events' = events + 1 /\ net4g_get_cell_info_flag' = TRUE
  BY DEF RequestCellInfo
<1>3. TypeOK'
  BY <1>1, <1>2 DEF PubInv, TypeOK, sendQ, ring, flags, send, hist
<1>4. QueueHoldsUnsent' /\ SeenIsQueued' /\ PayloadsBehind'
  BY <1>1, QueueFrame DEF ringVars, sendQ, send, hist
<1>5. DeafOnlyWhileSending' /\ CommandedInTurn' /\ PayloadAtMostOnce'
  BY <1>1 DEF PubInv, DeafOnlyWhileSending, CommandedInTurn, PayloadAtMostOnce, flags, send, hist
<1>6. Control'
  BY <1>1 DEF PubInv, Control, DropIsNotDeaf, RetryBelowLimit,
              MachineOnHead, flags, send, hist
<1> QED
  BY <1>3, <1>4, <1>5, <1>6 DEF PubInv

-----------------------------------------------------------------------------
(* The send machine.  What one call may change, and what it leaves to the   *)
(* loop, is the same for every stage.                                       *)

ModemType == [session : BOOLEAN, wants_data : BOOLEAN,
              prompts : 0 .. 1, acks : Nat, polls : 0 .. 1]

FlagTypes ==
  /\ check_pubMiddleFlag \in BOOLEAN /\ pubMiddleFlag \in BOOLEAN
  /\ check_pubAckFlag \in BOOLEAN /\ pubAckFlag \in BOOLEAN
  /\ prompted \in BOOLEAN

CountTypes ==
  /\ process_work_step \in 0 .. 3 /\ wait_time_count \in Nat
  /\ data_send_fail_times \in 0 .. FAIL_LIMIT - 1
  /\ data_send_wait_rsp1_fail_times \in 0 .. FAIL_LIMIT - 1
  /\ modem \in ModemType
  /\ commanded \in Nat /\ payloads \in Seq(Nat)

SendTypes == FlagTypes /\ CountTypes

\* A stage that sets a check flag is the stage it is set for; only a machine
\* back in its first stage lets the loop go on, or disconnect; only the data
\* stage writes, and it writes the head of the queue, as the first one announces it.
StageEffect(r) ==
  /\ check_pubMiddleFlag' => process_work_step' = 1 /\ r = 0
  /\ check_pubAckFlag' => process_work_step' = 3 /\ r = 0
  /\ r = 1 => process_work_step # 0 /\ process_work_step' = 0
  /\ r = 2 => process_work_step = 1 /\ process_work_step' = 0
  /\ commanded' = IF process_work_step = 0 THEN queue[qHead] ELSE commanded
  /\ \/ /\ payloads' = payloads
        /\ process_work_step = 3 => process_work_step' = 3 \/ r = 1
        /\ process_work_step' = 3 => process_work_step = 3
     \/ /\ payloads' = Append(payloads, queue[qHead])
        /\ process_work_step = 2 /\ process_work_step' = 3

\* The modem's record stays one.
LEMMA ModemTakesTyped ==
  ASSUME modem \in ModemType, ModemTakesCommand \/ ModemTakesData
  PROVE  modem' \in ModemType
<1>1. modem.acks \in Nat /\ modem.acks + 1 \in Nat
  BY DEF ModemType
<1>2. [modem EXCEPT !.wants_data = FALSE, !.acks = @ + 1] \in ModemType
  BY <1>1 DEF ModemType
<1>3. [modem EXCEPT !.wants_data = TRUE, !.prompts = 1] \in ModemType
  <2>1. ASSUME NEW w \in BOOLEAN, NEW p \in 0 .. 1
        PROVE  [modem EXCEPT !.wants_data = w, !.prompts = p] \in ModemType
    BY Zenon DEF ModemType
  <2>2. 1 \in 0 .. 1
    OBVIOUS
  <2> QED
    BY <2>1, <2>2, Zenon
<1>4. CASE ModemTakesCommand
  BY <1>2, <1>3, <1>4 DEF ModemTakesCommand
<1>5. CASE ModemTakesData
  BY <1>2, <1>5 DEF ModemTakesData
<1> QED
  BY <1>4, <1>5

\* Each stage of net4g_send_data_process has that effect.
LEMMA StageHasEffect ==
  ASSUME SendTypes, DeafOnlyWhileSending, queue[qHead] \in Nat, NEW r \in 0 .. 2, net4g_send_data_process(r)
  PROVE  SendTypes' /\ StageEffect(r)
<1> USE PubAssumption
<1>1. CASE SendCommand(r)
  <2>1. modem' \in ModemType
    BY <1>1, ModemTakesTyped DEF SendCommand, SendTypes, CountTypes
  <2>2. SendTypes'
    <3>1. FlagTypes'
      BY <1>1, Zenon DEF SendCommand, SendTypes, FlagTypes
    <3>2. CountTypes'
      BY <1>1, <2>1 DEF SendCommand, SendTypes, CountTypes
    <3> QED
      BY <3>1, <3>2 DEF SendTypes
  <2>3. StageEffect(r)
    BY <1>1 DEF SendCommand, SendTypes, FlagTypes, CountTypes, StageEffect, DeafOnlyWhileSending
  <2> QED
    BY <2>2, <2>3
<1>2. CASE SeePrompt(r)
  <2>1. SendTypes'
    <3>1. FlagTypes'
      BY <1>2, Zenon DEF SeePrompt, SendTypes, FlagTypes
    <3>2. CountTypes'
      BY <1>2 DEF SeePrompt, SendTypes, CountTypes
    <3> QED
      BY <3>1, <3>2 DEF SendTypes
  <2>2. StageEffect(r)
    BY <1>2 DEF SeePrompt, SendTypes, FlagTypes, CountTypes, StageEffect, DeafOnlyWhileSending
  <2> QED
    BY <2>1, <2>2
<1>3. CASE AwaitPrompt(r)
  <2>1. SendTypes'
    <3>1. FlagTypes'
      BY <1>3, Zenon DEF AwaitPrompt, flags, SendTypes, FlagTypes
    <3>2. CountTypes'
      BY <1>3 DEF AwaitPrompt, flags, SendTypes, CountTypes
    <3> QED
      BY <3>1, <3>2 DEF SendTypes
  <2>2. StageEffect(r)
    BY <1>3 DEF AwaitPrompt, SendTypes, FlagTypes, CountTypes, StageEffect, DeafOnlyWhileSending, flags
  <2> QED
    BY <2>1, <2>2
<1>4. CASE PromptTimeout(r)
  <2>1. SendTypes'
    <3>1. FlagTypes'
      BY <1>4, Zenon DEF PromptTimeout, SendTypes, FlagTypes
    <3>2. CountTypes'
      BY <1>4 DEF PromptTimeout, SendTypes, CountTypes
    <3> QED
      BY <3>1, <3>2 DEF SendTypes
  <2>2. StageEffect(r)
    BY <1>4 DEF PromptTimeout, SendTypes, FlagTypes, CountTypes, StageEffect, DeafOnlyWhileSending
  <2> QED
    BY <2>1, <2>2
<1>5. CASE SendPayload(r)
  <2>1. modem' \in ModemType
    BY <1>5, ModemTakesTyped DEF SendPayload, SendTypes, CountTypes
  <2>2. payloads' = Append(payloads, queue[qHead]) /\ payloads' \in Seq(Nat)
    BY <1>5 DEF SendPayload, SendTypes, CountTypes
  <2>3. SendTypes'
    <3>1. FlagTypes'
      BY <1>5, Zenon DEF SendPayload, SendTypes, FlagTypes
    <3>2. CountTypes'
      BY <1>5, <2>1, <2>2 DEF SendPayload, SendTypes, CountTypes
    <3> QED
      BY <3>1, <3>2 DEF SendTypes
  <2>4. StageEffect(r)
    BY <1>5, <2>2 DEF SendPayload, SendTypes, FlagTypes, CountTypes, StageEffect, DeafOnlyWhileSending
  <2> QED
    BY <2>3, <2>4
<1>6. CASE AwaitAck(r)
  <2>1. SendTypes'
    <3>1. FlagTypes'
      BY <1>6, Zenon DEF AwaitAck, flags, SendTypes, FlagTypes
    <3>2. CountTypes'
      BY <1>6 DEF AwaitAck, flags, SendTypes, CountTypes
    <3> QED
      BY <3>1, <3>2 DEF SendTypes
  <2>2. StageEffect(r)
    BY <1>6 DEF AwaitAck, SendTypes, FlagTypes, CountTypes, StageEffect, DeafOnlyWhileSending, flags
  <2> QED
    BY <2>1, <2>2
<1>7. CASE SeeAck(r)
  <2>1. SendTypes'
    <3>1. FlagTypes'
      BY <1>7, Zenon DEF SeeAck, SendTypes, FlagTypes
    <3>2. CountTypes'
      BY <1>7 DEF SeeAck, SendTypes, CountTypes
    <3> QED
      BY <3>1, <3>2 DEF SendTypes
  <2>2. StageEffect(r)
    BY <1>7 DEF SeeAck, SendTypes, FlagTypes, CountTypes, StageEffect, DeafOnlyWhileSending
  <2> QED
    BY <2>1, <2>2
<1>8. CASE AckTimeout(r)
  <2>1. SendTypes'
    <3>1. FlagTypes'
      BY <1>8, Zenon DEF AckTimeout, SendTypes, FlagTypes
    <3>2. CountTypes'
      BY <1>8 DEF AckTimeout, SendTypes, CountTypes
    <3> QED
      BY <3>1, <3>2 DEF SendTypes
  <2>2. StageEffect(r)
    BY <1>8 DEF AckTimeout, SendTypes, FlagTypes, CountTypes, StageEffect, DeafOnlyWhileSending
  <2> QED
    BY <2>1, <2>2
<1> QED
  BY <1>1, <1>2, <1>3, <1>4, <1>5, <1>6, <1>7, <1>8 DEF net4g_send_data_process

\* What the loop does with the result r of a stage.
SwitchEffect(r) ==
  /\ r = 0 => pc' = "recv" /\ UNCHANGED <<sendQ, popped, communicateStep, net4g_process_retry_times>>
  /\ r = 1 => PopHead /\ communicateStep' = 1 /\ pc' = "recv"
              /\ UNCHANGED net4g_process_retry_times
  /\ r = 2 => /\ pc' = "down" /\ communicateStep' = 0
              /\ net4g_process_retry_times' = net4g_process_retry_times + 1
              /\ UNCHANGED <<sendQ, popped>>

\* Case 2 of the switch is one stage of the machine and its consequence.
LEMMA SendStepEffect ==
  ASSUME PubInv, Switch, SendStep
  PROVE  \E r \in 0 .. 2 : SendTypes' /\ StageEffect(r) /\ SwitchEffect(r)
<1> USE PubAssumption
<1>1. PICK r \in 0 .. 2 :
        /\ net4g_send_data_process(r)
        /\ CASE r = 0 -> /\ pc' = "recv"
                         /\ UNCHANGED <<sendQ, popped, communicateStep, net4g_process_retry_times>>
             [] r = 1 -> /\ PopHead
                         /\ communicateStep' = 1
                         /\ pc' = "recv"
                         /\ UNCHANGED net4g_process_retry_times
             [] r = 2 -> /\ ReturnDisconnect
                         /\ UNCHANGED <<sendQ, popped>>
  BY DEF SendStep
<1>2. /\ pc = "switch" /\ communicateStep = 2
      /\ UNCHANGED <<cmds, cell, saved, overrun, ring, cmd_get_step, gone, events>>
  BY DEF Switch, SendStep
<1>3. queue[qHead] \in Nat
  BY PubAssumption DEF PubInv, TypeOK
<1>4. SendTypes
  BY DEF PubInv, TypeOK, SendTypes, FlagTypes, CountTypes, ModemType
<1>5. SendTypes' /\ StageEffect(r)
  BY <1>1, <1>3, <1>4, StageHasEffect DEF PubInv
<1>6. SwitchEffect(r)
  <2>1. CASE r = 0
    <3>1. r # 1 /\ r # 2
      BY <2>1
    <3> QED
      BY <1>1, <2>1, <3>1, Zenon DEF SwitchEffect
  <2>2. CASE r = 1
    <3>1. r # 0 /\ r # 2
      BY <2>2
    <3> QED
      BY <1>1, <2>2, <3>1, Zenon DEF SwitchEffect
  <2>3. CASE r = 2
    <3>1. r # 0 /\ r # 1
      BY <2>3
    <3> QED
      BY <1>1, <2>3, <3>1, Zenon DEF SwitchEffect, ReturnDisconnect
  <2>4. r = 0 \/ r = 1 \/ r = 2
    OBVIOUS
  <2> QED
    BY <2>1, <2>2, <2>3, <2>4
<1> QED
  BY <1>5, <1>6

\* Case 2 of the switch.
LEMMA SendStepInv ==
  ASSUME PubInv, Switch, SendStep
  PROVE  PubInv'
<1> USE PubAssumption
<1>1. PICK r \in 0 .. 2 : SendTypes' /\ StageEffect(r) /\ SwitchEffect(r)
  BY SendStepEffect
<1>2. /\ pc = "switch" /\ communicateStep = 2
      /\ UNCHANGED <<cmds, cell, saved, overrun, ring, cmd_get_step, gone, events>>
  BY DEF Switch, SendStep
<1>3. /\ QueueTypes /\ Visible \in 0 .. QUEU_SIZE /\ QUEU_SIZE \in Nat \ {0}
      /\ Visible > 0 /\ queue[qHead] = saved - Visible + 1 /\ saved - Visible \in Nat
      /\ ~overrun => saved - popped = Visible /\ queue[qHead] = popped + 1
  BY <1>2, SeenBounds, SeenAreLast, SeesAll, TypeGivesQueueTypes DEF PubInv
<1>4. SendTypes /\ MachineOnHead
  BY DEF PubInv, TypeOK, SendTypes, FlagTypes, CountTypes, ModemType, Control
<1>5. SendTypes' /\ StageEffect(r)
  BY <1>1
<1>6. /\ r = 0 => pc' = "recv" /\ UNCHANGED <<sendQ, popped, communicateStep, net4g_process_retry_times>>
      /\ r = 1 => PopHead /\ communicateStep' = 1 /\ pc' = "recv"
                  /\ UNCHANGED net4g_process_retry_times
      /\ r = 2 => /\ pc' = "down" /\ communicateStep' = 0
                  /\ net4g_process_retry_times' = net4g_process_retry_times + 1
                  /\ UNCHANGED <<sendQ, popped>>
  BY <1>1, Zenon DEF SwitchEffect
<1>7. r = 0 \/ r = 1 \/ r = 2
  OBVIOUS
<1>8. /\ QueueTypes' /\ QueueHoldsUnsent' /\ SeenIsQueued'
      /\ r = 0 => Visible' = Visible
      /\ r = 1 => Visible' = Visible - 1
      /\ r = 2 => Visible' = Visible \/ Visible' = 0
  <2>1. CASE r = 1
    BY <1>2, <1>6, <1>3, <2>1, PopKeepsQueue DEF PubInv
  <2>2. CASE r # 1
    <3>1. UNCHANGED ringVars
      BY <1>2, <1>6, <1>7, <2>2 DEF ringVars, sendQ
    <3>2. QueueTypes'
      BY <1>3, <3>1 DEF QueueTypes, ringVars
    <3>3. QueueHoldsUnsent'
      BY <3>1 DEF PubInv, QueueHoldsUnsent, ringVars, Back, Waiting
    <3>4. Visible' = Visible \/ (r = 2 /\ Visible' = 0)
      <4>1. CASE r = 0
        BY <1>6, <3>1, <4>1 DEF Visible, Waiting, ringVars
      <4>2. CASE r = 2
        BY <1>3, <1>6, <3>1, <4>2, SeenFrame DEF ringVars
      <4> QED
        BY <1>7, <2>2, <4>1, <4>2
    <3>5. SeenIsQueued'
      BY <1>3, <3>1, <3>4 DEF PubInv, SeenIsQueued, ringVars, QueueTypes
    <3> QED
      BY <2>2, <3>2, <3>3, <3>4, <3>5
  <2> QED
    BY <2>1, <2>2
<1>9. popped' = IF r = 1 THEN popped + 1 ELSE popped
  BY <1>6, <1>7 DEF PopHead
<1>10. /\ pc' \in {"recv", "down"} /\ communicateStep' \in 0 .. 2
       /\ net4g_process_retry_times' \in 0 .. RETRY_LIMIT
       /\ pc' = "recv" => net4g_process_retry_times' < RETRY_LIMIT
  <2>1. net4g_process_retry_times \in Nat /\ net4g_process_retry_times < RETRY_LIMIT
    BY <1>2 DEF PubInv, TypeOK, Control, RetryBelowLimit
  <2> QED
    BY <1>2, <1>6, <1>7, <2>1
<1>11. TypeOK'
  BY <1>2, <1>5, <1>8, <1>10 DEF PubInv, TypeOK, SendTypes, FlagTypes, CountTypes, ModemType, QueueTypes, cell, ring
<1>12. DeafOnlyWhileSending'
  BY <1>2, <1>5, <1>6 DEF StageEffect, DeafOnlyWhileSending
<1>13. CommandedInTurn' /\ MachineOnHead'
  <2>1. CASE overrun
    BY <1>2, <2>1 DEF CommandedInTurn, MachineOnHead
  <2>2. CASE ~overrun
    <3>1. /\ queue[qHead] = popped + 1 /\ popped + 1 <= saved /\ popped \in Nat /\ saved \in Nat
          /\ process_work_step # 0 => commanded = popped + 1
      BY <1>3, <1>4, <2>2 DEF MachineOnHead, QueueTypes
    <3>2. commanded' = popped + 1
      BY <1>5, <3>1 DEF StageEffect
    <3>3. process_work_step' # 0 => r = 0
      BY <1>5, <1>7 DEF StageEffect
    <3> QED
      BY <1>2, <1>9, <3>1, <3>2, <3>3 DEF CommandedInTurn, MachineOnHead
  <2> QED
    BY <2>1, <2>2
<1>14. PayloadsBehind'
  <2> SUFFICES ASSUME NEW i \in 1 .. Len(payloads')
               PROVE  payloads'[i] + Visible' <= IF process_work_step' = 3 THEN saved + 1 ELSE saved
    BY <1>2 DEF PayloadsBehind
  <2>0. PayloadsBehind /\ payloads \in Seq(Nat) /\ saved \in Nat
    BY <1>3, <1>4 DEF PubInv, SendTypes, CountTypes, QueueTypes
  <2>1. CASE payloads' = payloads
    <3>1. payloads[i] \in Nat
          /\ payloads[i] + Visible <= IF process_work_step = 3 THEN saved + 1 ELSE saved
      BY <2>0, <2>1 DEF PayloadsBehind
    <3>2. process_work_step = 3 => process_work_step' = 3 \/ r = 1
      BY <1>5, <2>1, <2>0 DEF StageEffect
    <3>3. Visible' \in 0 .. Visible /\ (r = 1 => Visible' = Visible - 1)
      BY <1>3, <1>7, <1>8
    <3> QED
      BY <1>3, <2>0, <2>1, <3>1, <3>2, <3>3
  <2>2. CASE /\ payloads' = Append(payloads, queue[qHead])
             /\ process_work_step = 2 /\ process_work_step' = 3
    <3>1. r = 0 /\ Visible' = Visible
      BY <1>5, <1>7, <1>8, <2>2 DEF StageEffect
    <3>2. CASE i = Len(payloads) + 1
      BY <1>3, <2>0, <2>2, <3>1, <3>2
    <3>3. CASE i \in 1 .. Len(payloads)
      <4>1. payloads'[i] = payloads[i] /\ payloads[i] \in Nat
        BY <1>3, <2>0, <2>2, <3>3
      <4>2. payloads[i] + Visible <= saved
        BY <2>0, <2>2, <3>3 DEF PayloadsBehind
      <4> QED
        BY <1>3, <2>0, <2>2, <3>1, <4>1, <4>2
    <3> QED
      BY <1>3, <2>0, <2>2, <3>2, <3>3
  <2> QED
    BY <1>5, <2>1, <2>2 DEF StageEffect
<1>15. PayloadAtMostOnce'
  <2>0. PayloadsBehind /\ payloads \in Seq(Nat) /\ saved \in Nat /\ PayloadAtMostOnce
    BY <1>3, <1>4 DEF PubInv, SendTypes, CountTypes, QueueTypes
  <2>1. CASE payloads' = payloads
    BY <2>0, <2>1 DEF PayloadAtMostOnce
  <2>2. CASE payloads' = Append(payloads, queue[qHead]) /\ process_work_step = 2
    <3> SUFFICES ASSUME NEW i \in 1 .. Len(payloads'), NEW j \in 1 .. Len(payloads'), i < j
                 PROVE  payloads'[i] < payloads'[j]
      BY DEF PayloadAtMostOnce
    <3>1. /\ Len(payloads') = Len(payloads) + 1 /\ i \in 1 .. Len(payloads)
          /\ payloads'[i] = payloads[i] /\ payloads[i] \in Nat /\ Len(payloads) \in Nat
      BY <1>3, <2>0, <2>2
    <3>2. CASE j = Len(payloads) + 1
      <4>1. payloads'[j] = queue[qHead]
        BY <1>3, <2>0, <2>2, <3>2
      <4>2. payloads[i] + Visible <= saved
        BY <2>0, <2>2, <3>1 DEF PayloadsBehind
      <4> QED
        BY <1>3, <2>0, <3>1, <4>1, <4>2
    <3>3. CASE j \in 1 .. Len(payloads)
      <4>1. payloads'[j] = payloads[j]
        BY <1>3, <2>0, <2>2, <3>3
      <4> QED
        BY <2>0, <3>1, <3>3, <4>1 DEF PayloadAtMostOnce
    <3> QED
      BY <3>1, <3>2, <3>3
  <2> QED
    BY <1>5, <2>1, <2>2 DEF StageEffect
<1>16. DropIsNotDeaf' /\ RetryBelowLimit'
  BY <1>2, <1>6, <1>7, <1>10 DEF DropIsNotDeaf, RetryBelowLimit
<1> QED
  BY <1>8, <1>11, <1>12, <1>13, <1>14, <1>15, <1>16 DEF PubInv, Control

-----------------------------------------------------------------------------
(* The whole loop. *)

\* Every step, of the loop, the modem or another task, keeps the invariant.
LEMMA PubNextInv == PubInv /\ [Next]_vars => PubInv'
<1> SUFFICES ASSUME PubInv, [Next]_vars PROVE PubInv'
  OBVIOUS
<1>1. CASE save_pub_msg_to_queue
  BY <1>1, SaveInv
<1>2. CASE get_net4G_recv_cmd
  BY <1>2, ScanInv
<1>3. CASE DropFifo
  BY <1>3, DropInv
<1>4. CASE Switch
  BY <1>4, SwitchReceiveInv, SendStepInv DEF Switch
<1>5. CASE Reconnect
  BY <1>5, ReconnectInv
<1>6. CASE Reboot
  BY <1>6, RebootInv
<1>7. CASE Modem
  BY <1>7, ModemInv
<1>8. CASE RequestCellInfo
  BY <1>8, RequestInv
<1>9. CASE UNCHANGED vars
  <2>1. TypeOK'
    BY <1>9 DEF vars, PubInv, TypeOK
  <2>2. QueueHoldsUnsent' /\ SeenIsQueued' /\ PayloadsBehind'
    BY <1>9, QueueFrame DEF vars, ringVars
  <2>3. DeafOnlyWhileSending' /\ CommandedInTurn' /\ PayloadAtMostOnce'
    BY <1>9 DEF vars, PubInv, DeafOnlyWhileSending, CommandedInTurn, PayloadAtMostOnce
  <2>4. Control'
    BY <1>9 DEF vars, PubInv, Control, DropIsNotDeaf, RetryBelowLimit,
                MachineOnHead
  <2> QED
    BY <2>1, <2>2, <2>3, <2>4 DEF PubInv
<1> QED
  BY <1>1, <1>2, <1>3, <1>4, <1>5, <1>6, <1>7, <1>8, <1>9 DEF Next, Loop

\* The invariant holds in every reachable state.
THEOREM PubInvariant == Spec => []PubInv
  BY PubInitInv, PubNextInv, PTL DEF Spec

\* The variables of the publish loop keep their types: both counters of failed
\* attempts stay below their limits, the disconnections up to theirs.
THEOREM PubTypeCorrect == Spec => []TypeOK
<1>1. PubInv => TypeOK
  BY DEF PubInv
<1> QED
  BY <1>1, PubInvariant, PTL

\* For a ring of any size and callers of save_pub_msg_to_queue that never wait, the
\* ring loses no message before it is overrun, and get_pub_msg_flag is wrong about
\* a full one only.
THEOREM QueueCorrect == Spec => []QueueHoldsUnsent
<1>1. PubInv => QueueHoldsUnsent
  BY DEF PubInv
<1> QED
  BY <1>1, PubInvariant, PTL

\* get_net4G_recv_cmd is deaf to commands and disconnections only in a stage
\* of net4g_send_data_process that ends the deafness.
THEOREM NeverLeftDeaf == Spec => []DeafOnlyWhileSending
<1>1. PubInv => DeafOnlyWhileSending
  BY DEF PubInv
<1> QED
  BY <1>1, PubInvariant, PTL

\* Messages are announced in the order they were queued and none is dropped
\* unannounced, whatever the modem answers or loses, until the ring is overrun.
THEOREM InTurn == Spec => []CommandedInTurn
<1>1. PubInv => CommandedInTurn
  BY DEF PubInv
<1> QED
  BY <1>1, PubInvariant, PTL

\* The data of no message is written to the modem twice, however often a wait
\* runs out, a prompt comes late, the link is reconnected or the ring is overrun.
THEOREM WrittenOnce == Spec => []PayloadAtMostOnce
<1>1. PubInv => PayloadAtMostOnce
  BY DEF PubInv
<1> QED
  BY <1>1, PubInvariant, PTL

-----------------------------------------------------------------------------
(* Net4gPub implements PubService.  PubInv supplies what the refinement     *)
(* mapping needs: the messages the loop sees are those queued last, and a    *)
(* machine past its first stage works on the first of them.                  *)

\* What Pending is while the ring is right: n messages after message p.
Unsent(p, n) == [i \in 1 .. n |-> p + i]

SeenInv == QueueTypes /\ QueueHoldsUnsent /\ SeenIsQueued

LEMMA PendingIsUnsent ==
  SeenInv => /\ Pending = Unsent(saved - Visible, Visible)
             /\ saved - Visible \in Nat /\ Visible \in 0 .. QUEU_SIZE
             /\ saved \in Nat /\ QUEU_SIZE \in Nat \ {0}
<1> SUFFICES ASSUME SeenInv
             PROVE  /\ Pending = Unsent(saved - Visible, Visible)
                    /\ saved - Visible \in Nat /\ Visible \in 0 .. QUEU_SIZE
                    /\ saved \in Nat /\ QUEU_SIZE \in Nat \ {0}
  OBVIOUS
<1>1. /\ \A i \in 1 .. Visible : queue[Slot(i - 1)] = (saved - Visible) + i
      /\ saved - Visible \in Nat
  BY SeenAreLast DEF SeenInv
<1>2. Visible \in 0 .. QUEU_SIZE /\ saved \in Nat /\ QUEU_SIZE \in Nat \ {0}
  BY SeenBounds DEF SeenInv, QueueTypes
<1> QED
  BY <1>1, <1>2 DEF Pending, Unsent

\* The same after a step.
LEMMA PendingIsUnsentNext ==
  SeenInv' => Pending' = Unsent(saved' - Visible', Visible')
<1>1. (SeenInv => Pending = Unsent(saved - Visible, Visible))'
  BY PendingIsUnsent, PTL
<1> QED
  BY <1>1 DEF Unsent

LEMMA UnsentLength ==
  ASSUME NEW p \in Nat, NEW n \in Nat
  PROVE  Len(Unsent(p, n)) = n /\ (n = 0 => Unsent(p, n) = <<>>)
BY DEF Unsent

\* Queueing a message appends it; removing one takes the first.
LEMMA UnsentGrows ==
  ASSUME NEW p \in Nat, NEW n \in Nat
  PROVE  Unsent(p, n + 1) = Append(Unsent(p, n), p + n + 1)
<1> DEFINE u == Unsent(p, n)
           v == Unsent(p, n + 1)
           w == Append(u, p + n + 1)
<1>1. u \in Seq(Nat) /\ Len(u) = n /\ \A i \in 1 .. n : u[i] = p + i
  BY DEF Unsent
<1>2. v \in Seq(Nat) /\ Len(v) = n + 1 /\ \A i \in 1 .. n + 1 : v[i] = p + i
  BY DEF Unsent
<1> HIDE DEF u, v
<1>3. w \in Seq(Nat) /\ Len(w) = n + 1 /\ w[n + 1] = p + n + 1 /\ \A i \in 1 .. n : w[i] = u[i]
  BY <1>1
<1>4. \A i \in 1 .. n + 1 : i = n + 1 \/ i \in 1 .. n
  OBVIOUS
<1> HIDE DEF w
<1>5. \A i \in 1 .. Len(v) : v[i] = w[i]
  BY <1>1, <1>2, <1>3, <1>4
<1>6. v = w
  BY <1>2, <1>3, <1>5, SeqEqual
<1> QED
  BY <1>6 DEF u, v, w

LEMMA UnsentShrinks ==
  ASSUME NEW p \in Nat, NEW n \in Nat, n > 0
  PROVE  /\ Unsent(p + 1, n - 1) = Tail(Unsent(p, n))
         /\ Head(Unsent(p, n)) = p + 1
         /\ Unsent(p, n) # <<>>
<1> DEFINE u == Unsent(p, n)
           v == Unsent(p + 1, n - 1)
           w == Tail(u)
<1>1. u \in Seq(Nat) /\ Len(u) = n /\ \A i \in 1 .. n : u[i] = p + i
  BY DEF Unsent
<1>2. v \in Seq(Nat) /\ Len(v) = n - 1 /\ \A i \in 1 .. n - 1 : v[i] = p + 1 + i
  BY DEF Unsent
<1> HIDE DEF u, v
<1>3. w \in Seq(Nat) /\ Len(w) = n - 1 /\ \A i \in 1 .. n - 1 : w[i] = u[i + 1]
  BY <1>1
<1>4. \A i \in 1 .. n - 1 : u[i + 1] = p + 1 + i
  BY <1>1
<1> HIDE DEF w
<1>5. v = w
  BY <1>2, <1>3, <1>4, SeqEqual
<1>6. Head(u) = p + 1 /\ u # <<>>
  BY <1>1
<1> QED
  BY <1>5, <1>6 DEF u, v, w

\* The initial states map to the initial state of the service.
LEMMA ServiceInit == Init => Service!Init
<1> SUFFICES ASSUME Init PROVE Service!Init
  OBVIOUS
<1>1. Pending = <<>>
  BY PubAssumption DEF Init, Pending, Visible, Waiting
<1> QED
  BY <1>1 DEF Init, Service!Init, Stage

\* A step that leaves the ring, the stage and the histories alone is none of
\* the service's, unless the loop stops sending in a ring that has filled up.
LEMMA ServiceFrame ==
  ASSUME PubInv, UNCHANGED <<queue, qHead, qTail, saved, payloads>>,
         Stage' = Stage \/ (Stage = "announced" /\ Stage' = "idle"),
         communicateStep' = 2 => communicateStep = 2 \/ get_pub_msg_flag
  PROVE  [Service!Next]_(Service!svars)
<1>1. SeenInv
  BY TypeGivesQueueTypes DEF PubInv, SeenInv
<1>2. /\ Pending = Unsent(saved - Visible, Visible) /\ saved - Visible \in Nat
      /\ Visible \in 0 .. QUEU_SIZE /\ QUEU_SIZE \in Nat \ {0}
  BY <1>1, PendingIsUnsent
<1>3. Visible' = Visible \/ (Visible = QUEU_SIZE /\ Visible' = 0)
  BY <1>1, SeenFrame DEF SeenInv
<1>4. CASE Visible' = Visible
  <2>1. Pending' = Pending
    BY <1>4 DEF Pending, Slot
  <2>2. CASE Stage' = Stage
    BY <2>1, <2>2 DEF Service!svars
  <2>3. CASE Stage = "announced" /\ Stage' = "idle"
    BY <2>1, <2>3 DEF Service!Next, Service!AnnounceAgain
  <2> QED
    BY <2>2, <2>3
<1>5. CASE Visible = QUEU_SIZE /\ Visible' = 0
  <2>1. Len(Pending) = QUEU_SIZE
    BY <1>2, <1>5, UnsentLength
  <2>2. Pending' = <<>>
    BY <1>5 DEF Pending
  <2> QED
    BY <2>1, <2>2 DEF Service!Next, Service!Overlook
<1> QED
  BY <1>3, <1>4, <1>5

-----------------------------------------------------------------------------
(* Every step is a step of the service or a stutter. *)

\* save_pub_msg_to_queue is Accept, or Overrun.
LEMMA SaveIsAccept ==
  PubInv /\ save_pub_msg_to_queue => Service!Accept \/ Service!Overrun
<1> SUFFICES ASSUME PubInv, save_pub_msg_to_queue PROVE Service!Accept \/ Service!Overrun
  OBVIOUS
<1>1. /\ SeenInv /\ SeenInv'
      /\ \/ Visible < QUEU_SIZE /\ Visible' = Visible + 1
         \/ Visible = QUEU_SIZE - 1 /\ Visible' = 0
         \/ Visible = QUEU_SIZE /\ Visible' = 1
  BY SaveKeepsQueue, TypeGivesQueueTypes DEF PubInv, SeenInv
<1>2. /\ saved' = saved + 1 /\ payloads' = payloads /\ Stage' = Stage
  BY DEF save_pub_msg_to_queue, send, Stage
<1>3. PICK v \in Nat : v = Visible
  BY <1>1, PendingIsUnsent
<1>4. PICK p \in Nat : p = saved - Visible
  BY <1>1, PendingIsUnsent
<1>5. /\ Pending = Unsent(p, v) /\ saved = p + v /\ v <= QUEU_SIZE
      /\ QUEU_SIZE \in Nat \ {0} /\ saved \in Nat
  BY <1>1, <1>3, <1>4, PendingIsUnsent
<1>6. Pending' = Unsent(saved' - Visible', Visible')
  BY <1>1, PendingIsUnsentNext
<1>7. Len(Pending) = v
  BY <1>5, UnsentLength
<1>8. CASE Visible < QUEU_SIZE /\ Visible' = Visible + 1
  <2>1. Pending' = Unsent(p, v + 1)
    BY <1>2, <1>3, <1>5, <1>6, <1>8
  <2>2. Pending' = Append(Pending, saved + 1)
    BY <1>5, <2>1, UnsentGrows
  <2> QED
    BY <1>2, <1>3, <1>7, <1>8, <2>2 DEF Service!Accept
<1>9. CASE Visible = QUEU_SIZE - 1 /\ Visible' = 0
  <2>1. Pending' = <<>>
    BY <1>9 DEF Pending
  <2> QED
    BY <1>2, <1>3, <1>5, <1>7, <1>9, <2>1 DEF Service!Overrun
<1>10. CASE Visible = QUEU_SIZE /\ Visible' = 1
  <2>1. Pending' = Unsent(saved, 1)
    BY <1>2, <1>5, <1>6, <1>10
  <2>2. Unsent(saved, 1) = <<saved + 1>>
    BY <1>5 DEF Unsent
  <2> QED
    BY <1>2, <1>3, <1>5, <1>7, <1>10, <2>1, <2>2 DEF Service!Overrun
<1> QED
  BY <1>1, <1>8, <1>9, <1>10

\* A stage of the send machine announces, writes, finishes, gives up or goes
\* back to announcing, or only waits.
LEMMA StageIsService ==
  ASSUME PubInv, Switch, SendStep
  PROVE  [Service!Next]_(Service!svars)
<1>1. PICK r \in 0 .. 2 : SendTypes' /\ StageEffect(r) /\ SwitchEffect(r)
  BY SendStepEffect
<1>2. SeenInv /\ communicateStep = 2 /\ UNCHANGED <<saved, overrun>>
  BY TypeGivesQueueTypes DEF PubInv, SeenInv, SendStep
<1>3. PICK v \in Nat : v = Visible
  BY <1>2, PendingIsUnsent
<1>4. PICK p \in Nat : p = saved - Visible
  BY <1>2, PendingIsUnsent
<1>5. /\ Pending = Unsent(p, v) /\ saved = p + v /\ saved \in Nat
      /\ v > 0 /\ queue[qHead] = p + 1
  BY <1>2, <1>3, <1>4, PendingIsUnsent, SeenBounds, SeenAreLast DEF SeenInv
<1>6. /\ Pending # <<>> /\ Head(Pending) = p + 1 /\ Tail(Pending) = Unsent(p + 1, v - 1)
  BY <1>5, UnsentShrinks
<1>7. process_work_step \in 0 .. 3 /\ process_work_step' \in 0 .. 3
  BY <1>1 DEF PubInv, TypeOK, SendTypes, CountTypes
<1>8. CASE r = 1
  <2>1. /\ PopHead /\ communicateStep' = 1
        /\ process_work_step # 0 /\ process_work_step' = 0 /\ payloads' = payloads
    BY <1>1, <1>8 DEF SwitchEffect, StageEffect
  <2>2. SeenInv' /\ Visible' = Visible - 1
    BY <1>2, <2>1, PopKeepsQueue DEF SeenInv
  <2>3. Pending' = Unsent(saved' - Visible', Visible')
    BY <2>2, PendingIsUnsentNext
  <2>4. Pending' = Tail(Pending)
    BY <1>2, <1>3, <1>5, <1>6, <2>2, <2>3
  <2>5. CASE process_work_step = 3
    BY <1>2, <1>6, <2>1, <2>4, <2>5 DEF Service!Next, Service!Finish, Stage
  <2>6. CASE process_work_step # 3
    BY <1>2, <1>6, <2>1, <2>4, <2>6 DEF Service!Next, Service!GiveUp, Stage
  <2> QED
    BY <2>5, <2>6
<1>9. CASE r = 2
  <2>1. /\ UNCHANGED <<queue, qHead, qTail>> /\ communicateStep' = 0
        /\ process_work_step = 1 /\ process_work_step' = 0 /\ payloads' = payloads
    BY <1>1, <1>7, <1>9 DEF SwitchEffect, StageEffect, sendQ
  <2>2. Stage = "announced" /\ Stage' = "idle"
    BY <2>1 DEF Stage
  <2> QED
    BY <1>2, <2>1, <2>2, ServiceFrame
<1>10. CASE r = 0
  <2>1. UNCHANGED <<queue, qHead, qTail, communicateStep>>
    BY <1>1, <1>10 DEF SwitchEffect, sendQ
  <2>2. Pending' = Pending
    BY <2>1 DEF Pending, Visible, Waiting, Slot
  <2>3. CASE /\ payloads' = Append(payloads, queue[qHead])
             /\ process_work_step = 2 /\ process_work_step' = 3
    BY <1>2, <1>5, <1>6, <2>2, <2>3 DEF Service!Next, Service!Write, Stage
  <2>4. CASE /\ payloads' = payloads
             /\ process_work_step = 3 => process_work_step' = 3
             /\ process_work_step' = 3 => process_work_step = 3
    <3>1. CASE process_work_step = 0 /\ process_work_step' \in {1, 2}
      BY <1>2, <1>6, <2>2, <2>4, <3>1 DEF Service!Next, Service!Announce, Stage
    <3>2. CASE process_work_step \in {1, 2} /\ process_work_step' = 0
      BY <1>2, <2>2, <2>4, <3>2 DEF Service!Next, Service!AnnounceAgain, Stage
    <3>3. CASE Stage' = Stage
      BY <1>2, <2>2, <2>4, <3>3 DEF Service!svars
    <3>4. process_work_step \in {1, 2} /\ process_work_step' \in {1, 2} => Stage' = Stage
      BY DEF Stage
    <3>5. process_work_step' = process_work_step => Stage' = Stage
      BY DEF Stage
    <3> QED
      BY <1>7, <2>4, <3>1, <3>2, <3>3, <3>4, <3>5
  <2> QED
    BY <1>1, <1>10, <2>3, <2>4 DEF StageEffect
<1> QED
  BY <1>8, <1>9, <1>10

\* Losing everything in a reboot is Restart.
LEMMA RebootIsRestart == Reboot => Service!Restart
<1> SUFFICES ASSUME Reboot PROVE Service!Restart
  OBVIOUS
<1>1. Pending' = <<>>
  BY PubAssumption DEF Reboot, Pending, Visible, Waiting
<1> QED
  BY <1>1 DEF Reboot, Service!Restart, Stage

LEMMA ServiceStep == PubInv /\ [Next]_vars => [Service!Next]_(Service!svars)
<1> SUFFICES ASSUME PubInv, [Next]_vars PROVE [Service!Next]_(Service!svars)
  OBVIOUS
<1>1. CASE save_pub_msg_to_queue
  BY <1>1, SaveIsAccept DEF Service!Next
<1>2. CASE Reboot
  BY <1>2, RebootIsRestart DEF Service!Next
<1>3. CASE Switch /\ SendStep
  BY <1>3, StageIsService
<1>4. ASSUME UNCHANGED <<queue, qHead, qTail, saved, process_work_step, payloads>>,
             communicateStep' = 2 => communicateStep = 2 \/ get_pub_msg_flag
      PROVE  [Service!Next]_(Service!svars)
  <2>1. Stage' = Stage
    BY <1>4 DEF Stage
  <2> QED
    BY <1>4, <2>1, ServiceFrame
<1>5. CASE get_net4G_recv_cmd
  BY <1>4, <1>5 DEF get_net4G_recv_cmd, sendQ, send, hist
<1>6. CASE DropFifo
  BY <1>4, <1>6 DEF DropFifo, ReturnDisconnect, sendQ, send, hist
<1>7. CASE Switch /\ ~SendStep
  <2>1. UNCHANGED <<sendQ, send, hist>> /\ (communicateStep' = 2 => get_pub_msg_flag)
    BY <1>7 DEF Switch, StartReceiving, HandleCommand, TurnToSend, PollModem, NothingToDo
  <2> QED
    BY <1>4, <2>1 DEF sendQ, send, hist
<1>8. CASE Reconnect
  BY <1>4, <1>8 DEF Reconnect, sendQ, send
<1>9. CASE Modem
  BY <1>4, <1>9 DEF Modem, sendQ, send, hist
<1>10. CASE RequestCellInfo
  BY <1>4, <1>10 DEF RequestCellInfo, sendQ, send, hist
<1>11. CASE UNCHANGED vars
  BY <1>4, <1>11 DEF vars
<1> QED
  BY <1>1, <1>2, <1>3, <1>5, <1>6, <1>7, <1>8, <1>9, <1>10, <1>11 DEF Next, Loop

\* net4g_send_data_process and its loop implement the publishing service
\* through every timeout, disconnection and reboot, for every size and limit.
THEOREM PubRefinesService == Spec => ImplementsService
<1>1. Init => Service!Init
  BY ServiceInit
<1>2. PubInv /\ [Next]_vars => [Service!Next]_(Service!svars)
  BY ServiceStep
<1> QED
  BY <1>1, <1>2, PubInvariant, PTL DEF Spec, ImplementsService, Service!Spec
=============================================================================
