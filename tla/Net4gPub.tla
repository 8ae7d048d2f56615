----------------------------- MODULE Net4gPub -----------------------------
(***************************************************************************)
(* The normal communication state of the 4G link: the queue of messages to *)
(* publish, the four-stage send machine net4g_send_data_process, the       *)
(* scanner of the receive FIFO get_net4G_recv_cmd, and the loop            *)
(* module_4g_communication_process that drives them, against the modem     *)
(* (external).                                                             *)
(*                                                                         *)
(* A call of the loop is taken in up to three steps (pc): scan the FIFO;   *)
(* when the scan found no command header, throw the FIFO away; then the    *)
(* switch on communicateStep.  The UART interrupt may append to the FIFO   *)
(* between any two of them, and other tasks may queue messages.            *)
(*                                                                         *)
(* The FIFO is the sequence of complete answers between fifo.head and      *)
(* fifo.tail: "prompt" (the "> " after a PUB command), "ack" (PUB          *)
(* response), "disc" (MQTT disconnect report), "boot" (start-up banner of  *)
(* a modem that restarted), "query" (answer to a CSQ, LCELL or QENG poll), *)
(* "cmd" (a cloud command) and "junk" (left over from other AT traffic).   *)
(***************************************************************************)
EXTENDS Naturals, Sequences, FiniteSets

CONSTANTS
  QUEU_SIZE,    \* NET_4G_UART_SEND_QUEU_SIZE
  PROMPT_WAIT,  \* calls to wait for the prompt (100)
  ACK_POLL,     \* calls between two looks at pubAckFlag (100)
  ACK_WAIT,     \* calls to wait for the PUB response (1500)
  FAIL_LIMIT,   \* failures that end the connection (4)
  RETRY_LIMIT,  \* disconnections that reboot the device (2)
  MaxSaved,     \* bound on the messages queued since start-up
  MaxFifo,      \* bound on the answers in the FIFO
  MaxEvents     \* bound on unsolicited events: commands, polls, disconnections

ASSUME PubAssumption ==
  /\ QUEU_SIZE \in Nat \ {0}
  /\ PROMPT_WAIT \in Nat \ {0}
  /\ ACK_POLL \in Nat \ {0}
  /\ ACK_WAIT \in Nat \ {0}
  /\ FAIL_LIMIT \in Nat \ {0}
  /\ RETRY_LIMIT \in Nat \ {0}
  /\ MaxSaved \in Nat
  /\ MaxFifo \in Nat
  /\ MaxEvents \in Nat

VARIABLES
  queue, qHead, qTail,      \* gNet4g_dataStruct.send
  fifo,                     \* gNet4g_dataStruct.recv.fifo between head and tail
  mem,                      \* fifo.data below tail: "start", tail is 0; "whole", one
                            \* string from offset 0; "cut", a NUL in between
  banner,                   \* a start-up banner is in the string at offset 0
  cmd_get_step,             \* static of recv_cmd_from_fifo
  cmds,                     \* gNet4g_dataStruct.recv.cmdQ, number of entries
  check_pubMiddleFlag, pubMiddleFlag, check_pubAckFlag, pubAckFlag,
  process_work_step, wait_time_count, data_send_fail_times,
  data_send_wait_rsp1_fail_times,        \* statics of net4g_send_data_process
  communicateStep,
  net4g_get_cell_info_flag, getCellInfoStep,
  net4g_process_retry_times,
  pc,                       \* position in the loop, or "down" when disconnected
  gone,                     \* the scan is about to return 10
  modem,                    \* [session, wants_data, prompts, acks, polls]
  events,                   \* unsolicited events so far
  saved, popped,            \* history: messages queued, and removed from the queue
  commanded,                \* history: PUB commands were sent for messages 1..commanded
  payloads,                 \* history: messages whose data was written, in order
  prompted,                 \* history: the data stage saw a prompt in this session
  overrun                   \* history: a message was queued behind QUEU_SIZE others

sendQ == <<queue, qHead, qTail>>
ring  == <<fifo, mem, banner>>
flags == <<check_pubMiddleFlag, pubMiddleFlag, check_pubAckFlag, pubAckFlag>>
send  == <<process_work_step, wait_time_count, data_send_fail_times,
           data_send_wait_rsp1_fail_times>>
cell  == <<net4g_get_cell_info_flag, getCellInfoStep>>
hist  == <<saved, popped, commanded, payloads, prompted, overrun>>
vars  == <<queue, qHead, qTail, fifo, mem, banner, cmd_get_step, cmds,
           check_pubMiddleFlag, pubMiddleFlag, check_pubAckFlag, pubAckFlag,
           process_work_step, wait_time_count, data_send_fail_times,
           data_send_wait_rsp1_fail_times, communicateStep,
           net4g_get_cell_info_flag, getCellInfoStep, net4g_process_retry_times,
           pc, gone, modem, events, saved, popped, commanded, payloads,
           prompted, overrun>>

Has(token) == \E i \in 1 .. Len(fifo) : fifo[i] = token

FreshModem == [session |-> TRUE, wants_data |-> FALSE, prompts |-> 0, acks |-> 0, polls |-> 0]

\* Start of the normal state after power-on; messages count from 1.
Init ==
  /\ queue = [k \in 0 .. QUEU_SIZE - 1 |-> 0]
  /\ qHead = 0 /\ qTail = 0
  /\ fifo = <<>> /\ mem = "start" /\ banner = FALSE
  /\ cmd_get_step = 0
  /\ cmds = 0
  /\ check_pubMiddleFlag = FALSE /\ pubMiddleFlag = FALSE
  /\ check_pubAckFlag = FALSE /\ pubAckFlag = FALSE
  /\ process_work_step = 0 /\ wait_time_count = 0
  /\ data_send_fail_times = 0 /\ data_send_wait_rsp1_fail_times = 0
  /\ communicateStep = 0
  /\ net4g_get_cell_info_flag = FALSE /\ getCellInfoStep = 0
  /\ net4g_process_retry_times = 0
  /\ pc = "recv"
  /\ gone = FALSE
  /\ modem = FreshModem
  /\ saved = 0 /\ popped = 0 /\ commanded = 0 /\ payloads = <<>>
  /\ prompted = FALSE /\ overrun = FALSE
  /\ events = 0

-----------------------------------------------------------------------------
(* The message queue. *)

\* Faulty variant: the last slot is not used.
NextIndexShort(i) == IF i + 2 >= QUEU_SIZE THEN 0 ELSE i + 1

NextIndex(i) == IF i + 1 = QUEU_SIZE THEN 0 ELSE i + 1

\* save_pub_msg_to_queue, called by other tasks.  It does not look at qHead: the
\* message that fills the ring makes it look empty, the one behind it replaces the
\* first that waits.
save_pub_msg_to_queue ==
  /\ saved < MaxSaved
  /\ queue' = [queue EXCEPT ![qTail] = saved + 1]
  /\ qTail' = NextIndex(qTail)
  /\ saved' = saved + 1
  /\ overrun' = (overrun \/ saved - popped >= QUEU_SIZE)
  /\ UNCHANGED <<qHead, ring, cmd_get_step, cmds, flags, send, communicateStep, cell,
                 net4g_process_retry_times, pc, gone, modem, events,
                 popped, commanded, payloads, prompted>>

\* reset_pub_msg_queue
PopHead ==
  /\ qHead' = NextIndex(qHead)
  /\ popped' = popped + 1
  /\ UNCHANGED <<queue, qTail>>

get_pub_msg_flag == qTail # qHead

-----------------------------------------------------------------------------
(* Leaving the normal state: net4G_work_process takes PROCESS_NET_DISCONNECT *)
(* back to network configuration, or reboots at the RETRY_LIMITth time.      *)

ReturnDisconnect ==
  /\ pc' = "down"
  /\ communicateStep' = 0
  /\ net4g_process_retry_times' = net4g_process_retry_times + 1

\* Configuration and log-in run AT commands through the same FIFO memory
\* (at_cmd_send_check clears it and reads into offset 0) without moving head
\* and tail, so what was unread becomes junk, and zeros are left below tail
\* unless the last answer was longer.  The statics of the send machine and of
\* the scanner keep their values.
Reconnect ==
  /\ pc = "down"
  /\ net4g_process_retry_times < RETRY_LIMIT
  /\ pc' = "recv"
  /\ fifo' = IF fifo = <<>> THEN <<>> ELSE <<"junk">>
  /\ mem' \in IF mem = "start" THEN {"start"} ELSE {"whole", "cut"}
  /\ banner' = FALSE
  /\ modem' = FreshModem
  /\ prompted' = FALSE
  /\ UNCHANGED <<sendQ, cmd_get_step, cmds, flags, send, communicateStep, cell,
                 net4g_process_retry_times, gone, events, saved, popped, commanded,
                 payloads, overrun>>

\* Everything but the flash is lost.
Reboot ==
  /\ pc = "down"
  /\ net4g_process_retry_times >= RETRY_LIMIT
  /\ queue' = [k \in 0 .. QUEU_SIZE - 1 |-> 0]
  /\ qHead' = 0 /\ qTail' = 0
  /\ fifo' = <<>> /\ mem' = "start" /\ banner' = FALSE
  /\ cmd_get_step' = 0
  /\ cmds' = 0
  /\ check_pubMiddleFlag' = FALSE /\ pubMiddleFlag' = FALSE
  /\ check_pubAckFlag' = FALSE /\ pubAckFlag' = FALSE
  /\ process_work_step' = 0 /\ wait_time_count' = 0
  /\ data_send_fail_times' = 0 /\ data_send_wait_rsp1_fail_times' = 0
  /\ communicateStep' = 0
  /\ net4g_get_cell_info_flag' = FALSE /\ getCellInfoStep' = 0
  /\ net4g_process_retry_times' = 0
  /\ pc' = "recv"
  /\ gone' = FALSE
  /\ modem' = FreshModem
  /\ saved' = 0 /\ popped' = 0 /\ commanded' = 0 /\ payloads' = <<>>
  /\ prompted' = FALSE /\ overrun' = FALSE
  /\ UNCHANGED events

-----------------------------------------------------------------------------
(* get_net4G_recv_cmd: scan the FIFO. *)

\* While a prompt or a PUB response is awaited nothing else is looked for,
\* and the answer found is not removed.
ScanForPrompt ==
  /\ check_pubMiddleFlag
  /\ check_pubMiddleFlag' = ~Has("prompt")
  /\ pubMiddleFlag' = (pubMiddleFlag \/ Has("prompt"))
  /\ pc' = "switch"
  /\ UNCHANGED <<ring, cmd_get_step, cmds, check_pubAckFlag, pubAckFlag, gone>>

ScanForAck ==
  /\ ~check_pubMiddleFlag
  /\ check_pubAckFlag
  /\ check_pubAckFlag' = ~Has("ack")
  /\ pubAckFlag' = (pubAckFlag \/ Has("ack"))
  /\ pc' = "switch"
  /\ UNCHANGED <<ring, cmd_get_step, cmds, check_pubMiddleFlag, pubMiddleFlag, gone>>

\* No command header: look for a disconnection or a restart of the modem.
\* The banner is looked for in the string at offset 0, read or unread, and
\* resets the FIFO.  The answers to polls are looked at last and overwrite
\* the result of the search for a disconnection.
NoHeader ==
  /\ IF banner /\ ~Has("disc")
     THEN /\ fifo' = <<>> /\ mem' = "start" /\ banner' = FALSE
          /\ gone' = TRUE
     ELSE /\ gone' = (Has("disc") /\ ~Has("query"))
          /\ UNCHANGED ring
  /\ pc' = "drop"

\* recv_cmd_from_fifo, one stage per call.  A lone prompt is shorter than
\* the command header; the tail of a command may not have arrived yet.
ScanForCommand ==
  /\ ~check_pubMiddleFlag
  /\ ~check_pubAckFlag
  /\ \/ /\ cmd_get_step = 0
        /\ fifo = <<"prompt">>
        /\ NoHeader
        /\ UNCHANGED <<cmd_get_step, cmds>>
     \/ /\ cmd_get_step = 0
        /\ fifo # <<"prompt">>
        /\ cmd_get_step' = IF fifo = <<>> THEN 0 ELSE 1
        /\ pc' = "switch"
        /\ UNCHANGED <<ring, cmds, gone>>
     \/ /\ cmd_get_step = 1
        /\ ~Has("cmd")
        /\ cmd_get_step' = 0
        /\ NoHeader
        /\ UNCHANGED cmds
     \/ /\ cmd_get_step = 1
        /\ \E i \in 1 .. Len(fifo) :
             /\ fifo[i] = "cmd"
             /\ \A j \in 1 .. i - 1 : fifo[j] # "cmd"
             /\ fifo' = SubSeq(fifo, i, Len(fifo))
        /\ cmd_get_step' = 2
        /\ pc' = "switch"
        /\ UNCHANGED <<mem, banner, cmds, gone>>
     \/ /\ cmd_get_step = 2
        /\ cmd_get_step' \in {0, 3}
        /\ pc' = "switch"
        /\ UNCHANGED <<ring, cmds, gone>>
     \/ /\ cmd_get_step = 3
        /\ fifo' = IF fifo = <<>> THEN <<>> ELSE Tail(fifo)
        /\ cmds' = cmds + 1
        /\ cmd_get_step' = 0
        /\ pc' = "switch"
        /\ UNCHANGED <<mem, banner, gone>>
  /\ UNCHANGED flags

get_net4G_recv_cmd ==
  /\ pc = "recv"
  /\ ScanForPrompt \/ ScanForAck \/ ScanForCommand
  /\ UNCHANGED <<sendQ, send, communicateStep, cell, net4g_process_retry_times,
                 modem, events, hist>>

\* fifo.head = fifo.tail, whatever has arrived since the scan.
DropFifo ==
  /\ pc = "drop"
  /\ fifo' = <<>>
  /\ gone' = FALSE
  /\ IF gone
     THEN ReturnDisconnect
     ELSE pc' = "switch" /\ UNCHANGED <<communicateStep, net4g_process_retry_times>>
  /\ UNCHANGED <<sendQ, mem, banner, cmd_get_step, cmds, flags, send, cell, modem,
                 events, hist>>

-----------------------------------------------------------------------------
(* net4g_send_data_process, one stage per call; r is what it returns: 0 go  *)
(* on, 1 finished with the message, 2 reconnect.                            *)

\* A PUB command opens the modem's data mode; if it is still in data mode
\* from an abandoned attempt, the command is swallowed as that data.
ModemTakesCommand ==
  modem' = IF ~modem.session THEN modem
           ELSE IF modem.wants_data
                THEN [modem EXCEPT !.wants_data = FALSE, !.acks = @ + 1]
                ELSE [modem EXCEPT !.wants_data = TRUE, !.prompts = 1]

ModemTakesData ==
  modem' = IF modem.session /\ modem.wants_data
           THEN [modem EXCEPT !.wants_data = FALSE, !.acks = @ + 1]
           ELSE modem

SendCommand(r) ==
  /\ process_work_step = 0
  /\ r = 0
  /\ ModemTakesCommand
  /\ check_pubMiddleFlag' = TRUE
  /\ pubMiddleFlag' = FALSE
  /\ process_work_step' = 1
  /\ wait_time_count' = 0
  /\ commanded' = queue[qHead]
  /\ UNCHANGED <<check_pubAckFlag, pubAckFlag, data_send_fail_times,
                 data_send_wait_rsp1_fail_times, payloads, prompted>>

SeePrompt(r) ==
  /\ process_work_step = 1
  /\ pubMiddleFlag
  /\ r = 0
  /\ check_pubMiddleFlag' = FALSE
  /\ pubMiddleFlag' = FALSE
  /\ process_work_step' = 2
  /\ prompted' = TRUE
  /\ UNCHANGED <<check_pubAckFlag, pubAckFlag, wait_time_count, data_send_fail_times,
                 data_send_wait_rsp1_fail_times, modem, commanded, payloads>>

AwaitPrompt(r) ==
  /\ process_work_step = 1
  /\ ~pubMiddleFlag
  /\ wait_time_count + 1 < PROMPT_WAIT
  /\ r = 0
  /\ wait_time_count' = wait_time_count + 1
  /\ UNCHANGED <<flags, process_work_step, data_send_fail_times,
                 data_send_wait_rsp1_fail_times, modem, commanded, payloads,
                 prompted>>

\* Faulty variants: the flag stays set; the message is tried again for ever.
PromptTimeoutStaysDeaf(r) ==
  /\ process_work_step = 1
  /\ ~pubMiddleFlag
  /\ wait_time_count + 1 >= PROMPT_WAIT
  /\ wait_time_count' = wait_time_count + 1
  /\ process_work_step' = 0
  /\ r = 1
  /\ UNCHANGED <<flags, data_send_fail_times, data_send_wait_rsp1_fail_times,
                 modem, commanded, payloads, prompted>>

PromptTimeoutRetries(r) ==
  /\ process_work_step = 1
  /\ ~pubMiddleFlag
  /\ wait_time_count + 1 >= PROMPT_WAIT
  /\ wait_time_count' = wait_time_count + 1
  /\ check_pubMiddleFlag' = FALSE
  /\ process_work_step' = 0
  /\ r = 0
  /\ UNCHANGED <<pubMiddleFlag, check_pubAckFlag, pubAckFlag, data_send_fail_times,
                 data_send_wait_rsp1_fail_times, modem, commanded, payloads,
                 prompted>>

\* No prompt: give the message up, or the connection at the FAIL_LIMITth time
\* since the last reconnection; a success in between does not reset the count.
PromptTimeout(r) ==
  /\ process_work_step = 1
  /\ ~pubMiddleFlag
  /\ wait_time_count + 1 >= PROMPT_WAIT
  /\ wait_time_count' = wait_time_count + 1
  /\ check_pubMiddleFlag' = FALSE
  /\ process_work_step' = 0
  /\ IF data_send_wait_rsp1_fail_times + 1 >= FAIL_LIMIT
     THEN data_send_wait_rsp1_fail_times' = 0 /\ r = 2
     ELSE data_send_wait_rsp1_fail_times' = data_send_wait_rsp1_fail_times + 1 /\ r = 1
  /\ UNCHANGED <<pubMiddleFlag, check_pubAckFlag, pubAckFlag, data_send_fail_times,
                 modem, commanded, payloads, prompted>>

SendPayload(r) ==
  /\ process_work_step = 2
  /\ r = 0
  /\ ModemTakesData
  /\ check_pubAckFlag' = TRUE
  /\ pubAckFlag' = FALSE
  /\ wait_time_count' = 0
  /\ process_work_step' = 3
  /\ payloads' = Append(payloads, queue[qHead])
  /\ UNCHANGED <<check_pubMiddleFlag, pubMiddleFlag, data_send_fail_times,
                 data_send_wait_rsp1_fail_times, commanded, prompted>>

AwaitAck(r) ==
  /\ process_work_step = 3
  /\ r = 0
  /\ \/ (wait_time_count + 1) % ACK_POLL # 0
     \/ ~pubAckFlag /\ wait_time_count + 1 < ACK_WAIT
  /\ wait_time_count' = wait_time_count + 1
  /\ UNCHANGED <<flags, process_work_step, data_send_fail_times,
                 data_send_wait_rsp1_fail_times, modem, commanded, payloads,
                 prompted>>

\* Faulty variant: the stage is not reset, so the next message is not announced.
SeeAckKeepsStage(r) ==
  /\ process_work_step = 3
  /\ (wait_time_count + 1) % ACK_POLL = 0
  /\ pubAckFlag
  /\ r = 1
  /\ wait_time_count' = wait_time_count + 1
  /\ check_pubAckFlag' = FALSE
  /\ pubAckFlag' = FALSE
  /\ data_send_fail_times' = 0
  /\ prompted' = FALSE
  /\ UNCHANGED <<process_work_step, check_pubMiddleFlag, pubMiddleFlag,
                 data_send_wait_rsp1_fail_times, modem, commanded, payloads>>

SeeAck(r) ==
  /\ process_work_step = 3
  /\ (wait_time_count + 1) % ACK_POLL = 0
  /\ pubAckFlag
  /\ r = 1
  /\ wait_time_count' = wait_time_count + 1
  /\ process_work_step' = 0
  /\ check_pubAckFlag' = FALSE
  /\ pubAckFlag' = FALSE
  /\ data_send_fail_times' = 0
  /\ prompted' = FALSE
  /\ UNCHANGED <<check_pubMiddleFlag, pubMiddleFlag, data_send_wait_rsp1_fail_times,
                 modem, commanded, payloads>>

\* Faulty variants: an unanswered message is written again; the failures are
\* not reset at the limit.
AckTimeoutRetries(r) ==
  /\ process_work_step = 3
  /\ (wait_time_count + 1) % ACK_POLL = 0
  /\ ~pubAckFlag
  /\ wait_time_count + 1 >= ACK_WAIT
  /\ r = 0
  /\ wait_time_count' = 0
  /\ check_pubAckFlag' = FALSE
  /\ process_work_step' = 2
  /\ UNCHANGED <<check_pubMiddleFlag, pubMiddleFlag, pubAckFlag, data_send_fail_times,
                 data_send_wait_rsp1_fail_times, modem, commanded, payloads,
                 prompted>>

AckTimeoutUnlimited(r) ==
  /\ process_work_step = 3
  /\ (wait_time_count + 1) % ACK_POLL = 0
  /\ ~pubAckFlag
  /\ wait_time_count + 1 >= ACK_WAIT
  /\ r = 1
  /\ wait_time_count' = 0
  /\ check_pubAckFlag' = FALSE
  /\ process_work_step' = 0
  /\ data_send_fail_times' = data_send_fail_times + 1
  /\ prompted' = FALSE
  /\ UNCHANGED <<check_pubMiddleFlag, pubMiddleFlag, pubAckFlag,
                 data_send_wait_rsp1_fail_times, modem, commanded, payloads>>

\* The FAIL_LIMITth unanswered publication in a row returns 1 like the others.
AckTimeout(r) ==
  /\ process_work_step = 3
  /\ (wait_time_count + 1) % ACK_POLL = 0
  /\ ~pubAckFlag
  /\ wait_time_count + 1 >= ACK_WAIT
  /\ r = 1
  /\ wait_time_count' = 0
  /\ check_pubAckFlag' = FALSE
  /\ process_work_step' = 0
  /\ data_send_fail_times' = IF data_send_fail_times + 1 >= FAIL_LIMIT
                             THEN 0 ELSE data_send_fail_times + 1
  /\ prompted' = FALSE
  /\ UNCHANGED <<check_pubMiddleFlag, pubMiddleFlag, pubAckFlag,
                 data_send_wait_rsp1_fail_times, modem, commanded, payloads>>

net4g_send_data_process(r) ==
  \/ SendCommand(r) \/ SeePrompt(r) \/ AwaitPrompt(r) \/ PromptTimeout(r)
  \/ SendPayload(r) \/ AwaitAck(r) \/ SeeAck(r) \/ AckTimeout(r)

-----------------------------------------------------------------------------
(* module_4g_communication_process: the switch on communicateStep. *)

\* case 0: register net4g_uart_recv_cb.
StartReceiving ==
  /\ communicateStep = 0
  /\ communicateStep' = 1
  /\ pc' = "recv"
  /\ UNCHANGED <<sendQ, cmds, flags, send, cell, net4g_process_retry_times, modem, hist>>

\* case 1: handle a queued cloud command first.
HandleCommand ==
  /\ communicateStep = 1
  /\ cmds > 0
  /\ cmds' = cmds - 1
  /\ pc' = "recv"
  /\ UNCHANGED <<sendQ, flags, send, communicateStep, cell, net4g_process_retry_times,
                 modem, hist>>

TurnToSend ==
  /\ communicateStep = 1
  /\ cmds = 0
  /\ get_pub_msg_flag
  /\ communicateStep' = 2
  /\ pc' = "recv"
  /\ UNCHANGED <<sendQ, cmds, flags, send, cell, net4g_process_retry_times, modem, hist>>

\* module_4g_get_cell_info_process sends one poll per call, two in all.
PollModem ==
  /\ communicateStep = 1
  /\ cmds = 0
  /\ ~get_pub_msg_flag
  /\ net4g_get_cell_info_flag
  /\ modem' = [modem EXCEPT !.polls = 1]
  /\ getCellInfoStep' = 1 - getCellInfoStep
  /\ net4g_get_cell_info_flag' = (getCellInfoStep = 0)
  /\ pc' = "recv"
  /\ UNCHANGED <<sendQ, cmds, flags, send, communicateStep, net4g_process_retry_times, hist>>

NothingToDo ==
  /\ communicateStep = 1
  /\ cmds = 0
  /\ ~get_pub_msg_flag
  /\ ~net4g_get_cell_info_flag
  /\ pc' = "recv"
  /\ UNCHANGED <<sendQ, cmds, flags, send, communicateStep, cell,
                 net4g_process_retry_times, modem, hist>>

\* case 2: one call of the send machine.  A message it is finished with is
\* removed, one it failed to announce on a dead connection is kept.
SendStep ==
  /\ communicateStep = 2
  /\ \E r \in 0 .. 2 :
       /\ net4g_send_data_process(r)
       /\ CASE r = 0 -> /\ pc' = "recv"
                        /\ UNCHANGED <<sendQ, popped, communicateStep, net4g_process_retry_times>>
            [] r = 1 -> /\ PopHead
                        /\ communicateStep' = 1
                        /\ pc' = "recv"
                        /\ UNCHANGED net4g_process_retry_times
            [] r = 2 -> /\ ReturnDisconnect
                        /\ UNCHANGED <<sendQ, popped>>
  /\ UNCHANGED <<cmds, cell, saved, overrun>>

Switch ==
  /\ pc = "switch"
  /\ \/ StartReceiving \/ HandleCommand \/ TurnToSend \/ PollModem \/ NothingToDo
     \/ SendStep
  /\ UNCHANGED <<ring, cmd_get_step, gone, events>>

Loop == get_net4G_recv_cmd \/ DropFifo \/ Switch

-----------------------------------------------------------------------------
(* The modem (external) and the UART interrupt: an answer the modem owes is *)
(* appended to the FIFO, or lost.                                           *)

\* net4g_uart_recv_cb is registered from case 0 until the disconnection has
\* been returned.
Listening == communicateStep # 0 \/ pc = "down"

\* net4g_uart_recv_cb.  When the ring comes round, what was at offset 0 is
\* overwritten; no unread answer is taken to straddle the end of the ring.
Arrives(token) ==
  /\ Len(fifo) < MaxFifo
  /\ fifo' = Append(fifo, token)
  /\ \/ /\ mem' = IF mem = "cut" THEN "cut" ELSE "whole"
        /\ banner' = (banner \/ (token = "boot" /\ mem # "cut"))
     \/ /\ fifo = <<>> /\ mem # "start"
        /\ mem' = "whole"
        /\ banner' = (token = "boot")

Owes(kind) == modem[kind] > 0

Answer(kind, token) ==
  /\ Owes(kind)
  /\ modem' = [modem EXCEPT ![kind] = @ - 1]
  /\ Arrives(token)
  /\ UNCHANGED events

Lose(kind) ==
  /\ Owes(kind)
  /\ modem' = [modem EXCEPT ![kind] = @ - 1]
  /\ UNCHANGED <<ring, events>>

\* The session ends, with a report or a start-up banner; what was owed for
\* it is forgotten.
SessionEnds(token) ==
  /\ modem.session
  /\ events < MaxEvents
  /\ events' = events + 1
  /\ modem' = [modem EXCEPT !.session = FALSE, !.wants_data = FALSE,
                            !.prompts = 0, !.acks = 0]
  /\ Arrives(token)

CloudCommand ==
  /\ modem.session
  /\ events < MaxEvents
  /\ events' = events + 1
  /\ Arrives("cmd")
  /\ UNCHANGED modem

Modem ==
  /\ Listening
  /\ \/ Answer("prompts", "prompt") \/ Answer("acks", "ack") \/ Answer("polls", "query")
     \/ \E kind \in {"prompts", "acks", "polls"} : Lose(kind)
     \/ SessionEnds("disc") \/ SessionEnds("boot")
     \/ CloudCommand
  /\ UNCHANGED <<sendQ, cmd_get_step, cmds, flags, send, communicateStep, cell,
                 net4g_process_retry_times, pc, gone, hist>>

\* The timer task asks for the cell information to be refreshed.
RequestCellInfo ==
  /\ events < MaxEvents
  /\ ~net4g_get_cell_info_flag
  /\ events' = events + 1
  /\ net4g_get_cell_info_flag' = TRUE
  /\ UNCHANGED <<sendQ, ring, cmd_get_step, cmds, flags, send, communicateStep,
                 getCellInfoStep, net4g_process_retry_times, pc, gone, modem, hist>>

Next ==
  \/ save_pub_msg_to_queue \/ Loop \/ Reconnect \/ Reboot \/ Modem \/ RequestCellInfo

Spec == Init /\ [][Next]_vars

\* The network task keeps running; nothing is asked of the modem.
FairSpec == Spec /\ WF_vars(Loop) /\ WF_vars(Reconnect) /\ WF_vars(Reboot)

-----------------------------------------------------------------------------
Token == {"prompt", "ack", "disc", "boot", "query", "cmd", "junk"}

TypeOK ==
  /\ queue \in [0 .. QUEU_SIZE - 1 -> Nat]
  /\ qHead \in 0 .. QUEU_SIZE - 1
  /\ qTail \in 0 .. QUEU_SIZE - 1
  /\ fifo \in Seq(Token)
  /\ mem \in {"start", "whole", "cut"}
  /\ banner \in BOOLEAN
  /\ cmd_get_step \in 0 .. 3
  /\ cmds \in Nat
  /\ check_pubMiddleFlag \in BOOLEAN
  /\ pubMiddleFlag \in BOOLEAN
  /\ check_pubAckFlag \in BOOLEAN
  /\ pubAckFlag \in BOOLEAN
  /\ process_work_step \in 0 .. 3
  /\ wait_time_count \in Nat
  /\ data_send_fail_times \in 0 .. FAIL_LIMIT - 1
  /\ data_send_wait_rsp1_fail_times \in 0 .. FAIL_LIMIT - 1
  /\ communicateStep \in 0 .. 2
  /\ net4g_get_cell_info_flag \in BOOLEAN
  /\ getCellInfoStep \in 0 .. 1
  /\ net4g_process_retry_times \in 0 .. RETRY_LIMIT
  /\ pc \in {"recv", "drop", "switch", "down"}
  /\ gone \in BOOLEAN
  /\ modem \in [session : BOOLEAN, wants_data : BOOLEAN,
                prompts : 0 .. 1, acks : Nat, polls : 0 .. 1]
  /\ events \in Nat
  /\ saved \in Nat
  /\ popped \in Nat
  /\ commanded \in Nat
  /\ payloads \in Seq(Nat)
  /\ prompted \in BOOLEAN
  /\ overrun \in BOOLEAN

\* Slot of the i-th message after the head of the ring, and of the j-th before its
\* tail.
Slot(i) == IF qHead + i < QUEU_SIZE THEN qHead + i ELSE qHead + i - QUEU_SIZE
Back(j) == IF j <= qTail THEN qTail - j ELSE qTail + QUEU_SIZE - j

\* The messages between head and tail.
Waiting == IF qTail >= qHead THEN qTail - qHead ELSE qTail + QUEU_SIZE - qHead

\* The ring holds the messages queued last, in order, and between head and tail
\* exactly those not yet removed, until it is overrun; only a full ring looks
\* empty, as save_pub_msg_to_queue keeps no slot free.
QueueHoldsUnsent ==
  /\ \A j \in 1 .. QUEU_SIZE : j <= saved => queue[Back(j)] = saved - j + 1
  /\ popped <= saved
  /\ ~overrun => \/ Waiting = saved - popped
                 \/ Waiting = 0 /\ saved - popped = QUEU_SIZE

\* While a check flag is set get_net4G_recv_cmd is deaf to commands and
\* disconnections.  It is set only in the stage of the send machine that will
\* clear it, and only while the loop runs that machine: the loop never turns
\* away, or disconnects, and stays deaf.
DeafOnlyWhileSending ==
  /\ check_pubMiddleFlag => process_work_step = 1 /\ communicateStep = 2 /\ pc # "down"
  /\ check_pubAckFlag => process_work_step = 3 /\ communicateStep = 2 /\ pc # "down"

\* No message leaves the queue before its PUB command went out, and none
\* overtakes another, across timeouts, disconnections and reconnections, until
\* the ring is overrun.
CommandedInTurn ==
  overrun \/ (commanded \in {popped, popped + 1} /\ commanded <= saved)

\* No retry repeats the data of a message, and no overrun brings one back: it is
\* written at most once.
PayloadAtMostOnce ==
  \A i, j \in 1 .. Len(payloads) : i < j => payloads[i] < payloads[j]

\* The ring and the stage of the send machine as the abstract service sees
\* them: the messages the loop sees between head and tail (it does not look
\* again while it sends), and how far the first one is.
Visible == IF communicateStep = 2 /\ Waiting = 0 THEN QUEU_SIZE ELSE Waiting

Pending == [i \in 1 .. Visible |-> queue[Slot(i - 1)]]

Stage == IF process_work_step = 0 THEN "idle"
         ELSE IF process_work_step = 3 THEN "written" ELSE "announced"

Service == INSTANCE PubService
  WITH Capacity <- QUEU_SIZE, pending <- Pending, accepted <- saved,
       stage <- Stage, written <- payloads

\* The link does what PubService promises through every timeout, lost answer,
\* disconnection between two stages and reboot: messages are dealt with one at
\* a time and in order, the data of none is written twice, none leaves the ring
\* unless it was announced, and only a full ring loses any.
ImplementsService == Service!Spec

\* Every queued message is eventually done with (or lost by a reboot), even
\* if the modem never answers: each wait of the send machine is bounded.  Only
\* a ring that fills up may keep its messages.
QueuedIsFinished ==
  \A n \in 1 .. MaxSaved :
    saved >= n ~> (popped >= n \/ saved < n \/ saved - popped >= QUEU_SIZE)

\* "wait recv '>'" comes before "pub data": data is written to the modem only
\* after a prompt of the same session.
PayloadAfterPrompt ==
  [][Len(payloads') > Len(payloads) => prompted]_vars

\* "MQTT disconnect and module restart: reconnect": a disconnect report, or the
\* start-up banner of a modem that restarted on its own, that the scanner is
\* about to throw away has made it return 10.
LossNoticed ==
  [][pc = "recv" /\ pc' = "drop" /\ (Has("disc") \/ Has("boot")) => gone']_vars
=============================================================================
