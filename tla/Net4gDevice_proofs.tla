------------------------- MODULE Net4gDevice_proofs -------------------------
(***************************************************************************)
(* Theorems about the device as the cloud sees it, for every set of keys,  *)
(* slots and settings, every number of commands and of faults.             *)
(***************************************************************************)
EXTENDS Net4gDevice, TLAPS

-----------------------------------------------------------------------------
(* The numbers of the commands. *)

OpInv ==
  /\ CloudopCode \in 0 .. MAX_OPCODE
  /\ acted \in Seq(Nat)
  /\ ActedInOrder

\* A filtered command is larger than everything acted on, or starts afresh.
LEMMA ActedGrows ==
  ASSUME OpInv, NEW op \in 0 .. MAX_OPCODE, Accepted(op), TakeOpCode(op), Act(op)
  PROVE  OpInv'
<1>1. CloudopCode' = op /\ MAX_OPCODE \in Nat
  BY CmdAssumption DEF TakeOpCode
<1>2. CASE BeginsAgain(op)
  <2>1. acted' = <<op>>
    BY <1>2 DEF Act
  <2> QED
    BY <1>1, <2>1 DEF OpInv, ActedInOrder
<1>3. CASE ~BeginsAgain(op)
  <2>1. acted' = Append(acted, op) /\ op > CloudopCode
    BY <1>3 DEF Act, Accepted, Newer
  <2>2. /\ acted' \in Seq(Nat)
        /\ Len(acted') = Len(acted) + 1
        /\ acted'[Len(acted) + 1] = op
        /\ \A i \in 1 .. Len(acted) : acted'[i] = acted[i] /\ acted[i] \in Nat /\ acted[i] < op
    BY <1>1, <2>1 DEF OpInv, ActedInOrder
  <2>3. ASSUME NEW i \in 1 .. Len(acted'), NEW j \in 1 .. Len(acted'), i < j
        PROVE  acted'[i] < acted'[j]
    <3>1. i \in 1 .. Len(acted) /\ (j \in 1 .. Len(acted) \/ j = Len(acted) + 1)
      BY <2>2, <2>3 DEF OpInv
    <3> QED
      BY <2>2, <2>3, <3>1 DEF OpInv, ActedInOrder
  <2>4. ASSUME NEW i \in 1 .. Len(acted') PROVE acted'[i] <= CloudopCode'
    <3>1. i \in 1 .. Len(acted) \/ i = Len(acted) + 1
      BY <2>2 DEF OpInv
    <3> QED
      BY <1>1, <2>2, <3>1
  <2> QED
    BY <1>1, <2>2, <2>3, <2>4 DEF OpInv, ActedInOrder
<1> QED
  BY <1>2, <1>3

\* A command obeyed in any case only raises the last number, or starts afresh.
LEMMA ActedStays ==
  ASSUME OpInv, NEW op \in 0 .. MAX_OPCODE, TakeOpCode(op), ActAnyway(op)
  PROVE  OpInv'
<1>1. MAX_OPCODE \in Nat
  BY CmdAssumption
<1>2. CASE BeginsAgain(op)
  BY <1>1, <1>2 DEF OpInv, ActedInOrder, TakeOpCode, ActAnyway, Accepted
<1>3. CASE ~BeginsAgain(op)
  <2>1. acted' = acted /\ CloudopCode' \in 0 .. MAX_OPCODE /\ CloudopCode' >= CloudopCode
    BY <1>1, <1>3 DEF OpInv, TakeOpCode, ActAnyway, Accepted, Newer
  <2>2. \A i \in 1 .. Len(acted) : acted[i] \in Nat
    BY DEF OpInv
  <2> QED
    BY <1>1, <2>1, <2>2 DEF OpInv, ActedInOrder
<1> QED
  BY <1>2, <1>3

LEMMA OpUnchanged ==
  ASSUME OpInv, UNCHANGED <<CloudopCode, acted>>
  PROVE  OpInv'
BY DEF OpInv, ActedInOrder

LEMMA OpReset ==
  ASSUME OpInv, CmdBoot
  PROVE  OpInv'
BY CmdAssumption DEF CmdBoot, OpInv, ActedInOrder

LEMMA SlotCommandOp ==
  ASSUME OpInv, NEW op \in 0 .. MAX_OPCODE, NEW s, NEW payload, NEW event,
         SlotCommand(op, s, payload, event)
  PROVE  OpInv'
<1>1. TakeOpCode(op) /\ (Accepted(op) => Act(op)) /\ (~Accepted(op) => acted' = acted)
  BY DEF SlotCommand
<1>2. CASE Accepted(op)
  BY <1>1, <1>2, ActedGrows
<1>3. CASE ~Accepted(op)
  BY <1>1, <1>3, OpUnchanged DEF TakeOpCode
<1> QED
  BY <1>2, <1>3

LEMMA RspAnalyzeOp ==
  ASSUME OpInv, RspAnalyze
  PROVE  OpInv'
<1>1. ASSUME NEW op \in 0 .. MAX_OPCODE, NEW s \in Slots,
             NEW payload \in {"short", "long", "absent"}, NEW event \in BOOLEAN,
             SlotCommand(op, s, payload, event)
      PROVE  OpInv'
  BY <1>1, SlotCommandOp
<1>2. ASSUME NEW op \in 0 .. MAX_OPCODE, CubbyCommand(op) PROVE OpInv'
  BY <1>2, ActedGrows DEF CubbyCommand
<1>3. ASSUME NEW op \in 0 .. MAX_OPCODE, NEW cmd \in 24 .. 27, NEW m \in ConfigMsgs,
             ConfigCommand(op, cmd, m)
      PROVE  OpInv'
  BY <1>3, ActedGrows DEF ConfigCommand
<1>4. ASSUME NEW op \in 0 .. MAX_OPCODE, NEW cmd \in {"restart", "ping", "other"}, DeviceCommand(op, cmd)
      PROVE  OpInv'
  BY <1>4, ActedStays DEF DeviceCommand
<1>5. ASSUME NEW op \in 0 .. MAX_OPCODE, OtaOrLowpowerCommand(op) PROVE OpInv'
  BY <1>5, ActedStays DEF OtaOrLowpowerCommand
<1>6. CASE Dropped
  BY <1>6, OpUnchanged DEF Dropped
<1>7. CASE UnknownTopic
  BY <1>7, OpUnchanged DEF UnknownTopic
<1>8. ASSUME NEW op \in 0 .. MAX_OPCODE, TakeOpCode(op), ActAnyway(op) PROVE OpInv'
  BY <1>8, ActedStays
<1>9. ASSUME NEW op \in 0 .. MAX_OPCODE, ConfigCommandEmpty(op) PROVE OpInv'
  BY <1>9, ActedGrows DEF ConfigCommandEmpty
<1> QED
  BY <1>1, <1>2, <1>3, <1>4, <1>5, <1>6, <1>7, <1>8, <1>9 DEF RspAnalyze

LEMMA OpInvariant == Spec => []OpInv
<1>1. Init => OpInv
  BY CmdAssumption DEF Init, CmdInit, OpInv, ActedInOrder
<1>2. OpInv /\ [Next]_vars => OpInv'
  <2> SUFFICES ASSUME OpInv, [Next]_vars PROVE OpInv'
    OBVIOUS
  <2>1. CASE \/ Connect \/ Save \/ Report \/ SlotProcess \/ WifiSwitch \/ TakeEvent
             \/ Communicate \/ UNCHANGED vars
    <3>1. UNCHANGED <<CloudopCode, acted>>
      BY <2>1 DEF Connect, Save, Report, SlotProcess, WifiSwitch, TakeEvent, Communicate,
                  vars, cmdVars
    <3> QED
      BY <3>1, OpUnchanged
  <2>2. CASE device_reboot \/ PowerLoss
    BY <2>2, OpReset DEF device_reboot, PowerLoss, Restart
  <2>3. CASE RspAnalyze
    BY <2>3, RspAnalyzeOp
  <2> QED
    BY <2>1, <2>2, <2>3 DEF Next, Task
<1> QED
  BY <1>1, <1>2, PTL DEF Spec

(* Slot, cubby and config commands are obeyed in the order of their numbers  *)
(* and none twice, for every largest number and any deliveries.              *)
THEOREM ObeyedInOrder == Spec => []ActedInOrder
<1>1. OpInv => ActedInOrder
  BY DEF OpInv
<1> QED
  BY <1>1, OpInvariant, PTL

-----------------------------------------------------------------------------
(* The send buffers of the slots. *)

Commands == [slot : Slots, payload : {"short", "long", "absent", "filled"}, event : BOOLEAN]

\* While a slot command is dealt with, its slot's buffer holds no older payload.
BufInv ==
  /\ taken \in Nat /\ msgs \in Nat
  /\ taken <= msgs /\ msgs <= MaxMsgs
  /\ UartSendBuf \in [Slots -> Nat]
  /\ events \in Seq([slot : Slots, cmd : Nat])
  /\ \A i \in 1 .. Len(events) : events[i].cmd <= taken
  /\ filling = <<>> \/ \E command \in Commands : filling = <<command>>
  /\ filling # <<>> => UartSendBuf[filling[1].slot] = Empty \/ UartSendBuf[filling[1].slot] >= taken
  /\ NoStalePayload

bufVars == <<taken, msgs, UartSendBuf, filling, events>>

LEMMA Filling ==
  ASSUME BufInv, filling # <<>>
  PROVE  /\ filling[1].slot \in Slots /\ filling[1].event \in BOOLEAN
         /\ filling[1].payload \in {"short", "long", "absent", "filled"}
BY DEF BufInv, Commands

LEMMA EventTyped ==
  ASSUME BufInv, NEW i \in 1 .. Len(events)
  PROVE  events[i].slot \in Slots /\ events[i].cmd \in Nat /\ events[i].cmd <= taken
<1> DEFINE E == [slot : Slots, cmd : Nat]
<1>1. events \in Seq(E)
  BY DEF BufInv
<1>2. \A e \in E : e.slot \in Slots /\ e.cmd \in Nat
  OBVIOUS
<1> HIDE DEF E
<1>3. events[i] \in E
  BY <1>1
<1> QED
  BY <1>2, <1>3 DEF BufInv

\* A buffer emptied or filled with the payload of the last command is not stale.
LEMMA BufStored ==
  ASSUME BufInv, NEW s \in Slots, NEW stored \in Nat, stored = Empty \/ stored >= taken,
         UartSendBuf' = [UartSendBuf EXCEPT ![s] = stored]
  PROVE  /\ UartSendBuf' \in [Slots -> Nat] /\ UartSendBuf'[s] = stored
         /\ \A i \in 1 .. Len(events) :
              UartSendBuf'[events[i].slot] # Empty
                => UartSendBuf'[events[i].slot] >= events[i].cmd
<1>1. UartSendBuf' \in [Slots -> Nat] /\ UartSendBuf'[s] = stored
  BY DEF BufInv
<1>2. ASSUME NEW i \in 1 .. Len(events)
      PROVE  UartSendBuf'[events[i].slot] # Empty => UartSendBuf'[events[i].slot] >= events[i].cmd
  <2>1. events[i].slot \in Slots /\ events[i].cmd \in Nat /\ events[i].cmd <= taken
    BY EventTyped
  <2>2. CASE events[i].slot = s
    BY <1>1, <2>1, <2>2 DEF BufInv
  <2>3. CASE events[i].slot # s
    BY <2>1, <2>3 DEF BufInv, NoStalePayload
  <2> QED
    BY <2>2, <2>3
<1> QED
  BY <1>1, <1>2

LEMMA SlotCommandBuf ==
  ASSUME BufInv, msgs < MaxMsgs, msgs' = msgs + 1, filling = <<>>,
         NEW op \in 0 .. MAX_OPCODE, NEW s \in Slots,
         NEW payload \in {"short", "long", "absent"}, NEW event \in BOOLEAN,
         SlotCommand(op, s, payload, event)
  PROVE  BufInv'
<1>1. UartSendBuf' = [UartSendBuf EXCEPT ![s] = Empty] /\ events' = events
  BY DEF SlotCommand
<1>2. Empty \in Nat
  BY DEF Empty
<1>3. /\ UartSendBuf' \in [Slots -> Nat] /\ UartSendBuf'[s] = Empty
      /\ \A i \in 1 .. Len(events) :
           UartSendBuf'[events[i].slot] # Empty
             => UartSendBuf'[events[i].slot] >= events[i].cmd
  BY <1>1, <1>2, BufStored
<1>4. taken' \in {taken, taken + 1}
  BY DEF SlotCommand
<1>5. taken' \in Nat /\ msgs' \in Nat /\ taken' <= msgs' /\ msgs' <= MaxMsgs /\ taken <= taken'
  BY <1>4, CmdAssumption DEF BufInv
<1>6. \A i \in 1 .. Len(events) : events[i].cmd <= taken'
  BY <1>5, EventTyped DEF BufInv
<1>7. /\ filling' = <<>> \/ \E command \in Commands : filling' = <<command>>
      /\ filling' # <<>> => filling'[1].slot = s
  <2> DEFINE command == [slot |-> s, payload |-> payload, event |-> event]
  <2>1. command \in Commands /\ command.slot = s
    BY DEF Commands
  <2>2. filling' = <<>> \/ filling' = <<command>>
    BY DEF SlotCommand
  <2> HIDE DEF command
  <2> QED
    BY <2>1, <2>2
<1>8. events' \in Seq([slot : Slots, cmd : Nat])
  BY <1>1 DEF BufInv
<1> QED
  BY <1>1, <1>3, <1>5, <1>6, <1>7, <1>8 DEF BufInv, NoStalePayload

LEMMA SlotFillBuf ==
  ASSUME BufInv, SlotFill, UNCHANGED <<taken, msgs>>
  PROVE  BufInv'
<1>1. PICK stored \in Stored(filling[1].payload, UartSendBuf[filling[1].slot]) :
        UartSendBuf' = [UartSendBuf EXCEPT ![filling[1].slot] = stored]
  BY DEF SlotFill
<1>2. /\ filling # <<>> /\ filling[1].payload # "filled" /\ events' = events
      /\ filling' = <<[filling[1] EXCEPT !.payload = "filled"]>>
  BY DEF SlotFill
<1>3. /\ filling[1].slot \in Slots /\ filling[1].event \in BOOLEAN
      /\ filling[1].payload \in {"short", "long", "absent"}
  BY <1>2, Filling
<1>4. stored \in {taken, Empty, Junk, UartSendBuf[filling[1].slot]}
  BY <1>2, <1>3 DEF Stored
<1>5. stored \in Nat /\ (stored = Empty \/ stored >= taken)
  BY <1>2, <1>3, <1>4, CmdAssumption DEF Empty, Junk, BufInv
<1>6. PICK slot \in Slots : slot = filling[1].slot
  BY <1>3
<1>7. /\ UartSendBuf' \in [Slots -> Nat] /\ UartSendBuf'[slot] = stored
      /\ \A i \in 1 .. Len(events) :
           UartSendBuf'[events[i].slot] # Empty
             => UartSendBuf'[events[i].slot] >= events[i].cmd
  BY <1>1, <1>5, <1>6, BufStored
<1>8. \E command \in Commands : filling' = <<command>> /\ command.slot = slot
  <2>1. PICK old \in Commands : filling = <<old>>
    BY <1>2 DEF BufInv
  <2> DEFINE command == [old EXCEPT !.payload = "filled"]
  <2>2. command \in Commands /\ command.slot = old.slot
    BY DEF Commands
  <2>3. filling' = <<command>> /\ old.slot = slot
    BY <1>2, <1>6, <2>1
  <2> QED
    BY <2>2, <2>3
<1> QED
  BY <1>2, <1>5, <1>7, <1>8 DEF BufInv, NoStalePayload

LEMMA SlotEventBuf ==
  ASSUME BufInv, SlotEvent, UNCHANGED <<taken, msgs>>
  PROVE  BufInv'
<1>1. /\ filling # <<>> /\ filling' = <<>> /\ UartSendBuf' = UartSendBuf
      /\ events' = IF filling[1].event
                   THEN Append(events, [slot |-> filling[1].slot, cmd |-> taken]) ELSE events
  BY DEF SlotEvent
<1>2. CASE ~filling[1].event
  BY <1>1, <1>2 DEF BufInv, NoStalePayload
<1>3. CASE filling[1].event
  <2>1. PICK s \in Slots : s = filling[1].slot
    BY <1>1, Filling
  <2> DEFINE e == [slot |-> s, cmd |-> taken]
  <2>2. /\ events' = Append(events, e)
        /\ e \in [slot : Slots, cmd : Nat]
        /\ e.slot = s /\ e.cmd = taken
    BY <1>1, <1>3, <2>1 DEF BufInv
  <2> HIDE DEF e
  <2>3. /\ events' \in Seq([slot : Slots, cmd : Nat])
        /\ Len(events') = Len(events) + 1
        /\ events'[Len(events) + 1] = e
        /\ \A i \in 1 .. Len(events) : events'[i] = events[i]
    BY <2>2 DEF BufInv
  <2>4. UartSendBuf[s] = Empty \/ UartSendBuf[s] >= taken
    BY <1>1, <2>1 DEF BufInv
  <2>5. ASSUME NEW i \in 1 .. Len(events')
        PROVE  /\ events'[i].cmd <= taken
               /\ UartSendBuf[events'[i].slot] # Empty => UartSendBuf[events'[i].slot] >= events'[i].cmd
    <3>1. i \in 1 .. Len(events) \/ i = Len(events) + 1
      BY <2>3 DEF BufInv
    <3>2. CASE i \in 1 .. Len(events)
      BY <2>3, <3>2 DEF BufInv, NoStalePayload
    <3>3. CASE i = Len(events) + 1
      BY <2>2, <2>3, <2>4, <3>3 DEF BufInv
    <3> QED
      BY <3>1, <3>2, <3>3
  <2> QED
    BY <1>1, <2>3, <2>5 DEF BufInv, NoStalePayload
<1> QED
  BY <1>2, <1>3

LEMMA BufUnchanged ==
  ASSUME BufInv, UNCHANGED <<taken, UartSendBuf, filling, events>>,
         msgs' = msgs \/ (msgs < MaxMsgs /\ msgs' = msgs + 1)
  PROVE  BufInv'
<1>1. MaxMsgs \in Nat
  BY CmdAssumption
<1>2. msgs' \in Nat /\ taken <= msgs' /\ msgs' <= MaxMsgs
  BY <1>1 DEF BufInv
<1> QED
  BY <1>2 DEF BufInv, NoStalePayload

LEMMA RspAnalyzeBuf ==
  ASSUME BufInv, RspAnalyze
  PROVE  BufInv'
<1>0. msgs < MaxMsgs /\ msgs' = msgs + 1 /\ filling = <<>>
  BY DEF RspAnalyze, Returned
<1>1. CASE \E op \in 0 .. MAX_OPCODE, s \in Slots, payload \in {"short", "long", "absent"},
              event \in BOOLEAN : SlotCommand(op, s, payload, event)
  BY <1>0, <1>1, SlotCommandBuf
<1>2. ASSUME UNCHANGED <<taken, UartSendBuf, filling, events>> PROVE BufInv'
  BY <1>0, <1>2, BufUnchanged
<1>3. ASSUME NEW op \in 0 .. MAX_OPCODE, CubbyCommand(op) PROVE BufInv'
  BY <1>2, <1>3 DEF CubbyCommand, ramOfCmd
<1>4. ASSUME NEW op \in 0 .. MAX_OPCODE, NEW cmd \in 24 .. 27, NEW m \in ConfigMsgs,
             ConfigCommand(op, cmd, m)
      PROVE  BufInv'
  BY <1>2, <1>4 DEF ConfigCommand
<1>5. ASSUME NEW op \in 0 .. MAX_OPCODE, NEW cmd \in {"restart", "ping", "other"}, DeviceCommand(op, cmd)
      PROVE  BufInv'
  BY <1>2, <1>5 DEF DeviceCommand, ramOfCmd
<1>6. ASSUME NEW op \in 0 .. MAX_OPCODE, OtaOrLowpowerCommand(op) PROVE BufInv'
  BY <1>2, <1>6 DEF OtaOrLowpowerCommand, ramOfCmd
<1>7. CASE Dropped
  BY <1>2, <1>7 DEF Dropped, ramOfCmd
<1>8. CASE UnknownTopic
  BY <1>2, <1>8 DEF UnknownTopic
<1>9. CASE UNCHANGED ramOfCmd
  BY <1>2, <1>9 DEF ramOfCmd
<1>10. ASSUME NEW op \in 0 .. MAX_OPCODE, ConfigCommandEmpty(op) PROVE BufInv'
  BY <1>2, <1>10 DEF ConfigCommandEmpty, ramOfCmd
<1> QED
  BY <1>1, <1>3, <1>4, <1>5, <1>6, <1>7, <1>8, <1>9, <1>10 DEF RspAnalyze

LEMMA TakeEventBuf ==
  ASSUME BufInv, TakeEvent
  PROVE  BufInv'
<1>1. events # <<>> /\ events' = Tail(events) /\ UNCHANGED <<taken, msgs, UartSendBuf, filling>>
  BY DEF TakeEvent
<1>2. /\ events' \in Seq([slot : Slots, cmd : Nat])
      /\ Len(events') = Len(events) - 1
      /\ \A i \in 1 .. Len(events') : events'[i] = events[i + 1] /\ i + 1 \in 1 .. Len(events)
  BY <1>1 DEF BufInv
<1> QED
  BY <1>1, <1>2 DEF BufInv, NoStalePayload

LEMMA BufInvariant == Spec => []BufInv
<1>1. Init => BufInv
  BY CmdAssumption DEF Init, CmdInit, BufInv, NoStalePayload, Empty
<1>2. BufInv /\ [Next]_vars => BufInv'
  <2> SUFFICES ASSUME BufInv, [Next]_vars PROVE BufInv'
    OBVIOUS
  <2>1. CASE Connect \/ Save \/ Report \/ WifiSwitch \/ Communicate \/ UNCHANGED vars
    <3>1. UNCHANGED bufVars
      BY <2>1 DEF Connect, Save, Report, WifiSwitch, Communicate, vars, cmdVars, bufVars
    <3> QED
      BY <3>1, BufUnchanged DEF bufVars
  <2>2. CASE device_reboot \/ PowerLoss
    <3>1. CmdBoot /\ msgs' = msgs
      BY <2>2 DEF device_reboot, PowerLoss, Restart
    <3> QED
      BY <3>1 DEF CmdBoot, BufInv, NoStalePayload, Empty
  <2>3. CASE RspAnalyze
    BY <2>3, RspAnalyzeBuf
  <2>4. CASE TakeEvent
    BY <2>4, TakeEventBuf
  <2>5. CASE SlotProcess
    BY <2>5, SlotFillBuf, SlotEventBuf DEF SlotProcess
  <2> QED
    BY <2>1, <2>2, <2>3, <2>4, <2>5 DEF Next, Task
<1> QED
  BY <1>1, <1>2, PTL DEF Spec

(* A slot task never finds an earlier command's payload, whatever slots,     *)
(* payloads and numbers the commands have and whenever the task looks.       *)
THEOREM PayloadNotStale == Spec => []NoStalePayload
<1>1. BufInv => NoStalePayload
  BY DEF BufInv
<1> QED
  BY <1>1, BufInvariant, PTL

-----------------------------------------------------------------------------
(* The flash: what is still to be written are areas, so that a write and a   *)
(* cut change exactly one of them.                                           *)

FlashOK ==
  /\ flash = [a \in Areas |-> flash[a]]
  /\ writes \in Seq(Areas)

LEMMA AreaSeqs ==
  /\ <<>> \in Seq(Areas)
  /\ <<"LOGIN">> \in Seq(Areas) /\ <<"CONFIG">> \in Seq(Areas)
  /\ <<"LOGIN", "LOGIN_BACK">> \in Seq(Areas)
  /\ <<"LOGIN", "LOGIN_BACK", "CONFIG">> \in Seq(Areas)
<1>1. "LOGIN" \in Areas /\ "LOGIN_BACK" \in Areas /\ "CONFIG" \in Areas
  BY DEF Areas
<1> QED
  BY <1>1

\* The writes a step of the task begins.
LEMMA TaskWrites ==
  ASSUME FlashOK, ActiveNext
  PROVE  flash' = flash /\ writes' \in Seq(Areas)
<1> DEFINE Begun == \/ writes' = writes
                    \/ writes' = <<"LOGIN", "LOGIN_BACK">>
                    \/ writes' = <<"LOGIN", "LOGIN_BACK", "CONFIG">>
<1>1. flash' = flash /\ writes \in Seq(Areas)
  BY DEF ActiveNext, FlashOK
<1> SUFFICES Begun
  BY <1>1, AreaSeqs
<1>2. CASE module_4g_cloud_logIn_process \/ PingFails \/ Disconnect
  BY <1>2 DEF module_4g_cloud_logIn_process, PingFails, Disconnect
<1>3. CASE check_active_or_route \/ device_route_process \/ RouteEnd
  BY <1>3 DEF check_active_or_route, device_route_process, RouteEnd
<1>4. CASE device_active_process
  <2>1. CASE ActiveCommand \/ ActiveConnect \/ ActiveConfirmConnect
    BY <2>1 DEF ActiveCommand, ActiveConnect, ActiveConfirmConnect
  <2>2. CASE net4g_active_post_rsp_cb
    BY <2>2 DEF net4g_active_post_rsp_cb
  <2>3. CASE net4g_active_confirm_rsp_cb
    BY <2>3 DEF net4g_active_confirm_rsp_cb, ConfirmWrites
  <2> QED
    BY <1>4, <2>1, <2>2, <2>3 DEF device_active_process
<1> QED
  BY <1>2, <1>3, <1>4 DEF ActiveNext, module_4g_active_route_process

\* One area is written, and only by a write that was begun.
LEMMA SaveWrites ==
  ASSUME FlashOK, ActiveSave
  PROVE  /\ FlashOK'
         /\ \E area \in Areas :
              /\ ~Idle /\ area = Head(writes) /\ writes' = Tail(writes)
              /\ flash' = [flash EXCEPT ![area] =
                             IF area = "CONFIG" THEN gSysInfo_struct ELSE gSysLoginInfo]
<1> DEFINE area == Head(writes)
<1>0. writes \in Seq(Areas)
  BY DEF FlashOK
<1>1. area \in Areas /\ writes' \in Seq(Areas)
  BY <1>0 DEF ActiveSave, FlashWrite, Idle
<1>2. flash' = [flash EXCEPT ![area] = [LOGIN |-> gSysLoginInfo, LOGIN_BACK |-> gSysLoginInfo,
                                        CONFIG |-> gSysInfo_struct][area]]
  BY DEF ActiveSave, FlashWrite
<1>3. ~Idle /\ area = Head(writes) /\ writes' = Tail(writes)
  BY DEF ActiveSave, FlashWrite
<1> HIDE DEF area
<1>4. flash' = [flash EXCEPT ![area] = IF area = "CONFIG" THEN gSysInfo_struct ELSE gSysLoginInfo]
  <2>1. CASE area = "LOGIN"
    BY <1>2, <2>1
  <2>2. CASE area = "LOGIN_BACK"
    BY <1>2, <2>2
  <2>3. CASE area = "CONFIG"
    BY <1>2, <2>3
  <2> QED
    BY <1>1, <2>1, <2>2, <2>3 DEF Areas
<1>5. flash' = [a \in Areas |-> flash'[a]]
  BY <1>1, <1>4 DEF FlashOK
<1> QED
  BY <1>1, <1>3, <1>4, <1>5 DEF FlashOK

\* A loss of power leaves the flash as it is or tears one area.
LEMMA CutTears ==
  ASSUME FlashOK, FlashCut
  PROVE  /\ FlashOK'
         /\ \/ flash' = flash
            \/ \E area \in Areas : /\ ~Idle /\ area = Head(writes)
                                   /\ flash' = [flash EXCEPT ![area] = Torn]
<1>1. writes' \in Seq(Areas)
  BY DEF FlashCut
<1>2. CASE flash' = flash
  BY <1>1, <1>2 DEF FlashOK
<1>3. CASE ~Idle /\ flash' = [flash EXCEPT ![Head(writes)] = Torn]
  <2> DEFINE area == Head(writes)
  <2>0. writes \in Seq(Areas)
    BY DEF FlashOK
  <2>1. area \in Areas
    BY <1>3, <2>0 DEF Idle
  <2>2. ~Idle /\ area = Head(writes) /\ flash' = [flash EXCEPT ![area] = Torn]
    BY <1>3
  <2> HIDE DEF area
  <2>3. flash' = [a \in Areas |-> flash'[a]]
    BY <2>1, <2>2 DEF FlashOK
  <2> QED
    BY <1>1, <2>1, <2>2, <2>3 DEF FlashOK
<1> QED
  BY <1>2, <1>3 DEF FlashCut

\* The writes a command begins.
LEMMA CommandWrites ==
  ASSUME FlashOK, RspAnalyze
  PROVE  flash' = flash /\ writes' \in Seq(Areas)
<1> DEFINE Begun == writes' = writes \/ writes' = <<"CONFIG">> \/ writes' = <<"LOGIN">>
<1>1. flash' = flash /\ writes \in Seq(Areas)
  BY DEF RspAnalyze, FlashOK
<1> SUFFICES Begun
  BY <1>1, AreaSeqs
<1>3. ASSUME NEW op, NEW s, NEW payload, NEW event, SlotCommand(op, s, payload, event)
      PROVE  Begun
  BY <1>3, Zenon DEF SlotCommand
<1>4. ASSUME NEW op, CubbyCommand(op) PROVE Begun
  BY <1>4 DEF CubbyCommand
<1>5. ASSUME NEW op, NEW cmd, NEW m, ConfigCommand(op, cmd, m) PROVE Begun
  BY <1>5, Zenon DEF ConfigCommand
<1>6. ASSUME NEW op, NEW cmd, DeviceCommand(op, cmd) PROVE Begun
  BY <1>6 DEF DeviceCommand
<1>7. ASSUME NEW op, OtaOrLowpowerCommand(op) \/ ConfigCommandEmpty(op) PROVE Begun
  BY <1>7 DEF OtaOrLowpowerCommand, ConfigCommandEmpty
<1>8. CASE Dropped \/ UnknownTopic
  BY <1>8 DEF Dropped, UnknownTopic
<1>9. CASE Reactivate
  BY <1>9 DEF Reactivate
<1> QED
  BY <1>3, <1>4, <1>5, <1>6, <1>7, <1>8, <1>9 DEF RspAnalyze

-----------------------------------------------------------------------------
(* The configuration. *)

\* A configuration whose password, if any, belongs to its ssid, if any.
Matching(conf) ==
  /\ conf \in Confs
  /\ conf.password # "" /\ conf.ssid # "" => conf.password = conf.ssid

ConfInv ==
  /\ FlashOK
  /\ Matching(gSysInfo_struct)
  /\ flash["CONFIG"] = Torn \/ Matching(flash["CONFIG"])

LEMMA DefaultMatches == Matching(DefaultConf)
BY DEF Matching, Confs, DefaultConf, Names, Intervals

LEMMA StoredMatches ==
  ASSUME NEW fl, fl["CONFIG"] = Torn \/ Matching(fl["CONFIG"])
  PROVE  Matching(StoredConf(fl))
BY DefaultMatches DEF StoredConf

\* Every change of a field but the name keeps the match, if a new password is
\* none or belongs to the name; so does a new name without a password.
LEMMA ChangeMatches ==
  ASSUME NEW conf, Matching(conf)
  PROVE  /\ Matching([conf EXCEPT !.activeFlag = "AA"])
         /\ \A v \in Intervals : Matching([conf EXCEPT !.cubbyInterval = v])
         /\ \A v \in BOOLEAN : Matching([conf EXCEPT !.wifiEnableFlag = v])
         /\ \A v \in Names :
              Matching([conf EXCEPT !.ssid = v, !.password = "", !.wifiConfigFlag = TRUE])
         /\ Matching([conf EXCEPT !.ssid = "", !.wifiConfigFlag = FALSE])
         /\ Matching([conf EXCEPT !.password = "", !.wifiConfigFlag = FALSE])
         /\ Matching([conf EXCEPT !.password = IF conf.ssid = "" THEN "stray" ELSE conf.ssid,
                                  !.wifiConfigFlag = TRUE])
<1>1. "" \in Names
  BY DEF Names
<1>2. Matching([conf EXCEPT !.activeFlag = "AA"])
  BY DEF Matching, Confs
<1>3. \A v \in Intervals : Matching([conf EXCEPT !.cubbyInterval = v])
  BY DEF Matching, Confs
<1>4. \A v \in BOOLEAN : Matching([conf EXCEPT !.wifiEnableFlag = v])
  BY DEF Matching, Confs
<1>5. \A v \in Names :
        Matching([conf EXCEPT !.ssid = v, !.password = "", !.wifiConfigFlag = TRUE])
  BY <1>1 DEF Matching, Confs
<1>6. Matching([conf EXCEPT !.ssid = "", !.wifiConfigFlag = FALSE])
  BY <1>1 DEF Matching, Confs
<1>7. Matching([conf EXCEPT !.password = "", !.wifiConfigFlag = FALSE])
  BY <1>1 DEF Matching, Confs
<1>8. Matching([conf EXCEPT !.password = IF conf.ssid = "" THEN "stray" ELSE conf.ssid,
                            !.wifiConfigFlag = TRUE])
  BY <1>1 DEF Matching, Confs
<1> QED
  BY <1>2, <1>3, <1>4, <1>5, <1>6, <1>7, <1>8

\* What the callbacks change.
LEMMA ActivationChanges ==
  ASSUME ActiveNext
  PROVE  \/ gSysInfo_struct' = gSysInfo_struct
         \/ gSysInfo_struct' = Normalised(gSysInfo_struct)
         \/ gSysInfo_struct' = [gSysInfo_struct EXCEPT !.activeFlag = "AA"]
<1>1. CASE module_4g_cloud_logIn_process \/ PingFails \/ Disconnect
  BY <1>1 DEF module_4g_cloud_logIn_process, PingFails, Disconnect
<1>2. CASE check_active_or_route \/ RouteEnd
  BY <1>2 DEF check_active_or_route, RouteEnd
<1>3. CASE device_route_process
  BY <1>3 DEF device_route_process, RouteCommand, RouteConnect, device_route_rsp_cb
<1>4. CASE device_active_process
  <2>1. CASE ActiveCommand \/ ActiveConnect \/ ActiveConfirmConnect \/ net4g_active_post_rsp_cb
    BY <2>1 DEF ActiveCommand, ActiveConnect, ActiveConfirmConnect, net4g_active_post_rsp_cb
  <2>2. CASE net4g_active_confirm_rsp_cb
    BY <2>2 DEF net4g_active_confirm_rsp_cb
  <2> QED
    BY <1>4, <2>1, <2>2 DEF device_active_process
<1> QED
  BY <1>1, <1>2, <1>3, <1>4 DEF ActiveNext, module_4g_active_route_process

\* The changes the callbacks make touch neither name nor password.
LEMMA ActivationKeepsMatch ==
  ASSUME Matching(gSysInfo_struct), ActiveNext
  PROVE  Matching(gSysInfo_struct')
<1>1. Matching([gSysInfo_struct EXCEPT !.cubbyInterval = "default"])
  BY ChangeMatches DEF Intervals
<1>2. Matching(Normalised(gSysInfo_struct))
  BY <1>1 DEF Normalised
<1>3. Matching([gSysInfo_struct EXCEPT !.activeFlag = "AA"])
  BY ChangeMatches
<1> QED
  BY <1>2, <1>3, ActivationChanges

\* A new name discards the password, a new password takes the present name.
LEMMA SetMatches ==
  ASSUME NEW conf, NEW m \in ConfigMsgs, Matching(conf)
  PROVE  Matching(Set(conf, m))
<1> DEFINE enabled == IF m.wifiEnable = "" THEN conf
                      ELSE [conf EXCEPT !.wifiEnableFlag = (m.wifiEnable = "on")]
           timed   == IF m.cubbyInterval = "" THEN enabled
                      ELSE [enabled EXCEPT !.cubbyInterval = m.cubbyInterval]
           named   == IF m.ssid = "" THEN timed
                      ELSE [timed EXCEPT !.ssid = m.ssid, !.password = "", !.wifiConfigFlag = TRUE]
           set     == [named EXCEPT !.password = IF named.ssid = "" THEN "stray" ELSE named.ssid,
                                    !.wifiConfigFlag = TRUE]
<1>0. m.ssid \in Names /\ m.cubbyInterval \in Intervals /\ (m.wifiEnable = "on") \in BOOLEAN
  BY DEF Names, Intervals
<1>1. Matching(enabled)
  BY <1>0, ChangeMatches
<1>2. Matching(timed)
  <2> HIDE DEF enabled
  <2> QED
    BY <1>0, <1>1, ChangeMatches
<1>3. Matching(named)
  <2> HIDE DEF timed
  <2> QED
    BY <1>0, <1>2, ChangeMatches
<1>4. Matching(set)
  <2> HIDE DEF named
  <2> QED
    BY <1>3, ChangeMatches
<1>5. Set(conf, m) = named \/ Set(conf, m) = set
  BY Zenon DEF Set
<1> HIDE DEF named, set
<1> QED
  BY <1>3, <1>4, <1>5

LEMMA ClearMatches ==
  ASSUME NEW conf, NEW m, Matching(conf)
  PROVE  Matching(Clear(conf, m))
<1> DEFINE unnamed == IF m.ssid = "" THEN conf
                      ELSE [conf EXCEPT !.ssid = "", !.wifiConfigFlag = FALSE]
           cleared == [unnamed EXCEPT !.password = "", !.wifiConfigFlag = FALSE]
<1>1. Matching(unnamed)
  BY ChangeMatches
<1>2. Matching(cleared)
  <2> HIDE DEF unnamed
  <2> QED
    BY <1>1, ChangeMatches
<1>3. Clear(conf, m) = unnamed \/ Clear(conf, m) = cleared
  BY Zenon DEF Clear
<1> HIDE DEF unnamed, cleared
<1> QED
  BY <1>1, <1>2, <1>3

LEMMA CommandKeepsMatch ==
  ASSUME Matching(gSysInfo_struct), RspAnalyze
  PROVE  Matching(gSysInfo_struct')
<1>1. ASSUME gSysInfo_struct' = gSysInfo_struct PROVE Matching(gSysInfo_struct')
  BY <1>1
<1>2. ASSUME NEW op, NEW s, NEW payload, NEW event, SlotCommand(op, s, payload, event)
      PROVE  Matching(gSysInfo_struct')
  <2>1. gSysInfo_struct' = gSysInfo_struct
    BY <1>2, Zenon DEF SlotCommand
  <2> QED
    BY <1>1, <2>1
<1>3. ASSUME NEW op, CubbyCommand(op) PROVE Matching(gSysInfo_struct')
  BY <1>1, <1>3 DEF CubbyCommand
<1>4. ASSUME NEW op, NEW cmd, NEW m \in ConfigMsgs, ConfigCommand(op, cmd, m)
      PROVE  Matching(gSysInfo_struct')
  <2>1. gSysInfo_struct' \in {gSysInfo_struct, Set(gSysInfo_struct, m), Clear(gSysInfo_struct, m)}
    BY <1>4, Zenon DEF ConfigCommand
  <2> QED
    BY <2>1, SetMatches, ClearMatches
<1>5. ASSUME NEW op, NEW cmd, DeviceCommand(op, cmd) PROVE Matching(gSysInfo_struct')
  BY <1>1, <1>5 DEF DeviceCommand
<1>6. ASSUME NEW op, OtaOrLowpowerCommand(op) \/ ConfigCommandEmpty(op)
      PROVE  Matching(gSysInfo_struct')
  BY <1>1, <1>6 DEF OtaOrLowpowerCommand, ConfigCommandEmpty
<1>7. CASE Dropped \/ UnknownTopic \/ Reactivate
  BY <1>1, <1>7 DEF Dropped, UnknownTopic, Reactivate
<1> QED
  BY <1>2, <1>3, <1>4, <1>5, <1>6, <1>7 DEF RspAnalyze

LEMMA ConfStep ==
  ASSUME ConfInv, [Next]_vars
  PROVE  ConfInv'
<1> DEFINE StoredOK(fl) == fl["CONFIG"] = Torn \/ Matching(fl["CONFIG"])
<1>0. FlashOK /\ Matching(gSysInfo_struct) /\ StoredOK(flash)
  BY DEF ConfInv
<1> SUFFICES FlashOK' /\ Matching(gSysInfo_struct') /\ StoredOK(flash')
  BY DEF ConfInv, Matching
<1>1. ASSUME flash' = flash, writes' \in Seq(Areas), Matching(gSysInfo_struct')
      PROVE  FlashOK' /\ Matching(gSysInfo_struct') /\ StoredOK(flash')
  BY <1>0, <1>1 DEF FlashOK
<1>2. CASE Connect
  BY <1>0, <1>1, <1>2, TaskWrites, ActivationKeepsMatch DEF Connect
<1>3. CASE RspAnalyze
  BY <1>0, <1>1, <1>3, CommandWrites, CommandKeepsMatch
<1>4. CASE \/ Report \/ SlotProcess \/ WifiSwitch \/ TakeEvent \/ Communicate
           \/ UNCHANGED vars
  <2>1. UNCHANGED <<flash, writes, gSysInfo_struct>>
    BY <1>4 DEF Report, SlotProcess, WifiSwitch, TakeEvent, Communicate, vars, activeVars, flashVars
  <2> QED
    BY <1>0, <1>1, <2>1 DEF FlashOK
<1>5. CASE Save
  <2>1. FlashOK' /\ gSysInfo_struct' = gSysInfo_struct
    BY <1>0, <1>5, SaveWrites DEF Save, ActiveSave
  <2>2. PICK area \in Areas :
          flash' = [flash EXCEPT ![area] =
                      IF area = "CONFIG" THEN gSysInfo_struct ELSE gSysLoginInfo]
    BY <1>0, <1>5, SaveWrites DEF Save
  <2>3. flash'["CONFIG"] = gSysInfo_struct \/ flash'["CONFIG"] = flash["CONFIG"]
    BY <1>0, <2>2 DEF FlashOK, Areas
  <2> QED
    BY <1>0, <2>1, <2>3
<1>6. CASE device_reboot
  <2>1. UNCHANGED <<flash, writes>> /\ gSysInfo_struct' = StoredConf(flash)
    BY <1>6 DEF device_reboot, Restart, ActiveBoot, flashVars
  <2> QED
    BY <1>0, <1>1, <2>1, StoredMatches DEF FlashOK
<1>7. CASE PowerLoss
  <2>1. FlashCut /\ gSysInfo_struct' = StoredConf(flash')
    BY <1>7 DEF PowerLoss, Restart, ActiveBoot
  <2>2. FlashOK'
    BY <1>0, <2>1, CutTears
  <2>3. flash'["CONFIG"] = Torn \/ flash'["CONFIG"] = flash["CONFIG"]
    <3>1. CASE flash' = flash
      BY <3>1
    <3>2. CASE \E area \in Areas : flash' = [flash EXCEPT ![area] = Torn]
      BY <1>0, <3>2 DEF FlashOK, Areas
    <3> QED
      BY <1>0, <2>1, <3>1, <3>2, CutTears
  <2>4. StoredOK(flash')
    BY <1>0, <2>3
  <2> QED
    BY <2>1, <2>2, <2>4, StoredMatches
<1> QED
  BY <1>2, <1>3, <1>4, <1>5, <1>6, <1>7 DEF Next, Task

LEMMA ConfStarts == ASSUME Init PROVE ConfInv
<1>1. /\ gSysInfo_struct = DefaultConf /\ writes = <<>>
      /\ flash = [LOGIN |-> Erased, LOGIN_BACK |-> Erased, CONFIG |-> DefaultConf]
  BY DEF Init, ActiveInit
<1>2. flash = [a \in Areas |-> flash[a]] /\ flash["CONFIG"] = DefaultConf
  BY <1>1 DEF Areas
<1> QED
  BY <1>1, <1>2, DefaultMatches DEF ConfInv, FlashOK

(* A WiFi password is stored next to the name it was set for, for every set  *)
(* of configurations the commands may carry and wherever power is lost.      *)
THEOREM PasswordNextToName == Spec => []PasswordOfSsid
<1>1. Init => ConfInv
  BY ConfStarts
<1>2. ConfInv /\ [Next]_vars => ConfInv'
  BY ConfStep
<1>3. ConfInv => PasswordOfSsid
  BY StoredMatches DEF ConfInv, PasswordOfSsid, Matching
<1> QED
  BY <1>1, <1>2, <1>3, PTL DEF Spec

-----------------------------------------------------------------------------
(* What was reported. *)

\* What ReportedSurvives compares.
Essence(conf) == Normalised([conf EXCEPT !.activeFlag = "0"])

LEMMA EssenceIs ==
  ASSUME NEW c \in Confs
  PROVE  Essence(c) =
           [activeFlag |-> "0", wifiEnableFlag |-> c.wifiEnableFlag,
            wifiConfigFlag |-> c.wifiConfigFlag, ssid |-> c.ssid, password |-> c.password,
            cubbyInterval |-> IF c.cubbyInterval = "outside" THEN "default" ELSE c.cubbyInterval]
<1>1. [c EXCEPT !.activeFlag = "0"] =
           [activeFlag |-> "0", wifiEnableFlag |-> c.wifiEnableFlag,
            wifiConfigFlag |-> c.wifiConfigFlag, ssid |-> c.ssid, password |-> c.password,
            cubbyInterval |-> c.cubbyInterval]
  BY DEF Confs
<1> QED
  BY <1>1 DEF Essence, Normalised

LEMMA EssenceKept ==
  ASSUME NEW c \in Confs
  PROVE  /\ Essence(Normalised(c)) = Essence(c)
         /\ Essence([c EXCEPT !.activeFlag = "AA"]) = Essence(c)
<1> DEFINE n == [c EXCEPT !.cubbyInterval = "default"]
           a == [c EXCEPT !.activeFlag = "AA"]
<1>1. /\ n \in Confs /\ n.cubbyInterval = "default"
      /\ n.wifiEnableFlag = c.wifiEnableFlag /\ n.wifiConfigFlag = c.wifiConfigFlag
      /\ n.ssid = c.ssid /\ n.password = c.password
  BY DEF Confs, Intervals
<1>2. /\ a \in Confs /\ a.cubbyInterval = c.cubbyInterval
      /\ a.wifiEnableFlag = c.wifiEnableFlag /\ a.wifiConfigFlag = c.wifiConfigFlag
      /\ a.ssid = c.ssid /\ a.password = c.password
  BY DEF Confs
<1>3. Normalised(c) = IF c.cubbyInterval = "outside" THEN n ELSE c
  BY DEF Normalised
<1> HIDE DEF n, a
<1>4. Essence(a) = Essence(c)
  <2>1. /\ Essence(a) =
             [activeFlag |-> "0", wifiEnableFlag |-> a.wifiEnableFlag,
              wifiConfigFlag |-> a.wifiConfigFlag, ssid |-> a.ssid, password |-> a.password,
              cubbyInterval |-> IF a.cubbyInterval = "outside" THEN "default" ELSE a.cubbyInterval]
        /\ Essence(c) =
             [activeFlag |-> "0", wifiEnableFlag |-> c.wifiEnableFlag,
              wifiConfigFlag |-> c.wifiConfigFlag, ssid |-> c.ssid, password |-> c.password,
              cubbyInterval |-> IF c.cubbyInterval = "outside" THEN "default" ELSE c.cubbyInterval]
    BY <1>2, EssenceIs, Zenon
  <2> QED
    BY <1>2, <2>1
<1>5. ASSUME c.cubbyInterval = "outside" PROVE Essence(n) = Essence(c)
  <2>1. /\ Essence(n) =
             [activeFlag |-> "0", wifiEnableFlag |-> n.wifiEnableFlag,
              wifiConfigFlag |-> n.wifiConfigFlag, ssid |-> n.ssid, password |-> n.password,
              cubbyInterval |-> IF n.cubbyInterval = "outside" THEN "default" ELSE n.cubbyInterval]
        /\ Essence(c) =
             [activeFlag |-> "0", wifiEnableFlag |-> c.wifiEnableFlag,
              wifiConfigFlag |-> c.wifiConfigFlag, ssid |-> c.ssid, password |-> c.password,
              cubbyInterval |-> IF c.cubbyInterval = "outside" THEN "default" ELSE c.cubbyInterval]
    BY <1>1, EssenceIs, Zenon
  <2> QED
    BY <1>1, <1>5, <2>1
<1>6. Essence(Normalised(c)) = Essence(c)
  BY <1>3, <1>5
<1> QED
  BY <1>4, <1>6 DEF a

\* What ReportedSurvives needs: the configuration in RAM is the stored one, but
\* for what Essence leaves out, unless the write of a command is still to come.
ReportInv ==
  /\ ConfInv
  /\ reported # <<>> => Essence(StoredConf(flash)) = Essence(reported[1])
  /\ \/ Essence(gSysInfo_struct) = Essence(StoredConf(flash))
     \/ reported = <<>> /\ writes = <<"CONFIG">>

\* A command either leaves the configuration alone or is about to save it.
LEMMA CommandSaves ==
  ASSUME RspAnalyze
  PROVE  \/ gSysInfo_struct' = gSysInfo_struct /\ reported' = reported
         \/ reported' = <<>> /\ writes' = <<"CONFIG">>
<1> DEFINE Kept == gSysInfo_struct' = gSysInfo_struct /\ reported' = reported
           Saved == reported' = <<>> /\ writes' = <<"CONFIG">>
<1> SUFFICES Kept \/ Saved
  OBVIOUS
<1>1. ASSUME NEW op, NEW s, NEW payload, NEW event, SlotCommand(op, s, payload, event)
      PROVE  Kept
  BY <1>1, Zenon DEF SlotCommand
<1>2. ASSUME NEW op, CubbyCommand(op) PROVE Kept
  BY <1>2 DEF CubbyCommand, ramOfCmd
<1>3. ASSUME NEW op, NEW cmd, NEW m, ConfigCommand(op, cmd, m)
      PROVE  Kept \/ Saved
  <2> DEFINE saves == (cmd = 26 /\ SetSaves(m)) \/ (cmd = 27 /\ ClearSaves(m))
  <2>1. /\ writes' = IF saves THEN <<"CONFIG">> ELSE writes
        /\ reported' = IF saves THEN <<>> ELSE reported
    BY <1>3, Zenon DEF ConfigCommand
  <2>2. /\ cmd = 26 => gSysInfo_struct' = Set(gSysInfo_struct, m)
        /\ cmd = 27 => gSysInfo_struct' = Clear(gSysInfo_struct, m)
        /\ cmd # 26 /\ cmd # 27 => gSysInfo_struct' = gSysInfo_struct
    <3>1. gSysInfo_struct' = CASE cmd = 26 -> Set(gSysInfo_struct, m)
                               [] cmd = 27 -> Clear(gSysInfo_struct, m)
                               [] OTHER    -> gSysInfo_struct
      BY <1>3, Zenon DEF ConfigCommand
    <3>2. 26 # 27
      OBVIOUS
    <3> QED
      BY <3>1, <3>2, Zenon
  <2>3. ~SetSaves(m) => Set(gSysInfo_struct, m) = gSysInfo_struct
    BY Zenon DEF SetSaves, Set
  <2>4. ~ClearSaves(m) => Clear(gSysInfo_struct, m) = gSysInfo_struct
    BY Zenon DEF ClearSaves, Clear
  <2>5. CASE saves
    BY <2>1, <2>5
  <2>6. CASE ~saves
    <3>1. reported' = reported
      BY <2>1, <2>6
    <3>2. gSysInfo_struct' = gSysInfo_struct
      BY <2>2, <2>3, <2>4, <2>6
    <3> QED
      BY <3>1, <3>2
  <2> QED
    BY <2>5, <2>6
<1>4. ASSUME NEW op, NEW cmd, DeviceCommand(op, cmd) PROVE Kept
  BY <1>4 DEF DeviceCommand, ramOfCmd
<1>5. ASSUME NEW op, OtaOrLowpowerCommand(op) \/ ConfigCommandEmpty(op) PROVE Kept
  BY <1>5 DEF OtaOrLowpowerCommand, ConfigCommandEmpty, ramOfCmd
<1>6. CASE Dropped \/ UnknownTopic
  BY <1>6 DEF Dropped, UnknownTopic, ramOfCmd
<1>7. CASE Reactivate /\ UNCHANGED ramOfCmd
  BY <1>7 DEF Reactivate, ramOfCmd
<1> QED
  BY <1>1, <1>2, <1>3, <1>4, <1>5, <1>6, <1>7 DEF RspAnalyze

LEMMA ReportStep ==
  ASSUME ReportInv, [Next]_vars
  PROVE  ReportInv'
<1> DEFINE InFlash == Essence(StoredConf(flash))
           Reported == reported # <<>> => InFlash = Essence(reported[1])
           Known == \/ Essence(gSysInfo_struct) = InFlash
                    \/ reported = <<>> /\ writes = <<"CONFIG">>
<1>0. ConfInv /\ Reported /\ Known /\ gSysInfo_struct \in Confs
  BY DEF ReportInv, ConfInv, Matching
<1>1. ConfInv' /\ gSysInfo_struct' \in Confs
  BY <1>0, ConfStep DEF ConfInv, Matching
<1> SUFFICES Reported' /\ Known'
  BY <1>1 DEF ReportInv
<1>2. Idle => writes # <<"CONFIG">>
  BY DEF Idle
<1>3. CASE Connect
  <2>1. InFlash' = InFlash /\ reported' = reported /\ Idle
    BY <1>3 DEF Connect, ActiveNext, cmdVars, StoredConf
  <2>2. Essence(gSysInfo_struct') = Essence(gSysInfo_struct)
    BY <1>0, <1>3, ActivationChanges, EssenceKept DEF Connect
  <2> HIDE DEF InFlash
  <2>3. Essence(gSysInfo_struct)' = Essence(gSysInfo_struct')
    BY DEF Essence, Normalised
  <2> QED
    BY <1>0, <1>2, <2>1, <2>2, <2>3
<1>4. CASE RspAnalyze
  <2>1. InFlash' = InFlash /\ Idle
    BY <1>4 DEF RspAnalyze, StoredConf
  <2>2. CASE gSysInfo_struct' = gSysInfo_struct /\ reported' = reported
    BY <1>0, <1>2, <2>1, <2>2
  <2>3. CASE reported' = <<>> /\ writes' = <<"CONFIG">>
    BY <2>3
  <2> QED
    BY <1>4, <2>2, <2>3, CommandSaves
<1>5. CASE Save
  <2>1. gSysInfo_struct' = gSysInfo_struct /\ reported' = reported
    BY <1>5 DEF Save, ActiveSave, cmdVars
  <2>2. PICK area \in Areas :
          /\ ~Idle /\ area = Head(writes) /\ writes' = Tail(writes)
          /\ flash' = [flash EXCEPT ![area] =
                         IF area = "CONFIG" THEN gSysInfo_struct ELSE gSysLoginInfo]
    BY <1>0, <1>5, SaveWrites DEF Save, ConfInv
  <2>3. CASE area = "CONFIG"
    <3>1. flash'["CONFIG"] = gSysInfo_struct
      BY <1>0, <2>2, <2>3 DEF ConfInv, FlashOK
    <3>2. StoredConf(flash)' = gSysInfo_struct
      BY <1>0, <3>1, CmdAssumption DEF StoredConf
    <3>3. InFlash' = Essence(gSysInfo_struct)
      BY <3>2
    <3>4. reported # <<>> => Essence(gSysInfo_struct) = Essence(reported[1])
      BY <1>0
    <3> QED
      BY <2>1, <3>3, <3>4
  <2>4. CASE area # "CONFIG"
    <3>1. flash'["CONFIG"] = flash["CONFIG"]
      BY <1>0, <2>2, <2>4 DEF ConfInv, FlashOK, Areas
    <3>2. InFlash' = InFlash
      BY <3>1 DEF StoredConf
    <3>3. writes # <<"CONFIG">>
      BY <2>2, <2>4
    <3> QED
      BY <1>0, <2>1, <3>2, <3>3
  <2> QED
    BY <2>3, <2>4
<1>6. CASE Report
  <2>1. /\ Idle /\ reported' = <<gSysInfo_struct>>
        /\ UNCHANGED <<flash, gSysInfo_struct>>
    BY <1>6 DEF Report, activeVars, flashVars
  <2>2. InFlash' = InFlash
    BY <2>1 DEF StoredConf
  <2> QED
    BY <1>0, <1>2, <2>1, <2>2
<1>7. CASE device_reboot
  <2>1. /\ UNCHANGED flash /\ gSysInfo_struct' = StoredConf(flash)
        /\ reported' = <<>> \/ reported' = reported
    BY <1>7 DEF device_reboot, Restart, ActiveBoot, flashVars
  <2>2. InFlash' = InFlash
    BY <2>1 DEF StoredConf
  <2> QED
    BY <1>0, <2>1, <2>2
<1>8. CASE PowerLoss
  <2>1. /\ FlashCut /\ gSysInfo_struct' = StoredConf(flash')
        /\ reported' = IF flash'["CONFIG"] = Torn THEN <<>> ELSE reported
    BY <1>8 DEF PowerLoss, Restart, ActiveBoot
  <2>2. flash'["CONFIG"] = Torn \/ flash'["CONFIG"] = flash["CONFIG"]
    <3>1. CASE flash' = flash
      BY <3>1
    <3>2. CASE \E area \in Areas : flash' = [flash EXCEPT ![area] = Torn]
      BY <1>0, <3>2 DEF ConfInv, FlashOK, Areas
    <3> QED
      BY <1>0, <2>1, <3>1, <3>2, CutTears DEF ConfInv
  <2>3. Known'
    BY <2>1 DEF StoredConf
  <2>4. CASE flash'["CONFIG"] = Torn
    BY <2>1, <2>3, <2>4
  <2>5. CASE flash'["CONFIG"] # Torn
    <3>1. InFlash' = InFlash /\ reported' = reported
      BY <2>1, <2>2, <2>5 DEF StoredConf
    <3> QED
      BY <1>0, <2>3, <3>1
  <2> QED
    BY <2>4, <2>5
<1>9. CASE SlotProcess \/ WifiSwitch \/ TakeEvent \/ Communicate \/ UNCHANGED vars
  <2>1. UNCHANGED <<flash, writes, gSysInfo_struct, reported>>
    BY <1>9 DEF SlotProcess, WifiSwitch, TakeEvent, Communicate, vars, activeVars, cmdVars, flashVars
  <2>2. InFlash' = InFlash
    BY <2>1 DEF StoredConf
  <2> QED
    BY <1>0, <2>1, <2>2
<1> QED
  BY <1>3, <1>4, <1>5, <1>6, <1>7, <1>8, <1>9 DEF Next, Task

(* What was last reported as the configuration is what the device starts up  *)
(* with, for every set of configurations the commands may carry.             *)
THEOREM ReportSurvives == Spec => []ReportedSurvives
<1>1. Init => ReportInv
  <2> SUFFICES ASSUME Init PROVE ReportInv
    OBVIOUS
  <2>1. ConfInv
    BY ConfStarts
  <2>2. /\ gSysInfo_struct = DefaultConf /\ reported = <<>>
        /\ flash = [LOGIN |-> Erased, LOGIN_BACK |-> Erased, CONFIG |-> DefaultConf]
    BY DEF Init, ActiveInit, CmdInit
  <2>3. StoredConf(flash) = gSysInfo_struct
    BY <2>2 DEF StoredConf
  <2> QED
    BY <2>1, <2>2, <2>3 DEF ReportInv
<1>2. ReportInv /\ [Next]_vars => ReportInv'
  BY ReportStep
<1>3. ReportInv => ReportedSurvives
  BY DEF ReportInv, ReportedSurvives, Essence
<1> QED
  BY <1>1, <1>2, <1>3, PTL DEF Spec
=============================================================================
