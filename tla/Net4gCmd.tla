------------------------------ MODULE Net4gCmd ------------------------------
(***************************************************************************)
(* RspAnalyze, the interpreter of the commands of the cloud, and what      *)
(* module_4g_communication_process makes of its result.                    *)
(*                                                                         *)
(* A command carries a number, opCode, by which repeated and late ones are *)
(* recognised; the number of the last command taken is in RAM.  Commands   *)
(* are delivered here with any number, so repeated, late, lost and         *)
(* reordered deliveries are all covered.                                   *)
(*                                                                         *)
(* Left to other modules or external: the contents of the reports (they    *)
(* are queued as in Net4gPub), the update and lending flags of Net4gWork,  *)
(* and the tasks that take node events.                                    *)
(***************************************************************************)
EXTENDS Net4gActive

CONSTANTS
  Slots,          \* slots with a send buffer
  MAX_OPCODE,     \* 0xFFFFFFFF
  ConfigMsgs,     \* device configurations a config command may carry
  MaxMsgs         \* bound on the commands received

\* The configurations that can come about, in RAM or in flash.
Names == {m.ssid : m \in ConfigMsgs} \cup {""}
Intervals == {m.cubbyInterval : m \in ConfigMsgs} \cup {"default"}
Confs ==
  [activeFlag : {"0", "AA"}, wifiEnableFlag : BOOLEAN, wifiConfigFlag : BOOLEAN,
   ssid : Names, password : Names \cup {"stray"}, cubbyInterval : Intervals]

ASSUME CmdAssumption ==
  /\ MAX_OPCODE \in Nat
  /\ MaxMsgs \in Nat
  /\ Torn \notin Confs

VARIABLES
  CloudopCode,      \* g_deviceGlobalInfo.CloudopCode
  UartSendBuf,      \* pbCmdByteUartSendBuf and nfcpwdUartSendBuf: the payload for
                    \* each slot, named by the number of the command it came with
  filling,          \* RspAnalyze is in the middle of a slot command: <<the command>>
  events,           \* node events queued by slot commands and not yet taken
  report,           \* RspAnalyze is about to report the configuration
  wait_report,      \* net4G_wait_report_delay: a switch to WiFi is due
  taken,            \* history: slot commands taken since start-up
  acted,            \* history: opCodes of slot, cubby and config commands taken
                    \* since start-up or since the numbers began again
  reported,         \* history: the configuration last reported, <<>> when a command
                    \* has changed it since or a write of it was torn
  msgs              \* commands received

ramOfCmd == <<UartSendBuf, filling, events, report, wait_report, taken, reported>>
cmdVars == <<CloudopCode, UartSendBuf, filling, events, report, wait_report, taken,
             acted, reported, msgs>>

Empty == 0
Junk == MaxMsgs + 1     \* a length left on the stack, followed by zeros

CmdBoot ==
  /\ CloudopCode' = 0
  /\ UartSendBuf' = [s \in Slots |-> Empty]
  /\ filling' = <<>> /\ events' = <<>>
  /\ report' = FALSE /\ wait_report' = FALSE
  /\ taken' = 0 /\ acted' = <<>>

CmdInit ==
  /\ CloudopCode = 0
  /\ UartSendBuf = [s \in Slots |-> Empty]
  /\ filling = <<>> /\ events = <<>>
  /\ report = FALSE /\ wait_report = FALSE
  /\ taken = 0
  /\ acted = <<>> /\ reported = <<>>
  /\ msgs = 0

-----------------------------------------------------------------------------
(* The number of a command. *)

\* Faulty variant: a command with the number of the last one is new.
NewerOrSame(op) == op >= CloudopCode

Newer(op) == op > CloudopCode

\* After the largest number the cloud begins again with a smaller one.
BeginsAgain(op) == op < CloudopCode /\ CloudopCode = MAX_OPCODE

Accepted(op) == Newer(op) \/ BeginsAgain(op)

TakeOpCode(op) == CloudopCode' = IF Accepted(op) THEN op ELSE CloudopCode

\* Slot, cubby and config commands are dropped unless accepted.
Act(op) == acted' = IF BeginsAgain(op) THEN <<op>> ELSE Append(acted, op)

\* Device, ota and lowpower commands are obeyed in any case.
ActAnyway(op) == acted' = IF BeginsAgain(op) THEN <<>> ELSE acted

-----------------------------------------------------------------------------
(* The topics. *)

\* What the caller makes of the return value.  In normal state it goes on; the
\* process that waits for the start-up ping is in normal state with 14, the answer
\* to it, and takes anything else for the end of the session.
Return(ping) ==
  IF netWork = "INIT"
  THEN /\ netWork' = IF ping THEN "NORMAL" ELSE "ACTIVE_ROUTE"
       /\ session' = IF ping THEN session ELSE NoKey
  ELSE UNCHANGED <<netWork, session>>

\* Faulty variant: the buffer is not cleared first.
SlotCommandKeepsBuffer(op, s, payload, event) ==
  /\ IF Accepted(op)
     THEN /\ taken' = taken + 1
          /\ filling' = <<[slot |-> s, payload |-> payload, event |-> event]>>
          /\ Act(op)
          /\ UNCHANGED <<netWork, session>>
     ELSE Return(FALSE) /\ UNCHANGED <<taken, filling, acted>>
  /\ TakeOpCode(op)
  /\ UNCHANGED <<gSysInfo_struct, writes, UartSendBuf, events, report, wait_report, reported>>

\* Slot: the buffers are cleared before the number is looked at.
SlotCommand(op, s, payload, event) ==
  /\ UartSendBuf' = [UartSendBuf EXCEPT ![s] = Empty]
  /\ IF Accepted(op)
     THEN /\ taken' = taken + 1
          /\ filling' = <<[slot |-> s, payload |-> payload, event |-> event]>>
          /\ Act(op)
          /\ UNCHANGED <<netWork, session>>
     ELSE Return(FALSE) /\ UNCHANGED <<taken, filling, acted>>
  /\ TakeOpCode(op)
  /\ UNCHANGED <<gSysInfo_struct, writes, events, report, wait_report, reported>>

\* A payload of 21 bytes or more is not stored: the buffer stays as it is.  The
\* length of one that is absent is not initialised.
Stored(payload, old) ==
  CASE payload = "short"  -> {taken}
    [] payload = "long"   -> {old}
    [] payload = "absent" -> {old, Empty, Junk}

SlotFill ==
  /\ filling # <<>> /\ filling[1].payload # "filled"
  /\ \E stored \in Stored(filling[1].payload, UartSendBuf[filling[1].slot]) :
       UartSendBuf' = [UartSendBuf EXCEPT ![filling[1].slot] = stored]
  /\ filling' = <<[filling[1] EXCEPT !.payload = "filled"]>>
  /\ UNCHANGED <<netWork, session, events>>

SlotEvent ==
  /\ filling # <<>> /\ filling[1].payload = "filled"
  /\ events' = IF filling[1].event
               THEN Append(events, [slot |-> filling[1].slot, cmd |-> taken]) ELSE events
  /\ filling' = <<>>
  /\ Return(FALSE)
  /\ UNCHANGED UartSendBuf

\* The rest of an accepted slot command: its slot's task may read the buffer at
\* any point of it.
SlotProcess ==
  /\ SlotFill \/ SlotEvent
  /\ UNCHANGED <<family, active_route_step, deviceActive, connectRoute, cloudLogin, tries,
                 gSysLoginInfo, gSysInfo_struct, cloud, history, faults, flashVars,
                 CloudopCode, report, wait_report, taken, acted, reported, msgs>>

\* Cubby: an event without a payload.
CubbyCommand(op) ==
  /\ Accepted(op)
  /\ TakeOpCode(op) /\ Act(op)
  /\ Return(FALSE)
  /\ UNCHANGED <<gSysInfo_struct, writes, ramOfCmd>>

\* Faulty variant: a new ssid keeps the password.
SetKeepsPassword(conf, m) ==
  LET named == IF m.ssid = "" THEN conf
               ELSE [conf EXCEPT !.ssid = m.ssid, !.wifiConfigFlag = TRUE]
  IN IF ~m.password THEN named
     ELSE [named EXCEPT !.password = IF named.ssid = "" THEN "stray" ELSE named.ssid]

\* Config 26.  A new ssid discards the password; a password belongs to the ssid
\* set by then.
Set(conf, m) ==
  LET enabled == IF m.wifiEnable = "" THEN conf
                 ELSE [conf EXCEPT !.wifiEnableFlag = (m.wifiEnable = "on")]
      timed   == IF m.cubbyInterval = "" THEN enabled
                 ELSE [enabled EXCEPT !.cubbyInterval = m.cubbyInterval]
      named   == IF m.ssid = "" THEN timed
                 ELSE [timed EXCEPT !.ssid = m.ssid, !.password = "", !.wifiConfigFlag = TRUE]
  IN IF ~m.password THEN named
     ELSE [named EXCEPT !.password = IF named.ssid = "" THEN "stray" ELSE named.ssid,
                        !.wifiConfigFlag = TRUE]

\* Config 27.
Clear(conf, m) ==
  LET unnamed == IF m.ssid = "" THEN conf
                 ELSE [conf EXCEPT !.ssid = "", !.wifiConfigFlag = FALSE]
  IN IF ~m.password THEN unnamed
     ELSE [unnamed EXCEPT !.password = "", !.wifiConfigFlag = FALSE]

\* Faulty variant: a password alone is not saved.
SetSavesUnlessPassword(m) == m.other \/ m.ssid # "" \/ m.wifiEnable # "" \/ m.cubbyInterval # ""

\* The settings a command names that lead to a write: any of them for 26, the
\* names, the password and some of the others for 27.
SetSaves(m) == m.other \/ m.password \/ m.ssid # "" \/ m.wifiEnable # "" \/ m.cubbyInterval # ""
ClearSaves(m) == m.other \/ m.password \/ m.ssid # ""

\* pb_parse_ret is 1, 3, 4, 7, 8 or 9.
AsksForWifi(m) == m.wifiEnable = "on" \/ (m.wifiEnable = "" /\ (m.ssid # "" \/ m.password))

WifiUsable(conf) == conf.wifiConfigFlag /\ conf.wifiEnableFlag /\ conf.ssid # ""

\* Config 24, and 25, 26 or 27 with settings: change the settings in RAM, save them, then report.
ConfigCommand(op, cmd, m) ==
  /\ Accepted(op)
  /\ TakeOpCode(op) /\ Act(op)
  /\ gSysInfo_struct' = CASE cmd = 26 -> Set(gSysInfo_struct, m)
                          [] cmd = 27 -> Clear(gSysInfo_struct, m)
                          [] OTHER    -> gSysInfo_struct
  /\ LET saves == (cmd = 26 /\ SetSaves(m)) \/ (cmd = 27 /\ ClearSaves(m)) IN
     /\ writes' = IF saves THEN <<"CONFIG">> ELSE writes
     /\ reported' = IF saves THEN <<>> ELSE reported
  /\ report' = TRUE
  /\ wait_report' = (wait_report \/ (netWork = "NORMAL" /\ cmd = 26 /\ AsksForWifi(m)
                                      /\ WifiUsable(gSysInfo_struct')))
  /\ Return(FALSE)
  /\ UNCHANGED <<UartSendBuf, filling, events, taken>>

\* 25, 26 or 27 without settings, or another number: the command is taken and
\* nothing is reported.
ConfigCommandEmpty(op) ==
  /\ Accepted(op)
  /\ TakeOpCode(op) /\ Act(op)
  /\ Return(FALSE)
  /\ UNCHANGED <<gSysInfo_struct, writes, ramOfCmd>>

\* Device: reports, events and commands without effect here; 12, 13 and 36
\* restart the device; 14 is Reactivate; 15 is the ping.
DeviceCommand(op, cmd) ==
  /\ TakeOpCode(op) /\ ActAnyway(op)
  /\ IF cmd = "restart" THEN netWork' = "REBOOT" /\ UNCHANGED session
                        ELSE Return(cmd = "ping")
  /\ UNCHANGED <<gSysInfo_struct, writes, ramOfCmd>>

\* Ota and lowpower: the update and the power mode they ask for are flags of other
\* parts; only the number is dealt with here.
OtaOrLowpowerCommand(op) ==
  /\ TakeOpCode(op) /\ ActAnyway(op)
  /\ Return(FALSE)
  /\ UNCHANGED <<gSysInfo_struct, writes, ramOfCmd>>

\* A command that does not decode, or a cubby or config command that is not
\* accepted: return 0.
Dropped ==
  /\ Return(FALSE)
  /\ UNCHANGED <<gSysInfo_struct, writes, ramOfCmd, CloudopCode, acted>>

\* RspAnalyze ends without a return value if the topic is none of these; the
\* caller may find any number.
UnknownTopic ==
  /\ \E ping \in BOOLEAN : Return(ping)
  /\ wait_report' \in {wait_report, wait_report \/ (netWork = "NORMAL"
                                                   /\ WifiUsable(gSysInfo_struct))}
  /\ UNCHANGED <<CloudopCode, gSysInfo_struct, writes, UartSendBuf, filling, events, report,
                 taken, acted, reported>>

\* No command is being dealt with.
Returned == ~report /\ filling = <<>>

RspAnalyze ==
  /\ netWork \in {"INIT", "NORMAL"} /\ session # NoKey
  /\ Returned /\ Idle
  /\ msgs < MaxMsgs /\ msgs' = msgs + 1
  /\ UNCHANGED flash
  /\ \/ /\ \/ /\ Addressed
              /\ \/ \E op \in 0 .. MAX_OPCODE :
                      \/ \E s \in Slots, payload \in {"short", "long", "absent"},
                            event \in BOOLEAN : SlotCommand(op, s, payload, event)
                      \/ CubbyCommand(op)
                      \/ \E cmd \in 24 .. 27, m \in ConfigMsgs : ConfigCommand(op, cmd, m)
                      \/ ConfigCommandEmpty(op)
                      \/ \E cmd \in {"restart", "ping", "other"} : DeviceCommand(op, cmd)
                      \/ OtaOrLowpowerCommand(op)
                 \/ Dropped
           \/ UnknownTopic
        /\ UNCHANGED <<family, active_route_step, deviceActive, connectRoute, cloudLogin,
                       tries, gSysLoginInfo, cloud, history, faults>>
     \/ /\ Reactivate
        /\ \E op \in 0 .. MAX_OPCODE : TakeOpCode(op) /\ ActAnyway(op)
        /\ UNCHANGED ramOfCmd

-----------------------------------------------------------------------------
(* Properties. *)

CmdTypeOK ==
  /\ gSysInfo_struct \in Confs
  /\ CloudopCode \in 0 .. MAX_OPCODE
  /\ UartSendBuf \in [Slots -> 0 .. Junk]
  /\ \/ filling = <<>>
     \/ \E command \in [slot : Slots, payload : {"short", "long", "absent", "filled"},
                        event : BOOLEAN] : filling = <<command>>
  /\ events \in Seq([slot : Slots, cmd : 1 .. MaxMsgs])
  /\ report \in BOOLEAN /\ wait_report \in BOOLEAN
  /\ taken \in 0 .. MaxMsgs
  /\ msgs \in 0 .. MaxMsgs

(* Between start-ups, and until the numbers begin again, slot, cubby and     *)
(* config commands are obeyed in the order of their numbers and none twice,  *)
(* whatever is delivered repeatedly or late, and although device, ota and    *)
(* lowpower commands take part in the numbering without being filtered.      *)
ActedInOrder ==
  /\ \A i, j \in 1 .. Len(acted) : i < j => acted[i] < acted[j]
  /\ \A i \in 1 .. Len(acted) : acted[i] <= CloudopCode

(* A slot task finds in the slot's send buffer, for an event not yet taken,  *)
(* the payload of the command that caused it or of a later one, or none;     *)
(* never what an earlier command left there, wherever RspAnalyze is in a     *)
(* command for the same slot.                                                *)
NoStalePayload ==
  \A i \in 1 .. Len(events) :
    UartSendBuf[events[i].slot] # Empty => UartSendBuf[events[i].slot] >= events[i].cmd

(* A WiFi password is only ever stored, in RAM or in flash, next to the name *)
(* it was set for, through settings, deletions and losses of power.          *)
PasswordOfSsid ==
  \A conf \in {gSysInfo_struct, StoredConf(flash)} :
    conf.password # "" /\ conf.ssid # "" => conf.password = conf.ssid

(* What the device last reported as its configuration is what it will start  *)
(* up with, power losses and activations in between included, until another  *)
(* command changes it or the write of the area is torn: the report follows   *)
(* the write.  Only an interval out of range may come back as the default.   *)
ReportedSurvives ==
  reported # <<>> =>
    Normalised([StoredConf(flash) EXCEPT !.activeFlag = "0"]) =
    Normalised([reported[1] EXCEPT !.activeFlag = "0"])
=============================================================================
