----------------------------- MODULE Net4gWork -----------------------------
(***************************************************************************)
(* net4G_work_process, the top-level loop of the 4G task, and the          *)
(* processes it runs one call at a time: start-up ping, network            *)
(* configuration, activation and routing, log-in, normal communication     *)
(* with its countdown to a firmware update, firmware download, and the     *)
(* power-off wait after an error.  One step is one call of the process.    *)
(*                                                                         *)
(* What a command table or the modem decides inside a call is a            *)
(* nondeterministic result here; Net4gConfig and Net4gPub model those      *)
(* insides.  device_reboot (external) loses the RAM and keeps the flash.   *)
(***************************************************************************)
EXTENDS Naturals

CONSTANTS
  Builds,          \* values NO_POWER_OFF may have
  DISCONNECTS,     \* disconnections in normal state that reboot (2)
  MEDIUM_AT, SLOW_AT,            \* failures that lengthen the wait (5, 15)
  WAIT_SHORT, WAIT_MEDIUM, WAIT_LONG,  \* the waits (2000, 10000, 300000 calls)
  REPORT_DELAY,    \* calls before the switch to WiFi (9)
  OTA_GO,          \* call of the OTA countdown that starts the download (5000)
  LEND_WAIT,       \* calls the countdown waits for a lending (6000)
  MaxEvents,       \* bound on commands and lendings since start-up
  MaxFailures      \* bound on the history variable failures

ASSUME WorkAssumption ==
  /\ Builds \subseteq BOOLEAN
  /\ DISCONNECTS \in Nat \ {0}
  /\ MEDIUM_AT \in Nat \ {0} /\ SLOW_AT \in Nat /\ MEDIUM_AT < SLOW_AT
  /\ WAIT_SHORT \in Nat \ {0} /\ WAIT_MEDIUM \in Nat /\ WAIT_LONG \in Nat
  /\ WAIT_SHORT < WAIT_MEDIUM /\ WAIT_MEDIUM < WAIT_LONG
  /\ REPORT_DELAY \in Nat /\ REPORT_DELAY > 1
  /\ OTA_GO \in Nat \ {0}
  /\ LEND_WAIT \in Nat
  /\ MaxEvents \in Nat
  /\ MaxFailures \in Nat

VARIABLES
  NO_POWER_OFF,                     \* DEVICE_REBOOT_4G_CONTROL_TYPE of this build is
                                    \* DEVICE_REBOOT_4G_NO_POWER_OFF; never changes
  netWork, communicateStep,         \* net4G_process_steps
  cb,                               \* net4g_uart_recv_cb is registered
  power,                            \* net4g_module_power_ctrl
  net4g_process_retry_times, net4g_process_route_retry_times,
  net4G_wait_report_delay,          \* static of net4G_work_process
  active_route_step,                \* static of module_4g_active_route_process
  work_steps, wait_timeout,         \* statics of module_4g_error_handle_process
  fw_step,                          \* static of module_4g_fw_download_process
  otaFlag, ota_start_delay_time, lendTimeout_wait_time, batLendingFlag,
  activated,                        \* flash: check_active_or_route
  events,                           \* commands and lendings so far
  failures                          \* history: routings and log-ins failed in a row,
                                    \* reboots included

link   == <<communicateStep, cb, power>>
retry  == <<net4g_process_retry_times, net4g_process_route_retry_times>>
error  == <<work_steps, wait_timeout>>
ota    == <<otaFlag, ota_start_delay_time, lendTimeout_wait_time, batLendingFlag>>
vars   == <<NO_POWER_OFF, netWork, communicateStep, cb, power, net4g_process_retry_times,
            net4g_process_route_retry_times, net4G_wait_report_delay,
            active_route_step, work_steps, wait_timeout, fw_step, otaFlag,
            ota_start_delay_time, lendTimeout_wait_time, batLendingFlag,
            activated, events, failures>>

\* init_net4g_work_steps.  With NO_POWER_OFF the modem may have stayed powered.
Init ==
  /\ NO_POWER_OFF \in Builds
  /\ netWork = "INIT" /\ communicateStep = 0
  /\ cb = FALSE /\ power = FALSE
  /\ net4g_process_retry_times = 0 /\ net4g_process_route_retry_times = 0
  /\ net4G_wait_report_delay = 0
  /\ active_route_step = "CHECK"
  /\ work_steps = 0 /\ wait_timeout = 0
  /\ fw_step = "INIT"
  /\ otaFlag = FALSE /\ ota_start_delay_time = 0
  /\ lendTimeout_wait_time = 0 /\ batLendingFlag = FALSE
  /\ activated \in BOOLEAN
  /\ events = 0
  /\ failures = 0

device_reboot ==
  /\ netWork' = "INIT" /\ communicateStep' = 0
  /\ cb' = FALSE /\ power' \in {NO_POWER_OFF, FALSE}
  /\ net4g_process_retry_times' = 0 /\ net4g_process_route_retry_times' = 0
  /\ net4G_wait_report_delay' = 0
  /\ active_route_step' = "CHECK"
  /\ work_steps' = 0 /\ wait_timeout' = 0
  /\ fw_step' = "INIT"
  /\ otaFlag' = FALSE /\ ota_start_delay_time' = 0
  /\ lendTimeout_wait_time' = 0 /\ batLendingFlag' = FALSE
  /\ UNCHANGED failures

\* RspAnalyze: the cloud asks the device to restart (or to switch off), or to
\* activate again, which erases its log-in information in flash first.
RebootCommand ==
  /\ communicateStep = 1
  /\ events < MaxEvents
  /\ events' = events + 1
  /\ activated' \in {activated, FALSE}

-----------------------------------------------------------------------------
(* NETWORK_WORK_STEP__INIT. *)

\* device_reboot_module_4g_communication_process: ping the server over the
\* session that may have outlived the reboot, and wait for the answer.
PingStep(ret, step) ==
  \/ communicateStep # 0 /\ ret = "DISCONNECT" /\ step = 0
  \/ communicateStep = 0 /\ ret = "WAIT" /\ step = 1
  \/ communicateStep = 1 /\ ret = "WAIT" /\ step \in {1, 2}
  \/ communicateStep = 1 /\ ret = "END" /\ step = 1
  \/ communicateStep = 2 /\ ret = "WAIT" /\ step \in {1, 2}

InitPing(ret) ==
  /\ NO_POWER_OFF
  /\ \E step \in 0 .. 2 :
       /\ PingStep(ret, step)
       /\ communicateStep' = step
       /\ cb' = CASE ret = "DISCONNECT" -> FALSE
                  [] ret = "END"        -> TRUE
                  [] OTHER              -> cb \/ communicateStep = 0
  /\ netWork' = CASE ret = "DISCONNECT" -> "NETCONFIG"
                  [] ret = "END"        -> "NORMAL"
                  [] OTHER              -> "INIT"

\* A command other than the answer to the ping is obeyed, then taken for a
\* failed ping: a firmware update stays pending through the reconnection.
InitOtaCommand ==
  /\ InitPing("DISCONNECT")
  /\ communicateStep = 1
  /\ events < MaxEvents
  /\ events' = events + 1
  /\ otaFlag' = TRUE

InitStep ==
  /\ netWork = "INIT"
  /\ power' = TRUE
  /\ \/ \E ret \in {"WAIT", "DISCONNECT", "END"} :
          InitPing(ret) /\ UNCHANGED <<otaFlag, events>>
     \/ InitOtaCommand
     \/ /\ ~NO_POWER_OFF
        /\ netWork' = "NETCONFIG"
        /\ UNCHANGED <<communicateStep, cb, otaFlag, events>>
  /\ net4g_process_retry_times' = 0
  /\ UNCHANGED <<net4g_process_route_retry_times, net4G_wait_report_delay,
                 active_route_step, error, fw_step, ota_start_delay_time,
                 lendTimeout_wait_time, batLendingFlag, activated, failures>>

InitReboot ==
  /\ netWork = "INIT"
  /\ RebootCommand
  /\ device_reboot

-----------------------------------------------------------------------------
(* NETCONFIG, ACTIVE_ROUTE and LOGIN: tables of AT commands. *)

ConfigStep ==
  /\ netWork = "NETCONFIG"
  /\ netWork' \in {"NETCONFIG", "ACTIVE_ROUTE", "ERROR"}
  /\ UNCHANGED <<link, retry, net4G_wait_report_delay, active_route_step, error,
                 fw_step, ota, activated, events, failures>>

\* Failed routings and log-ins are counted up to SLOW_AT.
CountRoute(done) ==
  /\ net4g_process_route_retry_times' =
       IF done THEN 0
       ELSE IF net4g_process_route_retry_times + 1 >= SLOW_AT THEN SLOW_AT
       ELSE net4g_process_route_retry_times + 1
  /\ failures' = IF done THEN 0
                 ELSE IF failures < MaxFailures THEN failures + 1 ELSE failures

\* Faulty variant: a failed activation goes on to the routing.
ActivateAnyway ==
  /\ active_route_step = "ACTIVE"
  /\ active_route_step' \in {"ACTIVE", "ROUTE"}
  /\ activated' \in {active_route_step' = "ROUTE", FALSE}

\* An activation that fails is tried again; one that succeeds is in flash.
Activate ==
  /\ active_route_step = "ACTIVE"
  /\ active_route_step' \in {"ACTIVE", "ROUTE"}
  /\ activated' = (active_route_step' = "ROUTE")

\* module_4g_active_route_process
ActiveRouteStep ==
  /\ netWork = "ACTIVE_ROUTE"
  /\ \/ /\ active_route_step = "CHECK"
        /\ active_route_step' = IF activated THEN "ROUTE" ELSE "ACTIVE"
        /\ UNCHANGED <<netWork, activated, net4g_process_route_retry_times, failures>>
     \/ /\ Activate
        /\ UNCHANGED <<netWork, net4g_process_route_retry_times, failures>>
     \/ /\ active_route_step = "ROUTE"
        /\ active_route_step' \in {"ROUTE", "END"}
        /\ UNCHANGED <<netWork, activated, net4g_process_route_retry_times, failures>>
     \/ /\ active_route_step = "ROUTE"
        /\ active_route_step' = "CHECK"
        /\ netWork' = "ERROR"
        /\ CountRoute(FALSE)
        /\ UNCHANGED activated
     \/ /\ active_route_step = "END"
        /\ active_route_step' = "CHECK"
        /\ netWork' = "LOGIN"
        /\ net4g_process_route_retry_times' = 0
        /\ UNCHANGED <<activated, failures>>
  /\ UNCHANGED <<link, net4g_process_retry_times, net4G_wait_report_delay, error,
                 fw_step, ota, events>>

LoginStep ==
  /\ netWork = "LOGIN"
  /\ \/ netWork' = "LOGIN" /\ UNCHANGED <<net4g_process_route_retry_times, failures>>
     \/ netWork' = "NORMAL" /\ CountRoute(TRUE)
     \/ netWork' = "ERROR" /\ CountRoute(FALSE)
  /\ UNCHANGED <<link, net4g_process_retry_times, net4G_wait_report_delay,
                 active_route_step, error, fw_step, ota, activated, events>>

-----------------------------------------------------------------------------
(* NETWORK_WORK_STEP__NORMAL. *)

\* Faulty variants: the count is not reset when the download starts; a
\* lending holds the countdown for as long as it lasts.
OtaCountdownNoReset(net) ==
  \/ /\ ~(otaFlag /\ ~batLendingFlag)
     /\ net = "NORMAL"
     /\ UNCHANGED <<ota_start_delay_time, lendTimeout_wait_time, batLendingFlag>>
  \/ /\ otaFlag /\ ~batLendingFlag
     /\ net = IF ota_start_delay_time = OTA_GO THEN "OTA" ELSE "NORMAL"
     /\ ota_start_delay_time' = ota_start_delay_time + 1
     /\ UNCHANGED <<lendTimeout_wait_time, batLendingFlag>>

OtaCountdownWaitsForever(net) ==
  \/ /\ ~(otaFlag /\ ~batLendingFlag)
     /\ net = "NORMAL"
     /\ UNCHANGED <<ota_start_delay_time, lendTimeout_wait_time, batLendingFlag>>
  \/ /\ otaFlag /\ ~batLendingFlag
     /\ net = IF ota_start_delay_time = OTA_GO THEN "OTA" ELSE "NORMAL"
     /\ ota_start_delay_time' = IF ota_start_delay_time = OTA_GO
                                THEN 1 ELSE ota_start_delay_time + 1
     /\ UNCHANGED <<lendTimeout_wait_time, batLendingFlag>>

\* The OTA block of module_4g_communication_process: the countdown stands
\* still while a lending is in progress, but not for ever.  net is the step
\* the block leaves behind.
OtaCountdown(net) ==
  \/ /\ ~otaFlag
     /\ net = "NORMAL"
     /\ UNCHANGED <<ota_start_delay_time, lendTimeout_wait_time, batLendingFlag>>
  \/ /\ otaFlag /\ batLendingFlag
     /\ net = "NORMAL"
     /\ lendTimeout_wait_time' = IF lendTimeout_wait_time >= LEND_WAIT
                                 THEN 0 ELSE lendTimeout_wait_time + 1
     /\ batLendingFlag' = (lendTimeout_wait_time < LEND_WAIT)
     /\ UNCHANGED ota_start_delay_time
  \/ /\ otaFlag /\ ~batLendingFlag
     /\ net = IF ota_start_delay_time = OTA_GO THEN "OTA" ELSE "NORMAL"
     /\ ota_start_delay_time' = IF ota_start_delay_time = OTA_GO
                                THEN 1 ELSE ota_start_delay_time + 1
     /\ UNCHANGED <<lendTimeout_wait_time, batLendingFlag>>

\* The switch: what a cloud command asks for, or what the send machine
\* returns.
SwitchStep(ret, step) ==
  \/ communicateStep = 0 /\ ret = "WAIT" /\ step = 1
  \/ communicateStep = 1 /\ ret = "WAIT" /\ step \in {1, 2}
  \/ communicateStep = 1 /\ ret \in {"WIFI", "OTA_CMD"} /\ step = 1
  \/ communicateStep = 2 /\ ret = "WAIT" /\ step \in {1, 2}
  \/ communicateStep \in {1, 2} /\ ret = "DISCONNECT" /\ step = 0

\* Faulty variants: the callback stays registered; the loop resumes where it
\* was without registering it again.
DisconnectedKeepsCallback ==
  /\ net4g_process_retry_times + 1 < DISCONNECTS
  /\ netWork' = "NETCONFIG"
  /\ power' = TRUE
  /\ communicateStep' = 0
  /\ net4g_process_retry_times' = net4g_process_retry_times + 1
  /\ UNCHANGED cb

DisconnectedKeepsStep ==
  /\ net4g_process_retry_times + 1 < DISCONNECTS
  /\ netWork' = "NETCONFIG"
  /\ cb' = FALSE
  /\ power' = TRUE
  /\ net4g_process_retry_times' = net4g_process_retry_times + 1
  /\ UNCHANGED communicateStep

\* PROCESS_NET_DISCONNECT: configure again, or reboot at the DISCONNECTS-th time
\* since start-up.
Disconnected ==
  /\ net4g_process_retry_times + 1 < DISCONNECTS
  /\ netWork' = "NETCONFIG"
  /\ cb' = FALSE
  /\ power' = TRUE
  /\ communicateStep' = 0
  /\ net4g_process_retry_times' = net4g_process_retry_times + 1

\* net4G_wait_report_delay after a call: a WiFi command restarts it.
ReportDelay(ret) ==
  IF ret = "WIFI" THEN 2
  ELSE IF net4G_wait_report_delay > 0 THEN net4G_wait_report_delay + 1 ELSE 0

\* The scan of the FIFO returned 10: nothing else of the call happens.
NormalLost ==
  /\ netWork = "NORMAL"
  /\ communicateStep # 0
  /\ Disconnected
  /\ ReportDelay("DISCONNECT") < REPORT_DELAY
  /\ net4G_wait_report_delay' = ReportDelay("DISCONNECT")
  /\ UNCHANGED <<net4g_process_route_retry_times, active_route_step, error, fw_step,
                 ota, activated, events, failures>>

NormalSwitch(ret, step, net) ==
  /\ netWork = "NORMAL"
  /\ OtaCountdown(net)
  /\ SwitchStep(ret, step)
  /\ ret \in {"WIFI", "OTA_CMD"} => events < MaxEvents
  /\ events' = IF ret \in {"WIFI", "OTA_CMD"} THEN events + 1 ELSE events
  /\ otaFlag' = (otaFlag \/ ret = "OTA_CMD")
  /\ IF ret = "DISCONNECT"
     THEN Disconnected
     ELSE /\ netWork' = net
          /\ communicateStep' = step
          /\ cb' = (cb \/ communicateStep = 0)
          /\ UNCHANGED <<power, net4g_process_retry_times>>
  /\ ReportDelay(ret) < REPORT_DELAY
  /\ net4G_wait_report_delay' = ReportDelay(ret)
  /\ UNCHANGED <<net4g_process_route_retry_times, active_route_step, error, fw_step,
                 activated, failures>>

\* Reboots of the normal state: one disconnection too many, the end of the
\* delay before the switch to WiFi, or a cloud command.
NormalReboot ==
  /\ netWork = "NORMAL"
  /\ \/ /\ communicateStep # 0 /\ net4g_process_retry_times + 1 >= DISCONNECTS
        /\ UNCHANGED <<activated, events>>
     \/ /\ ReportDelay("WAIT") >= REPORT_DELAY
        /\ UNCHANGED <<activated, events>>
     \/ RebootCommand
  /\ device_reboot

NormalStep ==
  \/ NormalLost
  \/ \E ret \in {"WAIT", "WIFI", "OTA_CMD", "DISCONNECT"}, step \in 0 .. 2,
        net \in {"NORMAL", "OTA"} : NormalSwitch(ret, step, net)
  \/ NormalReboot

-----------------------------------------------------------------------------
(* NETWORK_WORK_STEP__OTA and NETWORK_WORK_STEP__ERROR. *)

\* module_4g_fw_download_process; the download itself is external.  Done,
\* the caller installs the firmware and restarts; failed, the device reboots.
OtaStep ==
  /\ netWork = "OTA"
  /\ \/ /\ fw_step = "INIT"
        /\ fw_step' \in {"DATA", "END"}
        /\ cb' = FALSE
        /\ UNCHANGED <<netWork, communicateStep, power, retry, net4G_wait_report_delay,
                       active_route_step, error, ota, activated, events, failures>>
     \/ /\ fw_step = "DATA"
        /\ fw_step' \in {"DATA", "END"}
        /\ UNCHANGED <<netWork, link, retry, net4G_wait_report_delay,
                       active_route_step, error, ota, activated, events, failures>>
     \/ /\ fw_step \in {"DATA", "END"}
        /\ device_reboot
        /\ UNCHANGED <<activated, events>>

\* How long module_4g_error_handle_process keeps the modem off.
WaitOver(t) ==
  IF net4g_process_route_retry_times < MEDIUM_AT THEN t = WAIT_SHORT
  ELSE IF net4g_process_route_retry_times < SLOW_AT THEN t = WAIT_MEDIUM
  ELSE t >= WAIT_LONG

\* Faulty variant: the count starts again with every call.
ErrorWaitNotStatic ==
  /\ work_steps = 1
  /\ wait_timeout' = 1
  /\ work_steps' = IF WaitOver(1) THEN 2 ELSE 1

ErrorWait ==
  /\ work_steps = 1
  /\ wait_timeout' = wait_timeout + 1
  /\ work_steps' = IF WaitOver(wait_timeout + 1) THEN 2 ELSE 1

ErrorStep ==
  /\ netWork = "ERROR"
  /\ \/ /\ work_steps = 0
        /\ power' = FALSE
        /\ work_steps' = 1
        /\ UNCHANGED <<netWork, communicateStep, cb, retry, net4G_wait_report_delay,
                       active_route_step, wait_timeout, fw_step, ota, activated,
                       events, failures>>
     \/ /\ ErrorWait
        /\ UNCHANGED <<netWork, link, retry, net4G_wait_report_delay,
                       active_route_step, fw_step, ota, activated, events, failures>>
     \/ /\ work_steps = 2
        /\ device_reboot
        /\ UNCHANGED <<activated, events>>

net4G_work_process ==
  /\ \/ InitStep \/ InitReboot \/ ConfigStep \/ ActiveRouteStep \/ LoginStep
     \/ NormalStep \/ OtaStep \/ ErrorStep
  /\ UNCHANGED NO_POWER_OFF

\* The slot tasks start a lending, the cloud's answer ends it (external).
Lend ==
  /\ events < MaxEvents
  /\ ~batLendingFlag
  /\ batLendingFlag' = TRUE
  /\ events' = events + 1
  /\ UNCHANGED <<NO_POWER_OFF, netWork, link, retry, net4G_wait_report_delay,
                 active_route_step, error, fw_step, otaFlag, ota_start_delay_time, lendTimeout_wait_time,
                 activated, failures>>

LendDone ==
  /\ netWork = "NORMAL"
  /\ batLendingFlag
  /\ batLendingFlag' = FALSE
  /\ UNCHANGED <<NO_POWER_OFF, netWork, link, retry, net4G_wait_report_delay,
                 active_route_step, error, fw_step, otaFlag, ota_start_delay_time, lendTimeout_wait_time,
                 activated, events, failures>>

Next == net4G_work_process \/ Lend \/ LendDone

Spec == Init /\ [][Next]_vars

\* The network task keeps calling net4G_work_process; the network, the
\* server and the user owe nothing.
FairSpec == Spec /\ WF_vars(net4G_work_process)

-----------------------------------------------------------------------------
AtSteps == {"NETCONFIG", "ACTIVE_ROUTE", "LOGIN"}

TypeOK ==
  /\ NO_POWER_OFF \in BOOLEAN
  /\ netWork \in AtSteps \cup {"INIT", "NORMAL", "OTA", "ERROR"}
  /\ communicateStep \in 0 .. 2
  /\ cb \in BOOLEAN
  /\ power \in BOOLEAN
  /\ net4g_process_retry_times \in 0 .. DISCONNECTS - 1
  /\ net4g_process_route_retry_times \in 0 .. SLOW_AT
  /\ net4G_wait_report_delay \in 0 .. REPORT_DELAY - 1
  /\ active_route_step \in {"CHECK", "ACTIVE", "ROUTE", "END"}
  /\ work_steps \in 0 .. 2
  /\ wait_timeout \in 0 .. WAIT_LONG
  /\ fw_step \in {"INIT", "DATA", "END"}
  /\ otaFlag \in BOOLEAN
  /\ ota_start_delay_time \in 0 .. OTA_GO
  /\ lendTimeout_wait_time \in 0 .. LEND_WAIT
  /\ batLendingFlag \in BOOLEAN
  /\ activated \in BOOLEAN
  /\ events \in 0 .. MaxEvents
  /\ failures \in 0 .. MaxFailures

\* at_cmd_send_check reads the UART itself, so an AT step works only with the
\* modem powered and the receive callback unregistered: whatever path led
\* there, no earlier step left the callback stealing its answers.
ReadyForAt == netWork \in AtSteps => power /\ ~cb

\* Past case 0 the communication loops rely on the callback to fill the FIFO:
\* with it missing the device would sit deaf in normal state.
ListensWhenCommunicating ==
  netWork \in {"INIT", "NORMAL"} /\ communicateStep # 0 => power /\ cb

\* A device that still has to be activated never talks to the server as if
\* it were: log-in, normal state and update follow a successful activation.
\* (A start-up ping is answered only over the session of an activated device.)
LoginIsActivated == netWork = "LOGIN" => activated

\* The wait after an error ends although its conditions are equalities on a
\* counter and the tiers are chosen by another counter.
ErrorEnds == netWork = "ERROR" ~> netWork # "ERROR"

\* A pending firmware update, or a pending switch to WiFi, ends the normal
\* state: neither a lending that is never returned nor traffic starves it
\* (further commands are finitely many: each WiFi command restarts its delay).
PendingLeavesNormal ==
  (netWork = "NORMAL" /\ (otaFlag \/ net4G_wait_report_delay > 0)) ~> netWork # "NORMAL"

\* "wait 10s", "wait 5min": after MEDIUM_AT failures in a row to reach the
\* server the modem stays off for more than the short wait.
BackOffGrows ==
  work_steps = 2 /\ failures >= MEDIUM_AT => wait_timeout >= WAIT_MEDIUM
=============================================================================
