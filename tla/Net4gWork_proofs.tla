-------------------------- MODULE Net4gWork_proofs --------------------------
(***************************************************************************)
(* Proofs about the top-level loop: its counters keep their ranges, the AT *)
(* steps find the modem powered and the UART free, the communication loops *)
(* find the callback registered, and nobody logs in before the activation. *)
(***************************************************************************)
EXTENDS Net4gWork, TLAPS

-----------------------------------------------------------------------------
(* The invariant. *)

\* Where the callback is registered and the modem powered.
LinkInv ==
  /\ netWork \in AtSteps => power /\ ~cb /\ communicateStep = 0
  /\ netWork = "NORMAL" => power
  /\ netWork \in {"INIT", "NORMAL"} /\ communicateStep # 0 => power /\ cb
  /\ netWork = "INIT" /\ communicateStep = 0 => ~cb
  /\ netWork = "INIT" /\ ~NO_POWER_OFF => communicateStep = 0

\* Routing follows an activation, log-in a routing.
ActivatedInv ==
  /\ active_route_step \in {"ROUTE", "END"} => activated
  /\ netWork = "LOGIN" => activated

\* The wait after an error has not passed the limit its tier sets, so that the
\* tests for equality are met.
WaitInv ==
  /\ work_steps = 0 => wait_timeout = 0
  /\ work_steps # 0 => netWork = "ERROR"
  /\ work_steps = 1 /\ net4g_process_route_retry_times < MEDIUM_AT => wait_timeout < WAIT_SHORT
  /\ work_steps = 1 /\ net4g_process_route_retry_times < SLOW_AT => wait_timeout < WAIT_MEDIUM
  /\ work_steps = 1 => wait_timeout < WAIT_LONG

\* The two halves of TypeOK.
FlagsOK ==
  /\ NO_POWER_OFF \in BOOLEAN /\ cb \in BOOLEAN /\ power \in BOOLEAN
  /\ otaFlag \in BOOLEAN /\ batLendingFlag \in BOOLEAN /\ activated \in BOOLEAN

RangesOK ==
  /\ netWork \in AtSteps \cup {"INIT", "NORMAL", "OTA", "ERROR"}
  /\ communicateStep \in 0 .. 2
  /\ net4g_process_retry_times \in 0 .. DISCONNECTS - 1
  /\ net4g_process_route_retry_times \in 0 .. SLOW_AT
  /\ net4G_wait_report_delay \in 0 .. REPORT_DELAY - 1
  /\ active_route_step \in {"CHECK", "ACTIVE", "ROUTE", "END"}
  /\ work_steps \in 0 .. 2
  /\ wait_timeout \in 0 .. WAIT_LONG
  /\ fw_step \in {"INIT", "DATA", "END"}
  /\ ota_start_delay_time \in 0 .. OTA_GO
  /\ lendTimeout_wait_time \in 0 .. LEND_WAIT
  /\ events \in 0 .. MaxEvents
  /\ failures \in 0 .. MaxFailures

Inv == FlagsOK /\ RangesOK /\ LinkInv /\ ActivatedInv /\ WaitInv

LEMMA InvStarts == ASSUME Init PROVE Inv
<1>1. FlagsOK
  <2>1. Builds \subseteq BOOLEAN
    BY WorkAssumption
  <2> QED
    BY <2>1, Zenon DEF Init, FlagsOK
<1>2. RangesOK
  BY WorkAssumption DEF Init, RangesOK, AtSteps
<1>3. LinkInv
  BY DEF Init, LinkInv, AtSteps
<1>4. ActivatedInv
  BY DEF Init, ActivatedInv
<1>5. WaitInv
  BY DEF Init, WaitInv
<1> QED
  BY <1>1, <1>2, <1>3, <1>4, <1>5 DEF Inv

-----------------------------------------------------------------------------
(* Steps. *)

LEMMA RebootKeeps ==
  ASSUME Inv, device_reboot, UNCHANGED NO_POWER_OFF,
         activated' \in BOOLEAN, events' \in 0 .. MaxEvents
  PROVE  Inv'
<1>0. FlagsOK'
  BY Zenon DEF Inv, FlagsOK, device_reboot
<1>1. RangesOK'
  BY WorkAssumption DEF Inv, RangesOK, device_reboot, AtSteps
<1>2. LinkInv'
  BY DEF device_reboot, LinkInv, AtSteps
<1>3. ActivatedInv'
  BY DEF device_reboot, ActivatedInv
<1>4. WaitInv'
  BY DEF device_reboot, WaitInv
<1> QED
  BY <1>0, <1>1, <1>2, <1>3, <1>4 DEF Inv

LEMMA CommandTyped ==
  ASSUME Inv, RebootCommand
  PROVE  activated' \in BOOLEAN /\ events' \in 0 .. MaxEvents
<1>1. activated' \in BOOLEAN
  BY Zenon DEF Inv, FlagsOK, RebootCommand
<1>2. events' \in 0 .. MaxEvents
  BY WorkAssumption DEF Inv, RangesOK, RebootCommand
<1> QED
  BY <1>1, <1>2

\* What a step of the ping at start-up leaves.
LEMMA PingLeaves ==
  ASSUME Inv, netWork = "INIT", NEW ret \in {"WAIT", "DISCONNECT", "END"}, InitPing(ret)
  PROVE  /\ NO_POWER_OFF
         /\ \/ /\ netWork' = "NETCONFIG" /\ communicateStep' = 0 /\ cb' = FALSE
            \/ /\ netWork' \in {"INIT", "NORMAL"} /\ communicateStep' \in {1, 2}
               /\ cb' = TRUE
<1>1. PICK step \in 0 .. 2 :
        /\ PingStep(ret, step) /\ communicateStep' = step
        /\ cb' = CASE ret = "DISCONNECT" -> FALSE
                   [] ret = "END"        -> TRUE
                   [] OTHER              -> cb \/ communicateStep = 0
  BY Zenon DEF InitPing
<1>2. NO_POWER_OFF /\ netWork' = CASE ret = "DISCONNECT" -> "NETCONFIG"
                                   [] ret = "END"        -> "NORMAL"
                                   [] OTHER              -> "INIT"
  BY Zenon DEF InitPing
<1>3. "DISCONNECT" # "END" /\ "DISCONNECT" # "WAIT" /\ "WAIT" # "END"
  OBVIOUS
<1>4. CASE ret = "DISCONNECT"
  <2>1. netWork' = "NETCONFIG" /\ cb' = FALSE
    BY <1>1, <1>2, <1>3, <1>4, Zenon
  <2>2. step = 0
    BY <1>1, <1>4 DEF PingStep
  <2> QED
    BY <1>1, <1>2, <2>1, <2>2
<1>5. CASE ret = "END"
  <2>1. netWork' = "NORMAL" /\ cb' = TRUE
    BY <1>1, <1>2, <1>3, <1>5, Zenon
  <2>2. step = 1
    BY <1>1, <1>5 DEF PingStep
  <2> QED
    BY <1>1, <1>2, <2>1, <2>2
<1>6. CASE ret = "WAIT"
  <2>1. netWork' = "INIT" /\ cb' = (cb \/ communicateStep = 0)
    BY <1>1, <1>2, <1>3, <1>6, Zenon
  <2>2. step \in {1, 2}
    BY <1>1, <1>6 DEF PingStep
  <2>3. communicateStep # 0 => cb
    BY DEF Inv, LinkInv
  <2>4. cb' = TRUE
    BY <2>1, <2>3, Zenon DEF Inv, FlagsOK
  <2> QED
    BY <1>1, <1>2, <2>1, <2>2, <2>4
<1> QED
  BY <1>4, <1>5, <1>6

LEMMA InitStepKeeps ==
  ASSUME Inv, InitStep, UNCHANGED NO_POWER_OFF
  PROVE  Inv'
<1>0. /\ netWork = "INIT" /\ power' = TRUE /\ net4g_process_retry_times' = 0
      /\ UNCHANGED <<net4g_process_route_retry_times, net4G_wait_report_delay,
                     active_route_step, work_steps, wait_timeout, fw_step,
                     ota_start_delay_time, lendTimeout_wait_time, batLendingFlag,
                     activated, failures>>
  BY DEF InitStep, error
<1> DEFINE Left == \/ /\ netWork' = "NETCONFIG" /\ communicateStep' = 0 /\ cb' = FALSE
                   \/ /\ netWork' \in {"INIT", "NORMAL"} /\ communicateStep' \in {1, 2}
                      /\ cb' = TRUE /\ NO_POWER_OFF
<1>1. Left /\ otaFlag' \in BOOLEAN /\ events' \in 0 .. MaxEvents
  <2>1. CASE \E ret \in {"WAIT", "DISCONNECT", "END"} :
               InitPing(ret) /\ UNCHANGED <<otaFlag, events>>
    <3>1. Left
      BY <1>0, <2>1, PingLeaves
    <3> QED
      BY <2>1, <3>1 DEF Inv, FlagsOK, RangesOK
  <2>2. CASE InitOtaCommand
    <3>1. InitPing("DISCONNECT") /\ events' \in 0 .. MaxEvents /\ otaFlag' \in BOOLEAN
      BY <2>2, WorkAssumption DEF InitOtaCommand, Inv, RangesOK
    <3>2. Left
      BY <1>0, <3>1, PingLeaves
    <3> QED
      BY <3>1, <3>2
  <2>3. CASE /\ ~NO_POWER_OFF
             /\ netWork' = "NETCONFIG"
             /\ UNCHANGED <<communicateStep, cb, otaFlag, events>>
    BY <1>0, <2>3 DEF Inv, FlagsOK, RangesOK, LinkInv
  <2> QED
    BY <2>1, <2>2, <2>3 DEF InitStep
<1> HIDE DEF Left
<1>2. FlagsOK'
  <2>1. cb' \in BOOLEAN /\ power' \in BOOLEAN
    BY <1>0, <1>1, Zenon DEF Left
  <2> QED
    BY <1>0, <1>1, <2>1, Zenon DEF Inv, FlagsOK
<1>5. RangesOK'
  <2>1. /\ netWork' \in AtSteps \cup {"INIT", "NORMAL", "OTA", "ERROR"}
        /\ communicateStep' \in 0 .. 2
    BY <1>1 DEF Left, AtSteps
  <2> QED
    BY <1>0, <1>1, <2>1, WorkAssumption DEF Inv, RangesOK
<1>3. LinkInv'
  BY <1>0, <1>1 DEF Left, LinkInv, AtSteps
<1>4. ActivatedInv' /\ WaitInv'
  <2>1. netWork' # "LOGIN"
    BY <1>1 DEF Left
  <2>2. work_steps = 0
    BY <1>0 DEF Inv, WaitInv
  <2> QED
    BY <1>0, <2>1, <2>2 DEF Inv, ActivatedInv, WaitInv
<1> QED
  BY <1>2, <1>3, <1>4, <1>5 DEF Inv

LEMMA ConfigStepKeeps ==
  ASSUME Inv, ConfigStep, UNCHANGED NO_POWER_OFF
  PROVE  Inv'
<1> USE DEF ConfigStep, link, retry, error, ota, AtSteps, Inv
<1>1. FlagsOK'
  BY DEF FlagsOK
<1>5. RangesOK'
  BY DEF RangesOK
<1>2. LinkInv'
  BY DEF LinkInv
<1>3. ActivatedInv'
  BY DEF ActivatedInv
<1>4. WaitInv'
  BY DEF WaitInv
<1> QED
  BY <1>1, <1>2, <1>3, <1>4, <1>5

LEMMA CountTyped ==
  ASSUME Inv, NEW done, CountRoute(done)
  PROVE  /\ net4g_process_route_retry_times' \in 0 .. SLOW_AT
         /\ failures' \in 0 .. MaxFailures
BY WorkAssumption DEF Inv, RangesOK, CountRoute

LEMMA ActiveRouteStepKeeps ==
  ASSUME Inv, ActiveRouteStep, UNCHANGED NO_POWER_OFF
  PROVE  Inv'
<1>0. /\ netWork = "ACTIVE_ROUTE"
      /\ UNCHANGED <<communicateStep, cb, power, net4g_process_retry_times,
                     net4G_wait_report_delay, work_steps, wait_timeout, fw_step, otaFlag,
                     ota_start_delay_time, lendTimeout_wait_time, batLendingFlag, events>>
  BY DEF ActiveRouteStep, link, error, ota
<1>1. /\ net4g_process_route_retry_times' \in 0 .. SLOW_AT /\ failures' \in 0 .. MaxFailures
      /\ netWork' \in {"ACTIVE_ROUTE", "LOGIN", "ERROR"}
      /\ active_route_step' \in {"CHECK", "ACTIVE", "ROUTE", "END"} /\ activated' \in BOOLEAN
  <2>1. net4g_process_route_retry_times' \in 0 .. SLOW_AT /\ failures' \in 0 .. MaxFailures
    <3>1. \/ UNCHANGED <<net4g_process_route_retry_times, failures>>
          \/ CountRoute(FALSE)
          \/ net4g_process_route_retry_times' = 0 /\ UNCHANGED failures
      BY DEF ActiveRouteStep
    <3> QED
      <4>1. CASE CountRoute(FALSE)
        BY <4>1, CountTyped
      <4>2. CASE UNCHANGED <<net4g_process_route_retry_times, failures>>
        BY <4>2 DEF Inv, RangesOK
      <4>3. CASE net4g_process_route_retry_times' = 0 /\ UNCHANGED failures
        BY <4>3, WorkAssumption DEF Inv, RangesOK
      <4> QED
        BY <3>1, <4>1, <4>2, <4>3
  <2>2. netWork' \in {"ACTIVE_ROUTE", "LOGIN", "ERROR"}
    BY DEF ActiveRouteStep
  <2>3. active_route_step' \in {"CHECK", "ACTIVE", "ROUTE", "END"}
    BY DEF ActiveRouteStep, Activate
  <2>4. activated' \in BOOLEAN
    <3>1. UNCHANGED activated \/ activated' = (active_route_step' = "ROUTE")
      BY DEF ActiveRouteStep, Activate
    <3> QED
      BY <3>1, Zenon DEF Inv, FlagsOK
  <2> QED
    BY <2>1, <2>2, <2>3, <2>4
<1>2. ActivatedInv'
  BY DEF ActiveRouteStep, Activate, Inv, RangesOK, ActivatedInv
<1>3. FlagsOK'
  BY <1>0, <1>1 DEF Inv, FlagsOK
<1>4. RangesOK'
  BY <1>0, <1>1 DEF Inv, RangesOK, AtSteps
<1>5. LinkInv'
  BY <1>0, <1>1 DEF Inv, LinkInv, AtSteps
<1>6. WaitInv'
  BY <1>0 DEF Inv, WaitInv
<1> QED
  BY <1>2, <1>3, <1>4, <1>5, <1>6 DEF Inv

LEMMA LoginStepKeeps ==
  ASSUME Inv, LoginStep, UNCHANGED NO_POWER_OFF
  PROVE  Inv'
<1>0. /\ netWork = "LOGIN" /\ netWork' \in {"LOGIN", "NORMAL", "ERROR"}
      /\ UNCHANGED <<communicateStep, cb, power, net4g_process_retry_times,
                     net4G_wait_report_delay, active_route_step, work_steps, wait_timeout,
                     fw_step, otaFlag, ota_start_delay_time, lendTimeout_wait_time,
                     batLendingFlag, activated, events>>
  BY DEF LoginStep, link, error, ota
<1>1. net4g_process_route_retry_times' \in 0 .. SLOW_AT /\ failures' \in 0 .. MaxFailures
  <2>1. \/ UNCHANGED <<net4g_process_route_retry_times, failures>>
        \/ CountRoute(FALSE) \/ CountRoute(TRUE)
    BY DEF LoginStep
  <2> QED
    BY <2>1, CountTyped DEF Inv, RangesOK
<1>2. FlagsOK'
  BY <1>0 DEF Inv, FlagsOK
<1>3. RangesOK'
  BY <1>0, <1>1 DEF Inv, RangesOK, AtSteps
<1>4. LinkInv' /\ ActivatedInv'
  BY <1>0 DEF Inv, LinkInv, ActivatedInv, AtSteps
<1>5. WaitInv'
  BY <1>0 DEF Inv, WaitInv
<1> QED
  BY <1>2, <1>3, <1>4, <1>5 DEF Inv

-----------------------------------------------------------------------------
(* Normal state. *)

\* The delay before the switch to WiFi stays below its end.
LEMMA DelayTyped ==
  ASSUME Inv, NEW ret, ReportDelay(ret) < REPORT_DELAY
  PROVE  ReportDelay(ret) \in 0 .. REPORT_DELAY - 1
BY WorkAssumption DEF Inv, RangesOK, ReportDelay

\* A disconnection that leads to the network configuration.
LEMMA DisconnectedLeaves ==
  ASSUME Inv, Disconnected
  PROVE  /\ netWork' = "NETCONFIG" /\ communicateStep' = 0
         /\ cb' = FALSE /\ power' = TRUE
         /\ net4g_process_retry_times' \in 0 .. DISCONNECTS - 1
BY WorkAssumption DEF Inv, RangesOK, Disconnected

\* What a call in normal state that does not reboot must leave.
LEMMA NormalKeeps ==
  ASSUME Inv, netWork = "NORMAL",
         \/ netWork' = "NETCONFIG" /\ communicateStep' = 0 /\ cb' = FALSE /\ power' = TRUE
         \/ /\ netWork' \in {"NORMAL", "OTA"} /\ communicateStep' \in {1, 2}
            /\ cb' = TRUE /\ power' = TRUE,
         net4g_process_retry_times' \in 0 .. DISCONNECTS - 1,
         net4G_wait_report_delay' \in 0 .. REPORT_DELAY - 1,
         ota_start_delay_time' \in 0 .. OTA_GO, lendTimeout_wait_time' \in 0 .. LEND_WAIT,
         batLendingFlag' \in BOOLEAN, otaFlag' \in BOOLEAN, events' \in 0 .. MaxEvents,
         UNCHANGED <<NO_POWER_OFF, net4g_process_route_retry_times, active_route_step,
                     work_steps, wait_timeout, fw_step, activated, failures>>
  PROVE  Inv'
<1>1. FlagsOK'
  BY Zenon DEF Inv, FlagsOK
<1>2. RangesOK'
  <2>1. /\ netWork' \in AtSteps \cup {"INIT", "NORMAL", "OTA", "ERROR"}
        /\ communicateStep' \in 0 .. 2
    BY DEF AtSteps
  <2> QED
    BY <2>1 DEF Inv, RangesOK
<1>3. LinkInv'
  BY DEF LinkInv, AtSteps
<1>4. ActivatedInv'
  BY DEF Inv, ActivatedInv
<1>5. WaitInv'
  BY DEF Inv, WaitInv
<1> QED
  BY <1>1, <1>2, <1>3, <1>4, <1>5 DEF Inv

LEMMA CountdownTyped ==
  ASSUME Inv, NEW net, OtaCountdown(net)
  PROVE  /\ net \in {"NORMAL", "OTA"}
         /\ ota_start_delay_time' \in 0 .. OTA_GO
         /\ lendTimeout_wait_time' \in 0 .. LEND_WAIT
         /\ batLendingFlag' \in BOOLEAN
<1>1. net \in {"NORMAL", "OTA"}
  BY DEF OtaCountdown
<1>2. ota_start_delay_time' \in 0 .. OTA_GO
  BY WorkAssumption DEF Inv, RangesOK, OtaCountdown
<1>3. lendTimeout_wait_time' \in 0 .. LEND_WAIT
  BY WorkAssumption DEF Inv, RangesOK, OtaCountdown
<1>4. batLendingFlag' \in BOOLEAN
  <2>1. \/ UNCHANGED batLendingFlag
        \/ batLendingFlag' = (lendTimeout_wait_time < LEND_WAIT)
    BY DEF OtaCountdown
  <2>2. (lendTimeout_wait_time < LEND_WAIT) \in BOOLEAN
    BY WorkAssumption DEF Inv, RangesOK
  <2> QED
    BY <2>1, <2>2 DEF Inv, FlagsOK
<1> QED
  BY <1>1, <1>2, <1>3, <1>4

LEMMA NormalLostKeeps ==
  ASSUME Inv, NormalLost, UNCHANGED NO_POWER_OFF
  PROVE  Inv'
<1>1. /\ netWork = "NORMAL" /\ Disconnected
      /\ ReportDelay("DISCONNECT") < REPORT_DELAY
      /\ net4G_wait_report_delay' = ReportDelay("DISCONNECT")
      /\ UNCHANGED <<net4g_process_route_retry_times, active_route_step, work_steps,
                     wait_timeout, fw_step, otaFlag, ota_start_delay_time,
                     lendTimeout_wait_time, batLendingFlag, activated, events, failures>>
  BY DEF NormalLost, error, ota
<1>2. net4G_wait_report_delay' \in 0 .. REPORT_DELAY - 1
  BY <1>1, DelayTyped
<1>3. /\ ota_start_delay_time' \in 0 .. OTA_GO /\ lendTimeout_wait_time' \in 0 .. LEND_WAIT
      /\ batLendingFlag' \in BOOLEAN /\ otaFlag' \in BOOLEAN /\ events' \in 0 .. MaxEvents
  BY <1>1 DEF Inv, FlagsOK, RangesOK
<1> QED
  BY <1>1, <1>2, <1>3, DisconnectedLeaves, NormalKeeps

LEMMA NormalSwitchKeeps ==
  ASSUME Inv, NEW ret, NEW step \in 0 .. 2, NEW net, NormalSwitch(ret, step, net),
         UNCHANGED NO_POWER_OFF
  PROVE  Inv'
<1>1. /\ netWork = "NORMAL" /\ OtaCountdown(net) /\ SwitchStep(ret, step)
      /\ ReportDelay(ret) < REPORT_DELAY
      /\ net4G_wait_report_delay' = ReportDelay(ret)
      /\ UNCHANGED <<net4g_process_route_retry_times, active_route_step, work_steps,
                     wait_timeout, fw_step, activated, failures>>
  BY DEF NormalSwitch, error
<1>2. net4G_wait_report_delay' \in 0 .. REPORT_DELAY - 1
  BY <1>1, DelayTyped
<1>3. events' \in 0 .. MaxEvents
  BY WorkAssumption DEF NormalSwitch, Inv, RangesOK
<1>4. otaFlag' \in BOOLEAN
  BY Zenon DEF NormalSwitch, Inv, FlagsOK
<1>5. CASE ret = "DISCONNECT"
  <2>1. Disconnected
    BY <1>5 DEF NormalSwitch
  <2> QED
    BY <1>1, <1>2, <1>3, <1>4, <2>1, DisconnectedLeaves, CountdownTyped, NormalKeeps
<1>6. CASE ret # "DISCONNECT"
  <2>1. /\ netWork' = net /\ communicateStep' = step
        /\ cb' = (cb \/ communicateStep = 0)
        /\ UNCHANGED <<power, net4g_process_retry_times>>
    BY <1>6 DEF NormalSwitch
  <2>2. step \in {1, 2}
    BY <1>1, <1>6 DEF SwitchStep
  <2>3. power' = TRUE
    <3>1. power
      BY <1>1 DEF Inv, LinkInv
    <3> QED
      BY <2>1, <3>1, Zenon DEF Inv, FlagsOK
  <2>4. cb' = TRUE
    <3>1. cb \/ communicateStep = 0
      BY <1>1 DEF Inv, LinkInv
    <3> QED
      BY <2>1, <3>1, Zenon DEF Inv, FlagsOK
  <2>5. net4g_process_retry_times' \in 0 .. DISCONNECTS - 1
    BY <2>1 DEF Inv, RangesOK
  <2>6. net \in {"NORMAL", "OTA"}
    BY <1>1, CountdownTyped
  <2> QED
    BY <1>1, <1>2, <1>3, <1>4, <2>1, <2>2, <2>3, <2>4, <2>5, <2>6, CountdownTyped, NormalKeeps
<1> QED
  BY <1>5, <1>6

LEMMA NormalRebootKeeps ==
  ASSUME Inv, NormalReboot, UNCHANGED NO_POWER_OFF
  PROVE  Inv'
<1>1. activated' \in BOOLEAN /\ events' \in 0 .. MaxEvents
  <2>1. CASE UNCHANGED <<activated, events>>
    BY <2>1 DEF Inv, FlagsOK, RangesOK
  <2>2. CASE RebootCommand
    BY <2>2, CommandTyped
  <2> QED
    BY <2>1, <2>2 DEF NormalReboot
<1>2. device_reboot
  BY DEF NormalReboot
<1> QED
  BY <1>1, <1>2, RebootKeeps

-----------------------------------------------------------------------------
(* Update, error and lending. *)

LEMMA OtaStepKeeps ==
  ASSUME Inv, OtaStep, UNCHANGED NO_POWER_OFF
  PROVE  Inv'
<1>1. CASE device_reboot /\ UNCHANGED <<activated, events>>
  BY <1>1, RebootKeeps DEF Inv, FlagsOK, RangesOK
<1>2. CASE /\ netWork = "OTA" /\ fw_step' \in {"DATA", "END"} /\ cb' \in {cb, FALSE}
           /\ UNCHANGED <<netWork, communicateStep, power, retry, net4G_wait_report_delay,
                          active_route_step, error, ota, activated, events, failures>>
  <2>1. FlagsOK'
    BY <1>2, Zenon DEF Inv, FlagsOK, ota
  <2>2. RangesOK'
    BY <1>2 DEF Inv, RangesOK, retry, error, ota, AtSteps
  <2>3. LinkInv'
    BY <1>2 DEF LinkInv, AtSteps
  <2>4. ActivatedInv' /\ WaitInv'
    BY <1>2 DEF Inv, ActivatedInv, WaitInv, retry, error
  <2> QED
    BY <2>1, <2>2, <2>3, <2>4 DEF Inv
<1> QED
  BY <1>1, <1>2 DEF OtaStep, link

LEMMA ErrorStepKeeps ==
  ASSUME Inv, ErrorStep, UNCHANGED NO_POWER_OFF
  PROVE  Inv'
<1>1. CASE device_reboot /\ UNCHANGED <<activated, events>>
  BY <1>1, RebootKeeps DEF Inv, FlagsOK, RangesOK
<1>2. ASSUME netWork = "ERROR", power' \in {power, FALSE}, work_steps' \in 0 .. 2,
             wait_timeout' \in 0 .. WAIT_LONG, WaitInv',
             UNCHANGED <<netWork, communicateStep, cb, retry, net4G_wait_report_delay,
                         active_route_step, fw_step, ota, activated, events, failures>>
      PROVE  Inv'
  <2>1. FlagsOK'
    BY <1>2, Zenon DEF Inv, FlagsOK, ota
  <2>2. RangesOK'
    BY <1>2 DEF Inv, RangesOK, retry, ota, AtSteps
  <2>3. LinkInv'
    BY <1>2 DEF LinkInv, AtSteps
  <2>4. ActivatedInv'
    BY <1>2 DEF Inv, ActivatedInv
  <2> QED
    BY <1>2, <2>1, <2>2, <2>3, <2>4 DEF Inv
<1>3. CASE work_steps = 0
  <2>1. /\ netWork = "ERROR" /\ power' = FALSE /\ work_steps' = 1
        /\ UNCHANGED <<netWork, communicateStep, cb, retry, net4G_wait_report_delay,
                       active_route_step, wait_timeout, fw_step, ota, activated,
                       events, failures>>
    BY <1>3 DEF ErrorStep, ErrorWait
  <2>2. WaitInv'
    BY <1>3, <2>1, WorkAssumption DEF Inv, RangesOK, WaitInv, retry
  <2>3. wait_timeout' \in 0 .. WAIT_LONG /\ work_steps' \in 0 .. 2
    BY <2>1 DEF Inv, RangesOK
  <2> QED
    BY <1>2, <2>1, <2>2, <2>3
<1>4. CASE work_steps = 1
  <2>1. /\ netWork = "ERROR" /\ ErrorWait
        /\ UNCHANGED <<netWork, link, retry, net4G_wait_report_delay,
                       active_route_step, fw_step, ota, activated, events, failures>>
    BY <1>4 DEF ErrorStep
  <2>2. wait_timeout' = wait_timeout + 1 /\ wait_timeout' \in 0 .. WAIT_LONG
    BY <1>4, <2>1, WorkAssumption DEF ErrorWait, Inv, WaitInv, RangesOK
  <2>3. work_steps' \in {1, 2}
    BY <2>1 DEF ErrorWait
  <2>4. WaitInv'
    <3>1. CASE work_steps' = 2
      BY <2>1, <3>1 DEF WaitInv
    <3>2. CASE work_steps' = 1
      <4>1. ~WaitOver(wait_timeout + 1)
        BY <2>1, <3>2 DEF ErrorWait
      <4>2. UNCHANGED net4g_process_route_retry_times
        BY <2>1 DEF retry
      <4> QED
        BY <1>4, <2>1, <2>2, <3>2, <4>1, <4>2, WorkAssumption
           DEF WaitOver, Inv, WaitInv, RangesOK
    <3> QED
      BY <2>3, <3>1, <3>2
  <2> QED
    BY <1>2, <2>1, <2>2, <2>3, <2>4 DEF link
<1> QED
  BY <1>1, <1>3, <1>4 DEF ErrorStep, ErrorWait

LEMMA LendKeeps ==
  ASSUME Inv, Lend \/ LendDone
  PROVE  Inv'
<1>1. /\ batLendingFlag' \in BOOLEAN /\ events' \in 0 .. MaxEvents
      /\ UNCHANGED <<NO_POWER_OFF, netWork, link, retry, net4G_wait_report_delay,
                     active_route_step, error, fw_step, otaFlag, ota_start_delay_time,
                     lendTimeout_wait_time, activated, failures>>
  <2>1. CASE Lend
    BY <2>1, WorkAssumption DEF Lend, Inv, RangesOK
  <2>2. CASE LendDone
    BY <2>2 DEF LendDone, Inv, RangesOK
  <2> QED
    BY <2>1, <2>2
<1>2. FlagsOK'
  BY <1>1 DEF Inv, FlagsOK, link
<1>3. RangesOK'
  BY <1>1 DEF Inv, RangesOK, link, retry, error, AtSteps
<1>4. LinkInv' /\ ActivatedInv' /\ WaitInv'
  BY <1>1 DEF Inv, LinkInv, ActivatedInv, WaitInv, link, retry, error, AtSteps
<1> QED
  BY <1>2, <1>3, <1>4 DEF Inv

LEMMA InvStep ==
  ASSUME Inv, [Next]_vars
  PROVE  Inv'
<1>1. CASE InitReboot /\ UNCHANGED NO_POWER_OFF
  BY <1>1, CommandTyped, RebootKeeps DEF InitReboot
<1>2. CASE NormalStep /\ UNCHANGED NO_POWER_OFF
  BY <1>2, NormalLostKeeps, NormalSwitchKeeps, NormalRebootKeeps DEF NormalStep
<1>3. CASE net4G_work_process
  BY <1>1, <1>2, <1>3, InitStepKeeps, ConfigStepKeeps, ActiveRouteStepKeeps, LoginStepKeeps,
     OtaStepKeeps, ErrorStepKeeps DEF net4G_work_process
<1>4. CASE UNCHANGED vars
  <2>1. FlagsOK' /\ RangesOK'
    BY <1>4 DEF vars, Inv, FlagsOK, RangesOK, AtSteps
  <2>2. LinkInv' /\ ActivatedInv' /\ WaitInv'
    BY <1>4 DEF vars, Inv, LinkInv, ActivatedInv, WaitInv, AtSteps
  <2> QED
    BY <2>1, <2>2 DEF Inv
<1> QED
  BY <1>3, <1>4, LendKeeps DEF Next

-----------------------------------------------------------------------------
(* Theorems. *)

(* The invariant holds for every build and every choice of the limits.       *)
THEOREM WorkInvariant == Spec => []Inv
<1>1. Init => Inv
  BY InvStarts
<1>2. Inv /\ [Next]_vars => Inv'
  BY InvStep
<1> QED
  BY <1>1, <1>2, PTL DEF Spec

(* Every variable of the loop keeps its type and range: above all the wait   *)
(* after an error never passes the limit at which it ends, although the      *)
(* limit is tested by equality.                                              *)
THEOREM WorkTypes == Spec => []TypeOK
<1>1. Inv => TypeOK
  BY DEF Inv, FlagsOK, RangesOK, TypeOK
<1> QED
  BY <1>1, WorkInvariant, PTL

(* An AT step finds the modem powered and the UART to itself.                *)
THEOREM AtStepsReady == Spec => []ReadyForAt
<1>1. Inv => ReadyForAt
  BY DEF Inv, LinkInv, ReadyForAt
<1> QED
  BY <1>1, WorkInvariant, PTL

(* The communication loops find the callback registered.                     *)
THEOREM LoopsListen == Spec => []ListensWhenCommunicating
<1>1. Inv => ListensWhenCommunicating
  BY DEF Inv, LinkInv, ListensWhenCommunicating
<1> QED
  BY <1>1, WorkInvariant, PTL

(* Nobody logs in before the device is activated.                            *)
THEOREM LogInAfterActivation == Spec => []LoginIsActivated
<1>1. Inv => LoginIsActivated
  BY DEF Inv, ActivatedInv, LoginIsActivated
<1> QED
  BY <1>1, WorkInvariant, PTL
=============================================================================
