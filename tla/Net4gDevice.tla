---------------------------- MODULE Net4gDevice ----------------------------
(***************************************************************************)
(* The device as the cloud sees it: activation, routing and log-in         *)
(* (Net4gActive) and the commands obeyed in normal state (Net4gCmd) share  *)
(* the log-in information, the configuration and the flash (Net4gFlash);   *)
(* a restart or a loss of power clears the RAM of both.                    *)
(***************************************************************************)
EXTENDS Net4gCmd

vars == <<activeVars, cmdVars, flashVars>>

Init == ActiveInit /\ CmdInit

\* The handlers of the commands run to their end before the task goes on.
Connect == Returned /\ ActiveNext /\ UNCHANGED cmdVars

Save == ActiveSave /\ UNCHANGED cmdVars

\* InfoDeviceConfigDataPubTopic, once the writes before it are done.
Report ==
  /\ report /\ Idle
  /\ report' = FALSE
  /\ reported' = <<gSysInfo_struct>>
  /\ UNCHANGED <<activeVars, flashVars, CloudopCode, UartSendBuf, filling, events,
                 wait_report, taken, acted, msgs>>

\* The delay before the switch to WiFi is over: the modem is disconnected and
\* switched off.  The WiFi task is external; the device comes back to 4G.
WifiSwitch ==
  /\ netWork = "NORMAL" /\ wait_report /\ Returned /\ Idle
  /\ netWork' = "REBOOT" /\ session' = NoKey
  /\ UNCHANGED <<family, active_route_step, deviceActive, connectRoute, cloudLogin, tries,
                 gSysLoginInfo, gSysInfo_struct, cloud, history, faults, flashVars, cmdVars>>

Restart(fl) ==
  /\ ActiveBoot(fl)
  /\ CmdBoot
  /\ reported' = IF fl["CONFIG"] = Torn THEN <<>> ELSE reported
  /\ UNCHANGED msgs

\* The modem, switched off in the error state only, may keep its session.
device_reboot ==
  /\ netWork \in {"ERROR", "REBOOT"} /\ Returned /\ Idle
  /\ Restart(flash)
  /\ UNCHANGED <<flashVars, session, faults>>

PowerLoss ==
  /\ Fault(TRUE)
  /\ FlashCut
  /\ Restart(flash')
  /\ session' = NoKey

\* The task behind Wt_NodeEvent_Ff takes an event.
TakeEvent ==
  /\ events # <<>>
  /\ events' = Tail(events)
  /\ UNCHANGED <<activeVars, flashVars, CloudopCode, UartSendBuf, filling, report,
                 wait_report, taken, acted, reported, msgs>>

\* Net4gPub's loop goes on; nothing changes here.
Communicate == netWork = "NORMAL" /\ Idle /\ UNCHANGED vars

Task == Connect \/ Save \/ Report \/ SlotProcess \/ WifiSwitch \/ device_reboot

Next == Task \/ RspAnalyze \/ PowerLoss \/ TakeEvent \/ Communicate

Spec == Init /\ [][Next]_vars

\* The task is scheduled again and again; faults and commands are not forced.
FairSpec == Spec /\ WF_vars(Task)

\* Every variable has its type: the rows of the three walks stay inside their
\* tables, the attempts of a command within retry_times, and numbers, payloads and
\* queued events are ones a command brought.
TypeOK == ActiveTypeOK /\ CmdTypeOK
=============================================================================
