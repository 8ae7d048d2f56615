---------------------------- MODULE Net4gActive ----------------------------
(***************************************************************************)
(* Activation, routing and log-in: module_4g_active_route_process,         *)
(* device_active_process, device_route_process and                         *)
(* module_4g_cloud_logIn_process, which walk the tables of Net4gTables one *)
(* AT command per call, and the callbacks that interpret the HTTP answers. *)
(*                                                                         *)
(* Activation has two stages.  In the first the cloud issues a key, kept   *)
(* in flash with activeFlag 0xBB; in the second the device confirms it,    *)
(* and keeps 0xAA.  Everything may be cut short: a command without an      *)
(* answer, an answer that does not decode, a wrong signature, a refusal, a *)
(* loss of power, also in the middle of a flash write.                     *)
(*                                                                         *)
(* A device that restarts first asks the modem, which may have kept its    *)
(* session, for a ping, and is back in normal state with the answer.  The  *)
(* steps before activation are those of Net4gConfig and are left out.      *)
(* External are the cloud, check_active_or_route and the code that reads   *)
(* the flash at start-up.                                                  *)
(***************************************************************************)
EXTENDS Naturals, Net4gTables, Net4gFlash

CONSTANTS
  Families,     \* the builds: a subset of ModuleTypes
  Keys,         \* device keys the cloud can issue
  NoKey,        \* an erased key
  BadKeys,      \* keys of answers with a wrong signature, and mixtures of keys
  Length,       \* strlen of a key
  RETRY,        \* retry_times of the commands that read an HTTP answer (3)
  MaxFaults     \* bound on everything that goes wrong

\* The log-in information: activeFlag is 0xBB after the first stage and 0xAA
\* after the second.
AllKeys == Keys \cup BadKeys \cup {NoKey}
Infos == [activeFlag : {"0", "BB", "AA"}, key : AllKeys]

ASSUME ActiveAssumption ==
  /\ Torn \notin Infos
  /\ Families \subseteq ModuleTypes
  /\ NoKey \notin Keys \cup BadKeys
  /\ BadKeys \cap Keys = {}
  /\ Length \in [AllKeys -> Nat] /\ Length[NoKey] = 0
  /\ RETRY \in Nat \ {0}
  /\ MaxFaults \in Nat

VARIABLES
  family,                  \* NET_4G_MODULE_TYPE; never changes
  netWork,                 \* "INIT", "ACTIVE_ROUTE", "LOGIN", "NORMAL", "ERROR",
                           \* or "REBOOT": device_reboot is about to be called
  active_route_step,       \* static of module_4g_active_route_process
  deviceActive, connectRoute, cloudLogin,     \* net4G_process_steps
  tries,                   \* attempts at_cmd_send_check has made of this command
  gSysLoginInfo,           \* activeFlag and keys, in RAM
  gSysInfo_struct,         \* the configuration, in RAM
  rsp,                     \* the HTTP answer the modem holds
  session,                 \* key of the MQTT session the modem has, or NoKey
  confirmed, revoked,      \* the cloud: keys confirmed, keys to be replaced
  mainTorn,                \* history: a write of LOGIN was torn
  loggedIn,                \* history: key of the last log-in, NoKey after a
                           \* command to activate again
  erasing,                 \* history: key that command is erasing
  faults

process == <<netWork, active_route_step, deviceActive, connectRoute, cloudLogin, tries>>
cloud   == <<rsp, confirmed, revoked>>
history == <<mainTorn, loggedIn, erasing>>
activeVars == <<family, netWork, active_route_step, deviceActive, connectRoute,
                cloudLogin, tries, gSysLoginInfo, gSysInfo_struct, rsp, session, confirmed,
                revoked, mainTorn, loggedIn, erasing, faults>>

Info(flag, key) == [activeFlag |-> flag, key |-> key]
Erased == Info("0", NoKey)

\* The settings the commands of Net4gCmd and the callbacks below change.  A
\* password stands for the ssid it was set for; cubbyInterval is 1800
\* ("default"), another value between 300 and 0xffff, or one outside.
DefaultConf ==
  [activeFlag |-> "0", wifiEnableFlag |-> FALSE, wifiConfigFlag |-> FALSE,
   ssid |-> "", password |-> "", cubbyInterval |-> "default"]

Normalised(conf) ==
  IF conf.cubbyInterval = "outside" THEN [conf EXCEPT !.cubbyInterval = "default"] ELSE conf

NoRsp == [kind |-> "none"]

ActiveInit ==
  /\ family \in Families
  /\ netWork = "INIT" /\ active_route_step = "CHECK"
  /\ deviceActive = 0 /\ connectRoute = 0 /\ cloudLogin = 0 /\ tries = 0
  /\ gSysLoginInfo = Erased /\ gSysInfo_struct = DefaultConf
  /\ flash = [LOGIN |-> Erased, LOGIN_BACK |-> Erased, CONFIG |-> DefaultConf]
  /\ writes = <<>>
  /\ rsp = NoRsp /\ session = NoKey
  /\ confirmed = {} /\ revoked = {}
  /\ mainTorn = FALSE /\ loggedIn = NoKey /\ erasing = NoKey
  /\ faults = 0

Fault(happens) ==
  IF happens THEN faults < MaxFaults /\ faults' = faults + 1 ELSE UNCHANGED faults

\* What the start-up code finds in flash fl: the copy if the original is torn.
StoredInfo(fl) ==
  IF fl["LOGIN"] # Torn THEN fl["LOGIN"]
  ELSE IF fl["LOGIN_BACK"] # Torn THEN fl["LOGIN_BACK"] ELSE Erased

StoredConf(fl) == IF fl["CONFIG"] # Torn THEN fl["CONFIG"] ELSE DefaultConf

-----------------------------------------------------------------------------
(* device_active_process. *)


\* The first stage is skipped if it is done, but only at the start of a pass.
ActiveRow ==
  IF gSysLoginInfo.activeFlag = "BB" /\ deviceActive = 0
  THEN ConfirmRow[family] ELSE deviceActive

ActiveStep == ActiveSteps[family][ActiveRow + 1]

\* Take the jump to a row; on success go on to routing, on error begin again.
ActiveJump(row) ==
  LET id == ActiveSteps[family][row + 1].id IN
  /\ deviceActive' = IF id \in {"SUCCESS", "ERROR"} THEN 0 ELSE row
  /\ active_route_step' = IF id = "SUCCESS" THEN "ROUTE" ELSE "ACTIVE"
  /\ tries' = 0

\* Faulty variant: the attempts of a command are not limited.
ActiveAttemptUnlimited(ok) ==
  IF ok THEN ActiveJump(ActiveStep.s_jump)
  ELSE tries' = tries + 1 /\ UNCHANGED <<deviceActive, active_route_step>>

\* at_cmd_send_check with a callback: another attempt unless it returned AT_OK.
ActiveAttempt(ok) ==
  IF ok \/ tries + 1 = RETRY
  THEN ActiveJump(IF ok THEN ActiveStep.s_jump ELSE ActiveStep.f_jump)
  ELSE tries' = tries + 1 /\ UNCHANGED <<deviceActive, active_route_step>>

\* A command that only configures the modem, with all its attempts.
ActiveCommand ==
  /\ ActiveStep.id \notin {"SET_CONNECT_URL", "GET_HTTP_RSP", "CONFIRM_CONNECT_URL",
                           "CONFIRM_GET_HTTP_RSP"}
  /\ \E ok \in BOOLEAN :
       Fault(~ok) /\ ActiveJump(IF ok THEN ActiveStep.s_jump ELSE ActiveStep.f_jump)
  /\ UNCHANGED <<gSysLoginInfo, gSysInfo_struct, writes, cloud>>

\* The request for a key; the cloud may have served a request that failed here.
ActiveConnect ==
  /\ ActiveStep.id = "SET_CONNECT_URL"
  /\ \E ok \in BOOLEAN :
       /\ Fault(~ok)
       /\ ActiveJump(IF ok THEN ActiveStep.s_jump ELSE ActiveStep.f_jump)
       /\ \/ \E k \in Keys \ revoked : rsp' = [kind |-> "active", key |-> k]
          \/ ~ok /\ UNCHANGED rsp
  /\ UNCHANGED <<gSysLoginInfo, gSysInfo_struct, writes, confirmed, revoked>>

\* strlen bytes are copied over the key in RAM, without a terminator: of a longer
\* one the rest stays.
Copied(old, new) ==
  IF Length[new] >= Length[old] THEN {new}
  ELSE {mixed \in BadKeys \cup {old} : Length[mixed] = Length[old]}

\* net4g_active_post_rsp_cb: the keys are taken over before the signature is
\* checked, against what RAM then holds; the flag only if it is right.
net4g_active_post_rsp_cb ==
  /\ ActiveStep.id = "GET_HTTP_RSP"
  /\ \/ /\ Fault(TRUE)                              \* no data, or not decoded
        /\ ActiveAttempt(FALSE)
        /\ UNCHANGED <<gSysLoginInfo, writes>>
     \/ /\ Fault(TRUE)                              \* wrong signature
        /\ \E bad \in BadKeys : \E copied \in Copied(gSysLoginInfo.key, bad) :
             gSysLoginInfo' = [gSysLoginInfo EXCEPT !.key = copied]
        /\ ActiveAttempt(FALSE)
        /\ UNCHANGED writes
     \/ /\ rsp.kind = "active"
        /\ \E copied \in Copied(gSysLoginInfo.key, rsp.key) :
             IF copied = rsp.key
             THEN /\ gSysLoginInfo' = Info("BB", copied)
                  /\ writes' = <<"LOGIN", "LOGIN_BACK">>
                  /\ ActiveAttempt(TRUE)
             ELSE /\ gSysLoginInfo' = [gSysLoginInfo EXCEPT !.key = copied]
                  /\ ActiveAttempt(FALSE)
                  /\ UNCHANGED writes
        /\ UNCHANGED faults
  /\ UNCHANGED <<gSysInfo_struct, cloud>>

\* The confirmation of the key; the cloud refuses one it did not issue, and
\* may refuse another.
ActiveConfirmConnect ==
  /\ ActiveStep.id = "CONFIRM_CONNECT_URL"
  /\ \E ok, success \in BOOLEAN :
       /\ Fault(~ok \/ ~success)
       /\ ActiveJump(IF ok THEN ActiveStep.s_jump ELSE ActiveStep.f_jump)
       /\ success => gSysLoginInfo.key \in Keys
       /\ \/ /\ rsp' = [kind |-> "confirm", success |-> success]
             /\ confirmed' = IF success THEN confirmed \cup {gSysLoginInfo.key} ELSE confirmed
          \/ ~ok /\ UNCHANGED <<rsp, confirmed>>
  /\ UNCHANGED <<gSysLoginInfo, gSysInfo_struct, writes, revoked>>

\* Faulty variant: any answer that decodes confirms the key.
confirm_rsp_cb_unchecked ==
  /\ ActiveStep.id = "CONFIRM_GET_HTTP_RSP"
  /\ rsp.kind = "confirm"
  /\ gSysLoginInfo' = [gSysLoginInfo EXCEPT !.activeFlag = "AA"]
  /\ gSysInfo_struct' = [gSysInfo_struct EXCEPT !.activeFlag = "AA"]
  /\ writes' = <<"LOGIN", "LOGIN_BACK", "CONFIG">>
  /\ ActiveAttempt(TRUE)
  /\ UNCHANGED <<faults, cloud>>

\* Faulty variant: the confirmed flag is saved in the copy only.
ConfirmWritesCopy == <<"LOGIN_BACK", "CONFIG">>

\* What is saved when the key is confirmed, in this order.
ConfirmWrites == <<"LOGIN", "LOGIN_BACK", "CONFIG">>

\* net4g_active_confirm_rsp_cb: a refusal clears the flag in RAM only.
net4g_active_confirm_rsp_cb ==
  /\ ActiveStep.id = "CONFIRM_GET_HTTP_RSP"
  /\ \/ /\ Fault(TRUE)                              \* no data, or not decoded
        /\ ActiveAttempt(FALSE)
        /\ UNCHANGED <<gSysLoginInfo, gSysInfo_struct, writes>>
     \/ /\ rsp.kind = "confirm" /\ rsp.success
        /\ gSysLoginInfo' = [gSysLoginInfo EXCEPT !.activeFlag = "AA"]
        /\ gSysInfo_struct' = [gSysInfo_struct EXCEPT !.activeFlag = "AA"]
        /\ writes' = ConfirmWrites
        /\ ActiveAttempt(TRUE)
        /\ UNCHANGED faults
     \/ /\ rsp.kind = "confirm" /\ ~rsp.success
        /\ gSysLoginInfo' = [gSysLoginInfo EXCEPT !.activeFlag = "0"]
        /\ ActiveAttempt(FALSE)
        /\ UNCHANGED <<gSysInfo_struct, writes, faults>>
  /\ UNCHANGED cloud

\* An activation that ends in error begins again at the next call: the result
\* of device_active_process is looked at for success only.
device_active_process ==
  /\ active_route_step = "ACTIVE"
  /\ \/ ActiveCommand
     \/ ActiveConnect
     \/ net4g_active_post_rsp_cb
     \/ ActiveConfirmConnect
     \/ net4g_active_confirm_rsp_cb
  /\ UNCHANGED <<netWork, connectRoute, cloudLogin>>

-----------------------------------------------------------------------------
(* device_route_process. *)

RouteStep == RouteSteps[family][connectRoute + 1]

RouteJump(row) ==
  LET id == RouteSteps[family][row + 1].id IN
  /\ connectRoute' = IF id \in {"SUCCESS", "ERROR"} THEN 0 ELSE row
  /\ active_route_step' = CASE id = "SUCCESS" -> "END"
                            [] id = "ERROR"   -> "CHECK"
                            [] OTHER          -> "ROUTE"
  /\ netWork' = IF id = "ERROR" THEN "ERROR" ELSE netWork
  /\ tries' = 0

RouteAttempt(ok) ==
  IF ok \/ tries + 1 = RETRY
  THEN RouteJump(IF ok THEN RouteStep.s_jump ELSE RouteStep.f_jump)
  ELSE tries' = tries + 1 /\ UNCHANGED <<connectRoute, active_route_step, netWork>>

RouteCommand ==
  /\ RouteStep.id \notin {"CONNECT_URL", "GET_HTTP_RSP"}
  /\ \E ok \in BOOLEAN :
       Fault(~ok) /\ RouteJump(IF ok THEN RouteStep.s_jump ELSE RouteStep.f_jump)
  /\ UNCHANGED <<gSysLoginInfo, gSysInfo_struct, rsp>>

RouteConnect ==
  /\ RouteStep.id = "CONNECT_URL"
  /\ \E ok, reactive \in BOOLEAN :
       /\ Fault(~ok \/ reactive)
       /\ RouteJump(IF ok THEN RouteStep.s_jump ELSE RouteStep.f_jump)
       /\ \/ rsp' = [kind |-> "route", reactive |-> reactive]
          \/ ~ok /\ UNCHANGED rsp
  /\ UNCHANGED <<gSysLoginInfo, gSysInfo_struct>>

\* device_route_rsp_cb: the reporting interval is put in order, in RAM only; the
\* demand to activate again clears the flag, in RAM only, and fails the routing.
device_route_rsp_cb ==
  /\ RouteStep.id = "GET_HTTP_RSP"
  /\ \/ /\ Fault(TRUE)                              \* no data, or not decoded
        /\ RouteAttempt(FALSE)
        /\ UNCHANGED <<gSysLoginInfo, gSysInfo_struct>>
     \/ /\ rsp.kind = "route" /\ rsp.reactive
        /\ gSysInfo_struct' = Normalised(gSysInfo_struct)
        /\ gSysLoginInfo' = [gSysLoginInfo EXCEPT !.activeFlag = "0"]
        /\ RouteAttempt(FALSE)
        /\ UNCHANGED faults
     \/ /\ rsp.kind = "route" /\ ~rsp.reactive
        /\ gSysInfo_struct' = Normalised(gSysInfo_struct)
        /\ RouteAttempt(TRUE)
        /\ UNCHANGED <<gSysLoginInfo, faults>>
  /\ UNCHANGED rsp

device_route_process ==
  /\ active_route_step = "ROUTE"
  /\ RouteCommand \/ RouteConnect \/ device_route_rsp_cb
  /\ UNCHANGED <<deviceActive, cloudLogin, writes, confirmed, revoked>>

-----------------------------------------------------------------------------
(* The processes around them. *)

\* check_active_or_route looks at the flag in RAM or in flash.
check_active_or_route ==
  /\ active_route_step = "CHECK"
  /\ \E info \in {gSysLoginInfo, StoredInfo(flash)} :
       active_route_step' = IF info.activeFlag = "AA" THEN "ROUTE" ELSE "ACTIVE"
  /\ UNCHANGED <<netWork, deviceActive, connectRoute, cloudLogin, tries, gSysLoginInfo,
                 gSysInfo_struct, writes, cloud, faults>>

RouteEnd ==
  /\ active_route_step = "END"
  /\ active_route_step' = "CHECK" /\ netWork' = "LOGIN"
  /\ UNCHANGED <<deviceActive, connectRoute, cloudLogin, tries, gSysLoginInfo,
                 gSysInfo_struct, writes, cloud, faults>>

module_4g_active_route_process ==
  /\ netWork = "ACTIVE_ROUTE"
  /\ \/ check_active_or_route
     \/ device_active_process
     \/ device_route_process
     \/ RouteEnd
  /\ UNCHANGED <<history, session>>

LoginJump(row) ==
  LET id == SignInSteps[family][row + 1].id IN
  /\ cloudLogin' = IF id \in {"SUCCESS", "ERROR"} THEN 0 ELSE row
  /\ netWork' = CASE id = "SUCCESS" -> "NORMAL"
                  [] id = "ERROR"   -> "ERROR"
                  [] OTHER          -> "LOGIN"
  /\ IF id = "SUCCESS" THEN loggedIn' = gSysLoginInfo.key /\ session' = gSysLoginInfo.key
                       ELSE UNCHANGED <<loggedIn, session>>

module_4g_cloud_logIn_process ==
  /\ netWork = "LOGIN"
  /\ LET step == SignInSteps[family][cloudLogin + 1] IN
     \E ok \in BOOLEAN : Fault(~ok) /\ LoginJump(IF ok THEN step.s_jump ELSE step.f_jump)
  /\ UNCHANGED <<active_route_step, deviceActive, connectRoute, tries, gSysLoginInfo,
                 gSysInfo_struct, writes, cloud, mainTorn, erasing>>

\* The start-up ping fails: the modem has lost its session with its power or in the
\* meantime, or nobody answers.  On by way of the network configuration.
PingFails ==
  /\ netWork = "INIT"
  /\ netWork' = "ACTIVE_ROUTE" /\ session' = NoKey
  /\ UNCHANGED <<active_route_step, deviceActive, connectRoute, cloudLogin, tries,
                 gSysLoginInfo, gSysInfo_struct, writes, cloud, history, faults>>

\* A disconnection leads back here by way of the network configuration, which ends
\* the session; the second one in a row restarts the device instead.
Disconnect ==
  /\ netWork = "NORMAL"
  /\ Fault(TRUE)
  /\ \/ netWork' = "ACTIVE_ROUTE" /\ session' = NoKey
     \/ netWork' = "REBOOT" /\ UNCHANGED session
  /\ UNCHANGED <<active_route_step, deviceActive, connectRoute, cloudLogin, tries,
                 gSysLoginInfo, gSysInfo_struct, writes, cloud, history>>

\* Commands are looked at in normal state and, by the process that waits for the
\* start-up ping, in a device restarted on a modem that kept its session; those
\* for another key are not known.
Addressed == netWork \in {"INIT", "NORMAL"} /\ session # NoKey /\ session = gSysLoginInfo.key

\* Faulty variant: the copy is erased and the original is not.
ReactivateErasesCopy ==
  /\ Addressed
  /\ Keys \ (revoked \cup {gSysLoginInfo.key}) # {}
  /\ gSysLoginInfo' = Erased
  /\ writes' = <<"LOGIN_BACK">>
  /\ netWork' = "REBOOT"
  /\ erasing' = gSysLoginInfo.key /\ loggedIn' = NoKey
  /\ UNCHANGED <<family, active_route_step, deviceActive, connectRoute, cloudLogin, tries,
                 gSysInfo_struct, flash, cloud, session, mainTorn, faults>>

\* RspAnalyze, device command 14: erase the log-in information, save, reboot.
\* The copy is not erased.
Reactivate ==
  /\ Addressed
  /\ Keys \ (revoked \cup {gSysLoginInfo.key}) # {}
  /\ gSysLoginInfo' = Erased
  /\ writes' = <<"LOGIN">>
  /\ netWork' = "REBOOT"
  /\ erasing' = gSysLoginInfo.key /\ loggedIn' = NoKey
  /\ UNCHANGED <<family, active_route_step, deviceActive, connectRoute, cloudLogin, tries,
                 gSysInfo_struct, flash, cloud, session, mainTorn, faults>>

\* The task's part of a step, while no flash write is going on.
ActiveNext ==
  /\ Idle
  /\ \/ module_4g_active_route_process
     \/ module_4g_cloud_logIn_process
     \/ PingFails
     \/ Disconnect
  /\ UNCHANGED <<family, flash>>

\* The key is out of use once the erased information is in flash.
ActiveSave ==
  /\ FlashWrite([LOGIN |-> gSysLoginInfo, LOGIN_BACK |-> gSysLoginInfo,
                 CONFIG |-> gSysInfo_struct])
  /\ revoked' = revoked \cup ({erasing} \ {NoKey})
  /\ erasing' = NoKey
  /\ UNCHANGED <<family, process, gSysLoginInfo, gSysInfo_struct, rsp, session, confirmed,
                 mainTorn, loggedIn, faults>>

\* RAM after a start-up from flash fl.
ActiveBoot(fl) ==
  /\ netWork' = "INIT" /\ active_route_step' = "CHECK"
  /\ deviceActive' = 0 /\ connectRoute' = 0 /\ cloudLogin' = 0 /\ tries' = 0
  /\ gSysLoginInfo' = StoredInfo(fl) /\ gSysInfo_struct' = StoredConf(fl)
  /\ mainTorn' = (mainTorn \/ fl["LOGIN"] = Torn)
  /\ erasing' = NoKey
  /\ UNCHANGED <<family, cloud, loggedIn>>

-----------------------------------------------------------------------------
(* Properties. *)

ActiveTypeOK ==
  /\ family \in Families
  /\ netWork \in {"INIT", "ACTIVE_ROUTE", "LOGIN", "NORMAL", "ERROR", "REBOOT"}
  /\ active_route_step \in {"CHECK", "ACTIVE", "ROUTE", "END"}
  /\ deviceActive \in 0 .. Len(ActiveSteps[family]) - 3
  /\ connectRoute \in 0 .. Len(RouteSteps[family]) - 3
  /\ cloudLogin \in 0 .. Len(SignInSteps[family]) - 3
  /\ tries \in 0 .. RETRY - 1
  /\ gSysLoginInfo \in Infos /\ session \in AllKeys
  /\ confirmed \subseteq Keys /\ revoked \subseteq Keys
  /\ mainTorn \in BOOLEAN
  /\ loggedIn \in Keys \cup {NoKey} /\ erasing \in Keys \cup {NoKey}
  /\ faults \in 0 .. MaxFaults

(* No copy of the log-in information, in RAM or in flash, says 0xAA of a key *)
(* the cloud has not confirmed, whatever answers, refusals, signatures and   *)
(* losses of power the two stages of the activation went through; and a key  *)
(* that is marked at all is one the cloud issued, although the callback      *)
(* takes keys over before it checks their signature.                         *)
ActivatedIsConfirmed ==
  \A info \in {gSysLoginInfo, flash["LOGIN"], flash["LOGIN_BACK"]} \ {Torn} :
    /\ info.activeFlag = "AA" => info.key \in confirmed
    /\ info.activeFlag = "BB" => info.key \in Keys

(* A device that has logged in and was not told to activate again finds the  *)
(* key it logged in with, marked 0xAA, whenever it starts: the two copies    *)
(* are written one after the other, so that a write torn by a loss of power  *)
(* leaves one.                                                               *)
LoggedInSurvives ==
  loggedIn # NoKey => StoredInfo(flash) = Info("AA", loggedIn)

(* After a command to activate again has erased the log-in information, the  *)
(* device is never back in normal state with the old key, unless a torn      *)
(* write of the original brought the copy back, which the command leaves     *)
(* with the old key.                                                         *)
ReactivationHolds ==
  netWork = "NORMAL" /\ gSysLoginInfo.key \in revoked => mainTorn

(* Every activation, routing and log-in ends in normal state once nothing    *)
(* goes wrong any more, although a failed activation is repeated without     *)
(* limit and a failed routing or log-in reboots: no state of the tables, the *)
(* flag and the flash is a trap, but for one.  With a key in RAM longer than *)
(* one the cloud issues, its rest stays behind the key of every right answer *)
(* and no signature is right, until power is lost.                           *)
Overlong ==
  /\ gSysLoginInfo.activeFlag = "0"
  /\ \E key \in Keys \ revoked : Length[key] < Length[gSysLoginInfo.key]

=============================================================================
