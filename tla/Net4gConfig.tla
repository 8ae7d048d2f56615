---------------------------- MODULE Net4gConfig ----------------------------
(***************************************************************************)
(* module_4g_config_para_process: the walk through the table of AT         *)
(* commands that identifies the modem, chooses one of its two SIM cards    *)
(* and waits for registration.  One call of the process is one step; the   *)
(* modem (external) may answer a command, answer that the SIM is not       *)
(* registered, or stay silent through every retry of at_cmd_send_check.    *)
(*                                                                         *)
(* A pass ends with PROCESS_DONE or PROCESS_ERROR.  After DONE the device  *)
(* logs in (which sets net4g_reconnect_flag) and, when the connection      *)
(* drops, starts another pass; after ERROR it reboots.                     *)
(***************************************************************************)
EXTENDS Net4gTables

CONSTANT Builds   \* families of modem the firmware may be built for

ASSUME BuildsAssumption == Builds \subseteq ModuleTypes

SIM == {1, 2}
NONE == 0

\* An ICCID in flash is the card's number, empty, or erased flash, which has
\* no terminator and so fails the test strlen(iccid) < 32.
EMPTY_ICCID == 0
ERASED_ICCID == 3

VARIABLES
  ModuleType,     \* NET_4G_MODULE_TYPE of this build; never changes
  netConfig,      \* net4G_process_steps.netConfig: row of the table
  ret,            \* what the last call returned
  simFlag,        \* g_deviceGlobalInfo.simFlag: SIM the modem said it uses
  simState,       \* g_deviceGlobalInfo.sim1State, sim2State: 0, 1 good, 2 bad
  iccid,          \* gSysInfo_struct.net4G.iccid, iccid2
  first_sim,      \* gSysInfo_struct.net4G.first_sim
  net4g_reconnect_flag,
  sim,            \* modem: the SIM slot really in use
  verdict,        \* history: last thing learnt about each card, by real slot
  attached,       \* history: slot that answered "attached" since it was chosen
  blamed,         \* history: slot this pass was told to leave
  tried,          \* history: slots this pass asked the modem to use
  silent,         \* history: some command of this pass failed
  session,        \* history: slot the last connection was made on
  misread         \* history: the modem once named a slot it has not got

vars == <<ModuleType, netConfig, ret, simFlag, simState, iccid, first_sim,
          net4g_reconnect_flag, sim, verdict, attached, blamed, tried, silent,
          session, misread>>

Init ==
  /\ ModuleType \in Builds
  /\ netConfig = 0
  /\ ret = "WAIT"
  /\ simFlag = NONE
  /\ simState = [k \in SIM |-> 0]
  /\ iccid \in [SIM -> {EMPTY_ICCID, ERASED_ICCID}]
  /\ first_sim \in {NONE, 1, 2}
  /\ net4g_reconnect_flag = FALSE
  /\ sim \in SIM
  /\ verdict = [k \in SIM |-> 0]
  /\ attached = NONE
  /\ blamed = NONE
  /\ tried = {}
  /\ silent = FALSE
  /\ session = NONE
  /\ misread = FALSE

-----------------------------------------------------------------------------
\* The EG800 build has one SIM and neither asks for its number nor leaves it.
DualSim == ModuleType # "EG800"

StepRow(n) == ConfigSteps[ModuleType][n + 1]
Command == StepRow(netConfig).id

\* Faulty variants: a failed command counts as a success, or starts the walk
\* over.
JumpOnError(result, n) == IF result = "5" THEN n ELSE StepRow(n).s_jump
JumpBackOnError(result, n) ==
  CASE result = "AT_OK"  -> StepRow(n).s_jump
    [] result = "AT_ERR" -> IF n = 0 THEN 0 ELSE 1
    [] result = "5"      -> n

\* The tail of the process: row n is taken over, then jumped from according
\* to the result; ret 5 stays on it.
Jump(result, n) ==
  CASE result = "AT_OK"  -> StepRow(n).s_jump
    [] result = "AT_ERR" -> StepRow(n).f_jump
    [] result = "5"      -> n

Finish(result, n) ==
  LET next == Jump(result, n) IN
  /\ ret' = CASE StepRow(next).id = "SUCCESS" -> "DONE"
              [] StepRow(next).id = "ERROR"   -> "ERROR"
              [] OTHER                        -> "WAIT"
  /\ netConfig' = IF ret' = "WAIT" THEN next ELSE 0

SimCommands == {"SIM_CHANGE_1", "SIM_CHANGE_2", "SIM_CHECK", "GET_SN_NO",
                "GET_SIM_NO", "GET_SIM_STATE", "GET_NET_STATE"}

\* A command whose answer changes nothing the choice of the SIM depends on.
PlainCommand(result) ==
  /\ Command \notin SimCommands
  /\ Finish(result, netConfig)
  /\ silent' = (silent \/ result = "AT_ERR")
  /\ UNCHANGED <<simFlag, simState, iccid, first_sim, net4g_reconnect_flag, sim,
                 verdict, attached, blamed, tried>>

\* The modem may switch although its answer is lost.
SimChange(k, result, switched) ==
  /\ Command = IF k = 1 THEN "SIM_CHANGE_1" ELSE "SIM_CHANGE_2"
  /\ result = "AT_OK" => switched
  /\ sim' = IF switched THEN k ELSE sim
  /\ Finish(result, netConfig)
  /\ tried' = tried \cup {k}
  /\ attached' = NONE
  /\ silent' = (silent \/ result = "AT_ERR")
  /\ UNCHANGED <<simFlag, simState, iccid, first_sim, net4g_reconnect_flag,
                 verdict, blamed>>

\* Faulty variant: the two SIM numbers are taken for each other.
SimCheckSwapped(result, named) ==
  /\ Command = "SIM_CHECK"
  /\ simFlag' = IF result = "AT_OK" /\ named THEN 3 - sim ELSE simFlag
  /\ Finish(result, netConfig)
  /\ silent' = (silent \/ result = "AT_ERR")
  /\ misread' = (misread \/ (result = "AT_OK" /\ ~named))
  /\ UNCHANGED <<simState, iccid, first_sim, net4g_reconnect_flag, sim,
                 verdict, attached, blamed, tried>>

\* net4g_get_sim_using_cb: a digit that names neither slot is a success that
\* leaves simFlag as it was.
SimCheck(result, named) ==
  /\ Command = "SIM_CHECK"
  /\ simFlag' = IF result = "AT_OK" /\ named THEN sim ELSE simFlag
  /\ Finish(result, netConfig)
  /\ silent' = (silent \/ result = "AT_ERR")
  /\ misread' = (misread \/ (result = "AT_OK" /\ ~named))
  /\ UNCHANGED <<simState, iccid, first_sim, net4g_reconnect_flag, sim,
                 verdict, attached, blamed, tried>>

\* Faulty variant: the number is always filed under SIM 1.
GetSimNoFirst(result) ==
  /\ Command = "GET_SIM_NO"
  /\ iccid' = IF result = "AT_OK" THEN [iccid EXCEPT ![1] = sim] ELSE iccid
  /\ Finish(result, netConfig)
  /\ silent' = (silent \/ result = "AT_ERR")
  /\ UNCHANGED <<simFlag, simState, first_sim, net4g_reconnect_flag, sim,
                 verdict, attached, blamed, tried>>

\* net4g_get_sim_no_cb: the number read is filed under simFlag and saved.
GetSimNo(result) ==
  /\ Command = "GET_SIM_NO"
  /\ iccid' = IF result = "AT_OK" /\ simFlag # NONE
              THEN [iccid EXCEPT ![simFlag] = sim] ELSE iccid
  /\ Finish(result, netConfig)
  /\ silent' = (silent \/ result = "AT_ERR")
  /\ UNCHANGED <<simFlag, simState, first_sim, net4g_reconnect_flag, sim,
                 verdict, attached, blamed, tried>>

\* net4g_get_sim_state_cb and net4g_get_net_state_cb: 1 is registered or
\* attached, 2 is not, 0 is no usable answer.
NoteState(answer) ==
  /\ simState' = IF answer # 0 /\ simFlag # NONE
                 THEN [simState EXCEPT ![simFlag] = answer] ELSE simState
  /\ verdict' = IF answer # 0 THEN [verdict EXCEPT ![sim] = answer] ELSE verdict
  /\ silent' = (silent \/ answer = 0)

GetSimState(answer) ==
  /\ Command = "GET_SIM_STATE"
  /\ NoteState(answer)
  /\ Finish(IF answer = 1 THEN "AT_OK" ELSE "AT_ERR", netConfig)
  /\ UNCHANGED <<simFlag, iccid, first_sim, net4g_reconnect_flag, sim,
                 attached, blamed, tried>>

\* With SIM 2 preferred and the number of SIM 1 on file, an attached SIM is
\* used at once instead of going on to look at SIM 1.
StopAtThisSim == DualSim /\ first_sim = 2 /\ iccid[1] # ERASED_ICCID

GetNetState(answer) ==
  /\ Command = "GET_NET_STATE"
  /\ NoteState(answer)
  /\ attached' = IF answer = 1 THEN sim ELSE attached
  /\ IF answer = 1 /\ StopAtThisSim
     THEN Finish("5", SimDoneRow[ModuleType])
     ELSE Finish(IF answer = 1 THEN "AT_OK" ELSE "AT_ERR", netConfig)
  /\ UNCHANGED <<simFlag, iccid, first_sim, net4g_reconnect_flag, sim,
                 blamed, tried>>

\* GET_SN_NO, whose answer is ignored, carries the SIM preference: where the
\* walk goes when no reconnection tells it to leave a SIM.
ByPreference ==
  CASE DualSim /\ first_sim = 1 -> Finish("5", LookSim1Row[ModuleType])
    [] DualSim /\ first_sim = 2 -> Finish("5", LookSim2Row[ModuleType])
    [] OTHER                                 -> Finish("AT_OK", netConfig)

\* Faulty variant: no family sets ret before it leaves.
LeaveSimResultUnset == "AT_ERR"

\* Result with which the process leaves SIM k after a reconnection: the EC800
\* branch sets ret to 5 first, the NT26 branch breaks out with ret still AT_ERR.
LeaveSimResult == IF ModuleType = "EC800" THEN "5" ELSE "AT_ERR"

LeaveSim(k) ==
  /\ simState' = [simState EXCEPT ![k] = 2]
  /\ verdict' = [verdict EXCEPT ![session] = 2]
  /\ blamed' = session
  /\ Finish(LeaveSimResult, IF k = 1 THEN BackSim2Row[ModuleType] ELSE LookSim1Row[ModuleType])

GetSnNo ==
  /\ Command = "GET_SN_NO"
  /\ IF net4g_reconnect_flag /\ DualSim
     THEN /\ net4g_reconnect_flag' = FALSE
          /\ IF simFlag \in SIM
             THEN LeaveSim(simFlag)
             ELSE ByPreference /\ UNCHANGED <<simState, verdict, blamed>>
     ELSE ByPreference /\ UNCHANGED <<simState, verdict, blamed, net4g_reconnect_flag>>
  /\ UNCHANGED <<simFlag, iccid, first_sim, sim, attached, tried, silent>>

AtResult == {"AT_OK", "AT_ERR"}

module_4g_config_para_process ==
  /\ ret = "WAIT"
  /\ UNCHANGED <<ModuleType, session>>
  /\ \/ /\ \/ \E result \in AtResult : PlainCommand(result)
           \/ \E k \in SIM, result \in AtResult, switched \in BOOLEAN :
                SimChange(k, result, switched)
           \/ \E result \in AtResult : GetSimNo(result)
           \/ \E answer \in 0 .. 2 : GetSimState(answer)
           \/ \E answer \in 0 .. 2 : GetNetState(answer)
           \/ GetSnNo
        /\ UNCHANGED misread
     \/ \E result \in AtResult, named \in BOOLEAN : SimCheck(result, named)

\* Log in, run, lose the connection, and start over at row 0.  The connection may
\* be lost because the modem restarted, perhaps on the other SIM.
Reconnect ==
  /\ ret = "DONE"
  /\ ret' = "WAIT"
  /\ net4g_reconnect_flag' = TRUE
  /\ blamed' = NONE
  /\ tried' = {}
  /\ silent' = FALSE
  /\ session' = sim
  /\ \/ UNCHANGED <<sim, attached>>
     \/ sim' \in SIM /\ attached' = NONE
  /\ UNCHANGED <<ModuleType, netConfig, simFlag, simState, iccid, first_sim,
                 verdict, misread>>

\* device_reboot after PROCESS_ERROR: memory is lost, flash is not, and the
\* modem may come back on either SIM.
Reboot ==
  /\ ret = "ERROR"
  /\ ret' = "WAIT"
  /\ netConfig' = 0
  /\ simFlag' = NONE
  /\ simState' = [k \in SIM |-> 0]
  /\ net4g_reconnect_flag' = FALSE
  /\ sim' \in SIM
  /\ verdict' = [k \in SIM |-> 0]
  /\ attached' = NONE
  /\ blamed' = NONE
  /\ tried' = {}
  /\ silent' = FALSE
  /\ session' = NONE
  /\ UNCHANGED <<ModuleType, iccid, first_sim, misread>>

Next == module_4g_config_para_process \/ Reconnect \/ Reboot

Spec == Init /\ [][Next]_vars

\* The network task keeps calling the process; nothing is asked of the modem.
FairSpec == Spec /\ WF_vars(module_4g_config_para_process)

-----------------------------------------------------------------------------
\* A pass that reports PROCESS_DONE leaves the modem on a SIM that answered
\* "attached" after it was selected, whatever rows failed on the way.
DoneOnAttachedSim == ret = "DONE" => attached = sim

\* The device's idea of the SIM in use is right whenever it goes on to log in
\* with it, although SIM_CHANGE failures are ignored, as long as the modem names
\* slots it has.
DoneKnowsItsSim == DualSim /\ ret = "DONE" /\ ~misread => simFlag = sim

\* What is kept under a slot is about the card in that slot, although it is
\* filed by what the modem said last about the slot in use: its number was read
\* from it, and sim1State and sim2State say what was last learnt about it,
\* reconnections that blame a card included, also those after a restart of the
\* modem; as long as the modem names slots it has.
FiledUnderRightSim ==
  ~misread =>
  /\ \A k \in SIM : iccid[k] \in {EMPTY_ICCID, ERASED_ICCID, k}
  /\ DualSim => simState = verdict

\* After a lost connection the walk goes to the other SIM ("jump to the steps
\* that do business with SIM2 / SIM1"): a pass in which every command was
\* answered, with slots the modem has, does not give up before it asked the modem
\* for the other slot.
ReconnectTriesOtherSim ==
  ret = "ERROR" /\ blamed # NONE /\ ~silent /\ ~misread => \E k \in tried : k # blamed

\* The EC800 branch keeps that promise.
ReconnectTriesOtherSimEC800 == ModuleType = "EC800" => ReconnectTriesOtherSim

\* Once the modem has answered the handshake the pass ends, even if it never
\* answers again: the tables have no other loop, through any mixture of
\* failures and jumps by number.
PassEnds == (ret = "WAIT" /\ netConfig # 0) ~> ret # "WAIT"
=============================================================================
