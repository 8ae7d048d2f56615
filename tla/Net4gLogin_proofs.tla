------------------------- MODULE Net4gLogin_proofs -------------------------
(***************************************************************************)
(* Theorems about activation, routing and log-in of Net4gDevice, for every *)
(* set of keys, every number of attempts, commands and faults: what the    *)
(* flags in RAM and in both copies in flash say is true of the cloud, and  *)
(* what a device has logged in with survives.                              *)
(***************************************************************************)
EXTENDS Net4gDevice_proofs

-----------------------------------------------------------------------------
(* The tables. *)

\* Rows that read the answer to the confirmation and to the routing request:
\* the last ones before SUCCESS.
GetRow == [NT26 |-> 9, EC800 |-> 7, EG800 |-> 7]
RouteGetRow == [NT26 |-> 4, EC800 |-> 3, EG800 |-> 3]

\* What matters of row r of the activation table of family f.
ActiveRowOK(f, r) ==
  LET step == ActiveSteps[f][r + 1]
      Id(j) == ActiveSteps[f][j + 1].id
  IN /\ Id(step.f_jump) = "ERROR" \/ step.f_jump = 0
     /\ Id(step.f_jump) # "SUCCESS"
     /\ Id(step.s_jump) = "SUCCESS" <=> r = GetRow[f]
     /\ Id(step.s_jump) # "ERROR"
     /\ r < GetRow[f] => step.s_jump = r + 1
     /\ step.id = "CONFIRM_GET_HTTP_RSP" <=> r = GetRow[f]
     /\ step.id = "CONFIRM_CONNECT_URL" <=> r = GetRow[f] - 1
     /\ step.id = "GET_HTTP_RSP" <=> r = ConfirmRow[f] - 1

\* And of row r of the routing table.
RouteRowOK(f, r) ==
  LET step == RouteSteps[f][r + 1]
      Id(j) == RouteSteps[f][j + 1].id
  IN /\ Id(step.f_jump) = "ERROR"
     /\ Id(step.s_jump) = "SUCCESS" <=> r = RouteGetRow[f]
     /\ Id(step.s_jump) # "ERROR"
     /\ r < RouteGetRow[f] => step.s_jump = r + 1
     /\ step.id = "GET_HTTP_RSP" <=> r = RouteGetRow[f]

LEMMA ActiveTableNT26 == \A r \in 0 .. 9 : ActiveRowOK("NT26", r)
<1> SUFFICES ASSUME NEW r \in 0 .. 9 PROVE ActiveRowOK("NT26", r)
  OBVIOUS
<1>1. r = 0 \/ r = 1 \/ r = 2 \/ r = 3 \/ r = 4 \/ r = 5 \/ r = 6 \/ r = 7 \/ r = 8 \/ r = 9
  OBVIOUS
<1> QED
  BY <1>1 DEF ActiveRowOK, ActiveSteps, ActiveStepsNT26, Row, GetRow, ConfirmRow

LEMMA ActiveTableEC800 == \A r \in 0 .. 7 : ActiveRowOK("EC800", r) /\ ActiveRowOK("EG800", r)
<1> SUFFICES ASSUME NEW r \in 0 .. 7 PROVE ActiveRowOK("EC800", r) /\ ActiveRowOK("EG800", r)
  OBVIOUS
<1>1. r = 0 \/ r = 1 \/ r = 2 \/ r = 3 \/ r = 4 \/ r = 5 \/ r = 6 \/ r = 7
  OBVIOUS
<1>2. ActiveRowOK("EC800", r)
  BY <1>1 DEF ActiveRowOK, ActiveSteps, ActiveStepsEC800, Row, GetRow, ConfirmRow
<1>3. ActiveRowOK("EG800", r)
  BY <1>1 DEF ActiveRowOK, ActiveSteps, ActiveStepsEC800, Row, GetRow, ConfirmRow
<1> QED
  BY <1>2, <1>3

LEMMA ActiveTable ==
  ASSUME NEW f \in ModuleTypes
  PROVE  /\ GetRow[f] \in Nat /\ ConfirmRow[f] \in Nat
         /\ 1 < ConfirmRow[f] /\ ConfirmRow[f] + 1 < GetRow[f]
         /\ \A r \in 0 .. GetRow[f] : ActiveRowOK(f, r)
<1>1. CASE f = "NT26"
  BY <1>1, ActiveTableNT26 DEF GetRow, ConfirmRow
<1>2. CASE f = "EC800"
  BY <1>2, ActiveTableEC800 DEF GetRow, ConfirmRow
<1>3. CASE f = "EG800"
  BY <1>3, ActiveTableEC800 DEF GetRow, ConfirmRow
<1> QED
  BY <1>1, <1>2, <1>3 DEF ModuleTypes

LEMMA RouteTable ==
  ASSUME NEW f \in ModuleTypes
  PROVE  RouteGetRow[f] \in Nat /\ \A r \in 0 .. RouteGetRow[f] : RouteRowOK(f, r)
<1>1. ASSUME NEW r \in 0 .. 4 PROVE RouteRowOK("NT26", r)
  <2>1. r = 0 \/ r = 1 \/ r = 2 \/ r = 3 \/ r = 4
    OBVIOUS
  <2> QED
    BY <2>1 DEF RouteRowOK, RouteSteps, RouteStepsNT26, Row, RouteGetRow
<1>2. ASSUME NEW r \in 0 .. 3 PROVE RouteRowOK("EC800", r)
  <2>1. r = 0 \/ r = 1 \/ r = 2 \/ r = 3
    OBVIOUS
  <2> QED
    BY <2>1 DEF RouteRowOK, RouteSteps, RouteStepsEC800, Row, RouteGetRow
<1>3. ASSUME NEW r \in 0 .. 3 PROVE RouteRowOK("EG800", r)
  <2>1. r = 0 \/ r = 1 \/ r = 2 \/ r = 3
    OBVIOUS
  <2> QED
    BY <2>1 DEF RouteRowOK, RouteSteps, RouteStepsEC800, Row, RouteGetRow
<1>4. CASE f = "NT26"
  BY <1>1, <1>4 DEF RouteGetRow
<1>5. CASE f = "EC800"
  BY <1>2, <1>5 DEF RouteGetRow
<1>6. CASE f = "EG800"
  BY <1>3, <1>6 DEF RouteGetRow
<1> QED
  BY <1>4, <1>5, <1>6 DEF ModuleTypes

\* What a jump from row r of the activation does.
LEMMA ActiveJumpEffect ==
  ASSUME family \in ModuleTypes, NEW r \in 0 .. GetRow[family], NEW ok \in BOOLEAN,
         ActiveJump(IF ok THEN ActiveSteps[family][r + 1].s_jump
                          ELSE ActiveSteps[family][r + 1].f_jump)
  PROVE  \/ ~ok /\ deviceActive' = 0 /\ active_route_step' = "ACTIVE"
         \/ ok /\ r < GetRow[family] /\ deviceActive' = r + 1 /\ active_route_step' = "ACTIVE"
         \/ ok /\ r = GetRow[family] /\ deviceActive' = 0 /\ active_route_step' = "ROUTE"
<1>1. ActiveRowOK(family, r) /\ GetRow[family] \in Nat
  BY ActiveTable
<1>2. CASE ok
  BY <1>1, <1>2 DEF ActiveJump, ActiveRowOK
<1>3. CASE ~ok
  BY <1>1, <1>3 DEF ActiveJump, ActiveRowOK
<1> QED
  BY <1>2, <1>3

\* And from row connectRoute of the routing.
LEMMA RouteJumpEffect ==
  ASSUME family \in ModuleTypes, connectRoute \in 0 .. RouteGetRow[family], NEW ok \in BOOLEAN,
         RouteJump(IF ok THEN RouteStep.s_jump ELSE RouteStep.f_jump)
  PROVE  \/ /\ ~ok /\ connectRoute' = 0 /\ active_route_step' = "CHECK" /\ netWork' = "ERROR"
         \/ /\ ok /\ connectRoute < RouteGetRow[family] /\ connectRoute' = connectRoute + 1
            /\ active_route_step' = "ROUTE" /\ netWork' = netWork
         \/ /\ ok /\ connectRoute = RouteGetRow[family] /\ connectRoute' = 0
            /\ active_route_step' = "END" /\ netWork' = netWork
<1> DEFINE row == IF ok THEN RouteStep.s_jump ELSE RouteStep.f_jump
           id == RouteSteps[family][row + 1].id
<1>1. RouteRowOK(family, connectRoute) /\ RouteGetRow[family] \in Nat
  BY RouteTable
<1>2. /\ connectRoute' = IF id \in {"SUCCESS", "ERROR"} THEN 0 ELSE row
      /\ id = "SUCCESS" => active_route_step' = "END"
      /\ id = "ERROR" => active_route_step' = "CHECK"
      /\ id \notin {"SUCCESS", "ERROR"} => active_route_step' = "ROUTE"
      /\ netWork' = IF id = "ERROR" THEN "ERROR" ELSE netWork
  BY DEF RouteJump
<1>3. CASE ok
  BY <1>1, <1>2, <1>3 DEF RouteRowOK, RouteStep
<1>4. CASE ~ok
  BY <1>1, <1>2, <1>4 DEF RouteRowOK, RouteStep
<1> QED
  BY <1>3, <1>4

-----------------------------------------------------------------------------
(* The invariant. *)

\* What a copy of the log-in information says is true.
Confirmed(info) ==
  /\ info \in Infos
  /\ info.activeFlag = "AA" => info.key \in confirmed
  /\ info.activeFlag = "BB" => info.key \in Keys

\* Nothing but the configuration is still to be written.
OnlyConfig == \A i \in 1 .. Len(writes) : writes[i] = "CONFIG"

\* The original is written before the copy, both before the configuration.
WriteOrder ==
  \A i \in 2 .. Len(writes) :
    writes[i] = "CONFIG" \/ (i = 2 /\ writes[1] = "LOGIN" /\ writes[2] = "LOGIN_BACK")

LoginTypes ==
  /\ FlashOK /\ WriteOrder
  /\ family \in ModuleTypes
  /\ confirmed \subseteq Keys
  /\ rsp.kind = "active" => rsp.key \in Keys
  /\ netWork # "ACTIVE_ROUTE" => active_route_step = "CHECK"
  /\ active_route_step \in {"CHECK", "ACTIVE", "ROUTE", "END"}
  /\ deviceActive \in 0 .. GetRow[family]
  /\ connectRoute \in 0 .. RouteGetRow[family]

AllConfirmed ==
  /\ Confirmed(gSysLoginInfo)
  /\ \A area \in {"LOGIN", "LOGIN_BACK"} : flash[area] = Torn \/ Confirmed(flash[area])

\* Rows of the first stage are not walked with the flag set; the answer read in
\* the last row is the one to the confirmation of the key.
ActiveStage ==
  /\ active_route_step # "ACTIVE" => deviceActive = 0
  /\ active_route_step = "ACTIVE" =>
       /\ gSysLoginInfo.activeFlag # "AA"
       /\ gSysLoginInfo.activeFlag = "BB" => deviceActive = 0 \/ deviceActive >= ConfirmRow[family]
       /\ deviceActive = GetRow[family] =>
            rsp.kind = "confirm" /\ (rsp.success => gSysLoginInfo.key \in confirmed)

Activated == Info("AA", gSysLoginInfo.key)

\* During the routing the confirmed key is in flash or about to be written, and
\* in RAM unless the server has just demanded another activation.
RouteStage ==
  active_route_step \in {"ROUTE", "END"} =>
    /\ \/ gSysLoginInfo = Activated
       \/ /\ active_route_step = "ROUTE" /\ connectRoute = RouteGetRow[family] /\ Idle
          /\ rsp.kind = "route" /\ rsp.reactive
    /\ \/ ~Idle /\ Head(writes) = "LOGIN"
       \/ ~Idle /\ Head(writes) = "LOGIN_BACK" /\ flash["LOGIN"] = Activated
       \/ OnlyConfig /\ StoredInfo(flash) = Activated

\* Before and after it RAM holds what a restart would find.
CheckStage ==
  /\ active_route_step = "CHECK" /\ netWork \in {"INIT", "ACTIVE_ROUTE", "LOGIN", "NORMAL"} =>
       OnlyConfig /\ gSysLoginInfo = StoredInfo(flash)
  /\ netWork = "LOGIN" => gSysLoginInfo.activeFlag = "AA"

LoggedIn ==
  loggedIn # NoKey =>
    /\ StoredInfo(flash) = Info("AA", loggedIn)
    /\ active_route_step # "ACTIVE"
    /\ OnlyConfig

LoginInv ==
  LoginTypes /\ AllConfirmed /\ ActiveStage /\ RouteStage /\ CheckStage /\ LoggedIn

-----------------------------------------------------------------------------
(* Facts about log-in information. *)

LEMMA InfoFields ==
  ASSUME NEW info \in Infos
  PROVE  /\ info.activeFlag \in {"0", "BB", "AA"}
         /\ info.key \in AllKeys
         /\ info = Info(info.activeFlag, info.key)
BY DEF Infos, Info

LEMMA InfoIs ==
  ASSUME NEW flag \in {"0", "BB", "AA"}, NEW key \in AllKeys
  PROVE  /\ Info(flag, key) \in Infos /\ Info(flag, key) # Torn
         /\ Info(flag, key).activeFlag = flag /\ Info(flag, key).key = key
<1>1. /\ Info(flag, key) \in Infos
      /\ Info(flag, key).activeFlag = flag /\ Info(flag, key).key = key
  BY DEF Infos, Info
<1> QED
  BY <1>1, ActiveAssumption

LEMMA InfoChange ==
  ASSUME NEW info \in Infos
  PROVE  /\ \A flag : [info EXCEPT !.activeFlag = flag] = Info(flag, info.key)
         /\ \A key : [info EXCEPT !.key = key] = Info(info.activeFlag, key)
BY DEF Infos, Info

LEMMA ErasedConfirmed == Confirmed(Erased)
<1>1. Erased \in Infos /\ Erased.activeFlag = "0"
  BY InfoIs DEF Erased, AllKeys
<1> QED
  BY <1>1 DEF Confirmed

\* What a restart finds is a copy, or erased.
LEMMA StoredConfirmed ==
  ASSUME NEW fl,
         \A area \in {"LOGIN", "LOGIN_BACK"} : fl[area] = Torn \/ Confirmed(fl[area])
  PROVE  Confirmed(StoredInfo(fl))
BY ErasedConfirmed DEF StoredInfo

LEMMA StoredDepends ==
  ASSUME NEW fl, NEW gl, fl["LOGIN"] = gl["LOGIN"], fl["LOGIN_BACK"] = gl["LOGIN_BACK"]
  PROVE  StoredInfo(fl) = StoredInfo(gl)
BY DEF StoredInfo

LEMMA StoredIsOriginal ==
  ASSUME NEW fl, fl["LOGIN"] # Torn
  PROVE  StoredInfo(fl) = fl["LOGIN"]
BY DEF StoredInfo

-----------------------------------------------------------------------------
(* The activation. *)

\* The row walked: with the flag set, one of the second stage.
LEMMA ActiveRowFacts ==
  ASSUME LoginInv, active_route_step = "ACTIVE"
  PROVE  /\ ActiveRow \in 0 .. GetRow[family]
         /\ ActiveRowOK(family, ActiveRow)
         /\ ActiveStep = ActiveSteps[family][ActiveRow + 1]
         /\ gSysLoginInfo.activeFlag = "BB" => ActiveRow >= ConfirmRow[family]
         /\ ActiveRow = GetRow[family] => deviceActive = ActiveRow
         /\ loggedIn = NoKey /\ netWork = "ACTIVE_ROUTE"
<1>1. /\ family \in ModuleTypes /\ deviceActive \in 0 .. GetRow[family]
      /\ loggedIn = NoKey /\ netWork = "ACTIVE_ROUTE"
      /\ gSysLoginInfo.activeFlag = "BB" => deviceActive = 0 \/ deviceActive >= ConfirmRow[family]
  BY DEF LoginInv, LoginTypes, ActiveStage, LoggedIn
<1>2. /\ GetRow[family] \in Nat /\ ConfirmRow[family] \in Nat
      /\ 1 < ConfirmRow[family] /\ ConfirmRow[family] + 1 < GetRow[family]
      /\ \A r \in 0 .. GetRow[family] : ActiveRowOK(family, r)
  BY <1>1, ActiveTable
<1>3. ActiveRow \in 0 .. GetRow[family]
  BY <1>1, <1>2 DEF ActiveRow
<1> QED
  BY <1>1, <1>2, <1>3 DEF ActiveRow, ActiveStep

\* How a step of the activation may leave the walk, given what its row is.
ActiveTo(ok) ==
  \/ ~ok /\ deviceActive' = 0 /\ active_route_step' = "ACTIVE"
  \/ /\ ok /\ ActiveRow < GetRow[family]
     /\ deviceActive' = ActiveRow + 1 /\ active_route_step' = "ACTIVE"
  \/ ok /\ ActiveRow = GetRow[family] /\ deviceActive' = 0 /\ active_route_step' = "ROUTE"

LEMMA ActiveJumps ==
  ASSUME LoginInv, active_route_step = "ACTIVE", NEW ok \in BOOLEAN,
         ActiveJump(IF ok THEN ActiveStep.s_jump ELSE ActiveStep.f_jump)
  PROVE  ActiveTo(ok)
<1>1. /\ family \in ModuleTypes /\ ActiveRow \in 0 .. GetRow[family]
      /\ ActiveStep = ActiveSteps[family][ActiveRow + 1]
  BY ActiveRowFacts DEF LoginInv, LoginTypes
<1>2. ActiveJump(IF ok THEN ActiveSteps[family][ActiveRow + 1].s_jump
                       ELSE ActiveSteps[family][ActiveRow + 1].f_jump)
  BY <1>1
<1> QED
  BY <1>1, <1>2, ActiveJumpEffect DEF ActiveTo

LEMMA ActiveAttempts ==
  ASSUME LoginInv, active_route_step = "ACTIVE", NEW ok \in BOOLEAN, ActiveAttempt(ok)
  PROVE  ActiveTo(ok) \/ (~ok /\ UNCHANGED <<deviceActive, active_route_step>>)
<1>1. CASE ok \/ tries + 1 = RETRY
  BY <1>1, ActiveJumps DEF ActiveAttempt
<1>2. CASE ~(ok \/ tries + 1 = RETRY)
  BY <1>2 DEF ActiveAttempt
<1> QED
  BY <1>1, <1>2

\* Whatever a handler begins to write is in order.
LEMMA BegunInOrder ==
  ASSUME \/ writes' = <<>> \/ writes' = <<"LOGIN">> \/ writes' = <<"CONFIG">>
         \/ writes' = <<"LOGIN", "LOGIN_BACK">>
         \/ writes' = <<"LOGIN", "LOGIN_BACK", "CONFIG">>
  PROVE  WriteOrder' /\ writes' \in Seq(Areas)
<1>1. writes' \in Seq(Areas)
  BY AreaSeqs
<1>2. CASE writes' = <<>> \/ writes' = <<"LOGIN">> \/ writes' = <<"CONFIG">>
  <2>1. Len(writes') < 2 /\ Len(writes') \in Nat
    BY <1>2
  <2>2. \A i \in 2 .. Len(writes') : FALSE
    BY <2>1
  <2> QED
    BY <1>1, <2>2 DEF WriteOrder
<1>3. CASE writes' = <<"LOGIN", "LOGIN_BACK">>
  <2>1. \A i \in 2 .. 2 : i = 2
    OBVIOUS
  <2> QED
    BY <1>1, <1>3, <2>1 DEF WriteOrder
<1>4. CASE writes' = <<"LOGIN", "LOGIN_BACK", "CONFIG">>
  <2>1. \A i \in 2 .. 3 : i = 2 \/ i = 3
    OBVIOUS
  <2> QED
    BY <1>1, <1>4, <2>1 DEF WriteOrder
<1> QED
  BY <1>2, <1>3, <1>4

\* A step that stays in the activation keeps the invariant if RAM, the answer
\* held and the writes stay right.
LEMMA StaysInActivation ==
  ASSUME LoginInv, Idle, active_route_step = "ACTIVE", active_route_step' = "ACTIVE",
         UNCHANGED <<family, flash, netWork, connectRoute, loggedIn>>,
         confirmed \subseteq confirmed', confirmed' \subseteq Keys,
         rsp'.kind = "active" => rsp'.key \in Keys,
         writes' = writes \/ writes' = <<"LOGIN", "LOGIN_BACK">>,
         Confirmed(gSysLoginInfo)', gSysLoginInfo'.activeFlag # "AA",
         deviceActive' \in 0 .. GetRow[family],
         gSysLoginInfo'.activeFlag = "BB" =>
           deviceActive' = 0 \/ deviceActive' >= ConfirmRow[family],
         deviceActive' = GetRow[family] =>
           rsp'.kind = "confirm" /\ (rsp'.success => gSysLoginInfo'.key \in confirmed')
  PROVE  LoginInv'
<1>1. LoginTypes'
  <2>1. WriteOrder' /\ writes' \in Seq(Areas)
    BY BegunInOrder DEF Idle
  <2> QED
    BY <2>1 DEF LoginInv, LoginTypes, FlashOK
<1>2. AllConfirmed'
  BY DEF LoginInv, AllConfirmed, Confirmed
<1>3. ActiveStage' /\ RouteStage'
  BY DEF ActiveStage, RouteStage
<1>4. CheckStage'
  BY ActiveRowFacts DEF CheckStage
<1>5. LoggedIn'
  BY ActiveRowFacts DEF LoggedIn
<1> QED
  BY <1>1, <1>2, <1>3, <1>4, <1>5 DEF LoginInv

LEMMA ActiveCommandInv ==
  ASSUME LoginInv, Idle, active_route_step = "ACTIVE", ActiveCommand \/ ActiveConnect,
         UNCHANGED <<family, flash, netWork, connectRoute, loggedIn>>
  PROVE  LoginInv'
<1>1. /\ ActiveRow \in 0 .. GetRow[family] /\ GetRow[family] \in Nat /\ ConfirmRow[family] \in Nat
      /\ ActiveRowOK(family, ActiveRow)
      /\ ActiveStep = ActiveSteps[family][ActiveRow + 1]
      /\ gSysLoginInfo.activeFlag = "BB" => ActiveRow >= ConfirmRow[family]
      /\ 1 < GetRow[family]
  BY ActiveRowFacts, ActiveTable DEF LoginInv, LoginTypes
<1>2. ActiveStep.id # "CONFIRM_GET_HTTP_RSP" /\ ActiveStep.id # "CONFIRM_CONNECT_URL"
  BY DEF ActiveCommand, ActiveConnect
<1>3. ActiveRow # GetRow[family] /\ ActiveRow + 1 # GetRow[family]
  BY <1>1, <1>2 DEF ActiveRowOK
<1>4. \E ok \in BOOLEAN : ActiveTo(ok)
  BY ActiveJumps DEF ActiveCommand, ActiveConnect
<1>5. /\ active_route_step' = "ACTIVE"
      /\ deviceActive' = 0 \/ deviceActive' = ActiveRow + 1
  BY <1>3, <1>4 DEF ActiveTo
<1>6. /\ UNCHANGED <<gSysLoginInfo, writes, confirmed>>
      /\ rsp' = rsp \/ \E k \in Keys : rsp' = [kind |-> "active", key |-> k]
  BY DEF ActiveCommand, ActiveConnect, cloud
<1>7. rsp'.kind = "active" => rsp'.key \in Keys
  BY <1>6 DEF LoginInv, LoginTypes
<1>8. Confirmed(gSysLoginInfo)' /\ gSysLoginInfo'.activeFlag # "AA" /\ confirmed \subseteq Keys
  BY <1>6 DEF LoginInv, LoginTypes, AllConfirmed, Confirmed, ActiveStage
<1>9. /\ deviceActive' \in 0 .. GetRow[family]
      /\ deviceActive' # GetRow[family]
      /\ gSysLoginInfo'.activeFlag = "BB" =>
           deviceActive' = 0 \/ deviceActive' >= ConfirmRow[family]
  BY <1>1, <1>3, <1>5, <1>6
<1> QED
  BY <1>5, <1>6, <1>7, <1>8, <1>9, StaysInActivation

LEMMA ActivePostInv ==
  ASSUME LoginInv, Idle, active_route_step = "ACTIVE", net4g_active_post_rsp_cb,
         UNCHANGED <<family, flash, netWork, connectRoute, loggedIn>>
  PROVE  LoginInv'
<1>1. /\ ActiveRow \in 0 .. GetRow[family] /\ GetRow[family] \in Nat /\ ConfirmRow[family] \in Nat
      /\ ActiveRowOK(family, ActiveRow)
      /\ ActiveStep = ActiveSteps[family][ActiveRow + 1]
      /\ gSysLoginInfo.activeFlag = "BB" => ActiveRow >= ConfirmRow[family]
      /\ 1 < ConfirmRow[family] /\ ConfirmRow[family] + 1 < GetRow[family]
  BY ActiveRowFacts, ActiveTable DEF LoginInv, LoginTypes
<1>2. ActiveRow = ConfirmRow[family] - 1
  BY <1>1 DEF net4g_active_post_rsp_cb, ActiveRowOK
<1>3. gSysLoginInfo \in Infos /\ gSysLoginInfo.activeFlag = "0"
  BY <1>1, <1>2, InfoFields DEF LoginInv, AllConfirmed, Confirmed, ActiveStage
<1>4. deviceActive = 0 \/ deviceActive = ActiveRow
  BY DEF ActiveRow
<1>5. UNCHANGED <<confirmed, rsp>> /\ confirmed \subseteq Keys
      /\ (rsp.kind = "active" => rsp.key \in Keys)
  BY DEF net4g_active_post_rsp_cb, cloud, LoginInv, LoginTypes
<1>6. ASSUME ActiveAttempt(FALSE), gSysLoginInfo' \in Infos, gSysLoginInfo'.activeFlag = "0",
             writes' = writes
      PROVE  LoginInv'
  <2>1. active_route_step' = "ACTIVE" /\ (deviceActive' = 0 \/ deviceActive' = deviceActive)
    BY <1>6, ActiveAttempts DEF ActiveTo
  <2>2. deviceActive' \in 0 .. GetRow[family] /\ deviceActive' # GetRow[family]
    BY <1>1, <1>2, <1>4, <2>1
  <2>3. Confirmed(gSysLoginInfo)'
    BY <1>6 DEF Confirmed
  <2> QED
    BY <1>5, <1>6, <2>1, <2>2, <2>3, StaysInActivation
<1>7. CASE ActiveAttempt(FALSE) /\ UNCHANGED <<gSysLoginInfo, writes>>
  BY <1>3, <1>6, <1>7
<1>8. ASSUME NEW new \in BadKeys \cup {rsp.key}, NEW copied \in Copied(gSysLoginInfo.key, new),
             new \in BadKeys \/ (rsp.kind = "active" /\ new = rsp.key),
             gSysLoginInfo' = [gSysLoginInfo EXCEPT !.key = copied],
             ActiveAttempt(FALSE), UNCHANGED writes
      PROVE  LoginInv'
  <2>1. copied \in AllKeys
    BY <1>3, <1>5, <1>8, InfoFields DEF Copied, AllKeys
  <2>2. gSysLoginInfo' = Info("0", copied)
    BY <1>3, <1>8, InfoChange
  <2>3. gSysLoginInfo' \in Infos /\ gSysLoginInfo'.activeFlag = "0"
    BY <2>1, <2>2, InfoIs
  <2> QED
    BY <1>6, <1>8, <2>3
<1>9. CASE /\ rsp.kind = "active" /\ gSysLoginInfo' = Info("BB", rsp.key)
           /\ writes' = <<"LOGIN", "LOGIN_BACK">> /\ ActiveAttempt(TRUE)
  <2>1. active_route_step' = "ACTIVE" /\ deviceActive' = ConfirmRow[family]
    <3>1. ActiveTo(TRUE)
      BY <1>9, ActiveAttempts, Zenon
    <3> QED
      BY <1>1, <1>2, <3>1 DEF ActiveTo
  <2>2. /\ gSysLoginInfo' \in Infos
        /\ gSysLoginInfo'.activeFlag = "BB" /\ gSysLoginInfo'.key \in Keys
    BY <1>5, <1>9, InfoIs DEF AllKeys
  <2>3. Confirmed(gSysLoginInfo)'
    BY <2>2 DEF Confirmed
  <2> QED
    BY <1>1, <1>5, <1>9, <2>1, <2>2, <2>3, StaysInActivation
<1> QED
  BY <1>7, <1>8, <1>9 DEF net4g_active_post_rsp_cb

LEMMA ActiveConfirmConnectInv ==
  ASSUME LoginInv, Idle, active_route_step = "ACTIVE", ActiveConfirmConnect,
         UNCHANGED <<family, flash, netWork, connectRoute, loggedIn>>
  PROVE  LoginInv'
<1>1. /\ ActiveRow \in 0 .. GetRow[family] /\ GetRow[family] \in Nat /\ ConfirmRow[family] \in Nat
      /\ ActiveRowOK(family, ActiveRow)
      /\ ActiveStep = ActiveSteps[family][ActiveRow + 1]
      /\ 1 < ConfirmRow[family] /\ ConfirmRow[family] + 1 < GetRow[family]
  BY ActiveRowFacts, ActiveTable DEF LoginInv, LoginTypes
<1>2. ActiveRow = GetRow[family] - 1
  BY <1>1 DEF ActiveConfirmConnect, ActiveRowOK
<1>3. PICK ok \in BOOLEAN, success \in BOOLEAN :
        /\ ActiveJump(IF ok THEN ActiveStep.s_jump ELSE ActiveStep.f_jump)
        /\ success => gSysLoginInfo.key \in Keys
        /\ \/ /\ rsp' = [kind |-> "confirm", success |-> success]
              /\ confirmed' = IF success THEN confirmed \cup {gSysLoginInfo.key} ELSE confirmed
           \/ ~ok /\ UNCHANGED <<rsp, confirmed>>
  BY DEF ActiveConfirmConnect
<1>4. /\ active_route_step' = "ACTIVE"
      /\ (ok /\ deviceActive' = GetRow[family]) \/ (~ok /\ deviceActive' = 0)
  BY <1>1, <1>2, <1>3, ActiveJumps DEF ActiveTo
<1>5. UNCHANGED <<gSysLoginInfo, writes>> /\ confirmed \subseteq Keys
      /\ (rsp.kind = "active" => rsp.key \in Keys)
  BY DEF ActiveConfirmConnect, LoginInv, LoginTypes
<1>6. /\ confirmed \subseteq confirmed' /\ confirmed' \subseteq Keys
      /\ rsp'.kind = "active" => rsp'.key \in Keys
      /\ ok => rsp'.kind = "confirm" /\ (rsp'.success => gSysLoginInfo.key \in confirmed')
  BY <1>3, <1>5
<1>7. Confirmed(gSysLoginInfo)' /\ gSysLoginInfo'.activeFlag # "AA"
  BY <1>5, <1>6 DEF LoginInv, AllConfirmed, Confirmed, ActiveStage
<1>8. /\ deviceActive' \in 0 .. GetRow[family]
      /\ deviceActive' = 0 \/ deviceActive' >= ConfirmRow[family]
      /\ deviceActive' = GetRow[family] => ok
  BY <1>1, <1>4
<1> QED
  BY <1>4, <1>5, <1>6, <1>7, <1>8, StaysInActivation

LEMMA ActiveConfirmInv ==
  ASSUME LoginInv, Idle, active_route_step = "ACTIVE", net4g_active_confirm_rsp_cb,
         UNCHANGED <<family, flash, netWork, connectRoute, loggedIn>>
  PROVE  LoginInv'
<1>1. /\ ActiveRow \in 0 .. GetRow[family] /\ GetRow[family] \in Nat /\ ConfirmRow[family] \in Nat
      /\ ActiveRowOK(family, ActiveRow)
      /\ ActiveStep = ActiveSteps[family][ActiveRow + 1]
      /\ 1 < ConfirmRow[family] /\ ConfirmRow[family] + 1 < GetRow[family]
      /\ ActiveRow = GetRow[family] => deviceActive = ActiveRow
      /\ loggedIn = NoKey /\ netWork = "ACTIVE_ROUTE"
  BY ActiveRowFacts, ActiveTable DEF LoginInv, LoginTypes
<1>2. ActiveRow = GetRow[family] /\ deviceActive = GetRow[family]
  BY <1>1 DEF net4g_active_confirm_rsp_cb, ActiveRowOK
<1>3. /\ gSysLoginInfo \in Infos /\ Confirmed(gSysLoginInfo) /\ gSysLoginInfo.activeFlag # "AA"
      /\ rsp.kind = "confirm" /\ (rsp.success => gSysLoginInfo.key \in confirmed)
  BY <1>2 DEF LoginInv, AllConfirmed, Confirmed, ActiveStage
<1>4. UNCHANGED <<confirmed, rsp>> /\ confirmed \subseteq Keys
  BY DEF net4g_active_confirm_rsp_cb, cloud, LoginInv, LoginTypes
<1>5. ASSUME ActiveAttempt(FALSE), Confirmed(gSysLoginInfo)', gSysLoginInfo'.activeFlag # "AA",
             gSysLoginInfo'.key = gSysLoginInfo.key, writes' = writes
      PROVE  LoginInv'
  <2>1. active_route_step' = "ACTIVE" /\ (deviceActive' = 0 \/ deviceActive' = GetRow[family])
    BY <1>2, <1>5, ActiveAttempts DEF ActiveTo
  <2>2. /\ deviceActive' \in 0 .. GetRow[family]
        /\ deviceActive' = 0 \/ deviceActive' >= ConfirmRow[family]
    BY <1>1, <2>1
  <2> QED
    BY <1>3, <1>4, <1>5, <2>1, <2>2, StaysInActivation
<1>6. CASE ActiveAttempt(FALSE) /\ UNCHANGED <<gSysLoginInfo, writes>>
  BY <1>3, <1>4, <1>5, <1>6 DEF Confirmed
<1>7. CASE /\ gSysLoginInfo' = [gSysLoginInfo EXCEPT !.activeFlag = "0"]
           /\ ActiveAttempt(FALSE) /\ UNCHANGED writes
  <2>1. gSysLoginInfo' = Info("0", gSysLoginInfo.key)
    BY <1>3, <1>7, InfoChange
  <2>2. /\ gSysLoginInfo' \in Infos /\ gSysLoginInfo'.activeFlag = "0"
        /\ gSysLoginInfo'.key = gSysLoginInfo.key
    BY <1>3, <2>1, InfoFields, InfoIs
  <2>3. Confirmed(gSysLoginInfo)'
    BY <2>2 DEF Confirmed
  <2> QED
    BY <1>5, <1>7, <2>2, <2>3
<1>8. CASE /\ rsp.success /\ gSysLoginInfo' = [gSysLoginInfo EXCEPT !.activeFlag = "AA"]
           /\ writes' = ConfirmWrites /\ ActiveAttempt(TRUE)
  <2>1. active_route_step' = "ROUTE" /\ deviceActive' = 0
    <3>1. ActiveTo(TRUE)
      BY <1>8, ActiveAttempts, Zenon
    <3> QED
      BY <1>1, <1>2, <3>1 DEF ActiveTo
  <2>2. gSysLoginInfo' = Info("AA", gSysLoginInfo.key)
    BY <1>3, <1>8, InfoChange
  <2>3. /\ gSysLoginInfo' \in Infos /\ gSysLoginInfo'.activeFlag = "AA"
        /\ gSysLoginInfo'.key = gSysLoginInfo.key /\ gSysLoginInfo.key \in confirmed
    BY <1>3, <1>8, <2>2, InfoFields, InfoIs
  <2>4. /\ writes' = <<"LOGIN", "LOGIN_BACK", "CONFIG">>
        /\ writes' # <<>> /\ Head(writes') = "LOGIN"
    BY <1>8 DEF ConfirmWrites
  <2>5. WriteOrder' /\ writes' \in Seq(Areas)
    BY <2>4, BegunInOrder
  <2>6. LoginTypes'
    BY <1>1, <1>4, <2>1, <2>5 DEF LoginInv, LoginTypes, FlashOK
  <2>7. AllConfirmed'
    BY <1>4, <2>3 DEF LoginInv, AllConfirmed, Confirmed
  <2>8. ActiveStage' /\ CheckStage' /\ LoggedIn'
    BY <1>1, <2>1 DEF ActiveStage, CheckStage, LoggedIn
  <2>9. RouteStage'
    BY <2>2, <2>3, <2>4 DEF RouteStage, Activated, Idle
  <2> QED
    BY <2>6, <2>7, <2>8, <2>9 DEF LoginInv
<1> QED
  BY <1>6, <1>7, <1>8 DEF net4g_active_confirm_rsp_cb

LEMMA ActiveProcessInv ==
  ASSUME LoginInv, Idle, device_active_process, UNCHANGED <<family, flash, loggedIn>>
  PROVE  LoginInv'
BY ActiveCommandInv, ActivePostInv, ActiveConfirmConnectInv, ActiveConfirmInv
   DEF device_active_process

-----------------------------------------------------------------------------
(* The routing. *)

\* A step of the routing keeps the invariant if it ends in an error, or if the
\* key in RAM is the one in flash, marked or put aside by the server's demand.
LEMMA StaysInRouting ==
  ASSUME LoginInv, Idle, active_route_step = "ROUTE",
         UNCHANGED <<family, flash, loggedIn, writes, confirmed, deviceActive>>,
         rsp'.kind = "active" => rsp'.key \in Keys,
         gSysLoginInfo' \in Infos, gSysLoginInfo'.key = gSysLoginInfo.key,
         gSysLoginInfo' = gSysLoginInfo \/ gSysLoginInfo'.activeFlag = "0",
         connectRoute' \in 0 .. RouteGetRow[family],
         \/ active_route_step' = "CHECK" /\ netWork' = "ERROR"
         \/ /\ active_route_step' \in {"ROUTE", "END"} /\ netWork' = netWork
            /\ \/ gSysLoginInfo' = Info("AA", gSysLoginInfo.key)
               \/ /\ active_route_step' = "ROUTE" /\ connectRoute' = RouteGetRow[family]
                  /\ rsp'.kind = "route" /\ rsp'.reactive
  PROVE  LoginInv'
<1>1. netWork = "ACTIVE_ROUTE"
  BY DEF LoginInv, LoginTypes
<1>2. OnlyConfig' /\ OnlyConfig /\ StoredInfo(flash) = Activated
  BY DEF LoginInv, RouteStage, Idle, OnlyConfig
<1>3. LoginTypes'
  BY <1>1 DEF LoginInv, LoginTypes, FlashOK, WriteOrder
<1>4. AllConfirmed'
  BY DEF LoginInv, AllConfirmed, Confirmed
<1>5. ActiveStage' /\ CheckStage'
  BY <1>1 DEF LoginInv, ActiveStage, CheckStage
<1>6. LoggedIn'
  BY <1>2 DEF LoginInv, LoggedIn
<1>7. RouteStage'
  BY <1>2 DEF RouteStage, Activated, Idle
<1> QED
  BY <1>3, <1>4, <1>5, <1>6, <1>7 DEF LoginInv

\* The outcomes of a command or an attempt.
RouteTo(ok) ==
  \/ /\ ~ok /\ connectRoute' = 0 /\ active_route_step' = "CHECK" /\ netWork' = "ERROR"
  \/ /\ ok /\ connectRoute < RouteGetRow[family] /\ connectRoute' = connectRoute + 1
     /\ active_route_step' = "ROUTE" /\ netWork' = netWork
  \/ /\ ok /\ connectRoute = RouteGetRow[family] /\ connectRoute' = 0
     /\ active_route_step' = "END" /\ netWork' = netWork

LEMMA RouteFacts ==
  ASSUME LoginInv, active_route_step = "ROUTE"
  PROVE  /\ family \in ModuleTypes /\ RouteGetRow[family] \in Nat
         /\ connectRoute \in 0 .. RouteGetRow[family]
         /\ RouteStep.id = "GET_HTTP_RSP" <=> connectRoute = RouteGetRow[family]
         /\ gSysLoginInfo \in Infos
         /\ \/ gSysLoginInfo = Info("AA", gSysLoginInfo.key)
            \/ connectRoute = RouteGetRow[family] /\ rsp.kind = "route" /\ rsp.reactive
<1>1. family \in ModuleTypes /\ connectRoute \in 0 .. RouteGetRow[family]
  BY DEF LoginInv, LoginTypes
<1>2. RouteGetRow[family] \in Nat /\ RouteRowOK(family, connectRoute)
  BY <1>1, RouteTable
<1> QED
  BY <1>1, <1>2 DEF LoginInv, AllConfirmed, Confirmed, RouteStage, Activated, RouteRowOK, RouteStep

LEMMA RouteCommandInv ==
  ASSUME LoginInv, Idle, active_route_step = "ROUTE", RouteCommand \/ RouteConnect,
         UNCHANGED <<family, flash, loggedIn, writes, confirmed, deviceActive>>
  PROVE  LoginInv'
<1>1. RouteStep.id # "GET_HTTP_RSP"
  BY DEF RouteCommand, RouteConnect
<1>2. connectRoute < RouteGetRow[family] /\ gSysLoginInfo = Info("AA", gSysLoginInfo.key)
  BY <1>1, RouteFacts
<1>3. \E ok \in BOOLEAN : RouteTo(ok)
  BY RouteFacts, RouteJumpEffect DEF RouteCommand, RouteConnect, RouteTo
<1>4. gSysLoginInfo' = gSysLoginInfo /\ (rsp'.kind = "active" => rsp'.key \in Keys)
  BY DEF RouteCommand, RouteConnect, LoginInv, LoginTypes
<1>5. /\ connectRoute' \in 0 .. RouteGetRow[family]
      /\ \/ active_route_step' = "CHECK" /\ netWork' = "ERROR"
         \/ active_route_step' = "ROUTE" /\ netWork' = netWork
  BY <1>2, <1>3, RouteFacts DEF RouteTo
<1> QED
  BY <1>2, <1>4, <1>5, RouteFacts, StaysInRouting

LEMMA RouteAnswerInv ==
  ASSUME LoginInv, Idle, active_route_step = "ROUTE", device_route_rsp_cb,
         UNCHANGED <<family, flash, loggedIn, writes, confirmed, deviceActive>>
  PROVE  LoginInv'
<1>1. /\ connectRoute = RouteGetRow[family] /\ RouteGetRow[family] \in Nat
      /\ gSysLoginInfo \in Infos
      /\ \/ gSysLoginInfo = Info("AA", gSysLoginInfo.key)
         \/ rsp.kind = "route" /\ rsp.reactive
  BY RouteFacts DEF device_route_rsp_cb
<1>2. rsp' = rsp /\ (rsp'.kind = "active" => rsp'.key \in Keys)
  BY DEF device_route_rsp_cb, LoginInv, LoginTypes
<1>3. ASSUME RouteAttempt(FALSE)
      PROVE  \/ connectRoute' = 0 /\ active_route_step' = "CHECK" /\ netWork' = "ERROR"
             \/ UNCHANGED <<connectRoute, active_route_step, netWork>>
  <2>1. CASE tries + 1 = RETRY
    <3>1. RouteJump(IF FALSE THEN RouteStep.s_jump ELSE RouteStep.f_jump)
      BY <1>3, <2>1 DEF RouteAttempt
    <3>2. RouteTo(FALSE)
      BY <3>1, RouteFacts, RouteJumpEffect DEF RouteTo
    <3> QED
      BY <3>2 DEF RouteTo
  <2>2. CASE tries + 1 # RETRY
    BY <1>3, <2>2 DEF RouteAttempt
  <2> QED
    BY <2>1, <2>2
<1>4. CASE RouteAttempt(FALSE) /\ UNCHANGED gSysLoginInfo
  BY <1>1, <1>2, <1>3, <1>4, StaysInRouting
<1>5. CASE /\ rsp.kind = "route" /\ rsp.reactive /\ RouteAttempt(FALSE)
           /\ gSysLoginInfo' = [gSysLoginInfo EXCEPT !.activeFlag = "0"]
  <2>1. gSysLoginInfo' = Info("0", gSysLoginInfo.key)
    BY <1>1, <1>5, InfoChange
  <2>2. /\ gSysLoginInfo' \in Infos /\ gSysLoginInfo'.activeFlag = "0"
        /\ gSysLoginInfo'.key = gSysLoginInfo.key
    BY <1>1, <2>1, InfoFields, InfoIs
  <2> QED
    BY <1>1, <1>2, <1>3, <1>5, <2>2, StaysInRouting
<1>6. CASE rsp.kind = "route" /\ ~rsp.reactive /\ RouteAttempt(TRUE) /\ UNCHANGED gSysLoginInfo
  <2>1. RouteJump(IF TRUE THEN RouteStep.s_jump ELSE RouteStep.f_jump)
    BY <1>6 DEF RouteAttempt
  <2>2. family \in ModuleTypes /\ connectRoute \in 0 .. RouteGetRow[family]
    BY RouteFacts
  <2>3. RouteTo(TRUE)
    BY <2>1, <2>2, RouteJumpEffect, Zenon DEF RouteTo
  <2>4. connectRoute' = 0 /\ active_route_step' = "END" /\ netWork' = netWork
    BY <1>1, <2>3 DEF RouteTo
  <2> QED
    BY <1>1, <1>2, <1>6, <2>4, StaysInRouting
<1> QED
  BY <1>4, <1>5, <1>6 DEF device_route_rsp_cb

LEMMA RouteProcessInv ==
  ASSUME LoginInv, Idle, device_route_process, UNCHANGED <<family, flash, loggedIn>>
  PROVE  LoginInv'
BY RouteCommandInv, RouteAnswerInv DEF device_route_process

-----------------------------------------------------------------------------
(* The steps around them. *)

LEMMA CheckInv ==
  ASSUME LoginInv, Idle, netWork = "ACTIVE_ROUTE", check_active_or_route,
         UNCHANGED <<family, flash, loggedIn>>
  PROVE  LoginInv'
<1>1. active_route_step = "CHECK"
      /\ UNCHANGED <<netWork, deviceActive, connectRoute, gSysLoginInfo, writes, rsp, confirmed>>
  BY DEF check_active_or_route, cloud
<1>2. /\ gSysLoginInfo = StoredInfo(flash) /\ OnlyConfig
      /\ gSysLoginInfo \in Infos /\ deviceActive = 0
  BY <1>1 DEF LoginInv, CheckStage, AllConfirmed, Confirmed, ActiveStage
<1>3. active_route_step' = IF gSysLoginInfo.activeFlag = "AA" THEN "ROUTE" ELSE "ACTIVE"
  BY <1>2 DEF check_active_or_route
<1>4. 0 # GetRow[family]
  BY ActiveTable DEF LoginInv, LoginTypes
<1>5. LoginTypes'
  BY <1>1, <1>3 DEF LoginInv, LoginTypes, FlashOK, WriteOrder
<1>6. AllConfirmed' /\ CheckStage'
  BY <1>1, <1>3 DEF LoginInv, AllConfirmed, Confirmed, CheckStage
<1>7. ActiveStage'
  BY <1>1, <1>2, <1>3, <1>4 DEF ActiveStage
<1>8. RouteStage'
  BY <1>1, <1>2, <1>3, InfoFields DEF RouteStage, Activated, OnlyConfig
<1>9. LoggedIn'
  <2>1. loggedIn # NoKey => gSysLoginInfo.activeFlag = "AA"
    BY <1>2 DEF LoginInv, LoggedIn, Info
  <2> QED
    BY <1>1, <1>2, <1>3, <2>1 DEF LoginInv, LoggedIn, OnlyConfig
<1> QED
  BY <1>5, <1>6, <1>7, <1>8, <1>9 DEF LoginInv

LEMMA RouteEndInv ==
  ASSUME LoginInv, Idle, netWork = "ACTIVE_ROUTE", RouteEnd, UNCHANGED <<family, flash, loggedIn>>
  PROVE  LoginInv'
<1>1. /\ active_route_step = "END" /\ active_route_step' = "CHECK" /\ netWork' = "LOGIN"
      /\ UNCHANGED <<deviceActive, connectRoute, gSysLoginInfo, writes, rsp, confirmed>>
  BY DEF RouteEnd, cloud
<1>2. /\ gSysLoginInfo = Info("AA", gSysLoginInfo.key) /\ OnlyConfig
      /\ gSysLoginInfo = StoredInfo(flash) /\ deviceActive = 0
  BY <1>1 DEF LoginInv, RouteStage, Activated, Idle, ActiveStage
<1>3. gSysLoginInfo.activeFlag = "AA"
  BY <1>2 DEF Info
<1>4. LoginTypes'
  BY <1>1 DEF LoginInv, LoginTypes, FlashOK, WriteOrder
<1>5. AllConfirmed' /\ ActiveStage' /\ RouteStage'
  BY <1>1, <1>2 DEF LoginInv, AllConfirmed, Confirmed, ActiveStage, RouteStage
<1>6. CheckStage' /\ LoggedIn'
  BY <1>1, <1>2, <1>3 DEF LoginInv, CheckStage, LoggedIn, OnlyConfig
<1> QED
  BY <1>4, <1>5, <1>6 DEF LoginInv

\* Outside the activation and the error states RAM is what is stored; it is
\* marked after the routing.
LEMMA LoginFacts ==
  ASSUME LoginInv, netWork \in {"INIT", "LOGIN", "NORMAL"}
  PROVE  /\ active_route_step = "CHECK" /\ deviceActive = 0 /\ OnlyConfig
         /\ gSysLoginInfo \in Infos
         /\ StoredInfo(flash) = gSysLoginInfo
         /\ netWork = "LOGIN" => gSysLoginInfo.activeFlag = "AA"
                                /\ gSysLoginInfo = Info("AA", gSysLoginInfo.key)
<1>1. /\ active_route_step = "CHECK" /\ deviceActive = 0 /\ OnlyConfig
      /\ gSysLoginInfo \in Infos
      /\ netWork = "LOGIN" => gSysLoginInfo.activeFlag = "AA"
      /\ StoredInfo(flash) = gSysLoginInfo
  BY DEF LoginInv, LoginTypes, ActiveStage, CheckStage, AllConfirmed, Confirmed
<1> QED
  BY <1>1, InfoFields

LEMMA LoginStepInv ==
  ASSUME LoginInv, UNCHANGED <<family, flash>>, module_4g_cloud_logIn_process
  PROVE  LoginInv'
<1>1. /\ netWork = "LOGIN" /\ netWork' \in {"LOGIN", "NORMAL", "ERROR"}
      /\ UNCHANGED <<active_route_step, deviceActive, connectRoute, gSysLoginInfo, writes,
                     rsp, confirmed>>
      /\ loggedIn' = loggedIn \/ loggedIn' = gSysLoginInfo.key
  BY DEF module_4g_cloud_logIn_process, LoginJump, cloud
<1>2. LoginTypes'
  BY <1>1, LoginFacts DEF LoginInv, LoginTypes, FlashOK, WriteOrder
<1>3. AllConfirmed' /\ ActiveStage' /\ RouteStage'
  BY <1>1, LoginFacts DEF LoginInv, AllConfirmed, Confirmed, ActiveStage, RouteStage
<1>4. CheckStage'
  BY <1>1, LoginFacts DEF CheckStage, OnlyConfig
<1>5. LoggedIn'
  <2>1. CASE loggedIn' = loggedIn
    BY <1>1, <2>1 DEF LoginInv, LoggedIn, OnlyConfig
  <2>2. CASE loggedIn' = gSysLoginInfo.key
    BY <1>1, <2>2, LoginFacts DEF LoggedIn, OnlyConfig
  <2> QED
    BY <1>1, <2>1, <2>2
<1> QED
  BY <1>2, <1>3, <1>4, <1>5 DEF LoginInv

\* How the state changes without an activation, a routing or a log-in; every way
\* into these three ends the session.
Moves ==
  \/ UNCHANGED <<netWork, session>>
  \/ /\ netWork \in {"INIT", "NORMAL"} /\ netWork' = "REBOOT"
     /\ session' = session \/ session' = NoKey
  \/ netWork = "INIT" /\ netWork' = "NORMAL" /\ UNCHANGED session
  \/ netWork \in {"INIT", "NORMAL"} /\ netWork' = "ACTIVE_ROUTE" /\ session' = NoKey

LEMMA LoginUnchanged ==
  ASSUME LoginInv, Moves,
         UNCHANGED <<family, flash, writes, active_route_step, deviceActive, connectRoute,
                     gSysLoginInfo, rsp, confirmed, loggedIn>>
  PROVE  LoginInv'
<1>1. /\ netWork' = netWork
         \/ /\ netWork \in {"INIT", "NORMAL"}
            /\ netWork' \in {"REBOOT", "NORMAL", "ACTIVE_ROUTE"}
  BY DEF Moves
<1>2. netWork' # netWork => active_route_step = "CHECK"
  BY <1>1 DEF LoginInv, LoginTypes
<1>3. LoginTypes'
  BY <1>1, <1>2 DEF LoginInv, LoginTypes, FlashOK, WriteOrder
<1>4. AllConfirmed' /\ ActiveStage' /\ LoggedIn'
  BY DEF LoginInv, AllConfirmed, Confirmed, ActiveStage, LoggedIn, OnlyConfig
<1>5. RouteStage' /\ CheckStage'
  BY <1>1 DEF LoginInv, RouteStage, Activated, Idle, CheckStage, OnlyConfig
<1> QED
  BY <1>3, <1>4, <1>5 DEF LoginInv

LEMMA ActiveNextInv ==
  ASSUME LoginInv, ActiveNext
  PROVE  LoginInv'
<1>1. Idle /\ UNCHANGED <<family, flash>>
  BY DEF ActiveNext
<1>2. CASE module_4g_cloud_logIn_process
  BY <1>1, <1>2, LoginStepInv
<1>4. CASE PingFails \/ Disconnect
  BY <1>1, <1>4, LoginUnchanged DEF PingFails, Disconnect, Moves, cloud, history
<1>3. CASE module_4g_active_route_process
  <2>1. netWork = "ACTIVE_ROUTE" /\ UNCHANGED loggedIn
    BY <1>3 DEF module_4g_active_route_process, history
  <2> QED
    BY <1>1, <1>3, <2>1, CheckInv, ActiveProcessInv, RouteProcessInv, RouteEndInv
       DEF module_4g_active_route_process
<1> QED
  BY <1>2, <1>3, <1>4 DEF ActiveNext

-----------------------------------------------------------------------------
(* Commands. *)

\* What a command other than the one to activate again may change here.
CommandEffect ==
  /\ UNCHANGED <<family, flash, active_route_step, deviceActive, connectRoute, gSysLoginInfo,
                 rsp, confirmed, revoked, mainTorn, loggedIn, erasing>>
  /\ Moves
  /\ writes' = writes \/ writes' = <<"CONFIG">>

LEMMA ReturnMoves ==
  ASSUME NEW ping, Return(ping)
  PROVE  Moves
BY DEF Return, Moves

LEMMA CommandHasEffect ==
  ASSUME RspAnalyze
  PROVE  CommandEffect \/ (Reactivate /\ UNCHANGED flash)
<1> DEFINE Some == Moves /\ (writes' = writes \/ writes' = <<"CONFIG">>)
<1>0. netWork \in {"INIT", "NORMAL"}
  BY DEF RspAnalyze
<1>1. ASSUME NEW op, NEW s, NEW payload, NEW event, SlotCommand(op, s, payload, event) PROVE Some
  <2>1. UNCHANGED <<netWork, session>> \/ Return(FALSE)
    BY <1>1, Zenon DEF SlotCommand
  <2>2. writes' = writes
    BY <1>1, Zenon DEF SlotCommand
  <2> QED
    BY <2>1, <2>2, ReturnMoves DEF Moves
<1>2. ASSUME NEW op, CubbyCommand(op) \/ ConfigCommandEmpty(op) PROVE Some
  BY <1>2, ReturnMoves DEF CubbyCommand, ConfigCommandEmpty
<1>3. ASSUME NEW op, NEW cmd, NEW m, ConfigCommand(op, cmd, m) PROVE Some
  <2>1. Return(FALSE) /\ (writes' = writes \/ writes' = <<"CONFIG">>)
    BY <1>3, Zenon DEF ConfigCommand
  <2> QED
    BY <2>1, ReturnMoves
<1>4. ASSUME NEW op, NEW cmd, DeviceCommand(op, cmd) PROVE Some
  <2>1. \/ netWork' = "REBOOT" /\ session' = session
        \/ \E ping : Return(ping)
    BY <1>4, Zenon DEF DeviceCommand
  <2>2. writes' = writes
    BY <1>4 DEF DeviceCommand
  <2> QED
    BY <1>0, <2>1, <2>2, ReturnMoves DEF Moves
<1>5. ASSUME NEW op, OtaOrLowpowerCommand(op) PROVE Some
  BY <1>5, ReturnMoves DEF OtaOrLowpowerCommand
<1>6. ASSUME Dropped \/ UnknownTopic PROVE Some
  BY <1>6, ReturnMoves DEF Dropped, UnknownTopic
<1>7. CASE ~Reactivate
  <2>1. Some
    BY <1>1, <1>2, <1>3, <1>4, <1>5, <1>6, <1>7 DEF RspAnalyze
  <2>2. /\ UNCHANGED flash
        /\ UNCHANGED <<family, active_route_step, deviceActive, connectRoute, cloudLogin,
                       tries, gSysLoginInfo, cloud, history, faults>>
    BY <1>7 DEF RspAnalyze
  <2> HIDE DEF Some
  <2> QED
    BY <2>1, <2>2 DEF CommandEffect, cloud, history, Some
<1>8. CASE Reactivate
  BY <1>8 DEF RspAnalyze
<1> QED
  BY <1>7, <1>8

LEMMA CommandInv ==
  ASSUME LoginInv, RspAnalyze
  PROVE  LoginInv'
<1>1. netWork \in {"INIT", "NORMAL"} /\ Idle
  BY DEF RspAnalyze
<1>2. /\ active_route_step = "CHECK" /\ deviceActive = 0 /\ OnlyConfig
      /\ StoredInfo(flash) = gSysLoginInfo
  BY <1>1, LoginFacts
<1>3. CASE CommandEffect
  <2>1. WriteOrder' /\ writes' \in Seq(Areas) /\ OnlyConfig'
    <3>1. writes' = <<>> \/ writes' = <<"CONFIG">>
      BY <1>1, <1>3 DEF CommandEffect, Idle
    <3>2. OnlyConfig'
      BY <3>1 DEF OnlyConfig
    <3> QED
      BY <3>1, <3>2, BegunInOrder
  <2>2. LoginTypes'
    BY <1>1, <1>2, <1>3, <2>1 DEF LoginInv, LoginTypes, FlashOK, CommandEffect, Moves
  <2>3. AllConfirmed' /\ ActiveStage' /\ RouteStage'
    BY <1>2, <1>3 DEF LoginInv, AllConfirmed, Confirmed, ActiveStage, RouteStage, CommandEffect
  <2>4. CheckStage' /\ LoggedIn'
    BY <1>1, <1>2, <1>3, <2>1 DEF LoginInv, CheckStage, LoggedIn, CommandEffect, Moves
  <2> QED
    BY <2>2, <2>3, <2>4 DEF LoginInv
<1>4. CASE Reactivate /\ UNCHANGED flash
  <2>1. /\ UNCHANGED <<family, active_route_step, deviceActive, connectRoute, rsp, confirmed>>
        /\ netWork' = "REBOOT" /\ gSysLoginInfo' = Erased /\ writes' = <<"LOGIN">>
        /\ loggedIn' = NoKey
    BY <1>4 DEF Reactivate, cloud
  <2>2. WriteOrder' /\ writes' \in Seq(Areas)
    BY <2>1, BegunInOrder
  <2>3. LoginTypes'
    BY <1>2, <1>4, <2>1, <2>2 DEF LoginInv, LoginTypes, FlashOK
  <2>4. Erased \in Infos /\ Erased.activeFlag = "0"
    BY InfoIs DEF Erased, AllKeys
  <2>5. AllConfirmed'
    BY <1>4, <2>1, <2>4 DEF LoginInv, AllConfirmed, Confirmed
  <2>6. ActiveStage' /\ RouteStage' /\ CheckStage' /\ LoggedIn'
    BY <1>2, <2>1 DEF ActiveStage, RouteStage, CheckStage, LoggedIn
  <2> QED
    BY <2>3, <2>5, <2>6 DEF LoginInv
<1> QED
  BY <1>3, <1>4, CommandHasEffect

-----------------------------------------------------------------------------
(* Flash writes, restarts and losses of power. *)

LEMMA HeadIsFirst ==
  ASSUME NEW w \in Seq(Areas), Len(w) # 0
  PROVE  w # <<>> /\ Head(w) = w[1]
OBVIOUS

\* What is left to be written after the first of the writes.
LEMMA TailOrder ==
  ASSUME FlashOK, WriteOrder, ~Idle, writes' = Tail(writes)
  PROVE  /\ WriteOrder'
         /\ Head(writes) # "LOGIN" => OnlyConfig'
         /\ OnlyConfig' \/ (writes' # <<>> /\ Head(writes') = "LOGIN_BACK")
         /\ OnlyConfig => Head(writes) = "CONFIG" /\ OnlyConfig'
<1>1. /\ writes \in Seq(Areas) /\ Len(writes) \in Nat \ {0}
      /\ writes' \in Seq(Areas) /\ Len(writes') = Len(writes) - 1
      /\ Head(writes) = writes[1]
      /\ \A i \in 1 .. Len(writes') : writes'[i] = writes[i + 1] /\ i + 1 \in 2 .. Len(writes)
  <2>1. writes \in Seq(Areas) /\ writes # <<>>
    BY DEF FlashOK, Idle
  <2> QED
    BY <2>1
<1>2. \A i \in 2 .. Len(writes) :
        writes[i] = "CONFIG" \/ (i = 2 /\ writes[1] = "LOGIN" /\ writes[2] = "LOGIN_BACK")
  BY DEF WriteOrder
<1>3. \A i \in 2 .. Len(writes') : i \in 1 .. Len(writes') /\ i + 1 # 2
  BY <1>1
<1>4. \A i \in 2 .. Len(writes') : writes'[i] = "CONFIG"
  BY <1>1, <1>2, <1>3
<1>5. WriteOrder'
  BY <1>4 DEF WriteOrder
<1>6. Head(writes) # "LOGIN" => OnlyConfig'
  BY <1>1, <1>2 DEF OnlyConfig
<1>7. OnlyConfig => Head(writes) = "CONFIG" /\ OnlyConfig'
  BY <1>1 DEF OnlyConfig
<1>8. OnlyConfig' \/ (writes' # <<>> /\ Head(writes') = "LOGIN_BACK")
  <2>1. CASE Len(writes') = 0
    BY <1>1, <2>1 DEF OnlyConfig
  <2>2. CASE Len(writes') # 0
    <3>1. /\ 1 \in 1 .. Len(writes') /\ writes' # <<>> /\ Head(writes') = writes'[1]
          /\ writes'[1] = writes[2] /\ 2 \in 2 .. Len(writes)
      <4>1. Len(writes') \in Nat \ {0} /\ 1 \in 1 .. Len(writes')
        BY <1>1, <2>2
      <4>2. writes' # <<>> /\ Head(writes') = writes'[1]
        BY <1>1, <4>1, HeadIsFirst
      <4>3. writes'[1] = writes[1 + 1] /\ 1 + 1 \in 2 .. Len(writes)
        BY <1>1, <4>1
      <4> QED
        BY <4>1, <4>2, <4>3
    <3>2. CASE writes'[1] = "CONFIG"
      <4>1. \A i \in 1 .. Len(writes') : i = 1 \/ i \in 2 .. Len(writes')
        BY <1>1
      <4> QED
        BY <1>4, <3>2, <4>1 DEF OnlyConfig
    <3>3. CASE writes'[1] # "CONFIG"
      BY <1>2, <3>1, <3>3
    <3> QED
      BY <3>2, <3>3
  <2> QED
    BY <2>1, <2>2
<1> QED
  BY <1>5, <1>6, <1>7, <1>8

LEMMA SaveInv ==
  ASSUME LoginInv, ActiveSave
  PROVE  LoginInv'
<1>1. UNCHANGED <<family, netWork, active_route_step, deviceActive, connectRoute, gSysLoginInfo,
                  rsp, confirmed, loggedIn>>
  BY DEF ActiveSave, process
<1>2. FlashOK /\ WriteOrder
  BY DEF LoginInv, LoginTypes
<1>3. PICK area \in Areas :
        /\ ~Idle /\ area = Head(writes) /\ writes' = Tail(writes)
        /\ flash' = [flash EXCEPT ![area] =
                       IF area = "CONFIG" THEN gSysInfo_struct ELSE gSysLoginInfo]
  BY <1>2, SaveWrites
<1>4. FlashOK'
  BY <1>2, SaveWrites
<1>5. /\ area = "LOGIN" => /\ flash'["LOGIN"] = gSysLoginInfo
                           /\ flash'["LOGIN_BACK"] = flash["LOGIN_BACK"]
      /\ area = "LOGIN_BACK" => /\ flash'["LOGIN_BACK"] = gSysLoginInfo
                                /\ flash'["LOGIN"] = flash["LOGIN"]
      /\ area = "CONFIG" => /\ flash'["LOGIN"] = flash["LOGIN"]
                            /\ flash'["LOGIN_BACK"] = flash["LOGIN_BACK"]
  BY <1>2, <1>3 DEF FlashOK, Areas
<1>6. area = "LOGIN" \/ area = "LOGIN_BACK" \/ area = "CONFIG"
  BY DEF Areas
<1>7. /\ WriteOrder'
      /\ Head(writes) # "LOGIN" => OnlyConfig'
      /\ OnlyConfig' \/ (writes' # <<>> /\ Head(writes') = "LOGIN_BACK")
      /\ OnlyConfig => Head(writes) = "CONFIG" /\ OnlyConfig'
  BY <1>2, <1>3, TailOrder
<1>8. OnlyConfig => OnlyConfig' /\ StoredInfo(flash') = StoredInfo(flash)
  BY <1>3, <1>5, <1>7, StoredDepends
<1>9. LoginTypes'
  BY <1>1, <1>4, <1>7 DEF LoginInv, LoginTypes
<1>10. AllConfirmed'
  BY <1>1, <1>5, <1>6 DEF LoginInv, AllConfirmed, Confirmed
<1>11. ActiveStage'
  BY <1>1 DEF LoginInv, ActiveStage
<1>12. CheckStage' /\ LoggedIn'
  BY <1>1, <1>8 DEF LoginInv, CheckStage, LoggedIn
<1>13. RouteStage'
  <2> SUFFICES ASSUME active_route_step \in {"ROUTE", "END"} PROVE RouteStage'
    BY <1>1 DEF RouteStage
  <2>1. gSysLoginInfo = Activated /\ gSysLoginInfo # Torn /\ Activated' = Activated
    BY <1>1, <1>3, ActiveAssumption
       DEF LoginInv, RouteStage, AllConfirmed, Confirmed, Activated
  <2>2. CASE Head(writes) = "LOGIN"
    <3>1. flash'["LOGIN"] = Activated /\ StoredInfo(flash') = Activated
      BY <1>3, <1>5, <2>1, <2>2, StoredIsOriginal
    <3> QED
      BY <1>1, <1>7, <2>1, <3>1 DEF RouteStage, Idle
  <2>3. CASE Head(writes) = "LOGIN_BACK" /\ flash["LOGIN"] = Activated
    <3>1. StoredInfo(flash') = Activated
      BY <1>3, <1>5, <2>1, <2>3, StoredIsOriginal
    <3>2. OnlyConfig'
      BY <1>7, <2>3
    <3> QED
      BY <1>1, <2>1, <3>1, <3>2 DEF RouteStage
  <2>4. CASE OnlyConfig /\ StoredInfo(flash) = Activated
    BY <1>1, <1>8, <2>1, <2>4 DEF RouteStage
  <2> QED
    BY <2>2, <2>3, <2>4 DEF LoginInv, RouteStage
<1> QED
  BY <1>9, <1>10, <1>11, <1>12, <1>13 DEF LoginInv

\* A start-up from a flash whose copies are confirmed or torn.
LEMMA BootInv ==
  ASSUME LoginInv, Restart(flash'), FlashOK', OnlyConfig', WriteOrder',
         \A area \in {"LOGIN", "LOGIN_BACK"} : flash'[area] = Torn \/ Confirmed(flash'[area]),
         loggedIn # NoKey => StoredInfo(flash') = StoredInfo(flash)
  PROVE  LoginInv'
<1>1. /\ netWork' = "INIT" /\ active_route_step' = "CHECK"
      /\ deviceActive' = 0 /\ connectRoute' = 0
      /\ gSysLoginInfo' = StoredInfo(flash')
      /\ UNCHANGED <<family, rsp, confirmed, loggedIn>>
  BY DEF Restart, ActiveBoot, cloud
<1>2. /\ family \in ModuleTypes /\ 0 \in 0 .. GetRow[family] /\ 0 \in 0 .. RouteGetRow[family]
  BY ActiveTable, RouteTable DEF LoginInv, LoginTypes
<1>3. LoginTypes'
  BY <1>1, <1>2 DEF LoginInv, LoginTypes
<1>4. Confirmed(StoredInfo(flash'))
  BY StoredConfirmed
<1>5. AllConfirmed'
  BY <1>1, <1>4 DEF AllConfirmed, Confirmed
<1>6. ActiveStage' /\ RouteStage' /\ CheckStage' /\ LoggedIn'
  BY <1>1 DEF LoginInv, ActiveStage, RouteStage, CheckStage, LoggedIn
<1> QED
  BY <1>3, <1>5, <1>6 DEF LoginInv

LEMMA RebootInv ==
  ASSUME LoginInv, device_reboot
  PROVE  LoginInv'
<1>1. Idle /\ UNCHANGED <<flash, writes>> /\ Restart(flash')
  BY DEF device_reboot, flashVars
<1>2. FlashOK' /\ WriteOrder'
  BY <1>1 DEF LoginInv, LoginTypes, FlashOK, WriteOrder
<1>3. OnlyConfig'
  BY <1>1 DEF Idle, OnlyConfig
<1> QED
  BY <1>1, <1>2, <1>3, BootInv DEF LoginInv, AllConfirmed

LEMMA PowerLossInv ==
  ASSUME LoginInv, PowerLoss
  PROVE  LoginInv'
<1>1. FlashCut /\ Restart(flash')
  BY DEF PowerLoss
<1>2. FlashOK
  BY DEF LoginInv, LoginTypes
<1>3. FlashOK'
  BY <1>1, <1>2, CutTears
<1>4. writes' = <<>>
  BY <1>1 DEF FlashCut
<1>5. WriteOrder' /\ OnlyConfig'
  BY <1>4, BegunInOrder DEF OnlyConfig
<1>6. \A a \in {"LOGIN", "LOGIN_BACK"} :
        flash'[a] = flash[a] \/ (~Idle /\ Head(writes) = a /\ flash'[a] = Torn)
  <2>1. CASE flash' = flash
    BY <2>1
  <2>2. CASE \E area \in Areas : /\ ~Idle /\ area = Head(writes)
                                 /\ flash' = [flash EXCEPT ![area] = Torn]
    BY <1>2, <2>2 DEF FlashOK, Areas
  <2> QED
    BY <1>1, <1>2, <2>1, <2>2, CutTears
<1>7. ASSUME loggedIn # NoKey PROVE StoredInfo(flash') = StoredInfo(flash)
  <2>1. OnlyConfig
    BY <1>7 DEF LoginInv, LoggedIn
  <2>2. ~Idle => Head(writes) = "CONFIG"
    <3>1. writes \in Seq(Areas)
      BY <1>2 DEF FlashOK
    <3>2. ~Idle => Head(writes) = writes[1] /\ 1 \in 1 .. Len(writes)
      BY <3>1 DEF Idle
    <3> QED
      BY <2>1, <3>2 DEF OnlyConfig
  <2> QED
    BY <1>6, <2>2, StoredDepends
<1> QED
  BY <1>1, <1>3, <1>5, <1>6, <1>7, BootInv DEF LoginInv, AllConfirmed

-----------------------------------------------------------------------------
(* The theorems. *)

LEMMA LoginInvInit == Init => LoginInv
<1> SUFFICES ASSUME Init PROVE LoginInv
  OBVIOUS
<1>1. /\ family \in ModuleTypes
      /\ netWork = "INIT" /\ active_route_step = "CHECK"
      /\ deviceActive = 0 /\ connectRoute = 0
      /\ gSysLoginInfo = Erased /\ rsp = [kind |-> "none"] /\ confirmed = {}
      /\ flash = [LOGIN |-> Erased, LOGIN_BACK |-> Erased, CONFIG |-> DefaultConf]
      /\ writes = <<>> /\ loggedIn = NoKey
  BY ActiveAssumption DEF Init, ActiveInit, NoRsp
<1>2. /\ flash = [a \in Areas |-> flash[a]]
      /\ flash["LOGIN"] = Erased /\ flash["LOGIN_BACK"] = Erased
  BY <1>1 DEF Areas
<1>3. OnlyConfig /\ WriteOrder /\ writes \in Seq(Areas)
  BY <1>1 DEF OnlyConfig, WriteOrder
<1>4. 0 \in 0 .. GetRow[family] /\ 0 \in 0 .. RouteGetRow[family]
  BY <1>1, ActiveTable, RouteTable
<1>5. Erased # Torn
  BY InfoIs DEF Erased, AllKeys
<1>6. LoginTypes
  BY <1>1, <1>2, <1>3, <1>4 DEF LoginTypes, FlashOK
<1>7. AllConfirmed
  BY <1>1, <1>2, ErasedConfirmed DEF AllConfirmed
<1>8. StoredInfo(flash) = Erased
  BY <1>2, <1>5, StoredIsOriginal
<1> QED
  BY <1>1, <1>3, <1>6, <1>7, <1>8 DEF LoginInv, ActiveStage, RouteStage, CheckStage, LoggedIn

\* The steps that change neither log-in information nor stages.
LEMMA OtherSteps ==
  ASSUME Report \/ SlotProcess \/ WifiSwitch \/ TakeEvent \/ Communicate \/ UNCHANGED vars
  PROVE  /\ UNCHANGED <<family, flash, writes, active_route_step, deviceActive, connectRoute,
                        cloudLogin, tries, faults, gSysLoginInfo, rsp, confirmed, revoked,
                        mainTorn, loggedIn, erasing>>
         /\ Moves
<1>1. CASE Report \/ TakeEvent \/ Communicate \/ UNCHANGED vars
  BY <1>1 DEF Report, TakeEvent, Communicate, vars, activeVars, flashVars, Moves
<1>2. CASE WifiSwitch
  BY <1>2 DEF WifiSwitch, flashVars, cloud, history, Moves
<1>3. CASE SlotProcess
  <2>1. Moves
    BY <1>3, ReturnMoves DEF SlotProcess, SlotFill, SlotEvent, Moves
  <2> QED
    BY <1>3, <2>1 DEF SlotProcess, flashVars, cloud, history
<1> QED
  BY <1>1, <1>2, <1>3

LEMMA LoginInvStep == LoginInv /\ [Next]_vars => LoginInv'
<1> SUFFICES ASSUME LoginInv, [Next]_vars PROVE LoginInv'
  OBVIOUS
<1>1. CASE Connect
  BY <1>1, ActiveNextInv DEF Connect
<1>2. CASE Save
  BY <1>2, SaveInv DEF Save
<1>3. CASE Report \/ SlotProcess \/ WifiSwitch \/ TakeEvent \/ Communicate \/ UNCHANGED vars
  BY <1>3, OtherSteps, LoginUnchanged
<1>4. CASE device_reboot
  BY <1>4, RebootInv
<1>5. CASE PowerLoss
  BY <1>5, PowerLossInv
<1>6. CASE RspAnalyze
  BY <1>6, CommandInv
<1> QED
  BY <1>1, <1>2, <1>3, <1>4, <1>5, <1>6 DEF Next, Task

THEOREM LoginInvariant == Spec => []LoginInv
BY LoginInvInit, LoginInvStep, PTL DEF Spec

(* No copy of the log-in information, in RAM or in flash, says of a key that *)
(* it is activated unless the cloud has confirmed it, whatever is refused,   *)
(* lost, repeated or cut short between the stages.                           *)
THEOREM MarkedIsConfirmed == Spec => []ActivatedIsConfirmed
<1>1. LoginInv => ActivatedIsConfirmed
  BY DEF LoginInv, AllConfirmed, Confirmed, ActivatedIsConfirmed
<1> QED
  BY <1>1, LoginInvariant, PTL

(* The key a device has logged in with is found again by every start-up      *)
(* until a command asks for another activation, wherever power is lost.      *)
THEOREM LogInSurvives == Spec => []LoggedInSurvives
<1>1. LoginInv => LoggedInSurvives
  BY DEF LoginInv, LoggedIn, LoggedInSurvives
<1> QED
  BY <1>1, LoginInvariant, PTL

-----------------------------------------------------------------------------
(* The session. *)

\* The device and the flash have the session's key only as one that is activated,
\* so that a device restarted on a session is activated if it knows the commands.
SessionInv ==
  /\ netWork \in {"ACTIVE_ROUTE", "LOGIN", "ERROR"} => session = NoKey
  /\ \A info \in {gSysLoginInfo, StoredInfo(flash)} :
       session # NoKey /\ info.key = session => info.activeFlag = "AA"

\* What a write leaves a restart to find: what it would have found, or RAM.
LEMMA SaveStores ==
  ASSUME LoginInv, ActiveSave
  PROVE  StoredInfo(flash') \in {StoredInfo(flash), gSysLoginInfo}
<1>1. PICK area \in Areas :
        /\ ~Idle /\ area = Head(writes) /\ writes' = Tail(writes)
        /\ flash' = [flash EXCEPT ![area] =
                       IF area = "CONFIG" THEN gSysInfo_struct ELSE gSysLoginInfo]
  BY SaveWrites DEF LoginInv, LoginTypes
<1>2. /\ flash'["LOGIN"] = flash["LOGIN"] \/ flash'["LOGIN"] = gSysLoginInfo
      /\ flash'["LOGIN_BACK"] = flash["LOGIN_BACK"] \/ flash'["LOGIN_BACK"] = gSysLoginInfo
  BY <1>1 DEF LoginInv, LoginTypes, FlashOK, Areas
<1>3. gSysLoginInfo # Torn
  BY ActiveAssumption DEF LoginInv, AllConfirmed, Confirmed
<1>4. flash'["LOGIN"] = flash["LOGIN"] \/ flash'["LOGIN_BACK"] = flash["LOGIN_BACK"]
  BY <1>1 DEF LoginInv, LoginTypes, FlashOK, Areas
<1> QED
  BY <1>2, <1>3, <1>4 DEF StoredInfo

LEMMA SessionMoves ==
  ASSUME SessionInv, Moves, UNCHANGED <<flash, gSysLoginInfo>>
  PROVE  SessionInv'
BY DEF SessionInv, Moves

LEMMA SessionTask ==
  ASSUME LoginInv, SessionInv, ActiveNext
  PROVE  SessionInv'
<1>1. CASE PingFails \/ Disconnect
  BY <1>1, SessionMoves DEF ActiveNext, PingFails, Disconnect, Moves
<1>2. CASE module_4g_active_route_process
  <2>1. session' = NoKey
    BY <1>2 DEF module_4g_active_route_process, SessionInv
  <2> QED
    BY <2>1 DEF SessionInv
<1>3. CASE module_4g_cloud_logIn_process
  <2>1. session = NoKey /\ UNCHANGED <<flash, gSysLoginInfo>>
    BY <1>3 DEF ActiveNext, module_4g_cloud_logIn_process, SessionInv
  <2>2. /\ StoredInfo(flash) = gSysLoginInfo /\ gSysLoginInfo.activeFlag = "AA"
    BY <1>3, LoginFacts DEF module_4g_cloud_logIn_process
  <2>3. session' = session \/ netWork' = "NORMAL"
    BY <1>3 DEF module_4g_cloud_logIn_process, LoginJump
  <2> QED
    BY <2>1, <2>2, <2>3 DEF SessionInv
<1> QED
  BY <1>1, <1>2, <1>3 DEF ActiveNext

LEMMA SessionStep == LoginInv /\ SessionInv /\ [Next]_vars => SessionInv'
<1> SUFFICES ASSUME LoginInv, SessionInv, [Next]_vars PROVE SessionInv'
  OBVIOUS
<1>1. CASE Connect
  BY <1>1, SessionTask DEF Connect
<1>2. CASE Save
  <2>1. UNCHANGED <<netWork, session, gSysLoginInfo>>
    BY <1>2 DEF Save, ActiveSave, process
  <2> QED
    BY <1>2, <2>1, SaveStores DEF Save, SessionInv
<1>3. CASE Report \/ SlotProcess \/ WifiSwitch \/ TakeEvent \/ Communicate \/ UNCHANGED vars
  BY <1>3, OtherSteps, SessionMoves
<1>4. CASE device_reboot
  BY <1>4 DEF device_reboot, Restart, ActiveBoot, flashVars, SessionInv
<1>5. CASE PowerLoss
  BY <1>5 DEF PowerLoss, SessionInv
<1>6. CASE RspAnalyze
  <2>1. CASE CommandEffect
    BY <2>1, SessionMoves DEF CommandEffect
  <2>2. CASE Reactivate /\ UNCHANGED flash
    <3>1. gSysLoginInfo'.key = NoKey
      BY <2>2 DEF Reactivate, Erased, Info
    <3> QED
      BY <2>2, <3>1 DEF Reactivate, SessionInv
  <2> QED
    BY <1>6, <2>1, <2>2, CommandHasEffect
<1> QED
  BY <1>1, <1>2, <1>3, <1>4, <1>5, <1>6 DEF Next, Task

LEMMA SessionInvariant == Spec => []SessionInv
<1>1. Init => SessionInv
  BY DEF Init, ActiveInit, SessionInv
<1> QED
  BY <1>1, SessionStep, LoginInvariant, PTL DEF Spec

-----------------------------------------------------------------------------
(* Activating again. *)

\* The states a routing leads to; the answer the modem holds is the routing's.
Routed == netWork = "LOGIN" \/ active_route_step = "END" \/ session # NoKey

RevInv ==
  /\ rsp.kind = "active" => rsp.key \notin revoked
  /\ revoked \subseteq Keys
  /\ Routed => rsp.kind = "route"
  /\ erasing # NoKey => /\ netWork = "REBOOT" /\ gSysLoginInfo = Erased
                        /\ writes = <<"LOGIN">> /\ rsp.kind = "route" /\ erasing \in Keys
  /\ ~mainTorn => /\ flash["LOGIN"] # Torn /\ flash["LOGIN"].key \notin revoked
                  /\ gSysLoginInfo.key \notin revoked

\* What a step of the task does to keys and answers.
KeyEffect ==
  /\ rsp' = rsp \/ rsp'.kind # "active" \/ rsp'.key \notin revoked
  /\ \/ gSysLoginInfo'.key = gSysLoginInfo.key
     \/ gSysLoginInfo'.key \in BadKeys
     \/ rsp.kind = "active" /\ gSysLoginInfo'.key = rsp.key
  /\ Routed' => rsp' = rsp /\ (rsp.kind = "route" \/ Routed)

LEMMA ActiveKeyEffect ==
  ASSUME LoginInv, device_active_process, session' = NoKey
  PROVE  KeyEffect
<1>1. gSysLoginInfo \in Infos /\ netWork' = "ACTIVE_ROUTE"
  BY ActiveRowFacts DEF device_active_process, LoginInv, AllConfirmed, Confirmed
<1>2. active_route_step' # "END"
  <2>1. \A row : ActiveJump(row) => active_route_step' # "END"
    BY DEF ActiveJump
  <2>2. \A ok : ActiveAttempt(ok) => active_route_step' # "END"
    BY <2>1 DEF ActiveAttempt, device_active_process
  <2> QED
    BY <2>1, <2>2 DEF device_active_process, ActiveCommand, ActiveConnect,
       net4g_active_post_rsp_cb, ActiveConfirmConnect, net4g_active_confirm_rsp_cb
<1>3. ~Routed'
  BY <1>1, <1>2 DEF Routed
<1>4. CASE ActiveCommand \/ ActiveConnect \/ ActiveConfirmConnect
  BY <1>3, <1>4 DEF ActiveCommand, ActiveConnect, ActiveConfirmConnect, cloud, KeyEffect
<1>5. CASE net4g_active_post_rsp_cb
  <2>1. UNCHANGED rsp
    BY <1>5 DEF net4g_active_post_rsp_cb, cloud
  <2>2. \/ gSysLoginInfo' = gSysLoginInfo
        \/ \E bad \in BadKeys : \E copied \in Copied(gSysLoginInfo.key, bad) :
             gSysLoginInfo' = [gSysLoginInfo EXCEPT !.key = copied]
        \/ \E copied \in Copied(gSysLoginInfo.key, rsp.key) :
             /\ rsp.kind = "active"
             /\ \/ gSysLoginInfo' = Info("BB", copied)
                \/ gSysLoginInfo' = [gSysLoginInfo EXCEPT !.key = copied]
    BY <1>5, Zenon DEF net4g_active_post_rsp_cb
  <2>3. \A copied : /\ [gSysLoginInfo EXCEPT !.key = copied].key = copied
                    /\ Info("BB", copied).key = copied
    BY <1>1 DEF Infos, Info
  <2>4. \A new : \A copied \in Copied(gSysLoginInfo.key, new) :
          copied = new \/ copied \in BadKeys \/ copied = gSysLoginInfo.key
    BY DEF Copied
  <2>5. \/ gSysLoginInfo'.key = gSysLoginInfo.key
        \/ gSysLoginInfo'.key \in BadKeys
        \/ rsp.kind = "active" /\ gSysLoginInfo'.key = rsp.key
    <3>1. CASE gSysLoginInfo' = gSysLoginInfo
      BY <3>1
    <3>2. ASSUME NEW bad \in BadKeys, NEW copied \in Copied(gSysLoginInfo.key, bad),
                 gSysLoginInfo' = [gSysLoginInfo EXCEPT !.key = copied]
          PROVE  gSysLoginInfo'.key \in BadKeys \cup {gSysLoginInfo.key}
      <4>1. gSysLoginInfo'.key = copied
        BY <2>3, <3>2
      <4>2. copied = bad \/ copied \in BadKeys \/ copied = gSysLoginInfo.key
        BY <2>4, <3>2
      <4> QED
        BY <3>2, <4>1, <4>2
    <3>3. ASSUME NEW copied \in Copied(gSysLoginInfo.key, rsp.key),
                 \/ gSysLoginInfo' = Info("BB", copied)
                 \/ gSysLoginInfo' = [gSysLoginInfo EXCEPT !.key = copied]
          PROVE  gSysLoginInfo'.key \in BadKeys \cup {gSysLoginInfo.key, rsp.key}
      <4>1. gSysLoginInfo'.key = copied
        BY <2>3, <3>3
      <4>2. copied = rsp.key \/ copied \in BadKeys \/ copied = gSysLoginInfo.key
        BY <2>4, <3>3
      <4> QED
        BY <4>1, <4>2
    <3> QED
      BY <2>2, <3>1, <3>2, <3>3
  <2> QED
    BY <1>3, <2>1, <2>5 DEF KeyEffect
<1>6. CASE net4g_active_confirm_rsp_cb
  <2>1. UNCHANGED rsp
    BY <1>6 DEF net4g_active_confirm_rsp_cb, cloud
  <2>2. gSysLoginInfo' = gSysLoginInfo
        \/ \E flag : gSysLoginInfo' = [gSysLoginInfo EXCEPT !.activeFlag = flag]
    BY <1>6 DEF net4g_active_confirm_rsp_cb
  <2>3. gSysLoginInfo'.key = gSysLoginInfo.key
    BY <1>1, <2>2 DEF Infos
  <2> QED
    BY <1>3, <2>1, <2>3 DEF KeyEffect
<1> QED
  BY <1>4, <1>5, <1>6 DEF device_active_process

LEMMA RouteKeyEffect ==
  ASSUME LoginInv, device_route_process, session' = NoKey
  PROVE  KeyEffect
<1>1. /\ active_route_step = "ROUTE" /\ gSysLoginInfo \in Infos
      /\ RouteStep.id = "GET_HTTP_RSP" <=> connectRoute = RouteGetRow[family]
      /\ family \in ModuleTypes /\ connectRoute \in 0 .. RouteGetRow[family]
  BY RouteFacts DEF device_route_process
<1>2. netWork = "ACTIVE_ROUTE"
  BY <1>1 DEF LoginInv, LoginTypes
<1>3. CASE RouteCommand \/ RouteConnect
  <2>1. \E ok \in BOOLEAN : RouteTo(ok)
    BY <1>1, <1>3, RouteJumpEffect DEF RouteCommand, RouteConnect, RouteTo
  <2>2. RouteStep.id # "GET_HTTP_RSP"
    BY <1>3 DEF RouteCommand, RouteConnect
  <2>3. ~Routed'
    BY <1>1, <1>2, <2>1, <2>2 DEF RouteTo, Routed
  <2> QED
    BY <1>3, <2>3 DEF RouteCommand, RouteConnect, KeyEffect
<1>4. CASE device_route_rsp_cb
  <2>1. UNCHANGED rsp
    BY <1>4 DEF device_route_rsp_cb
  <2>2. gSysLoginInfo' = gSysLoginInfo
        \/ gSysLoginInfo' = [gSysLoginInfo EXCEPT !.activeFlag = "0"]
    BY <1>4 DEF device_route_rsp_cb
  <2>3. gSysLoginInfo'.key = gSysLoginInfo.key
    BY <1>1, <2>2 DEF Infos
  <2>4. ASSUME rsp.kind # "route" PROVE ~Routed'
    <3>1. RouteAttempt(FALSE)
      BY <1>4, <2>4 DEF device_route_rsp_cb
    <3>2. CASE tries + 1 = RETRY
      <4>1. RouteJump(IF FALSE THEN RouteStep.s_jump ELSE RouteStep.f_jump)
        BY <3>1, <3>2 DEF RouteAttempt
      <4>2. RouteTo(FALSE)
        BY <1>1, <4>1, RouteJumpEffect DEF RouteTo
      <4> QED
        BY <4>2 DEF RouteTo, Routed
    <3>3. CASE tries + 1 # RETRY
      BY <1>1, <1>2, <3>1, <3>3 DEF RouteAttempt, Routed
    <3> QED
      BY <3>2, <3>3
  <2> QED
    BY <2>1, <2>3, <2>4 DEF KeyEffect
<1> QED
  BY <1>3, <1>4 DEF device_route_process

LEMMA TaskKeyEffect ==
  ASSUME LoginInv, SessionInv, ActiveNext
  PROVE  KeyEffect /\ UNCHANGED <<flash, revoked, mainTorn, erasing>> /\ netWork # "REBOOT"
<1>1. UNCHANGED flash /\ netWork # "REBOOT"
  BY DEF ActiveNext, module_4g_active_route_process, module_4g_cloud_logIn_process, PingFails,
         Disconnect
<1>2. CASE module_4g_cloud_logIn_process \/ PingFails \/ Disconnect
  BY <1>1, <1>2 DEF module_4g_cloud_logIn_process, PingFails, Disconnect, cloud, history,
     KeyEffect, Routed
<1>3. CASE module_4g_active_route_process
  <2>1. UNCHANGED <<mainTorn, erasing>> /\ session' = NoKey
    BY <1>3 DEF module_4g_active_route_process, history, SessionInv
  <2>2. CASE device_active_process
    <3>1. UNCHANGED revoked
      BY <2>2 DEF device_active_process, ActiveCommand, ActiveConnect, net4g_active_post_rsp_cb,
         ActiveConfirmConnect, net4g_active_confirm_rsp_cb, cloud
    <3> QED
      BY <1>1, <2>1, <2>2, <3>1, ActiveKeyEffect
  <2>3. CASE device_route_process
    BY <1>1, <2>1, <2>3, RouteKeyEffect DEF device_route_process
  <2>4. CASE check_active_or_route
    BY <1>1, <2>1, <2>4 DEF check_active_or_route, cloud, KeyEffect, Routed
  <2>5. CASE RouteEnd
    BY <1>1, <2>1, <2>5 DEF RouteEnd, cloud, KeyEffect, Routed
  <2> QED
    BY <1>3, <2>2, <2>3, <2>4, <2>5 DEF module_4g_active_route_process
<1> QED
  BY <1>2, <1>3 DEF ActiveNext

LEMMA RevTask ==
  ASSUME LoginInv, SessionInv, RevInv, ActiveNext
  PROVE  RevInv'
<1>1. KeyEffect /\ UNCHANGED <<flash, revoked, mainTorn, erasing>> /\ netWork # "REBOOT"
  BY TaskKeyEffect
<1>2. erasing = NoKey /\ BadKeys \cap revoked = {}
  BY <1>1, ActiveAssumption DEF RevInv
<1> QED
  BY <1>1, <1>2 DEF RevInv, KeyEffect

LEMMA RevCommand ==
  ASSUME LoginInv, SessionInv, RevInv, RspAnalyze
  PROVE  RevInv'
<1>1. netWork \in {"INIT", "NORMAL"} /\ erasing = NoKey /\ rsp.kind = "route"
  BY DEF RspAnalyze, RevInv, Routed
<1>2. CASE CommandEffect
  BY <1>1, <1>2 DEF CommandEffect, Moves, RevInv, Routed
<1>3. CASE Reactivate /\ UNCHANGED flash
  <2>1. /\ gSysLoginInfo' = Erased /\ writes' = <<"LOGIN">> /\ netWork' = "REBOOT"
        /\ erasing' = gSysLoginInfo.key
        /\ UNCHANGED <<rsp, revoked, mainTorn, active_route_step>>
    BY <1>3 DEF Reactivate, cloud
  <2>2. gSysLoginInfo.key \in Keys
    BY <1>3 DEF Reactivate, Addressed, SessionInv, LoginInv, LoginTypes, AllConfirmed, Confirmed
  <2>3. Erased.key = NoKey /\ NoKey \notin revoked
    BY ActiveAssumption DEF Erased, Info, RevInv
  <2>4. active_route_step = "CHECK"
    BY <1>1, LoginFacts
  <2> QED
    BY <1>1, <1>3, <2>1, <2>2, <2>3, <2>4 DEF RevInv, Routed
<1> QED
  BY <1>2, <1>3, CommandHasEffect

LEMMA RevSave ==
  ASSUME LoginInv, RevInv, ActiveSave
  PROVE  RevInv'
<1>1. /\ UNCHANGED <<netWork, active_route_step, gSysLoginInfo, rsp, session, mainTorn>>
      /\ revoked' = revoked \cup ({erasing} \ {NoKey}) /\ erasing' = NoKey
  BY DEF ActiveSave, process
<1>2. PICK area \in Areas :
        /\ ~Idle /\ area = Head(writes) /\ writes' = Tail(writes)
        /\ flash' = [flash EXCEPT ![area] =
                       IF area = "CONFIG" THEN gSysInfo_struct ELSE gSysLoginInfo]
  BY SaveWrites DEF LoginInv, LoginTypes
<1>3. /\ area = "LOGIN" => flash'["LOGIN"] = gSysLoginInfo
      /\ area # "LOGIN" => flash'["LOGIN"] = flash["LOGIN"]
  BY <1>2 DEF LoginInv, LoginTypes, FlashOK, Areas
<1>4. gSysLoginInfo # Torn
  BY ActiveAssumption DEF LoginInv, AllConfirmed, Confirmed
<1>5. CASE erasing = NoKey
  BY <1>1, <1>3, <1>4, <1>5 DEF RevInv, Routed
<1>6. CASE erasing # NoKey
  <2>1. /\ gSysLoginInfo = Erased /\ writes = <<"LOGIN">> /\ rsp.kind = "route"
        /\ erasing \in Keys /\ revoked \subseteq Keys
    BY <1>6 DEF RevInv
  <2>2. flash'["LOGIN"] = Erased
    BY <1>2, <1>3, <2>1
  <2>3. Erased.key = NoKey /\ revoked' \subseteq Keys /\ NoKey \notin Keys
    BY <1>1, <2>1, ActiveAssumption DEF Erased, Info
  <2> QED
    BY <1>1, <1>4, <2>1, <2>2, <2>3 DEF RevInv
<1> QED
  BY <1>5, <1>6

\* A start-up notes a torn original.
LEMMA RevBoot ==
  ASSUME RevInv, Restart(flash'), session' \in {session, NoKey},
         flash'["LOGIN"] = flash["LOGIN"] \/ flash'["LOGIN"] = Torn
  PROVE  RevInv'
<1>1. /\ netWork' = "INIT" /\ active_route_step' = "CHECK" /\ erasing' = NoKey
      /\ mainTorn' = (mainTorn \/ flash'["LOGIN"] = Torn)
      /\ gSysLoginInfo' = StoredInfo(flash')
      /\ UNCHANGED <<rsp, revoked>>
  BY DEF Restart, ActiveBoot, cloud
<1>2. ASSUME ~mainTorn'
      PROVE  /\ ~mainTorn /\ flash'["LOGIN"] # Torn /\ flash'["LOGIN"] = flash["LOGIN"]
             /\ gSysLoginInfo' = flash["LOGIN"]
  BY <1>1, <1>2, StoredIsOriginal
<1> QED
  BY <1>1, <1>2 DEF RevInv, Routed

LEMMA RevStep == LoginInv /\ SessionInv /\ RevInv /\ [Next]_vars => RevInv'
<1> SUFFICES ASSUME LoginInv, SessionInv, RevInv, [Next]_vars PROVE RevInv'
  OBVIOUS
<1>1. CASE Connect
  BY <1>1, RevTask DEF Connect
<1>2. CASE Save
  BY <1>2, RevSave DEF Save
<1>3. CASE Report \/ SlotProcess \/ WifiSwitch \/ TakeEvent \/ Communicate \/ UNCHANGED vars
  BY <1>3, OtherSteps DEF RevInv, Routed, Moves
<1>4. CASE device_reboot
  BY <1>4, RevBoot DEF device_reboot, flashVars
<1>5. CASE PowerLoss
  <2>1. FlashCut /\ Restart(flash') /\ FlashOK /\ session' = NoKey
    BY <1>5 DEF PowerLoss, LoginInv, LoginTypes
  <2>2. flash'["LOGIN"] = flash["LOGIN"] \/ flash'["LOGIN"] = Torn
    <3>1. CASE flash' = flash
      BY <3>1
    <3>2. CASE \E area \in Areas : flash' = [flash EXCEPT ![area] = Torn]
      BY <2>1, <3>2 DEF FlashOK, Areas
    <3> QED
      BY <2>1, <3>1, <3>2, CutTears
  <2> QED
    BY <2>1, <2>2, RevBoot
<1>6. CASE RspAnalyze
  BY <1>6, RevCommand
<1> QED
  BY <1>1, <1>2, <1>3, <1>4, <1>5, <1>6 DEF Next, Task

LEMMA RevInvariant == Spec => []RevInv
<1>1. Init => RevInv
  <2> SUFFICES ASSUME Init PROVE RevInv
    OBVIOUS
  <2>1. /\ netWork = "INIT" /\ active_route_step = "CHECK" /\ session = NoKey
        /\ rsp = [kind |-> "none"] /\ revoked = {} /\ erasing = NoKey
        /\ flash = [LOGIN |-> Erased, LOGIN_BACK |-> Erased, CONFIG |-> DefaultConf]
    BY DEF Init, ActiveInit, NoRsp
  <2>2. flash["LOGIN"] # Torn
    BY <2>1, InfoIs DEF Erased, AllKeys
  <2> QED
    BY <2>1, <2>2 DEF RevInv, Routed
<1> QED
  BY <1>1, RevStep, LoginInvariant, SessionInvariant, PTL DEF Spec

(* A key that a command has erased is not used again, in normal state, on    *)
(* a device whose original log-in information was never torn, for every set  *)
(* of keys and any number of commands and faults.                            *)
THEOREM ErasedStaysErased == Spec => []ReactivationHolds
<1>1. RevInv => ReactivationHolds
  BY DEF RevInv, ReactivationHolds
<1> QED
  BY <1>1, RevInvariant, PTL

-----------------------------------------------------------------------------
(* The types. *)

\* What the invariants above leave open of the task's state ...
Counts == tries \in 0 .. RETRY - 1 /\ faults \in 0 .. MaxFaults

Stages ==
  /\ family \in Families
  /\ netWork \in {"INIT", "ACTIVE_ROUTE", "LOGIN", "NORMAL", "ERROR", "REBOOT"}
  /\ session \in AllKeys
  /\ cloudLogin \in 0 .. 10
  /\ loggedIn \in Keys \cup {NoKey}

\* ... and of that of the commands: payloads and events are those of commands.
Payloads ==
  /\ filling # <<>> => taken >= 1
  /\ UartSendBuf \in [Slots -> 0 .. Junk]
  /\ events \in Seq([slot : Slots, cmd : 1 .. MaxMsgs])

Flags == mainTorn \in BOOLEAN /\ report \in BOOLEAN /\ wait_report \in BOOLEAN

\* A walk of the log-in that goes on stays in its table.
LEMMA SignInTable ==
  ASSUME NEW f \in ModuleTypes, NEW r \in 0 .. 10
  PROVE  LET step == SignInSteps[f][r + 1] IN
         /\ step.s_jump = r + 1
         /\ step.f_jump \in {1, 2, 12}
         /\ SignInSteps[f][12].id = "SUCCESS" /\ SignInSteps[f][13].id = "ERROR"
<1>1. \/ r = 0 \/ r = 1 \/ r = 2 \/ r = 3 \/ r = 4 \/ r = 5 \/ r = 6 \/ r = 7 \/ r = 8
      \/ r = 9 \/ r = 10
  OBVIOUS
<1>2. \E row2 : SignInSteps[f] = SignInStepsWith(row2)
  BY DEF ModuleTypes, SignInSteps
<1> QED
  BY <1>1, <1>2 DEF SignInStepsWith, Row

LEMMA FaultCounts ==
  ASSUME faults \in 0 .. MaxFaults, NEW happens, Fault(happens)
  PROVE  faults' \in 0 .. MaxFaults
<1>1. MaxFaults \in Nat
  BY ActiveAssumption
<1>2. CASE happens
  BY <1>1, <1>2 DEF Fault
<1>3. CASE ~happens
  BY <1>3 DEF Fault
<1> QED
  BY <1>2, <1>3

LEMMA AttemptCounts ==
  ASSUME tries \in 0 .. RETRY - 1, NEW ok, ActiveAttempt(ok) \/ RouteAttempt(ok)
  PROVE  tries' \in 0 .. RETRY - 1
<1>1. RETRY \in Nat \ {0}
  BY ActiveAssumption
<1>2. tries' = 0 \/ (tries + 1 # RETRY /\ tries' = tries + 1)
  <2>1. CASE ActiveAttempt(ok)
    BY <2>1, Zenon DEF ActiveAttempt, ActiveJump
  <2>2. CASE RouteAttempt(ok)
    BY <2>2, Zenon DEF RouteAttempt, RouteJump
  <2> QED
    BY <2>1, <2>2
<1> QED
  BY <1>1, <1>2

LEMMA ActiveCounts ==
  ASSUME Counts, device_active_process
  PROVE  Counts'
<1>0. tries \in 0 .. RETRY - 1 /\ faults \in 0 .. MaxFaults /\ 0 \in 0 .. RETRY - 1
  BY ActiveAssumption DEF Counts
<1>1. ASSUME NEW row, ActiveJump(row) PROVE tries' = 0
  BY <1>1, Zenon DEF ActiveJump
<1>2. CASE ActiveCommand
  <2>1. tries' = 0
    BY <1>1, <1>2, Zenon DEF ActiveCommand
  <2>2. faults' \in 0 .. MaxFaults
    BY <1>0, <1>2, FaultCounts, Zenon DEF ActiveCommand
  <2> QED
    BY <1>0, <2>1, <2>2 DEF Counts
<1>3. CASE ActiveConnect
  <2>1. tries' = 0
    BY <1>1, <1>3, Zenon DEF ActiveConnect
  <2>2. faults' \in 0 .. MaxFaults
    BY <1>0, <1>3, FaultCounts, Zenon DEF ActiveConnect
  <2> QED
    BY <1>0, <2>1, <2>2 DEF Counts
<1>4. CASE net4g_active_post_rsp_cb
  <2>1. \E ok : ActiveAttempt(ok)
    BY <1>4, Zenon DEF net4g_active_post_rsp_cb
  <2>2. faults' \in 0 .. MaxFaults
    BY <1>0, <1>4, FaultCounts, Zenon DEF net4g_active_post_rsp_cb
  <2> QED
    BY <1>0, <2>1, <2>2, AttemptCounts DEF Counts
<1>5. CASE ActiveConfirmConnect
  <2>1. tries' = 0
    BY <1>1, <1>5, Zenon DEF ActiveConfirmConnect
  <2>2. faults' \in 0 .. MaxFaults
    BY <1>0, <1>5, FaultCounts, Zenon DEF ActiveConfirmConnect
  <2> QED
    BY <1>0, <2>1, <2>2 DEF Counts
<1>6. CASE net4g_active_confirm_rsp_cb
  <2>1. \E ok : ActiveAttempt(ok)
    BY <1>6, Zenon DEF net4g_active_confirm_rsp_cb
  <2>2. faults' \in 0 .. MaxFaults
    BY <1>0, <1>6, FaultCounts, Zenon DEF net4g_active_confirm_rsp_cb
  <2> QED
    BY <1>0, <2>1, <2>2, AttemptCounts DEF Counts
<1> QED
  BY <1>2, <1>3, <1>4, <1>5, <1>6 DEF device_active_process

LEMMA RouteCounts ==
  ASSUME Counts, device_route_process
  PROVE  Counts' /\ (netWork' = netWork \/ netWork' = "ERROR")
<1>0. tries \in 0 .. RETRY - 1 /\ faults \in 0 .. MaxFaults /\ 0 \in 0 .. RETRY - 1
  BY ActiveAssumption DEF Counts
<1>1. ASSUME NEW row, RouteJump(row)
      PROVE  tries' = 0 /\ (netWork' = netWork \/ netWork' = "ERROR")
  BY <1>1, Zenon DEF RouteJump
<1>2. ASSUME NEW ok, RouteAttempt(ok)
      PROVE  tries' \in 0 .. RETRY - 1 /\ (netWork' = netWork \/ netWork' = "ERROR")
  <2>1. netWork' = netWork \/ netWork' = "ERROR"
    BY <1>1, <1>2, Zenon DEF RouteAttempt
  <2> QED
    BY <1>0, <1>2, <2>1, AttemptCounts
<1>3. CASE RouteCommand
  <2>1. tries' = 0 /\ (netWork' = netWork \/ netWork' = "ERROR")
    BY <1>1, <1>3, Zenon DEF RouteCommand
  <2>2. faults' \in 0 .. MaxFaults
    BY <1>0, <1>3, FaultCounts, Zenon DEF RouteCommand
  <2> QED
    BY <1>0, <2>1, <2>2 DEF Counts
<1>4. CASE RouteConnect
  <2>1. tries' = 0 /\ (netWork' = netWork \/ netWork' = "ERROR")
    BY <1>1, <1>4, Zenon DEF RouteConnect
  <2>2. faults' \in 0 .. MaxFaults
    BY <1>0, <1>4, FaultCounts, Zenon DEF RouteConnect
  <2> QED
    BY <1>0, <2>1, <2>2 DEF Counts
<1>5. CASE device_route_rsp_cb
  <2>1. \E ok : RouteAttempt(ok)
    BY <1>5, Zenon DEF device_route_rsp_cb
  <2>2. faults' \in 0 .. MaxFaults
    BY <1>0, <1>5, FaultCounts, Zenon DEF device_route_rsp_cb
  <2> QED
    BY <1>2, <2>1, <2>2 DEF Counts
<1> QED
  BY <1>3, <1>4, <1>5 DEF device_route_process

\* A log-in uses a key that is marked, so one the cloud issued.
LEMMA MarkedIsKey ==
  ASSUME LoginInv, netWork = "LOGIN"
  PROVE  gSysLoginInfo.key \in Keys
BY LoginFacts DEF LoginInv, LoginTypes, AllConfirmed, Confirmed

LEMMA TaskTypes ==
  ASSUME LoginInv, Counts, Stages, ActiveNext
  PROVE  Counts' /\ Stages'
<1>1. UNCHANGED family /\ family \in ModuleTypes
  BY DEF ActiveNext, LoginInv, LoginTypes
<1>2. CASE module_4g_cloud_logIn_process
  <2>1. netWork = "LOGIN" /\ UNCHANGED tries
    BY <1>2 DEF module_4g_cloud_logIn_process
  <2>2. faults' \in 0 .. MaxFaults
    BY <1>2, FaultCounts, Zenon DEF module_4g_cloud_logIn_process, Counts
  <2>3. cloudLogin \in 0 .. 10
    BY DEF Stages
  <2> DEFINE step == SignInSteps[family][cloudLogin + 1]
             Id(r) == SignInSteps[family][r + 1].id
  <2>4. \E r \in {step.s_jump, step.f_jump} : LoginJump(r)
    BY <1>2, Zenon DEF module_4g_cloud_logIn_process
  <2>5. PICK r \in {cloudLogin + 1, 1, 2, 12} : LoginJump(r)
    BY <1>1, <2>3, <2>4, SignInTable
  <2>6. /\ cloudLogin' = IF Id(r) \in {"SUCCESS", "ERROR"} THEN 0 ELSE r
        /\ netWork' \in {"NORMAL", "ERROR", "LOGIN"}
        /\ loggedIn' = gSysLoginInfo.key \/ loggedIn' = loggedIn
        /\ session' = gSysLoginInfo.key \/ session' = session
    BY <2>5, Zenon DEF LoginJump
  <2>7. Id(11) = "SUCCESS" /\ Id(12) = "ERROR"
    BY <1>1, <2>3, SignInTable
  <2>8. r \in 0 .. 10 \/ r = 11 \/ r = 12
    BY <2>3
  <2>9. cloudLogin' \in 0 .. 10
    <3> HIDE DEF Id
    <3> QED
      BY <2>6, <2>7, <2>8
  <2>10. loggedIn' \in Keys \cup {NoKey} /\ session' \in AllKeys
    BY <2>1, <2>6, MarkedIsKey DEF Stages, AllKeys
  <2> QED
    BY <1>1, <2>1, <2>2, <2>6, <2>9, <2>10 DEF Counts, Stages
<1>3. CASE PingFails \/ Disconnect
  <2>1. faults' \in 0 .. MaxFaults
    BY <1>3, FaultCounts, Zenon DEF PingFails, Disconnect, Counts
  <2>2. /\ UNCHANGED <<tries, cloudLogin, loggedIn>>
        /\ netWork' \in {"ACTIVE_ROUTE", "REBOOT"} /\ session' \in {session, NoKey}
    BY <1>3 DEF PingFails, Disconnect, history
  <2> QED
    BY <1>1, <2>1, <2>2 DEF Counts, Stages, AllKeys
<1>4. CASE module_4g_active_route_process
  <2>0. UNCHANGED <<loggedIn, session>>
    BY <1>4 DEF module_4g_active_route_process, history
  <2>1. CASE check_active_or_route \/ RouteEnd
    <3>1. /\ UNCHANGED <<tries, faults, cloudLogin>>
          /\ netWork' = netWork \/ netWork' = "LOGIN"
      BY <2>1 DEF check_active_or_route, RouteEnd
    <3> QED
      BY <1>1, <2>0, <3>1 DEF Counts, Stages
  <2>2. CASE device_active_process
    <3>1. UNCHANGED <<netWork, cloudLogin>>
      BY <2>2 DEF device_active_process
    <3> QED
      BY <1>1, <2>0, <2>2, <3>1, ActiveCounts DEF Stages
  <2>3. CASE device_route_process
    <3>1. UNCHANGED cloudLogin
      BY <2>3 DEF device_route_process
    <3> QED
      BY <1>1, <2>0, <2>3, <3>1, RouteCounts DEF Stages
  <2> QED
    BY <1>4, <2>1, <2>2, <2>3 DEF module_4g_active_route_process
<1> QED
  BY <1>2, <1>3, <1>4 DEF ActiveNext

LEMMA StagesKept ==
  ASSUME Counts, Stages, Moves, UNCHANGED <<family, tries, faults, cloudLogin, loggedIn>>
  PROVE  Counts' /\ Stages'
BY DEF Counts, Stages, Moves, AllKeys

LEMMA CommandStages ==
  ASSUME LoginInv, Counts, Stages, RspAnalyze
  PROVE  Counts' /\ Stages'
<1>1. CASE CommandEffect
  <2>1. UNCHANGED <<tries, faults, cloudLogin>>
    BY DEF RspAnalyze, Reactivate
  <2> QED
    BY <1>1, <2>1, StagesKept DEF CommandEffect
<1>2. CASE Reactivate
  BY <1>2 DEF Reactivate, Counts, Stages
<1> QED
  BY <1>1, <1>2, CommandHasEffect

LEMMA BootStages ==
  ASSUME Counts, Stages, NEW fl, ActiveBoot(fl), faults' \in 0 .. MaxFaults,
         session' \in {session, NoKey}
  PROVE  Counts' /\ Stages'
<1>1. /\ UNCHANGED <<family, loggedIn>> /\ netWork' = "INIT"
      /\ tries' = 0 /\ cloudLogin' = 0
  BY DEF ActiveBoot
<1>2. 0 \in 0 .. RETRY - 1
  BY ActiveAssumption
<1> QED
  BY <1>1, <1>2 DEF Counts, Stages, AllKeys

LEMMA StageStep ==
  ASSUME LoginInv, Counts, Stages, [Next]_vars
  PROVE  Counts' /\ Stages'
<1>1. CASE Connect
  BY <1>1, TaskTypes DEF Connect
<1>2. CASE Save
  BY <1>2, StagesKept DEF Save, ActiveSave, process, Moves
<1>3. CASE Report \/ SlotProcess \/ WifiSwitch \/ TakeEvent \/ Communicate \/ UNCHANGED vars
  BY <1>3, OtherSteps, StagesKept
<1>4. CASE device_reboot
  BY <1>4, BootStages DEF device_reboot, Restart, Counts
<1>5. CASE PowerLoss
  BY <1>5, BootStages, FaultCounts DEF PowerLoss, Restart, Counts
<1>6. CASE RspAnalyze
  BY <1>6, CommandStages
<1> QED
  BY <1>1, <1>2, <1>3, <1>4, <1>5, <1>6 DEF Next, Task

\* What a slot command stores and announces is its own number, which is at most
\* the number of commands received, or junk.
LEMMA SlotPayloads ==
  ASSUME BufInv, Payloads,
         NEW op, NEW s, NEW payload, NEW event, SlotCommand(op, s, payload, event)
  PROVE  Payloads'
<1>1. 0 \in 0 .. Junk
  BY CmdAssumption DEF Junk
<1>2. UNCHANGED events /\ UartSendBuf' = [UartSendBuf EXCEPT ![s] = Empty]
  BY Zenon DEF SlotCommand
<1>3. taken' = taken + 1 \/ (taken' = taken /\ filling' = filling)
  BY Zenon DEF SlotCommand
<1>4. taken \in Nat
  BY DEF BufInv
<1>5. UartSendBuf' \in [Slots -> 0 .. Junk] /\ UNCHANGED events
  BY <1>1, <1>2 DEF Payloads, Empty
<1>6. filling' # <<>> => taken' >= 1
  BY <1>3, <1>4 DEF Payloads
<1> QED
  BY <1>5, <1>6 DEF Payloads

LEMMA SlotProcessPayloads ==
  ASSUME BufInv, Payloads, SlotProcess
  PROVE  Payloads'
<1>1. filling # <<>> /\ UNCHANGED taken
  BY DEF SlotProcess, SlotFill, SlotEvent
<1>2. taken \in 1 .. MaxMsgs /\ MaxMsgs \in Nat
  BY <1>1, CmdAssumption DEF BufInv, Payloads
<1>3. filling[1].slot \in Slots /\ filling[1].payload \in {"short", "long", "absent", "filled"}
  BY <1>1, Filling
<1>4. CASE SlotFill
  <2>1. PICK stored \in {taken, Empty, Junk, UartSendBuf[filling[1].slot]} :
          UartSendBuf' = [UartSendBuf EXCEPT ![filling[1].slot] = stored]
    BY <1>3, <1>4 DEF SlotFill, Stored
  <2>2. stored \in 0 .. Junk
    BY <1>2, <1>3, <2>1 DEF Empty, Junk, Payloads
  <2>3. UNCHANGED events
    BY <1>4 DEF SlotFill
  <2> QED
    BY <1>1, <1>2, <2>1, <2>2, <2>3 DEF Payloads
<1>5. CASE SlotEvent
  <2> DEFINE E == [slot : Slots, cmd : 1 .. MaxMsgs]
             e == [slot |-> filling[1].slot, cmd |-> taken]
  <2>1. (events' = events \/ events' = Append(events, e)) /\ UNCHANGED UartSendBuf
    BY <1>5 DEF SlotEvent
  <2>2. e \in E /\ events \in Seq(E)
    BY <1>2, <1>3 DEF Payloads
  <2> HIDE DEF E, e
  <2>3. events' \in Seq(E)
    BY <2>1, <2>2
  <2> QED
    BY <1>1, <1>2, <2>1, <2>3 DEF Payloads, E
<1> QED
  BY <1>4, <1>5 DEF SlotProcess

LEMMA CommandPayloads ==
  ASSUME BufInv, Payloads, RspAnalyze
  PROVE  Payloads'
<1>1. CASE \E op \in 0 .. MAX_OPCODE, s \in Slots, payload \in {"short", "long", "absent"},
              event \in BOOLEAN : SlotCommand(op, s, payload, event)
  BY <1>1, SlotPayloads
<1>2. ASSUME UNCHANGED <<UartSendBuf, filling, taken, events>> PROVE Payloads'
  BY <1>2 DEF Payloads
<1>3. ASSUME NEW op, CubbyCommand(op) PROVE Payloads'
  BY <1>2, <1>3 DEF CubbyCommand, ramOfCmd
<1>4. ASSUME NEW op, NEW cmd, NEW m, ConfigCommand(op, cmd, m) PROVE Payloads'
  BY <1>2, <1>4 DEF ConfigCommand
<1>5. ASSUME NEW op, NEW cmd, DeviceCommand(op, cmd) PROVE Payloads'
  BY <1>2, <1>5 DEF DeviceCommand, ramOfCmd
<1>6. ASSUME NEW op, OtaOrLowpowerCommand(op) \/ ConfigCommandEmpty(op) PROVE Payloads'
  BY <1>2, <1>6 DEF OtaOrLowpowerCommand, ConfigCommandEmpty, ramOfCmd
<1>7. CASE Dropped \/ UnknownTopic
  BY <1>2, <1>7 DEF Dropped, UnknownTopic, ramOfCmd
<1>8. CASE UNCHANGED ramOfCmd
  BY <1>2, <1>8 DEF ramOfCmd
<1> QED
  BY <1>1, <1>3, <1>4, <1>5, <1>6, <1>7, <1>8 DEF RspAnalyze

LEMMA PayloadStep ==
  ASSUME BufInv, Payloads, [Next]_vars
  PROVE  Payloads'
<1>1. CASE Connect \/ Save \/ Report \/ WifiSwitch \/ Communicate \/ UNCHANGED vars
  BY <1>1 DEF Connect, Save, Report, WifiSwitch, Communicate, vars, cmdVars, Payloads
<1>2. CASE device_reboot \/ PowerLoss
  <2>1. CmdBoot
    BY <1>2 DEF device_reboot, PowerLoss, Restart
  <2>2. 0 \in 0 .. Junk
    BY CmdAssumption DEF Junk
  <2> QED
    BY <2>1, <2>2 DEF CmdBoot, Payloads, Empty
<1>3. CASE TakeEvent
  <2> DEFINE E == [slot : Slots, cmd : 1 .. MaxMsgs]
  <2>1. events # <<>> /\ events' = Tail(events) /\ UNCHANGED <<UartSendBuf, filling, taken>>
    BY <1>3 DEF TakeEvent
  <2>2. events \in Seq(E)
    BY DEF Payloads
  <2> HIDE DEF E
  <2>3. events' \in Seq(E)
    BY <2>1, <2>2
  <2> QED
    BY <2>1, <2>3 DEF Payloads, E
<1>4. CASE RspAnalyze
  BY <1>4, CommandPayloads
<1>5. CASE SlotProcess
  BY <1>5, SlotProcessPayloads
<1> QED
  BY <1>1, <1>2, <1>3, <1>4, <1>5 DEF Next, Task

LEMMA FlagStep ==
  ASSUME Flags, [Next]_vars
  PROVE  Flags'
<1>1. CASE Connect
  <2>1. UNCHANGED <<mainTorn, report, wait_report>>
    BY <1>1 DEF Connect, cmdVars, ActiveNext, module_4g_active_route_process,
                module_4g_cloud_logIn_process, PingFails, Disconnect, history
  <2> QED
    BY <2>1, Zenon DEF Flags
<1>2. CASE Save \/ Report \/ SlotProcess \/ WifiSwitch \/ TakeEvent \/ Communicate \/ UNCHANGED vars
  <2>1. /\ UNCHANGED <<mainTorn, wait_report>>
        /\ report' = report \/ report' = FALSE
    BY <1>2 DEF Save, ActiveSave, Report, SlotProcess, WifiSwitch, TakeEvent, Communicate, vars, activeVars,
                cmdVars, history
  <2> QED
    BY <2>1, Zenon DEF Flags
<1>3. CASE device_reboot \/ PowerLoss
  <2>1. PICK fl : mainTorn' = (mainTorn \/ fl["LOGIN"] = Torn)
    BY <1>3, Zenon DEF device_reboot, PowerLoss, Restart, ActiveBoot
  <2>2. report' = FALSE /\ wait_report' = FALSE
    BY <1>3, Zenon DEF device_reboot, PowerLoss, Restart, CmdBoot
  <2> QED
    BY <2>1, <2>2, Zenon DEF Flags
<1>4. CASE RspAnalyze
  <2> DEFINE Typed == report' \in BOOLEAN /\ wait_report' \in BOOLEAN
  <2>1. ASSUME UNCHANGED <<report, wait_report>> PROVE Typed
    BY <2>1, Zenon DEF Flags
  <2>2. ASSUME NEW op, NEW s, NEW payload, NEW event, SlotCommand(op, s, payload, event)
        PROVE  Typed
    BY <2>1, <2>2, Zenon DEF SlotCommand
  <2>3. ASSUME NEW op, NEW cmd, NEW m, ConfigCommand(op, cmd, m) PROVE Typed
    BY <2>3, Zenon DEF ConfigCommand
  <2>4. ASSUME UnknownTopic PROVE Typed
    <3>1. /\ UNCHANGED report
          /\ wait_report' \in {wait_report, wait_report \/ (netWork = "NORMAL"
                                                           /\ WifiUsable(gSysInfo_struct))}
      BY <2>4 DEF UnknownTopic
    <3> QED
      BY <3>1, Zenon DEF Flags
  <2> HIDE DEF Typed
  <2>5. ASSUME Dropped \/ UNCHANGED ramOfCmd PROVE Typed
    BY <2>1, <2>5 DEF Dropped, ramOfCmd
  <2>6. ASSUME NEW op, CubbyCommand(op) PROVE Typed
    BY <2>1, <2>6 DEF CubbyCommand, ramOfCmd
  <2>7. ASSUME NEW op, NEW cmd, DeviceCommand(op, cmd) PROVE Typed
    BY <2>1, <2>7 DEF DeviceCommand, ramOfCmd
  <2>8. ASSUME NEW op, OtaOrLowpowerCommand(op) \/ ConfigCommandEmpty(op) PROVE Typed
    BY <2>1, <2>8 DEF OtaOrLowpowerCommand, ConfigCommandEmpty, ramOfCmd
  <2>9. Typed
    BY <1>4, <2>2, <2>3, <2>4, <2>5, <2>6, <2>7, <2>8 DEF RspAnalyze
  <2>10. UNCHANGED mainTorn
    BY <1>4 DEF RspAnalyze, Reactivate, history
  <2> QED
    BY <2>9, <2>10, Zenon DEF Typed, Flags
<1> QED
  BY <1>1, <1>2, <1>3, <1>4 DEF Next, Task

LEMMA TypesStart ==
  ASSUME Init
  PROVE  Counts /\ Stages /\ Payloads /\ Flags
<1>1. Counts
  BY ActiveAssumption DEF Init, ActiveInit, Counts
<1>2. Stages
  BY DEF Init, ActiveInit, Stages, AllKeys
<1>3. Payloads
  <2>1. 0 \in 0 .. Junk
    BY CmdAssumption DEF Junk
  <2> QED
    BY <2>1 DEF Init, CmdInit, Payloads, Empty
<1>4. Flags
  BY Zenon DEF Init, ActiveInit, CmdInit, Flags
<1> QED
  BY <1>1, <1>2, <1>3, <1>4

\* The last rows a walk rests in are those before SUCCESS.
LEMMA TableLengths ==
  ASSUME NEW f \in ModuleTypes
  PROVE  /\ Len(ActiveSteps[f]) - 3 = GetRow[f]
         /\ Len(RouteSteps[f]) - 3 = RouteGetRow[f]
         /\ Len(SignInSteps[f]) - 3 = 10
<1>1. CASE f = "NT26"
  BY <1>1 DEF ActiveSteps, ActiveStepsNT26, GetRow, RouteSteps, RouteStepsNT26, RouteGetRow,
              SignInSteps, SignInStepsWith
<1>2. CASE f = "EC800"
  BY <1>2 DEF ActiveSteps, ActiveStepsEC800, GetRow, RouteSteps, RouteStepsEC800, RouteGetRow,
              SignInSteps, SignInStepsWith
<1>3. CASE f = "EG800"
  BY <1>3 DEF ActiveSteps, ActiveStepsEC800, GetRow, RouteSteps, RouteStepsEC800, RouteGetRow,
              SignInSteps, SignInStepsWith
<1> QED
  BY <1>1, <1>2, <1>3 DEF ModuleTypes

(* Every variable has its type, for every set of keys, slots and settings    *)
(* and every bound: the three walks, whose rows are jumped to by the numbers *)
(* written in the tables, never leave them (the code indexes the tables      *)
(* without a check), no command is attempted more than retry_times, and a    *)
(* send buffer holds what a command brought or the length left on the stack. *)
THEOREM TypesKept == Spec => []TypeOK
<1>1. Init => Counts /\ Stages /\ Payloads /\ Flags
  BY TypesStart
<1>2. LoginInv /\ BufInv /\ (Counts /\ Stages /\ Payloads /\ Flags) /\ [Next]_vars
        => (Counts /\ Stages /\ Payloads /\ Flags)'
  BY StageStep, PayloadStep, FlagStep
<1>3. /\ LoginInv /\ RevInv /\ OpInv /\ BufInv /\ ConfInv
      /\ Counts /\ Stages /\ Payloads /\ Flags
      => TypeOK
  <2> SUFFICES ASSUME LoginInv, RevInv, OpInv, BufInv, ConfInv,
                      Counts, Stages, Payloads, Flags
               PROVE  ActiveTypeOK /\ CmdTypeOK
    BY DEF TypeOK
  <2>1. /\ Len(ActiveSteps[family]) - 3 = GetRow[family]
        /\ Len(RouteSteps[family]) - 3 = RouteGetRow[family]
        /\ Len(SignInSteps[family]) - 3 = 10
    BY TableLengths DEF LoginInv, LoginTypes
  <2>2. gSysLoginInfo \in Infos /\ confirmed \subseteq Keys
    BY DEF LoginInv, LoginTypes, AllConfirmed, Confirmed
  <2>3. revoked \subseteq Keys /\ erasing \in Keys \cup {NoKey}
    BY DEF RevInv
  <2>4. active_route_step \in {"CHECK", "ACTIVE", "ROUTE", "END"}
    BY DEF LoginInv, LoginTypes
  <2>5. /\ deviceActive \in 0 .. GetRow[family] /\ connectRoute \in 0 .. RouteGetRow[family]
    BY DEF LoginInv, LoginTypes
  <2>6. ActiveTypeOK
    BY <2>1, <2>2, <2>3, <2>4, <2>5, Zenon DEF ActiveTypeOK, Counts, Stages, Flags
  <2>7. gSysInfo_struct \in Confs /\ CloudopCode \in 0 .. MAX_OPCODE
    BY DEF ConfInv, Matching, OpInv
  <2>8. taken \in 0 .. MaxMsgs /\ msgs \in 0 .. MaxMsgs
    BY CmdAssumption DEF BufInv
  <2>9. CmdTypeOK
    BY <2>7, <2>8, Zenon DEF CmdTypeOK, Payloads, Flags, BufInv, Commands
  <2> QED
    BY <2>6, <2>9
<1>4. Spec => []ConfInv
  <2>1. Init => ConfInv
    BY ConfStarts
  <2>2. ConfInv /\ [Next]_vars => ConfInv'
    BY ConfStep
  <2> QED
    BY <2>1, <2>2, PTL DEF Spec
<1> QED
  BY <1>1, <1>2, <1>3, <1>4, LoginInvariant, RevInvariant, OpInvariant, BufInvariant, PTL
     DEF Spec
=============================================================================
