------------------------- MODULE Net4gConfig_proofs -------------------------
(***************************************************************************)
(* Theorems about Net4gConfig, for every set of builds: wherever the walk  *)
(* through the tables ends, the device is on the SIM it believes it is on, *)
(* and what it keeps about a SIM is about that SIM.                        *)
(***************************************************************************)
EXTENDS Net4gConfig, TLAPS

-----------------------------------------------------------------------------
(* The tables. *)

\* Row ERROR, the last of each table; SUCCESS stands before it.
LastRow == [NT26 |-> 33, EC800 |-> 38, EG800 |-> 19]

\* Row GET_SN_NO, at which a reconnection leaves its SIM.
SnRow == [NT26 |-> 4, EC800 |-> 8, EG800 |-> 4]

\* Rows at which the SIM in use has answered "attached", SUCCESS included.
AttachedRows == [NT26 |-> 26 .. 32, EC800 |-> 27 .. 37, EG800 |-> 10 .. 18]

\* Rows at which the modem has said which SIM it uses; with one SIM it need not.
KnownRows == [NT26  |-> (9 .. 11) \cup (16 .. 18) \cup (23 .. 32),
              EC800 |-> (11 .. 14) \cup (17 .. 20) \cup (23 .. 37),
              EG800 |-> 0 .. 18]

\* What matters of row n of the table of family m.
RowOK(m, n) ==
  LET row == ConfigSteps[m][n + 1] IN
  /\ row.s_jump \in 0 .. LastRow[m] /\ row.f_jump \in 0 .. LastRow[m]
  /\ row.id = "SUCCESS" <=> n = LastRow[m] - 1
  /\ row.id = "ERROR" <=> n = LastRow[m]
  /\ row.id = "GET_SN_NO" <=> n = SnRow[m]
  /\ n < SnRow[m] => /\ row.s_jump <= SnRow[m] \/ row.s_jump = LastRow[m]
                     /\ row.f_jump <= SnRow[m] \/ row.f_jump = LastRow[m]
  /\ row.f_jump \in AttachedRows[m] => n \in AttachedRows[m]
  /\ row.s_jump \in AttachedRows[m] => n \in AttachedRows[m] \/ row.id = "GET_NET_STATE"
  /\ row.f_jump \in KnownRows[m] => n \in KnownRows[m]
  /\ row.s_jump \in KnownRows[m] => n \in KnownRows[m] \/ row.id = "SIM_CHECK"
  /\ row.id \in {"SIM_CHANGE_1", "SIM_CHANGE_2"} =>
       m # "EG800" /\ n > SnRow[m] /\ n \notin KnownRows[m]
  /\ row.id = "SIM_CHECK" => m # "EG800" /\ n > SnRow[m] /\ n \notin KnownRows[m]
  /\ row.id \in {"GET_SIM_NO", "GET_SIM_STATE", "GET_NET_STATE"} =>
       n \in KnownRows[m] /\ n > SnRow[m]
  /\ n \in AttachedRows[m] => n \in KnownRows[m]

-----------------------------------------------------------------------------
(* The invariant. *)

\* The row the walk stands on, the two that end it included.
Place == CASE ret = "DONE"  -> LastRow[ModuleType] - 1
           [] ret = "ERROR" -> LastRow[ModuleType]
           [] OTHER         -> netConfig

ConfigTypes ==
  /\ ModuleType \in ModuleTypes
  /\ ret \in {"WAIT", "DONE", "ERROR"}
  /\ netConfig \in Nat
  /\ ret = "WAIT" => netConfig \in 0 .. LastRow[ModuleType] - 2
  /\ simFlag \in {NONE} \cup SIM
  /\ sim \in SIM
  /\ simState \in [SIM -> 0 .. 2]
  /\ verdict \in [SIM -> 0 .. 2]
  /\ iccid \in [SIM -> 0 .. 3]
  /\ ret # "WAIT" => netConfig = 0

\* Between a reconnection and GET_SN_NO the SIM the device knows of is still
\* the one it was connected on: nothing on the way changes it.
FlagInv ==
  DualSim /\ net4g_reconnect_flag =>
    /\ session \in SIM
    /\ misread \/ simFlag = session
    /\ (Place <= SnRow[ModuleType] \/ Place = LastRow[ModuleType])

\* A SIM that has been blamed is left: the walk stands on the change to the other
\* one, or that has been asked for.
BlameInv ==
  ModuleType = "EC800" /\ blamed # NONE /\ ~misread =>
    \/ \E k \in tried : k # blamed
    \/ ret = "WAIT" /\ blamed = 1 /\ netConfig = BackSim2Row["EC800"]
    \/ ret = "WAIT" /\ blamed = 2 /\ netConfig = LookSim1Row["EC800"]

\* What the row says about the SIM in use.
WalkInv ==
  /\ ~DualSim => simFlag = NONE
  /\ Place \in AttachedRows[ModuleType] => attached = sim
  /\ DualSim /\ Place \in KnownRows[ModuleType] /\ ~misread => simFlag = sim
  /\ FlagInv

ConfigInv == ConfigTypes /\ WalkInv /\ FiledUnderRightSim /\ BlameInv

-----------------------------------------------------------------------------
(* Every row of every table is as it should be. *)

LEMMA TableNT26 == \A n \in 0 .. 33 : RowOK("NT26", n)
<1> SUFFICES ASSUME NEW n \in 0 .. 33 PROVE RowOK("NT26", n)
  OBVIOUS
<1>0. n \in 0 .. 7 \/ n \in 8 .. 15 \/ n \in 16 .. 24 \/ n \in 25 .. 33
  OBVIOUS
<1> USE DEF RowOK, ConfigSteps, ConfigStepsNT26, Row, LastRow, SnRow, AttachedRows, KnownRows
<1>1. CASE n \in 0 .. 7
  <2>1. n = 0 \/ n = 1 \/ n = 2 \/ n = 3 \/ n = 4 \/ n = 5 \/ n = 6 \/ n = 7
    BY <1>1
  <2> QED
    BY <2>1
<1>2. CASE n \in 8 .. 15
  <2>1. n = 8 \/ n = 9 \/ n = 10 \/ n = 11 \/ n = 12 \/ n = 13 \/ n = 14 \/ n = 15
    BY <1>2
  <2> QED
    BY <2>1
<1>3. CASE n \in 16 .. 24
  <2>1. n = 16 \/ n = 17 \/ n = 18 \/ n = 19 \/ n = 20 \/ n = 21 \/ n = 22 \/ n = 23 \/ n = 24
    BY <1>3
  <2> QED
    BY <2>1
<1>4. CASE n \in 25 .. 33
  <2>1. n = 25 \/ n = 26 \/ n = 27 \/ n = 28 \/ n = 29 \/ n = 30 \/ n = 31 \/ n = 32 \/ n = 33
    BY <1>4
  <2> QED
    BY <2>1
<1> QED
  BY <1>0, <1>1, <1>2, <1>3, <1>4

LEMMA TableEG800 == \A n \in 0 .. 19 : RowOK("EG800", n)
<1> SUFFICES ASSUME NEW n \in 0 .. 19 PROVE RowOK("EG800", n)
  OBVIOUS
<1> USE DEF RowOK, ConfigSteps, ConfigStepsEG800, Row, LastRow, SnRow, AttachedRows, KnownRows
<1>1. CASE n \in 0 .. 9
  <2>1. n = 0 \/ n = 1 \/ n = 2 \/ n = 3 \/ n = 4 \/ n = 5 \/ n = 6 \/ n = 7 \/ n = 8 \/ n = 9
    BY <1>1
  <2> QED
    BY <2>1
<1>2. CASE n \in 10 .. 19
  <2>1. \/ n = 10 \/ n = 11 \/ n = 12 \/ n = 13 \/ n = 14 \/ n = 15 \/ n = 16 \/ n = 17
        \/ n = 18 \/ n = 19
    BY <1>2
  <2> QED
    BY <2>1
<1> QED
  BY <1>1, <1>2

LEMMA TableEC800 == \A n \in 0 .. 38 : RowOK("EC800", n)
<1> SUFFICES ASSUME NEW n \in 0 .. 38 PROVE RowOK("EC800", n)
  OBVIOUS
<1>0. n \in 0 .. 7 \/ n \in 8 .. 15 \/ n \in 16 .. 23 \/ n \in 24 .. 31 \/ n \in 32 .. 38
  OBVIOUS
<1> USE DEF RowOK, ConfigSteps, ConfigStepsEC800, Row, LastRow, SnRow, AttachedRows, KnownRows
<1>1. CASE n \in 0 .. 7
  <2>1. n = 0 \/ n = 1 \/ n = 2 \/ n = 3 \/ n = 4 \/ n = 5 \/ n = 6 \/ n = 7
    BY <1>1
  <2> QED
    BY <2>1
<1>2. CASE n \in 8 .. 15
  <2>1. n = 8 \/ n = 9 \/ n = 10 \/ n = 11 \/ n = 12 \/ n = 13 \/ n = 14 \/ n = 15
    BY <1>2
  <2> QED
    BY <2>1
<1>3. CASE n \in 16 .. 23
  <2>1. n = 16 \/ n = 17 \/ n = 18 \/ n = 19 \/ n = 20 \/ n = 21 \/ n = 22 \/ n = 23
    BY <1>3
  <2> QED
    BY <2>1
<1>4. CASE n \in 24 .. 31
  <2>1. n = 24 \/ n = 25 \/ n = 26 \/ n = 27 \/ n = 28 \/ n = 29 \/ n = 30 \/ n = 31
    BY <1>4
  <2> QED
    BY <2>1
<1>5. CASE n \in 32 .. 38
  <2>1. n = 32 \/ n = 33 \/ n = 34 \/ n = 35 \/ n = 36 \/ n = 37 \/ n = 38
    BY <1>5
  <2> QED
    BY <2>1
<1> QED
  BY <1>0, <1>1, <1>2, <1>3, <1>4, <1>5

\* The limits of the tables, and that every row of each is as it should be.
LEMMA TableFacts ==
  ASSUME NEW m \in ModuleTypes
  PROVE  /\ LastRow[m] \in Nat /\ SnRow[m] \in Nat /\ SnRow[m] + 2 < LastRow[m]
         /\ AttachedRows[m] \subseteq 0 .. LastRow[m] - 1
         /\ KnownRows[m] \subseteq 0 .. LastRow[m] - 1
         /\ \A n \in 0 .. LastRow[m] : RowOK(m, n)
         /\ LastRow[m] - 1 \in AttachedRows[m]
<1>1. CASE m = "NT26"
  BY <1>1, TableNT26 DEF LastRow, SnRow, AttachedRows, KnownRows
<1>2. CASE m = "EC800"
  BY <1>2, TableEC800 DEF LastRow, SnRow, AttachedRows, KnownRows
<1>3. CASE m = "EG800"
  BY <1>3, TableEG800 DEF LastRow, SnRow, AttachedRows, KnownRows
<1> QED
  BY <1>1, <1>2, <1>3 DEF ModuleTypes

\* The rows the dual-SIM code jumps to by number are where it needs them.
LEMMA DualFacts ==
  ASSUME NEW m \in ModuleTypes, m # "EG800"
  PROVE  /\ \A n \in {LookSim1Row[m], LookSim2Row[m], BackSim2Row[m]} :
              n \in 0 .. LastRow[m] - 2 /\ n \notin KnownRows[m] /\ n > SnRow[m]
         /\ SimDoneRow[m] \in AttachedRows[m] /\ SimDoneRow[m] < LastRow[m] - 1
<1>1. CASE m = "NT26"
  BY <1>1 DEF LastRow, SnRow, KnownRows, AttachedRows, LookSim1Row, LookSim2Row, BackSim2Row, SimDoneRow
<1>2. CASE m = "EC800"
  BY <1>2 DEF LastRow, SnRow, KnownRows, AttachedRows, LookSim1Row, LookSim2Row, BackSim2Row, SimDoneRow
<1> QED
  BY <1>1, <1>2 DEF ModuleTypes

-----------------------------------------------------------------------------
(* The tail of the process. *)

\* Where the walk goes from row n.
LEMMA JumpIs ==
  ASSUME NEW n
  PROVE  /\ Jump("AT_OK", n) = StepRow(n).s_jump
         /\ Jump("AT_ERR", n) = StepRow(n).f_jump
         /\ Jump("5", n) = n
<1>1. "AT_OK" # "AT_ERR" /\ "AT_OK" # "5" /\ "AT_ERR" # "5"
  OBVIOUS
<1> QED
  BY <1>1, Zenon DEF Jump

LEMMA PlaceIs ==
  /\ ret = "DONE" => Place = LastRow[ModuleType] - 1
  /\ ret = "ERROR" => Place = LastRow[ModuleType]
  /\ ret = "WAIT" => Place = netConfig
<1>1. "WAIT" # "DONE" /\ "WAIT" # "ERROR" /\ "DONE" # "ERROR"
  OBVIOUS
<1> QED
  BY <1>1, Zenon DEF Place

LEMMA PlaceIsNext ==
  /\ ret' = "DONE" => Place' = LastRow[ModuleType'] - 1
  /\ ret' = "ERROR" => Place' = LastRow[ModuleType']
  /\ ret' = "WAIT" => Place' = netConfig'
<1>1. "WAIT" # "DONE" /\ "WAIT" # "ERROR" /\ "DONE" # "ERROR"
  OBVIOUS
<1> QED
  BY <1>1, Zenon DEF Place

\* A pass over row n leaves the walk on the row it jumps to, and ends it exactly
\* on the last two.
LEMMA FinishMoves ==
  ASSUME ConfigTypes, NEW n \in 0 .. LastRow[ModuleType], NEW result \in {"AT_OK", "AT_ERR", "5"},
         UNCHANGED ModuleType, Finish(result, n)
  PROVE  /\ Place' = Jump(result, n) /\ Place' \in 0 .. LastRow[ModuleType]
         /\ ret' \in {"WAIT", "DONE", "ERROR"} /\ netConfig' \in Nat
         /\ ret' = "WAIT" => netConfig' = Place' /\ netConfig' \in 0 .. LastRow[ModuleType] - 2
         /\ ret' # "WAIT" => netConfig' = 0
<1> DEFINE next == Jump(result, n)
           id == StepRow(next).id
<1>0. ModuleType \in ModuleTypes /\ LastRow[ModuleType] \in Nat
  BY TableFacts DEF ConfigTypes
<1>1. RowOK(ModuleType, n)
  BY <1>0, TableFacts
<1>2. next \in 0 .. LastRow[ModuleType]
  BY <1>1, JumpIs DEF RowOK, StepRow
<1>3. RowOK(ModuleType, next)
  BY <1>0, <1>2, TableFacts
<1>4. /\ id = "SUCCESS" <=> next = LastRow[ModuleType] - 1
      /\ id = "ERROR" <=> next = LastRow[ModuleType]
  BY <1>3 DEF RowOK, StepRow
<1>5. "SUCCESS" # "ERROR"
  OBVIOUS
<1>6. /\ id = "SUCCESS" => ret' = "DONE"
      /\ id = "ERROR" => ret' = "ERROR"
      /\ id # "SUCCESS" /\ id # "ERROR" => ret' = "WAIT"
      /\ netConfig' = IF ret' = "WAIT" THEN next ELSE 0
  BY <1>5, Zenon DEF Finish
<1> HIDE DEF id, next
<1>7. ret' \in {"WAIT", "DONE", "ERROR"} /\ netConfig' \in Nat
  BY <1>2, <1>6
<1>8. /\ ret' = "DONE" => next = LastRow[ModuleType] - 1
      /\ ret' = "ERROR" => next = LastRow[ModuleType]
      /\ ret' = "WAIT" => next \in 0 .. LastRow[ModuleType] - 2
  BY <1>0, <1>2, <1>4, <1>6
<1>9. Place' = next
  BY <1>6, <1>7, <1>8, PlaceIsNext
<1> QED
  BY <1>2, <1>6, <1>7, <1>8, <1>9 DEF next

-----------------------------------------------------------------------------
(* The commands. *)

\* The row a call starts from.
LEMMA Standing ==
  ASSUME ConfigTypes, ret = "WAIT"
  PROVE  /\ Place = netConfig
         /\ netConfig \in 0 .. LastRow[ModuleType] - 2
         /\ netConfig \in 0 .. LastRow[ModuleType]
         /\ RowOK(ModuleType, netConfig)
         /\ LastRow[ModuleType] \in Nat /\ SnRow[ModuleType] \in Nat
         /\ ConfigSteps[ModuleType][netConfig + 1] = StepRow(netConfig)
         /\ StepRow(netConfig).id = Command
BY PlaceIs, TableFacts DEF ConfigTypes, StepRow, Command

\* How a command that is done or has failed moves the walk.
LEMMA CommandMoves ==
  ASSUME ConfigTypes, ret = "WAIT", UNCHANGED ModuleType,
         NEW result \in AtResult, Finish(result, netConfig)
  PROVE  /\ Place' \in AttachedRows[ModuleType] =>
              \/ netConfig \in AttachedRows[ModuleType]
              \/ Command = "GET_NET_STATE" /\ result = "AT_OK"
         /\ Place' \in KnownRows[ModuleType] =>
              \/ netConfig \in KnownRows[ModuleType]
              \/ Command = "SIM_CHECK" /\ result = "AT_OK"
         /\ netConfig < SnRow[ModuleType] =>
              Place' <= SnRow[ModuleType] \/ Place' = LastRow[ModuleType]
<1>1. CASE result = "AT_OK"
  <2>1. Place' = StepRow(netConfig).s_jump
    BY <1>1, Standing, FinishMoves, JumpIs
  <2> QED
    BY <1>1, <2>1, Standing DEF RowOK
<1>2. CASE result = "AT_ERR"
  <2>1. Place' = StepRow(netConfig).f_jump
    BY <1>2, Standing, FinishMoves, JumpIs
  <2> DEFINE m == ModuleType
             row == StepRow(netConfig)
  <2>2. /\ row.f_jump \in AttachedRows[m] => netConfig \in AttachedRows[m]
        /\ row.f_jump \in KnownRows[m] => netConfig \in KnownRows[m]
        /\ netConfig < SnRow[m] => row.f_jump <= SnRow[m] \/ row.f_jump = LastRow[m]
    BY Standing DEF RowOK
  <2> QED
    BY <2>1, <2>2
<1> QED
  BY <1>1, <1>2 DEF AtResult

\* The types of what Finish and the answers leave.
LEMMA TypesKept ==
  ASSUME ConfigTypes, UNCHANGED ModuleType,
         NEW n \in 0 .. LastRow[ModuleType], NEW result \in {"AT_OK", "AT_ERR", "5"},
         Finish(result, n),
         simFlag' \in {NONE} \cup SIM, sim' \in SIM,
         simState' \in [SIM -> 0 .. 2], verdict' \in [SIM -> 0 .. 2], iccid' \in [SIM -> 0 .. 3]
  PROVE  ConfigTypes'
BY FinishMoves DEF ConfigTypes

\* A command that leaves alone which SIM is in use and which the device knows of.
LEMMA WalkKept ==
  ASSUME ConfigTypes, WalkInv, ret = "WAIT",
         NEW result \in AtResult, Finish(result, netConfig),
         UNCHANGED <<ModuleType, simFlag, sim, net4g_reconnect_flag, session, misread>>,
         attached' = attached \/ attached' = sim,
         Command = "GET_NET_STATE" /\ result = "AT_OK" => attached' = sim,
         Command \notin {"SIM_CHECK", "GET_SN_NO"}
  PROVE  WalkInv'
<1>1. Place' \in AttachedRows[ModuleType] => attached' = sim
  BY CommandMoves, Standing DEF WalkInv
<1>2. DualSim /\ Place' \in KnownRows[ModuleType] /\ ~misread => simFlag = sim
  BY CommandMoves, Standing DEF WalkInv
<1>3. DualSim' <=> DualSim
  BY DEF DualSim
<1>4. FlagInv'
  <2> SUFFICES ASSUME DualSim, net4g_reconnect_flag
               PROVE  /\ session \in SIM
                      /\ misread \/ simFlag = session
                      /\ Place' <= SnRow[ModuleType] \/ Place' = LastRow[ModuleType]
    BY <1>3 DEF FlagInv
  <2>1. session \in SIM /\ (misread \/ simFlag = session) /\ netConfig <= SnRow[ModuleType]
    BY Standing DEF WalkInv, FlagInv
  <2>2. netConfig # SnRow[ModuleType]
    BY Standing DEF RowOK
  <2>3. netConfig < SnRow[ModuleType]
    BY <2>1, <2>2, Standing
  <2> QED
    BY <2>1, <2>3, CommandMoves
<1> QED
  BY <1>1, <1>2, <1>3, <1>4 DEF WalkInv

\* The EC800 rows at which a blamed SIM is still in use change the SIM.
LEMMA BlameRows ==
  /\ ConfigSteps["EC800"][BackSim2Row["EC800"] + 1].id = "SIM_CHANGE_2"
  /\ ConfigSteps["EC800"][LookSim1Row["EC800"] + 1].id = "SIM_CHANGE_1"
BY DEF ConfigSteps, ConfigStepsEC800, BackSim2Row, LookSim1Row, Row

LEMMA BlameKept ==
  ASSUME ConfigTypes, BlameInv, ret = "WAIT", UNCHANGED <<ModuleType, blamed, tried>>,
         ~misread' => ~misread,
         Command \notin {"SIM_CHANGE_1", "SIM_CHANGE_2"}
  PROVE  BlameInv'
<1>1. ModuleType = "EC800" =>
        netConfig # BackSim2Row["EC800"] /\ netConfig # LookSim1Row["EC800"]
  BY BlameRows DEF Command, StepRow
<1> QED
  BY <1>1 DEF BlameInv

\* What is filed is about the SIM the device knows of.
LEMMA FiledKept ==
  ASSUME FiledUnderRightSim, UNCHANGED <<ModuleType, iccid, simState, verdict>>,
         ~misread' => ~misread
  PROVE  FiledUnderRightSim'
BY DEF FiledUnderRightSim, DualSim

LEMMA PlainInv ==
  ASSUME ConfigInv, ret = "WAIT", UNCHANGED <<ModuleType, session, misread>>, NEW result \in AtResult, PlainCommand(result)
  PROVE  ConfigInv'
<1>1. Command \notin SimCommands /\ Finish(result, netConfig)
  BY DEF PlainCommand
<1>2. UNCHANGED <<simFlag, simState, iccid, net4g_reconnect_flag, sim, verdict, attached, blamed, tried>>
  BY DEF PlainCommand
<1>3. ConfigTypes'
  BY <1>1, <1>2, Standing, TypesKept DEF ConfigInv, AtResult, ConfigTypes
<1>4. WalkInv'
  BY <1>1, <1>2, WalkKept DEF ConfigInv, SimCommands
<1>5. FiledUnderRightSim'
  BY <1>2, FiledKept DEF ConfigInv
<1>6. BlameInv'
  BY <1>1, <1>2, BlameKept DEF ConfigInv, SimCommands
<1> QED
  BY <1>3, <1>4, <1>5, <1>6 DEF ConfigInv

\* A change of the SIM leaves the rows at which it is known.
LEMMA SimChangeInv ==
  ASSUME ConfigInv, ret = "WAIT", UNCHANGED <<ModuleType, session, misread>>,
         NEW k \in SIM, NEW result \in AtResult, NEW switched, SimChange(k, result, switched)
  PROVE  ConfigInv'
<1>1. /\ Command = IF k = 1 THEN "SIM_CHANGE_1" ELSE "SIM_CHANGE_2"
      /\ Finish(result, netConfig)
      /\ sim' \in {sim, k}
      /\ tried' = tried \cup {k}
      /\ UNCHANGED <<simFlag, simState, iccid, net4g_reconnect_flag, verdict, blamed>>
  BY DEF SimChange
<1>2. Command \in {"SIM_CHANGE_1", "SIM_CHANGE_2"}
  BY <1>1
<1>3. /\ ModuleType # "EG800" /\ netConfig > SnRow[ModuleType]
      /\ netConfig \notin KnownRows[ModuleType] /\ netConfig \notin AttachedRows[ModuleType]
      /\ netConfig # LastRow[ModuleType]
  BY <1>2, Standing DEF ConfigInv, RowOK
<1>4. Place' \notin KnownRows[ModuleType] /\ Place' \notin AttachedRows[ModuleType]
  BY <1>1, <1>2, <1>3, CommandMoves DEF ConfigInv
<1>5. ConfigTypes'
  <2>1. sim' \in SIM
    BY <1>1 DEF ConfigInv, ConfigTypes
  <2> QED
    BY <1>1, <2>1, Standing, TypesKept DEF ConfigInv, AtResult, ConfigTypes
<1>6. ~net4g_reconnect_flag
  BY <1>3, Standing DEF ConfigInv, WalkInv, FlagInv, DualSim
<1>7. WalkInv'
  BY <1>1, <1>3, <1>4, <1>6 DEF ConfigInv, WalkInv, FlagInv, DualSim
<1>8. FiledUnderRightSim'
  BY <1>1, FiledKept DEF ConfigInv
<1>9. BlameInv'
  <2> SUFFICES ASSUME ModuleType = "EC800", blamed # NONE, ~misread
               PROVE  \E j \in tried' : j # blamed
    BY <1>1 DEF BlameInv
  <2>1. CASE \E j \in tried : j # blamed
    BY <1>1, <2>1
  <2>2. CASE blamed = 1 /\ netConfig = BackSim2Row["EC800"]
    <3>1. Command = "SIM_CHANGE_2"
      BY <2>2, BlameRows DEF Command, StepRow
    <3> QED
      BY <1>1, <2>2, <3>1 DEF SIM
  <2>3. CASE blamed = 2 /\ netConfig = LookSim1Row["EC800"]
    <3>1. Command = "SIM_CHANGE_1"
      BY <2>3, BlameRows DEF Command, StepRow
    <3> QED
      BY <1>1, <2>3, <3>1 DEF SIM
  <2> QED
    BY <2>1, <2>2, <2>3 DEF ConfigInv, BlameInv
<1> QED
  BY <1>5, <1>7, <1>8, <1>9 DEF ConfigInv

\* AT+...SIM? is where the device learns which SIM is in use.
LEMMA SimCheckInv ==
  ASSUME ConfigInv, ret = "WAIT", UNCHANGED <<ModuleType, session>>,
         NEW result \in AtResult, NEW named \in BOOLEAN, SimCheck(result, named)
  PROVE  ConfigInv'
<1>1. /\ Command = "SIM_CHECK" /\ Finish(result, netConfig)
      /\ simFlag' = IF result = "AT_OK" /\ named THEN sim ELSE simFlag
      /\ misread' = (misread \/ (result = "AT_OK" /\ ~named))
      /\ UNCHANGED <<simState, iccid, net4g_reconnect_flag, sim, verdict, attached, blamed, tried>>
  BY DEF SimCheck
<1>2. /\ ModuleType # "EG800" /\ netConfig > SnRow[ModuleType]
      /\ netConfig \notin KnownRows[ModuleType] /\ netConfig \notin AttachedRows[ModuleType]
      /\ netConfig # LastRow[ModuleType]
  BY <1>1, Standing DEF ConfigInv, RowOK
<1>3. Place' \in KnownRows[ModuleType] /\ ~misread' => simFlag' = sim
  BY <1>1, <1>2, CommandMoves DEF ConfigInv
<1>3a. ~misread' => ~misread
  BY <1>1
<1>4. Place' \notin AttachedRows[ModuleType]
  BY <1>1, <1>2, CommandMoves DEF ConfigInv
<1>5. simFlag' \in {NONE} \cup SIM
  BY <1>1 DEF ConfigInv, ConfigTypes
<1>6. ConfigTypes'
  BY <1>1, <1>5, Standing, TypesKept DEF ConfigInv, AtResult, ConfigTypes
<1>7. ~net4g_reconnect_flag
  BY <1>2, Standing DEF ConfigInv, WalkInv, FlagInv, DualSim
<1>8. WalkInv'
  BY <1>1, <1>2, <1>3, <1>4, <1>7 DEF WalkInv, FlagInv, DualSim
<1>9. FiledUnderRightSim'
  BY <1>1, <1>3a, FiledKept DEF ConfigInv
<1>10. BlameInv'
  BY <1>1, <1>3a, BlameKept DEF ConfigInv
<1> QED
  BY <1>6, <1>8, <1>9, <1>10 DEF ConfigInv

\* The number read is filed at rows at which the SIM is known.
LEMMA GetSimNoInv ==
  ASSUME ConfigInv, ret = "WAIT", UNCHANGED <<ModuleType, session, misread>>, NEW result \in AtResult, GetSimNo(result)
  PROVE  ConfigInv'
<1>1. /\ Command = "GET_SIM_NO" /\ Finish(result, netConfig)
      /\ iccid' = IF result = "AT_OK" /\ simFlag # NONE
                  THEN [iccid EXCEPT ![simFlag] = sim] ELSE iccid
      /\ UNCHANGED <<simFlag, simState, net4g_reconnect_flag, sim, verdict, attached, blamed, tried>>
  BY DEF GetSimNo
<1>2. netConfig \in KnownRows[ModuleType]
  BY <1>1, Standing DEF ConfigInv, RowOK
<1>3. simFlag # NONE =>
        simFlag \in SIM /\ sim \in SIM /\ (~misread => simFlag = sim)
  BY <1>2, Standing DEF ConfigInv, WalkInv, ConfigTypes, DualSim
<1>4. /\ iccid \in [SIM -> 0 .. 3]
      /\ ~misread => \A k \in SIM : iccid[k] \in {EMPTY_ICCID, ERASED_ICCID, k}
  BY DEF ConfigInv, ConfigTypes, FiledUnderRightSim
<1>5. /\ iccid' \in [SIM -> 0 .. 3]
      /\ ~misread => \A k \in SIM : iccid'[k] \in {EMPTY_ICCID, ERASED_ICCID, k}
  BY <1>1, <1>3, <1>4 DEF SIM
<1>6. ConfigTypes'
  BY <1>1, <1>5, Standing, TypesKept DEF ConfigInv, AtResult, ConfigTypes
<1>7. WalkInv'
  BY <1>1, WalkKept DEF ConfigInv
<1>8. FiledUnderRightSim'
  BY <1>1, <1>5 DEF ConfigInv, FiledUnderRightSim, DualSim
<1>9. BlameInv'
  BY <1>1, BlameKept DEF ConfigInv
<1> QED
  BY <1>6, <1>7, <1>8, <1>9 DEF ConfigInv

\* What an answer about the SIM teaches is noted for the SIM it is about.
LEMMA NoteInv ==
  ASSUME ConfigInv, ret = "WAIT", UNCHANGED <<ModuleType, session, misread>>,
         Command \in {"GET_SIM_STATE", "GET_NET_STATE"},
         NEW answer \in 0 .. 2, NoteState(answer), UNCHANGED iccid
  PROVE  /\ simState' \in [SIM -> 0 .. 2] /\ verdict' \in [SIM -> 0 .. 2]
         /\ FiledUnderRightSim'
         /\ netConfig > SnRow[ModuleType] /\ netConfig \in KnownRows[ModuleType]
<1>1. netConfig \in KnownRows[ModuleType] /\ netConfig > SnRow[ModuleType]
  BY Standing DEF ConfigInv, RowOK
<1>2. DualSim /\ ~misread => simFlag = sim
  BY <1>1, Standing DEF ConfigInv, WalkInv
<1>3. /\ simFlag \in {NONE} \cup SIM /\ sim \in SIM
      /\ simState \in [SIM -> 0 .. 2] /\ verdict \in [SIM -> 0 .. 2]
      /\ DualSim /\ ~misread => simState = verdict
  BY DEF ConfigInv, ConfigTypes, FiledUnderRightSim
<1>4. simState' \in [SIM -> 0 .. 2]
  BY <1>3 DEF NoteState
<1>5. verdict' \in [SIM -> 0 .. 2]
  BY <1>3 DEF NoteState
<1>6. DualSim /\ ~misread => simState' = verdict'
  BY <1>2, <1>3 DEF NoteState, NONE, SIM
<1>7. FiledUnderRightSim'
  BY <1>6 DEF ConfigInv, FiledUnderRightSim, DualSim
<1> QED
  BY <1>1, <1>4, <1>5, <1>7

LEMMA GetSimStateInv ==
  ASSUME ConfigInv, ret = "WAIT", UNCHANGED <<ModuleType, session, misread>>, NEW answer \in 0 .. 2, GetSimState(answer)
  PROVE  ConfigInv'
<1> DEFINE result == IF answer = 1 THEN "AT_OK" ELSE "AT_ERR"
<1>1. /\ Command = "GET_SIM_STATE" /\ NoteState(answer) /\ Finish(result, netConfig)
      /\ UNCHANGED <<simFlag, iccid, sim, net4g_reconnect_flag, attached, blamed, tried>>
  BY DEF GetSimState
<1>2. result \in AtResult
  BY DEF AtResult
<1> HIDE DEF result
<1>3. /\ simState' \in [SIM -> 0 .. 2] /\ verdict' \in [SIM -> 0 .. 2]
      /\ FiledUnderRightSim'
  BY <1>1, NoteInv
<1>4. ConfigTypes'
  BY <1>1, <1>2, <1>3, Standing, TypesKept DEF ConfigInv, AtResult, ConfigTypes
<1>5. WalkInv'
  BY <1>1, <1>2, WalkKept DEF ConfigInv
<1>6. BlameInv'
  BY <1>1, BlameKept DEF ConfigInv
<1> QED
  BY <1>3, <1>4, <1>5, <1>6 DEF ConfigInv

\* "Attached" is learnt here, and here alone the walk goes on to log in.
LEMMA GetNetStateInv ==
  ASSUME ConfigInv, ret = "WAIT", UNCHANGED <<ModuleType, session, misread>>, NEW answer \in 0 .. 2, GetNetState(answer)
  PROVE  ConfigInv'
<1> DEFINE result == IF answer = 1 THEN "AT_OK" ELSE "AT_ERR"
<1>1. /\ Command = "GET_NET_STATE" /\ NoteState(answer)
      /\ attached' = IF answer = 1 THEN sim ELSE attached
      /\ UNCHANGED <<simFlag, iccid, sim, net4g_reconnect_flag, blamed, tried>>
  BY DEF GetNetState
<1>2. result \in AtResult /\ (result = "AT_OK" <=> answer = 1)
  BY DEF AtResult
<1>3. \/ Finish(result, netConfig)
      \/ answer = 1 /\ StopAtThisSim /\ Finish("5", SimDoneRow[ModuleType])
  BY DEF GetNetState
<1> HIDE DEF result
<1>4. /\ simState' \in [SIM -> 0 .. 2] /\ verdict' \in [SIM -> 0 .. 2]
      /\ FiledUnderRightSim'
      /\ netConfig > SnRow[ModuleType] /\ netConfig \in KnownRows[ModuleType]
  BY <1>1, NoteInv
<1>5. BlameInv'
  BY <1>1, BlameKept DEF ConfigInv
<1>6. CASE Finish(result, netConfig)
  <2>1. ConfigTypes'
    BY <1>1, <1>2, <1>4, <1>6, Standing, TypesKept DEF ConfigInv, AtResult, ConfigTypes
  <2>2. WalkInv'
    BY <1>1, <1>2, <1>6, WalkKept DEF ConfigInv
  <2> QED
    BY <1>4, <1>5, <2>1, <2>2 DEF ConfigInv
<1>7. CASE answer = 1 /\ StopAtThisSim /\ Finish("5", SimDoneRow[ModuleType])
  <2>0. ModuleType \in ModuleTypes /\ ConfigTypes
    BY DEF ConfigInv, ConfigTypes
  <2>1. ModuleType # "EG800" /\ DualSim
    BY <1>7 DEF StopAtThisSim, DualSim
  <2>2. SimDoneRow[ModuleType] \in 0 .. LastRow[ModuleType]
    BY <2>0, <2>1, DualFacts, TableFacts
  <2>3. ConfigTypes'
    BY <1>1, <1>4, <1>7, <2>0, <2>2, TypesKept DEF ConfigTypes
  <2>4. attached' = sim
    BY <1>1, <1>7
  <2>5. ~misread => simFlag = sim
    BY <1>4, <2>1, Standing DEF ConfigInv, WalkInv
  <2>6. ~net4g_reconnect_flag
    BY <1>4, <2>0, <2>1, Standing DEF ConfigInv, WalkInv, FlagInv
  <2>7. WalkInv'
    BY <1>1, <2>1, <2>4, <2>5, <2>6 DEF WalkInv, FlagInv, DualSim
  <2> QED
    BY <1>4, <1>5, <2>3, <2>7 DEF ConfigInv
<1> QED
  BY <1>3, <1>6, <1>7

\* Where the walk goes when no SIM is blamed.
LEMMA PreferenceMoves ==
  ASSUME ConfigInv, ret = "WAIT", UNCHANGED <<ModuleType, session, misread>>, Command = "GET_SN_NO", ByPreference
  PROVE  \E n \in 0 .. LastRow[ModuleType], result \in {"AT_OK", "AT_ERR", "5"} :
            /\ Finish(result, n)
            /\ Place' \in AttachedRows[ModuleType] => netConfig \in AttachedRows[ModuleType]
            /\ Place' \in KnownRows[ModuleType] => netConfig \in KnownRows[ModuleType]
<1>0. ConfigTypes /\ ModuleType \in ModuleTypes
  BY DEF ConfigInv, ConfigTypes
<1>1. CASE DualSim /\ first_sim \in {1, 2}
  <2>1. \E n \in {LookSim1Row[ModuleType], LookSim2Row[ModuleType]} : Finish("5", n)
    <3>1. CASE first_sim = 1
      <4>1. first_sim # 2
        BY <3>1
      <4>2. Finish("5", LookSim1Row[ModuleType])
        BY <1>1, <3>1, <4>1, Zenon DEF ByPreference
      <4> QED
        BY <4>2
    <3>2. CASE first_sim = 2
      <4>1. first_sim # 1
        BY <3>2
      <4>2. Finish("5", LookSim2Row[ModuleType])
        BY <1>1, <3>2, <4>1, Zenon DEF ByPreference
      <4> QED
        BY <4>2
    <3> QED
      BY <1>1, <3>1, <3>2
  <2>2. PICK n \in {LookSim1Row[ModuleType], LookSim2Row[ModuleType]} : Finish("5", n)
    BY <2>1
  <2>3. /\ n \in 0 .. LastRow[ModuleType] - 2 /\ n \notin KnownRows[ModuleType]
        /\ LastRow[ModuleType] \in Nat
    BY <1>0, <1>1, DualFacts, TableFacts DEF DualSim
  <2>4. RowOK(ModuleType, n)
    BY <1>0, <2>3, TableFacts
  <2>5. n \notin AttachedRows[ModuleType]
    BY <2>3, <2>4 DEF RowOK
  <2>6. Place' = n
    BY <1>0, <2>2, <2>3, FinishMoves, JumpIs
  <2> QED
    BY <2>2, <2>3, <2>5, <2>6
<1>2. CASE ~(DualSim /\ first_sim \in {1, 2})
  <2>1. Finish("AT_OK", netConfig)
    <3>1. ~(DualSim /\ first_sim = 1) /\ ~(DualSim /\ first_sim = 2)
      BY <1>2
    <3> QED
      BY <3>1, Zenon DEF ByPreference
  <2>2. "AT_OK" \in AtResult
    BY DEF AtResult
  <2> QED
    BY <1>0, <2>1, <2>2, CommandMoves, Standing
<1> QED
  BY <1>1, <1>2

\* After a reconnection the SIM in use is blamed and left.
LEMMA LeaveMoves ==
  ASSUME ConfigInv, ret = "WAIT", UNCHANGED <<ModuleType, session, misread>>, DualSim, NEW k \in SIM, LeaveSim(k)
  PROVE  LET n == IF k = 1 THEN BackSim2Row[ModuleType] ELSE LookSim1Row[ModuleType] IN
         /\ n \in 0 .. LastRow[ModuleType] /\ Finish(LeaveSimResult, n)
         /\ LeaveSimResult \in {"AT_OK", "AT_ERR", "5"}
         /\ Place' \notin KnownRows[ModuleType] /\ Place' \notin AttachedRows[ModuleType]
         /\ ModuleType = "EC800" => ret' = "WAIT" /\ netConfig' = n
<1> DEFINE n == IF k = 1 THEN BackSim2Row[ModuleType] ELSE LookSim1Row[ModuleType]
<1>0. ConfigTypes /\ ModuleType \in ModuleTypes /\ ModuleType # "EG800"
  BY DEF ConfigInv, ConfigTypes, DualSim
<1>1. /\ n \in 0 .. LastRow[ModuleType] - 2 /\ n \notin KnownRows[ModuleType]
      /\ LastRow[ModuleType] \in Nat
  BY <1>0, DualFacts, TableFacts
<1>2. Finish(LeaveSimResult, n)
  BY DEF LeaveSim
<1>3. /\ LeaveSimResult \in {"AT_OK", "AT_ERR", "5"}
      /\ LeaveSimResult = "5" \/ LeaveSimResult = "AT_ERR"
      /\ ModuleType = "EC800" => LeaveSimResult = "5"
  BY DEF LeaveSimResult
<1> HIDE DEF n
<1>4. RowOK(ModuleType, n)
  BY <1>0, <1>1, TableFacts
<1>5. n \in 0 .. LastRow[ModuleType]
  BY <1>1
<1>6. Place' = n \/ Place' = StepRow(n).f_jump
  BY <1>0, <1>2, <1>3, <1>5, FinishMoves, JumpIs
<1>7. Place' \notin KnownRows[ModuleType]
  BY <1>1, <1>4, <1>6 DEF RowOK, StepRow
<1>8. /\ Place' \in 0 .. LastRow[ModuleType] /\ RowOK(ModuleType, Place')
      /\ ModuleType = "EC800" => Place' = n
      /\ ret' \in {"WAIT", "DONE", "ERROR"} /\ (ret' = "WAIT" => netConfig' = Place')
  BY <1>0, <1>2, <1>3, <1>5, FinishMoves, JumpIs, TableFacts
<1>9. Place' \notin AttachedRows[ModuleType]
  BY <1>7, <1>8 DEF RowOK
<1>10. ModuleType = "EC800" => ret' = "WAIT" /\ netConfig' = n
  BY <1>1, <1>8, PlaceIsNext
<1> QED
  BY <1>2, <1>3, <1>5, <1>7, <1>9, <1>10 DEF n

LEMMA GetSnNoInv ==
  ASSUME ConfigInv, ret = "WAIT", UNCHANGED <<ModuleType, session, misread>>, GetSnNo
  PROVE  ConfigInv'
<1>1. Command = "GET_SN_NO" /\ UNCHANGED <<simFlag, iccid, sim, attached, tried>>
  BY DEF GetSnNo
<1>2. ~(DualSim' /\ net4g_reconnect_flag')
  BY DEF GetSnNo, DualSim
<1>3. simFlag \in {NONE} \cup SIM /\ sim \in SIM /\ ConfigTypes
  BY DEF ConfigInv, ConfigTypes
<1>4. CASE net4g_reconnect_flag /\ DualSim /\ simFlag \in SIM
  <2>1. LeaveSim(simFlag)
    BY <1>4 DEF GetSnNo
  <2> DEFINE n == IF simFlag = 1 THEN BackSim2Row[ModuleType] ELSE LookSim1Row[ModuleType]
  <2>2. /\ n \in 0 .. LastRow[ModuleType] /\ Finish(LeaveSimResult, n)
        /\ LeaveSimResult \in {"AT_OK", "AT_ERR", "5"}
        /\ Place' \notin KnownRows[ModuleType] /\ Place' \notin AttachedRows[ModuleType]
        /\ ModuleType = "EC800" => ret' = "WAIT" /\ netConfig' = n
    BY <1>4, <2>1, LeaveMoves
  <2>3. session \in SIM /\ (~misread => simFlag = session)
    BY <1>4 DEF ConfigInv, WalkInv, FlagInv
  <2>4. /\ simState' = [simState EXCEPT ![simFlag] = 2]
        /\ verdict' = [verdict EXCEPT ![session] = 2]
        /\ blamed' = session
    BY <2>1 DEF LeaveSim
  <2>5. simState' \in [SIM -> 0 .. 2] /\ verdict' \in [SIM -> 0 .. 2]
    <3>1. simState \in [SIM -> 0 .. 2] /\ verdict \in [SIM -> 0 .. 2]
      BY DEF ConfigInv, ConfigTypes
    <3>2. \A f \in [SIM -> 0 .. 2] : \A k \in SIM : [f EXCEPT ![k] = 2] \in [SIM -> 0 .. 2]
      OBVIOUS
    <3>3. simFlag \in SIM /\ session \in SIM
      BY <1>4, <2>3
    <3> QED
      BY <2>4, <3>1, <3>2, <3>3, Zenon
  <2>6. ~misread => simState' = verdict'
    BY <1>4, <2>3, <2>4 DEF ConfigInv, FiledUnderRightSim
  <2>7. ConfigTypes'
    <3> HIDE DEF n
    <3> QED
      BY <1>1, <1>3, <2>2, <2>5, TypesKept DEF ConfigTypes
  <2>8. WalkInv'
    BY <1>1, <1>2, <2>2 DEF ConfigInv, WalkInv, FlagInv, DualSim
  <2>9. FiledUnderRightSim'
    BY <1>1, <2>6 DEF ConfigInv, FiledUnderRightSim
  <2>10. BlameInv'
    BY <1>3, <2>2, <2>3, <2>4 DEF BlameInv, SIM
  <2> QED
    BY <2>7, <2>8, <2>9, <2>10 DEF ConfigInv
<1>5. CASE ~(net4g_reconnect_flag /\ DualSim /\ simFlag \in SIM)
  <2>1. ByPreference /\ UNCHANGED <<simState, verdict, blamed>>
    BY <1>5 DEF GetSnNo
  <2>2. PICK n \in 0 .. LastRow[ModuleType], result \in {"AT_OK", "AT_ERR", "5"} :
            /\ Finish(result, n)
            /\ Place' \in AttachedRows[ModuleType] => netConfig \in AttachedRows[ModuleType]
            /\ Place' \in KnownRows[ModuleType] => netConfig \in KnownRows[ModuleType]
    BY <1>1, <2>1, PreferenceMoves
  <2>3. ConfigTypes'
    BY <1>1, <1>3, <2>1, <2>2, TypesKept DEF ConfigTypes
  <2>4. WalkInv'
    BY <1>1, <1>2, <1>3, <2>2, Standing DEF ConfigInv, WalkInv, FlagInv, DualSim
  <2>5. FiledUnderRightSim'
    BY <1>1, <2>1, FiledKept DEF ConfigInv
  <2>6. BlameInv'
    BY <1>1, <2>1, BlameKept DEF ConfigInv
  <2> QED
    BY <2>3, <2>4, <2>5, <2>6 DEF ConfigInv
<1> QED
  BY <1>4, <1>5

LEMMA ProcessInv ==
  ASSUME ConfigInv, module_4g_config_para_process
  PROVE  ConfigInv'
<1>1. ret = "WAIT" /\ UNCHANGED <<ModuleType, session>>
  BY DEF module_4g_config_para_process
<1>2. ASSUME NEW result \in AtResult, PlainCommand(result), UNCHANGED misread PROVE ConfigInv'
  BY <1>1, <1>2, PlainInv
<1>3. ASSUME NEW k \in SIM, NEW result \in AtResult, NEW switched \in BOOLEAN,
             SimChange(k, result, switched), UNCHANGED misread
      PROVE  ConfigInv'
  BY <1>1, <1>3, SimChangeInv
<1>4. ASSUME NEW result \in AtResult, NEW named \in BOOLEAN, SimCheck(result, named)
      PROVE  ConfigInv'
  BY <1>1, <1>4, SimCheckInv
<1>5. ASSUME NEW result \in AtResult, GetSimNo(result), UNCHANGED misread PROVE ConfigInv'
  BY <1>1, <1>5, GetSimNoInv
<1>6. ASSUME NEW answer \in 0 .. 2, GetSimState(answer), UNCHANGED misread PROVE ConfigInv'
  BY <1>1, <1>6, GetSimStateInv
<1>7. ASSUME NEW answer \in 0 .. 2, GetNetState(answer), UNCHANGED misread PROVE ConfigInv'
  BY <1>1, <1>7, GetNetStateInv
<1>8. CASE GetSnNo /\ UNCHANGED misread
  BY <1>1, <1>8, GetSnNoInv
<1> QED
  BY <1>2, <1>3, <1>4, <1>5, <1>6, <1>7, <1>8 DEF module_4g_config_para_process

-----------------------------------------------------------------------------
(* The whole configuration. *)

\* A pass that starts stands on row 0, where nothing is known of the SIM.
LEMMA RowZero ==
  ASSUME NEW m \in ModuleTypes
  PROVE  /\ 0 \in 0 .. LastRow[m] - 2 /\ 0 \notin AttachedRows[m]
         /\ m # "EG800" => 0 \notin KnownRows[m]
         /\ 0 <= SnRow[m]
<1>1. CASE m = "NT26"
  BY <1>1 DEF LastRow, AttachedRows, KnownRows, SnRow
<1>2. CASE m = "EC800"
  BY <1>2 DEF LastRow, AttachedRows, KnownRows, SnRow
<1>3. CASE m = "EG800"
  BY <1>3 DEF LastRow, AttachedRows, KnownRows, SnRow
<1> QED
  BY <1>1, <1>2, <1>3 DEF ModuleTypes

LEMMA ConfigStarts == ASSUME Init PROVE ConfigInv
<1>1. ModuleType \in ModuleTypes
  BY BuildsAssumption DEF Init
<1>2. Place = 0
  BY PlaceIs DEF Init
<1>3. iccid \in [SIM -> {EMPTY_ICCID, ERASED_ICCID}]
  BY DEF Init
<1>4. ConfigTypes
  BY <1>1, <1>3, RowZero DEF Init, ConfigTypes, EMPTY_ICCID, ERASED_ICCID, NONE
<1>5. WalkInv
  BY <1>1, <1>2, RowZero DEF Init, WalkInv, FlagInv, DualSim
<1>6. FiledUnderRightSim
  BY <1>3 DEF Init, FiledUnderRightSim
<1>7. BlameInv
  BY DEF Init, BlameInv
<1> QED
  BY <1>4, <1>5, <1>6, <1>7 DEF ConfigInv

\* After a connection is lost the SIM known is still the one it was lost on.
LEMMA ReconnectInv == ASSUME ConfigInv, Reconnect PROVE ConfigInv'
<1>1. /\ ret = "DONE" /\ ret' = "WAIT" /\ blamed' = NONE
      /\ session' = sim
      /\ (sim' = sim /\ attached' = attached) \/ sim' \in SIM
      /\ UNCHANGED <<ModuleType, netConfig, simFlag, simState, iccid, verdict, misread>>
  BY DEF Reconnect
<1>2. ModuleType \in ModuleTypes /\ netConfig = 0
  BY <1>1 DEF ConfigInv, ConfigTypes
<1>3. Place' = 0 /\ Place = LastRow[ModuleType] - 1
  BY <1>1, <1>2, PlaceIs, PlaceIsNext
<1>4. DualSim /\ ~misread => simFlag = sim
  <2>1. RowOK(ModuleType, LastRow[ModuleType] - 1) /\ Place \in AttachedRows[ModuleType]
    BY <1>2, <1>3, TableFacts
  <2> QED
    BY <1>3, <2>1 DEF ConfigInv, WalkInv, RowOK
<1>5. ConfigTypes'
  BY <1>1, <1>2, RowZero DEF ConfigInv, ConfigTypes
<1>6. WalkInv'
  <2>1. sim \in SIM /\ (~DualSim => simFlag = NONE)
    BY DEF ConfigInv, ConfigTypes, WalkInv
  <2>2. /\ Place' \notin AttachedRows[ModuleType]
        /\ DualSim => Place' \notin KnownRows[ModuleType]
        /\ Place' <= SnRow[ModuleType]
    BY <1>2, <1>3, RowZero DEF DualSim
  <2> QED
    BY <1>1, <1>4, <2>1, <2>2, Zenon DEF WalkInv, FlagInv, DualSim
<1>7. FiledUnderRightSim'
  BY <1>1, FiledKept DEF ConfigInv
<1>8. BlameInv'
  BY <1>1 DEF BlameInv
<1> QED
  BY <1>5, <1>6, <1>7, <1>8 DEF ConfigInv

\* A restart forgets everything but the numbers in flash.
LEMMA RebootInv == ASSUME ConfigInv, Reboot PROVE ConfigInv'
<1>1. /\ ret' = "WAIT" /\ netConfig' = 0 /\ simFlag' = NONE /\ sim' \in SIM
      /\ simState' = [k \in SIM |-> 0] /\ verdict' = [k \in SIM |-> 0]
      /\ net4g_reconnect_flag' = FALSE /\ blamed' = NONE
      /\ UNCHANGED <<ModuleType, iccid, misread>>
  BY DEF Reboot
<1>2. ModuleType \in ModuleTypes
  BY DEF ConfigInv, ConfigTypes
<1>3. Place' = 0
  BY <1>1, PlaceIsNext
<1>4. ConfigTypes'
  BY <1>1, <1>2, RowZero DEF ConfigInv, ConfigTypes
<1>5. WalkInv'
  BY <1>1, <1>2, <1>3, RowZero DEF WalkInv, FlagInv, DualSim
<1>6. FiledUnderRightSim'
  BY <1>1 DEF ConfigInv, FiledUnderRightSim
<1>7. BlameInv'
  BY <1>1 DEF BlameInv
<1> QED
  BY <1>4, <1>5, <1>6, <1>7 DEF ConfigInv

LEMMA ConfigStep == ConfigInv /\ [Next]_vars => ConfigInv'
<1> SUFFICES ASSUME ConfigInv, [Next]_vars PROVE ConfigInv'
  OBVIOUS
<1>1. CASE UNCHANGED vars
  <2>1. UNCHANGED <<ModuleType, netConfig, ret, simFlag, simState, iccid, net4g_reconnect_flag,
                    sim, verdict, attached, blamed, tried, session, misread>>
    BY <1>1 DEF vars
  <2>2. Place' = Place
    BY <2>1, Zenon DEF Place
  <2>3. ConfigTypes'
    BY <2>1 DEF ConfigInv, ConfigTypes
  <2>4. WalkInv'
    BY <2>1, <2>2 DEF ConfigInv, WalkInv, FlagInv, DualSim
  <2>5. FiledUnderRightSim'
    BY <2>1, FiledKept DEF ConfigInv
  <2>6. BlameInv'
    BY <2>1 DEF ConfigInv, BlameInv
  <2> QED
    BY <2>3, <2>4, <2>5, <2>6 DEF ConfigInv
<1> QED
  BY <1>1, ProcessInv, ReconnectInv, RebootInv DEF Next

LEMMA ConfigInvariant == Spec => []ConfigInv
<1>1. Init => ConfigInv
  BY ConfigStarts
<1> QED
  BY <1>1, ConfigStep, PTL DEF Spec

\* PROCESS_DONE stands for a row reached through the rows of an attached SIM.
LEMMA DoneIsAttached ==
  ASSUME ConfigInv, ret = "DONE"
  PROVE  Place \in AttachedRows[ModuleType] /\ Place \in KnownRows[ModuleType]
<1>1. ModuleType \in ModuleTypes /\ Place = LastRow[ModuleType] - 1
  BY PlaceIs DEF ConfigInv, ConfigTypes
<1>2. Place \in AttachedRows[ModuleType] /\ Place \in 0 .. LastRow[ModuleType]
  BY <1>1, TableFacts
<1>3. RowOK(ModuleType, Place)
  BY <1>1, <1>2, TableFacts
<1> QED
  BY <1>2, <1>3 DEF RowOK

\* In every build of every family, PROCESS_DONE leaves the modem on a SIM that
\* answered "attached" after it was selected, whatever failed on the way.
THEOREM DoneIsOnAttachedSim == Spec => []DoneOnAttachedSim
<1>1. ConfigInv => DoneOnAttachedSim
  BY DoneIsAttached DEF ConfigInv, WalkInv, DoneOnAttachedSim
<1> QED
  BY <1>1, ConfigInvariant, PTL

\* The device goes on to log in only with the right idea of the SIM in use, as
\* long as the modem names slots it has.
THEOREM DoneWithKnownSim == Spec => []DoneKnowsItsSim
<1>1. ConfigInv => DoneKnowsItsSim
  BY DoneIsAttached DEF ConfigInv, WalkInv, DoneKnowsItsSim
<1> QED
  BY <1>1, ConfigInvariant, PTL

\* The numbers in flash and the states in RAM are filed under the SIM they are
\* about, across reconnections and restarts, as long as the modem names slots it
\* has.
THEOREM FiledRight == Spec => []FiledUnderRightSim
<1>1. ConfigInv => FiledUnderRightSim
  BY DEF ConfigInv
<1> QED
  BY <1>1, ConfigInvariant, PTL

\* The EC800 build asks for the other SIM before it gives up after a lost
\* connection.
THEOREM OtherSimTried == Spec => []ReconnectTriesOtherSimEC800
<1>1. ConfigInv => ReconnectTriesOtherSimEC800
  BY DEF ConfigInv, BlameInv, ReconnectTriesOtherSimEC800, ReconnectTriesOtherSim
<1> QED
  BY <1>1, ConfigInvariant, PTL
=============================================================================
