---------------------------- MODULE Net4gTables ----------------------------
(***************************************************************************)
(* The AT command step tables of app_net4g.c, one set per family of 4G     *)
(* module: "NT26" (NT26E, NT26K, CE109), "EC800" (EC800, EC801) and        *)
(* "EG800" (EG800GEU).  A row is the command and the rows to go to when it *)
(* succeeds and when it fails; rows are numbered from 0 as in the code.    *)
(***************************************************************************)
EXTENDS Naturals, Sequences

ModuleTypes == {"NT26", "EC800", "EG800"}

Row(cmd, s, f) == [id |-> cmd, s_jump |-> s, f_jump |-> f]

\* net4g_config_command_steps of the NT26 family.
ConfigStepsNT26 == <<
  Row("HANDSHAKE", 1, 0),       Row("SET_CLOSE_ATE", 2, 2),
  Row("GET_MODULE_INFO", 3, 33), Row("GET_IMEI", 4, 33),
  Row("GET_SN_NO", 5, 33),
  \* 5: look at SIM 2
  Row("RF_OFF", 6, 33),         Row("SIM_CHANGE_2", 7, 7),
  Row("RF_ON", 8, 33),          Row("SIM_CHECK", 9, 12),
  Row("GET_SIM_NO", 10, 12),    Row("GET_SIM_STATE", 11, 12),
  Row("GET_NET_STATE", 12, 12),
  \* 12: look at SIM 1 and use it if it works
  Row("RF_OFF", 13, 33),        Row("SIM_CHANGE_1", 14, 14),
  Row("RF_ON", 15, 33),         Row("SIM_CHECK", 16, 19),
  Row("GET_SIM_NO", 17, 19),    Row("GET_SIM_STATE", 18, 19),
  Row("GET_NET_STATE", 26, 19),
  \* 19: fall back to SIM 2
  Row("RF_OFF", 20, 33),        Row("SIM_CHANGE_2", 21, 21),
  Row("RF_ON", 22, 33),         Row("SIM_CHECK", 23, 33),
  Row("GET_SIM_NO", 24, 33),    Row("GET_SIM_STATE", 25, 33),
  Row("GET_NET_STATE", 26, 33),
  \* 26
  Row("MQTT_DISCONNECT", 30, 30), Row("GET_LOCATION_PARA", 29, 28),
  Row("SET_LOCATION_PARA", 29, 29), Row("GET_LOCATION_ADDR", 30, 30),
  Row("GET_CELL", 31, 31),      Row("GET_RSSI", 32, 33),
  Row("SUCCESS", 32, 32),       Row("ERROR", 33, 33) >>

\* net4g_config_command_steps of the EC800 family.
ConfigStepsEC800 == <<
  Row("HANDSHAKE", 1, 0),       Row("SET_CLOSE_ATE", 2, 2),
  Row("RF_OFF", 3, 3),          Row("MIN_LEV", 4, 4),
  Row("SET_FENCE", 5, 5),       Row("RF_ON", 6, 6),
  Row("GET_MODULE_INFO", 7, 38), Row("GET_IMEI", 8, 38),
  Row("GET_SN_NO", 9, 38),
  \* 9: look at SIM 2
  Row("SIM_CHANGE_2", 10, 15),  Row("SIM_CHECK", 11, 15),
  Row("IS_SIM_OK", 12, 15),     Row("GET_SIM_NO", 13, 15),
  Row("GET_SIM_STATE", 14, 15), Row("GET_NET_STATE", 15, 15),
  \* 15: look at SIM 1 and use it if it works
  Row("SIM_CHANGE_1", 16, 21),  Row("SIM_CHECK", 17, 21),
  Row("IS_SIM_OK", 18, 21),     Row("GET_SIM_NO", 19, 21),
  Row("GET_SIM_STATE", 20, 21), Row("GET_NET_STATE", 27, 21),
  \* 21: fall back to SIM 2
  Row("SIM_CHANGE_2", 22, 38),  Row("SIM_CHECK", 23, 38),
  Row("IS_SIM_OK", 24, 38),     Row("GET_SIM_NO", 25, 38),
  Row("GET_SIM_STATE", 26, 38), Row("GET_NET_STATE", 27, 38),
  \* 27
  Row("SET_PDP", 28, 28),       Row("SET_DNS", 29, 29),
  Row("MQTT_DISCONNECT", 34, 34), Row("GET_LOCATION_PARA", 32, 31),
  Row("SET_LOCATION_PARA", 32, 32), Row("GET_LOCATION_ADDR", 33, 33),
  Row("GET_QCELL", 34, 34),     Row("GET_QENG_SERVINGCELL", 35, 35),
  Row("GET_QENG_NEIGHBOURCELL", 36, 36), Row("GET_RSSI", 37, 37),
  Row("SUCCESS", 37, 37),       Row("ERROR", 38, 38) >>

\* net4g_config_command_steps of the single-SIM EG800GEU.
ConfigStepsEG800 == <<
  Row("HANDSHAKE", 1, 0),       Row("SET_CLOSE_ATE", 2, 2),
  Row("GET_MODULE_INFO", 3, 19), Row("GET_IMEI", 4, 19),
  Row("GET_SN_NO", 5, 19),      Row("IS_SIM_OK", 6, 19),
  Row("GET_SIM_NO", 7, 19),     Row("SET_APN", 8, 19),
  Row("GET_SIM_STATE", 9, 19),  Row("GET_NET_STATE", 10, 19),
  Row("MQTT_DISCONNECT", 11, 11), Row("GET_LOCATION_PARA", 13, 12),
  Row("SET_LOCATION_PARA", 13, 14), Row("GET_LOCATION_ADDR", 14, 14),
  Row("GET_QCELL", 15, 15),     Row("GET_QENG_SERVINGCELL", 16, 16),
  Row("GET_QENG_NEIGHBOURCELL", 17, 17), Row("GET_RSSI", 18, 19),
  Row("SUCCESS", 18, 18),       Row("ERROR", 19, 19) >>

\* The table the build for each family contains.
ConfigSteps ==
  [NT26 |-> ConfigStepsNT26, EC800 |-> ConfigStepsEC800, EG800 |-> ConfigStepsEG800]

\* Rows the dual-SIM code of each family jumps to by number: where the look at
\* SIM 2, the look at SIM 1 and the fall-back to SIM 2 begin, and where they
\* all end.
LookSim2Row == [NT26 |-> 5,  EC800 |-> 9]
LookSim1Row == [NT26 |-> 12, EC800 |-> 15]
BackSim2Row == [NT26 |-> 19, EC800 |-> 21]
SimDoneRow  == [NT26 |-> 26, EC800 |-> 27]

-----------------------------------------------------------------------------
(* Activation, routing and log-in.  The EG800GEU has the tables of the      *)
(* EC800 family.                                                            *)

\* device_active_steps
ActiveStepsNT26 == <<
  Row("HTTP_CONFIG_CACHE", 1, 11),   Row("HTTP_CONFIG_SSL_CTX_ID", 2, 11),
  Row("SET_URL_CMD", 3, 11),         Row("SET_URL_DATA", 4, 11),
  Row("SET_CONNECT_URL", 5, 11),     Row("GET_HTTP_RSP", 6, 11),
  Row("CONFIRM_SET_URL_CMD", 7, 11), Row("CONFIRM_SET_URL_DATA", 8, 11),
  Row("CONFIRM_CONNECT_URL", 9, 11), Row("CONFIRM_GET_HTTP_RSP", 10, 11),
  Row("SUCCESS", 10, 10),            Row("ERROR", 11, 11) >>

ActiveStepsEC800 == <<
  Row("SET_URL_CMD", 1, 0),         Row("SET_URL_DATA", 2, 9),
  Row("SET_CONNECT_URL", 3, 9),     Row("GET_HTTP_RSP", 4, 9),
  Row("CONFIRM_SET_URL_CMD", 5, 9), Row("CONFIRM_SET_URL_DATA", 6, 9),
  Row("CONFIRM_CONNECT_URL", 7, 9), Row("CONFIRM_GET_HTTP_RSP", 8, 9),
  Row("SUCCESS", 8, 8),             Row("ERROR", 9, 9) >>

\* device_route_steps
RouteStepsNT26 == <<
  Row("HTTP_CONFIG_CACHE", 1, 6), Row("SET_URL_CMD", 2, 6), Row("SET_URL_DATA", 3, 6),
  Row("CONNECT_URL", 4, 6),       Row("GET_HTTP_RSP", 5, 6),
  Row("SUCCESS", 5, 5),           Row("ERROR", 6, 6) >>

RouteStepsEC800 == <<
  Row("SET_URL_CMD", 1, 5), Row("SET_URL_DATA", 2, 5), Row("CONNECT_URL", 3, 5),
  Row("GET_HTTP_RSP", 4, 5), Row("SUCCESS", 4, 4),     Row("ERROR", 5, 5) >>

\* device_signIn_steps; the families differ in what row 2 configures.
SignInStepsWith(row2) == <<
  Row("MQTT_DISCONNECT", 1, 1), Row("MQTT_NET_CLOSE", 2, 2), Row(row2, 3, 12),
  Row("MQTT_CONFIG_SESSION", 4, 12), Row("MQTT_TCONFIG_VERSION", 5, 12),
  Row("MQTT_CONFIG_TIMEOUT", 6, 12), Row("MQTT_CONFIG_KEEPALIVE", 7, 12),
  Row("MQTT_CONFIG_RECMODE", 8, 12), Row("MQTT_OPEN", 9, 12),
  Row("MQTT_CONNECT", 10, 12),       Row("MQTT_SUB_TOPIC", 11, 12),
  Row("SUCCESS", 11, 11),            Row("ERROR", 12, 12) >>

ActiveSteps ==
  [NT26 |-> ActiveStepsNT26, EC800 |-> ActiveStepsEC800, EG800 |-> ActiveStepsEC800]
RouteSteps ==
  [NT26 |-> RouteStepsNT26, EC800 |-> RouteStepsEC800, EG800 |-> RouteStepsEC800]
SignInSteps ==
  [NT26  |-> SignInStepsWith("MQTT_CONFIG_SENDMODE"),
   EC800 |-> SignInStepsWith("MQTT_CONFIG_PDP"),
   EG800 |-> SignInStepsWith("MQTT_CONFIG_PDP")]

\* Row device_active_process starts from when the first stage is done.
ConfirmRow == [NT26 |-> 6, EC800 |-> 4, EG800 |-> 4]
=============================================================================
