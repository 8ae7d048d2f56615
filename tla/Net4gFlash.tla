----------------------------- MODULE Net4gFlash -----------------------------
(***************************************************************************)
(* The flash areas the 4G task writes with tls_fls_write, a call of the    *)
(* closed SDK: it erases and programs the area while the caller waits, so  *)
(* the calls a handler makes are performed one after the other before the  *)
(* task does anything else, and a loss of power during one leaves its area *)
(* as it was, torn, or written.                                            *)
(***************************************************************************)
EXTENDS Sequences

CONSTANT Torn     \* an area whose write was cut short

VARIABLES
  flash,     \* content of each area
  writes     \* areas still to be written by the handler that is running

flashVars == <<flash, writes>>

\* DEVICE_LOGIN_INFO_FLASH_ADDR, DEVICE_LOGIN_INFO_BACK_FLASH_ADDR,
\* DEVICE_COFNIG_PARA_INFO_FLASH_ADDR
Areas == {"LOGIN", "LOGIN_BACK", "CONFIG"}

Idle == writes = <<>>

\* The first call of the handler completes; Ram is the source of each area.
FlashWrite(Ram) ==
  /\ ~Idle
  /\ flash' = [flash EXCEPT ![Head(writes)] = Ram[Head(writes)]]
  /\ writes' = Tail(writes)

\* Power is lost before or in the middle of the call.
FlashCut ==
  /\ writes' = <<>>
  /\ \/ UNCHANGED flash
     \/ ~Idle /\ flash' = [flash EXCEPT ![Head(writes)] = Torn]
=============================================================================
