--------------------------- MODULE MCNet4gDevice ---------------------------
(* Configurations for the config commands of Net4gDevice. *)
EXTENDS Net4gDevice, TLC

CONSTANTS k1, k2, b1, b2

\* One issued key is longer than the other.
KeyLengths == (k1 :> 1) @@ (k2 :> 2) @@ (b1 :> 1) @@ (b2 :> 2) @@ (NoKey :> 0)

Msg(w, s, p, i, o) ==
  [wifiEnable |-> w, ssid |-> s, password |-> p, cubbyInterval |-> i, other |-> o]

\* Names with and without a password, a password without a name, the switch
\* alone and with everything, an interval out of range.
Settings ==
  {Msg("on", "", FALSE, "", FALSE),      Msg("off", "", FALSE, "outside", TRUE),
   Msg("", "s1", FALSE, "", FALSE),      Msg("", "", TRUE, "", FALSE),
   Msg("on", "s2", TRUE, "inside", FALSE)}
=============================================================================
