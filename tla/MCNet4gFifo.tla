---------------------------- MODULE MCNet4gFifo ----------------------------
(* Values for Net4gFifo: "+QM" and "rn" stand for the two keywords.  The lines are *)
(* a command, one whose payload holds a tail, one whose payload holds the end of a *)
(* string and half a tail, and a line that only begins like a command.             *)
EXTENDS Net4gFifo

MCHeader == <<"+", "Q", "M">>
MCEnd == <<"r", "n">>
MCLines == {MCHeader \o <<"1">> \o MCEnd,
            MCHeader \o MCEnd \o <<"1">> \o MCEnd,
            MCHeader \o <<NUL, "r">> \o MCEnd,
            <<"+", "Q", "S">> \o MCEnd}
=============================================================================
