---------------------------- MODULE PubService ----------------------------
(***************************************************************************)
(* What publishing over the 4G link promises, without rings, stages, waits *)
(* or modem: messages are numbered as they are accepted and dealt with one *)
(* at a time in that order.  The message in turn is announced, its data is *)
(* written once, and it is removed; or it is announced and given up; or it *)
(* is announced, the link fails, and it is announced again.  Capacity      *)
(* messages are one too many: they are lost, at the latest when another is *)
(* accepted.  A reboot loses everything.                                   *)
(***************************************************************************)
EXTENDS Naturals, Sequences

CONSTANT Capacity

VARIABLES
  pending,   \* messages accepted and not yet removed, in order
  accepted,  \* number of messages accepted since start-up
  stage,     \* of the first pending message: "idle", "announced", "written"
  written    \* messages whose data was written, in order

svars == <<pending, accepted, stage, written>>

Init ==
  /\ pending = <<>>
  /\ accepted = 0
  /\ stage = "idle"
  /\ written = <<>>

Accept ==
  /\ Len(pending) < Capacity
  /\ pending' = Append(pending, accepted + 1)
  /\ accepted' = accepted + 1
  /\ UNCHANGED <<stage, written>>

\* The message that fills the queue makes all of them disappear; behind a queue
\* that was filled while it was worked on, the message is the only one left.
Overrun ==
  /\ \/ Len(pending) = Capacity - 1 /\ pending' = <<>>
     \/ Len(pending) = Capacity /\ pending' = <<accepted + 1>>
  /\ accepted' = accepted + 1
  /\ UNCHANGED <<stage, written>>

\* The link fails with a queue that was filled while it was worked on.
Overlook ==
  /\ Len(pending) = Capacity
  /\ pending' = <<>>
  /\ stage' = stage \/ (stage = "announced" /\ stage' = "idle")
  /\ UNCHANGED <<accepted, written>>

Announce ==
  /\ stage = "idle"
  /\ pending # <<>>
  /\ stage' = "announced"
  /\ UNCHANGED <<pending, accepted, written>>

Write ==
  /\ stage = "announced"
  /\ pending # <<>>
  /\ stage' = "written"
  /\ written' = Append(written, Head(pending))
  /\ UNCHANGED <<pending, accepted>>

\* With a response of the modem or without: a written message is not repeated.
Finish ==
  /\ stage = "written"
  /\ pending # <<>>
  /\ stage' = "idle"
  /\ pending' = Tail(pending)
  /\ UNCHANGED <<accepted, written>>

GiveUp ==
  /\ stage = "announced"
  /\ pending # <<>>
  /\ stage' = "idle"
  /\ pending' = Tail(pending)
  /\ UNCHANGED <<accepted, written>>

AnnounceAgain ==
  /\ stage = "announced"
  /\ stage' = "idle"
  /\ UNCHANGED <<pending, accepted, written>>

Restart ==
  /\ pending' = <<>>
  /\ accepted' = 0
  /\ stage' = "idle"
  /\ written' = <<>>

Next ==
  \/ Accept \/ Overrun \/ Overlook \/ Announce \/ Write \/ Finish \/ GiveUp \/ AnnounceAgain \/ Restart

Spec == Init /\ [][Next]_svars
=============================================================================
