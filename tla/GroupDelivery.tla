--------------------------- MODULE GroupDelivery ----------------------------
(***************************************************************************)
(* What EventBus assumes of the Kafka client, for one consumer group: it   *)
(* finishes one message after the other, and after a restart it resumes    *)
(* anywhere between the offset it last started from and its position       *)
(* (Continue, Restart and StoredOffsets of EventBus).                      *)
(***************************************************************************)
EXTENDS Naturals

VARIABLES
    written,    \* messages in the topic
    pos,        \* messages the group has finished handling
    since       \* where the process that is running, or the last, resumed

groupVars == <<written, pos, since>>

GroupInit == written = 0 /\ pos = 0 /\ since = 0

Write      == written' = written + 1 /\ UNCHANGED <<pos, since>>
FinishNext == pos < written /\ pos' = pos + 1 /\ UNCHANGED <<written, since>>
Resume     == \E f \in since..pos : pos' = f /\ since' = f /\ UNCHANGED written

GroupNext == Write \/ FinishNext \/ Resume

GroupSpec == GroupInit /\ [][GroupNext]_groupVars
=============================================================================
