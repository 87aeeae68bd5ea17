-------------------------- MODULE MCNotification ---------------------------
(***************************************************************************)
(* Reductions for the run of NotificationService.                          *)
(***************************************************************************)
EXTENDS NotificationService

\* A group stops when there is a message for it: to stop before makes no
\* difference until a message comes.
StopsAtMessage == \A t \in stopped' \ stopped : HasMessage(t)

\* What this service does not read is published once, when it causes something
\* else.  One topic repeats a message, in a story that ends one event early.
FewRepeats ==
    LET repeated == {t \in Subscribed : Len(log[t]) > 1}
    IN  /\ log["order.status.changed"] = <<>>
        /\ Len(log["order.paid"]) <= 1
        /\ \A t \in repeated : Len(log[t]) = 2
        /\ Cardinality(repeated) <= 1
        /\ repeated # {} => FoldFunction(LAMBDA s, n : Len(s) + n, 0, log) < MaxMessages
=============================================================================
