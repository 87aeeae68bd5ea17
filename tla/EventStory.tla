----------------------------- MODULE EventStory -----------------------------
(***************************************************************************)
(* What the events of the platform promise whoever listens to them: an     *)
(* event about an order is published only after one that can have caused   *)
(* it.  This is the diagram of events in MD/Architecture.md (205-227) with *)
(* the refunds of 405-440; the saga implements it whatever crashes, fails  *)
(* or is delivered again.                                                  *)
(***************************************************************************)
CONSTANT Orders

VARIABLE told     \* order -> topics on which something was published about it

\* The topics, one of which must have spoken of the order first.
Causes(t) ==
    CASE t = "order.created"                                -> {}
      [] t \in {"payment.processed", "payment.failed"}      -> {"order.created"}
      [] t = "order.paid"                                   -> {"payment.processed"}
      [] t \in {"order.ready", "order.preparation.failed"}  -> {"order.paid"}
      [] t \in {"courier.assigned", "delivery.failed"}      -> {"order.ready"}
      [] t = "order.delivered"                              -> {"courier.assigned"}
      [] t = "payment.refund.requested" -> {"order.preparation.failed", "delivery.failed"}
      [] t = "payment.refunded"         -> {"payment.refund.requested"}
      [] t = "order.cancelled"          ->
            {"payment.failed", "order.preparation.failed", "delivery.failed"}
      [] t = "order.status.changed"     ->
            {"payment.processed", "payment.failed", "order.preparation.failed",
             "delivery.failed", "payment.refunded", "order.delivered"}

Told == {"order.created", "payment.processed", "payment.failed", "order.paid",
         "order.ready", "order.preparation.failed", "courier.assigned",
         "delivery.failed", "order.delivered", "payment.refund.requested",
         "payment.refunded", "order.cancelled", "order.status.changed"}

\* Nothing is said before order.created; anything may be said again.
Tell(t, o) ==
    /\ t = "order.created" \/ Causes(t) \cap told[o] # {}
    /\ told' = [told EXCEPT ![o] = @ \cup {t}]

StoryInit == told = [o \in Orders |-> {}]

StoryNext == \E t \in Told, o \in Orders : Tell(t, o)

StorySpec == StoryInit /\ [][StoryNext]_told
=============================================================================
