---------------------------- MODULE MCOrderSaga -----------------------------
(***************************************************************************)
(* Model values for the runs of OrderSaga, and a reduction for the one     *)
(* with failing calls.                                                     *)
(***************************************************************************)
EXTENDS OrderSaga, TLC

\* Orders and couriers are only compared for equality.
Symmetry == Permutations(Orders) \cup Permutations(Couriers)

\* Steps whose only effect is to publish what no consumer of the saga reads.
Leaf == {"announce", "announceCancel", "publishCancelled"}

\* A consumer at such a step goes first.  The step, or its failing, commutes to
\* the left of every other step and no property of the run looks at it; only a
\* restart could come in between, and the run has none.
LeafFirst ==
    LET waiting == {c \in Consumers : pc[c] \in Leaf}
        first   == CHOOSE c \in waiting : TRUE
    IN  waiting # {} =>
            /\ \A c \in Consumers \ {first} : pc'[c] = pc[c] /\ pos'[c] = pos[c]
            /\ UNCHANGED <<creating, status, cooking, riding, arrived, stopped>>

\* A consumer stops when there is a message for it.  To stop before makes no
\* difference until a message comes, and none at all when none comes: both
\* sides of DamageBounded count the stop and its failed call.
StopsAtMessage == \A c \in stopped' \ stopped : HasMessage(c)

\* A second fault only while there is a single order: it takes two to make one
\* order go wrong in most ways, and one to see what its neighbour suffers.
SecondFaultAlone ==
    errors <= 1 \/ \E o \in Orders : \A p \in Orders \ {o} : status[p] = "NONE"
=============================================================================
