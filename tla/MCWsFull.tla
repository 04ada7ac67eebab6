------------------------------ MODULE MCWsFull ------------------------------
(* Instances of WsFull for TLC.                                             *)
EXTENDS WsFullInvariant

CONSTANTS p1, r1, r2, i1, i2, u1, far

\* One user owns every id.
MCOwner == [i \in Ids |-> u1]

NoPairs == {}

\* What ws_restore and ws_editdb may run beside.
SafeJoint == {{"restore", t} : t \in {"release", "expire"}}

MCEdits == {[op |-> "addTime", val |-> 2], [op |-> "ensureUntil", val |-> 3],
            [op |-> "expireBy", val |-> 1], [op |-> "addTimeExpired", val |-> 1]}
=============================================================================
