------------------------------ MODULE BoundedFifo -----------------------------
(***************************************************************************)
(* What rtos_port.h promises of a queue: a bounded first-in first-out      *)
(* buffer whose operations never wait and say whether they did their work. *)
(***************************************************************************)
EXTENDS Naturals, Sequences

CONSTANTS Item, Capacity

VARIABLES
    queue,  \* the items sent and not yet received, oldest first
    ok,     \* what the last operation returned
    got     \* the item the last successful receive copied out

vars == <<queue, ok, got>>

Init == queue = <<>> /\ ok = TRUE /\ got \in Item

Send(item) ==
    /\ ok' = (Len(queue) < Capacity)
    /\ queue' = IF ok' THEN Append(queue, item) ELSE queue
    /\ UNCHANGED got

Receive ==
    /\ ok' = (queue # <<>>)
    /\ queue' = IF ok' THEN Tail(queue) ELSE queue
    /\ got' = IF ok' THEN Head(queue) ELSE got

Next == Receive \/ \E item \in Item : Send(item)

Spec == Init /\ [][Next]_vars
===============================================================================
