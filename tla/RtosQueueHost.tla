----------------------------- MODULE RtosQueueHost ----------------------------
(***************************************************************************)
(* The queue of rtos_port_host.c: a ring over caller-owned storage with a  *)
(* head, a tail and a count.  The storage is not cleared, neither by init  *)
(* nor by receive, so its unused slots hold whatever was there.            *)
(***************************************************************************)
EXTENDS RtosPort

VARIABLES storage, head, tail, count,   \* the fields of rtos_queue_t
          ok, got                       \* the last return value and copied item

vars == <<storage, head, tail, count, ok, got>>

Slots == 0..(Capacity - 1)

Init ==
    /\ storage \in [Slots -> Item]
    /\ head = 0 /\ tail = 0 /\ count = 0
    /\ ok = TRUE
    /\ got \in Item

IsEmpty == count = 0
IsFull == count = Capacity

\* Mutant: the tail restarts at the second slot after the last one.
SendWrapsToOne(item) ==
    IF IsFull
    THEN ok' = FALSE /\ UNCHANGED <<storage, head, tail, count, got>>
    ELSE /\ ok' = TRUE
         /\ storage' = [storage EXCEPT ![tail] = item]
         /\ tail' = IF tail = Capacity - 1 THEN 1 ELSE tail + 1
         /\ count' = count + 1
         /\ UNCHANGED <<head, got>>

Send(item) ==
    IF IsFull
    THEN ok' = FALSE /\ UNCHANGED <<storage, head, tail, count, got>>
    ELSE /\ ok' = TRUE
         /\ storage' = [storage EXCEPT ![tail] = item]
         /\ tail' = (tail + 1) % Capacity
         /\ count' = count + 1
         /\ UNCHANGED <<head, got>>

Receive ==
    IF IsEmpty
    THEN ok' = FALSE /\ UNCHANGED <<storage, head, tail, count, got>>
    ELSE /\ ok' = TRUE
         /\ got' = storage[head]
         /\ head' = (head + 1) % Capacity
         /\ count' = count - 1
         /\ UNCHANGED <<storage, tail>>

Next == Receive \/ \E item \in Item : Send(item)

Spec == Init /\ [][Next]_vars

-----------------------------------------------------------------------------
\* Type invariant.
TypeOK ==
    /\ storage \in [Slots -> Item]
    /\ head \in Slots
    /\ tail \in Slots
    /\ count \in 0..Capacity
    /\ ok \in BOOLEAN
    /\ got \in Item

\* The slot count places ahead of i, for i and n below the capacity's double.
Ahead(i, n) == IF i + n < Capacity THEN i + n ELSE i + n - Capacity

\* The three redundant fields agree however often the indices have wrapped: the
\* tail is count slots ahead of the head.
RingInv == tail = Ahead(head, count)

\* The ring is a bounded FIFO: what is in it is read from the head on.
Contents == [i \in 1..count |-> storage[Ahead(head, i - 1)]]

Fifo == INSTANCE BoundedFifo WITH queue <- Contents

FifoSpec == Fifo!Spec
===============================================================================
