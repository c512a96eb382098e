--------------------------- MODULE RtosQueueFreeRtos ---------------------------
(***************************************************************************)
(* The queue of rtos_port_freertos.c: a kernel queue behind a wrapper that *)
(* first asks how many messages are waiting and then, in a second kernel   *)
(* call, sends or receives without waiting.  Each kernel call is atomic;   *)
(* a task can be preempted between the two.                                *)
(***************************************************************************)
EXTENDS RtosPort

CONSTANTS
    Producers,  \* the tasks that send: two for the telemetry queue
    Consumer    \* the one task that receives

ASSUME KernelQueueAssumption == Consumer \notin Producers

VARIABLES
    queue,      \* the kernel's queue
    pc,         \* "out" of the wrapper, or between its two kernel calls
    message,    \* the item each producer is sending
    ok, got     \* the last return value and copied item

vars == <<queue, pc, message, ok, got>>

Tasks == Producers \cup {Consumer}

Init ==
    /\ queue = <<>>
    /\ pc = [t \in Tasks |-> "out"]
    /\ message \in [Producers -> Item]
    /\ ok = TRUE
    /\ got \in Item

\* What the kernel calls answer.
Waiting == Len(queue)
KernelHasRoom == Len(queue) < Capacity

\* rtos_queue_is_full, the first half of rtos_queue_send.
SendCheck(p, item) ==
    /\ pc[p] = "out"
    /\ message' = [message EXCEPT ![p] = item]
    /\ IF Waiting >= Capacity
       THEN ok' = FALSE /\ UNCHANGED pc
       ELSE pc' = [pc EXCEPT ![p] = "send"] /\ UNCHANGED ok
    /\ UNCHANGED <<queue, got>>

\* Mutant: there was room a moment ago, so the kernel's answer is not looked at.
SendTrustsCheck(p) ==
    /\ pc[p] = "send"
    /\ pc' = [pc EXCEPT ![p] = "out"]
    /\ ok' = TRUE
    /\ queue' = IF KernelHasRoom THEN Append(queue, message[p]) ELSE queue
    /\ UNCHANGED <<message, got>>

\* xQueueSend with no wait, the second half.
Send(p) ==
    /\ pc[p] = "send"
    /\ pc' = [pc EXCEPT ![p] = "out"]
    /\ ok' = KernelHasRoom
    /\ queue' = IF ok' THEN Append(queue, message[p]) ELSE queue
    /\ UNCHANGED <<message, got>>

\* Mutant: the emptiness check is dropped.
ReceiveUnchecked ==
    /\ pc[Consumer] = "out"
    /\ pc' = [pc EXCEPT ![Consumer] = "receive"]
    /\ UNCHANGED <<queue, message, ok, got>>

\* rtos_queue_is_empty, the first half of rtos_queue_receive.
ReceiveCheck ==
    /\ pc[Consumer] = "out"
    /\ IF Waiting = 0
       THEN ok' = FALSE /\ UNCHANGED pc
       ELSE pc' = [pc EXCEPT ![Consumer] = "receive"] /\ UNCHANGED ok
    /\ UNCHANGED <<queue, message, got>>

\* xQueueReceive with no wait, the second half.
Receive ==
    /\ pc[Consumer] = "receive"
    /\ pc' = [pc EXCEPT ![Consumer] = "out"]
    /\ ok' = (queue # <<>>)
    /\ queue' = IF ok' THEN Tail(queue) ELSE queue
    /\ got' = IF ok' THEN Head(queue) ELSE got
    /\ UNCHANGED message

Next ==
    \/ \E p \in Producers : Send(p) \/ \E item \in Item : SendCheck(p, item)
    \/ ReceiveCheck
    \/ Receive

Spec == Init /\ [][Next]_vars

-----------------------------------------------------------------------------
\* Type invariant; the queue never exceeds its static storage.
TypeOK ==
    /\ queue \in Seq(Item) /\ Len(queue) <= Capacity
    /\ pc \in [Tasks -> {"out", "send", "receive"}]
    /\ pc[Consumer] # "send"
    /\ message \in [Producers -> Item]
    /\ ok \in BOOLEAN
    /\ got \in Item

\* With a single consumer the answer of the emptiness check cannot go stale: a
\* receive that passed it finds a message, however it was preempted in between.
ReceiveFindsMessage == pc[Consumer] = "receive" => queue # <<>>

\* However the two halves of concurrent calls interleave, the wrapper is a
\* bounded FIFO: it reports a failure only when the queue is full or empty at
\* that moment, and never reports as sent a message that is not in the queue.
Fifo == INSTANCE BoundedFifo

FifoSpec == Fifo!Spec
===============================================================================
