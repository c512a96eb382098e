------------------------------- MODULE RtosPort --------------------------------
(* What a caller of rtos_port.h gives a queue, with either backend.          *)
EXTENDS Naturals, Sequences

CONSTANTS
    Item,       \* the messages
    Capacity    \* queue->capacity; init refuses zero

ASSUME QueueAssumption == Capacity \in Nat \ {0}
===============================================================================
