----------------------------- MODULE RtosBackends ------------------------------
(***************************************************************************)
(* Both backends of rtos_port.h side by side: every call that returns from *)
(* the FreeRTOS wrapper is made to the host port too, at the moment the    *)
(* wrapper takes effect.  The queue of RtosQueueFreeRtos runs beside the   *)
(* ring of RtosQueueHost; the mutex and the event group are added here.    *)
(***************************************************************************)
EXTENDS RtosQueueFreeRtos

CONSTANTS
    EventBits,  \* the bits of the event group
    Writer      \* the one task that sets and clears them

VARIABLES
    storage, head, tail, count,     \* the host port's queue
    ringOk, ringGot,                \* what the host port's last call returned
    locked,                         \* mutex->locked of the host port
    holder,                         \* the kernel's holder of the mutex
    bits, kernelBits,               \* event_group->bits, and the kernel's
    clearing,                       \* Writer is between the two calls of a clear
    cleared,                        \* what the host port's clear has answered
    hostAnswer, kernelAnswer        \* what the last mutex or event call returned

ring == <<storage, head, tail, count, ringOk, ringGot>>
others == <<locked, holder, bits, kernelBits, clearing, cleared, hostAnswer, kernelAnswer>>
bvars == <<vars, ring, others>>

Ring == INSTANCE RtosQueueHost WITH ok <- ringOk, got <- ringGot

NoTask == "none"

ASSUME BackendsAssumption == NoTask \notin Tasks /\ Writer \in Tasks

BInit ==
    /\ Init
    /\ Ring!Init /\ ringGot = got
    /\ locked = FALSE /\ holder = NoTask
    /\ bits = {} /\ kernelBits = {} /\ clearing = FALSE /\ cleared = {}
    /\ hostAnswer = TRUE /\ kernelAnswer = TRUE

\* Task t is outside all wrappers and may call the next one.
Free(t) == pc[t] = "out" /\ ~(t = Writer /\ clearing)

-----------------------------------------------------------------------------
(* The queue: the host port is called when the wrapper returns.            *)

QueueSend(p) ==
    \/ \E item \in Item :
          /\ Free(p)
          /\ SendCheck(p, item)
          /\ IF pc'[p] = "out" THEN Ring!Send(item) ELSE UNCHANGED ring
    \/ Send(p) /\ Ring!Send(message[p])

QueueReceive ==
    \/ /\ Free(Consumer)
       /\ ReceiveCheck
       /\ IF pc'[Consumer] = "out" THEN Ring!Receive ELSE UNCHANGED ring
    \/ Receive /\ Ring!Receive

-----------------------------------------------------------------------------
(* The mutex.                                                              *)

HostLock == hostAnswer' = ~locked /\ locked' = TRUE
HostUnlock == hostAnswer' = locked /\ locked' = FALSE

\* xSemaphoreTake without waiting, and xSemaphoreGive.
KernelTake(t) ==
    /\ kernelAnswer' = (holder = NoTask)
    /\ holder' = IF holder = NoTask THEN t ELSE holder
KernelGive(t) == kernelAnswer' = (holder = t) /\ holder' = NoTask

Lock(t) ==
    /\ Free(t)
    /\ HostLock /\ KernelTake(t)
    /\ UNCHANGED <<bits, kernelBits, clearing, cleared>>

\* A caller unlocks what it has locked or, by mistake, a mutex nobody holds; the
\* kernel would abort if a task gave back the mutex of another.
Unlock(t) ==
    /\ Free(t)
    /\ holder \in {t, NoTask}
    /\ HostUnlock /\ KernelGive(t)
    /\ UNCHANGED <<bits, kernelBits, clearing, cleared>>

-----------------------------------------------------------------------------
(* The event group.                                                        *)

HostSetBits(b) == bits' = bits \cup b /\ hostAnswer' = bits'
HostClearBits(b) == bits' = bits \ b /\ cleared' = bits'

KernelSetBits(b) == kernelBits' = kernelBits \cup b /\ kernelAnswer' = kernelBits'

SetBits(b) ==
    /\ Free(Writer)
    /\ HostSetBits(b) /\ KernelSetBits(b)
    /\ UNCHANGED <<locked, holder, clearing, cleared>>

\* xEventGroupClearBits answers with the bits before, so the wrapper asks again.
ClearBits(b) ==
    /\ Free(Writer)
    /\ HostClearBits(b)
    /\ kernelBits' = kernelBits \ b
    /\ clearing' = TRUE
    /\ UNCHANGED <<locked, holder, hostAnswer, kernelAnswer>>

ClearGetsBits ==
    /\ clearing
    /\ clearing' = FALSE /\ cleared' = {}
    /\ hostAnswer' = cleared /\ kernelAnswer' = kernelBits
    /\ UNCHANGED <<locked, holder, bits, kernelBits>>

GetBits(t) ==
    /\ Free(t)
    /\ hostAnswer' = bits /\ kernelAnswer' = kernelBits
    /\ UNCHANGED <<locked, holder, bits, kernelBits, clearing, cleared>>

BNext ==
    \/ (QueueReceive \/ \E p \in Producers : QueueSend(p)) /\ UNCHANGED others
    \/ /\ \/ \E t \in Tasks : Lock(t) \/ Unlock(t) \/ GetBits(t)
          \/ \E b \in SUBSET EventBits : SetBits(b) \/ ClearBits(b)
          \/ ClearGetsBits
       /\ UNCHANGED <<vars, ring>>

BSpec == BInit /\ [][BNext]_bvars

-----------------------------------------------------------------------------
(* Properties.                                                             *)

\* Code tested on the host port sees the same on FreeRTOS: whatever tasks
\* interleave in the wrapper, both backends hold the same messages, lock and
\* bits, and every finished call has answered alike.
BackendsAgree ==
    /\ ringOk = ok /\ ringGot = got
    /\ Ring!Contents = queue
    /\ locked <=> holder # NoTask
    /\ bits = kernelBits
    /\ hostAnswer = kernelAnswer
===============================================================================
