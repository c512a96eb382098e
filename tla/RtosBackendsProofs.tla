-------------------------- MODULE RtosBackendsProofs ---------------------------
(***************************************************************************)
(* The queue of either backend of rtos_port.h is a bounded FIFO, and both  *)
(* backends answer alike, for every number of producers, capacity, item    *)
(* set and set of event bits.  First the ring of the host port, then the   *)
(* wrapper around the kernel's queue, then the two side by side.           *)
(***************************************************************************)
EXTENDS RtosBackends, SequenceTheorems, TLAPS

-----------------------------------------------------------------------------
(* The ring of the host port.                                              *)

\* The index arithmetic of the code stays among the slots.
LEMMA WrapStep ==
    ASSUME NEW i \in Ring!Slots
    PROVE  (i + 1) % Capacity = IF i + 1 = Capacity THEN 0 ELSE i + 1
<1>1. CASE i + 1 = Capacity
    BY <1>1, QueueAssumption DEF Ring!Slots
<1>2. CASE i + 1 # Capacity
    <2>1. i + 1 \in 0..(Capacity - 1)
        BY <1>2, QueueAssumption DEF Ring!Slots
    <2>2. QED BY <2>1, <1>2, QueueAssumption
<1>3. QED BY <1>1, <1>2

\* The ring starts empty with all its indices at the first slot.
LEMMA RingInit == Ring!Init => Ring!TypeOK /\ Ring!RingInv
BY QueueAssumption DEF Ring!Init, Ring!TypeOK, Ring!RingInv, Ring!Ahead, Ring!Slots

\* No send or receive breaks the types or parts the tail from head plus count.
LEMMA RingNext ==
    Ring!TypeOK /\ Ring!RingInv /\ [Ring!Next]_(Ring!vars)
        => (Ring!TypeOK /\ Ring!RingInv)'
<1> SUFFICES ASSUME Ring!TypeOK, Ring!RingInv, [Ring!Next]_(Ring!vars)
             PROVE  (Ring!TypeOK /\ Ring!RingInv)'
    OBVIOUS
<1>1. CASE Ring!Receive
    <2>1. CASE Ring!IsEmpty
        BY <1>1, <2>1 DEF Ring!Receive, Ring!TypeOK, Ring!RingInv
    <2>2. CASE ~Ring!IsEmpty
        <3>1. head' = IF head + 1 = Capacity THEN 0 ELSE head + 1
            BY <1>1, <2>2, WrapStep DEF Ring!Receive, Ring!TypeOK
        <3>2. QED
            BY <1>1, <2>2, <3>1, QueueAssumption
            DEF Ring!Receive, Ring!IsEmpty, Ring!TypeOK, Ring!RingInv, Ring!Ahead, Ring!Slots
    <2>3. QED BY <2>1, <2>2
<1>2. ASSUME NEW item \in Item, Ring!Send(item)
      PROVE  (Ring!TypeOK /\ Ring!RingInv)'
    <2>1. CASE Ring!IsFull
        BY <1>2, <2>1 DEF Ring!Send, Ring!TypeOK, Ring!RingInv
    <2>2. CASE ~Ring!IsFull
        <3>1. tail' = IF tail + 1 = Capacity THEN 0 ELSE tail + 1
            BY <1>2, <2>2, WrapStep DEF Ring!Send, Ring!TypeOK
        <3>2. QED
            BY <1>2, <2>2, <3>1, QueueAssumption
            DEF Ring!Send, Ring!IsFull, Ring!TypeOK, Ring!RingInv, Ring!Ahead, Ring!Slots
    <2>3. QED BY <2>1, <2>2
<1>3. CASE UNCHANGED Ring!vars
    BY <1>3 DEF Ring!vars, Ring!TypeOK, Ring!RingInv
<1>4. QED BY <1>1, <1>2, <1>3 DEF Ring!Next

\* No sequence of sends and receives takes the indices out of the storage, the
\* count past the capacity, or the tail away from head plus count.
THEOREM RingCorrect == Ring!Spec => [](Ring!TypeOK /\ Ring!RingInv)
BY RingInit, RingNext, PTL DEF Ring!Spec

-----------------------------------------------------------------------------
(* The refinement.                                                         *)

\* The slot a count of places ahead of another is a slot.
LEMMA AheadInSlots ==
    \A h \in Ring!Slots, n \in 0..Capacity :
        \A i \in 1..n : Ring!Ahead(h, i - 1) \in Ring!Slots
BY QueueAssumption DEF Ring!Ahead, Ring!Slots

\* What is in the ring is a sequence of count items read from the head on.
LEMMA ContentsFacts ==
    ASSUME Ring!TypeOK
    PROVE  /\ Ring!Contents \in Seq(Item)
           /\ Len(Ring!Contents) = count
           /\ \A i \in 1..count : Ring!Contents[i] = storage[Ring!Ahead(head, i - 1)]
<1>1. \A i \in 1..count : Ring!Ahead(head, i - 1) \in Ring!Slots
    BY AheadInSlots DEF Ring!TypeOK
<1>2. \A i \in 1..count : storage[Ring!Ahead(head, i - 1)] \in Item
    BY <1>1 DEF Ring!TypeOK
<1>3. count \in Nat
    BY QueueAssumption DEF Ring!TypeOK
<1>4. QED BY <1>2, <1>3 DEF Ring!Contents

\* The same facts after a step.
LEMMA ContentsFactsPrime ==
    ASSUME Ring!TypeOK'
    PROVE  /\ Ring!Contents' \in Seq(Item)
           /\ Len(Ring!Contents') = count'
           /\ \A i \in 1..count' : Ring!Contents'[i] = storage'[Ring!Ahead(head', i - 1)]
<1>0. count' \in 0..Capacity /\ head' \in Ring!Slots
    BY DEF Ring!TypeOK, Ring!Slots
<1>1. \A i \in 1..count' : Ring!Ahead(head', i - 1) \in Ring!Slots
    BY <1>0, AheadInSlots
<1>2. \A i \in 1..count' : storage'[Ring!Ahead(head', i - 1)] \in Item
    BY <1>1 DEF Ring!TypeOK
<1>3. count' \in Nat
    BY QueueAssumption DEF Ring!TypeOK
<1>4. Ring!Contents' = [i \in 1..count' |-> storage'[Ring!Ahead(head', i - 1)]]
    BY DEF Ring!Contents, Ring!Ahead
<1>5. QED BY <1>2, <1>3, <1>4

\* A send that finds room appends to what is in the ring.
LEMMA SendAppends ==
    ASSUME Ring!TypeOK, Ring!RingInv, Ring!TypeOK',
           NEW item \in Item, Ring!Send(item), ~Ring!IsFull
    PROVE  Ring!Contents' = Append(Ring!Contents, item)
<1>1. /\ count' = count + 1 /\ head' = head
      /\ storage' = [storage EXCEPT ![tail] = item]
    BY DEF Ring!Send
<1>2. tail \in Ring!Slots /\ tail = Ring!Ahead(head, count) /\ count \in Nat
    BY QueueAssumption DEF Ring!TypeOK, Ring!RingInv
<1>3. \A i \in 1..count :
          Ring!Ahead(head, i - 1) \in Ring!Slots /\ Ring!Ahead(head, i - 1) # tail
    BY <1>2, QueueAssumption DEF Ring!TypeOK, Ring!IsFull, Ring!Ahead, Ring!Slots
<1>4. \A i \in 1..count : storage'[Ring!Ahead(head, i - 1)] = storage[Ring!Ahead(head, i - 1)]
    BY <1>1, <1>3 DEF Ring!TypeOK
<1>5. storage'[Ring!Ahead(head, (count + 1) - 1)] = item
    BY <1>1, <1>2 DEF Ring!TypeOK
<1>6. /\ Append(Ring!Contents, item) \in Seq(Item)
      /\ Len(Append(Ring!Contents, item)) = count + 1
      /\ \A i \in 1..count : Append(Ring!Contents, item)[i] = Ring!Contents[i]
      /\ Append(Ring!Contents, item)[count + 1] = item
    BY ContentsFacts, <1>2
<1>7. \A i \in 1..(count + 1) : Ring!Contents'[i] = Append(Ring!Contents, item)[i]
    <2> SUFFICES ASSUME NEW i \in 1..(count + 1)
                 PROVE  Ring!Contents'[i] = Append(Ring!Contents, item)[i]
        OBVIOUS
    <2>1. Ring!Contents'[i] = storage'[Ring!Ahead(head, i - 1)]
        BY ContentsFactsPrime, <1>1
    <2>2. CASE i \in 1..count
        BY <2>1, <2>2, <1>4, <1>6, ContentsFacts
    <2>3. CASE i = count + 1
        BY <2>1, <2>3, <1>5, <1>6
    <2>4. i \in 1..count \/ i = count + 1
        BY <1>2
    <2>5. QED BY <2>2, <2>3, <2>4
<1>8. QED BY <1>1, <1>6, <1>7, ContentsFactsPrime, SeqEqual

\* A receive from a queue that is not empty takes the first of what is in it.
LEMMA ReceiveTakesFirst ==
    ASSUME Ring!TypeOK, Ring!RingInv, Ring!TypeOK', Ring!Receive, ~Ring!IsEmpty
    PROVE  /\ Ring!Contents # <<>>
           /\ Ring!Contents' = Tail(Ring!Contents)
           /\ ringGot' = Head(Ring!Contents)
<1>1. /\ count' = count - 1 /\ storage' = storage /\ ringGot' = storage[head]
      /\ head' = (head + 1) % Capacity
    BY DEF Ring!Receive
<1>2. count \in Nat \ {0} /\ head \in Ring!Slots
    BY QueueAssumption DEF Ring!TypeOK, Ring!IsEmpty
<1>3. head' = IF head + 1 = Capacity THEN 0 ELSE head + 1
    BY <1>1, <1>2, WrapStep
<1>4. Ring!Contents # <<>>
    BY <1>2, ContentsFacts
<1>5. /\ Tail(Ring!Contents) \in Seq(Item)
      /\ Len(Tail(Ring!Contents)) = count - 1
      /\ \A i \in 1..(count - 1) : Tail(Ring!Contents)[i] = Ring!Contents[i + 1]
    BY <1>4, ContentsFacts, HeadTailProperties
<1>6. \A i \in 1..(count - 1) : Ring!Contents'[i] = Tail(Ring!Contents)[i]
    <2> SUFFICES ASSUME NEW i \in 1..(count - 1)
                 PROVE  Ring!Contents'[i] = Tail(Ring!Contents)[i]
        OBVIOUS
    <2>1. Ring!Contents'[i] = storage[Ring!Ahead(head', i - 1)]
        BY ContentsFactsPrime, <1>1
    <2>2. Ring!Ahead(head', i - 1) = Ring!Ahead(head, (i + 1) - 1)
        BY <1>2, <1>3, QueueAssumption DEF Ring!TypeOK, Ring!Ahead, Ring!Slots
    <2>3. i + 1 \in 1..count
        BY <1>2
    <2>4. QED BY <2>1, <2>2, <2>3, <1>5, ContentsFacts
<1>7. Ring!Contents' = Tail(Ring!Contents)
    BY <1>1, <1>5, <1>6, ContentsFactsPrime, SeqEqual
<1>8. Head(Ring!Contents) = storage[head]
    <2>1. Head(Ring!Contents) = Ring!Contents[1]
        BY <1>4, ContentsFacts
    <2>2. Ring!Ahead(head, 1 - 1) = head
        BY <1>2, QueueAssumption DEF Ring!Ahead, Ring!Slots
    <2>3. QED BY <2>1, <2>2, <1>2, ContentsFacts
<1>9. QED BY <1>1, <1>4, <1>7, <1>8

\* A send is the abstract queue's, at its limit too.
LEMMA SendIsFifo ==
    ASSUME Ring!TypeOK, Ring!RingInv, Ring!TypeOK', NEW item \in Item, Ring!Send(item)
    PROVE  Ring!Fifo!Send(item)
<1>1. CASE Ring!IsFull
    <2>1. /\ Ring!Contents' = Ring!Contents /\ ringGot' = ringGot /\ ringOk' = FALSE
          /\ (Len(Ring!Contents) < Capacity) = FALSE
        BY <1>1, ContentsFacts, QueueAssumption
        DEF Ring!Send, Ring!IsFull, Ring!Contents, Ring!Ahead
    <2>2. QED BY <2>1 DEF Ring!Fifo!Send
<1>2. CASE ~Ring!IsFull
    <2>1. ringOk' = TRUE /\ ringGot' = ringGot /\ Len(Ring!Contents) < Capacity
        BY <1>2, ContentsFacts, QueueAssumption DEF Ring!Send, Ring!IsFull, Ring!TypeOK
    <2>2. QED BY <1>2, <2>1, SendAppends DEF Ring!Fifo!Send
<1>3. QED BY <1>1, <1>2

\* A receive is the abstract queue's, from an empty ring too.
LEMMA ReceiveIsFifo ==
    ASSUME Ring!TypeOK, Ring!RingInv, Ring!TypeOK', Ring!Receive
    PROVE  Ring!Fifo!Receive
<1>1. CASE Ring!IsEmpty
    <2>1. Ring!Contents = <<>> /\ Ring!Contents' = <<>> /\ ringGot' = ringGot /\ ringOk' = FALSE
        BY <1>1, EmptySeq, ContentsFacts, ContentsFactsPrime
        DEF Ring!Receive, Ring!IsEmpty
    <2>2. QED BY <2>1 DEF Ring!Fifo!Receive
<1>2. CASE ~Ring!IsEmpty
    <2>1. ringOk' = TRUE
        BY <1>2 DEF Ring!Receive
    <2>2. QED BY <1>2, <2>1, ReceiveTakesFirst DEF Ring!Fifo!Receive
<1>3. QED BY <1>1, <1>2

\* The ring over reused storage is a bounded FIFO: every operation returns what
\* the abstract queue returns and leaves what the abstract queue leaves.
THEOREM RingIsFifo == Ring!Spec => Ring!FifoSpec
<1>1. Ring!Init => Ring!Fifo!Init
    <2> SUFFICES ASSUME Ring!Init PROVE Ring!Fifo!Init
        OBVIOUS
    <2>1. Ring!Contents = <<>>
        BY DEF Ring!Init, Ring!Contents
    <2>2. QED BY <2>1 DEF Ring!Init, Ring!Fifo!Init
<1>2. Ring!TypeOK /\ Ring!RingInv /\ Ring!TypeOK' /\ [Ring!Next]_(Ring!vars)
          => [Ring!Fifo!Next]_(Ring!Fifo!vars)
    <2> SUFFICES ASSUME Ring!TypeOK, Ring!RingInv, Ring!TypeOK', [Ring!Next]_(Ring!vars)
                 PROVE  [Ring!Fifo!Next]_(Ring!Fifo!vars)
        OBVIOUS
    <2>1. CASE UNCHANGED Ring!vars
        BY <2>1 DEF Ring!vars, Ring!Fifo!vars, Ring!Contents, Ring!Ahead
    <2>2. QED BY <2>1, SendIsFifo, ReceiveIsFifo DEF Ring!Next, Ring!Fifo!Next
<1>3. QED BY <1>1, <1>2, RingCorrect, PTL DEF Ring!Spec, Ring!FifoSpec, Ring!Fifo!Spec

-----------------------------------------------------------------------------
(* The wrapper around the kernel's queue.                                  *)

\* The wrapper starts outside of every call with an empty queue.
LEMMA WrapperInit == Init => TypeOK /\ ReceiveFindsMessage
<1> SUFFICES ASSUME Init PROVE TypeOK /\ ReceiveFindsMessage
    OBVIOUS
<1>1. queue \in Seq(Item) /\ Len(queue) = 0 /\ queue = <<>>
    BY EmptySeq DEF Init
<1>2. Consumer \in Tasks /\ pc = [t \in Tasks |-> "out"]
    BY DEF Init, Tasks
<1>3. QED
    BY <1>1, <1>2, QueueAssumption, KernelQueueAssumption DEF Init, TypeOK, ReceiveFindsMessage

\* No half of a call breaks the types or makes the consumer's check stale.
LEMMA WrapperNext ==
    TypeOK /\ ReceiveFindsMessage /\ [Next]_vars => (TypeOK /\ ReceiveFindsMessage)'
<1> SUFFICES ASSUME TypeOK, ReceiveFindsMessage, [Next]_vars
             PROVE  (TypeOK /\ ReceiveFindsMessage)'
    OBVIOUS
<1> USE QueueAssumption, KernelQueueAssumption
<1>0. Consumer \in Tasks /\ \A p \in Producers : p \in Tasks /\ p # Consumer
    BY DEF Tasks
<1>1. ASSUME NEW p \in Producers, NEW item \in Item, SendCheck(p, item)
      PROVE  (TypeOK /\ ReceiveFindsMessage)'
    <2>1. pc' = pc \/ pc' = [pc EXCEPT ![p] = "send"]
        BY <1>1 DEF SendCheck
    <2>2. pc' \in [Tasks -> {"out", "send", "receive"}] /\ pc'[Consumer] = pc[Consumer]
        BY <2>1, <1>0 DEF TypeOK
    <2>3. QED BY <1>1, <2>2 DEF SendCheck, TypeOK, ReceiveFindsMessage
<1>2. ASSUME NEW p \in Producers, Send(p)
      PROVE  (TypeOK /\ ReceiveFindsMessage)'
    <2>1. pc' \in [Tasks -> {"out", "send", "receive"}] /\ pc'[Consumer] = pc[Consumer]
        BY <1>2, <1>0 DEF Send, TypeOK
    <2>2. queue' \in Seq(Item) /\ Len(queue') <= Capacity /\ (queue # <<>> => queue' # <<>>)
        <3>1. CASE KernelHasRoom
            <4>1. queue' = Append(queue, message[p]) /\ message[p] \in Item
                BY <1>2, <3>1 DEF Send, TypeOK
            <4>2. QED BY <3>1, <4>1, AppendProperties DEF KernelHasRoom, TypeOK
        <3>2. CASE ~KernelHasRoom
            BY <1>2, <3>2 DEF Send, TypeOK
        <3>3. QED BY <3>1, <3>2
    <2>3. QED BY <1>2, <2>1, <2>2 DEF Send, KernelHasRoom, TypeOK, ReceiveFindsMessage
<1>3. CASE ReceiveCheck
    <2>1. pc' \in [Tasks -> {"out", "send", "receive"}] /\ pc'[Consumer] # "send"
        BY <1>3, <1>0 DEF ReceiveCheck, TypeOK
    <2>2. pc'[Consumer] = "receive" => queue # <<>>
        BY <1>3, <1>0, EmptySeq DEF ReceiveCheck, Waiting, TypeOK
    <2>3. QED BY <1>3, <2>1, <2>2 DEF ReceiveCheck, TypeOK, ReceiveFindsMessage
<1>4. CASE Receive
    <2>1. pc' \in [Tasks -> {"out", "send", "receive"}] /\ pc'[Consumer] = "out"
        BY <1>4, <1>0 DEF Receive, TypeOK
    <2>2. queue # <<>>
        BY <1>4 DEF Receive, ReceiveFindsMessage
    <2>3. /\ queue' = Tail(queue) /\ got' = Head(queue) /\ ok' = TRUE
          /\ message' = message
        BY <1>4, <2>2 DEF Receive
    <2>4. Tail(queue) \in Seq(Item) /\ Len(Tail(queue)) <= Capacity /\ Head(queue) \in Item
        BY <2>2, HeadTailProperties DEF TypeOK
    <2>5. QED BY <2>1, <2>3, <2>4 DEF TypeOK, ReceiveFindsMessage
<1>5. CASE UNCHANGED vars
    BY <1>5 DEF vars, TypeOK, ReceiveFindsMessage
<1>6. QED BY <1>1, <1>2, <1>3, <1>4, <1>5 DEF Next

\* A receive that passed its emptiness check finds a message, for any number of
\* producers and any interleaving with them.
THEOREM ReceiveNeverStale == Spec => [](TypeOK /\ ReceiveFindsMessage)
BY WrapperInit, WrapperNext, PTL DEF Spec

\* The two-call wrapper implements the one-step queue: each call takes effect in
\* the kernel call that decides its answer, and the other one is a stutter.
THEOREM WrapperIsFifo == Spec => FifoSpec
<1>1. Init => Fifo!Init
    BY DEF Init, Fifo!Init
<1>2. TypeOK /\ ReceiveFindsMessage /\ [Next]_vars => [Fifo!Next]_(Fifo!vars)
    <2> SUFFICES ASSUME TypeOK, ReceiveFindsMessage, [Next]_vars
                 PROVE  [Fifo!Next]_(Fifo!vars)
        OBVIOUS
    <2>1. ASSUME NEW p \in Producers, NEW item \in Item, SendCheck(p, item)
          PROVE  Fifo!Send(item) \/ UNCHANGED Fifo!vars
        <3>1. CASE Waiting >= Capacity
            <4>1. ok' = FALSE /\ queue' = queue /\ got' = got
                BY <2>1, <3>1 DEF SendCheck
            <4>2. (Len(queue) < Capacity) = FALSE
                BY <3>1, QueueAssumption, KernelQueueAssumption DEF Waiting, TypeOK
            <4>3. QED BY <4>1, <4>2 DEF Fifo!Send
        <3>2. CASE ~(Waiting >= Capacity)
            BY <2>1, <3>2 DEF SendCheck, Fifo!vars
        <3>3. QED BY <3>1, <3>2
    <2>2. ASSUME NEW p \in Producers, Send(p)
          PROVE  Fifo!Send(message[p]) /\ message[p] \in Item
        BY <2>2 DEF Send, KernelHasRoom, Fifo!Send, TypeOK
    <2>3. CASE ReceiveCheck
        <3>1. CASE Waiting = 0
            <4>1. queue = <<>>
                BY <3>1, EmptySeq DEF Waiting, TypeOK
            <4>2. QED BY <2>3, <3>1, <4>1 DEF ReceiveCheck, Fifo!Next, Fifo!Receive
        <3>2. CASE Waiting # 0
            BY <2>3, <3>2 DEF ReceiveCheck, Fifo!vars
        <3>3. QED BY <3>1, <3>2
    <2>4. CASE Receive
        BY <2>4 DEF Receive, Fifo!Next, Fifo!Receive
    <2>5. CASE UNCHANGED vars
        BY <2>5 DEF vars, Fifo!vars
    <2>6. QED BY <2>1, <2>2, <2>3, <2>4, <2>5 DEF Next, Fifo!Next
<1>3. QED BY <1>1, <1>2, ReceiveNeverStale, PTL DEF Spec, FifoSpec, Fifo!Spec

-----------------------------------------------------------------------------
(* Both together.                                                          *)

\* What the kernel's lock and event bits amount to in the host port.  While a
\* clear is between its two kernel calls, the host port has answered what the
\* kernel will answer: no other task sets or clears bits in between.
LockAndBitsInv ==
    /\ locked \in BOOLEAN
    /\ locked <=> holder # NoTask
    /\ bits = kernelBits
    /\ clearing => cleared = kernelBits
    /\ hostAnswer = kernelAnswer

\* Both queues in their types, the consumer's check fresh, the ring's indices
\* together, and the same contents and answers on either side.
QueuesInv ==
    /\ TypeOK /\ ReceiveFindsMessage
    /\ Ring!TypeOK /\ Ring!RingInv
    /\ ringOk = ok /\ ringGot = got
    /\ Ring!Contents = queue

\* The ring starts empty, with its indices together.
LEMMA RingStarts ==
    ASSUME Ring!Init
    PROVE  Ring!TypeOK /\ Ring!RingInv /\ Ring!Contents = <<>>
<1>1. Ring!TypeOK /\ Ring!RingInv
    BY RingInit
<1>2. Ring!Contents = <<>>
    BY DEF Ring!Init, Ring!Contents
<1>3. QED BY <1>1, <1>2

\* A send to the host port keeps the ring and does what a bounded FIFO does.
LEMMA RingSends ==
    ASSUME Ring!TypeOK, Ring!RingInv, NEW item \in Item, Ring!Send(item)
    PROVE  /\ (Ring!TypeOK /\ Ring!RingInv)'
           /\ ringOk' = (Len(Ring!Contents) < Capacity)
           /\ Ring!Contents' = IF ringOk' THEN Append(Ring!Contents, item)
                               ELSE Ring!Contents
           /\ ringGot' = ringGot
<1>1. (Ring!TypeOK /\ Ring!RingInv)'
    BY RingNext DEF Ring!Next
<1>2. QED
    BY <1>1, SendIsFifo, QueueAssumption DEF Ring!Fifo!Send

\* A receive from the host port likewise.
LEMMA RingReceives ==
    ASSUME Ring!TypeOK, Ring!RingInv, Ring!Receive
    PROVE  /\ (Ring!TypeOK /\ Ring!RingInv)'
           /\ ringOk' = (Ring!Contents # <<>>)
           /\ Ring!Contents' = IF ringOk' THEN Tail(Ring!Contents)
                               ELSE Ring!Contents
           /\ ringGot' = IF ringOk' THEN Head(Ring!Contents) ELSE ringGot
<1>1. (Ring!TypeOK /\ Ring!RingInv)'
    BY RingNext DEF Ring!Next
<1>2. QED
    BY <1>1, ReceiveIsFifo, QueueAssumption DEF Ring!Fifo!Receive

\* A host port that is not called keeps what it has.
LEMMA RingStays ==
    ASSUME Ring!TypeOK, Ring!RingInv, UNCHANGED ring
    PROVE  /\ (Ring!TypeOK /\ Ring!RingInv)'
           /\ Ring!Contents' = Ring!Contents
           /\ ringOk' = ringOk /\ ringGot' = ringGot
BY DEF ring, Ring!TypeOK, Ring!RingInv, Ring!Contents, Ring!Ahead, Ring!Slots

-----------------------------------------------------------------------------
\* A send that returns from the wrapper leaves both queues alike: a full kernel
\* queue at either of the two calls is a full ring at that moment.
LEMMA SendKeepsQueues ==
    ASSUME QueuesInv, NEW p \in Producers, QueueSend(p)
    PROVE  QueuesInv'
<1> USE QueueAssumption DEF QueuesInv
<1>1. ASSUME NEW item \in Item, SendCheck(p, item), Waiting >= Capacity, Ring!Send(item)
      PROVE  QueuesInv'
    <2>1. (TypeOK /\ ReceiveFindsMessage)'
        BY <1>1, WrapperNext DEF Next
    <2>2. ok' = FALSE /\ queue' = queue /\ got' = got
        BY <1>1 DEF SendCheck
    <2>3. (Len(queue) < Capacity) = FALSE
        BY <1>1 DEF Waiting, TypeOK
    <2>4. QED BY <1>1, <2>1, <2>2, <2>3, RingSends
<1>2. ASSUME NEW item \in Item, SendCheck(p, item), ~(Waiting >= Capacity), UNCHANGED ring
      PROVE  QueuesInv'
    <2>1. (TypeOK /\ ReceiveFindsMessage)'
        BY <1>2, WrapperNext DEF Next
    <2>2. ok' = ok /\ queue' = queue /\ got' = got
        BY <1>2 DEF SendCheck
    <2>3. QED BY <1>2, <2>1, <2>2, RingStays
<1>3. ASSUME Send(p), Ring!Send(message[p])
      PROVE  QueuesInv'
    <2>1. (TypeOK /\ ReceiveFindsMessage)'
        BY <1>3, WrapperNext DEF Next
    <2>2. message[p] \in Item
        BY DEF TypeOK
    <2>3. /\ ok' = (Len(queue) < Capacity) /\ got' = got
          /\ queue' = IF ok' THEN Append(queue, message[p]) ELSE queue
        BY <1>3 DEF Send, KernelHasRoom
    <2>4. QED BY <1>3, <2>1, <2>2, <2>3, RingSends
<1>4. ASSUME NEW item \in Item, SendCheck(p, item)
      PROVE  (pc'[p] = "out") <=> (Waiting >= Capacity)
    BY <1>4 DEF SendCheck, TypeOK, Tasks
<1>5. QED BY <1>1, <1>2, <1>3, <1>4 DEF QueueSend

\* So does a receive.
LEMMA ReceiveKeepsQueues ==
    ASSUME QueuesInv, QueueReceive
    PROVE  QueuesInv'
<1> USE QueueAssumption DEF QueuesInv
<1>1. (TypeOK /\ ReceiveFindsMessage)'
    BY WrapperNext DEF QueueReceive, Next
<1>2. CASE ReceiveCheck /\ Waiting = 0 /\ Ring!Receive
    <2>1. ok' = FALSE /\ queue' = queue /\ got' = got
        BY <1>2 DEF ReceiveCheck
    <2>2. queue = <<>>
        BY <1>2, EmptySeq DEF Waiting, TypeOK
    <2>3. QED BY <1>1, <1>2, <2>1, <2>2, RingReceives
<1>3. CASE ReceiveCheck /\ Waiting # 0 /\ UNCHANGED ring
    <2>1. ok' = ok /\ queue' = queue /\ got' = got
        BY <1>3 DEF ReceiveCheck
    <2>2. QED BY <1>1, <1>3, <2>1, RingStays
<1>4. CASE Receive /\ Ring!Receive
    <2>1. /\ ok' = (queue # <<>>)
          /\ queue' = IF ok' THEN Tail(queue) ELSE queue
          /\ got' = IF ok' THEN Head(queue) ELSE got
        BY <1>4 DEF Receive
    <2>2. QED BY <1>1, <1>4, <2>1, RingReceives
<1>5. ASSUME ReceiveCheck
      PROVE  (pc'[Consumer] = "out") <=> (Waiting = 0)
    BY <1>5 DEF ReceiveCheck, TypeOK, Tasks
<1>6. QED BY <1>2, <1>3, <1>4, <1>5 DEF QueueReceive

\* The mutex and the event group answer alike, call by call.
LEMMA LockAndBitsNext ==
    ASSUME LockAndBitsInv, [BNext]_bvars
    PROVE  LockAndBitsInv'
<1> USE BackendsAssumption DEF LockAndBitsInv
<1>1. CASE UNCHANGED others
    BY <1>1 DEF others
<1>2. ASSUME NEW t \in Tasks, Lock(t)
      PROVE  LockAndBitsInv'
    BY <1>2 DEF Lock, HostLock, KernelTake
<1>3. ASSUME NEW t \in Tasks, Unlock(t)
      PROVE  LockAndBitsInv'
    BY <1>3 DEF Unlock, HostUnlock, KernelGive
<1>4. ASSUME NEW t \in Tasks, GetBits(t)
      PROVE  LockAndBitsInv'
    BY <1>4 DEF GetBits
<1>5. ASSUME NEW b \in SUBSET EventBits, SetBits(b)
      PROVE  LockAndBitsInv'
    BY <1>5 DEF SetBits, HostSetBits, KernelSetBits, Free
<1>6. ASSUME NEW b \in SUBSET EventBits, ClearBits(b)
      PROVE  LockAndBitsInv'
    BY <1>6 DEF ClearBits, HostClearBits
<1>7. CASE ClearGetsBits
    BY <1>7 DEF ClearGetsBits
<1>8. QED BY <1>1, <1>2, <1>3, <1>4, <1>5, <1>6, <1>7 DEF BNext, bvars, others

\* Whatever the tests see of the queue, the mutex and the event group on the host
\* port, FreeRTOS shows too: the same contents, and the same answer to every call.
THEOREM BackendsAnswerAlike == BSpec => []BackendsAgree
<1>1. BInit => QueuesInv /\ LockAndBitsInv
    <2> SUFFICES ASSUME BInit PROVE QueuesInv /\ LockAndBitsInv
        OBVIOUS
    <2>1. QueuesInv
        BY WrapperInit, RingStarts DEF BInit, Init, Ring!Init, QueuesInv
    <2>2. LockAndBitsInv
        BY DEF BInit, LockAndBitsInv
    <2>3. QED BY <2>1, <2>2
<1>2. QueuesInv /\ [BNext]_bvars => QueuesInv'
    <2> SUFFICES ASSUME QueuesInv, [BNext]_bvars PROVE QueuesInv'
        OBVIOUS
    <2>1. CASE UNCHANGED <<vars, ring>>
        <3>1. (TypeOK /\ ReceiveFindsMessage)'
            BY <2>1, WrapperNext DEF QueuesInv
        <3>2. QED BY <2>1, <3>1, RingStays DEF QueuesInv, vars
    <2>2. QED
        BY <2>1, SendKeepsQueues, ReceiveKeepsQueues DEF BNext, bvars
<1>3. LockAndBitsInv /\ [BNext]_bvars => LockAndBitsInv'
    BY LockAndBitsNext
<1>4. QueuesInv /\ LockAndBitsInv => BackendsAgree
    BY DEF QueuesInv, LockAndBitsInv, BackendsAgree
<1>5. QED BY <1>1, <1>2, <1>3, <1>4, PTL DEF BSpec
===============================================================================
