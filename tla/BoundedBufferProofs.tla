------------------------ MODULE BoundedBufferProofs ------------------------
(***************************************************************************)
(* For any number of threads and any capacity: the wait sets are exact,    *)
(* and the buffer implements the safety half of BoundedFifo.               *)
(***************************************************************************)
EXTENDS BoundedBuffer, TLAPS

\* NoLostWakeup is inductive once the length is known never to exceed the
\* capacity: EnqueuePut tests for equality only.
IInv ==
  /\ TypeOK
  /\ Len(buffer) <= Capacity
  /\ NoLostWakeup

\* The invariant holds when the buffer is created.
LEMMA InitInv == Init => IInv
  BY CapacityAssumption, NoItemAssumption DEF Init, IInv, TypeOK, NoLostWakeup

\* Each step of any thread preserves the invariant.
LEMMA NextInv == IInv /\ [Next]_vars => IInv'
<1> SUFFICES ASSUME IInv, [Next]_vars PROVE IInv'
  OBVIOUS
<1> USE CapacityAssumption, NoItemAssumption, ThreadsAssumption
    DEF IInv, TypeOK, NoLostWakeup, InEnqueue, InDequeue
<1>1. ASSUME NEW p \in Producers, NEW v \in Items, EnqueueCall(p, v)
      PROVE  IInv'
  BY <1>1 DEF EnqueueCall
<1>2. ASSUME NEW p \in Producers, EnqueueWait(p) PROVE IInv'
  BY <1>2 DEF EnqueueWait
<1>3. ASSUME NEW p \in Producers, EnqueuePut(p) PROVE IInv'
  <2>1. item[p] \in Items
    BY <1>3 DEF EnqueuePut
  <2>2. buffer' \in Seq(Items) /\ Len(buffer') = Len(buffer) + 1
    BY <1>3, <2>1 DEF EnqueuePut
  <2>3. fullWaiters' = {}
    BY <1>3 DEF EnqueuePut
  <2>4. emptyWaiters' = {}
    BY <1>3 DEF EnqueuePut
  <2> QED
    BY <1>3, <2>2, <2>3, <2>4 DEF EnqueuePut
<1>4. ASSUME NEW c \in Consumers, DequeueWait(c) PROVE IInv'
  BY <1>4 DEF DequeueWait
<1>5. ASSUME NEW c \in Consumers, DequeueTake(c) PROVE IInv'
  <2>1. buffer # <<>> /\ Head(buffer) \in Items
    BY <1>5 DEF DequeueTake
  <2>2. buffer' \in Seq(Items) /\ Len(buffer') = Len(buffer) - 1
    BY <1>5, <2>1 DEF DequeueTake
  <2>3. emptyWaiters' = {}
    BY <1>5 DEF DequeueTake
  <2>4. fullWaiters' = {}
    BY <1>5 DEF DequeueTake
  <2>5. /\ item' = item
        /\ got' \in [Consumers -> Items \union {NoItem}]
    BY <1>5, <2>1 DEF DequeueTake
  <2> QED
    BY <2>2, <2>3, <2>4, <2>5
<1>6. ASSUME NEW c \in Consumers, DequeueReturn(c) PROVE IInv'
  BY <1>6 DEF DequeueReturn
<1>7. ASSUME NEW t \in Producers \union Consumers, SpuriousWakeup(t)
      PROVE  IInv'
  BY <1>7 DEF SpuriousWakeup
<1>8. CASE UNCHANGED vars
  BY <1>8 DEF vars
<1> QED
  BY <1>1, <1>2, <1>3, <1>4, <1>5, <1>6, <1>7, <1>8 DEF Next

\* So it holds in every reachable state.
LEMMA Invariance == Spec => []IInv
  BY InitInv, NextInv, PTL DEF Spec

\* The buffer holds items, the wait sets hold threads of the right kind.
THEOREM TypeCorrect == Spec => []TypeOK
<1>1. IInv => TypeOK
  BY DEF IInv
<1> QED
  BY Invariance, <1>1, PTL

\* Broadcasting only on the transitions from empty and from full loses no
\* wakeup, for every number of waiting threads (boundedbuffer.c:157, 246).
THEOREM WaitersAreExact == Spec => []NoLostWakeup
<1>1. IInv => NoLostWakeup
  BY DEF IInv
<1> QED
  BY Invariance, <1>1, PTL

\* Every step of the buffer is a step of the bounded FIFO or changes nothing
\* its callers see.
LEMMA StepRefinesFifo == IInv /\ [Next]_vars => [Fifo!Next]_(Fifo!vars)
<1> SUFFICES ASSUME IInv, [Next]_vars PROVE [Fifo!Next]_(Fifo!vars)
  OBVIOUS
<1> USE DEF Fifo!Next, Fifo!vars
<1>1. ASSUME NEW p \in Producers, NEW v \in Items, EnqueueCall(p, v)
      PROVE  Fifo!Call(p, v)
  BY <1>1 DEF EnqueueCall, Fifo!Call
<1>2. ASSUME NEW p \in Producers, EnqueuePut(p)
      PROVE  Fifo!Put(p)
  BY <1>2, CapacityAssumption
  DEF EnqueuePut, InEnqueue, Fifo!Put, IInv, TypeOK
<1>3. ASSUME NEW c \in Consumers, DequeueTake(c)
      PROVE  Fifo!Take(c)
  BY <1>3 DEF DequeueTake, InDequeue, Fifo!Take, IInv, TypeOK
<1>4. ASSUME NEW c \in Consumers, DequeueReturn(c)
      PROVE  Fifo!Return(c)
  BY <1>4 DEF DequeueReturn, Fifo!Return
<1>5. ASSUME NEW p \in Producers, EnqueueWait(p)
      PROVE  UNCHANGED Fifo!vars
  BY <1>5 DEF EnqueueWait
<1>6. ASSUME NEW c \in Consumers, DequeueWait(c)
      PROVE  UNCHANGED Fifo!vars
  BY <1>6 DEF DequeueWait
<1>7. ASSUME NEW t \in Producers \union Consumers, SpuriousWakeup(t)
      PROVE  UNCHANGED Fifo!vars
  BY <1>7 DEF SpuriousWakeup
<1>8. CASE UNCHANGED vars
  BY <1>8 DEF vars
<1> QED
  BY <1>1, <1>2, <1>3, <1>4, <1>5, <1>6, <1>7, <1>8 DEF Next

\* Mutex, condition variables and node list together are a bounded FIFO
\* queue: the safety half of ImplementsFifo.
THEOREM RefinesFifo == Spec => Fifo!SafeSpec
<1>1. Init => Fifo!Init
  BY DEF Init, Fifo!Init
<1> QED
  BY <1>1, Invariance, StepRefinesFifo, PTL DEF Spec, Fifo!SafeSpec
=============================================================================
