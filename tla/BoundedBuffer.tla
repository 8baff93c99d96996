--------------------------- MODULE BoundedBuffer ---------------------------
(***************************************************************************)
(* src/src/boundedbuffer.c: the queue between the manager and the workers  *)
(* (fds to serve, one producer) and between the workers and the log        *)
(* flusher (events, one consumer).                                         *)
(*                                                                         *)
(* A critical section, from pthread_mutex_lock or the return of            *)
(* pthread_cond_wait to pthread_mutex_unlock or the next                   *)
(* pthread_cond_wait, is one step: it is the only code that touches the    *)
(* buffer, so nothing can be seen of its middle.  A thread blocked in      *)
(* pthread_cond_wait is in a wait set; a broadcast empties the set, and    *)
(* the threads that were in it compete for the mutex again.                *)
(*                                                                         *)
(* The node list and its tail pointer are the sequence they represent, and *)
(* a failed malloc (enqueue's ENOMEM) is not modelled: the producer is     *)
(* then as it was before the call.                                         *)
(***************************************************************************)
EXTENDS Naturals, FiniteSets, Sequences

CONSTANTS
  Producers,  \* threads that call enqueue
  Consumers,  \* threads that call dequeue
  Items,      \* what is enqueued: fds, or log events
  Capacity,   \* buf->capacity
  NoItem      \* no item: the thread is not holding one

\* allocBoundedBuffer refuses a capacity of 0.
ASSUME CapacityAssumption == Capacity \in Nat \ {0}
ASSUME NoItemAssumption == NoItem \notin Items
ASSUME ThreadsAssumption == Producers \cap Consumers = {}

VARIABLES
  buffer,        \* headPtr .. tailPtr; numElements is its length
  emptyWaiters,  \* threads in pthread_cond_wait on `empty`
  fullWaiters,   \* threads in pthread_cond_wait on `full`
  item,          \* item[p]: the new node of producer p's call
  got            \* got[c]: what consumer c's last dequeue copied to `dest`

vars == <<buffer, emptyWaiters, fullWaiters, item, got>>

TypeOK ==
  /\ buffer \in Seq(Items)
  /\ emptyWaiters \subseteq Consumers
  /\ fullWaiters \subseteq Producers
  /\ item \in [Producers -> Items \union {NoItem}]
  /\ got \in [Consumers -> Items \union {NoItem}]

Init ==
  /\ buffer = <<>>
  /\ emptyWaiters = {}
  /\ fullWaiters = {}
  /\ item = [p \in Producers |-> NoItem]
  /\ got = [c \in Consumers |-> NoItem]

-----------------------------------------------------------------------------
\* enqueue

EnqueueCall(p, v) ==
  /\ item[p] = NoItem
  /\ item' = [item EXCEPT ![p] = v]
  /\ UNCHANGED <<buffer, emptyWaiters, fullWaiters, got>>

InEnqueueEmptyHanded(p) == p \notin fullWaiters
InEnqueue(p) == item[p] # NoItem /\ p \notin fullWaiters

EnqueueWait(p) ==
  /\ InEnqueue(p)
  /\ Len(buffer) = Capacity
  /\ fullWaiters' = fullWaiters \union {p}
  /\ UNCHANGED <<buffer, emptyWaiters, item, got>>

\* Variants of definitions, each named for what it gets wrong, are used only to
\* confirm that a property can fail.
EnqueueUnchecked(p) ==
  /\ InEnqueue(p)
  /\ buffer' = Append(buffer, item[p])
  /\ emptyWaiters' = IF Len(buffer) = 0 THEN {} ELSE emptyWaiters
  /\ item' = [item EXCEPT ![p] = NoItem]
  /\ UNCHANGED <<fullWaiters, got>>
EnqueueSignals(p) ==
  /\ InEnqueue(p)
  /\ Len(buffer) # Capacity
  /\ buffer' = Append(buffer, item[p])
  /\ \E W \in SUBSET emptyWaiters :
       /\ Cardinality(W) = IF Len(buffer) = 0 /\ emptyWaiters # {} THEN 1 ELSE 0
       /\ emptyWaiters' = emptyWaiters \ W
  /\ item' = [item EXCEPT ![p] = NoItem]
  /\ UNCHANGED <<fullWaiters, got>>

\* Consumers are woken only by the enqueue that finds the buffer empty.
EnqueuePut(p) ==
  /\ InEnqueue(p)
  /\ Len(buffer) # Capacity
  /\ buffer' = Append(buffer, item[p])
  /\ emptyWaiters' = IF Len(buffer) = 0 THEN {} ELSE emptyWaiters
  /\ item' = [item EXCEPT ![p] = NoItem]
  /\ UNCHANGED <<fullWaiters, got>>

-----------------------------------------------------------------------------
\* dequeue

InDequeue(c) == got[c] = NoItem /\ c \notin emptyWaiters

DequeueWait(c) ==
  /\ InDequeue(c)
  /\ Len(buffer) = 0
  /\ emptyWaiters' = emptyWaiters \union {c}
  /\ UNCHANGED <<buffer, fullWaiters, item, got>>

\* Producers are woken only by the dequeue that finds the buffer full.
DequeueTake(c) ==
  /\ InDequeue(c)
  /\ Len(buffer) # 0
  /\ got' = [got EXCEPT ![c] = Head(buffer)]
  /\ buffer' = Tail(buffer)
  /\ fullWaiters' = IF Len(buffer) = Capacity THEN {} ELSE fullWaiters
  /\ UNCHANGED <<emptyWaiters, item>>

\* The caller is done with what it dequeued and calls dequeue again: the loops
\* of _startWorker and of the log flusher.
DequeueReturn(c) ==
  /\ got[c] # NoItem
  /\ got' = [got EXCEPT ![c] = NoItem]
  /\ UNCHANGED <<buffer, emptyWaiters, fullWaiters, item>>

-----------------------------------------------------------------------------
\* POSIX allows pthread_cond_wait to return with no signal.
SpuriousWakeup(t) ==
  /\ t \in emptyWaiters \union fullWaiters
  /\ emptyWaiters' = emptyWaiters \ {t}
  /\ fullWaiters' = fullWaiters \ {t}
  /\ UNCHANGED <<buffer, item, got>>

Next ==
  \/ \E p \in Producers :
       \/ \E v \in Items : EnqueueCall(p, v)
       \/ EnqueueWait(p)
       \/ EnqueuePut(p)
       \/ SpuriousWakeup(p)
  \/ \E c \in Consumers :
       \/ DequeueWait(c)
       \/ DequeueTake(c)
       \/ DequeueReturn(c)
       \/ SpuriousWakeup(c)

\* A thread that is not blocked gets to run its critical section: a thread
\* leaves the mutex after finitely many instructions.
Fairness ==
  /\ \A p \in Producers : WF_vars(EnqueueWait(p) \/ EnqueuePut(p))
  /\ \A c \in Consumers : WF_vars(DequeueWait(c) \/ DequeueTake(c))

Spec == Init /\ [][Next]_vars /\ Fairness

-----------------------------------------------------------------------------
\* No thread sleeps on a condition that no longer holds: the broadcasts made
\* only when the buffer stops being empty (enqueue) and stops being full
\* (dequeue) miss nobody, however many threads went to sleep and however many
\* of the woken ones found the buffer changed again and went back to sleep.
NoLostWakeup ==
  /\ emptyWaiters # {} => Len(buffer) = 0
  /\ fullWaiters # {} => Len(buffer) = Capacity

\* The threads, their mutex and their two condition variables implement the
\* bounded FIFO: nothing is lost, duplicated, reordered or over capacity, and
\* while there is room (an item) some blocked producer (consumer) gets through.
Fifo == INSTANCE BoundedFifo WITH queue <- buffer
ImplementsFifo == Fifo!Spec
=============================================================================
