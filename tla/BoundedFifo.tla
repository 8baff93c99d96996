---------------------------- MODULE BoundedFifo ----------------------------
(***************************************************************************)
(* What src/src/boundedbuffer.c promises its callers: a FIFO queue of at   *)
(* most Capacity items, in which each enqueue call puts its item exactly   *)
(* once, each dequeue call takes the oldest item exactly once, and neither *)
(* side waits while it could proceed.  How the callers wait is not part of *)
(* the promise.                                                            *)
(***************************************************************************)
EXTENDS Naturals, Sequences

CONSTANTS Producers, Consumers, Items, Capacity, NoItem

VARIABLES
  queue,  \* the items, oldest first
  item,   \* item[p]: what producer p is enqueuing, NoItem between calls
  got     \* got[c]: what consumer c last dequeued, NoItem while it dequeues

vars == <<queue, item, got>>

Init ==
  /\ queue = <<>>
  /\ item = [p \in Producers |-> NoItem]
  /\ got = [c \in Consumers |-> NoItem]

Call(p, v) ==
  /\ item[p] = NoItem
  /\ item' = [item EXCEPT ![p] = v]
  /\ UNCHANGED <<queue, got>>

Put(p) ==
  /\ item[p] # NoItem
  /\ Len(queue) < Capacity
  /\ queue' = Append(queue, item[p])
  /\ item' = [item EXCEPT ![p] = NoItem]
  /\ UNCHANGED got

Take(c) ==
  /\ got[c] = NoItem
  /\ queue # <<>>
  /\ got' = [got EXCEPT ![c] = Head(queue)]
  /\ queue' = Tail(queue)
  /\ UNCHANGED item

Return(c) ==
  /\ got[c] # NoItem
  /\ got' = [got EXCEPT ![c] = NoItem]
  /\ UNCHANGED <<queue, item>>

Next ==
  \/ \E p \in Producers : (\E v \in Items : Call(p, v)) \/ Put(p)
  \/ \E c \in Consumers : Take(c) \/ Return(c)

\* The safety half of the promise.
SafeSpec == Init /\ [][Next]_vars

\* Some producer gets through while there is room, and some consumer while
\* there is an item.  Which one is up to the mutex, so no thread is promised
\* anything alone.
Spec ==
  /\ SafeSpec
  /\ WF_vars(\E p \in Producers : Put(p))
  /\ WF_vars(\E c \in Consumers : Take(c))
=============================================================================
