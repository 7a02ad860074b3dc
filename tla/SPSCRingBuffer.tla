--------------------------- MODULE SPSCRingBuffer ---------------------------
(***************************************************************************)
(* The lock-free single-producer single-consumer ring buffer of            *)
(* core/common/ring_buffer.hpp, one step per access to shared memory.      *)
(*                                                                         *)
(* head_ and tail_ are free-running std::size_t counters: they are never   *)
(* reduced to a slot number, they wrap at 2^64 and every comparison is     *)
(* made on the wrapped difference.  W is that modulus; the model keeps it  *)
(* as a parameter, so that TLC goes round it many times.                   *)
(*                                                                         *)
(* An atomic load with acquire order returns some value in the             *)
(* modification order of the index that is not older than the last one     *)
(* this thread saw: a thread may look at an out-of-date index of its       *)
(* peer, for a while.  The release store of an index after a slot access   *)
(* and the acquire load before one are what allows a slot access to be a   *)
(* step of its own that the peer sees in program order.                    *)
(***************************************************************************)
EXTENDS Integers, Sequences

CONSTANTS
  N,        (* number of slots, a power of two (static_assert)             *)
  W,        (* 2^(width of std::size_t); N * K for some K > 1              *)
  Items,    (* the values a producer may push                              *)
  Default   (* T{}, the content of a slot before its first write           *)

ASSUME NAssumption == N \in Nat \ {0}

(* Both are powers of two and the buffer does not fill the address space.  *)
ASSUME WAssumption == W \in Nat /\ N < W /\ W % N = 0

VARIABLES
  buffer,   (* buffer_                                                     *)
  head,     (* head_, stored by the producer                               *)
  tail,     (* tail_, stored by the consumer                               *)
  ppc,      (* where the producer is in try_push                           *)
  pItem,    (* the argument of the try_push under way                      *)
  pSeen,    (* the last value of tail_ the producer loaded                 *)
  cpc,      (* where the consumer is in try_pop                            *)
  cItem,    (* the out-parameter of try_pop                                *)
  cSeen,    (* the last value of head_ the consumer loaded                 *)
  received  (* the item of the last try_pop that returned true             *)

producerVars == <<ppc, pItem, pSeen>>
consumerVars == <<cpc, cItem, cSeen, received>>
vars == <<buffer, head, tail, producerVars, consumerVars>>

Slots == 0 .. N - 1
Indices == 0 .. W - 1

(* index & mask_ : N is a power of two, so the mask is the remainder.      *)
Slot(i) == i % N

(* The unsigned difference j - i of two indices.                           *)
Dist(i, j) == (j - i) % W

(* Mutation of Step: the counter does not wrap.                            *)
StepWithoutWrap(i, k) == i + k

(* The index k increments after i.                                         *)
Step(i, k) == (i + k) % W

(* What a load may return to a thread that last saw the value `seen` of an *)
(* index that now is `current`.                                            *)
Visible(seen, current) == {Step(seen, k) : k \in 0 .. Dist(seen, current)}

(* Mutation of NoRoom: > for >=, one item more than the queue promises.    *)
NoRoomInclusive(t) == Dist(t, Step(head, 1)) > N

(* Mutation of NoRoom: tests the current index and not the next one.       *)
NoRoomOfCurrent(t) == Dist(t, head) > N

(* The test of try_push: no room when the next index is N ahead of tail_.  *)
NoRoom(t) == Dist(t, Step(head, 1)) >= N

Init ==
  /\ buffer = [s \in Slots |-> Default]
  /\ head = 0 /\ tail = 0
  /\ ppc = "idle" /\ pItem = Default /\ pSeen = 0
  /\ cpc = "idle" /\ cItem = Default /\ cSeen = 0
  /\ received = Default

-----------------------------------------------------------------------------
(* The producer: try_push.                                                 *)

(* Loads tail_, finds no room, returns false: the item is dropped.         *)
PushRefused ==
  /\ ppc = "idle"
  /\ \E t \in Visible(pSeen, tail) :
       /\ NoRoom(t)
       /\ pSeen' = t
  /\ UNCHANGED <<buffer, head, tail, ppc, pItem, consumerVars>>

(* Loads tail_ and finds room for d.                                       *)
PushAdmitted(d) ==
  /\ ppc = "idle"
  /\ \E t \in Visible(pSeen, tail) :
       /\ ~NoRoom(t)
       /\ pSeen' = t
  /\ ppc' = "write"
  /\ pItem' = d
  /\ UNCHANGED <<buffer, head, tail, consumerVars>>

(* Mutation of WriteSlot: writes the slot of the next index.               *)
WriteNextSlot ==
  /\ ppc = "write"
  /\ buffer' = [buffer EXCEPT ![Slot(Step(head, 1))] = pItem]
  /\ ppc' = "publish"
  /\ UNCHANGED <<head, tail, pItem, pSeen, consumerVars>>

(* Copies the item into the slot that head_ designates.                    *)
WriteSlot ==
  /\ ppc = "write"
  /\ buffer' = [buffer EXCEPT ![Slot(head)] = pItem]
  /\ ppc' = "publish"
  /\ UNCHANGED <<head, tail, pItem, pSeen, consumerVars>>

(* Stores the advanced head_ and returns true.                             *)
PublishHead ==
  /\ ppc = "publish"
  /\ head' = Step(head, 1)
  /\ ppc' = "idle"
  /\ UNCHANGED <<buffer, tail, pItem, pSeen, consumerVars>>

-----------------------------------------------------------------------------
(* The consumer: try_pop.                                                  *)

(* Mutation of PopAdmitted: takes the last item for none.                  *)
PopAdmittedLate ==
  /\ cpc = "idle"
  /\ \E h \in Visible(cSeen, head) :
       /\ Dist(tail, h) > 1
       /\ cSeen' = h
  /\ cpc' = "read"
  /\ UNCHANGED <<buffer, head, tail, producerVars, cItem, received>>

(* Loads head_ and finds an item to take; when it finds none, try_pop      *)
(* returns false and changes nothing but the index it last saw.            *)
PopAdmitted ==
  /\ cpc = "idle"
  /\ \E h \in Visible(cSeen, head) :
       /\ h # tail
       /\ cSeen' = h
  /\ cpc' = "read"
  /\ UNCHANGED <<buffer, head, tail, producerVars, cItem, received>>

PopEmpty ==
  /\ cpc = "idle"
  /\ \E h \in Visible(cSeen, head) :
       /\ h = tail
       /\ cSeen' = h
  /\ UNCHANGED <<buffer, head, tail, producerVars, cpc, cItem, received>>

(* Copies the item out of the slot that tail_ designates.                  *)
ReadSlot ==
  /\ cpc = "read"
  /\ cItem' = buffer[Slot(tail)]
  /\ cpc' = "advance"
  /\ UNCHANGED <<buffer, head, tail, producerVars, cSeen, received>>

(* Mutation of AdvanceTail: releases all it saw, having read one item.     *)
AdvanceTailToSeen ==
  /\ cpc = "advance"
  /\ tail' = cSeen
  /\ received' = cItem
  /\ cpc' = "idle"
  /\ UNCHANGED <<buffer, head, producerVars, cItem, cSeen>>

(* Stores the advanced tail_ and returns true: the slot is free again.     *)
AdvanceTail ==
  /\ cpc = "advance"
  /\ tail' = Step(tail, 1)
  /\ received' = cItem
  /\ cpc' = "idle"
  /\ UNCHANGED <<buffer, head, producerVars, cItem, cSeen>>

Next ==
  \/ PushRefused
  \/ \E d \in Items : PushAdmitted(d)
  \/ WriteSlot
  \/ PublishHead
  \/ PopAdmitted
  \/ PopEmpty
  \/ ReadSlot
  \/ AdvanceTail

Spec == Init /\ [][Next]_vars

(* A call of try_push or try_pop that has begun ends, and the consumer's   *)
(* loop polls again and again; stores become visible in finite time, so a  *)
(* poll cannot miss a published item for ever.                             *)
Fairness ==
  /\ WF_vars(WriteSlot)
  /\ WF_vars(PublishHead)
  /\ WF_vars(PopAdmitted)
  /\ WF_vars(ReadSlot)
  /\ WF_vars(AdvanceTail)

FairSpec == Spec /\ Fairness

-----------------------------------------------------------------------------
(* size(), as either of the two threads would compute it.                  *)
Size == Dist(tail, head)

(* The items a consumer can still pop, oldest first.                       *)
Contents == [k \in 1 .. Size |-> buffer[Slot(Step(tail, k - 1))]]

-----------------------------------------------------------------------------
TypeOK ==
  /\ buffer \in [Slots -> Items \union {Default}]
  /\ head \in Indices
  /\ tail \in Indices
  /\ ppc \in {"idle", "write", "publish"}
  /\ pItem \in Items \union {Default}
  /\ pSeen \in Indices
  /\ cpc \in {"idle", "read", "advance"}
  /\ cItem \in Items \union {Default}
  /\ cSeen \in Indices
  /\ received \in Items \union {Default}

(* The copy of an item into a slot (line 69) and the copy of an item out   *)
(* of a slot (line 86) never touch the same slot at the same time, however *)
(* stale the indices the two threads last saw and wherever the counters    *)
(* wrap: the buffer has no data race.                                      *)
NoSlotRace ==
  ppc = "write" /\ cpc = "read" => Slot(head) # Slot(tail)

(* What the two threads' views spread over, from the oldest to head_.      *)
Span == Dist(pSeen, tail) + Dist(tail, cSeen) + Dist(cSeen, head)

(* The producer never writes a slot whose item has not been taken yet, and *)
(* the consumer never takes a slot that has not been published: the views  *)
(* the two threads have of each other's index stay in the order            *)
(* pSeen <= tail <= cSeen <= head < pSeen + N round the wrapped counter,   *)
(* with one index less while a push is between its test and its store.     *)
IndexOrder ==
  /\ Span < N
  /\ ppc # "idle" => Span + 1 < N
  /\ cpc # "idle" => tail # cSeen

(* What is published is what was pushed, and what try_pop hands over is    *)
(* what the slot held: between the copy out of a slot and the release of   *)
(* the slot nothing overwrites it.                                         *)
HandoffIntact ==
  /\ ppc # "idle" => pItem \in Items
  /\ ppc = "publish" => buffer[Slot(head)] = pItem
  /\ cpc = "advance" => cItem = buffer[Slot(tail)]

(* The ring buffer is a first-in first-out queue of N - 1 items, each one  *)
(* handed over exactly once: it implements BoundedQueue.                   *)
Q == INSTANCE BoundedQueue
       WITH queue <- Contents, Capacity <- N - 1

ImplementsQueue == Q!SafeSpec

(* ... and a consumer that keeps polling empties it.                       *)
DrainsQueue == Q!Spec
=============================================================================
