---------------------------- MODULE BoundedQueue ----------------------------
(***************************************************************************)
(* What the pipeline's threads rely on when they talk through an           *)
(* SPSCRingBuffer<T, N> (core/common/ring_buffer.hpp): a first-in          *)
(* first-out queue that never holds more than Capacity items.  A refused   *)
(* push leaves no trace, so it is a stuttering step here; the producer's   *)
(* caller has to notice the result, and no caller in main.cpp,             *)
(* strategy_engine.hpp or execution_engine.hpp does.                       *)
(***************************************************************************)
EXTENDS Naturals, Sequences

CONSTANTS
  Items,     (* the values a producer may push                             *)
  Capacity,  (* the most items the queue holds                             *)
  Default    (* what the consumer's out-parameter holds before any pop     *)

VARIABLES
  queue,     (* the items pushed and not yet popped, oldest first          *)
  received   (* the item the last successful try_pop handed to its caller  *)

vars == <<queue, received>>

Init ==
  /\ queue = <<>>
  /\ received = Default

(* A push that is accepted.                                                *)
Put(d) ==
  /\ Len(queue) < Capacity
  /\ queue' = Append(queue, d)
  /\ UNCHANGED received

(* A pop that finds an item: it is the oldest one, and it leaves the queue.*)
Get ==
  /\ queue # <<>>
  /\ received' = Head(queue)
  /\ queue' = Tail(queue)

Next == (\E d \in Items : Put(d)) \/ Get

SafeSpec == Init /\ [][Next]_vars

(* A consumer that keeps polling empties the queue.                        *)
Spec == SafeSpec /\ WF_vars(Get)
=============================================================================
