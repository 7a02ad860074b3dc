------------------------------ MODULE KdbWriter ------------------------------
(***************************************************************************)
(* The thread that writes to kdb+: KdbWriter of core/kdb/kdb_writer.hpp,   *)
(* between the two queues the feed and the execution thread push to        *)
(* (main.cpp, core/execution/execution_engine.hpp) and the kdb+ server.    *)
(*                                                                         *)
(* A record is the number of the push that brought it: its kind is that of *)
(* its queue, for the feed pushes trades and the execution thread pushes   *)
(* fills.  PNL and LATENCY records have a batch and no producer.           *)
(***************************************************************************)
EXTENDS Integers, Sequences

CONSTANTS
  Capacity,    (* the room of kdb_feed_q and of kdb_exec_q                 *)
  BatchSize,   (* BATCH_SIZE                                               *)
  MaxRecords   (* bound: the pushes of each kind                           *)

Kinds == {"trade", "fill"}

ASSUME BoundAssumption ==
  Capacity \in Nat \ {0} /\ BatchSize \in Nat \ {0} /\ MaxRecords \in [Kinds -> Nat]

VARIABLES
  running,     (* the flag of main.cpp                                     *)
  connected,   (* h_ > 0                                                   *)
  link,        (* external: is the connection to kdb+ still up?            *)
  pc,          (* where the writer is in run()                             *)
  idle,        (* the local of the same name                               *)
  queue,       (* feed_q_ and exec_q_, by the kind of their records        *)
  batch,       (* batch_trade_ and batch_fill_                             *)
  sent,        (* the rows .u.upd was called with, in order                *)
  pushed,      (* pushes attempted so far                                  *)
  accepted,    (* history: the records the queue took                      *)
  gone         (* history: a batch was sent over a lost connection         *)

writerVars == <<connected, pc, idle, batch, sent, gone>>
producerVars == <<pushed, accepted>>
vars == <<running, link, queue, writerVars, producerVars>>

Empty == [k \in Kinds |-> <<>>]

Init ==
  /\ running = TRUE /\ connected = FALSE /\ link = TRUE
  /\ pc = "connect" /\ idle = FALSE
  /\ queue = Empty /\ batch = Empty /\ accepted = Empty
  /\ sent = Empty
  /\ pushed = [k \in Kinds |-> 0]
  /\ gone = FALSE

-----------------------------------------------------------------------------
(* Mutation of HasRoom: <= for <.                                          *)
HasRoomInclusive(k) == Len(queue[k]) <= Capacity

HasRoom(k) == Len(queue[k]) < Capacity

(* The feed pushes a trade, the execution thread a fill; a full queue      *)
(* refuses and the producer does not notice.                               *)
Push(k) ==
  LET record == pushed[k] + 1 IN
  /\ pushed[k] < MaxRecords[k]
  /\ pushed' = [pushed EXCEPT ![k] = record]
  /\ IF HasRoom(k)
       THEN /\ queue' = [queue EXCEPT ![k] = Append(@, record)]
            /\ accepted' = [accepted EXCEPT ![k] = Append(@, record)]
       ELSE UNCHANGED <<queue, accepted>>
  /\ UNCHANGED <<running, link, writerVars>>

(* main.cpp clears running; the producers may push for a little longer.    *)
Stop ==
  /\ running /\ running' = FALSE
  /\ UNCHANGED <<link, queue, writerVars, producerVars>>

(* External: the server goes away.  The writer does not look at what k()   *)
(* returns.                                                                *)
LinkFails ==
  /\ link /\ link' = FALSE
  /\ UNCHANGED <<running, queue, writerVars, producerVars>>

-----------------------------------------------------------------------------
(* khpu succeeds or not; the thread runs on in both cases.                 *)
Connect ==
  /\ pc = "connect"
  /\ connected' \in IF link THEN BOOLEAN ELSE {FALSE}
  /\ pc' = "check"
  /\ UNCHANGED <<running, link, queue, idle, batch, sent, gone,
                 producerVars>>

(* A round of the loop begins.                                             *)
BeginRound ==
  /\ pc = "check" /\ running
  /\ idle' = TRUE
  /\ pc' = "trade"
  /\ UNCHANGED <<running, link, queue, connected, batch, sent, gone,
                 producerVars>>

(* Mutation of InBatch: the newest record first.                           *)
InBatchAtFront(rows, record) == <<record>> \o rows

(* push_back.                                                              *)
InBatch(rows, record) == Append(rows, record)

(* One pop of the inner loop that empties the queue of kind k; the record  *)
(* goes into its batch, or nowhere when there is no connection.            *)
Drain(k) ==
  /\ pc = k /\ queue[k] # <<>>
  /\ idle' = FALSE
  /\ queue' = [queue EXCEPT ![k] = Tail(@)]
  /\ batch' = IF connected
                THEN [batch EXCEPT ![k] = InBatch(@, Head(queue[k]))]
                ELSE batch
  /\ UNCHANGED <<running, link, connected, pc, sent, gone,
                 producerVars>>

(* The pop that finds the queue empty: feed first, then exec.              *)
Drained(k) ==
  /\ pc = k /\ queue[k] = <<>>
  /\ pc' = IF k = "trade" THEN "fill" ELSE "flush"
  /\ UNCHANGED <<running, link, queue, connected, idle, batch, sent, gone,
                 producerVars>>

(* What k() does with the batches of the given kinds: over a lost          *)
(* connection the rows go nowhere.                                         *)
Arrive(ks) ==
  /\ sent' = [k \in Kinds |-> IF link /\ k \in ks THEN sent[k] \o batch[k]
                                                  ELSE sent[k]]
  /\ gone' = (gone \/ (~link /\ \E k \in ks : batch[k] # <<>>))

(* Mutation of Flush: every batch is cleared, sent or not.                 *)
FlushClearingAll(ks) == Arrive(ks) /\ batch' = Empty

(* Mutation of Flush: the batches are sent and not cleared.                *)
FlushWithoutClear(ks) == Arrive(ks) /\ UNCHANGED batch

(* Sends the batches of the given kinds, whole and in order, and clears    *)
(* them.  Batches are empty when there is no connection.                   *)
Flush(ks) ==
  /\ Arrive(ks)
  /\ batch' = [k \in Kinds |-> IF k \in ks THEN <<>> ELSE batch[k]]

FullBatches == {k \in Kinds : Len(batch[k]) >= BatchSize}

(* Mutation of Due: partial batches wait until they are full.              *)
DueFullOnly == FullBatches

(* The batches to flush at the end of a round: every one when it was idle, *)
(* otherwise those that are full.                                          *)
Due == IF idle THEN Kinds ELSE FullBatches

EndRound ==
  /\ pc = "flush"
  /\ Flush(Due)
  /\ pc' = "check"
  /\ UNCHANGED <<running, link, queue, connected, idle, producerVars>>

(* running is false: the final flush, and the connection is closed.        *)
Close ==
  /\ pc = "check" /\ ~running
  /\ Flush(Kinds)
  /\ pc' = "closed"
  /\ UNCHANGED <<running, link, queue, connected, idle, producerVars>>

-----------------------------------------------------------------------------
(* After the end the writer takes no step.                                 *)
Ended ==
  /\ pc = "closed"
  /\ UNCHANGED vars

Writer == \/ Connect \/ BeginRound
          \/ \E k \in Kinds : Drain(k) \/ Drained(k)
          \/ EndRound \/ Close

Next ==
  \/ \E k \in Kinds : Push(k)
  \/ Stop \/ LinkFails
  \/ Writer
  \/ Ended

Spec == Init /\ [][Next]_vars

FairSpec == Spec /\ WF_vars(Writer)

-----------------------------------------------------------------------------
Rows(k) == Seq(1 .. MaxRecords[k])

TypeOK ==
  /\ {running, connected, link, idle, gone} \subseteq BOOLEAN
  /\ pc \in {"connect", "check", "flush", "closed"} \union Kinds
  /\ {DOMAIN queue, DOMAIN batch, DOMAIN sent, DOMAIN pushed, DOMAIN accepted} = {Kinds}
  /\ \A k \in Kinds :
       /\ {queue[k], batch[k], sent[k], accepted[k]} \subseteq Rows(k)
       /\ Len(queue[k]) <= Capacity
       /\ pushed[k] \in 0 .. MaxRecords[k]

(* Until a batch is sent over a lost connection, every record a queue took *)
(* was sent, is in the batch or in the queue, once and in the order of the *)
(* pushes: draining two queues in turn, flushing full batches early and    *)
(* flushing when idle neither reorder, repeat nor lose a row.              *)
NothingVanishes ==
  connected /\ ~gone =>
    \A k \in Kinds : sent[k] \o batch[k] \o queue[k] = accepted[k]

(* Whatever becomes of the connection and of the queues' refusals, no row  *)
(* is sent twice and none overtakes another of its kind, on the whole way  *)
(* from the push to the server.                                            *)
SentOnceInOrder ==
  \A k \in Kinds :
    LET way == sent[k] \o batch[k] \o queue[k]
    IN  \A i, j \in DOMAIN way : i < j => way[i] < way[j]

(* Once the producers pause, all that the queues took is sent, unless the  *)
(* program stops or the connection is lost first.                          *)
EverythingSent ==
  <>[](connected /\ link /\ running =>
         \A k \in Kinds : sent[k] = accepted[k])
=============================================================================
