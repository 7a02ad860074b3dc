----------------------------- MODULE TradingDesk -----------------------------
(***************************************************************************)
(* What the trading pipeline promises to each strategy, without queues,    *)
(* ticks, threads and swaps: the strategy places its orders by turns, a    *)
(* buy first, each at a later moment; its orders are executed in the order *)
(* it placed them, each at most once and by one unit; an order may be      *)
(* lost, when it is placed or later, and no strategy's orders touch the    *)
(* position of another.                                                    *)
(***************************************************************************)
EXTENDS Integers

CONSTANTS Strategies, Moments

VARIABLES
  long,     (* does the strategy believe it is long?                       *)
  orders,   (* its open orders, each with the moment it was placed         *)
  held      (* the units it holds                                          *)

vars == <<long, orders, held>>

Init ==
  /\ long = [s \in Strategies |-> FALSE]
  /\ orders = [s \in Strategies |-> {}]
  /\ held = [s \in Strategies |-> 0]

Order(s, at) == [at |-> at, side |-> IF long[s] THEN "SELL" ELSE "BUY"]

Place(s) ==
  /\ long' = [long EXCEPT ![s] = ~@]
  /\ \/ \E at \in Moments :
          /\ \A o \in orders[s] : o.at < at
          /\ orders' = [orders EXCEPT ![s] = @ \union {Order(s, at)}]
     \/ UNCHANGED orders
  /\ UNCHANGED held

Oldest(s) == {o \in orders[s] : \A p \in orders[s] : o.at <= p.at}

Fill(s) ==
  \E o \in Oldest(s) :
    /\ orders' = [orders EXCEPT ![s] = @ \ {o}]
    /\ held' = [held EXCEPT ![s] = IF o.side = "BUY" THEN @ + 1 ELSE @ - 1]
    /\ UNCHANGED long

Lose(s) ==
  \E o \in Oldest(s) :
    /\ orders' = [orders EXCEPT ![s] = @ \ {o}]
    /\ UNCHANGED <<long, held>>

Next == \E s \in Strategies : Place(s) \/ Fill(s) \/ Lose(s)

Spec == Init /\ [][Next]_vars
=============================================================================
