---------------------------- MODULE BinanceFeed ----------------------------
(***************************************************************************)
(* BinanceWebSocket (core/feed_handler/binance_ws.cpp): the connection to  *)
(* Binance as a chain of callbacks, each of which starts the next          *)
(* operation.  There is one operation pending at a time until the reads    *)
(* begin, and then one read at a time.  What a message does is decided by  *)
(* on_message of main.cpp; the module says when one may arrive.            *)
(*                                                                         *)
(* The module is a part of Lifecycle, whose io_context runs the callbacks. *)
(***************************************************************************)

VARIABLES
  feed,        (* the operation that is pending                            *)
  connected    (* connected_                                               *)

feedVars == <<feed, connected>>

(* The operations before the first read, and what each one leads to.       *)
NextOperation == [resolve |-> "connect", connect |-> "tls", tls |-> "upgrade",
                  upgrade |-> "subscribe", subscribe |-> "read"]
Stages == DOMAIN NextOperation

FeedInit == feed = "none" /\ connected = FALSE

(* connect()                                                               *)
StartFeed == feed = "none" /\ feed' = "resolve" /\ UNCHANGED connected

(* An operation of the chain succeeds: its callback starts the next one.   *)
(* connected_ is set when the WebSocket handshake is done.                 *)
StageDone ==
  /\ feed \in Stages
  /\ feed' = NextOperation[feed]
  /\ connected' = (connected \/ feed = "upgrade")

(* It fails: the callback returns, and nothing is pending any more.        *)
StageFails ==
  /\ feed \in Stages
  /\ feed' = "lost"
  /\ UNCHANGED connected

(* A message was read: on_message is called and the next read begins.      *)
MessageRead == feed = "read" /\ UNCHANGED feedVars

(* A read fails, or Binance closed the connection.                         *)
ReadFails ==
  /\ feed = "read"
  /\ feed' = "lost" /\ connected' = FALSE

(* close(): nothing to do unless connected; the closing handshake begins.  *)
CloseFeed ==
  /\ feed' = IF connected /\ feed \in {"subscribe", "read"} THEN "closing"
                                                            ELSE feed
  /\ UNCHANGED connected

FeedTypeOK ==
  /\ feed \in Stages \union {"none", "read", "closing", "lost"}
  /\ connected \in BOOLEAN
=============================================================================
