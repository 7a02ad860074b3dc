----------------------------- MODULE TradeStore -----------------------------
(***************************************************************************)
(* The way of a trade from the live feed to a replay: stamped by the       *)
(* exchange, pushed by on_message (main.cpp), batched and sent by          *)
(* KdbWriter, inserted into the table trade of kdb/schema.q, which is      *)
(* keyed by time, selected by range and delivered at its pace by           *)
(* core/kdb/replay_engine.hpp.                                             *)
(*                                                                         *)
(* The unit of time is the millisecond of the exchange, for whole ones     *)
(* become nanoseconds and come back as they were.  Unsigned times count up *)
(* to Modulus, signed ones to half of it.  A replay is another run of the  *)
(* program: it starts when the writer of the live one has ended, at any    *)
(* moment, with any prefix of the calls processed, since the connection    *)
(* may be lost at any time.                                                *)
(***************************************************************************)
EXTENDS KdbWriter, SequencesExt, FiniteSets

CONSTANTS
  Times,    (* the trade times of the exchange                             *)
  Half,     (* 2^63, where signed and unsigned times part                  *)
  Epoch,    (* 946684800000000000: kdb+ counts from 2000                   *)
  Starts, Ends, Speeds,   (* what --start, --end and --speed may be        *)
  MaxWall   (* bound: the clock of the replay                              *)

Modulus == 2 * Half

(* Trades are later than kdb+'s epoch.  From a start or an end just above  *)
(* Half the subtraction of Bound overflows, which is undefined.            *)
ASSUME TimeAssumption ==
  /\ Half \in Nat \ {0} /\ Epoch \in Nat
  /\ Times \subseteq Epoch .. Half - 1
  /\ Starts \union Ends \subseteq (0 .. Modulus - 1) \ (Half .. Half + Epoch - 1)
  /\ Speeds \subseteq Nat /\ MaxWall \in Nat

VARIABLES
  stamp,      (* exchange_ts of the trades pushed, by their number         *)
  table,      (* the rows of trade, oldest insertion first                 *)
  cli,        (* start, end and speed of the replay                        *)
  replay,     (* where the replay is: "off", "play" or "done"              *)
  rows,       (* what the query answered                                   *)
  wall,       (* the time since wall_start                                 *)
  delivered   (* the ticks delivered: their row, and when                  *)

replayVars == <<cli, replay, rows, wall, delivered>>
storeVars == <<vars, stamp, table, replayVars>>

InitStore ==
  /\ Init
  /\ stamp = <<>> /\ table = <<>>
  /\ cli = [start |-> 0, end |-> 0, speed |-> 0]
  /\ replay = "off" /\ rows = <<>> /\ wall = 0 /\ delivered = <<>>

-----------------------------------------------------------------------------
(* The live run.                                                           *)

(* A trade is pushed with the time the exchange gave it.                   *)
PushTrade(t) ==
  /\ Push("trade")
  /\ stamp' = Append(stamp, t)
  /\ UNCHANGED <<table, replayVars>>

PushFill == Push("fill") /\ UNCHANGED <<stamp, table, replayVars>>

StampsOf(ns) == {stamp[n] : n \in ToSet(ns)}

(* External: insert refuses the whole call when the table has one of its   *)
(* keys already, or when the call has one twice.                           *)
Insert(call) ==
  IF /\ StampsOf(call) \intersect StampsOf(table) = {}
     /\ Cardinality(StampsOf(call)) = Len(call)
    THEN table \o call ELSE table

(* The rows of trade this step of the writer calls .u.upd with, if any.    *)
Call == SubSeq(sent'["trade"], Len(sent["trade"]) + 1, Len(sent'["trade"]))

Write ==
  /\ Writer
  /\ table' = Insert(Call)
  /\ UNCHANGED <<stamp, replayVars>>

Live ==
  \/ \E t \in Times : PushTrade(t)
  \/ PushFill
  \/ (Stop \/ LinkFails) /\ UNCHANGED <<stamp, table, replayVars>>
  \/ Write

-----------------------------------------------------------------------------
(* The replay.                                                             *)

(* static_cast<long long> of a uint64_t.                                   *)
AsSigned(x) == IF x < Half THEN x ELSE x - Modulus

(* ks_time of the writer.                                                  *)
KdbTime(n) == AsSigned(stamp[n]) - Epoch

(* Mutation of Bound: without the shift to the epoch of kdb+.              *)
BoundUnshifted(x) == AsSigned(x)

(* start_k and end_k.                                                      *)
Bound(x) == AsSigned(x) - Epoch

InRange(n, start, end) == Bound(start) <= KdbTime(n) /\ KdbTime(n) <= Bound(end)

(* A set of places as a list, from the first on: there is one.             *)
Listings(places) ==
  {list \in [1 .. Cardinality(places) -> places] :
     \A i, j \in DOMAIN list : i < j => list[i] < list[j]}

(* The query, or no answer to it: the rows in the range, in their order.   *)
Fetch(start, end, speed) ==
  /\ pc = "closed" /\ replay = "off"
  /\ cli' = [start |-> start, end |-> end, speed |-> speed]
  /\ \/ /\ \E list \in Listings({i \in DOMAIN table : InRange(table[i], start, end)}) :
             rows' = [i \in DOMAIN list |-> table[list[i]]]
        /\ replay' = "play"
     \/ replay' = "done" /\ UNCHANGED rows
  /\ UNCHANGED <<vars, stamp, table, wall, delivered>>

(* tick_ts.                                                                *)
TickTs(n) == (KdbTime(n) + Epoch) % Modulus

(* Mutation of ElapsedSim: since the tick before.                          *)
ElapsedSincePrevious(i) ==
  (TickTs(rows[i]) - TickTs(rows[IF i = 1 THEN 1 ELSE i - 1])) % Modulus

(* Mutation of ElapsedSim: the operands swapped.                           *)
ElapsedBackwards(i) == (TickTs(rows[1]) - TickTs(rows[i])) % Modulus

(* elapsed_sim: the distance to the first row, which wraps round when that *)
(* is the later one.                                                       *)
ElapsedSim(i) == (TickTs(rows[i]) - TickTs(rows[1])) % Modulus

(* The next row is due: at once, or when the clock reaches target_wall.    *)
IsDue(i) ==
  IF cli.speed > 0 /\ i > 1 THEN wall >= ElapsedSim(i) \div cli.speed ELSE TRUE

Deliver ==
  LET i == Len(delivered) + 1 IN
  /\ replay = "play" /\ i <= Len(rows) /\ IsDue(i)
  /\ delivered' = Append(delivered, [row |-> rows[i], at |-> wall])
  /\ UNCHANGED <<vars, stamp, table, cli, replay, rows, wall>>

Finish ==
  /\ replay = "play" /\ Len(delivered) = Len(rows)
  /\ replay' = "done"
  /\ UNCHANGED <<vars, stamp, table, cli, rows, wall, delivered>>

(* The steady clock, which only a paced replay looks at.                   *)
PassTime ==
  /\ replay = "play" /\ cli.speed > 0 /\ wall < MaxWall
  /\ wall' = wall + 1
  /\ UNCHANGED <<vars, stamp, table, cli, replay, rows, delivered>>

Replay ==
  \/ \E start \in Starts, end \in Ends, speed \in Speeds : Fetch(start, end, speed)
  \/ Deliver \/ Finish \/ PassTime

NextStore ==
  \/ Live
  \/ Replay
  \/ replay # "off" /\ UNCHANGED storeVars

SpecStore == InitStore /\ [][NextStore]_storeVars

FairSpecStore ==
  /\ SpecStore
  /\ WF_storeVars(Write)
  /\ WF_storeVars(Deliver) /\ WF_storeVars(Finish) /\ WF_storeVars(PassTime)

-----------------------------------------------------------------------------
TypeOKStore ==
  /\ TypeOK
  /\ stamp \in Seq(Times) /\ Len(stamp) = pushed["trade"]
  /\ table \in Rows("trade") /\ rows \in Rows("trade")
  /\ cli \in [start : Starts \union {0}, end : Ends \union {0},
               speed : Speeds \union {0}]
  /\ replay \in {"off", "play", "done"}
  /\ wall \in 0 .. MaxWall
  /\ delivered \in Seq([row : 1 .. MaxRecords["trade"], at : 0 .. MaxWall])

(* What a replay delivers was pushed by the live feed, each trade at most  *)
(* once and in the order of the feed, whatever queues, batches, losses and *)
(* refusals lie between.                                                   *)
ReplayFollowsFeed ==
  \A i \in DOMAIN delivered :
    /\ delivered[i].row <= pushed["trade"]
    /\ i > 1 => delivered[i].row > delivered[i - 1].row

(* A replay delivers trades of its range and no others, as long as start   *)
(* and end are times that a signed count can hold; and the whole of the    *)
(* range that is stored, if it ends.                                       *)
RangeIsReplayed ==
  replay # "off" /\ cli.start < Half /\ cli.end < Half =>
    /\ \A n \in ToSet(rows) : cli.start <= stamp[n] /\ stamp[n] <= cli.end
    /\ rows # <<>> => \A n \in ToSet(table) :
         cli.start <= stamp[n] /\ stamp[n] <= cli.end => n \in ToSet(rows)

(* No trade is delivered before its time: its distance to the first one,   *)
(* by the exchange's clock, divided by the speed.                          *)
NeverAheadOfTime ==
  \A i \in DOMAIN delivered :
    cli.speed > 0 =>
      stamp[delivered[i].row] - stamp[delivered[1].row]
        < (delivered[i].at + 1) * cli.speed

(* A replay comes to its end, also with a pace, unless a trade is older    *)
(* than the first: for that one the distance wraps round.                  *)
ReplayFinishes ==
  (replay = "play" /\ \A n \in ToSet(rows) : stamp[n] >= stamp[rows[1]])
    ~> replay = "done"

-----------------------------------------------------------------------------
(* "stores every tick in kdb+/q for high-fidelity backtesting": a trade    *)
(* that was sent is in the table.                                          *)
EveryTickIsStored == ToSet(sent["trade"]) \subseteq ToSet(table)
=============================================================================
