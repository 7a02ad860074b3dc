----------------------------- MODULE StrategySet -----------------------------
(***************************************************************************)
(* The set of strategies: how the files under strategies/ become           *)
(* definitions (core/quant/strategy_parser.hpp, strategy_def.hpp), the     *)
(* vector strats that main.cpp fills with those that load, what it takes   *)
(* from it, and the tables by which the engine and the dashboard know a    *)
(* strategy.  The swap command is an action of TradingPipeline.            *)
(*                                                                         *)
(* A file is a record of what the parser looks for, and of the two keys    *)
(* entry_cond and exit_cond, for which it does not look.  What may be      *)
(* absent is a set of at most one element; a text that is absent is the    *)
(* empty one.  A load fails when the file cannot be opened or one of its   *)
(* numbers cannot be converted: here, on any file.                         *)
(***************************************************************************)
EXTENDS Integers, Sequences

CONSTANT Files   (* the files, in the order of paths                       *)

Block == [condition : STRING, param : SUBSET Nat]

FileRecords ==
  [name : STRING, entry : SUBSET Block, exit : SUBSET Block,
   entryCond : STRING, exitCond : STRING,
   size : SUBSET Nat, enabled : STRING, ratio : SUBSET Nat]

ASSUME FilesAssumption == Files \in Seq(FileRecords) /\ Files # <<>>

VARIABLES
  next,        (* the number of the file main.cpp is at                    *)
  strats,      (* strats: the definitions loaded so far                    *)
  phase        (* "load", then "run", or "exit" when there is none         *)

setVars == <<next, strats, phase>>

-----------------------------------------------------------------------------
(* The value of something that may be absent, and its default.             *)
Or(option, default) ==
  IF option = {} THEN default ELSE CHOOSE x \in option : TRUE

Conditions ==
  {"price_up", "price_down", "price_above_ema", "price_below_ema",
   "funding_arb_entry", "funding_arb_exit",
   "pairs_z_score_entry", "pairs_z_score_exit",
   "dual_momentum_entry", "dual_momentum_exit",
   "margin_short_entry", "margin_short_exit",
   "vol_straddle_entry", "vol_straddle_exit",
   "perp_swap_entry", "perp_swap_exit",
   "inverse_perp_entry", "inverse_perp_exit",
   "trend_vol_entry", "trend_vol_exit"}

(* A text that names no condition is taken for price_up, in an exit too.   *)
ConditionOf(text) == IF text \in Conditions THEN text ELSE "price_up"

(* A block that is absent leaves the default of StrategyDef.               *)
ConditionIn(blocks, default) ==
  Or({ConditionOf(b.condition) : b \in blocks}, default)

(* The parameter of the exit block replaces that of the entry block.       *)
EmaPeriod(file) ==
  Or(UNION {b.param : b \in file.exit},
     Or(UNION {b.param : b \in file.entry}, 20))

(* Neither threshold nor counter_max is looked for in the file: they keep  *)
(* their defaults, a hundredth and 5.                                      *)
Parse(file) ==
  [name |-> IF file.name = "" THEN "unnamed" ELSE file.name,
   entryCond |-> ConditionIn(file.entry, "price_up"),
   exitCond |-> ConditionIn(file.exit, "price_down"),
   emaPeriod |-> EmaPeriod(file),
   size |-> Or(file.size, 1),
   hedgeEnabled |-> file.enabled \in {"true", "1"},
   hedgeRatio |-> Or(file.ratio, 100)]

-----------------------------------------------------------------------------
(* The names get_strategy_id knows, in the order of their identifiers.     *)
EngineNames ==
  <<"momentum", "funding_arbitrage", "pairs_trading", "dual_momentum",
    "margin_short", "vol_straddle", "perp_swap_hedge", "inverse_perp_hedge",
    "trend_vol_filter">>

(* The names of the dashboard, in the order of its rows.                   *)
DashboardNames ==
  <<"momentum", "funding_arbitrage", "pairs_trading", "dual_momentum",
    "margin_short", "vol_straddle", "perp_swap_hedge", "inverse_perp_hedge",
    "trend_vol_filter">>

NoId == -1

(* Mutation of IdOf: the place of the strategy among those loaded.         *)
IdOfPlace(name) ==
  IF \E i \in DOMAIN strats : strats[i].name = name
    THEN (CHOOSE i \in DOMAIN strats : strats[i].name = name) - 1
    ELSE NoId

(* get_strategy_id.                                                        *)
IdOf(name) ==
  IF \E i \in DOMAIN EngineNames : EngineNames[i] = name
    THEN (CHOOSE i \in DOMAIN EngineNames : EngineNames[i] = name) - 1
    ELSE NoId

(* What the dashboard writes for an identifier: as a size_t, -1 is none of *)
(* its rows.                                                               *)
LabelOf(id) ==
  IF id \in 0 .. Len(DashboardNames) - 1 THEN DashboardNames[id + 1]
                                         ELSE "unknown"

-----------------------------------------------------------------------------
InitSet ==
  /\ next = 1 /\ strats = <<>>
  /\ phase = "load"

(* A file loads, or is passed over: those behind it move up.               *)
LoadFile ==
  /\ phase = "load" /\ next <= Len(Files)
  /\ next' = next + 1
  /\ \/ strats' = Append(strats, Parse(Files[next]))
     \/ UNCHANGED strats
  /\ UNCHANGED phase

(* Without a strategy the program ends; with one the threads start.        *)
EndLoading ==
  /\ phase = "load" /\ next > Len(Files)
  /\ phase' = IF strats = <<>> THEN "exit" ELSE "run"
  /\ UNCHANGED <<next, strats>>

Loading == LoadFile \/ EndLoading

(* The settings of the one hedge engine: those of the first strategy that  *)
(* loaded, whichever strategy fills.                                       *)
Hedge == [enabled |-> strats[1].hedgeEnabled, ratio |-> strats[1].hedgeRatio]
=============================================================================
