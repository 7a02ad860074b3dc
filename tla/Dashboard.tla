------------------------------ MODULE Dashboard ------------------------------
(***************************************************************************)
(* What the dashboard shows of the strategies: UIState                     *)
(* (core/ui/ui_state.hpp) between the execution thread, which stores the   *)
(* metrics of a strategy and adds an entry to the ring of recent trades    *)
(* for every fill (core/execution/execution_engine.hpp), and the server's  *)
(* thread, which reads both in every broadcast (broadcast_snapshot of      *)
(* core/ui/ws_server.hpp).  There is no lock: the metrics and the write    *)
(* index are atomic, the entries are not.                                  *)
(*                                                                         *)
(* A fill is its number, and so is what it leaves in a row or an entry; a  *)
(* row has one metric, which stands for each of the four, for nothing      *)
(* orders their loads.                                                     *)
(* A relaxed load may answer any store that is no older than one the       *)
(* thread is known to have seen; the acquire of trade_idx makes it see all *)
(* that came before the release it read from.  The loads of one broadcast  *)
(* are so many choices that nothing orders, hence one step.                *)
(***************************************************************************)
EXTENDS StrategySet, SequencesExt

CONSTANTS
  MaxTrades,  (* MAX_UI_TRADES                                             *)
  MaxFills    (* bound: the fills of the execution thread                  *)

ASSUME BoundAssumption == MaxTrades \in Nat \ {0} /\ MaxFills \in Nat

Rows == 0 .. Len(DashboardNames) - 1   (* MAX_STRATEGIES                   *)
Slots == 0 .. MaxTrades - 1
None == 0
Torn == -1  (* an entry copied out while it was being written              *)

VARIABLES
  filler,     (* history: the strategies that filled, in order             *)
  metrics,    (* strategy_metrics: the last fill stored in each row        *)
  trades,     (* trades                                                    *)
  released,   (* the metrics as they were at each store of trade_idx       *)
  exec,       (* where the execution thread is                             *)
  watched,    (* does a client session exist?                              *)
  server,     (* where the server is in broadcast_snapshot                 *)
  shown,      (* the rows it read last                                     *)
  newest,     (* the last store of trade_idx it has seen, as its number    *)
  listed,     (* the entries it has listed so far                          *)
  disturbed   (* history: an entry of its list was overwritten since       *)

execVars == <<filler, metrics, trades, released, exec>>
serverVars == <<server, shown, newest, listed>>
vars == <<setVars, execVars, watched, serverVars, disturbed>>

fill == Len(filler)   (* the fill the execution thread is at, or the last  *)

Init ==
  /\ InitSet
  /\ filler = <<>> /\ exec = "idle"
  /\ metrics = [r \in Rows |-> None]
  /\ trades = [i \in Slots |-> None]
  /\ released = <<>>
  /\ watched = FALSE
  /\ server = "idle" /\ newest = 0 /\ listed = <<>>
  /\ shown = [r \in Rows |-> None]
  /\ disturbed = FALSE

-----------------------------------------------------------------------------
(* The ring of recent trades.                                              *)

(* The value of trade_idx after so many stores: a store leaves the slot    *)
(* just written, plus one, so after MaxTrades it starts again at 1.        *)
Index(stores) == IF stores = 0 THEN 0 ELSE ((stores - 1) % MaxTrades) + 1

(* Mutation of Count: one entry more than the index says.                  *)
CountOneMore(i) == IF i + 1 < MaxTrades THEN i + 1 ELSE MaxTrades

(* Mutation of Count: one entry more and no limit.                         *)
CountUnlimited(i) == i + 1

(* The entries a broadcast lists when it loaded the index i.               *)
Count(i) == IF i < MaxTrades THEN i ELSE MaxTrades

(* The slot add_trade writes the entry of a fill to.                       *)
SlotOf(n) == Index(n - 1) % MaxTrades

(* The entry of fill n is one a list begun at the store s will read.       *)
InList(n, s) == SlotOf(n) < Count(Index(s))

-----------------------------------------------------------------------------
(* The execution thread, for one fill.                                     *)

(* Mutation of After: the entry before the metrics.                        *)
AfterEntryFirst(step) ==
  [idle |-> "entry", entry |-> "copy", copy |-> "publish",
   publish |-> "metrics", metrics |-> "idle"][step]

(* The order of its steps: the metrics, then add_trade.                    *)
After(step) ==
  [idle |-> "metrics", metrics |-> "entry", entry |-> "copy",
   copy |-> "publish", publish |-> "idle"][step]

(* A signal of a strategy that was loaded is filled.                       *)
BeginFill(s) ==
  /\ phase = "run" /\ exec = "idle" /\ fill < MaxFills
  /\ filler' = Append(filler, s)
  /\ exec' = After(exec)
  /\ UNCHANGED <<setVars, metrics, trades, released, watched, serverVars,
                 disturbed>>

RowOf(n) == IdOf(strats[filler[n]].name)

(* The row of the strategy, if it has one.                                 *)
StoreMetrics ==
  /\ exec = "metrics"
  /\ metrics' = IF RowOf(fill) \in Rows
                  THEN [metrics EXCEPT ![RowOf(fill)] = fill] ELSE metrics
  /\ exec' = After(exec)
  /\ UNCHANGED <<setVars, filler, trades, released, watched, serverVars,
                 disturbed>>

(* add_trade begins to copy the entry into its slot.                       *)
BeginEntry ==
  /\ exec = "entry"
  /\ exec' = After(exec)
  /\ disturbed' = (disturbed \/ (server = "list" /\ InList(fill, newest)))
  /\ UNCHANGED <<setVars, filler, metrics, trades, released, watched,
                 serverVars>>

EndEntry ==
  /\ exec = "copy"
  /\ trades' = [trades EXCEPT ![SlotOf(fill)] = fill]
  /\ exec' = After(exec)
  /\ UNCHANGED <<setVars, filler, metrics, released, watched, serverVars,
                 disturbed>>

(* The store of trade_idx, a release.                                      *)
StoreIndex ==
  /\ exec = "publish"
  /\ released' = Append(released, metrics)
  /\ exec' = After(exec)
  /\ UNCHANGED <<setVars, filler, metrics, trades, watched, serverVars,
                 disturbed>>

Exec ==
  \/ \E s \in DOMAIN strats : BeginFill(s)
  \/ StoreMetrics \/ BeginEntry \/ EndEntry \/ StoreIndex

-----------------------------------------------------------------------------
(* The server's thread.                                                    *)

(* A client connects; the last one goes and its session expires.           *)
Watch ==
  /\ phase = "run" /\ server = "idle"
  /\ watched' = ~watched
  /\ UNCHANGED <<setVars, execVars, serverVars, disturbed>>

(* What a load of row r may answer.                                        *)
Stores(r) ==
  {n \in 1 .. fill : RowOf(n) = r /\ n <= metrics[r]} \union {None}

(* Mutation of Acquired: a relaxed load of the index.                      *)
AcquiredNothing(r) == None

(* The last store of row r the acquired index makes the server see.        *)
Acquired(r) == IF newest = 0 THEN None ELSE released[newest][r]

(* A broadcast begins, when there is a session: the rows are read, those   *)
(* that nothing was stored to as they are.                                 *)
LoadRows ==
  LET stored == {r \in Rows : metrics[r] # None} IN
  /\ server = "idle" /\ watched
  /\ \E loaded \in [stored -> UNION {Stores(r) : r \in stored}] :
       /\ \A r \in stored :
            /\ loaded[r] \in Stores(r)
            /\ loaded[r] >= shown[r] /\ loaded[r] >= Acquired(r)
       /\ shown' = [r \in Rows |-> IF r \in stored THEN loaded[r] ELSE shown[r]]
  /\ server' = "index"
  /\ UNCHANGED <<setVars, execVars, watched, newest, listed, disturbed>>

(* The load of trade_idx, an acquire, reads a store that is no older than  *)
(* the one it read last.  The entries written since that store race with   *)
(* its reads.                                                              *)
LoadIndex(n) ==
  /\ server = "index"
  /\ n \in newest .. Len(released)
  /\ newest' = n
  /\ listed' = <<>>
  /\ server' = "list"
  /\ disturbed' = \E k \in n + 1 .. fill :
                    /\ InList(k, n)
                    /\ k < fill \/ exec = "copy" \/ trades[SlotOf(k)] = k
  /\ UNCHANGED <<setVars, execVars, watched, shown>>

(* Mutation of ReadSlot: oldest entry first.                               *)
ReadSlotFromOldest(i) == i % MaxTrades

(* The slot of the entry number i of the list, counted from 0.             *)
ReadSlot(i) == (Index(newest) - 1 - i) % MaxTrades

ListEntry ==
  LET slot == ReadSlot(Len(listed)) IN
  /\ server = "list" /\ Len(listed) < Count(Index(newest))
  /\ listed' = Append(listed, IF exec = "copy" /\ slot = SlotOf(fill)
                                THEN Torn ELSE trades[slot])
  /\ UNCHANGED <<setVars, execVars, watched, server, shown, newest, disturbed>>

(* The list is complete and goes to every session.                         *)
Send ==
  /\ server = "list" /\ Len(listed) = Count(Index(newest))
  /\ server' = "idle"
  /\ UNCHANGED <<setVars, execVars, watched, shown, newest, listed, disturbed>>

Server == LoadRows \/ (\E n \in 0 .. MaxFills : LoadIndex(n)) \/ ListEntry \/ Send

threadVars == <<execVars, watched, serverVars, disturbed>>

Next ==
  \/ Loading /\ UNCHANGED threadVars
  \/ Exec \/ Watch \/ Server
  \/ phase = "exit" /\ UNCHANGED vars

Spec == Init /\ [][Next]_vars

(* The server's timer goes on, and the index it loads is, ever again, the  *)
(* newest.                                                                 *)
FairSpec ==
  /\ Spec
  /\ WF_vars(Exec) /\ WF_vars(Server)
  /\ SF_vars(LoadIndex(Len(released)))

-----------------------------------------------------------------------------
TypeOK ==
  /\ next \in 1 .. Len(Files) + 1
  /\ phase \in {"load", "run", "exit"}
  /\ filler \in Seq(DOMAIN strats) /\ Len(filler) <= MaxFills
  /\ metrics \in [Rows -> 0 .. MaxFills]
  /\ trades \in [Slots -> 0 .. MaxFills]
  /\ released \in Seq([Rows -> 0 .. MaxFills])
  /\ exec \in {"idle", "metrics", "entry", "copy", "publish"}
  /\ watched \in BOOLEAN /\ disturbed \in BOOLEAN
  /\ server \in {"idle", "index", "list"}
  /\ shown \in [Rows -> 0 .. MaxFills]
  /\ newest \in 0 .. Len(released)
  /\ listed \in Seq(Torn .. MaxFills) /\ Len(listed) <= MaxTrades

(* A list no entry of which was written while it was read holds the last   *)
(* fills before the index it began with, newest first, without a gap or a  *)
(* repetition, round the end of the ring too.                              *)
ListIsNewestFirst ==
  server = "list" /\ ~disturbed
    => \A i \in DOMAIN listed : listed[i] = newest - i + 1

(* Until the ring is full the two threads never meet in an entry, so no    *)
(* lock is missed: whatever the server lists, however slowly and however   *)
(* old the index it read, is whole and as it was at that index.            *)
FirstLapIsRaceFree ==
  fill <= MaxTrades =>
    /\ ~disturbed
    /\ server = "list" => \A i \in DOMAIN listed : listed[i] = newest - i + 1

(* A row and an entry are labelled with the strategy whose fill they show, *)
(* whichever files failed to load and moved the others up.                 *)
LabelIsOfTheFill ==
  /\ \A r \in Rows :
       shown[r] # None => LabelOf(r) = strats[filler[shown[r]]].name
  /\ \A n \in 1 .. fill :
       LET name == strats[filler[n]].name IN
       LabelOf(RowOf(n)) = IF name \in Range(DashboardNames) THEN name ELSE "unknown"

(* A dashboard that listed a fill shows its effect: in the broadcasts      *)
(* after it, the strategy's row is of that fill or a later one, though the *)
(* rows and the ring share no lock.                                        *)
RowsKeepUpWithList ==
  server = "index" =>
    \A n \in 1 .. newest : RowOf(n) \in Rows => shown[RowOf(n)] >= n

IsShown(n) == n <= fill /\ (RowOf(n) \in Rows => shown[RowOf(n)] >= n)

(* Every fill of a strategy with a row comes to be shown there, as long as *)
(* somebody watches.                                                       *)
FillIsShown == \A n \in 1 .. MaxFills : n <= fill ~> IsShown(n) \/ ~watched

-----------------------------------------------------------------------------
(* "Recent Trades (Circular Buffer)", of MAX_UI_TRADES entries: an         *)
(* undisturbed list has every fill so far, or as many as the buffer holds. *)
ListIsFull ==
  server = "list" /\ Len(listed) = Count(Index(newest)) /\ ~disturbed
    => Len(listed) = IF newest < MaxTrades THEN newest ELSE MaxTrades
=============================================================================
