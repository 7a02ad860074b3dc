----------------------------- MODULE MCDashboard -----------------------------
(* Two files: a strategy the dashboard does not know and one it has a row  *)
(* for.                                                                    *)
EXTENDS Dashboard

File(name) ==
  [name |-> name, entry |-> {}, exit |-> {}, entryCond |-> "", exitCond |-> "",
   size |-> {}, enabled |-> "", ratio |-> {}]

OneUnknown == <<File("mean_revert"), File("funding_arbitrage")>>
=============================================================================
