-------------------------- MODULE MCExecutionEngine --------------------------
(* Two strategies, two quotes, a hedge of half the base position.  Prices  *)
(* are multiples of 720, so that every average within the bound on fills is *)
(* an integer and Representable excludes nothing.                          *)
EXTENDS ExecutionEngine

CONSTANTS momentum, pairs

MCStrategies == {momentum, pairs}
MCQuotes == {[bid |-> 7200, ask |-> 8640], [bid |-> 10080, ask |-> 11520]}
=============================================================================
