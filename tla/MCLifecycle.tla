---------------------------- MODULE MCLifecycle ----------------------------
(* The modes a run considers.                                              *)
EXTENDS Lifecycle

LiveOnly == {"live"}
EveryMode == {"live", "replay", "unknown"}
=============================================================================
