-------------------------- MODULE MCSPSCRingBuffer --------------------------
(* A ring of four slots whose counters wrap every eight pushes.            *)
EXTENDS SPSCRingBuffer

CONSTANTS d1, d2

MCItems == {d1, d2}
=============================================================================
