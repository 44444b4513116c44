--------------------------- MODULE MCExecutionEngine ---------------------------
(* Instances of ExecutionEngine for TLC.                                      *)
EXTENDS ExecutionEngine, TLC

\* Callers and tool calls are interchangeable in the safety runs.
Interchangeable == Permutations(Clients) \cup Permutations(Calls)
===============================================================================
