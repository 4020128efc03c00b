-------------------------- MODULE MCPipelineManager --------------------------
(* Instances of PipelineManager for TLC: goroutines are interchangeable, the *)
(* two tasks differ in size so that the order of GetPendingTasks matters.    *)
EXTENDS PipelineManager, TLC

CONSTANTS t1, t2, t3

\* t1 is the small file, the others tie.
SizeOf == [t \in Tasks |-> IF t = t1 THEN 1 ELSE 2]

Symmetry == Permutations(Workers) \cup Permutations(Clients) \cup Permutations(Kicks)
=============================================================================
