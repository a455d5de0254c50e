-------------------------- MODULE MCEmbeddingWorker --------------------------
(***************************************************************************)
(* Small instances of EmbeddingWorker.  Job names: `q` jobs are queries,   *)
(* `i` jobs are index jobs.                                                *)
(***************************************************************************)
EXTENDS EmbeddingWorker

CONSTANTS w1, w2, i1, i2, q1, bad

MCLaneOf == [j \in Jobs |-> IF j = q1 THEN "query" ELSE "index"]
\* A worker serves the lanes that the jobs of the instance come in.
MCServes == [w \in Workers |-> {MCLaneOf[j] : j \in Jobs}]
MCPrefetch == [l \in Lanes |-> 2]

=============================================================================
