--------------------------- MODULE MCIndexPipeline ---------------------------
(***************************************************************************)
(* A client, a worker of the same settings and one that is deployed with   *)
(* another time to live of queries.                                        *)
(***************************************************************************)
EXTENDS IndexPipeline

CONSTANTS app, w1, w2, j1, j2

MCSettingsOf ==
  [p \in Processes |-> [query |-> IF p = w2 THEN "ttl 10s" ELSE "ttl 5s", index |-> "limit 5"]]

=============================================================================
