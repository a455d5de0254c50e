------------------------- MODULE MCEmbeddingService -------------------------
(***************************************************************************)
(* Small instances of EmbeddingService: the app's lifespan and a script's  *)
(* thread load the model, three requests encode.                           *)
(***************************************************************************)
EXTENDS EmbeddingService

CONSTANTS app, script, r1, r2, r3

=============================================================================
