---------------------------- MODULE MCQueryClient ----------------------------
(***************************************************************************)
(* A small instance of QueryClient.                                        *)
(***************************************************************************)
EXTENDS QueryClient

CONSTANTS c1, c2

=============================================================================
