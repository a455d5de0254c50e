---------------------------- MODULE MCJobHandler -----------------------------
(***************************************************************************)
(* Batches of up to three plain messages, and of a plain one and one that  *)
(* is unusual in any number of ways, before or after it.                   *)
(***************************************************************************)
EXTENDS JobHandler

CONSTANTS a, b, bad, blank, junk, query, passage, other

NoIds == [p \in Properties |-> "unset"]
BothIds == [p \in Properties |-> "valid"]
AllIds == [Properties -> {"unset", "valid", "long"}]

Plain ==
  [body : {"object"}, id : {"valid"}, metadata : {"small"}, props : {BothIds},
   reply_to : {TRUE}, deadline : {FALSE}, last : {FALSE},
   input : {<<a>>, <<b>>, <<a, b>>, <<bad>>, <<b, bad>>}, key : {query, passage}]

OddBodies ==
  [body : {"text", "value"}, id : {"absent"}, metadata : {"none"}, props : AllIds,
   reply_to : BOOLEAN, deadline : {FALSE}, last : {FALSE}, input : {<<a>>}, key : {query}]

OddIds ==
  [body : {"object"}, id : {"absent", "empty", "valid", "invalid"}, metadata : {"small", "large"},
   props : AllIds, reply_to : {TRUE}, deadline : {FALSE}, last : {FALSE},
   input : {<<bad>>}, key : {query}]

OddInputs ==
  [body : {"object"}, id : {"absent"}, metadata : Metadata, props : {NoIds},
   reply_to : {TRUE}, deadline : {FALSE}, last : {FALSE},
   input : {a, blank, junk, <<>>, <<b, a>>, <<a, blank>>, <<a, b, a>>}, key : {query, other}]

OddDeliveries ==
  [body : {"object"}, id : {"valid"}, metadata : {"small"}, props : {NoIds},
   reply_to : BOOLEAN, deadline : BOOLEAN, last : BOOLEAN, input : {<<b, a>>, <<bad>>}, key : {query}]

Odd == OddBodies \cup OddIds \cup OddInputs \cup OddDeliveries

MCBatches == UNION {[1..n -> Plain] : n \in 0..3}
               \cup UNION {{<<m>>, <<m, p>>, <<p, m>>} : m \in Odd, p \in Plain}

=============================================================================
