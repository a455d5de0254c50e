--------------------------- MODULE MCMicroBatcher ---------------------------
(***************************************************************************)
(* Small instances of MicroBatcher: items of key `a` of one, two and three *)
(* texts, the last beyond MaxTexts, and one item of key `b`.               *)
(***************************************************************************)
EXTENDS MicroBatcher

CONSTANTS a, b, a1, a2, a3, b1

MCKeyOf == [i \in Items |-> IF i = b1 THEN b ELSE a]
MCSizeOf == [i \in Items |-> CASE i = a2 -> 2 [] i = a3 -> 3 [] OTHER -> 1]

=============================================================================
