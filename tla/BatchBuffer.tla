---------------------------- MODULE BatchBuffer ----------------------------
(***************************************************************************)
(* What the batcher promises the lane loop, clock and wake-ups aside: a    *)
(* line of items for each key; a batch is taken off the front of one line, *)
(* so nothing is lost, doubled or overtaken by a later item of its key;    *)
(* it holds at most MaxTexts texts, or is one item that is larger by       *)
(* itself; and a second one is taken only when the first is done with.     *)
(* MicroBatcher implements this.                                           *)
(***************************************************************************)
EXTENDS Naturals, Sequences, SequencesExt

CONSTANTS Items, Keys, KeyOf, SizeOf, MaxTexts

VARIABLES
  line,   \* line[k]: the items of key k that wait, first come first
  out     \* the batch that is out, or <<>>

vars == <<line, out>>

Texts(s) ==
  LET sum[n \in 0 .. Len(s)] == IF n = 0 THEN 0 ELSE sum[n - 1] + SizeOf[s[n]]
  IN sum[Len(s)]

Init == line = [k \in Keys |-> <<>>] /\ out = <<>>

Add(i) ==
  /\ \A k \in Keys : i \notin ToSet(line[k])
  /\ i \notin ToSet(out)
  /\ line' = [line EXCEPT ![KeyOf[i]] = Append(@, i)]
  /\ UNCHANGED out

Take(k) ==
  /\ out = <<>>
  /\ \E n \in 1 .. Len(line[k]) :
       /\ out' = SubSeq(line[k], 1, n)
       /\ line' = [line EXCEPT ![k] = SubSeq(@, n + 1, Len(@))]
  /\ Len(out') = 1 \/ Texts(out') <= MaxTexts

Done == out # <<>> /\ out' = <<>> /\ UNCHANGED line

Next == (\E i \in Items : Add(i)) \/ (\E k \in Keys : Take(k)) \/ Done

Spec == Init /\ [][Next]_vars
=============================================================================
