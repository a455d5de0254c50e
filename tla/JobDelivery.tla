----------------------------- MODULE JobDelivery -----------------------------
(***************************************************************************)
(* What the message queue promises a producer, whatever the workers do     *)
(* ("Delivery is at-least-once"): a job that has been submitted stays open *)
(* until it is acked, discarded or dead-lettered, once and for all; it is  *)
(* acked only after an answer, or when nobody waits for one; an index job  *)
(* is never discarded, a query never dead-lettered; none stays open for    *)
(* ever.  EmbeddingWorker implements this.                                 *)
(***************************************************************************)
CONSTANTS
  Jobs,
  Index,      \* the jobs of the index lane, the others are queries
  NoReplyTo   \* jobs whose producer does not ask for a reply

VARIABLES
  state,      \* what has become of each job
  answered,   \* jobs that have been answered, at least once
  late        \* jobs whose deadline has passed

vars == <<state, answered, late>>

Final == {"acked", "dead", "discarded"}

Init == state = [j \in Jobs |-> "unsent"] /\ answered = {} /\ late = {}

Submit(j) ==
  /\ state[j] = "unsent"
  /\ state' = [state EXCEPT ![j] = "open"]
  /\ UNCHANGED <<answered, late>>

DeadlinePasses(j) ==
  /\ state[j] # "unsent"
  /\ late' = late \cup {j}
  /\ UNCHANGED <<state, answered>>

\* A second answer may come at any time, even after the job is settled.
Answer(j) ==
  /\ state[j] # "unsent"
  /\ answered' = answered \cup {j}
  /\ UNCHANGED <<state, late>>

Ack(j) ==
  /\ state[j] = "open"
  /\ j \in answered \/ j \in NoReplyTo \/ (j \in late /\ j \notin Index)
  /\ state' = [state EXCEPT ![j] = "acked"]
  /\ UNCHANGED <<answered, late>>

Discard(j) ==
  /\ state[j] = "open" /\ j \notin Index
  /\ state' = [state EXCEPT ![j] = "discarded"]
  /\ UNCHANGED <<answered, late>>

\* Several at once, when a connection is lost.
DeadLetter(S) ==
  /\ \A j \in S : state[j] = "open"
  /\ state' = [j \in Jobs |-> IF j \in S THEN "dead" ELSE state[j]]
  /\ UNCHANGED <<answered, late>>

Next == \/ \E j \in Jobs : Submit(j) \/ DeadlinePasses(j) \/ Answer(j) \/ Ack(j) \/ Discard(j)
        \/ \E S \in SUBSET Index : DeadLetter(S)

Safety == Init /\ [][Next]_vars

Spec == Safety /\ \A j \in Jobs : state[j] = "open" ~> state[j] \in Final
=============================================================================
