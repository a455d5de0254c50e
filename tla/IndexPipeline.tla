--------------------------- MODULE IndexPipeline ----------------------------
(***************************************************************************)
(* The way of index jobs through the whole system, from submit_index() to  *)
(* the handler that consume_results() feeds (mq/client.py), over the       *)
(* broker objects of Topology.  What the workers do in between is          *)
(* EmbeddingWorker's; here a worker holds a job, and then its result has   *)
(* been stored, or the job comes back, or is dead-lettered.                *)
(*                                                                         *)
(* One client process submits and consumes.  An action is the code between *)
(* two suspension points or the effect at the broker of an awaited call.   *)
(***************************************************************************)
EXTENDS Topology, FiniteSets

CONSTANTS
  Client,      \* the process that runs an EmbeddingClient
  Jobs,
  Garbled,     \* jobs whose results the client cannot validate
  Prefetch,    \* unacked results of a subscription
  MaxCopies,   \* bound: results stored for one job
  MaxMishaps   \* bound: deaths of processes, failed calls to the broker, repeated attempts

Workers == Processes \ {Client}
Nobody == "nobody"

ASSUME PipelineAssumption ==
  /\ Client \in Processes /\ Nobody \notin Processes /\ Garbled \subseteq Jobs
  /\ {Prefetch, MaxCopies} \subseteq Nat \ {0} /\ MaxMishaps \in Nat

VARIABLES
  call,          \* where each call of submit_index is
  known,         \* the results queue is in _declared_results
  resultsQueue,  \* it exists
  announced,     \* jobs that were copied to the events exchange
  place,         \* where the message of each job is
  holder,        \* the worker that holds it
  copy,          \* what has become of each result stored
  handled,       \* jobs a result of which has gone through the handler (history)
  subscription,  \* "off", "declared", "on" or "cancelled"
  mishaps

submitting == <<call, known, resultsQueue, announced>>
working == <<place, holder>>
consuming == <<copy, handled, subscription>>
vars == <<topology, submitting, working, consuming, mishaps>>

Copies == Jobs \X (1 .. MaxCopies)
InHand == {"delivered", "done", "raised", "invalid"}
Taken == {c \in Copies : copy[c] \in InHand}

Mishap == mishaps < MaxMishaps /\ mishaps' = mishaps + 1

-----------------------------------------------------------------------------
Init ==
  /\ TopologyInit
  /\ call = [j \in Jobs |-> "idle"]
  /\ known = FALSE /\ resultsQueue = FALSE
  /\ announced = {}
  /\ place = [j \in Jobs |-> "unsent"] /\ holder = [j \in Jobs |-> Nobody]
  /\ copy = [c \in Copies |-> "none"]
  /\ handled = {}
  /\ subscription = "off"
  /\ mishaps = 0

(* ---- submit_index ---- *)

\* Faulty variant of Cached: the name is remembered before the queue is declared.
CachedEarly == TRUE

\* `self._declared_results` when a call has to declare the queue first.
Cached == known

Submit(j) ==
  /\ call[j] = "idle" /\ Ready(Client)
  /\ call' = [call EXCEPT ![j] = IF known THEN "publishing" ELSE "declaring"]
  /\ known' = Cached
  /\ UNCHANGED <<topology, resultsQueue, announced, working, consuming, mishaps>>

\* declare_results_queue(): the broker has it, and then the client remembers.
\* Refused for other arguments, or the answer lost, it raises out of the call.
DeclareResults(j) ==
  /\ call[j] = "declaring"
  /\ \/ /\ resultsQueue' = TRUE /\ known' = TRUE
        /\ call' = [call EXCEPT ![j] = "publishing"]
        /\ UNCHANGED mishaps
     \/ /\ resultsQueue' \in {resultsQueue, TRUE} /\ UNCHANGED known
        /\ call' = [call EXCEPT ![j] = "raised"]
        /\ Mishap
  /\ UNCHANGED <<topology, announced, working, consuming>>

\* The broker routes the request; the confirm comes, or it is lost on the way
\* and the call raises.  Without a binding the message is returned: it raises.
Publish(j) ==
  /\ call[j] = "publishing"
  /\ IF Exists("requests->index")
       THEN /\ place' = [place EXCEPT ![j] = "queued"]
            /\ announced' = IF Exists("requests->events") THEN announced \cup {j} ELSE announced
            /\ \/ call' = [call EXCEPT ![j] = "returned"] /\ UNCHANGED mishaps
               \/ call' = [call EXCEPT ![j] = "raised"] /\ Mishap
       ELSE /\ call' = [call EXCEPT ![j] = "raised"]
            /\ UNCHANGED <<place, announced, mishaps>>
  /\ UNCHANGED <<topology, known, resultsQueue, holder, consuming>>

(* ---- the workers ---- *)

Take(w, j) ==
  /\ Ready(w) /\ place[j] = "queued"
  /\ place' = [place EXCEPT ![j] = "held"]
  /\ holder' = [holder EXCEPT ![j] = w]
  /\ UNCHANGED <<topology, submitting, consuming, mishaps>>

Leaves(j, where) ==
  /\ place' = [place EXCEPT ![j] = where]
  /\ holder' = [holder EXCEPT ![j] = Nobody]

\* The result is published as mandatory: stored, or returned for want of such a
\* queue, and the job is requeued.  MaxCopies stands for no end of copies.
PublishResult(w, j) ==
  /\ holder[j] = w /\ place[j] = "held"
  /\ IF resultsQueue
       THEN /\ \E n \in 1 .. MaxCopies :
                 /\ copy[<<j, n>>] = "none" /\ (n > 1 => copy[<<j, n - 1>>] # "none")
                 /\ copy' = [copy EXCEPT ![<<j, n>>] = "queued"]
            /\ place' = [place EXCEPT ![j] = "stored"]
            /\ UNCHANGED holder
       ELSE /\ Leaves(j, "queued")
            /\ UNCHANGED copy
  /\ UNCHANGED <<topology, submitting, handled, subscription, mishaps>>

AckJob(w, j) ==
  /\ holder[j] = w /\ place[j] = "stored"
  /\ Leaves(j, "acked")
  /\ UNCHANGED <<topology, submitting, consuming, mishaps>>

\* The attempt fails, or the publish of the result does: requeued or, at the
\* limit, rejected.  Without its binding the dead-letter exchange drops it.
AttemptFails(w, j) ==
  /\ holder[j] = w
  /\ \/ Leaves(j, "queued") /\ Mishap
     \/ Leaves(j, IF Exists("dlx->dead") THEN "dead" ELSE "dropped") /\ UNCHANGED mishaps
  /\ UNCHANGED <<topology, submitting, consuming>>

WorkerDies(w) ==
  /\ StartOver(w) /\ Mishap
  /\ place' = [j \in Jobs |-> IF holder[j] = w THEN "queued" ELSE place[j]]
  /\ holder' = [j \in Jobs |-> IF holder[j] = w THEN Nobody ELSE holder[j]]
  /\ UNCHANGED <<submitting, consuming>>

(* ---- consume_results ---- *)

\* A channel of its own, the prefetch, and the queue; or its declaration raises.
Subscribe ==
  /\ subscription = "off" /\ Ready(Client)
  /\ \/ /\ subscription' = "declared"
        /\ resultsQueue' = TRUE /\ known' = TRUE
        /\ UNCHANGED mishaps
     \/ /\ resultsQueue' \in {resultsQueue, TRUE} /\ UNCHANGED <<subscription, known>>
        /\ Mishap
  /\ UNCHANGED <<topology, call, announced, working, copy, handled>>

Consume ==
  /\ subscription = "declared"
  /\ subscription' = "on"
  /\ UNCHANGED <<topology, submitting, working, copy, handled, mishaps>>

Becomes(c, s) ==
  /\ copy' = [copy EXCEPT ![c] = s]
  /\ UNCHANGED <<topology, submitting, working, subscription, mishaps>>

DeliverResult(c) ==
  /\ subscription = "on" /\ copy[c] = "queued" /\ Cardinality(Taken) < Prefetch
  /\ Becomes(c, IF c[1] \in Garbled THEN "invalid" ELSE "delivered")
  /\ UNCHANGED handled

HandlerReturns(c) ==
  /\ copy[c] = "delivered"
  /\ Becomes(c, "done")
  /\ handled' = handled \cup {c[1]}

HandlerRaises(c) ==
  /\ copy[c] = "delivered"
  /\ Becomes(c, "raised")
  /\ UNCHANGED handled

\* Faulty variants of Settled: a failed result is not requeued, or its handler's
\* exception leaves the callback and nothing is said to the broker.
SettledDropping(s) == IF s = "done" THEN "acked" ELSE "rejected"
SettledNever(s) == CASE s = "done" -> "acked" [] s = "raised" -> "raised" [] s = "invalid" -> "rejected"

\* on_message()'s ack, nack(requeue=True) or reject(requeue=False).
Settled(s) == CASE s = "done" -> "acked" [] s = "raised" -> "queued" [] s = "invalid" -> "rejected"

SettleResult(c) ==
  /\ copy[c] \in {"done", "raised", "invalid"}
  /\ Becomes(c, Settled(copy[c]))
  /\ UNCHANGED handled

\* ResultsSubscription.cancel(): no more deliveries, then the channel is closed.
CancelConsumer ==
  /\ subscription = "on"
  /\ subscription' = "cancelled"
  /\ UNCHANGED <<topology, submitting, working, copy, handled, mishaps>>

\* A channel closes: the broker takes back what was not settled on it, and the
\* handlers that still run are in vain.
Recovered == [c \in Copies |-> IF copy[c] \in InHand THEN "queued" ELSE copy[c]]

CloseChannel ==
  /\ subscription = "cancelled"
  /\ subscription' = "off"
  /\ copy' = Recovered
  /\ UNCHANGED <<topology, submitting, working, handled, mishaps>>

\* The client dies or is closed: calls that have not returned never do.  A new
\* one knows no queue, the same one after another connect() those it declared.
ClientDies ==
  /\ StartOver(Client) /\ Mishap
  /\ call' = [j \in Jobs |-> IF call[j] \in {"declaring", "publishing"} THEN "raised" ELSE call[j]]
  /\ known' \in {FALSE, known}
  /\ copy' = Recovered
  /\ subscription' = "off"
  /\ UNCHANGED <<resultsQueue, announced, working, handled>>

-----------------------------------------------------------------------------
Starting(p) == /\ Declare(p) \/ Refused(p)
               /\ UNCHANGED <<submitting, working, consuming, mishaps>>

CallStep(j) == DeclareResults(j) \/ Publish(j)
WorkStep(w, j) == Take(w, j) \/ PublishResult(w, j) \/ AckJob(w, j)
ConsumerStep == Subscribe \/ Consume \/ CloseChannel
ResultStep(c) == DeliverResult(c) \/ SettleResult(c)

Next == \/ \E p \in Processes : Starting(p)
        \/ \E j \in Jobs : Submit(j) \/ CallStep(j)
        \/ \E w \in Workers :
             WorkerDies(w) \/ \E j \in Jobs : WorkStep(w, j) \/ AttemptFails(w, j)
        \/ ConsumerStep \/ CancelConsumer \/ ClientDies
        \/ \E c \in Copies : ResultStep(c) \/ HandlerReturns(c) \/ HandlerRaises(c)

Spec == Init /\ [][Next]_vars

\* Processes start and work; the application consumes its results, the queue lets
\* none of them wait for ever, and the handler, however often it raises, does
\* return for one that is delivered over and over.
Fairness ==
  /\ WF_vars(\E p \in Processes : Starting(p))
  /\ \A j \in Jobs :
       /\ WF_vars(\E w \in Workers : WorkStep(w, j))
       /\ SF_vars(\E n \in 1 .. MaxCopies : DeliverResult(<<j, n>>))
       /\ SF_vars(\E n \in 1 .. MaxCopies : HandlerReturns(<<j, n>>))
  /\ WF_vars(\E c \in Copies : SettleResult(c))
  /\ WF_vars(ConsumerStep)

FairSpec == Spec /\ Fairness

-----------------------------------------------------------------------------
Sent == {j \in Jobs : place[j] # "unsent"}

\* "Workers publish index results as mandatory, so a missing queue would bounce
\* every result back": no request gets ahead of the declaration of its results
\* queue, also when two calls share the client's memory of it, or it died.
ResultsQueueFirst == Sent # {} => resultsQueue

\* A job that was taken is somewhere, whichever process dies when: before its
\* ack in the hands of the queue or dead-lettered, after it in a result that
\* waits for the handler, or has gone through it, or could not be read.
NoResultLost ==
  \A j \in Jobs :
    /\ call[j] = "returned" => j \in Sent
    /\ place[j] # "dropped"
    /\ place[j] = "acked" =>
         \/ j \in handled \/ j \in Garbled
         \/ \E n \in 1 .. MaxCopies : copy[<<j, n>>] \in {"queued"} \cup InHand

\* "Every index request is also copied into the events exchange", while other
\* processes are still declaring things, too.
Announced == Sent \subseteq announced

\* Every job that was accepted gets to the handler or the dead-letter queue.
HandledInTheEnd ==
  \A j \in Jobs \ Garbled : call[j] = "returned" ~> j \in handled \/ place[j] = "dead"

=============================================================================
