--------------------------- MODULE EmbeddingWorker ---------------------------
(***************************************************************************)
(* Worker processes consuming the two request queues of the broker         *)
(* (mq/worker.py).  A message is acked only after the broker has confirmed *)
(* its reply; this module follows every message through delivery,          *)
(* buffering, batching, encoding and settling, with workers that stop,     *)
(* crash, restart and lose their connection on the way.                    *)
(*                                                                         *)
(* An action is the code between two suspension points, or the effect at   *)
(* the broker of a call that is awaited.  The batcher's choice of batches  *)
(* (MicroBatcher) is any non-empty set of buffered deliveries of a lane,   *)
(* the slot (PrioritySlot) is the lane that encodes.                       *)
(***************************************************************************)
EXTENDS Naturals, FiniteSets

CONSTANTS
  Workers, Jobs,
  LaneOf,           \* LaneOf[j]: the queue j is published to
  Serves,           \* Serves[w]: the lanes of w, `--lanes`
  Prefetch,         \* Prefetch[l]: unacked messages per consumer of l
  DeliveryLimit,    \* index_delivery_limit
  Malformed,        \* jobs parse_job() rejects
  NoReplyTo,        \* jobs sent without a reply_to
  WithDeadline,     \* jobs that carry a deadline
  Interruptions,    \* which of "stop", "crash", "disconnect", "startup" happen ...
  MaxInterruptions  \* ... and how often in all, a bound of the model

Lanes == {"query", "index"}

ASSUME WorkerAssumption ==
  /\ LaneOf \in [Jobs -> Lanes]
  /\ Serves \in [Workers -> SUBSET Lanes]
  /\ Prefetch \in [Lanes -> Nat \ {0}]
  /\ DeliveryLimit \in Nat \ {0}
  /\ Malformed \subseteq Jobs /\ NoReplyTo \subseteq Jobs /\ WithDeadline \subseteq Jobs
  /\ Interruptions \subseteq {"stop", "crash", "disconnect", "startup"}
  /\ MaxInterruptions \in Nat

VARIABLES
  \* the broker
  place,        \* where each job's message is
  returned,     \* how often an index message came back, x-acquired-count,
                \* up to DeliveryLimit: the code compares it with no more
  replies,      \* kinds of replies to the job that the broker has accepted
  \* the jobs
  expired,      \* jobs whose deadline has passed
  failures,     \* how often encoding an index job has failed (history), counted
                \* no further than MaxFailures
  \* the processes
  mode,         \* how far w's run() is
  consuming,    \* lanes of w with a consumer at the broker
  tagged,       \* lanes of w whose consumer it knows the tag of
  looping,      \* lanes of w with a running _lane_loop
  slot,         \* the lane of w inside _slot.acquire, or "free"
  epoch,        \* how often w's connection has been replaced
  interrupted,  \* how many interruptions there have been
  \* what the processes hold
  stage,        \* how far the handling of a delivery is
  batched       \* deliveries of a batch that some _process still answers for

broker == <<place, returned, replies>>
process == <<mode, consuming, tagged, looping, slot, epoch, interrupted>>
vars == <<broker, expired, failures, process, stage, batched>>

\* Bound of the history: one more than RetriesBounded ever allows.
MaxFailures == DeliveryLimit + MaxInterruptions + 1

\* A delivery: who got which message, on which of its connections.
Epochs == IF "disconnect" \in Interruptions THEN 0 .. MaxInterruptions ELSE {0}
Deliveries == Workers \X Jobs \X Epochs
Worker(d) == d[1]
Job(d) == d[2]
Lane(d) == LaneOf[Job(d)]

\* The channel the message came in on, where its tag means something, is open.
Fresh(d) == d[3] = epoch[Worker(d)]

Settled == {"acked", "dead", "discarded"}
Places == {"unsent", "queued", "unacked"} \cup Settled
Modes == {"down", "starting", "ready", "draining", "finishing", "flushing", "closing"}

\* The stage of a delivery.  "delivered": _on_message has not run yet.
\* "checking", "live": in a batch, before and after its expiry check.
\* A reply kind: that reply is being published.  "ack", "requeue", "reject":
\* that call is being sent.  "abandoned": its coroutine is gone.
ReplyKinds == {"ok", "internal_error", "validation_error", "expired"}
Verdicts == {"ack", "requeue", "reject"}
Stages == {"none", "delivered", "buffered", "checking", "live", "abandoned"}
            \cup ReplyKinds \cup Verdicts

Held(w) == {d \in Deliveries : Worker(d) = w /\ stage[d] # "none"}
Batch(w, l) == {d \in batched : Worker(d) = w /\ Lane(d) = l}
Buffer(w, l) == {d \in Held(w) : Lane(d) = l /\ stage[d] = "buffered"}
Unacked(w) == {Job(d) : d \in {e \in Held(w) : Fresh(e)}}

Move(d, s) == stage' = [stage EXCEPT ![d] = s]

-----------------------------------------------------------------------------
Init ==
  /\ place = [j \in Jobs |-> "unsent"]
  /\ returned = [j \in Jobs |-> 0]
  /\ replies = [j \in Jobs |-> {}]
  /\ expired = {}
  /\ failures = [j \in Jobs |-> 0]
  /\ mode = [w \in Workers |-> "down"]
  /\ consuming = [w \in Workers |-> {}]
  /\ tagged = [w \in Workers |-> {}]
  /\ looping = [w \in Workers |-> {}]
  /\ slot = [w \in Workers |-> "free"]
  /\ epoch = [w \in Workers |-> 0]
  /\ interrupted = 0
  /\ stage = [d \in Deliveries |-> "none"]
  /\ batched = {}

(* ---- the broker and the clock ---- *)

Submit(j) ==
  /\ place[j] = "unsent"
  /\ place' = [place EXCEPT ![j] = "queued"]
  /\ UNCHANGED <<returned, replies, expired, failures, process, stage, batched>>

DeadlinePasses(j) ==
  /\ j \in WithDeadline \ expired
  /\ place[j] \in {"queued", "unacked"}
  /\ expired' = expired \cup {j}
  /\ UNCHANGED <<broker, failures, process, stage, batched>>

\* x-message-ttl and the message's own expiration; the query queue has no DLX.
TtlExpires(j) ==
  /\ place[j] = "queued" /\ LaneOf[j] = "query"
  /\ place' = [place EXCEPT ![j] = "discarded"]
  /\ UNCHANGED <<returned, replies, expired, failures, process, stage, batched>>

Deliver(w, j) ==
  LET d == <<w, j, epoch[w]>> IN
  /\ place[j] = "queued" /\ LaneOf[j] \in consuming[w]
  /\ Cardinality({i \in Unacked(w) : LaneOf[i] = LaneOf[j]}) < Prefetch[LaneOf[j]]
  /\ place' = [place EXCEPT ![j] = "unacked"]
  /\ Move(d, "delivered")
  /\ UNCHANGED <<returned, replies, expired, failures, process, batched>>

\* The messages of S go back to their queues.  A quorum queue may dead-letter
\* one that has come back more than x-delivery-limit times; which returns it
\* counts differs between versions of the broker, so it is a free choice.
Return(S) ==
  LET index == {j \in S : LaneOf[j] = "index"} IN
  \E D \in SUBSET {j \in index : returned[j] = DeliveryLimit} :
    /\ place' = [j \in Jobs |-> IF j \in D THEN "dead" ELSE
                                IF j \in S THEN "queued" ELSE place[j]]
    /\ returned' = [j \in Jobs |-> IF j \in index /\ returned[j] < DeliveryLimit
                                     THEN returned[j] + 1 ELSE returned[j]]

\* Faulty variant of Rejected: the index queue has no dead-letter exchange either.
RejectedForGood(j) == "discarded"

\* nack(requeue=False): only the index queue has a dead-letter exchange.
Rejected(j) == IF LaneOf[j] = "index" THEN "dead" ELSE "discarded"

(* ---- _on_message, run by a task of its own for every delivery ---- *)

\* _settle() and _reply(): no reply_to, nothing to publish.
Answer(j, kind) == IF j \in NoReplyTo THEN "ack" ELSE kind

\* _expire(): the caller of a query has given up.
Expiry(j) == IF LaneOf[j] = "query" THEN "ack" ELSE Answer(j, "expired")

\* `_draining` is still FALSE: also while later lanes are being started.
Accepting(w) == mode[w] \in {"starting", "ready"}

TurnAway(d) ==
  /\ stage[d] = "delivered" /\ ~Accepting(Worker(d))
  /\ Move(d, "requeue")

Accept(d) ==
  /\ stage[d] = "delivered" /\ Accepting(Worker(d))
  /\ Move(d, IF Job(d) \in Malformed THEN Answer(Job(d), "validation_error")
             ELSE IF Job(d) \in expired THEN Expiry(Job(d))
             ELSE "buffered")

OnMessage(d) ==
  /\ TurnAway(d) \/ Accept(d)
  /\ UNCHANGED <<broker, expired, failures, process, batched>>

(* ---- _lane_loop and _process ---- *)

\* next_batch() returns, or _shutdown() processes what drain() popped.  One
\* batch per lane at a time; on shutdown one at a time in all.
TakeBatch(w, l) ==
  /\ \/ /\ l \in looping[w] /\ Batch(w, l) = {}
        /\ UNCHANGED mode
     \/ /\ mode[w] \in {"finishing", "flushing"}
        /\ \A k \in Lanes : Batch(w, k) = {}
        /\ mode' = [mode EXCEPT ![w] = "flushing"]
  /\ \E B \in SUBSET Buffer(w, l) \ {{}} :
       /\ batched' = batched \cup B
       /\ stage' = [d \in Deliveries |-> IF d \in B THEN "checking" ELSE stage[d]]
  /\ UNCHANGED <<broker, expired, failures, consuming, tagged, looping, slot, epoch, interrupted>>

\* The loop over batch.items: one expiry check after the other, and the settling
\* of an expired one is awaited.
CheckExpiry(d) ==
  /\ d \in batched /\ stage[d] = "checking"
  /\ \A c \in Batch(Worker(d), Lane(d)) : stage[c] \in {"checking", "live"}
  /\ Move(d, IF Job(d) \in expired THEN Expiry(Job(d)) ELSE "live")
  /\ UNCHANGED <<broker, expired, failures, process, batched>>

WantsSlot(w, l) == Batch(w, l) # {} /\ \A d \in Batch(w, l) : stage[d] = "live"

BeginEncode(w, l) ==
  /\ slot[w] = "free" /\ WantsSlot(w, l)
  /\ slot' = [slot EXCEPT ![w] = l]
  /\ UNCHANGED <<broker, expired, failures, mode, consuming, tagged, looping, epoch, interrupted,
                 stage, batched>>

\* Faulty variants of LastAttempt: the comparison off by one either way.
LastAttemptLate(j) == returned[j] + 1 > DeliveryLimit
LastAttemptEarly(j) == returned[j] + 2 >= DeliveryLimit

\* delivery_attempt(message) >= index_delivery_limit
LastAttempt(j) == returned[j] + 1 >= DeliveryLimit

\* Faulty variant of NextHolder: the slot is not released.
SlotKept(w, l) == l

\* PrioritySlot._release(): to the other lane if its batch waits for the slot.
NextHolder(w, l) ==
  IF \E k \in Lanes \ {l} : WantsSlot(w, k)
    THEN CHOOSE k \in Lanes \ {l} : WantsSlot(w, k)
    ELSE "free"

\* The encode ends: encode_jobs_isolating_failures() reports F as failed, the
\* slot is released and gather() starts _finish() for every job.
EndEncode(w, l) ==
  /\ slot[w] = l /\ WantsSlot(w, l)
  /\ slot' = [slot EXCEPT ![w] = NextHolder(w, l)]
  /\ \E F \in SUBSET Batch(w, l) :
       /\ stage' = [d \in Deliveries |->
            CASE d \notin Batch(w, l) -> stage[d]
              [] d \in Batch(w, l) \ F -> Answer(Job(d), "ok")
              [] d \in F /\ l = "query" -> Answer(Job(d), "internal_error")
              [] d \in F /\ l = "index" -> IF LastAttempt(Job(d)) THEN "reject" ELSE "requeue"]
       /\ failures' = [j \in Jobs |-> IF /\ l = "index" /\ j \in {Job(d) : d \in F}
                                        /\ failures[j] < MaxFailures
                                        THEN failures[j] + 1 ELSE failures[j]]
  /\ UNCHANGED <<broker, expired, mode, consuming, tagged, looping, epoch, interrupted, batched>>

(* ---- _settle ---- *)

\* The broker accepts and confirms the reply.
Publish(d) ==
  /\ stage[d] \in ReplyKinds
  /\ replies' = [replies EXCEPT ![Job(d)] = @ \cup {stage[d]}]
  /\ Move(d, "ack")
  /\ UNCHANGED <<place, returned, expired, failures, process, batched>>

\* Faulty variant of Undelivered: the failure is swallowed.
UndeliveredSwallowed(d) == "ack"

\* _settle's `nack(requeue=retry)`: an index result is worth another attempt.
Undelivered(d) == IF Lane(d) = "index" /\ stage[d] = "ok" THEN "requeue" ELSE "reject"

\* publish() raises: unroutable, refused or the channel lost, in which case the
\* broker may have accepted the reply all the same.
PublishFails(d) ==
  /\ stage[d] \in ReplyKinds
  /\ \/ UNCHANGED replies
     \/ replies' = [replies EXCEPT ![Job(d)] = @ \cup {stage[d]}]
  /\ Move(d, Undelivered(d))
  /\ UNCHANGED <<place, returned, expired, failures, process, batched>>

\* ack() or nack() reaches the broker and the coroutine of d is done.
Settle(d) ==
  /\ stage[d] \in Verdicts /\ Fresh(d)
  /\ \/ /\ stage[d] = "requeue"
        /\ Return({Job(d)})
     \/ /\ stage[d] # "requeue"
        /\ place' = [place EXCEPT ![Job(d)] =
                       IF stage[d] = "ack" THEN "acked" ELSE Rejected(Job(d))]
        /\ UNCHANGED returned
  /\ Move(d, "none")
  /\ batched' = batched \ {d}
  /\ UNCHANGED <<replies, expired, failures, process>>

\* Faulty variant of Forgotten: the exception also cancels the _finish() of the
\* others, as a TaskGroup would.
ForgottenAll(d, mates) == mates \ {d}

\* Those of a batch that no _finish() has been started for.
Forgotten(d, mates) == {c \in mates \ {d} : stage[c] \in {"checking", "live"}}

\* Faulty variant of LoopsLeft: the lane loop catches the exception and goes on.
LoopsLeftCaught(w, d) == looping[w]

\* The exception leaves _process, and through the shield _lane_loop.
LoopsLeft(w, d) == IF d \in batched THEN looping[w] \ {Lane(d)} ELSE looping[w]

\* ack() or nack() on the channel of a connection that is gone raises.  Out of
\* _on_message it is only logged; in a batch nobody answers for the batch any
\* more, and each _finish() that runs goes on alone.
StaleSettle(d) ==
  LET w == Worker(d)
      mates == IF d \in batched THEN Batch(w, Lane(d)) ELSE {}
  IN
  /\ stage[d] \in Verdicts /\ ~Fresh(d)
  /\ stage' = [c \in Deliveries |-> IF c = d THEN "none"
                                    ELSE IF c \in Forgotten(d, mates) THEN "abandoned"
                                    ELSE stage[c]]
  /\ batched' = batched \ mates
  /\ looping' = [looping EXCEPT ![w] = LoopsLeft(w, d)]
  /\ mode' = [mode EXCEPT ![w] = IF d \in batched /\ @ = "flushing" THEN "closing" ELSE @]
  /\ UNCHANGED <<broker, expired, failures, consuming, tagged, slot, epoch, interrupted>>

(* ---- lifecycle ---- *)

Interrupt(kind) ==
  /\ kind \in Interruptions /\ interrupted < MaxInterruptions
  /\ interrupted' = interrupted + 1

\* stop(), and run() enters _shutdown(): `_draining = True`.
Stop(w) ==
  /\ mode[w] = "ready" /\ Interrupt("stop")
  /\ mode' = [mode EXCEPT ![w] = "draining"]
  /\ UNCHANGED <<broker, expired, failures, consuming, tagged, looping, slot, epoch,
                 stage, batched>>

\* A cancel that fails changes nothing: the consumer stays, and what it delivers
\* is turned away until the connection is closed.
CancelConsumer(w, l) ==
  /\ mode[w] = "draining" /\ l \in tagged[w]
  /\ consuming' = [consuming EXCEPT ![w] = @ \ {l}]
  /\ tagged' = [tagged EXCEPT ![w] = @ \ {l}]
  /\ UNCHANGED <<broker, expired, failures, mode, looping, slot, epoch, interrupted,
                 stage, batched>>

\* _process of w cancelled: its batches and its hold of the slot are dropped.
Abandon(w) ==
  /\ stage' = [d \in Deliveries |-> IF d \in batched /\ Worker(d) = w THEN "abandoned"
                                     ELSE stage[d]]
  /\ batched' = {d \in batched : Worker(d) # w}
  /\ slot' = [slot EXCEPT ![w] = "free"]

\* Faulty variant of KeepBatches: the loops await _process without the shield.
KeepBatchesUnshielded(w) == Abandon(w)

\* asyncio.shield: cancelling a loop leaves its batch running.
KeepBatches(w) == UNCHANGED <<stage, batched, slot>>

\* The cancel of each consumer has been tried; those still there have failed.
CancelLoops(w) ==
  /\ mode[w] = "draining"
  /\ looping' = [looping EXCEPT ![w] = {}]
  /\ mode' = [mode EXCEPT ![w] = "finishing"]
  /\ KeepBatches(w)
  /\ UNCHANGED <<broker, expired, failures, consuming, tagged, epoch, interrupted>>

WorkLeft(w) == \E l \in Lanes : Batch(w, l) # {} \/ Buffer(w, l) # {}

\* In flight finished and everything buffered processed within the grace period.
Drained(w) ==
  /\ mode[w] \in {"finishing", "flushing"} /\ ~WorkLeft(w)
  /\ mode' = [mode EXCEPT ![w] = "closing"]
  /\ UNCHANGED <<broker, expired, failures, consuming, tagged, looping, slot, epoch, interrupted,
                 stage, batched>>

\* The TimeoutError of asyncio.timeout(grace).
GraceOver(w) ==
  /\ mode[w] \in {"finishing", "flushing"} /\ WorkLeft(w)
  /\ mode' = [mode EXCEPT ![w] = "closing"]
  /\ Abandon(w)
  /\ UNCHANGED <<broker, expired, failures, consuming, tagged, looping, epoch, interrupted>>

\* The process ends and its connection with it: the broker takes back what the
\* process had not settled on that connection.
GoDown(w) ==
  /\ Return(Unacked(w))
  /\ mode' = [mode EXCEPT ![w] = "down"]
  /\ consuming' = [consuming EXCEPT ![w] = {}]
  /\ tagged' = [tagged EXCEPT ![w] = {}]
  /\ looping' = [looping EXCEPT ![w] = {}]
  /\ slot' = [slot EXCEPT ![w] = "free"]
  /\ stage' = [d \in Deliveries |-> IF Worker(d) = w THEN "none" ELSE stage[d]]
  /\ batched' = {d \in batched : Worker(d) # w}
  /\ UNCHANGED <<replies, expired, failures, epoch>>

Close(w) ==
  /\ mode[w] = "closing" /\ GoDown(w)
  /\ UNCHANGED interrupted

Crash(w) ==
  /\ mode[w] # "down" /\ Interrupt("crash") /\ GoDown(w)

\* run() in a new process, up to the lanes: the model, the connection and the
\* topology, nothing of which touches a message.
Start(w) ==
  /\ mode[w] = "down"
  /\ mode' = [mode EXCEPT ![w] = "starting"]
  /\ UNCHANGED <<broker, expired, failures, consuming, tagged, looping, slot, epoch, interrupted,
                 stage, batched>>

\* _start_lane(): the broker has the consumer and may deliver at once; consume()
\* has not returned yet.
Consume(w, l) ==
  /\ mode[w] = "starting" /\ consuming[w] = tagged[w] /\ l \in Serves[w] \ tagged[w]
  /\ consuming' = [consuming EXCEPT ![w] = @ \cup {l}]
  /\ UNCHANGED <<broker, expired, failures, mode, tagged, looping, slot, epoch, interrupted,
                 stage, batched>>

\* consume() returns: from here on l works while the other lanes are being started.
StartLoop(w, l) ==
  /\ mode[w] = "starting" /\ l \in consuming[w] \ tagged[w]
  /\ tagged' = [tagged EXCEPT ![w] = @ \cup {l}]
  /\ looping' = [looping EXCEPT ![w] = @ \cup {l}]
  /\ UNCHANGED <<broker, expired, failures, mode, consuming, slot, epoch, interrupted,
                 stage, batched>>

\* `_ready.set()`; a stop() that came before takes effect now, as Stop.
Ready(w) ==
  /\ mode[w] = "starting" /\ tagged[w] = Serves[w]
  /\ mode' = [mode EXCEPT ![w] = "ready"]
  /\ UNCHANGED <<broker, expired, failures, consuming, tagged, looping, slot, epoch, interrupted,
                 stage, batched>>

\* A declaration or a lane raises, or run() is cancelled: `finally: _shutdown()`,
\* with the lanes that have been started already at work.  A consume() under way
\* leaves a consumer without a tag, which nobody cancels.
StartFails(w) ==
  /\ mode[w] = "starting" /\ Interrupt("startup")
  /\ mode' = [mode EXCEPT ![w] = "draining"]
  /\ UNCHANGED <<broker, expired, failures, consuming, tagged, looping, slot, epoch,
                 stage, batched>>

\* The connection drops and connect_robust restores it, with the consumers that
\* have a tag.  The process goes on with deliveries of the old one; a consume()
\* under way raises, so that StartFails comes first.
Disconnect(w) ==
  /\ mode[w] # "down" /\ Interrupt("disconnect")
  /\ mode[w] = "starting" => consuming[w] = tagged[w]
  /\ Return(Unacked(w))
  /\ epoch' = [epoch EXCEPT ![w] = @ + 1]
  /\ consuming' = [consuming EXCEPT ![w] = tagged[w]]
  /\ UNCHANGED <<replies, expired, failures, mode, tagged, looping, slot, stage, batched>>

-----------------------------------------------------------------------------
DeliveryStep(d) == OnMessage(d) \/ CheckExpiry(d) \/ Settle(d) \/ StaleSettle(d)

LaneStep(w, l) == TakeBatch(w, l) \/ BeginEncode(w, l) \/ EndEncode(w, l)

ShutdownStep(w) == \/ \E l \in Lanes : CancelConsumer(w, l)
                   \/ CancelLoops(w) \/ Drained(w) \/ Close(w)

StartStep(w) == Start(w) \/ (\E l \in Lanes : Consume(w, l) \/ StartLoop(w, l)) \/ Ready(w)

Next == \/ \E j \in Jobs : Submit(j) \/ DeadlinePasses(j) \/ TtlExpires(j)
        \/ \E d \in Deliveries : DeliveryStep(d) \/ Publish(d) \/ PublishFails(d)
        \/ \E w \in Workers :
             \/ \E j \in Jobs : Deliver(w, j)
             \/ \E l \in Lanes : LaneStep(w, l)
             \/ Stop(w) \/ ShutdownStep(w) \/ GraceOver(w)
             \/ Crash(w) \/ StartStep(w) \/ StartFails(w) \/ Disconnect(w)

Spec == Init /\ [][Next]_vars

\* The event loop runs what is due, an encode ends, the broker delivers while
\* there is room and answers calls, and a process that ended is started again.
\* Replies fail now and then but not for ever.
Fairness ==
  /\ \A d \in Deliveries : WF_vars(DeliveryStep(d)) /\ SF_vars(Publish(d))
  /\ \A w \in Workers :
       /\ \A j \in Jobs : WF_vars(Deliver(w, j))
       /\ \A l \in Lanes : WF_vars(LaneStep(w, l))
       /\ WF_vars(ShutdownStep(w)) /\ WF_vars(StartStep(w))

FairSpec == Spec /\ Fairness

-----------------------------------------------------------------------------
TypeOK ==
  /\ place \in [Jobs -> Places]
  /\ returned \in [Jobs -> 0 .. DeliveryLimit]
  /\ replies \in [Jobs -> SUBSET ReplyKinds]
  /\ expired \subseteq WithDeadline
  /\ failures \in [Jobs -> 0 .. MaxFailures]
  /\ mode \in [Workers -> Modes]
  /\ consuming \in [Workers -> SUBSET Lanes]
  /\ tagged \in [Workers -> SUBSET Lanes]
  /\ looping \in [Workers -> SUBSET Lanes]
  /\ slot \in [Workers -> Lanes \cup {"free"}]
  /\ epoch \in [Workers -> Nat]
  /\ interrupted \in 0 .. MaxInterruptions
  /\ stage \in [Deliveries -> Stages]
  /\ batched \subseteq Deliveries

\* A message is acked only when the broker has accepted a reply to it, except
\* where the code says that nobody waits for one: it names no reply queue, or it
\* is a query past its deadline.  Holds through crashes between any two steps.
AckedMeansAnswered ==
  \A j \in Jobs : place[j] = "acked" =>
    \/ replies[j] # {} \/ j \in NoReplyTo
    \/ LaneOf[j] = "query" /\ j \in expired

\* A coroutine has d in its hands and will settle it: a task of _on_message or a
\* _finish(), the lane loop that will pop it, or the _process of its batch.
InHand(d) == \/ stage[d] \in {"delivered", "buffered"} \cup ReplyKinds \cup Verdicts
             \/ stage[d] \in {"checking", "live"} /\ d \in batched

\* What the broker counts as unacked, and against the prefetch, is in the hands of
\* a coroutine as long as the loop of its lane runs: a loop never lives on after
\* losing part of a batch, whose messages would stay unacked for good.  Holds
\* through lost connections, whose stale deliveries are batched with new ones.
UnackedInHand ==
  \A j \in Jobs : place[j] = "unacked" =>
    \E d \in Deliveries :
      /\ Job(d) = j /\ Fresh(d)
      /\ Lane(d) \in looping[Worker(d)] => InHand(d)

\* gather(): settling one delivery, also when it raises, costs no other one the
\* answer that was decided for it; only the end of the grace period or of the
\* process does.
DecidedSurvives ==
  [][\A c, d \in Deliveries :
       /\ stage[c] \in Verdicts /\ stage'[c] = "none"
       /\ stage[d] \in ReplyKinds \cup Verdicts
       => stage'[d] # "abandoned"]_vars

\* An index job is never discarded, and it ends in the dead-letter queue only on
\* its last delivery, having come back DeliveryLimit - 1 times, or because an error
\* reply to a job that no retry can help could not be delivered.  It comes back
\* when an encode fails, and also undelivered, turned away or with a connection:
\* INDEX_DELIVERY_LIMIT, "total attempts", counts deliveries.
IndexKept ==
  \A j \in Jobs : LaneOf[j] = "index" =>
    /\ place[j] # "discarded"
    /\ place[j] = "dead" =>
         returned[j] + 1 >= DeliveryLimit \/ j \in Malformed \/ j \in expired

\* INDEX_DELIVERY_LIMIT bounds the encodes of a job that fail: a poison job fails
\* that often, and once more for every interruption that came before its last
\* nack.  An encode whose reply is not delivered is no failure, and comes back.
RetriesBounded == \A j \in Jobs : failures[j] <= DeliveryLimit + interrupted

\* As long as its connection lasts, and until the grace period is over, whatever
\* a process has taken is in the hands of a coroutine: a buffered delivery has a
\* lane loop, the rest of _start_lane() or the final drain ahead of it, one in the
\* middle of a batch has its _process, and stopping the loops orphans neither.
\* (On a second connection stale deliveries can end a loop: ConsumesUntilStopped.)
NothingAbandoned ==
  \A d \in Deliveries :
    LET w == Worker(d)
        looped == Lane(d) \in looping[w] \/ mode[w] \in {"finishing", "flushing"}
        toCome == \/ mode[w] = "starting" /\ Lane(d) \in consuming[w] \ tagged[w]
                  \/ mode[w] = "draining"
    IN  epoch[w] = 0 /\ mode[w] # "closing" =>
          /\ stage[d] # "abandoned"
          /\ stage[d] = "buffered" => looped \/ toCome
          /\ stage[d] \in {"checking", "live"} => d \in batched
          /\ d \in batched => looped

\* The workers keep the promises of JobDelivery: a job stays open through every
\* crash, stop and reconnection, whatever is encoded and answered twice, until
\* it is settled for good; and it is settled, whichever replies fail on the way.
Delivery == INSTANCE JobDelivery WITH
  Index <- {j \in Jobs : LaneOf[j] = "index"},
  state <- [j \in Jobs |-> IF place[j] \in {"queued", "unacked"} THEN "open" ELSE place[j]],
  answered <- {j \in Jobs : replies[j] # {}},
  late <- expired

ImplementsDelivery == Delivery!Spec

\* A worker that is told to stop does stop, whatever it holds at that time, and
\* without the help of the grace timer: Fairness does not ask for GraceOver.
StopCompletes == \A w \in Workers : mode[w] = "draining" ~> mode[w] = "down"

\* run() consumes until it is stopped: while a worker is ready, every lane it
\* serves has its loop.
ConsumesUntilStopped == \A w \in Workers : mode[w] = "ready" => looping[w] = Serves[w]

=============================================================================
