----------------------------- MODULE QueryClient -----------------------------
(***************************************************************************)
(* The query side of the client (mq/client.py, EmbeddingClient): calls of  *)
(* embed_query on one connection, each with a job of its own, the replies  *)
(* that come back on the direct reply-to address, and close().  Queue and  *)
(* workers are seen from the client: a request is accepted or refused, and *)
(* an accepted one is answered any number of times, early or late, or not  *)
(* at all.                                                                 *)
(***************************************************************************)
EXTENDS Naturals, FiniteSets

CONSTANTS
  Calls,     \* the calls of embed_query
  MaxLength  \* query_max_length, the capacity of the query queue

ASSUME ClientAssumption == MaxLength \in Nat \ {0}

VARIABLES
  pc,        \* where each call is; in the end what it returns or raises
  pending,   \* the calls in _pending
  future,    \* the future of each call
  timeUp,    \* calls whose wait_for() has run out of time
  connection,\* "open", "closing" while close() awaits its end, or "closed"
  verdict,   \* what became of the publish of each call
  queued,    \* calls whose job is in the query queue
  accepted,  \* calls whose job ever was in it (history)
  replies,   \* <<c, kind>>: a worker has sent this reply to c
  seen       \* calls that had a reply handled while they ran (history)

client == <<pc, pending, future, timeUp, connection>>
broker == <<queued, accepted, replies>>
vars == <<client, verdict, broker, seen>>

Kinds == {"ok", "error"}
Running == {"publishing", "waiting"}
Ends == {"result", "job failed", "timeout", "overloaded", "unroutable", "client closed",
         "broken", "cancelled"}
Verdicts == {"none", "confirmed", "refused", "returned", "lost"}

Active(c) == pc[c] \in Running

-----------------------------------------------------------------------------
Init ==
  /\ pc = [c \in Calls |-> "start"]
  /\ pending = {}
  /\ future = [c \in Calls |-> "pending"]
  /\ timeUp = {}
  /\ connection = "open"
  /\ verdict = [c \in Calls |-> "none"]
  /\ queued = {} /\ accepted = {} /\ replies = {}
  /\ seen = {}

(* ---- the broker and the workers ---- *)

\* A mandatory publish with confirms: stored; refused by reject-publish; or
\* returned because no queue is bound.  Until the confirm is handled the
\* connection may break, whatever became of the message.
BrokerTakes(c) ==
  /\ pc[c] # "start" /\ verdict[c] = "none" /\ connection # "closed"
  /\ \/ /\ Cardinality(queued) < MaxLength
        /\ queued' = queued \cup {c}
        /\ accepted' = accepted \cup {c}
        /\ \E v \in {"confirmed", "lost"} : verdict' = [verdict EXCEPT ![c] = v]
     \/ /\ Cardinality(queued) >= MaxLength
        /\ verdict' = [verdict EXCEPT ![c] = "refused"]
        /\ UNCHANGED <<queued, accepted>>
     \/ /\ verdict' = [verdict EXCEPT ![c] = "returned"]
        /\ UNCHANGED <<queued, accepted>>
  /\ UNCHANGED <<client, replies, seen>>

\* A worker takes the job, or its time to live ends.
Dequeue(c) ==
  /\ c \in queued
  /\ queued' = queued \ {c}
  /\ UNCHANGED <<client, verdict, accepted, replies, seen>>

\* A worker answers; a job that is delivered again is answered again.
WorkerReplies(c, kind) ==
  /\ c \in accepted \ queued
  /\ replies' = replies \cup {<<c, kind>>}
  /\ UNCHANGED <<client, verdict, queued, accepted, seen>>

(* ---- embed_query ---- *)

\* Faulty variant of Registered: the future is registered after the publish.
RegisteredLate(c) == pending

Registered(c) == pending \cup {c}

\* The future is registered and the publish begins; a closed channel raises.
Call(c) ==
  /\ pc[c] = "start"
  /\ pending' = Registered(c)
  /\ pc' = [pc EXCEPT ![c] = "publishing"]
  /\ verdict' = [verdict EXCEPT ![c] = IF connection = "closed" THEN "lost" ELSE "none"]
  /\ UNCHANGED <<future, timeUp, connection, broker, seen>>

\* Faulty variant of Raised: the errors of the broker are passed on.
RaisedRaw(v) == v

\* Faulty variant of Raised: every failed publish counts as a full queue.
RaisedOverloaded(v) == "overloaded"

\* What _publish() raises.
Raised(v) == CASE v = "refused" -> "overloaded"
               [] v = "returned" -> "unroutable"
               [] v = "lost" -> "broken"

\* Faulty variant of Popped: only a call that got its reply is taken out.
PoppedOnSuccess(c, end) == IF end = "result" THEN pending \ {c} ELSE pending

\* finally: self._pending.pop(job_id, None)
Popped(c, end) == pending \ {c}

End(c, end) ==
  /\ pc' = [pc EXCEPT ![c] = end]
  /\ pending' = Popped(c, end)

\* publish() returns or raises; then wait_for() starts with the full timeout.
Published(c) ==
  /\ pc[c] = "publishing" /\ verdict[c] # "none"
  /\ IF verdict[c] = "confirmed"
       THEN pc' = [pc EXCEPT ![c] = "waiting"] /\ UNCHANGED pending
       ELSE End(c, Raised(verdict[c]))
  /\ UNCHANGED <<future, timeUp, connection, verdict, broker, seen>>

\* The timer of wait_for() cancels the call, and its future unless that is done.
TimeUp(c) ==
  /\ pc[c] = "waiting" /\ c \notin timeUp
  /\ timeUp' = timeUp \cup {c}
  /\ future' = [future EXCEPT ![c] = IF @ = "pending" THEN "cancelled" ELSE @]
  /\ UNCHANGED <<pc, pending, connection, verdict, broker, seen>>

\* The call runs again after its future or its timer.
Resume(c) ==
  /\ pc[c] = "waiting"
  /\ \/ c \in timeUp /\ End(c, "timeout")
     \/ c \notin timeUp /\ future[c] = "ok" /\ End(c, "result")
     \/ c \notin timeUp /\ future[c] = "error" /\ End(c, "job failed")
     \/ c \notin timeUp /\ future[c] = "closed" /\ End(c, "client closed")
  /\ UNCHANGED <<future, timeUp, connection, verdict, broker, seen>>

\* The task that called embed_query is cancelled, whatever it waits for.
Cancelled(c) ==
  /\ Active(c)
  /\ End(c, "cancelled")
  /\ future' = [future EXCEPT ![c] = IF @ = "pending" /\ pc[c] = "waiting" THEN "cancelled" ELSE @]
  /\ UNCHANGED <<timeUp, connection, verdict, broker, seen>>

\* Faulty variant of Resolves: the reply goes to whoever waits.
ResolvesAny(c, d) == d \in pending /\ future[d] = "pending"

\* _on_reply: the reply to c resolves d.
Resolves(c, d) == c = d /\ d \in pending /\ future[d] = "pending"

OnReply(c, kind) ==
  /\ <<c, kind>> \in replies
  /\ future' = [d \in Calls |-> IF Resolves(c, d) THEN kind ELSE future[d]]
  /\ seen' = IF Active(c) /\ connection = "open" THEN seen \cup {c} ELSE seen
  /\ UNCHANGED <<pc, pending, timeUp, connection, verdict, broker>>

\* Faulty variant of Failed: close() forgets the waiting calls.
FailedForgotten == future

\* set_exception() for what is not done.
Failed == [c \in Calls |-> IF c \in pending /\ future[c] = "pending" THEN "closed" ELSE future[c]]

\* close() fails the futures and forgets them; then it awaits the end of the
\* connection.  A call that begins in between registers as ever.
Close ==
  /\ connection = "open"
  /\ connection' = "closing"
  /\ future' = Failed
  /\ pending' = {}
  /\ UNCHANGED <<pc, timeUp, verdict, broker, seen>>

\* The connection is closed, and the confirms that are outstanding never come.
Closed ==
  /\ connection = "closing"
  /\ connection' = "closed"
  /\ verdict' = [c \in Calls |-> IF pc[c] # "start" /\ verdict[c] = "none"
                                   THEN "lost" ELSE verdict[c]]
  /\ UNCHANGED <<pc, pending, future, timeUp, broker, seen>>

-----------------------------------------------------------------------------
CallStep(c) == Published(c) \/ Resume(c)

Next == \/ \E c \in Calls :
             \/ BrokerTakes(c) \/ Dequeue(c)
             \/ Call(c) \/ CallStep(c) \/ TimeUp(c) \/ Cancelled(c)
             \/ \E kind \in Kinds : WorkerReplies(c, kind) \/ OnReply(c, kind)
        \/ Close \/ Closed

Spec == Init /\ [][Next]_vars

\* The event loop runs a call that is due, and closing a connection ends.  Nothing
\* else is asked of the broker, nor of the workers or the timer.
FairSpec == Spec /\ WF_vars(Closed) /\ \A c \in Calls : WF_vars(CallStep(c))

-----------------------------------------------------------------------------
TypeOK ==
  /\ pc \in [Calls -> {"start"} \cup Running \cup Ends]
  /\ pending \subseteq Calls
  /\ future \in [Calls -> Kinds \cup {"pending", "cancelled", "closed"}]
  /\ timeUp \subseteq Calls
  /\ connection \in {"open", "closing", "closed"}
  /\ verdict \in [Calls -> Verdicts]
  /\ queued \subseteq accepted /\ accepted \subseteq Calls
  /\ replies \subseteq Calls \X Kinds
  /\ seen \subseteq Calls

\* _pending holds calls that are under way and no other, and until close() all of
\* them: whatever way a call ends it leaves nothing behind.
PendingIsActive ==
  /\ \A c \in pending : Active(c)
  /\ connection = "open" => \A c \in Calls : Active(c) => c \in pending

\* A call returns vectors, or raises a job's failure, only if a worker sent just
\* that in answer to its own job.
OwnReply ==
  \A c \in Calls : /\ pc[c] = "result" => <<c, "ok">> \in replies
                   /\ pc[c] = "job failed" => <<c, "error">> \in replies

\* A reply that is handled while its call is under way is not lost, not even one
\* that overtakes the confirm of the request.
EarlyReplyKept == \A c \in seen : Active(c) => future[c] # "pending"

\* EmbeddingOverloaded says that the job was not taken, so that to retry it does
\* not double it.
OverloadedNotTaken == \A c \in Calls : pc[c] = "overloaded" => c \notin accepted

\* close() ends every call that was under way when it began (one that began since
\* is in _pending), without its timer and whatever stage its publish was in.
CloseEndsCalls ==
  \A c \in Calls : connection # "open" /\ Active(c) /\ c \notin pending ~> ~Active(c)

=============================================================================
