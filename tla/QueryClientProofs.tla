-------------------------- MODULE QueryClientProofs --------------------------
(***************************************************************************)
(* Safety of the query client for every number of calls and every length   *)
(* of the queue.                                                           *)
(*                                                                         *)
(* OwnReply and OverloadedNotTaken speak of calls that have ended; what    *)
(* they ended with was decided by a future, or a verdict of the broker,    *)
(* while replies, time limits and close() were still at work on them       *)
(* (FuturesInv, VerdictInv).                                               *)
(***************************************************************************)
EXTENDS QueryClient, TLAPS

\* A future holds a reply only if that reply was sent to its call.
FuturesInv ==
  \A c \in Calls : future[c] \in Kinds => <<c, future[c]>> \in replies

\* A reply is handled for a call that has begun.
SeenInv == \A c \in seen : pc[c] # "start"

\* What the broker has not decided on, or has refused, it has not taken.
VerdictInv ==
  \A c \in Calls :
    /\ pc[c] = "start" => verdict[c] = "none"
    /\ pc[c] = "overloaded" => verdict[c] = "refused"
    /\ verdict[c] \in {"none", "refused"} => c \notin accepted

ClientInv ==
  /\ TypeOK /\ PendingIsActive /\ OwnReply /\ EarlyReplyKept
  /\ FuturesInv /\ SeenInv /\ VerdictInv

LEMMA InitClientInv == Init => ClientInv
  BY DEF Init, ClientInv, TypeOK, PendingIsActive, Active, Running, OwnReply, EarlyReplyKept,
     FuturesInv, SeenInv, VerdictInv, Kinds, Verdicts

-----------------------------------------------------------------------------
(* ---- the broker and the workers ---- *)

LEMMA BrokerKeeps ==
  ASSUME ClientInv, NEW c \in Calls,
         BrokerTakes(c) \/ Dequeue(c) \/ \E kind \in Kinds : WorkerReplies(c, kind)
  PROVE  ClientInv'
<1> USE DEF ClientInv, client
<1>1. UNCHANGED <<pc, pending, future, timeUp, connection, seen>> /\ replies \subseteq replies'
  BY DEF BrokerTakes, Dequeue, WorkerReplies
<1>2. PendingIsActive' /\ EarlyReplyKept' /\ SeenInv'
  BY <1>1 DEF PendingIsActive, EarlyReplyKept, SeenInv, Active
<1>3. OwnReply' /\ FuturesInv'
  BY <1>1 DEF OwnReply, FuturesInv
<1>4. TypeOK' /\ VerdictInv'
  <2>1. CASE BrokerTakes(c)
    <3>1. /\ pc[c] # "start" /\ verdict[c] = "none" /\ replies' = replies
          /\ \E v \in Verdicts \ {"none"} :
               /\ verdict' = [verdict EXCEPT ![c] = v]
               /\ \/ v # "refused" /\ queued' = queued \cup {c} /\ accepted' = accepted \cup {c}
                  \/ UNCHANGED <<queued, accepted>>
      BY <2>1 DEF BrokerTakes, Verdicts
    <3>2. TypeOK'
      BY <1>1, <3>1 DEF TypeOK
    <3>3. VerdictInv'
      BY <1>1, <3>1 DEF VerdictInv, TypeOK
    <3>4. QED
      BY <3>2, <3>3
  <2>2. CASE Dequeue(c)
    BY <1>1, <2>2 DEF Dequeue, TypeOK, VerdictInv
  <2>3. CASE \E kind \in Kinds : WorkerReplies(c, kind)
    BY <1>1, <2>3 DEF WorkerReplies, TypeOK, VerdictInv
  <2>4. QED
    BY <2>1, <2>2, <2>3
<1>5. QED
  BY <1>2, <1>3, <1>4

-----------------------------------------------------------------------------
(* ---- the calls ---- *)

\* A call ends: it was under way, and is taken out of _pending.
LEMMA EndKeeps ==
  ASSUME ClientInv, NEW c \in Calls, NEW end \in Ends, End(c, end), Active(c),
         UNCHANGED <<timeUp, connection, verdict, broker, seen>>,
         \/ future' = future
         \/ future' = [future EXCEPT ![c] = "cancelled"],
         end = "result" => <<c, "ok">> \in replies,
         end = "job failed" => <<c, "error">> \in replies,
         end = "overloaded" => verdict[c] = "refused"
  PROVE  ClientInv'
<1> USE DEF ClientInv, broker
<1>1. pc' = [pc EXCEPT ![c] = end] /\ pending' = pending \ {c} /\ end \notin Running \cup {"start"}
  BY DEF End, Popped, Ends, Running
<1>2. TypeOK'
  BY <1>1 DEF TypeOK
<1>3. PendingIsActive'
  BY <1>1 DEF PendingIsActive, Active, Running, TypeOK
<1>4. EarlyReplyKept'
  BY <1>1 DEF EarlyReplyKept, Active, Running, TypeOK
<1>5. SeenInv'
  BY <1>1 DEF SeenInv, TypeOK
<1>6. OwnReply' /\ FuturesInv' /\ VerdictInv'
  BY <1>1 DEF OwnReply, FuturesInv, VerdictInv, TypeOK, Kinds
<1>7. QED
  BY <1>2, <1>3, <1>4, <1>5, <1>6

LEMMA CallKeeps ==
  ASSUME ClientInv, NEW c \in Calls, Call(c) \/ CallStep(c) \/ TimeUp(c) \/ Cancelled(c)
  PROVE  ClientInv'
<1> USE DEF ClientInv, broker
<1>1. CASE Call(c)
  <2>1. /\ pc[c] = "start" /\ pending' = pending \cup {c}
        /\ pc' = [pc EXCEPT ![c] = "publishing"]
        /\ \E v \in {"lost", "none"} : verdict' = [verdict EXCEPT ![c] = v]
        /\ UNCHANGED <<future, timeUp, connection, queued, accepted, replies, seen>>
    BY <1>1 DEF Call, Registered
  <2>2. TypeOK'
    BY <2>1 DEF TypeOK, Running, Verdicts
  <2>3. PendingIsActive' /\ EarlyReplyKept' /\ SeenInv'
    BY <2>1 DEF PendingIsActive, EarlyReplyKept, SeenInv, Active, Running, TypeOK
  <2>4. OwnReply' /\ FuturesInv' /\ VerdictInv'
    BY <2>1 DEF OwnReply, FuturesInv, VerdictInv, TypeOK
  <2>5. QED
    BY <2>2, <2>3, <2>4
<1>2. CASE Published(c)
  <2>1. CASE verdict[c] = "confirmed"
    <3>1. /\ pc[c] = "publishing" /\ pc' = [pc EXCEPT ![c] = "waiting"]
          /\ UNCHANGED <<pending, future, timeUp, connection, verdict, queued, accepted, replies, seen>>
      BY <1>2, <2>1 DEF Published
    <3>2. TypeOK'
      BY <3>1 DEF TypeOK, Running
    <3>3. PendingIsActive' /\ EarlyReplyKept' /\ SeenInv'
      BY <3>1 DEF PendingIsActive, EarlyReplyKept, SeenInv, Active, Running, TypeOK
    <3>4. OwnReply' /\ FuturesInv' /\ VerdictInv'
      BY <3>1 DEF OwnReply, FuturesInv, VerdictInv, TypeOK
    <3>5. QED
      BY <3>2, <3>3, <3>4
  <2>2. CASE verdict[c] # "confirmed"
    <3>1. /\ Raised(verdict[c]) \in {"overloaded", "unroutable", "broken"}
          /\ Raised(verdict[c]) = "overloaded" => verdict[c] = "refused"
      BY <1>2, <2>2 DEF Published, Raised, TypeOK, Verdicts
    <3>2. End(c, Raised(verdict[c])) /\ Active(c)
          /\ UNCHANGED <<future, timeUp, connection, verdict, broker, seen>>
      BY <1>2, <2>2 DEF Published, Active, Running
    <3>3. QED
      BY <3>1, <3>2, EndKeeps DEF Ends
  <2>3. QED
    BY <2>1, <2>2
\* What a call returns is what its future holds.
<1>3. CASE Resume(c)
  <2>1. /\ Active(c) /\ UNCHANGED <<future, timeUp, connection, verdict, broker, seen>>
        /\ \/ End(c, "timeout") \/ End(c, "client closed")
           \/ future[c] = "ok" /\ End(c, "result")
           \/ future[c] = "error" /\ End(c, "job failed")
    BY <1>3 DEF Resume, Active, Running
  <2>2. /\ future[c] = "ok" => <<c, "ok">> \in replies
        /\ future[c] = "error" => <<c, "error">> \in replies
    BY DEF FuturesInv, Kinds
  <2>3. QED
    BY <2>1, <2>2, EndKeeps DEF Ends
<1>4. CASE TimeUp(c)
  <2>1. /\ timeUp' = timeUp \cup {c}
        /\ UNCHANGED <<pc, pending, connection, verdict, queued, accepted, replies, seen>>
        /\ \A d \in Calls : \/ future'[d] = future[d]
                            \/ future[d] = "pending" /\ future'[d] = "cancelled"
        /\ future' \in [Calls -> Kinds \cup {"pending", "cancelled", "closed"}]
    BY <1>4 DEF TimeUp, TypeOK
  <2>2. TypeOK' /\ PendingIsActive' /\ SeenInv' /\ OwnReply' /\ VerdictInv'
    BY <2>1 DEF TypeOK, PendingIsActive, SeenInv, OwnReply, VerdictInv, Active
  <2>3. EarlyReplyKept' /\ FuturesInv'
    BY <2>1 DEF EarlyReplyKept, FuturesInv, Active, Kinds, TypeOK
  <2>4. QED
    BY <2>2, <2>3
<1>5. CASE Cancelled(c)
  <2>1. \/ future' = future
        \/ future' = [future EXCEPT ![c] = "cancelled"]
    BY <1>5 DEF Cancelled, TypeOK
  <2>2. Active(c) /\ End(c, "cancelled") /\ UNCHANGED <<timeUp, connection, verdict, broker, seen>>
    BY <1>5 DEF Cancelled
  <2>3. QED
    BY <2>1, <2>2, EndKeeps DEF Ends
<1>6. QED
  BY <1>1, <1>2, <1>3, <1>4, <1>5 DEF CallStep

\* A reply resolves the future of its own call, if that still waits for it.
LEMMA ReplyKeeps ==
  ASSUME ClientInv, NEW c \in Calls, NEW kind \in Kinds, OnReply(c, kind)
  PROVE  ClientInv'
<1> USE DEF ClientInv, broker
<1>1. /\ <<c, kind>> \in replies
      /\ UNCHANGED <<pc, pending, timeUp, connection, verdict, queued, accepted, replies>>
      /\ future' = [d \in Calls |-> IF Resolves(c, d) THEN kind ELSE future[d]]
      /\ seen' = IF Active(c) /\ connection = "open" THEN seen \cup {c} ELSE seen
  BY DEF OnReply
<1>2. /\ \A d \in Calls \ {c} : future'[d] = future[d]
      /\ future'[c] \in {kind, future[c]}
      /\ c \in pending => future'[c] # "pending"
      /\ \A d \in Calls : future'[d] = "pending" => future[d] = "pending"
  BY <1>1 DEF Resolves, Kinds
<1>3. TypeOK'
  BY <1>1 DEF TypeOK
<1>4. PendingIsActive' /\ OwnReply' /\ VerdictInv'
  BY <1>1 DEF PendingIsActive, OwnReply, VerdictInv, Active
<1>5. SeenInv' /\ EarlyReplyKept'
  BY <1>1, <1>2 DEF SeenInv, EarlyReplyKept, PendingIsActive, Active, Running, TypeOK
<1>6. FuturesInv'
  BY <1>1, <1>2 DEF FuturesInv
<1>7. QED
  BY <1>3, <1>4, <1>5, <1>6

LEMMA CloseKeeps ==
  ASSUME ClientInv, Close \/ Closed
  PROVE  ClientInv'
<1> USE DEF ClientInv, broker
<1>1. CASE Close
  <2>1. /\ connection' = "closing" /\ pending' = {}
        /\ UNCHANGED <<pc, timeUp, verdict, queued, accepted, replies, seen>>
        /\ future' = [c \in Calls |-> IF c \in pending /\ future[c] = "pending" THEN "closed"
                                      ELSE future[c]]
    BY <1>1 DEF Close, Failed
  <2>2. TypeOK' /\ PendingIsActive' /\ SeenInv' /\ OwnReply' /\ VerdictInv'
    BY <2>1 DEF TypeOK, PendingIsActive, SeenInv, OwnReply, VerdictInv
  <2>3. EarlyReplyKept' /\ FuturesInv'
    BY <2>1 DEF EarlyReplyKept, FuturesInv, Active, Kinds, TypeOK
  <2>4. QED
    BY <2>2, <2>3
<1>2. CASE Closed
  <2>1. /\ connection' = "closed"
        /\ UNCHANGED <<pc, pending, future, timeUp, queued, accepted, replies, seen>>
        /\ verdict' = [c \in Calls |-> IF pc[c] # "start" /\ verdict[c] = "none"
                                         THEN "lost" ELSE verdict[c]]
    BY <1>2 DEF Closed
  <2>2. TypeOK' /\ PendingIsActive' /\ SeenInv' /\ OwnReply'
    BY <2>1 DEF TypeOK, PendingIsActive, SeenInv, OwnReply, Verdicts, Active
  <2>3. EarlyReplyKept' /\ FuturesInv' /\ VerdictInv'
    BY <2>1 DEF EarlyReplyKept, FuturesInv, VerdictInv, Active
  <2>4. QED
    BY <2>2, <2>3
<1>3. QED
  BY <1>1, <1>2

-----------------------------------------------------------------------------
(* ---- the theorems ---- *)

\* ClientInv is inductive and so holds in every reachable state.
THEOREM ClientInvariant == Spec => []ClientInv
<1>1. ClientInv /\ [Next]_vars => ClientInv'
  <2> SUFFICES ASSUME ClientInv, [Next]_vars
               PROVE  ClientInv'
    OBVIOUS
  <2>1. CASE Next
    BY <2>1, BrokerKeeps, CallKeeps, ReplyKeeps, CloseKeeps DEF Next
  <2>2. CASE UNCHANGED vars
    BY <2>2 DEF vars, client, broker, ClientInv, TypeOK, PendingIsActive, OwnReply, EarlyReplyKept,
       FuturesInv, SeenInv, VerdictInv, Active
  <2>3. QED
    BY <2>1, <2>2
<1>2. QED
  BY <1>1, InitClientInv, PTL DEF Spec

\* The variables of client and broker have their types.
THEOREM ClientTypes == Spec => []TypeOK
<1>1. ClientInv => TypeOK
  BY DEF ClientInv
<1>2. QED
  BY <1>1, ClientInvariant, PTL

\* However a call ends, and whatever comes back for it later, _pending holds the
\* calls under way and no other.
THEOREM PendingHoldsActive == Spec => []PendingIsActive
<1>1. ClientInv => PendingIsActive
  BY DEF ClientInv
<1>2. QED
  BY <1>1, ClientInvariant, PTL

\* No call ends with a reply that was not sent to it.
THEOREM RepliesAreOwn == Spec => []OwnReply
<1>1. ClientInv => OwnReply
  BY DEF ClientInv
<1>2. QED
  BY <1>1, ClientInvariant, PTL

\* A reply that overtakes the confirm of its request is kept for the call.
THEOREM EarlyRepliesAreKept == Spec => []EarlyReplyKept
<1>1. ClientInv => EarlyReplyKept
  BY DEF ClientInv
<1>2. QED
  BY <1>1, ClientInvariant, PTL

\* The job of a call that raised EmbeddingOverloaded was not taken, and never is.
THEOREM OverloadedWasNotTaken == Spec => []OverloadedNotTaken
<1>1. ClientInv => OverloadedNotTaken
  BY DEF ClientInv, VerdictInv, OverloadedNotTaken
<1>2. QED
  BY <1>1, ClientInvariant, PTL

=============================================================================
