-------------------------- MODULE JobDeliveryProofs --------------------------
(***************************************************************************)
(* What the producer of a job is promised, for every instance of           *)
(* EmbeddingWorker: the workers implement JobDelivery, index jobs are not  *)
(* dropped before their attempts are used up, there are no more attempts   *)
(* than that, and, as long as connections last, no worker forgets a        *)
(* message it has taken.                                                   *)
(*                                                                         *)
(* IndexKept and RetriesBounded speak of messages that have been settled;  *)
(* what leads there was decided steps before, while other deliveries of    *)
(* the same message may still be under way on connections that are gone.   *)
(* So both need to know what every reply, verdict and delivery under way   *)
(* stands for (VerdictsJustified, RetryInv).                               *)
(***************************************************************************)
EXTENDS EmbeddingWorkerProofs

-----------------------------------------------------------------------------
(* ---- what one step does to one delivery and one message ---- *)

\* The last step of a reply: ack, or what _settle's handler decides.
Concluded(d) == stage'[d] \in {"ack", Undelivered(d)}

\* How far the handling of d can get in one step, and on which condition.
Proceeds(d) ==
  LET j == Job(d) IN
  \/ stage'[d] \in {stage[d], "none"}
  \/ stage[d] # "none" /\ stage'[d] = "abandoned"
  \/ stage[d] = "none" /\ place[j] = "queued" /\ place'[j] = "unacked" /\ stage'[d] = "delivered"
  \/ stage[d] = "delivered" /\ stage'[d] \in {"requeue", "buffered"}
  \/ stage[d] = "delivered" /\ j \in Malformed /\ stage'[d] = Answer(j, "validation_error")
  \/ stage[d] \in {"delivered", "checking"} /\ j \in expired /\ stage'[d] = Expiry(j)
  \/ stage[d] = "buffered" /\ stage'[d] = "checking"
  \/ stage[d] = "checking" /\ stage'[d] = "live"
  \/ stage[d] = "live" /\ stage'[d] = Answer(j, "ok")
  \/ stage[d] = "live" /\ Lane(d) = "query" /\ stage'[d] = Answer(j, "internal_error")
  \/ stage[d] = "live" /\ Lane(d) = "index" /\ LastAttempt(j) /\ stage'[d] = "reject"
  \/ stage[d] = "live" /\ Lane(d) = "index" /\ ~LastAttempt(j) /\ stage'[d] = "requeue"
  \/ stage[d] \in ReplyKinds /\ Concluded(d)

LEMMA StepProceeds ==
  ASSUME WorkerInv, [Next]_vars
  PROVE  \A d \in Deliveries : Proceeds(d)
<1> USE DEF WorkerInv, TypeOK
<1>1. ASSUME stage' = stage
      PROVE  \A d \in Deliveries : Proceeds(d)
  BY <1>1 DEF Proceeds
\* One delivery moves on.
<1>2. ASSUME NEW d \in Deliveries, NEW s, Move(d, s), Proceeds(d)
      PROVE  \A c \in Deliveries : Proceeds(c)
  BY <1>2 DEF Proceeds, Move
<1>3. ASSUME NEW d \in Deliveries, DeliveryStep(d) \/ Publish(d) \/ PublishFails(d)
      PROVE  \A c \in Deliveries : Proceeds(c)
  <2>1. CASE OnMessage(d)
    <3>1. CASE TurnAway(d)
      BY <1>2, <3>1 DEF TurnAway, Move, Proceeds
    <3>2. CASE Accept(d)
      BY <1>2, <3>2 DEF Accept, Move, Proceeds
    <3>3. QED
      BY <2>1, <3>1, <3>2 DEF OnMessage
  <2>2. CASE CheckExpiry(d)
    BY <1>2, <2>2 DEF CheckExpiry, Move, Proceeds
  <2>3. CASE Settle(d)
    BY <1>2, <2>3 DEF Settle, Move, Proceeds
  <2>4. CASE StaleSettle(d)
    BY <2>4 DEF StaleSettle, Forgotten, Proceeds
  <2>5. CASE Publish(d) \/ PublishFails(d)
    BY <1>2, <2>5 DEF Publish, PublishFails, Move, Proceeds, Concluded
  <2>6. QED
    BY <1>3, <2>1, <2>2, <2>3, <2>4, <2>5 DEF DeliveryStep
<1>4. ASSUME NEW w \in Workers, NEW l \in Lanes, LaneStep(w, l)
      PROVE  \A d \in Deliveries : Proceeds(d)
  <2>1. CASE TakeBatch(w, l)
    BY <2>1 DEF TakeBatch, Buffer, Proceeds
  <2>2. CASE BeginEncode(w, l)
    BY <1>1, <2>2 DEF BeginEncode
  <2>3. CASE EndEncode(w, l)
    <3>1. PICK F \in SUBSET Batch(w, l) :
         stage' = [d \in Deliveries |->
            CASE d \notin Batch(w, l) -> stage[d]
              [] d \in Batch(w, l) \ F -> Answer(Job(d), "ok")
              [] d \in F /\ l = "query" -> Answer(Job(d), "internal_error")
              [] d \in F /\ l = "index" -> IF LastAttempt(Job(d)) THEN "reject" ELSE "requeue"]
      BY <2>3 DEF EndEncode
    <3>2. \A d \in Batch(w, l) : stage[d] = "live" /\ Lane(d) = l
      BY <2>3 DEF EndEncode, WantsSlot, Batch
    <3>3. QED
      BY <3>1, <3>2 DEF Proceeds, Lanes
  <2>4. QED
    BY <1>4, <2>1, <2>2, <2>3 DEF LaneStep
<1>5. ASSUME NEW j \in Jobs, \/ Submit(j) \/ DeadlinePasses(j) \/ TtlExpires(j)
      PROVE  \A d \in Deliveries : Proceeds(d)
  BY <1>1, <1>5 DEF Submit, DeadlinePasses, TtlExpires
<1>6. ASSUME NEW j \in Jobs, NEW w \in Workers, Deliver(w, j)
      PROVE  \A d \in Deliveries : Proceeds(d)
  <2> DEFINE d == <<w, j, epoch[w]>>
  <2>1. d \in Deliveries /\ Job(d) = j /\ Fresh(d)
    BY DEF DeliveryInv, EpochsBounded, Deliveries, Job, Fresh, Worker
  <2>2. Move(d, "delivered") /\ place[j] = "queued" /\ place' = [place EXCEPT ![j] = "unacked"]
    BY <1>6 DEF Deliver
  <2> HIDE DEF d
  <2>3. CASE stage[d] = "none"
    BY <1>2, <2>1, <2>2, <2>3 DEF Move, Proceeds
  <2>4. CASE stage[d] # "none"
    BY <2>1, <2>2, <2>4 DEF HolderInv, HeldIsUnacked, HeldFresh
  <2>5. QED
    BY <2>3, <2>4
<1>7. ASSUME NEW w \in Workers, \/ Stop(w) \/ ShutdownStep(w) \/ GraceOver(w)
                                \/ Crash(w) \/ StartStep(w) \/ StartFails(w) \/ Disconnect(w)
      PROVE  \A d \in Deliveries : Proceeds(d)
  <2>1. CASE Close(w) \/ Crash(w)
    BY <2>1 DEF Close, Crash, GoDown, Proceeds
  <2>2. CASE GraceOver(w)
    BY <2>2 DEF GraceOver, Abandon, Proceeds, DeliveryInv, BatchedIsHeld
  <2>3. CASE \/ Stop(w) \/ StartStep(w) \/ StartFails(w) \/ CancelLoops(w) \/ Drained(w)
             \/ Disconnect(w) \/ \E l \in Lanes : CancelConsumer(w, l)
    BY <1>1, <2>3 DEF Stop, StartStep, Start, Consume, StartLoop, Ready, StartFails, CancelLoops,
       KeepBatches, Drained, CancelConsumer, Disconnect
  <2>4. QED
    BY <1>7, <2>1, <2>2, <2>3 DEF ShutdownStep
<1>8. CASE UNCHANGED vars
  BY <1>1, <1>8 DEF vars
<1>9. QED
  BY <1>3, <1>4, <1>5, <1>6, <1>7, <1>8, NextCases

\* What becomes of a message in one step, and why.
Transfers(j) ==
  \/ place'[j] = place[j]
  \/ place[j] = "unsent" /\ place'[j] = "queued"
  \/ place[j] = "queued" /\ place'[j] = "unacked"
  \/ place[j] = "queued" /\ LaneOf[j] = "query" /\ place'[j] = "discarded"
  \/ place[j] = "unacked" /\ place'[j] = "queued"
  \/ /\ place[j] = "unacked" /\ LaneOf[j] = "index" /\ returned[j] = DeliveryLimit
     /\ place'[j] = "dead"
  \/ /\ place[j] = "unacked" /\ \E d \in Deliveries : Job(d) = j /\ stage[d] = "ack"
     /\ place'[j] = "acked"
  \/ /\ place[j] = "unacked" /\ \E d \in Deliveries : Job(d) = j /\ stage[d] = "reject"
     /\ place'[j] = Rejected(j)

\* The counter of returns and the set of jobs that are late only grow.
Grows == expired \subseteq expired' /\ \A j \in Jobs : returned[j] <= returned'[j]

\* The broker takes messages back: those of the index lane may be one too many.
LEMMA ReturnTransfers ==
  ASSUME TypeOK, NEW S \in SUBSET Jobs, Return(S), \A j \in S : place[j] = "unacked"
  PROVE  /\ \A j \in Jobs : Transfers(j) /\ returned[j] <= returned'[j]
         /\ \A j \in S : LaneOf[j] = "index" => returned'[j] =
              IF returned[j] < DeliveryLimit THEN returned[j] + 1 ELSE returned[j]
         /\ \A j \in Jobs \ S : returned'[j] = returned[j] /\ place'[j] = place[j]
<1> DEFINE index == {j \in S : LaneOf[j] = "index"}
<1>1. PICK D \in SUBSET {j \in index : returned[j] = DeliveryLimit} :
        /\ place' = [j \in Jobs |-> IF j \in D THEN "dead" ELSE
                                    IF j \in S THEN "queued" ELSE place[j]]
        /\ returned' = [j \in Jobs |-> IF j \in index /\ returned[j] < DeliveryLimit
                                         THEN returned[j] + 1 ELSE returned[j]]
  BY DEF Return
<1>2. \A j \in Jobs : Transfers(j)
  BY <1>1 DEF Transfers
<1>3. \A j \in Jobs : returned[j] \in 0 .. DeliveryLimit
  BY DEF TypeOK
<1>4. \A j \in Jobs : returned[j] <= returned'[j]
  BY <1>1, <1>3, WorkerAssumption
<1>5. QED
  BY <1>1, <1>2, <1>4

LEMMA StepTransfers ==
  ASSUME WorkerInv, [Next]_vars
  PROVE  Grows /\ \A j \in Jobs : Transfers(j)
<1> USE DEF WorkerInv, TypeOK
<1>1. ASSUME UNCHANGED <<place, returned>>, expired \subseteq expired'
      PROVE  Grows /\ \A j \in Jobs : Transfers(j)
  BY <1>1, WorkerAssumption DEF Grows, Transfers
\* One message moves on.
<1>2. ASSUME NEW j \in Jobs, NEW s, place' = [place EXCEPT ![j] = s],
             Transfers(j), UNCHANGED <<returned, expired>>
      PROVE  Grows /\ \A i \in Jobs : Transfers(i)
  BY <1>2, WorkerAssumption DEF Grows, Transfers
\* Messages come back.
<1>3. ASSUME NEW S \in SUBSET Jobs, Return(S), \A j \in S : place[j] = "unacked",
             UNCHANGED expired
      PROVE  Grows /\ \A i \in Jobs : Transfers(i)
  BY <1>3, ReturnTransfers DEF Grows
<1>4. ASSUME NEW w \in Workers
      PROVE  Unacked(w) \subseteq Jobs /\ \A j \in Unacked(w) : place[j] = "unacked"
  BY UnackedIs DEF HolderInv, HeldIsUnacked
<1>5. ASSUME NEW d \in Deliveries, Settle(d)
      PROVE  Grows /\ \A j \in Jobs : Transfers(j)
  <2>1. Job(d) \in Jobs /\ place[Job(d)] = "unacked"
    BY <1>5, DeliveryParts DEF Settle, Verdicts, HolderInv, HeldIsUnacked, HeldFresh
  <2>2. CASE stage[d] = "requeue"
    BY <1>3, <1>5, <2>1, <2>2 DEF Settle
  <2>3. CASE stage[d] # "requeue"
    <3>1. Transfers(Job(d))
      BY <1>5, <2>1, <2>3 DEF Settle, Verdicts, Transfers
    <3>2. QED
      BY <1>2, <1>5, <2>1, <2>3, <3>1 DEF Settle
  <2>4. QED
    BY <2>2, <2>3
<1>6. ASSUME NEW d \in Deliveries, DeliveryStep(d) \/ Publish(d) \/ PublishFails(d)
      PROVE  Grows /\ \A j \in Jobs : Transfers(j)
  BY <1>1, <1>5, <1>6 DEF DeliveryStep, OnMessage, CheckExpiry, StaleSettle, Publish,
     PublishFails, broker
<1>7. ASSUME NEW w \in Workers, NEW l \in Lanes, LaneStep(w, l)
      PROVE  Grows /\ \A j \in Jobs : Transfers(j)
  BY <1>1, <1>7 DEF LaneStep, TakeBatch, BeginEncode, EndEncode, broker
<1>8. ASSUME NEW j \in Jobs, \/ Submit(j) \/ DeadlinePasses(j) \/ TtlExpires(j)
                             \/ \E w \in Workers : Deliver(w, j)
      PROVE  Grows /\ \A i \in Jobs : Transfers(i)
  <2>1. CASE DeadlinePasses(j)
    BY <1>1, <2>1 DEF DeadlinePasses, broker
  <2>2. CASE Submit(j) \/ TtlExpires(j) \/ \E w \in Workers : Deliver(w, j)
    BY <1>2, <2>2 DEF Submit, TtlExpires, Deliver, Transfers
  <2>3. QED
    BY <1>8, <2>1, <2>2
<1>9. ASSUME NEW w \in Workers, \/ Stop(w) \/ ShutdownStep(w) \/ GraceOver(w)
                                \/ Crash(w) \/ StartStep(w) \/ StartFails(w) \/ Disconnect(w)
      PROVE  Grows /\ \A j \in Jobs : Transfers(j)
  <2>1. CASE Close(w) \/ Crash(w) \/ Disconnect(w)
    BY <1>3, <1>4, <2>1 DEF Close, Crash, GoDown, Disconnect
  <2>2. CASE \/ Stop(w) \/ StartStep(w) \/ StartFails(w) \/ CancelLoops(w) \/ Drained(w)
             \/ GraceOver(w) \/ \E l \in Lanes : CancelConsumer(w, l)
    BY <1>1, <2>2 DEF Stop, StartStep, Start, Consume, StartLoop, Ready, StartFails, CancelLoops,
       Drained, GraceOver, CancelConsumer, broker
  <2>3. QED
    BY <1>9, <2>1, <2>2 DEF ShutdownStep
<1>10. CASE UNCHANGED vars
  BY <1>1, <1>10 DEF vars, broker
<1>11. QED
  BY <1>6, <1>7, <1>8, <1>9, <1>10, NextCases

-----------------------------------------------------------------------------
(* ---- index jobs are kept ---- *)

\* What a reply or a verdict on its way says of its job.
VerdictsJustified ==
  \A d \in Deliveries :
    /\ stage[d] = "validation_error" => Job(d) \in Malformed
    /\ stage[d] = "expired" => Job(d) \in expired
    /\ stage[d] = "internal_error" => Lane(d) = "query"
    /\ stage[d] = "reject" /\ Lane(d) = "index" =>
         returned[Job(d)] + 1 >= DeliveryLimit \/ Job(d) \in Malformed \cup expired

\* Nobody handles a message that has not been sent.
HeldIsSent == \A d \in Deliveries : stage[d] # "none" => place[Job(d)] # "unsent"

KeptInv == VerdictsJustified /\ HeldIsSent /\ IndexKept

LEMMA StepKeepsVerdicts == WorkerInv /\ VerdictsJustified /\ [Next]_vars => VerdictsJustified'
<1> SUFFICES ASSUME WorkerInv, VerdictsJustified, [Next]_vars, NEW d \in Deliveries
             PROVE  /\ stage'[d] = "validation_error" => Job(d) \in Malformed
                    /\ stage'[d] = "expired" => Job(d) \in expired'
                    /\ stage'[d] = "internal_error" => Lane(d) = "query"
                    /\ stage'[d] = "reject" /\ Lane(d) = "index" =>
                         \/ returned'[Job(d)] + 1 >= DeliveryLimit
                         \/ Job(d) \in Malformed \cup expired'
  BY DEF VerdictsJustified, Job, Lane
<1>1. /\ expired \subseteq expired' /\ returned[Job(d)] <= returned'[Job(d)]
      /\ returned[Job(d)] \in Nat /\ returned'[Job(d)] \in Nat
  BY StepTransfers, StepKeepsTypes, DeliveryParts DEF Grows, WorkerInv, TypeOK
<1>2. Proceeds(d)
  BY StepProceeds
<1>3. Lane(d) = LaneOf[Job(d)] /\ DeliveryLimit \in Nat
  BY WorkerAssumption DEF Lane
<1>4. CASE stage'[d] = stage[d]
  BY <1>1, <1>3, <1>4 DEF VerdictsJustified
<1>5. CASE stage[d] \in ReplyKinds /\ Concluded(d)
  BY <1>1, <1>3, <1>5 DEF VerdictsJustified, Concluded, Undelivered, ReplyKinds
<1>6. CASE stage[d] \in {"delivered", "buffered", "checking"}
  BY <1>1, <1>2, <1>3, <1>6, AnswerIs, ExpiryIs DEF Proceeds, ReplyKinds, Concluded
<1>7. CASE stage[d] \in {"none", "live"}
  BY <1>1, <1>2, <1>3, <1>7, AnswerIs DEF Proceeds, LastAttempt, ReplyKinds, Concluded
<1>8. QED
  BY <1>2, <1>4, <1>5, <1>6, <1>7 DEF Proceeds

LEMMA StepKeepsSent == WorkerInv /\ HeldIsSent /\ [Next]_vars => HeldIsSent'
<1> SUFFICES ASSUME WorkerInv, HeldIsSent, [Next]_vars,
                    NEW d \in Deliveries, stage'[d] # "none"
             PROVE  place'[Job(d)] # "unsent"
  BY DEF HeldIsSent, Job
<1>1. Proceeds(d) /\ Transfers(Job(d))
  BY StepProceeds, StepTransfers, DeliveryParts
<1>2. CASE stage[d] # "none"
  BY <1>1, <1>2 DEF HeldIsSent, Transfers, Rejected
<1>3. CASE stage[d] = "none"
  BY <1>1, <1>3 DEF Proceeds, ReplyKinds
<1>4. QED
  BY <1>2, <1>3

LEMMA StepKeepsIndex ==
  WorkerInv /\ VerdictsJustified /\ IndexKept /\ [Next]_vars => IndexKept'
<1> SUFFICES ASSUME WorkerInv, VerdictsJustified, IndexKept, [Next]_vars,
                    NEW j \in Jobs, LaneOf[j] = "index"
             PROVE  /\ place'[j] # "discarded"
                    /\ place'[j] = "dead" => \/ returned'[j] + 1 >= DeliveryLimit
                                             \/ j \in Malformed \/ j \in expired'
  BY DEF IndexKept
<1>1. Transfers(j) /\ expired \subseteq expired' /\ returned[j] <= returned'[j]
      /\ returned[j] \in Nat /\ returned'[j] \in Nat /\ DeliveryLimit \in Nat
  BY StepTransfers, StepKeepsTypes, WorkerAssumption DEF Grows, WorkerInv, TypeOK
<1>2. CASE place'[j] = place[j]
  BY <1>1, <1>2 DEF IndexKept
<1>3. ASSUME NEW d \in Deliveries, Job(d) = j, stage[d] = "reject"
      PROVE  returned[j] + 1 >= DeliveryLimit \/ j \in Malformed \cup expired
  BY <1>3 DEF VerdictsJustified, Lane
<1>4. CASE place'[j] # place[j]
  BY <1>1, <1>3, <1>4 DEF Transfers, Rejected
<1>5. QED
  BY <1>2, <1>4

LEMMA KeptInvariant == Spec => []KeptInv
<1>1. Init => KeptInv
  BY DEF Init, KeptInv, VerdictsJustified, HeldIsSent, IndexKept
<1>2. WorkerInv /\ KeptInv /\ [Next]_vars => KeptInv'
  BY StepKeepsVerdicts, StepKeepsSent, StepKeepsIndex DEF KeptInv
<1>3. QED
  BY <1>1, <1>2, WorkerInvariant, PTL DEF Spec

\* An index job is never discarded, and is dead-lettered only when its attempts
\* are used up, or no attempt would help.
THEOREM IndexJobsAreKept == Spec => []IndexKept
<1>1. KeptInv => IndexKept
  BY DEF KeptInv
<1>2. QED
  BY <1>1, KeptInvariant, PTL

-----------------------------------------------------------------------------
(* ---- the workers implement JobDelivery ---- *)

\* The state of j and the jobs answered, as Delivery maps them.
Stands(j) == IF place[j] \in {"queued", "unacked"} THEN "open" ELSE place[j]
Replied == {j \in Jobs : replies[j] # {}}

\* A step of the workers that the producers do not notice.
LEMMA Unnoticed ==
  ASSUME \A j \in Jobs : Stands(j)' = Stands(j), UNCHANGED <<replies, expired>>
  PROVE  UNCHANGED Delivery!vars
  BY DEF Delivery!vars, Stands

\* What is known of a step in which one message moves on.
LEMMA OneMoves ==
  ASSUME NEW j \in Jobs, NEW s, place \in [Jobs -> Places],
         place' = [place EXCEPT ![j] = s], UNCHANGED <<replies, expired>>
  PROVE  /\ [i \in Jobs |-> Stands(i)'] = [[i \in Jobs |-> Stands(i)] EXCEPT
              ![j] = IF s \in {"queued", "unacked"} THEN "open" ELSE s]
         /\ UNCHANGED <<Replied, expired>>
  BY DEF Stands, Replied

\* Messages that come back stay open, but for those the queue dead-letters.
LEMMA ReturnRefines ==
  ASSUME TypeOK, NEW S \in SUBSET Jobs, Return(S), \A j \in S : place[j] = "unacked",
         UNCHANGED <<replies, expired>>
  PROVE  Delivery!Next
<1> DEFINE index == {j \in S : LaneOf[j] = "index"}
<1>1. PICK D \in SUBSET {j \in index : returned[j] = DeliveryLimit} :
        place' = [j \in Jobs |-> IF j \in D THEN "dead" ELSE
                                 IF j \in S THEN "queued" ELSE place[j]]
  BY DEF Return
<1>2. D \in SUBSET {j \in Jobs : LaneOf[j] = "index"} /\ D \subseteq S
  OBVIOUS
<1> HIDE DEF index
<1>3. \A j \in Jobs : Stands(j)' = IF j \in D THEN "dead" ELSE Stands(j)
  BY <1>1, <1>2 DEF Stands
<1>4. Delivery!DeadLetter(D)
  BY <1>2, <1>3 DEF Delivery!DeadLetter, Stands
<1>5. QED
  BY <1>2, <1>4 DEF Delivery!Next

LEMMA SettleRefines ==
  ASSUME WorkerInv, NEW d \in Deliveries, Settle(d)
  PROVE  Delivery!Next
<1> DEFINE j == Job(d)
<1>1. j \in Jobs /\ place[j] = "unacked" /\ TypeOK /\ UNCHANGED <<replies, expired>>
  BY DeliveryParts DEF WorkerInv, Settle, Verdicts, HolderInv, HeldIsUnacked, HeldFresh
<1>2. CASE stage[d] = "requeue"
  BY <1>1, <1>2, ReturnRefines DEF Settle
<1>3. CASE stage[d] = "ack"
  <2>1. place' = [place EXCEPT ![j] = "acked"]
    BY <1>3 DEF Settle
  <2>2. Answered(j)
    BY <1>3 DEF WorkerInv, AckInv, AcksJustified
  <2>3. Delivery!Ack(j)
    BY <1>1, <2>1, <2>2, OneMoves DEF Delivery!Ack, Answered, Stands, Replied, TypeOK
  <2>4. QED
    BY <1>1, <2>3 DEF Delivery!Next
<1>4. CASE stage[d] = "reject" /\ LaneOf[j] = "index"
  <2>1. place' = [place EXCEPT ![j] = "dead"]
    BY <1>4 DEF Settle, Rejected
  <2>2. Delivery!DeadLetter({j})
    BY <1>1, <2>1, OneMoves DEF Delivery!DeadLetter, Stands, Replied, TypeOK
  <2>3. QED
    BY <1>1, <1>4, <2>2 DEF Delivery!Next
<1>5. CASE stage[d] = "reject" /\ LaneOf[j] # "index"
  <2>1. place' = [place EXCEPT ![j] = "discarded"]
    BY <1>5 DEF Settle, Rejected
  <2>2. Delivery!Discard(j)
    BY <1>1, <1>5, <2>1, OneMoves DEF Delivery!Discard, Stands, Replied, TypeOK
  <2>3. QED
    BY <1>1, <2>2 DEF Delivery!Next
<1>6. QED
  BY <1>2, <1>3, <1>4, <1>5 DEF Settle, Verdicts

\* Each step of the workers is one that JobDelivery allows, or none.
LEMMA StepRefinesDelivery ==
  WorkerInv /\ KeptInv /\ [Next]_vars => [Delivery!Next]_(Delivery!vars)
<1> SUFFICES ASSUME WorkerInv, KeptInv, [Next]_vars
             PROVE  Delivery!Next \/ UNCHANGED Delivery!vars
  OBVIOUS
<1>1. TypeOK
  BY DEF WorkerInv
<1>2. ASSUME UNCHANGED <<place, replies, expired>>
      PROVE  UNCHANGED Delivery!vars
  BY <1>2, Unnoticed DEF Stands
<1>3. ASSUME NEW d \in Deliveries, stage[d] \in ReplyKinds, UNCHANGED <<place, expired>>,
             replies' = [replies EXCEPT ![Job(d)] = @ \cup {stage[d]}]
      PROVE  Delivery!Next
  <2>1. Job(d) \in Jobs /\ place[Job(d)] # "unsent"
    BY <1>3, DeliveryParts DEF KeptInv, HeldIsSent, ReplyKinds
  <2>2. Delivery!Answer(Job(d))
    BY <1>1, <1>3, <2>1 DEF Delivery!Answer, TypeOK
  <2>3. QED
    BY <2>1, <2>2 DEF Delivery!Next
<1>4. ASSUME NEW d \in Deliveries, DeliveryStep(d) \/ Publish(d) \/ PublishFails(d)
      PROVE  Delivery!Next \/ UNCHANGED Delivery!vars
  BY <1>2, <1>3, <1>4, SettleRefines DEF DeliveryStep, OnMessage, CheckExpiry, StaleSettle,
     Publish, PublishFails, broker
<1>5. ASSUME NEW w \in Workers, NEW l \in Lanes, LaneStep(w, l)
      PROVE  UNCHANGED Delivery!vars
  BY <1>2, <1>5 DEF LaneStep, TakeBatch, BeginEncode, EndEncode, broker
<1>6. ASSUME NEW j \in Jobs, \/ Submit(j) \/ DeadlinePasses(j) \/ TtlExpires(j)
                             \/ \E w \in Workers : Deliver(w, j)
      PROVE  Delivery!Next \/ UNCHANGED Delivery!vars
  <2>1. CASE Submit(j)
    <3>1. Delivery!Submit(j)
      BY <1>1, <2>1, OneMoves DEF Submit, Delivery!Submit, Stands, Replied, TypeOK
    <3>2. QED
      BY <3>1 DEF Delivery!Next
  <2>2. CASE DeadlinePasses(j)
    <3>1. Delivery!DeadlinePasses(j)
      BY <2>2 DEF DeadlinePasses, broker, Delivery!DeadlinePasses
    <3>2. QED
      BY <3>1 DEF Delivery!Next
  <2>3. CASE TtlExpires(j)
    <3>1. Delivery!Discard(j)
      BY <1>1, <2>3, OneMoves DEF TtlExpires, Delivery!Discard, Stands, Replied, TypeOK
    <3>2. QED
      BY <3>1 DEF Delivery!Next
  <2>4. CASE \E w \in Workers : Deliver(w, j)
    <3>1. \A i \in Jobs : Stands(i)' = Stands(i)
      BY <1>1, <2>4 DEF Deliver, Stands, TypeOK
    <3>2. QED
      BY <2>4, <3>1, Unnoticed DEF Deliver
  <2>5. QED
    BY <1>6, <2>1, <2>2, <2>3, <2>4
<1>7. ASSUME NEW w \in Workers, \/ Stop(w) \/ ShutdownStep(w) \/ GraceOver(w)
                                \/ Crash(w) \/ StartStep(w) \/ StartFails(w) \/ Disconnect(w)
      PROVE  Delivery!Next \/ UNCHANGED Delivery!vars
  <2>1. Unacked(w) \subseteq Jobs /\ \A j \in Unacked(w) : place[j] = "unacked"
    BY UnackedIs DEF WorkerInv, HolderInv, HeldIsUnacked
  <2>2. CASE Close(w) \/ Crash(w) \/ Disconnect(w)
    BY <1>1, <2>1, <2>2, ReturnRefines DEF Close, Crash, GoDown, Disconnect
  <2>3. CASE \/ Stop(w) \/ StartStep(w) \/ StartFails(w) \/ CancelLoops(w) \/ Drained(w)
             \/ GraceOver(w) \/ \E l \in Lanes : CancelConsumer(w, l)
    BY <1>2, <2>3 DEF Stop, StartStep, Start, Consume, StartLoop, Ready, StartFails, CancelLoops,
       Drained, GraceOver, CancelConsumer, broker
  <2>4. QED
    BY <1>7, <2>2, <2>3 DEF ShutdownStep
<1>8. CASE UNCHANGED vars
  BY <1>2, <1>8 DEF vars, broker
<1>9. QED
  BY <1>4, <1>5, <1>6, <1>7, <1>8, NextCases

\* Every run of the workers is one of JobDelivery: whatever crashes, stops and
\* reconnects when, a job that was submitted stays open until it is settled once
\* and for all.  That it is settled at last is left to ImplementsDelivery.
THEOREM WorkersImplementDelivery == Spec => Delivery!Safety
<1>1. Init => Delivery!Init
  BY DEF Init, Delivery!Init
<1>2. QED
  BY <1>1, StepRefinesDelivery, WorkerInvariant, KeptInvariant, PTL DEF Spec, Delivery!Safety

-----------------------------------------------------------------------------
(* ---- the attempts at a job are bounded ---- *)
(*                                                                         *)
(* Every failure of j has been paid for: by a return of j that the broker  *)
(* has counted, by the delivery that is out now, or by an interruption.    *)
(* A delivery that may fail yet counts as spent; so does a process about   *)
(* to close, for what it still holds will come back.                       *)

\* Deliveries of j whose encoding may still fail, processes on their way down.
Before == {"delivered", "buffered", "checking", "live"}
Unfailed(j) == {d \in Deliveries : Job(d) = j /\ stage[d] \in Before}
Stopping == {w \in Workers : mode[w] \in {"draining", "finishing", "flushing", "closing"}}

Spent(j) == failures[j] + Cardinality(Unfailed(j)) + Cardinality(Stopping)

\* Attempts the count of returns stands for; and the one now under way, or the last.
Counted(j) == IF returned[j] < DeliveryLimit THEN returned[j] ELSE DeliveryLimit - 1
Taken(j) == IF place[j] \in {"unsent", "queued"} THEN 0 ELSE 1

\* Deliveries that have not failed and may bring j back without being counted.
Spares(j) == {d \in Deliveries :
                /\ Job(d) = j /\ Fresh(d)
                /\ \/ stage[d] = "ok"
                   \/ stage[d] = "requeue" /\ returned[j] + 1 >= DeliveryLimit}

Within(j) ==
  /\ IsFiniteSet(Unfailed(j))
  /\ LaneOf[j] = "query" => failures[j] = 0
  /\ LaneOf[j] = "index" => /\ Spent(j) <= Counted(j) + Taken(j) + interrupted
                            /\ Spares(j) # {} => Spent(j) <= Counted(j) + interrupted

RetryInv == IsFiniteSet(Stopping) /\ \A j \in Jobs : Within(j)

LEMMA SpentIs ==
  ASSUME TypeOK, NEW j \in Jobs, IsFiniteSet(Stopping), IsFiniteSet(Unfailed(j))
  PROVE  /\ Cardinality(Stopping) \in Nat /\ Cardinality(Unfailed(j)) \in Nat
         /\ failures[j] \in Nat /\ Spent(j) \in Nat
         /\ returned[j] \in 0 .. DeliveryLimit /\ DeliveryLimit \in Nat \ {0}
         /\ Counted(j) \in Nat /\ Counted(j) < DeliveryLimit
         /\ Taken(j) \in {0, 1} /\ interrupted \in Nat
<1>1. Cardinality(Stopping) \in Nat /\ Cardinality(Unfailed(j)) \in Nat
  BY FS_CardinalityType
<1>2. failures[j] \in Nat /\ returned[j] \in 0 .. DeliveryLimit /\ interrupted \in Nat
      /\ DeliveryLimit \in Nat \ {0}
  BY WorkerAssumption DEF TypeOK, MaxFailures
<1>3. QED
  BY <1>1, <1>2 DEF Spent, Counted, Taken

\* Fewer deliveries that may fail, fewer processes on their way down.
LEMMA SpentShrinks ==
  ASSUME TypeOK, TypeOK', NEW j \in Jobs, IsFiniteSet(Stopping), IsFiniteSet(Unfailed(j)),
         Stopping' \subseteq Stopping, Unfailed(j)' \subseteq Unfailed(j),
         failures'[j] = failures[j]
  PROVE  /\ IsFiniteSet(Stopping') /\ IsFiniteSet(Unfailed(j)')
         /\ Spent(j) \in Nat /\ Spent(j)' \in Nat /\ Spent(j)' <= Spent(j)
<1>1. /\ IsFiniteSet(Stopping') /\ Cardinality(Stopping') <= Cardinality(Stopping)
      /\ IsFiniteSet(Unfailed(j)') /\ Cardinality(Unfailed(j)') <= Cardinality(Unfailed(j))
  BY FS_Subset
<1>2. QED
  BY <1>1, SpentIs, FS_CardinalityType DEF Spent

\* What is spent grows only with the interruptions, and nothing becomes spare.
LEMMA StaysWithin ==
  ASSUME TypeOK, TypeOK', NEW j \in Jobs, Within(j), IsFiniteSet(Stopping),
         IsFiniteSet(Stopping'), IsFiniteSet(Unfailed(j)'),
         LaneOf[j] = "query" => failures'[j] = 0,
         Spent(j)' + interrupted <= Spent(j) + interrupted',
         Counted(j) <= Counted(j)', Counted(j) + Taken(j) <= Counted(j)' + Taken(j)',
         Spares(j)' \subseteq Spares(j)
  PROVE  Within(j)'
<1> USE DEF Within
<1>1. /\ Spent(j) \in Nat /\ Counted(j) \in Nat /\ Taken(j) \in Nat /\ interrupted \in Nat
  BY SpentIs
<1>2. /\ Spent(j)' \in Nat /\ Counted(j)' \in Nat /\ Taken(j)' \in Nat /\ interrupted' \in Nat
  <2>1. Cardinality(Stopping') \in Nat /\ Cardinality(Unfailed(j)') \in Nat
    BY FS_CardinalityType
  <2>2. failures'[j] \in Nat /\ returned'[j] \in 0 .. DeliveryLimit /\ interrupted' \in Nat
        /\ DeliveryLimit \in Nat \ {0}
    BY WorkerAssumption DEF TypeOK, MaxFailures
  <2>3. QED
    BY <2>1, <2>2 DEF Spent, Counted, Taken
<1>3. QED
  BY <1>1, <1>2

LEMMA QuietWithin ==
  ASSUME TypeOK, TypeOK', RetryInv, NEW j \in Jobs,
         Stopping' \subseteq Stopping, Unfailed(j)' \subseteq Unfailed(j),
         failures'[j] = failures[j], returned'[j] = returned[j], interrupted' = interrupted,
         place'[j] \in {"unsent", "queued"} => place[j] \in {"unsent", "queued"},
         Spares(j)' \subseteq Spares(j)
  PROVE  IsFiniteSet(Stopping') /\ Within(j)'
<1>1. IsFiniteSet(Stopping) /\ IsFiniteSet(Unfailed(j)) /\ Within(j)
  BY DEF RetryInv, Within
<1>2. /\ IsFiniteSet(Stopping') /\ IsFiniteSet(Unfailed(j)') /\ Spent(j)' <= Spent(j)
      /\ Spent(j) \in Nat /\ Spent(j)' \in Nat /\ interrupted \in Nat
      /\ Counted(j) \in Nat
  BY <1>1, SpentShrinks, SpentIs
<1>3. Counted(j)' = Counted(j) /\ Taken(j) <= Taken(j)' /\ Taken(j) \in Nat /\ Taken(j)' \in Nat
  BY DEF Counted, Taken
<1>4. Spent(j)' + interrupted <= Spent(j) + interrupted'
  BY <1>2
<1>5. Counted(j) <= Counted(j)' /\ Counted(j) + Taken(j) <= Counted(j)' + Taken(j)'
  BY <1>2, <1>3
<1>6. LaneOf[j] = "query" => failures'[j] = 0
  BY <1>1 DEF Within
<1>7. QED
  BY <1>1, <1>2, <1>4, <1>5, <1>6, StaysWithin

\* A step in which only the stages of deliveries change, none back to one
\* before its encoding and none to one that may come back uncounted.
LEMMA StagesWithin ==
  ASSUME TypeOK, TypeOK', RetryInv, UNCHANGED <<place, returned, failures, epoch, interrupted>>,
         Stopping' \subseteq Stopping,
         \A d \in Deliveries : /\ stage'[d] \in Before => stage[d] \in Before
                               /\ stage'[d] = "ok" => stage[d] = "ok"
                               /\ stage'[d] = "requeue" => stage[d] \in {"ok", "requeue"}
  PROVE  RetryInv'
<1>1. ASSUME NEW j \in Jobs
      PROVE  IsFiniteSet(Stopping') /\ Within(j)'
  <2>1. Unfailed(j)' \subseteq Unfailed(j) /\ Spares(j)' \subseteq Spares(j)
    BY DEF Unfailed, Spares, Fresh, Job, Worker
  <2>2. QED
    BY <2>1, QuietWithin
<1>2. IsFiniteSet(Stopping')
  BY FS_Subset DEF RetryInv
<1>3. QED
  BY <1>1, <1>2 DEF RetryInv

\* A delivery is turned away: it was out, and will not fail.
LEMMA TurnAwayWithin ==
  ASSUME TypeOK, TypeOK', HolderInv, RetryInv, NEW d \in Deliveries, TurnAway(d), OnMessage(d)
  PROVE  RetryInv'
<1> USE DEF OnMessage, TurnAway, Move, broker, process
<1>1. UNCHANGED <<place, returned, failures, epoch, interrupted, mode>> /\ Stopping' = Stopping
  BY DEF Stopping
<1>2. stage[d] = "delivered" /\ stage' = [stage EXCEPT ![d] = "requeue"] /\ IsFiniteSet(Stopping)
  BY DEF RetryInv
<1>3. ASSUME NEW j \in Jobs, j # Job(d)
      PROVE  Within(j)'
  <2>1. Unfailed(j)' = Unfailed(j) /\ Spares(j)' = Spares(j)
    BY <1>1, <1>2, <1>3 DEF Unfailed, Spares, Fresh, Job, Worker, TypeOK
  <2>2. QED
    BY <1>1, <2>1, QuietWithin
<1>4. ASSUME NEW j \in Jobs, j = Job(d)
      PROVE  Within(j)'
  <2>1. Within(j) /\ IsFiniteSet(Unfailed(j)) /\ d \in Unfailed(j)
    BY <1>2, <1>4 DEF RetryInv, Within, Unfailed, Before
  <2>2. Unfailed(j)' = Unfailed(j) \ {d}
    BY <1>2 DEF Unfailed, Before, Job, TypeOK
  <2>3. IsFiniteSet(Unfailed(j)') /\ Cardinality(Unfailed(j)') = Cardinality(Unfailed(j)) - 1
    BY <2>1, <2>2, FS_RemoveElement
  <2>4. Spent(j)' = Spent(j) - 1 /\ Counted(j)' = Counted(j) /\ Taken(j)' = Taken(j)
    BY <1>1, <1>2, <2>1, <2>3, SpentIs DEF Spent, Counted, Taken
  <2>5. Spares(j)' \subseteq Spares(j) \cup {d} /\ (d \in Spares(j)' => Taken(j) = 1)
    <3>1. d \in Spares(j)' => place[j] = "unacked"
      BY <1>1, <1>2, <1>4 DEF Spares, Fresh, Worker, HolderInv, HeldIsUnacked, HeldFresh
    <3>2. QED
      BY <1>1, <1>2, <3>1 DEF Spares, Fresh, Job, Worker, TypeOK, Taken
  <2>6. QED
    BY <1>1, <1>2, <2>1, <2>3, <2>4, <2>5, SpentIs DEF Within
<1>5. QED
  BY <1>1, <1>2, <1>3, <1>4 DEF RetryInv

\* A verdict reaches the broker.  A return is counted, or the job may come back
\* because the delivery was spare.
LEMMA SettleWithin ==
  ASSUME TypeOK, TypeOK', HolderInv, RetryInv, NEW d \in Deliveries, Settle(d)
  PROVE  RetryInv'
<1>1. /\ UNCHANGED <<failures, epoch, interrupted, mode>> /\ Stopping' = Stopping
      /\ stage[d] \in Verdicts /\ stage' = [stage EXCEPT ![d] = "none"] /\ Fresh(d)
      /\ IsFiniteSet(Stopping) /\ Job(d) \in Jobs
  BY DeliveryParts DEF Settle, Move, process, Stopping, RetryInv
<1>2. HeldFresh(d) /\ place[Job(d)] = "unacked"
  BY <1>1 DEF HeldFresh, Verdicts, HolderInv, HeldIsUnacked
<1>3. ASSUME NEW j \in Jobs
      PROVE  Unfailed(j)' = Unfailed(j)
  BY <1>1 DEF Unfailed, Before, Verdicts, Job, TypeOK
<1>4. ASSUME NEW j \in Jobs, j # Job(d)
      PROVE  Within(j)'
  <2>1. place'[j] = place[j] /\ returned'[j] = returned[j]
    BY <1>1, <1>4, ReturnTransfers, <1>2 DEF Settle, TypeOK
  <2>2. Spares(j)' = Spares(j)
    BY <1>1, <1>4, <2>1 DEF Spares, Fresh, Job, Worker, TypeOK
  <2>3. QED
    BY <1>1, <1>3, <2>1, <2>2, QuietWithin
<1>5. ASSUME NEW j \in Jobs, j = Job(d)
      PROVE  Within(j)'
  <2>1. Spares(j)' = {}
    <3>1. \A c \in Deliveries : HeldFresh(c) /\ Job(c) = j => c = d
      BY <1>2, <1>5 DEF HolderInv, HeldOnce
    <3>2. QED
      BY <1>1, <3>1 DEF Spares, Fresh, Job, Worker, TypeOK, HeldFresh
  <2>2. CASE stage[d] # "requeue"
    <3>1. place'[j] \notin {"unsent", "queued"} /\ returned' = returned
      BY <1>1, <1>5, <2>2 DEF Settle, Rejected, TypeOK
    <3>2. QED
      BY <1>1, <1>3, <2>1, <3>1, QuietWithin
  <2>3. CASE stage[d] = "requeue"
    <3>1. /\ Within(j) /\ IsFiniteSet(Unfailed(j))
          /\ Taken(j) = 1 /\ Taken(j)' \in {0, 1} /\ Spent(j)' = Spent(j)
      BY <1>1, <1>2, <1>3, <1>5 DEF RetryInv, Within, Taken, Spent
    <3>2. LaneOf[j] = "index" => returned'[j] =
            IF returned[j] < DeliveryLimit THEN returned[j] + 1 ELSE returned[j]
      BY <1>2, <1>5, <2>3, ReturnTransfers DEF Settle
    <3>3. CASE LaneOf[j] = "query"
      BY <1>1, <1>3, <3>1, <3>3 DEF Within
    <3>4. CASE LaneOf[j] = "index" /\ returned[j] + 1 < DeliveryLimit
      <4>1. Counted(j)' = Counted(j) + 1
        BY <3>1, <3>2, <3>4, <1>1, SpentIs DEF Counted
      <4>2. QED
        BY <1>1, <1>3, <2>1, <3>1, <3>4, <4>1, SpentIs DEF Within
    <3>5. CASE LaneOf[j] = "index" /\ returned[j] + 1 >= DeliveryLimit
      <4>1. d \in Spares(j)
        BY <1>1, <1>5, <2>3, <3>5 DEF Spares
      <4>2. Counted(j)' = Counted(j)
        BY <3>1, <3>2, <3>5, <1>1, SpentIs DEF Counted
      <4>3. QED
        BY <1>1, <1>3, <2>1, <3>1, <3>5, <4>1, <4>2, SpentIs DEF Within
    <3>6. QED
      <4>1. LaneOf[j] \in {"query", "index"} /\ returned[j] \in Nat /\ DeliveryLimit \in Nat
        BY <1>1, <3>1, SpentIs, WorkerAssumption DEF Lanes
      <4>2. QED
        BY <4>1, <3>3, <3>4, <3>5
  <2>4. QED
    BY <2>2, <2>3
<1>6. QED
  BY <1>1, <1>4, <1>5 DEF RetryInv

LEMMA OneFewer ==
  ASSUME NEW S, NEW T, NEW x \in S, IsFiniteSet(S), T \subseteq S \ {x}
  PROVE  /\ IsFiniteSet(T) /\ Cardinality(T) \in Nat /\ Cardinality(S) \in Nat
         /\ Cardinality(T) + 1 <= Cardinality(S)
<1>1. IsFiniteSet(S \ {x}) /\ Cardinality(S \ {x}) = Cardinality(S) - 1
  BY FS_RemoveElement
<1>2. IsFiniteSet(T) /\ Cardinality(T) <= Cardinality(S \ {x})
  BY <1>1, FS_Subset
<1>3. QED
  BY <1>1, <1>2, FS_CardinalityType

LEMMA OneMore ==
  ASSUME NEW S, NEW x, IsFiniteSet(S)
  PROVE  /\ IsFiniteSet(S \cup {x}) /\ Cardinality(S \cup {x}) \in Nat
         /\ Cardinality(S) \in Nat /\ Cardinality(S \cup {x}) <= Cardinality(S) + 1
<1>1. Cardinality(S) \in Nat
  BY FS_CardinalityType
<1>2. /\ IsFiniteSet(S \cup {x})
      /\ Cardinality(S \cup {x}) = IF x \in S THEN Cardinality(S) ELSE Cardinality(S) + 1
  BY FS_AddElement
<1>3. QED
  BY <1>1, <1>2

\* An encode ends: each delivery of the batch fails now, or never will.  Two of
\* them can be of the same job, one left over from a connection that is gone.
LEMMA EncodeWithin ==
  ASSUME TypeOK, TypeOK', HolderInv, RetryInv, NEW w \in Workers, NEW l \in Lanes,
         EndEncode(w, l)
  PROVE  RetryInv'
<1>1. PICK F \in SUBSET Batch(w, l) :
     /\ stage' = [d \in Deliveries |->
          CASE d \notin Batch(w, l) -> stage[d]
            [] d \in Batch(w, l) \ F -> Answer(Job(d), "ok")
            [] d \in F /\ l = "query" -> Answer(Job(d), "internal_error")
            [] d \in F /\ l = "index" -> IF LastAttempt(Job(d)) THEN "reject" ELSE "requeue"]
     /\ failures' = [j \in Jobs |-> IF /\ l = "index" /\ j \in {Job(d) : d \in F}
                                      /\ failures[j] < MaxFailures
                                      THEN failures[j] + 1 ELSE failures[j]]
  BY DEF EndEncode
<1>2. /\ UNCHANGED <<place, returned, epoch, interrupted, mode>> /\ Stopping' = Stopping
      /\ IsFiniteSet(Stopping)
  BY DEF EndEncode, broker, Stopping, RetryInv
<1>3. \A d \in Batch(w, l) : d \in Deliveries /\ stage[d] = "live" /\ LaneOf[Job(d)] = l
  BY DEF EndEncode, WantsSlot, Batch, Lane, TypeOK
<1>4. /\ \A d \in Deliveries \ Batch(w, l) : stage'[d] = stage[d]
      /\ \A d \in Batch(w, l) \ F : stage'[d] \in {"ok", "ack"}
      /\ \A d \in F : /\ stage'[d] \in {"internal_error", "ack", "reject", "requeue"}
                      /\ stage'[d] = "requeue" => ~LastAttempt(Job(d))
  BY <1>1, <1>3, AnswerIs DEF Lanes
<1>5. ASSUME NEW j \in Jobs
      PROVE  Unfailed(j)' \subseteq {d \in Unfailed(j) : d \notin Batch(w, l)}
  BY <1>4 DEF Unfailed, Before, Job
<1>6. ASSUME NEW j \in Jobs, LaneOf[j] # l
      PROVE  Within(j)'
  <2>1. failures'[j] = failures[j]
    BY <1>1, <1>3, <1>6
  <2>2. Spares(j)' \subseteq Spares(j)
    BY <1>2, <1>3, <1>4, <1>6 DEF Spares, Fresh, Job, Worker
  <2>3. QED
    BY <1>2, <1>5, <2>1, <2>2, QuietWithin
<1>7. ASSUME NEW j \in Jobs, LaneOf[j] = l, l = "query"
      PROVE  Within(j)'
  <2>1. failures'[j] = failures[j] /\ Within(j)
    BY <1>1, <1>7 DEF RetryInv
  <2>2. IsFiniteSet(Unfailed(j)')
    BY <1>5, <2>1, FS_Subset DEF Within
  <2>3. QED
    BY <1>7, <2>1, <2>2 DEF Within
<1>8. ASSUME NEW j \in Jobs, LaneOf[j] = l, l = "index"
      PROVE  Within(j)'
  <2>1. Within(j) /\ IsFiniteSet(Unfailed(j)) /\ Counted(j)' = Counted(j) /\ Taken(j)' = Taken(j)
    BY <1>2 DEF RetryInv, Within, Counted, Taken
  <2>2. \A d \in Batch(w, l) : Job(d) = j => d \in Unfailed(j)
    BY <1>3 DEF Unfailed, Before
  \* What becomes spare is a success, and it is out on an open channel.
  <2>3. ASSUME NEW d \in Spares(j)', d \notin Spares(j)
        PROVE  d \in Batch(w, l) \ F /\ d \in Unfailed(j) /\ Taken(j) = 1
    <3>1. d \in Deliveries /\ Job(d) = j /\ Fresh(d)
      BY <1>2 DEF Spares, Fresh, Job, Worker
    <3>2. d \in Batch(w, l)
      BY <1>2, <1>4, <2>3, <3>1 DEF Spares, Fresh, Job, Worker
    <3>3. d \notin F
      BY <1>2, <1>4, <3>1 DEF Spares, LastAttempt, Job
    <3>4. place[j] = "unacked"
      BY <1>3, <3>1, <3>2 DEF HolderInv, HeldIsUnacked, HeldFresh
    <3>5. QED
      BY <2>2, <3>1, <3>2, <3>3, <3>4 DEF Taken
  <2>4. CASE \E e \in F : Job(e) = j
    <3>1. PICK e \in F : Job(e) = j
      BY <2>4
    <3>2. e \in Unfailed(j) /\ Unfailed(j)' \subseteq Unfailed(j) \ {e}
      BY <1>5, <2>2, <3>1
    <3>3. /\ IsFiniteSet(Unfailed(j)') /\ Cardinality(Unfailed(j)') \in Nat
          /\ Cardinality(Unfailed(j)') + 1 <= Cardinality(Unfailed(j))
      BY <2>1, <3>2, OneFewer
    <3>4. failures[j] \in Nat /\ failures'[j] \in Nat /\ failures'[j] <= failures[j] + 1
      BY <1>1, <1>2, <2>1, SpentIs
    <3>5. Spent(j)' <= Spent(j) /\ Spent(j)' \in Nat /\ Spent(j) \in Nat
      BY <1>2, <2>1, <3>3, <3>4, SpentIs DEF Spent
    <3>6. ASSUME NEW d \in Spares(j)', d \notin Spares(j)
          PROVE  Spent(j)' + 1 <= Spent(j)
      <4>1. d \in Unfailed(j) \ {e} /\ Unfailed(j)' \subseteq (Unfailed(j) \ {e}) \ {d}
        BY <1>5, <2>3, <3>1, <3>2, <3>6
      <4>2. /\ IsFiniteSet(Unfailed(j) \ {e})
            /\ Cardinality(Unfailed(j) \ {e}) + 1 <= Cardinality(Unfailed(j))
            /\ Cardinality(Unfailed(j) \ {e}) \in Nat
        BY <2>1, <3>2, OneFewer
      <4>3. Cardinality(Unfailed(j)') + 1 <= Cardinality(Unfailed(j) \ {e})
        BY <4>1, <4>2, OneFewer
      <4>4. QED
        BY <1>2, <2>1, <3>3, <3>4, <4>2, <4>3, SpentIs DEF Spent
    <3>7. QED
      BY <1>2, <1>8, <2>1, <2>3, <3>3, <3>5, <3>6, SpentIs DEF Within
  <2>5. CASE \A e \in F : Job(e) # j
    <3>1. failures'[j] = failures[j]
      BY <1>1, <2>5
    <3>2. IsFiniteSet(Unfailed(j)') /\ Spent(j)' <= Spent(j) /\ Spent(j)' \in Nat
      BY <1>2, <1>5, <2>1, <3>1, SpentShrinks
    <3>3. ASSUME NEW d \in Spares(j)', d \notin Spares(j)
          PROVE  Spent(j)' + 1 <= Spent(j)
      <4>1. Unfailed(j)' \subseteq Unfailed(j) \ {d} /\ d \in Unfailed(j)
        BY <1>5, <2>3, <3>3
      <4>2. /\ Cardinality(Unfailed(j)') \in Nat
            /\ Cardinality(Unfailed(j)') + 1 <= Cardinality(Unfailed(j))
        BY <2>1, <4>1, OneFewer
      <4>3. QED
        BY <1>2, <2>1, <3>1, <4>2, SpentIs DEF Spent
    <3>4. QED
      BY <1>2, <1>8, <2>1, <2>3, <3>2, <3>3, SpentIs DEF Within
  <2>6. QED
    BY <2>4, <2>5
<1>9. QED
  BY <1>2, <1>6, <1>7, <1>8 DEF RetryInv, Lanes

\* What w holds comes back: at the price of an interruption, or because w was on
\* its way down.
LEMMA ConnectionEndsWithin ==
  ASSUME TypeOK, TypeOK', HolderInv, RetryInv, NEW w \in Workers, Return(Unacked(w)),
         failures' = failures, Stopping' \subseteq Stopping,
         \A d \in Deliveries : stage'[d] \in {stage[d], "none"},
         \A d \in Deliveries : HeldFresh(d)' => HeldFresh(d) /\ Worker(d) # w,
         \/ interrupted' = interrupted + 1
         \/ interrupted' = interrupted /\ w \in Stopping /\ w \notin Stopping'
  PROVE  RetryInv'
<1>1. IsFiniteSet(Stopping) /\ IsFiniteSet(Stopping')
  BY FS_Subset DEF RetryInv
<1>2. ASSUME NEW j \in Jobs
      PROVE  Within(j)'
  <2>1. Within(j) /\ IsFiniteSet(Unfailed(j)) /\ Unfailed(j)' \subseteq Unfailed(j)
    BY DEF RetryInv, Within, Unfailed, Before, Job
  <2>2. IsFiniteSet(Unfailed(j)') /\ Cardinality(Unfailed(j)') <= Cardinality(Unfailed(j))
        /\ Cardinality(Unfailed(j)') \in Nat
    BY <2>1, FS_Subset, FS_CardinalityType
  <2>3. /\ Spent(j) \in Nat /\ Spent(j)' \in Nat
        /\ Spent(j)' + interrupted + 1 <= Spent(j) + interrupted'
    <3>1. CASE interrupted' = interrupted + 1
      BY <1>1, <2>1, <3>1, SpentShrinks, SpentIs
    <3>2. CASE interrupted' = interrupted /\ w \in Stopping /\ w \notin Stopping'
      <4>1. /\ Cardinality(Stopping') + 1 <= Cardinality(Stopping)
            /\ Cardinality(Stopping') \in Nat
        BY <1>1, <3>2, OneFewer
      <4>2. QED
        BY <1>1, <2>1, <2>2, <3>2, <4>1, SpentIs DEF Spent
    <3>3. QED
      BY <3>1, <3>2
  <2>4. /\ Counted(j) \in Nat /\ Counted(j)' \in Nat /\ Counted(j) <= Counted(j)'
        /\ Taken(j) \in {0, 1} /\ Taken(j)' \in {0, 1} /\ interrupted \in Nat /\ interrupted' \in Nat
    <3>1. /\ returned[j] \in 0 .. DeliveryLimit /\ returned'[j] \in 0 .. DeliveryLimit
          /\ DeliveryLimit \in Nat \ {0} /\ interrupted \in Nat /\ interrupted' \in Nat
      BY WorkerAssumption DEF TypeOK
    <3>2. returned[j] <= returned'[j]
      BY UnackedIs, ReturnTransfers DEF HolderInv, HeldIsUnacked
    <3>3. QED
      BY <3>1, <3>2 DEF Counted, Taken
  <2>5. CASE j \in Unacked(w)
    <3>1. Spares(j)' = {}
      <4>1. \A d \in Deliveries : ~(HeldFresh(d)' /\ Job(d) = j)
        BY <2>5, UnackedIs DEF HolderInv, HeldOnce
      <4>2. QED
        BY <4>1 DEF Spares, HeldFresh, Job, Fresh, Worker
    <3>2. QED
      BY <2>1, <2>2, <2>3, <2>4, <3>1 DEF Within
  <2>6. CASE j \notin Unacked(w)
    <3>1. place'[j] = place[j] /\ returned'[j] = returned[j]
      BY <2>6, UnackedIs, ReturnTransfers DEF HolderInv, HeldIsUnacked
    <3>2. Spares(j)' \subseteq Spares(j)
      BY <3>1 DEF Spares, HeldFresh, Job, Fresh, Worker
    <3>3. Taken(j)' = Taken(j)
      BY <3>1 DEF Taken
    <3>4. /\ LaneOf[j] = "query" => failures'[j] = 0
          /\ Spent(j)' + interrupted <= Spent(j) + interrupted'
          /\ Counted(j) + Taken(j) <= Counted(j)' + Taken(j)'
      BY <2>1, <2>3, <2>4, <3>3 DEF Within
    <3>5. QED
      BY <1>1, <2>1, <2>2, <2>4, <3>2, <3>4, StaysWithin
  <2>7. QED
    BY <2>5, <2>6
<1>3. QED
  BY <1>1, <1>2 DEF RetryInv

\* A process is told to stop, or its start fails: the price is an interruption.
LEMMA StopWithin ==
  ASSUME TypeOK, TypeOK', RetryInv, NEW w \in Workers, Stop(w) \/ StartFails(w)
  PROVE  RetryInv'
<1>1. /\ UNCHANGED <<place, returned, failures, epoch, stage>>
      /\ interrupted' = interrupted + 1 /\ Stopping' = Stopping \cup {w}
      /\ IsFiniteSet(Stopping)
  BY DEF Stop, StartFails, Interrupt, broker, Stopping, TypeOK, RetryInv
<1>2. /\ IsFiniteSet(Stopping') /\ Cardinality(Stopping') \in Nat
      /\ Cardinality(Stopping') <= Cardinality(Stopping) + 1
  BY <1>1, OneMore
<1>3. ASSUME NEW j \in Jobs
      PROVE  Within(j)'
  <2>1. /\ Within(j) /\ IsFiniteSet(Unfailed(j)) /\ Unfailed(j)' = Unfailed(j)
        /\ Spares(j)' = Spares(j) /\ Counted(j)' = Counted(j) /\ Taken(j)' = Taken(j)
    BY <1>1 DEF RetryInv, Within, Unfailed, Spares, Fresh, Counted, Taken
  <2>2. Spent(j)' \in Nat /\ Spent(j)' <= Spent(j) + 1
    BY <1>1, <1>2, <2>1, SpentIs DEF Spent
  <2>3. QED
    BY <1>1, <2>1, <2>2, SpentIs DEF Within
<1>4. QED
  BY <1>2, <1>3 DEF RetryInv

\* One more delivery is out that may fail, and one more attempt is taken.
LEMMA DeliverWithin ==
  ASSUME TypeOK, TypeOK', HolderInv, DeliveryInv, RetryInv,
         NEW w \in Workers, NEW j \in Jobs, Deliver(w, j)
  PROVE  RetryInv'
<1> DEFINE d == <<w, j, epoch[w]>>
<1>1. d \in Deliveries /\ Job(d) = j /\ Fresh(d)
  BY DEF DeliveryInv, EpochsBounded, Deliveries, Job, Fresh, Worker
<1>2. /\ stage' = [stage EXCEPT ![d] = "delivered"]
      /\ place[j] = "queued" /\ place' = [place EXCEPT ![j] = "unacked"]
      /\ UNCHANGED <<returned, failures, epoch, interrupted, mode>> /\ Stopping' = Stopping
      /\ IsFiniteSet(Stopping)
  BY DEF Deliver, Move, process, Stopping, RetryInv
<1> HIDE DEF d
<1>3. ASSUME NEW i \in Jobs, i # j
      PROVE  Within(i)'
  <2>1. Unfailed(i)' = Unfailed(i) /\ Spares(i)' = Spares(i) /\ place'[i] = place[i]
    BY <1>1, <1>2, <1>3 DEF Unfailed, Spares, Fresh, Job, Worker, TypeOK
  <2>2. QED
    BY <1>2, <2>1, QuietWithin
<1>4. Within(j)'
  <2>1. /\ Within(j) /\ IsFiniteSet(Unfailed(j)) /\ Counted(j)' = Counted(j)
        /\ Taken(j) = 0 /\ Taken(j)' = 1
    BY <1>2 DEF RetryInv, Within, Counted, Taken, TypeOK
  <2>2. Unfailed(j)' = Unfailed(j) \cup {d}
    BY <1>1, <1>2 DEF Unfailed, Before, Job, TypeOK
  <2>3. /\ IsFiniteSet(Unfailed(j)') /\ Cardinality(Unfailed(j)') \in Nat
        /\ Cardinality(Unfailed(j)') <= Cardinality(Unfailed(j)) + 1
    BY <2>1, <2>2, OneMore
  <2>4. Spares(j)' = {}
    <3>1. \A c \in Deliveries : HeldFresh(c) => Job(c) # j
      BY <1>2 DEF HolderInv, HeldIsUnacked
    <3>2. QED
      BY <1>1, <1>2, <3>1 DEF Spares, Fresh, Job, Worker, TypeOK, HeldFresh
  <2>5. Spent(j)' \in Nat /\ Spent(j)' <= Spent(j) + 1
    BY <1>2, <2>1, <2>3, SpentIs DEF Spent
  <2>6. QED
    BY <1>2, <2>1, <2>3, <2>4, <2>5, SpentIs DEF Within
<1>5. QED
  BY <1>2, <1>3, <1>4 DEF RetryInv

LEMMA StepKeepsRetries == WorkerInv /\ RetryInv /\ [Next]_vars => RetryInv'
<1> SUFFICES ASSUME WorkerInv, RetryInv, [Next]_vars
             PROVE  RetryInv'
  OBVIOUS
<1>1. TypeOK /\ TypeOK' /\ HolderInv /\ DeliveryInv
  BY StepKeepsTypes DEF WorkerInv
\* One delivery moves on, and nothing else changes but replies.
<1>2. ASSUME NEW d \in Deliveries, NEW s, Move(d, s),
             UNCHANGED <<place, returned, failures, epoch, interrupted, mode>>,
             s \in Before => stage[d] \in Before,
             s = "ok" => stage[d] = "ok", s = "requeue" => stage[d] = "ok"
      PROVE  RetryInv'
  BY <1>1, <1>2, StagesWithin DEF Move, TypeOK, Stopping
<1>3. ASSUME NEW d \in Deliveries, DeliveryStep(d) \/ Publish(d) \/ PublishFails(d)
      PROVE  RetryInv'
  <2> USE DEF broker, process
  <2>1. CASE TurnAway(d) /\ OnMessage(d)
    BY <1>1, <2>1, TurnAwayWithin
  <2>2. CASE Accept(d) /\ OnMessage(d)
    BY <1>2, <2>2, AnswerIs, ExpiryIs DEF Accept, OnMessage, Before
  <2>3. CASE CheckExpiry(d)
    BY <1>2, <2>3, ExpiryIs DEF CheckExpiry, Before
  <2>4. CASE Settle(d)
    BY <1>1, <2>4, SettleWithin
  <2>5. CASE StaleSettle(d)
    <3>1. Stopping' = Stopping
      BY <1>1, <2>5 DEF StaleSettle, Stopping, TypeOK
    <3>2. \A c \in Deliveries : stage'[c] \in {stage[c], "none", "abandoned"}
      BY <2>5 DEF StaleSettle
    <3>3. QED
      BY <1>1, <2>5, <3>1, <3>2, StagesWithin DEF StaleSettle, Before
  <2>6. CASE Publish(d)
    BY <1>2, <2>6 DEF Publish, Before
  <2>7. CASE PublishFails(d)
    BY <1>2, <2>7 DEF PublishFails, Undelivered, Before
  <2>8. QED
    BY <1>3, <2>1, <2>2, <2>3, <2>4, <2>5, <2>6, <2>7 DEF DeliveryStep, OnMessage
<1>4. ASSUME NEW w \in Workers, NEW l \in Lanes, LaneStep(w, l)
      PROVE  RetryInv'
  <2>1. CASE TakeBatch(w, l)
    <3>1. \A d \in Deliveries : \/ stage'[d] = stage[d]
                                \/ stage[d] = "buffered" /\ stage'[d] = "checking"
      BY <2>1 DEF TakeBatch, Buffer
    <3>2. Stopping' = Stopping
      BY <1>1, <2>1 DEF TakeBatch, Stopping, TypeOK
    <3>3. QED
      BY <1>1, <2>1, <3>1, <3>2, StagesWithin DEF TakeBatch, broker, Before
  <2>2. CASE BeginEncode(w, l)
    BY <1>1, <2>2, StagesWithin DEF BeginEncode, broker, Stopping
  <2>3. CASE EndEncode(w, l)
    BY <1>1, <2>3, EncodeWithin
  <2>4. QED
    BY <1>4, <2>1, <2>2, <2>3 DEF LaneStep
<1>5. ASSUME NEW j \in Jobs, \/ Submit(j) \/ DeadlinePasses(j) \/ TtlExpires(j)
      PROVE  RetryInv'
  <2>1. /\ UNCHANGED <<returned, failures, epoch, interrupted, mode, stage>>
        /\ \A i \in Jobs : place'[i] \in {"unsent", "queued"} => place[i] \in {"unsent", "queued"}
    BY <1>1, <1>5 DEF Submit, DeadlinePasses, TtlExpires, broker, process, TypeOK
  <2>2. Stopping' = Stopping /\ \A i \in Jobs : Unfailed(i)' = Unfailed(i) /\ Spares(i)' = Spares(i)
    BY <2>1 DEF Stopping, Unfailed, Spares, Fresh
  <2>3. QED
    BY <1>1, <2>1, <2>2, QuietWithin DEF RetryInv
<1>6. ASSUME NEW j \in Jobs, NEW w \in Workers, Deliver(w, j)
      PROVE  RetryInv'
  BY <1>1, <1>6, DeliverWithin
<1>7. ASSUME NEW w \in Workers, \/ Stop(w) \/ ShutdownStep(w) \/ GraceOver(w)
                                \/ Crash(w) \/ StartStep(w) \/ StartFails(w) \/ Disconnect(w)
      PROVE  RetryInv'
  <2>1. CASE Stop(w) \/ StartFails(w)
    BY <1>1, <2>1, StopWithin
  <2>2. CASE Close(w) \/ Crash(w)
    <3>1. /\ GoDown(w)
          /\ \/ interrupted' = interrupted + 1
             \/ interrupted' = interrupted /\ w \in Stopping
      <4>1. CASE Close(w)
        BY <4>1 DEF Close, Stopping
      <4>2. CASE Crash(w)
        BY <4>2 DEF Crash, Interrupt
      <4>3. QED
        BY <2>2, <4>1, <4>2
    <3>2. Stopping' = Stopping \ {w}
      BY <1>1, <3>1 DEF GoDown, Stopping, TypeOK
    <3>3. \A d \in Deliveries : /\ stage'[d] \in {stage[d], "none"}
                                /\ HeldFresh(d)' => HeldFresh(d) /\ Worker(d) # w
      BY <3>1 DEF GoDown, HeldFresh, Fresh, Worker
    <3>4. QED
      BY <1>1, <3>1, <3>2, <3>3, ConnectionEndsWithin DEF GoDown
  <2>3. CASE Disconnect(w)
    <3>1. /\ Return(Unacked(w)) /\ interrupted' = interrupted + 1
          /\ epoch' = [epoch EXCEPT ![w] = @ + 1] /\ UNCHANGED <<failures, mode, stage>>
      BY <2>3 DEF Disconnect, Interrupt
    <3>2. ASSUME NEW d \in Deliveries, stage[d] # "none", Worker(d) = w
          PROVE  d[3] # epoch[w] + 1
      BY <1>1, <3>2, DeliveryParts, EpochsAreNat DEF DeliveryInv, EpochsPast, TypeOK
    <3>3. \A d \in Deliveries : HeldFresh(d)' => HeldFresh(d) /\ Worker(d) # w
      BY <1>1, <3>1, <3>2, DeliveryParts DEF HeldFresh, Fresh, Worker, TypeOK
    <3>4. Stopping' = Stopping
      BY <3>1 DEF Stopping
    <3>5. QED
      BY <1>1, <3>1, <3>3, <3>4, ConnectionEndsWithin
  <2>4. CASE \/ StartStep(w) \/ CancelLoops(w) \/ Drained(w) \/ GraceOver(w)
             \/ \E l \in Lanes : CancelConsumer(w, l)
    <3>1. Stopping' = Stopping
      BY <1>1, <2>4 DEF StartStep, Start, Consume, StartLoop, Ready, CancelLoops, Drained, GraceOver,
         CancelConsumer, Stopping, TypeOK
    <3>2. /\ UNCHANGED <<place, returned, failures, epoch, interrupted>>
          /\ \A d \in Deliveries : stage'[d] \in {stage[d], "abandoned"}
      BY <2>4 DEF StartStep, Start, Consume, StartLoop, Ready, CancelLoops, KeepBatches, Drained,
         GraceOver, Abandon, CancelConsumer, broker
    <3>3. QED
      BY <1>1, <3>1, <3>2, StagesWithin DEF Before
  <2>5. QED
    BY <1>7, <2>1, <2>2, <2>3, <2>4 DEF ShutdownStep
<1>8. CASE UNCHANGED vars
  BY <1>1, <1>8, StagesWithin DEF vars, broker, process, Stopping
<1>9. QED
  BY <1>3, <1>4, <1>5, <1>6, <1>7, <1>8, NextCases

\* Encoding a job fails at most DeliveryLimit times, and once more for each
\* interruption: whatever is returned, settled late or encoded twice.
THEOREM AttemptsAreBounded == Spec => []RetriesBounded
<1>1. Init => RetryInv
  <2> SUFFICES ASSUME Init
               PROVE  RetryInv
    OBVIOUS
  <2>1. Stopping = {} /\ \A j \in Jobs : Unfailed(j) = {} /\ Spares(j) = {}
    BY DEF Init, Stopping, Unfailed, Before, Spares
  <2>2. \A j \in Jobs : failures[j] = 0 /\ returned[j] = 0 /\ Taken(j) = 0 /\ interrupted = 0
    BY DEF Init, Taken
  <2>3. IsFiniteSet({}) /\ Cardinality({}) = 0
    BY FS_EmptySet
  <2>4. \A j \in Jobs : Spent(j) = 0 /\ Counted(j) = 0
    BY <2>1, <2>2, <2>3, WorkerAssumption DEF Spent, Counted
  <2>5. QED
    BY <2>1, <2>2, <2>3, <2>4 DEF RetryInv, Within
<1>2. TypeOK /\ RetryInv => RetriesBounded
  <2> SUFFICES ASSUME TypeOK, RetryInv, NEW j \in Jobs
               PROVE  failures[j] <= DeliveryLimit + interrupted
    BY DEF RetriesBounded
  <2>1. Within(j) /\ LaneOf[j] \in {"query", "index"}
    BY WorkerAssumption DEF RetryInv, Lanes
  <2>2. QED
    BY <2>1, SpentIs DEF Within, RetryInv, Spent
<1>3. QED
  BY <1>1, <1>2, StepKeepsRetries, WorkerInvariant, WorkerTypes, PTL DEF Spec

-----------------------------------------------------------------------------
(* ---- no delivery is abandoned ---- *)
(*                                                                         *)
(* This holds only as long as the connection is not replaced: the          *)
(* exception of a stale ack or nack ends a lane loop, and what is buffered *)
(* there is left to nobody.                                                *)

\* Every lane of w that has been started, or has a batch, has its loop until the
\* loops are stopped; what w holds before it is stopped came in on a lane it
\* consumes; and a delivery in the middle of a batch has its _process until the
\* grace period is over.
Minded(w) ==
  epoch[w] = 0 =>
    /\ mode[w] \in Tending => tagged[w] \subseteq looping[w]
    /\ mode[w] = "starting" => consuming[w] \subseteq Serves[w]
    /\ mode[w] = "ready" => consuming[w] \subseteq tagged[w]
    /\ \A d \in Deliveries : Worker(d) = w /\ stage[d] # "none" =>
         /\ mode[w] \in {"starting", "ready"} => Lane(d) \in consuming[w]
         /\ mode[w] \in Tending /\ d \in batched => Lane(d) \in looping[w]
         /\ mode[w] # "closing" => /\ stage[d] # "abandoned"
                                   /\ stage[d] \in {"checking", "live"} => d \in batched

MindedInv == \A w \in Workers : Minded(w)

\* How d changes in a step that leaves its worker at work.
Minds(d) ==
  /\ stage'[d] # "none" => stage[d] # "none"
  /\ stage'[d] = "abandoned" => stage[d] = "abandoned"
  /\ d \in batched' => d \in batched
  /\ stage'[d] \in {"checking", "live"} =>
       d \in batched' \/ (stage[d] \in {"checking", "live"} /\ d \notin batched)

LEMMA StaysMinded ==
  ASSUME NEW w \in Workers, Minded(w),
         UNCHANGED <<mode[w], consuming[w], tagged[w], looping[w], epoch[w]>>,
         \A d \in Deliveries : Worker(d) = w => Minds(d)
  PROVE  Minded(w)'
  BY DEF Minded, Minds, Worker, Lane, Job

\* On the first connection of a process every delivery is fresh.
LEMMA StaleIsLater ==
  ASSUME TypeOK, DeliveryInv, NEW d \in Deliveries, stage[d] # "none", ~Fresh(d)
  PROVE  epoch[Worker(d)] # 0
<1>1. d[3] \in Nat /\ epoch[Worker(d)] \in Nat /\ d[3] <= epoch[Worker(d)]
  BY DeliveryParts, EpochsAreNat DEF DeliveryInv, EpochsPast, EpochsBounded
<1>2. d[3] # epoch[Worker(d)]
  BY DEF Fresh
<1>3. QED
  BY <1>1, <1>2

LEMMA StepKeepsMinded ==
  ASSUME WorkerInv, MindedInv, [Next]_vars
  PROVE  MindedInv'
<1>1. TypeOK /\ DeliveryInv /\ LoopInv
  BY DEF WorkerInv
<1>2. ASSUME UNCHANGED <<mode, consuming, tagged, looping, epoch>>, \A d \in Deliveries : Minds(d)
      PROVE  MindedInv'
  BY <1>2, StaysMinded DEF MindedInv
<1>3. ASSUME NEW d \in Deliveries, DeliveryStep(d) \/ Publish(d) \/ PublishFails(d)
      PROVE  MindedInv'
  <2> USE <1>1 DEF process, Move, Minds, TypeOK
  <2>1. CASE TurnAway(d) /\ OnMessage(d)
    BY <1>2, <2>1 DEF TurnAway, OnMessage
  <2>2. CASE Accept(d) /\ OnMessage(d)
    BY <1>2, <2>2, AnswerIs, ExpiryIs DEF Accept, OnMessage
  <2>3. CASE CheckExpiry(d)
    BY <1>2, <2>3, ExpiryIs DEF CheckExpiry
  <2>4. CASE Settle(d)
    BY <1>2, <2>4 DEF Settle, Verdicts
  <2>5. CASE StaleSettle(d)
    <3>1. epoch[Worker(d)] # 0 /\ Worker(d) \in Workers
      BY <2>5, StaleIsLater, DeliveryParts DEF StaleSettle, Verdicts
    <3>2. ASSUME NEW v \in Workers \ {Worker(d)}
          PROVE  Minded(v)'
      <4>1. UNCHANGED <<mode[v], consuming[v], tagged[v], looping[v], epoch[v]>>
        BY <2>5 DEF StaleSettle
      <4>2. \A c \in Deliveries : Worker(c) = v =>
              stage'[c] = stage[c] /\ (c \in batched <=> c \in batched')
        BY <2>5 DEF StaleSettle, Forgotten, Batch
      <4>3. QED
        BY <4>1, <4>2, StaysMinded DEF MindedInv
    <3>3. epoch' = epoch
      BY <2>5 DEF StaleSettle
    <3>4. Minded(Worker(d))'
      BY <3>1, <3>3 DEF Minded, Worker
    <3>5. QED
      BY <3>2, <3>4 DEF MindedInv, Worker
  <2>6. CASE Publish(d)
    BY <1>2, <2>6 DEF Publish, ReplyKinds
  <2>7. CASE PublishFails(d)
    BY <1>2, <2>7 DEF PublishFails, Undelivered, ReplyKinds
  <2>8. QED
    BY <1>3, <2>1, <2>2, <2>3, <2>4, <2>5, <2>6, <2>7 DEF DeliveryStep, OnMessage
<1>4. ASSUME NEW w \in Workers, NEW l \in Lanes, LaneStep(w, l)
      PROVE  MindedInv'
  <2>1. CASE TakeBatch(w, l)
    <3>1. PICK B \in SUBSET Buffer(w, l) \ {{}} :
            /\ batched' = batched \cup B
            /\ stage' = [d \in Deliveries |-> IF d \in B THEN "checking" ELSE stage[d]]
      BY <2>1 DEF TakeBatch
    <3>2. \A d \in B : d \in Deliveries /\ Worker(d) = w /\ Lane(d) = l /\ stage[d] = "buffered"
      BY DEF Buffer, Held
    <3>3. /\ UNCHANGED <<consuming, tagged, looping, epoch>>
          /\ \A v \in Workers : \/ mode'[v] = mode[v]
                                \/ mode[v] = "finishing" /\ mode'[v] = "flushing"
          /\ l \in looping[w] \/ mode[w] \in {"finishing", "flushing"}
      BY <1>1, <2>1 DEF TakeBatch, TypeOK
    <3>4. ASSUME NEW v \in Workers, epoch[v] = 0
          PROVE  /\ mode'[v] \in Tending => tagged'[v] \subseteq looping'[v]
                 /\ mode'[v] = "starting" => consuming'[v] \subseteq Serves[v]
                 /\ mode'[v] = "ready" => consuming'[v] \subseteq tagged'[v]
      BY <3>3, <3>4 DEF MindedInv, Minded, Tending
    <3>5. ASSUME NEW v \in Workers, epoch[v] = 0,
                 NEW d \in Deliveries, Worker(d) = v, stage'[d] # "none"
          PROVE  /\ mode'[v] \in {"starting", "ready"} => Lane(d) \in consuming'[v]
                 /\ mode'[v] \in Tending /\ d \in batched' => Lane(d) \in looping'[v]
                 /\ mode'[v] # "closing" => /\ stage'[d] # "abandoned"
                                            /\ stage'[d] \in {"checking", "live"} => d \in batched'
      <4>1. CASE d \in B
        BY <3>1, <3>2, <3>3, <3>5, <4>1 DEF MindedInv, Minded, Tending
      <4>2. CASE d \notin B
        BY <3>1, <3>3, <3>5, <4>2 DEF MindedInv, Minded, Tending
      <4>3. QED
        BY <4>1, <4>2
    <3>6. ASSUME NEW v \in Workers
          PROVE  Minded(v)'
      BY <3>3, <3>4, <3>5 DEF Minded, Worker, Lane, Job
    <3>7. QED
      BY <3>6 DEF MindedInv
  <2>2. CASE BeginEncode(w, l)
    BY <1>2, <2>2 DEF BeginEncode, Minds
  <2>3. CASE EndEncode(w, l)
    <3>1. /\ UNCHANGED <<mode, consuming, tagged, looping, epoch, batched>>
          /\ \A d \in Deliveries \ Batch(w, l) : stage'[d] = stage[d]
          /\ \A d \in Batch(w, l) : /\ stage[d] = "live"
                                    /\ stage'[d] \notin {"none", "abandoned", "checking", "live"}
      BY <1>1, <2>3, AnswerIs DEF EndEncode, WantsSlot, Batch, Lanes, TypeOK
    <3>2. QED
      BY <1>2, <3>1 DEF Minds
  <2>4. QED
    BY <1>4, <2>1, <2>2, <2>3 DEF LaneStep
<1>5. ASSUME NEW j \in Jobs, \/ Submit(j) \/ DeadlinePasses(j) \/ TtlExpires(j)
      PROVE  MindedInv'
  BY <1>2, <1>5 DEF Submit, DeadlinePasses, TtlExpires, process, Minds
\* The lane of what is delivered is consumed.
<1>6. ASSUME NEW j \in Jobs, NEW w \in Workers, Deliver(w, j)
      PROVE  MindedInv'
  <2> DEFINE c == <<w, j, epoch[w]>>
  <2>1. Worker(c) = w /\ Job(c) = j /\ (epoch[w] = 0 => c[3] = 0)
    BY DEF Worker, Job
  <2>2. /\ stage' = [stage EXCEPT ![c] = "delivered"] /\ LaneOf[j] \in consuming[w]
        /\ place[j] = "queued" /\ UNCHANGED <<mode, consuming, tagged, looping, epoch, batched>>
    BY <1>6 DEF Deliver, Move, process
  <2>3. c \in Deliveries => stage[c] = "none"
    BY <2>1, <2>2 DEF WorkerInv, HolderInv, HeldIsUnacked, HeldFresh, Fresh
  <2> HIDE DEF c
  <2>4. \A d \in Deliveries : stage'[d] = stage[d] \/ (d = c /\ stage'[d] = "delivered")
    BY <1>1, <2>2 DEF TypeOK
  <2>5. c \notin batched
    BY <1>1, <2>3 DEF DeliveryInv, BatchedIsHeld, TypeOK
  <2>6. ASSUME NEW v \in Workers
        PROVE  Minded(v)'
    BY <2>1, <2>2, <2>4, <2>5 DEF MindedInv, Minded, Worker, Lane, Job
  <2>7. QED
    BY <2>6 DEF MindedInv
<1>7. ASSUME NEW w \in Workers, \/ Stop(w) \/ ShutdownStep(w) \/ GraceOver(w)
                                \/ Crash(w) \/ StartStep(w) \/ StartFails(w) \/ Disconnect(w)
      PROVE  MindedInv'
  <2> USE <1>1 DEF TypeOK
  \* The other processes are not concerned.
  <2>1. ASSUME NEW v \in Workers \ {w}
        PROVE  Minded(v)'
    <3>1. UNCHANGED <<mode[v], consuming[v], tagged[v], looping[v], epoch[v]>>
      BY <1>7 DEF Stop, ShutdownStep, CancelConsumer, CancelLoops, Drained, Close,
         GraceOver, Crash, GoDown, StartStep, Start, Consume, StartLoop, Ready, StartFails, Disconnect
    <3>2. \A d \in Deliveries : Worker(d) = v =>
             stage'[d] = stage[d] /\ (d \in batched <=> d \in batched')
      BY <1>7 DEF Stop, ShutdownStep, CancelConsumer, CancelLoops, KeepBatches, Drained,
         Close, GraceOver, Abandon, Crash, GoDown, StartStep, Start, Consume, StartLoop, Ready,
         StartFails, Disconnect
    <3>3. QED
      BY <3>1, <3>2, StaysMinded DEF MindedInv, Minds
  <2>2. Minded(w)'
    <3> USE DEF MindedInv, Minded, Tending, Worker, Lane, Job
    <3>1. CASE Close(w) \/ Crash(w)
      BY <3>1 DEF Close, Crash, GoDown
    <3>2. CASE GraceOver(w)
      BY <3>2 DEF GraceOver, Abandon, DeliveryInv, BatchedIsHeld
    <3>3. CASE Stop(w) \/ StartFails(w)
      BY <3>3 DEF Stop, StartFails
    <3>4. CASE CancelLoops(w)
      BY <3>4 DEF CancelLoops, KeepBatches
    <3>5. CASE Drained(w)
      BY <3>5 DEF Drained
    <3>6. CASE \E l \in Lanes : CancelConsumer(w, l)
      BY <3>6 DEF CancelConsumer
    \* A process that is down holds nothing and consumes nothing.
    <3>7. CASE Start(w)
      <4>1. /\ mode[w] = "down" /\ consuming[w] = {} /\ looping[w] = {}
            /\ \A d \in Deliveries : Worker(d) = w => stage[d] = "none"
        BY <3>7 DEF Start, LoopInv, Looped
      <4>2. tagged[w] = {}
        BY <4>1 DEF LoopInv, Looped
      <4>3. QED
        BY <3>7, <4>1, <4>2 DEF Start
    <3>8. CASE \E l \in Lanes : Consume(w, l)
      BY <3>8 DEF Consume
    <3>9. CASE \E l \in Lanes : StartLoop(w, l)
      BY <3>9 DEF StartLoop
    <3>10. CASE Ready(w)
      BY <3>10 DEF Ready
    <3>11. CASE Disconnect(w)
      BY <3>11, EpochsAreNat DEF Disconnect, DeliveryInv, EpochsBounded
    <3>12. QED
      BY <1>7, <3>1, <3>2, <3>3, <3>4, <3>5, <3>6, <3>7, <3>8, <3>9, <3>10, <3>11
         DEF ShutdownStep, StartStep
  <2>3. QED
    BY <2>1, <2>2 DEF MindedInv
<1>8. CASE UNCHANGED vars
  BY <1>2, <1>8 DEF vars, process, Minds
<1>9. QED
  BY <1>3, <1>4, <1>5, <1>6, <1>7, <1>8, NextCases

\* A worker whose connection lasts keeps a coroutine in charge of everything it
\* has taken, until its grace period is over: starting, stopping and crashing
\* at any time orphan neither a buffered delivery nor a batch.
THEOREM NothingIsAbandoned == Spec => []NothingAbandoned
<1>1. Init => MindedInv
  BY DEF Init, MindedInv, Minded, Tending
<1>2. WorkerInv /\ MindedInv /\ [Next]_vars => MindedInv'
  BY StepKeepsMinded
<1>3. WorkerInv /\ MindedInv => NothingAbandoned
  <2> SUFFICES ASSUME WorkerInv, MindedInv, NEW d \in Deliveries,
                      epoch[Worker(d)] = 0, mode[Worker(d)] # "closing"
               PROVE  LET w == Worker(d)
                          looped == Lane(d) \in looping[w] \/ mode[w] \in {"finishing", "flushing"}
                          toCome == \/ mode[w] = "starting" /\ Lane(d) \in consuming[w] \ tagged[w]
                                    \/ mode[w] = "draining"
                      IN  /\ stage[d] # "abandoned"
                          /\ stage[d] = "buffered" => looped \/ toCome
                          /\ stage[d] \in {"checking", "live"} => d \in batched
                          /\ d \in batched => looped
    BY DEF NothingAbandoned
  <2>1. /\ Worker(d) \in Workers /\ Minded(Worker(d)) /\ mode[Worker(d)] \in Modes
        /\ mode[Worker(d)] = "down" => stage[d] = "none"
    BY DeliveryParts DEF MindedInv, WorkerInv, TypeOK, LoopInv, Looped
  <2>2. d \in batched => stage[d] # "none"
    BY DEF WorkerInv, DeliveryInv, BatchedIsHeld
  <2>3. QED
    BY <2>1, <2>2 DEF Minded, Tending, Modes
<1>4. QED
  BY <1>1, <1>2, <1>3, WorkerInvariant, PTL DEF Spec

=============================================================================
