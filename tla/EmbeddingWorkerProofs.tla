------------------------ MODULE EmbeddingWorkerProofs ------------------------
(***************************************************************************)
(* Safety of EmbeddingWorker for every number of workers and jobs, every   *)
(* delivery limit and every number of interruptions.                       *)
(*                                                                         *)
(* AckedMeansAnswered is not inductive: an ack is decided steps before it  *)
(* reaches the broker, so AcksJustified says the same of acks on their     *)
(* way.  UnackedInHand takes two parts: an unacked message has a delivery  *)
(* on an open channel (HolderInv), for which no delivery may carry the     *)
(* number of a connection still to come (EpochsPast); and where part of a  *)
(* batch is lost its loop is gone and not started again (LoopInv).         *)
(***************************************************************************)
EXTENDS EmbeddingWorker, FiniteSetTheorems, TLAPS

\* What justifies the ack of j.
Answered(j) == \/ replies[j] # {} \/ j \in NoReplyTo
               \/ LaneOf[j] = "query" /\ j \in expired

AcksJustified == \A d \in Deliveries : stage[d] = "ack" => Answered(Job(d))

AckInv == AckedMeansAnswered /\ AcksJustified

\* A process holds d, and its calls for d reach the broker.
HeldFresh(d) == stage[d] # "none" /\ Fresh(d)

HeldIsUnacked == \A d \in Deliveries : HeldFresh(d) => place[Job(d)] = "unacked"
UnackedIsHeld ==
  \A j \in Jobs : place[j] = "unacked" => \E d \in Deliveries : HeldFresh(d) /\ Job(d) = j
HeldOnce ==
  \A d, e \in Deliveries : HeldFresh(d) /\ HeldFresh(e) /\ Job(d) = Job(e) => d = e

HolderInv == HeldIsUnacked /\ UnackedIsHeld /\ HeldOnce

EpochsPast == \A d \in Deliveries : stage[d] # "none" => d[3] <= epoch[Worker(d)]
EpochsBounded == \A w \in Workers : epoch[w] \in Epochs /\ epoch[w] <= interrupted

BatchedIsHeld == \A d \in batched : stage[d] # "none"

DeliveryInv == EpochsPast /\ EpochsBounded /\ BatchedIsHeld

\* No coroutine answers for d any more.
Lost(d) == stage[d] = "abandoned" \/ (stage[d] \in {"checking", "live"} /\ d \notin batched)

\* d is or was in a batch that was not encoded.
InBatch == {"checking", "live", "abandoned"}

\* The modes in which w can have lane loops.
Tending == {"starting", "ready", "draining"}

\* A loop has lost nothing; a lane still to be started has had no batch, and a
\* process that is down has nothing at all.
Looped(w) ==
  /\ mode[w] \notin Tending => looping[w] = {}
  /\ mode[w] = "starting" => looping[w] \subseteq tagged[w]
  /\ mode[w] = "down" => consuming[w] = {} /\ tagged[w] = {}
  /\ \A d \in Deliveries : Worker(d) = w =>
       /\ mode[w] = "down" => stage[d] = "none"
       /\ Lost(d) => Lane(d) \notin looping[w]
       /\ mode[w] = "starting" /\ stage[d] \in InBatch => Lane(d) \in tagged[w]

LoopInv == \A w \in Workers : Looped(w)

WorkerInv == TypeOK /\ AckInv /\ HolderInv /\ DeliveryInv /\ LoopInv

-----------------------------------------------------------------------------
(* ---- the operators of the model ---- *)

LEMMA DeliveryParts ==
  ASSUME NEW d \in Deliveries
  PROVE  /\ Worker(d) \in Workers /\ Job(d) \in Jobs /\ Lane(d) \in Lanes
         /\ d[3] \in Epochs /\ d = <<Worker(d), Job(d), d[3]>>
  BY WorkerAssumption DEF Deliveries, Worker, Job, Lane

LEMMA EpochsAreNat == Epochs \subseteq Nat
  BY WorkerAssumption DEF Epochs

\* An answer is what was asked for, or an ack that needs no reply.
LEMMA AnswerIs ==
  ASSUME NEW j, NEW kind
  PROVE  /\ Answer(j, kind) \in {kind, "ack"}
         /\ Answer(j, kind) = "ack" => kind = "ack" \/ j \in NoReplyTo
  BY DEF Answer

LEMMA ExpiryIs ==
  ASSUME NEW j
  PROVE  /\ Expiry(j) \in {"expired", "ack"}
         /\ Expiry(j) = "ack" => LaneOf[j] = "query" \/ j \in NoReplyTo
  BY AnswerIs DEF Expiry

LEMMA NextHolderIs ==
  ASSUME NEW w, NEW l
  PROVE  NextHolder(w, l) \in Lanes \cup {"free"}
<1>1. CASE \E k \in Lanes \ {l} : WantsSlot(w, k)
  <2>1. (CHOOSE k \in Lanes \ {l} : WantsSlot(w, k)) \in Lanes \ {l}
    BY <1>1
  <2>2. QED
    BY <1>1, <2>1 DEF NextHolder
<1>2. QED
  BY <1>1 DEF NextHolder

LEMMA UnackedIs ==
  ASSUME NEW w \in Workers
  PROVE  /\ Unacked(w) \subseteq Jobs
         /\ \A d \in Deliveries : HeldFresh(d) /\ Worker(d) = w => Job(d) \in Unacked(w)
         /\ \A j \in Unacked(w) :
              \E d \in Deliveries : HeldFresh(d) /\ Worker(d) = w /\ Job(d) = j
  BY DeliveryParts DEF Unacked, Held, HeldFresh

\* What the broker does with messages that come back.
LEMMA ReturnIs ==
  ASSUME TypeOK, NEW S \in SUBSET Jobs, Return(S)
  PROVE  /\ place' \in [Jobs -> Places]
         /\ returned' \in [Jobs -> 0 .. DeliveryLimit]
         /\ \A j \in S : place'[j] \in {"queued", "dead"}
         /\ \A j \in Jobs \ S : place'[j] = place[j]
<1> DEFINE index == {j \in S : LaneOf[j] = "index"}
<1>1. PICK D \in SUBSET {j \in index : returned[j] = DeliveryLimit} :
        /\ place' = [j \in Jobs |-> IF j \in D THEN "dead" ELSE
                                    IF j \in S THEN "queued" ELSE place[j]]
        /\ returned' = [j \in Jobs |-> IF j \in index /\ returned[j] < DeliveryLimit
                                         THEN returned[j] + 1 ELSE returned[j]]
  BY DEF Return
<1>2. D \subseteq S
  OBVIOUS
<1>3. place' \in [Jobs -> Places]
  BY <1>1 DEF TypeOK, Places, Settled
<1>4. returned' \in [Jobs -> 0 .. DeliveryLimit]
  <2> HIDE DEF index
  <2>1. \A j \in Jobs : returned[j] \in 0 .. DeliveryLimit
    BY DEF TypeOK
  <2>2. QED
    BY <1>1, <2>1, WorkerAssumption
<1>5. QED
  BY <1>1, <1>2, <1>3, <1>4

-----------------------------------------------------------------------------
LEMMA InitWorkerInv == Init => WorkerInv
<1> SUFFICES ASSUME Init
             PROVE  WorkerInv
  OBVIOUS
<1>1. TypeOK
  BY WorkerAssumption DEF Init, TypeOK, Places, Settled, Modes, Stages, MaxFailures
<1>2. AckInv /\ HolderInv
  BY DeliveryParts DEF Init, AckInv, AckedMeansAnswered, AcksJustified, HolderInv,
     HeldIsUnacked, UnackedIsHeld, HeldOnce, HeldFresh
<1>3. DeliveryInv
  BY WorkerAssumption DEF Init, DeliveryInv, EpochsPast, EpochsBounded, BatchedIsHeld, Epochs
<1>4. LoopInv
  BY DEF Init, LoopInv, Looped, Lost, InBatch
<1>5. QED
  BY <1>1, <1>2, <1>3, <1>4 DEF WorkerInv

-----------------------------------------------------------------------------
(* ---- type correctness ---- *)

LEMMA MoveKeepsStage ==
  ASSUME TypeOK, NEW d \in Deliveries, NEW s \in Stages, Move(d, s)
  PROVE  stage' \in [Deliveries -> Stages]
  BY DEF TypeOK, Move

LEMMA GoDownKeepsTypes ==
  ASSUME TypeOK, NEW w \in Workers, GoDown(w), interrupted' \in 0 .. MaxInterruptions
  PROVE  TypeOK'
<1>1. place' \in [Jobs -> Places] /\ returned' \in [Jobs -> 0 .. DeliveryLimit]
  BY UnackedIs, ReturnIs DEF GoDown
<1>2. mode' \in [Workers -> Modes] /\ slot' \in [Workers -> Lanes \cup {"free"}]
  BY DEF GoDown, TypeOK, Modes
<1>3. /\ consuming' \in [Workers -> SUBSET Lanes] /\ tagged' \in [Workers -> SUBSET Lanes]
      /\ looping' \in [Workers -> SUBSET Lanes]
  BY DEF GoDown, TypeOK
<1>4. stage' \in [Deliveries -> Stages] /\ batched' \subseteq Deliveries
  BY DEF GoDown, TypeOK, Stages
<1>5. QED
  BY <1>1, <1>2, <1>3, <1>4 DEF GoDown, TypeOK

LEMMA DeliveryStepTypes ==
  ASSUME TypeOK, NEW d \in Deliveries,
         DeliveryStep(d) \/ Publish(d) \/ PublishFails(d)
  PROVE  TypeOK'
<1> USE DeliveryParts
<1>1. CASE OnMessage(d)
  <2>1. stage' \in [Deliveries -> Stages]
    <3>1. CASE TurnAway(d)
      BY <3>1, MoveKeepsStage DEF TurnAway, Stages, Verdicts
    <3>2. CASE Accept(d)
      BY <3>2, MoveKeepsStage, AnswerIs, ExpiryIs DEF Accept, Stages, Verdicts, ReplyKinds
    <3>3. QED
      BY <1>1, <3>1, <3>2 DEF OnMessage
  <2>2. QED
    BY <1>1, <2>1 DEF OnMessage, TypeOK, broker, process
<1>2. CASE CheckExpiry(d)
  <2>1. stage' \in [Deliveries -> Stages]
    BY <1>2, MoveKeepsStage, ExpiryIs DEF CheckExpiry, Stages, Verdicts, ReplyKinds
  <2>2. QED
    BY <1>2, <2>1 DEF CheckExpiry, TypeOK, broker, process
<1>3. CASE Settle(d)
  <2>1. place' \in [Jobs -> Places] /\ returned' \in [Jobs -> 0 .. DeliveryLimit]
    <3>1. CASE stage[d] = "requeue"
      BY <1>3, <3>1, ReturnIs DEF Settle
    <3>2. CASE stage[d] # "requeue"
      BY <1>3, <3>2 DEF Settle, Rejected, TypeOK, Places, Settled
    <3>3. QED
      BY <3>1, <3>2
  <2>2. stage' \in [Deliveries -> Stages]
    BY <1>3, MoveKeepsStage DEF Settle, Stages
  <2>3. QED
    BY <1>3, <2>1, <2>2 DEF Settle, TypeOK, process
<1>4. CASE StaleSettle(d)
  <2>1. stage' \in [Deliveries -> Stages]
    BY <1>4 DEF StaleSettle, TypeOK, Stages
  <2>2. looping' \in [Workers -> SUBSET Lanes] /\ mode' \in [Workers -> Modes]
    BY <1>4 DEF StaleSettle, LoopsLeft, TypeOK, Modes
  <2>3. QED
    BY <1>4, <2>1, <2>2 DEF StaleSettle, TypeOK, broker
<1>5. CASE Publish(d)
  <2>1. stage' \in [Deliveries -> Stages]
    BY <1>5, MoveKeepsStage DEF Publish, Stages, Verdicts
  <2>2. replies' \in [Jobs -> SUBSET ReplyKinds]
    BY <1>5 DEF Publish, TypeOK
  <2>3. QED
    BY <1>5, <2>1, <2>2 DEF Publish, TypeOK, process
<1>6. CASE PublishFails(d)
  <2>1. stage' \in [Deliveries -> Stages]
    BY <1>6, MoveKeepsStage DEF PublishFails, Undelivered, Stages, Verdicts
  <2>2. replies' \in [Jobs -> SUBSET ReplyKinds]
    BY <1>6 DEF PublishFails, TypeOK
  <2>3. QED
    BY <1>6, <2>1, <2>2 DEF PublishFails, TypeOK, process
<1>7. QED
  BY <1>1, <1>2, <1>3, <1>4, <1>5, <1>6 DEF DeliveryStep

LEMMA LaneStepTypes ==
  ASSUME TypeOK, NEW w \in Workers, NEW l \in Lanes, LaneStep(w, l)
  PROVE  TypeOK'
<1>1. CASE TakeBatch(w, l)
  <2>1. PICK B \in SUBSET Buffer(w, l) \ {{}} :
          /\ batched' = batched \cup B
          /\ stage' = [d \in Deliveries |-> IF d \in B THEN "checking" ELSE stage[d]]
    BY <1>1 DEF TakeBatch
  <2>2. B \subseteq Deliveries
    BY DEF Buffer, Held
  <2>3. stage' \in [Deliveries -> Stages] /\ batched' \subseteq Deliveries
    BY <2>1, <2>2 DEF TypeOK, Stages
  <2>4. mode' \in [Workers -> Modes]
    BY <1>1 DEF TakeBatch, TypeOK, Modes
  <2>5. QED
    BY <1>1, <2>3, <2>4 DEF TakeBatch, TypeOK, broker
<1>2. CASE BeginEncode(w, l)
  BY <1>2 DEF BeginEncode, TypeOK, broker
<1>3. CASE EndEncode(w, l)
  <2>1. PICK F \in SUBSET Batch(w, l) :
       /\ stage' = [d \in Deliveries |->
            CASE d \notin Batch(w, l) -> stage[d]
              [] d \in Batch(w, l) \ F -> Answer(Job(d), "ok")
              [] d \in F /\ l = "query" -> Answer(Job(d), "internal_error")
              [] d \in F /\ l = "index" -> IF LastAttempt(Job(d)) THEN "reject" ELSE "requeue"]
       /\ failures' = [j \in Jobs |-> IF /\ l = "index" /\ j \in {Job(d) : d \in F}
                                        /\ failures[j] < MaxFailures
                                        THEN failures[j] + 1 ELSE failures[j]]
    BY <1>3 DEF EndEncode
  <2>2. stage' \in [Deliveries -> Stages]
    BY <2>1, AnswerIs DEF TypeOK, Stages, ReplyKinds, Verdicts, Lanes
  <2>3. failures' \in [Jobs -> 0 .. MaxFailures]
    <3>1. MaxFailures \in Nat
      BY WorkerAssumption DEF MaxFailures
    <3>2. QED
      BY <2>1, <3>1 DEF TypeOK
  <2>4. slot' \in [Workers -> Lanes \cup {"free"}]
    BY <1>3, NextHolderIs DEF EndEncode, TypeOK
  <2>5. QED
    BY <1>3, <2>2, <2>3, <2>4 DEF EndEncode, TypeOK, broker
<1>4. QED
  BY <1>1, <1>2, <1>3 DEF LaneStep

LEMMA ProcessStepTypes ==
  ASSUME TypeOK, NEW w \in Workers,
         \/ Stop(w) \/ ShutdownStep(w) \/ GraceOver(w)
         \/ Crash(w) \/ StartStep(w) \/ StartFails(w) \/ Disconnect(w)
  PROVE  TypeOK'
<1>1. CASE Stop(w)
  BY <1>1, WorkerAssumption DEF Stop, Interrupt, TypeOK, Modes, broker
<1>2. CASE \E l \in Lanes : CancelConsumer(w, l)
  BY <1>2 DEF CancelConsumer, TypeOK, broker
<1>3. CASE CancelLoops(w)
  BY <1>3 DEF CancelLoops, KeepBatches, TypeOK, Modes, broker
<1>4. CASE Drained(w)
  BY <1>4 DEF Drained, TypeOK, Modes, broker
<1>5. CASE GraceOver(w)
  <2>1. stage' \in [Deliveries -> Stages] /\ batched' \subseteq Deliveries
    BY <1>5 DEF GraceOver, Abandon, TypeOK, Stages
  <2>2. QED
    BY <1>5, <2>1 DEF GraceOver, Abandon, TypeOK, Modes, broker
<1>6. CASE Close(w)
  BY <1>6, GoDownKeepsTypes DEF Close, TypeOK
<1>7. CASE Crash(w)
  <2>1. interrupted' \in 0 .. MaxInterruptions
    BY <1>7, WorkerAssumption DEF Crash, Interrupt, TypeOK
  <2>2. QED
    BY <1>7, <2>1, GoDownKeepsTypes DEF Crash
<1>8. CASE StartStep(w) \/ StartFails(w)
  BY <1>8, WorkerAssumption DEF StartStep, Start, Consume, StartLoop, Ready, StartFails, Interrupt,
     TypeOK, Modes, broker
<1>9. CASE Disconnect(w)
  <2>1. place' \in [Jobs -> Places] /\ returned' \in [Jobs -> 0 .. DeliveryLimit]
    BY <1>9, UnackedIs, ReturnIs DEF Disconnect
  <2>2. interrupted' \in 0 .. MaxInterruptions /\ epoch' \in [Workers -> Nat]
    BY <1>9, WorkerAssumption DEF Disconnect, Interrupt, TypeOK
  <2>3. consuming' \in [Workers -> SUBSET Lanes]
    BY <1>9 DEF Disconnect, TypeOK
  <2>4. QED
    BY <1>9, <2>1, <2>2, <2>3 DEF Disconnect, TypeOK
<1>10. QED
  BY <1>1, <1>2, <1>3, <1>4, <1>5, <1>6, <1>7, <1>8, <1>9 DEF ShutdownStep

LEMMA BrokerStepTypes ==
  ASSUME TypeOK, DeliveryInv, NEW j \in Jobs,
         \/ Submit(j) \/ DeadlinePasses(j) \/ TtlExpires(j)
         \/ \E w \in Workers : Deliver(w, j)
  PROVE  TypeOK'
<1>1. CASE Submit(j)
  BY <1>1 DEF Submit, TypeOK, Places, process
<1>2. CASE DeadlinePasses(j)
  BY <1>2 DEF DeadlinePasses, TypeOK, broker, process
<1>3. CASE TtlExpires(j)
  BY <1>3 DEF TtlExpires, TypeOK, Places, Settled, process
<1>4. CASE \E w \in Workers : Deliver(w, j)
  <2>1. PICK w \in Workers : Deliver(w, j)
    BY <1>4
  <2>2. <<w, j, epoch[w]>> \in Deliveries
    BY DEF DeliveryInv, EpochsBounded, Deliveries
  <2>3. stage' \in [Deliveries -> Stages]
    BY <2>1, <2>2, MoveKeepsStage DEF Deliver, Stages
  <2>4. QED
    BY <2>1, <2>3 DEF Deliver, TypeOK, Places, process
<1>5. QED
  BY <1>1, <1>2, <1>3, <1>4

\* The disjuncts of Next by who takes the step.
LEMMA NextCases ==
  ASSUME Next
  PROVE  \/ \E j \in Jobs : \/ Submit(j) \/ DeadlinePasses(j) \/ TtlExpires(j)
                            \/ \E w \in Workers : Deliver(w, j)
         \/ \E d \in Deliveries : DeliveryStep(d) \/ Publish(d) \/ PublishFails(d)
         \/ \E w \in Workers : \E l \in Lanes : LaneStep(w, l)
         \/ \E w \in Workers : \/ Stop(w) \/ ShutdownStep(w) \/ GraceOver(w)
                               \/ Crash(w) \/ StartStep(w) \/ StartFails(w) \/ Disconnect(w)
  BY DEF Next

LEMMA StepKeepsTypes == TypeOK /\ DeliveryInv /\ [Next]_vars => TypeOK'
<1> SUFFICES ASSUME TypeOK, DeliveryInv, [Next]_vars
             PROVE  TypeOK'
  OBVIOUS
<1>1. CASE Next
  BY <1>1, NextCases, BrokerStepTypes, DeliveryStepTypes, LaneStepTypes, ProcessStepTypes
<1>2. CASE UNCHANGED vars
  BY <1>2 DEF vars, broker, process, TypeOK
<1>3. QED
  BY <1>1, <1>2

-----------------------------------------------------------------------------
(* ---- deliveries and their connections ---- *)

\* What is held after a step was held before it, or came in on the present
\* connection; connections only move on; and what leaves the hands of the
\* process leaves its batch at once.
LEMMA StepKeepsDeliveries == TypeOK /\ DeliveryInv /\ [Next]_vars => DeliveryInv'
<1> SUFFICES ASSUME TypeOK, DeliveryInv, [Next]_vars
             PROVE  DeliveryInv'
  OBVIOUS
<1> USE DEF DeliveryInv, EpochsPast, EpochsBounded, BatchedIsHeld
<1>1. ASSUME UNCHANGED <<epoch, interrupted>>,
             \A d \in Deliveries : stage'[d] # "none" => stage[d] # "none",
             \A d \in batched' : stage'[d] # "none"
      PROVE  DeliveryInv'
  BY <1>1 DEF Worker
<1>2. ASSUME NEW d \in Deliveries, DeliveryStep(d) \/ Publish(d) \/ PublishFails(d)
      PROVE  DeliveryInv'
  <2> USE DEF TypeOK, process
  <2>1. CASE OnMessage(d)
    <3>1. stage'[d] # "none" /\ \A c \in Deliveries \ {d} : stage'[c] = stage[c]
      BY <2>1, AnswerIs, ExpiryIs DEF OnMessage, TurnAway, Accept, Move
    <3>2. stage[d] # "none"
      BY <2>1 DEF OnMessage, TurnAway, Accept
    <3>3. QED
      BY <1>1, <2>1, <3>1, <3>2 DEF OnMessage
  <2>2. CASE CheckExpiry(d)
    <3>1. stage'[d] # "none" /\ \A c \in Deliveries \ {d} : stage'[c] = stage[c]
      BY <2>2, ExpiryIs DEF CheckExpiry, Move
    <3>2. QED
      BY <1>1, <2>2, <3>1 DEF CheckExpiry
  <2>3. CASE Settle(d)
    BY <1>1, <2>3 DEF Settle, Move
  <2>4. CASE StaleSettle(d)
    <3>1. d \notin batched'
      BY <2>4 DEF StaleSettle, Batch
    <3>2. QED
      BY <1>1, <2>4, <3>1 DEF StaleSettle, Forgotten
  <2>5. CASE Publish(d)
    BY <1>1, <2>5 DEF Publish, Move, ReplyKinds
  <2>6. CASE PublishFails(d)
    <3>1. stage'[d] # "none" /\ \A c \in Deliveries \ {d} : stage'[c] = stage[c]
      BY <2>6 DEF PublishFails, Undelivered, Move
    <3>2. stage[d] # "none"
      BY <2>6 DEF PublishFails, ReplyKinds
    <3>3. QED
      BY <1>1, <2>6, <3>1, <3>2 DEF PublishFails
  <2>7. QED
    BY <1>2, <2>1, <2>2, <2>3, <2>4, <2>5, <2>6 DEF DeliveryStep
<1>3. ASSUME NEW w \in Workers, NEW l \in Lanes, LaneStep(w, l)
      PROVE  DeliveryInv'
  <2>1. CASE TakeBatch(w, l)
    BY <1>1, <2>1 DEF TakeBatch, Buffer, Held, TypeOK
  <2>2. CASE BeginEncode(w, l)
    BY <1>1, <2>2 DEF BeginEncode
  <2>3. CASE EndEncode(w, l)
    <3>1. /\ UNCHANGED <<epoch, interrupted, batched>>
          /\ \A d \in Deliveries \ Batch(w, l) : stage'[d] = stage[d]
          /\ \A d \in Batch(w, l) : stage'[d] # "none"
      BY <2>3, AnswerIs DEF EndEncode, Batch, TypeOK, Lanes
    <3>2. QED
      BY <1>1, <3>1 DEF Batch, TypeOK
  <2>4. QED
    BY <1>3, <2>1, <2>2, <2>3 DEF LaneStep
<1>4. ASSUME NEW j \in Jobs, \/ Submit(j) \/ DeadlinePasses(j) \/ TtlExpires(j)
      PROVE  DeliveryInv'
  BY <1>1, <1>4 DEF Submit, DeadlinePasses, TtlExpires, process
<1>5. ASSUME NEW j \in Jobs, NEW w \in Workers, Deliver(w, j)
      PROVE  DeliveryInv'
  <2> DEFINE d == <<w, j, epoch[w]>>
  <2>1. UNCHANGED <<epoch, interrupted>> /\ \A e \in Deliveries \ {d} : stage'[e] = stage[e]
    BY <1>5 DEF Deliver, Move, process, TypeOK
  <2>2. d[3] <= epoch'[Worker(d)]
    BY <2>1 DEF Worker, TypeOK
  <2>3. batched' = batched /\ (d \in Deliveries => stage'[d] = "delivered")
    BY <1>5 DEF Deliver, Move, TypeOK
  <2>4. QED
    BY <2>1, <2>2, <2>3 DEF Worker, TypeOK
<1>6. ASSUME NEW w \in Workers, GoDown(w), interrupted' \in Nat, interrupted <= interrupted'
      PROVE  DeliveryInv'
  BY <1>6, EpochsAreNat DEF GoDown, Worker, TypeOK
<1>7. ASSUME NEW w \in Workers, Disconnect(w)
      PROVE  DeliveryInv'
  <2>1. /\ interrupted' = interrupted + 1 /\ interrupted + 1 <= MaxInterruptions
        /\ epoch' = [epoch EXCEPT ![w] = @ + 1] /\ UNCHANGED <<stage, batched>>
        /\ Epochs = 0 .. MaxInterruptions
    BY <1>7, WorkerAssumption DEF Disconnect, Interrupt, TypeOK, Epochs
  <2>2. EpochsBounded'
    BY <2>1, WorkerAssumption DEF TypeOK
  <2>3. ASSUME NEW d \in Deliveries, stage'[d] # "none"
        PROVE  d[3] <= epoch'[Worker(d)]
    BY <2>1, <2>3, DeliveryParts, EpochsAreNat DEF TypeOK
  <2>4. EpochsPast'
    BY <2>3 DEF Worker
  <2>5. QED
    BY <2>1, <2>2, <2>4
<1>8. ASSUME NEW w \in Workers,
             \/ Stop(w) \/ ShutdownStep(w) \/ GraceOver(w) \/ Crash(w)
             \/ StartStep(w) \/ StartFails(w)
      PROVE  DeliveryInv'
  <2>1. CASE Close(w) \/ Crash(w)
    BY <1>6, <2>1, WorkerAssumption DEF Close, Crash, Interrupt, TypeOK
  <2>2. CASE Stop(w) \/ StartFails(w)
    BY <2>2, WorkerAssumption, EpochsAreNat DEF Stop, StartFails, Interrupt, Worker, TypeOK
  <2>3. CASE GraceOver(w)
    BY <1>1, <2>3 DEF GraceOver, Abandon, WorkLeft, TypeOK
  <2>4. CASE StartStep(w) \/ CancelLoops(w) \/ Drained(w) \/ \E l \in Lanes : CancelConsumer(w, l)
    BY <1>1, <2>4 DEF StartStep, Start, Consume, StartLoop, Ready, CancelLoops, KeepBatches, Drained,
       CancelConsumer
  <2>5. QED
    BY <1>8, <2>1, <2>2, <2>3, <2>4 DEF ShutdownStep
<1>9. CASE UNCHANGED vars
  BY <1>1, <1>9 DEF vars, process
<1>10. QED
  BY <1>2, <1>3, <1>4, <1>5, <1>7, <1>8, <1>9, NextCases

-----------------------------------------------------------------------------
(* ---- acked means answered ---- *)

\* The broker does not unaccept a reply, and time does not run back.
LEMMA AnsweredStays ==
  ASSUME TypeOK, [Next]_vars, NEW j \in Jobs, Answered(j)
  PROVE  Answered(j)'
<1> DEFINE Grown == expired \subseteq expired' /\ \A i \in Jobs : replies[i] \subseteq replies'[i]
<1>1. Grown
  <2> USE DEF broker, process
  <2>1. ASSUME NEW d \in Deliveries, DeliveryStep(d) \/ Publish(d) \/ PublishFails(d)
        PROVE  Grown
    BY <2>1 DEF DeliveryStep, OnMessage, CheckExpiry, Settle, StaleSettle, Publish,
       PublishFails, TypeOK
  <2>2. ASSUME NEW w \in Workers, NEW l \in Lanes, LaneStep(w, l)
        PROVE  Grown
    BY <2>2 DEF LaneStep, TakeBatch, BeginEncode, EndEncode
  <2>3. ASSUME NEW i \in Jobs,
               \/ Submit(i) \/ DeadlinePasses(i) \/ TtlExpires(i)
               \/ \E w \in Workers : Deliver(w, i)
        PROVE  Grown
    BY <2>3 DEF Submit, DeadlinePasses, TtlExpires, Deliver
  <2>4. ASSUME NEW w \in Workers,
               \/ Stop(w) \/ ShutdownStep(w) \/ GraceOver(w)
               \/ Crash(w) \/ StartStep(w) \/ StartFails(w) \/ Disconnect(w)
        PROVE  Grown
    BY <2>4 DEF Stop, ShutdownStep, CancelConsumer, CancelLoops, Drained, Close, GraceOver,
       Crash, GoDown, StartStep, Start, Consume, StartLoop, Ready, StartFails, Disconnect
  <2>5. CASE UNCHANGED vars
    BY <2>5 DEF vars
  <2>6. QED
    BY <2>1, <2>2, <2>3, <2>4, <2>5, NextCases
<1>2. QED
  BY <1>1 DEF Answered

\* An ack is decided only for a message that is answered or needs no answer.
LEMMA StepKeepsAcks == TypeOK /\ DeliveryInv /\ AckInv /\ [Next]_vars => AckInv'
<1> SUFFICES ASSUME TypeOK, DeliveryInv, AckInv, [Next]_vars
             PROVE  AckInv'
  OBVIOUS
<1> USE DEF AckInv, AckedMeansAnswered, AcksJustified
<1>1. ASSUME \A d \in Deliveries : stage'[d] = "ack" => stage[d] = "ack" \/ Answered(Job(d))',
             \A j \in Jobs : place'[j] = "acked" => place[j] = "acked" \/ Answered(j)'
      PROVE  AckInv'
  <2>1. \A j \in Jobs : Answered(j) => Answered(j)'
    BY AnsweredStays
  <2>2. \A j \in Jobs : place'[j] = "acked" => Answered(j)'
    BY <1>1, <2>1 DEF Answered
  <2>3. \A d \in Deliveries : stage'[d] = "ack" => Answered(Job(d))'
    BY <1>1, <2>1, DeliveryParts
  <2>4. QED
    BY <2>2, <2>3 DEF Answered, Job
\* One delivery moves on, and its message stays where it is.
<1>2. ASSUME NEW d \in Deliveries, NEW s, Move(d, s), place' = place,
             s = "ack" => Answered(Job(d))'
      PROVE  AckInv'
  BY <1>1, <1>2 DEF Move, TypeOK
<1>3. ASSUME NEW d \in Deliveries, DeliveryStep(d) \/ Publish(d) \/ PublishFails(d)
      PROVE  AckInv'
  <2> USE DEF broker
  <2>1. CASE TurnAway(d) /\ OnMessage(d)
    BY <1>2, <2>1 DEF TurnAway, OnMessage
  <2>2. CASE Accept(d) /\ OnMessage(d)
    <3> DEFINE s == IF Job(d) \in Malformed THEN Answer(Job(d), "validation_error")
                    ELSE IF Job(d) \in expired THEN Expiry(Job(d)) ELSE "buffered"
    <3>1. Move(d, s) /\ UNCHANGED <<place, expired, replies>>
      BY <2>2 DEF Accept, OnMessage
    <3>2. s = "ack" => Answered(Job(d))
      BY AnswerIs, ExpiryIs DEF Answered
    <3>3. QED
      BY <1>2, <3>1, <3>2 DEF Answered, Job
  <2>3. CASE CheckExpiry(d)
    <3> DEFINE s == IF Job(d) \in expired THEN Expiry(Job(d)) ELSE "live"
    <3>1. Move(d, s) /\ UNCHANGED <<place, expired, replies>>
      BY <2>3 DEF CheckExpiry
    <3>2. s = "ack" => Answered(Job(d))
      BY ExpiryIs DEF Answered
    <3>3. QED
      BY <1>2, <3>1, <3>2 DEF Answered, Job
  <2>4. CASE Settle(d)
    <3>1. \A c \in Deliveries : stage'[c] = "ack" => stage[c] = "ack"
      BY <2>4 DEF Settle, Move, TypeOK
    <3>2. ASSUME stage[d] = "requeue", Return({Job(d)})
          PROVE  \A j \in Jobs : place'[j] = "acked" => place[j] = "acked"
      BY <3>2, ReturnIs, DeliveryParts
    <3>3. ASSUME stage[d] # "requeue",
                 place' = [place EXCEPT ![Job(d)] =
                             IF stage[d] = "ack" THEN "acked" ELSE Rejected(Job(d))]
          PROVE  \A j \in Jobs : place'[j] = "acked" => place[j] = "acked" \/ Answered(j)'
      <4>1. \A j \in Jobs : place'[j] = "acked" => place[j] = "acked" \/ Answered(j)
        BY <3>3 DEF Rejected, TypeOK
      <4>2. QED
        BY <4>1, AnsweredStays
    <3>4. QED
      BY <1>1, <2>4, <3>1, <3>2, <3>3 DEF Settle
  <2>5. CASE StaleSettle(d)
    BY <1>1, <2>5 DEF StaleSettle
  <2>6. CASE Publish(d)
    <3>1. Answered(Job(d))'
      BY <2>6, DeliveryParts DEF Publish, Answered, Job, TypeOK
    <3>2. QED
      BY <1>2, <2>6, <3>1 DEF Publish
  <2>7. CASE PublishFails(d)
    BY <1>2, <2>7 DEF PublishFails, Undelivered
  <2>8. QED
    BY <1>3, <2>1, <2>2, <2>3, <2>4, <2>5, <2>6, <2>7 DEF DeliveryStep, OnMessage
<1>4. ASSUME NEW w \in Workers, NEW l \in Lanes, LaneStep(w, l)
      PROVE  AckInv'
  <2>1. CASE TakeBatch(w, l)
    BY <1>1, <2>1 DEF TakeBatch, broker, TypeOK
  <2>2. CASE BeginEncode(w, l)
    BY <1>1, <2>2 DEF BeginEncode, broker
  <2>3. CASE EndEncode(w, l)
    <3>1. /\ UNCHANGED <<place, expired, replies>>
          /\ \A d \in Deliveries \ Batch(w, l) : stage'[d] = stage[d]
          /\ \A d \in Batch(w, l) : stage'[d] = "ack" => Job(d) \in NoReplyTo
      BY <2>3, AnswerIs DEF EndEncode, Batch, TypeOK, Lanes, broker
    <3>2. QED
      BY <1>1, <3>1 DEF Answered, Job
  <2>4. QED
    BY <1>4, <2>1, <2>2, <2>3 DEF LaneStep
<1>5. ASSUME NEW j \in Jobs, \/ Submit(j) \/ DeadlinePasses(j) \/ TtlExpires(j)
                             \/ \E w \in Workers : Deliver(w, j)
      PROVE  AckInv'
  BY <1>1, <1>5 DEF Submit, DeadlinePasses, TtlExpires, Deliver, Move, TypeOK, broker
<1>6. ASSUME NEW w \in Workers, GoDown(w)
      PROVE  AckInv'
  <2>1. \A j \in Jobs : place'[j] = "acked" => place[j] = "acked"
    BY <1>6, ReturnIs, UnackedIs DEF GoDown
  <2>2. QED
    BY <1>1, <1>6, <2>1 DEF GoDown
<1>7. ASSUME NEW w \in Workers, Disconnect(w)
      PROVE  AckInv'
  <2>1. \A j \in Jobs : place'[j] = "acked" => place[j] = "acked"
    BY <1>7, ReturnIs, UnackedIs DEF Disconnect
  <2>2. QED
    BY <1>1, <1>7, <2>1 DEF Disconnect
<1>8. ASSUME NEW w \in Workers, Stop(w) \/ ShutdownStep(w) \/ GraceOver(w) \/ Crash(w)
             \/ StartStep(w) \/ StartFails(w)
      PROVE  AckInv'
  <2>1. CASE Close(w) \/ Crash(w)
    BY <1>6, <2>1 DEF Close, Crash
  <2>2. CASE GraceOver(w)
    BY <1>1, <2>2 DEF GraceOver, Abandon, broker
  <2>3. CASE \/ Stop(w) \/ StartStep(w) \/ StartFails(w) \/ CancelLoops(w) \/ Drained(w)
             \/ \E l \in Lanes : CancelConsumer(w, l)
    BY <1>1, <2>3 DEF Stop, StartStep, Start, Consume, StartLoop, Ready, StartFails, CancelLoops,
       KeepBatches, Drained, CancelConsumer, broker
  <2>4. QED
    BY <1>8, <2>1, <2>2, <2>3 DEF ShutdownStep
<1>9. CASE UNCHANGED vars
  BY <1>1, <1>9 DEF vars, broker
<1>10. QED
  BY <1>3, <1>4, <1>5, <1>7, <1>8, <1>9, NextCases

-----------------------------------------------------------------------------
(* ---- one holder ---- *)

\* A step after which the same deliveries are held on open channels, and the
\* same messages unacked.
LEMMA HolderFrame ==
  ASSUME HolderInv,
         \A d \in Deliveries : HeldFresh(d)' <=> HeldFresh(d),
         \A j \in Jobs : place'[j] = "unacked" <=> place[j] = "unacked"
  PROVE  HolderInv'
<1> USE DEF HolderInv, HeldIsUnacked, UnackedIsHeld, HeldOnce
<1>1. HeldIsUnacked'
  BY DeliveryParts DEF Job
<1>2. UnackedIsHeld'
  BY DEF Job
<1>3. HeldOnce'
  BY DEF Job
<1>4. QED
  BY <1>1, <1>2, <1>3

\* The broker takes back what w holds, and w holds it no longer.
LEMMA HolderReturn ==
  ASSUME TypeOK, HolderInv, NEW w \in Workers, Return(Unacked(w)),
         \A d \in Deliveries : HeldFresh(d)' <=> HeldFresh(d) /\ Worker(d) # w
  PROVE  HolderInv'
<1> USE DEF HolderInv, HeldIsUnacked, UnackedIsHeld, HeldOnce
<1>1. /\ \A j \in Unacked(w) : place'[j] # "unacked"
      /\ \A j \in Jobs \ Unacked(w) : place'[j] = place[j]
  BY UnackedIs, ReturnIs
<1>2. ASSUME NEW d \in Deliveries, HeldFresh(d), Worker(d) # w
      PROVE  Job(d) \notin Unacked(w)
  BY <1>2, UnackedIs
<1>3. HeldIsUnacked'
  BY <1>1, <1>2, DeliveryParts DEF Job
<1>4. UnackedIsHeld'
  <2> SUFFICES ASSUME NEW j \in Jobs, place'[j] = "unacked"
               PROVE  \E d \in Deliveries : HeldFresh(d)' /\ Job(d) = j
    BY DEF Job
  <2>1. j \notin Unacked(w) /\ place[j] = "unacked"
    BY <1>1
  <2>2. PICK d \in Deliveries : HeldFresh(d) /\ Job(d) = j
    BY <2>1
  <2>3. QED
    BY <2>1, <2>2, UnackedIs
<1>5. HeldOnce'
  BY DEF Job
<1>6. QED
  BY <1>3, <1>4, <1>5

\* The broker hears of every message once: of its delivery, of its settling and
\* of the end of the connection it came on.
LEMMA StepKeepsHolders == TypeOK /\ DeliveryInv /\ HolderInv /\ [Next]_vars => HolderInv'
<1> SUFFICES ASSUME TypeOK, DeliveryInv, HolderInv, [Next]_vars
             PROVE  HolderInv'
  OBVIOUS
\* One delivery moves on and stays held.
<1>1. ASSUME NEW d \in Deliveries, NEW s, Move(d, s), UNCHANGED <<place, epoch>>,
             s # "none", stage[d] # "none"
      PROVE  HolderInv'
  BY <1>1, HolderFrame DEF Move, TypeOK, HeldFresh, Fresh, Worker
<1>2. ASSUME NEW d \in Deliveries, Settle(d)
      PROVE  HolderInv'
  <2>1. \A c \in Deliveries : HeldFresh(c)' <=> HeldFresh(c) /\ c # d
    BY <1>2 DEF Settle, Move, process, TypeOK, HeldFresh, Fresh, Worker
  <2>2. HeldFresh(d)
    BY <1>2 DEF Settle, Verdicts, HeldFresh
  <2>3. /\ place'[Job(d)] # "unacked"
        /\ \A j \in Jobs \ {Job(d)} : place'[j] = place[j]
    <3>1. CASE stage[d] = "requeue"
      BY <1>2, <3>1, ReturnIs, DeliveryParts DEF Settle
    <3>2. CASE stage[d] # "requeue"
      BY <1>2, <3>2, DeliveryParts DEF Settle, Rejected, TypeOK
    <3>3. QED
      BY <3>1, <3>2
  <2> USE DEF HolderInv, HeldIsUnacked, UnackedIsHeld, HeldOnce
  <2>4. HeldIsUnacked'
    BY <2>1, <2>2, <2>3, DeliveryParts DEF Job
  <2>5. UnackedIsHeld'
    <3> SUFFICES ASSUME NEW j \in Jobs, place'[j] = "unacked"
                 PROVE  \E c \in Deliveries : HeldFresh(c)' /\ Job(c) = j
      BY DEF Job
    <3>1. j # Job(d) /\ place[j] = "unacked"
      BY <2>3
    <3>2. QED
      BY <2>1, <3>1
  <2>6. HeldOnce'
    BY <2>1 DEF Job
  <2>7. QED
    BY <2>4, <2>5, <2>6
<1>3. ASSUME NEW d \in Deliveries, DeliveryStep(d) \/ Publish(d) \/ PublishFails(d)
      PROVE  HolderInv'
  <2> USE DEF broker, process
  <2>1. CASE TurnAway(d) /\ OnMessage(d)
    BY <1>1, <2>1 DEF TurnAway, OnMessage
  <2>2. CASE Accept(d) /\ OnMessage(d)
    BY <1>1, <2>2, AnswerIs, ExpiryIs DEF Accept, OnMessage
  <2>3. CASE CheckExpiry(d)
    BY <1>1, <2>3, ExpiryIs DEF CheckExpiry
  <2>4. CASE StaleSettle(d)
    <3>1. /\ ~Fresh(d) /\ UNCHANGED <<place, epoch>>
          /\ \A c \in Deliveries \ {d} : stage'[c] # "none" <=> stage[c] # "none"
      BY <2>4 DEF StaleSettle, Forgotten
    <3>2. QED
      BY <3>1, HolderFrame DEF HeldFresh, Fresh, Worker
  <2>5. CASE Publish(d)
    BY <1>1, <2>5 DEF Publish, ReplyKinds
  <2>6. CASE PublishFails(d)
    BY <1>1, <2>6 DEF PublishFails, Undelivered, ReplyKinds
  <2>7. QED
    BY <1>2, <1>3, <2>1, <2>2, <2>3, <2>4, <2>5, <2>6 DEF DeliveryStep, OnMessage
<1>4. ASSUME NEW w \in Workers, NEW l \in Lanes, LaneStep(w, l)
      PROVE  HolderInv'
  <2>1. CASE TakeBatch(w, l)
    BY <2>1, HolderFrame DEF TakeBatch, Buffer, Held, broker, HeldFresh, Fresh, Worker
  <2>2. CASE BeginEncode(w, l)
    BY <2>2, HolderFrame DEF BeginEncode, broker, HeldFresh, Fresh, Worker
  <2>3. CASE EndEncode(w, l)
    <3>1. /\ UNCHANGED <<place, epoch>>
          /\ \A d \in Deliveries \ Batch(w, l) : stage'[d] = stage[d]
          /\ \A d \in Batch(w, l) : stage'[d] # "none" /\ stage[d] # "none"
      BY <2>3, AnswerIs DEF EndEncode, WantsSlot, Batch, TypeOK, Lanes, broker
    <3>2. QED
      BY <3>1, HolderFrame DEF HeldFresh, Fresh, Worker
  <2>4. QED
    BY <1>4, <2>1, <2>2, <2>3 DEF LaneStep
<1>5. ASSUME NEW j \in Jobs, \/ Submit(j) \/ DeadlinePasses(j) \/ TtlExpires(j)
      PROVE  HolderInv'
  BY <1>5, HolderFrame DEF Submit, DeadlinePasses, TtlExpires, broker, process, TypeOK,
     HeldFresh, Fresh, Worker
<1>6. ASSUME NEW j \in Jobs, NEW w \in Workers, Deliver(w, j)
      PROVE  HolderInv'
  <2> DEFINE d == <<w, j, epoch[w]>>
  <2>1. d \in Deliveries /\ Worker(d) = w /\ Job(d) = j /\ Fresh(d)
    BY DEF DeliveryInv, EpochsBounded, Deliveries, Worker, Job, Fresh
  <2>2. Move(d, "delivered") /\ place[j] = "queued" /\ epoch' = epoch
        /\ place' = [place EXCEPT ![j] = "unacked"]
    BY <1>6 DEF Deliver, process
  <2> HIDE DEF d
  <2>3. \A c \in Deliveries : HeldFresh(c)' <=> HeldFresh(c) \/ c = d
    BY <2>1, <2>2 DEF Move, TypeOK, HeldFresh, Fresh, Worker
  <2> USE DEF HolderInv, HeldIsUnacked, UnackedIsHeld, HeldOnce
  <2>4. \A c \in Deliveries : HeldFresh(c) => Job(c) # j
    BY <2>2
  <2>5. HeldIsUnacked'
    BY <2>1, <2>2, <2>3, DeliveryParts DEF Job, TypeOK
  <2>6. UnackedIsHeld'
    <3> SUFFICES ASSUME NEW i \in Jobs, place'[i] = "unacked"
                 PROVE  \E c \in Deliveries : HeldFresh(c)' /\ Job(c) = i
      BY DEF Job
    <3>1. CASE i = j
      BY <2>1, <2>3, <3>1
    <3>2. CASE i # j
      BY <2>2, <2>3, <3>2 DEF TypeOK
    <3>3. QED
      BY <3>1, <3>2
  <2>7. HeldOnce'
    BY <2>1, <2>3, <2>4 DEF Job
  <2>8. QED
    BY <2>5, <2>6, <2>7
<1>7. ASSUME NEW w \in Workers, GoDown(w)
      PROVE  HolderInv'
  <2>1. \A d \in Deliveries : HeldFresh(d)' <=> HeldFresh(d) /\ Worker(d) # w
    BY <1>7 DEF GoDown, HeldFresh, Fresh, Worker
  <2>2. QED
    BY <1>7, <2>1, HolderReturn DEF GoDown
<1>8. ASSUME NEW w \in Workers, Disconnect(w)
      PROVE  HolderInv'
  <2>1. stage' = stage /\ epoch' = [epoch EXCEPT ![w] = @ + 1]
    BY <1>8 DEF Disconnect
  <2>2. ASSUME NEW d \in Deliveries, stage[d] # "none", Worker(d) = w
        PROVE  d[3] # epoch[w] + 1
    BY <2>2, DeliveryParts, EpochsAreNat DEF DeliveryInv, EpochsPast, TypeOK
  <2>3. \A d \in Deliveries : HeldFresh(d)' <=> HeldFresh(d) /\ Worker(d) # w
    BY <2>1, <2>2, DeliveryParts DEF HeldFresh, Fresh, Worker, TypeOK
  <2>4. QED
    BY <1>8, <2>3, HolderReturn DEF Disconnect
<1>9. ASSUME NEW w \in Workers, Stop(w) \/ ShutdownStep(w) \/ GraceOver(w) \/ Crash(w)
             \/ StartStep(w) \/ StartFails(w)
      PROVE  HolderInv'
  <2> USE DEF broker, HeldFresh, Fresh, Worker
  <2>1. CASE Close(w) \/ Crash(w)
    BY <1>7, <2>1 DEF Close, Crash
  <2>2. CASE GraceOver(w)
    BY <2>2, HolderFrame DEF GraceOver, Abandon, DeliveryInv, BatchedIsHeld
  <2>3. CASE \/ Stop(w) \/ StartStep(w) \/ StartFails(w) \/ CancelLoops(w) \/ Drained(w)
             \/ \E l \in Lanes : CancelConsumer(w, l)
    BY <2>3, HolderFrame DEF Stop, StartStep, Start, Consume, StartLoop, Ready, StartFails,
       CancelLoops, KeepBatches, Drained, CancelConsumer
  <2>4. QED
    BY <1>9, <2>1, <2>2, <2>3 DEF ShutdownStep
<1>10. CASE UNCHANGED vars
  BY <1>10, HolderFrame DEF vars, broker, process, HeldFresh, Fresh, Worker
<1>11. QED
  BY <1>3, <1>4, <1>5, <1>6, <1>8, <1>9, <1>10, NextCases

-----------------------------------------------------------------------------
(* ---- what the loops have lost ---- *)

\* How d changes in a step that takes nothing out of the hands of a coroutine.
Keeps(d) ==
  /\ stage'[d] # "none" => stage[d] # "none"
  /\ Lost(d)' => Lost(d)
  /\ stage'[d] \in InBatch => stage[d] \in InBatch

LEMMA StaysLooped ==
  ASSUME NEW w \in Workers, Looped(w),
         UNCHANGED <<mode[w], consuming[w], tagged[w], looping[w]>>,
         \A d \in Deliveries : Worker(d) = w => Keeps(d)
  PROVE  Looped(w)'
  BY DEF Looped, Keeps, Worker, Lane, Job

\* The exception of a stale ack or nack ends the loop whose batch it leaves.
LEMMA StaleSettleKeepsLoops ==
  ASSUME TypeOK, LoopInv, NEW d \in Deliveries, StaleSettle(d)
  PROVE  LoopInv'
<1> DEFINE w == Worker(d)
           mates == IF d \in batched THEN Batch(w, Lane(d)) ELSE {}
<1>1. w \in Workers /\ Lane(d) \in Lanes
  BY DeliveryParts
<1>2. /\ \A c \in mates : c \in batched /\ Worker(c) = w /\ Lane(c) = Lane(d) /\ d \in batched
      /\ \A c \in Deliveries : \/ stage'[c] = stage[c]
                               \/ c = d /\ stage'[c] = "none"
                               \/ c \in mates /\ stage[c] \in InBatch /\ stage'[c] = "abandoned"
      /\ \A c \in mates : stage'[c] \notin {"checking", "live"}
      /\ batched' = batched \ mates
  <2>1. /\ batched' = batched \ mates
        /\ stage' = [c \in Deliveries |-> IF c = d THEN "none"
                                          ELSE IF c \in Forgotten(d, mates) THEN "abandoned"
                                          ELSE stage[c]]
    BY DEF StaleSettle
  <2>2. \A c \in mates : c \in batched /\ Worker(c) = w /\ Lane(c) = Lane(d) /\ d \in batched
    BY DEF Batch
  <2> HIDE DEF mates
  <2>3. mates \subseteq Deliveries
    BY <2>2 DEF TypeOK
  <2>4. QED
    BY <2>1, <2>2, <2>3 DEF Forgotten, InBatch
<1>3. /\ UNCHANGED <<consuming, tagged>>
      /\ \A v \in Workers \ {w} : looping'[v] = looping[v]
      /\ looping'[w] = IF d \in batched THEN looping[w] \ {Lane(d)} ELSE looping[w]
      /\ \A v \in Workers : mode'[v] = mode[v] \/ (mode[v] = "flushing" /\ mode'[v] = "closing")
  BY <1>1 DEF StaleSettle, LoopsLeft, TypeOK
<1> HIDE DEF mates
<1>4. ASSUME NEW c \in Deliveries
      PROVE  /\ stage'[c] # "none" => stage[c] # "none"
             /\ stage'[c] \in InBatch => stage[c] \in InBatch
             /\ Lost(c)' => Lost(c) \/ (d \in batched /\ Worker(c) = w /\ Lane(c) = Lane(d))
  <2>1. CASE c \in mates
    BY <1>2, <2>1 DEF InBatch
  <2>2. CASE c \notin mates
    BY <1>2, <2>2 DEF InBatch, Lost
  <2>3. QED
    BY <2>1, <2>2
<1>5. ASSUME NEW v \in Workers
      PROVE  Looped(v)'
  <2>1. /\ mode'[v] \notin Tending => looping'[v] = {}
        /\ mode'[v] = "starting" => looping'[v] \subseteq tagged'[v]
        /\ mode'[v] = "down" => consuming'[v] = {} /\ tagged'[v] = {}
    BY <1>3 DEF LoopInv, Looped, Tending
  <2>2. ASSUME NEW c \in Deliveries, Worker(c) = v
        PROVE  /\ mode'[v] = "down" => stage'[c] = "none"
               /\ Lost(c)' => Lane(c) \notin looping'[v]
               /\ mode'[v] = "starting" /\ stage'[c] \in InBatch => Lane(c) \in tagged'[v]
    BY <1>3, <1>4, <2>2 DEF LoopInv, Looped
  <2>3. QED
    BY <2>1, <2>2 DEF Looped, Worker, Lane, Job
<1>6. QED
  BY <1>5 DEF LoopInv

\* The steps of a process as a whole: loops end with all their batches, or in a
\* process that has had them all ended; and a new loop has no batch yet.
LEMMA ProcessKeepsLoops ==
  ASSUME TypeOK, DeliveryInv, LoopInv, NEW w \in Workers,
         \/ Stop(w) \/ ShutdownStep(w) \/ GraceOver(w)
         \/ Crash(w) \/ StartStep(w) \/ StartFails(w) \/ Disconnect(w)
  PROVE  LoopInv'
<1> USE DEF TypeOK
\* The other processes are not concerned.
<1>1. ASSUME NEW v \in Workers \ {w}
      PROVE  Looped(v)'
  <2>1. UNCHANGED <<mode[v], consuming[v], tagged[v], looping[v]>>
    BY DEF Stop, ShutdownStep, CancelConsumer, CancelLoops, Drained, Close, GraceOver, Crash,
       GoDown, StartStep, Start, Consume, StartLoop, Ready, StartFails, Disconnect
  <2>2. \A d \in Deliveries : Worker(d) = v =>
           stage'[d] = stage[d] /\ (d \in batched => d \in batched')
    BY DEF Stop, ShutdownStep, CancelConsumer, CancelLoops, KeepBatches, Drained, Close,
       GraceOver, Abandon, Crash, GoDown, StartStep, Start, Consume, StartLoop, Ready,
       StartFails, Disconnect
  <2>3. QED
    BY <2>1, <2>2, StaysLooped DEF LoopInv, Keeps, Lost
<1>2. Looped(w)'
  <2> USE DEF LoopInv, Looped, Tending, Worker, Lane, Job
  <2>1. CASE Close(w) \/ Crash(w)
    BY <2>1 DEF Close, Crash, GoDown, Lost, InBatch
  <2>2. CASE GraceOver(w)
    BY <2>2 DEF GraceOver, Abandon
  <2>3. CASE Stop(w) \/ StartFails(w)
    BY <2>3 DEF Stop, StartFails, Lost
  <2>4. CASE CancelLoops(w)
    BY <2>4 DEF CancelLoops, KeepBatches, Lost
  <2>5. CASE Drained(w)
    BY <2>5 DEF Drained, Lost
  <2>6. CASE \E l \in Lanes : CancelConsumer(w, l)
    BY <2>6 DEF CancelConsumer, Lost
  <2>7. CASE Start(w) \/ Ready(w)
    BY <2>7 DEF Start, Ready, Lost, InBatch
  <2>8. CASE \E l \in Lanes : Consume(w, l)
    BY <2>8 DEF Consume, Lost
  <2>9. CASE \E l \in Lanes : StartLoop(w, l)
    BY <2>9 DEF StartLoop, Lost, InBatch
  <2>10. CASE Disconnect(w)
    BY <2>10 DEF Disconnect, Lost
  <2>11. QED
    BY <2>1, <2>2, <2>3, <2>4, <2>5, <2>6, <2>7, <2>8, <2>9, <2>10 DEF ShutdownStep, StartStep
<1>3. QED
  BY <1>1, <1>2 DEF LoopInv

LEMMA StepKeepsLoops == TypeOK /\ DeliveryInv /\ LoopInv /\ [Next]_vars => LoopInv'
<1> SUFFICES ASSUME TypeOK, DeliveryInv, LoopInv, [Next]_vars
             PROVE  LoopInv'
  OBVIOUS
<1>1. ASSUME UNCHANGED <<mode, consuming, tagged, looping>>, \A d \in Deliveries : Keeps(d)
      PROVE  LoopInv'
  BY <1>1, StaysLooped DEF LoopInv
<1>2. ASSUME NEW d \in Deliveries, DeliveryStep(d) \/ Publish(d) \/ PublishFails(d)
      PROVE  LoopInv'
  <2> USE DEF process, Move, Keeps, Lost, InBatch, TypeOK
  <2>1. CASE TurnAway(d) /\ OnMessage(d)
    BY <1>1, <2>1 DEF TurnAway, OnMessage
  <2>2. CASE Accept(d) /\ OnMessage(d)
    BY <1>1, <2>2, AnswerIs, ExpiryIs DEF Accept, OnMessage
  <2>3. CASE CheckExpiry(d)
    BY <1>1, <2>3, ExpiryIs DEF CheckExpiry
  <2>4. CASE Settle(d)
    BY <1>1, <2>4 DEF Settle, Verdicts
  <2>5. CASE StaleSettle(d)
    BY <2>5, StaleSettleKeepsLoops
  <2>6. CASE Publish(d)
    BY <1>1, <2>6 DEF Publish, ReplyKinds
  <2>7. CASE PublishFails(d)
    BY <1>1, <2>7 DEF PublishFails, Undelivered, ReplyKinds
  <2>8. QED
    BY <1>2, <2>1, <2>2, <2>3, <2>4, <2>5, <2>6, <2>7 DEF DeliveryStep, OnMessage
<1>3. ASSUME NEW w \in Workers, NEW l \in Lanes, LaneStep(w, l)
      PROVE  LoopInv'
  \* Only a lane with a loop has a batch taken before the final drain.
  <2>1. CASE TakeBatch(w, l)
    <3>1. PICK B \in SUBSET Buffer(w, l) \ {{}} :
            /\ batched' = batched \cup B
            /\ stage' = [d \in Deliveries |-> IF d \in B THEN "checking" ELSE stage[d]]
      BY <2>1 DEF TakeBatch
    <3>2. \A d \in B : d \in Deliveries /\ Worker(d) = w /\ Lane(d) = l /\ stage[d] = "buffered"
      BY DEF Buffer, Held
    <3>3. /\ UNCHANGED <<consuming, tagged, looping>>
          /\ \A v \in Workers : \/ mode'[v] = mode[v]
                                \/ mode[v] = "finishing" /\ mode'[v] = "flushing"
          /\ l \in looping[w] \/ mode[w] \in {"finishing", "flushing"}
      BY <2>1 DEF TakeBatch, TypeOK
    <3>4. \A d \in Deliveries : /\ stage'[d] # "none" => stage[d] # "none"
                                /\ Lost(d)' => Lost(d)
                                /\ stage'[d] \in InBatch => stage[d] \in InBatch \/ d \in B
      BY <3>1, <3>2 DEF Lost, InBatch
    <3>5. ASSUME NEW v \in Workers
          PROVE  Looped(v)'
      <4>1. /\ mode'[v] \notin Tending => looping'[v] = {}
            /\ mode'[v] = "starting" => looping'[v] \subseteq tagged'[v]
            /\ mode'[v] = "down" => consuming'[v] = {} /\ tagged'[v] = {}
        BY <3>3 DEF LoopInv, Looped, Tending
      <4>2. ASSUME NEW d \in Deliveries, Worker(d) = v
            PROVE  /\ mode'[v] = "down" => stage'[d] = "none"
                   /\ Lost(d)' => Lane(d) \notin looping'[v]
                   /\ mode'[v] = "starting" /\ stage'[d] \in InBatch => Lane(d) \in tagged'[v]
        BY <3>2, <3>3, <3>4, <4>2 DEF LoopInv, Looped
      <4>3. QED
        BY <4>1, <4>2 DEF Looped, Worker, Lane, Job
    <3>6. QED
      BY <3>5 DEF LoopInv
  <2>2. CASE BeginEncode(w, l)
    BY <1>1, <2>2 DEF BeginEncode, Keeps, Lost
  <2>3. CASE EndEncode(w, l)
    <3>1. /\ UNCHANGED <<mode, consuming, tagged, looping, batched>>
          /\ \A d \in Deliveries \ Batch(w, l) : stage'[d] = stage[d]
          /\ \A d \in Batch(w, l) : /\ stage[d] = "live"
                                    /\ stage'[d] \notin {"none", "abandoned", "checking", "live"}
      BY <2>3, AnswerIs DEF EndEncode, WantsSlot, Batch, Lanes, TypeOK
    <3>2. QED
      BY <1>1, <3>1 DEF Keeps, Lost, InBatch
  <2>4. QED
    BY <1>3, <2>1, <2>2, <2>3 DEF LaneStep
<1>4. ASSUME NEW j \in Jobs, \/ Submit(j) \/ DeadlinePasses(j) \/ TtlExpires(j)
      PROVE  LoopInv'
  BY <1>1, <1>4 DEF Submit, DeadlinePasses, TtlExpires, process, Keeps, Lost
\* A process that is down has no consumer.
<1>5. ASSUME NEW j \in Jobs, NEW w \in Workers, Deliver(w, j)
      PROVE  LoopInv'
  <2> DEFINE c == <<w, j, epoch[w]>>
  <2>1. Worker(c) = w
    BY DEF Worker
  <2>2. /\ stage' = [stage EXCEPT ![c] = "delivered"] /\ LaneOf[j] \in consuming[w]
        /\ UNCHANGED <<mode, consuming, tagged, looping, batched>>
    BY <1>5 DEF Deliver, Move, process
  <2> HIDE DEF c
  <2>3. \A d \in Deliveries : stage'[d] = stage[d] \/ (d = c /\ stage'[d] = "delivered")
    BY <2>2 DEF TypeOK
  <2>4. mode[w] # "down"
    BY <2>2 DEF LoopInv, Looped
  <2>5. ASSUME NEW v \in Workers
        PROVE  Looped(v)'
    BY <2>1, <2>2, <2>3, <2>4 DEF LoopInv, Looped, Lost, InBatch, Worker, Lane, Job
  <2>6. QED
    BY <2>5 DEF LoopInv
<1>6. ASSUME NEW w \in Workers, \/ Stop(w) \/ ShutdownStep(w) \/ GraceOver(w)
                                \/ Crash(w) \/ StartStep(w) \/ StartFails(w) \/ Disconnect(w)
      PROVE  LoopInv'
  BY <1>6, ProcessKeepsLoops
<1>7. CASE UNCHANGED vars
  BY <1>1, <1>7 DEF vars, process, Keeps, Lost
<1>8. QED
  BY <1>2, <1>3, <1>4, <1>5, <1>6, <1>7, NextCases

-----------------------------------------------------------------------------
(* ---- the theorems ---- *)

\* WorkerInv is inductive and so holds in every reachable state.
THEOREM WorkerInvariant == Spec => []WorkerInv
<1>1. WorkerInv /\ [Next]_vars => WorkerInv'
  BY StepKeepsTypes, StepKeepsDeliveries, StepKeepsAcks, StepKeepsHolders, StepKeepsLoops
     DEF WorkerInv
<1>2. QED
  BY InitWorkerInv, <1>1, PTL DEF Spec

\* The variables of workers, jobs and broker have their types.
THEOREM WorkerTypes == Spec => []TypeOK
<1>1. WorkerInv => TypeOK
  BY DEF WorkerInv
<1>2. QED
  BY WorkerInvariant, <1>1, PTL

\* No message is acked before the broker has accepted a reply to it, unless the
\* code needs none: whatever crashes, stops and loses its connection when.
THEOREM AcksAreAnswered == Spec => []AckedMeansAnswered
<1>1. WorkerInv => AckedMeansAnswered
  BY DEF WorkerInv, AckInv
<1>2. QED
  BY WorkerInvariant, <1>1, PTL

\* An unacked message is in the hands of a coroutine as long as the loop of its
\* lane runs, through every loss of a connection: what fills the prefetch of a
\* living loop is being worked on.
THEOREM UnackedIsInHand == Spec => []UnackedInHand
<1>1. WorkerInv => UnackedInHand
  <2> SUFFICES ASSUME WorkerInv, NEW j \in Jobs, place[j] = "unacked"
               PROVE  \E d \in Deliveries :
                        /\ Job(d) = j /\ Fresh(d)
                        /\ Lane(d) \in looping[Worker(d)] => InHand(d)
    BY DEF UnackedInHand
  <2>1. PICK d \in Deliveries : HeldFresh(d) /\ Job(d) = j
    BY DEF WorkerInv, HolderInv, UnackedIsHeld
  <2>2. stage[d] \in Stages \ {"none"} /\ Worker(d) \in Workers
    BY <2>1, DeliveryParts DEF HeldFresh, WorkerInv, TypeOK
  <2>3. Lane(d) \in looping[Worker(d)] => ~Lost(d)
    BY <2>2 DEF WorkerInv, LoopInv, Looped
  <2>4. ~Lost(d) => InHand(d)
    BY <2>2 DEF Lost, InHand, Stages
  <2>5. QED
    BY <2>1, <2>3, <2>4 DEF HeldFresh
<1>2. QED
  BY WorkerInvariant, <1>1, PTL

\* Settling a delivery, also on a channel that is gone, costs no other one the
\* answer decided for it: whoever settles moves nobody else, a lost channel only
\* those that are not decided on, and a process that ends all of its own.
THEOREM AnswersSurvive == Spec => DecidedSurvives
<1> DEFINE Step == \A c, d \in Deliveries :
              /\ stage[c] \in Verdicts /\ stage'[c] = "none"
              /\ stage[d] \in ReplyKinds \cup Verdicts
              => stage'[d] # "abandoned"
<1>1. TypeOK /\ [Next]_vars => [Step]_vars
  <2> SUFFICES ASSUME TypeOK, Next,
                      NEW c \in Deliveries, stage[c] \in Verdicts, stage'[c] = "none",
                      NEW d \in Deliveries, stage[d] \in ReplyKinds \cup Verdicts
               PROVE  stage'[d] # "abandoned"
    OBVIOUS
  <2> USE DEF TypeOK, Verdicts, ReplyKinds
  <2>1. ASSUME NEW e \in Deliveries, DeliveryStep(e) \/ Publish(e) \/ PublishFails(e)
        PROVE  stage'[d] # "abandoned"
    <3>1. CASE OnMessage(e) \/ CheckExpiry(e) \/ Publish(e) \/ PublishFails(e)
      <4>1. \E s : stage' = [stage EXCEPT ![e] = s] /\ s # "abandoned"
        BY <3>1, AnswerIs, ExpiryIs
           DEF OnMessage, TurnAway, Accept, CheckExpiry, Publish, PublishFails, Undelivered, Move
      <4>2. QED
        BY <4>1
    <3>2. CASE Settle(e)
      BY <3>2 DEF Settle, Move
    <3>3. CASE StaleSettle(e)
      BY <3>3 DEF StaleSettle, Forgotten
    <3>4. QED
      BY <2>1, <3>1, <3>2, <3>3 DEF DeliveryStep
  <2>2. ASSUME NEW w \in Workers, NEW j \in Jobs, Deliver(w, j)
        PROVE  stage'[d] # "abandoned"
    BY <2>2 DEF Deliver, Move
  <2>3. ASSUME NEW w \in Workers, NEW l \in Lanes, LaneStep(w, l)
        PROVE  FALSE
    <3>1. ASSUME TakeBatch(w, l) PROVE FALSE
      BY <3>1 DEF TakeBatch
    <3>2. ASSUME BeginEncode(w, l) PROVE FALSE
      BY <3>2 DEF BeginEncode
    <3>3. ASSUME EndEncode(w, l) PROVE FALSE
      BY <3>3 DEF EndEncode, WantsSlot
    <3>4. QED
      BY <2>3, <3>1, <3>2, <3>3 DEF LaneStep
  <2>4. ASSUME NEW w \in Workers, Close(w) \/ Crash(w)
        PROVE  stage'[d] # "abandoned"
    BY <2>4 DEF Close, Crash, GoDown
  <2>5. ASSUME NEW w \in Workers, GraceOver(w)
        PROVE  FALSE
    BY <2>5 DEF GraceOver, Abandon
  <2>6. ASSUME stage' = stage
        PROVE  FALSE
    BY <2>6
  <2>7. QED
    BY <2>1, <2>2, <2>3, <2>4, <2>5, <2>6
       DEF Next, Submit, DeadlinePasses, TtlExpires, ShutdownStep, StartStep, Stop, CancelConsumer,
           CancelLoops, KeepBatches, Drained, Start, Consume, StartLoop, Ready, StartFails, Disconnect
<1>2. QED
  BY <1>1, WorkerTypes, PTL DEF Spec, DecidedSurvives
=============================================================================
