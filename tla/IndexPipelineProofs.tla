------------------------- MODULE IndexPipelineProofs -------------------------
(***************************************************************************)
(* The way of index jobs through the system, for every number of clients,  *)
(* workers and jobs and whatever their settings.                           *)
(*                                                                         *)
(* All of it rests on the order of declare_topology(): the objects a       *)
(* process has got through exist, and stay as its settings have them       *)
(* (DeclaredInv), so those who call or hold a job may count on them        *)
(* (AtWork), also while others are still declaring or starting over.       *)
(***************************************************************************)
EXTENDS IndexPipeline, FiniteSetTheorems, TLAPS

Names == {Declarations[k] : k \in DOMAIN Declarations}

PipelineTypes ==
  /\ at \in [Processes -> 0 .. Refusal]
  /\ declared = [n \in Names |-> declared[n]]
  /\ call \in [Jobs -> {"idle", "declaring", "publishing", "returned", "raised"}]
  /\ known \in BOOLEAN /\ resultsQueue \in BOOLEAN
  /\ place \in [Jobs -> {"unsent", "queued", "held", "stored", "acked", "dead", "dropped"}]
  /\ holder \in [Jobs -> Workers \cup {Nobody}]
  /\ copy \in [Copies -> {"none", "queued", "acked", "rejected"} \cup InHand]

\* What a process has declared is there with the arguments of its settings.
DeclaredInv ==
  \A p \in Processes : at[p] # Refusal =>
    \A k \in 1 .. at[p] : declared[Declarations[k]] = Arguments(p, Declarations[k])

\* Calls are under way, and jobs in a worker's hands, only in processes that
\* have declared everything.  A call sends one request.
AtWork ==
  \A j \in Jobs :
    /\ call[j] \in {"idle", "declaring", "publishing"} => place[j] = "unsent"
    /\ call[j] \in {"declaring", "publishing"} => Ready(Client)
    /\ holder[j] # Nobody => Ready(holder[j]) /\ place[j] \in {"held", "stored"}

\* The results queue is there before the client remembers it or sends a request.
QueueInv ==
  /\ known => resultsQueue
  /\ \A j \in Jobs : call[j] = "publishing" \/ place[j] # "unsent" => resultsQueue

\* The result of j waits for the handler, is in its hands, has gone through it
\* or cannot be read.
Secured(j) ==
  \/ j \in handled \/ j \in Garbled
  \/ \E n \in 1 .. MaxCopies : copy[<<j, n>>] \in {"queued"} \cup InHand

ResultInv ==
  /\ \A j \in Jobs : place[j] \in {"stored", "acked"} => Secured(j)
  /\ \A j \in Jobs : call[j] = "returned" => place[j] # "unsent"
  /\ \A j \in Jobs : place[j] # "dropped"
  /\ \A c \in Copies : /\ copy[c] = "done" => c[1] \in handled
                       /\ copy[c] = "invalid" => c[1] \in Garbled

PipelineInv ==
  PipelineTypes /\ DeclaredInv /\ AtWork /\ QueueInv /\ Announced /\ ResultInv

-----------------------------------------------------------------------------
(* ---- the declarations ---- *)

LEMMA DeclarationsAre ==
  /\ Len(Declarations) = 10 /\ Refusal = 11 /\ DOMAIN Declarations = 1 .. 10
  /\ \A k \in 1 .. 10 : Declarations[k] \in Names
  /\ {"dlx->dead", "requests->index", "requests->events"} \subseteq Names
<1>1. /\ Len(Declarations) = 10 /\ DOMAIN Declarations = 1 .. 10
      /\ Declarations[3] = "dlx->dead" /\ Declarations[8] = "requests->index"
      /\ Declarations[10] = "requests->events"
  BY DEF Declarations
<1>2. QED
  BY <1>1 DEF Refusal, Names

LEMMA ArgumentsAre ==
  ASSUME NEW p \in Processes, NEW d
  PROVE  Arguments(p, d) # "absent"
  BY TopologyAssumption DEF Arguments

\* A declaration adds an object or finds one of the same arguments, and nothing
\* ever removes one.
LEMMA TopologyStep ==
  ASSUME PipelineTypes, DeclaredInv, NEW p \in Processes,
         Declare(p) \/ Refused(p) \/ StartOver(p)
  PROVE  /\ at' \in [Processes -> 0 .. Refusal] /\ declared' = [n \in Names |-> declared'[n]]
         /\ DeclaredInv'
         /\ \A q \in Processes \ {p} : at'[q] = at[q]
<1> USE DEF PipelineTypes
<1>1. CASE Declare(p)
  <2> DEFINE d == Declarations[at[p] + 1]
  <2>1. /\ at[p] \in 0 .. 9 /\ at' = [at EXCEPT ![p] = @ + 1] /\ Agrees(p, d)
        /\ declared' = [declared EXCEPT ![d] = IF @ = "absent" THEN Arguments(p, d) ELSE @]
    BY <1>1, DeclarationsAre DEF Declare
  <2>2. d \in Names
    BY <2>1, DeclarationsAre
  <2>3. declared'[d] = Arguments(p, d)
    BY <2>1, <2>2 DEF Agrees
  <2>4. ASSUME NEW n \in Names, declared[n] # "absent"
        PROVE  declared'[n] = declared[n]
    BY <2>1, <2>4
  <2>5. ASSUME NEW q \in Processes, at'[q] # Refusal, NEW k \in 1 .. at'[q]
        PROVE  declared'[Declarations[k]] = Arguments(q, Declarations[k])
    <3>1. k \in 1 .. 10 /\ at[q] # Refusal
      BY <2>1, <2>5, DeclarationsAre
    <3>2. CASE k \in 1 .. at[q]
      BY <2>4, <3>1, <3>2, DeclarationsAre, ArgumentsAre DEF DeclaredInv
    <3>3. CASE q = p /\ k = at[p] + 1
      BY <2>3, <3>3
    <3>4. QED
      BY <2>1, <2>5, <3>2, <3>3
  <2>6. QED
    BY <2>1, <2>5, DeclarationsAre DEF DeclaredInv, Arguments
<1>2. CASE Refused(p) \/ StartOver(p)
  BY <1>2, DeclarationsAre DEF Refused, StartOver, DeclaredInv, Arguments
<1>3. QED
  BY <1>1, <1>2

\* Who is ready finds everything declared.
LEMMA ReadyMeansDeclared ==
  ASSUME PipelineTypes, DeclaredInv, NEW p \in Processes, Ready(p)
  PROVE  \A k \in 1 .. 10 : /\ declared[Declarations[k]] = Arguments(p, Declarations[k])
                            /\ Exists(Declarations[k])
  BY DeclarationsAre, ArgumentsAre DEF Ready, DeclaredInv, Exists

LEMMA ReadyHasBindings ==
  ASSUME PipelineTypes, DeclaredInv, NEW p \in Processes, Ready(p)
  PROVE  Exists("dlx->dead") /\ Exists("requests->index") /\ Exists("requests->events")
<1>1. /\ Declarations[3] = "dlx->dead" /\ Declarations[8] = "requests->index"
      /\ Declarations[10] = "requests->events"
  BY DEF Declarations
<1>2. Exists(Declarations[3]) /\ Exists(Declarations[8]) /\ Exists(Declarations[10])
  BY ReadyMeansDeclared
<1>3. QED
  BY <1>1, <1>2

-----------------------------------------------------------------------------
(* ---- the steps ---- *)

LEMMA InitPipelineInv == Init => PipelineInv
<1> SUFFICES ASSUME Init
             PROVE  PipelineInv
  OBVIOUS
<1>1. PipelineTypes
  <2>1. declared = [n \in Names |-> declared[n]]
    BY DEF Init, TopologyInit, Names
  <2>2. at \in [Processes -> 0 .. Refusal]
    BY DeclarationsAre DEF Init, TopologyInit
  <2>3. QED
    BY <2>1, <2>2 DEF Init, PipelineTypes
<1>2. DeclaredInv
  BY DEF Init, TopologyInit, DeclaredInv
<1>3. AtWork /\ QueueInv /\ Announced /\ ResultInv
  BY DEF Init, AtWork, QueueInv, Announced, Sent, ResultInv
<1>4. QED
  BY <1>1, <1>2, <1>3 DEF PipelineInv

\* A process declares something, is refused, or starts over while neither a call
\* nor a job depends on it.
LEMMA StartingKeeps ==
  ASSUME PipelineInv, NEW p \in Processes, Starting(p)
  PROVE  PipelineInv'
<1> USE DEF PipelineInv, submitting, working, consuming
<1>1. at' \in [Processes -> 0 .. Refusal] /\ declared' = [n \in Names |-> declared'[n]]
      /\ DeclaredInv' /\ \A q \in Processes \ {p} : at'[q] = at[q]
  BY TopologyStep DEF Starting
<1>2. UNCHANGED <<call, known, resultsQueue, announced, place, holder, copy, handled>>
  BY DEF Starting
<1>3. ~Ready(p)
  BY DeclarationsAre DEF Starting, Declare, Refused, Ready, PipelineTypes
<1>4. PipelineTypes'
  BY <1>1, <1>2 DEF PipelineTypes
<1>5. AtWork'
  BY <1>1, <1>2, <1>3, PipelineAssumption DEF AtWork, Ready, PipelineTypes, Workers
<1>6. QueueInv' /\ Announced' /\ ResultInv'
  BY <1>2 DEF QueueInv, Announced, Sent, ResultInv, Secured
<1>7. QED
  BY <1>1, <1>4, <1>5, <1>6

\* The steps of a call of submit_index.
LEMMA CallKeeps ==
  ASSUME PipelineInv, NEW j \in Jobs, Submit(j) \/ CallStep(j)
  PROVE  PipelineInv'
<1> USE DEF PipelineInv, working, consuming, topology
<1>1. /\ UNCHANGED <<at, declared, holder, copy, handled>>
      /\ \A i \in Jobs \ {j} : call'[i] = call[i] /\ place'[i] = place[i]
  BY DEF Submit, CallStep, DeclareResults, Publish, PipelineTypes
<1>2. DeclaredInv' /\ \A p \in Processes : Ready(p)' <=> Ready(p)
  BY <1>1 DEF DeclaredInv, Arguments, Ready
<1>3. CASE Submit(j)
  <2>1. /\ call[j] = "idle" /\ Ready(Client)
        /\ UNCHANGED <<place, resultsQueue, announced, known>>
        /\ call' = [call EXCEPT ![j] = IF known THEN "publishing" ELSE "declaring"]
    BY <1>3 DEF Submit, Cached
  <2>2. PipelineTypes'
    BY <1>1, <2>1 DEF PipelineTypes
  <2>3. AtWork'
    BY <1>1, <2>1 DEF AtWork, Ready, PipelineTypes
  <2>4. QueueInv' /\ Announced' /\ ResultInv'
    BY <1>1, <2>1 DEF QueueInv, Announced, Sent, ResultInv, Secured, PipelineTypes
  <2>5. QED
    BY <1>2, <2>2, <2>3, <2>4
<1>4. CASE DeclareResults(j)
  <2>1. /\ call[j] = "declaring" /\ UNCHANGED <<place, announced>>
        /\ \/ /\ resultsQueue' = TRUE /\ known' = TRUE
              /\ call' = [call EXCEPT ![j] = "publishing"]
           \/ /\ resultsQueue' \in {resultsQueue, TRUE} /\ known' = known
              /\ call' = [call EXCEPT ![j] = "raised"]
    BY <1>4 DEF DeclareResults
  <2>2. PipelineTypes'
    BY <1>1, <2>1 DEF PipelineTypes
  <2>3. AtWork'
    BY <1>1, <1>2, <2>1, PipelineAssumption DEF PipelineTypes, AtWork, Workers, Ready
  <2>4. QueueInv'
    <3>1. /\ known' => known \/ resultsQueue' = TRUE
          /\ resultsQueue => resultsQueue'
          /\ call'[j] = "publishing" => resultsQueue'
      BY <2>1 DEF PipelineTypes
    <3>2. QED
      BY <1>1, <2>1, <3>1 DEF QueueInv
  <2>5. Announced' /\ ResultInv'
    BY <1>1, <2>1 DEF Announced, Sent, ResultInv, Secured, PipelineTypes
  <2>6. QED
    BY <1>2, <2>2, <2>3, <2>4, <2>5
\* The request is routed and copied, for the client has declared both bindings.
<1>5. CASE Publish(j)
  <2>1. Exists("requests->index") /\ Exists("requests->events") /\ call[j] = "publishing"
    BY <1>5, ReadyHasBindings, PipelineAssumption DEF Publish, AtWork
  <2>2. /\ place' = [place EXCEPT ![j] = "queued"] /\ announced' = announced \cup {j}
        /\ \E end \in {"returned", "raised"} : call' = [call EXCEPT ![j] = end]
        /\ UNCHANGED <<known, resultsQueue>>
    BY <1>5, <2>1 DEF Publish
  <2>3. place[j] = "unsent" /\ holder[j] = Nobody
    BY <2>1 DEF AtWork
  <2>4. PipelineTypes' /\ AtWork'
    BY <1>1, <1>2, <2>2, <2>3, PipelineAssumption DEF PipelineTypes, AtWork, Workers, Ready
  <2>5. QueueInv' /\ Announced'
    BY <1>1, <2>1, <2>2 DEF QueueInv, Announced, Sent, PipelineTypes
  <2>6. ResultInv'
    BY <1>1, <2>2 DEF ResultInv, Secured, PipelineTypes
  <2>7. QED
    BY <1>2, <2>4, <2>5, <2>6
<1>6. QED
  BY <1>3, <1>4, <1>5 DEF CallStep

\* What becomes of jobs whose holder has changed: the others stay where they are.
LEMMA WorkKeeps ==
  ASSUME PipelineInv, NEW w \in Workers, NEW j \in Jobs, WorkStep(w, j) \/ AttemptFails(w, j)
  PROVE  PipelineInv'
<1> USE DEF PipelineInv, submitting, consuming, topology
<1>1. UNCHANGED <<at, declared, call, known, resultsQueue, announced, handled>>
  BY DEF WorkStep, Take, PublishResult, AckJob, AttemptFails
<1>2. DeclaredInv' /\ \A p \in Processes : Ready(p)' <=> Ready(p)
  BY <1>1 DEF DeclaredInv, Arguments, Ready
<1>3. w \in Processes /\ w # Nobody
  BY PipelineAssumption DEF Workers
\* One job gets to another place, or another holder, or both.
<1>4. ASSUME NEW s \in {"queued", "held", "stored", "acked", "dead"},
             NEW h \in {Nobody, w}, place' = [place EXCEPT ![j] = s],
             holder' = [holder EXCEPT ![j] = h],
             h = w => Ready(w) /\ s \in {"held", "stored"},
             copy' \in [Copies -> {"none", "queued", "acked", "rejected"} \cup InHand],
             \A c \in Copies : copy'[c] = copy[c] \/ (copy[c] = "none" /\ copy'[c] = "queued"),
             s \in {"stored", "acked"} => Secured(j)', place[j] # "unsent"
      PROVE  PipelineInv'
  <2>1. PipelineTypes'
    BY <1>1, <1>4 DEF PipelineTypes
  <2>2. AtWork'
    BY <1>1, <1>2, <1>3, <1>4, PipelineAssumption DEF AtWork, Ready, PipelineTypes, Workers
  <2>3. QueueInv' /\ Announced'
    BY <1>1, <1>4 DEF QueueInv, Announced, Sent, PipelineTypes
  <2>4. \A i \in Jobs : Secured(i) => Secured(i)'
    BY <1>1, <1>4 DEF Secured, Copies
  <2>5. ResultInv'
    BY <1>1, <1>4, <2>4, PipelineAssumption DEF ResultInv, InHand, PipelineTypes
  <2>6. QED
    BY <1>2, <2>1, <2>2, <2>3, <2>5
<1>5. ASSUME holder[j] = w
      PROVE  Ready(w) /\ place[j] \in {"held", "stored"}
  BY <1>3, <1>5 DEF AtWork
<1>6. CASE Take(w, j)
  BY <1>4, <1>6 DEF Take, PipelineTypes
<1>7. CASE PublishResult(w, j)
  <2>1. CASE resultsQueue
    <3>1. PICK n \in 1 .. MaxCopies : copy[<<j, n>>] = "none"
                                      /\ copy' = [copy EXCEPT ![<<j, n>>] = "queued"]
      BY <1>7, <2>1 DEF PublishResult
    <3>2. place' = [place EXCEPT ![j] = "stored"] /\ holder' = holder /\ holder[j] = w
      BY <1>7, <2>1 DEF PublishResult
    <3>3. holder' = [holder EXCEPT ![j] = w]
      BY <3>2 DEF PipelineTypes
    <3>4. <<j, n>> \in Copies
      BY DEF Copies
    <3>5. Secured(j)'
      BY <3>1, <3>4 DEF Secured, PipelineTypes
    <3>6. /\ copy' \in [Copies -> {"none", "queued", "acked", "rejected"} \cup InHand]
          /\ \A c \in Copies : copy'[c] = copy[c] \/ (copy[c] = "none" /\ copy'[c] = "queued")
      BY <3>1, <3>4 DEF PipelineTypes
    <3>7. QED
      BY <1>4, <1>5, <3>2, <3>3, <3>5, <3>6
  <2>2. CASE ~resultsQueue
    BY <1>3, <1>4, <1>5, <1>7, <2>2 DEF PublishResult, Leaves, PipelineTypes
  <2>3. QED
    BY <2>1, <2>2
<1>8. CASE AckJob(w, j)
  <2>1. place[j] = "stored" /\ Secured(j) /\ copy' = copy
    BY <1>8 DEF AckJob, ResultInv
  <2>2. Secured(j)'
    BY <1>1, <2>1 DEF Secured
  <2>3. QED
    BY <1>3, <1>4, <1>8, <2>1, <2>2 DEF AckJob, Leaves, PipelineTypes
\* The worker has declared the binding of the dead-letter queue.
<1>9. CASE AttemptFails(w, j)
  <2>1. Exists("dlx->dead") /\ place[j] # "unsent"
    BY <1>3, <1>5, <1>9, ReadyHasBindings DEF AttemptFails
  <2>2. QED
    BY <1>3, <1>4, <1>9, <2>1 DEF AttemptFails, Leaves, PipelineTypes
<1>10. QED
  BY <1>6, <1>7, <1>8, <1>9 DEF WorkStep

LEMMA WorkerDiesKeeps ==
  ASSUME PipelineInv, NEW w \in Workers, WorkerDies(w)
  PROVE  PipelineInv'
<1> USE DEF PipelineInv, submitting, consuming
<1>1. w \in Processes /\ w # Client
  BY DEF Workers
<1>2. at' \in [Processes -> 0 .. Refusal] /\ declared' = [n \in Names |-> declared'[n]]
      /\ DeclaredInv' /\ \A q \in Processes \ {w} : at'[q] = at[q]
  BY <1>1, TopologyStep DEF WorkerDies
<1>3. /\ UNCHANGED <<call, known, resultsQueue, announced, copy, handled>>
      /\ place' = [j \in Jobs |-> IF holder[j] = w THEN "queued" ELSE place[j]]
      /\ holder' = [j \in Jobs |-> IF holder[j] = w THEN Nobody ELSE holder[j]]
  BY DEF WorkerDies
<1>4. w # Nobody
  BY <1>1, PipelineAssumption
<1>5. PipelineTypes'
  BY <1>2, <1>3 DEF PipelineTypes
<1>6. AtWork'
  BY <1>1, <1>2, <1>3, <1>4, PipelineAssumption DEF AtWork, Ready, PipelineTypes, Workers
<1>7. \A j \in Jobs : holder[j] = w => place[j] # "unsent"
  BY <1>4 DEF AtWork
<1>8. QueueInv' /\ Announced' /\ ResultInv'
  BY <1>3, <1>7 DEF QueueInv, Announced, Sent, ResultInv, Secured
<1>9. QED
  BY <1>2, <1>5, <1>6, <1>8

\* The consumer's side: results change hands, and what was stored stays secured.
LEMMA ConsumerKeeps ==
  ASSUME PipelineInv,
         \/ ConsumerStep \/ CancelConsumer
         \/ \E c \in Copies : ResultStep(c) \/ HandlerReturns(c) \/ HandlerRaises(c)
  PROVE  PipelineInv'
<1> USE DEF PipelineInv, working, topology
<1>1. ASSUME UNCHANGED <<at, declared, call, announced, place, holder>>,
             \/ UNCHANGED <<known, resultsQueue>>
             \/ known' \in BOOLEAN /\ resultsQueue' = TRUE,
             copy' \in [Copies -> {"none", "queued", "acked", "rejected"} \cup InHand],
             handled \subseteq handled',
             \A c \in Copies : copy[c] \in {"queued"} \cup InHand =>
               copy'[c] \in {"queued"} \cup InHand \/ c[1] \in handled' \/ c[1] \in Garbled,
             \A c \in Copies : /\ copy'[c] = "done" => c[1] \in handled'
                               /\ copy'[c] = "invalid" => c[1] \in Garbled
      PROVE  PipelineInv'
  <2>1. PipelineTypes' /\ DeclaredInv' /\ AtWork'
    BY <1>1 DEF PipelineTypes, DeclaredInv, Arguments, AtWork, Ready
  <2>2. QueueInv' /\ Announced'
    BY <1>1 DEF QueueInv, Announced, Sent
  <2>3. ASSUME NEW j \in Jobs, Secured(j)
        PROVE  Secured(j)'
    <3>1. CASE j \in handled \/ j \in Garbled
      BY <1>1, <3>1 DEF Secured
    <3>2. CASE \E n \in 1 .. MaxCopies : copy[<<j, n>>] \in {"queued"} \cup InHand
      <4>1. PICK n \in 1 .. MaxCopies : copy[<<j, n>>] \in {"queued"} \cup InHand
        BY <3>2
      <4>2. <<j, n>> \in Copies /\ <<j, n>>[1] = j
        BY DEF Copies
      <4>3. copy'[<<j, n>>] \in {"queued"} \cup InHand \/ j \in handled' \/ j \in Garbled
        BY <1>1, <4>1, <4>2
      <4>4. QED
        BY <4>3 DEF Secured
    <3>3. QED
      BY <2>3, <3>1, <3>2 DEF Secured
  <2>4. ResultInv'
    BY <1>1, <2>3 DEF ResultInv
  <2>5. QED
    BY <2>1, <2>2, <2>4
<1>2. CASE Subscribe \/ Consume \/ CancelConsumer
  <2>1. /\ UNCHANGED <<at, declared, call, announced, place, holder, copy, handled>>
        /\ \/ UNCHANGED <<known, resultsQueue>>
           \/ known' \in BOOLEAN /\ resultsQueue' = TRUE
    BY <1>2 DEF Subscribe, Consume, CancelConsumer, submitting, PipelineTypes
  <2>2. QED
    BY <1>1, <2>1 DEF PipelineTypes, ResultInv
<1>3. CASE CloseChannel
  BY <1>1, <1>3 DEF CloseChannel, Recovered, submitting, PipelineTypes, ResultInv, InHand
<1>4. ASSUME NEW c \in Copies, ResultStep(c) \/ HandlerReturns(c) \/ HandlerRaises(c)
      PROVE  PipelineInv'
  <2>1. /\ UNCHANGED <<at, declared, call, announced, place, holder, known, resultsQueue>>
        /\ \A d \in Copies \ {c} : copy'[d] = copy[d]
        /\ copy' \in [Copies -> {"none", "queued", "acked", "rejected"} \cup InHand]
        /\ handled \subseteq handled'
    BY <1>4 DEF ResultStep, DeliverResult, SettleResult, Settled, HandlerReturns, HandlerRaises,
       Becomes, submitting, PipelineTypes, InHand
  <2>2. /\ copy'[c] \in {"queued"} \cup InHand \/ c[1] \in handled' \/ c[1] \in Garbled
        /\ copy'[c] = "done" => c[1] \in handled'
        /\ copy'[c] = "invalid" => c[1] \in Garbled
    BY <1>4 DEF ResultStep, DeliverResult, SettleResult, Settled, HandlerReturns, HandlerRaises,
       Becomes, PipelineTypes, InHand, ResultInv
  <2>3. QED
    BY <1>1, <2>1, <2>2 DEF ResultInv
<1>5. QED
  BY <1>2, <1>3, <1>4 DEF ConsumerStep

LEMMA ClientDiesKeeps ==
  ASSUME PipelineInv, ClientDies
  PROVE  PipelineInv'
<1> USE DEF PipelineInv, working
<1>1. Client \in Processes /\ Client \notin Workers /\ Client # Nobody
  BY PipelineAssumption DEF Workers
<1>2. at' \in [Processes -> 0 .. Refusal] /\ declared' = [n \in Names |-> declared'[n]]
      /\ DeclaredInv' /\ \A q \in Processes \ {Client} : at'[q] = at[q]
  BY <1>1, TopologyStep DEF ClientDies
<1>3. /\ UNCHANGED <<resultsQueue, announced, place, holder, handled>>
      /\ known' \in {FALSE, known} /\ copy' = Recovered
      /\ call' = [j \in Jobs |-> IF call[j] \in {"declaring", "publishing"} THEN "raised"
                                 ELSE call[j]]
  BY DEF ClientDies
<1>4. PipelineTypes'
  BY <1>2, <1>3 DEF PipelineTypes, Recovered
<1>5. AtWork'
  BY <1>1, <1>2, <1>3 DEF AtWork, Ready, PipelineTypes, Workers
<1>6. QueueInv' /\ Announced'
  <2>1. CASE known' = FALSE
    BY <1>3, <2>1 DEF QueueInv, Announced, Sent
  <2>2. CASE known' = known
    BY <1>3, <2>2 DEF QueueInv, Announced, Sent
  <2>3. QED
    BY <1>3, <2>1, <2>2
<1>7. ResultInv'
  <2>1. \A j \in Jobs : Secured(j) => Secured(j)'
    BY <1>3 DEF Secured, Recovered, Copies
  <2>2. QED
    BY <1>3, <2>1 DEF ResultInv, Recovered, InHand, PipelineTypes
<1>8. QED
  BY <1>2, <1>4, <1>5, <1>6, <1>7

-----------------------------------------------------------------------------
(* ---- the theorems ---- *)

\* PipelineInv holds in every reachable state.
THEOREM PipelineInvariant == Spec => []PipelineInv
<1>1. PipelineInv /\ [Next]_vars => PipelineInv'
  <2> SUFFICES ASSUME PipelineInv, [Next]_vars
               PROVE  PipelineInv'
    OBVIOUS
  <2>1. CASE Next
    BY <2>1, StartingKeeps, CallKeeps, WorkKeeps, WorkerDiesKeeps, ConsumerKeeps, ClientDiesKeeps
       DEF Next
  <2>2. CASE UNCHANGED vars
    BY <2>2 DEF vars, topology, submitting, working, consuming, PipelineInv, PipelineTypes,
       DeclaredInv, Arguments, AtWork, Ready, QueueInv, Announced, Sent, ResultInv, Secured
  <2>3. QED
    BY <2>1, <2>2
<1>2. QED
  BY <1>1, InitPipelineInv, PTL DEF Spec

\* A process that works does so with the queues its own settings ask for, in
\* whatever order and however often the others declare theirs.
THEOREM ArgumentsAreOwn == Spec => []OwnArguments
<1>1. PipelineInv => OwnArguments
  BY DeclarationsAre, ReadyMeansDeclared DEF PipelineInv, OwnArguments, Ready
<1>2. QED
  BY <1>1, PipelineInvariant, PTL

\* No request is sent before its results queue is there.
THEOREM QueueComesFirst == Spec => []ResultsQueueFirst
<1>1. PipelineInv => ResultsQueueFirst
  BY DEF PipelineInv, QueueInv, ResultsQueueFirst, Sent
<1>2. QED
  BY <1>1, PipelineInvariant, PTL

\* Every request is copied to the events exchange as it is sent.
THEOREM RequestsAreAnnounced == Spec => []Announced
<1>1. PipelineInv => Announced
  BY DEF PipelineInv
<1>2. QED
  BY <1>1, PipelineInvariant, PTL

\* A job that was taken is in the queue, in a result or dead-lettered, whichever
\* of the processes dies when.
THEOREM ResultsAreKept == Spec => []NoResultLost
<1>1. PipelineInv => NoResultLost
  BY DEF PipelineInv, ResultInv, Secured, NoResultLost, Sent
<1>2. QED
  BY <1>1, PipelineInvariant, PTL

=============================================================================
