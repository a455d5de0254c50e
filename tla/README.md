# TLA+ models of the embedding service

The repository is a sentence-embedding service. An HTTP endpoint encodes texts
in its own process; behind RabbitMQ a pool of workers takes jobs from a *query*
lane (search queries, a caller is waiting) and an *index* lane (bulk passages,
results go to a durable queue). This directory holds models of the parts whose
correctness depends on the order of events, abstract specifications of what the
central parts promise, TLC configurations that check them on small instances,
and TLAPS proofs that hold for every instance.

## Inventory

| Component | State it keeps | Operations | What is hard about it | What makes it correct |
| --- | --- | --- | --- | --- |
| `PrioritySlot` (mq/batcher.py) | `_busy`, heap of futures | `acquire`, `_release` | a waiter is cancelled before, while or after it is handed the slot | one holder, no leak, nobody stranded, priority order |
| `MicroBatcher` (mq/batcher.py) | groups by key, `_changed` | `add`, `take_ready`, `next_batch`, `drain` | adds during the wait, partial pops, two release conditions | batches bounded and of one key, nothing lost, wakes in time |
| `EmbeddingWorker` (mq/worker.py) | lanes, loops, in-flight batches, `_draining` | `run`, `_on_message`, `_lane_loop`, `_process`, `_settle`, `_shutdown` | a start that fails half-way; crash, stop, reconnection and failed replies between any two steps | ack only after the reply is confirmed; every job settled; bounded retries |
| Broker topology (mq/topology.py) | exchanges, queues with their arguments, bindings | `declare_topology`, `declare_results_queue` | several processes declare at once, with other settings, or die half-way | nobody works over queues or bindings that are missing or another's |
| Job handler (mq/handler.py) | none | `parse_job`, `encode_jobs`, `encode_jobs_isolating_failures` | ids and metadata from several places; cutting one result over several jobs | each job gets its own vectors, failure, id and metadata |
| `EmbeddingClient` (mq/client.py) | `_pending` futures, `_declared_results` | `embed_query`, `_on_reply`, `submit_index`, `consume_results`, `cancel`, `close` | late and early replies, full queue, close while waiting; handlers that raise or die with their process | each call ends, with its own reply; no result is lost |
| `EmbeddingEngine` (main.py) | `_model`, `_load_lock`, a logger's level | `load`, `warmup`, `encode`, `generate_embedding` | several threads | one model, there for whoever encodes |
| HTTP service (apis.py) | `_encode_limiter`, counters | `lifespan`, `create_embeddings`, health | start-up, time limit, failures | no request before the warmup, tokens come back, every request is answered |
| Schemas, settings (schemas.py, config.py) | none | validation | | |

How they interact: every process declares the topology; then the client
publishes a job to a queue of the broker, which pushes it to a worker's consumer
(`_on_message`); that parses it and adds it to the lane's `MicroBatcher`; the
lane loop takes a batch, checks deadlines, takes the `PrioritySlot`, runs
`encode_jobs_isolating_failures` in a thread, publishes each reply on the lane's
confirm channel and acks. Replies to queries go to the client's reply queue,
results of index jobs to a durable queue that `consume_results` reads. The HTTP
endpoint uses the same engine, in a process of its own, behind a capacity
limiter. Inside a worker or a client everything but the encode is one asyncio
loop, so code between two awaits is atomic; in the HTTP process encodes are
real threads.

The hazards these parts are exposed to are listed, with their lines and the
properties that cover them, under `hazards` in PROJECT.json.

## Modules

| Module | Models | Extends / used by |
| --- | --- | --- |
| `PrioritySlot` | mq/batcher.py `PrioritySlot` | `MCPrioritySlot`, `PrioritySlotProofs` |
| `PriorityLock` | what the slot promises: a lock handed over by priority | instantiated by `PrioritySlot` |
| `MicroBatcher` | mq/batcher.py `MicroBatcher`, the lane loop around it | `MCMicroBatcher`, `MicroBatcherProofs` |
| `BatchBuffer` | what the batcher promises: lines that lose their front to batches | instantiated by `MicroBatcher` |
| `EmbeddingWorker` | mq/worker.py, the broker's queues, outcomes of mq/handler.py | `MCEmbeddingWorker`, `EmbeddingWorkerProofs`, `JobDeliveryProofs` |
| `JobDelivery` | what the queue promises a producer: at-least-once delivery | instantiated by `EmbeddingWorker` |
| `EmbeddingService` | main.py `EmbeddingEngine`, apis.py | `MCEmbeddingService`, `EmbeddingServiceProofs` |
| `QueryClient` | mq/client.py, the query side of `EmbeddingClient` | `MCQueryClient`, `QueryClientProofs` |
| `JobHandler` | mq/handler.py with schemas.py: messages to jobs to replies | `MCJobHandler`, `JobHandlerProofs` |
| `Topology` | mq/topology.py, declared by several processes | extended by `IndexPipeline` |
| `IndexPipeline` | mq/client.py, the index side of `EmbeddingClient`, over `Topology`, with workers in outline | `MCIndexPipeline`, `IndexPipelineProofs` |

Operators called *faulty variant* are not part of a specification: each is a
plausible mistake in the code, kept next to the definition it would replace, and
shows that a property notices the mistake.

### PrioritySlot

`busy` is `_busy`; `waiters` with `ahead` is the heap: who has an entry, and
whose sequence number is smaller. `status` says where a task is inside
`acquire`. The two-step hand-overs of asyncio are explicit: between
`set_result()` and the moment the waiter runs it is `granted`, and if it is
cancelled in between, `revoked`; a cancelled waiter that has not run yet is
`cancelled` and its dead entry stays in the heap. A task can call `acquire` again
after it has left.

### MicroBatcher

`order`, `items`, `texts`, `age` are the dict of groups in its insertion order.
Ages replace clock readings. Ages beyond the window are compressed so that only
their order remains, which is all `take_ready` looks at, so time is unbounded
in a finite state space. `pc`, `timer` and `changed` are the lane loop inside
`next_batch`. `waited` is a history variable, the real age of each item.

### EmbeddingWorker

`place` is where the broker has the message of each job. A *delivery* is a
triple of worker, job and connection; `stage` says how far its handling is,
`batched` whether a `_process` answers for it. `mode` is the worker's `run`:
`starting` (the lanes are started one after the other, the first one consumes
while the second is not there yet), `ready`, `draining` (consumers and loops
being cancelled), `finishing` (gather of what is in flight), `flushing`
(processing what `drain()` popped), `closing`, `down`.

A lane is started in two steps: with `Consume` the broker has the consumer
(`consuming`) and may deliver; with `StartLoop` the worker has its tag
(`tagged`) and the loop runs (`looping`). A start that fails in between leaves a
consumer that `_shutdown` does not know of. A cancel that fails has no step of
its own: `CancelLoops` does not wait for the consumers to be gone, and those that
are left deliver until the connection is closed.

A crash, a stop, a lost connection and a start that fails may come between any
two actions; `Interruptions` says which of them an instance has,
`MaxInterruptions` bounds their number. On a lost connection the broker takes
back the unacked messages while the process goes on with its stale deliveries; a
call on a stale channel raises (`StaleSettle`): out of `gather` and `_process`
this ends the lane loop, while the other `_finish` calls of the batch go on.

`returned` counts returns up to `DeliveryLimit`. The code compares it with the
limit only, so nothing is lost by stopping there. Which returns the broker's own
`x-delivery-limit` counts differs between versions; beyond the limit
dead-lettering by the broker is a free choice.

The batcher is abstracted to "any non-empty set of buffered deliveries of the
lane", the slot to the lane that encodes. Because each lane has at most one
batch in flight, at most one batch can ever wait for the slot: with two lanes
the order of the heap is never put to use by the worker.

### EmbeddingService

Threads that load the model with the double-checked lock, and may raise before
the model is assigned and after; the app's `lifespan`, which loads, warms up with
one throwaway encode and opens the port, or gives up when either raises; scripts
that call `generate_embedding`, which loads and then encodes without a token; and
requests that wait for a token, encode and measure truncation. Reading, setting and restoring the logger's level are separate
actions of any encode, the warmup's included. The limiter is anyio's; it is
modelled by its contract.

### QueryClient

`pending` is `_pending`; `future` says what has happened to the future of each
call, `verdict` what the broker and the connection made of its publish. The
future is registered before the publish, so a reply may overtake the confirm;
the timer starts only after the publish has returned. When the timer and a reply
come together before the call runs again, the timer wins, as in
`asyncio.timeout`. `close()` sets an exception on the futures that are not done
and clears `_pending` (`Close`), and some time later its connection is gone and
breaks the publishes under way (`Closed`); calls that begin in between register
as ever. The workers are seen from the client only:
an accepted job is answered any number of times or never.

### JobHandler

A message is a record of what matters about it: whether its body is JSON and an
object, where an id can be found and whether it is valid, empty or too long, its
metadata, its input and key, whether it wants a reply, has a deadline, is on its
last attempt. The next one is parsed and rejected (`Reject`), found expired
(`Expire`), or made a job of the batch (`Accept`). Then `next` is the call of the
engine that comes next: the combined one, or the one for a single job. The
engine may raise on any call, and always raises on a poisonous text. `Finish`
settles one of the pairs that `zip` makes of deliveries and outcomes, as the
lane has it: a failed index job goes back or to the dead letters and is not
answered, a failed query is; a message without `reply_to` is acked without a
reply, and one whose reply cannot be published is nacked. `fate` and `replies`
say what became of each. An id is a pair of the place it was found in and the
message it was found on, a vector a pair of text and key, so that one that goes
to the wrong job shows. Batches of mixed keys, which the batcher never makes but
the function guards against, and the empty batch are inputs too.

### Topology and IndexPipeline

`declared` is what exists at the broker, with the arguments it was first
declared with; `at` how many of the ten declarations each process has made. A
declaration with other arguments closes the channel, and the process ends. A
process that dies starts over. The declaration of the results queue, by
`submit_index` or by `consume_results`, may raise like any other call, whether
the broker has made the queue or not.

`IndexPipeline` adds the client's `submit_index` (`call`, and `known` for
`_declared_results`), a message per job (`place`, `holder`), the results it
leaves (`copy`) and the subscription that reads them. The workers are an
outline of `EmbeddingWorker`: a job is held, its result stored or bounced, then
acked; or the attempt fails and the job comes back or is dead-lettered; or the
worker dies between any two of these. A handler that still runs when its channel
closes counts for nothing: its result comes back. `MaxCopies` bounds the results
of one job, `MaxMishaps` the deaths, lost confirms, failed declarations of the
results queue and repeated attempts together.

## Abstract specifications

Three modules say what a component promises, in terms its users know, and the
detailed module is checked to implement each under a refinement mapping. For
the safety part of each this is proved as well.

* `PrioritySlot` implements `PriorityLock`: no futures, heap or
  two-step hand-over, only a holder and those who wait. The holder is whoever
  owns the slot, a task that was handed it and has not run included, even if it
  is cancelled already; those who wait are the live entries of the heap. So a
  hand-over is one step that goes to the best waiter at the moment of
  `_release`, the removal of a dead entry is none, and a cancelled waiter gives up.
  `Lock!Safety` is this; `Lock!Spec` adds that the top priority is served.
* `EmbeddingWorker` implements `JobDelivery`: a job is unsent, open, or settled
  once and for all. An open job is in a queue or held by a worker, which a
  crash, a stop or a reconnection does not change. Its liveness, that no job
  stays open for ever, is part of the abstract specification (`Spec`, not `Safety`).
* `MicroBatcher` implements `BatchBuffer`: a line for each key, of which a batch
  takes the front. Clock, wake-ups, the counter of texts and the dict's order
  are gone; a stop, in the wait or during a batch, and the final `drain` are
  nothing special.

## Runs

| Run | Instance | What it shows |
| --- | --- | --- |
| `slot` | 2 query and 3 index tasks | the safety properties that are also proved; a query waiter is served; the slot implements `PriorityLock` |
| `batcher` | 4 items of 1, 2, 3 (oversized) and 1 texts, 2 keys, limit 2, window 2 | no oversleeping; progress unless other keys keep full; the batcher implements `BatchBuffer` |
| `batcher_starves` | the same | violation: a due group starves behind full ones |
| `worker_faults` | 1 worker of both lanes, a query with a deadline and an index job, one stop, crash or failed start | graceful shutdown, retry bound, acks only after answers; the worker implements `JobDelivery` |
| `worker_batch` | 1 worker of the index lane (the default), a job with a deadline and a malformed one without reply_to, one stop, crash or lost connection | dead letters only after the last attempt; stale deliveries in one batch with fresh ones |
| `worker_loop_dies` | 1 worker of the index lane, 2 jobs, one lost connection | violation: a stale ack ends the lane loop |
| `service_one` | the app and a script that loads and encodes, 3 requests, 1 token | loading, warmup, tokens, answers, the logger's level |
| `service_two` | the app, 2 requests, 2 tokens | violation: the logger's level is not restored |
| `query_client` | 2 calls, a queue for 1 job | each call ends once and leaves nothing behind, with its own reply; overload, early replies, close |
| `job_handler` | all batches of up to 3 plain messages, and of a plain and an unusual one | own vectors, failures, ids and metadata for every job; every message is settled |
| `handler_echo` | the same | violation: a rejection echoes metadata over the cap |
| `index_pipeline` | a client and 2 workers, one of other settings; 2 jobs, one with unreadable results; 2 copies, prefetch 1, 1 mishap | nothing is sent over missing queues or bindings; no result is lost; every job gets to the handler or the dead-letter queue |

The bounds are the smallest in which the cases that matter occur. For the slot:
two tasks of one priority and three of the other, so that dead entries stand
before, between and behind live ones and two of a kind compete behind a holder.
For the batcher: an item below, at and above the limit, so that batches fill
exactly, overflow and leave leftovers, and a second key for the choice between
groups. For the worker: a delivery limit of 2 has a first, retried and last
attempt; a job of each lane contends for the slot; a job that comes back on a
second connection is the batch-mate of its own stale delivery, the mixture in
which one ack raises and another does not. One interruption can fall between any
two steps, the recovery from it included. Two interruptions, or three jobs, are
too many states for a run; the proofs about the worker are for any number of
jobs and interruptions of all kinds. For the client: a second call is what fills the
queue and what a wrong reply could reach. For the handler: three jobs have a
slice at the start, in the middle and at the end, and two lengths make offsets
differ from indices. For the pipeline: a second worker with other settings may
come first and have the client and the first worker refused; two jobs share the
client's memory of the results queue and the prefetch; a second copy is what a
duplicate needs.

Deadlock is not checked where the system may stop: all jobs settled, all
requests answered. It is checked for the slot and the batcher.

### Fairness

Weak fairness is asked only of what runs by itself: callbacks that are due,
threads that are started, an encode that ends, the clock, the broker's
deliveries and answers, the start and restart of a process. Nobody has to
submit, cancel, stop or crash. In `QueryClient` only a call that is due runs for
sure: the end of all calls after `close()` depends neither on a timer nor on the
broker. Requests of the HTTP service are answered without the help of their
time limit. In `IndexPipeline` the application subscribes again and again
(`ConsumerStep`): results are kept for a consumer, not pushed at anybody.

Strong fairness is asked where something is attempted again and again. In
`EmbeddingWorker` a reply that is attempted without end is accepted in the end.
Without it the liveness of `JobDelivery` fails, rightly: an index job whose
result cannot be delivered is requeued without regard to the attempt limit. In
`IndexPipeline` the queue delivers each result at some time though others
compete for the prefetch, and a handler that is called over and over for a
result returns once.

## Findings

* **A worker can go deaf** (`worker_loop_dies`). An ack on a connection that
  has been replaced raises, the exception ends `_lane_loop`, and nothing watches
  that task. The worker stays `is_ready`, its restored consumer fills up to the
  prefetch and nothing is processed.
* **A due group can starve** (`batcher_starves`). `take_ready` returns a full
  group without looking at groups whose window is over, against "whichever comes
  first" in the docstring.
* **A logger stays muted** (`service_two`). With `MAX_CONCURRENT_ENCODES` above 1,
  two threads interleave saving and restoring a level. With the default of 1 it is
  restored (`service_one`).
* **The cap on echoed metadata is not a cap on the echo** (`handler_echo`). A job
  whose metadata is over `MQ_METADATA_MAX_BYTES` is rejected, with a reply that
  contains that metadata in full.

## Proofs

Every safety property that a passing run checks on a small instance is proved
for every value of the constants, one of them under a hypothesis given below,
and so is the safety part of the three refinements. Type invariants are proved
for the slot, the batcher, the worker, the service and the query client. Each
proof module extends the module it is about.

### Assumptions

The constants have their types; beyond that:

| Assumption | Why the code justifies it |
| --- | --- |
| limits, capacities and sizes are positive (`MaxTexts`, `SizeOf`, `DeliveryLimit`, `Prefetch`, `MaxLength`, `MaxItems`, `MaxConcurrentEncodes`) | the settings and the validation of the input demand it |
| `Loaders` and `Requests` are disjoint, `Requests` is finite | a process sees finitely many requests; tokens in use are counted by a cardinality |
| `"nobody"`, `Nobody`, `"absent"` are no thread, process or setting | markers of the models |
| the input of a message is one fit text, one unfit one, or a list of such | `EmbeddingInput` is a string or a list of strings |

`LevelIsRestored` has a hypothesis of its own: one encode at a time, the default;
with two it is false (`service_two`). Two properties say themselves when they
hold: `LevelRestored` while no script has gone past the limiter, and
`NothingAbandoned` for workers that are on their first connection, because the
loop that dies of a stale ack (`worker_loop_dies`) abandons what it had.
`UnackedInHand` is what is left of it on later connections: a loop that lives has
lost nothing.

### PrioritySlot

The invariant `SlotInv` is the conjunction of `TypeOK`, the three invariants of
the run and `HeapHoldsSuspended`: exclusion is preserved by a hand-over because the
releasing task was the owner, and by `acquire` on a free slot because `_busy`
tells the truth; `_busy` tells the truth because the heap's live entries are
exactly the pending waiters. `ReleaseKeepsSlotInv` carries the argument for
`_release`, which three actions share. `PriorityRespected`, an action property,
follows from the invariant and the order in which `_release` pops. For
`SlotImplementsLock` the order of arrival of the heap, restricted to live
entries, must be that of the lock; `OrderInv` says that an entry that has left
the heap has left no trace in it.

### EmbeddingWorker

`EmbeddingWorkerProofs` has the invariant on which the rest builds, `WorkerInv`,
the conjunction of

* `TypeOK`;
* `AckInv`: what `AckedMeansAnswered` says of acked messages holds of every ack
  that is decided and on its way (`AcksJustified`), since a crash or another
  delivery may come in between;
* `HolderInv`: a delivery that is held on an open channel has its message
  unacked, an unacked message has such a delivery, and only one. Three kinds of
  step change it: a delivery, a settling, and the end of a connection
  (`HolderReturn`);
* `DeliveryInv`: no delivery bears the number of a connection still to come
  (else a reconnection would turn a stale delivery into a fresh one), and what
  is in a batch is held (else the end of the grace period would make something
  of nothing);
* `LoopInv`: where part of a batch has been lost the lane has no loop and will
  not get one, since a lane that is still to be started has had no batch.

`UnackedIsInHand` joins the last three: a message that the broker counts as
unacked has a delivery on an open channel, and if that is lost its loop is gone.
`AnswersSurvive`, about steps, needs no more than the types: whoever settles
moves only what has no `_finish` yet.

`JobDeliveryProofs` first says, once for all actions, how far one step can take
a delivery (`StepProceeds`) and a message (`StepTransfers`). From these follow

* `IndexJobsAreKept`: by `KeptInv`, every reply and verdict under way is
  justified (`VerdictsJustified`), because a nack that decides the fate of a
  message was chosen steps before, perhaps on a connection that is gone;
* `WorkersImplementDelivery`: each settling needs what `AcksJustified` and
  `VerdictsJustified` say of the stage it came from;
* `AttemptsAreBounded`: by `RetryInv`. A failure is paid for by a return that
  was counted, by the delivery that is out now, or by an interruption. What may
  still fail, and a process on its way down, count as spent already; otherwise
  stale deliveries that fail after their message has come back would not be
  accounted for;
* `NothingIsAbandoned`: by `MindedInv`, what a worker consumes has a loop until
  the loops are stopped, and by then its consumers are gone.

### MicroBatcher

`BatcherInv` adds to `TypeOK` and `TextsCounted` that the age of a group is no
less than the wait of any of its items (`WaitInv`, leftovers keep the
timestamp), that a sleeping loop that nothing will wake has nothing to do before
its timer has run down (`SleepInv`), and that no batch is out while the loop
polls or waits (`BatchInv`). `NeverOversleeps` follows from the first two.
`SleepInv` rests on `NoneSelected`: when `take_ready` returns nothing, no
group is full or due; there is always a first full one and a first of the
oldest (`FirstFull`, `FirstOldest`).

The counters are sums over sequences. `TotalIs` shows that the recursion of
`Total` has a solution, `TotalOfConcat` and `SplitTotal` what it is of a sequence
in two parts; `TakenFits` that `_pop` finds where to cut. `BatcherImplementsBuffer`
is the refinement as the run checks it: `BatchBuffer` promises no liveness.

### JobHandler

`HandlerInv` says what the outcomes listed so far mean, and where the jobs come
from: `k` calls have given `k` outcomes (`ProgressInv`), each job is that of an
accepted message (`JobsInv`), an outcome is about the job at its place
(`OutcomesInv`), a reply about its message (`FatesInv`). The heart is
`SlicesAreOwn`: the offsets of `encode_jobs` and the lengths of the jobs' texts
run in step, so that cutting up the vectors of the joined list gives each job
those of its own texts, whatever the lengths. `FatesInv` is about the messages:
one that has been read is settled or has a job, and one that is acked has the
reply it is to have, if any. With as many outcomes as jobs the pairs of `zip`
reach all of them (`BatchIsSettled`).

### EmbeddingService

`ServiceInv` ties the model to the places of the threads: who is between the two
ends of the load lock and what it has found there, and that whoever has left it
otherwise than by an exception leaves a model behind (`LockInv`); how far `lifespan`
is before anyone is let in (`ServingInv`); and who has a token (`TokenInv`).
`LevelInv` is about the logger: with one token no two threads encode at once
(`OneAtATime`, the warmup included, which takes no token but is over by then), so
what a thread has saved is the usual level. Once `generate_embedding` encodes
beside the app nothing is claimed.

### QueryClient

`ClientInv` adds to the checked properties what decides the end of a call while
others are at work on it: a future holds only replies to its call
(`FuturesInv`), replies are seen only of calls that have begun (`SeenInv`), and
the broker has not taken what it has refused or not decided on (`VerdictInv`).

### Topology and IndexPipeline

All of `PipelineInv` rests on the order of declarations: what a process has
declared is there with its own arguments (`DeclaredInv`), so that those who
publish or hold a job may count on queues and bindings (`AtWork`), also while
others declare, die or are refused. `QueueInv` is the client's memory of the
results queue, `ResultInv` follows a result from the worker to the handler.

### Induction over data

The prover cannot instantiate the induction theorems of the library, which take
an operator. `NatSetInduction`, proved from the well-foundedness of the natural
numbers, does without: it is about a *set* of numbers, and each induction
defines the set of those for which its claim holds. In the same way the
recursive functions of `Total` and of the handler's offsets are shown to exist
before they are used.

### Only model-checked

Liveness is beyond the prover: `TopPriorityServed`, `TakenUnlessCrowdedOut`,
`StopCompletes`, `EveryRequestAnswered`, `CloseEndsCalls`, `HandledInTheEnd`, and
the liveness of `ImplementsLock` and `ImplementsDelivery`. So are the four
violations, of course: TLC shows them.

## Not modelled

The values of the settings (constants of the models); the API key, request ids,
logging and the health endpoints, which only read (the average time of
`/health/engine` among them); what an embedding is and the comparison of token
counts behind the truncation flags; anyio's limiter and RabbitMQ from inside. In
the models of the worker the timeout of a publish and the time it takes are one
with its failure.

## Plan

1. `PrioritySlot` with its proofs, `MicroBatcher`, `EmbeddingWorker`,
   `EmbeddingService`, `QueryClient` and `JobHandler`: done.
2. Topology, the index side of the client, `parse_job` and its replies,
   start-up of worker and app; the three abstract specifications: done.
3. Proofs of safety of every component, and of the safety part of the three
   refinements: done.
4. Left: theorems about how the models fit together. The lane loop of
   `MicroBatcher` and `EmbeddingWorker`'s "any non-empty set of buffered
   deliveries" meet only in prose, as do `IndexPipeline`'s outline of the workers
   and `JobDelivery`; and action properties, such as that a settled job stays
   settled, which now follow from the refinements.
