----------------------------- MODULE JobHandler ------------------------------
(***************************************************************************)
(* One batch in the job handler (mq/handler.py) and around it: parse_job   *)
(* turns messages into jobs or rejections; encode_jobs_isolating_failures  *)
(* encodes all jobs with one call of the engine and cuts the vectors up    *)
(* again; when that raises it encodes them one by one.  The worker pairs   *)
(* what it returns with the deliveries by position and settles each: with  *)
(* a reply and an ack, or with a nack.  The vector of a text stands for    *)
(* all that the engine says of it, and depends on the text and on the key  *)
(* of the call.                                                            *)
(***************************************************************************)
EXTENDS Naturals, Sequences, SequencesExt

CONSTANTS
  Texts,     \* strings that a job may carry ...
  Poison,    \* ... those of them on which the engine always raises ...
  Unfit,     \* ... and values that are no such strings: not a string, blank, too long
  Keys,      \* the valid values of (input_type, normalize)
  MaxItems,  \* max_batch_items
  Batches    \* the lists of messages that are considered

\* A message: what its body is ("text": not JSON, "value": JSON but no object),
\* what the body has for job_id ("empty" is any falsy value), its metadata
\* ("large": over the cap, "list": no object), the ids in its properties (an empty
\* one counts as unset, a "long" one is no job_id), whether it is to be answered,
\* has a deadline, and is on its last attempt.  `input` is a bare value or a list.
Properties == {"message_id", "correlation_id"}
Metadata == {"none", "small", "large", "list"}
Message(m) ==
  /\ DOMAIN m = {"body", "id", "metadata", "props", "reply_to", "deadline", "last", "input", "key"}
  /\ m.body \in {"text", "value", "object"} /\ m.id \in {"absent", "empty", "valid", "invalid"}
  /\ m.metadata \in Metadata /\ m.props \in [Properties -> {"unset", "valid", "long"}]
  /\ {m.reply_to, m.deadline, m.last} \subseteq BOOLEAN
  /\ m.input \in Texts \cup Unfit \cup Seq(Texts \cup Unfit)

ASSUME HandlerAssumption ==
  /\ Poison \subseteq Texts /\ Texts \cap Unfit = {} /\ MaxItems \in Nat \ {0}
  /\ \A batch \in Batches : batch \in Seq(ToSet(batch)) /\ \A i \in DOMAIN batch : Message(batch[i])

VARIABLES
  lane,        \* the lane they come in: "query" or "index"
  messages,    \* the messages, in the order in which they are handled
  read,        \* how many of them parse_job() has been called for
  jobs,        \* the batch, in order
  next,        \* 0: the combined call; i: the call for job i; then the end
  outcomes,    \* the list to return
  failedAlone, \* the jobs whose own call raised (history)
  fate,        \* fate[i]: how message i has been settled
  replies      \* replies[i]: the reply to message i that was confirmed, or NoReply

vars == <<lane, messages, read, jobs, next, outcomes, failedAlone, fate, replies>>

Failed == [ok |-> FALSE, embeddings |-> <<>>]
NoReply == [status |-> "none"]

Read == read = Len(messages)
Done == Read /\ next > Len(jobs)

-----------------------------------------------------------------------------
(* ---- parse_job ---- *)

\* `message_id or correlation_id`: the property that the id is taken from.
Fallback(m) ==
  IF m.props["message_id"] # "unset" THEN "message_id"
  ELSE IF m.props["correlation_id"] # "unset" THEN "correlation_id" ELSE "none"

\* The body names an id, valid or not.
Named(m) == m.body = "object" /\ m.id \in {"valid", "invalid"}

\* The job_id that is validated is refused: a long property is one, too, and so
\* is an empty value that nothing replaces.  One that is absent gets a default.
IdRefused(m) ==
  \/ m.id = "invalid"
  \/ ~Named(m) /\ Fallback(m) # "none" /\ m.props[Fallback(m)] = "long"
  \/ m.id = "empty" /\ Fallback(m) = "none"

\* A single string is a list of one.
Coerced(value) == IF value \in Texts \cup Unfit THEN <<value>> ELSE value

ValidInput(value) ==
  /\ Len(Coerced(value)) \in 1 .. MaxItems
  /\ ToSet(Coerced(value)) \subseteq Texts

\* EmbeddingJob.model_validate() raises.
Invalid(m) == \/ IdRefused(m) \/ m.key \notin Keys
              \/ ~ValidInput(m.input)
              \/ m.metadata \in {"large", "list"}

Rejects(m) == m.body # "object" \/ Invalid(m)

\* Faulty variant of NamedId: no fallback for a body that is not an object.
NamedIdBodyOnly(i, default) ==
  CASE Named(messages[i]) -> <<"job_id", i>>
    [] messages[i].body # "object" \/ Fallback(messages[i]) = "none" -> <<default, i>>
    [] OTHER -> <<Fallback(messages[i]), i>>

\* The id in the body, else the fallback, else a default: the place it stands in
\* and the message, for producers may set different ones.
NamedId(i, default) ==
  CASE Named(messages[i]) -> <<"job_id", i>>
    [] ~Named(messages[i]) /\ Fallback(messages[i]) = "none" -> <<default, i>>
    [] OTHER -> <<Fallback(messages[i]), i>>

\* Of an object, also when it is what the message is rejected for.
RejectedMetadata(m) == IF m.body = "object" /\ m.metadata # "list" THEN m.metadata ELSE "none"

\* The worker's reply: `message.correlation_id or result.job_id`; none is sent
\* to a message without reply_to.
Reply(i, status, id, metadata) ==
  IF ~messages[i].reply_to THEN NoReply
  ELSE [status |-> status,
        correlation |-> IF messages[i].props["correlation_id"] # "unset"
                          THEN <<"correlation_id", i>> ELSE id,
        metadata |-> <<metadata, i>>]

\* _settle(): the reply is confirmed and the message acked, or the publish raises
\* (the id may not even fit into a property) and the message is nacked.
Settle(i, reply, retry) ==
  \/ /\ replies' = [replies EXCEPT ![i] = reply]
     /\ fate' = [fate EXCEPT ![i] = "acked"]
  \/ /\ messages[i].reply_to
     /\ fate' = [fate EXCEPT ![i] = IF retry THEN "requeued" ELSE "dropped"]
     /\ UNCHANGED replies

(* ---- encode_jobs ---- *)

\* encode() of the engine, when it returns.
Encoded(input, key) == [k \in DOMAIN input |-> <<input[k], key>>]

AllTexts(batch) == FlattenSeq([i \in DOMAIN batch |-> batch[i].input])

\* The jobs do not share input_type and normalize: ValueError.
Mixed(batch) == \E i \in DOMAIN batch : batch[i].key # batch[1].key

\* encode_jobs() can return.  It may raise on any batch but an empty one, for
\* want of memory, say; so this is no more than a possibility.
CanReturn(batch) ==
  /\ ~Mixed(batch)
  /\ \A i \in DOMAIN batch : ToSet(batch[i].input) \cap Poison = {}

\* Faulty variant of Slice: `offset = end` is missing.
SliceUnadvanced(vectors, batch, i) == SubSeq(vectors, 1, Len(batch[i].input))

\* embeddings[offset:end] of job i
Slice(vectors, batch, i) ==
  LET offset[j \in DOMAIN batch] == IF j = 1 THEN 0 ELSE offset[j - 1] + Len(batch[j - 1].input)
  IN SubSeq(vectors, offset[i] + 1, offset[i] + Len(batch[i].input))

\* What encode_jobs() returns: one call for all texts under the key of the
\* first job, cut up by the number of texts of each.
Results(batch) ==
  IF batch = <<>> THEN <<>>
  ELSE LET vectors == Encoded(AllTexts(batch), batch[1].key)
       IN [i \in DOMAIN batch |-> [ok |-> TRUE, embeddings |-> Slice(vectors, batch, i)]]

-----------------------------------------------------------------------------
Init ==
  /\ lane \in {"query", "index"}
  /\ messages \in Batches
  /\ read = 0
  /\ jobs = <<>> /\ next = 0 /\ outcomes = <<>> /\ failedAlone = {}
  /\ fate = [i \in DOMAIN messages |-> "unsettled"]
  /\ replies = [i \in DOMAIN messages |-> NoReply]

\* _on_message() parses the next message and rejects it ...
Reject ==
  LET i == read + 1 IN
  /\ ~Read /\ Rejects(messages[i])
  /\ read' = i
  /\ Settle(i, Reply(i, "validation_error", NamedId(i, "unknown"), RejectedMetadata(messages[i])), FALSE)
  /\ UNCHANGED <<lane, messages, jobs, next, outcomes, failedAlone>>

\* ... or finds its deadline over, now or when its batch is about to be encoded:
\* the caller of a query has given up, the producer of an index job is told.
Expire ==
  LET i == read + 1 IN
  /\ ~Read /\ ~Rejects(messages[i]) /\ messages[i].deadline
  /\ read' = i
  /\ \/ /\ lane = "query"
        /\ fate' = [fate EXCEPT ![i] = "acked"]
        /\ UNCHANGED replies
     \/ /\ lane = "index"
        /\ Settle(i, Reply(i, "expired", NamedId(i, "new"), messages[i].metadata), FALSE)
  /\ UNCHANGED <<lane, messages, jobs, next, outcomes, failedAlone>>

\* ... or makes it a job of the batch.
Accept ==
  LET i == read + 1
      m == messages[i]
  IN
  /\ ~Read /\ ~Rejects(m)
  /\ read' = i
  /\ jobs' = Append(jobs, [from |-> i, id |-> NamedId(i, "new"), metadata |-> m.metadata,
                           input |-> Coerced(m.input), key |-> m.key])
  /\ UNCHANGED <<lane, messages, next, outcomes, failedAlone, fate, replies>>

\* The combined call returns.
EncodeAll ==
  /\ Read /\ next = 0
  /\ CanReturn(jobs)
  /\ outcomes' = Results(jobs)
  /\ next' = Len(jobs) + 1
  /\ UNCHANGED <<lane, messages, read, jobs, failedAlone, fate, replies>>

\* Faulty variant of AllRaises: the exception is the outcome of every job.
AllRaisesForAll ==
  /\ Read /\ next = 0 /\ jobs # <<>>
  /\ next' = Len(jobs) + 1
  /\ outcomes' = [i \in DOMAIN jobs |-> Failed]
  /\ failedAlone' = IF Len(jobs) = 1 THEN {1} ELSE {}
  /\ UNCHANGED <<lane, messages, read, jobs, fate, replies>>

\* The combined call raises: for a single job that is its outcome.
AllRaises ==
  /\ Read /\ next = 0 /\ jobs # <<>>
  /\ IF Len(jobs) = 1
       THEN next' = 2 /\ outcomes' = <<Failed>> /\ failedAlone' = {1}
       ELSE next' = 1 /\ UNCHANGED <<outcomes, failedAlone>>
  /\ UNCHANGED <<lane, messages, read, jobs, fate, replies>>

\* The call for the next job alone returns.
EncodeOne ==
  /\ next \in DOMAIN jobs
  /\ CanReturn(<<jobs[next]>>)
  /\ outcomes' = outcomes \o Results(<<jobs[next]>>)
  /\ next' = next + 1
  /\ UNCHANGED <<lane, messages, read, jobs, failedAlone, fate, replies>>

\* Faulty variant of OneRaises: the exception is swallowed, not listed.
OneRaisesSkipped ==
  /\ next \in DOMAIN jobs
  /\ failedAlone' = failedAlone \cup {next}
  /\ next' = next + 1
  /\ UNCHANGED <<lane, messages, read, jobs, outcomes, fate, replies>>

\* The call for the next job alone raises: that is its outcome.
OneRaises ==
  /\ next \in DOMAIN jobs
  /\ outcomes' = Append(outcomes, Failed)
  /\ failedAlone' = failedAlone \cup {next}
  /\ next' = next + 1
  /\ UNCHANGED <<lane, messages, read, jobs, fate, replies>>

\* A result of job k, or the internal_error the query lane makes of an exception.
Answer(k) ==
  Reply(jobs[k].from, IF outcomes[k].ok THEN "ok" ELSE "internal_error",
        jobs[k].id, jobs[k].metadata)

\* `zip(live, outcomes)` pairs job and outcome, and one of the _finish() calls that
\* gather() runs settles the message: an index job that failed goes back to its
\* queue, or to the dead letters after its last attempt; any other is answered.
Paired == DOMAIN jobs \cap DOMAIN outcomes

Finish(k) ==
  LET i == jobs[k].from IN
  /\ Done /\ fate[i] = "unsettled"
  /\ \/ /\ ~outcomes[k].ok /\ lane = "index"
        /\ fate' = [fate EXCEPT ![i] = IF messages[i].last THEN "dropped" ELSE "requeued"]
        /\ UNCHANGED replies
     \/ /\ outcomes[k].ok \/ lane = "query"
        /\ Settle(i, Answer(k), lane = "index")
  /\ UNCHANGED <<lane, messages, read, jobs, next, outcomes, failedAlone>>

Next == \/ Reject \/ Expire \/ Accept
        \/ EncodeAll \/ AllRaises \/ EncodeOne \/ OneRaises
        \/ \E k \in Paired : Finish(k)

Spec == Init /\ [][Next]_vars

-----------------------------------------------------------------------------
\* The list has one outcome for each job, in the order of the jobs, and an
\* outcome with vectors has those of the texts in the job's own message, under
\* its own key: the worker's zip() settles every delivery, with its own vectors.
OwnVectors ==
  Done => /\ Len(outcomes) = Len(jobs)
          /\ \A k \in DOMAIN jobs :
               LET m == messages[jobs[k].from] IN
               outcomes[k].ok => outcomes[k].embeddings = Encoded(Coerced(m.input), m.key)

\* A job is reported as failed only if the engine raised on that job alone: one
\* bad job does not fail its batch-mates.  One with a poisonous text is reported.
BlamedAlone ==
  Done => \A k \in DOMAIN outcomes :
            /\ ~outcomes[k].ok => k \in failedAlone
            /\ ToSet(jobs[k].input) \cap Poison # {} => ~outcomes[k].ok

\* When every pair of the zip has been settled no message of the batch is left
\* without an ack or a nack, whatever raised on the way: the worker would hold it,
\* and a place of its prefetch, for good.
NoneLeftOver ==
  Done /\ (\A k \in Paired : fate[jobs[k].from] # "unsettled")
    => \A i \in DOMAIN messages : fate[i] # "unsettled"

\* A message that is acked has been answered, unless it has no reply_to or is a
\* query that may have expired; a failed index job is never answered.  And its
\* producer can tell what a reply is for: if an id can be read anywhere in the
\* message, the reply carries one of its own, and if the job was accepted, its own
\* metadata, whatever became of it ("a producer that only set the property still
\* gets a correlatable error").
Correlatable ==
  \A i \in DOMAIN messages :
    LET m == messages[i]
        reply == replies[i]
        known == {p \in Properties : m.props[p] # "unset"} \cup (IF Named(m) THEN {"job_id"} ELSE {})
    IN  /\ fate[i] = "acked" => \/ reply # NoReply \/ ~m.reply_to
                                \/ lane = "query" /\ m.deadline
        /\ reply # NoReply =>
             /\ fate[i] = "acked" /\ m.reply_to
             /\ lane = "index" => reply.status # "internal_error"
             /\ known # {} => reply.correlation \in known \X {i}
             /\ ~Rejects(m) => reply.metadata = <<m.metadata, i>>

\* Metadata over the cap is not echoed.
EchoCapped == \A i \in DOMAIN replies : replies[i] # NoReply => replies[i].metadata[1] # "large"

=============================================================================
