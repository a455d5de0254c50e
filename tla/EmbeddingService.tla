-------------------------- MODULE EmbeddingService --------------------------
(***************************************************************************)
(* The HTTP process: the engine with its lazily loaded model (main.py) and *)
(* the endpoint that encodes in worker threads behind a capacity limiter   *)
(* (apis.py).  A script may call generate_embedding() in the same process. *)
(* Threads share the model, the load lock and the level of the logger of   *)
(* `transformers`; an action is what a thread does between two accesses to *)
(* one of these, or an event-loop callback.                                *)
(***************************************************************************)
EXTENDS Naturals, FiniteSets

CONSTANTS
  Loaders,               \* threads that call engine.load()
  Lifespan,              \* the one of them that the app's lifespan runs; the others
                         \* are in generate_embedding()
  Requests,              \* calls of POST /v1/embeddings
  MaxConcurrentEncodes   \* max_concurrent_encodes, tokens of _encode_limiter

ASSUME ServiceAssumption ==
  /\ Lifespan \in Loaders /\ Loaders \cap Requests = {}
  /\ "nobody" \notin Loaders /\ IsFiniteSet(Requests)
  /\ MaxConcurrentEncodes \in Nat \ {0}

VARIABLES
  model,     \* _model: "none" or "ready"
  lock,      \* who holds _load_lock, or "nobody"
  built,     \* how many models have been constructed (history)
  serving,   \* lifespan has reached its yield
  pc,        \* where each loader and request is; "warm" and "aborted" end the
             \* start-up of the app
  queue,     \* requests that wait for a token, a set: any may be next
  borrowed,  \* borrowers of _encode_limiter
  level,     \* level of the logger of transformers, "usual" or "ERROR"
  saved,     \* saved[t]: previous_level in t's _detect_truncation()
  tasksRun   \* _tasks_run

engine == <<model, lock, built>>
limiter == <<queue, borrowed>>
logging == <<level, saved>>
vars == <<engine, serving, pc, limiter, logging, tasksRun>>

Threads == Loaders \cup Requests
Scripts == Loaders \ {Lifespan}

LoaderPlaces == {"start", "locking", "inside", "building", "publishing", "reporting",
                 "loaded", "warm", "aborted"}
Measuring == {"reading", "muting", "tokenizing"}
Encoding == {"encoding", "encoded", "failed"} \cup Measuring
Answers == {"200", "500", "503 loading", "503 busy"}

Go(t, place) == pc' = [pc EXCEPT ![t] = place]

-----------------------------------------------------------------------------
Init ==
  /\ model = "none" /\ lock = "nobody" /\ built = 0
  /\ serving = FALSE
  /\ pc = [t \in Threads |-> "start"]
  /\ queue = {} /\ borrowed = {}
  /\ level = "usual" /\ saved = [t \in Threads |-> "usual"]
  /\ tasksRun = 0

(* ---- EmbeddingEngine.load ---- *)

\* Faulty variant of LoadEnter: somebody else is loading already, so go on.
LoadEnterBusy(l) ==
  /\ pc[l] = "start"
  /\ Go(l, IF model # "none" \/ lock # "nobody" THEN "loaded" ELSE "locking")
  /\ UNCHANGED <<engine, serving, limiter, logging, tasksRun>>

\* The unlocked check.
LoadEnter(l) ==
  /\ pc[l] = "start"
  /\ Go(l, IF model # "none" THEN "loaded" ELSE "locking")
  /\ UNCHANGED <<engine, serving, limiter, logging, tasksRun>>

LoadLock(l) ==
  /\ pc[l] = "locking" /\ lock = "nobody"
  /\ lock' = l
  /\ Go(l, "inside")
  /\ UNCHANGED <<model, built, serving, limiter, logging, tasksRun>>

\* Faulty variant of LoadRecheck: the lock without the second check.
LoadNoRecheck(l) ==
  /\ pc[l] = "inside"
  /\ Go(l, "building")
  /\ UNCHANGED <<engine, serving, limiter, logging, tasksRun>>

LoadRecheck(l) ==
  /\ pc[l] = "inside"
  /\ IF model # "none"
       THEN Go(l, "loaded") /\ lock' = "nobody"
       ELSE Go(l, "building") /\ UNCHANGED lock
  /\ UNCHANGED <<model, built, serving, limiter, logging, tasksRun>>

\* SentenceTransformer(...) and max_seq_length, of a local variable.
LoadBuild(l) ==
  /\ pc[l] = "building"
  /\ built' = built + 1
  /\ Go(l, "publishing")
  /\ UNCHANGED <<model, lock, serving, limiter, logging, tasksRun>>

\* `self._model = model`: everybody can see it from now on.
LoadPublish(l) ==
  /\ pc[l] = "publishing"
  /\ model' = "ready"
  /\ Go(l, "reporting")
  /\ UNCHANGED <<lock, built, serving, limiter, logging, tasksRun>>

\* What the model says of itself is logged, and the lock is released.
LoadReport(l) ==
  /\ pc[l] = "reporting"
  /\ lock' = "nobody"
  /\ Go(l, "loaded")
  /\ UNCHANGED <<model, built, serving, limiter, logging, tasksRun>>

\* The download or the construction raises out of the `with`, or what is logged
\* does, when the model is there already.  A script may try again; lifespan does
\* not, and the app never starts.
LoadFails(l) ==
  /\ pc[l] \in {"building", "reporting"}
  /\ lock' = "nobody"
  /\ Go(l, IF l = Lifespan THEN "aborted" ELSE "start")
  /\ UNCHANGED <<model, built, serving, limiter, logging, tasksRun>>

(* ---- generate_embedding ---- *)

\* Its encode, for which it needs no token.
GenerateEmbedding(l) ==
  /\ l \in Scripts /\ pc[l] = "loaded"
  /\ Go(l, "encoding")
  /\ UNCHANGED <<engine, serving, limiter, logging, tasksRun>>

(* ---- lifespan ---- *)

\* `await to_thread.run_sync(engine.warmup)`: one throwaway encode.
Warmup ==
  /\ pc[Lifespan] = "loaded"
  /\ Go(Lifespan, "encoding")
  /\ UNCHANGED <<engine, serving, limiter, logging, tasksRun>>

\* Faulty variant of Serve: the app waits for its model but not for the warmup.
ServeWhenLoaded ==
  /\ ~serving /\ model # "none"
  /\ serving' = TRUE
  /\ UNCHANGED <<engine, pc, limiter, logging, tasksRun>>

\* `yield`: the port opens.
Serve ==
  /\ ~serving /\ pc[Lifespan] = "warm"
  /\ serving' = TRUE
  /\ UNCHANGED <<engine, pc, limiter, logging, tasksRun>>

(* ---- create_embeddings ---- *)

\* The readiness check and the call of _encode_limiter.acquire().
Arrive(r) ==
  /\ serving /\ pc[r] = "start"
  /\ IF model = "none"
       THEN Go(r, "503 loading") /\ UNCHANGED queue
       ELSE Go(r, "waiting") /\ queue' = queue \cup {r}
  /\ UNCHANGED <<engine, serving, borrowed, logging, tasksRun>>

\* fail_after(encode_queue_timeout_s) cancels the acquire().
TimeOut(r) ==
  /\ pc[r] = "waiting"
  /\ queue' = queue \ {r}
  /\ Go(r, "503 busy")
  /\ UNCHANGED <<engine, serving, borrowed, logging, tasksRun>>

\* acquire() returns; the request is counted and its thread started.
StartEncode(r) ==
  /\ pc[r] = "waiting" /\ r \in queue
  /\ Cardinality(borrowed) < MaxConcurrentEncodes
  /\ queue' = queue \ {r}
  /\ borrowed' = borrowed \cup {r}
  /\ tasksRun' = tasksRun + 1
  /\ Go(r, "encoding")
  /\ UNCHANGED <<engine, serving, logging>>

\* Faulty variant of Respond: the release is skipped when the encode raised.
RespondNoFinally(r) ==
  /\ pc[r] \in {"encoded", "failed"}
  /\ borrowed' = IF pc[r] = "encoded" THEN borrowed \ {r} ELSE borrowed
  /\ Go(r, IF pc[r] = "encoded" THEN "200" ELSE "500")
  /\ UNCHANGED <<engine, serving, queue, logging, tasksRun>>

\* run_sync() returns or raises: `finally: _encode_limiter.release()`.
Respond(r) ==
  /\ pc[r] \in {"encoded", "failed"}
  /\ borrowed' = borrowed \ {r}
  /\ Go(r, IF pc[r] = "encoded" THEN "200" ELSE "500")
  /\ UNCHANGED <<engine, serving, queue, logging, tasksRun>>

(* ---- EmbeddingEngine.encode, in a thread ---- *)

\* Where the caller goes on: a warmup that raises ends the app.
After(t, outcome) == IF t # Lifespan THEN outcome
                     ELSE IF outcome = "encoded" THEN "warm" ELSE "aborted"

\* _require_model() and model.encode(), either of which may raise.
ModelEncode(t) ==
  /\ pc[t] = "encoding"
  /\ \/ model # "none" /\ Go(t, "reading")
     \/ Go(t, After(t, "failed"))
  /\ UNCHANGED <<engine, serving, limiter, logging, tasksRun>>

\* previous_level = hf_logger.level
ReadLevel(t) ==
  /\ pc[t] = "reading"
  /\ saved' = [saved EXCEPT ![t] = level]
  /\ Go(t, "muting")
  /\ UNCHANGED <<engine, serving, limiter, level, tasksRun>>

Mute(t) ==
  /\ pc[t] = "muting"
  /\ level' = "ERROR"
  /\ Go(t, "tokenizing")
  /\ UNCHANGED <<engine, serving, limiter, saved, tasksRun>>

\* Faulty variants of LevelAfter: the level is reset instead of restored; no
\* `finally`, so that a tokenizer that raises skips it.
LevelAfterReset(t, outcome) == "NOTSET"
LevelAfterSuccess(t, outcome) == IF outcome = "encoded" THEN saved[t] ELSE level

LevelAfter(t, outcome) == saved[t]

\* The tokenizer returns or raises: `finally: hf_logger.setLevel(previous_level)`.
Unmute(t) ==
  /\ pc[t] = "tokenizing"
  /\ \E outcome \in {"encoded", "failed"} :
       /\ level' = LevelAfter(t, outcome)
       /\ Go(t, After(t, outcome))
  /\ UNCHANGED <<engine, serving, limiter, saved, tasksRun>>

-----------------------------------------------------------------------------
LoadStep(l) == \/ LoadEnter(l) \/ LoadLock(l) \/ LoadRecheck(l)
               \/ LoadBuild(l) \/ LoadPublish(l) \/ LoadReport(l)

EncodeStep(t) == ModelEncode(t) \/ ReadLevel(t) \/ Mute(t) \/ Unmute(t)

Next == \/ \E l \in Loaders : LoadStep(l) \/ LoadFails(l) \/ GenerateEmbedding(l)
        \/ Warmup \/ Serve
        \/ \E t \in Threads : EncodeStep(t)
        \/ \E r \in Requests : Arrive(r) \/ TimeOut(r) \/ StartEncode(r) \/ Respond(r)

Spec == Init /\ [][Next]_vars

\* Threads run, an encode ends and the limiter hands out its tokens in turn.
\* Nothing is asked of the time limit.
FairSpec == /\ Spec
            /\ \A r \in Requests :
                 WF_vars(StartEncode(r)) /\ WF_vars(EncodeStep(r)) /\ WF_vars(Respond(r))

-----------------------------------------------------------------------------
TypeOK ==
  /\ model \in {"none", "ready"}
  /\ lock \in Loaders \cup {"nobody"}
  /\ built \in Nat
  /\ serving \in BOOLEAN
  /\ pc \in [Threads -> LoaderPlaces \cup {"waiting"} \cup Encoding \cup Answers]
  /\ queue \subseteq Requests /\ borrowed \subseteq Requests
  /\ level \in {"usual", "ERROR"}
  /\ saved \in [Threads -> {"usual", "ERROR"}]
  /\ tasksRun \in 0 .. Cardinality(Requests)

\* "Concurrent callers cannot start two downloads": however many threads call
\* load(), one model is constructed.
OneDownload == built <= 1

\* Whoever comes back from load(), or encodes, finds a model, although _model is
\* read without the lock while others load, fail or try again: the
\* ModelNotLoadedError of encode() is never raised.
LoadedBeforeUse == \A t \in Threads : pc[t] \in {"loaded"} \cup Encoding => model # "none"

\* No request is let in before a whole encode has gone through, whoever loaded
\* the model in the meantime, and none at all when loading or warming up raised:
\* "readiness flips only once the first request can actually be served fast".
ServedWhenWarm ==
  \A r \in Requests : pc[r] # "start" => pc[Lifespan] = "warm" /\ pc[r] # "503 loading"

\* The logger's level is back to what it was whenever no thread is measuring, as
\* long as no encode has gone past the limiter, from generate_embedding().
PastLimiter == \E l \in Scripts : pc[l] \notin LoaderPlaces

LevelRestored ==
  ~PastLimiter /\ (\A t \in Threads : pc[t] \notin Measuring) => level = "usual"

\* Every request that waits for a token gets an answer, also if its time limit
\* never strikes: those before it give their tokens back.
EveryRequestAnswered == \A r \in Requests : pc[r] = "waiting" ~> pc[r] \in Answers

=============================================================================
