----------------------- MODULE EmbeddingServiceProofs -----------------------
(***************************************************************************)
(* Safety of the HTTP process for every number of threads that load and of *)
(* requests.                                                               *)
(*                                                                         *)
(* The properties speak of the model, the requests and the logger; what    *)
(* keeps them is where the threads are: who is between the two ends of the *)
(* load lock (LockInv), how far the app's lifespan has come before it lets *)
(* anyone in (ServingInv), and who holds a token (TokenInv).               *)
(***************************************************************************)
EXTENDS EmbeddingService, FiniteSetTheorems, TLAPS

\* Which of the places each kind of thread can be at.
PlacesInv ==
  /\ \A l \in Loaders : pc[l] \in LoaderPlaces \cup Encoding
  /\ pc[Lifespan] \in LoaderPlaces \cup {"encoding"} \cup Measuring
  /\ \A l \in Scripts : pc[l] \notin {"warm", "aborted"}
  /\ \A r \in Requests : pc[r] \in {"start", "waiting"} \cup Encoding \cup Answers

\* Only the thread that holds the lock is inside, and it builds only while there
\* is no model.
Critical == {"inside", "building", "publishing", "reporting"}
LockInv ==
  /\ \A l \in Loaders : pc[l] \in Critical <=> lock = l
  /\ \A l \in Loaders : pc[l] = "building" => model = "none" /\ built = 0
  /\ \A l \in Loaders : pc[l] = "publishing" => model = "none"
  /\ built \in {0, 1}
  /\ model = "none" /\ built = 1 => \E l \in Loaders : pc[l] = "publishing"
  /\ \A l \in Loaders :
       pc[l] \notin {"start", "locking", "inside", "building", "publishing", "aborted"}
         => model = "ready"

\* Requests come in only once the app serves, and it serves once it is warm.
ServingInv ==
  /\ serving => pc[Lifespan] = "warm"
  /\ \A r \in Requests : pc[r] # "start" => serving
  /\ \A r \in Requests : pc[r] # "503 loading"

\* A request encodes with a token and has been counted; there are so many tokens.
Counted == {r \in Requests : pc[r] \in Encoding \cup {"200", "500"}}
TokenInv ==
  /\ \A r \in Requests : pc[r] \in Encoding <=> r \in borrowed
  /\ Cardinality(borrowed) <= MaxConcurrentEncodes
  /\ tasksRun = Cardinality(Counted)

ServiceInv == TypeOK /\ PlacesInv /\ LockInv /\ ServingInv /\ TokenInv

\* Only one thread is in the middle of a measurement, unless a script encodes, so
\* that what it found is the usual level, and the level is any other only while it
\* holds it down.
Alone == \A t, u \in Threads : pc[t] \in Encoding /\ pc[u] \in Encoding => t = u

LevelInv ==
  /\ \A t \in Threads : pc[t] \in {"muting", "tokenizing"} => saved[t] = "usual"
  /\ (\A t \in Threads : pc[t] # "tokenizing") => level = "usual"

-----------------------------------------------------------------------------
(* ---- the threads ---- *)

LEMMA ThreadsAre ==
  /\ Lifespan \in Threads /\ Lifespan \in Loaders /\ Lifespan \notin Requests
  /\ \A l \in Loaders : l \in Threads /\ l \notin Requests /\ l # "nobody"
  /\ \A r \in Requests : r \in Threads /\ r \notin Loaders
  /\ \A t \in Threads : t \in Requests \/ t = Lifespan \/ t \in Scripts
  /\ Scripts \subseteq Loaders /\ Lifespan \notin Scripts
  /\ MaxConcurrentEncodes \in Nat \ {0}
  /\ IsFiniteSet(Requests) /\ Cardinality(Requests) \in Nat
  BY ServiceAssumption, FS_CardinalityType DEF Threads, Scripts

LEMMA CountedIs == Counted \subseteq Requests /\ IsFiniteSet(Counted)
                   /\ Cardinality(Counted) \in 0 .. Cardinality(Requests)
<1>1. Counted \subseteq Requests
  BY DEF Counted
<1>2. IsFiniteSet(Counted) /\ Cardinality(Counted) <= Cardinality(Requests)
  BY <1>1, ThreadsAre, FS_Subset
<1>3. QED
  BY <1>1, <1>2, ThreadsAre, FS_CardinalityType

LEMMA InitServiceInv == Init => ServiceInv /\ LevelInv
<1> SUFFICES ASSUME Init
             PROVE  ServiceInv /\ LevelInv
  OBVIOUS
<1>1. Counted = {} /\ borrowed = {}
  BY ThreadsAre DEF Init, Counted, Encoding, Measuring
<1>2. IsFiniteSet({}) /\ Cardinality({}) = 0
  BY FS_EmptySet
<1>3. TypeOK
  <2>1. 0 \in 0 .. Cardinality(Requests)
    BY ThreadsAre
  <2>2. QED
    BY <2>1 DEF Init, TypeOK, LoaderPlaces
<1>4. PlacesInv /\ LockInv /\ ServingInv
  <2>1. \A t \in Threads : pc[t] = "start"
    BY DEF Init
  <2>2. PlacesInv /\ ServingInv
    BY <2>1, ThreadsAre DEF Init, PlacesInv, ServingInv, LoaderPlaces
  <2>3. LockInv
    BY <2>1, ThreadsAre DEF Init, LockInv, Critical
  <2>4. QED
    BY <2>2, <2>3
<1>5. TokenInv
  BY <1>1, <1>2, ThreadsAre DEF Init, TokenInv, Encoding, Measuring
<1>6. LevelInv
  BY ThreadsAre DEF Init, LevelInv
<1>7. QED
  BY <1>3, <1>4, <1>5, <1>6 DEF ServiceInv

-----------------------------------------------------------------------------
(* ---- the steps of loading ---- *)

\* A step of a loader that is not one of its encode.
LEMMA LoadKeeps ==
  ASSUME ServiceInv, NEW l \in Loaders, LoadStep(l) \/ LoadFails(l)
  PROVE  ServiceInv'
<1> USE ThreadsAre DEF engine, limiter, logging, Go
<1>1. /\ UNCHANGED <<serving, queue, borrowed, level, saved, tasksRun>>
      /\ \A t \in Threads \ {l} : pc'[t] = pc[t]
      /\ pc' \in [Threads -> LoaderPlaces \cup {"waiting"} \cup Encoding \cup Answers]
      /\ pc'[l] \in LoaderPlaces \ {"warm"} /\ pc[l] # "warm"
      /\ pc'[l] = "aborted" => l = Lifespan
  BY DEF LoadStep, LoadEnter, LoadLock, LoadRecheck, LoadBuild, LoadPublish, LoadReport, LoadFails,
     ServiceInv, TypeOK, LoaderPlaces
<1>2. LockInv'
  <2> USE DEF ServiceInv, LockInv, TypeOK, Critical
  <2>1. CASE LoadEnter(l)
    BY <2>1 DEF LoadEnter
  <2>2. CASE LoadLock(l)
    BY <2>2 DEF LoadLock
  <2>3. CASE LoadRecheck(l)
    BY <2>3 DEF LoadRecheck
  <2>4. CASE LoadBuild(l)
    BY <2>4 DEF LoadBuild
  <2>5. CASE LoadPublish(l)
    BY <2>5 DEF LoadPublish
  <2>6. CASE LoadFails(l)
    BY <2>6 DEF LoadFails
  <2>7. CASE LoadReport(l)
    BY <2>7 DEF LoadReport
  <2>8. QED
    BY <2>1, <2>2, <2>3, <2>4, <2>5, <2>6, <2>7 DEF LoadStep
<1>3. TypeOK'
  BY <1>1, <1>2 DEF LockInv, ServiceInv, TypeOK, Critical, LoadStep, LoadEnter, LoadLock,
     LoadRecheck, LoadBuild, LoadPublish, LoadReport, LoadFails
<1>4. PlacesInv'
  BY <1>1 DEF ServiceInv, PlacesInv
<1>5. ServingInv'
  BY <1>1 DEF ServiceInv, ServingInv
<1>6. TokenInv'
  <2>1. Counted' = Counted
    BY <1>1 DEF Counted
  <2>2. QED
    BY <1>1, <2>1 DEF ServiceInv, TokenInv
<1>7. QED
  BY <1>2, <1>3, <1>4, <1>5, <1>6 DEF ServiceInv

-----------------------------------------------------------------------------
(* ---- the app's lifespan and the encodes ---- *)

LEMMA LifespanKeeps ==
  ASSUME ServiceInv, Warmup \/ Serve \/ \E l \in Loaders : GenerateEmbedding(l)
  PROVE  ServiceInv'
<1> USE ThreadsAre DEF ServiceInv, engine, limiter, logging, Go
<1>1. ASSUME NEW l \in Loaders, (l = Lifespan /\ Warmup) \/ GenerateEmbedding(l)
      PROVE  ServiceInv'
  <2>1. /\ UNCHANGED <<model, lock, built, serving, queue, borrowed, level, saved, tasksRun>>
        /\ \A t \in Threads \ {l} : pc'[t] = pc[t]
        /\ pc[l] = "loaded" /\ pc'[l] = "encoding"
        /\ pc' \in [Threads -> LoaderPlaces \cup {"waiting"} \cup Encoding \cup Answers]
    BY <1>1 DEF Warmup, GenerateEmbedding, TypeOK, Encoding
  <2>2. TypeOK' /\ PlacesInv' /\ ServingInv'
    BY <2>1 DEF TypeOK, PlacesInv, ServingInv, Encoding
  <2>3. LockInv'
    BY <2>1 DEF LockInv, Critical
  <2>4. Counted' = Counted
    BY <2>1 DEF Counted
  <2>5. TokenInv'
    BY <2>1, <2>4 DEF TokenInv
  <2>6. QED
    BY <2>2, <2>3, <2>5
<1>2. CASE Serve
  BY <1>2 DEF Serve, TypeOK, PlacesInv, LockInv, ServingInv, TokenInv, Counted
<1>3. QED
  BY <1>1, <1>2

\* Where an encode is and where its next step leads.
LEMMA EncodeMoves ==
  ASSUME ServiceInv, NEW t \in Threads, EncodeStep(t)
  PROVE  /\ UNCHANGED <<model, lock, built, serving, queue, borrowed, tasksRun>>
         /\ \A u \in Threads \ {t} : pc'[u] = pc[u]
         /\ pc' \in [Threads -> LoaderPlaces \cup {"waiting"} \cup Encoding \cup Answers]
         /\ pc[t] \in {"encoding"} \cup Measuring
         /\ t # Lifespan => pc'[t] \in Encoding
         /\ t = Lifespan => pc'[t] \in Measuring \cup {"warm", "aborted"}
<1> USE ThreadsAre DEF ServiceInv, TypeOK, engine, limiter, logging, Go, After, Encoding,
                       Measuring, LoaderPlaces
<1>1. CASE ModelEncode(t)
  BY <1>1 DEF ModelEncode
<1>2. CASE ReadLevel(t) \/ Mute(t)
  BY <1>2 DEF ReadLevel, Mute
<1>3. CASE Unmute(t)
  BY <1>3 DEF Unmute
<1>4. QED
  BY <1>1, <1>2, <1>3 DEF EncodeStep

LEMMA EncodeKeeps ==
  ASSUME ServiceInv, NEW t \in Threads, EncodeStep(t)
  PROVE  ServiceInv'
<1> USE ThreadsAre, EncodeMoves DEF ServiceInv
<1>1. level' \in {"usual", "ERROR"} /\ saved' \in [Threads -> {"usual", "ERROR"}]
  BY DEF EncodeStep, ModelEncode, ReadLevel, Mute, Unmute, LevelAfter, TypeOK, logging
<1>2. TypeOK'
  BY <1>1 DEF TypeOK
<1>3. PlacesInv'
  BY DEF PlacesInv, LoaderPlaces, Encoding, Measuring
<1>4. LockInv'
  BY DEF LockInv, Critical, Encoding, Measuring
<1>5. ServingInv'
  <2>1. t = Lifespan => ~serving
    BY DEF ServingInv, Measuring
  <2>2. t \in Requests => serving /\ pc'[t] # "503 loading"
    BY DEF ServingInv, Encoding, Measuring
  <2>3. QED
    BY <2>1, <2>2 DEF ServingInv
<1>6. TokenInv'
  <2>1. Counted' = Counted
    BY DEF Counted, Encoding
  <2>2. QED
    BY <2>1 DEF TokenInv, Encoding
<1>7. QED
  BY <1>2, <1>3, <1>4, <1>5, <1>6

-----------------------------------------------------------------------------
(* ---- the requests ---- *)

LEMMA RequestKeeps ==
  ASSUME ServiceInv, NEW r \in Requests,
         Arrive(r) \/ TimeOut(r) \/ StartEncode(r) \/ Respond(r)
  PROVE  ServiceInv'
<1> USE ThreadsAre DEF ServiceInv, engine, limiter, logging, Go
<1>1. /\ UNCHANGED <<model, lock, built, serving, level, saved>>
      /\ \A t \in Threads \ {r} : pc'[t] = pc[t]
      /\ pc' \in [Threads -> LoaderPlaces \cup {"waiting"} \cup Encoding \cup Answers]
      /\ queue' \subseteq Requests /\ borrowed' \subseteq Requests
  BY DEF Arrive, TimeOut, StartEncode, Respond, TypeOK, Encoding, Answers
<1>2. LockInv'
  BY <1>1 DEF LockInv
\* It arrives after the warmup, and finds the model.
<1>3. /\ pc'[r] \in {"waiting"} \cup Encoding \cup Answers /\ pc'[r] # "503 loading"
      /\ serving
  BY DEF Arrive, TimeOut, StartEncode, Respond, ServingInv, LockInv, Critical, TypeOK,
     Encoding, Answers
<1>4. PlacesInv' /\ ServingInv'
  BY <1>1, <1>3 DEF PlacesInv, ServingInv
<1>5. IsFiniteSet(borrowed) /\ Cardinality(borrowed) \in Nat
      /\ IsFiniteSet(Counted) /\ Cardinality(Counted) \in Nat
  BY CountedIs, FS_Subset, FS_CardinalityType DEF TypeOK
<1>6. TokenInv'
  <2>1. CASE Arrive(r) \/ TimeOut(r)
    <3>1. /\ pc[r] \notin Encoding \cup {"200", "500"} /\ pc'[r] \notin Encoding \cup {"200", "500"}
          /\ UNCHANGED <<borrowed, tasksRun>>
      BY <2>1, <1>3 DEF Arrive, TimeOut, TypeOK, Encoding, Measuring
    <3>2. Counted' = Counted
      BY <1>1, <3>1 DEF Counted
    <3>3. QED
      BY <1>1, <3>1, <3>2 DEF TokenInv
  <2>2. CASE StartEncode(r)
    <3>1. /\ pc[r] = "waiting" /\ pc'[r] = "encoding" /\ borrowed' = borrowed \cup {r}
          /\ tasksRun' = tasksRun + 1 /\ Cardinality(borrowed) < MaxConcurrentEncodes
      BY <2>2 DEF StartEncode, TypeOK
    <3>2. Counted' = Counted \cup {r} /\ r \notin Counted /\ r \notin borrowed
      BY <1>1, <3>1 DEF Counted, TokenInv, Encoding, Measuring
    <3>3. /\ Cardinality(Counted') = Cardinality(Counted) + 1
          /\ Cardinality(borrowed') = Cardinality(borrowed) + 1
      BY <1>5, <3>1, <3>2, FS_AddElement
    <3>4. \A s \in Requests : pc'[s] \in Encoding <=> s \in borrowed'
      BY <1>1, <3>1 DEF TokenInv, Encoding
    <3>5. QED
      BY <1>5, <3>1, <3>3, <3>4 DEF TokenInv
  <2>3. CASE Respond(r)
    <3>1. /\ pc[r] \in {"encoded", "failed"} /\ pc'[r] \in {"200", "500"}
          /\ borrowed' = borrowed \ {r} /\ tasksRun' = tasksRun
      BY <2>3 DEF Respond, TypeOK
    <3>2. Counted' = Counted
      BY <1>1, <3>1 DEF Counted, Encoding, Measuring
    <3>3. Cardinality(borrowed') <= Cardinality(borrowed) /\ Cardinality(borrowed') \in Nat
      BY <1>5, <3>1, FS_Subset, FS_CardinalityType
    <3>4. \A s \in Requests : pc'[s] \in Encoding <=> s \in borrowed'
      BY <1>1, <3>1 DEF TokenInv, Encoding, Measuring
    <3>5. QED
      BY <1>5, <3>1, <3>2, <3>3, <3>4 DEF TokenInv
  <2>4. QED
    BY <2>1, <2>2, <2>3
<1>7. TypeOK'
  <2>1. tasksRun' \in 0 .. Cardinality(Requests)
    <3>1. Counted' \subseteq Requests
      BY DEF Counted
    <3>2. IsFiniteSet(Counted') /\ Cardinality(Counted') <= Cardinality(Requests)
          /\ Cardinality(Counted') \in Nat
      BY <3>1, FS_Subset, FS_CardinalityType
    <3>3. QED
      BY <1>6, <3>2 DEF TokenInv
  <2>2. QED
    BY <1>1, <2>1 DEF TypeOK
<1>8. QED
  BY <1>2, <1>4, <1>6, <1>7

-----------------------------------------------------------------------------
(* ---- the level of the logger ---- *)

\* With one token no two encodes are under way, the warmup's included.
LEMMA OneAtATime ==
  ASSUME ServiceInv, MaxConcurrentEncodes = 1, ~PastLimiter
  PROVE  Alone
<1> USE ThreadsAre DEF ServiceInv
<1>1. ASSUME NEW r \in borrowed, NEW s \in borrowed, r # s
      PROVE  FALSE
  <2>1. IsFiniteSet(borrowed) /\ {r, s} \subseteq borrowed
    BY FS_Subset DEF TypeOK
  <2>2. IsFiniteSet({r, s}) /\ Cardinality({r, s}) <= Cardinality(borrowed)
    BY <2>1, FS_Subset
  <2>3. IsFiniteSet({r}) /\ Cardinality({r}) = 1
    BY FS_Singleton
  <2>4. Cardinality({r, s}) = 2
    <3> DEFINE S == {r}
    <3>1. IsFiniteSet(S) /\ Cardinality(S) = 1 /\ s \notin S
      BY <1>1, <2>3
    <3>2. {r, s} = S \cup {s}
      OBVIOUS
    <3> HIDE DEF S
    <3>3. Cardinality(S \cup {s}) = Cardinality(S) + 1
      BY <3>1, FS_AddElement
    <3>4. QED
      BY <3>1, <3>2, <3>3
  <2>5. Cardinality(borrowed) \in Nat
    BY <2>1, FS_CardinalityType
  <2>6. QED
    BY <2>2, <2>4, <2>5 DEF TokenInv
<1>2. ASSUME NEW r \in Requests, pc[r] \in Encoding, pc[Lifespan] \in Encoding
      PROVE  FALSE
  BY <1>2 DEF ServingInv, Encoding, Measuring
<1>3. ASSUME NEW l \in Scripts
      PROVE  pc[l] \notin Encoding
  BY DEF PastLimiter, LoaderPlaces, Encoding, Measuring
<1>4. QED
  BY <1>1, <1>2, <1>3 DEF Alone, TokenInv

\* A script that has begun to encode has done so for good.
LEMMA PastForGood ==
  ASSUME ServiceInv, Next, PastLimiter
  PROVE  PastLimiter'
<1> USE ThreadsAre DEF Go
<1>1. PICK l \in Scripts : pc[l] \notin LoaderPlaces
  BY DEF PastLimiter
<1>2. pc[l] \in Encoding
  BY <1>1 DEF ServiceInv, PlacesInv
<1>3. ASSUME NEW t \in Threads, EncodeStep(t)
      PROVE  pc'[l] \notin LoaderPlaces
  BY <1>1, <1>3, EncodeMoves DEF Encoding, Measuring, LoaderPlaces
<1>4. ASSUME NEW k \in Loaders, LoadStep(k) \/ LoadFails(k) \/ GenerateEmbedding(k)
      PROVE  pc'[l] \notin LoaderPlaces
  <2>1. pc[k] \in LoaderPlaces
    BY <1>4 DEF LoadStep, LoadEnter, LoadLock, LoadRecheck, LoadBuild, LoadPublish, LoadReport,
       LoadFails, GenerateEmbedding, LoaderPlaces
  <2>2. pc'[l] = pc[l]
    BY <1>1, <1>4, <2>1 DEF LoadStep, LoadEnter, LoadLock, LoadRecheck, LoadBuild, LoadPublish,
       LoadReport, LoadFails, GenerateEmbedding, ServiceInv, TypeOK
  <2>3. QED
    BY <1>1, <2>2
<1>5. CASE Warmup \/ Serve
  BY <1>1, <1>5 DEF Warmup, Serve, ServiceInv, TypeOK, PastLimiter
<1>6. ASSUME NEW r \in Requests, Arrive(r) \/ TimeOut(r) \/ StartEncode(r) \/ Respond(r)
      PROVE  pc'[l] \notin LoaderPlaces
  BY <1>1, <1>6 DEF Arrive, TimeOut, StartEncode, Respond, ServiceInv, TypeOK
<1>7. QED
  BY <1>3, <1>4, <1>5, <1>6 DEF Next, PastLimiter

LEMMA StepKeepsLevel ==
  ASSUME ServiceInv, Alone, LevelInv, Next
  PROVE  LevelInv'
<1> USE ThreadsAre DEF engine, limiter, logging, Go
\* Nobody comes to or from holding the level down.
<1>1. ASSUME UNCHANGED logging,
             \A t \in Threads : /\ pc'[t] \in {"muting", "tokenizing"} => pc[t] = pc'[t]
                                /\ pc[t] = "tokenizing" => pc'[t] = "tokenizing"
      PROVE  LevelInv'
  BY <1>1 DEF LevelInv
<1>2. ASSUME NEW t \in Threads, EncodeStep(t)
      PROVE  LevelInv'
  <2>1. /\ \A u \in Threads \ {t} : pc'[u] = pc[u]
        /\ \A u \in Threads \ {t} : pc[u] \notin Measuring
        /\ pc[t] \in {"encoding"} \cup Measuring
    BY <1>2, EncodeMoves DEF Alone, Encoding
  <2>2. CASE ModelEncode(t)
    BY <1>1, <2>1, <2>2 DEF ModelEncode, After, ServiceInv, TypeOK
  <2>3. CASE ReadLevel(t)
    BY <2>1, <2>3 DEF ReadLevel, LevelInv, Measuring, ServiceInv, TypeOK
  <2>4. CASE Mute(t)
    BY <2>1, <2>4 DEF Mute, LevelInv, Measuring, ServiceInv, TypeOK
  <2>5. CASE Unmute(t)
    BY <2>1, <2>5 DEF Unmute, LevelAfter, After, LevelInv, Measuring, ServiceInv, TypeOK
  <2>6. QED
    BY <1>2, <2>2, <2>3, <2>4, <2>5 DEF EncodeStep
<1>3. ASSUME NEW l \in Loaders, LoadStep(l) \/ LoadFails(l) \/ GenerateEmbedding(l)
      PROVE  LevelInv'
  BY <1>1, <1>3 DEF LoadStep, LoadEnter, LoadLock, LoadRecheck, LoadBuild, LoadPublish, LoadReport,
     LoadFails, GenerateEmbedding, ServiceInv, TypeOK
<1>4. CASE Warmup \/ Serve
  BY <1>1, <1>4 DEF Warmup, Serve, ServiceInv, TypeOK
<1>5. ASSUME NEW r \in Requests, Arrive(r) \/ TimeOut(r) \/ StartEncode(r) \/ Respond(r)
      PROVE  LevelInv'
  BY <1>1, <1>5 DEF Arrive, TimeOut, StartEncode, Respond, ServiceInv, TypeOK
<1>6. QED
  BY <1>2, <1>3, <1>4, <1>5 DEF Next

-----------------------------------------------------------------------------
(* ---- the theorems ---- *)

\* ServiceInv is inductive and so holds in every reachable state.
THEOREM ServiceInvariant == Spec => []ServiceInv
<1>1. ServiceInv /\ [Next]_vars => ServiceInv'
  <2> SUFFICES ASSUME ServiceInv, [Next]_vars
               PROVE  ServiceInv'
    OBVIOUS
  <2>1. CASE Next
    BY <2>1, LoadKeeps, LifespanKeeps, EncodeKeeps, RequestKeeps DEF Next
  <2>2. CASE UNCHANGED vars
    BY <2>2 DEF vars, engine, limiter, logging, ServiceInv, TypeOK, PlacesInv, LockInv,
       ServingInv, TokenInv, Counted
  <2>3. QED
    BY <2>1, <2>2
<1>2. QED
  BY <1>1, InitServiceInv, PTL DEF Spec

\* The variables of engine, app and limiter have their types.
THEOREM ServiceTypes == Spec => []TypeOK
<1>1. ServiceInv => TypeOK
  BY DEF ServiceInv
<1>2. QED
  BY <1>1, ServiceInvariant, PTL

\* However many threads call load() at once, and however often it fails before,
\* one model is constructed.
THEOREM OneModelIsBuilt == Spec => []OneDownload
<1>1. ServiceInv => OneDownload
  BY DEF ServiceInv, LockInv, OneDownload
<1>2. QED
  BY <1>1, ServiceInvariant, PTL

\* Whoever comes back from load(), and whoever encodes, finds a model, however
\* loads overlap, fail and are tried again.
THEOREM ModelIsThere == Spec => []LoadedBeforeUse
<1>1. ServiceInv => LoadedBeforeUse
  <2> USE ThreadsAre DEF ServiceInv
  <2> SUFFICES ASSUME ServiceInv, NEW t \in Threads, pc[t] \in {"loaded"} \cup Encoding
               PROVE  model = "ready"
    BY DEF LoadedBeforeUse
  <2>1. CASE t \in Loaders
    BY <2>1 DEF LockInv, Encoding, Measuring
  <2>2. CASE t \in Requests
    <3>1. pc[Lifespan] = "warm"
      BY <2>2 DEF ServingInv, Encoding, Measuring
    <3>2. QED
      BY <3>1 DEF LockInv
  <2>3. QED
    BY <2>1, <2>2 DEF Threads
<1>2. QED
  BY <1>1, ServiceInvariant, PTL

\* No request gets in before the warmup is done, and none is told to wait for a
\* model.
THEOREM RequestsFindItWarm == Spec => []ServedWhenWarm
<1>1. ServiceInv => ServedWhenWarm
  BY DEF ServiceInv, ServingInv, ServedWhenWarm
<1>2. QED
  BY <1>1, ServiceInvariant, PTL

\* With the default of one encode at a time the level of the logger is the usual
\* one whenever no thread measures, unless a script encodes beside the app.  With
\* two tokens it is not: TLC shows that on an instance.
THEOREM LevelIsRestored ==
  ASSUME MaxConcurrentEncodes = 1
  PROVE  Spec => []LevelRestored
<1> DEFINE I == ~PastLimiter => LevelInv
<1>1. ServiceInv /\ I /\ [Next]_vars => I'
  <2> SUFFICES ASSUME ServiceInv, I, [Next]_vars, ~PastLimiter'
               PROVE  LevelInv'
    OBVIOUS
  <2>1. CASE Next
    BY <2>1, OneAtATime, StepKeepsLevel, PastForGood
  <2>2. CASE UNCHANGED vars
    BY <2>2 DEF vars, logging, LevelInv, PastLimiter
  <2>3. QED
    BY <2>1, <2>2
<1>2. I => LevelRestored
  BY DEF LevelInv, LevelRestored, Measuring
<1>3. Init => I
  BY InitServiceInv
<1> HIDE DEF I
<1>4. QED
  BY <1>1, <1>2, <1>3, ServiceInvariant, PTL DEF Spec

=============================================================================
