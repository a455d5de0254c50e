--------------------------- MODULE JobHandlerProofs --------------------------
(***************************************************************************)
(* What a producer gets for each of its jobs, for batches of any length    *)
(* and jobs of any number of texts.                                        *)
(*                                                                         *)
(* encode_jobs() puts the texts of all jobs into one list and cuts up the  *)
(* vectors again, with an offset that grows from job to job.  That each    *)
(* job gets its own back (SlicesAreOwn) is an induction over the batch,    *)
(* which NatSetInduction makes one over a set of numbers.  The rest is an  *)
(* invariant of the calls that follow each other: what holds of every      *)
(* outcome that has been listed so far.                                    *)
(***************************************************************************)
EXTENDS JobHandler, SequenceTheorems, WellFoundedInduction, TLAPS

-----------------------------------------------------------------------------
(* ---- induction, and what the recursive functions compute ---- *)

\* A set that contains 0, and with each number the next, contains them all.
LEMMA NatSetInduction ==
  ASSUME NEW S, 0 \in S, \A n \in Nat : n \in S => n + 1 \in S
  PROVE  Nat \subseteq S
<1> DEFINE T == {n \in Nat : n \notin S}
<1> SUFFICES ASSUME T # {} PROVE FALSE
  OBVIOUS
<1>1. T \subseteq Nat
  OBVIOUS
<1> HIDE DEF T
<1>2. PICK x \in T : \A y \in T : ~ (<<y, x>> \in OpToRel(<, Nat))
  BY <1>1, WFMin, NatLessThanWellFounded
<1>3. x \in Nat /\ x # 0
  BY DEF T
<1>4. x - 1 \in Nat /\ x - 1 < x
  BY <1>3
<1>5. x - 1 \notin T
  BY <1>2, <1>3, <1>4 DEF OpToRel
<1>6. QED
  BY <1>3, <1>4, <1>5 DEF T

\* f[i] is the first i sequences of ss, one after the other.
Joins(f, ss, n) == f = [i \in 1 .. n |-> IF i = 1 THEN ss[i] ELSE f[i - 1] \o ss[i]]

\* f[i] is where the texts of job i begin.
Offsets(f, batch, n) ==
  f = [i \in 1 .. n |-> IF i = 1 THEN 0 ELSE f[i - 1] + Len(batch[i - 1].input)]

\* FlattenSeq's recursion has a solution.
LEMMA JoinsExist ==
  ASSUME NEW ss
  PROVE  \A n \in Nat : \E f : Joins(f, ss, n)
<1> DEFINE S == {n \in Nat : \E f : Joins(f, ss, n)}
<1>1. 0 \in S
  <2> DEFINE f == [i \in 1 .. 0 |-> 0]
  <2>1. f = [i \in 1 .. 0 |-> IF i = 1 THEN ss[i] ELSE f[i - 1] \o ss[i]]
    OBVIOUS
  <2>2. QED
    BY <2>1 DEF Joins
<1>2. ASSUME NEW n \in Nat, n \in S
      PROVE  n + 1 \in S
  <2>1. PICK f : Joins(f, ss, n)
    BY <1>2
  <2> DEFINE g == [i \in 1 .. n + 1 |->
                     IF i <= n THEN f[i] ELSE IF i = 1 THEN ss[i] ELSE f[i - 1] \o ss[i]]
  <2>2. ASSUME NEW i \in 1 .. n + 1
        PROVE  g[i] = IF i = 1 THEN ss[i] ELSE g[i - 1] \o ss[i]
    <3>1. CASE i <= n
      <4>1. i \in 1 .. n /\ (i # 1 => i - 1 \in 1 .. n + 1 /\ i - 1 <= n)
        BY <3>1
      <4>2. f[i] = IF i = 1 THEN ss[i] ELSE f[i - 1] \o ss[i]
        BY <2>1, <4>1 DEF Joins
      <4>3. QED
        BY <4>1, <4>2
    <3>2. CASE i = n + 1
      BY <3>2
    <3>3. QED
      BY <3>1, <3>2
  <2>3. g = [i \in 1 .. n + 1 |-> IF i = 1 THEN ss[i] ELSE g[i - 1] \o ss[i]]
    BY <2>2
  <2> HIDE DEF g
  <2>4. Joins(g, ss, n + 1)
    BY <2>3 DEF Joins
  <2>5. QED
    BY <2>4
<1> HIDE DEF S
<1>3. Nat \subseteq S
  BY <1>1, <1>2, NatSetInduction
<1>4. QED
  BY <1>3 DEF S

\* So has that of the offsets.
LEMMA OffsetsExist ==
  ASSUME NEW batch
  PROVE  \A n \in Nat : \E f : Offsets(f, batch, n)
<1> DEFINE S == {n \in Nat : \E f : Offsets(f, batch, n)}
<1>1. 0 \in S
  <2> DEFINE f == [i \in 1 .. 0 |-> 0]
  <2>1. f = [i \in 1 .. 0 |-> IF i = 1 THEN 0 ELSE f[i - 1] + Len(batch[i - 1].input)]
    OBVIOUS
  <2>2. QED
    BY <2>1 DEF Offsets
<1>2. ASSUME NEW n \in Nat, n \in S
      PROVE  n + 1 \in S
  <2>1. PICK f : Offsets(f, batch, n)
    BY <1>2
  <2> DEFINE g == [i \in 1 .. n + 1 |->
                     IF i <= n THEN f[i]
                     ELSE IF i = 1 THEN 0 ELSE f[i - 1] + Len(batch[i - 1].input)]
  <2>2. ASSUME NEW i \in 1 .. n + 1
        PROVE  g[i] = IF i = 1 THEN 0 ELSE g[i - 1] + Len(batch[i - 1].input)
    <3>1. CASE i <= n
      <4>1. i \in 1 .. n /\ (i # 1 => i - 1 \in 1 .. n + 1 /\ i - 1 <= n)
        BY <3>1
      <4>2. f[i] = IF i = 1 THEN 0 ELSE f[i - 1] + Len(batch[i - 1].input)
        BY <2>1, <4>1 DEF Offsets
      <4>3. QED
        BY <4>1, <4>2
    <3>2. CASE i = n + 1
      BY <3>2
    <3>3. QED
      BY <3>1, <3>2
  <2>3. g = [i \in 1 .. n + 1 |-> IF i = 1 THEN 0 ELSE g[i - 1] + Len(batch[i - 1].input)]
    BY <2>2
  <2> HIDE DEF g
  <2>4. Offsets(g, batch, n + 1)
    BY <2>3 DEF Offsets
  <2>5. QED
    BY <2>4
<1> HIDE DEF S
<1>3. Nat \subseteq S
  BY <1>1, <1>2, NatSetInduction
<1>4. QED
  BY <1>3 DEF S

\* What FlattenSeq and Slice compute, in terms of those solutions.
LEMMA FlattenSeqJoins ==
  ASSUME NEW ss, Len(ss) \in Nat \ {0}
  PROVE  \E f : Joins(f, ss, Len(ss)) /\ FlattenSeq(ss) = f[Len(ss)]
<1> DEFINE f == CHOOSE f : f = [i \in 1 .. Len(ss) |->
                                  IF i = 1 THEN ss[i] ELSE f[i - 1] \o ss[i]]
<1>1. Joins(f, ss, Len(ss))
  BY JoinsExist DEF Joins
<1>2. FlattenSeq(ss) = f[Len(ss)]
  BY DEF FlattenSeq
<1>3. QED
  BY <1>1, <1>2

LEMMA SliceOffsets ==
  ASSUME NEW batch, NEW n \in Nat, DOMAIN batch = 1 .. n
  PROVE  \E f : /\ Offsets(f, batch, n)
                /\ \A vectors, i : Slice(vectors, batch, i) =
                     SubSeq(vectors, f[i] + 1, f[i] + Len(batch[i].input))
<1> DEFINE f == CHOOSE f : f = [j \in DOMAIN batch |->
                                  IF j = 1 THEN 0 ELSE f[j - 1] + Len(batch[j - 1].input)]
<1>1. Offsets(f, batch, n)
  <2>1. \E g : g = [j \in 1 .. n |-> IF j = 1 THEN 0 ELSE g[j - 1] + Len(batch[j - 1].input)]
    BY OffsetsExist DEF Offsets
  <2>2. QED
    BY <2>1 DEF Offsets
<1>2. ASSUME NEW vectors, NEW i
      PROVE  Slice(vectors, batch, i) = SubSeq(vectors, f[i] + 1, f[i] + Len(batch[i].input))
  BY DEF Slice
<1>3. QED
  BY <1>1, <1>2

\* Where the elements of two sequences are in their concatenation.
LEMMA ConcatPlaces ==
  ASSUME NEW T, NEW s \in Seq(T), NEW t \in Seq(T)
  PROVE  /\ s \o t \in Seq(T) /\ Len(s \o t) = Len(s) + Len(t)
         /\ Len(s) \in Nat /\ Len(t) \in Nat
         /\ \A i \in 1 .. Len(s) : (s \o t)[i] = s[i]
         /\ \A j \in 1 .. Len(t) : (s \o t)[Len(s) + j] = t[j]
<1>1. Len(s) \in Nat /\ Len(t) \in Nat
  BY LenProperties
<1>2. /\ s \o t \in Seq(T) /\ Len(s \o t) = Len(s) + Len(t)
      /\ \A i \in 1 .. Len(s) + Len(t) :
           (s \o t)[i] = IF i <= Len(s) THEN s[i] ELSE t[i - Len(s)]
  BY ConcatProperties
<1>3. ASSUME NEW j \in 1 .. Len(t)
      PROVE  (s \o t)[Len(s) + j] = t[j]
  <2>1. /\ Len(s) + j \in 1 .. Len(s) + Len(t) /\ ~(Len(s) + j <= Len(s))
        /\ (Len(s) + j) - Len(s) = j
    BY <1>1
  <2>2. QED
    BY <1>2, <2>1
<1>4. \A i \in 1 .. Len(s) : (s \o t)[i] = s[i]
  BY <1>1, <1>2
<1>5. QED
  BY <1>1, <1>2, <1>3, <1>4

\* The first k sequences stand in f[k] one after the other, each at its offset.
Placed(f, o, ss, T, k) ==
  /\ f[k] \in Seq(T) /\ o[k] \in Nat
  /\ Len(f[k]) = o[k] + Len(ss[k])
  /\ \A i \in 1 .. k :
       /\ o[i] \in Nat /\ o[i] + Len(ss[i]) <= Len(f[k])
       /\ \A j \in 1 .. Len(ss[i]) : f[k][o[i] + j] = ss[i][j]

LEMMA AllPlaced ==
  ASSUME NEW T, NEW n \in Nat, NEW batch, NEW ss \in Seq(Seq(T)), Len(ss) = n,
         \A i \in 1 .. n : ss[i] = batch[i].input,
         NEW f, Joins(f, ss, n), NEW o, Offsets(o, batch, n)
  PROVE  \A k \in 1 .. n : Placed(f, o, ss, T, k)
<1> DEFINE S == {k \in Nat : k \in 1 .. n => Placed(f, o, ss, T, k)}
<1>1. \A i \in 1 .. n : ss[i] \in Seq(T) /\ Len(ss[i]) \in Nat
  BY ElementOfSeq, LenProperties
<1>2. 0 \in S
  OBVIOUS
<1>3. ASSUME NEW k \in Nat, k \in S
      PROVE  k + 1 \in S
  <2> SUFFICES ASSUME k + 1 \in 1 .. n
               PROVE  Placed(f, o, ss, T, k + 1)
    OBVIOUS
  <2>1. CASE k = 0
    <3>1. f[1] = ss[1] /\ o[1] = 0
      BY <2>1 DEF Joins, Offsets
    <3>2. QED
      BY <1>1, <2>1, <3>1 DEF Placed
  <2>2. CASE k # 0
    <3>1. k \in 1 .. n /\ Placed(f, o, ss, T, k)
      BY <1>3, <2>2
    <3>2. f[k + 1] = f[k] \o ss[k + 1] /\ o[k + 1] = o[k] + Len(ss[k])
      <4>1. k + 1 # 1 /\ (k + 1) - 1 = k
        BY <2>2
      <4>2. f[k + 1] = f[(k + 1) - 1] \o ss[k + 1]
        BY <4>1 DEF Joins
      <4>3. o[k + 1] = o[(k + 1) - 1] + Len(batch[(k + 1) - 1].input)
        BY <4>1 DEF Offsets
      <4>4. QED
        BY <3>1, <4>1, <4>2, <4>3
    <3>3. /\ f[k] \in Seq(T) /\ o[k] \in Nat /\ Len(ss[k]) \in Nat
          /\ Len(f[k]) = o[k] + Len(ss[k])
      BY <1>1, <3>1 DEF Placed
    <3> DEFINE u == f[k]
               v == f[k + 1]
               w == ss[k + 1]
    <3>4. w \in Seq(T) /\ v = u \o w /\ u \in Seq(T)
      BY <1>1, <3>2, <3>3
    <3>5. o[k + 1] \in Nat /\ o[k + 1] = Len(u)
      BY <3>2, <3>3
    <3> HIDE DEF u, v, w
    <3>6. /\ v \in Seq(T) /\ Len(v) = Len(u) + Len(w)
          /\ Len(u) \in Nat /\ Len(w) \in Nat
          /\ \A i \in 1 .. Len(u) : v[i] = u[i]
          /\ \A j \in 1 .. Len(w) : v[Len(u) + j] = w[j]
      BY <3>4, ConcatPlaces
    <3>7. ASSUME NEW i \in 1 .. k + 1
          PROVE  /\ o[i] \in Nat /\ o[i] + Len(ss[i]) <= Len(v)
                 /\ \A j \in 1 .. Len(ss[i]) : v[o[i] + j] = ss[i][j]
      <4>1. CASE i = k + 1
        <5>1. o[i] = Len(u) /\ ss[i] = w
          BY <3>5, <4>1 DEF w
        <5>2. QED
          BY <3>6, <5>1
      <4>2. CASE i \in 1 .. k
        <5>1. /\ o[i] \in Nat /\ o[i] + Len(ss[i]) <= Len(u)
              /\ \A j \in 1 .. Len(ss[i]) : u[o[i] + j] = ss[i][j]
          BY <3>1, <4>2 DEF Placed, u
        <5>2. Len(ss[i]) \in Nat
          BY <1>1, <3>1, <4>2
        <5>3. o[i] + Len(ss[i]) <= Len(v)
          BY <3>6, <5>1, <5>2
        <5>4. ASSUME NEW j \in 1 .. Len(ss[i])
              PROVE  v[o[i] + j] = ss[i][j]
          <6>1. o[i] + j \in 1 .. Len(u)
            BY <3>6, <5>1, <5>2
          <6>2. QED
            BY <3>6, <5>1, <6>1
        <5>5. QED
          BY <5>1, <5>3, <5>4
      <4>3. QED
        BY <4>1, <4>2
    <3>8. QED
      BY <3>5, <3>6, <3>7 DEF Placed, u, v, w
  <2>3. QED
    BY <2>1, <2>2
<1> HIDE DEF S
<1>4. Nat \subseteq S
  BY <1>2, <1>3, NatSetInduction
<1>5. QED
  BY <1>4 DEF S

\* The texts of each job, as encode_jobs() puts them together.
Inputs(batch) == [i \in DOMAIN batch |-> batch[i].input]

\* What encode_jobs() cuts out of the vectors of the whole batch for a job are
\* the vectors of its own texts.
LEMMA SlicesAreOwn ==
  ASSUME NEW batch, NEW n \in Nat \ {0}, DOMAIN batch = 1 .. n,
         \A i \in 1 .. n : batch[i].input \in Seq(Texts),
         NEW i \in 1 .. n, NEW key
  PROVE  Slice(Encoded(AllTexts(batch), key), batch, i) = Encoded(batch[i].input, key)
<1> DEFINE ss == Inputs(batch)
<1>1. ss \in Seq(Seq(Texts)) /\ Len(ss) = n /\ \A k \in 1 .. n : ss[k] = batch[k].input
  <2>1. ss = [k \in 1 .. n |-> batch[k].input]
    BY DEF Inputs
  <2>2. ss \in [1 .. n -> Seq(Texts)]
    BY <2>1
  <2>3. QED
    BY <2>1, <2>2
<1> HIDE DEF ss
<1>2. PICK f : Joins(f, ss, n) /\ FlattenSeq(ss) = f[n]
  BY <1>1, FlattenSeqJoins
<1>3. PICK o : /\ Offsets(o, batch, n)
               /\ \A vectors, k : Slice(vectors, batch, k) =
                    SubSeq(vectors, o[k] + 1, o[k] + Len(batch[k].input))
  BY SliceOffsets
<1>4. /\ f[n] \in Seq(Texts) /\ o[i] \in Nat /\ o[i] + Len(ss[i]) <= Len(f[n])
      /\ \A j \in 1 .. Len(ss[i]) : f[n][o[i] + j] = ss[i][j]
  <2>1. Placed(f, o, ss, Texts, n)
    BY <1>1, <1>2, <1>3, AllPlaced
  <2>2. QED
    BY <2>1 DEF Placed
<1> DEFINE input == batch[i].input
           vectors == Encoded(f[n], key)
           S == {<<t, key>> : t \in Texts}
<1>5. AllTexts(batch) = f[n]
  BY <1>2 DEF AllTexts, ss, Inputs
<1>6. /\ Len(input) \in Nat /\ DOMAIN input = 1 .. Len(input)
      /\ \A j \in 1 .. Len(input) : input[j] \in Texts
      /\ ss[i] = input
  BY <1>1, LenProperties, ElementOfSeq
<1>7. /\ Len(f[n]) \in Nat /\ DOMAIN f[n] = 1 .. Len(f[n])
      /\ \A j \in 1 .. Len(f[n]) : f[n][j] \in Texts
  BY <1>4, LenProperties, ElementOfSeq
<1>8. \A j \in 1 .. Len(f[n]) : vectors[j] = <<f[n][j], key>> /\ vectors[j] \in S
  BY <1>7 DEF Encoded
<1>9. /\ Encoded(input, key) \in Seq(S)
      /\ Len(Encoded(input, key)) = Len(input)
      /\ \A j \in 1 .. Len(input) : Encoded(input, key)[j] = <<input[j], key>>
  <2>1. Encoded(input, key) \in [1 .. Len(input) -> S]
    BY <1>6 DEF Encoded
  <2>2. QED
    BY <1>6, <2>1 DEF Encoded
<1> HIDE DEF vectors, input, S
<1> DEFINE cut == SubSeq(vectors, o[i] + 1, o[i] + Len(input))
<1>10. /\ cut \in Seq(S)
       /\ Len(cut) = Len(input)
       /\ \A j \in 1 .. Len(input) : cut[j] = vectors[o[i] + j]
  <2>1. o[i] + 1 \in Int /\ o[i] + Len(input) \in Int
    BY <1>4, <1>6
  <2>2. \A j \in o[i] + 1 .. o[i] + Len(input) : vectors[j] \in S
    BY <1>4, <1>6, <1>7, <1>8
  <2>3. (o[i] + Len(input)) - (o[i] + 1) + 1 = Len(input)
    BY <1>4, <1>6
  <2>4. /\ cut \in Seq(S)
        /\ Len(cut) = IF o[i] + 1 <= o[i] + Len(input)
                        THEN (o[i] + Len(input)) - (o[i] + 1) + 1 ELSE 0
        /\ \A j \in 1 .. (o[i] + Len(input)) - (o[i] + 1) + 1 :
             cut[j] = vectors[(o[i] + 1) + j - 1]
    BY <2>1, <2>2, SubSeqProperties
  <2>5. ASSUME NEW j \in 1 .. Len(input)
        PROVE  cut[j] = vectors[o[i] + j]
    <3>1. (o[i] + 1) + j - 1 = o[i] + j
      BY <1>4, <1>6
    <3>2. QED
      BY <2>3, <2>4, <3>1
  <2> HIDE DEF cut
  <2>6. QED
    BY <1>4, <1>6, <2>3, <2>4, <2>5
<1>11. ASSUME NEW j \in 1 .. Len(input)
       PROVE  cut[j] = Encoded(input, key)[j]
  <2>1. o[i] + j \in 1 .. Len(f[n])
    BY <1>4, <1>6, <1>7
  <2>2. QED
    BY <1>4, <1>6, <1>8, <1>9, <1>10, <2>1
<1>12. cut = Encoded(input, key)
  <2> HIDE DEF cut
  <2>1. \A j \in 1 .. Len(cut) : cut[j] = Encoded(input, key)[j]
    BY <1>10, <1>11
  <2>2. Len(cut) = Len(Encoded(input, key))
    BY <1>9, <1>10
  <2>3. QED
    BY <1>9, <1>10, <2>1, <2>2, SeqEqual
<1>13. QED
  BY <1>3, <1>5, <1>12 DEF input, vectors

-----------------------------------------------------------------------------
(* ---- the invariant ---- *)

\* The job that message i becomes.
JobOf(i) ==
  [from |-> i, id |-> NamedId(i, "new"), metadata |-> messages[i].metadata,
   input |-> Coerced(messages[i].input), key |-> messages[i].key]

\* The places of message i that an id can be read from.
Known(i) ==
  {p \in Properties : messages[i].props[p] # "unset"}
    \cup (IF Named(messages[i]) THEN {"job_id"} ELSE {})

\* The messages are read in order, and the calls come after that, one by one.
ProgressInv ==
  /\ messages \in Batches
  /\ read \in 0 .. Len(messages)
  /\ jobs \in Seq(ToSet(jobs))
  /\ next \in 0 .. Len(jobs) + 1 /\ (next # 0 => Read)
  /\ outcomes \in Seq(ToSet(outcomes))
  /\ Len(outcomes) = IF next = 0 THEN 0 ELSE next - 1
  /\ DOMAIN replies = DOMAIN messages /\ DOMAIN fate = DOMAIN messages

\* The jobs are those of messages that have been accepted.
JobsInv ==
  \A k \in DOMAIN jobs :
    /\ jobs[k].from \in 1 .. read /\ ~Rejects(messages[jobs[k].from])
    /\ jobs[k] = JobOf(jobs[k].from)

\* What the outcomes listed so far say is true of the jobs at their places.
OutcomesInv ==
  \A k \in DOMAIN outcomes :
    /\ outcomes[k].ok => outcomes[k].embeddings = Encoded(jobs[k].input, jobs[k].key)
    /\ ~outcomes[k].ok => k \in failedAlone
    /\ ToSet(jobs[k].input) \cap Poison # {} => ~outcomes[k].ok

\* What Correlatable says of message i, with fate f and reply r.
Right(i, f, r) ==
  /\ f = "acked" => \/ r # NoReply \/ ~messages[i].reply_to
                    \/ lane = "query" /\ messages[i].deadline
  /\ r # NoReply =>
       /\ f = "acked" /\ messages[i].reply_to
       /\ lane = "index" => r.status # "internal_error"
       /\ Known(i) # {} => r.correlation \in Known(i) \X {i}
       /\ ~Rejects(messages[i]) => r.metadata = <<messages[i].metadata, i>>

\* A message that has been read is settled, and rightly, or is a job of the batch.
FatesInv ==
  \A i \in DOMAIN messages :
    /\ i \notin 1 .. read => fate[i] = "unsettled"
    /\ i \in 1 .. read /\ fate[i] = "unsettled" => \E k \in DOMAIN jobs : jobs[k].from = i
    /\ Right(i, fate[i], replies[i])

HandlerInv == ProgressInv /\ JobsInv /\ OutcomesInv /\ FatesInv

-----------------------------------------------------------------------------
(* ---- messages and what they become ---- *)

LEMMA MessagesAre ==
  ASSUME ProgressInv
  PROVE  /\ Len(messages) \in Nat /\ DOMAIN messages = 1 .. Len(messages)
         /\ \A i \in DOMAIN messages : Message(messages[i])
<1>1. messages \in Seq(ToSet(messages)) /\ \A i \in DOMAIN messages : Message(messages[i])
  BY HandlerAssumption DEF ProgressInv
<1>2. QED
  BY <1>1, LenProperties

\* An accepted message has a list of texts, however it spells that.
LEMMA AcceptedInput ==
  ASSUME NEW m, Message(m), ~Rejects(m)
  PROVE  Coerced(m.input) \in Seq(Texts)
<1> DEFINE input == Coerced(m.input)
<1>1. input \in Seq(Texts \cup Unfit)
  <2>1. CASE m.input \in Texts \cup Unfit
    <3>1. input = <<m.input>>
      BY <2>1 DEF Coerced
    <3>2. QED
      BY <2>1, <3>1
  <2>2. CASE m.input \notin Texts \cup Unfit
    <3>1. input = m.input
      BY <2>2 DEF Coerced
    <3>2. m.input \in Seq(Texts \cup Unfit)
      BY <2>2 DEF Message
    <3>3. QED
      BY <3>1, <3>2
  <2>3. QED
    BY <2>1, <2>2
<1>2. ToSet(input) \subseteq Texts
  BY DEF Rejects, Invalid, ValidInput
<1>3. Len(input) \in Nat /\ DOMAIN input = 1 .. Len(input) /\ input \in [1 .. Len(input) -> Texts \cup Unfit]
  BY <1>1, LenProperties
<1> HIDE DEF input
<1>4. input \in [1 .. Len(input) -> Texts]
  BY <1>2, <1>3 DEF ToSet
<1>5. input \in Seq(Texts)
  BY <1>3, <1>4
<1>6. QED
  BY <1>5 DEF input

\* An id is taken from the message itself, if there is one anywhere in it.
LEMMA NamedIdIsOwn ==
  ASSUME NEW i, Message(messages[i]), NEW default, Known(i) # {}
  PROVE  NamedId(i, default) \in Known(i) \X {i}
<1> DEFINE m == messages[i]
<1>1. CASE Named(m)
  BY <1>1 DEF NamedId, Known
<1>2. CASE ~Named(m)
  <2>1. \E p \in Properties : m.props[p] # "unset"
    BY <1>2 DEF Known
  <2>2. Fallback(m) # "none" /\ Fallback(m) \in Properties /\ m.props[Fallback(m)] # "unset"
    BY <2>1 DEF Fallback, Properties
  <2>3. NamedId(i, default) = <<Fallback(m), i>>
    BY <1>2, <2>2 DEF NamedId
  <2>4. QED
    BY <2>2, <2>3 DEF Known
<1>3. QED
  BY <1>1, <1>2

\* What a reply to message i has to be.
Fits(i, r) ==
  IF messages[i].reply_to
    THEN /\ r # NoReply
         /\ lane = "index" => r.status # "internal_error"
         /\ Known(i) # {} => r.correlation \in Known(i) \X {i}
         /\ ~Rejects(messages[i]) => r.metadata = <<messages[i].metadata, i>>
    ELSE r = NoReply

\* So a reply can be told from its id, whatever it says.
LEMMA ReplyFits ==
  ASSUME NEW i, Message(messages[i]), NEW default, NEW metadata,
         NEW status \in {"validation_error", "expired", "ok", "internal_error"},
         lane = "index" => status # "internal_error",
         ~Rejects(messages[i]) => metadata = messages[i].metadata
  PROVE  Fits(i, Reply(i, status, NamedId(i, default), metadata))
<1> DEFINE m == messages[i]
           r == Reply(i, status, NamedId(i, default), metadata)
<1>1. CASE ~m.reply_to
  BY <1>1 DEF Reply, Fits
<1>2. CASE m.reply_to
  <2> DEFINE c == IF m.props["correlation_id"] # "unset" THEN <<"correlation_id", i>>
                  ELSE NamedId(i, default)
  <2>1. r = [status |-> status, correlation |-> c, metadata |-> <<metadata, i>>]
    BY <1>2 DEF Reply
  <2>2. ASSUME Known(i) # {}
        PROVE  c \in Known(i) \X {i}
    <3>1. CASE m.props["correlation_id"] # "unset"
      BY <3>1 DEF Known, Properties
    <3>2. CASE m.props["correlation_id"] = "unset"
      BY <2>2, <3>2, NamedIdIsOwn
    <3>3. QED
      BY <3>1, <3>2
  <2> HIDE DEF c
  <2>3. r # NoReply /\ r.status = status /\ r.correlation = c /\ r.metadata = <<metadata, i>>
    BY <2>1 DEF NoReply
  <2> HIDE DEF r
  <2>4. QED
    BY <1>2, <2>2, <2>3 DEF Fits, r
<1>3. QED
  BY <1>1, <1>2

\* A step that settles message i and leaves the others as they are.
Settled(i) ==
  /\ DOMAIN fate' = DOMAIN messages /\ DOMAIN replies' = DOMAIN messages
  /\ \A j \in DOMAIN messages : j # i => fate'[j] = fate[j] /\ replies'[j] = replies[j]
  /\ fate'[i] # "unsettled"
  /\ Right(i, fate'[i], replies'[i])

LEMMA SettleSettles ==
  ASSUME HandlerInv, NEW i \in DOMAIN messages, fate[i] = "unsettled",
         NEW r, Fits(i, r), NEW retry, Settle(i, r, retry)
  PROVE  Settled(i)
<1>1. DOMAIN fate = DOMAIN messages /\ DOMAIN replies = DOMAIN messages /\ replies[i] = NoReply
  BY DEF HandlerInv, ProgressInv, FatesInv, Right
<1>2. CASE replies' = [replies EXCEPT ![i] = r] /\ fate' = [fate EXCEPT ![i] = "acked"]
  <2>1. fate'[i] = "acked" /\ replies'[i] = r
    BY <1>1, <1>2
  <2>2. Right(i, fate'[i], replies'[i])
    BY <2>1 DEF Fits, Right
  <2>3. QED
    BY <1>1, <1>2, <2>1, <2>2 DEF Settled
<1>3. CASE /\ fate' = [fate EXCEPT ![i] = IF retry THEN "requeued" ELSE "dropped"]
           /\ UNCHANGED replies
  <2>1. fate'[i] \in {"requeued", "dropped"} /\ replies'[i] = NoReply
    BY <1>1, <1>3
  <2>2. Right(i, fate'[i], replies'[i])
    BY <2>1 DEF Right
  <2>3. QED
    BY <1>1, <1>3, <2>1, <2>2 DEF Settled
<1>4. QED
  BY <1>2, <1>3 DEF Settle

LEMMA InitHandlerInv == Init => HandlerInv
<1> SUFFICES ASSUME Init
             PROVE  HandlerInv
  OBVIOUS
<1>1. messages \in Seq(ToSet(messages))
  BY HandlerAssumption DEF Init
<1>2. Len(messages) \in Nat /\ DOMAIN messages = 1 .. Len(messages)
  BY <1>1, LenProperties
<1>3. ProgressInv
  BY <1>2 DEF Init, ProgressInv
<1>4. JobsInv /\ OutcomesInv
  BY <1>2 DEF Init, JobsInv, OutcomesInv
<1>5. FatesInv
  BY <1>2 DEF Init, FatesInv, Right
<1>6. QED
  BY <1>3, <1>4, <1>5 DEF HandlerInv

\* A sequence with one more element has its elements where they were.
LEMMA AppendPlaces ==
  ASSUME NEW s, s \in Seq(ToSet(s)), NEW e
  PROVE  /\ Append(s, e) \in Seq(ToSet(Append(s, e)))
         /\ s \o <<e>> = Append(s, e)
         /\ Len(s) \in Nat /\ DOMAIN s = 1 .. Len(s)
         /\ Len(Append(s, e)) = Len(s) + 1
         /\ DOMAIN Append(s, e) = 1 .. Len(s) + 1
         /\ \A i \in 1 .. Len(s) : Append(s, e)[i] = s[i]
         /\ Append(s, e)[Len(s) + 1] = e
<1> DEFINE S == ToSet(s) \cup {e}
           t == Append(s, e)
<1>1. s \in Seq(S) /\ e \in S
  BY SeqMonotonic
<1> HIDE DEF S
<1>2. Len(s) \in Nat /\ DOMAIN s = 1 .. Len(s)
  BY LenProperties
<1>3. /\ t \in Seq(S) /\ Len(t) = Len(s) + 1
      /\ \A i \in 1 .. Len(s) : t[i] = s[i]
      /\ t[Len(s) + 1] = e
  BY <1>1, AppendProperties
<1>4. s \o <<e>> = t
  BY <1>1, AppendIsConcat
<1> HIDE DEF t
<1>5. DOMAIN t = 1 .. Len(t) /\ t \in [1 .. Len(t) -> S] /\ Len(t) \in Nat
  BY <1>3, LenProperties
<1>6. t \in [1 .. Len(t) -> ToSet(t)]
  BY <1>5 DEF ToSet
<1>7. t \in Seq(ToSet(t))
  BY <1>5, <1>6
<1>8. QED
  BY <1>2, <1>3, <1>4, <1>5, <1>7 DEF t

-----------------------------------------------------------------------------
(* ---- one step ---- *)

LEMMA MessagesStay ==
  ASSUME messages' = messages, lane' = lane
  PROVE  /\ \A i : JobOf(i)' = JobOf(i) /\ Known(i)' = Known(i)
         /\ \A i, f, r : Right(i, f, r)' <=> Right(i, f, r)
<1>1. \A i : JobOf(i)' = JobOf(i) /\ Known(i)' = Known(i)
  BY DEF JobOf, Known, NamedId
<1>2. QED
  BY <1>1 DEF Right

\* The next message to read.
LEMMA NextMessage ==
  ASSUME HandlerInv, ~Read, NEW i, i = read + 1
  PROVE  /\ Len(messages) \in Nat /\ DOMAIN messages = 1 .. Len(messages)
         /\ read \in Nat /\ i \in DOMAIN messages /\ Message(messages[i])
         /\ fate[i] = "unsettled"
         /\ next = 0 /\ Len(outcomes) = 0 /\ DOMAIN outcomes = {}
<1> DEFINE n == Len(messages)
<1>1. n \in Nat /\ DOMAIN messages = 1 .. n /\ \A j \in DOMAIN messages : Message(messages[j])
  BY MessagesAre DEF HandlerInv
<1>2. read \in 0 .. n /\ read # n
  BY DEF HandlerInv, ProgressInv, Read
<1> HIDE DEF n
<1>3. read \in Nat /\ i \in 1 .. n /\ i \notin 1 .. read
  BY <1>1, <1>2
<1>4. fate[i] = "unsettled"
  BY <1>1, <1>3 DEF HandlerInv, FatesInv
<1>5. next = 0 /\ Len(outcomes) = 0 /\ outcomes \in Seq(ToSet(outcomes))
  BY DEF HandlerInv, ProgressInv
<1>6. DOMAIN outcomes = 1 .. 0
  BY <1>5, LenProperties
<1>7. QED
  BY <1>1, <1>3, <1>4, <1>5, <1>6 DEF n

\* The next message is settled on being read.
LEMMA ReadingSettles ==
  ASSUME HandlerInv, ~Read, read' = read + 1, Settled(read + 1),
         UNCHANGED <<lane, messages, jobs, next, outcomes, failedAlone>>
  PROVE  HandlerInv'
<1> DEFINE i == read + 1
<1>1. /\ Len(messages) \in Nat /\ DOMAIN messages = 1 .. Len(messages)
      /\ read \in Nat /\ i \in DOMAIN messages /\ next = 0
  BY NextMessage
<1>2. /\ lane' = lane /\ messages' = messages /\ jobs' = jobs /\ next' = next /\ outcomes' = outcomes
      /\ failedAlone' = failedAlone /\ read' = i
  OBVIOUS
<1>3. ProgressInv'
  BY <1>1, <1>2 DEF HandlerInv, ProgressInv, Settled, ToSet
<1>4. JobsInv'
  BY <1>1, <1>2, MessagesStay DEF HandlerInv, JobsInv
<1>5. OutcomesInv'
  BY <1>2 DEF HandlerInv, OutcomesInv
<1>6. ASSUME NEW j \in DOMAIN messages
      PROVE  /\ j \notin 1 .. i => fate'[j] = "unsettled"
             /\ j \in 1 .. i /\ fate'[j] = "unsettled" => \E k \in DOMAIN jobs : jobs[k].from = j
             /\ Right(j, fate'[j], replies'[j])
  <2>1. CASE j = i
    BY <1>1, <2>1 DEF Settled
  <2>2. CASE j # i
    <3>1. fate'[j] = fate[j] /\ replies'[j] = replies[j] /\ (j \in 1 .. i <=> j \in 1 .. read)
      BY <1>1, <2>2 DEF Settled
    <3>2. QED
      BY <3>1 DEF HandlerInv, FatesInv
  <2>3. QED
    BY <2>1, <2>2
<1> HIDE DEF i
<1>7. FatesInv'
  BY <1>2, <1>6, MessagesStay DEF FatesInv
<1>8. QED
  BY <1>3, <1>4, <1>5, <1>7 DEF HandlerInv

LEMMA RejectKeeps ==
  ASSUME HandlerInv, Reject
  PROVE  HandlerInv'
<1> DEFINE i == read + 1
           r == Reply(i, "validation_error", NamedId(i, "unknown"), RejectedMetadata(messages[i]))
<1>1. ~Read /\ Rejects(messages[i]) /\ Settle(i, r, FALSE)
  BY DEF Reject
<1>2. i \in DOMAIN messages /\ Message(messages[i]) /\ fate[i] = "unsettled"
  BY <1>1, NextMessage
<1>3. Fits(i, r)
  BY <1>1, <1>2, ReplyFits
<1> HIDE DEF r
<1>4. Settled(i)
  BY <1>1, <1>2, <1>3, SettleSettles
<1>5. QED
  BY <1>1, <1>4, ReadingSettles DEF Reject

LEMMA ExpireKeeps ==
  ASSUME HandlerInv, Expire
  PROVE  HandlerInv'
<1> DEFINE i == read + 1
           r == Reply(i, "expired", NamedId(i, "new"), messages[i].metadata)
<1>1. ~Read /\ messages[i].deadline
  BY DEF Expire
<1>2. i \in DOMAIN messages /\ Message(messages[i]) /\ fate[i] = "unsettled"
  BY <1>1, NextMessage
<1>3. Fits(i, r)
  BY <1>2, ReplyFits
<1> HIDE DEF r
<1>4. Settled(i)
  <2>1. CASE lane = "query" /\ fate' = [fate EXCEPT ![i] = "acked"] /\ UNCHANGED replies
    <3>1. DOMAIN fate = DOMAIN messages /\ DOMAIN replies = DOMAIN messages /\ replies[i] = NoReply
      BY <1>2 DEF HandlerInv, ProgressInv, FatesInv, Right
    <3>2. fate'[i] = "acked" /\ replies'[i] = NoReply
      BY <1>2, <2>1, <3>1
    <3>3. Right(i, fate'[i], replies'[i])
      BY <1>1, <2>1, <3>2 DEF Right
    <3>4. QED
      BY <2>1, <3>1, <3>2, <3>3 DEF Settled
  <2>2. CASE Settle(i, r, FALSE)
    BY <1>2, <1>3, <2>2, SettleSettles
  <2>3. QED
    BY <2>1, <2>2 DEF Expire, r
<1>5. QED
  BY <1>1, <1>4, ReadingSettles DEF Expire

LEMMA AcceptKeeps ==
  ASSUME HandlerInv, Accept
  PROVE  HandlerInv'
<1> USE DEF HandlerInv
<1> DEFINE i == read + 1
<1>1. /\ ~Read /\ ~Rejects(messages[i]) /\ read' = i
      /\ lane' = lane /\ messages' = messages /\ next' = next /\ outcomes' = outcomes
      /\ failedAlone' = failedAlone /\ fate' = fate /\ replies' = replies
      /\ jobs' = Append(jobs, JobOf(i))
  BY DEF Accept, JobOf
<1>2. /\ Len(messages) \in Nat /\ DOMAIN messages = 1 .. Len(messages)
      /\ read \in Nat /\ i \in DOMAIN messages /\ fate[i] = "unsettled"
      /\ next = 0 /\ Len(outcomes) = 0 /\ DOMAIN outcomes = {}
  BY <1>1, NextMessage
<1>3. /\ jobs' \in Seq(ToSet(jobs')) /\ DOMAIN jobs' = 1 .. Len(jobs) + 1
      /\ Len(jobs) \in Nat /\ DOMAIN jobs = 1 .. Len(jobs) /\ Len(jobs') = Len(jobs) + 1
      /\ \A k \in 1 .. Len(jobs) : jobs'[k] = jobs[k]
      /\ jobs'[Len(jobs) + 1] = JobOf(i)
  <2> DEFINE e == JobOf(i)
  <2> HIDE DEF e
  <2>1. jobs \in Seq(ToSet(jobs)) /\ jobs' = Append(jobs, e)
    BY <1>1 DEF ProgressInv, e
  <2>2. QED
    BY <2>1, AppendPlaces DEF e
<1>4. ProgressInv'
  <2>1. next' \in 0 .. Len(jobs') + 1
    BY <1>1, <1>2, <1>3
  <2>2. outcomes' \in Seq(ToSet(outcomes')) /\ Len(outcomes') = 0 /\ read' \in 0 .. Len(messages')
    BY <1>1, <1>2 DEF ProgressInv, ToSet
  <2>3. QED
    BY <1>1, <1>2, <1>3, <2>1, <2>2 DEF ProgressInv
<1>5. JobsInv'
  <2>1. ASSUME NEW k \in DOMAIN jobs'
        PROVE  /\ jobs'[k].from \in 1 .. i /\ ~Rejects(messages[jobs'[k].from])
               /\ jobs'[k] = JobOf(jobs'[k].from)
    <3>1. CASE k \in 1 .. Len(jobs)
      <4>1. /\ jobs[k].from \in 1 .. read /\ ~Rejects(messages[jobs[k].from])
            /\ jobs[k] = JobOf(jobs[k].from)
        BY <1>3, <3>1 DEF JobsInv
      <4>2. jobs[k].from \in 1 .. i
        BY <1>2, <4>1
      <4>3. QED
        BY <1>3, <3>1, <4>1, <4>2
    <3>2. CASE k = Len(jobs) + 1
      <4>1. jobs'[k].from = i
        BY <1>3, <3>2 DEF JobOf
      <4>2. QED
        BY <1>1, <1>2, <1>3, <3>2, <4>1
    <3>3. QED
      BY <1>3, <3>1, <3>2
  <2>2. QED
    BY <1>1, <2>1, MessagesStay DEF JobsInv
<1>6. OutcomesInv'
  BY <1>1, <1>2 DEF OutcomesInv
<1>7. FatesInv'
  <2>1. ASSUME NEW j \in DOMAIN messages
        PROVE  /\ j \notin 1 .. i => fate[j] = "unsettled"
               /\ j \in 1 .. i /\ fate[j] = "unsettled" => \E k \in DOMAIN jobs' : jobs'[k].from = j
               /\ Right(j, fate[j], replies[j])
    <3>1. CASE j = i
      <4>1. jobs'[Len(jobs) + 1].from = j /\ Len(jobs) + 1 \in DOMAIN jobs'
        BY <1>3, <3>1 DEF JobOf
      <4>2. j \in 1 .. i
        BY <1>2, <3>1
      <4>3. QED
        BY <4>1, <4>2 DEF FatesInv
    <3>2. CASE j # i
      <4>1. j \in 1 .. i <=> j \in 1 .. read
        BY <1>2, <3>2
      <4>2. ASSUME NEW k \in DOMAIN jobs, jobs[k].from = j
            PROVE  k \in DOMAIN jobs' /\ jobs'[k].from = j
        BY <1>3, <4>2
      <4>3. QED
        BY <4>1, <4>2 DEF FatesInv
    <3>3. QED
      BY <3>1, <3>2
  <2>2. QED
    BY <1>1, <2>1, MessagesStay DEF FatesInv
<1>8. QED
  BY <1>4, <1>5, <1>6, <1>7

\* The calls leave messages, jobs and fates alone: only the outcomes matter.
LEMMA CallKeeps ==
  ASSUME HandlerInv, UNCHANGED <<lane, messages, read, jobs, fate, replies>>,
         Read, next' \in 1 .. Len(jobs) + 1,
         outcomes' \in Seq(ToSet(outcomes')), Len(outcomes') = next' - 1,
         OutcomesInv'
  PROVE  HandlerInv'
<1>1. /\ lane' = lane /\ messages' = messages /\ read' = read /\ jobs' = jobs /\ replies' = replies
      /\ fate' = fate /\ Len(jobs) \in Nat
  BY LenProperties DEF HandlerInv, ProgressInv
<1>2. ProgressInv'
  <2> DEFINE n == Len(jobs)
  <2>1. next' \in 0 .. n + 1 /\ next' # 0
    <3>1. next' \in 1 .. n + 1 /\ n \in Nat
      BY <1>1
    <3> HIDE DEF n
    <3>2. QED
      BY <3>1
  <2>2. /\ next' \in 0 .. Len(jobs') + 1 /\ Read'
        /\ Len(outcomes') = IF next' = 0 THEN 0 ELSE next' - 1
    BY <1>1, <2>1 DEF Read
  <2>3. /\ messages' \in Batches /\ read' \in 0 .. Len(messages')
        /\ DOMAIN replies' = DOMAIN messages' /\ DOMAIN fate' = DOMAIN messages'
        /\ jobs' \in Seq(ToSet(jobs'))
    BY <1>1 DEF HandlerInv, ProgressInv
  <2>4. QED
    BY <2>2, <2>3 DEF ProgressInv, ToSet
<1>3. JobsInv'
  BY <1>1, MessagesStay DEF HandlerInv, JobsInv
<1>4. FatesInv'
  BY <1>1, MessagesStay DEF HandlerInv, FatesInv
<1>5. QED
  BY <1>2, <1>3, <1>4 DEF HandlerInv

\* A job of the batch has texts.
LEMMA JobsHaveTexts ==
  ASSUME HandlerInv
  PROVE  /\ Len(jobs) \in Nat /\ DOMAIN jobs = 1 .. Len(jobs)
         /\ \A k \in DOMAIN jobs : jobs[k].input \in Seq(Texts)
<1>1. Len(jobs) \in Nat /\ DOMAIN jobs = 1 .. Len(jobs)
  BY LenProperties DEF HandlerInv, ProgressInv
<1>2. ASSUME NEW k \in DOMAIN jobs
      PROVE  jobs[k].input \in Seq(Texts)
  <2> DEFINE i == jobs[k].from
  <2>1. i \in 1 .. read /\ ~Rejects(messages[i]) /\ jobs[k] = JobOf(i)
    BY DEF HandlerInv, JobsInv
  <2>2. /\ Len(messages) \in Nat /\ DOMAIN messages = 1 .. Len(messages)
        /\ \A j \in DOMAIN messages : Message(messages[j])
    BY MessagesAre DEF HandlerInv
  <2>3. read \in 0 .. Len(messages)
    BY DEF HandlerInv, ProgressInv
  <2>4. i \in DOMAIN messages
    BY <2>1, <2>2, <2>3
  <2>5. jobs[k].input = Coerced(messages[i].input)
    BY <2>1 DEF JobOf
  <2>6. QED
    BY <2>1, <2>2, <2>4, <2>5, AcceptedInput
<1>3. QED
  BY <1>1, <1>2

\* What a call that returns says of the jobs it was made for.
LEMMA ResultsAreOwn ==
  ASSUME NEW batch, NEW n \in Nat, DOMAIN batch = 1 .. n, Len(batch) = n,
         batch = <<>> <=> n = 0,
         \A k \in 1 .. n : batch[k].input \in Seq(Texts),
         CanReturn(batch)
  PROVE  /\ Results(batch) \in Seq(ToSet(Results(batch)))
         /\ Len(Results(batch)) = n
         /\ \A k \in 1 .. n :
              /\ Results(batch)[k].ok
              /\ Results(batch)[k].embeddings = Encoded(batch[k].input, batch[k].key)
              /\ ToSet(batch[k].input) \cap Poison = {}
<1>1. CASE n = 0
  BY <1>1 DEF Results, ToSet
<1>2. CASE n # 0
  <2> DEFINE vectors == Encoded(AllTexts(batch), batch[1].key)
             r == [k \in 1 .. n |-> [ok |-> TRUE, embeddings |-> Slice(vectors, batch, k)]]
  <2>1. Results(batch) = r
    BY <1>2 DEF Results
  <2>2. ASSUME NEW k \in 1 .. n
        PROVE  /\ Slice(vectors, batch, k) = Encoded(batch[k].input, batch[k].key)
               /\ ToSet(batch[k].input) \cap Poison = {}
    <3>1. batch[k].key = batch[1].key /\ ToSet(batch[k].input) \cap Poison = {}
      BY DEF CanReturn, Mixed
    <3>2. QED
      BY <1>2, <3>1, SlicesAreOwn
  <2> HIDE DEF vectors
  <2>3. \A k \in 1 .. n : r[k].ok /\ r[k].embeddings = Slice(vectors, batch, k)
    OBVIOUS
  <2>4. r \in [1 .. n -> ToSet(r)]
    BY DEF ToSet
  <2> HIDE DEF r
  <2>5. r \in Seq(ToSet(r)) /\ Len(r) = n
    BY <2>4
  <2>6. QED
    BY <2>1, <2>2, <2>3, <2>5
<1>3. QED
  BY <1>1, <1>2

LEMMA EncodeAllKeeps ==
  ASSUME HandlerInv, EncodeAll
  PROVE  HandlerInv'
<1> DEFINE r == Results(jobs)
           n == Len(jobs)
<1>1. /\ UNCHANGED <<lane, messages, read, jobs, fate, replies>> /\ Read
      /\ outcomes' = r /\ next' = n + 1 /\ CanReturn(jobs)
  BY DEF EncodeAll
<1>2. n \in Nat /\ DOMAIN jobs = 1 .. n /\ \A k \in 1 .. n : jobs[k].input \in Seq(Texts)
  BY JobsHaveTexts
<1>3. jobs = <<>> <=> n = 0
  BY <1>2 DEF HandlerInv, ProgressInv
<1>4. /\ r \in Seq(ToSet(r)) /\ Len(r) = n
      /\ \A k \in 1 .. n : /\ r[k].ok
                           /\ r[k].embeddings = Encoded(jobs[k].input, jobs[k].key)
                           /\ ToSet(jobs[k].input) \cap Poison = {}
  BY <1>1, <1>2, <1>3, ResultsAreOwn
<1> HIDE DEF r
<1>5. DOMAIN r = 1 .. n
  BY <1>4, LenProperties
<1>6. OutcomesInv'
  BY <1>1, <1>4, <1>5 DEF OutcomesInv
<1> HIDE DEF n
<1>7. next' \in 1 .. n + 1 /\ next' - 1 = n
  BY <1>1, <1>2
<1>8. QED
  BY <1>1, <1>4, <1>6, <1>7, CallKeeps DEF n

LEMMA AllRaisesKeeps ==
  ASSUME HandlerInv, AllRaises
  PROVE  HandlerInv'
<1>1. Len(jobs) \in Nat /\ Len(jobs) # 0
  BY JobsHaveTexts DEF AllRaises, HandlerInv, ProgressInv
<1>2. UNCHANGED <<lane, messages, read, jobs, fate, replies>> /\ Read /\ next = 0
  BY DEF AllRaises
<1>3. CASE Len(jobs) = 1
  <2>1. next' = 2 /\ outcomes' = <<Failed>> /\ failedAlone' = {1}
    BY <1>3 DEF AllRaises
  <2>2. /\ DOMAIN outcomes' = {1} /\ Len(outcomes') = 1 /\ ~outcomes'[1].ok
        /\ outcomes' \in Seq(ToSet(outcomes'))
    <3>1. ~Failed.ok
      BY DEF Failed
    <3>2. DOMAIN outcomes' = 1 .. 1 /\ Len(outcomes') = 1 /\ outcomes'[1] = Failed
      BY <2>1
    <3>3. ToSet(outcomes') = {Failed}
      BY <3>2 DEF ToSet
    <3>4. outcomes' \in Seq(ToSet(outcomes'))
      BY <2>1, <3>3
    <3>5. DOMAIN outcomes' = {1}
      BY <3>2
    <3>6. QED
      BY <3>1, <3>2, <3>4, <3>5
  <2>3. OutcomesInv'
    BY <2>1, <2>2 DEF OutcomesInv
  <2>4. next' \in 1 .. Len(jobs) + 1 /\ Len(outcomes') = next' - 1
    BY <1>3, <2>1, <2>2
  <2>5. QED
    BY <1>2, <2>2, <2>3, <2>4, CallKeeps
<1>4. CASE Len(jobs) # 1
  <2>1. next' = 1 /\ outcomes' = outcomes /\ failedAlone' = failedAlone
    BY <1>4 DEF AllRaises
  <2>2. outcomes \in Seq(ToSet(outcomes)) /\ Len(outcomes) = 0
    BY <1>2 DEF HandlerInv, ProgressInv
  <2>3. OutcomesInv'
    BY <1>2, <2>1 DEF HandlerInv, OutcomesInv
  <2>4. next' \in 1 .. Len(jobs) + 1 /\ Len(outcomes') = next' - 1
    BY <1>1, <2>1, <2>2
  <2>5. QED
    BY <1>2, <2>1, <2>2, <2>3, <2>4, CallKeeps
<1>5. QED
  BY <1>3, <1>4

\* One more outcome is added to the list, and it is true of the next job.
LEMMA OutcomeAdded ==
  ASSUME HandlerInv, UNCHANGED <<lane, messages, read, jobs, fate, replies>>,
         next \in DOMAIN jobs, next' = next + 1,
         NEW e, outcomes' = Append(outcomes, e), failedAlone \subseteq failedAlone',
         e.ok => e.embeddings = Encoded(jobs[next].input, jobs[next].key),
         ~e.ok => next \in failedAlone',
         ToSet(jobs[next].input) \cap Poison # {} => ~e.ok
  PROVE  HandlerInv'
<1> DEFINE n == Len(jobs)
<1>1. n \in Nat /\ DOMAIN jobs = 1 .. n
  BY JobsHaveTexts
<1>2. /\ outcomes \in Seq(ToSet(outcomes)) /\ Len(outcomes) = IF next = 0 THEN 0 ELSE next - 1
      /\ next # 0 => Read
  BY DEF HandlerInv, ProgressInv
<1> HIDE DEF n
<1>3. next \in 1 .. n /\ next' \in 1 .. n + 1 /\ next' - 1 = next /\ next # 0
  BY <1>1
<1>4. Len(outcomes) = next - 1 /\ Read
  BY <1>2, <1>3
<1>5. /\ outcomes' \in Seq(ToSet(outcomes')) /\ Len(outcomes') = Len(outcomes) + 1
      /\ DOMAIN outcomes = 1 .. Len(outcomes) /\ DOMAIN outcomes' = 1 .. Len(outcomes) + 1
      /\ \A k \in 1 .. Len(outcomes) : outcomes'[k] = outcomes[k]
      /\ outcomes'[Len(outcomes) + 1] = e
  BY <1>2, AppendPlaces
<1>6. Len(outcomes) + 1 = next /\ Len(outcomes') = next
  BY <1>3, <1>4, <1>5
<1>7. OutcomesInv'
  <2> SUFFICES ASSUME NEW k \in DOMAIN outcomes'
               PROVE  /\ outcomes'[k].ok => outcomes'[k].embeddings = Encoded(jobs[k].input, jobs[k].key)
                      /\ ~outcomes'[k].ok => k \in failedAlone'
                      /\ ToSet(jobs[k].input) \cap Poison # {} => ~outcomes'[k].ok
    BY DEF OutcomesInv
  <2>1. CASE k = next
    BY <1>5, <1>6, <2>1
  <2>2. CASE k # next
    <3>1. k \in DOMAIN outcomes /\ outcomes'[k] = outcomes[k]
      <4>1. k \in 1 .. Len(outcomes)
        BY <1>3, <1>4, <1>5, <1>6, <2>2
      <4>2. QED
        BY <1>5, <4>1
    <3>2. QED
      BY <3>1 DEF HandlerInv, OutcomesInv
  <2>3. QED
    BY <2>1, <2>2
<1>8. QED
  BY <1>3, <1>4, <1>5, <1>6, <1>7, CallKeeps DEF n

LEMMA EncodeOneKeeps ==
  ASSUME HandlerInv, EncodeOne
  PROVE  HandlerInv'
<1> DEFINE batch == <<jobs[next]>>
           r == Results(batch)
<1>1. /\ UNCHANGED <<lane, messages, read, jobs, fate, replies>> /\ next \in DOMAIN jobs /\ next' = next + 1
      /\ failedAlone' = failedAlone /\ outcomes' = outcomes \o r /\ CanReturn(batch)
  BY DEF EncodeOne
<1>2. /\ DOMAIN batch = 1 .. 1 /\ Len(batch) = 1 /\ batch # <<>> /\ batch[1] = jobs[next]
      /\ batch[1].input \in Seq(Texts)
  BY <1>1, JobsHaveTexts
<1> HIDE DEF batch
<1>3. /\ r \in Seq(ToSet(r)) /\ Len(r) = 1
      /\ r[1].ok /\ r[1].embeddings = Encoded(jobs[next].input, jobs[next].key)
      /\ ToSet(jobs[next].input) \cap Poison = {}
  <2>1. (\A k \in 1 .. 1 : batch[k].input \in Seq(Texts)) /\ (batch = <<>> <=> 1 = 0) /\ 1 \in Nat
    BY <1>2
  <2>2. /\ r \in Seq(ToSet(r)) /\ Len(r) = 1
        /\ \A k \in 1 .. 1 : /\ r[k].ok
                             /\ r[k].embeddings = Encoded(batch[k].input, batch[k].key)
                             /\ ToSet(batch[k].input) \cap Poison = {}
    BY <1>1, <1>2, <2>1, ResultsAreOwn
  <2>3. QED
    BY <1>2, <2>2
<1> HIDE DEF r
<1>4. r = <<r[1]>>
  BY <1>3
<1>5. outcomes' = Append(outcomes, r[1])
  <2>1. outcomes \in Seq(ToSet(outcomes))
    BY DEF HandlerInv, ProgressInv
  <2>2. outcomes \o <<r[1]>> = Append(outcomes, r[1])
    BY <2>1, AppendPlaces
  <2>3. QED
    BY <1>1, <1>4, <2>2
<1>6. QED
  BY <1>1, <1>3, <1>5, OutcomeAdded

LEMMA OneRaisesKeeps ==
  ASSUME HandlerInv, OneRaises
  PROVE  HandlerInv'
<1>1. /\ UNCHANGED <<lane, messages, read, jobs, fate, replies>> /\ next \in DOMAIN jobs /\ next' = next + 1
      /\ failedAlone' = failedAlone \cup {next} /\ outcomes' = Append(outcomes, Failed)
  BY DEF OneRaises
<1>2. ~Failed.ok
  BY DEF Failed
<1>3. QED
  BY <1>1, <1>2, OutcomeAdded

LEMMA FinishKeeps ==
  ASSUME HandlerInv, NEW k \in Paired, Finish(k)
  PROVE  HandlerInv'
<1> DEFINE i == jobs[k].from
<1>1. /\ lane' = lane /\ messages' = messages /\ read' = read /\ jobs' = jobs /\ next' = next
      /\ outcomes' = outcomes /\ failedAlone' = failedAlone /\ fate[i] = "unsettled"
  BY DEF Finish
<1>2. k \in DOMAIN jobs /\ i \in 1 .. read /\ ~Rejects(messages[i]) /\ jobs[k] = JobOf(i)
  BY DEF Paired, HandlerInv, JobsInv
<1>3. i \in DOMAIN messages /\ Message(messages[i])
  <2>1. /\ Len(messages) \in Nat /\ DOMAIN messages = 1 .. Len(messages)
        /\ \A j \in DOMAIN messages : Message(messages[j])
    BY MessagesAre DEF HandlerInv
  <2>2. read \in 0 .. Len(messages)
    BY DEF HandlerInv, ProgressInv
  <2>3. QED
    BY <1>2, <2>1, <2>2
<1>4. jobs[k].id = NamedId(i, "new") /\ jobs[k].metadata = messages[i].metadata
  BY <1>2 DEF JobOf
<1>5. Settled(i)
  <2>1. CASE /\ lane = "index"
             /\ fate' = [fate EXCEPT ![i] = IF messages[i].last THEN "dropped" ELSE "requeued"]
             /\ UNCHANGED replies
    <3>1. DOMAIN fate = DOMAIN messages /\ DOMAIN replies = DOMAIN messages /\ replies[i] = NoReply
      BY <1>1, <1>3 DEF HandlerInv, ProgressInv, FatesInv, Right
    <3>2. fate'[i] \in {"requeued", "dropped"} /\ replies'[i] = NoReply
      BY <1>3, <2>1, <3>1
    <3>3. Right(i, fate'[i], replies'[i])
      BY <3>2 DEF Right
    <3>4. QED
      BY <2>1, <3>1, <3>2, <3>3 DEF Settled
  <2>2. CASE (outcomes[k].ok \/ lane = "query") /\ Settle(i, Answer(k), lane = "index")
    <3> DEFINE status == IF outcomes[k].ok THEN "ok" ELSE "internal_error"
    <3>1. status \in {"ok", "internal_error"} /\ (lane = "index" => status # "internal_error")
      BY <2>2
    <3>2. Answer(k) = Reply(i, status, NamedId(i, "new"), messages[i].metadata)
      BY <1>4 DEF Answer
    <3> HIDE DEF status
    <3>3. Fits(i, Answer(k))
      BY <1>3, <3>1, <3>2, ReplyFits
    <3>4. QED
      BY <1>1, <1>3, <2>2, <3>3, SettleSettles
  <2>3. QED
    BY <2>1, <2>2 DEF Finish
<1>6. ProgressInv' /\ JobsInv' /\ OutcomesInv'
  BY <1>1, <1>5, MessagesStay DEF HandlerInv, ProgressInv, JobsInv, OutcomesInv, Read, ToSet, Settled
<1>7. ASSUME NEW j \in DOMAIN messages
      PROVE  /\ j \notin 1 .. read => fate'[j] = "unsettled"
             /\ j \in 1 .. read /\ fate'[j] = "unsettled" => \E l \in DOMAIN jobs : jobs[l].from = j
             /\ Right(j, fate'[j], replies'[j])
  <2>1. CASE j = i
    BY <1>2, <1>5, <2>1 DEF Settled
  <2>2. CASE j # i
    BY <1>5, <2>2 DEF Settled, HandlerInv, FatesInv
  <2>3. QED
    BY <2>1, <2>2
<1>8. FatesInv'
  BY <1>1, <1>7, MessagesStay DEF FatesInv
<1>9. QED
  BY <1>6, <1>8 DEF HandlerInv

-----------------------------------------------------------------------------
(* ---- the theorems ---- *)

\* HandlerInv is inductive and so holds in every reachable state.
THEOREM HandlerInvariant == Spec => []HandlerInv
<1>1. HandlerInv /\ [Next]_vars => HandlerInv'
  <2> SUFFICES ASSUME HandlerInv, [Next]_vars
               PROVE  HandlerInv'
    OBVIOUS
  <2>1. CASE Next
    BY <2>1, RejectKeeps, ExpireKeeps, AcceptKeeps, EncodeAllKeeps, AllRaisesKeeps, EncodeOneKeeps, OneRaisesKeeps,
       FinishKeeps DEF Next
  <2>2. CASE UNCHANGED vars
    <3>1. /\ lane' = lane /\ messages' = messages /\ read' = read /\ jobs' = jobs /\ next' = next
          /\ outcomes' = outcomes /\ failedAlone' = failedAlone /\ replies' = replies /\ fate' = fate
      BY <2>2 DEF vars
    <3>2. QED
      BY <3>1, MessagesStay
         DEF HandlerInv, ProgressInv, JobsInv, OutcomesInv, FatesInv, Read, ToSet
  <2>3. QED
    BY <2>1, <2>2
<1>2. QED
  BY <1>1, InitHandlerInv, PTL DEF Spec

\* In the end there is an outcome for each job.
LEMMA OutcomesAreComplete ==
  ASSUME HandlerInv, Done
  PROVE  Len(outcomes) = Len(jobs) /\ DOMAIN outcomes = DOMAIN jobs
<1> DEFINE n == Len(jobs)
           o == Len(outcomes)
<1>1. n \in Nat /\ DOMAIN jobs = 1 .. n
  BY JobsHaveTexts
<1>2. /\ o = IF next = 0 THEN 0 ELSE next - 1
      /\ next \in 0 .. n + 1 /\ next > n
  BY DEF HandlerInv, ProgressInv, Done
<1>3. DOMAIN outcomes = 1 .. o
  BY LenProperties DEF HandlerInv, ProgressInv
<1> HIDE DEF n, o
<1>4. o = n
  BY <1>1, <1>2
<1>5. QED
  BY <1>1, <1>3, <1>4 DEF n, o

\* The list has an outcome for each job, in order, and the vectors in it are those
\* of the job's own texts under its own key, however the batch was encoded.
THEOREM VectorsAreOwn == Spec => []OwnVectors
<1>1. HandlerInv => OwnVectors
  <2> SUFFICES ASSUME HandlerInv, Done
               PROVE  /\ Len(outcomes) = Len(jobs)
                      /\ \A k \in DOMAIN jobs :
                           outcomes[k].ok =>
                             outcomes[k].embeddings =
                               Encoded(Coerced(messages[jobs[k].from].input), messages[jobs[k].from].key)
    BY DEF OwnVectors
  <2>1. Len(outcomes) = Len(jobs) /\ DOMAIN outcomes = DOMAIN jobs
    BY OutcomesAreComplete
  <2>5. ASSUME NEW k \in DOMAIN jobs, outcomes[k].ok
        PROVE  outcomes[k].embeddings =
                 Encoded(Coerced(messages[jobs[k].from].input), messages[jobs[k].from].key)
    <3>1. outcomes[k].embeddings = Encoded(jobs[k].input, jobs[k].key)
      BY <2>1, <2>5 DEF HandlerInv, OutcomesInv
    <3>2. jobs[k] = JobOf(jobs[k].from)
      BY DEF HandlerInv, JobsInv
    <3>3. /\ jobs[k].input = Coerced(messages[jobs[k].from].input)
          /\ jobs[k].key = messages[jobs[k].from].key
      BY <3>2 DEF JobOf
    <3>4. QED
      BY <3>1, <3>3
  <2>6. QED
    BY <2>1, <2>5
<1>2. QED
  BY <1>1, HandlerInvariant, PTL

\* A job is blamed only if its own call raised, and one with a poisonous text is.
THEOREM FailuresAreOwn == Spec => []BlamedAlone
<1>1. HandlerInv => BlamedAlone
  BY DEF HandlerInv, OutcomesInv, BlamedAlone
<1>2. QED
  BY <1>1, HandlerInvariant, PTL

\* Once the zip of jobs and outcomes has been gone through every message of the
\* batch is settled, rejected, expired and failed ones included.
THEOREM BatchIsSettled == Spec => []NoneLeftOver
<1>1. HandlerInv => NoneLeftOver
  <2> SUFFICES ASSUME HandlerInv, Done, \A k \in Paired : fate[jobs[k].from] # "unsettled",
                      NEW i \in DOMAIN messages, fate[i] = "unsettled"
               PROVE  FALSE
    BY DEF NoneLeftOver
  <2>1. i \in 1 .. read
    BY MessagesAre DEF HandlerInv, Done, Read
  <2>2. PICK k \in DOMAIN jobs : jobs[k].from = i
    BY <2>1 DEF HandlerInv, FatesInv
  <2>3. k \in Paired
    BY <2>2, OutcomesAreComplete DEF Paired
  <2>4. QED
    BY <2>2, <2>3
<1>2. QED
  BY <1>1, HandlerInvariant, PTL

\* No ack without an answer, but for the messages that get none, and the producer
\* of a message can tell what a reply is for: it carries an id of that message
\* wherever one could be read, and the job's own metadata.
THEOREM RepliesAreCorrelatable == Spec => []Correlatable
<1>1. HandlerInv => Correlatable
  BY DEF HandlerInv, FatesInv, Right, Known, Correlatable
<1>2. QED
  BY <1>1, HandlerInvariant, PTL
=============================================================================
