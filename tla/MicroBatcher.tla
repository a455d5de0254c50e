---------------------------- MODULE MicroBatcher ----------------------------
(***************************************************************************)
(* The batcher of one lane and the lane loop that waits on it              *)
(* (mq/batcher.py, MicroBatcher; mq/worker.py, _lane_loop).  add() is      *)
(* called by other tasks whenever a message comes in, also while the loop  *)
(* waits or is busy with a batch.                                          *)
(*                                                                         *)
(* Clock readings only meet in differences, so a group carries the age of  *)
(* its first_added instead.  An age of Window or more is only compared     *)
(* with other such ages, so these are kept as Window, Window + 1, ... in   *)
(* the same order: time goes on for ever in finitely many states.          *)
(***************************************************************************)
EXTENDS Naturals, FiniteSets, Sequences, SequencesExt

CONSTANTS
  Items,     \* the jobs; one that has been processed may come again
  Keys,
  KeyOf,     \* KeyOf[i]: (input_type, normalize)
  SizeOf,    \* SizeOf[i]: its number of texts
  MaxTexts,  \* max_texts
  Window     \* window_s, in ticks of the clock

ASSUME BatcherAssumption ==
  /\ KeyOf \in [Items -> Keys]
  /\ SizeOf \in [Items -> Nat \ {0}]
  /\ MaxTexts \in Nat \ {0}
  /\ Window \in Nat

VARIABLES
  order,    \* the keys of _groups, in the order of the dict
  items,    \* items[k]: the items of group k, none when k is not in the dict
  texts,    \* texts[k]: its counter
  age,      \* age[k]: time since its first_added
  changed,  \* the event _changed
  pc,       \* the lane loop: "polling", "waiting", "busy" or "stopped"
  timer,    \* what is left of the timeout of wait_for(), or NoTimer
  batch,    \* the items of the batch being processed
  waited    \* time since i was added, up to Window (history)

groups == <<order, items, texts, age>>
vars == <<groups, changed, pc, timer, batch, waited>>

NoTimer == Window + 1

Buffered == {i \in Items : \E k \in Keys : i \in ToSet(items[k])}

\* sum(item.texts for item in s)
Total(s) ==
  LET sum[n \in 0 .. Len(s)] == IF n = 0 THEN 0 ELSE sum[n - 1] + SizeOf[s[n]]
  IN sum[Len(s)]

Full(k) == texts[k] >= MaxTexts
Due(k) == age[k] >= Window
Present == ToSet(order)

-----------------------------------------------------------------------------
Init ==
  /\ order = <<>>
  /\ items = [k \in Keys |-> <<>>]
  /\ texts = [k \in Keys |-> 0]
  /\ age = [k \in Keys |-> 0]
  /\ changed = FALSE
  /\ pc = "polling"
  /\ timer = NoTimer
  /\ batch = <<>>
  /\ waited = [i \in Items |-> 0]

Notify(k) == changed' = TRUE

\* add(item), by _on_message; not once the worker is draining.
Add(i) ==
  LET k == KeyOf[i] IN
  /\ i \notin Buffered /\ i \notin ToSet(batch)
  /\ pc # "stopped"
  /\ order' = IF k \in Present THEN order ELSE Append(order, k)
  /\ items' = [items EXCEPT ![k] = Append(@, i)]
  /\ texts' = [texts EXCEPT ![k] = @ + SizeOf[i]]
  /\ Notify(k)
  /\ waited' = [waited EXCEPT ![i] = 0]
  /\ UNCHANGED <<age, pc, timer, batch>>

\* Faulty variant of Fits: the item that crosses the limit is still taken.
FitsOvershooting(s, n) == n = 1 \/ Total(SubSeq(s, 1, n - 1)) < MaxTexts

\* The first n items of s go into one batch: always one, then while they fit.
Fits(s, n) == n = 1 \/ Total(SubSeq(s, 1, n)) <= MaxTexts

Taken(s) == CHOOSE n \in 1 .. Len(s) : Fits(s, n) /\ (n = Len(s) \/ ~Fits(s, n + 1))

Leftovers(k) == SubSeq(items[k], Taken(items[k]) + 1, Len(items[k]))

\* Faulty variant of TextsLeft: the counter still counts what was taken.
TextsNotReduced(k) == IF Leftovers(k) = <<>> THEN 0 ELSE texts[k]

\* group.texts -= texts; a group without leftovers is gone.
TextsLeft(k) == IF Leftovers(k) = <<>> THEN 0
                ELSE texts[k] - Total(SubSeq(items[k], 1, Taken(items[k])))

\* Faulty variant of AgeLeft: leftovers start a window of their own.
AgeRestarted(k) == 0

\* "Keep the original timestamp".
AgeLeft(k) == IF Leftovers(k) = <<>> THEN 0 ELSE age[k]

\* Faulty variant of Reinserted: a group that is used up stays in the dict.
ReinsertedAlways(k) == <<k>>

Reinserted(k) == IF Leftovers(k) = <<>> THEN <<>> ELSE <<k>>

Position(k) == CHOOSE n \in DOMAIN order : order[n] = k

\* _pop(key): leftovers go back into the dict, behind the other groups.
Pop(k) ==
  /\ batch' = SubSeq(items[k], 1, Taken(items[k]))
  /\ items' = [items EXCEPT ![k] = Leftovers(k)]
  /\ texts' = [texts EXCEPT ![k] = TextsLeft(k)]
  /\ age' = [age EXCEPT ![k] = AgeLeft(k)]
  /\ order' = RemoveAt(order, Position(k)) \o Reinserted(k)

\* Faulty variant of Selected: only groups that are full.
SelectedFull(k) ==
  /\ Full(k)
  /\ \A m \in Present \ {k} : Full(m) => Position(k) < Position(m)

\* The group take_ready() pops: the first full one of the dict, else the due one
\* that was added first.
Selected(k) ==
  \/ /\ Full(k)
     /\ \A m \in Present \ {k} : Full(m) => Position(k) < Position(m)
  \/ /\ Due(k)
     /\ \A m \in Present : ~Full(m)
     /\ \A m \in Present \ {k} :
          \/ age[m] < age[k]
          \/ age[m] = age[k] /\ Position(k) < Position(m)

\* max(oldest + window_s - clock, 0), None without groups.  Nothing is due here.
Timeout ==
  IF Present = {} THEN NoTimer
  ELSE Window - (CHOOSE a \in {age[k] : k \in Present} : \A m \in Present : a >= age[m])

\* One turn of the loop in next_batch(), from its start or from the end of the
\* wait_for(): clear the event, take_ready(), and return or wait.
NextBatch ==
  /\ \/ pc = "polling"
     \/ pc = "waiting" /\ (changed \/ timer = 0)
  /\ \/ /\ \E k \in Present :
             /\ Selected(k) /\ Pop(k)
             /\ changed' = (Leftovers(k) # <<>>)
        /\ pc' = "busy"
        /\ timer' = NoTimer
     \/ /\ \A k \in Present : ~Selected(k)
        /\ changed' = FALSE
        /\ pc' = "waiting"
        /\ timer' = Timeout
        /\ UNCHANGED <<groups, batch>>
  /\ UNCHANGED waited

\* The shielded _process is done and the loop comes round.
Processed ==
  /\ pc = "busy"
  /\ pc' = "polling"
  /\ batch' = <<>>
  /\ UNCHANGED <<groups, changed, timer, waited>>

\* _shutdown() cancels the loop: in the wait_for(), behind the shield, or before
\* it has resumed.
Cancel ==
  /\ pc # "stopped"
  /\ pc' = "stopped"
  /\ timer' = NoTimer
  /\ UNCHANGED <<groups, changed, batch, waited>>

\* drain() pops everything, in the order of the dict.  Nothing else touches the
\* batcher by then, so a batch is popped here when it is its turn in _shutdown(),
\* which processes one after the other and the one in flight before them.
Drain ==
  /\ pc = "stopped"
  /\ \/ /\ batch # <<>> /\ batch' = <<>>
        /\ UNCHANGED <<groups, changed>>
     \/ /\ batch = <<>> /\ order # <<>> /\ Pop(Head(order))
        /\ changed' = (changed \/ Leftovers(Head(order)) # <<>>)
  /\ UNCHANGED <<pc, timer, waited>>

\* Ages of Window and more keep their order and nothing else.
Compress(a) ==
  [k \in Keys |->
     IF k \notin Present THEN 0
     ELSE IF a[k] < Window THEN a[k]
     ELSE Window + Cardinality({a[m] : m \in {n \in Present : a[n] >= Window /\ a[n] < a[k]}})]

Tick ==
  /\ age' = Compress([k \in Keys |-> age[k] + 1])
  /\ timer' = IF timer \in 1 .. Window THEN timer - 1 ELSE timer
  /\ waited' = [i \in Items |-> IF i \in Buffered /\ waited[i] < Window
                                  THEN waited[i] + 1 ELSE waited[i]]
  /\ UNCHANGED <<order, items, texts, changed, pc, batch>>

Next == (\E i \in Items : Add(i)) \/ NextBatch \/ Processed \/ Cancel \/ Drain \/ Tick

Spec == Init /\ [][Next]_vars

\* The clock runs, the event loop resumes a loop whose wait is over, and
\* processing a batch ends.  Nobody has to add anything or to stop the worker.
FairSpec == Spec /\ WF_vars(NextBatch) /\ WF_vars(Processed) /\ WF_vars(Drain) /\ WF_vars(Tick)

-----------------------------------------------------------------------------
\* The variables have their types, and the dict holds the groups with items.
TypeOK ==
  /\ order \in Seq(Keys) /\ IsInjective(order)
  /\ items \in [Keys -> Seq(Items)]
  /\ \A k \in Keys : k \in Present <=> items[k] # <<>>
  /\ texts \in [Keys -> Nat] /\ age \in [Keys -> Nat]
  /\ changed \in BOOLEAN
  /\ pc \in {"polling", "waiting", "busy", "stopped"}
  /\ timer \in 0 .. NoTimer
  /\ batch \in Seq(Items)
  /\ waited \in [Items -> 0 .. Window]

\* The counter that decides whether a group is full counts what is in it, after
\* any sequence of adds and partial pops.
TextsCounted == \A k \in Keys : texts[k] = Total(items[k])

\* While the loop sleeps and nothing will wake it but its timer, no group is
\* full and no item, leftovers of earlier batches included, will have waited
\* longer than the window when it rings.
NeverOversleeps ==
  pc = "waiting" /\ ~changed =>
    /\ \A k \in Keys : ~Full(k)
    /\ \A i \in Buffered : timer <= Window /\ waited[i] + timer <= Window

\* An item does get into a batch, unless groups of other keys keep filling up.
TakenUnlessCrowdedOut ==
  \A i \in Items :
    <>[](\A k \in Keys \ {KeyOf[i]} : ~Full(k)) => (i \in Buffered ~> i \notin Buffered)

\* Through every mixture of adds, partial pops, re-inserted leftovers, a stop and
\* the final drain, each group is a line that only loses its front, to a batch
\* the encoder has room for, while no other batch is out.
Buffer == INSTANCE BatchBuffer WITH line <- items, out <- batch

ImplementsBuffer == Buffer!Spec

\* A group is released when its oldest item has waited window_s: an item is not
\* kept for ever.
TakenInTheEnd == \A i \in Items : i \in Buffered ~> i \notin Buffered

=============================================================================
