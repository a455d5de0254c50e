------------------------- MODULE PrioritySlotProofs -------------------------
(***************************************************************************)
(* The safety properties of PrioritySlot, for every set of tasks and every *)
(* assignment of priorities.                                               *)
(*                                                                         *)
(* OneOwner alone is not inductive: a step that hands the slot over keeps  *)
(* it only because the releasing task was the owner, and a step that finds *)
(* the slot free only because `_busy` tells the truth.  SlotInv adds that, *)
(* and that the heap holds nothing but tasks suspended on its entries.     *)
(***************************************************************************)
EXTENDS PrioritySlot, TLAPS

LEMMA InitSlotInv == Init => SlotInv
  BY DEF Init, SlotInv, TypeOK, OneOwner, BusyMeansOwned, NoStrandedWaiter,
         HeapHoldsSuspended, Owners, Status

\* _release() run by the owner: the slot goes to one other task or to nobody,
\* and everybody whose future is still pending keeps an entry.
LEMMA ReleaseKeepsSlotInv ==
  ASSUME SlotInv, NEW t \in Owners, Release(t)
  PROVE  SlotInv'
<1> USE DEF SlotInv, TypeOK, OneOwner, BusyMeansOwned, NoStrandedWaiter,
            HeapHoldsSuspended, Owners, Status, Pending
<1>1. CASE \E u \in Tasks : HandOver(t, u)
  <2>1. PICK u \in Tasks : HandOver(t, u)
    BY <1>1
  <2>2. /\ u \in waiters /\ status[u] = "queued" /\ u # t
        /\ waiters' \subseteq waiters \ {u}
        /\ status' = [status EXCEPT ![t] = "idle", ![u] = "granted"]
        /\ busy' = busy /\ busy
    BY <2>1 DEF HandOver
  <2>3. \A v \in Tasks : status'[v] = "queued" => v \in waiters'
    BY <2>1, <2>2 DEF HandOver
  <2>4. Owners' = {u}
    BY <2>2
  <2>5. TypeOK'
    BY <2>2 DEF Release
  <2>6. HeapHoldsSuspended'
    BY <2>2
  <2>7. QED
    BY <2>2, <2>3, <2>4, <2>5, <2>6
<1>2. CASE Free(t)
  <2>1. Owners' = {}
    BY <1>2 DEF Free
  <2>2. \A v \in Tasks : status'[v] # "queued"
    BY <1>2 DEF Free
  <2>3. TypeOK'
    BY <1>2 DEF Free, Release
  <2>4. QED
    BY <1>2, <2>1, <2>2, <2>3 DEF Free
<1>3. QED
  BY <1>1, <1>2 DEF Release

LEMMA NextKeepsSlotInv == SlotInv /\ [Next]_vars => SlotInv'
<1> SUFFICES ASSUME SlotInv, [Next]_vars
             PROVE  SlotInv'
  OBVIOUS
<1> USE DEF SlotInv, TypeOK, OneOwner, BusyMeansOwned, NoStrandedWaiter,
            HeapHoldsSuspended, Owners, Status
<1>1. ASSUME NEW t \in Tasks, AcquireFree(t)
      PROVE  SlotInv'
  <2>1. Owners' = {t} /\ busy' /\ waiters' = {}
    BY <1>1 DEF AcquireFree
  <2>2. \A v \in Tasks : status'[v] # "queued"
    BY <1>1 DEF AcquireFree
  <2>3. QED
    BY <1>1, <2>1, <2>2 DEF AcquireFree
<1>2. ASSUME NEW t \in Tasks, Enqueue(t)
      PROVE  SlotInv'
  <2>1. Owners' = Owners /\ busy' = busy /\ busy
    BY <1>2 DEF Enqueue
  <2>2. TypeOK'
    BY <1>2 DEF Enqueue
  <2>3. QED
    BY <1>2, <2>1, <2>2 DEF Enqueue
<1>3. ASSUME NEW t \in Tasks, Cancel(t)
      PROVE  SlotInv'
  <2>1. Owners' = Owners
    BY <1>3 DEF Cancel
  <2>2. QED
    BY <1>3, <2>1 DEF Cancel
<1>4. ASSUME NEW t \in Tasks, Scheduled(t)
      PROVE  SlotInv'
  <2>1. CASE Resume(t)
    <3>1. Owners' = Owners
      BY <2>1 DEF Resume
    <3>2. QED
      BY <2>1, <3>1 DEF Resume
  <2>2. CASE WithdrawCancelled(t)
    <3>1. Owners' = Owners
      BY <2>2 DEF WithdrawCancelled
    <3>2. TypeOK'
      BY <2>2 DEF WithdrawCancelled
    <3>3. QED
      BY <2>2, <3>1, <3>2 DEF WithdrawCancelled
  <2>3. CASE PassOnRevoked(t)
    BY <2>3, ReleaseKeepsSlotInv DEF PassOnRevoked
  <2>4. QED
    BY <1>4, <2>1, <2>2, <2>3 DEF Scheduled
<1>5. ASSUME NEW t \in Tasks, Leave(t)
      PROVE  SlotInv'
  BY <1>5, ReleaseKeepsSlotInv DEF Leave
<1>6. CASE UNCHANGED vars
  BY <1>6 DEF vars
<1>7. QED
  BY <1>1, <1>2, <1>3, <1>4, <1>5, <1>6 DEF Next

THEOREM SlotInvariant == Spec => []SlotInv
  BY InitSlotInv, NextKeepsSlotInv, PTL DEF Spec

\* The slot variables always have their types (TypeOK).
THEOREM SlotTypes == Spec => []TypeOK
<1>1. SlotInv => TypeOK
  BY DEF SlotInv
<1>2. QED
  BY <1>1, SlotInvariant, PTL

\* The encode slot of a process never has two owners: no interleaving of
\* acquires, hand-overs and cancellations lets two batches into the body.
THEOREM MutualExclusion == Spec => []OneOwner
<1>1. SlotInv => OneOwner
  BY DEF SlotInv
<1>2. QED
  BY <1>1, SlotInvariant, PTL

\* The slot is never leaked and never given away while owned: `_busy` holds
\* exactly when some task owns it.
THEOREM SlotNeverLeaked == Spec => []BusyMeansOwned
<1>1. SlotInv => BusyMeansOwned
  BY DEF SlotInv
<1>2. QED
  BY <1>1, SlotInvariant, PTL

\* A task waiting on a pending future keeps its heap entry and somebody owns
\* the slot it waits for.
THEOREM WaitersStayReachable == Spec => []NoStrandedWaiter
<1>1. SlotInv => NoStrandedWaiter
  BY DEF SlotInv
<1>2. QED
  BY <1>1, SlotInvariant, PTL

\* Nobody becomes owner past a task that waits with a better priority, or with
\* the same priority for longer, through acquire()'s fast path included.
THEOREM PriorityRespected == Spec => NoQueueJumping
<1> DEFINE Step == \A u \in Tasks : u \notin Owners /\ u \in Owners' =>
              \A v \in Tasks \ {u} :
                status[v] = "queued" /\ status'[v] = "queued" =>
                  \/ Priority[u] < Priority[v]
                  \/ Priority[u] = Priority[v] /\ <<u, v>> \in ahead
<1>1. SlotInv /\ [Next]_vars => [Step]_vars
  <2> SUFFICES ASSUME SlotInv, Next,
                      NEW u \in Tasks, u \notin Owners, u \in Owners',
                      NEW v \in Tasks \ {u}, status[v] = "queued", status'[v] = "queued"
               PROVE  \/ Priority[u] < Priority[v]
                      \/ Priority[u] = Priority[v] /\ <<u, v>> \in ahead
    OBVIOUS
  <2> USE DEF SlotInv, TypeOK, NoStrandedWaiter, Owners
  <2>1. ASSUME NEW t \in Tasks, AcquireFree(t)
        PROVE  FALSE
    BY <2>1 DEF AcquireFree
  <2>2. ASSUME NEW t \in Tasks, Enqueue(t) \/ Cancel(t)
        PROVE  FALSE
    BY <2>2 DEF Enqueue, Cancel
  <2>3. ASSUME NEW t \in Tasks, Resume(t) \/ WithdrawCancelled(t)
        PROVE  FALSE
    BY <2>3 DEF Resume, WithdrawCancelled
  <2>4. ASSUME NEW t \in Tasks, PassOnRevoked(t) \/ Leave(t)
        PROVE  Before(u, v)
    <3>1. Release(t)
      BY <2>4 DEF PassOnRevoked, Leave
    <3>2. ~Free(t)
      BY DEF Free
    <3>3. PICK w \in Tasks : HandOver(t, w)
      BY <3>1, <3>2 DEF Release
    <3>4. w = u
      BY <3>3, <2>4 DEF HandOver, Pending, PassOnRevoked, Leave
    <3>5. v \in Pending \ {u}
      BY DEF Pending
    <3>6. QED
      BY <3>3, <3>4, <3>5 DEF HandOver
  <2>5. QED
    BY <2>1, <2>2, <2>3, <2>4 DEF Next, Scheduled, Before
<1>2. QED
  BY <1>1, SlotInvariant, PTL DEF Spec, NoQueueJumping

-----------------------------------------------------------------------------
(* ---- the slot is a priority lock ---- *)

\* Only entries of the heap have a place in the order of arrival: a task that
\* comes back finds no trace of its earlier visits.
OrderInv == ahead \subseteq waiters \X waiters

LEMMA OrderInvariant == Spec => []OrderInv
<1>1. Init => OrderInv
  BY DEF Init, OrderInv
<1>2. OrderInv /\ [Next]_vars => OrderInv'
  BY DEF OrderInv, vars, Next, AcquireFree, Enqueue, Cancel, Scheduled, Resume,
         WithdrawCancelled, PassOnRevoked, Leave, Release
<1>3. QED
  BY <1>1, <1>2, PTL DEF Spec

\* Those who wait, in the order they wait in, after entries have left the heap.
LEMMA ArrivedAmong ==
  ASSUME ahead' = ahead \cap (waiters' \X waiters'), Pending' \subseteq Pending
  PROVE  (ahead \cap (Pending \X Pending))' =
           (ahead \cap (Pending \X Pending)) \cap (Pending' \X Pending')
<1>1. Pending' \subseteq waiters'
  BY DEF Pending
<1>2. QED
  BY <1>1

\* _release(), whoever runs it, is the lock's Release.
LEMMA ReleaseRefines ==
  ASSUME SlotInv, NEW t \in Owners, Release(t)
  PROVE  Lock!Release
<1> USE DEF SlotInv, TypeOK, OneOwner, Owners, Pending, Status
<1>1. CASE \E u \in Tasks : HandOver(t, u)
  <2>1. PICK u \in Tasks : HandOver(t, u)
    BY <1>1
  <2>2. u \in Pending /\ \A v \in Pending \ {u} : Lock!Precedes(u, v)
    BY <2>1 DEF HandOver, Before, Lock!Precedes
  <2>3. Owners' = {u}
    BY <2>1 DEF HandOver
  <2>4. Pending' = Pending \ {u}
    BY <2>1 DEF HandOver
  <2>5. (ahead \cap (Pending \X Pending))' = Lock!Among(Pending')
    BY <2>4, ArrivedAmong DEF Release, Lock!Among
  <2>6. QED
    BY <2>2, <2>3, <2>4, <2>5 DEF Lock!Release
<1>2. CASE Free(t)
  <2>1. Pending = {} /\ Pending' = {} /\ Owners' = {}
    BY <1>2 DEF Free
  <2>2. QED
    BY <2>1 DEF Lock!Release, Lock!Among
<1>3. QED
  BY <1>1, <1>2 DEF Release

\* Every step of the slot is a step of the lock or changes nothing it shows.
LEMMA StepRefinesLock == SlotInv /\ OrderInv /\ [Next]_vars => [Lock!Next]_Lock!vars
<1> SUFFICES ASSUME SlotInv, OrderInv, [Next]_vars
             PROVE  Lock!Next \/ UNCHANGED Lock!vars
  OBVIOUS
<1> USE DEF SlotInv, OrderInv, TypeOK, OneOwner, BusyMeansOwned, HeapHoldsSuspended,
            Owners, Pending, Status
<1>1. ASSUME NEW t \in Tasks, AcquireFree(t)
      PROVE  Lock!Next
  <2>1. Owners = {} /\ Pending = {} /\ Owners' = {t} /\ Pending' = {}
    BY <1>1 DEF AcquireFree
  <2>2. QED
    BY <1>1, <2>1 DEF AcquireFree, Lock!Next, Lock!Acquire
<1>2. ASSUME NEW t \in Tasks, Enqueue(t)
      PROVE  Lock!Next
  <2>1. Owners # {} /\ t \notin Owners \cup Pending /\ t \notin waiters
    BY <1>2 DEF Enqueue
  <2>2. Owners' = Owners /\ Pending' = Pending \cup {t}
    BY <1>2, <2>1 DEF Enqueue
  <2>3. (ahead \cap (Pending \X Pending))' = (ahead \cap (Pending \X Pending)) \cup (Pending \X {t})
    BY <1>2, <2>1, <2>2 DEF Enqueue
  <2>4. QED
    BY <2>1, <2>2, <2>3 DEF Lock!Next, Lock!Wait
<1>3. ASSUME NEW t \in Tasks, Cancel(t)
      PROVE  Lock!Next \/ UNCHANGED Lock!vars
  <2>1. CASE status[t] = "queued"
    <3>1. CASE t \in waiters
      <4>1. t \in Pending /\ Pending' = Pending \ {t} /\ Owners' = Owners
        BY <1>3, <2>1, <3>1 DEF Cancel
      <4>2. (ahead \cap (Pending \X Pending))' = Lock!Among(Pending')
        BY <1>3, <4>1 DEF Cancel, Lock!Among
      <4>3. QED
        BY <4>1, <4>2 DEF Lock!Next, Lock!GiveUp
    <3>2. CASE t \notin waiters
      BY <2>1, <3>2 DEF NoStrandedWaiter
    <3>3. QED
      BY <3>1, <3>2
  <2>2. CASE status[t] = "granted"
    <3>1. Owners' = Owners /\ Pending' = Pending
      BY <1>3, <2>2 DEF Cancel
    <3>2. QED
      BY <1>3, <3>1 DEF Cancel, Lock!vars
  <2>3. QED
    BY <1>3, <2>1, <2>2 DEF Cancel
<1>4. ASSUME NEW t \in Tasks, Resume(t) \/ WithdrawCancelled(t)
      PROVE  UNCHANGED Lock!vars
  <2>1. Owners' = Owners /\ Pending' = Pending
    BY <1>4 DEF Resume, WithdrawCancelled
  <2>2. (ahead \cap (Pending \X Pending))' = ahead \cap (Pending \X Pending)
    BY <1>4, <2>1 DEF Resume, WithdrawCancelled
  <2>3. QED
    BY <2>1, <2>2 DEF Lock!vars
<1>5. ASSUME NEW t \in Tasks, PassOnRevoked(t) \/ Leave(t)
      PROVE  Lock!Next
  BY <1>5, ReleaseRefines DEF PassOnRevoked, Leave, Lock!Next
<1>6. CASE UNCHANGED vars
  BY <1>6 DEF vars, Lock!vars
<1>7. QED
  BY <1>1, <1>2, <1>3, <1>4, <1>5, <1>6 DEF Next, Scheduled

\* The slot with its futures, its heap and its two-step hand-overs behaves as a
\* lock that goes from its holder straight to the best of those who wait.
THEOREM SlotImplementsLock == Spec => Lock!Safety
<1>1. Init => Lock!Init
  BY DEF Init, Lock!Init, Owners, Pending
<1>2. QED
  BY <1>1, StepRefinesLock, SlotInvariant, OrderInvariant, PTL DEF Spec, Lock!Safety

=============================================================================
