---------------------------- MODULE PrioritySlot ----------------------------
(***************************************************************************)
(* The one-holder encode slot of a worker process (mq/batcher.py,          *)
(* PrioritySlot).  It is an asyncio primitive: everything between two      *)
(* awaits is one step of the event loop, so an action is the code from one *)
(* suspension point to the next.  A coroutine that calls acquire() is a    *)
(* task here; it is suspended in exactly one place, `await future`.        *)
(*                                                                         *)
(* Between the step that resolves a future (set_result, or Task.cancel     *)
(* cancelling it) and the step in which its task runs again, any other     *)
(* callback may run.  Those two-step hand-overs are the states "granted",  *)
(* "cancelled" and "revoked" below.                                        *)
(***************************************************************************)
EXTENDS Naturals, FiniteSets

CONSTANTS
  Tasks,     \* the coroutines that use the slot
  Priority   \* Priority[t]: the `priority` t passes to acquire, lower first

ASSUME PriorityAssumption == Priority \in [Tasks -> Nat]

VARIABLES
  busy,      \* _busy
  waiters,   \* the tasks with an entry in the _waiters heap
  ahead,     \* <<u, v>>: u's entry has a smaller sequence number than v's
  status     \* where each task is in acquire(), see Status

vars == <<busy, waiters, ahead, status>>

\* "queued": the future is pending.  "granted": set_result() was called and the
\* task has not run yet.  "cancelled": the future was cancelled, not run yet.
\* "revoked": granted, then the task was cancelled before it ran.
Status == {"idle", "queued", "granted", "cancelled", "revoked", "holding"}

\* The tasks the slot belongs to, whether or not they have noticed.
Owners == {t \in Tasks : status[t] \in {"granted", "revoked", "holding"}}

\* Entries whose future is not done: `if not future.done()`.
Pending == {t \in waiters : status[t] = "queued"}

\* Faulty variants of Before: the priority ignored, and the larger one first.
BeforeByArrival(u, v) == <<u, v>> \in ahead
BeforeMaxFirst(u, v) == \/ Priority[u] > Priority[v]
                        \/ Priority[u] = Priority[v] /\ <<u, v>> \in ahead

\* Heap order: (priority, sequence number).
Before(u, v) == \/ Priority[u] < Priority[v]
                \/ Priority[u] = Priority[v] /\ <<u, v>> \in ahead

-----------------------------------------------------------------------------

Init == /\ busy = FALSE
        /\ waiters = {}
        /\ ahead = {}
        /\ status = [t \in Tasks |-> "idle"]

\* Faulty variant of AcquireFree: only the heap is looked at, not `_busy`.
AcquireIgnoringBusy(t) ==
  /\ status[t] = "idle"
  /\ waiters = {}
  /\ busy' = TRUE
  /\ status' = [status EXCEPT ![t] = "holding"]
  /\ UNCHANGED <<waiters, ahead>>

\* acquire() on a free slot with nobody queued: no suspension at all.
AcquireFree(t) ==
  /\ status[t] = "idle"
  /\ ~busy /\ waiters = {}
  /\ busy' = TRUE
  /\ status' = [status EXCEPT ![t] = "holding"]
  /\ UNCHANGED <<waiters, ahead>>

\* acquire() otherwise: push (priority, next(_seq), future), await the future.
Enqueue(t) ==
  /\ status[t] = "idle"
  /\ busy \/ waiters # {}
  /\ waiters' = waiters \cup {t}
  /\ ahead' = ahead \cup (waiters \X {t})
  /\ status' = [status EXCEPT ![t] = "queued"]
  /\ UNCHANGED busy

\* Task.cancel() of a suspended task.  A pending future is cancelled on the
\* spot, its heap entry stays; a resolved one cannot be, so the task is only
\* marked and gets the CancelledError when it runs.
Cancel(t) ==
  /\ \/ /\ status[t] = "queued"
        /\ status' = [status EXCEPT ![t] = "cancelled"]
     \/ /\ status[t] = "granted"
        /\ status' = [status EXCEPT ![t] = "revoked"]
  /\ UNCHANGED <<busy, waiters, ahead>>

\* _release() run by t.  Entries are popped in heap order and those whose
\* future is done are thrown away, until one is pending: that one becomes the
\* owner and `busy` stays TRUE.
HandOver(t, u) ==
  /\ u \in Pending
  /\ \A v \in Pending \ {u} : Before(u, v)
  /\ waiters' = {w \in waiters \ {u} : Before(u, w)}
  /\ status' = [status EXCEPT ![t] = "idle", ![u] = "granted"]
  /\ UNCHANGED busy

\* Faulty variant of Free: `if` for `while`, the loop ends at a dead entry.
FreeAtDeadEntry(t) ==
  /\ \/ Pending = {}
     \/ \E w \in waiters \ Pending : \A v \in waiters \ {w} : Before(w, v)
  /\ waiters' = {w \in waiters : \E v \in waiters : v # w /\ Before(v, w)}
  /\ status' = [status EXCEPT ![t] = "idle"]
  /\ busy' = FALSE

\* ... or until the heap is empty.
Free(t) ==
  /\ Pending = {}
  /\ waiters' = {}
  /\ status' = [status EXCEPT ![t] = "idle"]
  /\ busy' = FALSE

Release(t) ==
  /\ (\E u \in Tasks : HandOver(t, u)) \/ Free(t)
  /\ ahead' = ahead \cap (waiters' \X waiters')

\* `await future` returns and the body of the `async with` starts.
Resume(t) ==
  /\ status[t] = "granted"
  /\ status' = [status EXCEPT ![t] = "holding"]
  /\ UNCHANGED <<busy, waiters, ahead>>

\* CancelledError with the future itself cancelled: take the entry out.
WithdrawCancelled(t) ==
  /\ status[t] = "cancelled"
  /\ waiters' = waiters \ {t}
  /\ ahead' = ahead \cap (waiters' \X waiters')
  /\ status' = [status EXCEPT ![t] = "idle"]
  /\ UNCHANGED busy

\* Faulty variants of PassOnRevoked: the cancelled task keeps the slot, or only
\* resets `_busy` and leaves the waiters to the next release.
RevokedNotPassedOn(t) ==
  /\ status[t] = "revoked"
  /\ status' = [status EXCEPT ![t] = "idle"]
  /\ UNCHANGED <<busy, waiters, ahead>>
RevokedFreesSlot(t) ==
  /\ status[t] = "revoked"
  /\ busy' = FALSE
  /\ status' = [status EXCEPT ![t] = "idle"]
  /\ UNCHANGED <<waiters, ahead>>

\* CancelledError although the slot had been handed over: pass it on.
PassOnRevoked(t) ==
  /\ status[t] = "revoked"
  /\ Release(t)

\* The body ends, by return, exception or cancellation: `finally: _release()`.
Leave(t) ==
  /\ status[t] = "holding"
  /\ Release(t)

\* What the event loop runs on its own once it is due.
Scheduled(t) == Resume(t) \/ WithdrawCancelled(t) \/ PassOnRevoked(t)

Next == \E t \in Tasks :
          \/ AcquireFree(t) \/ Enqueue(t) \/ Cancel(t)
          \/ Scheduled(t) \/ Leave(t)

Spec == Init /\ [][Next]_vars

\* The event loop runs every callback that is due, and an encode ends: it is a
\* finite torch call.  Nobody has to ask for the slot and nobody has to cancel.
FairSpec == Spec /\ \A t \in Tasks : WF_vars(Scheduled(t)) /\ WF_vars(Leave(t))

-----------------------------------------------------------------------------
(* What the slot promises its callers. *)

\* The variables have their types.
TypeOK == /\ busy \in BOOLEAN
          /\ waiters \in SUBSET Tasks
          /\ ahead \in SUBSET (Tasks \X Tasks)
          /\ status \in [Tasks -> Status]

\* "A one-holder lock": the slot never has two owners, counting an owner that
\* was handed the slot and has not run yet.  Two concurrent encodes would
\* thrash the cores the slot exists to protect.
OneOwner == \A t, u \in Owners : t = u

\* _busy says exactly whether somebody owns the slot.  Were it TRUE with no
\* owner the slot would be leaked and every later batch would wait forever;
\* were it FALSE with an owner the next acquire() would encode beside it.
BusyMeansOwned == busy <=> Owners # {}

\* Whoever is suspended on a pending future is still in the heap and the slot
\* has an owner whose _release() will reach it: no cancellation of another
\* waiter, in any order with a hand-over, strands it.
NoStrandedWaiter == \A t \in Tasks : status[t] = "queued" => t \in waiters /\ busy

\* The heap holds only tasks that are suspended on the future of their entry,
\* and it is empty while the slot is free: acquire()'s second test,
\* `or self._waiters`, never decides anything.
HeapHoldsSuspended == /\ \A t \in waiters : status[t] \in {"queued", "cancelled"}
                      /\ waiters # {} => busy

\* The inductive invariant of the proofs.
SlotInv == TypeOK /\ OneOwner /\ BusyMeansOwned /\ NoStrandedWaiter /\ HeapHoldsSuspended

\* A task becomes an owner only if nobody who was waiting before and still
\* waits after the step precedes it in (priority, arrival) order.  This is
\* about hand-overs and about acquire()'s fast path alike: a newcomer may not
\* slip in between a release and the wake-up of the task it went to.
NoQueueJumping ==
  [][\A u \in Tasks : u \notin Owners /\ u \in Owners' =>
       \A v \in Tasks \ {u} :
         status[v] = "queued" /\ status'[v] = "queued" =>
           \/ Priority[u] < Priority[v]
           \/ Priority[u] = Priority[v] /\ <<u, v>> \in ahead
    ]_vars

\* A waiter no other task outranks (a query batch) stops waiting: it gets the
\* slot or is cancelled, however many index batches keep asking.
TopPriorityServed ==
  \A t \in Tasks : (\A u \in Tasks : Priority[t] <= Priority[u]) =>
                     (status[t] = "queued" ~> status[t] # "queued")

\* The two-step hand-overs, the heap with its dead entries and the second try of
\* _release() add up to a lock that is handed from its holder to the best waiter
\* in one step, and that is never kept, lost or given twice.  A cancelled task
\* waits no longer; one that was handed the slot holds it until it passes it on.
Lock == INSTANCE PriorityLock WITH
  holder <- Owners,
  waiting <- Pending,
  arrived <- ahead \cap (Pending \X Pending)

ImplementsLock == Lock!Spec

=============================================================================
