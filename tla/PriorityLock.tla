---------------------------- MODULE PriorityLock ----------------------------
(***************************************************************************)
(* What the encode slot promises: a lock with at most one holder that goes *)
(* from its holder straight to the best of those who wait, by (priority,   *)
(* arrival), and is free only when nobody waits.  Whoever waits may give   *)
(* up; a holder always lets go.  There are no futures, no heap and no      *)
(* two-step hand-over here: PrioritySlot implements this.                  *)
(***************************************************************************)
EXTENDS Naturals

CONSTANTS
  Tasks,
  Priority   \* Priority[t]: lower first

VARIABLES
  holder,    \* nobody or the one task that holds the lock
  waiting,   \* the tasks that wait
  arrived    \* <<u, v>>: u and v wait, and u has waited longer

vars == <<holder, waiting, arrived>>

Precedes(u, v) == \/ Priority[u] < Priority[v]
                  \/ Priority[u] = Priority[v] /\ <<u, v>> \in arrived

Among(S) == arrived \cap (S \X S)

Init == holder = {} /\ waiting = {} /\ arrived = {}

Acquire(t) ==
  /\ holder = {} /\ waiting = {}
  /\ holder' = {t}
  /\ UNCHANGED <<waiting, arrived>>

Wait(t) ==
  /\ holder # {} /\ t \notin holder \cup waiting
  /\ waiting' = waiting \cup {t}
  /\ arrived' = arrived \cup (waiting \X {t})
  /\ UNCHANGED holder

GiveUp(t) ==
  /\ t \in waiting
  /\ waiting' = waiting \ {t}
  /\ arrived' = Among(waiting')
  /\ UNCHANGED holder

\* The lock never becomes free, nor goes to somebody else, while the best waits.
Release ==
  /\ holder # {}
  /\ \/ waiting = {} /\ holder' = {} /\ UNCHANGED waiting
     \/ \E u \in waiting :
          /\ \A v \in waiting \ {u} : Precedes(u, v)
          /\ holder' = {u}
          /\ waiting' = waiting \ {u}
  /\ arrived' = Among(waiting')

Next == Release \/ \E t \in Tasks : Acquire(t) \/ Wait(t) \/ GiveUp(t)

Safety == Init /\ [][Next]_vars

Spec == Safety /\ WF_vars(Release)
=============================================================================
