------------------------------ MODULE Topology ------------------------------
(***************************************************************************)
(* The exchanges, queues and bindings of the broker (mq/topology.py).      *)
(* Every process, client or worker, declares all of them one by one before *)
(* it does anything else; other processes do the same at the same time,    *)
(* and a process may die between two declarations and start over.          *)
(***************************************************************************)
EXTENDS Naturals, Sequences

CONSTANTS
  Processes,   \* clients and workers
  SettingsOf   \* SettingsOf[p][q]: the arguments p's settings give queue q

\* "absent" stands for an object that does not exist, not for arguments of one.
ASSUME TopologyAssumption ==
  \A p \in Processes : \A q \in DOMAIN SettingsOf[p] : SettingsOf[p][q] # "absent"

VARIABLES
  declared,    \* what exists, with its arguments, or "absent"
  at           \* how many declarations each process has made, or Refusal

topology == <<declared, at>>

\* The declarations, in the order of declare_topology(); "a->b" is a binding.
Declarations ==
  <<"dlx", "dead", "dlx->dead", "requests", "query", "requests->query",
    "index", "requests->index", "events", "requests->events">>

\* The process has ended because the broker closed its channel.
Refusal == Len(Declarations) + 1

\* Only these queues take arguments from the settings.
Arguments(p, d) == IF d \in DOMAIN SettingsOf[p] THEN SettingsOf[p][d] ELSE "fixed"

Exists(d) == declared[d] # "absent"

\* Faulty variant of Ready: a process goes to work once its queues are there.
ReadyEarly(p) == at[p] \in 8 .. Len(Declarations)

\* declare_topology() has returned.
Ready(p) == at[p] = Len(Declarations)

TopologyInit ==
  /\ declared = [n \in {Declarations[k] : k \in DOMAIN Declarations} |-> "absent"]
  /\ at = [p \in Processes |-> 0]

\* Faulty variant of Agrees: the queue is only looked up, not declared again.
AgreesAlways(p, d) == TRUE

\* Idempotent, if what exists has been declared in the same way.
Agrees(p, d) == declared[d] \in {"absent", Arguments(p, d)}

Declare(p) ==
  /\ at[p] < Len(Declarations)
  /\ LET d == Declarations[at[p] + 1] IN
       /\ Agrees(p, d)
       /\ declared' = [declared EXCEPT ![d] = IF @ = "absent" THEN Arguments(p, d) ELSE @]
  /\ at' = [at EXCEPT ![p] = @ + 1]

\* PRECONDITION_FAILED: a queue of that name has other arguments.
Refused(p) ==
  /\ at[p] < Len(Declarations)
  /\ ~Agrees(p, Declarations[at[p] + 1])
  /\ at' = [at EXCEPT ![p] = Refusal]
  /\ UNCHANGED declared

\* The process dies and is started again; what it has declared stays.
StartOver(p) ==
  /\ at[p] \in 1 .. Len(Declarations)
  /\ at' = [at EXCEPT ![p] = 0]
  /\ UNCHANGED declared

-----------------------------------------------------------------------------
\* "They must also be identical everywhere": a process that works does so with
\* queues declared as its own settings have it, whoever came first, so limits it
\* reads from the settings (the attempts, the time to live) are the broker's.
OwnArguments ==
  \A p \in Processes : at[p] = Len(Declarations) =>
    \A k \in DOMAIN Declarations : declared[Declarations[k]] = Arguments(p, Declarations[k])

=============================================================================
