----------------------------- MODULE Dispatcher -----------------------------
(***************************************************************************)
(* run_dispatcher (src/relayer.rs): the bounded channel of triggered       *)
(* addresses, the dispatcher loop that takes them off it, the in-flight    *)
(* map with its dirty flags, the concurrency semaphore, and the spawned    *)
(* tasks that run forward_address and re-enqueue a dirty address.          *)
(*                                                                         *)
(* Every `.await` and every lock of the code is a step boundary here: the  *)
(* dispatcher waits for a trigger (Recv), then for a permit (Spawn); a     *)
(* task ends its forward and takes its in-flight entry away (Finish),      *)
(* drops its permit (Release), then waits for room in the channel (Send).  *)
(* forward_address itself is one opaque run; module Relayer opens it.      *)
(***************************************************************************)
EXTENDS Integers, FiniteSets, Sequences

CONSTANTS
    Addrs,           \* forwarding addresses
    Tasks,           \* identities for the tasks tokio::spawn creates
    QueueCapacity,   \* FORWARD_QUEUE_CAPACITY
    Concurrency,     \* config.forward_concurrency.max(1)
    MaxOutstanding,  \* bound: triggers not yet answered by the start of a run
    NoAddr           \* no address

ASSUME CapacityAssumption == QueueCapacity \in Nat \ {0}
ASSUME ConcurrencyAssumption == Concurrency \in Nat \ {0}
ASSUME OutstandingAssumption == MaxOutstanding \in Nat
ASSUME NoAddrAssumption == NoAddr \notin Addrs

VARIABLES
    queue,      \* the mpsc channel, oldest trigger first
    inFlight,   \* in_flight: "none" = absent, "clean" = false, "dirty" = true
    held,       \* the address whose permit the dispatcher awaits, or NoAddr
    permits,    \* free permits of the semaphore
    task        \* the spawned tasks

vars == <<queue, inFlight, held, permits, task>>

Idle == [pc |-> "idle", addr |-> NoAddr, requeue |-> FALSE]

TaskState ==
    [pc : {"idle", "forward", "release", "send"}, addr : Addrs \cup {NoAddr},
     requeue : BOOLEAN]

TypeOK ==
    /\ queue \in Seq(Addrs)
    /\ Len(queue) <= QueueCapacity
    /\ inFlight \in [Addrs -> {"none", "clean", "dirty"}]
    /\ held \in Addrs \cup {NoAddr}
    /\ permits \in Nat
    /\ task \in [Tasks -> TaskState]
    /\ \A t \in Tasks : task[t].pc # "idle" => task[t].addr \in Addrs
    /\ \A t \in Tasks : task[t].pc = "send" => task[t].requeue

Init ==
    /\ queue = <<>>
    /\ inFlight = [a \in Addrs |-> "none"]
    /\ held = NoAddr
    /\ permits = Concurrency
    /\ task = [t \in Tasks |-> Idle]

-----------------------------------------------------------------------------
InQueue(a) == \E i \in DOMAIN queue : queue[i] = a

\* Tasks that will put their address back on the channel.
Requeueing == {t \in Tasks : task[t].pc \in {"release", "send"} /\ task[t].requeue}

\* Triggers whose run has not started; only the bound on Trigger counts them.
Outstanding ==
    Len(queue) + Cardinality({a \in Addrs : inFlight[a] = "dirty"})
               + Cardinality(Requeueing) + IF held = NoAddr THEN 0 ELSE 1

\* deposits_tx.send(addr).await of a producer: waits until the channel has room.
Trigger(a) ==
    /\ Outstanding < MaxOutstanding
    /\ Len(queue) < QueueCapacity
    /\ queue' = Append(queue, a)
    /\ UNCHANGED <<inFlight, held, permits, task>>

\* Bug variant: a trigger for an address in flight is dropped, not remembered.
MutRecv ==
    /\ held = NoAddr
    /\ queue # <<>>
    /\ LET a == Head(queue) IN
         IF inFlight[a] # "none"
         THEN UNCHANGED <<inFlight, held>>
         ELSE /\ inFlight' = [inFlight EXCEPT ![a] = "clean"]
              /\ held' = a
    /\ queue' = Tail(queue)
    /\ UNCHANGED <<permits, task>>

\* Bug variant: the in-flight map is not consulted.
MutRecvNoDedup ==
    /\ held = NoAddr
    /\ queue # <<>>
    /\ inFlight' = [inFlight EXCEPT ![Head(queue)] = "clean"]
    /\ held' = Head(queue)
    /\ queue' = Tail(queue)
    /\ UNCHANGED <<permits, task>>

\* One turn of the dispatcher loop up to the semaphore: take the oldest trigger,
\* mark its address dirty if it is in flight, else enter it in the map.
Recv ==
    /\ held = NoAddr
    /\ queue # <<>>
    /\ LET a == Head(queue) IN
         IF inFlight[a] # "none"
         THEN /\ inFlight' = [inFlight EXCEPT ![a] = "dirty"]
              /\ UNCHANGED held
         ELSE /\ inFlight' = [inFlight EXCEPT ![a] = "clean"]
              /\ held' = a
    /\ queue' = Tail(queue)
    /\ UNCHANGED <<permits, task>>

\* tokio::spawn makes a fresh task; which free identity it gets does not matter.
FreshTask == CHOOSE t \in Tasks : task[t].pc = "idle"

\* Bug variant: the forward runs without waiting for a permit.
MutSpawn(t) ==
    /\ held # NoAddr
    /\ task[t].pc = "idle"
    /\ t = FreshTask
    /\ permits' = IF permits > 0 THEN permits - 1 ELSE permits
    /\ task' = [task EXCEPT ![t] = [pc |-> "forward", addr |-> held,
                                    requeue |-> FALSE]]
    /\ held' = NoAddr
    /\ UNCHANGED <<queue, inFlight>>

\* A permit is free: the dispatcher spawns the task that runs forward_address
\* and goes back to the channel.
Spawn(t) ==
    /\ held # NoAddr
    /\ permits > 0
    /\ task[t].pc = "idle"
    /\ t = FreshTask
    /\ permits' = permits - 1
    /\ task' = [task EXCEPT ![t] = [pc |-> "forward", addr |-> held,
                                    requeue |-> FALSE]]
    /\ held' = NoAddr
    /\ UNCHANGED <<queue, inFlight>>

\* Bug variant: the in-flight entry of an address that is not dirty stays behind.
MutFinish(t) ==
    /\ task[t].pc = "forward"
    /\ LET a == task[t].addr IN
         /\ task' = [task EXCEPT ![t].pc = "release",
                                 ![t].requeue = (inFlight[a] = "dirty")]
         /\ inFlight' = [inFlight EXCEPT ![a] =
                            IF inFlight[a] = "dirty" THEN "none" ELSE "clean"]
    /\ UNCHANGED <<queue, held, permits>>

\* forward_address returned: remove the in-flight entry, keeping its dirty flag.
Finish(t) ==
    /\ task[t].pc = "forward"
    /\ LET a == task[t].addr IN
         /\ task' = [task EXCEPT ![t].pc = "release",
                                 ![t].requeue = (inFlight[a] = "dirty")]
         /\ inFlight' = [inFlight EXCEPT ![a] = "none"]
    /\ UNCHANGED <<queue, held, permits>>

\* Bug variant: the permit is kept across the re-enqueue.
MutRelease(t) ==
    /\ task[t].pc = "release"
    /\ IF task[t].requeue
       THEN /\ Len(queue) < QueueCapacity
            /\ queue' = Append(queue, task[t].addr)
       ELSE UNCHANGED queue
    /\ permits' = permits + 1
    /\ task' = [task EXCEPT ![t] = Idle]
    /\ UNCHANGED <<inFlight, held>>

\* Bug variant: a task that is to re-enqueue never drops its permit.
MutLeak(t) ==
    /\ task[t].pc = "release"
    /\ permits' = IF task[t].requeue THEN permits ELSE permits + 1
    /\ task' = [task EXCEPT ![t] = IF task[t].requeue
                                   THEN [task[t] EXCEPT !.pc = "send"]
                                   ELSE Idle]
    /\ UNCHANGED <<queue, inFlight, held>>

\* drop(permit), before the task may have to wait for room in the channel.
Release(t) ==
    /\ task[t].pc = "release"
    /\ permits' = permits + 1
    /\ task' = [task EXCEPT ![t] = IF task[t].requeue
                                   THEN [task[t] EXCEPT !.pc = "send"]
                                   ELSE Idle]
    /\ UNCHANGED <<queue, inFlight, held>>

\* Bug variant: the re-enqueue does not wait for room.
MutSend(t) ==
    /\ task[t].pc = "send"
    /\ queue' = Append(queue, task[t].addr)
    /\ task' = [task EXCEPT ![t] = Idle]
    /\ UNCHANGED <<inFlight, held, permits>>

\* deposits_tx.send(addr).await of the task, then the task ends.
Send(t) ==
    /\ task[t].pc = "send"
    /\ Len(queue) < QueueCapacity
    /\ queue' = Append(queue, task[t].addr)
    /\ task' = [task EXCEPT ![t] = Idle]
    /\ UNCHANGED <<inFlight, held, permits>>

Next ==
    \/ \E a \in Addrs : Trigger(a)
    \/ Recv
    \/ \E t \in Tasks : Spawn(t) \/ Finish(t) \/ Release(t) \/ Send(t)

Spec == Init /\ [][Next]_vars

\* The runtime polls every task that can make progress.  Both the semaphore and
\* the channel of tokio serve their waiters first come first served, so a sender
\* that finds room again and again is not passed over forever; forward_address
\* ends because all its awaits carry timeouts.
Fairness ==
    /\ WF_vars(Recv)
    /\ WF_vars(\E t \in Tasks : Spawn(t))
    /\ \A t \in Tasks : WF_vars(Finish(t)) /\ WF_vars(Release(t)) /\ SF_vars(Send(t))

FairSpec == Spec /\ Fairness

-----------------------------------------------------------------------------
(* The promise to the producers.                                           *)

Running == {task[t].addr : t \in {u \in Tasks : task[u].pc = "forward"}}

\* Where an unanswered trigger can be: on the channel, with the dispatcher, in a
\* dirty flag, or with a task on its way to re-enqueue it.
Owed ==
    {a \in Addrs : \/ InQueue(a)
                   \/ held = a
                   \/ inFlight[a] = "dirty"
                   \/ \E t \in Requeueing : task[t].addr = a}

TS == INSTANCE TriggerService WITH owed <- Owed, running <- Running

\* run_dispatcher implements TriggerService: a trigger stays owed, through the
\* channel, the dirty flag and the re-enqueueing task, until a forward of its
\* address starts ("a deposit that lands mid-forward must not be lost").
ImplementsTriggerService == TS!TSSpec

\* No address has two forwards at once ("so the same balance isn't
\* double-submitted concurrently").
AtMostOneForward ==
    \A t, u \in Tasks :
        /\ task[t].pc = "forward" /\ task[u].pc = "forward"
        /\ task[t].addr = task[u].addr
        => t = u

\* The permit holders never outnumber forward_concurrency, and a permit is never
\* leaked: what is free and what is held add up.
Holders == {t \in Tasks : task[t].pc \in {"forward", "release"}}

PermitsConserved ==
    /\ IsFiniteSet(Holders)
    /\ permits + Cardinality(Holders) = Concurrency

\* Every in-flight entry belongs to the dispatcher's held address or to exactly
\* the task running that address: an entry left behind would make every later
\* trigger of its address a dirty mark that nobody reads.
InFlightOwned ==
    \A a \in Addrs :
        inFlight[a] # "none" <=> held = a \/ a \in Running

\* A held address has no forward and no dirty mark yet.
HeldClean ==
    held # NoAddr => inFlight[held] = "clean" /\ held \notin Running

\* "so we can't deadlock against a full channel whose only consumer is this
\* dispatcher": while an address is owed or running, the dispatcher has a trigger to
\* take or a permit to spawn with, or some task has a forward to end, a permit to
\* drop, or room to send.
NoWaitCycle ==
    Owed \cup Running # {} =>
        \/ held = NoAddr /\ queue # <<>>
        \/ held # NoAddr /\ permits > 0
        \/ \E t \in Tasks : task[t].pc \in {"forward", "release"}
        \/ \E t \in Tasks : task[t].pc = "send" /\ Len(queue) < QueueCapacity

\* An owed address comes to have a run that no trigger has marked dirty.  As a trigger
\* leaves the owed addresses only with the start of a run (ImplementsTriggerService),
\* every trigger is followed by a run that starts after it.  Nobody waits for everybody,
\* however full the channel is and however many tasks wait to re-enqueue ("so we can't
\* deadlock against a full channel").
TriggersServed ==
    \A a \in Addrs : (a \in Owed) ~> (a \in Running /\ inFlight[a] = "clean")
=============================================================================
