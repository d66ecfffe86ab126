-------------------------- MODULE DispatcherProofs --------------------------
(***************************************************************************)
(* Proofs about Dispatcher for every set of addresses and tasks, every     *)
(* channel capacity and every concurrency limit.                           *)
(***************************************************************************)
EXTENDS Dispatcher, FiniteSetTheorems, TLAPS

\* What the invariants need to be inductive: mutual exclusion per address rests
\* on the ownership of the in-flight entries, and that on the held address being
\* clean and not running.
IInv == TypeOK /\ AtMostOneForward /\ InFlightOwned /\ HeldClean

-----------------------------------------------------------------------------
\* Who runs an address, spelt out.
LEMMA RunningIff ==
    ASSUME NEW a
    PROVE  a \in Running <=> \E t \in Tasks : task[t].pc = "forward" /\ task[t].addr = a
BY DEF Running

\* An empty channel, an empty map and no task.
LEMMA InitIInv == Init => IInv
BY CapacityAssumption, ConcurrencyAssumption, NoAddrAssumption
   DEF Init, IInv, TypeOK, AtMostOneForward, InFlightOwned, HeldClean,
       Running, TaskState, Idle

\* The types are kept by every step.
LEMMA TypeStep == TypeOK /\ [Next]_vars => TypeOK'
<1> SUFFICES ASSUME TypeOK, [Next]_vars PROVE TypeOK'
  OBVIOUS
<1> USE CapacityAssumption, NoAddrAssumption DEF TypeOK, TaskState, Idle
<1>1. CASE \E a \in Addrs : Trigger(a)
  BY <1>1 DEF Trigger
<1>2. CASE Recv
  <2>1. /\ Head(queue) \in Addrs
        /\ Tail(queue) \in Seq(Addrs)
        /\ Len(Tail(queue)) <= QueueCapacity
    BY <1>2 DEF Recv
  <2> QED
    BY <1>2, <2>1 DEF Recv
<1>3. ASSUME NEW t \in Tasks, Spawn(t) PROVE TypeOK'
  BY <1>3 DEF Spawn
<1>4. ASSUME NEW t \in Tasks, Finish(t) PROVE TypeOK'
  <2>1. /\ task'[t].pc = "release" /\ task'[t].addr \in Addrs
        /\ task'[t] \in TaskState
    BY <1>4 DEF Finish
  <2>2. \A u \in Tasks \ {t} : task'[u] = task[u]
    BY <1>4 DEF Finish
  <2>3. task' \in [Tasks -> TaskState]
    BY <1>4, <2>1, <2>2 DEF Finish
  <2>4. inFlight' \in [Addrs -> {"none", "clean", "dirty"}]
    BY <1>4 DEF Finish
  <2>5. UNCHANGED <<queue, held, permits>>
    BY <1>4 DEF Finish
  <2> QED
    BY <2>1, <2>2, <2>3, <2>4, <2>5
<1>5. ASSUME NEW t \in Tasks, Release(t) PROVE TypeOK'
  <2>1. task'[t] \in TaskState /\ (task'[t].pc # "idle" => task'[t].addr \in Addrs)
    BY <1>5 DEF Release
  <2>2. task'[t].pc = "send" => task'[t].requeue
    BY <1>5 DEF Release
  <2>3. \A u \in Tasks \ {t} : task'[u] = task[u]
    BY <1>5 DEF Release
  <2>4. task' \in [Tasks -> TaskState]
    BY <1>5, <2>1, <2>3 DEF Release
  <2> QED
    BY <1>5, <2>1, <2>2, <2>3, <2>4 DEF Release
<1>6. ASSUME NEW t \in Tasks, Send(t) PROVE TypeOK'
  BY <1>6 DEF Send
<1>7. CASE UNCHANGED vars
  BY <1>7 DEF vars
<1> QED
  BY <1>1, <1>2, <1>3, <1>4, <1>5, <1>6, <1>7 DEF Next

\* What each step does to the in-flight map, the held address and the forwards.
LEMMA IInvStep == IInv /\ [Next]_vars => IInv'
<1> SUFFICES ASSUME IInv, [Next]_vars PROVE IInv'
  OBVIOUS
<1>0. TypeOK'
  BY TypeStep DEF IInv
<1> USE <1>0, RunningIff, NoAddrAssumption
    DEF IInv, TypeOK, TaskState, AtMostOneForward, InFlightOwned, HeldClean, Running
<1>1. CASE \E a \in Addrs : Trigger(a)
  BY <1>1 DEF Trigger
<1>2. CASE Recv
  BY <1>2 DEF Recv
<1>3. ASSUME NEW t \in Tasks, Spawn(t) PROVE IInv'
  BY <1>3 DEF Spawn
<1>4. ASSUME NEW t \in Tasks, Finish(t) PROVE IInv'
  <2> DEFINE a == task[t].addr
  <2>1. /\ task[t].pc = "forward"
        /\ a \in Addrs
        /\ a \in Running
        /\ held # a
        /\ held' = held
    BY <1>4 DEF Finish
  <2>2. /\ \A u \in Tasks \ {t} : task'[u] = task[u]
        /\ task'[t].pc = "release"
        /\ inFlight' = [inFlight EXCEPT ![a] = "none"]
    BY <1>4 DEF Finish
  <2>3. \A u \in Tasks : task'[u].pc = "forward"
            <=> u # t /\ task[u].pc = "forward"
    BY <2>2
  <2>4. AtMostOneForward'
    BY <2>2, <2>3
  <2>5. \A b \in Addrs : b \in Running' <=> b # a /\ b \in Running
    <3>1. \A u \in Tasks \ {t} : task[u].pc = "forward" => task[u].addr # a
      BY <2>1
    <3> HIDE DEF IInv, TypeOK, InFlightOwned, HeldClean, AtMostOneForward
    <3> QED
      BY <2>1, <2>2, <2>3, <3>1
  <2>6. InFlightOwned' /\ HeldClean'
    <3>1. \A b \in Addrs : inFlight'[b] = IF b = a THEN "none" ELSE inFlight[b]
      BY <2>2
    <3>2. held' # NoAddr => held' \in Addrs
      BY <2>1
    <3> HIDE DEF Running
    <3> QED
      BY <2>1, <2>5, <3>1, <3>2
  <2> QED
    BY <2>4, <2>6
<1>5. ASSUME NEW t \in Tasks, Release(t) PROVE IInv'
  BY <1>5 DEF Release, Idle
<1>6. ASSUME NEW t \in Tasks, Send(t) PROVE IInv'
  BY <1>6 DEF Send, Idle
<1>7. CASE UNCHANGED vars
  BY <1>7 DEF vars
<1> QED
  BY <1>1, <1>2, <1>3, <1>4, <1>5, <1>6, <1>7 DEF Next

-----------------------------------------------------------------------------
\* The invariants of every behaviour.
LEMMA Invariant == Spec => []IInv
BY InitIInv, IInvStep, PTL DEF Spec

\* The state of run_dispatcher keeps its types; the channel never exceeds its
\* capacity.
THEOREM TypeCorrect == Spec => []TypeOK
BY Invariant, PTL DEF IInv

\* run_dispatcher never runs forward_address twice at once for one address,
\* whatever the number of tasks and triggers.
THEOREM ForwardsExclusive == Spec => []AtMostOneForward
BY Invariant, PTL DEF IInv

\* The in-flight map has exactly the entries of the held and the running
\* addresses: none is left behind and none is missing.
THEOREM InFlightMapExact == Spec => []InFlightOwned
BY Invariant, PTL DEF IInv

-----------------------------------------------------------------------------
\* Each step takes at most one task in or out of the set of permit holders, and
\* moves the free permits the other way.
LEMMA PermitsStep == TypeOK /\ PermitsConserved /\ [Next]_vars => PermitsConserved'
<1> SUFFICES ASSUME TypeOK, PermitsConserved, [Next]_vars PROVE PermitsConserved'
  OBVIOUS
<1> USE ConcurrencyAssumption DEF TypeOK, TaskState, PermitsConserved
<1>a. Cardinality(Holders) \in Nat
  BY FS_CardinalityType
<1>b. ASSUME Holders' = Holders, permits' = permits PROVE PermitsConserved'
  BY <1>b
<1>1. CASE \E a \in Addrs : Trigger(a)
  BY <1>1, <1>b DEF Trigger, Holders
<1>2. CASE Recv
  BY <1>2, <1>b DEF Recv, Holders
<1>3. ASSUME NEW t \in Tasks, Spawn(t) PROVE PermitsConserved'
  <2>1. t \notin Holders /\ Holders' = Holders \cup {t} /\ permits' = permits - 1
    BY <1>3 DEF Spawn, Holders
  <2>2. IsFiniteSet(Holders') /\ Cardinality(Holders') = Cardinality(Holders) + 1
    BY <2>1, FS_AddElement
  <2> QED
    BY <2>1, <2>2, <1>a
<1>4. ASSUME NEW t \in Tasks, Finish(t) PROVE PermitsConserved'
  BY <1>4, <1>b DEF Finish, Holders
<1>5. ASSUME NEW t \in Tasks, Release(t) PROVE PermitsConserved'
  <2>1. t \in Holders /\ Holders' = Holders \ {t} /\ permits' = permits + 1
    BY <1>5 DEF Release, Holders, Idle
  <2>2. IsFiniteSet(Holders') /\ Cardinality(Holders') = Cardinality(Holders) - 1
    BY <2>1, FS_RemoveElement
  <2> QED
    BY <2>1, <2>2, <1>a
<1>6. ASSUME NEW t \in Tasks, Send(t) PROVE PermitsConserved'
  BY <1>6, <1>b DEF Send, Holders, Idle
<1>7. CASE UNCHANGED vars
  BY <1>7, <1>b DEF vars, Holders
<1> QED
  BY <1>1, <1>2, <1>3, <1>4, <1>5, <1>6, <1>7 DEF Next

\* No permit of the semaphore is leaked or invented: at most forward_concurrency
\* tasks are between their spawn and drop(permit).
THEOREM PermitsNeverLeak == Spec => []PermitsConserved
<1>1. Init => PermitsConserved
  <2> SUFFICES ASSUME Init PROVE PermitsConserved
    OBVIOUS
  <2>1. Holders = {}
    BY DEF Init, Holders, Idle
  <2> QED
    BY <2>1, FS_EmptySet, ConcurrencyAssumption DEF Init, PermitsConserved
<1> QED
  BY <1>1, PermitsStep, TypeCorrect, PTL DEF Spec

-----------------------------------------------------------------------------
\* Refinement: each step of the dispatcher is a step of TriggerService or leaves
\* what is owed and what runs unchanged.

\* At the start nothing is owed and nothing runs.
LEMMA RefinesInit == Init => TS!TSInit
BY NoAddrAssumption DEF Init, TS!TSInit, Owed, InQueue, Requeueing, Running, Idle

\* Every step of the dispatcher is a trigger, a start or an end of a forward, or
\* moves what is owed from one place to another.
LEMMA RefinesStep == IInv /\ [Next]_vars => [TS!TSNext]_(TS!tsvars)
<1> SUFFICES ASSUME IInv, [Next]_vars PROVE TS!TSNext \/ (Owed' = Owed /\ Running' = Running)
  BY DEF TS!tsvars
<1> USE NoAddrAssumption DEF IInv, TypeOK, TaskState
<1>a. Owed \subseteq Addrs /\ Owed' \subseteq Addrs
  BY DEF Owed
<1>b. Running \subseteq Addrs
  BY DEF Running
<1>1. ASSUME NEW a \in Addrs, Trigger(a) PROVE TS!Trigger(a)
  <2>1. Running' = Running
    BY <1>1 DEF Trigger, Running
  <2>2. \A b : InQueue(b)' <=> InQueue(b) \/ b = a
    BY <1>1 DEF Trigger, InQueue
  <2>3. Owed' = Owed \cup {a}
    BY <1>1, <2>2 DEF Trigger, Owed, Requeueing
  <2> QED
    BY <2>1, <2>3 DEF TS!Trigger
<1>2. CASE Recv
  <2> DEFINE a == Head(queue)
  <2>0. /\ Len(queue) \in Nat \ {0}
        /\ a = queue[1] /\ a \in Addrs
        /\ Len(queue') = Len(queue) - 1
        /\ \A i \in 1..Len(queue') : queue'[i] = queue[i + 1]
        /\ DOMAIN queue = 1..Len(queue) /\ DOMAIN queue' = 1..Len(queue')
    BY <1>2 DEF Recv
  <2>1. \A b \in Addrs : InQueue(b) <=> InQueue(b)' \/ b = a
    <3> TAKE b \in Addrs
    <3>1. ASSUME InQueue(b), b # a PROVE InQueue(b)'
      <4>1. PICK i \in DOMAIN queue : queue[i] = b
        BY <3>1 DEF InQueue
      <4>2. i - 1 \in 1..Len(queue') /\ queue'[i - 1] = b
        BY <4>1, <3>1, <2>0
      <4> QED
        BY <4>2, <2>0 DEF InQueue
    <3>2. ASSUME InQueue(b)' PROVE InQueue(b)
      <4>1. PICK i \in DOMAIN queue' : queue'[i] = b
        BY <3>2 DEF InQueue
      <4>2. i + 1 \in DOMAIN queue /\ queue[i + 1] = b
        BY <4>1, <2>0
      <4> QED
        BY <4>2 DEF InQueue
    <3>3. InQueue(a)
      BY <2>0 DEF InQueue
    <3> QED
      BY <3>1, <3>2, <3>3
  <2>2. Running' = Running
    BY <1>2 DEF Recv, Running
  <2>3. Owed' = Owed
    BY <1>2, <2>0, <2>1 DEF Recv, Owed, Requeueing
  <2> QED
    BY <2>2, <2>3
<1>3. ASSUME NEW t \in Tasks, Spawn(t) PROVE \E a \in Addrs : TS!Start(a)
  <2>1. held \in Addrs /\ held \in Owed /\ held \notin Running
    BY <1>3 DEF Spawn, Owed, HeldClean
  <2>2. Running' = Running \cup {held}
    BY <1>3 DEF Spawn, Running
  <2>3. \A b \in Addrs \ {held} : b \in Owed' <=> b \in Owed
    BY <1>3 DEF Spawn, Owed, Requeueing, InQueue
  <2>4. Owed' \in {Owed, Owed \ {held}}
    <3>1. CASE held \in Owed'
      <4>0. \A b \in Addrs : b \in Owed' <=> b \in Owed
        BY <3>1, <2>1, <2>3
      <4>1. Owed' = Owed
        BY <4>0, <1>a
      <4> QED
        BY <4>1
    <3>2. CASE held \notin Owed'
      <4>1. Owed' = Owed \ {held}
        BY <3>2, <1>a, <2>1, <2>3
      <4> QED
        BY <4>1
    <3> QED
      BY <3>1, <3>2
  <2> QED
    BY <2>1, <2>2, <2>4 DEF TS!Start
<1>4. ASSUME NEW t \in Tasks, Finish(t) PROVE \E a \in Addrs : TS!Finish(a)
  <2> DEFINE a == task[t].addr
  <2>1. a \in Addrs /\ a \in Running
    BY <1>4 DEF Finish, Running
  <2>2. Running' = Running \ {a}
    <3>1. /\ task'[t].pc = "release"
          /\ \A u \in Tasks \ {t} : task'[u] = task[u]
          /\ \A u \in Tasks \ {t} : task[u].pc = "forward" => task[u].addr # a
      BY <1>4 DEF Finish, AtMostOneForward
    <3>2. \A b : b \in Running' <=> b \in Running /\ b # a
      BY <3>1, <1>4 DEF Finish, Running
    <3> QED
      BY <3>2
  <2>3. Owed' = Owed
    BY <1>4, ZenonT(60) DEF Finish, Owed, Requeueing, InQueue
  <2> QED
    BY <2>1, <2>2, <2>3 DEF TS!Finish
<1>5. ASSUME NEW t \in Tasks, Release(t) PROVE Owed' = Owed /\ Running' = Running
  BY <1>5 DEF Release, Owed, Requeueing, InQueue, Running, Idle
<1>6. ASSUME NEW t \in Tasks, Send(t) PROVE Owed' = Owed /\ Running' = Running
  <2>1. /\ task'[t] = Idle /\ task[t].pc = "send" /\ task[t].addr \in Addrs
        /\ \A u \in Tasks \ {t} : task'[u] = task[u]
    BY <1>6 DEF Send
  <2>2. Running' = Running
    BY <2>1 DEF Running, Idle
  <2>3. \A b : InQueue(b)' <=> InQueue(b) \/ b = task[t].addr
    <3>1. queue' = Append(queue, task[t].addr) /\ queue \in Seq(Addrs)
      BY <1>6 DEF Send
    <3>2. DOMAIN queue' = 1..(Len(queue) + 1) /\ DOMAIN queue = 1..Len(queue)
      BY <3>1, <2>1
    <3>3. /\ queue'[Len(queue) + 1] = task[t].addr
          /\ \A i \in 1..Len(queue) : queue'[i] = queue[i]
      BY <3>1, <2>1
    <3> QED
      BY <3>1, <3>2, <3>3 DEF InQueue
  <2>4. task[t].requeue /\ Requeueing' = Requeueing \ {t} /\ t \in Requeueing
    BY <2>1 DEF Requeueing, Idle
  <2>5. Owed' = Owed
    BY <1>6, <2>1, <2>3, <2>4 DEF Send, Owed
  <2> QED
    BY <2>2, <2>5
<1>7. ASSUME UNCHANGED vars PROVE Owed' = Owed /\ Running' = Running
  BY <1>7 DEF vars, Owed, Requeueing, InQueue, Running
<1> QED
  BY <1>1, <1>2, <1>3, <1>4, <1>5, <1>6, <1>7 DEF Next, TS!TSNext

\* run_dispatcher implements TriggerService: no trigger is lost between the
\* channel, the dirty flag and the re-enqueue, for any capacity and concurrency.
THEOREM RefinesTriggerService == Spec => ImplementsTriggerService
BY RefinesInit, RefinesStep, Invariant, PTL DEF Spec, ImplementsTriggerService, TS!TSSpec

-----------------------------------------------------------------------------
\* The dispatcher waits for a permit only while some task has one.
LEMMA PermitsSomewhere ==
    ASSUME TypeOK, PermitsConserved
    PROVE  permits > 0 \/ \E t \in Tasks : task[t].pc \in {"forward", "release"}
<1>1. Holders = {} => Cardinality(Holders) = 0
  BY FS_EmptySet
<1>2. Holders = {} => permits > 0
  BY <1>1, ConcurrencyAssumption DEF PermitsConserved, TypeOK
<1> QED
  BY <1>2 DEF Holders

\* The dispatcher, the tasks that hold permits and the tasks that wait for room in the
\* channel never all wait for each other, for any capacity and concurrency: a permit is
\* dropped before its task may have to wait, so whoever holds one can go on.
THEOREM NobodyWaitsForAll == Spec => []NoWaitCycle
<1>1. ASSUME IInv, PermitsConserved PROVE NoWaitCycle
  <2> SUFFICES ASSUME NEW a \in Owed \cup Running,
                      ~ \E t \in Tasks : task[t].pc \in {"forward", "release"}
               PROVE  \/ held = NoAddr /\ queue # <<>>
                      \/ held # NoAddr /\ permits > 0
                      \/ \E t \in Tasks : task[t].pc = "send" /\ Len(queue) < QueueCapacity
    BY DEF NoWaitCycle
  <2>1. permits > 0
    BY <1>1, PermitsSomewhere DEF IInv
  <2>2. a \notin Running /\ inFlight[a] # "dirty"
    <3>1. a \notin Running
      BY RunningIff
    <3>2. a \in Addrs
      BY <3>1 DEF Owed
    <3> QED
      BY <1>1, <3>1, <3>2, NoAddrAssumption DEF IInv, InFlightOwned, HeldClean
  <2>3. CASE InQueue(a)
    <3>1. queue # <<>>
      BY <2>3 DEF InQueue
    <3> QED
      BY <2>1, <3>1
  <2>4. CASE held = a
    BY <1>1, <2>1, <2>2, <2>4, NoAddrAssumption DEF Owed
  <2>5. CASE \E t \in Requeueing : task[t].addr = a
    <3>1. PICK t \in Tasks : task[t].pc = "send"
      BY <2>5 DEF Requeueing
    <3>2. queue = <<>> => Len(queue) < QueueCapacity
      BY CapacityAssumption
    <3> QED
      BY <2>1, <3>1, <3>2
  <2> QED
    BY <2>2, <2>3, <2>4, <2>5 DEF Owed
<1> QED
  BY <1>1, Invariant, PermitsNeverLeak, PTL
=============================================================================
