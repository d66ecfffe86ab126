---------------------------- MODULE StoreMirror ----------------------------
(***************************************************************************)
(* RelayerState's maps retry_state and last_activity and their copies in   *)
(* the RetryStore (src/relayer.rs), one lock at a time.  Module Relayer    *)
(* takes a map and its copy for one: here every operation is the two       *)
(* critical sections it is in the code, and the maintenance tick retires   *)
(* and prunes addresses between the two sections of a forward.             *)
(*                                                                         *)
(* When a retirement is due, and what a forward finds, is left open; both  *)
(* are in Relayer.  The dispatcher runs one forward per address at a time. *)
(***************************************************************************)
EXTENDS Integers

CONSTANTS
    Addrs,       \* forwarding addresses
    MaxValue,    \* bound: failure counts and timestamps that are told apart
    MaxCrashes,  \* bound: crashes of the relayer
    NoAddr       \* no address

ASSUME ValueAssumption == MaxValue \in Nat \ {0} /\ MaxCrashes \in Nat
ASSUME NoAddrAssumption == NoAddr \notin Addrs

Tables == {"retry", "activity"}
Absent == 0
Values == 0..MaxValue

VARIABLES
    registered,  \* addresses with a row at the backend
    live,        \* RelayerState.live
    mem,         \* retry_state and last_activity
    db,          \* tables retry_state and address_activity of the store
    worker,      \* where forward_address is, for each address
    tick,        \* where maintenance_tick is, with its locals
    crashes,     \* crashes so far
    cut          \* history: rows removed by the tick under a memory entry

vars == <<registered, live, mem, db, worker, tick, crashes, cut>>

\* A forward: the operation on a table it is in the middle of, and where it goes
\* on after it.
At(pc) == [pc |-> pc, table |-> "retry", value |-> Absent, next |-> "idle"]
Idle == At("idle")
WorkerPc == {"idle", "query", "submit", "record", "put1", "put2", "clear1", "clear2"}
WorkerState == [pc : WorkerPc, table : Tables, value : Values, next : WorkerPc]

Sleeping == [pc |-> "idle", requests |-> {}, retire |-> {}, kept |-> {},
             addr |-> NoAddr, table |-> "retry"]
TickPc == {"idle", "decide", "next", "clear1", "clear2", "delete", "prune", "pruneDb",
           "swap"}

TypeOK ==
    /\ registered \subseteq Addrs
    /\ live \subseteq Addrs
    /\ mem \in [Tables -> [Addrs -> Values]]
    /\ db \in [Tables -> [Addrs -> Values]]
    /\ worker \in [Addrs -> WorkerState]
    /\ tick \in [pc : TickPc, requests : SUBSET Addrs, retire : SUBSET Addrs,
                 kept : SUBSET Addrs, addr : Addrs \cup {NoAddr}, table : Tables]
    /\ tick.pc \in {"clear1", "clear2", "delete"} => tick.addr \in Addrs
    /\ crashes \in 0..MaxCrashes
    /\ cut \subseteq Tables \X Addrs

Init ==
    /\ registered = {} /\ live = {}
    /\ mem = [t \in Tables |-> [a \in Addrs |-> Absent]]
    /\ db = mem
    /\ worker = [a \in Addrs |-> Idle]
    /\ tick = Sleeping
    /\ crashes = 0
    /\ cut = {}

-----------------------------------------------------------------------------
(* The two critical sections of an operation.                              *)

\* record_activity and note_failure write the store, then the map.
WriteOrder == <<"db", "mem">>

\* Bug variant: the store is cleared before the map.
MutClearOrder == <<"db", "mem">>

\* clear_retry_state and clear_activity empty the map, then the store.
ClearOrder == <<"mem", "db">>

\* One critical section: the copy gets the value for the address.
Set(copy, t, a, v) ==
    /\ mem' = IF copy = "mem" THEN [mem EXCEPT ![t][a] = v] ELSE mem
    /\ db' = IF copy = "db" THEN [db EXCEPT ![t][a] = v] ELSE db

\* Memory has an entry, or is about to get the one the store already has.
Remembered(t, a) ==
    mem[t][a] # Absent \/ (worker[a].pc = "put2" /\ worker[a].table = t)

-----------------------------------------------------------------------------
(* forward_address.                                                        *)

Goto(a, pc) == worker' = [worker EXCEPT ![a] = At(pc)]

Put(a, t, v, next) ==
    worker' = [worker EXCEPT ![a] = [pc |-> "put1", table |-> t, value |-> v,
                                     next |-> next]]

ForwardOnly == UNCHANGED <<registered, live, mem, db, tick, crashes, cut>>

\* A triggered address is live and its backoff, if it has one, is over.
Begin(a) ==
    /\ worker[a].pc = "idle"
    /\ a \in live
    /\ Goto(a, "query")
    /\ ForwardOnly

\* Bug variant: the count of failures has no cap.
MutFail(a) ==
    /\ worker[a].pc \in {"query", "submit"}
    /\ Put(a, "retry", mem["retry"][a] + 1, "idle")
    /\ ForwardOnly

\* The query or the submission failed: note_failure reads the map, then writes.
Fail(a) ==
    /\ worker[a].pc \in {"query", "submit"}
    /\ LET failures == mem["retry"][a] IN
         Put(a, "retry", IF failures < MaxValue THEN failures + 1 ELSE MaxValue, "idle")
    /\ ForwardOnly

\* record_activity at time now, after a balance was found or a forward succeeded.
Record(a) ==
    /\ worker[a].pc \in {"query", "record"}
    /\ \E now \in Values \ {Absent} :
         Put(a, "activity", now, IF worker[a].pc = "query" THEN "submit" ELSE "idle")
    /\ ForwardOnly

\* clear_retry_state, after an empty balance or a forward that succeeded.
Clear(a) ==
    /\ worker[a].pc \in {"query", "submit"}
    /\ worker' = [worker EXCEPT ![a] =
                    [pc |-> "clear1", table |-> "retry", value |-> Absent,
                     next |-> IF worker[a].pc = "query" THEN "idle" ELSE "record"]]
    /\ ForwardOnly

\* Bug variant: the store's copy is not written.
MutPut1(a) ==
    /\ worker[a].pc = "put1"
    /\ worker' = [worker EXCEPT ![a].pc = "put2"]
    /\ cut' = cut \ {<<worker[a].table, a>>}
    /\ UNCHANGED <<registered, live, mem, db, tick, crashes>>

Put1(a) ==
    /\ worker[a].pc = "put1"
    /\ Set(WriteOrder[1], worker[a].table, a, worker[a].value)
    /\ worker' = [worker EXCEPT ![a].pc = "put2"]
    /\ cut' = cut \ {<<worker[a].table, a>>}
    /\ UNCHANGED <<registered, live, tick, crashes>>

Put2(a) ==
    /\ worker[a].pc = "put2"
    /\ Set(WriteOrder[2], worker[a].table, a, worker[a].value)
    /\ Goto(a, worker[a].next)
    /\ UNCHANGED <<registered, live, tick, crashes, cut>>

Clear1(a) ==
    /\ worker[a].pc = "clear1"
    /\ Set(ClearOrder[1], worker[a].table, a, Absent)
    /\ worker' = [worker EXCEPT ![a].pc = "clear2"]
    /\ UNCHANGED <<registered, live, tick, crashes, cut>>

Clear2(a) ==
    /\ worker[a].pc = "clear2"
    /\ Set(ClearOrder[2], worker[a].table, a, Absent)
    /\ Goto(a, worker[a].next)
    /\ UNCHANGED <<registered, live, tick, crashes, cut>>

Run(a) ==
    \/ Fail(a) \/ Record(a) \/ Clear(a) \/ Put1(a) \/ Put2(a) \/ Clear1(a) \/ Clear2(a)

-----------------------------------------------------------------------------
(* maintenance_tick.                                                       *)

TickOnly == UNCHANGED <<registered, live, mem, db, worker, crashes, cut>>

TickFetch ==
    /\ tick.pc = "idle"
    /\ tick' = [Sleeping EXCEPT !.pc = "decide", !.requests = registered]
    /\ TickOnly

\* Any of the fetched addresses may have expired.
TickDecide ==
    /\ tick.pc = "decide"
    /\ \E retired \in SUBSET tick.requests :
         tick' = [Sleeping EXCEPT !.pc = "next", !.retire = retired,
                                  !.kept = tick.requests \ retired]
    /\ TickOnly

\* The next address to retire, or on to pruning when there is none.
TickNext ==
    /\ tick.pc = "next"
    /\ \/ \E a \in tick.retire :
            tick' = [tick EXCEPT !.pc = "clear1", !.addr = a, !.retire = @ \ {a}]
       \/ /\ tick.retire = {}
          /\ tick' = [tick EXCEPT !.pc = "prune"]
    /\ TickOnly

TickClear1 ==
    /\ tick.pc = "clear1"
    /\ Set(ClearOrder[1], tick.table, tick.addr, Absent)
    /\ tick' = [tick EXCEPT !.pc = "clear2"]
    /\ UNCHANGED <<registered, live, worker, crashes, cut>>

\* Clear the retry state, then the activity; then the DELETE goes out.
TickClear2 ==
    /\ tick.pc = "clear2"
    /\ LET t == tick.table IN
         /\ Set(ClearOrder[2], t, tick.addr, Absent)
         /\ tick' = [tick EXCEPT !.pc = IF t = "retry" THEN "clear1" ELSE "delete",
                                 !.table = IF t = "retry" THEN "activity" ELSE "retry"]
         /\ cut' = IF Remembered(t, tick.addr) THEN cut \cup {<<t, tick.addr>>} ELSE cut
    /\ UNCHANGED <<registered, live, worker, crashes>>

\* The backend deletes the row, or the call fails.
TickDelete ==
    /\ tick.pc = "delete"
    /\ registered' \in {registered, registered \ {tick.addr}}
    /\ tick' = [tick EXCEPT !.pc = "next", !.addr = NoAddr]
    /\ UNCHANGED <<live, mem, db, worker, crashes, cut>>

\* A map without the addresses that are not kept.
Retained(table) == [a \in Addrs |-> IF a \in tick.kept THEN table[a] ELSE Absent]

\* retain on one map, then on the other.
TickPrune ==
    /\ tick.pc = "prune"
    /\ LET t == tick.table IN
         /\ mem' = [mem EXCEPT ![t] = Retained(mem[t])]
         /\ tick' = IF t = "retry" THEN [tick EXCEPT !.table = "activity"]
                    ELSE [tick EXCEPT !.pc = "pruneDb", !.table = "retry"]
    /\ UNCHANGED <<registered, live, db, worker, crashes, cut>>

\* Bug variant: RetryStore::retain stops after its first table.
MutTickPruneDb ==
    /\ tick.pc = "pruneDb"
    /\ db' = [db EXCEPT !["retry"] = Retained(db["retry"])]
    /\ cut' = cut \cup {e \in Tables \X (Addrs \ tick.kept) : Remembered(e[1], e[2])}
    /\ tick' = [tick EXCEPT !.pc = "swap"]
    /\ UNCHANGED <<registered, live, mem, worker, crashes>>

\* RetryStore::retain on both tables, under one lock.
TickPruneDb ==
    /\ tick.pc = "pruneDb"
    /\ db' = [t \in Tables |-> Retained(db[t])]
    /\ cut' = cut \cup {e \in Tables \X (Addrs \ tick.kept) : Remembered(e[1], e[2])}
    /\ tick' = [tick EXCEPT !.pc = "swap"]
    /\ UNCHANGED <<registered, live, mem, worker, crashes>>

TickSwap ==
    /\ tick.pc = "swap"
    /\ live' = tick.kept
    /\ tick' = Sleeping
    /\ UNCHANGED <<registered, mem, db, worker, crashes, cut>>

Tick ==
    \/ TickFetch \/ TickDecide \/ TickNext \/ TickClear1 \/ TickClear2 \/ TickDelete
    \/ TickPrune \/ TickPruneDb \/ TickSwap

-----------------------------------------------------------------------------
Register(a) ==
    /\ registered' = registered \cup {a}
    /\ UNCHANGED <<live, mem, db, worker, tick, crashes, cut>>

\* The process dies and is started again: the maps are read from the store.
Restart ==
    /\ crashes < MaxCrashes
    /\ crashes' = crashes + 1
    /\ live' = {}
    /\ mem' = db
    /\ worker' = [a \in Addrs |-> Idle]
    /\ tick' = Sleeping
    /\ cut' = {}
    /\ UNCHANGED <<registered, db>>

Next ==
    \/ \E a \in Addrs : Register(a) \/ Begin(a) \/ Run(a)
    \/ Tick \/ Restart

Spec == Init /\ [][Next]_vars

\* Every await of a forward and of the tick ends, and the backend answers
\* infinitely many fetches.
FairSpec == Spec /\ WF_vars(Tick) /\ \A a \in Addrs : WF_vars(Run(a))

-----------------------------------------------------------------------------
(* Properties.                                                             *)

\* The forward is between the two sections of an operation on the table.
ForwardBusy(t, a) == worker[a].pc \in {"put2", "clear2"} /\ worker[a].table = t

\* The tick is: it cleared the address's map entry, or pruned the maps, and comes
\* to the store next.
TickBusy(t, a) ==
    \/ tick.pc = "clear2" /\ tick.table = t /\ tick.addr = a
    \/ a \notin tick.kept /\ \/ tick.pc = "prune" /\ tick.table = "activity" /\ t = "retry"
                             \/ tick.pc = "pruneDb"

AtRest(t, a) == ~ ForwardBusy(t, a) /\ ~ TickBusy(t, a)

\* The store never knows more than memory: outside the two sections of an operation
\* a row has the very value of the map's entry, whatever a retirement and a forward
\* do to the address at once, so that a restart brings back no backoff and no
\* activity that was cleared, and none that is outdated.
NoGhostRows ==
    \A t \in Tables, a \in Addrs :
        AtRest(t, a) /\ db[t][a] # Absent => mem[t][a] = db[t][a]

\* "Mirrored to `store` so it survives restarts": the one way for an entry of memory
\* to have no row is that the tick cleared or pruned the address while a forward of
\* it was recording; no forward, failure or restart alone loses a row.
LostOnlyByRetirement ==
    \A t \in Tables, a \in Addrs :
        AtRest(t, a) /\ mem[t][a] # Absent => db[t][a] = mem[t][a] \/ <<t, a>> \in cut

\* What a forward records of an address while it is being retired does not stay
\* behind: unless it is registered again, map and store forget it.
LeftoversPruned ==
    \A t \in Tables, a \in Addrs :
        a \notin registered ~> (a \in registered \/ (mem[t][a] = Absent /\ db[t][a] = Absent))
=============================================================================
