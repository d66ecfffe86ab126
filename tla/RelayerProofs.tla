--------------------------- MODULE RelayerProofs ---------------------------
(***************************************************************************)
(* Proofs about Relayer, for every set of addresses, backoff schedule,     *)
(* retention limits and number of crashes.                                 *)
(***************************************************************************)
EXTENDS Relayer, TLAPS

\* The sorts of the state, all that the argument below needs of TypeOK.
Sorts ==
    /\ live \subseteq Addrs
    /\ retry \in [Addrs -> [failures : Nat, wait : Int]]
    /\ retryDb \in [Addrs -> [failures : Nat, wait : Int]]
    /\ registry \in [Addrs -> Int]
    /\ worker \in [Addrs -> WorkerPc]
    /\ tick \in [pc : {"idle", "decide", "retire", "delete", "swap", "probe", "due"},
                 lag : Int, requests : [Addrs -> Int], retire : SUBSET Addrs,
                 deleting : SUBSET Addrs, kept : SUBSET Addrs, added : SUBSET Addrs,
                 due : SUBSET Addrs]
    /\ mode \in Modes

\* What the locals of maintenance_tick hold from step to step: the probes it owes
\* are the addresses its swap will add, and what it retires it does not keep.
TickShape ==
    /\ tick.pc \in {"idle", "decide", "due"} => tick.added = {}
    /\ tick.pc # "due" => tick.due = {}
    /\ tick.pc \in {"retire", "delete", "swap"} =>
         /\ tick.added = tick.kept \ live
         /\ tick.retire \cap tick.kept = {}

\* A trigger for the address is on its way, independently of its present run.
Pending(a) == a \in unscanned \cup scan \cup owed \cup tick.added \cup tick.due

\* The strengthening of NoStrandedDeposit: a run that is about to erase the
\* backoff, because it saw an empty balance or its forward landed, leaves funds
\* that came in meanwhile to a trigger that is on its way.
Guarded ==
    ~ StaleReads /\ ~ ScannerSkips => \A a \in live \cap funds :
        \/ Leaving(a)
        \/ Pending(a)
        \/ worker[a] \in {"begin", "query", "funded", "fee", "submit", "sent"}
        \/ worker[a] = "idle" /\ retry[a].failures > 0

IInv == Sorts /\ TickShape /\ Guarded

-----------------------------------------------------------------------------
\* The backoff schedule has an entry for every capped number of failures.
LEMMA ScheduleFacts ==
    /\ Len(Schedule) \in Nat \ {0}
    /\ \A i \in 1..Len(Schedule) : Schedule[i] \in Nat
BY ScheduleAssumption

\* Nothing is live at the start.
LEMMA InitIInv == Init => IInv
BY DEF Init, IInv, Sorts, TickShape, Guarded, NoRetry, Sleeping, WorkerPc, None

\* A failed attempt leaves a backoff entry.
LEMMA NoteFailure ==
    ASSUME Sorts, NEW a \in Addrs, note_failure(a)
    PROVE  /\ retry' \in [Addrs -> [failures : Nat, wait : Int]]
           /\ retryDb' \in [Addrs -> [failures : Nat, wait : Int]]
           /\ retry'[a].failures > 0
           /\ \A b \in Addrs \ {a} : retry'[b] = retry[b]
<1> DEFINE failures == IF retry[a].failures < Len(Schedule)
                       THEN retry[a].failures + 1 ELSE Len(Schedule)
           entry == [failures |-> failures, wait |-> retry_delay(failures)]
<1>1. failures \in 1..Len(Schedule)
  BY ScheduleFacts DEF Sorts
<1>2. retry_delay(failures) \in Int
  BY <1>1, ScheduleFacts DEF retry_delay
<1>3. entry \in [failures : Nat, wait : Int] /\ entry.failures > 0
  BY <1>1, <1>2, ScheduleFacts
<1>4. /\ retry' = [retry EXCEPT ![a] = entry]
      /\ retryDb' \in {retryDb, [retryDb EXCEPT ![a] = entry]}
  BY DEF note_failure, Persist
<1> HIDE DEF entry
<1> QED
  BY <1>3, <1>4 DEF Sorts

\* Clearing one address's backoff leaves the others alone.
LEMMA ClearRetry ==
    ASSUME Sorts, NEW a \in Addrs, clear_retry_state(a)
    PROVE  /\ retry' \in [Addrs -> [failures : Nat, wait : Int]]
           /\ retryDb' \in [Addrs -> [failures : Nat, wait : Int]]
           /\ \A b \in Addrs \ {a} : retry'[b] = retry[b]
BY DEF clear_retry_state, Persist, NoRetry, Sorts

-----------------------------------------------------------------------------
\* Every step keeps the invariant.
LEMMA IInvStep ==
    ASSUME IInv, [Next]_vars
    PROVE  IInv'
<1> USE DEF IInv, Sorts, TickShape, Guarded, Pending, Leaving, WorkerPc,
            env, backend, state, tasks, StaleReads, ScannerSkips, None
<1>1. ASSUME NEW a \in Addrs, Register(a) \/ LateDelete(a) PROVE IInv'
  BY <1>1 DEF Register, LateDelete, create_request, remove_by_addr
<1>2. ASSUME NEW a \in Addrs, Deposit(a) PROVE IInv'
  BY <1>2 DEF Deposit
<1>3. ASSUME NEW a \in Addrs, Land(a) PROVE IInv'
  BY <1>3 DEF Land
<1>4. ASSUME Advance PROVE IInv'
  <2>1. \A b \in Addrs : /\ retry'[b].failures = retry[b].failures
                         /\ retry'[b] \in [failures : Nat, wait : Int]
                         /\ retryDb'[b] \in [failures : Nat, wait : Int]
    BY <1>4, LimitAssumption DEF Advance
  <2>2. /\ retry' \in [Addrs -> [failures : Nat, wait : Int]]
        /\ retryDb' \in [Addrs -> [failures : Nat, wait : Int]]
    BY <1>4, <2>1 DEF Advance
  <2>3. /\ registry' \in [Addrs -> Int] /\ tick'.lag \in Int
        /\ tick'.requests \in [Addrs -> Int]
        /\ tick' = [tick EXCEPT !.lag = tick'.lag, !.requests = tick'.requests]
    <3>1. AgeLimit \in Int \cup {Forever}
      BY LimitAssumption DEF AgeLimit
    <3>2. \A age \in Int : Older(age, AgeLimit) \in Int
      BY <3>1 DEF Older
    <3>3. registry' \in [Addrs -> Int]
      BY <1>4, <3>2 DEF Advance
    <3>4. CASE tick.pc = "idle"
      BY <1>4, <3>3, <3>4 DEF Advance
    <3>5. CASE tick.pc # "idle"
      <4>1. tick' = [tick EXCEPT !.lag = tick.lag + 1,
                                 !.requests = [b \in Addrs |-> Older(tick.requests[b], AgeLimit)]]
        BY <1>4, <3>5 DEF Advance
      <4>2. [b \in Addrs |-> Older(tick.requests[b], AgeLimit)] \in [Addrs -> Int]
        BY <3>2
      <4> QED
        BY <3>3, <4>1, <4>2
    <3> QED
      BY <3>4, <3>5
  <2>4. UNCHANGED <<funds, unscanned, live, owed, worker, scan, mode>>
    BY <1>4 DEF Advance
  <2>5. Sorts'
    BY <2>2, <2>3, <2>4
  <2>6. TickShape'
    BY <2>3, <2>4
  <2>7. Guarded'
    <3>1. \A f \in {"pc", "kept", "added", "due"} : tick'[f] = tick[f]
      BY <2>3
    <3>2. Guarded' <=> Guarded
      BY <2>1, <2>4, <3>1
    <3> QED
      BY <3>2
  <2> QED
    BY <2>5, <2>6, <2>7
<1>5. ASSUME NEW a \in Addrs, ScanMatch(a) PROVE IInv'
  BY <1>5 DEF ScanMatch
<1>6. ASSUME NEW a \in Addrs, ScanSend(a) PROVE IInv'
  BY <1>6 DEF ScanSend
<1>7. ASSUME NEW a \in Addrs, ScanSkip(a) PROVE IInv'
  BY <1>7 DEF ScanSkip
<1>8. ASSUME Poll PROVE IInv'
  BY <1>8 DEF Poll, PollSnapshot, PollSend
<1>9. ASSUME NEW a \in Addrs, Start(a) PROVE IInv'
  BY <1>9 DEF Start
<1>10. ASSUME NEW a \in Addrs, Begin(a) PROVE IInv'
  BY <1>10 DEF Begin, Goto
<1>11. ASSUME NEW a \in Addrs, QueryAnswer(a) PROVE IInv'
  BY <1>11 DEF QueryAnswer, Goto
<1>12. ASSUME NEW a \in Addrs, Fail(a) PROVE IInv'
  BY <1>12, NoteFailure DEF Fail
<1>13. ASSUME NEW a \in Addrs, FoundEmpty(a) PROVE IInv'
  BY <1>13, ClearRetry DEF FoundEmpty
<1>14. ASSUME NEW a \in Addrs, FoundFunds(a) PROVE IInv'
  BY <1>14 DEF FoundFunds
<1>15. ASSUME NEW a \in Addrs, FeeResolved(a) PROVE IInv'
  BY <1>15 DEF FeeResolved, Goto
<1>16. ASSUME NEW a \in Addrs, Broadcast(a) PROVE IInv'
  BY <1>16 DEF Broadcast
<1>17. ASSUME NEW a \in Addrs, Submitted(a) PROVE IInv'
  BY <1>17, ClearRetry DEF Submitted
<1>18. ASSUME TickFetch PROVE IInv'
  <2>1. tick' = [pc |-> "decide", lag |-> 0, requests |-> registry, retire |-> {},
                 deleting |-> {}, kept |-> {}, added |-> {}, due |-> {}]
    BY <1>18 DEF TickFetch, Sleeping
  <2>2. /\ UNCHANGED <<funds, unscanned, registry, live, retry, retryDb, owed, worker, scan,
                       mode>>
        /\ tick.pc = "idle"
    BY <1>18 DEF TickFetch
  <2> QED
    BY <2>1, <2>2
<1>19. ASSUME TickDecide PROVE IInv'
  <2>1. PICK R \in SUBSET Fetched, p \in {"swap", "retire"} :
          tick' = [pc |-> p, lag |-> 0, requests |-> [b \in Addrs |-> -1], retire |-> R,
                   deleting |-> {}, kept |-> Fetched \ R, added |-> (Fetched \ R) \ live,
                   due |-> {}]
    <3> DEFINE R == {b \in Fetched : retirement_reason(b)}
    <3>1. R \in SUBSET Fetched
      OBVIOUS
    <3>2. tick' = [Sleeping EXCEPT !.pc = IF R = {} THEN "swap" ELSE "retire",
                                   !.retire = R, !.kept = Fetched \ R,
                                   !.added = (Fetched \ R) \ live]
      BY <1>19 DEF TickDecide
    <3> HIDE DEF R
    <3> QED
      BY <3>1, <3>2 DEF Sleeping
  <2>2. /\ UNCHANGED <<funds, unscanned, registry, live, retry, retryDb, owed, worker, scan,
                       mode>>
        /\ tick.pc = "decide" /\ Fetched \subseteq Addrs
    BY <1>19 DEF TickDecide, TickOnly, Fetched
  <2>3. Sorts' /\ TickShape'
    BY <2>1, <2>2
  <2>4. Guarded'
    BY <2>1, <2>2
  <2> QED
    BY <2>3, <2>4
<1>20. ASSUME NEW a \in Addrs, TickRetire(a) PROVE IInv'
  <2>1. /\ retry' \in [Addrs -> [failures : Nat, wait : Int]]
        /\ retryDb' \in [Addrs -> [failures : Nat, wait : Int]]
        /\ \A b \in Addrs \ {a} : retry'[b] = retry[b]
    BY <1>20, ClearRetry DEF TickRetire
  <2>2. /\ tick' = [tick EXCEPT !.pc = "delete", !.retire = tick.retire \ {a},
                                !.deleting = {a}]
        /\ tick.pc = "retire" /\ a \in tick.retire /\ a \notin tick.kept
        /\ UNCHANGED <<funds, unscanned, registry, live, owed, worker, scan, mode>>
    BY <1>20 DEF TickRetire
  <2>3. Sorts' /\ TickShape'
    BY <2>1, <2>2
  <2>4. Guarded'
    BY <2>1, <2>2
  <2> QED
    BY <2>3, <2>4
<1>21. ASSUME NEW a \in Addrs, TickDelete(a) PROVE IInv'
  <2>1. registry' \in [Addrs -> Int]
    BY <1>21 DEF TickDelete, remove_by_addr
  <2>2. /\ tick' = [tick EXCEPT !.pc = tick'.pc, !.deleting = {}]
        /\ tick.pc = "delete" /\ tick'.pc \in {"swap", "retire"}
        /\ UNCHANGED <<funds, unscanned, live, retry, retryDb, owed, worker, scan, mode>>
    BY <1>21 DEF TickDelete
  <2>3. Sorts' /\ TickShape'
    BY <2>1, <2>2
  <2>4. Guarded'
    BY <2>2
  <2> QED
    BY <2>3, <2>4
<1>22. ASSUME TickSwap PROVE IInv'
  <2>1. /\ retry' \in [Addrs -> [failures : Nat, wait : Int]]
        /\ \A b \in tick.kept : retry'[b] = retry[b]
    BY <1>22 DEF TickSwap, NoRetry
  <2>2. retryDb' \in [Addrs -> [failures : Nat, wait : Int]]
    BY <1>22 DEF TickSwap, retain, NoRetry
  <2>3. /\ tick.pc = "swap" /\ live' = tick.kept
        /\ tick' = [tick EXCEPT !.pc = "probe", !.kept = {}]
        /\ UNCHANGED <<funds, unscanned, registry, owed, worker, scan, mode>>
    BY <1>22 DEF TickSwap
  <2>4. Sorts' /\ TickShape'
    BY <2>1, <2>2, <2>3
  <2>5. Guarded'
    <3> SUFFICES ASSUME ~ StaleReads, ~ ScannerSkips, NEW b \in tick.kept \cap funds
                 PROVE  \/ Pending(b)'
                        \/ worker[b] \in {"begin", "query", "funded", "fee",
                                          "submit", "sent"}
                        \/ worker[b] = "idle" /\ retry'[b].failures > 0
      BY <2>3
    <3>1. CASE b \in live
      BY <3>1, <2>1, <2>3
    <3>2. CASE b \notin live
      BY <3>2, <2>3
    <3> QED
      BY <3>1, <3>2
  <2> QED
    BY <2>4, <2>5
<1>23. ASSUME NEW a \in Addrs, TickProbe(a) PROVE IInv'
  BY <1>23 DEF TickProbe
<1>24. ASSUME TickCollectDue PROVE IInv'
  BY <1>24 DEF TickCollectDue, TickOnly
<1>25. ASSUME NEW a \in Addrs, TickDue(a) PROVE IInv'
  BY <1>25 DEF TickDue
<1>26. ASSUME TickSleep PROVE IInv'
  BY <1>26 DEF TickSleep, TickOnly, Sleeping
<1>27. ASSUME Restart PROVE IInv'
  BY <1>27 DEF Restart, Sleeping, load, Persist, NoRetry
<1>28. ASSUME UNCHANGED vars PROVE IInv'
  BY <1>28 DEF vars
<1> QED
  BY <1>1, <1>2, <1>3, <1>4, <1>5, <1>6, <1>7, <1>8, <1>9, <1>10, <1>11, <1>12,
     <1>13, <1>14, <1>15, <1>16, <1>17, <1>18, <1>19, <1>20, <1>21, <1>22, <1>23,
     <1>24, <1>25, <1>26, <1>27, <1>28 DEF Next, Run, Tick, Scan

\* forward_address, the tick, the scanner and the restart never leave a live
\* address with funds unattended: for any number of addresses and crashes, any
\* schedule and limits, with store writes that fail, as long as balance reads are
\* fresh and the scanner skips no height.
THEOREM DepositsNeverStranded ==
    Spec => []NoStrandedDeposit
<1>1. IInv /\ [Next]_vars => IInv'
  BY IInvStep
<1>2. IInv => NoStrandedDeposit
  BY DEF IInv, Guarded, Pending, NoStrandedDeposit, Covered
<1> QED
  BY InitIInv, <1>1, <1>2, PTL DEF Spec

-----------------------------------------------------------------------------
\* Ages are None or counted up to one past the limit, whether the limit applies or
\* is switched off.
LEMMA OlderAges ==
    ASSUME NEW limit \in Nat \cup {Forever}, NEW now \in {limit, Forever},
           NEW age \in {None} \cup Ages(limit)
    PROVE  /\ Older(age, now) \in {None} \cup Ages(limit)
           /\ Older(age, now) = None <=> age = None
<1>1. CASE limit = Forever \/ now = Forever
  BY <1>1 DEF Older
<1>2. CASE limit \in Nat /\ now = limit
  BY <1>2, LimitAssumption DEF Older, Ages, None
<1> QED
  BY <1>1, <1>2

\* A new age is an age.
LEMMA FreshAge ==
    \A limit \in Nat \cup {Forever} : 0 \in Ages(limit) /\ 0 # None
BY LimitAssumption DEF Ages, None

\* The limits in force are the configured ones or none.
LEMMA LimitsInForce ==
    AgeLimit \in {MaxAge, Forever} /\ InactivityLimit \in {MaxInactivity, Forever}
BY DEF AgeLimit, InactivityLimit

\* The table of the backoffs, or of the ages, after a write that may fail.
LEMMA Written ==
    ASSUME NEW S, NEW db \in [Addrs -> S], NEW a \in Addrs, NEW v \in S,
           NEW new \in Persist(db, [db EXCEPT ![a] = v])
    PROVE  new \in [Addrs -> S]
BY DEF Persist

Entries == [Addrs -> [failures : Failures, wait : Int]]
Activities == [Addrs -> {None} \cup Ages(MaxInactivity)]

\* What every address starts with.
LEMMA NoEntries ==
    /\ NoRetry \in [failures : Failures, wait : Int]
    /\ [a \in Addrs |-> NoRetry] \in Entries
    /\ [a \in Addrs |-> None] \in Activities
<1>1. NoRetry \in [failures : Failures, wait : Int]
  BY ScheduleFacts DEF NoRetry, Failures
<1> QED
  BY <1>1 DEF Entries, Activities

\* The operations on the backoff and on the activity keep their types.
LEMMA EntriesTyped ==
    ASSUME TypeOK, NEW a \in Addrs
    PROVE  /\ note_failure(a) => retry' \in Entries /\ retryDb' \in Entries
           /\ clear_retry_state(a) => retry' \in Entries /\ retryDb' \in Entries
           /\ record_activity(a) => activity' \in Activities /\ activityDb' \in Activities
           /\ clear_activity(a) => activity' \in Activities /\ activityDb' \in Activities
<1>1. /\ retry \in Entries /\ retryDb \in Entries
      /\ activity \in Activities /\ activityDb \in Activities
  BY DEF TypeOK, Entries, Activities
<1>2. ASSUME note_failure(a) PROVE retry' \in Entries /\ retryDb' \in Entries
  <2> DEFINE failures == IF retry[a].failures < Len(Schedule)
                         THEN retry[a].failures + 1 ELSE Len(Schedule)
             entry == [failures |-> failures, wait |-> retry_delay(failures)]
  <2>1. failures \in Failures /\ failures \in 1..Len(Schedule)
    BY <1>1, ScheduleFacts DEF Entries, Failures
  <2>2. retry_delay(failures) \in Int
    BY <2>1, ScheduleFacts DEF retry_delay
  <2>3. entry \in [failures : Failures, wait : Int]
    BY <2>1, <2>2
  <2>4. /\ retry' = [retry EXCEPT ![a] = entry]
        /\ retryDb' \in Persist(retryDb, [retryDb EXCEPT ![a] = entry])
    BY <1>2 DEF note_failure
  <2> HIDE DEF entry
  <2> QED
    BY <1>1, <2>3, <2>4, Written DEF Entries
<1>3. ASSUME clear_retry_state(a) PROVE retry' \in Entries /\ retryDb' \in Entries
  BY <1>1, <1>3, NoEntries, Written DEF clear_retry_state, Entries
<1>4. 0 \in Ages(MaxInactivity)
  BY FreshAge, LimitAssumption
<1>5. ASSUME record_activity(a)
      PROVE  activity' \in Activities /\ activityDb' \in Activities
  BY <1>1, <1>4, <1>5, Written DEF record_activity, Activities
<1>6. ASSUME clear_activity(a)
      PROVE  activity' \in Activities /\ activityDb' \in Activities
  BY <1>1, <1>6, Written DEF clear_activity, Activities
<1> QED
  BY <1>2, <1>3, <1>5, <1>6

\* A write by whole tables, as it is read back or pruned.
LEMMA WholeTables ==
    ASSUME TypeOK
    PROVE  /\ load \subseteq Entries /\ load_activity \subseteq Activities
           /\ \A kept : retain(kept) => retryDb' \in Entries /\ activityDb' \in Activities
<1>1. retryDb \in Entries /\ activityDb \in Activities
  BY DEF TypeOK, Entries, Activities
<1>2. load \subseteq Entries /\ load_activity \subseteq Activities
  BY <1>1, NoEntries DEF load, load_activity, Persist
<1>3. ASSUME NEW kept, retain(kept)
      PROVE  retryDb' \in Entries /\ activityDb' \in Activities
  BY <1>1, <1>3, NoEntries DEF retain, Entries, Activities
<1> QED
  BY <1>2, <1>3

\* The tick's locals, as TypeOK has them.
Ticks == [pc : {"idle", "decide", "retire", "delete", "swap", "probe", "due"},
          lag : 0..MaxLag, requests : [Addrs -> {None} \cup Ages(MaxAge)],
          retire : SUBSET Addrs, deleting : SUBSET Addrs, kept : SUBSET Addrs,
          added : SUBSET Addrs, due : SUBSET Addrs]

\* Before anything has happened the state has its types.
LEMMA InitTypes == Init => TypeOK
<1> SUFFICES ASSUME Init PROVE TypeOK
  OBVIOUS
<1>1. Sleeping \in Ticks
  BY LimitAssumption DEF Sleeping, Ticks
<1> QED
  BY <1>1, NoEntries, LimitAssumption
  DEF Init, TypeOK, Entries, Activities, Ticks, WorkerPc

\* The steps of a run of forward_address keep the types.
LEMMA RunTypes ==
    ASSUME TypeOK, NEW a \in Addrs, Run(a)
    PROVE  TypeOK'
<1> USE DEF WorkerPc
<1>1. /\ UNCHANGED <<funds, unscanned, registry, overdue, overrun, live, owed, tick, poll,
                      scan, mode>>
      /\ tx' \subseteq Addrs
  BY DEF Run, Begin, QueryAnswer, Fail, FoundEmpty, FoundFunds, FeeResolved, Broadcast,
         Submitted, Goto, env, backend, state, TypeOK
<1>2. worker' \in [Addrs -> WorkerPc]
  BY DEF Run, Begin, QueryAnswer, Fail, FoundEmpty, FoundFunds, FeeResolved, Broadcast,
         Submitted, Goto, TypeOK
<1>3. retry' \in Entries /\ retryDb' \in Entries
  <2>1. note_failure(a) \/ clear_retry_state(a) \/ UNCHANGED <<retry, retryDb>>
    BY DEF Run, Begin, QueryAnswer, Fail, FoundEmpty, FoundFunds, FeeResolved, Broadcast,
           Submitted, Goto, state
  <2> QED
    BY <2>1, EntriesTyped DEF TypeOK, Entries
<1>4. activity' \in Activities /\ activityDb' \in Activities
  <2>1. record_activity(a) \/ UNCHANGED <<activity, activityDb>>
    BY DEF Run, Begin, QueryAnswer, Fail, FoundEmpty, FoundFunds, FeeResolved, Broadcast,
           Submitted, Goto, state
  <2> QED
    BY <2>1, EntriesTyped DEF TypeOK, Activities
<1> QED
  BY <1>1, <1>2, <1>3, <1>4 DEF TypeOK, Entries, Activities

\* The steps of the tick keep the types.
LEMMA TickTypes ==
    ASSUME TypeOK, Tick
    PROVE  TypeOK'
<1> USE DEF TypeOK, Ticks, Entries, Activities, env, backend, state
<1>1. Sleeping \in Ticks
  BY LimitAssumption DEF Sleeping
<1>2. ASSUME TickFetch PROVE TypeOK'
  <2>1. tick' \in Ticks
    BY <1>1, <1>2 DEF TickFetch
  <2> QED
    BY <1>2, <2>1 DEF TickFetch
<1>3. ASSUME TickDecide PROVE TypeOK'
  <2> DEFINE retired == {a \in Fetched : retirement_reason(a)}
  <2>1. retired \in SUBSET Addrs /\ Fetched \ retired \in SUBSET Addrs
    BY DEF Fetched
  <2>2. tick' = [Sleeping EXCEPT !.pc = IF retired = {} THEN "swap" ELSE "retire",
                                 !.retire = retired, !.kept = Fetched \ retired,
                                 !.added = (Fetched \ retired) \ live]
    BY <1>3 DEF TickDecide
  <2> HIDE DEF retired
  <2>3. tick' \in Ticks
    BY <1>1, <2>1, <2>2
  <2> QED
    BY <1>3, <2>3 DEF TickDecide, TickOnly
<1>4. ASSUME NEW a \in Addrs, TickRetire(a) PROVE TypeOK'
  <2>1. tick' \in Ticks
    BY <1>4 DEF TickRetire
  <2>2. /\ retry' \in Entries /\ retryDb' \in Entries
        /\ activity' \in Activities /\ activityDb' \in Activities
    BY <1>4, EntriesTyped DEF TickRetire
  <2> QED
    BY <1>4, <2>1, <2>2 DEF TickRetire
<1>5. ASSUME NEW a \in Addrs, TickDelete(a) PROVE TypeOK'
  <2>1. tick' \in Ticks
    BY <1>5 DEF TickDelete
  <2>2. registry' \in [Addrs -> {None} \cup Ages(MaxAge)] /\ overdue' \subseteq Addrs
    BY <1>5 DEF TickDelete, remove_by_addr, GiveUp
  <2> QED
    BY <1>5, <2>1, <2>2 DEF TickDelete
<1>6. ASSUME TickSwap PROVE TypeOK'
  <2>1. tick' \in Ticks /\ live' \subseteq Addrs
    BY <1>6 DEF TickSwap
  <2>2. retry' \in Entries /\ activity' \in Activities
    BY <1>6, NoEntries DEF TickSwap
  <2>3. retryDb' \in Entries /\ activityDb' \in Activities
    BY <1>6, WholeTables DEF TickSwap
  <2> QED
    BY <1>6, <2>1, <2>2, <2>3 DEF TickSwap
<1>7. ASSUME NEW a \in Addrs, TickProbe(a) \/ TickDue(a) PROVE TypeOK'
  <2>1. CASE TickProbe(a)
    BY <1>7, <2>1 DEF TickProbe
  <2>2. CASE TickDue(a)
    BY <1>7, <2>2 DEF TickDue
  <2> QED
    BY <1>7, <2>1, <2>2
<1>8. ASSUME TickCollectDue PROVE TypeOK'
  BY <1>8 DEF TickCollectDue, TickOnly
<1>9. ASSUME TickSleep PROVE TypeOK'
  BY <1>1, <1>9 DEF TickSleep, TickOnly
<1> QED
  BY <1>2, <1>3, <1>4, <1>5, <1>6, <1>7, <1>8, <1>9 DEF Tick

\* The clock keeps the types: ages and backoffs are counted as far as they matter.
LEMMA AdvanceTypes ==
    ASSUME TypeOK, Advance
    PROVE  /\ TypeOK'
           /\ \A a \in Addrs : registry'[a] = None <=> registry[a] = None
           /\ \A a \in Addrs : tick'.requests[a] = None <=> tick.requests[a] = None
<1> USE DEF TypeOK
<1> DEFINE Waited(r) == IF r.failures > 0 /\ r.wait > -MaxLag
                        THEN [r EXCEPT !.wait = @ - 1] ELSE r
<1>1. \A r \in [failures : Failures, wait : Int] : Waited(r) \in [failures : Failures, wait : Int]
  OBVIOUS
<1>2. retry' = [a \in Addrs |-> Waited(retry[a])] /\ retryDb' = [a \in Addrs |-> Waited(retryDb[a])]
  BY DEF Advance
<1> HIDE DEF Waited
<1>3. retry' \in Entries /\ retryDb' \in Entries
  BY <1>1, <1>2 DEF Entries
<1>4. activity' \in Activities /\ activityDb' \in Activities
  BY OlderAges, LimitsInForce, LimitAssumption DEF Advance, Activities
<1>5. /\ registry' \in [Addrs -> {None} \cup Ages(MaxAge)]
      /\ \A a \in Addrs : registry'[a] = None <=> registry[a] = None
  BY OlderAges, LimitsInForce, LimitAssumption DEF Advance
<1>6. tick' \in Ticks
  <2>1. CASE tick.pc = "idle"
    BY <2>1 DEF Advance, Ticks
  <2>2. CASE tick.pc # "idle"
    <3> DEFINE requests == [a \in Addrs |-> Older(tick.requests[a], AgeLimit)]
    <3>1. tick.lag + 1 \in 0..MaxLag
      BY <2>2, LimitAssumption DEF Advance
    <3>2. requests \in [Addrs -> {None} \cup Ages(MaxAge)]
      BY OlderAges, LimitsInForce, LimitAssumption
    <3>3. tick' = [tick EXCEPT !.lag = tick.lag + 1, !.requests = requests]
      BY <2>2 DEF Advance
    <3> HIDE DEF requests
    <3> QED
      BY <3>1, <3>2, <3>3 DEF Ticks
  <2> QED
    BY <2>1, <2>2
<1>7. \A a \in Addrs : tick'.requests[a] = None <=> tick.requests[a] = None
  <2>1. CASE tick.pc = "idle"
    BY <2>1 DEF Advance
  <2>2. CASE tick.pc # "idle"
    <3>1. tick'.requests = [a \in Addrs |-> Older(tick.requests[a], AgeLimit)]
      BY <2>2 DEF Advance
    <3> QED
      BY <3>1, OlderAges, LimitsInForce, LimitAssumption
  <2> QED
    BY <2>1, <2>2
<1> QED
  BY <1>3, <1>4, <1>5, <1>6, <1>7 DEF Advance, Entries, Activities, Ticks

\* Every step keeps the types.
LEMMA TypeStep ==
    ASSUME TypeOK, [Next]_vars
    PROVE  TypeOK'
<1> USE DEF env, backend, state, tasks
<1>1. ASSUME NEW a \in Addrs, Register(a) \/ LateDelete(a) PROVE TypeOK'
  <2>1. registry' \in [Addrs -> {None} \cup Ages(MaxAge)]
    <3>1. 0 \in Ages(MaxAge)
      BY FreshAge, LimitAssumption
    <3>2. CASE Register(a)
      BY <3>1, <3>2 DEF Register, create_request, TypeOK
    <3>3. CASE LateDelete(a)
      BY <3>3 DEF LateDelete, remove_by_addr, TypeOK
    <3> QED
      BY <1>1, <3>2, <3>3
  <2> QED
    BY <1>1, <2>1 DEF Register, LateDelete, TypeOK
<1>2. ASSUME NEW a \in Addrs, Deposit(a) PROVE TypeOK'
  BY <1>2 DEF Deposit, TypeOK
<1>3. ASSUME NEW a \in Addrs, Land(a) PROVE TypeOK'
  BY <1>3 DEF Land, TypeOK, WorkerPc
<1>4. ASSUME NEW a \in Addrs, Start(a) PROVE TypeOK'
  BY <1>4 DEF Start, TypeOK, WorkerPc
<1>5. ASSUME Scan PROVE TypeOK'
  BY <1>5 DEF Scan, ScanMatch, ScanSend, ScanSkip, TypeOK
<1>6. ASSUME Poll PROVE TypeOK'
  BY <1>6 DEF Poll, PollSnapshot, PollSend, TypeOK
<1>7. ASSUME Restart PROVE TypeOK'
  <2>1. retry' \in Entries /\ activity' \in Activities
    BY <1>7, WholeTables DEF Restart
  <2>2. tick' \in Ticks /\ worker' \in [Addrs -> WorkerPc]
    BY <1>7, LimitAssumption DEF Restart, Sleeping, Ticks, WorkerPc, TypeOK
  <2>3. overdue' \subseteq Addrs
    BY <1>7, LimitAssumption DEF Restart, GiveUp, TypeOK
  <2> QED
    BY <1>7, <2>1, <2>2, <2>3 DEF Restart, TypeOK, Entries, Activities, Ticks
<1>8. ASSUME UNCHANGED vars PROVE TypeOK'
  BY <1>8 DEF vars, TypeOK
<1> QED
  BY <1>1, <1>2, <1>3, <1>4, <1>5, <1>6, <1>7, <1>8, RunTypes, TickTypes, AdvanceTypes
  DEF Next

\* The relayer's state keeps its types, for every set of addresses, schedule and
\* limits: the retry counter stays within the schedule it indexes, ages and lags
\* within what they are counted to, an address in one step of forward_address.
THEOREM TypeCorrect == Spec => []TypeOK
BY InitTypes, TypeStep, PTL DEF Spec

-----------------------------------------------------------------------------
\* The address has a row, or had one until a DELETE that was given up was served.
Known(a) == registry[a] # None \/ a \in overrun

\* The fetched row is the row of the registry, or one that went to such a DELETE.
Current(a) == tick.requests[a] # None => a \in overrun \/ registry[a] = tick.requests[a]

\* The strengthening of LiveIsRegistered: what the tick fetched is as registered while
\* it decides, what it keeps stays registered while it deletes the rest.
Listed ==
    /\ tick.pc = "decide" => \A a \in Addrs : Current(a)
    /\ tick.pc \in {"retire", "delete", "swap"} =>
         /\ \A a \in tick.kept : Known(a)
         /\ tick.kept \cap (tick.retire \cup tick.deleting) = {}

Followed == TypeOK /\ Listed /\ LiveIsRegistered

LEMMA InitFollowed == Init => Followed
BY InitTypes DEF Init, Followed, Listed, LiveIsRegistered, Sleeping

\* Every step keeps it.
LEMMA FollowedStep ==
    ASSUME Followed, [Next]_vars
    PROVE  Followed'
<1> USE DEF Followed, Listed, LiveIsRegistered, Leaving, Known, Current, env, backend,
            state, tasks
<1>1. TypeOK'
  BY TypeStep
<1>2. ASSUME \A a \in Addrs : (Known(a) => Known(a)') /\ (Current(a) => Current(a)'),
             UNCHANGED live,
             \A f \in {"pc", "retire", "deleting", "kept"} : tick'[f] = tick[f]
      PROVE  Followed'
  BY <1>1, <1>2 DEF TypeOK
<1>3. ASSUME NEW a \in Addrs, Register(a) \/ LateDelete(a) PROVE Followed'
  <2>1. \A b \in Addrs : (Known(b) => Known(b)') /\ (Current(b) => Current(b)')
    BY <1>3 DEF Register, create_request, LateDelete, remove_by_addr, TypeOK, None
  <2> QED
    BY <1>2, <1>3, <2>1 DEF Register, LateDelete
<1>4. ASSUME NEW a \in Addrs, Deposit(a) \/ Land(a) \/ Start(a) PROVE Followed'
  BY <1>2, <1>4 DEF Deposit, Land, Start
<1>5. ASSUME NEW a \in Addrs, Run(a) PROVE Followed'
  BY <1>2, <1>5 DEF Run, Begin, QueryAnswer, Fail, FoundEmpty, FoundFunds, FeeResolved,
                    Broadcast, Submitted, Goto
<1>6. ASSUME Advance PROVE Followed'
  <2>1. UNCHANGED live
        /\ \A f \in {"pc", "retire", "deleting", "kept"} : tick'[f] = tick[f]
    BY <1>6 DEF Advance, TypeOK
  <2>2. CASE tick.pc = "decide"
    <3>1. /\ tick'.requests = [a \in Addrs |-> Older(tick.requests[a], AgeLimit)]
          /\ registry' = [a \in Addrs |-> Older(registry[a], AgeLimit)]
          /\ overrun' = overrun
      BY <1>6, <2>2 DEF Advance, TypeOK
    <3>2. \A a \in Addrs : Current(a) => Current(a)'
      BY <1>6, <3>1, AdvanceTypes
    <3> QED
      BY <1>2, <1>6, <2>1, <3>1, <3>2, AdvanceTypes
  <2>3. CASE tick.pc # "decide"
    <3>1. \A a \in Addrs : Known(a)' <=> Known(a)
      BY <1>6, AdvanceTypes DEF Advance
    <3>2. tick'.pc # "decide"
      BY <2>1, <2>3
    <3> QED
      BY <1>1, <2>1, <2>3, <3>1, <3>2 DEF TypeOK
  <2> QED
    BY <2>2, <2>3
<1>7. ASSUME Scan \/ Poll PROVE Followed'
  BY <1>2, <1>7 DEF Scan, ScanMatch, ScanSend, ScanSkip, Poll, PollSnapshot, PollSend
<1>8. ASSUME TickFetch PROVE Followed'
  <2>1. tick'.pc = "decide" /\ tick'.requests = registry
    BY <1>8 DEF TickFetch, Sleeping
  <2>2. /\ tick.pc = "idle" /\ UNCHANGED <<registry, live>>
        /\ overrun' = overrun \ list_requests
    BY <1>8 DEF TickFetch
  <2> QED
    BY <1>1, <2>1, <2>2 DEF list_requests
<1>9. ASSUME TickDecide PROVE Followed'
  <2>1. PICK R \in SUBSET Fetched :
          /\ tick'.pc \in {"swap", "retire"} /\ tick'.deleting = {}
          /\ tick'.retire = R /\ tick'.kept = Fetched \ R
    BY <1>9 DEF TickDecide, Sleeping
  <2>2. tick.pc = "decide" /\ UNCHANGED <<registry, overrun, live>>
    BY <1>9 DEF TickDecide, TickOnly
  <2>3. \A a \in Fetched : Known(a)'
    BY <2>2 DEF Fetched
  <2> QED
    BY <1>1, <2>1, <2>2, <2>3 DEF TypeOK
<1>10. ASSUME NEW a \in Addrs, TickRetire(a) PROVE Followed'
  <2>1. /\ tick.pc = "retire" /\ a \in tick.retire
        /\ tick'.pc = "delete" /\ tick'.retire = tick.retire \ {a}
        /\ tick'.deleting = {a} /\ tick'.kept = tick.kept
        /\ UNCHANGED <<registry, overrun, live>>
    BY <1>10 DEF TickRetire, TypeOK
  <2> QED
    BY <1>1, <2>1
<1>11. ASSUME NEW a \in Addrs, TickDelete(a) PROVE Followed'
  <2>1. /\ tick.pc = "delete" /\ a \in tick.deleting
        /\ tick'.pc \in {"swap", "retire"} /\ tick'.retire = tick.retire
        /\ tick'.deleting = {} /\ tick'.kept = tick.kept
        /\ UNCHANGED live
    BY <1>11 DEF TickDelete, TypeOK
  <2>2. overrun' = overrun /\ \A b \in Addrs \ {a} : registry'[b] = registry[b]
    BY <1>11 DEF TickDelete, remove_by_addr, TypeOK
  <2>3. a \notin tick.kept
    BY <2>1
  <2> QED
    BY <1>1, <2>1, <2>2, <2>3 DEF TypeOK
<1>12. ASSUME TickSwap PROVE Followed'
  <2>1. tick.pc = "swap" /\ tick'.pc = "probe" /\ live' = tick.kept
        /\ UNCHANGED <<registry, overrun>>
    BY <1>12 DEF TickSwap, TypeOK
  <2> QED
    BY <1>1, <2>1
<1>13. ASSUME (\E a \in Addrs : TickProbe(a) \/ TickDue(a)) \/ TickCollectDue PROVE Followed'
  <2>1. /\ UNCHANGED <<registry, overrun, live>>
        /\ tick.pc \in {"probe", "due"} /\ tick'.pc \in {"probe", "due"}
    BY <1>13 DEF TickProbe, TickDue, TickCollectDue, TickOnly, TypeOK
  <2> QED
    BY <1>1, <2>1
<1>14. ASSUME TickSleep PROVE Followed'
  BY <1>1, <1>14 DEF TickSleep, TickOnly, Sleeping
<1>15. ASSUME Restart PROVE Followed'
  BY <1>1, <1>15 DEF Restart, Sleeping
<1>16. ASSUME UNCHANGED vars PROVE Followed'
  BY <1>2, <1>16 DEF vars
<1> QED
  BY <1>3, <1>4, <1>5, <1>6, <1>7, <1>8, <1>9, <1>10, <1>11, <1>12, <1>13, <1>14,
     <1>15, <1>16 DEF Next, Tick

\* An address stays on the live list without a row in the backend only from the
\* tick's DELETE to the swap of the same tick, whatever is registered, retired,
\* refused or lost in a crash meanwhile; a DELETE served after the relayer gave it up
\* is the one other way to lose the row.
THEOREM LiveFollowsRegistry == Spec => []LiveIsRegistered
<1>1. Followed => LiveIsRegistered
  BY DEF Followed
<1> QED
  BY InitFollowed, FollowedStep, <1>1, PTL DEF Spec

\* The same invariant for the theorem about retirements.
LEMMA FollowedInvariant == Spec => []Followed
BY InitFollowed, FollowedStep, PTL DEF Spec

-----------------------------------------------------------------------------
\* A store whose writes succeed has what memory has, at every step.
Mirrored == retryDb = retry /\ activityDb = activity

\* No operation of the relayer leaves the tables behind.
LEMMA MirrorStep ==
    ASSUME ~ StoreMayFail, TypeOK, Mirrored, [Next]_vars
    PROVE  Mirrored'
<1> USE DEF Mirrored, Persist
<1>1. ASSUME NEW a \in Addrs
      PROVE  /\ note_failure(a) => retryDb' = retry'
             /\ clear_retry_state(a) => retryDb' = retry'
             /\ record_activity(a) => activityDb' = activity'
             /\ clear_activity(a) => activityDb' = activity'
  BY DEF note_failure, clear_retry_state, record_activity, clear_activity
<1>2. ASSUME NEW a \in Addrs, Run(a) PROVE Mirrored'
  BY <1>1, <1>2 DEF Run, Begin, QueryAnswer, Fail, FoundEmpty, FoundFunds, FeeResolved,
                    Broadcast, Submitted, Goto, state
<1>3. ASSUME Advance PROVE Mirrored'
  BY <1>3 DEF Advance
<1>4. ASSUME NEW a \in Addrs, TickRetire(a) PROVE Mirrored'
  BY <1>1, <1>4 DEF TickRetire
<1>5. ASSUME TickSwap PROVE Mirrored'
  <2>1. /\ retryDb' = [a \in Addrs |-> IF a \in Addrs \ tick.kept THEN NoRetry ELSE retryDb[a]]
        /\ activityDb' = [a \in Addrs |-> IF a \in Addrs \ tick.kept THEN None
                                          ELSE activityDb[a]]
    BY <1>5 DEF TickSwap, retain
  <2>2. /\ retry' = [a \in Addrs |-> IF a \in tick.kept THEN retry[a] ELSE NoRetry]
        /\ activity' = [a \in Addrs |-> IF a \in tick.kept THEN activity[a] ELSE None]
    BY <1>5 DEF TickSwap
  <2> QED
    BY <2>1, <2>2
<1>6. ASSUME Restart PROVE Mirrored'
  BY <1>6 DEF Restart, load, load_activity
<1>7. ASSUME UNCHANGED state PROVE Mirrored'
  BY <1>7 DEF state
<1> QED
  BY <1>2, <1>3, <1>4, <1>5, <1>6, <1>7
  DEF Next, Register, LateDelete, Deposit, Land, Start, Scan, ScanMatch, ScanSend,
      ScanSkip, Poll, PollSnapshot, PollSend, Tick, TickFetch, TickDecide, TickDelete, TickProbe,
      TickCollectDue, TickDue, TickSleep, TickOnly, vars

\* The invariant behind the two theorems about a restart.
LEMMA MirrorInvariant ==
    ASSUME ~ StoreMayFail
    PROVE  Spec => [](TypeOK /\ Mirrored)
<1>1. Init => TypeOK /\ Mirrored
  BY InitTypes DEF Init, Mirrored
<1>2. TypeOK /\ Mirrored /\ [Next]_vars => (TypeOK /\ Mirrored)'
  BY TypeStep, MirrorStep
<1> QED
  BY <1>1, <1>2, PTL DEF Spec

\* As long as the store takes its writes, no forward begins inside the backoff
\* window that the store has on record, however often the relayer restarts.
THEOREM BackoffOutlivesRestart ==
    ASSUME ~ StoreMayFail
    PROVE  Spec => BackoffSurvivesRestart
<1>1. ASSUME TypeOK, Mirrored, [Next]_vars
      PROVE  \A a \in Addrs :
               worker[a] = "begin" /\ worker'[a] = "query"
               => retryDb[a].failures = 0 \/ retryDb[a].wait <= 0
  <2> SUFFICES ASSUME NEW a \in Addrs, worker[a] = "begin", worker'[a] = "query"
               PROVE  retryDb[a].failures = 0 \/ retryDb[a].wait <= 0
    OBVIOUS
  <2>1. PICK b \in Addrs : Run(b)
    <3>1. ASSUME NEW b \in Addrs, Land(b) \/ Start(b) PROVE FALSE
      BY <1>1, <3>1 DEF Land, Start, TypeOK
    <3>2. ASSUME Restart PROVE FALSE
      BY <3>2 DEF Restart
    <3>3. ASSUME UNCHANGED worker PROVE FALSE
      BY <3>3
    <3> QED
      BY <1>1, <3>1, <3>2, <3>3
      DEF Next, Register, LateDelete, Deposit, Advance, Scan, ScanMatch, ScanSend, ScanSkip, Poll,
          PollSnapshot, PollSend, Tick, TickFetch, TickDecide, TickRetire, TickDelete,
          TickSwap, TickProbe, TickCollectDue, TickDue, TickSleep, TickOnly, vars, tasks
  <2>2. Begin(a)
    BY <1>1, <2>1 DEF Run, Begin, QueryAnswer, Fail, FoundEmpty, FoundFunds, FeeResolved,
                      Broadcast, Submitted, Goto, TypeOK
  <2>3. retry[a].failures = 0 \/ retry[a].wait <= 0
    BY <1>1, <2>2 DEF Begin, Goto, TypeOK
  <2> QED
    BY <1>1, <2>3 DEF Mirrored
<1> QED
  BY MirrorInvariant, <1>1, PTL DEF Spec, BackoffSurvivesRestart

\* As long as the store takes its writes, the tick retires an address only when the
\* timer that applies by the store's record of its activity has run out; the age it
\* decides by is that of the row the address has, unless an earlier row went to a
\* DELETE that was given up.
THEOREM RetirementNeedsExpiry ==
    ASSUME ~ StoreMayFail
    PROVE  Spec => RetiresOnlyExpired
<1>1. ASSUME TypeOK, Mirrored, Followed, [Next]_vars
      PROVE  \A a \in tick'.retire \ tick.retire :
               IF activityDb[a] = None
               THEN Expired(registry[a], AgeLimit) \/ a \in overrun
               ELSE Expired(activityDb[a], InactivityLimit)
  <2> SUFFICES ASSUME NEW a \in tick'.retire \ tick.retire
               PROVE  IF activityDb[a] = None
                      THEN Expired(registry[a], AgeLimit) \/ a \in overrun
                      ELSE Expired(activityDb[a], InactivityLimit)
    OBVIOUS
  <2>1. TickDecide
    <3>1. ASSUME tick'.retire \subseteq tick.retire PROVE FALSE
      BY <3>1
    <3>2. ASSUME UNCHANGED tick PROVE FALSE
      BY <3>1, <3>2
    <3>3. ASSUME Advance \/ TickSwap \/ TickCollectDue PROVE FALSE
      BY <1>1, <3>1, <3>3 DEF Advance, TickSwap, TickCollectDue, TypeOK
    <3>4. ASSUME NEW b \in Addrs, TickRetire(b) \/ TickDelete(b) \/ TickProbe(b) \/ TickDue(b)
          PROVE  FALSE
      <4>1. CASE TickRetire(b)
        BY <1>1, <3>1, <4>1 DEF TickRetire, TypeOK
      <4>2. CASE TickDelete(b)
        BY <1>1, <3>1, <4>2 DEF TickDelete, TypeOK
      <4>3. CASE TickProbe(b)
        BY <1>1, <3>1, <4>3 DEF TickProbe, TypeOK
      <4>4. CASE TickDue(b)
        BY <1>1, <3>1, <4>4 DEF TickDue, TypeOK
      <4> QED
        BY <3>4, <4>1, <4>2, <4>3, <4>4
    <3>5. ASSUME TickFetch \/ TickSleep \/ Restart PROVE FALSE
      <4>1. tick' = Sleeping \/ tick' = [Sleeping EXCEPT !.pc = "decide",
                                                       !.requests = registry]
        BY <3>5 DEF TickFetch, TickSleep, Restart
      <4>2. Sleeping \in Ticks /\ Sleeping.retire = {}
        BY LimitAssumption DEF Sleeping, Ticks
      <4>3. registry \in [Addrs -> {None} \cup Ages(MaxAge)]
        BY <1>1 DEF TypeOK
      <4>4. tick'.retire = {}
        BY <4>1, <4>2, <4>3 DEF Ticks
      <4> QED
        BY <3>1, <4>4
    <3> QED
      BY <1>1, <3>2, <3>3, <3>4, <3>5
      DEF Next, Register, LateDelete, Deposit, Land, Start, Run, Begin, QueryAnswer, Fail,
          FoundEmpty, FoundFunds, FeeResolved, Broadcast, Submitted, Goto, Scan, ScanMatch, ScanSend,
          ScanSkip, Poll, PollSnapshot, PollSend, Tick, vars, tasks
  <2>2. tick'.retire = {b \in Fetched : retirement_reason(b)}
    BY <2>1 DEF TickDecide, Sleeping
  <2>3. a \in Fetched /\ retirement_reason(a)
    BY <2>2
  <2>4. a \in overrun \/ registry[a] = tick.requests[a]
    BY <1>1, <2>1, <2>3 DEF Followed, Listed, Current, Fetched, TickDecide
  <2> QED
    BY <1>1, <2>3, <2>4 DEF Mirrored, retirement_reason
<1> QED
  BY MirrorInvariant, FollowedInvariant, <1>1, PTL DEF Spec, RetiresOnlyExpired

-----------------------------------------------------------------------------
\* A step is one of TriggerService's, or leaves triggers and runs alone, or is the
\* crash that loses them.
LEMMA ServiceStep ==
    ASSUME TypeOK, [Next]_vars
    PROVE  [TS!TSNext \/ Restart]_(TS!tsvars)
<1> DEFINE running == {a \in Addrs : worker[a] # "idle"}
<1> USE DEF TypeOK
<1>1. ASSUME owed' = owed, running' = running PROVE UNCHANGED TS!tsvars
  BY <1>1 DEF TS!tsvars
<1>2. ASSUME NEW a \in Addrs, owed' = owed \cup {a}, running' = running PROVE TS!TSNext
  BY <1>2 DEF TS!TSNext, TS!Trigger
<1>3. ASSUME NEW a \in Addrs, a \in running, owed' = owed, running' = running \ {a}
      PROVE  TS!TSNext
  BY <1>3 DEF TS!TSNext, TS!Finish
<1>4. ASSUME NEW a \in Addrs, Start(a) PROVE TS!TSNext
  <2>1. running' = running \cup {a} /\ a \notin running
    BY <1>4 DEF Start
  <2> QED
    BY <1>4, <2>1 DEF Start, TS!TSNext, TS!Start
<1>5. ASSUME NEW a \in Addrs, Land(a) PROVE UNCHANGED TS!tsvars
  <2>1. running' = running
    BY <1>5 DEF Land
  <2> QED
    BY <1>1, <1>5, <2>1 DEF Land
<1>6. ASSUME NEW a \in Addrs, Run(a) PROVE TS!TSNext \/ UNCHANGED TS!tsvars
  <2>1. owed' = owed /\ worker[a] # "idle"
        /\ \E pc \in WorkerPc : worker' = [worker EXCEPT ![a] = pc]
    BY <1>6 DEF Run, Begin, QueryAnswer, Fail, FoundEmpty, FoundFunds, FeeResolved,
                Broadcast, Submitted, Goto, WorkerPc
  <2>2. running' \in {running, running \ {a}} /\ a \in running
    BY <2>1
  <2> QED
    BY <1>1, <1>3, <2>1, <2>2
<1>7. ASSUME UNCHANGED worker PROVE running' = running
  BY <1>7
<1> HIDE DEF running
<1>8. ASSUME Scan \/ Poll \/ Tick PROVE TS!TSNext \/ UNCHANGED TS!tsvars
  <2>1. UNCHANGED worker
    BY <1>8 DEF Scan, ScanMatch, ScanSend, ScanSkip, Poll, PollSnapshot, PollSend, Tick,
                TickFetch, TickDecide, TickRetire, TickDelete, TickSwap, TickProbe,
                TickCollectDue, TickDue, TickSleep, TickOnly, tasks
  <2>2. owed' = owed \/ \E a \in Addrs : owed' = owed \cup {a}
    BY <1>8 DEF Scan, ScanMatch, ScanSend, ScanSkip, Poll, PollSnapshot, PollSend, Tick,
                TickFetch, TickDecide, TickRetire, TickDelete, TickSwap, TickProbe,
                TickCollectDue, TickDue, TickSleep, TickOnly, tasks
  <2> QED
    BY <1>1, <1>2, <1>7, <2>1, <2>2
<1>9. ASSUME UNCHANGED <<owed, worker>> PROVE UNCHANGED TS!tsvars
  BY <1>1, <1>7, <1>9
<1> QED
  BY <1>4, <1>5, <1>6, <1>8, <1>9
  DEF Next, Register, LateDelete, Deposit, Advance, tasks, vars

\* Triggers and runs of the relayer change as TriggerService says or in a crash, for
\* any number of addresses: the promise Relayer relies on is the one that the
\* dispatcher is proved to keep (DispatcherProofs, RefinesTriggerService).
THEOREM DispatcherUsedAsPromised == Spec => UsesTriggerService
<1>1. Init => TS!TSInit
  BY DEF Init, TS!TSInit
<1>2. TypeOK /\ [Next]_vars => [TS!TSNext \/ Restart]_(TS!tsvars)
  BY ServiceStep
<1> QED
  BY <1>1, <1>2, TypeCorrect, PTL DEF Spec, UsesTriggerService
=============================================================================
