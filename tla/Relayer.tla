------------------------------ MODULE Relayer ------------------------------
(***************************************************************************)
(* The relayer (src/relayer.rs) around its dispatcher: forward_address for *)
(* every triggered address, the maintenance tick with its retirements, the *)
(* balance-poll backstop, the scanner's matching of deposits against the   *)
(* live list, crash and restart, and the outside they work against: the    *)
(* chain's balances, the backend's registry, time.                         *)
(*                                                                         *)
(* A handler is cut where it awaits, and where another thread may come     *)
(* between what it read and what it does with it.  The dispatcher is used  *)
(* as TriggerService promises it: a trigger makes an address owed, an owed *)
(* address starts when it has no run.                                      *)
(*                                                                         *)
(* Time is relative, so that it never runs out: an age grows until it is   *)
(* past the limit it is compared with, a backoff counts down.              *)
(***************************************************************************)
EXTENDS Integers, Sequences

CONSTANTS
    Addrs,           \* forwarding addresses
    Schedule,        \* RETRY_BACKOFF_SCHEDULE_SECONDS, in ticks of the clock
    MaxAge,          \* max_request_age_seconds
    MaxInactivity,   \* max_address_inactivity_seconds
    Forever,         \* a limit that is never reached
    MaxLag,          \* bound: clock ticks within one maintenance tick
    Modes,           \* configurations to start with, see variable mode
    StoreMayFail     \* a write to the relayer's database may fail

ASSUME ScheduleAssumption ==
    /\ Schedule \in Seq(Nat \ {0})
    /\ Schedule # <<>>
ASSUME LimitAssumption ==
    /\ MaxAge \in Nat \cup {Forever}
    /\ MaxInactivity \in Nat \cup {Forever}
    /\ Forever \notin Int
    /\ MaxLag \in Nat
ASSUME SwitchAssumption ==
    /\ Modes \subseteq [limits : BOOLEAN, poll : BOOLEAN, stale : BOOLEAN,
                     skips : BOOLEAN, late : BOOLEAN, deposits : BOOLEAN]
    /\ StoreMayFail \in BOOLEAN

VARIABLES
    funds,       \* addresses with a non-zero balance on chain
    unscanned,   \* addresses with a deposit above the scanner's cursor
    tx,          \* addresses with a broadcast forward that has not landed
    registry,    \* backend rows: the age of created_at, or None
    overdue,     \* addresses with a DELETE the relayer gave up, still to be served
    overrun,     \* history: addresses whose row went to such a DELETE, until a
                 \* fetch sees a row again
    live,        \* RelayerState.live
    retry,       \* RelayerState.retry_state
    retryDb,     \* its mirror, table retry_state of the store
    activity,    \* RelayerState.last_activity: its age, or None
    activityDb,  \* its mirror in the store
    owed,        \* triggers sent to the dispatcher (TriggerService)
    worker,      \* where forward_address is, for each address
    tick,        \* where maintenance_tick is, with its locals
    poll,        \* addresses the balance poll has still to send
    scan,        \* matched deposits the scanner has still to send
    mode         \* the configuration and the outside it meets; never changes

backend == <<registry, overdue, overrun>>
env == <<funds, unscanned, tx, backend>>
state == <<live, retry, retryDb, activity, activityDb>>
tasks == <<owed, worker, tick, poll, scan>>
vars == <<env, state, tasks, mode>>

AgeLimit == IF mode.limits THEN MaxAge ELSE Forever
InactivityLimit == IF mode.limits THEN MaxInactivity ELSE Forever
PollEnabled == mode.poll     \* balance_poll_interval > 0
StaleReads == mode.stale     \* a gRPC endpoint may answer with an older balance
ScannerSkips == mode.skips   \* the scanner may skip an unservable height
LateDeletes == mode.late     \* the backend may serve a DELETE after it was given up
Deposits == mode.deposits    \* somebody deposits

None == -1
NoRetry == [failures |-> 0, wait |-> 0]

\* The tick between two rounds.  What it fetched is the age of created_at of each
\* row of the list, None for an address that is not on the list.
Sleeping == [pc |-> "idle", lag |-> 0, requests |-> [a \in Addrs |-> None],
             retire |-> {}, deleting |-> {}, kept |-> {}, added |-> {}, due |-> {}]

\* A cap of the retry counter: retry_delay saturates at the end of the schedule.
Failures == 0..Len(Schedule)

\* An age is counted no further than one past the limit it is compared with.
Ages(limit) == IF limit = Forever THEN {0} ELSE 0..(limit + 1)

Older(age, limit) ==
    IF age = None \/ limit = Forever \/ age > limit THEN age ELSE age + 1

Expired(age, limit) == limit # Forever /\ age > limit

WorkerPc == {"idle", "begin", "query", "empty", "funded", "fee", "submit", "sent",
             "landed"}

TypeOK ==
    /\ funds \subseteq Addrs
    /\ unscanned \subseteq Addrs
    /\ tx \subseteq Addrs
    /\ registry \in [Addrs -> {None} \cup Ages(MaxAge)]
    /\ overdue \subseteq Addrs
    /\ overrun \subseteq Addrs
    /\ live \subseteq Addrs
    /\ retry \in [Addrs -> [failures : Failures, wait : Int]]
    /\ retryDb \in [Addrs -> [failures : Failures, wait : Int]]
    /\ activity \in [Addrs -> {None} \cup Ages(MaxInactivity)]
    /\ activityDb \in [Addrs -> {None} \cup Ages(MaxInactivity)]
    /\ owed \subseteq Addrs
    /\ worker \in [Addrs -> WorkerPc]
    /\ tick \in [pc : {"idle", "decide", "retire", "delete", "swap", "probe", "due"},
                 lag : 0..MaxLag, requests : [Addrs -> {None} \cup Ages(MaxAge)],
                 retire : SUBSET Addrs, deleting : SUBSET Addrs, kept : SUBSET Addrs,
                 added : SUBSET Addrs, due : SUBSET Addrs]
    /\ poll \subseteq Addrs
    /\ scan \subseteq Addrs
    /\ mode \in Modes

Init ==
    /\ funds = {} /\ unscanned = {} /\ tx = {}
    /\ registry = [a \in Addrs |-> None] /\ overdue = {} /\ overrun = {}
    /\ live = {}
    /\ retry = [a \in Addrs |-> NoRetry] /\ retryDb = retry
    /\ activity = [a \in Addrs |-> None] /\ activityDb = activity
    /\ owed = {}
    /\ worker = [a \in Addrs |-> "idle"]
    /\ tick = Sleeping
    /\ poll = {} /\ scan = {}
    /\ mode \in Modes

-----------------------------------------------------------------------------
(* The durable mirror.                                                     *)

\* A write to the store whose failure is only logged.
Persist(db, new) == IF StoreMayFail THEN {db, new} ELSE {new}

retry_delay(failures) ==
    Schedule[IF failures > Len(Schedule) THEN Len(Schedule) ELSE failures]

\* Bug variant: the schedule is taken to be one longer than it is.
Mut_note_failure(a) ==
    LET failures == IF retry[a].failures <= Len(Schedule)
                    THEN retry[a].failures + 1 ELSE Len(Schedule)
        entry == [failures |-> failures, wait |-> retry_delay(failures)]
    IN  /\ retry' = [retry EXCEPT ![a] = entry]
        /\ retryDb' \in Persist(retryDb, [retryDb EXCEPT ![a] = entry])

\* A failed attempt: the next one waits for retry_delay.
note_failure(a) ==
    LET failures == IF retry[a].failures < Len(Schedule)
                    THEN retry[a].failures + 1 ELSE Len(Schedule)
        entry == [failures |-> failures, wait |-> retry_delay(failures)]
    IN  /\ retry' = [retry EXCEPT ![a] = entry]
        /\ retryDb' \in Persist(retryDb, [retryDb EXCEPT ![a] = entry])

clear_retry_state(a) ==
    /\ retry' = [retry EXCEPT ![a] = NoRetry]
    /\ retryDb' \in Persist(retryDb, [retryDb EXCEPT ![a] = NoRetry])

record_activity(a) ==
    /\ activity' = [activity EXCEPT ![a] = 0]
    /\ activityDb' \in Persist(activityDb, [activityDb EXCEPT ![a] = 0])

clear_activity(a) ==
    /\ activity' = [activity EXCEPT ![a] = None]
    /\ activityDb' \in Persist(activityDb, [activityDb EXCEPT ![a] = None])

\* What the store gives back at startup: nothing if it cannot be read.
load == Persist([a \in Addrs |-> NoRetry], retryDb)
load_activity == Persist([a \in Addrs |-> None], activityDb)

\* RetryStore::retain prunes one table after the other, row by row, and stops at
\* the first row it fails to delete.
retain(kept) ==
    \E rows \in SUBSET (Addrs \ kept), ages \in SUBSET (Addrs \ kept) :
        /\ StoreMayFail \/ (rows = Addrs \ kept /\ ages = Addrs \ kept)
        /\ ages # {} => rows = Addrs \ kept
        /\ retryDb' = [a \in Addrs |-> IF a \in rows THEN NoRetry ELSE retryDb[a]]
        /\ activityDb' = [a \in Addrs |-> IF a \in ages THEN None ELSE activityDb[a]]

-----------------------------------------------------------------------------
(* The outside.                                                            *)

\* The backend's table: INSERT OR IGNORE, SELECT and DELETE.
create_request(a) == IF registry[a] = None THEN [registry EXCEPT ![a] = 0] ELSE registry
list_requests == {a \in Addrs : registry[a] # None}
remove_by_addr(a) == [registry EXCEPT ![a] = None]

\* POST /forwarding-requests with an address that matches its derivation: a new
\* row; an existing row is left as it is.
Register(a) ==
    /\ registry' = create_request(a)
    /\ UNCHANGED <<funds, unscanned, tx, overdue, overrun, state, tasks, mode>>

\* The backend serves a DELETE whose caller is no longer there.
LateDelete(a) ==
    /\ a \in overdue
    /\ registry' = remove_by_addr(a)
    /\ overdue' = overdue \ {a}
    /\ overrun' = IF registry[a] = None THEN overrun ELSE overrun \cup {a}
    /\ UNCHANGED <<funds, unscanned, tx, state, tasks, mode>>

\* A block with a transfer to the address is committed.
Deposit(a) ==
    /\ Deposits
    /\ funds' = funds \cup {a}
    /\ unscanned' = unscanned \cup {a}
    /\ UNCHANGED <<tx, backend, state, tasks, mode>>

\* A broadcast forward is executed: it moves the whole balance, or fails on an
\* empty one.  It may be one whose submitter has long given up.
Land(a) ==
    /\ a \in tx
    /\ tx' = tx \ {a}
    /\ funds' = funds \ {a}
    /\ worker' = [worker EXCEPT ![a] = IF @ = "sent" /\ a \in funds THEN "landed" ELSE @]
    /\ UNCHANGED <<unscanned, backend, state, owed, tick, poll, scan, mode>>

\* One unit of time passes.
Advance ==
    /\ tick.pc = "idle" \/ tick.lag < MaxLag
    /\ LET Waited(r) == IF r.failures > 0 /\ r.wait > -MaxLag
                        THEN [r EXCEPT !.wait = @ - 1] ELSE r
       IN  /\ retry' = [a \in Addrs |-> Waited(retry[a])]
           /\ retryDb' = [a \in Addrs |-> Waited(retryDb[a])]
    /\ registry' = [a \in Addrs |-> Older(registry[a], AgeLimit)]
    /\ activity' = [a \in Addrs |-> Older(activity[a], InactivityLimit)]
    /\ activityDb' = [a \in Addrs |-> Older(activityDb[a], InactivityLimit)]
    /\ tick' = IF tick.pc = "idle" THEN tick
               ELSE [tick EXCEPT !.lag = @ + 1,
                                 !.requests = [a \in Addrs |-> Older(@[a], AgeLimit)]]
    /\ UNCHANGED <<funds, unscanned, tx, overdue, overrun, live, owed, worker, poll, scan,
                   mode>>

-----------------------------------------------------------------------------
(* The scanner's side of the trigger channel.                              *)

\* scan_to fetched the results of the next block and matches its recipient
\* against the live list; what is not live is passed over for good.
ScanMatch(a) ==
    /\ scan = {}
    /\ a \in unscanned
    /\ unscanned' = unscanned \ {a}
    /\ scan' = IF a \in live THEN {a} ELSE {}
    /\ UNCHANGED <<funds, tx, backend, state, owed, worker, tick, poll, mode>>

\* The matched recipient is sent and the cursor moves past its block.
ScanSend(a) ==
    /\ a \in scan
    /\ scan' = scan \ {a}
    /\ owed' = owed \cup {a}
    /\ UNCHANGED <<env, state, worker, tick, poll, mode>>

\* recover_pruned moved the cursor past the block without reading it.
ScanSkip(a) ==
    /\ ScannerSkips
    /\ scan = {}
    /\ a \in unscanned
    /\ unscanned' = unscanned \ {a}
    /\ UNCHANGED <<funds, tx, backend, state, tasks, mode>>

-----------------------------------------------------------------------------
(* run_balance_poll.                                                       *)

\* Bug variant: the sweep never starts.
MutPollSnapshot ==
    /\ PollEnabled
    /\ poll = {}
    /\ UNCHANGED vars

\* One sweep over the live list.
PollSnapshot ==
    /\ PollEnabled
    /\ poll = {}
    /\ poll' = live
    /\ UNCHANGED <<env, state, owed, worker, tick, scan, mode>>

PollSend(a) ==
    /\ a \in poll
    /\ poll' = poll \ {a}
    /\ owed' = owed \cup {a}
    /\ UNCHANGED <<env, state, worker, tick, scan, mode>>

-----------------------------------------------------------------------------
(* forward_address, run by the dispatcher.                                 *)

\* Bug variant: a trigger starts its address over while a run is in flight.
MutStart(a) ==
    /\ a \in owed
    /\ worker' = [worker EXCEPT ![a] = "begin"]
    /\ owed' \in {owed, owed \ {a}}
    /\ UNCHANGED <<env, state, tick, poll, scan, mode>>

\* The dispatcher spawns the run of an owed address.  Of two queued triggers the
\* second is still owed.
Start(a) ==
    /\ a \in owed
    /\ worker[a] = "idle"
    /\ worker' = [worker EXCEPT ![a] = "begin"]
    /\ owed' \in {owed, owed \ {a}}
    /\ UNCHANGED <<env, state, tick, poll, scan, mode>>

\* The run goes on to step pc with no other effect.
Goto(a, pc) ==
    /\ worker' = [worker EXCEPT ![a] = pc]
    /\ UNCHANGED <<env, state, owed, tick, poll, scan, mode>>

\* Return early if the address is no longer live or is still backing off.
Begin(a) ==
    /\ worker[a] = "begin"
    /\ Goto(a, IF a \in live /\ (retry[a].failures = 0 \/ retry[a].wait <= 0)
               THEN "query" ELSE "idle")

\* The node answers query_balances; the answer is on its way back.
QueryAnswer(a) ==
    /\ worker[a] = "query"
    /\ \E seen \in IF StaleReads THEN {"funded", "empty"}
                   ELSE IF a \in funds THEN {"funded"} ELSE {"empty"} : Goto(a, seen)

\* Bug variant: a failed query or submission is only logged.
MutFail(a) ==
    /\ worker[a] \in {"query", "fee", "submit", "sent", "landed"}
    /\ Goto(a, "idle")

\* query_balances failed on every endpoint, the fee could not be resolved, or
\* submit_forward returned an error: before it broadcast anything, after a
\* timeout with the transaction still out, or after it landed.
Fail(a) ==
    /\ worker[a] \in {"query", "fee", "submit", "sent", "landed"}
    /\ note_failure(a)
    /\ worker' = [worker EXCEPT ![a] = "idle"]
    /\ UNCHANGED <<env, live, activity, activityDb, owed, tick, poll, scan, mode>>

\* Nothing to forward: drop any stale backoff.
FoundEmpty(a) ==
    /\ worker[a] = "empty"
    /\ clear_retry_state(a)
    /\ worker' = [worker EXCEPT ![a] = "idle"]
    /\ UNCHANGED <<env, live, activity, activityDb, owed, tick, poll, scan, mode>>

\* A non-empty balance is activity; then resolve the fee.
FoundFunds(a) ==
    /\ worker[a] = "funded"
    /\ record_activity(a)
    /\ worker' = [worker EXCEPT ![a] = "fee"]
    /\ UNCHANGED <<env, live, retry, retryDb, owed, tick, poll, scan, mode>>

FeeResolved(a) ==
    /\ worker[a] = "fee"
    /\ Goto(a, "submit")

\* submit_forward hands MsgForward to the chain.
Broadcast(a) ==
    /\ worker[a] = "submit"
    /\ tx' = tx \cup {a}
    /\ worker' = [worker EXCEPT ![a] = "sent"]
    /\ UNCHANGED <<funds, unscanned, backend, state, owed, tick, poll, scan, mode>>

\* submit_forward returned the hash of a transaction that landed.
Submitted(a) ==
    /\ worker[a] = "landed"
    /\ clear_retry_state(a)
    /\ record_activity(a)
    /\ worker' = [worker EXCEPT ![a] = "idle"]
    /\ UNCHANGED <<env, live, owed, tick, poll, scan, mode>>

-----------------------------------------------------------------------------
(* maintenance_tick.  A fetch that fails leaves everything as it is.       *)

TickOnly == UNCHANGED <<env, state, owed, worker, poll, scan, mode>>

\* The backend answers GET /forwarding-requests with its rows as they are now.
TickFetch ==
    /\ tick.pc = "idle"
    /\ tick' = [Sleeping EXCEPT !.pc = "decide", !.requests = registry]
    /\ overrun' = overrun \ list_requests
    /\ UNCHANGED <<funds, unscanned, tx, registry, overdue, state, owed, worker, poll, scan,
                   mode>>

Fetched == {a \in Addrs : tick.requests[a] # None}

\* By the created_at of the fetched row, whatever the row is by now.
retirement_reason(a) ==
    IF activity[a] = None THEN Expired(tick.requests[a], AgeLimit)
                          ELSE Expired(activity[a], InactivityLimit)

\* Bug variant: an expired request stays on the list that becomes live.
MutTickDecide ==
    /\ tick.pc = "decide"
    /\ LET retired == {a \in Fetched : retirement_reason(a)}
       IN  tick' = [Sleeping EXCEPT !.pc = IF retired = {} THEN "swap" ELSE "retire",
                                    !.retire = retired, !.kept = Fetched,
                                    !.added = Fetched \ live]
    /\ TickOnly

\* Take `now`, decide the retirements on one snapshot of the activity, and find
\* the addresses to probe.
TickDecide ==
    /\ tick.pc = "decide"
    /\ LET retired == {a \in Fetched : retirement_reason(a)}
           kept == Fetched \ retired
       IN  tick' = [Sleeping EXCEPT !.pc = IF retired = {} THEN "swap" ELSE "retire",
                                    !.retire = retired, !.kept = kept,
                                    !.added = kept \ live]
    /\ TickOnly

\* Forget one expired address; the DELETE is on its way to the backend.
TickRetire(a) ==
    /\ tick.pc = "retire"
    /\ a \in tick.retire
    /\ clear_retry_state(a)
    /\ clear_activity(a)
    /\ tick' = [tick EXCEPT !.pc = "delete", !.retire = @ \ {a}, !.deleting = {a}]
    /\ UNCHANGED <<env, live, owed, worker, poll, scan, mode>>

\* The relayer no longer waits for a DELETE, which may still be served.
GiveUp(addrs) == overdue' \in IF LateDeletes THEN {overdue, overdue \cup addrs} ELSE {overdue}

\* The DELETE removes the row, fails, or runs into the HTTP timeout; in each case the
\* tick goes on.
TickDelete(a) ==
    /\ tick.pc = "delete"
    /\ a \in tick.deleting
    /\ \/ registry' = remove_by_addr(a) /\ UNCHANGED overdue
       \/ UNCHANGED registry /\ GiveUp({a})
    /\ tick' = [tick EXCEPT !.pc = IF tick.retire = {} THEN "swap" ELSE "retire",
                            !.deleting = {}]
    /\ UNCHANGED <<funds, unscanned, tx, overrun, state, owed, worker, poll, scan, mode>>

\* Bug variant: the kept addresses are added to the live list.
MutTickSwap ==
    /\ tick.pc = "swap"
    /\ retry' = [a \in Addrs |-> IF a \in tick.kept THEN retry[a] ELSE NoRetry]
    /\ activity' = [a \in Addrs |-> IF a \in tick.kept THEN activity[a] ELSE None]
    /\ retain(tick.kept)
    /\ live' = live \cup tick.kept
    /\ tick' = [tick EXCEPT !.pc = "probe", !.kept = {}]
    /\ UNCHANGED <<env, owed, worker, poll, scan, mode>>

\* Prune the state to the kept addresses and swap in the new live list.
TickSwap ==
    /\ tick.pc = "swap"
    /\ retry' = [a \in Addrs |-> IF a \in tick.kept THEN retry[a] ELSE NoRetry]
    /\ activity' = [a \in Addrs |-> IF a \in tick.kept THEN activity[a] ELSE None]
    /\ retain(tick.kept)
    /\ live' = tick.kept
    /\ tick' = [tick EXCEPT !.pc = "probe", !.kept = {}]
    /\ UNCHANGED <<env, owed, worker, poll, scan, mode>>

\* Probe each newly added address once.
TickProbe(a) ==
    /\ tick.pc = "probe"
    /\ a \in tick.added
    /\ owed' = owed \cup {a}
    /\ tick' = [tick EXCEPT !.added = @ \ {a}]
    /\ UNCHANGED <<env, state, worker, poll, scan, mode>>

\* Collect the addresses whose backoff had elapsed at the tick's `now`.
TickCollectDue ==
    /\ tick.pc = "probe"
    /\ tick.added = {}
    /\ tick' = [tick EXCEPT !.pc = "due",
                            !.due = {a \in Addrs : /\ retry[a].failures > 0
                                                    /\ retry[a].wait + tick.lag <= 0}]
    /\ TickOnly

\* Re-enqueue them, then sleep.
TickDue(a) ==
    /\ tick.pc = "due"
    /\ a \in tick.due
    /\ owed' = owed \cup {a}
    /\ tick' = [tick EXCEPT !.due = @ \ {a}]
    /\ UNCHANGED <<env, state, worker, poll, scan, mode>>

TickSleep ==
    /\ tick.pc = "due"
    /\ tick.due = {}
    /\ tick' = Sleeping
    /\ TickOnly

-----------------------------------------------------------------------------
\* Bug variant: the persisted backoff and activity are not read back.
MutRestart ==
    /\ live' = {}
    /\ retry' = [a \in Addrs |-> NoRetry]
    /\ activity' = [a \in Addrs |-> None]
    /\ owed' = {}
    /\ worker' = [a \in Addrs |-> "idle"]
    /\ tick' = Sleeping
    /\ poll' = {} /\ scan' = {}
    /\ unscanned' = unscanned \cup scan
    /\ GiveUp(tick.deleting)
    /\ UNCHANGED <<funds, tx, registry, overrun, retryDb, activityDb, mode>>

\* The process dies and is started again: Relayer::new reads the store, the live
\* list starts empty, the queue and all runs are gone, the scanner goes back to
\* the first block whose deposits it has not finished sending.
Restart ==
    /\ live' = {}
    /\ retry' \in load
    /\ activity' \in load_activity
    /\ owed' = {}
    /\ worker' = [a \in Addrs |-> "idle"]
    /\ tick' = Sleeping
    /\ poll' = {} /\ scan' = {}
    /\ unscanned' = unscanned \cup scan
    /\ GiveUp(tick.deleting)
    /\ UNCHANGED <<funds, tx, registry, overrun, retryDb, activityDb, mode>>

Run(a) ==
    \/ Begin(a) \/ QueryAnswer(a) \/ Fail(a) \/ FoundEmpty(a) \/ FoundFunds(a)
    \/ FeeResolved(a) \/ Broadcast(a) \/ Submitted(a)

Tick ==
    \/ TickFetch \/ TickDecide \/ TickSwap \/ TickCollectDue \/ TickSleep
    \/ \E a \in Addrs : TickRetire(a) \/ TickDelete(a) \/ TickProbe(a) \/ TickDue(a)

Scan == \E a \in Addrs : ScanMatch(a) \/ ScanSend(a) \/ ScanSkip(a)

Poll == PollSnapshot \/ \E a \in Addrs : PollSend(a)

Next ==
    \/ \E a \in Addrs : Register(a) \/ LateDelete(a) \/ Deposit(a) \/ Land(a)
                        \/ Start(a) \/ Run(a)
    \/ Advance \/ Scan \/ Poll \/ Tick \/ Restart

Spec == Init /\ [][Next]_vars

\* Every task of the relayer is polled by the runtime and every await ends (HTTP,
\* gRPC and submission timeouts; the dispatcher serves every trigger, see module
\* Dispatcher); a backend that answers infinitely many fetches; time passes; and the
\* crashes, any number of them, come to an end.
Scheduling ==
    /\ \A a \in Addrs : WF_vars(Start(a)) /\ WF_vars(Run(a))
    /\ WF_vars(Tick) /\ WF_vars(Scan) /\ WF_vars(Poll) /\ WF_vars(Advance)
    /\ <>[][~ Restart]_vars

\* Of infinitely many attempts at one outside call one succeeds.
FreshAnswer(a) ==
    QueryAnswer(a) /\ worker'[a] = IF a \in funds THEN "funded" ELSE "empty"

OutsideRecovers ==
    \A a \in Addrs : /\ SF_vars(FreshAnswer(a)) /\ SF_vars(FeeResolved(a))
                     /\ SF_vars(Broadcast(a)) /\ SF_vars(Land(a))

\* Of infinitely many DELETEs of a row one succeeds.
Deletes(a) == TickDelete(a) /\ registry'[a] = None

BackendRecovers == \A a \in Addrs : SF_vars(Deletes(a))

RetrySpec == Spec /\ Scheduling /\ BackendRecovers
FairSpec == RetrySpec /\ OutsideRecovers

-----------------------------------------------------------------------------
(* Properties.                                                             *)

\* Something will still bring the funds of an address to forward_address.
Covered(a) ==
    \/ a \in unscanned \cup scan \cup owed \cup tick.added \cup tick.due
    \/ worker[a] \in {"begin", "query", "funded", "fee", "submit", "sent"}
    \/ retry[a].failures > 0

\* The tick under way is about to take the address off the live list.
Leaving(a) == tick.pc \in {"retire", "delete", "swap"} /\ a \notin tick.kept

\* A live address with funds is never left with nobody to look at it: its deposit
\* is still to be scanned, or triggered, or being forwarded, or due for a retry
\* ("must not strand the deposit"), across crashes, failed store writes and
\* retirements.  Stale answers and skipped blocks are left to the balance poll.
NoStrandedDeposit ==
    ~ StaleReads /\ ~ ScannerSkips
    => \A a \in live \cap funds : Covered(a) \/ Leaving(a)

\* What the tasks and the outside do to the dispatcher is what TriggerService
\* allows its users, and what Dispatcher is shown to keep: nobody takes a trigger
\* back or starts a second run of an address.  Only a crash loses triggers and runs.
TS == INSTANCE TriggerService WITH running <- {a \in Addrs : worker[a] # "idle"}

UsesTriggerService ==
    TS!TSInit /\ [][TS!TSNext \/ Restart]_(TS!tsvars)

\* The live list follows the registry: an address stays live without a row only
\* until the tick that deleted the row swaps the list, or if a row of it went to a
\* DELETE that the relayer had given up.
LiveIsRegistered ==
    \A a \in live : registry[a] # None \/ Leaving(a) \/ a \in overrun

\* No forward is attempted inside a persisted backoff window, restarts included
\* ("so a crash does not reset every request to an immediate re-attempt").
BackoffSurvivesRestart ==
    [][\A a \in Addrs :
         worker[a] = "begin" /\ worker'[a] = "query"
         => retryDb[a].failures = 0 \/ retryDb[a].wait <= 0]_vars

\* An address is retired only when its timer has run out, the inactivity timer if the
\* store knows of any activity and otherwise the age timer of the row it has now: a
\* restart does not put an active address back on the short timer of an unfunded one,
\* and the list the tick fetched is out of date only about a row that went to a DELETE
\* the relayer had given up (the one registered in its place is retired by the old age).
RetiresOnlyExpired ==
    [][\A a \in tick'.retire \ tick.retire :
         IF activityDb[a] = None THEN Expired(registry[a], AgeLimit) \/ a \in overrun
                                 ELSE Expired(activityDb[a], InactivityLimit)]_vars

\* An address that is live without a row, whether its row went to the tick's DELETE or
\* to one that was given up, does not stay so: the swap of this tick or of a later one
\* takes it off the list, or it is registered again.
GhostsLeave ==
    \A a \in Addrs : (a \in live /\ registry[a] = None)
                     ~> (a \notin live \/ registry[a] # None)

\* Funds at a registered address are forwarded in the end, whatever fails on the
\* way a finite number of times in a row and however often the relayer restarts:
\* by scanner, probe and retry alone, and by the balance poll if answers are stale
\* and blocks are skipped.  Only with retention limits may the request be dropped.
Delivered ==
    \A a \in Addrs : (a \in funds /\ registry[a] # None)
                     ~> (a \notin funds \/ (mode.limits /\ registry[a] = None))

\* "mark the address active and refresh its inactivity timer so it is not retired
\* while it still holds funds": no row is deleted while the address holds funds
\* and its activity is within the limit.
FundedActiveNotRetired ==
    [][\A a \in Addrs :
         registry[a] # None /\ registry'[a] = None
         => ~ (a \in funds /\ activity[a] # None
               /\ ~ Expired(activity[a], InactivityLimit))]_vars

\* "reused for every subsequent attempt until the request is dropped for exceeding
\* its max age": a request whose forwards keep failing is dropped in the end.
FailingRequestDropped ==
    \A a \in Addrs : (a \in funds /\ registry[a] # None)
                     ~> (a \notin funds \/ registry[a] = None)
=============================================================================
