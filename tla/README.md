# Formal model of the forwarding relayer

TLA+ specifications of the relayer in `src/`, the TLC configurations that check
them on small instances, and TLAPS proofs of the results that matter most.
All paths below are relative to the repository root.

## 1. The system

A user registers a *forwarding address* with the **backend** (an HTTP service
over SQLite). Coins sent to the address on Celestia are to be forwarded over
Hyperlane by a `MsgForward` transaction that the **relayer** submits.

| part | source | state | operations |
|---|---|---|---|
| backend registry | `src/backend.rs` | one row per address with the request it was created from; the gauges | create (idempotent, checks the derivation), list, remove, refresh of the gauges |
| maintenance tick | `src/relayer.rs` `maintenance_tick` | the live list | fetch the registry, retire expired addresses, swap the list, prune, probe new addresses, re-enqueue due retries |
| block scanner | `src/scanner.rs` | height cursor (memory and store), current RPC endpoint, stuck-height tracker | bootstrap, session, fetch, failover, evidence, skip |
| balance poll | `run_balance_poll` | a sweep in progress | trigger every live address |
| dispatcher | `run_dispatcher` | trigger channel, in-flight map with dirty flags, permits, spawned tasks | receive, spawn, finish, release, re-enqueue |
| forward worker | `forward_address` | backoff and activity of the address (memory and store) | query balance, resolve fee, submit, record the outcome |
| fee resolution | `resolve_max_igp_fee`, `hook_binding`, `query_igp_fee` | the fee cache | hit, miss, quote, insert |
| retry store | `RetryStore` | tables retry_state, address_activity, scan_state | load, upsert, remove, retain |
| gRPC client | `src/client.rs` | preferred endpoint index | query with failover, submit without |
| address derivation | `src/lib.rs` | none | from destination, recipient, token, hook and metadata to an address |
| endpoint lists | `src/auth.rs` | none | parsing, redaction |

The scanner, the tick and the poll produce triggers into one bounded channel; the
dispatcher runs at most one `forward_address` per address and at most
`forward_concurrency` altogether. The live list, the retry and activity maps, the
fee cache and the store are shared between all tasks behind short locks that are
never held across an await. Everything but the store and the backend is lost in a
crash.

What is hard here: a trigger that meets a run already past its balance query; a
submission that times out and lands later; decisions of the tick used after its
awaits; a crash with the queue lost and the live list empty; a deposit scanned
while its address is not live; RPC nodes that prune, lag, go down, or announce a
block before its results are readable; evidence gathered from one node after the
other; a cache shared by requests that differ in what it does not key on; a map and
its table written under two locks while the tick clears them; an endpoint preference
stored by calls that loaded it long ago; a DELETE whose caller no longer waits. The list
with source lines is under `hazards` in `PROJECT.json`.

What makes the parts correct:

* dispatcher: no trigger is lost, no address runs twice at once, nobody deadlocks;
* forward worker and tick: funds of a registered address always have something
  that will bring them to a forward, and in the end they are forwarded; backoff and
  activity survive a restart; only expired addresses are retired;
* scanner: the cursor leaves no gap, skips need evidence, no height blocks for ever;
* fee: an offer is enough for what it was quoted for, a bad entry does not stop a
  forward for good;
* retry store: what a restart reads back is what memory had, and nothing that was cleared;
* gRPC client: a query fails only for want of an endpoint, the preference comes to rest;
* backend: an address stands for one meaning, as far as its layout goes, a client gets the
  row it asked for, only decided rows are deleted.

## 2. Modules

| module | models | composes |
|---|---|---|
| `TriggerService` | what the dispatcher promises: an owed address, a running address | |
| `Dispatcher` | `run_dispatcher`, step by step between awaits and locks | instantiates `TriggerService` |
| `Relayer` | `forward_address`, `maintenance_tick`, `run_balance_poll`, the matching half of `scan_to`, restart, and the outside: balances, registry, time | instantiates `TriggerService`, which it uses the dispatcher as |
| `Scanner` | `run_block_scanner` and everything below it; chain and RPC nodes as the outside | its skips are `ScanSkip` of `Relayer` |
| `FeeQuote` | fee cache, hook binding and quotes for concurrent requests | the fee step of `Relayer` |
| `StoreMirror` | retry state and activity in memory and in the store, one lock at a time | the pairs `retry`/`retryDb`, `activity`/`activityDb` of `Relayer` |
| `GrpcClient` | `CelestiaClient`: failover, rotation, the shared preference | the query and submission steps of `Relayer` and `FeeQuote` |
| `AddressDerivation` | `derive_forwarding_address` up to the bytes it hashes | |
| `Backend` | the HTTP handlers, the table, the gauge refreshes, the relayer's listing and DELETEs | extends `AddressDerivation`; the registry of `Relayer` |
| `MC*` | the values and small helpers of the TLC instances | extend the module they name |
| `*Proofs` | theorems and proofs | extend the module they name |

Operators prefixed `Mut` are variants of the definition that follows them with a
plausible bug put in. They are in no specification; replacing the definition by
its variant must break the property listed with it under `mutants`.

### Dispatcher

`queue` is the mpsc channel, `inFlight` the map (`none`, `clean`, `dirty` for
absent, false, true), `held` the address whose permit the loop is waiting for,
`permits` the semaphore, `task` the spawned tasks. `Recv` is the loop up to
`acquire_owned`, `Spawn` what follows, `Finish`, `Release`, `Send` the three parts
of a task. `Trigger` is any producer's `send`. The refinement mapping collects an
owed address from the four places a trigger can be in: channel, `held`, dirty flag,
a task on its way to re-enqueue.
`TriggersServed` alone may be met by a run begun before the trigger; that a trigger leaves
the owed addresses only with a start (the refinement) makes it one that begins after it.

### Relayer

One step per stretch of code between awaits. `worker[a]` is the program counter of
`forward_address`; `Begin` to `Submitted` are its steps and `Fail` its three error
exits, including a submission that timed out with its transaction still in `tx`.
`Land` executes a broadcast transaction at any later time. `UsesTriggerService` states
that `owed` and the running workers change only as `TriggerService` allows, so that the
promise this module builds on is the one `Dispatcher` is shown to keep. `tick` is the program
counter and the locals of `maintenance_tick`, from `TickFetch` to `TickSleep`.
`tick.requests` are the rows as they were fetched, with their ages, and
`retirement_reason` goes by these, as the code does by the `created_at` of its list,
whatever has become of the rows since. A fetch that fails is a stuttering step.
Balances are abstracted to "non-zero", blocks to "deposits above the cursor"
(`unscanned`). A funded address stays in `unscanned` until it is matched, so the
order of blocks does not matter for what is checked.

Time is relative. An age grows up to one past the limit it is compared with, a
backoff counts down to at most `MaxLag` below zero, the lag that one tick may
accumulate between taking `now` and using it. So behaviours do not run out of time
and liveness can be checked on a finite graph. `failures` is capped at the length
of the schedule, where `retry_delay` saturates.

`Restart` is a crash at any point followed by `Relayer::new`. `StoreMayFail` lets
every write and load of the store fail. `mode`, chosen once from `Modes`, is the
configuration and the outside it meets: whether the retention limits apply, whether
the balance poll is on, whether a balance query may answer with an older balance
(`StaleReads`), whether the scanner may pass over a block (`ScannerSkips`; a scanner
task that has ended passes over all of them), whether a DELETE may be served after the
relayer gave it up (`LateDeletes`), and whether anybody deposits (`Deposits`).

A DELETE is given up when the HTTP client's timeout ends it, or when the relayer dies
while it is on its way (`GiveUp`); then it is in `overdue` until the backend serves it
(`LateDelete`), whatever has been registered since. `overrun` is history: the addresses
whose row went that way, and which no tick has fetched with a row since. Two properties
have to except them. An address that was registered again and is live loses its row
without the relayer's knowing (`LiveIsRegistered`). And when the row goes between the
tick's fetch and its decision and another is registered, the new one is retired by the
age of the old (`RetiresOnlyExpired`, which TLC finds violated without the exception).
What the code does keep is `GhostsLeave`: an address that is live without a row does not
stay so.

### Scanner

`pc` is what `run_block_scanner` is doing. `BootPersisted`, `BootStart`, `BootTip`,
`BootExit` establish the cursor; `Connect`, `FetchBlock`, `NewBlock`, `SessionEnds`,
`SessionFails` are a session; `AskInVain`, `AskStatus`, `AskProbe` gather evidence,
one await per step; `Assess` is the verdict and what follows from it. Nodes sync,
prune, go down and come back in between. `mode`, chosen once from `Modes`, has the
configured start height (`StartHeight`), the heights an endpoint never serves
(`Corrupt`), how often an endpoint goes down (`MaxOutages`) and whether reads and writes
of the cursor may fail (`StoreMayFail`). A height within `IndexLag` of a node's tip may be answered as if it were
empty; `IndexLag <= Depth` is the assumption under which the confirmation depth is
chosen (`block_confirmation_depth`), and dropping the depth breaks `NoGap`.
`fate`, `base` and `seenBad` are history variables: what became of each height,
where the cursor was established, and whether the last assessment had already found
the height unservable. The clock of the tracker stops at the timeout. `NoGap` counts
from `base`: a failed read of the persisted cursor establishes the cursor anew at the tip,
and what lies before is passed over. For `Relayer` that is a skipped block.

### FeeQuote

`cache` by domain and token, each entry with its age and, as history, the binding it
was quoted for. A quote that fails on all endpoints is `0` and is cached like any
other. The chain's price by binding and its acceptance rule (`Accepted`) are
external: from `src/lib.rs` (the address commits to the pair) and `RELAYER.md`.

The cache key has the domain and the token only, so requests that are bound otherwise
(`Rivals`) overwrite each other's fee; that an offer is for the request's own binding
(`QuotedForBinding`) does not hold (`fee_shared`). `OffersEnough` and `ForwardsGoThrough`
are stated for this code: an offer is enough for the binding it was quoted for, the
request's own or a rival's, and a forward goes through unless rivals keep putting their
own fee in the cache or the configured hook is not the one the address is bound to.

### StoreMirror

`Relayer` takes a map and its table for one thing. Here each operation is the two
critical sections of the code: `record_activity` and `note_failure` write the table,
then the map (`put1`, `put2`), `clear_retry_state` and `clear_activity` the other way
round (`clear1`, `clear2`), and the tick prunes two maps and then both tables. What a
forward finds, and which addresses expire, is left open. `cut` is history: the rows
the tick removed under an entry of memory. Writes that fail are in `Relayer`.

Such an entry without a row is what the code leaves behind when a retirement meets a
forward between its two sections. It is harmless, since either the address is gone
from the registry and the next tick prunes the entry (`LeftoversPruned`), or it is
registered and the next write restores the row; a restart in between forgets it.

### GrpcClient

`current` is the atomic index, `call[t]` the call a task is in with the index it loaded
at its start. `QueryAnswered`, `QueryRefused` are an iteration of `with_failover`,
`SubmitAccepted`, `SubmitFailed` the end of `submit_forward`; a timeout is a refusal.
Endpoints serve queries and submissions independently and change between any two
steps (`Flip`). `steady` is history: who has served queries since the call began.

`SettlesOnHealthy` assumes an endpoint that serves both. Where each endpoint serves
only one of the two, a failed submission moves the preference on, the next balance
query moves it back, and the retry submits to the endpoint that refused. The comment
at `src/client.rs:353` ("retries against the fallback") holds with a healthy fallback.

### AddressDerivation and Backend

A text field is absent, not hex, or hex with or without `0x`. The hashes are taken to be
collision-free, so an address is the byte string that is hashed. `Meaning` is what the
client asks the chain for, read off the request's bytes with the chain's rule that an
empty or zero hook is the default one; it does not use the code's `HookBytes` and
`MetadataBytes`, so that a mistake in these shows.

The code checks the width of the recipient and of the hook but not of the token id. A
token id may therefore go on in the bytes that are the binding of another request
(`Ambiguous`), and the two share an address: `CannotCollide`, the comment at
`src/lib.rs:235`, is refuted (`backend_token`). `AnsweredWithMine` excepts exactly such
pairs. Whether the chain takes token ids of other widths is not in the repository.

`handler` holds a POST of each client, the tick's DELETE, one DELETE the relayer no
longer waits for (its HTTP client's timeout), and the refresh loop: the table under its
mutex is one step, the count read by a refresh and the gauge set from it are two.
POSTs that are refused (400) or fail (500) change nothing and are left out. Metrics are
enabled; the gauge with the age of the oldest row is left out, as are the counters.
The backend may restart at any time, and rows survive it.

## 3. Runs

Passing runs:

| run | instance | shows |
|---|---|---|
| `dispatcher` | 2 addresses, 2 permits, channel of 1, 4 outstanding triggers, 6 tasks | `AtMostOneForward`, `PermitsConserved`, `InFlightOwned`, `NoWaitCycle`, refinement of `TriggerService`; `TriggersServed` under fairness, with the channel full, the permits taken and a task re-enqueueing all at once |
| `relayer` | 1 address, 1-step backoff, any number of crashes; modes: limits 0 and 1 without a poll, no limits and no poll, poll with stale reads and skipped blocks, late DELETEs without deposits | `UsesTriggerService`, `NoStrandedDeposit`, `LiveIsRegistered`, `BackoffSurvivesRestart`, `RetiresOnlyExpired`, `GhostsLeave`; `Delivered` by scanner, probe and retry alone, and with the poll as the backstop |
| `mirror` | 1 address, failure counts and timestamps of 2 values, 1 crash | `NoGhostRows`, `LostOnlyByRetirement`, `LeftoversPruned` |
| `scanner` | 2 endpoints, 3 heights, depth 1, any number of crashes; modes: a height one endpoint misses and a failing store; a height for failover, a height for a skip and 1 outage | `NoGap`, `SkipsNeedEvidence`, `CatchesUp` |
| `fee` | 3 requests of one key, one of them a rival of the other two, 2 mishaps, prices 5 and 15 with a buffer of 11/10 | `OffersEnough`, `ForwardsGoThrough` |
| `grpc` | 3 endpoints, 2 tasks, 2 changes of what is served | `FailsOnlyUnserved`, `SettlesOnHealthy` |
| `backend` | 1 client, 5 requests with tokens of 2 lengths, 2 rows ever, DELETEs of 1 address given up | `AnsweredWithMine`, `OneRowPerMeaning`, `DeletesDecidedRows`, `GaugeCatchesUp` |

Runs whose property states what a comment or doc says, and which TLC refutes:

| run | what the code does |
|---|---|
| `relayer_retire` | `maintenance_tick` retires an address that became active after it took its snapshot, in the run during the DELETE of that address |
| `relayer_drop` | a request whose forwards keep failing refreshes its own timer and is never dropped |
| `scanner_outage` | the stuck clock runs through an outage, so that one failed probe afterwards skips the height |
| `fee_shared` | the cache key leaves the hook binding out: a forward offers another binding's fee |
| `backend_token` | the width of a token id is not checked: a bound request and an unbound one share an address and its row |

`findings` in `PROJECT.json` quotes the lines.

Why the bounds are enough. `Relayer` has no step in which one address reads or
writes state of another except the sequence of the tick's retirements, so one
address shows the interleavings of its own run, the tick, the scanner, the poll and
a restart; the theorems are for any set. Late DELETEs are checked in a mode of their own,
in which nobody deposits: they touch the registry only, which a forward does not read, and
the theorems cover both together. `NoWaitCycle` counts a free permit as a step the
dispatcher can take; the bound on task identities is the model's, the code spawns as many
as it has permits and waiting senders. Four outstanding
triggers with a channel of one slot let the channel be full while the dispatcher holds
an address, a run is marked dirty and a task waits to re-enqueue. Limits of 0 and 1 and a
backoff of one tick reach every comparison on both sides; failures saturate from the
second on, as the code's do from the last of the schedule on. `StoreMirror` has no step
that two addresses share but the order of retirements. Three endpoints tell the next one
from the previous one in the ring, and two tasks are the least for a late store. Two rows
are the least for a row that replaces a deleted one, and one client is enough since the
tick, the late DELETE and the loop are the others; the five requests are a long token with
the default hook in two spellings, a short one with a hook of the bytes the long one ends
in, the same bytes as metadata, and an invalid one. Prices of 5 and 15 make the buffered
fee 5.5 and 16.5, which is cut off. Three heights with
depth 1 hold a pruned, an unservable and an unconfirmed height; two endpoints are
enough for partial and for unanimous testimony. The outage and the failing store are in
modes of their own: the one is about the endpoints, the other about the cursor at a start,
and the theorems cover both together. `MCScanner.cfg` switches deadlock
checking off since the scanner may end (`BootExit`).

### Fairness

* `Dispatcher`: tokio polls every task that can run, so each step is weakly fair.
  `Send` is strongly fair because tokio's channel serves waiting senders in order.
  `forward_address` ends because its awaits have timeouts.
* `Relayer`: every task is polled, every await ends, time passes, and crashes, however
  many, come to an end (`Scheduling`).
  `Delivered` needs more of the outside: of infinitely many balance queries, quotes,
  broadcasts and transactions of an address one succeeds (`OutsideRecovers`), and so
  for DELETEs (`BackendRecovers`). `FailingRequestDropped` is refuted with `RetrySpec`,
  where forwards may fail for ever but every task runs.
* `Scanner`: the task is polled, requests time out, nodes come back and sync, an
  endpoint that is up does not refuse every session or every fetch of a block it
  can serve, and crashes come to an end.
* `StoreMirror`: the awaits of a forward and of the tick end, the backend answers a
  fetch in the end.
* `GrpcClient`: calls time out and tasks go on. `SettlesOnHealthy` also needs that tasks
  go on finding funds to submit, since only a submission tells an endpoint that serves
  nothing but queries from a healthy one.
* `Backend`: handlers and the loop are polled, and not every refresh of the loop fails.
  No fairness is put on clients or on the relayer.
* `FeeQuote`: time passes, runs proceed, an acceptable submission does not fail for ever.

## 4. Proofs

Proved for all values of the constants (assumptions are the named `ASSUME`s of
each module):

* `DispatcherProofs`: `TypeCorrect`, `ForwardsExclusive`, `InFlightMapExact`,
  `PermitsNeverLeak`, `RefinesTriggerService`, `NobodyWaitsForAll`. `AtMostOneForward` is not inductive:
  a second `Spawn` is excluded because a held address has an in-flight entry of its
  own, hence `InFlightOwned` and `HeldClean` join the invariant. The permit count
  follows from the cardinality of the holders. For the refinement each step is
  shown to keep `Owed` (a trigger moves from the channel to `held` or to the dirty
  flag, from there to the task, and back to the channel) or to be a start or an end.
  `NobodyWaitsForAll` (`NoWaitCycle`) is the static half of `TriggersServed`: with permits
  conserved, no permit free means that some task holds one, and a task drops it before it
  waits for the channel.
* `RelayerProofs`: `DepositsNeverStranded`, for fresh answers and no skipped block
  (with stale answers or skipped blocks the invariant is false and the poll is
  needed). The strengthening `Guarded` says that a run which saw an empty balance or
  whose forward landed, and which is about to erase the backoff, leaves funds that
  came in meanwhile to a trigger already on its way; `TickShape` that the probes the
  tick owes are exactly the addresses its swap will add. Failing stores and any
  number of crashes are included.
  `TypeCorrect` includes that the capped retry counter stays inside the schedule it
  indexes, and ages and lags inside their bounds.
  `LiveFollowsRegistry` (`LiveIsRegistered`) needs `Listed`: what the tick fetched still has
  a row when it decides, what it keeps still has one when it swaps, and it deletes nothing
  that it keeps; each up to a late DELETE.
  `BackoffOutlivesRestart` and `RetirementNeedsExpiry` (`BackoffSurvivesRestart`,
  `RetiresOnlyExpired`) rest on `Mirrored`, the tables equal the maps, and so on
  `~ StoreMayFail`. The hypothesis cannot be dropped: after a write that failed the
  code acts on memory, which is then not what the store has on record.
  `RetirementNeedsExpiry` also needs `Current` (`Listed`): a fetched row is the present one
  or went to a late DELETE since, so that the age the code decides by is that of the row.
  `DispatcherUsedAsPromised` (`UsesTriggerService`) shows each step to be one of
  `TriggerService`, a stutter of it, or the crash. Together with `RefinesTriggerService` it
  ties the two modules at their interface, for all constants.
* `FeeQuoteProofs`: `TypeCorrect`, `OffersCoverPrice`, for any bindings behind a cache key
  and any buffer (`OffersEnough` itself speaks of buffers of at least one; the code takes
  any). `Quoted` adds to it what a usable cache entry and an answer not yet cached are: a
  quote for the binding of some request with the key (`Asked`), and, until something goes
  wrong, enough for it at today's price (`Covers`), which buffering and cutting off keep
  (`BufferedCovers`).
* `ScannerProofs`: `TypeCorrect`, `CursorLeavesNoGap`, `NoSkipWithoutEvidence`. The
  invariant adds `TargetConfirmed` (a session never aims past what its node has
  confirmed, so with `IndexLag <= Depth` what it reads is indexed) and
  `EvidenceHolds` (what an endpoint said of its retention stays a lower bound of
  what it retains, so testimony gathered over several awaits can be acted on).
* `StoreMirrorProofs`: `TypeCorrect`, `RestartResurrectsNothing`,
  `RestartForgetsOnlyRetired`. The two properties speak of operations at rest, so the
  invariant adds what one in the middle knows (`ForwardShape`): before the second section
  of a write the table has the value that is to go into the map, or the tick has taken
  it away and `cut` says so; before the second section of a removal the map is empty.
* `GrpcClientProofs`: `TypeCorrect`, `FailoverIsComplete`. `QueryProgress` says that no
  endpoint tried so far has served throughout; `RingCovers` that a round of the ring
  passes every endpoint from any start, for any number of them.
* `BackendProofs`: `AddressesBind` (two valid requests with one address have one meaning,
  or one is `Ambiguous` to the other), for token ids of any length. The domain and the
  recipient have fixed widths and split off. If the token ids are of one length they split
  off too; the binding at the end is empty or at least `Width` long, which tells a bound
  request from an unbound one, and the block of zeros in front tells metadata from a hook.
  If not, the shorter one begins the longer one and has a binding behind it
  (`ShorterPrefix`). `MeaningRead` shows that the code normalises the hook as the chain
  does. From these `RegisteredAsAsked`, with `Derived` (a row's request derives to its
  address). `NothingElseDeleted` needs `Decided`: rows
  decided on are in the table until their DELETE is served, unless one of their address was
  given up, so that no new row can stand in their place. `TypeCorrect` includes that the address is a key.
  `SpellingIrrelevant`, requests with one meaning have one address, gives
  `MeaningsShareRow` (`OneRowPerMeaning`) with the key.

Every invariant and every action property of a passing run is a theorem, and so is the
refinement of `TriggerService`. Only model-checked are the liveness properties
(`TriggersServed`, `Delivered`, `GhostsLeave`, `LeftoversPruned`, `CatchesUp`, `ForwardsGoThrough`,
`SettlesOnHealthy`, `GaugeCatchesUp`), since liveness under fairness is outside what the
prover does.

## 5. Not modelled, and the plan

Not modelled, with the reason:

* hashing and bech32 of the address: bytes whose correctness is in test vectors;
* parsing of block events (`extract_deposits` appears as "the block holds a deposit to the
  address"), endpoint lists, timestamps and hex digits: pure and local;
* metrics other than the gauge of pending requests, the command line, generated
  protobuf code, the end-to-end harness: no state of the services;
* panics of a task: the dispatcher would keep the in-flight entry of a task that panics;
* clock skew between the backend, whose `created_at` the relayer compares with its own
  time;
* a broken store in `StoreMirror` (its writes succeed; the failing ones are in `Relayer`
  and `Scanner`, map and table as one step).

Plan, in this order:

1. The scanner's promise as an abstract specification (blocks handed over in order, again
   after a crash, passed over only with evidence), implemented by `Scanner` and used by
   `Relayer`, as `TriggerService` is for the dispatcher. `NoGap` and `SkipsNeedEvidence`
   are that promise stated on `Scanner`'s own state.
2. `StoreMirror` shown to implement one map per table for addresses that are not being
   retired, which is how `Relayer` uses it; `NoGhostRows` and `LostOnlyByRetirement` are
   the two inclusions of that equality.
3. Endpoints in `GrpcClient` that serve queries or submissions only, as a fairness-free
   statement of which endpoint a retry reaches.
