------------------------------ MODULE Scanner ------------------------------
(***************************************************************************)
(* The block scanner (src/scanner.rs): the height cursor and its persisted *)
(* copy, scan sessions against one RPC endpoint at a time, failover to the *)
(* next endpoint, and the recovery that moves the cursor past a height     *)
(* only on evidence gathered from every endpoint.                          *)
(*                                                                         *)
(* Outside it: a chain that grows, endpoints that go down and come back,   *)
(* lag behind the chain, prune old heights, cannot serve some heights at   *)
(* all, fail now and then, and answer for a height they have not indexed   *)
(* yet as if it were empty.  What a block holds, and its matching against  *)
(* the live list, is in module Relayer.                                    *)
(***************************************************************************)
EXTENDS Integers

CONSTANTS
    Endpoints,     \* the endpoints are 1..Endpoints, the first is the primary
    MaxHeight,     \* bound: the last block of the chain
    Depth,         \* block_confirmation_depth
    IndexLag,      \* blocks by which a node's index trails its tip
    Timeout,       \* scan_timeout, in ticks of the clock
    Modes          \* configurations to start with, see variable mode

Eps == 1..Endpoints
Heights == 1..MaxHeight

ASSUME EndpointAssumption == Endpoints \in Nat \ {0}
ASSUME NumberAssumption ==
    /\ MaxHeight \in Nat \ {0} /\ Depth \in Nat /\ IndexLag \in Nat
    /\ Timeout \in Nat
ASSUME DepthAssumption == IndexLag <= Depth
ASSUME ModeAssumption ==
    \A m \in Modes : /\ m.start \in Nat /\ m.outages \in Nat
                     /\ m.corrupt \subseteq Eps \X Heights
                     /\ m.storeFails \in BOOLEAN

None == -1

VARIABLES
    tip,        \* height of the chain
    up,         \* endpoints that answer
    earliest,   \* earliest_block_height of each endpoint
    latest,     \* latest_block_height of each endpoint
    outages,    \* outages so far
    mode,       \* the configuration and the outside it meets; never changes
    pc,         \* what run_block_scanner is doing
    cursor,     \* last height done with
    persisted,  \* the cursor in the store, or None
    current,    \* endpoint of the session
    target,     \* where scan_to stops
    stuck,      \* the tracker: the height stuck on, and for how long
    late,       \* local of recover_pruned: elapsed >= timeout
    asked,      \* endpoints asked for evidence so far
    evidence,   \* what they said
    base,       \* history: where the cursor was established
    fate,       \* history: what became of each height
    seenBad     \* history: the last assessment already found the height unservable

chain == <<tip, up, earliest, latest, outages, mode>>
session == <<current, target>>
recovery == <<stuck, late, asked, evidence>>
history == <<base, fate, seenBad>>
vars == <<chain, pc, cursor, persisted, session, recovery, history>>

StartHeight == mode.start        \* block_scan_start_height, 0 when unset
Corrupt == mode.corrupt          \* pairs <<e, h>>: endpoint e can never serve height h
MaxOutages == mode.outages       \* bound: times an endpoint goes down
StoreMayFail == mode.storeFails  \* a read or a write of the cursor may fail

NotStuck == [height |-> None, elapsed |-> 0]

Testimony == [ep : Eps, earliest : 1..(MaxHeight + 1),
              probe : {"todo", "ok", "failed", "none"}]

TypeOK ==
    /\ tip \in Heights
    /\ up \subseteq Eps
    /\ earliest \in [Eps -> 1..(MaxHeight + 1)]
    /\ latest \in [Eps -> 0..MaxHeight]
    /\ outages \in 0..MaxOutages
    /\ mode \in Modes
    /\ pc \in {"boot", "connect", "scan", "recover", "exited"}
    /\ cursor \in Nat
    /\ persisted \in Nat \cup {None}
    /\ current \in Eps
    /\ target \in 0..MaxHeight
    /\ stuck \in [height : Nat \cup {None}, elapsed : 0..Timeout]
    /\ late \in BOOLEAN
    /\ asked \in 0..Endpoints
    /\ evidence \subseteq Testimony
    /\ base \in Nat
    /\ fate \in [Heights -> {"unread", "read", "missed", "pruned", "unservable"}]
    /\ seenBad \in BOOLEAN

Init ==
    /\ tip = 1
    /\ up = Eps
    /\ earliest = [e \in Eps |-> 1]
    /\ latest = [e \in Eps |-> 1]
    /\ outages = 0
    /\ mode \in Modes
    /\ pc = "boot"
    /\ cursor = 0 /\ persisted = None
    /\ current = 1 /\ target = 0
    /\ stuck = NotStuck /\ late = FALSE
    /\ asked = 0 /\ evidence = {}
    /\ base = 0
    /\ fate = [h \in Heights |-> "unread"]
    /\ seenBad = FALSE

-----------------------------------------------------------------------------
(* The chain and its nodes.                                                *)

Machine == <<mode, pc, cursor, persisted, session, late, asked, evidence, history>>

Grow ==
    /\ tip < MaxHeight
    /\ tip' = tip + 1
    /\ UNCHANGED <<up, earliest, latest, outages, stuck, Machine>>

\* A node that is up executes the next block it has not got.
Sync(e) ==
    /\ e \in up
    /\ latest[e] < tip
    /\ latest' = [latest EXCEPT ![e] = @ + 1]
    /\ UNCHANGED <<tip, up, earliest, outages, stuck, Machine>>

\* A node drops the oldest height it retains; its tip is never dropped.
Prune(e) ==
    /\ earliest[e] < latest[e]
    /\ earliest' = [earliest EXCEPT ![e] = @ + 1]
    /\ UNCHANGED <<tip, up, latest, outages, stuck, Machine>>

GoDown(e) ==
    /\ e \in up
    /\ outages < MaxOutages
    /\ outages' = outages + 1
    /\ up' = up \ {e}
    /\ UNCHANGED <<tip, earliest, latest, stuck, Machine>>

ComeUp(e) ==
    /\ e \notin up
    /\ up' = up \cup {e}
    /\ UNCHANGED <<tip, earliest, latest, outages, stuck, Machine>>

\* The clock of the stuck-height tracker, as far as the timeout.
Advance ==
    /\ stuck.height # None
    /\ stuck.elapsed < Timeout
    /\ stuck' = [stuck EXCEPT !.elapsed = @ + 1]
    /\ UNCHANGED <<chain, Machine>>

Servable(e, h) ==
    e \in up /\ earliest[e] <= h /\ h <= latest[e] /\ <<e, h>> \notin Corrupt

-----------------------------------------------------------------------------
(* run_block_scanner.                                                      *)

\* Bug variant: the tip itself is taken as confirmed.
MutConfirmed(h) == h

\* saturating_sub(confirmation_depth).
Confirmed(h) == IF h > Depth THEN h - Depth ELSE 0

\* store_height: a failure is only logged.
store_height(h) == persisted' \in IF StoreMayFail THEN {persisted, h} ELSE {h}

\* A cursor that does not come from the store: heights below it are not scanned.
Bootstrap(h) ==
    /\ cursor' = h
    /\ base' = IF h > base THEN h ELSE base
    /\ store_height(h)
    /\ pc' = "connect"
    /\ UNCHANGED <<chain, session, recovery, fate, seenBad>>

\* The cursor of the last run.
BootPersisted ==
    /\ pc = "boot"
    /\ persisted # None
    /\ cursor' = persisted
    /\ pc' = "connect"
    /\ UNCHANGED <<chain, persisted, session, recovery, history>>

\* No cursor: the configured start, which is itself scanned.
BootStart ==
    /\ pc = "boot"
    /\ persisted = None
    /\ StartHeight > 0
    /\ Bootstrap(StartHeight - 1)

\* No cursor and no start: the tip of an endpoint that answers, those before it
\* having failed when they were asked.  The same if the store cannot be read.
BootTip(e) ==
    /\ pc = "boot"
    /\ StoreMayFail \/ (persisted = None /\ StartHeight = 0)
    /\ e \in up
    /\ Bootstrap(latest[e])

\* Each endpoint failed when it was asked: the scanner task ends with an error and
\* is not restarted.
BootExit ==
    /\ pc = "boot"
    /\ StoreMayFail \/ (persisted = None /\ StartHeight = 0)
    /\ pc' = "exited"
    /\ UNCHANGED <<chain, cursor, persisted, session, recovery, history>>

\* Subscribe, read the node's tip, and catch up with what it confirms.
Connect ==
    /\ pc = "connect"
    /\ current \in up
    /\ target' = Confirmed(latest[current])
    /\ pc' = "scan"
    /\ UNCHANGED <<chain, cursor, persisted, current, recovery, history>>

\* scan_to: one block is fetched, its deposits are sent, and the cursor moves.
\* A height inside the node's indexing window may come back empty.
FetchBlock ==
    /\ pc = "scan"
    /\ cursor < target
    /\ LET h == cursor + 1 IN
         /\ Servable(current, h)
         /\ \E what \in IF h + IndexLag <= latest[current]
                        THEN {"read"} ELSE {"read", "missed"} :
              fate' = [fate EXCEPT ![h] = what]
         /\ cursor' = h
         /\ store_height(h)
    /\ seenBad' = FALSE
    /\ UNCHANGED <<chain, pc, session, recovery, base>>

\* The next NewBlock event of the subscription, which may be an old one.
NewBlock ==
    /\ pc = "scan"
    /\ cursor >= target
    /\ current \in up
    /\ \E h \in 1..latest[current] : target' = Confirmed(h) /\ Confirmed(h) > cursor
    /\ UNCHANGED <<chain, pc, cursor, persisted, current, recovery, history>>

\* The subscription ends cleanly: same endpoint again, the tracker is cleared.
SessionEnds ==
    /\ pc = "scan"
    /\ cursor >= target
    /\ pc' = "connect"
    /\ stuck' = NotStuck
    /\ UNCHANGED <<chain, cursor, persisted, session, late, asked, evidence,
                   history>>

\* Bug variant: the rotation does not wrap around.
MutSessionFails ==
    /\ pc \in {"connect", "scan"}
    /\ pc' = "recover"
    /\ current' = current + 1
    /\ stuck' = IF stuck.height = cursor + 1 THEN stuck
                ELSE [height |-> cursor + 1, elapsed |-> 0]
    /\ late' = (stuck'.elapsed >= Timeout)
    /\ asked' = 0
    /\ evidence' = {}
    /\ UNCHANGED <<chain, cursor, persisted, target, history>>

\* Bug variant: every failed session restarts the clock of the height.
MutRestartClock ==
    /\ pc \in {"connect", "scan"}
    /\ pc' = "recover"
    /\ current' = (current % Endpoints) + 1
    /\ stuck' = [height |-> cursor + 1, elapsed |-> 0]
    /\ late' = (stuck'.elapsed >= Timeout)
    /\ asked' = 0
    /\ evidence' = {}
    /\ UNCHANGED <<chain, cursor, persisted, target, history>>

\* The connection, the subscription or a fetch fails: rotate to the next endpoint
\* and enter recover_pruned, whose tracker starts afresh for a new height.
SessionFails ==
    /\ pc \in {"connect", "scan"}
    /\ pc' = "recover"
    /\ current' = (current % Endpoints) + 1
    /\ stuck' = IF stuck.height = cursor + 1 THEN stuck
                ELSE [height |-> cursor + 1, elapsed |-> 0]
    /\ late' = (stuck'.elapsed >= Timeout)
    /\ asked' = 0
    /\ evidence' = {}
    /\ UNCHANGED <<chain, cursor, persisted, target, history>>

-----------------------------------------------------------------------------
(* recover_pruned: gather_height_evidence asks one endpoint after the other. *)

Asking == <<chain, pc, cursor, persisted, session, stuck, late, history>>

\* A testimony waits for the answer to its probe.
Probing == \E w \in evidence : w.probe = "todo"

\* An endpoint that does not answer contributes nothing.
AskInVain ==
    /\ pc = "recover"
    /\ asked < Endpoints
    /\ ~ Probing
    /\ asked + 1 \notin up
    /\ asked' = asked + 1
    /\ UNCHANGED <<Asking, evidence>>

\* /status: probe only a node that retains the height and is Depth past it.
AskStatus ==
    /\ pc = "recover"
    /\ asked < Endpoints
    /\ LET e == asked + 1
           h == cursor + 1
           meaningful == earliest[e] <= h /\ h + Depth <= latest[e]
       IN  /\ e \in up
           /\ ~ Probing
           /\ evidence' = evidence \cup
                 {[ep |-> e, earliest |-> earliest[e],
                   probe |-> IF meaningful THEN "todo" ELSE "none"]}
           /\ asked' = IF meaningful THEN asked ELSE e
    /\ UNCHANGED Asking

\* block_results of the stuck height; it may fail although the node has it.
AskProbe ==
    /\ pc = "recover"
    /\ \E w \in evidence :
         /\ w.probe = "todo"
         /\ \E answer \in IF Servable(w.ep, cursor + 1) THEN {"ok", "failed"}
                                                        ELSE {"failed"} :
              evidence' = (evidence \ {w}) \cup {[w EXCEPT !.probe = answer]}
         /\ asked' = w.ep
    /\ UNCHANGED Asking

Probes(answer) == \E w \in evidence : w.probe = answer

\* The testimony with min_earliest.
IsLowest(w) == \A v \in evidence : w.earliest <= v.earliest

\* assess_evidence.
Verdict ==
    IF Probes("ok") \/ evidence = {} THEN "wait"
    ELSE IF \A w \in evidence : w.earliest > cursor + 1 THEN "pruned"
    ELSE IF Probes("failed") THEN "unservable"
    ELSE "wait"

\* Bug variant: a verdict with missing testimony is acted on at once.
MutUnanimous == evidence # {}

\* Every configured endpoint testified.
Unanimous == \A e \in Eps : \E w \in evidence : w.ep = e

\* Move the cursor past the heights up to h, forgetting the tracker.
advance_cursor(h, why) ==
    /\ cursor' = h
    /\ store_height(h)
    /\ fate' = [x \in Heights |-> IF cursor < x /\ x <= h THEN why ELSE fate[x]]
    /\ stuck' = NotStuck
    /\ seenBad' = FALSE

Stay(bad) ==
    /\ seenBad' = bad
    /\ UNCHANGED <<cursor, persisted, fate, stuck>>

\* Everybody has been asked: act on the verdict, then reconnect.
Assess ==
    /\ pc = "recover"
    /\ asked = Endpoints
    /\ \/ /\ Verdict = "pruned"
          /\ IF Unanimous \/ late
             THEN \E w \in evidence : /\ IsLowest(w)
                                      /\ advance_cursor(w.earliest - 1, "pruned")
             ELSE Stay(FALSE)
       \/ /\ Verdict = "unservable"
          /\ IF late THEN advance_cursor(cursor + 1, "unservable") ELSE Stay(TRUE)
       \/ /\ Verdict = "wait"
          /\ Stay(FALSE)
    /\ pc' = "connect"
    /\ late' = FALSE /\ asked' = 0 /\ evidence' = {}
    /\ UNCHANGED <<chain, session, base>>

\* The process dies and is started again.
Crash ==
    /\ pc' = "boot"
    /\ current' = 1 /\ target' = 0
    /\ stuck' = NotStuck /\ late' = FALSE
    /\ asked' = 0 /\ evidence' = {}
    /\ seenBad' = FALSE
    /\ UNCHANGED <<chain, cursor, persisted, base, fate>>

Scanning ==
    \/ BootPersisted \/ BootStart \/ BootExit \/ \E e \in Eps : BootTip(e)
    \/ Connect \/ FetchBlock \/ NewBlock \/ SessionEnds \/ SessionFails
    \/ AskInVain \/ AskStatus \/ AskProbe \/ Assess

Outside ==
    \/ Grow \/ Advance
    \/ \E e \in Eps : Sync(e) \/ Prune(e) \/ GoDown(e) \/ ComeUp(e)

Next == Scanning \/ Outside \/ Crash

Spec == Init /\ [][Next]_vars

\* The runtime polls the scanner, requests time out, nodes come back and keep
\* up with the chain, an endpoint that is up does not refuse every session, nor every
\* fetch of a block it can serve, and the crashes, any number of them, come to an end.
Fairness ==
    /\ WF_vars(Scanning) /\ WF_vars(Grow) /\ WF_vars(Advance)
    /\ <>[][~ Crash]_vars
    /\ SF_vars(FetchBlock) /\ SF_vars(NewBlock)
    /\ \A e \in Eps : /\ SF_vars(current = e /\ Connect)
                      /\ WF_vars(Sync(e)) /\ WF_vars(ComeUp(e))

FairSpec == Spec /\ Fairness

-----------------------------------------------------------------------------
(* Properties.                                                             *)

\* The cursor leaves no gap: every height between where it was established and
\* where it is was read, after it was indexed, or skipped on evidence, whatever
\* the failovers, crashes and failed writes of the cursor; and so does the
\* persisted cursor that a restart resumes from.
NoGap ==
    \A h \in Heights :
        base < h /\ (h <= cursor \/ h <= persisted)
        => fate[h] \notin {"unread", "missed"}

\* A height is skipped as pruned only when no endpoint retains it any more, or
\* after the timeout; as unservable only after the timeout, one height at a time.
SkipsNeedEvidence ==
    [][\A h \in Heights :
         /\ fate[h] # "pruned" /\ fate'[h] = "pruned"
            => late \/ \A e \in Eps : earliest[e] > h
         /\ fate[h] # "unservable" /\ fate'[h] = "unservable"
            => late /\ h = cursor + 1]_vars

\* No height holds the scanner up forever: neither pruned nor corrupt blocks nor
\* failing endpoints, crashes or a cursor that is not written keep it from the confirmed
\* end of the chain; only its exit does, when no endpoint answers at its start.
CatchesUp == <>(cursor >= Confirmed(MaxHeight) \/ pc = "exited")

\* "In the event where a height temporarily unavailable, due to the node being
\* down [...] is retried indefinitely": a height is skipped as unservable only
\* if an assessment before this one had already found it so.
OnlyPersistentFailureSkips ==
    [][\A h \in Heights :
         fate[h] # "unservable" /\ fate'[h] = "unservable" => seenBad]_vars
=============================================================================
