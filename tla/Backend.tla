------------------------------ MODULE Backend ------------------------------
(***************************************************************************)
(* The backend (src/backend.rs): the table of forwarding requests behind   *)
(* one mutex, the handlers of POST and DELETE with the refresh of the      *)
(* gauges that each ends with, and the loop that refreshes them every five *)
(* seconds.  A refresh reads the table under the mutex and sets the gauge  *)
(* after it, so refreshes overtake each other.                             *)
(*                                                                         *)
(* Outside: clients that register the same address over and over, the      *)
(* relayer's maintenance tick, which lists the table and deletes some of   *)
(* the rows one by one (when they are due is in module Relayer), and its   *)
(* HTTP client, whose timeout leaves a DELETE to be served later.  Metrics *)
(* are enabled.                                                            *)
(***************************************************************************)
EXTENDS AddressDerivation, FiniteSets

CONSTANTS
    Clients,      \* clients that register requests
    MaxRows,      \* bound: rows ever created
    MaxGaveUp,    \* bound: addresses with a DELETE the relayer gave up waiting for
    NoRow         \* no row

ASSUME BoundAssumption == MaxRows \in Nat /\ MaxGaveUp \in Nat

\* The handlers: a POST of each client, the DELETE the relayer waits for, the one it
\* no longer waits for, and the loop of serve.
Handlers == Clients \cup {"delete", "late", "loop"}
ASSUME ClientAssumption == IsFiniteSet(Clients) /\ Clients \cap {"delete", "late", "loop"} = {}

VARIABLES
    rows,      \* table forwarding_requests
    clock,     \* created_at of the latest row
    gauge,     \* pending_requests
    handler,   \* what each handler is doing, with the count it has read
    answer,    \* the row each POST under way is to return, and for which request
    tick,      \* where the relayer's tick is, with the rows it is to retire
    lateAddr,  \* address of the DELETE that was given up
    gaveUp     \* history: addresses with a DELETE that was given up

vars == <<rows, clock, gauge, handler, answer, tick, lateAddr, gaveUp>>

Addresses == {derive_forwarding_address(r) : r \in Requests} \ {Error}
Row == [forward_addr : Addresses, request : Requests, created_at : 1..MaxRows]
Quiet == [pc |-> "idle", count |-> 0]

\* Deleting: the row whose DELETE is under way.
NoTick == [pc |-> "idle", retire |-> {}, row |-> NoRow]

TypeOK ==
    /\ rows \subseteq Row
    /\ \A p, q \in rows : p.forward_addr = q.forward_addr => p = q
    /\ clock \in 0..MaxRows
    /\ gauge \in Nat
    /\ handler \in [Handlers -> [pc : {"idle", "remove", "snapshot", "set"}, count : Nat]]
    /\ answer \in [Clients -> [asked : Requests, row : Row] \cup {NoRow}]
    /\ tick \in [pc : {"idle", "next", "wait"}, retire : SUBSET Row,
                 row : Row \cup {NoRow}]
    /\ tick.pc = "wait" => tick.row \in Row
    /\ lateAddr \in Addresses \cup {Error}
    /\ gaveUp \subseteq Addresses

Init ==
    /\ rows = {} /\ clock = 0 /\ gauge = 0
    /\ handler = [h \in Handlers |-> Quiet]
    /\ answer = [c \in Clients |-> NoRow]
    /\ tick = NoTick
    /\ lateAddr = Error /\ gaveUp = {}

-----------------------------------------------------------------------------
(* refresh_metrics, at the end of a handler and in the loop.               *)

Goto(h, pc) == handler' = [handler EXCEPT ![h].pc = pc]

Refreshing == UNCHANGED <<rows, clock, tick, lateAddr, gaveUp>>

\* A handler returns when its refresh is over, well or not.
Return(h) == answer' = [c \in Clients |-> IF c = h THEN NoRow ELSE answer[c]]

\* pending_metrics_snapshot, under the mutex; an error ends the refresh.
Snapshot(h) ==
    /\ handler[h].pc = "snapshot"
    /\ handler' = [handler EXCEPT ![h] = [pc |-> "set", count |-> Cardinality(rows)]]
    /\ UNCHANGED <<gauge, answer>>
    /\ Refreshing

SnapshotFails(h) ==
    /\ handler[h].pc = "snapshot"
    /\ Goto(h, "idle")
    /\ Return(h)
    /\ UNCHANGED gauge
    /\ Refreshing

\* update_pending_request_metrics.
SetGauge(h) ==
    /\ handler[h].pc = "set"
    /\ gauge' = handler[h].count
    /\ handler' = [handler EXCEPT ![h] = Quiet]
    /\ Return(h)
    /\ Refreshing

\* Bug variant: only the handlers refresh.
MutWakeUp ==
    /\ handler["loop"].pc = "idle"
    /\ Goto("loop", "idle")
    /\ UNCHANGED <<gauge, answer>>
    /\ Refreshing

\* The interval of the loop is over.
WakeUp ==
    /\ handler["loop"].pc = "idle"
    /\ Goto("loop", "snapshot")
    /\ UNCHANGED <<gauge, answer>>
    /\ Refreshing

-----------------------------------------------------------------------------
(* POST /forwarding-requests.                                              *)

\* 201 or 200, with the row.
Give(c, r, row) == answer' = [answer EXCEPT ![c] = [asked |-> r, row |-> row]]

Posting == UNCHANGED <<gauge, tick, lateAddr, gaveUp>>

\* The request derives to the address it claims.  Any other is refused with 400, and
\* one that the database fails with 500; either changes nothing.
Accept(c, r, claim) ==
    /\ handler[c].pc = "idle"
    /\ Valid(r)
    /\ derive_forwarding_address(r) = claim

\* Bug variant: the row there is of the address is replaced.
MutInsert(c, r, claim) ==
    LET row == [forward_addr |-> claim, request |-> r, created_at |-> clock + 1] IN
      /\ Accept(c, r, claim)
      /\ clock < MaxRows
      /\ clock' = clock + 1
      /\ rows' = {p \in rows : p.forward_addr # claim} \cup {row}
      /\ Give(c, r, row)
      /\ Goto(c, "snapshot")
      /\ Posting

\* Bug variant: the address is no key of the table.
MutKeyless(c, r, claim) ==
    LET row == [forward_addr |-> claim, request |-> r, created_at |-> clock + 1] IN
      /\ Accept(c, r, claim)
      /\ clock < MaxRows
      /\ clock' = clock + 1
      /\ rows' = rows \cup {row}
      /\ Give(c, r, row)
      /\ Goto(c, "snapshot")
      /\ Posting

\* create_request: the row is new.
Insert(c, r, claim) ==
    LET row == [forward_addr |-> claim, request |-> r, created_at |-> clock + 1] IN
      /\ Accept(c, r, claim)
      /\ \A p \in rows : p.forward_addr # claim
      /\ clock < MaxRows
      /\ clock' = clock + 1
      /\ rows' = rows \cup {row}
      /\ Give(c, r, row)
      /\ Goto(c, "snapshot")
      /\ Posting

\* create_request: the address has a row, which is returned.
Existing(c, r, claim) ==
    /\ Accept(c, r, claim)
    /\ \E row \in rows : row.forward_addr = claim /\ Give(c, r, row)
    /\ Goto(c, "snapshot")
    /\ UNCHANGED <<rows, clock>>
    /\ Posting

Post(c) ==
    \E r \in Requests, claim \in Addresses :
        Insert(c, r, claim) \/ Existing(c, r, claim)

-----------------------------------------------------------------------------
(* DELETE /forwarding-requests/:addr.                                      *)

\* remove_by_addr, by the handler that has the address; only a removal refreshes.
Remove(h, addr) ==
    /\ handler[h].pc = "remove"
    /\ \/ \E row \in rows :
            /\ row.forward_addr = addr
            /\ rows' = rows \ {row}
            /\ Goto(h, "snapshot")
       \/ /\ \A row \in rows : row.forward_addr # addr
          /\ rows' = rows
          /\ Goto(h, "idle")
       \/ /\ rows' = rows
          /\ Goto(h, "idle")
    /\ UNCHANGED <<clock, gauge, answer, tick, lateAddr, gaveUp>>

-----------------------------------------------------------------------------
(* The relayer's tick.                                                     *)

Relaying == UNCHANGED <<rows, clock, gauge, answer>>

\* GET /forwarding-requests; some of the rows are to be retired.
List ==
    /\ tick.pc = "idle"
    /\ \E retire \in SUBSET rows : tick' = [pc |-> "next", retire |-> retire, row |-> NoRow]
    /\ UNCHANGED <<handler, lateAddr, gaveUp>>
    /\ Relaying

SendDelete ==
    /\ tick.pc = "next"
    /\ handler["delete"].pc = "idle"
    /\ \E row \in tick.retire :
         tick' = [pc |-> "wait", retire |-> tick.retire \ {row}, row |-> row]
    /\ Goto("delete", "remove")
    /\ UNCHANGED <<lateAddr, gaveUp>>
    /\ Relaying

\* The answer is back; a failure is only logged.
Delivered ==
    /\ tick.pc = "wait"
    /\ handler["delete"].pc = "idle"
    /\ tick' = [tick EXCEPT !.pc = "next", !.row = NoRow]
    /\ UNCHANGED <<handler, lateAddr, gaveUp>>
    /\ Relaying

\* The relayer gives up waiting; the DELETE is still to be served, or in the middle.
GiveUp ==
    /\ tick.pc = "wait"
    /\ handler["delete"].pc # "idle" /\ handler["late"].pc = "idle"
    /\ lateAddr' = tick.row.forward_addr
    /\ gaveUp' = gaveUp \cup {tick.row.forward_addr}
    /\ Cardinality(gaveUp') <= MaxGaveUp
    /\ handler' = [handler EXCEPT !["late"] = handler["delete"], !["delete"] = Quiet]
    /\ tick' = [tick EXCEPT !.pc = "next", !.row = NoRow]
    /\ Relaying

TickDone ==
    /\ tick.pc = "next"
    /\ tick.retire = {}
    /\ tick' = NoTick
    /\ UNCHANGED <<handler, lateAddr, gaveUp>>
    /\ Relaying

\* The backend dies and is started again: serve refreshes before it listens.
Restart ==
    /\ handler' = [h \in Handlers |-> Quiet]
    /\ answer' = [c \in Clients |-> NoRow]
    /\ gauge' = Cardinality(rows)
    /\ UNCHANGED <<rows, clock, tick, lateAddr, gaveUp>>

Serve(h) == Snapshot(h) \/ SnapshotFails(h) \/ SetGauge(h)

Deleting ==
    \/ tick.pc = "wait" /\ Remove("delete", tick.row.forward_addr)
    \/ Remove("late", lateAddr)

Next ==
    \/ \E c \in Clients : Post(c)
    \/ \E h \in Handlers : Serve(h)
    \/ WakeUp \/ Deleting
    \/ List \/ SendDelete \/ Delivered \/ GiveUp \/ TickDone
    \/ Restart

Spec == Init /\ [][Next]_vars

\* Handlers and the loop are polled, and the loop's refreshes do not all fail.
Fairness ==
    /\ \A h \in Handlers : WF_vars(Serve(h))
    /\ WF_vars(WakeUp)
    /\ SF_vars(Snapshot("loop"))

FairSpec == Spec /\ Fairness

-----------------------------------------------------------------------------
(* Properties.                                                             *)

\* "or return the existing one for the address (idempotent)": the row a client is
\* given, its own or one that somebody else created in another spelling of the
\* request, is forwarded to the same place through the same hook as the client asked,
\* unless the token id of one of the two goes on where the other's binding begins.
AnsweredWithMine ==
    \A c \in Clients : answer[c] # NoRow =>
        LET given == answer[c].row.request
            asked == answer[c].asked IN
          \/ Meaning(given) = Meaning(asked)
          \/ Ambiguous(given, asked) \/ Ambiguous(asked, given)

\* "The bound preimage is longer than the unbound one, so the two cannot collide": a
\* client that asks for a hook or metadata is not given a row without them, nor the
\* other way round.
CannotCollide ==
    \A c \in Clients : answer[c] # NoRow =>
        (Bound(answer[c].row.request) <=> Bound(answer[c].asked))

\* "committed as decoded bytes so equivalent encodings agree": requests for the same
\* forward, however they spell it, share one row, and so are forwarded from one address.
OneRowPerMeaning ==
    \A p, q \in rows : Meaning(p.request) = Meaning(q.request) => p = q

\* A client that registers an address again, between the listing and the DELETE, does
\* not make the tick delete anything else than the row it decided on; only a DELETE
\* that was given up can hit a row created since.
DeletesDecidedRows ==
    [][\A row \in rows \ rows' :
         \/ tick.pc = "wait" /\ row = tick.row
         \/ row.forward_addr \in gaveUp]_vars

\* However refreshes overtake each other: if the table comes to rest, the gauge comes
\* to show it.
GaugeCatchesUp ==
    \A n \in 0..Cardinality(Addresses) :
        <>[](Cardinality(rows) = n) => <>[](gauge = n)
=============================================================================
