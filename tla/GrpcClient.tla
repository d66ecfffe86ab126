----------------------------- MODULE GrpcClient -----------------------------
(***************************************************************************)
(* CelestiaClient (src/client.rs): interchangeable gRPC endpoints and one  *)
(* atomic preference shared by all forwards and polls.  A query starts at  *)
(* the preferred endpoint and fails over within the call; a submission     *)
(* goes to the preferred endpoint alone and, when it fails, prefers the    *)
(* next one for whoever comes after.  Nobody holds a lock: every call      *)
(* decides from the preference it loaded when it started.                  *)
(*                                                                         *)
(* Outside: endpoints whose queries and submissions begin and cease to be  *)
(* served, independently.  An endpoint that does not serve answers with an *)
(* error or lets the timeout of the call pass.                             *)
(***************************************************************************)
EXTENDS Integers

CONSTANTS
    EndpointCount,  \* endpoints.len()
    Tasks,          \* tasks that use the client: forwards, and polls of a balance
    MaxFlips        \* bound: changes of what an endpoint serves

\* CelestiaClient::new refuses an empty list.
ASSUME EndpointAssumption == EndpointCount \in Nat \ {0}
ASSUME FlipAssumption == MaxFlips \in Nat

Eps == 0..(EndpointCount - 1)

VARIABLES
    current,   \* the preferred endpoint
    answers,   \* endpoints that serve queries
    accepts,   \* endpoints that serve submissions
    flips,     \* changes so far
    call       \* what each task is doing

vars == <<current, answers, accepts, flips, call>>

\* what: the query that is running or just ended; start: current as it was loaded;
\* tried: endpoints that failed the query; steady: history, those that have served
\* queries ever since the call started.
CallState ==
    [pc : {"idle", "query", "answered", "failed", "submit"}, what : {"balance", "fee"},
     start : Eps, tried : 0..EndpointCount, steady : SUBSET Eps]

NoCall == [pc |-> "idle", what |-> "balance", start |-> 0, tried |-> 0, steady |-> {}]

TypeOK ==
    /\ current \in Eps
    /\ answers \subseteq Eps
    /\ accepts \subseteq Eps
    /\ flips \in 0..MaxFlips
    /\ call \in [Tasks -> CallState]

Init ==
    /\ current = 0
    /\ answers \in SUBSET Eps
    /\ accepts \in SUBSET Eps
    /\ flips = 0
    /\ call = [t \in Tasks |-> NoCall]

-----------------------------------------------------------------------------
(* with_failover.                                                          *)

\* Bug variant: the ring does not close.
MutRing(start, n) == start + n

\* The endpoint after n others, in the ring.
Ring(start, n) == (start + n) % EndpointCount

\* A query that was answered by another endpoint than its first makes it preferred.
Prefer(start, e) == current' = IF e = start THEN current ELSE e

StartQuery(t, what) ==
    /\ call' = [call EXCEPT ![t] = [pc |-> "query", what |-> what, start |-> current,
                                    tried |-> 0, steady |-> answers]]
    /\ UNCHANGED <<current, answers, accepts, flips>>

\* The endpoint the query is waiting for.
Trying(t) == Ring(call[t].start, call[t].tried)

QueryAnswered(t) ==
    /\ call[t].pc = "query"
    /\ Trying(t) \in answers
    /\ Prefer(call[t].start, Trying(t))
    /\ call' = [call EXCEPT ![t].pc = "answered"]
    /\ UNCHANGED <<answers, accepts, flips>>

\* Bug variant: the last endpoint of the ring is not tried.
MutQueryRefused(t) ==
    /\ call[t].pc = "query"
    /\ Trying(t) \notin answers
    /\ LET tried == call[t].tried + 1 IN
         call' = [call EXCEPT ![t].tried = tried,
                              ![t].pc = IF tried >= EndpointCount - 1 THEN "failed"
                                                                      ELSE "query"]
    /\ UNCHANGED <<current, answers, accepts, flips>>

\* On to the next endpoint; after the last one the query has failed.
QueryRefused(t) ==
    /\ call[t].pc = "query"
    /\ Trying(t) \notin answers
    /\ LET tried == call[t].tried + 1 IN
         call' = [call EXCEPT ![t].tried = tried,
                              ![t].pc = IF tried = EndpointCount THEN "failed"
                                                                 ELSE "query"]
    /\ UNCHANGED <<current, answers, accepts, flips>>

-----------------------------------------------------------------------------
(* What a task calls: query_balances, query_igp_fee, submit_forward.       *)

Ended(t) == call[t].pc \in {"answered", "failed"}

\* A forward, or a poll of the signer's balance or of a deposit address's.
QueryBalance(t) ==
    /\ call[t].pc = "idle"
    /\ StartQuery(t, "balance")

\* A fee that is not in the cache.
QueryFee(t) ==
    /\ call[t].pc = "answered"
    /\ call[t].what = "balance"
    /\ StartQuery(t, "fee")

\* The balance was found, and the fee is known, or taken for 0 if its query failed.
SubmitForward(t) ==
    /\ call[t].pc = "answered" \/ (call[t].pc = "failed" /\ call[t].what = "fee")
    /\ call' = [call EXCEPT ![t] = [pc |-> "submit", what |-> "balance", start |-> current,
                                    tried |-> 0, steady |-> {}]]
    /\ UNCHANGED <<current, answers, accepts, flips>>

\* The balance query failed, or there is nothing to forward.
Leave(t) ==
    /\ Ended(t)
    /\ call[t].what = "balance"
    /\ call' = [call EXCEPT ![t] = NoCall]
    /\ UNCHANGED <<current, answers, accepts, flips>>

SubmitAccepted(t) ==
    /\ call[t].pc = "submit"
    /\ call[t].start \in accepts
    /\ call' = [call EXCEPT ![t] = NoCall]
    /\ UNCHANGED <<current, answers, accepts, flips>>

\* Bug variant: the preference that is there now is rotated, as by a fetch_add.
MutSubmitFailed(t) ==
    /\ call[t].pc = "submit"
    /\ call[t].start \notin accepts
    /\ current' = Ring(current, 1)
    /\ call' = [call EXCEPT ![t] = NoCall]
    /\ UNCHANGED <<answers, accepts, flips>>

\* The submission failed or timed out: the endpoint after the one it went to.
SubmitFailed(t) ==
    /\ call[t].pc = "submit"
    /\ call[t].start \notin accepts
    /\ current' = IF EndpointCount > 1 THEN Ring(call[t].start, 1) ELSE current
    /\ call' = [call EXCEPT ![t] = NoCall]
    /\ UNCHANGED <<answers, accepts, flips>>

-----------------------------------------------------------------------------
\* An endpoint begins or ceases to serve queries, or submissions.
Toggle(set, e) == IF e \in set THEN set \ {e} ELSE set \cup {e}

Flip(e) ==
    /\ flips < MaxFlips
    /\ flips' = flips + 1
    /\ \/ answers' = Toggle(answers, e) /\ accepts' = accepts
       \/ accepts' = Toggle(accepts, e) /\ answers' = answers
    /\ call' = [t \in Tasks |-> [call[t] EXCEPT !.steady = @ \cap answers']]
    /\ UNCHANGED current

\* A call that is waiting for an endpoint ends, by its answer or its timeout.
Return(t) == QueryAnswered(t) \/ QueryRefused(t) \/ SubmitAccepted(t) \/ SubmitFailed(t)

\* A task makes its next call.
Step(t) == QueryBalance(t) \/ QueryFee(t) \/ SubmitForward(t) \/ Leave(t)

Next == (\E t \in Tasks : Return(t) \/ Step(t)) \/ (\E e \in Eps : Flip(e))

Spec == Init /\ [][Next]_vars

\* Calls time out, tasks go on, and some task goes on finding funds to submit.
Fairness ==
    /\ \A t \in Tasks : WF_vars(Return(t)) /\ WF_vars(Step(t))
    /\ SF_vars(\E t \in Tasks : SubmitForward(t))

FairSpec == Spec /\ Fairness

-----------------------------------------------------------------------------
(* Properties.                                                             *)

\* with_failover gives up only for want of an endpoint: when a query fails, no
\* endpoint served queries from its beginning to its end, wherever the preference
\* was, however it was moved meanwhile and whatever came and went.
FailsOnlyUnserved == \A t \in Tasks : call[t].pc = "failed" => call[t].steady = {}

\* Endpoints that serve a whole forward.
Healthy == answers \cap accepts

\* "The preference is sticky - after a failover the healthy endpoint keeps serving":
\* once the endpoints no longer change and one of them serves both queries and
\* submissions, the preference comes to rest on such an endpoint; late stores of
\* calls that loaded an older preference cannot keep it moving.
SettlesOnHealthy == []<>(Healthy # {}) => <>[](current \in Healthy)
=============================================================================
