------------------------------ MODULE FeeQuote ------------------------------
(***************************************************************************)
(* The fee side of a forward: resolve_max_igp_fee with its cache,          *)
(* hook_binding (src/relayer.rs) and query_igp_fee (src/client.rs), for    *)
(* requests whose forwards run concurrently and share the cache.           *)
(*                                                                         *)
(* A binding is the pair of a post-dispatch hook and its metadata.  The    *)
(* chain prices a forward by destination, token and binding, rejects an    *)
(* offer below the price, and rejects a binding other than the one the     *)
(* address was derived with (external, from how the code uses it).         *)
(***************************************************************************)
EXTENDS Integers

CONSTANTS
    Requests,      \* forwarding requests
    Keys,          \* cache keys: a destination domain and a token
    Hooks,         \* hook ids
    NoHook,        \* no hook id
    KeyOf,         \* the key of each request
    Bound,         \* the binding <<hook, metadata>> stored with each request
    ConfigHook,    \* CUSTOM_IGP_HOOK, or NoHook
    Prices,        \* what a forward may cost
    MaxMishaps,    \* bound: changes of a price and quotes that fail
    Ttl,           \* FEE_CACHE_TTL, in ticks of the clock
    Backoff,       \* delay after a failed submission
    BufferNum, BufferDen   \* igp_fee_buffer

Metadata == {Bound[r][2] : r \in Requests}
Bindings == (Hooks \cup {NoHook}) \X Metadata

ASSUME RequestAssumption ==
    /\ Requests # {} /\ KeyOf \in [Requests -> Keys]
    /\ \A r \in Requests : Bound[r][1] \in Hooks \cup {NoHook}
    /\ NoHook \notin Hooks /\ ConfigHook \in Hooks \cup {NoHook}
ASSUME FeeAssumption ==
    /\ Prices \subseteq Nat \ {0} /\ Prices # {}
    /\ MaxMishaps \in Nat /\ Ttl \in Nat \ {0} /\ Backoff \in Nat
    /\ BufferDen \in Nat \ {0} /\ BufferNum \in Nat

VARIABLES
    price,     \* the chain's price by key and binding
    mishaps,   \* price changes and failed quotes so far
    cache,     \* fee_cache: the fee, its age, and (history) its binding
    funded,    \* requests with a balance to forward
    worker,    \* where each forward is
    offer,     \* max_igp_fee of each forward
    wait       \* backoff left before the next attempt

vars == <<price, mishaps, cache, funded, worker, offer, wait>>

\* A fee and the binding it was quoted for; an entry as old as Ttl is a miss.
Quote == [fee : Nat, binding : Bindings]
Nothing == [fee |-> 0, binding |-> <<NoHook, CHOOSE m \in Metadata : TRUE>>]

TypeOK ==
    /\ price \in [Keys \X Bindings -> Prices]
    /\ mishaps \in 0..MaxMishaps
    /\ cache \in [Keys -> [quote : Quote, age : 0..Ttl]]
    /\ funded \subseteq Requests
    /\ worker \in [Requests -> {"idle", "query", "quoted", "submit"}]
    /\ offer \in [Requests -> Quote]
    /\ wait \in [Requests -> 0..Backoff]

Init ==
    /\ price \in [Keys \X Bindings -> Prices]
    /\ mishaps = 0
    /\ cache = [k \in Keys |-> [quote |-> Nothing, age |-> Ttl]]
    /\ funded = {}
    /\ worker = [r \in Requests |-> "idle"]
    /\ offer = [r \in Requests |-> Nothing]
    /\ wait = [r \in Requests |-> 0]

-----------------------------------------------------------------------------
\* The request's hook wins; the configured one is the fallback.
hook_binding(r) ==
    <<IF Bound[r][1] = NoHook THEN ConfigHook ELSE Bound[r][1], Bound[r][2]>>

\* Bug variant: the quote is divided by the buffer.
MutBuffered(fee) == (fee * BufferDen) \div BufferNum

\* The quote with its safety margin, cut off to whole utia.
Buffered(fee) == (fee * BufferNum) \div BufferDen

Deposit(r) ==
    /\ r \notin funded
    /\ funded' = funded \cup {r}
    /\ UNCHANGED <<price, mishaps, cache, worker, offer, wait>>

PriceMoves(k, b) ==
    /\ mishaps < MaxMishaps
    /\ mishaps' = mishaps + 1
    /\ \E p \in Prices \ {price[<<k, b>>]} : price' = [price EXCEPT ![<<k, b>>] = p]
    /\ UNCHANGED <<cache, funded, worker, offer, wait>>

\* Bug variant: backoffs run down past zero.
MutAdvance ==
    /\ cache' = [k \in Keys |-> [cache[k] EXCEPT !.age = IF @ < Ttl THEN @ + 1 ELSE @]]
    /\ wait' = [r \in Requests |-> wait[r] - 1]
    /\ UNCHANGED <<price, mishaps, funded, worker, offer>>

\* One unit of time: entries age up to Ttl, backoffs run down.
Advance ==
    /\ cache' = [k \in Keys |-> [cache[k] EXCEPT !.age = IF @ < Ttl THEN @ + 1 ELSE @]]
    /\ wait' = [r \in Requests |-> IF wait[r] > 0 THEN wait[r] - 1 ELSE 0]
    /\ UNCHANGED <<price, mishaps, funded, worker, offer>>

\* Bug variant: a cached fee never expires.
MutFresh(k) == cache[k].quote # Nothing

Fresh(k) == cache[k].age < Ttl

\* Use the cached fee of the request's domain and token while it is fresh.
CacheHit(r) ==
    /\ worker[r] = "idle"
    /\ r \in funded
    /\ wait[r] = 0
    /\ Fresh(KeyOf[r])
    /\ offer' = [offer EXCEPT ![r] = [cache[KeyOf[r]].quote EXCEPT !.fee = Buffered(@)]]
    /\ worker' = [worker EXCEPT ![r] = "submit"]
    /\ UNCHANGED <<price, mishaps, cache, funded, wait>>

CacheMiss(r) ==
    /\ worker[r] = "idle"
    /\ r \in funded
    /\ wait[r] = 0
    /\ ~ Fresh(KeyOf[r])
    /\ worker' = [worker EXCEPT ![r] = "query"]
    /\ UNCHANGED <<price, mishaps, cache, funded, offer, wait>>

\* query_igp_fee: an endpoint quotes the price; if none answers the fee is "0".
QuoteAnswer(r, fails) ==
    /\ worker[r] = "query"
    /\ LET b == hook_binding(r) IN
         offer' = [offer EXCEPT ![r] =
                     [fee |-> IF fails THEN 0 ELSE price[<<KeyOf[r], b>>], binding |-> b]]
    /\ worker' = [worker EXCEPT ![r] = "quoted"]
    /\ IF fails THEN mishaps < MaxMishaps /\ mishaps' = mishaps + 1
                ELSE UNCHANGED mishaps
    /\ UNCHANGED <<price, cache, funded, wait>>

\* The answer arrives: it is cached, whatever it is, and buffered.
CacheInsert(r) ==
    /\ worker[r] = "quoted"
    /\ cache' = [cache EXCEPT ![KeyOf[r]] = [quote |-> offer[r], age |-> 0]]
    /\ offer' = [offer EXCEPT ![r].fee = Buffered(@)]
    /\ worker' = [worker EXCEPT ![r] = "submit"]
    /\ UNCHANGED <<price, mishaps, funded, wait>>

\* What the chain accepts.
Accepted(r) ==
    /\ hook_binding(r) = Bound[r]
    /\ offer[r].fee >= price[<<KeyOf[r], hook_binding(r)>>]

SubmitOk(r) ==
    /\ worker[r] = "submit"
    /\ Accepted(r)
    /\ funded' = funded \ {r}
    /\ worker' = [worker EXCEPT ![r] = "idle"]
    /\ offer' = [offer EXCEPT ![r] = Nothing]
    /\ UNCHANGED <<price, mishaps, cache, wait>>

\* Rejected by the chain, or failed on the way: back off.  The cache stays.
SubmitFails(r) ==
    /\ worker[r] = "submit"
    /\ wait' = [wait EXCEPT ![r] = Backoff]
    /\ worker' = [worker EXCEPT ![r] = "idle"]
    /\ offer' = [offer EXCEPT ![r] = Nothing]
    /\ UNCHANGED <<price, mishaps, cache, funded>>

Forward(r) ==
    \/ CacheHit(r) \/ CacheMiss(r) \/ CacheInsert(r) \/ SubmitOk(r) \/ SubmitFails(r)
    \/ \E fails \in BOOLEAN : QuoteAnswer(r, fails)

Next ==
    \/ Advance
    \/ \E r \in Requests : Deposit(r) \/ Forward(r)
    \/ \E k \in Keys, b \in Bindings : PriceMoves(k, b)

Spec == Init /\ [][Next]_vars

\* Time passes and runs proceed; of infinitely many acceptable submissions of one
\* request one succeeds.
Fairness ==
    /\ WF_vars(Advance)
    /\ \A r \in Requests : /\ WF_vars(Forward(r))
                           /\ SF_vars(SubmitOk(r))

FairSpec == Spec /\ Fairness

-----------------------------------------------------------------------------
\* "Quote against the binding the forward will dispatch through": the fee a
\* forward offers was quoted for the binding it is submitted with.
QuotedForBinding ==
    \A r \in Requests : worker[r] = "submit" => offer[r].binding = hook_binding(r)

\* Requests that share the cache entry of r and are bound otherwise.
Rivals(r) == {s \in Requests : KeyOf[s] = KeyOf[r] /\ hook_binding(s) # hook_binding(r)}

\* A forward offers too little only after a price has moved or a quote has failed, with
\* a buffer below one, or because the fee is a rival's: fees that come from the cache,
\* are buffered and cut off, or were quoted on behalf of another request are enough for
\* the binding they were quoted for, the request's own or that of a rival.
OffersEnough ==
    mishaps = 0 /\ BufferNum >= BufferDen => \A r \in Requests :
        worker[r] = "submit" =>
          /\ offer[r].fee >= price[<<KeyOf[r], offer[r].binding>>]
          /\ \E s \in Rivals(r) \cup {r} : offer[r].binding = hook_binding(s)

\* A stale fee, or the zero that a failed quote leaves in the cache, delays a forward
\* but does not stop it: once prices settle and quotes succeed again, the entry expires
\* and the request goes through.  Only a configured hook that the address is not bound
\* to stops it, or rivals that put their own fee in the cache again and again.
ForwardsGoThrough ==
    \A r \in Requests :
        <>[](r \in funded)
        => \/ hook_binding(r) # Bound[r]
           \/ []<>(\E s \in Rivals(r) : worker[s] = "quoted")
=============================================================================
