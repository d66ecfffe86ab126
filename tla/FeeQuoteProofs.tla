--------------------------- MODULE FeeQuoteProofs ---------------------------
(***************************************************************************)
(* Proofs about FeeQuote, for any number of requests, keys and hooks, any  *)
(* bindings of the requests that share a cache entry, any prices, and any  *)
(* buffer.                                                                 *)
(***************************************************************************)
EXTENDS FeeQuote, TLAPS

-----------------------------------------------------------------------------
\* A binding of the request, its own hook or the configured one.
LEMMA HookBindingType == \A r \in Requests : hook_binding(r) \in Bindings
BY RequestAssumption DEF hook_binding, Bindings, Metadata

\* No quote.
LEMMA NothingType == Nothing \in Quote
<1>1. (CHOOSE m \in Metadata : TRUE) \in Metadata
  BY RequestAssumption DEF Metadata
<1> QED
  BY <1>1 DEF Nothing, Quote, Bindings

\* A buffered fee is whole, and with a buffer from one on never below the quote.
LEMMA BufferedFee ==
    ASSUME NEW fee \in Nat
    PROVE  /\ Buffered(fee) \in Nat
           /\ BufferNum >= BufferDen => Buffered(fee) >= fee
<1>1. fee * BufferNum \in Nat
  BY FeeAssumption
<1>2. Buffered(fee) \in Nat
  BY <1>1, FeeAssumption DEF Buffered
<1>3. BufferNum >= BufferDen => Buffered(fee) >= fee
  BY FeeAssumption DEF Buffered
<1> QED
  BY <1>2, <1>3

\* The chain has a price for every key and binding.
LEMMA PriceType ==
    ASSUME TypeOK, NEW k \in Keys, NEW b \in Bindings
    PROVE  price[<<k, b>>] \in Nat
<1>1. price[<<k, b>>] \in Prices
  BY DEF TypeOK
<1> QED
  BY <1>1, FeeAssumption

-----------------------------------------------------------------------------
\* Before the first quote.
LEMMA InitTypes == Init => TypeOK
BY NothingType, FeeAssumption DEF Init, TypeOK

\* Every step keeps the types.
LEMMA TypeStep ==
    ASSUME TypeOK, [Next]_vars
    PROVE  TypeOK'
<1> USE FeeAssumption DEF TypeOK
<1>1. ASSUME Advance PROVE TypeOK'
  <2>1. cache' \in [Keys -> [quote : Quote, age : 0..Ttl]]
    BY <1>1 DEF Advance
  <2>2. wait' \in [Requests -> 0..Backoff]
    BY <1>1 DEF Advance
  <2> QED
    BY <1>1, <2>1, <2>2 DEF Advance
<1>2. ASSUME NEW r \in Requests, Deposit(r) PROVE TypeOK'
  BY <1>2 DEF Deposit
<1>3. ASSUME NEW r \in Requests, CacheHit(r) PROVE TypeOK'
  <2> DEFINE hit == [cache[KeyOf[r]].quote EXCEPT !.fee = Buffered(@)]
  <2>1. cache[KeyOf[r]].quote \in Quote
    BY RequestAssumption
  <2>2. hit \in Quote
    BY <2>1, BufferedFee DEF Quote
  <2>3. offer' = [offer EXCEPT ![r] = hit]
    BY <1>3 DEF CacheHit
  <2> HIDE DEF hit
  <2>4. offer' \in [Requests -> Quote]
    BY <2>2, <2>3
  <2> QED
    BY <1>3, <2>4 DEF CacheHit
<1>4. ASSUME NEW r \in Requests, CacheMiss(r) PROVE TypeOK'
  BY <1>4 DEF CacheMiss
<1>5. ASSUME NEW r \in Requests, NEW fails \in BOOLEAN, QuoteAnswer(r, fails) PROVE TypeOK'
  <2>1. price[<<KeyOf[r], hook_binding(r)>>] \in Nat
    BY HookBindingType, PriceType, RequestAssumption
  <2>2. [fee |-> IF fails THEN 0 ELSE price[<<KeyOf[r], hook_binding(r)>>],
         binding |-> hook_binding(r)] \in Quote
    BY <2>1, HookBindingType DEF Quote
  <2>3. offer' \in [Requests -> Quote]
    BY <1>5, <2>2 DEF QuoteAnswer
  <2>4. mishaps' \in 0..MaxMishaps
    <3>1. CASE fails
      BY <1>5, <3>1 DEF QuoteAnswer
    <3>2. CASE ~ fails
      BY <1>5, <3>2 DEF QuoteAnswer
    <3> QED
      BY <3>1, <3>2
  <2> QED
    BY <1>5, <2>3, <2>4 DEF QuoteAnswer
<1>6. ASSUME NEW r \in Requests, CacheInsert(r) PROVE TypeOK'
  <2>1. [offer[r] EXCEPT !.fee = Buffered(@)] \in Quote
    BY BufferedFee DEF Quote
  <2>2. offer' = [offer EXCEPT ![r] = [offer[r] EXCEPT !.fee = Buffered(@)]]
    BY <1>6 DEF CacheInsert
  <2>3. offer' \in [Requests -> Quote]
    BY <2>1, <2>2
  <2>4. [quote |-> offer[r], age |-> 0] \in [quote : Quote, age : 0..Ttl]
    OBVIOUS
  <2>5. cache' = [cache EXCEPT ![KeyOf[r]] = [quote |-> offer[r], age |-> 0]]
    BY <1>6 DEF CacheInsert
  <2>6. cache' \in [Keys -> [quote : Quote, age : 0..Ttl]]
    BY <2>4, <2>5
  <2> QED
    BY <1>6, <2>3, <2>6 DEF CacheInsert
<1>7. ASSUME NEW r \in Requests, SubmitOk(r) \/ SubmitFails(r) PROVE TypeOK'
  BY <1>7, NothingType DEF SubmitOk, SubmitFails
<1>8. ASSUME NEW k \in Keys, NEW b \in Bindings, PriceMoves(k, b) PROVE TypeOK'
  <2>1. PICK p \in Prices : price' = [price EXCEPT ![<<k, b>>] = p]
    BY <1>8 DEF PriceMoves
  <2>2. price' \in [Keys \X Bindings -> Prices]
    BY <2>1
  <2>3. mishaps' \in 0..MaxMishaps
    BY <1>8 DEF PriceMoves
  <2> QED
    BY <1>8, <2>2, <2>3 DEF PriceMoves
<1>9. ASSUME UNCHANGED vars PROVE TypeOK'
  BY <1>9 DEF vars
<1> QED
  BY <1>1, <1>2, <1>3, <1>4, <1>5, <1>6, <1>7, <1>8, <1>9 DEF Next, Forward

\* Prices, cache entries and offers keep their types, whatever quotes fail and prices
\* move; a buffered fee is a whole number.
THEOREM TypeCorrect == Spec => []TypeOK
BY InitTypes, TypeStep, PTL DEF Spec

-----------------------------------------------------------------------------
\* Some request that uses the cache entry is forwarded with this binding.
Asked(k, b) == \E s \in Requests : KeyOf[s] = k /\ hook_binding(s) = b

\* The quote, buffered or not, is enough for the binding it was made for.
Covers(k, quote) ==
    mishaps = 0 /\ BufferNum >= BufferDen => quote.fee >= price[<<k, quote.binding>>]

\* The strengthening of OffersEnough: usable entries and answers on their way are quotes
\* for a binding of the key, and while nothing has gone wrong they are enough for it.
Quoted ==
    /\ \A k \in Keys : Fresh(k) => /\ Asked(k, cache[k].quote.binding)
                                  /\ Covers(k, cache[k].quote)
    /\ \A r \in Requests :
         worker[r] \in {"quoted", "submit"} => /\ Asked(KeyOf[r], offer[r].binding)
                                               /\ Covers(KeyOf[r], offer[r])

IInv == TypeOK /\ Quoted

\* Before the first quote no entry is fresh.
LEMMA InitIInv == Init => IInv
<1> SUFFICES ASSUME Init PROVE IInv
  OBVIOUS
<1>1. ASSUME NEW k \in Keys PROVE ~ Fresh(k)
  <2>1. cache[k].age = Ttl
    BY DEF Init
  <2>2. ~ (Ttl < Ttl)
    BY FeeAssumption
  <2> QED
    BY <2>1, <2>2 DEF Fresh
<1> QED
  BY <1>1, InitTypes DEF Init, IInv, Quoted

\* A quote that is enough is still so when it is buffered.
LEMMA BufferedCovers ==
    ASSUME TypeOK, NEW k \in Keys, NEW quote \in Quote, Covers(k, quote)
    PROVE  LET offered == [quote EXCEPT !.fee = Buffered(quote.fee)]
           IN  /\ offered.binding = quote.binding
               /\ Covers(k, offered)
<1> DEFINE offered == [quote EXCEPT !.fee = Buffered(quote.fee)]
<1>1. /\ offered.binding = quote.binding /\ offered.fee = Buffered(quote.fee)
      /\ quote.fee \in Nat /\ quote.binding \in Bindings
  BY DEF Quote
<1>2. price[<<k, quote.binding>>] \in Nat
  BY <1>1, PriceType
<1>3. /\ Buffered(quote.fee) \in Nat
      /\ BufferNum >= BufferDen => Buffered(quote.fee) >= quote.fee
  BY <1>1, BufferedFee
<1> HIDE DEF offered
<1>4. Covers(k, offered)
  BY <1>1, <1>2, <1>3 DEF Covers
<1> QED
  BY <1>1, <1>4 DEF offered

\* Every step keeps the invariant.
LEMMA IInvStep ==
    ASSUME IInv, [Next]_vars
    PROVE  IInv'
<1> USE RequestAssumption DEF IInv, Quoted
<1>1. TypeOK'
  BY TypeStep
<1>2. \A r \in Requests : /\ KeyOf[r] \in Keys /\ hook_binding(r) \in Bindings
                          /\ Asked(KeyOf[r], hook_binding(r))
  BY HookBindingType DEF Asked
<1>3. ASSUME Advance PROVE IInv'
  <2>1. \A k \in Keys : cache'[k].quote = cache[k].quote /\ (Fresh(k)' => Fresh(k))
    BY <1>3, FeeAssumption DEF Advance, Fresh, TypeOK
  <2>2. UNCHANGED <<price, mishaps, worker, offer>>
    BY <1>3 DEF Advance
  <2> QED
    BY <1>1, <2>1, <2>2 DEF Covers
<1>4. ASSUME NEW r \in Requests, Deposit(r) \/ CacheMiss(r) PROVE IInv'
  <2>1. UNCHANGED <<price, mishaps, cache, offer>>
        /\ \A s \in Requests : worker'[s] # worker[s] => worker'[s] = "query"
    BY <1>4 DEF Deposit, CacheMiss, TypeOK
  <2> QED
    BY <1>1, <2>1 DEF Fresh, Covers
<1>5. ASSUME NEW r \in Requests, CacheHit(r) PROVE IInv'
  <2> DEFINE quote == cache[KeyOf[r]].quote
             offered == [quote EXCEPT !.fee = Buffered(quote.fee)]
  <2>1. quote \in Quote
    BY <1>2 DEF TypeOK
  <2>2. /\ offer' = [offer EXCEPT ![r] = offered]
        /\ worker' = [worker EXCEPT ![r] = "submit"]
        /\ Fresh(KeyOf[r]) /\ UNCHANGED <<price, mishaps, cache>>
    BY <1>5 DEF CacheHit
  <2>3. Asked(KeyOf[r], quote.binding) /\ Covers(KeyOf[r], quote)
    BY <1>2, <2>2
  <2>4. offered.binding = quote.binding /\ Covers(KeyOf[r], offered)
    BY <1>2, <2>1, <2>3, BufferedCovers
  <2> HIDE DEF quote, offered
  <2>5. offer'[r] = offered
        /\ \A s \in Requests \ {r} : offer'[s] = offer[s] /\ worker'[s] = worker[s]
    BY <2>2 DEF TypeOK
  <2> QED
    BY <1>1, <2>2, <2>3, <2>4, <2>5 DEF Fresh, Covers
<1>6. ASSUME NEW r \in Requests, NEW fails \in BOOLEAN, QuoteAnswer(r, fails) PROVE IInv'
  <2> DEFINE quote == [fee |-> IF fails THEN 0 ELSE price[<<KeyOf[r], hook_binding(r)>>],
                       binding |-> hook_binding(r)]
  <2>1. offer'[r] = quote
        /\ \A s \in Requests \ {r} : offer'[s] = offer[s] /\ worker'[s] = worker[s]
    BY <1>6 DEF QuoteAnswer, TypeOK
  <2>2. UNCHANGED <<price, cache>>
    BY <1>6 DEF QuoteAnswer
  <2>3. mishaps' = 0 => ~ fails /\ mishaps = 0
    <3>1. CASE fails
      BY <1>6, <3>1, FeeAssumption DEF QuoteAnswer, TypeOK
    <3>2. CASE ~ fails
      BY <1>6, <3>2 DEF QuoteAnswer
    <3> QED
      BY <3>1, <3>2
  <2>4. price[<<KeyOf[r], hook_binding(r)>>] \in Nat
    BY <1>2, PriceType
  <2>5. /\ offer'[r].binding = hook_binding(r) /\ offer'[r].fee \in Nat
        /\ mishaps' = 0 => offer'[r].fee = price'[<<KeyOf[r], hook_binding(r)>>]
    BY <2>1, <2>2, <2>3, <2>4
  <2> HIDE DEF quote
  <2>6. ASSUME NEW k \in Keys, Fresh(k)'
        PROVE  Asked(k, cache[k].quote.binding)' /\ Covers(k, cache[k].quote)'
    BY <2>2, <2>3, <2>6 DEF Fresh, Covers, Asked
  <2>7. Asked(KeyOf[r], offer[r].binding)' /\ Covers(KeyOf[r], offer[r])'
    BY <1>2, <2>1, <2>5 DEF Asked, Covers
  <2>8. ASSUME NEW s \in Requests \ {r}, worker'[s] \in {"quoted", "submit"}
        PROVE  Asked(KeyOf[s], offer[s].binding)' /\ Covers(KeyOf[s], offer[s])'
    BY <2>1, <2>2, <2>3, <2>8 DEF Asked, Covers
  <2> QED
    BY <1>1, <2>6, <2>7, <2>8
<1>7. ASSUME NEW r \in Requests, CacheInsert(r) PROVE IInv'
  <2> DEFINE quote == offer[r]
             offered == [quote EXCEPT !.fee = Buffered(quote.fee)]
  <2>1. quote \in Quote
    BY DEF TypeOK
  <2>2. /\ worker[r] = "quoted"
        /\ cache' = [cache EXCEPT ![KeyOf[r]] = [quote |-> quote, age |-> 0]]
        /\ offer' = [offer EXCEPT ![r] = offered]
        /\ worker' = [worker EXCEPT ![r] = "submit"]
        /\ UNCHANGED <<price, mishaps>>
    BY <1>7 DEF CacheInsert
  <2>3. Asked(KeyOf[r], quote.binding) /\ Covers(KeyOf[r], quote)
    BY <2>2
  <2>4. offered.binding = quote.binding /\ Covers(KeyOf[r], offered)
    BY <1>2, <2>1, <2>3, BufferedCovers
  <2> HIDE DEF quote, offered
  <2>5. offer'[r] = offered
        /\ \A s \in Requests \ {r} : offer'[s] = offer[s] /\ worker'[s] = worker[s]
    BY <2>2 DEF TypeOK
  <2>6. /\ cache'[KeyOf[r]].quote = quote
        /\ \A k \in Keys \ {KeyOf[r]} : cache'[k] = cache[k]
    BY <1>2, <2>2 DEF TypeOK
  <2> QED
    BY <1>1, <2>2, <2>3, <2>4, <2>5, <2>6 DEF Fresh, Covers
<1>8. ASSUME NEW r \in Requests, SubmitOk(r) \/ SubmitFails(r) PROVE IInv'
  <2>1. UNCHANGED <<price, mishaps, cache>> /\ worker'[r] = "idle"
    BY <1>8 DEF SubmitOk, SubmitFails, TypeOK
  <2>2. \A s \in Requests \ {r} : offer'[s] = offer[s] /\ worker'[s] = worker[s]
    BY <1>8 DEF SubmitOk, SubmitFails, TypeOK
  <2> QED
    BY <1>1, <2>1, <2>2 DEF Fresh, Covers
<1>9. ASSUME NEW k \in Keys, NEW b \in Bindings, PriceMoves(k, b) PROVE IInv'
  <2>1. mishaps' # 0 /\ UNCHANGED <<cache, worker, offer>>
    BY <1>9, FeeAssumption DEF PriceMoves, TypeOK
  <2> QED
    BY <1>1, <2>1 DEF Fresh, Covers
<1>10. ASSUME UNCHANGED vars PROVE IInv'
  BY <1>1, <1>10 DEF vars, Fresh, Covers
<1> QED
  BY <1>3, <1>4, <1>5, <1>6, <1>7, <1>8, <1>9, <1>10 DEF Next, Forward

\* Whichever requests share a cache entry, and however they are bound: while no price
\* moves and no quote fails, an offer that is not enough for the request was quoted for
\* a rival, and is enough for that one.  The cache, the other requests' quotes and the
\* cutting off of the buffered fee make no other offer too low.
THEOREM OffersCoverPrice == Spec => []OffersEnough
<1>1. IInv => OffersEnough
  <2> SUFFICES ASSUME IInv, mishaps = 0, BufferNum >= BufferDen, NEW r \in Requests,
                      worker[r] = "submit"
               PROVE  /\ offer[r].fee >= price[<<KeyOf[r], offer[r].binding>>]
                      /\ \E s \in Rivals(r) \cup {r} : offer[r].binding = hook_binding(s)
    BY DEF OffersEnough
  <2>1. Asked(KeyOf[r], offer[r].binding) /\ Covers(KeyOf[r], offer[r])
    BY DEF IInv, Quoted
  <2> QED
    BY <2>1 DEF Asked, Covers, Rivals
<1> QED
  BY InitIInv, IInvStep, <1>1, PTL DEF Spec
=============================================================================
