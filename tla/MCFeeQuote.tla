----------------------------- MODULE MCFeeQuote -----------------------------
(* Model checking of FeeQuote: requests for one domain and token, of which  *)
(* one is bound to no hook, so that two agree in their binding and one is   *)
(* their rival for the cache entry.                                         *)
EXTENDS FeeQuote

CONSTANTS r1, r2, r3, k1, h1, m0

AllToOneKey == [r \in Requests |-> k1]
OneDefault == [r \in Requests |-> IF r = r2 THEN <<NoHook, m0>> ELSE <<h1, m0>>]
=============================================================================
