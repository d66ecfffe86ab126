----------------------------- MODULE MCScanner -----------------------------
(* Model checking of Scanner: the heights no or not every endpoint serves. *)
EXTENDS Scanner

\* Endpoint 1 misses height 2; no start height, and a store that fails.
Failing == [start |-> 0, corrupt |-> {<<1, 2>>}, outages |-> 0, storeFails |-> TRUE]

\* Height 1 takes a failover to endpoint 2, height 2 can only be skipped; an endpoint
\* goes down on the way.
Skipping == [start |-> 1, corrupt |-> {<<1, 1>>, <<1, 2>>, <<2, 2>>}, outages |-> 1,
             storeFails |-> FALSE]

\* Every height is served, except for an outage.
Outage == [start |-> 1, corrupt |-> {}, outages |-> 1, storeFails |-> FALSE]

Recoverable == {Failing, Skipping}
OutageOnly == {Outage}
=============================================================================
