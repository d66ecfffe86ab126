---------------------------- MODULE MCDispatcher ----------------------------
(* Model checking of Dispatcher.  With MaxOutstanding triggers at most that *)
(* many tasks wait to re-enqueue, so Concurrency + MaxOutstanding task      *)
(* identities are never all in use while a permit is free.                  *)
EXTENDS Dispatcher

ASSUME EnoughTasks == Cardinality(Tasks) >= Concurrency + MaxOutstanding
=============================================================================
