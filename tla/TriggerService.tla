--------------------------- MODULE TriggerService ---------------------------
(***************************************************************************)
(* What the forward-worker dispatcher promises to the tasks that trigger   *)
(* it (the block scanner, the maintenance tick, the balance poll), without *)
(* the queue, the semaphore and the in-flight map that run_dispatcher      *)
(* (src/relayer.rs) uses to keep the promise:                              *)
(*   - a trigger for an address is owed a run of forward_address that      *)
(*     starts AFTER the trigger, so that it sees the deposit behind it;    *)
(*   - an address has at most one run at a time.                           *)
(* Several triggers may be answered by one later run, and a run may leave  *)
(* the address owed (it answers one of two queued triggers).               *)
(***************************************************************************)
CONSTANT Addrs          \* forwarding addresses

VARIABLES owed,         \* addresses with a trigger no run has yet answered
          running       \* addresses whose forward is in flight

tsvars == <<owed, running>>

TSInit ==
    /\ owed = {}
    /\ running = {}

\* A producer sends an address down the trigger channel.
Trigger(a) ==
    /\ owed' = owed \cup {a}
    /\ UNCHANGED running

\* A forward starts.  It needs a trigger and an address with no run.
Start(a) ==
    /\ a \in owed
    /\ a \notin running
    /\ running' = running \cup {a}
    /\ owed' \in {owed, owed \ {a}}

\* A forward ends, and takes nothing away from what is owed.
Finish(a) ==
    /\ a \in running
    /\ running' = running \ {a}
    /\ UNCHANGED owed

TSNext == \E a \in Addrs : Trigger(a) \/ Start(a) \/ Finish(a)

TSSpec == TSInit /\ [][TSNext]_tsvars
=============================================================================
