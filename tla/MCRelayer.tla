----------------------------- MODULE MCRelayer -----------------------------
(* Model checking of Relayer: the schedules of the small instances, and    *)
(* the configurations they start with.                                     *)
EXTENDS Relayer

OneStep == <<1>>

\* No balance poll, answers that are fresh, every block served; with the retention
\* limits or without.
Retiring == [limits |-> TRUE, poll |-> FALSE, stale |-> FALSE, skips |-> FALSE,
             late |-> FALSE, deposits |-> TRUE]
Plain == [Retiring EXCEPT !.limits = FALSE]

\* The poll as the backstop for lagging nodes and blocks the scanner does not see.
Backstop == [Plain EXCEPT !.poll = TRUE, !.stale = TRUE, !.skips = TRUE]

\* DELETEs that outlive the tick or the relayer that sent them.  Who deposits makes no
\* difference to them, and nobody does.
Overdue == [Retiring EXCEPT !.late = TRUE, !.deposits = FALSE]

RetiringOnly == {Retiring}
AllModes == {Retiring, Plain, Backstop, Overdue}
=============================================================================
