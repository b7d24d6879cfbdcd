---------------------------- MODULE MCRetention ----------------------------
(***************************************************************************)
(* Small instances of Retention for TLC.                                   *)
(***************************************************************************)
EXTENDS Retention

\* One rule is pushed to, the other one scheduled; one subscription follows
\* both.
Served == [i \in Incidents |-> IF i = "i1" THEN "push" ELSE "scheduled"]
Following == [i \in Incidents |-> IF i = "i1" THEN Subs ELSE OneShot]
=============================================================================
