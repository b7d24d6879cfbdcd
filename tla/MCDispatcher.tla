---------------------------- MODULE MCDispatcher ----------------------------
(***************************************************************************)
(* Small instances of Dispatcher for TLC.  Subscription "patient" waits a  *)
(* dwell, repeats and wants resolutions; "eager" is told at once; "once"   *)
(* is one-shot and follows every rule through a label selector.            *)
(***************************************************************************)
EXTENDS DispatcherClaims, DispatcherInvariant

ServesAll == [e \in Evaluators |-> Rules]

ServesByMode == [e \in Evaluators |-> IF e \in Scheduled THEN {"disk"} ELSE {"login"}]

MatchAll == [r \in Rules |-> Subs]

Patience == [s \in Subs |-> IF s = "patient" THEN 1 ELSE 0]

Repeats == [s \in Subs |-> IF s = "patient" THEN 2 ELSE 0]

RepeatsOften == [s \in Subs |-> IF s = "patient" THEN 1 ELSE 0]

WantsResolved == [s \in Subs |-> s # "eager"]

OnlyOnce == [s \in Subs |-> s = "once"]

AllTargets == [s \in Subs |-> Channels]
=============================================================================
