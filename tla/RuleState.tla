----------------------------- MODULE RuleState -----------------------------
(***************************************************************************)
(* The per-rule state machine of internal/rule/state.go: what one          *)
(* evaluation outcome does to a rule's LiveState, and the Transition it    *)
(* reports to the dispatcher.                                              *)
(*                                                                         *)
(* A LiveState keeps the fields the dispatcher decides on: the state, the  *)
(* start of the firing cycle and the incident id.  LastEvalAt, LastValue   *)
(* and LastError are carried along and decide nothing, so they are left    *)
(* out.  0 is Go's zero time and NoIncident the empty incident id.         *)
(***************************************************************************)
EXTENDS Naturals

CONSTANTS Incidents,   \* the incident ids uuid.NewString can return
          NoIncident   \* the empty id

ASSUME NoIncidentAssumption == NoIncident \notin Incidents

States == {"ok", "firing"}

LiveState == [state : States, triggeredAt : Nat, incident : Incidents \cup {NoIncident}]

Transition == [prev : States, next : States, incident : Incidents \cup {NoIncident}]

OKState == [state |-> "ok", triggeredAt |-> 0, incident |-> NoIncident]

NoTransition == [prev |-> "ok", next |-> "ok", incident |-> NoIncident]

StateFor(triggered) == IF triggered THEN "firing" ELSE "ok"

\* The two outcomes that change the state.
Opens(ls, triggered) == triggered /\ ls.state # "firing"

Closes(ls, triggered) == ~triggered /\ ls.state = "firing"

\* Mutant: the start of the cycle moves with every triggered evaluation.
AppliedRestarting(ls, triggered, now, newId) ==
  [state |-> StateFor(triggered),
   triggeredAt |-> IF triggered THEN now ELSE 0,
   incident |-> IF Opens(ls, triggered) THEN newId
                ELSE IF triggered THEN ls.incident ELSE NoIncident]

\* Mutant: the id is not cleared on resolve, and the next cycle goes on with it.
AppliedReusingId(ls, triggered, now, newId) ==
  [state |-> StateFor(triggered),
   triggeredAt |-> IF Opens(ls, triggered) THEN now
                   ELSE IF triggered THEN ls.triggeredAt ELSE 0,
   incident |-> IF ls.incident = NoIncident THEN newId ELSE ls.incident]

\* The state Apply leaves behind.  An empty newId keeps the id already there.
Applied(ls, triggered, now, newId) ==
  [state |-> StateFor(triggered),
   triggeredAt |-> IF Opens(ls, triggered) THEN now
                   ELSE IF Closes(ls, triggered) THEN 0 ELSE ls.triggeredAt,
   incident |-> IF Opens(ls, triggered) /\ newId # NoIncident THEN newId
                ELSE IF Closes(ls, triggered) THEN NoIncident ELSE ls.incident]

\* Mutant: the incident of a resolution is read after it was cleared.
TransitionOfCleared(ls, triggered, now, newId) ==
  [prev |-> ls.state,
   next |-> StateFor(triggered),
   incident |-> Applied(ls, triggered, now, newId).incident]

\* The Transition Apply returns: a resolution belongs to the incident that
\* was firing, an evaluation that stays OK belongs to none.
TransitionOf(ls, triggered, now, newId) ==
  [prev |-> ls.state,
   next |-> StateFor(triggered),
   incident |-> IF triggered THEN Applied(ls, triggered, now, newId).incident
                ELSE IF ls.state = "firing" THEN ls.incident ELSE NoIncident]

Opened(t) == t.prev = "ok" /\ t.next = "firing"

Closed(t) == t.prev = "firing" /\ t.next = "ok"

IsTransition(t) == t.prev # t.next
=============================================================================
