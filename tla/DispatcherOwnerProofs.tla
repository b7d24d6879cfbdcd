------------------------ MODULE DispatcherOwnerProofs ------------------------
(***************************************************************************)
(* Where a rule has one evaluator, the invariants of DispatcherOwner hold  *)
(* for every value of the constants.                                       *)
(***************************************************************************)
EXTENDS DispatcherOwner, DispatcherProofs, FiniteSetTheorems

\* A call past its load: it keeps its arguments, its state and its transition.
GoesOn(e) ==
  /\ pc[e] \in AfterApply /\ pc'[e] \in PastSave
  /\ job'[e] = job[e] /\ ls'[e] = ls[e] /\ tr'[e] = tr[e]
  /\ pc'[e] = "incident" => pc[e] = "save" /\ (Opened(tr[e]) \/ Closed(tr[e]))

Returned(e) ==
  /\ pc'[e] = "idle"
  /\ ls'[e] = OKState /\ tr'[e] = NoTransition /\ dlv'[e] = NoDelivery /\ todo'[e] = {}
  /\ left'[e] = left[e] /\ audit'[e] = audit[e]

\* What a step of an evaluator does to its own call.
LEMMA ActorShape ==
  ASSUME TypeOK, NEW e \in Evaluators, StepOf(e)
  PROVE  \/ Returned(e) /\ pc[e] \notin {"send", "record"}
         \/ pc[e] = "idle" /\ pc'[e] \in {"load", "errload"} /\ job'[e].rule \in Serves[e]
            /\ ls'[e] = ls[e] /\ tr'[e] = tr[e] /\ left'[e] = left[e]
         \/ LoadLiveState(e)
         \/ LoadForError(e)
         \/ GoesOn(e)
<1> USE DEF TypeOK, Goto, AfterApply, PastSave, Telling
<1>1. ASSUME Return(e) PROVE Returned(e)
  BY <1>1 DEF Return, Returned
<1>2. CASE \E r \in Rules : Evaluate(e, r) \/ BeginEvalError(e, r)
  BY <1>2 DEF Evaluate, BeginTick, BeginEvalError
<1>3. CASE ReadFails(e) \/ EndTick(e) \/ SaveForError(e)
  BY <1>1, <1>3 DEF ReadFails, EndTick, SaveForError
<1>4. CASE SaveLiveState(e) \/ RecordIncident(e)
  <2>1. CASE Return(e)
    BY <1>1, <1>4, <2>1 DEF SaveLiveState, RecordIncident
  <2>2. CASE ~Return(e)
    BY <1>4, <2>2 DEF SaveLiveState, RecordIncident, GoesOn
  <2>3. QED
    BY <2>1, <2>2
<1>5. CASE ListSubscriptions(e) \/ OneShotGate(e) \/ GateFails(e)
  BY <1>5 DEF ListSubscriptions, OneShotGate, GateFails, GoesOn
<1>6. CASE \E s \in Subs : PassOver(e, s) \/ SubStateFails(e, s)
  BY <1>6 DEF PassOver, SubStateFails, Visit, GoesOn
<1>7. CASE \E s \in Subs, kind \in Kinds : StartDelivery(e, s, kind)
  BY <1>7 DEF StartDelivery, Visit, GoesOn
<1>8. CASE \E c \in Channels, ok \in BOOLEAN : Send(e, c, ok)
  BY <1>8 DEF Send, GoesOn
<1>9. CASE RecordNotification(e) \/ MarkNotified(e)
  BY <1>9 DEF RecordNotification, MarkNotified, GoesOn
<1>10. QED
  BY <1>2, <1>3, <1>4, <1>5, <1>6, <1>7, <1>8, <1>9 DEF StepOf, Continue

\* After a crash every call is gone.
LEMMA CrashShape ==
  ASSUME Crash, NEW e \in Evaluators
  PROVE  /\ pc'[e] = "idle" /\ ls'[e] = OKState /\ tr'[e] = NoTransition
         /\ job'[e] = NoJob /\ todo'[e] = {} /\ left'[e] = {} /\ audit'[e] = {}
BY DEF Crash

\* The id a load reads or mints, and what it makes of the row.
LEMMA LoadShape ==
  ASSUME IndInv, NEW e \in Evaluators, LoadLiveState(e)
  PROVE  \E id \in Incidents \cup {NoIncident} :
           LET row == live[job[e].rule]
           IN /\ Opens(row, job[e].triggered) => id \in Unminted
              /\ ~Opens(row, job[e].triggered) => id = NoIncident
              /\ born' = [i \in Incidents |-> IF i = id THEN job[e].now ELSE born[i]]
              /\ ls'[e] = Applied(row, job[e].triggered, job[e].now, id)
              /\ tr'[e] = TransitionOf(row, job[e].triggered, job[e].now, id)
              /\ pc[e] = "load" /\ pc'[e] = "save" /\ job' = job /\ left' = left
              /\ row \in LiveState /\ job[e] \in Job /\ job[e].rule \in Rules
<1>1. TypeOK /\ job[e] \in Job
  BY DEF IndInv, TypeOK
<1>2. live[job[e].rule] \in LiveState /\ job[e].rule \in Rules
  BY <1>1 DEF TypeOK, Job
<1>3. PICK id \in (IF Opens(live[job[e].rule], job[e].triggered) THEN Unminted ELSE {NoIncident}) :
        /\ born' = [i \in Incidents |-> IF i = id THEN job[e].now ELSE born[i]]
        /\ ls' = [ls EXCEPT ![e] = Applied(live[job[e].rule], job[e].triggered, job[e].now, id)]
        /\ tr' = [tr EXCEPT ![e] = TransitionOf(live[job[e].rule], job[e].triggered, job[e].now, id)]
  BY DEF LoadLiveState
<1>4. id \in Incidents \cup {NoIncident}
  BY <1>3 DEF Unminted
<1>5. /\ ls'[e] = Applied(live[job[e].rule], job[e].triggered, job[e].now, id)
      /\ tr'[e] = TransitionOf(live[job[e].rule], job[e].triggered, job[e].now, id)
  BY <1>1, <1>3 DEF TypeOK
<1>6. pc[e] = "load" /\ pc'[e] = "save" /\ job' = job /\ left' = left
  BY <1>1 DEF LoadLiveState, Goto, TypeOK
<1>7. QED
  BY <1>1, <1>2, <1>3, <1>4, <1>5, <1>6

-----------------------------------------------------------------------------
\* A step of one evaluator, a crash, or one that leaves every call alone.
LEMMA StepCases ==
  ASSUME [Next]_vars
  PROVE  \/ \E e \in Evaluators : StepOf(e)
         \/ Crash
         \/ UNCHANGED <<locals, tables, feed, born, faults>>
BY DEF Next, StepOf, AdvanceClock, vars

\* A Tick's transition and state name the same incident.
LEMMA TransitionFacts ==
  ASSUME IndInv, NEW e \in Evaluators, LocalsInOrder(e)
  PROVE  /\ ls[e].state = "firing" => /\ pc[e] \in AfterApply \cup {"errsave"}
                                      /\ ls[e].incident \in Incidents
                                      /\ born[ls[e].incident] > 0
         /\ tr[e].incident # NoIncident =>
              /\ pc[e] \in AfterApply
              /\ born[tr[e].incident] > 0 /\ tr[e].incident \in Incidents
              /\ Closed(tr[e]) \/ (ls[e].state = "firing" /\ ls[e].incident = tr[e].incident)
<1>1. TypeOK /\ TickCycle(e)
  BY DEF IndInv, CycleInv
<1>2. tr[e].prev \in {"ok", "firing"} /\ tr[e].next \in {"ok", "firing"} /\ pc[e] \in PCs
  BY <1>1 DEF TypeOK, Transition, States
<1>3. QED
  BY <1>1, <1>2 DEF TickCycle, InCycle, Minted, LocalsInOrder, OKState, NoTransition, Closed,
                    AfterApply, PCs

\* A firing row, or one a Tick is to save, has an incident that was minted.
LEMMA HeldIsMinted ==
  ASSUME IndInv, OwnerInv, NEW i \in Incidents, NEW r \in Rules, Holds(r, i)
  PROVE  Minted(i)
<1>1. TypeOK /\ CycleInv /\ i # NoIncident
  BY NoIncidentAssumption DEF IndInv
<1>2. CASE live[r].incident = i
  <2>1. live[r].state \in {"ok", "firing"}
    BY <1>1 DEF TypeOK, LiveState, States
  <2>2. QED
    BY <1>1, <1>2, <2>1 DEF OwnerInv, OnlyFiringHolds, CycleInv, InCycle
<1>3. ASSUME NEW e \in Evaluators, ls[e].incident = i
      PROVE  Minted(i)
  <2>1. ls[e].state \in {"ok", "firing"}
    BY <1>1 DEF TypeOK, LiveState, States
  <2>2. QED
    BY <1>1, <1>3, <2>1 DEF OwnerInv, OnlyFiringHolds, CycleInv, TickCycle, InCycle
<1>4. ASSUME NEW e \in Evaluators, tr[e].incident = i
      PROVE  Minted(i)
  BY <1>1, <1>4, TransitionFacts DEF OwnerInv, Minted
<1>5. QED
  BY <1>2, <1>3, <1>4 DEF Holds

\* Where a rule has one evaluator, two calls do not know the same incident.
LEMMA SoleTeller ==
  ASSUME IndInv, OwnerInv, OneEvaluatorPerRule, NEW i \in Incidents,
         NEW e \in Evaluators, NEW f \in Evaluators,
         tr[e].incident = i, tr[f].incident = i \/ ls[f].incident = i
  PROVE  e = f
<1>1. TypeOK /\ i # NoIncident
  BY NoIncidentAssumption DEF IndInv
<1>2. pc[e] # "idle" /\ pc[f] # "idle"
  BY <1>1 DEF OwnerInv, LocalsInOrder, NoTransition, OKState, AfterApply
<1>3. job[e].rule \in Rules /\ job[f].rule \in Rules
  BY <1>1 DEF TypeOK, Job
<1>4. Holds(job[e].rule, i) /\ Holds(job[f].rule, i)
  BY <1>2 DEF Holds
<1>5. job[e].rule = job[f].rule
  BY <1>3, <1>4 DEF OwnerInv, HeldByOneRule
<1>6. job[e].rule \in Serves[e] /\ job[f].rule \in Serves[f]
  BY <1>2 DEF OwnerInv, LocalsInOrder
<1>7. QED
  BY <1>5, <1>6 DEF OneEvaluatorPerRule

-----------------------------------------------------------------------------
\* Every step keeps the locals of a call in order.
LEMMA LocalsStep ==
  ASSUME IndInv, OwnerInv, [Next]_vars, NEW e \in Evaluators
  PROVE  LocalsInOrder(e)'
<1>1. TypeOK /\ LocalsInOrder(e) /\ TickCycle(e)'
  BY CycleStep DEF IndInv, OwnerInv, CycleInv
<1> USE DEF LocalsInOrder, AfterApply, PastSave, Telling, Opened, Closed
<1>2. ASSUME StepOf(e)
      PROVE  LocalsInOrder(e)'
  <2>1. CASE Returned(e) /\ pc[e] \notin {"send", "record"}
    BY <1>1, <2>1 DEF Returned, NoTransition
  <2>2. CASE /\ pc[e] = "idle" /\ pc'[e] \in {"load", "errload"} /\ job'[e].rule \in Serves[e]
             /\ ls'[e] = ls[e] /\ tr'[e] = tr[e] /\ left'[e] = left[e]
    BY <1>1, <2>2
  <2>3. CASE LoadLiveState(e)
    <3>1. PICK id \in Incidents \cup {NoIncident} :
            LET row == live[job[e].rule]
            IN /\ tr'[e] = TransitionOf(row, job[e].triggered, job[e].now, id)
               /\ pc[e] = "load" /\ pc'[e] = "save" /\ job' = job /\ left' = left
               /\ row \in LiveState /\ job[e] \in Job
      BY <2>3, LoadShape
    <3>2. tr'[e].incident # NoIncident => "firing" \in {tr'[e].prev, tr'[e].next}
      BY <3>1 DEF TransitionOf, StateFor, LiveState, Job
    <3>3. QED
      BY <1>1, <3>1, <3>2
  <2>4. CASE LoadForError(e)
    <3>1. pc[e] = "errload" /\ pc'[e] = "errsave" /\ job' = job /\ left' = left /\ tr' = tr
      BY <1>1, <2>4 DEF LoadForError, Goto, TypeOK
    <3>2. QED
      BY <1>1, <3>1
  <2>5. CASE GoesOn(e)
    <3>1. pc'[e] \notin {"send", "record"} => left'[e] = {}
      <4>1. CASE MarkNotified(e)
        BY <4>1 DEF MarkNotified
      <4>2. CASE Return(e)
        BY <1>1, <2>5, <4>2 DEF Return, Goto, GoesOn, TypeOK
      <4>3. CASE ~MarkNotified(e) /\ ~Return(e)
        BY <1>1, <1>2, <2>5, <4>3 DEF StepOf, Continue, GoesOn, Evaluate, BeginTick,
           BeginEvalError, LoadLiveState, ReadFails, SaveLiveState, RecordIncident,
           ListSubscriptions, PassOver, SubStateFails, StartDelivery, Visit, OneShotGate,
           GateFails, Send, RecordNotification, EndTick, LoadForError, SaveForError, Goto, TypeOK
      <4>4. QED
        BY <4>1, <4>2, <4>3
    <3>2. QED
      BY <1>1, <2>5, <3>1 DEF GoesOn
  <2>6. QED
    BY <1>1, <1>2, <2>1, <2>2, <2>3, <2>4, <2>5, ActorShape
<1>3. ASSUME NEW d \in Evaluators, StepOf(d)
      PROVE  LocalsInOrder(e)'
  BY <1>1, <1>2, <1>3, OthersStand DEF LocalsStand
<1>4. CASE Crash
  BY <1>4, CrashShape DEF NoTransition
<1>5. CASE UNCHANGED <<locals, tables, feed, born, faults>>
  BY <1>1, <1>5 DEF locals
<1>6. QED
  BY <1>3, <1>4, <1>5, StepCases

\* What a row of live_states is after a step.
LEMMA LiveShape ==
  ASSUME IndInv, OwnerInv, [Next]_vars, NEW r \in Rules
  PROVE  \/ live'[r] = live[r]
         \/ \E e \in Evaluators : /\ SaveLiveState(e) \/ SaveForError(e)
                                  /\ pc[e] \in {"save", "errsave"}
                                  /\ job[e].rule = r /\ live'[r] = ls[e]
<1>1. TypeOK
  BY DEF IndInv
<1>2. QED
  BY <1>1, Writers DEF SaveLiveState, SaveForError, TypeOK

\* What the state in the hands of a call is after a step.
LEMMA StateShape ==
  ASSUME IndInv, OwnerInv, [Next]_vars, NEW e \in Evaluators
  PROVE  \/ ls'[e] = ls[e]
         \/ ls'[e] = OKState
         \/ LoadLiveState(e)
         \/ LoadForError(e) /\ ls'[e] = live[job[e].rule] /\ job[e].rule \in Rules
            /\ job' = job /\ pc[e] = "errload"
<1>1. TypeOK /\ job[e].rule \in Rules
  BY DEF IndInv, TypeOK, Job
<1>2. CASE StepOf(e)
  <2>1. CASE LoadForError(e)
    BY <1>1, <2>1 DEF LoadForError, TypeOK
  <2>2. QED
    BY <1>1, <1>2, <2>1, ActorShape DEF Returned, GoesOn
<1>3. ASSUME NEW d \in Evaluators, StepOf(d), d # e
      PROVE  ls'[e] = ls[e]
  BY <1>1, <1>3, OthersStand DEF LocalsStand
<1>4. QED
  BY <1>2, <1>3, StepCases, CrashShape DEF locals

\* A state that is not firing carries no incident.
LEMMA OnlyFiringStep ==
  ASSUME IndInv, OwnerInv, [Next]_vars
  PROVE  OnlyFiringHolds'
<1>1. OnlyFiringHolds
  BY DEF OwnerInv
<1>2. ASSUME NEW r \in Rules, live'[r].state = "ok"
      PROVE  live'[r].incident = NoIncident
  BY <1>1, <1>2, LiveShape DEF OnlyFiringHolds
<1>3. ASSUME NEW e \in Evaluators, ls'[e].state = "ok"
      PROVE  ls'[e].incident = NoIncident
  <2>1. CASE LoadLiveState(e)
    <3>1. PICK id \in Incidents \cup {NoIncident} :
            LET row == live[job[e].rule]
            IN /\ ls'[e] = Applied(row, job[e].triggered, job[e].now, id)
               /\ row \in LiveState /\ job[e] \in Job /\ job[e].rule \in Rules
      BY <2>1, LoadShape
    <3>2. live[job[e].rule].state = "ok" => live[job[e].rule].incident = NoIncident
      BY <1>1, <3>1 DEF OnlyFiringHolds
    <3>3. QED
      BY <1>3, <3>1, <3>2 DEF Applied, StateFor, Opens, Closes, LiveState, States, Job
  <2>2. QED
    BY <1>1, <1>3, <2>1, StateShape DEF OnlyFiringHolds, OKState
<1>4. QED
  BY <1>2, <1>3 DEF OnlyFiringHolds

-----------------------------------------------------------------------------
\* A load that finds the rule at rest mints the incident; every other way to
\* come by an incident is to take it over within the rule.
LEMMA HoldsShape ==
  ASSUME IndInv, OwnerInv, [Next]_vars, NEW i \in Incidents, NEW r \in Rules, Holds(r, i)'
  PROVE  \/ Holds(r, i)
         \/ \E e \in Evaluators : LoadLiveState(e) /\ job[e].rule = r /\ ~Minted(i)
<1>1. TypeOK /\ i # NoIncident
  BY NoIncidentAssumption DEF IndInv
<1>2. CASE live'[r].incident = i
  <2>1. ASSUME NEW e \in Evaluators, pc[e] \in {"save", "errsave"}, job[e].rule = r,
               ls[e].incident = i
        PROVE  Holds(r, i)
    BY <2>1 DEF Holds
  <2>2. QED
    BY <1>2, <2>1, LiveShape DEF Holds
<1>3. ASSUME NEW e \in Evaluators, pc'[e] # "idle", job'[e].rule = r,
             ls'[e].incident = i \/ tr'[e].incident = i
      PROVE  \/ Holds(r, i)
             \/ \E d \in Evaluators : LoadLiveState(d) /\ job[d].rule = r /\ ~Minted(i)
  <2>1. LocalsInOrder(e)
    BY DEF OwnerInv
  <2>2. CASE LoadLiveState(e)
    <3>1. PICK id \in Incidents \cup {NoIncident} :
            LET row == live[job[e].rule]
            IN /\ Opens(row, job[e].triggered) => id \in Unminted
               /\ ~Opens(row, job[e].triggered) => id = NoIncident
               /\ ls'[e] = Applied(row, job[e].triggered, job[e].now, id)
               /\ tr'[e] = TransitionOf(row, job[e].triggered, job[e].now, id)
               /\ job' = job /\ row \in LiveState
      BY <2>2, LoadShape
    <3>2. i = live[r].incident \/ i = id
      BY <1>1, <1>3, <3>1 DEF Applied, TransitionOf
    <3>3. CASE i = live[r].incident
      BY <3>3 DEF Holds
    <3>4. CASE i = id
      BY <1>1, <1>3, <2>2, <3>1, <3>4 DEF Unminted, Minted
    <3>5. QED
      BY <3>2, <3>3, <3>4
  <2>3. CASE ~LoadLiveState(e) /\ LoadForError(e)
    <3>1. tr'[e] = tr[e] /\ tr[e] = NoTransition
      BY <2>1, <2>3, <1>1 DEF LoadForError, LocalsInOrder, AfterApply
    <3>2. ls'[e] = live[r] \/ ls'[e] = OKState
      BY <1>1, <1>3, <2>3 DEF LoadForError, TypeOK
    <3>3. QED
      BY <1>1, <1>3, <3>1, <3>2 DEF Holds, OKState, NoTransition
  <2>4. CASE ~LoadLiveState(e) /\ ~LoadForError(e) /\ StepOf(e)
    <3>1. \/ pc[e] = "idle" /\ ls'[e] = ls[e] /\ tr'[e] = tr[e]
          \/ GoesOn(e)
      BY <1>1, <1>3, <2>4, ActorShape DEF Returned
    <3>2. CASE pc[e] = "idle" /\ ls'[e] = ls[e] /\ tr'[e] = tr[e]
      BY <1>1, <1>3, <2>1, <3>2 DEF LocalsInOrder, OKState, NoTransition, AfterApply
    <3>3. CASE GoesOn(e)
      BY <1>3, <3>3 DEF GoesOn, Holds, AfterApply
    <3>4. QED
      BY <3>1, <3>2, <3>3
  <2>5. ASSUME NEW d \in Evaluators, StepOf(d), d # e
        PROVE  Holds(r, i)
    BY <1>1, <1>3, <2>5, OthersStand DEF LocalsStand, Holds
  <2>6. CASE Crash
    BY <1>3, <2>6, CrashShape
  <2>7. CASE UNCHANGED <<locals, tables, feed, born, faults>>
    BY <1>3, <2>7 DEF Holds, locals, tables
  <2>8. QED
    BY <2>2, <2>3, <2>4, <2>5, <2>6, <2>7, StepCases
<1>4. QED
  BY <1>2, <1>3 DEF Holds

\* An incident passes between rows and calls of one rule only.
LEMMA HeldByOneRuleStep ==
  ASSUME IndInv, OwnerInv, [Next]_vars
  PROVE  HeldByOneRule'
<1> SUFFICES ASSUME NEW i \in Incidents, NEW q \in Rules, NEW r \in Rules,
                    Holds(q, i)', Holds(r, i)'
             PROVE  q = r
  BY DEF HeldByOneRule, Holds
<1>1. CASE Holds(q, i) /\ Holds(r, i)
  BY <1>1 DEF OwnerInv, HeldByOneRule
<1>2. CASE Minted(i)
  BY <1>1, <1>2, HoldsShape
<1>3. CASE ~Minted(i)
  <2>1. ~Holds(q, i) /\ ~Holds(r, i)
    BY <1>3, HeldIsMinted
  <2>2. PICK e \in Evaluators : LoadLiveState(e) /\ job[e].rule = q
    BY <2>1, HoldsShape
  <2>3. PICK d \in Evaluators : LoadLiveState(d) /\ job[d].rule = r
    BY <2>1, HoldsShape
  <2>4. d = e
    BY <2>2, <2>3 DEF LoadLiveState, Goto, IndInv, TypeOK
  <2>5. QED
    BY <2>2, <2>3, <2>4
<1>4. QED
  BY <1>2, <1>3

\* What was let go of is never taken up again: a row takes what a call holds,
\* a call what the row holds or an id of its own.
LEMMA ReleasedStands ==
  ASSUME IndInv, OwnerInv, [Next]_vars, NEW i \in Incidents, Minted(i), Released(i)
  PROVE  Released(i)'
<1>1. i # NoIncident
  BY NoIncidentAssumption
<1>2. ASSUME NEW r \in Rules
      PROVE  live'[r].incident # i
  BY LiveShape DEF Released
<1>3. ASSUME NEW e \in Evaluators
      PROVE  ls'[e].incident # i
  <2>1. CASE LoadLiveState(e)
    <3>1. PICK id \in Incidents \cup {NoIncident} :
            LET row == live[job[e].rule]
            IN /\ Opens(row, job[e].triggered) => id \in Unminted
               /\ ~Opens(row, job[e].triggered) => id = NoIncident
               /\ ls'[e] = Applied(row, job[e].triggered, job[e].now, id)
               /\ job[e].rule \in Rules
      BY <2>1, LoadShape
    <3>2. i # id /\ i # live[job[e].rule].incident
      BY <1>1, <3>1 DEF Unminted, Minted, Released
    <3>3. QED
      BY <1>1, <3>1, <3>2 DEF Applied
  <2>2. CASE ~LoadLiveState(e)
    BY <1>1, <2>2, StateShape DEF Released, OKState
  <2>3. QED
    BY <2>1, <2>2
<1>4. QED
  BY <1>2, <1>3 DEF Released

\* A call does not come by an incident that was let go of.
LEMMA TellerStands ==
  ASSUME IndInv, OwnerInv, [Next]_vars, NEW i \in Incidents, Minted(i), Released(i),
         NEW e \in Evaluators, tr'[e].incident = i
  PROVE  /\ tr[e] = tr'[e] /\ pc'[e] \in PastSave \cup {pc[e]}
         /\ pc'[e] = "incident" => pc[e] \in {"save", "incident"}
<1>1. TypeOK /\ i # NoIncident
  BY NoIncidentAssumption DEF IndInv
<1>2. LocalsInOrder(e) /\ LocalsInOrder(e)'
  BY LocalsStep DEF OwnerInv
<1>3. CASE LoadLiveState(e)
  <2>1. PICK id \in Incidents \cup {NoIncident} :
          LET row == live[job[e].rule]
          IN /\ Opens(row, job[e].triggered) => id \in Unminted
             /\ ~Opens(row, job[e].triggered) => id = NoIncident
             /\ tr'[e] = TransitionOf(row, job[e].triggered, job[e].now, id)
             /\ job[e].rule \in Rules
    BY <1>3, LoadShape
  <2>2. i # id /\ i # live[job[e].rule].incident
    BY <1>1, <2>1 DEF Unminted, Minted, Released
  <2>3. QED
    BY <1>1, <2>1, <2>2 DEF TransitionOf, Applied
<1>4. CASE ~LoadLiveState(e) /\ StepOf(e)
  <2>1. pc'[e] \in AfterApply
    BY <1>1, <1>2 DEF LocalsInOrder, NoTransition
  <2>2. CASE LoadForError(e)
    BY <1>1, <2>1, <2>2 DEF LoadForError, Goto, TypeOK, AfterApply
  <2>3. CASE ~LoadForError(e)
    BY <1>1, <1>4, <2>1, <2>3, ActorShape DEF Returned, GoesOn, AfterApply
  <2>4. QED
    BY <2>2, <2>3
<1>5. ASSUME NEW d \in Evaluators, StepOf(d), d # e
      PROVE  tr[e] = tr'[e] /\ pc'[e] = pc[e]
  BY <1>1, <1>5, OthersStand DEF LocalsStand
<1>6. QED
  BY <1>1, <1>3, <1>4, <1>5, StepCases, CrashShape DEF NoTransition, locals

-----------------------------------------------------------------------------
\* A feed grows by what the Tick that has its incident sends.
LEMMA FeedShape ==
  ASSUME IndInv, [Next]_vars, NEW i \in Incidents, NEW s \in Subs, NEW c \in Channels
  PROVE  \/ feed'[i][s][c] = feed[i][s][c]
         \/ \E e \in Evaluators, ok \in BOOLEAN :
              /\ Send(e, c, ok)
              /\ tr[e].incident = i /\ dlv[e].sub = s
              /\ Outgoing(e, ok) \in Message /\ feed[i][s][c] \in Seq(Message)
              /\ feed'[i][s][c] = Append(feed[i][s][c], Outgoing(e, ok))
<1>1. CASE feed' = feed
  BY <1>1
<1>2. ASSUME NEW e \in Evaluators, NEW d \in Channels, NEW ok \in BOOLEAN, Send(e, d, ok)
      PROVE  \/ feed'[i][s][c] = feed[i][s][c]
             \/ /\ c = d /\ tr[e].incident = i /\ dlv[e].sub = s
                /\ Outgoing(e, ok) \in Message /\ feed[i][s][c] \in Seq(Message)
                /\ feed'[i][s][c] = Append(feed[i][s][c], Outgoing(e, ok))
  <2>1. /\ Outgoing(e, ok) \in Message /\ feed[i][s][c] \in Seq(Message)
        /\ feed'[i][s][c] = IF i = tr[e].incident /\ s = dlv[e].sub /\ c = d
                            THEN Append(feed[i][s][c], Outgoing(e, ok)) ELSE feed[i][s][c]
    BY <1>2, SendAppends
  <2>2. CASE i = tr[e].incident /\ s = dlv[e].sub /\ c = d
    BY <2>1, <2>2
  <2>3. CASE ~(i = tr[e].incident /\ s = dlv[e].sub /\ c = d)
    BY <2>1, <2>3
  <2>4. QED
    BY <2>2, <2>3
<1>3. QED
  BY <1>1, <1>2, Writers

\* A sub state is written by the Tick that has its incident.
LEMMA SubStateShape ==
  ASSUME IndInv, [Next]_vars, NEW i \in Incidents, NEW s \in Subs
  PROVE  \/ subStates'[i][s] = subStates[i][s]
         \/ \E e \in Evaluators : /\ MarkNotified(e)
                                  /\ tr[e].incident = i /\ dlv[e].sub = s
                                  /\ subStates'[i][s] = Marked(e)
<1>1. subStates \in [Incidents -> [Subs -> SubState]]
  BY DEF IndInv, TypeOK
<1>2. CASE subStates' = subStates
  BY <1>2
<1>3. ASSUME NEW e \in Evaluators, MarkNotified(e)
      PROVE  \/ subStates'[i][s] = subStates[i][s]
             \/ tr[e].incident = i /\ dlv[e].sub = s /\ subStates'[i][s] = Marked(e)
  <2>1. \/ subStates' = subStates
        \/ subStates' = [subStates EXCEPT ![tr[e].incident][dlv[e].sub] = Marked(e)]
    BY <1>3 DEF MarkNotified
  <2>2. QED
    BY <1>1, <2>1
<1>4. QED
  BY <1>2, <1>3, Writers

\* The row a Tick read for a delivery is still the row.
LEMMA OwnRowStands ==
  ASSUME IndInv, OwnerInv, OneEvaluatorPerRule, [Next]_vars, NEW e \in Evaluators,
         pc[e] \in Delivering, ~MarkNotified(e)
  PROVE  subStates'[tr[e].incident][dlv[e].sub] = subStates[tr[e].incident][dlv[e].sub]
<1>1. PICK i, s : i = tr[e].incident /\ s = dlv[e].sub
  OBVIOUS
<1>2. i \in Incidents /\ s \in Subs
  BY <1>1 DEF IndInv, TypeOK, Delivery, DeliveryInv, TickDelivery, Minted
<1>3. subStates'[i][s] = subStates[i][s]
  BY <1>1, <1>2, SubStateShape, SoleTeller
<1>4. QED
  BY <1>1, <1>3

\* What a delivery goes by stays true while others move.
LEMMA DeliveryOrderStands ==
  ASSUME IndInv, OwnerInv, OneEvaluatorPerRule, [Next]_vars, NEW e \in Evaluators,
         pc[e] \in Delivering, pc'[e] \in Delivering,
         tr'[e] = tr[e], ls'[e] = ls[e], job'[e] = job[e], dlv'[e] = dlv[e], todo'[e] = todo[e]
  PROVE  DeliveryInOrder(e)'
<1>1. DeliveryInOrder(e) /\ TypeOK
  BY DEF OwnerInv, IndInv
<1>2. ~MarkNotified(e)
  BY <1>1 DEF MarkNotified, Goto, TypeOK, Delivering
<1>3. PICK i, s : i = tr[e].incident /\ s = dlv[e].sub
  OBVIOUS
<1>4. subStates'[i][s] = subStates[i][s]
  BY <1>2, <1>3, OwnRowStands
<1>5. tr'[e].incident = i /\ dlv'[e].sub = s
  BY <1>3
<1>6. QED
  BY <1>1, <1>3, <1>4, <1>5 DEF DeliveryInOrder

\* evaluateSubscription decides on the row it read.
LEMMA StartInOrder ==
  ASSUME IndInv, [Next]_vars, NEW e \in Evaluators, NEW s \in Subs, NEW kind \in Kinds,
         StartDelivery(e, s, kind)
  PROVE  DeliveryInOrder(e)'
<1>1. TypeOK /\ pc[e] = "each"
  BY DEF IndInv, StartDelivery, Visit
<1>2. PICK i, st : i = tr[e].incident /\ st = SubStateOf(e, s)
  OBVIOUS
<1>3. IsDue(e, s, st, kind)
  BY <1>2 DEF StartDelivery
<1>4. st = subStates[i][s]
  BY <1>2, <1>3 DEF IsDue, SubStateOf, ReadsSubState
<1>5. /\ tr'[e] = tr[e] /\ ls'[e] = ls[e] /\ job'[e] = job[e] /\ todo'[e] = todo[e] \ {s}
      /\ dlv'[e] = [sub |-> s, kind |-> kind, st |-> st] /\ subStates' = subStates
  BY <1>1, <1>2 DEF StartDelivery, Visit, TypeOK, tables
<1>6. dlv'[e].sub = s /\ dlv'[e].kind = kind /\ dlv'[e].st = st /\ tr'[e].incident = i
  BY <1>2, <1>5
<1>7. /\ kind = "resolved" => Closed(tr[e]) /\ NotifyOnResolve[s]
      /\ kind # "resolved" => ls[e].state = "firing"
      /\ kind = "firing" => st.count = 0
      /\ kind = "repeat" =>
           st.count > 0 /\ Repeat[s] > 0 /\ job[e].now >= st.lastNotifiedAt + Repeat[s]
  BY <1>3 DEF IsDue, ResolutionPath, FiringPath, Kinds
<1>8. (s \notin todo[e])' /\ st = subStates'[i][s]
  BY <1>4, <1>5
<1>9. QED
  BY <1>5, <1>6, <1>7, <1>8 DEF DeliveryInOrder

\* What a delivery goes by is so after every step.
LEMMA DeliveryOrderStep ==
  ASSUME IndInv, OwnerInv, OneEvaluatorPerRule, [Next]_vars, NEW e \in Evaluators
  PROVE  DeliveryInOrder(e)'
<1>1. TypeOK /\ DeliveryInOrder(e)
  BY DEF OwnerInv, IndInv
<1>2. CASE pc'[e] \notin Delivering
  BY <1>2 DEF DeliveryInOrder
<1>3. CASE pc'[e] \in Delivering /\ StepOf(e)
  <2>1. CASE \E s \in Subs, kind \in Kinds : StartDelivery(e, s, kind)
    BY <2>1, StartInOrder
  <2>2. CASE OneShotGate(e)
    BY <1>1, <1>3, <2>2, DeliveryOrderStands DEF OneShotGate, Delivering
  <2>3. CASE \E c \in Channels, ok \in BOOLEAN : Send(e, c, ok)
    BY <1>1, <1>3, <2>3, DeliveryOrderStands DEF Send, Delivering
  <2>4. CASE RecordNotification(e)
    BY <1>1, <1>3, <2>4, DeliveryOrderStands DEF RecordNotification, Delivering
  <2>5. CASE Return(e)
    BY <1>1, <1>3, <2>5 DEF Return, Goto, TypeOK, Delivering
  <2>6. CASE /\ ~Return(e) /\ ~RecordNotification(e) /\ ~OneShotGate(e)
             /\ ~\E c \in Channels, ok \in BOOLEAN : Send(e, c, ok)
             /\ ~\E s \in Subs, kind \in Kinds : StartDelivery(e, s, kind)
    BY <1>1, <1>3, <2>6 DEF StepOf, Continue, Evaluate, BeginTick, BeginEvalError, LoadLiveState,
       ReadFails, SaveLiveState, RecordIncident, ListSubscriptions, PassOver, SubStateFails,
       Visit, GateFails, MarkNotified, EndTick, LoadForError, SaveForError, Goto, Delivering, TypeOK
  <2>7. QED
    BY <2>1, <2>2, <2>3, <2>4, <2>5, <2>6
<1>4. ASSUME LocalsStand(e), pc'[e] \in Delivering
      PROVE  DeliveryInOrder(e)'
  BY <1>4, DeliveryOrderStands DEF LocalsStand
<1>5. ASSUME NEW d \in Evaluators, StepOf(d), d # e, pc'[e] \in Delivering
      PROVE  DeliveryInOrder(e)'
  BY <1>1, <1>4, <1>5, OthersStand
<1>6. CASE Crash
  BY <1>2, <1>6, CrashShape DEF Delivering
<1>7. CASE UNCHANGED <<locals, tables, feed, born, faults>> /\ pc'[e] \in Delivering
  BY <1>4, <1>7 DEF LocalsStand, locals
<1>8. QED
  BY <1>2, <1>3, <1>5, <1>6, <1>7, StepCases

-----------------------------------------------------------------------------
\* The Tick that ends an incident has cleared the rule's row before it goes on.
LEMMA EndIsReleasedStep ==
  ASSUME IndInv, OwnerInv, OneEvaluatorPerRule, [Next]_vars
  PROVE  EndIsReleased'
<1> SUFFICES ASSUME NEW e \in Evaluators, NEW i, pc'[e] \in PastSave, Closed(tr[e])',
                    i = tr'[e].incident
             PROVE  Released(i)'
  BY DEF EndIsReleased, Released, Closed
<1>1. TypeOK /\ EndIsReleased /\ TickCycle(e)' /\ LocalsInOrder(e)
  BY CycleStep DEF IndInv, OwnerInv, CycleInv
<1>2. CASE pc[e] \in PastSave /\ tr'[e] = tr[e]
  <2>1. Released(i) /\ TickCycle(e)
    BY <1>1, <1>2 DEF EndIsReleased, IndInv, CycleInv
  <2>2. Minted(i)
    BY <1>2, <2>1 DEF TickCycle, Closed, AfterApply, PastSave, Telling
  <2>3. QED
    BY <2>1, <2>2, ReleasedStands DEF Minted
<1>3. CASE SaveLiveState(e) /\ ~Return(e)
  <2>1. /\ live' = [live EXCEPT ![job[e].rule] = ls[e]] /\ tr' = tr /\ ls' = ls
        /\ pc[e] = "save"
    BY <1>3 DEF SaveLiveState, WriteOutcomes
  <2>2. TickCycle(e)
    BY DEF IndInv, CycleInv
  <2>3. i = tr[e].incident /\ Minted(i) /\ i \in Incidents /\ i # NoIncident
    BY <2>1, <2>2, NoIncidentAssumption DEF TickCycle, Closed, AfterApply, Minted
  <2>4. ls[e].state = "ok" /\ ls[e].incident = NoIncident
    BY <2>1, <2>2 DEF TickCycle, Closed, AfterApply, OwnerInv, OnlyFiringHolds
  <2>5. ASSUME NEW r \in Rules
        PROVE  live'[r].incident # i
    <3>1. CASE r = job[e].rule
      BY <1>1, <2>1, <2>3, <2>4, <3>1 DEF TypeOK
    <3>2. CASE r # job[e].rule
      <4>1. live'[r] = live[r]
        BY <1>1, <2>1, <3>2 DEF TypeOK
      <4>2. job[e].rule \in Rules /\ Holds(job[e].rule, i)
        BY <1>1, <2>1, <2>3 DEF TypeOK, Job, Holds
      <4>3. QED
        BY <2>3, <3>2, <4>1, <4>2 DEF OwnerInv, HeldByOneRule, Holds
    <3>3. QED
      BY <3>1, <3>2
  <2>6. ASSUME NEW f \in Evaluators
        PROVE  ls'[f].incident # i
    BY <2>1, <2>3, <2>4, SoleTeller
  <2>7. QED
    BY <2>5, <2>6 DEF Released
<1>4. CASE StepOf(e) /\ ~(SaveLiveState(e) /\ ~Return(e))
  <2>1. GoesOn(e)
    <3>1. pc'[e] \notin {"idle", "load", "errload", "save", "errsave"}
      BY DEF PastSave, Telling
    <3>2. QED
      BY <1>1, <1>4, <3>1, ActorShape DEF Returned, LoadLiveState, LoadForError, Goto, TypeOK
  <2>2. CASE Return(e)
    BY <1>1, <2>1, <2>2 DEF Return, Goto, GoesOn, TypeOK, PastSave, Telling
  <2>3. CASE ~Return(e)
    <3>1. pc[e] # "save"
      BY <1>4, <2>1, <2>3 DEF StepOf, Continue, GoesOn, AfterApply, Evaluate, BeginTick,
         BeginEvalError, LoadLiveState, ReadFails, SaveLiveState, RecordIncident,
         ListSubscriptions, PassOver, SubStateFails, StartDelivery, Visit, OneShotGate, GateFails,
         Send, RecordNotification, MarkNotified, EndTick, LoadForError, SaveForError
    <3>2. QED
      BY <1>2, <2>1, <3>1 DEF GoesOn, AfterApply, PastSave, Telling
  <2>4. QED
    BY <2>2, <2>3
<1>5. ASSUME NEW d \in Evaluators, StepOf(d), d # e
      PROVE  pc[e] \in PastSave /\ tr'[e] = tr[e]
  BY <1>1, <1>5, OthersStand DEF LocalsStand
<1>6. CASE Crash
  BY <1>6, CrashShape DEF PastSave, Telling
<1>7. CASE UNCHANGED <<locals, tables, feed, born, faults>>
  BY <1>2, <1>7 DEF locals
<1>8. QED
  BY <1>2, <1>3, <1>4, <1>5, <1>6, <1>7, StepCases

\* A resolution is new on a feed when the Tick that ended the incident sends it.
LEMMA EndedShape ==
  ASSUME IndInv, OwnerInv, [Next]_vars, NEW i \in Incidents, NEW s \in Subs, NEW c \in Channels,
         Ended(i, s, c)'
  PROVE  \/ Ended(i, s, c)
         \/ \E e \in Evaluators, ok \in BOOLEAN :
              /\ Send(e, c, ok) /\ tr[e].incident = i /\ dlv[e].sub = s /\ Closed(tr[e])
<1>1. PICK n \in DOMAIN feed'[i][s][c] : feed'[i][s][c][n].kind = "resolved"
  BY DEF Ended
<1>2. CASE feed'[i][s][c] = feed[i][s][c]
  BY <1>1, <1>2 DEF Ended
<1>3. ASSUME NEW e \in Evaluators, NEW ok \in BOOLEAN,
             Send(e, c, ok), tr[e].incident = i, dlv[e].sub = s,
             Outgoing(e, ok) \in Message, feed[i][s][c] \in Seq(Message),
             feed'[i][s][c] = Append(feed[i][s][c], Outgoing(e, ok))
      PROVE  Ended(i, s, c) \/ Closed(tr[e])
  <2>1. \/ n \in DOMAIN feed[i][s][c] /\ feed'[i][s][c][n] = feed[i][s][c][n]
        \/ feed'[i][s][c][n] = Outgoing(e, ok)
    <3>1. /\ DOMAIN Append(feed[i][s][c], Outgoing(e, ok))
               = DOMAIN feed[i][s][c] \cup {Len(feed[i][s][c]) + 1}
          /\ Append(feed[i][s][c], Outgoing(e, ok))[Len(feed[i][s][c]) + 1] = Outgoing(e, ok)
          /\ \A k \in DOMAIN feed[i][s][c] :
               Append(feed[i][s][c], Outgoing(e, ok))[k] = feed[i][s][c][k]
      BY <1>3, AppendFacts
    <3>2. QED
      BY <1>1, <1>3, <3>1, Zenon
  <2>2. CASE n \in DOMAIN feed[i][s][c] /\ feed'[i][s][c][n] = feed[i][s][c][n]
    BY <1>1, <2>2 DEF Ended
  <2>3. CASE feed'[i][s][c][n] = Outgoing(e, ok)
    BY <1>1, <1>3, <2>3 DEF Outgoing, Send, OwnerInv, DeliveryInOrder, Delivering
  <2>4. QED
    BY <2>1, <2>2, <2>3
<1>4. QED
  BY <1>2, <1>3, FeedShape

\* Who is through with a channel does not come back to it.
LEMMA TellerStaysDone ==
  ASSUME IndInv, OwnerInv, OneEvaluatorPerRule, [Next]_vars,
         NEW i \in Incidents, NEW s \in Subs, NEW c \in Channels, NEW e \in Evaluators,
         Minted(i), Released(i), TellerIsDone(e, i, s, c)
  PROVE  TellerIsDone(e, i, s, c)'
<1> SUFFICES ASSUME tr'[e].incident = i
             PROVE  /\ pc'[e] \in Telling
                    /\ s \notin todo'[e]
                    /\ dlv'[e].sub = s => pc'[e] # "gate" /\ c \notin left'[e]
  BY DEF TellerIsDone
<1>1. TypeOK /\ LocalsInOrder(e) /\ LocalsInOrder(e)' /\ i # NoIncident
  BY NoIncidentAssumption, LocalsStep DEF IndInv, OwnerInv
<1>2. tr[e].incident = i /\ pc'[e] \in PastSave \cup {pc[e]}
  BY TellerStands
<1>3. /\ pc[e] \in Telling /\ s \notin todo[e]
      /\ dlv[e].sub = s => pc[e] # "gate" /\ c \notin left[e]
  BY <1>2 DEF TellerIsDone
<1>4. pc'[e] # "idle"
  BY <1>1 DEF LocalsInOrder, NoTransition, AfterApply
<1>5. CASE StepOf(e)
  <2> USE <1>1, <1>3, <1>4 DEF Telling, TypeOK, Goto
  <2>1. CASE Return(e)
    BY <2>1 DEF Return
  <2>2. ASSUME NEW r \in Subs, NEW kind \in Kinds, StartDelivery(e, r, kind)
        PROVE  /\ pc'[e] \in Telling
               /\ s \notin todo'[e]
               /\ dlv'[e].sub = s => pc'[e] # "gate" /\ c \notin left'[e]
    BY <2>2 DEF StartDelivery, Visit
  <2>3. CASE \E r \in Subs : PassOver(e, r) \/ SubStateFails(e, r)
    BY <2>3 DEF PassOver, SubStateFails, Visit
  <2>4. CASE OneShotGate(e)
    BY <2>4 DEF OneShotGate
  <2>5. CASE GateFails(e)
    BY <2>5 DEF GateFails
  <2>6. CASE \E d \in Channels, ok \in BOOLEAN : Send(e, d, ok)
    BY <2>6 DEF Send
  <2>7. CASE RecordNotification(e)
    BY <2>7 DEF RecordNotification
  <2>8. CASE MarkNotified(e)
    BY <2>8 DEF MarkNotified
  <2>9. CASE \/ LoadLiveState(e) \/ ReadFails(e) \/ SaveLiveState(e) \/ RecordIncident(e)
             \/ ListSubscriptions(e) \/ EndTick(e) \/ LoadForError(e) \/ SaveForError(e)
             \/ \E r \in Rules : Evaluate(e, r) \/ BeginEvalError(e, r)
    BY <2>1, <2>9 DEF LoadLiveState, ReadFails, SaveLiveState, RecordIncident, ListSubscriptions,
       EndTick, LoadForError, SaveForError, Evaluate, BeginTick, BeginEvalError
  <2>10. QED
    BY <1>5, <2>2, <2>3, <2>4, <2>5, <2>6, <2>7, <2>8, <2>9 DEF StepOf, Continue
<1>6. ASSUME NEW d \in Evaluators, StepOf(d), d # e
      PROVE  LocalsStand(e)
  BY <1>1, <1>6, OthersStand
<1>7. CASE Crash
  BY <1>4, <1>7, CrashShape
<1>8. CASE UNCHANGED <<locals, tables, feed, born, faults>>
  BY <1>3, <1>8 DEF locals
<1>9. QED
  BY <1>3, <1>5, <1>6, <1>7, <1>8, StepCases DEF LocalsStand

\* A resolution sent means that the incident is over for its channel.
LEMMA EndedIsOverStep ==
  ASSUME IndInv, OwnerInv, OneEvaluatorPerRule, [Next]_vars
  PROVE  EndedIsOver'
<1> SUFFICES ASSUME NEW i \in Incidents, NEW s \in Subs, NEW c \in Channels, Ended(i, s, c)'
             PROVE  Released(i)' /\ \A e \in Evaluators : TellerIsDone(e, i, s, c)'
  BY DEF EndedIsOver, Ended, Released, TellerIsDone
<1>1. TypeOK
  BY DEF IndInv
<1>2. ASSUME Ended(i, s, c) PROVE Minted(i)
  <2>1. feed[i][s][c] # <<>>
    BY <1>1, <1>2 DEF Ended, TypeOK
  <2>2. QED
    BY <1>1, <2>1 DEF IndInv, DeliveryInv, UnmintedIsUnused, Reached, Minted, TypeOK
<1>3. CASE Ended(i, s, c)
  <2>1. Released(i) /\ \A e \in Evaluators : TellerIsDone(e, i, s, c)
    BY <1>3 DEF OwnerInv, EndedIsOver
  <2>2. QED
    BY <1>2, <1>3, <2>1, ReleasedStands, TellerStaysDone
<1>4. ASSUME NEW e \in Evaluators, NEW ok \in BOOLEAN, Send(e, c, ok),
             tr[e].incident = i, dlv[e].sub = s, Closed(tr[e])
      PROVE  Released(i)' /\ \A f \in Evaluators : TellerIsDone(f, i, s, c)'
  <2>1. pc[e] = "send"
    BY <1>4 DEF Send
  <2>2. Released(i) /\ Minted(i)
    BY <1>4, <2>1 DEF OwnerInv, EndIsReleased, PastSave, Telling, IndInv, DeliveryInv,
                      TickDelivery, Delivering
  <2>3. Released(i)'
    BY <2>2, ReleasedStands
  <2>4. TellerIsDone(e, i, s, c)'
    <3>1. s \notin todo[e]
      BY <1>4, <2>1 DEF OwnerInv, DeliveryInOrder, Delivering
    <3>2. pc'[e] = "record" /\ todo'[e] = todo[e] /\ left'[e] = left[e] \ {c}
      BY <1>1, <1>4 DEF Send, Goto, TypeOK
    <3>3. s \notin todo'[e] /\ c \notin left'[e]
      BY <3>1, <3>2
    <3>4. QED
      BY <3>2, <3>3 DEF TellerIsDone, Telling
  <2>5. ASSUME NEW f \in Evaluators, f # e
        PROVE  TellerIsDone(f, i, s, c)'
    <3>1. tr[f].incident # i
      BY <1>4, <2>5, SoleTeller
    <3>2. tr'[f].incident # i
      BY <2>2, <3>1, TellerStands
    <3>3. QED
      BY <3>2 DEF TellerIsDone
  <2>6. QED
    BY <2>3, <2>4, <2>5
<1>5. QED
  BY <1>3, <1>4, EndedShape

\* Only Incidents.Open and Incidents.Resolve write the incidents table.
LEMMA RowWriter ==
  ASSUME [Next]_vars
  PROVE  incidents' # incidents => \E e \in Evaluators : RecordIncident(e)
<1>1. CASE \E e \in Evaluators, r \in Rules : Evaluate(e, r) \/ BeginEvalError(e, r)
  BY <1>1 DEF Evaluate, BeginTick, BeginEvalError, tables
<1>2. ASSUME NEW e \in Evaluators, Continue(e), ~RecordIncident(e)
      PROVE  incidents' = incidents
  <2>1. CASE \/ LoadLiveState(e) \/ ReadFails(e) \/ ListSubscriptions(e)
             \/ LoadForError(e) \/ EndTick(e) \/ OneShotGate(e) \/ GateFails(e)
             \/ \E s \in Subs : PassOver(e, s) \/ SubStateFails(e, s)
             \/ \E s \in Subs, kind \in Kinds : StartDelivery(e, s, kind)
    BY <2>1 DEF LoadLiveState, ReadFails, ListSubscriptions, PassOver, SubStateFails,
         StartDelivery, OneShotGate, GateFails, EndTick, LoadForError, tables
  <2>2. CASE SaveLiveState(e) \/ SaveForError(e) \/ RecordNotification(e) \/ MarkNotified(e)
             \/ \E c \in Channels, ok \in BOOLEAN : Send(e, c, ok)
    BY <2>2 DEF SaveLiveState, Send, RecordNotification, MarkNotified, SaveForError, tables
  <2>3. QED
    BY <1>2, <2>1, <2>2 DEF Continue
<1>3. CASE Crash \/ AdvanceClock \/ UNCHANGED vars
  BY <1>3 DEF Crash, AdvanceClock, vars, tables
<1>4. QED
  BY <1>1, <1>2, <1>3 DEF Next

\* The incidents table changes in the row of the transition being recorded.
LEMMA RowShape ==
  ASSUME IndInv, OwnerInv, [Next]_vars, NEW x, x \in incidents'
  PROVE  \/ x \in incidents
         \/ \E e \in Evaluators :
              /\ pc[e] = "incident" /\ pc'[e] \in {"list", "idle"}
              /\ x.id = tr[e].incident /\ Minted(x.id)
              /\ \/ Opened(tr[e]) /\ x.resolvedAt = 0 /\ x.rule = job[e].rule
                    /\ x.triggeredAt = ls[e].triggeredAt
                 \/ Closed(tr[e]) /\ \E y \in incidents : y.id = x.id /\ y.rule = x.rule
                    /\ y.triggeredAt = x.triggeredAt
<1>1. TypeOK
  BY DEF IndInv
<1>2. incidents' # incidents => \E e \in Evaluators : RecordIncident(e)
  BY RowWriter
<1>3. ASSUME NEW e \in Evaluators, RecordIncident(e), incidents' = IncidentsAfter(e),
             x \notin incidents
      PROVE  /\ pc[e] = "incident" /\ pc'[e] \in {"list", "idle"}
             /\ x.id = tr[e].incident /\ Minted(x.id)
             /\ \/ Opened(tr[e]) /\ x.resolvedAt = 0 /\ x.rule = job[e].rule
                   /\ x.triggeredAt = ls[e].triggeredAt
                \/ Closed(tr[e]) /\ \E y \in incidents : y.id = x.id /\ y.rule = x.rule
                   /\ y.triggeredAt = x.triggeredAt
  <2>1. pc[e] = "incident" /\ pc'[e] \in {"list", "idle"}
    BY <1>1, <1>3 DEF RecordIncident, Return, Goto, TypeOK
  <2>2. TickCycle(e) /\ LocalsInOrder(e)
    BY DEF IndInv, CycleInv, OwnerInv
  <2>3. (Opened(tr[e]) \/ Closed(tr[e])) /\ Minted(tr[e].incident)
    BY <2>1, <2>2 DEF TickCycle, InCycle, LocalsInOrder, Opened, Closed, AfterApply
  <2>4. CASE Opened(tr[e])
    BY <1>3, <2>1, <2>3, <2>4 DEF IncidentsAfter
  <2>5. CASE ~Opened(tr[e])
    BY <1>3, <2>1, <2>3, <2>5 DEF IncidentsAfter
  <2>6. QED
    BY <2>4, <2>5
<1>4. QED
  BY <1>2, <1>3 DEF RecordIncident

\* A row is closed by the Tick that ended the incident, and stays closed.
LEMMA ResolvedRowStep ==
  ASSUME IndInv, OwnerInv, OneEvaluatorPerRule, [Next]_vars
  PROVE  ResolvedRowIsOver'
<1> SUFFICES ASSUME NEW x, x \in incidents'
             PROVE  /\ Minted(x.id)'
                    /\ x.resolvedAt > 0 =>
                         /\ Released(x.id)'
                         /\ \A e \in Evaluators :
                              tr'[e].incident = x.id => pc'[e] \notin {"save", "incident"}
  BY DEF ResolvedRowIsOver, Released, Minted
<1>1. TypeOK
  BY DEF IndInv
<1>2. CASE x \in incidents
  <2>1. /\ Minted(x.id)
        /\ x.resolvedAt > 0 =>
             /\ Released(x.id)
             /\ \A e \in Evaluators : tr[e].incident = x.id => pc[e] \notin {"save", "incident"}
    BY <1>2 DEF OwnerInv, ResolvedRowIsOver
  <2>2. PICK i : i = x.id
    OBVIOUS
  <2>3. Minted(i)' /\ i \in Incidents
    BY <1>1, <2>1, <2>2, BornStands DEF Minted
  <2>4. ASSUME x.resolvedAt > 0
        PROVE  Released(i)' /\ \A e \in Evaluators :
                 tr'[e].incident = i => pc'[e] \notin {"save", "incident"}
    BY <2>1, <2>2, <2>3, <2>4, ReleasedStands, TellerStands DEF PastSave, Telling
  <2>5. QED
    BY <2>2, <2>3, <2>4 DEF Minted, Released
<1>3. ASSUME NEW e \in Evaluators, pc[e] = "incident", pc'[e] \in {"list", "idle"}, NEW i,
             x.id = i, tr[e].incident = i, Minted(i),
             \/ Opened(tr[e]) /\ x.resolvedAt = 0
             \/ Closed(tr[e])
      PROVE  /\ Minted(i)'
             /\ x.resolvedAt > 0 =>
                  /\ Released(i)'
                  /\ \A f \in Evaluators : tr'[f].incident = i => pc'[f] \notin {"save", "incident"}
  <2>1. Minted(i)' /\ i \in Incidents
    BY <1>1, <1>3, BornStands DEF Minted
  <2>2. ASSUME x.resolvedAt > 0 PROVE Released(i)
    BY <1>3, <2>2 DEF OwnerInv, EndIsReleased, PastSave
  <2>3. ASSUME x.resolvedAt > 0, NEW f \in Evaluators, tr'[f].incident = i
        PROVE  pc'[f] \notin {"save", "incident"}
    <3>1. tr[f].incident = i
      BY <1>3, <2>1, <2>2, <2>3, TellerStands
    <3>2. f = e
      BY <1>3, <2>1, <3>1, SoleTeller
    <3>3. QED
      BY <1>3, <3>2
  <2>4. QED
    BY <1>3, <2>1, <2>2, <2>3, ReleasedStands
<1>4. QED
  BY <1>2, <1>3, RowShape DEF Minted, Released

\* Nothing is sent on a channel that has had the resolution.
LEMMA EndedIsSilent ==
  ASSUME IndInv, OwnerInv, [Next]_vars, NEW i \in Incidents, NEW s \in Subs, NEW c \in Channels,
         Ended(i, s, c)
  PROVE  feed'[i][s][c] = feed[i][s][c]
<1>1. ASSUME NEW e \in Evaluators, NEW ok \in BOOLEAN, Send(e, c, ok), tr[e].incident = i,
             dlv[e].sub = s
      PROVE  FALSE
  BY <1>1 DEF OwnerInv, EndedIsOver, TellerIsDone, Send
<1>2. QED
  BY <1>1, FeedShape

\* Nothing is sent after a resolution.
LEMMA ResolvedLastStep ==
  ASSUME IndInv, OwnerInv, [Next]_vars
  PROVE  ResolvedIsLast'
<1> SUFFICES ASSUME NEW i \in Incidents, NEW s \in Subs, NEW c \in Channels,
                    NEW n \in DOMAIN feed'[i][s][c], feed'[i][s][c][n].kind = "resolved"
             PROVE  n = Len(feed'[i][s][c])
  BY DEF ResolvedIsLast
<1>1. CASE feed'[i][s][c] = feed[i][s][c]
  BY <1>1 DEF OwnerInv, ResolvedIsLast
<1>2. ASSUME ~Ended(i, s, c), feed[i][s][c] \in Seq(Message), NEW m \in Message,
             feed'[i][s][c] = Append(feed[i][s][c], m)
      PROVE  n = Len(feed'[i][s][c])
  <2>1. /\ DOMAIN Append(feed[i][s][c], m) = DOMAIN feed[i][s][c] \cup {Len(feed[i][s][c]) + 1}
        /\ \A k \in DOMAIN feed[i][s][c] : Append(feed[i][s][c], m)[k] = feed[i][s][c][k]
    BY <1>2, AppendFacts
  <2>2. n \notin DOMAIN feed[i][s][c]
    BY <1>2, <2>1, Zenon DEF Ended
  <2>3. n = Len(feed[i][s][c]) + 1
    BY <1>2, <2>1, <2>2, Zenon
  <2>4. QED
    BY <1>2, <2>3
<1>3. QED
  BY <1>1, <1>2, EndedIsSilent, FeedShape

-----------------------------------------------------------------------------
\* Before the first Tick nobody holds an incident.
LEMMA OwnerInit == Init => OwnerInv
<1> SUFFICES ASSUME Init PROVE OwnerInv
  OBVIOUS
<1>1. /\ pc = [e \in Evaluators |-> "idle"] /\ ls = [e \in Evaluators |-> OKState]
      /\ tr = [e \in Evaluators |-> NoTransition] /\ left = [e \in Evaluators |-> {}]
      /\ live = [r \in Rules |-> OKState] /\ incidents = {}
      /\ feed = [i \in Incidents |-> [s \in Subs |-> [c \in Channels |-> <<>>]]]
  BY Zenon DEF Init
<1>2. \A e \in Evaluators : LocalsInOrder(e) /\ DeliveryInOrder(e)
  BY <1>1 DEF LocalsInOrder, DeliveryInOrder, NoTransition, AfterApply, Delivering
<1>3. OnlyFiringHolds
  BY <1>1 DEF OnlyFiringHolds, OKState
<1>4. \A i \in Incidents, r \in Rules : ~Holds(r, i)
  BY <1>1, NoIncidentAssumption DEF Holds, OKState
<1>5. EndIsReleased /\ ResolvedRowIsOver
  BY <1>1 DEF EndIsReleased, ResolvedRowIsOver, PastSave, Telling
<1>6. \A i \in Incidents, s \in Subs, c \in Channels : DOMAIN feed[i][s][c] = {}
  BY <1>1
<1>7. EndedIsOver /\ ResolvedIsLast
  BY <1>6 DEF EndedIsOver, Ended, ResolvedIsLast
<1>8. QED
  BY <1>2, <1>3, <1>4, <1>5, <1>7 DEF OwnerInv, HeldByOneRule

\* Every step keeps the ownership of incidents.
LEMMA OwnerStep ==
  ASSUME IndInv, OwnerInv, OneEvaluatorPerRule, [Next]_vars
  PROVE  OwnerInv'
<1>1. \A e \in Evaluators : LocalsInOrder(e)' /\ DeliveryInOrder(e)'
  BY LocalsStep, DeliveryOrderStep
<1>2. QED
  BY <1>1, OnlyFiringStep, HeldByOneRuleStep, EndIsReleasedStep, EndedIsOverStep,
     ResolvedRowStep, ResolvedLastStep DEF OwnerInv

\* Where a rule has one evaluator, an incident is in the hands of one call at
\* a time, and what is told or stored of its end comes after it was let go of.
THEOREM OwnershipHolds == ASSUME OneEvaluatorPerRule PROVE Spec => []OwnerInv
<1>1. Init => OwnerInv
  BY OwnerInit
<1>2. IndInv /\ OwnerInv /\ [Next]_vars => OwnerInv'
  BY OwnerStep
<1>3. QED
  BY <1>1, <1>2, InvariantHolds, PTL DEF Spec

\* Where a rule has one evaluator, a resolution is the last message of its
\* incident on a channel, whatever fails (Tick saves the cleared state before
\* it visits the subscriptions).
THEOREM ResolutionIsLast == ASSUME OneEvaluatorPerRule PROVE Spec => []ResolvedIsLast
BY OwnershipHolds, PTL DEF OwnerInv

\* A message sent for an incident recorded as resolved is a resolution.
LEMMA NoAlarmStep ==
  ASSUME IndInv, OwnerInv, [Next]_vars,
         NEW i \in Incidents, NEW s \in Subs, NEW c \in Channels,
         feed'[i][s][c] # feed[i][s][c],
         feed'[i][s][c][Len(feed'[i][s][c])].kind # "resolved",
         NEW x \in incidents, x.id = i
  PROVE  x.resolvedAt = 0
<1>1. TypeOK
  BY DEF IndInv
<1>2. PICK e \in Evaluators, ok \in BOOLEAN :
        /\ Send(e, c, ok)
        /\ tr[e].incident = i /\ dlv[e].sub = s
        /\ Outgoing(e, ok) \in Message /\ feed[i][s][c] \in Seq(Message)
        /\ feed'[i][s][c] = Append(feed[i][s][c], Outgoing(e, ok))
  <2>1. \/ feed'[i][s][c] = feed[i][s][c]
        \/ \E e \in Evaluators, ok \in BOOLEAN :
             /\ Send(e, c, ok)
             /\ tr[e].incident = i /\ dlv[e].sub = s
             /\ Outgoing(e, ok) \in Message /\ feed[i][s][c] \in Seq(Message)
             /\ feed'[i][s][c] = Append(feed[i][s][c], Outgoing(e, ok))
    BY FeedShape
  <2>2. QED
    BY <2>1
<1>3. feed'[i][s][c][Len(feed'[i][s][c])] = Outgoing(e, ok)
  BY <1>2
<1>4. ls[e].state = "firing"
  BY <1>2, <1>3 DEF Outgoing, Send, OwnerInv, DeliveryInOrder, Delivering
<1>5. ls[e].incident = i
  BY <1>2, <1>4 DEF Send, IndInv, CycleInv, TickCycle, AfterApply
<1>6. x.resolvedAt \in Nat
  BY <1>1 DEF TypeOK, Incident
<1>7. QED
  BY <1>5, <1>6 DEF OwnerInv, ResolvedRowIsOver, Released

\* Where a rule has one evaluator, no alarm or repeat is sent for an incident
\* whose row says that it is resolved (Incidents.Resolve comes after the
\* live state has let go of the incident).
THEOREM NoAlarmForResolved == ASSUME OneEvaluatorPerRule PROVE Spec => NoAlarmAfterResolve
<1>1. IndInv /\ OwnerInv /\ [Next]_vars =>
        [\A i \in Incidents, s \in Subs, c \in Channels :
           /\ feed'[i][s][c] # feed[i][s][c]
           /\ feed'[i][s][c][Len(feed'[i][s][c])].kind # "resolved"
           => \A x \in incidents : x.id = i => x.resolvedAt = 0]_vars
  BY NoAlarmStep
<1>2. QED
  BY <1>1, InvariantHolds, OwnershipHolds, PTL DEF NoAlarmAfterResolve, Spec

\* The row of a resolved incident is not written again.
LEMMA ResolvedRowStands ==
  ASSUME IndInv, OwnerInv, [Next]_vars, NEW x \in incidents, x.resolvedAt > 0
  PROVE  x \in incidents'
<1>1. CASE incidents' = incidents
  BY <1>1
<1>2. ASSUME NEW e \in Evaluators, RecordIncident(e)
      PROVE  x \in incidents'
  <2>1. x.id # tr[e].incident
    BY <1>2 DEF RecordIncident, OwnerInv, ResolvedRowIsOver
  <2>2. x \in IncidentsAfter(e)
    BY <2>1 DEF IncidentsAfter
  <2>3. QED
    BY <1>2, <2>2 DEF RecordIncident
<1>3. QED
  BY <1>1, <1>2, RowWriter

\* Where a rule has one evaluator, the row of a resolved incident is not
\* rewritten, so the time it ended stands.
THEOREM ResolvedStands == ASSUME OneEvaluatorPerRule PROVE Spec => ResolutionStands
<1>1. IndInv /\ OwnerInv /\ [Next]_vars =>
        [\A x \in incidents : x.resolvedAt > 0 => x \in incidents']_vars
  BY ResolvedRowStands
<1>2. QED
  BY <1>1, InvariantHolds, OwnershipHolds, PTL DEF ResolutionStands, Spec

-----------------------------------------------------------------------------
\* Messages stay in their time when no one that may send is ahead of it.
LEMMA NotAfterStands ==
  ASSUME IndInv, [Next]_vars, NEW i \in Incidents, NEW t \in Nat, NotAfter(i, t),
         \A e \in Evaluators : pc[e] = "send" /\ tr[e].incident = i => job[e].now <= t
  PROVE  NotAfter(i, t)'
<1> SUFFICES ASSUME NEW s \in Subs, NEW c \in Channels, NEW n \in DOMAIN feed'[i][s][c]
             PROVE  feed'[i][s][c][n].at <= t
  BY DEF NotAfter
<1>1. CASE feed'[i][s][c] = feed[i][s][c]
  BY <1>1 DEF NotAfter
<1>2. ASSUME NEW e \in Evaluators, NEW ok \in BOOLEAN, Send(e, c, ok), tr[e].incident = i,
             Outgoing(e, ok) \in Message, feed[i][s][c] \in Seq(Message),
             feed'[i][s][c] = Append(feed[i][s][c], Outgoing(e, ok))
      PROVE  feed'[i][s][c][n].at <= t
  <2>1. /\ DOMAIN Append(feed[i][s][c], Outgoing(e, ok))
             = DOMAIN feed[i][s][c] \cup {Len(feed[i][s][c]) + 1}
        /\ Append(feed[i][s][c], Outgoing(e, ok))[Len(feed[i][s][c]) + 1] = Outgoing(e, ok)
        /\ \A k \in DOMAIN feed[i][s][c] :
             Append(feed[i][s][c], Outgoing(e, ok))[k] = feed[i][s][c][k]
    BY <1>2, AppendFacts
  <2>2. \/ n \in DOMAIN feed[i][s][c] /\ feed'[i][s][c][n] = feed[i][s][c][n]
        \/ feed'[i][s][c][n] = Outgoing(e, ok)
    BY <1>2, <2>1, Zenon
  <2>3. Outgoing(e, ok).at <= t
    BY <1>2 DEF Outgoing, Send
  <2>4. QED
    BY <2>2, <2>3 DEF NotAfter
<1>3. QED
  BY <1>1, <1>2, FeedShape

\* The clocks of the calls, and what they have seen.
LEMMA CallTimes ==
  ASSUME IndInv, OwnerInv, TimesInOrder, OneEvaluatorPerRule, [Next]_vars, NEW e \in Evaluators
  PROVE  /\ job'[e].now <= clock'
         /\ \A i \in Incidents : tr'[e].incident = i => NotAfter(i, job[e].now)'
<1>1. TypeOK /\ clock \in Nat /\ clock' \in Nat /\ clock' >= clock /\ job[e].now <= clock
      /\ job[e].now \in Nat
  BY TypeStep, Writers DEF IndInv, TypeOK, Job, TimesInOrder, AdvanceClock
<1>2. LocalsInOrder(e) /\ LocalsInOrder(e)'
  BY LocalsStep DEF OwnerInv
<1>3. job'[e].now = job[e].now \/ job'[e].now = clock \/ job'[e].now = 0
  <2>1. CASE StepOf(e)
    <3>1. CASE Return(e)
      BY <1>1, <3>1 DEF Return, NoJob, TypeOK
    <3>2. CASE \E r \in Rules : Evaluate(e, r) \/ BeginEvalError(e, r)
      BY <1>1, <3>2 DEF Evaluate, BeginTick, BeginEvalError, TypeOK
    <3>3. CASE ~Return(e) /\ ~\E r \in Rules : Evaluate(e, r) \/ BeginEvalError(e, r)
      BY <2>1, <3>3 DEF StepOf, Continue, LoadLiveState, ReadFails, SaveLiveState,
         RecordIncident, ListSubscriptions, PassOver, SubStateFails, StartDelivery, OneShotGate,
         GateFails, Send, RecordNotification, MarkNotified, EndTick, LoadForError, SaveForError
    <3>4. QED
      BY <3>1, <3>2, <3>3
  <2>2. ASSUME NEW d \in Evaluators, StepOf(d), d # e PROVE job'[e] = job[e]
    BY <1>1, <2>2, OthersStand DEF LocalsStand
  <2>3. CASE Crash
    <3>1. NoJob.now = 0
      BY DEF NoJob
    <3>2. QED
      BY <2>3, <3>1, CrashShape
  <2>4. CASE UNCHANGED <<locals, tables, feed, born, faults>>
    BY <2>4 DEF locals
  <2>5. QED
    BY <2>1, <2>2, <2>3, <2>4, StepCases
<1>4. ASSUME NEW i \in Incidents, tr'[e].incident = i
      PROVE  NotAfter(i, job[e].now)'
  <2>1. i # NoIncident /\ pc'[e] # "idle" /\ pc'[e] \in AfterApply
    BY <1>2, <1>4, NoIncidentAssumption DEF LocalsInOrder, NoTransition, AfterApply
  <2>2. CASE job'[e] = job[e] /\ tr[e].incident = i
    <3>1. NotAfter(i, job[e].now)
      BY <2>2 DEF TimesInOrder
    <3>2. \A d \in Evaluators : pc[d] = "send" /\ tr[d].incident = i => job[d].now <= job[e].now
      BY <1>1, <2>2, SoleTeller
    <3>3. PICK t \in Nat : t = job[e].now
      BY <1>1
    <3>4. NotAfter(i, t)'
      BY <3>1, <3>2, <3>3, NotAfterStands
    <3>5. QED
      BY <2>2, <3>3, <3>4 DEF NotAfter
  <2>3. CASE LoadLiveState(e)
    <3>1. PICK id \in Incidents \cup {NoIncident} :
            LET row == live[job[e].rule]
            IN /\ Opens(row, job[e].triggered) => id \in Unminted
               /\ ~Opens(row, job[e].triggered) => id = NoIncident
               /\ tr'[e] = TransitionOf(row, job[e].triggered, job[e].now, id)
               /\ pc[e] = "load" /\ job' = job /\ job[e].rule \in Rules
      BY <2>3, LoadShape
    <3>2. i = id \/ i = live[job[e].rule].incident
      BY <1>4, <2>1, <3>1 DEF TransitionOf, Applied
    <3>3. feed' = feed
      BY <2>3 DEF LoadLiveState
    <3>4. CASE i = live[job[e].rule].incident
      BY <3>1, <3>3, <3>4 DEF TimesInOrder, NotAfter
    <3>5. CASE i = id
      <4>1. born[i] = 0
        BY <2>1, <3>1, <3>5 DEF Unminted
      <4>2. \A s \in Subs, c \in Channels : feed[i][s][c] = <<>>
        BY <4>1 DEF IndInv, DeliveryInv, UnmintedIsUnused, Reached
      <4>3. QED
        BY <3>3, <4>2 DEF NotAfter
    <3>6. QED
      BY <3>2, <3>4, <3>5
  <2>4. CASE StepOf(e) /\ ~LoadLiveState(e)
    <3>1. CASE LoadForError(e)
      BY <1>1, <2>1, <3>1 DEF LoadForError, Goto, TypeOK, AfterApply
    <3>2. CASE ~LoadForError(e)
      BY <1>1, <1>4, <2>1, <2>2, <2>4, <3>2, ActorShape DEF Returned, GoesOn, AfterApply
    <3>3. QED
      BY <3>1, <3>2
  <2>5. ASSUME NEW d \in Evaluators, StepOf(d), d # e
        PROVE  job'[e] = job[e] /\ tr'[e] = tr[e]
    BY <1>1, <2>5, OthersStand DEF LocalsStand
  <2>6. QED
    BY <1>4, <2>1, <2>2, <2>3, <2>4, <2>5, StepCases, CrashShape DEF locals
<1>5. QED
  BY <1>1, <1>3, <1>4

\* What a call about to read the rule's row has seen of its incident.
LEMMA LoadTimes ==
  ASSUME IndInv, OwnerInv, TimesInOrder, OneEvaluatorPerRule, [Next]_vars, NEW e \in Evaluators,
         pc'[e] = "load", NEW i \in Incidents, live'[job'[e].rule].incident = i
  PROVE  NotAfter(i, job[e].now)'
<1>1. TypeOK /\ clock \in Nat /\ job[e].now \in Nat /\ job[e].rule \in Rules
  BY DEF IndInv, TypeOK, Job
<1>2. CASE LocalsStand(e)
  <2>1. pc[e] = "load" /\ job'[e] = job[e] /\ job[e].rule \in Serves[e]
    BY <1>2 DEF LocalsStand, OwnerInv, LocalsInOrder
  <2>2. ASSUME NEW d \in Evaluators, pc[d] # "idle", job[d].rule = job[e].rule
        PROVE  d = e
    <3>1. job[d].rule \in Serves[d]
      BY <2>2 DEF OwnerInv, LocalsInOrder
    <3>2. QED
      BY <2>1, <2>2, <3>1 DEF OneEvaluatorPerRule
  <2>3. live'[job[e].rule] = live[job[e].rule]
    BY <1>1, <2>1, <2>2, LiveShape
  <2>4. live[job[e].rule].incident = i
    BY <2>1, <2>3
  <2>5. NotAfter(i, job[e].now)
    BY <2>1, <2>4 DEF TimesInOrder
  <2>6. ASSUME NEW d \in Evaluators, pc[d] = "send", tr[d].incident = i
        PROVE  FALSE
    <3>1. job[d].rule \in Rules
      BY <1>1 DEF TypeOK, Job
    <3>2. Holds(job[e].rule, i) /\ Holds(job[d].rule, i)
      BY <2>4, <2>6 DEF Holds
    <3>3. job[d].rule = job[e].rule
      BY <1>1, <3>1, <3>2 DEF OwnerInv, HeldByOneRule
    <3>4. QED
      BY <2>1, <2>2, <2>6, <3>3
  <2>7. PICK t \in Nat : t = job[e].now
    BY <1>1
  <2>8. NotAfter(i, t)'
    BY <2>5, <2>6, <2>7, NotAfterStands
  <2>9. QED
    BY <2>1, <2>7, <2>8 DEF NotAfter
<1>3. CASE StepOf(e)
  <2>1. PICK r \in Rules : Evaluate(e, r)
    <3>1. ~GoesOn(e) /\ ~LoadLiveState(e) /\ ~LoadForError(e)
      BY <1>1 DEF GoesOn, PastSave, Telling, LoadLiveState, LoadForError, Goto, TypeOK
    <3>2. pc[e] = "idle"
      BY <1>1, <1>3, <3>1, ActorShape DEF Returned
    <3>3. QED
      BY <1>1, <1>3, <3>2 DEF StepOf, Continue, LoadLiveState, ReadFails, SaveLiveState,
         RecordIncident, ListSubscriptions, PassOver, SubStateFails, StartDelivery, Visit,
         OneShotGate, GateFails, Send, RecordNotification, MarkNotified, EndTick, LoadForError,
         SaveForError, BeginEvalError, Goto, TypeOK
  <2>2. job'[e].now = clock /\ feed' = feed
    BY <1>1, <2>1 DEF Evaluate, BeginTick, TypeOK
  <2>3. QED
    BY <2>2 DEF TimesInOrder, NotAfter
<1>4. ASSUME NEW d \in Evaluators, StepOf(d), d # e
      PROVE  LocalsStand(e)
  BY <1>1, <1>4, OthersStand
<1>5. CASE Crash
  BY <1>5, CrashShape
<1>6. CASE UNCHANGED <<locals, tables, feed, born, faults>>
  BY <1>2, <1>6 DEF LocalsStand, locals
<1>7. QED
  BY <1>2, <1>3, <1>4, <1>5, <1>6, StepCases

\* No message is ahead of the call that may follow it up.
LEMMA TimesStep ==
  ASSUME IndInv, OwnerInv, TimesInOrder, OneEvaluatorPerRule, [Next]_vars
  PROVE  TimesInOrder'
<1>1. TypeOK /\ clock \in Nat /\ clock' \in Nat /\ clock' >= clock
  BY TypeStep, Writers DEF IndInv, TypeOK, AdvanceClock
<1>2. ASSUME NEW i \in Incidents
      PROVE  NotAfter(i, clock)'
  <2>1. NotAfter(i, clock) /\ \A e \in Evaluators : job[e].now <= clock
    BY DEF TimesInOrder
  <2>2. PICK t \in Nat : t = clock
    BY <1>1
  <2>3. NotAfter(i, t)'
    BY <2>1, <2>2, NotAfterStands
  <2>4. \A s \in Subs, c \in Channels : \A n \in DOMAIN feed'[i][s][c] :
          feed'[i][s][c][n].at \in Nat /\ feed'[i][s][c][n].at <= t
    <3>1. feed' \in [Incidents -> [Subs -> [Channels -> Seq(Message)]]]
      BY TypeStep DEF TypeOK
    <3>2. \A s \in Subs, c \in Channels : \A n \in DOMAIN feed'[i][s][c] :
            feed'[i][s][c][n] \in Message
      BY <3>1
    <3>3. QED
      BY <2>3, <3>2 DEF NotAfter, Message
  <2>5. QED
    BY <1>1, <2>2, <2>4 DEF NotAfter
<1>3. ASSUME NEW e \in Evaluators
      PROVE  /\ job'[e].now <= clock'
             /\ \A i \in Incidents : tr'[e].incident = i => NotAfter(i, job[e].now)'
             /\ \A i \in Incidents : pc'[e] = "load" /\ live'[job'[e].rule].incident = i =>
                  NotAfter(i, job[e].now)'
  BY CallTimes, LoadTimes
<1>4. QED
  BY <1>2, <1>3 DEF TimesInOrder, NotAfter

-----------------------------------------------------------------------------
\* A step is charged one fault or none, as long as there are any.
LEMMA FaultsGrow ==
  ASSUME TypeOK, [Next]_vars
  PROVE  /\ faults \in Nat /\ faults' \in Nat
         /\ faults' = faults \/ (faults' = faults + 1 /\ faults < MaxFaults)
<1> DEFINE Grows == faults' = faults \/ (faults' = faults + 1 /\ faults < MaxFaults)
<1>1. faults \in Nat
  BY DEF TypeOK
<1>2. ASSUME NEW acked, Reported(acked) PROVE Grows
  BY <1>2 DEF Reported, Fault
<1>3. Fault => Grows
  BY DEF Fault
<1>4. ASSUME NEW e \in Evaluators, NEW r \in Rules, Evaluate(e, r) PROVE Grows
  BY <1>4 DEF Evaluate, BeginTick
<1>5. ASSUME NEW e \in Evaluators, NEW r \in Rules, BeginEvalError(e, r) PROVE Grows
  BY <1>5, <1>3 DEF BeginEvalError
<1>6. ASSUME NEW e \in Evaluators, Continue(e) PROVE Grows
  <2>1. CASE SaveLiveState(e)
    BY <2>1, <1>2 DEF SaveLiveState
  <2>2. CASE RecordIncident(e)
    BY <2>2, <1>2 DEF RecordIncident
  <2>3. CASE RecordNotification(e)
    BY <2>3, <1>2 DEF RecordNotification
  <2>4. CASE MarkNotified(e)
    BY <2>4, <1>2 DEF MarkNotified
  <2>5. CASE LoadForError(e)
    BY <2>5, <1>2 DEF LoadForError
  <2>6. CASE SaveForError(e)
    BY <2>6, <1>2 DEF SaveForError
  <2>7. CASE ReadFails(e) \/ GateFails(e) \/ \E s \in Subs : SubStateFails(e, s)
    BY <2>7, <1>3 DEF ReadFails, GateFails, SubStateFails
  <2>8. CASE LoadLiveState(e) \/ ListSubscriptions(e) \/ OneShotGate(e) \/ EndTick(e)
    BY <2>8 DEF LoadLiveState, ListSubscriptions, OneShotGate, EndTick
  <2>9. CASE \E s \in Subs : PassOver(e, s) \/ \E kind \in Kinds : StartDelivery(e, s, kind)
    BY <2>9 DEF PassOver, StartDelivery
  <2>10. CASE \E c \in Channels, ok \in BOOLEAN : Send(e, c, ok)
    BY <2>10 DEF Send
  <2>11. QED
    BY <1>6, <2>1, <2>2, <2>3, <2>4, <2>5, <2>6, <2>7, <2>8, <2>9, <2>10 DEF Continue
<1>7. Crash => Grows
  BY <1>3 DEF Crash
<1>8. AdvanceClock \/ UNCHANGED vars => Grows
  BY DEF AdvanceClock, vars
<1>9. Grows
  BY <1>4, <1>5, <1>6, <1>7, <1>8 DEF Next
<1>10. QED
  BY <1>1, <1>9

\* V is no more than one larger than T.
CardinalityWith(V, T) ==
  IsFiniteSet(V) /\ Cardinality(V) \in Nat /\ Cardinality(V) <= Cardinality(T) + 1

\* Adding an element makes a finite set at most one larger.
LEMMA WithOneMore ==
  ASSUME NEW T, NEW x, IsFiniteSet(T)
  PROVE  CardinalityWith(T \cup {x}, T)
<1>1. Cardinality(T) \in Nat
  BY FS_CardinalityType
<1>2. /\ IsFiniteSet(T \cup {x})
      /\ Cardinality(T \cup {x}) = IF x \in T THEN Cardinality(T) ELSE Cardinality(T) + 1
  BY FS_AddElement
<1>3. QED
  BY <1>1, <1>2 DEF CardinalityWith

\* The messages that came too soon are some of those in the feed.
LEMMA TooSoonIsFinite ==
  ASSUME TypeOK, NEW i \in Incidents, NEW s \in Subs, NEW c \in Channels
  PROVE  IsFiniteSet(TooSoon(i, s, c)) /\ Cardinality(TooSoon(i, s, c)) \in Nat
<1>1. feed[i][s][c] \in Seq(Message)
  BY DEF TypeOK
<1>2. Len(feed[i][s][c]) \in Nat
  BY <1>1
<1>3. PICK l \in Nat : l = Len(feed[i][s][c])
  BY <1>2
<1>4. IsFiniteSet(2..l)
  BY FS_Interval
<1>5. TooSoon(i, s, c) \in SUBSET (2..l)
  BY <1>3 DEF TooSoon
<1>6. QED
  BY <1>4, <1>5, FS_Subset, FS_CardinalityType

\* A sub state that is stored tells of all that was sent.
LEMMA UntoldStands ==
  ASSUME IndInv, OwnerInv, TimesInOrder, [Next]_vars,
         NEW i \in Incidents, NEW s \in Subs, NEW c \in Channels,
         feed'[i][s][c] = feed[i][s][c], Untold(i, s, c)'
  PROVE  /\ Untold(i, s, c)
         /\ ~\E e \in Evaluators : /\ MarkNotified(e) /\ subStates'[i][s] = Marked(e)
                                   /\ tr[e].incident = i /\ dlv[e].sub = s
                                   /\ dlv[e].kind # "resolved"
<1> DEFINE f == feed[i][s][c]
<1>1. TypeOK /\ f \in Seq(Message) /\ subStates[i][s] \in SubState
  BY DEF IndInv, TypeOK
<1>2. subStates'[i][s] = subStates[i][s] => Untold(i, s, c)
  BY DEF Untold
<1>3. f # <<>> /\ f[Len(f)].kind # "resolved"
  BY DEF Untold
<1>4. Len(f) \in DOMAIN f /\ f[Len(f)].at \in Nat
  <2>1. Len(f) \in DOMAIN f
    BY <1>1, <1>3
  <2>2. f[Len(f)] \in Message
    BY <1>1, <2>1
  <2>3. QED
    BY <2>1, <2>2 DEF Message
<1>5. ASSUME NEW e \in Evaluators, MarkNotified(e), tr[e].incident = i, dlv[e].sub = s,
             subStates'[i][s] = Marked(e)
      PROVE  dlv[e].kind = "resolved" /\ Untold(i, s, c)
  <2>1. dlv[e] \in Delivery /\ job[e] \in Job
    BY <1>1 DEF TypeOK
  <2>2. f[Len(f)].at <= job[e].now
    BY <1>4, <1>5 DEF TimesInOrder, NotAfter
  <2>3. dlv[e].st = subStates[i][s]
    BY <1>5 DEF MarkNotified, OwnerInv, DeliveryInOrder, Delivering
  <2>4. dlv[e].kind \in {"firing", "repeat", "resolved"} /\ job[e].now \in Nat
        /\ dlv[e].st \in SubState
    BY <2>1 DEF Delivery, Kinds, Job
  <2>5. subStates'[i][s].count = 0 \/ subStates'[i][s].lastNotifiedAt < f[Len(f)].at
    BY DEF Untold
  <2>6. CASE dlv[e].kind = "firing"
    <3>1. subStates'[i][s].count = 1 /\ subStates'[i][s].lastNotifiedAt = job[e].now
      BY <1>5, <2>6 DEF Marked
    <3>2. QED
      BY <1>4, <2>2, <2>4, <2>5, <3>1
  <2>7. CASE dlv[e].kind = "repeat"
    <3>1. /\ subStates'[i][s].count = dlv[e].st.count + 1
          /\ subStates'[i][s].lastNotifiedAt = job[e].now
      BY <1>5, <2>7 DEF Marked
    <3>2. dlv[e].st.count \in Nat
      BY <2>4 DEF SubState
    <3>3. QED
      BY <1>4, <2>2, <2>4, <2>5, <3>1, <3>2
  <2>8. CASE dlv[e].kind = "resolved"
    BY <1>3, <1>5, <2>3, <2>4, <2>5, <2>8 DEF Marked, SubState, Untold
  <2>9. QED
    BY <2>4, <2>6, <2>7, <2>8
<1>6. Untold(i, s, c)
  BY <1>2, <1>5, SubStateShape
<1>7. QED
  BY <1>5, <1>6

\* A delivery that is past a binding stays past it until its sub state is
\* stored, or a fault keeps it from being stored.
LEMMA MarkingStands ==
  ASSUME IndInv, OwnerInv, TimesInOrder, [Next]_vars,
         NEW i \in Incidents, NEW s \in Subs, NEW c \in Channels,
         feed'[i][s][c] = feed[i][s][c], Untold(i, s, c)',
         BeingMarked(i, s, c), ~BeingMarked(i, s, c)'
  PROVE  faults' = faults + 1
<1>1. TypeOK
  BY DEF IndInv
<1>2. PICK e \in Evaluators : /\ pc[e] \in {"send", "record"}
                              /\ tr[e].incident = i /\ dlv[e].sub = s /\ c \notin left[e]
                              /\ dlv[e].kind # "resolved"
  BY DEF BeingMarked
<1>3. ~(/\ pc'[e] \in {"send", "record"} /\ tr'[e] = tr[e] /\ dlv'[e] = dlv[e]
        /\ c \notin left'[e])
  BY <1>2 DEF BeingMarked
<1>4. CASE StepOf(e)
  <2> USE <1>1, <1>2, <1>3 DEF TypeOK, Goto
  <2>1. ~\E d \in Channels, ok \in BOOLEAN : Send(e, d, ok)
    BY DEF Send
  <2>2. ~RecordNotification(e)
    BY DEF RecordNotification
  <2>3. MarkNotified(e)
    BY <1>4, <2>1, <2>2 DEF StepOf, Continue, LoadLiveState, ReadFails, SaveLiveState,
       RecordIncident, ListSubscriptions, PassOver, SubStateFails, StartDelivery, Visit,
       OneShotGate, GateFails, EndTick, LoadForError, SaveForError, Evaluate, BeginTick,
       BeginEvalError
  <2>4. PICK w \in WriteOutcomes :
          /\ Reported(w.acked)
          /\ subStates' = IF w.applied
                            THEN [subStates EXCEPT ![tr[e].incident][dlv[e].sub] = Marked(e)]
                            ELSE subStates
    BY <2>3 DEF MarkNotified
  <2>5. ~w.applied
    <3>1. ASSUME w.applied PROVE subStates'[i][s] = Marked(e)
      BY <2>4, <3>1
    <3>2. QED
      BY <2>3, <3>1, UntoldStands
  <2>6. ~w.acked
    BY <2>5 DEF WriteOutcomes
  <2>7. QED
    BY <2>4, <2>6 DEF Reported, Fault
<1>5. ASSUME NEW d \in Evaluators, StepOf(d), d # e
      PROVE  FALSE
  BY <1>1, <1>2, <1>3, <1>5, OthersStand DEF LocalsStand
<1>6. CASE Crash
  BY <1>6 DEF Crash, Fault
<1>7. CASE UNCHANGED <<locals, tables, feed, born, faults>>
  BY <1>2, <1>3, <1>7 DEF locals
<1>8. QED
  BY <1>4, <1>5, <1>6, <1>7, StepCases

\* A feed with one message more: the message is at its end.
LEMMA LongerFeed ==
  ASSUME NEW f \in Seq(Message), NEW m \in Message, NEW g, g = Append(f, m)
  PROVE  /\ Len(f) \in Nat /\ Len(g) = Len(f) + 1 /\ g[Len(f) + 1] = m /\ g # <<>>
         /\ \A n \in 1..Len(f) : g[n] = f[n] /\ f[n] \in Message
<1>1. Len(f) \in Nat /\ g \in Seq(Message) /\ Len(g) = Len(f) + 1
  OBVIOUS
<1>2. g # <<>>
  BY <1>1
<1>3. DOMAIN f = 1..Len(f) /\ \A n \in DOMAIN f : f[n] \in Message
  OBVIOUS
<1>4. QED
  BY <1>1, <1>2, <1>3, AppendFacts

\* A message sent is the only one that may come too soon by its sending, and
\* when it does a fault was not charged yet.
LEMMA EarlyIsPaid ==
  ASSUME IndInv, OwnerInv, PaceInv, OneEvaluatorPerRule,
         NEW i \in Incidents, NEW s \in Subs, NEW c \in Channels,
         NEW e \in Evaluators, NEW ok \in BOOLEAN, Send(e, c, ok),
         tr[e].incident = i, dlv[e].sub = s, Outgoing(e, ok) \in Message,
         feed'[i][s][c] = Append(feed[i][s][c], Outgoing(e, ok))
  PROVE  /\ TooSoon(i, s, c)' \subseteq TooSoon(i, s, c) \cup {Len(feed[i][s][c]) + 1}
         /\ Len(feed[i][s][c]) + 1 \in TooSoon(i, s, c)' => Cardinality(TooSoon(i, s, c)) < faults
<1> DEFINE f == feed[i][s][c]
           m == Outgoing(e, ok)
<1>1. TypeOK /\ f \in Seq(Message) /\ subStates[i][s] \in SubState /\ Repeat[s] \in Nat
      /\ job[e].now \in Nat
  BY ConstantsAssumption DEF IndInv, TypeOK, Job
<1>2. /\ Len(feed'[i][s][c]) = Len(f) + 1 /\ feed'[i][s][c][Len(f) + 1] = m
      /\ feed'[i][s][c] # <<>>
      /\ \A n \in 1..Len(f) : feed'[i][s][c][n] = f[n] /\ f[n] \in Message
      /\ Len(f) \in Nat
  <2>1. PICK g : g = feed'[i][s][c]
    OBVIOUS
  <2>2. f \in Seq(Message) /\ m \in Message /\ g = Append(f, m)
    BY <1>1, <2>1
  <2> HIDE DEF f, m
  <2>3. QED
    BY <2>1, <2>2, LongerFeed
<1>3. pc[e] = "send" /\ c \in left[e] /\ m.kind = dlv[e].kind /\ m.at = job[e].now
  BY DEF Send, Outgoing
<1>4. /\ dlv[e].st = subStates[i][s]
      /\ dlv[e].kind = "firing" => subStates[i][s].count = 0
      /\ dlv[e].kind = "repeat" => job[e].now >= subStates[i][s].lastNotifiedAt + Repeat[s]
  BY <1>3 DEF OwnerInv, DeliveryInOrder, Delivering
<1>5. ~BeingMarked(i, s, c)
  BY <1>3, SoleTeller DEF BeingMarked
<1>6. ~Ended(i, s, c)
  BY <1>3 DEF OwnerInv, EndedIsOver, TellerIsDone
<1>7. TooSoon(i, s, c)' \subseteq TooSoon(i, s, c) \cup {Len(f) + 1}
  <2> SUFFICES ASSUME NEW n \in TooSoon(i, s, c)', n # Len(f) + 1
               PROVE  n \in TooSoon(i, s, c)
    OBVIOUS
  <2>1. n \in 2..(Len(f) + 1)
    BY <1>2 DEF TooSoon
  <2>2. n \in 2..Len(f) /\ n \in 1..Len(f) /\ n - 1 \in 1..Len(f)
    BY <1>2, <2>1
  <2>3. feed'[i][s][c][n] = f[n] /\ feed'[i][s][c][n - 1] = f[n - 1]
    BY <1>2, <2>2
  <2>4. QED
    BY <2>2, <2>3 DEF TooSoon
<1>8. ASSUME Len(f) + 1 \in TooSoon(i, s, c)'
      PROVE  Untold(i, s, c)
  <2>1. Len(f) + 1 \in 2..(Len(f) + 1)
    BY <1>2, <1>8 DEF TooSoon
  <2>2. Len(f) \in 1..Len(f) /\ f # <<>>
    BY <1>1, <1>2, <2>1
  <2>3. f[Len(f)] \in Message /\ feed'[i][s][c][(Len(f) + 1) - 1] = f[Len(f)]
    <3>1. f[Len(f)] \in Message /\ feed'[i][s][c][Len(f)] = f[Len(f)]
      BY <1>2, <2>2
    <3>2. (Len(f) + 1) - 1 = Len(f)
      BY <1>2
    <3>3. QED
      BY <3>1, <3>2
  <2>4. m.kind = "firing" \/ (m.kind = "repeat" /\ m.at < f[Len(f)].at + Repeat[s])
    BY <1>2, <1>8, <2>3 DEF TooSoon
  <2>5. f[Len(f)].kind # "resolved"
    BY <1>1, <1>6, <2>2 DEF Ended
  <2>6. subStates[i][s].count = 0 \/ subStates[i][s].lastNotifiedAt < f[Len(f)].at
    <3>1. /\ f[Len(f)].at \in Nat /\ subStates[i][s].lastNotifiedAt \in Nat
          /\ Repeat[s] \in Nat /\ m.at = job[e].now
      BY <1>1, <1>3, <2>3 DEF Message, SubState
    <3>2. CASE m.kind = "firing"
      BY <1>3, <1>4, <3>2
    <3>3. CASE m.kind = "repeat"
      <4>1. job[e].now >= subStates[i][s].lastNotifiedAt + Repeat[s]
        BY <1>3, <1>4, <3>3
      <4>2. job[e].now < f[Len(f)].at + Repeat[s]
        BY <2>4, <3>1, <3>3
      <4>3. PICK now, last, at, every \in Nat :
              /\ now = job[e].now /\ last = subStates[i][s].lastNotifiedAt
              /\ at = f[Len(f)].at /\ every = Repeat[s]
        BY <1>1, <3>1
      <4>4. now >= last + every /\ now < at + every
        BY <4>1, <4>2, <4>3
      <4>5. last < at
        BY <4>4
      <4>6. QED
        BY <4>3, <4>5
    <3>4. QED
      BY <2>4, <3>2, <3>3
  <2>7. QED
    BY <2>2, <2>5, <2>6 DEF Untold
<1>9. QED
  BY <1>5, <1>7, <1>8 DEF PaceInv

\* A message that comes too soon was paid for.
LEMMA SendPays ==
  ASSUME IndInv, OwnerInv, PaceInv, OneEvaluatorPerRule,
         NEW i \in Incidents, NEW s \in Subs, NEW c \in Channels,
         NEW e \in Evaluators, NEW ok \in BOOLEAN, Send(e, c, ok),
         tr[e].incident = i, dlv[e].sub = s, Outgoing(e, ok) \in Message,
         feed'[i][s][c] = Append(feed[i][s][c], Outgoing(e, ok))
  PROVE  /\ Cardinality(TooSoon(i, s, c)') <= faults
         /\ Untold(i, s, c)' => BeingMarked(i, s, c)'
<1> DEFINE f == feed[i][s][c]
           m == Outgoing(e, ok)
<1>1. TypeOK /\ f \in Seq(Message)
  BY DEF IndInv, TypeOK
<1>2. Len(feed'[i][s][c]) = Len(f) + 1 /\ feed'[i][s][c][Len(f) + 1] = m
  <2>1. PICK g : g = feed'[i][s][c]
    OBVIOUS
  <2>2. f \in Seq(Message) /\ m \in Message /\ g = Append(f, m)
    BY <1>1, <2>1
  <2> HIDE DEF f, m
  <2>3. QED
    BY <2>1, <2>2, LongerFeed
<1>3. pc[e] = "send" /\ c \in left[e] /\ m.kind = dlv[e].kind
  BY DEF Send, Outgoing
<1>4. /\ TooSoon(i, s, c)' \subseteq TooSoon(i, s, c) \cup {Len(f) + 1}
      /\ Len(f) + 1 \in TooSoon(i, s, c)' => Cardinality(TooSoon(i, s, c)) < faults
  BY EarlyIsPaid
<1>5. Cardinality(TooSoon(i, s, c)') <= faults
  <2>1. PICK T, U : T = TooSoon(i, s, c) /\ U = TooSoon(i, s, c)'
    OBVIOUS
  <2>2. IsFiniteSet(T) /\ Cardinality(T) \in Nat /\ faults \in Nat
    BY <1>1, <2>1, TooSoonIsFinite DEF TypeOK
  <2>3. CASE U \subseteq T
    <3>1. Cardinality(T) <= faults
      BY <2>1 DEF PaceInv
    <3>2. Cardinality(U) <= Cardinality(T) /\ Cardinality(U) \in Nat
      BY <2>2, <2>3, FS_Subset, FS_CardinalityType
    <3>3. QED
      BY <2>1, <2>2, <3>1, <3>2
  <2>4. CASE ~(U \subseteq T)
    <3>1. Cardinality(T) < faults
      BY <1>4, <2>1, <2>4
    <3>2. PICK x, V : x = Len(f) + 1 /\ V = T \cup {x}
      OBVIOUS
    <3>3. U \subseteq V
      BY <1>4, <2>1, <3>2
    <3>4. CardinalityWith(V, T)
      BY <2>2, <3>2, WithOneMore
    <3>5. Cardinality(U) <= Cardinality(V) /\ Cardinality(U) \in Nat
      BY <3>3, <3>4, FS_Subset, FS_CardinalityType DEF CardinalityWith
    <3>6. QED
      BY <2>1, <2>2, <3>1, <3>4, <3>5 DEF CardinalityWith
  <2>5. QED
    BY <2>3, <2>4
<1>6. Untold(i, s, c)' => BeingMarked(i, s, c)'
  <2>1. /\ pc'[e] = "record" /\ tr'[e].incident = i /\ dlv'[e].sub = s /\ c \notin left'[e]
        /\ dlv'[e].kind = dlv[e].kind
    BY <1>1 DEF Send, Goto, TypeOK
  <2>2. Untold(i, s, c)' => dlv[e].kind # "resolved"
    BY <1>2, <1>3 DEF Untold
  <2>3. QED
    BY <2>1, <2>2 DEF BeingMarked
<1>7. QED
  BY <1>5, <1>6

\* Each message that comes too soon is paid for by a fault.
LEMMA PaceStep ==
  ASSUME IndInv, OwnerInv, TimesInOrder, PaceInv, OneEvaluatorPerRule, [Next]_vars
  PROVE  PaceInv'
<1> SUFFICES ASSUME NEW i \in Incidents, NEW s \in Subs, NEW c \in Channels
             PROVE  /\ Cardinality(TooSoon(i, s, c)') <= faults'
                    /\ Untold(i, s, c)' /\ ~BeingMarked(i, s, c)' =>
                         Cardinality(TooSoon(i, s, c)') < faults'
  BY DEF PaceInv, TooSoon, Untold, BeingMarked
<1>1. TypeOK /\ faults \in Nat /\ faults' \in Nat /\ (faults' = faults \/ faults' = faults + 1)
      /\ Cardinality(TooSoon(i, s, c)) \in Nat
  BY FaultsGrow, TooSoonIsFinite DEF IndInv
<1>2. CASE feed'[i][s][c] = feed[i][s][c]
  <2>1. TooSoon(i, s, c)' = TooSoon(i, s, c)
    BY <1>2 DEF TooSoon
  <2>2. /\ Cardinality(TooSoon(i, s, c)) <= faults
        /\ Untold(i, s, c) /\ ~BeingMarked(i, s, c) => Cardinality(TooSoon(i, s, c)) < faults
    BY DEF PaceInv
  <2>3. Untold(i, s, c)' /\ ~BeingMarked(i, s, c)' =>
          \/ Untold(i, s, c) /\ ~BeingMarked(i, s, c)
          \/ faults' = faults + 1
    BY <1>2, UntoldStands, MarkingStands
  <2>4. QED
    BY <1>1, <2>1, <2>2, <2>3
<1>3. ASSUME NEW e \in Evaluators, NEW ok \in BOOLEAN, Send(e, c, ok)
      PROVE  faults' = faults
  BY <1>3 DEF Send
<1>4. CASE feed'[i][s][c] # feed[i][s][c]
  <2>1. /\ Cardinality(TooSoon(i, s, c)') <= faults /\ faults' = faults
        /\ Untold(i, s, c)' => BeingMarked(i, s, c)'
    BY <1>3, <1>4, FeedShape, SendPays
  <2>2. QED
    BY <2>1
<1>5. QED
  BY <1>2, <1>4

\* Before anything is sent, nothing is late, early or told.
LEMMA PaceInit == Init => TimesInOrder /\ PaceInv
<1> SUFFICES ASSUME Init PROVE TimesInOrder /\ PaceInv
  OBVIOUS
<1>1. /\ faults = 0 /\ clock = 1
      /\ job = [e \in Evaluators |-> NoJob]
      /\ feed = [i \in Incidents |-> [s \in Subs |-> [c \in Channels |-> <<>>]]]
  BY Zenon DEF Init
<1>2. \A i \in Incidents, s \in Subs, c \in Channels :
        feed[i][s][c] = <<>> /\ DOMAIN feed[i][s][c] = {}
  BY <1>1
<1>3. \A e \in Evaluators : job[e].now = 0
  BY <1>1 DEF NoJob
<1>4. TimesInOrder
  BY <1>1, <1>2, <1>3 DEF TimesInOrder, NotAfter
<1>5. ASSUME NEW i \in Incidents, NEW s \in Subs, NEW c \in Channels
      PROVE  /\ Cardinality(TooSoon(i, s, c)) <= faults
             /\ ~Untold(i, s, c)
  <2>1. 2..Len(feed[i][s][c]) = {}
    BY <1>2
  <2>2. TooSoon(i, s, c) = {}
    BY <2>1 DEF TooSoon
  <2>3. Cardinality(TooSoon(i, s, c)) = 0
    BY <2>2, FS_EmptySet
  <2>4. QED
    BY <1>1, <1>2, <2>3 DEF Untold
<1>6. QED
  BY <1>4, <1>5 DEF PaceInv

\* Where a rule has one evaluator, the times of the messages and of the calls
\* are in order, and each message that came too soon is paid for by a fault.
THEOREM PaceHolds == ASSUME OneEvaluatorPerRule PROVE Spec => [](TimesInOrder /\ PaceInv)
<1>1. Init => TimesInOrder /\ PaceInv
  BY PaceInit
<1>2. IndInv /\ OwnerInv /\ TimesInOrder /\ PaceInv /\ [Next]_vars =>
        (TimesInOrder /\ PaceInv)'
  BY TimesStep, PaceStep
<1>3. QED
  BY <1>1, <1>2, InvariantHolds, OwnershipHolds, PTL DEF Spec

\* Where a rule has one evaluator, a channel gets a second alarm, or a repeat
\* within RepeatInterval, at most once for each fault (the sub state is
\* stored after the message is sent).
THEOREM TooSoonCostsAFault == ASSUME OneEvaluatorPerRule PROVE Spec => []TooSoonOnlyByFaults
<1>1. PaceInv => TooSoonOnlyByFaults
  BY DEF PaceInv, TooSoonOnlyByFaults
<1>2. QED
  BY <1>1, PaceHolds, PTL

-----------------------------------------------------------------------------
\* Only Send and RecordNotification concern the audit row a Tick holds.
LEMMA ActorRecords ==
  ASSUME TypeOK, NEW e \in Evaluators, StepOf(e)
  PROVE  \/ RecordNotification(e)
         \/ \E c \in Channels, ok \in BOOLEAN : Send(e, c, ok)
         \/ pc[e] # "record" /\ pc'[e] # "record" /\ audit'[e] = audit[e]
<1> SUFFICES ASSUME ~RecordNotification(e), ~\E c \in Channels, ok \in BOOLEAN : Send(e, c, ok)
             PROVE  pc[e] # "record" /\ pc'[e] # "record" /\ audit'[e] = audit[e]
  OBVIOUS
<1> USE DEF TypeOK, Goto
<1>1. CASE ~Return(e)
  BY <1>1 DEF StepOf, Continue, Evaluate, BeginTick, BeginEvalError, LoadLiveState, ReadFails,
     SaveLiveState, RecordIncident, ListSubscriptions, PassOver, SubStateFails, StartDelivery,
     Visit, OneShotGate, GateFails, MarkNotified, EndTick, LoadForError, SaveForError
<1>2. CASE Return(e)
  <2>1. pc[e] # "record"
    BY DEF StepOf, Continue, Evaluate, BeginTick, BeginEvalError, LoadLiveState, ReadFails,
       SaveLiveState, RecordIncident, ListSubscriptions, PassOver, SubStateFails, StartDelivery,
       Visit, OneShotGate, GateFails, MarkNotified, EndTick, LoadForError, SaveForError
  <2>2. QED
    BY <1>2, <2>1 DEF Return
<1>3. QED
  BY <1>1, <1>2

\* The audit row a Tick holds stands until it is recorded.
LEMMA AuditOrderStep ==
  ASSUME IndInv, OwnerInv, AuditInv, OneEvaluatorPerRule, [Next]_vars, NEW e \in Evaluators
  PROVE  AuditInOrder(e)'
<1>1. TypeOK /\ AuditInOrder(e)
  BY DEF IndInv, AuditInv
<1>2. CASE LocalsStand(e) /\ ~\E c \in Channels, ok \in BOOLEAN : Send(e, c, ok)
  <2>1. CASE pc[e] # "record"
    BY <1>1, <1>2, <2>1 DEF AuditInOrder, LocalsStand
  <2>2. CASE pc[e] = "record"
    <3>1. PICK c \in Channels \ left[e] :
            LET f == feed[tr[e].incident][dlv[e].sub][c]
            IN f # <<>> /\ audit[e] = {AuditRow(tr[e].incident, dlv[e].sub, c, f[Len(f)])}
      BY <1>1, <2>2 DEF AuditInOrder
    <3>2. tr[e].incident \in Incidents /\ dlv[e].sub \in Subs
      BY <1>1, <2>2 DEF IndInv, DeliveryInv, TickDelivery, Delivering, Minted, TypeOK, Delivery
    <3>3. feed'[tr[e].incident][dlv[e].sub][c] = feed[tr[e].incident][dlv[e].sub][c]
      BY <1>2, <3>2, FeedShape, SoleTeller
    <3>4. QED
      BY <1>2, <2>2, <3>1, <3>3 DEF AuditInOrder, LocalsStand, AuditRow
  <2>3. QED
    BY <2>1, <2>2
<1>3. CASE StepOf(e)
  <2>1. CASE \E c \in Channels, ok \in BOOLEAN : Send(e, c, ok)
    <3>1. PICK c \in Channels, ok \in BOOLEAN : Send(e, c, ok)
      BY <2>1
    <3>2. pc[e] = "send"
      BY <3>1 DEF Send
    <3>3. PICK i \in Incidents, s \in Subs : i = tr[e].incident /\ s = dlv[e].sub
      <4>1. dlv[e].sub \in Subs
        BY <1>1 DEF TypeOK, Delivery
      <4>2. tr[e].incident \in Incidents
        BY <3>2 DEF IndInv, DeliveryInv, TickDelivery, Delivering, Minted
      <4>3. QED
        BY <4>1, <4>2
    <3>4. /\ Outgoing(e, ok) \in Message /\ feed[i][s][c] \in Seq(Message)
          /\ feed'[i][s][c] = Append(feed[i][s][c], Outgoing(e, ok))
      <4>1. /\ Outgoing(e, ok) \in Message /\ feed[i][s][c] \in Seq(Message)
            /\ feed'[i][s][c] = IF i = tr[e].incident /\ s = dlv[e].sub /\ c = c
                                THEN Append(feed[i][s][c], Outgoing(e, ok)) ELSE feed[i][s][c]
        BY <3>1, SendAppends
      <4>2. QED
        BY <3>3, <4>1
    <3>5. feed'[i][s][c] # <<>> /\ feed'[i][s][c][Len(feed'[i][s][c])] = Outgoing(e, ok)
      <4>1. PICK f, g, m : f = feed[i][s][c] /\ g = feed'[i][s][c] /\ m = Outgoing(e, ok)
        OBVIOUS
      <4>2. f \in Seq(Message) /\ m \in Message /\ g = Append(f, m)
        BY <3>4, <4>1
      <4>3. Len(g) = Len(f) + 1 /\ g[Len(f) + 1] = m /\ g # <<>>
        BY <4>2, LongerFeed
      <4>4. QED
        BY <4>1, <4>3
    <3>6. /\ pc'[e] = "record" /\ tr'[e].incident = i /\ dlv'[e].sub = s /\ c \notin left'[e]
          /\ audit'[e] = {AuditRow(i, s, c, Outgoing(e, ok))}
      BY <1>1, <3>1, <3>3 DEF Send, Goto, TypeOK, AuditRow, Outgoing
    <3>7. QED
      BY <3>5, <3>6 DEF AuditInOrder, AuditRow
  <2>2. CASE RecordNotification(e)
    BY <1>1, <2>2 DEF RecordNotification, Goto, TypeOK, AuditInOrder
  <2>3. CASE ~RecordNotification(e) /\ ~\E c \in Channels, ok \in BOOLEAN : Send(e, c, ok)
    <3>1. pc[e] # "record" /\ pc'[e] # "record" /\ audit'[e] = audit[e]
      BY <1>1, <1>3, <2>3, ActorRecords
    <3>2. QED
      BY <1>1, <3>1 DEF AuditInOrder
  <2>4. QED
    BY <2>1, <2>2, <2>3
<1>4. ASSUME NEW d \in Evaluators, StepOf(d), d # e
      PROVE  LocalsStand(e)
  BY <1>1, <1>4, OthersStand
<1>5. CASE Crash
  BY <1>5, CrashShape DEF AuditInOrder
<1>6. CASE UNCHANGED <<locals, tables, feed, born, faults>>
  BY <1>1, <1>2, <1>6 DEF LocalsStand, locals, Send, Goto, TypeOK
<1>7. ASSUME NEW c \in Channels, NEW ok \in BOOLEAN, Send(e, c, ok)
      PROVE  StepOf(e)
  BY <1>7 DEF StepOf, Continue
<1>8. QED
  BY <1>2, <1>3, <1>4, <1>5, <1>6, <1>7, StepCases

\* The messages without a row are some of those in the feed.
LEMMA LostIsFinite ==
  ASSUME TypeOK, NEW i \in Incidents, NEW s \in Subs, NEW c \in Channels
  PROVE  IsFiniteSet(Lost(i, s, c)) /\ Cardinality(Lost(i, s, c)) \in Nat
<1>1. feed[i][s][c] \in Seq(Message)
  BY DEF TypeOK
<1>2. PICK l \in Nat : l = Len(feed[i][s][c])
  BY <1>1
<1>3. IsFiniteSet(1..l)
  BY FS_Interval
<1>4. DOMAIN feed[i][s][c] = 1..l
  BY <1>1, <1>2
<1>5. Lost(i, s, c) \in SUBSET (1..l)
  BY <1>4 DEF Lost, Unaudited
<1>6. QED
  BY <1>3, <1>5, FS_Subset, FS_CardinalityType

\* The row a Tick holds is that of the last message of its binding.
LEMMA HeldRow ==
  ASSUME NEW e, AuditInOrder(e), NEW i, NEW s, NEW c,
         NEW n \in audit[e], n.incident = i, n.sub = s, n.channel = c
  PROVE  /\ pc[e] = "record" /\ tr[e].incident = i
         /\ audit[e] = {AuditRow(i, s, c, feed[i][s][c][Len(feed[i][s][c])])}
<1>1. pc[e] = "record"
  BY DEF AuditInOrder
<1>2. PICK d \in Channels \ left[e] :
        audit[e] = {AuditRow(tr[e].incident, dlv[e].sub, d,
                             feed[tr[e].incident][dlv[e].sub][d][
                               Len(feed[tr[e].incident][dlv[e].sub][d])])}
  BY <1>1 DEF AuditInOrder
<1>3. n = AuditRow(tr[e].incident, dlv[e].sub, d,
                   feed[tr[e].incident][dlv[e].sub][d][
                     Len(feed[tr[e].incident][dlv[e].sub][d])])
  BY <1>2
<1>4. /\ n.incident = tr[e].incident /\ n.sub = dlv[e].sub /\ n.channel = d
  BY <1>3 DEF AuditRow
<1>5. QED
  BY <1>1, <1>2, <1>4

\* Audit rows are not deleted.
LEMMA RowsGrow ==
  ASSUME [Next]_vars
  PROVE  notifications \subseteq notifications'
BY Writers DEF RecordNotification

\* A row that is no longer held has been stored, or a fault lost it.
LEMMA RowLeaves ==
  ASSUME IndInv, AuditInv, [Next]_vars,
         NEW i \in Incidents, NEW s \in Subs, NEW c \in Channels,
         BeingAudited(i, s, c), ~BeingAudited(i, s, c)'
  PROVE  \/ faults' = faults + 1
         \/ AuditRow(i, s, c, feed[i][s][c][Len(feed[i][s][c])]) \in notifications'
<1>1. PICK e \in Evaluators : \E n \in audit[e] : n.incident = i /\ n.sub = s /\ n.channel = c
  BY DEF BeingAudited
<1>2. /\ TypeOK /\ pc[e] = "record"
      /\ audit[e] = {AuditRow(i, s, c, feed[i][s][c][Len(feed[i][s][c])])}
  BY <1>1, HeldRow DEF AuditInv, IndInv
<1>3. audit'[e] # audit[e]
  BY <1>1 DEF BeingAudited
<1>4. CASE StepOf(e)
  <2>1. RecordNotification(e)
    BY <1>2, <1>4, ActorRecords DEF Send
  <2>2. PICK w \in WriteOutcomes :
          /\ Reported(w.acked)
          /\ notifications' = IF w.applied THEN notifications \cup audit[e] ELSE notifications
    BY <2>1 DEF RecordNotification
  <2>3. CASE w.applied
    BY <1>2, <2>2, <2>3
  <2>4. CASE ~w.applied
    BY <2>2, <2>4 DEF WriteOutcomes, Reported, Fault
  <2>5. QED
    BY <2>3, <2>4
<1>5. ASSUME NEW d \in Evaluators, StepOf(d), d # e
      PROVE  FALSE
  BY <1>2, <1>3, <1>5, OthersStand DEF LocalsStand
<1>6. CASE Crash
  BY <1>6 DEF Crash, Fault
<1>7. CASE UNCHANGED <<locals, tables, feed, born, faults>>
  BY <1>3, <1>7 DEF locals
<1>8. QED
  BY <1>4, <1>5, <1>6, <1>7, StepCases

\* What a step does to the messages that lack their row.
LEMMA LostShape ==
  ASSUME IndInv, OwnerInv, AuditInv, OneEvaluatorPerRule, [Next]_vars,
         NEW i \in Incidents, NEW s \in Subs, NEW c \in Channels
  PROVE  \/ Lost(i, s, c)' \subseteq Lost(i, s, c)
         \/ /\ faults' = faults + 1
            /\ Lost(i, s, c)' \subseteq Lost(i, s, c) \cup {Len(feed[i][s][c])}
<1>1. TypeOK /\ feed[i][s][c] \in Seq(Message)
  BY DEF IndInv, TypeOK
<1>2. CASE feed'[i][s][c] = feed[i][s][c]
  <2>1. Unaudited(i, s, c)' \subseteq Unaudited(i, s, c)
    BY <1>2, RowsGrow DEF Unaudited, AuditRow
  <2>2. CASE BeingAudited(i, s, c) => BeingAudited(i, s, c)'
    BY <1>2, <2>1, <2>2 DEF Lost
  <2>3. CASE BeingAudited(i, s, c) /\ ~BeingAudited(i, s, c)'
    <3>1. CASE faults' = faults + 1
      BY <1>2, <2>1, <3>1 DEF Lost
    <3>2. CASE AuditRow(i, s, c, feed[i][s][c][Len(feed[i][s][c])]) \in notifications'
      <4>1. Len(feed[i][s][c]) \notin Unaudited(i, s, c)'
        BY <1>2, <3>2 DEF Unaudited, AuditRow
      <4>2. QED
        BY <1>2, <2>1, <2>3, <4>1 DEF Lost
    <3>3. QED
      BY <2>3, <3>1, <3>2, RowLeaves
  <2>4. QED
    BY <2>2, <2>3
<1>3. ASSUME NEW e \in Evaluators, NEW ok \in BOOLEAN, Send(e, c, ok),
             tr[e].incident = i, dlv[e].sub = s, Outgoing(e, ok) \in Message,
             feed'[i][s][c] = Append(feed[i][s][c], Outgoing(e, ok))
      PROVE  Lost(i, s, c)' \subseteq Lost(i, s, c)
  <2>1. pc[e] = "send" /\ notifications' = notifications
    BY <1>3 DEF Send, tables
  <2>2. ~BeingAudited(i, s, c)
    <3>1. ASSUME NEW d \in Evaluators, NEW n \in audit[d],
                 n.incident = i, n.sub = s, n.channel = c
          PROVE  FALSE
      <4>1. pc[d] = "record" /\ tr[d].incident = i
        BY <3>1, HeldRow DEF AuditInv
      <4>2. d = e
        BY <1>3, <4>1, SoleTeller
      <4>3. QED
        BY <2>1, <4>1, <4>2
    <3>2. QED
      BY <3>1 DEF BeingAudited
  <2>3. BeingAudited(i, s, c)'
    <3>1. PICK n : n = [incident |-> i, sub |-> s, channel |-> c, kind |-> dlv[e].kind,
                        at |-> job[e].now, ok |-> ok]
      OBVIOUS
    <3>2. n.incident = i /\ n.sub = s /\ n.channel = c
      BY <3>1
    <3>3. n \in audit'[e]
      BY <1>1, <1>3, <3>1 DEF Send, TypeOK
    <3>4. QED
      BY <3>2, <3>3 DEF BeingAudited
  <2>4. /\ Len(feed'[i][s][c]) = Len(feed[i][s][c]) + 1
        /\ DOMAIN feed'[i][s][c] = DOMAIN feed[i][s][c] \cup {Len(feed[i][s][c]) + 1}
        /\ \A n \in DOMAIN feed[i][s][c] : feed'[i][s][c][n] = feed[i][s][c][n]
    BY <1>1, <1>3, AppendFacts
  <2>5. Unaudited(i, s, c)' \subseteq Unaudited(i, s, c) \cup {Len(feed'[i][s][c])}
    BY <2>1, <2>4 DEF Unaudited, AuditRow
  <2>6. QED
    BY <2>2, <2>3, <2>5 DEF Lost
<1>4. QED
  BY <1>2, <1>3, FeedShape

\* Each message without its row is paid for by a fault.
LEMMA AuditStep ==
  ASSUME IndInv, OwnerInv, AuditInv, OneEvaluatorPerRule, [Next]_vars
  PROVE  AuditInv'
<1>1. TypeOK /\ TypeOK'
  BY TypeStep DEF IndInv
<1>2. faults \in Nat /\ faults' \in Nat /\ (faults' = faults \/ faults' = faults + 1)
  BY <1>1, FaultsGrow
<1>3. ASSUME NEW i \in Incidents, NEW s \in Subs, NEW c \in Channels
      PROVE  Cardinality(Lost(i, s, c)') <= faults'
  <2>1. PICK T, U, x : T = Lost(i, s, c) /\ U = Lost(i, s, c)' /\ x = Len(feed[i][s][c])
    OBVIOUS
  <2>2. IsFiniteSet(T) /\ Cardinality(T) \in Nat /\ Cardinality(T) <= faults
    BY <1>1, <2>1, LostIsFinite DEF AuditInv
  <2>3. CASE U \subseteq T
    <3>1. Cardinality(U) <= Cardinality(T) /\ Cardinality(U) \in Nat
      BY <2>2, <2>3, FS_Subset, FS_CardinalityType
    <3>2. QED
      BY <1>2, <2>1, <2>2, <3>1
  <2>4. CASE faults' = faults + 1 /\ U \subseteq T \cup {x}
    <3>1. CardinalityWith(T \cup {x}, T)
      BY <2>2, WithOneMore
    <3>2. PICK V : V = T \cup {x}
      OBVIOUS
    <3>3. Cardinality(U) <= Cardinality(V) /\ Cardinality(U) \in Nat
      BY <2>4, <3>1, <3>2, FS_Subset, FS_CardinalityType DEF CardinalityWith
    <3>4. QED
      BY <1>2, <2>1, <2>2, <2>4, <3>1, <3>2, <3>3 DEF CardinalityWith
  <2>5. QED
    BY <2>1, <2>3, <2>4, LostShape
<1>4. QED
  BY <1>3, AuditOrderStep DEF AuditInv

\* Nothing is sent and nothing is to be recorded at first.
LEMMA AuditInit == Init => AuditInv
<1> SUFFICES ASSUME Init PROVE AuditInv
  OBVIOUS
<1>1. /\ faults = 0
      /\ pc = [e \in Evaluators |-> "idle"] /\ audit = [e \in Evaluators |-> {}]
      /\ feed = [i \in Incidents |-> [s \in Subs |-> [c \in Channels |-> <<>>]]]
  BY Zenon DEF Init
<1>2. \A i \in Incidents, s \in Subs, c \in Channels : Lost(i, s, c) = {}
  BY <1>1 DEF Lost, Unaudited
<1>3. \A i \in Incidents, s \in Subs, c \in Channels : Cardinality(Lost(i, s, c)) = 0
  BY <1>2, FS_EmptySet
<1>4. QED
  BY <1>1, <1>3 DEF AuditInv, AuditInOrder

\* Where a rule has one evaluator, a message lacks its audit row by a fault,
\* or a Tick is about to record it.
THEOREM AuditHolds == ASSUME OneEvaluatorPerRule PROVE Spec => []AuditInv
<1>1. Init => AuditInv
  BY AuditInit
<1>2. IndInv /\ OwnerInv /\ AuditInv /\ [Next]_vars => AuditInv'
  BY AuditStep
<1>3. QED
  BY <1>1, <1>2, InvariantHolds, OwnershipHolds, PTL DEF Spec

\* What AuditedUpToFaults counts is what AuditInv does.
LEMMA AuditedFollows ==
  ASSUME IndInv, AuditInv
  PROVE  AuditedUpToFaults
<1> SUFFICES ASSUME NEW i \in Incidents, NEW s \in Subs, NEW c \in Channels
             PROVE  Cardinality({n \in DOMAIN feed[i][s][c] :
                      /\ AuditRow(i, s, c, feed[i][s][c][n]) \notin notifications
                      /\ \A e \in Evaluators :
                           AuditRow(i, s, c, feed[i][s][c][n]) \notin audit[e]}) <= faults
  BY DEF AuditedUpToFaults, AuditRow
<1>1. TypeOK /\ faults \in Nat
  BY DEF IndInv, TypeOK
<1>2. PICK Z : Z = {n \in DOMAIN feed[i][s][c] :
                      /\ AuditRow(i, s, c, feed[i][s][c][n]) \notin notifications
                      /\ \A e \in Evaluators :
                           AuditRow(i, s, c, feed[i][s][c][n]) \notin audit[e]}
  OBVIOUS
<1>3. Z \subseteq Lost(i, s, c)
  <2>1. Z \subseteq Unaudited(i, s, c)
    BY <1>2 DEF Unaudited
  <2>2. ASSUME BeingAudited(i, s, c) PROVE Len(feed[i][s][c]) \notin Z
    <3>1. PICK e \in Evaluators : \E n \in audit[e] : n.incident = i /\ n.sub = s /\ n.channel = c
      BY <2>2 DEF BeingAudited
    <3>2. audit[e] = {AuditRow(i, s, c, feed[i][s][c][Len(feed[i][s][c])])}
      BY <3>1, HeldRow DEF AuditInv
    <3>3. QED
      BY <1>2, <3>2
  <2>3. QED
    BY <2>1, <2>2 DEF Lost
<1>4. PICK T : T = Lost(i, s, c)
  OBVIOUS
<1>5. IsFiniteSet(T) /\ Cardinality(T) \in Nat /\ Cardinality(T) <= faults
  BY <1>1, <1>4, LostIsFinite DEF AuditInv
<1>6. Z \subseteq T
  BY <1>3, <1>4
<1>7. Cardinality(Z) <= Cardinality(T) /\ Cardinality(Z) \in Nat
  BY <1>5, <1>6, FS_Subset, FS_CardinalityType
<1>8. QED
  BY <1>1, <1>2, <1>5, <1>7

\* Where a rule has one evaluator, the audit trail lacks at most one message
\* of a binding for each fault (deliver records after it sends, and drops the
\* error of Record).
THEOREM AuditLossCostsAFault == ASSUME OneEvaluatorPerRule PROVE Spec => []AuditedUpToFaults
BY AuditedFollows, InvariantHolds, AuditHolds, PTL
=============================================================================
