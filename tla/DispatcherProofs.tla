-------------------------- MODULE DispatcherProofs --------------------------
(***************************************************************************)
(* DispatcherInvariant!IndInv is an invariant of Dispatcher for every      *)
(* value of the constants, and with it TypeOK, DwellRespected and          *)
(* FeedsStartWithFiring.                                                   *)
(***************************************************************************)
EXTENDS DispatcherInvariant, TLAPS

\* What Apply leaves behind is a LiveState, and what it returns a Transition
\* (state.go's Apply).
LEMMA ApplyType ==
  ASSUME NEW l \in LiveState, NEW triggered \in BOOLEAN, NEW now \in Nat,
         NEW id \in Incidents \cup {NoIncident}
  PROVE  /\ Applied(l, triggered, now, id) \in LiveState
         /\ TransitionOf(l, triggered, now, id) \in Transition
BY DEF Applied, TransitionOf, Opens, Closes, StateFor, LiveState, Transition, States

\* The idle values of the locals have their types: there is a rule and a sub.
LEMMA IdleTypes ==
  /\ NoJob \in Job
  /\ NoDelivery \in Delivery
  /\ OKState \in LiveState
  /\ NoTransition \in Transition
<1>1. /\ (CHOOSE r \in Rules : TRUE) \in Rules
      /\ (CHOOSE s \in Subs : TRUE) \in Subs
  BY ConstantsAssumption
<1>2. QED
  BY <1>1 DEF NoJob, Job, NoDelivery, Delivery, OKState, LiveState, NoTransition, Transition,
              States, NoSubState, SubState, Kinds

\* The inductive invariant holds before the first Tick.
LEMMA InitInvariant == Init => IndInv
<1> SUFFICES ASSUME Init PROVE IndInv
  OBVIOUS
<1> USE ConstantsAssumption DEF Init
<1>1. TypeOK
  BY IdleTypes DEF TypeOK, NoSubState, SubState, PCs
<1>2. CycleInv
  BY DEF CycleInv, InCycle, TickCycle, OKState, AfterApply
<1>3. DeliveryInv
  BY DEF DeliveryInv, UnmintedIsUnused, CountMeansAlarmed, TickDelivery, NoSubState,
         Reached, Delivering
<1>4. DwellRespected /\ FeedsStartWithFiring
  BY DEF DwellRespected, FeedsStartWithFiring
<1>5. QED
  BY <1>1, <1>2, <1>3, <1>4 DEF IndInv

-----------------------------------------------------------------------------
\* A call that returns leaves well-typed locals.
LEMMA ReturnType ==
  ASSUME TypeOK, NEW e \in Evaluators, Return(e)
  PROVE  /\ pc' \in [Evaluators -> PCs]
         /\ job' \in [Evaluators -> Job]
         /\ ls' \in [Evaluators -> LiveState]
         /\ tr' \in [Evaluators -> Transition]
         /\ todo' \in [Evaluators -> SUBSET Subs]
         /\ dlv' \in [Evaluators -> Delivery]
         /\ left' \in [Evaluators -> SUBSET Channels]
         /\ audit' \in [Evaluators -> SUBSET Notification]
BY IdleTypes DEF TypeOK, Return, Goto, PCs

\* The counter of faults stays a number, however a call ends.
LEMMA FaultsType ==
  ASSUME TypeOK, NEW acked, Reported(acked) \/ Fault
  PROVE  faults' \in Nat
BY DEF TypeOK, Reported, Fault

\* The sub state read is typed: it is only read for an incident.
LEMMA SubStateType ==
  ASSUME TypeOK, CycleInv, NEW e \in Evaluators, NEW s \in Subs, pc[e] = "each"
  PROVE  /\ SubStateOf(e, s) \in SubState
         /\ ReadsSubState(e, s) => Minted(tr[e].incident)
<1>1. ReadsSubState(e, s) => Minted(tr[e].incident)
  BY DEF ReadsSubState, ResolutionPath, FiringPath, Closed, CycleInv, TickCycle, InCycle,
         Minted, AfterApply
<1>2. QED
  BY <1>1 DEF SubStateOf, TypeOK, Minted, NoSubState, SubState

\* What Send appends, and where.
LEMMA SendAppends ==
  ASSUME IndInv, NEW e \in Evaluators, NEW d \in Channels, NEW ok \in BOOLEAN, Send(e, d, ok),
         NEW i \in Incidents, NEW s \in Subs, NEW c \in Channels
  PROVE  /\ Outgoing(e, ok) \in Message
         /\ feed[i][s][c] \in Seq(Message)
         /\ feed'[i][s][c] = IF i = tr[e].incident /\ s = dlv[e].sub /\ c = d
                             THEN Append(feed[i][s][c], Outgoing(e, ok)) ELSE feed[i][s][c]
<1>1. TypeOK
  BY DEF IndInv
<1>2. dlv[e].kind \in Kinds /\ job[e].now \in Nat /\ dlv[e].sub \in Subs
  BY <1>1 DEF TypeOK, Delivery, Job
<1>3. Outgoing(e, ok) \in Message
  BY <1>2 DEF Message, Outgoing
<1>4. tr[e].incident \in Incidents
  BY DEF Send, IndInv, DeliveryInv, TickDelivery, Delivering, Minted
<1>5. feed' = [feed EXCEPT ![tr[e].incident][dlv[e].sub][d] = Append(@, Outgoing(e, ok))]
  BY DEF Send
<1>6. feed \in [Incidents -> [Subs -> [Channels -> Seq(Message)]]]
  BY <1>1 DEF TypeOK
<1>7. PICK m, j, q : m = Outgoing(e, ok) /\ j = tr[e].incident /\ q = dlv[e].sub
  OBVIOUS
<1>8. j \in Incidents /\ q \in Subs /\ m \in Message
  BY <1>2, <1>3, <1>4, <1>7
<1>9. feed' = [feed EXCEPT ![j][q][d] = Append(feed[j][q][d], m)]
  BY <1>5, <1>6, <1>7, <1>8
<1>10. feed'[i][s][c] = IF i = j /\ s = q /\ c = d THEN Append(feed[i][s][c], m)
                       ELSE feed[i][s][c]
  BY <1>6, <1>8, <1>9
<1>11. feed[i][s][c] \in Seq(Message)
  BY <1>6
<1>12. QED
  BY <1>3, <1>7, <1>10, <1>11

\* Every step keeps the variables in their types.  The incident a row is
\* stored for is an id because the Tick that stores it is in its cycle.
LEMMA TypeStep ==
  ASSUME IndInv, [Next]_vars
  PROVE  TypeOK'
<1> USE ConstantsAssumption
<1> TypeOK
  BY DEF IndInv
<1>1. ASSUME NEW e \in Evaluators, NEW r \in Rules, NEW triggered \in BOOLEAN,
             BeginTick(e, r, triggered)
      PROVE  TypeOK'
  BY <1>1 DEF BeginTick, Goto, PCs, Job, TypeOK, tables
<1>2. ASSUME NEW e \in Evaluators, LoadLiveState(e)
      PROVE  TypeOK'
  <2> DEFINE row == live[job[e].rule]
             triggered == job[e].triggered
             now == job[e].now
  <2>1. row \in LiveState /\ triggered \in BOOLEAN /\ now \in Nat
    BY DEF TypeOK, Job
  <2>2. PICK id \in (IF Opens(row, triggered) THEN Unminted ELSE {NoIncident}) :
          /\ born' = [i \in Incidents |-> IF i = id THEN now ELSE born[i]]
          /\ ls' = [ls EXCEPT ![e] = Applied(row, triggered, now, id)]
          /\ tr' = [tr EXCEPT ![e] = TransitionOf(row, triggered, now, id)]
    BY <1>2 DEF LoadLiveState
  <2>3. id \in Incidents \cup {NoIncident}
    BY <2>2 DEF Unminted
  <2>4. /\ Applied(row, triggered, now, id) \in LiveState
        /\ TransitionOf(row, triggered, now, id) \in Transition
    BY <2>1, <2>3, ApplyType
  <2>5. /\ ls' \in [Evaluators -> LiveState]
        /\ tr' \in [Evaluators -> Transition]
        /\ born' \in [Incidents -> Nat]
    BY <2>1, <2>2, <2>4 DEF TypeOK
  <2>6. QED
    BY <1>2, <2>5 DEF LoadLiveState, Goto, PCs, TypeOK, tables
<1>3. ASSUME NEW e \in Evaluators, ReadFails(e)
      PROVE  TypeOK'
  BY <1>3, ReturnType, FaultsType DEF ReadFails, TypeOK, tables
<1>4. ASSUME NEW e \in Evaluators, SaveLiveState(e)
      PROVE  TypeOK'
  <2>1. live' \in [Rules -> LiveState]
    BY <1>4 DEF SaveLiveState, TypeOK, Job
  <2>2. faults' \in Nat
    BY <1>4, FaultsType DEF SaveLiveState
  <2>3. CASE Return(e)
    BY <1>4, <2>1, <2>2, <2>3, ReturnType DEF SaveLiveState, TypeOK
  <2>4. CASE ~Return(e)
    BY <1>4, <2>1, <2>2, <2>4 DEF SaveLiveState, Goto, PCs, TypeOK
  <2>5. QED
    BY <2>3, <2>4
<1>5. ASSUME NEW e \in Evaluators, RecordIncident(e)
      PROVE  TypeOK'
  <2>1. job[e] \in Job /\ ls[e] \in LiveState
    BY DEF TypeOK
  <2>2. Opened(tr[e]) => tr[e].incident \in Incidents
    BY <1>5 DEF RecordIncident, Opened, IndInv, CycleInv, TickCycle, AfterApply, InCycle, Minted
  <2>3. IncidentsAfter(e) \subseteq Incident
    BY <2>1, <2>2 DEF IncidentsAfter, TypeOK, Incident, Job, LiveState
  <2>4. incidents' \subseteq Incident
    BY <1>5, <2>3 DEF RecordIncident, TypeOK
  <2>5. faults' \in Nat
    BY <1>5, FaultsType DEF RecordIncident
  <2>6. CASE Return(e)
    BY <1>5, <2>4, <2>5, <2>6, ReturnType DEF RecordIncident, TypeOK
  <2>7. CASE ~Return(e)
    BY <1>5, <2>4, <2>5, <2>7 DEF RecordIncident, Goto, PCs, TypeOK
  <2>8. QED
    BY <2>6, <2>7
<1>6. ASSUME NEW e \in Evaluators, ListSubscriptions(e)
      PROVE  TypeOK'
  BY <1>6 DEF ListSubscriptions, Goto, PCs, Job, TypeOK, tables
<1>7. ASSUME NEW e \in Evaluators, NEW s \in Subs, PassOver(e, s) \/ SubStateFails(e, s)
      PROVE  TypeOK'
  <2>1. todo' \in [Evaluators -> SUBSET Subs]
    <3>1. Visit(e, s)
      BY <1>7 DEF PassOver, SubStateFails
    <3>2. QED
      BY <3>1 DEF Visit, TypeOK
  <2>2. faults' \in Nat
    BY <1>7 DEF PassOver, SubStateFails, Fault, TypeOK
  <2>3. QED
    BY <1>7, <2>1, <2>2 DEF PassOver, SubStateFails, TypeOK, tables
<1>8. ASSUME NEW e \in Evaluators, NEW s \in Subs, NEW kind \in Kinds, StartDelivery(e, s, kind)
      PROVE  TypeOK'
  <2>1. SubStateOf(e, s) \in SubState
    BY <1>8, SubStateType DEF StartDelivery, Visit, IndInv
  <2>2. dlv' \in [Evaluators -> Delivery]
    BY <1>8, <2>1 DEF StartDelivery, Delivery, TypeOK
  <2>3. QED
    BY <1>8, <2>2 DEF StartDelivery, Visit, Goto, PCs, TypeOK, tables
<1>9. ASSUME NEW e \in Evaluators, OneShotGate(e)
      PROVE  TypeOK'
  BY <1>9 DEF OneShotGate, Goto, PCs, Delivery, TypeOK, tables
<1>10. ASSUME NEW e \in Evaluators, GateFails(e)
       PROVE  TypeOK'
  BY <1>10 DEF GateFails, Goto, PCs, Fault, TypeOK, tables
<1>11. ASSUME NEW e \in Evaluators, NEW c \in Channels, NEW ok \in BOOLEAN, Send(e, c, ok)
       PROVE  TypeOK'
  <2> DEFINE i == tr[e].incident
             s == dlv[e].sub
             row == [incident |-> i, sub |-> s, channel |-> c, kind |-> dlv[e].kind,
                     at |-> job[e].now, ok |-> ok]
  <2>1. dlv[e].kind \in Kinds /\ job[e].now \in Nat /\ s \in Subs
    BY DEF TypeOK, Delivery, Job
  <2>2. i \in Incidents
    BY <1>11 DEF Send, IndInv, DeliveryInv, TickDelivery, Delivering, Minted
  <2>3. Append(feed[i][s][c], Outgoing(e, ok)) \in Seq(Message)
    BY <1>11, <2>1, <2>2, SendAppends
  <2>4. feed' \in [Incidents -> [Subs -> [Channels -> Seq(Message)]]]
    BY <1>11, <2>1, <2>2, <2>3 DEF Send, TypeOK
  <2>5. row \in Notification
    BY <2>1, <2>2 DEF Notification
  <2>6. audit' \in [Evaluators -> SUBSET Notification]
    BY <1>11, <2>5 DEF Send, TypeOK
  <2>7. QED
    BY <1>11, <2>4, <2>6 DEF Send, Goto, PCs, TypeOK, tables
<1>12. ASSUME NEW e \in Evaluators, RecordNotification(e)
       PROVE  TypeOK'
  <2>1. faults' \in Nat
    BY <1>12, FaultsType DEF RecordNotification
  <2>2. notifications' \subseteq Notification
    BY <1>12 DEF RecordNotification, TypeOK
  <2>3. QED
    BY <1>12, <2>1, <2>2 DEF RecordNotification, Goto, PCs, TypeOK
<1>13. ASSUME NEW e \in Evaluators, MarkNotified(e)
       PROVE  TypeOK'
  <2>1. Marked(e) \in SubState
    BY DEF TypeOK, Delivery, Job, Marked, Kinds, SubState
  <2>2. subStates' \in [Incidents -> [Subs -> SubState]]
    <3>1. \/ subStates' = subStates
          \/ subStates' = [subStates EXCEPT ![tr[e].incident][dlv[e].sub] = Marked(e)]
      BY <1>13 DEF MarkNotified
    <3>2. tr[e].incident \in Incidents /\ dlv[e].sub \in Subs
      BY <1>13 DEF MarkNotified, IndInv, DeliveryInv, TickDelivery, Delivering, Minted, TypeOK,
                   Delivery
    <3>3. \A i \in Incidents, s \in Subs, st \in SubState :
            [subStates EXCEPT ![i][s] = st] \in [Incidents -> [Subs -> SubState]]
      BY DEF TypeOK
    <3>4. [subStates EXCEPT ![tr[e].incident][dlv[e].sub] = Marked(e)]
            \in [Incidents -> [Subs -> SubState]]
      BY <2>1, <3>2, <3>3, Zenon
    <3>5. QED
      BY <3>1, <3>4 DEF TypeOK
  <2>3. faults' \in Nat
    BY <1>13, FaultsType DEF MarkNotified
  <2>4. QED
    BY <1>13, <2>2, <2>3, IdleTypes DEF MarkNotified, Goto, PCs, TypeOK
<1>14. ASSUME NEW e \in Evaluators, EndTick(e)
       PROVE  TypeOK'
  BY <1>14, ReturnType DEF EndTick, TypeOK, tables
<1>15. ASSUME NEW e \in Evaluators, NEW r \in Rules, BeginEvalError(e, r)
       PROVE  TypeOK'
  BY <1>15 DEF BeginEvalError, Goto, PCs, Job, Fault, TypeOK, tables
<1>16. ASSUME NEW e \in Evaluators, LoadForError(e)
       PROVE  TypeOK'
  <2>1. ls' \in [Evaluators -> LiveState]
    BY <1>16, IdleTypes DEF LoadForError, TypeOK, Job
  <2>2. faults' \in Nat
    BY <1>16, FaultsType DEF LoadForError
  <2>3. QED
    BY <1>16, <2>1, <2>2 DEF LoadForError, Goto, PCs, TypeOK, tables
<1>17. ASSUME NEW e \in Evaluators, SaveForError(e)
       PROVE  TypeOK'
  <2>1. live' \in [Rules -> LiveState]
    BY <1>17 DEF SaveForError, TypeOK, Job
  <2>2. faults' \in Nat
    BY <1>17, FaultsType DEF SaveForError
  <2>3. QED
    BY <1>17, <2>1, <2>2, ReturnType DEF SaveForError, TypeOK
<1>18. CASE Crash
  BY <1>18, IdleTypes DEF Crash, Fault, PCs, TypeOK, tables
<1>19. CASE AdvanceClock
  BY <1>19 DEF AdvanceClock, TypeOK, tables, locals
<1>20. CASE UNCHANGED vars
  BY <1>20 DEF vars, tables, locals, TypeOK
<1>21. QED
  BY <1>1, <1>2, <1>3, <1>4, <1>5, <1>6, <1>7, <1>8, <1>9, <1>10, <1>11, <1>12, <1>13, <1>14,
     <1>15, <1>16, <1>17, <1>18, <1>19, <1>20 DEF Next, Continue, Evaluate

-----------------------------------------------------------------------------
\* Which action writes what: every other one leaves the variable alone.
LEMMA Writers ==
  ASSUME [Next]_vars
  PROVE  /\ clock' # clock => AdvanceClock
         /\ live' # live => \E e \in Evaluators : SaveLiveState(e) \/ SaveForError(e)
         /\ subStates' # subStates => \E e \in Evaluators : MarkNotified(e)
         /\ notifications' # notifications => \E e \in Evaluators : RecordNotification(e)
         /\ feed' # feed =>
              \E e \in Evaluators, c \in Channels, ok \in BOOLEAN : Send(e, c, ok)
         /\ born' # born => \E e \in Evaluators : LoadLiveState(e)
<1>1. CASE \E e \in Evaluators, r \in Rules : Evaluate(e, r) \/ BeginEvalError(e, r)
  BY <1>1 DEF Evaluate, BeginTick, BeginEvalError, tables
<1>2. ASSUME NEW e \in Evaluators, Continue(e)
      PROVE  \/ LoadLiveState(e)
             \/ SaveLiveState(e) \/ SaveForError(e)
             \/ \E c \in Channels, ok \in BOOLEAN : Send(e, c, ok)
             \/ RecordNotification(e)
             \/ MarkNotified(e)
             \/ UNCHANGED <<clock, live, subStates, notifications, feed, born>>
  BY <1>2 DEF Continue, ReadFails, RecordIncident, ListSubscriptions, PassOver, SubStateFails,
              StartDelivery, OneShotGate, GateFails, EndTick, LoadForError, tables
<1>3. CASE \E e \in Evaluators : Continue(e)
  BY <1>2, <1>3 DEF LoadLiveState, SaveLiveState, SaveForError, Send, RecordNotification,
                    MarkNotified, tables
<1>4. CASE Crash \/ AdvanceClock \/ UNCHANGED vars
  BY <1>4 DEF Crash, AdvanceClock, vars, tables
<1>5. QED
  BY <1>1, <1>3, <1>4 DEF Next

\* An incident's start is never rewritten.
LEMMA BornStands ==
  ASSUME TypeOK, [Next]_vars, NEW i, Minted(i)
  PROVE  Minted(i)' /\ born'[i] = born[i]
<1>1. CASE born' = born
  BY <1>1 DEF Minted
<1>2. ASSUME NEW e \in Evaluators, LoadLiveState(e)
      PROVE  Minted(i)' /\ born'[i] = born[i]
  <2>1. PICK id : /\ id \in Unminted \/ id = NoIncident
                  /\ born' = [j \in Incidents |-> IF j = id THEN job[e].now ELSE born[j]]
    BY <1>2 DEF LoadLiveState
  <2>2. i # id
    BY <2>1, NoIncidentAssumption DEF Unminted, Minted
  <2>3. QED
    BY <2>1, <2>2 DEF Minted
<1>3. QED
  BY <1>1, <1>2, Writers

\* Messages and audit rows are only ever added.
LEMMA ReachedStands ==
  ASSUME IndInv, [Next]_vars, NEW i \in Incidents, NEW s \in Subs, NEW c \in Channels,
         Reached(i, s, c)
  PROVE  Reached(i, s, c)'
<1>1. CASE feed' = feed
  BY <1>1 DEF Reached
<1>2. ASSUME NEW e \in Evaluators, NEW d \in Channels, NEW ok \in BOOLEAN, Send(e, d, ok)
      PROVE  feed'[i][s][c] # <<>>
  <2>1. /\ Outgoing(e, ok) \in Message
        /\ feed[i][s][c] \in Seq(Message)
        /\ feed'[i][s][c] = feed[i][s][c] \/ feed'[i][s][c] = Append(feed[i][s][c], Outgoing(e, ok))
    <3>1. feed'[i][s][c] = IF i = tr[e].incident /\ s = dlv[e].sub /\ c = d
                           THEN Append(feed[i][s][c], Outgoing(e, ok)) ELSE feed[i][s][c]
      BY <1>2, SendAppends
    <3>2. QED
      BY <1>2, <3>1, SendAppends
  <2>2. QED
    BY <2>1 DEF Reached
<1>3. QED
  BY <1>1, <1>2, Writers DEF Reached

\* The table of notifications only grows.
LEMMA NotifiedStands ==
  ASSUME [Next]_vars, NEW s, Notified(s)
  PROVE  Notified(s)'
<1>1. notifications \subseteq notifications'
  BY Writers DEF RecordNotification
<1>2. QED
  BY <1>1 DEF Notified

\* A binding that was offered the alarm stays so.
LEMMA AlarmedStands ==
  ASSUME IndInv, [Next]_vars, NEW i \in Incidents, NEW s \in Subs, Alarmed(i, s)
  PROVE  Alarmed(i, s)'
BY ReachedStands, NotifiedStands, ConstantsAssumption DEF Alarmed, Spent

-----------------------------------------------------------------------------
StepOf(e) == Continue(e) \/ \E r \in Rules : Evaluate(e, r) \/ BeginEvalError(e, r)

LocalsStand(d) ==
  /\ pc'[d] = pc[d] /\ job'[d] = job[d] /\ ls'[d] = ls[d] /\ tr'[d] = tr[d]
  /\ dlv'[d] = dlv[d] /\ left'[d] = left[d]
  /\ todo'[d] = todo[d] /\ audit'[d] = audit[d]

\* An evaluator's step leaves the locals of the others alone.
LEMMA OthersStand ==
  ASSUME TypeOK, NEW e \in Evaluators, StepOf(e), NEW d \in Evaluators, d # e
  PROVE  LocalsStand(d)
<1> USE DEF TypeOK, LocalsStand, Goto
<1>1. ASSUME Return(e) PROVE LocalsStand(d)
  BY <1>1 DEF Return
<1>2. CASE \E r \in Rules : Evaluate(e, r) \/ BeginEvalError(e, r)
  BY <1>2 DEF Evaluate, BeginTick, BeginEvalError
<1>3. CASE LoadLiveState(e) \/ ReadFails(e) \/ SaveLiveState(e)
  <2>1. CASE LoadLiveState(e)
    BY <2>1 DEF LoadLiveState
  <2>2. CASE ReadFails(e)
    BY <1>1, <2>2 DEF ReadFails
  <2>3. CASE SaveLiveState(e)
    BY <1>1, <2>3 DEF SaveLiveState
  <2>4. QED
    BY <1>3, <2>1, <2>2, <2>3
<1>4. CASE RecordIncident(e) \/ EndTick(e) \/ LoadForError(e) \/ SaveForError(e)
  BY <1>1, <1>4 DEF RecordIncident, EndTick, LoadForError, SaveForError
<1>5. CASE ListSubscriptions(e) \/ OneShotGate(e) \/ GateFails(e)
  BY <1>5 DEF ListSubscriptions, OneShotGate, GateFails
<1>6. CASE \E s \in Subs : PassOver(e, s) \/ SubStateFails(e, s)
  BY <1>6 DEF PassOver, SubStateFails, Visit
<1>7. CASE \E s \in Subs, kind \in Kinds : StartDelivery(e, s, kind)
  BY <1>7 DEF StartDelivery, Visit
<1>8. CASE \E c \in Channels, ok \in BOOLEAN : Send(e, c, ok)
  BY <1>8 DEF Send
<1>9. CASE RecordNotification(e) \/ MarkNotified(e)
  BY <1>9 DEF RecordNotification, MarkNotified
<1>10. QED
  BY <1>2, <1>3, <1>4, <1>5, <1>6, <1>7, <1>8, <1>9 DEF StepOf, Continue

\* A firing state that was in its cycle stays in it, for a start never moves.
LEMMA InCycleStands ==
  ASSUME TypeOK, [Next]_vars, NEW l, InCycle(l), l.state = "firing"
  PROVE  l.incident \in Incidents /\ born'[l.incident] > 0 /\ l.triggeredAt = born'[l.incident]
BY BornStands DEF InCycle, Minted

\* A Tick whose ls, t and job stand keeps its cycle while it goes on.
LEMMA TickCycleStands ==
  ASSUME TypeOK, [Next]_vars, NEW d \in Evaluators, TickCycle(d),
         ls'[d] = ls[d], tr'[d] = tr[d], job'[d] = job[d],
         pc'[d] = pc[d] \/ pc'[d] = "idle" \/ (pc[d] \in AfterApply /\ pc'[d] \in AfterApply)
  PROVE  TickCycle(d)'
<1>1. InCycle(ls[d])'
  BY InCycleStands DEF InCycle, Minted, TickCycle
<1>2. tr[d].prev = "firing" /\ pc[d] \in AfterApply => Minted(tr[d].incident)'
  BY BornStands DEF TickCycle, Minted
<1>3. QED
  BY <1>1, <1>2 DEF TickCycle, AfterApply

\* A call that has returned carries no incident.
LEMMA TickCycleReturns ==
  ASSUME TypeOK, NEW e \in Evaluators, Return(e)
  PROVE  TickCycle(e)'
BY DEF TypeOK, Return, Goto, TickCycle, InCycle, OKState, AfterApply

\* Apply opens a cycle that starts with the id it mints, or keeps or ends the
\* one it finds.
LEMMA LoadKeepsCycle ==
  ASSUME IndInv, [Next]_vars, NEW e \in Evaluators, LoadLiveState(e)
  PROVE  TickCycle(e)'
<1> DEFINE row == live[job[e].rule]
           triggered == job[e].triggered
           now == job[e].now
<1>1. TypeOK /\ now > 0 /\ InCycle(row)
  BY DEF IndInv, CycleInv, TickCycle, LoadLiveState, TypeOK, Job
<1>2. PICK id \in (IF Opens(row, triggered) THEN Unminted ELSE {NoIncident}) :
        /\ born' = [i \in Incidents |-> IF i = id THEN now ELSE born[i]]
        /\ ls' = [ls EXCEPT ![e] = Applied(row, triggered, now, id)]
        /\ tr' = [tr EXCEPT ![e] = TransitionOf(row, triggered, now, id)]
  BY DEF LoadLiveState
<1>3. /\ ls'[e] = Applied(row, triggered, now, id)
      /\ tr'[e] = TransitionOf(row, triggered, now, id)
      /\ pc'[e] = "save"
  BY <1>1, <1>2 DEF LoadLiveState, Goto, TypeOK
<1>4. row \in LiveState
  BY <1>1 DEF TypeOK, Job
<1>5. CASE Opens(row, triggered)
  <2>1. id \in Incidents /\ id # NoIncident
    BY <1>2, <1>5, NoIncidentAssumption DEF Unminted
  <2>2. /\ ls'[e].state = "firing" /\ ls'[e].incident = id /\ ls'[e].triggeredAt = now
        /\ tr'[e].next = "firing" /\ tr'[e].incident = id /\ tr'[e].prev # "firing"
    BY <1>3, <1>5, <2>1 DEF Applied, TransitionOf, Opens, StateFor
  <2>3. born'[id] = now
    BY <1>2, <2>1
  <2>4. QED
    BY <1>1, <1>3, <2>1, <2>2, <2>3 DEF TickCycle, InCycle, Minted
<1>6. CASE ~Opens(row, triggered) /\ row.state = "firing"
  <2>1. row.incident \in Incidents /\ born'[row.incident] > 0
        /\ row.triggeredAt = born'[row.incident]
    BY <1>1, <1>6, InCycleStands
  <2>2. tr'[e].incident = row.incident
    <3>1. CASE triggered
      BY <1>3, <1>6, <3>1 DEF Applied, TransitionOf, Opens, Closes
    <3>2. CASE ~triggered
      BY <1>3, <1>6, <3>2 DEF Applied, TransitionOf, Opens, Closes
    <3>3. QED
      BY <3>1, <3>2
  <2>3. /\ tr'[e].next = ls'[e].state
        /\ ls'[e].state = "firing" => /\ ls'[e].incident = row.incident
                                      /\ ls'[e].triggeredAt = row.triggeredAt
    BY <1>3, <1>6 DEF Applied, TransitionOf, StateFor, Opens, Closes
  <2>4. QED
    BY <1>3, <2>1, <2>2, <2>3 DEF TickCycle, InCycle, Minted
<1>7. CASE ~Opens(row, triggered) /\ row.state # "firing"
  <2>1. tr'[e].next = "ok" /\ ls'[e].state = "ok" /\ tr'[e].prev # "firing"
    BY <1>3, <1>7 DEF Applied, TransitionOf, StateFor, Opens
  <2>2. QED
    BY <1>3, <2>1 DEF TickCycle, InCycle
<1>8. QED
  BY <1>5, <1>6, <1>7

\* Every step keeps rows and locals in the cycle of their incident.
LEMMA CycleStep ==
  ASSUME IndInv, [Next]_vars
  PROVE  CycleInv'
<1> USE DEF IndInv, CycleInv
<1>1. clock' > 0
  BY Writers DEF AdvanceClock, TypeOK
<1>2. ASSUME NEW r \in Rules
      PROVE  InCycle(live[r])'
  <2>1. live'[r] = live[r] \/ \E e \in Evaluators : live'[r] = ls[e]
    BY Writers DEF SaveLiveState, SaveForError, TypeOK
  <2>2. PICK l : l = live'[r] /\ InCycle(l)
    BY <2>1 DEF TickCycle
  <2>3. QED
    BY <2>2, InCycleStands DEF InCycle, Minted
<1>3. ASSUME NEW e \in Evaluators, StepOf(e)
      PROVE  TickCycle(e)'
  <2> USE DEF TypeOK, Goto, AfterApply
  <2>1. CASE Return(e)
    BY <2>1, TickCycleReturns
  <2>2. ASSUME NEW r \in Rules, NEW triggered \in BOOLEAN, BeginTick(e, r, triggered)
        PROVE  TickCycle(e)'
    BY <2>2, InCycleStands DEF BeginTick, TickCycle, InCycle, Minted
  <2>3. ASSUME NEW r \in Rules, BeginEvalError(e, r)
        PROVE  TickCycle(e)'
    BY <2>3, InCycleStands DEF BeginEvalError, TickCycle, InCycle, Minted
  <2>4. CASE LoadLiveState(e)
    BY <2>4, LoadKeepsCycle
  <2>5. CASE SaveLiveState(e) \/ RecordIncident(e)
    BY <2>1, <2>5, TickCycleStands DEF SaveLiveState, RecordIncident
  <2>6. CASE ListSubscriptions(e) \/ OneShotGate(e) \/ GateFails(e) \/ RecordNotification(e)
             \/ MarkNotified(e)
    BY <2>6, TickCycleStands DEF ListSubscriptions, OneShotGate, GateFails, RecordNotification,
                                 MarkNotified
  <2>7. CASE \E s \in Subs : PassOver(e, s) \/ SubStateFails(e, s)
    BY <2>7, TickCycleStands DEF PassOver, SubStateFails
  <2>8. CASE \E s \in Subs, kind \in Kinds : StartDelivery(e, s, kind)
    BY <2>8, TickCycleStands DEF StartDelivery, Visit
  <2>9. CASE \E c \in Channels, ok \in BOOLEAN : Send(e, c, ok)
    BY <2>9, TickCycleStands DEF Send
  <2>10. CASE LoadForError(e)
    <3>1. InCycle(live[job[e].rule]) /\ InCycle(OKState)
      BY DEF Job, InCycle, OKState
    <3>2. PICK l : ls'[e] = l /\ InCycle(l)
      BY <2>10, <3>1 DEF LoadForError
    <3>3. InCycle(ls[e])'
      BY <3>2, InCycleStands DEF InCycle, Minted
    <3>4. pc'[e] = "errsave"
      BY <2>10 DEF LoadForError
    <3>5. QED
      BY <3>3, <3>4 DEF TickCycle
  <2>11. CASE ReadFails(e) \/ EndTick(e) \/ SaveForError(e)
    BY <2>1, <2>11 DEF ReadFails, EndTick, SaveForError
  <2>12. QED
    BY <1>3, <2>2, <2>3, <2>4, <2>5, <2>6, <2>7, <2>8, <2>9, <2>10, <2>11
       DEF StepOf, Evaluate, Continue
<1>4. ASSUME NEW e \in Evaluators, StepOf(e), NEW d \in Evaluators
      PROVE  TickCycle(d)'
  BY <1>3, <1>4, OthersStand, TickCycleStands DEF LocalsStand
<1>5. CASE Crash
  BY <1>1, <1>2, <1>5 DEF Crash, TickCycle, InCycle, OKState, AfterApply
<1>6. CASE AdvanceClock \/ UNCHANGED vars
  BY <1>1, <1>2, <1>6, TickCycleStands DEF AdvanceClock, vars, locals
<1>7. QED
  BY <1>1, <1>2, <1>4, <1>5, <1>6 DEF Next, StepOf

-----------------------------------------------------------------------------
\* A delivery whose locals stand goes on under the same terms.
LEMMA TickDeliveryStands ==
  ASSUME IndInv, [Next]_vars, NEW d \in Evaluators, LocalsStand(d)
  PROVE  TickDelivery(d)'
<1>1. TypeOK /\ TickDelivery(d)
  BY DEF IndInv, DeliveryInv
<1>2. PICK i, s : i = tr[d].incident /\ s = dlv[d].sub
  OBVIOUS
<1>3. s \in Subs
  BY <1>1, <1>2 DEF TypeOK, Delivery
<1>4. /\ tr'[d].incident = i /\ dlv'[d].sub = s /\ dlv'[d].kind = dlv[d].kind
      /\ pc'[d] = pc[d] /\ left'[d] = left[d] /\ job'[d].now = job[d].now
  BY <1>2 DEF LocalsStand
<1>5. CASE pc[d] \notin Delivering
  BY <1>4, <1>5 DEF TickDelivery, Delivering
<1>6. CASE pc[d] \in Delivering
  <2>1. Minted(i) /\ Minted(i)' /\ born'[i] = born[i] /\ i \in Incidents
    BY <1>1, <1>2, <1>6, BornStands DEF TickDelivery, Minted
  <2>2. Spent(s) => Spent(s)'
    BY NotifiedStands DEF Spent
  <2>3. Alarmed(i, s) => Alarmed(i, s)'
    BY <1>3, <2>1, AlarmedStands
  <2>4. \A c \in Targets[s] : Reached(i, s, c) => Reached(i, s, c)'
    BY <1>3, <2>1, ReachedStands, ConstantsAssumption
  <2>5. /\ Minted(tr[d].incident)'
        /\ (dlv[d].kind # "resolved" => job[d].now >= born[tr[d].incident] + Dwell[dlv[d].sub])'
    BY <1>1, <1>2, <1>4, <1>6, <2>1 DEF TickDelivery, Minted
  <2>6. (pc[d] = "gate" /\ dlv[d].kind # "firing" => Alarmed(tr[d].incident, dlv[d].sub))'
    BY <1>1, <1>2, <1>4, <2>3 DEF TickDelivery, Alarmed, Spent, Reached, Notified
  <2>7. (pc[d] \in {"send", "record"} =>
          /\ left[d] \subseteq Targets[dlv[d].sub]
          /\ dlv[d].kind # "firing" => \A c \in left[d] : Reached(tr[d].incident, dlv[d].sub, c)
          /\ \/ Spent(dlv[d].sub)
             \/ \A c \in Targets[dlv[d].sub] \ left[d] : Reached(tr[d].incident, dlv[d].sub, c))'
    BY <1>1, <1>2, <1>4, <2>2, <2>4 DEF TickDelivery, Spent, Reached, Notified
  <2>8. QED
    BY <2>5, <2>6, <2>7 DEF TickDelivery, Delivering
<1>7. QED
  BY <1>5, <1>6

\* A Tick outside deliver promises nothing about one.
LEMMA TickDeliveryIdle ==
  ASSUME NEW d, pc'[d] \notin Delivering
  PROVE  TickDelivery(d)'
BY DEF TickDelivery, Delivering

\* A delivery starts for an incident under way: an alarm or a repeat after
\* the dwell, a repeat or a resolution where the alarm has been.
LEMMA StartKeepsDelivery ==
  ASSUME IndInv, [Next]_vars, NEW e \in Evaluators, NEW s \in Subs, NEW kind \in Kinds,
         StartDelivery(e, s, kind)
  PROVE  TickDelivery(e)'
<1>1. TypeOK /\ CycleInv /\ pc[e] = "each" /\ TickCycle(e)
  BY DEF IndInv, CycleInv, StartDelivery, Visit
<1>2. PICK i : i = tr[e].incident
  OBVIOUS
<1>3. IsDue(e, s, SubStateOf(e, s), kind)
  BY DEF StartDelivery
<1>4. ReadsSubState(e, s) /\ Minted(i)
  BY <1>1, <1>2, <1>3, SubStateType DEF IsDue, ReadsSubState
<1>5. Minted(i)' /\ born'[i] = born[i] /\ i \in Incidents
  BY <1>1, <1>4, BornStands DEF Minted
<1>6. kind # "resolved" => job[e].now >= born[i] + Dwell[s]
  BY <1>1, <1>2, <1>3 DEF IsDue, FiringPath, TickCycle, InCycle, AfterApply
<1>7. kind # "firing" => Alarmed(i, s)
  <2>1. kind # "firing" => subStates[i][s].count > 0
    BY <1>2, <1>3, <1>4 DEF IsDue, SubStateOf
  <2>2. QED
    BY <1>5, <2>1 DEF IndInv, DeliveryInv, CountMeansAlarmed
<1>8. kind # "firing" => Alarmed(i, s)'
  BY <1>5, <1>7, AlarmedStands
<1>9. /\ pc'[e] = "gate" /\ tr'[e].incident = i /\ job'[e].now = job[e].now
      /\ dlv'[e].sub = s /\ dlv'[e].kind = kind
  BY <1>1, <1>2 DEF StartDelivery, Goto, TypeOK
<1>10. QED
  BY <1>5, <1>6, <1>8, <1>9 DEF TickDelivery, Minted, Delivering, Alarmed, Spent, Reached, Notified

\* Behind the gate, either nothing is left to send or every binding is.
LEMMA GateKeepsDelivery ==
  ASSUME IndInv, [Next]_vars, NEW e \in Evaluators, OneShotGate(e)
  PROVE  TickDelivery(e)'
<1>1. TypeOK /\ pc[e] = "gate" /\ TickDelivery(e)
  BY DEF IndInv, DeliveryInv, OneShotGate
<1>2. PICK i, s, n : i = tr[e].incident /\ s = dlv[e].sub /\ n = left'[e]
  OBVIOUS
<1>3. /\ Minted(i)
      /\ dlv[e].kind # "resolved" => job[e].now >= born[i] + Dwell[s]
      /\ dlv[e].kind # "firing" => Alarmed(i, s)
  BY <1>1, <1>2 DEF TickDelivery, Delivering
<1>4. n = (IF Spent(s) THEN {} ELSE Targets[s])
  BY <1>1, <1>2 DEF OneShotGate, Spent, TypeOK
<1>5. /\ pc'[e] = "send" /\ tr'[e].incident = i /\ job'[e].now = job[e].now
      /\ dlv'[e].sub = s /\ dlv'[e].kind = dlv[e].kind /\ left'[e] = n
      /\ feed' = feed /\ notifications' = notifications /\ born' = born
  BY <1>1, <1>2 DEF OneShotGate, Goto, TypeOK, tables
<1>6. QED
  BY <1>3, <1>4, <1>5 DEF TickDelivery, Minted, Delivering, Alarmed, Spent, Reached, Notified

\* A send moves a binding from those left to those reached.
LEMMA SendKeepsDelivery ==
  ASSUME IndInv, [Next]_vars, NEW e \in Evaluators, NEW d \in Channels, NEW ok \in BOOLEAN,
         Send(e, d, ok)
  PROVE  TickDelivery(e)'
<1>1. TypeOK /\ pc[e] = "send" /\ TickDelivery(e) /\ d \in left[e]
  BY DEF IndInv, DeliveryInv, Send
<1>2. PICK i, s, n : i = tr[e].incident /\ s = dlv[e].sub /\ n = left[e]
  OBVIOUS
<1>3. /\ Minted(i) /\ i \in Incidents /\ s \in Subs /\ n \subseteq Targets[s]
      /\ dlv[e].kind # "resolved" => job[e].now >= born[i] + Dwell[s]
      /\ dlv[e].kind # "firing" => \A c \in n : Reached(i, s, c)
      /\ Spent(s) \/ \A c \in Targets[s] \ n : Reached(i, s, c)
  BY <1>1, <1>2 DEF TickDelivery, Delivering, Minted, TypeOK, Delivery
<1>4. /\ pc'[e] = "record" /\ tr'[e].incident = i /\ job'[e].now = job[e].now
      /\ dlv'[e].sub = s /\ dlv'[e].kind = dlv[e].kind /\ left'[e] = n \ {d}
      /\ notifications' = notifications /\ born' = born
  BY <1>1, <1>2 DEF Send, Goto, TypeOK, tables
<1>5. \A c \in Targets[s] : Reached(i, s, c) => Reached(i, s, c)'
  BY <1>3, ReachedStands, ConstantsAssumption
<1>6. Reached(i, s, d)'
  <2>1. /\ Outgoing(e, ok) \in Message
        /\ feed[i][s][d] \in Seq(Message)
        /\ feed'[i][s][d] = IF i = tr[e].incident /\ s = dlv[e].sub /\ d = d
                            THEN Append(feed[i][s][d], Outgoing(e, ok)) ELSE feed[i][s][d]
    BY <1>3, SendAppends
  <2>2. feed'[i][s][d] = Append(feed[i][s][d], Outgoing(e, ok))
    BY <1>2, <2>1
  <2>3. QED
    BY <2>1, <2>2 DEF Reached
<1>7. QED
  BY <1>3, <1>4, <1>5, <1>6 DEF TickDelivery, Minted, Delivering, Spent, Reached, Notified

\* Recording a notification keeps the delivery's facts.
LEMMA RecordKeepsDelivery ==
  ASSUME IndInv, [Next]_vars, NEW e \in Evaluators, RecordNotification(e)
  PROVE  TickDelivery(e)'
<1>1. TypeOK /\ pc[e] = "record" /\ TickDelivery(e)
  BY DEF IndInv, DeliveryInv, RecordNotification
<1>2. PICK i, s, n : i = tr[e].incident /\ s = dlv[e].sub /\ n = left[e]
  OBVIOUS
<1>3. /\ Minted(i) /\ n \subseteq Targets[s]
      /\ dlv[e].kind # "resolved" => job[e].now >= born[i] + Dwell[s]
      /\ dlv[e].kind # "firing" => \A c \in n : Reached(i, s, c)
      /\ Spent(s) \/ \A c \in Targets[s] \ n : Reached(i, s, c)
  BY <1>1, <1>2 DEF TickDelivery, Delivering
<1>4. Spent(s) => Spent(s)'
  BY NotifiedStands DEF Spent
<1>5. /\ pc'[e] = "send" /\ tr'[e].incident = i /\ job'[e].now = job[e].now
      /\ dlv'[e].sub = s /\ dlv'[e].kind = dlv[e].kind /\ left'[e] = n
      /\ feed' = feed /\ born' = born
  BY <1>1, <1>2 DEF RecordNotification, Goto, TypeOK
<1>6. QED
  BY <1>3, <1>4, <1>5 DEF TickDelivery, Minted, Delivering, Spent, Reached, Notified

\* An incident nobody minted has sent nothing.
LEMMA UnmintedStep ==
  ASSUME IndInv, [Next]_vars
  PROVE  UnmintedIsUnused'
<1> SUFFICES ASSUME NEW i \in Incidents, born'[i] = 0, NEW s \in Subs, NEW c \in Channels
             PROVE  feed'[i][s][c] = <<>>
  BY DEF UnmintedIsUnused, Reached
<1>1. TypeOK /\ UnmintedIsUnused
  BY DEF IndInv, DeliveryInv
<1>2. ~Minted(i)
  BY <1>1, BornStands DEF Minted
<1>3. feed[i][s][c] = <<>>
  BY <1>1, <1>2 DEF UnmintedIsUnused, Reached, Minted, TypeOK
<1>4. ASSUME NEW e \in Evaluators, NEW d \in Channels, NEW ok \in BOOLEAN, Send(e, d, ok)
      PROVE  feed'[i][s][c] = feed[i][s][c]
  <2>1. i # tr[e].incident
    BY <1>2, <1>4 DEF Send, IndInv, DeliveryInv, TickDelivery, Delivering
  <2>2. feed'[i][s][c] = IF i = tr[e].incident /\ s = dlv[e].sub /\ c = d
                         THEN Append(feed[i][s][c], Outgoing(e, ok)) ELSE feed[i][s][c]
    BY <1>4, SendAppends
  <2>3. QED
    BY <2>1, <2>2
<1>5. QED
  BY <1>3, <1>4, Writers

\* NotifyCount is only stored once the delivery has been through its bindings.
LEMMA CountStep ==
  ASSUME IndInv, [Next]_vars
  PROVE  CountMeansAlarmed'
<1> SUFFICES ASSUME NEW i \in Incidents, NEW s \in Subs, subStates'[i][s].count > 0
             PROVE  Alarmed(i, s)'
  BY DEF CountMeansAlarmed
<1>1. TypeOK /\ CountMeansAlarmed
  BY DEF IndInv, DeliveryInv
<1>2. CASE subStates'[i][s] = subStates[i][s]
  BY <1>1, <1>2, AlarmedStands DEF CountMeansAlarmed
<1>3. CASE subStates'[i][s] # subStates[i][s]
  <2>1. PICK e \in Evaluators : MarkNotified(e)
    BY <1>3, Writers
  <2>2. \/ subStates' = subStates
        \/ subStates' = [subStates EXCEPT ![tr[e].incident][dlv[e].sub] = Marked(e)]
    BY <2>1 DEF MarkNotified
  <2>3. i = tr[e].incident /\ s = dlv[e].sub
    <3>1. subStates \in [Incidents -> [Subs -> SubState]]
      BY <1>1 DEF TypeOK
    <3>2. QED
      BY <1>3, <2>2, <3>1
  <2>4. pc[e] = "send" /\ left[e] = {}
    BY <2>1 DEF MarkNotified
  <2>5. Spent(s) \/ \A c \in Targets[s] : Reached(i, s, c)
    BY <2>3, <2>4 DEF IndInv, DeliveryInv, TickDelivery
  <2>6. QED
    BY <2>5, AlarmedStands DEF Alarmed
<1>4. QED
  BY <1>2, <1>3

\* Every step keeps what deliveries and counts mean.
LEMMA DeliveryStep ==
  ASSUME IndInv, [Next]_vars
  PROVE  DeliveryInv'
<1>1. TypeOK
  BY DEF IndInv
<1>2. ASSUME NEW e \in Evaluators, StepOf(e)
      PROVE  TickDelivery(e)'
  <2> USE <1>1 DEF TypeOK, Goto, Delivering
  <2>1. CASE Return(e)
    BY <2>1, TickDeliveryIdle DEF Return
  <2>2. CASE \E r \in Rules : Evaluate(e, r) \/ BeginEvalError(e, r)
    BY <2>2, TickDeliveryIdle DEF Evaluate, BeginTick, BeginEvalError
  <2>3. CASE LoadLiveState(e) \/ LoadForError(e)
    BY <2>3, TickDeliveryIdle DEF LoadLiveState, LoadForError
  <2>4. CASE SaveLiveState(e) \/ RecordIncident(e)
    BY <2>1, <2>4, TickDeliveryIdle DEF SaveLiveState, RecordIncident
  <2>5. CASE ListSubscriptions(e) \/ GateFails(e) \/ MarkNotified(e)
    BY <2>5, TickDeliveryIdle DEF ListSubscriptions, GateFails, MarkNotified
  <2>6. ASSUME NEW s \in Subs, PassOver(e, s) \/ SubStateFails(e, s)
        PROVE  TickDelivery(e)'
    <3>1. pc'[e] = "each"
      BY <2>6 DEF PassOver, SubStateFails, Visit
    <3>2. QED
      BY <3>1, TickDeliveryIdle
  <2>7. CASE \E s \in Subs, kind \in Kinds : StartDelivery(e, s, kind)
    BY <2>7, StartKeepsDelivery
  <2>8. CASE OneShotGate(e)
    BY <2>8, GateKeepsDelivery
  <2>9. CASE \E c \in Channels, ok \in BOOLEAN : Send(e, c, ok)
    BY <2>9, SendKeepsDelivery
  <2>10. CASE RecordNotification(e)
    BY <2>10, RecordKeepsDelivery
  <2>11. CASE ReadFails(e) \/ EndTick(e) \/ SaveForError(e)
    BY <2>1, <2>11 DEF ReadFails, EndTick, SaveForError
  <2>12. QED
    BY <1>2, <2>2, <2>3, <2>4, <2>5, <2>6, <2>7, <2>8, <2>9, <2>10, <2>11 DEF StepOf, Continue
<1>3. ASSUME NEW e \in Evaluators, StepOf(e), NEW d \in Evaluators
      PROVE  TickDelivery(d)'
  BY <1>1, <1>2, <1>3, OthersStand, TickDeliveryStands
<1>4. CASE Crash
  BY <1>4, TickDeliveryIdle, UnmintedStep, CountStep DEF Crash, DeliveryInv, Delivering
<1>5. CASE AdvanceClock \/ UNCHANGED vars
  BY <1>5, TickDeliveryStands, UnmintedStep, CountStep DEF AdvanceClock, vars, locals, LocalsStand,
     DeliveryInv
<1>6. QED
  BY <1>3, <1>4, <1>5, UnmintedStep, CountStep DEF Next, StepOf, DeliveryInv

-----------------------------------------------------------------------------
\* An appended message is the last, and moves no other.
LEMMA AppendFacts ==
  ASSUME NEW M, NEW f \in Seq(M), NEW m \in M
  PROVE  /\ DOMAIN Append(f, m) = DOMAIN f \cup {Len(f) + 1}
         /\ Append(f, m)[Len(f) + 1] = m
         /\ \A k \in DOMAIN f : Append(f, m)[k] = f[k]
  OBVIOUS

\* A new alarm or repeat is not before the dwell, and starts do not move.
LEMMA DwellStep ==
  ASSUME IndInv, [Next]_vars
  PROVE  DwellRespected'
<1> SUFFICES ASSUME NEW i \in Incidents, NEW s \in Subs, NEW c \in Channels,
                    NEW n \in DOMAIN feed'[i][s][c], feed'[i][s][c][n].kind # "resolved"
             PROVE  feed'[i][s][c][n].at >= born'[i] + Dwell[s]
  BY DEF DwellRespected
<1>1. TypeOK /\ DwellRespected
  BY DEF IndInv
<1>2. ASSUME n \in DOMAIN feed[i][s][c], feed'[i][s][c][n] = feed[i][s][c][n]
      PROVE  feed'[i][s][c][n].at >= born'[i] + Dwell[s]
  <2>1. feed[i][s][c] # <<>>
    BY <1>1, <1>2 DEF TypeOK
  <2>2. Minted(i)
    BY <1>1, <2>1 DEF IndInv, DeliveryInv, UnmintedIsUnused, Reached, Minted, TypeOK
  <2>3. QED
    BY <1>1, <1>2, <2>2, BornStands DEF DwellRespected
<1>3. CASE feed' = feed
  BY <1>2, <1>3
<1>4. ASSUME NEW e \in Evaluators, NEW d \in Channels, NEW ok \in BOOLEAN, Send(e, d, ok)
      PROVE  feed'[i][s][c][n].at >= born'[i] + Dwell[s]
  <2>1. /\ Outgoing(e, ok) \in Message
        /\ feed[i][s][c] \in Seq(Message)
        /\ feed'[i][s][c] = IF i = tr[e].incident /\ s = dlv[e].sub /\ c = d
                            THEN Append(feed[i][s][c], Outgoing(e, ok)) ELSE feed[i][s][c]
    BY <1>4, SendAppends
  <2>2. CASE n \in DOMAIN feed[i][s][c]
    BY <1>2, <2>1, <2>2
  <2>3. CASE n \notin DOMAIN feed[i][s][c]
    <3>1. /\ i = tr[e].incident /\ s = dlv[e].sub
          /\ feed'[i][s][c] = Append(feed[i][s][c], Outgoing(e, ok))
      BY <2>1, <2>3
    <3>2. feed'[i][s][c][n] = Outgoing(e, ok)
      <4>1. /\ DOMAIN feed'[i][s][c] = DOMAIN feed[i][s][c] \cup {Len(feed[i][s][c]) + 1}
            /\ feed'[i][s][c][Len(feed[i][s][c]) + 1] = Outgoing(e, ok)
        <5>1. /\ DOMAIN Append(feed[i][s][c], Outgoing(e, ok))
                   = DOMAIN feed[i][s][c] \cup {Len(feed[i][s][c]) + 1}
              /\ Append(feed[i][s][c], Outgoing(e, ok))[Len(feed[i][s][c]) + 1]
                   = Outgoing(e, ok)
          BY <2>1, AppendFacts
        <5>2. QED
          BY <3>1, <5>1, Zenon
      <4>2. n = Len(feed[i][s][c]) + 1
        BY <2>3, <4>1
      <4>3. QED
        BY <4>1, <4>2
    <3>3. dlv[e].kind # "resolved" /\ feed'[i][s][c][n].at = job[e].now
      BY <3>2 DEF Outgoing
    <3>4. Minted(i) /\ job[e].now >= born[i] + Dwell[s]
      BY <1>4, <3>1, <3>3 DEF Send, IndInv, DeliveryInv, TickDelivery, Delivering
    <3>5. QED
      BY <1>1, <3>3, <3>4, BornStands
  <2>4. QED
    BY <2>2, <2>3
<1>5. QED
  BY <1>3, <1>4, Writers

\* Only a firing message goes to a channel that has had none.
LEMMA FiringFirstStep ==
  ASSUME IndInv, [Next]_vars
  PROVE  FeedsStartWithFiring'
<1> SUFFICES ASSUME NEW i \in Incidents, NEW s \in Subs, NEW c \in Channels,
                    feed'[i][s][c] # <<>>
             PROVE  feed'[i][s][c][1].kind = "firing"
  BY DEF FeedsStartWithFiring
<1>1. FeedsStartWithFiring
  BY DEF IndInv
<1>2. CASE feed' = feed
  BY <1>1, <1>2 DEF FeedsStartWithFiring
<1>3. ASSUME NEW e \in Evaluators, NEW d \in Channels, NEW ok \in BOOLEAN, Send(e, d, ok)
      PROVE  feed'[i][s][c][1].kind = "firing"
  <2>1. /\ Outgoing(e, ok) \in Message
        /\ feed[i][s][c] \in Seq(Message)
        /\ feed'[i][s][c] = IF i = tr[e].incident /\ s = dlv[e].sub /\ c = d
                            THEN Append(feed[i][s][c], Outgoing(e, ok)) ELSE feed[i][s][c]
    BY <1>3, SendAppends
  <2>2. CASE feed[i][s][c] # <<>>
    <3>1. feed[i][s][c][1].kind = "firing"
      BY <1>1, <2>2 DEF FeedsStartWithFiring
    <3>2. feed'[i][s][c][1] = feed[i][s][c][1]
      BY <2>1, <2>2
    <3>3. QED
      BY <3>1, <3>2
  <2>3. CASE feed[i][s][c] = <<>>
    <3>1. /\ i = tr[e].incident /\ s = dlv[e].sub /\ c = d
          /\ feed'[i][s][c] = Append(<<>>, Outgoing(e, ok))
      BY <2>1, <2>3
    <3>2. feed'[i][s][c][1] = Outgoing(e, ok)
      <4>1. <<>> \in Seq(Message) /\ Len(<<>>) + 1 = 1
        OBVIOUS
      <4>2. Append(<<>>, Outgoing(e, ok))[1] = Outgoing(e, ok)
        BY <2>1, <4>1, AppendFacts
      <4>3. QED
        BY <3>1, <4>2
    <3>3. dlv[e].kind = "firing"
      BY <1>3, <2>3, <3>1 DEF Send, IndInv, DeliveryInv, TickDelivery, Reached
    <3>4. QED
      BY <3>2, <3>3 DEF Outgoing
  <2>4. QED
    BY <2>2, <2>3
<1>4. QED
  BY <1>2, <1>3, Writers

-----------------------------------------------------------------------------
\* The tables, the locals of every evaluator and the feeds mean what
\* DispatcherInvariant says, for any evaluators, rules and subscriptions and
\* through any faults of the store and restarts.
THEOREM InvariantHolds == Spec => []IndInv
<1>1. Init => IndInv
  BY InitInvariant
<1>2. IndInv /\ [Next]_vars => IndInv'
  BY TypeStep, CycleStep, DeliveryStep, DwellStep, FiringFirstStep DEF IndInv
<1>3. QED
  BY <1>1, <1>2, PTL DEF Spec

\* Every variable of the dispatcher keeps its type.
THEOREM TypeCorrect == Spec => []TypeOK
BY InvariantHolds, PTL DEF IndInv

\* No alarm or repeat is sent before the incident has lasted the dwell
\* (evaluateSubscription), however many evaluators share the rule.
THEOREM DwellCorrect == Spec => []DwellRespected
BY InvariantHolds, PTL DEF IndInv

\* No channel hears of a repeat or a resolution of an incident before it was
\* offered the alarm (evaluateSubscription and deliver).
THEOREM FiringFirst == Spec => []FeedsStartWithFiring
BY InvariantHolds, PTL DEF IndInv
=============================================================================
