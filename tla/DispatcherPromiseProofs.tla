----------------------- MODULE DispatcherPromiseProofs -----------------------
(***************************************************************************)
(* What the dispatcher keeps of its promises, for all values of the        *)
(* constants.  Without faults, and with one evaluator for each rule, it    *)
(* implements AlertFeed.  With faults, each of them costs a one-shot       *)
(* subscription at most one message too many, and the two tables of a      *)
(* rule's state at most one incident about which they disagree.            *)
(***************************************************************************)
EXTENDS DispatcherOwnerProofs, DispatcherClaims

FaultFree == faults = 0

\* Where no fault is allowed, none is charged.
LEMMA NoFaults == ASSUME MaxFaults = 0 PROVE Spec => []FaultFree
<1>1. Init => FaultFree
  BY DEF Init, FaultFree
<1>2. IndInv /\ FaultFree /\ [Next]_vars => FaultFree'
  <2> SUFFICES ASSUME IndInv, FaultFree, [Next]_vars PROVE FaultFree'
    OBVIOUS
  <2>1. TypeOK
    BY DEF IndInv
  <2>2. faults' = faults \/ faults < MaxFaults
    BY <2>1, FaultsGrow
  <2>3. QED
    BY <2>2 DEF FaultFree
<1>3. QED
  BY <1>1, <1>2, InvariantHolds, PTL DEF Spec

\* The first states of the two are the same.
LEMMA PromiseInit == Init => Promise!FeedInit
BY DEF Init, Promise!FeedInit

\* An id minted is an incident begun, at the time of the call.
LEMMA LoadBegins ==
  ASSUME IndInv, TimesInOrder, NEW e \in Evaluators, LoadLiveState(e)
  PROVE  (\E i \in Incidents : Promise!Begin(i)) \/ UNCHANGED Promise!feedVars
<1>1. TypeOK /\ job[e].now > 0 /\ job[e].now <= clock
  BY DEF IndInv, CycleInv, TickCycle, TimesInOrder, LoadLiveState
<1>2. job[e].now \in Nat /\ clock \in Nat /\ born \in [Incidents -> Nat]
  BY <1>1 DEF TypeOK, Job
<1>3. PICK now \in 1..clock : now = job[e].now
  BY <1>1, <1>2
<1>4. UNCHANGED <<clock, feed>>
  BY DEF LoadLiveState
<1>5. PICK id \in Unminted \cup {NoIncident} :
        born' = [i \in Incidents |-> IF i = id THEN now ELSE born[i]]
  BY <1>3 DEF LoadLiveState
<1>6. CASE id \in Unminted
  <2>1. id \in Incidents /\ born[id] = 0 /\ born' = [born EXCEPT ![id] = now]
    BY <1>2, <1>5, <1>6 DEF Unminted
  <2>2. QED
    BY <1>4, <2>1 DEF Promise!Begin
<1>7. CASE id = NoIncident
  <2>1. born' = born
    BY <1>2, <1>5, <1>7, NoIncidentAssumption
  <2>2. QED
    BY <1>4, <2>1 DEF Promise!feedVars
<1>8. QED
  BY <1>5, <1>6, <1>7

\* The last message of a binding: what the rest of the proof reads of it.
LEMMA LastMessage ==
  ASSUME TypeOK, NEW i \in Incidents, NEW s \in Subs, NEW c \in Channels,
         feed[i][s][c] # <<>>
  PROVE  /\ Len(feed[i][s][c]) \in DOMAIN feed[i][s][c]
         /\ Len(feed[i][s][c]) \in Nat /\ Len(feed[i][s][c]) > 0
         /\ feed[i][s][c][Len(feed[i][s][c])] \in Message
         /\ feed[i][s][c][Len(feed[i][s][c])].at \in Nat
<1>1. feed[i][s][c] \in Seq(Message)
  BY DEF TypeOK
<1>2. Len(feed[i][s][c]) \in DOMAIN feed[i][s][c] /\ Len(feed[i][s][c]) \in Nat
      /\ Len(feed[i][s][c]) > 0
  BY <1>1
<1>3. feed[i][s][c][Len(feed[i][s][c])] \in Message
  BY <1>1, <1>2
<1>4. QED
  BY <1>2, <1>3 DEF Message

\* The messages that came too soon are those the tolerant feed counts.
LEMMA EarlyIsTooSoon ==
  ASSUME NEW i \in Incidents, NEW s \in Subs, NEW c \in Channels
  PROVE  /\ Tolerance!Early(feed[i][s][c], s) = TooSoon(i, s, c)
         /\ Tolerance!Cardinality(Tolerance!Early(feed[i][s][c], s))
              = Cardinality(TooSoon(i, s, c))
<1>1. Tolerance!Early(feed[i][s][c], s) = TooSoon(i, s, c)
  BY DEF Tolerance!Early, TooSoon
<1>2. \A S : Tolerance!Cardinality(S) = Cardinality(S)
  BY Zenon DEF Tolerance!Cardinality, Cardinality
<1>3. QED
  BY <1>1, <1>2

\* A message Tick sends is one the abstract feed allows next, or one again for
\* a fault that was not charged yet.
LEMMA SendImplements ==
  ASSUME IndInv, OwnerInv, TimesInOrder, PaceInv, OneEvaluatorPerRule,
         NEW e \in Evaluators, NEW c \in Channels, NEW ok \in BOOLEAN, Send(e, c, ok)
  PROVE  \E i \in Incidents, s \in Subs :
           \/ Promise!Alarm(i, s, c) \/ Promise!Remind(i, s, c) \/ Promise!AllClear(i, s, c)
           \/ Tolerance!Again(i, s, c) /\ faults > 0
<1>1. TypeOK /\ pc[e] = "send" /\ c \in left[e] /\ UNCHANGED <<clock, born>>
  BY DEF IndInv, Send
<1>2. TickDelivery(e) /\ DeliveryInOrder(e)
  BY DEF IndInv, DeliveryInv, OwnerInv
<1>3. PICK i \in Incidents, s \in Subs : i = tr[e].incident /\ s = dlv[e].sub
  <2>1. dlv[e].sub \in Subs
    BY <1>1 DEF TypeOK, Delivery
  <2>2. tr[e].incident \in Incidents
    BY <1>1, <1>2 DEF TickDelivery, Delivering, Minted
  <2>3. QED
    BY <2>1, <2>2
<1>4. PICK f \in Seq(Message), m \in Message :
        /\ f = feed[i][s][c] /\ m = Outgoing(e, ok)
        /\ feed'[i][s][c] = Append(feed[i][s][c], Outgoing(e, ok))
        /\ feed' = [feed EXCEPT ![i][s][c] = Append(feed[i][s][c], m)]
        /\ feed'[i][s][c] = Append(f, m)
  <2>1. /\ Outgoing(e, ok) \in Message /\ feed[i][s][c] \in Seq(Message)
        /\ feed'[i][s][c] = IF i = tr[e].incident /\ s = dlv[e].sub /\ c = c
                            THEN Append(feed[i][s][c], Outgoing(e, ok)) ELSE feed[i][s][c]
    BY SendAppends
  <2>2. feed' = [feed EXCEPT ![i][s][c] = Append(feed[i][s][c], Outgoing(e, ok))]
    BY <1>3 DEF Send
  <2>3. QED
    BY <1>3, <2>1, <2>2
<1>5. m = [kind |-> m.kind, at |-> m.at, ok |-> ok]
      /\ m.kind = dlv[e].kind /\ m.at = job[e].now /\ m.kind \in Kinds /\ m.at \in Nat
  BY <1>4 DEF Outgoing, Message
<1>6. m.at <= clock /\ clock \in Nat /\ born[i] \in Nat /\ Dwell[s] \in Nat /\ Repeat[s] \in Nat
  BY <1>1, <1>5, ConstantsAssumption DEF TimesInOrder, TypeOK
<1>7. born[i] > 0 /\ (m.kind # "resolved" => m.at >= born[i] + Dwell[s])
  BY <1>1, <1>2, <1>3, <1>5 DEF TickDelivery, Delivering, Minted
<1>8. Len(f) + 1 \in TooSoon(i, s, c)' => Cardinality(TooSoon(i, s, c)) < faults
  <2>1. /\ tr[e].incident = i /\ dlv[e].sub = s /\ Outgoing(e, ok) \in Message
        /\ feed'[i][s][c] = Append(feed[i][s][c], Outgoing(e, ok))
    BY <1>3, <1>4
  <2>2. Len(feed[i][s][c]) + 1 \in TooSoon(i, s, c)' => Cardinality(TooSoon(i, s, c)) < faults
    BY <2>1, EarlyIsPaid
  <2>3. QED
    BY <1>4, <2>2
<1>9. Len(f) + 1 \in DOMAIN Append(f, m) /\ Append(f, m)[Len(f) + 1] = m
      /\ Len(Append(f, m)) = Len(f) + 1 /\ Len(f) \in Nat
      /\ \A k \in 1..Len(f) : Append(f, m)[k] = f[k]
  BY <1>4
<1>10. ASSUME f # <<>>
       PROVE  /\ Promise!Last(f) \in Message /\ Promise!Last(f).at \in Nat
              /\ Promise!Last(f).kind # "resolved"
              /\ Promise!Last(f).at <= m.at /\ Promise!Last(f).at >= 1
  <2>1. Len(f) \in DOMAIN f /\ Promise!Last(f) = f[Len(f)] /\ f[Len(f)] \in Message
        /\ f[Len(f)].at \in Nat
    BY <1>1, <1>4, <1>10, LastMessage DEF Promise!Last
  <2>2. ~Ended(i, s, c)
    BY <1>1, <1>3 DEF OwnerInv, EndedIsOver, TellerIsDone
  <2>3. f[Len(f)].kind # "resolved"
    BY <1>4, <2>1, <2>2 DEF Ended
  <2>4. f[Len(f)].at <= m.at
    BY <1>3, <1>4, <1>5, <2>1 DEF TimesInOrder, NotAfter
  <2>5. f[Len(f)].at >= born[i] + Dwell[s]
    BY <1>4, <2>1, <2>3 DEF IndInv, DwellRespected
  <2>6. f[Len(f)].at >= 1
    BY <1>6, <1>7, <2>1, <2>5
  <2>7. QED
    BY <2>1, <2>3, <2>4, <2>6
<1>11. ASSUME f # <<>>, Len(f) + 1 \notin TooSoon(i, s, c)'
       PROVE  /\ m.kind # "firing"
              /\ m.kind = "repeat" => m.at >= Promise!Last(f).at + Repeat[s]
  <2>1. Len(f) + 1 \in 2..Len(feed'[i][s][c])
    BY <1>4, <1>9, <1>11
  <2>2. feed'[i][s][c][Len(f) + 1] = m /\ feed'[i][s][c][(Len(f) + 1) - 1] = Promise!Last(f)
    BY <1>4, <1>9, <2>1 DEF Promise!Last
  <2>3. m.kind # "firing" /\ ~(m.kind = "repeat" /\ m.at < Promise!Last(f).at + Repeat[s])
    BY <1>11, <2>1, <2>2 DEF TooSoon
  <2>4. Promise!Last(f).at \in Nat
    BY <1>10, <1>11
  <2>5. QED
    BY <1>5, <1>6, <2>3, <2>4
<1>12. m.kind # "firing" => f # <<>>
  BY <1>1, <1>2, <1>3, <1>4, <1>5 DEF TickDelivery, Reached
<1>13. m.kind = "repeat" => Repeat[s] > 0
  BY <1>1, <1>2, <1>3, <1>5 DEF DeliveryInOrder, Delivering
<1>14. ASSUME NEW kind, NEW t, kind = m.kind, t = m.at
       PROVE  Promise!Post(i, s, c, kind, t) /\ Tolerance!Post(i, s, c, kind, t)
  BY <1>1, <1>4, <1>5, <1>14 DEF Promise!Post, Tolerance!Post
<1>15. PICK t \in Nat : t = m.at
  BY <1>5
<1>16. CASE Len(f) + 1 \in TooSoon(i, s, c)'
  <2>1. Len(f) + 1 \in 2..Len(feed'[i][s][c]) /\ m.kind \in {"firing", "repeat"}
    BY <1>4, <1>9, <1>16 DEF TooSoon
  <2>2. f # <<>> /\ t \in 1..clock
    BY <1>6, <1>9, <1>10, <1>15, <2>1
  <2>3. Cardinality(TooSoon(i, s, c)) \in Nat /\ faults \in Nat
        /\ Cardinality(TooSoon(i, s, c)) < faults
    BY <1>1, <1>8, <1>16, TooSoonIsFinite DEF TypeOK
  <2>4. Tolerance!Cardinality(Tolerance!Early(f, s)) < faults /\ faults > 0
    <3>1. Tolerance!Cardinality(Tolerance!Early(f, s)) = Cardinality(TooSoon(i, s, c))
      BY <1>4, EarlyIsTooSoon
    <3>2. QED
      BY <2>3, <3>1
  <2>5. Tolerance!Last(f).kind # "resolved" /\ t >= Tolerance!Last(f).at
    BY <1>10, <1>15, <2>2 DEF Promise!Last, Tolerance!Last
  <2>6. Tolerance!Post(i, s, c, m.kind, t)
    BY <1>14, <1>15
  <2>7. Tolerance!Again(i, s, c)
    <3>1. \E u \in 1..clock, kind \in {"firing", "repeat"} :
            /\ u >= Tolerance!Last(f).at
            /\ kind = "repeat" => Repeat[s] > 0
            /\ Tolerance!Post(i, s, c, kind, u)
      BY <1>13, <2>1, <2>2, <2>5, <2>6
    <3>2. QED
      BY <1>4, <2>2, <2>4, <2>5, <3>1 DEF Tolerance!Again
  <2>8. QED
    BY <2>4, <2>7
<1>17. CASE m.kind = "firing" /\ Len(f) + 1 \notin TooSoon(i, s, c)'
  <2>1. t \in 1..clock /\ f = <<>>
    BY <1>6, <1>7, <1>11, <1>15, <1>17
  <2>2. Promise!Alarm(i, s, c)
    BY <1>4, <1>7, <1>14, <1>15, <1>17, <2>1 DEF Promise!Alarm
  <2>3. QED
    BY <2>2
<1>18. CASE m.kind = "repeat" /\ Len(f) + 1 \notin TooSoon(i, s, c)'
  <2>1. f # <<>> /\ t \in 1..clock
    BY <1>6, <1>10, <1>12, <1>15, <1>18
  <2>2. Promise!Remind(i, s, c)
    BY <1>4, <1>10, <1>11, <1>13, <1>14, <1>15, <1>18, <2>1 DEF Promise!Remind
  <2>3. QED
    BY <2>2
<1>19. CASE m.kind = "resolved"
  <2>1. f # <<>> /\ t \in 1..clock
    BY <1>6, <1>10, <1>12, <1>15, <1>19
  <2>2. NotifyOnResolve[s]
    BY <1>1, <1>2, <1>3, <1>5, <1>19 DEF DeliveryInOrder, Delivering
  <2>3. Promise!AllClear(i, s, c)
    BY <1>4, <1>10, <1>14, <1>15, <1>19, <2>1, <2>2 DEF Promise!AllClear
  <2>4. QED
    BY <2>3
<1>20. QED
  BY <1>5, <1>16, <1>17, <1>18, <1>19 DEF Kinds

\* Until the first fault, every step of the dispatcher is one of the abstract
\* feed, or none.
LEMMA StepImplements ==
  ASSUME IndInv, OwnerInv, TimesInOrder, PaceInv, OneEvaluatorPerRule, faults = 0, [Next]_vars
  PROVE  [Promise!FeedNext]_(Promise!feedVars)
<1>1. CASE \E e \in Evaluators : LoadLiveState(e)
  BY <1>1, LoadBegins DEF Promise!FeedNext
<1>2. ASSUME NEW e \in Evaluators, NEW c \in Channels, NEW ok \in BOOLEAN, Send(e, c, ok)
      PROVE  Promise!FeedNext
  <2>1. ~(faults > 0)
    OBVIOUS
  <2>2. PICK i \in Incidents, s \in Subs :
          Promise!Alarm(i, s, c) \/ Promise!Remind(i, s, c) \/ Promise!AllClear(i, s, c)
    BY <1>2, <2>1, SendImplements
  <2>3. QED
    BY <2>2 DEF Promise!FeedNext
<1>3. CASE AdvanceClock
  BY <1>3 DEF AdvanceClock, Promise!FeedNext, Promise!TimePasses
<1>4. CASE UNCHANGED <<clock, feed, born>>
  BY <1>4 DEF Promise!feedVars
<1>5. QED
  BY <1>1, <1>2, <1>3, <1>4, Writers

\* Where a rule has one evaluator and no store call fails, what the channels
\* get is what AlertFeed promises: one alarm after the dwell, repeats spaced
\* by the interval, one resolution at the end (Tick and evaluateSubscription).
THEOREM KeepsThePromise ==
  ASSUME OneEvaluatorPerRule, MaxFaults = 0 PROVE Spec => ImplementsAlertFeed
<1>1. Init => Promise!FeedInit
  BY PromiseInit
<1>2. IndInv /\ OwnerInv /\ TimesInOrder /\ PaceInv /\ FaultFree /\ [Next]_vars
      => [Promise!FeedNext]_(Promise!feedVars)
  BY StepImplements DEF FaultFree
<1>3. QED
  BY <1>1, <1>2, InvariantHolds, OwnershipHolds, PaceHolds, NoFaults, PTL
     DEF Spec, ImplementsAlertFeed, Promise!FeedSpec

\* A step of the abstract feed, unless a fault has happened by its end.
PromisedStep == faults' = 0 => [Promise!FeedNext]_(Promise!feedVars)

\* Where a rule has one evaluator, the dispatcher keeps that promise until the
\* first store call fails or the process ends, however many will.
THEOREM PromiseUntilAFault == ASSUME OneEvaluatorPerRule PROVE Spec => [][PromisedStep]_vars
<1>1. IndInv /\ OwnerInv /\ TimesInOrder /\ PaceInv /\ [Next]_vars => [PromisedStep]_vars
  <2> SUFFICES ASSUME IndInv, OwnerInv, TimesInOrder, PaceInv, [Next]_vars, faults' = 0
               PROVE  [Promise!FeedNext]_(Promise!feedVars)
    BY DEF PromisedStep
  <2>1. TypeOK
    BY DEF IndInv
  <2>2. faults \in Nat /\ (faults' = faults \/ faults' = faults + 1)
    BY <2>1, FaultsGrow
  <2>3. faults = 0
    BY <2>2
  <2>4. QED
    BY <2>3, StepImplements
<1>2. QED
  BY <1>1, InvariantHolds, OwnershipHolds, PaceHolds, PTL DEF Spec

-----------------------------------------------------------------------------
\* A fault sends nothing: the times, the incidents and the feeds stay.
LEMMA FaultsSendNothing ==
  ASSUME TypeOK, [Next]_vars, faults' # faults
  PROVE  UNCHANGED <<clock, born, feed>>
<1>1. ASSUME NEW e \in Evaluators, LoadLiveState(e)
      PROVE  faults' = faults
  BY <1>1 DEF LoadLiveState
<1>2. ASSUME NEW e \in Evaluators, NEW c \in Channels, NEW ok \in BOOLEAN, Send(e, c, ok)
      PROVE  faults' = faults
  BY <1>2 DEF Send
<1>3. ASSUME AdvanceClock PROVE faults' = faults
  BY <1>3 DEF AdvanceClock
<1>4. QED
  BY <1>1, <1>2, <1>3, Writers

\* Every step of the dispatcher is a step of the tolerant feed, or none.
LEMMA StepTolerated ==
  ASSUME IndInv, OwnerInv, TimesInOrder, PaceInv, OneEvaluatorPerRule, [Next]_vars
  PROVE  [Tolerance!TolerantNext]_(Tolerance!tolerantVars)
<1>1. TypeOK /\ (faults' = faults \/ faults' = faults + 1)
  BY FaultsGrow DEF IndInv
<1>2. CASE faults' = faults + 1
  <2>1. faults \in Nat /\ faults' # faults
    BY <1>1, <1>2 DEF TypeOK
  <2>2. UNCHANGED Tolerance!feedVars
    BY <1>1, <2>1, FaultsSendNothing DEF Tolerance!feedVars
  <2>3. QED
    BY <1>2, <2>2 DEF Tolerance!TolerantNext, Tolerance!SomethingFails
<1>3. CASE faults' = faults
  <2>1. CASE \E e \in Evaluators : LoadLiveState(e)
    <3>1. (\E i \in Incidents : Promise!Begin(i)) \/ UNCHANGED Promise!feedVars
      BY <2>1, LoadBegins
    <3>2. (\E i \in Incidents : Tolerance!Begin(i)) \/ UNCHANGED Tolerance!feedVars
      BY <3>1 DEF Promise!Begin, Promise!feedVars, Tolerance!Begin, Tolerance!feedVars
    <3>3. QED
      BY <1>3, <3>2 DEF Tolerance!TolerantNext, Tolerance!FeedNext, Tolerance!tolerantVars
  <2>2. ASSUME NEW e \in Evaluators, NEW c \in Channels, NEW ok \in BOOLEAN, Send(e, c, ok)
        PROVE  Tolerance!TolerantNext
    <3>1. PICK i \in Incidents, s \in Subs :
            \/ Promise!Alarm(i, s, c) \/ Promise!Remind(i, s, c) \/ Promise!AllClear(i, s, c)
            \/ Tolerance!Again(i, s, c)
      BY <2>2, SendImplements
    <3>2. \/ Tolerance!Alarm(i, s, c) \/ Tolerance!Remind(i, s, c) \/ Tolerance!AllClear(i, s, c)
          \/ Tolerance!Again(i, s, c)
      BY <3>1 DEF Promise!Alarm, Promise!Remind, Promise!AllClear, Promise!Post, Promise!Last,
         Tolerance!Alarm, Tolerance!Remind, Tolerance!AllClear, Tolerance!Post, Tolerance!Last
    <3>3. QED
      BY <1>3, <3>2 DEF Tolerance!TolerantNext, Tolerance!FeedNext
  <2>3. CASE AdvanceClock
    BY <1>3, <2>3 DEF AdvanceClock, Tolerance!TolerantNext, Tolerance!FeedNext, Tolerance!TimePasses
  <2>4. CASE UNCHANGED <<clock, feed, born>>
    BY <1>3, <2>4 DEF Tolerance!tolerantVars, Tolerance!feedVars
  <2>5. QED
    BY <2>1, <2>2, <2>3, <2>4, Writers
<1>4. QED
  BY <1>1, <1>2, <1>3

\* Where a rule has one evaluator, and whatever store calls fail or restarts
\* happen, what the channels get is what TolerantFeed allows: the order of a
\* feed, the dwell and its times stand, and a message that comes too soon has
\* a fault of its own (evaluateSubscription's Upsert, deliver's sends).
THEOREM KeepsTheOrder == ASSUME OneEvaluatorPerRule PROVE Spec => ImplementsTolerantFeed
<1>1. Init => Tolerance!TolerantInit
  BY DEF Init, Tolerance!TolerantInit, Tolerance!FeedInit
<1>2. IndInv /\ OwnerInv /\ TimesInOrder /\ PaceInv /\ [Next]_vars
      => [Tolerance!TolerantNext]_(Tolerance!tolerantVars)
  BY StepTolerated
<1>3. QED
  BY <1>1, <1>2, InvariantHolds, OwnershipHolds, PaceHolds, PTL
     DEF Spec, ImplementsTolerantFeed, Tolerance!TolerantSpec

-----------------------------------------------------------------------------
\* A Tick goes on visiting the subscriptions of its own rule.
LEMMA ActorVisits ==
  ASSUME TypeOK, NEW e \in Evaluators, StepOf(e), VisitsItsOwn(e)
  PROVE  VisitsItsOwn(e)'
<1> USE DEF TypeOK, Goto, VisitsItsOwn, Telling, Delivering
<1>1. ASSUME Return(e) PROVE VisitsItsOwn(e)'
  BY <1>1 DEF Return
<1>2. CASE \E r \in Rules : Evaluate(e, r) \/ BeginEvalError(e, r)
  BY <1>2 DEF Evaluate, BeginTick, BeginEvalError
<1>3. CASE LoadLiveState(e) \/ LoadForError(e)
  BY <1>3 DEF LoadLiveState, LoadForError
<1>4. CASE ReadFails(e) \/ EndTick(e) \/ SaveForError(e)
  BY <1>1, <1>4 DEF ReadFails, EndTick, SaveForError
<1>5. CASE SaveLiveState(e) \/ RecordIncident(e)
  <2>1. CASE ~Return(e)
    BY <1>5, <2>1 DEF SaveLiveState, RecordIncident
  <2>2. QED
    BY <1>1, <2>1
<1>6. CASE ListSubscriptions(e)
  BY <1>6 DEF ListSubscriptions
<1>7. CASE OneShotGate(e) \/ GateFails(e)
  BY <1>7 DEF OneShotGate, GateFails
<1>8. CASE \E s \in Subs : PassOver(e, s) \/ SubStateFails(e, s)
  BY <1>8 DEF PassOver, SubStateFails, Visit
<1>9. CASE \E s \in Subs, kind \in Kinds : StartDelivery(e, s, kind)
  BY <1>9 DEF StartDelivery, Visit
<1>10. ASSUME NEW c \in Channels, NEW ok \in BOOLEAN, Send(e, c, ok)
       PROVE  VisitsItsOwn(e)'
  <2>1. PICK n : n = [incident |-> tr[e].incident, sub |-> dlv[e].sub, channel |-> c,
                      kind |-> dlv[e].kind, at |-> job[e].now, ok |-> ok]
    OBVIOUS
  <2>2. n.sub = dlv[e].sub
    BY <2>1
  <2>3. n \in audit'[e]
    BY <1>10, <2>1 DEF Send
  <2>4. pc'[e] = "record" /\ pc[e] = "send" /\ UNCHANGED <<job, todo, dlv>>
    BY <1>10 DEF Send
  <2>5. QED
    BY <2>2, <2>3, <2>4
<1>11. CASE RecordNotification(e) \/ MarkNotified(e)
  BY <1>11 DEF RecordNotification, MarkNotified
<1>12. QED
  BY <1>2, <1>3, <1>4, <1>5, <1>6, <1>7, <1>8, <1>9, <1>10, <1>11 DEF StepOf, Continue

\* Every step keeps a Tick to the subscriptions of its rule.
LEMMA VisitsStep ==
  ASSUME IndInv, [Next]_vars, NEW e \in Evaluators, VisitsItsOwn(e)
  PROVE  VisitsItsOwn(e)'
<1>1. TypeOK
  BY DEF IndInv
<1>2. CASE LocalsStand(e)
  BY <1>2 DEF LocalsStand, VisitsItsOwn
<1>3. CASE StepOf(e)
  BY <1>1, <1>3, ActorVisits
<1>4. ASSUME NEW d \in Evaluators, StepOf(d), d # e
      PROVE  LocalsStand(e)
  BY <1>1, <1>4, OthersStand
<1>5. CASE Crash
  BY <1>5, CrashShape DEF VisitsItsOwn, Delivering
<1>6. CASE UNCHANGED <<locals, tables, feed, born, faults>>
  BY <1>2, <1>6 DEF LocalsStand, locals
<1>7. QED
  BY <1>2, <1>3, <1>4, <1>5, <1>6, StepCases

\* Two evaluators are not at the same one-shot subscription.
LEMMA SoleShooter ==
  ASSUME TypeOK, OneEvaluatorPerOneShot, NEW e \in Evaluators, NEW f \in Evaluators,
         VisitsItsOwn(e), VisitsItsOwn(f), NEW s \in Subs, OneShot[s],
         pc[e] \in Delivering, pc[f] \in Delivering, dlv[e].sub = s, dlv[f].sub = s
  PROVE  e = f
<1>1. job[e].rule \in Serves[e] /\ job[f].rule \in Serves[f]
  BY DEF VisitsItsOwn, Delivering
<1>2. s \in Match[job[e].rule] \cap Match[job[f].rule]
  BY DEF VisitsItsOwn
<1>3. QED
  BY <1>1, <1>2 DEF OneEvaluatorPerOneShot

\* What was sent for a subscription on a channel grows by one message at most.
LEMMA SentShape ==
  ASSUME IndInv, [Next]_vars, NEW s \in Subs, NEW c \in Channels
  PROVE  \/ Sent(s, c)' = Sent(s, c)
         \/ \E e \in Evaluators, ok \in BOOLEAN :
              /\ Send(e, c, ok) /\ dlv[e].sub = s
              /\ \E x : Sent(s, c)' \subseteq Sent(s, c) \cup {x}
<1>1. TypeOK
  BY DEF IndInv
<1>2. CASE \A i \in Incidents : feed'[i][s][c] = feed[i][s][c]
  BY <1>2 DEF Sent
<1>3. ASSUME NEW i \in Incidents, feed'[i][s][c] # feed[i][s][c]
      PROVE  \E e \in Evaluators, ok \in BOOLEAN :
               /\ Send(e, c, ok) /\ dlv[e].sub = s
               /\ \E x : Sent(s, c)' \subseteq Sent(s, c) \cup {x}
  <2>1. PICK e \in Evaluators, ok \in BOOLEAN :
          /\ Send(e, c, ok)
          /\ tr[e].incident = i /\ dlv[e].sub = s
          /\ Outgoing(e, ok) \in Message /\ feed[i][s][c] \in Seq(Message)
          /\ feed'[i][s][c] = Append(feed[i][s][c], Outgoing(e, ok))
    BY <1>3, FeedShape
  <2>2. ASSUME NEW j \in Incidents, j # i
        PROVE  feed'[j][s][c] = feed[j][s][c]
    <3>1. feed'[j][s][c] = IF j = tr[e].incident /\ s = dlv[e].sub /\ c = c
                           THEN Append(feed[j][s][c], Outgoing(e, ok)) ELSE feed[j][s][c]
      BY <2>1, SendAppends
    <3>2. QED
      BY <2>1, <2>2, <3>1
  <2>3. DOMAIN feed'[i][s][c] = DOMAIN feed[i][s][c] \cup {Len(feed[i][s][c]) + 1}
    BY <2>1, AppendFacts
  <2>4. Sent(s, c)' \subseteq Sent(s, c) \cup {<<i, Len(feed[i][s][c]) + 1>>}
    BY <2>2, <2>3 DEF Sent
  <2>5. QED
    BY <2>1, <2>4
<1>4. QED
  BY <1>2, <1>3

\* U is at most one larger than T.
LEMMA OneMore ==
  ASSUME NEW T, IsFiniteSet(T), NEW x, NEW U, U \subseteq T \cup {x}
  PROVE  /\ IsFiniteSet(U) /\ Cardinality(U) \in Nat /\ Cardinality(T) \in Nat
         /\ Cardinality(U) <= Cardinality(T) + 1
<1>1. PICK V : V = T \cup {x}
  OBVIOUS
<1>2. CardinalityWith(V, T) /\ Cardinality(T) \in Nat
  BY <1>1, WithOneMore, FS_CardinalityType
<1>3. IsFiniteSet(U) /\ Cardinality(U) <= Cardinality(V) /\ Cardinality(U) \in Nat
  BY <1>1, <1>2, FS_Subset, FS_CardinalityType DEF CardinalityWith
<1>4. QED
  BY <1>2, <1>3 DEF CardinalityWith

\* A message to a one-shot subscription was due while all before it were paid.
LEMMA ShotSends ==
  ASSUME TypeOK, ShotInv, OneEvaluatorPerOneShot, NEW s \in Subs, NEW c \in Channels, OneShot[s],
         NEW e \in Evaluators, NEW ok \in BOOLEAN, Send(e, c, ok), dlv[e].sub = s,
         NEW x, Sent(s, c)' \subseteq Sent(s, c) \cup {x}
  PROVE  /\ IsFiniteSet(Sent(s, c)') /\ Cardinality(Sent(s, c)') <= 1 + faults'
         /\ BeingSpent(s)'
         /\ \A d \in Evaluators :
              ~(pc'[d] \in {"send", "record"} /\ dlv'[d].sub = s /\ c \in left'[d])
<1>1. pc[e] = "send" /\ c \in left[e] /\ faults' = faults /\ faults \in Nat
      /\ pc'[e] = "record" /\ dlv' = dlv /\ c \notin left'[e]
  BY DEF Send, Goto, TypeOK
<1>2. IsFiniteSet(Sent(s, c)) /\ Cardinality(Sent(s, c)) <= faults
  BY <1>1 DEF ShotInv
<1>3. PICK T, U : T = Sent(s, c) /\ U = Sent(s, c)'
  OBVIOUS
<1>4. IsFiniteSet(U) /\ Cardinality(U) \in Nat /\ Cardinality(T) \in Nat
      /\ Cardinality(U) <= Cardinality(T) + 1
  BY <1>2, <1>3, OneMore
<1>5. BeingSpent(s)'
  BY <1>1 DEF BeingSpent
<1>6. ASSUME NEW d \in Evaluators, pc'[d] \in {"send", "record"}, dlv'[d].sub = s, c \in left'[d]
      PROVE  FALSE
  <2>1. d # e
    BY <1>1, <1>6
  <2>2. pc[d] \in Delivering /\ pc[e] \in Delivering /\ dlv[d].sub = s
    BY <1>1, <1>6, <2>1 DEF Send, Goto, TypeOK, Delivering
  <2>3. QED
    BY <2>1, <2>2, SoleShooter DEF ShotInv
<1>7. QED
  BY <1>1, <1>2, <1>3, <1>4, <1>5, <1>6

\* A delivery that is to send on a binding was there already, or has just
\* found no row and no other delivery.
LEMMA ShotIsLoaded ==
  ASSUME IndInv, ShotInv, OneEvaluatorPerOneShot, [Next]_vars,
         NEW s \in Subs, NEW c \in Channels, OneShot[s],
         NEW d \in Evaluators,
         pc'[d] \in {"send", "record"}, dlv'[d].sub = s, c \in left'[d]
  PROVE  Cardinality(Sent(s, c)) <= faults
<1>1. TypeOK
  BY DEF IndInv
<1>2. CASE LocalsStand(d)
  BY <1>2 DEF LocalsStand, ShotInv
<1>3. CASE StepOf(d)
  <2> USE <1>1 DEF TypeOK, Goto
  <2>1. CASE OneShotGate(d)
    <3>1. pc[d] = "gate" /\ dlv[d].sub = s /\ ~Notified(s)
      BY <2>1 DEF OneShotGate
    <3>2. ~BeingSpent(s)
      BY <3>1, SoleShooter DEF BeingSpent, ShotInv, Delivering
    <3>3. QED
      BY <3>1, <3>2 DEF ShotInv
  <2>2. CASE RecordNotification(d) \/ \E b \in Channels, ok \in BOOLEAN : Send(d, b, ok)
    <3>1. pc[d] \in {"send", "record"} /\ dlv[d].sub = s /\ c \in left[d]
      <4>1. ASSUME RecordNotification(d) PROVE pc[d] = "record" /\ UNCHANGED <<dlv, left>>
        BY <4>1 DEF RecordNotification
      <4>2. ASSUME NEW b \in Channels, NEW ok \in BOOLEAN, Send(d, b, ok)
            PROVE  pc[d] = "send" /\ dlv' = dlv /\ left'[d] = left[d] \ {b}
        BY <4>2 DEF Send
      <4>3. QED
        BY <2>2, <4>1, <4>2
    <3>2. QED
      BY <3>1 DEF ShotInv
  <2>3. CASE ~(OneShotGate(d) \/ RecordNotification(d)
               \/ \E b \in Channels, ok \in BOOLEAN : Send(d, b, ok))
    BY <1>3, <2>3 DEF StepOf, Continue, Evaluate, BeginTick, BeginEvalError, LoadLiveState,
       ReadFails, SaveLiveState, RecordIncident, ListSubscriptions, PassOver, SubStateFails,
       StartDelivery, Visit, GateFails, MarkNotified, EndTick, LoadForError, SaveForError, Return
  <2>4. QED
    BY <2>1, <2>2, <2>3
<1>4. ASSUME NEW e \in Evaluators, StepOf(e), d # e
      PROVE  LocalsStand(d)
  BY <1>1, <1>4, OthersStand
<1>5. CASE Crash
  BY <1>5, CrashShape
<1>6. CASE UNCHANGED <<locals, tables, feed, born, faults>>
  BY <1>2, <1>6 DEF LocalsStand, locals
<1>7. QED
  BY <1>2, <1>3, <1>4, <1>5, <1>6, StepCases

\* A spent subscription stays so, or a fault lost the row that says it.
LEMMA ShotIsNoted ==
  ASSUME IndInv, ShotInv, [Next]_vars, NEW s \in Subs,
         Notified(s) \/ BeingSpent(s), ~Notified(s)', ~BeingSpent(s)'
  PROVE  faults' = faults + 1
<1>1. TypeOK /\ ~Notified(s)
  BY RowsGrow DEF IndInv, Notified
<1>2. PICK e \in Evaluators : pc[e] = "record" /\ dlv[e].sub = s
  BY <1>1 DEF BeingSpent
<1>3. ~(pc'[e] = "record" /\ dlv'[e] = dlv[e])
  BY <1>2 DEF BeingSpent
<1>4. CASE StepOf(e)
  <2>1. RecordNotification(e)
    BY <1>1, <1>2, <1>4, ActorRecords DEF Send
  <2>2. PICK w \in WriteOutcomes :
          /\ Reported(w.acked)
          /\ notifications' = IF w.applied THEN notifications \cup audit[e] ELSE notifications
    BY <2>1 DEF RecordNotification
  <2>3. PICK n \in audit[e] : n.sub = s
    BY <1>2 DEF ShotInv, VisitsItsOwn
  <2>4. ~w.applied
    BY <2>2, <2>3 DEF Notified
  <2>5. QED
    BY <2>2, <2>4 DEF WriteOutcomes, Reported, Fault
<1>5. ASSUME NEW d \in Evaluators, StepOf(d), d # e
      PROVE  FALSE
  BY <1>1, <1>2, <1>3, <1>5, OthersStand DEF LocalsStand
<1>6. CASE Crash
  BY <1>6 DEF Crash, Fault
<1>7. CASE UNCHANGED <<locals, tables, feed, born, faults>>
  BY <1>2, <1>3, <1>7 DEF locals
<1>8. QED
  BY <1>4, <1>5, <1>6, <1>7, StepCases

\* Every message of a one-shot subscription after the first costs a fault.
LEMMA ShotStep ==
  ASSUME IndInv, ShotInv, OneEvaluatorPerOneShot, [Next]_vars
  PROVE  ShotInv'
<1>1. TypeOK /\ faults \in Nat /\ faults' \in Nat /\ (faults' = faults \/ faults' = faults + 1)
  BY FaultsGrow DEF IndInv
<1>2. \A e \in Evaluators : VisitsItsOwn(e)'
  BY VisitsStep DEF ShotInv
<1>3. ASSUME NEW s \in Subs, NEW c \in Channels, OneShot[s]
      PROVE  /\ IsFiniteSet(Sent(s, c)') /\ Cardinality(Sent(s, c)') <= 1 + faults'
             /\ ~Notified(s)' /\ ~BeingSpent(s)' => Cardinality(Sent(s, c)') <= faults'
             /\ \A d \in Evaluators :
                  pc'[d] \in {"send", "record"} /\ dlv'[d].sub = s /\ c \in left'[d]
                    => Cardinality(Sent(s, c)') <= faults'
  <2>1. CASE Sent(s, c)' = Sent(s, c)
    <3>1. PICK T : T = Sent(s, c)
      OBVIOUS
    <3>2. IsFiniteSet(T) /\ Cardinality(T) \in Nat /\ Cardinality(T) <= 1 + faults
      BY <1>3, <3>1, FS_CardinalityType DEF ShotInv
    <3>3. ~Notified(s)' /\ ~BeingSpent(s)' => Cardinality(T) <= faults'
      <4>1. CASE Notified(s) \/ BeingSpent(s)
        BY <1>1, <3>2, <4>1, ShotIsNoted
      <4>2. CASE ~Notified(s) /\ ~BeingSpent(s)
        BY <1>1, <1>3, <3>1, <3>2, <4>2 DEF ShotInv
      <4>3. QED
        BY <4>1, <4>2
    <3>4. \A d \in Evaluators :
            pc'[d] \in {"send", "record"} /\ dlv'[d].sub = s /\ c \in left'[d]
              => Cardinality(T) <= faults'
      BY <1>1, <1>3, <3>1, <3>2, ShotIsLoaded
    <3>5. QED
      BY <1>1, <2>1, <3>1, <3>2, <3>3, <3>4
  <2>2. CASE \E e \in Evaluators, ok \in BOOLEAN :
               /\ Send(e, c, ok) /\ dlv[e].sub = s
               /\ \E x : Sent(s, c)' \subseteq Sent(s, c) \cup {x}
    BY <1>1, <1>3, <2>2, ShotSends
  <2>3. QED
    BY <2>1, <2>2, SentShape
<1>4. QED
  BY <1>2, <1>3 DEF ShotInv

\* Before the first Tick nothing is sent.
LEMMA ShotInit == Init => ShotInv
<1> SUFFICES ASSUME Init PROVE ShotInv
  OBVIOUS
<1>1. /\ faults = 0 /\ pc = [e \in Evaluators |-> "idle"] /\ todo = [e \in Evaluators |-> {}]
      /\ feed = [i \in Incidents |-> [s \in Subs |-> [c \in Channels |-> <<>>]]]
  BY Zenon DEF Init
<1>2. \A s \in Subs, c \in Channels : Sent(s, c) = {}
  BY <1>1 DEF Sent
<1>3. \A s \in Subs, c \in Channels : IsFiniteSet(Sent(s, c)) /\ Cardinality(Sent(s, c)) = 0
  BY <1>2, FS_EmptySet
<1>4. \A e \in Evaluators : VisitsItsOwn(e)
  BY <1>1 DEF VisitsItsOwn, Delivering
<1>5. QED
  BY <1>1, <1>3, <1>4 DEF ShotInv

\* Where one evaluator serves all rules of a one-shot subscription, a channel
\* gets one message over all incidents, and one more for each fault (the
\* gate's ExistsForSubscription sees each row that was recorded).
THEOREM OneShotCostsAFault == ASSUME OneEvaluatorPerOneShot PROVE Spec => []OneShotOnce
<1>1. Init => ShotInv
  BY ShotInit
<1>2. IndInv /\ ShotInv /\ [Next]_vars => ShotInv'
  BY ShotStep
<1>3. ShotInv => OneShotOnce
  BY DEF ShotInv, OneShotOnce
<1>4. QED
  BY <1>1, <1>2, <1>3, InvariantHolds, PTL DEF Spec

-----------------------------------------------------------------------------
\* Where a rule has one evaluator, one call at a time is about it.
LEMMA SoleServer ==
  ASSUME OwnerInv, OneEvaluatorPerRule, NEW d \in Evaluators, NEW e \in Evaluators,
         pc[d] # "idle", pc[e] # "idle", job[d].rule = job[e].rule
  PROVE  d = e
<1>1. job[d].rule \in Serves[d] /\ job[e].rule \in Serves[e]
  BY DEF OwnerInv, LocalsInOrder
<1>2. QED
  BY <1>1 DEF OneEvaluatorPerRule

\* A row belongs to the rule whose evaluator opened it.
LEMMA HolderStep ==
  ASSUME IndInv, OwnerInv, RowsAreOfTheHolder, [Next]_vars
  PROVE  RowsAreOfTheHolder'
<1> SUFFICES ASSUME NEW x \in incidents', NEW q \in Rules, Holds(q, x.id)'
             PROVE  x.rule = q
  BY DEF RowsAreOfTheHolder
<1>1. TypeOK /\ TypeOK'
  BY TypeStep DEF IndInv
<1>2. PICK i \in Incidents : i = x.id
  BY <1>1 DEF TypeOK, Incident
<1>3. Minted(i)
  <2>1. CASE x \in incidents
    BY <1>2, <2>1 DEF OwnerInv, ResolvedRowIsOver
  <2>2. CASE x \notin incidents
    BY <1>2, <2>2, RowShape
  <2>3. QED
    BY <2>1, <2>2
<1>4. Holds(q, i)
  <2>1. Holds(q, i)'
    BY <1>2 DEF Holds
  <2>2. QED
    BY <1>3, <2>1, HoldsShape
<1>5. CASE \E y \in incidents : y.id = i /\ y.rule = x.rule
  BY <1>4, <1>5 DEF RowsAreOfTheHolder
<1>6. ASSUME NEW e \in Evaluators, pc[e] = "incident", tr[e].incident = i, x.rule = job[e].rule
      PROVE  x.rule = q
  <2>1. Holds(job[e].rule, i) /\ job[e].rule \in Rules
    BY <1>1, <1>6 DEF Holds, TypeOK, Job
  <2>2. QED
    BY <1>4, <1>6, <2>1 DEF OwnerInv, HeldByOneRule
<1>7. QED
  BY <1>2, <1>5, <1>6, RowShape

\* A row that a Tick is not about to write stays as it is.
LEMMA OpenRowStands ==
  ASSUME [Next]_vars, NEW i \in Incidents, NEW r \in Rules, ~BeingRecorded(i)
  PROVE  HasOpenRow(i, r)' = HasOpenRow(i, r)
<1>1. CASE incidents' = incidents
  BY <1>1 DEF HasOpenRow
<1>2. ASSUME NEW e \in Evaluators, RecordIncident(e), incidents' = IncidentsAfter(e)
      PROVE  HasOpenRow(i, r)' = HasOpenRow(i, r)
  <2>1. tr[e].incident # i
    BY <1>2 DEF RecordIncident, BeingRecorded
  <2>2. ASSUME NEW x, x.id = i
        PROVE  x \in incidents' <=> x \in incidents
    BY <1>2, <2>1, <2>2 DEF IncidentsAfter
  <2>3. QED
    BY <2>2 DEF HasOpenRow
<1>3. QED
  BY <1>1, <1>2, RowWriter DEF RecordIncident

\* What a Tick recorded is right: its rule has the incident and its row, or
\* neither.
LEMMA RecordedAgrees ==
  ASSUME IndInv, OwnerInv, TablesInv, NEW i \in Incidents, NEW r \in Rules,
         NEW e \in Evaluators, RecordIncident(e), tr[e].incident = i,
         incidents' = IncidentsAfter(e)
  PROVE  (live'[r].incident = i) = HasOpenRow(i, r)'
<1>1. /\ TypeOK /\ pc[e] = "incident" /\ live' = live
      /\ job[e].rule \in Rules
  BY DEF IndInv, RecordIncident, TypeOK, Job
<1>2. Opened(tr[e]) \/ Closed(tr[e])
  BY <1>1 DEF OwnerInv, LocalsInOrder
<1>3. WritesInOrder(e)
  BY DEF TablesInv
<1>4. CASE Opened(tr[e])
  <2>1. live[job[e].rule].incident = i /\ \A x \in incidents : x.id # i
    BY <1>1, <1>3, <1>4 DEF WritesInOrder
  <2>2. live[r].incident = i <=> r = job[e].rule
    BY <1>1, <2>1 DEF OwnerInv, HeldByOneRule, Holds
  <2>3. PICK y : y = [id |-> i, rule |-> job[e].rule, triggeredAt |-> ls[e].triggeredAt,
                      resolvedAt |-> 0]
    OBVIOUS
  <2>4. incidents' = incidents \cup {y}
    BY <1>4, <2>3 DEF IncidentsAfter
  <2>5. y.id = i /\ y.rule = job[e].rule /\ y.resolvedAt = 0
    BY <2>3
  <2>6. HasOpenRow(i, r)' <=> r = job[e].rule
    BY <2>1, <2>4, <2>5 DEF HasOpenRow
  <2>7. QED
    BY <1>1, <2>2, <2>6 DEF HasOpenRow
<1>5. CASE Closed(tr[e])
  <2>1. Released(i) /\ job[e].now > 0 /\ job[e].now \in Nat /\ ~Opened(tr[e])
    BY <1>1, <1>3, <1>5 DEF OwnerInv, EndIsReleased, PastSave, WritesInOrder, AfterApply,
       TypeOK, Job, Opened, Closed
  <2>2. ASSUME NEW x \in incidents', x.id = i
        PROVE  x.resolvedAt # 0
    <3>1. PICK y \in incidents :
            x = IF y.id # i THEN y
                ELSE [id |-> y.id, rule |-> y.rule, triggeredAt |-> y.triggeredAt,
                      resolvedAt |-> job[e].now]
      BY <2>1 DEF IncidentsAfter
    <3>2. CASE y.id # i
      BY <2>2, <3>1, <3>2
    <3>3. CASE y.id = i
      BY <2>1, <3>1, <3>3
    <3>4. QED
      BY <3>2, <3>3
  <2>3. ~HasOpenRow(i, r)'
    BY <2>2 DEF HasOpenRow
  <2>4. live'[r].incident # i
    BY <1>1, <2>1 DEF Released
  <2>5. QED
    BY <2>3, <2>4 DEF HasOpenRow
<1>6. QED
  BY <1>2, <1>4, <1>5

\* Where the tables disagree about an incident that a call has, the call is
\* for the rule.
LEMMA AstrayIsOfTheCall ==
  ASSUME IndInv, OwnerInv, TablesInv, NEW i \in Incidents, NEW r \in Rules,
         NEW e \in Evaluators, pc[e] # "idle", tr[e].incident = i,
         live[r].incident = i \/ HasOpenRow(i, r)
  PROVE  job[e].rule = r
<1>1. job[e].rule \in Rules
  BY DEF IndInv, TypeOK, Job
<1>2. Holds(job[e].rule, i)
  BY DEF Holds
<1>3. CASE live[r].incident = i
  <2>1. Holds(r, i)
    BY <1>3 DEF Holds
  <2>2. QED
    BY <1>1, <1>2, <2>1 DEF OwnerInv, HeldByOneRule
<1>4. CASE HasOpenRow(i, r)
  BY <1>1, <1>2, <1>4 DEF HasOpenRow, TablesInv, RowsAreOfTheHolder
<1>5. QED
  BY <1>3, <1>4

\* A call writes one of the two tables and a fault keeps it from the other.
BreaksOff(e, i) ==
  pc[e] \in {"save", "incident"} /\ tr[e].incident = i /\ faults' = faults + 1

\* evalOne writes a blank row over one it could not read.
BlanksOut(e, i) ==
  pc[e] = "errsave" /\ ls[e] # live[job[e].rule] /\ live[job[e].rule].incident = i

\* A row of live_states takes up an incident, or lets go of it, while a Tick
\* that is to record it goes on, or a fault stops that Tick.
LEMMA SaveStrays ==
  ASSUME IndInv, OwnerInv, TablesInv, OneEvaluatorPerRule, [Next]_vars,
         NEW i \in Incidents, NEW r \in Rules, ~BeingRecorded(i)',
         ~((live'[r].incident = i) <=> (live[r].incident = i))
  PROVE  \E e \in Evaluators : /\ pc[e] # "idle" /\ job[e].rule = r
                               /\ BreaksOff(e, i) \/ BlanksOut(e, i)
<1>1. TypeOK /\ i # NoIncident
  BY NoIncidentAssumption DEF IndInv
<1>2. PICK e \in Evaluators :
        /\ SaveLiveState(e) \/ SaveForError(e)
        /\ pc[e] \in {"save", "errsave"}
        /\ job[e].rule = r /\ live'[r] = ls[e]
  BY LiveShape
<1>3. WritesInOrder(e) /\ TickCycle(e) /\ LocalsInOrder(e)
  BY DEF TablesInv, IndInv, CycleInv, OwnerInv
<1>4. CASE pc[e] = "errsave"
  <2>1. ls[e] = OKState /\ ls[e] # live[r]
    BY <1>2, <1>3, <1>4 DEF WritesInOrder
  <2>2. live[r].incident = i
    BY <1>1, <1>2, <2>1 DEF OKState
  <2>3. QED
    BY <1>2, <1>4, <2>1, <2>2 DEF BlanksOut
<1>5. CASE pc[e] = "save"
  <2>1. SaveLiveState(e)
    BY <1>2, <1>5 DEF SaveForError
  <2>2. /\ live[r].state = tr[e].prev /\ ls[e].state = tr[e].next
        /\ tr[e].prev = "firing" => live[r].incident = tr[e].incident
        /\ tr[e].next = "firing" => ls[e].incident = tr[e].incident
    BY <1>2, <1>3, <1>5 DEF WritesInOrder, TickCycle, AfterApply
  <2>3. /\ live[r].state = "ok" => live[r].incident = NoIncident
        /\ ls[e].state = "ok" => ls[e].incident = NoIncident
    BY DEF OwnerInv, OnlyFiringHolds
  <2>4. tr[e].prev \in {"ok", "firing"} /\ tr[e].next \in {"ok", "firing"}
    BY <1>1 DEF TypeOK, Transition, States
  <2>5. tr[e].incident = i /\ (Opened(tr[e]) \/ Closed(tr[e]))
    BY <1>1, <1>2, <2>2, <2>3, <2>4 DEF Opened, Closed
  <2>6. PICK w \in WriteOutcomes :
          /\ Reported(w.acked)
          /\ w.acked => Goto(e, "incident") /\ tr' = tr
    BY <2>1, <2>5 DEF SaveLiveState
  <2>7. ~w.acked
    BY <1>1, <2>5, <2>6 DEF Goto, TypeOK, BeingRecorded
  <2>8. faults' = faults + 1
    BY <2>6, <2>7 DEF Reported, Fault
  <2>9. QED
    BY <1>2, <1>5, <2>5, <2>8 DEF BreaksOff
<1>6. QED
  BY <1>2, <1>4, <1>5

\* An incident that a Tick was about to record is recorded, or a fault stops
\* the Tick.
LEMMA RecordStrays ==
  ASSUME IndInv, OwnerInv, TablesInv, [Next]_vars,
         NEW i \in Incidents, NEW r \in Rules, BeingRecorded(i), ~BeingRecorded(i)',
         ~((live'[r].incident = i) <=> HasOpenRow(i, r)')
  PROVE  \E e \in Evaluators : /\ pc[e] # "idle" /\ job[e].rule = r /\ BreaksOff(e, i)
<1>1. TypeOK
  BY DEF IndInv
<1>2. PICK e \in Evaluators : pc[e] = "incident" /\ tr[e].incident = i
  BY DEF BeingRecorded
<1>3. ~(pc'[e] = "incident" /\ tr'[e] = tr[e])
  BY <1>2 DEF BeingRecorded
<1>4. ASSUME live' = live, incidents' = incidents, faults' = faults + 1
      PROVE  job[e].rule = r /\ BreaksOff(e, i)
  <2>1. live[r].incident = i \/ HasOpenRow(i, r)
    BY <1>4 DEF HasOpenRow
  <2>2. QED
    BY <1>2, <1>4, <2>1, AstrayIsOfTheCall DEF BreaksOff
<1>5. CASE StepOf(e)
  <2>1. RecordIncident(e)
    <3>1. ~GoesOn(e) \/ pc'[e] # "incident"
      BY <1>2 DEF GoesOn
    <3>2. QED
      BY <1>1, <1>2, <1>5 DEF StepOf, Continue, Evaluate, BeginTick, BeginEvalError,
         LoadLiveState, ReadFails, SaveLiveState, ListSubscriptions, PassOver, SubStateFails,
         StartDelivery, Visit, OneShotGate, GateFails, Send, RecordNotification, MarkNotified,
         EndTick, LoadForError, SaveForError
  <2>2. PICK w \in WriteOutcomes :
          /\ Reported(w.acked)
          /\ incidents' = IF w.applied THEN IncidentsAfter(e) ELSE incidents
    BY <2>1 DEF RecordIncident
  <2>3. ~w.applied
    BY <1>2, <2>1, <2>2, RecordedAgrees
  <2>4. incidents' = incidents /\ faults' = faults + 1 /\ live' = live
    BY <2>1, <2>2, <2>3 DEF WriteOutcomes, Reported, Fault, RecordIncident
  <2>5. QED
    BY <1>2, <1>4, <2>4
<1>6. ASSUME NEW d \in Evaluators, StepOf(d), d # e
      PROVE  FALSE
  BY <1>1, <1>2, <1>3, <1>6, OthersStand DEF LocalsStand
<1>7. CASE Crash
  BY <1>2, <1>4, <1>7 DEF Crash, Fault, tables
<1>8. CASE UNCHANGED <<locals, tables, feed, born, faults>>
  BY <1>2, <1>3, <1>8 DEF locals
<1>9. QED
  BY <1>5, <1>6, <1>7, <1>8, StepCases

\* An incident goes astray by a call that breaks off between its two writes,
\* or by evalOne saving a blank row over one it could not read.
LEMMA NewStray ==
  ASSUME IndInv, OwnerInv, TablesInv, OneEvaluatorPerRule, [Next]_vars,
         NEW i \in Incidents, NEW r \in Rules, i \in Astray(r)', i \notin Astray(r)
  PROVE  \E e \in Evaluators : /\ pc[e] # "idle" /\ job[e].rule = r
                               /\ BreaksOff(e, i) \/ (BlanksOut(e, i) /\ live'[r] # live[r])
<1>1. ~((live'[r].incident = i) <=> HasOpenRow(i, r)') /\ ~BeingRecorded(i)'
  BY DEF Astray, HasOpenRow, BeingRecorded
<1>2. CASE BeingRecorded(i)
  BY <1>1, <1>2, RecordStrays
<1>3. CASE ~BeingRecorded(i)
  <2>1. (live[r].incident = i) <=> HasOpenRow(i, r)
    BY <1>3 DEF Astray
  <2>2. HasOpenRow(i, r)' <=> HasOpenRow(i, r)
    BY <1>3, OpenRowStands
  <2>3. ~((live'[r].incident = i) <=> (live[r].incident = i)) /\ live'[r] # live[r]
    BY <1>1, <2>1, <2>2
  <2>4. QED
    BY <1>1, <2>3, SaveStrays
<1>4. QED
  BY <1>2, <1>3

\* Each incident that goes astray is paid for by a fault.
LEMMA AstrayStep ==
  ASSUME IndInv, OwnerInv, TablesInv, OneEvaluatorPerRule, [Next]_vars, NEW r \in Rules
  PROVE  IsFiniteSet(Astray(r)') /\ Cardinality(Astray(r)') <= faults'
<1>1. PICK T : T = Astray(r)
  OBVIOUS
<1>2. PICK U : U = Astray(r)'
  OBVIOUS
<1>3. IsFiniteSet(T) /\ Cardinality(T) \in Nat /\ Cardinality(T) <= faults
  BY <1>1, FS_CardinalityType DEF TablesInv
<1>4. faults \in Nat /\ faults' \in Nat /\ (faults' = faults \/ faults' = faults + 1)
  BY FaultsGrow DEF IndInv
<1>5. CASE U \subseteq T
  <2>1. IsFiniteSet(U) /\ Cardinality(U) <= Cardinality(T) /\ Cardinality(U) \in Nat
    BY <1>3, <1>5, FS_Subset, FS_CardinalityType
  <2>2. QED
    BY <1>2, <1>3, <1>4, <2>1
<1>6. ASSUME NEW i \in U, i \notin T
      PROVE  IsFiniteSet(U) /\ Cardinality(U) <= faults'
  <2>1. U \subseteq Incidents
    BY <1>2 DEF Astray
  <2>2. PICK e \in Evaluators : /\ pc[e] # "idle" /\ job[e].rule = r
                                /\ BreaksOff(e, i) \/ BlanksOut(e, i)
    BY <1>1, <1>2, <1>6, <2>1, NewStray
  <2>3. ASSUME NEW j \in U, j \notin T
        PROVE  j = i
    <3>1. PICK d \in Evaluators : /\ pc[d] # "idle" /\ job[d].rule = r
                                  /\ BreaksOff(d, j) \/ BlanksOut(d, j)
      BY <1>1, <1>2, <2>1, <2>3, NewStray
    <3>2. d = e
      BY <2>2, <3>1, SoleServer
    <3>3. QED
      BY <2>2, <3>1, <3>2 DEF BreaksOff, BlanksOut
  <2>4. U \subseteq T \cup {i}
    BY <2>3
  <2>5. IsFiniteSet(U) /\ Cardinality(U) \in Nat /\ Cardinality(U) <= Cardinality(T) + 1
    BY <1>3, <2>4, OneMore
  <2>6. CASE BreaksOff(e, i)
    BY <1>3, <1>4, <2>5, <2>6 DEF BreaksOff
  <2>7. CASE BlanksOut(e, i)
    <3>1. Cardinality(T) < faults
      BY <1>1, <2>2, <2>7 DEF BlanksOut, TablesInv, WritesInOrder
    <3>2. QED
      BY <1>3, <1>4, <2>5, <3>1
  <2>8. QED
    BY <2>2, <2>5, <2>6, <2>7
<1>7. QED
  BY <1>2, <1>5, <1>6

\* While evalOne goes on without writing, nothing of its rule goes astray.
LEMMA NothingStrays ==
  ASSUME IndInv, OwnerInv, TablesInv, OneEvaluatorPerRule, [Next]_vars,
         NEW d \in Evaluators, NEW r \in Rules, job[d].rule = r,
         pc[d] \in {"errload", "errsave"}, live'[r] = live[r]
  PROVE  Cardinality(Astray(r)') <= Cardinality(Astray(r))
<1>1. PICK T : T = Astray(r)
  OBVIOUS
<1>2. PICK U : U = Astray(r)'
  OBVIOUS
<1>3. IsFiniteSet(T)
  BY <1>1 DEF TablesInv
<1>4. U \subseteq Incidents
  BY <1>2 DEF Astray
<1>5. ASSUME NEW i \in U, i \notin T
      PROVE  FALSE
  <2>1. PICK e \in Evaluators :
          /\ pc[e] # "idle" /\ job[e].rule = r
          /\ BreaksOff(e, i) \/ (BlanksOut(e, i) /\ live'[r] # live[r])
    BY <1>1, <1>2, <1>4, <1>5, NewStray
  <2>2. e = d
    BY <2>1, SoleServer
  <2>3. QED
    BY <2>1, <2>2 DEF BreaksOff
<1>6. U \subseteq T
  BY <1>5
<1>7. Cardinality(U) <= Cardinality(T)
  BY <1>3, <1>6, FS_Subset
<1>8. QED
  BY <1>1, <1>2, <1>7

\* The row of a call that does not move stays: only that call writes it.
LEMMA OwnLiveStands ==
  ASSUME IndInv, OwnerInv, OneEvaluatorPerRule, [Next]_vars,
         NEW d \in Evaluators, pc[d] # "idle", pc'[d] = pc[d]
  PROVE  live'[job[d].rule] = live[job[d].rule]
<1>1. TypeOK /\ job[d].rule \in Rules
  BY DEF IndInv, TypeOK, Job
<1>2. ASSUME NEW e \in Evaluators, SaveLiveState(e) \/ SaveForError(e),
             pc[e] \in {"save", "errsave"}, job[e].rule = job[d].rule
      PROVE  FALSE
  <2>1. e = d
    BY <1>2, SoleServer
  <2>2. pc'[e] # pc[e]
    BY <1>1, <1>2 DEF SaveLiveState, SaveForError, Return, Goto, TypeOK
  <2>3. QED
    BY <2>1, <2>2
<1>3. QED
  BY <1>1, <1>2, LiveShape

\* What a call knows of the tables stays true while others move.
LEMMA WritesStand ==
  ASSUME IndInv, OwnerInv, TablesInv, OneEvaluatorPerRule, [Next]_vars,
         NEW d \in Evaluators, LocalsStand(d)
  PROVE  WritesInOrder(d)'
<1>1. PICK r \in Rules : r = job[d].rule
  BY DEF IndInv, TypeOK, Job
<1>2. /\ pc'[d] = pc[d] /\ job'[d] = job[d] /\ ls'[d] = ls[d] /\ tr'[d] = tr[d]
      /\ job'[d].rule = r
  BY <1>1 DEF LocalsStand
<1>3. WritesInOrder(d)
  BY DEF TablesInv
<1>4. pc[d] # "idle" => live'[r] = live[r]
  BY <1>1, <1>2, OwnLiveStands
<1>5. ASSUME pc[d] \in {"save", "incident"}, Opened(tr[d]), NEW x \in incidents'
      PROVE  x.id # tr[d].incident
  <2>1. CASE x \in incidents
    BY <1>3, <1>5, <2>1 DEF WritesInOrder
  <2>2. ASSUME NEW e \in Evaluators, pc[e] = "incident", pc'[e] \in {"list", "idle"},
               x.id = tr[e].incident, Minted(x.id), x.id = tr[d].incident
        PROVE  FALSE
    <3>1. e = d
      BY <2>2, SoleTeller DEF Minted
    <3>2. QED
      BY <1>2, <2>2, <3>1
  <2>3. QED
    BY <2>1, <2>2, RowShape
<1>6. ASSUME pc[d] = "errsave", Cardinality(Astray(r)) < faults
      PROVE  (Cardinality(Astray(job[d].rule)) < faults)'
  <2>1. PICK T : T = Astray(r)
    OBVIOUS
  <2>2. PICK U : U = Astray(r)'
    OBVIOUS
  <2>3. IsFiniteSet(T) /\ IsFiniteSet(U)
    BY <2>1, <2>2, AstrayStep DEF TablesInv
  <2>4. Cardinality(U) <= Cardinality(T) /\ Cardinality(U) \in Nat /\ Cardinality(T) \in Nat
    BY <1>1, <1>4, <1>6, <2>1, <2>2, <2>3, NothingStrays, FS_CardinalityType
  <2>5. Cardinality(U) < faults'
    BY <1>6, <2>1, <2>4, FaultsGrow DEF IndInv
  <2>6. U = Astray(job[d].rule)'
    BY <1>2, <2>2 DEF Astray, HasOpenRow, BeingRecorded
  <2>7. QED
    BY <2>5, <2>6
<1>7. QED
  BY <1>1, <1>2, <1>3, <1>4, <1>5, <1>6 DEF WritesInOrder, Opened, AfterApply

\* A load leaves the call with what it is to write next.
LEMMA LoadKnowsTheRow ==
  ASSUME IndInv, OwnerInv, TablesInv, [Next]_vars, NEW d \in Evaluators, LoadLiveState(d)
  PROVE  WritesInOrder(d)'
<1>1. TypeOK /\ live' = live /\ incidents' = incidents /\ job' = job /\ pc'[d] = "save"
  BY DEF IndInv, TypeOK, LoadLiveState, Goto, tables
<1>2. pc[d] = "load" /\ job[d].now > 0
  BY DEF IndInv, CycleInv, TickCycle, LoadLiveState
<1>3. PICK row : row = live[job[d].rule]
  OBVIOUS
<1>4. PICK id \in Incidents \cup {NoIncident} :
        /\ Opens(row, job[d].triggered) => id \in Unminted
        /\ ~Opens(row, job[d].triggered) => id = NoIncident
        /\ tr'[d] = TransitionOf(row, job[d].triggered, job[d].now, id)
        /\ row \in LiveState /\ job[d] \in Job
  BY <1>3, LoadShape
<1>5. tr'[d].prev = row.state
  BY <1>4 DEF TransitionOf
<1>6. ASSUME row.state = "firing" PROVE row.incident = tr'[d].incident
  BY <1>4, <1>6 DEF TransitionOf, Applied, Opens, Closes
<1>7. ASSUME Opened(tr[d])', NEW x \in incidents PROVE x.id # tr'[d].incident
  <2>1. row.state = "ok" /\ job[d].triggered
    BY <1>4, <1>7 DEF Opened, TransitionOf, StateFor, Job
  <2>2. id \in Unminted /\ id # NoIncident
    BY <1>4, <2>1, NoIncidentAssumption DEF Opens, Unminted
  <2>3. tr'[d].incident = id
    BY <1>4, <2>1, <2>2 DEF TransitionOf, Applied, Opens
  <2>4. Minted(x.id)
    BY DEF OwnerInv, ResolvedRowIsOver
  <2>5. QED
    BY <2>2, <2>3, <2>4 DEF Minted, Unminted
<1>8. QED
  BY <1>1, <1>2, <1>3, <1>5, <1>6, <1>7 DEF WritesInOrder

\* evalOne saves what it read, or a blank row that a fault has paid for.
LEMMA ErrorReadIsPaid ==
  ASSUME IndInv, OwnerInv, TablesInv, OneEvaluatorPerRule, [Next]_vars,
         NEW d \in Evaluators, LoadForError(d)
  PROVE  WritesInOrder(d)'
<1>1. PICK r \in Rules : r = job[d].rule
  BY DEF IndInv, TypeOK, Job
<1>2. /\ pc[d] = "errload" /\ pc'[d] = "errsave" /\ job' = job /\ live' = live
  BY DEF IndInv, TypeOK, LoadForError, Goto, tables
<1>3. PICK found \in BOOLEAN :
        Reported(found) /\ ls'[d] = IF found THEN live[r] ELSE OKState
  BY <1>1 DEF LoadForError, IndInv, TypeOK
<1>4. CASE found
  BY <1>1, <1>2, <1>3, <1>4 DEF WritesInOrder, AfterApply
<1>5. CASE ~found
  <2>1. PICK T : T = Astray(r)
    OBVIOUS
  <2>2. PICK U : U = Astray(r)'
    OBVIOUS
  <2>3. IsFiniteSet(T) /\ Cardinality(T) <= faults /\ IsFiniteSet(U)
    BY <2>1, <2>2, AstrayStep DEF TablesInv
  <2>4. Cardinality(U) <= Cardinality(T) /\ Cardinality(U) \in Nat /\ Cardinality(T) \in Nat
    BY <1>1, <1>2, <2>1, <2>2, <2>3, NothingStrays, FS_CardinalityType
  <2>5. faults' = faults + 1 /\ faults \in Nat
    BY <1>3, <1>5 DEF Reported, Fault, IndInv, TypeOK
  <2>6. Cardinality(U) < faults'
    BY <2>3, <2>4, <2>5
  <2>7. U = Astray(job[d].rule)'
    BY <1>1, <1>2, <2>2 DEF Astray, HasOpenRow, BeingRecorded
  <2>8. (Cardinality(Astray(job[d].rule)) < faults)'
    BY <2>6, <2>7
  <2>9. QED
    BY <1>2, <1>3, <1>5, <2>8 DEF WritesInOrder, AfterApply
<1>6. QED
  BY <1>4, <1>5

\* A Tick that goes on has what it saved in the table.
LEMMA SavedIsKnown ==
  ASSUME IndInv, OwnerInv, TablesInv, OneEvaluatorPerRule, [Next]_vars,
         NEW d \in Evaluators, StepOf(d), GoesOn(d)
  PROVE  WritesInOrder(d)'
<1>1. TypeOK /\ TickCycle(d) /\ WritesInOrder(d)
  BY DEF IndInv, CycleInv, TablesInv
<1>2. /\ job'[d] = job[d] /\ ls'[d] = ls[d] /\ tr'[d] = tr[d]
      /\ pc[d] \in AfterApply /\ pc'[d] \in PastSave
      /\ pc'[d] = "incident" => pc[d] = "save"
  BY DEF GoesOn
<1>3. job[d].now > 0
  BY <1>1, <1>2 DEF WritesInOrder
<1>4. ASSUME pc'[d] = "incident", Opened(tr[d])
      PROVE  /\ live'[job[d].rule].incident = tr[d].incident
             /\ \A x \in incidents' : x.id # tr[d].incident
  <2>1. SaveLiveState(d)
    BY <1>1, <1>2, <1>4 DEF StepOf, Continue, Evaluate, BeginTick, BeginEvalError,
       LoadLiveState, ReadFails, RecordIncident, ListSubscriptions, PassOver, SubStateFails,
       StartDelivery, Visit, OneShotGate, GateFails, Send, RecordNotification, MarkNotified,
       EndTick, LoadForError, SaveForError
  <2>2. PICK w \in WriteOutcomes :
          /\ live' = IF w.applied THEN [live EXCEPT ![job[d].rule] = ls[d]] ELSE live
          /\ ~w.acked => Return(d)
    BY <2>1 DEF SaveLiveState
  <2>3. w.applied
    BY <1>1, <1>4, <2>2 DEF WriteOutcomes, Return, Goto, TypeOK
  <2>4. live'[job[d].rule] = ls[d]
    BY <1>1, <2>2, <2>3 DEF TypeOK, Job
  <2>5. ls[d].incident = tr[d].incident
    BY <1>1, <1>2, <1>4 DEF TickCycle, Opened
  <2>6. incidents' = incidents
    BY <2>1 DEF SaveLiveState
  <2>7. QED
    BY <1>1, <1>2, <1>4, <2>4, <2>5, <2>6 DEF WritesInOrder
<1>5. QED
  BY <1>2, <1>3, <1>4 DEF WritesInOrder, PastSave, Telling

\* What a call knows of the tables is so after every step.
LEMMA WritesStep ==
  ASSUME IndInv, OwnerInv, TablesInv, OneEvaluatorPerRule, [Next]_vars,
         NEW d \in Evaluators
  PROVE  WritesInOrder(d)'
<1>1. TypeOK
  BY DEF IndInv
<1>2. ASSUME pc'[d] = "idle"
      PROVE  WritesInOrder(d)'
  BY <1>2 DEF WritesInOrder, AfterApply
<1>3. CASE StepOf(d)
  <2>1. CASE pc'[d] \in {"load", "errload"}
    <3>1. pc'[d] = "load" => job'[d].now > 0
      BY CycleStep DEF CycleInv, TickCycle
    <3>2. QED
      BY <2>1, <3>1 DEF WritesInOrder, AfterApply
  <2>2. QED
    BY <1>1, <1>2, <1>3, <2>1, ActorShape, LoadKnowsTheRow, ErrorReadIsPaid, SavedIsKnown
       DEF Returned
<1>4. ASSUME NEW e \in Evaluators, StepOf(e), d # e
      PROVE  WritesInOrder(d)'
  BY <1>1, <1>4, OthersStand, WritesStand
<1>5. CASE Crash
  BY <1>2, <1>5, CrashShape
<1>6. CASE UNCHANGED <<locals, tables, feed, born, faults>>
  BY <1>6, WritesStand DEF LocalsStand, locals
<1>7. QED
  BY <1>3, <1>4, <1>5, <1>6, StepCases

\* Before the first Tick both tables are empty.
LEMMA TablesInit == Init => TablesInv
<1> SUFFICES ASSUME Init PROVE TablesInv
  OBVIOUS
<1>1. /\ faults = 0 /\ pc = [e \in Evaluators |-> "idle"] /\ incidents = {}
      /\ live = [r \in Rules |-> OKState]
  BY Zenon DEF Init
<1>2. \A r \in Rules : Astray(r) = {}
  BY <1>1, NoIncidentAssumption DEF Astray, HasOpenRow, OKState
<1>3. \A r \in Rules : IsFiniteSet(Astray(r)) /\ Cardinality(Astray(r)) = 0
  BY <1>2, FS_EmptySet
<1>4. \A e \in Evaluators : WritesInOrder(e)
  BY <1>1 DEF WritesInOrder, AfterApply
<1>5. QED
  BY <1>1, <1>3, <1>4 DEF TablesInv, RowsAreOfTheHolder

\* Where a rule has one evaluator, live_states and incidents disagree about
\* at most one of its incidents per fault (Tick writes them one after the
\* other, and the later Ticks do not put right what a lost write left).
THEOREM TablesPartByFaults ==
  ASSUME OneEvaluatorPerRule PROVE Spec => []TablesAgreeUpToFaults
<1>1. Init => TablesInv
  BY TablesInit
<1>2. IndInv /\ OwnerInv /\ TablesInv /\ [Next]_vars => TablesInv'
  <2> SUFFICES ASSUME IndInv, OwnerInv, TablesInv, [Next]_vars PROVE TablesInv'
    OBVIOUS
  <2>1. RowsAreOfTheHolder'
    BY HolderStep DEF TablesInv
  <2>2. QED
    BY <2>1, WritesStep, AstrayStep DEF TablesInv
<1>3. TablesInv => TablesAgreeUpToFaults
  BY DEF TablesInv, TablesAgreeUpToFaults
<1>4. QED
  BY <1>1, <1>2, <1>3, InvariantHolds, OwnershipHolds, PTL DEF Spec
=============================================================================
