----------------------------- MODULE Dispatcher -----------------------------
(***************************************************************************)
(* The path from an evaluation outcome to the subscribers' channels:       *)
(* Dispatcher.Tick, evaluateSubscription and deliver, as the evaluators    *)
(* call them, over the tables they share.                                  *)
(*                                                                         *)
(* An evaluator is a goroutine (eval.PushEvaluator.Run,                    *)
(* eval.ScheduledEvaluator.Run) that runs one Tick at a time.  Tick takes  *)
(* no lock and no transaction, so every store call and every channel send  *)
(* is a step of its own; what happens between two of them in local         *)
(* variables belongs to the step before.  A store call may fail, and a     *)
(* write whose failure is reported may have reached the database all the   *)
(* same.  A Crash ends the process: the tables stay, the goroutines are    *)
(* gone and start again idle.  Such faults are counted and bounded.        *)
(***************************************************************************)
EXTENDS RuleState, Sequences, FiniteSets

CONSTANTS
  Evaluators,       \* the goroutines that call Tick
  Scheduled,        \* those that run ScheduledEvaluator.evalOne
  Rules,
  Serves,           \* Serves[e]: the rules whose mode routes them to e
  Subs,             \* the subscriptions
  Match,            \* Match[r]: the result of Subscriptions.ListForRule
  Dwell, Repeat,    \* per subscription, 0 for none
  NotifyOnResolve, OneShot,
  Channels,         \* bindings: a channel and the address used on it
  Targets,          \* Targets[s]: the bindings of s's subscriber that pass
                    \* its ChannelFilter and whose channel is configured
  FlakyChannels,    \* channels whose Send may return an error
  MaxTime,          \* bound of the clock
  MaxFaults         \* bound of the faults

ASSUME ConstantsAssumption ==
  /\ Rules # {} /\ Subs # {}
  /\ Scheduled \subseteq Evaluators
  /\ Serves \in [Evaluators -> SUBSET Rules]
  /\ Match \in [Rules -> SUBSET Subs]
  /\ Dwell \in [Subs -> Nat]
  /\ Repeat \in [Subs -> Nat]
  /\ NotifyOnResolve \in [Subs -> BOOLEAN]
  /\ OneShot \in [Subs -> BOOLEAN]
  /\ Targets \in [Subs -> SUBSET Channels]
  /\ FlakyChannels \subseteq Channels
  /\ MaxTime \in Nat
  /\ MaxFaults \in Nat

VARIABLES
  clock,            \* d.now(); 0 is the zero time and never read
  live,             \* table live_states; a missing row reads as OKState
  incidents,        \* table incidents, resolvedAt 0 for NULL
  subStates,        \* table incident_sub_states; a missing row reads as NoSubState
  notifications,    \* table notifications, without its random ids
  pc,               \* where each evaluator is in Tick or evalOne
  job,              \* Tick's arguments and its now
  ls,               \* Tick's ls
  tr,               \* Tick's t
  todo,             \* the subs Tick's loop has still to visit
  dlv,              \* evaluateSubscription's sub, state and kind to deliver
  left,             \* the bindings deliver's loop has still to send on
  audit,            \* deliver's audit row, not yet recorded
  feed,             \* what was handed to a channel, per incident, sub and binding
  born,             \* when the incident id was minted, 0 when it was not
  faults            \* the faults so far

tables == <<live, incidents, subStates, notifications>>
locals == <<pc, job, ls, tr, todo, dlv, left, audit>>
vars == <<clock, tables, locals, feed, born, faults>>

Kinds == {"firing", "repeat", "resolved"}

SubState == [count : Nat, lastNotifiedAt : Nat, resolutionSent : BOOLEAN]

NoSubState == [count |-> 0, lastNotifiedAt |-> 0, resolutionSent |-> FALSE]

Incident == [id : Incidents, rule : Rules, triggeredAt : Nat, resolvedAt : Nat]

Message == [kind : Kinds, at : Nat, ok : BOOLEAN]

Notification == [incident : Incidents, sub : Subs, channel : Channels, kind : Kinds,
                 at : Nat, ok : BOOLEAN]

PCs == {"idle", "load", "save", "incident", "list", "each", "gate", "send", "record",
        "errload", "errsave"}

Job == [rule : Rules, triggered : BOOLEAN, now : Nat]

NoJob == [rule |-> CHOOSE r \in Rules : TRUE, triggered |-> FALSE, now |-> 0]

Delivery == [sub : Subs, kind : Kinds, st : SubState]

NoDelivery == [sub |-> CHOOSE s \in Subs : TRUE, kind |-> "firing", st |-> NoSubState]

Init ==
  /\ clock = 1
  /\ live = [r \in Rules |-> OKState]
  /\ incidents = {}
  /\ subStates = [i \in Incidents |-> [s \in Subs |-> NoSubState]]
  /\ notifications = {}
  /\ pc = [e \in Evaluators |-> "idle"]
  /\ job = [e \in Evaluators |-> NoJob]
  /\ ls = [e \in Evaluators |-> OKState]
  /\ tr = [e \in Evaluators |-> NoTransition]
  /\ todo = [e \in Evaluators |-> {}]
  /\ dlv = [e \in Evaluators |-> NoDelivery]
  /\ left = [e \in Evaluators |-> {}]
  /\ audit = [e \in Evaluators |-> {}]
  /\ feed = [i \in Incidents |-> [s \in Subs |-> [c \in Channels |-> <<>>]]]
  /\ born = [i \in Incidents |-> 0]
  /\ faults = 0

Goto(e, label) == pc' = [pc EXCEPT ![e] = label]

\* The call returns, and its locals with it.
Return(e) ==
  /\ Goto(e, "idle")
  /\ job' = [job EXCEPT ![e] = NoJob]
  /\ ls' = [ls EXCEPT ![e] = OKState]
  /\ tr' = [tr EXCEPT ![e] = NoTransition]
  /\ todo' = [todo EXCEPT ![e] = {}]
  /\ dlv' = [dlv EXCEPT ![e] = NoDelivery]
  /\ UNCHANGED <<left, audit>>

\* A call that fails, or a write that does: reported as failed, it may have
\* been applied all the same.
Fault == faults < MaxFaults /\ faults' = faults + 1

Reported(acked) == IF acked THEN UNCHANGED faults ELSE Fault

WriteOutcomes == {w \in [acked : BOOLEAN, applied : BOOLEAN] : w.acked => w.applied}

Unminted == {i \in Incidents : born[i] = 0}

\* An evaluator calls Tick.  The number of incidents is bounded here.
BeginTick(e, r, triggered) ==
  /\ pc[e] = "idle"
  /\ r \in Serves[e]
  /\ Opens(live[r], triggered) => Unminted # {}
  /\ Goto(e, "load")
  /\ job' = [job EXCEPT ![e] = [rule |-> r, triggered |-> triggered, now |-> clock]]
  /\ UNCHANGED <<clock, tables, ls, tr, todo, dlv, left, audit, feed, born, faults>>

\* LiveStates.Get, then the id is minted if one is needed, then rule.Apply.
LoadLiveState(e) ==
  LET row == live[job[e].rule]
      triggered == job[e].triggered
      now == job[e].now
  IN /\ pc[e] = "load"
     /\ Goto(e, "save")
     /\ \E id \in (IF Opens(row, triggered) THEN Unminted ELSE {NoIncident}) :
          /\ born' = [i \in Incidents |-> IF i = id THEN now ELSE born[i]]
          /\ ls' = [ls EXCEPT ![e] = Applied(row, triggered, now, id)]
          /\ tr' = [tr EXCEPT ![e] = TransitionOf(row, triggered, now, id)]
     /\ UNCHANGED <<clock, tables, job, todo, dlv, left, audit, feed, faults>>

\* LiveStates.Get or Subscriptions.ListForRule fails: Tick returns the error.
ReadFails(e) ==
  /\ pc[e] \in {"load", "list"}
  /\ Return(e)
  /\ Fault
  /\ UNCHANGED <<clock, tables, feed, born>>

\* Mutant: the error of the Upsert is dropped and Tick goes on.
SaveLiveStateUnchecked(e) ==
  /\ pc[e] = "save"
  /\ \E w \in WriteOutcomes :
       /\ Reported(w.acked)
       /\ live' = IF w.applied THEN [live EXCEPT ![job[e].rule] = ls[e]] ELSE live
  /\ Goto(e, IF Opened(tr[e]) \/ Closed(tr[e]) THEN "incident" ELSE "list")
  /\ UNCHANGED <<clock, incidents, subStates, notifications, job, ls, tr, todo, dlv, left, audit,
                 feed, born>>

\* LiveStates.Upsert.  On an error Tick returns.
SaveLiveState(e) ==
  /\ pc[e] = "save"
  /\ \E w \in WriteOutcomes :
       /\ Reported(w.acked)
       /\ live' = IF w.applied THEN [live EXCEPT ![job[e].rule] = ls[e]] ELSE live
       /\ IF w.acked
            THEN /\ Goto(e, IF Opened(tr[e]) \/ Closed(tr[e]) THEN "incident" ELSE "list")
                 /\ UNCHANGED <<job, ls, tr, todo, dlv, left, audit>>
            ELSE Return(e)
  /\ UNCHANGED <<clock, incidents, subStates, notifications, feed, born>>

\* Mutant: Resolve updates by rule and not by id.
IncidentsAfterByRule(e) ==
  IF Opened(tr[e])
    THEN incidents \cup {[id |-> tr[e].incident, rule |-> job[e].rule,
                          triggeredAt |-> ls[e].triggeredAt, resolvedAt |-> 0]}
    ELSE {IF x.rule # job[e].rule THEN x
          ELSE [id |-> x.id, rule |-> x.rule, triggeredAt |-> x.triggeredAt,
                resolvedAt |-> job[e].now] : x \in incidents}

\* The incidents table after Incidents.Open or Incidents.Resolve; an UPDATE
\* of a row that is not there changes nothing and is no error.
IncidentsAfter(e) ==
  IF Opened(tr[e])
    THEN incidents \cup {[id |-> tr[e].incident, rule |-> job[e].rule,
                          triggeredAt |-> ls[e].triggeredAt, resolvedAt |-> 0]}
    ELSE {IF x.id # tr[e].incident THEN x
          ELSE [id |-> x.id, rule |-> x.rule, triggeredAt |-> x.triggeredAt,
                resolvedAt |-> job[e].now] : x \in incidents}

\* Incidents.Open or Incidents.Resolve.  On an error Tick returns.
RecordIncident(e) ==
  /\ pc[e] = "incident"
  /\ \E w \in WriteOutcomes :
       /\ Reported(w.acked)
       /\ incidents' = IF w.applied THEN IncidentsAfter(e) ELSE incidents
       /\ IF w.acked THEN Goto(e, "list") /\ UNCHANGED <<job, ls, tr, todo, dlv, left, audit>>
                     ELSE Return(e)
  /\ UNCHANGED <<clock, live, subStates, notifications, feed, born>>

ListSubscriptions(e) ==
  /\ pc[e] = "list"
  /\ Goto(e, "each")
  /\ todo' = [todo EXCEPT ![e] = Match[job[e].rule]]
  /\ UNCHANGED <<clock, tables, job, ls, tr, dlv, left, audit, feed, born, faults>>

\* Mutant: the id is looked for in the state, where Apply has cleared it.
ResolutionPathOfState(e) == Closed(tr[e]) /\ ls[e].incident # NoIncident

\* evaluateSubscription up to its call of deliver.  The incident it is about
\* is the transition's in both branches.
ResolutionPath(e) == Closed(tr[e]) /\ tr[e].incident # NoIncident

\* Mutants: no dwell; the dwell has to have elapsed to the tick.
FiringPathAtOnce(e, s) == ~ResolutionPath(e) /\ ls[e].state = "firing"

FiringPathExact(e, s) == /\ ~ResolutionPath(e)
                         /\ ls[e].state = "firing"
                         /\ job[e].now = ls[e].triggeredAt + Dwell[s]

FiringPath(e, s) == /\ ~ResolutionPath(e)
                    /\ ls[e].state = "firing"
                    /\ job[e].now >= ls[e].triggeredAt + Dwell[s]

ReadsSubState(e, s) == ResolutionPath(e) \/ FiringPath(e, s)

\* Mutant: a resolution is due to those who were never told.
IsDueUntold(e, s, st, kind) ==
  \/ kind = "resolved" /\ ResolutionPath(e) /\ ~st.resolutionSent /\ NotifyOnResolve[s]
  \/ kind = "firing" /\ FiringPath(e, s) /\ st.count = 0
  \/ /\ kind = "repeat" /\ FiringPath(e, s) /\ st.count > 0
     /\ Repeat[s] > 0 /\ job[e].now >= st.lastNotifiedAt + Repeat[s]

IsDue(e, s, st, kind) ==
  \/ /\ kind = "resolved"
     /\ ResolutionPath(e)
     /\ st.count > 0 /\ ~st.resolutionSent /\ NotifyOnResolve[s]
  \/ /\ kind = "firing"
     /\ FiringPath(e, s)
     /\ st.count = 0
  \/ /\ kind = "repeat"
     /\ FiringPath(e, s)
     /\ st.count > 0
     /\ Repeat[s] > 0 /\ job[e].now >= st.lastNotifiedAt + Repeat[s]

\* The row read: only asked for on the two paths above.
SubStateOf(e, s) == IF ReadsSubState(e, s) THEN subStates[tr[e].incident][s] ELSE NoSubState

\* evaluateSubscription for the next sub of the list is over or under way.
Visit(e, s) == pc[e] = "each" /\ s \in todo[e] /\ todo' = [todo EXCEPT ![e] = @ \ {s}]

\* The next sub has nothing due.
PassOver(e, s) ==
  /\ Visit(e, s)
  /\ \A kind \in Kinds : ~IsDue(e, s, SubStateOf(e, s), kind)
  /\ UNCHANGED <<clock, tables, pc, job, ls, tr, dlv, left, audit, feed, born, faults>>

\* IncidentSubStates.Get fails: the error is logged and the loop goes on.
SubStateFails(e, s) ==
  /\ Visit(e, s)
  /\ ReadsSubState(e, s)
  /\ Fault
  /\ UNCHANGED <<clock, tables, pc, job, ls, tr, dlv, left, audit, feed, born>>

StartDelivery(e, s, kind) ==
  /\ Visit(e, s)
  /\ IsDue(e, s, SubStateOf(e, s), kind)
  /\ Goto(e, "gate")
  /\ dlv' = [dlv EXCEPT ![e] = [sub |-> s, kind |-> kind, st |-> SubStateOf(e, s)]]
  /\ UNCHANGED <<clock, tables, job, ls, tr, left, audit, feed, born, faults>>

\* Notifications.ExistsForSubscription
Notified(s) == \E n \in notifications : n.sub = s

\* Mutant: the gate looks for a row of this incident.
OneShotGatePerIncident(e) ==
  /\ pc[e] = "gate"
  /\ Goto(e, "send")
  /\ left' = [left EXCEPT ![e] =
                IF /\ OneShot[dlv[e].sub]
                   /\ \E n \in notifications : n.sub = dlv[e].sub /\ n.incident = tr[e].incident
                  THEN {} ELSE Targets[dlv[e].sub]]
  /\ UNCHANGED <<clock, tables, job, ls, tr, todo, dlv, audit, feed, born, faults>>

\* deliver up to its loop: the one-shot gate, then the subscriber's row.  A
\* one-shot subscription with a row is not sent anything, and deliver
\* returns nil as if it had been.
OneShotGate(e) ==
  /\ pc[e] = "gate"
  /\ Goto(e, "send")
  /\ left' = [left EXCEPT ![e] = IF OneShot[dlv[e].sub] /\ Notified(dlv[e].sub) THEN {}
                                 ELSE Targets[dlv[e].sub]]
  /\ UNCHANGED <<clock, tables, job, ls, tr, todo, dlv, audit, feed, born, faults>>

\* ExistsForSubscription or Subscribers.Get fails: deliver returns the error,
\* and evaluateSubscription leaves the sub state as it was.
GateFails(e) ==
  /\ pc[e] = "gate"
  /\ Goto(e, "each")
  /\ Fault
  /\ UNCHANGED <<clock, tables, job, ls, tr, todo, dlv, left, audit, feed, born>>

\* What deliver hands the channel, with what Send reports.
Outgoing(e, ok) == [kind |-> dlv[e].kind, at |-> job[e].now, ok |-> ok]

\* ch.Send on the next binding, which may report an error.
Send(e, c, ok) ==
  LET i == tr[e].incident
      s == dlv[e].sub
  IN /\ pc[e] = "send" /\ c \in left[e]
     /\ ok \/ c \in FlakyChannels
     /\ Goto(e, "record")
     /\ feed' = [feed EXCEPT ![i][s][c] = Append(@, Outgoing(e, ok))]
     /\ left' = [left EXCEPT ![e] = @ \ {c}]
     /\ audit' = [audit EXCEPT ![e] =
                    {[incident |-> i, sub |-> s, channel |-> c, kind |-> dlv[e].kind,
                      at |-> job[e].now, ok |-> ok]}]
     /\ UNCHANGED <<clock, tables, job, ls, tr, todo, dlv, born, faults>>

\* Mutant: the table keeps one row per incident, subscription and channel.
RecordReplacing(e) ==
  /\ pc[e] = "record"
  /\ Goto(e, "send")
  /\ \E w \in WriteOutcomes :
       /\ Reported(w.acked)
       /\ notifications' =
            IF w.applied
              THEN audit[e] \cup {n \in notifications : \A m \in audit[e] :
                     <<n.incident, n.sub, n.channel>> # <<m.incident, m.sub, m.channel>>}
              ELSE notifications
  /\ audit' = [audit EXCEPT ![e] = {}]
  /\ UNCHANGED <<clock, live, incidents, subStates, job, ls, tr, todo, dlv, left, feed, born>>

\* Notifications.Record.  An error is logged and nothing else.
RecordNotification(e) ==
  /\ pc[e] = "record"
  /\ Goto(e, "send")
  /\ \E w \in WriteOutcomes :
       /\ Reported(w.acked)
       /\ notifications' = IF w.applied THEN notifications \cup audit[e] ELSE notifications
  /\ audit' = [audit EXCEPT ![e] = {}]
  /\ UNCHANGED <<clock, live, incidents, subStates, job, ls, tr, todo, dlv, left, feed, born>>

\* Mutant: the time of a repeat is not kept.
MarkedOnceOnly(e) ==
  IF dlv[e].kind = "firing"
    THEN [count |-> 1, lastNotifiedAt |-> job[e].now, resolutionSent |-> dlv[e].st.resolutionSent]
    ELSE [dlv[e].st EXCEPT !.count = @ + 1, !.resolutionSent = @ \/ dlv[e].kind = "resolved"]

\* The row evaluateSubscription writes after a delivery.
Marked(e) ==
  LET st == dlv[e].st
      now == job[e].now
  IN CASE dlv[e].kind = "firing" ->
            [count |-> 1, lastNotifiedAt |-> now, resolutionSent |-> st.resolutionSent]
       [] dlv[e].kind = "repeat" ->
            [count |-> st.count + 1, lastNotifiedAt |-> now, resolutionSent |-> st.resolutionSent]
       [] dlv[e].kind = "resolved" ->
            [count |-> st.count, lastNotifiedAt |-> st.lastNotifiedAt, resolutionSent |-> TRUE]

\* deliver has returned nil: IncidentSubStates.Upsert.  An error is logged.
MarkNotified(e) ==
  /\ pc[e] = "send" /\ left[e] = {}
  /\ Goto(e, "each")
  /\ \E w \in WriteOutcomes :
       /\ Reported(w.acked)
       /\ subStates' = IF w.applied
                         THEN [subStates EXCEPT ![tr[e].incident][dlv[e].sub] = Marked(e)]
                         ELSE subStates
  /\ dlv' = [dlv EXCEPT ![e] = NoDelivery]
  /\ UNCHANGED <<clock, live, incidents, notifications, job, ls, tr, todo, left, audit, feed, born>>

EndTick(e) ==
  /\ pc[e] = "each" /\ todo[e] = {}
  /\ Return(e)
  /\ UNCHANGED <<clock, tables, feed, born, faults>>

\* evalOne when the evaluation itself fails: Get, then Upsert of what was
\* got, both without a look at their error; a failed Get counts as no row.
BeginEvalError(e, r) ==
  /\ e \in Scheduled
  /\ pc[e] = "idle"
  /\ r \in Serves[e]
  /\ Goto(e, "errload")
  /\ job' = [job EXCEPT ![e] = [rule |-> r, triggered |-> FALSE, now |-> clock]]
  /\ Fault
  /\ UNCHANGED <<clock, tables, ls, tr, todo, dlv, left, audit, feed, born>>

LoadForError(e) ==
  /\ pc[e] = "errload"
  /\ Goto(e, "errsave")
  /\ \E found \in BOOLEAN :
       /\ Reported(found)
       /\ ls' = [ls EXCEPT ![e] = IF found THEN live[job[e].rule] ELSE OKState]
  /\ UNCHANGED <<clock, tables, job, tr, todo, dlv, left, audit, feed, born>>

SaveForError(e) ==
  /\ pc[e] = "errsave"
  /\ \E w \in WriteOutcomes :
       /\ Reported(w.acked)
       /\ live' = IF w.applied THEN [live EXCEPT ![job[e].rule] = ls[e]] ELSE live
  /\ Return(e)
  /\ UNCHANGED <<clock, incidents, subStates, notifications, feed, born>>

\* The process dies and is started again on the same database.
Crash ==
  /\ \E e \in Evaluators : pc[e] # "idle"
  /\ pc' = [e \in Evaluators |-> "idle"]
  /\ job' = [e \in Evaluators |-> NoJob]
  /\ ls' = [e \in Evaluators |-> OKState]
  /\ tr' = [e \in Evaluators |-> NoTransition]
  /\ todo' = [e \in Evaluators |-> {}]
  /\ dlv' = [e \in Evaluators |-> NoDelivery]
  /\ left' = [e \in Evaluators |-> {}]
  /\ audit' = [e \in Evaluators |-> {}]
  /\ Fault
  /\ UNCHANGED <<clock, tables, feed, born>>

AdvanceClock ==
  /\ clock < MaxTime
  /\ clock' = clock + 1
  /\ UNCHANGED <<tables, locals, feed, born, faults>>

\* The steps of a call under way, the ones Go runs without waiting for more.
Continue(e) ==
  \/ LoadLiveState(e)
  \/ ReadFails(e)
  \/ SaveLiveState(e)
  \/ RecordIncident(e)
  \/ ListSubscriptions(e)
  \/ \E s \in Subs : PassOver(e, s) \/ SubStateFails(e, s)
  \/ \E s \in Subs, kind \in Kinds : StartDelivery(e, s, kind)
  \/ OneShotGate(e)
  \/ GateFails(e)
  \/ \E c \in Channels, ok \in BOOLEAN : Send(e, c, ok)
  \/ RecordNotification(e)
  \/ MarkNotified(e)
  \/ EndTick(e)
  \/ LoadForError(e)
  \/ SaveForError(e)

Evaluate(e, r) == \E triggered \in BOOLEAN : BeginTick(e, r, triggered)

Next ==
  \/ \E e \in Evaluators, r \in Rules : Evaluate(e, r) \/ BeginEvalError(e, r)
  \/ \E e \in Evaluators : Continue(e)
  \/ Crash
  \/ AdvanceClock

Spec == Init /\ [][Next]_vars

\* ScheduledEvaluator.Run visits every rule whose schedule has elapsed on
\* every ticker tick, so it returns to each rule it serves; a call under way
\* runs on.  Nothing brings the push evaluator another record.
Fairness ==
  /\ \A e \in Evaluators : WF_vars(Continue(e))
  /\ \A e \in Scheduled : \A r \in Serves[e] : SF_vars(Evaluate(e, r))

FairSpec == Spec /\ Fairness

-----------------------------------------------------------------------------
\* Every variable holds a value of the Go type it stands for.
TypeOK ==
  /\ clock \in Nat
  /\ live \in [Rules -> LiveState]
  /\ incidents \subseteq Incident
  /\ subStates \in [Incidents -> [Subs -> SubState]]
  /\ notifications \subseteq Notification
  /\ pc \in [Evaluators -> PCs]
  /\ job \in [Evaluators -> Job]
  /\ ls \in [Evaluators -> LiveState]
  /\ tr \in [Evaluators -> Transition]
  /\ todo \in [Evaluators -> SUBSET Subs]
  /\ dlv \in [Evaluators -> Delivery]
  /\ left \in [Evaluators -> SUBSET Channels]
  /\ audit \in [Evaluators -> SUBSET Notification]
  /\ feed \in [Incidents -> [Subs -> [Channels -> Seq(Message)]]]
  /\ born \in [Incidents -> Nat]
  /\ faults \in Nat

\* No alarm or repeat of an incident is sent before the incident has lasted
\* the subscription's dwell: not after a restart, a failed write or beside
\* another evaluator of the same rule (evaluateSubscription's dwell test, on
\* a TriggeredAt that has been through live_states).
DwellRespected ==
  \A i \in Incidents, s \in Subs, c \in Channels :
    \A n \in DOMAIN feed[i][s][c] :
      feed[i][s][c][n].kind # "resolved" => feed[i][s][c][n].at >= born[i] + Dwell[s]

\* The first message of an incident on a channel is the firing one: neither a
\* repeat nor a resolution reaches a channel that was not offered the alarm
\* (NotifyCount guarding the two other kinds, the one-shot gate included).
FeedsStartWithFiring ==
  \A i \in Incidents, s \in Subs, c \in Channels :
    feed[i][s][c] # <<>> => feed[i][s][c][1].kind = "firing"

\* Where one evaluator serves a rule: a resolution is the last message of its
\* incident on a channel, whatever fails (the live state is cleared before
\* anyone is told, so no later Tick knows the incident).
ResolvedIsLast ==
  \A i \in Incidents, s \in Subs, c \in Channels :
    \A n \in DOMAIN feed[i][s][c] :
      feed[i][s][c][n].kind = "resolved" => n = Len(feed[i][s][c])

\* The messages a subscriber should not have had: a second alarm, or a repeat
\* within RepeatInterval of the message before it.
TooSoon(i, s, c) ==
  LET f == feed[i][s][c]
  IN {n \in 2..Len(f) : \/ f[n].kind = "firing"
                        \/ f[n].kind = "repeat" /\ f[n].at < f[n - 1].at + Repeat[s]}

\* Where one evaluator serves a rule: each fault costs a channel at most one
\* such message (a send whose sub state was not saved is sent again).
TooSoonOnlyByFaults ==
  \A i \in Incidents, s \in Subs, c \in Channels :
    Cardinality(TooSoon(i, s, c)) <= faults

BeingRecorded(i) == \E e \in Evaluators : pc[e] = "incident" /\ tr[e].incident = i

HasOpenRow(i, r) == \E x \in incidents : x.id = i /\ x.rule = r /\ x.resolvedAt = 0

\* The incidents about which the two tables disagree, other than one a Tick
\* is about to write: the rule is firing for it without an open row, or the
\* row is open and the rule no longer knows of it.
Astray(r) == {i \in Incidents : /\ (live[r].incident = i) # HasOpenRow(i, r)
                                /\ ~BeingRecorded(i)}

\* Where one evaluator serves a rule: the two tables Tick writes one after
\* the other disagree about at most one of the rule's incidents per fault, so
\* without faults a rule is firing exactly while its incident is open.
TablesAgreeUpToFaults == \A r \in Rules : Cardinality(Astray(r)) <= faults

\* The messages of a subscription on a channel, of all incidents.
Sent(s, c) == UNION {{<<i, n>> : n \in DOMAIN feed[i][s][c]} : i \in Incidents}

\* Where one evaluator serves all of a one-shot subscription's rules: over
\* all incidents and kinds a channel gets one message, and one more for each
\* fault that kept the audit row from being stored.
OneShotOnce ==
  \A s \in Subs, c \in Channels : OneShot[s] => Cardinality(Sent(s, c)) <= 1 + faults

\* Where one evaluator serves a rule: the audit trail lacks a message only by
\* a fault (Record's error is dropped, and a crash may come between Send and
\* Record; with two evaluators on a rule one crash may cost two rows).
AuditedUpToFaults ==
  \A i \in Incidents, s \in Subs, c \in Channels :
    LET row(m) == [incident |-> i, sub |-> s, channel |-> c, kind |-> m.kind,
                   at |-> m.at, ok |-> m.ok]
    IN Cardinality({n \in DOMAIN feed[i][s][c] :
                      /\ row(feed[i][s][c][n]) \notin notifications
                      /\ \A e \in Evaluators : row(feed[i][s][c][n]) \notin audit[e]})
         <= faults

\* Where one evaluator serves a rule: a step that raises or repeats an alarm
\* never does it for an incident already recorded as resolved.
NoAlarmAfterResolve ==
  [][\A i \in Incidents, s \in Subs, c \in Channels :
       /\ feed'[i][s][c] # feed[i][s][c]
       /\ feed'[i][s][c][Len(feed'[i][s][c])].kind # "resolved"
       => \A x \in incidents : x.id = i => x.resolvedAt = 0]_vars

\* Where one evaluator serves a rule: the row of a resolved incident is never
\* rewritten, so its resolution time stands.
ResolutionStands == [][\A x \in incidents : x.resolvedAt > 0 => x \in incidents']_vars

\* A rule that stays firing past a subscription's dwell is delivered, in spite
\* of failed calls and restarts: every Tick tries again until the sub state
\* is saved, as long as the scheduler keeps coming back to the rule.
DueIsDelivered ==
  \A r \in Rules, i \in Incidents : \A s \in Match[r] :
    (live[r].incident = i /\ clock >= born[i] + Dwell[s])
      ~> (subStates[i][s].count > 0 \/ live[r].incident # i)

\* Without faults: a subscriber told of an incident, who wants to know, is
\* told of its end on the same channel.
EndIsDelivered ==
  \A r \in Rules, i \in Incidents : \A s \in {x \in Match[r] : NotifyOnResolve[x] /\ ~OneShot[x]} :
    (subStates[i][s].count > 0 /\ born[i] > 0 /\ \A q \in Rules : live[q].incident # i)
      ~> (\A c \in Targets[s] : \E n \in DOMAIN feed[i][s][c] : feed[i][s][c][n].kind = "resolved")
=============================================================================
