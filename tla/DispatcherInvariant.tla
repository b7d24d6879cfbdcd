------------------------ MODULE DispatcherInvariant ------------------------
(***************************************************************************)
(* The inductive invariant behind TypeOK, DwellRespected and               *)
(* FeedsStartWithFiring.  It holds for any number of evaluators, whichever *)
(* rules they share, and through any faults.                               *)
(***************************************************************************)
EXTENDS Dispatcher

Minted(i) == i \in Incidents /\ born[i] > 0

\* The cycle a firing state is in: both the row of live_states and the copy
\* a Tick works on carry the incident's own start.
InCycle(l) == l.state = "firing" => Minted(l.incident) /\ l.triggeredAt = born[l.incident]

AfterApply == {"save", "incident", "list", "each", "gate", "send", "record"}

Delivering == {"gate", "send", "record"}

\* The binding's channel has been offered the alarm.
Reached(i, s, c) == feed[i][s][c] # <<>>

\* What NotifyCount > 0 means: every binding was offered the alarm, or the
\* subscription is one-shot and spent.
Spent(s) == OneShot[s] /\ Notified(s)

Alarmed(i, s) == Spent(s) \/ \A c \in Targets[s] : Reached(i, s, c)

\* What the locals of a Tick under way mean.
TickCycle(e) ==
  /\ InCycle(ls[e])
  /\ pc[e] = "load" => job[e].now > 0
  /\ pc[e] \in AfterApply =>
       /\ tr[e].next = ls[e].state
       /\ ls[e].state = "firing" => tr[e].incident = ls[e].incident
       /\ tr[e].prev = "firing" => Minted(tr[e].incident)

TickDelivery(e) ==
  LET i == tr[e].incident
      s == dlv[e].sub
  IN /\ pc[e] \in Delivering =>
          /\ Minted(i)
          /\ dlv[e].kind # "resolved" => job[e].now >= born[i] + Dwell[s]
     /\ pc[e] = "gate" /\ dlv[e].kind # "firing" => Alarmed(i, s)
     /\ pc[e] \in {"send", "record"} =>
          /\ left[e] \subseteq Targets[s]
          /\ dlv[e].kind # "firing" => \A c \in left[e] : Reached(i, s, c)
          /\ Spent(s) \/ \A c \in Targets[s] \ left[e] : Reached(i, s, c)

UnmintedIsUnused ==
  \A i \in Incidents : born[i] = 0 => \A s \in Subs, c \in Channels : ~Reached(i, s, c)

CountMeansAlarmed ==
  \A i \in Incidents, s \in Subs : subStates[i][s].count > 0 => Alarmed(i, s)

CycleInv ==
  /\ clock > 0
  /\ \A r \in Rules : InCycle(live[r])
  /\ \A e \in Evaluators : TickCycle(e)

DeliveryInv ==
  /\ UnmintedIsUnused
  /\ CountMeansAlarmed
  /\ \A e \in Evaluators : TickDelivery(e)

\* Every alarm respects the dwell and precedes the rest of its feed, with
\* what makes it so: rows and locals that carry their incident's start, and a
\* NotifyCount that is positive only when the alarm was offered.
IndInv == TypeOK /\ CycleInv /\ DeliveryInv /\ DwellRespected /\ FeedsStartWithFiring
=============================================================================
