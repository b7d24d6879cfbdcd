--------------------------- MODULE DispatcherOwner ---------------------------
(***************************************************************************)
(* The inductive invariants behind what Dispatcher promises where a rule   *)
(* has one evaluator: an incident is in the hands of one rule and so of    *)
(* one goroutine, which lets go of it, in the table first, before it tells *)
(* anyone that it is over.                                                 *)
(***************************************************************************)
EXTENDS DispatcherInvariant

\* The engine's mode routing: a rule is served by the push evaluator or by
\* the scheduled one (engine.New), one goroutine each.
OneEvaluatorPerRule ==
  \A e, f \in Evaluators : e # f => Serves[e] \cap Serves[f] = {}

Telling == {"each", "gate", "send", "record"}

PastSave == {"incident", "list"} \cup Telling

\* What the locals of an evaluator say of the call it is in.
LocalsInOrder(e) ==
  /\ pc[e] # "idle" => job[e].rule \in Serves[e]
  /\ pc[e] \in {"idle", "load", "errload"} => ls[e] = OKState
  /\ pc[e] \notin AfterApply => tr[e] = NoTransition
  /\ tr[e].incident # NoIncident => "firing" \in {tr[e].prev, tr[e].next}
  /\ pc[e] = "incident" => Opened(tr[e]) \/ Closed(tr[e])
  /\ pc[e] \notin {"send", "record"} => left[e] = {}

\* A state that is not firing has let go of its incident.
OnlyFiringHolds ==
  /\ \A r \in Rules : live[r].state = "ok" => live[r].incident = NoIncident
  /\ \A e \in Evaluators : ls[e].state = "ok" => ls[e].incident = NoIncident

\* The rule's row has the incident, or a call for the rule has.
Holds(r, i) ==
  \/ live[r].incident = i
  \/ \E e \in Evaluators : /\ pc[e] # "idle" /\ job[e].rule = r
                           /\ ls[e].incident = i \/ tr[e].incident = i

HeldByOneRule ==
  \A i \in Incidents : \A q, r \in Rules : Holds(q, i) /\ Holds(r, i) => q = r

\* No row and no state a Tick is to save has the incident: it cannot come back.
Released(i) ==
  /\ \A r \in Rules : live[r].incident # i
  /\ \A e \in Evaluators : ls[e].incident # i

\* A Tick that saved the end of an incident is the only one to know it.
EndIsReleased ==
  \A e \in Evaluators : pc[e] \in PastSave /\ Closed(tr[e]) => Released(tr[e].incident)

\* What is to be delivered follows from the transition and the row read.
DeliveryInOrder(e) ==
  LET i == tr[e].incident
      s == dlv[e].sub
      st == dlv[e].st
  IN pc[e] \in Delivering =>
       /\ s \notin todo[e]
       /\ st = subStates[i][s]
       /\ dlv[e].kind = "resolved" => Closed(tr[e]) /\ NotifyOnResolve[s]
       /\ dlv[e].kind # "resolved" => ls[e].state = "firing"
       /\ dlv[e].kind = "firing" => st.count = 0
       /\ dlv[e].kind = "repeat" =>
            st.count > 0 /\ Repeat[s] > 0 /\ job[e].now >= st.lastNotifiedAt + Repeat[s]

Ended(i, s, c) == \E n \in DOMAIN feed[i][s][c] : feed[i][s][c][n].kind = "resolved"

\* Whoever still has the incident of a resolution sent has been through with
\* that channel.
TellerIsDone(e, i, s, c) ==
  tr[e].incident = i =>
    /\ pc[e] \in Telling
    /\ s \notin todo[e]
    /\ dlv[e].sub = s => pc[e] # "gate" /\ c \notin left[e]

EndedIsOver ==
  \A i \in Incidents, s \in Subs, c \in Channels : Ended(i, s, c) =>
    Released(i) /\ \A e \in Evaluators : TellerIsDone(e, i, s, c)

\* The row of an incident is closed after the live state has let go of it.
ResolvedRowIsOver ==
  \A x \in incidents :
    /\ Minted(x.id)
    /\ x.resolvedAt > 0 =>
         /\ Released(x.id)
         /\ \A e \in Evaluators : tr[e].incident = x.id => pc[e] \notin {"save", "incident"}

\* One rule holds an incident, one evaluator ends it, and a resolution sent
\* or stored means that nobody can raise it again.
OwnerInv ==
  /\ \A e \in Evaluators : LocalsInOrder(e) /\ DeliveryInOrder(e)
  /\ OnlyFiringHolds /\ HeldByOneRule
  /\ EndIsReleased /\ EndedIsOver /\ ResolvedRowIsOver
  /\ ResolvedIsLast

-----------------------------------------------------------------------------
\* Clocks: no message is later than the call that could follow it up.
NotAfter(i, t) ==
  \A s \in Subs, c \in Channels : \A n \in DOMAIN feed[i][s][c] : feed[i][s][c][n].at <= t

TimesInOrder ==
  /\ \A i \in Incidents : NotAfter(i, clock)
  /\ \A e \in Evaluators :
       /\ job[e].now <= clock
       /\ tr[e].incident \in Incidents => NotAfter(tr[e].incident, job[e].now)
       /\ pc[e] = "load" /\ live[job[e].rule].incident \in Incidents =>
            NotAfter(live[job[e].rule].incident, job[e].now)

\* The last message is an alarm or a repeat that the sub state does not tell of.
Untold(i, s, c) ==
  LET f == feed[i][s][c]
      st == subStates[i][s]
  IN /\ f # <<>> /\ f[Len(f)].kind # "resolved"
     /\ st.count = 0 \/ st.lastNotifiedAt < f[Len(f)].at

\* A Tick is past the send on the binding and about to store the sub state.
BeingMarked(i, s, c) ==
  \E e \in Evaluators : /\ pc[e] \in {"send", "record"}
                        /\ tr[e].incident = i /\ dlv[e].sub = s /\ c \notin left[e]
                        /\ dlv[e].kind # "resolved"

\* The fault that kept the sub state from being stored pays for the message
\* that will come too soon.
PaceInv ==
  \A i \in Incidents, s \in Subs, c \in Channels :
    /\ Cardinality(TooSoon(i, s, c)) <= faults
    /\ Untold(i, s, c) /\ ~BeingMarked(i, s, c) => Cardinality(TooSoon(i, s, c)) < faults

-----------------------------------------------------------------------------
AuditRow(i, s, c, m) ==
  [incident |-> i, sub |-> s, channel |-> c, kind |-> m.kind, at |-> m.at, ok |-> m.ok]

\* The binding's last message is with the Tick that is to record it.
BeingAudited(i, s, c) ==
  \E e \in Evaluators : \E n \in audit[e] : n.incident = i /\ n.sub = s /\ n.channel = c

Unaudited(i, s, c) ==
  {n \in DOMAIN feed[i][s][c] : AuditRow(i, s, c, feed[i][s][c][n]) \notin notifications}

\* Messages without their row that no Tick is about to record.
Lost(i, s, c) ==
  Unaudited(i, s, c) \ (IF BeingAudited(i, s, c) THEN {Len(feed[i][s][c])} ELSE {})

\* The row a Tick holds is that of the message it has just sent.
AuditInOrder(e) ==
  /\ pc[e] # "record" => audit[e] = {}
  /\ pc[e] = "record" => \E c \in Channels \ left[e] :
       LET f == feed[tr[e].incident][dlv[e].sub][c]
       IN f # <<>> /\ audit[e] = {AuditRow(tr[e].incident, dlv[e].sub, c, f[Len(f)])}

\* A message is without its row by a fault, or is the last one and about to
\* be recorded.
AuditInv ==
  /\ \A e \in Evaluators : AuditInOrder(e)
  /\ \A i \in Incidents, s \in Subs, c \in Channels : Cardinality(Lost(i, s, c)) <= faults

-----------------------------------------------------------------------------
\* The rules of a one-shot subscription have one evaluator among them.
OneEvaluatorPerOneShot ==
  \A e, f \in Evaluators : e # f =>
    \A q \in Serves[e], r \in Serves[f] : \A s \in Match[q] \cap Match[r] : ~OneShot[s]

\* A Tick visits the subscriptions of its rule, and records what it delivers.
VisitsItsOwn(e) ==
  /\ pc[e] # "idle" => job[e].rule \in Serves[e]
  /\ pc[e] \notin Telling => todo[e] = {}
  /\ todo[e] \subseteq Match[job[e].rule]
  /\ pc[e] \in Delivering => dlv[e].sub \in Match[job[e].rule]
  /\ pc[e] = "record" => \E n \in audit[e] : n.sub = dlv[e].sub

\* A message of the subscription is sent and its row not yet recorded.
BeingSpent(s) == \E e \in Evaluators : pc[e] = "record" /\ dlv[e].sub = s

\* As long as a one-shot subscription has no row, or a delivery has its
\* binding still to send on, all that was sent there was paid for by faults.
ShotInv ==
  /\ \A e \in Evaluators : VisitsItsOwn(e)
  /\ \A s \in Subs, c \in Channels : OneShot[s] =>
       /\ IsFiniteSet(Sent(s, c)) /\ Cardinality(Sent(s, c)) <= 1 + faults
       /\ ~Notified(s) /\ ~BeingSpent(s) => Cardinality(Sent(s, c)) <= faults
       /\ \A e \in Evaluators :
            pc[e] \in {"send", "record"} /\ dlv[e].sub = s /\ c \in left[e]
              => Cardinality(Sent(s, c)) <= faults

-----------------------------------------------------------------------------
\* A row belongs to the rule that holds its incident.
RowsAreOfTheHolder ==
  \A x \in incidents : \A q \in Rules : Holds(q, x.id) => x.rule = q

\* What a Tick about to write one of the two tables knows of them.
WritesInOrder(e) ==
  LET row == live[job[e].rule]
      i == tr[e].incident
  IN /\ pc[e] \in {"load"} \cup AfterApply => job[e].now > 0
     /\ pc[e] \in {"save", "incident"} /\ Opened(tr[e]) => \A x \in incidents : x.id # i
     /\ pc[e] = "save" => row.state = tr[e].prev
     /\ pc[e] = "save" /\ tr[e].prev = "firing" => row.incident = i
     /\ pc[e] = "incident" /\ Opened(tr[e]) => row.incident = i
     /\ pc[e] = "errsave" =>
          \/ ls[e] = row
          \/ ls[e] = OKState /\ Cardinality(Astray(job[e].rule)) < faults

\* Each incident the tables disagree about was paid for by a fault: by the
\* one that kept a row from being written, or by the one that made evalOne
\* take a row it could not read for none.
TablesInv ==
  /\ RowsAreOfTheHolder
  /\ \A e \in Evaluators : WritesInOrder(e)
  /\ \A r \in Rules : IsFiniteSet(Astray(r)) /\ Cardinality(Astray(r)) <= faults
=============================================================================
