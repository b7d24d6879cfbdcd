----------------------------- MODULE AlertFeed -----------------------------
(***************************************************************************)
(* What a subscription promises the channels it delivers on, with no       *)
(* store, evaluator or retry in sight: each incident is a feed of messages *)
(* that opens with one alarm after the dwell, may go on with reminders     *)
(* spaced by the repeat interval, and may end with one resolution.         *)
(* docs/SUBSCRIPTIONS.md describes this; Dispatcher implements it as long  *)
(* as one evaluator serves a rule and no store call fails.                 *)
(***************************************************************************)
EXTENDS Naturals, Sequences

CONSTANTS Incidents, Subs, Channels, Dwell, Repeat, NotifyOnResolve

ASSUME FeedAssumption ==
  /\ Dwell \in [Subs -> Nat]
  /\ Repeat \in [Subs -> Nat]
  /\ NotifyOnResolve \in [Subs -> BOOLEAN]

VARIABLES clock,   \* the time
          born,    \* when an incident began, 0 when it has not
          feed     \* feed[i][s][c]: the messages of i for s on c, in order

feedVars == <<clock, born, feed>>

FeedMessage == [kind : {"firing", "repeat", "resolved"}, at : Nat, ok : BOOLEAN]

FeedTypeOK ==
  /\ clock \in Nat
  /\ born \in [Incidents -> Nat]
  /\ feed \in [Incidents -> [Subs -> [Channels -> Seq(FeedMessage)]]]

FeedInit ==
  /\ clock = 1
  /\ born = [i \in Incidents |-> 0]
  /\ feed = [i \in Incidents |-> [s \in Subs |-> [c \in Channels |-> <<>>]]]

Last(f) == f[Len(f)]

Post(i, s, c, kind, t) ==
  /\ \E ok \in BOOLEAN :
       feed' = [feed EXCEPT ![i][s][c] = Append(@, [kind |-> kind, at |-> t, ok |-> ok])]
  /\ UNCHANGED <<clock, born>>

\* A message is stamped with the time of the evaluation that led to it.
Begin(i) ==
  /\ born[i] = 0
  /\ \E t \in 1..clock : born' = [born EXCEPT ![i] = t]
  /\ UNCHANGED <<clock, feed>>

Alarm(i, s, c) ==
  /\ born[i] > 0
  /\ feed[i][s][c] = <<>>
  /\ \E t \in 1..clock : t >= born[i] + Dwell[s] /\ Post(i, s, c, "firing", t)

Remind(i, s, c) ==
  /\ feed[i][s][c] # <<>> /\ Last(feed[i][s][c]).kind # "resolved"
  /\ Repeat[s] > 0
  /\ \E t \in 1..clock : /\ t >= Last(feed[i][s][c]).at + Repeat[s]
                         /\ Post(i, s, c, "repeat", t)

AllClear(i, s, c) ==
  /\ feed[i][s][c] # <<>> /\ Last(feed[i][s][c]).kind # "resolved"
  /\ NotifyOnResolve[s]
  /\ \E t \in 1..clock : /\ t >= Last(feed[i][s][c]).at
                         /\ Post(i, s, c, "resolved", t)

TimePasses == clock' = clock + 1 /\ UNCHANGED <<born, feed>>

FeedNext ==
  \/ \E i \in Incidents : Begin(i)
  \/ \E i \in Incidents, s \in Subs, c \in Channels :
       Alarm(i, s, c) \/ Remind(i, s, c) \/ AllClear(i, s, c)
  \/ TimePasses

FeedSpec == FeedInit /\ [][FeedNext]_feedVars

\* Nothing is said of an incident before it began.
UnbornAreSilent ==
  \A i \in Incidents : born[i] = 0 =>
    \A s \in Subs, c \in Channels : feed[i][s][c] = <<>>
=============================================================================
