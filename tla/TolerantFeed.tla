---------------------------- MODULE TolerantFeed ----------------------------
(***************************************************************************)
(* What is left of AlertFeed's promise when store calls fail and the       *)
(* process restarts.  The order of a feed is kept as it is: an alarm first *)
(* and after the dwell, nothing after the resolution, times that do not    *)
(* run backwards.  Only the spacing gives: a fault may be followed by one  *)
(* message per binding that repeats what the store has forgotten was sent. *)
(***************************************************************************)
EXTENDS AlertFeed, FiniteSets

VARIABLE faults   \* the faults so far

tolerantVars == <<feedVars, faults>>

\* The messages that came too soon: a second alarm, or a reminder before the
\* interval since the message in front of it was over.
Early(f, s) ==
  {n \in 2..Len(f) : \/ f[n].kind = "firing"
                     \/ f[n].kind = "repeat" /\ f[n].at < f[n - 1].at + Repeat[s]}

TolerantInit == FeedInit /\ faults = 0

\* A store call fails, or the process ends: nothing is sent by it.
SomethingFails == faults' = faults + 1 /\ UNCHANGED feedVars

\* What was sent was not recorded, or not read: it is sent again.
Again(i, s, c) ==
  /\ feed[i][s][c] # <<>> /\ Last(feed[i][s][c]).kind # "resolved"
  /\ Cardinality(Early(feed[i][s][c], s)) < faults
  /\ \E t \in 1..clock, kind \in {"firing", "repeat"} :
       /\ t >= Last(feed[i][s][c]).at
       /\ kind = "repeat" => Repeat[s] > 0
       /\ Post(i, s, c, kind, t)

TolerantNext ==
  \/ FeedNext /\ UNCHANGED faults
  \/ \E i \in Incidents, s \in Subs, c \in Channels : Again(i, s, c) /\ UNCHANGED faults
  \/ SomethingFails

TolerantSpec == TolerantInit /\ [][TolerantNext]_tolerantVars

\* The shape of a feed with faults: as WellFormed has it, but for early
\* messages, of which each has its fault.
WellFormedUpTo(f, start, s, n) ==
  /\ Cardinality(Early(f, s)) <= n
  /\ \A k \in 1..Len(f) :
       /\ k = 1 => f[k].kind = "firing"
       /\ f[k].kind = "resolved" => k = Len(f) /\ NotifyOnResolve[s]
       /\ f[k].kind = "repeat" => Repeat[s] > 0
       /\ f[k].at >= start + Dwell[s]
       /\ k > 1 => f[k].at >= f[k - 1].at

\* Every feed has that shape (evaluateSubscription after a failed Upsert).
FeedsWellFormedUpToFaults ==
  \A i \in Incidents, s \in Subs, c \in Channels :
    WellFormedUpTo(feed[i][s][c], born[i], s, faults)

\* What keeps it.
TolerantInv ==
  /\ FeedTypeOK /\ faults \in Nat /\ UnbornAreSilent /\ FeedsWellFormedUpToFaults
=============================================================================
