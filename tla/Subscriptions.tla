--------------------------- MODULE Subscriptions ---------------------------
(***************************************************************************)
(* Administration of subscribers and subscriptions beside the dispatcher   *)
(* that looks up whom to notify.  A handler is one statement; the lookup   *)
(* is two queries, and a delivery a third, with no transaction over them.  *)
(* Matching is exact: a rule id, or every label of a selector.             *)
(***************************************************************************)
EXTENDS Naturals, FiniteSets

CONSTANTS People,      \* subscriber ids
          Subs,        \* subscription ids
          Targets,     \* [rule, labels]: what a request may ask to match
          NoRule,      \* the empty rule id
          Watched,     \* the rule that is evaluated
          Labels,      \* its labels, as a set of <<key, value>>
          MaxWrites, MaxReadFaults

SubscriptionsAssumption ==
  /\ Watched # NoRule /\ MaxWrites \in Nat /\ MaxReadFaults \in Nat

VARIABLES people,    \* the subscribers table
          rows,      \* the subscriptions table, NoSub for no row
          step,      \* where the dispatcher is
          byRule,    \* the result of the first query
          byLabel,   \* the result of the second, after matching
          todo,      \* the rows of the two results still to visit
          to,        \* the subscriber row that deliver read, if any
          touched,   \* the subscriptions written since the lookup began
          ever,      \* those that matched at some time since then
          writes, readFaults

subsVars == <<people, rows, step, byRule, byLabel, todo, to, touched, ever, writes, readFaults>>

NoSub == [owner |-> "none", target |-> [rule |-> NoRule, labels |-> {}]]
Sub == [owner : People, target : Targets]
NoOne == "none"

SubsTypeOK ==
  /\ people \subseteq People /\ rows \in [Subs -> Sub \cup {NoSub}]
  /\ step \in {"idle", "rule", "label", "each", "send"}
  /\ byRule \subseteq Subs \X Sub /\ byLabel \subseteq Subs \X Sub /\ todo \subseteq Subs \X Sub
  /\ to \in People \cup {NoOne} /\ touched \subseteq Subs /\ ever \subseteq Subs
  /\ writes \in 0..MaxWrites /\ readFaults \in 0..MaxReadFaults

SubsInit ==
  /\ people = {} /\ rows = [s \in Subs |-> NoSub]
  /\ step = "idle" /\ byRule = {} /\ byLabel = {} /\ todo = {} /\ to = NoOne
  /\ touched = {} /\ ever = {} /\ writes = 0 /\ readFaults = 0

\* A key the rule does not have reads as the empty value.
ValueOf(k) == IF \E v \in {l[2] : l \in Labels} : <<k, v>> \in Labels
              THEN CHOOSE v \in {l[2] : l \in Labels} : <<k, v>> \in Labels ELSE ""

MatchLabels(labels) == labels # {} /\ \A l \in labels : ValueOf(l[1]) = l[2]

\* Either way a stored subscription is about the watched rule.
Matches(row) ==
  \/ row.target.rule = Watched
  \/ row.target.rule = NoRule /\ MatchLabels(row.target.labels)

\* Exactly one of rule and selector is set.
Validate(target) == (target.rule = NoRule) # (target.labels = {})

\* A write to the two tables, while a lookup may be under way.
WriteRows(changed) ==
  /\ writes < MaxWrites /\ writes' = writes + 1
  /\ IF step = "idle" THEN UNCHANGED <<touched, ever>>
     ELSE /\ touched' = touched \cup changed
          /\ ever' = ever \cup {s \in Subs : Matches(rows'[s])}
  /\ UNCHANGED <<step, byRule, byLabel, todo, to, readFaults>>

CreateSubscriber(p) ==
  /\ p \notin people /\ people' = people \cup {p} /\ UNCHANGED rows
  /\ WriteRows({})

\* The foreign key deletes the subscriptions with the subscriber.
DeleteSubscriber(p) ==
  LET owned == {s \in Subs : rows[s].owner = p} IN
  /\ p \in people /\ people' = people \ {p}
  /\ rows' = [s \in Subs |-> IF s \in owned THEN NoSub ELSE rows[s]]
  /\ WriteRows(owned)

\* An insert is refused for a taken id or an unknown subscriber.
CreateSubscription(s, p, target) ==
  /\ Validate(target) /\ rows[s] = NoSub /\ p \in people
  /\ rows' = [rows EXCEPT ![s] = [owner |-> p, target |-> target]] /\ UNCHANGED people
  /\ WriteRows({s})

\* An update of no row is answered like any other.
UpdateSubscription(s, p, target) ==
  /\ Validate(target) /\ rows[s] # NoSub /\ p \in people
  /\ rows' = [rows EXCEPT ![s] = [owner |-> p, target |-> target]] /\ UNCHANGED people
  /\ WriteRows({s})

DeleteSubscription(s) ==
  /\ rows[s] # NoSub
  /\ rows' = [rows EXCEPT ![s] = NoSub] /\ UNCHANGED people
  /\ WriteRows({s})

\* A body that does not decode or validate, a key that is refused, an update
\* or a delete of no row, a list or a get: nothing changes.
NothingWritten ==
  /\ writes < MaxWrites /\ writes' = writes + 1
  /\ UNCHANGED <<people, rows, step, byRule, byLabel, todo, to, touched, ever, readFaults>>

BeginLookup ==
  /\ step = "idle" /\ step' = "rule"
  /\ byRule' = {} /\ byLabel' = {}
  /\ touched' = {} /\ ever' = {s \in Subs : Matches(rows[s])}
  /\ UNCHANGED <<people, rows, todo, to, writes, readFaults>>

ListByRule ==
  /\ step = "rule" /\ step' = "label"
  /\ byRule' = {<<s, rows[s]>> : s \in {x \in Subs : rows[x].target.rule = Watched}}
  /\ UNCHANGED <<people, rows, byLabel, todo, to, touched, ever, writes, readFaults>>

\* Mutant: the second query does not leave out the subscriptions of a rule.
ListByLabelAny ==
  /\ step = "label" /\ step' = "each"
  /\ byLabel' = {<<s, rows[s]>> : s \in {x \in Subs : Matches(rows[x])}}
  /\ todo' = byRule \cup byLabel'
  /\ UNCHANGED <<people, rows, byRule, to, touched, ever, writes, readFaults>>

ListByLabel ==
  /\ step = "label" /\ step' = "each"
  /\ byLabel' = {<<s, rows[s]>> : s \in {x \in Subs :
       rows[x] # NoSub /\ rows[x].target.rule = NoRule /\ MatchLabels(rows[x].target.labels)}}
  /\ todo' = byRule \cup byLabel'
  /\ UNCHANGED <<people, rows, byRule, to, touched, ever, writes, readFaults>>

Lookup == step \in {"rule", "label"}

\* A query fails: the evaluation ends, and nobody hears of it.
ListFails ==
  /\ Lookup /\ step' = "idle"
  /\ readFaults < MaxReadFaults /\ readFaults' = readFaults + 1
  /\ UNCHANGED <<people, rows, byRule, byLabel, todo, to, touched, ever, writes>>

\* deliver reads the subscriber of the row it was given; there may be none.
ReadSubscriber(entry) ==
  /\ step = "each" /\ entry \in todo /\ todo' = todo \ {entry}
  /\ IF entry[2].owner \in people THEN step' = "send" /\ to' = entry[2].owner
     ELSE UNCHANGED <<step, to>>
  /\ UNCHANGED <<people, rows, byRule, byLabel, touched, ever, writes, readFaults>>

ReadSubscriberFails(entry) ==
  /\ step = "each" /\ entry \in todo /\ todo' = todo \ {entry}
  /\ readFaults < MaxReadFaults /\ readFaults' = readFaults + 1
  /\ UNCHANGED <<people, rows, step, byRule, byLabel, to, touched, ever, writes>>

SendTo ==
  /\ step = "send" /\ step' = "each" /\ to' = NoOne
  /\ UNCHANGED <<people, rows, byRule, byLabel, todo, touched, ever, writes, readFaults>>

EndEvaluation ==
  /\ step = "each" /\ todo = {} /\ step' = "idle"
  /\ byRule' = {} /\ byLabel' = {} /\ touched' = {} /\ ever' = {}
  /\ UNCHANGED <<people, rows, todo, to, writes, readFaults>>

SubsNext ==
  \/ \E p \in People : CreateSubscriber(p) \/ DeleteSubscriber(p)
  \/ \E s \in Subs :
       \/ \E p \in People, target \in Targets :
            CreateSubscription(s, p, target) \/ UpdateSubscription(s, p, target)
       \/ DeleteSubscription(s)
  \/ NothingWritten
  \/ BeginLookup \/ ListByRule \/ ListByLabel \/ ListFails
  \/ \E entry \in todo : ReadSubscriber(entry) \/ ReadSubscriberFails(entry)
  \/ SendTo \/ EndEvaluation

SubsSpec == SubsInit /\ [][SubsNext]_subsVars

-----------------------------------------------------------------------------
Times(s, list) == Cardinality({e \in list : e[1] = s})

\* Two queries answer as one would: a subscription that nobody writes while
\* they run is in the result exactly when it matches, and once; one that is
\* written may be missed, when it moves from a selector to the rule behind
\* the first query, or be there twice, but never without having matched since
\* the lookup began (sqlite.go:362-391).
LookupIsAsOne ==
  step \in {"each", "send"} => \A s \in Subs :
    /\ s \notin touched => Times(s, byRule) + Times(s, byLabel) = (IF Matches(rows[s]) THEN 1 ELSE 0)
    /\ Times(s, byRule \cup byLabel) > 0 => s \in ever

\* A stored subscription has an owner who is there and matches by rule or by
\* labels, not by both (0001_init.sql:26, subscriber.go:60).
RowsAreSound ==
  \A s \in Subs : rows[s] # NoSub => rows[s].owner \in people /\ Validate(rows[s].target)

\* Between the lookup and the last delivery, the subscriber of a listed row is
\* gone only if somebody wrote the row meanwhile (dispatcher.go:140, 272).
RecipientIsThere ==
  step # "idle" => \A entry \in byRule \cup byLabel :
    entry[2].owner \in people \/ entry[1] \in touched
=============================================================================
