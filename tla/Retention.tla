----------------------------- MODULE Retention -----------------------------
(***************************************************************************)
(* The alert-history pruner beside the evaluators that keep opening and    *)
(* resolving incidents: a pass lists the incidents resolved before a       *)
(* cutoff, hands each to the archiver and deletes by the same cutoff in a  *)
(* transaction of its own.  List, fetch, archive and delete are separate   *)
(* store or file calls, and so are the gate, the send and the audit row of *)
(* a delivery; another process, a failure or a crash may come between any  *)
(* two of them.  A subscription's messages on all its channels are one.    *)
(***************************************************************************)
EXTENDS Integers, Sequences, FiniteSets

CONSTANTS Incidents, Subs,
          Evaluators,     \* the goroutines that tick rules
          Owner,          \* the one that serves the rule of an incident
          Followers,      \* the subscriptions to that rule
          OneShot,        \* the subscriptions that stop after one notification
          Window,         \* how long a resolved incident is kept
          Archivers,      \* the configurations: "none", "json", "webhook"
          MaxLag,         \* how far an evaluation's writes trail its timestamp
          MaxTime, MaxDate, MaxFaults

ASSUME RetentionAssumption ==
  /\ Incidents # {} /\ Window \in Nat \ {0} /\ MaxLag \in 0..Window
  /\ OneShot \subseteq Subs /\ Owner \in [Incidents -> Evaluators]
  /\ Followers \in [Incidents -> SUBSET Subs]
  /\ Archivers \subseteq {"none", "json", "webhook"}
  /\ {MaxTime, MaxDate, MaxFaults} \subseteq Nat

VARIABLES archiver,   \* the configured one
          clock, today,
          inc,      \* the incidents table, with what became of each id
          rows,     \* the notifications table
          told,     \* every row ever recorded, pruned or not
          sent,     \* every message sent, with or without a row
          ev,       \* where each evaluator is in the tick of an incident
          pass,     \* the pruner: where it is in its pass
          file,     \* the JSON archiver's open file
          copies,   \* copies[i]: the row sets archived for i, in order
          refused,  \* incidents an Archive call returned an error for
          partial,  \* incidents archived without their rows
          redone,   \* passes that archived and did not delete
          faults    \* how many calls failed

vars == <<archiver, clock, today, inc, rows, told, sent, ev, pass, file, copies, refused,
          partial, redone, faults>>

store == <<inc, rows, told, sent>>
archive == <<archiver, file, copies, refused, partial>>

Row == [inc : Incidents, sub : Subs, kind : {"firing", "resolved"}]
NoDate == -1

\* Where a tick is with the subscriptions: not yet at one, past its gate, with
\* its message sent, through with it.
Stage == {"todo", "send", "record", "done"}
EvState == [step : {"idle", "resolve", "notify"}, inc : Incidents, at : 0..MaxTime,
            kind : {"firing", "resolved"}, stage : [Subs -> Stage]]

Idle == [step |-> "idle", inc |-> CHOOSE i \in Incidents : TRUE, at |-> 0, kind |-> "firing",
         stage |-> [s \in Subs |-> "done"]]
NoPass == [step |-> "idle", cutoff |-> 0, todo |-> {}]

TypeOK ==
  /\ archiver \in Archivers
  /\ clock \in 0..MaxTime /\ today \in 0..MaxDate
  /\ inc \in [Incidents -> [st : {"none", "open", "resolved", "gone"}, at : 0..MaxTime]]
  /\ rows \subseteq told /\ told \subseteq Row /\ sent \subseteq Row
  /\ ev \in [Evaluators -> EvState]
  /\ pass \in [step : {"idle", "list", "archive", "delete"},
               cutoff : Int, todo : SUBSET Incidents]
  /\ file \in [date : NoDate..MaxDate, open : BOOLEAN]
  /\ copies \in [Incidents -> Seq(SUBSET Row)]
  /\ refused \subseteq Incidents /\ partial \subseteq Incidents
  /\ redone \in Nat /\ faults \in 0..MaxFaults

Init ==
  /\ archiver \in Archivers
  /\ clock = 0 /\ today = 0
  /\ inc = [i \in Incidents |-> [st |-> "none", at |-> 0]]
  /\ rows = {} /\ told = {} /\ sent = {}
  /\ ev = [e \in Evaluators |-> Idle]
  /\ pass = NoPass
  /\ file = [date |-> NoDate, open |-> FALSE]
  /\ copies = [i \in Incidents |-> <<>>]
  /\ refused = {} /\ partial = {} /\ redone = 0 /\ faults = 0

Fault == faults < MaxFaults /\ faults' = faults + 1

(***************************************************************************)
(* An evaluator: it stamps a tick, writes the incident, then delivers to   *)
(* one subscription after the other.                                       *)
(***************************************************************************)
Begun(i, step, kind) ==
  [step |-> step, inc |-> i, at |-> clock, kind |-> kind,
   stage |-> [s \in Subs |-> IF s \in Followers[i] THEN "todo" ELSE "done"]]

Open(i) ==
  /\ ev[Owner[i]].step = "idle" /\ inc[i].st = "none"
  /\ inc' = [inc EXCEPT ![i].st = "open"]
  /\ ev' = [ev EXCEPT ![Owner[i]] = Begun(i, "notify", "firing")]
  /\ UNCHANGED <<clock, today, rows, told, sent, pass, archive, redone, faults>>

Clear(i) ==
  /\ ev[Owner[i]].step = "idle" /\ inc[i].st = "open"
  /\ ev' = [ev EXCEPT ![Owner[i]] = Begun(i, "resolve", "resolved")]
  /\ UNCHANGED <<clock, today, store, pass, archive, redone, faults>>

Resolve(e) ==
  /\ ev[e].step = "resolve"
  /\ inc' = [inc EXCEPT ![ev[e].inc] = [st |-> "resolved", at |-> ev[e].at]]
  /\ ev' = [ev EXCEPT ![e].step = "notify"]
  /\ UNCHANGED <<clock, today, rows, told, sent, pass, archive, redone, faults>>

\* The gate of a one-shot subscription asks for any row it has.
ExistsForSubscription(s) == \E r \in rows : r.sub = s

\* The tick is at the stage with s, and with no other subscription.
At(e, s, stage) ==
  /\ ev[e].step = "notify" /\ ev[e].stage[s] = stage
  /\ \A q \in Subs \ {s} : ev[e].stage[q] \in {"todo", "done"}

Goes(e, s, stage) == ev' = [ev EXCEPT ![e].stage[s] = stage]

Gate(e, s) ==
  /\ At(e, s, "todo") /\ s \in OneShot
  /\ Goes(e, s, IF ExistsForSubscription(s) THEN "done" ELSE "send")
  /\ UNCHANGED <<clock, today, store, pass, archive, redone, faults>>

\* The gate cannot be read, and the delivery ends with the error.
GateFails(e, s) ==
  /\ At(e, s, "todo") /\ s \in OneShot /\ Fault
  /\ Goes(e, s, "done")
  /\ UNCHANGED <<clock, today, store, pass, archive, redone>>

Message(e, s) == [inc |-> ev[e].inc, sub |-> s, kind |-> ev[e].kind]

Send(e, s) ==
  /\ At(e, s, IF s \in OneShot THEN "send" ELSE "todo")
  /\ sent' = sent \cup {Message(e, s)}
  /\ Goes(e, s, "record")
  /\ UNCHANGED <<clock, today, inc, rows, told, pass, archive, redone, faults>>

Record(e, s) ==
  /\ At(e, s, "record")
  /\ rows' = rows \cup {Message(e, s)} /\ told' = told \cup {Message(e, s)}
  /\ Goes(e, s, "done")
  /\ UNCHANGED <<clock, today, inc, sent, pass, archive, redone, faults>>

\* The message has no row, which is logged.
RecordFails(e, s) ==
  /\ At(e, s, "record") /\ Fault
  /\ Goes(e, s, "done")
  /\ UNCHANGED <<clock, today, store, pass, archive, redone>>

Delivered(e) ==
  /\ ev[e].step = "notify" /\ \A s \in Subs : ev[e].stage[s] = "done"
  /\ ev' = [ev EXCEPT ![e] = Idle]
  /\ UNCHANGED <<clock, today, store, pass, archive, redone, faults>>

(***************************************************************************)
(* The pruner.  A pass begins at startup and on every tick of its ticker,  *)
(* which buffers one tick: a pass may follow the last one at once.         *)
(***************************************************************************)
\* Mutant: the cutoff itself is included.
DueAtCutoff(i, cutoff) == inc[i].st = "resolved" /\ inc[i].at <= cutoff

Due(i, cutoff) == inc[i].st = "resolved" /\ inc[i].at < cutoff

ListResolvedBefore(cutoff) == {i \in Incidents : Due(i, cutoff)}

\* Mutant: the cutoff is the one of the pass at startup.
BeginPassFixed ==
  /\ pass.step = "idle"
  /\ pass' = [step |-> "list", cutoff |-> -Window, todo |-> {}]
  /\ UNCHANGED <<clock, today, store, ev, archive, redone, faults>>

BeginPass ==
  /\ pass.step = "idle"
  /\ pass' = [step |-> "list", cutoff |-> clock - Window, todo |-> {}]
  /\ UNCHANGED <<clock, today, store, ev, archive, redone, faults>>

List ==
  /\ pass.step = "list"
  /\ LET found == ListResolvedBefore(pass.cutoff) IN
       pass' = IF found = {} THEN NoPass
               ELSE [pass EXCEPT !.step = IF archiver = "none" THEN "delete" ELSE "archive",
                                 !.todo = found]
  /\ UNCHANGED <<clock, today, store, ev, archive, redone, faults>>

ListFails ==
  /\ pass.step = "list" /\ Fault
  /\ pass' = NoPass
  /\ UNCHANGED <<clock, today, store, ev, archive, redone>>

\* What one Archive call leaves: the file, whether it wrote, whether it
\* returned an error.  A webhook may take the payload and still fail.
Outcome(f, wrote, failed) == [file |-> f, wrote |-> wrote, failed |-> failed]

\* Mutant: the date is noted before the file is opened.
JSONFileDatesFirst(broken) ==
  LET rolled == IF file.date = today THEN file ELSE [date |-> today, open |-> ~broken]
      works == rolled.open /\ ~broken
  IN Outcome(rolled, works, ~works)

\* The JSON archiver rolls its file when the date is not the open one; a
\* failed roll has closed the old file and keeps its date.
JSONFileArchive(broken) ==
  LET rolled == IF file.date = today THEN file
                ELSE IF broken THEN [file EXCEPT !.open = FALSE]
                ELSE [date |-> today, open |-> TRUE]
      works == rolled.open /\ rolled.date = today /\ ~broken
  IN Outcome(rolled, works, ~works)

WebhookArchive(broken) ==
  IF broken THEN {Outcome(file, wrote, TRUE) : wrote \in BOOLEAN}
            ELSE {Outcome(file, TRUE, FALSE)}

Archive(broken) ==
  IF archiver = "json" THEN {JSONFileArchive(broken)} ELSE WebhookArchive(broken)

RowsOf(i) == {r \in rows : r.inc = i}

\* One candidate: its rows are fetched, none of them if the fetch fails, and
\* the archiver is called with what there is.
ArchiveOne(i, unread, broken) ==
  /\ pass.step = "archive" /\ i \in pass.todo
  /\ IF unread \/ broken THEN Fault ELSE UNCHANGED faults
  /\ \E out \in Archive(broken) :
       /\ file' = out.file
       /\ copies' = IF out.wrote
                    THEN [copies EXCEPT ![i] = Append(@, IF unread THEN {} ELSE RowsOf(i))]
                    ELSE copies
       /\ refused' = IF out.failed THEN refused \cup {i} ELSE refused
       /\ partial' = IF unread THEN partial \cup {i} ELSE partial
  /\ pass' = [pass EXCEPT !.todo = @ \ {i}]
  /\ UNCHANGED <<archiver, clock, today, store, ev, redone>>

\* Mutant: a batch with a failed archive is left for the next pass.
ArchivedRetries ==
  /\ pass.step = "archive" /\ pass.todo = {}
  /\ pass' = [pass EXCEPT !.step =
                IF refused \cap ListResolvedBefore(pass.cutoff) = {} THEN "delete" ELSE "idle"]
  /\ UNCHANGED <<clock, today, store, ev, archive, redone, faults>>

Archived ==
  /\ pass.step = "archive" /\ pass.todo = {}
  /\ pass' = [pass EXCEPT !.step = "delete"]
  /\ UNCHANGED <<clock, today, store, ev, archive, redone, faults>>

\* Mutant: the incidents go without their rows.
DeleteParentsOnly ==
  /\ pass.step = "delete"
  /\ LET due == ListResolvedBefore(pass.cutoff) IN
       inc' = [i \in Incidents |-> IF i \in due THEN [inc[i] EXCEPT !.st = "gone"] ELSE inc[i]]
  /\ pass' = NoPass
  /\ UNCHANGED <<clock, today, rows, told, sent, ev, archive, redone, faults>>

\* Mutant: the delete takes a cutoff of its own, later than the list's.
DeleteByNow ==
  /\ pass.step = "delete"
  /\ LET due == ListResolvedBefore(clock) IN
       /\ inc' = [i \in Incidents |-> IF i \in due THEN [inc[i] EXCEPT !.st = "gone"] ELSE inc[i]]
       /\ rows' = {r \in rows : r.inc \notin due}
  /\ pass' = NoPass
  /\ UNCHANGED <<clock, today, told, sent, ev, archive, redone, faults>>

\* One transaction selects by the cutoff again and removes the children,
\* then the incidents.
DeleteResolvedBefore ==
  /\ pass.step = "delete"
  /\ LET due == ListResolvedBefore(pass.cutoff) IN
       /\ inc' = [i \in Incidents |-> IF i \in due THEN [inc[i] EXCEPT !.st = "gone"] ELSE inc[i]]
       /\ rows' = {r \in rows : r.inc \notin due}
  /\ pass' = NoPass
  /\ UNCHANGED <<clock, today, told, sent, ev, archive, redone, faults>>

DeleteFails ==
  /\ pass.step = "delete" /\ Fault
  /\ pass' = NoPass /\ redone' = redone + 1
  /\ UNCHANGED <<clock, today, store, ev, archive>>

Crash ==
  /\ Fault
  /\ ev' = [e \in Evaluators |-> Idle]
  /\ pass' = NoPass
  /\ file' = [date |-> NoDate, open |-> FALSE]
  /\ redone' = redone + 1
  /\ UNCHANGED <<archiver, clock, today, store, copies, refused, partial>>

\* An evaluation writes within MaxLag of its timestamp.
Tick ==
  /\ clock < MaxTime
  /\ \A e \in Evaluators : ev[e].step # "idle" => clock - ev[e].at < MaxLag
  /\ clock' = clock + 1
  /\ UNCHANGED <<today, store, ev, pass, archive, redone, faults>>

NewDate ==
  /\ archiver = "json"
  /\ today < MaxDate /\ today' = today + 1
  /\ UNCHANGED <<clock, store, ev, pass, archive, redone, faults>>

Pruner ==
  \/ BeginPass \/ List \/ Archived \/ DeleteResolvedBefore
  \/ \E i \in Incidents : ArchiveOne(i, FALSE, FALSE)

Deliver(e, s) == Gate(e, s) \/ Send(e, s) \/ Record(e, s)

Evaluate(e) == Resolve(e) \/ Delivered(e) \/ \E s \in Subs : Deliver(e, s)

Next ==
  \/ \E i \in Incidents : Open(i) \/ Clear(i)
  \/ \E e \in Evaluators : Evaluate(e)
  \/ \E e \in Evaluators, s \in Subs : GateFails(e, s) \/ RecordFails(e, s)
  \/ Pruner \/ ListFails \/ DeleteFails
  \/ \E i \in Incidents, unread, broken \in BOOLEAN : ArchiveOne(i, unread, broken)
  \/ Crash \/ Tick \/ NewDate

Spec == Init /\ [][Next]_vars

\* The goroutines keep being scheduled, and time passes.
FairSpec == Spec /\ WF_vars(Pruner) /\ WF_vars(Tick) /\ \A e \in Evaluators : WF_vars(Evaluate(e))

-----------------------------------------------------------------------------
Gone(i) == inc[i].st = "gone"

\* The tables fit together: types, and no notification row outlives its
\* incident with deliveries running when the pass deletes (retention.go:131).
StoreConsistent == TypeOK /\ \A r \in rows : ~Gone(r.inc)

\* List and delete are two queries: an incident that slips in between them
\* is deleted without having been handed over (retention.go:101).
HistoryHandedOver ==
  \A i \in Incidents : Gone(i) /\ archiver # "none" => copies[i] # <<>> \/ i \in refused

\* A copy holds every row the incident ever had, unless the rows could not
\* be read (retention.go:117): no delivery slips in after the fetch.
CopiesAreComplete ==
  \A i \in Incidents \ partial : \A n \in DOMAIN copies[i] :
    copies[i][n] = {r \in told : r.inc = i}

\* An incident is archived again only by a pass that follows one whose
\* delete failed or that was cut short (retention.go:132).
DuplicatesOnlyByRedo == \A i \in Incidents : Len(copies[i]) <= 1 + redone

\* A file error costs the call it happens in and no later one: the next call
\* opens the file it needs (sinks.go:60).
FileRecovers ==
  [][refused' # refused => faults' > faults]_vars

\* What is resolved is in the end removed, whatever failed on the way
\* (Pruner.Start, one pass after another).
ResolvedIsPruned ==
  \A i \in Incidents : (inc[i].st = "resolved" /\ inc[i].at < MaxTime - Window) ~> Gone(i)

\* "return an error so the pruner can log + retry on the next tick"
\* (sinks.go:97-98): what is deleted was archived.
FailedArchiveIsRetried ==
  archiver # "none" => \A i \in Incidents : Gone(i) => copies[i] # <<>>

\* Pruning takes the row that keeps the gate of a one-shot subscription shut
\* (sqlite.go:627), yet never for the incident it is about: with another
\* evaluator, a late delivery and a failed or lost Record in between, it is
\* told of an incident's end after its alarm only if the alarm has no row.
OneShotPerIncident ==
  \A i \in Incidents, s \in OneShot :
    LET About(kind) == [inc |-> i, sub |-> s, kind |-> kind]
    IN About("resolved") \in sent => About("firing") \notin told
=============================================================================
