-------------------------- MODULE RetentionProofs --------------------------
(***************************************************************************)
(* No history is lost between the two queries of a pass, for any           *)
(* incidents, subscriptions, archivers, times and faults, as long as an    *)
(* evaluation's writes trail its timestamp by no more than the window.     *)
(* An archive holds a history twice only where a pass had to do it again,  *)
(* an archive file always comes back from an error, and pruning never lets *)
(* a one-shot subscription hear twice of the same incident.                *)
(***************************************************************************)
EXTENDS Retention, FiniteSetTheorems, TLAPS

\* An evaluator works on an incident of its own that is open, or was resolved
\* at the recent time of this very tick.
EvaluatorIsRecent ==
  \A e \in Evaluators : ev[e].step # "idle" =>
    /\ Owner[ev[e].inc] = e /\ clock - ev[e].at <= MaxLag
    /\ \/ inc[ev[e].inc].st = "open"
       \/ /\ ev[e].step = "notify" /\ inc[ev[e].inc].st = "resolved"
          /\ inc[ev[e].inc].at = ev[e].at

Handed(i) == copies[i] # <<>> \/ i \in refused

\* A pass has, or will have, handed over all that its cutoff selects.
PassHandsOver ==
  /\ pass.step # "idle" => pass.cutoff <= clock - Window
  /\ pass.step = "archive" =>
       /\ \A i \in pass.todo : Due(i, pass.cutoff)
       /\ \A i \in Incidents : Due(i, pass.cutoff) => i \in pass.todo \/ Handed(i)
  /\ pass.step = "delete" /\ archiver # "none" =>
       \A i \in Incidents : Due(i, pass.cutoff) => Handed(i)

\* The rows of an incident go when it does.
RowsFollow ==
  /\ \A r \in rows : ~Gone(r.inc)
  /\ \A r \in told : r \in rows \/ Gone(r.inc)

\* What was copied is past the window: its evaluator is done with it.
CopiedIsOld == \A i \in Incidents : copies[i] # <<>> => Gone(i) \/ Due(i, clock - Window)

RetentionInv ==
  /\ TypeOK /\ EvaluatorIsRecent /\ PassHandsOver /\ RowsFollow /\ CopiedIsOld
  /\ HistoryHandedOver /\ CopiesAreComplete

-----------------------------------------------------------------------------
\* The state of an evaluator at rest is one.
LEMMA IdleTyped == Idle \in EvState /\ Idle.step = "idle"
<1>1. (CHOOSE i \in Incidents : TRUE) \in Incidents
  BY RetentionAssumption
<1>2. 0 \in 0..MaxTime /\ [s \in Subs |-> "done"] \in [Subs -> Stage]
  BY RetentionAssumption DEF Stage
<1>3. QED
  BY <1>1, <1>2 DEF Idle, EvState

\* Nothing is there to begin with.
LEMMA InvInit == Init => RetentionInv
<1> SUFFICES ASSUME Init PROVE RetentionInv
  OBVIOUS
<1> USE RetentionAssumption
<1>1. (CHOOSE i \in Incidents : TRUE) \in Incidents
  OBVIOUS
<1>2. archiver \in {"none", "json", "webhook"} /\ archiver \in Archivers
  BY DEF Init
<1>3. TypeOK
  BY <1>1, <1>2, IdleTyped DEF Init, TypeOK, NoDate, NoPass
<1>4. EvaluatorIsRecent /\ PassHandsOver /\ RowsFollow /\ CopiedIsOld
  BY IdleTyped DEF Init, NoPass, EvaluatorIsRecent, PassHandsOver, RowsFollow, CopiedIsOld
<1>5. HistoryHandedOver /\ CopiesAreComplete
  BY DEF Init, HistoryHandedOver, CopiesAreComplete, Gone
<1>6. QED
  BY <1>3, <1>4, <1>5 DEF RetentionInv

\* What the types say of the evaluators.
LEMMA EvaluatorsTyped ==
  ASSUME TypeOK
  PROVE  /\ ev \in [Evaluators -> EvState]
         /\ \A e \in Evaluators : ev[e].inc \in Incidents /\ ev[e].at \in Int
<1>1. ev \in [Evaluators -> EvState]
  BY DEF TypeOK
<1>2. ASSUME NEW e \in Evaluators PROVE ev[e].inc \in Incidents /\ ev[e].at \in Int
  <2>1. ev[e] \in EvState
    BY <1>1
  <2>2. ev[e].inc \in Incidents /\ ev[e].at \in 0..MaxTime
    BY <2>1 DEF EvState
  <2>3. MaxTime \in Nat
    BY RetentionAssumption
  <2>4. QED
    BY <2>2, <2>3
<1>3. QED
  BY <1>1, <1>2

\* What they say of the pass and of the times.
LEMMA NumbersTyped ==
  ASSUME TypeOK
  PROVE  /\ clock \in Int /\ Window \in Int /\ MaxLag \in Int /\ MaxLag <= Window
         /\ pass.cutoff \in Int /\ pass.todo \subseteq Incidents
         /\ \A i \in Incidents : inc[i].at \in Int
  BY RetentionAssumption DEF TypeOK

\* What the steps of a delivery do to the evaluator, and to the tables.
LEMMA DeliveryEffect ==
  ASSUME TypeOK, NEW e \in Evaluators, NEW s \in Subs,
         Deliver(e, s) \/ GateFails(e, s) \/ RecordFails(e, s)
  PROVE  /\ ev[e].step = "notify" /\ Message(e, s) \in Row
         /\ \E stage \in Stage : ev' = [ev EXCEPT ![e].stage[s] = stage]
         /\ \/ UNCHANGED <<rows, told>> /\ sent' \in {sent, sent \cup {Message(e, s)}}
            \/ /\ rows' = rows \cup {Message(e, s)} /\ told' = told \cup {Message(e, s)}
               /\ ev[e].stage[s] = "record" /\ UNCHANGED sent
         /\ faults' \in 0..MaxFaults
         /\ UNCHANGED <<clock, today, inc, pass, archive, redone>>
<1>1. ev[e] \in EvState /\ faults \in 0..MaxFaults /\ MaxFaults \in Nat
  BY RetentionAssumption DEF TypeOK
<1>2. Message(e, s) \in Row
  BY <1>1 DEF Message, Row, EvState
<1>3. Fault => faults' \in 0..MaxFaults
  BY <1>1 DEF Fault
<1>4. CASE Gate(e, s)
  BY <1>1, <1>2, <1>4 DEF Gate, At, Goes, Stage, store
<1>5. CASE GateFails(e, s)
  BY <1>1, <1>2, <1>3, <1>5 DEF GateFails, At, Goes, Stage, store
<1>6. CASE Send(e, s)
  BY <1>1, <1>2, <1>6 DEF Send, At, Goes, Stage
<1>7. CASE Record(e, s)
  BY <1>1, <1>2, <1>7 DEF Record, At, Goes, Stage
<1>8. CASE RecordFails(e, s)
  BY <1>1, <1>2, <1>3, <1>8 DEF RecordFails, At, Goes, Stage, store
<1>9. QED
  BY <1>4, <1>5, <1>6, <1>7, <1>8 DEF Deliver

\* A step of the evaluators.
EvaluatorActs ==
  \/ \E i \in Incidents : Open(i) \/ Clear(i)
  \/ \E e \in Evaluators : Resolve(e) \/ Delivered(e)
  \/ \E e \in Evaluators, s \in Subs : Deliver(e, s) \/ GateFails(e, s) \/ RecordFails(e, s)

\* It keeps the types.
LEMMA TypeStepEvaluator ==
  ASSUME TypeOK, EvaluatorActs
  PROVE  TypeOK'
<1>0. MaxTime \in Nat /\ ev \in [Evaluators -> EvState]
  BY RetentionAssumption DEF TypeOK
<1>1. ASSUME UNCHANGED <<archiver, clock, today, rows, told, sent, pass, file, copies, refused,
                         partial, redone, faults>>,
             ev' \in [Evaluators -> EvState],
             inc' \in [Incidents -> [st : {"none", "open", "resolved", "gone"}, at : 0..MaxTime]]
      PROVE  TypeOK'
  BY <1>1 DEF TypeOK
<1>2. ASSUME NEW i \in Incidents, NEW step \in {"resolve", "notify"},
             NEW kind \in {"firing", "resolved"}
      PROVE  Begun(i, step, kind) \in EvState /\ Owner[i] \in Evaluators
  <2>1. [s \in Subs |-> IF s \in Followers[i] THEN "todo" ELSE "done"] \in [Subs -> Stage]
    BY DEF Stage
  <2>2. clock \in 0..MaxTime /\ Owner[i] \in Evaluators
    BY RetentionAssumption DEF TypeOK
  <2>3. QED
    BY <2>1, <2>2 DEF Begun, EvState
<1>3. ASSUME NEW i \in Incidents, Open(i) PROVE TypeOK'
  <2>1. /\ inc' = [inc EXCEPT ![i].st = "open"]
        /\ ev' = [ev EXCEPT ![Owner[i]] = Begun(i, "notify", "firing")]
        /\ UNCHANGED <<archiver, clock, today, rows, told, sent, pass, file, copies, refused,
                       partial, redone, faults>>
    BY <1>3 DEF Open, archive
  <2>2. ev' \in [Evaluators -> EvState]
    BY <1>0, <1>2, <2>1
  <2>3. inc' \in [Incidents -> [st : {"none", "open", "resolved", "gone"}, at : 0..MaxTime]]
    <3>1. PICK t \in 0..MaxTime : inc[i].at = t /\ inc[i] = [st |-> inc[i].st, at |-> t]
      BY DEF TypeOK
    <3>2. [inc[i] EXCEPT !.st = "open"] = [st |-> "open", at |-> t]
      BY <3>1
    <3>3. inc' = [inc EXCEPT ![i] = [st |-> "open", at |-> t]]
      BY <2>1, <3>2
    <3>4. QED
      BY <3>3 DEF TypeOK
  <2>4. QED
    BY <1>1, <2>1, <2>2, <2>3
<1>4. ASSUME NEW i \in Incidents, Clear(i) PROVE TypeOK'
  <2>1. /\ ev' = [ev EXCEPT ![Owner[i]] = Begun(i, "resolve", "resolved")]
        /\ UNCHANGED <<archiver, clock, today, inc, rows, told, sent, pass, file, copies, refused,
                       partial, redone, faults>>
    BY <1>4 DEF Clear, archive, store
  <2>2. ev' \in [Evaluators -> EvState]
    BY <1>0, <1>2, <2>1
  <2>3. QED
    BY <1>1, <2>1, <2>2 DEF TypeOK
<1>5. ASSUME NEW e \in Evaluators, Resolve(e) PROVE TypeOK'
  <2>1. /\ inc' = [inc EXCEPT ![ev[e].inc] = [st |-> "resolved", at |-> ev[e].at]]
        /\ ev' = [ev EXCEPT ![e].step = "notify"]
        /\ UNCHANGED <<archiver, clock, today, rows, told, sent, pass, file, copies, refused,
                       partial, redone, faults>>
    BY <1>5 DEF Resolve, archive
  <2>2. ev' \in [Evaluators -> EvState] /\ ev[e] \in EvState
    BY <1>0, <2>1 DEF EvState
  <2>3. inc' \in [Incidents -> [st : {"none", "open", "resolved", "gone"}, at : 0..MaxTime]]
    <3>1. ev[e].at \in 0..MaxTime
      BY <2>2 DEF EvState
    <3>2. [st |-> "resolved", at |-> ev[e].at] \in
            [st : {"none", "open", "resolved", "gone"}, at : 0..MaxTime]
      BY <3>1
    <3>3. QED
      BY <2>1, <3>2 DEF TypeOK
  <2>4. QED
    BY <1>1, <2>1, <2>2, <2>3
<1>6. ASSUME NEW e \in Evaluators, Delivered(e) PROVE TypeOK'
  <2>1. /\ ev' = [ev EXCEPT ![e] = Idle]
        /\ UNCHANGED <<archiver, clock, today, inc, rows, told, sent, pass, file, copies, refused,
                       partial, redone, faults>>
    BY <1>6 DEF Delivered, archive, store
  <2>2. QED
    BY <1>0, <1>1, <2>1, IdleTyped DEF TypeOK
<1>7. ASSUME NEW e \in Evaluators, NEW s \in Subs,
             Deliver(e, s) \/ GateFails(e, s) \/ RecordFails(e, s)
      PROVE  TypeOK'
  <2>1. PICK stage \in Stage, m \in Row :
          /\ m = Message(e, s) /\ ev' = [ev EXCEPT ![e].stage[s] = stage]
          /\ \/ UNCHANGED <<rows, told>> /\ sent' \in {sent, sent \cup {m}}
             \/ rows' = rows \cup {m} /\ told' = told \cup {m} /\ UNCHANGED sent
          /\ faults' \in 0..MaxFaults
          /\ UNCHANGED <<clock, today, inc, pass, archive, redone>>
    BY <1>7, DeliveryEffect
  <2>2. ev' \in [Evaluators -> EvState]
    BY <1>0, <2>1 DEF EvState
  <2>3. rows' \subseteq told' /\ told' \subseteq Row /\ sent' \subseteq Row
    BY <2>1 DEF TypeOK
  <2>4. QED
    BY <2>1, <2>2, <2>3 DEF TypeOK, archive
<1>8. QED
  BY <1>3, <1>4, <1>5, <1>6, <1>7 DEF EvaluatorActs

\* A pass that has found what to do is one.
LEMMA PassFilled ==
  ASSUME NEW p \in [step : {"idle", "list", "archive", "delete"},
                    cutoff : Int, todo : SUBSET Incidents],
         NEW step \in {"delete", "archive"}, NEW found \in SUBSET Incidents
  PROVE  [p EXCEPT !.step = step, !.todo = found] \in
           [step : {"idle", "list", "archive", "delete"}, cutoff : Int, todo : SUBSET Incidents]
  OBVIOUS

\* A step of the pruner that leaves the archiver alone, and the rest.
LEMMA TypeStepOthers ==
  ASSUME TypeOK,
         \/ BeginPass \/ List \/ Archived \/ DeleteResolvedBefore \/ ListFails \/ DeleteFails
         \/ Crash \/ Tick \/ NewDate
  PROVE  TypeOK'
<1>0. MaxFaults \in Nat /\ MaxTime \in Nat /\ MaxDate \in Nat /\ Window \in Nat
  BY RetentionAssumption
<1>a. Fault => faults' \in 0..MaxFaults
  BY <1>0 DEF Fault, TypeOK
<1> USE <1>0, <1>a DEF TypeOK, store, archive, NoPass
<1>1. CASE BeginPass
  BY <1>1 DEF BeginPass
<1>2. CASE List
  <2>1. PICK step \in {"delete", "archive"}, found \in SUBSET Incidents :
          pass' = NoPass \/ pass' = [pass EXCEPT !.step = step, !.todo = found]
    BY <1>2 DEF List, ListResolvedBefore
  <2>2. UNCHANGED <<archiver, clock, today, inc, rows, told, sent, ev, file, copies, refused,
                    partial, redone, faults>>
    BY <1>2 DEF List
  <2>3. pass' \in [step : {"idle", "list", "archive", "delete"},
                    cutoff : Int, todo : SUBSET Incidents]
    <3> DEFINE Passes == [step : {"idle", "list", "archive", "delete"},
                          cutoff : Int, todo : SUBSET Incidents]
    <3>1. pass \in Passes /\ NoPass \in Passes
      OBVIOUS
    <3>2. [pass EXCEPT !.step = step, !.todo = found] \in Passes
      BY <3>1, PassFilled
    <3> HIDE DEF Passes
    <3>3. pass' \in Passes
      BY <2>1, <3>1, <3>2
    <3>4. QED
      BY <3>3 DEF Passes
  <2>4. QED
    BY <2>2, <2>3
<1>3. CASE Archived
  BY <1>3 DEF Archived
<1>4. CASE DeleteResolvedBefore
  <2>1. /\ pass' = NoPass
        /\ UNCHANGED <<archiver, clock, today, told, sent, ev, file, copies, refused, partial,
                       redone, faults>>
    BY <1>4 DEF DeleteResolvedBefore
  <2>2. PICK due : /\ inc' = [i \in Incidents |-> IF i \in due THEN [inc[i] EXCEPT !.st = "gone"]
                                                   ELSE inc[i]]
                   /\ rows' = {r \in rows : r.inc \notin due}
    BY <1>4 DEF DeleteResolvedBefore
  <2>3. ASSUME NEW i \in Incidents
        PROVE  inc'[i] \in [st : {"none", "open", "resolved", "gone"}, at : 0..MaxTime]
    <3>1. inc[i] \in [st : {"none", "open", "resolved", "gone"}, at : 0..MaxTime]
      OBVIOUS
    <3>2. [inc[i] EXCEPT !.st = "gone"] \in
            [st : {"none", "open", "resolved", "gone"}, at : 0..MaxTime]
      BY <3>1
    <3>3. QED
      BY <2>2, <3>1, <3>2
  <2>4. inc' \in [Incidents -> [st : {"none", "open", "resolved", "gone"}, at : 0..MaxTime]]
    BY <2>2, <2>3
  <2>5. rows' \subseteq told'
    BY <2>1, <2>2
  <2>6. QED
    BY <2>1, <2>4, <2>5
<1>5. CASE ListFails
  BY <1>5 DEF ListFails
<1>6. CASE DeleteFails
  <2>1. redone' \in Nat /\ faults' \in 0..MaxFaults
    BY <1>6 DEF DeleteFails
  <2>2. /\ pass' = NoPass
        /\ UNCHANGED <<clock, today, store, ev, archive>>
    BY <1>6 DEF DeleteFails
  <2>3. QED
    BY <2>1, <2>2
<1>7. CASE Crash
  <2>1. redone' \in Nat /\ faults' \in 0..MaxFaults
    BY <1>7 DEF Crash
  <2>2. /\ ev' = [e \in Evaluators |-> Idle]
        /\ pass' = NoPass
        /\ file' = [date |-> NoDate, open |-> FALSE]
        /\ UNCHANGED <<archiver, clock, today, store, copies, refused, partial>>
    BY <1>7 DEF Crash
  <2>3. file' \in [date : NoDate..MaxDate, open : BOOLEAN]
    BY <2>2 DEF NoDate
  <2>4. QED
    BY <2>1, <2>2, <2>3, IdleTyped
<1>8. CASE Tick
  BY <1>8 DEF Tick
<1>9. CASE NewDate
  BY <1>9 DEF NewDate
<1>10. QED
  BY <1>1, <1>2, <1>3, <1>4, <1>5, <1>6, <1>7, <1>8, <1>9

\* A call of the archiver hands the incident over or returns an error, and
\* copies the rows that were read.
LEMMA ArchiveEffect ==
  ASSUME TypeOK, NEW i \in Incidents, NEW unread \in BOOLEAN, NEW broken \in BOOLEAN,
         ArchiveOne(i, unread, broken)
  PROVE  /\ pass.step = "archive" /\ i \in pass.todo
         /\ pass' = [pass EXCEPT !.todo = pass.todo \ {i}]
         /\ file' \in [date : NoDate..MaxDate, open : BOOLEAN]
         /\ \/ copies' = copies /\ i \in refused'
            \/ copies' = [copies EXCEPT ![i] =
                            Append(copies[i], IF unread THEN {} ELSE RowsOf(i))]
         /\ refused' \in {refused, refused \cup {i}}
         /\ partial' = IF unread THEN partial \cup {i} ELSE partial
         /\ faults' \in 0..MaxFaults
         /\ UNCHANGED <<archiver, clock, today, store, ev, redone>>
<1>1. PICK out \in Archive(broken) :
        /\ file' = out.file
        /\ copies' = IF out.wrote
                     THEN [copies EXCEPT ![i] =
                             Append(copies[i], IF unread THEN {} ELSE RowsOf(i))]
                     ELSE copies
        /\ refused' = IF out.failed THEN refused \cup {i} ELSE refused
        /\ partial' = IF unread THEN partial \cup {i} ELSE partial
  BY DEF ArchiveOne
<1>2. /\ out.file \in [date : NoDate..MaxDate, open : BOOLEAN]
      /\ out.wrote \in BOOLEAN /\ out.failed \in BOOLEAN /\ (out.wrote \/ out.failed)
  <2>1. file \in [date : NoDate..MaxDate, open : BOOLEAN] /\ today \in NoDate..MaxDate
    BY RetentionAssumption DEF TypeOK, NoDate
  <2>2. CASE archiver = "json"
    <3> DEFINE rolled == IF file.date = today THEN file
                         ELSE IF broken THEN [file EXCEPT !.open = FALSE]
                         ELSE [date |-> today, open |-> TRUE]
               works == rolled.open /\ rolled.date = today /\ ~broken
    <3>1. out = [file |-> rolled, wrote |-> works, failed |-> ~works]
      BY <2>2 DEF Archive, JSONFileArchive, Outcome
    <3>2. rolled \in [date : NoDate..MaxDate, open : BOOLEAN]
      BY <2>1
    <3>3. works \in BOOLEAN
      OBVIOUS
    <3> HIDE DEF rolled, works
    <3>4. QED
      BY <3>1, <3>2, <3>3
  <2>3. CASE archiver # "json"
    <3>1. PICK wrote \in BOOLEAN, failed \in BOOLEAN :
            /\ out = [file |-> file, wrote |-> wrote, failed |-> failed]
            /\ wrote \/ failed
      <4>1. CASE broken
        BY <2>3, <4>1 DEF Archive, WebhookArchive, Outcome
      <4>2. CASE ~broken
        BY <2>3, <4>2 DEF Archive, WebhookArchive, Outcome
      <4>3. QED
        BY <4>1, <4>2
    <3>2. QED
      BY <2>1, <3>1
  <2>4. QED
    BY <2>2, <2>3
<1>3. faults' \in 0..MaxFaults
  <2>1. faults \in 0..MaxFaults /\ MaxFaults \in Nat
    BY RetentionAssumption DEF TypeOK
  <2>2. Fault \/ UNCHANGED faults
    BY DEF ArchiveOne
  <2>3. QED
    BY <2>1, <2>2 DEF Fault
<1>4. /\ pass.step = "archive" /\ i \in pass.todo
      /\ pass' = [pass EXCEPT !.todo = pass.todo \ {i}]
      /\ UNCHANGED <<archiver, clock, today, store, ev, redone>>
  BY DEF ArchiveOne
<1>5. QED
  BY <1>1, <1>2, <1>3, <1>4

\* A call of the archiver keeps the types.
LEMMA TypeStepArchive ==
  ASSUME TypeOK, NEW i \in Incidents, NEW unread \in BOOLEAN, NEW broken \in BOOLEAN,
         ArchiveOne(i, unread, broken)
  PROVE  TypeOK'
<1> DEFINE new == IF unread THEN {} ELSE RowsOf(i)
<1>1. /\ pass' = [pass EXCEPT !.todo = pass.todo \ {i}]
      /\ file' \in [date : NoDate..MaxDate, open : BOOLEAN]
      /\ copies' = copies \/ copies' = [copies EXCEPT ![i] = Append(copies[i], new)]
      /\ refused' \in {refused, refused \cup {i}} /\ partial' \in {partial, partial \cup {i}}
      /\ faults' \in 0..MaxFaults
      /\ UNCHANGED <<archiver, clock, today, inc, rows, told, sent, ev, redone>>
  BY ArchiveEffect DEF store
<1>2. new \in SUBSET Row
  BY DEF TypeOK, RowsOf
<1> HIDE DEF new
<1>3. copies' \in [Incidents -> Seq(SUBSET Row)]
  <2>1. copies[i] \in Seq(SUBSET Row)
    BY DEF TypeOK
  <2>2. Append(copies[i], new) \in Seq(SUBSET Row)
    BY <1>2, <2>1
  <2>3. QED
    BY <1>1, <2>2 DEF TypeOK
<1>4. refused' \subseteq Incidents /\ partial' \subseteq Incidents
  BY <1>1 DEF TypeOK
<1>5. pass' \in [step : {"idle", "list", "archive", "delete"},
                 cutoff : Int, todo : SUBSET Incidents]
  BY <1>1 DEF TypeOK
<1>6. ev' \in [Evaluators -> EvState]
  BY <1>1, EvaluatorsTyped
<1>7. QED
  BY <1>1, <1>3, <1>4, <1>5, <1>6 DEF TypeOK

-----------------------------------------------------------------------------
\* What an evaluator works on is not past the window, so not copied.
LEMMA ActiveIsRecent ==
  ASSUME TypeOK, EvaluatorIsRecent, CopiedIsOld, NEW e \in Evaluators, ev[e].step # "idle"
  PROVE  /\ ~Gone(ev[e].inc) /\ copies[ev[e].inc] = <<>>
         /\ \A c \in Int : c <= clock - Window => ~Due(ev[e].inc, c)
<1>1. /\ clock \in Int /\ Window \in Int /\ MaxLag \in Int /\ MaxLag <= Window
      /\ ev[e].inc \in Incidents /\ ev[e].at \in Int
  BY NumbersTyped, EvaluatorsTyped
<1>2. /\ clock - ev[e].at <= MaxLag
      /\ \/ inc[ev[e].inc].st = "open"
         \/ inc[ev[e].inc].st = "resolved" /\ inc[ev[e].inc].at = ev[e].at
  BY DEF EvaluatorIsRecent
<1>3. \A c \in Int : c <= clock - Window => ~Due(ev[e].inc, c)
  BY <1>1, <1>2 DEF Due
<1>4. ~Gone(ev[e].inc)
  BY <1>2 DEF Gone
<1>5. QED
  BY <1>1, <1>3, <1>4 DEF CopiedIsOld

\* What a step of an evaluator may do to an incident.
Moves(i) ==
  \/ inc'[i] = inc[i]
  \/ inc[i].st = "none" /\ inc'[i].st = "open"
  \/ /\ inc[i].st = "open" /\ inc'[i].st = "resolved"
     /\ \E e \in Evaluators : i = ev[e].inc /\ inc'[i].at = ev[e].at /\ ev[e].step = "resolve"

\* It takes nothing from what a pass knows, and records only about an
\* incident that no pass has selected.
LEMMA EvaluatorFrame ==
  ASSUME RetentionInv, UNCHANGED <<clock, pass, archive>>,
         \A i \in Incidents : Moves(i),
         NEW new, rows' = rows \cup new, told' = told \cup new,
         \A r \in new : \E e \in Evaluators : r.inc = ev[e].inc /\ ev[e].step # "idle"
  PROVE  PassHandsOver' /\ RowsFollow' /\ CopiedIsOld' /\ HistoryHandedOver' /\ CopiesAreComplete'
<1>1. /\ clock \in Int /\ Window \in Int /\ MaxLag \in Int /\ MaxLag <= Window
      /\ pass.cutoff \in Int
      /\ \A e \in Evaluators : ev[e].inc \in Incidents /\ ev[e].at \in Int
      /\ pass.todo \subseteq Incidents /\ \A r \in told : r.inc \in Incidents
      /\ rows \subseteq told
  <2>1. TypeOK
    BY DEF RetentionInv
  <2>2. rows \subseteq told /\ \A r \in told : r.inc \in Incidents
    BY <2>1 DEF TypeOK, Row
  <2>3. QED
    BY <2>1, <2>2, NumbersTyped, EvaluatorsTyped
<1>2. \A e \in Evaluators : ev[e].step # "idle" =>
        /\ ~Gone(ev[e].inc) /\ copies[ev[e].inc] = <<>>
        /\ clock - ev[e].at <= MaxLag
  BY ActiveIsRecent DEF RetentionInv, EvaluatorIsRecent
<1>3. \A i \in Incidents : Gone(i)' <=> Gone(i)
  BY DEF Moves, Gone
<1>4. ASSUME NEW i \in Incidents, NEW c \in Int, c <= clock - Window
      PROVE  Due(i, c)' <=> Due(i, c)
  BY <1>1, <1>2, <1>4 DEF Moves, Due
<1>5. UNCHANGED <<clock, pass, archiver, copies, refused, partial>>
  BY DEF archive
<1>6. PassHandsOver'
  <2>1. pass.step # "idle" => \A i \in Incidents : Due(i, pass.cutoff)' <=> Due(i, pass.cutoff)
    <3>1. pass.step # "idle" => pass.cutoff <= clock - Window
      BY DEF RetentionInv, PassHandsOver
    <3>2. ASSUME NEW i \in Incidents, NEW c \in Int, c <= clock - Window, c = pass.cutoff
          PROVE  Due(i, pass.cutoff)' <=> Due(i, pass.cutoff)
      BY <1>4, <1>5, <3>2 DEF Due
    <3>3. QED
      BY <1>1, <3>1, <3>2
  <2>2. \A i \in Incidents : Handed(i)' <=> Handed(i)
    BY <1>5 DEF Handed
  <2>3. QED
    BY <1>1, <1>5, <2>1, <2>2 DEF RetentionInv, PassHandsOver
<1>7. RowsFollow'
  BY <1>1, <1>2, <1>3 DEF RetentionInv, RowsFollow
<1>8. CopiedIsOld'
  <2>1. \A i \in Incidents : Due(i, clock - Window)' <=> Due(i, clock - Window)
    BY <1>1, <1>4, <1>5 DEF Due
  <2>2. QED
    BY <1>3, <1>5, <2>1 DEF RetentionInv, CopiedIsOld
<1>9. HistoryHandedOver'
  BY <1>3, <1>5 DEF RetentionInv, HistoryHandedOver
<1>10. CopiesAreComplete'
  <2>1. ASSUME NEW i \in Incidents \ partial, NEW n \in DOMAIN copies[i]
        PROVE  copies[i][n] = {r \in told' : r.inc = i}
    <3>1. copies[i] # <<>>
      BY <2>1
    <3>2. {r \in told' : r.inc = i} = {r \in told : r.inc = i}
      BY <1>2, <3>1
    <3>3. QED
      BY <2>1, <3>2 DEF RetentionInv, CopiesAreComplete
  <2>2. QED
    BY <1>5, <2>1 DEF CopiesAreComplete
<1>11. QED
  BY <1>6, <1>7, <1>8, <1>9, <1>10

\* The incident a tick opens or clears is its evaluator's.
LEMMA BeginStep ==
  ASSUME RetentionInv, NEW i \in Incidents, Open(i) \/ Clear(i)
  PROVE  EvaluatorIsRecent' /\ \A j \in Incidents : Moves(j)
<1>1. /\ clock \in Nat /\ MaxLag \in Nat /\ EvaluatorIsRecent /\ Owner[i] \in Evaluators
      /\ inc \in [Incidents -> [st : {"none", "open", "resolved", "gone"}, at : 0..MaxTime]]
      /\ ev \in [Evaluators -> EvState]
  <2>1. TypeOK /\ EvaluatorIsRecent
    BY DEF RetentionInv
  <2>2. clock \in Nat /\ inc \in [Incidents -> [st : {"none", "open", "resolved", "gone"},
                                             at : 0..MaxTime]]
    BY <2>1, RetentionAssumption DEF TypeOK
  <2>3. MaxLag \in Nat /\ Owner[i] \in Evaluators
    BY RetentionAssumption
  <2>4. QED
    BY <2>1, <2>2, <2>3, EvaluatorsTyped
<1>2. PICK step, kind : ev' = [ev EXCEPT ![Owner[i]] = Begun(i, step, kind)]
  BY DEF Open, Clear
<1>3. PICK b : /\ b = Begun(i, step, kind) /\ b.inc = i /\ b.at = clock
               /\ ev' = [ev EXCEPT ![Owner[i]] = b]
  BY <1>2 DEF Begun
<1>4. /\ clock' = clock /\ inc'[i].st = "open" /\ ev[Owner[i]].step = "idle"
      /\ \A j \in Incidents \ {i} : inc'[j] = inc[j]
      /\ inc[i].st = "none" \/ inc'[i] = inc[i]
  BY <1>1 DEF Open, Clear, store
<1>5. ASSUME NEW e \in Evaluators, ev'[e].step # "idle"
      PROVE  /\ Owner[ev'[e].inc] = e /\ clock' - ev'[e].at <= MaxLag
             /\ \/ inc'[ev'[e].inc].st = "open"
                \/ /\ ev'[e].step = "notify" /\ inc'[ev'[e].inc].st = "resolved"
                   /\ inc'[ev'[e].inc].at = ev'[e].at
  <2>1. CASE e = Owner[i]
    BY <1>1, <1>3, <1>4, <2>1
  <2>2. CASE e # Owner[i]
    <3>1. ev'[e] = ev[e] /\ ev[e].inc \in Incidents
      BY <1>1, <1>3, <2>2 DEF EvState
    <3>2. Owner[ev[e].inc] = e
      BY <1>1, <1>5, <3>1 DEF EvaluatorIsRecent
    <3>3. ev[e].inc # i
      BY <2>2, <3>2
    <3>4. QED
      BY <1>1, <1>4, <1>5, <3>1, <3>3 DEF EvaluatorIsRecent
  <2>3. QED
    BY <2>1, <2>2
<1>6. QED
  BY <1>4, <1>5 DEF EvaluatorIsRecent, Moves

\* The incident it resolves is its own too.
LEMMA ResolveStep ==
  ASSUME RetentionInv, NEW e \in Evaluators, Resolve(e)
  PROVE  EvaluatorIsRecent' /\ \A j \in Incidents : Moves(j)
<1>1. /\ EvaluatorIsRecent /\ ev \in [Evaluators -> EvState]
      /\ inc \in [Incidents -> [st : {"none", "open", "resolved", "gone"}, at : 0..MaxTime]]
  BY DEF RetentionInv, TypeOK
<1>2. /\ inc' = [inc EXCEPT ![ev[e].inc] = [st |-> "resolved", at |-> ev[e].at]]
      /\ ev' = [ev EXCEPT ![e].step = "notify"] /\ clock' = clock /\ ev[e].step = "resolve"
  BY DEF Resolve
<1>3. /\ \A q \in Evaluators : ev'[q].inc = ev[q].inc /\ ev'[q].at = ev[q].at
      /\ \A q \in Evaluators \ {e} : ev'[q] = ev[q]
      /\ ev'[e].step = "notify" /\ \A q \in Evaluators : ev[q].inc \in Incidents
  BY <1>1, <1>2 DEF EvState
<1>4. /\ inc'[ev[e].inc].st = "resolved" /\ inc'[ev[e].inc].at = ev[e].at
      /\ \A j \in Incidents : j # ev[e].inc => inc'[j] = inc[j]
  BY <1>1, <1>2, <1>3
<1>5. inc[ev[e].inc].st = "open" /\ Owner[ev[e].inc] = e
  BY <1>1, <1>2 DEF EvaluatorIsRecent
<1>6. \A q \in Evaluators \ {e} : ev[q].step # "idle" => ev[q].inc # ev[e].inc
  BY <1>1, <1>5 DEF EvaluatorIsRecent
<1>7. EvaluatorIsRecent'
  <2> SUFFICES ASSUME NEW q \in Evaluators, ev'[q].step # "idle"
               PROVE  /\ Owner[ev[q].inc] = q /\ clock - ev[q].at <= MaxLag
                      /\ \/ inc'[ev[q].inc].st = "open"
                         \/ /\ ev'[q].step = "notify" /\ inc'[ev[q].inc].st = "resolved"
                            /\ inc'[ev[q].inc].at = ev[q].at
    BY <1>2, <1>3 DEF EvaluatorIsRecent
  <2>1. CASE q = e
    BY <1>1, <1>2, <1>3, <1>4, <2>1 DEF EvaluatorIsRecent
  <2>2. CASE q # e
    BY <1>1, <1>3, <1>4, <1>6, <2>2 DEF EvaluatorIsRecent
  <2>3. QED
    BY <2>1, <2>2
<1>8. QED
  BY <1>2, <1>4, <1>5, <1>7 DEF Moves

\* Every step of the evaluators.
LEMMA EvaluatorStep ==
  ASSUME RetentionInv, EvaluatorActs
  PROVE  RetentionInv'
<1>1. TypeOK /\ TypeOK' /\ EvaluatorIsRecent /\ ev \in [Evaluators -> EvState]
  BY TypeStepEvaluator DEF RetentionInv, TypeOK
<1>2. SUFFICES /\ EvaluatorIsRecent'
               /\ PassHandsOver' /\ RowsFollow' /\ CopiedIsOld'
               /\ HistoryHandedOver' /\ CopiesAreComplete'
  BY <1>1 DEF RetentionInv
<1>3. ASSUME UNCHANGED <<clock, pass, archive, rows, told>>, \A i \in Incidents : Moves(i)
      PROVE  /\ PassHandsOver' /\ RowsFollow' /\ CopiedIsOld'
             /\ HistoryHandedOver' /\ CopiesAreComplete'
  <2> DEFINE new == {}
  <2>1. rows' = rows \cup new /\ told' = told \cup new
    BY <1>3
  <2>2. \A r \in new : \E e \in Evaluators : r.inc = ev[e].inc /\ ev[e].step # "idle"
    OBVIOUS
  <2> HIDE DEF new
  <2>3. QED
    BY <1>3, <2>1, <2>2, EvaluatorFrame
<1>4. CASE \E i \in Incidents : Open(i) \/ Clear(i)
  BY <1>3, <1>4, BeginStep DEF Open, Clear, store
<1>5. ASSUME NEW e \in Evaluators, Resolve(e)
      PROVE  /\ EvaluatorIsRecent'
             /\ PassHandsOver' /\ RowsFollow' /\ CopiedIsOld'
             /\ HistoryHandedOver' /\ CopiesAreComplete'
  BY <1>3, <1>5, ResolveStep DEF Resolve
<1>6. ASSUME NEW e \in Evaluators, Delivered(e)
      PROVE  /\ EvaluatorIsRecent'
             /\ PassHandsOver' /\ RowsFollow' /\ CopiedIsOld'
             /\ HistoryHandedOver' /\ CopiesAreComplete'
  <2>1. ev' = [ev EXCEPT ![e] = Idle] /\ UNCHANGED <<clock, pass, archive, inc, rows, told>>
    BY <1>6 DEF Delivered, store
  <2>2. \A q \in Evaluators : ev'[q].step = "idle" \/ ev'[q] = ev[q]
    BY <1>1, <2>1, IdleTyped
  <2>3. EvaluatorIsRecent' /\ \A j \in Incidents : Moves(j)
    BY <1>1, <2>1, <2>2 DEF EvaluatorIsRecent, Moves
  <2>4. QED
    BY <1>3, <2>1, <2>3
<1>7. ASSUME NEW e \in Evaluators, NEW s \in Subs,
             Deliver(e, s) \/ GateFails(e, s) \/ RecordFails(e, s)
      PROVE  /\ EvaluatorIsRecent'
             /\ PassHandsOver' /\ RowsFollow' /\ CopiedIsOld'
             /\ HistoryHandedOver' /\ CopiesAreComplete'
  <2>1. PICK new, stage :
          /\ rows' = rows \cup new /\ told' = told \cup new
          /\ new \subseteq {Message(e, s)} /\ ev[e].step = "notify"
          /\ ev' = [ev EXCEPT ![e].stage[s] = stage]
          /\ UNCHANGED <<clock, inc, pass, archive>>
    <3>1. PICK stage : /\ ev[e].step = "notify" /\ ev' = [ev EXCEPT ![e].stage[s] = stage]
                       /\ UNCHANGED <<clock, inc, pass, archive>>
      BY <1>1, <1>7, DeliveryEffect
    <3>2. \/ UNCHANGED <<rows, told>>
          \/ rows' = rows \cup {Message(e, s)} /\ told' = told \cup {Message(e, s)}
      BY <1>1, <1>7, DeliveryEffect
    <3>3. CASE UNCHANGED <<rows, told>>
      <4>1. rows' = rows \cup {} /\ told' = told \cup {} /\ {} \subseteq {Message(e, s)}
        BY <3>3
      <4>2. QED
        BY <3>1, <4>1
    <3>4. QED
      BY <3>1, <3>2, <3>3
  <2>2. \A r \in new : r.inc = ev[e].inc /\ ev[e].step # "idle"
    BY <2>1 DEF Message
  <2>3. \A q \in Evaluators : /\ ev'[q].step = ev[q].step /\ ev'[q].inc = ev[q].inc
                              /\ ev'[q].at = ev[q].at
    BY <1>1, <2>1 DEF EvState
  <2>4. EvaluatorIsRecent'
    BY <1>1, <2>1, <2>3 DEF EvaluatorIsRecent
  <2>5. \A j \in Incidents : Moves(j)
    BY <2>1 DEF Moves
  <2>6. \A r \in new : \E q \in Evaluators : r.inc = ev[q].inc /\ ev[q].step # "idle"
    BY <2>2
  <2>7. QED
    BY <2>1, <2>4, <2>5, <2>6, EvaluatorFrame
<1>8. QED
  BY <1>4, <1>5, <1>6, <1>7 DEF EvaluatorActs

-----------------------------------------------------------------------------
\* A call of the archiver: the incident is handed over with all its rows.
LEMMA ArchiveStep ==
  ASSUME RetentionInv, NEW i \in Incidents, NEW unread \in BOOLEAN, NEW broken \in BOOLEAN,
         ArchiveOne(i, unread, broken)
  PROVE  RetentionInv'
<1> DEFINE new == IF unread THEN {} ELSE RowsOf(i)
<1>0. TypeOK /\ TypeOK'
  BY TypeStepArchive DEF RetentionInv
<1>1. /\ pass.step = "archive" /\ i \in pass.todo
      /\ pass' = [pass EXCEPT !.todo = pass.todo \ {i}]
      /\ (copies' = copies /\ i \in refused') \/ copies' = [copies EXCEPT ![i] = Append(copies[i], new)]
      /\ refused' \in {refused, refused \cup {i}}
      /\ partial' = IF unread THEN partial \cup {i} ELSE partial
      /\ UNCHANGED <<archiver, clock, inc, rows, told, ev>>
  BY <1>0, ArchiveEffect DEF store
<1>2. pass'.step = "archive" /\ pass'.cutoff = pass.cutoff /\ pass'.todo = pass.todo \ {i}
  BY <1>0, <1>1 DEF TypeOK
<1>3. copies \in [Incidents -> Seq(SUBSET Row)] /\ new \in SUBSET Row
  BY <1>0 DEF TypeOK, RowsOf
<1>4. Due(i, pass.cutoff) /\ pass.cutoff <= clock - Window /\ ~Gone(i)
  BY <1>1 DEF RetentionInv, PassHandsOver, Due, Gone
<1>5. unread \/ new = {r \in told : r.inc = i}
  <2>1. \A r \in told : r.inc = i => r \in rows
    BY <1>4 DEF RetentionInv, RowsFollow
  <2>2. rows \subseteq told
    BY <1>0 DEF TypeOK
  <2>3. QED
    BY <2>1, <2>2 DEF RowsOf
<1> HIDE DEF new
<1>6. /\ \A j \in Incidents \ {i} : copies'[j] = copies[j]
      /\ \/ copies'[i] = copies[i] /\ i \in refused'
         \/ copies'[i] = Append(copies[i], new) /\ copies'[i] # <<>>
  <2>1. PICK f : f = copies[i]
    OBVIOUS
  <2>2. f \in Seq(SUBSET Row) /\ Len(Append(f, new)) = Len(f) + 1 /\ Len(f) \in Nat
    BY <1>3, <2>1
  <2>3. Append(f, new) # <<>>
    BY <2>2
  <2>4. QED
    BY <1>1, <1>3, <2>1, <2>3
<1>7. \A j \in Incidents : Handed(j) => Handed(j)'
  BY <1>1, <1>6 DEF Handed
<1>8. Handed(i)'
  BY <1>6 DEF Handed
<1>9. PassHandsOver'
  BY <1>1, <1>2, <1>7, <1>8 DEF RetentionInv, PassHandsOver, Due
<1>10. CopiedIsOld'
  <2>1. inc[i].at \in Int /\ clock \in Int /\ Window \in Int /\ pass.cutoff \in Int
    BY <1>0, RetentionAssumption DEF TypeOK
  <2>2. Due(i, clock - Window)
    BY <1>4, <2>1 DEF Due
  <2>3. QED
    BY <1>1, <1>6, <2>2 DEF RetentionInv, CopiedIsOld, Due, Gone
<1>11. HistoryHandedOver'
  BY <1>1, <1>7 DEF RetentionInv, HistoryHandedOver, Handed, Gone
<1>12. CopiesAreComplete'
  <2> SUFFICES ASSUME NEW j \in Incidents \ partial', NEW n \in DOMAIN copies'[j]
               PROVE  copies'[j][n] = {r \in told : r.inc = j}
    BY <1>1 DEF CopiesAreComplete
  <2>1. CASE copies'[j] = copies[j]
    BY <1>1, <2>1 DEF RetentionInv, CopiesAreComplete
  <2>2. CASE j = i /\ copies'[i] = Append(copies[i], new)
    <3>1. ~unread /\ i \notin partial
      BY <1>1, <2>2
    <3>2. copies[i] \in Seq(SUBSET Row)
      BY <1>3
    <3>3. CASE n \in DOMAIN copies[i]
      <4>1. copies'[i][n] = copies[i][n]
        BY <1>3, <2>2, <3>2, <3>3
      <4>2. QED
        BY <2>2, <3>1, <3>3, <4>1 DEF RetentionInv, CopiesAreComplete
    <3>4. CASE n \notin DOMAIN copies[i]
      <4>1. copies'[i][n] = new
        BY <1>3, <2>2, <3>2, <3>4
      <4>2. QED
        BY <1>5, <2>2, <3>1, <4>1
    <3>5. QED
      BY <3>3, <3>4
  <2>3. QED
    BY <1>6, <2>1, <2>2
<1>13. EvaluatorIsRecent' /\ RowsFollow'
  BY <1>1 DEF RetentionInv, EvaluatorIsRecent, RowsFollow, Gone
<1>14. QED
  BY <1>0, <1>9, <1>10, <1>11, <1>12, <1>13 DEF RetentionInv

\* The delete takes what its pass has handed over, and nothing that an
\* evaluator is still working on.
LEMMA DeleteStep ==
  ASSUME RetentionInv, DeleteResolvedBefore
  PROVE  RetentionInv'
<1> DEFINE due == ListResolvedBefore(pass.cutoff)
<1>0. TypeOK /\ TypeOK'
  BY TypeStepOthers DEF RetentionInv
<1>1. /\ pass.step = "delete" /\ pass' = NoPass
      /\ inc' = [i \in Incidents |-> IF i \in due THEN [inc[i] EXCEPT !.st = "gone"] ELSE inc[i]]
      /\ rows' = {r \in rows : r.inc \notin due}
      /\ UNCHANGED <<clock, told, ev, archiver, copies, refused, partial>>
  BY DEF DeleteResolvedBefore, archive
<1>2. \A i \in due : i \in Incidents /\ Due(i, pass.cutoff)
  BY DEF ListResolvedBefore
<1>3. \A i \in Incidents : i \notin due => ~Due(i, pass.cutoff)
  BY DEF ListResolvedBefore
<1>4. pass'.step = "idle" /\ pass.cutoff <= clock - Window /\ pass.cutoff \in Int
  BY <1>0, <1>1 DEF TypeOK, RetentionInv, PassHandsOver, NoPass
<1>5. \A e \in Evaluators : ev[e].step # "idle" => ev[e].inc \notin due
  BY <1>2, <1>4, ActiveIsRecent DEF RetentionInv
<1> HIDE DEF due
<1>6. \A i \in Incidents : IF i \in due THEN Gone(i)' ELSE inc'[i] = inc[i]
  BY <1>0, <1>1 DEF TypeOK, Gone
<1>7. EvaluatorIsRecent'
  <2>1. \A e \in Evaluators : ev[e].inc \in Incidents
    BY <1>0, EvaluatorsTyped
  <2>2. QED
    BY <1>1, <1>5, <1>6, <2>1 DEF RetentionInv, EvaluatorIsRecent
<1>8. PassHandsOver'
  BY <1>4 DEF PassHandsOver
<1>9. \A r \in told : r.inc \in Incidents
  BY <1>0 DEF TypeOK, Row
<1>10. RowsFollow'
  <2>1. \A r \in rows' : r \in rows /\ r.inc \notin due /\ r.inc \in Incidents
    BY <1>0, <1>1, <1>9 DEF TypeOK
  <2>2. \A r \in rows' : ~Gone(r.inc)'
    BY <1>6, <2>1 DEF RetentionInv, RowsFollow, Gone
  <2>3. \A r \in told : r \in rows' \/ Gone(r.inc)'
    BY <1>1, <1>6, <1>9 DEF RetentionInv, RowsFollow, Gone
  <2>4. QED
    BY <1>1, <2>2, <2>3 DEF RowsFollow
<1>11. CopiedIsOld'
  BY <1>1, <1>6 DEF RetentionInv, CopiedIsOld, Gone, Due
<1>12. HistoryHandedOver'
  <2>1. archiver # "none" => \A i \in due : Handed(i)
    BY <1>1, <1>2 DEF RetentionInv, PassHandsOver
  <2>2. QED
    BY <1>1, <1>6, <2>1 DEF RetentionInv, HistoryHandedOver, Handed, Gone
<1>13. CopiesAreComplete'
  BY <1>1 DEF RetentionInv, CopiesAreComplete
<1>14. QED
  BY <1>0, <1>7, <1>8, <1>10, <1>11, <1>12, <1>13 DEF RetentionInv

\* A pass begins, lists, or ends without deleting; the process dies.  Only
\* the place of pass and evaluators changes.
LEMMA PassStep ==
  ASSUME RetentionInv,
         BeginPass \/ List \/ Archived \/ ListFails \/ DeleteFails \/ Crash \/ NewDate
  PROVE  RetentionInv'
<1>1. TypeOK /\ TypeOK'
  BY TypeStepOthers DEF RetentionInv
<1>2. UNCHANGED <<archiver, clock, inc, rows, told, copies, refused, partial>>
  BY DEF BeginPass, List, Archived, ListFails, DeleteFails, Crash, NewDate, store, archive
<1>3. ev' = ev \/ \A e \in Evaluators : ev'[e].step = "idle"
  <2>1. CASE Crash
    BY <2>1, IdleTyped DEF Crash
  <2>2. CASE ~Crash
    BY <2>2 DEF BeginPass, List, Archived, ListFails, DeleteFails, NewDate
  <2>3. QED
    BY <2>1, <2>2
<1>4. EvaluatorIsRecent'
  BY <1>2, <1>3 DEF RetentionInv, EvaluatorIsRecent
<1>5. RowsFollow' /\ CopiedIsOld' /\ HistoryHandedOver' /\ CopiesAreComplete'
  BY <1>2 DEF RetentionInv, RowsFollow, CopiedIsOld, HistoryHandedOver, CopiesAreComplete, Gone, Due
<1>6. PassHandsOver'
  <2>1. CASE BeginPass
    <3>1. pass' = [step |-> "list", cutoff |-> clock - Window, todo |-> {}]
      BY <2>1 DEF BeginPass
    <3>2. clock - Window <= clock - Window
      BY <1>1, RetentionAssumption DEF TypeOK
    <3>3. QED
      BY <1>2, <3>1, <3>2 DEF PassHandsOver
  <2>2. CASE List
    <3> DEFINE found == ListResolvedBefore(pass.cutoff)
    <3>0. CASE pass'.step = "idle"
      BY <3>0 DEF PassHandsOver
    <3>1. CASE pass'.step # "idle"
      <4>1. /\ pass.step = "list" /\ pass'.todo = found /\ pass'.cutoff = pass.cutoff
            /\ \/ pass'.step = "delete" /\ archiver = "none"
               \/ pass'.step = "archive"
        BY <1>1, <2>2, <3>1 DEF List, TypeOK, NoPass
      <4>2. \A i \in Incidents : Due(i, pass.cutoff) <=> i \in found
        BY DEF ListResolvedBefore
      <4>3. found \subseteq Incidents
        BY DEF ListResolvedBefore
      <4> HIDE DEF found
      <4>4. \A i \in Incidents : Due(i, pass.cutoff)' <=> i \in found
        BY <1>2, <4>1, <4>2 DEF Due
      <4>5. QED
        BY <1>2, <4>1, <4>3, <4>4 DEF RetentionInv, PassHandsOver
    <3>2. QED
      BY <3>0, <3>1
  <2>3. CASE Archived
    <3>1. /\ pass.step = "archive" /\ pass.todo = {}
          /\ pass'.step = "delete" /\ pass'.cutoff = pass.cutoff
      BY <1>1, <2>3 DEF Archived, TypeOK
    <3>2. \A i \in Incidents : Due(i, pass.cutoff) => Handed(i)
      BY <3>1 DEF RetentionInv, PassHandsOver
    <3>3. \A i \in Incidents : Due(i, pass.cutoff)' => Handed(i)'
      BY <1>2, <3>1, <3>2 DEF Due, Handed
    <3>4. QED
      BY <1>2, <3>1, <3>3 DEF RetentionInv, PassHandsOver
  <2>4. CASE ListFails \/ DeleteFails \/ Crash
    <3>1. pass'.step = "idle"
      BY <2>4 DEF ListFails, DeleteFails, Crash, NoPass
    <3>2. QED
      BY <3>1 DEF PassHandsOver
  <2>5. CASE NewDate
    BY <1>2, <2>5 DEF NewDate, RetentionInv, PassHandsOver, Due, Handed
  <2>6. QED
    BY <2>1, <2>2, <2>3, <2>4, <2>5
<1>7. QED
  BY <1>1, <1>4, <1>5, <1>6 DEF RetentionInv

\* Time waits for the evaluators' writes; everything old gets older.
LEMMA TickStep ==
  ASSUME RetentionInv, Tick
  PROVE  RetentionInv'
<1>1. TypeOK /\ TypeOK'
  BY TypeStepOthers DEF RetentionInv
<1>2. /\ clock' = clock + 1
      /\ \A e \in Evaluators : ev[e].step # "idle" => clock - ev[e].at < MaxLag
      /\ UNCHANGED <<archiver, inc, rows, told, ev, pass, copies, refused, partial>>
  BY DEF Tick, store, archive
<1>3. /\ clock \in Int /\ MaxLag \in Int /\ Window \in Int
      /\ \A e \in Evaluators : ev[e].at \in Int
      /\ pass.cutoff \in Int /\ \A i \in Incidents : inc[i].at \in Int
  BY <1>1, NumbersTyped, EvaluatorsTyped
<1>4. EvaluatorIsRecent'
  BY <1>2, <1>3 DEF RetentionInv, EvaluatorIsRecent
<1>5. PassHandsOver'
  BY <1>2, <1>3 DEF RetentionInv, PassHandsOver, Due, Handed
<1>6. CopiedIsOld'
  BY <1>2, <1>3 DEF RetentionInv, CopiedIsOld, Due, Gone
<1>7. RowsFollow' /\ HistoryHandedOver' /\ CopiesAreComplete'
  BY <1>2 DEF RetentionInv, RowsFollow, HistoryHandedOver, CopiesAreComplete, Gone
<1>8. QED
  BY <1>1, <1>4, <1>5, <1>6, <1>7 DEF RetentionInv

-----------------------------------------------------------------------------
\* The inductive invariant of pruner, evaluators and archive.
THEOREM RetentionInvariant == Spec => []RetentionInv
<1>1. RetentionInv /\ [Next]_vars => RetentionInv'
  <2> SUFFICES ASSUME RetentionInv, [Next]_vars
               PROVE  RetentionInv'
    OBVIOUS
  <2>1. CASE \E i \in Incidents, unread, broken \in BOOLEAN : ArchiveOne(i, unread, broken)
    BY <2>1, ArchiveStep
  <2>2. CASE Pruner
    <3>1. FALSE \in BOOLEAN
      OBVIOUS
    <3>2. QED
      BY <2>1, <2>2, <3>1, DeleteStep, PassStep DEF Pruner
  <2>3. CASE UNCHANGED vars
    BY <2>3 DEF vars, RetentionInv, TypeOK, EvaluatorIsRecent, PassHandsOver, RowsFollow,
                CopiedIsOld, HistoryHandedOver, CopiesAreComplete, Gone, Due, Handed
  <2>4. QED
    BY <2>1, <2>2, <2>3, EvaluatorStep, PassStep, TickStep DEF Next, Evaluate, EvaluatorActs
<1>2. QED
  BY <1>1, InvInit, PTL DEF Spec

\* List and delete are two queries, yet nothing that the evaluator resolves
\* between them is deleted without having been handed over (retention.go:101).
THEOREM NothingSlipsBetween == Spec => []HistoryHandedOver
<1>1. RetentionInv => HistoryHandedOver
  BY DEF RetentionInv
<1>2. QED
  BY <1>1, RetentionInvariant, PTL

\* A copy holds every row the incident ever had, unless the rows could not be
\* read: no delivery slips in after the fetch (retention.go:117).
THEOREM CopiesHoldEverything == Spec => []CopiesAreComplete
<1>1. RetentionInv => CopiesAreComplete
  BY DEF RetentionInv
<1>2. QED
  BY <1>1, RetentionInvariant, PTL

\* No notification row outlives its incident, with deliveries running when
\* the pass deletes (retention.go:131).
THEOREM NoRowOutlives == Spec => []StoreConsistent
<1>1. RetentionInv => StoreConsistent
  BY DEF RetentionInv, RowsFollow, StoreConsistent
<1>2. QED
  BY <1>1, RetentionInvariant, PTL

-----------------------------------------------------------------------------
(* How often an incident is archived. *)

\* The pass has archived it and is about to delete it.
HandedThisPass(i) ==
  /\ Due(i, pass.cutoff)
  /\ pass.step = "delete" \/ (pass.step = "archive" /\ i \notin pass.todo)

\* An incident that is there and not on its way out in this pass was archived
\* by passes that had to be repeated, and by no other.
CopiesInv ==
  \A i \in Incidents :
    /\ Len(copies[i]) <= 1 + redone
    /\ Gone(i) \/ HandedThisPass(i) \/ Len(copies[i]) <= redone

\* An evaluator neither adds to what a pass has selected nor takes from it.
LEMMA SelectionStands ==
  ASSUME RetentionInv, EvaluatorActs
  PROVE  /\ UNCHANGED <<pass, copies, redone>>
         /\ \A i \in Incidents : Gone(i)' <=> Gone(i)
         /\ pass.step # "idle" =>
              \A i \in Incidents : Due(i, pass.cutoff)' <=> Due(i, pass.cutoff)
<1>1. /\ clock \in Int /\ Window \in Int /\ MaxLag \in Int /\ MaxLag <= Window
      /\ pass.cutoff \in Int
      /\ \A e \in Evaluators : ev[e].inc \in Incidents /\ ev[e].at \in Int
      /\ inc \in [Incidents -> [st : {"none", "open", "resolved", "gone"}, at : 0..MaxTime]]
      /\ pass.step # "idle" => pass.cutoff <= clock - Window
  <2>1. TypeOK /\ PassHandsOver
    BY DEF RetentionInv
  <2>2. inc \in [Incidents -> [st : {"none", "open", "resolved", "gone"}, at : 0..MaxTime]]
    BY <2>1 DEF TypeOK
  <2>3. QED
    BY <2>1, <2>2, NumbersTyped, EvaluatorsTyped DEF PassHandsOver
<1>2. UNCHANGED <<pass, copies, redone>>
  BY DEF EvaluatorActs, Open, Clear, Resolve, Delivered, Deliver, Gate, GateFails, Send, Record,
         RecordFails, archive
<1>3. \A i \in Incidents : Moves(i)
  <2>1. CASE \E i \in Incidents : Open(i) \/ Clear(i)
    BY <2>1, BeginStep
  <2>2. CASE \E e \in Evaluators : Resolve(e)
    BY <2>2, ResolveStep
  <2>3. CASE UNCHANGED inc
    BY <2>3 DEF Moves
  <2>4. QED
    BY <2>1, <2>2, <2>3 DEF EvaluatorActs, Delivered, Deliver, Gate, GateFails, Send, Record,
                            RecordFails, store
<1>4. \A e \in Evaluators : ev[e].step # "idle" => clock - ev[e].at <= MaxLag
  BY DEF RetentionInv, EvaluatorIsRecent
<1>5. \A i \in Incidents : Gone(i)' <=> Gone(i)
  BY <1>3 DEF Moves, Gone
<1>6. ASSUME pass.step # "idle", NEW i \in Incidents
      PROVE  Due(i, pass.cutoff)' <=> Due(i, pass.cutoff)
  BY <1>1, <1>2, <1>3, <1>4, <1>6 DEF Moves, Due
<1>7. QED
  BY <1>2, <1>5, <1>6

\* A call of the archiver adds one copy at most, of an incident that this
\* pass had not handed over.
LEMMA CopiesStepArchive ==
  ASSUME RetentionInv, CopiesInv,
         NEW i \in Incidents, NEW unread \in BOOLEAN, NEW broken \in BOOLEAN,
         ArchiveOne(i, unread, broken)
  PROVE  CopiesInv'
<1> DEFINE new == IF unread THEN {} ELSE RowsOf(i)
<1>1. /\ pass.step = "archive" /\ i \in pass.todo
      /\ pass' = [pass EXCEPT !.todo = pass.todo \ {i}]
      /\ copies' = copies \/ copies' = [copies EXCEPT ![i] = Append(copies[i], new)]
      /\ UNCHANGED <<inc, redone>> /\ TypeOK
  BY ArchiveEffect DEF RetentionInv, store
<1>2. new \in SUBSET Row
  BY <1>1 DEF TypeOK, RowsOf
<1> HIDE DEF new
<1>3. /\ \A k \in Incidents : copies[k] \in Seq(SUBSET Row) /\ Len(copies[k]) \in Nat
      /\ redone \in Nat /\ Due(i, pass.cutoff)
  BY <1>1 DEF TypeOK, RetentionInv, PassHandsOver
<1>4. Len(Append(copies[i], new)) = Len(copies[i]) + 1
  BY <1>2, <1>3
<1>5. /\ Len(copies'[i]) \in {Len(copies[i]), Len(copies[i]) + 1}
      /\ \A k \in Incidents : k # i => copies'[k] = copies[k]
  BY <1>1, <1>4 DEF TypeOK
<1>6. /\ pass'.step = "archive" /\ pass'.cutoff = pass.cutoff /\ pass'.todo = pass.todo \ {i}
  BY <1>1 DEF TypeOK
<1>7. \A k \in Incidents : (Gone(k)' <=> Gone(k)) /\ (Due(k, pass.cutoff)' <=> Due(k, pass.cutoff))
  BY <1>1, <1>6 DEF Gone, Due
<1>8. HandedThisPass(i)' /\ \A k \in Incidents : HandedThisPass(k) => HandedThisPass(k)'
  BY <1>1, <1>3, <1>6, <1>7 DEF HandedThisPass, Due
<1>9. Len(copies[i]) <= redone
  BY <1>1, <1>3 DEF CopiesInv, HandedThisPass, Gone, Due
<1>10. QED
  BY <1>1, <1>3, <1>5, <1>7, <1>8, <1>9 DEF CopiesInv

\* Between two passes nothing is on its way out, so a pass that does not
\* delete has to count as one that is repeated.
LEMMA CopiesStepPass ==
  ASSUME RetentionInv, CopiesInv,
         \/ BeginPass \/ List \/ Archived \/ DeleteResolvedBefore \/ ListFails \/ DeleteFails
         \/ Crash \/ Tick \/ NewDate
  PROVE  CopiesInv'
<1>1. /\ TypeOK /\ redone \in Nat /\ copies' = copies
      /\ \A i \in Incidents : Len(copies[i]) \in Nat
  <2>1. TypeOK
    BY DEF RetentionInv
  <2>2. copies' = copies
    BY DEF BeginPass, List, Archived, DeleteResolvedBefore, ListFails, DeleteFails, Crash, Tick,
           NewDate, archive
  <2>3. QED
    BY <2>1, <2>2 DEF TypeOK
<1>2. ASSUME inc' = inc, redone' = redone, pass'.cutoff = pass.cutoff,
             \A i \in Incidents : HandedThisPass(i) => HandedThisPass(i)'
      PROVE  CopiesInv'
  BY <1>1, <1>2 DEF CopiesInv, Gone
<1>3. CASE pass.step \in {"idle", "list"} /\ inc' = inc /\ redone' = redone
  BY <1>1, <1>3 DEF CopiesInv, HandedThisPass, Gone
<1>4. CASE BeginPass \/ List \/ ListFails
  BY <1>3, <1>4 DEF BeginPass, List, ListFails, store
<1>5. CASE Archived
  <2>1. /\ inc' = inc /\ redone' = redone /\ pass.step = "archive"
        /\ pass'.cutoff = pass.cutoff /\ pass'.step = "delete"
    BY <1>1, <1>5 DEF Archived, store, TypeOK
  <2>2. QED
    BY <1>2, <2>1 DEF HandedThisPass, Due
<1>6. CASE Tick \/ NewDate
  BY <1>2, <1>6 DEF Tick, NewDate, store, HandedThisPass, Due
<1>7. CASE DeleteFails \/ Crash
  BY <1>1, <1>7 DEF DeleteFails, Crash, CopiesInv
<1>8. CASE DeleteResolvedBefore
  <2>1. /\ redone' = redone /\ pass.step = "delete"
        /\ \A i \in Incidents : IF Due(i, pass.cutoff) THEN Gone(i)' ELSE inc'[i] = inc[i]
    BY <1>1, <1>8 DEF DeleteResolvedBefore, ListResolvedBefore, Gone, TypeOK
  <2>2. QED
    BY <1>1, <2>1 DEF CopiesInv, HandedThisPass, Gone
<1>9. QED
  BY <1>4, <1>5, <1>6, <1>7, <1>8

\* An incident is archived again only by a pass that follows one whose delete
\* failed or that was cut short (retention.go:132).
THEOREM DuplicatesHaveCause == Spec => []DuplicatesOnlyByRedo
<1>1. Init => CopiesInv
  BY DEF Init, CopiesInv
<1>2. RetentionInv /\ CopiesInv /\ [Next]_vars => CopiesInv'
  <2> SUFFICES ASSUME RetentionInv, CopiesInv, [Next]_vars
               PROVE  CopiesInv'
    OBVIOUS
  <2>1. CASE \E i \in Incidents, unread, broken \in BOOLEAN : ArchiveOne(i, unread, broken)
    BY <2>1, CopiesStepArchive
  <2>2. CASE EvaluatorActs
    <3>1. /\ UNCHANGED <<pass, copies, redone>> /\ \A i \in Incidents : Gone(i)' <=> Gone(i)
          /\ pass.step # "idle" =>
               \A i \in Incidents : Due(i, pass.cutoff)' <=> Due(i, pass.cutoff)
      BY <2>2, SelectionStands
    <3>2. \A i \in Incidents : HandedThisPass(i) => HandedThisPass(i)'
      BY <3>1 DEF HandedThisPass, Due
    <3>3. QED
      BY <3>1, <3>2 DEF CopiesInv
  <2>3. CASE Pruner
    <3>1. FALSE \in BOOLEAN
      OBVIOUS
    <3>2. QED
      BY <2>1, <2>3, <3>1, CopiesStepPass DEF Pruner
  <2>4. CASE UNCHANGED vars
    BY <2>4 DEF vars, CopiesInv, HandedThisPass, Gone, Due
  <2>5. QED
    BY <2>1, <2>2, <2>3, <2>4, CopiesStepPass DEF Next, Evaluate, EvaluatorActs
<1>3. CopiesInv => DuplicatesOnlyByRedo
  BY DEF CopiesInv, DuplicatesOnlyByRedo
<1>4. QED
  BY <1>1, <1>2, <1>3, RetentionInvariant, PTL DEF Spec

-----------------------------------------------------------------------------
(* The archiver's file. *)

\* The file of today is open: a roll that failed left the date of another day.
FileInv == file.date <= today /\ (file.date = today => file.open)

\* A call that meets no fault is not refused.
LEMMA FileStep ==
  ASSUME TypeOK, FileInv, [Next]_vars
  PROVE  FileInv' /\ (refused' # refused => faults' > faults)
<1>1. /\ file \in [date : NoDate..MaxDate, open : BOOLEAN] /\ today \in Nat /\ faults \in Nat
  BY RetentionAssumption DEF TypeOK
<1>2. CASE UNCHANGED <<file, today, refused>>
  BY <1>2 DEF FileInv
<1>3. ASSUME NEW i \in Incidents, NEW unread \in BOOLEAN, NEW broken \in BOOLEAN,
             ArchiveOne(i, unread, broken)
      PROVE  FileInv' /\ (refused' # refused => faults' > faults)
  <2>1. PICK out \in Archive(broken) :
          /\ file' = out.file
          /\ refused' = IF out.failed THEN refused \cup {i} ELSE refused
    BY <1>3 DEF ArchiveOne
  <2>2. UNCHANGED today /\ (unread \/ broken => faults' > faults)
    BY <1>1, <1>3 DEF ArchiveOne, Fault
  <2>3. CASE archiver = "json"
    <3> DEFINE rolled == IF file.date = today THEN file
                         ELSE IF broken THEN [file EXCEPT !.open = FALSE]
                         ELSE [date |-> today, open |-> TRUE]
    <3>1. /\ out.file = rolled
          /\ out.failed = ~(rolled.open /\ rolled.date = today /\ ~broken)
      BY <2>1, <2>3 DEF Archive, JSONFileArchive, Outcome
    <3>2. /\ rolled.date <= today /\ (rolled.date = today => rolled.open)
          /\ ~broken => rolled.date = today
      BY <1>1 DEF FileInv
    <3> HIDE DEF rolled
    <3>3. QED
      BY <2>1, <2>2, <3>1, <3>2 DEF FileInv
  <2>4. CASE archiver # "json"
    <3>1. out.file = file /\ (~broken => ~out.failed)
      <4>1. CASE broken
        BY <2>1, <2>4, <4>1 DEF Archive, WebhookArchive, Outcome
      <4>2. CASE ~broken
        BY <2>1, <2>4, <4>2 DEF Archive, WebhookArchive, Outcome
      <4>3. QED
        BY <4>1, <4>2
    <3>2. QED
      BY <2>1, <2>2, <3>1 DEF FileInv
  <2>5. QED
    BY <2>3, <2>4
<1>4. CASE EvaluatorActs
  <2>1. CASE \/ \E i \in Incidents : Open(i) \/ Clear(i)
             \/ \E e \in Evaluators : Resolve(e) \/ Delivered(e)
    BY <1>2, <2>1 DEF Open, Clear, Resolve, Delivered, archive
  <2>2. CASE \E e \in Evaluators, s \in Subs :
               Deliver(e, s) \/ GateFails(e, s) \/ RecordFails(e, s)
    <3>1. UNCHANGED <<today, archive>>
      BY <2>2 DEF Deliver, Gate, GateFails, Send, Record, RecordFails
    <3>2. QED
      BY <1>2, <3>1 DEF archive
  <2>3. QED
    BY <1>4, <2>1, <2>2 DEF EvaluatorActs
<1>5. CASE \/ BeginPass \/ List \/ Archived \/ DeleteResolvedBefore \/ ListFails \/ DeleteFails
           \/ Tick \/ UNCHANGED vars
  BY <1>2, <1>5 DEF BeginPass, List, Archived, DeleteResolvedBefore, ListFails, DeleteFails,
                    Tick, vars, archive
<1>6. CASE Crash
  BY <1>1, <1>6 DEF Crash, FileInv, NoDate
<1>7. CASE NewDate
  BY <1>1, <1>7 DEF NewDate, FileInv, archive
<1>8. CASE Pruner
  <2>1. FALSE \in BOOLEAN
    OBVIOUS
  <2>2. QED
    BY <1>3, <1>5, <1>8, <2>1 DEF Pruner
<1>9. QED
  BY <1>3, <1>4, <1>5, <1>6, <1>7, <1>8 DEF Next, Evaluate, EvaluatorActs

\* A file error costs the call it happens in and no later one: the next call
\* opens the file it needs (sinks.go:60).
THEOREM FileErrorsPass == Spec => FileRecovers
<1>1. Init => FileInv
  BY RetentionAssumption DEF Init, FileInv, NoDate
<1>2. RetentionInv => TypeOK
  BY DEF RetentionInv
<1>3. TypeOK /\ FileInv /\ [Next]_vars => FileInv' /\ [refused' # refused => faults' > faults]_vars
  BY FileStep
<1>4. QED
  BY <1>1, <1>2, <1>3, RetentionInvariant, PTL DEF Spec, FileRecovers

-----------------------------------------------------------------------------
(* What a one-shot subscription hears of one incident. *)

About(i, s, kind) == [inc |-> i, sub |-> s, kind |-> kind]

\* An alarm is about an open incident, a resolution about a resolved one.
KindFits ==
  \A e \in Evaluators : ev[e].step # "idle" =>
    /\ ev[e].kind = "firing" => inc[ev[e].inc].st = "open"
    /\ ev[e].kind = "resolved" /\ ev[e].step = "notify" => inc[ev[e].inc].st = "resolved"
    /\ ev[e].step = "resolve" => ev[e].kind = "resolved"

\* No resolution is past the gate while the alarm has, or will have, its row.
GateKept ==
  \A e \in Evaluators, s \in OneShot :
    ev[e].step # "idle" /\ ev[e].kind = "resolved" /\ ev[e].stage[s] \in {"send", "record"} =>
      About(ev[e].inc, s, "firing") \notin told

\* A resolution was sent of what is resolved.
EndsAreEnds ==
  \A i \in Incidents, s \in OneShot :
    About(i, s, "resolved") \in sent =>
      inc[i].st \in {"resolved", "gone"} /\ About(i, s, "firing") \notin told

OneShotInv == KindFits /\ GateKept /\ EndsAreEnds

\* Two messages of a subscription are the same if they agree on the rest.
LEMMA AboutIsOne ==
  ASSUME NEW i, NEW j, NEW s, NEW q, NEW kind, NEW same_kind,
         About(i, s, kind) = About(j, q, same_kind)
  PROVE  i = j /\ s = q /\ kind = same_kind
<1>1. /\ About(i, s, kind).inc = i /\ About(i, s, kind).sub = s /\ About(i, s, kind).kind = kind
      /\ About(j, q, same_kind).inc = j /\ About(j, q, same_kind).sub = q /\ About(j, q, same_kind).kind = same_kind
  BY DEF About
<1>2. QED
  BY <1>1

\* A tick begins with nothing past a gate; an incident that opens has had no
\* resolution.
LEMMA OneShotBegin ==
  ASSUME RetentionInv, OneShotInv, NEW i \in Incidents, Open(i) \/ Clear(i)
  PROVE  OneShotInv'
<1>1. /\ ev \in [Evaluators -> EvState] /\ Owner[i] \in Evaluators /\ EvaluatorIsRecent
      /\ inc \in [Incidents -> [st : {"none", "open", "resolved", "gone"}, at : 0..MaxTime]]
      /\ OneShot \subseteq Subs
  BY RetentionAssumption DEF RetentionInv, TypeOK
<1>2. PICK b : /\ ev' = [ev EXCEPT ![Owner[i]] = b]
               /\ b \in {Begun(i, "notify", "firing"), Begun(i, "resolve", "resolved")}
  BY DEF Open, Clear
<1>3. /\ b.inc = i /\ \A s \in Subs : b.stage[s] \in {"todo", "done"}
      /\ b.kind = "firing" \/ b.step = "resolve"
      /\ b.step = "resolve" => b.kind = "resolved"
  BY <1>2 DEF Begun
<1>4. /\ inc'[i].st = "open" /\ ev[Owner[i]].step = "idle" /\ inc[i].st \in {"none", "open"}
      /\ \A j \in Incidents \ {i} : inc'[j] = inc[j]
      /\ UNCHANGED <<told, sent>>
  BY <1>1 DEF Open, Clear, store
<1>5. /\ ev'[Owner[i]] = b
      /\ \A e \in Evaluators \ {Owner[i]} : ev'[e] = ev[e] /\ ev[e].inc \in Incidents
  BY <1>1, <1>2 DEF EvState
<1>6. \A e \in Evaluators \ {Owner[i]} : ev[e].step # "idle" => ev[e].inc # i
  BY <1>1 DEF EvaluatorIsRecent
<1>7. KindFits'
  <2> SUFFICES ASSUME NEW e \in Evaluators, ev'[e].step # "idle"
               PROVE  /\ ev'[e].kind = "firing" => inc'[ev'[e].inc].st = "open"
                      /\ ev'[e].kind = "resolved" /\ ev'[e].step = "notify" =>
                           inc'[ev'[e].inc].st = "resolved"
                      /\ ev'[e].step = "resolve" => ev'[e].kind = "resolved"
    BY DEF KindFits
  <2>1. CASE e = Owner[i]
    BY <1>3, <1>4, <1>5, <2>1
  <2>2. CASE e # Owner[i]
    BY <1>4, <1>5, <1>6, <2>2 DEF OneShotInv, KindFits
  <2>3. QED
    BY <2>1, <2>2
<1>8. GateKept'
  BY <1>1, <1>3, <1>4, <1>5 DEF OneShotInv, GateKept
<1>9. EndsAreEnds'
  BY <1>4 DEF OneShotInv, EndsAreEnds
<1>10. QED
  BY <1>7, <1>8, <1>9 DEF OneShotInv

\* The incident is resolved before its resolution is sent.
LEMMA OneShotResolve ==
  ASSUME RetentionInv, OneShotInv, NEW e \in Evaluators, Resolve(e)
  PROVE  OneShotInv'
<1>1. /\ ev \in [Evaluators -> EvState] /\ EvaluatorIsRecent
      /\ inc \in [Incidents -> [st : {"none", "open", "resolved", "gone"}, at : 0..MaxTime]]
  BY DEF RetentionInv, TypeOK
<1>2. /\ inc' = [inc EXCEPT ![ev[e].inc] = [st |-> "resolved", at |-> ev[e].at]]
      /\ ev' = [ev EXCEPT ![e].step = "notify"] /\ ev[e].step = "resolve"
      /\ UNCHANGED <<told, sent>>
  BY DEF Resolve
<1>3. /\ \A q \in Evaluators : /\ ev'[q].inc = ev[q].inc /\ ev'[q].kind = ev[q].kind
                              /\ ev'[q].stage = ev[q].stage /\ ev[q].inc \in Incidents
      /\ \A q \in Evaluators \ {e} : ev'[q] = ev[q]
      /\ ev'[e].step = "notify"
  BY <1>1, <1>2 DEF EvState
<1>4. /\ inc'[ev[e].inc].st = "resolved"
      /\ \A j \in Incidents : j # ev[e].inc => inc'[j] = inc[j]
  BY <1>1, <1>2, <1>3
<1>5. \A q \in Evaluators \ {e} : ev[q].step # "idle" => ev[q].inc # ev[e].inc
  BY <1>1, <1>2 DEF EvaluatorIsRecent
<1>6. ev[e].kind = "resolved"
  BY <1>2 DEF OneShotInv, KindFits
<1>7. KindFits'
  BY <1>3, <1>4, <1>5, <1>6 DEF OneShotInv, KindFits
<1>8. GateKept'
  BY <1>2, <1>3 DEF OneShotInv, GateKept
<1>9. EndsAreEnds'
  BY <1>2, <1>4 DEF OneShotInv, EndsAreEnds
<1>10. QED
  BY <1>7, <1>8, <1>9 DEF OneShotInv

\* Past the gate goes a resolution only where the alarm has no row: the row
\* of an incident that is there was not pruned.
LEMMA OneShotDelivery ==
  ASSUME RetentionInv, OneShotInv, NEW e \in Evaluators, NEW s \in Subs,
         Deliver(e, s) \/ GateFails(e, s) \/ RecordFails(e, s)
  PROVE  OneShotInv'
<1>1. /\ ev \in [Evaluators -> EvState] /\ EvaluatorIsRecent /\ TypeOK /\ OneShot \subseteq Subs
      /\ \A q \in Evaluators : ev[q].inc \in Incidents
  BY RetentionAssumption, EvaluatorsTyped DEF RetentionInv
<1>2. PICK stage \in Stage, m \in Row :
        /\ m = Message(e, s) /\ ev[e].step = "notify"
        /\ ev' = [ev EXCEPT ![e].stage[s] = stage]
        /\ \/ UNCHANGED <<rows, told>> /\ sent' \in {sent, sent \cup {m}}
           \/ told' = told \cup {m} /\ ev[e].stage[s] = "record" /\ UNCHANGED sent
        /\ UNCHANGED inc
  BY <1>1, DeliveryEffect
<1>3. m = About(ev[e].inc, s, ev[e].kind)
  BY <1>2 DEF Message, About
<1>4. /\ \A q \in Evaluators : /\ ev'[q].inc = ev[q].inc /\ ev'[q].kind = ev[q].kind
                              /\ ev'[q].step = ev[q].step
      /\ \A q \in Evaluators, r \in Subs : q # e \/ r # s => ev'[q].stage[r] = ev[q].stage[r]
      /\ ev'[e].stage[s] = stage
  BY <1>1, <1>2 DEF EvState
<1>5. KindFits'
  BY <1>2, <1>4 DEF OneShotInv, KindFits
<1>6. \A q \in Evaluators : ev[q].step # "idle" /\ ev[q].inc = ev[e].inc => q = e
  BY <1>1, <1>2 DEF EvaluatorIsRecent
<1>7. CASE Gate(e, s)
  <2>1. UNCHANGED <<told, sent>> /\ s \in OneShot
        /\ ev' = [ev EXCEPT ![e].stage[s] = IF ExistsForSubscription(s) THEN "done" ELSE "send"]
    BY <1>7 DEF Gate, Goes, store
  <2>2. ev[e].kind = "resolved" /\ ev'[e].stage[s] = "send" =>
          About(ev[e].inc, s, "firing") \notin told
    <3>1. ~Gone(ev[e].inc)
      BY <1>1, <1>2, ActiveIsRecent DEF RetentionInv
    <3>2. /\ About(ev[e].inc, s, "firing").sub = s
          /\ About(ev[e].inc, s, "firing").inc = ev[e].inc
      BY DEF About
    <3>3. ev'[e].stage[s] = "send" => ~ExistsForSubscription(s)
      BY <1>1, <2>1 DEF EvState
    <3>4. QED
      BY <3>1, <3>2, <3>3 DEF RetentionInv, RowsFollow, ExistsForSubscription
  <2>3. ev'[e].stage[s] \in {"done", "send"}
    BY <1>1, <2>1 DEF EvState
  <2>4. GateKept'
    <3> SUFFICES ASSUME NEW q \in Evaluators, NEW r \in OneShot,
                        ev'[q].step # "idle", ev'[q].kind = "resolved",
                        ev'[q].stage[r] \in {"send", "record"}
                 PROVE  About(ev[q].inc, r, "firing") \notin told
      BY <1>4, <2>1 DEF GateKept
    <3>1. CASE q = e /\ r = s
      BY <1>4, <2>2, <2>3, <3>1
    <3>2. CASE q # e \/ r # s
      BY <1>1, <1>4, <3>2 DEF OneShotInv, GateKept
    <3>3. QED
      BY <3>1, <3>2
  <2>5. QED
    BY <1>2, <1>5, <2>1, <2>4 DEF OneShotInv, EndsAreEnds
<1>8. CASE Send(e, s)
  <2>1. /\ UNCHANGED told /\ sent' = sent \cup {m}
        /\ s \in OneShot => ev[e].stage[s] = "send"
    BY <1>2, <1>8 DEF Send, At
  <2>2. GateKept'
    <3> SUFFICES ASSUME NEW q \in Evaluators, NEW r \in OneShot,
                        ev'[q].step # "idle", ev'[q].kind = "resolved",
                        ev'[q].stage[r] \in {"send", "record"}
                 PROVE  About(ev[q].inc, r, "firing") \notin told
      BY <1>4, <2>1 DEF GateKept
    <3>1. /\ ev[q].step # "idle" /\ ev[q].kind = "resolved"
          /\ ev[q].stage[r] \in {"send", "record"}
      BY <1>1, <1>4, <2>1
    <3>2. QED
      BY <3>1 DEF OneShotInv, GateKept
  <2>3. EndsAreEnds'
    <3> SUFFICES ASSUME NEW i \in Incidents, NEW r \in OneShot,
                        About(i, r, "resolved") \in sent'
                 PROVE  inc[i].st \in {"resolved", "gone"} /\ About(i, r, "firing") \notin told
      BY <1>2, <2>1 DEF EndsAreEnds
    <3>1. CASE About(i, r, "resolved") \in sent
      BY <3>1 DEF OneShotInv, EndsAreEnds
    <3>2. CASE About(i, r, "resolved") = m
      <4>1. i = ev[e].inc /\ r = s /\ ev[e].kind = "resolved"
        BY <1>3, <3>2, AboutIsOne
      <4>2. inc[i].st = "resolved"
        BY <1>2, <4>1 DEF OneShotInv, KindFits
      <4>3. QED
        BY <1>2, <2>1, <4>1, <4>2 DEF OneShotInv, GateKept
    <3>3. QED
      BY <2>1, <3>1, <3>2
  <2>4. QED
    BY <1>5, <2>2, <2>3 DEF OneShotInv
<1>9. CASE Record(e, s)
  <2>1. told' = told \cup {m} /\ UNCHANGED sent /\ ev' = [ev EXCEPT ![e].stage[s] = "done"]
    BY <1>2, <1>9 DEF Record, Goes
  <2>2. ev'[e].stage[s] = "done"
    BY <1>1, <2>1 DEF EvState
  <2>3. GateKept'
    <3> SUFFICES ASSUME NEW q \in Evaluators, NEW r \in OneShot,
                        ev'[q].step # "idle", ev'[q].kind = "resolved",
                        ev'[q].stage[r] \in {"send", "record"}
                 PROVE  About(ev[q].inc, r, "firing") \notin told'
      BY <1>4 DEF GateKept
    <3>1. About(ev[q].inc, r, "firing") \notin told
      BY <1>1, <1>4, <2>2 DEF OneShotInv, GateKept
    <3>2. ASSUME About(ev[q].inc, r, "firing") = m PROVE FALSE
      <4>1. ev[q].inc = ev[e].inc /\ r = s /\ ev[e].kind = "firing"
        BY <1>3, <3>2, AboutIsOne
      <4>2. QED
        BY <1>4, <1>6, <4>1
    <3>3. QED
      BY <2>1, <3>1, <3>2
  <2>4. EndsAreEnds'
    <3> SUFFICES ASSUME NEW i \in Incidents, NEW r \in OneShot, About(i, r, "resolved") \in sent
                 PROVE  /\ inc[i].st \in {"resolved", "gone"}
                        /\ About(i, r, "firing") \notin told \cup {m}
      BY <1>2, <2>1 DEF EndsAreEnds
    <3>1. inc[i].st \in {"resolved", "gone"} /\ About(i, r, "firing") \notin told
      BY DEF OneShotInv, EndsAreEnds
    <3>2. ASSUME About(i, r, "firing") = m PROVE FALSE
      <4>1. i = ev[e].inc /\ ev[e].kind = "firing"
        BY <1>3, <3>2, AboutIsOne
      <4>2. QED
        BY <1>2, <3>1, <4>1 DEF OneShotInv, KindFits
    <3>3. QED
      BY <3>1, <3>2
  <2>5. QED
    BY <1>5, <2>3, <2>4 DEF OneShotInv
<1>10. CASE GateFails(e, s) \/ RecordFails(e, s)
  <2>1. UNCHANGED <<told, sent>> /\ ev' = [ev EXCEPT ![e].stage[s] = "done"]
    BY <1>10 DEF GateFails, RecordFails, Goes, store
  <2>2. ev'[e].stage[s] = "done"
    BY <1>1, <2>1 DEF EvState
  <2>3. GateKept'
    BY <1>1, <1>4, <2>1, <2>2 DEF OneShotInv, GateKept
  <2>4. QED
    BY <1>2, <1>5, <2>1, <2>3 DEF OneShotInv, EndsAreEnds
<1>11. QED
  BY <1>7, <1>8, <1>9, <1>10 DEF Deliver

\* The tick is over, or the process died.
LEMMA OneShotRests ==
  ASSUME OneShotInv, UNCHANGED <<inc, told, sent>>,
         \A e \in Evaluators : ev'[e] = ev[e] \/ ev'[e].step = "idle"
  PROVE  OneShotInv'
<1>1. KindFits'
  BY DEF OneShotInv, KindFits
<1>2. GateKept'
  BY DEF OneShotInv, GateKept
<1>3. EndsAreEnds'
  BY DEF OneShotInv, EndsAreEnds
<1>4. QED
  BY <1>1, <1>2, <1>3 DEF OneShotInv

\* Pruning takes what is resolved, and nothing an evaluator works on.
LEMMA OneShotPruned ==
  ASSUME RetentionInv, OneShotInv, DeleteResolvedBefore
  PROVE  OneShotInv'
<1> DEFINE due == ListResolvedBefore(pass.cutoff)
<1>1. /\ inc' = [i \in Incidents |-> IF i \in due THEN [inc[i] EXCEPT !.st = "gone"] ELSE inc[i]]
      /\ pass.step = "delete" /\ UNCHANGED <<told, sent, ev>>
  BY DEF DeleteResolvedBefore
<1>2. /\ pass.cutoff \in Int /\ pass.cutoff <= clock - Window
      /\ \A e \in Evaluators : ev[e].inc \in Incidents
  BY <1>1, NumbersTyped, EvaluatorsTyped DEF RetentionInv, PassHandsOver
<1>3. \A e \in Evaluators : ev[e].step # "idle" => ev[e].inc \notin due
  BY <1>2, ActiveIsRecent DEF RetentionInv, ListResolvedBefore
<1>4. \A i \in due : i \in Incidents /\ inc[i].st = "resolved"
  BY DEF ListResolvedBefore, Due
<1> HIDE DEF due
<1>5. \A i \in Incidents : IF i \in due THEN inc'[i].st = "gone" ELSE inc'[i] = inc[i]
  BY <1>1 DEF RetentionInv, TypeOK
<1>6. KindFits'
  BY <1>1, <1>2, <1>3, <1>5 DEF OneShotInv, KindFits
<1>7. GateKept'
  BY <1>1 DEF OneShotInv, GateKept
<1>8. EndsAreEnds'
  BY <1>1, <1>4, <1>5 DEF OneShotInv, EndsAreEnds
<1>9. QED
  BY <1>6, <1>7, <1>8 DEF OneShotInv

\* Every step keeps what a one-shot subscription hears in order.
LEMMA OneShotStep ==
  ASSUME RetentionInv, OneShotInv, [Next]_vars
  PROVE  OneShotInv'
<1>1. ev \in [Evaluators -> EvState]
  BY EvaluatorsTyped DEF RetentionInv
<1>2. ASSUME NEW e \in Evaluators, Delivered(e) PROVE OneShotInv'
  <2>1. UNCHANGED <<inc, told, sent>> /\ ev' = [ev EXCEPT ![e] = Idle]
    BY <1>2 DEF Delivered, store
  <2>2. \A q \in Evaluators : ev'[q] = ev[q] \/ ev'[q].step = "idle"
    BY <1>1, <2>1, IdleTyped
  <2>3. QED
    BY <2>1, <2>2, OneShotRests
<1>3. CASE Crash
  <2>1. UNCHANGED <<inc, told, sent>> /\ ev' = [e \in Evaluators |-> Idle]
    BY <1>3 DEF Crash, store
  <2>2. \A q \in Evaluators : ev'[q].step = "idle"
    BY <2>1, IdleTyped
  <2>3. QED
    BY <2>1, <2>2, OneShotRests
<1>4. ASSUME UNCHANGED <<inc, told, sent, ev>> PROVE OneShotInv'
  BY <1>4, OneShotRests
<1>5. CASE \/ BeginPass \/ List \/ Archived \/ ListFails \/ DeleteFails \/ Tick \/ NewDate
           \/ UNCHANGED vars
  BY <1>4, <1>5 DEF BeginPass, List, Archived, ListFails, DeleteFails, Tick, NewDate, vars, store
<1>6. ASSUME NEW i \in Incidents, NEW unread \in BOOLEAN, NEW broken \in BOOLEAN,
             ArchiveOne(i, unread, broken)
      PROVE  OneShotInv'
  BY <1>4, <1>6 DEF ArchiveOne, store
<1>7. CASE Pruner
  <2>1. FALSE \in BOOLEAN
    OBVIOUS
  <2>2. QED
    BY <1>5, <1>6, <1>7, <2>1, OneShotPruned DEF Pruner
<1>8. CASE EvaluatorActs
  BY <1>2, <1>8, OneShotBegin, OneShotResolve, OneShotDelivery DEF EvaluatorActs
<1>9. QED
  BY <1>3, <1>5, <1>6, <1>7, <1>8 DEF Next, Evaluate, EvaluatorActs

\* Pruning takes the row that keeps the gate of a one-shot subscription shut
\* (sqlite.go:627), yet never for the incident it is about: whatever runs
\* beside a delivery, the subscription is told of an incident's end after its
\* alarm only if the alarm has no row.
THEOREM OneShotHearsOnce == Spec => []OneShotPerIncident
<1>1. Init => OneShotInv
  BY IdleTyped DEF Init, OneShotInv, KindFits, GateKept, EndsAreEnds
<1>2. RetentionInv /\ OneShotInv /\ [Next]_vars => OneShotInv'
  BY OneShotStep
<1>3. OneShotInv => OneShotPerIncident
  BY DEF OneShotInv, EndsAreEnds, About, OneShotPerIncident
<1>4. QED
  BY <1>1, <1>2, <1>3, RetentionInvariant, PTL DEF Spec
=============================================================================
