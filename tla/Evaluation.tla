----------------------------- MODULE Evaluation -----------------------------
(***************************************************************************)
(* From a record or a tick of the clock to the outcome the dispatcher is   *)
(* given: the rolling windows of one input, the conditions, and the two    *)
(* evaluators that share windows and cache.  A record carries a number for *)
(* the field the rules look at, and a text; a broker's time stamp may lie  *)
(* in the past.  What Tick does is Dispatcher.tla's.                       *)
(***************************************************************************)
EXTENDS Integers, Sequences, FiniteSetsExt

CONSTANTS Rules, Condition, Schedule,  \* the rules, and what each one asks
          MaxSpan,                     \* longest window kept
          Records,                     \* the records the input may bring
          Edited,                      \* the rules that are set and deleted
          QueueCap, MaxRecords, MaxTime, MaxChanges, MaxRestarts

Absent == -1

Compare(op, a, b) ==
  CASE op = ">" -> a > b [] op = ">=" -> a >= b [] op = "<" -> a < b
    [] op = "<=" -> a <= b [] op = "==" -> a = b [] op = "!=" -> a # b
    [] OTHER -> FALSE

Comparisons == {">", ">=", "<", "<=", "==", "!="}
Aggregates == {"avg", "sum", "min", "max", "count"}
Mode(c) == IF c.type \in {"window_aggregate", "sql_returns_rows"} THEN "scheduled"
           ELSE IF c.type = "expression" /\ c.mode = "scheduled" THEN "scheduled" ELSE "push"

\* Compile, per type; of a pattern or a query only its absence is an error
\* here.  A condition of another type is not even read from the store.
ThresholdCompiles(c) == c.op \in Comparisons
WindowCompiles(c) == c.window > 0 /\ c.agg \in Aggregates /\ c.op \in Comparisons
PatternCompiles(c) == c.value # Absent
QueryCompiles(c) == c.value # Absent
ExpressionCompiles(c) == c.mode \in {"", "push", "scheduled"}

Compiles(c) ==
  CASE c.type = "threshold" -> ThresholdCompiles(c)
    [] c.type = "window_aggregate" -> WindowCompiles(c)
    [] c.type = "pattern_match" -> PatternCompiles(c)
    [] c.type = "sql_returns_rows" -> QueryCompiles(c)
    [] c.type = "expression" -> ExpressionCompiles(c)
    [] OTHER -> FALSE

EvaluationAssumption ==
  /\ Schedule \in [Rules -> Int]
  /\ \A r \in Rules : Mode(Condition[r]) = "scheduled" => Schedule[r] > 0
  /\ MaxSpan \in Nat /\ MaxTime \in Nat /\ MaxRecords \in Nat

\* There is a time to begin with and a channel; a record's number is one.
RecordsAssumption ==
  /\ MaxTime # 0 /\ QueueCap \in Nat
  /\ \A rec \in Records : rec.num \in Nat \cup {Absent}

VARIABLES now,       \* the time
          inbox,     \* the records in the channel, [at, rec, n]
          buffer,    \* the samples kept for the field, oldest arrival first
          cache,     \* the rules that are compiled and enabled
          taken,     \* the records taken from the channel by this process
          pushTodo,  \* the rules the push evaluator has still to run
          ticker,    \* the tick in the ticker's channel, 0 for none
          pass,      \* the tick the scheduled evaluator works on
          began,     \* when, by the clock, it took that tick
          before,    \* and when it took the tick before that one
          batch,     \* the rules it has still to look at
          last,      \* its map of last ticks, 0 for none
          told,      \* the last outcome of each rule handed to Tick
          ran,       \* the tick of each rule's last run since it was cached
          since,     \* how many records had been taken when it was cached
          sent, changes, restarts

cadence == <<ticker, pass, began, before>>
evalVars == <<now, inbox, buffer, cache, taken, pushTodo, cadence, batch, last, told, ran, since,
              sent, changes, restarts>>

Sample == [at : 1..MaxTime, v : Nat, n : 1..MaxRecords]
NoVerdict == [n |-> 0, yes |-> FALSE]

EvaluationTypeOK ==
  /\ now \in 1..MaxTime /\ {ticker, pass, began, before} \subseteq 0..MaxTime
  /\ buffer \in Seq(Sample) /\ Len(inbox) <= QueueCap
  /\ cache \subseteq Rules /\ pushTodo \subseteq Rules /\ batch \subseteq Rules
  /\ last \in [Rules -> 0..MaxTime] /\ ran \in [Rules -> 0..MaxTime]
  /\ told \in [Rules -> [n : 0..MaxRecords, yes : BOOLEAN]]

EvaluationInit ==
  /\ now = 1 /\ inbox = <<>> /\ buffer = <<>> /\ taken = <<>>
  /\ cache = {r \in Rules : Compiles(Condition[r])}
  /\ ticker = 0 /\ pass = 0 /\ began = 0 /\ before = 0
  /\ pushTodo = {} /\ batch = {}
  /\ last = [r \in Rules |-> 0] /\ ran = last /\ since = last
  /\ told = [r \in Rules |-> NoVerdict]
  /\ sent = 0 /\ changes = 0 /\ restarts = 0

-----------------------------------------------------------------------------
\* Mutant: the samples up to the last old one go, as if they were in order.
PrunedInOrder(s) ==
  LET old == {i \in 1..Len(s) : s[i].at <= now - MaxSpan}
  IN IF old = {} THEN s ELSE SubSeq(s, Max(old) + 1, Len(s))

\* The samples before the first recent one go; an old one that came late
\* stays behind it.
Pruned(s) ==
  LET recent == {i \in 1..Len(s) : s[i].at > now - MaxSpan}
  IN IF recent = {} THEN <<>> ELSE SubSeq(s, Min(recent), Len(s))

\* A record's number joins the window; what is no number is passed over.
Observed(m) ==
  Pruned(IF m.rec.num = Absent THEN buffer
         ELSE Append(buffer, [at |-> m.at, v |-> m.rec.num, n |-> m.n]))

Samples(window) ==
  LET s == Pruned(buffer) IN {s[i] : i \in {j \in 1..Len(s) : s[j].at >= now - window}}

\* An aggregate as a fraction: the helpers' average is one.
Measured(agg, samples) ==
  LET values == {x.v : x \in samples}
      sum == MapThenSumSet(LAMBDA x : x.v, samples)
  IN CASE agg = "avg" -> <<sum, Cardinality(samples)>>
       [] agg = "sum" -> <<sum, 1>>
       [] agg = "min" -> <<Min(values), 1>>
       [] agg = "max" -> <<Max(values), 1>>
       [] agg = "count" -> <<Cardinality(samples), 1>>

\* The outcome of a condition over a window.  Without samples all but the
\* count are undefined, which is no alarm and no error.
Fires(c, samples) ==
  /\ samples # {} \/ c.agg = "count"
  /\ LET m == Measured(c.agg, samples) IN Compare(c.op, m[1], c.value * m[2])

\* The outcome of a push condition: a record without the field is no alarm;
\* an expression may fail on it.
Errs(c, rec) == c.type = "expression" /\ rec.text = "odd"
ThresholdHolds(c, rec) == rec.num # Absent /\ Compare(c.op, rec.num, c.value)
PatternHolds(c, rec) == rec.text = "match"
ExpressionHolds(c, rec) == rec.num # Absent /\ Compare(c.op, rec.num, c.value)
Holds(c, rec) ==
  CASE c.type = "threshold" -> ThresholdHolds(c, rec)
    [] c.type = "pattern_match" -> PatternHolds(c, rec)
    [] c.type = "expression" -> ExpressionHolds(c, rec)

-----------------------------------------------------------------------------
\* An input hands a record over, stamped with its own time.
Arrive(rec, at) ==
  /\ sent < MaxRecords /\ Len(inbox) < QueueCap /\ at <= now
  /\ sent' = sent + 1
  /\ inbox' = Append(inbox, [at |-> at, rec |-> rec, n |-> sent + 1])
  /\ UNCHANGED <<now, buffer, cache, taken, pushTodo, cadence, batch, last, told, ran, since,
                 changes, restarts>>

ByInput == {r \in cache : Mode(Condition[r]) = "push"}

TakeRecord ==
  /\ pushTodo = {} /\ inbox # <<>>
  /\ inbox' = Tail(inbox) /\ taken' = Append(taken, Head(inbox))
  /\ buffer' = Observed(Head(inbox))
  /\ pushTodo' = ByInput
  /\ UNCHANGED <<now, cache, cadence, batch, last, told, ran, since, sent, changes, restarts>>

\* Mutant: an error ends the loop over the rules.
EvalPushStops(r) ==
  LET m == taken[Len(taken)]
      c == Condition[r]
  IN /\ r \in pushTodo
     /\ pushTodo' = IF Errs(c, m.rec) THEN {} ELSE pushTodo \ {r}
     /\ told' = IF Errs(c, m.rec) THEN told
                ELSE [told EXCEPT ![r] = [n |-> Len(taken), yes |-> Holds(c, m.rec)]]
     /\ UNCHANGED <<now, inbox, buffer, cache, taken, cadence, batch, last, ran, since, sent,
                    changes, restarts>>

\* An error is logged and leaves the rule as it is.
EvalPush(r) ==
  LET m == taken[Len(taken)]
      c == Condition[r]
  IN /\ r \in pushTodo
     /\ pushTodo' = pushTodo \ {r}
     /\ told' = IF Errs(c, m.rec) THEN told
                ELSE [told EXCEPT ![r] = [n |-> Len(taken), yes |-> Holds(c, m.rec)]]
     /\ UNCHANGED <<now, inbox, buffer, cache, taken, cadence, batch, last, ran, since, sent,
                    changes, restarts>>

\* The ticker's channel holds one tick: a later one is dropped.
TimePasses ==
  /\ now < MaxTime /\ now' = now + 1
  /\ ticker' = IF ticker = 0 THEN now + 1 ELSE ticker
  /\ UNCHANGED <<inbox, buffer, cache, taken, pushTodo, pass, began, before, batch, last, told, ran,
                 since, sent, changes, restarts>>

BeginPass ==
  /\ batch = {} /\ ticker # 0
  /\ pass' = ticker /\ ticker' = 0
  /\ began' = now /\ before' = began
  /\ batch' = {r \in cache : Mode(Condition[r]) = "scheduled"}
  /\ UNCHANGED <<now, inbox, buffer, cache, taken, pushTodo, last, told, ran, since, sent, changes,
                 restarts>>

PassOver(r) ==
  /\ r \in batch /\ last[r] # 0 /\ pass - last[r] < Schedule[r]
  /\ batch' = batch \ {r}
  /\ UNCHANGED <<now, inbox, buffer, cache, taken, pushTodo, cadence, last, told, ran, since,
                 sent, changes, restarts>>

Due(r) == r \in batch /\ (last[r] = 0 \/ pass - last[r] >= Schedule[r])

\* Mutant: the run is noted with the clock's time.
NoteRunByClock(r) == last' = [last EXCEPT ![r] = now]

\* The run is noted with the time of the tick that led to it.
NoteRun(r) == last' = [last EXCEPT ![r] = pass]

\* The outcome, or an error that is shown in the live state: a query fails,
\* an expression does.
EvalScheduled(r) ==
  LET c == Condition[r] IN
  /\ Due(r)
  /\ batch' = batch \ {r}
  /\ NoteRun(r) /\ ran' = [ran EXCEPT ![r] = pass]
  /\ \/ /\ c.type = "window_aggregate"
        /\ told' = [told EXCEPT ![r] = [n |-> 0, yes |-> Fires(c, Samples(c.window))]]
     \/ /\ c.type # "window_aggregate"
        /\ \/ UNCHANGED told
           \/ \E yes \in BOOLEAN : told' = [told EXCEPT ![r] = [n |-> 0, yes |-> yes]]
  /\ UNCHANGED <<now, inbox, buffer, cache, taken, pushTodo, cadence, since, sent, changes,
                 restarts>>

\* The rule is created, enabled or updated; only what compiles gets here.
SetRule(r) ==
  /\ r \in Edited
  /\ changes < MaxChanges /\ changes' = changes + 1
  /\ Compiles(Condition[r]) /\ r \notin cache
  /\ cache' = cache \cup {r}
  /\ since' = [since EXCEPT ![r] = Len(taken)] /\ ran' = [ran EXCEPT ![r] = 0]
  /\ UNCHANGED <<now, inbox, buffer, taken, pushTodo, cadence, batch, last, told, sent, restarts>>

\* It is disabled or deleted.  An evaluator that has it in hand goes on, and
\* the scheduled one remembers when it ran.
DeleteRule(r) ==
  /\ r \in Edited
  /\ changes < MaxChanges /\ changes' = changes + 1
  /\ r \in cache /\ cache' = cache \ {r}
  /\ UNCHANGED <<now, inbox, buffer, taken, pushTodo, cadence, batch, last, told, ran, since,
                 sent, restarts>>

\* The windows and the cadence are in memory alone.
Restart ==
  /\ restarts < MaxRestarts /\ restarts' = restarts + 1
  /\ inbox' = <<>> /\ buffer' = <<>> /\ taken' = <<>>
  /\ ticker' = 0 /\ pass' = 0 /\ began' = 0 /\ before' = 0
  /\ pushTodo' = {} /\ batch' = {}
  /\ last' = [r \in Rules |-> 0] /\ ran' = last' /\ since' = last'
  /\ told' = [r \in Rules |-> NoVerdict]
  /\ UNCHANGED <<now, cache, sent, changes>>

EvaluationNext ==
  \/ \E rec \in Records, at \in 1..MaxTime : Arrive(rec, at)
  \/ TakeRecord \/ TimePasses \/ BeginPass \/ Restart
  \/ \E r \in Rules :
       EvalPush(r) \/ PassOver(r) \/ EvalScheduled(r) \/ SetRule(r) \/ DeleteRule(r)

EvaluationSpec == EvaluationInit /\ [][EvaluationNext]_evalVars

-----------------------------------------------------------------------------
\* A window shorter than the longest one kept is exact: whatever order the
\* records came in and whenever the buffer was pruned, it holds every number
\* of this process's records stamped in it and no other (window.go:51, 143).
WindowIsExact ==
  \A w \in 1..(MaxSpan - 1) :
    {x.n : x \in Samples(w)} =
      {taken[i].n : i \in {j \in 1..Len(taken) :
         taken[j].rec.num # Absent /\ taken[j].at >= now - w}}

\* A record that one rule cannot evaluate costs the others nothing: between
\* two records, what a cached rule last told the dispatcher is about the last
\* record it could evaluate (eval.go:108-119).
EachRuleIsTold ==
  pushTodo = {} => \A r \in ByInput :
    LET good == {i \in (since[r] + 1)..Len(taken) : ~Errs(Condition[r], taken[i].rec)}
    IN good # {} =>
         told[r] = [n |-> Max(good), yes |-> Holds(Condition[r], taken[Max(good)].rec)]

\* A rule the clock said was due when one pass began has run by the end of
\* the next: that one works on a tick from after that time, however late it
\* begins itself and however many ticks were dropped (eval.go:149).
NoneIsLate ==
  batch = {} => \A r \in cache : ran[r] # 0 => before - ran[r] < Schedule[r]

\* Cadence, with a schedule that is compared with the time of the tick and not
\* with the clock's: no rule is late, and in one process none runs again
\* within its schedule of its last tick (eval.go:155-161).
OnSchedule ==
  [][/\ NoneIsLate'
     /\ \A r \in Rules : ran[r] # 0 /\ ran'[r] \notin {0, ran[r]} =>
          ran'[r] - ran[r] >= Schedule[r]]_evalVars
=============================================================================
