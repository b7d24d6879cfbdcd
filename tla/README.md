# signalwatch in TLA+

signalwatch evaluates rules over records that come in from inputs and tells
subscribers, on their channels, when a rule starts firing, keeps firing and
stops. This directory holds TLA+ modules of that program, the TLC
configurations that check them and TLAPS proofs. All paths below are relative
to `src/`; every definition that models code is tied to its lines in
`PROJECT.json` under `map`.

To check a configuration run `tlc -config X.cfg M`, with the module that
`PROJECT.json` names for it; to check the proofs,
`tlapm` on each of the eight `...Proofs.tla`.

## The system

| part | state | operations | what makes it correct |
|---|---|---|---|
| rule state machine, `internal/rule/state.go` | one `LiveState` per rule: ok or firing, start of the cycle, incident id | `Apply` | an incident id and a start last exactly one firing cycle |
| dispatcher, `internal/dispatcher/dispatcher.go` | none of its own: the tables `live_states`, `incidents`, `incident_sub_states`, `notifications` | `Tick` (and `evaluateSubscription`, `deliver`) | dwell, repeat interval, resolution and one-shot promises per subscription; the tables agree; the audit trail is complete |
| evaluators, `internal/eval/eval.go` | the rule cache; when each rule was last run | `PushEvaluator.Run`, `ScheduledEvaluator.Run`, `evalOne` | each record, and each rule whose schedule has elapsed, leads to one Tick; one rule's error costs the others nothing |
| window buffers, `internal/eval/window.go` | samples per input and field | `Observe`, `samples`, the aggregates | a window sees exactly its samples |
| conditions, `internal/rule/condition.go`, `expression.go` | none | `Compile`, `Eval` | the comparison asked for |
| engine, `engine/engine.go` | started, cancel, sink, wait group; cache and store of rules | `Start`, `Close`, `Submit`, `ruleAPI` | cache and store agree; `Close` returns and runs do not mix |
| event, scrape and stream inputs, `internal/input` | the sink; broker offsets and receipts | `Start`, `Submit`, the broker loops | no record is lost, or none is doubled, as each protocol promises |
| store, `internal/store/{sqlite,postgres,mysql}` | the tables | `Migrate`, CRUD and the queries | the three drivers hold the same statements; one statement is one step |
| subscriptions, `internal/subscriber`, `internal/store` | subscribers, subscriptions | CRUD, `ListForRule` | a lookup made of two queries answers as one would |
| retention, `internal/retention` | the archive file | `RunOnce`, `Archive` | nothing is deleted that was not handed to the archive |
| tokens, `internal/auth`, `internal/api/{auth,tokens}.go` | the token table | issue, revoke, `requireAuth`, `requireScope` | a revoked or expired token admits nobody |
| channels, `internal/channel` | the providers', above all PagerDuty's pages | `Send` | a message goes where its binding says; a page ends with its incident |
| HTTP API, UI, observability, commands | none that matters here | decoding and wiring | |

An input puts records into one channel; the push evaluator takes them out,
evaluates the rules of that input and calls `Tick`. The scheduled evaluator
wakes every second and calls `Tick` for the rules that are due. Both run
concurrently and share nothing but the store: `Tick` has no lock and no
transaction, so it can be interleaved with another `Tick` at every store call
and stopped at every one of them. The API writes store and rule cache while
the evaluators read them, the pruner deletes what the dispatcher's one-shot
gate reads, `Close` races `Start`, and each broker settles messages at a
different point. What can go wrong at which line is `hazards` in
`PROJECT.json`.

## Modules

| module | models | what a step is |
|---|---|---|
| `RuleState` | `rule.Apply` and the predicates of `Transition` | operators only |
| `Dispatcher` (extends `RuleState`) | the evaluators' calls of `Tick`, over the four tables | one store call or send; see below |
| `AlertFeed` | what a subscription promises: per incident and channel one alarm after the dwell, reminders, one resolution | a message |
| `TolerantFeed` (extends `AlertFeed`) | what is left of that promise when store calls fail: the order, the dwell, and one early message per binding for each fault | a message, or a fault |
| `Channels` (extends `AlertFeed`) | `Send` of the seven channel types and what the provider makes of it | a feed's message, sent, with one of four outcomes |
| `Evaluation` | window buffers, conditions, `PushEvaluator.Run` and `ScheduledEvaluator.Run` up to the call of `Tick`, and the cache they read | a record taken, a rule looked at, a tick |
| `Subscriptions` | CRUD of subscribers and subscriptions; a Tick's `ListForRule` and the read of the subscriber | one statement |
| `RuleAdmin` | `ruleAPI` over table and cache, the handlers in front of it, restart | the table write, the cache write |
| `Access` | `requireAuth`, `requireScope`, the token handlers, the detached write of the last use | the lookup, the handler, the detached write |
| `Migration` | `Store.Migrate` of the three drivers | a transaction, or a statement where there is none |
| `Retention` | `Pruner.RunOnce`, both archivers, the cascading delete, beside the evaluators and the calls of `deliver` | one store or file call, or a send |
| `EngineLifecycle` | `Start`, `Close`, the goroutines and their wait group, `Submit` | a locked section, a launch, a goroutine's start or end, a send |
| `KafkaInput`, `QueueInput` | `runTopic`; the loops of SQS, RabbitMQ and Pub/Sub | a call of the broker, a send into the sink |
| `Delivery` | what those inputs promise: settle what was taken, or take what was settled | a message taken or settled |
| `DispatcherClaims` | `Dispatcher` against `AlertFeed` and `TolerantFeed`, and a sentence about it that does not hold | |
| `DispatcherInvariant`, `DispatcherOwner` (extend `Dispatcher`) | the dispatcher's inductive invariants: what holds however evaluators share rules, and what holds where they do not | |
| `DispatcherProofs`, `DispatcherOwnerProofs`, `DispatcherPromiseProofs` | the proofs about them, and of the refinements of `AlertFeed` and `TolerantFeed` | |
| `AlertFeedProofs` | proofs about `AlertFeed`, `TolerantFeed` and `Channels` | |
| `EngineProofs` | proofs about `EngineLifecycle`, `Subscriptions` and `Evaluation` | |
| `AdminProofs`, `InputProofs`, `RetentionProofs` | proofs about `RuleAdmin`, `Access` and `Migration`; about the two kinds of stream input; about `Retention` | |
| `MC...` | values for the constants; `MCInputs` puts the two kinds of input side by side, `MCAdmin` the four administered tables, and a behaviour is about one of them | |

In `Dispatcher` the four tables are variables; a Tick under way is the
evaluator's `pc` with the Go locals `ls`, `tr`, `job` (arguments and `now`),
`todo`, `dlv`, `left`, `audit`. Every store call or send is one action, with
the local computation up to the next call:

| code | actions |
|---|---|
| `Tick`, steps 1 to 5 | `BeginTick`, `LoadLiveState`, `SaveLiveState`, `RecordIncident`, `ListSubscriptions`, `ReadFails` |
| `Tick`, the loop, and `evaluateSubscription` up to `deliver` | `PassOver`, `SubStateFails`, `StartDelivery`, `EndTick` |
| `deliver` | `OneShotGate`, `GateFails`, `Send`, `RecordNotification` |
| `evaluateSubscription` after `deliver` | `MarkNotified` |
| `evalOne` when the evaluation failed | `BeginEvalError`, `LoadForError`, `SaveForError` |
| the process ends and starts again | `Crash` |

A write may fail, and one reported as failed may have been applied
(`WriteOutcomes`). Some variables are not in the code; the properties are
stated with them: `feed` (what was handed to a channel, in order), `born` and
the fault counters; `told`, `sent`, `copies`, `refused`, `partial` and
`redone` in `Retention`; `opened` in `Channels`; `blamed` in `RuleAdmin`, the ids whose cache entry may differ for
a reason; `gone` in `Access`, when a revocation was answered; `touched` and
`ever` in `Subscriptions`; `taken`, `told`, `began`, `before`, `ran` and `since` in
`Evaluation`;
`lost`, `dropped` and `evaluated` in the inputs.

Operators marked `Mutant` state plausible bugs of the definition that follows
them; nothing uses them, they record which bug each property finds.

### How the modules compose

`Channels` extends `AlertFeed`, which `Dispatcher` implements: the message
`Dispatcher` hands to a channel is the one whose fate `Channels` follows. With
faults it implements `TolerantFeed`, which has all of `AlertFeed`'s actions,
one more for a message sent again and one for the fault that pays for it.
`KafkaInput` and `QueueInput` implement `Delivery` (`INSTANCE` with a mapping
of what the broker still owes). `Evaluation` ends where `Dispatcher!BeginTick`
begins. `Subscriptions` is what `Dispatcher` has as the constant `Match`,
`RuleAdmin` explains the cache `Evaluation` lets rules enter and leave.
`Retention` has its own, coarser evaluators: they take the order of an
incident's writes from `Tick`, and from `deliver` the gate, the send and the
row as calls of their own, but not the dwell, the repeats or the sub states:
every follower of a rule is due when its incident opens and when it resolves.

### Abstractions

- Time is a counter and durations are small numbers; the store's truncation of
  times to milliseconds is left out. A Tick's `now` is read when it begins and
  may be old when it is used.
- In `Dispatcher`, `Match[r]` is the result of `ListForRule` and `Targets[s]`
  the bindings that pass the channel filter and have a configured channel (the
  others are skipped without any effect). Channels and subscriptions are
  visited in any order; the code's order is one of them.
- A missing row and an empty one are the same, as for the code.
- `notifications` is a set: rows that agree in everything but their random id
  are one, which hides a duplicate row, not a missing one.
- `LastEvalAt`, `LastValue` and `LastError` are left out: they are shown or
  sent along, and nothing is decided on them.
- `Crash` drops every call under way and keeps the tables. A cancelled context
  appears as calls that fail.
- In `Evaluation` a record has one number and one text. Whether the text
  matches a pattern, or makes an expression fail, is a member of a small set;
  averages are compared as fractions. Buffers of different fields share
  nothing, so one is modelled.
- In `Retention` an evaluation writes within `MaxLag` of its timestamp, at
  most the window: an evaluation that hangs longer than the retention window
  could write to an incident already pruned.
- In `Migration` the first two versions are one repeatable statement each (they
  consist of `IF NOT EXISTS`), the third its two statements.
- In `Access` a token is named by its id: hashing is injective, and a secret
  is never guessed.

## Runs

| run | instance | shows |
|---|---|---|
| `alert_channels` | `AlertFeed` and `Channels`: two incidents, two subscriptions on one channel of each type, with and without a default destination, three addresses, time up to 3, three messages in all | `PagesFollowTheirFeeds`: no PagerDuty page survives all feeds that have one, none is opened for another incident, whichever answers are lost; `OnePagePerFeed`: nor does a feed open a second one |
| `dispatcher_promise` | one evaluator, two incidents, dwell 1, repeat 2, two channels of which one may fail, no fault, fair | `ImplementsAlertFeed`: every behaviour is one of `AlertFeed`; `EndIsDelivered`: whoever was told of an incident is told of its end |
| `dispatcher_faults` | one evaluator, two incidents, two subscriptions, 2 faults, fair | `ImplementsTolerantFeed`: through any faults every behaviour is one of `TolerantFeed`; `ResolvedIsLast`, `NoAlarmAfterResolve`, `ResolutionStands` hold whatever fails; `TooSoonOnlyByFaults`, `TablesAgreeUpToFaults`, `AuditedUpToFaults`: a fault costs a binding at most one early message and one missing audit row, and a rule at most one disagreement of the tables; `DueIsDelivered`: a due alarm is delivered in spite of faults |
| `dispatcher_one_shot` | one evaluator, two rules, two channels, one one-shot subscription, 2 faults | `OneShotOnce` across rules, incidents and kinds |
| `dispatcher_shared` | two evaluators that both serve the rule, 1 fault | `DwellRespected` and `FeedsStartWithFiring` hold even so; `IndInv`, the invariant of the proofs |
| `retention` | two incidents of two rules, one pushed to and one scheduled, a plain subscription to one and a one-shot one to both, window 1, either archive, time up to 3, one change of date, 1 fault, fair | `StoreConsistent`, `CopiesAreComplete`: no row outlives its incident, a copy is whole; `HistoryHandedOver`: list and delete agree; `DuplicatesOnlyByRedo`; `FileRecovers`; `OneShotPerIncident`: the rows a pass deletes reopen the gate for no incident whose alarm they record; `ResolvedIsPruned` |
| `inputs` | one queue of three messages or one topic of three, one message that does not decode, a sink of 1, 1 fault (2 for Kafka), fair | `QueueAtLeastOnce`, `KafkaAtMostOnce`: the two refinements of `Delivery`; `SettledIsAccountedFor`, `EvaluatedInTheEnd`, `EvaluatedOrLost`: what is settled or unread has gone somewhere |
| `engine_restarts` | one caller, all four goroutines, two runs, two clients, a sink of 1, fair | `RunsDoNotMix`, `CloseReturns`, `AcceptedIsEvaluated` |
| `admin` | two rules, two clients, 3 calls; two tokens, two requests; two people, two subscriptions, 4 writes; three drivers, two processes; 1 or 2 faults each; symmetry of clients, requests and processes | `DriftIsExplained`: cache and table differ only for a reason; `RevokedStaysOut`, `LastUseWasGood`; `LookupIsAsOne`; `VersionsAreWhole`, `RerunSucceeds` |
| `evaluation` | five rules of which two are edited, a channel of 1, two records, longest window 2, time up to 5, 2 changes, 1 restart | `WindowIsExact`: no order of arrival loses or keeps a sample; `EachRuleIsTold`; `OnSchedule`: in spite of dropped ticks and slow passes no rule is late by more than the pass under way, and none runs again within its schedule |

Two runs are expected to fail. Each checks one sentence about the program and
TLC shows a behaviour of the code that contradicts it:

| run | sentence | what happens |
|---|---|---|
| `claim_one_shot` | "delivers EXACTLY ONE notification across its lifetime" (`dispatcher.go:254`) | the push and the scheduled evaluator pass the gate for two rules before either has recorded its row |
| `claim_archive_retry` | "return an error so the pruner can log + retry on the next tick" (`sinks.go:97`) | the incident whose archive call failed is deleted in the same pass |

The type invariants of most modules (`AdminTypeOK`, `InputsTypeOK`,
`EvaluationTypeOK`, `TypeOK` of `EngineLifecycle`) are proved instead of run;
they hold on the instances above when added to their `.cfg`, and so do
`RecordsAreKept` and `OutcomeIsFinal` of `EngineLifecycle`, `ReadIsAccountedFor`
and `EvaluatedInOrder` of `KafkaInput`, `RowsAreSound` and `RecipientIsThere` of
`Subscriptions`. `Dispatcher`'s types are a part of `IndInv`, `Retention`'s of
`StoreConsistent`.

### Bounds, and why they are enough

- Dispatcher: `MaxTime` (2 to 5) bounds the clock, `Incidents` the number of
  firing cycles, `MaxFaults` (0 to 2) the failed calls, failed evaluations and
  restarts together. Dwell and repeat are 0 to 2, so the instances reach an
  incident that ends before the dwell, one that is alarmed, repeated and
  resolved, a second incident after it, and two faults in one Tick or in
  different ones, in every order. A `BeginTick` that would need a third
  incident id is not taken, nor is one that comes after the clock stopped with
  a new reading; both only cut off later behaviour.
- `alert_channels`: the constraint `Horizon` bounds clock and messages. Three
  messages are an alarm of each subscription and one resolution, or an alarm,
  a reminder and a resolution of one.
- Retention: two incidents are one that is due and one that becomes due or
  resolved between list and delete, of two evaluators that deliver to the same
  one-shot subscription; the fault is a failed call of the pass, a gate that
  cannot be read, a row that is not stored, or a crash. With time up to 3 and a
  window of 1 a pass may take the rows of one incident while the other is being
  delivered.
- Inputs: with a sink of one and three messages, one is in the sink, one held
  and one queued while something fails; `MaxDeliveries` 3 lets the bad message
  come back twice.
- Lifecycle: two runs, so that the second meets leftovers of the first; a
  sink of one, so that the second client blocks. One caller: see below.
- Admin: three calls are two that overlap and one that repairs; two faults in
  a migration are a process that dies and its successor that does.
- Evaluation: a window kept for 2 with time up to 5 lets a sample come late,
  sit behind a newer one, reach the cutoff exactly and be pruned. Two ticks
  may fall into one pass, the second of which is dropped, and a pass may work
  on a tick that is two old by the clock. Within that time a rule runs, is
  passed over and runs again.

### Where the code's assumptions are the model's

`Serves` follows `Condition.Mode()`: a push rule is ticked by the push
evaluator only, a scheduled one by the scheduled evaluator only. The properties
whose comment begins "Where one evaluator serves a rule" are checked on such an
instance. While a rule's mode is being changed through the API both evaluators
may hold it; then these properties fail (a lost update of `live_states` is
enough), and `dispatcher_shared` shows what is left. With two evaluators one
crash can cost two audit rows of a binding and strand an incident of each rule
in a Tick, which is why `AuditedUpToFaults` asks for one evaluator and
`TablesAgreeUpToFaults` counts for each rule.

`engine_restarts` has one caller of `Start` and `Close`, as `main` does; with
two, `Close` may come between `Start`'s unlock and its first `wg.Add`.

`WindowIsExact` is about windows shorter than the longest span kept:
`Compile` accepts a longer one, and it is then cut to 24 hours.

### Fairness

- `Dispatcher`: `Continue(e)` is weakly fair: a goroutine in the middle of a
  call goes on. `Evaluate(e, r)` is strongly fair for a scheduled evaluator
  and a rule it serves: `ScheduledEvaluator.Run` goes through all rules on
  every tick, between other calls. Nothing is assumed of the outcome of an
  evaluation, of the push evaluator (a record may never come), of the clock,
  or of faults.
- `Retention`: the pruner's and the evaluators' goroutines keep being scheduled
  and time passes. Calls may fail up to the bound.
- Inputs: the loop, the settlement and the evaluator go on, the broker's
  timeouts expire, and a stopped process is started again. For a broker that
  can offer any of several messages, the one to be offered or handed to the
  sink is strongly fair: it is not passed over for ever.
- `EngineLifecycle`: launched goroutines and calls under way are scheduled;
  nobody has to call `Start` or `Close`.

## Proofs

TLC checks instances; these hold for every value of the constants. The
assumptions are the `ASSUME`s of the modules on their constants and, where a
theorem names one, a hypothesis that says how the code wires its parts; the
instance of the run that checks the property satisfies it:

| hypothesis | what in the code gives it |
|---|---|
| `OneEvaluatorPerRule` | `engine.New` hands push rules to the push evaluator and scheduled ones to the other; each is one goroutine |
| `OneEvaluatorPerOneShot` | the same, for a one-shot subscription whose rules are of one mode |
| `MaxFaults = 0` | no store call fails and the process does not end: what each fault costs is stated by the other theorems |
| `OneCaller` | `main` calls `Start` and `Close` from one goroutine |
| `EvaluationAssumption`, `SubscriptionsAssumption`, `AccessAssumption` | a scheduled rule has a positive schedule; a rule's id is not empty; limits are numbers |

### The dispatcher, whoever serves a rule

`DispatcherProofs`: `InvariantHolds` (`Spec => []IndInv`) and from it
`TypeCorrect`, `DwellCorrect` and `FiringFirst`. Any number of evaluators may
share a rule. Neither `DwellRespected` nor `FeedsStartWithFiring` is inductive:
the dwell is tested against `ls.TriggeredAt`, a copy of a row another Tick may
meanwhile have overwritten, and the message is stamped with a `now` of its own.
`IndInv` adds:

- `InCycle`: a firing row, and a firing local copy, carry the start of *their
  own* incident. Lost updates replace one consistent pair by another, so this
  survives sharing (`CycleInv`, `TickCycle`).
- `TickDelivery`: a call in `deliver` is about a minted incident, past its
  dwell unless it is a resolution, and for any other kind than the alarm the
  channels left were offered the alarm.
- `CountMeansAlarmed`: a sub state with a positive count means that every
  target was offered the alarm, or that the one-shot gate of the subscription
  is closed (then nothing more is sent, so the order cannot be broken). That
  the gate never opens again is where the proof uses that `notifications` only
  grows: retention, which deletes rows, is outside this model.

### The dispatcher, one evaluator for each rule

`DispatcherOwnerProofs` and `DispatcherPromiseProofs`; the invariants are in
`DispatcherOwner`.

- `ResolutionIsLast`, `NoAlarmForResolved` and `ResolvedStands`, from
  `OwnerInv` (`OwnershipHolds`). An incident is held by one rule, in its row or
  in the locals of a call for it (`HeldByOneRule`), hence by one goroutine. A
  Tick that saved the end of an incident is the only one that still knows it
  (`EndIsReleased`): the cleared row was stored before the first subscription
  is visited, so no later Tick can load the incident. A channel that got the
  resolution is one the teller is through with (`EndedIsOver`), and a row that
  says resolved belongs to an incident let go of (`ResolvedRowIsOver`). The
  three properties need all of it: a second alarm could come from a table,
  from a local, or from the same call visiting the binding twice.
- `TooSoonCostsAFault`, from `PaceInv`: counting early messages against
  `faults` is not inductive, since the message goes out long after the fault.
  The invariant gives the fault a receipt: where the last message of a binding
  is not told of by its sub state and no Tick is about to store it (`Untold`,
  `BeingMarked`), there is one fault more than early messages.
  `TimesInOrder` keeps the clocks comparable.
- `AuditLossCostsAFault`, from `AuditInv`: a message without its row is lost by
  a fault or is the last of its feed and in the hands of one Tick.
- `OneShotCostsAFault`, from `ShotInv`, where the rules of a one-shot
  subscription share an evaluator: as long as there is no row that closes the
  gate, and none about to be stored, everything sent was paid for.
- `TablesPartByFaults`, from `TablesInv`. The two writes of a Tick may be cut
  apart by a failed call or a crash, and each such fault strands one incident.
  There is a second way: `evalOne` takes a row it could not read
  for none and stores a blank one; the read fault pays for the incident this
  strands, and the invariant carries the debt from the read to the write
  (`WritesInOrder`).
- `KeepsThePromise`: with no fault the dispatcher implements `AlertFeed`
  (`ImplementsAlertFeed`). Minting an id is `Begin`, a send is `Alarm`,
  `Remind` or `AllClear`, every other step stutters. That a send finds the feed
  in the state its abstract action asks for is what the invariants above say
  at `faults = 0`: no untold message, none too soon, none after the end.
  `PromiseUntilAFault` drops the hypothesis: however many faults are to come,
  each step up to the first is one of `AlertFeed`.
- `KeepsTheOrder`: with faults and restarts it implements `TolerantFeed`
  (`ImplementsTolerantFeed`). A send that is not early is one of the three
  messages above. One that is early finds its binding untold, and the receipt
  `PaceInv` keeps (`EarlyIsPaid`) is the guard of `Again`: fewer early messages
  so far than faults. `FaultsSendNothing` makes a fault a step of its own.

### Feeds and channels

`AlertFeedProofs`: `TolerantShape` (`TolerantSpec =>
[]FeedsWellFormedUpToFaults`) from `TolerantInv`: the shape, the type, and "an
incident that has not begun has no messages", since a start must not move once a
feed depends on it. Each action posts one message that fits (`OnePosted`). With
`KeepsTheOrder` it says what a subscriber of the running system can rely on,
which is the order of an incident's messages, the dwell, times that do not run
backwards, and a bound on what it gets too often. `AlertFeed` alone has its
shape by its guards, and no property is about that.
`PagesFollow` (`ChannelsSpec => []PagesFollowTheirFeeds`) from `PageInv`: the
provider took only positions that exist, so a resolution that was not taken
cannot count as taken later, and an incident's key is its own, so what closes
one page takes no other feed's. `PagesOpenOnce` (`ChannelsSpec =>
[]OnePagePerFeed`) counts from there, in `CountInv`: the pages opened about an
incident are at most the feeds that are over and the pages that are there, and
these pages have each a feed of their own that is not over (`PagesHaveFeeds`). A
reminder finds the page of its own key, a resolution makes its feed one that is
over; the mutant with a key of its own for each event opens a page more.

### What leads up to a Tick

`EngineProofs`:

- `RunsStayApart`, from `LifeInv`: whatever goroutine lives is the last run's,
  and lives only while the engine is started or `Close` waits, so `Start` finds
  none.
- `AcceptedIsKept` and `OutcomeStands`, from `RecordInv`: a record in a sink is
  accepted by that sink, and no two places hold the same one. Each receive takes
  the first record off its sink as it settles the outcome (`EvaluateTakesFirst`),
  so no record is evaluated twice and none is lost on the way. This is the
  safety half of `AcceptedIsEvaluated`; it needs no assumption on who calls
  `Start` and `Close`.
- `EngineTypeCorrect` is the type invariant; its part `HeldSinksAreOpen` says
  that whoever holds a sink holds that of a run that was begun, and a goroutine
  none of before its own run. It needs `BegunInv`: nothing is launched for, and
  no call is about, a run that was not begun.
- `CadenceIsKept` (`EvaluationSpec => OnSchedule`), from `CadenceInv`: a run is
  on record in the evaluator's own map at its tick (`ran = last`), and a rule not
  in the batch ran within its schedule of the pass. A tick is from after the
  pass before it was taken (`began < ticker`), so a pass works on a later time
  than the clock showed when the one before began, however many ticks were
  dropped in between. A run that is noted with the clock's time, as the mutant
  does, makes the rule late by what its pass was late.
- `EachIsTold`, from `ToldInv`: for each rule that reads the input there is a
  last good record among those it is through with (`Seen`), and it was told of
  that one. A rule set anew starts after the record at hand (`since`); the
  evaluator may still run the rule's old copy on that record, and the
  invariant has to allow it.
- `WindowsAreExact`, from `WindowInv`: each sample comes from a record taken
  and each recent number has its sample. `PrunedKeeps` says that pruning keeps
  samples as they are and every recent one, whatever the order: samples are cut
  at the first recent one, and those behind it stay even if old.
- `EvaluationTypeCorrect`, from `EvaluationInv`: no more records are under way
  or taken than were sent, and what is evaluated compiles, so it says yes or no
  (`PushSaysYesOrNo`). It assumes of the records that their numbers are natural
  (`RecordsAssumption`; -1 stands for a field that is no number).
- `LookupAnswersAsOne`, from `LookupInv`: what each query returned of a
  subscription is its row, unless it was written since, and no row matches by
  rule and by labels at once.
- `OwnersAreThere` and `RecipientsAreThere`, from `RowsInv`: the foreign key
  keeps the owner of each stored row, and a listed row nobody wrote is still
  stored (`ListedStands`), so its owner is there when `deliver` asks for it.

### Administration, inputs, retention

- `AdminProofs`. `DriftHasCause` from `AdminInv`: a call that nothing is held
  against is the only one on its rule (`AloneIsAlone`), between its two writes
  the table has its row (`TableHasIt`), and while no call is between the two
  the cache follows (`CacheFollows`). `RevokedIsOut` and `LastUseIsGood` from
  `AccessInv`: an answered revocation is never taken back (`GoneIsRevoked`),
  which the detached writes could do only by writing the whole row; and every
  time on record or about to be written is one at which the token was good
  (`UsesAreGood`). `AdminTypeCorrect` has the types of both. `WholeVersions` and `RerunsSucceed` from `MigrationInv`: a
  process that goes statement by statement has done those before its own
  (`DoneSoFar`), and with transactions nothing of a version is there before its
  record (`NothingAhead`).
- `InputProofs`. `KafkaDelivers` and `QueueDelivers`: the inputs implement
  `Delivery`. For Kafka the invariant orders what is taken, held, committed and
  read; a read settles the offsets up to its own, an offer takes what is
  settled. For the queues it says that what waits to be settled was taken, and
  that a bad message in the hands of Pub/Sub is out, so that its Nack brings
  back nothing that was settled; expiry, a closed connection and a stop leave
  the broker owing the same messages. `SettledIsNotLost` adds that what was
  taken is evaluated, in the channel or dropped by a stop (`LossInv`).
  `ReadIsNotLost` and `TopicSeenInOrder` say for Kafka what becomes of a message
  behind the offer, from `ReaderInv`: the evaluator's messages come before the
  channel's and these before the one in hand (`InTopicOrder`), and a message
  that is gone for good is committed, so that no reader comes back to it
  (`GoneIsGone`). A message whose commit failed is not gone: it may be read
  again. `InputsTypeCorrect` is the type invariant of all four.
- `RetentionProofs`. `NothingSlipsBetween`, `CopiesHoldEverything` and
  `NoRowOutlives`, from `RetentionInv`: a pass's cutoff trails the clock by the
  window (`PassHandsOver`) while what the evaluator is working on was stamped
  at most `MaxLag` ago (`EvaluatorIsRecent`): with `MaxLag <= Window`, which
  `RetentionAssumption` says, no incident becomes due under a cutoff already
  chosen, and none that was copied gets another row (`CopiedIsOld`). The
  assumption is what the two queries of a pass rely on; the code has no lock in
  its place. `DuplicatesHaveCause`: an incident that is still there has been
  archived no more often than a pass had to be redone, but for the copy of the
  pass under way (`CopiesInv`). `FileErrorsPass`: a file of today's date is
  open and none is ahead of the date (`FileInv`). `OneShotHearsOnce`: a
  one-shot subscription that has a row about an alarm is not told of that
  incident's end, from `OneShotInv`: a row stays until its incident goes, so a
  delivery of the end finds it at the gate, and none is past the gate while the
  alarm has its row (`GateKept`). That a pass takes no incident in an evaluator's
  hands is once more `MaxLag <= Window`. Two incidents in the hands of two
  evaluators may both get through, which is `claim_one_shot`, and so may the end
  of an incident whose alarm has no row.

### Only model-checked

Every safety property and refinement that a passing run checks is stated by a
theorem. What TLC alone shows is liveness: `EndIsDelivered`, `DueIsDelivered`,
`ResolvedIsPruned`, `EvaluatedInTheEnd`, `EvaluatedOrLost`, `CloseReturns` and
`AcceptedIsEvaluated`. It is out of the prover's reach together with `ENABLED`.
Induction over data, and so what a recursive definition computes for every
input, cannot be proved with the installed provers either; no property above
needs it.

## Disagreements met while modelling

Two have a run (above). The others are visible in the modules: the action
named is written as the code does it, and the sentence quoted does not hold of
it.

| sentence | what the code does | where |
|---|---|---|
| "Only notify on resolve if a firing notification was actually sent" (`dispatcher.go:176`) | every send failed, `deliver` returned nil, `NotifyCount` became 1, the resolution is sent | `Dispatcher!Marked` |
| "exactly one successful notification" (`subscriber.go:42`) | the audit row of a failed send closes the gate | `Dispatcher!Notified` |
| "We don't flip the rule's state on errors" (`eval.go:192`) | `Get` fails as well, its error is dropped, and a firing row is overwritten with a blank one | `Dispatcher!LoadForError` |
| "ok→firing opens an incident" (`ARCHITECTURE.md:42`) | the live state is stored, `Incidents.Open` fails, and no later Tick opens it | `Dispatcher!RecordIncident` |
| "EXACTLY ONE notification across its lifetime" (`dispatcher.go:254`) | pruning the rows of an old incident reopens the gate | `Retention!ExistsForSubscription` |
| "augmented to keep the compiled-rule cache in sync" (`engine.go:212`) | two updates write the table in one order and the cache in the other; an update of an unknown id stores nothing and runs the rule | `RuleAdmin!UpdateCache` |
| "Both must succeed for the rule to be persistable" (`api.go:424`) | the rule is stored before it is compiled | `RuleAdmin!Write` |
| "they live until the rule is deleted" (`RETENTION.md:64`) | `Delete` leaves the live state, and a rule created under the id starts from it | not modelled |
| "non-object payloads are dropped after a warning log" (`sqs.go:6`) | the message is not deleted and comes back after every timeout | `QueueInput!BadMessage` |
| "Channel-level errors are logged and the consumer keeps reading" (`rabbitmq.go:9`) | a closed channel ends the consumer | `QueueInput!ConsumerExits` |
| "Blocks until ctx is cancelled" (`pubsub.go:111`) | an error of `Receive` ends it | `QueueInput!ConsumerExits` |
| "waits for all goroutines to exit" (`engine.go:178`) | the scrape targets are not waited for; a `Close` before the first `wg.Add` waits for nothing | `EngineLifecycle!TargetEnds`, `WaitDone` |
| "Start blocks only until those goroutines are running" (`engine.go:125`) | it returns once they are launched; an event submitted at once may be refused | `EngineLifecycle!Submit` |
| "if any token row exists in the DB, auth is required" (`main.go:273-276`) | with a token store auth is required always, so without the shared token the first token cannot be issued | `Access!NoBearer` |
| "older than the largest seen window are pruned" (`window.go:12`) | the span is fixed at `MaxWindowSpan`, 24 hours unless set | `Evaluation!Pruned` |
| window helpers "in push mode if the engine is tracking a record buffer" (`RULES.md:132`) | the push evaluator passes no helpers | `Evaluation!EvalPush` |
| "brings the store schema to the latest version" (`store.go:25`) | with MySQL, a process that dies after the `ALTER` of version 3 and before its record leaves a database on which `Migrate` fails until repaired by hand | `Migration!ApplyStatement` |

## Not modelled

- Message formatting, request decoding, the OpenAPI pages, tracing, the UI,
  configuration files and `signalwatchctl`: they keep no state and decide
  nothing the properties tell apart.
- The read-only API (lists, filters, exports) and the encoding of rows.
- The expression language and regular expressions: libraries'.
- The Postgres and MySQL drivers' CRUD: the same statements as SQLite's in
  another dialect. `store/storetest`, the suite all three must pass, is a test.
- The scrape input's requests and the DuckDB and SQL handles.
- A `Send` that never ends: the SMTP channel has no timeout (`smtp.go:70`), and
  a server that says nothing holds the evaluator. Liveness here assumes a call
  ends.
- A deleted rule's live state (above): `Dispatcher`'s rules do not change.

## Plan

1. `Dispatcher` over the changing subscriptions of `Subscriptions` and beside
   the pruner of `Retention`, in the place of `Match` and of the coarse
   evaluator.
2. Rules that are deleted and created again, with their live states.
