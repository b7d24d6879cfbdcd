---------------------------- MODULE EngineProofs ----------------------------
(***************************************************************************)
(* What leads up to a Tick, for all values of the constants: the runs of   *)
(* the engine do not mix, windows and cadence are kept, each rule is told, *)
(* and the lookup of the subscriptions answers as one query would.         *)
(***************************************************************************)
EXTENDS EngineLifecycle, Evaluation, Subscriptions, FiniteSetTheorems,
        SequenceTheorems, WellFoundedInduction, TLAPS

-----------------------------------------------------------------------------
\* Start and Close are called by one goroutine, as main does.
OneCaller == \A c, d \in Callers : c = d

Goroutine == [st : {"none", "launched", "running", "done"}, sink : 0..MaxStarts]

Call == [at : {"idle", "launching", "waiting", "started", "closed"}, run : 0..MaxStarts, next : Nat]

Live(r, k) == go[r][k].st \in {"launched", "running"}

\* The goroutines that live are the last run's, and they live only while it is
\* started or Close waits for them.
LifeInv ==
  /\ run \in 0..MaxStarts /\ started \in BOOLEAN
  /\ go \in [Runs -> [Kinds -> Goroutine]]
  /\ caller \in [Callers -> Call]
  /\ \A c \in Callers : /\ caller[c].at = "launching" => started /\ caller[c].run = run
                        /\ caller[c].at = "launching" => caller[c].run > 0 /\ caller[c].next > 0
                        /\ caller[c].at = "waiting" => ~started
  /\ \A r \in Runs, k \in Kinds : Live(r, k) =>
       /\ r = run
       /\ started \/ \E c \in Callers : caller[c].at = "waiting"
  /\ run \in Runs /\ go[run]["event"].st = "running" => eventSink = run

\* Nobody has called Start.
LEMMA LifeInit == Init => LifeInv
<1> SUFFICES ASSUME Init PROVE LifeInv
  OBVIOUS
<1>1. 0 \in 0..MaxStarts /\ 0 \notin Runs
  BY LifecycleAssumption DEF Runs
<1>2. /\ [st |-> "none", sink |-> 0] \in Goroutine
      /\ [at |-> "idle", run |-> 0, next |-> 1] \in Call
  BY <1>1 DEF Goroutine, Call
<1>3. /\ started = FALSE /\ run = 0
      /\ go = [r \in Runs |-> [k \in Kinds |-> [st |-> "none", sink |-> 0]]]
      /\ caller = [c \in Callers |-> [at |-> "idle", run |-> 0, next |-> 1]]
  BY Zenon DEF Init
<1>4. go \in [Runs -> [Kinds -> Goroutine]] /\ caller \in [Callers -> Call]
  BY <1>2, <1>3
<1>5. /\ \A r \in Runs, k \in Kinds : ~Live(r, k)
      /\ \A c \in Callers : caller[c].at = "idle"
  BY <1>3 DEF Live
<1>6. QED
  BY <1>1, <1>3, <1>4, <1>5 DEF LifeInv

\* Counted names the goroutines that live.
LEMMA NoneCounted ==
  ASSUME Counted = {}, NEW r \in Runs, NEW k \in Kinds
  PROVE  ~Live(r, k)
<1>1. PICK g : g = <<r, k>>
  OBVIOUS
<1>2. g \in Runs \X Kinds /\ g[1] = r /\ g[2] = k
  BY <1>1
<1>3. QED
  BY <1>2 DEF Counted, Live

\* What no step of Start, Close or a goroutine is leaves the invariant alone.
LEMMA LifeStands ==
  ASSUME LifeInv, UNCHANGED <<started, run, go, caller, eventSink>>
  PROVE  LifeInv'
BY DEF LifeInv, Live

\* A goroutine's step is no other's.
LEMMA GoroutineMoves ==
  ASSUME go \in [Runs -> [Kinds -> Goroutine]], NEW r \in Runs, NEW k \in Kinds,
         NEW g \in Goroutine, go' = [go EXCEPT ![r][k] = g]
  PROVE  /\ go' \in [Runs -> [Kinds -> Goroutine]]
         /\ \A q \in Runs, j \in Kinds :
              go'[q][j] = IF q = r /\ j = k THEN g ELSE go[q][j]
<1>1. PICK h \in [Kinds -> Goroutine] : h = [go[r] EXCEPT ![k] = g]
  OBVIOUS
<1>2. go' = [go EXCEPT ![r] = h]
  BY <1>1
<1>3. QED
  BY <1>1, <1>2

\* Start, Close and what they wait for keep a run to itself.
LEMMA CallerStep ==
  ASSUME OneCaller, LifeInv, NEW c \in Callers,
         Start(c) \/ StartFails(c) \/ Launch(c) \/ Close(c) \/ WaitDone(c)
  PROVE  LifeInv'
<1> USE DEF LifeInv
<1>1. Callers = {c}
  BY DEF OneCaller
<1>2. CASE Start(c)
  <2>1. \A r \in Runs, k \in Kinds : ~Live(r, k)
    BY <1>1, <1>2 DEF Start, Busy
  <2>2. run \in 0..MaxStarts /\ run < MaxStarts /\ MaxStarts \in Nat
    BY <1>2, LifecycleAssumption DEF Start
  <2>3. PICK call \in Call : call = [at |-> "launching", run |-> run + 1, next |-> 1]
    <3>1. run + 1 \in 0..MaxStarts
      BY <2>2
    <3>2. QED
      BY <3>1 DEF Call
  <2>4. call.at = "launching" /\ call.run = run + 1 /\ call.next = 1
    BY <2>3
  <2>5. /\ caller' \in [Callers -> Call] /\ caller'[c] = call
        /\ run' = run + 1 /\ started' /\ go' = go
    BY <1>2, <2>3 DEF Start
  <2>6. \A r \in Runs, k \in Kinds : ~Live(r, k)' /\ go'[r][k].st # "running"
    BY <2>1, <2>5 DEF Live
  <2>7. run' \in 0..MaxStarts /\ run' > 0 /\ started' \in BOOLEAN
    BY <1>2, <2>2, <2>5 DEF Start
  <2>8. QED
    BY <1>1, <2>4, <2>5, <2>6, <2>7 DEF Kinds
<1>3. CASE StartFails(c)
  BY <1>1, <1>3 DEF StartFails, Busy, Live, Call
<1>4. CASE Launch(c)
  <2>1. CASE caller[c].next > Len(Launched)
    BY <1>1, <1>4, <2>1 DEF Launch, Live, Call
  <2>2. CASE ~(caller[c].next > Len(Launched))
    <3>1. PICK n : n = caller[c].next
      OBVIOUS
    <3>2. n \in 1..Len(Launched) /\ n + 1 \in Nat /\ n + 1 > 0
      BY <1>4, <2>2, <3>1, LifecycleAssumption DEF Launch, Call
    <3>3. PICK k \in Kinds : k = Launched[n]
      BY <3>2, LifecycleAssumption
    <3>4. caller[c].run = run /\ run \in Runs /\ started
      BY <1>4, LifecycleAssumption DEF Launch, Runs
    <3>5. /\ go' = [go EXCEPT ![run][k].st = "launched"]
          /\ caller' = [caller EXCEPT ![c].next = n + 1]
          /\ UNCHANGED <<started, run, eventSink>>
      <4>1. /\ caller[c].at = "launching"
            /\ go' = [go EXCEPT ![caller[c].run][Launched[caller[c].next]].st = "launched"]
            /\ caller' = [caller EXCEPT ![c].next = caller[c].next + 1]
            /\ UNCHANGED <<started, run, eventSink>>
        BY <1>4, <2>2 DEF Launch
      <4>2. QED
        BY <3>1, <3>3, <3>4, <4>1
    <3>6. /\ go' \in [Runs -> [Kinds -> Goroutine]]
          /\ \A r \in Runs, j \in Kinds :
               go'[r][j].st = IF r = run /\ j = k THEN "launched" ELSE go[r][j].st
      <4>1. PICK g : g = [go[run][k] EXCEPT !.st = "launched"]
        OBVIOUS
      <4>2. g \in Goroutine /\ g.st = "launched"
        BY <3>3, <3>4, <4>1 DEF Goroutine
      <4>3. go' = [go EXCEPT ![run][k] = g]
        BY <3>5, <4>1
      <4>4. QED
        BY <3>3, <3>4, <4>2, <4>3, GoroutineMoves
    <3>7. caller' \in [Callers -> Call] /\ caller'[c].at = "launching"
          /\ caller'[c].run = run /\ caller'[c].next = n + 1
      BY <1>4, <3>2, <3>4, <3>5 DEF Launch, Call
    <3>8. QED
      BY <1>1, <3>2, <3>4, <3>5, <3>6, <3>7 DEF Live, Kinds
  <2>3. QED
    BY <2>1, <2>2
<1>5. CASE Close(c)
  BY <1>1, <1>5 DEF Close, Busy, Live, Call
<1>6. CASE WaitDone(c)
  <2>1. \A r \in Runs, k \in Kinds : ~Live(r, k)
    BY <1>6, NoneCounted DEF WaitDone
  <2>2. QED
    BY <1>1, <1>6, <2>1 DEF WaitDone, Live, Call
<1>7. QED
  BY <1>2, <1>3, <1>4, <1>5, <1>6

\* A goroutine that begins takes the sink of its own run, and one that ends
\* takes none away from another run.
LEMMA GoroutineStep ==
  ASSUME LifeInv, NEW r \in Runs, NEW k \in Kinds, Begin(r, k) \/ End(r, k)
  PROVE  LifeInv'
<1>1. r = run /\ Live(r, k)
  BY DEF LifeInv, Live, Begin, End
<1>2. run \in 0..MaxStarts /\ go \in [Runs -> [Kinds -> Goroutine]]
  BY DEF LifeInv
<1>3. PICK g \in Goroutine :
        /\ g.st \in {"running", "done"} /\ go' = [go EXCEPT ![r][k] = g]
        /\ eventSink' = IF k = "event" THEN (IF g.st = "running" THEN run ELSE 0) ELSE eventSink
        /\ UNCHANGED <<started, run, caller>>
  <2>1. CASE Begin(r, k)
    <3>1. PICK g \in Goroutine : g = [st |-> "running", sink |-> run]
      BY <1>2 DEF Goroutine
    <3>2. QED
      BY <2>1, <3>1 DEF Begin
  <2>2. CASE End(r, k)
    <3>1. PICK g : g = [go[r][k] EXCEPT !.st = "done"]
      OBVIOUS
    <3>2. g \in Goroutine /\ g.st = "done"
      BY <1>2, <3>1 DEF Goroutine
    <3>3. go' = [go EXCEPT ![r][k] = g]
      BY <2>2, <3>1 DEF End
    <3>4. QED
      BY <2>2, <3>2, <3>3 DEF End
  <2>3. QED
    BY <2>1, <2>2
<1>4. /\ go' \in [Runs -> [Kinds -> Goroutine]]
      /\ \A q \in Runs, j \in Kinds : go'[q][j] = IF q = r /\ j = k THEN g ELSE go[q][j]
  BY <1>2, <1>3, GoroutineMoves
<1>5. QED
  BY <1>1, <1>3, <1>4 DEF LifeInv, Live, Kinds

\* Every step keeps a run to itself.
LEMMA LifeStep ==
  ASSUME OneCaller, LifeInv, [Next]_vars
  PROVE  LifeInv'
<1>1. CASE ParentDone \/ \E r \in Runs : Evaluate(r) \/ TargetEnds(r)
  BY <1>1, LifeStands DEF ParentDone, Evaluate, TargetEnds
<1>2. CASE \E s \in Clients : Submit(s) \/ Send(s) \/ GiveUp(s)
  BY <1>2, LifeStands DEF Submit, Send, GiveUp
<1>3. CASE UNCHANGED vars
  BY <1>3, LifeStands DEF vars
<1>4. QED
  BY <1>1, <1>2, <1>3, CallerStep, GoroutineStep DEF Next

\* The runs do not mix, for goroutines and restarts of any number, where one
\* goroutine calls Start and Close (Close's wait, engine.go:188).
THEOREM RunsStayApart == ASSUME OneCaller PROVE Spec => []RunsDoNotMix
<1>1. Init => LifeInv
  BY LifeInit
<1>2. LifeInv /\ [Next]_vars => LifeInv'
  BY LifeStep
<1>3. LifeInv => RunsDoNotMix
  <2> SUFFICES ASSUME LifeInv PROVE RunsDoNotMix
    OBVIOUS
  <2>1. \A g \in Counted : g[1] \in Runs /\ g[2] \in Kinds /\ Live(g[1], g[2])
    BY DEF Counted, Live
  <2>2. QED
    BY <2>1 DEF LifeInv, RunsDoNotMix
<1>4. QED
  BY <1>1, <1>2, <1>3, PTL DEF Spec

-----------------------------------------------------------------------------
\* What Head and Tail make of a sequence.
LEMMA HeadAndTail ==
  ASSUME NEW S, NEW q \in Seq(S), q # <<>>
  PROVE  /\ Tail(q) \in Seq(S) /\ Len(q) \in Nat /\ Len(q) > 0 /\ Len(Tail(q)) = Len(q) - 1
         /\ Head(q) = q[1] /\ 1 \in DOMAIN q /\ Head(q) \in S
         /\ \A n \in DOMAIN Tail(q) : n + 1 \in DOMAIN q /\ Tail(q)[n] = q[n + 1]
         /\ \A n \in DOMAIN q : n # 1 => n - 1 \in DOMAIN Tail(q) /\ Tail(q)[n - 1] = q[n]
  OBVIOUS

\* What Append makes of one.
LEMMA OneBehind ==
  ASSUME NEW S, NEW q \in Seq(S), NEW x \in S
  PROVE  /\ Append(q, x) \in Seq(S) /\ Len(q) \in Nat /\ Len(Append(q, x)) = Len(q) + 1
         /\ DOMAIN Append(q, x) = DOMAIN q \cup {Len(q) + 1}
         /\ Append(q, x)[Len(q) + 1] = x /\ Len(q) + 1 \notin DOMAIN q
         /\ \A n \in DOMAIN q : Append(q, x)[n] = q[n]
  OBVIOUS

Submission == [at : {"new", "sending", "refused", "accepted", "evaluated", "failed"},
               sink : 0..MaxStarts]

\* Nothing is launched before a run is begun, and whoever has a sink has one
\* of a run: the goroutine that evaluates, and the client that sends.
EngineTyped ==
  /\ started \in BOOLEAN /\ run \in 0..MaxStarts /\ (started => run > 0)
  /\ cancelled \subseteq Runs /\ target \subseteq Runs /\ eventSink \in 0..MaxStarts

CallsTyped ==
  /\ caller \in [Callers -> Call]
  /\ \A c \in Callers : caller[c].at = "launching" =>
       run > 0 /\ caller[c].run \in Runs /\ caller[c].next > 0

GoroutinesTyped ==
  /\ go \in [Runs -> [Kinds -> Goroutine]]
  /\ \A r \in Runs, k \in Kinds : /\ go[r][k].st # "none" => run > 0
                                  /\ go[r][k].st = "running" => go[r][k].sink \in Runs

ClientsTyped ==
  /\ submit \in [Clients -> Submission]
  /\ \A s \in Clients : submit[s].at = "sending" => submit[s].sink \in Runs

SinksTyped == sink \in [Runs -> Seq(Clients)] /\ \A r \in Runs : Len(sink[r]) <= SinkCap

\* Where the records are, with the types this needs.
RecordInv ==
  /\ EngineTyped /\ CallsTyped /\ GoroutinesTyped /\ ClientsTyped /\ SinksTyped
  /\ RecordsAreKept

\* No record is under way when nothing has been started.
LEMMA RecordInit == Init => RecordInv
<1> SUFFICES ASSUME Init PROVE RecordInv
  OBVIOUS
<1>1. /\ 0 \in 0..MaxStarts /\ <<>> \in Seq(Clients) /\ Len(<<>>) <= SinkCap /\ DOMAIN <<>> = {}
      /\ [st |-> "none", sink |-> 0] \in Goroutine
      /\ [at |-> "idle", run |-> 0, next |-> 1] \in Call
      /\ [at |-> "new", sink |-> 0] \in Submission
  BY LifecycleAssumption DEF Goroutine, Call, Submission
<1>2. /\ started = FALSE /\ run = 0 /\ cancelled = {} /\ target = {} /\ eventSink = 0
      /\ sink = [r \in Runs |-> <<>>]
      /\ go = [r \in Runs |-> [k \in Kinds |-> [st |-> "none", sink |-> 0]]]
      /\ caller = [c \in Callers |-> [at |-> "idle", run |-> 0, next |-> 1]]
      /\ submit = [s \in Clients |-> [at |-> "new", sink |-> 0]]
  BY Zenon DEF Init
<1>3. EngineTyped /\ SinksTyped
  BY <1>1, <1>2 DEF EngineTyped, SinksTyped
<1>4. CallsTyped
  BY <1>1, <1>2 DEF CallsTyped
<1>5. GoroutinesTyped
  BY <1>1, <1>2 DEF GoroutinesTyped
<1>6. ClientsTyped
  BY <1>1, <1>2 DEF ClientsTyped
<1>7. RecordsAreKept
  BY <1>1, <1>2 DEF RecordsAreKept
<1>8. QED
  BY <1>3, <1>4, <1>5, <1>6, <1>7 DEF RecordInv

\* A call that goes on, in a run that does not go back, launches only where
\* there is a run.
LEMMA CallGoesOn ==
  ASSUME CallsTyped, NEW c \in Callers, NEW call \in Call,
         caller' = [caller EXCEPT ![c] = call], run > 0 => run' > 0,
         call.at = "launching" => run' > 0 /\ call.run \in Runs /\ call.next > 0
  PROVE  CallsTyped'
<1>1. caller' \in [Callers -> Call]
      /\ \A d \in Callers : caller'[d] = IF d = c THEN call ELSE caller[d]
  BY DEF CallsTyped
<1>2. \A d \in Callers : caller[d].at = "launching" =>
        run' > 0 /\ caller[d].run \in Runs /\ caller[d].next > 0
  BY DEF CallsTyped
<1>3. QED
  BY <1>1, <1>2 DEF CallsTyped

\* So does a goroutine, with the sink of a run.
LEMMA GoroutineGoesOn ==
  ASSUME GoroutinesTyped, NEW r \in Runs, NEW k \in Kinds, NEW g \in Goroutine,
         go' = [go EXCEPT ![r][k] = g], run' = run, run > 0,
         g.st = "running" => g.sink \in Runs
  PROVE  GoroutinesTyped'
<1>1. /\ go' \in [Runs -> [Kinds -> Goroutine]]
      /\ \A q \in Runs, j \in Kinds :
           go'[q][j] = IF q = r /\ j = k THEN g ELSE go[q][j]
  BY GoroutineMoves DEF GoroutinesTyped
<1>2. QED
  BY <1>1 DEF GoroutinesTyped

\* The steps of Start and Close touch no record.
LEMMA CallKeepsRecords ==
  ASSUME RecordInv, NEW c \in Callers,
         Start(c) \/ StartFails(c) \/ Launch(c) \/ Close(c) \/ WaitDone(c)
  PROVE  RecordInv'
<1>1. /\ EngineTyped /\ CallsTyped /\ GoroutinesTyped /\ ClientsTyped /\ SinksTyped
      /\ RecordsAreKept
  BY DEF RecordInv
<1>2. UNCHANGED <<sink, submit, eventSink, target>>
  BY DEF Start, StartFails, Launch, Close, WaitDone
<1>3. ClientsTyped' /\ SinksTyped' /\ RecordsAreKept'
  BY <1>1, <1>2 DEF ClientsTyped, SinksTyped, RecordsAreKept
<1>4. run \in Nat /\ MaxStarts \in Nat /\ caller[c] \in Call
      /\ caller[c].run \in 0..MaxStarts /\ caller[c].next \in Nat
  BY <1>1, LifecycleAssumption DEF EngineTyped, CallsTyped, Call
<1>5. CASE Start(c)
  <2>1. /\ run' = run + 1 /\ started' = TRUE /\ run < MaxStarts /\ go' = go
        /\ caller' = [caller EXCEPT ![c] = [at |-> "launching", run |-> run + 1, next |-> 1]]
        /\ cancelled' = cancelled
    BY <1>5 DEF Start
  <2>2. run' \in 0..MaxStarts /\ run' > 0 /\ run' \in Runs
    BY <1>4, <2>1 DEF Runs
  <2>3. PICK call \in Call : call = [at |-> "launching", run |-> run + 1, next |-> 1]
    BY <2>1, <2>2 DEF Call
  <2>4. CallsTyped'
    <3>1. caller' = [caller EXCEPT ![c] = call] /\ call.run \in Runs /\ call.next > 0
      BY <2>1, <2>2, <2>3
    <3>2. QED
      BY <1>1, <2>2, <3>1, CallGoesOn
  <2>5. EngineTyped' /\ GoroutinesTyped'
    BY <1>1, <1>2, <2>1, <2>2 DEF EngineTyped, GoroutinesTyped
  <2>6. QED
    BY <1>3, <2>4, <2>5 DEF RecordInv
<1>6. CASE StartFails(c) \/ WaitDone(c)
  <2>1. PICK at \in {"idle", "closed"} : caller' = [caller EXCEPT ![c].at = at]
    BY <1>6 DEF StartFails, WaitDone
  <2>2. UNCHANGED <<started, run, cancelled, go>>
    BY <1>6 DEF StartFails, WaitDone
  <2>3. PICK call : call = [caller[c] EXCEPT !.at = at]
    OBVIOUS
  <2>4. call \in Call /\ call.at = at
    BY <1>4, <2>3 DEF Call
  <2>5. CallsTyped'
    <3>1. caller' = [caller EXCEPT ![c] = call] /\ run' = run /\ call.at # "launching"
      BY <2>1, <2>2, <2>3, <2>4
    <3>2. QED
      BY <1>1, <2>4, <3>1, CallGoesOn
  <2>6. EngineTyped' /\ GoroutinesTyped'
    BY <1>1, <1>2, <2>2 DEF EngineTyped, GoroutinesTyped
  <2>7. QED
    BY <1>3, <2>5, <2>6 DEF RecordInv
<1>7. CASE Close(c)
  <2>1. /\ cancelled' = cancelled \cup {run} /\ started' = FALSE /\ started
        /\ caller' = [caller EXCEPT ![c].at = "waiting", ![c].run = run]
        /\ UNCHANGED <<run, go>>
    BY <1>7 DEF Close
  <2>2. run \in Runs
    BY <1>1, <1>4, <2>1 DEF EngineTyped, Runs
  <2>3. PICK call : call = [[caller[c] EXCEPT !.at = "waiting"] EXCEPT !.run = run]
    OBVIOUS
  <2>4. call \in Call /\ call.at = "waiting"
    BY <1>1, <1>4, <2>3 DEF Call, EngineTyped
  <2>5. caller' = [caller EXCEPT ![c] = call]
    BY <1>1, <2>1, <2>3 DEF CallsTyped, Call
  <2>6. CallsTyped'
    BY <1>1, <2>1, <2>4, <2>5, CallGoesOn
  <2>7. EngineTyped' /\ GoroutinesTyped'
    BY <1>1, <1>2, <2>1, <2>2 DEF EngineTyped, GoroutinesTyped
  <2>8. QED
    BY <1>3, <2>6, <2>7 DEF RecordInv
<1>8. CASE Launch(c)
  <2>1. /\ run > 0 /\ caller[c].at = "launching" /\ caller[c].run \in Runs /\ caller[c].next > 0
        /\ started' = started /\ run' = run /\ cancelled' = cancelled
    BY <1>1, <1>8 DEF Launch, CallsTyped
  <2>2. EngineTyped'
    BY <1>1, <1>2, <2>1 DEF EngineTyped
  <2>3. CASE caller[c].next > Len(Launched)
    <3>1. caller' = [caller EXCEPT ![c].at = "started"] /\ go' = go
      BY <1>8, <2>3 DEF Launch
    <3>2. PICK call : call = [caller[c] EXCEPT !.at = "started"]
      OBVIOUS
    <3>3. call \in Call /\ call.at = "started"
      BY <1>4, <3>2 DEF Call
    <3>4. CallsTyped'
      <4>1. caller' = [caller EXCEPT ![c] = call]
        BY <3>1, <3>2
      <4>2. QED
        BY <1>1, <2>1, <3>3, <4>1, CallGoesOn
    <3>5. GoroutinesTyped'
      BY <1>1, <2>1, <3>1 DEF GoroutinesTyped
    <3>6. QED
      BY <1>3, <2>2, <3>4, <3>5 DEF RecordInv
  <2>4. CASE ~(caller[c].next > Len(Launched))
    <3>1. PICK q \in Runs, n \in Nat : q = caller[c].run /\ n = caller[c].next /\ n > 0
      BY <1>4, <2>1
    <3>2. n \in 1..Len(Launched)
      BY <2>4, <3>1, LifecycleAssumption
    <3>3. PICK l \in Kinds : l = Launched[n]
      BY <3>2, LifecycleAssumption
    <3>4. go' = [go EXCEPT ![q][l].st = "launched"] /\ caller' = [caller EXCEPT ![c].next = n + 1]
      BY <1>8, <2>4, <3>1, <3>3 DEF Launch
    <3>5. PICK call : call = [caller[c] EXCEPT !.next = n + 1]
      OBVIOUS
    <3>6. call \in Call /\ call.at = "launching" /\ call.run = q /\ call.next > 0
      BY <1>4, <2>1, <3>1, <3>5 DEF Call
    <3>7. CallsTyped'
      <4>1. caller' = [caller EXCEPT ![c] = call]
        BY <3>4, <3>5
      <4>2. QED
        BY <1>1, <2>1, <3>6, <4>1, CallGoesOn
    <3>8. GoroutinesTyped'
      <4>1. PICK g : g = [go[q][l] EXCEPT !.st = "launched"]
        OBVIOUS
      <4>2. g \in Goroutine /\ g.st = "launched"
        BY <1>1, <4>1 DEF GoroutinesTyped, Goroutine
      <4>3. go' = [go EXCEPT ![q][l] = g]
        BY <3>4, <4>1
      <4>4. QED
        BY <1>1, <2>1, <4>2, <4>3, GoroutineGoesOn
    <3>9. QED
      BY <1>3, <2>2, <3>7, <3>8 DEF RecordInv
  <2>5. QED
    BY <2>3, <2>4
<1>9. QED
  BY <1>5, <1>6, <1>7, <1>8

\* Nor do a context that is done and a scrape target that ends.
LEMMA CancelKeepsRecords ==
  ASSUME RecordInv, ParentDone \/ \E r \in Runs : TargetEnds(r)
  PROVE  RecordInv'
<1>1. /\ EngineTyped /\ CallsTyped /\ GoroutinesTyped /\ ClientsTyped /\ SinksTyped
      /\ RecordsAreKept
  BY DEF RecordInv
<1>2. ParentDone => run \in Runs
  BY <1>1, LifecycleAssumption DEF ParentDone, EngineTyped, Runs
<1>3. cancelled' \subseteq Runs /\ target' \subseteq Runs
      /\ UNCHANGED <<started, run, sink, go, caller, eventSink, submit>>
  BY <1>1, <1>2 DEF ParentDone, TargetEnds, EngineTyped
<1>4. EngineTyped' /\ CallsTyped' /\ SinksTyped'
  BY <1>1, <1>3 DEF EngineTyped, CallsTyped, SinksTyped
<1>5. GoroutinesTyped' /\ ClientsTyped' /\ RecordsAreKept'
  BY <1>1, <1>3 DEF GoroutinesTyped, ClientsTyped, RecordsAreKept
<1>6. QED
  BY <1>4, <1>5 DEF RecordInv

\* A goroutine that begins has the sink of the last run.
LEMMA GoroutineKeepsRecords ==
  ASSUME RecordInv, NEW r \in Runs, NEW k \in Kinds, Begin(r, k) \/ End(r, k)
  PROVE  RecordInv'
<1>1. /\ EngineTyped /\ CallsTyped /\ GoroutinesTyped /\ ClientsTyped /\ SinksTyped
      /\ RecordsAreKept
  BY DEF RecordInv
<1>2. UNCHANGED <<started, run, cancelled, sink, caller, submit>> /\ go[r][k].st # "none"
  BY DEF Begin, End
<1>3. run \in Runs /\ run \in 0..MaxStarts /\ run > 0 /\ 0 \in 0..MaxStarts
  BY <1>1, <1>2, LifecycleAssumption DEF EngineTyped, GoroutinesTyped, Runs
<1>4. CallsTyped' /\ SinksTyped' /\ ClientsTyped' /\ RecordsAreKept'
  BY <1>1, <1>2 DEF CallsTyped, SinksTyped, ClientsTyped, RecordsAreKept
<1>5. EngineTyped'
  <2>1. eventSink' \in {0, run, eventSink} /\ target' \subseteq target \cup {r}
    BY DEF Begin, End
  <2>2. QED
    BY <1>1, <1>2, <1>3, <2>1 DEF EngineTyped
<1>6. CASE Begin(r, k)
  <2>1. PICK g \in Goroutine : g = [st |-> "running", sink |-> run]
    BY <1>3 DEF Goroutine
  <2>2. go' = [go EXCEPT ![r][k] = g] /\ g.sink \in Runs
    BY <1>3, <1>6, <2>1 DEF Begin
  <2>3. GoroutinesTyped'
    BY <1>1, <1>2, <1>3, <2>2, GoroutineGoesOn
  <2>4. QED
    BY <1>4, <1>5, <2>3 DEF RecordInv
<1>7. CASE End(r, k)
  <2>1. PICK g : g = [go[r][k] EXCEPT !.st = "done"]
    OBVIOUS
  <2>2. g \in Goroutine /\ g.st = "done"
    BY <1>1, <2>1 DEF GoroutinesTyped, Goroutine
  <2>3. go' = [go EXCEPT ![r][k] = g]
    BY <1>7, <2>1 DEF End
  <2>4. GoroutinesTyped'
    BY <1>1, <1>2, <1>3, <2>2, <2>3, GoroutineGoesOn
  <2>5. QED
    BY <1>4, <1>5, <2>4 DEF RecordInv
<1>8. QED
  BY <1>6, <1>7

\* A submission that moves on is no other's.
LEMMA SubmissionMoves ==
  ASSUME submit \in [Clients -> Submission], NEW s \in Clients, NEW x \in Submission,
         submit' = [submit EXCEPT ![s] = x]
  PROVE  /\ submit' \in [Clients -> Submission]
         /\ \A t \in Clients : submit'[t] = IF t = s THEN x ELSE submit[t]
  OBVIOUS

\* A record in a sink is accepted, and that sink is its own.
LEMMA HeldIsAccepted ==
  ASSUME RecordInv, NEW r \in Runs, NEW n \in DOMAIN sink[r]
  PROVE  /\ sink[r][n] \in Clients /\ submit[sink[r][n]] = [at |-> "accepted", sink |-> r]
         /\ submit[sink[r][n]].at = "accepted" /\ submit[sink[r][n]].sink = r
<1>1. PICK q \in Seq(Clients) : q = sink[r]
  BY DEF RecordInv, SinksTyped
<1>2. q[n] \in Clients
  BY <1>1
<1>3. PICK x : x = submit[sink[r][n]]
  OBVIOUS
<1>4. x = [at |-> "accepted", sink |-> r]
  BY <1>3 DEF RecordInv, RecordsAreKept
<1>5. x.at = "accepted" /\ x.sink = r
  BY <1>4
<1>6. QED
  BY <1>1, <1>2, <1>3, <1>4, <1>5

\* A submission that begins or is given up was in no sink, and is in none.
LEMMA SubmitKeepsRecords ==
  ASSUME RecordInv, NEW s \in Clients, Submit(s) \/ GiveUp(s)
  PROVE  RecordInv'
<1>1. /\ EngineTyped /\ CallsTyped /\ GoroutinesTyped /\ ClientsTyped /\ SinksTyped
      /\ RecordsAreKept
  BY DEF RecordInv
<1>2. UNCHANGED <<started, run, cancelled, sink, go, target, caller, eventSink>>
  BY DEF Submit, GiveUp
<1>3. submit[s] \in Submission /\ eventSink \in 0..MaxStarts /\ submit[s].at \in {"new", "sending"}
  BY <1>1 DEF ClientsTyped, EngineTyped, Submit, GiveUp
<1>4. PICK x \in Submission :
        /\ submit' = [submit EXCEPT ![s] = x] /\ x.at \in {"refused", "sending"}
        /\ x.at = "sending" => x.sink \in Runs
  <2>1. CASE GiveUp(s)
    <3>1. PICK x : x = [submit[s] EXCEPT !.at = "refused"]
      OBVIOUS
    <3>2. x \in Submission /\ x.at = "refused"
      BY <1>3, <3>1 DEF Submission
    <3>3. submit' = [submit EXCEPT ![s] = x]
      BY <2>1, <3>1 DEF GiveUp
    <3>4. QED
      BY <3>2, <3>3
  <2>2. CASE Submit(s)
    <3>1. PICK x : x = IF eventSink = 0 THEN [at |-> "refused", sink |-> 0]
                                        ELSE [at |-> "sending", sink |-> eventSink]
      OBVIOUS
    <3>2. /\ x \in Submission /\ x.at \in {"refused", "sending"}
          /\ x.at = "sending" => x.sink \in Runs
      BY <1>3, <3>1, LifecycleAssumption DEF Submission, Runs
    <3>3. submit' = [submit EXCEPT ![s] = x]
      BY <2>2, <3>1 DEF Submit
    <3>4. QED
      BY <3>2, <3>3
  <2>3. QED
    BY <2>1, <2>2
<1>5. /\ submit' \in [Clients -> Submission]
      /\ \A t \in Clients : submit'[t] = IF t = s THEN x ELSE submit[t]
  BY <1>1, <1>4, SubmissionMoves DEF ClientsTyped
<1>6. ClientsTyped'
  BY <1>1, <1>4, <1>5 DEF ClientsTyped
<1>7. ASSUME NEW r \in Runs, NEW n \in DOMAIN sink[r]
      PROVE  submit'[sink[r][n]] = [at |-> "accepted", sink |-> r]
  <2>1. /\ sink[r][n] \in Clients /\ submit[sink[r][n]] = [at |-> "accepted", sink |-> r]
        /\ submit[sink[r][n]].at = "accepted"
    BY <1>7, HeldIsAccepted
  <2>2. sink[r][n] # s
    BY <1>3, <2>1
  <2>3. QED
    BY <1>5, <2>1, <2>2
<1>8. RecordsAreKept'
  <2>1. ASSUME NEW t \in Clients, submit'[t].at = "accepted"
        PROVE  submit'[t].sink \in Runs
               /\ \E n \in DOMAIN sink[submit'[t].sink] : sink[submit'[t].sink][n] = t
    <3>1. t # s /\ submit'[t] = submit[t]
      BY <1>4, <1>5, <2>1
    <3>2. QED
      BY <1>1, <2>1, <3>1 DEF RecordsAreKept
  <2>2. QED
    BY <1>1, <1>2, <1>7, <2>1 DEF RecordsAreKept
<1>9. EngineTyped' /\ CallsTyped' /\ GoroutinesTyped' /\ SinksTyped'
  BY <1>1, <1>2 DEF EngineTyped, CallsTyped, GoroutinesTyped, SinksTyped
<1>10. QED
  BY <1>6, <1>8, <1>9 DEF RecordInv

\* A record that is sent was in no sink, and is then in one.
LEMMA SendKeepsRecords ==
  ASSUME RecordInv, NEW s \in Clients, Send(s)
  PROVE  RecordInv'
<1>1. /\ EngineTyped /\ CallsTyped /\ GoroutinesTyped /\ ClientsTyped /\ SinksTyped
      /\ RecordsAreKept
  BY DEF RecordInv
<1>2. /\ started' = started /\ run' = run /\ cancelled' = cancelled /\ go' = go
      /\ target' = target /\ caller' = caller /\ eventSink' = eventSink
  BY DEF Send
<1>3. submit[s] \in Submission /\ submit[s].at = "sending" /\ submit[s].sink \in Runs
  BY <1>1 DEF ClientsTyped, Send
<1>4. PICK r \in Runs : r = submit[s].sink
  BY <1>3
<1>5. PICK x \in Submission : x = [at |-> "accepted", sink |-> r]
  <2>1. r \in 0..MaxStarts
    BY LifecycleAssumption DEF Runs
  <2>2. QED
    BY <2>1 DEF Submission
<1>6. submit' = [submit EXCEPT ![s] = x]
  <2>1. PICK y : y = [submit[s] EXCEPT !.at = "accepted"]
    OBVIOUS
  <2>2. y = x
    BY <1>3, <1>4, <1>5, <2>1 DEF Submission
  <2>3. submit' = [submit EXCEPT ![s] = y]
    BY <2>1 DEF Send
  <2>4. QED
    BY <2>2, <2>3
<1>7. /\ submit' \in [Clients -> Submission]
      /\ \A t \in Clients : submit'[t] = IF t = s THEN x ELSE submit[t]
  BY <1>1, <1>6, SubmissionMoves DEF ClientsTyped
<1>8. PICK q \in Seq(Clients) : q = sink[r]
  BY <1>1 DEF SinksTyped
<1>9. PICK p \in Seq(Clients) :
        /\ p = Append(q, s) /\ Len(q) \in Nat /\ Len(p) = Len(q) + 1
        /\ DOMAIN p = DOMAIN q \cup {Len(q) + 1} /\ p[Len(q) + 1] = s
        /\ Len(q) + 1 \notin DOMAIN q
        /\ \A n \in DOMAIN q : p[n] = q[n]
  <2>1. PICK p : p = Append(q, s)
    OBVIOUS
  <2>2. /\ p \in Seq(Clients) /\ Len(q) \in Nat /\ Len(p) = Len(q) + 1
        /\ DOMAIN p = DOMAIN q \cup {Len(q) + 1} /\ p[Len(q) + 1] = s
        /\ Len(q) + 1 \notin DOMAIN q
        /\ \A n \in DOMAIN q : p[n] = q[n]
    BY <2>1, OneBehind
  <2>3. QED
    BY <2>1, <2>2
<1>10. \A a \in Runs : sink'[a] = IF a = r THEN p ELSE sink[a]
  BY <1>1, <1>4, <1>8, <1>9 DEF Send, SinksTyped
<1>11. SinksTyped'
  <2>1. Len(q) < SinkCap /\ SinkCap \in Nat
    BY <1>4, <1>8, LifecycleAssumption DEF Send
  <2>2. Len(p) <= SinkCap
    BY <1>9, <2>1
  <2>3. sink' \in [Runs -> Seq(Clients)]
    <3>1. sink' = [sink EXCEPT ![r] = p]
      BY <1>4, <1>8, <1>9 DEF Send
    <3>2. QED
      BY <1>1, <3>1 DEF SinksTyped
  <2>4. QED
    BY <1>1, <1>10, <2>2, <2>3 DEF SinksTyped
<1>12. ASSUME NEW a \in Runs, NEW n \in DOMAIN sink[a]
       PROVE  sink[a][n] # s /\ submit'[sink[a][n]] = [at |-> "accepted", sink |-> a]
  <2>1. /\ sink[a][n] \in Clients /\ submit[sink[a][n]] = [at |-> "accepted", sink |-> a]
        /\ submit[sink[a][n]].at = "accepted"
    BY <1>12, HeldIsAccepted
  <2>2. sink[a][n] # s
    BY <1>3, <2>1
  <2>3. QED
    BY <1>7, <2>1, <2>2
<1>13. ASSUME NEW a \in Runs, NEW n \in DOMAIN sink'[a]
       PROVE  submit'[sink'[a][n]] = [at |-> "accepted", sink |-> a]
  <2>1. CASE a = r /\ n = Len(q) + 1
    BY <1>5, <1>7, <1>9, <1>10, <2>1
  <2>2. CASE ~(a = r /\ n = Len(q) + 1)
    <3>1. n \in DOMAIN sink[a] /\ sink'[a][n] = sink[a][n]
      BY <1>8, <1>9, <1>10, <1>13, <2>2
    <3>2. QED
      BY <1>12, <3>1
  <2>3. QED
    BY <2>1, <2>2
<1>14. \A a \in Runs : \A m, n \in DOMAIN sink'[a] : sink'[a][m] = sink'[a][n] => m = n
  <2> SUFFICES ASSUME NEW a \in Runs, NEW m \in DOMAIN sink'[a], NEW n \in DOMAIN sink'[a],
                      sink'[a][m] = sink'[a][n]
               PROVE  m = n
    OBVIOUS
  <2>1. CASE a # r
    BY <1>1, <1>10, <2>1 DEF RecordsAreKept
  <2>2. CASE a = r
    <3>1. \A k \in DOMAIN q : q[k] # s
      BY <1>8, <1>12
    <3>2. \A k, l \in DOMAIN q : q[k] = q[l] => k = l
      BY <1>1, <1>8 DEF RecordsAreKept
    <3>3. m \in DOMAIN p /\ n \in DOMAIN p /\ p[m] = p[n]
      BY <1>10, <2>2
    <3>4. QED
      BY <1>9, <3>1, <3>2, <3>3
  <2>3. QED
    BY <2>1, <2>2
<1>15. ASSUME NEW t \in Clients, submit'[t].at = "accepted"
       PROVE  submit'[t].sink \in Runs
              /\ \E n \in DOMAIN sink'[submit'[t].sink] : sink'[submit'[t].sink][n] = t
  <2>1. CASE t = s
    <3>1. submit'[t].sink = r
      BY <1>5, <1>7, <2>1
    <3>2. sink'[r] = p /\ Len(q) + 1 \in DOMAIN p /\ p[Len(q) + 1] = t
      BY <1>9, <1>10, <2>1
    <3>3. QED
      BY <3>1, <3>2
  <2>2. CASE t # s
    <3>1. submit'[t] = submit[t]
      BY <1>7, <2>2
    <3>2. PICK a \in Runs : a = submit[t].sink /\ \E n \in DOMAIN sink[a] : sink[a][n] = t
      BY <1>1, <1>15, <3>1 DEF RecordsAreKept
    <3>3. PICK n \in DOMAIN sink[a] : sink[a][n] = t
      BY <3>2
    <3>4. n \in DOMAIN sink'[a] /\ sink'[a][n] = t
      BY <1>8, <1>9, <1>10, <3>3
    <3>5. QED
      BY <3>1, <3>2, <3>4
  <2>3. QED
    BY <2>1, <2>2
<1>16. RecordsAreKept'
  BY <1>13, <1>14, <1>15 DEF RecordsAreKept
<1>17. ClientsTyped'
  BY <1>1, <1>5, <1>7 DEF ClientsTyped
<1>18. EngineTyped' /\ CallsTyped' /\ GoroutinesTyped'
  BY <1>1, <1>2 DEF EngineTyped, CallsTyped, GoroutinesTyped
<1>19. QED
  BY <1>11, <1>16, <1>17, <1>18 DEF RecordInv

\* The record at the front of a sink leaves it with its outcome.
LEMMA EvaluateTakesFirst ==
  ASSUME RecordInv, NEW r \in Runs, Evaluate(r)
  PROVE  \E b \in Runs, h \in Clients, x \in Submission :
           /\ submit[h].at = "accepted" /\ x.at \in {"evaluated", "failed"}
           /\ sink[b] \in Seq(Clients) /\ sink[b] # <<>> /\ h = Head(sink[b])
           /\ submit' = [submit EXCEPT ![h] = x]
           /\ sink' = [sink EXCEPT ![b] = Tail(sink[b])]
<1>1. /\ GoroutinesTyped /\ ClientsTyped /\ SinksTyped
  BY DEF RecordInv
<1>2. "push" \in Kinds /\ go[r]["push"].st = "running"
  BY DEF Kinds, Evaluate
<1>3. PICK b \in Runs : b = go[r]["push"].sink
  BY <1>1, <1>2 DEF GoroutinesTyped
<1>4. PICK q \in Seq(Clients) : q = sink[b]
  BY <1>1 DEF SinksTyped
<1>5. q # <<>>
  BY <1>3, <1>4 DEF Evaluate
<1>6. PICK h \in Clients : h = Head(q) /\ h = q[1] /\ 1 \in DOMAIN q
  BY <1>5, HeadAndTail
<1>7. submit[h].at = "accepted" /\ submit[h] \in Submission
  <2>1. 1 \in DOMAIN sink[b] /\ h = sink[b][1]
    BY <1>4, <1>6
  <2>2. submit[sink[b][1]].at = "accepted"
    BY <2>1, HeldIsAccepted
  <2>3. submit[h] \in Submission
    BY <1>1, <1>6 DEF ClientsTyped
  <2>4. QED
    BY <2>1, <2>2, <2>3
<1>8. PICK out \in {"evaluated", "failed"} : out = IF r \in cancelled THEN "failed" ELSE "evaluated"
  OBVIOUS
<1>9. PICK x : x = [submit[h] EXCEPT !.at = out]
  OBVIOUS
<1>10. x \in Submission /\ x.at = out
  BY <1>7, <1>9 DEF Submission
<1>11. submit' = [submit EXCEPT ![h].at = out] /\ sink' = [sink EXCEPT ![b] = Tail(q)]
  BY <1>3, <1>4, <1>6, <1>8 DEF Evaluate
<1>12. submit' = [submit EXCEPT ![h] = x]
  <2>1. submit' = [submit EXCEPT ![h] = [submit[h] EXCEPT !.at = out]]
    BY <1>11, Zenon
  <2>2. QED
    BY <1>9, <2>1, Zenon
<1>13. /\ submit[h].at = "accepted" /\ x.at \in {"evaluated", "failed"}
       /\ submit' = [submit EXCEPT ![h] = x]
  BY <1>7, <1>10, <1>12
<1>14. /\ sink[b] \in Seq(Clients) /\ sink[b] # <<>> /\ h = Head(sink[b])
       /\ sink' = [sink EXCEPT ![b] = Tail(sink[b])]
  BY <1>4, <1>5, <1>6, <1>11, Zenon
<1>15. QED
  BY <1>10, <1>13, <1>14, Zenon

\* What is left in the sinks is still there once and still accepted.
LEMMA EvaluateKeepsRecords ==
  ASSUME RecordInv, NEW r \in Runs, Evaluate(r)
  PROVE  RecordInv'
<1>1. /\ EngineTyped /\ CallsTyped /\ GoroutinesTyped /\ ClientsTyped /\ SinksTyped
      /\ RecordsAreKept
  BY DEF RecordInv
<1>2. /\ started' = started /\ run' = run /\ cancelled' = cancelled /\ go' = go
      /\ target' = target /\ caller' = caller /\ eventSink' = eventSink
  BY DEF Evaluate
<1>3. PICK b \in Runs, h \in Clients, x \in Submission :
        /\ submit[h].at = "accepted" /\ x.at \in {"evaluated", "failed"}
        /\ sink[b] \in Seq(Clients) /\ sink[b] # <<>> /\ h = Head(sink[b])
        /\ submit' = [submit EXCEPT ![h] = x]
        /\ sink' = [sink EXCEPT ![b] = Tail(sink[b])]
  BY EvaluateTakesFirst
<1>4. /\ submit' \in [Clients -> Submission]
      /\ \A t \in Clients : submit'[t] = IF t = h THEN x ELSE submit[t]
  BY <1>1, <1>3, SubmissionMoves DEF ClientsTyped
<1>5. PICK q, p : q = sink[b] /\ p = Tail(q)
  OBVIOUS
<1>6. /\ p \in Seq(Clients) /\ Len(q) \in Nat /\ Len(q) > 0 /\ Len(p) = Len(q) - 1
      /\ h = q[1] /\ 1 \in DOMAIN q
      /\ \A n \in DOMAIN p : n + 1 \in DOMAIN q /\ p[n] = q[n + 1]
      /\ \A n \in DOMAIN q : n # 1 => n - 1 \in DOMAIN p /\ p[n - 1] = q[n]
  BY <1>3, <1>5, HeadAndTail
<1>7. DOMAIN p = 1..Len(p) /\ DOMAIN q = 1..Len(q)
  BY <1>3, <1>5, <1>6
<1>8. sink' = [sink EXCEPT ![b] = p]
  BY <1>3, <1>5
<1>9. sink' \in [Runs -> Seq(Clients)]
      /\ \A a \in Runs : sink'[a] = IF a = b THEN p ELSE sink[a]
  BY <1>1, <1>6, <1>8 DEF SinksTyped
<1>10. SinksTyped'
  <2>1. Len(q) <= SinkCap /\ SinkCap \in Nat
    BY <1>1, <1>5, LifecycleAssumption DEF SinksTyped
  <2>2. Len(p) <= SinkCap
    BY <1>6, <2>1
  <2>3. QED
    BY <1>1, <1>9, <2>2 DEF SinksTyped
<1>11. submit[h].sink = b
  BY <1>5, <1>6, HeldIsAccepted
<1>12. \A k, l \in DOMAIN q : q[k] = q[l] => k = l
  BY <1>1, <1>5 DEF RecordsAreKept
<1>13. ASSUME NEW n \in DOMAIN p
       PROVE  n \in Nat /\ n > 0 /\ n + 1 \in DOMAIN q /\ p[n] = q[n + 1] /\ q[n + 1] # h
  <2>1. n \in Nat /\ n > 0 /\ n + 1 \in DOMAIN q /\ p[n] = q[n + 1]
    BY <1>6, <1>7, <1>13
  <2>2. n + 1 # 1
    BY <2>1
  <2>3. QED
    BY <1>6, <1>12, <2>1, <2>2
<1>14. ASSUME NEW a \in Runs, NEW n \in DOMAIN sink'[a]
       PROVE  submit'[sink'[a][n]] = [at |-> "accepted", sink |-> a]
  <2>1. CASE a = b
    <3>1. n \in DOMAIN p /\ sink'[a][n] = p[n]
      BY <1>9, <1>14, <2>1
    <3>2. n + 1 \in DOMAIN sink[b] /\ sink'[a][n] = sink[b][n + 1] /\ sink[b][n + 1] # h
      BY <1>5, <1>13, <3>1
    <3>3. sink[b][n + 1] \in Clients
          /\ submit[sink[b][n + 1]] = [at |-> "accepted", sink |-> b]
      BY <3>2, HeldIsAccepted
    <3>4. QED
      BY <1>4, <2>1, <3>2, <3>3
  <2>2. CASE a # b
    <3>1. n \in DOMAIN sink[a] /\ sink'[a][n] = sink[a][n]
      BY <1>9, <1>14, <2>2
    <3>2. /\ sink[a][n] \in Clients /\ submit[sink[a][n]] = [at |-> "accepted", sink |-> a]
          /\ submit[sink[a][n]].sink = a
      BY <3>1, HeldIsAccepted
    <3>3. sink[a][n] # h
      BY <1>11, <2>2, <3>2
    <3>4. QED
      BY <1>4, <3>1, <3>2, <3>3
  <2>3. QED
    BY <2>1, <2>2
<1>15. \A a \in Runs : \A m, n \in DOMAIN sink'[a] : sink'[a][m] = sink'[a][n] => m = n
  <2> SUFFICES ASSUME NEW a \in Runs, NEW m \in DOMAIN sink'[a], NEW n \in DOMAIN sink'[a],
                      sink'[a][m] = sink'[a][n]
               PROVE  m = n
    OBVIOUS
  <2>1. CASE a # b
    BY <1>1, <1>9, <2>1 DEF RecordsAreKept
  <2>2. CASE a = b
    <3>1. m \in DOMAIN p /\ n \in DOMAIN p /\ p[m] = p[n]
      BY <1>9, <2>2
    <3>2. m + 1 = n + 1 /\ m \in Nat /\ n \in Nat
      BY <1>12, <1>13, <3>1
    <3>3. QED
      BY <3>2
  <2>3. QED
    BY <2>1, <2>2
<1>16. ASSUME NEW t \in Clients, submit'[t].at = "accepted"
       PROVE  submit'[t].sink \in Runs
              /\ \E n \in DOMAIN sink'[submit'[t].sink] : sink'[submit'[t].sink][n] = t
  <2>1. t # h /\ submit'[t] = submit[t]
    BY <1>3, <1>4, <1>16
  <2>2. PICK a \in Runs : a = submit[t].sink /\ \E n \in DOMAIN sink[a] : sink[a][n] = t
    BY <1>1, <1>16, <2>1 DEF RecordsAreKept
  <2>3. PICK n \in DOMAIN sink[a] : sink[a][n] = t
    BY <2>2
  <2>4. CASE a = b
    <3>1. n \in DOMAIN q /\ q[n] = t /\ n # 1
      BY <1>5, <1>6, <2>1, <2>3, <2>4
    <3>2. n - 1 \in DOMAIN p /\ p[n - 1] = t
      BY <1>6, <3>1
    <3>3. QED
      BY <1>9, <2>1, <2>2, <2>4, <3>2
  <2>5. CASE a # b
    BY <1>9, <2>1, <2>2, <2>3, <2>5
  <2>6. QED
    BY <2>4, <2>5
<1>17. RecordsAreKept'
  BY <1>14, <1>15, <1>16 DEF RecordsAreKept
<1>18. ClientsTyped'
  <2>1. \A t \in Clients : submit'[t].at = "sending" => submit'[t] = submit[t]
    BY <1>3, <1>4
  <2>2. QED
    BY <1>1, <1>4, <2>1 DEF ClientsTyped
<1>19. EngineTyped' /\ CallsTyped' /\ GoroutinesTyped'
  BY <1>1, <1>2 DEF EngineTyped, CallsTyped, GoroutinesTyped
<1>20. QED
  BY <1>10, <1>17, <1>18, <1>19 DEF RecordInv

\* Every step keeps track of the records.
LEMMA RecordStep ==
  ASSUME RecordInv, [Next]_vars
  PROVE  RecordInv'
<1>1. CASE UNCHANGED vars
  BY <1>1 DEF vars, RecordInv, EngineTyped, CallsTyped, GoroutinesTyped, ClientsTyped, SinksTyped,
     RecordsAreKept
<1>2. QED
  BY <1>1, CallKeepsRecords, CancelKeepsRecords, GoroutineKeepsRecords, SubmitKeepsRecords,
     SendKeepsRecords, EvaluateKeepsRecords DEF Next

\* Where the records are, in every reachable state and whoever calls Start and
\* Close.
LEMMA RecordsHold == Spec => []RecordInv
<1>1. Init => RecordInv
  BY RecordInit
<1>2. RecordInv /\ [Next]_vars => RecordInv'
  BY RecordStep
<1>3. QED
  BY <1>1, <1>2, PTL DEF Spec

\* Nothing is launched for a run that was not begun, and no sink that is held
\* is of one.
BegunInv ==
  /\ HeldSinksAreOpen
  /\ \A r \in Runs, k \in Kinds : go[r][k].st # "none" => r <= run
  /\ \A c \in Callers : caller[c].run <= run

\* No run is begun, nothing is launched and no sink is held.
LEMMA BegunInit == Init => BegunInv
<1> SUFFICES ASSUME Init PROVE BegunInv
  OBVIOUS
<1>1. /\ run = 0 /\ eventSink = 0
      /\ go = [r \in Runs |-> [k \in Kinds |-> [st |-> "none", sink |-> 0]]]
      /\ caller = [c \in Callers |-> [at |-> "idle", run |-> 0, next |-> 1]]
      /\ submit = [s \in Clients |-> [at |-> "new", sink |-> 0]]
  BY Zenon DEF Init
<1>2. QED
  BY <1>1 DEF BegunInv, HeldSinksAreOpen

\* What a step of Start or Close may change: runs go up, a call is of a run
\* that was begun, and a goroutine is launched for the run of the call.
LEMMA CallEffect ==
  ASSUME RecordInv, NEW c \in Callers,
         Start(c) \/ StartFails(c) \/ Launch(c) \/ Close(c) \/ WaitDone(c)
  PROVE  /\ run \in Nat /\ run' \in Nat /\ run <= run'
         /\ \A d \in Callers : caller'[d].run \in {caller[d].run, run, run'}
         /\ \A r \in Runs, k \in Kinds : \/ go'[r][k] = go[r][k]
                                         \/ go'[r][k].st = "launched" /\ r = caller[c].run
         /\ eventSink' = eventSink /\ submit' = submit
<1>1. /\ run \in Nat /\ caller \in [Callers -> Call] /\ go \in [Runs -> [Kinds -> Goroutine]]
  BY LifecycleAssumption DEF RecordInv, EngineTyped, CallsTyped, GoroutinesTyped
<1>2. eventSink' = eventSink /\ submit' = submit
  BY DEF Start, StartFails, Launch, Close, WaitDone
<1>3. run' \in Nat /\ run <= run'
  BY <1>1 DEF Start, StartFails, Launch, Close, WaitDone
<1>4. \E call : /\ caller' = [caller EXCEPT ![c] = call]
                /\ call.run \in {caller[c].run, run, run'}
  <2>1. CASE Start(c)
    <3>1. PICK call : call = [at |-> "launching", run |-> run + 1, next |-> 1]
      OBVIOUS
    <3>2. call.run = run' /\ caller' = [caller EXCEPT ![c] = call]
      BY <2>1, <3>1 DEF Start
    <3>3. QED
      BY <3>2
  <2>2. CASE Close(c)
    <3>1. PICK call : call = [[caller[c] EXCEPT !.at = "waiting"] EXCEPT !.run = run]
      OBVIOUS
    <3>2. call.run = run
      BY <1>1, <3>1 DEF Call
    <3>3. caller' = [caller EXCEPT ![c] = call]
      BY <1>1, <2>2, <3>1 DEF Close, Call
    <3>4. QED
      BY <3>2, <3>3
  <2>3. CASE StartFails(c) \/ Launch(c) \/ WaitDone(c)
    <3>1. \/ \E at : caller' = [caller EXCEPT ![c].at = at]
          \/ \E n : caller' = [caller EXCEPT ![c].next = n]
      BY <2>3 DEF StartFails, Launch, WaitDone
    <3>2. ASSUME NEW at, caller' = [caller EXCEPT ![c].at = at]
          PROVE  \E call : /\ caller' = [caller EXCEPT ![c] = call]
                           /\ call.run = caller[c].run
      <4>1. PICK call : call = [caller[c] EXCEPT !.at = at]
        OBVIOUS
      <4>2. caller' = [caller EXCEPT ![c] = call] /\ call.run = caller[c].run
        BY <1>1, <3>2, <4>1 DEF Call
      <4>3. QED
        BY <4>2
    <3>3. ASSUME NEW n, caller' = [caller EXCEPT ![c].next = n]
          PROVE  \E call : /\ caller' = [caller EXCEPT ![c] = call]
                           /\ call.run = caller[c].run
      <4>1. PICK call : call = [caller[c] EXCEPT !.next = n]
        OBVIOUS
      <4>2. caller' = [caller EXCEPT ![c] = call] /\ call.run = caller[c].run
        BY <1>1, <3>3, <4>1 DEF Call
      <4>3. QED
        BY <4>2
    <3>4. QED
      BY <3>1, <3>2, <3>3
  <2>4. QED
    BY <2>1, <2>2, <2>3
<1>5. \A d \in Callers : caller'[d].run \in {caller[d].run, run, run'}
  BY <1>1, <1>4
<1>6. ASSUME NEW r \in Runs, NEW k \in Kinds
      PROVE  go'[r][k] = go[r][k] \/ (go'[r][k].st = "launched" /\ r = caller[c].run)
  <2>1. CASE go' = go
    BY <2>1
  <2>2. CASE go' # go
    <3>1. PICK q, l : q = caller[c].run /\ go' = [go EXCEPT ![q][l].st = "launched"]
      BY <2>2 DEF Start, StartFails, Launch, Close, WaitDone
    <3>2. PICK g : g = [go[q][l] EXCEPT !.st = "launched"]
      OBVIOUS
    <3>3. go' = [go EXCEPT ![q][l] = g]
      BY <3>1, <3>2
    <3>4. q \in Runs /\ l \in Kinds => g.st = "launched"
      BY <1>1, <3>2 DEF Goroutine
    <3>5. QED
      BY <1>1, <3>1, <3>3, <3>4
  <2>3. QED
    BY <2>1, <2>2
<1>7. QED
  BY <1>1, <1>2, <1>3, <1>5, <1>6

\* So what is held stays held of a run that was begun.
LEMMA CallKeepsBegun ==
  ASSUME RecordInv, BegunInv, NEW c \in Callers,
         Start(c) \/ StartFails(c) \/ Launch(c) \/ Close(c) \/ WaitDone(c)
  PROVE  BegunInv'
<1>1. /\ run \in Nat /\ run' \in Nat /\ run <= run'
      /\ \A d \in Callers : caller'[d].run \in {caller[d].run, run, run'}
      /\ \A r \in Runs, k \in Kinds : \/ go'[r][k] = go[r][k]
                                      \/ go'[r][k].st = "launched" /\ r = caller[c].run
      /\ eventSink' = eventSink /\ submit' = submit
  BY CallEffect
<1>2. /\ \A d \in Callers : caller[d].run \in Nat
      /\ \A r \in Runs : r \in Nat
      /\ \A r \in Runs, k \in Kinds : go[r][k].sink \in Nat
  BY LifecycleAssumption DEF RecordInv, CallsTyped, Call, GoroutinesTyped, Goroutine, Runs
<1>3. \A s \in Clients : submit[s].sink \in Nat
  BY LifecycleAssumption DEF RecordInv, ClientsTyped, Submission
<1>4. eventSink' \in 0..run' /\ \A s \in Clients :
        submit'[s].at \in {"sending", "accepted"} => submit'[s].sink \in 1..run'
  BY <1>1, <1>3 DEF BegunInv, HeldSinksAreOpen
<1>5. \A r \in Runs, k \in Kinds : go'[r][k].st = "running" => go'[r][k].sink \in r..run'
  BY <1>1, <1>2 DEF BegunInv, HeldSinksAreOpen
<1>6. HeldSinksAreOpen'
  BY <1>4, <1>5 DEF HeldSinksAreOpen
<1>7. \A d \in Callers : caller'[d].run <= run'
  BY <1>1, <1>2 DEF BegunInv
<1>8. \A r \in Runs, k \in Kinds : go'[r][k].st # "none" => r <= run'
  BY <1>1, <1>2 DEF BegunInv
<1>9. QED
  BY <1>6, <1>7, <1>8 DEF BegunInv

\* A goroutine that begins takes the sink of the last run begun, which is not
\* before its own.
LEMMA GoroutineKeepsBegun ==
  ASSUME RecordInv, BegunInv, NEW r \in Runs, NEW k \in Kinds, Begin(r, k) \/ End(r, k)
  PROVE  BegunInv'
<1>1. /\ run \in Nat /\ go \in [Runs -> [Kinds -> Goroutine]] /\ r \in Nat /\ eventSink \in Nat
  BY LifecycleAssumption DEF RecordInv, EngineTyped, GoroutinesTyped, Runs
<1>2. run' = run /\ caller' = caller /\ submit' = submit
  BY DEF Begin, End
<1>3. PICK g : go' = [go EXCEPT ![r][k] = g] /\ (g.st = "running" => g.sink = run)
  <2>1. CASE Begin(r, k)
    <3>1. PICK g : g = [st |-> "running", sink |-> run]
      OBVIOUS
    <3>2. go' = [go EXCEPT ![r][k] = g] /\ g.sink = run
      BY <2>1, <3>1 DEF Begin
    <3>3. QED
      BY <3>2
  <2>2. CASE End(r, k)
    <3>1. PICK g : g = [go[r][k] EXCEPT !.st = "done"]
      OBVIOUS
    <3>2. go' = [go EXCEPT ![r][k] = g] /\ g.st = "done"
      BY <1>1, <2>2, <3>1 DEF End, Goroutine
    <3>3. QED
      BY <3>2
  <2>3. QED
    BY <2>1, <2>2
<1>4. go[r][k].st # "none"
  BY DEF Begin, End
<1>5. r <= run
  BY <1>4 DEF BegunInv
<1>6. \A q \in Runs, j \in Kinds : go'[q][j] = IF q = r /\ j = k THEN g ELSE go[q][j]
  BY <1>1, <1>3
<1>7. \A q \in Runs, j \in Kinds : go'[q][j].st = "running" => go'[q][j].sink \in q..run
  <2>1. run \in r..run
    BY <1>1, <1>5 DEF Runs
  <2>2. \A q \in Runs, j \in Kinds : go[q][j].st = "running" => go[q][j].sink \in q..run
    BY DEF BegunInv, HeldSinksAreOpen
  <2>3. QED
    BY <1>3, <1>6, <2>1, <2>2
<1>8. eventSink' \in 0..run
  <2>1. eventSink' \in {0, run, eventSink}
    BY DEF Begin, End
  <2>2. QED
    BY <1>1, <2>1 DEF BegunInv, HeldSinksAreOpen
<1>9. HeldSinksAreOpen'
  BY <1>2, <1>7, <1>8 DEF BegunInv, HeldSinksAreOpen
<1>10. \A q \in Runs, j \in Kinds : go'[q][j].st # "none" => q <= run
  BY <1>5, <1>6 DEF BegunInv
<1>11. QED
  BY <1>2, <1>9, <1>10 DEF BegunInv

\* A client that finds a sink finds one of a run that was begun, and keeps it.
LEMMA ClientKeepsBegun ==
  ASSUME RecordInv, BegunInv,
         \/ \E s \in Clients : Submit(s) \/ Send(s) \/ GiveUp(s)
         \/ \E r \in Runs : Evaluate(r)
  PROVE  BegunInv'
<1>1. UNCHANGED <<run, go, caller, eventSink>>
  <2>1. ASSUME NEW r \in Runs, Evaluate(r) PROVE UNCHANGED <<run, go, caller, eventSink>>
    BY <2>1, Zenon DEF Evaluate
  <2>2. ASSUME NEW s \in Clients, Submit(s) \/ Send(s) \/ GiveUp(s)
        PROVE  UNCHANGED <<run, go, caller, eventSink>>
    BY <2>2 DEF Submit, Send, GiveUp
  <2>3. QED
    BY <2>1, <2>2
<1>2. /\ run \in Nat /\ submit \in [Clients -> Submission]
      /\ eventSink \in 0..run
  BY LifecycleAssumption DEF RecordInv, EngineTyped, ClientsTyped, BegunInv, HeldSinksAreOpen
<1>3. PICK t, x : /\ submit' = [submit EXCEPT ![t] = x]
                  /\ t \in Clients /\ x.at \in {"sending", "accepted"} =>
                       \/ x.sink = eventSink /\ eventSink # 0
                       \/ x.sink = submit[t].sink /\ submit[t].at = "sending"
  <2>1. ASSUME NEW s \in Clients, Submit(s)
        PROVE  \E x : /\ submit' = [submit EXCEPT ![s] = x]
                      /\ x.at = "sending" => x.sink = eventSink /\ eventSink # 0
                      /\ x.at # "accepted"
    <3>1. PICK x : x = IF eventSink = 0 THEN [at |-> "refused", sink |-> 0]
                                        ELSE [at |-> "sending", sink |-> eventSink]
      OBVIOUS
    <3>2. /\ x.at = "sending" => x.sink = eventSink /\ eventSink # 0
          /\ x.at # "accepted"
      BY <3>1
    <3>3. submit' = [submit EXCEPT ![s] = x]
      BY <2>1, <3>1 DEF Submit
    <3>4. QED
      BY <3>2, <3>3
  <2>2. ASSUME NEW t \in Clients, NEW at, submit' = [submit EXCEPT ![t].at = at]
        PROVE  \E x : submit' = [submit EXCEPT ![t] = x] /\ x.sink = submit[t].sink /\ x.at = at
    <3>1. PICK x : x = [submit[t] EXCEPT !.at = at]
      OBVIOUS
    <3>2. submit' = [submit EXCEPT ![t] = x] /\ x.sink = submit[t].sink /\ x.at = at
      BY <1>2, <2>2, <3>1 DEF Submission
    <3>3. QED
      BY <3>2
  <2>3. ASSUME NEW s \in Clients, Send(s)
        PROVE  submit[s].at = "sending" /\ \E at : submit' = [submit EXCEPT ![s].at = at]
    BY <2>3 DEF Send
  <2>4. ASSUME NEW s \in Clients, GiveUp(s)
        PROVE  submit[s].at = "sending" /\ \E at : submit' = [submit EXCEPT ![s].at = at]
    <3>1. submit[s].at = "sending" /\ submit' = [submit EXCEPT ![s].at = "refused"]
      BY <2>4 DEF GiveUp
    <3>2. QED
      BY <3>1
  <2>5. ASSUME NEW r \in Runs, Evaluate(r)
        PROVE  \E t, x : submit' = [submit EXCEPT ![t] = x] /\ x.at \in {"failed", "evaluated"}
    BY <2>5, EvaluateTakesFirst
  <2>6. ASSUME NEW s \in Clients, Send(s) \/ GiveUp(s)
        PROVE  \E x : /\ submit' = [submit EXCEPT ![s] = x]
                      /\ x.sink = submit[s].sink /\ submit[s].at = "sending"
    BY <2>2, <2>3, <2>4, <2>6
  <2>7. CASE \E s \in Clients : Submit(s)
    BY <2>1, <2>7
  <2>8. CASE \E s \in Clients : Send(s) \/ GiveUp(s)
    BY <2>6, <2>8
  <2>9. CASE \E r \in Runs : Evaluate(r)
    BY <2>5, <2>9
  <2>10. QED
    BY <2>7, <2>8, <2>9
<1>4. ASSUME NEW s \in Clients, submit'[s].at \in {"sending", "accepted"}
      PROVE  submit'[s].sink \in 1..run
  <2>1. submit'[s] = IF s = t THEN x ELSE submit[s]
    BY <1>2, <1>3
  <2>2. CASE s = t
    BY <1>2, <1>3, <1>4, <2>1, <2>2 DEF BegunInv, HeldSinksAreOpen
  <2>3. CASE s # t
    BY <1>4, <2>1, <2>3 DEF BegunInv, HeldSinksAreOpen
  <2>4. QED
    BY <2>2, <2>3
<1>5. HeldSinksAreOpen'
  BY <1>1, <1>2, <1>4 DEF BegunInv, HeldSinksAreOpen
<1>6. QED
  BY <1>1, <1>5 DEF BegunInv

\* Every variable of the engine keeps its type, no sink grows beyond its
\* capacity, and whoever holds a sink, the event input, a goroutine or a client
\* that is sending or was accepted, holds that of a run that was begun, a
\* goroutine none of before its own (engine.go:149, event.go:44, event.go:53).
THEOREM EngineTypeCorrect == Spec => []TypeOK
<1>1. Init => BegunInv
  BY BegunInit
<1>2. RecordInv /\ BegunInv /\ [Next]_vars => BegunInv'
  <2>1. ASSUME RecordInv, BegunInv, ParentDone \/ (\E r \in Runs : TargetEnds(r)) \/ UNCHANGED vars
        PROVE  BegunInv'
    <3>1. UNCHANGED <<run, go, caller, eventSink, submit>>
      BY <2>1 DEF ParentDone, TargetEnds, vars
    <3>2. QED
      BY <2>1, <3>1 DEF BegunInv, HeldSinksAreOpen
  <2>2. QED
    BY <2>1, CallKeepsBegun, GoroutineKeepsBegun, ClientKeepsBegun DEF Next
<1>3. RecordInv /\ BegunInv => TypeOK
  BY DEF RecordInv, EngineTyped, CallsTyped, GoroutinesTyped, ClientsTyped, SinksTyped, TypeOK,
     Call, Goroutine, Submission, BegunInv
<1>4. QED
  BY <1>1, <1>2, <1>3, RecordsHold, PTL DEF Spec

\* An accepted record without an outcome is in the sink it was sent to, once,
\* and in no other, for any clients, callers, runs and capacities (Submit's
\* send and PushEvaluator.Run's receive, event.go:64, eval.go:101).
THEOREM AcceptedIsKept == Spec => []RecordsAreKept
<1>1. RecordInv => RecordsAreKept
  BY DEF RecordInv
<1>2. QED
  BY <1>1, RecordsHold, PTL

\* What became of a record stays: none is evaluated twice, and none whose
\* Submit returned an error.
THEOREM OutcomeStands == Spec => OutcomeIsFinal
<1> DEFINE Final == \A s \in Clients :
             submit[s].at \in {"refused", "evaluated", "failed"} => submit'[s] = submit[s]
<1>1. RecordInv /\ [Next]_vars => [Final]_vars
  <2> SUFFICES ASSUME RecordInv, [Next]_vars, NEW s \in Clients,
                      submit[s].at \in {"refused", "evaluated", "failed"}
               PROVE  submit'[s] = submit[s]
    OBVIOUS
  <2>1. submit \in [Clients -> Submission]
    BY DEF RecordInv, ClientsTyped
  <2>2. CASE submit' = submit
    BY <2>2
  <2>3. ASSUME NEW t \in Clients, Submit(t) \/ Send(t) \/ GiveUp(t)
        PROVE  submit'[s] = submit[s]
    <3>1. submit[t].at \in {"new", "sending"} /\ t # s
      BY <2>3 DEF Submit, Send, GiveUp
    <3>2. \E x : submit' = [submit EXCEPT ![t] = x]
      BY <2>3 DEF Submit, Send, GiveUp
    <3>3. QED
      BY <2>1, <3>1, <3>2
  <2>4. ASSUME NEW r \in Runs, Evaluate(r)
        PROVE  submit'[s] = submit[s]
    <3>1. PICK h \in Clients, x \in Submission :
            submit[h].at = "accepted" /\ submit' = [submit EXCEPT ![h] = x]
      BY <2>4, EvaluateTakesFirst
    <3>2. h # s
      BY <3>1
    <3>3. QED
      BY <2>1, <3>1, <3>2
  <2>5. \/ submit' = submit
        \/ \E t \in Clients : Submit(t) \/ Send(t) \/ GiveUp(t)
        \/ \E r \in Runs : Evaluate(r)
    BY DEF Next, vars, Start, StartFails, Launch, Close, WaitDone, ParentDone, TargetEnds, Begin, End
  <2>6. QED
    BY <2>2, <2>3, <2>4, <2>5
<1>2. QED
  BY <1>1, RecordsHold, PTL DEF Spec, OutcomeIsFinal

-----------------------------------------------------------------------------
OfRule(row) == row.target.rule = Watched

OfLabels(row) == row.target.rule = NoRule /\ MatchLabels(row.target.labels)

Entries(s, list) == {e \in list : e[1] = s}

\* What the two queries found of a subscription: the row as it is, if nobody
\* wrote it since, and in any case one that matched.
RuleListed(s) ==
  /\ s \notin touched => Entries(s, byRule) = IF OfRule(rows[s]) THEN {<<s, rows[s]>>} ELSE {}
  /\ Entries(s, byRule) # {} => s \in ever

LabelListed(s) ==
  /\ s \notin touched => Entries(s, byLabel) = IF OfLabels(rows[s]) THEN {<<s, rows[s]>>} ELSE {}
  /\ Entries(s, byLabel) # {} => s \in ever

\* The inductive invariant of tables and lookup.
LookupInv ==
  /\ rows \in [Subs -> Sub \cup {NoSub}]
  /\ step # "idle" => \A s \in Subs : Matches(rows[s]) => s \in ever
  /\ step \in {"label", "each", "send"} => \A s \in Subs : RuleListed(s)
  /\ step \in {"each", "send"} => \A s \in Subs : LabelListed(s)

\* A write leaves what was found, and marks what it changed.
LEMMA WriteKeepsLookup ==
  ASSUME LookupInv, NEW changed, WriteRows(changed), rows' \in [Subs -> Sub \cup {NoSub}],
         \A s \in Subs : s \notin changed => rows'[s] = rows[s]
  PROVE  LookupInv'
<1>1. CASE step = "idle"
  BY <1>1 DEF LookupInv, WriteRows
<1>2. CASE step # "idle"
  <2>1. /\ touched' = touched \cup changed /\ ever' = ever \cup {s \in Subs : Matches(rows'[s])}
        /\ UNCHANGED <<step, byRule, byLabel>>
    BY <1>2 DEF WriteRows
  <2>2. \A s \in Subs : Matches(rows[s])' => s \in ever'
    BY <2>1 DEF Matches
  <2>3. ASSUME NEW s \in Subs, RuleListed(s) PROVE RuleListed(s)'
    BY <2>1, <2>3 DEF RuleListed, Entries, OfRule
  <2>4. ASSUME NEW s \in Subs, LabelListed(s) PROVE LabelListed(s)'
    BY <2>1, <2>4 DEF LabelListed, Entries, OfLabels
  <2>5. QED
    BY <1>2, <2>1, <2>2, <2>3, <2>4 DEF LookupInv
<1>3. QED
  BY <1>1, <1>2

\* What moves only the deliveries leaves the lookup as it was.
LEMMA LookupStands ==
  ASSUME LookupInv, UNCHANGED <<rows, byRule, byLabel, touched, ever>>,
         step' = step \/ step' = "idle" \/ {step, step'} \subseteq {"each", "send"}
  PROVE  LookupInv'
BY DEF LookupInv, RuleListed, LabelListed, Entries, OfRule, OfLabels, Matches

\* The administration's statements.
LEMMA AdministrationStep ==
  ASSUME LookupInv,
         \/ \E p \in People : CreateSubscriber(p) \/ DeleteSubscriber(p)
         \/ \E s \in Subs :
              \/ \E p \in People, goal \in Targets :
                   CreateSubscription(s, p, goal) \/ UpdateSubscription(s, p, goal)
              \/ DeleteSubscription(s)
  PROVE  LookupInv'
<1>1. rows \in [Subs -> Sub \cup {NoSub}]
  BY DEF LookupInv
<1>2. ASSUME NEW p \in People, CreateSubscriber(p) PROVE LookupInv'
  BY <1>1, <1>2, WriteKeepsLookup DEF CreateSubscriber
<1>3. ASSUME NEW p \in People, DeleteSubscriber(p) PROVE LookupInv'
  <2>1. PICK owned : owned = {s \in Subs : rows[s].owner = p}
    OBVIOUS
  <2>2. rows' = [s \in Subs |-> IF s \in owned THEN NoSub ELSE rows[s]] /\ WriteRows(owned)
    BY <1>3, <2>1 DEF DeleteSubscriber
  <2>3. QED
    BY <1>1, <2>2, WriteKeepsLookup
<1>4. ASSUME NEW s \in Subs, NEW p \in People, NEW goal \in Targets,
             CreateSubscription(s, p, goal) \/ UpdateSubscription(s, p, goal)
      PROVE  LookupInv'
  <2>1. PICK row \in Sub : row = [owner |-> p, target |-> goal]
    BY DEF Sub
  <2>2. rows' = [rows EXCEPT ![s] = row] /\ WriteRows({s})
    BY <1>4, <2>1 DEF CreateSubscription, UpdateSubscription
  <2>3. QED
    BY <1>1, <2>2, WriteKeepsLookup
<1>5. ASSUME NEW s \in Subs, DeleteSubscription(s) PROVE LookupInv'
  BY <1>1, <1>5, WriteKeepsLookup DEF DeleteSubscription
<1>6. QED
  BY <1>2, <1>3, <1>4, <1>5

\* The dispatcher's two queries.
LEMMA QueryStep ==
  ASSUME SubscriptionsAssumption, LookupInv, BeginLookup \/ ListByRule \/ ListByLabel
  PROVE  LookupInv'
<1>1. CASE BeginLookup
  BY <1>1 DEF LookupInv, BeginLookup, Matches
<1>2. CASE ListByRule
  <2>1. ASSUME NEW s \in Subs PROVE RuleListed(s)'
    <3>1. Entries(s, byRule)' = IF OfRule(rows[s]) THEN {<<s, rows[s]>>} ELSE {}
      BY <1>2 DEF ListByRule, Entries, OfRule
    <3>2. OfRule(rows[s]) => s \in ever
      BY <1>2 DEF ListByRule, LookupInv, OfRule, Matches
    <3>3. QED
      BY <1>2, <3>1, <3>2 DEF ListByRule, RuleListed, OfRule
  <2>2. QED
    BY <1>2, <2>1 DEF LookupInv, ListByRule, Matches
<1>3. CASE ListByLabel
  <2>1. ~OfLabels(NoSub)
    BY DEF OfLabels, NoSub, MatchLabels
  <2>2. ASSUME NEW s \in Subs PROVE LabelListed(s)'
    <3>1. Entries(s, byLabel)' = IF OfLabels(rows[s]) THEN {<<s, rows[s]>>} ELSE {}
      BY <1>3, <2>1 DEF ListByLabel, Entries, OfLabels
    <3>2. OfLabels(rows[s]) => s \in ever
      BY <1>3 DEF ListByLabel, LookupInv, OfLabels, Matches
    <3>3. QED
      BY <1>3, <3>1, <3>2 DEF ListByLabel, LabelListed, OfLabels
  <2>3. ASSUME NEW s \in Subs PROVE RuleListed(s)'
    BY <1>3 DEF ListByLabel, LookupInv, RuleListed, Entries, OfRule
  <2>4. QED
    BY <1>3, <2>2, <2>3 DEF LookupInv, ListByLabel, Matches
<1>4. QED
  BY <1>1, <1>2, <1>3

\* Every step keeps what the queries found true.
LEMMA LookupStep ==
  ASSUME SubscriptionsAssumption, LookupInv, [SubsNext]_subsVars
  PROVE  LookupInv'
<1>1. CASE NothingWritten \/ ListFails \/ SendTo \/ UNCHANGED subsVars
  BY <1>1, LookupStands DEF NothingWritten, ListFails, SendTo, subsVars
<1>2. CASE \E entry \in todo : ReadSubscriber(entry) \/ ReadSubscriberFails(entry)
  BY <1>2, LookupStands DEF ReadSubscriber, ReadSubscriberFails
<1>3. CASE EndEvaluation
  BY <1>3 DEF EndEvaluation, LookupInv
<1>4. QED
  BY <1>1, <1>2, <1>3, AdministrationStep, QueryStep DEF SubsNext

\* The two queries of a lookup answer as one would, for any subscribers,
\* subscriptions and labels and however they are written meanwhile
\* (sqlite.go:362-391).
THEOREM LookupAnswersAsOne ==
  ASSUME SubscriptionsAssumption PROVE SubsSpec => []LookupIsAsOne
<1>1. SubsInit => LookupInv
  BY DEF SubsInit, LookupInv
<1>2. LookupInv /\ [SubsNext]_subsVars => LookupInv'
  BY LookupStep
<1>3. LookupInv => LookupIsAsOne
  <2> SUFFICES ASSUME LookupInv, step \in {"each", "send"}, NEW s \in Subs
               PROVE  /\ s \notin touched => Times(s, byRule) + Times(s, byLabel)
                                               = (IF Matches(rows[s]) THEN 1 ELSE 0)
                      /\ Times(s, byRule \cup byLabel) > 0 => s \in ever
    BY DEF LookupIsAsOne
  <2>1. RuleListed(s) /\ LabelListed(s)
    BY DEF LookupInv
  <2>2. /\ Times(s, byRule) = Cardinality(Entries(s, byRule))
        /\ Times(s, byLabel) = Cardinality(Entries(s, byLabel))
        /\ Times(s, byRule \cup byLabel)
             = Cardinality(Entries(s, byRule) \cup Entries(s, byLabel))
    BY DEF Times, Entries
  <2>3. \A x : Cardinality({x}) = 1
    BY FS_Singleton
  <2>4. Cardinality({}) = 0
    BY FS_EmptySet
  <2>5. ~(OfRule(rows[s]) /\ OfLabels(rows[s])) /\ (Matches(rows[s]) <=> OfRule(rows[s]) \/ OfLabels(rows[s]))
    BY DEF OfRule, OfLabels, Matches, SubscriptionsAssumption
  <2>6. ASSUME s \notin touched
        PROVE  Times(s, byRule) + Times(s, byLabel) = (IF Matches(rows[s]) THEN 1 ELSE 0)
    <3>1. /\ Cardinality(Entries(s, byRule)) = IF OfRule(rows[s]) THEN 1 ELSE 0
          /\ Cardinality(Entries(s, byLabel)) = IF OfLabels(rows[s]) THEN 1 ELSE 0
      BY <2>1, <2>3, <2>4, <2>6 DEF RuleListed, LabelListed
    <3>2. QED
      BY <2>2, <2>5, <3>1
  <2>7. ASSUME Times(s, byRule \cup byLabel) > 0
        PROVE  s \in ever
    <3>1. Entries(s, byRule) \cup Entries(s, byLabel) # {}
      BY <2>2, <2>4, <2>7
    <3>2. QED
      BY <2>1, <3>1 DEF RuleListed, LabelListed
  <2>8. QED
    BY <2>6, <2>7
<1>4. QED
  BY <1>1, <1>2, <1>3, PTL DEF SubsSpec

\* What the queries listed and nobody wrote since is still the row.
ListedStands ==
  step # "idle" => \A entry \in byRule \cup byLabel :
    entry[2] # NoSub /\ (entry[1] \in touched \/ rows[entry[1]] = entry[2])

RowsInv == SubsTypeOK /\ RowsAreSound /\ ListedStands

\* A write of some rows leaves the others, and marks those it wrote while a
\* lookup is under way.
LEMMA WriteKeepsRows ==
  ASSUME SubscriptionsAssumption, RowsInv, NEW changed \in SUBSET Subs, WriteRows(changed),
         rows' \in [Subs -> Sub \cup {NoSub}], people' \subseteq People, RowsAreSound',
         \A s \in Subs \ changed : rows'[s] = rows[s]
  PROVE  RowsInv'
<1>1. /\ writes < MaxWrites /\ writes' = writes + 1 /\ step' = step /\ byRule' = byRule
      /\ byLabel' = byLabel /\ todo' = todo /\ to' = to /\ readFaults' = readFaults
  BY DEF WriteRows
<1>2. /\ step = "idle" => touched' = touched /\ ever' = ever
      /\ step # "idle" => /\ touched' = touched \cup changed
                         /\ ever' = ever \cup {s \in Subs : Matches(rows'[s])}
  BY DEF WriteRows
<1>3. SubsTypeOK'
  BY <1>1, <1>2 DEF RowsInv, SubsTypeOK, SubscriptionsAssumption
<1>4. ASSUME step # "idle", NEW entry \in byRule \cup byLabel
      PROVE  entry[2] # NoSub /\ (entry[1] \in touched' \/ rows'[entry[1]] = entry[2])
  <2>1. entry[1] \in Subs
    BY DEF RowsInv, SubsTypeOK
  <2>2. entry[2] # NoSub /\ (entry[1] \in touched \/ rows[entry[1]] = entry[2])
    BY <1>4 DEF RowsInv, ListedStands
  <2>3. QED
    BY <1>2, <1>4, <2>1, <2>2
<1>5. ListedStands'
  BY <1>1, <1>4 DEF ListedStands
<1>6. QED
  BY <1>3, <1>5 DEF RowsInv

\* Subscribers and their subscriptions come and go together.
LEMMA SubscribersKeepRows ==
  ASSUME SubscriptionsAssumption, RowsInv, NEW p \in People,
         CreateSubscriber(p) \/ DeleteSubscriber(p)
  PROVE  RowsInv'
<1> DEFINE owned == {s \in Subs : rows[s].owner = p}
<1>1. people \subseteq People /\ rows \in [Subs -> Sub \cup {NoSub}] /\ RowsAreSound
  BY DEF RowsInv, SubsTypeOK
<1>2. CASE CreateSubscriber(p)
  <2>1. people' = people \cup {p} /\ rows' = rows /\ WriteRows({})
    BY <1>2 DEF CreateSubscriber
  <2>2. RowsAreSound'
    BY <1>1, <2>1 DEF RowsAreSound
  <2>3. {} \in SUBSET Subs /\ people' \subseteq People /\ rows' \in [Subs -> Sub \cup {NoSub}]
    BY <1>1, <2>1
  <2>4. \A s \in Subs \ {} : rows'[s] = rows[s]
    BY <2>1
  <2>5. QED
    BY <2>1, <2>2, <2>3, <2>4, WriteKeepsRows
<1>3. CASE DeleteSubscriber(p)
  <2>1. /\ people' = people \ {p} /\ WriteRows(owned)
        /\ rows' = [s \in Subs |-> IF s \in owned THEN NoSub ELSE rows[s]]
    BY <1>3 DEF DeleteSubscriber
  <2>2. RowsAreSound'
    BY <1>1, <2>1 DEF RowsAreSound
  <2>3. owned \in SUBSET Subs /\ people' \subseteq People /\ rows' \in [Subs -> Sub \cup {NoSub}]
    BY <1>1, <2>1
  <2>4. \A s \in Subs \ owned : rows'[s] = rows[s]
    BY <2>1
  <2>5. QED
    BY <2>1, <2>2, <2>3, <2>4, WriteKeepsRows
<1>4. QED
  BY <1>2, <1>3

\* A row is written for a subscriber who is there.
LEMMA SubscriptionsKeepRows ==
  ASSUME SubscriptionsAssumption, RowsInv, NEW s \in Subs,
         \/ \E p \in People, t \in Targets :
              CreateSubscription(s, p, t) \/ UpdateSubscription(s, p, t)
         \/ DeleteSubscription(s)
  PROVE  RowsInv'
<1>1. people \subseteq People /\ rows \in [Subs -> Sub \cup {NoSub}] /\ RowsAreSound
  BY DEF RowsInv, SubsTypeOK
<1>2. PICK row \in Sub \cup {NoSub} :
        /\ rows' = [rows EXCEPT ![s] = row] /\ people' = people /\ WriteRows({s})
        /\ row # NoSub => row.owner \in people /\ Validate(row.target)
  <2>1. CASE DeleteSubscription(s)
    BY <2>1 DEF DeleteSubscription
  <2>2. ASSUME NEW p \in People, NEW t \in Targets,
               CreateSubscription(s, p, t) \/ UpdateSubscription(s, p, t)
        PROVE  \E row \in Sub \cup {NoSub} :
                 /\ rows' = [rows EXCEPT ![s] = row] /\ people' = people /\ WriteRows({s})
                 /\ row # NoSub => row.owner \in people /\ Validate(row.target)
    <3> DEFINE row == [owner |-> p, target |-> t]
    <3>1. /\ rows' = [rows EXCEPT ![s] = row] /\ people' = people /\ WriteRows({s})
          /\ p \in people /\ Validate(t)
      BY <2>2 DEF CreateSubscription, UpdateSubscription
    <3>2. row \in Sub /\ row.owner = p /\ row.target = t
      BY DEF Sub
    <3>3. QED
      BY <3>1, <3>2
  <2>3. QED
    BY <2>1, <2>2
<1>3. rows' \in [Subs -> Sub \cup {NoSub}] /\ \A x \in Subs : rows'[x] = IF x = s THEN row ELSE rows[x]
  BY <1>1, <1>2
<1>4. RowsAreSound'
  BY <1>1, <1>2, <1>3 DEF RowsAreSound
<1>5. {s} \in SUBSET Subs /\ people' \subseteq People
  BY <1>1, <1>2
<1>6. \A x \in Subs \ {s} : rows'[x] = rows[x]
  BY <1>3
<1>7. QED
  BY <1>2, <1>3, <1>4, <1>5, <1>6, WriteKeepsRows

\* The two queries list rows that are there.
LEMMA QueriesKeepRows ==
  ASSUME SubscriptionsAssumption, RowsInv, BeginLookup \/ ListByRule \/ ListByLabel
  PROVE  RowsInv'
<1> DEFINE found(T) == {<<s, rows[s]>> : s \in T}
<1>1. /\ people' = people /\ rows' = rows /\ to' = to /\ writes' = writes /\ readFaults' = readFaults
  BY DEF BeginLookup, ListByRule, ListByLabel
<1>2. people \subseteq People /\ rows \in [Subs -> Sub \cup {NoSub}]
  BY DEF RowsInv, SubsTypeOK
<1>3. RowsAreSound'
  BY <1>1 DEF RowsInv, RowsAreSound
<1>4. CASE BeginLookup
  BY <1>1, <1>3, <1>4 DEF BeginLookup, RowsInv, SubsTypeOK, ListedStands
<1>5. ASSUME NEW T \in SUBSET Subs, \A s \in T : rows[s] # NoSub
      PROVE  /\ found(T) \subseteq Subs \X Sub
             /\ \A entry \in found(T) : entry[2] # NoSub /\ rows[entry[1]] = entry[2]
  <2>1. \A s \in T : rows[s] \in Sub
    BY <1>2, <1>5
  <2>2. QED
    BY <1>5, <2>1
<1>6. NoSub.target.rule = NoRule
  BY DEF NoSub
<1>7. CASE ListByRule
  <2> DEFINE T == {x \in Subs : rows[x].target.rule = Watched}
  <2>1. /\ step = "rule" /\ step' = "label" /\ byRule' = found(T) /\ byLabel' = byLabel
        /\ todo' = todo /\ touched' = touched /\ ever' = ever
    BY <1>7 DEF ListByRule
  <2>2. T \in SUBSET Subs /\ \A s \in T : rows[s] # NoSub
    BY <1>6 DEF SubscriptionsAssumption
  <2>3. /\ found(T) \subseteq Subs \X Sub
        /\ \A entry \in found(T) : entry[2] # NoSub /\ rows[entry[1]] = entry[2]
    BY <1>5, <2>2
  <2>4. SubsTypeOK'
    BY <1>1, <2>1, <2>3 DEF RowsInv, SubsTypeOK
  <2>5. ListedStands'
    BY <1>1, <2>1, <2>3 DEF RowsInv, ListedStands
  <2>6. QED
    BY <1>3, <2>4, <2>5 DEF RowsInv
<1>8. CASE ListByLabel
  <2> DEFINE T == {x \in Subs :
        rows[x] # NoSub /\ rows[x].target.rule = NoRule /\ MatchLabels(rows[x].target.labels)}
  <2>1. /\ step = "label" /\ step' = "each" /\ byLabel' = found(T) /\ byRule' = byRule
        /\ todo' = byRule \cup byLabel' /\ touched' = touched /\ ever' = ever
    BY <1>8 DEF ListByLabel
  <2>2. T \in SUBSET Subs /\ \A s \in T : rows[s] # NoSub
    OBVIOUS
  <2>3. /\ found(T) \subseteq Subs \X Sub
        /\ \A entry \in found(T) : entry[2] # NoSub /\ rows[entry[1]] = entry[2]
    BY <1>5, <2>2
  <2>4. SubsTypeOK'
    BY <1>1, <2>1, <2>3 DEF RowsInv, SubsTypeOK
  <2>5. ListedStands'
    BY <1>1, <2>1, <2>3 DEF RowsInv, ListedStands
  <2>6. QED
    BY <1>3, <2>4, <2>5 DEF RowsInv
<1>9. QED
  BY <1>4, <1>7, <1>8

\* Delivering writes no row and forgets none that is listed.
LEMMA VisitsKeepRows ==
  ASSUME SubscriptionsAssumption, RowsInv,
         \/ NothingWritten \/ ListFails \/ SendTo \/ EndEvaluation \/ UNCHANGED subsVars
         \/ \E entry \in todo : ReadSubscriber(entry) \/ ReadSubscriberFails(entry)
  PROVE  RowsInv'
<1>1. people' = people /\ rows' = rows
  BY DEF NothingWritten, ListFails, SendTo, EndEvaluation, subsVars, ReadSubscriber,
         ReadSubscriberFails
<1>2. RowsAreSound'
  BY <1>1 DEF RowsInv, RowsAreSound
<1>3. ListedStands'
  BY <1>1 DEF NothingWritten, ListFails, SendTo, EndEvaluation, subsVars, ReadSubscriber,
              ReadSubscriberFails, RowsInv, ListedStands
<1>4. SubsTypeOK'
  <2>1. writes' \in 0..MaxWrites /\ readFaults' \in 0..MaxReadFaults
    BY DEF NothingWritten, ListFails, SendTo, EndEvaluation, subsVars, ReadSubscriber,
           ReadSubscriberFails, RowsInv, SubsTypeOK, SubscriptionsAssumption
  <2>2. to' \in People \cup {NoOne} /\ step' \in {"idle", "rule", "label", "each", "send"}
    BY DEF NothingWritten, ListFails, SendTo, EndEvaluation, subsVars, ReadSubscriber,
           ReadSubscriberFails, RowsInv, SubsTypeOK
  <2>3. /\ byRule' \subseteq byRule /\ byLabel' \subseteq byLabel /\ todo' \subseteq todo
        /\ touched' \subseteq touched /\ ever' \subseteq ever
    BY DEF NothingWritten, ListFails, SendTo, EndEvaluation, subsVars, ReadSubscriber,
           ReadSubscriberFails
  <2>4. QED
    BY <1>1, <2>1, <2>2, <2>3 DEF RowsInv, SubsTypeOK
<1>5. QED
  BY <1>2, <1>3, <1>4 DEF RowsInv

\* What is stored and what is listed, in every state.
LEMMA RowsHold == ASSUME SubscriptionsAssumption PROVE SubsSpec => []RowsInv
<1>1. SubsInit => RowsInv
  <2> SUFFICES ASSUME SubsInit PROVE RowsInv
    OBVIOUS
  <2>1. SubsTypeOK
    BY DEF SubsInit, SubsTypeOK, SubscriptionsAssumption
  <2>2. RowsAreSound /\ ListedStands
    BY DEF SubsInit, RowsAreSound, ListedStands
  <2>3. QED
    BY <2>1, <2>2 DEF RowsInv
<1>2. RowsInv /\ [SubsNext]_subsVars => RowsInv'
  BY SubscribersKeepRows, SubscriptionsKeepRows, QueriesKeepRows, VisitsKeepRows DEF SubsNext
<1>3. QED
  BY <1>1, <1>2, PTL DEF SubsSpec

\* No subscription outlives its subscriber, and none matches by rule and by
\* labels at once, in whatever order they are created, updated and deleted.
THEOREM OwnersAreThere == ASSUME SubscriptionsAssumption PROVE SubsSpec => []RowsAreSound
<1>1. RowsInv => RowsAreSound
  BY DEF RowsInv
<1>2. QED
  BY <1>1, RowsHold, PTL

\* A delivery finds no subscriber only where the listed row was written
\* meanwhile; the types of all that are kept with it.
THEOREM RecipientsAreThere ==
  ASSUME SubscriptionsAssumption PROVE SubsSpec => [](SubsTypeOK /\ RecipientIsThere)
<1>1. RowsInv => SubsTypeOK /\ RecipientIsThere
  <2> SUFFICES ASSUME RowsInv, step # "idle", NEW entry \in byRule \cup byLabel,
                      entry[1] \notin touched
               PROVE  entry[2].owner \in people
    BY DEF RowsInv, RecipientIsThere
  <2>1. entry[1] \in Subs
    BY DEF RowsInv, SubsTypeOK
  <2>2. entry[2] # NoSub /\ rows[entry[1]] = entry[2]
    BY DEF RowsInv, ListedStands
  <2>3. QED
    BY <2>1, <2>2 DEF RowsInv, RowsAreSound
<1>2. QED
  BY <1>1, RowsHold, PTL

-----------------------------------------------------------------------------
\* Ticks and passes are in order: a tick is from after the pass before it was
\* begun.  A rule that is not waiting to be looked at ran within its schedule
\* of the pass.
CadenceInv ==
  /\ now \in Nat /\ pass \in Nat /\ ticker \in Nat /\ began \in Nat /\ before \in Nat
  /\ cache \subseteq Rules
  /\ last \in [Rules -> Nat] /\ ran \in [Rules -> Nat]
  /\ pass <= now /\ ticker <= now /\ began <= now /\ before <= pass
  /\ ticker # 0 => pass < ticker /\ began < ticker
  /\ \A r \in batch : r \in Rules /\ Mode(Condition[r]) = "scheduled"
  /\ \A r \in Rules :
       /\ last[r] <= pass
       /\ ran[r] # 0 => ran[r] = last[r] /\ Mode(Condition[r]) = "scheduled"
       /\ ran[r] # 0 /\ r \in cache /\ r \notin batch => pass - ran[r] < Schedule[r]

\* Nothing has run when the process starts.
LEMMA CadenceInit == EvaluationInit => CadenceInv
BY DEF EvaluationInit, CadenceInv

\* What a run of a scheduled rule changes of the cadence.
LEMMA RunEffect ==
  ASSUME EvaluationAssumption, CadenceInv, NEW r \in Rules, EvalScheduled(r)
  PROVE  /\ r \in batch /\ batch' = batch \ {r}
         /\ last' = [last EXCEPT ![r] = pass] /\ ran' = [ran EXCEPT ![r] = pass]
         /\ last[r] = 0 \/ pass - last[r] >= Schedule[r]
         /\ UNCHANGED <<now, cache, ticker, pass, began, before>>
         /\ Mode(Condition[r]) = "scheduled" /\ Schedule[r] \in Int /\ Schedule[r] > 0
<1>1. r \in batch /\ (last[r] = 0 \/ pass - last[r] >= Schedule[r])
  BY DEF EvalScheduled, Due
<1>2. UNCHANGED <<now, cache, ticker, pass, began, before>>
  BY DEF EvalScheduled, cadence
<1>3. batch' = batch \ {r} /\ ran' = [ran EXCEPT ![r] = pass]
  BY DEF EvalScheduled
<1>4. last' = [last EXCEPT ![r] = pass]
  BY DEF EvalScheduled, NoteRun
<1>5. Mode(Condition[r]) = "scheduled"
  BY <1>1 DEF CadenceInv
<1>6. Schedule[r] \in Int /\ Schedule[r] > 0
  BY <1>5 DEF EvaluationAssumption
<1>7. QED
  BY <1>1, <1>2, <1>3, <1>4, <1>5, <1>6

\* Every step keeps the cadence.
LEMMA CadenceStep ==
  ASSUME EvaluationAssumption, CadenceInv, [EvaluationNext]_evalVars
  PROVE  CadenceInv'
<1> USE DEF CadenceInv
<1>1. ASSUME NEW rec \in Records, NEW at \in 1..MaxTime, Arrive(rec, at) PROVE CadenceInv'
  BY <1>1 DEF Arrive, cadence
<1>2. CASE TakeRecord
  BY <1>2 DEF TakeRecord, cadence
<1>3. CASE TimePasses
  BY <1>3 DEF TimePasses
<1>4. CASE BeginPass
  BY <1>4 DEF BeginPass
<1>5. CASE Restart
  BY <1>5 DEF Restart
<1>6. ASSUME NEW r \in Rules, EvalPush(r) PROVE CadenceInv'
  BY <1>6 DEF EvalPush, cadence
<1>7. ASSUME NEW r \in Rules, PassOver(r) PROVE CadenceInv'
  BY <1>7 DEF PassOver, cadence
<1>8. ASSUME NEW r \in Rules, EvalScheduled(r) PROVE CadenceInv'
  BY <1>8, RunEffect
<1>9. ASSUME NEW r \in Rules, SetRule(r) PROVE CadenceInv'
  BY <1>9 DEF SetRule, cadence
<1>10. ASSUME NEW r \in Rules, DeleteRule(r) PROVE CadenceInv'
  BY <1>10 DEF DeleteRule, cadence
<1>11. CASE UNCHANGED evalVars
  BY <1>11 DEF evalVars, cadence
<1>12. QED
  BY <1>1, <1>2, <1>3, <1>4, <1>5, <1>6, <1>7, <1>8, <1>9, <1>10, <1>11 DEF EvaluationNext

\* A rule that is given a later run has waited for its schedule.
NoneRunsEarly ==
  \A r \in Rules : ran[r] # 0 /\ ran'[r] \notin {0, ran[r]} => ran'[r] - ran[r] >= Schedule[r]

\* Only a run notes one, and it found the rule due.
LEMMA RunsAreDue ==
  ASSUME EvaluationAssumption, CadenceInv, [EvaluationNext]_evalVars
  PROVE  NoneRunsEarly
<1>1. CASE UNCHANGED ran
  BY <1>1 DEF NoneRunsEarly
<1>2. CASE Restart
  BY <1>2 DEF Restart, NoneRunsEarly, CadenceInv
<1>3. ASSUME NEW r \in Rules, SetRule(r) PROVE NoneRunsEarly
  BY <1>3 DEF SetRule, NoneRunsEarly, CadenceInv
<1>4. ASSUME NEW r \in Rules, EvalScheduled(r) PROVE NoneRunsEarly
  <2>1. /\ ran' = [ran EXCEPT ![r] = pass]
        /\ last[r] = 0 \/ pass - last[r] >= Schedule[r]
    BY <1>4, RunEffect
  <2>2. ran \in [Rules -> Nat] /\ (ran[r] # 0 => ran[r] = last[r])
    BY DEF CadenceInv
  <2>3. QED
    BY <2>1, <2>2 DEF NoneRunsEarly
<1>5. \/ UNCHANGED ran \/ Restart
      \/ \E r \in Rules : SetRule(r) \/ EvalScheduled(r)
  BY DEF EvaluationNext, Arrive, TakeRecord, TimePasses, BeginPass, EvalPush, PassOver, DeleteRule,
         evalVars
<1>6. QED
  BY <1>1, <1>2, <1>3, <1>4, <1>5

\* The cadence leaves no rule late.
LEMMA NoneLate ==
  ASSUME EvaluationAssumption, CadenceInv PROVE NoneIsLate
<1> SUFFICES ASSUME batch = {}, NEW r \in cache, ran[r] # 0
             PROVE  before - ran[r] < Schedule[r]
  BY DEF NoneIsLate
<1>1. r \in Rules /\ pass - ran[r] < Schedule[r] /\ Mode(Condition[r]) = "scheduled"
  BY DEF CadenceInv
<1>2. /\ Schedule[r] \in Int /\ before \in Nat /\ pass \in Nat /\ before <= pass
      /\ ran[r] \in Nat
  BY <1>1 DEF CadenceInv, EvaluationAssumption
<1>3. QED
  BY <1>1, <1>2

\* For any rules and schedules, however many ticks are dropped and however
\* late a pass begins: no rule is late by more than the pass under way, and
\* none runs again within its schedule (eval.go:149-161).
THEOREM CadenceIsKept ==
  ASSUME EvaluationAssumption PROVE EvaluationSpec => OnSchedule
<1>1. EvaluationInit => CadenceInv
  BY CadenceInit
<1>2. CadenceInv /\ [EvaluationNext]_evalVars => CadenceInv'
  BY CadenceStep
<1>3. CadenceInv => NoneIsLate
  BY NoneLate
<1>4. CadenceInv /\ [EvaluationNext]_evalVars => NoneRunsEarly
  BY RunsAreDue
<1>5. QED
  BY <1>1, <1>2, <1>3, <1>4, PTL DEF EvaluationSpec, OnSchedule, NoneRunsEarly

-----------------------------------------------------------------------------
Item == [at : Nat, rec : Records, n : Nat]

\* The records after the one it was cached at, up to number k, that a rule
\* can evaluate.
Good(r, k) == {i \in (since[r] + 1)..k : ~Errs(Condition[r], taken[i].rec)}

\* How many records the push evaluator is through with, for a rule.
Seen(r) == IF r \in pushTodo THEN Len(taken) - 1 ELSE Len(taken)

\* What a rule was told last is the outcome of record m.
ToldOf(r, m) == told[r] = [n |-> m, yes |-> Holds(Condition[r], taken[m].rec)]

\* Some record is the last good one, and the rule was told of it.
ToldOfLast(r, k) ==
  Good(r, k) # {} => \E m \in Good(r, k) : (\A i \in Good(r, k) : m >= i) /\ ToldOf(r, m)

\* Each rule was told of the last good record the evaluator is through with.
ToldInv ==
  /\ inbox \in Seq(Item) /\ taken \in Seq(Item) /\ sent \in Nat
  /\ DOMAIN told = Rules /\ since \in [Rules -> Nat] /\ cache \subseteq Rules
  /\ \A r \in batch : Mode(Condition[r]) = "scheduled"
  /\ \A r \in ByInput : ToldOfLast(r, Seen(r))

\* The process has taken nothing.
LEMMA ToldInit == EvaluationInit => ToldInv
<1> SUFFICES ASSUME EvaluationInit PROVE ToldInv
  OBVIOUS
<1>1. /\ inbox = <<>> /\ taken = <<>> /\ sent = 0 /\ batch = {} /\ pushTodo = {}
      /\ since = [r \in Rules |-> 0] /\ DOMAIN told = Rules /\ cache \subseteq Rules
  BY DEF EvaluationInit
<1>2. Len(taken) = 0
  BY <1>1
<1>3. ASSUME NEW r \in ByInput PROVE ToldOfLast(r, Seen(r))
  BY <1>1, <1>2, <1>3 DEF ToldOfLast, Good, Seen, ByInput
<1>4. QED
  BY <1>1, <1>3 DEF ToldInv

\* What moves no record, no cached rule and no outcome of a push rule keeps it.
LEMMA ToldStands ==
  ASSUME ToldInv, inbox' \in Seq(Item), sent' \in Nat, DOMAIN told' = Rules,
         UNCHANGED <<taken, pushTodo>>, cache' \subseteq Rules, since' \in [Rules -> Nat],
         \A r \in batch' : Mode(Condition[r]) = "scheduled",
         \A r \in ByInput' : \/ r \in ByInput /\ told'[r] = told[r] /\ since'[r] = since[r]
                             \/ since'[r] = Len(taken)
  PROVE  ToldInv'
<1>1. taken \in Seq(Item)
  BY DEF ToldInv
<1>2. ASSUME NEW r \in ByInput' PROVE ToldOfLast(r, Seen(r))'
  <2>1. Seen(r)' = Seen(r) /\ Seen(r) <= Len(taken) /\ Seen(r) \in Int /\ Len(taken) \in Nat
    BY <1>1 DEF Seen
  <2>2. CASE r \in ByInput /\ told'[r] = told[r] /\ since'[r] = since[r]
    <3>1. Good(r, Seen(r))' = Good(r, Seen(r))
      BY <2>1, <2>2 DEF Good
    <3>2. ToldOfLast(r, Seen(r))
      BY <2>2 DEF ToldInv
    <3>3. QED
      BY <2>1, <2>2, <3>1, <3>2 DEF ToldOfLast, ToldOf
  <2>3. CASE since'[r] = Len(taken)
    <3>1. Good(r, Seen(r))' = {}
      BY <2>1, <2>3 DEF Good
    <3>2. QED
      BY <3>1 DEF ToldOfLast
  <2>4. QED
    BY <2>2, <2>3
<1>3. QED
  BY <1>1, <1>2 DEF ToldInv

\* A record that is taken leaves the earlier ones, and the rules that read
\* the input wait for it.
LEMMA TakeKeepsTold ==
  ASSUME ToldInv, TakeRecord
  PROVE  ToldInv'
<1>1. PICK item \in Item : item = Head(inbox) /\ taken' = Append(taken, item) /\ inbox' \in Seq(Item)
  BY DEF ToldInv, TakeRecord
<1>2. /\ taken \in Seq(Item) /\ taken' \in Seq(Item) /\ Len(taken') = Len(taken) + 1
      /\ Len(taken) \in Nat
      /\ \A i \in 1..Len(taken) : taken'[i] = taken[i]
  BY <1>1 DEF ToldInv
<1>3. /\ pushTodo = {} /\ pushTodo' = ByInput /\ ByInput' = ByInput
      /\ UNCHANGED <<told, since, cache, batch, sent>>
  BY DEF TakeRecord, ByInput
<1>4. ASSUME NEW r \in ByInput PROVE ToldOfLast(r, Seen(r))'
  <2>1. Seen(r) = Len(taken) /\ Seen(r)' = Len(taken) /\ r \in Rules /\ since[r] \in Nat
    BY <1>2, <1>3, <1>4 DEF Seen, ToldInv, ByInput
  <2>2. Good(r, Seen(r))' = Good(r, Seen(r)) /\ Good(r, Seen(r)) \subseteq 1..Len(taken)
    BY <1>2, <1>3, <2>1 DEF Good
  <2>3. ToldOfLast(r, Seen(r))
    BY DEF ToldInv
  <2>4. QED
    BY <1>2, <1>3, <2>1, <2>2, <2>3 DEF ToldOfLast, ToldOf
<1>5. QED
  BY <1>1, <1>2, <1>3, <1>4 DEF ToldInv

\* A rule is told of the record at hand, unless it cannot evaluate it.
LEMMA PushKeepsTold ==
  ASSUME ToldInv, NEW r \in Rules, EvalPush(r)
  PROVE  ToldInv'
<1>1. PICK k : k = Len(taken)
  OBVIOUS
<1>2. /\ taken \in Seq(Item) /\ k \in Nat /\ since[r] \in Nat /\ r \in pushTodo
      /\ pushTodo' = pushTodo \ {r} /\ ByInput' = ByInput
      /\ told' = IF Errs(Condition[r], taken[k].rec) THEN told
                 ELSE [told EXCEPT ![r] = [n |-> k, yes |-> Holds(Condition[r], taken[k].rec)]]
      /\ UNCHANGED <<inbox, taken, since, cache, batch, sent>>
  BY <1>1 DEF EvalPush, ToldInv, ByInput
<1>3. DOMAIN told = Rules /\ DOMAIN told' = Rules
  BY <1>2 DEF ToldInv
<1>4. ASSUME NEW q \in ByInput, q # r PROVE ToldOfLast(q, Seen(q))'
  <2>1. told'[q] = told[q] /\ Seen(q)' = Seen(q) /\ Good(q, Seen(q))' = Good(q, Seen(q))
    BY <1>2, <1>4 DEF Seen, Good
  <2>2. ToldOfLast(q, Seen(q))
    BY <1>4 DEF ToldInv
  <2>3. QED
    BY <1>2, <2>1, <2>2 DEF ToldOfLast, ToldOf
<1>5. ASSUME r \in ByInput PROVE ToldOfLast(r, Seen(r))'
  <2>1. Seen(r)' = k /\ Seen(r) = k - 1 /\ ToldOfLast(r, k - 1)
    BY <1>1, <1>2, <1>5 DEF Seen, ToldInv
  <2>2. Good(r, k)' = Good(r, k)
    BY <1>2 DEF Good
  <2>3. CASE Errs(Condition[r], taken[k].rec)
    <3>1. Good(r, k) = Good(r, k - 1) /\ told' = told
      BY <1>2, <2>3 DEF Good
    <3>2. QED
      BY <1>2, <2>1, <2>2, <3>1 DEF ToldOfLast, ToldOf
  <2>4. CASE ~Errs(Condition[r], taken[k].rec)
    <3>1. told'[r] = [n |-> k, yes |-> Holds(Condition[r], taken[k].rec)]
      BY <1>2, <1>3, <2>4
    <3>2. Good(r, k) # {} => k \in Good(r, k) /\ \A i \in Good(r, k) : k >= i
      BY <1>2, <2>4 DEF Good
    <3>3. ToldOf(r, k)'
      BY <1>2, <3>1 DEF ToldOf
    <3>4. QED
      BY <2>1, <2>2, <3>2, <3>3 DEF ToldOfLast
  <2>5. QED
    BY <2>3, <2>4
<1>6. QED
  BY <1>2, <1>3, <1>4, <1>5 DEF ToldInv

\* A scheduled rule is not one that reads the input.
LEMMA ScheduledKeepsTold ==
  ASSUME ToldInv, NEW r \in Rules, EvalScheduled(r)
  PROVE  ToldInv'
<1>1. /\ r \in batch /\ batch' \subseteq batch /\ Mode(Condition[r]) = "scheduled"
      /\ UNCHANGED <<inbox, taken, pushTodo, since, cache, sent>>
  BY DEF EvalScheduled, Due, ToldInv
<1>2. DOMAIN told = Rules
  BY DEF ToldInv
<1>3. DOMAIN told' = Rules /\ \A q \in Rules \ {r} : told'[q] = told[q]
  BY <1>2 DEF EvalScheduled
<1>4. ByInput' = ByInput /\ r \notin ByInput /\ ByInput \subseteq Rules
  BY <1>1 DEF ByInput, ToldInv
<1>5. QED
  BY <1>1, <1>3, <1>4, ToldStands DEF ToldInv

\* Every step keeps what the rules were told.
LEMMA ToldStep ==
  ASSUME EvaluationAssumption, ToldInv, [EvaluationNext]_evalVars
  PROVE  ToldInv'
<1>1. /\ inbox \in Seq(Item) /\ taken \in Seq(Item) /\ sent \in Nat
      /\ DOMAIN told = Rules /\ since \in [Rules -> Nat] /\ cache \subseteq Rules
      /\ \A r \in batch : Mode(Condition[r]) = "scheduled"
      /\ Len(taken) \in Nat
  BY DEF ToldInv
<1>2. ASSUME NEW rec \in Records, NEW at \in 1..MaxTime, Arrive(rec, at) PROVE ToldInv'
  <2>1. PICK item \in Item : item = [at |-> at, rec |-> rec, n |-> sent + 1]
    <3>1. at \in Nat /\ sent + 1 \in Nat
      BY <1>1 DEF EvaluationAssumption
    <3>2. [at |-> at, rec |-> rec, n |-> sent + 1] \in Item
      BY <3>1 DEF Item
    <3>3. QED
      BY <3>2
  <2>2. inbox' = Append(inbox, item) /\ sent' = sent + 1
    BY <1>2, <2>1 DEF Arrive
  <2>3. inbox' \in Seq(Item) /\ sent' \in Nat
    BY <1>1, <2>2
  <2>4. UNCHANGED <<cache, taken, pushTodo, batch, told, since>> /\ ByInput' = ByInput
    BY <1>2 DEF Arrive, ByInput
  <2>5. QED
    BY <1>1, <2>3, <2>4, ToldStands
<1>3. ASSUME TimePasses \/ BeginPass \/ \E r \in Rules : PassOver(r) PROVE ToldInv'
  <2>1. /\ UNCHANGED <<inbox, cache, taken, pushTodo, told, since, sent>> /\ ByInput' = ByInput
        /\ \A r \in batch' : Mode(Condition[r]) = "scheduled"
    BY <1>1, <1>3 DEF TimePasses, BeginPass, PassOver, ByInput
  <2>2. QED
    BY <1>1, <2>1, ToldStands
<1>4. CASE Restart
  <2>1. /\ inbox' = <<>> /\ taken' = <<>> /\ batch' = {} /\ pushTodo' = {}
        /\ since' = [r \in Rules |-> 0] /\ DOMAIN told' = Rules /\ UNCHANGED <<cache, sent>>
    BY <1>4 DEF Restart
  <2>2. Len(taken') = 0
    BY <2>1
  <2>3. ASSUME NEW r \in ByInput' PROVE ToldOfLast(r, Seen(r))'
    BY <1>1, <2>1, <2>2, <2>3 DEF ToldOfLast, Good, Seen, ByInput
  <2>4. QED
    BY <1>1, <2>1, <2>3 DEF ToldInv
<1>5. ASSUME NEW r \in Rules, SetRule(r) PROVE ToldInv'
  <2>1. /\ cache' = cache \cup {r} /\ since' = [since EXCEPT ![r] = Len(taken)]
        /\ UNCHANGED <<inbox, taken, pushTodo, batch, told, sent>>
    BY <1>5 DEF SetRule
  <2>2. since' \in [Rules -> Nat] /\ cache' \subseteq Rules
    BY <1>1, <2>1
  <2>3. \A q \in ByInput' : (q \in ByInput /\ since'[q] = since[q]) \/ since'[q] = Len(taken)
    BY <1>1, <2>1 DEF ByInput
  <2>4. QED
    BY <1>1, <2>1, <2>2, <2>3, ToldStands
<1>6. ASSUME NEW r \in Rules, DeleteRule(r) PROVE ToldInv'
  <2>1. /\ cache' \subseteq cache
        /\ UNCHANGED <<inbox, taken, pushTodo, batch, told, since, sent>>
    BY <1>6 DEF DeleteRule
  <2>2. ByInput' \subseteq ByInput
    BY <2>1 DEF ByInput
  <2>3. QED
    BY <1>1, <2>1, <2>2, ToldStands
<1>7. CASE UNCHANGED evalVars
  <2>1. UNCHANGED <<inbox, cache, taken, pushTodo, batch, told, since, sent>> /\ ByInput' = ByInput
    BY <1>7 DEF evalVars, ByInput
  <2>2. QED
    BY <1>1, <2>1, ToldStands
<1>8. QED
  BY <1>2, <1>3, <1>4, <1>5, <1>6, <1>7, TakeKeepsTold, PushKeepsTold, ScheduledKeepsTold
     DEF EvaluationNext

\* What a rule that reads the input told last is about the last record it
\* could evaluate, whatever the other rules do with the records and however
\* the rules are edited meanwhile (eval.go:108-119).
THEOREM EachIsTold ==
  ASSUME EvaluationAssumption PROVE EvaluationSpec => []EachRuleIsTold
<1>1. EvaluationInit => ToldInv
  BY ToldInit
<1>2. ToldInv /\ [EvaluationNext]_evalVars => ToldInv'
  BY ToldStep
<1>3. ToldInv => EachRuleIsTold
  <2> SUFFICES ASSUME ToldInv, pushTodo = {}, NEW r \in ByInput,
                      NEW good, good = Good(r, Len(taken)), good # {}
               PROVE  told[r] = [n |-> Max(good),
                                 yes |-> Holds(Condition[r], taken[Max(good)].rec)]
    BY DEF EachRuleIsTold, Good
  <2>1. PICK m \in good : (\A i \in good : m >= i) /\ ToldOf(r, m)
    BY DEF ToldInv, ToldOfLast, Seen
  <2>2. good \subseteq Int
    BY DEF Good, ToldInv
  <2>3. Max(good) = m
    BY <2>1, <2>2 DEF Max
  <2>4. QED
    BY <2>1, <2>3 DEF ToldOf
<1>4. QED
  BY <1>1, <1>2, <1>3, PTL DEF EvaluationSpec

-----------------------------------------------------------------------------
Kept == [at : Nat, v : {rec.num : rec \in Records}, n : Nat]

\* A sample of the window and a record that it comes from.
SampleOf(x, m) == m.rec.num # Absent /\ x.at = m.at /\ x.n = m.n

\* The window holds numbers of records that were taken, and all the recent
\* ones.
WindowInv ==
  /\ now \in Nat /\ sent \in Nat /\ inbox \in Seq(Item) /\ taken \in Seq(Item) /\ buffer \in Seq(Kept)
  /\ \A i \in 1..Len(buffer) : \E j \in 1..Len(taken) : SampleOf(buffer[i], taken[j])
  /\ \A j \in 1..Len(taken) : taken[j].rec.num # Absent /\ taken[j].at > now - MaxSpan =>
       \E i \in 1..Len(buffer) : SampleOf(buffer[i], taken[j])

\* A set of naturals that is not empty has a least element.
LEMMA MinIsLeast ==
  ASSUME NEW S \in SUBSET Nat, S # {}
  PROVE  Min(S) \in S /\ \A x \in S : Min(S) <= x
<1>1. PICK m \in S : \A x \in S : ~ (<<x, m>> \in OpToRel(<, Nat))
  BY WFMin, NatLessThanWellFounded
<1>2. \A x \in S : x \in Nat /\ m \in Nat /\ ~(x < m)
  BY <1>1, Zenon DEF OpToRel
<1>3. \A x \in S : m <= x
  BY <1>2
<1>4. Min(S) \in S /\ \A x \in S : Min(S) <= x
  BY <1>3, Zenon DEF Min
<1>5. QED
  BY <1>4

\* Pruning keeps samples of the window as they are, and every recent one.
LEMMA PrunedKeeps ==
  ASSUME NEW T, NEW s \in Seq(T)
  PROVE  /\ Pruned(s) \in Seq(T)
         /\ \A i \in 1..Len(Pruned(s)) : \E j \in 1..Len(s) : Pruned(s)[i] = s[j]
         /\ \A j \in 1..Len(s) : s[j].at > now - MaxSpan =>
              \E i \in 1..Len(Pruned(s)) : Pruned(s)[i] = s[j]
<1>1. PICK recent \in SUBSET (1..Len(s)) : recent = {i \in 1..Len(s) : s[i].at > now - MaxSpan}
  OBVIOUS
<1>2. CASE recent = {}
  BY <1>1, <1>2 DEF Pruned
<1>3. CASE recent # {}
  <2>1. PICK m \in recent : m = Min(recent) /\ \A x \in recent : m <= x
    <3>1. recent \in SUBSET Nat
      BY <1>1
    <3>2. QED
      BY <1>3, <3>1, MinIsLeast
  <2>2. Pruned(s) = SubSeq(s, m, Len(s))
    BY <1>1, <1>3, <2>1 DEF Pruned
  <2>3. m \in 1..Len(s) /\ Len(s) \in Nat /\ \A i \in m..Len(s) : s[i] \in T
    BY <2>1
  <2>4. /\ Pruned(s) \in Seq(T) /\ Len(Pruned(s)) = Len(s) - m + 1
        /\ \A i \in 1..(Len(s) - m + 1) : Pruned(s)[i] = s[m + i - 1]
    BY <2>2, <2>3, SubSeqProperties
  <2>5. ASSUME NEW j \in 1..Len(s), s[j].at > now - MaxSpan
        PROVE  \E i \in 1..Len(Pruned(s)) : Pruned(s)[i] = s[j]
    <3>1. j \in recent
      BY <1>1, <2>5
    <3>2. PICK i : i = j - m + 1
      OBVIOUS
    <3>3. i \in 1..(Len(s) - m + 1) /\ m + i - 1 = j
      BY <2>1, <2>3, <3>1, <3>2
    <3>4. QED
      BY <2>4, <3>3
  <2>6. ASSUME NEW i \in 1..Len(Pruned(s))
        PROVE  \E j \in 1..Len(s) : Pruned(s)[i] = s[j]
    <3>1. m + i - 1 \in 1..Len(s)
      BY <2>3, <2>4
    <3>2. QED
      BY <2>4, <3>1
  <2>7. QED
    BY <2>4, <2>5, <2>6
<1>4. QED
  BY <1>2, <1>3

\* What leaves the records and the window as they are keeps it: time makes
\* fewer of them recent.
LEMMA WindowStands ==
  ASSUME EvaluationAssumption, WindowInv, UNCHANGED <<taken, buffer>>,
         inbox' \in Seq(Item), sent' \in Nat, now' \in Nat, now' >= now
  PROVE  WindowInv'
<1>1. \A t \in Nat : t > now' - MaxSpan => t > now - MaxSpan
  BY DEF WindowInv, EvaluationAssumption
<1>2. \A j \in 1..Len(taken) : taken[j].at \in Nat
  <2>1. taken \in Seq(Item)
    BY DEF WindowInv
  <2>2. \A j \in 1..Len(taken) : taken[j] \in Item
    BY <2>1
  <2>3. QED
    BY <2>2 DEF Item
<1>3. QED
  BY <1>1, <1>2 DEF WindowInv

\* A record that is taken joins the window before it is pruned.
LEMMA TakeKeepsWindow ==
  ASSUME EvaluationAssumption, WindowInv, TakeRecord
  PROVE  WindowInv'
<1>1. PICK item \in Item : item = Head(inbox) /\ taken' = Append(taken, item)
  BY DEF WindowInv, TakeRecord
<1>2. inbox' \in Seq(Item) /\ now' = now /\ sent' = sent /\ buffer' = Observed(item)
  BY <1>1 DEF WindowInv, TakeRecord
<1>3. PICK s : s = IF item.rec.num = Absent THEN buffer
                   ELSE Append(buffer, [at |-> item.at, v |-> item.rec.num, n |-> item.n])
  OBVIOUS
<1>4. buffer' = Pruned(s)
  BY <1>2, <1>3 DEF Observed
<1>5. /\ taken \in Seq(Item) /\ buffer \in Seq(Kept) /\ now \in Nat /\ MaxSpan \in Nat
      /\ Len(taken) \in Nat /\ Len(buffer) \in Nat
  BY DEF WindowInv, EvaluationAssumption
<1>6. /\ taken' \in Seq(Item) /\ Len(taken') = Len(taken) + 1 /\ taken'[Len(taken) + 1] = item
      /\ \A j \in 1..Len(taken) : taken'[j] = taken[j]
  BY <1>1, <1>5
<1>7. /\ s \in Seq(Kept)
      /\ \A i \in 1..Len(s) : \E j \in 1..Len(taken') : SampleOf(s[i], taken'[j])
      /\ \A j \in 1..Len(taken') : taken'[j].rec.num # Absent /\ taken'[j].at > now - MaxSpan =>
           \E i \in 1..Len(s) : SampleOf(s[i], taken'[j])
  <2>1. CASE item.rec.num = Absent
    <3>1. s = buffer /\ s \in Seq(Kept)
      BY <1>3, <1>5, <2>1
    <3>2. \A j \in 1..Len(taken) : j \in 1..Len(taken') /\ taken'[j] = taken[j]
      BY <1>5, <1>6
    <3>3. \A j \in 1..Len(taken') : taken'[j].rec.num # Absent => j \in 1..Len(taken)
      BY <1>5, <1>6, <2>1
    <3>4. \A i \in 1..Len(s) : \E j \in 1..Len(taken') : SampleOf(s[i], taken'[j])
      BY <3>1, <3>2 DEF WindowInv
    <3>5. \A j \in 1..Len(taken') : taken'[j].rec.num # Absent /\ taken'[j].at > now - MaxSpan =>
            \E i \in 1..Len(s) : SampleOf(s[i], taken'[j])
      BY <3>1, <3>2, <3>3 DEF WindowInv
    <3>6. QED
      BY <3>1, <3>4, <3>5
  <2>2. CASE item.rec.num # Absent
    <3>1. PICK x \in Kept : x = [at |-> item.at, v |-> item.rec.num, n |-> item.n]
      BY DEF Kept, Item
    <3>2. SampleOf(x, item)
      BY <2>2, <3>1 DEF SampleOf
    <3>3. /\ s \in Seq(Kept) /\ Len(s) = Len(buffer) + 1 /\ s[Len(buffer) + 1] = x
          /\ \A i \in 1..Len(buffer) : s[i] = buffer[i]
      BY <1>3, <1>5, <2>2, <3>1
    <3>4. ASSUME NEW i \in 1..Len(s)
          PROVE  \E j \in 1..Len(taken') : SampleOf(s[i], taken'[j])
      <4>1. CASE i = Len(buffer) + 1
        BY <1>5, <1>6, <3>2, <3>3, <4>1
      <4>2. CASE i \in 1..Len(buffer)
        <5>1. PICK j \in 1..Len(taken) : SampleOf(buffer[i], taken[j])
          BY <4>2 DEF WindowInv
        <5>2. QED
          BY <1>5, <1>6, <3>3, <4>2, <5>1
      <4>3. QED
        BY <1>5, <3>3, <4>1, <4>2
    <3>5. ASSUME NEW j \in 1..Len(taken'), taken'[j].rec.num # Absent, taken'[j].at > now - MaxSpan
          PROVE  \E i \in 1..Len(s) : SampleOf(s[i], taken'[j])
      <4>1. CASE j = Len(taken) + 1
        BY <1>5, <1>6, <3>2, <3>3, <4>1
      <4>2. CASE j \in 1..Len(taken)
        <5>1. PICK i \in 1..Len(buffer) : SampleOf(buffer[i], taken[j])
          BY <1>6, <3>5, <4>2 DEF WindowInv
        <5>2. QED
          BY <1>5, <1>6, <3>3, <4>2, <5>1
      <4>3. QED
        BY <1>5, <1>6, <4>1, <4>2
    <3>6. QED
      BY <3>3, <3>4, <3>5
  <2>3. QED
    BY <2>1, <2>2
<1>8. /\ buffer' \in Seq(Kept)
      /\ \A i \in 1..Len(buffer') : \E k \in 1..Len(s) : buffer'[i] = s[k]
      /\ \A k \in 1..Len(s) : s[k].at > now - MaxSpan => \E i \in 1..Len(buffer') : buffer'[i] = s[k]
  BY <1>4, <1>5, <1>7, PrunedKeeps
<1>9. ASSUME NEW i \in 1..Len(buffer')
      PROVE  \E j \in 1..Len(taken') : SampleOf(buffer'[i], taken'[j])
  BY <1>7, <1>8
<1>10. ASSUME NEW j \in 1..Len(taken'), taken'[j].rec.num # Absent, taken'[j].at > now - MaxSpan
       PROVE  \E i \in 1..Len(buffer') : SampleOf(buffer'[i], taken'[j])
  <2>1. PICK k \in 1..Len(s) : SampleOf(s[k], taken'[j])
    BY <1>7, <1>10
  <2>2. s[k].at > now - MaxSpan
    BY <1>10, <2>1 DEF SampleOf
  <2>3. QED
    BY <1>8, <2>1, <2>2
<1>11. sent \in Nat
  BY DEF WindowInv
<1>12. QED
  BY <1>2, <1>5, <1>6, <1>8, <1>9, <1>10, <1>11 DEF WindowInv

\* Every step keeps the window.
LEMMA WindowStep ==
  ASSUME EvaluationAssumption, WindowInv, [EvaluationNext]_evalVars
  PROVE  WindowInv'
<1>1. now \in Nat /\ sent \in Nat /\ inbox \in Seq(Item)
  BY DEF WindowInv
<1>2. ASSUME NEW rec \in Records, NEW at \in 1..MaxTime, Arrive(rec, at) PROVE WindowInv'
  <2>1. PICK item \in Item : item = [at |-> at, rec |-> rec, n |-> sent + 1]
    <3>1. at \in Nat /\ sent + 1 \in Nat
      BY <1>1 DEF EvaluationAssumption
    <3>2. [at |-> at, rec |-> rec, n |-> sent + 1] \in Item
      BY <3>1 DEF Item
    <3>3. QED
      BY <3>2
  <2>2. inbox' = Append(inbox, item) /\ sent' = sent + 1
    BY <1>2, <2>1 DEF Arrive
  <2>3. inbox' \in Seq(Item) /\ sent' \in Nat
    BY <1>1, <2>2
  <2>4. QED
    BY <1>1, <1>2, <2>3, WindowStands DEF Arrive
<1>3. CASE TimePasses
  BY <1>1, <1>3, WindowStands DEF TimePasses
<1>4. CASE Restart
  <2>1. inbox' = <<>> /\ buffer' = <<>> /\ taken' = <<>> /\ now' = now /\ sent' = sent
    BY <1>4 DEF Restart
  <2>2. QED
    BY <1>1, <2>1 DEF WindowInv
<1>5. ASSUME UNCHANGED <<now, inbox, buffer, taken, sent>> PROVE WindowInv'
  BY <1>1, <1>5, WindowStands
<1>6. CASE BeginPass \/ UNCHANGED evalVars
  BY <1>5, <1>6 DEF BeginPass, evalVars, cadence
<1>7. ASSUME NEW r \in Rules,
             EvalPush(r) \/ PassOver(r) \/ EvalScheduled(r) \/ SetRule(r) \/ DeleteRule(r)
      PROVE  WindowInv'
  BY <1>5, <1>7 DEF EvalPush, PassOver, EvalScheduled, SetRule, DeleteRule
<1>8. QED
  BY <1>2, <1>3, <1>4, <1>6, <1>7, TakeKeepsWindow DEF EvaluationNext

\* A window shorter than the longest one kept is exact, for any records, in
\* whatever order they come (window.go:51, 143).
THEOREM WindowsAreExact ==
  ASSUME EvaluationAssumption PROVE EvaluationSpec => []WindowIsExact
<1>1. EvaluationInit => WindowInv
  BY DEF EvaluationInit, WindowInv
<1>2. WindowInv /\ [EvaluationNext]_evalVars => WindowInv'
  BY WindowStep
<1>3. WindowInv => WindowIsExact
  <2> SUFFICES ASSUME WindowInv, NEW w \in 1..(MaxSpan - 1)
               PROVE  {x.n : x \in Samples(w)} =
                        {taken[i].n : i \in {j \in 1..Len(taken) :
                           taken[j].rec.num # Absent /\ taken[j].at >= now - w}}
    BY DEF WindowIsExact
  <2>1. now \in Nat /\ MaxSpan \in Nat /\ w \in Nat /\ w < MaxSpan /\ buffer \in Seq(Kept)
    BY DEF WindowInv, EvaluationAssumption
  <2>2. PICK s \in Seq(Kept) :
          /\ s = Pruned(buffer)
          /\ \A i \in 1..Len(s) : \E k \in 1..Len(buffer) : s[i] = buffer[k]
          /\ \A k \in 1..Len(buffer) : buffer[k].at > now - MaxSpan =>
               \E i \in 1..Len(s) : s[i] = buffer[k]
    <3>1. /\ Pruned(buffer) \in Seq(Kept)
          /\ \A i \in 1..Len(Pruned(buffer)) :
               \E k \in 1..Len(buffer) : Pruned(buffer)[i] = buffer[k]
          /\ \A k \in 1..Len(buffer) : buffer[k].at > now - MaxSpan =>
               \E i \in 1..Len(Pruned(buffer)) : Pruned(buffer)[i] = buffer[k]
      BY <2>1, PrunedKeeps
    <3>2. QED
      BY <3>1
  <2>3. Samples(w) = {s[i] : i \in {j \in 1..Len(s) : s[j].at >= now - w}}
    BY <2>2 DEF Samples
  <2>4. ASSUME NEW x \in Samples(w)
        PROVE  \E j \in 1..Len(taken) :
                 taken[j].rec.num # Absent /\ taken[j].at >= now - w /\ taken[j].n = x.n
    <3>1. PICK k \in 1..Len(buffer) : x = buffer[k] /\ x.at >= now - w
      BY <2>2, <2>3
    <3>2. PICK j \in 1..Len(taken) : SampleOf(buffer[k], taken[j])
      BY DEF WindowInv
    <3>3. QED
      BY <3>1, <3>2 DEF SampleOf
  <2>5. ASSUME NEW j \in 1..Len(taken), taken[j].rec.num # Absent, taken[j].at >= now - w
        PROVE  \E x \in Samples(w) : x.n = taken[j].n
    <3>1. taken[j].at > now - MaxSpan
      <4>1. taken \in Seq(Item)
        BY DEF WindowInv
      <4>2. taken[j] \in Item
        BY <4>1
      <4>3. taken[j].at \in Nat
        BY <4>2 DEF Item
      <4>4. QED
        BY <2>1, <2>5, <4>3
    <3>2. PICK k \in 1..Len(buffer) : SampleOf(buffer[k], taken[j])
      BY <2>5, <3>1 DEF WindowInv
    <3>3. PICK i \in 1..Len(s) : s[i] = buffer[k]
      BY <2>2, <3>1, <3>2 DEF SampleOf
    <3>4. s[i] \in Samples(w)
      BY <2>3, <2>5, <3>2, <3>3 DEF SampleOf
    <3>5. QED
      BY <3>2, <3>3, <3>4 DEF SampleOf
  <2>6. QED
    BY <2>4, <2>5
<1>4. QED
  BY <1>1, <1>2, <1>3, PTL DEF EvaluationSpec

-----------------------------------------------------------------------------
\* A record on its way, numbered and stamped within the bounds.
Stamped == [at : 1..MaxTime, rec : Records, n : 1..MaxRecords]

\* The types, and what they rest on: only rules that compile are evaluated, and
\* no more records are under way or taken than were sent.
EvaluationInv ==
  /\ EvaluationTypeOK
  /\ inbox \in Seq(Stamped) /\ taken \in Seq(Stamped)
  /\ sent \in 0..MaxRecords /\ Len(taken) + Len(inbox) <= sent
  /\ \A r \in cache : Compiles(Condition[r])
  /\ \A r \in pushTodo : Compiles(Condition[r]) /\ Mode(Condition[r]) = "push"

\* A condition that compiles and is evaluated per record says yes or no.
LEMMA PushSaysYesOrNo ==
  ASSUME NEW c, NEW rec, Compiles(c), Mode(c) = "push"
  PROVE  Holds(c, rec) \in BOOLEAN
<1>1. c.type \in {"threshold", "pattern_match", "expression"}
  <2>1. c.type \in {"threshold", "window_aggregate", "pattern_match", "sql_returns_rows", "expression"}
    BY Zenon DEF Compiles
  <2>2. c.type \notin {"window_aggregate", "sql_returns_rows"}
    BY DEF Mode
  <2>3. QED
    BY <2>1, <2>2
<1>2. /\ ThresholdHolds(c, rec) \in BOOLEAN /\ PatternHolds(c, rec) \in BOOLEAN
      /\ ExpressionHolds(c, rec) \in BOOLEAN
  BY Zenon DEF ThresholdHolds, PatternHolds, ExpressionHolds
<1>3. QED
  BY <1>1, <1>2 DEF Holds

\* A window says yes or no, whatever it holds.
LEMMA WindowSaysYesOrNo == ASSUME NEW c, NEW samples PROVE Fires(c, samples) \in BOOLEAN
  BY Zenon DEF Fires

\* A record joins the channel behind those sent before.
LEMMA ArriveKeepsTypes ==
  ASSUME EvaluationAssumption, RecordsAssumption, EvaluationInv,
         NEW rec \in Records, NEW at \in 1..MaxTime, Arrive(rec, at)
  PROVE  EvaluationInv'
<1>1. /\ sent < MaxRecords /\ Len(inbox) < QueueCap /\ sent' = sent + 1
      /\ inbox' = Append(inbox, [at |-> at, rec |-> rec, n |-> sent + 1])
      /\ UNCHANGED <<now, buffer, cache, taken, pushTodo, cadence, batch, last, told, ran>>
  BY DEF Arrive
<1>2. sent \in Nat /\ sent + 1 \in 1..MaxRecords /\ QueueCap \in Nat
  BY <1>1 DEF EvaluationInv, EvaluationAssumption, RecordsAssumption
<1>3. PICK x \in Stamped : x = [at |-> at, rec |-> rec, n |-> sent + 1]
  BY <1>2 DEF Stamped
<1>4. PICK q \in Seq(Stamped) : q = inbox
  BY DEF EvaluationInv
<1>5. Append(q, x) \in Seq(Stamped) /\ Len(q) \in Nat /\ Len(Append(q, x)) = Len(q) + 1
  BY OneBehind
<1>6. inbox' \in Seq(Stamped) /\ Len(inbox') = Len(inbox) + 1 /\ Len(inbox) \in Nat
  BY <1>1, <1>3, <1>4, <1>5
<1>7. Len(taken) \in Nat
  BY DEF EvaluationInv
<1>8. EvaluationTypeOK'
  <2>1. Len(inbox') <= QueueCap
    BY <1>1, <1>2, <1>6
  <2>2. UNCHANGED <<ticker, pass, began, before>>
    BY <1>1 DEF cadence
  <2>3. QED
    BY <1>1, <2>1, <2>2 DEF EvaluationInv, EvaluationTypeOK
<1>9. QED
  BY <1>1, <1>2, <1>6, <1>7, <1>8 DEF EvaluationInv

\* A record moves from the channel to those taken, its number to the window.
LEMMA TakeKeepsTypes ==
  ASSUME EvaluationAssumption, RecordsAssumption, EvaluationInv, TakeRecord
  PROVE  EvaluationInv'
<1>1. /\ inbox # <<>> /\ inbox' = Tail(inbox) /\ taken' = Append(taken, Head(inbox))
      /\ buffer' = Observed(Head(inbox)) /\ pushTodo' = ByInput
      /\ UNCHANGED <<now, cache, cadence, batch, last, told, ran, sent>>
  BY DEF TakeRecord
<1>2. PICK q \in Seq(Stamped), t \in Seq(Stamped) : q = inbox /\ t = taken
  BY DEF EvaluationInv
<1>3. PICK h \in Stamped : h = Head(q)
  BY <1>1, <1>2, HeadAndTail
<1>4. Tail(q) \in Seq(Stamped) /\ Len(q) \in Nat /\ Len(q) > 0 /\ Len(Tail(q)) = Len(q) - 1
  BY <1>1, <1>2, HeadAndTail
<1>5. Append(t, h) \in Seq(Stamped) /\ Len(t) \in Nat /\ Len(Append(t, h)) = Len(t) + 1
  BY OneBehind
<1>6. /\ inbox' \in Seq(Stamped) /\ taken' \in Seq(Stamped)
      /\ Len(taken') + Len(inbox') = Len(taken) + Len(inbox) /\ Len(inbox') <= Len(inbox)
      /\ Len(inbox') \in Nat /\ Len(inbox) \in Nat
  BY <1>1, <1>2, <1>3, <1>4, <1>5
<1>7. PICK s : s = IF h.rec.num = Absent THEN buffer
                   ELSE Append(buffer, [at |-> h.at, v |-> h.rec.num, n |-> h.n])
  OBVIOUS
<1>8. buffer' = Pruned(s)
  BY <1>1, <1>2, <1>3, <1>7 DEF Observed
<1>9. s \in Seq(Sample)
  <2>1. buffer \in Seq(Sample)
    BY DEF EvaluationInv, EvaluationTypeOK
  <2>2. ASSUME h.rec.num # Absent PROVE [at |-> h.at, v |-> h.rec.num, n |-> h.n] \in Sample
    BY <2>2 DEF Stamped, Sample, RecordsAssumption
  <2>3. QED
    BY <1>7, <2>1, <2>2
<1>10. buffer' \in Seq(Sample)
  BY <1>8, <1>9, PrunedKeeps
<1>11. EvaluationTypeOK'
  <2>1. cache \subseteq Rules /\ Len(inbox) <= QueueCap /\ QueueCap \in Nat
    BY DEF EvaluationInv, EvaluationTypeOK, RecordsAssumption
  <2>2. pushTodo' \subseteq Rules
    BY <1>1, <2>1 DEF ByInput
  <2>3. Len(inbox') <= QueueCap
    BY <1>6, <2>1
  <2>4. QED
    BY <1>1, <1>10, <2>2, <2>3 DEF EvaluationInv, EvaluationTypeOK, cadence
<1>12. \A r \in pushTodo' : Compiles(Condition[r]) /\ Mode(Condition[r]) = "push"
  BY <1>1 DEF EvaluationInv, ByInput
<1>13. QED
  BY <1>1, <1>6, <1>11, <1>12 DEF EvaluationInv

\* What a rule is told is the outcome for one of the records, or of a pass.
LEMMA EvaluationsKeepTypes ==
  ASSUME EvaluationAssumption, EvaluationInv, NEW r \in Rules,
         EvalPush(r) \/ PassOver(r) \/ EvalScheduled(r)
  PROVE  EvaluationInv'
<1>1. /\ UNCHANGED <<now, inbox, buffer, cache, taken, cadence, sent>>
      /\ pushTodo' \subseteq pushTodo /\ batch' \subseteq batch
  BY DEF EvalPush, PassOver, EvalScheduled
<1>2. /\ told \in [Rules -> [n : 0..MaxRecords, yes : BOOLEAN]] /\ pass \in 0..MaxTime
      /\ last \in [Rules -> 0..MaxTime] /\ ran \in [Rules -> 0..MaxTime]
  BY DEF EvaluationInv, EvaluationTypeOK
<1>3. last' \in [Rules -> 0..MaxTime] /\ ran' \in [Rules -> 0..MaxTime]
  <2>1. (last' = last /\ ran' = ran)
        \/ (last' = [last EXCEPT ![r] = pass] /\ ran' = [ran EXCEPT ![r] = pass])
    BY DEF EvalPush, PassOver, EvalScheduled, NoteRun
  <2>2. QED
    BY <1>2, <2>1
<1>4. told' \in [Rules -> [n : 0..MaxRecords, yes : BOOLEAN]]
  <2>1. ASSUME NEW v \in [n : 0..MaxRecords, yes : BOOLEAN], told' = [told EXCEPT ![r] = v]
        PROVE  told' \in [Rules -> [n : 0..MaxRecords, yes : BOOLEAN]]
    BY <1>2, <2>1
  <2>2. CASE EvalPush(r) /\ told' # told
    <3>1. PICK k \in Nat : k = Len(taken)
      BY DEF EvaluationInv
    <3>2. Len(inbox) \in Nat
      BY DEF EvaluationInv
    <3>3. k \in 0..MaxRecords
      BY <3>1, <3>2 DEF EvaluationInv, EvaluationAssumption
    <3>4. PICK yes : yes = Holds(Condition[r], taken[Len(taken)].rec)
      OBVIOUS
    <3>5. Compiles(Condition[r]) /\ Mode(Condition[r]) = "push"
      BY <2>2 DEF EvalPush, EvaluationInv
    <3>6. yes \in BOOLEAN
      BY <3>4, <3>5, PushSaysYesOrNo
    <3>7. told' = [told EXCEPT ![r] = [n |-> k, yes |-> yes]]
      BY <2>2, <3>1, <3>4 DEF EvalPush
    <3>8. [n |-> k, yes |-> yes] \in [n : 0..MaxRecords, yes : BOOLEAN]
      BY <3>3, <3>6
    <3>9. QED
      BY <2>1, <3>7, <3>8
  <2>3. CASE EvalScheduled(r) /\ told' # told
    <3>1. PICK yes \in BOOLEAN : told' = [told EXCEPT ![r] = [n |-> 0, yes |-> yes]]
      BY <2>3, WindowSaysYesOrNo, Zenon DEF EvalScheduled
    <3>2. 0 \in 0..MaxRecords
      BY DEF EvaluationAssumption
    <3>3. [n |-> 0, yes |-> yes] \in [n : 0..MaxRecords, yes : BOOLEAN]
      BY <3>2
    <3>4. QED
      BY <2>1, <3>1, <3>3
  <2>4. CASE PassOver(r) \/ told' = told
    BY <1>2, <2>4 DEF PassOver
  <2>5. QED
    BY <2>2, <2>3, <2>4
<1>5. EvaluationTypeOK'
  BY <1>1, <1>3, <1>4 DEF EvaluationInv, EvaluationTypeOK, cadence
<1>6. QED
  BY <1>1, <1>5 DEF EvaluationInv

\* Ticks, passes, administration and a restart.
LEMMA OthersKeepTypes ==
  ASSUME EvaluationAssumption, RecordsAssumption, EvaluationInv,
         \/ TimePasses \/ BeginPass \/ Restart \/ UNCHANGED evalVars
         \/ \E r \in Rules : SetRule(r) \/ DeleteRule(r)
  PROVE  EvaluationInv'
<1>1. CASE TimePasses
  BY <1>1 DEF TimePasses, EvaluationInv, EvaluationTypeOK, EvaluationAssumption
<1>2. CASE BeginPass
  <2>1. /\ UNCHANGED <<now, inbox, buffer, cache, taken, pushTodo, last, told, ran, sent>>
        /\ pass' = ticker /\ ticker' = 0 /\ began' = now /\ before' = began
        /\ batch' \subseteq cache
    BY <1>2 DEF BeginPass
  <2>2. 0 \in 0..MaxTime
    BY DEF EvaluationAssumption
  <2>3. QED
    BY <2>1, <2>2 DEF EvaluationInv, EvaluationTypeOK
<1>3. CASE UNCHANGED evalVars
  BY <1>3 DEF evalVars, EvaluationInv, EvaluationTypeOK, cadence
<1>4. CASE \E r \in Rules : SetRule(r) \/ DeleteRule(r)
  <2>1. /\ UNCHANGED <<now, inbox, buffer, taken, pushTodo, cadence, batch, last, told, sent>>
        /\ \A r \in cache' : r \in Rules /\ Compiles(Condition[r])
    BY <1>4 DEF SetRule, DeleteRule, EvaluationInv, EvaluationTypeOK
  <2>2. ran' \in [Rules -> 0..MaxTime]
    <3>1. 0 \in 0..MaxTime /\ ran \in [Rules -> 0..MaxTime]
      BY DEF EvaluationAssumption, EvaluationInv, EvaluationTypeOK
    <3>2. QED
      BY <1>4, <3>1 DEF SetRule, DeleteRule
  <2>3. QED
    BY <2>1, <2>2 DEF EvaluationInv, EvaluationTypeOK, cadence
<1>5. CASE Restart
  <2>1. /\ inbox' = <<>> /\ buffer' = <<>> /\ taken' = <<>> /\ pushTodo' = {} /\ ticker' = 0
        /\ pass' = 0 /\ began' = 0 /\ before' = 0 /\ batch' = {} /\ last' = [r \in Rules |-> 0] /\ ran' = last'
        /\ told' = [r \in Rules |-> NoVerdict] /\ UNCHANGED <<now, cache, sent>>
    BY <1>5 DEF Restart
  <2>2. 0 \in 0..MaxTime /\ 0 \in 0..MaxRecords /\ NoVerdict \in [n : 0..MaxRecords, yes : BOOLEAN]
    BY DEF EvaluationAssumption, NoVerdict
  <2>3. /\ last' \in [Rules -> 0..MaxTime] /\ ran' \in [Rules -> 0..MaxTime]
        /\ told' \in [Rules -> [n : 0..MaxRecords, yes : BOOLEAN]]
    BY <2>1, <2>2
  <2>4. <<>> \in Seq(Sample) /\ <<>> \in Seq(Stamped) /\ Len(<<>>) = 0
    OBVIOUS
  <2>5. QED
    BY <2>1, <2>2, <2>3, <2>4 DEF EvaluationInv, EvaluationTypeOK, RecordsAssumption
<1>6. QED
  BY <1>1, <1>2, <1>3, <1>4, <1>5

\* Every variable of the evaluators keeps its type: samples are numbers of
\* records that came, and every verdict a rule is told is a yes or a no
\* (window.go:51, eval.go:108).
THEOREM EvaluationTypeCorrect ==
  ASSUME EvaluationAssumption, RecordsAssumption PROVE EvaluationSpec => []EvaluationTypeOK
<1>1. EvaluationInit => EvaluationInv
  <2> SUFFICES ASSUME EvaluationInit PROVE EvaluationInv
    OBVIOUS
  <2>1. /\ now = 1 /\ inbox = <<>> /\ buffer = <<>> /\ taken = <<>>
        /\ cache = {r \in Rules : Compiles(Condition[r])}
        /\ pushTodo = {} /\ ticker = 0 /\ pass = 0 /\ began = 0 /\ before = 0 /\ batch = {} /\ sent = 0
        /\ last = [r \in Rules |-> 0] /\ ran = last /\ told = [r \in Rules |-> NoVerdict]
    BY DEF EvaluationInit
  <2>2. /\ 1 \in 1..MaxTime /\ 0 \in 0..MaxTime /\ 0 \in 0..MaxRecords
        /\ NoVerdict \in [n : 0..MaxRecords, yes : BOOLEAN]
    BY DEF EvaluationAssumption, RecordsAssumption, NoVerdict
  <2>3. <<>> \in Seq(Sample) /\ <<>> \in Seq(Stamped) /\ Len(<<>>) = 0
    OBVIOUS
  <2>4. /\ last \in [Rules -> 0..MaxTime] /\ ran \in [Rules -> 0..MaxTime]
        /\ told \in [Rules -> [n : 0..MaxRecords, yes : BOOLEAN]]
    BY <2>1, <2>2
  <2>5. QED
    BY <2>1, <2>2, <2>3, <2>4 DEF EvaluationInv, EvaluationTypeOK, RecordsAssumption
<1>2. EvaluationInv /\ [EvaluationNext]_evalVars => EvaluationInv'
  BY ArriveKeepsTypes, TakeKeepsTypes, EvaluationsKeepTypes, OthersKeepTypes DEF EvaluationNext
<1>3. EvaluationInv => EvaluationTypeOK
  BY DEF EvaluationInv
<1>4. QED
  BY <1>1, <1>2, <1>3, PTL DEF EvaluationSpec
=============================================================================
