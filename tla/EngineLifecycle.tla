-------------------------- MODULE EngineLifecycle --------------------------
(***************************************************************************)
(* Starting and closing the engine, and the records on their way through   *)
(* it.  Start sets the engine up under a lock, then launches its           *)
(* goroutines; Close cancels them under the lock, then waits.  The event   *)
(* input keeps the sink of the run that started it for Submit to use.      *)
(***************************************************************************)
EXTENDS Naturals, Sequences, FiniteSets

CONSTANTS Callers,   \* who calls Start and Close
          Launched,  \* the goroutines Start launches, in order
          Clients,   \* who calls Submit, once each, with one record each
          SinkCap,   \* the sink's buffer, 256 in the code
          MaxStarts

Kinds == {"push", "scheduled", "event", "scrape"}

ASSUME LifecycleAssumption ==
  /\ Launched \in Seq(Kinds) /\ SinkCap \in Nat \ {0} /\ MaxStarts \in Nat

Runs == 1..MaxStarts

VARIABLES started, run,   \* Engine.started, and which run e.sink and e.cancel are of
          cancelled,      \* the runs whose context is done
          sink,           \* sink[r]: the channel of run r
          go,             \* go[r][k]: goroutine k of run r and the sink it has
          target,         \* the scrape goroutines that no one waits for, by run
          caller,         \* where each Start or Close call is
          eventSink,      \* the run whose sink the event input has, 0 for nil
          submit          \* where each Submit is, and what became of its record

vars == <<started, run, cancelled, sink, go, target, caller, eventSink, submit>>

\* Whoever holds a sink holds that of a run that was begun: a goroutine not of
\* one before its own, and a client that is sending a channel that is there.
HeldSinksAreOpen ==
  /\ \A r \in Runs, k \in Kinds : go[r][k].st = "running" => go[r][k].sink \in r..run
  /\ eventSink \in 0..run
  /\ \A s \in Clients : submit[s].at \in {"sending", "accepted"} => submit[s].sink \in 1..run

TypeOK ==
  /\ HeldSinksAreOpen
  /\ started \in BOOLEAN /\ run \in 0..MaxStarts /\ cancelled \subseteq Runs
  /\ sink \in [Runs -> Seq(Clients)] /\ \A r \in Runs : Len(sink[r]) <= SinkCap
  /\ go \in [Runs -> [Kinds -> [st : {"none", "launched", "running", "done"}, sink : 0..MaxStarts]]]
  /\ target \subseteq Runs
  /\ caller \in [Callers -> [at : {"idle", "launching", "waiting", "started", "closed"},
                             run : 0..MaxStarts, next : Nat]]
  /\ eventSink \in 0..MaxStarts
  /\ submit \in [Clients -> [at : {"new", "sending", "refused", "accepted", "evaluated", "failed"},
                             sink : 0..MaxStarts]]

Init ==
  /\ started = FALSE /\ run = 0 /\ cancelled = {} /\ sink = [r \in Runs |-> <<>>]
  /\ go = [r \in Runs |-> [k \in Kinds |-> [st |-> "none", sink |-> 0]]]
  /\ target = {} /\ eventSink = 0
  /\ caller = [c \in Callers |-> [at |-> "idle", run |-> 0, next |-> 1]]
  /\ submit = [s \in Clients |-> [at |-> "new", sink |-> 0]]

Busy(c) == caller[c].at \in {"launching", "waiting"}

\* Start under the lock: refused when started; a failed Migrate or reload
\* leaves everything as it was.
Start(c) ==
  /\ ~Busy(c) /\ ~started /\ run < MaxStarts
  /\ run' = run + 1 /\ started' = TRUE
  /\ caller' = [caller EXCEPT ![c] = [at |-> "launching", run |-> run + 1, next |-> 1]]
  /\ UNCHANGED <<cancelled, sink, go, target, eventSink, submit>>

StartFails(c) ==
  /\ ~Busy(c) /\ caller' = [caller EXCEPT ![c].at = "idle"]
  /\ UNCHANGED <<started, run, cancelled, sink, go, target, eventSink, submit>>

\* Without the lock: wg.Add and go, one goroutine after the other.
Launch(c) ==
  LET k == caller[c] IN
  /\ k.at = "launching"
  /\ IF k.next > Len(Launched)
     THEN caller' = [caller EXCEPT ![c].at = "started"] /\ UNCHANGED go
     ELSE /\ go' = [go EXCEPT ![k.run][Launched[k.next]].st = "launched"]
          /\ caller' = [caller EXCEPT ![c].next = @ + 1]
  /\ UNCHANGED <<started, run, cancelled, sink, target, eventSink, submit>>

\* Mutant: Close forgets to cancel.
CloseUncancelled(c) ==
  /\ ~Busy(c) /\ started /\ started' = FALSE
  /\ caller' = [caller EXCEPT ![c].at = "waiting", ![c].run = run]
  /\ UNCHANGED <<run, cancelled, sink, go, target, eventSink, submit>>

Close(c) ==
  /\ ~Busy(c) /\ started
  /\ cancelled' = cancelled \cup {run} /\ started' = FALSE
  /\ caller' = [caller EXCEPT ![c].at = "waiting", ![c].run = run]
  /\ UNCHANGED <<run, sink, go, target, eventSink, submit>>

Counted == {g \in Runs \X Kinds : go[g[1]][g[2]].st \in {"launched", "running"}}

\* Mutant: Close does not wait.
CloseEarly(c) ==
  /\ caller[c].at = "waiting" /\ caller' = [caller EXCEPT ![c].at = "closed"]
  /\ UNCHANGED <<started, run, cancelled, sink, go, target, eventSink, submit>>

WaitDone(c) ==
  /\ caller[c].at = "waiting" /\ Counted = {}
  /\ caller' = [caller EXCEPT ![c].at = "closed"]
  /\ UNCHANGED <<started, run, cancelled, sink, go, target, eventSink, submit>>

\* The context Start was given is done: the run's context is, too.
ParentDone ==
  /\ run > 0 /\ cancelled' = cancelled \cup {run}
  /\ UNCHANGED <<started, run, sink, go, target, caller, eventSink, submit>>

\* A goroutine begins: it reads e.sink now, whichever run's it is by then.
\* The event input keeps it for Submit, scrape starts its targets.
Begin(r, k) ==
  /\ go[r][k].st = "launched"
  /\ go' = [go EXCEPT ![r][k] = [st |-> "running", sink |-> run]]
  /\ eventSink' = IF k = "event" THEN run ELSE eventSink
  /\ target' = IF k = "scrape" THEN target \cup {r} ELSE target
  /\ UNCHANGED <<started, run, cancelled, sink, caller, submit>>

\* Its context is done: the event input drops its sink.
End(r, k) ==
  /\ go[r][k].st = "running" /\ r \in cancelled
  /\ go' = [go EXCEPT ![r][k].st = "done"]
  /\ eventSink' = IF k = "event" THEN 0 ELSE eventSink
  /\ UNCHANGED <<started, run, cancelled, sink, target, caller, submit>>

TargetEnds(r) ==
  /\ r \in target /\ r \in cancelled /\ target' = target \ {r}
  /\ UNCHANGED <<started, run, cancelled, sink, go, caller, eventSink, submit>>

\* PushEvaluator.Run: with a record and a done context both ready, either
\* may be chosen; a tick under a done context fails at the store.
Evaluate(r) ==
  LET s == go[r]["push"].sink IN
  /\ go[r]["push"].st = "running" /\ sink[s] # <<>>
  /\ submit' = [submit EXCEPT ![Head(sink[s])].at =
                  IF r \in cancelled THEN "failed" ELSE "evaluated"]
  /\ sink' = [sink EXCEPT ![s] = Tail(@)]
  /\ UNCHANGED <<started, run, cancelled, go, target, caller, eventSink>>

\* Submit reads the sink under the input's lock, then sends without it.
Submit(s) ==
  /\ submit[s].at = "new"
  /\ submit' = [submit EXCEPT ![s] =
       IF eventSink = 0 THEN [at |-> "refused", sink |-> 0]
                        ELSE [at |-> "sending", sink |-> eventSink]]
  /\ UNCHANGED <<started, run, cancelled, sink, go, target, caller, eventSink>>

\* Mutant: a full sink drops the record.
SendOrDrop(s) ==
  LET r == submit[s].sink IN
  /\ submit[s].at = "sending"
  /\ sink' = IF Len(sink[r]) < SinkCap THEN [sink EXCEPT ![r] = Append(@, s)] ELSE sink
  /\ submit' = [submit EXCEPT ![s].at = "accepted"]
  /\ UNCHANGED <<started, run, cancelled, go, target, caller, eventSink>>

Send(s) ==
  LET r == submit[s].sink IN
  /\ submit[s].at = "sending" /\ Len(sink[r]) < SinkCap
  /\ sink' = [sink EXCEPT ![r] = Append(@, s)]
  /\ submit' = [submit EXCEPT ![s].at = "accepted"]
  /\ UNCHANGED <<started, run, cancelled, go, target, caller, eventSink>>

\* The client's own context is done first.
GiveUp(s) ==
  /\ submit[s].at = "sending"
  /\ submit' = [submit EXCEPT ![s].at = "refused"]
  /\ UNCHANGED <<started, run, cancelled, sink, go, target, caller, eventSink>>

Next ==
  \/ \E c \in Callers : Start(c) \/ StartFails(c) \/ Launch(c) \/ Close(c) \/ WaitDone(c)
  \/ ParentDone
  \/ \E r \in Runs : Evaluate(r) \/ TargetEnds(r) \/ \E k \in Kinds : Begin(r, k) \/ End(r, k)
  \/ \E s \in Clients : Submit(s) \/ Send(s) \/ GiveUp(s)

Spec == Init /\ [][Next]_vars

\* Goroutines and calls under way are scheduled; nobody has to Start or Close.
FairSpec ==
  /\ Spec
  /\ \A c \in Callers : WF_vars(Launch(c)) /\ WF_vars(WaitDone(c))
  /\ \A r \in Runs : WF_vars(Evaluate(r)) /\ \A k \in Kinds : WF_vars(Begin(r, k)) /\ WF_vars(End(r, k))
  /\ \A s \in Clients : WF_vars(Send(s))

-----------------------------------------------------------------------------
\* Runs do not mix: while a run's goroutines live, those of the others are
\* gone, so no rule is pushed by two evaluators, and the event input hands
\* records to the run it belongs to: no leftover of an earlier one took its
\* sink away or put an old one in (Close's wait, engine.go:188; event.go:44).
RunsDoNotMix ==
  /\ \A a, b \in Counted : a[1] = b[1]
  /\ \A r \in Runs : r = run /\ go[r]["event"].st = "running" => eventSink = r

\* Close returns: every goroutine sees its context (engine.go:188).
CloseReturns == \A c \in Callers : caller[c].at = "waiting" ~> caller[c].at # "waiting"

\* What Submit accepted is evaluated, unless the run it went to was cancelled
\* with the record on its way (event.go:53, engine.go:147).
AcceptedIsEvaluated ==
  \A s \in Clients : submit[s].at = "accepted"
    ~> (submit[s].at = "evaluated" \/ submit[s].sink \in cancelled)

\* A record that was accepted and has no outcome yet is in the sink of one run,
\* the one it was sent to, and there once; no other record is in a sink
\* (Submit's send, event.go:53, and the evaluator's receive, eval.go:99).
RecordsAreKept ==
  /\ \A r \in Runs : \A n \in DOMAIN sink[r] :
       submit[sink[r][n]] = [at |-> "accepted", sink |-> r]
  /\ \A r \in Runs : \A m, n \in DOMAIN sink[r] : sink[r][m] = sink[r][n] => m = n
  /\ \A s \in Clients : submit[s].at = "accepted" =>
       submit[s].sink \in Runs /\ \E n \in DOMAIN sink[submit[s].sink] : sink[submit[s].sink][n] = s

\* What became of a record stays: none is evaluated twice, none is evaluated
\* whose Submit returned an error.
OutcomeIsFinal ==
  [][\A s \in Clients : submit[s].at \in {"refused", "evaluated", "failed"} =>
        submit'[s] = submit[s]]_vars
=============================================================================
