----------------------------- MODULE KafkaInput -----------------------------
(***************************************************************************)
(* One topic of the Kafka input.  ReadMessage fetches and commits; only    *)
(* then is the body decoded and offered to the engine's sink, so what is   *)
(* read and not yet in the sink is nobody's.  The sink is a channel the    *)
(* push evaluator drains.                                                  *)
(***************************************************************************)
EXTENDS Naturals, Sequences

CONSTANTS N,         \* the offsets of the topic are 1..N
          Bad,       \* offsets whose body is no JSON object
          SinkCap, MaxFaults

KafkaAssumption == N \in Nat /\ SinkCap \in Nat \ {0} /\ MaxFaults \in Nat

Offsets == 1..N

VARIABLES pos,        \* the last offset this reader fetched
          committed,  \* the consumer group's offset
          held,       \* the message runTopic is offering to the sink, or 0
          sink,       \* the engine's channel
          taken,      \* how often each message went into a sink
          evaluated,  \* the messages the push evaluator has seen, in order
          lost,       \* why a message will not be evaluated
          consumer,   \* "running", "stopped", or "off" when not configured
          faults

vars == <<pos, committed, held, sink, taken, evaluated, lost, consumer, faults>>

SeenMessages(s) == {s[k] : k \in DOMAIN s}

TypeOK ==
  /\ pos \in 0..N /\ committed \in 0..N /\ held \in 0..N
  /\ sink \in Seq(Offsets) /\ Len(sink) <= SinkCap
  /\ taken \in [Offsets -> Nat] /\ evaluated \in Seq(Offsets)
  /\ lost \in [Offsets -> {"", "bad", "uncommitted", "stopped"}]
  /\ consumer \in {"running", "stopped", "off"} /\ faults \in 0..MaxFaults

Init ==
  /\ pos = 0 /\ committed = 0 /\ held = 0 /\ sink = <<>> /\ evaluated = <<>>
  /\ taken = [m \in Offsets |-> 0] /\ lost = [m \in Offsets |-> ""]
  /\ consumer \in {"running", "off"} /\ faults = 0

\* Mutant: the offset is committed when the message is in the sink
\* (FetchMessage and a later CommitMessages).
FetchOnly ==
  /\ consumer = "running" /\ held = 0 /\ pos < N
  /\ pos' = pos + 1
  /\ IF pos + 1 \in Bad THEN held' = 0 /\ lost' = [lost EXCEPT ![pos + 1] = "bad"]
     ELSE held' = pos + 1 /\ UNCHANGED lost
  /\ UNCHANGED <<committed, sink, taken, evaluated, consumer, faults>>

\* A body that does not decode is logged and skipped.
ReadMessage ==
  /\ consumer = "running" /\ held = 0 /\ pos < N
  /\ pos' = pos + 1 /\ committed' = pos + 1
  /\ IF pos + 1 \in Bad THEN held' = 0 /\ lost' = [lost EXCEPT ![pos + 1] = "bad"]
     ELSE held' = pos + 1 /\ UNCHANGED lost
  /\ UNCHANGED <<sink, taken, evaluated, consumer, faults>>

\* ReadMessage fetched, its commit failed or its answer was lost: the error
\* is logged and the loop goes on to the next message.
ReadFails ==
  /\ consumer = "running" /\ held = 0 /\ pos < N /\ faults < MaxFaults
  /\ pos' = pos + 1 /\ committed' \in {committed, pos + 1}
  /\ lost' = [lost EXCEPT ![pos + 1] = "uncommitted"]
  /\ faults' = faults + 1
  /\ UNCHANGED <<held, sink, taken, evaluated, consumer>>

Offer ==
  /\ consumer = "running" /\ held # 0 /\ Len(sink) < SinkCap
  /\ sink' = Append(sink, held) /\ taken' = [taken EXCEPT ![held] = @ + 1]
  /\ held' = 0
  /\ UNCHANGED <<pos, committed, evaluated, lost, consumer, faults>>

Evaluate ==
  /\ consumer = "running" /\ sink # <<>>
  /\ evaluated' = Append(evaluated, Head(sink)) /\ sink' = Tail(sink)
  /\ UNCHANGED <<pos, committed, held, taken, lost, consumer, faults>>

\* The context is cancelled or the process dies: the message in hand and the
\* channel's contents are dropped.
Stop ==
  /\ consumer = "running" /\ faults < MaxFaults /\ faults' = faults + 1
  /\ consumer' = "stopped" /\ held' = 0 /\ sink' = <<>>
  /\ lost' = [m \in Offsets |->
       IF m = held \/ m \in SeenMessages(sink) THEN "stopped" ELSE lost[m]]
  /\ UNCHANGED <<pos, committed, taken, evaluated>>

\* Mutant: a new reader starts at the end of the topic.
RestartAtEnd ==
  /\ consumer = "stopped" /\ consumer' = "running"
  /\ pos' = N
  /\ UNCHANGED <<committed, held, sink, taken, evaluated, lost, faults>>

\* A new reader resumes at the group's offset.
Restart ==
  /\ consumer = "stopped" /\ consumer' = "running"
  /\ pos' = committed
  /\ UNCHANGED <<committed, held, sink, taken, evaluated, lost, faults>>

Next == ReadMessage \/ ReadFails \/ Offer \/ Evaluate \/ Stop \/ Restart

Spec == Init /\ [][Next]_vars

Fairness ==
  /\ WF_vars(ReadMessage) /\ WF_vars(Offer)
  /\ WF_vars(Evaluate) /\ WF_vars(Restart)

FairSpec == Spec /\ Fairness

-----------------------------------------------------------------------------
Handoff == INSTANCE Delivery WITH Messages <- Offsets, owed <- {m \in Offsets : m > committed}

\* The topic is delivered at most once and in order, across lost commits,
\* cancelled sends and restarts (runTopic's order of calls).
KafkaAtMostOnce == Handoff!AtMostOnceInOrder

\* Every message is evaluated in the end, or there is a reason: its body, a
\* failed commit, or a stop that caught it between the commit and the
\* evaluator (kafka.go:180, engine.go:147).
EvaluatedOrLost ==
  \A m \in Offsets :
    <>[](m \in SeenMessages(evaluated) \/ lost[m] # "" \/ consumer = "off")

\* What the reader has passed is evaluated, on its way to the evaluator, or
\* has a reason not to be; and what did not decode or was dropped by a stop is
\* gone, while a message whose commit failed may still come (kafka.go:180).
ReadIsAccountedFor ==
  /\ \A m \in 1..pos :
       m \in SeenMessages(evaluated) \/ lost[m] # "" \/ m = held \/ m \in SeenMessages(sink)
  /\ \A m \in Offsets : lost[m] \in {"bad", "stopped"} => m \notin SeenMessages(evaluated)

\* The evaluator sees the topic's messages in their order, none of them twice,
\* across lost commits, stops and restarts (kafka.go:180, eval.go:99).
EvaluatedInOrder ==
  \A i, j \in DOMAIN evaluated : i < j => evaluated[i] < evaluated[j]
=============================================================================
