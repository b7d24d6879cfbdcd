----------------------------- MODULE QueueInput -----------------------------
(***************************************************************************)
(* One queue of the SQS, RabbitMQ or Pub/Sub input: messages come in       *)
(* batches or up to a prefetch limit, each is offered to the engine's sink *)
(* and settled with the broker only after the sink took it.  What is out   *)
(* and unsettled comes back: after the visibility timeout (SQS), when the  *)
(* connection goes (RabbitMQ), on a Nack or a lost Ack (Pub/Sub).          *)
(***************************************************************************)
EXTENDS Naturals, Sequences, FiniteSets

CONSTANTS Brokers,    \* of "sqs", "rabbitmq" and "pubsub"
          Messages,
          Bad,        \* messages whose body is no JSON object
          Prefetch,   \* MaxNumberOfMessages or PrefetchCount
          SinkCap, MaxFaults,
          MaxDeliveries  \* how often the broker offers one message

ASSUME QueueAssumption ==
  /\ Brokers \subseteq {"sqs", "rabbitmq", "pubsub"}
  /\ Bad \subseteq Messages /\ IsFiniteSet(Messages)
  /\ {Prefetch, SinkCap, MaxDeliveries} \subseteq Nat \ {0} /\ MaxFaults \in Nat

VARIABLES broker,     \* the queue's kind
          status,     \* at the broker: "queued", "out", "settled" or "dead"
          offers,     \* how often the broker handed each message out
          held,       \* messages the input has and has not disposed of
          settling,   \* messages the sink took that are not yet settled
          sink, taken,
          evaluated,  \* the messages the push evaluator has seen
          dropped,    \* messages a stop found in the engine's channel
          consumer,   \* "running", "stopped" by its context, "exited",
                      \* or "off" when not configured
          faults

vars == <<broker, status, offers, held, settling, sink, taken, evaluated, dropped,
          consumer, faults>>

TypeOK ==
  /\ broker \in Brokers
  /\ status \in [Messages -> {"queued", "out", "settled", "dead"}]
  /\ offers \in [Messages -> 0..MaxDeliveries]
  /\ held \subseteq Messages /\ settling \subseteq Messages
  /\ sink \in Seq(Messages) /\ Len(sink) <= SinkCap
  /\ taken \in [Messages -> Nat]
  /\ evaluated \subseteq Messages /\ dropped \subseteq Messages
  /\ consumer \in {"running", "stopped", "exited", "off"} /\ faults \in 0..MaxFaults

Init ==
  /\ broker \in Brokers
  /\ status = [m \in Messages |-> "queued"] /\ offers = [m \in Messages |-> 0]
  /\ held = {} /\ settling = {} /\ sink = <<>> /\ evaluated = {} /\ dropped = {}
  /\ taken = [m \in Messages |-> 0] /\ consumer \in {"running", "off"} /\ faults = 0

Become(S, st) == [m \in Messages |-> IF m \in S THEN st ELSE status[m]]
Fault == faults < MaxFaults /\ faults' = faults + 1

Hand(S) ==
  /\ S # {} /\ \A m \in S : status[m] = "queued" /\ offers[m] < MaxDeliveries
  /\ status' = Become(S, "out")
  /\ offers' = [m \in Messages |-> offers[m] + IF m \in S THEN 1 ELSE 0]
  /\ held' = held \cup S
  /\ UNCHANGED <<broker, settling, sink, taken, evaluated, dropped, consumer, faults>>

\* SQS is polled again when the whole batch is handled and deleted.
ReceiveMessage ==
  /\ broker = "sqs" /\ consumer = "running" /\ held = {} /\ settling = {}
  /\ \E S \in SUBSET Messages : Cardinality(S) <= Prefetch /\ Hand(S)

\* RabbitMQ pushes up to the prefetch count of unacknowledged messages.
Deliver ==
  /\ broker = "rabbitmq" /\ consumer = "running"
  /\ Cardinality({m \in Messages : status[m] = "out"}) < Prefetch
  /\ \E m \in Messages : Hand({m})

\* Pub/Sub calls back for each message, several at a time.
Receive ==
  /\ broker = "pubsub" /\ consumer = "running" /\ Cardinality(held) < Prefetch
  /\ \E m \in Messages \ held : Hand({m})

\* SQS and RabbitMQ handle one message at a time.
Free == broker = "pubsub" \/ settling = {}

\* A body that does not decode: left out by SQS, rejected without requeue by
\* RabbitMQ, nacked by Pub/Sub.
BadMessage(m) ==
  /\ consumer = "running" /\ Free /\ m \in held \cap Bad
  /\ held' = held \ {m}
  /\ status' = CASE broker = "sqs"      -> status
                 [] broker = "rabbitmq" -> Become({m}, "dead")
                 [] broker = "pubsub"   -> Become({m}, "queued")
  /\ UNCHANGED <<broker, offers, settling, sink, taken, evaluated, dropped, consumer, faults>>

\* Mutant: the message is settled while the send still waits.
OfferSettled(m) ==
  /\ consumer = "running" /\ Free /\ m \in held \ Bad
  /\ status' = Become({m}, "settled")
  /\ IF Len(sink) < SinkCap
     THEN held' = held \ {m} /\ sink' = Append(sink, m) /\ taken' = [taken EXCEPT ![m] = @ + 1]
     ELSE UNCHANGED <<broker, held, sink, taken>>
  /\ UNCHANGED <<broker, offers, settling, evaluated, dropped, consumer, faults>>

Offer(m) ==
  /\ consumer = "running" /\ Free /\ m \in held \ Bad /\ Len(sink) < SinkCap
  /\ held' = held \ {m} /\ settling' = settling \cup {m}
  /\ sink' = Append(sink, m) /\ taken' = [taken EXCEPT ![m] = @ + 1]
  /\ UNCHANGED <<broker, status, offers, evaluated, dropped, consumer, faults>>

\* DeleteMessage or Ack.
Settle(m) ==
  /\ m \in settling
  /\ settling' = settling \ {m} /\ status' = Become({m}, "settled")
  /\ UNCHANGED <<broker, offers, held, sink, taken, evaluated, dropped, consumer, faults>>

\* A failed delete is logged and a lost Ack ignored: the message stays out.
SettleFails(m) ==
  /\ m \in settling /\ Fault
  /\ settling' = settling \ {m}
  /\ UNCHANGED <<broker, status, offers, held, sink, taken, evaluated, dropped, consumer>>

\* The visibility timeout or the acknowledgement deadline of a message ends,
\* for SQS also while its batch is still being handled.
Expire(m) ==
  /\ status[m] = "out"
  /\ broker = "sqs" \/ (broker = "pubsub" /\ m \notin held)
  /\ status' = Become({m}, "queued")
  /\ UNCHANGED <<broker, offers, held, settling, sink, taken, evaluated, dropped, consumer, faults>>

Evaluate ==
  /\ consumer \in {"running", "exited"} /\ sink # <<>>
  /\ evaluated' = evaluated \cup {Head(sink)} /\ sink' = Tail(sink)
  /\ UNCHANGED <<broker, status, offers, held, settling, taken, dropped, consumer, faults>>

Unsettled == {m \in Messages : status[m] = "out"}

\* RabbitMQ closes the channel: the loop sees deliveries closed and returns.
\* Pub/Sub: Receive returns an error, which is logged.
ConsumerExits ==
  /\ broker # "sqs" /\ consumer = "running" /\ Fault
  /\ consumer' = "exited" /\ held' = {} /\ settling' = {}
  /\ status' = Become(Unsettled, "queued")
  /\ UNCHANGED <<broker, offers, sink, taken, evaluated, dropped>>

\* The context is cancelled or the process dies; the connection goes with it
\* and the engine's channel is dropped.
Stop ==
  /\ consumer \in {"running", "exited"} /\ Fault
  /\ consumer' = "stopped" /\ held' = {} /\ settling' = {}
  /\ status' = IF broker = "sqs" THEN status ELSE Become(Unsettled, "queued")
  /\ dropped' = dropped \cup {sink[k] : k \in DOMAIN sink} /\ sink' = <<>>
  /\ UNCHANGED <<broker, offers, taken, evaluated>>

Restart ==
  /\ consumer = "stopped" /\ consumer' = "running"
  /\ UNCHANGED <<broker, status, offers, held, settling, sink, taken, evaluated, dropped, faults>>

Next ==
  \/ ReceiveMessage \/ Deliver \/ Receive
  \/ \E m \in Messages : BadMessage(m) \/ Offer(m) \/ Settle(m) \/ SettleFails(m) \/ Expire(m)
  \/ Evaluate \/ ConsumerExits \/ Stop \/ Restart

Spec == Init /\ [][Next]_vars

\* Goroutines and the broker keep going.  A broker that can offer any of its
\* messages does not pass one over for ever.
Fairness ==
  /\ WF_vars(Evaluate) /\ WF_vars(Restart)
  /\ \A m \in Messages :
       /\ SF_vars((ReceiveMessage \/ Deliver \/ Receive) /\ m \in held')
       /\ SF_vars(BadMessage(m) \/ Offer(m)) /\ WF_vars(Settle(m)) /\ WF_vars(Expire(m))

FairSpec == Spec /\ Fairness

-----------------------------------------------------------------------------
Handoff ==
  INSTANCE Delivery WITH owed <- {m \in Messages : status[m] \in {"queued", "out"}}

\* No message is settled before the engine has it, whatever fails: what a
\* stop, a lost acknowledgement or an expiry interrupts comes again.
QueueAtLeastOnce == Handoff!AtLeastOnce

\* A good message the broker no longer owes was evaluated, or is in the
\* channel, or a stop dropped it there: nothing else loses one.
SettledIsAccountedFor ==
  \A m \in Messages \ Bad : status[m] \in {"settled", "dead"} =>
    m \in evaluated \cup dropped \cup {sink[k] : k \in DOMAIN sink}

\* A good message is evaluated in the end, unless a stop dropped it in the
\* channel or the consumer exited for good: a bad message offered again and
\* again, a failed settlement or a restart does not keep it out.
EvaluatedInTheEnd ==
  \A m \in Messages \ Bad :
    <>[](m \in evaluated \cup dropped \/ consumer \in {"exited", "off"})
=============================================================================
