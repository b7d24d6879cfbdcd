------------------------------ MODULE MCInputs ------------------------------
(***************************************************************************)
(* The four stream inputs on small instances, one configured at a time:    *)
(* a Kafka topic, or a queue of one of the three other brokers.            *)
(***************************************************************************)
EXTENDS QueueInput

CONSTANTS N, TopicFaults

VARIABLES pos, committed, lost, kHeld, kSink, kTaken, kEvaluated, kConsumer, kFaults

Topic == INSTANCE KafkaInput WITH
  held <- kHeld, sink <- kSink, taken <- kTaken, evaluated <- kEvaluated,
  consumer <- kConsumer, faults <- kFaults, MaxFaults <- TopicFaults

topicVars ==
  <<pos, committed, lost, kHeld, kSink, kTaken, kEvaluated, kConsumer, kFaults>>

ASSUME TopicAssumption == Topic!KafkaAssumption

InputsInit ==
  /\ Init /\ Topic!Init
  /\ (consumer = "off") # (kConsumer = "off")

InputsNext ==
  \/ Next /\ UNCHANGED topicVars
  \/ Topic!Next /\ UNCHANGED vars

InputsSpec ==
  /\ InputsInit /\ [][InputsNext]_<<vars, topicVars>>
  /\ Fairness /\ Topic!Fairness

\* Every variable of both kinds of input keeps its type.
InputsTypeOK == TypeOK /\ Topic!TypeOK

\* The Kafka input implements at-most-once delivery in order (kafka.go:180).
KafkaAtMostOnce == Topic!KafkaAtMostOnce

\* What the Kafka input does not get evaluated has a reason (kafka.go:180).
EvaluatedOrLost == Topic!EvaluatedOrLost

\* What the reader has passed is evaluated, under way or has a reason, and the
\* evaluator sees the topic in its order (kafka.go:180, eval.go:99).
ReadIsAccountedFor == Topic!ReadIsAccountedFor
EvaluatedInOrder == Topic!EvaluatedInOrder
=============================================================================
