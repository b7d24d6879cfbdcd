CONSTANTS
  Brokers = {"sqs", "rabbitmq", "pubsub"}
  Messages = {1, 2, 3}
  Bad = {2}
  Prefetch = 2
  SinkCap = 1
  MaxFaults = 1
  TopicFaults = 2
  MaxDeliveries = 3
  N = 3
SPECIFICATION InputsSpec
INVARIANTS
  SettledIsAccountedFor
PROPERTIES
  QueueAtLeastOnce
  EvaluatedInTheEnd
  KafkaAtMostOnce
  EvaluatedOrLost
CHECK_DEADLOCK FALSE
