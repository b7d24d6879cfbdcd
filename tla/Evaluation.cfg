CONSTANTS
  Rules <- RuleIds
  Condition <- Conditions
  Schedule <- Schedules
  Edited <- EditedRules
  Records <- SomeRecords
  MaxSpan = 2
  QueueCap = 1
  MaxRecords = 2
  MaxTime = 5
  MaxChanges = 2
  MaxRestarts = 1
SPECIFICATION EvaluationSpec
INVARIANTS
  WindowIsExact
  EachRuleIsTold
PROPERTIES
  OnSchedule
CHECK_DEADLOCK FALSE
