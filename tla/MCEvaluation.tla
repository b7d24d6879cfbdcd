---------------------------- MODULE MCEvaluation ----------------------------
(***************************************************************************)
(* A small instance of Evaluation: rules of four types, one that does not *)
(* compile; records with and without a number, one an expression fails on. *)
(***************************************************************************)
EXTENDS Evaluation

Spec(type, op, value) ==
  [type |-> type, op |-> op, value |-> value, agg |-> "avg", window |-> 1, mode |-> "push"]

RuleIds == {"hot", "custom", "mean", "query", "broken"}

Conditions ==
  [r \in RuleIds |->
     CASE r = "hot" -> Spec("threshold", ">", 1)
       [] r = "custom" -> Spec("expression", "==", 2)
       [] r = "mean" -> Spec("window_aggregate", ">=", 1)
       [] r = "query" -> Spec("sql_returns_rows", "", 1)
       [] r = "broken" -> Spec("threshold", "~", 1)]

Schedules == [r \in RuleIds |-> IF r = "mean" THEN 2 ELSE 1]

SomeRecords == {[num |-> 2, text |-> "plain"], [num |-> Absent, text |-> "odd"]}

\* The rules that are administered meanwhile.
EditedRules == {"hot", "mean"}

ASSUME EvaluationAssumption /\ RecordsAssumption
=============================================================================
