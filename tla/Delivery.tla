------------------------------ MODULE Delivery ------------------------------
(***************************************************************************)
(* What a stream input promises about the messages of one topic or queue,  *)
(* whatever the broker: either a message is settled with the broker only   *)
(* after the engine has it, or the engine gets it only after it is settled *)
(* and then once and in order.  KafkaInput and QueueInput implement these. *)
(***************************************************************************)
EXTENDS Naturals

CONSTANTS Messages, Bad

VARIABLES owed,   \* messages the broker would still deliver
          taken   \* how often the engine got each of them

Init == owed = Messages /\ taken = [m \in Messages |-> 0]

Take(m) == taken' = [taken EXCEPT ![m] = @ + 1] /\ UNCHANGED owed

SettleTaken(m) ==
  /\ taken[m] > 0 \/ m \in Bad
  /\ owed' = owed \ {m} /\ UNCHANGED taken

AtLeastOnce ==
  Init /\ [][\E m \in Messages : Take(m) \/ SettleTaken(m)]_<<owed, taken>>

SettleUpTo(m) == owed' = {k \in owed : k > m} /\ UNCHANGED taken

TakeSettled(m) ==
  /\ m \notin owed
  /\ \A k \in Messages : taken[k] > 0 => k < m
  /\ Take(m)

AtMostOnceInOrder ==
  Init /\ [][\E m \in Messages : TakeSettled(m) \/ SettleUpTo(m)]_<<owed, taken>>
=============================================================================
