----------------------------- MODULE InputProofs -----------------------------
(***************************************************************************)
(* The stream inputs keep what they promise about delivery: Kafka hands    *)
(* the messages of a topic over at most once and in order; SQS, RabbitMQ   *)
(* and Pub/Sub settle a message only after the engine has it, and of what  *)
(* is settled only a stop loses any.  For any messages, limits and faults. *)
(***************************************************************************)
EXTENDS MCInputs, TLAPS

(* A Kafka topic. *)

\* The commit trails the reader, nothing is taken past it, and the message
\* being offered is committed and beyond what was taken.
TopicInv ==
  /\ pos \in 0..N /\ committed \in 0..pos /\ kHeld \in 0..committed
  /\ kTaken \in [Topic!Offsets -> Nat]
  /\ \A k \in Topic!Offsets : kTaken[k] > 0 => k <= committed
  /\ kHeld # 0 => \A k \in Topic!Offsets : kTaken[k] > 0 => k < kHeld

\* Every step keeps the order of what is taken, committed and read.
LEMMA TopicInvStep ==
  ASSUME Topic!KafkaAssumption, TopicInv, [Topic!Next]_Topic!vars
  PROVE  TopicInv'
<1> USE DEF TopicInv, Topic!KafkaAssumption, Topic!Offsets
<1>1. CASE Topic!ReadMessage
  BY <1>1 DEF Topic!ReadMessage
<1>2. CASE Topic!ReadFails
  BY <1>2 DEF Topic!ReadFails
<1>3. CASE Topic!Offer
  <2>1. kHeld \in Topic!Offsets /\ kTaken' = [kTaken EXCEPT ![kHeld] = kTaken[kHeld] + 1]
        /\ kHeld' = 0 /\ pos' = pos /\ committed' = committed
    BY <1>3 DEF Topic!Offer
  <2>2. \A k \in Topic!Offsets : kTaken'[k] > 0 => k <= committed
    BY <2>1
  <2>3. QED
    BY <2>1, <2>2
<1>4. CASE Topic!Evaluate
  BY <1>4 DEF Topic!Evaluate
<1>5. CASE Topic!Stop
  BY <1>5 DEF Topic!Stop
<1>6. CASE Topic!Restart
  BY <1>6 DEF Topic!Restart
<1>7. CASE UNCHANGED Topic!vars
  BY <1>7 DEF Topic!vars
<1>8. QED
  BY <1>1, <1>2, <1>3, <1>4, <1>5, <1>6, <1>7 DEF Topic!Next

\* The step of the promise that a step takes, if any.
TopicStep == \E m \in Topic!Offsets : Topic!Handoff!TakeSettled(m) \/ Topic!Handoff!SettleUpTo(m)

\* A read settles the offsets up to its own, an offer takes what is settled,
\* and no other step shows.
LEMMA TopicStepMaps ==
  ASSUME Topic!KafkaAssumption, TopicInv, [Topic!Next]_Topic!vars
  PROVE  \/ TopicStep
         \/ UNCHANGED <<{m \in Topic!Offsets : m > committed}, kTaken>>
<1> USE DEF TopicInv, Topic!KafkaAssumption, Topic!Offsets
<1> DEFINE owed == {m \in Topic!Offsets : m > committed}
<1>1. ASSUME pos < N, committed' = pos + 1, UNCHANGED kTaken
      PROVE  TopicStep
  <2>1. pos + 1 \in Topic!Offsets
    BY <1>1
  <2>2. {m \in Topic!Offsets : m > committed'} = {k \in owed : k > pos + 1}
    BY <1>1
  <2>3. QED
    BY <1>1, <2>1, <2>2 DEF TopicStep, Topic!Handoff!SettleUpTo
<1>2. CASE Topic!ReadMessage
  BY <1>1, <1>2 DEF Topic!ReadMessage
<1>3. CASE Topic!ReadFails
  BY <1>1, <1>3 DEF Topic!ReadFails
<1>4. CASE Topic!Offer
  <2>1. /\ kHeld \in Topic!Offsets /\ kHeld \notin owed /\ UNCHANGED committed
        /\ kTaken' = [kTaken EXCEPT ![kHeld] = kTaken[kHeld] + 1]
        /\ \A k \in Topic!Offsets : kTaken[k] > 0 => k < kHeld
    BY <1>4 DEF Topic!Offer
  <2>2. Topic!Handoff!TakeSettled(kHeld)
    BY <2>1 DEF Topic!Handoff!TakeSettled, Topic!Handoff!Take
  <2>3. QED
    BY <2>1, <2>2 DEF TopicStep
<1>5. CASE Topic!Evaluate \/ Topic!Stop \/ Topic!Restart \/ UNCHANGED Topic!vars
  BY <1>5 DEF Topic!Evaluate, Topic!Stop, Topic!Restart, Topic!vars
<1>6. QED
  BY <1>2, <1>3, <1>4, <1>5 DEF Topic!Next

\* The Kafka input implements delivery at most once and in order, across lost
\* commits, cancelled sends and restarts (kafka.go:180).
THEOREM KafkaDelivers == Topic!Spec => KafkaAtMostOnce
<1>1. Topic!Init => TopicInv /\ Topic!Handoff!Init
  <2> SUFFICES ASSUME Topic!Init PROVE TopicInv /\ Topic!Handoff!Init
    OBVIOUS
  <2>1. pos = 0 /\ committed = 0 /\ kHeld = 0 /\ kTaken = [m \in Topic!Offsets |-> 0]
    BY Zenon DEF Topic!Init
  <2>2. TopicInv
    BY <2>1, TopicAssumption DEF TopicInv, Topic!KafkaAssumption, Topic!Offsets
  <2>3. {m \in Topic!Offsets : m > committed} = Topic!Offsets
    BY <2>1, TopicAssumption DEF Topic!Offsets, Topic!KafkaAssumption
  <2>4. QED
    BY <2>1, <2>2, <2>3 DEF Topic!Handoff!Init
<1>2. TopicInv /\ [Topic!Next]_Topic!vars => TopicInv'
  BY TopicInvStep, TopicAssumption
<1>3. TopicInv /\ [Topic!Next]_Topic!vars =>
        [TopicStep]_<<{m \in Topic!Offsets : m > committed}, kTaken>>
  BY TopicStepMaps, TopicAssumption
<1>4. QED
  BY <1>1, <1>2, <1>3, PTL
  DEF Topic!Spec, KafkaAtMostOnce, Topic!KafkaAtMostOnce, Topic!Handoff!AtMostOnceInOrder, TopicStep

\* What Append makes of a sequence.
LEMMA TopicAppend ==
  ASSUME NEW S, NEW q \in Seq(S), NEW x \in S
  PROVE  /\ Append(q, x) \in Seq(S) /\ Len(q) \in Nat /\ Len(Append(q, x)) = Len(q) + 1
         /\ DOMAIN q = 1..Len(q) /\ DOMAIN Append(q, x) = 1..(Len(q) + 1)
         /\ Append(q, x)[Len(q) + 1] = x
         /\ \A n \in DOMAIN q : Append(q, x)[n] = q[n] /\ q[n] \in S
  OBVIOUS

\* What taking the first leaves.
LEMMA TopicTail ==
  ASSUME NEW S, NEW q \in Seq(S), q # <<>>
  PROVE  /\ Tail(q) \in Seq(S) /\ Len(q) \in Nat \ {0} /\ Len(Tail(q)) = Len(q) - 1
         /\ DOMAIN q = 1..Len(q) /\ DOMAIN Tail(q) = 1..(Len(q) - 1)
         /\ Head(q) = q[1] /\ Head(q) \in S
         /\ \A n \in DOMAIN Tail(q) : Tail(q)[n] = q[n + 1] /\ Tail(q)[n] \in S
         /\ \A n \in DOMAIN q : n # 1 => n - 1 \in DOMAIN Tail(q) /\ Tail(q)[n - 1] = q[n]
         /\ \A y : (\E n \in DOMAIN q : q[n] = y) <=>
                    (y = Head(q) \/ \E n \in DOMAIN Tail(q) : Tail(q)[n] = y)
<1>1. /\ Tail(q) \in Seq(S) /\ Len(q) \in Nat \ {0} /\ Len(Tail(q)) = Len(q) - 1
      /\ DOMAIN q = 1..Len(q) /\ DOMAIN Tail(q) = 1..(Len(q) - 1)
      /\ Head(q) = q[1] /\ Head(q) \in S
  OBVIOUS
<1>2. \A n \in DOMAIN Tail(q) : Tail(q)[n] = q[n + 1] /\ Tail(q)[n] \in S
  OBVIOUS
<1>3. \A n \in DOMAIN q : n # 1 => n - 1 \in DOMAIN Tail(q) /\ Tail(q)[n - 1] = q[n]
  OBVIOUS
<1>4. ASSUME NEW y, NEW n \in DOMAIN q, q[n] = y
      PROVE  y = Head(q) \/ \E k \in DOMAIN Tail(q) : Tail(q)[k] = y
  BY <1>1, <1>3, <1>4
<1>5. ASSUME NEW y, y = Head(q) \/ \E k \in DOMAIN Tail(q) : Tail(q)[k] = y
      PROVE  \E n \in DOMAIN q : q[n] = y
  <2>1. 1 \in DOMAIN q
    BY <1>1
  <2>2. \A k \in DOMAIN Tail(q) : k + 1 \in DOMAIN q
    BY <1>1
  <2>3. QED
    BY <1>1, <1>2, <1>5, <2>1, <2>2
<1>6. QED
  BY <1>1, <1>2, <1>3, <1>4, <1>5

\* A message is among those evaluated, or in the channel.
SeenByEvaluator(m) == \E n \in DOMAIN kEvaluated : kEvaluated[n] = m
InChannel(m) == \E n \in DOMAIN kSink : kSink[n] = m
Ascends(q) == \A i, j \in DOMAIN q : i < j => q[i] < q[j]

\* Why a message is not evaluated; two of the reasons are for good.
NoReason == ""
Reasons == {NoReason, "bad", "uncommitted", "stopped"}
ForGood == {"bad", "stopped"}

ReaderTyped ==
  /\ kEvaluated \in Seq(Topic!Offsets) /\ kSink \in Seq(Topic!Offsets)
  /\ lost \in [Topic!Offsets -> Reasons]

\* What is evaluated comes before what is in the channel, both in the topic's
\* order and both taken.
InTopicOrder ==
  /\ Ascends(kEvaluated) /\ Ascends(kSink)
  /\ \A k \in Topic!Offsets : SeenByEvaluator(k) \/ InChannel(k) => kTaken[k] > 0
  /\ \A k, l \in Topic!Offsets : SeenByEvaluator(k) /\ InChannel(l) => k < l

\* What is gone is committed, so no reader comes back to it.
GoneIsGone ==
  /\ \A m \in 1..pos :
       SeenByEvaluator(m) \/ InChannel(m) \/ m = kHeld \/ lost[m] # NoReason
  /\ \A m \in Topic!Offsets : lost[m] \in ForGood =>
       m <= committed /\ m # kHeld /\ ~SeenByEvaluator(m) /\ ~InChannel(m)

ReaderInv == TopicInv /\ ReaderTyped /\ InTopicOrder /\ GoneIsGone

\* The reasons are not the same.
LEMMA ReasonsDiffer ==
  /\ {"bad", "uncommitted", "stopped"} \subseteq Reasons /\ NoReason \in Reasons
  /\ NoReason \notin {"bad", "uncommitted", "stopped"} /\ NoReason \notin ForGood
  /\ "uncommitted" \notin ForGood /\ "bad" \in ForGood /\ "stopped" \in ForGood
  BY Zenon DEF NoReason, Reasons, ForGood

\* A step that leaves channel and evaluator alone leaves them ordered.
LEMMA OrderStands ==
  ASSUME InTopicOrder, kEvaluated' = kEvaluated, kSink' = kSink, kTaken' = kTaken
  PROVE  /\ InTopicOrder'
         /\ \A m : (SeenByEvaluator(m)' <=> SeenByEvaluator(m)) /\ (InChannel(m)' <=> InChannel(m))
  BY DEF InTopicOrder, SeenByEvaluator, InChannel, Ascends

\* The reader reaches a message that is neither taken nor gone.
LEMMA NextIsFresh ==
  ASSUME Topic!KafkaAssumption, ReaderInv, pos < N
  PROVE  /\ pos \in Nat /\ committed \in Nat /\ pos + 1 \in Topic!Offsets /\ committed <= pos
         /\ ~SeenByEvaluator(pos + 1) /\ ~InChannel(pos + 1)
         /\ lost[pos + 1] \notin ForGood
<1>1. pos \in Nat /\ committed \in Nat /\ pos + 1 \in Topic!Offsets /\ committed <= pos
  BY DEF ReaderInv, TopicInv, Topic!KafkaAssumption, Topic!Offsets
<1>2. ~(pos + 1 <= committed)
  BY <1>1
<1>3. ~(kTaken[pos + 1] > 0)
  BY <1>1, <1>2 DEF ReaderInv, TopicInv
<1>4. QED
  BY <1>1, <1>2, <1>3 DEF ReaderInv, InTopicOrder, GoneIsGone

\* A read passes one message, which is in hand or has its reason.
LEMMA ReadKeepsReader ==
  ASSUME Topic!KafkaAssumption, ReaderInv, Topic!ReadMessage \/ Topic!ReadFails
  PROVE  ReaderTyped' /\ InTopicOrder' /\ GoneIsGone'
<1> DEFINE p == pos + 1
<1>1. /\ pos < N /\ kHeld = 0 /\ pos' = p /\ committed' \in {committed, p}
      /\ kEvaluated' = kEvaluated /\ kSink' = kSink /\ kTaken' = kTaken
  BY DEF Topic!ReadMessage, Topic!ReadFails
<1>2. \/ kHeld' = p /\ lost' = lost
      \/ kHeld' = 0 /\ lost' = [lost EXCEPT ![p] = "uncommitted"]
      \/ kHeld' = 0 /\ lost' = [lost EXCEPT ![p] = "bad"] /\ committed' = p
  BY <1>1 DEF Topic!ReadMessage, Topic!ReadFails
<1>3. /\ pos \in Nat /\ committed \in Nat /\ p \in Topic!Offsets /\ committed <= pos
      /\ ~SeenByEvaluator(p) /\ ~InChannel(p) /\ lost[p] \notin ForGood
  BY <1>1, NextIsFresh
<1>4. lost \in [Topic!Offsets -> Reasons]
  BY DEF ReaderInv, ReaderTyped
<1>5. ReaderTyped'
  BY <1>1, <1>2, <1>3, <1>4, ReasonsDiffer DEF ReaderInv, ReaderTyped
<1>6. /\ InTopicOrder'
      /\ \A m : (SeenByEvaluator(m)' <=> SeenByEvaluator(m)) /\ (InChannel(m)' <=> InChannel(m))
  BY <1>1, OrderStands DEF ReaderInv
<1>7. \A m \in Topic!Offsets : m # p => lost'[m] = lost[m]
  BY <1>2, <1>4
<1>8. p = kHeld' \/ lost'[p] # NoReason
  BY <1>2, <1>3, <1>4, ReasonsDiffer
<1>9. lost'[p] \in ForGood => committed' = p /\ kHeld' = 0
  BY <1>2, <1>3, <1>4, ReasonsDiffer
<1>10. \A m \in Topic!Offsets : m \in Nat /\ m > 0
  BY DEF Topic!Offsets
<1>11. ASSUME NEW m \in 1..pos'
       PROVE  SeenByEvaluator(m)' \/ InChannel(m)' \/ m = kHeld' \/ lost'[m] # NoReason
  <2>1. CASE m = p
    BY <1>8, <2>1
  <2>2. CASE m # p
    <3>1. m \in 1..pos /\ m # 0
      BY <1>1, <1>3, <2>2
    <3>2. m \in Topic!Offsets
      BY <1>1, <1>3, <3>1 DEF Topic!Offsets, Topic!KafkaAssumption
    <3>3. SeenByEvaluator(m) \/ InChannel(m) \/ lost[m] # NoReason
      BY <1>1, <3>1 DEF ReaderInv, GoneIsGone
    <3>4. QED
      BY <1>6, <1>7, <2>2, <3>2, <3>3
  <2>3. QED
    BY <2>1, <2>2
<1>12. ASSUME NEW m \in Topic!Offsets, lost'[m] \in ForGood
       PROVE  m <= committed' /\ m # kHeld' /\ ~SeenByEvaluator(m)' /\ ~InChannel(m)'
  <2>1. CASE m = p
    BY <1>3, <1>6, <1>9, <1>10, <1>12, <2>1
  <2>2. CASE m # p
    <3>1. m <= committed /\ ~SeenByEvaluator(m) /\ ~InChannel(m)
      BY <1>7, <1>12, <2>2 DEF ReaderInv, GoneIsGone
    <3>2. QED
      BY <1>1, <1>2, <1>3, <1>6, <1>10, <2>2, <3>1
  <2>3. QED
    BY <2>1, <2>2
<1>13. GoneIsGone'
  BY <1>11, <1>12 DEF GoneIsGone
<1>14. QED
  BY <1>5, <1>6, <1>13

\* An offer puts the message in hand behind all that were taken.
LEMMA OfferKeepsReader ==
  ASSUME Topic!KafkaAssumption, ReaderInv, Topic!Offer
  PROVE  ReaderTyped' /\ InTopicOrder' /\ GoneIsGone'
<1>1. /\ kHeld # 0 /\ kHeld' = 0 /\ kSink' = Append(kSink, kHeld)
      /\ kTaken' = [kTaken EXCEPT ![kHeld] = kTaken[kHeld] + 1]
      /\ pos' = pos /\ committed' = committed /\ kEvaluated' = kEvaluated /\ lost' = lost
  BY DEF Topic!Offer
<1>2. PICK h \in Topic!Offsets : h = kHeld /\ h <= committed
  BY <1>1 DEF ReaderInv, TopicInv, Topic!Offsets, Topic!KafkaAssumption
<1>3. PICK q \in Seq(Topic!Offsets) : q = kSink
  BY DEF ReaderInv, ReaderTyped
<1>4. PICK r \in Seq(Topic!Offsets) : r = Append(q, h)
  BY TopicAppend
<1>5. kSink' = r
  BY <1>1, <1>2, <1>3, <1>4
<1>6. /\ Len(q) \in Nat /\ DOMAIN q = 1..Len(q) /\ DOMAIN r = 1..(Len(q) + 1) /\ r[Len(q) + 1] = h
      /\ \A n \in DOMAIN q : r[n] = q[n] /\ q[n] \in Topic!Offsets
      /\ \A y : (\E n \in DOMAIN r : r[n] = y) <=> (y = h \/ \E n \in DOMAIN q : q[n] = y)
  <2>1. /\ Len(q) \in Nat /\ DOMAIN q = 1..Len(q) /\ DOMAIN r = 1..(Len(q) + 1) /\ r[Len(q) + 1] = h
        /\ \A n \in DOMAIN q : r[n] = q[n] /\ q[n] \in Topic!Offsets
    BY <1>4, TopicAppend
  <2>2. \A n : n \in DOMAIN r <=> (n \in DOMAIN q \/ n = Len(q) + 1)
    BY <2>1
  <2>3. \A y : (\E n \in DOMAIN r : r[n] = y) <=> (y = h \/ \E n \in DOMAIN q : q[n] = y)
    BY <2>1, <2>2, Zenon
  <2>4. QED
    BY <2>1, <2>3
<1>7. \A m : /\ (SeenByEvaluator(m)' <=> SeenByEvaluator(m))
             /\ (InChannel(m)' <=> (m = h \/ InChannel(m)))
  <2>1. \A m : SeenByEvaluator(m)' <=> SeenByEvaluator(m)
    BY <1>1, Zenon DEF SeenByEvaluator
  <2>2. \A m : InChannel(m)' <=> (m = h \/ InChannel(m))
    BY <1>3, <1>5, <1>6, Zenon DEF InChannel
  <2>3. QED
    BY <2>1, <2>2
<1>8. kTaken \in [Topic!Offsets -> Nat] /\ \A k \in Topic!Offsets : kTaken[k] > 0 => k < h
  BY <1>1, <1>2 DEF ReaderInv, TopicInv
<1>9. \A k \in Topic!Offsets : kTaken'[k] = IF k = h THEN kTaken[k] + 1 ELSE kTaken[k]
  BY <1>1, <1>2, <1>8
<1>10. \A k \in Topic!Offsets : kTaken[k] > 0 => kTaken'[k] > 0
  BY <1>8, <1>9
<1>11. kTaken'[h] > 0
  BY <1>8, <1>9
<1>12. /\ Ascends(kEvaluated) /\ Ascends(q)
       /\ \A k \in Topic!Offsets : SeenByEvaluator(k) \/ InChannel(k) => kTaken[k] > 0
       /\ \A k, l \in Topic!Offsets : SeenByEvaluator(k) /\ InChannel(l) => k < l
  BY <1>3 DEF ReaderInv, InTopicOrder
<1>13. \A n \in DOMAIN q : q[n] < h
  <2>1. \A n \in DOMAIN q : InChannel(q[n])
    BY <1>3 DEF InChannel
  <2>2. QED
    BY <1>6, <1>8, <1>12, <2>1
<1>14. Ascends(r)
  <2> SUFFICES ASSUME NEW i \in DOMAIN r, NEW j \in DOMAIN r, i < j PROVE r[i] < r[j]
    BY DEF Ascends
  <2>1. i \in DOMAIN q
    BY <1>6
  <2>2. CASE j \in DOMAIN q
    BY <1>6, <1>12, <2>1, <2>2 DEF Ascends
  <2>3. CASE j = Len(q) + 1
    BY <1>6, <1>13, <2>1, <2>3
  <2>4. QED
    BY <1>6, <2>2, <2>3
<1>15. \A k \in Topic!Offsets : SeenByEvaluator(k)' \/ InChannel(k)' => kTaken'[k] > 0
  BY <1>7, <1>10, <1>11, <1>12
<1>16. \A k, l \in Topic!Offsets : SeenByEvaluator(k)' /\ InChannel(l)' => k < l
  BY <1>7, <1>8, <1>12
<1>17. Ascends(kEvaluated') /\ Ascends(kSink')
  BY <1>1, <1>5, <1>12, <1>14
<1>18. InTopicOrder'
  BY <1>15, <1>16, <1>17 DEF InTopicOrder, Ascends
<1>19. /\ \A m \in 1..pos : SeenByEvaluator(m) \/ InChannel(m) \/ m = h \/ lost[m] # NoReason
       /\ \A m \in Topic!Offsets : lost[m] \in ForGood =>
            m <= committed /\ m # h /\ ~SeenByEvaluator(m) /\ ~InChannel(m)
  BY <1>2 DEF ReaderInv, GoneIsGone
<1>20. \A m \in Topic!Offsets : m # 0
  BY DEF Topic!Offsets
<1>21. GoneIsGone'
  BY <1>1, <1>7, <1>19, <1>20 DEF GoneIsGone
<1>22. ReaderTyped'
  BY <1>1, <1>5 DEF ReaderInv, ReaderTyped
<1>23. QED
  BY <1>18, <1>21, <1>22

\* The evaluator takes the first of the channel, behind all it has seen.
LEMMA EvaluateKeepsReader ==
  ASSUME Topic!KafkaAssumption, ReaderInv, Topic!Evaluate
  PROVE  ReaderTyped' /\ InTopicOrder' /\ GoneIsGone'
<1>1. /\ kSink # <<>> /\ kEvaluated' = Append(kEvaluated, Head(kSink)) /\ kSink' = Tail(kSink)
      /\ pos' = pos /\ committed' = committed /\ kHeld' = kHeld /\ kTaken' = kTaken /\ lost' = lost
  BY DEF Topic!Evaluate
<1>2. PICK q \in Seq(Topic!Offsets) : q = kSink
  BY DEF ReaderInv, ReaderTyped
<1>3. PICK e \in Seq(Topic!Offsets) : e = kEvaluated
  BY DEF ReaderInv, ReaderTyped
<1>4. q # <<>>
  BY <1>1, <1>2
<1>5. PICK h \in Topic!Offsets : h = Head(q)
  BY <1>4, TopicTail
<1>6. PICK t \in Seq(Topic!Offsets) : t = Tail(q)
  BY <1>4, TopicTail
<1>7. PICK f \in Seq(Topic!Offsets) : f = Append(e, h)
  BY TopicAppend
<1>8. kSink' = t /\ kEvaluated' = f
  BY <1>1, <1>2, <1>3, <1>5, <1>6, <1>7
<1>9. /\ Len(q) \in Nat \ {0} /\ DOMAIN q = 1..Len(q) /\ DOMAIN t = 1..(Len(q) - 1) /\ h = q[1]
      /\ \A n \in DOMAIN t : t[n] = q[n + 1] /\ t[n] \in Topic!Offsets
      /\ \A y : (\E n \in DOMAIN q : q[n] = y) <=> (y = h \/ \E n \in DOMAIN t : t[n] = y)
  <2>1. /\ Len(q) \in Nat \ {0} /\ DOMAIN q = 1..Len(q) /\ DOMAIN t = 1..(Len(q) - 1) /\ h = q[1]
        /\ \A n \in DOMAIN t : t[n] = q[n + 1] /\ t[n] \in Topic!Offsets
    BY <1>4, <1>5, <1>6, TopicTail
  <2>2. \A y : (\E n \in DOMAIN q : q[n] = y) <=>
              (y = Head(q) \/ \E n \in DOMAIN Tail(q) : Tail(q)[n] = y)
    BY <1>4, TopicTail
  <2>3. \A y : (\E n \in DOMAIN q : q[n] = y) <=> (y = h \/ \E n \in DOMAIN t : t[n] = y)
    BY <1>5, <1>6, <2>2, Zenon
  <2>4. QED
    BY <2>1, <2>3
<1>10. /\ Len(e) \in Nat /\ DOMAIN e = 1..Len(e) /\ DOMAIN f = 1..(Len(e) + 1) /\ f[Len(e) + 1] = h
       /\ \A n \in DOMAIN e : f[n] = e[n] /\ e[n] \in Topic!Offsets
       /\ \A y : (\E n \in DOMAIN f : f[n] = y) <=> (y = h \/ \E n \in DOMAIN e : e[n] = y)
  <2>1. /\ Len(e) \in Nat /\ DOMAIN e = 1..Len(e) /\ DOMAIN f = 1..(Len(e) + 1) /\ f[Len(e) + 1] = h
        /\ \A n \in DOMAIN e : f[n] = e[n] /\ e[n] \in Topic!Offsets
    BY <1>7, TopicAppend
  <2>2. \A n : n \in DOMAIN f <=> (n \in DOMAIN e \/ n = Len(e) + 1)
    BY <2>1
  <2>3. \A y : (\E n \in DOMAIN f : f[n] = y) <=> (y = h \/ \E n \in DOMAIN e : e[n] = y)
    BY <2>1, <2>2, Zenon
  <2>4. QED
    BY <2>1, <2>3
<1>11. \A m : /\ (SeenByEvaluator(m)' <=> (m = h \/ SeenByEvaluator(m)))
              /\ (InChannel(m) <=> (m = h \/ InChannel(m)'))
  <2>1. \A m : SeenByEvaluator(m)' <=> (m = h \/ SeenByEvaluator(m))
    BY <1>3, <1>8, <1>10, Zenon DEF SeenByEvaluator
  <2>2. \A m : InChannel(m) <=> (m = h \/ InChannel(m)')
    BY <1>2, <1>8, <1>9, Zenon DEF InChannel
  <2>3. QED
    BY <2>1, <2>2
<1>12. /\ Ascends(e) /\ Ascends(q)
       /\ \A k \in Topic!Offsets : SeenByEvaluator(k) \/ InChannel(k) => kTaken[k] > 0
       /\ \A k, l \in Topic!Offsets : SeenByEvaluator(k) /\ InChannel(l) => k < l
  BY <1>2, <1>3 DEF ReaderInv, InTopicOrder
<1>13. InChannel(h)
  BY <1>11
<1>14. Ascends(f)
  <2> SUFFICES ASSUME NEW i \in DOMAIN f, NEW j \in DOMAIN f, i < j PROVE f[i] < f[j]
    BY DEF Ascends
  <2>1. i \in DOMAIN e
    BY <1>10
  <2>2. CASE j \in DOMAIN e
    BY <1>10, <1>12, <2>1, <2>2 DEF Ascends
  <2>3. CASE j = Len(e) + 1
    <3>1. SeenByEvaluator(e[i]) /\ e[i] \in Topic!Offsets
      BY <1>3, <1>10, <2>1 DEF SeenByEvaluator
    <3>2. QED
      BY <1>10, <1>12, <1>13, <2>1, <2>3, <3>1
  <2>4. QED
    BY <1>10, <2>2, <2>3
<1>15. \A i \in DOMAIN t : i \in Nat /\ i > 0 /\ i + 1 \in DOMAIN q /\ 1 \in DOMAIN q
  BY <1>9
<1>16. Ascends(t)
  <2> SUFFICES ASSUME NEW i \in DOMAIN t, NEW j \in DOMAIN t, i < j PROVE t[i] < t[j]
    BY DEF Ascends
  <2>1. i + 1 \in DOMAIN q /\ j + 1 \in DOMAIN q /\ i + 1 < j + 1
    BY <1>15
  <2>2. q[i + 1] < q[j + 1]
    BY <1>12, <2>1 DEF Ascends
  <2>3. QED
    BY <1>9, <2>2
<1>17. \A l \in Topic!Offsets : InChannel(l)' => h < l
  <2> SUFFICES ASSUME NEW l \in Topic!Offsets, InChannel(l)' PROVE h < l
    OBVIOUS
  <2>1. PICK n \in DOMAIN t : t[n] = l
    BY <1>8 DEF InChannel
  <2>2. n + 1 \in DOMAIN q /\ 1 \in DOMAIN q /\ 1 < n + 1
    BY <1>15
  <2>3. q[1] < q[n + 1]
    BY <1>12, <2>2 DEF Ascends
  <2>4. QED
    BY <1>9, <2>1, <2>3
<1>18. \A k \in Topic!Offsets : SeenByEvaluator(k)' \/ InChannel(k)' => kTaken'[k] > 0
  BY <1>1, <1>11, <1>12
<1>19. \A k, l \in Topic!Offsets : SeenByEvaluator(k)' /\ InChannel(l)' => k < l
  BY <1>11, <1>12, <1>17
<1>20. InTopicOrder'
  BY <1>8, <1>14, <1>16, <1>18, <1>19 DEF InTopicOrder, Ascends
<1>21. /\ \A m \in 1..pos : SeenByEvaluator(m) \/ InChannel(m) \/ m = kHeld \/ lost[m] # NoReason
       /\ \A m \in Topic!Offsets : lost[m] \in ForGood =>
            m <= committed /\ m # kHeld /\ ~SeenByEvaluator(m) /\ ~InChannel(m)
  BY DEF ReaderInv, GoneIsGone
<1>22. GoneIsGone'
  BY <1>1, <1>11, <1>21 DEF GoneIsGone
<1>23. ReaderTyped'
  BY <1>1, <1>8 DEF ReaderInv, ReaderTyped
<1>24. QED
  BY <1>20, <1>22, <1>23

\* A stop leaves the message in hand and the channel's with their reason.
LEMMA StopKeepsReader ==
  ASSUME Topic!KafkaAssumption, ReaderInv, Topic!Stop
  PROVE  ReaderTyped' /\ InTopicOrder' /\ GoneIsGone'
<1>1. /\ kHeld' = 0 /\ kSink' = <<>> /\ pos' = pos /\ committed' = committed
      /\ kTaken' = kTaken /\ kEvaluated' = kEvaluated
  BY DEF Topic!Stop
<1>2. \A m : m \in Topic!SeenMessages(kSink) <=> InChannel(m)
  BY DEF Topic!SeenMessages, InChannel
<1>3. lost' = [m \in Topic!Offsets |->
         IF m = kHeld \/ m \in Topic!SeenMessages(kSink) THEN "stopped" ELSE lost[m]]
  BY DEF Topic!Stop
<1>4. \A m \in Topic!Offsets :
        lost'[m] = IF m = kHeld \/ InChannel(m) THEN "stopped" ELSE lost[m]
  BY <1>2, <1>3
<1>5. \A m : (SeenByEvaluator(m)' <=> SeenByEvaluator(m)) /\ ~InChannel(m)'
  BY <1>1 DEF SeenByEvaluator, InChannel
<1>6. ReaderTyped'
  <2>1. <<>> \in Seq(Topic!Offsets)
    OBVIOUS
  <2>2. lost \in [Topic!Offsets -> Reasons] /\ kEvaluated \in Seq(Topic!Offsets)
    BY DEF ReaderInv, ReaderTyped
  <2>3. lost' \in [Topic!Offsets -> Reasons]
    BY <1>3, <2>2, ReasonsDiffer
  <2>4. QED
    BY <1>1, <2>1, <2>2, <2>3 DEF ReaderTyped
<1>7. Ascends(kEvaluated') /\ Ascends(kSink')
  BY <1>1 DEF ReaderInv, InTopicOrder, Ascends
<1>8. InTopicOrder'
  BY <1>1, <1>5, <1>7 DEF ReaderInv, InTopicOrder, Ascends
<1>9. \A m \in Topic!Offsets : m # 0 /\ m \in Nat
  BY DEF Topic!Offsets
<1>10. 1..pos \subseteq Topic!Offsets
  BY DEF ReaderInv, TopicInv, Topic!Offsets, Topic!KafkaAssumption
<1>11. ASSUME NEW m \in 1..pos'
       PROVE  SeenByEvaluator(m)' \/ InChannel(m)' \/ m = kHeld' \/ lost'[m] # NoReason
  <2>1. m \in 1..pos /\ m \in Topic!Offsets
    BY <1>1, <1>10
  <2>2. SeenByEvaluator(m) \/ InChannel(m) \/ m = kHeld \/ lost[m] # NoReason
    BY <2>1 DEF ReaderInv, GoneIsGone
  <2>3. QED
    BY <1>4, <1>5, <2>1, <2>2, ReasonsDiffer
<1>12. ASSUME NEW m \in Topic!Offsets, lost'[m] \in ForGood
       PROVE  m <= committed' /\ m # kHeld' /\ ~SeenByEvaluator(m)' /\ ~InChannel(m)'
  <2>1. CASE m = kHeld
    <3>1. m <= committed /\ ~(kTaken[m] > 0)
      BY <1>9, <2>1 DEF ReaderInv, TopicInv
    <3>2. ~SeenByEvaluator(m)
      BY <3>1 DEF ReaderInv, InTopicOrder
    <3>3. QED
      BY <1>1, <1>5, <1>9, <3>1, <3>2
  <2>2. CASE InChannel(m)
    <3>1. kTaken[m] > 0
      BY <2>2 DEF ReaderInv, InTopicOrder
    <3>2. m <= committed
      BY <3>1 DEF ReaderInv, TopicInv
    <3>3. ~(m < m)
      BY <1>9
    <3>4. ~SeenByEvaluator(m)
      BY <2>2, <3>3 DEF ReaderInv, InTopicOrder
    <3>5. QED
      BY <1>1, <1>5, <1>9, <3>2, <3>4
  <2>3. CASE m # kHeld /\ ~InChannel(m)
    <3>1. lost[m] \in ForGood
      BY <1>4, <1>12, <2>3
    <3>2. m <= committed /\ ~SeenByEvaluator(m)
      BY <3>1 DEF ReaderInv, GoneIsGone
    <3>3. QED
      BY <1>1, <1>5, <1>9, <3>2
  <2>4. QED
    BY <2>1, <2>2, <2>3
<1>13. GoneIsGone'
  BY <1>11, <1>12 DEF GoneIsGone
<1>14. QED
  BY <1>6, <1>8, <1>13

\* A new reader starts where the group's offset is, behind nothing gone.
LEMMA RestartKeepsReader ==
  ASSUME Topic!KafkaAssumption, ReaderInv, Topic!Restart \/ UNCHANGED Topic!vars
  PROVE  ReaderTyped' /\ InTopicOrder' /\ GoneIsGone'
<1>1. /\ pos' \in {pos, committed} /\ committed' = committed /\ kHeld' = kHeld /\ kSink' = kSink
      /\ kTaken' = kTaken /\ kEvaluated' = kEvaluated /\ lost' = lost
  BY DEF Topic!Restart, Topic!vars
<1>2. /\ InTopicOrder'
      /\ \A m : (SeenByEvaluator(m)' <=> SeenByEvaluator(m)) /\ (InChannel(m)' <=> InChannel(m))
  BY <1>1, OrderStands DEF ReaderInv
<1>3. 1..pos' \subseteq 1..pos
  BY <1>1 DEF ReaderInv, TopicInv, Topic!KafkaAssumption
<1>4. GoneIsGone'
  BY <1>1, <1>2, <1>3 DEF ReaderInv, GoneIsGone
<1>5. ReaderTyped'
  BY <1>1 DEF ReaderInv, ReaderTyped
<1>6. QED
  BY <1>2, <1>4, <1>5

\* No message is read when a reader is new.
LEMMA ReaderInit == ASSUME Topic!KafkaAssumption, Topic!Init PROVE ReaderInv
<1>1. /\ pos = 0 /\ committed = 0 /\ kHeld = 0 /\ kTaken = [m \in Topic!Offsets |-> 0]
      /\ kSink = <<>> /\ kEvaluated = <<>>
  BY Zenon DEF Topic!Init
<1>2. lost = [m \in Topic!Offsets |-> NoReason]
  BY Zenon DEF Topic!Init, NoReason
<1>3. TopicInv
  BY <1>1 DEF TopicInv, Topic!KafkaAssumption, Topic!Offsets
<1>4. ReaderTyped
  BY <1>1, <1>2, ReasonsDiffer DEF ReaderTyped
<1>5. \A m : ~SeenByEvaluator(m) /\ ~InChannel(m)
  BY <1>1 DEF SeenByEvaluator, InChannel
<1>6. InTopicOrder
  BY <1>1, <1>5 DEF InTopicOrder, Ascends
<1>7. \A m \in Topic!Offsets : lost[m] \notin ForGood
  BY <1>2, ReasonsDiffer
<1>8. GoneIsGone
  BY <1>1, <1>5, <1>7 DEF GoneIsGone
<1>9. QED
  BY <1>3, <1>4, <1>6, <1>8 DEF ReaderInv

\* Every step keeps what is read in order and accounted for.
LEMMA ReaderStep ==
  ASSUME Topic!KafkaAssumption, ReaderInv, [Topic!Next]_Topic!vars
  PROVE  ReaderInv'
<1>1. TopicInv'
  BY TopicInvStep DEF ReaderInv
<1>2. ReaderTyped' /\ InTopicOrder' /\ GoneIsGone'
  BY ReadKeepsReader, OfferKeepsReader, EvaluateKeepsReader, StopKeepsReader, RestartKeepsReader
     DEF Topic!Next
<1>3. QED
  BY <1>1, <1>2 DEF ReaderInv

\* What the Kafka reader has passed is evaluated, under way or has a reason,
\* and what is gone for good is not evaluated, for any topic, channel and
\* number of faults (kafka.go:180).
THEOREM ReadIsNotLost == Topic!Spec => []ReadIsAccountedFor
<1>1. ReaderInv => ReadIsAccountedFor
  <2> SUFFICES ASSUME ReaderInv PROVE ReadIsAccountedFor
    OBVIOUS
  <2>1. \A m : /\ m \in Topic!SeenMessages(kEvaluated) <=> SeenByEvaluator(m)
               /\ m \in Topic!SeenMessages(kSink) <=> InChannel(m)
    BY DEF Topic!SeenMessages, SeenByEvaluator, InChannel
  <2>2. \A m \in 1..pos : m \in Topic!SeenMessages(kEvaluated) \/ lost[m] # ""
                           \/ m = kHeld \/ m \in Topic!SeenMessages(kSink)
    BY <2>1, Zenon DEF ReaderInv, GoneIsGone, NoReason
  <2>3. \A m \in Topic!Offsets :
          lost[m] \in {"bad", "stopped"} => m \notin Topic!SeenMessages(kEvaluated)
    BY <2>1, Zenon DEF ReaderInv, GoneIsGone, ForGood
  <2>4. QED
    BY <2>2, <2>3, Zenon DEF ReadIsAccountedFor, Topic!ReadIsAccountedFor
<1>2. QED
  BY <1>1, ReaderInit, ReaderStep, TopicAssumption, PTL DEF Topic!Spec

\* The evaluator sees a topic in its order and no message twice, however often
\* the reader stops and starts anew (kafka.go:180, eval.go:99).
THEOREM TopicSeenInOrder == Topic!Spec => []EvaluatedInOrder
<1>1. ReaderInv => EvaluatedInOrder
  BY DEF ReaderInv, InTopicOrder, Ascends, EvaluatedInOrder, Topic!EvaluatedInOrder
<1>2. QED
  BY <1>1, ReaderInit, ReaderStep, TopicAssumption, PTL DEF Topic!Spec

-----------------------------------------------------------------------------
(* A queue of the other brokers. *)

Owed == {m \in Messages : status[m] \in {"queued", "out"}}

\* What waits to be settled was taken and decodes; a bad message in the hands
\* of Pub/Sub is out, so a Nack does not bring back one that is settled.
SettleInv ==
  /\ status \in [Messages -> {"queued", "out", "settled", "dead"}]
  /\ taken \in [Messages -> Nat]
  /\ \A m \in settling : m \in Messages \ Bad /\ taken[m] > 0
  /\ broker = "pubsub" => \A m \in held \cap Bad : m \in Messages /\ status[m] = "out"

\* The fate of every message when some of them become st.
LEMMA Becomes ==
  ASSUME SettleInv, NEW S \in SUBSET Messages,
         NEW st \in {"queued", "out", "settled", "dead"}, status' = Become(S, st)
  PROVE  /\ status' \in [Messages -> {"queued", "out", "settled", "dead"}]
         /\ \A m \in Messages : status'[m] = IF m \in S THEN st ELSE status[m]
BY DEF SettleInv, Become

\* Handing out, expiring and giving back leave the broker owing the same.
LEMMA OwedStays ==
  ASSUME SettleInv, NEW S \in SUBSET Owed, NEW st \in {"queued", "out"},
         status' = Become(S, st)
  PROVE  Owed' = Owed
<1>1. \A m \in Messages : status'[m] = IF m \in S THEN st ELSE status[m]
  BY Becomes DEF Owed
<1>2. QED
  BY <1>1 DEF Owed

\* Settling and rejecting take one message off what is owed.
LEMMA OwedLess ==
  ASSUME SettleInv, NEW m \in Messages, NEW st \in {"settled", "dead"},
         status' = Become({m}, st)
  PROVE  Owed' = Owed \ {m}
<1>1. \A k \in Messages : status'[k] = IF k = m THEN st ELSE status[k]
  BY Becomes
<1>2. QED
  BY <1>1 DEF Owed

\* Each step keeps the invariant, and is a step of the promise or does not
\* show in it.
HandoffStep == \E m \in Messages : Handoff!Take(m) \/ Handoff!SettleTaken(m)
Maps == HandoffStep \/ (Owed' = Owed /\ taken' = taken)

\* A delivery by any of the three brokers.
LEMMA HandMaps ==
  ASSUME SettleInv, NEW S \in SUBSET Messages, Hand(S)
  PROVE  SettleInv' /\ Maps
<1>1. /\ S \subseteq Owed /\ status' = Become(S, "out") /\ held' = held \cup S
      /\ UNCHANGED <<broker, settling, taken>>
  BY DEF Hand, Owed
<1>2. Owed' = Owed
  BY <1>1, OwedStays
<1>3. /\ status' \in [Messages -> {"queued", "out", "settled", "dead"}]
      /\ \A m \in Messages : status'[m] = IF m \in S THEN "out" ELSE status[m]
  BY <1>1, Becomes
<1>4. QED
  BY <1>1, <1>2, <1>3 DEF SettleInv, Maps

\* A body that does not decode is the only thing rejected untaken.
LEMMA BadMaps ==
  ASSUME QueueAssumption, broker \in Brokers, SettleInv, NEW m \in Messages, BadMessage(m)
  PROVE  SettleInv' /\ Maps
<1>1. m \in Bad /\ m \in held /\ held' = held \ {m} /\ UNCHANGED <<broker, settling, taken>>
  BY DEF BadMessage
<1>2. CASE broker = "sqs"
  <2>1. status' = status
    BY <1>2 DEF BadMessage
  <2>2. QED
    BY <1>1, <1>2, <2>1 DEF SettleInv, Maps, Owed
<1>3. CASE broker = "rabbitmq"
  <2>1. status' = Become({m}, "dead")
    BY <1>3 DEF BadMessage
  <2>2. Owed' = Owed \ {m}
    BY <2>1, OwedLess
  <2>3. HandoffStep
    BY <1>1, <2>2 DEF HandoffStep, Handoff!SettleTaken, Owed
  <2>4. status' \in [Messages -> {"queued", "out", "settled", "dead"}]
    BY <2>1, Becomes
  <2>5. QED
    BY <1>1, <1>3, <2>3, <2>4 DEF SettleInv, Maps
<1>4. CASE broker = "pubsub"
  <2>1. status' = Become({m}, "queued")
    BY <1>4 DEF BadMessage
  <2>2. m \in Owed
    BY <1>1, <1>4 DEF SettleInv, Owed
  <2>3. Owed' = Owed
    BY <2>1, <2>2, OwedStays
  <2>4. /\ status' \in [Messages -> {"queued", "out", "settled", "dead"}]
        /\ \A k \in Messages : status'[k] = IF k = m THEN "queued" ELSE status[k]
    BY <2>1, Becomes
  <2>5. QED
    BY <1>1, <2>3, <2>4 DEF SettleInv, Maps
<1>5. QED
  BY <1>2, <1>3, <1>4 DEF QueueAssumption

\* Offering takes; only what was taken is settled.
LEMMA OfferMaps ==
  ASSUME SettleInv, NEW m \in Messages, Offer(m)
  PROVE  SettleInv' /\ Maps
<1>1. /\ m \notin Bad /\ held' = held \ {m} /\ settling' = settling \cup {m}
      /\ taken' = [taken EXCEPT ![m] = taken[m] + 1] /\ UNCHANGED <<broker, status>>
  BY DEF Offer
<1>2. Owed' = Owed
  BY <1>1 DEF Owed
<1>3. HandoffStep
  BY <1>1, <1>2 DEF HandoffStep, Handoff!Take, Owed
<1>4. QED
  BY <1>1, <1>3 DEF SettleInv, Maps

\* An acknowledgement or a delete that succeeds.
LEMMA SettleMaps ==
  ASSUME SettleInv, NEW m \in Messages, Settle(m)
  PROVE  SettleInv' /\ Maps
<1>1. /\ m \in settling /\ settling' = settling \ {m} /\ status' = Become({m}, "settled")
      /\ UNCHANGED <<broker, held, taken>>
  BY DEF Settle
<1>2. Owed' = Owed \ {m}
  BY <1>1, OwedLess
<1>3. HandoffStep
  BY <1>1, <1>2 DEF HandoffStep, Handoff!SettleTaken, Owed, SettleInv
<1>4. /\ status' \in [Messages -> {"queued", "out", "settled", "dead"}]
      /\ \A k \in Messages : status'[k] = IF k = m THEN "settled" ELSE status[k]
  BY <1>1, Becomes
<1>5. QED
  BY <1>1, <1>3, <1>4 DEF SettleInv, Maps

\* The end of a visibility timeout or of an acknowledgement deadline.
LEMMA ExpireMaps ==
  ASSUME SettleInv, NEW m \in Messages, Expire(m)
  PROVE  SettleInv' /\ Maps
<1>1. /\ m \in Owed
      /\ broker = "pubsub" => m \notin held
      /\ status' = Become({m}, "queued") /\ UNCHANGED <<broker, held, settling, taken>>
  BY DEF Expire, Owed
<1>2. Owed' = Owed
  BY <1>1, OwedStays
<1>3. /\ status' \in [Messages -> {"queued", "out", "settled", "dead"}]
      /\ \A k \in Messages : status'[k] = IF k = m THEN "queued" ELSE status[k]
  BY <1>1, Becomes
<1>4. QED
  BY <1>1, <1>2, <1>3 DEF SettleInv, Maps

\* A consumer that exits or is stopped gives back what is out, or keeps it.
LEMMA EndMaps ==
  ASSUME SettleInv, held' = {}, settling' = {}, UNCHANGED <<broker, taken>>,
         status' = status \/ status' = Become(Unsettled, "queued")
  PROVE  SettleInv' /\ Maps
<1>1. CASE status' = status
  BY <1>1 DEF SettleInv, Maps, Owed
<1>2. CASE status' = Become(Unsettled, "queued")
  <2>1. Unsettled \subseteq Owed
    BY DEF Unsettled, Owed
  <2>2. Owed' = Owed
    BY <1>2, <2>1, OwedStays
  <2>3. status' \in [Messages -> {"queued", "out", "settled", "dead"}]
    BY <1>2, Becomes DEF Unsettled
  <2>4. QED
    BY <2>2, <2>3 DEF SettleInv, Maps
<1>3. QED
  BY <1>1, <1>2

\* Every step of every broker.
LEMMA StepMaps ==
  ASSUME QueueAssumption, broker \in Brokers, SettleInv, [Next]_vars
  PROVE  SettleInv' /\ Maps /\ broker' = broker
<1>1. CASE ReceiveMessage \/ Deliver \/ Receive
  <2>1. PICK S \in SUBSET Messages : Hand(S)
    BY <1>1 DEF ReceiveMessage, Deliver, Receive
  <2>2. QED
    BY <2>1, HandMaps DEF Hand
<1>2. ASSUME NEW m \in Messages,
             BadMessage(m) \/ Offer(m) \/ Settle(m) \/ SettleFails(m) \/ Expire(m)
      PROVE  SettleInv' /\ Maps /\ broker' = broker
  <2>1. CASE SettleFails(m)
    BY <2>1 DEF SettleFails, SettleInv, Maps, Owed
  <2>2. broker' = broker
    BY <1>2 DEF BadMessage, Offer, Settle, SettleFails, Expire
  <2>3. QED
    BY <1>2, <2>1, <2>2, BadMaps, OfferMaps, SettleMaps, ExpireMaps
<1>3. CASE ConsumerExits
  BY <1>3, EndMaps DEF ConsumerExits
<1>4. CASE Stop
  BY <1>4, EndMaps DEF Stop
<1>5. CASE Evaluate \/ Restart \/ UNCHANGED vars
  BY <1>5 DEF Evaluate, Restart, vars, SettleInv, Maps, Owed
<1>6. QED
  BY <1>1, <1>2, <1>3, <1>4, <1>5 DEF Next

\* The SQS, RabbitMQ and Pub/Sub inputs implement delivery at least once,
\* whatever a stop, a lost acknowledgement or an expiry interrupts
\* (sqs.go:173, rabbitmq.go:171, pubsub.go:138).
THEOREM QueueDelivers == Spec => QueueAtLeastOnce
<1> DEFINE QInv == broker \in Brokers /\ SettleInv
<1>1. Init => QInv /\ Handoff!Init
  <2> SUFFICES ASSUME Init PROVE QInv /\ Handoff!Init
    OBVIOUS
  <2>1. /\ broker \in Brokers /\ status = [m \in Messages |-> "queued"]
        /\ held = {} /\ settling = {} /\ taken = [m \in Messages |-> 0]
    BY DEF Init
  <2>2. Owed = Messages
    BY <2>1 DEF Owed
  <2>3. QED
    BY <2>1, <2>2 DEF SettleInv, Handoff!Init, Owed
<1>2. QInv /\ [Next]_vars => QInv'
  BY StepMaps, QueueAssumption
<1>3. QInv /\ [Next]_vars =>
        [\E m \in Messages : Handoff!Take(m) \/ Handoff!SettleTaken(m)]_<<Owed, taken>>
  BY StepMaps, QueueAssumption DEF Maps, HandoffStep
<1>4. QED
  BY <1>1, <1>2, <1>3, PTL DEF Spec, QueueAtLeastOnce, Handoff!AtLeastOnce, Owed

\* A good message is owed by the broker or was taken; and what was taken is
\* evaluated, or in the channel, or a stop dropped it there.
OwedOrTaken == \A m \in Messages \ Bad : m \in Owed \/ taken[m] > 0

InSink == {sink[k] : k \in DOMAIN sink}

TakenIsSomewhere ==
  /\ sink \in Seq(Messages)
  /\ \A m \in Messages : taken[m] > 0 => m \in evaluated \cup dropped \cup InSink

LossInv == SettleInv /\ OwedOrTaken /\ TakenIsSomewhere

\* Only taking and settling what is taken or bad touch the promise, so no
\* good message leaves the broker untaken.
LEMMA OwedOrTakenStep ==
  ASSUME SettleInv, OwedOrTaken, Maps
  PROVE  OwedOrTaken'
<1>1. ASSUME NEW m \in Messages, Handoff!Take(m) PROVE OwedOrTaken'
  <2>1. taken' = [taken EXCEPT ![m] = taken[m] + 1] /\ Owed' = Owed
    BY <1>1 DEF Handoff!Take, Owed
  <2>2. QED
    BY <2>1 DEF OwedOrTaken, SettleInv
<1>2. ASSUME NEW m \in Messages, Handoff!SettleTaken(m) PROVE OwedOrTaken'
  <2>1. taken' = taken /\ Owed' = Owed \ {m} /\ (taken[m] > 0 \/ m \in Bad)
    BY <1>2 DEF Handoff!SettleTaken, Owed
  <2>2. QED
    BY <2>1 DEF OwedOrTaken
<1>3. CASE Owed' = Owed /\ taken' = taken
  BY <1>3 DEF OwedOrTaken
<1>4. QED
  BY <1>1, <1>2, <1>3 DEF Maps, HandoffStep

\* A message that joins the channel is in it, with all that were.
LEMMA Joins ==
  ASSUME NEW s \in Seq(Messages), NEW m \in Messages
  PROVE  /\ Append(s, m) \in Seq(Messages)
         /\ \A x : x \in {Append(s, m)[k] : k \in DOMAIN Append(s, m)}
                   <=> x = m \/ x \in {s[k] : k \in DOMAIN s}
<1>1. /\ Append(s, m) \in Seq(Messages) /\ Len(Append(s, m)) = Len(s) + 1
      /\ Append(s, m)[Len(s) + 1] = m /\ \A k \in 1..Len(s) : Append(s, m)[k] = s[k]
  OBVIOUS
<1>2. DOMAIN Append(s, m) = 1..(Len(s) + 1) /\ DOMAIN s = 1..Len(s) /\ Len(s) \in Nat
  BY <1>1
<1>3. \A x : x \in {Append(s, m)[k] : k \in 1..(Len(s) + 1)}
             <=> x = m \/ x \in {s[k] : k \in 1..Len(s)}
  BY <1>1, <1>2
<1>4. QED
  BY <1>1, <1>2, <1>3

\* The first message of the channel leaves it, and no other does.
LEMMA Leaves ==
  ASSUME NEW s \in Seq(Messages), s # <<>>
  PROVE  /\ Tail(s) \in Seq(Messages)
         /\ \A x : x \in {s[k] : k \in DOMAIN s}
                   => x = Head(s) \/ x \in {Tail(s)[k] : k \in DOMAIN Tail(s)}
<1>1. /\ Tail(s) \in Seq(Messages) /\ Len(Tail(s)) = Len(s) - 1 /\ Head(s) = s[1]
      /\ \A k \in 1..(Len(s) - 1) : Tail(s)[k] = s[k + 1]
  OBVIOUS
<1>2. DOMAIN Tail(s) = 1..(Len(s) - 1) /\ DOMAIN s = 1..Len(s) /\ Len(s) \in Nat
  BY <1>1
<1>3. ASSUME NEW j \in 1..Len(s), j # 1
      PROVE  j - 1 \in 1..(Len(s) - 1) /\ s[j] = Tail(s)[j - 1]
  BY <1>1, <1>2, <1>3
<1>4. \A x : x \in {s[k] : k \in 1..Len(s)}
             => x = s[1] \/ x \in {Tail(s)[k] : k \in 1..(Len(s) - 1)}
  BY <1>2, <1>3
<1>5. QED
  BY <1>1, <1>2, <1>4

\* The evaluator and a stop empty the channel, into what they have seen or
\* dropped; only an offer fills it.
LEMMA TakenIsSomewhereStep ==
  ASSUME SettleInv, TakenIsSomewhere, [Next]_vars
  PROVE  TakenIsSomewhere'
<1>1. CASE UNCHANGED <<sink, taken, evaluated, dropped>>
  BY <1>1 DEF TakenIsSomewhere, InSink
<1>2. CASE ReceiveMessage \/ Deliver \/ Receive \/ ConsumerExits \/ Restart \/ UNCHANGED vars
  BY <1>1, <1>2 DEF ReceiveMessage, Deliver, Receive, Hand, ConsumerExits, Restart, vars
<1>3. ASSUME NEW m \in Messages, BadMessage(m) \/ Settle(m) \/ SettleFails(m) \/ Expire(m)
      PROVE  TakenIsSomewhere'
  BY <1>1, <1>3 DEF BadMessage, Settle, SettleFails, Expire
<1>4. ASSUME NEW m \in Messages, Offer(m) PROVE TakenIsSomewhere'
  <2>1. /\ sink' = Append(sink, m) /\ taken' = [taken EXCEPT ![m] = taken[m] + 1]
        /\ UNCHANGED <<evaluated, dropped>> /\ sink \in Seq(Messages)
    BY <1>4 DEF Offer, TakenIsSomewhere
  <2>2. sink' \in Seq(Messages) /\ \A x : x \in InSink' <=> x = m \/ x \in InSink
    BY <2>1, Joins DEF InSink
  <2>3. ASSUME NEW k \in Messages, taken'[k] > 0
        PROVE  k \in (evaluated \cup dropped \cup InSink)'
    BY <2>1, <2>2, <2>3 DEF TakenIsSomewhere, SettleInv
  <2>4. QED
    BY <2>2, <2>3 DEF TakenIsSomewhere
<1>5. CASE Evaluate
  <2>1. /\ evaluated' = evaluated \cup {Head(sink)} /\ sink' = Tail(sink) /\ sink # <<>>
        /\ UNCHANGED <<taken, dropped>> /\ sink \in Seq(Messages)
    BY <1>5 DEF Evaluate, TakenIsSomewhere
  <2>2. sink' \in Seq(Messages) /\ \A x \in InSink : x = Head(sink) \/ x \in InSink'
    BY <2>1, Leaves DEF InSink
  <2>3. QED
    BY <2>1, <2>2 DEF TakenIsSomewhere
<1>6. CASE Stop
  <2>1. dropped' = dropped \cup InSink /\ sink' = <<>> /\ UNCHANGED <<taken, evaluated>>
    BY <1>6 DEF Stop, InSink
  <2>2. QED
    BY <2>1 DEF TakenIsSomewhere
<1>7. QED
  BY <1>2, <1>3, <1>4, <1>5, <1>6 DEF Next

\* A good message the broker no longer owes was evaluated, or is in the
\* channel, or a stop dropped it there: no failed settlement, expiry or
\* redelivery loses one (sqs.go:173, rabbitmq.go:171, pubsub.go:138).
THEOREM SettledIsNotLost == Spec => []SettledIsAccountedFor
<1> DEFINE QInv == broker \in Brokers /\ LossInv
<1>1. Init => QInv
  <2> SUFFICES ASSUME Init PROVE QInv
    OBVIOUS
  <2>1. /\ broker \in Brokers /\ status = [m \in Messages |-> "queued"]
        /\ held = {} /\ settling = {} /\ taken = [m \in Messages |-> 0] /\ sink = <<>>
    BY DEF Init
  <2>2. Owed = Messages
    BY <2>1 DEF Owed
  <2>3. QED
    BY <2>1, <2>2 DEF LossInv, SettleInv, OwedOrTaken, TakenIsSomewhere
<1>2. QInv /\ [Next]_vars => QInv'
  BY StepMaps, OwedOrTakenStep, TakenIsSomewhereStep, QueueAssumption DEF LossInv
<1>3. QInv => SettledIsAccountedFor
  BY DEF LossInv, SettleInv, OwedOrTaken, TakenIsSomewhere, InSink, Owed, SettledIsAccountedFor
<1>4. QED
  BY <1>1, <1>2, <1>3, PTL DEF Spec

-----------------------------------------------------------------------------
(* The types of both kinds of input. *)

\* Handing some messages out counts one more delivery for each.
LEMMA HandKeepsTypes ==
  ASSUME QueueAssumption, TypeOK, NEW S \in SUBSET Messages, Hand(S)
  PROVE  TypeOK'
<1>1. /\ \A m \in S : offers[m] < MaxDeliveries
      /\ status' = Become(S, "out")
      /\ offers' = [m \in Messages |-> offers[m] + IF m \in S THEN 1 ELSE 0]
      /\ held' = held \cup S
      /\ UNCHANGED <<broker, settling, sink, taken, evaluated, dropped, consumer, faults>>
  BY DEF Hand
<1>2. status' \in [Messages -> {"queued", "out", "settled", "dead"}]
  BY <1>1 DEF TypeOK, Become
<1>3. offers' \in [Messages -> 0..MaxDeliveries]
  BY <1>1 DEF TypeOK, QueueAssumption
<1>4. QED
  BY <1>1, <1>2, <1>3 DEF TypeOK

\* What happens to the messages in hand.
LEMMA MessageKeepsTypes ==
  ASSUME QueueAssumption, TypeOK, NEW m \in Messages,
         BadMessage(m) \/ Settle(m) \/ SettleFails(m) \/ Expire(m)
  PROVE  TypeOK'
<1>1. /\ offers' = offers /\ sink' = sink /\ taken' = taken /\ evaluated' = evaluated
      /\ dropped' = dropped /\ consumer' = consumer /\ broker' = broker
      /\ held' \subseteq held /\ settling' \subseteq settling
  BY DEF BadMessage, Settle, SettleFails, Expire
<1>2. \A st \in {"queued", "out", "settled", "dead"} :
        Become({m}, st) \in [Messages -> {"queued", "out", "settled", "dead"}]
  BY DEF Become, TypeOK
<1>3. \/ status' = status
      \/ \E st \in {"queued", "out", "settled", "dead"} : status' = Become({m}, st)
  <2>1. broker \in {"sqs", "rabbitmq", "pubsub"}
    BY DEF TypeOK, QueueAssumption
  <2>2. QED
    BY <2>1 DEF BadMessage, Settle, SettleFails, Expire
<1>4. status' \in [Messages -> {"queued", "out", "settled", "dead"}]
  BY <1>2, <1>3 DEF TypeOK
<1>5. faults' \in 0..MaxFaults
  BY DEF BadMessage, Settle, SettleFails, Expire, Fault, TypeOK, QueueAssumption
<1>6. QED
  BY <1>1, <1>4, <1>5 DEF TypeOK

\* The channel never holds more than its capacity.
LEMMA OfferKeepsTypes ==
  ASSUME QueueAssumption, TypeOK, NEW m \in Messages, Offer(m)
  PROVE  TypeOK'
<1>1. /\ Len(sink) < SinkCap /\ held' = held \ {m} /\ settling' = settling \cup {m}
      /\ sink' = Append(sink, m) /\ taken' = [taken EXCEPT ![m] = taken[m] + 1]
      /\ UNCHANGED <<broker, status, offers, evaluated, dropped, consumer, faults>>
  BY DEF Offer
<1>2. PICK q \in Seq(Messages) : q = sink
  BY DEF TypeOK
<1>3. Append(q, m) \in Seq(Messages) /\ Len(q) \in Nat /\ Len(Append(q, m)) = Len(q) + 1
  BY TopicAppend
<1>4. SinkCap \in Nat
  BY DEF QueueAssumption
<1>5. sink' \in Seq(Messages) /\ Len(sink') <= SinkCap
  BY <1>1, <1>2, <1>3, <1>4
<1>6. taken' \in [Messages -> Nat]
  BY <1>1 DEF TypeOK
<1>7. QED
  BY <1>1, <1>5, <1>6 DEF TypeOK

\* What leaves the channel is one of its messages.
LEMMA DrainKeepsTypes ==
  ASSUME QueueAssumption, TypeOK, Evaluate \/ ConsumerExits \/ Stop \/ Restart
  PROVE  TypeOK'
<1>1. offers' = offers /\ taken' = taken /\ broker' = broker
      /\ held' \subseteq held /\ settling' \subseteq settling
  BY DEF Evaluate, ConsumerExits, Stop, Restart
<1>2. PICK q \in Seq(Messages) : q = sink
  BY DEF TypeOK
<1>3. /\ Len(q) <= SinkCap /\ SinkCap \in Nat /\ Len(q) \in Nat
  BY <1>2 DEF TypeOK, QueueAssumption
<1>4. sink' \in Seq(Messages) /\ Len(sink') <= SinkCap
  <2>1. CASE sink' = sink
    BY <1>2, <1>3, <2>1
  <2>2. CASE sink' = <<>>
    <3>1. <<>> \in Seq(Messages) /\ Len(<<>>) = 0
      OBVIOUS
    <3>2. QED
      BY <1>3, <2>2, <3>1
  <2>3. CASE sink # <<>> /\ sink' = Tail(sink)
    <3>1. Tail(q) \in Seq(Messages) /\ Len(Tail(q)) = Len(q) - 1
      BY <1>2, <2>3, TopicTail
    <3>2. QED
      BY <1>2, <1>3, <2>3, <3>1
  <2>4. QED
    BY <2>1, <2>2, <2>3 DEF Evaluate, ConsumerExits, Stop, Restart
<1>5. {q[k] : k \in DOMAIN q} \subseteq Messages
  OBVIOUS
<1>6. evaluated' \subseteq Messages /\ dropped' \subseteq Messages
  <2>1. q # <<>> => Head(q) \in Messages
    BY TopicTail
  <2>2. CASE Evaluate
    BY <1>2, <2>1, <2>2 DEF Evaluate, TypeOK
  <2>3. CASE Stop
    BY <1>2, <1>5, <2>3 DEF Stop, TypeOK
  <2>4. CASE ConsumerExits \/ Restart
    BY <2>4 DEF ConsumerExits, Restart, TypeOK
  <2>5. QED
    BY <2>2, <2>3, <2>4
<1>7. status' \in [Messages -> {"queued", "out", "settled", "dead"}]
  BY DEF Evaluate, ConsumerExits, Stop, Restart, Become, TypeOK
<1>8. faults' \in 0..MaxFaults
  BY DEF Evaluate, ConsumerExits, Stop, Restart, Fault, TypeOK, QueueAssumption
<1>9. consumer' \in {"running", "stopped", "exited", "off"}
  BY DEF Evaluate, ConsumerExits, Stop, Restart, TypeOK
<1>10. QED
  BY <1>1, <1>4, <1>6, <1>7, <1>8, <1>9 DEF TypeOK

\* Every step of a queue keeps the types.
LEMMA QueueTypes ==
  ASSUME TypeOK, [Next]_vars
  PROVE  TypeOK'
<1>1. CASE ReceiveMessage \/ Deliver \/ Receive
  <2>1. PICK S \in SUBSET Messages : Hand(S)
    BY <1>1 DEF ReceiveMessage, Deliver, Receive
  <2>2. QED
    BY <2>1, HandKeepsTypes, QueueAssumption
<1>2. CASE UNCHANGED vars
  BY <1>2 DEF vars, TypeOK
<1>3. QED
  BY <1>1, <1>2, MessageKeepsTypes, OfferKeepsTypes, DrainKeepsTypes, QueueAssumption DEF Next

\* The topic's channel, consumer and count of faults.
TopicBounds ==
  Len(kSink) <= SinkCap /\ kConsumer \in {"running", "stopped", "off"} /\ kFaults \in 0..TopicFaults

\* Every step keeps the topic within its bounds.
LEMMA TopicBoundsStep ==
  ASSUME Topic!KafkaAssumption, ReaderInv, TopicBounds, [Topic!Next]_Topic!vars
  PROVE  TopicBounds'
<1>1. PICK q \in Seq(Topic!Offsets) : q = kSink
  BY DEF ReaderInv, ReaderTyped
<1>2. Len(q) \in Nat /\ Len(q) <= SinkCap /\ SinkCap \in Nat
  BY <1>1 DEF TopicBounds, Topic!KafkaAssumption
<1>3. CASE Topic!Offer
  <2>1. PICK h \in Topic!Offsets : h = kHeld
    BY <1>3 DEF Topic!Offer, ReaderInv, TopicInv, Topic!Offsets, Topic!KafkaAssumption
  <2>2. /\ Len(q) < SinkCap /\ kSink' = Append(q, h)
        /\ kConsumer' = kConsumer /\ kFaults' = kFaults
    BY <1>1, <1>3, <2>1 DEF Topic!Offer
  <2>3. Len(Append(q, h)) = Len(q) + 1
    BY TopicAppend
  <2>4. QED
    BY <1>2, <2>2, <2>3 DEF TopicBounds
<1>4. CASE Topic!Evaluate
  <2>1. /\ q # <<>> /\ kSink' = Tail(q) /\ kConsumer' = kConsumer /\ kFaults' = kFaults
    BY <1>1, <1>4 DEF Topic!Evaluate
  <2>2. Len(Tail(q)) = Len(q) - 1
    BY <2>1, TopicTail
  <2>3. QED
    BY <1>2, <2>1, <2>2 DEF TopicBounds
<1>5. CASE Topic!Stop
  <2>1. /\ kSink' = <<>> /\ kConsumer' = "stopped" /\ kFaults < TopicFaults /\ kFaults' = kFaults + 1
    BY <1>5 DEF Topic!Stop
  <2>2. Len(<<>>) = 0
    OBVIOUS
  <2>3. QED
    BY <1>2, <2>1, <2>2 DEF TopicBounds, Topic!KafkaAssumption
<1>6. CASE Topic!ReadMessage \/ Topic!Restart \/ UNCHANGED Topic!vars
  BY <1>6 DEF Topic!ReadMessage, Topic!Restart, Topic!vars, TopicBounds
<1>7. CASE Topic!ReadFails
  <2>1. kSink' = kSink /\ kConsumer' = kConsumer /\ kFaults < TopicFaults /\ kFaults' = kFaults + 1
    BY <1>7 DEF Topic!ReadFails
  <2>2. QED
    BY <2>1 DEF TopicBounds, Topic!KafkaAssumption
<1>8. QED
  BY <1>3, <1>4, <1>5, <1>6, <1>7 DEF Topic!Next

\* What is known of the reader types the topic.
LEMMA ReaderIsTyped == ASSUME Topic!KafkaAssumption, ReaderInv, TopicBounds PROVE Topic!TypeOK
<1>1. /\ pos \in 0..N /\ committed \in 0..N /\ kHeld \in 0..N
      /\ kTaken \in [Topic!Offsets -> Nat]
  BY DEF ReaderInv, TopicInv, Topic!KafkaAssumption
<1>2. lost \in [Topic!Offsets -> {"", "bad", "uncommitted", "stopped"}]
  BY Zenon DEF ReaderInv, ReaderTyped, Reasons, NoReason
<1>3. kSink \in Seq(Topic!Offsets) /\ kEvaluated \in Seq(Topic!Offsets)
  BY DEF ReaderInv, ReaderTyped
<1>4. QED
  BY <1>1, <1>2, <1>3, Zenon DEF Topic!TypeOK, TopicBounds

\* Every variable of the four inputs keeps its type: no channel is overfull, no
\* message is delivered more often than the broker delivers one (the bounds of
\* engine.go:147's sink and of the brokers' settings).
THEOREM InputsTypeCorrect == InputsSpec => []InputsTypeOK
<1> DEFINE TInv == ReaderInv /\ TopicBounds
<1>1. InputsInit => TypeOK /\ TInv
  <2> SUFFICES ASSUME InputsInit PROVE TypeOK /\ TInv
    OBVIOUS
  <2>1. Init /\ Topic!Init
    BY DEF InputsInit
  <2>2. /\ kSink = <<>> /\ kConsumer \in {"running", "off"} /\ kFaults = 0
    BY <2>1, Zenon DEF Topic!Init
  <2>3. Len(<<>>) = 0 /\ <<>> \in Seq(Messages)
    OBVIOUS
  <2>4. TopicBounds
    BY <2>2, <2>3, TopicAssumption DEF TopicBounds, Topic!KafkaAssumption
  <2>5. ReaderInv
    BY <2>1, ReaderInit, TopicAssumption
  <2>6. TypeOK
    BY <2>1, <2>3, QueueAssumption DEF Init, TypeOK, QueueAssumption
  <2>7. QED
    BY <2>4, <2>5, <2>6
<1>2. TypeOK /\ TInv /\ [InputsNext]_<<vars, topicVars>> => (TypeOK /\ TInv)'
  <2> SUFFICES ASSUME TypeOK, TInv, [InputsNext]_<<vars, topicVars>> PROVE (TypeOK /\ TInv)'
    OBVIOUS
  <2>1. [Next]_vars /\ (Topic!Next \/ UNCHANGED topicVars)
    BY DEF InputsNext
  <2>2. UNCHANGED topicVars => UNCHANGED Topic!vars
    BY DEF topicVars, Topic!vars
  <2>3. [Topic!Next]_Topic!vars
    BY <2>1, <2>2
  <2>4. TypeOK'
    BY <2>1, QueueTypes
  <2>5. ReaderInv' /\ TopicBounds'
    BY <2>3, ReaderStep, TopicBoundsStep, TopicAssumption
  <2>6. QED
    BY <2>4, <2>5
<1>3. TypeOK /\ TInv => InputsTypeOK
  BY ReaderIsTyped, TopicAssumption DEF InputsTypeOK
<1>4. QED
  BY <1>1, <1>2, <1>3, PTL DEF InputsSpec
=============================================================================
