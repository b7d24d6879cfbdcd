-------------------------- MODULE DispatcherClaims --------------------------
(***************************************************************************)
(* The dispatcher against the promises made of it: the abstract feed it    *)
(* implements, and what comments and documents say that the code does not  *)
(* keep, each a property of its own.                                       *)
(***************************************************************************)
EXTENDS Dispatcher

Promise == INSTANCE AlertFeed WITH clock <- clock, born <- born, feed <- feed

\* Without store faults and with one evaluator per rule, what the channels
\* get is a behaviour of AlertFeed.
ImplementsAlertFeed == Promise!FeedSpec

Tolerance == INSTANCE TolerantFeed WITH clock <- clock, born <- born, feed <- feed,
                                        faults <- faults

\* With one evaluator per rule, and whatever store calls fail, it is a
\* behaviour of TolerantFeed: the order of a feed stands, and each early
\* message of a binding has a fault of its own.
ImplementsTolerantFeed == Tolerance!TolerantSpec

\* "A OneShot subscription delivers EXACTLY ONE notification across its
\* lifetime" (dispatcher.go:254).
OneShotExactlyOne ==
  \A s \in Subs, c \in Channels : OneShot[s] => Cardinality(Sent(s, c)) <= 1
=============================================================================
