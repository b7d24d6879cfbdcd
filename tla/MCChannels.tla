----------------------------- MODULE MCChannels -----------------------------
(***************************************************************************)
(* A small instance of AlertFeed and Channels: two subscriptions, both     *)
(* told of resolutions, one with a dwell and reminders, on one channel of  *)
(* every type, with and without a URL of its own; the eager one has no     *)
(* address, a blank one or its own.  Horizon bounds the clock and the      *)
(* number of messages, which have no bound in AlertFeed.                   *)
(***************************************************************************)
EXTENDS Channels, FiniteSetsExt

CONSTANTS MaxTime, MaxMessages

Patience == [s \in Subs |-> IF s = "patient" THEN 1 ELSE 0]

WantsResolved == [s \in Subs |-> TRUE]

SmallSetups ==
  {[type |-> [c \in Channels |-> type],
    default |-> [c \in Channels |-> default],
    account |-> [c \in Channels |-> default # ""],
    address |-> [s \in Subs |-> [c \in Channels |-> IF s = "eager" THEN a ELSE "own"]]] :
   type \in Types, default \in {"", "shared"}, a \in {"", " ", "own"}}

ASSUME ChannelsAssumption

Horizon ==
  /\ clock <= MaxTime
  /\ MapThenSumSet(LAMBDA f : Len(feed[f[1]][f[2]][f[3]]), Incidents \X Subs \X Channels)
       <= MaxMessages
=============================================================================
