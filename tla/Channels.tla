------------------------------ MODULE Channels ------------------------------
(***************************************************************************)
(* The channels behind the feeds of AlertFeed: what the Send of each type  *)
(* does with a message and what becomes of it at the provider.  An answer  *)
(* may get lost after the provider took the message, and PagerDuty folds   *)
(* all messages about an incident into one page of its service.            *)
(***************************************************************************)
EXTENDS AlertFeed, FiniteSets

\* The configurations to consider: for each channel its type, its URL or
\* routing key ("" for none) and whether an SMS channel has its account and
\* sender; for each binding its address, "" for none and " " for a blank one.
CONSTANT Setups

Types == {"webhook", "slack", "teams", "discord", "pagerduty", "sms", "smtp"}

ChannelsAssumption ==
  Setups \subseteq [type : [Channels -> Types],
                    default : [Channels -> {"", "shared"}],
                    account : [Channels -> BOOLEAN],
                    address : [Subs -> [Channels -> {"", " ", "own"}]]]

ASSUME FiniteAssumption == IsFiniteSet(Subs) /\ IsFiniteSet(Channels)

VARIABLES setup,  \* the configuration the process started with
          taken,  \* the messages of a feed the provider took, by position
          open,   \* PagerDuty's open pages: <<service, dedup key>>
          opened  \* how often a page about an incident was opened

channelVars == <<setup, taken, open, opened>>

ChannelsInit ==
  /\ FeedInit
  /\ setup \in Setups
  /\ taken = [i \in Incidents |-> [s \in Subs |-> [c \in Channels |-> {}]]]
  /\ open = {} /\ opened = [i \in Incidents |-> 0]

Trimmed(address) == IF address = " " THEN "" ELSE address

Or(address, default) == IF address # "" THEN address ELSE default

\* Where Send addresses a message, "" when it refuses to try.  A binding's
\* own address goes first; Teams, Discord and PagerDuty ignore a blank one.
WebhookTo(address, c) == Or(address, setup.default[c])
SlackTo(address, c) == Or(address, setup.default[c])
TeamsTo(address, c) == Or(Trimmed(address), setup.default[c])
DiscordTo(address, c) == Or(Trimmed(address), setup.default[c])
PagerDutyTo(address, c) == Or(Trimmed(address), setup.default[c])
SMSTo(address, c) == IF setup.account[c] THEN Trimmed(address) ELSE ""
SMTPTo(address, c) == address

To(address, c) ==
  CASE setup.type[c] = "webhook"   -> WebhookTo(address, c)
    [] setup.type[c] = "slack"     -> SlackTo(address, c)
    [] setup.type[c] = "teams"     -> TeamsTo(address, c)
    [] setup.type[c] = "discord"   -> DiscordTo(address, c)
    [] setup.type[c] = "pagerduty" -> PagerDutyTo(address, c)
    [] setup.type[c] = "sms"       -> SMSTo(address, c)
    [] setup.type[c] = "smtp"      -> SMTPTo(address, c)

Destination(s, c) == To(setup.address[s][c], c)

\* What a try comes to: accepted and answered with 2xx, or with SMTP's reply
\* to the data; refused; not taken at all; taken, but the answer is lost.
Outcomes == {"accepted", "refused", "unreached", "unanswered"}

\* What Send returns.
Succeeds(outcome) == outcome = "accepted"

EventAction(kind) == IF kind = "resolved" THEN "resolve" ELSE "trigger"

\* Mutant: the key is the rule's, which several incidents share.
DedupKeyOfRule(i) == CHOOSE j \in Incidents : TRUE

\* Mutant: an event has a key of its own instead of its incident's.
DedupKeyOfEvent(i) == <<i, opened[i]>>

DedupKey(i) == i

\* PagerDuty opens or refreshes the page of the key, or closes it.
Paged(page, i, kind) ==
  IF EventAction(kind) = "trigger"
  THEN /\ open' = open \cup {page}
       /\ opened' = IF page \in open THEN opened ELSE [opened EXCEPT ![i] = @ + 1]
  ELSE open' = open \ {page} /\ opened' = opened

Undelivered == UNCHANGED channelVars

Delivered(i, s, c, kind) ==
  /\ taken' = [taken EXCEPT ![i][s][c] = @ \cup {Len(feed'[i][s][c])}]
  /\ IF setup.type[c] = "pagerduty" THEN Paged(<<Destination(s, c), DedupKey(i)>>, i, kind)
     ELSE UNCHANGED <<open, opened>>
  /\ UNCHANGED setup

\* Send(n), through the tracing wrapper, which returns what the inner Send
\* does: the feed's message carries the result the dispatcher is told.
Send(i, s, c) ==
  /\ Alarm(i, s, c) \/ Remind(i, s, c) \/ AllClear(i, s, c)
  /\ LET m == Last(feed'[i][s][c]) IN
       \/ Destination(s, c) = "" /\ ~m.ok /\ Undelivered
       \/ /\ Destination(s, c) # ""
          /\ \E outcome \in Outcomes :
               /\ Destination(s, c) = " " => outcome = "unreached"
               /\ m.ok = Succeeds(outcome)
               /\ IF outcome \in {"accepted", "unanswered"} THEN Delivered(i, s, c, m.kind)
                  ELSE Undelivered

ChannelsNext ==
  \/ \E i \in Incidents, s \in Subs, c \in Channels : Send(i, s, c)
  \/ (\E i \in Incidents : Begin(i)) /\ Undelivered
  \/ TimePasses /\ Undelivered

ChannelsSpec == ChannelsInit /\ [][ChannelsNext]_<<feedVars, channelVars>>

-----------------------------------------------------------------------------
Ended(i, s, c) ==
  Last(feed[i][s][c]).kind = "resolved" /\ Len(feed[i][s][c]) \in taken[i][s][c]

\* A page is open only while PagerDuty took something, and not the end, of a
\* feed that pages this service about this very incident: no page survives
\* them all, whichever of them spoke last, and none is opened on behalf of
\* another incident (pagerduty.go:106-139).  A resolution that fails is not
\* sent again, and its page stays.
PagesFollowTheirFeeds ==
  \A page \in open : \E s \in Subs, c \in Channels :
    /\ setup.type[c] = "pagerduty" /\ page[1] = Destination(s, c)
    /\ taken[page[2]][s][c] # {} /\ ~Ended(page[2], s, c)

\* The feeds that reached PagerDuty about an incident.
Paging(i) ==
  {b \in Subs \X Channels : setup.type[b[2]] = "pagerduty" /\ taken[i][b[1]][b[2]] # {}}

\* A feed opens one page at most, whichever answers are lost: its reminders
\* refresh the page the incident has, "a no-op alert refresh"
\* (pagerduty.go:106-108).
OnePagePerFeed == \A i \in Incidents : opened[i] <= Cardinality(Paging(i))
=============================================================================
