--------------------------- MODULE AlertFeedProofs ---------------------------
(***************************************************************************)
(* Faults only add to what the feed allows, and the pages at the provider  *)
(* follow the feeds, one page for each, for any incidents, subscriptions,  *)
(* channels and addresses and however long it runs.                        *)
(***************************************************************************)
EXTENDS Channels, TolerantFeed, FiniteSetTheorems, TLAPS

\* An appended message is the last, and moves no other.
LEMMA AppendLast ==
  ASSUME NEW M, NEW f \in Seq(M), NEW m \in M
  PROVE  /\ Append(f, m) \in Seq(M)
         /\ Len(Append(f, m)) = Len(f) + 1
         /\ Append(f, m)[Len(f) + 1] = m
         /\ \A k \in 1..Len(f) : Append(f, m)[k] = f[k]
  OBVIOUS

\* The message a step posts, and what it follows.
Fits(i, s, c, m) ==
  \/ /\ born[i] > 0 /\ feed[i][s][c] = <<>>
     /\ m.kind = "firing" /\ m.at >= born[i] + Dwell[s]
  \/ /\ feed[i][s][c] # <<>> /\ Last(feed[i][s][c]).kind # "resolved"
     /\ \/ m.kind = "repeat" /\ Repeat[s] > 0 /\ m.at >= Last(feed[i][s][c]).at + Repeat[s]
        \/ m.kind = "resolved" /\ NotifyOnResolve[s] /\ m.at >= Last(feed[i][s][c]).at

\* Each of the three actions posts one message that fits.
LEMMA OnePosted ==
  ASSUME FeedTypeOK, NEW i \in Incidents, NEW s \in Subs, NEW c \in Channels,
         Alarm(i, s, c) \/ Remind(i, s, c) \/ AllClear(i, s, c)
  PROVE  \E m \in FeedMessage :
           /\ feed' = [feed EXCEPT ![i][s][c] = Append(feed[i][s][c], m)]
           /\ UNCHANGED <<clock, born>>
           /\ Fits(i, s, c, m)
<1>1. PICK kind \in {"firing", "repeat", "resolved"}, t \in 1..clock :
        /\ Post(i, s, c, kind, t)
        /\ \/ born[i] > 0 /\ feed[i][s][c] = <<>> /\ kind = "firing"
              /\ t >= born[i] + Dwell[s]
           \/ /\ feed[i][s][c] # <<>> /\ Last(feed[i][s][c]).kind # "resolved"
              /\ \/ kind = "repeat" /\ Repeat[s] > 0
                    /\ t >= Last(feed[i][s][c]).at + Repeat[s]
                 \/ kind = "resolved" /\ NotifyOnResolve[s]
                    /\ t >= Last(feed[i][s][c]).at
  BY DEF Alarm, Remind, AllClear
<1>2. PICK ok \in BOOLEAN :
        feed' = [feed EXCEPT ![i][s][c]
                   = Append(feed[i][s][c], [kind |-> kind, at |-> t, ok |-> ok])]
  BY <1>1 DEF Post
<1>3. PICK m \in FeedMessage : m = [kind |-> kind, at |-> t, ok |-> ok]
  <2>1. [kind |-> kind, at |-> t, ok |-> ok] \in FeedMessage
    BY DEF FeedTypeOK, FeedMessage
  <2>2. QED
    BY <2>1
<1>4. UNCHANGED <<clock, born>>
  BY <1>1 DEF Post
<1>5. Fits(i, s, c, m)
  BY <1>1, <1>3 DEF Fits
<1>6. QED
  BY <1>2, <1>3, <1>4, <1>5

\* Every step of the feeds keeps their types.
LEMMA FeedStep ==
  ASSUME FeedTypeOK, [FeedNext]_feedVars
  PROVE  FeedTypeOK'
<1>1. ASSUME NEW i \in Incidents, NEW s \in Subs, NEW c \in Channels,
             Alarm(i, s, c) \/ Remind(i, s, c) \/ AllClear(i, s, c)
      PROVE  FeedTypeOK'
  <2>1. PICK m \in FeedMessage :
          /\ feed' = [feed EXCEPT ![i][s][c] = Append(feed[i][s][c], m)]
          /\ UNCHANGED <<clock, born>>
    BY <1>1, OnePosted
  <2>2. Append(feed[i][s][c], m) \in Seq(FeedMessage)
    <3>1. feed[i][s][c] \in Seq(FeedMessage)
      BY DEF FeedTypeOK
    <3>2. QED
      BY <3>1, AppendLast
  <2>3. QED
    BY <2>1, <2>2 DEF FeedTypeOK
<1>2. ASSUME NEW i \in Incidents, Begin(i) PROVE FeedTypeOK'
  BY <1>2 DEF Begin, FeedTypeOK
<1>3. CASE TimePasses \/ UNCHANGED feedVars
  BY <1>3 DEF TimePasses, feedVars, FeedTypeOK
<1>4. QED
  BY <1>1, <1>2, <1>3 DEF FeedNext

-----------------------------------------------------------------------------
\* The provider took only messages that were sent, and a page is of an
\* incident some paging subscription has not had the end of.
PageInv ==
  /\ FeedTypeOK
  /\ taken \in [Incidents -> [Subs -> [Channels -> SUBSET Nat]]]
  /\ \A i \in Incidents, s \in Subs, c \in Channels :
       taken[i][s][c] \subseteq 1..Len(feed[i][s][c])
  /\ \A page \in open : page = <<page[1], page[2]>> /\ page[2] \in Incidents
  /\ PagesFollowTheirFeeds

\* The feed that keeps a page open.
Keeps(page, s, c) ==
  /\ setup.type[c] = "pagerduty" /\ page[1] = Destination(s, c)
  /\ taken[page[2]][s][c] # {} /\ ~Ended(page[2], s, c)

\* A message joins one feed, and its page is opened or closed if PagerDuty
\* takes it.
LEMMA SendEffect ==
  ASSUME PageInv, NEW i \in Incidents, NEW s \in Subs, NEW c \in Channels, Send(i, s, c)
  PROVE  \E m \in FeedMessage, k \in Nat :
           /\ FeedTypeOK' /\ feed[i][s][c] \in Seq(FeedMessage) /\ k = Len(feed[i][s][c])
           /\ k # 0 => Last(feed[i][s][c]).kind # "resolved"
           /\ \A j \in Incidents, q \in Subs, d \in Channels :
                ~(j = i /\ q = s /\ d = c) => feed'[j][q][d] = feed[j][q][d]
           /\ Len(feed'[i][s][c]) = k + 1 /\ feed'[i][s][c] # <<>> /\ Last(feed'[i][s][c]) = m
           /\ \/ Undelivered
              \/ /\ taken' = [taken EXCEPT ![i][s][c] = @ \cup {k + 1}]
                 /\ \/ setup.type[c] # "pagerduty" /\ UNCHANGED <<open, opened>>
                    \/ setup.type[c] = "pagerduty" /\ Paged(<<Destination(s, c), i>>, i, m.kind)
           /\ setup' = setup
           /\ \A q \in Subs, d \in Channels : Destination(q, d)' = Destination(q, d)
<1>1. FeedTypeOK /\ FeedTypeOK'
  BY FeedStep DEF PageInv, Send, FeedNext
<1>2. PICK m \in FeedMessage :
        /\ feed' = [feed EXCEPT ![i][s][c] = Append(feed[i][s][c], m)]
        /\ Fits(i, s, c, m)
  <2>1. Alarm(i, s, c) \/ Remind(i, s, c) \/ AllClear(i, s, c)
    BY DEF Send
  <2>2. QED
    BY <1>1, <2>1, OnePosted
<1>3. PICK f \in Seq(FeedMessage), k \in Nat : f = feed[i][s][c] /\ k = Len(f)
  BY <1>1 DEF FeedTypeOK
<1>4. \A j \in Incidents, q \in Subs, d \in Channels :
        feed'[j][q][d] = IF j = i /\ q = s /\ d = c THEN Append(f, m) ELSE feed[j][q][d]
  BY <1>1, <1>2, <1>3 DEF FeedTypeOK
<1>5. /\ Len(feed'[i][s][c]) = k + 1 /\ feed'[i][s][c] # <<>> /\ Last(feed'[i][s][c]) = m
  <2>1. /\ Append(f, m) \in Seq(FeedMessage) /\ Len(Append(f, m)) = k + 1
        /\ Append(f, m)[k + 1] = m
    BY <1>3, AppendLast
  <2>2. k + 1 > 0
    BY <1>3
  <2>3. feed'[i][s][c] = Append(f, m)
    BY <1>4
  <2>4. QED
    BY <2>1, <2>2, <2>3 DEF Last
<1>6. k # 0 => Last(f).kind # "resolved"
  <2>1. k # 0 => f # <<>>
    BY <1>3
  <2>2. QED
    BY <1>2, <1>3, <2>1 DEF Fits
<1>7. \/ Undelivered
      \/ /\ taken' = [taken EXCEPT ![i][s][c] = @ \cup {k + 1}]
         /\ setup' = setup
         /\ \/ setup.type[c] # "pagerduty" /\ UNCHANGED <<open, opened>>
            \/ setup.type[c] = "pagerduty" /\ Paged(<<Destination(s, c), i>>, i, m.kind)
  BY <1>5 DEF Send, Delivered, DedupKey
<1>8. setup' = setup
  BY <1>7 DEF Undelivered, channelVars
<1>9. \A q \in Subs, d \in Channels : Destination(q, d)' = Destination(q, d)
  BY <1>8 DEF Destination, To, WebhookTo, SlackTo, TeamsTo, DiscordTo, PagerDutyTo, SMSTo, SMTPTo
<1>10. QED
  BY <1>1, <1>3, <1>4, <1>5, <1>6, <1>7, <1>8, <1>9

\* A message joins one feed.  What the provider took of the others stays, and
\* a page that another feed keeps stays kept.
LEMMA SendKeepsPages ==
  ASSUME PageInv, NEW i \in Incidents, NEW s \in Subs, NEW c \in Channels, Send(i, s, c)
  PROVE  PageInv'
<1>1. PICK m \in FeedMessage, k \in Nat :
        /\ FeedTypeOK' /\ feed[i][s][c] \in Seq(FeedMessage) /\ k = Len(feed[i][s][c])
        /\ \A j \in Incidents, q \in Subs, d \in Channels :
             ~(j = i /\ q = s /\ d = c) => feed'[j][q][d] = feed[j][q][d]
        /\ Len(feed'[i][s][c]) = k + 1 /\ feed'[i][s][c] # <<>> /\ Last(feed'[i][s][c]) = m
        /\ \/ Undelivered
           \/ /\ taken' = [taken EXCEPT ![i][s][c] = @ \cup {k + 1}]
              /\ \/ setup.type[c] # "pagerduty" /\ UNCHANGED <<open, opened>>
                 \/ setup.type[c] = "pagerduty" /\ Paged(<<Destination(s, c), i>>, i, m.kind)
        /\ setup' = setup
        /\ \A q \in Subs, d \in Channels : Destination(q, d)' = Destination(q, d)
  BY SendEffect
<1>2. PICK D : D = Destination(s, c)
  OBVIOUS
<1>3. \/ Undelivered
      \/ /\ taken' = [taken EXCEPT ![i][s][c] = @ \cup {k + 1}]
         /\ \/ setup.type[c] # "pagerduty" /\ open' = open
            \/ /\ setup.type[c] = "pagerduty"
               /\ \/ m.kind # "resolved" /\ open' = open \cup {<<D, i>>}
                  \/ m.kind = "resolved" /\ open' = open \ {<<D, i>>}
  BY <1>1, <1>2 DEF Paged, EventAction
<1>4. /\ taken' \in [Incidents -> [Subs -> [Channels -> SUBSET Nat]]]
      /\ \A j \in Incidents, q \in Subs, d \in Channels :
           taken'[j][q][d] = IF j = i /\ q = s /\ d = c
                             THEN taken'[i][s][c] ELSE taken[j][q][d]
      /\ taken'[i][s][c] \subseteq taken[i][s][c] \cup {k + 1}
      /\ taken[i][s][c] \subseteq taken'[i][s][c]
      /\ ~Undelivered => k + 1 \in taken'[i][s][c]
      /\ Undelivered => taken'[i][s][c] = taken[i][s][c]
  <2>1. taken \in [Incidents -> [Subs -> [Channels -> SUBSET Nat]]]
    BY DEF PageInv
  <2>2. CASE Undelivered
    BY <2>1, <2>2 DEF Undelivered, channelVars
  <2>3. CASE ~Undelivered
    <3>1. PICK T \in SUBSET Nat : T = taken[i][s][c] \cup {k + 1}
      <4>1. taken[i][s][c] \in SUBSET Nat /\ k + 1 \in Nat
        BY <1>1, <2>1
      <4>2. taken[i][s][c] \cup {k + 1} \in SUBSET Nat
        BY <4>1
      <4>3. QED
        BY <4>2
    <3>2. taken' = [taken EXCEPT ![i][s][c] = T]
      BY <1>3, <2>3, <3>1
    <3>3. QED
      BY <2>1, <2>3, <3>1, <3>2
  <2>4. QED
    BY <2>2, <2>3
<1>5. \A j \in Incidents, q \in Subs, d \in Channels :
        taken'[j][q][d] \subseteq 1..Len(feed'[j][q][d])
  <2>1. taken[i][s][c] \subseteq 1..k
    BY <1>1 DEF PageInv
  <2>2. taken'[i][s][c] \subseteq 1..(k + 1)
    BY <1>1, <1>4, <2>1
  <2>3. ASSUME NEW j \in Incidents, NEW q \in Subs, NEW d \in Channels
        PROVE  taken'[j][q][d] \subseteq 1..Len(feed'[j][q][d])
    <3>1. CASE j = i /\ q = s /\ d = c
      BY <1>1, <2>2, <3>1
    <3>2. CASE ~(j = i /\ q = s /\ d = c)
      <4>1. taken'[j][q][d] = taken[j][q][d] /\ feed'[j][q][d] = feed[j][q][d]
        BY <1>1, <1>4, <3>2
      <4>2. taken[j][q][d] \subseteq 1..Len(feed[j][q][d])
        BY DEF PageInv
      <4>3. QED
        BY <4>1, <4>2
    <3>3. QED
      BY <3>1, <3>2
  <2>4. QED
    BY <2>3
<1>6. \A page \in open' : page = <<page[1], page[2]>> /\ page[2] \in Incidents
  BY <1>3 DEF PageInv, Undelivered, channelVars
<1>7. ASSUME NEW page, NEW q \in Subs, NEW d \in Channels, page[2] \in Incidents,
             Keeps(page, q, d), ~(page[2] = i /\ q = s /\ d = c)
      PROVE  Keeps(page, q, d)'
  BY <1>1, <1>4, <1>7 DEF Keeps, Ended
<1>8. ASSUME NEW page, page[1] = D, page[2] = i, setup.type[c] = "pagerduty",
             m.kind # "resolved" \/ Undelivered, taken'[i][s][c] # {}
      PROVE  Keeps(page, s, c)'
  <2>1. ~Ended(i, s, c)'
    <3>1. CASE m.kind # "resolved"
      BY <1>1, <3>1 DEF Ended
    <3>2. CASE Undelivered
      <4>1. taken[i][s][c] \subseteq 1..k
        BY <1>1 DEF PageInv
      <4>2. k + 1 \notin taken'[i][s][c]
        BY <1>4, <3>2, <4>1
      <4>3. QED
        BY <1>1, <4>2 DEF Ended
    <3>3. QED
      BY <1>8, <3>1, <3>2
  <2>2. QED
    BY <1>1, <1>2, <1>8, <2>1 DEF Keeps
<1>9. ASSUME NEW page \in open'
      PROVE  \E q \in Subs, d \in Channels : Keeps(page, q, d)'
  <2>1. CASE page \in open
    <3>1. PICK q \in Subs, d \in Channels : Keeps(page, q, d)
      BY <2>1 DEF PageInv, PagesFollowTheirFeeds, Keeps
    <3>2. page = <<page[1], page[2]>> /\ page[2] \in Incidents
      BY <1>6, <1>9
    <3>3. CASE ~(page[2] = i /\ q = s /\ d = c)
      BY <1>7, <3>1, <3>2, <3>3
    <3>4. CASE page[2] = i /\ q = s /\ d = c
      <4>1. page[1] = D /\ setup.type[c] = "pagerduty" /\ page = <<D, i>>
        BY <1>2, <3>1, <3>2, <3>4 DEF Keeps
      <4>2. m.kind # "resolved" \/ Undelivered
        BY <1>3, <1>9, <4>1
      <4>3. taken'[i][s][c] # {}
        BY <1>4, <3>1, <3>4 DEF Keeps
      <4>4. QED
        BY <1>8, <3>4, <4>1, <4>2, <4>3
    <3>5. QED
      BY <3>3, <3>4
  <2>2. CASE page \notin open
    <3>1. page = <<D, i>> /\ setup.type[c] = "pagerduty" /\ m.kind # "resolved"
      BY <1>3, <1>9, <2>2 DEF Undelivered, channelVars
    <3>2. taken'[i][s][c] # {}
      BY <1>4, <1>9, <2>2 DEF Undelivered, channelVars
    <3>3. QED
      BY <1>8, <3>1, <3>2
  <2>3. QED
    BY <2>1, <2>2
<1>10. PagesFollowTheirFeeds'
  BY <1>9 DEF PagesFollowTheirFeeds, Keeps
<1>11. QED
  BY <1>1, <1>4, <1>5, <1>6, <1>10 DEF PageInv

\* What sends nothing leaves the pages and the feeds.
LEMMA PagesStand ==
  ASSUME PageInv, FeedTypeOK', UNCHANGED <<feed, setup, taken, open>>
  PROVE  PageInv'
<1>1. \A s \in Subs, c \in Channels : Destination(s, c)' = Destination(s, c)
  BY DEF Destination, To, WebhookTo, SlackTo, TeamsTo, DiscordTo, PagerDutyTo, SMSTo, SMTPTo
<1>2. ASSUME NEW page, NEW s \in Subs, NEW c \in Channels, Keeps(page, s, c)
      PROVE  Keeps(page, s, c)'
  BY <1>1, <1>2 DEF Keeps, Ended, Last
<1>3. PagesFollowTheirFeeds'
  BY <1>2 DEF PageInv, PagesFollowTheirFeeds, Keeps
<1>4. QED
  BY <1>3 DEF PageInv

\* Whatever is sent, the pages keep to the feeds.
LEMMA PagesInvariant == ChannelsSpec => []PageInv
<1>1. ChannelsInit => PageInv
  <2> SUFFICES ASSUME ChannelsInit PROVE PageInv
    OBVIOUS
  <2>1. FeedTypeOK
    BY DEF ChannelsInit, FeedInit, FeedTypeOK
  <2>2. taken = [i \in Incidents |-> [s \in Subs |-> [c \in Channels |-> {}]]] /\ open = {}
    BY DEF ChannelsInit
  <2>3. QED
    BY <2>1, <2>2 DEF PageInv, PagesFollowTheirFeeds
<1>2. PageInv /\ [ChannelsNext]_<<feedVars, channelVars>> => PageInv'
  <2> SUFFICES ASSUME PageInv, [ChannelsNext]_<<feedVars, channelVars>> PROVE PageInv'
    OBVIOUS
  <2>1. ASSUME \/ \E i \in Incidents : Begin(i)
               \/ TimePasses
               \/ UNCHANGED feedVars,
               Undelivered
        PROVE  PageInv'
    <3>1. FeedTypeOK /\ [FeedNext]_feedVars
      BY <2>1 DEF PageInv, FeedNext
    <3>2. FeedTypeOK'
      BY <3>1, FeedStep
    <3>3. UNCHANGED <<feed, setup, taken, open>>
      BY <2>1 DEF Begin, TimePasses, feedVars, Undelivered, channelVars
    <3>4. QED
      BY <3>2, <3>3, PagesStand
  <2>2. CASE UNCHANGED <<feedVars, channelVars>>
    BY <2>1, <2>2 DEF channelVars, Undelivered
  <2>3. QED
    BY <2>1, <2>2, SendKeepsPages DEF ChannelsNext
<1>3. QED
  BY <1>1, <1>2, PTL DEF ChannelsSpec

\* A page is open only on behalf of a feed whose end the provider has not
\* taken, for any channels and addresses (pagerduty.go:106-139).
THEOREM PagesFollow == ChannelsSpec => []PagesFollowTheirFeeds
<1>1. PageInv => PagesFollowTheirFeeds
  BY DEF PageInv
<1>2. QED
  BY <1>1, PagesInvariant, PTL

-----------------------------------------------------------------------------
(* How often a page is opened. *)

\* The feeds whose end PagerDuty took, and the pages of an incident.
Over(i) ==
  {b \in Subs \X Channels : setup.type[b[2]] = "pagerduty" /\ Ended(i, b[1], b[2])}

PagesOf(i) == {page \in open : page[2] = i}

\* Each page opened was closed by the end of a feed, or is there.
CountInv ==
  /\ opened \in [Incidents -> Nat]
  /\ \A i \in Incidents : opened[i] <= Cardinality(Over(i)) + Cardinality(PagesOf(i))

\* An open page has a feed that is not over, and no two pages of an incident
\* the same one.
LEMMA PagesHaveFeeds ==
  ASSUME PageInv, NEW i \in Incidents
  PROVE  /\ IsFiniteSet(Over(i)) /\ Cardinality(Over(i)) \in Nat
         /\ IsFiniteSet(PagesOf(i)) /\ Cardinality(PagesOf(i)) \in Nat
         /\ Cardinality(Paging(i)) \in Nat
         /\ Cardinality(Over(i)) + Cardinality(PagesOf(i)) <= Cardinality(Paging(i))
<1>1. IsFiniteSet(Paging(i)) /\ Cardinality(Paging(i)) \in Nat
  <2>1. IsFiniteSet(Subs \X Channels)
    BY FiniteAssumption, FS_Product
  <2>2. Paging(i) \in SUBSET (Subs \X Channels)
    BY DEF Paging
  <2>3. QED
    BY <2>1, <2>2, FS_Subset, FS_CardinalityType
<1>2. Over(i) \in SUBSET Paging(i)
  BY DEF Over, Paging, Ended
<1>3. IsFiniteSet(Over(i)) /\ Cardinality(Over(i)) \in Nat
  BY <1>1, <1>2, FS_Subset, FS_CardinalityType
<1>4. PICK R : R = Paging(i) \ Over(i)
  OBVIOUS
<1>5. IsFiniteSet(R) /\ Cardinality(R) = Cardinality(Paging(i)) - Cardinality(Over(i))
  <2>1. Paging(i) \cap Over(i) = Over(i)
    BY <1>2
  <2>2. /\ IsFiniteSet(Paging(i) \ Over(i))
        /\ Cardinality(Paging(i) \ Over(i)) =
             Cardinality(Paging(i)) - Cardinality(Paging(i) \cap Over(i))
    BY <1>1, FS_Difference
  <2>3. QED
    BY <1>4, <2>1, <2>2
<1>6. PICK f : f = [b \in R |-> <<Destination(b[1], b[2]), i>>]
  OBVIOUS
<1>7. PICK T : T = {f[b] : b \in R}
  OBVIOUS
<1>8. f \in Surjection(R, T)
  BY <1>6, <1>7 DEF Surjection
<1>9. IsFiniteSet(T) /\ Cardinality(T) <= Cardinality(R) /\ Cardinality(T) \in Nat
  BY <1>5, <1>8, FS_Surjection, FS_CardinalityType
<1>10. ASSUME NEW page \in PagesOf(i) PROVE page \in T
  <2>1. page \in open /\ page = <<page[1], i>>
    BY DEF PagesOf, PageInv
  <2>2. PICK s \in Subs, c \in Channels : Keeps(page, s, c)
    BY <2>1 DEF PageInv, PagesFollowTheirFeeds, Keeps
  <2>3. page[2] = i
    BY DEF PagesOf
  <2>4. PICK b \in Subs \X Channels : b[1] = s /\ b[2] = c
    <3>1. <<s, c>> \in Subs \X Channels /\ <<s, c>>[1] = s /\ <<s, c>>[2] = c
      OBVIOUS
    <3>2. QED
      BY <3>1
  <2>5. b \in R
    BY <1>4, <2>2, <2>3, <2>4 DEF Keeps, Paging, Over
  <2>6. f[b] = page
    BY <1>6, <2>1, <2>2, <2>4, <2>5 DEF Keeps
  <2>7. QED
    BY <1>7, <2>5, <2>6
<1>11. IsFiniteSet(PagesOf(i)) /\ Cardinality(PagesOf(i)) <= Cardinality(T)
       /\ Cardinality(PagesOf(i)) \in Nat
  <2>1. PagesOf(i) \in SUBSET T
    BY <1>10
  <2>2. QED
    BY <1>9, <2>1, FS_Subset, FS_CardinalityType
<1>12. Cardinality(R) \in Nat
  BY <1>5, FS_CardinalityType
<1>13. QED
  BY <1>1, <1>3, <1>5, <1>9, <1>11, <1>12

\* A message about an incident ends its feed or refreshes its page: the pages
\* opened stay within the feeds ended and the pages there.
LEMMA SendCounts ==
  ASSUME PageInv, CountInv, NEW i \in Incidents, NEW s \in Subs, NEW c \in Channels,
         Send(i, s, c)
  PROVE  CountInv'
<1>1. PICK m \in FeedMessage, k \in Nat :
        /\ feed[i][s][c] \in Seq(FeedMessage) /\ k = Len(feed[i][s][c])
        /\ k # 0 => Last(feed[i][s][c]).kind # "resolved"
        /\ \A j \in Incidents, q \in Subs, d \in Channels :
             ~(j = i /\ q = s /\ d = c) => feed'[j][q][d] = feed[j][q][d]
        /\ Len(feed'[i][s][c]) = k + 1 /\ Last(feed'[i][s][c]) = m
        /\ \/ Undelivered
           \/ /\ taken' = [taken EXCEPT ![i][s][c] = @ \cup {k + 1}]
              /\ \/ setup.type[c] # "pagerduty" /\ UNCHANGED <<open, opened>>
                 \/ setup.type[c] = "pagerduty" /\ Paged(<<Destination(s, c), i>>, i, m.kind)
        /\ setup' = setup
  BY SendEffect
<1>2. taken \in [Incidents -> [Subs -> [Channels -> SUBSET Nat]]] /\ taken[i][s][c] \subseteq 1..k
  BY <1>1 DEF PageInv
<1>3. /\ \A j \in Incidents, q \in Subs, d \in Channels :
           ~(j = i /\ q = s /\ d = c) => taken'[j][q][d] = taken[j][q][d]
      /\ Undelivered => taken' = taken
      /\ ~Undelivered => taken'[i][s][c] = taken[i][s][c] \cup {k + 1}
  BY <1>1, <1>2 DEF Undelivered, channelVars
<1>4. \A j \in Incidents, q \in Subs, d \in Channels :
        ~(j = i /\ q = s /\ d = c) => (Ended(j, q, d)' <=> Ended(j, q, d))
  BY <1>1, <1>3 DEF Ended
<1>5. ~Ended(i, s, c)
  <2>1. 0 \notin 1..k /\ (k # 0 => Last(feed[i][s][c]).kind # "resolved")
    BY <1>1
  <2>2. k = Len(feed[i][s][c])
    BY <1>1
  <2>3. QED
    BY <1>2, <2>1, <2>2 DEF Ended
<1>6. Ended(i, s, c)' <=> m.kind = "resolved" /\ ~Undelivered
  <2>1. \A n \in Nat : n + 1 \notin 1..n
    OBVIOUS
  <2>2. Len(feed'[i][s][c]) = k + 1 /\ Last(feed'[i][s][c]) = m
    BY <1>1
  <2>3. k + 1 \in taken'[i][s][c] <=> ~Undelivered
    BY <1>2, <1>3, <2>1
  <2>4. QED
    BY <2>2, <2>3 DEF Ended
<1>7. PICK b \in Subs \X Channels : b = <<s, c>>
  <2>1. <<s, c>> \in Subs \X Channels
    OBVIOUS
  <2>2. QED
    BY <2>1
<1>8. \A j \in Incidents : j # i => Over(j)' = Over(j)
  BY <1>1, <1>4 DEF Over
<1>9. /\ b \notin Over(i)
      /\ Over(i)' = IF setup.type[c] = "pagerduty" /\ m.kind = "resolved" /\ ~Undelivered
                    THEN Over(i) \cup {b} ELSE Over(i)
  <2>1. b \notin Over(i)
    BY <1>5, <1>7 DEF Over
  <2>2. \A a \in Subs \X Channels : a # b => ~(a[1] = s /\ a[2] = c)
    BY <1>7
  <2>3. ASSUME NEW a \in Subs \X Channels, a # b
        PROVE  a \in Over(i)' <=> a \in Over(i)
    <3>1. a[1] \in Subs /\ a[2] \in Channels /\ ~(a[1] = s /\ a[2] = c)
      BY <2>2, <2>3
    <3>2. QED
      BY <1>1, <1>4, <3>1 DEF Over
  <2>4. b \in Over(i)' <=> setup.type[c] = "pagerduty" /\ m.kind = "resolved" /\ ~Undelivered
    BY <1>1, <1>6, <1>7 DEF Over
  <2>5. Over(i)' \subseteq Subs \X Channels /\ Over(i) \subseteq Subs \X Channels
    BY DEF Over
  <2>6. QED
    BY <2>1, <2>3, <2>4, <2>5
<1>10. PICK page : page = <<Destination(s, c), i>> /\ page[2] = i
  <2>1. <<Destination(s, c), i>>[2] = i
    OBVIOUS
  <2>2. QED
    BY <2>1
<1>11. /\ IsFiniteSet(Over(i)) /\ Cardinality(Over(i)) \in Nat
       /\ IsFiniteSet(PagesOf(i)) /\ Cardinality(PagesOf(i)) \in Nat
       /\ opened \in [Incidents -> Nat]
       /\ opened[i] <= Cardinality(Over(i)) + Cardinality(PagesOf(i))
  BY PagesHaveFeeds DEF CountInv
<1>12. CASE Undelivered \/ setup.type[c] # "pagerduty"
  <2>1. UNCHANGED <<open, opened>> /\ \A j \in Incidents : Over(j)' = Over(j)
    BY <1>1, <1>8, <1>9, <1>12 DEF Undelivered, channelVars
  <2>2. QED
    BY <2>1 DEF CountInv, PagesOf
<1>13. CASE ~Undelivered /\ setup.type[c] = "pagerduty"
  <2>1. /\ Paged(page, i, m.kind)
        /\ \A j \in Incidents : j # i => opened'[j] = opened[j]
        /\ opened' \in [Incidents -> Nat]
    BY <1>1, <1>10, <1>11, <1>13 DEF Paged
  <2>2. \A j \in Incidents : j # i => PagesOf(j)' = PagesOf(j)
    BY <1>10, <2>1 DEF PagesOf, Paged
  <2>3. CASE m.kind = "resolved"
    <3>1. opened' = opened /\ PagesOf(i)' = PagesOf(i) \ {page} /\ Over(i)' = Over(i) \cup {b}
      BY <1>9, <1>13, <2>1, <2>3 DEF Paged, EventAction, PagesOf
    <3>2. Cardinality(PagesOf(i) \ {page}) = IF page \in PagesOf(i) THEN Cardinality(PagesOf(i)) - 1
                                             ELSE Cardinality(PagesOf(i))
      BY <1>11, FS_RemoveElement
    <3>3. Cardinality(Over(i) \cup {b}) = Cardinality(Over(i)) + 1
      BY <1>9, <1>11, FS_AddElement
    <3>4. opened'[i] <= Cardinality(Over(i)') + Cardinality(PagesOf(i)')
      BY <1>11, <3>1, <3>2, <3>3
    <3>5. QED
      BY <1>8, <2>1, <2>2, <3>4 DEF CountInv
  <2>4. CASE m.kind # "resolved"
    <3>1. /\ PagesOf(i)' = PagesOf(i) \cup {page} /\ Over(i)' = Over(i)
          /\ opened' = IF page \in open THEN opened ELSE [opened EXCEPT ![i] = @ + 1]
      BY <1>9, <1>10, <2>1, <2>4 DEF Paged, EventAction, PagesOf
    <3>2. page \in PagesOf(i) <=> page \in open
      BY <1>10 DEF PagesOf
    <3>3. Cardinality(PagesOf(i) \cup {page}) = IF page \in PagesOf(i) THEN Cardinality(PagesOf(i))
                                               ELSE Cardinality(PagesOf(i)) + 1
      BY <1>11, FS_AddElement
    <3>4. opened'[i] = IF page \in open THEN opened[i] ELSE opened[i] + 1
      BY <1>11, <3>1
    <3>5. opened'[i] <= Cardinality(Over(i)') + Cardinality(PagesOf(i)')
      BY <1>11, <3>1, <3>2, <3>3, <3>4
    <3>6. QED
      BY <1>8, <2>1, <2>2, <3>5 DEF CountInv
  <2>5. QED
    BY <2>3, <2>4
<1>14. QED
  BY <1>12, <1>13

\* A feed opens one page at most, whichever answers are lost: its reminders
\* refresh the page the incident has (pagerduty.go:106-108).
THEOREM PagesOpenOnce == ChannelsSpec => []OnePagePerFeed
<1>1. ChannelsInit => CountInv
  <2> SUFFICES ASSUME ChannelsInit PROVE CountInv
    OBVIOUS
  <2>1. open = {} /\ opened = [i \in Incidents |-> 0]
        /\ \A i \in Incidents, s \in Subs, c \in Channels : taken[i][s][c] = {}
    BY DEF ChannelsInit
  <2>2. \A i \in Incidents : Over(i) = {} /\ PagesOf(i) = {}
    BY <2>1 DEF Over, PagesOf, Ended
  <2>3. Cardinality({}) = 0
    BY FS_EmptySet
  <2>4. QED
    BY <2>1, <2>2, <2>3 DEF CountInv
<1>2. PageInv /\ CountInv /\ [ChannelsNext]_<<feedVars, channelVars>> => CountInv'
  <2> SUFFICES ASSUME PageInv, CountInv, [ChannelsNext]_<<feedVars, channelVars>>
               PROVE  CountInv'
    OBVIOUS
  <2>1. ASSUME UNCHANGED <<feed, setup, taken, open, opened>> PROVE CountInv'
    BY <2>1 DEF CountInv, Over, PagesOf, Ended, Last
  <2>2. CASE \/ (\E i \in Incidents : Begin(i)) /\ Undelivered
             \/ TimePasses /\ Undelivered
             \/ UNCHANGED <<feedVars, channelVars>>
    BY <2>1, <2>2 DEF Begin, TimePasses, feedVars, Undelivered, channelVars
  <2>3. QED
    BY <2>2, SendCounts DEF ChannelsNext
<1>3. PageInv /\ CountInv => OnePagePerFeed
  <2> SUFFICES ASSUME PageInv, CountInv, NEW i \in Incidents
               PROVE  opened[i] <= Cardinality(Paging(i))
    BY DEF OnePagePerFeed
  <2>1. /\ Cardinality(Over(i)) \in Nat /\ Cardinality(PagesOf(i)) \in Nat
        /\ Cardinality(Paging(i)) \in Nat /\ opened[i] \in Nat
        /\ Cardinality(Over(i)) + Cardinality(PagesOf(i)) <= Cardinality(Paging(i))
        /\ opened[i] <= Cardinality(Over(i)) + Cardinality(PagesOf(i))
    BY PagesHaveFeeds DEF CountInv
  <2>2. QED
    BY <2>1
<1>4. QED
  BY <1>1, <1>2, <1>3, PagesInvariant, PTL DEF ChannelsSpec

-----------------------------------------------------------------------------
\* What a message has to satisfy to be posted where faults are tolerated.
MayFollowUpTo(f, m, start, s) ==
  /\ f = <<>> => m.kind = "firing"
  /\ f # <<>> => Last(f).kind # "resolved" /\ m.at >= Last(f).at
  /\ m.kind = "resolved" => NotifyOnResolve[s]
  /\ m.kind = "repeat" => Repeat[s] > 0
  /\ m.at >= start + Dwell[s]

\* The early messages of a feed are finitely many.
LEMMA EarlyIsFinite ==
  ASSUME NEW f \in Seq(FeedMessage), NEW s \in Subs
  PROVE  IsFiniteSet(Early(f, s)) /\ Cardinality(Early(f, s)) \in Nat
<1>1. PICK l \in Nat : l = Len(f)
  OBVIOUS
<1>2. IsFiniteSet(2..l)
  BY FS_Interval
<1>3. Early(f, s) \in SUBSET (2..l)
  BY <1>1 DEF Early
<1>4. IsFiniteSet(Early(f, s))
  BY <1>2, <1>3, FS_Subset
<1>5. QED
  BY <1>4, FS_CardinalityType

\* Appending makes no message early but the one appended.
LEMMA AppendEarly ==
  ASSUME NEW f \in Seq(FeedMessage), NEW m \in FeedMessage, NEW s \in Subs
  PROVE  Early(Append(f, m), s) \subseteq Early(f, s) \cup {Len(f) + 1}
<1>1. PICK g : g = Append(f, m)
  OBVIOUS
<1>2. Len(g) = Len(f) + 1 /\ Len(f) \in Nat /\ \A k \in 1..Len(f) : g[k] = f[k]
  BY <1>1, AppendLast
<1>3. ASSUME NEW n \in Early(g, s), n # Len(f) + 1
      PROVE  n \in Early(f, s)
  <2>1. n \in 2..(Len(f) + 1)
    BY <1>2 DEF Early
  <2>2. n \in 2..Len(f) /\ n \in 1..Len(f) /\ n - 1 \in 1..Len(f)
    BY <1>2, <1>3, <2>1
  <2>3. g[n] = f[n] /\ g[n - 1] = f[n - 1]
    BY <1>2, <2>2
  <2>4. QED
    BY <2>2, <2>3 DEF Early
<1>4. QED
  BY <1>1, <1>3

\* So an early message that has a fault of its own leaves enough for the rest.
LEMMA EarlyIsCharged ==
  ASSUME NEW f \in Seq(FeedMessage), NEW m \in FeedMessage, NEW s \in Subs, NEW n \in Nat,
         Cardinality(Early(f, s)) <= n,
         Len(f) + 1 \in Early(Append(f, m), s) => Cardinality(Early(f, s)) < n
  PROVE  Cardinality(Early(Append(f, m), s)) <= n
<1>1. PICK T, U, x : T = Early(f, s) /\ U = Early(Append(f, m), s) /\ x = Len(f) + 1
  OBVIOUS
<1>2. IsFiniteSet(T) /\ Cardinality(T) \in Nat /\ U \subseteq T \cup {x}
  BY <1>1, EarlyIsFinite, AppendEarly
<1>3. CASE U \subseteq T
  <2>1. Cardinality(U) <= Cardinality(T) /\ Cardinality(U) \in Nat
    BY <1>2, <1>3, FS_Subset, FS_CardinalityType
  <2>2. QED
    BY <1>1, <1>2, <2>1
<1>4. CASE ~(U \subseteq T)
  <2>1. Cardinality(T) < n
    BY <1>1, <1>2, <1>4
  <2>2. PICK V : V = T \cup {x}
    OBVIOUS
  <2>3. /\ IsFiniteSet(V)
        /\ Cardinality(V) = IF x \in T THEN Cardinality(T) ELSE Cardinality(T) + 1
    BY <1>2, <2>2, FS_AddElement
  <2>4. Cardinality(U) <= Cardinality(V) /\ Cardinality(U) \in Nat
    BY <1>2, <2>2, <2>3, FS_Subset, FS_CardinalityType
  <2>5. Cardinality(V) <= n
    BY <1>2, <2>1, <2>3
  <2>6. QED
    BY <1>1, <1>2, <2>3, <2>4, <2>5
<1>5. QED
  BY <1>3, <1>4

\* A feed keeps its shape when a message that may follow is appended.
LEMMA AppendKeepsTolerance ==
  ASSUME NEW f \in Seq(FeedMessage), NEW m \in FeedMessage, NEW start \in Nat, NEW s \in Subs,
         NEW n \in Nat, WellFormedUpTo(f, start, s, n), MayFollowUpTo(f, m, start, s),
         Len(f) + 1 \in Early(Append(f, m), s) => Cardinality(Early(f, s)) < n
  PROVE  WellFormedUpTo(Append(f, m), start, s, n)
<1>1. Cardinality(Early(Append(f, m), s)) <= n
  BY EarlyIsCharged DEF WellFormedUpTo
<1>2. PICK g : g = Append(f, m)
  OBVIOUS
<1>3. /\ Len(g) = Len(f) + 1 /\ Len(f) \in Nat /\ g[Len(f) + 1] = m
      /\ \A k \in 1..Len(f) : g[k] = f[k]
  BY <1>2, AppendLast
<1>4. ASSUME NEW k \in 1..Len(g)
      PROVE  /\ k = 1 => g[k].kind = "firing"
             /\ g[k].kind = "resolved" => k = Len(g) /\ NotifyOnResolve[s]
             /\ g[k].kind = "repeat" => Repeat[s] > 0
             /\ g[k].at >= start + Dwell[s]
             /\ k > 1 => g[k].at >= g[k - 1].at
  <2>1. CASE k \in 1..Len(f)
    <3>1. g[k] = f[k] /\ (k > 1 => k - 1 \in 1..Len(f) /\ g[k - 1] = f[k - 1])
      BY <1>3, <2>1
    <3>2. /\ k = 1 => f[k].kind = "firing"
          /\ f[k].kind = "resolved" => k = Len(f) /\ NotifyOnResolve[s]
          /\ f[k].kind = "repeat" => Repeat[s] > 0
          /\ f[k].at >= start + Dwell[s]
          /\ k > 1 => f[k].at >= f[k - 1].at
      BY <2>1 DEF WellFormedUpTo
    <3>3. f[k].kind # "resolved"
      BY <1>3, <2>1, <3>2 DEF MayFollowUpTo, Last
    <3>4. QED
      BY <3>1, <3>2, <3>3
  <2>2. CASE k = Len(f) + 1
    <3>1. g[k] = m /\ k = Len(g)
      BY <1>3, <2>2
    <3>2. (f = <<>>) <=> (k = 1)
      BY <1>3, <2>2
    <3>3. f # <<>> => g[k - 1] = Last(f)
      BY <1>3, <2>2, <3>2 DEF Last
    <3>4. QED
      BY <1>3, <2>2, <3>1, <3>2, <3>3 DEF MayFollowUpTo
  <2>3. QED
    BY <1>3, <2>1, <2>2
<1>5. QED
  BY <1>1, <1>2, <1>4 DEF WellFormedUpTo

\* The last message of such a feed is after the dwell.
LEMMA LastTolerated ==
  ASSUME NEW f \in Seq(FeedMessage), NEW start \in Nat, NEW s \in Subs, NEW n \in Nat,
         WellFormedUpTo(f, start, s, n), f # <<>>
  PROVE  Last(f) \in FeedMessage /\ Last(f).at >= start + Dwell[s]
  BY DEF WellFormedUpTo, Last
\* Appending a message that may follow to one feed keeps the shape of all.
LEMMA PostTolerated ==
  ASSUME TolerantInv, NEW i \in Incidents, NEW s \in Subs, NEW c \in Channels,
         NEW m \in FeedMessage, born[i] > 0, MayFollowUpTo(feed[i][s][c], m, born[i], s),
         Len(feed[i][s][c]) + 1 \in Early(Append(feed[i][s][c], m), s)
           => Cardinality(Early(feed[i][s][c], s)) < faults,
         feed' = [feed EXCEPT ![i][s][c] = Append(feed[i][s][c], m)],
         UNCHANGED <<clock, born, faults>>
  PROVE  TolerantInv'
<1>1. FeedTypeOK /\ faults \in Nat /\ UnbornAreSilent /\ FeedsWellFormedUpToFaults
  BY DEF TolerantInv
<1>2. feed[i][s][c] \in Seq(FeedMessage) /\ born[i] \in Nat
  BY <1>1 DEF FeedTypeOK
<1>3. Append(feed[i][s][c], m) \in Seq(FeedMessage)
  BY <1>2, AppendLast
<1>4. FeedTypeOK'
  BY <1>1, <1>3 DEF FeedTypeOK
<1>5. ASSUME NEW j \in Incidents, NEW q \in Subs, NEW d \in Channels
      PROVE  feed'[j][q][d] = IF j = i /\ q = s /\ d = c
                              THEN Append(feed[i][s][c], m) ELSE feed[j][q][d]
  BY <1>1 DEF FeedTypeOK
<1>6. UnbornAreSilent'
  BY <1>1, <1>5 DEF UnbornAreSilent
<1>7. WellFormedUpTo(Append(feed[i][s][c], m), born[i], s, faults)
  <2>1. WellFormedUpTo(feed[i][s][c], born[i], s, faults)
    BY <1>1 DEF FeedsWellFormedUpToFaults
  <2>2. QED
    BY <1>1, <1>2, <2>1, AppendKeepsTolerance
<1>8. FeedsWellFormedUpToFaults'
  <2> SUFFICES ASSUME NEW j \in Incidents, NEW q \in Subs, NEW d \in Channels
               PROVE  WellFormedUpTo(feed'[j][q][d], born[j], q, faults)
    BY DEF FeedsWellFormedUpToFaults
  <2>1. WellFormedUpTo(feed[j][q][d], born[j], q, faults)
    BY <1>1 DEF FeedsWellFormedUpToFaults
  <2>2. QED
    BY <1>5, <1>7, <2>1
<1>9. QED
  BY <1>1, <1>4, <1>6, <1>8 DEF TolerantInv

\* A message of the abstract feed may follow, and is not early.
LEMMA FitsIsTolerated ==
  ASSUME TolerantInv, FeedAssumption, NEW i \in Incidents, NEW s \in Subs, NEW c \in Channels,
         NEW m \in FeedMessage, Fits(i, s, c, m)
  PROVE  /\ born[i] > 0 /\ MayFollowUpTo(feed[i][s][c], m, born[i], s)
         /\ Len(feed[i][s][c]) + 1 \notin Early(Append(feed[i][s][c], m), s)
<1>1. PICK f \in Seq(FeedMessage), start \in Nat : f = feed[i][s][c] /\ start = born[i]
  BY DEF TolerantInv, FeedTypeOK
<1>2. WellFormedUpTo(f, start, s, faults) /\ faults \in Nat /\ (start = 0 => f = <<>>)
  BY <1>1 DEF TolerantInv, FeedsWellFormedUpToFaults, UnbornAreSilent
<1>3. f # <<>> => Last(f) \in FeedMessage /\ Last(f).at >= start + Dwell[s] /\ start > 0
  BY <1>1, <1>2, LastTolerated
<1>4. Dwell[s] \in Nat /\ Repeat[s] \in Nat /\ m.at \in Nat
      /\ (f # <<>> => Last(f).at \in Nat)
  BY <1>3, FeedAssumption DEF FeedMessage
<1>5. \/ start > 0 /\ f = <<>> /\ m.kind = "firing" /\ m.at >= start + Dwell[s]
      \/ /\ f # <<>> /\ Last(f).kind # "resolved"
         /\ \/ m.kind = "repeat" /\ Repeat[s] > 0 /\ m.at >= Last(f).at + Repeat[s]
            \/ m.kind = "resolved" /\ NotifyOnResolve[s] /\ m.at >= Last(f).at
  BY <1>1 DEF Fits
<1>6. start > 0 /\ MayFollowUpTo(f, m, start, s)
  BY <1>3, <1>4, <1>5 DEF MayFollowUpTo
<1>7. Len(f) + 1 \notin Early(Append(f, m), s)
  <2>1. PICK g : g = Append(f, m)
    OBVIOUS
  <2>2. Len(g) = Len(f) + 1 /\ Len(f) \in Nat /\ g[Len(f) + 1] = m
        /\ \A k \in 1..Len(f) : g[k] = f[k]
    BY <2>1, AppendLast
  <2>3. CASE f = <<>>
    BY <2>1, <2>2, <2>3 DEF Early
  <2>4. CASE f # <<>>
    <3>1. g[(Len(f) + 1) - 1] = Last(f)
      <4>1. (Len(f) + 1) - 1 = Len(f) /\ Len(f) \in 1..Len(f)
        BY <2>2, <2>4
      <4>2. QED
        BY <2>2, <4>1 DEF Last
    <3>2. m.kind # "firing" /\ ~(m.kind = "repeat" /\ m.at < Last(f).at + Repeat[s])
      BY <1>4, <1>5, <2>4
    <3>3. QED
      BY <2>1, <2>2, <3>1, <3>2 DEF Early
  <2>5. QED
    BY <2>3, <2>4
<1>8. QED
  BY <1>1, <1>6, <1>7

\* The messages of the abstract feed keep the shape.
LEMMA MessageTolerated ==
  ASSUME TolerantInv, FeedAssumption, NEW i \in Incidents, NEW s \in Subs, NEW c \in Channels,
         Alarm(i, s, c) \/ Remind(i, s, c) \/ AllClear(i, s, c), UNCHANGED faults
  PROVE  TolerantInv'
<1>1. PICK m \in FeedMessage :
        /\ feed' = [feed EXCEPT ![i][s][c] = Append(feed[i][s][c], m)]
        /\ UNCHANGED <<clock, born>>
        /\ Fits(i, s, c, m)
  BY OnePosted DEF TolerantInv
<1>2. QED
  BY <1>1, FitsIsTolerated, PostTolerated

\* So does one again for a fault that was not charged yet.
LEMMA AgainTolerated ==
  ASSUME TolerantInv, FeedAssumption, NEW i \in Incidents, NEW s \in Subs, NEW c \in Channels,
         Again(i, s, c), UNCHANGED faults
  PROVE  TolerantInv'
<1>1. FeedTypeOK
  BY DEF TolerantInv
<1>2. PICK t \in 1..clock, kind \in {"firing", "repeat"} :
        /\ t >= Last(feed[i][s][c]).at
        /\ kind = "repeat" => Repeat[s] > 0
        /\ Post(i, s, c, kind, t)
  BY DEF Again
<1>3. PICK ok \in BOOLEAN :
        feed' = [feed EXCEPT ![i][s][c]
                   = Append(feed[i][s][c], [kind |-> kind, at |-> t, ok |-> ok])]
  BY <1>2 DEF Post
<1>4. PICK m \in FeedMessage : m = [kind |-> kind, at |-> t, ok |-> ok]
  <2>1. [kind |-> kind, at |-> t, ok |-> ok] \in FeedMessage
    BY <1>1 DEF FeedTypeOK, FeedMessage
  <2>2. QED
    BY <2>1
<1>5. UNCHANGED <<clock, born, faults>>
  BY <1>2 DEF Post
<1>6. PICK f \in Seq(FeedMessage), start \in Nat : f = feed[i][s][c] /\ start = born[i]
  BY <1>1 DEF FeedTypeOK
<1>7. /\ f # <<>> /\ Last(f).kind # "resolved" /\ Cardinality(Early(f, s)) < faults
      /\ faults \in Nat /\ WellFormedUpTo(f, start, s, faults) /\ (start = 0 => f = <<>>)
  BY <1>6 DEF Again, TolerantInv, FeedsWellFormedUpToFaults, UnbornAreSilent
<1>8. Last(f) \in FeedMessage /\ Last(f).at >= start + Dwell[s] /\ start > 0
  BY <1>7, LastTolerated
<1>9. Last(f).at \in Nat /\ Dwell[s] \in Nat /\ m.kind = kind /\ m.at = t
  BY <1>4, <1>8, FeedAssumption DEF FeedMessage
<1>10. MayFollowUpTo(f, m, start, s)
  BY <1>2, <1>6, <1>7, <1>8, <1>9 DEF MayFollowUpTo
<1>11. feed' = [feed EXCEPT ![i][s][c] = Append(feed[i][s][c], m)]
  BY <1>3, <1>4
<1>12. QED
  BY <1>5, <1>6, <1>7, <1>8, <1>10, <1>11, PostTolerated

\* And an incident begun, time, and a fault.
LEMMA OthersTolerated ==
  ASSUME TolerantInv,
         \/ (\E i \in Incidents : Begin(i)) /\ UNCHANGED faults
         \/ TimePasses /\ UNCHANGED faults
         \/ SomethingFails
         \/ UNCHANGED tolerantVars
  PROVE  TolerantInv'
<1>1. FeedTypeOK /\ faults \in Nat /\ UnbornAreSilent /\ FeedsWellFormedUpToFaults
  BY DEF TolerantInv
<1>2. UNCHANGED feed /\ clock' \in Nat /\ born' \in [Incidents -> Nat]
      /\ (\A j \in Incidents : born'[j] = born[j] \/ (born[j] = 0 /\ born'[j] > 0))
      /\ (faults' = faults \/ faults' = faults + 1)
  BY <1>1 DEF Begin, TimePasses, SomethingFails, tolerantVars, feedVars, FeedTypeOK
<1>3. FeedTypeOK' /\ faults' \in Nat
  BY <1>1, <1>2 DEF FeedTypeOK
<1>4. UnbornAreSilent'
  <2>1. \A j \in Incidents : born'[j] = 0 => born[j] = 0
    BY <1>2
  <2>2. QED
    BY <1>1, <1>2, <2>1 DEF UnbornAreSilent
<1>5. FeedsWellFormedUpToFaults'
  <2> SUFFICES ASSUME NEW j \in Incidents, NEW s \in Subs, NEW c \in Channels
               PROVE  WellFormedUpTo(feed[j][s][c], born'[j], s, faults')
    BY <1>2 DEF FeedsWellFormedUpToFaults
  <2>1. PICK f \in Seq(FeedMessage) : f = feed[j][s][c]
    BY <1>1 DEF FeedTypeOK
  <2>2. WellFormedUpTo(f, born[j], s, faults) /\ Cardinality(Early(f, s)) \in Nat
    BY <1>1, <2>1, EarlyIsFinite DEF FeedsWellFormedUpToFaults
  <2>3. Cardinality(Early(f, s)) <= faults'
    BY <1>1, <1>2, <2>2 DEF WellFormedUpTo
  <2>4. CASE born'[j] = born[j]
    BY <2>1, <2>2, <2>3, <2>4 DEF WellFormedUpTo
  <2>5. CASE born[j] = 0
    <3>1. f = <<>> /\ 1..Len(f) = {}
      BY <1>1, <2>1, <2>5 DEF UnbornAreSilent
    <3>2. QED
      BY <2>1, <2>3, <3>1 DEF WellFormedUpTo
  <2>6. QED
    BY <1>2, <2>4, <2>5
<1>6. QED
  BY <1>3, <1>4, <1>5 DEF TolerantInv

\* With faults, the feeds keep the shape that is left: an alarm first, after
\* the dwell, times in order, nothing after the resolution, and no more early
\* messages on a binding than there were faults (evaluateSubscription and
\* deliver when the sub state's Upsert fails).
THEOREM TolerantShape == TolerantSpec => []FeedsWellFormedUpToFaults
<1>1. TolerantInit => TolerantInv
  <2> SUFFICES ASSUME TolerantInit PROVE TolerantInv
    OBVIOUS
  <2>1. FeedTypeOK /\ UnbornAreSilent /\ faults = 0
    BY DEF TolerantInit, FeedInit, FeedTypeOK, UnbornAreSilent
  <2>2. \A i \in Incidents, s \in Subs, c \in Channels : feed[i][s][c] = <<>>
    BY DEF TolerantInit, FeedInit
  <2>3. ASSUME NEW s \in Subs, NEW start
        PROVE  WellFormedUpTo(<<>>, start, s, 0)
    <3>1. Early(<<>>, s) = {} /\ 1..Len(<<>>) = {}
      BY DEF Early
    <3>2. Cardinality(Early(<<>>, s)) = 0
      BY <3>1, FS_EmptySet
    <3>3. QED
      BY <3>1, <3>2 DEF WellFormedUpTo
  <2>4. QED
    BY <2>1, <2>2, <2>3 DEF TolerantInv, FeedsWellFormedUpToFaults
<1>2. TolerantInv /\ [TolerantNext]_tolerantVars => TolerantInv'
  BY FeedAssumption, MessageTolerated, AgainTolerated, OthersTolerated DEF TolerantNext, FeedNext
<1>3. TolerantInv => FeedsWellFormedUpToFaults
  BY DEF TolerantInv
<1>4. QED
  BY <1>1, <1>2, <1>3, PTL DEF TolerantSpec
=============================================================================
