----------------------------- MODULE AdminProofs -----------------------------
(***************************************************************************)
(* What administration leaves behind.  The cache runs what the rule table  *)
(* holds except where a call explains the difference; a token that was     *)
(* revoked is out, and the last use on record is a good one; a version on  *)
(* record stands for a whole script, and a migration that was cut short    *)
(* can be run again.  For any rules, clients, tokens, requests, processes, *)
(* times and faults.                                                       *)
(***************************************************************************)
EXTENDS RuleAdmin, Access, Migration, TLAPS

(* Rules: the table and the cache. *)

Effective(row) == IF Runs(row) THEN row ELSE NoRow

\* A call marked alone is the only one on its rule, and on a rule that nothing
\* is held against every call is alone.
AloneIsAlone ==
  \A r \in Rules : \A c \in InFlight(r) :
    /\ call[c].alone => InFlight(r) = {c}
    /\ r \notin blamed => call[c].alone

\* Between its two writes such a call has its row in the table; an update of
\* no rule is held against its id.
TableHasIt ==
  \A c \in Clients : call[c].step = "cache" /\ call[c].alone =>
    \/ table[call[c].id] = call[c].row
    \/ call[c].op = "update" /\ table[call[c].id] = NoRow /\ call[c].id \in blamed

\* As long as no call on it is between its two writes, the cache follows.
CacheFollows ==
  up => \A r \in Rules \ blamed :
    (\A c \in InFlight(r) : call[c].step = "store") => cache[r] = Effective(table[r])

\* Nothing is under way in a process that is down.
DownIsQuiet == ~up => \A c \in Clients : call[c].step = "idle"

AdminInv == TypeOK /\ AloneIsAlone /\ TableHasIt /\ CacheFollows /\ DownIsQuiet

-----------------------------------------------------------------------------
\* The values that calls and rows begin with.
LEMMA Empties ==
  /\ NoRow \in Row /\ Effective(NoRow) = NoRow
  /\ Idle \in [step : {"idle", "store", "cache"}, op : Ops, id : Rules,
               row : Row, alone : BOOLEAN]
  /\ Idle.step = "idle"
<1>1. (CHOOSE r \in Rules : TRUE) \in Rules
  BY RuleAdminAssumption
<1>2. NoRow \in Row
  BY RuleAdminAssumption DEF NoRow, Row
<1>3. Effective(NoRow) = NoRow
  BY DEF Effective
<1>4. QED
  BY <1>1, <1>2, <1>3 DEF Idle, Ops

\* A call that is answered leaves the others as they are.
LEMMA Answered ==
  ASSUME TypeOK, NEW c \in Clients,
         call' = [call EXCEPT ![c] = Idle]
  PROVE  /\ call' \in [Clients -> [step : {"idle", "store", "cache"}, op : Ops, id : Rules,
                                   row : Row, alone : BOOLEAN]]
         /\ call'[c].step = "idle" /\ \A d \in Clients \ {c} : call'[d] = call[d]
         /\ \A r \in Rules : InFlight(r)' = InFlight(r) \ {c}
<1>1. /\ call' \in [Clients -> [step : {"idle", "store", "cache"}, op : Ops, id : Rules,
                                row : Row, alone : BOOLEAN]]
      /\ call'[c].step = "idle" /\ \A d \in Clients \ {c} : call'[d] = call[d]
  BY Empties DEF TypeOK
<1>2. QED
  BY <1>1 DEF InFlight

\* A request that comes in: it is alone, or every call on its rule is not.
LEMMA CallRequestStep ==
  ASSUME AdminInv, NEW c \in Clients, NEW op \in Ops, NEW r \in Rules,
         NEW enabled \in BOOLEAN, NEW compiles \in BOOLEAN,
         Request(c, op, r, enabled, compiles)
  PROVE  AdminInv'
<1> DEFINE row == IF op = "delete" THEN NoRow
                  ELSE [v |-> calls + 1, enabled |-> enabled, compiles |-> compiles]
           new == [step |-> "store", op |-> op, id |-> r, row |-> row,
                   alone |-> InFlight(r) = {}]
<1>1. /\ up /\ call[c].step = "idle" /\ calls < MaxCalls /\ calls' = calls + 1
      /\ call' = [d \in Clients |->
           IF d = c THEN new
           ELSE IF d \in InFlight(r) THEN [call[d] EXCEPT !.alone = FALSE] ELSE call[d]]
      /\ blamed' = IF InFlight(r) = {} THEN blamed ELSE blamed \cup {r}
      /\ UNCHANGED <<table, cache, reply, up, faults>>
  BY DEF Request
<1>2. row \in Row
  BY <1>1, Empties, RuleAdminAssumption DEF TypeOK, AdminInv, Row
<1> HIDE DEF row
<1>3. TypeOK
  BY DEF AdminInv
<1>4. /\ new.step = "store" /\ new.id = r /\ new.alone = (InFlight(r) = {})
      /\ new \in [step : {"idle", "store", "cache"}, op : Ops, id : Rules,
                  row : Row, alone : BOOLEAN]
  BY <1>2
<1> HIDE DEF new
<1>5. /\ call'[c] = new
      /\ \A d \in Clients \ {c} :
           /\ call'[d].step = call[d].step /\ call'[d].id = call[d].id
           /\ call'[d].op = call[d].op /\ call'[d].row = call[d].row
           /\ IF d \in InFlight(r) THEN ~call'[d].alone ELSE call'[d] = call[d]
      /\ call' \in [Clients -> [step : {"idle", "store", "cache"}, op : Ops, id : Rules,
                                row : Row, alone : BOOLEAN]]
  BY <1>1, <1>3, <1>4 DEF TypeOK
<1>6. TypeOK'
  BY <1>1, <1>3, <1>5, RuleAdminAssumption DEF TypeOK
<1>7. \A q \in Rules : InFlight(q)' = IF q = r THEN InFlight(q) \cup {c} ELSE InFlight(q)
  BY <1>1, <1>4, <1>5 DEF InFlight
<1>8. AloneIsAlone'
  <2> SUFFICES ASSUME NEW q \in Rules, NEW d \in InFlight(q)'
               PROVE  /\ call'[d].alone => InFlight(q)' = {d}
                      /\ q \notin blamed' => call'[d].alone
    BY DEF AloneIsAlone
  <2>1. d \in Clients /\ call'[d].id = q
    BY DEF InFlight
  <2>2. CASE q = r
    <3>1. CASE d = c
      BY <1>1, <1>4, <1>5, <1>7, <2>2, <3>1
    <3>2. CASE d # c
      BY <1>1, <1>5, <1>7, <2>1, <2>2, <3>2
    <3>3. QED
      BY <3>1, <3>2
  <2>3. CASE q # r
    <3>1. d \in InFlight(q) /\ d # c /\ d \notin InFlight(r)
      BY <1>1, <1>7, <2>3 DEF InFlight
    <3>2. call'[d] = call[d]
      BY <1>5, <2>1, <3>1
    <3>3. QED
      BY <1>1, <1>7, <2>3, <3>1, <3>2 DEF AdminInv, AloneIsAlone
  <2>4. QED
    BY <2>2, <2>3
<1>9. TableHasIt'
  BY <1>1, <1>4, <1>5 DEF AdminInv, TableHasIt
<1>10. CacheFollows'
  <2> SUFFICES ASSUME NEW q \in Rules \ blamed',
                      \A d \in InFlight(q)' : call'[d].step = "store"
               PROVE  cache[q] = Effective(table[q])
    BY <1>1 DEF CacheFollows
  <2>1. \A d \in InFlight(q) : d # c /\ call[d].step = "store"
    BY <1>1, <1>5, <1>7 DEF InFlight
  <2>2. q \in Rules \ blamed
    BY <1>1
  <2>3. QED
    BY <1>1, <2>1, <2>2 DEF AdminInv, CacheFollows
<1>11. DownIsQuiet'
  BY <1>1 DEF DownIsQuiet
<1>12. QED
  BY <1>6, <1>8, <1>9, <1>10, <1>11 DEF AdminInv

\* A call that is answered: it explains what differs, or it was alone and
\* leaves the cache as the table has it.
LEMMA AnswerKeeps ==
  ASSUME AdminInv, NEW c \in Clients, NEW r \in Rules, c \in InFlight(r),
         call' = [call EXCEPT ![c] = Idle], UNCHANGED up,
         \A q \in Rules \ {r} : table'[q] = table[q] /\ cache'[q] = cache[q],
         blamed' \ {r} = blamed \ {r},
         r \notin blamed' => InFlight(r) = {c} /\ cache'[r] = Effective(table'[r])
  PROVE  AloneIsAlone' /\ TableHasIt' /\ CacheFollows' /\ DownIsQuiet'
<1>1. /\ call'[c].step = "idle" /\ \A d \in Clients \ {c} : call'[d] = call[d]
      /\ \A q \in Rules : InFlight(q)' = InFlight(q) \ {c}
  BY Answered DEF AdminInv
<1>2. call[c].id = r /\ \A q \in Rules \ {r} : c \notin InFlight(q)
  BY DEF InFlight
<1>3. \A d \in InFlight(r) \ {c} : ~call[d].alone
  BY DEF AdminInv, AloneIsAlone
<1>4. AloneIsAlone'
  <2> SUFFICES ASSUME NEW q \in Rules, NEW d \in InFlight(q)'
               PROVE  /\ call'[d].alone => InFlight(q)' = {d}
                      /\ q \notin blamed' => call'[d].alone
    BY DEF AloneIsAlone
  <2>1. d \in Clients \ {c} /\ d \in InFlight(q) /\ call'[d] = call[d]
    BY <1>1 DEF InFlight
  <2>2. CASE q = r
    BY <1>3, <2>1, <2>2
  <2>3. CASE q # r
    BY <1>1, <1>2, <2>1, <2>3 DEF AdminInv, AloneIsAlone
  <2>4. QED
    BY <2>2, <2>3
<1>5. TableHasIt'
  <2> SUFFICES ASSUME NEW d \in Clients, call'[d].step = "cache", call'[d].alone
               PROVE  \/ table'[call'[d].id] = call'[d].row
                      \/ /\ call'[d].op = "update" /\ table'[call'[d].id] = NoRow
                         /\ call'[d].id \in blamed'
    BY DEF TableHasIt
  <2>1. d # c /\ call'[d] = call[d] /\ call[d].id \in Rules
    BY <1>1 DEF AdminInv, TypeOK
  <2>2. call[d].id # r
    BY <1>3, <2>1 DEF InFlight
  <2> DEFINE q == call[d].id
  <2>3. table'[q] = table[q] /\ (q \in blamed' <=> q \in blamed)
    BY <2>1, <2>2
  <2>4. table[q] = call[d].row \/ (call[d].op = "update" /\ table[q] = NoRow /\ q \in blamed)
    BY <2>1 DEF AdminInv, TableHasIt
  <2>5. QED
    BY <2>1, <2>3, <2>4
<1>6. CacheFollows'
  <2> SUFFICES ASSUME up, NEW q \in Rules \ blamed',
                      \A d \in InFlight(q)' : call'[d].step = "store"
               PROVE  cache'[q] = Effective(table'[q])
    BY DEF CacheFollows
  <2>1. CASE q = r
    BY <2>1
  <2>2. CASE q # r
    <3>1. \A d \in InFlight(q) : call[d].step = "store"
      BY <1>1, <1>2, <2>2 DEF InFlight
    <3>2. /\ q \in Rules \ blamed
          /\ table'[q] = table[q] /\ cache'[q] = cache[q]
      BY <2>2
    <3>3. cache[q] = Effective(table[q])
      BY <3>1, <3>2 DEF AdminInv, CacheFollows
    <3>4. QED
      BY <3>2, <3>3
  <2>3. QED
    BY <2>1, <2>2
<1>7. DownIsQuiet'
  BY <1>1 DEF AdminInv, DownIsQuiet
<1>8. QED
  BY <1>4, <1>5, <1>6, <1>7

\* What is known of a call that nothing is held against.
LEMMA Undisturbed ==
  ASSUME AdminInv, NEW c \in Clients, NEW r \in Rules, c \in InFlight(r), r \notin blamed
  PROVE  /\ InFlight(r) = {c} /\ up
         /\ call[c].step = "store" => cache[r] = Effective(table[r])
         /\ call[c].step = "cache" => table[r] = call[c].row
<1>1. InFlight(r) = {c} /\ call[c].alone
  BY DEF AdminInv, AloneIsAlone
<1>2. up /\ call[c].id = r /\ call[c].step # "idle"
  BY DEF AdminInv, DownIsQuiet, InFlight
<1>3. call[c].step = "store" => cache[r] = Effective(table[r])
  BY <1>1, <1>2 DEF AdminInv, CacheFollows
<1>4. call[c].step = "cache" => table[r] = call[c].row
  BY <1>1, <1>2 DEF AdminInv, TableHasIt
<1>5. QED
  BY <1>1, <1>2, <1>3, <1>4

\* The types of a call that writes, and of what it stores and caches.
LEMMA CallTypes ==
  ASSUME TypeOK, NEW c \in Clients
  PROVE  /\ call[c] \in [step : {"idle", "store", "cache"}, op : Ops, id : Rules,
                          row : Row, alone : BOOLEAN]
         /\ StoredRow(call[c]) \in Row /\ Cached(call[c]) \in Row
         /\ call[c].step # "idle" => c \in InFlight(call[c].id)
BY Empties DEF TypeOK, StoredRow, Cached, InFlight

\* The store call, whatever comes of it.
LEMMA WriteStep ==
  ASSUME AdminInv, NEW c \in Clients, Write(c)
  PROVE  AdminInv'
<1> DEFINE k == call[c]
           r == k.id
<1>0. TypeOK /\ r \in Rules /\ c \in InFlight(r) /\ k.step = "store" /\ k.op \in Ops
  BY CallTypes DEF Write, AdminInv
<1>1. UNCHANGED <<cache, up, calls, faults>>
  BY DEF Write
<1>2. CASE call' = [call EXCEPT ![c] = Idle]
  <2>1. /\ reply' \in [Clients -> {"none", "ok", "refused", "failed"}]
        /\ \/ UNCHANGED <<table, blamed>>
           \/ /\ table' = [table EXCEPT ![r] = StoredRow(k)] /\ UNCHANGED blamed
              /\ k.op = "create" /\ ~k.row.enabled /\ table[r] = NoRow
    <3>1. k # [k EXCEPT !.step = "cache"] /\ call'[c] = Idle /\ Idle.step = "idle"
      BY <1>0, <1>2, Empties, CallTypes DEF TypeOK
    <3>2. call' # [call EXCEPT ![c].step = "cache"]
      BY <1>0, <3>1, CallTypes DEF TypeOK
    <3>3. k.op = "create" => ~(k.op = "update")
      OBVIOUS
    <3>4. QED
      BY <1>0, <3>2, <3>3 DEF Write, Answer, TypeOK
  <2>2. TypeOK'
    <3>1. call' \in [Clients -> [step : {"idle", "store", "cache"}, op : Ops, id : Rules,
                                row : Row, alone : BOOLEAN]]
      BY <1>0, <1>2, Answered
    <3>2. StoredRow(k) \in Row
      BY <1>0, CallTypes
    <3>3. table' \in [Rules -> Row] /\ blamed' \subseteq Rules
      BY <1>0, <2>1, <3>2 DEF TypeOK
    <3>4. QED
      BY <1>0, <1>1, <2>1, <3>1, <3>3 DEF TypeOK
  <2>3. \A q \in Rules \ {r} : table'[q] = table[q] /\ cache'[q] = cache[q]
    BY <1>0, <1>1, <2>1 DEF TypeOK
  <2>4. ASSUME r \notin blamed'
        PROVE  InFlight(r) = {c} /\ cache'[r] = Effective(table'[r])
    <3>1. InFlight(r) = {c} /\ cache[r] = Effective(table[r])
      BY <1>0, <2>1, <2>4, Undisturbed
    <3>2. CASE UNCHANGED <<table, blamed>>
      BY <1>1, <3>1, <3>2
    <3>3. CASE /\ table' = [table EXCEPT ![r] = StoredRow(k)] /\ k.op = "create"
               /\ ~k.row.enabled /\ table[r] = NoRow
      <4>1. table'[r] = k.row
        BY <1>0, <3>3 DEF TypeOK, StoredRow
      <4>2. Effective(k.row) = NoRow
        BY <3>3 DEF Effective, Runs
      <4>3. QED
        BY <1>1, <3>1, <3>3, <4>1, <4>2, Empties
    <3>4. QED
      BY <2>1, <3>2, <3>3
  <2>5. blamed' \ {r} = blamed \ {r}
    BY <2>1
  <2> HIDE DEF k, r
  <2>6. AloneIsAlone' /\ TableHasIt' /\ CacheFollows' /\ DownIsQuiet'
    BY <1>0, <1>1, <1>2, <2>3, <2>4, <2>5, AnswerKeeps
  <2>7. QED
    BY <2>2, <2>6 DEF AdminInv
<1>3. CASE call' = [call EXCEPT ![c].step = "cache"]
  <2>1. /\ table' = [table EXCEPT ![r] = StoredRow(k)] /\ UNCHANGED reply
        /\ blamed' = IF k.op = "update" /\ table[r] = NoRow THEN blamed \cup {r} ELSE blamed
    <3>1. [k EXCEPT !.step = "cache"].step = "cache" /\ Idle.step = "idle"
      BY <1>0, Empties, CallTypes
    <3>2. call' # [call EXCEPT ![c] = Idle]
      BY <1>0, <1>3, <3>1, CallTypes DEF TypeOK
    <3>3. QED
      BY <1>0, <3>2 DEF Write, Answer
  <2>2. /\ call' \in [Clients -> [step : {"idle", "store", "cache"}, op : Ops, id : Rules,
                                  row : Row, alone : BOOLEAN]]
        /\ call'[c].step = "cache" /\ call'[c].id = r /\ call'[c].op = k.op
        /\ call'[c].row = k.row /\ call'[c].alone = k.alone
        /\ \A d \in Clients \ {c} : call'[d] = call[d]
    BY <1>0, <1>3 DEF TypeOK
  <2>3. TypeOK'
    BY <1>0, <1>1, <2>1, <2>2, CallTypes DEF TypeOK
  <2>4. \A q \in Rules : InFlight(q)' = InFlight(q)
    BY <1>0, <2>2 DEF InFlight
  <2>5. /\ \A d \in Clients : call'[d].alone = call[d].alone
        /\ blamed \subseteq blamed' /\ blamed' \ {r} = blamed \ {r}
    BY <2>1, <2>2
  <2>6. AloneIsAlone'
    <3> SUFFICES ASSUME NEW q \in Rules, NEW d \in InFlight(q)'
                 PROVE  /\ call'[d].alone => InFlight(q)' = {d}
                        /\ q \notin blamed' => call'[d].alone
      BY DEF AloneIsAlone
    <3>1. d \in Clients /\ d \in InFlight(q)
      BY <2>4 DEF InFlight
    <3>2. QED
      BY <2>4, <2>5, <3>1 DEF AdminInv, AloneIsAlone
  <2>7. TableHasIt'
    <3> SUFFICES ASSUME NEW d \in Clients, call'[d].step = "cache", call'[d].alone
                 PROVE  \/ table'[call'[d].id] = call'[d].row
                        \/ /\ call'[d].op = "update" /\ table'[call'[d].id] = NoRow
                           /\ call'[d].id \in blamed'
      BY DEF TableHasIt
    <3>1. CASE d = c
      <4>1. table'[r] = StoredRow(k)
        BY <1>0, <2>1 DEF TypeOK
      <4>2. QED
        BY <2>1, <2>2, <3>1, <4>1 DEF StoredRow
    <3>2. CASE d # c
      <4>1. call'[d] = call[d] /\ call[d].id \in Rules /\ d \in InFlight(call[d].id)
        BY <1>0, <2>2, <3>2, CallTypes
      <4>2. call[d].id # r
        BY <1>0, <3>2, <4>1 DEF AdminInv, AloneIsAlone
      <4>3. table'[call[d].id] = table[call[d].id]
        BY <1>0, <2>1, <4>1, <4>2 DEF TypeOK
      <4>4. QED
        BY <2>5, <4>1, <4>3 DEF AdminInv, TableHasIt
    <3>3. QED
      BY <3>1, <3>2
  <2>8. CacheFollows'
    <3> SUFFICES ASSUME up, NEW q \in Rules \ blamed',
                        \A d \in InFlight(q)' : call'[d].step = "store"
                 PROVE  cache'[q] = Effective(table'[q])
      BY <1>1 DEF CacheFollows
    <3>1. q # r
      BY <1>0, <2>2, <2>4
    <3>2. c \notin InFlight(q)
      BY <3>1 DEF InFlight
    <3>3. \A d \in InFlight(q) : call[d].step = "store"
      BY <2>2, <2>4, <3>2 DEF InFlight
    <3>4. cache[q] = Effective(table[q])
      BY <2>5, <3>3 DEF AdminInv, CacheFollows
    <3>5. QED
      BY <1>0, <1>1, <2>1, <3>1, <3>4 DEF TypeOK
  <2>9. DownIsQuiet'
    BY <1>0, <1>1 DEF AdminInv, DownIsQuiet
  <2>10. QED
    BY <2>3, <2>6, <2>7, <2>8, <2>9 DEF AdminInv
<1>4. QED
  BY <1>2, <1>3 DEF Write, Answer

\* The driver's error is held against the id if the row was written.
LEMMA WriteFailsStep ==
  ASSUME AdminInv, NEW c \in Clients, WriteFails(c)
  PROVE  AdminInv'
<1> DEFINE k == call[c]
           r == k.id
<1>0. TypeOK /\ r \in Rules /\ c \in InFlight(r) /\ k.step = "store"
      /\ StoredRow(k) \in Row
  BY CallTypes DEF WriteFails, AdminInv
<1>1. /\ \/ UNCHANGED <<table, blamed>>
         \/ table' = [table EXCEPT ![r] = StoredRow(k)] /\ blamed' = blamed \cup {r}
      /\ call' = [call EXCEPT ![c] = Idle] /\ reply' = [reply EXCEPT ![c] = "failed"]
      /\ faults < MaxFaults /\ faults' = faults + 1
      /\ UNCHANGED <<cache, up, calls>>
  BY DEF WriteFails, Answer
<1>2. TypeOK'
  <2>1. call' \in [Clients -> [step : {"idle", "store", "cache"}, op : Ops, id : Rules,
                              row : Row, alone : BOOLEAN]]
    BY <1>0, <1>1, Answered
  <2>2. table' \in [Rules -> Row] /\ blamed' \subseteq Rules
    BY <1>0, <1>1 DEF TypeOK
  <2>3. faults' \in 0..MaxFaults
    BY <1>0, <1>1, RuleAdminAssumption DEF TypeOK
  <2>4. QED
    BY <1>0, <1>1, <2>1, <2>2, <2>3 DEF TypeOK
<1>3. \A q \in Rules \ {r} : table'[q] = table[q] /\ cache'[q] = cache[q]
  BY <1>0, <1>1 DEF TypeOK
<1>4. r \notin blamed' => InFlight(r) = {c} /\ cache'[r] = Effective(table'[r])
  BY <1>0, <1>1, Undisturbed
<1>5. blamed' \ {r} = blamed \ {r}
  BY <1>1
<1> HIDE DEF k, r
<1>6. AloneIsAlone' /\ TableHasIt' /\ CacheFollows' /\ DownIsQuiet'
  BY <1>0, <1>1, <1>3, <1>4, <1>5, AnswerKeeps
<1>7. QED
  BY <1>2, <1>6 DEF AdminInv

\* The cache call: what does not compile, and what was not alone, is held
\* against the id; a call that was alone puts it right.
LEMMA UpdateCacheStep ==
  ASSUME AdminInv, NEW c \in Clients, UpdateCache(c)
  PROVE  AdminInv'
<1> DEFINE k == call[c]
           r == k.id
           fails == k.row.enabled /\ ~k.row.compiles
<1>0. TypeOK /\ r \in Rules /\ c \in InFlight(r) /\ k.step = "cache"
      /\ Cached(k) \in Row /\ k.row \in Row
  BY CallTypes DEF UpdateCache, AdminInv
<1>1. /\ cache' = [cache EXCEPT ![r] = Cached(k)]
      /\ call' = [call EXCEPT ![c] = Idle]
      /\ reply' = [reply EXCEPT ![c] = IF fails THEN "refused" ELSE "ok"]
      /\ blamed' = IF fails THEN blamed \cup {r}
                   ELSE IF k.alone /\ (k.op = "delete" \/ table[r] # NoRow) THEN blamed \ {r}
                   ELSE blamed
      /\ UNCHANGED <<table, up, calls, faults>>
  BY DEF UpdateCache, Answer
<1>2. TypeOK'
  <2>1. call' \in [Clients -> [step : {"idle", "store", "cache"}, op : Ops, id : Rules,
                              row : Row, alone : BOOLEAN]]
    BY <1>0, <1>1, Answered
  <2>2. cache' \in [Rules -> Row] /\ blamed' \subseteq Rules
    BY <1>0, <1>1 DEF TypeOK
  <2>3. reply' \in [Clients -> {"none", "ok", "refused", "failed"}]
    BY <1>0, <1>1 DEF TypeOK
  <2>4. QED
    BY <1>0, <1>1, <2>1, <2>2, <2>3 DEF TypeOK
<1>3. \A q \in Rules \ {r} : table'[q] = table[q] /\ cache'[q] = cache[q]
  BY <1>0, <1>1 DEF TypeOK
<1>4. ASSUME r \notin blamed'
      PROVE  InFlight(r) = {c} /\ cache'[r] = Effective(table'[r])
  <2>1. ~fails
    BY <1>1, <1>4
  <2>2. Cached(k) = Effective(k.row)
    BY <1>0, <2>1 DEF Cached, Effective, Runs
  <2>3. CASE r \notin blamed
    <3>1. InFlight(r) = {c} /\ table[r] = k.row
      BY <1>0, <2>3, Undisturbed
    <3>2. QED
      BY <1>0, <1>1, <2>2, <3>1 DEF TypeOK
  <2>4. CASE r \in blamed
    <3>1. k.alone /\ (k.op = "delete" \/ table[r] # NoRow)
      BY <1>1, <1>4, <2>1, <2>4
    <3>2. InFlight(r) = {c}
      BY <1>0, <3>1 DEF AdminInv, AloneIsAlone
    <3>3. table[r] = k.row
      BY <1>0, <3>1 DEF AdminInv, TableHasIt
    <3>4. QED
      BY <1>0, <1>1, <2>2, <3>2, <3>3 DEF TypeOK
  <2>5. QED
    BY <2>3, <2>4
<1>5. blamed' \ {r} = blamed \ {r}
  BY <1>1
<1> HIDE DEF k, r
<1>6. AloneIsAlone' /\ TableHasIt' /\ CacheFollows' /\ DownIsQuiet'
  BY <1>0, <1>1, <1>3, <1>4, <1>5, AnswerKeeps
<1>7. QED
  BY <1>2, <1>6 DEF AdminInv

\* The process ends, and reads its rules again when it starts.
LEMMA RestartStep ==
  ASSUME AdminInv, Stop \/ Reload
  PROVE  AdminInv'
<1>0. TypeOK
  BY DEF AdminInv
<1>1. CASE Stop
  <2>1. /\ up' = FALSE /\ cache' = [r \in Rules |-> NoRow] /\ call' = [c \in Clients |-> Idle]
        /\ faults < MaxFaults /\ faults' = faults + 1
        /\ UNCHANGED <<table, reply, blamed, calls>>
    BY <1>1 DEF Stop
  <2>2. faults' \in 0..MaxFaults
    BY <1>0, <2>1, RuleAdminAssumption DEF TypeOK
  <2>3. TypeOK'
    BY <1>0, <2>1, <2>2, Empties DEF TypeOK
  <2>4. \A c \in Clients : call'[c].step = "idle"
    BY <2>1, Empties
  <2>5. QED
    BY <2>1, <2>3, <2>4 DEF AdminInv, AloneIsAlone, TableHasIt, CacheFollows, DownIsQuiet, InFlight
<1>2. CASE Reload
  <2>1. /\ ~up /\ blamed' = {} /\ up' = TRUE
        /\ cache' = [r \in Rules |-> IF Runs(table[r]) THEN table[r] ELSE NoRow]
        /\ UNCHANGED <<table, call, reply, calls, faults>>
    BY <1>2 DEF Reload
  <2>2. TypeOK'
    BY <1>0, <2>1, Empties DEF TypeOK
  <2>3. \A c \in Clients : call'[c].step = "idle"
    BY <2>1 DEF AdminInv, DownIsQuiet
  <2>4. \A r \in Rules : cache'[r] = Effective(table'[r])
    BY <2>1 DEF Effective
  <2>5. QED
    BY <2>1, <2>2, <2>3, <2>4 DEF AdminInv, AloneIsAlone, TableHasIt, CacheFollows,
                                  DownIsQuiet, InFlight
<1>3. QED
  BY <1>1, <1>2

-----------------------------------------------------------------------------
\* The inductive invariant of table, cache and calls.
THEOREM AdminInvariant == Spec => []AdminInv
<1>1. Init => AdminInv
  <2> SUFFICES ASSUME Init PROVE AdminInv
    OBVIOUS
  <2>1. TypeOK
    BY Empties, RuleAdminAssumption DEF Init, TypeOK
  <2>2. \A c \in Clients : call[c].step = "idle"
    BY Empties DEF Init
  <2>3. CacheFollows
    BY Empties DEF Init, CacheFollows
  <2>4. QED
    BY <2>1, <2>2, <2>3 DEF AdminInv, AloneIsAlone, TableHasIt, DownIsQuiet, InFlight
<1>2. AdminInv /\ [Next]_vars => AdminInv'
  <2> SUFFICES ASSUME AdminInv, [Next]_vars PROVE AdminInv'
    OBVIOUS
  <2>1. ASSUME NEW c \in Clients, BadRequest(c)
        PROVE  AdminInv'
    BY <2>1 DEF BadRequest, AdminInv, TypeOK, AloneIsAlone, TableHasIt, CacheFollows,
                DownIsQuiet, InFlight
  <2>2. CASE UNCHANGED vars
    BY <2>2 DEF vars, AdminInv, TypeOK, AloneIsAlone, TableHasIt, CacheFollows,
                DownIsQuiet, InFlight
  <2>3. QED
    BY <2>1, <2>2, CallRequestStep, WriteStep, WriteFailsStep, UpdateCacheStep, RestartStep DEF Next
<1>3. QED
  BY <1>1, <1>2, PTL DEF Spec

\* The cache runs what the table holds, but for an id that two calls were in
\* at once, whose call failed half way, whose condition does not compile or
\* that was updated while there was no such rule (engine.go:284, 235).
THEOREM DriftHasCause == Spec => []DriftIsExplained
<1>1. AdminInv => DriftIsExplained
  BY DEF AdminInv, CacheFollows, DriftIsExplained, Quiet, Effective
<1>2. QED
  BY <1>1, AdminInvariant, PTL

-----------------------------------------------------------------------------
(* Tokens: revocation and the last use. *)

\* A row that is there is never issued anew, so what was answered about it
\* stands: the token is revoked for good.
GoneIsRevoked == \A i \in Ids : gone[i] > 0 => Issued(i) /\ tokens[i].revoked

\* A request that came after the answer bears such a token, and is not past
\* the gate.
LateIsStopped ==
  \A c \in Callers : request[c].late =>
    /\ request[c].bearer \in Ids /\ gone[request[c].bearer] > 0
    /\ request[c].step # "handle"

\* Times at which a token was good: on record, and about to be.
GoodAt(i, t) ==
  /\ Issued(i) /\ tokens[i].created <= t /\ t < tokens[i].expires /\ t <= clock
  /\ gone[i] = 0 \/ t <= gone[i]

UsesAreGood ==
  /\ \A i \in Ids : Issued(i) => tokens[i].created <= clock
  /\ \A i \in Ids : tokens[i].lastUsed > 0 => GoodAt(i, tokens[i].lastUsed)
  /\ \A u \in touches : GoodAt(u[1], u[2])

AccessInv == AccessTypeOK /\ GoneIsRevoked /\ LateIsStopped /\ UsesAreGood

-----------------------------------------------------------------------------
\* Nothing is there to begin with.
LEMMA AccessInvInit ==
  ASSUME AccessAssumption, AccessInit
  PROVE  AccessInv
<1>1. AccessTypeOK
  BY DEF AccessAssumption, AccessInit, AccessTypeOK, NoToken, TokenRow, NoRequest, Bearers, Never
<1>2. GoneIsRevoked /\ LateIsStopped /\ UsesAreGood
  BY DEF AccessInit, GoneIsRevoked, LateIsStopped, UsesAreGood, NoToken, NoRequest
<1>3. QED
  BY <1>1, <1>2 DEF AccessInv

\* What a step may do to a row: it stays what it was for a request, but is
\* issued once, is revoked for good and has its last use written.
RowStep(i) ==
  \/ tokens'[i] = tokens[i]
  \/ /\ ~Issued(i) /\ tokens'[i] \in TokenRow /\ tokens'[i].scope # "none"
     /\ tokens'[i].lastUsed = 0 /\ tokens'[i].created = clock
  \/ Issued(i) /\ tokens'[i] = [tokens[i] EXCEPT !.revoked = TRUE]
  \/ \E ts \in 1..MaxClock :
       <<i, ts>> \in touches /\ tokens'[i] = [tokens[i] EXCEPT !.lastUsed = ts]

TokenStep ==
  /\ tokens' \in [Ids -> TokenRow]
  /\ \A i \in Ids : RowStep(i)
  /\ gone' \in [Ids -> 0..MaxClock]
  /\ \A i \in Ids : gone'[i] # gone[i] => /\ gone[i] = 0 /\ gone'[i] = clock
                                   /\ Issued(i) /\ tokens'[i].revoked

\* What it may do to a request: only a token that is good is let in.
Entered(c) ==
  /\ request'[c] = [request[c] EXCEPT !.step = "handle", !.scope = request'[c].scope]
  /\ request[c].step = "auth"
  /\ request[c].bearer = "shared" \/ Usable(request[c].bearer)

BearerStep ==
  /\ request' \in [Callers -> [step : {"none", "auth", "handle"}, bearer : Bearers,
                               scope : Scopes \cup {"none"}, late : BOOLEAN]]
  /\ \A c \in Callers :
       \/ request'[c] = request[c]
       \/ request'[c] = NoRequest
       \/ /\ request'[c].step = "auth"
          /\ request'[c].late = (request'[c].bearer \in Ids /\ gone[request'[c].bearer] > 0)
       \/ Entered(c)

TouchStep ==
  /\ touches' \subseteq Ids \X (1..MaxClock)
  /\ \A u \in touches' \ touches : Usable(u[1]) /\ tokens' = tokens /\ u[2] = clock

\* Every action is such a step.
LEMMA Steps ==
  ASSUME AccessAssumption, AccessTypeOK, UsesAreGood, AccessNext
  PROVE  TokenStep /\ BearerStep /\ TouchStep
<1> USE DEF TokenStep, BearerStep, TouchStep, RowStep, AccessTypeOK, Reply, Fails
<1>0. NoRequest \in [step : {"none", "auth", "handle"}, bearer : Bearers,
                     scope : Scopes \cup {"none"}, late : BOOLEAN]
  BY DEF NoRequest, Bearers
<1>1. ASSUME NEW c \in Callers,
             \/ NoBearer(c) \/ LookupFails(c) \/ Forbid(c) \/ Serve(c)
             \/ RefuseIssue(c) \/ HandlerFails(c)
             \/ \E id \in Ids : RevokeUnknown(c, id)
      PROVE  TokenStep /\ BearerStep /\ TouchStep
  <2>1. Reply(c, 200) /\ UNCHANGED <<tokens, touches, gone>>
    BY <1>1 DEF NoBearer, LookupFails, Forbid, Serve, RefuseIssue, HandlerFails, RevokeUnknown
  <2>2. QED
    BY <1>0, <2>1
<1>2. ASSUME NEW c \in Callers, NEW bearer \in Bearers, Call(c, bearer)
      PROVE  TokenStep /\ BearerStep /\ TouchStep
  BY <1>2 DEF Call
<1>3. ASSUME NEW c \in Callers, Authenticate(c)
      PROVE  TokenStep /\ BearerStep /\ TouchStep
  <2>1. request[c].step = "auth" /\ UNCHANGED <<clock, tokens, gone, accessFaults>>
    BY <1>3 DEF Authenticate
  <2>2. TokenStep
    BY <2>1
  <2>3. CASE Reply(c, 401) /\ UNCHANGED touches
    <3>1. request' = [request EXCEPT ![c] = NoRequest]
      BY <2>3
    <3>2. \A d \in Callers : request'[d] = request[d] \/ request'[d] = NoRequest
      BY <3>1
    <3>3. BearerStep
      BY <1>0, <3>1, <3>2
    <3>4. QED
      BY <2>2, <2>3, <3>3
  <2>4. ASSUME NEW scope \in Scopes,
               request' = [request EXCEPT ![c].step = "handle", ![c].scope = scope],
               request[c].bearer = "shared" \/ Usable(request[c].bearer)
        PROVE  BearerStep
    BY <2>1, <2>4 DEF Entered
  <2>5. CASE request[c].bearer = "shared" /\ UNCHANGED touches
             /\ request' = [request EXCEPT ![c].step = "handle", ![c].scope = "admin"]
    BY <2>2, <2>4, <2>5 DEF Scopes
  <2>6. CASE /\ Usable(request[c].bearer)
             /\ touches' = touches \cup {<<request[c].bearer, clock>>}
             /\ request' = [request EXCEPT ![c].step = "handle",
                                           ![c].scope = tokens[request[c].bearer].scope]
    <3>1. tokens[request[c].bearer].scope \in Scopes
      BY <2>6 DEF Usable, Issued, TokenRow
    <3>2. BearerStep
      BY <2>4, <2>6, <3>1
    <3>3. TouchStep
      BY <2>1, <2>6 DEF Usable
    <3>4. QED
      BY <2>2, <3>2, <3>3
  <2>7. QED
    BY <1>3, <2>3, <2>5, <2>6 DEF Authenticate
<1>4. ASSUME NEW c \in Callers, NEW id \in Ids, NEW scope \in Scopes,
             NEW expires \in {clock + 1, Never}, Issue(c, id, scope, expires)
      PROVE  TokenStep /\ BearerStep /\ TouchStep
  <2> DEFINE row == [scope |-> scope, created |-> clock, expires |-> expires,
                     lastUsed |-> 0, revoked |-> FALSE]
  <2>1. /\ ~Issued(id) /\ tokens' = [tokens EXCEPT ![id] = row]
        /\ request' = [request EXCEPT ![c] = NoRequest] /\ UNCHANGED <<touches, gone>>
    BY <1>4 DEF Issue
  <2>2. row \in TokenRow /\ row.scope # "none" /\ row.lastUsed = 0 /\ row.created = clock
    BY DEF TokenRow, Scopes, Never, AccessAssumption
  <2>3. \A i \in Ids : tokens'[i] = IF i = id THEN row ELSE tokens[i]
    BY <2>1
  <2> HIDE DEF row
  <2>4. TokenStep
    BY <2>1, <2>2, <2>3
  <2>5. QED
    BY <1>0, <2>1, <2>4
<1>5. ASSUME NEW c \in Callers, NEW id \in Ids, Revoke(c, id)
      PROVE  TokenStep /\ BearerStep /\ TouchStep
  <2>1. /\ Issued(id) /\ tokens' = [tokens EXCEPT ![id].revoked = TRUE]
        /\ request' = [request EXCEPT ![c] = NoRequest] /\ UNCHANGED touches
        /\ \/ gone' = gone
           \/ gone' = [gone EXCEPT ![id] = IF @ = 0 THEN clock ELSE @]
    BY <1>5 DEF Revoke
  <2>2. \A i \in Ids : tokens'[i] = IF i = id THEN [tokens[i] EXCEPT !.revoked = TRUE] ELSE tokens[i]
    BY <2>1
  <2>3. tokens' \in [Ids -> TokenRow]
    <3>1. \A row \in TokenRow : [row EXCEPT !.revoked = TRUE] \in TokenRow
      BY DEF TokenRow
    <3>2. QED
      BY <2>1, <3>1
  <2>4. tokens'[id].revoked
    <3>1. tokens[id] \in TokenRow
      OBVIOUS
    <3>2. tokens'[id] = [tokens[id] EXCEPT !.revoked = TRUE]
      BY <2>2
    <3>3. QED
      BY <3>1, <3>2 DEF TokenRow
  <2>5. TokenStep
    BY <2>1, <2>2, <2>3, <2>4
  <2>6. QED
    BY <1>0, <2>1, <2>5
<1>6. ASSUME NEW u \in touches, TouchLastUsed(u[1], u[2])
      PROVE  TokenStep /\ BearerStep /\ TouchStep
  <2>1. u[1] \in Ids /\ u[2] \in 1..MaxClock /\ u = <<u[1], u[2]>>
    OBVIOUS
  <2>2. /\ touches' = touches \ {u} /\ UNCHANGED <<request, gone>>
        /\ tokens' = [tokens EXCEPT ![u[1]] = [tokens[u[1]] EXCEPT !.lastUsed = u[2]]]
    BY <1>6, <2>1 DEF TouchLastUsed, Touched
  <2>3. tokens' \in [Ids -> TokenRow]
    BY <2>1, <2>2 DEF TokenRow
  <2>4. TokenStep
    BY <2>1, <2>2, <2>3
  <2>5. QED
    BY <2>2, <2>4
<1>7. ASSUME NEW u \in touches, TouchFails(u[1], u[2])
      PROVE  TokenStep /\ BearerStep /\ TouchStep
  BY <1>7 DEF TouchFails
<1>8. CASE RestartServer
  BY <1>0, <1>8 DEF RestartServer
<1>9. CASE TimePasses
  BY <1>9 DEF TimePasses
<1> HIDE DEF TokenStep, BearerStep, TouchStep, RowStep, AccessTypeOK, Reply, Fails
<1>10. QED
  BY <1>1, <1>2, <1>3, <1>4, <1>5, <1>6, <1>7, <1>8, <1>9 DEF AccessNext

\* The clock stays in its range, and does not go back.
LEMMA ClockStep ==
  ASSUME AccessAssumption, AccessTypeOK, AccessNext
  PROVE  /\ clock' \in 1..MaxClock /\ clock <= clock'
         /\ accessFaults' \in 0..MaxAccessFaults
<1> DEFINE Keeps == clock' = clock
           Counts == accessFaults' = accessFaults \/ Fails
<1>1. ASSUME NEW c \in Callers,
             \/ \E bearer \in Bearers : Call(c, bearer)
             \/ NoBearer(c) \/ Authenticate(c) \/ LookupFails(c) \/ Forbid(c) \/ Serve(c)
             \/ RefuseIssue(c) \/ HandlerFails(c)
      PROVE  Keeps /\ Counts
  BY <1>1 DEF Call, NoBearer, Authenticate, LookupFails, Forbid, Serve, RefuseIssue, HandlerFails
<1>2. ASSUME NEW c \in Callers, NEW id \in Ids,
             \/ \E scope \in Scopes, expires \in {clock + 1, Never} : Issue(c, id, scope, expires)
             \/ Revoke(c, id) \/ RevokeUnknown(c, id)
      PROVE  Keeps /\ Counts
  BY <1>2 DEF Issue, Revoke, RevokeUnknown
<1>3. ASSUME NEW u \in touches, TouchLastUsed(u[1], u[2]) \/ TouchFails(u[1], u[2])
      PROVE  Keeps /\ Counts
  BY <1>3 DEF TouchLastUsed, TouchFails
<1>4. ASSUME RestartServer
      PROVE  Keeps /\ Counts
  BY <1>4 DEF RestartServer
<1>5. ASSUME TimePasses
      PROVE  /\ clock < MaxClock /\ clock' = clock + 1
             /\ accessFaults' = accessFaults
  BY <1>5 DEF TimePasses
<1> HIDE DEF Keeps, Counts
<1>6. (Keeps /\ Counts) \/ TimePasses
  BY <1>1, <1>2, <1>3, <1>4 DEF AccessNext
<1>7. QED
  BY <1>5, <1>6 DEF Keeps, Counts, Fails, AccessTypeOK, AccessAssumption

-----------------------------------------------------------------------------
\* No step loses a row, moves its life or takes a revocation back.
LEMMA RowsStay ==
  ASSUME AccessTypeOK, TokenStep, NEW i \in Ids, Issued(i)
  PROVE  /\ Issued(i)' /\ tokens'[i].created = tokens[i].created
         /\ tokens'[i].expires = tokens[i].expires
         /\ tokens[i].revoked => tokens'[i].revoked
<1>1. tokens[i] \in TokenRow
  BY DEF AccessTypeOK
<1>2. RowStep(i)
  BY DEF TokenStep
<1>3. QED
  BY <1>1, <1>2 DEF RowStep, TokenRow, Issued

\* An answered revocation is never taken back.
LEMMA GoneStep ==
  ASSUME AccessTypeOK, GoneIsRevoked, TokenStep
  PROVE  GoneIsRevoked'
<1> SUFFICES ASSUME NEW i \in Ids, gone'[i] > 0
             PROVE  Issued(i)' /\ tokens'[i].revoked
  BY DEF GoneIsRevoked
<1>1. CASE gone'[i] = gone[i]
  BY <1>1, RowsStay DEF GoneIsRevoked
<1>2. CASE gone'[i] # gone[i]
  BY <1>2, RowsStay DEF TokenStep
<1>3. QED
  BY <1>1, <1>2

\* A request that came after the answer does not pass the gate.
LEMMA LateStep ==
  ASSUME AccessAssumption, AccessTypeOK, GoneIsRevoked, LateIsStopped, TokenStep, BearerStep
  PROVE  LateIsStopped'
<1> SUFFICES ASSUME NEW c \in Callers, request'[c].late
             PROVE  /\ request'[c].bearer \in Ids /\ gone'[request'[c].bearer] > 0
                    /\ request'[c].step # "handle"
  BY DEF LateIsStopped
<1>1. \A i \in Ids : gone[i] > 0 => gone'[i] > 0
  BY DEF TokenStep, AccessTypeOK
<1>2. CASE request'[c] = request[c]
  BY <1>1, <1>2 DEF LateIsStopped
<1>3. CASE request'[c] = NoRequest
  BY <1>3 DEF NoRequest
<1>4. CASE /\ request'[c].step = "auth"
           /\ request'[c].late = (request'[c].bearer \in Ids /\ gone[request'[c].bearer] > 0)
  BY <1>1, <1>4
<1>5. CASE Entered(c)
  <2>1. request[c] \in [step : {"none", "auth", "handle"}, bearer : Bearers,
                        scope : Scopes \cup {"none"}, late : BOOLEAN]
    BY DEF AccessTypeOK
  <2>2. request[c].late
    BY <1>5, <2>1 DEF Entered
  <2>3. request[c].bearer \in Ids /\ gone[request[c].bearer] > 0
    BY <2>2 DEF LateIsStopped
  <2>4. QED
    BY <1>5, <2>3 DEF Entered, AccessAssumption, GoneIsRevoked, Usable
<1>6. QED
  BY <1>2, <1>3, <1>4, <1>5 DEF BearerStep

\* GoodAt, of the state after a step.
StillGood(i, t) ==
  /\ tokens'[i].scope # "none" /\ tokens'[i].created <= t
  /\ t < tokens'[i].expires /\ t <= clock'
  /\ gone'[i] = 0 \/ t <= gone'[i]

\* A time at which a token was good stays one.
LEMMA GoodStays ==
  ASSUME AccessTypeOK, TokenStep, clock' \in 1..MaxClock, clock <= clock',
         NEW i \in Ids, NEW t \in 1..MaxClock, GoodAt(i, t)
  PROVE  StillGood(i, t)
<1>1. /\ Issued(i)' /\ tokens'[i].created = tokens[i].created
      /\ tokens'[i].expires = tokens[i].expires
  BY RowsStay DEF GoodAt
<1>2. t <= clock'
  BY DEF GoodAt, AccessTypeOK
<1>3. gone'[i] = 0 \/ t <= gone'[i]
  BY DEF GoodAt, TokenStep
<1>4. QED
  BY <1>1, <1>2, <1>3 DEF GoodAt, StillGood, Issued

\* The last use on record, and those about to be, are good.
LEMMA UsesStep ==
  ASSUME AccessTypeOK, AccessTypeOK', GoneIsRevoked, UsesAreGood, TokenStep, TouchStep,
         clock' \in 1..MaxClock, clock <= clock'
  PROVE  UsesAreGood'
<1>1. ASSUME NEW i \in Ids, Issued(i)'
      PROVE  tokens'[i].created <= clock'
  <2>1. tokens[i] \in TokenRow /\ RowStep(i) /\ clock \in 1..MaxClock
    BY DEF AccessTypeOK, TokenStep
  <2>2. CASE Issued(i)
    BY <2>1, <2>2, RowsStay DEF UsesAreGood, TokenRow
  <2>3. CASE ~Issued(i)
    <3>1. CASE tokens'[i].created = clock
      BY <2>1, <3>1
    <3>2. CASE tokens'[i] = tokens[i]
      BY <1>1, <2>3, <3>2 DEF Issued
    <3>3. CASE \E ts \in 1..MaxClock : <<i, ts>> \in touches
      BY <2>3, <3>3 DEF UsesAreGood, GoodAt
    <3>4. QED
      BY <2>1, <2>3, <3>1, <3>2, <3>3 DEF RowStep
  <2>4. QED
    BY <2>2, <2>3
<1>2. ASSUME NEW i \in Ids, NEW t \in 1..MaxClock, tokens'[i].lastUsed = t
      PROVE  StillGood(i, t)
  <2>1. tokens[i] \in TokenRow /\ RowStep(i)
    BY DEF AccessTypeOK, TokenStep
  <2>2. t = tokens[i].lastUsed \/ <<i, t>> \in touches
    <3>1. CASE tokens'[i] = tokens[i]
      BY <1>2, <3>1
    <3>2. CASE tokens'[i].lastUsed = 0
      BY <1>2, <3>2
    <3>3. CASE tokens'[i] = [tokens[i] EXCEPT !.revoked = TRUE]
      BY <1>2, <2>1, <3>3 DEF TokenRow
    <3>4. ASSUME NEW ts \in 1..MaxClock, <<i, ts>> \in touches,
                 tokens'[i] = [tokens[i] EXCEPT !.lastUsed = ts]
          PROVE  <<i, t>> \in touches
      <4>1. tokens'[i].lastUsed = ts
        BY <2>1, <3>4 DEF TokenRow
      <4>2. QED
        BY <1>2, <3>4, <4>1
    <3>5. QED
      BY <2>1, <3>1, <3>2, <3>3, <3>4 DEF RowStep
  <2>3. GoodAt(i, t)
    BY <2>2 DEF UsesAreGood
  <2>4. QED
    BY <2>3, GoodStays
<1>3. ASSUME NEW u \in touches'
      PROVE  StillGood(u[1], u[2])
  <2>1. u[1] \in Ids /\ u[2] \in 1..MaxClock
    BY DEF TouchStep
  <2>2. GoodAt(u[1], u[2])
    <3>1. CASE u \in touches
      BY <3>1 DEF UsesAreGood
    <3>2. CASE u \notin touches
      <4>1. Usable(u[1]) /\ u[2] = clock
        BY <3>2 DEF TouchStep
      <4>2. tokens[u[1]] \in TokenRow /\ clock \in 1..MaxClock /\ gone[u[1]] \in 0..MaxClock
        BY <2>1 DEF AccessTypeOK
      <4>3. gone[u[1]] = 0
        BY <2>1, <4>1, <4>2 DEF GoneIsRevoked, Usable
      <4>4. tokens[u[1]].created <= clock /\ clock < tokens[u[1]].expires
        BY <2>1, <4>1, <4>2 DEF UsesAreGood, Usable, Expired, TokenRow, Never
      <4>5. QED
        BY <4>1, <4>2, <4>3, <4>4 DEF GoodAt, Usable
    <3>3. QED
      BY <3>1, <3>2
  <2>3. QED
    BY <2>1, <2>2, GoodStays
<1>4. \A i \in Ids : tokens'[i].lastUsed \in 0..MaxClock
  BY DEF AccessTypeOK, TokenRow
<1>5. \A i \in Ids : tokens'[i].lastUsed > 0 => StillGood(i, tokens'[i].lastUsed)
  BY <1>2, <1>4
<1>6. QED
  BY <1>1, <1>3, <1>5 DEF UsesAreGood, GoodAt, StillGood, Issued

\* The inductive invariant of tokens and requests.
THEOREM AccessInvariant ==
  ASSUME AccessAssumption
  PROVE  AccessSpec => []AccessInv
<1>1. AccessInit => AccessInv
  BY AccessInvInit
<1>2. AccessInv /\ [AccessNext]_accessVars => AccessInv'
  <2> SUFFICES ASSUME AccessInv, [AccessNext]_accessVars
               PROVE  AccessInv'
    OBVIOUS
  <2>1. CASE AccessNext
    <3>1. TokenStep /\ BearerStep /\ TouchStep
      BY <2>1, Steps DEF AccessInv
    <3>2. clock' \in 1..MaxClock /\ clock <= clock' /\ accessFaults' \in 0..MaxAccessFaults
      BY <2>1, ClockStep DEF AccessInv
    <3>3. AccessTypeOK'
      BY <3>1, <3>2 DEF AccessTypeOK, TokenStep, BearerStep, TouchStep
    <3>4. QED
      BY <3>1, <3>2, <3>3, GoneStep, LateStep, UsesStep DEF AccessInv
  <2>2. CASE UNCHANGED accessVars
    BY <2>2 DEF accessVars, AccessInv, AccessTypeOK, GoneIsRevoked, LateIsStopped,
                UsesAreGood, GoodAt, Issued
  <2>3. QED
    BY <2>1, <2>2
<1>3. QED
  BY <1>1, <1>2, PTL DEF AccessSpec

\* Once a revocation was answered, no later request is let in with the token,
\* whatever goroutines of earlier ones still write to its row (auth.go:171).
THEOREM RevokedIsOut ==
  ASSUME AccessAssumption
  PROVE  AccessSpec => []RevokedStaysOut
<1>1. AccessInv => RevokedStaysOut
  BY DEF AccessInv, LateIsStopped, RevokedStaysOut
<1>2. QED
  BY <1>1, AccessInvariant, PTL

\* The last use on record is a time at which the token was good, however late
\* its goroutine wrote it (auth.go:171-177).
THEOREM LastUseIsGood ==
  ASSUME AccessAssumption
  PROVE  AccessSpec => []LastUseWasGood
<1>1. AccessInv => LastUseWasGood
  BY DEF AccessInv, UsesAreGood, GoodAt, LastUseWasGood
<1>2. QED
  BY <1>1, AccessInvariant, PTL

\* Every variable of the two parts keeps its type, however the calls on the
\* rules and on the tokens are interleaved (api.go:347, auth.go:116).
THEOREM AdminTypeCorrect ==
  ASSUME AccessAssumption
  PROVE  (Spec => []TypeOK) /\ (AccessSpec => []AccessTypeOK)
<1>1. AdminInv => TypeOK
  BY DEF AdminInv
<1>2. AccessInv => AccessTypeOK
  BY DEF AccessInv
<1>3. QED
  BY <1>1, <1>2, AdminInvariant, AccessInvariant, PTL

-----------------------------------------------------------------------------
(* Versions: migrations of the store. *)

TypeInv ==
  /\ driver \in Drivers
  /\ versions \subseteq 1..Latest
  /\ migrating \in [Processes -> 0..(Latest + 1)]
  /\ position \in [Processes -> 0..3]
  /\ \A p \in Processes : position[p] > 0 => migrating[p] \in 1..Latest

\* A process that goes statement by statement has done those before its own.
DoneSoFar ==
  \A p \in Processes : \A k \in 1..(position[p] - 1) :
    ~Transactional /\ k \in DOMAIN Script(migrating[p]) => <<migrating[p], k>> \in schema

\* With transactions nothing of a version is there before its record.
NothingAhead ==
  Transactional => \A v \in (1..Latest) \ versions, k \in 1..2 : <<v, k>> \notin schema

MigrationInv == TypeInv /\ VersionsAreWhole /\ DoneSoFar /\ NothingAhead

-----------------------------------------------------------------------------
\* A script has one statement, that of the last version two.
LEMMA ScriptSize ==
  \A v \in 1..Latest :
    /\ DOMAIN Script(v) = 1..Len(Script(v))
    /\ Len(Script(v)) = IF v < Latest THEN 1 ELSE 2
<1> SUFFICES ASSUME NEW v \in 1..Latest
             PROVE  /\ DOMAIN Script(v) = 1..Len(Script(v))
                    /\ Len(Script(v)) = IF v < Latest THEN 1 ELSE 2
  OBVIOUS
<1>1. CASE v < Latest
  <2>1. Script(v) = <<TRUE>>
    BY <1>1 DEF Script
  <2>2. QED
    BY <1>1, <2>1
<1>2. CASE ~(v < Latest)
  <2>1. Script(v) = <<FALSE, driver # "mysql">>
    BY <1>2 DEF Script
  <2> DEFINE repeatable == driver # "mysql"
  <2>2. Len(<<FALSE, repeatable>>) = 2 /\ DOMAIN <<FALSE, repeatable>> = 1..2
    <3> HIDE DEF repeatable
    <3> QED OBVIOUS
  <2>3. QED
    BY <1>2, <2>1, <2>2
<1>3. QED
  BY <1>1, <1>2

\* What a step of a process comes to, whichever it is: a version it puts on
\* record is its own and whole, and it goes on by one statement or version.
Progress(p) ==
  LET v == migrating[p]  k == position[p] IN
  /\ driver' = driver
  /\ \/ schema' = schema
     \/ ~Transactional /\ v \in 1..Latest /\ schema' = schema \cup {<<v, k>>}
     \/ v \in versions' /\ v \in 1..Latest /\ schema' = schema \cup Statements(v)
  /\ \/ versions' = versions
     \/ v \in 1..Latest /\ versions' = versions \cup {v} /\ Statements(v) \subseteq schema'
  /\ \/ At(p, 0, 0) \/ At(p, 1, 0)
     \/ v \in 1..Latest /\ At(p, v, 1)
     \/ v \in 1..Latest /\ v \in versions' /\ At(p, v + 1, 0)
     \/ v \in 1..Latest /\ k \in DOMAIN Script(v) /\ <<v, k>> \in schema' /\ At(p, v, k + 1)

\* Behind its last statement a process finds the whole version.
LEMMA AllAppliedIsWhole ==
  ASSUME MigrationInv, NEW p \in Processes, ~Transactional, AllApplied(p)
  PROVE  Statements(migrating[p]) \subseteq schema
<1>1. migrating[p] \in 1..Latest /\ position[p] \in Nat
  BY DEF AllApplied, MigrationInv, TypeInv
<1>2. \A k \in DOMAIN Script(migrating[p]) : k \in 1..(position[p] - 1)
  BY <1>1, ScriptSize DEF AllApplied, Latest
<1>3. QED
  BY <1>2 DEF MigrationInv, DoneSoFar, Statements

\* Every action of a process is such a step.
LEMMA ProgressStep ==
  ASSUME MigrationInv, NEW p \in Processes,
         \/ BeginMigrate(p) \/ LookUpVersion(p) \/ ApplyInTx(p)
         \/ ApplyStatement(p) \/ RecordVersion(p) \/ MigrateFails(p)
  PROVE  Progress(p)
<1> DEFINE v == migrating[p]
           k == position[p]
<1>1. CASE BeginMigrate(p)
  BY <1>1 DEF BeginMigrate, Progress
<1>2. CASE LookUpVersion(p)
  BY <1>2 DEF LookUpVersion, Progress
<1>3. CASE ApplyInTx(p)
  <2>1. v \in 1..Latest
    BY <1>3 DEF ApplyInTx, MigrationInv, TypeInv
  <2>2. QED
    BY <1>3, <2>1 DEF ApplyInTx, Applied, GivesUp, Progress
<1>4. CASE ApplyStatement(p)
  <2>1. v \in 1..Latest
    BY <1>4 DEF ApplyStatement, MigrationInv, TypeInv
  <2>2. QED
    BY <1>4, <2>1 DEF ApplyStatement, GivesUp, Progress
<1>5. CASE RecordVersion(p)
  <2>1. v \in 1..Latest /\ Statements(v) \subseteq schema
    BY <1>5, AllAppliedIsWhole DEF RecordVersion, AllApplied
  <2>2. QED
    BY <1>5, <2>1 DEF RecordVersion, GivesUp, Progress
<1>6. CASE MigrateFails(p)
  <2>1. GivesUp(p) /\ driver' = driver
    BY <1>6 DEF MigrateFails
  <2>2. CASE UNCHANGED <<schema, versions>>
    BY <2>1, <2>2 DEF GivesUp, Progress
  <2>3. CASE Transactional /\ k = 1 /\ Applied(v)
    <3>1. v \in 1..Latest
      BY <2>3 DEF MigrationInv, TypeInv
    <3>2. QED
      BY <2>1, <2>3, <3>1 DEF GivesUp, Progress, Applied
  <2>4. CASE ~Transactional /\ k > 0 /\ schema' = schema \cup {<<v, k>>} /\ UNCHANGED versions
    <3>1. v \in 1..Latest
      BY <2>4 DEF MigrationInv, TypeInv
    <3>2. QED
      BY <2>1, <2>4, <3>1 DEF GivesUp, Progress
  <2>5. CASE ~Transactional /\ AllApplied(p) /\ versions' = versions \cup {v} /\ UNCHANGED schema
    <3>1. v \in 1..Latest /\ Statements(v) \subseteq schema
      BY <2>5, AllAppliedIsWhole DEF AllApplied
    <3>2. QED
      BY <2>1, <2>5, <3>1 DEF GivesUp, Progress
  <2>6. QED
    BY <1>6, <2>2, <2>3, <2>4, <2>5 DEF MigrateFails
<1>7. QED
  BY <1>1, <1>2, <1>3, <1>4, <1>5, <1>6

-----------------------------------------------------------------------------
\* The invariant holds of an empty database (store.go:25).
LEMMA MigrationInvInit == MigrationInit => MigrationInv
<1> SUFFICES ASSUME MigrationInit PROVE MigrationInv
  OBVIOUS
<1>1. TypeInv
  BY DEF MigrationInit, TypeInv, Latest
<1>2. VersionsAreWhole /\ DoneSoFar /\ NothingAhead
  BY DEF MigrationInit, VersionsAreWhole, DoneSoFar, NothingAhead
<1>3. QED
  BY <1>1, <1>2 DEF MigrationInv

\* A process stays within the migrations and their statements.
LEMMA TypeStep ==
  ASSUME MigrationInv, NEW p \in Processes, Progress(p)
  PROVE  TypeInv'
<1>1. TypeInv
  BY DEF MigrationInv
<1>2. /\ migrating' \in [Processes -> 0..(Latest + 1)]
      /\ position' \in [Processes -> 0..3]
      /\ \A q \in Processes : position'[q] > 0 => migrating'[q] \in 1..Latest
  <2>1. \A k \in DOMAIN Script(migrating[p]) : migrating[p] \in 1..Latest => k + 1 \in 0..3
    BY ScriptSize DEF Latest
  <2>2. PICK v \in 0..(Latest + 1), k \in 0..3 :
          At(p, v, k) /\ (k > 0 => v \in 1..Latest)
    BY <1>1, <2>1 DEF Progress, TypeInv, Latest
  <2>3. QED
    BY <1>1, <2>2 DEF At, TypeInv
<1>3. versions' \subseteq 1..Latest /\ driver' \in Drivers
  BY <1>1 DEF Progress, TypeInv
<1>4. QED
  BY <1>2, <1>3 DEF TypeInv

\* Everything on record stays whole, and what is new is whole too.
LEMMA WholeStep ==
  ASSUME MigrationInv, NEW p \in Processes, Progress(p)
  PROVE  VersionsAreWhole'
<1>1. TypeInv /\ VersionsAreWhole
  BY DEF MigrationInv
<1>2. schema \subseteq schema' /\ versions \subseteq versions' /\ driver' = driver
  BY DEF Progress
<1>3. \A w : Statements(w)' = Statements(w)
  BY <1>2 DEF Statements, Script
<1>4. \A w : Whole(w) => Whole(w)'
  BY <1>2, <1>3 DEF Whole
<1>5. \A w \in versions' \ versions : w = migrating[p] /\ w \in 1..Latest /\ Whole(w)'
  BY <1>3 DEF Progress, Whole
<1>6. \A w \in 1..(migrating[p] - 1) : w \in versions' /\ Whole(w)'
  BY <1>1, <1>2, <1>4 DEF VersionsAreWhole
<1>7. ASSUME NEW v \in versions'
      PROVE  \A w \in 1..v : w \in versions' /\ Whole(w)'
  <2>1. CASE v \in versions
    BY <1>1, <1>2, <1>4, <2>1 DEF VersionsAreWhole
  <2>2. CASE v \notin versions
    <3>1. v = migrating[p] /\ v \in 1..Latest /\ Whole(v)'
      BY <1>5, <2>2
    <3>2. \A w \in 1..v : w = v \/ w \in 1..(migrating[p] - 1)
      BY <3>1 DEF Latest
    <3>3. QED
      BY <1>6, <3>1, <3>2
  <2>3. QED
    BY <2>1, <2>2
<1>8. ASSUME NEW q \in Processes
      PROVE  \A v \in 1..(migrating'[q] - 1) : v \in versions' /\ Whole(v)'
  <2>1. CASE migrating'[q] = migrating[q]
    BY <1>1, <1>2, <1>4, <2>1 DEF VersionsAreWhole
  <2>2. CASE migrating'[q] \in 0..1
    BY <2>2
  <2>3. CASE migrating'[q] = migrating[p] + 1 /\ migrating[p] \in versions'
    <3>1. \A w \in 1..(migrating'[q] - 1) : w \in 1..migrating[p]
      BY <1>1, <2>3 DEF TypeInv, Latest
    <3>2. QED
      BY <1>7, <2>3, <3>1
  <2>4. QED
    BY <1>1, <2>1, <2>2, <2>3 DEF Progress, At, TypeInv
<1>9. QED
  BY <1>7, <1>8 DEF VersionsAreWhole

\* The statements a process has behind it are there; others' are not undone.
LEMMA DoneStep ==
  ASSUME MigrationInv, NEW p \in Processes, Progress(p)
  PROVE  DoneSoFar'
<1>1. TypeInv /\ DoneSoFar
  BY DEF MigrationInv
<1>2. schema \subseteq schema' /\ driver' = driver
  BY DEF Progress
<1>3. \A w : Script(w)' = Script(w)
  BY <1>2 DEF Script
<1>4. Transactional' = Transactional
  BY <1>2 DEF Transactional
<1> SUFFICES ASSUME NEW q \in Processes, NEW k \in 1..(position'[q] - 1),
                    ~Transactional, k \in DOMAIN Script(migrating'[q])
             PROVE  <<migrating'[q], k>> \in schema'
  BY <1>3, <1>4 DEF DoneSoFar
<1>5. CASE migrating'[q] = migrating[q] /\ position'[q] = position[q]
  BY <1>1, <1>2, <1>5 DEF DoneSoFar
<1>6. CASE position'[q] \in 0..1
  BY <1>6
<1>7. CASE /\ q = p /\ migrating'[q] = migrating[q] /\ position'[q] = position[q] + 1
           /\ <<migrating[q], position[q]>> \in schema'
  <2>1. k = position[q] \/ k \in 1..(position[q] - 1)
    BY <1>1, <1>7 DEF TypeInv
  <2>2. QED
    BY <1>1, <1>2, <1>7, <2>1 DEF DoneSoFar
<1>8. QED
  BY <1>1, <1>5, <1>6, <1>7 DEF Progress, At, TypeInv

\* A transaction puts a version's statements and its record there together.
LEMMA AheadStep ==
  ASSUME MigrationInv, NEW p \in Processes, Progress(p)
  PROVE  NothingAhead'
<1>1. NothingAhead
  BY DEF MigrationInv
<1>2. versions \subseteq versions' /\ driver' = driver
  BY DEF Progress
<1>3. Transactional' = Transactional
  BY <1>2 DEF Transactional
<1> SUFFICES ASSUME Transactional, NEW v \in (1..Latest) \ versions', NEW k \in 1..2,
                    <<v, k>> \in schema'
             PROVE  FALSE
  BY <1>3 DEF NothingAhead
<1>4. <<v, k>> \notin schema
  BY <1>1, <1>2 DEF NothingAhead
<1>5. migrating[p] \in versions' /\ <<v, k>> \in Statements(migrating[p])
  BY <1>4 DEF Progress
<1>6. v = migrating[p]
  BY <1>5 DEF Statements
<1>7. QED
  BY <1>5, <1>6

\* The invariant holds whatever processes migrate, fail and start over
\* (Store.Migrate of the three drivers).
THEOREM MigrationInvariant == MigrationSpec => []MigrationInv
<1>1. MigrationInit => MigrationInv
  BY MigrationInvInit
<1>2. MigrationInv /\ [MigrationNext]_migrationVars => MigrationInv'
  <2> SUFFICES ASSUME MigrationInv, [MigrationNext]_migrationVars
               PROVE  MigrationInv'
    OBVIOUS
  <2>1. CASE UNCHANGED migrationVars
    BY <2>1 DEF migrationVars, MigrationInv, TypeInv, VersionsAreWhole, Whole, Statements,
                DoneSoFar, NothingAhead, Transactional, Script
  <2>2. ASSUME NEW p \in Processes,
               \/ BeginMigrate(p) \/ LookUpVersion(p) \/ ApplyInTx(p)
               \/ ApplyStatement(p) \/ RecordVersion(p) \/ MigrateFails(p)
        PROVE  MigrationInv'
    <3>1. Progress(p)
      BY <2>2, ProgressStep
    <3>2. TypeInv' /\ VersionsAreWhole' /\ DoneSoFar' /\ NothingAhead'
      BY <3>1, TypeStep, WholeStep, DoneStep, AheadStep
    <3>3. QED
      BY <3>2 DEF MigrationInv
  <2>3. QED
    BY <2>1, <2>2 DEF MigrationNext
<1>3. QED
  BY <1>1, <1>2, PTL DEF MigrationSpec

\* What a version on record stands for is there, and each process that is
\* past a version found it so (mysql.go:98-105, sqlite.go:86-101).
THEOREM WholeVersions == MigrationSpec => []VersionsAreWhole
<1>1. MigrationInv => VersionsAreWhole
  BY DEF MigrationInv
<1>2. QED
  BY <1>1, MigrationInvariant, PTL

\* With transactions a migration can be run again after any failure
\* (sqlite.go:86-101, postgres.go:81-95).
THEOREM RerunsSucceed == MigrationSpec => []RerunSucceeds
<1>1. MigrationInv => RerunSucceeds
  <2> SUFFICES ASSUME MigrationInv, driver # "mysql", NEW v \in (1..Latest) \ versions,
                      NEW k \in DOMAIN Script(v), Clashes(v, k)
               PROVE  FALSE
    BY DEF RerunSucceeds
  <2>1. k \in 1..2
    BY ScriptSize DEF Latest
  <2>2. QED
    BY <2>1 DEF MigrationInv, NothingAhead, Transactional, Clashes
<1>2. QED
  BY <1>1, MigrationInvariant, PTL
=============================================================================
