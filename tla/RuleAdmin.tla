----------------------------- MODULE RuleAdmin -----------------------------
(***************************************************************************)
(* Rule administration: HTTP clients create, update and delete rules; each *)
(* call writes the rules table and then the cache of compiled rules, with  *)
(* no lock over the two.  The evaluator works from the cache, a restart    *)
(* fills it from the table.                                                *)
(***************************************************************************)
EXTENDS Naturals, FiniteSets

CONSTANTS Rules, Clients, MaxCalls, MaxFaults

ASSUME RuleAdminAssumption == Rules # {} /\ MaxCalls \in Nat /\ MaxFaults \in Nat

VARIABLES table,    \* the rules table
          cache,    \* the compiled rules, by id
          call,     \* what each client's request is doing
          reply,    \* the last answer each client had
          up,
          blamed,   \* ids whose cache entry may differ, for a known reason
          calls, faults

vars == <<table, cache, call, reply, up, blamed, calls, faults>>

\* A stored rule: the call that wrote it, whether it is enabled, whether its
\* condition compiles.  Version 0 is no rule.
Row == [v : 0..MaxCalls, enabled : BOOLEAN, compiles : BOOLEAN]
NoRow == [v |-> 0, enabled |-> FALSE, compiles |-> FALSE]
Runs(row) == row.enabled /\ row.compiles

Ops == {"create", "update", "delete"}
Idle == [step |-> "idle", op |-> "delete", id |-> CHOOSE r \in Rules : TRUE,
         row |-> NoRow, alone |-> TRUE]

TypeOK ==
  /\ table \in [Rules -> Row] /\ cache \in [Rules -> Row]
  /\ call \in [Clients -> [step : {"idle", "store", "cache"}, op : Ops, id : Rules,
                           row : Row, alone : BOOLEAN]]
  /\ reply \in [Clients -> {"none", "ok", "refused", "failed"}]
  /\ blamed \subseteq Rules
  /\ up \in BOOLEAN /\ calls \in 0..MaxCalls /\ faults \in 0..MaxFaults

Init ==
  /\ table = [r \in Rules |-> NoRow] /\ cache = table
  /\ call = [c \in Clients |-> Idle] /\ reply = [c \in Clients |-> "none"]
  /\ up = TRUE /\ blamed = {} /\ calls = 0 /\ faults = 0

InFlight(r) == {c \in Clients : call[c].step # "idle" /\ call[c].id = r}

Answer(c, status) ==
  /\ call' = [call EXCEPT ![c] = Idle]
  /\ reply' = [reply EXCEPT ![c] = status]

\* A body that decodes, converts and validates becomes a store call; one
\* that does not is answered 400 and changes nothing.
Request(c, op, r, enabled, compiles) ==
  /\ up /\ call[c].step = "idle" /\ calls < MaxCalls
  /\ LET n == calls + 1
         row == IF op = "delete" THEN NoRow
                ELSE [v |-> n, enabled |-> enabled, compiles |-> compiles]
     IN /\ calls' = n
        /\ call' = [d \in Clients |->
             IF d = c THEN [step |-> "store", op |-> op, id |-> r, row |-> row,
                            alone |-> InFlight(r) = {}]
             ELSE IF d \in InFlight(r) THEN [call[d] EXCEPT !.alone = FALSE] ELSE call[d]]
  /\ blamed' = IF InFlight(r) = {} THEN blamed ELSE blamed \cup {r}
  /\ UNCHANGED <<table, cache, reply, up, faults>>

BadRequest(c) ==
  /\ up /\ call[c].step = "idle"
  /\ reply' = [reply EXCEPT ![c] = "refused"]
  /\ UNCHANGED <<table, cache, call, up, blamed, calls, faults>>

\* An INSERT is refused on a taken id, an UPDATE of no row is no error.
StoredRow(k) == IF k.op = "update" /\ table[k.id] = NoRow THEN NoRow ELSE k.row

Write(c) ==
  LET k == call[c] IN
  /\ k.step = "store"
  /\ IF k.op = "create" /\ table[k.id] # NoRow
     THEN Answer(c, "refused") /\ UNCHANGED <<table, blamed>>
     ELSE /\ table' = [table EXCEPT ![k.id] = StoredRow(k)]
          /\ blamed' = IF k.op = "update" /\ table[k.id] = NoRow THEN blamed \cup {k.id} ELSE blamed
          /\ IF k.op = "create" /\ ~k.row.enabled
             THEN Answer(c, "ok")
             ELSE call' = [call EXCEPT ![c].step = "cache"] /\ UNCHANGED reply
  /\ UNCHANGED <<cache, up, calls, faults>>

\* The driver reports an error; the statement may have been executed.
WriteFails(c) ==
  /\ call[c].step = "store" /\ faults < MaxFaults /\ faults' = faults + 1
  /\ LET k == call[c] IN
       \/ UNCHANGED <<table, blamed>>
       \/ /\ k.op = "create" => table[k.id] = NoRow
          /\ table' = [table EXCEPT ![k.id] = StoredRow(k)]
          /\ blamed' = blamed \cup {k.id}
  /\ Answer(c, "failed")
  /\ UNCHANGED <<cache, up, calls>>

\* Mutant: an update that disables a rule leaves it in the cache.
CachedKeepsDisabled(k) ==
  IF k.row.enabled THEN (IF k.row.compiles THEN k.row ELSE cache[k.id])
  ELSE IF k.op = "delete" THEN NoRow ELSE cache[k.id]

\* What compileAndCache or cache.Delete leaves at the rule's id.
Cached(k) ==
  IF k.row.enabled THEN (IF k.row.compiles THEN k.row ELSE cache[k.id]) ELSE NoRow

UpdateCache(c) ==
  LET k == call[c]
      fails == k.row.enabled /\ ~k.row.compiles
  IN
  /\ k.step = "cache"
  /\ cache' = [cache EXCEPT ![k.id] = Cached(k)]
  /\ Answer(c, IF fails THEN "refused" ELSE "ok")
  /\ blamed' = IF fails THEN blamed \cup {k.id}
               ELSE IF k.alone /\ (k.op = "delete" \/ table[k.id] # NoRow) THEN blamed \ {k.id}
               ELSE blamed
  /\ UNCHANGED <<table, up, calls, faults>>

Stop ==
  /\ up /\ faults < MaxFaults /\ faults' = faults + 1
  /\ up' = FALSE
  /\ cache' = [r \in Rules |-> NoRow]
  /\ call' = [c \in Clients |-> Idle]
  /\ UNCHANGED <<table, reply, blamed, calls>>

\* A rule that does not compile is logged and left out.
Reload ==
  /\ ~up /\ up' = TRUE /\ blamed' = {}
  /\ cache' = [r \in Rules |-> IF Runs(table[r]) THEN table[r] ELSE NoRow]
  /\ UNCHANGED <<table, call, reply, calls, faults>>

Next ==
  \/ \E c \in Clients :
       \/ \E op \in Ops, r \in Rules, enabled, compiles \in BOOLEAN :
            Request(c, op, r, enabled, compiles)
       \/ BadRequest(c) \/ Write(c) \/ WriteFails(c) \/ UpdateCache(c)
  \/ Stop \/ Reload

Spec == Init /\ [][Next]_vars

-----------------------------------------------------------------------------
Quiet(r) == up /\ InFlight(r) = {}

\* The cache runs what the table holds, except for an id that two calls were
\* in at once, whose call failed half way, whose condition does not compile
\* or that was updated while there was no such rule; a later undisturbed call
\* or a restart puts it right (engine.go:284, 235).
DriftIsExplained ==
  \A r \in Rules \ blamed : Quiet(r) =>
    cache[r] = IF Runs(table[r]) THEN table[r] ELSE NoRow
=============================================================================
