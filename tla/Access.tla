------------------------------- MODULE Access -------------------------------
(***************************************************************************)
(* Bearer tokens: how a request to the API is admitted, what its identity  *)
(* may do, and the api_tokens table that requests write while others read  *)
(* it.  A request acts on the row it was admitted with; the last use of a  *)
(* token is written by a goroutine that outlives the request.  A           *)
(* deployment without the shared token is one where nobody presents it.    *)
(***************************************************************************)
EXTENDS Naturals

CONSTANTS Ids,         \* token ids, each with a secret of its own
          Callers,     \* concurrent requests
          MaxClock, MaxAccessFaults

AccessAssumption == "shared" \notin Ids /\ MaxClock \in Nat \ {0} /\ MaxAccessFaults \in Nat

VARIABLES clock,    \* the time
          tokens,   \* the api_tokens table, "none" for no row
          request,  \* what each request is doing
          touches,  \* the updates of last_used_at under way
          gone,     \* when a revocation was first answered 204, 0 for never
          accessFaults

accessVars == <<clock, tokens, request, touches, gone, accessFaults>>

Scopes == {"read", "admin"}
Never == MaxClock + 1
TokenRow == [scope : Scopes \cup {"none"}, created : 0..MaxClock,
             expires : 0..Never, lastUsed : 0..MaxClock, revoked : BOOLEAN]
NoToken == [scope |-> "none", created |-> 0, expires |-> Never,
            lastUsed |-> 0, revoked |-> FALSE]
Issued(id) == tokens[id].scope # "none"

\* What the Authorization header carries: a token's secret, the shared one,
\* or nothing that is either.
Bearers == Ids \cup {"shared", "unknown"}

\* The route decides nothing before the handler, so it is chosen there.
NoRequest == [step |-> "none", bearer |-> "unknown", scope |-> "none", late |-> FALSE]

AccessTypeOK ==
  /\ clock \in 1..MaxClock
  /\ tokens \in [Ids -> TokenRow]
  /\ request \in [Callers -> [step : {"none", "auth", "handle"}, bearer : Bearers,
                              scope : Scopes \cup {"none"}, late : BOOLEAN]]
  /\ touches \subseteq Ids \X (1..MaxClock)
  /\ gone \in [Ids -> 0..MaxClock]
  /\ accessFaults \in 0..MaxAccessFaults

AccessInit ==
  /\ clock = 1
  /\ tokens = [i \in Ids |-> NoToken]
  /\ request = [c \in Callers |-> NoRequest]
  /\ touches = {} /\ gone = [i \in Ids |-> 0] /\ accessFaults = 0

\* The response, whose status decides nothing later: only that of a
\* revocation is remembered.
Reply(c, status) ==
  /\ status \in {200, 201, 204, 400, 401, 403, 404, 500}
  /\ request' = [request EXCEPT ![c] = NoRequest]

Fails == accessFaults < MaxAccessFaults /\ accessFaults' = accessFaults + 1

Call(c, bearer) ==
  /\ request[c].step = "none"
  /\ request' = [request EXCEPT ![c] =
       [step |-> "auth", bearer |-> bearer, scope |-> "none",
        late |-> bearer \in Ids /\ gone[bearer] > 0]]
  /\ UNCHANGED <<clock, tokens, touches, gone, accessFaults>>

\* A header that is missing, of another scheme or empty.
NoBearer(c) ==
  /\ request[c].step = "none"
  /\ Reply(c, 401)
  /\ UNCHANGED <<clock, tokens, touches, gone, accessFaults>>

Expired(row) == clock >= row.expires

\* The row GetByHash finds is good for this request.
Usable(bearer) ==
  /\ bearer \in Ids /\ Issued(bearer)
  /\ ~tokens[bearer].revoked /\ ~Expired(tokens[bearer])

\* The handler runs with the identity of the row as it was read here.
Authenticate(c) ==
  LET b == request[c].bearer
      Admit(scope) == request' = [request EXCEPT ![c].step = "handle", ![c].scope = scope]
  IN /\ request[c].step = "auth"
     /\ \/ /\ b = "shared"
           /\ Admit("admin") /\ UNCHANGED touches
        \/ /\ Usable(b)
           /\ Admit(tokens[b].scope)
           /\ touches' = touches \cup {<<b, clock>>}
        \/ /\ b # "shared" /\ ~Usable(b)
           /\ Reply(c, 401) /\ UNCHANGED touches
     /\ UNCHANGED <<clock, tokens, gone, accessFaults>>

LookupFails(c) ==
  /\ request[c].step = "auth" /\ request[c].bearer # "shared"
  /\ Fails /\ Reply(c, 500)
  /\ UNCHANGED <<clock, tokens, touches, gone>>

\* An administrator's token has every scope.
HasScope(c, scope) == request[c].scope \in {"admin", scope}

\* A request that got past both gates to a route mounted with this scope.
Admitted(c, scope) == request[c].step = "handle" /\ HasScope(c, scope)

Forbid(c) ==
  /\ request[c].step = "handle" /\ \E scope \in Scopes : ~HasScope(c, scope)
  /\ Reply(c, 403)
  /\ UNCHANGED <<clock, tokens, touches, gone, accessFaults>>

\* Every handler that leaves the tokens alone.
Serve(c) ==
  /\ \E scope \in Scopes : Admitted(c, scope)
  /\ Reply(c, 200)
  /\ UNCHANGED <<clock, tokens, touches, gone, accessFaults>>

\* issueToken: a body without a name, with no or an unknown scope, or with a
\* lifetime that is not positive is refused; the insert may fail.
RefuseIssue(c) ==
  /\ Admitted(c, "admin") /\ Reply(c, 400)
  /\ UNCHANGED <<clock, tokens, touches, gone, accessFaults>>

Issue(c, id, scope, expires) ==
  /\ Admitted(c, "admin") /\ ~Issued(id) /\ expires > clock
  /\ tokens' = [tokens EXCEPT ![id] =
       [scope |-> scope, created |-> clock, expires |-> expires,
        lastUsed |-> 0, revoked |-> FALSE]]
  /\ \/ Reply(c, 201) /\ UNCHANGED accessFaults
     \/ Reply(c, 500) /\ Fails
  /\ UNCHANGED <<clock, touches, gone>>

\* revokeToken: a Get and an UPDATE; no handler deletes a row between them.
Revoke(c, id) ==
  /\ Admitted(c, "admin") /\ Issued(id)
  /\ tokens' = [tokens EXCEPT ![id].revoked = TRUE]
  /\ \/ /\ Reply(c, 204) /\ UNCHANGED accessFaults
        /\ gone' = [gone EXCEPT ![id] = IF @ = 0 THEN clock ELSE @]
     \/ Reply(c, 500) /\ Fails /\ UNCHANGED gone
  /\ UNCHANGED <<clock, touches>>

RevokeUnknown(c, id) ==
  /\ Admitted(c, "admin") /\ ~Issued(id)
  /\ Reply(c, 404)
  /\ UNCHANGED <<clock, tokens, touches, gone, accessFaults>>

\* A handler's store call fails before it changed anything.
HandlerFails(c) ==
  /\ \E scope \in Scopes : Admitted(c, scope)
  /\ Fails /\ Reply(c, 500)
  /\ UNCHANGED <<clock, tokens, touches, gone>>

\* Mutants: the row is saved as it was read; it is stamped when it is saved.
TouchedWhole(row, ts) == [row EXCEPT !.lastUsed = ts, !.revoked = FALSE]
TouchedNow(row, ts) == [row EXCEPT !.lastUsed = clock]

Touched(row, ts) == [row EXCEPT !.lastUsed = ts]

\* The goroutines started by the requests end in any order, or fail.
TouchLastUsed(id, ts) ==
  /\ <<id, ts>> \in touches /\ touches' = touches \ {<<id, ts>>}
  /\ tokens' = [tokens EXCEPT ![id] = Touched(@, ts)]
  /\ UNCHANGED <<clock, request, gone, accessFaults>>

TouchFails(id, ts) ==
  /\ <<id, ts>> \in touches /\ touches' = touches \ {<<id, ts>>}
  /\ Fails
  /\ UNCHANGED <<clock, tokens, request, gone>>

\* The process ends and starts again over the same table.
RestartServer ==
  /\ Fails
  /\ request' = [c \in Callers |-> NoRequest] /\ touches' = {}
  /\ UNCHANGED <<clock, tokens, gone>>

TimePasses ==
  /\ clock < MaxClock /\ clock' = clock + 1
  /\ UNCHANGED <<tokens, request, touches, gone, accessFaults>>

AccessNext ==
  \/ \E c \in Callers :
       \/ \E bearer \in Bearers : Call(c, bearer)
       \/ NoBearer(c) \/ Authenticate(c) \/ LookupFails(c) \/ Forbid(c) \/ Serve(c)
       \/ RefuseIssue(c) \/ HandlerFails(c)
       \/ \E id \in Ids :
            \/ \E scope \in Scopes, expires \in {clock + 1, Never} : Issue(c, id, scope, expires)
            \/ Revoke(c, id) \/ RevokeUnknown(c, id)
  \/ \E t \in touches : TouchLastUsed(t[1], t[2]) \/ TouchFails(t[1], t[2])
  \/ RestartServer \/ TimePasses

AccessSpec == AccessInit /\ [][AccessNext]_accessVars

-----------------------------------------------------------------------------
\* Once a revocation was answered with 204, no request that arrives later is
\* let in with that token, whatever goroutines of earlier requests still write
\* to its row (auth.go:171, api_tokens.go:78).
RevokedStaysOut == \A c \in Callers : request[c].late => request[c].step # "handle"

\* The last use on record lies in the token's life: it is a time at which the
\* token was good, not the one at which its goroutine got to write it
\* (auth.go:171-177).
LastUseWasGood ==
  \A i \in Ids : tokens[i].lastUsed > 0 =>
    /\ tokens[i].created <= tokens[i].lastUsed /\ tokens[i].lastUsed < tokens[i].expires
    /\ gone[i] = 0 \/ tokens[i].lastUsed <= gone[i]
=============================================================================
