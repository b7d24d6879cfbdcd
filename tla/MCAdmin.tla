------------------------------ MODULE MCAdmin ------------------------------
(***************************************************************************)
(* What is administered, on small instances: the rules and their compiled  *)
(* copies, the tokens that admit requests, the subscribers and             *)
(* subscriptions, the schema of the database.  The four share no state; a  *)
(* behaviour is about one.                                                 *)
(***************************************************************************)
EXTENDS RuleAdmin, Access, Migration, Subscriptions, TLC

VARIABLE part

\* The rule "disk" is watched: it has a team and no site.  The targets are
\* it, another rule, selectors that match, one by an empty value for the key
\* the rule lacks, and one that does not, and the two that do not validate.
WatchedRule == "disk"
RuleLabels == {<<"team", "ops">>}
SomeTargets ==
  {[rule |-> r, labels |-> {}] : r \in {"disk", "login", NoRule}}
  \cup {[rule |-> NoRule, labels |-> {l}] : l \in {<<"team", "ops">>, <<"site", "">>, <<"site", "a">>}}
  \cup {[rule |-> "disk", labels |-> {<<"team", "ops">>}]}

ASSUME AccessAssumption /\ SubscriptionsAssumption

AdminInit ==
  /\ Init /\ AccessInit /\ SubsInit /\ MigrationInit
  /\ part \in {"rules", "tokens", "subscriptions", "schema"}
  /\ part # "schema" => driver = "sqlite"

AdminNext ==
  /\ \/ part = "rules" /\ Next /\ UNCHANGED <<accessVars, subsVars, migrationVars>>
     \/ part = "tokens" /\ AccessNext /\ UNCHANGED <<vars, subsVars, migrationVars>>
     \/ part = "subscriptions" /\ SubsNext /\ UNCHANGED <<vars, accessVars, migrationVars>>
     \/ part = "schema" /\ MigrationNext /\ UNCHANGED <<vars, accessVars, subsVars>>
  /\ UNCHANGED part

AdminSpec == AdminInit /\ [][AdminNext]_<<part, vars, accessVars, subsVars, migrationVars>>

\* Requests of a kind are interchangeable.
AdminSymmetry == Permutations(Clients) \cup Permutations(Callers)
                 \cup Permutations(Processes)

\* Every variable of the four keeps its type.
AdminTypeOK == TypeOK /\ AccessTypeOK /\ SubsTypeOK
=============================================================================
