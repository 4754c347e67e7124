------------------------------- MODULE MCServer -------------------------------
(* Small instances of Server: repositories that are right, or wrong in one place. *)
EXTENDS Server, TLC

CONSTANTS read, delete, ours, theirs, live

Binding(name, method, scope) ==
  [name |-> name, method |-> method, route |-> "/tasks", scopes |-> {scope},
   capabilities |-> {"db"}, exposed |-> TRUE, tool |-> name, slots |-> {}, consumers |-> {}]

Entry(name, method, scope, dependsOn) ==
  [definition |->
     [binding |-> Binding(name, method, scope), dependsOn |-> dependsOn, sound |-> TRUE,
      guarded |-> TRUE, consumesContracts |-> {}, requiresConfirmation |-> TRUE,
      requiredInput |-> {"expectedVersion"}, optimistic |-> method = "DELETE"],
   manifest |-> [binding |-> Binding(name, method, scope), sound |-> TRUE, uses |-> {"db"}],
   contributed |-> {}]

(* The features of the deletion, of a change and of a list, or of an other *)
(* method, with these dependencies.                                        *)
Entries(method, a, b, c) ==
  <<Entry(1, method, read, a), Entry(2, "DELETE", delete, b), Entry(3, "PATCH", delete, c)>>

Sound == Entries("GET", {}, {}, {1, 2})

(* The deletion calls a capability that it does not declare, and another  *)
(* feature declares one that nothing provides.                             *)
Undeclared ==
  [Entries("POST", {}, {}, {}) EXCEPT
     ![2].manifest.uses = {"db", "clock"},
     ![1].manifest.binding.capabilities = {"gone"}, ![1].definition.binding.capabilities = {"gone"}]

(* The deletion asks for another scope than its definition. *)
OtherScope == [Sound EXCEPT ![2].manifest.binding.scopes = {read}]

(* Features that cannot be started: an unconfirmed deletion, and any      *)
(* dependencies, one of them perhaps on a feature that does not exist.     *)
Unloadable(entries) == [entries EXCEPT ![1].manifest.sound = FALSE]
Unconfirmed == Unloadable([Sound EXCEPT ![2].definition.requiresConfirmation = FALSE])
Graphs == {Unloadable(Entries("GET", a, b, c)) :
             a \in SUBSET {1, 2, 3}, b \in SUBSET {1, 2, 3}, c \in SUBSET {1, 2, 4}}

SomeRepositories == {Sound, Undeclared, OtherScope, Unconfirmed} \cup Graphs

SomeMatches == {<<"/tasks", "/tasks">>}

Holder(who, scopes) == [who |-> who, scopes |-> scopes]

SomeCredentials ==
  {[token |-> Holder(ours, {read, live}), who |-> None, scopes |-> None],
   [token |-> Holder(ours, {read, delete}), who |-> theirs, scopes |-> {read, delete}],
   [token |-> None, who |-> theirs, scopes |-> {delete}]}

Environment(production, demo) ==
  [production |-> production, mongo |-> TRUE, oidc |-> TRUE, demo |-> demo,
   mcpToken |-> Holder(ours, {read, live}), provided |-> {"db"}]

SomeEnvironments ==
  {Environment(TRUE, None), Environment(FALSE, ours), [Environment(TRUE, None) EXCEPT !.oidc = FALSE]}
=============================================================================
