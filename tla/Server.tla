-------------------------------- MODULE Server --------------------------------
(***************************************************************************)
(* The server process of the Focusly application                           *)
(* (core/backend/server.ts): its start, the requests it handles and its    *)
(* shutdown.  A request is an event stream, an MCP request, a readiness    *)
(* probe or a call of a feature; a tool of the MCP endpoint calls its      *)
(* feature by a second request to the same server.  A handler runs in      *)
(* steps between its awaits, whether or not its connection still exists.   *)
(*                                                                         *)
(* What a mutation does to its command record is the module DurableCommand *)
(* and what a feature does to the tasks is the module Tasks; here a        *)
(* feature has run, as some actor, with an effect or without one.          *)
(***************************************************************************)
EXTENDS FeatureRegistry

CONSTANTS
  Requests,     \* the requests the server gets, numbered in that order
  MaxClients,   \* bound: those that do not come from a tool
  Methods,      \* the methods of the calls
  Paths,        \* the paths of the calls
  Matches,      \* the pairs of a route template and a path that it matches
  AllScopes,    \* PermissionScope
  EventRead,    \* the scope of the event stream
  Actors,       \* what identifies an actor: a tenant and a user
  Credentials,  \* what the headers of a request may say of its actor
  Environments  \* how the process may be configured

ASSUME ServerAssumption ==
  /\ Requests \subseteq Nat /\ MaxClients \in Nat
  /\ None \notin Actors \cup Files
  /\ \A scopes \in SUBSET AllScopes : scopes # None
  /\ \A c \in Credentials :
       /\ c.token # None => c.token.who \in Actors
       /\ c.who \in Actors \cup {None}
  /\ \A e \in Environments :
       /\ e.mcpToken # None => e.mcpToken.who \in Actors
       /\ e.demo \in Actors \cup {None}

VARIABLES
  config,   \* the environment of the process, or None before its start
  process,  \* "down", "listening", "closing", "stopped" or "failed"
  request,  \* request[r]: what r asks for, or None
  stage,    \* stage[r]: where the handler of r is
  feature,  \* feature[r]: the file whose feature r calls, or None
  actor,    \* actor[r]: the actor that r was let in as, or None
  answer,   \* answer[r]: "none", "open", or how the connection ended
  effect    \* effect[r]: what r changed: "none", "all", or "part" of what its feature does

serverVars == <<config, process, request, stage, feature, actor, answer, effect>>
vars == <<registryVars, serverVars>>

Route(f) == Manifest(f).binding.route
Method(f) == Manifest(f).binding.method
Scopes(f) == Manifest(f).binding.scopes
Mutation(f) == Method(f) # "GET"

Identity(who, scopes) ==
  IF who = None THEN None ELSE [who |-> who, scopes |-> scopes \cap AllScopes]

Default(value, fallback) == IF value = None THEN fallback ELSE value

(* What resolveActor may return for headers c: in production the actor of  *)
(* the token, unless jwtVerify refuses it at that moment, and otherwise    *)
(* the actor of the headers, completed by the demo identity.               *)
Resolutions(c) ==
  IF config.production
    THEN {None} \cup {Identity(t.who, t.scopes) : t \in {c.token} \ {None}}
    ELSE {Identity(Default(c.who, config.demo), Default(c.scopes, AllScopes))}

(* The headers of mcp.ts, whose tools are those of every feature. *)
StdioHeaders ==
  IF config.production
    THEN [token |-> config.mcpToken, who |-> None, scopes |-> None]
    ELSE [token |-> None, who |-> config.demo, scopes |-> AllScopes]

(* The headers that a tool sends with its request: actorHeaders of mcp-http.ts. *)
LoopbackHeaders(c, a) ==
  IF c.token # None
    THEN [token |-> c.token, who |-> None, scopes |-> None]
    ELSE [token |-> None, who |-> a.who, scopes |-> a.scopes]

(* every of the authorization middleware, and of allowedFor *)
Permitted(f, a) == Scopes(f) \subseteq a.scopes

-----------------------------------------------------------------------------
(* Start *)

ServerInit ==
  /\ config = None
  /\ process = "down"
  /\ request = [r \in Requests |-> None]
  /\ stage = [r \in Requests |-> "none"]
  /\ feature = [r \in Requests |-> None]
  /\ actor = [r \in Requests |-> None]
  /\ answer = [r \in Requests |-> "none"]
  /\ effect = [r \in Requests |-> "none"]

requestVars == <<request, stage, feature, actor, answer, effect>>

(* What config.ts demands of an environment. *)
Configured(e) == e.production => e.mongo /\ e.oidc

Start(e) ==
  /\ process = "down" /\ Configured(e) /\ Discoverable
  /\ config' = e
  /\ process' = "listening"
  /\ UNCHANGED requestVars

(* A check of the configuration or of the discovery throws, an              *)
(* infrastructure module does, or the database is out of reach.             *)
StartFails ==
  /\ process = "down"
  /\ process' = "failed"
  /\ UNCHANGED <<config, requestVars>>

-----------------------------------------------------------------------------
(* Connections *)

Unused(r) == stage[r] = "none" /\ \A s \in Requests : s < r => stage[s] # "none"

Accepted(r, q) ==
  /\ Unused(r)
  /\ request' = [request EXCEPT ![r] = q]

Anonymous == [token |-> None, who |-> None, scopes |-> None]

Ask(kind, method, where, headers) ==
  [kind |-> kind, method |-> method, path |-> where, headers |-> headers,
   parent |-> None, caller |-> None]

(* What clients ask for; only a call has a path that matters. *)
Asked ==
  {Ask(kind, "GET", None, Anonymous) : kind \in {"plain", "ready"}}
  \cup {Ask("stream", "GET", None, c) : c \in Credentials}
  \cup {Ask("mcp", method, None, c) : method \in {"GET", "POST"}, c \in Credentials}
  \cup {Ask("call", method, p, c) :
           method \in Methods, p \in Paths, c \in Credentials \cup {StdioHeaders}}

Clients == {r \in Requests : stage[r] # "none" /\ request[r].parent = None}

Arrive(r) ==
  /\ process = "listening" /\ Cardinality(Clients) < MaxClients
  /\ \E q \in Asked : Accepted(r, q)
  /\ stage' = [stage EXCEPT ![r] = "arrived"]
  /\ answer' = [answer EXCEPT ![r] = "open"]
  /\ UNCHANGED <<config, process, feature, actor, effect>>

(* The client leaves, or request.setTimeout destroys the connection.  The *)
(* handler is not told.                                                    *)
Disconnect(r) ==
  /\ answer[r] = "open"
  /\ answer' = [answer EXCEPT ![r] = "lost"]
  /\ UNCHANGED <<config, process, request, stage, feature, actor, effect>>

Over(q) == [Ask("over", None, None, Anonymous) EXCEPT !.parent = q.parent]

(* The handler of r ends, and its variables with it; the answer arrives if *)
(* there is still a connection.                                            *)
Ends(r, status) ==
  /\ stage' = [stage EXCEPT ![r] = "done"]
  /\ answer' = [answer EXCEPT ![r] = IF @ = "open" THEN status ELSE @]
  /\ request' = [request EXCEPT ![r] = Over(@)]
  /\ feature' = [feature EXCEPT ![r] = None]
  /\ actor' = [actor EXCEPT ![r] = None]

Goes(r, where) ==
  /\ stage' = [stage EXCEPT ![r] = where]
  /\ UNCHANGED <<answer, request>>

LetIn(r, a, where) ==
  /\ actor' = [actor EXCEPT ![r] = a]
  /\ Goes(r, where)
  /\ UNCHANGED feature

At(r, kind, where) == stage[r] = where /\ request[r].kind = kind

(* OPTIONS, /health, /health/live and the metadata of the MCP endpoint *)
Plain(r) ==
  /\ At(r, "plain", "arrived")
  /\ Ends(r, "200")
  /\ UNCHANGED <<config, process, effect>>

(* /health/ready pings the database. *)
Ready(r) ==
  /\ At(r, "ready", "arrived")
  /\ \/ process # "stopped" /\ Ends(r, "200")
     \/ Ends(r, "503")
  /\ UNCHANGED <<config, process, effect>>

-----------------------------------------------------------------------------
(* The event stream; what it sends is the module EventStream. *)

Subscribe(r) ==
  /\ At(r, "stream", "arrived")
  /\ \E a \in Resolutions(request[r].headers) :
       \/ a = None /\ Ends(r, "401")
       \/ a # None /\ EventRead \notin a.scopes /\ Ends(r, "403")
       \/ a # None /\ EventRead \in a.scopes /\ LetIn(r, a, "streaming")
  /\ UNCHANGED <<config, process, effect>>

(* The connection has closed. *)
Unsubscribe(r) ==
  /\ At(r, "stream", "streaming") /\ answer[r] = "lost"
  /\ Ends(r, "lost")
  /\ UNCHANGED <<config, process, effect>>

(* A poll has failed: the handler ends the response. *)
StreamFails(r) ==
  /\ At(r, "stream", "streaming")
  /\ Ends(r, "ended")
  /\ UNCHANGED <<config, process, effect>>

-----------------------------------------------------------------------------
(* The pipeline of a call: request-handler.ts *)

Matching(q) == {f \in Files : Method(f) = q.method /\ <<Route(f), q.path>> \in Matches}

(* What parseRequestInput throws for: a body that is no JSON object, too   *)
(* long, of another type, or cut off with the connection.                  *)
RefuseBody(r) == Ends(r, "400")

(* matchRoute, the first manifest in the order of their names, and the body. *)
Read(r) ==
  /\ At(r, "call", "arrived")
  /\ \/ Matching(request[r]) = {} /\ Ends(r, "404")
     \/ Matching(request[r]) # {} /\ RefuseBody(r)
     \/ /\ \E f \in Matching(request[r]) :
             /\ \A g \in Matching(request[r]) :
                  Manifest(f).binding.name <= Manifest(g).binding.name
             /\ feature' = [feature EXCEPT ![r] = f]
        /\ Goes(r, "authorizing") /\ UNCHANGED actor
  /\ UNCHANGED <<config, process, effect>>

(* The authorization middleware, then the idempotency key and the input    *)
(* contract, which nothing awaits.                                         *)
Authorize(r) ==
  /\ At(r, "call", "authorizing")
  /\ \E a \in Resolutions(request[r].headers) :
       \/ a = None /\ Ends(r, "401")
       \/ a # None /\ ~Permitted(feature[r], a) /\ Ends(r, "403")
       \/ a # None /\ Permitted(feature[r], a) /\ Ends(r, "400")
       \/ a # None /\ Permitted(feature[r], a) /\ LetIn(r, a, "running")
  /\ UNCHANGED <<config, process, effect>>

(* run of aifa-runtime.ts finds a declared capability that no              *)
(* infrastructure module provides.                                         *)
Missing(f) == ~(Manifest(f).binding.capabilities \subseteq config.provided)

(* The feature calls a capability that it has not declared. *)
Strays(f) == ~(Manifest(f).uses \subseteq Manifest(f).binding.capabilities)

(* statusFor: the statuses of the results that are no success *)
StatusFor(code) ==
  CASE code = "NotFound" -> "404"
    [] code = "ConfirmationRequired" -> "428"
    [] code \in {"InvalidInput", "InvalidStatusTransition", "AssistantResponseInvalid"} -> "422"
    [] code \in {"VersionConflict", "IdempotencyKeyReused", "RequestInProgress"} -> "409"
    [] code \in {"InternalError", "InvalidOutput"} -> "500"
    [] code = "ProviderUnavailable" -> "503"
    [] OTHER -> "400"

(* What a feature, or the runner of its command, may answer. *)
Failures == {"NotFound", "InvalidInput", "VersionConflict", "RequestInProgress", "ProviderUnavailable"}

Runs(r) == At(r, "call", "running") /\ process # "stopped"

(* Bug: the output contract is answered like the input contract. *)
OutputIsInput == "422"

(* A value that violates the output contract. *)
OutputStatus == StatusFor("InvalidOutput")

Changes(r, effects) ==
  \E e \in {"none"} \cup effects :
    /\ e # "none" => Mutation(feature[r]) /\ process # "stopped"
    /\ effect' = [effect EXCEPT ![r] = e]

(* A success, of the feature or recorded; the effect is committed before   *)
(* the value is checked.                                                   *)
Succeed(r) ==
  /\ Runs(r) /\ ~Missing(feature[r])
  /\ Ends(r, "200") \/ Ends(r, OutputStatus)
  /\ Changes(r, {"all"})
  /\ UNCHANGED <<config, process>>

Fail(r) ==
  /\ Runs(r)
  /\ \/ Missing(feature[r]) /\ Ends(r, StatusFor("CapabilityMissing"))
     \/ ~Missing(feature[r]) /\ \E code \in Failures : Ends(r, StatusFor(code))
  /\ UNCHANGED <<config, process, effect>>

(* bindCapabilities refuses a capability; run turns that into a result,    *)
(* and the transaction of what came before commits.                        *)
Stray(r) ==
  /\ Runs(r) /\ ~Missing(feature[r]) /\ Strays(feature[r])
  /\ Ends(r, StatusFor("CapabilityNotAllowed"))
  /\ Changes(r, {"part"})
  /\ UNCHANGED <<config, process>>

(* The run throws: the database failed, perhaps after a commit, or is      *)
(* closed.                                                                 *)
Throw(r) ==
  /\ At(r, "call", "running")
  /\ Ends(r, "500")
  /\ Changes(r, {"all"})
  /\ UNCHANGED <<config, process>>

-----------------------------------------------------------------------------
(* The MCP endpoint: mcp-http.ts and mcp-server.ts *)

Allowed(a) == {f \in Files : Manifest(f).binding.exposed /\ Permitted(f, a)}

McpOpen(r) ==
  /\ At(r, "mcp", "arrived")
  /\ \E a \in Resolutions(request[r].headers) :
       \/ a = None /\ Ends(r, "401")
       \/ a # None /\ request[r].method # "POST" /\ Ends(r, "405")
       \/ a # None /\ request[r].method = "POST" /\ LetIn(r, a, "tools")
  /\ UNCHANGED <<config, process, effect>>

(* The list of tools, a tool that is not in it, arguments that do not fit. *)
McpAnswer(r) ==
  /\ At(r, "mcp", "tools")
  /\ Ends(r, "listed") \/ Ends(r, "tool error")
  /\ UNCHANGED <<config, process, effect>>

McpTool(r) ==
  /\ At(r, "mcp", "tools")
  /\ \E f \in Allowed(actor[r]) : feature' = [feature EXCEPT ![r] = f]
  /\ Goes(r, "fetching")
  /\ UNCHANGED actor
  /\ UNCHANGED <<config, process, effect>>

(* The request of the tool, to the route with the arguments filled in. *)
McpCall(r, s) ==
  /\ At(r, "mcp", "fetching") /\ process = "listening"
  /\ \E p \in Paths :
       /\ <<Route(feature[r]), p>> \in Matches
       /\ Accepted(s, [kind |-> "call", method |-> Method(feature[r]), path |-> p,
                       headers |-> LoopbackHeaders(request[r].headers, actor[r]), parent |-> r, caller |-> actor[r]])
  /\ stage' = [stage EXCEPT ![r] = "calling", ![s] = "arrived"]
  /\ answer' = [answer EXCEPT ![s] = "open"]
  /\ UNCHANGED <<config, process, feature, actor, effect>>

(* Bug: a request that nobody accepts is waited for. *)
NeverRefused == FALSE

(* fetch fails: the server has closed its port. *)
Refused == process # "listening"

McpRefused(r) ==
  /\ At(r, "mcp", "fetching") /\ Refused
  /\ Ends(r, "tool error")
  /\ UNCHANGED <<config, process, effect>>

(* The answer to the request of the tool, or its failure. *)
McpReturn(r) ==
  /\ At(r, "mcp", "calling")
  /\ \E s \in Requests :
       /\ stage[s] # "none" /\ request[s].parent = r
       /\ \/ answer[s] = "200" /\ Ends(r, "result")
          \/ answer[s] \notin {"open", "200"} /\ Ends(r, "tool error")
  /\ UNCHANGED <<config, process, effect>>

(* handleRequest may return before the tool does, and its transport is     *)
(* closed then: the response ends without the result.                      *)
McpCut(r) ==
  /\ stage[r] \in {"fetching", "calling"} /\ answer[r] = "open"
  /\ answer' = [answer EXCEPT ![r] = "lost"]
  /\ UNCHANGED <<config, process, request, stage, feature, actor, effect>>

-----------------------------------------------------------------------------
(* Shutdown *)

(* The first SIGTERM or SIGINT: the port is closed. *)
Signal ==
  /\ process = "listening"
  /\ process' = "closing"
  /\ UNCHANGED <<config, requestVars>>

(* server.close calls back when no connection is open. *)
NobodyConnected == \A r \in Requests : answer[r] # "open"

CloseDatabase ==
  /\ process = "closing" /\ NobodyConnected
  /\ process' = "stopped"
  /\ UNCHANGED <<config, requestVars>>

Handle(r) ==
  \/ Plain(r) \/ Ready(r)
  \/ Subscribe(r) \/ Unsubscribe(r)
  \/ Read(r) \/ Authorize(r)
  \/ Succeed(r) \/ Fail(r) \/ Stray(r) \/ Throw(r)
  \/ McpOpen(r) \/ McpAnswer(r) \/ McpTool(r) \/ McpRefused(r) \/ McpReturn(r)
  \/ \E s \in Requests : McpCall(r, s)

ServerNext ==
  \/ \E e \in Environments : Start(e)
  \/ StartFails \/ Signal \/ CloseDatabase
  \/ \E r \in Requests :
       Arrive(r) \/ Disconnect(r) \/ Handle(r) \/ StreamFails(r) \/ McpCut(r)

(* The validator and the server share nothing but the files; a behaviour is *)
(* of one or of the other.                                                  *)
Next ==
  \/ process = "down" /\ RegistryNext /\ UNCHANGED serverVars
  \/ verdict = "none" /\ ServerNext /\ UNCHANGED registryVars

Init == RegistryInit /\ ServerInit

Spec == Init /\ [][Next]_vars

FairSpec == Spec
  /\ WF_vars(CloseDatabase /\ UNCHANGED registryVars)
  /\ \A r \in Requests : WF_vars(Handle(r) /\ UNCHANGED registryVars)

-----------------------------------------------------------------------------
(* Properties *)

Runners == [who : Actors, scopes : SUBSET AllScopes]

ServerTypes ==
  /\ config \in Environments \cup {None}
  /\ process \in {"down", "listening", "closing", "stopped", "failed"}
  /\ \A r \in Requests :
       /\ stage[r] \in {"none", "arrived", "authorizing", "running", "streaming",
                        "tools", "fetching", "calling", "done"}
       /\ feature[r] \in Files \cup {None}
       /\ actor[r] \in Runners \cup {None}
       /\ effect[r] \in {"none", "all", "part"}

(* A server that has started executes the definitions of its repository. *)
OnlyDiscovered == process \in {"listening", "closing", "stopped"} => Discoverable

(* A feature runs only for an actor with every scope that the definition   *)
(* of the feature declares: the definition is compared with the manifest   *)
(* once, at the start, and the scopes with the manifest on every request,  *)
(* of a client or of a tool (discover-features.ts:81-85,                   *)
(* authorization-middleware.ts:29).                                        *)
RunsArePermitted == \A r \in Requests : stage[r] = "running" =>
  Definition(feature[r]).binding.scopes \subseteq actor[r].scopes

(* The feature of a tool runs as the actor that called the tool, but for a *)
(* development server that is sent both headers and a token: it forwards   *)
(* the token, and development reads the headers (mcp-http.ts:54-60).       *)
SameActor == \A r \in Requests :
  stage[r] = "running" /\ request[r].parent # None =>
    \/ actor[r] = request[r].caller
    \/ ~config.production /\ request[r].headers.token # None

(* When the database closes no connection is left to be answered: what is  *)
(* still running then has lost its client (server.ts:219-220).             *)
StoppedServesNobody == process = "stopped" => \A r \in Requests : answer[r] # "open"

(* The invariant of the server: types, permission, identity and shutdown. *)
ServerInvariant ==
  ServerTypes /\ OnlyDiscovered /\ RunsArePermitted /\ SameActor /\ StoppedServesNobody

Refusals == {"400", "401", "403", "404", "409", "422", "428"}

(* A call that is answered with a status below 500 other than 200 has      *)
(* changed nothing, so that the browser may settle its command id          *)
(* (api.ts:19-25): whatever may have committed is answered with 200 or     *)
(* with 500.  The exception is a feature that calls a capability it does   *)
(* not declare: the error is a result, and the transaction commits the     *)
(* part of the effect that came before (aifa-runtime.ts:65).               *)
RefusedHasNoEffect == \A r \in Requests : answer[r] \in Refusals => effect[r] # "all"

StreamOpen == \E r \in Requests : stage[r] = "streaming" /\ answer[r] = "open"

(* A shutdown completes unless some event stream stays open for ever: the  *)
(* calls end, and a tool whose request is not accepted any more is told so *)
(* (server.ts:216-222).                                                    *)
ShutdownCompletes ==
  <>[]~StreamOpen => (process = "closing" ~> process = "stopped")

=============================================================================
