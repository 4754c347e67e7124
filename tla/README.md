# Focusly: TLA+ specifications of the AIFA demo application

Focusly (`demo/ai-todo-assistant`) is the demo application of the AIFA
architecture: a Node.js server over a replica-set MongoDB, an outbox worker, an
AI planning provider, an MCP endpoint and a React client. This directory
specifies the parts of it that run concurrently, fail and recover, checks them
with TLC on small instances and proves the most important facts with TLAPS for
every instance. Paths below are relative to `src/demo/ai-todo-assistant/`
unless they begin elsewhere.

## 1. The system

| Component | State | Operations | Specified in |
|---|---|---|---|
| Durable commands (`core/backend/idempotency`, `run` in `core/backend/server.ts`, `core/backend/database/mongo.ts`) | `idempotency_records`: status, input fingerprint, execution id, lease, prepared answers, result; per request its prepared answers and open transaction | claim, recover, heartbeat, save a prepared answer, run the feature and complete in one transaction, replay | `DurableCommand` over `OnceCommand` and `CommandService` |
| Task features and store (`contexts/task-management`) | `tasks`, one versioned document per task; `outbox_events` | create, accept a suggestion, change status, delete | `Tasks`, `TaskLedger` |
| Task listing (`list-tasks/backend`, `mongo-task-capabilities.ts`) | none; a cursor is a position | list a page, follow its cursor | `TaskPages` |
| Outbox (`core/backend/outbox`) | delivery part of `outbox_events`: status, attempts, availability, claim token, lease; per worker its batch and its running flag | claim a batch, handle, mark delivered or failed, back off, dead-letter, stop on a signal | `Outbox` over `EventDelivery` |
| Event stream (`core/backend/events`) | a cursor (time, ids seen at that time) per connection | poll, write a frame with its cursor, resume from a cursor, close | `EventStream` over `EventFeed` |
| AI planner (`contexts/ai-planning/infrastructure`) | recent calls, active calls, consecutive failures, end of the circuit | admit or reject, attempt, retry, succeed, fail | `TaskPlanner` |
| Server process (`core/backend/server.ts`, `http`, `runtime`, `auth`, `mcp*.ts`, `config.ts`) | configuration, manifests, open connections, the handlers between their awaits | start, match, authorise, parse, validate, run, answer, stream, MCP tools by requests of their own, signals, close | `Server` |
| Discovery and validation (`core/backend/discovery`, `core/architecture`) | the walk: path, visited features | check a definition, walk the dependency graph, compare definition and manifest | `FeatureRegistry` |
| Command identity (`core/frontend/commands`, `api.ts`, `useCommandMutation`, the forms) | an id per pending input and form | draw, keep, settle, leave the form | `CommandMutation` on `CommandService` |
| Query cache (`core/frontend/query`) | per query: snapshot, staleness, generation, fetch in flight, listeners | subscribe, refetch, invalidate by tag, clear | `QueryClient` over `CachedQuery` |
| Contributions and slots (`core/frontend/discovery`, `slots`) | loading promises, two registries, what each place shows | mount, load, register, fail, unmount | `Contributions` |
| Sign-in (`core/frontend/auth/oidc.ts`) | sessionStorage, metadata promise, overlapping attempts | begin, leave, come back, exchange, reload | `SignIn` |
| Browser shell (`App.tsx`, `FrontendEventProvider.tsx`, `core/frontend/events`) | identity, surface, cursor, open response | mount places, connect, read a frame, dispatch, invalidate, clear | `Shell` over `Contributions`, `SignIn` and `CachedQuery` |

How they interact. A mutation goes through the pipeline to `run`, which claims
the record of its idempotency key, asks external capabilities (the planner) and
saves their answers on the record, and then runs the feature in one MongoDB
transaction: the feature's writes to `tasks`, its event in `outbox_events` and
the completion of the record commit together or not at all. A tool of the MCP
endpoint calls its feature by a request to the same server. Workers and event
streams read `outbox_events` independently of each other. A client receives an
event, looks up the consumers that are registered at that moment, invalidates
the queries they name and fetches again; it repeats a command whose outcome it
does not know under the same key.

What is hard. Requests with one key race for its record; leases expire under
slow but living executions; processes die between any two steps; a commit can
succeed and its acknowledgement be lost; the driver runs a transaction again
after a write conflict; events carry a time read before they commit; workers
overlap when leases run out; a signal arrives in the middle of a batch, or with
streams and tools open; handlers outlive their connections; fetches race
invalidations; retained command ids meet recorded failures; slots, sign-ins and
events are under way before each other's results are there.

What makes each component correct. Durable commands: one effect per command,
all answers agree with it, a superseded execution cannot commit or answer with
a result, a completed record is final, a pending one is taken over. Tasks: no
update is lost, events tell the stored tasks in order, tenants do not touch
each other's tasks, pages neither lose nor repeat a task. Outbox: deliveries are
fenced, only handled events are delivered, only exhausted ones are given up,
every event is settled. Event stream: every committed event of the tenant is
delivered, in order, over reconnects. Planner: the limits hold in every window,
the circuit holds and recovers. Server: what was reviewed is what runs, for whom
it may run; a refusal changes nothing; a shutdown ends. Command identity: one
effect at most until the user was told. Query cache: data does not go back, and
what is shown is eventually as new as the last invalidation. Shell: a slot is
shown complete, a sign-in is not lost, what the cache shows follows the events
or says that it could not be fetched.

## 2. Plan

The order follows what loses data when it goes wrong. All of it is done:

1. `DurableCommand` over `OnceCommand`, with proofs.
2. `Outbox` over `EventDelivery`, with proofs.
3. `Tasks` over `TaskLedger` and `TaskPages` on top, with proofs.
4. `EventStream` over `EventFeed`: the cursor, reconnects and slow commits, with proofs.
5. `QueryClient` over `CachedQuery`: fetches racing invalidations, refetches and a
   sign-in, with proofs.
6. `TaskPlanner`: limits and circuit under concurrent calls, with proofs.
7. `CommandMutation` on `CommandService`, which `DurableCommand` implements, with proofs.
8. `FeatureRegistry` and `Server`, with proofs.
9. `Contributions`, `SignIn` and, on them and `CachedQuery`, `Shell`, with proofs.

Left: more than one tenant of the stream.

## 3. Modules

### OnceCommand, CommandService, DurableCommand

`OnceCommand` says what a client is promised: a command executes at most once
and every request that is told a result is told that one. `CommandService` is the
same endpoint with what happens in between: a record per key, the one request
that may complete it, takeovers, and the five ways a request can be answered
(result, refused, busy, failed, or not yet). It is the interface of two modules:
`DurableCommand` implements it (`ImplementsService`), and the forms of
`CommandMutation` call it.

`DurableCommand` is the protocol. `records` is the collection, one document per
key; `staged`, `snapshot` and the pending write stand for the open transactions;
`pc`, `cmd`, `prepared` and `reply` are the requests. `Claim`, `ReadExisting` and
`Recover` are the three database calls of `claim` (`insertOne`, `findOne`, the
recovering `updateOne`), each a step of its own because others run between
them; `Heartbeat`, `SavePrepared` and the provider's answer are
`prepareExternalCapabilities`; `BeginTransaction`, `Complete` and `Commit` are
the transaction. `CommitUnacknowledged` commits and loses the acknowledgement,
`Throw` and `Die` happen anywhere.

Abstractions: a request is named by the execution id it draws, an answer of the
provider by the execution that obtained it; the time stamp of a claim and its
`updateOne` are one step; a transaction's locks go away as soon as its process
dies, which only shortens the waiting of others; the clock ticks only while
a lease is outstanding; business failures are completed results like any other
(`server.ts` completes the record whatever the feature returns).

### TaskLedger, Tasks, TaskPages

`TaskLedger` is the sequential view: tasks change one command at a time and each
change is announced by one event.

`Tasks` runs every feature as a snapshot transaction: `DecideCreate`,
`DecideChange` and `DecideDelete` are a feature up to its first write (all its
reads see the snapshot of the first), `Write` is the write, `Emit` the
insertion of the event with its own reading of the clock, `Commit` the commit.
`WriteConflict` is MongoDB's: somebody has written the document since the
snapshot, and the driver runs the feature again. `Fail` aborts at any point.
The branches of `change-task-status` and `delete-task` for a save or delete that
matched nothing are never taken inside a transaction: the filter repeats the
version the same snapshot has just shown, and a concurrent write is a conflict.
Titles, categories and priorities are left out, except for a title being blank.

`TaskPages` is `TaskList`: the filter with the `$or` of its cursor, the order, one
task of look-ahead, and a client that follows `nextCursor`. It writes nothing, so
it is a set of operators on the tasks of whatever state `Tasks` is in. `Pages` is
the list of pages a client has after n requests, `NextPage` one more request.
`PlacesStay` says that no step moves a stored task to another place of the order.

### EventDelivery, Outbox

`EventDelivery` is what the outbox promises for each event: a limited number of
tries, delivered only after its handler succeeded, given up only when the tries
are used, and either is final. `Outbox` implements it (`ImplementsDelivery`).

`delivery` is the delivery part of the documents; a worker is in its loop, claims
(`ClaimOne` once per event, oldest first, `EndClaim`), handles and marks one event
after another, sleeps when nothing was claimed, and stops between rounds after a
signal. A claim token is a random UUID; as every claim also increments
`attempts`, the number of the claim serves as its token. The handler of
`worker.ts` writes a log line; it is an outcome, success or failure. `Crash` loses
the batch, `MarkDeliveredThrows` is the error path where a handled event is
marked failed, whether or not the update was made.

### EventFeed, EventStream

`EventFeed` is what the stream promises to the consumers of one browser. They are
shown the events in the order of their time, each at most once. An event is
missed only if it was raised before the feed began or if a later one was
committed before it, and a feed begins anew only for a browser that has no
cursor, or that was shown more events of one millisecond than a cursor can name.
`EventStream` implements it (`ImplementsFeed`), with `since` as its history of
when a stream last began without a usable cursor.

One provider of one tenant and everything between the outbox and its consumers.
`occurredAt` and `committed` are the events: `DomainEventEmit` stamps an event,
`CommitEvent` commits its transaction at any later time, or never. `Connect` is
`createEventStreamHandler` up to the "ready" frame, with the cursor decoded from
`Last-Event-ID`; `Poll` is `readAfter`, `WriteEvent` one turn of the loop that
writes its events. `wire` holds the frames between the two sides. `Receive` takes
over the cursor of a frame (`onCursor`), `Handle` is its dispatch to the
consumers. `Disconnect` loses any suffix of the frames, `HandleFails` is a
consumer that throws, which ends the reader with everything it had buffered. Ids
of events are numbers, since ties of `occurredAt` are broken by id; the length
of an encoded cursor is the number of ids in it.

An event is `excused` when the code cannot send it to this reader: it committed
before the stream began, or at a time the stream had passed. All others are held
to the letter of the properties.

### TaskPlanner

One adapter object of `ollama-task-planner.ts`. `Start` and `Reject` are the
admission, which runs without an await; `Retry`, `Succeed` and `Fail` are how an
attempt ends, at the latest by its `AbortSignal.timeout`. `recent` is
`recentRequests`, kept as the set of the admitted calls it still remembers:
times are pushed in order, so dropping old ones at the front drops all of them.
`lastTrip` and `quiet` record, for the properties, when a failure last opened the
circuit and that nothing has succeeded since. The counters of `health()` other
than `active` decide nothing and are left out.

### CommandMutation

`useCommandMutation`, its `CommandIdStore` and `isDefinitiveCommandFailure`, with
three kinds of forms: one whose button is disabled while a call is pending, one
that is offered until it was accepted, one that can be clicked at any time. The
server is `CommandService` with the ids as its keys: `Click` is its `Arrive`, and
`ServerStep` any of its other steps for a request that was sent. A recorded 503
(the planner was unavailable) is a result, a 409 `RequestInProgress` is not.
`Break` is a lost answer, `Leave` a form that is unmounted with its ids. `told`
counts, for the properties, the outcomes the user was told and the forms left.

### FeatureRegistry, Server

`FeatureRegistry` holds the contents of a repository: per file the definition,
the manifest next to it and the contributed slots. `Validate` is every check of
`validate-feature-definitions.ts` before its search, and the search is the walk
of `visit` step by step, with the path, the visited features and the
dependencies still to be followed. `Discoverable` is what
`discover-features.ts` demands at the start. What only the text of a file can get
wrong (JSON schema, enum values, missing files) is one Boolean, `sound`.

`Server` is one process: `Start` under `Configured` and `Discoverable`, requests
that `Arrive` and may `Disconnect` at any moment without their handler noticing,
`Read` and `Authorize` (`request-handler.ts`, with the authorization between the
routing and the contracts, in the order of the code), and the run with its
outcomes `Succeed`, `Fail`, `Stray` (an undeclared capability) and `Throw`.
`Subscribe` opens a stream; `McpTool`, `McpCall` and `McpReturn` are a tool and its
own request, with the headers of `actorHeaders`. `Signal` and `CloseDatabase` are
the shutdown. What a mutation does to its record is `DurableCommand`, and to
tasks `Tasks`: here it has had its effect, all of it, a part, or none. Requests
that are over keep only what the properties need. The validator and the server
share nothing but files, so a behaviour is of the one or of the other.

The verification of a token is a choice, made again for every request; the body
of a request is good or not; a path and a route match or not (`Matches`).

### CachedQuery, QueryClient

`CachedQuery` is one entry of the cache as its users see it: what it holds,
whether it is marked, whether its last fetch failed, and whether one is under
way. A mount asks only if the entry is marked, an invalidation asks for what is
watched and joins what is running, and the mark is taken off when a fetch
starts: a fetch that fails (`Refuse`) leaves what there was, unmarked and with an
error. `QueryClient` implements it for each entry (`ImplementsCachedQuery`), and
`Shell` is built on it, as `CommandMutation` is on `CommandService`.

In `QueryClient`, `entries` is the cache, `fetches` the operations of `#execute`
from the call of the query function to the last callback, and `listeners` the
mounted views. An operation is sent, gets its outcome (`Answer` reads the list on
the server, `Fail` is an abort, a refusal or an error), stores it (`Settle`:
`.then` and `.catch`) and clears its promise (`Finally`). Storing and clearing
are two steps, because React renders and mounts views in a microtask of its own.
The data of an answer is the version of the collection it was read from; all
queries of the application carry one tag, so a query that the tag does not touch
is not needed. The one view that queries mounts only for who is signed in
(`contribution.tsx:1235-1243`). `SignIn` is the moment `completeSignIn` stores a
token, `Clear` the effect of `App.tsx` that follows; a page that gets a second
token while it holds one clears nothing and is left out. `needed` and `joined`
record what the last invalidation found, `asked` what there was when the last
operation of an entry started.

### Contributions, SignIn, Shell

`Contributions` is `ensureFrontendContributions` with the two registries and the
`LazySlot`s that wait for it: `Mount` asks for every module that is not loaded and
awaits those already on their way, `Load`, `LoadFails` and `LoadCollides` are the
ends of `loadModule`. Two exports of one name throw; what was registered before
them stays, and a rejected promise is kept until the page is loaded again.

`SignIn` is the authorization code flow: `Click` and `MetadataArrives` store
verifier and state, `Assign` leaves for the provider, `LoadPage`, `LoadMismatch`
and `LoadCallback` are the first render of a page with or without a code,
`ExchangeSucceeds` and `ExchangeFails` its exchange. Every load of the page loses
its memory. An attempt names its verifier, its state and its code.

`Shell` puts both under `App.tsx`: the content is mounted from the first render
on, the navigation with the workspace, and the buttons are what fills the
places. The provider's loop runs from the first render, too: `Connect`,
`Receive` (cursor first, then `Dispatch` to the consumers registered at that
moment), `Handled` or `HandleFails`, `Break`. Views mount, turn to other filters
and come back (`ViewMounts`, `ViewLeaves`), commands of the page invalidate, and
the requests this causes are answered or fail while all else goes on
(`FetchAnswers`, `FetchFails`, `FetchEnds`). The loop awaits what a consumer's
invalidation started or joined, and goes on when that ends, failed or not: the
promise of `#execute` resolves in both cases, so no error reaches the loop. Two
consumers of one event invalidate in one go; the second joins the request of the
first, which leaves the entry marked. Whatever the stream has that no module
consumes (`TaskPlanGeneratedV1`, which `generate-task-plan/backend/feature.ts:61`
emits and `event-stream.ts` streams like any other) passes without effect;
`TaskEvents` are the types that do have consumers. No view calls `refetch`, so
`Shell` does not have it. The races inside an entry are `QueryClient`'s, cursors and
frames `EventStream`'s.

## 4. Runs

| Run | Shows | Instance |
|---|---|---|
| `durable_safety` | one effect, completed records final, fencing; it implements `OnceCommand` and `CommandService` | 3 requests, 1 key, 2 inputs, 1 external capability, 1 interruption, lease of 1 tick |
| `durable_liveness` | every request ends; a pending command is taken over and completed | 3 requests, 2 interruptions |
| `tasks` | events tell the tasks, in order; tenants apart; no lost update; pages complete at every moment; it implements `TaskLedger`; conflicts do not starve a command | 3 commands, 10 inputs, 3 ids, 2 tenants, pages of 1 and 2, clock to 1 |
| `outbox_safety` | fenced deliveries, exhausted dead letters, overlap only after expiry, clean stops; it implements `EventDelivery` | 2 workers, 2 events, batches of 2, 2 attempts, 1 fault |
| `outbox_recovery` | every event settles unless its last claim was lost | 2 workers, 1 event, 1 fault, 3 attempts, lease and longest wait of 2 |
| `stream` | it implements `EventFeed`: events reach the consumers once, in order, none left out but the excepted; those in time arrive | 3 events, polls of 2, cursors of 1 id, clock to 2, 2 interruptions |
| `late_commit_is_not_streamed` | a finding (section 5) | 2 events, no interruption |
| `planner` | limits, sliding window, circuit; the planner admits again | 4 calls, 2 at a time, 3 in a window of 1 tick, 2 failures open the circuit for 2 |
| `commands` | ids are drawn, kept and earned; no second effect before the user was told of the first | 3 requests, 3 forms, 1 form left |
| `server` | the verdict of the validator; permission, identity, refusals, shutdown | 512 graphs of 3 features; 5 more repositories; 3 environments, 3 credentials, 2 clients and a tool's request |
| `query_cache` | data never goes back; what is not stale, successful and not being fetched is current; one request per entry; entries implement `CachedQuery`; watched views catch up, or show an error, unless a fetch was joined | 1 query, 1 view, 4 moves, 1 change |
| `shell` | slots complete, sign-in not lost, what the cache shows follows the events over failing and joined requests, unread responses bounded | 2 modules in 3 variants, 2 places, 2 attempts, 3 loads, 3 events, 1 break |

Where a module has an inductive invariant its run checks that, too
(`InductiveInvariant`, `PlannerInvariant`, `CommandInvariant`, `ServerInvariant`,
`ContributionsInvariant`, `SignInInvariant`, `EventsInvariant`).

Why the bounds suffice. Races for a record need two requests, a takeover of a
takeover needs a third; that keys do not mix is shown by the proofs. A lost
update needs two commands after the one that creates the task; three tasks of
two creation times in pages of one and two split a millisecond over pages. Two
workers and two events give batches that overlap, reorder and expire in the
middle; two attempts make the last claim reachable soon, three make the waits
differ. One fault can fall at any step; the liveness run of the commands has two,
so that the taking-over request may fail as well. Time is counted from zero;
comparisons of times are all that matters, and leases of one or two ticks put
expiry before, at and after every step. Three events in polls of two make a poll
that ends in the middle of a millisecond, a second poll that continues it and a
third event that commits in between; cursors of one id make the third cursor of
a millisecond too long. Two interruptions let a resumed stream break again. Four
calls reach both limits of the planner, slide a window past the first and leave
one to end after the circuit opened. Three requests of one form are an original,
its repetition and a request after both; one form can be left in between. Three
features have every cycle, two of them share a dependency, and a fourth name is
unknown; two clients with a tool's request are a tool, its call and somebody
else. Entries of the cache do not touch each other, so one is enough; four moves
mount a view, refetch, invalidate and unmount or mount again, and one change
tells old from new. Two places mount before, while and after two modules load;
two attempts overlap in one page and across a reload, and three loads are the
first page, a callback and a reload. Of three events one has two consumers, one
has none and one has one, so an entry is left marked, untouched and fresh; a
later event is read while the request of an earlier one is under way or after it
failed. The bounds are `MaxInterruptions`,
`MaxFaults`, `MaxTime`, `MaxLimit`, `MaxMoves`, `MaxVersion`, `MaxLeaves`,
`MaxClients`, `MaxLoads`, `MaxEvents` and `MaxBreaks`.

The instances of `shell` and `server` each contain wrong variants (colliding or
undeclared exports, a manifest with other scopes, an undeclared capability, a
capability nobody provides), because there the code has to notice.

Fairness. Server steps are weakly fair: Node.js runs every ready callback, the
driver's calls return or throw, and a process that is to take over is one that
is alive. The clock advances. For `PendingIsRecovered` callers keep sending
requests, as nothing in the server retries on its own. Workers are restarted by
their supervisor, and a worker that is restarted again and again sometimes
begins a round before its next signal (strong fairness). The polling timer, the
reader and its consumers go on, and a provider that reconnects is accepted in
the end; no transaction is assumed to commit. A planner's attempt ends by its
timeout. A handler of the server that can go on does, and `server.close` calls
back when no connection is open; no client is assumed to leave, so
`ShutdownCompletes` says "unless some stream stays open for ever". A browser's
request is answered or fails, its callbacks run, and React runs the effect that
clears the cache. Nothing assumes that interruptions, signals, conflicts or
failing handlers happen or do not happen. The liveness run of the commands has
no external capabilities: two heartbeats in one millisecond can fail an
execution without any fault (section 5). Some runs switch deadlock checking off,
as their bounds, or a stopped process, end the behaviour.

## 5. What the models show of the code

One run expects a violation.

* `late_commit_is_not_streamed`: the stream continues beyond the `occurredAt` of
  the last event it sent, and `occurredAt` is read before the transaction
  commits. An event that commits after a later one was streamed is behind the
  cursor and is never streamed, although `ARCHITECTURE.md:128-130` says the
  endpoint reads "the tenant's committed outbox records in event order for live
  browser synchronization".

The following were met while modelling. The models do what the code does, and
the properties are stated so that they hold; none of it has a run of its own.

* `mongo-idempotency.ts:97`: `heartbeat` requires `modifiedCount === 1`, and
  renewing a lease to the value it has modifies nothing. In the millisecond of
  its claim the execution that holds the fence can fail.
* `mongo-idempotency.ts:84`: the claim returned by a recovery carries the
  prepared answers read before the recovering update. An answer saved between
  the two is in the record and not in the claim; the provider is asked again.
* `mongo-outbox.ts:41`: an event whose worker is lost on the last claim stays
  `Processing` for ever (`EveryEventSettlesOrIsStranded` names it as the
  exception).
* `query-client.ts:129`: an invalidation that finds a fetch running joins it,
  although the server may have read the list before the change; the entry stays
  marked and nothing fetches it until a view mounts or the next invalidation
  (`WatchedViewsCatchUp` excepts it). `TaskCreatedV1` has two consumers, so the
  second always joins the request of the first, and the entry stays marked.
* `query-client.ts:133`: the mark is taken off before the request. When it fails
  (148-157) the data from before stays, unmarked, with status "error", and the
  promise resolves: the event that caused the request counts as handled, its
  cursor is passed, and a view that mounts again does not ask. Only a later
  invalidation or the clear does. The views keep showing the old list under the
  error, and that error is all that tells of it: `CacheFollowsEvents` and
  `FreshIsCurrent` speak of entries without one. `ARCHITECTURE.md:196` names
  retries among what the frontend core owns; the cache has none.
* `generate-task-plan/backend/feature.ts:61`: `TaskPlanGeneratedV1` is streamed to
  browsers, and no module of `frontend-modules.ts` consumes it.
* `react-query.tsx:104-108`: a recorded result with a 503 never settles the
  command id, so the form replays it until it is left.
* A request can be answered "busy" although the command was completed while it
  looked (`mongo-idempotency.ts`: between the `findOne` and the recovering
  `updateOne`); a command that was completed can be answered 500, when the commit
  is not acknowledged or its result does not fit the output contract; and a
  request can fail before it has claimed anything. `CommandService` allows all
  three, and the ids that forms retain make them harmless.
* The Delete dialog and the Move menu stay enabled while a call is pending; the
  same click sent again reuses the id, which is what makes it harmless. The
  create form clears what was typed while its call was pending.
* `generate-task-plan/frontend/contribution.tsx:168`: the accepted flag belongs to
  a suggestion by its title and survives a new plan with the same title.
* `server.ts:107`: the provider is asked with the raw input before
  `generate-task-plan/backend/feature.ts:36` refuses a blank goal.
* A rejected promise of a contribution (`discover-contributions.ts`) or of the
  provider's metadata (`oidc.ts`) is kept until the page is loaded again; a module
  whose exports collide stays registered in part.
* An attempt to sign in that a newer one has superseded is answered with a state
  that does not match; a user who is signed in then stays on the landing page.
* `App.tsx` clears the cache when `signedIn` changes. A page that holds a token
  while it completes another sign-in clears nothing, and the stream it has
  opened goes on with the identity before; `ARCHITECTURE.md:258` expects actor
  changes to "clear cached data and terminate the previous event subscription".
* A view that was fetched before the first connection does not hear of the events
  between the two (`CacheFollowsEvents` begins with the first connection);
  `useTasks` shows the first page only.
* A consumer that refuses an event leaves its response open and unread
  (`EventsInvariant` bounds these by the refused events).
* `aifa-runtime.ts:65`: an undeclared capability that is called after a write is a
  failed result, and the transaction commits the write (`RefusedHasNoEffect`
  speaks of complete effects for this reason).
* `mcp-http.ts:54-60`: a development server that is sent a token with the headers
  of an actor runs tools as the demo actor; `mcp-http.ts:61-70`: the transport may
  be closed before the result of a tool is there.
* `request-handler.ts:64`: the deadline of a request destroys its connection; the
  handler goes on, also while the database is being closed.
* `discover-features.ts`: two templates that match one path are not noticed; the
  first manifest in the order of names answers.

## 6. Proofs

Eight modules hold proofs, each for any values of the constants that satisfy the
assumptions.

`DurableCommandProofs`: `InvariantHolds`, `EffectAtMostOnce`,
`RepliesAlwaysAgree`, `CompletedNeverChanges`, `SupersededAlwaysFails`,
`DurableImplementsOnce` and `DurableImplementsService`. `AtMostOneEffect` is not
inductive by itself: that a second execution cannot complete rests on the staged
one still holding the fence, on nobody taking a staged record over, and on
effects and completed records matching. These are the conjuncts of
`InductiveInvariant`.

`TasksProofs`: `InvariantHolds`, `NoUpdateIsLost`, `EventsOfATaskInOrder`,
`TenantsStayApart` and `TasksImplementLedger`. The heart of the invariant is
`WritersAreAlone`: a transaction that has written a task is the only one, and
what it has read is what is stored; so its commit is a step of the ledger.
`VersionsMove` adds that a command that took effect has moved the version it
named, so no later one can name it; `NewIdsAreNew` and `StoredIsAnnounced`
separate created tasks from all others; `NothingFromTheFuture` orders times.

`EventsTellEveryTask` is stated over the indices of the event log, with the
first, the last and the following event of a task, so that nothing has to be
selected from a sequence: a task begins with its creation, each change continues
what the event before it left, nothing follows its deletion, and the last event
leaves what is stored. A commit appends one event after the last of its task.
`PagesAlwaysComplete` is that a client who follows the cursors through any
stored tasks has seen every task of its filter once and in order, whatever the
page size. `Pages` is a recursive function, and the library's induction takes an
operator as its parameter; `InductionOverNat` states induction for sets instead
(a set that holds 0 and with each number its successor holds all numbers), which
is proved from well-founded induction on sets, and `Iteration` gives the values
of a recursive function from it. What remains is order theory: a page holds the
first tasks after its cursor (`FirstOfOrdered`, `PageFits`), the next begins
where it ends (`PagesFollow`), and with each page fewer are left
(`PagesExhaust`). `PlacesAlwaysStay` shows that this order holds across steps as
well.

`OutboxProofs`: `InductiveInvariantHolds`, `OverlapOnlyAfterExpiryHolds`,
`SettledIsFinalHolds` and `OutboxKeepsItsPromise`. A claim is named by its event
and its number (`ClaimsAreApart`), and `ClaimsFitDeliveries` says which claims
are still the latest of their event; whoever marks with an older number changes
nothing. A newer claim needs an expired lease, from which the overlap follows.
The refinement maps a claim to `HandOut`, a handler that succeeds to `Succeed`
and the two updates to `Deliver` and `GiveUp`, or to nothing when the claim was
lost.

`EventStreamProofs`: `InvariantHolds`, `DeliveredOnceInOrder`,
`NoEventIsSkipped`, `CursorsNeverGoBack` and `StreamIsAFeed`. The invariant
follows the cursors along the wire: they only advance (`CursorsAdvance`), each
covers what was sent up to it and nothing else (`CoveredIsSent`,
`SentIsCovered`), and what the server has read and not written comes next
(`BatchIsNext`). That the cursor of a stream that is off lies before the next
connection is what makes a connection without a usable cursor start after
everything seen. For the feed, `CursorsAreFounded` says what a cursor is made
of: events of its own time that were sent up to it, or the beginning of a
stream. So what it passes over was overtaken by a committed event
(`PassedOverIsOvertaken`), and one that is too long names events that were shown
(`LongCursor`). A frame that is parsed holds the next event: what is covered was
shown, and what is not covered by the cursor of the frame is later.

`TaskPlannerProofs`: `PlannerInvariantHolds`, `WindowLimitHolds` and
`CircuitAlwaysHolds`. The limit of any window follows by its newest call: when
that was admitted all calls of the window were still remembered
(`RecentIsKnown`). `TrippedIsOpen` ties the end of the circuit to the last failure
that asked for it, whichever calls end late.

`ServerProofs`: `VerdictAlwaysRight`, for any graph of dependencies, by the
invariant of a depth-first search: the path is a chain of dependencies
(`PathFits`), what is not left of a feature has been visited or is next on the
path (`LeftFits`), and what has been visited is closed and contains no cycle
(`VisitedFits`). A dependency on the path closes a cycle; a feature that is left
has all its dependencies visited. `ServerInvariantHolds` and
`RefusalsHaveNoEffect`, by an invariant of each request (`RequestFits`): what a
handler has resolved so far, that headers forwarded by a tool resolve to its
caller again (`Forwards`), and that a request has no effect before its end.

`ReactQueryProofs`, about both halves of `react-query.tsx`. The cache:
`InvariantHolds`, `ViewsNeverGoBack`,
`FreshEntriesAreCurrent`, `OneRequestAtMost` and `EntriesAreCachedQueries`. Entries
are independent, so the invariant is restated for one entry and its operations
(`EntryByEntry`), each change an entry can go through is shown to keep it (start,
mark, abort, clear, outcome, store, end), and each action is such a change of
every entry. Its heart is that all operations but the last are aborted
(`SupersededIsAborted`) and that an answer still to be stored is at least as new
as what is shown and as its request (`AnswersAreNewer`), from which the
refinement follows step by step. The commands: `CommandInvariantHolds` and
`EffectsAreTold`. An input has at most one id more than outcomes its user was
told (`IdsAreEarned`), since only a told outcome settles one; an id has one effect
at most, by `CommandService`; so the effects are bounded by what was told.

`ShellProofs`: `ContributionsInvariantHolds`, `SignInInvariantHolds`,
`EventsInvariantHolds` and `CacheAlwaysFollowsEvents`. Places that wait wait for
exactly what is not loaded, so the last module makes a place ready and complete.
A stored state is of the newest attempt that got so far, so a callback whose
state is gone was superseded or exchanged. The cache follows events although
they are dispatched to whatever consumers there are, and whatever requests fail:
nothing is watched, fetched or held before everything is loaded, and then every
change has a consumer; an invalidation leaves the entry marked or starts a
request, and a request under way whose answer will not be marked was sent after
all that the loop has read (`CacheStrong`). A request that fails changes none of
this, as it shows. `ConsumersAssumption` is that some module exports a consumer of
every type in `TaskEvents`, as the modules of `frontend-modules.ts` do for
`TaskCreatedV1`, `TaskStatusChangedV1` and `TaskDeletedV1`. It says nothing of other
types, and there is one, `TaskPlanGeneratedV1`.

Assumptions: `None` is outside the sets it stands beside, the lease is positive,
inputs, bundles and headers have the shapes of their contracts, batches hold an
event at least, limits are positive, a provider waits before it reconnects, and
events of `TaskEvents` have consumers somewhere. TLC evaluates them in every run.

Only model-checked: the liveness properties, which rest on fairness and are
outside the prover's reach (`EveryRequestEnds`, `PendingIsRecovered`,
`EveryEventSettlesOrIsStranded`, `EveryCommandIsAnswered`, `TimelyEventsArrive`,
`WatchedViewsCatchUp`, `PlannerRecovers`, `ShutdownCompletes`), and the
counterexample of section 5. Every invariant, action property and refinement
that a run checks is also a theorem. `RepliesAgree`, `TenantsAreApart`,
`SettledIsFinal`, `PlacesStay`, `NothingSkipped`, `CursorMovesForward`,
`OneRequestPerEntry` and `FreshIsCurrent` (a conjunct of `InductiveInvariant`) are
theorems that no run checks by name.

What some properties do not say. `NoDuplicateUntilTold` bounds
the effects by the outcomes a user was told, and every definitive answer of a
repetition counts as one, a 400, 401 or 403 included: the user was then told
something, if not what became of the first request. `TimelyEventsArrive` speaks of
cursors up to the length that `event-stream.ts` accepts; the limit that Node.js puts
on the headers of a request (16 KiB) is outside the model. `FreshIsCurrent` speaks
only of entries whose status is "success" and that are not being fetched.
`ShutdownCompletes` excuses event streams that stay open, `ServerInvariant` speaks
of open connections and not of handlers that have outlived theirs,
`RefusedHasNoEffect` of complete effects, and the liveness properties of the
commands of instances in which no lease is renewed.

## 7. Not modelled

* Markup and styles (`list-tasks/frontend/contribution.tsx` and the other
  `contribution.tsx` files): the conditions under which forms mount and buttons
  are enabled are in `Shell`, `CommandMutation` and `QueryClient`; the rest is
  presentation.
* `docs/script.js` and the website: presentation.
* `generate-contract-types.ts` and the bundle and import checks: generators and
  linters over text, without state.
* Logging (`core/backend/telemetry`): output only.
* Token verification (`jose`), the MCP SDK, MongoDB and React: external; modelled
  by what the code relies on.
* The stored task plan (`task_plans`): written in the transaction of its command
  and read by nothing.
* Re-configuring a cache entry with other tags: no view does it.
