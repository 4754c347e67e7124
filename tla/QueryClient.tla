---------------------------- MODULE QueryClient -----------------------------
(***************************************************************************)
(* The query cache of the browser (core/frontend/query/query-client.ts),   *)
(* the hook through which views use it (react-query.tsx) and the part of   *)
(* App.tsx that clears it when somebody signs in.  CachedQuery is what the *)
(* rest of the browser knows of an entry.                                  *)
(*                                                                         *)
(* An entry keeps the last answer to a query, whether it is stale, and the *)
(* promise of its fetch.  A command's answer or a domain event invalidates *)
(* the entries of a tag: it marks them stale and fetches those that are    *)
(* watched.  A fetch is answered by the server at some moment between its  *)
(* start and its end, and ends in two steps, as the promise chain does:    *)
(* its outcome is stored, then the promise is cleared.                     *)
(*                                                                         *)
(* The queries are those with the tag of one collection (TaskCacheTag has  *)
(* only one), whose version counts its changes; the data of an answer is   *)
(* the version it was computed from.                                       *)
(***************************************************************************)
EXTENDS Naturals, FiniteSets

CONSTANTS
  Queries,      \* configured queries that carry the collection's tag
  Views,        \* mounted components
  MaxVersion,   \* bound: how often the collection changes
  MaxMoves,     \* bound: how often a view moves or a tag is invalidated
  None

ASSUME ConstantsAssumption == MaxVersion \in Nat /\ MaxMoves \in Nat

ASSUME NoneAssumption == None \notin Nat /\ None \notin {"failed", "aborted"}

VARIABLES
  version,    \* the server's collection
  signedIn,   \* the browser holds a token
  clearDue,   \* the token is new and the cache not yet cleared
  entries,    \* the cache
  listeners,  \* listeners[q]: the views subscribed to q
  fetches,    \* the operations of #execute that have not ended
  asked,      \* history: the version when q's last operation started
  needed,     \* history: the version when q was last invalidated
  joined,     \* history: that invalidation joined a fetch already running
  moves       \* how many moves there were so far

worldVars == <<version, signedIn, clearDue>>
historyVars == <<needed, joined>>
vars == <<worldVars, entries, listeners, fetches, asked, historyVars, moves>>

-----------------------------------------------------------------------------
(* Data *)

Version == 0..MaxVersion
Cause == {"failed", "aborted"}

Snapshot ==
  [status : {"idle", "pending", "success", "error"},
   data : Version \cup {None}, error : Cause \cup {None}, isFetching : BOOLEAN]

Entry ==
  [snapshot : Snapshot, stale : BOOLEAN, generation : Nat, promise : BOOLEAN]

(* An operation: sent, with an outcome that its callbacks have not stored  *)
(* yet, or settled with only its `finally` to come.  An abort fails it if  *)
(* it is still in flight.                                                  *)
Fetch ==
  [query : Queries, generation : Nat, aborted : BOOLEAN,
   stage : {"sent", "answered", "failed", "settled"},
   data : Version \cup {None}, error : Cause \cup {None}]

TypeOK ==
  /\ version \in Version
  /\ signedIn \in BOOLEAN
  /\ clearDue \in BOOLEAN
  /\ entries \in [Queries -> Entry]
  /\ listeners \in [Queries -> SUBSET Views]
  /\ fetches \subseteq Fetch
  /\ asked \in [Queries -> Version]
  /\ needed \in [Queries -> Version]
  /\ joined \in [Queries -> BOOLEAN]
  /\ moves \in Nat

idleSnapshot ==
  [status |-> "idle", data |-> None, error |-> None, isFetching |-> FALSE]

Init ==
  /\ version = 0
  /\ signedIn \in BOOLEAN
  /\ clearDue = FALSE
  /\ entries = [q \in Queries |->
                  [snapshot |-> idleSnapshot, stale |-> TRUE,
                   generation |-> 0, promise |-> FALSE]]
  /\ listeners = [q \in Queries |-> {}]
  /\ fetches = {}
  /\ asked = [q \in Queries |-> 0]
  /\ needed = [q \in Queries |-> 0]
  /\ joined = [q \in Queries |-> FALSE]
  /\ moves = 0

-----------------------------------------------------------------------------
(* #execute *)

Watched(q) == listeners[q] # {}

(* f is the operation its entry waits for. *)
IsCurrent(f) == entries[f.query].generation = f.generation

(* The entry of an operation that has just started. *)
Started(entry) ==
  [snapshot |->
     [status |-> IF entry.snapshot.data = None THEN "pending" ELSE entry.snapshot.status,
      data |-> entry.snapshot.data, error |-> None, isFetching |-> TRUE],
   stale |-> FALSE,
   generation |-> entry.generation + 1,
   promise |-> TRUE]

NewFetch(q, entry) ==
  [query |-> q, generation |-> entry.generation + 1, aborted |-> FALSE,
   stage |-> "sent", data |-> None, error |-> None]

(* The operations after entry.controller?.abort() for the queries Q. *)
AfterAbort(Q) ==
  {IF f.query \in Q /\ IsCurrent(f) THEN [f EXCEPT !.aborted = TRUE] ELSE f : f \in fetches}

(* #execute, not forced, for the queries Q of a cache: an operation that   *)
(* is running is joined.  `running` are the operations it finds.           *)
ExecuteAll(Q, cache, running) ==
  LET S == {q \in Q : ~cache[q].promise}
  IN  /\ entries' = [q \in Queries |-> IF q \in S THEN Started(cache[q]) ELSE cache[q]]
      /\ fetches' = running \cup {NewFetch(q, cache[q]) : q \in S}
      /\ asked' = [q \in Queries |-> IF q \in S THEN version ELSE asked[q]]

-----------------------------------------------------------------------------
(* The views *)

Move == moves < MaxMoves /\ moves' = moves + 1

(* subscribe.  The one view that queries mounts only for who is signed in; *)
(* its effects run before App's, so it may come before the clear.          *)
Subscribe(v, q) ==
  /\ signedIn
  /\ v \notin listeners[q]
  /\ Move
  /\ listeners' = [listeners EXCEPT ![q] = @ \cup {v}]
  /\ ExecuteAll({p \in {q} : entries[p].stale \/ entries[p].snapshot.status = "idle"},
                entries, fetches)
  /\ UNCHANGED <<worldVars, historyVars>>

(* The function subscribe returns: an operation goes on without listeners. *)
Unsubscribe(v, q) ==
  /\ v \in listeners[q]
  /\ Move
  /\ listeners' = [listeners EXCEPT ![q] = @ \ {v}]
  /\ UNCHANGED <<worldVars, entries, fetches, asked, historyVars>>

(* refetch, offered by a view: #execute, forced. *)
Refetch(q) ==
  /\ Watched(q)
  /\ Move
  /\ entries' = [entries EXCEPT ![q] = Started(@)]
  /\ fetches' = AfterAbort({q}) \cup {NewFetch(q, entries[q])}
  /\ asked' = [asked EXCEPT ![q] = version]
  /\ UNCHANGED <<worldVars, listeners, historyVars>>

-----------------------------------------------------------------------------
(* Invalidation, sign-in and the collection *)

Stale(entry) == [entry EXCEPT !.stale = TRUE]

(* invalidateTags, for the answer to a command or a domain event: entries  *)
(* are marked, and those that are watched executed.                        *)
InvalidateTags ==
  /\ Move
  /\ ExecuteAll({q \in Queries : Watched(q)},
                [q \in Queries |-> Stale(entries[q])], fetches)
  /\ needed' = [q \in Queries |-> version]
  /\ joined' = [q \in Queries |-> entries[q].promise]
  /\ UNCHANGED <<worldVars, listeners>>

(* completeSignIn stores a token; App renders with it and then clears.     *)
SignIn ==
  /\ ~signedIn
  /\ signedIn' = TRUE
  /\ clearDue' = TRUE
  /\ UNCHANGED <<version, entries, listeners, fetches, asked, historyVars, moves>>

(* Bug: the promise of an aborted operation is kept. *)
ClearedKeepingPromise(entry) ==
  [snapshot |-> idleSnapshot, stale |-> TRUE,
   generation |-> entry.generation + 1, promise |-> entry.promise]

Cleared(entry) ==
  [snapshot |-> idleSnapshot, stale |-> TRUE,
   generation |-> entry.generation + 1, promise |-> FALSE]

(* clear *)
Clear ==
  /\ clearDue
  /\ clearDue' = FALSE
  /\ ExecuteAll({q \in Queries : Watched(q)},
                [q \in Queries |-> Cleared(entries[q])], AfterAbort(Queries))
  /\ UNCHANGED <<version, signedIn, listeners, historyVars, moves>>

(* A command of this or another client changes the collection. *)
Write ==
  /\ version < MaxVersion
  /\ version' = version + 1
  /\ UNCHANGED <<signedIn, clearDue, entries, listeners, fetches, asked, historyVars, moves>>

-----------------------------------------------------------------------------
(* An operation *)

Becomes(f, stage, data, error) ==
  fetches' = (fetches \ {f}) \cup
    {[query |-> f.query, generation |-> f.generation, aborted |-> f.aborted,
      stage |-> stage, data |-> data, error |-> error]}

(* The list is read, and the response arrives. *)
Answer(f) ==
  /\ f.stage = "sent" /\ ~f.aborted
  /\ Becomes(f, "answered", version, None)
  /\ UNCHANGED <<worldVars, entries, listeners, asked, historyVars, moves>>

(* The request is aborted, or refused, or fails. *)
Fail(f) ==
  /\ f.stage = "sent"
  /\ Becomes(f, "failed", None, IF f.aborted THEN "aborted" ELSE "failed")
  /\ UNCHANGED <<worldVars, entries, listeners, asked, historyVars, moves>>

(* Bug: a fetch that fails drops what there was. *)
StoredDropping(f) ==
  [entries EXCEPT ![f.query] =
     [@ EXCEPT !.snapshot =
        [status |-> IF f.stage = "answered" THEN "success" ELSE "error",
         data |-> f.data, error |-> f.error, isFetching |-> FALSE]]]

(* The cache with the outcome of f.  An error keeps the data, and does not *)
(* mark it again.                                                          *)
Stored(f) ==
  [entries EXCEPT ![f.query] =
     [@ EXCEPT !.snapshot =
        [status |-> IF f.stage = "answered" THEN "success" ELSE "error",
         data |-> IF f.stage = "answered" THEN f.data ELSE entries[f.query].snapshot.data,
         error |-> f.error, isFetching |-> FALSE]]]

(* Bug: the outcome of a superseded operation is stored. *)
StoresWhenSuperseded(f) == f.error # "aborted"

(* Whether .then or .catch stores it. *)
Stores(f) == IsCurrent(f) /\ f.error # "aborted"

Settle(f) ==
  /\ f.stage \in {"answered", "failed"}
  /\ entries' = IF Stores(f) THEN Stored(f) ELSE entries
  /\ Becomes(f, "settled", f.data, f.error)
  /\ UNCHANGED <<worldVars, listeners, asked, historyVars, moves>>

(* Bug: an operation clears the promise of whichever one is running. *)
EndsAny(f) == TRUE

Ends(f) == IsCurrent(f)

(* .finally: the last callback of the chain, two microtasks later at most; *)
(* a view that mounts on the new snapshot can come between.                *)
Finally(f) ==
  /\ f.stage = "settled"
  /\ entries' = IF Ends(f) THEN [entries EXCEPT ![f.query] = [@ EXCEPT !.promise = FALSE]]
                ELSE entries
  /\ fetches' = fetches \ {f}
  /\ UNCHANGED <<worldVars, listeners, asked, historyVars, moves>>

Proceed(f) == Answer(f) \/ Fail(f) \/ Settle(f) \/ Finally(f)

-----------------------------------------------------------------------------

Next ==
  \/ \E v \in Views, q \in Queries : Subscribe(v, q) \/ Unsubscribe(v, q)
  \/ \E q \in Queries : Refetch(q)
  \/ InvalidateTags \/ SignIn \/ Clear \/ Write
  \/ \E f \in fetches : Proceed(f)

Spec == Init /\ [][Next]_vars

(* Requests are answered or fail, callbacks run, and App's effect runs.    *)
Fairness ==
  /\ \A q \in Queries : WF_vars(\E f \in fetches : f.query = q /\ IsCurrent(f) /\ Proceed(f))
  /\ WF_vars(Clear)

FairSpec == Spec /\ Fairness

-----------------------------------------------------------------------------
(* Safety *)

(* Until the cache is cleared a view never goes back to older data,        *)
(* whatever order the answers of overlapping requests come in: only the    *)
(* operation an entry waits for stores its answer.                         *)
DataNeverGoesBack ==
  [][\A q \in Queries :
       LET old == entries[q].snapshot.data
           new == entries'[q].snapshot.data
       IN  old # None => IF new = None THEN clearDue ELSE new >= old]_vars

(* An entry that is not stale and shows an answer shows one at least as    *)
(* new as the last invalidation, however fetches and invalidations race.   *)
(* Of an entry whose last fetch failed it says nothing: that one keeps     *)
(* what it had and is not marked either.                                   *)
FreshIsCurrent ==
  \A q \in Queries :
    LET e == entries[q]
    IN  ~e.stale /\ e.snapshot.status = "success" /\ ~e.snapshot.isFetching =>
          e.snapshot.data # None /\ e.snapshot.data >= needed[q]

(* An entry has at most one request that is neither answered nor aborted.  *)
OneRequestPerEntry ==
  \A f, g \in fetches :
    f.query = g.query /\ ~f.aborted /\ ~g.aborted => f = g

(* What the views and the invalidations know of an entry. *)
Cache(q) ==
  INSTANCE CachedQuery WITH
    data <- entries[q].snapshot.data,
    stale <- entries[q].stale,
    failed <- entries[q].snapshot.status = "error",
    fetch <- IF entries[q].snapshot.isFetching THEN "running"
             ELSE IF entries[q].promise THEN "ending" ELSE "none",
    asked <- asked[q],
    watched <- Watched(q)

(* Every entry is a CachedQuery: generations, aborts and promises that are *)
(* joined or superseded never show its users anything but what was read    *)
(* since their operation started, or that it failed.                       *)
ImplementsCachedQuery ==
  /\ \A q \in Queries : Cache(q)!Init
  /\ [][\A q \in Queries : Cache(q)!Next \/ UNCHANGED Cache(q)!vars]_vars

-----------------------------------------------------------------------------
(* The inductive invariant: what the safety properties rest on. *)

(* An entry numbers its operations, and has aborted all but the last.      *)
SupersededIsAborted ==
  \A f \in fetches :
    /\ f.generation <= entries[f.query].generation
    /\ f.aborted <=> ~IsCurrent(f)
    /\ \A g \in fetches :
         f.query = g.query /\ f.generation = g.generation => f = g

(* A promise is never left behind by an operation that ended: the next     *)
(* fetch would join it for ever.                                           *)
PromiseIsRunning ==
  \A q \in Queries :
    /\ entries[q].promise => \E f \in fetches : f.query = q /\ IsCurrent(f)
    /\ entries[q].snapshot.isFetching =>
         \E f \in fetches : f.query = q /\ IsCurrent(f) /\ f.stage # "settled"
    /\ \A f \in fetches :
         f.query = q /\ IsCurrent(f) =>
           /\ entries[q].promise
           /\ f.stage # "settled" => entries[q].snapshot.isFetching

(* What an operation carries. *)
OutcomesFit ==
  \A f \in fetches :
    /\ f.stage = "answered" => f.data # None
    /\ f.data # None => f.data <= version
    /\ f.error = "aborted" => f.aborted

(* Answers still to be stored are at least as new as their request, as     *)
(* what is shown, and as the last invalidation if the entry is not marked. *)
AnswersAreNewer ==
  /\ \A q \in Queries :
       /\ needed[q] <= version /\ asked[q] <= version
       /\ entries[q].snapshot.data # None => entries[q].snapshot.data <= version
  /\ \A f \in fetches :
       IsCurrent(f) /\ f.stage = "answered" =>
         LET e == entries[f.query] IN
           /\ f.data >= asked[f.query]
           /\ e.snapshot.data # None => f.data >= e.snapshot.data
           /\ ~e.stale => f.data >= needed[f.query]

(* An entry nobody has asked for is marked. *)
IdleIsMarked ==
  \A q \in Queries :
    LET e == entries[q]
    IN  e.snapshot.status = "idle" => e.stale /\ e.snapshot.data = None

InductiveInvariant ==
  /\ TypeOK
  /\ SupersededIsAborted
  /\ PromiseIsRunning
  /\ OutcomesFit
  /\ AnswersAreNewer
  /\ FreshIsCurrent
  /\ IdleIsMarked

-----------------------------------------------------------------------------
(* Liveness *)

(* A view of q is as new as version n, or says that its fetch failed.      *)
ShowsOrFailed(q, n) ==
  \/ entries[q].snapshot.data # None /\ entries[q].snapshot.data >= n
  \/ entries[q].snapshot.status = "error"

(* What is watched when it is invalidated catches up with the collection,  *)
(* unless the invalidation joined a fetch that was already running.        *)
WatchedViewsCatchUp ==
  \A q \in Queries, n \in 1..MaxVersion :
    needed[q] = n /\ Watched(q) /\ ~joined[q]
      ~> ShowsOrFailed(q, n) \/ ~Watched(q) \/ joined[q]

=============================================================================
