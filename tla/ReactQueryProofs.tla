--------------------------- MODULE ReactQueryProofs ---------------------------
(***************************************************************************)
(* Proofs about the two hooks of core/frontend/query/react-query.tsx.      *)
(*                                                                         *)
(* QueryClient (useQuery): the inductive invariant, that a view never goes *)
(* back to older data, that an entry that is not stale and not failed is   *)
(* as new as its last invalidation, that an entry has one request at most, *)
(* and that each is a CachedQuery.  Entries do not touch each other.  The  *)
(* invariant is restated for one entry and its operations, and the changes *)
(* an entry can go through are shown to keep it; an action then changes    *)
(* each entry in one such way.                                             *)
(*                                                                         *)
(* CommandMutation (useCommandMutation): the inductive invariant, and that *)
(* a repeated command has no effect its user does not learn of.            *)
(***************************************************************************)
EXTENDS QueryClient, CommandMutation, FiniteSetTheorems, TLAPS

-----------------------------------------------------------------------------
(* One entry e and its operations F, with the collection at version v, the *)
(* last invalidation at n and the start of the last operation at k.        *)

Numbered(e, F) ==
  /\ \A f \in F :
       /\ f.generation <= e.generation
       /\ f.aborted <=> e.generation # f.generation
  /\ \A f, g \in F : f.generation = g.generation => f = g

Running(e, F) ==
  /\ e.promise => \E f \in F : e.generation = f.generation
  /\ e.snapshot.isFetching =>
       \E f \in F : e.generation = f.generation /\ f.stage # "settled"
  /\ \A f \in F :
       e.generation = f.generation =>
         /\ e.promise
         /\ f.stage # "settled" => e.snapshot.isFetching

Fits(F, v) ==
  \A f \in F :
    /\ f.stage = "answered" => f.data # None
    /\ f.data # None => f.data <= v
    /\ f.error = "aborted" => f.aborted

Newer(e, F, v, n, k) ==
  /\ n <= v /\ k <= v
  /\ e.snapshot.data # None => e.snapshot.data <= v
  /\ \A f \in F :
       e.generation = f.generation /\ f.stage = "answered" =>
         /\ f.data >= k
         /\ e.snapshot.data # None => f.data >= e.snapshot.data
         /\ ~e.stale => f.data >= n

Current(e, n) ==
  ~e.stale /\ e.snapshot.status = "success" /\ ~e.snapshot.isFetching =>
    e.snapshot.data # None /\ e.snapshot.data >= n

Idle(e) == e.snapshot.status = "idle" => e.stale /\ e.snapshot.data = None

EntryInvariant(e, F, v, n, k) ==
  /\ Numbered(e, F)
  /\ Running(e, F)
  /\ Fits(F, v)
  /\ Newer(e, F, v, n, k)
  /\ Current(e, n)
  /\ Idle(e)

Ops(q) == {f \in fetches : f.query = q}

EntryHolds(q) ==
  EntryInvariant(entries[q], Ops(q), version, needed[q], asked[q])

(* The invariant is that of every entry. *)
LEMMA EntryByEntry ==
  ASSUME TypeOK
  PROVE  InductiveInvariant <=> \A q \in Queries : EntryHolds(q)
<1>1. \A q \in Queries : Ops(q) = {f \in fetches : f.query = q} BY DEF Ops
<1>2. \A f \in fetches : f.query \in Queries /\ f \in Ops(f.query)
  BY DEF TypeOK, Fetch, Ops
<1>3. \A q \in Queries : \A f \in Ops(q) : f \in fetches /\ f.query = q BY DEF Ops
<1>4. SupersededIsAborted <=> \A q \in Queries : Numbered(entries[q], Ops(q))
  BY <1>2, <1>3 DEF SupersededIsAborted, Numbered, IsCurrent
<1>5. PromiseIsRunning <=> \A q \in Queries : Running(entries[q], Ops(q))
  BY <1>2, <1>3 DEF PromiseIsRunning, Running, IsCurrent
<1>6. OutcomesFit <=>
        \A q \in Queries : Fits(Ops(q), version)
  BY <1>2, <1>3 DEF OutcomesFit, Fits, IsCurrent
<1>7. AnswersAreNewer <=>
        \A q \in Queries : Newer(entries[q], Ops(q), version, needed[q], asked[q])
  BY <1>2, <1>3 DEF AnswersAreNewer, Newer, IsCurrent
<1>8. FreshIsCurrent <=> \A q \in Queries : Current(entries[q], needed[q])
  BY DEF FreshIsCurrent, Current
<1>9. IdleIsMarked <=>
        \A q \in Queries : Idle(entries[q])
  BY DEF IdleIsMarked, Idle
<1> QED
  BY <1>4, <1>5, <1>6, <1>7, <1>8, <1>9
  DEF InductiveInvariant, EntryHolds, EntryInvariant

-----------------------------------------------------------------------------
(* What an entry can go through *)

(* A new operation starts where every other one is aborted. *)
LEMMA StartKeeps ==
  ASSUME NEW q \in Queries, NEW e \in Entry, NEW F \in SUBSET Fetch,
         NEW v \in Version, NEW n \in Version, n <= v,
         \A f \in F : f.generation <= e.generation /\ f.aborted,
         \A f, g \in F : f.generation = g.generation => f = g,
         \A f \in F : /\ f.stage = "answered" => f.data # None
                      /\ f.data # None => f.data <= v,
         e.snapshot.data # None => e.snapshot.data <= v,
         Idle(e)
  PROVE  /\ Started(e) \in Entry
         /\ NewFetch(q, e) \in Fetch
         /\ EntryInvariant(Started(e), F \cup {NewFetch(q, e)}, v, n, v)
<1> DEFINE s == Started(e)
           x == NewFetch(q, e)
           G == F \cup {x}
<1>1. /\ e.generation \in Nat
      /\ e.snapshot.status \in {"idle", "pending", "success", "error"}
      /\ e.snapshot.data \in Version \cup {None}
  BY DEF Entry, Snapshot
<1>2. /\ s.generation = e.generation + 1 /\ s.promise /\ ~s.stale
      /\ s.snapshot.isFetching /\ s.snapshot.data = e.snapshot.data
      /\ s.snapshot.status = "idle" => e.snapshot.status = "idle" /\ e.snapshot.data # None
  BY DEF Started
<1>3. /\ x.query = q /\ x.generation = e.generation + 1 /\ ~x.aborted
      /\ x.stage = "sent" /\ x.data = None /\ x.error = None
  BY DEF NewFetch
<1>4. s \in Entry BY <1>1 DEF Started, Entry, Snapshot
<1>5. x \in Fetch BY <1>1 DEF NewFetch, Fetch
<1>6. \A f \in F : f.generation \in Nat /\ f.generation # s.generation
  BY <1>1, <1>2 DEF Fetch
<1> HIDE DEF s, x
<1>7. Numbered(s, G) BY <1>1, <1>2, <1>3, <1>6 DEF Numbered
<1>8. Running(s, G) BY <1>2, <1>3, <1>6 DEF Running
<1>9. Fits(G, v) BY <1>2, <1>3, <1>6, NoneAssumption DEF Fits
<1>10. Newer(s, G, v, n, v) BY <1>2, <1>3, <1>6, ConstantsAssumption DEF Newer, Version
<1>11. Current(s, n) /\ Idle(s)
  BY <1>2 DEF Current, Idle
<1> QED BY <1>4, <1>5, <1>7, <1>8, <1>9, <1>10, <1>11 DEF EntryInvariant, s, x

(* An entry and its operations do not change while the collection may.     *)
LEMMA NothingKeeps ==
  ASSUME NEW e \in Entry, NEW F \in SUBSET Fetch,
         NEW v \in Version, NEW w \in Version, NEW n \in Version,
         NEW k \in Version,
         v <= w, EntryInvariant(e, F, v, n, k)
  PROVE  EntryInvariant(e, F, w, n, k)
<1>1. e.snapshot.data \in Version \cup {None} BY DEF Entry, Snapshot
<1>2. \A f \in F : f.data \in Version \cup {None} BY DEF Fetch
<1>3. Fits(F, w)
  BY <1>2, ConstantsAssumption DEF EntryInvariant, Fits, Version
<1>4. Newer(e, F, w, n, k)
  BY <1>1, <1>2, ConstantsAssumption DEF EntryInvariant, Newer, Version
<1> QED BY <1>3, <1>4 DEF EntryInvariant

(* Marking an entry makes every answer acceptable. *)
LEMMA StaleKeeps ==
  ASSUME NEW e \in Entry, NEW F \in SUBSET Fetch,
         NEW v \in Version, NEW n \in Version,
         NEW k \in Version,
         EntryInvariant(e, F, v, n, k)
  PROVE  Stale(e) \in Entry /\ EntryInvariant(Stale(e), F, v, v, k)
<1> DEFINE s == Stale(e)
<1>1. s \in Entry BY DEF Stale, Entry
<1>2. /\ s.stale /\ s.generation = e.generation /\ s.promise = e.promise
      /\ s.snapshot = e.snapshot
  BY DEF Stale, Entry
<1> HIDE DEF s
<1>3. Numbered(s, F) /\ Running(s, F)
  BY <1>2 DEF EntryInvariant, Numbered, Running
<1>4. Fits(F, v) /\ Idle(s)
  BY <1>2 DEF EntryInvariant, Fits, Idle
<1>5. Newer(s, F, v, v, k) /\ Current(s, v)
  BY <1>2, ConstantsAssumption DEF EntryInvariant, Newer, Current, Version
<1> QED BY <1>1, <1>3, <1>4, <1>5 DEF EntryInvariant, s

(* The operations of an entry once the current one is aborted. *)
LEMMA AbortKeeps ==
  ASSUME TypeOK, NEW Q \in SUBSET Queries, NEW q \in Q, EntryHolds(q),
         NEW F, F = {f \in AfterAbort(Q) : f.query = q}
  PROVE  /\ F \in SUBSET Fetch
         /\ \A f \in F : f.generation <= entries[q].generation /\ f.aborted
         /\ \A f, g \in F : f.generation = g.generation => f = g
         /\ \A f \in F : /\ f.stage = "answered" => f.data # None
                         /\ f.data # None => f.data <= version
<1> DEFINE Abort(f) == [f EXCEPT !.aborted = TRUE]
<1>1. \A f \in fetches : f \in Fetch BY DEF TypeOK
<1>2. \A f \in Fetch :
        /\ Abort(f) \in Fetch /\ Abort(f).query = f.query
        /\ Abort(f).generation = f.generation /\ Abort(f).aborted
        /\ Abort(f).stage = f.stage /\ Abort(f).data = f.data
        /\ Abort(f).error = f.error
  BY DEF Fetch
<1>3. \A g \in F : \E f \in Ops(q) :
        \/ IsCurrent(f) /\ g = Abort(f)
        \/ ~IsCurrent(f) /\ g = f
  BY ZenonT(40), <1>1, <1>2 DEF AfterAbort, Ops
<1> HIDE DEF Abort
<1>4. /\ Numbered(entries[q], Ops(q))
      /\ \A f \in Ops(q) : /\ f.stage = "answered" => f.data # None
                           /\ f.data # None => f.data <= version
  BY DEF EntryHolds, EntryInvariant, Fits
<1>5. \A f \in Ops(q) : f \in Fetch /\ f.query = q BY <1>1 DEF Ops
<1>6. \A g \in F : \E f \in Ops(q) :
        /\ g \in Fetch /\ g.generation = f.generation /\ g.aborted
        /\ g.stage = f.stage /\ g.data = f.data
        /\ g.error = f.error
  BY <1>2, <1>3, <1>4, <1>5 DEF Numbered, IsCurrent
<1>7. \A f, g \in F : f.generation = g.generation => f = g
  BY <1>2, <1>3, <1>4, <1>5 DEF Numbered, IsCurrent
<1> QED BY <1>4, <1>6, <1>7 DEF Numbered

(* A cleared entry waits for none of its operations. *)
LEMMA ClearKeeps ==
  ASSUME NEW e \in Entry, NEW F \in SUBSET Fetch,
         NEW v \in Version, NEW n \in Version, n <= v,
         NEW k \in Version, k <= v,
         \A f \in F : f.generation <= e.generation /\ f.aborted,
         \A f, g \in F : f.generation = g.generation => f = g,
         \A f \in F : /\ f.stage = "answered" => f.data # None
                      /\ f.data # None => f.data <= v
  PROVE  Cleared(e) \in Entry /\ EntryInvariant(Cleared(e), F, v, n, k)
<1> DEFINE s == Cleared(e)
<1>1. e.generation \in Nat BY DEF Entry
<1>2. /\ s.stale /\ s.generation = e.generation + 1 /\ ~s.promise
      /\ ~s.snapshot.isFetching /\ s.snapshot.data = None /\ s.snapshot.error = None
  BY DEF Cleared, idleSnapshot
<1>3. s \in Entry BY <1>1 DEF Cleared, idleSnapshot, Entry, Snapshot
<1>4. \A f \in F : f.generation \in Nat /\ f.generation # s.generation
  BY <1>1, <1>2 DEF Fetch
<1> HIDE DEF s
<1>5. Numbered(s, F) BY <1>1, <1>2, <1>4 DEF Numbered
<1>6. Running(s, F) BY <1>2, <1>4 DEF Running
<1>7. Fits(F, v) /\ Idle(s)
  BY <1>2, <1>4, NoneAssumption DEF Fits, Idle
<1>8. Newer(s, F, v, n, k) /\ Current(s, n)
  BY <1>2, <1>4 DEF Newer, Current
<1> QED BY <1>3, <1>5, <1>6, <1>7, <1>8 DEF EntryInvariant, s

(* An operation f of F becomes x: it gets an outcome, fresh from the       *)
(* server, or settles with the one it has.                                 *)
LEMMA OutcomeKeeps ==
  ASSUME NEW e \in Entry, NEW F \in SUBSET Fetch, NEW f \in F, NEW x \in Fetch,
         NEW v \in Version, NEW n \in Version,
         NEW k \in Version,
         EntryInvariant(e, F, v, n, k),
         x.generation = f.generation, x.aborted = f.aborted,
         f.stage = "sent", x.stage \in {"answered", "failed"},
         x.stage = "answered" => x.data = v,
         x.stage # "answered" => x.data = None,
         x.error = "aborted" => f.aborted
  PROVE  EntryInvariant(e, (F \ {f}) \cup {x}, v, n, k)
<1> DEFINE G == (F \ {f}) \cup {x}
<1>1. /\ Numbered(e, F) /\ Running(e, F) /\ Fits(F, v)
      /\ Newer(e, F, v, n, k) /\ Current(e, n) /\ Idle(e)
  BY DEF EntryInvariant
<1>2. v # None /\ v \in Nat BY NoneAssumption, ConstantsAssumption DEF Version
<1>3. Numbered(e, G) BY <1>1 DEF Numbered
<1>4. Running(e, G) BY <1>1 DEF Running
<1>5. Fits(G, v) BY <1>1, <1>2 DEF Fits
<1>6. Newer(e, G, v, n, k) BY <1>1, <1>2 DEF Newer
<1> QED BY <1>1, <1>3, <1>4, <1>5, <1>6 DEF EntryInvariant

(* The outcome of the operation an entry waits for is stored; that of any  *)
(* other is not.                                                           *)
LEMMA SettleKeeps ==
  ASSUME NEW e \in Entry, NEW d \in Entry, NEW F \in SUBSET Fetch,
         NEW f \in F, NEW x \in Fetch,
         NEW v \in Version, NEW n \in Version,
         NEW k \in Version,
         EntryInvariant(e, F, v, n, k),
         x.generation = f.generation, x.aborted = f.aborted,
         x.data = f.data, x.error = f.error, x.stage = "settled",
         f.stage \in {"answered", "failed"},
         d.generation = e.generation, d.stale = e.stale, d.promise = e.promise,
         e.generation # f.generation => d = e,
         e.generation = f.generation =>
           /\ d.snapshot.status = IF f.stage = "answered" THEN "success" ELSE "error"
           /\ d.snapshot.data = IF f.stage = "answered" THEN f.data ELSE e.snapshot.data
           /\ d.snapshot.error = f.error
           /\ ~d.snapshot.isFetching
  PROVE  EntryInvariant(d, (F \ {f}) \cup {x}, v, n, k)
<1> DEFINE G == (F \ {f}) \cup {x}
<1>1. /\ Numbered(e, F) /\ Running(e, F) /\ Fits(F, v)
      /\ Newer(e, F, v, n, k) /\ Current(e, n) /\ Idle(e)
  BY DEF EntryInvariant
<1>2. Numbered(d, G) BY <1>1 DEF Numbered
<1>3. Running(d, G) BY <1>1 DEF Running, Numbered
<1>4. Fits(G, v) BY <1>1 DEF Fits
<1>5. Newer(d, G, v, n, k) BY <1>1 DEF Newer, Fits, Numbered
<1>6. Current(d, n) BY <1>1 DEF Current, Newer, Fits
<1>7. Idle(d) BY <1>1 DEF Idle, Fits
<1> QED BY <1>2, <1>3, <1>4, <1>5, <1>6, <1>7 DEF EntryInvariant

(* A settled operation leaves, with its own promise.                       *)
LEMMA EndKeeps ==
  ASSUME NEW e \in Entry, NEW d \in Entry, NEW F \in SUBSET Fetch, NEW f \in F,
         NEW v \in Version, NEW n \in Version,
         NEW k \in Version,
         EntryInvariant(e, F, v, n, k),
         f.stage = "settled",
         d.generation = e.generation, d.stale = e.stale, d.snapshot = e.snapshot,
         d.promise <=> e.promise /\ e.generation # f.generation
  PROVE  EntryInvariant(d, F \ {f}, v, n, k)
<1> DEFINE G == F \ {f}
<1>1. /\ Numbered(e, F) /\ Running(e, F) /\ Fits(F, v)
      /\ Newer(e, F, v, n, k) /\ Current(e, n) /\ Idle(e)
  BY DEF EntryInvariant
<1>2. Numbered(d, G) BY <1>1 DEF Numbered
<1>3. Running(d, G) BY <1>1 DEF Running, Numbered
<1>4. Fits(G, v) BY <1>1 DEF Fits
<1>5. Newer(d, G, v, n, k) /\ Current(d, n) /\ Idle(d)
  BY <1>1 DEF Newer, Current, Idle
<1> QED BY <1>2, <1>3, <1>4, <1>5 DEF EntryInvariant

-----------------------------------------------------------------------------
(* The actions *)

EveryEntryHolds == TypeOK /\ \A q \in Queries : EntryHolds(q)

LEMMA ExecuteKeeps ==
  ASSUME NEW Q \in SUBSET Queries, NEW cache \in [Queries -> Entry],
         NEW running \in SUBSET Fetch, ExecuteAll(Q, cache, running),
         version \in Version, asked \in [Queries -> Version],
         NEW need \in [Queries -> Version],
         \A q \in Queries :
           EntryInvariant(cache[q], {f \in running : f.query = q}, version, need[q], asked[q])
  PROVE  /\ entries' \in [Queries -> Entry]
         /\ fetches' \in SUBSET Fetch
         /\ asked' \in [Queries -> Version]
         /\ \A q \in Queries :
              EntryInvariant(entries'[q], {f \in fetches' : f.query = q}, version, need[q],
                             asked'[q])
<1> DEFINE S == {q \in Q : ~cache[q].promise}
           R(q) == {f \in running : f.query = q}
<1>1. /\ S \subseteq Queries
      /\ \A q \in S : ~cache[q].promise
      /\ entries' = [q \in Queries |-> IF q \in S THEN Started(cache[q]) ELSE cache[q]]
      /\ fetches' = running \cup {NewFetch(q, cache[q]) : q \in S}
      /\ asked' = [q \in Queries |-> IF q \in S THEN version ELSE asked[q]]
  BY DEF ExecuteAll
<1> HIDE DEF S
<1>2. \A q \in Queries : R(q) \in SUBSET Fetch OBVIOUS
<1>3. ASSUME NEW q \in S
      PROVE  /\ Started(cache[q]) \in Entry
             /\ NewFetch(q, cache[q]) \in Fetch
             /\ EntryInvariant(Started(cache[q]), R(q) \cup {NewFetch(q, cache[q])}, version,
                               need[q], version)
  <2>1. /\ q \in Queries /\ cache[q] \in Entry /\ need[q] \in Version
        /\ R(q) \in SUBSET Fetch /\ ~cache[q].promise
    BY <1>1, <1>3
  <2>2. EntryInvariant(cache[q], R(q), version, need[q], asked[q]) BY <2>1
  <2> HIDE DEF R
  <2>3. /\ need[q] <= version
        /\ \A f \in R(q) : f.generation <= cache[q].generation /\ f.aborted
        /\ \A f, g \in R(q) : f.generation = g.generation => f = g
        /\ \A f \in R(q) : /\ f.stage = "answered" => f.data # None
                           /\ f.data # None => f.data <= version
        /\ cache[q].snapshot.data # None => cache[q].snapshot.data <= version
        /\ Idle(cache[q])
    BY <2>1, <2>2 DEF EntryInvariant, Numbered, Running, Fits, Newer
  <2> DEFINE e == cache[q]
             F == R(q)
             n == need[q]
  <2>4. /\ q \in Queries /\ e \in Entry /\ F \in SUBSET Fetch /\ n \in Version
        /\ n <= version
        /\ \A f \in F : f.generation <= e.generation /\ f.aborted
        /\ \A f, g \in F : f.generation = g.generation => f = g
        /\ \A f \in F : /\ f.stage = "answered" => f.data # None
                        /\ f.data # None => f.data <= version
        /\ e.snapshot.data # None => e.snapshot.data <= version
        /\ Idle(e)
    BY <2>1, <2>3
  <2> HIDE DEF e, F, n
  <2>5. /\ Started(e) \in Entry
        /\ NewFetch(q, e) \in Fetch
        /\ EntryInvariant(Started(e), F \cup {NewFetch(q, e)}, version, n, version)
    BY <2>4, StartKeeps, ZenonT(60)
  <2> QED BY <2>5 DEF e, F, n
<1>4. \A q \in Queries : NewFetch(q, cache[q]).query = q BY DEF NewFetch
<1>5. ASSUME NEW q \in Queries
      PROVE  {f \in fetches' : f.query = q} =
               IF q \in S THEN R(q) \cup {NewFetch(q, cache[q])} ELSE R(q)
  BY <1>1, <1>4
<1>6. /\ entries' \in [Queries -> Entry]
      /\ \A q \in Queries :
           entries'[q] = IF q \in S THEN Started(cache[q]) ELSE cache[q]
  BY <1>1, <1>3
<1>9. /\ asked' \in [Queries -> Version]
      /\ \A q \in Queries : asked'[q] = IF q \in S THEN version ELSE asked[q]
  BY <1>1
<1>7. fetches' \in SUBSET Fetch BY <1>1, <1>3
<1>8. ASSUME NEW q \in Queries
      PROVE  EntryInvariant(entries'[q], {f \in fetches' : f.query = q}, version, need[q],
                            asked'[q])
  <2>1. CASE q \in S BY <2>1, <1>3, <1>5, <1>6, <1>9
  <2>2. CASE q \notin S BY <2>2, <1>5, <1>6, <1>9
  <2> QED BY <2>1, <2>2
<1> QED BY <1>6, <1>7, <1>8, <1>9

LEMMA InitHolds == Init => EveryEntryHolds
<1> SUFFICES ASSUME Init PROVE EveryEntryHolds OBVIOUS
<1>1. \A q \in Queries :
        /\ entries[q] = [snapshot |-> idleSnapshot, stale |-> TRUE,
                         generation |-> 0, promise |-> FALSE]
        /\ needed[q] = 0 /\ asked[q] = 0 /\ Ops(q) = {}
  BY DEF Init, Ops
<1>2. idleSnapshot \in Snapshot BY DEF idleSnapshot, Snapshot
<1>3. TypeOK
  <2>1. [snapshot |-> idleSnapshot, stale |-> TRUE, generation |-> 0, promise |-> FALSE]
          \in Entry
    BY <1>2 DEF Entry
  <2>2. entries \in [Queries -> Entry] BY <2>1 DEF Init
  <2>3. 0 \in Version BY ConstantsAssumption DEF Version
  <2> QED BY <2>2, <2>3 DEF Init, TypeOK
<1>4. ASSUME NEW q \in Queries PROVE EntryHolds(q)
  <2>1. /\ ~entries[q].promise /\ entries[q].stale
        /\ entries[q].snapshot.data = None /\ entries[q].snapshot.error = None
        /\ ~entries[q].snapshot.isFetching
    BY <1>1, <1>4 DEF idleSnapshot
  <2>2. Ops(q) = {} /\ needed[q] = 0 /\ asked[q] = 0 /\ version = 0 BY <1>1, <1>4 DEF Init
  <2> QED
    BY <2>1, <2>2, NoneAssumption
    DEF EntryHolds, EntryInvariant, Numbered, Running, Fits, Newer, Current, Idle
<1> QED BY <1>3, <1>4 DEF EveryEntryHolds

(* An action that changes f only: its entry becomes d, its operation x, or *)
(* goes when x is None.                                                    *)
LEMMA OthersKeep ==
  ASSUME EveryEntryHolds, NEW f \in fetches, NEW X \in SUBSET Fetch,
         \A x \in X : x.query = f.query,
         fetches' = (fetches \ {f}) \cup X,
         entries' \in [Queries -> Entry],
         \A q \in Queries \ {f.query} : entries'[q] = entries[q],
         UNCHANGED <<worldVars, listeners, asked, historyVars, moves>>,
         EntryInvariant(entries'[f.query], (Ops(f.query) \ {f}) \cup X, version,
                        needed[f.query], asked[f.query])
  PROVE  EveryEntryHolds'
<1>1. f.query \in Queries BY DEF EveryEntryHolds, TypeOK, Fetch
<1>2. Ops(f.query)' = (Ops(f.query) \ {f}) \cup X BY DEF Ops
<1>3. \A q \in Queries \ {f.query} : Ops(q)' = Ops(q) BY DEF Ops
<1>4. TypeOK' BY DEF EveryEntryHolds, TypeOK, worldVars, historyVars
<1>5. EntryHolds(f.query)' BY <1>2 DEF EntryHolds, worldVars, historyVars
<1>6. ASSUME NEW q \in Queries \ {f.query} PROVE EntryHolds(q)'
  <2>1. EntryHolds(q) BY DEF EveryEntryHolds
  <2> QED BY <2>1, <1>3, <1>6 DEF EntryHolds, worldVars, historyVars
<1> QED BY <1>4, <1>5, <1>6 DEF EveryEntryHolds

LEMMA ProceedKeeps ==
  ASSUME EveryEntryHolds, NEW f \in fetches, Proceed(f)
  PROVE  EveryEntryHolds'
<1> DEFINE q == f.query
           Outcome(stage, data, error) ==
             [query |-> f.query, generation |-> f.generation,
              aborted |-> f.aborted, stage |-> stage, data |-> data, error |-> error]
<1>1. /\ f \in Fetch /\ q \in Queries /\ f \in Ops(q)
      /\ Ops(q) \in SUBSET Fetch
      /\ entries \in [Queries -> Entry] /\ entries[q] \in Entry
      /\ needed[q] \in Version /\ asked[q] \in Version /\ version \in Version
      /\ asked \in [Queries -> Version]
  BY DEF EveryEntryHolds, TypeOK, Fetch, Ops
<1>2. EntryInvariant(entries[q], Ops(q), version, needed[q], asked[q])
  BY <1>1 DEF EveryEntryHolds, EntryHolds
<1>3. \A stage \in {"sent", "answered", "failed", "settled"},
         data \in Version \cup {None}, error \in Cause \cup {None} :
        LET x == Outcome(stage, data, error) IN
          /\ x \in Fetch /\ x.query = f.query /\ x.generation = f.generation
          /\ x.aborted = f.aborted
          /\ x.stage = stage /\ x.data = data /\ x.error = error
  BY <1>1 DEF Fetch
<1>4. \A stage, data, error :
        Becomes(f, stage, data, error) =>
          fetches' = (fetches \ {f}) \cup {Outcome(stage, data, error)}
  BY DEF Becomes
<1> HIDE DEF Outcome
<1>5. CASE Answer(f)
  <2> DEFINE x == Outcome("answered", version, None)
  <2>1. /\ x \in Fetch /\ x.query = f.query /\ x.generation = f.generation
        /\ x.aborted = f.aborted
        /\ x.stage = "answered" /\ x.data = version /\ x.error = None
    BY <1>1, <1>3
  <2>2. /\ f.stage = "sent" /\ fetches' = (fetches \ {f}) \cup {x}
        /\ UNCHANGED <<worldVars, entries, listeners, asked, historyVars, moves>>
    BY <1>4, <1>5 DEF Answer
  <2> HIDE DEF x
  <2>3. EntryInvariant(entries[q], (Ops(q) \ {f}) \cup {x}, version, needed[q], asked[q])
    BY <1>1, <1>2, <2>1, <2>2, NoneAssumption, OutcomeKeeps
  <2>4. /\ {x} \in SUBSET Fetch /\ \A y \in {x} : y.query = f.query
        /\ entries' \in [Queries -> Entry]
        /\ \A p \in Queries \ {f.query} : entries'[p] = entries[p]
        /\ UNCHANGED <<worldVars, listeners, asked, historyVars, moves>>
        /\ entries'[f.query] = entries[f.query]
    BY <1>1, <2>1, <2>2
  <2> QED BY <2>2, <2>3, <2>4, OthersKeep
<1>6. CASE Fail(f)
  <2>1. PICK error \in Cause :
          /\ error = "aborted" => f.aborted
          /\ Becomes(f, "failed", None, error)
    <3>1. CASE f.aborted BY <3>1, <1>6 DEF Fail, Cause
    <3>2. CASE ~f.aborted BY <3>2, <1>6 DEF Fail, Cause
    <3> QED BY <3>1, <3>2
  <2> DEFINE x == Outcome("failed", None, error)
  <2>2. /\ x \in Fetch /\ x.query = f.query /\ x.generation = f.generation
        /\ x.aborted = f.aborted
        /\ x.stage = "failed" /\ x.data = None /\ x.error = error
    <3>1. None \in Version \cup {None} /\ error \in Cause \cup {None} OBVIOUS
    <3> QED BY <1>3, <3>1
  <2>3. /\ f.stage = "sent" /\ fetches' = (fetches \ {f}) \cup {x}
        /\ UNCHANGED <<worldVars, entries, listeners, asked, historyVars, moves>>
    BY <1>4, <1>6, <2>1 DEF Fail
  <2> HIDE DEF x
  <2>4. EntryInvariant(entries[q], (Ops(q) \ {f}) \cup {x}, version, needed[q], asked[q])
    BY <1>1, <1>2, <2>1, <2>2, <2>3, OutcomeKeeps
  <2>5. /\ {x} \in SUBSET Fetch /\ \A y \in {x} : y.query = f.query
        /\ entries' \in [Queries -> Entry]
        /\ \A p \in Queries \ {f.query} : entries'[p] = entries[p]
        /\ UNCHANGED <<worldVars, listeners, asked, historyVars, moves>>
        /\ entries'[f.query] = entries[f.query]
    BY <1>1, <2>2, <2>3
  <2> QED BY <2>3, <2>4, <2>5, OthersKeep
<1>7. CASE Settle(f)
  <2> DEFINE x == Outcome("settled", f.data, f.error)
             d == entries'[q]
  <2>1. /\ x \in Fetch /\ x.query = f.query /\ x.generation = f.generation
        /\ x.aborted = f.aborted
        /\ x.stage = "settled" /\ x.data = f.data /\ x.error = f.error
    BY <1>1, <1>3 DEF Fetch
  <2>2. /\ f.stage \in {"answered", "failed"} /\ fetches' = (fetches \ {f}) \cup {x}
        /\ UNCHANGED <<worldVars, listeners, asked, historyVars, moves>>
    BY <1>4, <1>7 DEF Settle
  <2> HIDE DEF x
  <2>3. Stores(f) <=> entries[q].generation = f.generation
    BY <1>1, <1>2 DEF Stores, IsCurrent, EntryInvariant, Numbered, Fits
  <2>4. CASE Stores(f)
    <3> DEFINE s == [status |-> IF f.stage = "answered" THEN "success" ELSE "error",
                     data |-> IF f.stage = "answered" THEN f.data
                              ELSE entries[q].snapshot.data,
                     error |-> f.error, isFetching |-> FALSE]
    <3>1. entries[q].snapshot.data \in Version \cup {None} BY <1>1 DEF Entry, Snapshot
    <3>2. s \in Snapshot BY <1>1, <3>1 DEF Fetch, Snapshot
    <3>3. entries' = [entries EXCEPT ![q] = [@ EXCEPT !.snapshot = s]]
      BY <2>4, <1>7 DEF Settle, Stored
    <3>4. /\ s.status = IF f.stage = "answered" THEN "success" ELSE "error"
          /\ s.data = IF f.stage = "answered" THEN f.data ELSE entries[q].snapshot.data
          /\ s.error = f.error /\ ~s.isFetching
      OBVIOUS
    <3> HIDE DEF s
    <3>5. d = [entries[q] EXCEPT !.snapshot = s] BY <1>1, <3>3
    <3>6. /\ d \in Entry /\ d.generation = entries[q].generation
          /\ d.stale = entries[q].stale /\ d.promise = entries[q].promise
          /\ d.snapshot = s
      BY <1>1, <3>2, <3>5 DEF Entry
    <3>7. entries' \in [Queries -> Entry] BY <1>1, <3>3, <3>5, <3>6
    <3>8. \A p \in Queries \ {q} : entries'[p] = entries[p] BY <1>1, <3>3
    <3> HIDE DEF d
    <3>9. EntryInvariant(d, (Ops(q) \ {f}) \cup {x}, version, needed[q], asked[q])
      BY <1>1, <1>2, <2>1, <2>2, <2>3, <2>4, <3>4, <3>6, SettleKeeps
    <3>10. {x} \in SUBSET Fetch /\ \A y \in {x} : y.query = f.query BY <2>1
    <3> QED BY <2>2, <3>7, <3>8, <3>9, <3>10, OthersKeep DEF d
  <2>5. CASE ~Stores(f)
    <3>1. entries' = entries BY <2>5, <1>7 DEF Settle
    <3>2. EntryInvariant(entries[q], (Ops(q) \ {f}) \cup {x}, version, needed[q], asked[q])
      BY <1>1, <1>2, <2>1, <2>2, <2>3, <2>5, SettleKeeps
    <3>3. {x} \in SUBSET Fetch /\ \A y \in {x} : y.query = f.query BY <2>1
    <3>4. /\ entries' \in [Queries -> Entry]
          /\ \A p \in Queries \ {f.query} : entries'[p] = entries[p]
      BY <1>1, <3>1
    <3> QED BY <2>2, <3>1, <3>2, <3>3, <3>4, OthersKeep
  <2> QED BY <2>4, <2>5
<1>8. CASE Finally(f)
  <2> DEFINE d == entries'[q]
  <2>1. /\ f.stage = "settled" /\ fetches' = (fetches \ {f}) \cup {}
        /\ UNCHANGED <<worldVars, listeners, asked, historyVars, moves>>
    BY <1>8 DEF Finally
  <2>2. /\ entries' \in [Queries -> Entry]
        /\ \A p \in Queries \ {q} : entries'[p] = entries[p]
        /\ d.generation = entries[q].generation /\ d.stale = entries[q].stale
        /\ d.snapshot = entries[q].snapshot
        /\ entries[q].generation = f.generation => ~d.promise
        /\ entries[q].generation # f.generation => d.promise = entries[q].promise
    <3>1. CASE Ends(f)
      <4>1. entries' = [entries EXCEPT ![q] = [@ EXCEPT !.promise = FALSE]]
        BY <3>1, <1>8 DEF Finally
      <4>2. [entries[q] EXCEPT !.promise = FALSE] \in Entry BY <1>1 DEF Entry
      <4> QED BY <1>1, <3>1, <4>1, <4>2 DEF Ends, IsCurrent, Entry
    <3>2. CASE ~Ends(f) BY <3>2, <1>1, <1>8 DEF Finally, Ends, IsCurrent
    <3> QED BY <3>1, <3>2
  <2>3. d \in Entry /\ (d.promise <=> entries[q].promise /\ entries[q].generation # f.generation)
    BY <1>1, <2>2
  <2> HIDE DEF d
  <2>4. EntryInvariant(d, Ops(q) \ {f}, version, needed[q], asked[q])
    BY <1>1, <1>2, <2>1, <2>2, <2>3, EndKeeps
  <2>5. Ops(q) \ {f} = (Ops(q) \ {f}) \cup {} OBVIOUS
  <2>6. EntryInvariant(entries'[f.query], (Ops(f.query) \ {f}) \cup {}, version,
                       needed[f.query], asked[f.query])
    BY <2>4, <2>5 DEF d
  <2>7. {} \in SUBSET Fetch /\ \A y \in {} : y.query = f.query OBVIOUS
  <2> QED BY <2>1, <2>2, <2>6, <2>7, OthersKeep
<1> QED BY <1>5, <1>6, <1>7, <1>8 DEF Proceed

LEMMA NextKeeps == EveryEntryHolds /\ [Next]_vars => EveryEntryHolds'
<1> SUFFICES ASSUME EveryEntryHolds, [Next]_vars PROVE EveryEntryHolds' OBVIOUS
<1>0. /\ entries \in [Queries -> Entry] /\ fetches \in SUBSET Fetch
      /\ needed \in [Queries -> Version] /\ version \in Version
      /\ asked \in [Queries -> Version]
  BY DEF EveryEntryHolds, TypeOK
<1>1. /\ TypeOK
      /\ \A q \in Queries : EntryHolds(q)
      /\ entries \in [Queries -> Entry] /\ fetches \in SUBSET Fetch
      /\ needed \in [Queries -> Version] /\ version \in Version
      /\ asked \in [Queries -> Version]
      /\ listeners \in [Queries -> SUBSET Views]
      /\ joined \in [Queries -> BOOLEAN] /\ moves \in Nat
      /\ \A q \in Queries : Ops(q) \in SUBSET Fetch
  BY DEF EveryEntryHolds, TypeOK, Ops
<1>2. \A q \in Queries :
        EntryInvariant(entries[q], {f \in fetches : f.query = q}, version, needed[q], asked[q])
  BY <1>1 DEF EntryHolds, Ops
<1>3. ASSUME Move PROVE moves' \in Nat BY <1>1, <1>3 DEF Move
<1>4. ASSUME NEW v \in Views, NEW q \in Queries, Subscribe(v, q)
      PROVE  EveryEntryHolds'
  <2> DEFINE Q == {p \in {q} : entries[p].stale \/ entries[p].snapshot.status = "idle"}
  <2>1. /\ ExecuteAll(Q, entries, fetches) /\ Move
        /\ listeners' = [listeners EXCEPT ![q] = @ \cup {v}]
        /\ UNCHANGED <<worldVars, historyVars>>
    BY <1>4 DEF Subscribe
  <2>2. Q \in SUBSET Queries OBVIOUS
  <2> HIDE DEF Q
  <2>3. /\ entries' \in [Queries -> Entry] /\ fetches' \in SUBSET Fetch
        /\ asked' \in [Queries -> Version]
        /\ \A p \in Queries :
             EntryInvariant(entries'[p], {f \in fetches' : f.query = p}, version, needed[p],
                            asked'[p])
    BY <1>0, <1>2, <2>1, <2>2, ExecuteKeeps, ZenonT(60)
  <2>4. TypeOK' BY <1>1, <1>3, <2>1, <2>3 DEF TypeOK, worldVars, historyVars
  <2>5. \A p \in Queries : EntryHolds(p)'
    BY <2>1, <2>3 DEF EntryHolds, Ops, worldVars, historyVars
  <2> QED BY <2>4, <2>5 DEF EveryEntryHolds
<1>5. ASSUME NEW v \in Views, NEW q \in Queries, Unsubscribe(v, q)
      PROVE  EveryEntryHolds'
  <2>1. TypeOK' BY <1>1, <1>3, <1>5 DEF Unsubscribe, TypeOK, worldVars, historyVars
  <2>2. \A p \in Queries : EntryHolds(p)'
    BY <1>2, <1>5 DEF Unsubscribe, EntryHolds, Ops, worldVars, historyVars
  <2> QED BY <2>1, <2>2 DEF EveryEntryHolds
<1>6. ASSUME NEW q \in Queries, Refetch(q)
      PROVE  EveryEntryHolds'
  <2> DEFINE Q == {q}
             e == entries[q]
             F == {f \in AfterAbort(Q) : f.query = q}
             n == needed[q]
             x == NewFetch(q, e)
  <2>1. /\ Move
        /\ entries' = [entries EXCEPT ![q] = Started(e)]
        /\ fetches' = AfterAbort({q}) \cup {x}
        /\ asked' = [asked EXCEPT ![q] = version]
        /\ UNCHANGED <<worldVars, listeners, historyVars>>
    BY <1>6 DEF Refetch
  <2>2. TypeOK /\ Q \in SUBSET Queries /\ q \in Q /\ EntryHolds(q) BY <1>1
  <2>3. F = {f \in AfterAbort(Q) : f.query = q} OBVIOUS
  <2> HIDE DEF F, Q
  <2>4. /\ F \in SUBSET Fetch
        /\ \A f \in F : f.generation <= e.generation /\ f.aborted
        /\ \A f, g \in F : f.generation = g.generation => f = g
        /\ \A f \in F : /\ f.stage = "answered" => f.data # None
                        /\ f.data # None => f.data <= version
    BY <2>2, <2>3, AbortKeeps
  <2>5. /\ e \in Entry /\ n \in Version /\ n <= version
        /\ e.snapshot.data # None => e.snapshot.data <= version
        /\ Idle(e)
    BY <1>1, <1>2 DEF EntryInvariant, Newer
  <2> HIDE DEF e, n
  <2>6. /\ Started(e) \in Entry /\ NewFetch(q, e) \in Fetch
        /\ EntryInvariant(Started(e), F \cup {NewFetch(q, e)}, version, n, version)
    BY <1>0, <2>4, <2>5, StartKeeps, ZenonT(60)
  <2>7. x.query = q BY DEF NewFetch
  <2> HIDE DEF x
  <2>8. {f \in fetches' : f.query = q} = F \cup {x} BY <2>1, <2>3, <2>7 DEF Q
  <2>9. ASSUME NEW f \in fetches, f.query # q
        PROVE  f \in AfterAbort({q})
    BY <2>9 DEF AfterAbort
  <2>10. \A f \in AfterAbort({q}) : f \in Fetch /\ (f.query # q => f \in fetches)
    <3>1. \A f \in fetches : /\ [f EXCEPT !.aborted = TRUE] \in Fetch
                             /\ [f EXCEPT !.aborted = TRUE].query = f.query
      BY <1>1 DEF Fetch
    <3> QED BY <1>1, <3>1 DEF AfterAbort
  <2>11. \A p \in Queries \ {q} : {f \in fetches' : f.query = p} = {f \in fetches : f.query = p}
    BY <2>1, <2>7, <2>9, <2>10 DEF Q
  <2>12. /\ entries' \in [Queries -> Entry] /\ entries'[q] = Started(e)
         /\ \A p \in Queries \ {q} : entries'[p] = entries[p]
         /\ asked' \in [Queries -> Version] /\ asked'[q] = version
         /\ \A p \in Queries \ {q} : asked'[p] = asked[p]
    BY <1>1, <2>1, <2>6
  <2>13. fetches' \in SUBSET Fetch BY <2>1, <2>6, <2>10 DEF x
  <2>14. TypeOK'
    BY <1>1, <1>3, <2>1, <2>12, <2>13 DEF TypeOK, worldVars, historyVars
  <2>15. EntryHolds(q)'
    BY <2>1, <2>6, <2>8, <2>12 DEF EntryHolds, Ops, worldVars, historyVars, x, n
  <2>16. \A p \in Queries \ {q} : EntryHolds(p)'
    BY <1>2, <2>1, <2>11, <2>12 DEF EntryHolds, Ops, worldVars, historyVars
  <2> QED BY <2>14, <2>15, <2>16 DEF EveryEntryHolds
<1>7. CASE InvalidateTags
  <2> DEFINE Q == {q \in Queries : Watched(q)}
             cache == [q \in Queries |-> Stale(entries[q])]
             need == [q \in Queries |-> version]
  <2>1. /\ ExecuteAll(Q, cache, fetches) /\ Move
        /\ needed' = need
        /\ joined' = [q \in Queries |-> entries[q].promise]
        /\ UNCHANGED <<worldVars, listeners>>
    BY <1>7 DEF InvalidateTags
  <2>2. Q \in SUBSET Queries OBVIOUS
  <2>3. ASSUME NEW q \in Queries
        PROVE  /\ cache[q] \in Entry /\ need[q] = version
               /\ EntryInvariant(cache[q], {f \in fetches : f.query = q}, version, need[q], asked[q])
    <3>1. /\ entries[q] \in Entry /\ needed[q] \in Version
          /\ {f \in fetches : f.query = q} \in SUBSET Fetch
      BY <1>1
    <3>2. /\ Stale(entries[q]) \in Entry
          /\ EntryInvariant(Stale(entries[q]), {f \in fetches : f.query = q}, version,
                            version, asked[q])
      BY <1>0, <1>2, <3>1, StaleKeeps, ZenonT(60)
    <3> QED BY <3>2
  <2>4. cache \in [Queries -> Entry] /\ need \in [Queries -> Version] BY <1>1, <2>3
  <2>5. \A q \in Queries : entries[q].promise \in BOOLEAN BY <1>1 DEF Entry
  <2> HIDE DEF Q, cache, need
  <2>6. /\ entries' \in [Queries -> Entry] /\ fetches' \in SUBSET Fetch
        /\ asked' \in [Queries -> Version]
        /\ \A q \in Queries :
             EntryInvariant(entries'[q], {f \in fetches' : f.query = q}, version, need[q],
                            asked'[q])
    BY <1>0, <2>1, <2>2, <2>3, <2>4, ExecuteKeeps, ZenonT(60)
  <2>7. TypeOK' BY <1>1, <1>3, <2>1, <2>4, <2>5, <2>6 DEF TypeOK, worldVars
  <2>8. \A q \in Queries : EntryHolds(q)'
    BY <2>1, <2>6 DEF EntryHolds, Ops, worldVars
  <2> QED BY <2>7, <2>8 DEF EveryEntryHolds
<1>8. CASE Clear
  <2> DEFINE Q == {q \in Queries : Watched(q)}
             cache == [q \in Queries |-> Cleared(entries[q])]
             running == AfterAbort(Queries)
  <2>1. /\ ExecuteAll(Q, cache, running)
        /\ clearDue' = FALSE
        /\ UNCHANGED <<version, signedIn, listeners, historyVars, moves>>
    BY <1>8 DEF Clear
  <2>2. Q \in SUBSET Queries /\ Queries \in SUBSET Queries OBVIOUS
  <2>3. running \in SUBSET Fetch
    <3>1. \A f \in fetches : [f EXCEPT !.aborted = TRUE] \in Fetch BY <1>1 DEF Fetch
    <3> QED BY <1>1, <3>1 DEF AfterAbort
  <2>4. ASSUME NEW q \in Queries
        PROVE  /\ cache[q] \in Entry
               /\ EntryInvariant(cache[q], {f \in running : f.query = q}, version, needed[q],
                                 asked[q])
    <3> DEFINE e == entries[q]
               F == {f \in AfterAbort(Queries) : f.query = q}
               n == needed[q]
               k == asked[q]
    <3>1. EntryHolds(q) BY <1>1
    <3>2. F = {f \in AfterAbort(Queries) : f.query = q} OBVIOUS
    <3>3. e \in Entry /\ n \in Version /\ n <= version /\ k \in Version /\ k <= version
      BY <1>1, <1>2 DEF EntryInvariant, Newer
    <3> HIDE DEF F
    <3>4. /\ F \in SUBSET Fetch
          /\ \A f \in F : f.generation <= e.generation /\ f.aborted
          /\ \A f, g \in F : f.generation = g.generation => f = g
          /\ \A f \in F : /\ f.stage = "answered" => f.data # None
                          /\ f.data # None => f.data <= version
      BY <1>1, <2>2, <3>1, <3>2, AbortKeeps
    <3> HIDE DEF e, n, k
    <3>5. Cleared(e) \in Entry /\ EntryInvariant(Cleared(e), F, version, n, k)
      BY <1>1, <3>3, <3>4, ClearKeeps, ZenonT(60)
    <3> QED BY <3>2, <3>5 DEF e, n, k
  <2>5. cache \in [Queries -> Entry] BY <2>4
  <2> HIDE DEF Q, cache, running
  <2>6. /\ entries' \in [Queries -> Entry] /\ fetches' \in SUBSET Fetch
        /\ asked' \in [Queries -> Version]
        /\ \A q \in Queries :
             EntryInvariant(entries'[q], {f \in fetches' : f.query = q}, version, needed[q],
                            asked'[q])
    BY <1>1, <2>1, <2>2, <2>3, <2>4, <2>5, ExecuteKeeps
  <2>7. TypeOK' BY <1>1, <2>1, <2>6 DEF TypeOK, historyVars
  <2>8. \A q \in Queries : EntryHolds(q)'
    BY <2>1, <2>6 DEF EntryHolds, Ops, historyVars
  <2> QED BY <2>7, <2>8 DEF EveryEntryHolds
<1>9. CASE SignIn
  <2>1. TypeOK' BY <1>1, <1>9 DEF SignIn, TypeOK, historyVars
  <2>2. \A q \in Queries : EntryHolds(q)'
    BY <1>1, <1>9 DEF SignIn, EntryHolds, Ops, historyVars
  <2> QED BY <2>1, <2>2 DEF EveryEntryHolds
<1>10. CASE Write
  <2>1. version' \in Version /\ version <= version'
    BY <1>1, <1>10, ConstantsAssumption DEF Write, Version
  <2>2. TypeOK' BY <1>1, <1>10, <2>1 DEF Write, TypeOK, historyVars
  <2>3. ASSUME NEW q \in Queries PROVE EntryHolds(q)'
    <3>1. /\ entries[q] \in Entry /\ needed[q] \in Version /\ asked[q] \in Version
          /\ Ops(q) \in SUBSET Fetch
          /\ EntryInvariant(entries[q], Ops(q), version, needed[q], asked[q])
      BY <1>1 DEF EntryHolds
    <3>2. EntryInvariant(entries[q], Ops(q), version', needed[q], asked[q])
      BY <1>1, <2>1, <3>1, NothingKeeps
    <3> QED BY <1>10, <3>2 DEF Write, EntryHolds, Ops, historyVars
  <2> QED BY <2>2, <2>3 DEF EveryEntryHolds
<1>11. CASE UNCHANGED vars
  <2>1. TypeOK' BY <1>1, <1>11 DEF TypeOK, vars, worldVars, historyVars
  <2>2. \A q \in Queries : EntryHolds(q)'
    BY <1>1, <1>11 DEF EntryHolds, Ops, vars, worldVars, historyVars
  <2> QED BY <2>1, <2>2 DEF EveryEntryHolds
<1> QED
  BY <1>4, <1>5, <1>6, <1>7, <1>8, <1>9, <1>10, <1>11, ProceedKeeps DEF Next

-----------------------------------------------------------------------------
(* The theorems *)

LEMMA EveryEntryAlwaysHolds == Spec => []EveryEntryHolds
BY InitHolds, NextKeeps, PTL DEF Spec

(* The inductive invariant of the cache: entries, promises and fetches     *)
(* agree, whatever mounts, refetches, invalidates or signs in meanwhile.   *)
THEOREM InvariantHolds == Spec => []InductiveInvariant
<1>1. EveryEntryHolds => InductiveInvariant BY EntryByEntry DEF EveryEntryHolds
<1> QED BY <1>1, EveryEntryAlwaysHolds, PTL

(* What is not stale is as new as the last invalidation (invalidateTags).  *)
THEOREM FreshEntriesAreCurrent == Spec => []FreshIsCurrent
BY InvariantHolds, PTL DEF InductiveInvariant

(* An entry has one request at most that was not aborted (#execute).       *)
THEOREM OneRequestAtMost == Spec => []OneRequestPerEntry
<1>1. InductiveInvariant => OneRequestPerEntry
  BY DEF InductiveInvariant, SupersededIsAborted, IsCurrent, OneRequestPerEntry
<1> QED BY <1>1, InvariantHolds, PTL

(* An action keeps the data an entry shows, or drops it in a clear, or     *)
(* stores the answer of its operation, which is newer.                     *)
LEMMA StepNeverGoesBack ==
  ASSUME EveryEntryHolds, [Next]_vars, NEW q \in Queries, entries[q].snapshot.data # None
  PROVE  LET old == entries[q].snapshot.data
             new == entries'[q].snapshot.data
         IN  IF new = None THEN clearDue ELSE new >= old
<1> DEFINE old == entries[q].snapshot.data
           new == entries'[q].snapshot.data
<1>1. /\ entries \in [Queries -> Entry] /\ fetches \in SUBSET Fetch
      /\ EntryInvariant(entries[q], Ops(q), version, needed[q], asked[q])
  BY DEF EveryEntryHolds, TypeOK, EntryHolds
<1>2. old \in Nat
  BY <1>1, ConstantsAssumption DEF Entry, Snapshot, Version
<1>3. SUFFICES new = old \/ (new = None /\ clearDue) \/ (new \in Nat /\ new # None /\ new >= old)
  BY <1>2
<1>4. \A e : Started(e).snapshot.data = e.snapshot.data BY DEF Started
<1>5. ASSUME NEW v \in Views, NEW p \in Queries, Subscribe(v, p) PROVE new = old
  BY <1>4, <1>5 DEF Subscribe, ExecuteAll
<1>6. ASSUME NEW v \in Views, NEW p \in Queries, Unsubscribe(v, p) PROVE new = old
  BY <1>6 DEF Unsubscribe
<1>7. ASSUME NEW p \in Queries, Refetch(p) PROVE new = old
  BY <1>1, <1>4, <1>7 DEF Refetch
<1>8. CASE InvalidateTags
  <2>1. Stale(entries[q]).snapshot = entries[q].snapshot BY <1>1 DEF Stale, Entry
  <2> DEFINE cache == [p \in Queries |-> Stale(entries[p])]
  <2>2. cache[q] = Stale(entries[q]) OBVIOUS
  <2> HIDE DEF cache
  <2>3. entries'[q] = cache[q] \/ entries'[q] = Started(cache[q])
    BY <1>8 DEF InvalidateTags, ExecuteAll, cache
  <2> QED BY <1>4, <2>1, <2>2, <2>3
<1>9. CASE Clear
  <2>1. Cleared(entries[q]).snapshot.data = None BY DEF Cleared, idleSnapshot
  <2> DEFINE cache == [p \in Queries |-> Cleared(entries[p])]
  <2>2. cache[q] = Cleared(entries[q]) OBVIOUS
  <2> HIDE DEF cache
  <2>3. clearDue /\ (entries'[q] = cache[q] \/ entries'[q] = Started(cache[q]))
    BY <1>9 DEF Clear, ExecuteAll, cache
  <2> QED BY <1>4, <2>1, <2>2, <2>3
<1>10. CASE SignIn \/ Write \/ UNCHANGED vars
  BY <1>10 DEF SignIn, Write, vars
<1>11. ASSUME NEW f \in fetches, Answer(f) \/ Fail(f) PROVE new = old
  BY <1>11 DEF Answer, Fail
<1>12. ASSUME NEW f \in fetches, Finally(f) PROVE new = old
  <2>1. CASE Ends(f)
    <3>1. entries' = [entries EXCEPT ![f.query] = [@ EXCEPT !.promise = FALSE]]
      BY <1>12, <2>1 DEF Finally
    <3>2. [entries[q] EXCEPT !.promise = FALSE].snapshot = entries[q].snapshot
      BY <1>1 DEF Entry
    <3> QED BY <1>1, <3>1, <3>2
  <2>2. CASE ~Ends(f) BY <1>12, <2>2 DEF Finally
  <2> QED BY <2>1, <2>2
<1>13. ASSUME NEW f \in fetches, Settle(f)
       PROVE  new = old \/ (new \in Nat /\ new # None /\ new >= old)
  <2>1. CASE Stores(f) /\ f.query = q
    <3> DEFINE s == [status |-> IF f.stage = "answered" THEN "success" ELSE "error",
                     data |-> IF f.stage = "answered" THEN f.data
                              ELSE entries[f.query].snapshot.data,
                     error |-> f.error, isFetching |-> FALSE]
    <3>1. entries' = [entries EXCEPT ![f.query] = [@ EXCEPT !.snapshot = s]]
      BY <1>13, <2>1 DEF Settle, Stored
    <3>2. s.data = IF f.stage = "answered" THEN f.data ELSE old BY <2>1
    <3> HIDE DEF s
    <3>3. [entries[q] EXCEPT !.snapshot = s].snapshot = s BY <1>1 DEF Entry
    <3>4. new = s.data BY <1>1, <2>1, <3>1, <3>3
    <3>5. f \in Ops(q) /\ entries[q].generation = f.generation
      BY <2>1 DEF Ops, Stores, IsCurrent
    <3>6. f.stage = "answered" => f.data # None /\ f.data >= old
      BY <1>1, <3>5 DEF EntryInvariant, Fits, Newer
    <3>7. f.data \in Nat \cup {None} BY <1>1 DEF Fetch, Version
    <3> QED BY <3>2, <3>4, <3>6, <3>7
  <2>2. CASE ~(Stores(f) /\ f.query = q)
    BY <1>1, <1>13, <2>2 DEF Settle, Stored
  <2> QED BY <2>1, <2>2
<1> QED
  BY <1>5, <1>6, <1>7, <1>8, <1>9, <1>10, <1>11, <1>12, <1>13 DEF Next, Proceed

(* Until the cache is cleared a view never goes back to older data, in     *)
(* whatever order answers come (the generation check of #execute).         *)
THEOREM ViewsNeverGoBack == Spec => DataNeverGoesBack
<1>1. EveryEntryHolds /\ [Next]_vars =>
        [\A q \in Queries :
           LET old == entries[q].snapshot.data
               new == entries'[q].snapshot.data
           IN  old # None => IF new = None THEN clearDue ELSE new >= old]_vars
  BY StepNeverGoesBack
<1> QED BY <1>1, EveryEntryAlwaysHolds, PTL DEF Spec, DataNeverGoesBack

-----------------------------------------------------------------------------
(* Every entry is a CachedQuery. *)

LEMMA CacheStarts ==
  ASSUME NEW q \in Queries, NEW e \in Entry, entries[q].snapshot = e.snapshot,
         entries'[q] = Started(e), UNCHANGED version, asked'[q] = version
  PROVE  Cache(q)!Start
<1>1. /\ ~entries'[q].stale /\ entries'[q].snapshot.isFetching
      /\ entries'[q].snapshot.data = entries[q].snapshot.data
      /\ entries'[q].snapshot.status =
           IF entries[q].snapshot.data = None THEN "pending" ELSE entries[q].snapshot.status
  BY DEF Started
<1>2. entries'[q].stale = FALSE
  BY DEF Started
<1>3. (entries'[q].snapshot.status = "error") =
        (entries[q].snapshot.status = "error" /\ entries[q].snapshot.data # None)
  BY <1>1
<1> QED BY <1>1, <1>2, <1>3 DEF Cache!Start, Cache!Ask

(* Nothing its users know of changes. *)
LEMMA CacheRests ==
  ASSUME NEW q \in Queries, entries'[q] = entries[q],
         UNCHANGED version, Watched(q)' = Watched(q), asked'[q] = asked[q]
  PROVE  UNCHANGED Cache(q)!vars
BY DEF Cache!vars

(* What #execute, not forced, does to an entry c of a cache. *)
LEMMA CacheExecutes ==
  ASSUME NEW Q \in SUBSET Queries, NEW cache \in [Queries -> Entry], NEW running,
         ExecuteAll(Q, cache, running), asked \in [Queries -> Version], NEW q \in Queries
  PROVE  /\ q \in Q /\ ~cache[q].promise => entries'[q] = Started(cache[q]) /\ asked'[q] = version
         /\ q \notin Q \/ cache[q].promise => entries'[q] = cache[q] /\ asked'[q] = asked[q]
BY DEF ExecuteAll

LEMMA StepIsCached ==
  ASSUME EveryEntryHolds, [Next]_vars, NEW q \in Queries
  PROVE  Cache(q)!Next \/ UNCHANGED Cache(q)!vars
<1> DEFINE e == entries[q]
<1>1. /\ entries \in [Queries -> Entry] /\ e \in Entry /\ asked \in [Queries -> Version]
      /\ listeners \in [Queries -> SUBSET Views] /\ fetches \in SUBSET Fetch
      /\ version \in Version
      /\ EntryInvariant(e, Ops(q), version, needed[q], asked[q])
  BY DEF EveryEntryHolds, TypeOK, EntryHolds
<1>2. e.snapshot.isFetching => e.promise
  BY <1>1 DEF EntryInvariant, Running
<1>3. e.snapshot.isFetching \in BOOLEAN /\ e.promise \in BOOLEAN /\ e.stale \in BOOLEAN
  BY <1>1 DEF Entry, Snapshot
<1> HIDE DEF e
<1>4. ASSUME NEW v \in Views, NEW p \in Queries, Subscribe(v, p)
      PROVE  Cache(q)!Next \/ UNCHANGED Cache(q)!vars
  <2> DEFINE Q == {r \in {p} : entries[r].stale \/ entries[r].snapshot.status = "idle"}
  <2>1. /\ listeners' = [listeners EXCEPT ![p] = @ \cup {v}]
        /\ ExecuteAll(Q, entries, fetches)
        /\ UNCHANGED version
    BY <1>4 DEF Subscribe, worldVars
  <2>2. Q \in SUBSET Queries OBVIOUS
  <2>3. q \in Q <=> q = p /\ e.stale
    BY <1>1 DEF EntryInvariant, Idle, e
  <2> HIDE DEF Q
  <2>4. /\ q \in Q /\ ~e.promise => entries'[q] = Started(e) /\ asked'[q] = version
        /\ q \notin Q \/ e.promise => entries'[q] = e /\ asked'[q] = asked[q]
    BY <1>1, <2>1, <2>2, CacheExecutes DEF e
  <2>5. CASE q # p
    <3>1. Watched(q)' = Watched(q) BY <1>1, <2>1, <2>5 DEF Watched
    <3> QED BY <2>1, <2>3, <2>4, <2>5, <3>1, CacheRests DEF e
  <2>6. CASE q = p /\ e.stale /\ ~e.promise
    <3>1. Watched(q)' = TRUE BY <1>1, <2>1, <2>6 DEF Watched
    <3>2. Cache(q)!Start BY <1>1, <2>1, <2>3, <2>4, <2>6, CacheStarts DEF e
    <3>3. Cache(q)!Subscribe BY <1>2, <2>6, <3>1, <3>2 DEF Cache!Subscribe, e
    <3> QED BY <3>3 DEF Cache!Next
  <2>7. CASE q = p /\ ~(e.stale /\ ~e.promise)
    <3>1. Watched(q)' = TRUE BY <1>1, <2>1, <2>7 DEF Watched
    <3>2. entries'[q] = e /\ asked'[q] = asked[q] BY <2>3, <2>4, <2>7
    <3>3. Cache(q)!Subscribe BY <1>2, <2>1, <2>7, <3>1, <3>2 DEF Cache!Subscribe, e
    <3> QED BY <3>3 DEF Cache!Next
  <2> QED BY <2>5, <2>6, <2>7
<1>5. ASSUME NEW v \in Views, NEW p \in Queries, Unsubscribe(v, p)
      PROVE  Cache(q)!Next \/ UNCHANGED Cache(q)!vars
  <2>1. /\ listeners' = [listeners EXCEPT ![p] = @ \ {v}]
        /\ UNCHANGED <<version, entries, asked>>
    BY <1>5 DEF Unsubscribe, worldVars
  <2>2. CASE Watched(q)' = Watched(q) BY <2>1, <2>2, CacheRests
  <2>3. CASE ~(Watched(q)' = Watched(q))
    <3>1. Watched(q)' = FALSE BY <1>1, <2>1, <2>3 DEF Watched
    <3>2. Cache(q)!Unsubscribe BY <2>1, <3>1 DEF Cache!Unsubscribe
    <3> QED BY <3>2 DEF Cache!Next
  <2> QED BY <2>2, <2>3
<1>6. ASSUME NEW p \in Queries, Refetch(p)
      PROVE  Cache(q)!Next \/ UNCHANGED Cache(q)!vars
  <2>1. /\ Watched(p) /\ entries' = [entries EXCEPT ![p] = Started(entries[p])]
        /\ asked' = [asked EXCEPT ![p] = version]
        /\ UNCHANGED <<version, listeners>>
    BY <1>6 DEF Refetch, worldVars
  <2>2. Watched(q)' = Watched(q) BY <2>1 DEF Watched
  <2>3. CASE q # p
    <3>1. entries'[q] = entries[q] /\ asked'[q] = asked[q] BY <1>1, <2>1, <2>3
    <3> QED BY <2>1, <2>2, <3>1, CacheRests
  <2>4. CASE q = p
    <3>1. entries'[q] = Started(e) /\ asked'[q] = version BY <1>1, <2>1, <2>4 DEF e
    <3>2. Cache(q)!Start BY <1>1, <2>1, <3>1, CacheStarts DEF e
    <3>3. Cache(q)!Refetch BY <2>1, <2>2, <2>4, <3>2 DEF Cache!Refetch
    <3> QED BY <3>3 DEF Cache!Next
  <2> QED BY <2>3, <2>4
<1>7. CASE InvalidateTags
  <2> DEFINE Q == {p \in Queries : Watched(p)}
             cache == [p \in Queries |-> Stale(entries[p])]
             s == Stale(e)
  <2>1. ExecuteAll(Q, cache, fetches) /\ UNCHANGED <<version, listeners>>
    BY <1>7 DEF InvalidateTags, worldVars
  <2>2. Q \in SUBSET Queries /\ (q \in Q <=> Watched(q)) OBVIOUS
  <2>3. \A p \in Queries : Stale(entries[p]) \in Entry BY <1>1 DEF Stale, Entry
  <2>4. cache \in [Queries -> Entry] /\ cache[q] = s BY <2>3 DEF e
  <2>5. s \in Entry /\ s.snapshot = e.snapshot /\ s.promise = e.promise /\ s.stale = TRUE
    BY <1>1 DEF Stale, Entry
  <2> HIDE DEF Q, cache, s
  <2>6. /\ Watched(q) /\ ~e.promise => entries'[q] = Started(s) /\ asked'[q] = version
        /\ ~Watched(q) \/ e.promise => entries'[q] = s /\ asked'[q] = asked[q]
    <3>1. /\ q \in Q /\ ~cache[q].promise => entries'[q] = Started(cache[q]) /\ asked'[q] = version
          /\ q \notin Q \/ cache[q].promise => entries'[q] = cache[q] /\ asked'[q] = asked[q]
      BY <1>1, <2>1, <2>2, <2>4, CacheExecutes
    <3> QED BY <2>2, <2>4, <2>5, <3>1
  <2>7. Watched(q)' = Watched(q) BY <2>1 DEF Watched
  <2>8. CASE Watched(q) /\ ~e.promise
    <3>1. Cache(q)!Start BY <2>1, <2>5, <2>6, <2>8, CacheStarts DEF e
    <3>2. Cache(q)!Invalidate(FALSE)
      BY <1>2, <2>7, <2>8, <3>1 DEF Cache!Invalidate, Cache!Start, e
    <3> QED BY <3>2 DEF Cache!Next
  <2>9. CASE ~(Watched(q) /\ ~e.promise)
    <3>1. entries'[q] = s /\ asked'[q] = asked[q] BY <2>6, <2>9
    <3>2. Cache(q)!Invalidate(FALSE)
      BY <1>2, <2>1, <2>5, <2>7, <2>9, <3>1 DEF Cache!Invalidate, e
    <3> QED BY <3>2 DEF Cache!Next
  <2> QED BY <2>8, <2>9
<1>8. CASE Clear
  <2> DEFINE Q == {p \in Queries : Watched(p)}
             cache == [p \in Queries |-> Cleared(entries[p])]
             s == Cleared(e)
  <2>1. ExecuteAll(Q, cache, AfterAbort(Queries)) /\ UNCHANGED <<version, listeners>>
    BY <1>8 DEF Clear
  <2>2. Q \in SUBSET Queries /\ (q \in Q <=> Watched(q)) OBVIOUS
  <2>3. \A p \in Queries : Cleared(entries[p]) \in Entry
    BY <1>1 DEF Cleared, idleSnapshot, Entry, Snapshot
  <2>4. cache \in [Queries -> Entry] /\ cache[q] = s BY <2>3 DEF e
  <2>5. /\ s.snapshot.status = "idle" /\ s.snapshot.data = None /\ ~s.snapshot.isFetching
        /\ ~s.promise /\ s.stale = TRUE
    BY DEF Cleared, idleSnapshot
  <2> HIDE DEF Q, cache, s
  <2>6. /\ Watched(q) => entries'[q] = Started(s) /\ asked'[q] = version
        /\ ~Watched(q) => entries'[q] = s /\ asked'[q] = asked[q]
    <3>1. /\ q \in Q /\ ~cache[q].promise => entries'[q] = Started(cache[q]) /\ asked'[q] = version
          /\ q \notin Q \/ cache[q].promise => entries'[q] = cache[q] /\ asked'[q] = asked[q]
      BY <1>1, <2>1, <2>2, <2>4, CacheExecutes
    <3> QED BY <2>2, <2>4, <2>5, <3>1
  <2>7. Watched(q)' = Watched(q) BY <2>1 DEF Watched
  <2>8. /\ Started(s).snapshot.data = None /\ Started(s).snapshot.status = "pending"
        /\ Started(s).snapshot.isFetching /\ Started(s).stale = FALSE
    BY <2>5 DEF Started
  <2>9. Cache(q)!Clear
    <3>1. CASE Watched(q) BY <2>1, <2>6, <2>7, <2>8, <3>1 DEF Cache!Clear
    <3>2. CASE ~Watched(q) BY <2>1, <2>5, <2>6, <2>7, <3>2 DEF Cache!Clear
    <3> QED BY <3>1, <3>2
  <2> QED BY <2>9 DEF Cache!Next
<1>9. CASE Write
  <2>1. /\ version' = version + 1 /\ UNCHANGED <<entries, asked, listeners>>
    BY <1>9 DEF Write
  <2>2. Cache(q)!Write BY <2>1 DEF Cache!Write, Watched
  <2> QED BY <2>2 DEF Cache!Next
<1>10. CASE SignIn \/ UNCHANGED vars
  <2>1. UNCHANGED <<version, entries, asked, listeners>>
    BY <1>10 DEF SignIn, vars, worldVars
  <2> QED BY <2>1, CacheRests DEF Watched
<1>11. ASSUME NEW f \in fetches, Proceed(f)
       PROVE  Cache(q)!Next \/ UNCHANGED Cache(q)!vars
  <2> DEFINE d == entries'[q]
  <2>1. UNCHANGED <<version, asked, listeners>>
    BY <1>11 DEF Proceed, Answer, Fail, Settle, Finally, worldVars
  <2>2. Watched(q)' = Watched(q) BY <2>1 DEF Watched
  <2>3. CASE d = e BY <2>1, <2>2, <2>3, CacheRests DEF e
  <2>4. CASE Settle(f) /\ Stores(f) /\ f.query = q
    <3> DEFINE s == [status |-> IF f.stage = "answered" THEN "success" ELSE "error",
                     data |-> IF f.stage = "answered" THEN f.data ELSE e.snapshot.data,
                     error |-> f.error, isFetching |-> FALSE]
    <3>1. /\ f \in Ops(q) /\ e.generation = f.generation /\ f.stage \in {"answered", "failed"}
      BY <2>4 DEF Ops, Stores, IsCurrent, Settle, e
    <3>2. entries' = [entries EXCEPT ![q] = [@ EXCEPT !.snapshot = s]]
      BY <2>4 DEF Settle, Stored, e
    <3> HIDE DEF s
    <3>3. d = [e EXCEPT !.snapshot = s] BY <1>1, <3>2 DEF e
    <3>4. d.snapshot = s /\ d.stale = e.stale /\ d.promise = e.promise BY <1>1, <3>3 DEF Entry
    <3>5. e.promise /\ e.snapshot.isFetching
      BY <1>1, <3>1 DEF EntryInvariant, Running
    <3> HIDE DEF d
    <3>6. CASE f.stage = "answered"
      <4>1. s.status = "success" /\ s.data = f.data /\ ~s.isFetching BY <3>6 DEF s
      <4>2. f.data # None /\ f.data <= version /\ f.data >= asked[q]
        BY <1>1, <3>1, <3>6 DEF EntryInvariant, Fits, Newer
      <4>3. f.data \in Nat /\ version \in Nat /\ asked[q] \in Nat
        BY <1>1, <4>2, ConstantsAssumption DEF Fetch, Version
      <4>4. d.snapshot.data \in asked[q]..version BY <3>4, <4>1, <4>2, <4>3
      <4>5. Cache(q)!Answer
        BY <2>1, <2>2, <3>4, <3>5, <4>1, <4>4 DEF Cache!Answer, d, e
      <4> QED BY <4>5 DEF Cache!Next
    <3>7. CASE f.stage = "failed"
      <4>1. s.status = "error" /\ s.data = e.snapshot.data /\ ~s.isFetching BY <3>7 DEF s
      <4>2. Cache(q)!Refuse
        BY <2>1, <2>2, <3>4, <3>5, <4>1 DEF Cache!Refuse, d, e
      <4> QED BY <4>2 DEF Cache!Next
    <3> QED BY <3>1, <3>6, <3>7
  <2>5. CASE Finally(f) /\ Ends(f) /\ f.query = q
    <3>1. f \in Ops(q) /\ e.generation = f.generation /\ f.stage = "settled"
      BY <2>5 DEF Ops, Ends, IsCurrent, Finally, e
    <3>2. entries' = [entries EXCEPT ![q] = [@ EXCEPT !.promise = FALSE]]
      BY <2>5 DEF Finally
    <3>3. d = [e EXCEPT !.promise = FALSE] BY <1>1, <3>2 DEF e
    <3>4. d.snapshot = e.snapshot /\ d.stale = e.stale /\ ~d.promise BY <1>1, <3>3 DEF Entry
    <3>5. e.promise /\ ~e.snapshot.isFetching
      BY <1>1, <3>1 DEF EntryInvariant, Running, Numbered
    <3> HIDE DEF d
    <3>6. Cache(q)!End
      BY <2>1, <2>2, <3>4, <3>5 DEF Cache!End, d, e
    <3> QED BY <3>6 DEF Cache!Next
  <2>6. CASE ~(Settle(f) /\ Stores(f) /\ f.query = q) /\ ~(Finally(f) /\ Ends(f) /\ f.query = q)
    <3>1. d = e
      BY <1>1, <1>11, <2>6 DEF Proceed, Answer, Fail, Settle, Stored, Finally, e
    <3> QED BY <2>3, <3>1
  <2> QED BY <2>4, <2>5, <2>6
<1> QED BY <1>4, <1>5, <1>6, <1>7, <1>8, <1>9, <1>10, <1>11 DEF Next

(* Every entry is a CachedQuery: what the shell is built on.  Generations, *)
(* aborts and shared promises show the users of an entry nothing but what  *)
(* was read since they asked, or that it failed (#execute, invalidateTags, *)
(* clear).                                                                 *)
THEOREM EntriesAreCachedQueries == Spec => ImplementsCachedQuery
<1>1. Init => \A q \in Queries : Cache(q)!Init
  BY DEF Init, idleSnapshot, Watched, Cache!Init
<1>2. EveryEntryHolds /\ [Next]_vars =>
        [\A q \in Queries : Cache(q)!Next \/ UNCHANGED Cache(q)!vars]_vars
  BY StepIsCached
<1> QED BY <1>1, <1>2, EveryEntryAlwaysHolds, PTL DEF Spec, ImplementsCachedQuery

-----------------------------------------------------------------------------
(* Commands: the answers and records of the service. *)

LEMMA AnswerTypes ==
  /\ \A kind \in {"none", "running", "refused", "busy", "failed"} :
       Service!Say(kind) \in Service!Reply /\ Service!Say(kind).kind = kind
  /\ \A result \in Results :
       /\ Service!Tell(result) \in Service!Reply
       /\ Service!Tell(result).kind = "result" /\ Service!Tell(result).result = result
BY DEF Service!Say, Service!Tell, Service!Reply

LEMMA RecordTypes ==
  /\ Service!Absent \in Service!Record /\ Service!Absent.status = "Absent"
  /\ Service!Pending \in Service!Record /\ Service!Pending.status = "Pending"
  /\ \A result \in Results :
       /\ Service!Completed(result) \in Service!Record
       /\ Service!Completed(result).status = "Completed"
       /\ Service!Completed(result).result = result
BY DEF Service!Absent, Service!Pending, Service!Completed, Service!Record

LEMMA CompletedRecord ==
  ASSUME NEW doc \in Service!Record, doc.status = "Completed"
  PROVE  doc.result \in Results /\ doc = Service!Completed(doc.result)
BY DEF Service!Absent, Service!Pending, Service!Completed, Service!Record

LEMMA IdsAreFinite ==
  ASSUME NEW S \in SUBSET Requests
  PROVE  IsFiniteSet(S) /\ Cardinality(S) \in Nat
BY FS_Subset, FS_CardinalityType, CommandAssumption

-----------------------------------------------------------------------------

LEMMA CommandInitially == CommandInit => CommandInvariant
<1> SUFFICES ASSUME CommandInit PROVE CommandInvariant OBVIOUS
<1> USE DEF CommandInit, Service!ServiceInit
<1>1. Sent = {} BY DEF Sent
<1>2. \A i \in Inputs : IdsOf(i) = {} BY CommandAssumption DEF IdsOf
<1>3. CommandTypes
  BY <1>1, AnswerTypes, RecordTypes, CommandAssumption
  DEF CommandTypes, Service!ServiceTypes
<1>4. IdsAreDrawn BY <1>1, RecordTypes DEF IdsAreDrawn
<1>5. IdsAreEarned BY <1>2, FS_EmptySet DEF IdsAreEarned
<1>6. AnswersAreRecorded BY AnswerTypes DEF AnswersAreRecorded
<1> QED BY <1>3, <1>4, <1>5, <1>6 DEF CommandInvariant

(* A call draws an id, or repeats one. *)
LEMMA ClickKeeps ==
  ASSUME CommandInvariant, NEW r \in Requests, NEW i \in Inputs, Click(i, r)
  PROVE  CommandInvariant'
<1> USE DEF CommandInvariant, CommandTypes, Service!ServiceTypes
<1> DEFINE d == GetId(i, r)
<1>1. /\ client[r] = "unused" /\ r \in Requests \ Sent
      /\ idOf[r] = Nothing /\ inputOf[r] = Nothing /\ server[r].kind = "none"
      /\ ids' = [ids EXCEPT ![i] = d]
      /\ client' = [client EXCEPT ![r] = "waiting"]
      /\ inputOf' = [inputOf EXCEPT ![r] = i]
      /\ idOf' = [idOf EXCEPT ![r] = d]
      /\ UNCHANGED <<accepted, orphans, told, leaves, server, records, holder>>
  BY DEF Click, Sent, formVars, Service!Arrive, Service!Asks
<1>2. d \in Requests /\ (ids[i] # Nothing => d = ids[i] /\ d \in IdsOf(i))
  BY DEF GetId, IdsAreDrawn
<1>3. /\ IdsOf(i)' = IF ids[i] = Nothing THEN IdsOf(i) \cup {r} ELSE IdsOf(i)
      /\ r \notin IdsOf(i)
      /\ \A j \in Inputs \ {i} : IdsOf(j)' = IdsOf(j)
  <2>1. r \notin IdsOf(i) /\ r # Nothing
    BY <1>1, CommandAssumption DEF IdsOf
  <2>2. ids[i] = Nothing => d = r
    BY DEF GetId
  <2>3. \A q \in Requests \ {r} : idOf'[q] = idOf[q] /\ inputOf'[q] = inputOf[q]
    BY <1>1
  <2>4. idOf'[r] = d /\ inputOf'[r] = i
    BY <1>1
  <2>5. ids[i] # Nothing => d # r
    BY <1>2, <2>1
  <2>6. \A j \in Inputs \ {i} : IdsOf(j)' = IdsOf(j)
    BY <1>1, <2>3, <2>4, CommandAssumption DEF IdsOf
  <2>7. ids[i] = Nothing => IdsOf(i)' = IdsOf(i) \cup {r}
    BY <2>2, <2>3, <2>4 DEF IdsOf
  <2>8. ids[i] # Nothing => IdsOf(i)' = IdsOf(i)
    BY <2>1, <2>3, <2>4, <2>5 DEF IdsOf
  <2> QED
    BY <2>1, <2>6, <2>7, <2>8
<1>4. d \in IdsOf(i)'
  BY <1>2, <1>3 DEF GetId
<1> HIDE DEF d
<1>5. Sent' = Sent \cup {r}
  BY <1>1 DEF Sent
<1>6. CommandTypes'
  BY <1>1, <1>2, <1>5
<1>7. IdsAreDrawn'
  <2>1. \A q \in Sent' : (idOf[q] \in IdsOf(inputOf[q]))'
    <3>1. idOf'[r] = d /\ inputOf'[r] = i
      BY <1>1
    <3>2. ASSUME NEW q \in Sent PROVE (idOf[q] \in IdsOf(inputOf[q]))'
      <4>1. q # r /\ q \in Requests BY <1>1 DEF Sent
      <4>2. idOf'[q] = idOf[q] /\ inputOf'[q] = inputOf[q] /\ inputOf[q] \in Inputs
        BY <1>1, <4>1
      <4>3. idOf[q] \in IdsOf(inputOf[q]) BY DEF IdsAreDrawn
      <4>4. \A j \in Inputs : IdsOf(j) \subseteq IdsOf(j)' BY <1>3
      <4>5. idOf[q] \in IdsOf(inputOf[q])' BY <4>2, <4>3, <4>4
      <4> QED BY <4>2, <4>5 DEF IdsOf
    <3>3. (idOf[r] \in IdsOf(inputOf[r]))'
      BY <1>4, <3>1 DEF IdsOf
    <3> QED BY <1>5, <3>2, <3>3
  <2>2. \A j \in Inputs : ids'[j] # Nothing => ids'[j] \in IdsOf(j)'
    BY <1>1, <1>3, <1>4 DEF IdsAreDrawn
  <2>3. \A e \in Requests : records'[e].status # "Absent" => \E j \in Inputs : e \in IdsOf(j)'
    <3>1. \A j \in Inputs : IdsOf(j) \subseteq IdsOf(j)' BY <1>3
    <3> QED BY <1>1, <3>1 DEF IdsAreDrawn
  <2> QED
    BY <2>1, <2>2, <2>3 DEF IdsAreDrawn
<1>8. IdsAreEarned'
  <2>1. IdsOf(i) \in SUBSET Requests
    BY DEF IdsOf
  <2>2. Cardinality(IdsOf(i) \cup {r}) = Cardinality(IdsOf(i)) + 1
    BY <1>3, <2>1, IdsAreFinite, FS_AddElement
  <2>3. ids'[i] # Nothing
    BY <1>1, <1>2, CommandAssumption
  <2>4. Cardinality(IdsOf(i)') <= told[i] + 1
    BY <1>3, <2>1, <2>2, IdsAreFinite DEF IdsAreEarned
  <2> QED
    BY <1>1, <1>3, <2>3, <2>4 DEF IdsAreEarned
<1>9. AnswersAreRecorded'
  BY <1>1 DEF AnswersAreRecorded
<1> QED
  BY <1>6, <1>7, <1>8, <1>9

(* What the browser does afterwards sends nothing: an id that leaves the   *)
(* reserve is paid for.                                                    *)
LEMMA BrowserKeeps ==
  ASSUME CommandInvariant,
         NEW i \in Inputs, NEW d \in Requests \cup {Nothing}, NEW n \in Nat,
         ids' = [ids EXCEPT ![i] = d], told' = [told EXCEPT ![i] = n],
         d = Nothing \/ d = ids[i], n = told[i] \/ n = told[i] + 1,
         d # ids[i] => n = told[i] + 1,
         accepted' \subseteq OneShot, orphans' \subseteq Requests, leaves' \in 0..MaxLeaves,
         client' \in [Requests -> {"unused", "waiting", "answered", "lost"}],
         \A r \in Requests :
           /\ client'[r] = "unused" <=> client[r] = "unused"
           /\ client'[r] = "answered" => server[r].kind \notin {"none", "running"},
         UNCHANGED <<inputOf, idOf, server, records, holder>>
  PROVE  CommandInvariant'
<1> USE DEF CommandInvariant, CommandTypes, Service!ServiceTypes
<1>1. Sent' = Sent
  BY DEF Sent
<1>2. \A j \in Inputs : IdsOf(j)' = IdsOf(j)
  BY DEF IdsOf
<1>3. CommandTypes'
  BY <1>1
<1>4. IdsAreDrawn'
  BY <1>1, <1>2 DEF IdsAreDrawn
<1>5. IdsAreEarned'
  <2>1. Cardinality(IdsOf(i)) \in Nat
    BY IdsAreFinite DEF IdsOf
  <2> QED
    BY <1>2, <2>1 DEF IdsAreEarned
<1>6. AnswersAreRecorded'
  BY DEF AnswersAreRecorded
<1> QED
  BY <1>3, <1>4, <1>5, <1>6

LEMMA BrowserStepKeeps ==
  ASSUME CommandInvariant, BrowserStep
  PROVE  CommandInvariant'
<1> USE DEF CommandInvariant, CommandTypes, Service!ServiceTypes
<1>1. ASSUME NEW r \in Requests, Receive(r) PROVE CommandInvariant'
  <2> DEFINE i == inputOf[r]
             d == IF Definitive(server[r]) /\ r \notin orphans THEN Nothing ELSE ids[i]
             n == IF TellsOutcome(server[r]) THEN told[i] + 1 ELSE told[i]
  <2>1. i \in Inputs /\ client[r] = "waiting" /\ server[r].kind \notin {"none", "running"}
    BY <1>1 DEF Receive, Sent
  <2>2. /\ ids' = [ids EXCEPT ![i] = d] /\ told' = [told EXCEPT ![i] = n]
        /\ client' = [client EXCEPT ![r] = "answered"]
        /\ UNCHANGED <<inputOf, idOf, orphans, leaves, server, records, holder>>
    BY <1>1, <2>1 DEF Receive, Told, serverVars
  <2>3. accepted' \subseteq OneShot
    BY <1>1 DEF Receive, Told
  <2>4. /\ d \in Requests \cup {Nothing} /\ n \in Nat
        /\ d # ids[i] => n = told[i] + 1
    BY <2>1 DEF Definitive, TellsOutcome
  <2>5. /\ d = Nothing \/ d = ids[i]
        /\ n = told[i] \/ n = told[i] + 1
    OBVIOUS
  <2>6. \A q \in Requests :
          /\ client'[q] = "unused" <=> client[q] = "unused"
          /\ client'[q] = "answered" => server[q].kind \notin {"none", "running"}
    BY <2>1, <2>2 DEF AnswersAreRecorded
  <2> HIDE DEF i, d, n
  <2> QED
    BY <2>1, <2>2, <2>3, <2>4, <2>5, <2>6, BrowserKeeps
<1>2. ASSUME NEW r \in Requests, Break(r) PROVE CommandInvariant'
  <2>1. inputOf[r] \in Inputs /\ client[r] = "waiting"
    BY <1>2 DEF Break, Sent
  <2>2. /\ client' = [client EXCEPT ![r] = "lost"]
        /\ ids' = [ids EXCEPT ![inputOf[r]] = ids[inputOf[r]]]
        /\ told' = [told EXCEPT ![inputOf[r]] = told[inputOf[r]]]
        /\ UNCHANGED <<accepted, inputOf, idOf, orphans, leaves, server, records, holder>>
    BY <1>2, <2>1 DEF Break, formVars, serverVars
  <2>3. \A q \in Requests :
          /\ client'[q] = "unused" <=> client[q] = "unused"
          /\ client'[q] = "answered" => server[q].kind \notin {"none", "running"}
    BY <2>1, <2>2 DEF AnswersAreRecorded
  <2> QED
    BY <2>1, <2>2, <2>3, BrowserKeeps
<1>3. ASSUME NEW i \in Inputs, Leave(i) PROVE CommandInvariant'
  <2>1. leaves < MaxLeaves /\ leaves' = leaves + 1
    BY <1>3 DEF Leave
  <2>2. leaves' \in 0..MaxLeaves
    BY <2>1, CommandAssumption
  <2>3. /\ ids' = [ids EXCEPT ![i] = Nothing] /\ told' = [told EXCEPT ![i] = told[i] + 1]
        /\ accepted' \subseteq OneShot /\ orphans' \subseteq Requests
        /\ UNCHANGED <<client, inputOf, idOf, server, records, holder>>
    BY <1>3 DEF Leave, serverVars
  <2>4. \A q \in Requests :
          client'[q] = "answered" => server[q].kind \notin {"none", "running"}
    BY <2>3 DEF AnswersAreRecorded
  <2>5. told[i] + 1 \in Nat
    OBVIOUS
  <2> QED
    BY <2>2, <2>3, <2>4, <2>5, BrowserKeeps
<1> QED
  BY <1>1, <1>2, <1>3, ClickKeeps DEF BrowserStep

(* A step of the server leaves the requests their ids and completed        *)
(* records what they are.                                                  *)
LEMMA ServerKeeps ==
  ASSUME CommandInvariant, NEW r \in Requests, client[r] # "unused",
         server[r].kind \in {"none", "running"},
         NEW reply \in Service!Reply, reply.kind # "none",
         server' = [server EXCEPT ![r] = reply],
         NEW doc \in Service!Record,
         records' = [records EXCEPT ![idOf[r]] = doc],
         records[idOf[r]] = doc \/ records[idOf[r]].status # "Completed",
         reply.kind = "result" => doc = Service!Completed(reply.result),
         holder' \in [Requests -> Requests \cup {Nothing}],
         UNCHANGED <<ids, accepted, client, inputOf, idOf, orphans, told, leaves>>
  PROVE  CommandInvariant'
<1> USE DEF CommandInvariant, CommandTypes, Service!ServiceTypes
<1>1. r \in Sent /\ idOf[r] \in Requests /\ Sent' = Sent
  BY DEF Sent
<1>2. \A j \in Inputs : IdsOf(j)' = IdsOf(j)
  BY DEF IdsOf
<1>3. CommandTypes'
  <2>1. \A q \in Requests \ Sent : server'[q].kind = "none"
    BY <1>1
  <2> QED
    BY <1>1, <2>1
<1>4. IdsAreDrawn'
  <2>1. \E j \in Inputs : idOf[r] \in IdsOf(j)
    BY <1>1 DEF IdsAreDrawn
  <2>2. \A d \in Requests \ {idOf[r]} : records'[d] = records[d]
    BY <1>1
  <2> QED
    BY <1>1, <1>2, <2>1, <2>2 DEF IdsAreDrawn
<1>5. IdsAreEarned'
  BY <1>2 DEF IdsAreEarned
<1>6. AnswersAreRecorded'
  <2> SUFFICES ASSUME NEW q \in Requests
               PROVE  /\ server'[q].kind = "result" =>
                           records'[idOf[q]] = Service!Completed(server'[q].result)
                      /\ client[q] = "answered" => server'[q].kind \notin {"none", "running"}
    BY DEF AnswersAreRecorded
  <2>1. CASE q = r
    BY <1>1, <2>1 DEF AnswersAreRecorded
  <2>2. CASE q # r
    <3>1. server'[q] = server[q]
      BY <2>2
    <3>2. ASSUME server[q].kind = "result"
          PROVE  records'[idOf[q]] = Service!Completed(server[q].result)
      <4>1. q \in Sent /\ idOf[q] \in Requests
        BY <3>2
      <4>2. records[idOf[q]] = Service!Completed(server[q].result)
        BY <3>2 DEF AnswersAreRecorded
      <4>3. records[idOf[q]].status = "Completed"
        BY <4>2 DEF Service!Completed
      <4> QED
        BY <1>1, <4>1, <4>2, <4>3
    <3> QED
      BY <3>1, <3>2 DEF AnswersAreRecorded
  <2> QED
    BY <2>1, <2>2
<1> QED
  BY <1>3, <1>4, <1>5, <1>6

LEMMA ServerStepKeeps ==
  ASSUME CommandInvariant, NEW r \in Requests, ServerStep(r)
  PROVE  CommandInvariant'
<1> USE DEF CommandInvariant, CommandTypes, Service!ServiceTypes
<1> DEFINE d == idOf[r]
<1>1. /\ client[r] # "unused" /\ d \in Requests
      /\ UNCHANGED <<ids, accepted, client, inputOf, orphans, told, leaves>>
  BY DEF ServerStep, Sent, formVars
<1>2. records[d] \in Service!Record /\ holder[d] \in Requests \cup {Nothing}
  BY <1>1
<1>3. Service!Asks(r, d) => UNCHANGED idOf /\ server[r].kind = "none"
  BY <1>1 DEF Service!Asks
<1>4. ASSUME NEW kind \in {"refused", "busy", "failed"},
             server[r].kind \in {"none", "running"},
             Service!Answer(r, Service!Say(kind)), UNCHANGED <<idOf, records, holder>>
      PROVE  CommandInvariant'
  <2> DEFINE doc == records[d]
             reply == Service!Say(kind)
  <2>1. records' = [records EXCEPT ![d] = doc] /\ doc \in Service!Record
    BY <1>1, <1>4
  <2>2. /\ reply \in Service!Reply /\ reply.kind \notin {"none", "result"}
        /\ server' = [server EXCEPT ![r] = reply]
    BY <1>4, AnswerTypes DEF Service!Answer
  <2>3. holder' \in [Requests -> Requests \cup {Nothing}]
    BY <1>4
  <2>4. records[d] = doc
    OBVIOUS
  <2> HIDE DEF CommandInvariant, doc, reply
  <2> QED
    BY <1>1, <1>4, <2>1, <2>2, <2>3, <2>4, ServerKeeps
<1>5. CASE Service!Run(r, d)
  <2>1. records[d].status # "Completed"
    BY <1>5 DEF Service!Run, Service!Runnable
  <2>2. holder' \in [Requests -> Requests \cup {Nothing}]
    BY <1>5 DEF Service!Run
  <2> HIDE DEF CommandInvariant
  <2> QED
    BY <1>1, <1>3, <1>5, <2>1, <2>2, AnswerTypes, RecordTypes, ServerKeeps
    DEF Service!Run, Service!Answer
<1>6. CASE Service!Replay(r, d)
  <2> DEFINE doc == records[d]
             reply == Service!Tell(doc.result)
  <2>1. doc.result \in Results /\ doc = Service!Completed(doc.result)
    BY <1>2, <1>6, CompletedRecord DEF Service!Replay
  <2>2. records' = [records EXCEPT ![d] = doc] /\ doc \in Service!Record
    BY <1>1, <1>6 DEF Service!Replay
  <2>3. /\ reply \in Service!Reply /\ reply.kind = "result" /\ reply.result = doc.result
        /\ server' = [server EXCEPT ![r] = reply]
    BY <1>6, <2>1, AnswerTypes DEF Service!Replay, Service!Answer
  <2>4. UNCHANGED <<idOf, holder>> /\ server[r].kind = "none"
    BY <1>3, <1>6 DEF Service!Replay
  <2>5. holder' \in [Requests -> Requests \cup {Nothing}] /\ records[d] = doc
    BY <2>4
  <2> HIDE DEF CommandInvariant, doc, reply
  <2> QED
    BY <1>1, <2>1, <2>2, <2>3, <2>4, <2>5, ServerKeeps
<1>7. ASSUME NEW result \in Results, Service!Complete(r, result) PROVE CommandInvariant'
  <2>1. /\ server[r].kind = "running" /\ records[d].status = "Pending"
        /\ records' = [records EXCEPT ![d] = Service!Completed(result)]
        /\ UNCHANGED <<idOf, holder>>
    BY <1>7 DEF Service!Complete
  <2>2. PICK reply \in {Service!Tell(result), Service!Say("failed")} :
          server' = [server EXCEPT ![r] = reply]
    BY <1>7 DEF Service!Complete, Service!Answer
  <2>3. /\ reply \in Service!Reply /\ reply.kind # "none"
        /\ reply.kind = "result" => reply.result = result
    BY <2>2, AnswerTypes
  <2>4. holder' \in [Requests -> Requests \cup {Nothing}]
    BY <2>1
  <2> HIDE DEF CommandInvariant
  <2> QED
    BY <1>1, <2>1, <2>2, <2>3, <2>4, RecordTypes, ServerKeeps
<1>8. CASE Service!Refuse(r, d) \/ Service!Busy(r, d) \/ Service!Fail(r)
  BY <1>3, <1>4, <1>8 DEF Service!Refuse, Service!Busy, Service!Fail
<1> QED
  BY <1>5, <1>6, <1>7, <1>8 DEF ServerStep

(* Ids are drawn by one call and serve one input, each but the retained    *)
(* one has been paid for by an outcome the user was told, and every answer *)
(* is what the record of its command says.                                 *)
THEOREM CommandInvariantHolds == CommandSpec => []CommandInvariant
<1>1. CommandInvariant /\ [CommandNext]_commandVars => CommandInvariant'
  <2> SUFFICES ASSUME CommandInvariant, [CommandNext]_commandVars
               PROVE  CommandInvariant'
    OBVIOUS
  <2>1. CASE UNCHANGED commandVars
    BY <2>1 DEF commandVars, CommandInvariant, CommandTypes, Service!ServiceTypes,
      IdsAreDrawn, IdsAreEarned, AnswersAreRecorded, IdsOf, Sent
  <2> QED
    BY <2>1, BrowserStepKeeps, ServerStepKeeps DEF CommandNext
<1> QED
  BY <1>1, CommandInitially, PTL DEF CommandSpec

(* However many forms, repetitions, broken connections and concurrent      *)
(* executions there are: a command takes effect at most once more than its *)
(* user was told an outcome or left the form.                              *)
THEOREM EffectsAreTold == CommandSpec => []NoDuplicateUntilTold
<1>1. CommandInvariant => NoDuplicateUntilTold
  <2> SUFFICES ASSUME CommandInvariant, NEW i \in Inputs
               PROVE  Cardinality(Effects(i)) <= told[i] + 1
    BY DEF NoDuplicateUntilTold
  <2>1. Effects(i) \in SUBSET IdsOf(i) /\ IdsOf(i) \in SUBSET Requests
    BY DEF Effects, IdsOf
  <2>2. /\ Cardinality(Effects(i)) <= Cardinality(IdsOf(i))
        /\ Cardinality(Effects(i)) \in Nat /\ Cardinality(IdsOf(i)) \in Nat
    BY <2>1, IdsAreFinite, FS_Subset
  <2>3. Cardinality(IdsOf(i)) <= told[i] + 1 /\ told[i] \in Nat
    BY <2>2 DEF CommandInvariant, CommandTypes, IdsAreEarned
  <2> QED
    BY <2>2, <2>3
<1> QED
  BY <1>1, CommandInvariantHolds, PTL

=============================================================================
