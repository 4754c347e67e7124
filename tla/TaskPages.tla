------------------------------- MODULE TaskPages -------------------------------
(***************************************************************************)
(* Listing tasks page by page: list-tasks (its feature.ts) and TaskList of *)
(* mongo-task-capabilities.ts, over the collection that Tasks changes.     *)
(* Listing writes nothing, so its definitions are operators on the stored  *)
(* tasks.  A cursor is the position of the last task of a page; it stays   *)
(* valid when that task is deleted.                                        *)
(***************************************************************************)
EXTENDS Tasks, FiniteSets

CONSTANT MaxLimit  \* bound: the page sizes that are asked for (100)

Cursor == [createdAt : Nat, id : Nat]

ASSUME PagesAssumption ==
  /\ Ids \subseteq Nat /\ IsFiniteSet(Ids)
  /\ MaxLimit \in Nat \ {0}
  /\ None \notin Cursor

Position(i) == [createdAt |-> tasks[i].createdAt, id |-> i]

(* sort({ createdAt: -1, id: -1 }) *)
ListedBefore(p, q) ==
  \/ p.createdAt > q.createdAt
  \/ p.createdAt = q.createdAt /\ p.id > q.id

(* Bug: the filter compares the times alone. *)
BeyondTime(cursor, p) == cursor = None \/ p.createdAt < cursor.createdAt

(* The $or of the filter; no cursor is the beginning. *)
Beyond(cursor, p) ==
  \/ cursor = None
  \/ p.createdAt < cursor.createdAt
  \/ p.createdAt = cursor.createdAt /\ p.id < cursor.id

(* The filter: tenant, status (None for any) and cursor. *)
Found(tenant, status, cursor) ==
  {i \in Ids : /\ tasks[i] # None
               /\ tasks[i].tenant = tenant
               /\ status = None \/ tasks[i].status = status
               /\ Beyond(cursor, Position(i))}

FirstOf(S, n) ==
  {i \in S : Cardinality({j \in S : ListedBefore(Position(j), Position(i))}) < n}

(* TaskList: one task more than the page is read, to see whether there is  *)
(* another page.                                                           *)
TaskList(tenant, status, cursor, limit) ==
  LET read1 == FirstOf(Found(tenant, status, cursor), limit + 1)
      selected == FirstOf(read1, limit)
      last == CHOOSE i \in selected : \A j \in selected : i = j \/ ListedBefore(Position(j), Position(i))
  IN  [tasks |-> selected,
       nextCursor |-> IF Cardinality(read1) > limit THEN Position(last) ELSE None]

(* What a client that follows nextCursor has after previous. *)
NextPage(tenant, status, limit, previous) ==
  IF previous.nextCursor = None THEN [tasks |-> {}, nextCursor |-> None]
  ELSE TaskList(tenant, status, previous.nextCursor, limit)

(* It follows nextCursor to the end: page 0 is the first. *)
Pages(tenant, status, cursor, limit) ==
  LET page[n \in Nat] ==
        IF n = 0 THEN TaskList(tenant, status, cursor, limit)
        ELSE NextPage(tenant, status, limit, page[n - 1])
  IN  [n \in 0..Cardinality(Ids) |-> page[n]]

(* From the beginning or any position, also one that has no task any more  *)
(* or has never had one, the pages hold every task beyond it that matches, *)
(* once and in order, whatever the page size and however many tasks were   *)
(* created at one time: what is created or deleted between two pages does  *)
(* not hide or repeat the others.                                          *)
PagesAreComplete ==
  (\A c \in Commands : stage[c] \in {"new", "done"}) =>
    \A tenant \in Tenants, status \in {None, "Todo", "Completed"}, limit \in 1..MaxLimit,
       start \in {None} \cup [createdAt : 0..now, id : Ids] :
      LET pages == Pages(tenant, status, start, limit) IN
      /\ UNION {pages[n].tasks : n \in DOMAIN pages} = Found(tenant, status, start)
      /\ \A m, n \in DOMAIN pages : m < n =>
           \A i \in pages[m].tasks, j \in pages[n].tasks :
             ListedBefore(Position(i), Position(j))

(* A task keeps its place in the list as long as it is stored, and the     *)
(* place of a deleted task is never taken again: a cursor means the same   *)
(* at the next page, and a task that stays is on exactly one page.         *)
PlacesStay ==
  [][\A i \in Ids : HistoryOf(i) # {} =>
       tasks'[i] = None \/ (tasks[i] # None /\ Position(i)' = Position(i))]_vars

=============================================================================
