---------------------------- MODULE EventStream -----------------------------
(***************************************************************************)
(* Live delivery of domain events to a browser: the server-sent event      *)
(* endpoint (core/backend/events/event-stream.ts), the reader of its       *)
(* stream (core/frontend/events/event-stream.ts) and the loop that         *)
(* reconnects it (core/frontend/events/FrontendEventProvider.tsx).         *)
(*                                                                         *)
(* The endpoint polls the outbox for the tenant's events beyond a cursor   *)
(* and writes each with the cursor that follows it.  The reader keeps the  *)
(* last cursor it got and sends it when it connects again.  A cursor is a  *)
(* time and the events already seen at that time; an event carries the     *)
(* time its feature raised it, which may be long before its transaction    *)
(* commits.                                                                *)
(*                                                                         *)
(* One mounted provider is modelled, with the events of its own tenant     *)
(* (the query of readAfter selects them); a reloaded page is another       *)
(* provider.                                                               *)
(***************************************************************************)
EXTENDS Naturals, Sequences, FiniteSets

CONSTANTS
  Events,            \* event ids, in the order MongoDB sorts them
  eventBatchSize,    \* the limit of one poll
  maxCursorEventIds, \* the longest cursor decodeCursor accepts
  ReconnectDelay,    \* clock ticks from a disconnect to the next connection
  MaxTime,           \* bound: when the clock stops, once nothing waits for it
  MaxInterruptions,  \* bound: how often the stream breaks
  None

ASSUME ConstantsAssumption ==
  /\ Events \subseteq Nat
  /\ eventBatchSize \in Nat \ {0}
  /\ maxCursorEventIds \in Nat
  /\ ReconnectDelay \in Nat \ {0}
  /\ MaxTime \in Nat
  /\ MaxInterruptions \in Nat

VARIABLES
  occurredAt,    \* occurredAt[e]: when the feature raised e
  committed,     \* the events the outbox holds
  now,           \* the clock
  stream,        \* the connection: "off" or "open"
  reconnectAt,   \* when the provider connects again
  cursor,        \* the server's position
  batch,         \* events read by the poll and not yet written
  wire,          \* frames written, or received and not yet parsed
  lastEventId,   \* the provider's last cursor
  handling,      \* the event the consumers are working on
  received,      \* the events the consumers have handled, in that order
  dropped,       \* the events whose consumer failed
  excused,       \* history: the events no reader could have been sent
  since,         \* history: when a stream last began without a cursor
  interruptions  \* how often the stream broke so far

serverVars == <<cursor, batch>>
eventVars == <<occurredAt, committed, now>>
readerVars == <<lastEventId, handling, received, dropped>>
vars == <<eventVars, stream, reconnectAt, serverVars, wire, readerVars,
          excused, since, interruptions>>

-----------------------------------------------------------------------------
(* Data *)

ASSUME NoneAssumption == None \notin Nat

Cursor == [occurredAt : Nat, seenEventIds : SUBSET Events]

ASSUME NoCursorAssumption == None \notin Cursor

(* A frame with an event, or the "ready" frame of a connection. *)
Frame == [cursor : Cursor, event : committed \cup {None}]

TypeOK ==
  /\ occurredAt \in [Events -> Nat \cup {None}]
  /\ committed \subseteq Events /\ IsFiniteSet(committed)
  /\ \A e \in committed : occurredAt[e] # None
  /\ now \in Nat
  /\ stream \in {"off", "open"}
  /\ reconnectAt \in Nat
  /\ cursor \in Cursor
  /\ batch \subseteq committed
  /\ wire \in Seq(Frame)
  /\ lastEventId \in Cursor \cup {None}
  /\ handling \in committed \cup {None}
  /\ received \in Seq(committed)
  /\ dropped \subseteq committed
  /\ excused \subseteq Events
  /\ since \in Nat \cup {None}
  /\ interruptions \in Nat

-----------------------------------------------------------------------------
(* Cursors *)

(* The frames a reader has still to parse end at this cursor: it is where  *)
(* the stream goes on from.                                                *)
CursorAfter(n) == IF n = 0 THEN lastEventId ELSE wire[n].cursor
Position == CursorAfter(Len(wire))

(* What the filter of readAfter leaves out: earlier events, and those seen *)
(* at the time of the cursor.                                              *)
Covers(c, e) ==
  \/ occurredAt[e] < c.occurredAt
  \/ occurredAt[e] = c.occurredAt /\ e \in c.seenEventIds

(* Bug: an event of the cursor's own time is taken for seen. *)
FreshIsLater(c) == {e \in committed : occurredAt[e] > c.occurredAt}
Fresh(c) == {e \in committed : ~Covers(c, e)}

(* .sort({ "event.occurredAt": 1, "event.eventId": 1 }) *)
Precedes(d, e) ==
  \/ occurredAt[d] < occurredAt[e]
  \/ occurredAt[d] = occurredAt[e] /\ d < e

(* .limit(limit): S is what one poll beyond c reads. *)
IsBatch(S, c) ==
  /\ S \subseteq Fresh(c)
  /\ \A d \in S, e \in Fresh(c) \ S : Precedes(d, e)
  /\ \/ S = Fresh(c) /\ Cardinality(S) <= eventBatchSize
     \/ Cardinality(S) = eventBatchSize

advanceCursor(c, e) ==
  [occurredAt |-> occurredAt[e],
   seenEventIds |-> IF occurredAt[e] = c.occurredAt
                      THEN c.seenEventIds \cup {e} ELSE {e}]

(* Bug: a cursor of exactly the longest length is refused. *)
DecodableBelow(c) ==
  c # None /\ Cardinality(c.seenEventIds) < maxCursorEventIds

(* decodeCursor returns what Last-Event-ID carries, or nothing. *)
Decodable(c) == c # None /\ Cardinality(c.seenEventIds) <= maxCursorEventIds

Init ==
  /\ occurredAt = [e \in Events |-> None]
  /\ committed = {}
  /\ now = 0
  /\ stream = "off"
  /\ reconnectAt = 0
  /\ cursor = [occurredAt |-> 0, seenEventIds |-> {}]
  /\ batch = {}
  /\ wire = <<>>
  /\ lastEventId = None
  /\ handling = None
  /\ received = <<>>
  /\ dropped = {}
  /\ excused = {}
  /\ since = None
  /\ interruptions = 0

-----------------------------------------------------------------------------
(* The features and the clock *)

(* DomainEventEmit stamps the event and inserts it in the transaction.     *)
DomainEventEmit(e) ==
  /\ occurredAt[e] = None
  /\ occurredAt' = [occurredAt EXCEPT ![e] = now]
  /\ UNCHANGED <<committed, now, stream, reconnectAt, serverVars, wire,
                 readerVars, excused, since, interruptions>>

(* The stream is already past e, or will be once the batch is written.     *)
PassedOver(e) ==
  \/ Position # None /\ Covers(Position, e)
  \/ \E d \in batch : occurredAt[e] < occurredAt[d]

(* The transaction commits (or never does).                                *)
CommitEvent(e) ==
  /\ occurredAt[e] # None /\ e \notin committed
  /\ committed' = committed \cup {e}
  /\ excused' = IF PassedOver(e) THEN excused \cup {e} ELSE excused
  /\ UNCHANGED <<occurredAt, now, stream, reconnectAt, serverVars, wire,
                 readerVars, since, interruptions>>

Tick ==
  /\ now < MaxTime \/ now < reconnectAt
  /\ now' = now + 1
  /\ UNCHANGED <<occurredAt, committed, stream, reconnectAt, serverVars, wire,
                 readerVars, excused, since, interruptions>>

-----------------------------------------------------------------------------
(* The server *)

(* A connection starts at the cursor it carries, or now, and answers with  *)
(* a "ready" frame.  Starting now gives up what was committed before, and  *)
(* is excused when there is no cursor or it is too long to be decoded.     *)
(* (A refused connection, 401, 403 or a network failure, only leaves the   *)
(* provider waiting.)                                                      *)
Connect ==
  /\ stream = "off" /\ wire = <<>> /\ handling = None
  /\ now >= reconnectAt
  /\ stream' = "open"
  /\ cursor' = IF Decodable(lastEventId) THEN lastEventId
               ELSE [occurredAt |-> now, seenEventIds |-> {}]
  /\ batch' = {}
  /\ wire' = <<[cursor |-> cursor', event |-> None]>>
  /\ excused' =
       IF lastEventId = None \/ ~(Cardinality(lastEventId.seenEventIds) <= maxCursorEventIds)
         THEN excused \cup {e \in committed : Covers(cursor', e)}
         ELSE excused
  /\ since' = IF Decodable(lastEventId) THEN since ELSE now
  /\ UNCHANGED <<eventVars, reconnectAt, readerVars, interruptions>>

(* readAfter: what is committed while the query is answered is not in it.  *)
Poll ==
  /\ stream = "open" /\ batch = {}
  /\ batch' \in SUBSET Fresh(cursor) \ {{}}
  /\ IsBatch(batch', cursor)
  /\ UNCHANGED <<eventVars, stream, reconnectAt, cursor, wire, readerVars,
                 excused, since, interruptions>>

(* Bug: the frame is written before the cursor advances. *)
WriteBeforeAdvance(e) ==
  /\ stream = "open" /\ e \in batch
  /\ \A d \in batch \ {e} : Precedes(e, d)
  /\ cursor' = advanceCursor(cursor, e)
  /\ wire' = Append(wire, [cursor |-> cursor, event |-> e])
  /\ batch' = batch \ {e}
  /\ UNCHANGED <<eventVars, stream, reconnectAt, readerVars, excused,
                 since, interruptions>>

(* One turn of the loop that writes a batch.  The program runs its turns   *)
(* without a pause; a reader may still get any number of the frames.       *)
WriteEvent(e) ==
  /\ stream = "open" /\ e \in batch
  /\ \A d \in batch \ {e} : Precedes(e, d)
  /\ cursor' = advanceCursor(cursor, e)
  /\ wire' = Append(wire, [cursor |-> cursor', event |-> e])
  /\ batch' = batch \ {e}
  /\ UNCHANGED <<eventVars, stream, reconnectAt, readerVars, excused,
                 since, interruptions>>

-----------------------------------------------------------------------------
(* The browser *)

(* The reader parses a frame: onCursor, then onEvent for a domain event.   *)
Receive ==
  /\ wire # <<>> /\ handling = None
  /\ wire' = Tail(wire)
  /\ lastEventId' = Head(wire).cursor
  /\ handling' = Head(wire).event
  /\ UNCHANGED <<eventVars, stream, reconnectAt, serverVars, received,
                 dropped, excused, since, interruptions>>

(* The consumers of the event are done. *)
Handle ==
  /\ handling # None
  /\ received' = Append(received, handling)
  /\ handling' = None
  /\ UNCHANGED <<eventVars, stream, reconnectAt, serverVars, wire,
                 lastEventId, dropped, excused, since, interruptions>>

Breaks(frames) ==
  /\ interruptions < MaxInterruptions
  /\ interruptions' = interruptions + 1
  /\ stream' = "off"
  /\ reconnectAt' = now + ReconnectDelay
  /\ batch' = {}
  /\ wire' = frames

(* A consumer rejects the event: the error leaves the reader with the      *)
(* frames it had buffered, and its connection is given up.                 *)
HandleFails ==
  /\ handling # None
  /\ Breaks(<<>>)
  /\ dropped' = dropped \cup {handling}
  /\ handling' = None
  /\ UNCHANGED <<eventVars, cursor, lastEventId, received, excused, since>>

(* The connection breaks, or the server ends it because a poll failed: the *)
(* reader still parses the frames that reached it.                         *)
Disconnect ==
  /\ stream = "open"
  /\ \E n \in 0..Len(wire) : Breaks(SubSeq(wire, 1, n))
  /\ UNCHANGED <<eventVars, cursor, readerVars, excused, since>>

-----------------------------------------------------------------------------

Next ==
  \/ \E e \in Events : DomainEventEmit(e) \/ CommitEvent(e) \/ WriteEvent(e)
  \/ Tick \/ Connect \/ Poll
  \/ Receive \/ Handle \/ HandleFails \/ Disconnect

Spec == Init /\ [][Next]_vars

(* The poll timer, the reader and its consumers run on, clocks run and a   *)
(* connection is accepted in the end.  Nothing makes a feature commit.     *)
Fairness ==
  /\ WF_vars(Connect) /\ WF_vars(Poll)
  /\ \A e \in Events : WF_vars(WriteEvent(e))
  /\ WF_vars(Receive) /\ WF_vars(Handle)
  /\ WF_vars(Tick)

FairSpec == Spec /\ Fairness

-----------------------------------------------------------------------------
(* Safety *)

Handled == {received[i] : i \in DOMAIN received}
Dispatched == Handled \cup dropped \cup ({handling} \ {None})

(* An event reaches the consumers at most once, however often the stream   *)
(* breaks and resumes: the cursor is taken over before the event is        *)
(* handled, and the events of its own millisecond are in it.               *)
NoEventTwice ==
  /\ \A i, j \in DOMAIN received : received[i] = received[j] => i = j
  /\ Handled \cap dropped = {}
  /\ handling \notin Handled \cup dropped

(* The consumers see the events in the order they were raised in: the sort *)
(* of readAfter, across polls and reconnects.                              *)
EventsInOrder ==
  \A i, j \in DOMAIN received :
    i < j => occurredAt[received[i]] <= occurredAt[received[j]]

(* The reader's cursor never runs ahead of what was handed to the          *)
(* consumers: an event behind it was dispatched, unless it committed when  *)
(* the stream was past it or before the stream began.                      *)
NothingSkipped ==
  lastEventId # None =>
    \A e \in committed \ excused : Covers(lastEventId, e) => e \in Dispatched

(* The provider's cursor only moves forward: nothing it covers becomes     *)
(* uncovered by a later frame, a reconnect or a cursor that was refused.   *)
CursorMovesForward ==
  [][lastEventId # None =>
       /\ lastEventId' # None
       /\ \A e \in committed : Covers(lastEventId, e) => Covers(lastEventId', e)]_vars

(* The reader's side of the stream is a feed of the tenant's events: what  *)
(* the consumers are given, what they may miss, and when it may begin      *)
(* anew.                                                                   *)
Feed == INSTANCE EventFeed WITH
  MaxTogether <- maxCursorEventIds, raisedAt <- occurredAt,
  subscribed <- (lastEventId # None), missed <- excused, shown <- Dispatched

(* Polls, frames, cursors and reconnects are steps of the feed, or do not  *)
(* touch it.                                                               *)
ImplementsFeed == Feed!Spec

-----------------------------------------------------------------------------
(* The inductive invariant: what the safety properties rest on. *)

AtOrBefore(c, d) ==
  \/ c.occurredAt < d.occurredAt
  \/ c.occurredAt = d.occurredAt /\ c.seenEventIds \subseteq d.seenEventIds

(* The events dispatched, or on the way in the first n frames. *)
Sent(n) == Dispatched \cup ({wire[i].event : i \in 1..n} \ {None})

(* Cursors advance along the wire up to the server's own, and all lie in   *)
(* the past, before the next connection.                                   *)
CursorsAdvance ==
  /\ stream = "open" => cursor = Position
  /\ \A m, n \in 0..Len(wire) :
       m <= n /\ CursorAfter(m) # None => AtOrBefore(CursorAfter(m), CursorAfter(n))
  /\ \A n \in 0..Len(wire) :
       CursorAfter(n) # None =>
         /\ CursorAfter(n).occurredAt <= now
         /\ stream = "off" => CursorAfter(n).occurredAt < reconnectAt
  /\ \A e \in Events : occurredAt[e] # None => occurredAt[e] <= now

(* Each cursor covers just what was sent up to it. *)
CoveredIsSent ==
  \A n \in 0..Len(wire) :
    CursorAfter(n) # None =>
      \A e \in committed \ excused : Covers(CursorAfter(n), e) => e \in Sent(n)

SentIsCovered ==
  /\ \A e \in Dispatched : lastEventId # None /\ Covers(lastEventId, e)
  /\ \A n \in 1..Len(wire) :
       LET e == wire[n].event
       IN  e # None =>
            /\ CursorAfter(n - 1) # None
            /\ ~Covers(CursorAfter(n - 1), e)
            /\ Covers(wire[n].cursor, e)

(* A cursor names events of its own time that were sent up to it, or none  *)
(* when a stream began with it.                                            *)
Founded(c, sent) ==
  /\ since # None
  /\ c.seenEventIds = {} => c.occurredAt = since
  /\ \A e \in c.seenEventIds : e \in sent /\ occurredAt[e] = c.occurredAt

CursorsAreFounded ==
  \A n \in 0..Len(wire) : CursorAfter(n) # None => Founded(CursorAfter(n), Sent(n))

(* A batch comes next, but for what commits while it is written. *)
BatchIsNext ==
  /\ stream = "off" => batch = {}
  /\ \A d \in batch :
       /\ ~Covers(cursor, d)
       /\ \A e \in committed \ (batch \cup excused) :
            ~Covers(cursor, e) => occurredAt[d] <= occurredAt[e]

(* The event being handled is the latest. *)
HandlingIsLatest ==
  handling # None =>
    \A i \in DOMAIN received : occurredAt[received[i]] <= occurredAt[handling]

InductiveInvariant ==
  /\ TypeOK
  /\ CursorsAdvance
  /\ CoveredIsSent
  /\ SentIsCovered
  /\ CursorsAreFounded
  /\ BatchIsNext
  /\ HandlingIsLatest
  /\ NoEventTwice
  /\ EventsInOrder

-----------------------------------------------------------------------------
(* Liveness *)

(* An event that commits in time while a provider is subscribed reaches    *)
(* its consumers, whatever breaks in between.                              *)
TimelyEventsArrive ==
  \A e \in Events :
    e \in committed /\ lastEventId # None ~> e \in Handled \cup dropped \cup excused

(* Every event raised and committed after the provider subscribed reaches  *)
(* its consumers.                                                          *)
CommittedEventsArrive ==
  \A e \in Events :
    [](lastEventId # None /\ occurredAt[e] = None =>
         [](e \in committed => <>(e \in Handled \cup dropped)))

=============================================================================
