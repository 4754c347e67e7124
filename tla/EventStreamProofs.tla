-------------------------- MODULE EventStreamProofs --------------------------
(***************************************************************************)
(* Proofs about EventStream: the inductive invariant, that no event        *)
(* reaches the consumers twice, out of order or after being skipped, and   *)
(* that the cursor of a provider only moves forward.                       *)
(***************************************************************************)
EXTENDS EventStream, FiniteSetTheorems, SequenceTheorems, TLAPS

-----------------------------------------------------------------------------
(* Cursors *)

LEMMA RaisedAt ==
  ASSUME TypeOK, NEW e \in committed
  PROVE  e \in Events /\ e # None /\ occurredAt[e] \in Nat
BY ConstantsAssumption, NoneAssumption DEF TypeOK

LEMMA CursorFits ==
  ASSUME TypeOK, NEW n \in 0..Len(wire)
  PROVE  /\ CursorAfter(n) # None => CursorAfter(n) \in Cursor
         /\ n # 0 => CursorAfter(n) \in Cursor
<1>1. CASE n = 0 BY <1>1 DEF TypeOK, CursorAfter
<1>2. CASE n # 0
  <2>1. n \in 1..Len(wire) BY <1>2, LenProperties DEF TypeOK
  <2>2. wire[n] \in Frame BY <2>1, ElementOfSeq DEF TypeOK
  <2> QED BY <1>2, <2>2 DEF CursorAfter, Frame
<1> QED BY <1>1, <1>2

(* A later cursor covers more. *)
LEMMA LaterCoversMore ==
  ASSUME NEW c \in Cursor, NEW d \in Cursor, AtOrBefore(c, d),
         NEW e, occurredAt[e] \in Nat, Covers(c, e)
  PROVE  Covers(d, e)
BY DEF AtOrBefore, Covers, Cursor

LEMMA AtOrBeforeTransitive ==
  ASSUME NEW b \in Cursor, NEW c \in Cursor, NEW d \in Cursor,
         AtOrBefore(b, c), AtOrBefore(c, d)
  PROVE  AtOrBefore(b, d)
BY DEF AtOrBefore, Cursor

(* Advancing over an event that is not covered covers it, and nothing else *)
(* but what lies before it.                                                *)
LEMMA AdvanceFits ==
  ASSUME NEW c \in Cursor, NEW e \in Events, occurredAt[e] \in Nat
  PROVE  LET d == advanceCursor(c, e)
         IN  /\ d \in Cursor
             /\ d.occurredAt = occurredAt[e]
             /\ Covers(d, e)
             /\ ~Covers(c, e) => AtOrBefore(c, d)
             /\ \A x : /\ occurredAt[x] \in Nat
                       /\ Covers(d, x) /\ ~Covers(c, x)
                       => x = e \/ occurredAt[x] < occurredAt[e]
<1> DEFINE s == IF occurredAt[e] = c.occurredAt THEN c.seenEventIds \cup {e} ELSE {e}
           d == advanceCursor(c, e)
<1>1. /\ s \in SUBSET Events
      /\ occurredAt[e] = c.occurredAt => s = c.seenEventIds \cup {e}
      /\ occurredAt[e] # c.occurredAt => s = {e}
  BY DEF Cursor
<1>2. d = [occurredAt |-> occurredAt[e], seenEventIds |-> s] BY DEF advanceCursor
<1> HIDE DEF s
<1>3. d \in Cursor /\ d.occurredAt = occurredAt[e] /\ d.seenEventIds = s
  BY <1>1, <1>2 DEF Cursor
<1> HIDE DEF d
<1>4. Covers(d, e) BY <1>1, <1>3 DEF Covers
<1>5. c.occurredAt \in Nat BY DEF Cursor
<1>6. ~Covers(c, e) => AtOrBefore(c, d)
  BY <1>1, <1>3, <1>5 DEF Covers, AtOrBefore
<1>7. ASSUME NEW x, occurredAt[x] \in Nat, Covers(d, x), ~Covers(c, x)
      PROVE  x = e \/ occurredAt[x] < occurredAt[e]
  BY <1>1, <1>3, <1>5, <1>7 DEF Covers
<1> QED BY <1>3, <1>4, <1>6, <1>7 DEF d

-----------------------------------------------------------------------------
(* Types *)

LEMMA TypingInit == Init => TypeOK
<1> SUFFICES ASSUME Init PROVE TypeOK OBVIOUS
<1>1. cursor \in Cursor BY DEF Init, Cursor
<1>2. wire \in Seq(Frame) /\ received \in Seq(committed)
  BY EmptySeq DEF Init
<1>3. IsFiniteSet(committed) BY FS_EmptySet DEF Init
<1> QED BY <1>1, <1>2, <1>3 DEF Init, TypeOK

(* What Connect starts from. *)
LEMMA StartFits ==
  ASSUME TypeOK, Connect
  PROVE  /\ cursor' \in Cursor
         /\ Decodable(lastEventId) => cursor' = lastEventId
         /\ ~Decodable(lastEventId) => cursor' = [occurredAt |-> now, seenEventIds |-> {}]
<1>1. Decodable(lastEventId) => lastEventId \in Cursor BY DEF TypeOK, Decodable
<1>2. [occurredAt |-> now, seenEventIds |-> {}] \in Cursor BY DEF TypeOK, Cursor
<1> QED BY <1>1, <1>2 DEF Connect

LEMMA TypingStep == TypeOK /\ [Next]_vars => TypeOK'
<1> SUFFICES ASSUME TypeOK, [Next]_vars PROVE TypeOK' OBVIOUS
<1>1. CASE \E e \in Events : DomainEventEmit(e)
  BY <1>1 DEF DomainEventEmit, TypeOK, Frame, serverVars, readerVars
<1>2. CASE \E e \in Events : CommitEvent(e)
  <2>1. received' \in Seq(committed')
    BY <1>2, SeqMonotonic DEF CommitEvent, TypeOK, readerVars
  <2>2. excused' \subseteq Events BY <1>2 DEF CommitEvent, TypeOK
  <2>3. Frame \subseteq Frame' BY <1>2 DEF CommitEvent, Frame
  <2>4. wire' \in Seq(Frame') BY <1>2, <2>3, SeqMonotonic DEF CommitEvent, TypeOK
  <2>5. IsFiniteSet(committed') BY <1>2, FS_AddElement DEF CommitEvent, TypeOK
  <2> QED BY <1>2, <2>1, <2>2, <2>4, <2>5 DEF CommitEvent, TypeOK, serverVars, readerVars
<1>3. CASE \E e \in Events : WriteEvent(e)
  <2>1. PICK e \in Events : WriteEvent(e) BY <1>3
  <2>2. e \in committed BY <2>1 DEF WriteEvent, TypeOK
  <2>3. cursor' \in Cursor BY <2>1, <2>2, RaisedAt, AdvanceFits DEF WriteEvent, TypeOK
  <2>4. [cursor |-> cursor', event |-> e] \in Frame BY <2>2, <2>3 DEF Frame
  <2>5. wire' \in Seq(Frame) BY <2>1, <2>4, AppendProperties DEF WriteEvent, TypeOK
  <2> QED BY <2>1, <2>3, <2>5 DEF WriteEvent, TypeOK, Frame, eventVars, readerVars
<1>4. CASE Tick BY <1>4 DEF Tick, TypeOK, Frame, serverVars, readerVars
<1>5. CASE Connect
  <2>1. cursor' \in Cursor BY <1>5, StartFits
  <2>2. [cursor |-> cursor', event |-> None] \in Frame BY <2>1 DEF Frame
  <2>3. wire' \in Seq(Frame) BY <1>5, <2>2, AppendProperties, EmptySeq DEF Connect
  <2>4. excused' \subseteq Events BY <1>5 DEF Connect, TypeOK
  <2> QED BY <1>5, <2>1, <2>3, <2>4 DEF Connect, TypeOK, Frame, eventVars, readerVars
<1>6. CASE Poll
  BY <1>6 DEF Poll, Fresh, TypeOK, Frame, eventVars, readerVars
<1>7. CASE Receive
  <2>1. Head(wire) \in Frame /\ wire' \in Seq(Frame)
    BY <1>7, HeadTailProperties DEF Receive, TypeOK
  <2>2. lastEventId' \in Cursor /\ handling' \in committed \cup {None}
    BY <1>7, <2>1 DEF Receive, Frame
  <2> QED BY <1>7, <2>1, <2>2 DEF Receive, TypeOK, Frame, eventVars, serverVars
<1>8. CASE Handle
  <2>1. received' \in Seq(committed) BY <1>8, AppendProperties DEF Handle, TypeOK
  <2> QED BY <1>8, <2>1 DEF Handle, TypeOK, Frame, eventVars, serverVars
<1>9. CASE HandleFails
  <2>1. wire' \in Seq(Frame) BY <1>9, EmptySeq DEF HandleFails, Breaks
  <2> QED BY <1>9, <2>1, ConstantsAssumption DEF HandleFails, Breaks, TypeOK, Frame, eventVars
<1>10. CASE Disconnect
  <2>1. PICK n \in 0..Len(wire) : Breaks(SubSeq(wire, 1, n)) BY <1>10 DEF Disconnect
  <2>2. \A i \in 1..n : wire[i] \in Frame
    BY ElementOfSeq, LenProperties DEF TypeOK
  <2>3. wire' \in Seq(Frame)
    BY <2>1, <2>2, SubSeqProperties DEF Breaks
  <2> QED BY <1>10, <2>1, <2>3, ConstantsAssumption
          DEF Disconnect, Breaks, TypeOK, Frame, eventVars, readerVars
<1>11. CASE UNCHANGED vars
  BY <1>11 DEF vars, TypeOK, Frame, eventVars, serverVars, readerVars
<1> QED BY <1>1, <1>2, <1>3, <1>4, <1>5, <1>6, <1>7, <1>8, <1>9, <1>10, <1>11 DEF Next

-----------------------------------------------------------------------------
(* The inductive invariant *)

LEMMA DispatchedFits ==
  ASSUME TypeOK
  PROVE  /\ \A i \in DOMAIN received : received[i] \in committed
         /\ \A e \in Dispatched : e \in committed
         /\ None \notin Dispatched
<1>1. \A i \in DOMAIN received : received[i] \in committed
  BY ElementOfSeq, LenProperties DEF TypeOK
<1>2. None \notin committed BY RaisedAt
<1> QED BY <1>1, <1>2 DEF Dispatched, Handled, TypeOK

LEMMA FrameFits ==
  ASSUME TypeOK
  PROVE  /\ Len(wire) \in Nat
         /\ \A n \in 1..Len(wire) : wire[n].cursor \in Cursor
         /\ \A n \in 1..Len(wire) : wire[n].event # None => wire[n].event \in committed
<1>1. Len(wire) \in Nat /\ wire \in [1..Len(wire) -> Frame] BY LenProperties DEF TypeOK
<1> QED BY <1>1 DEF Frame

(* What was sent has been committed. *)
LEMMA SentFits ==
  ASSUME TypeOK, NEW n \in 0..Len(wire)
  PROVE  \A e \in Sent(n) : e \in committed
BY FrameFits, DispatchedFits DEF Sent

LEMMA InvariantInit == Init => InductiveInvariant
<1> SUFFICES ASSUME Init PROVE InductiveInvariant OBVIOUS
<1>1. TypeOK BY TypingInit
<1>2. Len(wire) = 0 /\ wire = <<>> BY EmptySeq DEF Init
<1>3. \A n \in 0..Len(wire) : CursorAfter(n) = None
  BY <1>2 DEF Init, CursorAfter
<1>4. DOMAIN received = {} BY EmptySeq DEF Init
<1>5. Dispatched = {} /\ Handled = {} BY <1>4 DEF Init, Dispatched, Handled
<1>6. CursorsAdvance BY <1>3 DEF Init, CursorsAdvance
<1>7. CoveredIsSent BY <1>3 DEF CoveredIsSent
<1>8. SentIsCovered BY <1>2, <1>5 DEF SentIsCovered
<1>9. BatchIsNext /\ HandlingIsLatest /\ NoEventTwice /\ EventsInOrder
  BY <1>4, <1>5 DEF Init, BatchIsNext, HandlingIsLatest, NoEventTwice, EventsInOrder
<1>10. CursorsAreFounded BY <1>3 DEF CursorsAreFounded
<1> QED BY <1>1, <1>6, <1>7, <1>8, <1>9, <1>10 DEF InductiveInvariant

(* Raising an event stamps no committed event. *)
LEMMA EmitKeeps ==
  ASSUME InductiveInvariant, TypeOK', NEW e \in Events, DomainEventEmit(e)
  PROVE  InductiveInvariant'
<1> USE DEF InductiveInvariant
<1>1. /\ wire' = wire /\ lastEventId' = lastEventId /\ committed' = committed
      /\ excused' = excused /\ now' = now /\ stream' = stream /\ cursor' = cursor
      /\ reconnectAt' = reconnectAt /\ batch' = batch /\ handling' = handling
      /\ received' = received /\ dropped' = dropped /\ since' = since
  BY DEF DomainEventEmit, serverVars, readerVars
<1>2. \A x \in committed : occurredAt'[x] = occurredAt[x]
  BY RaisedAt DEF DomainEventEmit, TypeOK
<1>3. \A x \in Events : occurredAt'[x] # None => occurredAt'[x] <= now
  BY DEF DomainEventEmit, TypeOK, CursorsAdvance
<1>4. CursorsAdvance'
  BY <1>1, <1>3 DEF CursorsAdvance, CursorAfter, Position, AtOrBefore
<1>5. CoveredIsSent'
  BY <1>1, <1>2 DEF CoveredIsSent, CursorAfter, Covers, Sent, Dispatched, Handled
<1>6. SentIsCovered'
  BY <1>1, <1>2, FrameFits, DispatchedFits
  DEF SentIsCovered, CursorAfter, Covers, Dispatched, Handled
<1>7. BatchIsNext'
  BY <1>1, <1>2 DEF BatchIsNext, Covers, TypeOK
<1>8. HandlingIsLatest' /\ NoEventTwice' /\ EventsInOrder'
  BY <1>1, <1>2, DispatchedFits
  DEF HandlingIsLatest, NoEventTwice, EventsInOrder, Handled, TypeOK
<1>9. CursorsAreFounded'
  <2>1. \A n \in 0..Len(wire) : CursorAfter(n)' = CursorAfter(n) /\ Sent(n)' = Sent(n)
    BY <1>1 DEF CursorAfter, Sent, Dispatched, Handled
  <2> QED BY <1>1, <1>2, <2>1, SentFits DEF CursorsAreFounded, Founded
<1> QED BY <1>4, <1>5, <1>6, <1>7, <1>8, <1>9

(* An event that commits behind the stream is excused. *)
LEMMA CommitKeeps ==
  ASSUME InductiveInvariant, TypeOK', NEW e \in Events, CommitEvent(e)
  PROVE  InductiveInvariant'
<1> USE DEF InductiveInvariant
<1>1. /\ wire' = wire /\ lastEventId' = lastEventId /\ committed' = committed \cup {e}
      /\ occurredAt' = occurredAt /\ now' = now /\ stream' = stream /\ cursor' = cursor
      /\ reconnectAt' = reconnectAt /\ batch' = batch /\ handling' = handling
      /\ received' = received /\ dropped' = dropped /\ since' = since
  BY DEF CommitEvent, serverVars, readerVars
<1>2. /\ occurredAt[e] \in Nat /\ e \notin committed
      /\ excused \subseteq excused'
      /\ e \in excused' \/ ~PassedOver(e)
  BY DEF CommitEvent, TypeOK
<1>3. CursorsAdvance'
  BY <1>1 DEF CursorsAdvance, CursorAfter, Position, AtOrBefore
<1>4. ASSUME NEW n \in 0..Len(wire), CursorAfter(n) # None, Covers(CursorAfter(n), e)
      PROVE  PassedOver(e)
  <2>1. CursorAfter(n) \in Cursor BY <1>4, CursorFits
  <2>2. Len(wire) \in 0..Len(wire) BY FrameFits
  <2>3. Position \in Cursor
    BY <1>4, <2>1, <2>2, CursorFits, FrameFits DEF Position
  <2>4. AtOrBefore(CursorAfter(n), Position)
    BY <1>4, <2>2, FrameFits DEF CursorsAdvance, Position
  <2>5. Covers(Position, e) BY <1>2, <1>4, <2>1, <2>3, <2>4, LaterCoversMore
  <2> QED BY <2>3, <2>5, NoCursorAssumption DEF PassedOver
<1>5. CoveredIsSent'
  <2> SUFFICES ASSUME NEW n \in 0..Len(wire), CursorAfter(n) # None,
                      NEW x \in committed' \ excused', Covers(CursorAfter(n), x)
               PROVE  x \in Sent(n)
    BY <1>1 DEF CoveredIsSent, CursorAfter, Covers, Sent, Dispatched, Handled
  <2>1. x # e BY <1>2, <1>4
  <2> QED BY <1>1, <1>2, <2>1 DEF CoveredIsSent
<1>6. SentIsCovered'
  BY <1>1 DEF SentIsCovered, CursorAfter, Covers, Dispatched, Handled
<1>7. BatchIsNext'
  <2> SUFFICES ASSUME NEW d \in batch
               PROVE  /\ ~Covers(cursor, d)
                      /\ \A x \in committed' \ (batch \cup excused') :
                           ~Covers(cursor, x) => occurredAt[d] <= occurredAt[x]
    BY <1>1 DEF BatchIsNext, Covers
  <2>1. e \notin excused' => occurredAt[d] <= occurredAt[e]
    <3>1. d \in committed /\ occurredAt[d] \in Nat BY RaisedAt DEF TypeOK
    <3> QED BY <1>2, <3>1 DEF PassedOver
  <2> QED BY <1>1, <1>2, <2>1 DEF BatchIsNext
<1>8. HandlingIsLatest' /\ NoEventTwice' /\ EventsInOrder'
  BY <1>1 DEF HandlingIsLatest, NoEventTwice, EventsInOrder, Handled
<1>9. CursorsAreFounded'
  BY <1>1 DEF CursorsAreFounded, Founded, CursorAfter, Sent, Dispatched, Handled
<1> QED BY <1>3, <1>5, <1>6, <1>7, <1>8, <1>9

LEMMA TickKeeps ==
  ASSUME InductiveInvariant, TypeOK', Tick
  PROVE  InductiveInvariant'
<1> USE DEF InductiveInvariant
<1>1. /\ wire' = wire /\ lastEventId' = lastEventId /\ committed' = committed
      /\ occurredAt' = occurredAt /\ now' = now + 1 /\ stream' = stream /\ cursor' = cursor
      /\ reconnectAt' = reconnectAt /\ batch' = batch /\ handling' = handling
      /\ received' = received /\ dropped' = dropped /\ excused' = excused
      /\ since' = since
  BY DEF Tick, serverVars, readerVars
<1>2. CursorsAdvance'
  <2>1. \A n \in 0..Len(wire) : CursorAfter(n) # None => CursorAfter(n).occurredAt <= now + 1
    <3> SUFFICES ASSUME NEW n \in 0..Len(wire), CursorAfter(n) # None
                 PROVE  CursorAfter(n).occurredAt <= now + 1
      OBVIOUS
    <3>1. CursorAfter(n).occurredAt \in Nat BY CursorFits DEF Cursor
    <3> QED BY <3>1 DEF CursorsAdvance, TypeOK
  <2>2. \A e \in Events : occurredAt[e] # None => occurredAt[e] <= now + 1
    BY DEF CursorsAdvance, TypeOK
  <2>3. \A n \in 0..Len(wire) : CursorAfter(n)' = CursorAfter(n)
    BY <1>1 DEF CursorAfter
  <2>4. Position' = Position BY <1>1 DEF Position, CursorAfter
  <2> QED BY <1>1, <2>1, <2>2, <2>3, <2>4 DEF CursorsAdvance, AtOrBefore
<1>3. CoveredIsSent' /\ SentIsCovered' /\ CursorsAreFounded' /\ BatchIsNext'
  BY <1>1 DEF CoveredIsSent, SentIsCovered, CursorsAreFounded, Founded, BatchIsNext,
              CursorAfter, Covers, Sent, Dispatched, Handled
<1>4. HandlingIsLatest' /\ NoEventTwice' /\ EventsInOrder'
  BY <1>1 DEF HandlingIsLatest, NoEventTwice, EventsInOrder, Handled
<1> QED BY <1>2, <1>3, <1>4

(* A connection resumes at the cursor, or starts now and excuses the past. *)
LEMMA ConnectKeeps ==
  ASSUME InductiveInvariant, TypeOK', Connect
  PROVE  InductiveInvariant'
<1> USE DEF InductiveInvariant
<1>1. /\ wire = <<>> /\ handling = None /\ now >= reconnectAt /\ stream = "off"
      /\ wire' = <<[cursor |-> cursor', event |-> None]>>
      /\ stream' = "open" /\ batch' = {} /\ occurredAt' = occurredAt
      /\ committed' = committed /\ now' = now /\ reconnectAt' = reconnectAt
      /\ lastEventId' = lastEventId /\ handling' = handling /\ received' = received
      /\ dropped' = dropped /\ excused \subseteq excused'
      /\ ~Decodable(lastEventId) =>
           excused' = excused \cup {e \in committed : Covers(cursor', e)}
      /\ Decodable(lastEventId) => since' = since
      /\ ~Decodable(lastEventId) => since' = now
  BY DEF Connect, eventVars, readerVars, Decodable
<1>2. /\ cursor' \in Cursor
      /\ Decodable(lastEventId) => cursor' = lastEventId /\ lastEventId # None
      /\ ~Decodable(lastEventId) => cursor' = [occurredAt |-> now, seenEventIds |-> {}]
  <2>1. Decodable(lastEventId) => lastEventId # None BY DEF Decodable
  <2> QED BY <2>1, StartFits
<1>3. /\ Len(wire) = 0 /\ Len(wire') = 1
      /\ wire'[1].cursor = cursor' /\ wire'[1].event = None
  BY <1>1
<1>4. /\ CursorAfter(0) = lastEventId /\ CursorAfter(0)' = lastEventId
      /\ CursorAfter(1)' = cursor' /\ Position' = cursor'
  BY <1>1, <1>3 DEF CursorAfter, Position
<1>5. lastEventId # None =>
        /\ lastEventId \in Cursor
        /\ lastEventId.occurredAt <= now /\ lastEventId.occurredAt < reconnectAt
        /\ AtOrBefore(lastEventId, lastEventId)
  BY <1>1, <1>3, <1>4 DEF TypeOK, CursorsAdvance
<1>6. cursor'.occurredAt <= now
  BY <1>2, <1>5 DEF TypeOK
<1>7. lastEventId # None => AtOrBefore(lastEventId, cursor')
  <2>1. CASE Decodable(lastEventId) BY <1>2, <1>5, <2>1
  <2>2. CASE ~Decodable(lastEventId)
    BY <1>1, <1>2, <1>5, <2>2 DEF AtOrBefore, Cursor, TypeOK
  <2> QED BY <2>1, <2>2
<1>8. \A n \in 0..Len(wire') : n = 0 \/ n = 1 BY <1>3
<1>9. CursorsAdvance'
  <2>1. AtOrBefore(cursor', cursor') BY DEF AtOrBefore
  <2>2. ASSUME NEW m \in 0..Len(wire'), NEW n \in 0..Len(wire'), m <= n, CursorAfter(m)' # None
        PROVE  AtOrBefore(CursorAfter(m)', CursorAfter(n)')
    <3>1. CASE m = 0 /\ n = 0 BY <1>4, <1>5, <2>2, <3>1
    <3>2. CASE m = 0 /\ n = 1 BY <1>4, <1>7, <2>2, <3>2
    <3>3. CASE m = 1 /\ n = 1 BY <1>4, <2>1, <3>3
    <3> QED BY <1>8, <2>2, <3>1, <3>2, <3>3
  <2>3. ASSUME NEW n \in 0..Len(wire'), CursorAfter(n)' # None
        PROVE  CursorAfter(n)'.occurredAt <= now
    BY <1>4, <1>5, <1>6, <1>8, <2>3
  <2>4. (\A e \in Events : occurredAt[e] # None => occurredAt[e] <= now)'
    BY <1>1 DEF CursorsAdvance
  <2> QED BY <1>1, <1>4, <2>2, <2>3, <2>4 DEF CursorsAdvance, AtOrBefore
<1>10. CoveredIsSent'
  <2> SUFFICES ASSUME NEW n \in 0..Len(wire'), CursorAfter(n)' # None,
                      NEW e \in committed \ excused', Covers(CursorAfter(n)', e)
               PROVE  e \in Dispatched
    BY <1>1 DEF CoveredIsSent, Covers, Sent, Dispatched, Handled
  <2>1. lastEventId # None /\ Covers(lastEventId, e) => e \in Dispatched
    <3>1. Sent(0) = Dispatched BY DEF Sent
    <3> QED BY <1>1, <1>3, <1>4, <3>1 DEF CoveredIsSent
  <2>2. CASE n = 0 BY <1>4, <2>1, <2>2
  <2>3. CASE n = 1 /\ Decodable(lastEventId) BY <1>2, <1>4, <2>1, <2>3
  <2>4. CASE n = 1 /\ ~Decodable(lastEventId) BY <1>1, <1>4, <2>4
  <2> QED BY <1>8, <2>2, <2>3, <2>4
<1>11. SentIsCovered'
  BY <1>1, <1>3 DEF SentIsCovered, Covers, Dispatched, Handled
<1>12. BatchIsNext' BY <1>1 DEF BatchIsNext
<1>13. HandlingIsLatest' /\ NoEventTwice' /\ EventsInOrder'
  BY <1>1 DEF HandlingIsLatest, NoEventTwice, EventsInOrder, Handled
<1>14. CursorsAreFounded'
  <2>1. Dispatched' = Dispatched /\ Sent(0) = Dispatched /\ Sent(0)' = Dispatched
    BY <1>1 DEF Dispatched, Handled, Sent
  <2>2. Dispatched \subseteq Sent(1)' BY <2>1 DEF Sent
  <2>3. lastEventId # None => Founded(lastEventId, Dispatched)
    BY <1>3, <1>4, <2>1 DEF CursorsAreFounded
  <2>4. CASE Decodable(lastEventId)
    <3>1. Founded(lastEventId, Dispatched)' /\ Founded(cursor, Sent(1))'
      BY <1>1, <1>2, <2>1, <2>2, <2>3, <2>4 DEF Founded
    <3> QED BY <1>1, <1>4, <1>8, <2>1, <3>1 DEF CursorsAreFounded
  <2>5. CASE ~Decodable(lastEventId)
    <3>1. lastEventId # None => lastEventId.seenEventIds # {}
      BY <2>5, FS_EmptySet, ConstantsAssumption DEF Decodable
    <3>2. now \in Nat /\ now # None BY NoneAssumption DEF TypeOK
    <3>3. lastEventId # None => Founded(lastEventId, Dispatched)'
      BY <1>1, <2>1, <2>3, <2>5, <3>1, <3>2 DEF Founded
    <3>4. Founded(cursor, Sent(1))' BY <1>1, <1>2, <2>5, <3>2 DEF Founded
    <3> QED BY <1>1, <1>4, <1>8, <2>1, <3>3, <3>4 DEF CursorsAreFounded
  <2> QED BY <2>4, <2>5
<1> QED BY <1>9, <1>10, <1>11, <1>12, <1>13, <1>14

(* A poll reads the next events. *)
LEMMA PollKeeps ==
  ASSUME InductiveInvariant, TypeOK', Poll
  PROVE  InductiveInvariant'
<1> USE DEF InductiveInvariant
<1>1. /\ wire' = wire /\ lastEventId' = lastEventId /\ committed' = committed
      /\ occurredAt' = occurredAt /\ now' = now /\ stream' = stream /\ cursor' = cursor
      /\ reconnectAt' = reconnectAt /\ handling' = handling /\ stream = "open"
      /\ received' = received /\ dropped' = dropped /\ excused' = excused
      /\ since' = since /\ batch' \subseteq Fresh(cursor)
      /\ \A d \in batch', e \in Fresh(cursor) \ batch' : Precedes(d, e)
  BY DEF Poll, IsBatch, eventVars, readerVars
<1>2. CursorsAdvance'
  BY <1>1 DEF CursorsAdvance, CursorAfter, Position, AtOrBefore
<1>3. CoveredIsSent' /\ SentIsCovered' /\ CursorsAreFounded'
  BY <1>1 DEF CoveredIsSent, SentIsCovered, CursorsAreFounded, Founded, CursorAfter, Covers,
              Sent, Dispatched, Handled
<1>4. BatchIsNext'
  <2> SUFFICES ASSUME NEW d \in batch'
               PROVE  /\ ~Covers(cursor, d)
                      /\ \A e \in committed \ batch' :
                           ~Covers(cursor, e) => occurredAt[d] <= occurredAt[e]
    BY <1>1 DEF BatchIsNext, Covers
  <2>1. d \in committed /\ ~Covers(cursor, d) BY <1>1 DEF Fresh
  <2>2. ASSUME NEW e \in committed \ batch', ~Covers(cursor, e)
        PROVE  occurredAt[d] <= occurredAt[e]
    <3>1. Precedes(d, e) BY <1>1, <2>2 DEF Fresh
    <3> QED BY <2>1, <3>1, RaisedAt DEF Precedes
  <2> QED BY <2>1, <2>2
<1>5. HandlingIsLatest' /\ NoEventTwice' /\ EventsInOrder'
  BY <1>1 DEF HandlingIsLatest, NoEventTwice, EventsInOrder, Handled
<1> QED BY <1>2, <1>3, <1>4, <1>5

(* Writing an event puts just that event behind the cursor. *)
LEMMA WriteKeeps ==
  ASSUME InductiveInvariant, TypeOK', NEW e \in Events, WriteEvent(e)
  PROVE  InductiveInvariant'
<1> USE DEF InductiveInvariant
<1>0. PICK L \in Nat : L = Len(wire) BY FrameFits
<1>1. /\ lastEventId' = lastEventId /\ committed' = committed /\ stream = "open"
      /\ occurredAt' = occurredAt /\ now' = now /\ stream' = stream
      /\ reconnectAt' = reconnectAt /\ handling' = handling /\ e \in batch
      /\ received' = received /\ dropped' = dropped /\ excused' = excused
      /\ since' = since /\ batch' = batch \ {e} /\ \A d \in batch' : Precedes(e, d)
      /\ cursor' = advanceCursor(cursor, e)
  BY DEF WriteEvent, eventVars, readerVars
<1>2. e \in committed /\ occurredAt[e] \in Nat /\ ~Covers(cursor, e) /\ e # None
  BY <1>1, RaisedAt DEF BatchIsNext, TypeOK
<1>3. cursor \in Cursor BY DEF TypeOK
<1>4. /\ cursor' \in Cursor /\ AtOrBefore(cursor, cursor') /\ Covers(cursor', e)
      /\ cursor'.occurredAt = occurredAt[e]
      /\ \A x \in committed : Covers(cursor', x) /\ ~Covers(cursor, x)
                              => x = e \/ occurredAt[x] < occurredAt[e]
  BY <1>1, <1>2, <1>3, AdvanceFits, RaisedAt
<1>5. /\ L \in Nat /\ Len(wire') = L + 1
      /\ \A n \in 1..L : wire'[n] = wire[n]
      /\ wire'[L + 1].cursor = cursor' /\ wire'[L + 1].event = e
  <2>1. [cursor |-> cursor', event |-> e] \in Frame BY <1>2, <1>4 DEF Frame
  <2> QED BY <1>0, <2>1, AppendProperties, FrameFits DEF WriteEvent, TypeOK
<1>6. /\ \A n \in 0..L : CursorAfter(n)' = CursorAfter(n)
      /\ CursorAfter(L + 1)' = cursor' /\ Position' = cursor' /\ CursorAfter(L) = cursor
  BY <1>0, <1>1, <1>5 DEF CursorAfter, Position, CursorsAdvance
<1>7. \A n \in 0..Len(wire') : n \in 0..L \/ n = L + 1 BY <1>5
<1>8. CursorsAdvance'
  <2>1. ASSUME NEW m \in 0..Len(wire'), NEW n \in 0..Len(wire'), m <= n, CursorAfter(m)' # None
        PROVE  AtOrBefore(CursorAfter(m)', CursorAfter(n)')
    <3>1. CASE n \in 0..L
      <4>1. m \in 0..L BY <1>5, <1>7, <2>1, <3>1
      <4> QED BY <1>0, <1>6, <2>1, <3>1, <4>1 DEF CursorsAdvance
    <3>2. CASE n = L + 1 /\ m \in 0..L
      <4>1. CursorAfter(m) # None /\ CursorAfter(m) \in Cursor
        BY <1>0, <1>6, <2>1, <3>2, CursorFits
      <4>2. AtOrBefore(CursorAfter(m), cursor)
        BY <1>0, <1>5, <1>6, <3>2, <4>1 DEF CursorsAdvance
      <4> QED BY <1>3, <1>4, <1>6, <3>2, <4>1, <4>2, AtOrBeforeTransitive
    <3>3. CASE n = L + 1 /\ m = L + 1
      BY <1>6, <3>3 DEF AtOrBefore
    <3> QED BY <1>7, <3>1, <3>2, <3>3
  <2>2. occurredAt[e] <= now BY <1>2, NoneAssumption DEF CursorsAdvance
  <2>3. ASSUME NEW n \in 0..Len(wire'), CursorAfter(n)' # None
        PROVE  CursorAfter(n)'.occurredAt <= now
    <3>1. CASE n \in 0..L BY <1>0, <1>6, <2>3, <3>1 DEF CursorsAdvance
    <3>2. CASE n = L + 1 BY <1>4, <1>6, <2>2, <3>2
    <3> QED BY <1>7, <3>1, <3>2
  <2>4. (\A x \in Events : occurredAt[x] # None => occurredAt[x] <= now)'
    BY <1>1 DEF CursorsAdvance
  <2> QED BY <1>1, <1>6, <2>1, <2>3, <2>4 DEF CursorsAdvance, AtOrBefore
<1>9. /\ \A n \in 0..L : Sent(n)' = Sent(n)
      /\ Sent(L + 1)' = Sent(L) \cup {e}
      /\ Dispatched' = Dispatched /\ Handled' = Handled
  <2>1. Dispatched' = Dispatched /\ Handled' = Handled
    BY <1>1 DEF Dispatched, Handled
  <2>2. \A n \in 0..L : Sent(n)' = Sent(n)
    BY <1>5, <2>1 DEF Sent
  <2>3. {wire'[i].event : i \in 1..(L + 1)} = {wire[i].event : i \in 1..L} \cup {e}
    <3>1. \A i \in 1..(L + 1) : i \in 1..L \/ i = L + 1 BY <1>5
    <3>2. \A i \in 1..L : i \in 1..(L + 1) BY <1>5
    <3>3. L + 1 \in 1..(L + 1) BY <1>5
    <3> QED BY <1>5, <3>1, <3>2, <3>3
  <2> QED BY <1>2, <2>1, <2>2, <2>3 DEF Sent
<1>10. CoveredIsSent'
  <2> SUFFICES ASSUME NEW n \in 0..Len(wire'), CursorAfter(n)' # None,
                      NEW x \in committed \ excused, Covers(CursorAfter(n)', x)
               PROVE  x \in Sent(n)'
    BY <1>1 DEF CoveredIsSent, Covers
  <2>1. CASE n \in 0..L BY <1>0, <1>6, <1>9, <2>1 DEF CoveredIsSent
  <2>2. CASE n = L + 1
    <3>1. CASE Covers(cursor, x)
      <4>1. x \in Sent(L)
        BY <1>0, <1>3, <1>5, <1>6, <3>1, NoCursorAssumption DEF CoveredIsSent
      <4> QED BY <1>9, <2>2, <4>1
    <3>2. CASE ~Covers(cursor, x)
      <4>1. x = e \/ occurredAt[x] < occurredAt[e] BY <1>4, <1>6, <2>2, <3>2
      <4>2. occurredAt[x] \in Nat BY RaisedAt
      <4>3. ASSUME x # e, x \in batch PROVE FALSE
        BY <1>1, <1>2, <4>1, <4>2, <4>3 DEF Precedes
      <4>4. ASSUME x # e, x \notin batch PROVE FALSE
        BY <1>1, <1>2, <3>2, <4>1, <4>2, <4>4 DEF BatchIsNext
      <4> QED BY <1>9, <2>2, <4>3, <4>4
    <3> QED BY <3>1, <3>2
  <2> QED BY <1>7, <2>1, <2>2
<1>11. SentIsCovered'
  <2>1. \A x \in Dispatched : lastEventId # None /\ Covers(lastEventId, x)
    BY DEF SentIsCovered
  <2>2. ASSUME NEW n \in 1..Len(wire'), wire'[n].event # None
        PROVE  /\ CursorAfter(n - 1)' # None
               /\ ~Covers(CursorAfter(n - 1)', wire'[n].event)
               /\ Covers(wire'[n].cursor, wire'[n].event)
    <3>1. CASE n \in 1..L
      <4>1. n - 1 \in 0..L BY <1>5, <3>1
      <4> QED BY <1>0, <1>5, <1>6, <2>2, <3>1, <4>1 DEF SentIsCovered
    <3>2. CASE n = L + 1
      <4>1. n - 1 = L /\ L \in 0..L BY <1>5, <3>2
      <4> QED BY <1>2, <1>3, <1>4, <1>5, <1>6, <3>2, <4>1, NoCursorAssumption
    <3> QED BY <1>5, <3>1, <3>2
  <2> QED BY <1>1, <1>9, <2>1, <2>2 DEF SentIsCovered, Covers
<1>12. BatchIsNext'
  <2> SUFFICES ASSUME NEW d \in batch'
               PROVE  /\ ~Covers(cursor', d)
                      /\ \A x \in committed \ (batch' \cup excused) :
                           ~Covers(cursor', x) => occurredAt[d] <= occurredAt[x]
    BY <1>1 DEF BatchIsNext, Covers
  <2>1. /\ d \in committed /\ d # e /\ ~Covers(cursor, d) /\ occurredAt[d] \in Nat
        /\ Precedes(e, d)
    BY <1>1, RaisedAt DEF BatchIsNext, TypeOK
  <2>2. ~Covers(cursor', d) BY <1>2, <1>4, <2>1 DEF Precedes
  <2>3. ASSUME NEW x \in committed \ (batch' \cup excused), ~Covers(cursor', x)
        PROVE  occurredAt[d] <= occurredAt[x]
    <3>1. ~Covers(cursor, x) BY <1>3, <1>4, <2>3, LaterCoversMore, RaisedAt
    <3>2. x # e BY <1>4, <2>3
    <3> QED BY <1>1, <2>3, <3>1, <3>2 DEF BatchIsNext
  <2> QED BY <2>2, <2>3
<1>13. HandlingIsLatest' /\ NoEventTwice' /\ EventsInOrder'
  BY <1>1 DEF HandlingIsLatest, NoEventTwice, EventsInOrder, Handled
<1>14. CursorsAreFounded'
  <2>1. L \in 0..L BY <1>0
  <2>2. Founded(cursor, Sent(L))
    BY <1>0, <1>3, <1>6, <2>1, NoCursorAssumption DEF CursorsAreFounded
  <2>3. /\ cursor'.seenEventIds # {}
        /\ \A x \in cursor'.seenEventIds :
             x = e \/ (x \in cursor.seenEventIds /\ occurredAt[e] = cursor.occurredAt)
    BY <1>1 DEF advanceCursor
  <2>4. Founded(cursor, Sent(L + 1))'
    BY <1>1, <1>4, <1>9, <2>2, <2>3 DEF Founded
  <2>5. ASSUME NEW n \in 0..L, CursorAfter(n)' # None
        PROVE  Founded(CursorAfter(n), Sent(n))'
    BY <1>0, <1>1, <1>6, <1>9, <2>5 DEF CursorsAreFounded, Founded
  <2> QED BY <1>6, <1>7, <2>4, <2>5 DEF CursorsAreFounded
<1> QED BY <1>8, <1>10, <1>11, <1>12, <1>13, <1>14

(* A frame that is parsed moves its cursor and its event to the reader. *)
LEMMA ReceiveKeeps ==
  ASSUME InductiveInvariant, TypeOK', Receive
  PROVE  InductiveInvariant'
<1> USE DEF InductiveInvariant
<1>0. PICK L \in Nat : Len(wire) = L + 1 /\ Len(wire') = L
  <2>1. Len(wire) \in Nat \ {0} BY EmptySeq DEF Receive, TypeOK
  <2>2. Len(wire) - 1 \in Nat /\ Len(wire) = (Len(wire) - 1) + 1 BY <2>1
  <2> QED BY <2>2, HeadTailProperties DEF Receive, TypeOK
<1>1. /\ committed' = committed /\ occurredAt' = occurredAt /\ now' = now
      /\ stream' = stream /\ reconnectAt' = reconnectAt /\ cursor' = cursor
      /\ batch' = batch /\ received' = received /\ dropped' = dropped
      /\ excused' = excused /\ since' = since /\ handling = None
      /\ lastEventId' = wire[1].cursor /\ handling' = wire[1].event
  BY <1>0, HeadTailProperties DEF Receive, TypeOK, eventVars, serverVars
<1>2. \A n \in 1..L : wire'[n] = wire[n + 1]
  BY <1>0, HeadTailProperties DEF Receive, TypeOK
<1>3. \A n \in 0..L : CursorAfter(n)' = CursorAfter(n + 1) /\ n + 1 \in 0..Len(wire)
  <2> SUFFICES ASSUME NEW n \in 0..L PROVE CursorAfter(n)' = CursorAfter(n + 1)
    BY <1>0
  <2>1. CASE n = 0 BY <1>1, <2>1 DEF CursorAfter
  <2>2. CASE n # 0 BY <1>2, <2>2 DEF CursorAfter
  <2> QED BY <2>1, <2>2
<1>4. Position' = Position
  <2>1. CASE L = 0 BY <1>0, <1>1, <2>1 DEF Position, CursorAfter
  <2>2. CASE L # 0 BY <1>0, <1>2, <2>2 DEF Position, CursorAfter
  <2> QED BY <2>1, <2>2
<1>5. CursorsAdvance'
  <2>1. ASSUME NEW m \in 0..Len(wire'), NEW n \in 0..Len(wire'), m <= n, CursorAfter(m)' # None
        PROVE  AtOrBefore(CursorAfter(m)', CursorAfter(n)')
    BY <1>0, <1>3, <2>1 DEF CursorsAdvance
  <2>2. ASSUME NEW n \in 0..Len(wire'), CursorAfter(n)' # None
        PROVE  /\ CursorAfter(n)'.occurredAt <= now
               /\ stream = "off" => CursorAfter(n)'.occurredAt < reconnectAt
    BY <1>0, <1>3, <2>2 DEF CursorsAdvance
  <2> QED BY <1>1, <1>4, <2>1, <2>2 DEF CursorsAdvance, AtOrBefore
<1>6. /\ Handled' = Handled
      /\ Dispatched' = Dispatched \cup ({wire[1].event} \ {None})
  BY <1>1 DEF Dispatched, Handled
<1>7. \A n \in 0..L : Sent(n)' = Sent(n + 1)
  <2> SUFFICES ASSUME NEW n \in 0..L PROVE Sent(n)' = Sent(n + 1)
    OBVIOUS
  <2>1. {wire'[i].event : i \in 1..n} = {wire[i + 1].event : i \in 1..n}
    BY <1>2
  <2>2. {wire[i].event : i \in 1..(n + 1)} = {wire[1].event} \cup {wire[i + 1].event : i \in 1..n}
    <3>1. \A i \in 1..(n + 1) : i = 1 \/ (i - 1 \in 1..n /\ i = (i - 1) + 1) OBVIOUS
    <3>2. 1 \in 1..(n + 1) /\ \A i \in 1..n : i + 1 \in 1..(n + 1) OBVIOUS
    <3> QED BY <3>1, <3>2
  <2> QED BY <1>6, <2>1, <2>2 DEF Sent
<1>8. CoveredIsSent'
  <2> SUFFICES ASSUME NEW n \in 0..Len(wire'), CursorAfter(n)' # None,
                      NEW x \in committed \ excused, Covers(CursorAfter(n)', x)
               PROVE  x \in Sent(n)'
    BY <1>1 DEF CoveredIsSent, Covers
  <2> QED BY <1>0, <1>3, <1>7 DEF CoveredIsSent
<1>9. 1 \in 1..Len(wire) /\ 1 \in 0..Len(wire) /\ 0 \in 0..Len(wire)
  BY <1>0
<1>10. CursorAfter(0) = lastEventId /\ CursorAfter(1) = lastEventId'
  BY <1>1 DEF CursorAfter
<1>11. lastEventId' \in Cursor BY <1>1, <1>9, FrameFits
<1>12. wire[1].event # None =>
         /\ lastEventId # None /\ wire[1].event \in committed
         /\ ~Covers(lastEventId, wire[1].event)
         /\ Covers(lastEventId', wire[1].event)
  BY <1>1, <1>9, <1>10, FrameFits DEF SentIsCovered
<1>13. SentIsCovered'
  <2>1. ASSUME NEW x \in Dispatched'
        PROVE  lastEventId' # None /\ Covers(lastEventId', x)
    <3>1. CASE x \in Dispatched
      <4>1. lastEventId # None /\ Covers(lastEventId, x) BY <3>1 DEF SentIsCovered
      <4>2. lastEventId \in Cursor /\ AtOrBefore(lastEventId, lastEventId')
        BY <1>9, <1>10, <4>1 DEF CursorsAdvance, TypeOK
      <4>3. occurredAt[x] \in Nat BY <3>1, DispatchedFits, RaisedAt
      <4> QED BY <1>11, <4>1, <4>2, <4>3, LaterCoversMore, NoCursorAssumption
    <3>2. CASE x = wire[1].event /\ x # None
      BY <1>11, <1>12, <3>2, NoCursorAssumption
    <3> QED BY <1>6, <2>1, <3>1, <3>2
  <2>2. ASSUME NEW n \in 1..Len(wire'), wire'[n].event # None
        PROVE  /\ CursorAfter(n - 1)' # None
               /\ ~Covers(CursorAfter(n - 1)', wire'[n].event)
               /\ Covers(wire'[n].cursor, wire'[n].event)
    <3>1. n \in 1..L /\ n - 1 \in 0..L /\ n + 1 \in 1..Len(wire) /\ (n - 1) + 1 = n /\ (n + 1) - 1 = n
      BY <1>0, <2>2
    <3>2. CursorAfter(n - 1)' = CursorAfter(n) BY <1>3, <3>1
    <3>3. wire'[n] = wire[n + 1] BY <1>2, <3>1
    <3> QED BY <2>2, <3>1, <3>2, <3>3 DEF SentIsCovered
  <2> QED BY <1>1, <2>1, <2>2 DEF SentIsCovered, Covers
<1>14. BatchIsNext' BY <1>1 DEF BatchIsNext, Covers
<1>15. ASSUME wire[1].event # None, NEW x \in Dispatched
       PROVE  x # wire[1].event /\ occurredAt[x] <= occurredAt[wire[1].event]
  <2>1. Covers(lastEventId, x) BY DEF SentIsCovered
  <2>2. lastEventId \in Cursor BY <1>12, <1>15 DEF TypeOK
  <2>3. occurredAt[x] \in Nat /\ occurredAt[wire[1].event] \in Nat
    BY <1>12, <1>15, DispatchedFits, RaisedAt
  <2> QED BY <1>12, <1>15, <2>1, <2>2, <2>3 DEF Covers, Cursor
<1>16. \A i \in DOMAIN received : received[i] \in Dispatched
  BY DEF Dispatched, Handled
<1>17. HandlingIsLatest' BY <1>1, <1>15, <1>16 DEF HandlingIsLatest
<1>18. NoEventTwice'
  <2>1. None \notin Handled \cup dropped /\ Handled \cup dropped \subseteq Dispatched
    BY DispatchedFits DEF Dispatched
  <2>2. wire[1].event \notin Handled \cup dropped BY <1>15, <2>1
  <2> QED BY <1>1, <1>6, <2>2 DEF NoEventTwice
<1>19. EventsInOrder' BY <1>1 DEF EventsInOrder
<1>20. CursorsAreFounded'
  <2> SUFFICES ASSUME NEW n \in 0..Len(wire'), CursorAfter(n)' # None
               PROVE  Founded(CursorAfter(n), Sent(n))'
    BY DEF CursorsAreFounded
  <2>1. CursorAfter(n)' = CursorAfter(n + 1) /\ Sent(n)' = Sent(n + 1) /\ n + 1 \in 0..Len(wire)
    BY <1>0, <1>3, <1>7
  <2>2. Founded(CursorAfter(n + 1), Sent(n + 1)) BY <2>1 DEF CursorsAreFounded
  <2> QED BY <1>1, <2>1, <2>2 DEF Founded
<1> QED BY <1>5, <1>8, <1>13, <1>14, <1>17, <1>18, <1>19, <1>20

(* Handling an event moves it among those dispatched.                      *)
LEMMA HandleDispatches ==
  ASSUME TypeOK, Handle
  PROVE  Handled' = Handled \cup {handling} /\ Dispatched' = Dispatched
<1>0. PICK K \in Nat : Len(received) = K BY LenProperties DEF TypeOK
<1>1. /\ handling # None /\ handling' = None /\ handling \in committed
      /\ dropped' = dropped /\ received' = Append(received, handling)
  BY DEF Handle, TypeOK
<1>2. /\ DOMAIN received = 1..K /\ DOMAIN received' = 1..(K + 1)
      /\ \A i \in 1..K : received'[i] = received[i]
      /\ received'[K + 1] = handling
  BY <1>0, <1>1, AppendProperties, LenProperties DEF TypeOK
<1>3. Handled' = Handled \cup {handling}
  <2>1. \A i \in 1..(K + 1) : i \in 1..K \/ i = K + 1 OBVIOUS
  <2>2. \A i \in 1..K : i \in 1..(K + 1) OBVIOUS
  <2>3. K + 1 \in 1..(K + 1) OBVIOUS
  <2> QED BY <1>2, <2>1, <2>2, <2>3 DEF Handled
<1> QED BY <1>1, <1>3 DEF Dispatched

LEMMA HandleFailsDispatches ==
  ASSUME HandleFails
  PROVE  Dispatched' = Dispatched
BY DEF HandleFails, Breaks, Dispatched, Handled

LEMMA HandleKeeps ==
  ASSUME InductiveInvariant, TypeOK', Handle
  PROVE  InductiveInvariant'
<1> USE DEF InductiveInvariant
<1>0. PICK K \in Nat : Len(received) = K BY LenProperties DEF TypeOK
<1>1. /\ wire' = wire /\ lastEventId' = lastEventId /\ committed' = committed
      /\ occurredAt' = occurredAt /\ now' = now /\ stream' = stream /\ cursor' = cursor
      /\ reconnectAt' = reconnectAt /\ batch' = batch /\ excused' = excused
      /\ dropped' = dropped /\ handling # None /\ handling' = None
      /\ received' = Append(received, handling) /\ since' = since
  BY DEF Handle, eventVars, serverVars
<1>2. handling \in committed BY <1>1 DEF TypeOK
<1>3. /\ DOMAIN received = 1..K /\ DOMAIN received' = 1..(K + 1)
      /\ \A i \in 1..K : received'[i] = received[i]
      /\ received'[K + 1] = handling
  BY <1>0, <1>1, <1>2, AppendProperties, LenProperties DEF TypeOK
<1>4. \A i \in 1..(K + 1) : i \in 1..K \/ i = K + 1 OBVIOUS
<1>5. Handled' = Handled \cup {handling} BY HandleDispatches
<1>6. Dispatched' = Dispatched BY HandleDispatches
<1>7. CursorsAdvance' /\ BatchIsNext'
  BY <1>1 DEF CursorsAdvance, BatchIsNext, CursorAfter, Position, AtOrBefore, Covers
<1>8. CoveredIsSent'
  BY <1>1, <1>6 DEF CoveredIsSent, CursorAfter, Covers, Sent
<1>9. SentIsCovered'
  BY <1>1, <1>6 DEF SentIsCovered, CursorAfter, Covers
<1>10. HandlingIsLatest' BY <1>1 DEF HandlingIsLatest
<1>11. NoEventTwice'
  <2>1. \A i \in 1..K : received[i] \in Handled BY <1>3 DEF Handled
  <2>2. handling \notin Handled \cup dropped BY DEF NoEventTwice
  <2>3. ASSUME NEW i \in 1..(K + 1), NEW j \in 1..(K + 1), received'[i] = received'[j]
        PROVE  i = j
    BY <1>3, <1>4, <2>1, <2>2, <2>3 DEF NoEventTwice
  <2>4. None \notin Handled \cup dropped \cup {handling}
    BY <1>1, DispatchedFits DEF Dispatched
  <2> QED BY <1>1, <1>3, <1>5, <2>2, <2>3, <2>4 DEF NoEventTwice
<1>12. EventsInOrder'
  <2> SUFFICES ASSUME NEW i \in 1..(K + 1), NEW j \in 1..(K + 1), i < j
               PROVE  occurredAt[received'[i]] <= occurredAt[received'[j]]
    BY <1>1, <1>3 DEF EventsInOrder
  <2>1. i \in 1..K BY <1>4
  <2>2. CASE j \in 1..K BY <1>3, <2>1, <2>2 DEF EventsInOrder
  <2>3. CASE j = K + 1 BY <1>1, <1>3, <2>1, <2>3 DEF HandlingIsLatest
  <2> QED BY <1>4, <2>2, <2>3
<1>13. CursorsAreFounded'
  BY <1>1, <1>6 DEF CursorsAreFounded, Founded, CursorAfter, Sent
<1> QED BY <1>7, <1>8, <1>9, <1>10, <1>11, <1>12, <1>13

(* What a broken stream leaves: the first n frames. *)
LEMMA BreakKeeps ==
  ASSUME InductiveInvariant, TypeOK', UNCHANGED <<eventVars, cursor, lastEventId, excused, since>>,
         NEW n \in Nat, n <= Len(wire), Len(wire') = n,
         \A i \in 1..n : wire'[i] = wire[i],
         stream' = "off", reconnectAt' = now + ReconnectDelay, batch' = {},
         Dispatched' = Dispatched
  PROVE  CursorsAdvance' /\ CoveredIsSent' /\ SentIsCovered' /\ CursorsAreFounded' /\ BatchIsNext'
<1> USE DEF InductiveInvariant
<1>1. /\ committed' = committed /\ occurredAt' = occurredAt /\ now' = now
      /\ cursor' = cursor /\ lastEventId' = lastEventId /\ excused' = excused
      /\ since' = since
  BY DEF eventVars
<1>2. \A m \in 0..n : m \in 0..Len(wire) /\ CursorAfter(m)' = CursorAfter(m)
  BY <1>1, FrameFits DEF CursorAfter
<1>3. \A m \in 0..n : CursorAfter(m) # None => CursorAfter(m).occurredAt < now + ReconnectDelay
  <2> SUFFICES ASSUME NEW m \in 0..n, CursorAfter(m) # None
               PROVE  CursorAfter(m).occurredAt < now + ReconnectDelay
    OBVIOUS
  <2>1. CursorAfter(m) \in Cursor BY <1>2, CursorFits
  <2>2. CursorAfter(m).occurredAt <= now BY <1>2 DEF CursorsAdvance
  <2> QED BY <2>1, <2>2, ConstantsAssumption DEF Cursor, TypeOK
<1>4. CursorsAdvance'
  <2>1. ASSUME NEW l \in 0..Len(wire'), NEW m \in 0..Len(wire'), l <= m, CursorAfter(l)' # None
        PROVE  AtOrBefore(CursorAfter(l)', CursorAfter(m)')
    BY <1>2, <2>1 DEF CursorsAdvance
  <2>2. ASSUME NEW m \in 0..Len(wire'), CursorAfter(m)' # None
        PROVE  /\ CursorAfter(m)'.occurredAt <= now
               /\ CursorAfter(m)'.occurredAt < now + ReconnectDelay
    BY <1>2, <1>3, <2>2 DEF CursorsAdvance
  <2> QED BY <1>1, <2>1, <2>2 DEF CursorsAdvance, AtOrBefore
<1>5. \A m \in 0..n : Sent(m)' = Sent(m) BY DEF Sent
<1>6. CoveredIsSent'
  <2> SUFFICES ASSUME NEW m \in 0..n, CursorAfter(m)' # None,
                      NEW x \in committed \ excused, Covers(CursorAfter(m)', x)
               PROVE  x \in Sent(m)'
    BY <1>1 DEF CoveredIsSent, Covers
  <2> QED BY <1>2, <1>5 DEF CoveredIsSent
<1>7. SentIsCovered'
  <2>1. \A x \in Dispatched : lastEventId # None /\ Covers(lastEventId, x)
    BY DEF SentIsCovered
  <2>2. ASSUME NEW m \in 1..n, wire'[m].event # None
        PROVE  /\ CursorAfter(m - 1)' # None
               /\ ~Covers(CursorAfter(m - 1)', wire'[m].event)
               /\ Covers(wire'[m].cursor, wire'[m].event)
    <3>1. m - 1 \in 0..n /\ m \in 1..Len(wire) BY FrameFits
    <3> QED BY <1>2, <2>2, <3>1 DEF SentIsCovered
  <2> QED BY <1>1, <2>1, <2>2 DEF SentIsCovered, Covers
<1>8. CursorsAreFounded'
  <2> SUFFICES ASSUME NEW m \in 0..n, CursorAfter(m)' # None
               PROVE  Founded(CursorAfter(m), Sent(m))'
    BY DEF CursorsAreFounded
  <2>1. Founded(CursorAfter(m), Sent(m)) BY <1>2 DEF CursorsAreFounded
  <2> QED BY <1>1, <1>2, <1>5, <2>1 DEF Founded
<1> QED BY <1>4, <1>6, <1>7, <1>8 DEF BatchIsNext

LEMMA HandleFailsKeeps ==
  ASSUME InductiveInvariant, TypeOK', HandleFails
  PROVE  InductiveInvariant'
<1> USE DEF InductiveInvariant
<1>1. /\ occurredAt' = occurredAt /\ received' = received /\ handling # None
      /\ handling' = None /\ dropped' = dropped \cup {handling}
      /\ wire' = <<>> /\ Len(wire') = 0 /\ 0 <= Len(wire)
  BY FrameFits DEF HandleFails, Breaks, eventVars
<1>2. Dispatched' = Dispatched /\ Handled' = Handled BY <1>1 DEF Dispatched, Handled
<1>3. CursorsAdvance' /\ CoveredIsSent' /\ SentIsCovered' /\ CursorsAreFounded' /\ BatchIsNext'
  BY <1>1, <1>2, BreakKeeps DEF HandleFails, Breaks
<1>4. None \notin Handled \cup dropped \cup {handling}
  BY <1>1, DispatchedFits DEF Dispatched
<1>5. HandlingIsLatest' /\ NoEventTwice' /\ EventsInOrder'
  BY <1>1, <1>2, <1>4 DEF HandlingIsLatest, NoEventTwice, EventsInOrder
<1> QED BY <1>3, <1>5

LEMMA DisconnectKeeps ==
  ASSUME InductiveInvariant, TypeOK', Disconnect
  PROVE  InductiveInvariant'
<1> USE DEF InductiveInvariant
<1>1. PICK n \in 0..Len(wire) : Breaks(SubSeq(wire, 1, n)) BY DEF Disconnect
<1>2. /\ occurredAt' = occurredAt /\ received' = received /\ handling' = handling
      /\ dropped' = dropped /\ lastEventId' = lastEventId
  BY DEF Disconnect, eventVars, readerVars
<1>3. Dispatched' = Dispatched /\ Handled' = Handled BY <1>2 DEF Dispatched, Handled
<1>4. /\ n \in Nat /\ n <= Len(wire) /\ Len(wire') = n
      /\ \A i \in 1..n : wire'[i] = wire[i]
  <2>1. n \in Nat /\ n <= Len(wire) BY FrameFits
  <2>2. \A i \in 1..n : wire[i] \in Frame
    BY FrameFits, ElementOfSeq DEF TypeOK
  <2>3. wire' = SubSeq(wire, 1, n) BY <1>1 DEF Breaks
  <2>4. n - 1 + 1 = n /\ \A i \in 1..n : 1 + i - 1 = i BY <2>1
  <2> QED BY <2>1, <2>2, <2>3, <2>4, SubSeqProperties
<1>5. CursorsAdvance' /\ CoveredIsSent' /\ SentIsCovered' /\ CursorsAreFounded' /\ BatchIsNext'
  BY <1>1, <1>2, <1>3, <1>4, BreakKeeps DEF Disconnect, Breaks
<1>6. HandlingIsLatest' /\ NoEventTwice' /\ EventsInOrder'
  BY <1>2, <1>3 DEF HandlingIsLatest, NoEventTwice, EventsInOrder
<1> QED BY <1>5, <1>6

LEMMA InvariantStep == InductiveInvariant /\ [Next]_vars => InductiveInvariant'
<1> SUFFICES ASSUME InductiveInvariant, [Next]_vars PROVE InductiveInvariant'
  OBVIOUS
<1>1. TypeOK' BY TypingStep DEF InductiveInvariant
<1>2. CASE \E e \in Events : DomainEventEmit(e) BY <1>1, <1>2, EmitKeeps
<1>3. CASE \E e \in Events : CommitEvent(e) BY <1>1, <1>3, CommitKeeps
<1>4. CASE \E e \in Events : WriteEvent(e) BY <1>1, <1>4, WriteKeeps
<1>5. CASE Tick BY <1>1, <1>5, TickKeeps
<1>6. CASE Connect BY <1>1, <1>6, ConnectKeeps
<1>7. CASE Poll BY <1>1, <1>7, PollKeeps
<1>8. CASE Receive BY <1>1, <1>8, ReceiveKeeps
<1>9. CASE Handle BY <1>1, <1>9, HandleKeeps
<1>10. CASE HandleFails BY <1>1, <1>10, HandleFailsKeeps
<1>11. CASE Disconnect BY <1>1, <1>11, DisconnectKeeps
<1>12. CASE UNCHANGED vars
  BY <1>1, <1>12
  DEF vars, eventVars, serverVars, readerVars, InductiveInvariant, CursorsAdvance,
      CoveredIsSent, SentIsCovered, CursorsAreFounded, Founded, BatchIsNext,
      HandlingIsLatest, NoEventTwice, EventsInOrder, CursorAfter, Position, AtOrBefore, Covers, Sent, Dispatched, Handled
<1> QED BY <1>2, <1>3, <1>4, <1>5, <1>6, <1>7, <1>8, <1>9, <1>10, <1>11, <1>12 DEF Next

-----------------------------------------------------------------------------
(* Theorems *)

(* Whatever is raised, committed, sent, lost or dropped, the cursors, the  *)
(* frames and the reader of the stream agree.                              *)
THEOREM InvariantHolds == Spec => []InductiveInvariant
<1>1. Init => InductiveInvariant BY InvariantInit
<1>2. InductiveInvariant /\ [Next]_vars => InductiveInvariant' BY InvariantStep
<1> QED BY <1>1, <1>2, PTL DEF Spec

(* No event reaches the consumers twice, and they see them in the order    *)
(* they were raised in, through every poll and reconnect.                  *)
THEOREM DeliveredOnceInOrder == Spec => [](NoEventTwice /\ EventsInOrder)
<1>1. InductiveInvariant => NoEventTwice /\ EventsInOrder BY DEF InductiveInvariant
<1> QED BY <1>1, InvariantHolds, PTL

(* The reader's cursor covers no event that was not handed to the          *)
(* consumers, but for those that committed behind the stream.              *)
THEOREM NoEventIsSkipped == Spec => []NothingSkipped
<1>1. InductiveInvariant => NothingSkipped
  <2> SUFFICES ASSUME InductiveInvariant, lastEventId # None,
                      NEW e \in committed \ excused, Covers(lastEventId, e)
               PROVE  e \in Dispatched
    BY DEF NothingSkipped
  <2>1. 0 \in 0..Len(wire) BY FrameFits DEF InductiveInvariant
  <2>2. CursorAfter(0) = lastEventId /\ Sent(0) = Dispatched BY DEF CursorAfter, Sent
  <2> QED BY <2>1, <2>2 DEF InductiveInvariant, CoveredIsSent
<1> QED BY <1>1, InvariantHolds, PTL

(* What the reader's cursor covers stays covered: no reconnect, refused    *)
(* cursor or later frame takes it back.                                    *)
THEOREM CursorsNeverGoBack == Spec => CursorMovesForward
<1> DEFINE Forward ==
      lastEventId # None =>
        /\ lastEventId' # None
        /\ \A e \in committed : Covers(lastEventId, e) => Covers(lastEventId', e)
<1>1. InductiveInvariant /\ [Next]_vars => Forward
  <2> SUFFICES ASSUME InductiveInvariant, [Next]_vars, lastEventId # None
               PROVE  /\ lastEventId' # None
                      /\ \A e \in committed : Covers(lastEventId, e) => Covers(lastEventId', e)
    OBVIOUS
  <2>1. CASE Receive
    <3>1. /\ Len(wire) \in Nat \ {0} /\ lastEventId' = wire[1].cursor
      BY <2>1, EmptySeq, HeadTailProperties DEF Receive, InductiveInvariant, TypeOK
    <3>2. 0 \in 0..Len(wire) /\ 1 \in 0..Len(wire) /\ 1 \in 1..Len(wire) BY <3>1
    <3>3. CursorAfter(0) = lastEventId /\ CursorAfter(1) = lastEventId'
      BY <3>1 DEF CursorAfter
    <3>4. lastEventId \in Cursor /\ lastEventId' \in Cursor
      BY <3>1, <3>2, FrameFits DEF InductiveInvariant, TypeOK
    <3>5. AtOrBefore(lastEventId, lastEventId')
      BY <3>2, <3>3 DEF InductiveInvariant, CursorsAdvance
    <3> QED BY <3>4, <3>5, LaterCoversMore, RaisedAt, NoCursorAssumption
            DEF InductiveInvariant
  <2>2. CASE ~Receive
    <3>1. lastEventId' = lastEventId
      BY <2>2 DEF Next, vars, readerVars, DomainEventEmit, CommitEvent, WriteEvent, Tick,
                  Connect, Poll, Handle, HandleFails, Disconnect
    <3> QED BY <3>1
  <2> QED BY <2>1, <2>2
<1> QED BY <1>1, InvariantHolds, PTL DEF Spec, CursorMovesForward

-----------------------------------------------------------------------------
(* The stream is a feed *)

LEMMA FeedInit == Init => Feed!Init
<1> SUFFICES ASSUME Init PROVE Feed!Init OBVIOUS
<1>1. DOMAIN received = {} BY EmptySeq DEF Init
<1>2. Dispatched = {} BY <1>1 DEF Init, Dispatched, Handled
<1> QED BY <1>2 DEF Init, Feed!Init

(* A cursor's time is when a stream began, or that of an event.            *)
LEMMA TimeOfCursor ==
  ASSUME TypeOK, NEW n \in 0..Len(wire), NEW c, c = CursorAfter(n), c # None,
         Founded(c, Sent(n))
  PROVE  /\ since # None
         /\ \/ c.seenEventIds = {} /\ c.occurredAt = since
            \/ \E d \in committed : occurredAt[d] = c.occurredAt
<1>1. CASE c.seenEventIds = {} BY <1>1 DEF Founded
<1>2. CASE c.seenEventIds # {}
  <2>1. PICK d \in c.seenEventIds : TRUE BY <1>2
  <2>2. d \in Sent(n) /\ occurredAt[d] = c.occurredAt /\ since # None BY <2>1 DEF Founded
  <2> QED BY <2>2, SentFits
<1> QED BY <1>1, <1>2

(* The stream passes over an event only when it began after the event, or  *)
(* when a later event had been committed.                                  *)
LEMMA PassedOverIsOvertaken ==
  ASSUME InductiveInvariant, NEW e \in Events, occurredAt[e] # None, e \notin committed,
         PassedOver(e)
  PROVE  Feed!Overtaken(e)
<1> USE DEF InductiveInvariant
<1>1. occurredAt[e] \in Nat BY DEF TypeOK
<1>2. Len(wire) \in 0..Len(wire) BY FrameFits
<1>3. CASE Position # None /\ Covers(Position, e)
  <2> DEFINE c == Position
  <2>1. c = CursorAfter(Len(wire)) BY DEF Position
  <2>2. Founded(c, Sent(Len(wire))) BY <1>2, <1>3, <2>1 DEF CursorsAreFounded
  <2> HIDE DEF c
  <2>3. /\ since # None
        /\ \/ c.seenEventIds = {} /\ c.occurredAt = since
           \/ \E d \in committed : occurredAt[d] = c.occurredAt
    BY <1>2, <1>3, <2>1, <2>2, TimeOfCursor DEF c
  <2>4. Covers(c, e) BY <1>3 DEF c
  <2>5. e \notin c.seenEventIds BY <1>2, <2>2, SentFits DEF Founded
  <2>6. occurredAt[e] < c.occurredAt BY <2>4, <2>5 DEF Covers
  <2> QED BY <2>3, <2>6 DEF Feed!Overtaken
<1>4. CASE \E d \in batch : occurredAt[e] < occurredAt[d]
  <2>1. stream = "open" /\ batch \subseteq committed BY <1>4 DEF BatchIsNext, TypeOK
  <2>2. CursorAfter(Len(wire)) # None
    BY <2>1, NoCursorAssumption DEF CursorsAdvance, Position, TypeOK
  <2>3. since # None BY <1>2, <2>2 DEF CursorsAreFounded, Founded
  <2> QED BY <1>4, <2>1, <2>3 DEF Feed!Overtaken
<1> QED BY <1>3, <1>4 DEF PassedOver

LEMMA CommitIsFeedStep ==
  ASSUME InductiveInvariant, NEW e \in Events, CommitEvent(e)
  PROVE  Feed!Commit(e)
<1>1. /\ occurredAt[e] # None /\ e \notin committed /\ committed' = committed \cup {e}
      /\ excused' = IF PassedOver(e) THEN excused \cup {e} ELSE excused
      /\ occurredAt' = occurredAt /\ now' = now /\ since' = since
      /\ lastEventId' = lastEventId /\ received' = received /\ dropped' = dropped
      /\ handling' = handling
  BY DEF CommitEvent, readerVars
<1>2. Dispatched' = Dispatched BY <1>1 DEF Dispatched, Handled
<1>3. PassedOver(e) => Feed!Overtaken(e) BY <1>1, PassedOverIsOvertaken
<1> QED BY <1>1, <1>2, <1>3 DEF Feed!Commit

(* A cursor is too long only when more events of its time were shown.      *)
LEMMA LongCursor ==
  ASSUME InductiveInvariant, lastEventId # None,
         ~(Cardinality(lastEventId.seenEventIds) <= maxCursorEventIds)
  PROVE  Feed!TooManyTogether
<1> USE DEF InductiveInvariant
<1> DEFINE seen == lastEventId.seenEventIds
           t == lastEventId.occurredAt
           together == {e \in Dispatched : occurredAt[e] = t}
<1>1. 0 \in 0..Len(wire) /\ CursorAfter(0) = lastEventId /\ Sent(0) = Dispatched
  BY FrameFits DEF CursorAfter, Sent
<1>2. seen \subseteq together BY <1>1 DEF CursorsAreFounded, Founded
<1>3. IsFiniteSet(together)
  <2>1. together \subseteq committed BY DispatchedFits
  <2> QED BY <2>1, FS_Subset DEF TypeOK
<1>4. /\ Cardinality(seen) <= Cardinality(together)
      /\ Cardinality(seen) \in Nat /\ Cardinality(together) \in Nat
  BY <1>2, <1>3, FS_Subset, FS_CardinalityType
<1>5. t \in 0..now BY <1>1 DEF CursorsAdvance, TypeOK, Cursor
<1>6. Cardinality(together) > maxCursorEventIds BY <1>4, ConstantsAssumption
<1>7. \E s \in 0..now :
        Cardinality({e \in Dispatched : occurredAt[e] = s}) > maxCursorEventIds
  BY <1>5, <1>6
<1>8. \A S : Feed!Cardinality(S) = Cardinality(S) BY DEF Cardinality, Feed!Cardinality
<1> QED BY <1>7, <1>8 DEF Feed!TooManyTogether

LEMMA ConnectIsFeedStep ==
  ASSUME InductiveInvariant, Connect
  PROVE  Feed!Begin \/ UNCHANGED Feed!vars
<1>1. /\ occurredAt' = occurredAt /\ committed' = committed /\ now' = now
      /\ lastEventId' = lastEventId /\ received' = received /\ dropped' = dropped
      /\ handling' = handling
      /\ since' = IF Decodable(lastEventId) THEN since ELSE now
      /\ excused' = IF Decodable(lastEventId) THEN excused
                    ELSE excused \cup {e \in committed : Covers(cursor', e)}
  BY DEF Connect, eventVars, readerVars, Decodable
<1>2. Dispatched' = Dispatched BY <1>1 DEF Dispatched, Handled
<1>3. CASE Decodable(lastEventId) BY <1>1, <1>2, <1>3 DEF Feed!vars
<1>4. CASE ~Decodable(lastEventId)
  <2>1. cursor' = [occurredAt |-> now, seenEventIds |-> {}] BY <1>4 DEF Connect
  <2>2. excused' = excused \cup {e \in committed : occurredAt[e] < now}
    BY <1>1, <1>4, <2>1 DEF Covers
  <2>3. lastEventId = None \/ Feed!TooManyTogether BY <1>4, LongCursor DEF Decodable
  <2> QED BY <1>1, <1>2, <1>4, <2>2, <2>3 DEF Feed!Begin
<1> QED BY <1>3, <1>4

(* The event of the frame that is parsed is the next to be shown.          *)
LEMMA ReceiveIsFeedStep ==
  ASSUME InductiveInvariant, Receive
  PROVE  (\E e \in Events : Feed!Show(e)) \/ Feed!Subscribe \/ UNCHANGED Feed!vars
<1> USE DEF InductiveInvariant
<1>1. Len(wire) \in Nat \ {0} BY EmptySeq DEF Receive, TypeOK
<1>2. 0 \in 0..Len(wire) /\ 1 \in 0..Len(wire) /\ 1 \in 1..Len(wire) /\ 1 - 1 = 0 BY <1>1
<1>3. /\ committed' = committed /\ occurredAt' = occurredAt /\ now' = now
      /\ received' = received /\ dropped' = dropped /\ excused' = excused
      /\ since' = since /\ handling = None
      /\ lastEventId' = wire[1].cursor /\ handling' = wire[1].event
  BY <1>1, HeadTailProperties DEF Receive, TypeOK, eventVars, serverVars
<1> DEFINE e == wire[1].event
<1>4. /\ CursorAfter(0) = lastEventId /\ CursorAfter(1) = lastEventId'
      /\ lastEventId' \in Cursor /\ lastEventId' # None
  BY <1>2, <1>3, FrameFits, NoCursorAssumption DEF CursorAfter
<1>5. Dispatched' = Dispatched \cup ({e} \ {None}) BY <1>3 DEF Dispatched, Handled
<1>6. since # None BY <1>2, <1>4 DEF CursorsAreFounded, Founded
<1>7. CASE e = None
  <2>1. Dispatched' = Dispatched BY <1>5, <1>7
  <2> QED BY <1>3, <1>4, <1>6, <2>1 DEF Feed!Subscribe
<1>8. CASE e # None
  <2>1. /\ lastEventId # None /\ ~Covers(lastEventId, e) /\ Covers(lastEventId', e)
        /\ e \in committed
    BY <1>2, <1>3, <1>4, <1>8, FrameFits DEF SentIsCovered
  <2>2. e \in Events /\ occurredAt[e] \in Nat BY <2>1, RaisedAt
  <2>3. lastEventId \in Cursor BY <2>1 DEF TypeOK
  <2>4. Dispatched' = Dispatched \cup {e} BY <1>5, <1>8
  <2>5. Sent(1) = Dispatched \cup {e}
    <3>1. {wire[i].event : i \in 1..1} = {e} OBVIOUS
    <3> QED BY <1>8, <3>1 DEF Sent
  <2>6. ASSUME NEW d \in Dispatched
        PROVE  d # e /\ occurredAt[d] <= occurredAt[e]
    <3>1. Covers(lastEventId, d) /\ occurredAt[d] \in Nat
      BY DispatchedFits, RaisedAt DEF SentIsCovered
    <3> QED BY <2>1, <2>2, <2>3, <3>1 DEF Covers, Cursor
  <2>7. ASSUME NEW d \in committed \ (Dispatched \cup excused)
        PROVE  occurredAt[e] <= occurredAt[d]
    <3>1. CASE d = e BY <2>2, <3>1
    <3>2. CASE d # e
      <4>1. ~Covers(lastEventId', d)
        BY <1>2, <1>4, <2>5, <3>2 DEF CoveredIsSent
      <4>2. occurredAt[d] \in Nat BY RaisedAt
      <4> QED BY <1>4, <2>1, <2>2, <4>1, <4>2 DEF Covers, Cursor
    <3> QED BY <3>1, <3>2
  <2>8. Feed!IsNext(e) BY <2>6, <2>7 DEF Feed!IsNext
  <2>9. e \notin Dispatched BY <2>6
  <2>10. (lastEventId # None) = TRUE /\ (lastEventId' # None) = TRUE BY <1>4, <2>1
  <2>11. Feed!Show(e)
    BY <1>3, <2>1, <2>4, <2>8, <2>9, <2>10 DEF Feed!Show
  <2> QED BY <2>2, <2>11
<1> QED BY <1>7, <1>8

(* Every step of the stream is a step of the feed, or leaves it alone.     *)
LEMMA StepOfTheFeed ==
  ASSUME InductiveInvariant, [Next]_vars
  PROVE  [Feed!Next]_(Feed!vars)
<1>1. ASSUME NEW e \in Events, DomainEventEmit(e) PROVE Feed!Raise(e)
  <2>1. /\ occurredAt[e] = None /\ occurredAt' = [occurredAt EXCEPT ![e] = now]
        /\ committed' = committed /\ now' = now /\ since' = since /\ excused' = excused
        /\ lastEventId' = lastEventId /\ received' = received /\ dropped' = dropped
        /\ handling' = handling
    BY <1>1 DEF DomainEventEmit, readerVars
  <2>2. Dispatched' = Dispatched BY <2>1 DEF Dispatched, Handled
  <2> QED BY <2>1, <2>2 DEF Feed!Raise
<1>2. ASSUME Tick PROVE Feed!Tick
  <2>1. Dispatched' = Dispatched BY <1>2 DEF Tick, readerVars, Dispatched, Handled
  <2> QED BY <1>2, <2>1 DEF Tick, readerVars, Feed!Tick
<1>3. ASSUME \/ \E e \in Events : WriteEvent(e)
             \/ Poll \/ Disconnect \/ UNCHANGED vars
      PROVE  UNCHANGED Feed!vars
  <2>1. /\ occurredAt' = occurredAt /\ committed' = committed /\ now' = now
        /\ since' = since /\ excused' = excused
        /\ lastEventId' = lastEventId /\ received' = received /\ dropped' = dropped
        /\ handling' = handling
    BY <1>3 DEF WriteEvent, Poll, Disconnect, vars, eventVars, readerVars
  <2>2. Dispatched' = Dispatched BY <2>1 DEF Dispatched, Handled
  <2> QED BY <2>1, <2>2 DEF Feed!vars
<1>4. ASSUME Handle \/ HandleFails PROVE UNCHANGED Feed!vars
  <2>1. /\ occurredAt' = occurredAt /\ committed' = committed /\ now' = now
        /\ since' = since /\ excused' = excused /\ lastEventId' = lastEventId
    BY <1>4 DEF Handle, HandleFails, eventVars
  <2>2. Dispatched' = Dispatched
    BY <1>4, HandleDispatches, HandleFailsDispatches DEF InductiveInvariant
  <2> QED BY <2>1, <2>2 DEF Feed!vars
<1>5. CASE \E e \in Events : DomainEventEmit(e) BY <1>1, <1>5 DEF Feed!Next
<1>6. CASE \E e \in Events : CommitEvent(e) BY <1>6, CommitIsFeedStep DEF Feed!Next
<1>7. CASE Connect BY <1>7, ConnectIsFeedStep DEF Feed!Next
<1>8. CASE Receive BY <1>8, ReceiveIsFeedStep DEF Feed!Next
<1> QED BY <1>2, <1>3, <1>4, <1>5, <1>6, <1>7, <1>8 DEF Next, Feed!Next

(* The consumers of a browser are given the tenant's events in the order   *)
(* they were raised in, each at most once; one that is left out was raised *)
(* before the stream began or committed after a later one; and a stream    *)
(* begins anew only for a reader that has no cursor or that was given more *)
(* events of one millisecond than a cursor can name.                       *)
THEOREM StreamIsAFeed == Spec => ImplementsFeed
<1>1. Init => Feed!Init BY FeedInit
<1>2. InductiveInvariant /\ [Next]_vars => [Feed!Next]_(Feed!vars) BY StepOfTheFeed
<1> QED BY <1>1, <1>2, InvariantHolds, PTL DEF Spec, ImplementsFeed, Feed!Spec

=============================================================================
