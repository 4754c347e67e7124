--------------------------------- MODULE Shell ---------------------------------
(***************************************************************************)
(* The browser's shell (core/frontend/App.tsx, FrontendRuntimeProvider.tsx *)
(* and events/FrontendEventProvider.tsx): Contributions fill its places,   *)
(* SignIn decides what they show, and the provider's loop dispatches the   *)
(* events of the server to the consumers that are registered at that       *)
(* moment, which invalidate what the views have fetched (CachedQuery, for  *)
(* one entry of the cache).                                                *)
(*                                                                         *)
(* The loop runs from the first render, before any contribution is loaded  *)
(* and before anybody is signed in.  Events are numbered as the server     *)
(* streams them (EventStream has the cursors); their count is the version  *)
(* of the collection.                                                      *)
(***************************************************************************)
EXTENDS Contributions, SignIn

CONSTANTS
  Content,    \* the place of AppContent, whose views fetch
  EventType,  \* EventType[e]: the type of event e; e ranges over 1..MaxEvents
  TaskEvents, \* the types that tell of a change to the collection
  MaxEvents,  \* bound: events that occur
  MaxBreaks   \* bound: how often a connection breaks

ASSUME ShellAssumption ==
  /\ Content \in Places /\ None \notin Nat
  /\ MaxEvents \in Nat /\ MaxBreaks \in Nat
  /\ EventType \in [1..MaxEvents -> Keys]

(* Some module exports a consumer of every event that changes the          *)
(* collection.  Others are streamed too, and nobody consumes them.         *)
ASSUME ConsumersAssumption ==
  \A b \in Bundles, type \in TaskEvents :
    \E m \in Modules : \E i \in DOMAIN b[m].exports :
      b[m].exports[i].kind = "consumer" /\ b[m].exports[i].key = type

VARIABLES
  committed,   \* the server: the events there are
  connection,  \* the response the loop reads: "off" or "open"
  abandoned,   \* open responses that nobody reads any more
  cursor,      \* lastEventId
  began,       \* history: the first cursor
  handling,    \* the event that is being dispatched
  awaiting,    \* for what was fetched on its account
  dropped,     \* events whose consumers refused them
  data, stale, failed, fetch, asked, watched,  \* the entry, as in CachedQuery
  breaks       \* connections that broke so far

eventVars == <<connection, abandoned, cursor, began, handling, awaiting, dropped>>
cacheVars == <<data, stale, failed, fetch, asked, watched>>
shellVars ==
  <<contributionVars, signInVars, committed, eventVars, cacheVars, breaks>>

Cache == INSTANCE CachedQuery WITH version <- committed

ShellType ==
  /\ {committed, abandoned, began} \subseteq Nat
  /\ {cursor, handling} \subseteq Nat \cup {None}
  /\ connection \in {"off", "open"}
  /\ awaiting \in BOOLEAN
  /\ Cache!Type
  /\ dropped \subseteq 1..MaxEvents
  /\ breaks \in 0..MaxBreaks

ShellInit ==
  /\ ContributionsInit /\ SignInInit
  /\ Cache!Init /\ breaks = 0
  /\ connection = "off" /\ abandoned = 0 /\ cursor = None /\ began = 0
  /\ handling = None /\ awaiting = FALSE /\ dropped = {}

-----------------------------------------------------------------------------
(* The page *)

(* The page is left or loaded again: its memory and its connections are    *)
(* gone.                                                                   *)
PageLost ==
  /\ Forget
  /\ connection' = "off" /\ abandoned' = 0 /\ cursor' = None /\ began' = 0
  /\ handling' = None /\ awaiting' = FALSE /\ dropped' = {}
  /\ data' = None /\ stale' = TRUE /\ failed' = FALSE
  /\ fetch' = "none" /\ asked' = 0 /\ watched' = FALSE
  /\ UNCHANGED <<committed, breaks>>

Stays == UNCHANGED <<signInVars, committed, breaks>>

(* The first render of App mounts the content, other places (the           *)
(* navigation, once in each drawer) come and go with the workspace.        *)
MountPlace(p) ==
  /\ page = "open" /\ (p = Content \/ surface = "workspace")
  /\ Mount(p)
  /\ Stays /\ UNCHANGED <<eventVars, cacheVars>>

UnmountPlace(p) ==
  /\ p # Content /\ surface = "landing"
  /\ Unmount(p)
  /\ Stays /\ UNCHANGED <<eventVars, cacheVars>>

Loading(m) ==
  /\ Load(m) \/ LoadFails(m) \/ LoadCollides(m)
  /\ Stays /\ UNCHANGED <<eventVars, cacheVars>>

-----------------------------------------------------------------------------
(* Signing in *)

(* The buttons are part of what fills the places. *)
Shown == place[Content] = "ready"
Navigable == \E p \in Places \ {Content} : place[p] = "ready"

(* The effect of App that clears the cache when signedIn has changed.      *)
IdentityEffect ==
  \/ signedIn' = signedIn /\ UNCHANGED cacheVars
  \/ signedIn' # signedIn /\ Cache!Clear

SignInStep ==
  /\ \/ /\ \/ Shown /\ \E a \in Attempts : Click(a)
           \/ \E a \in Attempts : Assign(a)
           \/ MetadataArrives \/ MetadataFails \/ ExchangeSucceeds \/ ExchangeFails
        /\ IdentityEffect
     \/ Navigable /\ ShowLanding /\ Cache!Unsubscribe
  /\ UNCHANGED <<contributionVars, committed, eventVars, breaks>>

Travel == (EnterPage \/ LeavePage) /\ PageLost

-----------------------------------------------------------------------------
(* What the views fetch *)

(* Somebody is signed in, and a view of the workspace mounted. *)
Mounted == Shown /\ page = "open" /\ surface = "workspace" /\ signedIn

PageStays == UNCHANGED <<contributionVars, signInVars, breaks>>

(* A view mounts, or comes back to the filters of this entry. *)
ViewMounts ==
  /\ Mounted /\ ~watched
  /\ Cache!Subscribe
  /\ PageStays /\ UNCHANGED eventVars

(* It turns to other filters. *)
ViewLeaves ==
  /\ watched
  /\ Cache!Unsubscribe
  /\ PageStays /\ UNCHANGED eventVars

(* A command of this page has succeeded: its form invalidates. *)
CommandSucceeds ==
  /\ Shown /\ page = "open" /\ signedIn
  /\ Cache!Invalidate(FALSE)
  /\ PageStays /\ UNCHANGED eventVars

FetchAnswers ==
  /\ Cache!Answer
  /\ PageStays /\ UNCHANGED eventVars

FetchFails ==
  /\ Cache!Refuse
  /\ PageStays /\ UNCHANGED eventVars

(* The promise resolves, whatever the outcome, for who awaits it too.      *)
FetchEnds ==
  /\ Cache!End
  /\ awaiting' = FALSE
  /\ PageStays /\ UNCHANGED <<connection, abandoned, cursor, began, handling, dropped>>

-----------------------------------------------------------------------------
(* Events *)

Occur ==
  /\ committed < MaxEvents
  /\ Cache!Write
  /\ PageStays /\ UNCHANGED eventVars

(* Bug: a connection always starts at the latest event. *)
StartAtEnd == committed

(* The cursor a connection starts at: the provider's, or the end. *)
StartAt == IF cursor = None THEN committed ELSE cursor

(* subscribeToFrontendEvents sends the identity there is; without one it   *)
(* throws, and the loop asks again every second.                           *)
Connect ==
  /\ page = "open" /\ connection = "off" /\ handling = None
  /\ development \/ token
  /\ connection' = "open"
  /\ cursor' = StartAt
  /\ began' = IF cursor = None THEN committed ELSE began
  /\ PageStays
  /\ UNCHANGED <<committed, cacheVars, abandoned, handling, awaiting, dropped>>

(* Bug: the cursor is not taken over before the event is handled. *)
CursorKept(e) == cursor

(* onCursor comes before onEvent. *)
CursorAt(e) == e

(* The consumers of an event that are registered at this moment. *)
ConsumersOf(e) == {x \in registered : x.kind = "consumer" /\ x.key = EventType[e]}

(* Each consumer that accepts the event invalidates the collection, and    *)
(* the loop awaits what is being fetched then.  They accept alike.  An     *)
(* event without a consumer is over.                                       *)
Dispatch(e) ==
  \/ /\ ConsumersOf(e) = {}
     /\ awaiting' = FALSE
     /\ UNCHANGED <<committed, cacheVars, dropped>>
  \/ /\ ConsumersOf(e) # {}
     /\ Cache!Invalidate(\E x, y \in ConsumersOf(e) : x # y)
     /\ awaiting' = watched
     /\ UNCHANGED dropped
  \/ /\ ConsumersOf(e) # {}
     /\ dropped' = dropped \cup {e}
     /\ awaiting' = FALSE
     /\ UNCHANGED <<committed, cacheVars>>

(* A frame is read and dispatched, up to the first await. *)
Receive ==
  /\ connection = "open" /\ handling = None /\ cursor < committed
  /\ cursor' = CursorAt(cursor + 1)
  /\ handling' = cursor + 1
  /\ Dispatch(cursor + 1)
  /\ PageStays /\ UNCHANGED <<connection, abandoned, began>>

(* What it awaited has ended. *)
Handled ==
  /\ handling # None /\ handling \notin dropped /\ ~awaiting
  /\ handling' = None
  /\ PageStays
  /\ UNCHANGED <<committed, cacheVars, connection, abandoned, cursor, began, awaiting, dropped>>

(* The error of the consumers ends the reading, not the response, and the  *)
(* loop connects again.                                                    *)
HandleFails ==
  /\ handling \in dropped
  /\ handling' = None
  /\ connection' = "off"
  /\ abandoned' = IF connection = "open" THEN abandoned + 1 ELSE abandoned
  /\ PageStays /\ UNCHANGED <<committed, cacheVars, cursor, began, awaiting, dropped>>

(* The response ends or breaks. *)
Break ==
  /\ connection = "open"
  /\ breaks < MaxBreaks /\ breaks' = breaks + 1
  /\ connection' = "off"
  /\ UNCHANGED <<contributionVars, signInVars, committed, cacheVars, abandoned, cursor, began,
                 handling, awaiting, dropped>>

-----------------------------------------------------------------------------

ShellNext ==
  \/ Travel \/ SignInStep
  \/ \E p \in Places : MountPlace(p) \/ UnmountPlace(p)
  \/ \E m \in Modules : Loading(m)
  \/ ViewMounts \/ ViewLeaves \/ CommandSucceeds
  \/ FetchAnswers \/ FetchFails \/ FetchEnds
  \/ Occur \/ Connect \/ Receive \/ Handled \/ HandleFails \/ Break

ShellSpec == ShellInit /\ [][ShellNext]_shellVars

-----------------------------------------------------------------------------
(* Safety *)

(* The changes to the collection that the loop has read, since it began    *)
(* and but for those the consumers refused.                                *)
Followed ==
  {e \in 1..committed : /\ EventType[e] \in TaskEvents
                        /\ began < e /\ cursor # None /\ e <= cursor
                        /\ e \notin dropped}

(* What is shown without a mark, an error or a request under way is as new *)
(* as every change the loop has read, though events come before their      *)
(* consumers are loaded and before there is a view to tell.  A request     *)
(* that fails leaves old data unmarked, so the error is what tells of it.  *)
CacheFollowsEvents == Cache!Shown => \A e \in Followed : e <= data

(* A response is left unread only for an event that was refused, once for  *)
(* each, and is never read again: the cursor is already behind the event.  *)
LeaksAreBounded ==
  /\ abandoned <= Cardinality(dropped \ {handling})
  /\ \A e \in dropped : cursor # None /\ e <= cursor

EventsInvariant == ShellType /\ LeaksAreBounded

=============================================================================
