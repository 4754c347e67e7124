-------------------------------- MODULE SignIn --------------------------------
(***************************************************************************)
(* Signing in (core/frontend/auth/oidc.ts and the effects of App.tsx): the *)
(* authorization code flow with a verifier and a state that sessionStorage *)
(* keeps while the browser is at the identity provider.  A click on the    *)
(* landing page starts an attempt; attempts may overlap, the page may be   *)
(* loaded again at any moment, and its memory with the promises that run   *)
(* is lost whenever it is left.                                            *)
(*                                                                         *)
(* An attempt names its verifier, its state and the code it is given.      *)
(***************************************************************************)
EXTENDS Naturals, FiniteSets

CONSTANTS
  Attempts,  \* clicks on "Sign in", numbered in that order
  MaxLoads,  \* bound: how often the page is loaded
  None

ASSUME SignInAssumption ==
  Attempts \subseteq Nat /\ IsFiniteSet(Attempts) /\ None \notin Attempts /\ MaxLoads \in Nat

VARIABLES
  development,    \* import.meta.env.DEV
  token,          \* sessionStorage: there is an access token
  storedState,    \* sessionStorage: the state
  storedVerifier, \* sessionStorage: the verifier
  redeemed,       \* the provider: codes that were exchanged
  url,            \* the attempt whose code and state are in the address
  page,           \* "open", or "away" while the browser is elsewhere
  metadata,       \* metadataPromise
  start,          \* start[a]: where beginSignIn of attempt a is
  leaving,        \* the attempt whose address was assigned last
  completing,     \* where completeSignIn is
  verifier,       \* the verifier completeSignIn has read
  signedIn,       \* App: signedIn
  surface,        \* App: activeSurface
  loads           \* how often the page was loaded

storageVars == <<token, storedState, storedVerifier>>
flowVars == <<metadata, start, leaving, completing, verifier>>
appVars == <<signedIn, surface>>
signInVars ==
  <<development, storageVars, redeemed, url, page, flowVars, appVars, loads>>

Attempt == Attempts \cup {None}

SignInType ==
  /\ {development, token, signedIn} \subseteq BOOLEAN
  /\ {storedState, storedVerifier, url, leaving, verifier} \subseteq Attempt
  /\ redeemed \subseteq Attempts
  /\ page \in {"open", "away"}
  /\ metadata \in {"none", "fetching", "known", "failed"}
  /\ start \in [Attempts -> {"unused", "metadata", "hashing", "used"}]
  /\ completing \in {"metadata", "exchanging", "ended", "failed"}
  /\ surface \in {"landing", "workspace"}
  /\ loads \in 0..MaxLoads

SignInInit ==
  /\ development \in BOOLEAN
  /\ token = FALSE /\ storedState = None /\ storedVerifier = None
  /\ redeemed = {} /\ url = None
  /\ page = "away" /\ loads = 0
  /\ metadata = "none" /\ leaving = None /\ completing = "ended" /\ verifier = None
  /\ start = [a \in Attempts |-> "unused"]
  /\ signedIn = FALSE /\ surface = "landing"

-----------------------------------------------------------------------------
(* Loading the page: App's first render and completeSignIn up to its       *)
(* first await.                                                            *)

(* The attempts that memory is lost of. *)
Abandoned == [a \in Attempts |-> IF start[a] = "unused" THEN "unused" ELSE "used"]

OpenPage ==
  /\ loads < MaxLoads /\ loads' = loads + 1
  /\ page' = "open" /\ leaving' = None
  /\ start' = Abandoned

(* No code in the address (or in development): the token decides. *)
LoadPage ==
  /\ OpenPage
  /\ development \/ url = None
  /\ completing' = "ended" /\ metadata' = "none" /\ verifier' = None
  /\ signedIn' = (development \/ token)
  /\ surface' = IF token THEN "workspace" ELSE "landing"
  /\ UNCHANGED <<development, storageVars, redeemed, url>>

(* The state in the address is not the stored one: completeSignIn throws.  *)
LoadMismatch ==
  /\ OpenPage
  /\ ~development /\ url # None
  /\ storedState # url \/ storedVerifier = None
  /\ completing' = "failed" /\ metadata' = "none" /\ verifier' = None
  /\ signedIn' = token /\ surface' = "landing"
  /\ UNCHANGED <<development, storageVars, redeemed, url>>

(* Bug: the state and the verifier are removed as soon as they are read. *)
LoadCallbackForgetting ==
  /\ OpenPage
  /\ ~development /\ url # None
  /\ storedState = url /\ storedVerifier # None
  /\ completing' = "metadata" /\ metadata' = "fetching" /\ verifier' = storedVerifier
  /\ signedIn' = token /\ surface' = "landing"
  /\ storedState' = None /\ storedVerifier' = None
  /\ UNCHANGED <<development, token, redeemed, url>>

LoadCallback ==
  /\ OpenPage
  /\ ~development /\ url # None
  /\ storedState = url /\ storedVerifier # None
  /\ completing' = "metadata" /\ metadata' = "fetching" /\ verifier' = storedVerifier
  /\ signedIn' = token /\ surface' = "landing"
  /\ UNCHANGED <<development, storageVars, redeemed, url>>

(* The browser comes from elsewhere, or the user loads the page again.     *)
EnterPage == LoadPage \/ LoadMismatch \/ LoadCallback

-----------------------------------------------------------------------------
(* beginSignIn *)

(* The verifier and the state of an attempt are stored together.           *)
Store(a) == storedState' = a /\ storedVerifier' = a

(* A click on the landing page: the surface changes in development,        *)
(* otherwise beginSignIn waits for the metadata.  After a request for them *)
(* that failed its rejection is all that is left until the page is loaded. *)
Click(a) ==
  /\ page = "open" /\ surface = "landing" /\ start[a] = "unused"
  /\ \A b \in Attempts : b < a => start[b] # "unused"
  /\ \/ /\ development
        /\ surface' = "workspace" /\ start' = [start EXCEPT ![a] = "used"]
        /\ UNCHANGED <<metadata, storedState, storedVerifier>>
     \/ /\ ~development /\ metadata \in {"none", "fetching"}
        /\ metadata' = "fetching" /\ start' = [start EXCEPT ![a] = "metadata"]
        /\ UNCHANGED <<surface, storedState, storedVerifier>>
     \/ /\ ~development /\ metadata = "known"
        /\ Store(a) /\ start' = [start EXCEPT ![a] = "hashing"]
        /\ UNCHANGED <<surface, metadata>>
     \/ /\ ~development /\ metadata = "failed"
        /\ start' = [start EXCEPT ![a] = "used"]
        /\ UNCHANGED <<surface, metadata, storedState, storedVerifier>>
  /\ UNCHANGED <<development, token, redeemed, url, page, leaving, completing, verifier,
                 signedIn, loads>>

Waiting == {a \in Attempts : start[a] = "metadata"}

(* Everything that waits goes on: the attempts in the order of their       *)
(* clicks, so that the last one's state is stored.                         *)
MetadataArrives ==
  /\ page = "open" /\ metadata = "fetching"
  /\ metadata' = "known"
  /\ start' = [a \in Attempts |-> IF a \in Waiting THEN "hashing" ELSE start[a]]
  /\ \/ \E a \in Waiting : (\A b \in Waiting : b <= a) /\ Store(a)
     \/ Waiting = {} /\ UNCHANGED <<storedState, storedVerifier>>
  /\ completing' = IF completing = "metadata" THEN "exchanging" ELSE completing
  /\ UNCHANGED <<development, token, redeemed, url, page, leaving, verifier, appVars, loads>>

MetadataFails ==
  /\ page = "open" /\ metadata = "fetching"
  /\ metadata' = "failed"
  /\ start' = [a \in Attempts |-> IF a \in Waiting THEN "used" ELSE start[a]]
  /\ completing' = IF completing = "metadata" THEN "failed" ELSE completing
  /\ UNCHANGED <<development, storageVars, redeemed, url, page, leaving, verifier, appVars, loads>>

(* The challenge is computed, in any order for several attempts, and the   *)
(* address of the provider assigned: the last one counts.                  *)
Assign(a) ==
  /\ page = "open" /\ start[a] = "hashing"
  /\ start' = [start EXCEPT ![a] = "used"]
  /\ leaving' = a
  /\ UNCHANGED <<development, storageVars, redeemed, url, page, metadata, completing, verifier,
                 appVars, loads>>

(* The page is left.  The provider sends the browser back with a code for  *)
(* this attempt, or without one.                                           *)
LeavePage ==
  /\ page = "open" /\ leaving # None
  /\ page' = "away"
  /\ url' \in {leaving, None}
  /\ metadata' = "none" /\ leaving' = None /\ completing' = "ended" /\ verifier' = None
  /\ start' = Abandoned
  /\ UNCHANGED <<development, storageVars, redeemed, appVars, loads>>

-----------------------------------------------------------------------------
(* completeSignIn, its exchange *)

(* The provider accepts a code once, with the verifier of its attempt.     *)
Redeemable == url \notin redeemed /\ verifier = url

ExchangeSucceeds ==
  /\ page = "open" /\ completing = "exchanging" /\ Redeemable
  /\ redeemed' = redeemed \cup {url}
  /\ token' = TRUE /\ storedState' = None /\ storedVerifier' = None
  /\ url' = None /\ completing' = "ended"
  /\ signedIn' = TRUE /\ surface' = "workspace"
  /\ UNCHANGED <<development, page, metadata, start, leaving, verifier, loads>>

(* The answer is lost, is an error or has no token. *)
ExchangeFails ==
  /\ page = "open" /\ completing = "exchanging"
  /\ \/ UNCHANGED redeemed
     \/ Redeemable /\ redeemed' = redeemed \cup {url}
  /\ completing' = "failed"
  /\ UNCHANGED <<development, storageVars, url, page, metadata, start, leaving, verifier,
                 appVars, loads>>

-----------------------------------------------------------------------------
(* Navigation inside the page: setActiveSurface of App. *)

ShowLanding ==
  /\ page = "open" /\ surface = "workspace"
  /\ surface' = "landing"
  /\ UNCHANGED <<development, storageVars, redeemed, url, page, flowVars, signedIn, loads>>

SignInNext ==
  \/ EnterPage \/ LeavePage \/ ShowLanding
  \/ \E a \in Attempts : Click(a) \/ Assign(a)
  \/ MetadataArrives \/ MetadataFails \/ ExchangeSucceeds \/ ExchangeFails

-----------------------------------------------------------------------------
(* Safety *)

(* State and verifier are of one attempt, also while others overlap. *)
StoredTogether == storedState = storedVerifier

(* A code is exchanged with the verifier of its own attempt. *)
ExchangesOwnCode == completing \in {"metadata", "exchanging"} => verifier = url

(* When the state that a callback needs is gone, then the user is signed   *)
(* in already or has clicked again: a sign-in is not lost otherwise, by no *)
(* failed or repeated exchange and no reload.                              *)
CallbackIsAnswerable ==
  url # None =>
    \/ storedState = url
    \/ token
    \/ storedState # None /\ storedState > url

SignInInvariant ==
  SignInType /\ StoredTogether /\ ExchangesOwnCode /\ CallbackIsAnswerable

=============================================================================
