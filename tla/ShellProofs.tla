------------------------------ MODULE ShellProofs ------------------------------
(***************************************************************************)
(* Proofs about Shell, for any modules, places, bundles, attempts, events  *)
(* and bounds: what a slot that is shown contains, what a sign-in needs,   *)
(* and what the events of the server do to the cache.                      *)
(***************************************************************************)
EXTENDS Shell, FiniteSetTheorems, SequenceTheorems, TLAPS

-----------------------------------------------------------------------------
(* Contributions *)

(* The parts of the invariant that the steps are checked for: what is      *)
(* shown follows from them.                                                *)
PlacesFit ==
  \A p \in Places :
    /\ place[p] = "waiting" => awaited[p] # {} /\ awaited[p] = Modules \ loaded
    /\ place[p] = "ready" => loaded = Modules
WaitedForIsLoading == \A p \in Places, m \in Modules : Waits(p, m) => pending[m] = "loading"
LoadedIsComplete ==
  \A m \in Modules :
    /\ m \in loaded => pending[m] = "none" /\ Exports(m) \subseteq registered
    /\ pending[m] # "none" => m \notin loaded

LEMMA ContributionsByParts ==
  ContributionsInvariant <=>
    ContributionsType /\ PlacesFit /\ WaitedForIsLoading /\ LoadedIsComplete
BY DEF ContributionsInvariant, ShownIsComplete, ContributionsType,
       PlacesFit, WaitedForIsLoading, LoadedIsComplete

LEMMA PartsSuffice ==
  (ContributionsType /\ PlacesFit /\ WaitedForIsLoading /\ LoadedIsComplete)' =>
     ContributionsInvariant'
BY DEF ContributionsInvariant, ShownIsComplete, ContributionsType,
       PlacesFit, WaitedForIsLoading, LoadedIsComplete

(* What a module exports are items, those that it gets registered too.     *)
LEMMA ExportsAreItems ==
  ASSUME ContributionsType, NEW m \in Modules
  PROVE  /\ Exports(m) \subseteq Item /\ Accepted(m) \subseteq Exports(m)
         /\ Duplicates(m) = {} => Accepted(m) = Exports(m)
<1>1. bundle[m] \in Bundle BY BundlesAssumption DEF ContributionsType
<1>2. bundle[m].exports \in Seq(Item) BY <1>1 DEF Bundle
<1>3. \A i \in DOMAIN bundle[m].exports : bundle[m].exports[i] \in Item
  BY <1>2, LenProperties, ElementOfSeq
<1> QED BY <1>3 DEF Exports, Accepted

LEMMA MountKeeps ==
  ASSUME ContributionsInvariant, NEW p \in Places, Mount(p)
  PROVE  ContributionsInvariant'
<1> USE ContributionsByParts DEF Mount
<1>1. \A m \in Modules :
        pending'[m] = IF m \notin loaded /\ pending[m] = "none" THEN "loading" ELSE pending[m]
  BY DEF Awaits
<1>2. \A q \in Places : awaited'[q] = IF q = p THEN Modules \ loaded ELSE awaited[q]
  BY DEF Awaits, ContributionsType
<1>3. PICK shown \in {"ready", "failed", "waiting"} :
        /\ place' = [place EXCEPT ![p] = shown]
        /\ shown = "ready" <=> Modules \ loaded = {}
        /\ shown = "waiting" => \A m \in Modules \ loaded : pending[m] # "rejected"
  BY DEF Awaits
<1>4. \A q \in Places : place'[q] = IF q = p THEN shown ELSE place[q]
  BY <1>3 DEF ContributionsType
<1>5. ContributionsType'
  <2>1. pending' \in [Modules -> {"none", "loading", "rejected"}]
    BY <1>1 DEF ContributionsType
  <2>2. awaited' \in [Places -> SUBSET Modules] BY DEF ContributionsType, Awaits
  <2> QED BY <1>3, <2>1, <2>2 DEF ContributionsType
<1>6. PlacesFit' BY <1>2, <1>3, <1>4 DEF PlacesFit, ContributionsType
<1>7. WaitedForIsLoading'
  BY <1>1, <1>2, <1>3, <1>4 DEF WaitedForIsLoading, Waits, ContributionsType
<1>8. LoadedIsComplete' BY <1>1 DEF LoadedIsComplete, Exports
<1> QED BY <1>5, <1>6, <1>7, <1>8, PartsSuffice

LEMMA UnmountKeeps ==
  ASSUME ContributionsInvariant, NEW p \in Places, Unmount(p)
  PROVE  ContributionsInvariant'
<1> USE ContributionsByParts DEF Unmount
<1>1. /\ \A q \in Places : place'[q] = IF q = p THEN "unmounted" ELSE place[q]
      /\ \A q \in Places : q # p => awaited'[q] = awaited[q]
  BY DEF ContributionsType
<1>2. ContributionsType' BY DEF ContributionsType
<1>3. PlacesFit' BY <1>1 DEF PlacesFit
<1>4. WaitedForIsLoading' BY <1>1 DEF WaitedForIsLoading, Waits
<1>5. LoadedIsComplete' BY DEF LoadedIsComplete, Exports
<1> QED BY <1>2, <1>3, <1>4, <1>5, PartsSuffice

LEMMA LoadKeeps ==
  ASSUME ContributionsInvariant, NEW m \in Modules, Load(m)
  PROVE  ContributionsInvariant'
<1> USE ContributionsByParts DEF Load
<1>1. \A n \in Modules : pending'[n] = IF n = m THEN "none" ELSE pending[n]
  BY DEF ContributionsType
<1>2. \A q \in Places :
        /\ awaited'[q] = awaited[q] \ {m}
        /\ place'[q] = IF Waits(q, m) /\ awaited[q] = {m} THEN "ready" ELSE place[q]
  OBVIOUS
<1>3. Exports(m) \subseteq Item /\ Accepted(m) = Exports(m) BY ExportsAreItems
<1>4. m \notin loaded BY DEF LoadedIsComplete
<1>5. ContributionsType'
  <2>1. place' \in [Places -> {"unmounted", "waiting", "ready", "failed"}]
    BY DEF ContributionsType
  <2>2. awaited' \in [Places -> SUBSET Modules] BY DEF ContributionsType
  <2> QED BY <1>3, <2>1, <2>2 DEF ContributionsType
<1>6. PlacesFit'
  <2>1. ASSUME NEW q \in Places, place'[q] = "waiting"
        PROVE  awaited'[q] # {} /\ awaited'[q] = Modules \ loaded'
    <3>1. place[q] = "waiting" /\ ~(Waits(q, m) /\ awaited[q] = {m}) BY <1>2, <2>1
    <3>2. awaited[q] # {} /\ awaited[q] = Modules \ loaded BY <3>1 DEF PlacesFit
    <3>3. Waits(q, m) BY <1>4, <3>1, <3>2 DEF Waits
    <3> QED BY <1>2, <3>1, <3>2, <3>3
  <2>2. ASSUME NEW q \in Places, place'[q] = "ready" PROVE loaded' = Modules
    <3>1. CASE place[q] = "ready" BY <3>1 DEF PlacesFit, ContributionsType
    <3>2. CASE place[q] # "ready"
      <4>1. Waits(q, m) /\ awaited[q] = {m} BY <1>2, <2>2, <3>2
      <4>2. Modules \ loaded = {m} BY <4>1 DEF PlacesFit, Waits
      <4> QED BY <4>2 DEF ContributionsType
    <3> QED BY <3>1, <3>2
  <2> QED BY <2>1, <2>2 DEF PlacesFit
<1>7. WaitedForIsLoading'
  <2>1. ASSUME NEW q \in Places, NEW n \in Modules, place'[q] = "waiting", n \in awaited'[q]
        PROVE  pending'[n] = "loading"
    <3>1. n # m /\ Waits(q, n) BY <1>2, <2>1 DEF Waits
    <3> QED BY <1>1, <3>1 DEF WaitedForIsLoading
  <2> QED BY <2>1 DEF WaitedForIsLoading, Waits
<1>8. LoadedIsComplete' BY <1>1, <1>3 DEF LoadedIsComplete, Exports
<1> QED BY <1>5, <1>6, <1>7, <1>8, PartsSuffice

(* A module that is rejected is awaited by nobody any more. *)
LEMMA RejectKeeps ==
  ASSUME ContributionsInvariant, NEW m \in Modules, pending[m] = "loading", Reject(m),
         registered \subseteq registered', registered' \subseteq Item
  PROVE  ContributionsInvariant'
<1> USE ContributionsByParts DEF Reject
<1>1. /\ \A n \in Modules : pending'[n] = IF n = m THEN "rejected" ELSE pending[n]
      /\ \A q \in Places : place'[q] = IF Waits(q, m) THEN "failed" ELSE place[q]
  BY DEF ContributionsType
<1>2. m \notin loaded BY DEF LoadedIsComplete
<1>3. ContributionsType'
  <2>1. place' \in [Places -> {"unmounted", "waiting", "ready", "failed"}]
    BY DEF ContributionsType
  <2> QED BY <2>1 DEF ContributionsType
<1>4. PlacesFit' BY <1>1 DEF PlacesFit
<1>5. WaitedForIsLoading' BY <1>1 DEF WaitedForIsLoading, Waits
<1>6. LoadedIsComplete' BY <1>1, <1>2 DEF LoadedIsComplete, Exports
<1> QED BY <1>3, <1>4, <1>5, <1>6, PartsSuffice

LEMMA LoadingKeeps ==
  ASSUME ContributionsInvariant, NEW m \in Modules,
         Load(m) \/ LoadFails(m) \/ LoadCollides(m)
  PROVE  ContributionsInvariant'
<1>1. ContributionsType BY ContributionsByParts
<1>2. CASE Load(m) BY <1>2, LoadKeeps
<1>3. CASE LoadFails(m) BY <1>1, <1>3, RejectKeeps DEF LoadFails, ContributionsType
<1>4. CASE LoadCollides(m)
  <2>1. registered \subseteq registered' /\ registered' \subseteq Item
    BY <1>1, <1>4, ExportsAreItems DEF LoadCollides, ContributionsType
  <2> QED BY <1>4, <2>1, RejectKeeps DEF LoadCollides
<1> QED BY <1>2, <1>3, <1>4

LEMMA ForgetKeeps ==
  ASSUME ContributionsInvariant, Forget
  PROVE  ContributionsInvariant'
<1> USE ContributionsByParts DEF Forget
<1>1. ContributionsType' BY DEF ContributionsType
<1>2. PlacesFit' BY DEF PlacesFit
<1>3. WaitedForIsLoading' BY DEF WaitedForIsLoading, Waits
<1>4. LoadedIsComplete' BY DEF LoadedIsComplete
<1> QED BY <1>1, <1>2, <1>3, <1>4, PartsSuffice

LEMMA ContributionsInitially == ContributionsInit => ContributionsInvariant
BY ContributionsByParts
   DEF ContributionsInit, NothingLoaded, ContributionsType, PlacesFit, WaitedForIsLoading,
       Waits, LoadedIsComplete

LEMMA ContributionsStutter ==
  ASSUME ContributionsInvariant, UNCHANGED contributionVars
  PROVE  ContributionsInvariant'
BY DEF contributionVars, ContributionsInvariant, ContributionsType, ShownIsComplete, Exports, Waits

(* The steps of the shell, as steps of the contributions. *)
LEMMA ShellLoads ==
  ASSUME [ShellNext]_shellVars
  PROVE  \/ \E p \in Places : Mount(p) \/ Unmount(p)
         \/ \E m \in Modules : Load(m) \/ LoadFails(m) \/ LoadCollides(m)
         \/ Forget
         \/ UNCHANGED contributionVars
BY DEF ShellNext, Travel, PageLost, SignInStep, MountPlace, UnmountPlace, Loading, ViewMounts,
       ViewLeaves, CommandSucceeds, FetchAnswers, FetchFails, FetchEnds, PageStays, Occur,
       Connect, Receive, Handled, HandleFails, Break, shellVars

(* A place shows its slot only when everything that was ever to be in it   *)
(* is registered, whatever places ask for it, in whatever order modules    *)
(* arrive, fail or collide.                                                *)
THEOREM ContributionsInvariantHolds == ShellSpec => []ContributionsInvariant
<1>1. ShellInit => ContributionsInvariant BY ContributionsInitially DEF ShellInit
<1>2. ASSUME ContributionsInvariant, [ShellNext]_shellVars PROVE ContributionsInvariant'
  BY <1>2, ShellLoads, MountKeeps, UnmountKeeps, LoadingKeeps, ForgetKeeps, ContributionsStutter
<1> QED BY <1>1, <1>2, PTL DEF ShellSpec

-----------------------------------------------------------------------------
(* Signing in *)

(* A later attempt, or the token, answers for a callback of attempt x.     *)
Answerable(x) == storedState = x \/ token \/ (storedState # None /\ storedState > x)

(* Attempts are made in order, and whatever is stored or in an address is  *)
(* of one of them.                                                         *)
AttemptsInOrder ==
  /\ \A a, b \in Attempts : start[a] = "unused" /\ start[b] # "unused" => b < a
  /\ storedState # None => start[storedState] # "unused"
  /\ leaving # None => start[leaving] # "unused"

(* What the attempts under way have stored, and the one that came back.    *)
UnderWay ==
  /\ \A a \in Attempts : start[a] = "hashing" => metadata = "known" /\ Answerable(a)
  /\ leaving # None => metadata = "known" /\ Answerable(leaving)
  /\ url # None => /\ start[url] = "used"
                   /\ \A a \in Attempts : start[a] \in {"metadata", "hashing"} => url < a
  /\ completing \in {"metadata", "exchanging"} => url # None

SignInStrong == SignInInvariant /\ AttemptsInOrder /\ UnderWay

LEMMA StrongByParts ==
  SignInStrong <=>
    /\ SignInType /\ StoredTogether /\ ExchangesOwnCode
    /\ url # None => Answerable(url)
    /\ AttemptsInOrder /\ UnderWay
BY DEF SignInStrong, SignInInvariant, CallbackIsAnswerable, Answerable

LEMMA SignInInitially == SignInInit => SignInStrong
<1> SUFFICES ASSUME SignInInit PROVE SignInStrong OBVIOUS
<1> USE DEF SignInInit
<1>1. development \in BOOLEAN /\ token \in BOOLEAN /\ signedIn \in BOOLEAN BY Zenon
<1>2. /\ {storedState, storedVerifier, url, leaving, verifier} \subseteq Attempt
      /\ redeemed \subseteq Attempts
      /\ page \in {"open", "away"} /\ metadata \in {"none", "fetching", "known", "failed"}
      /\ start \in [Attempts -> {"unused", "metadata", "hashing", "used"}]
      /\ completing \in {"metadata", "exchanging", "ended", "failed"}
      /\ surface \in {"landing", "workspace"} /\ loads \in 0..MaxLoads
  BY SignInAssumption DEF Attempt
<1>3. SignInType BY <1>1, <1>2, Zenon DEF SignInType
<1>4. StoredTogether /\ ExchangesOwnCode BY DEF StoredTogether, ExchangesOwnCode
<1>5. AttemptsInOrder /\ UnderWay BY DEF AttemptsInOrder, UnderWay
<1> QED BY <1>3, <1>4, <1>5, StrongByParts

LEMMA StrongStutter ==
  ASSUME SignInStrong, UNCHANGED signInVars
  PROVE  SignInStrong'
BY DEF signInVars, storageVars, flowVars, appVars, SignInStrong, SignInInvariant, SignInType,
       StoredTogether, ExchangesOwnCode, CallbackIsAnswerable, AttemptsInOrder, UnderWay, Answerable

(* After the page is loaded no attempt is under way. *)
LEMMA EnterKeeps ==
  ASSUME SignInStrong, EnterPage
  PROVE  SignInStrong'
<1> USE DEF SignInStrong, SignInInvariant
<1>1. /\ UNCHANGED <<development, storageVars, redeemed, url>>
      /\ OpenPage
  BY DEF EnterPage, LoadPage, LoadMismatch, LoadCallback
<1>2. /\ start' \in [Attempts -> {"unused", "used"}]
      /\ \A a \in Attempts : start'[a] = "unused" <=> start[a] = "unused"
  BY <1>1 DEF OpenPage, Abandoned
<1>3. SignInType'
  <2>1. /\ loads' \in 0..MaxLoads /\ page' = "open" /\ leaving' = None
    BY <1>1, SignInAssumption DEF OpenPage, SignInType
  <2>2. /\ completing' \in {"metadata", "ended", "failed"}
        /\ metadata' \in {"none", "fetching"}
        /\ verifier' \in {None, storedVerifier}
        /\ surface' \in {"landing", "workspace"}
    BY DEF EnterPage, LoadPage, LoadMismatch, LoadCallback
  <2>3. signedIn' \in BOOLEAN
    <3>1. CASE LoadPage BY <3>1 DEF LoadPage
    <3>2. CASE LoadMismatch \/ LoadCallback
      <4>1. signedIn' = token BY <3>2 DEF LoadMismatch, LoadCallback
      <4>2. token \in BOOLEAN BY DEF SignInType
      <4> QED BY <4>1, <4>2, Zenon
    <3> QED BY <3>1, <3>2 DEF EnterPage
  <2>4. development' \in BOOLEAN /\ token' \in BOOLEAN
    BY <1>1, Zenon DEF SignInType, storageVars
  <2>5. /\ {storedState', storedVerifier', url', leaving', verifier'} \subseteq Attempt
        /\ redeemed' \subseteq Attempts
    BY <1>1, <2>1, <2>2 DEF SignInType, Attempt, storageVars
  <2>6. start' \in [Attempts -> {"unused", "metadata", "hashing", "used"}] BY <1>2
  <2> QED BY <2>1, <2>2, <2>3, <2>4, <2>5, <2>6, Zenon DEF SignInType
<1>4. StoredTogether' BY <1>1 DEF StoredTogether, storageVars
<1>5. ExchangesOwnCode'
  BY DEF EnterPage, LoadPage, LoadMismatch, LoadCallback, ExchangesOwnCode, StoredTogether,
         storageVars
<1>6. url' # None => Answerable(url)'
  BY <1>1, StrongByParts DEF storageVars, Answerable
<1>7. leaving' = None BY <1>1 DEF OpenPage
<1>8. AttemptsInOrder' BY <1>1, <1>2, <1>7 DEF AttemptsInOrder, storageVars, SignInType, Attempt
<1>9. UnderWay'
  <2>1. completing' \in {"metadata", "exchanging"} => url' # None
    BY DEF EnterPage, LoadPage, LoadMismatch, LoadCallback
  <2> QED BY <1>1, <1>2, <1>7, <2>1 DEF UnderWay, SignInType, Attempt
<1> QED BY <1>3, <1>4, <1>5, <1>6, <1>8, <1>9 DEF CallbackIsAnswerable, Answerable

LEMMA ClickKeeps ==
  ASSUME SignInStrong, NEW a \in Attempts, Click(a)
  PROVE  SignInStrong'
<1> USE DEF SignInStrong, SignInInvariant, Click
<1>1. a \in Nat /\ a # None /\ \A b \in Attempts : b \in Nat BY SignInAssumption
<1>2. PICK at \in {"used", "metadata", "hashing"} :
        /\ start' = [start EXCEPT ![a] = at]
        /\ at = "hashing" => metadata = "known" /\ Store(a)
        /\ at # "hashing" => UNCHANGED <<storedState, storedVerifier>>
        /\ at = "metadata" => metadata' = "fetching"
        /\ at # "metadata" => metadata' = metadata
  OBVIOUS
<1>3. /\ start' \in [Attempts -> {"unused", "metadata", "hashing", "used"}]
      /\ \A b \in Attempts : start'[b] = IF b = a THEN at ELSE start[b]
  BY <1>2 DEF SignInType
<1>4. \A b \in Attempts : start[b] # "unused" => b < a
  BY DEF AttemptsInOrder
<1>5. start[a] = "unused" OBVIOUS
<1>6. /\ UNCHANGED <<development, token, redeemed, url, page, leaving, completing, verifier,
                     signedIn, loads>>
      /\ surface' \in {"landing", "workspace"}
      /\ metadata' \in {"none", "fetching", "known", "failed"}
      /\ metadata = "known" => metadata' = "known"
  BY DEF SignInType
<1>7. /\ storedState' = storedVerifier'
      /\ storedState' = storedState \/ storedState' = a
      /\ storedState' \in Attempt
  BY <1>2 DEF Store, StoredTogether, SignInType, Attempt
<1>8. SignInType'
  <2>1. development' \in BOOLEAN /\ token' \in BOOLEAN /\ signedIn' \in BOOLEAN
    BY <1>6, Zenon DEF SignInType
  <2>2. /\ {storedState', storedVerifier', url', leaving', verifier'} \subseteq Attempt
        /\ redeemed' \subseteq Attempts /\ page' \in {"open", "away"}
        /\ completing' \in {"metadata", "exchanging", "ended", "failed"}
        /\ loads' \in 0..MaxLoads
    BY <1>6, <1>7 DEF SignInType
  <2> QED BY <1>3, <1>6, <2>1, <2>2, Zenon DEF SignInType
<1>9. StoredTogether' BY <1>7 DEF StoredTogether
<1>10. ExchangesOwnCode' BY <1>6 DEF ExchangesOwnCode
<1>11. ASSUME NEW x \in Attempts, start[x] # "unused", Answerable(x)
       PROVE  storedState' = x \/ token' \/ (storedState' # None /\ storedState' > x)
  <2>1. x < a /\ x \in Nat BY <1>1, <1>4, <1>11
  <2>2. CASE storedState' = storedState BY <1>6, <1>11, <2>2 DEF Answerable
  <2>3. CASE storedState' = a BY <1>1, <2>1, <2>3
  <2> QED BY <1>7, <2>2, <2>3
<1>12. url' # None => Answerable(url)'
  BY <1>6, <1>11, StrongByParts DEF Answerable, UnderWay, SignInType, Attempt
<1>13. AttemptsInOrder'
  <2>1. ASSUME NEW b \in Attempts, NEW c \in Attempts, start'[b] = "unused", start'[c] # "unused"
        PROVE  c < b
    <3>1. b # a /\ start[b] = "unused" BY <1>2, <1>3, <2>1
    <3>2. CASE c = a
      <4>1. ~(b < a) BY <3>1
      <4> QED BY <1>1, <3>1, <3>2, <4>1
    <3>3. CASE c # a BY <1>3, <2>1, <3>1, <3>3 DEF AttemptsInOrder
    <3> QED BY <3>2, <3>3
  <2>2. storedState' # None => start'[storedState'] # "unused"
    BY <1>1, <1>2, <1>3, <1>7 DEF AttemptsInOrder, SignInType, Attempt
  <2>3. leaving' # None => start'[leaving'] # "unused"
    BY <1>2, <1>3, <1>6 DEF AttemptsInOrder, SignInType, Attempt
  <2> QED BY <2>1, <2>2, <2>3 DEF AttemptsInOrder
<1>14. UnderWay'
  <2>1. ASSUME NEW b \in Attempts, start'[b] = "hashing"
        PROVE  /\ metadata' = "known"
               /\ storedState' = b \/ token' \/ (storedState' # None /\ storedState' > b)
    <3>1. CASE b = a BY <1>2, <1>3, <1>6, <2>1, <3>1 DEF Store
    <3>2. CASE b # a BY <1>3, <1>6, <1>11, <2>1, <3>2 DEF UnderWay
    <3> QED BY <3>1, <3>2
  <2>2. leaving' # None =>
          /\ metadata' = "known"
          /\ \/ storedState' = leaving' \/ token'
             \/ storedState' # None /\ storedState' > leaving'
    BY <1>6, <1>11 DEF UnderWay, AttemptsInOrder, SignInType, Attempt
  <2>3. url' # None =>
          /\ start'[url'] = "used"
          /\ \A b \in Attempts : start'[b] \in {"metadata", "hashing"} => url' < b
    BY <1>3, <1>4, <1>5, <1>6 DEF UnderWay, SignInType, Attempt
  <2> QED BY <1>6, <2>1, <2>2, <2>3 DEF UnderWay, Answerable
<1> QED BY <1>8, <1>9, <1>10, <1>12, <1>13, <1>14 DEF CallbackIsAnswerable, Answerable

(* The attempt whose state is stored last is the latest one. *)
LEMMA ArriveKeeps ==
  ASSUME SignInStrong, MetadataArrives
  PROVE  SignInStrong'
<1> USE DEF SignInStrong, SignInInvariant, MetadataArrives
<1>1. \A b \in Attempts : b \in Nat /\ b # None BY SignInAssumption
<1>2. /\ start' \in [Attempts -> {"unused", "metadata", "hashing", "used"}]
      /\ \A b \in Attempts : start'[b] = IF start[b] = "metadata" THEN "hashing" ELSE start[b]
  BY DEF SignInType, Waiting
<1>3. /\ UNCHANGED <<development, token, redeemed, url, page, leaving, verifier,
                     signedIn, surface, loads>>
      /\ metadata' = "known"
      /\ completing' = IF completing = "metadata" THEN "exchanging" ELSE completing
  BY DEF appVars
<1>4. leaving = None /\ \A b \in Attempts : start[b] # "hashing" BY DEF UnderWay
<1>5. \/ \E a \in Waiting :
           /\ \A b \in Waiting : b <= a
           /\ storedState' = a /\ storedVerifier' = a
      \/ Waiting = {} /\ storedState' = storedState /\ storedVerifier' = storedVerifier
  BY DEF Store
<1>6. SignInType'
  <2>1. development' \in BOOLEAN /\ token' \in BOOLEAN /\ signedIn' \in BOOLEAN
    BY <1>3, Zenon DEF SignInType
  <2>2. storedState' \in Attempt /\ storedVerifier' \in Attempt
    BY <1>5 DEF SignInType, Attempt, Waiting
  <2>3. /\ {storedState', storedVerifier', url', leaving', verifier'} \subseteq Attempt
        /\ redeemed' \subseteq Attempts /\ page' \in {"open", "away"}
        /\ completing' \in {"metadata", "exchanging", "ended", "failed"}
        /\ metadata' \in {"none", "fetching", "known", "failed"}
        /\ surface' \in {"landing", "workspace"} /\ loads' \in 0..MaxLoads
    BY <1>3, <2>2 DEF SignInType
  <2> QED BY <1>2, <2>1, <2>3, Zenon DEF SignInType
<1>7. StoredTogether' BY <1>5 DEF StoredTogether
<1>8. ExchangesOwnCode' BY <1>3 DEF ExchangesOwnCode
<1>9. url' # None => Answerable(url)'
  <2>1. SUFFICES ASSUME url # None PROVE Answerable(url)' BY <1>3
  <2>2. url \in Attempts /\ Answerable(url)
    BY <2>1, StrongByParts DEF SignInType, Attempt
  <2>3. ASSUME NEW a \in Waiting, storedState' = a PROVE storedState' # None /\ storedState' > url
    BY <1>1, <2>1, <2>2, <2>3 DEF Waiting, UnderWay
  <2> QED BY <1>3, <1>5, <2>2, <2>3 DEF Answerable
<1>10. AttemptsInOrder'
  <2>1. \A b \in Attempts : start'[b] = "unused" <=> start[b] = "unused" BY <1>2
  <2>2. storedState' = storedState
        \/ (storedState' \in Attempts /\ start[storedState'] = "metadata")
    BY <1>5 DEF Waiting
  <2> QED BY <1>3, <1>4, <2>1, <2>2 DEF AttemptsInOrder, SignInType, Attempt
<1>11. UnderWay'
  <2>1. ASSUME NEW b \in Attempts, start'[b] = "hashing"
        PROVE  storedState' = b \/ (storedState' # None /\ storedState' > b)
    <3>1. b \in Waiting BY <1>2, <1>4, <2>1 DEF Waiting
    <3>2. PICK a \in Waiting : (\A c \in Waiting : c <= a) /\ storedState' = a
      BY <1>5, <3>1
    <3>3. b <= a /\ a \in Nat /\ b \in Nat /\ a # None BY <1>1, <3>1, <3>2 DEF Waiting
    <3> QED BY <3>2, <3>3
  <2>2. url' # None =>
          /\ start'[url'] = "used"
          /\ \A b \in Attempts : start'[b] \in {"metadata", "hashing"} => url' < b
    BY <1>2, <1>3 DEF UnderWay, SignInType, Attempt
  <2> QED BY <1>3, <1>4, <2>1, <2>2 DEF UnderWay, Answerable
<1> QED BY <1>6, <1>7, <1>8, <1>9, <1>10, <1>11 DEF CallbackIsAnswerable, Answerable

(* Attempts that end without the page being left change nothing for others. *)
LEMMA DroppedKeeps ==
  ASSUME SignInStrong,
         UNCHANGED <<development, storageVars, url, page, leaving, verifier, loads>>,
         redeemed' \subseteq Attempts, signedIn' \in BOOLEAN, surface' \in {"landing", "workspace"},
         metadata' \in {"none", "fetching", "known", "failed"},
         metadata = "known" => metadata' = "known",
         completing' = completing \/ completing' = "failed",
         start' \in [Attempts -> {"unused", "metadata", "hashing", "used"}],
         \A a \in Attempts : start'[a] = start[a] \/ (start[a] # "unused" /\ start'[a] = "used")
  PROVE  SignInStrong'
<1> USE DEF SignInStrong, SignInInvariant, storageVars
<1>1. SignInType'
  <2>1. development' \in BOOLEAN /\ token' \in BOOLEAN BY Zenon DEF SignInType
  <2>2. /\ {storedState', storedVerifier', url', leaving', verifier'} \subseteq Attempt
        /\ page' \in {"open", "away"} /\ loads' \in 0..MaxLoads
        /\ completing' \in {"metadata", "exchanging", "ended", "failed"}
    BY DEF SignInType
  <2> QED BY <2>1, <2>2, Zenon DEF SignInType
<1>2. StoredTogether' /\ ExchangesOwnCode' BY DEF StoredTogether, ExchangesOwnCode
<1>3. CallbackIsAnswerable' BY DEF CallbackIsAnswerable
<1>4. AttemptsInOrder' BY DEF AttemptsInOrder, SignInType, Attempt
<1>5. UnderWay' BY DEF UnderWay, Answerable, SignInType, Attempt
<1> QED BY <1>1, <1>2, <1>3, <1>4, <1>5

LEMMA FailuresKeep ==
  ASSUME SignInStrong, MetadataFails \/ ExchangeFails \/ ShowLanding
  PROVE  SignInStrong'
<1>1. /\ signedIn \in BOOLEAN /\ surface \in {"landing", "workspace"}
      /\ metadata \in {"none", "fetching", "known", "failed"}
      /\ redeemed \subseteq Attempts
      /\ start \in [Attempts -> {"unused", "metadata", "hashing", "used"}]
  BY Zenon DEF SignInStrong, SignInInvariant, SignInType
<1>2. CASE MetadataFails
  <2>1. /\ start' \in [Attempts -> {"unused", "metadata", "hashing", "used"}]
        /\ \A a \in Attempts :
             start'[a] = start[a] \/ (start[a] # "unused" /\ start'[a] = "used")
    BY <1>1, <1>2 DEF MetadataFails, Waiting
  <2>2. signedIn' = signedIn /\ surface' = surface BY <1>2 DEF MetadataFails, appVars
  <2>3. signedIn' \in BOOLEAN BY <1>1, <2>2, Zenon
  <2> QED BY <1>1, <1>2, <2>1, <2>2, <2>3, DroppedKeeps DEF MetadataFails
<1>3. CASE ShowLanding
  <2>1. signedIn' = signedIn BY <1>3 DEF ShowLanding
  <2>2. signedIn' \in BOOLEAN BY <1>1, <2>1, Zenon
  <2> QED BY <1>1, <1>3, <2>2, DroppedKeeps DEF ShowLanding, flowVars
<1>4. CASE ExchangeFails
  <2>1. signedIn' = signedIn /\ surface' = surface BY <1>4 DEF ExchangeFails, appVars
  <2>2. signedIn' \in BOOLEAN BY <1>1, <2>1, Zenon
  <2>3. redeemed' \subseteq Attempts
    BY <1>1, <1>4 DEF ExchangeFails, Redeemable, SignInStrong, SignInInvariant, SignInType,
                      Attempt, UnderWay
  <2> QED BY <1>1, <1>4, <2>1, <2>2, <2>3, DroppedKeeps DEF ExchangeFails
<1> QED BY <1>2, <1>3, <1>4

(* The address of the provider is assigned, and the page is left for it.   *)
LEMMA AssignKeeps ==
  ASSUME SignInStrong, NEW a \in Attempts, Assign(a)
  PROVE  SignInStrong'
<1> USE DEF SignInStrong, SignInInvariant, Assign
<1>1. /\ start' \in [Attempts -> {"unused", "metadata", "hashing", "used"}]
      /\ \A b \in Attempts : start'[b] = IF b = a THEN "used" ELSE start[b]
      /\ a # None /\ metadata = "known" /\ Answerable(a)
  BY SignInAssumption DEF SignInType, UnderWay
<1>2. /\ UNCHANGED <<development, storedState, storedVerifier, token, redeemed, url, page,
                     metadata, completing, verifier, signedIn, surface, loads>>
      /\ leaving' = a
  BY DEF storageVars, appVars
<1>3. SignInType'
  <2>1. development' \in BOOLEAN /\ token' \in BOOLEAN /\ signedIn' \in BOOLEAN
    BY <1>2, Zenon DEF SignInType
  <2>2. /\ {storedState', storedVerifier', url', leaving', verifier'} \subseteq Attempt
        /\ redeemed' \subseteq Attempts /\ page' \in {"open", "away"}
        /\ completing' \in {"metadata", "exchanging", "ended", "failed"}
        /\ metadata' \in {"none", "fetching", "known", "failed"}
        /\ surface' \in {"landing", "workspace"} /\ loads' \in 0..MaxLoads
    BY <1>2 DEF SignInType, Attempt
  <2> QED BY <1>1, <2>1, <2>2, Zenon DEF SignInType
<1>4. StoredTogether' /\ ExchangesOwnCode' /\ CallbackIsAnswerable'
  BY <1>2 DEF StoredTogether, ExchangesOwnCode, CallbackIsAnswerable
<1>5. AttemptsInOrder' BY <1>1, <1>2 DEF AttemptsInOrder, SignInType, Attempt
<1>6. UnderWay' BY <1>1, <1>2 DEF UnderWay, Answerable, SignInType, Attempt
<1> QED BY <1>3, <1>4, <1>5, <1>6

LEMMA LeaveKeeps ==
  ASSUME SignInStrong, LeavePage
  PROVE  SignInStrong'
<1> USE DEF SignInStrong, SignInInvariant, LeavePage
<1>1. /\ start' \in [Attempts -> {"unused", "used"}]
      /\ \A a \in Attempts : start'[a] = "unused" <=> start[a] = "unused"
  BY DEF Abandoned
<1>2. /\ UNCHANGED <<development, storedState, storedVerifier, token, redeemed,
                     signedIn, surface, loads>>
      /\ metadata' = "none" /\ leaving' = None /\ completing' = "ended" /\ verifier' = None
      /\ page' = "away"
      /\ url' # None => url' = leaving /\ url' \in Attempts /\ Answerable(leaving)
      /\ url' \in Attempt
  BY DEF storageVars, appVars, UnderWay, SignInType, Attempt
<1>3. SignInType'
  <2>1. development' \in BOOLEAN /\ token' \in BOOLEAN /\ signedIn' \in BOOLEAN
    BY <1>2, Zenon DEF SignInType
  <2>2. /\ {storedState', storedVerifier', url', leaving', verifier'} \subseteq Attempt
        /\ redeemed' \subseteq Attempts
        /\ surface' \in {"landing", "workspace"} /\ loads' \in 0..MaxLoads
    BY <1>2 DEF SignInType, Attempt
  <2>3. start' \in [Attempts -> {"unused", "metadata", "hashing", "used"}] BY <1>1
  <2> QED BY <1>2, <2>1, <2>2, <2>3, Zenon DEF SignInType
<1>4. StoredTogether' /\ ExchangesOwnCode' BY <1>2 DEF StoredTogether, ExchangesOwnCode
<1>5. CallbackIsAnswerable' BY <1>2 DEF CallbackIsAnswerable, Answerable
<1>6. AttemptsInOrder' BY <1>1, <1>2 DEF AttemptsInOrder, SignInType, Attempt
<1>7. UnderWay'
  <2>1. url' # None => start'[url'] = "used"
    BY <1>1, <1>2 DEF AttemptsInOrder, SignInType
  <2> QED BY <1>1, <1>2, <2>1 DEF UnderWay
<1> QED BY <1>3, <1>4, <1>5, <1>6, <1>7

LEMMA SucceedKeeps ==
  ASSUME SignInStrong, ExchangeSucceeds
  PROVE  SignInStrong'
<1> USE DEF SignInStrong, SignInInvariant, ExchangeSucceeds
<1>1. /\ token' = TRUE /\ storedState' = None /\ storedVerifier' = None /\ url' = None
      /\ completing' = "ended" /\ signedIn' = TRUE /\ surface' = "workspace"
      /\ UNCHANGED <<development, page, metadata, start, leaving, verifier, loads>>
  OBVIOUS
<1>2. redeemed' \subseteq Attempts BY DEF UnderWay, SignInType, Attempt
<1>3. SignInType'
  <2>1. development' \in BOOLEAN /\ token' \in BOOLEAN /\ signedIn' \in BOOLEAN
    BY <1>1, Zenon DEF SignInType
  <2>2. /\ {storedState', storedVerifier', url', leaving', verifier'} \subseteq Attempt
        /\ page' \in {"open", "away"}
        /\ metadata' \in {"none", "fetching", "known", "failed"}
        /\ start' \in [Attempts -> {"unused", "metadata", "hashing", "used"}]
        /\ loads' \in 0..MaxLoads
    BY <1>1 DEF SignInType, Attempt
  <2>3. /\ completing' \in {"metadata", "exchanging", "ended", "failed"}
        /\ surface' \in {"landing", "workspace"}
    BY <1>1
  <2> QED BY <1>2, <2>1, <2>2, <2>3, Zenon DEF SignInType
<1>4. StoredTogether' /\ ExchangesOwnCode' /\ CallbackIsAnswerable'
  BY <1>1 DEF StoredTogether, ExchangesOwnCode, CallbackIsAnswerable
<1>5. AttemptsInOrder' BY <1>1 DEF AttemptsInOrder
<1>6. UnderWay' BY <1>1 DEF UnderWay, Answerable
<1> QED BY <1>3, <1>4, <1>5, <1>6

(* The steps of the shell, as steps of the sign-in. *)
LEMMA ShellSignsIn ==
  ASSUME [ShellNext]_shellVars
  PROVE  \/ EnterPage \/ LeavePage \/ ShowLanding
         \/ \E a \in Attempts : Click(a) \/ Assign(a)
         \/ MetadataArrives \/ MetadataFails \/ ExchangeSucceeds \/ ExchangeFails
         \/ UNCHANGED signInVars
BY DEF ShellNext, Travel, SignInStep, MountPlace, UnmountPlace, Loading, Stays, ViewMounts,
       ViewLeaves, CommandSucceeds, FetchAnswers, FetchFails, FetchEnds, PageStays, Occur,
       Connect, Receive, Handled, HandleFails, Break, shellVars

LEMMA SignInStrongHolds == ShellSpec => []SignInStrong
<1>1. ShellInit => SignInStrong BY SignInInitially DEF ShellInit
<1>2. ASSUME SignInStrong, [ShellNext]_shellVars PROVE SignInStrong'
  BY <1>2, ShellSignsIn, EnterKeeps, LeaveKeeps, FailuresKeep, ClickKeeps, AssignKeeps,
     ArriveKeeps, SucceedKeeps, StrongStutter
<1> QED BY <1>1, <1>2, PTL DEF ShellSpec

(* State and verifier stay together, a code is exchanged with the verifier *)
(* of its own attempt, and a callback whose state is gone is one of a user *)
(* who is signed in or has clicked again, whatever attempts overlap and    *)
(* whenever the page is left or loaded again.                              *)
THEOREM SignInInvariantHolds == ShellSpec => []SignInInvariant
<1>1. SignInStrong => SignInInvariant BY DEF SignInStrong
<1> QED BY <1>1, SignInStrongHolds, PTL

-----------------------------------------------------------------------------
(* Events *)

(* Before the first connection there is nothing; afterwards the cursor is  *)
(* at an event that occurred, the one that is being handled if any.        *)
EventsStrong ==
  /\ EventsInvariant
  /\ committed <= MaxEvents
  /\ cursor = None => connection = "off" /\ handling = None /\ dropped = {}
  /\ cursor # None => cursor <= committed
  /\ handling # None => handling = cursor /\ handling \in 1..MaxEvents

(* The types of the numbers that the steps of the loop compare. *)
LEMMA EventNumbers ==
  ASSUME EventsStrong
  PROVE  /\ committed \in Nat /\ abandoned \in Nat /\ began \in Nat
         /\ cursor \in Nat \cup {None} /\ handling \in Nat \cup {None}
         /\ connection \in {"off", "open"} /\ dropped \subseteq 1..MaxEvents
         /\ breaks \in 0..MaxBreaks
         /\ IsFiniteSet(dropped) /\ Cardinality(dropped) \in Nat
         /\ None \notin Nat /\ MaxEvents \in Nat /\ MaxBreaks \in Nat
<1>1. dropped \subseteq 1..MaxEvents /\ MaxEvents \in Nat
  BY ShellAssumption DEF EventsStrong, EventsInvariant, ShellType
<1>2. IsFiniteSet(1..MaxEvents) BY <1>1, FS_Interval
<1>3. IsFiniteSet(dropped) /\ Cardinality(dropped) \in Nat
  BY <1>1, <1>2, FS_Subset, FS_CardinalityType
<1> QED BY <1>1, <1>3, ShellAssumption DEF EventsStrong, EventsInvariant, ShellType

LEMMA EventTypes ==
  ASSUME EventsStrong
  PROVE  awaiting \in BOOLEAN /\ Cache!Type
BY Zenon DEF EventsStrong, EventsInvariant, ShellType

(* A refused event that is not being handled any more counts. *)
LEMMA DroppedNumbers ==
  ASSUME EventsStrong
  PROVE  /\ \A e \in dropped : e \in Nat /\ e # None /\ cursor # None /\ e <= cursor
         /\ abandoned <= Cardinality(dropped \ {handling})
         /\ handling \notin dropped => dropped \ {handling} = dropped
<1>1. dropped \subseteq 1..MaxEvents /\ None \notin Nat /\ MaxEvents \in Nat BY EventNumbers
<1>2. LeaksAreBounded BY DEF EventsStrong, EventsInvariant
<1> QED BY <1>1, <1>2 DEF LeaksAreBounded

(* The types of the cache, over what its users do. *)
LEMMA CacheTypes ==
  ASSUME Cache!Type, committed \in Nat, committed' = committed,
         \/ UNCHANGED cacheVars
         \/ Cache!Subscribe \/ Cache!Unsubscribe
         \/ \E several \in BOOLEAN : Cache!Invalidate(several)
         \/ Cache!Answer \/ Cache!Refuse \/ Cache!End \/ Cache!Clear
  PROVE  Cache!Type'
<1> USE DEF Cache!Subscribe, Cache!Unsubscribe, Cache!Invalidate, Cache!Answer, Cache!Refuse,
            Cache!End, Cache!Clear, Cache!Start, Cache!Ask, cacheVars
<1>1. asked \in Nat /\ data \in Nat \cup {None} /\ fetch \in {"none", "running", "ending"}
  BY DEF Cache!Type
<1>2. stale \in BOOLEAN /\ failed \in BOOLEAN /\ watched \in BOOLEAN BY Zenon DEF Cache!Type
<1>3. asked' \in Nat /\ fetch' \in {"none", "running", "ending"}
  BY <1>1
<1>4. data' \in Nat \cup {None} BY <1>1
<1>5. stale' \in BOOLEAN BY <1>2, Zenon
<1>6. failed' \in BOOLEAN BY <1>2, Zenon
<1>7. watched' \in BOOLEAN BY <1>2, Zenon
<1> QED BY <1>3, <1>4, <1>5, <1>6, <1>7, Zenon DEF Cache!Type

LEMMA EventsInitially == ShellInit => EventsStrong
<1> SUFFICES ASSUME ShellInit PROVE EventsStrong OBVIOUS
<1> USE DEF ShellInit
<1>1. Cardinality(dropped \ {handling}) = 0
  <2>1. dropped \ {handling} = {} OBVIOUS
  <2> QED BY <2>1, FS_EmptySet
<1>2. awaiting \in BOOLEAN /\ stale \in BOOLEAN /\ failed \in BOOLEAN /\ watched \in BOOLEAN
  BY Zenon DEF Cache!Init
<1>3. /\ {committed, abandoned, began, asked} \subseteq Nat
      /\ {cursor, handling, data} \subseteq Nat \cup {None}
      /\ connection \in {"off", "open"} /\ dropped \subseteq 1..MaxEvents
      /\ fetch \in {"none", "running", "ending"} /\ breaks \in 0..MaxBreaks
  BY ShellAssumption DEF Cache!Init
<1>4. ShellType BY <1>2, <1>3, Zenon DEF ShellType, Cache!Type
<1>5. LeaksAreBounded BY <1>1 DEF LeaksAreBounded
<1> QED BY <1>3, <1>4, <1>5, ShellAssumption DEF EventsStrong, EventsInvariant, Cache!Init

(* Steps that leave the loop alone, or only end its waiting. *)
LEMMA LoopAlone ==
  ASSUME EventsStrong,
         UNCHANGED <<connection, abandoned, cursor, began, handling, dropped, committed, breaks>>,
         awaiting' \in BOOLEAN, Cache!Type'
  PROVE  EventsStrong'
<1>1. /\ {committed', abandoned', began'} \subseteq Nat
      /\ {cursor', handling'} \subseteq Nat \cup {None}
      /\ connection' \in {"off", "open"} /\ dropped' \subseteq 1..MaxEvents
      /\ breaks' \in 0..MaxBreaks
  BY EventNumbers
<1>2. ShellType' BY <1>1, Zenon DEF ShellType
<1>3. LeaksAreBounded' BY DEF EventsStrong, EventsInvariant, LeaksAreBounded
<1> QED BY <1>2, <1>3 DEF EventsStrong, EventsInvariant

LEMMA OthersKeepEvents ==
  ASSUME EventsStrong,
         \/ SignInStep \/ UNCHANGED shellVars
         \/ \E p \in Places : MountPlace(p) \/ UnmountPlace(p)
         \/ \E m \in Modules : Loading(m)
         \/ ViewMounts \/ ViewLeaves \/ CommandSucceeds
         \/ FetchAnswers \/ FetchFails \/ FetchEnds
  PROVE  EventsStrong'
<1>1. UNCHANGED <<connection, abandoned, cursor, began, handling, dropped, breaks>>
  BY DEF SignInStep, MountPlace, UnmountPlace, Loading, Stays, shellVars, ViewMounts, ViewLeaves,
         CommandSucceeds, FetchAnswers, FetchFails, FetchEnds, PageStays, eventVars
<1>2. awaiting' = awaiting \/ awaiting' = FALSE
  BY DEF SignInStep, MountPlace, UnmountPlace, Loading, shellVars, ViewMounts, ViewLeaves,
         CommandSucceeds, FetchAnswers, FetchFails, FetchEnds, eventVars
<1>3. /\ committed' = committed
      /\ \/ UNCHANGED cacheVars
         \/ Cache!Subscribe \/ Cache!Unsubscribe \/ Cache!Invalidate(FALSE)
         \/ Cache!Answer \/ Cache!Refuse \/ Cache!End \/ Cache!Clear
  BY DEF SignInStep, IdentityEffect, MountPlace, UnmountPlace, Loading, Stays, shellVars, ViewMounts,
         ViewLeaves, CommandSucceeds, FetchAnswers, FetchFails, FetchEnds,
         Cache!Subscribe, Cache!Unsubscribe, Cache!Invalidate, Cache!Answer, Cache!Refuse,
         Cache!End, Cache!Clear, Cache!Start, Cache!Ask
<1>4. Cache!Type' BY <1>3, CacheTypes, EventTypes, EventNumbers
<1>5. awaiting' \in BOOLEAN BY <1>2, EventTypes, Zenon
<1> QED BY <1>1, <1>3, <1>4, <1>5, LoopAlone

(* The first connection, or another one. *)
LEMMA ConnectKeeps ==
  ASSUME EventsStrong, Connect
  PROVE  EventsStrong'
<1>1. UNCHANGED <<cacheVars, committed, awaiting>> BY DEF Connect
<1>2. cursor' \in Nat /\ cursor' <= committed
  <2>1. CASE cursor = None BY <2>1, EventNumbers DEF Connect, StartAt
  <2>2. CASE cursor # None BY <2>2, EventNumbers DEF Connect, StartAt, EventsStrong
  <2> QED BY <2>1, <2>2
<1>3. cursor # None => cursor' = cursor BY DEF Connect, StartAt
<1>4. began' \in Nat BY EventNumbers DEF Connect
<1>5. /\ UNCHANGED <<abandoned, handling, dropped, breaks>>
      /\ connection' = "open" /\ handling = None
  BY DEF Connect, PageStays
<1>6. /\ {committed', abandoned', began'} \subseteq Nat
      /\ {cursor', handling'} \subseteq Nat \cup {None}
      /\ connection' \in {"off", "open"} /\ dropped' \subseteq 1..MaxEvents
      /\ breaks' \in 0..MaxBreaks
  BY <1>1, <1>2, <1>4, <1>5, EventNumbers
<1>7. Cache!Type' BY <1>1, CacheTypes, EventTypes, EventNumbers
<1>8. awaiting' \in BOOLEAN BY <1>1, EventTypes, Zenon
<1>9. ShellType' BY <1>6, <1>7, <1>8, Zenon DEF ShellType
<1>10. LeaksAreBounded'
  BY <1>2, <1>3, <1>5, EventNumbers DEF EventsStrong, EventsInvariant, LeaksAreBounded
<1> QED BY <1>1, <1>2, <1>5, <1>9, <1>10, EventNumbers DEF EventsStrong, EventsInvariant

(* What a dispatch does to the cache and to what was refused. *)
LEMMA DispatchSteps ==
  ASSUME NEW e, Dispatch(e)
  PROVE  /\ committed' = committed
         /\ UNCHANGED cacheVars \/ \E several \in BOOLEAN : Cache!Invalidate(several)
         /\ dropped' = dropped \/ dropped' = dropped \cup {e}
         /\ awaiting' = FALSE \/ awaiting' = watched
<1> DEFINE several == \E x, y \in ConsumersOf(e) : x # y
<1>1. several \in BOOLEAN OBVIOUS
<1>2. \/ UNCHANGED <<committed, cacheVars, dropped>> /\ awaiting' = FALSE
      \/ Cache!Invalidate(several) /\ dropped' = dropped /\ awaiting' = watched
      \/ UNCHANGED <<committed, cacheVars>> /\ dropped' = dropped \cup {e} /\ awaiting' = FALSE
  BY DEF Dispatch
<1> HIDE DEF several
<1>3. Cache!Invalidate(several) => committed' = committed
  BY DEF Cache!Invalidate, Cache!Ask
<1> QED BY <1>1, <1>2, <1>3

(* An event is refused once: the cursor does not come back to it. *)
LEMMA ReceiveKeeps ==
  ASSUME EventsStrong, Receive
  PROVE  EventsStrong'
<1> DEFINE e == cursor + 1
<1>1. cursor # None /\ cursor \in Nat /\ committed \in Nat /\ cursor < committed
      /\ committed <= MaxEvents
  BY EventNumbers DEF Receive, EventsStrong
<1>2. /\ cursor' = e /\ handling' = e /\ handling = None
      /\ UNCHANGED <<connection, abandoned, began, breaks>> /\ Dispatch(e)
  BY DEF Receive, CursorAt, PageStays
<1>3. /\ e \in 1..MaxEvents /\ e \in Nat /\ e <= committed /\ cursor < e /\ e # None
  BY <1>1, EventNumbers
<1> HIDE DEF e
<1>4. /\ committed' = committed
      /\ UNCHANGED cacheVars \/ \E several \in BOOLEAN : Cache!Invalidate(several)
      /\ dropped' = dropped \/ dropped' = dropped \cup {e}
      /\ awaiting' = FALSE \/ awaiting' = watched
  BY <1>2, DispatchSteps
<1>5. Cache!Type' BY <1>4, CacheTypes, EventTypes, EventNumbers
<1>6. awaiting' \in BOOLEAN
  <2>1. watched \in BOOLEAN BY EventTypes, Zenon DEF Cache!Type
  <2> QED BY <1>4, <2>1, Zenon
<1>7. /\ {committed', abandoned', began'} \subseteq Nat
      /\ {cursor', handling'} \subseteq Nat \cup {None}
      /\ connection' \in {"off", "open"} /\ dropped' \subseteq 1..MaxEvents
      /\ breaks' \in 0..MaxBreaks
  BY <1>2, <1>3, <1>4, EventNumbers
<1>8. ShellType' BY <1>5, <1>6, <1>7, Zenon DEF ShellType
<1>9. LeaksAreBounded'
  <2>1. \A x \in dropped : x \in Nat /\ x # None /\ x <= cursor BY DroppedNumbers
  <2>2. e \notin dropped /\ None \notin dropped BY <1>1, <1>3, <2>1
  <2>3. dropped' \ {e} = dropped BY <1>4, <2>2
  <2>4. abandoned <= Cardinality(dropped) BY <1>2, <2>2, DroppedNumbers
  <2>5. \A x \in dropped' : x <= e BY <1>1, <1>3, <1>4, <2>1
  <2> QED BY <1>2, <1>3, <2>3, <2>4, <2>5 DEF LeaksAreBounded
<1> QED BY <1>2, <1>3, <1>4, <1>8, <1>9 DEF EventsStrong, EventsInvariant

LEMMA HandledKeeps ==
  ASSUME EventsStrong, Handled
  PROVE  EventsStrong'
<1>1. /\ handling' = None /\ handling # None /\ handling \notin dropped
      /\ UNCHANGED <<committed, cacheVars, connection, abandoned, cursor, began, awaiting, dropped,
                     breaks>>
  BY DEF Handled, PageStays
<1>2. Cache!Type' BY <1>1, CacheTypes, EventTypes, EventNumbers
<1>3. awaiting' \in BOOLEAN BY <1>1, EventTypes, Zenon
<1>4. /\ {committed', abandoned', began'} \subseteq Nat
      /\ {cursor', handling'} \subseteq Nat \cup {None}
      /\ connection' \in {"off", "open"} /\ dropped' \subseteq 1..MaxEvents
      /\ breaks' \in 0..MaxBreaks
  BY <1>1, EventNumbers
<1>5. ShellType' BY <1>2, <1>3, <1>4, Zenon DEF ShellType
<1>6. LeaksAreBounded'
  <2>1. None \notin dropped BY EventNumbers
  <2>2. dropped \ {None} = dropped \ {handling} BY <1>1, <2>1
  <2> QED BY <1>1, <2>2, DroppedNumbers DEF LeaksAreBounded
<1> QED BY <1>1, <1>5, <1>6 DEF EventsStrong, EventsInvariant

(* The event that was refused pays for the response that is left. *)
LEMMA HandleFailsKeeps ==
  ASSUME EventsStrong, HandleFails
  PROVE  EventsStrong'
<1>1. /\ handling' = None /\ handling \in dropped /\ connection' = "off"
      /\ abandoned' = abandoned \/ abandoned' = abandoned + 1
      /\ UNCHANGED <<committed, cacheVars, cursor, began, awaiting, dropped, breaks>>
  BY DEF HandleFails, PageStays
<1>2. Cache!Type' BY <1>1, CacheTypes, EventTypes, EventNumbers
<1>3. awaiting' \in BOOLEAN BY <1>1, EventTypes, Zenon
<1>4. /\ {committed', abandoned', began'} \subseteq Nat
      /\ {cursor', handling'} \subseteq Nat \cup {None}
      /\ connection' \in {"off", "open"} /\ dropped' \subseteq 1..MaxEvents
      /\ breaks' \in 0..MaxBreaks
  BY <1>1, EventNumbers
<1>5. ShellType' BY <1>2, <1>3, <1>4, Zenon DEF ShellType
<1>6. LeaksAreBounded'
  <2>1. dropped \ {None} = dropped BY EventNumbers
  <2>2. Cardinality(dropped \ {handling}) = Cardinality(dropped) - 1
    BY <1>1, EventNumbers, FS_RemoveElement
  <2>3. abandoned' <= Cardinality(dropped)
    BY <1>1, <2>2, DroppedNumbers, EventNumbers
  <2> QED BY <1>1, <2>1, <2>3, DroppedNumbers DEF LeaksAreBounded
<1> QED BY <1>1, <1>5, <1>6 DEF EventsStrong, EventsInvariant

LEMMA BreakAndOccurKeep ==
  ASSUME EventsStrong, Break \/ Occur
  PROVE  EventsStrong'
<1>1. /\ UNCHANGED <<abandoned, cursor, began, handling, awaiting, dropped, cacheVars>>
      /\ committed' \in Nat /\ committed <= committed' /\ committed' <= MaxEvents
      /\ breaks' \in 0..MaxBreaks
      /\ connection' = connection \/ connection' = "off"
  BY EventNumbers DEF Break, Occur, Cache!Write, PageStays, eventVars, cacheVars, EventsStrong
<1>2. Cache!Type' BY <1>1, EventTypes, Zenon DEF Cache!Type, cacheVars
<1>3. awaiting' \in BOOLEAN BY <1>1, EventTypes, Zenon
<1>4. /\ {committed', abandoned', began'} \subseteq Nat
      /\ {cursor', handling'} \subseteq Nat \cup {None}
      /\ connection' \in {"off", "open"} /\ dropped' \subseteq 1..MaxEvents
  BY <1>1, EventNumbers
<1>5. ShellType' BY <1>1, <1>2, <1>3, <1>4, Zenon DEF ShellType
<1>6. LeaksAreBounded' BY <1>1 DEF EventsStrong, EventsInvariant, LeaksAreBounded
<1>7. cursor' # None => cursor' <= committed' BY <1>1, EventNumbers DEF EventsStrong
<1> QED BY <1>1, <1>5, <1>6, <1>7 DEF EventsStrong, EventsInvariant

LEMMA TravelKeeps ==
  ASSUME EventsStrong, Travel
  PROVE  EventsStrong'
<1>1. /\ connection' = "off" /\ abandoned' = 0 /\ cursor' = None /\ began' = 0
      /\ handling' = None /\ awaiting' = FALSE /\ dropped' = {}
      /\ data' = None /\ stale' = TRUE /\ failed' = FALSE
      /\ fetch' = "none" /\ asked' = 0 /\ watched' = FALSE
      /\ UNCHANGED <<committed, breaks>>
  BY DEF Travel, PageLost
<1>2. /\ awaiting' \in BOOLEAN /\ stale' \in BOOLEAN /\ failed' \in BOOLEAN
      /\ watched' \in BOOLEAN
  BY <1>1, Zenon
<1>3. /\ {committed', abandoned', began', asked'} \subseteq Nat
      /\ {cursor', handling', data'} \subseteq Nat \cup {None}
      /\ connection' \in {"off", "open"} /\ dropped' \subseteq 1..MaxEvents
      /\ fetch' \in {"none", "running", "ending"} /\ breaks' \in 0..MaxBreaks
  BY <1>1, EventNumbers
<1>4. ShellType' BY <1>2, <1>3, Zenon DEF ShellType, Cache!Type
<1>5. LeaksAreBounded'
  <2>1. dropped' \ {handling'} = {} BY <1>1
  <2> QED BY <1>1, <2>1, FS_EmptySet DEF LeaksAreBounded
<1> QED BY <1>1, <1>4, <1>5 DEF EventsStrong, EventsInvariant

LEMMA EventsStrongHolds == ShellSpec => []EventsStrong
<1>1. ASSUME EventsStrong, [ShellNext]_shellVars PROVE EventsStrong'
  BY <1>1, OthersKeepEvents, ConnectKeeps, ReceiveKeeps, HandledKeeps, HandleFailsKeeps,
     BreakAndOccurKeep, TravelKeeps
     DEF ShellNext
<1> QED BY EventsInitially, <1>1, PTL DEF ShellSpec

(* However often consumers refuse events and connections break, no more    *)
(* responses are left unread than events were refused, each of them once,  *)
(* and none of them is asked for again.                                    *)
THEOREM EventsInvariantHolds == ShellSpec => []EventsInvariant
<1>1. EventsStrong => EventsInvariant BY DEF EventsStrong
<1> QED BY <1>1, EventsStrongHolds, PTL

-----------------------------------------------------------------------------
(* The cache *)

(* A request under way whose answer will not be marked was sent after all  *)
(* that the loop has read, and nothing is watched, fetched or held before  *)
(* everything is loaded: an event that finds no consumer because it is     *)
(* not loaded yet has nothing to invalidate.                               *)
CacheStrong ==
  /\ CacheFollowsEvents
  /\ fetch = "running" /\ ~stale => \A e \in Followed : e <= asked
  /\ data # None \/ fetch # "none" \/ watched => loaded = Modules

(* Once every module is loaded every change has a consumer. *)
LEMMA LoadedConsume ==
  ASSUME ContributionsInvariant, loaded = Modules,
         NEW e \in 1..MaxEvents, EventType[e] \in TaskEvents
  PROVE  ConsumersOf(e) # {}
<1>1. bundle \in Bundles /\ \A m \in Modules : Exports(m) \subseteq registered
  BY DEF ContributionsInvariant, ContributionsType
<1>2. PICK m \in Modules : \E i \in DOMAIN bundle[m].exports :
        bundle[m].exports[i].kind = "consumer" /\ bundle[m].exports[i].key = EventType[e]
  BY <1>1, ConsumersAssumption
<1> QED BY <1>1, <1>2 DEF Exports, ConsumersOf

LEMMA MountedIsLoaded ==
  ASSUME ContributionsInvariant, Mounted
  PROVE  loaded = Modules
BY ShellAssumption DEF ContributionsInvariant, Mounted, Shown

LEMMA CacheInitially == ShellInit => CacheStrong
BY DEF ShellInit, Cache!Init, CacheStrong, CacheFollowsEvents, Cache!Shown

(* What an operation that starts will answer is as new as all there is.    *)
LEMMA AllIsAsked ==
  ASSUME EventsStrong, committed' = committed, asked' = committed
  PROVE  \A e \in Followed' : e <= asked'
<1>1. committed \in Nat BY EventNumbers
<1>2. \A e \in Followed' : e \in 1..committed BY DEF Followed
<1> QED BY <1>1, <1>2

(* An invalidation, whatever the loop has just read: it leaves the entry   *)
(* marked, or asks again.                                                  *)
LEMMA InvalidateKeeps ==
  ASSUME EventsStrong, CacheStrong, NEW several \in BOOLEAN, Cache!Invalidate(several),
         loaded' = loaded
  PROVE  CacheStrong'
<1>1. committed' = committed /\ watched' = watched /\ data' = data
  BY DEF Cache!Invalidate, Cache!Ask
<1>2. CASE stale'
  <2>1. ~(Cache!Shown)' BY <1>2 DEF Cache!Shown
  <2>2. fetch' # "none" => fetch # "none" \/ watched BY DEF Cache!Invalidate, Cache!Ask
  <2> QED BY <1>1, <1>2, <2>1, <2>2 DEF CacheStrong, CacheFollowsEvents
<1>3. CASE ~stale'
  <2>1. watched /\ asked' = committed /\ fetch' = "running"
    BY <1>3 DEF Cache!Invalidate, Cache!Ask
  <2>2. \A e \in Followed' : e <= asked' BY <1>1, <2>1, AllIsAsked
  <2>3. ~(Cache!Shown)' BY <2>1 DEF Cache!Shown
  <2> QED BY <1>1, <2>1, <2>2, <2>3 DEF CacheStrong, CacheFollowsEvents
<1> QED BY <1>2, <1>3

(* The other steps of the cache, with no more read by the loop.            *)
LEMMA CacheStepKeeps ==
  ASSUME EventsStrong, CacheStrong, Followed' \subseteq Followed, committed' = committed,
         loaded = Modules => loaded' = Modules,
         \/ UNCHANGED cacheVars
         \/ Cache!Subscribe /\ loaded = Modules
         \/ Cache!Unsubscribe \/ Cache!Answer \/ Cache!Refuse \/ Cache!End \/ Cache!Clear
  PROVE  CacheStrong'
<1>1. CASE UNCHANGED cacheVars
  BY <1>1 DEF cacheVars, CacheStrong, CacheFollowsEvents, Cache!Shown
<1>2. CASE Cache!Subscribe /\ loaded = Modules
  <2>1. CASE UNCHANGED <<data, stale, failed, fetch, asked>>
    BY <1>2, <2>1 DEF CacheStrong, CacheFollowsEvents, Cache!Shown
  <2>2. CASE Cache!Start
    <3>1. asked' = committed /\ fetch' = "running" BY <2>2 DEF Cache!Start, Cache!Ask
    <3>2. \A e \in Followed' : e <= asked' BY <3>1, AllIsAsked
    <3> QED BY <1>2, <3>1, <3>2 DEF CacheStrong, CacheFollowsEvents, Cache!Shown
  <2> QED BY <1>2, <2>1, <2>2 DEF Cache!Subscribe
<1>3. CASE Cache!Unsubscribe
  BY <1>3 DEF Cache!Unsubscribe, CacheStrong, CacheFollowsEvents, Cache!Shown
<1>4. CASE Cache!Answer
  <2>1. /\ fetch = "running" /\ fetch' = "ending" /\ data' \in asked..committed
        /\ UNCHANGED <<stale, asked, watched>>
    BY <1>4 DEF Cache!Answer
  <2>2. asked \in Nat /\ committed \in Nat BY EventNumbers, EventTypes DEF Cache!Type
  <2>3. ~stale => \A e \in Followed' : e <= data'
    <3>1. \A e \in Followed : e \in Nat BY <2>2 DEF Followed
    <3> QED BY <2>1, <2>2, <3>1 DEF CacheStrong
  <2> QED BY <2>1, <2>3 DEF CacheStrong, CacheFollowsEvents, Cache!Shown
<1>5. CASE Cache!Refuse
  BY <1>5 DEF Cache!Refuse, CacheStrong, CacheFollowsEvents, Cache!Shown
<1>6. CASE Cache!End
  BY <1>6 DEF Cache!End, CacheStrong, CacheFollowsEvents, Cache!Shown
<1>7. CASE Cache!Clear
  <2>1. CASE watched /\ fetch' = "running" /\ asked' = committed
    <3>1. \A e \in Followed' : e <= asked' BY <2>1, AllIsAsked
    <3> QED BY <1>7, <2>1, <3>1 DEF Cache!Clear, CacheStrong, CacheFollowsEvents, Cache!Shown
  <2>2. CASE ~watched /\ fetch' = "none"
    BY <1>7, <2>2 DEF Cache!Clear, CacheStrong, CacheFollowsEvents, Cache!Shown
  <2> QED BY <1>7, <2>1, <2>2 DEF Cache!Clear
<1> QED BY <1>1, <1>2, <1>3, <1>4, <1>5, <1>6, <1>7

(* Steps at which the loop reads nothing. *)
LEMMA OthersKeepCache ==
  ASSUME ContributionsInvariant, EventsStrong, CacheStrong,
         \/ SignInStep \/ UNCHANGED shellVars
         \/ \E p \in Places : MountPlace(p) \/ UnmountPlace(p)
         \/ \E m \in Modules : Loading(m)
         \/ ViewMounts \/ ViewLeaves
         \/ FetchAnswers \/ FetchFails \/ FetchEnds
         \/ Handled \/ HandleFails \/ Break
  PROVE  CacheStrong'
<1>1. UNCHANGED <<cursor, began, dropped>>
  BY DEF SignInStep, MountPlace, UnmountPlace, Loading, shellVars, ViewMounts, ViewLeaves,
         FetchAnswers, FetchFails, FetchEnds, Handled, HandleFails, Break, eventVars
<1>2. /\ committed' = committed
      /\ \/ UNCHANGED cacheVars
         \/ Cache!Subscribe /\ Mounted
         \/ Cache!Unsubscribe \/ Cache!Answer \/ Cache!Refuse \/ Cache!End \/ Cache!Clear
  BY DEF SignInStep, IdentityEffect, MountPlace, UnmountPlace, Loading, Stays, shellVars, ViewMounts,
         ViewLeaves, FetchAnswers, FetchFails, FetchEnds, Handled, HandleFails, Break,
         Cache!Subscribe, Cache!Unsubscribe, Cache!Answer, Cache!Refuse,
         Cache!End, Cache!Clear, Cache!Start, Cache!Ask
<1>3. loaded' = loaded \/ \E m \in Modules : loaded' = loaded \cup {m}
  BY DEF SignInStep, MountPlace, UnmountPlace, Loading, Mount, Unmount, Load, LoadFails,
         LoadCollides, Reject, contributionVars, shellVars, ViewMounts, ViewLeaves, FetchAnswers,
         FetchFails, FetchEnds, Handled, HandleFails, Break, PageStays
<1>4. loaded = Modules => loaded' = Modules BY <1>3
<1>5. Followed' = Followed BY <1>1, <1>2 DEF Followed
<1> QED BY <1>2, <1>4, <1>5, CacheStepKeeps, MountedIsLoaded

LEMMA CommandKeepsCache ==
  ASSUME EventsStrong, CacheStrong, CommandSucceeds
  PROVE  CacheStrong'
<1>1. Cache!Invalidate(FALSE) /\ loaded' = loaded
  BY DEF CommandSucceeds, PageStays, contributionVars
<1> QED BY <1>1, InvalidateKeeps

LEMMA OccurKeepsCache ==
  ASSUME EventsStrong, CacheStrong, Occur
  PROVE  CacheStrong'
<1>1. /\ UNCHANGED <<loaded, cursor, began, dropped, cacheVars>>
      /\ committed' = committed + 1
  BY DEF Occur, Cache!Write, PageStays, contributionVars, eventVars, cacheVars
<1>2. Followed' \subseteq Followed
  <2>1. SUFFICES ASSUME NEW e \in 1..(committed + 1), EventType[e] \in TaskEvents,
                        began < e, cursor # None, e <= cursor, e \notin dropped
                 PROVE  e \in Followed
    BY <1>1 DEF Followed
  <2>2. e \in 1..committed BY <2>1, EventNumbers DEF EventsStrong
  <2> QED BY <2>1, <2>2 DEF Followed
<1> QED BY <1>1, <1>2 DEF CacheStrong, CacheFollowsEvents, Cache!Shown, cacheVars

(* The first connection starts where nothing is behind it. *)
LEMMA ConnectKeepsCache ==
  ASSUME EventsStrong, CacheStrong, Connect
  PROVE  CacheStrong'
<1>1. /\ UNCHANGED <<committed, loaded, dropped, cacheVars>>
  BY DEF Connect, PageStays, contributionVars
<1>2. Followed' \subseteq Followed
  <2>1. CASE cursor = None
    <3>1. began' = committed /\ committed \in Nat BY <2>1, EventNumbers DEF Connect
    <3>2. \A e \in 1..committed : ~(began' < e) BY <3>1
    <3> QED BY <1>1, <3>2 DEF Followed
  <2>2. CASE cursor # None
    <3>1. cursor' = cursor /\ began' = began BY <2>2 DEF Connect, StartAt
    <3> QED BY <1>1, <3>1 DEF Followed
  <2> QED BY <2>1, <2>2
<1> QED BY <1>1, <1>2, CacheStepKeeps

(* An event that finds no consumer comes before anything is cached, or     *)
(* tells of nothing that is.                                               *)
LEMMA ReceiveKeepsCache ==
  ASSUME ContributionsInvariant, EventsStrong, CacheStrong, Receive
  PROVE  CacheStrong'
<1> DEFINE e == cursor + 1
           several == \E x, y \in ConsumersOf(e) : x # y
<1>1. cursor # None /\ cursor \in Nat /\ committed \in Nat /\ cursor < committed
      /\ committed <= MaxEvents
  BY EventNumbers DEF Receive, EventsStrong
<1>2. e \in 1..MaxEvents BY <1>1, EventNumbers
<1>3. /\ cursor' = e /\ loaded' = loaded /\ began' = began
      /\ \/ ConsumersOf(e) = {} /\ UNCHANGED <<committed, cacheVars, dropped>>
         \/ Cache!Invalidate(several)
         \/ UNCHANGED <<committed, cacheVars>> /\ dropped' = dropped \cup {e}
  BY DEF Receive, CursorAt, Dispatch, PageStays, contributionVars
<1>4. \A x \in Nat : x <= e => x <= cursor \/ x = e BY <1>1
<1>5. several \in BOOLEAN OBVIOUS
<1> HIDE DEF e, several
<1>6. ASSUME UNCHANGED <<committed, cacheVars>>, dropped \subseteq dropped',
             EventType[e] \notin TaskEvents \/ e \in dropped'
      PROVE  CacheStrong'
  <2>1. Followed' \subseteq Followed
    BY <1>1, <1>3, <1>4, <1>6 DEF Followed
  <2> QED BY <1>3, <1>6, <2>1, CacheStepKeeps
<1>7. CASE ConsumersOf(e) = {} /\ UNCHANGED <<committed, cacheVars, dropped>>
  <2>1. CASE EventType[e] \in TaskEvents
    <3>1. loaded # Modules BY <1>2, <1>7, <2>1, LoadedConsume
    <3>2. data = None /\ fetch = "none" /\ ~watched BY <3>1 DEF CacheStrong
    <3> QED BY <1>7, <3>2 DEF CacheStrong, CacheFollowsEvents, Cache!Shown, cacheVars
  <2>2. CASE EventType[e] \notin TaskEvents BY <1>6, <1>7, <2>2
  <2> QED BY <2>1, <2>2
<1>8. CASE Cache!Invalidate(several) BY <1>3, <1>5, <1>8, InvalidateKeeps
<1>9. CASE UNCHANGED <<committed, cacheVars>> /\ dropped' = dropped \cup {e}
  BY <1>6, <1>9
<1> QED BY <1>3, <1>7, <1>8, <1>9

LEMMA TravelKeepsCache ==
  ASSUME Travel
  PROVE  CacheStrong'
BY DEF Travel, PageLost, CacheStrong, CacheFollowsEvents, Cache!Shown

(* Data that is shown without a mark, an error or a request under way is   *)
(* as new as every change the loop has read since it first connected, but  *)
(* for those the consumers refused: whatever modules load when, whatever   *)
(* requests fail, whatever is streamed that nobody consumes, and whatever  *)
(* the user does.                                                          *)
THEOREM CacheAlwaysFollowsEvents == ShellSpec => []CacheFollowsEvents
<1>1. ASSUME ContributionsInvariant, EventsStrong, CacheStrong, [ShellNext]_shellVars
      PROVE  CacheStrong'
  BY <1>1, OthersKeepCache, CommandKeepsCache, OccurKeepsCache, ConnectKeepsCache,
     ReceiveKeepsCache, TravelKeepsCache
     DEF ShellNext
<1>2. CacheStrong => CacheFollowsEvents BY DEF CacheStrong
<1> QED
  BY CacheInitially, <1>1, <1>2, ContributionsInvariantHolds, EventsStrongHolds, PTL DEF ShellSpec

=============================================================================
