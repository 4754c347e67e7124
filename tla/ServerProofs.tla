------------------------------ MODULE ServerProofs ------------------------------
(***************************************************************************)
(* Proofs about Server and FeatureRegistry, for any files, definitions,    *)
(* requests and environments: the verdict of the validator, what runs for  *)
(* whom, and what a refusal means.                                         *)
(***************************************************************************)
EXTENDS Server, SequenceTheorems, TLAPS

-----------------------------------------------------------------------------
(* The walk of the validator *)

(* What the values of the walk range over. *)
AllDependencies == UNION {Dependencies(n) : n \in Names}

(* The path leads from each feature to one of its dependencies, and none   *)
(* of its features occurs twice or has been visited to the end.            *)
PathFits ==
  /\ path \in Seq(Known \cap Names)
  /\ \A i, j \in 1..Len(path) : path[i] = path[j] => i = j
  /\ \A i \in 1..Len(path) : path[i] \notin visited
  /\ \A i \in 1..Len(path) : i + 1 \in 1..Len(path) => path[i + 1] \in Dependencies(path[i])

(* A dependency has been visited, or is next on the path, or is left. *)
LeftFits ==
  /\ left \in [Names -> SUBSET AllDependencies]
  /\ \A i \in 1..Len(path) :
       /\ left[path[i]] \subseteq Dependencies(path[i])
       /\ \A d \in Dependencies(path[i]) \ left[path[i]] :
            d \in visited \/ (i + 1 \in 1..Len(path) /\ d = path[i + 1])

(* What has been visited is closed, and no set of it is a cycle. *)
VisitedFits ==
  /\ \A n \in visited : Dependencies(n) \subseteq visited
  /\ visited \subseteq Known
  /\ \A S \in SUBSET visited : S # {} => \E n \in S : Dependencies(n) \cap S = {}

WalkInvariant ==
  /\ verdict \in {"none", "searching", "refused", "circular", "unknown", "accepted"}
  /\ verdict \in {"none", "searching"} => PathFits /\ LeftFits /\ VisitedFits
  /\ VerdictIsRight

(* The dependencies of the repository do not change. *)
LEMMA SameRepository ==
  ASSUME repository' = repository
  PROVE  /\ Known' = Known /\ AllDependencies' = AllDependencies
         /\ \A n : Dependencies(n)' = Dependencies(n)
         /\ Acyclic' = Acyclic /\ Closed' = Closed
BY DEF Known, AllDependencies, Dependencies, Named, Definition, Acyclic, Closed

LEMMA WalkInitially == Init => WalkInvariant
<1> SUFFICES ASSUME Init PROVE WalkInvariant OBVIOUS
<1> USE DEF Init, RegistryInit
<1>1. path \in Seq(Known \cap Names) /\ Len(path) = 0 BY EmptySeq
<1>2. PathFits /\ LeftFits /\ VisitedFits BY <1>1 DEF PathFits, LeftFits, VisitedFits
<1> QED BY <1>2 DEF WalkInvariant, VerdictIsRight

(* The last feature of the path. *)
LEMMA LastOfPath ==
  ASSUME PathFits, path # <<>>
  PROVE  /\ Len(path) \in Nat \ {0} /\ Len(path) \in 1..Len(path)
         /\ path[Len(path)] \in Known \cap Names
BY EmptySeq, LenProperties, ElementOfSeq DEF PathFits

(* A feature is entered, the first one or a dependency of the last. *)
LEMMA EnterKeeps ==
  ASSUME PathFits, LeftFits, VisitedFits, repository' = repository, visited' = visited,
         NEW d \in Known \cap Names, d \notin visited, d \notin Visiting,
         path' = Append(path, d),
         left'[d] = Dependencies(d), left' \in [Names -> SUBSET AllDependencies],
         \/ path = <<>> /\ \A n \in Names \ {d} : left'[n] = left[n]
         \/ /\ path # <<>> /\ d \in left[path[Len(path)]]
            /\ \A n \in Names \ {d} :
                 left'[n] = IF n = path[Len(path)] THEN left[n] \ {d} ELSE left[n]
  PROVE  PathFits' /\ LeftFits' /\ VisitedFits'
<1>1. /\ path \in Seq(Known \cap Names) /\ Len(path) \in Nat
      /\ \A i \in 1..Len(path) : path[i] \in Known \cap Names
  BY LenProperties, ElementOfSeq DEF PathFits
<1>2. /\ path' \in Seq(Known \cap Names) /\ Len(path') = Len(path) + 1
      /\ \A i \in 1..Len(path) : path'[i] = path[i]
      /\ path'[Len(path) + 1] = d
  BY <1>1, AppendProperties
<1>3. \A i \in 1..Len(path) : path[i] # d BY <1>1 DEF Visiting
<1>4. ASSUME NEW i \in 1..Len(path')
      PROVE  i \in 1..Len(path) \/ i = Len(path) + 1
  BY <1>1, <1>2
<1>5. path # <<>> => Len(path) \in 1..Len(path) /\ d \in Dependencies(path[Len(path)])
  BY LastOfPath DEF LeftFits
<1>6. PathFits'
  <2>1. ASSUME NEW i \in 1..Len(path'), NEW j \in 1..Len(path'), path'[i] = path'[j]
        PROVE  i = j
    BY <1>1, <1>2, <1>3, <1>4, <2>1 DEF PathFits
  <2>2. \A i \in 1..Len(path') : path'[i] \notin visited BY <1>2, <1>4 DEF PathFits
  <2>3. ASSUME NEW i \in 1..Len(path'), i + 1 \in 1..Len(path')
        PROVE  path'[i + 1] \in Dependencies(path'[i])
    <3>1. i \in 1..Len(path) /\ path'[i] = path[i] BY <1>1, <1>2, <1>4, <2>3
    <3>2. CASE i + 1 \in 1..Len(path) BY <1>2, <3>1, <3>2 DEF PathFits
    <3>3. CASE i = Len(path)
      <4>1. path # <<>> BY <1>1, <3>1, EmptySeq
      <4> QED BY <1>2, <1>5, <3>1, <3>3, <4>1
    <3> QED BY <1>1, <3>1, <3>2, <3>3
  <2> QED BY <1>2, <2>1, <2>2, <2>3, SameRepository DEF PathFits
<1>7. LeftFits'
  <2>1. ASSUME NEW i \in 1..Len(path')
        PROVE  /\ left'[path'[i]] \subseteq Dependencies(path'[i])
               /\ \A e \in Dependencies(path'[i]) \ left'[path'[i]] :
                    e \in visited \/ (i + 1 \in 1..Len(path') /\ e = path'[i + 1])
    <3>1. CASE i = Len(path) + 1 BY <1>2, <3>1
    <3>2. CASE i \in 1..Len(path) /\ i # Len(path)
      <4>1. i + 1 \in 1..Len(path) /\ i + 1 \in 1..Len(path') BY <1>1, <1>2, <3>2
      <4>2. path[i] # path[Len(path)] /\ path[i] # d /\ path[i] \in Names
        BY <1>1, <1>3, <3>2 DEF PathFits
      <4>3. left'[path'[i]] = left[path[i]]
        BY <1>1, <1>2, <3>2, <4>2, EmptySeq
      <4> QED BY <1>2, <3>2, <4>1, <4>3 DEF LeftFits
    <3>3. CASE i = Len(path)
      <4>1. path # <<>> /\ i \in 1..Len(path) BY <1>1, <2>1, <3>3, EmptySeq
      <4>2. left'[path'[i]] = left[path[i]] \ {d} BY <1>1, <1>2, <1>3, <3>3, <4>1
      <4>3. i + 1 \in 1..Len(path') /\ path'[i + 1] = d /\ i + 1 \notin 1..Len(path)
        BY <1>1, <1>2, <3>3
      <4> QED BY <1>2, <4>1, <4>2, <4>3 DEF LeftFits
    <3> QED BY <1>4, <3>1, <3>2, <3>3
  <2> QED BY SMTT(40), <2>1, SameRepository DEF LeftFits
<1>8. VisitedFits' BY SameRepository DEF VisitedFits
<1> QED BY <1>6, <1>7, <1>8

LEMMA VisitKeeps ==
  ASSUME WalkInvariant, NEW n \in Names, VisitFeature(n) \/ FollowOn(n)
  PROVE  WalkInvariant'
<1> USE DEF VisitFeature, Enter, FollowOn
<1>1. /\ verdict = "searching" /\ verdict' = verdict /\ repository' = repository
      /\ visited' = visited /\ path' = Append(path, n)
      /\ n \in Known \cap Names /\ n \notin visited
  OBVIOUS
<1>2. PathFits /\ LeftFits /\ VisitedFits BY <1>1 DEF WalkInvariant
<1>3. n \notin Visiting
  <2>1. CASE VisitFeature(n)
    <3>1. path = <<>> /\ path \in Seq(Known \cap Names) BY <1>2, <2>1 DEF PathFits
    <3>2. DOMAIN path = {} BY <3>1
    <3> QED BY <3>2 DEF Visiting
  <2>2. CASE FollowOn(n) BY <2>2
  <2> QED BY <2>1, <2>2
<1>4. left \in [Names -> SUBSET AllDependencies] /\ Dependencies(n) \in SUBSET AllDependencies
  BY <1>2 DEF LeftFits, AllDependencies
<1>5. /\ left'[n] = Dependencies(n) /\ left' \in [Names -> SUBSET AllDependencies]
      /\ \/ path = <<>> /\ \A m \in Names \ {n} : left'[m] = left[m]
         \/ /\ path # <<>> /\ n \in left[path[Len(path)]]
            /\ \A m \in Names \ {n} :
                 left'[m] = IF m = path[Len(path)] THEN left[m] \ {n} ELSE left[m]
  <2>1. CASE VisitFeature(n) BY <1>4, <2>1
  <2>2. CASE FollowOn(n)
    <3>1. path[Len(path)] \in Names BY <1>2, <2>2, LastOfPath
    <3> DEFINE last == path[Len(path)]
    <3>2. left' = [left EXCEPT ![last] = left[last] \ {n}, ![n] = Dependencies(n)]
      BY <2>2
    <3>3. n \in left[last] /\ path # <<>> BY <2>2
    <3> HIDE DEF last
    <3>4. last \in Names BY <3>1 DEF last
    <3>5. left' \in [Names -> SUBSET AllDependencies] BY <1>4, <3>2, <3>4
    <3>6. left'[n] = Dependencies(n) BY <1>4, <3>2
    <3>7. \A m \in Names \ {n} : left'[m] = IF m = last THEN left[m] \ {n} ELSE left[m]
      BY <1>4, <3>2, <3>4
    <3> QED BY <3>3, <3>5, <3>6, <3>7 DEF last
  <2> QED BY <2>1, <2>2
<1>6. PathFits' /\ LeftFits' /\ VisitedFits' BY <1>1, <1>2, <1>3, <1>5, EnterKeeps
<1> QED BY <1>1, <1>6 DEF WalkInvariant, VerdictIsRight

LEMMA FollowAgainKeeps ==
  ASSUME WalkInvariant, NEW d \in Names, FollowAgain(d)
  PROVE  WalkInvariant'
<1> DEFINE last == path[Len(path)]
<1>1. /\ verdict = "searching" /\ verdict' = verdict /\ repository' = repository
      /\ visited' = visited /\ path' = path /\ path # <<>>
      /\ d \in visited
      /\ left' = [left EXCEPT ![last] = left[last] \ {d}]
  BY DEF FollowAgain, Follow
<1>2. PathFits /\ LeftFits /\ VisitedFits BY <1>1 DEF WalkInvariant
<1>3. last \in Names BY <1>1, <1>2, LastOfPath
<1> HIDE DEF last
<1>4. PathFits' BY <1>1, <1>2, SameRepository DEF PathFits
<1>5. VisitedFits' BY <1>1, <1>2, SameRepository DEF VisitedFits
<1>6. /\ left' \in [Names -> SUBSET AllDependencies]
      /\ \A n \in Names : left'[n] = IF n = last THEN left[n] \ {d} ELSE left[n]
  BY <1>1, <1>2, <1>3 DEF LeftFits
<1>7. LeftFits'
  <2>1. \A i \in 1..Len(path) : path[i] \in Names
    BY <1>2, LenProperties, ElementOfSeq DEF PathFits
  <2>2. ASSUME NEW i \in 1..Len(path)
        PROVE  /\ left'[path[i]] \subseteq Dependencies(path[i])
               /\ \A e \in Dependencies(path[i]) \ left'[path[i]] :
                    e \in visited \/ (i + 1 \in 1..Len(path) /\ e = path[i + 1])
    <3>1. left'[path[i]] = left[path[i]] \/ left'[path[i]] = left[path[i]] \ {d}
      BY <1>6, <2>1
    <3> QED BY <1>1, <1>2, <3>1 DEF LeftFits
  <2> QED BY <1>1, <1>6, <2>2, SameRepository DEF LeftFits
<1> QED BY <1>1, <1>4, <1>5, <1>7 DEF WalkInvariant, VerdictIsRight

(* The end of a visit: no set that the feature joins is a cycle.           *)
LEMMA LeaveKeeps ==
  ASSUME WalkInvariant, Leave
  PROVE  WalkInvariant'
<1> DEFINE n == path[Len(path)]
           short == SubSeq(path, 1, Len(path) - 1)
<1>1. /\ verdict = "searching" /\ verdict' = verdict /\ repository' = repository
      /\ left' = left /\ path # <<>> /\ left[n] = {}
      /\ visited' = visited \cup {n} /\ path' = short
  BY DEF Leave
<1>2. PathFits /\ LeftFits /\ VisitedFits BY <1>1 DEF WalkInvariant
<1>3. /\ Len(path) \in Nat \ {0} /\ Len(path) \in 1..Len(path) /\ n \in Known \cap Names
      /\ \A i \in 1..Len(path) : path[i] \in Known \cap Names
  BY <1>1, <1>2, LastOfPath, LenProperties, ElementOfSeq DEF PathFits
<1>4. n \notin visited /\ \A i \in 1..Len(path) : path[i] = n => i = Len(path)
  BY <1>2, <1>3 DEF PathFits
<1>5. Dependencies(n) \subseteq visited
  <2>1. Len(path) + 1 \notin 1..Len(path) BY <1>3
  <2> QED BY <1>1, <1>2, <1>3, <2>1 DEF LeftFits
<1>6. /\ short \in Seq(Known \cap Names) /\ Len(short) = Len(path) - 1
      /\ \A i \in 1..Len(short) : short[i] = path[i]
  <2> DEFINE k == Len(path) - 1
  <2>1. k \in Nat /\ 1 \in Int /\ k \in Int BY <1>3
  <2>2. \A i \in 1..k : path[i] \in Known \cap Names BY <1>3
  <2> HIDE DEF k
  <2>3. /\ SubSeq(path, 1, k) \in Seq(Known \cap Names)
        /\ Len(SubSeq(path, 1, k)) = IF 1 <= k THEN k - 1 + 1 ELSE 0
        /\ \A i \in 1..(k - 1 + 1) : SubSeq(path, 1, k)[i] = path[1 + i - 1]
    BY <2>1, <2>2, SubSeqProperties
  <2>4. Len(SubSeq(path, 1, k)) = k BY <2>1, <2>3
  <2>5. \A i \in 1..k : i \in 1..(k - 1 + 1) /\ 1 + i - 1 = i BY <2>1
  <2>6. \A i \in 1..k : SubSeq(path, 1, k)[i] = path[i] BY <2>3, <2>5
  <2> QED BY <2>3, <2>4, <2>6 DEF k
<1> HIDE DEF n, short
<1>7. \A i \in 1..Len(short) : i \in 1..Len(path) /\ i # Len(path) /\ i + 1 \in 1..Len(path)
  BY <1>3, <1>6
<1>8. PathFits'
  <2>1. \A i, j \in 1..Len(short) : short[i] = short[j] => i = j
    BY <1>2, <1>6, <1>7 DEF PathFits
  <2>2. \A i \in 1..Len(short) : short[i] \notin visited \cup {n}
    BY <1>2, <1>4, <1>6, <1>7 DEF PathFits
  <2>3. \A i \in 1..Len(short) :
          i + 1 \in 1..Len(short) => short[i + 1] \in Dependencies(short[i])
    BY <1>2, <1>6, <1>7 DEF PathFits
  <2> QED BY <1>1, <1>6, <2>1, <2>2, <2>3, SameRepository DEF PathFits
<1>9. LeftFits'
  <2>1. ASSUME NEW i \in 1..Len(short), NEW d \in Dependencies(short[i]) \ left[short[i]]
        PROVE  d \in visited \cup {n} \/ (i + 1 \in 1..Len(short) /\ d = short[i + 1])
    <3>1. d \in visited \/ d = path[i + 1] BY <1>2, <1>6, <1>7, <2>1 DEF LeftFits
    <3>2. i + 1 \in 1..Len(short) \/ i + 1 = Len(path) BY <1>3, <1>6, <1>7
    <3> QED BY <1>6, <3>1, <3>2 DEF n
  <2>2. \A i \in 1..Len(short) : left[short[i]] \subseteq Dependencies(short[i])
    BY <1>2, <1>6, <1>7 DEF LeftFits
  <2> QED BY <1>1, <1>2, <2>1, <2>2, SameRepository DEF LeftFits
<1>10. VisitedFits'
  <2>1. ASSUME NEW S \in SUBSET (visited \cup {n}), S # {}
        PROVE  \E m \in S : Dependencies(m) \cap S = {}
    <3>1. CASE S \cap visited = {}
      <4>1. S = {n} BY <2>1, <3>1
      <4> QED BY <1>4, <1>5, <4>1
    <3>2. CASE S \cap visited # {}
      <4> DEFINE T == S \cap visited
      <4>1. T \in SUBSET visited /\ T # {} BY <3>2
      <4>2. PICK m \in T : Dependencies(m) \cap T = {} BY <1>2, <4>1 DEF VisitedFits
      <4>3. Dependencies(m) \subseteq visited BY <1>2, <4>2 DEF VisitedFits
      <4> QED BY <4>2, <4>3
    <3> QED BY <3>1, <3>2
  <2>2. \A m \in visited \cup {n} : Dependencies(m) \subseteq visited \cup {n}
    BY <1>2, <1>5 DEF VisitedFits
  <2>3. visited \cup {n} \subseteq Known BY <1>2, <1>3 DEF VisitedFits
  <2> QED BY <1>1, <2>1, <2>2, <2>3, SameRepository DEF VisitedFits
<1> QED BY <1>1, <1>8, <1>9, <1>10 DEF WalkInvariant, VerdictIsRight

(* A dependency that is on the path closes a cycle: the part of the path   *)
(* from it on has no feature without a dependency in that part.            *)
LEMMA FollowBackKeeps ==
  ASSUME WalkInvariant, NEW d \in Names, FollowBack(d)
  PROVE  WalkInvariant'
<1>1. /\ verdict = "searching" /\ verdict' = "circular" /\ repository' = repository
      /\ path # <<>> /\ d \in left[path[Len(path)]] /\ d \in Visiting
  BY DEF FollowBack, Follow
<1>2. PathFits /\ LeftFits BY <1>1 DEF WalkInvariant
<1>3. /\ Len(path) \in Nat \ {0} /\ Len(path) \in 1..Len(path)
      /\ path \in Seq(Known \cap Names)
      /\ \A i \in 1..Len(path) : path[i] \in Known
  BY <1>1, <1>2, LastOfPath, LenProperties, ElementOfSeq DEF PathFits
<1>4. PICK k \in 1..Len(path) : path[k] = d BY <1>1, <1>3 DEF Visiting
<1> DEFINE cycle == {path[i] : i \in k..Len(path)}
<1>5. cycle \in SUBSET Known /\ d \in cycle BY <1>3, <1>4
<1>6. ASSUME NEW n \in cycle PROVE Dependencies(n) \cap cycle # {}
  <2>1. PICK i \in k..Len(path) : n = path[i] OBVIOUS
  <2>2. CASE i = Len(path)
    <3>1. d \in Dependencies(n) BY <1>1, <1>2, <1>3, <2>1, <2>2 DEF LeftFits
    <3> QED BY <1>5, <3>1
  <2>3. CASE i # Len(path)
    <3>1. i \in 1..Len(path) /\ i + 1 \in 1..Len(path) /\ i + 1 \in k..Len(path)
      BY <1>3, <2>3
    <3>2. path[i + 1] \in Dependencies(n) BY <1>2, <2>1, <3>1 DEF PathFits
    <3> QED BY <3>1, <3>2
  <2> QED BY <2>2, <2>3
<1>7. ~Acyclic
  <2> HIDE DEF cycle
  <2> QED BY <1>5, <1>6 DEF Acyclic
<1> QED BY <1>1, <1>7, SameRepository DEF WalkInvariant, VerdictIsRight

LEMMA FollowNowhereKeeps ==
  ASSUME WalkInvariant, NEW d \in Names, FollowNowhere(d)
  PROVE  WalkInvariant'
<1>1. /\ verdict = "searching" /\ verdict' = "unknown" /\ repository' = repository
      /\ path # <<>> /\ d \in left[path[Len(path)]] /\ d \notin Known
  BY DEF FollowNowhere, Follow
<1>2. PathFits /\ LeftFits BY <1>1 DEF WalkInvariant
<1>3. Len(path) \in 1..Len(path) /\ path[Len(path)] \in Known BY <1>1, <1>2, LastOfPath
<1>4. d \in Dependencies(path[Len(path)]) BY <1>1, <1>2, <1>3 DEF LeftFits
<1>5. ~Closed BY <1>1, <1>3, <1>4 DEF Closed
<1> QED BY <1>1, <1>5, SameRepository DEF WalkInvariant, VerdictIsRight

LEMMA AcceptKeeps ==
  ASSUME WalkInvariant, Accept
  PROVE  WalkInvariant'
<1>1. /\ verdict = "searching" /\ verdict' = "accepted" /\ repository' = repository
      /\ Known \subseteq visited
  BY DEF Accept
<1>2. VisitedFits BY <1>1 DEF WalkInvariant
<1>3. Acyclic /\ Closed BY <1>1, <1>2 DEF VisitedFits, Acyclic, Closed
<1> QED BY <1>1, <1>3, SameRepository DEF WalkInvariant, VerdictIsRight

LEMMA ValidateKeeps ==
  ASSUME WalkInvariant, Validate
  PROVE  WalkInvariant'
<1>1. /\ verdict = "none" /\ verdict' \in {"searching", "refused"}
      /\ UNCHANGED <<repository, path, left, visited>>
  BY DEF Validate
<1>2. PathFits' /\ LeftFits' /\ VisitedFits'
  BY <1>1, SameRepository DEF WalkInvariant, PathFits, LeftFits, VisitedFits
<1> QED BY <1>1, <1>2 DEF WalkInvariant, VerdictIsRight

LEMMA WalkStutter ==
  ASSUME WalkInvariant, UNCHANGED registryVars
  PROVE  WalkInvariant'
<1>1. UNCHANGED <<repository, verdict, path, left, visited>> BY DEF registryVars
<1> QED
  BY <1>1, SameRepository
     DEF WalkInvariant, PathFits, LeftFits, VisitedFits, VerdictIsRight

(* The validator accepts only repositories whose features depend on no     *)
(* cycle and on nothing unknown, and reports a cycle or an unknown feature *)
(* only where there is one, for every graph of dependencies.               *)
THEOREM VerdictAlwaysRight == Spec => []VerdictIsRight
<1>1. ASSUME WalkInvariant, [Next]_vars PROVE WalkInvariant'
  <2>1. CASE RegistryNext
    BY <1>1, <2>1, ValidateKeeps, LeaveKeeps, AcceptKeeps, VisitKeeps, FollowBackKeeps,
       FollowAgainKeeps, FollowNowhereKeeps
       DEF RegistryNext
  <2>2. CASE UNCHANGED registryVars BY <1>1, <2>2, WalkStutter
  <2> QED BY <1>1, <2>1, <2>2 DEF Next, vars
<1>2. WalkInvariant => VerdictIsRight BY DEF WalkInvariant
<1> QED BY WalkInitially, <1>1, <1>2, PTL DEF Spec

-----------------------------------------------------------------------------
(* The server *)

Started == {"listening", "closing", "stopped"}

Stages == {"none", "arrived", "authorizing", "running", "streaming",
           "tools", "fetching", "calling", "done"}

(* The variables of the requests are functions. *)
ServerShape ==
  /\ request = [r \in Requests |-> request[r]]
  /\ stage \in [Requests -> Stages]
  /\ feature \in [Requests -> Files \cup {None}]
  /\ actor \in [Requests -> Runners \cup {None}]
  /\ answer = [r \in Requests |-> answer[r]]
  /\ effect \in [Requests -> {"none", "all", "part"}]

ProcessFits ==
  /\ config \in Environments \cup {None}
  /\ process \in {"down", "failed"} \cup Started
  /\ process \in Started => config \in Environments /\ Discoverable

(* Headers that name only actors. *)
NamesActors(h) == /\ h.token # None => h.token.who \in Actors
             /\ h.who \in Actors \cup {None}

(* In production an actor is who the token names. *)
IsBearer(h, a) ==
  config.production => h.token # None /\ a = Identity(h.token.who, h.token.scopes)

(* What a tool forwards leads back to its caller. *)
Forwards(h, a) ==
  /\ IsBearer(h, a)
  /\ ~config.production /\ h.token = None =>
       a \in Runners /\ h.who = a.who /\ h.scopes = a.scopes

(* The headers and the actor of r, as long as its handler goes on. *)
IdentityFits(r) ==
  /\ stage[r] # "none" => process \in Started /\ NamesActors(request[r].headers)
  /\ stage[r] \in {"authorizing", "running", "fetching", "calling"} => feature[r] \in Files
  /\ stage[r] \in {"running", "tools", "fetching", "calling"} => actor[r] \in Runners
  /\ stage[r] \in {"tools", "fetching", "calling"} => IsBearer(request[r].headers, actor[r])
  /\ stage[r] \in {"arrived", "authorizing", "running"} /\ request[r].parent # None =>
       Forwards(request[r].headers, request[r].caller)
  /\ stage[r] = "running" =>
       /\ Scopes(feature[r]) \subseteq actor[r].scopes
       /\ request[r].parent # None =>
            \/ actor[r] = request[r].caller
            \/ ~config.production /\ request[r].headers.token # None

(* What r has changed and what it has been answered. *)
EffectFits(r) ==
  /\ effect[r] # "none" => stage[r] = "done"
  /\ answer[r] \in Refusals => stage[r] = "done" /\ effect[r] # "all"

RequestFits(r) == IdentityFits(r) /\ EffectFits(r)

RequestsFit ==
  ServerShape /\ ProcessFits /\ StoppedServesNobody /\ \A r \in Requests : RequestFits(r)

LEMMA SameFeatures ==
  ASSUME repository' = repository
  PROVE  Discoverable' = Discoverable /\ \A f : Scopes(f)' = Scopes(f)
BY DEF Discoverable, Scopes, Parity, Distinct, Manifest, Definition

LEMMA RegistryKeepsRepository ==
  ASSUME RegistryNext PROVE repository' = repository
BY DEF RegistryNext, Validate, Leave, Accept, VisitFeature, FollowBack, FollowAgain,
       FollowNowhere, FollowOn, Follow, Enter

(* A step of the requests in T, the others being left alone. *)
LEMMA RequestsStep ==
  ASSUME RequestsFit, NEW T \in SUBSET Requests,
         repository' = repository, config' = config, process' = process, ServerShape',
         \A s \in Requests \ T :
           /\ request'[s] = request[s] /\ stage'[s] = stage[s] /\ feature'[s] = feature[s]
           /\ actor'[s] = actor[s] /\ answer'[s] = answer[s] /\ effect'[s] = effect[s],
         \A s \in T : RequestFits(s)',
         process = "stopped" => \A s \in T : answer'[s] # "open"
  PROVE  RequestsFit'
<1>1. ProcessFits' BY SameFeatures DEF RequestsFit, ProcessFits
<1>2. ASSUME NEW s \in Requests \ T PROVE RequestFits(s)'
  <2>1. IdentityFits(s) /\ EffectFits(s) BY DEF RequestsFit, RequestFits
  <2>2. IdentityFits(s)'
    BY <2>1, SameFeatures DEF IdentityFits, NamesActors, Forwards, IsBearer
  <2>3. EffectFits(s)' BY <2>1 DEF EffectFits
  <2> QED BY <2>2, <2>3 DEF RequestFits
<1>3. StoppedServesNobody' BY DEF RequestsFit, StoppedServesNobody
<1> QED BY <1>1, <1>2, <1>3 DEF RequestsFit

(* The end of a handler, with an answer that is true of its effect. *)
LEMMA EndsKeeps ==
  ASSUME RequestsFit, NEW r \in Requests, NEW status,
         repository' = repository, config' = config, process' = process,
         Ends(r, status), status # "open",
         stage[r] \notin {"none", "done"},
         effect' \in [Requests -> {"none", "all", "part"}],
         \A s \in Requests \ {r} : effect'[s] = effect[s],
         effect'[r] = "all" => status \notin Refusals
  PROVE  RequestsFit'
<1>1. ServerShape /\ RequestFits(r) /\ StoppedServesNobody BY DEF RequestsFit
<1>2. /\ stage' = [stage EXCEPT ![r] = "done"] /\ feature' = [feature EXCEPT ![r] = None]
      /\ actor' = [actor EXCEPT ![r] = None]
      /\ request' = [request EXCEPT ![r] = Over(request[r])]
      /\ answer' = [answer EXCEPT ![r] = IF answer[r] = "open" THEN status ELSE answer[r]]
  BY DEF Ends
<1>3. ServerShape'
  <2>1. request' = [s \in Requests |-> request'[s]] BY <1>1, <1>2 DEF ServerShape
  <2>2. answer' = [s \in Requests |-> answer'[s]] BY <1>1, <1>2 DEF ServerShape
  <2>3. stage' \in [Requests -> Stages] BY <1>1, <1>2 DEF ServerShape, Stages
  <2>4. feature' \in [Requests -> Files \cup {None}] BY <1>1, <1>2 DEF ServerShape
  <2>5. actor' \in [Requests -> Runners \cup {None}] BY <1>1, <1>2 DEF ServerShape
  <2> QED BY <2>1, <2>2, <2>3, <2>4, <2>5 DEF ServerShape
<1>4. /\ stage'[r] = "done" /\ request'[r] = Over(request[r])
      /\ answer'[r] = IF answer[r] = "open" THEN status ELSE answer[r]
  BY <1>1, <1>2 DEF ServerShape
<1>5. \A s \in Requests \ {r} :
        /\ request'[s] = request[s] /\ stage'[s] = stage[s] /\ feature'[s] = feature[s]
        /\ actor'[s] = actor[s] /\ answer'[s] = answer[s]
  BY <1>1, <1>2 DEF ServerShape
<1>6. RequestFits(r)'
  <2>1. NamesActors(Over(request[r]).headers) BY DEF Over, Ask, Anonymous, NamesActors
  <2>2. process \in Started BY <1>1 DEF RequestFits, IdentityFits
  <2>3. NamesActors(request'[r].headers) BY <1>4, <2>1
  <2>4. IdentityFits(r)' BY <1>4, <2>2, <2>3 DEF IdentityFits, NamesActors
  <2>5. EffectFits(r)' BY <1>1, <1>4 DEF RequestFits, EffectFits
  <2> QED BY <2>4, <2>5 DEF RequestFits
<1>7. process = "stopped" => answer'[r] # "open" BY <1>4
<1> DEFINE T == {r}
<1>8. /\ T \in SUBSET Requests
      /\ \A s \in T : RequestFits(s)'
      /\ process = "stopped" => \A s \in T : answer'[s] # "open"
      /\ \A s \in Requests \ T :
           /\ request'[s] = request[s] /\ stage'[s] = stage[s] /\ feature'[s] = feature[s]
           /\ actor'[s] = actor[s] /\ answer'[s] = answer[s] /\ effect'[s] = effect[s]
  BY <1>5, <1>6, <1>7
<1> HIDE DEF T
<1> QED BY <1>3, <1>8, RequestsStep

(* An end without an effect. *)
LEMMA EndsQuietly ==
  ASSUME RequestsFit, NEW r \in Requests, NEW status,
         repository' = repository, UNCHANGED <<config, process, effect>>,
         Ends(r, status), status # "open", stage[r] \notin {"none", "done"}
  PROVE  RequestsFit'
<1>1. effect \in [Requests -> {"none", "all", "part"}] /\ effect[r] = "none"
  BY DEF RequestsFit, ServerShape, RequestFits, EffectFits
<1> QED BY <1>1, EndsKeeps

(* An end with the effects of Changes. *)
LEMMA EndsChanging ==
  ASSUME RequestsFit, NEW r \in Requests, NEW status, NEW effects \in SUBSET {"all", "part"},
         repository' = repository, UNCHANGED <<config, process>>,
         Ends(r, status), status # "open", stage[r] = "running",
         Changes(r, effects), "all" \in effects => status \notin Refusals
  PROVE  RequestsFit'
<1>1. PICK e \in {"none"} \cup effects : effect' = [effect EXCEPT ![r] = e] BY DEF Changes
<1>2. effect \in [Requests -> {"none", "all", "part"}] BY DEF RequestsFit, ServerShape
<1>3. /\ effect' \in [Requests -> {"none", "all", "part"}] /\ effect'[r] = e
      /\ \A s \in Requests \ {r} : effect'[s] = effect[s]
  BY <1>1, <1>2
<1> QED BY <1>3, EndsKeeps

(* A handler goes on, with its connection and its request as they are. *)
LEMMA GoesKeeps ==
  ASSUME RequestsFit, NEW r \in Requests, NEW where \in Stages,
         repository' = repository, UNCHANGED <<config, process, effect>>,
         Goes(r, where), stage[r] \notin {"none", "done"}, where # "done",
         feature' \in [Requests -> Files \cup {None}],
         actor' \in [Requests -> Runners \cup {None}],
         \A s \in Requests \ {r} : feature'[s] = feature[s] /\ actor'[s] = actor[s],
         IdentityFits(r)'
  PROVE  RequestsFit'
<1>1. ServerShape /\ RequestFits(r) /\ StoppedServesNobody BY DEF RequestsFit
<1>2. stage' = [stage EXCEPT ![r] = where] /\ answer' = answer /\ request' = request BY DEF Goes
<1>3. ServerShape' BY <1>1, <1>2 DEF ServerShape
<1>4. stage'[r] = where /\ \A s \in Requests \ {r} : stage'[s] = stage[s]
  BY <1>1, <1>2 DEF ServerShape
<1>5. EffectFits(r)' BY <1>1, <1>2, <1>4 DEF RequestFits, EffectFits
<1>6. process = "stopped" => answer'[r] # "open" BY <1>1, <1>2 DEF StoppedServesNobody
<1> DEFINE T == {r}
<1>7. RequestFits(r)' BY <1>5 DEF RequestFits
<1>8. /\ T \in SUBSET Requests
      /\ \A s \in T : RequestFits(s)'
      /\ process = "stopped" => \A s \in T : answer'[s] # "open"
      /\ \A s \in Requests \ T :
           /\ request'[s] = request[s] /\ stage'[s] = stage[s] /\ feature'[s] = feature[s]
           /\ actor'[s] = actor[s] /\ answer'[s] = answer[s] /\ effect'[s] = effect[s]
  BY <1>2, <1>4, <1>6, <1>7
<1> HIDE DEF T
<1> QED BY <1>3, <1>8, RequestsStep

LEMMA ResolvedAreRunners ==
  ASSUME config \in Environments, NEW c, NamesActors(c), NEW a \in Resolutions(c), a # None
  PROVE  /\ a \in Runners /\ IsBearer(c, a)
         /\ ~config.production =>
              a = Identity(Default(c.who, config.demo), Default(c.scopes, AllScopes))
<1>1. CASE config.production
  <2>1. PICK t \in {c.token} \ {None} : a = Identity(t.who, t.scopes)
    BY <1>1 DEF Resolutions
  <2>2. t = c.token /\ c.token # None /\ t.who \in Actors /\ t.who # None
    BY <2>1, ServerAssumption DEF NamesActors
  <2>3. a = [who |-> t.who, scopes |-> t.scopes \cap AllScopes] BY <2>1, <2>2 DEF Identity
  <2> QED BY <1>1, <2>1, <2>2, <2>3 DEF Runners, IsBearer
<1>2. CASE ~config.production
  <2> DEFINE w == Default(c.who, config.demo)
             sc == Default(c.scopes, AllScopes)
  <2>1. a = Identity(w, sc) BY <1>2 DEF Resolutions
  <2>2. w \in Actors \cup {None} BY ServerAssumption DEF NamesActors, Default
  <2> HIDE DEF w, sc
  <2>3. w \in Actors /\ a = [who |-> w, scopes |-> sc \cap AllScopes]
    BY <2>1, <2>2 DEF Identity
  <2> QED BY <1>2, <2>1, <2>3 DEF Runners, IsBearer, w, sc
<1> QED BY <1>1, <1>2

(* The answers that end a connection. *)
LEMMA StatusesEnd ==
  /\ OutputStatus = "500"
  /\ StatusFor("CapabilityMissing") = "400" /\ StatusFor("CapabilityNotAllowed") = "400"
  /\ \A code \in Failures : StatusFor(code) # "open"
  /\ "500" \notin Refusals /\ "200" \notin Refusals
<1>1. StatusFor("InvalidOutput") = "500" BY DEF StatusFor
<1>2. StatusFor("CapabilityMissing") = "400" BY DEF StatusFor
<1>3. StatusFor("CapabilityNotAllowed") = "400" BY DEF StatusFor
<1>4. /\ StatusFor("NotFound") = "404" /\ StatusFor("InvalidInput") = "422"
      /\ StatusFor("VersionConflict") = "409" /\ StatusFor("RequestInProgress") = "409"
      /\ StatusFor("ProviderUnavailable") = "503"
  BY DEF StatusFor
<1> QED BY <1>1, <1>2, <1>3, <1>4 DEF OutputStatus, Failures, Refusals

(* The handlers that answer at once: of the probes, a failed poll, a       *)
(* closed stream and the answers of the MCP endpoint.                      *)
LEMMA AnswersKeep ==
  ASSUME RequestsFit, repository' = repository, NEW r \in Requests,
         \/ Plain(r) \/ Ready(r) \/ Unsubscribe(r) \/ StreamFails(r) \/ McpAnswer(r)
         \/ McpRefused(r) \/ McpReturn(r)
  PROVE  RequestsFit'
<1>1. PICK status \in {"200", "503", "lost", "ended", "listed", "tool error", "result"} :
        Ends(r, status)
  <2>1. CASE Plain(r) BY <2>1 DEF Plain
  <2>2. CASE Ready(r) BY <2>2 DEF Ready
  <2>3. CASE Unsubscribe(r) BY <2>3 DEF Unsubscribe
  <2>4. CASE StreamFails(r) BY <2>4 DEF StreamFails
  <2>5. CASE McpAnswer(r) BY <2>5 DEF McpAnswer
  <2>6. CASE McpRefused(r) BY <2>6 DEF McpRefused
  <2>7. CASE McpReturn(r) BY <2>7 DEF McpReturn
  <2> QED BY <2>1, <2>2, <2>3, <2>4, <2>5, <2>6, <2>7
<1>2. /\ stage[r] \notin {"none", "done"}
      /\ config' = config /\ process' = process /\ effect' = effect
  BY DEF Plain, Ready, Unsubscribe, StreamFails, McpAnswer, McpRefused, McpReturn, At
<1>3. status # "open" BY <1>1
<1> QED BY <1>1, <1>2, <1>3, EndsQuietly

LEMMA DisconnectKeeps ==
  ASSUME RequestsFit, repository' = repository, NEW r \in Requests, Disconnect(r) \/ McpCut(r)
  PROVE  RequestsFit'
<1>1. /\ answer' = [answer EXCEPT ![r] = "lost"]
      /\ UNCHANGED <<config, process, request, stage, feature, actor, effect>>
  BY DEF Disconnect, McpCut
<1>2. ServerShape /\ RequestFits(r) BY DEF RequestsFit
<1>3. answer'[r] = "lost" /\ \A s \in Requests \ {r} : answer'[s] = answer[s]
  BY <1>1, <1>2 DEF ServerShape
<1>4. ServerShape' BY <1>1, <1>2 DEF ServerShape
<1>5. RequestFits(r)'
  <2>1. IdentityFits(r)'
    BY <1>1, <1>2, SameFeatures DEF RequestFits, IdentityFits, NamesActors, Forwards, IsBearer
  <2>2. EffectFits(r)' BY <1>1, <1>2, <1>3 DEF RequestFits, EffectFits, Refusals
  <2> QED BY <2>1, <2>2 DEF RequestFits
<1> DEFINE T == {r}
<1>6. /\ T \in SUBSET Requests
      /\ \A s \in T : RequestFits(s)'
      /\ process = "stopped" => \A s \in T : answer'[s] # "open"
      /\ \A s \in Requests \ T :
           /\ request'[s] = request[s] /\ stage'[s] = stage[s] /\ feature'[s] = feature[s]
           /\ actor'[s] = actor[s] /\ answer'[s] = answer[s] /\ effect'[s] = effect[s]
  BY <1>1, <1>3, <1>5
<1> HIDE DEF T
<1> QED BY <1>1, <1>4, <1>6, RequestsStep

(* A handler that has been entered has what the invariant says of it. *)
LEMMA Entered ==
  ASSUME RequestsFit, NEW r \in Requests, stage[r] # "none"
  PROVE  /\ config \in Environments /\ process \in Started /\ NamesActors(request[r].headers)
         /\ IdentityFits(r)
BY DEF RequestsFit, RequestFits, ProcessFits, IdentityFits

(* An actor is let in. *)
LEMMA LetInShape ==
  ASSUME ServerShape, NEW r \in Requests, NEW a \in Runners, NEW where \in Stages,
         LetIn(r, a, where)
  PROVE  /\ Goes(r, where) /\ stage'[r] = where /\ actor'[r] = a
         /\ request' = request /\ feature' = feature
         /\ feature' \in [Requests -> Files \cup {None}]
         /\ actor' \in [Requests -> Runners \cup {None}]
         /\ \A s \in Requests \ {r} : feature'[s] = feature[s] /\ actor'[s] = actor[s]
BY DEF ServerShape, LetIn, Goes

LEMMA SubscribeKeeps ==
  ASSUME RequestsFit, repository' = repository, NEW r \in Requests, Subscribe(r)
  PROVE  RequestsFit'
<1>1. stage[r] = "arrived" /\ UNCHANGED <<config, process, effect>> BY DEF Subscribe, At
<1>2. PICK a \in Resolutions(request[r].headers) :
        \/ Ends(r, "401") \/ Ends(r, "403")
        \/ a # None /\ LetIn(r, a, "streaming")
  BY DEF Subscribe
<1>3. CASE Ends(r, "401") BY <1>1, <1>3, EndsQuietly
<1>4. CASE Ends(r, "403") BY <1>1, <1>4, EndsQuietly
<1>5. CASE a # None /\ LetIn(r, a, "streaming")
  <2>1. NamesActors(request[r].headers) /\ config \in Environments /\ process \in Started
    BY <1>1, Entered
  <2>2. a \in Runners /\ "streaming" \in Stages
    BY <1>2, <1>5, <2>1, ResolvedAreRunners DEF Stages
  <2>3. ServerShape BY DEF RequestsFit
  <2>4. /\ Goes(r, "streaming") /\ stage'[r] = "streaming" /\ request' = request
        /\ feature' \in [Requests -> Files \cup {None}]
        /\ actor' \in [Requests -> Runners \cup {None}]
        /\ \A s \in Requests \ {r} : feature'[s] = feature[s] /\ actor'[s] = actor[s]
    BY <1>5, <2>2, <2>3, LetInShape
  <2>5. IdentityFits(r)' BY <1>1, <2>1, <2>4 DEF IdentityFits, NamesActors
  <2> QED BY <1>1, <2>2, <2>4, <2>5, GoesKeeps
<1> QED BY <1>2, <1>3, <1>4, <1>5

LEMMA McpOpenKeeps ==
  ASSUME RequestsFit, repository' = repository, NEW r \in Requests, McpOpen(r)
  PROVE  RequestsFit'
<1>1. stage[r] = "arrived" /\ UNCHANGED <<config, process, effect>> BY DEF McpOpen, At
<1>2. PICK a \in Resolutions(request[r].headers) :
        \/ Ends(r, "401") \/ Ends(r, "405")
        \/ a # None /\ LetIn(r, a, "tools")
  BY DEF McpOpen
<1>3. CASE Ends(r, "401") BY <1>1, <1>3, EndsQuietly
<1>4. CASE Ends(r, "405") BY <1>1, <1>4, EndsQuietly
<1>5. CASE a # None /\ LetIn(r, a, "tools")
  <2>1. NamesActors(request[r].headers) /\ config \in Environments /\ process \in Started
    BY <1>1, Entered
  <2>2. a \in Runners /\ "tools" \in Stages /\ IsBearer(request[r].headers, a)
    BY <1>2, <1>5, <2>1, ResolvedAreRunners DEF Stages
  <2>3. ServerShape BY DEF RequestsFit
  <2>4. /\ Goes(r, "tools") /\ stage'[r] = "tools" /\ actor'[r] = a /\ request' = request
        /\ feature' \in [Requests -> Files \cup {None}]
        /\ actor' \in [Requests -> Runners \cup {None}]
        /\ \A s \in Requests \ {r} : feature'[s] = feature[s] /\ actor'[s] = actor[s]
    BY <1>5, <2>2, <2>3, LetInShape
  <2>5. IdentityFits(r)' BY <1>1, <2>1, <2>2, <2>4 DEF IdentityFits, NamesActors, IsBearer
  <2> QED BY <1>1, <2>2, <2>4, <2>5, GoesKeeps
<1> QED BY <1>2, <1>3, <1>4, <1>5

(* A feature is chosen, for a call or by a tool. *)
LEMMA ChooseKeeps ==
  ASSUME RequestsFit, repository' = repository, NEW r \in Requests, NEW f \in Files,
         feature' = [feature EXCEPT ![r] = f], UNCHANGED <<actor, config, process, effect>>,
         \/ stage[r] = "arrived" /\ Goes(r, "authorizing")
         \/ stage[r] = "tools" /\ Goes(r, "fetching")
  PROVE  RequestsFit'
<1>1. ServerShape BY DEF RequestsFit
<1>2. /\ feature' \in [Requests -> Files \cup {None}] /\ feature'[r] = f
      /\ actor' \in [Requests -> Runners \cup {None}]
      /\ \A s \in Requests \ {r} : feature'[s] = feature[s] /\ actor'[s] = actor[s]
  BY <1>1 DEF ServerShape
<1>3. request' = request /\ stage[r] \notin {"none", "done"} BY DEF Goes
<1>4. process \in Started /\ NamesActors(request[r].headers) /\ IdentityFits(r)
  BY <1>3, Entered
<1>5. CASE stage[r] = "arrived" /\ Goes(r, "authorizing")
  <2>1. stage'[r] = "authorizing" BY <1>1, <1>5 DEF Goes, ServerShape
  <2>2. IdentityFits(r)'
    BY <1>2, <1>3, <1>4, <1>5, <2>1 DEF IdentityFits, NamesActors, Forwards, IsBearer
  <2>3. "authorizing" \in Stages BY DEF Stages
  <2> QED BY <1>2, <1>3, <1>5, <2>2, <2>3, GoesKeeps
<1>6. CASE stage[r] = "tools" /\ Goes(r, "fetching")
  <2>1. stage'[r] = "fetching" BY <1>1, <1>6 DEF Goes, ServerShape
  <2>2. IdentityFits(r)'
    BY <1>2, <1>3, <1>4, <1>6, <2>1 DEF IdentityFits, NamesActors, Forwards, IsBearer
  <2>3. "fetching" \in Stages BY DEF Stages
  <2> QED BY <1>2, <1>3, <1>6, <2>2, <2>3, GoesKeeps
<1> QED BY <1>5, <1>6

LEMMA ReadKeeps ==
  ASSUME RequestsFit, repository' = repository, NEW r \in Requests, Read(r)
  PROVE  RequestsFit'
<1>1. stage[r] = "arrived" /\ UNCHANGED <<config, process, effect>> BY DEF Read, At
<1>2. CASE Ends(r, "404") \/ Ends(r, "400") BY <1>1, <1>2, EndsQuietly
<1>3. CASE /\ \E f \in Matching(request[r]) : feature' = [feature EXCEPT ![r] = f]
           /\ Goes(r, "authorizing") /\ UNCHANGED actor
  <2>1. PICK f \in Files : feature' = [feature EXCEPT ![r] = f] BY <1>3 DEF Matching
  <2> QED BY <1>1, <1>3, <2>1, ChooseKeeps
<1> QED BY <1>2, <1>3 DEF Read, RefuseBody

LEMMA McpToolKeeps ==
  ASSUME RequestsFit, repository' = repository, NEW r \in Requests, McpTool(r)
  PROVE  RequestsFit'
<1>1. PICK f \in Files : feature' = [feature EXCEPT ![r] = f] BY DEF McpTool, Allowed
<1> QED BY <1>1, ChooseKeeps DEF McpTool, At

(* The request of a tool runs as its caller. *)
LEMMA ForwardedActor ==
  ASSUME NEW h, NEW caller, NEW a, a \in Runners,
         Forwards(h, caller), IsBearer(h, a),
         ~config.production =>
           a = Identity(Default(h.who, config.demo), Default(h.scopes, AllScopes))
  PROVE  a = caller \/ (~config.production /\ h.token # None)
<1>1. CASE config.production BY <1>1 DEF Forwards, IsBearer
<1>2. CASE ~config.production /\ h.token = None
  <2>1. caller \in Runners /\ h.who = caller.who /\ h.scopes = caller.scopes
    BY <1>2 DEF Forwards
  <2>2. caller.who # None /\ caller.scopes # None /\ caller.scopes \subseteq AllScopes
    BY <2>1, ServerAssumption DEF Runners
  <2>3. a = Identity(caller.who, caller.scopes) BY <1>2, <2>1, <2>2 DEF Default
  <2>4. caller.scopes \cap AllScopes = caller.scopes BY <2>2
  <2>5. a = [who |-> caller.who, scopes |-> caller.scopes] BY <2>2, <2>3, <2>4 DEF Identity
  <2> QED BY <2>1, <2>5 DEF Runners
<1> QED BY <1>1, <1>2

LEMMA AuthorizeKeeps ==
  ASSUME RequestsFit, repository' = repository, NEW r \in Requests, Authorize(r)
  PROVE  RequestsFit'
<1>1. stage[r] = "authorizing" /\ UNCHANGED <<config, process, effect>> BY DEF Authorize, At
<1>2. PICK a \in Resolutions(request[r].headers) :
        \/ Ends(r, "401") \/ Ends(r, "403") \/ Ends(r, "400")
        \/ a # None /\ Permitted(feature[r], a) /\ LetIn(r, a, "running")
  BY DEF Authorize
<1>3. CASE Ends(r, "401") BY <1>1, <1>3, EndsQuietly
<1>4. CASE Ends(r, "403") BY <1>1, <1>4, EndsQuietly
<1>5. CASE Ends(r, "400") BY <1>1, <1>5, EndsQuietly
<1>6. CASE a # None /\ Permitted(feature[r], a) /\ LetIn(r, a, "running")
  <2> DEFINE h == request[r].headers
  <2>1. /\ NamesActors(h) /\ config \in Environments /\ process \in Started
        /\ feature[r] \in Files
        /\ request[r].parent # None => Forwards(h, request[r].caller)
    BY <1>1, Entered DEF IdentityFits
  <2> HIDE DEF h
  <2>2. a \in Resolutions(h) BY DEF h
  <2>3. /\ a \in Runners /\ IsBearer(h, a)
        /\ ~config.production =>
             a = Identity(Default(h.who, config.demo), Default(h.scopes, AllScopes))
    BY <1>6, <2>1, <2>2, ResolvedAreRunners
  <2>4. ServerShape /\ "running" \in Stages BY DEF RequestsFit, Stages
  <2>5. /\ Goes(r, "running") /\ stage'[r] = "running" /\ actor'[r] = a /\ request' = request
        /\ feature' = feature
        /\ feature' \in [Requests -> Files \cup {None}]
        /\ actor' \in [Requests -> Runners \cup {None}]
        /\ \A s \in Requests \ {r} : feature'[s] = feature[s] /\ actor'[s] = actor[s]
    BY <1>6, <2>3, <2>4, LetInShape
  <2>6. request[r].parent # None =>
          a = request[r].caller \/ (~config.production /\ h.token # None)
    BY <2>1, <2>3, ForwardedActor
  <2>7. Scopes(feature[r])' \subseteq a.scopes BY <1>6, <2>5, SameFeatures DEF Permitted
  <2>8. request'[r].parent # None =>
          /\ Forwards(h, request[r].caller)'
          /\ a = request[r].caller \/ (~config'.production /\ h.token # None)
    BY <1>1, <2>1, <2>5, <2>6 DEF Forwards, IsBearer, h
  <2>9. IdentityFits(r)'
    BY <1>1, <2>1, <2>3, <2>5, <2>7, <2>8 DEF IdentityFits, NamesActors, h
  <2> QED BY <1>1, <2>4, <2>5, <2>9, GoesKeeps
<1> QED BY <1>2, <1>3, <1>4, <1>5, <1>6

LEMMA RunKeeps ==
  ASSUME RequestsFit, repository' = repository, NEW r \in Requests,
         Succeed(r) \/ Fail(r) \/ Stray(r) \/ Throw(r)
  PROVE  RequestsFit'
<1>1. stage[r] = "running" /\ UNCHANGED <<config, process>>
  BY DEF Succeed, Fail, Stray, Throw, Runs, At
<1>2. CASE Succeed(r)
  <2>1. (Ends(r, "200") \/ Ends(r, "500")) /\ Changes(r, {"all"})
    BY <1>2, StatusesEnd DEF Succeed
  <2> QED BY <1>1, <2>1, StatusesEnd, EndsChanging
<1>3. CASE Fail(r)
  <2>1. PICK status : Ends(r, status) /\ status # "open" BY <1>3, StatusesEnd DEF Fail
  <2> QED BY <1>1, <1>3, <2>1, EndsQuietly DEF Fail
<1>4. CASE Stray(r)
  <2>1. Ends(r, "400") /\ Changes(r, {"part"}) BY <1>4, StatusesEnd DEF Stray
  <2> QED BY <1>1, <2>1, EndsChanging
<1>5. CASE Throw(r)
  <2>1. Ends(r, "500") /\ Changes(r, {"all"}) BY <1>5 DEF Throw
  <2> QED BY <1>1, <2>1, StatusesEnd, EndsChanging
<1> QED BY <1>2, <1>3, <1>4, <1>5

(* A request that arrives has headers that name actors, and the request of *)
(* a tool leads back to its caller.                                        *)
LEMMA ArrivedFits ==
  ASSUME RequestsFit, NEW r \in Requests, stage[r] = "none", NEW q, NamesActors(q.headers),
         q.parent # None => Forwards(q.headers, q.caller),
         config' = config, repository' = repository, process' = "listening",
         request'[r] = q, stage'[r] = "arrived", answer'[r] = "open", effect' = effect
  PROVE  RequestFits(r)'
<1>1. effect[r] = "none" BY DEF RequestsFit, RequestFits, EffectFits, ServerShape
<1>2. EffectFits(r)' BY <1>1 DEF EffectFits, Refusals
<1>3. IdentityFits(r)' BY DEF IdentityFits, NamesActors, Forwards, IsBearer, Started
<1> QED BY <1>2, <1>3 DEF RequestFits

LEMMA AskedFits ==
  ASSUME config \in Environments, NEW q \in Asked
  PROVE  NamesActors(q.headers) /\ q.parent = None
<1>1. NamesActors(Anonymous) BY DEF NamesActors, Anonymous
<1>2. \A c \in Credentials : NamesActors(c) BY ServerAssumption DEF NamesActors
<1>3. NamesActors(StdioHeaders) BY ServerAssumption DEF NamesActors, StdioHeaders
<1>4. \E kind, method, where : \E c \in Credentials \cup {StdioHeaders, Anonymous} :
        q = Ask(kind, method, where, c)
  <2>1. CASE q \in {Ask(kind, "GET", None, Anonymous) : kind \in {"plain", "ready"}} BY <2>1
  <2>2. CASE q \in {Ask("stream", "GET", None, c) : c \in Credentials} BY <2>2
  <2>3. CASE q \in {Ask("mcp", method, None, c) : method \in {"GET", "POST"}, c \in Credentials}
    BY <2>3
  <2>4. CASE q \in {Ask("call", method, p, c) :
                      method \in Methods, p \in Paths, c \in Credentials \cup {StdioHeaders}}
    BY <2>4
  <2> QED BY <2>1, <2>2, <2>3, <2>4 DEF Asked
<1> QED BY <1>1, <1>2, <1>3, <1>4 DEF Ask

LEMMA ArriveKeeps ==
  ASSUME RequestsFit, repository' = repository, NEW r \in Requests, Arrive(r)
  PROVE  RequestsFit'
<1>1. PICK q \in Asked : Unused(r) /\ request' = [request EXCEPT ![r] = q]
  BY DEF Arrive, Accepted
<1>2. /\ process = "listening" /\ stage[r] = "none"
      /\ stage' = [stage EXCEPT ![r] = "arrived"]
      /\ answer' = [answer EXCEPT ![r] = "open"]
      /\ UNCHANGED <<config, process, feature, actor, effect>>
  BY <1>1 DEF Arrive, Unused
<1>3. ServerShape /\ config \in Environments BY <1>2 DEF RequestsFit, ProcessFits, Started
<1>4. NamesActors(q.headers) /\ q.parent = None BY <1>3, AskedFits
<1>5. /\ request'[r] = q /\ stage'[r] = "arrived" /\ answer'[r] = "open"
      /\ \A s \in Requests \ {r} :
           request'[s] = request[s] /\ stage'[s] = stage[s] /\ answer'[s] = answer[s]
  BY <1>1, <1>2, <1>3 DEF ServerShape
<1>6. ServerShape'
  <2>1. stage' \in [Requests -> Stages] BY <1>2, <1>3 DEF ServerShape, Stages
  <2>2. request' = [s \in Requests |-> request'[s]] BY <1>1, <1>3 DEF ServerShape
  <2>3. answer' = [s \in Requests |-> answer'[s]] BY <1>2, <1>3 DEF ServerShape
  <2> QED BY <1>2, <1>3, <2>1, <2>2, <2>3 DEF ServerShape
<1>7. RequestFits(r)' BY <1>2, <1>4, <1>5, ArrivedFits
<1> DEFINE T == {r}
<1>8. /\ T \in SUBSET Requests
      /\ \A s \in T : RequestFits(s)'
      /\ process = "stopped" => \A s \in T : answer'[s] # "open"
      /\ \A s \in Requests \ T :
           /\ request'[s] = request[s] /\ stage'[s] = stage[s] /\ feature'[s] = feature[s]
           /\ actor'[s] = actor[s] /\ answer'[s] = answer[s] /\ effect'[s] = effect[s]
  BY <1>2, <1>5, <1>7
<1> HIDE DEF T
<1> QED BY <1>2, <1>6, <1>8, RequestsStep

LEMMA LoopbackFits ==
  ASSUME NEW h, NEW a \in Runners, NamesActors(h), IsBearer(h, a)
  PROVE  NamesActors(LoopbackHeaders(h, a)) /\ Forwards(LoopbackHeaders(h, a), a)
<1>1. CASE h.token # None
  <2> DEFINE l == [token |-> h.token, who |-> None, scopes |-> None]
  <2>1. LoopbackHeaders(h, a) = l BY <1>1 DEF LoopbackHeaders
  <2>2. NamesActors(l) /\ Forwards(l, a) BY <1>1 DEF NamesActors, Forwards, IsBearer
  <2> QED BY <2>1, <2>2
<1>2. CASE h.token = None
  <2> DEFINE l == [token |-> None, who |-> a.who, scopes |-> a.scopes]
  <2>1. LoopbackHeaders(h, a) = l BY <1>2 DEF LoopbackHeaders
  <2>2. a.who \in Actors BY DEF Runners
  <2>3. NamesActors(l) /\ Forwards(l, a) BY <1>2, <2>2 DEF NamesActors, Forwards, IsBearer
  <2> QED BY <2>1, <2>3
<1> QED BY <1>1, <1>2

LEMMA McpCallKeeps ==
  ASSUME RequestsFit, repository' = repository, NEW r \in Requests, NEW s \in Requests,
         McpCall(r, s)
  PROVE  RequestsFit'
<1>1. PICK p \in Paths :
        Accepted(s, [kind |-> "call", method |-> Method(feature[r]), path |-> p,
                     headers |-> LoopbackHeaders(request[r].headers, actor[r]),
                     parent |-> r, caller |-> actor[r]])
  BY DEF McpCall
<1> DEFINE l == LoopbackHeaders(request[r].headers, actor[r])
           q == [kind |-> "call", method |-> Method(feature[r]), path |-> p,
                 headers |-> l, parent |-> r, caller |-> actor[r]]
<1>2. /\ process = "listening" /\ stage[r] = "fetching" /\ stage[s] = "none" /\ r # s
      /\ request' = [request EXCEPT ![s] = q]
      /\ stage' = [stage EXCEPT ![r] = "calling", ![s] = "arrived"]
      /\ answer' = [answer EXCEPT ![s] = "open"]
      /\ UNCHANGED <<config, process, feature, actor, effect>>
  BY <1>1 DEF McpCall, At, Accepted, Unused
<1>3. ServerShape /\ RequestFits(r) BY DEF RequestsFit
<1>4. /\ NamesActors(request[r].headers) /\ IdentityFits(r) /\ actor[r] \in Runners
      /\ IsBearer(request[r].headers, actor[r])
  BY <1>2, Entered DEF IdentityFits
<1>5. q.headers = l /\ q.caller = actor[r] OBVIOUS
<1>6. NamesActors(l) /\ Forwards(l, actor[r]) BY <1>4, LoopbackFits
<1> HIDE DEF l, q
<1>7. NamesActors(q.headers) /\ Forwards(q.headers, q.caller) BY <1>5, <1>6
<1>8. /\ request'[s] = q /\ stage'[s] = "arrived" /\ answer'[s] = "open"
      /\ stage'[r] = "calling" /\ request'[r] = request[r] /\ answer'[r] = answer[r]
      /\ \A t \in Requests \ {r, s} :
           request'[t] = request[t] /\ stage'[t] = stage[t] /\ answer'[t] = answer[t]
  BY <1>2, <1>3 DEF ServerShape
<1>9. ServerShape'
  <2>1. stage' \in [Requests -> Stages] BY <1>2, <1>3 DEF ServerShape, Stages
  <2>2. request' = [t \in Requests |-> request'[t]] BY <1>2, <1>3 DEF ServerShape
  <2>3. answer' = [t \in Requests |-> answer'[t]] BY <1>2, <1>3 DEF ServerShape
  <2> QED BY <1>2, <1>3, <2>1, <2>2, <2>3 DEF ServerShape
<1>10. RequestFits(s)' BY <1>2, <1>7, <1>8, ArrivedFits
<1>11. RequestFits(r)'
  <2>1. IdentityFits(r)'
    BY <1>2, <1>4, <1>8 DEF IdentityFits, NamesActors, IsBearer
  <2>2. EffectFits(r)' BY <1>2, <1>3, <1>8 DEF RequestFits, EffectFits
  <2> QED BY <2>1, <2>2 DEF RequestFits
<1> DEFINE T == {r, s}
<1>12. /\ T \in SUBSET Requests
       /\ \A t \in T : RequestFits(t)'
       /\ process = "stopped" => \A t \in T : answer'[t] # "open"
       /\ \A t \in Requests \ T :
            /\ request'[t] = request[t] /\ stage'[t] = stage[t] /\ feature'[t] = feature[t]
            /\ actor'[t] = actor[t] /\ answer'[t] = answer[t] /\ effect'[t] = effect[t]
  BY <1>2, <1>8, <1>10, <1>11
<1> HIDE DEF T
<1> QED BY <1>2, <1>9, <1>12, RequestsStep

(* The process starts, fails to, is told to stop, and closes the database. *)
LEMMA ProcessKeeps ==
  ASSUME RequestsFit, repository' = repository,
         \/ \E e \in Environments : Start(e)
         \/ StartFails \/ Signal \/ CloseDatabase
  PROVE  RequestsFit'
<1>1. UNCHANGED <<request, stage, feature, actor, answer, effect>>
  BY DEF Start, StartFails, Signal, CloseDatabase, requestVars
<1>2. ServerShape' BY <1>1 DEF RequestsFit, ServerShape
<1>3. ProcessFits'
  BY SameFeatures
     DEF RequestsFit, ProcessFits, Start, StartFails, Signal, CloseDatabase, Started
<1>4. StoppedServesNobody'
  BY <1>1 DEF RequestsFit, StoppedServesNobody, Start, StartFails, Signal, CloseDatabase,
              NobodyConnected
<1>5. ASSUME NEW r \in Requests PROVE RequestFits(r)'
  <2>1. IdentityFits(r) /\ EffectFits(r) BY DEF RequestsFit, RequestFits
  <2>2. EffectFits(r)' BY <1>1, <2>1 DEF EffectFits
  <2>3. process \in Started => process' \in Started /\ config' = config
    BY DEF Start, StartFails, Signal, CloseDatabase, Started
  <2>4. IdentityFits(r)'
    BY <1>1, <2>1, <2>3, SameFeatures DEF IdentityFits, NamesActors, Forwards, IsBearer
  <2> QED BY <2>2, <2>4 DEF RequestFits
<1> QED BY <1>2, <1>3, <1>4, <1>5 DEF RequestsFit

LEMMA RequestsStutter ==
  ASSUME RequestsFit, repository' = repository, UNCHANGED serverVars
  PROVE  RequestsFit'
<1>1. /\ UNCHANGED <<request, stage, feature, actor, answer, effect>>
      /\ UNCHANGED <<config, process>>
  BY DEF serverVars
<1>2. ServerShape' BY <1>1 DEF RequestsFit, ServerShape
<1>3. {} \in SUBSET Requests OBVIOUS
<1> QED BY <1>1, <1>2, <1>3, RequestsStep

LEMMA RequestsInitially == Init => RequestsFit
<1> SUFFICES ASSUME Init PROVE RequestsFit OBVIOUS
<1> USE DEF Init, ServerInit
<1>1. ServerShape BY DEF ServerShape, Stages
<1>2. ProcessFits /\ StoppedServesNobody BY DEF ProcessFits, Started, StoppedServesNobody
<1>3. \A r \in Requests : RequestFits(r)
  BY DEF RequestFits, IdentityFits, EffectFits, Refusals
<1> QED BY <1>1, <1>2, <1>3 DEF RequestsFit

LEMMA RequestsAlwaysFit == Spec => []RequestsFit
<1>1. ASSUME RequestsFit, [Next]_vars PROVE RequestsFit'
  <2>1. CASE RegistryNext /\ UNCHANGED serverVars
    BY <1>1, <2>1, RegistryKeepsRepository, RequestsStutter
  <2>2. CASE ServerNext /\ UNCHANGED registryVars
    <3>1. repository' = repository BY <2>2 DEF registryVars
    <3>2. CASE \/ \E e \in Environments : Start(e)
               \/ StartFails \/ Signal \/ CloseDatabase
      BY <1>1, <3>1, <3>2, ProcessKeeps
    <3>3. ASSUME NEW r \in Requests,
                 Arrive(r) \/ Disconnect(r) \/ Handle(r) \/ StreamFails(r) \/ McpCut(r)
          PROVE  RequestsFit'
      BY <1>1, <3>1, <3>3, ArriveKeeps, DisconnectKeeps, AnswersKeep, SubscribeKeeps,
         ReadKeeps, AuthorizeKeeps, RunKeeps, McpOpenKeeps, McpToolKeeps, McpCallKeeps
         DEF Handle
    <3> QED BY <2>2, <3>2, <3>3 DEF ServerNext
  <2>3. CASE UNCHANGED vars
    <3>1. repository' = repository /\ UNCHANGED serverVars BY <2>3 DEF vars, registryVars
    <3> QED BY <1>1, <3>1, RequestsStutter
  <2> QED BY <1>1, <2>1, <2>2, <2>3 DEF Next
<1> QED BY RequestsInitially, <1>1, PTL DEF Spec

(* For any features, requests and environments: a started server executes  *)
(* what its definitions say, a feature runs only for an actor with the     *)
(* scopes that its definition declares and, called by a tool, as the       *)
(* caller of the tool, and no connection is open when the database closes. *)
THEOREM ServerInvariantHolds == Spec => []ServerInvariant
<1>1. ASSUME RequestsFit PROVE ServerInvariant
  <2>1. ServerTypes
    BY <1>1 DEF RequestsFit, ServerShape, ProcessFits, Started, ServerTypes, Stages
  <2>2. OnlyDiscovered BY <1>1 DEF RequestsFit, ProcessFits, Started, OnlyDiscovered
  <2>3. RunsArePermitted
    <3>1. ASSUME NEW r \in Requests, stage[r] = "running"
          PROVE  Definition(feature[r]).binding.scopes \subseteq actor[r].scopes
      <4>1. IdentityFits(r) /\ process \in Started BY <1>1, <3>1, Entered
      <4>2. feature[r] \in Files /\ Scopes(feature[r]) \subseteq actor[r].scopes
        BY <3>1, <4>1 DEF IdentityFits
      <4>3. Discoverable BY <1>1, <4>1 DEF RequestsFit, ProcessFits
      <4> QED BY <4>2, <4>3 DEF Discoverable, Parity, Scopes
    <3> QED BY <3>1 DEF RunsArePermitted
  <2>4. SameActor
    BY <1>1 DEF RequestsFit, RequestFits, IdentityFits, SameActor
  <2> QED BY <1>1, <2>1, <2>2, <2>3, <2>4 DEF ServerInvariant, RequestsFit
<1> QED BY RequestsAlwaysFit, <1>1, PTL

(* Whatever is answered with a status that refuses the call has not had    *)
(* the effect of its feature.                                              *)
THEOREM RefusalsHaveNoEffect == Spec => []RefusedHasNoEffect
<1>1. RequestsFit => RefusedHasNoEffect
  BY DEF RequestsFit, RequestFits, EffectFits, RefusedHasNoEffect
<1> QED BY RequestsAlwaysFit, <1>1, PTL

=============================================================================
