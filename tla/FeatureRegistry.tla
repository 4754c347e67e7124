---------------------------- MODULE FeatureRegistry ----------------------------
(***************************************************************************)
(* The feature definitions of the Focusly application and the two readers  *)
(* that judge them: the validator of the build                             *)
(* (core/architecture/validate-feature-definitions.ts), whose search of    *)
(* the dependency graph is a walk with a path and a set of visited         *)
(* features, and the discovery of the server                               *)
(* (core/backend/discovery/discover-features.ts), which compares every     *)
(* definition with the manifest that is going to be executed.              *)
(*                                                                         *)
(* The contents of a repository map a definition file to the definition in *)
(* it, the manifest next to it and the slots its contribution.tsx names.   *)
(* "binding" holds what a definition and a manifest both state; "sound" is *)
(* what only the text of a file can get wrong: the JSON schema, the enum   *)
(* values, the existence of the referenced files, the shape of a manifest. *)
(***************************************************************************)
EXTENDS Naturals, Sequences, FiniteSets

CONSTANTS
  Files,        \* the definition files, in the order of their paths
  Names,        \* what a definition may call a feature, in the order of the alphabet
  Repositories, \* the contents the files may have
  None

ASSUME RegistryAssumption ==
  /\ Files \subseteq Nat /\ Names \subseteq Nat
  /\ \A repo \in Repositories, f \in Files :
       /\ repo[f].definition.binding.name \in Names
       /\ repo[f].definition.dependsOn \in SUBSET Names

VARIABLES
  repository, \* the contents of the files
  verdict,    \* what the validator has found
  path,       \* the features being visited: path and visiting
  left,       \* left[n]: dependencies of n that its visit has still to follow
  visited     \* the features whose visit has ended

registryVars == <<repository, verdict, path, left, visited>>

Definition(f) == repository[f].definition
Manifest(f) == repository[f].manifest

-----------------------------------------------------------------------------
(* The rules for one definition, and between two *)

(* The checks of main on a definition by itself. *)
FollowsRules(f) ==
  LET d == Definition(f) b == d.binding IN
  /\ d.sound /\ d.guarded
  /\ \A c \in b.consumers : c \in d.consumesContracts
  /\ b.exposed => b.scopes # {} /\ b.tool # None
  /\ b.method = "DELETE" => d.requiresConfirmation
  /\ b.slots = repository[f].contributed
  /\ "idempotencyKey" \notin d.requiredInput
  /\ d.optimistic => "expectedVersion" \in d.requiredInput

Distinct(b, c) ==
  /\ <<b.method, b.route>> # <<c.method, c.route>>
  /\ b.exposed /\ c.exposed => b.tool # c.tool

Validated ==
  /\ \A f \in Files : FollowsRules(f)
  /\ \A f, g \in Files : f # g => Distinct(Definition(f).binding, Definition(g).binding)

(* Bug: assertParity does not compare the scopes. *)
ScopeBlindParity(f) ==
  [Definition(f).binding EXCEPT !.scopes = Manifest(f).binding.scopes] = Manifest(f).binding

(* assertParity *)
Parity(f) == Definition(f).binding = Manifest(f).binding

(* discoverFeatureManifests: throws, or returns the manifests. *)
Discoverable ==
  /\ \A f \in Files : Manifest(f).sound /\ Parity(f)
  /\ \A f, g \in Files : f # g =>
       /\ Manifest(f).binding.name # Manifest(g).binding.name
       /\ Distinct(Manifest(f).binding, Manifest(g).binding)

-----------------------------------------------------------------------------
(* assertAcyclicFeatureDependencies *)

Known == {Definition(f).binding.name : f \in Files}

(* The file that byName keeps of a name: the last one. *)
Named(n) == CHOOSE f \in Files :
  /\ Definition(f).binding.name = n
  /\ \A g \in Files : Definition(g).binding.name = n => g <= f

Dependencies(n) == Definition(Named(n)).dependsOn

Visiting == {path[i] : i \in DOMAIN path}

RegistryInit ==
  /\ repository \in Repositories
  /\ verdict = "none"
  /\ path = <<>> /\ visited = {}
  /\ left = [n \in Names |-> {}]

(* The checks that precede the search. *)
Validate ==
  /\ verdict = "none"
  /\ verdict' \in {"searching", "refused"}
  /\ verdict' = "searching" <=> Validated
  /\ UNCHANGED <<repository, path, left, visited>>

Enter(n) ==
  /\ path' = Append(path, n)
  /\ left' = [left EXCEPT ![n] = Dependencies(n)]
  /\ UNCHANGED <<verdict, visited>>

(* The outer loop. *)
VisitFeature(n) ==
  /\ verdict = "searching" /\ path = <<>>
  /\ n \in Known \ visited
  /\ Enter(n)
  /\ UNCHANGED repository

(* The loop over the dependencies of the last feature of the path. *)
Follow(d) ==
  LET n == path[Len(path)] IN
  /\ verdict = "searching" /\ path # <<>>
  /\ d \in left[n]
  /\ left' = [left EXCEPT ![n] = @ \ {d}]
  /\ UNCHANGED <<repository, visited>>

FollowBack(d) ==
  /\ Follow(d) /\ d \in Visiting
  /\ verdict' = "circular"
  /\ UNCHANGED path

(* Bug: a feature whose visit has begun counts as visited. *)
FollowAgainEarly(d) ==
  /\ Follow(d) /\ d \in visited \cup Visiting
  /\ UNCHANGED <<verdict, path>>

FollowAgain(d) ==
  /\ Follow(d) /\ d \in visited \ Visiting
  /\ UNCHANGED <<verdict, path>>

FollowNowhere(d) ==
  /\ Follow(d) /\ d \notin Visiting \cup visited \cup Known
  /\ verdict' = "unknown"
  /\ UNCHANGED path

FollowOn(d) ==
  LET n == path[Len(path)] IN
  /\ verdict = "searching" /\ path # <<>>
  /\ d \in left[n] /\ d \in Known \ (Visiting \cup visited)
  /\ path' = Append(path, d)
  /\ left' = [left EXCEPT ![n] = @ \ {d}, ![d] = Dependencies(d)]
  /\ UNCHANGED <<repository, verdict, visited>>

Leave ==
  LET n == path[Len(path)] IN
  /\ verdict = "searching" /\ path # <<>>
  /\ left[n] = {}
  /\ path' = SubSeq(path, 1, Len(path) - 1)
  /\ visited' = visited \cup {n}
  /\ UNCHANGED <<repository, verdict, left>>

Accept ==
  /\ verdict = "searching" /\ path = <<>> /\ Known \subseteq visited
  /\ verdict' = "accepted"
  /\ UNCHANGED <<repository, path, left, visited>>

RegistryNext ==
  \/ Validate \/ Leave \/ Accept
  \/ \E n \in Names :
       VisitFeature(n) \/ FollowBack(n) \/ FollowAgain(n) \/ FollowNowhere(n) \/ FollowOn(n)

RegistrySpec == RegistryInit /\ [][RegistryNext]_registryVars

-----------------------------------------------------------------------------
(* What the verdict means *)

(* Every set of features has one that depends on no other of the set, nor on itself. *)
Acyclic == \A S \in SUBSET Known : S # {} => \E n \in S : Dependencies(n) \cap S = {}

Closed == \A n \in Known : Dependencies(n) \subseteq Known

(* The verdict of the validator about the dependency graph is right in both *)
(* directions: it accepts only graphs without a cycle and without a         *)
(* dependency on a feature that does not exist, and it reports a cycle or   *)
(* an unknown feature only where there is one                               *)
(* (validate-feature-definitions.ts:78-94).                                 *)
VerdictIsRight ==
  /\ verdict = "accepted" => Acyclic /\ Closed
  /\ verdict = "circular" => ~Acyclic
  /\ verdict = "unknown" => ~Closed

=============================================================================
