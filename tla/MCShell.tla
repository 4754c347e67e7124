-------------------------------- MODULE MCShell --------------------------------
(* Small instances of Shell for TLC. *)
EXTENDS Shell, TLC

CONSTANTS list, create, content, navigation, created, deleted, planned

Slot(key, name) == [kind |-> "contribution", key |-> key, name |-> name]
Consumer(key, name) == [kind |-> "consumer", key |-> key, name |-> name]

Module(exports) ==
  [declared |-> {exports[i] : i \in {j \in DOMAIN exports : exports[j].kind = "consumer"}},
   exports |-> exports]

Sound ==
  (list :> Module(<<Slot(content, list), Slot(navigation, list), Consumer(created, list),
                   Consumer(deleted, list)>>)) @@
  (create :> Module(<<Slot(content, create), Consumer(created, create)>>))

(* One module takes a name of the other. *)
Colliding ==
  [Sound EXCEPT ![create] = Module(<<Slot(content, create), Slot(content, list), Consumer(created, create)>>)]

(* One module has not the consumers it declares. *)
Undeclared == [Sound EXCEPT ![create].declared = {}]

SomeBundles == {Sound, Colliding, Undeclared}

(* Nobody consumes the second. *)
Types == <<created, planned, deleted>>
=============================================================================
