---------------------------- MODULE CommandMutation ----------------------------
(***************************************************************************)
(* Commands of the browser: the hook useCommandMutation of the Focusly     *)
(* client (core/frontend/query/react-query.tsx), its CommandIdStore and    *)
(* the answers it tells apart (core/frontend/api.ts), with the forms that  *)
(* use it.  A form draws an id for an input it has no id for, sends every  *)
(* repetition of the input with that id, and settles the id when it is     *)
(* told a definitive outcome.                                              *)
(*                                                                         *)
(* The other side is CommandService, with the ids as its keys.  An id is   *)
(* named by the request it was drawn for.                                  *)
(***************************************************************************)
EXTENDS Naturals, FiniteSets

CONSTANTS
  Inputs,     \* the inputs of the forms, each of one form only
  Guarded,    \* those whose button is disabled while a call is pending
  OneShot,    \* those that are offered once: accepting a suggestion
  Requests,   \* the requests the browser sends, numbered in that order
  MaxLeaves,  \* bound: forms that are left
  Nothing

(* The results that end a command; all are recorded, also that the planner *)
(* was unavailable (503).                                                  *)
Results == {"ok", "refused", "unavailable"}

ASSUME CommandAssumption ==
  /\ Requests \subseteq Nat /\ IsFiniteSet(Requests)
  /\ Guarded \subseteq Inputs /\ OneShot \subseteq Inputs
  /\ Nothing \notin Requests /\ Nothing \notin Inputs /\ Nothing \notin Results
  /\ MaxLeaves \in Nat

VARIABLES
  ids,       \* ids[i]: the id that the mounted form of i retains, or Nothing
  accepted,  \* the inputs whose form has set its accepted flag
  client,    \* client[r]: "unused", "waiting", "answered" or "lost"
  inputOf,   \* inputOf[r]: the input r was sent with
  idOf,      \* idOf[r]: the id r was sent with
  orphans,   \* requests whose form has been left
  server,    \* server[r]: where r is on the server, or what it was answered
  records,   \* records[d]: the record of id d
  holder,    \* holder[d]: the request that may complete d
  told,      \* told[i]: outcomes the user was told, and forms left
  leaves     \* forms left so far

commandVars ==
  <<ids, accepted, client, inputOf, idOf, orphans, server, records, holder, told, leaves>>

Service == INSTANCE CommandService WITH
  Keys <- Requests, None <- Nothing, keyOf <- idOf, replies <- server

CommandInit ==
  /\ Service!ServiceInit
  /\ ids = [i \in Inputs |-> Nothing]
  /\ accepted = {} /\ orphans = {} /\ leaves = 0
  /\ client = [r \in Requests |-> "unused"]
  /\ inputOf = [r \in Requests |-> Nothing]
  /\ told = [i \in Inputs |-> 0]

formVars == <<accepted, orphans, told, leaves>>
serverVars == <<server, records, holder>>

-----------------------------------------------------------------------------
(* The browser *)

(* The calls that pendingCount counts. *)
Pending(i) == {r \in Requests : client[r] = "waiting" /\ inputOf[r] = i /\ r \notin orphans}

(* CommandIdStore.get *)
GetId(i, r) == IF ids[i] = Nothing THEN r ELSE ids[i]

(* The button is enabled: a guarded one while no call of its form is       *)
(* pending, the one of a suggestion until it is accepted.                  *)
Offered(i) == (i \in Guarded => Pending(i) = {}) /\ i \notin accepted

(* The button of the form: mutate(input). *)
Click(i, r) ==
  /\ client[r] = "unused" /\ \A q \in Requests : q < r => client[q] # "unused"
  /\ Offered(i)
  /\ ids' = [ids EXCEPT ![i] = GetId(i, r)]
  /\ client' = [client EXCEPT ![r] = "waiting"]
  /\ inputOf' = [inputOf EXCEPT ![r] = i]
  /\ Service!Arrive(r, GetId(i, r))
  /\ UNCHANGED formVars

(* Bug: a command that another request is running counts as refused. *)
BusyIsDefinitive(answer) == answer.kind \in {"refused", "busy"} \/ answer.result \in {"ok", "refused"}

(* A success, or a failure for isDefinitiveCommandFailure: a status below  *)
(* 500 other than RequestInProgress.                                       *)
Definitive(answer) == answer.kind = "refused" \/ answer.result \in {"ok", "refused"}

(* The user learns what became of the command. *)
TellsOutcome(answer) == answer.kind = "refused" \/ answer.result \in {"ok", "refused"}

(* settle and onSuccess, of the form that is still mounted.  settle        *)
(* deletes whatever id the store has for the input.                        *)
Told(r, answer) ==
  /\ ids' = [ids EXCEPT ![inputOf[r]] =
               IF Definitive(answer) /\ r \notin orphans THEN Nothing ELSE @]
  /\ accepted' = IF answer.result = "ok" /\ inputOf[r] \in OneShot /\ r \notin orphans
                 THEN accepted \cup {inputOf[r]} ELSE accepted
  /\ told' = [told EXCEPT ![inputOf[r]] = IF TellsOutcome(answer) THEN @ + 1 ELSE @]

(* The response arrives. *)
Receive(r) ==
  /\ client[r] = "waiting"
  /\ server[r].kind \notin {"none", "running"}
  /\ client' = [client EXCEPT ![r] = "answered"]
  /\ Told(r, server[r])
  /\ UNCHANGED <<inputOf, idOf, orphans, leaves, serverVars>>

(* The connection breaks, or the deadline of the request destroys it: the  *)
(* id stays, and the server goes on.                                       *)
Break(r) ==
  /\ client[r] = "waiting"
  /\ client' = [client EXCEPT ![r] = "lost"]
  /\ UNCHANGED <<ids, inputOf, idOf, formVars, serverVars>>

(* The form is unmounted, its ids go with it; it may be opened again.      *)
Leave(i) ==
  /\ leaves < MaxLeaves /\ leaves' = leaves + 1
  /\ ids' = [ids EXCEPT ![i] = Nothing]
  /\ accepted' = accepted \ {i}
  /\ orphans' = orphans \cup {r \in Requests : inputOf[r] = i}
  /\ told' = [told EXCEPT ![i] = @ + 1]
  /\ UNCHANGED <<client, inputOf, idOf, serverVars>>

-----------------------------------------------------------------------------
(* The server *)

(* What becomes of the requests that were sent. *)
ServerStep(r) ==
  LET id == idOf[r] IN
  /\ client[r] # "unused"
  /\ \/ Service!Refuse(r, id) \/ Service!Run(r, id) \/ Service!Busy(r, id)
     \/ Service!Replay(r, id) \/ Service!Fail(r)
     \/ \E result \in Results : Service!Complete(r, result)
  /\ UNCHANGED <<ids, client, inputOf, formVars>>

BrowserStep ==
  \/ \E r \in Requests : (\E i \in Inputs : Click(i, r)) \/ Receive(r) \/ Break(r)
  \/ \E i \in Inputs : Leave(i)

CommandNext == BrowserStep \/ \E r \in Requests : ServerStep(r)

CommandSpec == CommandInit /\ [][CommandNext]_commandVars

-----------------------------------------------------------------------------
(* Safety *)

Sent == {r \in Requests : client[r] # "unused"}

CommandTypes ==
  /\ Service!ServiceTypes
  /\ ids \in [Inputs -> Requests \cup {Nothing}]
  /\ accepted \subseteq OneShot /\ orphans \subseteq Requests
  /\ client \in [Requests -> {"unused", "waiting", "answered", "lost"}]
  /\ inputOf \in [Requests -> Inputs \cup {Nothing}]
  /\ told \in [Inputs -> Nat] /\ leaves \in 0..MaxLeaves
  /\ \A r \in Sent : inputOf[r] \in Inputs /\ idOf[r] \in Requests
  /\ \A r \in Requests \ Sent : inputOf[r] = Nothing /\ idOf[r] = Nothing /\ server[r].kind = "none"

(* The ids that input i was sent with. *)
IdsOf(i) == {d \in Requests : idOf[d] = d /\ inputOf[d] = i}

(* An id is drawn by the first call that carries it and serves one input;  *)
(* only a call that was sent has a record.                                 *)
IdsAreDrawn ==
  /\ \A r \in Sent : idOf[r] \in IdsOf(inputOf[r])
  /\ \A i \in Inputs : ids[i] # Nothing => ids[i] \in IdsOf(i)
  /\ \A d \in Requests : records[d].status # "Absent" => \E i \in Inputs : d \in IdsOf(i)

(* An id in reserve has been paid for by an outcome that was told.         *)
IdsAreEarned ==
  \A i \in Inputs :
    IF ids[i] = Nothing THEN Cardinality(IdsOf(i)) <= told[i]
                     ELSE Cardinality(IdsOf(i)) <= told[i] + 1

(* What the user has been shown is what the record of the command says.    *)
AnswersAreRecorded ==
  \A r \in Requests :
    /\ server[r].kind = "result" => records[idOf[r]] = Service!Completed(server[r].result)
    /\ client[r] = "answered" => server[r].kind \notin {"none", "running"}

CommandInvariant == CommandTypes /\ IdsAreDrawn /\ IdsAreEarned /\ AnswersAreRecorded

Effects(i) == {d \in Requests : records[d].result = "ok" /\ d \in IdsOf(i)}

(* However often the user repeats a command, whatever breaks in between    *)
(* and whichever of its requests are still running: it has at most one     *)
(* effect more than the outcomes the user was told (or did not wait for).  *)
NoDuplicateUntilTold ==
  \A i \in Inputs : Cardinality(Effects(i)) <= told[i] + 1

=============================================================================
