------------------------ MODULE DurableCommandProofs ------------------------
(***************************************************************************)
(* Proofs about DurableCommand, for every value of its constants: the      *)
(* inductive invariant, the safety properties that follow from it, and     *)
(* that the protocol implements OnceCommand.                               *)
(***************************************************************************)
EXTENDS DurableCommand, TLAPS

-----------------------------------------------------------------------------
(* What the operators on documents return. *)

LEMMA LeasedFacts ==
  ASSUME now \in Nat, NEW i \in Inputs, NEW x \in Requests, NEW a \in Answers,
         NEW doc, doc = Leased(i, x, a)
  PROVE  /\ doc \in Record
         /\ doc.status = "Pending" /\ doc.input = i /\ doc.executionId = x
         /\ doc.preparedCapabilities = a
<1>1. now + LeaseMs \in Nat
  BY ConstantsAssumption
<1>2. doc \in RecordsWith("Pending", {None})
  BY <1>1 DEF Leased, RecordsWith
<1> QED
  BY <1>2 DEF Leased, Record

LEMMA CompletedFacts ==
  ASSUME NEW old \in Record, old.status = "Pending", NEW result \in Result,
         NEW doc, doc = Completed(old, result)
  PROVE  /\ doc \in Record
         /\ doc.status = "Completed" /\ doc.result = result
         /\ doc.input = old.input
<1>1. old \in RecordsWith("Pending", {None})
  BY DEF Record, RecordsWith, Absent
<1>2. doc \in RecordsWith("Completed", Result)
  BY <1>1 DEF Completed, RecordsWith
<1> QED
  BY <1>2 DEF Completed, Record

LEMMA RecordFacts ==
  ASSUME NEW doc \in Record
  PROVE  /\ doc.status \in {"Absent", "Pending", "Completed"}
         /\ doc.preparedCapabilities \in Answers
         /\ doc.status # "Absent" =>
              /\ doc.input \in Inputs
              /\ doc.executionId \in Requests
         /\ doc.status = "Completed" => doc.result \in Result
BY DEF Record, RecordsWith, Absent, NoAnswers, Answers

LEMMA ReplyFacts ==
  /\ \A kind \in {"none", "in-progress", "key-reused", "thrown"} :
       Say(kind) \in Reply /\ Say(kind).kind = kind
  /\ \A result \in Result :
       /\ Tell(result) \in Reply
       /\ Tell(result).kind = "value" /\ Tell(result).result = result
BY DEF Say, Tell, Reply

-----------------------------------------------------------------------------
(* The inductive invariant, one lemma per action. *)

LEMMA InitInvariant == Init => ProtocolInvariant
<1> SUFFICES ASSUME Init PROVE ProtocolInvariant
  OBVIOUS
<1>1. Absent \in Record /\ NoAnswers \in Answers
  BY DEF Record, NoAnswers, Answers
<1>2. TypeOK
  BY <1>1, ReplyFacts DEF Init, TypeOK, Stages, Command
<1>3. CommandKnown
  BY DEF Init, CommandKnown, Executing
<1>4. StagedHolderKeepsFence
  BY DEF Init, StagedHolderKeepsFence
<1>5. EffectMatchesRecord
  BY DEF Init, EffectMatchesRecord, Absent
<1>6. RepliesAgree
  BY DEF Init, RepliesAgree, Say
<1> QED
  BY <1>2, <1>3, <1>4, <1>5, <1>6 DEF ProtocolInvariant

LEMMA ClaimInvariant ==
  ASSUME ProtocolInvariant, NEW r \in Requests, NEW k \in Keys, NEW i \in Inputs,
         Claim(r, k, i)
  PROVE  ProtocolInvariant'
<1> USE DEF ProtocolInvariant
<1>1. NoAnswers \in Answers
  BY DEF NoAnswers, Answers
<1>2. /\ pc[r] = "idle" /\ reply[r] = Say("none") /\ staged' = staged
      /\ cmd' = [cmd EXCEPT ![r] = [key |-> k, input |-> i]]
      /\ prepared' = [prepared EXCEPT ![r] = NoAnswers]
  BY DEF Claim, CommandKnown
<1>3. CASE records[k].status = "Absent"
  <2> DEFINE doc == Leased(i, r, NoAnswers)
  <2>1. records' = [records EXCEPT ![k] = doc] /\ pc' = [pc EXCEPT ![r] = "prepare"]
    BY <1>3 DEF Claim, GoTo
  <2>2. doc \in Record /\ doc.status = "Pending" /\ doc.input = i
    BY LeasedFacts, <1>1 DEF TypeOK
  <2> HIDE DEF doc
  <2>3. TypeOK'
    BY <1>1, <1>2, <2>1, <2>2 DEF TypeOK, Claim, Stages, Command
  <2>4. CommandKnown'
    BY <1>2, <2>1, <2>2 DEF TypeOK, CommandKnown, Executing, Claim, record
  <2>5. StagedHolderKeepsFence'
    BY <1>2, <1>3, <2>1 DEF TypeOK, StagedHolderKeepsFence, HoldsFence, Claim
  <2>6. EffectMatchesRecord'
    BY <1>3, <2>1, <2>2 DEF TypeOK, EffectMatchesRecord, Claim
  <2>7. RepliesAgree'
    BY <1>2, <1>3, <2>1, <2>2 DEF TypeOK, RepliesAgree, Claim, Say, record
  <2> QED
    BY <2>3, <2>4, <2>5, <2>6, <2>7
<1>4. CASE records[k].status # "Absent"
  <2>1. records' = records /\ pc' = [pc EXCEPT ![r] = "existing"]
    BY <1>4 DEF Claim, GoTo
  <2>3. TypeOK'
    BY <1>1, <1>2, <2>1 DEF TypeOK, Claim, Stages, Command
  <2>4. CommandKnown'
    BY <1>2, <1>4, <2>1 DEF TypeOK, CommandKnown, Executing, Claim, record
  <2>5. StagedHolderKeepsFence'
    BY <1>2, <2>1 DEF TypeOK, StagedHolderKeepsFence, HoldsFence, Claim
  <2>6. EffectMatchesRecord'
    BY <2>1 DEF TypeOK, EffectMatchesRecord, Claim
  <2>7. RepliesAgree'
    BY <1>2, <2>1 DEF TypeOK, RepliesAgree, Claim, Say, record
  <2> QED
    BY <2>3, <2>4, <2>5, <2>6, <2>7
<1> QED
  BY <1>3, <1>4

LEMMA ReadExistingInvariant ==
  ASSUME ProtocolInvariant, NEW r \in Requests, ReadExisting(r)
  PROVE  ProtocolInvariant'
<1> USE DEF ProtocolInvariant
<1>1. /\ pc[r] = "existing" /\ cmd[r] \in [key : Keys, input : Inputs]
      /\ record(r) \in Record /\ record(r).status # "Absent"
      /\ UNCHANGED <<records, staged, commits, now, cmd, snapshot, interruptions>>
  BY DEF ReadExisting, CommandKnown, TypeOK, record, dbVars
<1>2. EffectMatchesRecord'
  BY <1>1 DEF EffectMatchesRecord
<1>3. CASE pc' = [pc EXCEPT ![r] = "reply"]
  <2>1. /\ UNCHANGED prepared
        /\ \/ reply' = [reply EXCEPT ![r] = Say("key-reused")]
           \/ /\ record(r).input = cmd[r].input
              /\ record(r).status = "Completed"
              /\ reply' = [reply EXCEPT ![r] = Tell(record(r).result)]
    BY <1>3 DEF ReadExisting, SameInput, Finish, GoTo, TypeOK
  <2>2. reply'[r] \in Reply /\ record(r)' = record(r)
    BY <1>1, <2>1, RecordFacts, ReplyFacts DEF TypeOK, record
  <2>3. TypeOK'
    BY <1>1, <1>3, <2>1, <2>2 DEF TypeOK, Stages
  <2>4. CommandKnown'
    BY <1>1, <1>3, <2>1, <2>2 DEF TypeOK, CommandKnown, Executing, record
  <2>5. StagedHolderKeepsFence'
    BY <1>1, <1>3 DEF TypeOK, StagedHolderKeepsFence, HoldsFence
  <2>6. RepliesAgree'
    <3>1. reply'[r].kind = "value" =>
            /\ record(r).status = "Completed" /\ record(r).input = cmd[r].input
            /\ reply'[r].result = record(r).result
      BY <1>1, <2>1, RecordFacts, ReplyFacts DEF TypeOK
    <3>2. \A q \in Requests \ {r} : reply'[q] = reply[q]
      BY <2>1 DEF TypeOK
    <3> QED
      BY <1>1, <3>1, <3>2 DEF RepliesAgree, record
  <2> QED
    BY <1>2, <2>3, <2>4, <2>5, <2>6
<1>4. CASE /\ pc' = [pc EXCEPT ![r] = "recover"]
           /\ record(r).input = cmd[r].input
           /\ prepared' = [prepared EXCEPT ![r] = record(r).preparedCapabilities]
           /\ UNCHANGED reply
  <2>1. TypeOK'
    BY <1>1, <1>4, RecordFacts DEF TypeOK, Stages
  <2>2. CommandKnown'
    BY <1>1, <1>4 DEF TypeOK, CommandKnown, Executing, record
  <2>3. StagedHolderKeepsFence'
    BY <1>1, <1>4 DEF TypeOK, StagedHolderKeepsFence, HoldsFence
  <2>4. RepliesAgree'
    BY <1>1, <1>4 DEF TypeOK, RepliesAgree, record
  <2> QED
    BY <1>2, <2>1, <2>2, <2>3, <2>4
<1> QED
  BY <1>3, <1>4 DEF ReadExisting, SameInput, Finish, GoTo

(* Recover, Heartbeat and SavePrepared write a pending record, of their    *)
(* own command, that no transaction has staged, or fail.                   *)
LEMMA LeaseInvariant ==
  ASSUME ProtocolInvariant, NEW r \in Requests, NEW stage \in Stages,
         NEW a \in Answers,
         pc[r] \in Executing \ {"commit"}, stage \in Executing \ {"commit"},
         record(r).status = "Pending", Writable(cmd[r].key),
         records' = [records EXCEPT ![cmd[r].key] = Leased(@.input, r, a)],
         pc' = [pc EXCEPT ![r] = stage],
         prepared' \in [Requests -> Answers],
         UNCHANGED <<staged, now, cmd, snapshot, reply, commits, interruptions>>
  PROVE  ProtocolInvariant'
<1> USE DEF ProtocolInvariant
<1> DEFINE k == cmd[r].key
           doc == Leased(records[k].input, r, a)
<1>1. /\ k \in Keys /\ records[k] \in Record /\ records[k].status = "Pending"
      /\ records[k].input \in Inputs /\ staged[k] = None
  BY RecordFacts DEF CommandKnown, TypeOK, record, Writable, Executing
<1>2. doc \in Record /\ doc.status = "Pending" /\ doc.input = records[k].input
  BY <1>1, LeasedFacts DEF TypeOK
<1>3. records' = [records EXCEPT ![k] = doc]
  OBVIOUS
<1> HIDE DEF doc
<1>4. TypeOK'
  BY <1>2, <1>3 DEF TypeOK
<1>5. CommandKnown'
  BY <1>1, <1>2, <1>3 DEF TypeOK, CommandKnown, Executing, record
<1>6. StagedHolderKeepsFence'
  BY <1>1, <1>3 DEF TypeOK, StagedHolderKeepsFence, HoldsFence, Executing
<1>7. EffectMatchesRecord'
  BY <1>1, <1>2, <1>3 DEF TypeOK, EffectMatchesRecord
<1>8. RepliesAgree'
  BY <1>1, <1>2, <1>3 DEF TypeOK, RepliesAgree, CommandKnown, record
<1> QED
  BY <1>4, <1>5, <1>6, <1>7, <1>8

(* A request that ends without a result, its transaction rolled back. *)
LEMMA FinishInvariant ==
  ASSUME ProtocolInvariant, NEW r \in Requests,
         NEW stage \in {"reply", "dead"},
         NEW kind \in {"none", "in-progress", "key-reused", "thrown"},
         pc[r] # "idle", pc' = [pc EXCEPT ![r] = stage],
         reply' = [reply EXCEPT ![r] = Say(kind)] \/ UNCHANGED reply,
         Rollback(r), interruptions' \in Nat,
         UNCHANGED <<records, now, cmd, prepared, snapshot, commits>>
  PROVE  ProtocolInvariant'
<1> USE DEF ProtocolInvariant
<1>1. TypeOK'
  BY ReplyFacts DEF TypeOK, Stages, Rollback
<1>2. CommandKnown'
  BY DEF TypeOK, CommandKnown, Executing, record
<1>3. StagedHolderKeepsFence'
  BY ConstantsAssumption DEF TypeOK, StagedHolderKeepsFence, HoldsFence, Rollback, CommandKnown
<1>4. EffectMatchesRecord'
  BY DEF EffectMatchesRecord
<1>5. RepliesAgree'
  BY SMTT(40), ReplyFacts DEF TypeOK, RepliesAgree, record
<1> QED
  BY <1>1, <1>2, <1>3, <1>4, <1>5

(* Rolling back changes nothing for a request that is not at its commit. *)
LEMMA NothingStaged ==
  ASSUME ProtocolInvariant, NEW r \in Requests, pc[r] # "commit",
         UNCHANGED staged
  PROVE  Rollback(r)
BY DEF ProtocolInvariant, TypeOK, StagedHolderKeepsFence, Rollback

(* The commit, acknowledged or not. *)
LEMMA CommitInvariant ==
  ASSUME ProtocolInvariant, NEW r \in Requests,
         pc[r] = "commit", ApplyCommit(r), pc' = [pc EXCEPT ![r] = "reply"],
         \/ reply' = [reply EXCEPT ![r] = Tell(ResultOf(r))]
         \/ reply' = [reply EXCEPT ![r] = Say("thrown")],
         interruptions' \in Nat,
         UNCHANGED <<now, cmd, prepared, snapshot>>
  PROVE  ProtocolInvariant'
<1> USE DEF ProtocolInvariant
<1> DEFINE k == cmd[r].key
           doc == Completed(records[k], ResultOf(r))
<1>1. /\ k \in Keys /\ records[k] \in Record /\ records[k].status = "Pending"
      /\ records[k].input = cmd[r].input /\ staged[k] = r /\ commits[k] = <<>>
  BY ConstantsAssumption
  DEF TypeOK, CommandKnown, StagedHolderKeepsFence, EffectMatchesRecord,
      HoldsFence, Executing, record
<1>2. ResultOf(r) \in Result /\ ResultOf(r).by = r
  BY DEF TypeOK, ResultOf, Result
<1>3. /\ doc \in Record /\ doc.status = "Completed"
      /\ doc.result = ResultOf(r) /\ doc.input = records[k].input
  BY <1>1, <1>2, CompletedFacts
<1>4. /\ records' = [records EXCEPT ![k] = doc]
      /\ commits' = [commits EXCEPT ![k] = <<r>>]
  BY <1>1 DEF ApplyCommit, TypeOK
<1>5. staged' = [staged EXCEPT ![k] = None]
  <2>1. \A j \in Keys : staged[j] = r <=> j = k
    BY <1>1, ConstantsAssumption DEF StagedHolderKeepsFence
  <2>2. staged' = [j \in Keys |-> IF staged[j] = r THEN None ELSE staged[j]]
    BY DEF ApplyCommit, Rollback
  <2> QED
    BY <2>1, <2>2 DEF TypeOK
<1> HIDE DEF doc
<1>6. reply'[r] \in Reply /\ (reply'[r].kind = "value" => reply'[r].result = ResultOf(r))
  BY <1>2, ReplyFacts DEF TypeOK
<1>7. TypeOK'
  <2>1. commits' \in [Keys -> Seq(Requests)]
    BY <1>1, <1>4 DEF TypeOK
  <2>2. reply' \in [Requests -> Reply]
    BY <1>6 DEF TypeOK
  <2> QED
    BY <1>1, <1>3, <1>4, <1>5, <2>1, <2>2 DEF TypeOK, Stages
<1>8. CommandKnown'
  BY <1>1, <1>3, <1>4 DEF TypeOK, CommandKnown, Executing, record
<1>9. StagedHolderKeepsFence'
  BY <1>1, <1>4, <1>5 DEF TypeOK, StagedHolderKeepsFence, HoldsFence
<1>10. EffectMatchesRecord'
  BY <1>1, <1>2, <1>3, <1>4 DEF TypeOK, EffectMatchesRecord
<1>11. RepliesAgree'
  <2>1. \A q \in Requests \ {r} : reply'[q] = reply[q]
    BY DEF TypeOK
  <2>2. \A j \in Keys \ {k} : records'[j] = records[j]
    BY <1>4 DEF TypeOK
  <2>3. records'[k] = doc
    BY <1>1, <1>4 DEF TypeOK
  <2>4. ASSUME NEW q \in Requests \ {r}, reply[q].kind = "value"
        PROVE  cmd[q].key \in Keys \ {k}
    <3>1. pc[q] # "idle"
      BY <2>4, ReplyFacts DEF CommandKnown
    <3> QED
      BY <1>1, <2>4, <3>1 DEF CommandKnown, RepliesAgree, record
  <2> QED
    BY <1>1, <1>3, <1>6, <2>1, <2>2, <2>3, <2>4 DEF RepliesAgree, record
<1> QED
  BY <1>7, <1>8, <1>9, <1>10, <1>11

LEMMA StepInvariant ==
  ASSUME ProtocolInvariant, NEW r \in Requests, Step(r)
  PROVE  ProtocolInvariant'
<1> USE DEF ProtocolInvariant
<1>1. ASSUME pc[r] # "idle" PROVE record(r) \in Record /\ cmd[r].key \in Keys
  BY <1>1 DEF TypeOK, CommandKnown, record
<1>2. CASE ReadExisting(r)
  BY <1>2, ReadExistingInvariant
<1>3. CASE Recover(r)
  <2>1. CASE Recoverable(record(r))
    BY <1>1, <1>3, <2>1, RecordFacts, LeaseInvariant
    DEF Recover, Recoverable, GoTo, Executing, Stages, TypeOK, record
  <2>2. CASE ~Recoverable(record(r))
    BY <1>3, <2>2, NothingStaged, FinishInvariant DEF Recover, Finish, GoTo, TypeOK
  <2> QED
    BY <2>1, <2>2
<1>4. CASE Heartbeat(r)
  <2>1. CASE HeartbeatModifies(r)
    <3>1. record(r).executionId = r /\ record(r).status = "Pending"
      BY <2>1 DEF HeartbeatModifies, HoldsFence
    <3> QED
      BY <1>1, <1>4, <2>1, <3>1, RecordFacts, LeaseInvariant
      DEF Heartbeat, GoTo, Executing, Stages, TypeOK, record
  <2>2. CASE ~HeartbeatModifies(r)
    BY <1>4, <2>2, NothingStaged, FinishInvariant DEF Heartbeat, Finish, GoTo, TypeOK
  <2> QED
    BY <2>1, <2>2
<1>5. CASE SavePrepared(r)
  <2>1. CASE HoldsFence(record(r), r)
    <3>1. record(r).status = "Pending"
      BY <2>1 DEF HoldsFence
    <3>2. PICK e \in Externals :
            /\ prepared' = [prepared EXCEPT ![r] = [@ EXCEPT ![e] = r]]
            /\ records' = [records EXCEPT ![cmd[r].key] =
                 Leased(@.input, r, [@.preparedCapabilities EXCEPT ![e] = r])]
      BY <1>5, <2>1 DEF SavePrepared
    <3>3. /\ [record(r).preparedCapabilities EXCEPT ![e] = r] \in Answers
          /\ prepared' \in [Requests -> Answers]
      BY <1>1, <1>5, <3>2, RecordFacts DEF SavePrepared, Answers, TypeOK
    <3> QED
      BY <1>5, <2>1, <3>1, <3>2, <3>3, LeaseInvariant
      DEF SavePrepared, GoTo, Executing, Stages, record
  <2>2. CASE ~HoldsFence(record(r), r)
    BY <1>5, <2>2, NothingStaged, FinishInvariant DEF SavePrepared, Finish, GoTo, TypeOK
  <2> QED
    BY <2>1, <2>2
<1>6. CASE BeginTransaction(r)
  <2>1. /\ pc[r] = "prepare" /\ pc' = [pc EXCEPT ![r] = "execute"]
        /\ snapshot' = [snapshot EXCEPT ![r] = record(r)]
        /\ UNCHANGED <<records, staged, commits, now, cmd, prepared, reply, interruptions>>
    BY <1>6 DEF BeginTransaction, GoTo, dbVars
  <2>2. TypeOK'
    BY <1>1, <2>1 DEF TypeOK, Stages
  <2>3. CommandKnown'
    BY <2>1 DEF TypeOK, CommandKnown, Executing, record
  <2>4. StagedHolderKeepsFence'
    BY <2>1 DEF TypeOK, StagedHolderKeepsFence, HoldsFence
  <2>5. EffectMatchesRecord' /\ RepliesAgree'
    BY <2>1 DEF EffectMatchesRecord, RepliesAgree, record
  <2> QED
    BY <2>2, <2>3, <2>4, <2>5
<1>7. CASE Complete(r)
  <2> USE DEF Complete
  <2>1. CASE ~HoldsFence(snapshot[r], r)
    BY <1>7, <2>1, NothingStaged, FinishInvariant DEF Finish, GoTo, TypeOK
  <2>2. CASE HoldsFence(snapshot[r], r)
    <3>1. UNCHANGED <<records, now, cmd, prepared, snapshot, reply, commits, interruptions>>
      BY <1>7, <2>2
    <3>2. /\ pc[r] = "execute"
          /\ \/ /\ pc' = [pc EXCEPT ![r] = "commit"]
                /\ staged' = [staged EXCEPT ![cmd[r].key] = r]
                /\ record(r) = snapshot[r] /\ staged[cmd[r].key] = None
             \/ pc' = [pc EXCEPT ![r] = "prepare"] /\ UNCHANGED staged
      BY <1>7, <2>2 DEF GoTo, WriteConflict, Writable
    <3>3. TypeOK'
      BY <1>1, <3>1, <3>2 DEF TypeOK, Stages
    <3>4. CommandKnown'
      BY <3>1, <3>2 DEF TypeOK, CommandKnown, Executing, record
    <3>5. StagedHolderKeepsFence'
      <4> DEFINE k == cmd[r].key
      <4>1. CASE staged' = [staged EXCEPT ![k] = r]
        <5>1. /\ pc' = [pc EXCEPT ![r] = "commit"] /\ staged[k] = None
              /\ HoldsFence(records[k], r) /\ k \in Keys
          <6>1. staged # [staged EXCEPT ![k] = r] \/ staged[k] = r
            BY <1>1, <3>2 DEF TypeOK
          <6>2. staged[k] # r
            BY <1>1, <3>2, ConstantsAssumption DEF StagedHolderKeepsFence
          <6> QED
            BY <1>1, <2>2, <3>2, <4>1, <6>1, <6>2 DEF record
        <5>2. \A q \in Requests : pc'[q] = "commit" => staged'[cmd'[q].key] = q
          BY <3>1, <4>1, <5>1, ConstantsAssumption DEF TypeOK, StagedHolderKeepsFence
        <5>3. \A j \in Keys \ {k} : staged'[j] = staged[j] /\ staged[j] # r
          BY <3>2, <4>1, ConstantsAssumption DEF TypeOK, StagedHolderKeepsFence
        <5> QED
          BY <3>1, <4>1, <5>1, <5>2, <5>3
          DEF TypeOK, StagedHolderKeepsFence, HoldsFence
      <4>2. CASE pc' = [pc EXCEPT ![r] = "prepare"] /\ UNCHANGED staged
        BY <3>1, <3>2, <4>2 DEF TypeOK, StagedHolderKeepsFence, HoldsFence
      <4> QED
        BY <3>2, <4>1, <4>2
    <3>6. EffectMatchesRecord' /\ RepliesAgree'
      BY <3>1 DEF EffectMatchesRecord, RepliesAgree, record
    <3> QED
      BY <3>3, <3>4, <3>5, <3>6
  <2> QED
    BY <2>1, <2>2
<1>8. CASE Commit(r)
  BY <1>8, CommitInvariant DEF Commit, Finish, GoTo, TypeOK
<1>9. CASE Respond(r)
  <2>1. /\ pc[r] = "reply" /\ pc' = [pc EXCEPT ![r] = "done"]
        /\ UNCHANGED <<records, staged, commits, now, cmd, prepared, snapshot,
                       reply, interruptions>>
    BY <1>9 DEF Respond, GoTo, dbVars, reqVars
  <2>2. TypeOK'
    BY <2>1 DEF TypeOK, Stages
  <2>3. CommandKnown'
    BY <2>1 DEF TypeOK, CommandKnown, Executing, record
  <2>4. StagedHolderKeepsFence'
    BY <2>1 DEF TypeOK, StagedHolderKeepsFence, HoldsFence
  <2>5. EffectMatchesRecord' /\ RepliesAgree'
    BY <2>1 DEF EffectMatchesRecord, RepliesAgree, record
  <2> QED
    BY <2>2, <2>3, <2>4, <2>5
<1> QED
  BY <1>2, <1>3, <1>4, <1>5, <1>6, <1>7, <1>8, <1>9 DEF Step

LEMMA NextInvariant == ProtocolInvariant /\ [Next]_vars => ProtocolInvariant'
<1> SUFFICES ASSUME ProtocolInvariant, [Next]_vars PROVE ProtocolInvariant'
  OBVIOUS
<1>1. CASE \E r \in Requests, k \in Keys, i \in Inputs : Claim(r, k, i)
  BY <1>1, ClaimInvariant
<1>2. CASE \E r \in Requests : Step(r)
  BY <1>2, StepInvariant
<1>3. ASSUME NEW r \in Requests, SendAnother(r) PROVE ProtocolInvariant'
  <2> USE DEF ProtocolInvariant
  <2>1. /\ pc[r] = "done" /\ pc' = [pc EXCEPT ![r] = "idle"]
        /\ reply' = [reply EXCEPT ![r] = Say("none")]
        /\ UNCHANGED <<records, staged, commits, now, cmd, prepared, snapshot,
                       interruptions>>
    BY <1>3 DEF SendAnother, GoTo, dbVars
  <2>2. TypeOK'
    BY <2>1, ReplyFacts DEF TypeOK, Stages
  <2>3. CommandKnown'
    BY <2>1 DEF TypeOK, CommandKnown, Executing, record
  <2>4. StagedHolderKeepsFence'
    BY <2>1 DEF TypeOK, StagedHolderKeepsFence, HoldsFence
  <2>5. EffectMatchesRecord' /\ RepliesAgree'
    BY <2>1, ReplyFacts DEF TypeOK, EffectMatchesRecord, RepliesAgree, record
  <2> QED
    BY <2>2, <2>3, <2>4, <2>5
<1>4. ASSUME NEW r \in Requests, Die(r) \/ Throw(r) PROVE ProtocolInvariant'
  <2>1. interruptions' \in Nat /\ pc[r] # "idle"
    BY <1>4 DEF Die, Throw, Interrupted, Running, ProtocolInvariant, TypeOK
  <2> QED
    BY <1>4, <2>1, FinishInvariant DEF Die, Throw, Finish, GoTo
<1>5. ASSUME NEW r \in Requests, CommitUnacknowledged(r) PROVE ProtocolInvariant'
  <2>1. interruptions' \in Nat
    BY <1>5 DEF CommitUnacknowledged, Interrupted, ProtocolInvariant, TypeOK
  <2> QED
    BY <1>5, <2>1, CommitInvariant DEF CommitUnacknowledged, Finish, GoTo
<1>6. CASE Tick \/ UNCHANGED vars
  <2>1. now' \in Nat /\ UNCHANGED <<records, staged, commits, pc, cmd, prepared,
                                   snapshot, reply, interruptions>>
    BY <1>6 DEF Tick, vars, dbVars, reqVars, ProtocolInvariant, TypeOK
  <2> QED
    BY <2>1 DEF ProtocolInvariant, TypeOK, CommandKnown, StagedHolderKeepsFence,
                HoldsFence, EffectMatchesRecord, RepliesAgree, record
<1> QED
  BY <1>1, <1>2, <1>3, <1>4, <1>5, <1>6 DEF Next

(* Types, known commands, staged completions, effects and replies hold in  *)
(* every reachable state.                                                  *)
LEMMA ProtocolHolds == Spec => []ProtocolInvariant
BY InitInvariant, NextInvariant, PTL DEF Spec

-----------------------------------------------------------------------------
(* Execution ids name one claim each. *)

(* A step of q that writes no record: q is no record's execution, or stays *)
(* one that has claimed its key.                                           *)
LEMMA ClaimsUntouched ==
  ASSUME ProtocolInvariant, ClaimsKeepTheirIds, NEW q \in Requests,
         UNCHANGED records,
         \A r \in Requests \ {q} : pc'[r] = pc[r] /\ cmd'[r] = cmd[r] /\ reply'[r] = reply[r],
         \/ \A k \in Keys : records[k].status # "Absent" => records[k].executionId # q
         \/ /\ cmd'[q] = cmd[q]
            /\ pc'[q] \notin {"idle", "existing", "recover"}
            /\ reply'[q] = reply[q] \/ reply'[q].kind = "thrown"
  PROVE  ClaimsKeepTheirIds'
BY RecordFacts DEF ClaimsKeepTheirIds, ProtocolInvariant, TypeOK

(* A step in which q writes, or takes, the record of its command.          *)
LEMMA ClaimsWritten ==
  ASSUME ProtocolInvariant, ClaimsKeepTheirIds, NEW q \in Requests, NEW k \in Keys, NEW doc,
         records' = [records EXCEPT ![k] = doc], doc.executionId = q,
         doc.status = "Completed" => doc.result.by = q,
         \A r \in Requests \ {q} : pc'[r] = pc[r] /\ cmd'[r] = cmd[r] /\ reply'[r] = reply[r],
         pc[q] = "idle" \/ cmd[q].key = k,
         cmd'[q].key = k, pc'[q] \notin {"idle", "existing", "recover"},
         reply'[q].kind \notin {"in-progress", "key-reused"},
         reply'[q].kind = "value" => reply'[q].result.by = q
  PROVE  ClaimsKeepTheirIds'
<1> SUFFICES ASSUME NEW j \in Keys, records'[j].status # "Absent"
             PROVE  LET r == records'[j].executionId IN
                    /\ cmd'[r].key = j
                    /\ pc'[r] \notin {"idle", "existing", "recover"}
                    /\ reply'[r].kind \notin {"in-progress", "key-reused"}
                    /\ reply'[r].kind = "value" => reply'[r].result.by = r
                    /\ records'[j].status = "Completed" => records'[j].result.by = r
  BY DEF ClaimsKeepTheirIds
<1>1. CASE j = k BY <1>1 DEF ProtocolInvariant, TypeOK
<1>2. CASE j # k
  <2>1. records'[j] = records[j] BY <1>2 DEF ProtocolInvariant, TypeOK
  <2>2. records[j].executionId \in Requests \ {q}
    BY <1>2, <2>1, RecordFacts DEF ClaimsKeepTheirIds, ProtocolInvariant, TypeOK
  <2> QED BY <2>1, <2>2 DEF ClaimsKeepTheirIds
<1> QED BY <1>1, <1>2

LEMMA ClaimsKept ==
  ASSUME ProtocolInvariant, ClaimsKeepTheirIds, [Next]_vars
  PROVE  ClaimsKeepTheirIds'
<1> USE DEF ProtocolInvariant, TypeOK
<1>1. ASSUME NEW q \in Requests, pc[q] \in {"idle", "existing", "recover"}, NEW k \in Keys
      PROVE  records[k].status # "Absent" => records[k].executionId # q
  BY <1>1 DEF ClaimsKeepTheirIds
<1>2. ASSUME NEW q \in Requests, NEW k \in Keys, NEW i \in Inputs, Claim(q, k, i)
      PROVE  ClaimsKeepTheirIds'
  <2>1. /\ pc[q] = "idle" /\ reply' = reply /\ reply[q].kind = "none"
        /\ cmd' = [cmd EXCEPT ![q] = [key |-> k, input |-> i]]
    BY <1>2, ReplyFacts DEF Claim, CommandKnown
  <2>2. CASE records[k].status = "Absent"
    <3>1. /\ records' = [records EXCEPT ![k] = Leased(i, q, NoAnswers)]
          /\ pc' = [pc EXCEPT ![q] = "prepare"]
      BY <1>2, <2>2 DEF Claim, GoTo
    <3>2. /\ Leased(i, q, NoAnswers).executionId = q
          /\ Leased(i, q, NoAnswers).status = "Pending"
      BY DEF Leased
    <3> QED BY <2>1, <3>1, <3>2, ClaimsWritten
  <2>3. CASE records[k].status # "Absent"
    BY <1>1, <1>2, <2>1, <2>3, ClaimsUntouched DEF Claim, GoTo
  <2> QED BY <2>2, <2>3
<1>3. ASSUME NEW q \in Requests, ReadExisting(q) PROVE ClaimsKeepTheirIds'
  BY <1>1, <1>3, ClaimsUntouched DEF ReadExisting, Finish, GoTo, dbVars
<1>4. ASSUME NEW q \in Requests, NEW a \in Answers, pc[q] \in Executing,
             records' = [records EXCEPT ![cmd[q].key] = Leased(@.input, q, a)],
             pc' = [pc EXCEPT ![q] = "prepare"] \/ pc' = [pc EXCEPT ![q] = "provider"],
             UNCHANGED <<cmd, reply>>
      PROVE  ClaimsKeepTheirIds'
  <2> DEFINE k == cmd[q].key
             doc == Leased(records[k].input, q, a)
  <2>1. k \in Keys /\ reply[q].kind = "none"
    BY <1>4, ReplyFacts DEF CommandKnown, Executing
  <2>2. doc.executionId = q /\ doc.status = "Pending"
    BY DEF Leased
  <2>3. records' = [records EXCEPT ![k] = doc]
    BY <1>4
  <2>4. /\ cmd'[q].key = k /\ reply'[q].kind = "none"
        /\ pc'[q] \notin {"idle", "existing", "recover"}
    BY <1>4, <2>1
  <2>5. \A r \in Requests \ {q} : pc'[r] = pc[r] /\ cmd'[r] = cmd[r] /\ reply'[r] = reply[r]
    BY <1>4
  <2> HIDE DEF doc, k
  <2>6. cmd[q].key = k
    BY DEF k
  <2> QED BY <2>1, <2>2, <2>3, <2>4, <2>5, <2>6, ClaimsWritten
<1>5. ASSUME NEW q \in Requests, Recover(q) PROVE ClaimsKeepTheirIds'
  <2>1. CASE Recoverable(record(q))
    <3>1. record(q).preparedCapabilities \in Answers
      BY <1>5, RecordFacts DEF Recover, CommandKnown, record
    <3> QED BY <1>4, <1>5, <2>1, <3>1 DEF Recover, GoTo, Executing, record
  <2>2. CASE ~Recoverable(record(q))
    BY <1>1, <1>5, <2>2, ClaimsUntouched DEF Recover, Finish, GoTo
  <2> QED BY <2>1, <2>2
<1>6. ASSUME NEW q \in Requests, pc[q] # "idle", UNCHANGED <<records, cmd>>,
             \E stage \in {"prepare", "provider", "execute", "commit", "reply", "done", "dead"} : GoTo(q, stage),
             UNCHANGED reply \/ reply' = [reply EXCEPT ![q] = Say("thrown")]
      PROVE  ClaimsKeepTheirIds'
  BY <1>6, ReplyFacts, ClaimsUntouched DEF GoTo
<1>7. ASSUME NEW q \in Requests, Heartbeat(q) PROVE ClaimsKeepTheirIds'
  <2>1. CASE HeartbeatModifies(q)
    <3>1. record(q).preparedCapabilities \in Answers
      BY <1>7, RecordFacts DEF Heartbeat, CommandKnown, record
    <3> QED BY <1>4, <1>7, <2>1, <3>1 DEF Heartbeat, GoTo, Executing, record
  <2>2. CASE ~HeartbeatModifies(q)
    BY <1>6, <1>7, <2>2 DEF Heartbeat, Finish
  <2> QED BY <2>1, <2>2
<1>8. ASSUME NEW q \in Requests, SavePrepared(q) PROVE ClaimsKeepTheirIds'
  <2>1. CASE HoldsFence(record(q), q)
    <3>1. PICK e \in Externals :
            records' = [records EXCEPT ![cmd[q].key] =
                 Leased(@.input, q, [@.preparedCapabilities EXCEPT ![e] = q])]
      BY <1>8, <2>1 DEF SavePrepared
    <3>2. [record(q).preparedCapabilities EXCEPT ![e] = q] \in Answers
      <4>1. record(q).preparedCapabilities \in Answers
        BY <1>8, RecordFacts DEF SavePrepared, CommandKnown, record
      <4> QED BY <4>1 DEF Answers
    <3> QED BY <1>4, <1>8, <2>1, <3>1, <3>2 DEF SavePrepared, GoTo, Executing, record
  <2>2. CASE ~HoldsFence(record(q), q)
    BY <1>6, <1>8, <2>2 DEF SavePrepared, Finish
  <2> QED BY <2>1, <2>2
<1>9. ASSUME NEW q \in Requests, BeginTransaction(q) \/ Complete(q) \/ Respond(q)
      PROVE  ClaimsKeepTheirIds'
  BY <1>6, <1>9 DEF BeginTransaction, Complete, Respond, Finish, dbVars, reqVars
<1>10. ASSUME NEW q \in Requests, Commit(q) \/ CommitUnacknowledged(q) PROVE ClaimsKeepTheirIds'
  <2> DEFINE k == cmd[q].key
             doc == Completed(records[k], ResultOf(q))
  <2>1. /\ pc[q] = "commit" /\ ApplyCommit(q) /\ UNCHANGED cmd
        /\ pc' = [pc EXCEPT ![q] = "reply"]
        /\ \/ reply' = [reply EXCEPT ![q] = Tell(ResultOf(q))]
           \/ reply' = [reply EXCEPT ![q] = Say("thrown")]
    BY <1>10 DEF Commit, CommitUnacknowledged, Finish, GoTo
  <2>2. k \in Keys /\ records[k].executionId = q
    BY <2>1, ConstantsAssumption DEF CommandKnown, StagedHolderKeepsFence
  <2>3. doc.executionId = q /\ doc.result.by = q
    BY <2>2 DEF Completed, ResultOf
  <2>4. ResultOf(q) \in Result /\ ResultOf(q).by = q
    BY DEF ResultOf, Result
  <2>5. reply'[q].kind \in {"value", "thrown"} /\ (reply'[q].kind = "value" => reply'[q].result.by = q)
    BY <2>1, <2>4, ReplyFacts
  <2>6. records' = [records EXCEPT ![k] = doc]
    BY <2>1 DEF ApplyCommit
  <2> HIDE DEF doc
  <2> QED BY <2>1, <2>2, <2>3, <2>5, <2>6, ClaimsWritten
<1>11. ASSUME NEW q \in Requests, SendAnother(q) PROVE ClaimsKeepTheirIds'
  <2>1. \A k \in Keys : records[k].status # "Absent" => records[k].executionId # q
    BY <1>11 DEF SendAnother, ClaimsKeepTheirIds
  <2> QED BY <1>11, <2>1, ClaimsUntouched DEF SendAnother, GoTo, dbVars
<1>12. ASSUME NEW q \in Requests, Die(q) \/ Throw(q) PROVE ClaimsKeepTheirIds'
  BY <1>6, <1>12 DEF Die, Throw, Running, Finish
<1>13. CASE Tick \/ UNCHANGED vars
  BY <1>13 DEF Tick, vars, dbVars, reqVars, ClaimsKeepTheirIds
<1> QED
  BY <1>2, <1>3, <1>5, <1>7, <1>8, <1>9, <1>10, <1>11, <1>12, <1>13 DEF Next, Step

(* The inductive invariant holds in every reachable state: every document, *)
(* reply and local variable has its type, and the conjuncts below.         *)
THEOREM InvariantHolds == Spec => []InductiveInvariant
<1>1. Init => ClaimsKeepTheirIds BY DEF Init, ClaimsKeepTheirIds, Absent
<1>2. ProtocolInvariant /\ ClaimsKeepTheirIds /\ [Next]_vars => ClaimsKeepTheirIds'
  BY ClaimsKept
<1> QED BY <1>1, <1>2, ProtocolHolds, PTL DEF Spec, InductiveInvariant

-----------------------------------------------------------------------------
(* Consequences *)

(* No two executions of one command ever take effect, with any number of   *)
(* requests, takeovers and failures.                                       *)
THEOREM EffectAtMostOnce == Spec => []AtMostOneEffect
<1>1. ProtocolInvariant => AtMostOneEffect
  <2> SUFFICES ASSUME ProtocolInvariant, NEW k \in Keys
               PROVE  Len(commits[k]) <= 1
    BY DEF AtMostOneEffect
  <2>1. CASE records[k].status = "Completed"
    <3> DEFINE r == records[k].result.by
    <3>1. commits[k] = <<r>>
      BY <2>1 DEF ProtocolInvariant, EffectMatchesRecord
    <3> QED
      BY <3>1
  <2>2. CASE records[k].status # "Completed"
    <3>1. commits[k] = <<>>
      BY <2>2 DEF ProtocolInvariant, EffectMatchesRecord
    <3> QED
      BY <3>1
  <2> QED
    BY <2>1, <2>2
<1> QED
  BY <1>1, ProtocolHolds, PTL

(* Every result a request is answered with is the recorded one of its own  *)
(* key and input.                                                          *)
THEOREM RepliesAlwaysAgree == Spec => []RepliesAgree
BY ProtocolHolds, PTL DEF ProtocolInvariant

(* Which records a step may write: the one of a request that claims,       *)
(* recovers, renews, saves or commits, and never a completed one.          *)
LEMMA RecordsWritten ==
  ASSUME ProtocolInvariant, [Next]_vars, NEW k \in Keys,
         records[k].status = "Completed"
  PROVE  records'[k] = records[k]
<1> USE DEF ProtocolInvariant, TypeOK
<1>1. ASSUME NEW r \in Requests, pc[r] = "commit", ApplyCommit(r)
      PROVE  records'[k] = records[k]
  BY SMTT(40), <1>1, ConstantsAssumption DEF ApplyCommit, StagedHolderKeepsFence, HoldsFence
<1>2. ASSUME NEW r \in Requests, Step(r)
      PROVE  records'[k] = records[k]
  <2>1. CASE Recover(r)
    BY <2>1 DEF Recover, Recoverable, record
  <2>2. CASE Heartbeat(r)
    BY <2>2 DEF Heartbeat, HeartbeatModifies, HoldsFence, record
  <2>3. CASE SavePrepared(r)
    BY <2>3 DEF SavePrepared, HoldsFence, record
  <2>4. CASE Commit(r)
    BY <2>4, <1>1 DEF Commit
  <2> QED
    BY <1>2, <2>1, <2>2, <2>3, <2>4
    DEF Step, ReadExisting, BeginTransaction, Complete, Respond, dbVars
<1>3. ASSUME NEW r \in Requests, NEW j \in Keys, NEW i \in Inputs, Claim(r, j, i)
      PROVE  records'[k] = records[k]
  BY <1>3 DEF Claim
<1>4. ASSUME NEW r \in Requests, CommitUnacknowledged(r)
      PROVE  records'[k] = records[k]
  BY <1>4, <1>1 DEF CommitUnacknowledged
<1> QED
  BY <1>2, <1>3, <1>4 DEF Next, SendAnother, Die, Throw, Tick, vars, dbVars

(* A completed record is never written again.                              *)
THEOREM CompletedNeverChanges == Spec => CompletedIsFinal
<1>1. ProtocolInvariant /\ [Next]_vars =>
        [\A k \in Keys :
           records[k].status = "Completed" => records'[k] = records[k]]_vars
  BY RecordsWritten
<1> QED
  BY <1>1, ProtocolHolds, PTL DEF Spec, CompletedIsFinal

(* A superseded execution never answers with a result.                     *)
THEOREM SupersededAlwaysFails == Spec => SupersededOnlyFails
<1>1. ASSUME ProtocolInvariant, Next, NEW r \in Requests,
             Superseded(r), pc'[r] = "reply"
      PROVE  reply'[r].kind = "thrown"
  <2> USE DEF ProtocolInvariant, TypeOK
  <2>1. pc[r] \in {"prepare", "provider", "execute"}
    <3>1. /\ pc[r] \in {"prepare", "provider", "execute", "commit"}
          /\ record(r).executionId # r /\ cmd[r].key \in Keys
      BY <1>1 DEF Superseded, CommandKnown
    <3>2. pc[r] = "commit" => record(r).executionId = r
      BY <1>1, <3>1, ConstantsAssumption DEF StagedHolderKeepsFence, HoldsFence, record
    <3> QED
      BY <3>1, <3>2
  <2>2. reply' = [reply EXCEPT ![r] = Say("thrown")] => reply'[r].kind = "thrown"
    BY <1>1, ReplyFacts
  <2>3. ASSUME NEW q \in Requests, NEW stage, GoTo(q, stage)
        PROVE  q = r /\ stage = "reply"
    BY <1>1, <2>1, <2>3 DEF GoTo
  <2>4. ASSUME NEW q \in Requests, Step(q) PROVE reply'[r].kind = "thrown"
    <3>1. q = r
      BY <2>3, <2>4 DEF Step, ReadExisting, Recover, Heartbeat, SavePrepared,
        BeginTransaction, Complete, Commit, Respond, Finish
    <3>2. Heartbeat(r) \/ SavePrepared(r) \/ Complete(r) \/ BeginTransaction(r)
      BY <2>1, <2>4, <3>1 DEF Step, ReadExisting, Recover, Commit, Respond
    <3> QED
      BY <2>2, <2>3, <3>2 DEF Heartbeat, SavePrepared, Complete, BeginTransaction, Finish
  <2>5. ASSUME NEW q \in Requests, NEW k \in Keys, NEW i \in Inputs, Claim(q, k, i)
        PROVE  FALSE
    BY <2>3, <2>5 DEF Claim
  <2>6. ASSUME NEW q \in Requests, SendAnother(q) \/ Die(q) PROVE FALSE
    BY <2>3, <2>6 DEF SendAnother, Die
  <2>7. ASSUME NEW q \in Requests, Throw(q) \/ CommitUnacknowledged(q)
        PROVE  reply'[r].kind = "thrown"
    BY <2>1, <2>2, <2>3, <2>7 DEF Throw, CommitUnacknowledged, Finish
  <2>8. ~Tick
    BY <1>1, <2>1 DEF Tick
  <2> QED
    BY <1>1, <2>4, <2>5, <2>6, <2>7, <2>8 DEF Next
<1>2. ProtocolInvariant /\ [Next]_vars =>
        [\A r \in Requests :
           Superseded(r) /\ pc'[r] = "reply" => reply'[r].kind = "thrown"]_vars
  BY <1>1
<1> QED
  BY <1>2, ProtocolHolds, PTL DEF Spec, SupersededOnlyFails

-----------------------------------------------------------------------------
(* Refinement *)

LEMMA InitOnce == Init => Once!Init
<1> SUFFICES ASSUME Init PROVE Once!Init
  OBVIOUS
<1>1. onceOutcome = [k \in Keys |-> None]
  BY DEF Init, onceOutcome, Absent
<1>2. [k \in Keys |-> Len(commits[k])] = [k \in Keys |-> 0]
  BY DEF Init
<1>3. onceAnswered = [r \in Requests |-> None]
  BY DEF Init, onceAnswered
<1> QED
  BY <1>1, <1>2, <1>3 DEF Once!Init

(* What keeps the abstract state: no record is completed, and no request   *)
(* gets to or leaves "done" with a result.                                 *)
LEMMA OutcomeKept ==
  ASSUME ProtocolInvariant, UNCHANGED commits,
         \A k \in Keys : records'[k] # records[k] =>
            records[k].status # "Completed" /\ records'[k].status # "Completed"
  PROVE  UNCHANGED <<onceOutcome, [k \in Keys |-> Len(commits[k])]>>
BY DEF onceOutcome

LEMMA AnsweredKept ==
  ASSUME ProtocolInvariant, NEW r \in Requests,
         pc[r] # "done", pc'[r] # "done",
         \A q \in Requests \ {r} :
           pc'[q] = pc[q] /\ cmd'[q] = cmd[q] /\ reply'[q] = reply[q]
  PROVE  UNCHANGED onceAnswered
BY DEF onceAnswered

LEMMA ClaimOnce ==
  ASSUME ProtocolInvariant, NEW r \in Requests, NEW k \in Keys, NEW i \in Inputs,
         Claim(r, k, i)
  PROVE  UNCHANGED Once!vars
<1>1. NoAnswers \in Answers
  BY DEF NoAnswers, Answers
<1>2. \A j \in Keys : records'[j] # records[j] =>
        records[j].status # "Completed" /\ records'[j].status # "Completed"
  BY <1>1, LeasedFacts DEF Claim, ProtocolInvariant, TypeOK
<1>3. UNCHANGED onceAnswered
  BY AnsweredKept DEF Claim, GoTo, ProtocolInvariant, TypeOK
<1> QED
  BY <1>2, <1>3, OutcomeKept DEF Claim, Once!vars

(* A request that leases its record, or finishes with no result, is        *)
(* invisible: nothing is completed and nobody has been answered yet.       *)
LEMMA PrivateStepOnce ==
  ASSUME ProtocolInvariant, NEW r \in Requests,
         ReadExisting(r) \/ Recover(r) \/ Heartbeat(r) \/ SavePrepared(r)
           \/ BeginTransaction(r) \/ Complete(r)
  PROVE  UNCHANGED Once!vars
<1> USE DEF ProtocolInvariant, TypeOK
<1>1. /\ pc[r] \notin {"idle", "done"} /\ UNCHANGED <<cmd, commits>>
      /\ \E stage \in Stages \ {"done"} : GoTo(r, stage)
      /\ \A q \in Requests \ {r} : reply'[q] = reply[q]
  BY DEF ReadExisting, Recover, Heartbeat, SavePrepared, BeginTransaction, Complete,
         Finish, Stages, dbVars, GoTo
<1>2. UNCHANGED onceAnswered
  BY <1>1, AnsweredKept DEF GoTo
<1>3. /\ cmd[r].key \in Keys /\ record(r) \in Record
  BY <1>1 DEF CommandKnown, record
<1>4. UNCHANGED records \/
      \E a \in Answers, x \in Requests :
        /\ record(r).status = "Pending"
        /\ records' = [records EXCEPT ![cmd[r].key] = Leased(record(r).input, x, a)]
  <2>1. record(r).preparedCapabilities \in Answers
    BY <1>3, RecordFacts
  <2>2. \A e \in Externals : [record(r).preparedCapabilities EXCEPT ![e] = r] \in Answers
    BY <2>1 DEF Answers
  <2> QED
    BY <2>1, <2>2
    DEF ReadExisting, Recover, Recoverable, Heartbeat, HeartbeatModifies, HoldsFence,
        SavePrepared, BeginTransaction, Complete, dbVars, record
<1>5. \A k \in Keys : records'[k] # records[k] =>
        records[k].status # "Completed" /\ records'[k].status # "Completed"
  <2>1. CASE UNCHANGED records
    BY <2>1
  <2>2. CASE ~UNCHANGED records
    <3>1. PICK a \in Answers, x \in Requests :
            /\ record(r).status = "Pending"
            /\ records' = [records EXCEPT ![cmd[r].key] = Leased(record(r).input, x, a)]
      BY <1>4, <2>2
    <3>2. Leased(record(r).input, x, a).status = "Pending"
      BY DEF Leased
    <3> QED
      BY <1>3, <3>1, <3>2 DEF record
  <2> QED
    BY <2>1, <2>2
<1> QED
  BY <1>1, <1>2, <1>5, OutcomeKept DEF Once!vars

LEMMA CommitOnce ==
  ASSUME ProtocolInvariant, NEW r \in Requests,
         Commit(r) \/ CommitUnacknowledged(r)
  PROVE  Once!Next
<1> USE DEF ProtocolInvariant, TypeOK
<1> DEFINE k == cmd[r].key
           doc == Completed(records[k], ResultOf(r))
<1>1. /\ pc[r] = "commit" /\ GoTo(r, "reply") /\ UNCHANGED cmd
      /\ ApplyCommit(r) /\ \A q \in Requests \ {r} : reply'[q] = reply[q]
  BY DEF Commit, CommitUnacknowledged, Finish
<1>2. /\ k \in Keys /\ records[k] \in Record /\ records[k].status = "Pending"
      /\ commits[k] = <<>> /\ records[k].input \in Inputs
  BY <1>1, ConstantsAssumption, RecordFacts
  DEF CommandKnown, StagedHolderKeepsFence, EffectMatchesRecord, HoldsFence, record
<1>3. ResultOf(r) \in Result
  BY DEF ResultOf, Result
<1>4. doc.status = "Completed" /\ doc.result = ResultOf(r) /\ doc.input = records[k].input
  BY <1>2, <1>3, CompletedFacts
<1>5. records' = [records EXCEPT ![k] = doc] /\ commits' = [commits EXCEPT ![k] = <<r>>]
  BY <1>1, <1>2 DEF ApplyCommit
<1> HIDE DEF doc
<1>6. onceOutcome[k] = None
  BY <1>2 DEF onceOutcome
<1>7. onceOutcome' = [onceOutcome EXCEPT
        ![k] = [input |-> records[k].input, result |-> ResultOf(r)]]
  BY <1>2, <1>4, <1>5 DEF onceOutcome
<1>8. [j \in Keys |-> Len(commits[j])]' =
        [[j \in Keys |-> Len(commits[j])] EXCEPT ![k] = @ + 1]
  <2>1. Len(commits[k]) = 0
    BY <1>2
  <2>2. Len(commits'[k]) = 1
    BY <1>2, <1>5
  <2>3. \A j \in Keys \ {k} : commits'[j] = commits[j]
    BY <1>2, <1>5
  <2> DEFINE count == [j \in Keys |-> Len(commits[j])]
  <2>4. count[k] + 1 = 1
    BY <1>2, <2>1
  <2>5. count' = [count EXCEPT ![k] = 1]
    BY <1>2, <2>2, <2>3
  <2> QED
    BY <2>4, <2>5
<1>9. UNCHANGED onceAnswered
  BY <1>1, AnsweredKept DEF GoTo
<1> QED
  BY <1>2, <1>3, <1>6, <1>7, <1>8, <1>9 DEF Once!Next, Once!Execute

LEMMA RespondOnce ==
  ASSUME ProtocolInvariant, NEW r \in Requests, Respond(r)
  PROVE  Once!Next \/ UNCHANGED Once!vars
<1> USE DEF ProtocolInvariant, TypeOK
<1>1. /\ pc[r] = "reply" /\ pc' = [pc EXCEPT ![r] = "done"]
      /\ UNCHANGED <<records, commits, cmd, reply>>
  BY DEF Respond, GoTo, dbVars, reqVars
<1>2. UNCHANGED <<onceOutcome, [k \in Keys |-> Len(commits[k])]>>
  BY <1>1, OutcomeKept
<1>3. CASE reply[r].kind = "value"
  <2> DEFINE k == cmd[r].key
  <2>1. /\ k \in Keys /\ records[k].status = "Completed" /\ records[k] \in Record
        /\ records[k].result = reply[r].result /\ records[k].input = cmd[r].input
    BY <1>1, <1>3 DEF CommandKnown, RepliesAgree, record
  <2>2. onceOutcome[k] \in Outcome /\ onceOutcome[k] # None
        /\ onceOutcome[k].input = cmd[r].input
        /\ onceOutcome[k].result = reply[r].result
    BY <2>1, RecordFacts, NoneAssumption DEF onceOutcome, Outcome
  <2>3. onceAnswered[r] = None
    BY <1>1 DEF onceAnswered
  <2>4. onceAnswered' = [onceAnswered EXCEPT
          ![r] = [key |-> k, input |-> cmd[r].input, result |-> reply[r].result]]
    BY <1>1, <1>3 DEF onceAnswered
  <2> QED
    BY <1>2, <2>1, <2>2, <2>3, <2>4 DEF Once!Next, Once!Answer
<1>4. CASE reply[r].kind # "value"
  <2>1. UNCHANGED onceAnswered
    BY <1>1, <1>4 DEF onceAnswered
  <2> QED
    BY <1>2, <2>1 DEF Once!vars
<1> QED
  BY <1>3, <1>4

LEMMA SendAnotherOnce ==
  ASSUME ProtocolInvariant, NEW r \in Requests, SendAnother(r)
  PROVE  Once!Next \/ UNCHANGED Once!vars
<1> USE DEF ProtocolInvariant, TypeOK
<1>1. /\ pc[r] = "done" /\ pc' = [pc EXCEPT ![r] = "idle"]
      /\ reply' = [reply EXCEPT ![r] = Say("none")]
      /\ UNCHANGED <<records, commits, cmd>>
  BY DEF SendAnother, GoTo, dbVars
<1>2. UNCHANGED <<onceOutcome, [k \in Keys |-> Len(commits[k])]>>
  BY <1>1, OutcomeKept
<1>3. CASE reply[r].kind = "value"
  <2>1. onceAnswered[r] \in Told
    <3>1. cmd[r] \in [key : Keys, input : Inputs]
      BY <1>1 DEF CommandKnown
    <3>2. reply[r].result \in Result
      BY <1>3 DEF Reply
    <3> QED
      BY <1>1, <1>3, <3>1, <3>2 DEF onceAnswered, Told
  <2>2. onceAnswered' = [onceAnswered EXCEPT ![r] = None]
    BY <1>1 DEF onceAnswered
  <2> QED
    BY <1>2, <2>1, <2>2, NoneAssumption DEF Once!Next, Once!Forget
<1>4. CASE reply[r].kind # "value"
  <2>1. UNCHANGED onceAnswered
    BY <1>1, <1>4 DEF onceAnswered
  <2> QED
    BY <1>2, <2>1 DEF Once!vars
<1> QED
  BY <1>3, <1>4

LEMMA NextOnce == ProtocolInvariant /\ [Next]_vars => [Once!Next]_(Once!vars)
<1> SUFFICES ASSUME ProtocolInvariant, [Next]_vars
             PROVE  Once!Next \/ UNCHANGED Once!vars
  OBVIOUS
<1>1. ASSUME NEW r \in Requests, Step(r) PROVE Once!Next \/ UNCHANGED Once!vars
  BY <1>1, PrivateStepOnce, CommitOnce, RespondOnce DEF Step
<1>2. ASSUME NEW r \in Requests, Die(r) \/ Throw(r) PROVE UNCHANGED Once!vars
  <2>1. UNCHANGED onceAnswered
    BY <1>2, AnsweredKept
    DEF Die, Throw, Finish, GoTo, Running, ProtocolInvariant, TypeOK
  <2> QED
    BY <1>2, <2>1, OutcomeKept DEF Die, Throw, Once!vars
<1>3. CASE Tick \/ UNCHANGED vars
  BY <1>3 DEF Tick, vars, dbVars, reqVars, Once!vars, onceOutcome, onceAnswered
<1> QED
  BY <1>1, <1>2, <1>3, ClaimOnce, SendAnotherOnce, CommitOnce DEF Next

(* The durable command protocol implements OnceCommand: a command has one  *)
(* outcome, reached in one atomic step, and answers report that outcome.   *)
THEOREM DurableImplementsOnce == Spec => ImplementsOnce
BY InitOnce, NextOnce, ProtocolHolds, PTL DEF Spec, Once!Spec, ImplementsOnce

-----------------------------------------------------------------------------
(* Refinement of CommandService *)

LEMMA InitService == Init => Service!ServiceInit
<1> SUFFICES ASSUME Init PROVE Service!ServiceInit
  OBVIOUS
<1>1. serviceKey = [r \in Requests |-> None]
  BY DEF Init, serviceKey
<1>2. serviceRecords = [k \in Keys |-> Service!Absent]
  BY DEF Init, serviceRecords, Absent, Service!Absent
<1>3. serviceHolder = [k \in Keys |-> None]
  BY DEF Init, serviceHolder, Absent
<1>4. serviceReplies = [r \in Requests |-> Service!Say("none")]
  BY DEF Init, serviceReplies, serviceReply, Say, Service!Say
<1> QED
  BY <1>1, <1>2, <1>3, <1>4 DEF Service!ServiceInit

(* What a step of q, or a write of one record, changes of the service.     *)
Only(q) ==
  \A r \in Requests \ {q} : pc'[r] = pc[r] /\ cmd'[r] = cmd[r] /\ reply'[r] = reply[r]

LEMMA RequestView ==
  ASSUME NEW q \in Requests, Only(q)
  PROVE  /\ serviceKey' = [serviceKey EXCEPT
              ![q] = IF pc'[q] = "idle" THEN None ELSE cmd'[q].key]
         /\ serviceReplies' = [serviceReplies EXCEPT ![q] = serviceReply(q)']
<1>1. \A r \in Requests \ {q} : serviceReply(r)' = serviceReply(r)
  BY DEF Only, serviceReply, serviceAnswer
<1>2. \A r \in Requests \ {q} : pc'[r] = pc[r] /\ cmd'[r] = cmd[r]
  BY DEF Only
<1>3. serviceReplies' = [serviceReplies EXCEPT ![q] = serviceReply(q)']
  BY <1>1 DEF serviceReplies
<1> QED
  BY <1>2, <1>3 DEF serviceKey

LEMMA RecordView ==
  ASSUME NEW k \in Keys, NEW doc, TypeOK, records' = [records EXCEPT ![k] = doc]
  PROVE  /\ serviceRecords' = [serviceRecords EXCEPT
              ![k] = [status |-> doc.status, result |-> doc.result]]
         /\ serviceHolder' = [serviceHolder EXCEPT ![k] = doc.executionId]
BY DEF TypeOK, serviceRecords, serviceHolder

LEMMA RecordsKept ==
  UNCHANGED records => UNCHANGED <<serviceRecords, serviceHolder>>
BY DEF serviceRecords, serviceHolder

LEMMA SayView ==
  \A kind \in {"none", "in-progress", "key-reused", "thrown"} :
    serviceAnswer(Say(kind)) =
      Service!Say(CASE kind = "in-progress" -> "busy"
                    [] kind = "key-reused" -> "refused"
                    [] OTHER -> "failed")
BY DEF serviceAnswer, Say, Service!Say

LEMMA TellView ==
  \A result \in Result : serviceAnswer(Tell(result)) = Service!Tell(result)
BY DEF serviceAnswer, Tell, Service!Tell

LEMMA PendingView ==
  ASSUME NEW doc \in Record, doc.status = "Pending"
  PROVE  doc.result = None
BY DEF Record, RecordsWith, Absent

(* A request that has not claimed its record, at its command's key.        *)
LEMMA Undecided ==
  ASSUME TypeOK, NEW q \in Requests, NEW k \in Keys, Only(q),
         pc[q] = "idle" \/ (pc[q] \in {"existing", "recover"} /\ cmd[q].key = k),
         pc'[q] # "idle", cmd'[q].key = k
  PROVE  Service!Asks(q, k)
<1>1. serviceKey[q] \in {None, k} /\ serviceKey' = [serviceKey EXCEPT ![q] = k]
  BY RequestView DEF serviceKey
<1>2. serviceReplies[q].kind = "none"
  BY DEF serviceReplies, serviceReply, Say
<1> QED
  BY <1>1, <1>2 DEF Service!Asks

LEMMA ClaimService ==
  ASSUME ProtocolInvariant, NEW r \in Requests, NEW k \in Keys, NEW i \in Inputs,
         Claim(r, k, i)
  PROVE  Service!ServiceNext
<1> USE DEF ProtocolInvariant
<1>1. /\ pc[r] = "idle" /\ UNCHANGED reply
      /\ cmd' = [cmd EXCEPT ![r] = [key |-> k, input |-> i]]
  BY DEF Claim
<1>2. CASE records[k].status = "Absent"
  <2> DEFINE doc == Leased(i, r, NoAnswers)
  <2>1. records' = [records EXCEPT ![k] = doc] /\ pc' = [pc EXCEPT ![r] = "prepare"]
    BY <1>2 DEF Claim, GoTo
  <2>2. doc.status = "Pending" /\ doc.result = None /\ doc.executionId = r
    BY DEF Leased
  <2> HIDE DEF doc
  <2>3. Only(r) /\ Service!Asks(r, k)
    BY <1>1, <2>1, Undecided DEF Only, TypeOK
  <2>4. /\ serviceRecords' = [serviceRecords EXCEPT ![k] = Service!Pending]
        /\ serviceHolder' = [serviceHolder EXCEPT ![k] = r]
    BY <2>1, <2>2, RecordView DEF Service!Pending
  <2>5. serviceReply(r)' = Service!Say("running")
    BY <2>1 DEF TypeOK, serviceReply, Say, Service!Say
  <2>6. serviceRecords[k].status = "Absent"
    BY <1>2 DEF serviceRecords
  <2>7. Service!Run(r, k)
    BY <2>3, <2>4, <2>5, <2>6, RequestView
    DEF Service!Run, Service!Runnable, Service!Answer
  <2> QED
    BY <2>7 DEF Service!ServiceNext
<1>3. CASE records[k].status # "Absent"
  <2>1. UNCHANGED records /\ pc' = [pc EXCEPT ![r] = "existing"]
    BY <1>3 DEF Claim, GoTo
  <2>2. Only(r) /\ Service!Asks(r, k)
    BY <1>1, <2>1, Undecided DEF Only, TypeOK
  <2>3. serviceReply(r)' = serviceReply(r)
    BY <1>1, <2>1 DEF TypeOK, serviceReply, Say
  <2>4. UNCHANGED serviceReplies
    BY <2>2, <2>3, RequestView DEF serviceReplies
  <2>5. Service!Arrive(r, k)
    BY <2>1, <2>2, <2>4, RecordsKept DEF Service!Arrive
  <2> QED
    BY <2>5 DEF Service!ServiceNext
<1> QED
  BY <1>2, <1>3

LEMMA ReadExistingService ==
  ASSUME ProtocolInvariant, NEW r \in Requests, ReadExisting(r)
  PROVE  Service!ServiceNext \/ UNCHANGED Service!serviceVars
<1> USE DEF ProtocolInvariant
<1> DEFINE k == cmd[r].key
<1>1. /\ pc[r] = "existing" /\ k \in Keys /\ UNCHANGED <<records, cmd>>
      /\ records[k] \in Record /\ records[k].status # "Absent"
  BY DEF ReadExisting, CommandKnown, TypeOK, record, dbVars
<1>2. CASE /\ ~SameInput(r)
           /\ Finish(r, Say("key-reused"))
  <2>1. Only(r) /\ Service!Asks(r, k) /\ pc'[r] = "reply"
    BY <1>1, <1>2, Undecided DEF Only, Finish, GoTo, TypeOK
  <2>2. serviceReply(r)' = Service!Say("refused")
    <3>1. reply'[r] = Say("key-reused") BY <1>2 DEF Finish, TypeOK
    <3>2. serviceAnswer(reply'[r]) = Service!Say("refused") BY <3>1, SayView
    <3> QED BY <2>1, <3>2 DEF serviceReply, serviceAnswer
  <2>3. Service!Refuse(r, k)
    BY <1>1, <2>1, <2>2, RecordsKept, RequestView DEF Service!Refuse, Service!Answer
  <2> QED
    BY <1>1, <2>3 DEF Service!ServiceNext
<1>3. CASE /\ record(r).status = "Completed"
           /\ Finish(r, Tell(record(r).result))
  <2>1. Only(r) /\ Service!Asks(r, k) /\ pc'[r] = "reply"
    BY <1>1, <1>3, Undecided DEF Only, Finish, GoTo, TypeOK
  <2>2. serviceReply(r)' = Service!Tell(serviceRecords[k].result)
    <3>1. reply'[r] = Tell(records[k].result) BY <1>3 DEF Finish, TypeOK, record
    <3>2. records[k].result \in Result BY <1>1, <1>3, RecordFacts DEF record
    <3>3. serviceAnswer(reply'[r]) = Service!Tell(records[k].result)
      BY <3>1, <3>2, TellView
    <3> QED BY <1>1, <2>1, <3>3 DEF serviceReply, serviceAnswer, serviceRecords
  <2>3. serviceRecords[k].status = "Completed"
    BY <1>1, <1>3 DEF serviceRecords, record
  <2>4. Service!Replay(r, k)
    BY <1>1, <2>1, <2>2, <2>3, RecordsKept, RequestView DEF Service!Replay, Service!Answer
  <2> QED
    BY <1>1, <2>4 DEF Service!ServiceNext
<1>4. CASE GoTo(r, "recover") /\ UNCHANGED reply
  <2>1. Only(r) /\ pc'[r] = "recover"
    BY <1>1, <1>4 DEF Only, GoTo, TypeOK
  <2>2. serviceReply(r)' = serviceReply(r)
    BY <1>1, <2>1 DEF serviceReply, Say
  <2>3. UNCHANGED <<serviceKey, serviceReplies>>
    BY <1>1, <2>1, <2>2, RequestView DEF serviceKey, serviceReplies
  <2> QED
    BY <1>1, <2>3, RecordsKept DEF Service!serviceVars
<1> QED
  BY <1>2, <1>3, <1>4 DEF ReadExisting

LEMMA RecoverService ==
  ASSUME ProtocolInvariant, NEW r \in Requests, Recover(r)
  PROVE  Service!ServiceNext
<1> USE DEF ProtocolInvariant
<1> DEFINE k == cmd[r].key
<1>1. /\ pc[r] = "recover" /\ k \in Keys /\ UNCHANGED cmd
      /\ records[k] \in Record /\ records[k].status # "Absent"
  BY DEF Recover, CommandKnown, TypeOK, record
<1>2. CASE Recoverable(record(r))
  <2> DEFINE doc == Leased(records[k].input, r, records[k].preparedCapabilities)
  <2>1. /\ records' = [records EXCEPT ![k] = doc] /\ UNCHANGED reply
        /\ pc' = [pc EXCEPT ![r] = "prepare"]
    BY <1>2 DEF Recover, GoTo, record
  <2>2. doc.status = "Pending" /\ doc.result = None /\ doc.executionId = r
    BY DEF Leased
  <2> HIDE DEF doc
  <2>3. Only(r) /\ Service!Asks(r, k)
    BY <1>1, <2>1, Undecided DEF Only, TypeOK
  <2>4. /\ serviceRecords' = [serviceRecords EXCEPT ![k] = Service!Pending]
        /\ serviceHolder' = [serviceHolder EXCEPT ![k] = r]
    BY <1>1, <2>1, <2>2, RecordView DEF Service!Pending
  <2>5. serviceReply(r)' = Service!Say("running")
    BY <2>1 DEF TypeOK, serviceReply, Say, Service!Say
  <2>6. serviceRecords[k].status = "Pending"
    BY <1>1, <1>2 DEF serviceRecords, Recoverable, record
  <2>7. Service!Run(r, k)
    BY <2>3, <2>4, <2>5, <2>6, RequestView
    DEF Service!Run, Service!Runnable, Service!Answer
  <2> QED
    BY <1>1, <2>7 DEF Service!ServiceNext
<1>3. CASE ~Recoverable(record(r))
  <2>1. UNCHANGED records /\ Finish(r, Say("in-progress"))
    BY <1>3 DEF Recover
  <2>2. Only(r) /\ Service!Asks(r, k) /\ pc'[r] = "reply"
    BY <1>1, <2>1, Undecided DEF Only, Finish, GoTo, TypeOK
  <2>3. serviceReply(r)' = Service!Say("busy")
    <3>1. reply'[r] = Say("in-progress") BY <2>1 DEF Finish, TypeOK
    <3>2. serviceAnswer(reply'[r]) = Service!Say("busy") BY <3>1, SayView
    <3> QED BY <2>2, <3>2 DEF serviceReply, serviceAnswer
  <2>4. serviceRecords[k].status # "Absent"
    BY <1>1 DEF serviceRecords
  <2>5. Service!Busy(r, k)
    BY <2>1, <2>2, <2>3, <2>4, RecordsKept, RequestView DEF Service!Busy, Service!Answer
  <2> QED
    BY <1>1, <2>5 DEF Service!ServiceNext
<1> QED
  BY <1>2, <1>3

(* A request that ends without a result, or goes on running. *)
LEMMA FailService ==
  ASSUME ProtocolInvariant, NEW r \in Requests, Only(r), UNCHANGED <<records, cmd>>,
         pc[r] \in Executing \cup {"existing"}, pc'[r] \in {"reply", "dead"},
         reply'[r] = reply[r] \/ reply'[r] = Say("thrown")
  PROVE  Service!ServiceNext
<1> USE DEF ProtocolInvariant
<1>1. serviceKey[r] # None /\ UNCHANGED serviceKey
  <2>1. cmd[r].key \in Keys BY DEF CommandKnown, Executing
  <2>2. cmd[r].key # None BY <2>1, ConstantsAssumption
  <2>3. serviceKey[r] = cmd[r].key /\ serviceKey'[r] = cmd[r].key
    BY DEF serviceKey, Executing
  <2> QED BY <2>2, <2>3, RequestView DEF serviceKey
<1>2. serviceReplies[r].kind \in {"none", "running"}
  BY DEF serviceReplies, serviceReply, Say, Executing
<1>3. serviceReply(r)' = Service!Say("failed")
  <2>1. reply'[r] \in {Say("none"), Say("thrown")}
    BY DEF CommandKnown
  <2>2. serviceAnswer(reply'[r]) = Service!Say("failed")
    BY <2>1, SayView
  <2> QED BY <2>2 DEF serviceReply, serviceAnswer
<1>4. Service!Fail(r)
  BY <1>1, <1>2, <1>3, RecordsKept, RequestView DEF Service!Fail, Service!Answer
<1> QED
  BY <1>4 DEF Service!ServiceNext

LEMMA RunningService ==
  ASSUME NEW r \in Requests, Only(r), UNCHANGED cmd,
         pc[r] \in {"prepare", "provider", "execute", "commit"},
         pc'[r] \in {"prepare", "provider", "execute", "commit"}
  PROVE  UNCHANGED <<serviceKey, serviceReplies>>
<1>1. serviceReply(r)' = serviceReply(r)
  BY DEF serviceReply, Say
<1> QED
  BY <1>1, RequestView DEF serviceKey, serviceReplies

(* The lease of a record, and the answers it keeps, are no part of the     *)
(* service.                                                                *)
LEMMA LeasedService ==
  ASSUME ProtocolInvariant, NEW r \in Requests, cmd[r].key \in Keys, NEW a,
         HoldsFence(record(r), r),
         records' = [records EXCEPT ![cmd[r].key] = Leased(@.input, r, a)]
  PROVE  UNCHANGED <<serviceRecords, serviceHolder>>
<1> DEFINE k == cmd[r].key
           doc == Leased(records[k].input, r, a)
<1>1. /\ records[k] \in Record /\ TypeOK
      /\ records[k].status = "Pending" /\ records[k].executionId = r
  BY DEF ProtocolInvariant, TypeOK, HoldsFence, record
<1>2. doc.status = "Pending" /\ doc.result = None /\ doc.executionId = r
  BY DEF Leased
<1>3. records' = [records EXCEPT ![k] = doc]
  OBVIOUS
<1> HIDE DEF doc
<1>4. records[k].result = None
  BY <1>1, PendingView
<1> QED
  BY <1>1, <1>2, <1>3, <1>4, RecordView DEF serviceRecords, serviceHolder

LEMMA PrepareService ==
  ASSUME ProtocolInvariant, NEW r \in Requests, Heartbeat(r) \/ SavePrepared(r)
  PROVE  Service!ServiceNext \/ UNCHANGED Service!serviceVars
<1> USE DEF ProtocolInvariant
<1>1. /\ pc[r] \in {"prepare", "provider"} /\ cmd[r].key \in Keys /\ UNCHANGED cmd
      /\ Only(r) /\ pc'[r] \in {"prepare", "provider", "reply"}
  BY DEF Heartbeat, SavePrepared, CommandKnown, Only, Finish, GoTo, TypeOK
<1>2. CASE UNCHANGED records /\ Finish(r, Say("thrown"))
  <2>1. pc'[r] = "reply" /\ reply'[r] = Say("thrown")
    BY <1>2 DEF Finish, GoTo, TypeOK
  <2> QED
    BY <1>1, <1>2, <2>1, FailService DEF Executing
<1>3. CASE /\ HoldsFence(record(r), r) /\ pc'[r] # "reply"
           /\ \E a : records' = [records EXCEPT ![cmd[r].key] = Leased(@.input, r, a)]
  <2>1. UNCHANGED <<serviceRecords, serviceHolder>>
    BY <1>1, <1>3, LeasedService
  <2>2. UNCHANGED <<serviceKey, serviceReplies>>
    BY <1>1, <1>3, RunningService
  <2> QED
    BY <2>1, <2>2 DEF Service!serviceVars
<1>4. CASE Heartbeat(r)
  <2>1. CASE HeartbeatModifies(r)
    BY <1>3, <1>4, <2>1 DEF Heartbeat, HeartbeatModifies, GoTo, TypeOK
  <2>2. CASE ~HeartbeatModifies(r)
    BY <1>2, <1>4, <2>2 DEF Heartbeat
  <2> QED
    BY <2>1, <2>2
<1>5. CASE SavePrepared(r)
  BY <1>2, <1>3, <1>5 DEF SavePrepared, GoTo, TypeOK
<1> QED
  BY <1>4, <1>5

LEMMA TransactionService ==
  ASSUME ProtocolInvariant, NEW r \in Requests, BeginTransaction(r) \/ Complete(r)
  PROVE  Service!ServiceNext \/ UNCHANGED Service!serviceVars
<1> USE DEF ProtocolInvariant
<1>1. /\ pc[r] \in {"prepare", "execute"} /\ UNCHANGED <<records, cmd>> /\ Only(r)
  BY DEF BeginTransaction, Complete, Only, Finish, GoTo, TypeOK, dbVars
<1>2. CASE Finish(r, Say("thrown"))
  <2>1. pc'[r] = "reply" /\ reply'[r] = Say("thrown")
    BY <1>2 DEF Finish, GoTo, TypeOK
  <2> QED
    BY <1>1, <2>1, FailService DEF Executing
<1>3. CASE pc'[r] \in {"prepare", "execute", "commit"}
  BY <1>1, <1>3, RunningService, RecordsKept DEF Service!serviceVars
<1> QED
  BY <1>2, <1>3 DEF BeginTransaction, Complete, GoTo, TypeOK

LEMMA CommitService ==
  ASSUME ProtocolInvariant, NEW r \in Requests,
         Commit(r) \/ CommitUnacknowledged(r)
  PROVE  Service!ServiceNext
<1> USE DEF ProtocolInvariant
<1> DEFINE k == cmd[r].key
           doc == Completed(records[k], ResultOf(r))
<1>1. /\ pc[r] = "commit" /\ ApplyCommit(r) /\ UNCHANGED cmd
      /\ pc' = [pc EXCEPT ![r] = "reply"]
      /\ \/ reply' = [reply EXCEPT ![r] = Tell(ResultOf(r))]
         \/ reply' = [reply EXCEPT ![r] = Say("thrown")]
  BY DEF Commit, CommitUnacknowledged, Finish, GoTo
<1>2. /\ k \in Keys /\ records[k] \in Record /\ records[k].status = "Pending"
      /\ records[k].executionId = r
  BY <1>1, ConstantsAssumption DEF CommandKnown, StagedHolderKeepsFence, TypeOK
<1>3. ResultOf(r) \in Result
  BY DEF ResultOf, Result, TypeOK
<1>4. /\ doc.status = "Completed" /\ doc.result = ResultOf(r)
      /\ doc.executionId = r
  BY <1>2 DEF Completed
<1>5. records' = [records EXCEPT ![k] = doc]
  BY <1>1 DEF ApplyCommit
<1> HIDE DEF doc
<1>6. /\ serviceRecords' = [serviceRecords EXCEPT ![k] = Service!Completed(ResultOf(r))]
      /\ UNCHANGED serviceHolder
  <2>1. /\ serviceRecords' = [serviceRecords EXCEPT
             ![k] = [status |-> doc.status, result |-> doc.result]]
        /\ serviceHolder' = [serviceHolder EXCEPT ![k] = doc.executionId]
    BY <1>2, <1>5, RecordView
  <2>2. serviceHolder[k] = doc.executionId
    BY <1>2, <1>4 DEF serviceHolder
  <2> QED
    BY <1>2, <1>4, <2>1, <2>2 DEF Service!Completed, serviceHolder
<1>7. Only(r) /\ pc'[r] = "reply"
  BY <1>1 DEF Only, TypeOK
<1>8. serviceReply(r)' \in {Service!Tell(ResultOf(r)), Service!Say("failed")}
  <2>1. reply'[r] \in {Tell(ResultOf(r)), Say("thrown")}
    BY <1>1 DEF TypeOK
  <2>2. serviceAnswer(reply'[r]) \in {Service!Tell(ResultOf(r)), Service!Say("failed")}
    BY <1>3, <2>1, SayView, TellView
  <2> QED BY <1>7, <2>2 DEF serviceReply, serviceAnswer
<1>9. /\ serviceKey[r] = k /\ serviceReplies[r].kind = "running"
      /\ serviceHolder[k] = r /\ serviceRecords[k].status = "Pending"
      /\ UNCHANGED serviceKey
  BY <1>1, <1>2, <1>7, RequestView
  DEF serviceKey, serviceReplies, serviceReply, Say, serviceHolder, serviceRecords
<1>10. Service!Complete(r, ResultOf(r))
  BY <1>6, <1>7, <1>8, <1>9, RequestView DEF Service!Complete, Service!Answer
<1> QED
  BY <1>3, <1>10 DEF Service!ServiceNext

LEMMA SendAnotherService ==
  ASSUME ProtocolInvariant, ClaimsKeepTheirIds, NEW r \in Requests, SendAnother(r)
  PROVE  Service!ServiceNext
<1> USE DEF ProtocolInvariant
<1>1. /\ pc[r] = "done" /\ pc' = [pc EXCEPT ![r] = "idle"]
      /\ reply' = [reply EXCEPT ![r] = Say("none")]
      /\ UNCHANGED <<records, cmd>>
      /\ \/ reply[r].kind \in {"in-progress", "key-reused"}
         \/ reply[r].kind = "value" /\ reply[r].result.by # r
  BY DEF SendAnother, GoTo, dbVars
<1>2. \A k \in Keys : serviceHolder[k] # r
  <2>1. ASSUME NEW k \in Keys, records[k].executionId = r PROVE FALSE
    <3>1. records[k].status # "Absent"
      <4>1. records[k] \in Record /\ records[k] # Absent
        BY <2>1, ConstantsAssumption DEF TypeOK, Absent
      <4> QED
        BY <4>1 DEF Record, RecordsWith
    <3> QED
      BY <1>1, <2>1, <3>1 DEF ClaimsKeepTheirIds
  <2> QED
    BY <2>1 DEF serviceHolder
<1>3. serviceReplies[r].kind \in {"result", "refused", "busy"}
  BY <1>1 DEF serviceReplies, serviceReply, serviceAnswer, Say
<1>4. Only(r) /\ pc'[r] = "idle"
  BY <1>1 DEF Only, TypeOK
<1>5. serviceReply(r)' = Service!Say("none")
  BY <1>4 DEF serviceReply, Say, Service!Say
<1>6. Service!Forget(r)
  BY <1>1, <1>2, <1>3, <1>4, <1>5, RecordsKept, RequestView
  DEF Service!Forget, Service!Answer
<1> QED
  BY <1>6 DEF Service!ServiceNext

LEMMA NextService ==
  ProtocolInvariant /\ ClaimsKeepTheirIds /\ [Next]_vars
    => [Service!ServiceNext]_(Service!serviceVars)
<1> SUFFICES ASSUME ProtocolInvariant, ClaimsKeepTheirIds, [Next]_vars
             PROVE  Service!ServiceNext \/ UNCHANGED Service!serviceVars
  OBVIOUS
<1>1. ASSUME NEW r \in Requests, pc[r] \in {"reply", "done"}, pc'[r] \in {"done", "dead"},
             Only(r), reply'[r] = reply[r], UNCHANGED <<records, cmd>>
      PROVE  UNCHANGED Service!serviceVars
  <2>1. serviceReply(r)' = serviceReply(r)
    BY <1>1 DEF serviceReply, serviceAnswer
  <2> QED
    BY <1>1, <2>1, RecordsKept, RequestView
    DEF serviceKey, serviceReplies, Service!serviceVars
<1>2. ASSUME NEW r \in Requests, Step(r)
      PROVE  Service!ServiceNext \/ UNCHANGED Service!serviceVars
  <2>1. CASE Respond(r)
    BY <1>1, <2>1
    DEF Respond, GoTo, Only, dbVars, reqVars, ProtocolInvariant, TypeOK
  <2> QED
    BY <1>2, <2>1, ReadExistingService, RecoverService, PrepareService,
       TransactionService, CommitService DEF Step
<1>3. ASSUME NEW r \in Requests, Die(r) \/ Throw(r)
      PROVE  Service!ServiceNext \/ UNCHANGED Service!serviceVars
  <2>1. /\ Only(r) /\ UNCHANGED <<records, cmd>> /\ pc'[r] \in {"reply", "dead"}
        /\ reply'[r] = reply[r] \/ (pc[r] # "reply" /\ reply'[r] = Say("thrown"))
        /\ pc[r] \notin {"idle", "done", "dead"}
    BY <1>3 DEF Die, Throw, Only, Finish, GoTo, Running, ProtocolInvariant, TypeOK
  <2>2. CASE pc[r] = "reply"
    BY <1>1, <1>3, <2>1, <2>2 DEF Die, Throw, GoTo, ProtocolInvariant, TypeOK
  <2>3. CASE pc[r] # "reply"
    <3>1. pc[r] \in Executing \cup {"existing"}
      BY <2>1, <2>3 DEF ProtocolInvariant, TypeOK, Stages, Executing
    <3> QED
      BY <2>1, <3>1, FailService
  <2> QED
    BY <2>2, <2>3
<1>4. CASE Tick \/ UNCHANGED vars
  <2>1. UNCHANGED <<records, pc, cmd, reply>>
    BY <1>4 DEF Tick, vars, dbVars, reqVars
  <2> QED
    BY <2>1 DEF Service!serviceVars, serviceKey, serviceRecords, serviceHolder,
      serviceReplies, serviceReply, serviceAnswer
<1> QED
  BY <1>2, <1>3, <1>4, ClaimService, SendAnotherService, CommitService DEF Next

(* To its callers the durable command protocol is CommandService: whoever  *)
(* dies, throws, is superseded or takes over, a request is answered with   *)
(* the recorded result, as refused, as busy or as failed, and a completed  *)
(* command is run by nobody again.                                         *)
THEOREM DurableImplementsService == Spec => ImplementsService
BY InitService, NextService, InvariantHolds, PTL
DEF Spec, InductiveInvariant, Service!ServiceSpec, ImplementsService

=============================================================================
