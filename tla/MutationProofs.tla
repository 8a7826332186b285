--------------------------- MODULE MutationProofs ---------------------------
(***************************************************************************)
(* Proofs about MutationProtocol, for every set of ids, requests, GUIDs    *)
(* and books, and for every number of crashes.                             *)
(***************************************************************************)
EXTENDS MutationProtocol, BookOpsProofs

-----------------------------------------------------------------------------
(* Type correctness, whatever calls fail.                                   *)

\* TypeOK is inductive together with what the steps of a call rely on.
TypeInv ==
    /\ TypeOK
    /\ pc # "idle" => cur \in Ids
    /\ pc \in {"outcome", "verdict", "respond"} => result \in Outcome

\* The handler's verdict is an error code or OK, and OK means the checks against
\* the open book passed.
LEMMA HandlerVerdictType ==
    ASSUME NEW m \in Ids
    PROVE  /\ HandlerVerdict(m) \in ErrorCode \cup {OK}
           /\ HandlerVerdict(m) = OK =>
                 open /\ Req[m].early = OK /\ LateVerdict(Req[m], mem) = OK
<1>1. Req[m] \in Request
  BY RequestAssumption
<1>2. LateVerdict(Req[m], mem) \in DeterministicCodes \cup {OK}
  BY <1>1, LateVerdictType
<1>3. Req[m].early \in {OK, "INVALID_ARGUMENT"}
  BY <1>1 DEF Request
<1> QED
  BY <1>2, <1>3
  DEF HandlerVerdict, ??, OK, ErrorCode, DeterministicCodes, EnvironmentalCodes

\* The edit of a call that passed its checks is well typed.
LEMMA EditTyped ==
    ASSUME TypeOK, NEW m \in Ids, HandlerVerdict(m) = OK,
           NEW g \in IF Req[m].rpc \in Creates THEN Fresh ELSE {Req[m].guid}
    PROVE  /\ Req[m] \in Request /\ g \in Guids
           /\ Req[m].rpc \notin Creates => Lives(mem, g, KindOf(Req[m].rpc))
           /\ Effect(Req[m], g, mem) \in Book
           /\ ToProto(Req[m], g, Effect(Req[m], g, mem)) \in Response
           /\ Req[m].rpc \in Deletes => ToProto(Req[m], g, mem) \in Response
<1>1. Req[m] \in Request
  BY RequestAssumption
<1>2. LateVerdict(Req[m], mem) = OK
  BY HandlerVerdictType
<1>3. g \in Guids /\ (Req[m].rpc \notin Creates => Lives(mem, g, KindOf(Req[m].rpc)))
  BY <1>1, <1>2, LateVerdictLives DEF Fresh
<1>4. Effect(Req[m], g, mem) \in Book
  BY <1>1, <1>3, EffectType DEF TypeOK, Lives, Updates, Creates
<1>5. Req[m].rpc \notin Deletes => Effect(Req[m], g, mem)[g] # Absent
  <2>1. WasApplied(Req[m], ToProto(Req[m], g, Effect(Req[m], g, mem)), Effect(Req[m], g, mem))
    BY <1>1, <1>2, <1>3, EffectRecognised, LateVerdictLives DEF TypeOK
  <2>2. Req[m].rpc \notin Deletes => ToProto(Req[m], g, Effect(Req[m], g, mem)).guid = g
    BY DEF ToProto, Deletes
  <2> QED  BY <1>1, <2>1, <2>2 DEF WasApplied, Lives, Creates, Deletes
<1>6. ToProto(Req[m], g, Effect(Req[m], g, mem)) \in Response
  BY <1>1, <1>3, <1>4, <1>5, ToProtoType
<1>7. Req[m].rpc \in Deletes => ToProto(Req[m], g, mem) \in Response
  BY <1>1, <1>3, ToProtoType DEF TypeOK
<1> QED  BY <1>1, <1>3, <1>4, <1>6, <1>7

LEMMA TypeInvInit == Init => TypeInv
<1> SUFFICES ASSUME Init PROVE TypeInv
  OBVIOUS
<1> USE DEF Init, JournalInit
<1>1. Empty \in Response /\ Closed \in Book /\ NoEdit \in [Guids -> Nat]
  BY DEF Empty, Response, Closed, Book, NoEdit
<1>2. crashes \in 0 .. MaxCrashes /\ faults \in 0 .. MaxFaults /\ closes \in 0 .. MaxCloses
  BY BoundAssumption
<1> QED  BY <1>1, <1>2, InitBookAssumption DEF TypeInv, TypeOK, Step

LEMMA TypeInvStep == TypeInv /\ [Next]_vars => TypeInv'
<1> SUFFICES ASSUME TypeInv, [Next]_vars PROVE TypeInv'
  OBVIOUS
<1> USE DEF TypeInv, TypeOK, journalVars, bookVars, callVars, history, counters, Step
<1>0. Empty \in Response /\ Closed \in Book /\ NoEdit \in [Guids -> Nat]
  BY DEF Empty, Response, Closed, Book, NoEdit
<1>f. \A c \in ErrorCode \cup {OK} : Failed(c) \in Outcome
  BY <1>0 DEF Failed, Outcome
<1>o. \A r \in Response : Ok(r) \in Outcome
  BY DEF Ok, Outcome, OK
<1>b. \A n, max : max \in Nat /\ n \in 0 .. max /\ n < max => n + 1 \in 0 .. max
  OBVIOUS
<1>e. "INVALID_ARGUMENT" \in ErrorCode /\ "ENGINE_ERROR" \in ErrorCode
  BY DEF ErrorCode, DeterministicCodes, EnvironmentalCodes
<1>1. ASSUME NEW m \in Ids, StartMutation(m) PROVE TypeInv'
  BY <1>1, <1>0, <1>f, <1>e DEF StartMutation
<1>2. CASE JournalIntent
  BY <1>2 DEF JournalIntent, RecordIntent, Goto
<1>3. CASE LookupOutcome
  BY <1>3 DEF LookupOutcome, GetOutcome, Goto, Finish
<1>4. CASE ApplyThrows
  <2>1. cur \in Ids /\ Failed(HandlerVerdict(cur)) \in Outcome
    BY <1>4, <1>f, HandlerVerdictType DEF ApplyThrows
  <2> QED  BY <1>4, <2>1 DEF ApplyThrows, Goto
<1>5. CASE ApplyEdits
  <2> USE DEF ApplyEdits
  <2>1. cur \in Ids /\ HandlerVerdict(cur) = OK
    BY <1>5
  <2>2. PICK g \in IF Req[cur].rpc \in Creates THEN Fresh ELSE {Req[cur].guid} :
          /\ target' = g
          /\ IF Req[cur].rpc \in Deletes
             THEN UNCHANGED <<mem, edits>>
             ELSE /\ mem' = Effect(Req[cur], g, mem)
                  /\ edits' = [edits EXCEPT ![g] = @ + 1]
          /\ resp' = ToProto(Req[cur], g, mem')
    BY <1>5
  <2>3. g \in Guids /\ mem' \in Book /\ resp' \in Response
    BY <2>1, <2>2, EditTyped
  <2>4. edits' \in [Guids -> Nat]
    BY <2>2
  <2> QED  BY <1>5, <2>2, <2>3, <2>4 DEF Goto
<1>6. CASE JournalPending
  BY <1>6 DEF JournalPending, RecordPending, Goto
<1>7. CASE CommitEdit
  <2> USE DEF CommitEdit
  <2>1. cur \in Ids /\ Req[cur] \in Request
    BY <1>7, RequestAssumption
  <2>2. mem' \in Book
    <3>1. target \in Guids /\ Req[cur].rpc \in Deletes => Effect(Req[cur], target, mem) \in Book
      BY <2>1, EffectType DEF Deletes, Updates
    <3>2. target \notin Guids /\ Req[cur].rpc \in Deletes => Effect(Req[cur], target, mem) = mem
      BY DEF Effect, Creates, Deletes, Book
    <3> QED  BY <1>7, <3>1, <3>2
  <2>3. store' \in Book
    BY <1>7, <2>2 DEF Book
  <2>4. edits' \in [Guids -> Nat]
    <3>1. CASE target \in Guids
      <4>1. CommitLevel \in Nat
        BY <3>1 DEF CommitLevel
      <4>2. CommitLevel - 1 \in Nat
        BY <1>7, <4>1
      <4> QED  BY <1>7, <4>2
    <3>2. CASE target \notin Guids
      BY <1>7, <3>2
    <3> QED  BY <3>1, <3>2
  <2>5. effects' \in [Ids -> Nat]
    BY <1>7, <2>1
  <2>6. result' \in Outcome
    BY <1>7, <1>o
  <2> QED  BY <1>7, <2>2, <2>3, <2>4, <2>5, <2>6 DEF Goto
<1>8. CASE JournalOutcome
  BY <1>8, <1>f, <1>e DEF JournalOutcome, RecordOutcome, Finish, Goto
<1>9. CASE JournalVerdict
  BY <1>9, <1>f, <1>e DEF JournalVerdict, RecordOutcome, Finish, Goto
<1>10. CASE Respond
  BY <1>10, <1>0 DEF Respond
<1>11. CASE JournalFails
  <2>1. faults' \in 0 .. MaxFaults
    BY <1>11, <1>b, BoundAssumption DEF JournalFails
  <2>2. cur \in Ids
    BY <1>11, FaultAssumption DEF JournalFails
  <2> QED  BY <1>11, <2>1, <2>2, <1>f, <1>e DEF JournalFails
<1>12. CASE EngineCommitFails
  <2>1. faults' \in 0 .. MaxFaults
    BY <1>12, <1>b, BoundAssumption DEF EngineCommitFails
  <2>2. mem' \in Book
    BY <1>12 DEF EngineCommitFails, Book
  <2>3. edits' \in [Guids -> Nat] /\ result' \in Outcome
    BY <1>12, <1>o DEF EngineCommitFails
  <2> QED  BY <1>12, <2>1, <2>2, <2>3 DEF EngineCommitFails
<1>13. CASE OpenBook
  BY <1>13 DEF OpenBook
<1>14. CASE CloseBook
  <2>1. closes' \in 0 .. MaxCloses
    BY <1>14, <1>b, BoundAssumption DEF CloseBook, CloseSession
  <2> QED  BY <1>14, <2>1, <1>0 DEF CloseBook, CloseSession, Save, Idle
<1>15. CASE Shutdown
  <2>1. closes' \in 0 .. MaxCloses
    BY <1>15, <1>b, BoundAssumption DEF Shutdown, CloseSession
  <2> QED  BY <1>15, <2>1, <1>0 DEF Shutdown, CloseSession, Save, Idle
<1>16. CASE Crash
  <2>1. crashes' \in 0 .. MaxCrashes
    BY <1>16, <1>b, BoundAssumption DEF Crash
  <2> QED  BY <1>16, <2>1, <1>0 DEF Crash
<1>17. CASE Start
  BY <1>17 DEF Start
<1>18. ASSUME NEW m \in Ids, ReconcileApplied(m) \/ ReconcileDropped(m) PROVE TypeInv'
  <2>1. CASE ReconcileApplied(m)
    BY <2>1, <1>o DEF ReconcileApplied, ListPendingUnresolved, ListIndeterminate, RecordOutcome
  <2>2. CASE ReconcileDropped(m)
    BY <2>2 DEF ReconcileDropped, ClearPending
  <2> QED  BY <1>18, <2>1, <2>2
<1>19. CASE Serve
  BY <1>19 DEF Serve
<1>20. CASE UNCHANGED vars
  BY <1>20 DEF vars
<1> QED
  BY <1>1, <1>2, <1>3, <1>4, <1>5, <1>6, <1>7, <1>8, <1>9, <1>10, <1>11, <1>12, <1>13,
     <1>14, <1>15, <1>16, <1>17, <1>18, <1>19, <1>20
  DEF Next, RunMutation, Startup

(***************************************************************************)
(* The types of the protocol's state hold in every reachable state, also   *)
(* when any journal or engine call fails.                                  *)
(***************************************************************************)
THEOREM TypeCorrect == Spec => []TypeOK
<1>1. TypeInv => TypeOK
  BY DEF TypeInv
<1> QED  BY <1>1, TypeInvInit, TypeInvStep, PTL DEF Spec
-----------------------------------------------------------------------------
(* The protocol's invariant, when failing calls leave no trace.             *)

LEMMA ProtocolInvTyped == ProtocolInv => TypeInv
<1>1. \A r \in Response : Ok(r) \in Outcome
  BY DEF Ok, Outcome, OK
<1> QED  BY <1>1 DEF ProtocolInv, TypeInv, TypeOK, CallInHand, OutcomeInHand

LEMMA ProtocolInvInit == Init => ProtocolInv
<1> SUFFICES ASSUME Init PROVE ProtocolInv
  OBVIOUS
<1>1. TypeOK
  BY TypeInvInit DEF TypeInv
<1> USE DEF Init, JournalInit
<1>2. CallInHand /\ EditInHand /\ OutcomeInHand
  BY DEF CallInHand, EditInHand, OutcomeInHand
<1>3. PendingIsExact /\ OutcomeMatchesBook /\ RepliesAreRecorded /\ AtMostOnce
  BY DEF PendingIsExact, OutcomeMatchesBook, RepliesAreRecorded, AtMostOnce
<1> QED  BY <1>1, <1>2, <1>3 DEF ProtocolInv

LEMMA ProtocolInvStep ==
    ASSUME FaultsLeaveNoTrace, ProtocolInv, [Next]_vars
    PROVE  ProtocolInv'
<1>t. TypeOK /\ TypeOK'
  BY ProtocolInvTyped, TypeInvStep DEF TypeInv
<1> USE <1>t
<1> DEFINE Parts == /\ CallInHand /\ EditInHand /\ OutcomeInHand /\ PendingIsExact
                    /\ OutcomeMatchesBook /\ RepliesAreRecorded /\ AtMostOnce
<1>p. Parts
  BY DEF ProtocolInv
<1> SUFFICES Parts'
  BY DEF ProtocolInv
<1> USE <1>p DEF journalVars, bookVars, callVars, history, counters, CallInHand, EditInHand, OutcomeInHand,
      PendingIsExact, OutcomeMatchesBook, RepliesAreRecorded, AtMostOnce, TypeOK
<1>f. \A c \in ErrorCode \cup {OK} : Failed(c) \in Outcome
  BY DEF Failed, Outcome, Empty, Response
<1>e. "INVALID_ARGUMENT" \in ErrorCode /\ "ENGINE_ERROR" \in ErrorCode
      /\ ~Decisive(Failed("ENGINE_ERROR"))
  BY DEF ErrorCode, DeterministicCodes, EnvironmentalCodes, Decisive, Failed,
         IsDeterministicVerdict
<1>n. Null \notin Outcome /\ \A m \in Ids \ Malformed : applied[m] = Null => replies[m] = {}
  BY NullAssumption DEF Outcome
<1>1. ASSUME NEW m \in Ids, StartMutation(m) PROVE Parts'
  BY <1>1, <1>f, <1>e DEF StartMutation, Idle
<1>2. CASE JournalIntent
  BY <1>2 DEF JournalIntent, RecordIntent, Goto
<1>3. CASE LookupOutcome
  BY <1>3 DEF LookupOutcome, GetOutcome, Goto, Finish
<1>4. CASE ApplyThrows
  <2>1. HandlerVerdict(cur) \in ErrorCode /\ Failed(HandlerVerdict(cur)) \in Outcome
    BY <1>4, <1>f, HandlerVerdictType DEF ApplyThrows
  <2>2. ~result'.ok /\ result' \in Outcome /\ result'.code = HandlerVerdict(cur)
    BY <1>4, <2>1 DEF ApplyThrows, Failed
  <2>3. pc' = "respond" => ~Decisive(result')
    BY <1>4, <2>2 DEF ApplyThrows, Goto, Decisive
  <2>4. pc' = "verdict" => HandlerVerdict(cur) = Verdict(Req[cur], store)
    <3>1. pc' = "verdict" => HandlerVerdict(cur) # "BOOK_NOT_OPEN"
      BY <1>4 DEF ApplyThrows, Goto, IsDeterministicVerdict, DeterministicCodes
    <3>2. open => mem = store
      BY <1>4 DEF ApplyThrows
    <3> QED  BY <3>1, <3>2 DEF HandlerVerdict, Verdict, ??, OK
  <2> QED  BY <1>4, <2>2, <2>3, <2>4 DEF ApplyThrows, Goto
<1>5. CASE ApplyEdits
  <2> DEFINE r == Req[cur]
  <2>1. /\ cur \in Ids /\ HandlerVerdict(cur) = OK /\ pc = "apply" /\ pc' = "pending"
        /\ phase' = phase /\ open' = open /\ cur' = cur
        /\ UNCHANGED <<journalVars, store, history, result>>
    BY <1>5 DEF ApplyEdits, Goto
  <2>2. PICK g \in IF r.rpc \in Creates THEN Fresh ELSE {r.guid} :
          /\ target' = g
          /\ IF r.rpc \in Deletes
             THEN UNCHANGED <<mem, edits>>
             ELSE /\ mem' = Effect(r, g, mem)
                  /\ edits' = [edits EXCEPT ![g] = @ + 1]
          /\ resp' = ToProto(r, g, mem')
    BY <1>5 DEF ApplyEdits
  <2>3. /\ open /\ mem = store /\ edits = NoEdit
        /\ Verdict(r, store) = OK
    BY <2>1, HandlerVerdictType DEF Verdict, ??
  <2>4. g \in Guids
    BY <2>1, <2>2, EditTyped
  <2>5. resp' = ToProto(r, g, Effect(r, g, store))
    BY <2>2, <2>3 DEF ToProto, Deletes
  <2>6. r.rpc \in Creates => store[g] = Absent
    BY <2>2 DEF Fresh
  <2>7. r.rpc \notin Deletes => edits' = [NoEdit EXCEPT ![g] = 1]
    BY <2>2, <2>3, <2>4 DEF NoEdit
  <2>8. EditInHand'
    BY <2>1, <2>2, <2>3, <2>4, <2>5, <2>6, <2>7
  <2> QED  BY <2>1, <2>8
<1>6. CASE JournalPending
  <2> DEFINE r == Req[cur]
  <2>1. /\ cur \in Ids /\ pc = "pending" /\ pc' = "commit"
        /\ phase' = phase /\ phase = "serving" /\ cur' = cur /\ pending' = [pending EXCEPT ![cur] = resp]
        /\ UNCHANGED <<intents, applied, open, bookVars, history, target, resp, result>>
    BY <1>6 DEF JournalPending, RecordPending, Goto
  <2>2. r.rpc \notin Updates => ~WasApplied(r, resp, store)
    <3>1. r \in Request
      BY <2>1, RequestAssumption
    <3>2. r.rpc \notin Creates => Lives(store, target, KindOf(r.rpc))
      BY <2>1, <3>1, LateVerdictLives DEF Verdict, ??, OK
    <3> QED  BY <2>1, <3>1, <3>2, NotRecognisedBefore
  <2>3. PendingIsExact'
    BY <2>1, <2>2
  <2> QED  BY <2>1, <2>3
<1>7. CASE CommitEdit
  <2> DEFINE r == Req[cur]
  <2>1. /\ cur \in Ids /\ pc = "commit" /\ pc' = "outcome" /\ r \in Request
        /\ phase' = phase /\ phase = "serving" /\ cur' = cur /\ open' = open /\ result' = Ok(resp)
        /\ UNCHANGED <<journalVars, replies, target, resp>>
    BY <1>7, RequestAssumption DEF CommitEdit, Goto
  <2>2. target \in Guids /\ CommitLevel = 1
    BY <2>1 DEF CommitLevel, NoEdit
  <2>3. edits' = NoEdit
    <3>1. edits' = [edits EXCEPT ![target] = 0]
      BY <1>7, <2>2 DEF CommitEdit
    <3> QED  BY <2>1, <2>2, <3>1 DEF NoEdit
  <2>4. /\ mem' = Effect(r, target, store)
        /\ store' = [store EXCEPT ![target] = mem'[target]]
        /\ effects' = [effects EXCEPT ![cur] = 1]
    BY <1>7, <2>1, <2>2 DEF CommitEdit
  <2>5. store' = mem'
    <3>1. Effect(r, target, store) = [store EXCEPT ![target] = Effect(r, target, store)[target]]
      BY <2>1, <2>2, EffectLocal
    <3> QED  BY <2>4, <3>1
  <2>6. WasApplied(r, resp, store')
    <3>1. r.rpc \notin Creates => Lives(store, target, KindOf(r.rpc))
      BY <2>1, LateVerdictLives DEF Verdict, ??, OK
    <3>2. WasApplied(r, ToProto(r, target, Effect(r, target, store)), Effect(r, target, store))
      BY <2>1, <2>2, <3>1, EffectRecognised
    <3> QED  BY <2>1, <2>4, <2>5, <3>2
  <2>7. PendingIsExact'
    <3> SUFFICES ASSUME NEW m \in Ids, applied'[m] = Null
                 PROVE  IF pending'[m] = Null THEN effects'[m] = 0
                        ELSE /\ phase' = "serving" => cur' = m /\ pc' \in {"commit", "outcome"}
                             /\ effects'[m] \in {0, 1}
                             /\ effects'[m] = 1 => WasApplied(Req[m], pending'[m], store')
                             /\ effects'[m] = 0 /\ Req[m].rpc \notin Updates =>
                                    ~WasApplied(Req[m], pending'[m], store')
      OBVIOUS
    <3>1. CASE m = cur
      <4>1. pending'[m] = resp /\ resp # Null /\ effects'[m] = 1
        BY <2>1, <2>4, <3>1, NullAssumption
      <4> QED  BY <2>1, <2>6, <3>1, <4>1
    <3>2. CASE m # cur
      <4>1. pending[m] = Null /\ effects'[m] = effects[m] /\ effects[m] = 0
        BY <2>1, <2>4, <3>2
      <4> QED  BY <2>1, <4>1
    <3> QED  BY <3>1, <3>2
  <2>8. CallInHand' /\ EditInHand' /\ OutcomeInHand'
    BY <2>1, <2>3, <2>4, <2>5
  <2>9. OutcomeMatchesBook' /\ RepliesAreRecorded' /\ AtMostOnce'
    BY <2>1, <2>4
  <2> QED  BY <2>7, <2>8, <2>9
<1>8. CASE JournalOutcome
  <2>1. /\ pc = "outcome" /\ pc' = "respond" /\ cur' = cur /\ cur \in Ids
        /\ result' = result /\ applied' = [applied EXCEPT ![cur] = result]
        /\ UNCHANGED <<intents, pending, phase, open, bookVars, history, target, resp>>
    BY <1>8 DEF JournalOutcome, RecordOutcome, CanRecordOutcome, Finish, Goto
  <2>2. result.ok /\ result \in Outcome
    <3>1. result = Ok(resp)
      BY <2>1
    <3>2. \A x \in Response : Ok(x).ok /\ Ok(x) \in Outcome
      BY DEF Ok, Outcome, OK
    <3> QED  BY <3>1, <3>2
  <2>3. OutcomeMatchesBook'
    BY <2>1, <2>2
  <2> QED  BY <1>n, <2>1, <2>2, <2>3
<1>9. CASE JournalVerdict
  <2>1. /\ pc = "verdict" /\ pc' = "respond" /\ cur' = cur /\ cur \in Ids
        /\ result' = result /\ applied' = [applied EXCEPT ![cur] = result]
        /\ UNCHANGED <<intents, pending, phase, open, bookVars, history, target, resp>>
    BY <1>9 DEF JournalVerdict, RecordOutcome, CanRecordOutcome, Finish, Goto
  <2>2. OutcomeMatchesBook'
    BY <2>1 DEF Failed
  <2> QED  BY <1>n, <2>1, <2>2
<1>10. CASE Respond
  BY <1>10 DEF Respond
<1>11. CASE JournalFails
  <2>1. pc \in {"intent", "lookup", "verdict"}
    BY <1>11, FaultAssumption DEF JournalFails, FaultsLeaveNoTrace
  <2> QED  BY <1>11, <2>1, <1>f, <1>e DEF JournalFails
<1>12. CASE EngineCommitFails
  BY <1>12 DEF EngineCommitFails, FaultsLeaveNoTrace
<1>13. CASE OpenBook
  BY <1>13 DEF OpenBook, Idle
<1>14. CASE CloseBook
  BY <1>14 DEF CloseBook, CloseSession, Save, Idle
<1>15. CASE Shutdown
  BY <1>15 DEF Shutdown, CloseSession, Save, Idle
<1>16. CASE Crash
  BY <1>16 DEF Crash
<1>17. CASE Start
  BY <1>17 DEF Start
<1>18. ASSUME NEW m \in Ids, ReconcileApplied(m) \/ ReconcileDropped(m) PROVE Parts'
  <2>0. m \in Ids /\ applied[m] = Null /\ pending[m] # Null /\ phase = "starting" /\ mem = store
        /\ pc = "idle"
    BY <1>18 DEF ReconcileApplied, ReconcileDropped, ListPendingUnresolved, ListIndeterminate
  <2>1. CASE ReconcileApplied(m)
    <3>1. /\ WasApplied(Req[m], pending[m], store)
          /\ applied' = [applied EXCEPT ![m] = Ok(pending[m])]
          /\ UNCHANGED <<intents, pending, phase, open, bookVars, callVars, history>>
      BY <2>0, <2>1 DEF ReconcileApplied, RecordOutcome, CanRecordOutcome
    <3>2. Ok(pending[m]).ok /\ Ok(pending[m]) \in Outcome
      BY <2>0 DEF Ok, Outcome, OK
    <3>3. OutcomeMatchesBook'
      <4>1. applied'[m].ok /\ (Req[m].rpc \notin Updates => effects'[m] = 1)
        BY <2>0, <3>1, <3>2
      <4> QED  BY <2>0, <3>1, <4>1
    <3> QED  BY <1>n, <2>0, <3>1, <3>2, <3>3
  <2>2. CASE ReconcileDropped(m)
    <3>1. /\ ~WasApplied(Req[m], pending[m], store)
          /\ pending' = [pending EXCEPT ![m] = Null]
          /\ UNCHANGED <<intents, applied, phase, open, bookVars, callVars, history>>
      BY <2>0, <2>2 DEF ReconcileDropped, ClearPending
    <3> QED  BY <2>0, <3>1
  <2> QED  BY <1>18, <2>1, <2>2
<1>19. CASE Serve
  BY <1>19 DEF Serve, ListPendingUnresolved, ListIndeterminate
<1>20. CASE UNCHANGED vars
  BY <1>20 DEF vars
<1> QED
  BY <1>1, <1>2, <1>3, <1>4, <1>5, <1>6, <1>7, <1>8, <1>9, <1>10, <1>11, <1>12, <1>13,
     <1>14, <1>15, <1>16, <1>17, <1>18, <1>19, <1>20
  DEF Next, RunMutation, Startup

(***************************************************************************)
(* Every reachable state satisfies the protocol's invariant, provided the  *)
(* only journal calls that fail are the ones before any engine edit or     *)
(* after a refused request.                                                *)
(***************************************************************************)
THEOREM ProtocolInvariant == FaultsLeaveNoTrace => (Spec => []ProtocolInv)
<1> SUFFICES ASSUME FaultsLeaveNoTrace PROVE Spec => []ProtocolInv
  OBVIOUS
<1>1. ProtocolInv /\ [Next]_vars => ProtocolInv'
  BY ProtocolInvStep
<1> QED  BY <1>1, ProtocolInvInit, PTL DEF Spec

(***************************************************************************)
(* The double-post defense: no retry, duplicate or crash makes the edit of *)
(* a mutation id durable a second time.                                    *)
(***************************************************************************)
THEOREM NoDoublePost == FaultsLeaveNoTrace => (Spec => []AtMostOnce)
<1>1. ProtocolInv => AtMostOnce
  BY DEF ProtocolInv
<1> QED  BY <1>1, ProtocolInvariant, PTL

(***************************************************************************)
(* A mutation that ListIndeterminateMutations reports is unapplied.        *)
(***************************************************************************)
THEOREM IndeterminateMeansUnapplied ==
    FaultsLeaveNoTrace => (Spec => []IndeterminateUnapplied)
<1>1. ProtocolInv => IndeterminateUnapplied
  BY DEF ProtocolInv, PendingIsExact, TypeOK, IndeterminateUnapplied, Idle, ListIndeterminate
<1> QED  BY <1>1, ProtocolInvariant, PTL

(***************************************************************************)
(* A decisive reply stays the recorded outcome of its id for ever.         *)
(***************************************************************************)
THEOREM RepliesAreForGood == FaultsLeaveNoTrace => (Spec => []RepliesAreRecorded)
<1>1. ProtocolInv => RepliesAreRecorded
  BY DEF ProtocolInv
<1> QED  BY <1>1, ProtocolInvariant, PTL

(***************************************************************************)
(* Recorded outcomes tell the truth about the durable book.                *)
(***************************************************************************)
THEOREM OutcomesAreTrue == FaultsLeaveNoTrace => (Spec => []OutcomeMatchesBook)
<1>1. ProtocolInv => OutcomeMatchesBook
  BY DEF ProtocolInv
<1> QED  BY <1>1, ProtocolInvariant, PTL

(***************************************************************************)
(* Reads between two mutations see exactly the durable book.               *)
(***************************************************************************)
THEOREM ReadsSeeTheStore == FaultsLeaveNoTrace => (Spec => []NoPartialApplication)
<1>1. ProtocolInv => NoPartialApplication
  BY DEF ProtocolInv, EditInHand, NoPartialApplication, Idle
<1> QED  BY <1>1, ProtocolInvariant, PTL

(***************************************************************************)
(* RecordOutcome never meets a row that is already there.                  *)
(***************************************************************************)
THEOREM OutcomeRecordedOnce == FaultsLeaveNoTrace => (Spec => []NoDoubleOutcome)
<1>1. ProtocolInv => NoDoubleOutcome
  BY DEF ProtocolInv, OutcomeInHand, NoDoubleOutcome, CanRecordOutcome
<1> QED  BY <1>1, ProtocolInvariant, PTL

(***************************************************************************)
(* The durable book changes only behind a journaled intent and a journaled *)
(* response.                                                               *)
(***************************************************************************)
THEOREM WriteAheadHolds == FaultsLeaveNoTrace => (Spec => WriteAhead)
<1> SUFFICES ASSUME FaultsLeaveNoTrace PROVE Spec => WriteAhead
  OBVIOUS
<1> DEFINE A == store' # store => /\ cur \in intents /\ applied[cur] = Null
                                  /\ pending[cur] = resp
<1>1. ProtocolInv /\ [Next]_vars => [A]_vars
  <2> SUFFICES ASSUME ProtocolInv, Next, store' # store PROVE pc = "commit"
    BY DEF ProtocolInv, CallInHand, OutcomeInHand
  <2> USE DEF bookVars
  <2>1. ~CloseBook /\ ~Shutdown
    BY DEF CloseBook, Shutdown, CloseSession, Save, Idle, ProtocolInv, EditInHand
  <2>2. ~\E m \in Ids : ReconcileApplied(m) \/ ReconcileDropped(m)
    BY DEF ReconcileApplied, ReconcileDropped
  <2> QED
    BY <2>1, <2>2
    DEF Next, RunMutation, Startup, StartMutation, JournalIntent, LookupOutcome, ApplyThrows,
        ApplyEdits, JournalPending, CommitEdit, JournalOutcome, JournalVerdict, Respond,
        JournalFails, EngineCommitFails, OpenBook, Crash, Start, Serve
<1>2. Spec => []ProtocolInv
  BY ProtocolInvariant
<1> QED  BY <1>1, <1>2, PTL DEF Spec, WriteAhead

(***************************************************************************)
(* The durable book stays a tree of accounts below the root with only live *)
(* references, whatever requests arrive, interleave, crash and are         *)
(* recovered.  It changes only when a commit makes the edit of a request   *)
(* durable that the same book accepted (EditInHand); a save at close       *)
(* writes back what is already stored.                                     *)
(***************************************************************************)
THEOREM BookStaysATree == FaultsLeaveNoTrace => (Spec => []BookStaysSound)
<1> SUFFICES ASSUME FaultsLeaveNoTrace PROVE Spec => []BookStaysSound
  OBVIOUS
<1>1. Init => BookStaysSound
  BY InitBookAssumption DEF Init, BookStaysSound
<1>2. ProtocolInv /\ BookStaysSound /\ [Next]_vars => BookStaysSound'
  <2> SUFFICES ASSUME ProtocolInv, BookSound(store), [Next]_vars, store' # store
               PROVE  BookSound(store')
    BY DEF BookStaysSound
  <2> USE DEF bookVars
  <2>1. CommitEdit
    <3>1. ~CloseBook /\ ~Shutdown
      BY DEF CloseBook, Shutdown, CloseSession, Save, Idle, ProtocolInv, EditInHand
    <3>2. ~\E m \in Ids : ReconcileApplied(m) \/ ReconcileDropped(m)
      BY DEF ReconcileApplied, ReconcileDropped
    <3> QED
      BY <3>1, <3>2
      DEF Next, RunMutation, Startup, StartMutation, JournalIntent, LookupOutcome, ApplyThrows,
          ApplyEdits, JournalPending, JournalOutcome, JournalVerdict, Respond, JournalFails,
          EngineCommitFails, OpenBook, Crash, Start, Serve, vars
  <2>2. PICK r : r = Req[cur]
    OBVIOUS
  <2>3. /\ cur \in Ids /\ r \in Request /\ WellFormed(r) /\ target \in Guids /\ store \in Book
        /\ Verdict(r, store) = OK
        /\ r.rpc \in Creates => store[target] = Absent
        /\ r.rpc \notin Creates => target = r.guid
    BY <2>1, <2>2, RequestAssumption
    DEF CommitEdit, ProtocolInv, CallInHand, EditInHand, TypeOK
  <2>4. mem' = Effect(r, target, store) /\ store' = [store EXCEPT ![target] = mem'[target]]
    BY <2>1, <2>2 DEF CommitEdit, ProtocolInv, CallInHand, EditInHand
  <2>5. store' = Effect(r, target, store)
    BY <2>3, <2>4, EffectLocal
  <2>6. LateVerdict(r, store) = OK
    BY <2>3 DEF Verdict, ??, OK
  <2> QED  BY <2>3, <2>5, <2>6, EffectSound
<1>3. Spec => []ProtocolInv
  BY ProtocolInvariant
<1> QED  BY <1>1, <1>2, <1>3, PTL DEF Spec
=============================================================================
