------------------------- MODULE MutationRefinement -------------------------
(***************************************************************************)
(* The mutation protocol, with its journal, its crashes and its startup    *)
(* reconciliation, implements AtomicMutations.                             *)
(***************************************************************************)
EXTENDS MutationProofs

(***************************************************************************)
(* An update that recovery already recognises in the book would change     *)
(* nothing: resolving it as applied is as good as applying it.             *)
(***************************************************************************)
LEMMA RecognisedUpdateIsNoOp ==
    ASSUME NEW r \in Request, NEW g \in Guids, NEW b \in Book,
           r.rpc \in Updates, Lives(b, g, KindOf(r.rpc)),
           WasApplied(r, ToProto(r, g, Effect(r, g, b)), b)
    PROVE  Effect(r, g, b) = b
<1> DEFINE a == Effect(r, g, b)
<1>1. b[g] \in Entity
  BY DEF Lives, Book
<1>2. ToProto(r, g, a).guid = g
  BY DEF ToProto, Updates, Deletes
<1>3. ToProto(r, g, b) = ToProto(r, g, a)
  BY <1>2 DEF WasApplied, Updates, Creates, Deletes
<1>4. CASE r.rpc = "SetReconcileInfo"
  <2>1. a = [b EXCEPT ![g] = [b[g] EXCEPT !.recon = r.data]]
    BY <1>4 DEF Effect, Creates, Deletes
  <2>2. a[g].recon = r.data
    BY <1>1, <2>1 DEF Book, Entity
  <2>3. ToProto(r, g, b).data = b[g].recon /\ ToProto(r, g, a).data = a[g].recon
    BY <1>4 DEF ToProto, Deletes
  <2>4. [b[g] EXCEPT !.recon = r.data] = b[g]
    BY <1>1, <1>3, <2>2, <2>3 DEF Entity
  <2> QED  BY <2>1, <2>4 DEF Book
<1>5. CASE r.rpc # "SetReconcileInfo"
  <2>1. a = [b EXCEPT ![g] = [b[g] EXCEPT !.refs = r.refs, !.data = r.data]]
    BY <1>5 DEF Effect, Creates, Deletes, Updates
  <2>2. a[g].refs = r.refs /\ a[g].data = r.data
    BY <1>1, <2>1 DEF Book, Entity
  <2>3. /\ ToProto(r, g, b).data = b[g].data /\ ToProto(r, g, a).data = a[g].data
        /\ ToProto(r, g, b).refs = b[g].refs /\ ToProto(r, g, a).refs = a[g].refs
    BY <1>5 DEF ToProto, Deletes, Updates
  <2>4. [b[g] EXCEPT !.refs = r.refs, !.data = r.data] = b[g]
    BY <1>1, <1>3, <2>2, <2>3 DEF Entity
  <2> QED  BY <2>1, <2>4 DEF Book
<1> QED  BY <1>4, <1>5

\* The step that makes an edit durable, or finds that it already is, decides.
LEMMA DecideByApplying ==
    ASSUME NEW m \in Ids, NEW g \in Guids,
           Verdict(Req[m], store) = OK,
           Req[m].rpc \in Creates => store[g] = Absent,
           Req[m].rpc \notin Creates => g = Req[m].guid,
           store' = Effect(Req[m], g, store),
           AbstractOutcome[m] = Null,
           AbstractOutcome' = [AbstractOutcome EXCEPT ![m] = Ok(ToProto(Req[m], g, store'))]
    PROVE  Atomic!AtomicNext
<1>1. Atomic!Apply(m)
  BY DEF Atomic!Apply, Atomic!Decide, Atomic!Applied, Ok
<1> QED  BY <1>1 DEF Atomic!AtomicNext

\* What is known of the call in hand while its edit is open.
LEMMA OpenEdit ==
    ASSUME ProtocolInv, pc \in {"pending", "commit"}
    PROVE  /\ cur \in Ids /\ Req[cur] \in Request /\ target \in Guids /\ store \in Book
           /\ Req[cur].rpc \notin Creates => Lives(store, target, KindOf(Req[cur].rpc))
           /\ resp # Null
           /\ \A m \in Ids \ {cur} : applied[m] = Null => pending[m] = Null
<1>1. cur \in Ids /\ Req[cur] \in Request /\ target \in Guids /\ store \in Book
  BY RequestAssumption DEF ProtocolInv, CallInHand, EditInHand, TypeOK
<1>2. Req[cur].rpc \notin Creates => Lives(store, target, KindOf(Req[cur].rpc))
  BY <1>1, LateVerdictLives DEF ProtocolInv, EditInHand, Verdict, ??, OK
<1>3. resp # Null
  BY NullAssumption DEF ProtocolInv, TypeOK
<1>4. \A m \in Ids \ {cur} : applied[m] = Null => pending[m] = Null
  BY DEF ProtocolInv, PendingIsExact, CallInHand
<1> QED  BY <1>1, <1>2, <1>3, <1>4

\* A recorded success is never mistaken for an id that is still undecided.
LEMMA OkIsNotNull ==
    ASSUME NEW x \in Response
    PROVE  Ok(x) # Null
<1>1. Ok(x) \in Outcome
  BY DEF Ok, Outcome, OK
<1>2. Null \notin Outcome
  BY NullAssumption DEF Outcome
<1> QED  BY <1>1, <1>2

\* A step that leaves the journal and the store alone is invisible.
LEMMA Invisible ==
    ASSUME UNCHANGED <<journalVars, store>>
    PROVE  UNCHANGED <<store, AbstractOutcome>>
  BY DEF journalVars, AbstractOutcome

LEMMA StepSimulation ==
    ASSUME FaultsLeaveNoTrace, ProtocolInv, ProtocolInv', [Next]_vars
    PROVE  [Atomic!AtomicNext]_<<store, AbstractOutcome>>
<1> DEFINE Goal == [Atomic!AtomicNext]_<<store, AbstractOutcome>>
<1>t. TypeOK
  BY DEF ProtocolInv
<1>1. CASE JournalIntent
  <2>1. UNCHANGED <<pending, applied, store>>
    BY <1>1 DEF JournalIntent, RecordIntent, bookVars
  <2> QED  BY <2>1 DEF AbstractOutcome
<1>2. CASE JournalPending
  <2> DEFINE r == Req[cur]
  <2>1. /\ pc = "pending" /\ store' = store /\ applied' = applied
        /\ pending' = [pending EXCEPT ![cur] = resp]
    BY <1>2 DEF JournalPending, RecordPending, bookVars
  <2>2. /\ applied[cur] = Null /\ pending[cur] = Null
    BY <2>1, OpenEdit DEF ProtocolInv, OutcomeInHand, PendingIsExact, CallInHand
  <2>3. /\ AbstractOutcome[cur] = Null
        /\ \A m \in Ids \ {cur} : AbstractOutcome'[m] = AbstractOutcome[m]
        /\ AbstractOutcome'[cur] = IF WasApplied(r, resp, store) THEN Ok(resp) ELSE Null
    BY <1>t, <2>1, <2>2, OpenEdit DEF AbstractOutcome, TypeOK
  <2>4. CASE ~WasApplied(r, resp, store)
    BY <2>1, <2>3, <2>4 DEF AbstractOutcome
  <2>5. CASE WasApplied(r, resp, store)
    <3>1. r.rpc \in Updates
      BY <2>1, <2>5, OpenEdit, NotRecognisedBefore DEF ProtocolInv, EditInHand
    <3>2. resp = ToProto(r, target, Effect(r, target, store))
      BY <2>1 DEF ProtocolInv, EditInHand
    <3>3. Effect(r, target, store) = store
      BY <2>1, <2>5, <3>1, <3>2, OpenEdit, RecognisedUpdateIsNoOp DEF Creates, Updates
    <3>4. AbstractOutcome' = [AbstractOutcome EXCEPT ![cur] = Ok(ToProto(r, target, store'))]
      BY <2>1, <2>3, <2>5, <3>2, <3>3 DEF AbstractOutcome
    <3>5. Verdict(r, store) = OK /\ target = r.guid /\ r.rpc \notin Creates
      BY <2>1, <3>1 DEF ProtocolInv, EditInHand, Creates, Updates
    <3> QED  BY <2>1, <2>3, <3>3, <3>4, <3>5, OpenEdit, DecideByApplying
  <2> QED  BY <2>4, <2>5
<1>3. CASE CommitEdit
  <2> DEFINE r == Req[cur]
  <2>1. pc = "commit" /\ UNCHANGED journalVars
    BY <1>3 DEF CommitEdit
  <2>2. applied[cur] = Null /\ pending[cur] = resp
    BY <2>1 DEF ProtocolInv, OutcomeInHand
  <2>3. resp = ToProto(r, target, Effect(r, target, store))
    BY <2>1 DEF ProtocolInv, EditInHand
  <2>4. store' = Effect(r, target, store)
    <3>1. CommitLevel = 1
      BY <2>1, OpenEdit DEF ProtocolInv, EditInHand, CommitLevel, NoEdit
    <3>2. store' = [store EXCEPT ![target] = Effect(r, target, store)[target]]
      BY <1>3, <2>1, <3>1 DEF CommitEdit, ProtocolInv, EditInHand
    <3>3. Effect(r, target, store) = [store EXCEPT ![target] = Effect(r, target, store)[target]]
      BY <2>1, OpenEdit, EffectLocal
    <3> QED  BY <3>2, <3>3
  <2>5. WasApplied(r, resp, store')
    BY <2>1, <2>3, <2>4, OpenEdit, EffectRecognised DEF ProtocolInv, EditInHand
  <2>6. /\ \A m \in Ids \ {cur} : AbstractOutcome'[m] = AbstractOutcome[m]
        /\ AbstractOutcome'[cur] = Ok(resp)
        /\ AbstractOutcome[cur] = IF WasApplied(r, resp, store) THEN Ok(resp) ELSE Null
    BY <2>1, <2>2, <2>5, OpenEdit DEF AbstractOutcome, journalVars
  <2>7. CASE WasApplied(r, resp, store)
    <3>1. r.rpc \in Updates
      BY <2>1, <2>3, <2>7, OpenEdit, NotRecognisedBefore DEF ProtocolInv, EditInHand
    <3>2. store' = store
      BY <2>1, <2>3, <2>4, <2>7, <3>1, OpenEdit, RecognisedUpdateIsNoOp DEF Creates, Updates
    <3> QED  BY <2>6, <2>7, <3>2 DEF AbstractOutcome
  <2>8. CASE ~WasApplied(r, resp, store)
    <3>1. AbstractOutcome' = [AbstractOutcome EXCEPT ![cur] = Ok(ToProto(r, target, store'))]
      BY <2>3, <2>4, <2>6 DEF AbstractOutcome
    <3>2. /\ Verdict(r, store) = OK
          /\ r.rpc \in Creates => store[target] = Absent
          /\ r.rpc \notin Creates => target = r.guid
      BY <2>1 DEF ProtocolInv, EditInHand
    <3> QED  BY <2>1, <2>4, <2>6, <2>8, <3>1, <3>2, OpenEdit, DecideByApplying
  <2> QED  BY <2>7, <2>8
<1>4. CASE JournalOutcome
  <2>1. /\ pc = "outcome" /\ cur \in Ids /\ applied[cur] = Null /\ result = Ok(resp)
        /\ pending[cur] = resp /\ effects[cur] = 1
        /\ applied' = [applied EXCEPT ![cur] = result]
        /\ UNCHANGED <<pending, store>>
    BY <1>4 DEF JournalOutcome, RecordOutcome, CanRecordOutcome, bookVars, ProtocolInv,
                OutcomeInHand, CallInHand
  <2>2. pending[cur] # Null
    BY <2>1 DEF ProtocolInv, PendingIsExact
  <2>3. resp \in Response
    BY <1>t, <2>1, <2>2 DEF TypeOK
  <2>4. result # Null
    BY <2>1, <2>3, OkIsNotNull
  <2>5. WasApplied(Req[cur], pending[cur], store)
    BY <2>1, <2>2 DEF ProtocolInv, PendingIsExact
  <2>6. AbstractOutcome' = AbstractOutcome
    BY <1>t, <2>1, <2>2, <2>4, <2>5 DEF AbstractOutcome, TypeOK
  <2> QED  BY <2>1, <2>6
<1>5. CASE JournalVerdict
  <2>1. /\ pc = "verdict" /\ cur \in Ids /\ applied[cur] = Null /\ result \in Outcome
        /\ result = Failed(Verdict(Req[cur], store)) /\ Verdict(Req[cur], store) # OK
        /\ applied' = [applied EXCEPT ![cur] = result]
        /\ UNCHANGED <<pending, store>>
    BY <1>5 DEF JournalVerdict, RecordOutcome, CanRecordOutcome, bookVars, ProtocolInv,
                OutcomeInHand, CallInHand
  <2>2. pending[cur] = Null /\ result # Null
    BY <2>1, NullAssumption DEF ProtocolInv, PendingIsExact, CallInHand, Outcome
  <2>3. /\ AbstractOutcome[cur] = Null
        /\ AbstractOutcome' = [AbstractOutcome EXCEPT ![cur] = result]
    BY <1>t, <2>1, <2>2 DEF AbstractOutcome, TypeOK
  <2>4. Atomic!Reject(cur)
    BY <2>1, <2>3 DEF Atomic!Reject, Atomic!Decide, Atomic!Refused, Failed
  <2> QED  BY <2>1, <2>4 DEF Atomic!AtomicNext
<1>6. CASE CloseBook \/ Shutdown
  <2>1. UNCHANGED <<journalVars, store>>
    BY <1>6 DEF CloseBook, Shutdown, CloseSession, Save, Idle, ProtocolInv, EditInHand
  <2> QED  BY <2>1, Invisible
<1>7. ASSUME NEW m \in Ids, ReconcileApplied(m) \/ ReconcileDropped(m) PROVE Goal
  <2>0. /\ applied[m] = Null /\ pending[m] # Null /\ mem = store /\ UNCHANGED store
    BY <1>7 DEF ReconcileApplied, ReconcileDropped, ListPendingUnresolved, ListIndeterminate,
                bookVars, ProtocolInv, CallInHand, EditInHand
  <2>1. CASE ReconcileApplied(m)
    <3>1. /\ WasApplied(Req[m], pending[m], store)
          /\ applied' = [applied EXCEPT ![m] = Ok(pending[m])] /\ UNCHANGED pending
      BY <2>0, <2>1 DEF ReconcileApplied, RecordOutcome, CanRecordOutcome
    <3>2. Ok(pending[m]) # Null
      BY <1>t, <2>0, OkIsNotNull DEF TypeOK
    <3>3. AbstractOutcome' = AbstractOutcome
      BY <1>t, <2>0, <3>1, <3>2 DEF AbstractOutcome, TypeOK
    <3> QED  BY <2>0, <3>3
  <2>2. CASE ReconcileDropped(m)
    <3>1. /\ ~WasApplied(Req[m], pending[m], store)
          /\ pending' = [pending EXCEPT ![m] = Null] /\ UNCHANGED applied
      BY <2>0, <2>2 DEF ReconcileDropped, ClearPending
    <3>2. AbstractOutcome' = AbstractOutcome
      BY <1>t, <2>0, <3>1 DEF AbstractOutcome, TypeOK
    <3> QED  BY <2>0, <3>2
  <2> QED  BY <1>7, <2>1, <2>2
<1>8. CASE \/ LookupOutcome \/ ApplyThrows \/ ApplyEdits \/ Respond \/ JournalFails
           \/ EngineCommitFails \/ OpenBook \/ Crash \/ Start \/ Serve \/ UNCHANGED vars
           \/ \E m \in Ids : StartMutation(m)
  <2>1. UNCHANGED <<journalVars, store>>
    BY <1>8
    DEF bookVars, vars, StartMutation, LookupOutcome, ApplyThrows, ApplyEdits, Respond,
        JournalFails, EngineCommitFails, OpenBook, Crash, Start, Serve
  <2> QED  BY <2>1, Invisible
<1> QED
  BY <1>1, <1>2, <1>3, <1>4, <1>5, <1>6, <1>7, <1>8 DEF Next, RunMutation, Startup

(***************************************************************************)
(* Journal, engine, crashes and reconciliation together implement the      *)
(* atomic specification: every id is decided in one step, for good.        *)
(***************************************************************************)
THEOREM ProtocolImplementsAtomic == FaultsLeaveNoTrace => (Spec => ImplementsAtomic)
<1> SUFFICES ASSUME FaultsLeaveNoTrace PROVE Spec => Atomic!AtomicSpec
  BY DEF ImplementsAtomic
<1>1. Init => Atomic!AtomicInit
  BY DEF Init, JournalInit, AbstractOutcome, Atomic!AtomicInit
<1>2. ProtocolInv /\ ProtocolInv' /\ [Next]_vars => [Atomic!AtomicNext]_<<store, AbstractOutcome>>
  BY StepSimulation
<1>3. Spec => []ProtocolInv
  BY ProtocolInvariant
<1> QED  BY <1>1, <1>2, <1>3, PTL DEF Spec, Atomic!AtomicSpec
=============================================================================
