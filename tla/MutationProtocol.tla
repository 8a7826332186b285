-------------------------- MODULE MutationProtocol --------------------------
(***************************************************************************)
(* The mutation protocol of daichod: RunMutation (src/rpc/mutation.h) as   *)
(* the engine thread executes it, one journal or engine call per step,     *)
(* against the sidecar journal, the in-memory book of the open session and *)
(* the book in its SQL backend; crashes between any two steps; and the     *)
(* startup reconciliation that follows (src/journal/recovery.cpp).         *)
(*                                                                         *)
(* The engine thread serves one call at a time (module Worker), and any    *)
(* client may send any id at any time, again and again, so the engine's    *)
(* next call is an arbitrary id: that covers retries after a lost reply,   *)
(* concurrent duplicates waiting in the queue, and reorderings of clients. *)
(*                                                                         *)
(* Durable: the journal and store.  Lost in a crash: everything else.      *)
(***************************************************************************)
EXTENDS Journal, BookOps

CONSTANTS
    Req,         \* the request each mutation id stands for
    Malformed,   \* the ids that are no UUID
    InitBook,    \* the book the daemon is pointed at
    FaultSteps,  \* the steps whose journal or engine call may fail
    MaxCrashes,  \* bound: crashes in a behaviour
    MaxFaults,   \* bound: failing journal or engine calls
    MaxCloses    \* bound: CloseBook calls and clean shutdowns

ASSUME RequestAssumption ==
    /\ Req \in [Ids -> Request]
    /\ \A m \in Ids : WellFormed(Req[m])
    /\ Malformed \subseteq Ids

ASSUME InitBookAssumption == InitBook \in Book /\ BookSound(InitBook)

ASSUME NullAssumption ==
    /\ Null \notin Ids
    /\ Null \notin Response
    /\ Null \notin [ok : BOOLEAN, response : Response, code : ErrorCode \cup {OK}]

ASSUME FaultAssumption ==
    FaultSteps \subseteq {"intent", "lookup", "pending", "commit", "outcome", "verdict"}

ASSUME BoundAssumption == MaxCrashes \in Nat /\ MaxFaults \in Nat /\ MaxCloses \in Nat

VARIABLES
    phase,    \* "down", "starting" (book loaded, reconciling) or "serving"
    open,     \* Session::session_ is not null
    store,    \* the book as the SQL backend holds it
    mem,      \* the book as the open session holds it in memory
    edits,    \* per entity, the engine's edit nesting level
    cur,      \* the id the engine thread is working on, or Null
    pc,       \* the step of RunMutation it is about to execute
    target,   \* the entity the current edit is about
    resp,     \* the response built so far
    result,   \* the outcome about to be recorded or returned
    effects,  \* history: per id, the number of its edits that became durable
    replies,  \* history: per id, the decisive replies sent to clients
    crashes, faults, closes   \* counters for the bounds

bookVars == <<store, mem, edits>>
callVars == <<cur, pc, target, resp, result>>
history  == <<effects, replies>>
counters == <<crashes, faults, closes>>
vars == <<journalVars, phase, open, bookVars, callVars, history, counters>>

Step == {"idle", "intent", "lookup", "apply", "pending", "commit", "outcome",
         "verdict", "respond"}

Outcome == [ok : BOOLEAN, response : Response, code : ErrorCode \cup {OK}]

Ok(response) == [ok |-> TRUE, response |-> response, code |-> OK]
Failed(code) == [ok |-> FALSE, response |-> Empty, code |-> code]

Closed == [g \in Guids |-> Absent]   \* no book in memory
NoEdit == [g \in Guids |-> 0]

Init ==
    /\ JournalInit
    /\ phase = "down" /\ open = FALSE
    /\ store = InitBook /\ mem = Closed /\ edits = NoEdit
    /\ cur = Null /\ pc = "idle" /\ target = NoGuid /\ resp = Empty
    /\ result = Null
    /\ effects = [m \in Ids |-> 0] /\ replies = [m \in Ids |-> {}]
    /\ crashes = 0 /\ faults = 0 /\ closes = 0

Idle == phase = "serving" /\ pc = "idle"

\* The call in hand goes on with step s.
Goto(s) == pc' = s /\ UNCHANGED <<phase, open, cur, counters>>

\* The call in hand ends in o: the reply is all that is left to do.
Finish(o) == Goto("respond") /\ result' = o /\ UNCHANGED <<target, resp>>
-----------------------------------------------------------------------------
(* RunMutation                                                              *)

\* The worker hands the engine thread its next task; ValidateMutationId runs
\* before anything is journaled.
StartMutation(m) ==
    /\ Idle
    /\ cur' = m
    /\ IF m \in Malformed
       THEN pc' = "respond" /\ result' = Failed("INVALID_ARGUMENT")
       ELSE pc' = "intent" /\ result' = Null
    /\ target' = NoGuid /\ resp' = Empty
    /\ UNCHANGED <<journalVars, phase, open, bookVars, history, counters>>

JournalIntent ==
    /\ pc = "intent"
    /\ RecordIntent(cur)
    /\ Goto("lookup")
    /\ UNCHANGED <<bookVars, history, target, resp, result>>

\* Step 2: an id with an outcome is answered from the journal.
LookupOutcome ==
    /\ pc = "lookup"
    /\ \/ GetOutcome(cur) # Null /\ Finish(GetOutcome(cur))
       \/ GetOutcome(cur) = Null /\ Goto("apply") /\ UNCHANGED <<target, resp, result>>
    /\ UNCHANGED <<journalVars, bookVars, history>>

\* session_->book() throws when no book is open; early checks come before it.
HandlerVerdict(m) ==
    Req[m].early ?? (IF open THEN OK ELSE "BOOK_NOT_OPEN") ?? LateVerdict(Req[m], mem)

\* Mutant: the handler begins its edit before the checks and does not end it.
ApplyThrowsInsideEdit ==
    /\ pc = "apply"
    /\ HandlerVerdict(cur) # OK
    /\ result' = Failed(HandlerVerdict(cur))
    /\ Goto(IF IsDeterministicVerdict(HandlerVerdict(cur)) THEN "verdict" ELSE "respond")
    /\ edits' = IF Req[cur].guid \in Guids
                THEN [edits EXCEPT ![Req[cur].guid] = @ + 1] ELSE edits
    /\ UNCHANGED <<journalVars, mem, store, history, target, resp>>

\* A handler's check throws: deterministic verdicts go to the journal.
ApplyThrows ==
    /\ pc = "apply"
    /\ HandlerVerdict(cur) # OK
    /\ result' = Failed(HandlerVerdict(cur))
    /\ Goto(IF IsDeterministicVerdict(HandlerVerdict(cur)) THEN "verdict" ELSE "respond")
    /\ UNCHANGED <<journalVars, bookVars, history, target, resp>>

\* GUIDs are random: a new one occurs neither in a book nor in the journal.
Fresh == {g \in Guids : /\ InitBook[g] = Absent /\ mem[g] = Absent /\ store[g] = Absent
                        /\ \A m \in Ids : /\ pending[m] # Null => pending[m].guid # g
                                          /\ applied[m] # Null => applied[m].response.guid # g}

\* Creates and updates open the edit, set the fields and project the response
\* before record_pending; deletes only look the entity up.
ApplyEdits ==
    /\ pc = "apply"
    /\ HandlerVerdict(cur) = OK
    /\ \E g \in IF Req[cur].rpc \in Creates THEN Fresh ELSE {Req[cur].guid} :
          /\ target' = g
          /\ IF Req[cur].rpc \in Deletes
             THEN UNCHANGED <<mem, edits>>
             ELSE /\ mem' = Effect(Req[cur], g, mem)
                  /\ edits' = [edits EXCEPT ![g] = @ + 1]
          /\ resp' = ToProto(Req[cur], g, mem')
    /\ Goto("pending")
    /\ UNCHANGED <<journalVars, store, history, result>>

\* Mutant: the handler forgets to call record_pending.
NoPendingRecord ==
    /\ pc = "pending"
    /\ Goto("commit")
    /\ UNCHANGED <<journalVars, bookVars, history, target, resp, result>>

\* Step 3a: record_pending().
JournalPending ==
    /\ pc = "pending"
    /\ RecordPending(cur, resp)
    /\ Goto("commit")
    /\ UNCHANGED <<bookVars, history, target, resp, result>>

\* The nesting level at which the call in hand commits: a delete begins its
\* edit only now.
CommitLevel == IF Req[cur].rpc \in Deletes THEN edits[target] + 1 ELSE edits[target]

\* CommitEdit, which for a delete also destroys the entity.  The engine writes
\* to the backend only when the outermost edit commits.
CommitEdit ==
    /\ pc = "commit"
    /\ edits' = [edits EXCEPT ![target] = CommitLevel - 1]
    /\ \/ /\ CommitLevel = 1
          /\ mem' = IF Req[cur].rpc \in Deletes THEN Effect(Req[cur], target, mem) ELSE mem
          /\ store' = [store EXCEPT ![target] = mem'[target]]
          /\ effects' = [effects EXCEPT ![cur] = @ + 1]
       \/ CommitLevel > 1 /\ UNCHANGED <<mem, store, effects>>
    /\ result' = Ok(resp)
    /\ Goto("outcome")
    /\ UNCHANGED <<journalVars, replies, target, resp>>

\* Mutant: the response bytes are stored without their Outcome envelope.
OutcomeWithoutEnvelope ==
    /\ pc = "outcome"
    /\ RecordOutcome(cur, resp)
    /\ Finish(result)
    /\ UNCHANGED <<bookVars, history>>

\* Mutant: the client is answered and nothing is recorded.
OutcomeNotRecorded ==
    /\ pc = "outcome"
    /\ Finish(result)
    /\ UNCHANGED <<journalVars, bookVars, history>>

\* Step 4.  A duplicate row would make the INSERT throw.
JournalOutcome ==
    /\ pc = "outcome"
    /\ RecordOutcome(cur, result)
    /\ Finish(IF CanRecordOutcome(cur) THEN result ELSE Failed("ENGINE_ERROR"))
    /\ UNCHANGED <<bookVars, history>>

JournalVerdict ==
    /\ pc = "verdict"
    /\ RecordOutcome(cur, result)
    /\ Finish(IF CanRecordOutcome(cur) THEN result ELSE Failed("ENGINE_ERROR"))
    /\ UNCHANGED <<bookVars, history>>

\* A success or a deterministic verdict settles the matter for the client; any
\* other status invites a retry.
Decisive(o) == o.ok \/ IsDeterministicVerdict(o.code)

\* The future resolves and the handler answers.
Respond ==
    /\ pc = "respond"
    /\ replies' = IF Decisive(result)
                  THEN [replies EXCEPT ![cur] = @ \cup {result}] ELSE replies
    /\ cur' = Null /\ pc' = "idle" /\ target' = NoGuid /\ resp' = Empty
    /\ result' = Null
    /\ UNCHANGED <<journalVars, phase, open, bookVars, effects, counters>>

\* A journal statement throws ShimError(ENGINE_ERROR), which is environmental
\* and therefore never recorded.  Nothing undoes an edit that is already open.
JournalFails ==
    /\ pc \in FaultSteps \ {"commit"}
    /\ faults < MaxFaults /\ faults' = faults + 1
    /\ pc' = "respond" /\ result' = Failed("ENGINE_ERROR")
    /\ UNCHANGED <<journalVars, phase, open, bookVars, cur, target, resp, history,
                   crashes, closes>>

\* The backend refuses the commit and the engine rolls the edit back; the
\* engine's commit functions return nothing and the handler does not ask.
EngineCommitFails ==
    /\ pc = "commit" /\ "commit" \in FaultSteps
    /\ CommitLevel = 1
    /\ faults < MaxFaults /\ faults' = faults + 1
    /\ mem' = [mem EXCEPT ![target] = store[target]]
    /\ edits' = [edits EXCEPT ![target] = 0]
    /\ pc' = "outcome" /\ result' = Ok(resp)
    /\ UNCHANGED <<journalVars, phase, open, store, cur, target, resp, history,
                   crashes, closes>>
-----------------------------------------------------------------------------
(* Session and process lifecycle                                            *)

\* Session::Open reloads the book; no check, no reconciliation.
OpenBook ==
    /\ Idle /\ ~open
    /\ open' = TRUE /\ mem' = store
    /\ UNCHANGED <<journalVars, phase, store, edits, callVars, history, counters>>

\* Session::Close: save the whole book, which may fail, and tear down.
Save == store' = mem \/ UNCHANGED store

CloseSession ==
    /\ IF open THEN Save ELSE UNCHANGED store
    /\ open' = FALSE /\ mem' = Closed /\ edits' = NoEdit
    /\ closes < MaxCloses /\ closes' = closes + 1

CloseBook ==
    /\ Idle /\ open
    /\ CloseSession
    /\ UNCHANGED <<journalVars, phase, callVars, history, crashes, faults>>

\* SIGTERM: the server lets every handler finish, then the session closes.
Shutdown ==
    /\ Idle
    /\ CloseSession
    /\ phase' = "down"
    /\ UNCHANGED <<journalVars, callVars, history, crashes, faults>>

\* The process dies between two steps, while serving or while starting up
\* (a startup step that fails exits at once, which is no different).
Crash ==
    /\ phase # "down"
    /\ crashes < MaxCrashes /\ crashes' = crashes + 1
    /\ phase' = "down" /\ open' = FALSE /\ mem' = Closed /\ edits' = NoEdit
    /\ cur' = Null /\ pc' = "idle" /\ target' = NoGuid /\ resp' = Empty
    /\ result' = Null
    /\ UNCHANGED <<journalVars, store, history, faults, closes>>

\* main.cpp: journal and book are opened before anything is reconciled.
Start ==
    /\ phase = "down"
    /\ phase' = "starting" /\ open' = TRUE /\ mem' = store
    /\ UNCHANGED <<journalVars, store, edits, callVars, history, counters>>

\* Mutant: recovery drops the pending record although the effect is there.
ReconcileAlwaysDrops(m) ==
    /\ phase = "starting" /\ m \in ListPendingUnresolved
    /\ WasApplied(Req[m], pending[m], mem)
    /\ ClearPending(m)
    /\ UNCHANGED <<phase, open, bookVars, callVars, history, counters>>

\* ReconcilePendingMutations, one entry at a time.
ReconcileApplied(m) ==
    /\ phase = "starting" /\ m \in ListPendingUnresolved
    /\ WasApplied(Req[m], pending[m], mem)
    /\ RecordOutcome(m, Ok(pending[m]))
    /\ UNCHANGED <<phase, open, bookVars, callVars, history, counters>>

ReconcileDropped(m) ==
    /\ phase = "starting" /\ m \in ListPendingUnresolved
    /\ ~WasApplied(Req[m], pending[m], mem)
    /\ ClearPending(m)
    /\ UNCHANGED <<phase, open, bookVars, callVars, history, counters>>

Serve ==
    /\ phase = "starting" /\ ListPendingUnresolved = {}
    /\ phase' = "serving"
    /\ UNCHANGED <<journalVars, open, bookVars, callVars, history, counters>>
-----------------------------------------------------------------------------
RunMutation ==
    \/ JournalIntent \/ LookupOutcome \/ ApplyThrows \/ ApplyEdits \/ JournalPending
    \/ CommitEdit \/ JournalOutcome \/ JournalVerdict \/ Respond

Startup ==
    \/ Start \/ Serve
    \/ \E m \in Ids : ReconcileApplied(m) \/ ReconcileDropped(m)

Next ==
    \/ \E m \in Ids : StartMutation(m)
    \/ RunMutation
    \/ JournalFails \/ EngineCommitFails
    \/ OpenBook \/ CloseBook \/ Shutdown \/ Crash
    \/ Startup

Spec == Init /\ [][Next]_vars

(***************************************************************************)
(* The engine thread never stops in the middle of a task, the supervisor   *)
(* restarts a daemon that is down, somebody reopens a closed book, and a   *)
(* client keeps re-issuing an id it has no decisive answer to; the queue   *)
(* is FIFO, so its call comes up in the end.                               *)
(***************************************************************************)
Fairness ==
    /\ WF_vars(RunMutation) /\ WF_vars(Startup) /\ SF_vars(OpenBook)
    /\ \A m \in Ids : SF_vars(StartMutation(m))

LiveSpec == Spec /\ Fairness
-----------------------------------------------------------------------------
TypeOK ==
    /\ intents \subseteq Ids
    /\ pending \in [Ids -> Response \cup {Null}]
    /\ applied \in [Ids -> Outcome \cup {Null}]
    /\ phase \in {"down", "starting", "serving"}
    /\ open \in BOOLEAN
    /\ store \in Book /\ mem \in Book
    /\ edits \in [Guids -> Nat]
    /\ cur \in Ids \cup {Null} /\ pc \in Step
    /\ target \in Guids \cup {NoGuid} /\ resp \in Response
    /\ result \in Outcome \cup {Null}
    /\ effects \in [Ids -> Nat] /\ replies \in [Ids -> SUBSET Outcome]
    /\ crashes \in 0 .. MaxCrashes /\ faults \in 0 .. MaxFaults /\ closes \in 0 .. MaxCloses

(***************************************************************************)
(* CONTRACT.md, "double-post defense": however often an id is sent and     *)
(* wherever the daemon crashes, its edit becomes durable at most once.     *)
(***************************************************************************)
AtMostOnce == \A m \in Ids : effects[m] <= 1

(***************************************************************************)
(* DESIGN.md: "a reported-indeterminate mutation is guaranteed unapplied". *)
(* ListIndeterminateMutations runs on the engine thread between calls.     *)
(***************************************************************************)
IndeterminateUnapplied == Idle => \A m \in ListIndeterminate : effects[m] = 0

(***************************************************************************)
(* A decisive reply is in the journal for good: every later reply to the   *)
(* same id, before or after a crash, is that same outcome.                 *)
(***************************************************************************)
RepliesAreRecorded ==
    \A m \in Ids \ Malformed : \A o \in replies[m] : applied[m] = o

(***************************************************************************)
(* An outcome that reports success belongs to a mutation whose edit is     *)
(* durable, and one that reports failure to a mutation that left no trace. *)
(* (An update that changes nothing may be resolved as applied without its  *)
(* commit having happened: the book cannot tell.)                          *)
(***************************************************************************)
OutcomeMatchesBook ==
    \A m \in Ids : applied[m] # Null =>
        IF applied[m].ok
        THEN Req[m].rpc \notin Updates => effects[m] = 1
        ELSE effects[m] = 0

(***************************************************************************)
(* DESIGN.md: "partial application is impossible".  Between calls the      *)
(* in-memory book that every read sees is the durable one, and no engine   *)
(* edit is left open.                                                      *)
(***************************************************************************)
NoPartialApplication == Idle /\ open => mem = store /\ edits = NoEdit

(***************************************************************************)
(* journal.h, RecordOutcome: recording twice "indicates a protocol bug and *)
(* throws".  The engine never gets to a second INSERT.                     *)
(***************************************************************************)
NoDoubleOutcome == pc \in {"outcome", "verdict"} => CanRecordOutcome(cur)

(***************************************************************************)
(* No sequence of calls and crashes makes the durable book unsound: no     *)
(* account outside the tree, no split that posts to a deleted account.     *)
(***************************************************************************)
BookStaysSound == BookSound(store)

(***************************************************************************)
(* DESIGN.md, steps 1 to 3a: the durable book changes only for a mutation  *)
(* whose intent and whole response the journal already holds and whose     *)
(* outcome it does not.                                                    *)
(***************************************************************************)
WriteAhead ==
    [][store' # store => /\ cur \in intents /\ applied[cur] = Null
                         /\ pending[cur] = resp]_vars

(***************************************************************************)
(* Why the promises above hold, as an invariant that every step preserves  *)
(* (module MutationProofs) when the failing calls leave no trace.          *)
(***************************************************************************)
FaultsLeaveNoTrace == FaultSteps \cap {"pending", "commit", "outcome"} = {}

\* A call is in hand only while serving, and journaled before it is applied.
CallInHand ==
    /\ pc # "idle" => phase = "serving" /\ cur \in Ids
    /\ pc \notin {"idle", "respond"} => cur \notin Malformed
    /\ pc \notin {"idle", "intent", "respond"} => cur \in intents
    /\ \A m \in Ids : pending[m] # Null \/ applied[m] # Null => m \in intents

\* An edit is open only between its BeginEdit and its commit; otherwise an
\* open session's memory is the store.
EditInHand ==
    LET r == Req[cur] IN
    /\ phase = "starting" => open
    /\ pc \notin {"pending", "commit"} => edits = NoEdit /\ (open => mem = store)
    /\ pc \in {"pending", "commit"} =>
          /\ open /\ target \in Guids /\ Verdict(r, store) = OK
          /\ resp = ToProto(r, target, Effect(r, target, store))
          /\ r.rpc \in Creates => store[target] = Absent
          /\ r.rpc \notin Creates => target = r.guid
          /\ r.rpc \in Deletes => mem = store /\ edits = NoEdit
          /\ r.rpc \notin Deletes => /\ mem = Effect(r, target, store)
                                    /\ edits = [NoEdit EXCEPT ![target] = 1]

\* How far the outcome of the call in hand has got.
OutcomeInHand ==
    /\ pc \in {"apply", "pending", "commit", "verdict"} =>
          applied[cur] = Null /\ effects[cur] = 0
    /\ pc \in {"commit", "outcome"} => pending[cur] = resp
    /\ pc = "outcome" =>
          applied[cur] = Null /\ effects[cur] = 1 /\ result = Ok(resp)
    /\ pc = "verdict" =>
          /\ result \in Outcome /\ result = Failed(Verdict(Req[cur], store))
          /\ Verdict(Req[cur], store) # OK
    /\ pc = "respond" =>
          /\ result \in Outcome
          /\ Decisive(result) /\ cur \notin Malformed => applied[cur] = result

\* A pending record without an outcome belongs to the call in hand or is left
\* from before the crash, and until it is resolved the store tells exactly
\* whether its edit is durable (up to updates that change nothing).
PendingIsExact ==
    \A m \in Ids : applied[m] = Null =>
        IF pending[m] = Null THEN effects[m] = 0
        ELSE /\ phase = "serving" => cur = m /\ pc \in {"commit", "outcome"}
             /\ effects[m] \in {0, 1}
             /\ effects[m] = 1 => WasApplied(Req[m], pending[m], store)
             /\ effects[m] = 0 /\ Req[m].rpc \notin Updates =>
                    ~WasApplied(Req[m], pending[m], store)

ProtocolInv ==
    /\ TypeOK /\ CallInHand /\ EditInHand /\ OutcomeInHand /\ PendingIsExact
    /\ OutcomeMatchesBook /\ RepliesAreRecorded /\ AtMostOnce

\* What a client may count on as the fate of m: the recorded outcome, or the
\* one reconciliation would record from the pending response and the book.
AbstractOutcome ==
    [m \in Ids |->
        IF applied[m] # Null THEN applied[m]
        ELSE IF pending[m] # Null /\ WasApplied(Req[m], pending[m], store)
             THEN Ok(pending[m])
             ELSE Null]

Atomic == INSTANCE AtomicMutations WITH book <- store, outcome <- AbstractOutcome

(***************************************************************************)
(* Journal, crash recovery and engine together implement a server that     *)
(* decides each id in one atomic step (module AtomicMutations).            *)
(***************************************************************************)
ImplementsAtomic == Atomic!AtomicSpec

(***************************************************************************)
(* Once the client keeps re-issuing, every journaled id is decided: no     *)
(* mutation stays indeterminate for ever.                                  *)
(***************************************************************************)
EventuallyDecided == \A m \in Ids : m \in intents ~> applied[m] # Null
=============================================================================
