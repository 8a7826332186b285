# daichod in TLA+

A verification project for [daichod](../src/DESIGN.md), the daemon that links
libgnucash and serves one book over a Unix socket. It models the parts whose
correctness is an argument about *orders of events*: the mutation protocol with
its journal and crash recovery, the engine worker and the life of the process
around it, the locks, the daily snapshot, and transactions at split level with
the queries that page through them. Everything here is translated from the source; `PROJECT.json` ("map") names the lines each
definition stands for.

## The system

| Part | State it keeps | Operations | Talks to |
|---|---|---|---|
| Mutation protocol (`rpc/mutation.h`) | the call in hand | `RunMutation`: intent, lookup, apply, pending record, commit, outcome, reply | journal, session, engine; runs on the engine thread |
| Journal (`journal/journal.cpp`) | SQLite tables `intents` and `applied`, durable | `RecordIntent`, `GetOutcome`, `RecordPending`, `ClearPending`, `RecordOutcome`, two listings | called by the protocol and by recovery |
| Recovery (`journal/recovery.cpp`) | none | `ReconcilePendingMutations`, `WasApplied` | journal and the freshly loaded book |
| Mutating RPCs (`rpc/*_service.cpp`) | the book | create, update, delete accounts and transactions, add a price, set reconcile info | engine, through `map.cpp` |
| Engine worker (`engine/worker.cpp`) | queue, `stopping_`, the thread | `Run` (enqueue, wait), `Loop`, `Drain` | gRPC handler threads, the engine thread, the main thread |
| Session (`engine/session.cpp`) | `session_`, the book in memory | `Open`, `Close`, `book`, `RunStartupChecks` | engine, its SQL backend, its lock row |
| Lifecycle (`main.cpp`) | flocks, PID files, socket file | locks, snapshot, startup order, serve, shutdown | everything |
| Snapshot (`util/backup.cpp`) | directories of copies | `SnapshotBeforeOpen` | files of book and journal |
| Reads (`QuerySplits`, balances, prices, accounts) | none | | engine |
| Conversions (`engine/map.cpp`), errors (`rpc/error.cpp`) | none | lookups, projections, classification | all RPCs |

What is hard in it, and cannot be unit-tested: a crash between any two of the
protocol's steps, and again during recovery; retries and concurrent duplicates
of one mutation id; calls that fail in the middle; mutations that are each valid
and together are not; wakeups of the worker against pushes and SIGTERM; daemons
and a desktop GnuCash that start and stop around one another; copies that fail or
are interrupted halfway; sums at the width of the engine's integers; a client
that pages through a book while others change it. `PROJECT.json`
("hazards") lists these with their lines and the properties aimed at them.

## Modules

| Module | Models |
|---|---|
| `ErrorCodes` | the error enum, `IsDeterministicVerdict`, and checks run in order (`c ?? d`) |
| `Journal` | the two tables and every statement on them |
| `BookOps` | what the eight mutating RPCs check, do and answer; `WasApplied`; what makes a book sound |
| `AtomicMutations` | abstract: every id is decided in one step, for good |
| `MutationProtocol` | `RunMutation` step by step, session, crashes, startup; composes `Journal` and `BookOps`; refines `AtomicMutations` |
| `Worker` | `EngineWorker` at the granularity of critical sections |
| `BookLock` | flocks, PID files, socket file, the engine's lock row, desktop GnuCash |
| `Lifecycle` | `Run` in `main.cpp`: mask, startup tasks, server, signal thread, final close, drain, exit code; composes `Worker` |
| `Backup` | `SnapshotBeforeOpen` file by file, with the files of book and journal it copies |
| `Ledger` | transactions and splits: `PlanTransaction`, `ApplyPlan`, `TransactionToProto`, engine numerics, `RunStartupChecks`, trial balance |
| `QuerySplits` | the paged query and a client that follows its tokens; composes `Ledger` |
| `BookOpsProofs`, `MutationProofs`, `MutationRefinement`, `WorkerProofs`, `LifecycleProofs`, `BookLockProofs`, `BackupProofs`, `LedgerProofs` | theorems about the module they are named after (`LedgerProofs`: `Ledger` and `QuerySplits`) |
| `MCMutations`, `MCWorker`, `MCBookLock`, `MCLifecycle`, `MCBackup`, `MCLedger` | small instances for TLC |

### MutationProtocol

Durable state: the journal (`intents`, `pending`, `applied`) and `store`, the
book in its SQL backend. Lost in a crash: the session (`open`, `mem`, the book
in memory, and `edits`, the engine's edit nesting per entity) and the call in
hand (`cur`, `pc`, `target`, `resp`, `result`). `effects` and `replies` are
history: how many edits of an id became durable, and what clients were told.

The engine thread runs one task at a time (that is what `Worker` shows), so one
call is in hand and the next one is an *arbitrary* id: this covers lost replies,
retries, concurrent duplicates in the queue and any order of clients. Each
journal statement and each engine commit is a step, and `Crash` may come between
any two. `JournalFails` lets a journal statement throw, `EngineCommitFails` lets
the backend refuse a commit; the constant `FaultSteps` says which of them may.
The rest corresponds to the code one to one: `ApplyThrows` is a handler whose
check throws, `ApplyEdits` opens the edit, sets the fields and projects the
response, `JournalPending` is `record_pending()`, `CommitEdit` the engine commit
(for deletes: begin, destroy, commit), `JournalOutcome` and `JournalVerdict` the
two calls of `RecordOutcome`. `Start`, `ReconcileApplied`, `ReconcileDropped` and
`Serve` are the startup in `main.cpp`; a startup step that fails exits the
process and is a `Crash`.

A book maps GUIDs to entities that keep what the properties tell apart: the kind,
the accounts an entity points at (its parent, or its splits' accounts), one value
for all fields a full replacement overwrites, one for the reconcile slot.
Checks of a request that do not read the accounts are reduced to the code they
end in, placed where the handler makes them (`early`, `head`, `tail`, with `seen`
the accounts already looked up). Split GUIDs and amounts are in `Ledger`.

Assumed of what is not in the repository: an SQLite statement that returned is
durable (WAL, `synchronous=FULL`); the engine writes an entity when its outermost
edit commits and rolls an entity back whose commit was refused; a new GUID is new;
what an entity projects to is the same before its commit and after a reload.

### Worker

One step per critical section of `mu_`; `notify_one`, the task, `join` are steps
of their own, so a notification can fall between a push and a wait, and spurious
wakeups happen. Tasks stand for calls of `Run`; a refused handler that calls
again is another task. The main thread drains explicitly and again in the
destructor.

### BookLock

Daemons of one host take the socket's flock, write its PID file, take the book's
flock, write that PID file, unlink the socket file, and meet the engine's lock:
normal begin, inspection of the row, break. A flock dies with its process; rows
and files do not; PIDs are reused. Desktops, on this host or another, know only
the row. How the engine treats the row is taken from how `session.cpp` uses it.
A daemon that listens may close its book for a client (`CloseBook`, then it is
"idle" and keeps its flocks, PID files and socket file) and open it again, which
meets the row once more; there a row that may be live fails the call, not the
process.

### Lifecycle

The main thread's position in `Run` is `proc`; its own calls of `worker.Run` (five
at the start, the close at the end) are tasks of the worker's queue, next to the
handlers' calls, and use the actions of `Worker`. A signal is pending if every
thread blocks it and ends the process otherwise; threads inherit the main thread's
mask. gRPC is taken from how `main.cpp` uses it: handlers start while it listens,
`Shutdown` (no deadline) returns when the last one has finished, then `Wait` does.
A handler's task may be any RPC, so it may open or close the book; a close may fail
to save, and tears the session down all the same. `unsaved` is history: the closes
that could not save, by the task that made them.

### Backup

A database is a main file and a log, and holds what SQLite recovers: the log if
there is one, else the main file. That describes the book's rollback journal as
well as the journal's write-ahead log. One file operation per step; each may fail,
`remove_all` and `copy_file` halfway, and a crash may follow any of them. The
clock moves on, and back once; desktop GnuCash writes whenever no daemon has the
book open, also while it is copied. `basis` is what the databases held when the
copying began, `taken` the basis of each completed snapshot, `least` the smallest
`keep_days` so far. Where the code completes a snapshot that cannot be trusted, the
action that spoils it drops the basis, and only there: `CopyFile` when it passes over
a file that is not on disk while a leftover of that name is in the `.tmp`,
`CopyOverlooks` when `exists` fails and the file is left out, `DesktopWrites` between
the copies of the book's two files. A `directory_iterator` that cannot be made lists
nothing (`ListFails`); one that fails later throws (`AttemptFails`).

### Ledger and QuerySplits

Splits are records under GUIDs that are never reused; a value is a numerator of
`Width` bits over a denominator, added as `gnc_numeric_add` does (least common
denominator, an error on overflow, errors stay errors). A request is a `spec`;
`PlanTransaction` is its verdict, in the order of the code, `Edited` the splits
while the edit is open, `Doomed` those being destroyed, which `CommitEdit` unlinks
after the response has been serialised. A date is its year, narrowed to
`YearBits`. An RPC is one step, because it is one task of the engine thread. The
server keeps nothing between pages; the client's `token`, `seen` and the history
`steady` (results nobody has changed since its first page) live in `QuerySplits`.

The engine orders query results by posting date first and by GUID at last; the
fields it compares in between are left out. Its own rounding of values to the
currency's fraction is not represented: requests use fitting denominators.

## What TLC checks

| Run | Instance | Shows |
|---|---|---|
| `accounts` | two accounts moved under each other, an update that changes nothing, a create below one, its deletion; 2 crashes, 1 fault, 1 close | the proofs' invariant `ProtocolInv`, `AtMostOnce`, `IndeterminateUnapplied`, `BookStaysSound`, refinement |
| `transactions` | a post, an update, a delete, a price, deletion of the account they move to; 2 crashes, 1 fault, 1 close | `OutcomeMatchesBook`, `NoPartialApplication`, `BookStaysSound`, `WriteAhead`, refinement |
| `progress` | a move, a reconcile slot, an invalid request, a malformed id; every call may fail; 1 crash, 2 faults, 1 close | `EventuallyDecided`, `RepliesAreRecorded`, `NoDoubleOutcome`, types |
| `worker` | 4 calls, queue of 2 | FIFO, drain, no lost wakeup, and both liveness properties |
| `lifecycle` | 3 client calls that may open or close the book, queue of 2, SIGTERM at any point and again | `CloseIsAccepted`, `CleanExit`, `NoDefaultTermination`, `SigtermEnds` |
| `locks` | 3 daemons that also close and reopen the book, 2 sockets, 3 PIDs, a desktop here and one elsewhere | `OneDaemon`, `ServingIsReachable`, `PidFilesTrue` |
| `backup` | 2 days, `keep_days` 1 and -1, 2 writes, 1 crash, 1 fault, the clock set back once | `UnspoiledAreExact`, `SafetyNet`, `PruneKeepsNewest`, `LeftoversDoNotBlock` |
| `ledger` | 2 transactions, 4 split GUIDs, numerators of 3 bits, years of 2, 2 currencies, 3 queries | `BookBalances`, `FullReplacement`, `ResponseIsCommitted`, `BookReopens`, `PagesCoverResults`, `TokenHasMore` |

Bounds: two crashes are the first number at which recovery itself is interrupted
and resumed; every id may be sent without bound; one fault and one close are
enough for each to fall before or after any step of any id. The ids of a run are
chosen so that they conflict (every pair shares an account). In `worker`
four calls make the queue full with one task running and one refused. In `locks`
three daemons let one serve, one fail and one start after a crash; PIDs are as
many as daemons so that reuse happens. `locks` uses symmetry of daemons and PIDs;
it checks no temporal property. Its deadlock check is off because a finite number
of daemons and desktops really comes to an end. In `lifecycle` three calls fill the
queue beside the running task, so that the close would be refused if it came early.
In `backup` two days are one more than `keep_days`, so that a prune has something
to remove; two writes let book and journal differ between a failed attempt and its
retry. With `keep_days` 0 every snapshot is pruned at once and the properties say
nothing, so it is left out. In `ledger` three bits are enough for a sum to overflow
with two terms, and for one to wrap to zero (-4 twice); four GUIDs for an update that keeps, drops and adds splits, and for
three pages with changes between them.

Fairness. `progress`: the engine thread and startup always go on (weak fairness of
`RunMutation` and `Startup`: a running thread, and a supervisor with
restart-on-failure); somebody reopens a closed book and a client keeps re-issuing
an id without a decisive answer (strong fairness, because other calls come in
between; the FIFO queue justifies it, and re-issuing is what the design asks of
daicho-api). Nothing is assumed about crashes and faults except their bound.
`worker`, `lifecycle`: threads that can run do run; nothing obliges clients to call,
SIGTERM to arrive or spurious wakeups to happen. `backup`: a start goes on, and the
supervisor restarts a daemon that is down; faults and crashes are bounded.

### Where code and documents disagree

Four runs end in a counterexample, each against a sentence of `DESIGN.md`:

- `outcome_fault`: `RecordOutcome` fails after the commit and the daemon serves
  on, with a mutation that is applied *and* reported indeterminate ("guaranteed
  unapplied"). Re-issuing it applies it again. A restart would repair it.
- `pending_fault`: `record_pending()` throws inside the open edit; nothing rolls
  it back ("partial application is impossible"). Reads see the change, the store
  does not have it, and later edits of that entity commit at nesting level two.
- `commit_fault`: the engine's commits return nothing and nobody asks for the
  session's error, so a refused commit is recorded as a success.
- `lock_race`: a desktop closes and reopens the book between the failed begin and
  the break; an empty lock table counts as provably stale and the desktop's new
  lock is broken ("never stolen").

Four more things the models reach, and the properties make an exception for in so
many words:

- The startup check and `GetTrialBalance` add up a currency without looking for
  overflow. Transactions that are each accepted can make that sum overflow on its
  way to zero, and then every restart is refused (`BookReopens`).
- `UnspoiledAreExact` excepts snapshots that were spoiled while they were copied, of
  which the sources promise there are none (`backup.h`: a failed attempt "can never be
  mistaken for a completed one"; `backup.cpp`: a "retry begins clean"; `main.cpp`: the
  files are "quiescent"). A leftover stays in the `.tmp` because the error of
  `remove_all` is ignored, and passes into the snapshot if its file is no longer on
  disk (a rollback journal, say, of the earlier attempt: the copy then restores the
  older book). A file is left out because the error of `exists` is ignored. Desktop
  GnuCash writes during the copying, since the engine's lock row is looked at only
  later, and the copy is torn. Each becomes that day's snapshot for good.
- A client's `CloseBook` whose save fails closes the book and reports the error; the
  final close then finds no session, and the daemon exits 0 although the last save
  failed. "A failed final save must not exit 0" (`main.cpp`) holds of the final close
  only, and `CleanExit` says so: with exit code 0, a save that failed is one whose
  client has had the error.
- A page token whose split got another place in the order makes the client miss or
  repeat results (`PagesCoverResults`).

## What is proved

For every value of the constants, not only the instances above.

`MutationProofs`: `TypeCorrect` (`Spec => []TypeOK`), and, under
`FaultsLeaveNoTrace` (the failing calls are those that leave no trace: not the
pending record, the commit or the outcome, which the runs above refute), the
theorems for `AtMostOnce`, `IndeterminateUnapplied`, `RepliesAreRecorded`,
`OutcomeMatchesBook`, `NoPartialApplication`, `NoDoubleOutcome` and `WriteAhead`.
None of these is inductive. `ProtocolInv` adds what they rest on: where the call
in hand can be (`CallInHand`), that an edit is open exactly between `ApplyEdits`
and `CommitEdit` and is the request's effect on the *store* (`EditInHand`), how
far the outcome has got (`OutcomeInHand`), and `PendingIsExact`: while a pending
record has no outcome, it belongs to the call in hand or to recovery, and the
store tells whether its edit is durable. That is DESIGN.md's "the check is exact",
and the proof needs for it that nothing else has changed the store since, and
that an update which looks applied before its commit changes nothing.

`BookStaysATree` adds `BookStaysSound`: an edit that becomes durable was checked
against the store it lands on, so it is enough that an accepted request turns a
sound book into a sound book (`EffectSound`).

`BookOpsProofs` has the facts about handlers and recovery this uses: checks end in
deterministic verdicts, edits touch one entity, an applied edit is recognised
(`EffectRecognised`), an unapplied create or delete is not (`NotRecognisedBefore`),
and `EffectSound`. For the last, `Ancestors` (a walk over the parents) is shown to be
the *least* set of GUIDs that holds the account and, with every account, its parent:
until the walk is complete each step adds a GUID, and there are finitely many. The
root is then above an account exactly when no such set misses it, and adding a leaf
(`LeafAdded`), removing one (`LeafRemoved`) and moving a branch below an account that
is not in it (`BranchMoved`) are arguments about sets.

`MutationRefinement`: `ProtocolImplementsAtomic`. The abstract outcome of an id is
its recorded outcome, or the one recovery *would* record from the pending response
and the store. So the id is decided by `CommitEdit` (or, for an update that
changes nothing, already by `JournalPending`), or by `JournalVerdict`; crashes and
recovery are invisible.

`WorkerProofs`, for any calls and any queue bound: types, `FifoOrder`, `NoLostWakeup`
and `DrainedMeansDone`. `WorkerInv` adds that a task whose caller waits is in exactly
one place, queued, in the engine thread's hands or done (`OnePlace`), and how far the
engine thread and the two `Drain`s have got. A drain that has joined then has an empty
queue and an idle thread behind it, so nobody is left waiting.

`LifecycleProofs`: `DaemonUsesWorker` shows that every behaviour of the daemon is one
of its worker (`LSafety => Spec`), so what is proved of the worker holds there. On top
of it `LifeInv` says which of its own calls the main thread has made at each place of
`Run`, that handlers exist only while the server runs, that after a final close without error
the book stays closed and only clients' closes have failed to save, and that signals are
blocked before there is another thread. From it:
`CloseIsAccepted` (the server has returned, so the queue is empty when the close comes),
`CleanExit` and `NoDefaultTermination`.

`BookLockProofs`: `OneDaemon`, `ServingIsReachable`, `PidFilesTrue`, types, from
`DaemonInv`: who is past a flock has it (`LocksHeld`), and what a daemon has written
under a flock stays its own until it lets go (`FilesInHand`).

`BackupProofs`, for any number of days, `keep_days` values, writes, crashes and faults:
types, `UnspoiledAreExact`, `SafetyNet`, `PruneKeepsNewest`. `CopyInHand` says of a
snapshot under construction that is not spoiled what its files so far restore: the book
of the beginning once both its files are copied, and files that equal those on disk
until then; `EnoughSurvive` counts, for each day that is doomed or whose snapshot is
neither spoiled nor exact, the newer ones that stay: at least the smallest `keep_days`
so far.

`LedgerProofs`, for any requests, GUIDs, widths, queries and page sizes. `LedgerInv` is
the structure of the book (transactions have splits, splits their transaction, nothing
exists whose GUID was not given out); `NoSplitIsOrphaned`, `FullReplacement` and
`ResponseIsCommitted` follow from it. `QueryInv` adds what a reading client has: while its
token stands where it stood, the steady splits behind it have not been seen and the
others have been, once. The order of results is total, hence `PagesCoverResults` and
`TokenHasMore`. `BookBalances` is about sums: `NumericAdd`
without an error is exact (`AddIsExact`, from facts about `Lcd` and division), so a
running sum that ends without one is the exact sum of its terms (`RunningIsExact`),
in whatever order (`SumParts`, `SumUnion`). The invariant behind it is `AmountsGood`
and `Balanced`, which an edit re-establishes for its own transaction and leaves alone
for the others. `BookReopens` goes the other way: `InOrder` lists each split once
(`InOrderLists`), whole transactions of one currency sum to zero (`WholeTransactions`),
so the engine's sum is zero unless a partial sum overflows (`ZeroUnlessOverflow`).

Where these proofs need induction over data (the parent walk, sums over sequences and
sets) they take a least counterexample: the library's induction theorems cannot be
instantiated by the installed provers, but that a set of naturals has a least element
can be used, and recursive definitions are shown to exist that way too.

Assumptions: the named `ASSUME`s, which TLC evaluates in the runs. Requests are well
formed (`RequestAssumption`, `SpecAssumption`: integer years, lists of splits whose
values are pairs of integers; `QueryAssumption`: integer page sizes); the initial book is
sound; `Null`, `Absent`, `None` and `NoDir` are no values; GUIDs and the denominators in
use are finitely many (a GUID has 128 bits, a denominator 64).

Only model-checked: liveness, which is out of the prover's reach (`EventuallyDecided`,
`AcceptedReturns`, `DrainTerminates`, `SigtermEnds`, `LeftoversDoNotBlock`), and the four
counterexamples. Every invariant and every action property of the passing runs, and the
refinement, is a theorem.

## Not modelled

Option parsing, logging, formatting, enum tables, URI redaction, the mapping of
error codes to gRPC status codes, test hooks, `mkbook`; reads other than
`QuerySplits` and `GetTrialBalance`, which change nothing and whose arithmetic is
the engine's; read-only sessions and postgres books. A mutation id reused with
another request, or spelled in another case, is outside the contract: the code does
not check it and the model has one request per id. Edits of the book by desktop
GnuCash between a crash and the restart are outside the single-writer assumption on
which recovery rests. What libgnucash does inside a call (rounding, sort order of
splits after a reload, what the price database refuses) is taken as the code in
`src/` relies on it. In `Backup` a copy is one step: a desktop that writes while one
file is being copied is represented by its writing before or after that copy; and
`exists(today)` does not fail (an error there would lead to a rename onto a directory
that is not empty, which is refused).

## Plan

Done: the mutation protocol with its abstraction, `Worker`, `Lifecycle`, `BookLock`,
`Backup`, `Ledger`, `QuerySplits`, and proofs of every safety property the runs check.
Next:

1. The safety half of the liveness properties: that the steps each of them waits for
   are enabled (`Worker`, `Lifecycle`), as invariants without `ENABLED`.
2. `MutationProofs` without `FaultsLeaveNoTrace`: what still holds when the pending
   record, the commit or the outcome may fail (at most one durable edit per reply).
3. `BookReopens` without its exception, for books whose amounts are small enough that
   no partial sum can overflow.
