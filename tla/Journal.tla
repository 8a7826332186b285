------------------------------- MODULE Journal -------------------------------
(***************************************************************************)
(* The sidecar mutation journal (src/journal/journal.cpp): two SQLite      *)
(* tables, opened with WAL and synchronous=FULL, so that a row is durable  *)
(* once the statement that wrote it has returned.  Both survive a crash.   *)
(*                                                                         *)
(*   intents  the mutation ids that have a row in table intents            *)
(*   pending  column intents.pending_response, Null when it is SQL NULL    *)
(*   applied  table applied: the recorded outcome, Null for "no row"       *)
(*                                                                         *)
(* Table intents also keeps the request; a mutation id names one request   *)
(* for ever (the contract's MutationMeta), so the request is a constant of *)
(* the id and needs no column here.                                        *)
(***************************************************************************)
CONSTANTS Ids,   \* the mutation ids clients use
          Null   \* SQL NULL, or the absence of a row

VARIABLES intents, pending, applied

journalVars == <<intents, pending, applied>>

JournalInit ==
    /\ intents = {}
    /\ pending = [m \in Ids |-> Null]
    /\ applied = [m \in Ids |-> Null]

\* INSERT OR IGNORE: the row of an earlier attempt is left untouched.
RecordIntent(m) ==
    /\ intents' = intents \cup {m}
    /\ UNCHANGED <<pending, applied>>

\* Mutant: the lookup always comes back empty.
OutcomeNeverFound(m) == Null

GetOutcome(m) == applied[m]

\* UPDATE intents SET pending_response: a later attempt overwrites.
RecordPending(m, response) ==
    /\ pending' = [pending EXCEPT ![m] = response]
    /\ UNCHANGED <<intents, applied>>

ClearPending(m) ==
    /\ pending' = [pending EXCEPT ![m] = Null]
    /\ UNCHANGED <<intents, applied>>

\* The primary key of table applied refuses a second INSERT for the same id.
CanRecordOutcome(m) == applied[m] = Null

\* A plain INSERT: the statement throws, and changes nothing, on a duplicate.
RecordOutcome(m, outcome) ==
    /\ applied' = IF CanRecordOutcome(m)
                  THEN [applied EXCEPT ![m] = outcome]
                  ELSE applied
    /\ UNCHANGED <<intents, pending>>

\* intents LEFT JOIN applied WHERE no outcome [AND a pending response].
ListIndeterminate == {m \in intents : applied[m] = Null}

ListPendingUnresolved == {m \in ListIndeterminate : pending[m] # Null}
=============================================================================
