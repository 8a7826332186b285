--------------------------- MODULE AtomicMutations ---------------------------
(***************************************************************************)
(* What the mutation protocol promises its client, with no journal, no     *)
(* crash and no engine in sight: each mutation id is decided once, in one  *)
(* step.  Either its effect enters the book together with the response the *)
(* client will get for ever after, or the request's verdict on the book of *)
(* that moment is what the client will get, and the book stays as it is.   *)
(* An id without an outcome has left no trace in the book.                 *)
(*                                                                         *)
(* What a request means to a book is a parameter: module BookOps gives it. *)
(***************************************************************************)
CONSTANTS Ids,              \* the mutation ids clients use
          Null,             \* an id not decided yet
          Req,              \* the request each id stands for
          InitBook,         \* the book the daemon is pointed at
          Guids, Absent,    \* what a book maps, and its value for "nothing"
          OK, Empty,        \* the verdict and the response that say nothing
          Creates,          \* the RPCs that allocate an entity
          Verdict(_, _),    \* a request's verdict on a book
          Effect(_, _, _),  \* the book after a request, applied to an entity
          ToProto(_, _, _)  \* the response, projected from that book

VARIABLES book,     \* the durable book
          outcome   \* what each id was decided to

Applied(response) == [ok |-> TRUE, response |-> response, code |-> OK]
Refused(code) == [ok |-> FALSE, response |-> Empty, code |-> code]

AtomicInit ==
    /\ book = InitBook
    /\ outcome = [m \in Ids |-> Null]

Decide(m, o) == outcome[m] = Null /\ outcome' = [outcome EXCEPT ![m] = o]

\* A create works on a GUID that names nothing, any other RPC on the entity
\* its request names.
Apply(m) ==
    /\ Verdict(Req[m], book) = OK
    /\ \E g \in Guids :
          /\ IF Req[m].rpc \in Creates THEN book[g] = Absent ELSE g = Req[m].guid
          /\ book' = Effect(Req[m], g, book)
          /\ Decide(m, Applied(ToProto(Req[m], g, book')))

Reject(m) ==
    /\ Verdict(Req[m], book) # OK
    /\ Decide(m, Refused(Verdict(Req[m], book)))
    /\ UNCHANGED book

AtomicNext == \E m \in Ids : Apply(m) \/ Reject(m)

AtomicSpec == AtomicInit /\ [][AtomicNext]_<<book, outcome>>
=============================================================================
