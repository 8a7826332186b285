----------------------------- MODULE QuerySplits -----------------------------
(***************************************************************************)
(* QuerySplits (transaction_service.cpp) page by page, with a client that  *)
(* follows the page tokens while transactions are posted, changed and      *)
(* deleted between its calls.  The server keeps nothing between pages.     *)
(***************************************************************************)
EXTENDS Ledger

CONSTANTS
    DefaultPageSize,  \* kDefaultPageSize
    MaxPageSize,      \* kMaxPageSize
    Queries           \* the queries, with valid accounts, dates and states; the
                      \* value bounds min and max are sets of at most one

ASSUME QueryAssumption ==
    /\ DefaultPageSize \in Nat \ {0} /\ MaxPageSize \in Nat \ {0}
    /\ \A q \in Queries : q.page_size \in Int

VARIABLES
    read,    \* the client: "idle", "reading", "done" or "refused"
    query,   \* what it reads
    token,   \* the page_token of its next call, or NoGuid
    seen,    \* per split, how often its pages showed it
    steady,  \* history: the results at its first call that nobody has changed since
    moved,   \* history: the split of a token changed its place while it was held
    quiet    \* history: no mutation since its last call

client == <<read, query, token, seen, steady, moved, quiet>>
vars == <<book, last, client>>
-----------------------------------------------------------------------------
(* The handler                                                              *)

PageSize(n) ==
    IF n <= 0 THEN DefaultPageSize ELSE IF n > MaxPageSize THEN MaxPageSize ELSE n

\* The predicates of the engine's query; an empty set matches everything.
Matches(q, s) ==
    /\ q.accounts = {} \/ splits[s].account \in q.accounts
    /\ q.states = {} \/ splits[s].state \in q.states
    /\ txns[splits[s].txn].date \in q.dates

\* The bounds on the value, compared after the query has run.
InRange(q, s) ==
    /\ \A b \in q.min : NumericLeq(b, splits[s].value)
    /\ \A b \in q.max : NumericLeq(splits[s].value, b)

Results(q) == {s \in Live : Matches(q, s)}

\* Mutant: the value bounds apply to the split of the token as well.
RestInRange(q, tok) ==
    {s \in Results(q) : InRange(q, s) /\ (tok = NoGuid \/ (InRange(q, tok) /\ Before(tok, s)))}

\* What the loop may still emit: what comes after the token and is in range.
Rest(q, tok) ==
    {s \in Results(q) : InRange(q, s) /\ (tok = NoGuid \/ Before(tok, s))}

FirstOf(S, n) == {s \in S : Cardinality({r \in S : Before(r, s)}) < n}
LastOf(S) == CHOOSE s \in S : \A r \in S : r = s \/ Before(r, s)

\* Mutant: a full page gets a token, also when nothing follows.
TokenIfFull(q, tok) ==
    LET page == FirstOf(Rest(q, tok), PageSize(q.page_size))
    IN  IF Cardinality(page) = PageSize(q.page_size) THEN LastOf(page) ELSE NoGuid

\* One past the page decides whether there is a next page.
NextToken(q, tok) ==
    LET rest == Rest(q, tok)
        page == FirstOf(rest, PageSize(q.page_size))
    IN  IF rest # page THEN LastOf(page) ELSE NoGuid

Page(q, tok) == FirstOf(Rest(q, tok), PageSize(q.page_size))

\* "page_token does not match any current result".
TokenRefused(q, tok) == tok # NoGuid /\ tok \notin Results(q)
-----------------------------------------------------------------------------
(* The client                                                               *)

Receive(q, shown) ==
    /\ seen' = [s \in SplitGuids |-> IF s \in Page(q, token) THEN shown[s] + 1 ELSE shown[s]]
    /\ token' = NextToken(q, token)
    /\ read' = IF token' = NoGuid THEN "done" ELSE "reading"
    /\ quiet' = TRUE
    /\ UNCHANGED <<book, last>>

FirstPage(q) ==
    /\ read # "reading"
    /\ query' = q
    /\ steady' = {s \in Results(q) : InRange(q, s)} /\ moved' = FALSE
    /\ Receive(q, [s \in SplitGuids |-> 0])

NextPage ==
    /\ read = "reading" /\ ~TokenRefused(query, token)
    /\ Receive(query, seen)
    /\ UNCHANGED <<query, steady, moved>>

\* INVALID_ARGUMENT: the client has to start over.
PageRefused ==
    /\ read = "reading" /\ TokenRefused(query, token)
    /\ read' = "refused" /\ token' = NoGuid
    /\ UNCHANGED <<book, last, query, seen, steady, moved, quiet>>

Same(s) == splits[s] # Absent /\ splits'[s] = splits[s] /\ txns'[splits[s].txn] = txns[splits[s].txn]

\* A mutation between two calls of the client.
Mutate ==
    /\ Mutation
    /\ steady' = {s \in steady : Same(s)}
    /\ moved' = (moved \/ (token # NoGuid /\ splits'[token] # Absent /\ splits[token] # Absent
                             /\ txns'[splits'[token].txn].date # txns[splits[token].txn].date))
    /\ quiet' = (quiet /\ UNCHANGED book)
    /\ UNCHANGED <<read, query, token, seen>>

Init ==
    /\ LedgerInit
    /\ read = "idle" /\ query \in Queries /\ token = NoGuid
    /\ seen = [s \in SplitGuids |-> 0] /\ steady = {} /\ moved = FALSE /\ quiet = TRUE

Next ==
    \/ Mutate
    \/ \E q \in Queries : FirstPage(q)
    \/ NextPage \/ PageRefused

Spec == Init /\ [][Next]_vars
-----------------------------------------------------------------------------
(***************************************************************************)
(* A client that follows the tokens to the end misses nothing and sees     *)
(* nothing twice: every split that matched all the time came exactly once, *)
(* whatever was posted, changed and deleted between the pages.  Only a     *)
(* token's split that changed its place in the order can spoil it.         *)
(***************************************************************************)
PagesCoverResults ==
    /\ read = "done" /\ ~moved => \A s \in steady : seen[s] = 1
    /\ ~moved => \A s \in steady : seen[s] <= 1

(***************************************************************************)
(* A token is a promise: when nothing has changed since it was handed out, *)
(* the next call is not refused and its page is not empty.                 *)
(***************************************************************************)
TokenHasMore ==
    read = "reading" /\ quiet => ~TokenRefused(query, token) /\ Page(query, token) # {}
=============================================================================
