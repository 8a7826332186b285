------------------------------- MODULE Ledger -------------------------------
(***************************************************************************)
(* Transactions down to their splits (transaction_service.cpp, map.cpp):   *)
(* the plan that checks a request, the edit that applies it, the response  *)
(* that is serialised before the commit, and the sums that the startup     *)
(* check and GetTrialBalance form over the whole book.                     *)
(*                                                                         *)
(* One RPC is one step: it is one task of the engine thread.  What crashes *)
(* and journal faults do between its parts is the module MutationProtocol. *)
(***************************************************************************)
EXTENDS ErrorCodes, Integers, SequencesExt

CONSTANTS
    TxnGuids,    \* the GUIDs the engine may give to transactions,
    SplitGuids,  \*   and to splits (integers: GUIDs have an order)
    NoGuid,      \* an empty guid field
    Absent,      \* the value of a GUID that names nothing
    Accounts,    \* the accounts of the book
    Width,       \* the bits of a numerator: 64 in the code
    YearBits,    \* the bits of a GDateYear: 16
    Denoms,      \* the denominators requests use, good ones
    Specs        \* the transactions clients ask for

ASSUME LedgerAssumption ==
    /\ SplitGuids \subseteq Int /\ NoGuid \notin SplitGuids
    /\ Width \in Nat \ {0} /\ YearBits \in Nat \ {0} /\ Denoms \subseteq Nat \ {0}
    /\ IsFiniteSet(SplitGuids) /\ IsFiniteSet(Denoms)

\* A request carries an integer year and a list of splits, whose values are pairs
\* of integers; a denominator that is not in Denoms is not positive.
ASSUME SpecAssumption ==
    \A spec \in Specs :
        /\ spec.date \in Int /\ spec.splits \in Seq(Range(spec.splits))
        /\ \A i \in DOMAIN spec.splits :
              /\ spec.splits[i].value.num \in Int /\ spec.splits[i].value.denom \in Int
              /\ spec.splits[i].value.denom > 0 => spec.splits[i].value.denom \in Denoms
-----------------------------------------------------------------------------
(* gnc_numeric                                                              *)

Fits(n) == -(2 ^ (Width - 1)) <= n /\ n < 2 ^ (Width - 1)

Numeric(n, d) == [num |-> n, denom |-> d]

\* Overflow and argument errors have denominator 0.
Error == Numeric(-1, 0)
Zero  == Numeric(0, 1)

NumericCheck(a) == a.denom # 0

Lcd(d, e) == CHOOSE m \in 1 .. d * e :
                /\ m % d = 0 /\ m % e = 0
                /\ \A k \in 1 .. m - 1 : k % d # 0 \/ k % e # 0

\* gnc_numeric_add(a, b, GNC_DENOM_AUTO, GNC_HOW_DENOM_LCD).
NumericAdd(a, b) ==
    IF ~NumericCheck(a) \/ ~NumericCheck(b) THEN Error
    ELSE LET m == Lcd(a.denom, b.denom)
             n == a.num * (m \div a.denom) + b.num * (m \div b.denom)
         IN  IF Fits(n) THEN Numeric(n, m) ELSE Error

\* gnc_numeric_zero_p: an error is not zero.
ZeroP(a) == NumericCheck(a) /\ a.num = 0

\* gnc_numeric_compare(a, b) <= 0, of two good numerics.
NumericLeq(a, b) == a.num * b.denom <= b.num * a.denom

\* The running sum of the values of a sequence of splits.
RunningSum(ss) ==
    LET sum[i \in 0 .. Len(ss)] ==
            IF i = 0 THEN Zero ELSE NumericAdd(sum[i - 1], ss[i].value)
    IN  sum[Len(ss)]

Overflows(ss) == \E i \in DOMAIN ss : ~NumericCheck(RunningSum(SubSeq(ss, 1, i)))
-----------------------------------------------------------------------------
(* The book                                                                 *)

VARIABLES
    txns,    \* per GUID [date, currency], or Absent
    splits,  \* per GUID [txn, account, value, state], or Absent
    used,    \* the GUIDs the engine has given out: it never repeats one
    last     \* the last mutation: [txn, spec, code, response]

book == <<txns, splits, used>>

TxnsOf(b)   == {t \in TxnGuids : b[t] # Absent}
SplitsOf(b, t) == {s \in SplitGuids : b[s] # Absent /\ b[s].txn = t}

Live == {s \in SplitGuids : splits[s] # Absent}

\* The engine's order of query results: by posting date, and in the end by
\* GUID; what it compares in between is left out.
Before(r, s) ==
    LET d == txns[splits[r].txn].date
        e == txns[splits[s].txn].date
    IN  d < e \/ (d = e /\ r < s)

InOrder(S) == [i \in 1 .. Cardinality(S) |->
                 CHOOSE s \in S : Cardinality({r \in S : Before(r, s)}) = i - 1]
-----------------------------------------------------------------------------
(* PlanTransaction                                                          *)

\* Mutant: a split may be claimed twice.
OwnOnly(spec, i, own) ==
    IF spec.splits[i].guid = NoGuid \/ spec.splits[i].guid \in own THEN OK
    ELSE "INVALID_ARGUMENT"

\* A GUID in the request must be that of a split of this transaction (of none
\* on create), and must not come twice.
CheckClaim(spec, i, own) ==
    LET g == spec.splits[i].guid
    IN  IF g = NoGuid THEN OK
        ELSE IF g \in own /\ \A j \in 1 .. i - 1 : spec.splits[j].guid # g THEN OK
        ELSE "INVALID_ARGUMENT"

\* NumericFromProto.
CheckNumeric(v) == IF v.denom <= 0 THEN "INVALID_ARGUMENT" ELSE OK

\* The body of the loop, for the i-th split of the request.
CheckSplit(spec, i, own) ==
    LET s == spec.splits[i]
    IN  CheckClaim(spec, i, own)
        ?? (IF s.account \in Accounts THEN OK ELSE "ACCOUNT_NOT_FOUND")
        ?? CheckNumeric(s.value)
        ?? s.fields
        ?? (IF NumericCheck(RunningSum(SubSeq(spec.splits, 1, i))) THEN OK
            ELSE "INVALID_ARGUMENT")

FirstFailure(spec, own) ==
    LET failing == {i \in DOMAIN spec.splits : CheckSplit(spec, i, own) # OK}
    IN  IF failing = {} THEN OK ELSE CheckSplit(spec, Min(failing), own)

(***************************************************************************)
(* DateFromProto, for the year, which stands for the date here: the range  *)
(* check, then the narrowing to GLib's type.  Month and day are treated    *)
(* alike.                                                                  *)
(***************************************************************************)
CheckDate(year) == IF year < 1 \/ year > 2 ^ YearBits - 1 THEN "INVALID_ARGUMENT" ELSE OK

GDateYear(year) == year % (2 ^ YearBits)

\* An unspecified reconcile state is 'n'.
Reconcile(state) == IF state = "unspecified" THEN "n" ELSE state

\* Mutant: an imbalance is left to the engine's scrub.
PlanWithoutSum(spec, own) ==
    spec.head ?? CheckDate(spec.date)
    ?? (IF spec.splits = <<>> THEN "INVALID_ARGUMENT" ELSE OK)
    ?? FirstFailure(spec, own)

\* The currency is checked first: spec.head is what that ends in.
PlanTransaction(spec, own) ==
    spec.head ?? CheckDate(spec.date)
    ?? (IF spec.splits = <<>> THEN "INVALID_ARGUMENT" ELSE OK)
    ?? FirstFailure(spec, own)
    ?? (IF ZeroP(RunningSum(spec.splits)) THEN OK ELSE "UNBALANCED_TRANSACTION")
-----------------------------------------------------------------------------
(* ApplyPlan                                                                *)

\* The splits an edit writes: the claimed ones in place, the others under GUIDs
\* the engine has never used.
Places(spec) ==
    {p \in [DOMAIN spec.splits -> SplitGuids] :
        \A i \in DOMAIN p :
            IF spec.splits[i].guid # NoGuid THEN p[i] = spec.splits[i].guid
            ELSE p[i] \notin used /\ \A j \in DOMAIN p \ {i} : p[j] # p[i]}

\* What ApplyPlan sets on a transaction and on a split of it.
TxnFrom(spec) == [date |-> GDateYear(spec.date), currency |-> spec.currency]

SplitFrom(t, ask) ==
    [txn |-> t, account |-> ask.account, value |-> ask.value, state |-> Reconcile(ask.state)]

ASSUME AbsentAssumption ==
    \A spec \in Specs, t \in TxnGuids :
        /\ TxnFrom(spec) # Absent
        /\ \A i \in DOMAIN spec.splits : SplitFrom(t, spec.splits[i]) # Absent

\* The splits while the edit is open; the last one written to a place stays.
Edited(t, spec, p) ==
    [s \in SplitGuids |->
        IF \E i \in DOMAIN p : p[i] = s
        THEN SplitFrom(t, spec.splits[CHOOSE i \in DOMAIN p :
                                         p[i] = s /\ \A j \in DOMAIN p : p[j] = s => j <= i])
        ELSE splits[s]]

\* Mutant: splits the request leaves out stay.
NoneDoomed(t, p) == {}

\* plan.doomed: what the transaction has and the request does not name.
Doomed(t, p) == SplitsOf(splits, t) \ {p[i] : i \in DOMAIN p}

\* Mutant: splits that are being destroyed are serialised as well.
WithDestroying(t, txn, b, destroying) ==
    [guid |-> t, txn |-> txn,
     splits |-> {[guid |-> s, split |-> b[s]] : s \in SplitsOf(b, t)}]

\* TransactionToProto.
TransactionToProto(t, txn, b, destroying) ==
    [guid |-> t, txn |-> txn,
     splits |-> {[guid |-> s, split |-> b[s]] : s \in SplitsOf(b, t) \ destroying}]

\* xaccTransCommitEdit unlinks the splits that are being destroyed.
CommitEdit(b, destroying) == [s \in SplitGuids |-> IF s \in destroying THEN Absent ELSE b[s]]
-----------------------------------------------------------------------------
(* The handlers                                                             *)

Refused(code) ==
    /\ last' = [txn |-> NoGuid, spec |-> Absent, code |-> code, response |-> Absent]
    /\ UNCHANGED book

\* BeginEdit, ApplyPlan, TransactionToProto, CommitEdit.
Edit(t, spec, p) ==
    LET edited == Edited(t, spec, p)
    IN  /\ txns' = [txns EXCEPT ![t] = TxnFrom(spec)]
        /\ splits' = CommitEdit(edited, Doomed(t, p))
        /\ used' = used \cup {t} \cup {p[i] : i \in DOMAIN p}
        /\ last' = [txn |-> t, spec |-> spec, code |-> OK,
                    response |-> TransactionToProto(t, TxnFrom(spec), edited, Doomed(t, p))]

PostTransaction(t, spec) ==
    /\ t \notin used
    /\ \/ /\ PlanTransaction(spec, {}) # OK
          /\ Refused(PlanTransaction(spec, {}))
       \/ /\ PlanTransaction(spec, {}) = OK
          /\ \E p \in Places(spec) : Edit(t, spec, p)

UpdateTransaction(t, spec) ==
    LET verdict == IF txns[t] = Absent THEN "TXN_NOT_FOUND"
                   ELSE PlanTransaction(spec, SplitsOf(splits, t))
    IN  \/ verdict # OK /\ Refused(verdict)
        \/ verdict = OK /\ \E p \in Places(spec) : Edit(t, spec, p)

\* The engine destroys the splits with the transaction.
DeleteTransaction(t) ==
    \/ txns[t] = Absent /\ Refused("TXN_NOT_FOUND")
    \/ /\ txns[t] # Absent
       /\ txns' = [txns EXCEPT ![t] = Absent]
       /\ splits' = CommitEdit(splits, SplitsOf(splits, t))
       /\ last' = [txn |-> t, spec |-> Absent, code |-> OK, response |-> Absent]
       /\ UNCHANGED used

Mutation == \E t \in TxnGuids :
    \/ \E spec \in Specs : PostTransaction(t, spec) \/ UpdateTransaction(t, spec)
    \/ DeleteTransaction(t)

LedgerInit ==
    /\ txns = [t \in TxnGuids |-> Absent] /\ splits = [s \in SplitGuids |-> Absent]
    /\ used = {}
    /\ last = [txn |-> NoGuid, spec |-> Absent, code |-> OK, response |-> Absent]
-----------------------------------------------------------------------------
(* Sums over the book                                                       *)

Currencies == {txns[t].currency : t \in TxnsOf(txns)}

Values(S) == LET o == InOrder(S) IN [i \in DOMAIN o |-> splits[o[i]]]

InCurrency(c) == {s \in Live : txns[splits[s].txn].currency = c}

\* GetTrialBalance, and the sums of RunStartupChecks: one per currency.
TrialBalance == [c \in Currencies |-> RunningSum(Values(InCurrency(c)))]

\* xaccTransGetImbalanceValue.
Imbalance(t) == RunningSum(Values(SplitsOf(splits, t)))

RunStartupChecks ==
    IF \E t \in TxnsOf(txns) : ~ZeroP(Imbalance(t)) THEN "ENGINE_ERROR"
    ELSE IF \E c \in Currencies : ~ZeroP(TrialBalance[c]) THEN "ENGINE_ERROR"
    ELSE OK
-----------------------------------------------------------------------------
\* Values and their sums in exact arithmetic, times the product of the denominators.
Exact(v) == v.num * (ProductSet(Denoms) \div v.denom)

ExactSum(S) == SumFunctionOnSet([s \in Live |-> Exact(splits[s].value)], S)

(***************************************************************************)
(* The sum check rejects instead of leaving an imbalance to the engine     *)
(* (transaction_service.cpp, PlanTransaction).  After any sequence of      *)
(* posts, updates that keep, add and drop splits, and deletes, every       *)
(* transaction has a split, balances in exact arithmetic, whatever the     *)
(* engine's width, and no split is left without its transaction.           *)
(***************************************************************************)
BookBalances ==
    /\ \A t \in TxnsOf(txns) : SplitsOf(splits, t) # {} /\ ExactSum(SplitsOf(splits, t)) = 0
    /\ \A s \in Live : txns[splits[s].txn] # Absent

(***************************************************************************)
(* shim.proto: "Full replacement: caller sends the complete desired        *)
(* transaction".  After an accepted request the transaction has the date   *)
(* asked for, not one that it wrapped to, and exactly the splits asked     *)
(* for, each split named by GUID still under that GUID.                    *)
(***************************************************************************)
FullReplacement ==
    last.code = OK /\ last.spec # Absent =>
        LET own == SplitsOf(splits, last.txn)
            ask == last.spec.splits
        IN  /\ Cardinality(own) = Len(ask) /\ txns[last.txn].date = last.spec.date
            /\ \A i \in DOMAIN ask : \E s \in own :
                  /\ splits[s].account = ask[i].account
                  /\ splits[s].value = ask[i].value /\ splits[s].state = Reconcile(ask[i].state)
                  /\ ask[i].guid # NoGuid => s = ask[i].guid

(***************************************************************************)
(* map.cpp: "so the pre-commit response matches the post-commit book       *)
(* exactly, which crash reconciliation depends on".                        *)
(***************************************************************************)
ResponseIsCommitted ==
    last.response # Absent =>
        last.response = TransactionToProto(last.txn, txns[last.txn], splits, {})

(***************************************************************************)
(* Whatever clients did, a restart finds a healthy book: RunStartupChecks  *)
(* passes, unless a sum that it does not check for errors overflows on the *)
(* way to zero.                                                            *)
(***************************************************************************)
BookReopens ==
    \/ RunStartupChecks = OK
    \/ \E t \in TxnsOf(txns) : Overflows(Values(SplitsOf(splits, t)))
    \/ \E c \in Currencies : Overflows(Values(InCurrency(c)))
=============================================================================
