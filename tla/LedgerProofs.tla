---------------------------- MODULE LedgerProofs ----------------------------
(***************************************************************************)
(* Transactions and their splits, and a client that pages through them,    *)
(* for any requests, queries, GUIDs and page sizes: an edit is a full      *)
(* replacement whose response is what was committed, no split is orphaned, *)
(* following the page tokens shows every steady split exactly once, every  *)
(* transaction balances in exact arithmetic, and the startup checks accept *)
(* the book unless one of their sums overflows.                            *)
(*                                                                         *)
(* Induction over data is done by least counterexamples: the shortest      *)
(* prefix of a sum, or the smallest set of splits, that goes wrong.        *)
(***************************************************************************)
EXTENDS QuerySplits, FiniteSetTheorems, FunctionTheorems, WellFoundedInduction, TLAPS

\* The structure of the book: a transaction has splits, a split has its
\* transaction, and nothing is there whose GUID was not given out.
LedgerInv ==
    /\ txns = [t \in TxnGuids |-> txns[t]] /\ splits = [s \in SplitGuids |-> splits[s]]
    /\ \A t \in TxnsOf(txns) : t \in used /\ txns[t].date \in Int /\ SplitsOf(splits, t) # {}
    /\ \A s \in Live : s \in used /\ splits[s].txn \in TxnsOf(txns)
-----------------------------------------------------------------------------
(* PlanTransaction and Places                                               *)

\* A set of naturals that is not empty has a least element.
LEMMA LeastNat ==
    ASSUME NEW S \in SUBSET Nat, S # {}
    PROVE  \E x \in S : \A y \in S : x <= y
<1> DEFINE less == {ss \in Nat \X Nat : ss[1] < ss[2]}
<1>1. IsWellFoundedOn(less, Nat)
  BY NatLessThanWellFounded DEF OpToRel
<1> HIDE DEF less
<1>2. PICK x \in S : \A y \in S : ~(<<y, x>> \in less)
  BY <1>1, WFMin
<1>3. \A y \in S : <<y, x>> \in less <=> y < x
  BY DEF less
<1>4. ASSUME NEW y \in S PROVE x <= y
  <2>1. x \in Nat /\ y \in Nat /\ ~(y < x)
    BY <1>2, <1>3
  <2> QED  BY <2>1
<1> QED  BY <1>4

LEMMA SpecSplits ==
    ASSUME NEW spec \in Specs
    PROVE  /\ Len(spec.splits) \in Nat /\ DOMAIN spec.splits = 1 .. Len(spec.splits)
           /\ spec.splits # <<>> => 1 \in DOMAIN spec.splits
  BY SpecAssumption

\* A request that passes has a date in range, at least one split, and every
\* split of it passes by itself.
LEMMA PlanPasses ==
    ASSUME NEW spec \in Specs, NEW own, PlanTransaction(spec, own) = OK
    PROVE  /\ CheckDate(spec.date) = OK /\ spec.splits # <<>>
           /\ \A i \in DOMAIN spec.splits : CheckClaim(spec, i, own) = OK
<1>1. \A c, d : c ?? d = OK => c = OK /\ d = OK
  BY DEF ??
<1>2. /\ CheckDate(spec.date) = OK /\ spec.splits # <<>> /\ FirstFailure(spec, own) = OK
  BY <1>1 DEF PlanTransaction, OK
<1> DEFINE failing == {i \in DOMAIN spec.splits : CheckSplit(spec, i, own) # OK}
<1>3. failing = {}
  <2> SUFFICES ASSUME failing # {} PROVE FALSE
    OBVIOUS
  <2>1. failing \in SUBSET Nat
    BY SpecSplits
  <2>2. Min(failing) \in failing
    BY <2>1, LeastNat DEF Min
  <2> QED  BY <1>2, <2>2 DEF FirstFailure
<1>4. \A i \in DOMAIN spec.splits : CheckSplit(spec, i, own) = OK
  BY <1>3
<1> QED  BY <1>1, <1>2, <1>4 DEF CheckSplit

\* The splits of an accepted request go to different places, each either claimed
\* from the transaction itself or new.
LEMMA PlacesDiffer ==
    ASSUME NEW spec \in Specs, NEW own, PlanTransaction(spec, own) = OK, NEW p \in Places(spec)
    PROVE  /\ DOMAIN p = DOMAIN spec.splits
           /\ \A i \in DOMAIN p : p[i] \in SplitGuids
           /\ \A i \in DOMAIN p : p[i] \in own \/ p[i] \notin used
           /\ \A i \in DOMAIN p : spec.splits[i].guid # NoGuid => p[i] = spec.splits[i].guid
           /\ \A i, j \in DOMAIN p : p[i] = p[j] => i = j
<1>1. /\ DOMAIN p = DOMAIN spec.splits /\ \A i \in DOMAIN p : p[i] \in SplitGuids
      /\ \A i \in DOMAIN p :
            IF spec.splits[i].guid # NoGuid THEN p[i] = spec.splits[i].guid
            ELSE p[i] \notin used /\ \A j \in DOMAIN p \ {i} : p[j] # p[i]
  BY DEF Places
<1>2. \A i \in DOMAIN p : spec.splits[i].guid # NoGuid =>
         /\ spec.splits[i].guid \in own
         /\ \A j \in 1 .. i - 1 : spec.splits[j].guid # spec.splits[i].guid
  BY <1>1, PlanPasses DEF CheckClaim, OK
<1>3. ASSUME NEW i \in DOMAIN p, NEW j \in DOMAIN p, i < j PROVE p[i] # p[j]
  <2>1. i \in 1 .. j - 1 /\ i # j
    BY <1>1, <1>3, SpecSplits
  <2>2. CASE spec.splits[i].guid # NoGuid /\ spec.splits[j].guid # NoGuid
    BY <1>1, <1>2, <2>1, <2>2
  <2>3. CASE spec.splits[i].guid = NoGuid \/ spec.splits[j].guid = NoGuid
    BY <1>1, <2>1, <2>3
  <2> QED  BY <2>2, <2>3
<1>4. ASSUME NEW i \in DOMAIN p, NEW j \in DOMAIN p, p[i] = p[j] PROVE i = j
  <2>1. i \in Nat /\ j \in Nat
    BY <1>1, SpecSplits
  <2>2. ~(i < j) /\ ~(j < i)
    BY <1>3, <1>4
  <2> QED  BY <2>1, <2>2
<1> QED  BY <1>1, <1>2, <1>4
-----------------------------------------------------------------------------
(* What an edit does                                                        *)

LEMMA EditFacts ==
    ASSUME LedgerInv, NEW t \in TxnGuids, NEW spec \in Specs,
           NEW own \in SUBSET SplitsOf(splits, t), PlanTransaction(spec, own) = OK,
           NEW p \in Places(spec), Edit(t, spec, p)
    PROVE  /\ \A i \in DOMAIN p : splits'[p[i]] = SplitFrom(t, spec.splits[i])
           /\ \A s \in SplitGuids \ {p[i] : i \in DOMAIN p} :
                 splits'[s] = IF s \in SplitsOf(splits, t) THEN Absent ELSE splits[s]
           /\ splits' = [s \in SplitGuids |-> splits'[s]]
           /\ txns' = [txns EXCEPT ![t] = TxnFrom(spec)]
           /\ used' = used \cup {t} \cup {p[i] : i \in DOMAIN p}
           /\ last'.txn = t /\ last'.spec = spec
           /\ last'.response = TransactionToProto(t, TxnFrom(spec), Edited(t, spec, p), Doomed(t, p))
           /\ SplitsOf(splits', t) = {p[i] : i \in DOMAIN p}
<1> DEFINE R == {p[i] : i \in DOMAIN p}
<1>1. /\ txns' = [txns EXCEPT ![t] = TxnFrom(spec)]
      /\ splits' = CommitEdit(Edited(t, spec, p), Doomed(t, p))
      /\ used' = used \cup {t} \cup R
      /\ last' = [txn |-> t, spec |-> spec, code |-> OK,
                  response |-> TransactionToProto(t, TxnFrom(spec), Edited(t, spec, p), Doomed(t, p))]
  BY DEF Edit
<1>2. /\ R \subseteq SplitGuids /\ DOMAIN p = DOMAIN spec.splits
      /\ \A i, j \in DOMAIN p : p[i] = p[j] => i = j
      /\ DOMAIN p \subseteq Nat
  BY PlacesDiffer, SpecSplits
<1>3. ASSUME NEW i \in DOMAIN p
      PROVE  Edited(t, spec, p)[p[i]] = SplitFrom(t, spec.splits[i])
  <2> DEFINE k == CHOOSE k \in DOMAIN p : p[k] = p[i] /\ \A j \in DOMAIN p : p[j] = p[i] => j <= k
  <2>1. i <= i /\ \A j \in DOMAIN p : p[j] = p[i] => j <= i
    BY <1>2
  <2>2. k \in DOMAIN p /\ p[k] = p[i]
    BY <2>1
  <2>3. k = i
    BY <1>2, <2>2
  <2>4. p[i] \in SplitGuids
    BY <1>2
  <2>5. Edited(t, spec, p)[p[i]] = SplitFrom(t, spec.splits[k])
    BY <2>4 DEF Edited
  <2> HIDE DEF k
  <2> QED  BY <2>3, <2>5
<1>4. ASSUME NEW i \in DOMAIN p PROVE splits'[p[i]] = SplitFrom(t, spec.splits[i])
  <2>1. p[i] \in SplitGuids /\ p[i] \notin Doomed(t, p)
    BY <1>2 DEF Doomed
  <2> QED  BY <1>1, <1>3, <2>1 DEF CommitEdit
<1>5. ASSUME NEW s \in SplitGuids \ R
      PROVE  splits'[s] = IF s \in SplitsOf(splits, t) THEN Absent ELSE splits[s]
  <2>1. Edited(t, spec, p)[s] = splits[s]
    BY DEF Edited
  <2>2. s \in Doomed(t, p) <=> s \in SplitsOf(splits, t)
    BY DEF Doomed
  <2> QED  BY <1>1, <2>1, <2>2 DEF CommitEdit
<1>6. splits' = [s \in SplitGuids |-> splits'[s]]
  BY <1>1 DEF CommitEdit
<1>7. SplitsOf(splits', t) = R
  <2>1. ASSUME NEW s \in R PROVE s \in SplitsOf(splits', t)
    <3>1. PICK i \in DOMAIN p : s = p[i]
      OBVIOUS
    <3>2. splits'[s] = SplitFrom(t, spec.splits[i]) /\ s \in SplitGuids
      BY <1>2, <1>4, <3>1
    <3>3. SplitFrom(t, spec.splits[i]) # Absent /\ SplitFrom(t, spec.splits[i]).txn = t
      BY <1>2, AbsentAssumption DEF SplitFrom
    <3> QED  BY <3>2, <3>3 DEF SplitsOf
  <2>2. ASSUME NEW s \in SplitsOf(splits', t), s \notin R PROVE FALSE
    <3>1. s \in SplitGuids \ R /\ splits'[s] # Absent /\ splits'[s].txn = t
      BY <2>2 DEF SplitsOf
    <3>2. s \notin SplitsOf(splits, t) /\ splits'[s] = splits[s]
      BY <1>5, <3>1
    <3> QED  BY <3>1, <3>2 DEF SplitsOf
  <2> QED  BY <2>1, <2>2
<1> QED  BY <1>1, <1>4, <1>5, <1>6, <1>7

\* The response is taken with the doomed splits left out, which is what the
\* commit leaves.
LEMMA EditResponse ==
    ASSUME LedgerInv, NEW t \in TxnGuids, NEW spec \in Specs, NEW p \in Places(spec),
           Edit(t, spec, p)
    PROVE  ResponseIsCommitted'
<1> DEFINE b == Edited(t, spec, p)
           D == Doomed(t, p)
<1>1. /\ last'.txn = t /\ splits' = CommitEdit(b, D)
      /\ last'.response = TransactionToProto(t, TxnFrom(spec), b, D)
  BY DEF Edit
<1>2. txns'[t] = TxnFrom(spec)
  BY DEF Edit, LedgerInv
<1> HIDE DEF b, D
<1>3. SplitsOf(splits', t) = SplitsOf(b, t) \ D
  BY <1>1 DEF SplitsOf, CommitEdit
<1>4. \A s \in SplitsOf(b, t) \ D : splits'[s] = b[s]
  BY <1>1 DEF SplitsOf, CommitEdit
<1>5. {[guid |-> s, split |-> b[s]] : s \in SplitsOf(b, t) \ D}
         = {[guid |-> s, split |-> splits'[s]] : s \in SplitsOf(splits', t) \ {}}
  BY <1>3, <1>4
<1>6. last'.response = TransactionToProto(t, TxnFrom(spec), splits', {})
  BY <1>1, <1>5 DEF TransactionToProto
<1>7. TransactionToProto(t, TxnFrom(spec), splits', {})
         = TransactionToProto(last.txn, txns[last.txn], splits, {})'
  BY <1>1, <1>2 DEF TransactionToProto, SplitsOf
<1> QED  BY <1>6, <1>7 DEF ResponseIsCommitted

\* The years that pass the range check are the ones a GDateYear holds.
LEMMA YearsFit ==
    ASSUME NEW year \in Int, CheckDate(year) = OK
    PROVE  GDateYear(year) = year
<1> DEFINE m == 2 ^ YearBits
<1>1. m \in Int
  BY LedgerAssumption
<1>2. 1 <= year /\ year <= m - 1
  BY <1>1 DEF CheckDate, OK
<1> HIDE DEF m
<1>3. year % m = year
  BY <1>1, <1>2
<1> QED  BY <1>3 DEF GDateYear, m

LEMMA EditReplaces ==
    ASSUME LedgerInv, NEW t \in TxnGuids, NEW spec \in Specs,
           NEW own \in SUBSET SplitsOf(splits, t), PlanTransaction(spec, own) = OK,
           NEW p \in Places(spec), Edit(t, spec, p)
    PROVE  FullReplacement'
<1>1. /\ \A i \in DOMAIN p : splits'[p[i]] = SplitFrom(t, spec.splits[i])
      /\ txns' = [txns EXCEPT ![t] = TxnFrom(spec)] /\ last'.txn = t /\ last'.spec = spec
      /\ SplitsOf(splits', t) = {p[i] : i \in DOMAIN p}
  BY EditFacts
<1>2. /\ DOMAIN p = DOMAIN spec.splits
      /\ \A i \in DOMAIN p : spec.splits[i].guid # NoGuid => p[i] = spec.splits[i].guid
      /\ \A i, j \in DOMAIN p : p[i] = p[j] => i = j
  BY PlacesDiffer
<1> DEFINE R == SplitsOf(splits', t)
<1>3. Cardinality(R) = Len(spec.splits)
  <2> DEFINE D == 1 .. Len(spec.splits)
             f == [i \in D |-> p[i]]
  <2>1. DOMAIN p = D /\ Len(spec.splits) \in Nat
    BY <1>2, SpecSplits
  <2>2. f \in [D -> R] /\ \A i, j \in D : f[i] = f[j] => i = j
    BY <1>1, <1>2, <2>1
  <2>3. \A s \in R : \E i \in D : f[i] = s
    BY <1>1, <2>1
  <2>4. IsFiniteSet(D) /\ Cardinality(D) = Len(spec.splits)
    BY <2>1, FS_Interval
  <2> HIDE DEF f, D
  <2>5. f \in Bijection(D, R)
    BY <2>2, <2>3, Fun_IsBij
  <2>6. Cardinality(R) = Cardinality(D)
    BY <2>4, <2>5, FS_Bijection DEF ExistsBijection
  <2> QED  BY <2>4, <2>6
<1>4. txns'[t].date = spec.date
  <2>1. txns'[t] = TxnFrom(spec)
    BY <1>1 DEF LedgerInv
  <2>2. spec.date \in Int /\ CheckDate(spec.date) = OK
    BY SpecAssumption, PlanPasses
  <2> QED  BY <2>1, <2>2, YearsFit DEF TxnFrom
<1>5. ASSUME NEW i \in DOMAIN spec.splits
      PROVE  \E s \in R : /\ splits'[s].account = spec.splits[i].account
                          /\ splits'[s].value = spec.splits[i].value
                          /\ splits'[s].state = Reconcile(spec.splits[i].state)
                          /\ spec.splits[i].guid # NoGuid => s = spec.splits[i].guid
  <2>1. p[i] \in R /\ splits'[p[i]] = SplitFrom(t, spec.splits[i])
    BY <1>1, <1>2
  <2> QED  BY <1>2, <2>1 DEF SplitFrom
<1>6. R = SplitsOf(splits, last.txn)'
  BY <1>1 DEF SplitsOf
<1> HIDE DEF R
<1> QED  BY <1>1, <1>3, <1>4, <1>5, <1>6 DEF FullReplacement
-----------------------------------------------------------------------------
(* The structure of the book                                                *)

\* Update and post both edit with what they own; a post owns nothing, under a
\* GUID that nobody has.
LEMMA MutationCases ==
    ASSUME LedgerInv, Mutation
    PROVE  \/ \E t \in TxnGuids, spec \in Specs, own \in SUBSET SplitGuids : \E p \in Places(spec) :
                 /\ own \subseteq SplitsOf(splits, t) /\ PlanTransaction(spec, own) = OK
                 /\ Edit(t, spec, p)
           \/ \E c : c # OK /\ Refused(c)
           \/ \E t \in TxnGuids :
                 /\ txns' = [txns EXCEPT ![t] = Absent]
                 /\ splits' = CommitEdit(splits, SplitsOf(splits, t))
                 /\ used' = used
                 /\ last'.spec = Absent /\ last'.response = Absent
<1>1. PICK t \in TxnGuids : \/ \E spec \in Specs : PostTransaction(t, spec) \/ UpdateTransaction(t, spec)
                            \/ DeleteTransaction(t)
  BY DEF Mutation
<1>2. CASE DeleteTransaction(t)
  <2>1. "TXN_NOT_FOUND" # OK
    BY DEF OK
  <2> QED  BY <1>2, <2>1 DEF DeleteTransaction
<1>3. ASSUME NEW spec \in Specs, PostTransaction(t, spec)
      PROVE  \/ \E own \in SUBSET SplitGuids : \E p \in Places(spec) :
                   /\ own \subseteq SplitsOf(splits, t) /\ PlanTransaction(spec, own) = OK
                   /\ Edit(t, spec, p)
             \/ \E c : c # OK /\ Refused(c)
  <2>1. {} \in SUBSET SplitGuids /\ {} \subseteq SplitsOf(splits, t)
    OBVIOUS
  <2> QED  BY <1>3, <2>1 DEF PostTransaction
<1>4. ASSUME NEW spec \in Specs, UpdateTransaction(t, spec)
      PROVE  \/ \E own \in SUBSET SplitGuids : \E p \in Places(spec) :
                   /\ own \subseteq SplitsOf(splits, t) /\ PlanTransaction(spec, own) = OK
                   /\ Edit(t, spec, p)
             \/ \E c : c # OK /\ Refused(c)
  <2> DEFINE verdict == IF txns[t] = Absent THEN "TXN_NOT_FOUND"
                        ELSE PlanTransaction(spec, SplitsOf(splits, t))
  <2>1. \/ verdict # OK /\ Refused(verdict)
        \/ verdict = OK /\ \E p \in Places(spec) : Edit(t, spec, p)
    BY <1>4 DEF UpdateTransaction
  <2>2. verdict = OK => PlanTransaction(spec, SplitsOf(splits, t)) = OK
    BY DEF OK
  <2>3. SplitsOf(splits, t) \in SUBSET SplitGuids /\ SplitsOf(splits, t) \subseteq SplitsOf(splits, t)
    BY DEF SplitsOf
  <2> HIDE DEF verdict
  <2> QED  BY <2>1, <2>2, <2>3
<1> QED  BY <1>1, <1>2, <1>3, <1>4

LEMMA EditKeepsBook ==
    ASSUME LedgerInv, NEW t \in TxnGuids, NEW spec \in Specs,
           NEW own \in SUBSET SplitsOf(splits, t), PlanTransaction(spec, own) = OK,
           NEW p \in Places(spec), Edit(t, spec, p)
    PROVE  /\ LedgerInv'
           /\ \A s \in used \cap SplitGuids : splits[s] = Absent => splits'[s] = Absent
<1> DEFINE R == {p[i] : i \in DOMAIN p}
<1>1. /\ \A i \in DOMAIN p : splits'[p[i]] = SplitFrom(t, spec.splits[i])
      /\ \A s \in SplitGuids \ R : splits'[s] = IF s \in SplitsOf(splits, t) THEN Absent ELSE splits[s]
      /\ splits' = [s \in SplitGuids |-> splits'[s]]
      /\ txns' = [txns EXCEPT ![t] = TxnFrom(spec)]
      /\ used' = used \cup {t} \cup R /\ SplitsOf(splits', t) = R
  BY EditFacts
<1>2. /\ R \subseteq SplitGuids
      /\ \A s \in R : s \in SplitsOf(splits, t) \/ s \notin used
      /\ DOMAIN p = DOMAIN spec.splits
  BY PlacesDiffer
<1>3. R # {}
  BY <1>2, PlanPasses, SpecSplits
<1>4. \A s \in R : splits'[s].txn = t
  <2>1. \A i \in DOMAIN p : SplitFrom(t, spec.splits[i]).txn = t
    BY DEF SplitFrom
  <2>2. \A i \in DOMAIN p : splits'[p[i]].txn = t
    BY <1>1, <2>1
  <2> QED  BY <2>2
<1> HIDE DEF R
<1>5. /\ txns' = [u \in TxnGuids |-> txns'[u]] /\ txns'[t] = TxnFrom(spec)
      /\ \A u \in TxnGuids \ {t} : txns'[u] = txns[u]
  BY <1>1 DEF LedgerInv
<1>6. txns'[t] # Absent /\ txns'[t].date \in Int
  <2>1. TxnFrom(spec) # Absent
    BY AbsentAssumption
  <2>2. TxnFrom(spec).date = spec.date /\ spec.date \in Int
    BY SpecAssumption, PlanPasses, YearsFit DEF TxnFrom
  <2> QED  BY <1>5, <2>1, <2>2
<1>7. \A s \in Live : s \in used /\ splits[s].txn \in TxnsOf(txns) /\ s \in SplitGuids
  BY DEF LedgerInv, Live
<1>8. ASSUME NEW s \in used \cap SplitGuids, splits[s] = Absent PROVE splits'[s] = Absent
  <2>1. s \notin SplitsOf(splits, t)
    BY <1>8 DEF SplitsOf
  <2> QED  BY <1>1, <1>2, <1>8, <2>1
<1>9. ASSUME NEW u \in TxnsOf(txns')
      PROVE  u \in used' /\ txns'[u].date \in Int /\ SplitsOf(splits', u) # {}
  <2>1. CASE u = t
    BY <1>1, <1>3, <1>6, <2>1
  <2>2. CASE u # t
    <3>1. u \in TxnsOf(txns) /\ txns'[u] = txns[u]
      BY <1>5, <2>2 DEF TxnsOf
    <3>2. u \in used /\ txns[u].date \in Int /\ SplitsOf(splits, u) # {}
      BY <3>1 DEF LedgerInv
    <3>3. PICK s \in SplitsOf(splits, u) : TRUE
      BY <3>2
    <3>4. s \in SplitGuids /\ splits[s] # Absent /\ splits[s].txn = u /\ s \in used
      BY <1>7 DEF SplitsOf, Live
    <3>5. s \notin SplitsOf(splits, t)
      BY <2>2, <3>4 DEF SplitsOf
    <3>6. splits'[s] = splits[s]
      BY <1>1, <1>2, <3>4, <3>5
    <3>7. s \in SplitsOf(splits', u)
      BY <3>4, <3>6 DEF SplitsOf
    <3> QED  BY <1>1, <3>1, <3>2, <3>7
  <2> QED  BY <2>1, <2>2
<1>10. ASSUME NEW s \in Live' PROVE s \in used' /\ splits'[s].txn \in TxnsOf(txns')
  <2>0. s \in SplitGuids /\ splits'[s] # Absent
    BY DEF Live
  <2>1. CASE s \in R
    BY <1>1, <1>4, <1>6, <2>1 DEF TxnsOf
  <2>2. CASE s \notin R
    <3>1. splits'[s] = splits[s]
      BY <1>1, <2>0, <2>2
    <3>2. s \in Live
      BY <2>0, <3>1 DEF Live
    <3>3. s \in used /\ splits[s].txn \in TxnsOf(txns)
      BY <1>7, <3>2
    <3>4. \A u \in TxnsOf(txns) : u \in TxnsOf(txns')
      BY <1>5, <1>6 DEF TxnsOf
    <3> QED  BY <1>1, <3>1, <3>3, <3>4
  <2> QED  BY <2>1, <2>2
<1>11. TxnsOf(txns)' = TxnsOf(txns') /\ \A u : SplitsOf(splits, u)' = SplitsOf(splits', u)
  BY DEF TxnsOf, SplitsOf
<1> QED  BY <1>1, <1>5, <1>8, <1>9, <1>10, <1>11 DEF LedgerInv

\* A transaction takes its splits with it, and nobody else's.
LEMMA DeleteKeepsBook ==
    ASSUME LedgerInv, NEW t \in TxnGuids, txns' = [txns EXCEPT ![t] = Absent],
           splits' = CommitEdit(splits, SplitsOf(splits, t)), used' = used
    PROVE  /\ LedgerInv'
           /\ \A s \in used \cap SplitGuids : splits[s] = Absent => splits'[s] = Absent
<1>1. /\ txns' = [u \in TxnGuids |-> txns'[u]] /\ txns'[t] = Absent
      /\ \A u \in TxnGuids \ {t} : txns'[u] = txns[u]
  BY DEF LedgerInv
<1>2. /\ splits' = [s \in SplitGuids |-> splits'[s]]
      /\ \A s \in SplitGuids : splits'[s] = IF s \in SplitsOf(splits, t) THEN Absent ELSE splits[s]
  BY DEF CommitEdit
<1>3. ASSUME NEW u \in TxnsOf(txns')
      PROVE  u \in used' /\ txns'[u].date \in Int /\ SplitsOf(splits', u) # {}
  <2>1. u # t /\ u \in TxnsOf(txns) /\ txns'[u] = txns[u]
    BY <1>1 DEF TxnsOf
  <2>2. u \in used /\ txns[u].date \in Int /\ SplitsOf(splits, u) # {}
    BY <2>1 DEF LedgerInv
  <2>3. PICK s \in SplitsOf(splits, u) : TRUE
    BY <2>2
  <2>4. s \in SplitsOf(splits', u)
    BY <1>2, <2>1 DEF SplitsOf
  <2> QED  BY <2>1, <2>2, <2>4
<1>4. ASSUME NEW s \in Live' PROVE s \in used' /\ splits'[s].txn \in TxnsOf(txns')
  <2>1. /\ s \in SplitGuids /\ splits'[s] = splits[s] /\ splits[s] # Absent
        /\ s \notin SplitsOf(splits, t)
    BY <1>2 DEF Live
  <2>2. s \in used /\ splits[s].txn \in TxnsOf(txns) /\ splits[s].txn # t
    BY <2>1 DEF LedgerInv, Live, SplitsOf
  <2> QED  BY <1>1, <2>1, <2>2 DEF TxnsOf
<1>5. TxnsOf(txns)' = TxnsOf(txns') /\ \A u : SplitsOf(splits, u)' = SplitsOf(splits', u)
  BY DEF TxnsOf, SplitsOf
<1> QED  BY <1>1, <1>2, <1>3, <1>4, <1>5 DEF LedgerInv

\* What a mutation does: it keeps the book in order, answers truly, and never
\* brings back a split that is gone.
LEMMA MutationKeepsBook ==
    ASSUME LedgerInv, Mutation
    PROVE  /\ LedgerInv' /\ FullReplacement' /\ ResponseIsCommitted'
           /\ \A s \in used \cap SplitGuids : splits[s] = Absent => splits'[s] = Absent
           /\ used \subseteq used'
<1>1. ASSUME NEW t \in TxnGuids, NEW spec \in Specs, NEW own \in SUBSET SplitGuids,
             NEW p \in Places(spec), own \subseteq SplitsOf(splits, t),
             PlanTransaction(spec, own) = OK, Edit(t, spec, p)
      PROVE  /\ LedgerInv' /\ FullReplacement' /\ ResponseIsCommitted'
             /\ \A s \in used \cap SplitGuids : splits[s] = Absent => splits'[s] = Absent
             /\ used \subseteq used'
  <2>1. own \in SUBSET SplitsOf(splits, t)
    BY <1>1
  <2>2. /\ LedgerInv'
        /\ \A s \in used \cap SplitGuids : splits[s] = Absent => splits'[s] = Absent
    BY <1>1, <2>1, EditKeepsBook
  <2>3. FullReplacement' /\ ResponseIsCommitted'
    BY <1>1, <2>1, EditReplaces, EditResponse
  <2>4. used \subseteq used'
    BY <1>1 DEF Edit
  <2> QED  BY <2>2, <2>3, <2>4
<1>2. ASSUME NEW c, c # OK, Refused(c)
      PROVE  /\ LedgerInv' /\ FullReplacement' /\ ResponseIsCommitted'
             /\ \A s \in used \cap SplitGuids : splits[s] = Absent => splits'[s] = Absent
             /\ used \subseteq used'
  <2>1. UNCHANGED <<txns, splits, used>> /\ last'.code = c /\ last'.response = Absent
    BY <1>2 DEF Refused, book
  <2>2. LedgerInv'
    BY <2>1 DEF LedgerInv, TxnsOf, SplitsOf, Live
  <2>3. FullReplacement' /\ ResponseIsCommitted'
    BY <1>2, <2>1 DEF FullReplacement, ResponseIsCommitted
  <2> QED  BY <2>1, <2>2, <2>3
<1>3. ASSUME NEW t \in TxnGuids, txns' = [txns EXCEPT ![t] = Absent],
             splits' = CommitEdit(splits, SplitsOf(splits, t)), used' = used,
             last'.spec = Absent, last'.response = Absent
      PROVE  /\ LedgerInv' /\ FullReplacement' /\ ResponseIsCommitted'
             /\ \A s \in used \cap SplitGuids : splits[s] = Absent => splits'[s] = Absent
             /\ used \subseteq used'
  <2>1. FullReplacement' /\ ResponseIsCommitted'
    BY <1>3 DEF FullReplacement, ResponseIsCommitted
  <2> QED  BY <1>3, <2>1, DeleteKeepsBook
<1> QED  BY <1>1, <1>2, <1>3, MutationCases
-----------------------------------------------------------------------------
(* The order of the results, and pages of it                                *)

\* Posting date and GUID order the splits of the book totally.
LEMMA BeforeIsOrder ==
    ASSUME LedgerInv
    PROVE  /\ \A r \in Live : ~Before(r, r)
           /\ \A r, s \in Live : r = s \/ Before(r, s) \/ Before(s, r)
           /\ \A r, s \in Live : Before(r, s) => ~Before(s, r)
           /\ \A r, s, u \in Live : Before(r, s) /\ Before(s, u) => Before(r, u)
<1> DEFINE date(s) == txns[splits[s].txn].date
<1>1. \A s \in Live : s \in Int /\ date(s) \in Int
  BY LedgerAssumption DEF LedgerInv, Live
<1>2. \A r, s : Before(r, s) <=> (date(r) < date(s) \/ (date(r) = date(s) /\ r < s))
  BY DEF Before
<1> HIDE DEF date
<1> QED  BY <1>1, <1>2

\* Of finitely many, one has the least number.
LEMMA LeastBy ==
    ASSUME NEW S, S # {}, NEW f \in [S -> Nat]
    PROVE  \E x \in S : \A y \in S : f[x] <= f[y]
<1> DEFINE V == {f[x] : x \in S}
<1>1. V \in SUBSET Nat /\ V # {}
  OBVIOUS
<1>2. PICK v \in V : \A w \in V : v <= w
  BY <1>1, LeastNat
<1> QED  BY <1>2

LEMMA LiveIsFinite ==
    ASSUME NEW S \in SUBSET Live
    PROVE  IsFiniteSet(S) /\ Cardinality(S) \in Nat
<1>1. S \in SUBSET SplitGuids
  BY DEF Live
<1> QED  BY <1>1, LedgerAssumption, FS_Subset, FS_CardinalityType

\* A set of splits has a first one and a last one.
LEMMA Ends ==
    ASSUME LedgerInv, NEW S \in SUBSET Live, S # {}
    PROVE  /\ \E s \in S : \A r \in S : ~Before(r, s)
           /\ LastOf(S) \in S /\ \A r \in S : r = LastOf(S) \/ Before(r, LastOf(S))
<1> USE BeforeIsOrder
<1>1. \E s \in S : \A r \in S : ~Before(r, s)
  <2> DEFINE N(s) == {r \in S : Before(r, s)}
             f == [s \in S |-> Cardinality(N(s))]
  <2>1. \A s \in S : IsFiniteSet(N(s)) /\ Cardinality(N(s)) \in Nat
    BY LiveIsFinite
  <2>2. f \in [S -> Nat] /\ \A s \in S : f[s] = Cardinality(N(s))
    BY <2>1
  <2> HIDE DEF f
  <2>3. PICK s \in S : \A r \in S : f[s] <= f[r]
    BY <2>2, LeastBy
  <2>4. ASSUME NEW r \in S, Before(r, s) PROVE FALSE
    <3>1. N(r) \in SUBSET N(s) /\ r \in N(s) /\ r \notin N(r)
      BY <2>4
    <3>2. Cardinality(N(r)) <= Cardinality(N(s)) /\ Cardinality(N(r)) # Cardinality(N(s))
      BY <2>1, <3>1, FS_Subset
    <3> QED  BY <2>1, <2>2, <2>3, <3>2
  <2> QED  BY <2>4
<1>2. \E s \in S : \A r \in S : r = s \/ Before(r, s)
  <2> DEFINE N(s) == {r \in S : Before(s, r)}
             f == [s \in S |-> Cardinality(N(s))]
  <2>1. \A s \in S : IsFiniteSet(N(s)) /\ Cardinality(N(s)) \in Nat
    BY LiveIsFinite
  <2>2. f \in [S -> Nat] /\ \A s \in S : f[s] = Cardinality(N(s))
    BY <2>1
  <2> HIDE DEF f
  <2>3. PICK s \in S : \A r \in S : f[s] <= f[r]
    BY <2>2, LeastBy
  <2>4. ASSUME NEW r \in S, Before(s, r) PROVE FALSE
    <3>1. N(r) \in SUBSET N(s) /\ r \in N(s) /\ r \notin N(r)
      BY <2>4
    <3>2. Cardinality(N(r)) <= Cardinality(N(s)) /\ Cardinality(N(r)) # Cardinality(N(s))
      BY <2>1, <3>1, FS_Subset
    <3> QED  BY <2>1, <2>2, <2>3, <3>2
  <2> QED  BY <2>4
<1> QED  BY <1>1, <1>2 DEF LastOf

\* A page is the beginning of what there is, and not empty if anything is there.
LEMMA PageFacts ==
    ASSUME LedgerInv, NEW S \in SUBSET Live, NEW n \in Nat \ {0}
    PROVE  /\ FirstOf(S, n) \subseteq S
           /\ S # {} => FirstOf(S, n) # {}
           /\ \A s \in FirstOf(S, n), r \in S \ FirstOf(S, n) : Before(s, r)
<1> USE BeforeIsOrder
<1> DEFINE N(s) == {r \in S : Before(r, s)}
           P == FirstOf(S, n)
<1>1. P = {s \in S : Cardinality(N(s)) < n}
  BY DEF FirstOf
<1>2. \A s \in S : IsFiniteSet(N(s)) /\ Cardinality(N(s)) \in Nat
  BY LiveIsFinite
<1>3. ASSUME S # {} PROVE P # {}
  <2>1. PICK s \in S : \A r \in S : ~Before(r, s)
    BY <1>3, Ends
  <2>2. N(s) = {}
    BY <2>1
  <2>3. Cardinality(N(s)) = 0
    BY <2>2, FS_EmptySet
  <2> QED  BY <1>1, <2>3
<1>4. ASSUME NEW s \in P, NEW r \in S \ P PROVE Before(s, r)
  <2>1. s \in S /\ r \in S /\ s # r
    BY <1>1
  <2>2. SUFFICES ASSUME Before(r, s) PROVE FALSE
    BY <2>1
  <2>3. N(r) \in SUBSET N(s)
    BY <2>1, <2>2
  <2>4. Cardinality(N(r)) <= Cardinality(N(s))
    BY <1>2, <2>1, <2>3, FS_Subset
  <2>5. Cardinality(N(s)) < n /\ ~(Cardinality(N(r)) < n)
    BY <1>1
  <2>6. Cardinality(N(s)) \in Nat /\ Cardinality(N(r)) \in Nat /\ n \in Nat
    BY <1>2, <2>1
  <2> HIDE DEF N
  <2> QED  BY <2>4, <2>5, <2>6
<1> QED  BY <1>1, <1>3, <1>4

LEMMA PageSizeIsPositive ==
    ASSUME NEW q \in Queries
    PROVE  PageSize(q.page_size) \in Nat \ {0}
  BY QueryAssumption DEF PageSize

\* The page after tok, and the token that comes with it.
LEMMA TokenFacts ==
    ASSUME LedgerInv, NEW q \in Queries, NEW tok
    PROVE  /\ Page(q, tok) \subseteq Rest(q, tok)
           /\ Rest(q, tok) # {} => Page(q, tok) # {}
           /\ NextToken(q, tok) = NoGuid => Page(q, tok) = Rest(q, tok)
           /\ NextToken(q, tok) # NoGuid =>
                 /\ NextToken(q, tok) \in Page(q, tok)
                 /\ \A s \in Rest(q, tok) : s \in Page(q, tok) <=> ~Before(NextToken(q, tok), s)
                 /\ \E s \in Rest(q, tok) : Before(NextToken(q, tok), s)
<1> DEFINE S == Rest(q, tok)
           n == PageSize(q.page_size)
           P == Page(q, tok)
<1>1. S \in SUBSET Live /\ n \in Nat \ {0} /\ P = FirstOf(S, n)
  BY PageSizeIsPositive DEF Rest, Results, Page
<1>2. NextToken(q, tok) = IF S # P THEN LastOf(P) ELSE NoGuid
  BY DEF NextToken, Page
<1> HIDE DEF S, n, P
<1>3. /\ P \subseteq S /\ (S # {} => P # {})
      /\ \A s \in P, r \in S \ P : Before(s, r)
  BY <1>1, PageFacts
<1>4. ASSUME S # P
      PROVE  /\ LastOf(P) \in P /\ LastOf(P) # NoGuid
             /\ \A s \in S : s \in P <=> ~Before(LastOf(P), s)
             /\ \E s \in S : Before(LastOf(P), s)
  <2>1. P # {} /\ P \in SUBSET Live
    BY <1>1, <1>3, <1>4
  <2>2. LastOf(P) \in P /\ \A r \in P : r = LastOf(P) \/ Before(r, LastOf(P))
    BY <2>1, Ends
  <2>3. LastOf(P) # NoGuid
    BY <2>1, <2>2, LedgerAssumption DEF Live
  <2>4. \A s \in P : ~Before(LastOf(P), s)
    BY <2>1, <2>2, BeforeIsOrder
  <2>5. \A s \in S \ P : Before(LastOf(P), s)
    BY <1>3, <2>2
  <2>6. S \ P # {}
    BY <1>3, <1>4
  <2> QED  BY <2>2, <2>3, <2>4, <2>5, <2>6
<1> QED  BY <1>2, <1>3, <1>4 DEF S, P
-----------------------------------------------------------------------------
(* The client                                                               *)

ReadInHand ==
    /\ query \in Queries /\ seen \in [SplitGuids -> Nat]
    /\ moved \in BOOLEAN /\ quiet \in BOOLEAN
    /\ read \in {"idle", "reading", "done", "refused"}
    /\ IF read = "reading" THEN token \in SplitGuids \cap used ELSE token = NoGuid

SteadyInHand == \A s \in steady : s \in Results(query) /\ InRange(query, s)

\* While its token stands where it stood, the client has seen exactly what is
\* not behind it.
PagesInHand ==
    ~moved => \A s \in steady :
        /\ seen[s] <= 1
        /\ read = "done" => seen[s] = 1
        /\ read = "reading" /\ splits[token] # Absent =>
              seen[s] = IF Before(token, s) THEN 0 ELSE 1

TokenInHand ==
    read = "reading" /\ quiet => token \in Results(query) /\ Rest(query, token) # {}

QueryInv == LedgerInv /\ ReadInHand /\ SteadyInHand /\ PagesInHand /\ TokenInHand

LEMMA QueryInvInit == Init => QueryInv
<1> SUFFICES ASSUME Init PROVE QueryInv
  OBVIOUS
<1>1. LedgerInv
  BY DEF Init, LedgerInit, LedgerInv, TxnsOf, SplitsOf, Live
<1>2. ReadInHand /\ SteadyInHand /\ PagesInHand /\ TokenInHand
  BY DEF Init, ReadInHand, SteadyInHand, PagesInHand, TokenInHand
<1> QED  BY <1>1, <1>2 DEF QueryInv

\* Between two mutations nothing of the order or of the results changes.
LEMMA SameBook ==
    ASSUME UNCHANGED <<txns, splits, used>>, LedgerInv
    PROVE  /\ LedgerInv' /\ Live' = Live
           /\ \A q : Results(q)' = Results(q)
           /\ \A q, s : InRange(q, s)' = InRange(q, s)
           /\ \A r, s : Before(r, s)' = Before(r, s)
           /\ \A q, tok : Rest(q, tok)' = Rest(q, tok)
<1>1. Live' = Live
  BY DEF Live
<1>2. LedgerInv'
  BY DEF LedgerInv, TxnsOf, SplitsOf, Live
<1>3. \A q, s : InRange(q, s)' = InRange(q, s)
  BY DEF InRange
<1>4. \A r, s : Before(r, s)' = Before(r, s)
  BY DEF Before
<1>5. \A q : Results(q)' = Results(q)
  BY <1>1 DEF Results, Matches
<1>6. \A q, tok : Rest(q, tok)' = Rest(q, tok)
  BY <1>3, <1>4, <1>5 DEF Rest
<1> QED  BY <1>1, <1>2, <1>3, <1>4, <1>5, <1>6

\* A call: what the client has seen before it is what is not behind tok, and the
\* page brings it to the new token.
LEMMA ReceiveKeeps ==
    ASSUME LedgerInv, NEW q \in Queries, query' = q, steady' \subseteq Results(q),
           \A s \in steady' : InRange(q, s),
           NEW shown \in [SplitGuids -> Nat], Receive(q, shown), moved' \in BOOLEAN,
           token # NoGuid => token \in Live,
           ~moved' => \A s \in steady' :
               shown[s] = IF token = NoGuid \/ Before(token, s) THEN 0 ELSE 1
    PROVE  QueryInv'
<1>1. /\ UNCHANGED <<txns, splits, used>> /\ token' = NextToken(q, token) /\ quiet' = TRUE
      /\ read' = IF token' = NoGuid THEN "done" ELSE "reading"
      /\ seen' = [s \in SplitGuids |-> IF s \in Page(q, token) THEN shown[s] + 1 ELSE shown[s]]
  BY DEF Receive, book
<1> DEFINE P == Page(q, token)
           S == Rest(q, token)
<1>t. PICK tok : tok = NextToken(q, token)
  OBVIOUS
<1>2. /\ P \subseteq S /\ (tok = NoGuid => P = S)
      /\ tok # NoGuid => /\ tok \in P
                         /\ \A s \in S : s \in P <=> ~Before(tok, s)
                         /\ \E s \in S : Before(tok, s)
  BY <1>t, TokenFacts
<1>3. /\ S = {s \in Results(q) : InRange(q, s) /\ (token = NoGuid \/ Before(token, s))}
      /\ S \subseteq Live /\ Results(q) \subseteq Live /\ Live \subseteq SplitGuids /\ Live \subseteq used
  BY DEF Rest, Results, Live, LedgerInv
<1> HIDE DEF P, S
<1>4. /\ LedgerInv' /\ \A s : Before(tok, s)' = Before(tok, s)
      /\ Results(q)' = Results(q) /\ Rest(q, tok)' = Rest(q, tok)
      /\ \A s : InRange(q, s)' = InRange(q, s)
  BY <1>1, SameBook
<1>5. tok # NoGuid => tok \in Live /\ tok \in S
  BY <1>2, <1>3
<1>6. ReadInHand'
  <2>1. seen' \in [SplitGuids -> Nat]
    BY <1>1
  <2>2. IF read' = "reading" THEN token' \in SplitGuids \cap used' ELSE token' = NoGuid
    BY <1>t, <1>1, <1>3, <1>5
  <2> QED  BY <1>1, <2>1, <2>2 DEF ReadInHand
<1>7. SteadyInHand'
  <2>1. Results(query)' = Results(q)' /\ \A s : InRange(query, s)' = InRange(q, s)'
    BY DEF Results, Matches, InRange, Live
  <2> QED  BY <1>4, <2>1 DEF SteadyInHand
<1>8. PagesInHand'
  <2> SUFFICES ASSUME ~moved', NEW s \in steady'
               PROVE  /\ seen'[s] <= 1
                      /\ read' = "done" => seen'[s] = 1
                      /\ read' = "reading" => seen'[s] = IF Before(tok, s) THEN 0 ELSE 1
    <3>1. tok = token' /\ \A s : Before(token, s)' = Before(tok, s)
      BY <1>t, <1>1, <1>4 DEF Before
    <3> QED  BY <3>1 DEF PagesInHand
  <2>1. /\ s \in Results(q) /\ s \in Live /\ InRange(q, s) /\ s \in SplitGuids
        /\ shown[s] = IF token = NoGuid \/ Before(token, s) THEN 0 ELSE 1
        /\ s \in S <=> (token = NoGuid \/ Before(token, s))
    BY <1>3
  <2>2. seen'[s] = IF s \in P THEN shown[s] + 1 ELSE shown[s]
    BY <1>1, <2>1 DEF P
  <2>3. tok = token'
    BY <1>t, <1>1
  <2>4. CASE s \in S
    <3>1. shown[s] = 0 /\ seen'[s] = IF s \in P THEN 1 ELSE 0
      BY <2>1, <2>2, <2>4
    <3> QED  BY <1>1, <1>2, <2>3, <2>4, <3>1
  <2>5. CASE s \notin S
    <3>1. seen'[s] = 1 /\ token # NoGuid /\ ~Before(token, s)
      BY <1>2, <2>1, <2>2, <2>5
    <3>2. ASSUME tok # NoGuid PROVE ~Before(tok, s)
      <4>1. tok \in Live /\ token \in Live /\ Before(token, tok)
        BY <1>3, <1>5, <3>1, <3>2
      <4> QED  BY <2>1, <3>1, <4>1, BeforeIsOrder
    <3> QED  BY <1>1, <2>3, <3>1, <3>2
  <2> QED  BY <2>4, <2>5
<1>9. TokenInHand'
  <2> SUFFICES ASSUME read' = "reading"
               PROVE  tok \in Results(q) /\ Rest(q, tok) # {}
    <3>1. tok = token'
      BY <1>t, <1>1
    <3>2. Results(query)' = Results(q) /\ Rest(query, token)' = Rest(q, tok)
      <4>1. Results(query)' = Results(q)'
        BY DEF Results, Matches, Live
      <4>2. Rest(query, token)' = Rest(q, tok)'
        BY <3>1, <4>1 DEF Rest, InRange, Before
      <4> QED  BY <1>4, <4>1, <4>2
    <3> QED  BY <3>1, <3>2 DEF TokenInHand
  <2>1. tok # NoGuid
    BY <1>t, <1>1
  <2>2. tok \in S /\ \E s \in S : Before(tok, s)
    BY <1>2, <1>5, <2>1
  <2>3. \A s \in S : Before(tok, s) => s \in Rest(q, tok)
    BY <1>3 DEF Rest
  <2> QED  BY <1>3, <2>2, <2>3
<1> QED  BY <1>4, <1>6, <1>7, <1>8, <1>9 DEF QueryInv

\* A mutation between two pages: a steady split stays where it is, and so does
\* the token, unless it moves or is gone for good.
LEMMA MutateKeeps ==
    ASSUME QueryInv, Mutate
    PROVE  QueryInv'
<1>0. LedgerInv /\ ReadInHand /\ SteadyInHand /\ PagesInHand /\ TokenInHand
  BY DEF QueryInv
<1>1. /\ Mutation /\ UNCHANGED <<read, query, token, seen>>
      /\ steady' = {s \in steady : Same(s)}
      /\ moved' = (moved \/ (token # NoGuid /\ splits'[token] # Absent /\ splits[token] # Absent
                              /\ txns'[splits'[token].txn].date # txns[splits[token].txn].date))
      /\ quiet' = (quiet /\ UNCHANGED book)
  BY DEF Mutate
<1>2. /\ LedgerInv' /\ used \subseteq used'
      /\ \A s \in used \cap SplitGuids : splits[s] = Absent => splits'[s] = Absent
  BY <1>0, <1>1, MutationKeepsBook
<1>3. ReadInHand'
  BY <1>0, <1>1, <1>2 DEF ReadInHand
<1>4. \A s \in steady' : /\ s \in steady /\ splits[s] # Absent /\ splits'[s] = splits[s]
                         /\ txns'[splits[s].txn] = txns[splits[s].txn]
  BY <1>1 DEF Same
<1>5. SteadyInHand'
  <2> SUFFICES ASSUME NEW s \in steady' PROVE (s \in Results(query) /\ InRange(query, s))'
    BY DEF SteadyInHand
  <2>1. s \in Live /\ Matches(query, s) /\ InRange(query, s)
    BY <1>0, <1>4 DEF SteadyInHand, Results
  <2>2. s \in Live'
    BY <1>4, <2>1 DEF Live
  <2>3. Matches(query, s)' /\ InRange(query, s)'
    BY <1>1, <1>4, <2>1 DEF Matches, InRange
  <2> QED  BY <2>2, <2>3 DEF Results
<1>6. PagesInHand'
  <2> SUFFICES ASSUME ~moved', NEW s \in steady'
               PROVE  (/\ seen[s] <= 1
                       /\ read = "done" => seen[s] = 1
                       /\ read = "reading" /\ splits[token] # Absent =>
                             seen[s] = IF Before(token, s) THEN 0 ELSE 1)'
    BY DEF PagesInHand
  <2>1. /\ seen[s] <= 1 /\ (read = "done" => seen[s] = 1)
        /\ read = "reading" /\ splits[token] # Absent =>
              seen[s] = IF Before(token, s) THEN 0 ELSE 1
    BY <1>0, <1>1, <1>4 DEF PagesInHand
  <2>2. ASSUME read = "reading", splits'[token] # Absent
        PROVE  splits[token] # Absent /\ Before(token, s)' = Before(token, s)
    <3>1. token \in SplitGuids \cap used /\ token # NoGuid
      BY <1>0, <2>2, LedgerAssumption DEF ReadInHand
    <3>2. splits[token] # Absent
      BY <1>2, <2>2, <3>1
    <3>3. txns'[splits'[token].txn].date = txns[splits[token].txn].date
      BY <1>1, <2>2, <3>1, <3>2
    <3> QED  BY <1>1, <1>4, <3>2, <3>3 DEF Before
  <2>3. read' = read /\ token' = token /\ seen'[s] = seen[s] /\ splits'[token'] = splits'[token]
    BY <1>1
  <2> QED  BY <2>1, <2>2, <2>3
<1>7. TokenInHand'
  <2> SUFFICES ASSUME read' = "reading", quiet' PROVE (token \in Results(query) /\ Rest(query, token) # {})'
    BY DEF TokenInHand
  <2>1. quiet /\ UNCHANGED <<txns, splits, used>>
    BY <1>1 DEF book
  <2>2. token \in Results(query) /\ Rest(query, token) # {}
    BY <1>0, <1>1, <2>1 DEF TokenInHand
  <2>3. Live' = Live
    BY <2>1 DEF Live
  <2>4. Results(query)' = Results(query)
    BY <1>1, <2>1, <2>3 DEF Results, Matches
  <2>5. Rest(query, token)' = Rest(query, token)
    BY <1>1, <2>1, <2>4 DEF Rest, InRange, Before
  <2> QED  BY <1>1, <2>2, <2>4, <2>5
<1> QED  BY <1>2, <1>3, <1>5, <1>6, <1>7 DEF QueryInv

LEMMA QueryInvStep == QueryInv /\ [Next]_vars => QueryInv'
<1> SUFFICES ASSUME QueryInv, [Next]_vars PROVE QueryInv'
  OBVIOUS
<1>0. LedgerInv /\ ReadInHand /\ SteadyInHand /\ PagesInHand /\ TokenInHand
  BY DEF QueryInv
<1>1. CASE Mutate
  BY <1>1, MutateKeeps
<1>2. ASSUME NEW q \in Queries, FirstPage(q) PROVE QueryInv'
  <2> DEFINE zero == [s \in SplitGuids |-> 0]
  <2>1. /\ query' = q /\ moved' = FALSE /\ Receive(q, zero)
        /\ steady' = {s \in Results(q) : InRange(q, s)} /\ read # "reading"
    BY <1>2 DEF FirstPage
  <2>2. zero \in [SplitGuids -> Nat] /\ token = NoGuid
    BY <1>0, <2>1 DEF ReadInHand
  <2>3. \A s \in steady' : zero[s] = 0
    BY <2>1 DEF Results, Live
  <2> HIDE DEF zero
  <2> QED  BY <1>0, <2>1, <2>2, <2>3, ReceiveKeeps
<1>3. CASE NextPage
  <2>1. /\ read = "reading" /\ token \in Results(query) /\ Receive(query, seen)
        /\ UNCHANGED <<query, steady, moved>>
    <3>1. read = "reading" => token # NoGuid
      BY <1>0, LedgerAssumption DEF ReadInHand
    <3> QED  BY <1>3, <3>1 DEF NextPage, TokenRefused
  <2>2. PICK q \in Queries : q = query
    BY <1>0 DEF ReadInHand
  <2>3. PICK shown \in [SplitGuids -> Nat] : shown = seen
    BY <1>0 DEF ReadInHand
  <2>4. token \in Live /\ splits[token] # Absent /\ token # NoGuid
    BY <2>1, LedgerAssumption DEF Results, Live
  <2>5. Receive(q, shown) /\ query' = q /\ moved' \in BOOLEAN
    BY <1>0, <2>1, <2>2, <2>3 DEF ReadInHand
  <2>6. steady' \subseteq Results(q) /\ \A s \in steady' : InRange(q, s)
    BY <1>0, <2>1, <2>2 DEF SteadyInHand
  <2>7. ~moved' => \A s \in steady' :
           shown[s] = IF token = NoGuid \/ Before(token, s) THEN 0 ELSE 1
    BY <1>0, <2>1, <2>3, <2>4 DEF PagesInHand
  <2> QED  BY <1>0, <2>4, <2>5, <2>6, <2>7, ReceiveKeeps
<1>4. CASE PageRefused \/ UNCHANGED vars
  <2>1. UNCHANGED <<txns, splits, used, query, seen, steady, moved, quiet>>
    BY <1>4 DEF PageRefused, vars, client, book
  <2>2. (read' = "refused" /\ token' = NoGuid) \/ UNCHANGED <<read, token>>
    BY <1>4 DEF PageRefused, vars, client
  <2>3. LedgerInv' /\ Live' = Live
    BY <1>0, <2>1, SameBook
  <2>4. Results(query)' = Results(query)
    BY <2>1, <2>3 DEF Results, Matches
  <2>5. ReadInHand'
    BY <1>0, <2>1, <2>2 DEF ReadInHand
  <2>6. SteadyInHand'
    BY <1>0, <2>1, <2>4 DEF SteadyInHand, InRange
  <2>7. CASE read' = "refused" /\ token' = NoGuid
    <3>1. PagesInHand' /\ TokenInHand'
      BY <1>0, <2>1, <2>7 DEF PagesInHand, TokenInHand
    <3> QED  BY <2>3, <2>5, <2>6, <3>1 DEF QueryInv
  <2>8. CASE UNCHANGED <<read, token>>
    <3>1. PagesInHand'
      BY <1>0, <2>1, <2>8 DEF PagesInHand, Before
    <3>2. Rest(query, token)' = Rest(query, token)
      BY <2>1, <2>4, <2>8 DEF Rest, InRange, Before
    <3>3. TokenInHand'
      BY <1>0, <2>1, <2>4, <2>8, <3>2 DEF TokenInHand
    <3> QED  BY <2>3, <2>5, <2>6, <3>1, <3>3 DEF QueryInv
  <2> QED  BY <2>2, <2>7, <2>8
<1> QED  BY <1>1, <1>2, <1>3, <1>4 DEF Next

LEMMA QueryInvAlways == Spec => []QueryInv
  BY QueryInvInit, QueryInvStep, PTL DEF Spec

\* Whoever reads changes neither the book nor the record of the last mutation.
LEMMA ReadsChangeNothing ==
    ASSUME [Next]_vars, ~Mutate
    PROVE  UNCHANGED <<txns, splits, last>>
  BY DEF Next, vars, book, FirstPage, NextPage, Receive, PageRefused
-----------------------------------------------------------------------------
(***************************************************************************)
(* A transaction always has splits and a split always has its transaction, *)
(* after any sequence of posts, updates and deletes: ApplyPlan and         *)
(* xaccTransCommitEdit leave nothing behind, and no GUID comes back.       *)
(***************************************************************************)
THEOREM NoSplitIsOrphaned == Spec => []LedgerInv
  BY QueryInvAlways, PTL DEF QueryInv

(***************************************************************************)
(* PlanTransaction and ApplyPlan: an accepted request is a full            *)
(* replacement, with as many splits as it lists, each as asked for and,    *)
(* where it names one, under that GUID, and the year that was asked for.   *)
(***************************************************************************)
THEOREM UpdatesReplaceFully == Spec => []FullReplacement
<1>1. Init => FullReplacement
  BY DEF Init, LedgerInit, FullReplacement
<1>2. FullReplacement /\ QueryInv /\ [Next]_vars => FullReplacement'
  <2> SUFFICES ASSUME FullReplacement, QueryInv, [Next]_vars PROVE FullReplacement'
    OBVIOUS
  <2>1. CASE Mutate
    BY <2>1, MutationKeepsBook DEF Mutate, QueryInv
  <2>2. CASE ~Mutate
    <3>1. UNCHANGED <<txns, splits, last>>
      BY <2>2, ReadsChangeNothing
    <3>2. SplitsOf(splits, last.txn)' = SplitsOf(splits, last.txn)
      BY <3>1 DEF SplitsOf
    <3> QED  BY <3>1, <3>2 DEF FullReplacement
  <2> QED  BY <2>1, <2>2
<1> QED  BY <1>1, <1>2, QueryInvAlways, PTL DEF Spec

(***************************************************************************)
(* TransactionToProto before the commit leaves out what the commit         *)
(* destroys: the response that is journaled is the book that results.      *)
(***************************************************************************)
THEOREM ResponsesAreCommitted == Spec => []ResponseIsCommitted
<1>1. Init => ResponseIsCommitted
  BY DEF Init, LedgerInit, ResponseIsCommitted
<1>2. ResponseIsCommitted /\ QueryInv /\ [Next]_vars => ResponseIsCommitted'
  <2> SUFFICES ASSUME ResponseIsCommitted, QueryInv, [Next]_vars PROVE ResponseIsCommitted'
    OBVIOUS
  <2>1. CASE Mutate
    BY <2>1, MutationKeepsBook DEF Mutate, QueryInv
  <2>2. CASE ~Mutate
    BY <2>2, ReadsChangeNothing DEF ResponseIsCommitted, TransactionToProto, SplitsOf
  <2> QED  BY <2>1, <2>2
<1> QED  BY <1>1, <1>2, QueryInvAlways, PTL DEF Spec

(***************************************************************************)
(* QuerySplits: a client that follows the tokens sees every split that     *)
(* stayed as it was exactly once, whatever is posted, updated and deleted  *)
(* between the pages, unless the split of its token changes its place.     *)
(***************************************************************************)
THEOREM PagingIsComplete == Spec => []PagesCoverResults
<1>1. QueryInv => PagesCoverResults
  BY DEF QueryInv, PagesInHand, PagesCoverResults
<1> QED  BY <1>1, QueryInvAlways, PTL

(***************************************************************************)
(* QuerySplits reads one past the page before it hands out a token: unless *)
(* something changes, the next call is not refused and not empty.          *)
(***************************************************************************)
THEOREM TokensKeepTheirPromise == Spec => []TokenHasMore
<1>1. QueryInv => TokenHasMore
  <2> SUFFICES ASSUME QueryInv, read = "reading", quiet
               PROVE  ~TokenRefused(query, token) /\ Page(query, token) # {}
    BY DEF TokenHasMore
  <2>1. token \in Results(query) /\ Rest(query, token) # {} /\ query \in Queries /\ LedgerInv
    BY DEF QueryInv, TokenInHand, ReadInHand
  <2> QED  BY <2>1, TokenFacts DEF TokenRefused
<1> QED  BY <1>1, QueryInvAlways, PTL
-----------------------------------------------------------------------------
(* Division with integers, and the denominators of gnc_numeric              *)

Divides(d, k) == \E a \in Int : k = d * a

LEMMA DivMod ==
    ASSUME NEW k \in Int, NEW d \in Nat \ {0}
    PROVE  /\ k \div d \in Int /\ k % d \in Int
           /\ k = d * (k \div d) + (k % d) /\ 0 <= k % d /\ k % d < d
  BY Z3

LEMMA NoOtherRemainder ==
    ASSUME NEW d \in Nat \ {0}, NEW a \in Int, NEW r \in Int, 0 <= r, r < d, r = d * a
    PROVE  a = 0
<1>1. CASE a >= 1
  <2>1. d * a >= d
    BY <1>1
  <2> QED BY <2>1
<1>2. CASE a <= -1
  <2>1. d * a <= -d
    BY <1>2
  <2> QED BY <2>1
<1> QED BY <1>1, <1>2

LEMMA Quotient ==
    ASSUME NEW d \in Nat \ {0}, NEW a \in Int
    PROVE  (d * a) % d = 0 /\ (d * a) \div d = a
<1>1. PICK k \in Int : k = d * a
  OBVIOUS
<1>2. PICK q \in Int, r \in Int : q = k \div d /\ r = k % d /\ k = d * q + r /\ 0 <= r /\ r < d
  BY DivMod
<1>3. r = d * (a - q) /\ a - q \in Int
  BY <1>1, <1>2
<1>4. a - q = 0
  BY <1>2, <1>3, NoOtherRemainder
<1>5. a = q
  BY <1>4
<1>6. r = 0
  BY <1>2, <1>1, <1>5
<1> QED BY <1>1, <1>2, <1>5, <1>6

LEMMA DividesMod ==
    ASSUME NEW k \in Int, NEW d \in Nat \ {0}
    PROVE  k % d = 0 <=> Divides(d, k)
<1>1. ASSUME k % d = 0 PROVE Divides(d, k)
  <2>1. k \div d \in Int /\ k = d * (k \div d) + (k % d)
    BY DivMod
  <2>2. k = d * (k \div d)
    BY <1>1, <2>1
  <2> QED  BY <2>1, <2>2 DEF Divides
<1>2. ASSUME Divides(d, k) PROVE k % d = 0
  BY <1>2, Quotient DEF Divides
<1> QED  BY <1>1, <1>2

LEMMA LcdFacts ==
    ASSUME NEW d \in Nat \ {0}, NEW e \in Nat \ {0}
    PROVE  /\ Lcd(d, e) \in Nat \ {0} /\ Divides(d, Lcd(d, e)) /\ Divides(e, Lcd(d, e))
           /\ \A k \in Nat : Divides(d, k) /\ Divides(e, k) => Divides(Lcd(d, e), k)
<1> DEFINE Common == {k \in Nat \ {0} : k % d = 0 /\ k % e = 0}
<1>0. d * e \in Nat \ {0} /\ d * e = e * d
  <2>1. d >= 1 /\ e >= 1
    OBVIOUS
  <2>2. d * e >= 1 /\ d * e \in Int
    BY <2>1
  <2> QED  BY <2>2
<1>1. d * e \in Common
  <2>1. (d * e) % d = 0 /\ (e * d) % e = 0
    BY Quotient
  <2> QED  BY <1>0, <2>1
<1>2. PICK x \in Common : \A y \in Common : x <= y
  <2>1. Common \in SUBSET Nat /\ Common # {}
    BY <1>1
  <2> HIDE DEF Common
  <2> QED  BY <2>1, LeastNat
<1>3. x \in 1 .. d * e
  <2>1. x \in Nat \ {0} /\ x <= d * e
    BY <1>1, <1>2
  <2> QED  BY <1>0, <2>1
<1>4. x % d = 0 /\ x % e = 0 /\ \A k \in 1 .. x - 1 : k % d # 0 \/ k % e # 0
  <2>1. ASSUME NEW k \in 1 .. x - 1, k % d = 0, k % e = 0 PROVE FALSE
    <3>1. k \in Common /\ ~(x <= k)
      BY <2>1
    <3> QED  BY <1>2, <3>1
  <2> QED  BY <1>2, <2>1
<1>5. PICK m : m = Lcd(d, e)
  OBVIOUS
<1>6. /\ m \in 1 .. d * e /\ m % d = 0 /\ m % e = 0
      /\ \A k \in 1 .. m - 1 : k % d # 0 \/ k % e # 0
  BY <1>3, <1>4, <1>5 DEF Lcd
<1>7. m \in Nat \ {0}
  BY <1>0, <1>6
<1>8. Divides(d, m) /\ Divides(e, m)
  BY <1>6, <1>7, DividesMod
<1>9. ASSUME NEW k \in Nat, Divides(d, k), Divides(e, k) PROVE Divides(m, k)
  <2>0. /\ k \div m \in Int /\ k % m \in Int
        /\ k = m * (k \div m) + (k % m) /\ 0 <= k % m /\ k % m < m
    BY <1>7, DivMod
  <2>1. PICK q \in Int, r \in Int : r = k % m /\ k = m * q + r /\ 0 <= r /\ r < m
    BY <2>0
  <2>2. ASSUME NEW f \in Nat \ {0}, Divides(f, k), Divides(f, m) PROVE r % f = 0
    <3>1. PICK a \in Int, b \in Int : k = f * a /\ m = f * b
      BY <2>2 DEF Divides
    <3>2. r = f * a - (f * b) * q
      <4>1. r = k - m * q
        BY <1>7, <2>1
      <4> QED  BY <3>1, <4>1
    <3>3. r = f * (a - b * q) /\ a - b * q \in Int
      BY <3>2
    <3> QED  BY <3>3, Quotient
  <2>3. r % d = 0 /\ r % e = 0
    BY <1>8, <1>9, <2>2
  <2>4. r = 0
    <3>1. r \notin 1 .. m - 1
      BY <1>6, <2>3
    <3> QED  BY <1>7, <2>1, <3>1
  <2>5. k % m = 0
    BY <2>1, <2>4
  <2> QED  BY <1>7, <2>5, DividesMod
<1> QED  BY <1>5, <1>7, <1>8, <1>9

\* Bringing a fraction to a larger common denominator in one step or in two.
LEMMA Rescale ==
    ASSUME NEW d \in Nat \ {0}, NEW m \in Nat \ {0}, NEW s \in Nat,
           Divides(d, m), Divides(m, s)
    PROVE  /\ m \div d \in Int /\ s \div m \in Int /\ s \div d \in Int
           /\ (m \div d) * (s \div m) = s \div d /\ Divides(d, s)
<1>1. PICK a \in Int, b \in Int : m = d * a /\ s = m * b
  BY DEF Divides
<1>2. m \div d = a /\ s \div m = b
  BY <1>1, Quotient
<1>3. s = d * (a * b) /\ a * b \in Int
  BY <1>1
<1>4. s \div d = a * b
  BY <1>3, Quotient
<1> QED  BY <1>2, <1>3, <1>4 DEF Divides
-----------------------------------------------------------------------------
(* Folds over finite sets                                                   *)

\* The element with which a fold over s begins.
Pick(s) == CHOOSE x \in s : TRUE

\* A fold over the subsets of a finite set S, step[x][v] taking x into account
\* after the others have made v.
IsFold(f, S, V, base, step) ==
    /\ f \in [SUBSET S -> V]
    /\ \A s \in SUBSET S : f[s] = IF s = {} THEN base ELSE step[Pick(s)][f[s \ {Pick(s)}]]

LEMMA PickSmaller ==
    ASSUME NEW S, IsFiniteSet(S), NEW s \in SUBSET S, s # {}
    PROVE  /\ Pick(s) \in s /\ s \ {Pick(s)} \in SUBSET S
           /\ Cardinality(s) \in Nat /\ Cardinality(s \ {Pick(s)}) = Cardinality(s) - 1
<1>1. Pick(s) \in s
  BY DEF Pick
<1>2. IsFiniteSet(s)
  BY FS_Subset
<1> QED  BY <1>1, <1>2, FS_CardinalityType, FS_RemoveElement

LEMMA FoldExists ==
    ASSUME NEW S, IsFiniteSet(S), NEW V, NEW base \in V, NEW step \in [S -> [V -> V]]
    PROVE  \E f : IsFold(f, S, V, base, step)
<1> DEFINE Part(k) == {s \in SUBSET S : Cardinality(s) <= k}
           Good(f, k) == /\ f \in [Part(k) -> V]
                         /\ \A s \in Part(k) : f[s] = IF s = {} THEN base
                                                      ELSE step[Pick(s)][f[s \ {Pick(s)}]]
           Stuck == {k \in Nat : ~\E f : Good(f, k)}
<1>1. \A s \in SUBSET S : Cardinality(s) \in Nat /\ (Cardinality(s) = 0 <=> s = {})
  BY FS_Subset, FS_CardinalityType, FS_EmptySet
<1>2. ASSUME Stuck # {} PROVE FALSE
  <2>1. PICK k \in Stuck : \A j \in Stuck : k <= j
    <3>1. Stuck \in SUBSET Nat
      OBVIOUS
    <3> HIDE DEF Stuck
    <3> QED  BY <1>2, <3>1, LeastNat
  <2>2. k \in Nat /\ ~\E f : Good(f, k)
    OBVIOUS
  <2>3. CASE k = 0
    <3>1. \A s \in Part(0) : s = {}
      BY <1>1
    <3>2. Good([s \in Part(0) |-> base], 0)
      BY <3>1
    <3> QED  BY <2>2, <2>3, <3>2
  <2>4. CASE k # 0
    <3>1. k - 1 \in Nat /\ ~(k <= k - 1)
      BY <2>2, <2>4
    <3>2. k - 1 \notin Stuck
      BY <2>1, <3>1
    <3>3. PICK f : Good(f, k - 1)
      BY <3>1, <3>2
    <3>4. \A s \in Part(k) : s # {} => s \ {Pick(s)} \in Part(k - 1) /\ Pick(s) \in S
      <4> SUFFICES ASSUME NEW s \in Part(k), s # {}
                   PROVE  s \ {Pick(s)} \in Part(k - 1) /\ Pick(s) \in S
        OBVIOUS
      <4>1. /\ Pick(s) \in s /\ s \ {Pick(s)} \in SUBSET S
            /\ Cardinality(s) \in Nat /\ Cardinality(s \ {Pick(s)}) = Cardinality(s) - 1
        BY PickSmaller
      <4>2. Cardinality(s) <= k
        OBVIOUS
      <4>3. Cardinality(s \ {Pick(s)}) <= k - 1
        BY <2>2, <4>1, <4>2
      <4> QED  BY <4>1, <4>3
    <3>5. Part(k - 1) \subseteq Part(k)
      <4>1. \A n \in Nat : n <= k - 1 => n <= k
        BY <2>2
      <4> QED  BY <1>1, <4>1
    <3>6. /\ f \in [Part(k - 1) -> V]
          /\ \A s \in Part(k - 1) : f[s] = IF s = {} THEN base
                                           ELSE step[Pick(s)][f[s \ {Pick(s)}]]
      BY <3>3
    <3> DEFINE h == [s \in Part(k) |-> IF s = {} THEN base ELSE step[Pick(s)][f[s \ {Pick(s)}]]]
    <3> HIDE DEF Part
    <3>7. h \in [Part(k) -> V]
      BY <3>4, <3>6
    <3>8. \A s \in Part(k - 1) : h[s] = f[s]
      BY <3>5, <3>6
    <3>9. \A s \in Part(k) : h[s] = IF s = {} THEN base ELSE step[Pick(s)][h[s \ {Pick(s)}]]
      BY <3>4, <3>8
    <3>10. Good(h, k)
      BY <3>7, <3>9
    <3> QED  BY <2>2, <3>10
  <2> QED  BY <2>3, <2>4
<1>3. Cardinality(S) \in Nat
  BY FS_CardinalityType
<1>4. PICK f : Good(f, Cardinality(S))
  BY <1>2, <1>3
<1>5. Part(Cardinality(S)) = SUBSET S
  BY FS_Subset
<1> QED  BY <1>4, <1>5 DEF IsFold

\* A set of subsets of a finite set has a smallest one.
LEMMA SmallestSet ==
    ASSUME NEW S, IsFiniteSet(S), NEW B \in SUBSET SUBSET S, B # {}
    PROVE  \E s \in B : \A r \in B : ~(Cardinality(r) < Cardinality(s))
<1> DEFINE Size == {Cardinality(s) : s \in B}
<1>1. \A s \in B : Cardinality(s) \in Nat
  BY FS_Subset, FS_CardinalityType
<1>2. PICK n \in Size : \A k \in Size : n <= k
  <2>1. Size \in SUBSET Nat /\ Size # {}
    BY <1>1
  <2> HIDE DEF Size
  <2> QED  BY <2>1, LeastNat
<1>3. PICK s \in B : Cardinality(s) = n
  OBVIOUS
<1>4. ASSUME NEW r \in B, Cardinality(r) < Cardinality(s) PROVE FALSE
  <2>1. Cardinality(s) <= Cardinality(r)
    BY <1>2, <1>3
  <2> QED  BY <1>1, <1>4, <2>1
<1> QED  BY <1>4

LEMMA SmallerSet ==
    ASSUME NEW S, IsFiniteSet(S), NEW s \in SUBSET S, NEW x \in s
    PROVE  s \ {x} \in SUBSET S /\ Cardinality(s \ {x}) < Cardinality(s)
<1>1. IsFiniteSet(s)
  BY FS_Subset
<1>2. Cardinality(s) \in Nat /\ Cardinality(s \ {x}) = Cardinality(s) - 1
  BY <1>1, FS_CardinalityType, FS_RemoveElement
<1> QED  BY <1>2

\* What SumFunctionOnSet computes on the subsets of S.
IsSum(f, S, w) ==
    \A s \in SUBSET S : f[s] = IF s = {} THEN 0 ELSE w[Pick(s)] + f[s \ {Pick(s)}]

LEMMA SumExists ==
    ASSUME NEW S, IsFiniteSet(S), NEW w \in [S -> Int]
    PROVE  \E f \in [SUBSET S -> Int] : IsSum(f, S, w)
<1> DEFINE step == [x \in S |-> [v \in Int |-> w[x] + v]]
<1>1. step \in [S -> [Int -> Int]]
  OBVIOUS
<1>2. \A x \in S, v \in Int : step[x][v] = w[x] + v
  OBVIOUS
<1> HIDE DEF step
<1>3. PICK f : IsFold(f, S, Int, 0, step)
  <2>1. 0 \in Int
    OBVIOUS
  <2> QED  BY <1>1, <2>1, FoldExists
<1>4. \A s \in SUBSET S : s # {} => Pick(s) \in S /\ s \ {Pick(s)} \in SUBSET S
  BY PickSmaller
<1>5. f \in [SUBSET S -> Int]
  BY <1>3 DEF IsFold
<1>6. ASSUME NEW s \in SUBSET S
      PROVE  f[s] = IF s = {} THEN 0 ELSE w[Pick(s)] + f[s \ {Pick(s)}]
  <2>1. f[s] = IF s = {} THEN 0 ELSE step[Pick(s)][f[s \ {Pick(s)}]]
    BY <1>3 DEF IsFold
  <2>2. s # {} => f[s \ {Pick(s)}] \in Int
    BY <1>4, <1>5
  <2> QED  BY <1>2, <1>4, <2>1, <2>2
<1> QED  BY <1>5, <1>6 DEF IsSum

\* Two sums agree on the sets on which their summands do.
LEMMA SumsAgree ==
    ASSUME NEW S, IsFiniteSet(S), NEW w, NEW f, IsSum(f, S, w),
           NEW R, NEW v, NEW h, IsSum(h, R, v),
           NEW T \in SUBSET S, T \subseteq R, \A x \in T : v[x] = w[x]
    PROVE  h[T] = f[T]
<1> DEFINE Bad == {s \in SUBSET T : h[s] # f[s]}
<1> SUFFICES ASSUME Bad # {} PROVE FALSE
  OBVIOUS
<1>1. IsFiniteSet(T)
  BY FS_Subset
<1>2. PICK s \in Bad : \A r \in Bad : ~(Cardinality(r) < Cardinality(s))
  <2>1. Bad \in SUBSET SUBSET T
    OBVIOUS
  <2> HIDE DEF Bad
  <2> QED  BY <1>1, <2>1, SmallestSet
<1>3. s \in SUBSET T /\ h[s] # f[s]
  OBVIOUS
<1>4. s # {}
  BY <1>3 DEF IsSum
<1>5. Pick(s) \in s
  BY <1>4 DEF Pick
<1>6. s \ {Pick(s)} \in SUBSET T /\ Cardinality(s \ {Pick(s)}) < Cardinality(s)
  BY <1>1, <1>3, <1>5, SmallerSet
<1>7. h[s \ {Pick(s)}] = f[s \ {Pick(s)}]
  BY <1>2, <1>5, <1>6
<1>8. v[Pick(s)] = w[Pick(s)]
  BY <1>5
<1>9. /\ f[s] = w[Pick(s)] + f[s \ {Pick(s)}]
      /\ h[s] = v[Pick(s)] + h[s \ {Pick(s)}]
  <2>1. s \in SUBSET S /\ s \in SUBSET R
    OBVIOUS
  <2> QED  BY <1>4, <2>1 DEF IsSum
<1> QED  BY <1>3, <1>7, <1>8, <1>9

LEMMA SumIsSum ==
    ASSUME NEW S, IsFiniteSet(S), NEW w, NEW f, IsSum(f, S, w), NEW T \in SUBSET S
    PROVE  SumFunctionOnSet(w, T) = f[T]
<1> DEFINE IsIter(i) == i = [s \in SUBSET T |-> IF s = {} THEN 0
                                 ELSE w[CHOOSE x \in s : TRUE] + i[s \ {CHOOSE x \in s : TRUE}]]
           iter == CHOOSE i : IsIter(i)
<1>1. SumFunctionOnSet(w, T) = iter[T]
  BY DEF SumFunctionOnSet, FoldFunctionOnSet, MapThenFoldSet
<1>2. IsIter([s \in SUBSET T |-> f[s]])
  BY DEF IsSum, Pick
<1>3. IsIter(iter)
  BY <1>2
<1> HIDE DEF iter
<1>4. IsSum(iter, T, w)
  BY <1>3 DEF IsSum, Pick
<1> QED  BY <1>1, <1>4, SumsAgree

\* The order of the summands does not matter.
LEMMA SumParts ==
    ASSUME NEW S, IsFiniteSet(S), NEW w \in [S -> Int]
    PROVE  /\ SumFunctionOnSet(w, {}) = 0
           /\ \A T \in SUBSET S : SumFunctionOnSet(w, T) \in Int
           /\ \A T \in SUBSET S : \A x \in T :
                 SumFunctionOnSet(w, T) = w[x] + SumFunctionOnSet(w, T \ {x})
<1>1. PICK f \in [SUBSET S -> Int] : IsSum(f, S, w)
  BY SumExists
<1>2. \A T \in SUBSET S : SumFunctionOnSet(w, T) = f[T]
  BY <1>1, SumIsSum
<1>3. \A s \in SUBSET S : f[s] = IF s = {} THEN 0 ELSE w[Pick(s)] + f[s \ {Pick(s)}]
  BY <1>1 DEF IsSum
<1> DEFINE Bad == {s \in SUBSET S : \E x \in s : f[s] # w[x] + f[s \ {x}]}
<1>4. ASSUME Bad # {} PROVE FALSE
  <2>1. PICK s \in Bad : \A r \in Bad : ~(Cardinality(r) < Cardinality(s))
    <3>1. Bad \in SUBSET SUBSET S
      OBVIOUS
    <3> HIDE DEF Bad
    <3> QED  BY <1>4, <3>1, SmallestSet
  <2>2. PICK x \in s : f[s] # w[x] + f[s \ {x}]
    OBVIOUS
  <2> DEFINE c == Pick(s)
  <2>3. c \in s /\ f[s] = w[c] + f[s \ {c}]
    BY <1>3 DEF Pick
  <2> HIDE DEF c
  <2>4. x # c
    BY <2>2, <2>3
  <2>5. /\ s \in SUBSET S /\ s \ {c} \in SUBSET S /\ s \ {x} \in SUBSET S
        /\ Cardinality(s \ {c}) < Cardinality(s) /\ Cardinality(s \ {x}) < Cardinality(s)
    BY <2>2, <2>3, SmallerSet
  <2>6. s \ {c} \notin Bad /\ s \ {x} \notin Bad
    BY <2>1, <2>5
  <2>7. x \in s \ {c} /\ c \in s \ {x} /\ (s \ {c}) \ {x} = (s \ {x}) \ {c}
    BY <2>2, <2>3, <2>4
  <2>8. f[s \ {c}] = w[x] + f[(s \ {c}) \ {x}] /\ f[s \ {x}] = w[c] + f[(s \ {x}) \ {c}]
    BY <2>5, <2>6, <2>7
  <2>9. PICK r \in SUBSET S : r = (s \ {c}) \ {x} /\ r = (s \ {x}) \ {c}
    BY <2>5, <2>7
  <2>10. f[s \ {c}] = w[x] + f[r] /\ f[s \ {x}] = w[c] + f[r]
    BY <2>8, <2>9
  <2>11. w[x] \in Int /\ w[c] \in Int /\ f[r] \in Int
    BY <2>2, <2>3, <2>5
  <2> QED  BY <2>2, <2>3, <2>10, <2>11
<1>5. \A s \in SUBSET S : \A x \in s : f[s] = w[x] + f[s \ {x}]
  BY <1>4
<1>6. SumFunctionOnSet(w, {}) = 0
  BY <1>2, <1>3
<1>7. \A T \in SUBSET S : SumFunctionOnSet(w, T) \in Int
  BY <1>2
<1>8. \A T \in SUBSET S : \A x \in T :
         SumFunctionOnSet(w, T) = w[x] + SumFunctionOnSet(w, T \ {x})
  BY <1>2, <1>5
<1> QED  BY <1>6, <1>7, <1>8

LEMMA SumSame ==
    ASSUME NEW S, IsFiniteSet(S), NEW w \in [S -> Int],
           NEW R, IsFiniteSet(R), NEW v \in [R -> Int],
           NEW T \in SUBSET S, T \subseteq R, \A x \in T : v[x] = w[x]
    PROVE  SumFunctionOnSet(v, T) = SumFunctionOnSet(w, T)
<1>1. PICK f \in [SUBSET S -> Int] : IsSum(f, S, w)
  BY SumExists
<1>2. PICK h \in [SUBSET R -> Int] : IsSum(h, R, v)
  BY SumExists
<1>3. h[T] = f[T]
  BY <1>1, <1>2, SumsAgree
<1> QED  BY <1>1, <1>2, <1>3, SumIsSum

LEMMA SumUnion ==
    ASSUME NEW S, IsFiniteSet(S), NEW w \in [S -> Int], NEW T \in SUBSET S, NEW A \in SUBSET T
    PROVE  SumFunctionOnSet(w, T) = SumFunctionOnSet(w, A) + SumFunctionOnSet(w, T \ A)
<1> DEFINE sum(X) == SumFunctionOnSet(w, X)
           Bad == {s \in SUBSET T : sum(T) # sum(s) + sum(T \ s)}
<1> SUFFICES ASSUME Bad # {} PROVE FALSE
  OBVIOUS
<1>1. IsFiniteSet(T)
  BY FS_Subset
<1>2. PICK s \in Bad : \A r \in Bad : ~(Cardinality(r) < Cardinality(s))
  <2>1. Bad \in SUBSET SUBSET T
    OBVIOUS
  <2> HIDE DEF Bad
  <2> QED  BY <1>1, <2>1, SmallestSet
<1>3. s \in SUBSET T /\ sum(T) # sum(s) + sum(T \ s)
  OBVIOUS
<1>4. /\ sum({}) = 0 /\ \A X \in SUBSET S : sum(X) \in Int
      /\ \A X \in SUBSET S : \A x \in X : sum(X) = w[x] + sum(X \ {x})
  BY SumParts
<1> HIDE DEF sum
<1>5. CASE s = {}
  <2>1. T \ s = T /\ sum(T) \in Int
    BY <1>4, <1>5
  <2> QED  BY <1>3, <1>4, <1>5, <2>1
<1>6. CASE s # {}
  <2>1. PICK x \in s : TRUE
    BY <1>6
  <2>2. s \ {x} \in SUBSET T /\ Cardinality(s \ {x}) < Cardinality(s)
    BY <1>1, <1>3, <2>1, SmallerSet
  <2>3. sum(T) = sum(s \ {x}) + sum(T \ (s \ {x}))
    BY <1>2, <2>2
  <2>4. (T \ (s \ {x})) \ {x} = T \ s /\ x \in T \ (s \ {x}) /\ x \in S
    BY <1>3, <2>1
  <2>5. sum(T \ (s \ {x})) = w[x] + sum(T \ s)
    BY <1>4, <2>4
  <2>6. sum(s) = w[x] + sum(s \ {x})
    BY <1>3, <1>4, <2>1
  <2>7. w[x] \in Int /\ sum(s \ {x}) \in Int /\ sum(T \ s) \in Int
    BY <1>3, <1>4, <2>4
  <2> QED  BY <1>3, <2>3, <2>5, <2>6, <2>7
<1> QED  BY <1>5, <1>6

\* Every denominator of a request divides the common scale.
LEMMA DenomsDivide ==
    /\ ProductSet(Denoms) \in Nat \ {0}
    /\ \A d \in Denoms : d \in Nat \ {0} /\ Divides(d, ProductSet(Denoms))
<1> DEFINE Pos == Nat \ {0}
           step == [x \in Denoms |-> [v \in Pos |-> x * v]]
           IsIter(i) == i = [s \in SUBSET Denoms |-> IF s = {} THEN 1
                                 ELSE (CHOOSE x \in s : TRUE) * i[s \ {CHOOSE x \in s : TRUE}]]
           iter == CHOOSE i : IsIter(i)
<1>1. Denoms \subseteq Pos /\ IsFiniteSet(Denoms) /\ 1 \in Pos
  BY LedgerAssumption
<1>2. \A x, v \in Pos : x * v \in Pos
  <2> SUFFICES ASSUME NEW x \in Pos, NEW v \in Pos PROVE x * v \in Int /\ x * v >= 1
    OBVIOUS
  <2>1. x \in Int /\ v \in Int /\ x >= 1 /\ v >= 1
    OBVIOUS
  <2> QED  BY <2>1
<1> HIDE DEF Pos
<1>3. step \in [Denoms -> [Pos -> Pos]] /\ \A x \in Denoms, v \in Pos : step[x][v] = x * v
  BY <1>1, <1>2
<1> HIDE DEF step
<1>4. PICK f : IsFold(f, Denoms, Pos, 1, step)
  BY <1>1, <1>3, FoldExists
<1>5. f \in [SUBSET Denoms -> Pos]
  BY <1>4 DEF IsFold
<1>6. ASSUME NEW s \in SUBSET Denoms
      PROVE  f[s] = IF s = {} THEN 1 ELSE Pick(s) * f[s \ {Pick(s)}]
  <2>1. f[s] = IF s = {} THEN 1 ELSE step[Pick(s)][f[s \ {Pick(s)}]]
    BY <1>4 DEF IsFold
  <2>2. s # {} => Pick(s) \in Denoms /\ s \ {Pick(s)} \in SUBSET Denoms
    BY <1>1, PickSmaller
  <2>3. s # {} => f[s \ {Pick(s)}] \in Pos
    BY <1>5, <2>2
  <2> QED  BY <1>3, <2>1, <2>2, <2>3
<1>7. IsIter(f)
  BY <1>5, <1>6 DEF Pick
<1>8. IsIter(iter)
  BY <1>7
<1>9. ProductSet(Denoms) = iter[Denoms]
  BY DEF ProductSet, FoldSet, MapThenFoldSet
<1> HIDE DEF iter
<1>10. \A s \in SUBSET Denoms : iter[s] = IF s = {} THEN 1 ELSE Pick(s) * iter[s \ {Pick(s)}]
  BY <1>8 DEF Pick
<1> DEFINE Good(s) == iter[s] \in Pos /\ \A d \in s : Divides(d, iter[s])
           Bad == {s \in SUBSET Denoms : ~Good(s)}
<1>11. ASSUME Bad # {} PROVE FALSE
  <2>1. PICK s \in Bad : \A r \in Bad : ~(Cardinality(r) < Cardinality(s))
    <3>1. Bad \in SUBSET SUBSET Denoms
      OBVIOUS
    <3> HIDE DEF Bad
    <3> QED  BY <1>1, <1>11, <3>1, SmallestSet
  <2>2. s \in SUBSET Denoms /\ ~Good(s)
    OBVIOUS
  <2>3. s # {}
    BY <1>1, <1>10, <2>2
  <2>4. PICK c \in s : c = Pick(s)
    BY <2>3 DEF Pick
  <2>5. s \ {c} \in SUBSET Denoms /\ Cardinality(s \ {c}) < Cardinality(s)
    BY <1>1, <2>2, SmallerSet
  <2>6. Good(s \ {c})
    BY <2>1, <2>5
  <2>7. PICK v \in Pos : v = iter[s \ {c}] /\ iter[s] = c * v /\ \A d \in s \ {c} : Divides(d, v)
    BY <1>10, <2>2, <2>3, <2>4, <2>6
  <2>8. c \in Pos /\ c \in Int /\ v \in Int
    BY <1>1, <2>2 DEF Pos
  <2>9. Divides(c, c * v)
    BY <2>8 DEF Divides
  <2>10. ASSUME NEW d \in s \ {c} PROVE Divides(d, c * v)
    <3>1. PICK a \in Int : v = d * a
      BY <2>7 DEF Divides
    <3>2. d \in Int
      BY <1>1, <2>2 DEF Pos
    <3>3. c * v = d * (c * a) /\ c * a \in Int
      BY <2>8, <3>1, <3>2
    <3> QED  BY <3>3 DEF Divides
  <2>11. \A d \in s : Divides(d, iter[s])
    BY <2>7, <2>9, <2>10
  <2> QED  BY <1>2, <2>2, <2>7, <2>8, <2>11
<1>12. Good(Denoms)
  BY <1>11
<1> QED  BY <1>1, <1>9, <1>12 DEF Pos
-----------------------------------------------------------------------------
(* The engine's sums and the exact ones                                     *)

\* A good gnc_numeric whose denominator divides the common scale.
GoodNumeric(a) ==
    a.num \in Int /\ a.denom \in Nat \ {0} /\ Divides(a.denom, ProductSet(Denoms))

\* gnc_numeric_add is exact unless it reports an error.
LEMMA AddIsExact ==
    ASSUME NEW a, NEW b, GoodNumeric(a), GoodNumeric(b), NumericCheck(NumericAdd(a, b))
    PROVE  /\ GoodNumeric(NumericAdd(a, b))
           /\ Exact(a) \in Int /\ Exact(b) \in Int
           /\ Exact(NumericAdd(a, b)) = Exact(a) + Exact(b)
<1>1. PICK scale \in Nat \ {0} : scale = ProductSet(Denoms)
  BY DenomsDivide
<1>2. PICK d \in Nat \ {0}, e \in Nat \ {0}, x \in Int, y \in Int :
         /\ d = a.denom /\ e = b.denom /\ x = a.num /\ y = b.num
         /\ Divides(d, scale) /\ Divides(e, scale)
  BY <1>1 DEF GoodNumeric
<1>3. PICK m \in Nat \ {0} : m = Lcd(d, e) /\ Divides(d, m) /\ Divides(e, m) /\ Divides(m, scale)
  BY <1>2, LcdFacts
<1>4. /\ m \div d \in Int /\ scale \div m \in Int /\ scale \div d \in Int
      /\ (m \div d) * (scale \div m) = scale \div d
  BY <1>2, <1>3, Rescale
<1>5. /\ m \div e \in Int /\ scale \div e \in Int
      /\ (m \div e) * (scale \div m) = scale \div e
  BY <1>2, <1>3, Rescale
<1>6. PICK n \in Int : n = x * (m \div d) + y * (m \div e)
  BY <1>4, <1>5
<1>7. NumericAdd(a, b) = IF Fits(n) THEN Numeric(n, m) ELSE Error
  BY <1>2, <1>3, <1>6 DEF NumericAdd, NumericCheck
<1>8. NumericAdd(a, b).num = n /\ NumericAdd(a, b).denom = m
  BY <1>7 DEF NumericCheck, Error, Numeric
<1>9. GoodNumeric(NumericAdd(a, b))
  BY <1>1, <1>3, <1>8 DEF GoodNumeric
<1>10. n * (scale \div m) = x * (scale \div d) + y * (scale \div e)
  <2>1. PICK u \in Int, v \in Int, q \in Int : u = m \div d /\ v = m \div e /\ q = scale \div m
    BY <1>4, <1>5
  <2>2. n = x * u + y * v
    BY <1>6, <2>1
  <2>3. (x * u + y * v) * q = x * (u * q) + y * (v * q)
    OBVIOUS
  <2> QED  BY <1>4, <1>5, <2>1, <2>2, <2>3
<1>11. /\ Exact(a) = x * (scale \div d) /\ Exact(b) = y * (scale \div e)
       /\ Exact(NumericAdd(a, b)) = n * (scale \div m)
  BY <1>1, <1>2, <1>8 DEF Exact
<1> QED  BY <1>2, <1>4, <1>5, <1>9, <1>10, <1>11

\* The stages of a running sum.
IsRunning(sum, ss, n) ==
    sum = [i \in 0 .. n |-> IF i = 0 THEN Zero ELSE NumericAdd(sum[i - 1], ss[i].value)]

LEMMA RunningExists ==
    ASSUME NEW ss, NEW n \in Nat
    PROVE  \E sum : IsRunning(sum, ss, n)
<1> DEFINE Stuck == {k \in Nat : ~\E sum : IsRunning(sum, ss, k)}
<1> SUFFICES ASSUME Stuck # {} PROVE FALSE
  OBVIOUS
<1>1. PICK k \in Stuck : \A j \in Stuck : k <= j
  BY LeastNat
<1>2. k \in Nat /\ ~\E sum : IsRunning(sum, ss, k)
  OBVIOUS
<1>3. k # 0
  <2>1. IsRunning([i \in 0 .. 0 |-> Zero], ss, 0)
    BY DEF IsRunning
  <2> QED  BY <1>2, <2>1
<1>4. k - 1 \in Nat /\ ~(k <= k - 1)
  BY <1>2, <1>3
<1>5. PICK sum : IsRunning(sum, ss, k - 1)
  BY <1>1, <1>4
<1> DEFINE more == [i \in 0 .. k |-> IF i = k THEN NumericAdd(sum[k - 1], ss[k].value) ELSE sum[i]]
<1>6. ASSUME NEW i \in 0 .. k
      PROVE  more[i] = IF i = 0 THEN Zero ELSE NumericAdd(more[i - 1], ss[i].value)
  <2>1. CASE i = k
    BY <1>2, <1>3, <1>4, <2>1
  <2>2. CASE i # k
    <3>1. i \in 0 .. k - 1 /\ more[i] = sum[i]
      BY <1>2, <2>2
    <3>2. sum[i] = IF i = 0 THEN Zero ELSE NumericAdd(sum[i - 1], ss[i].value)
      BY <1>5, <3>1 DEF IsRunning
    <3>3. i # 0 => more[i - 1] = sum[i - 1]
      BY <1>2, <3>1
    <3> QED  BY <3>1, <3>2, <3>3
  <2> QED  BY <2>1, <2>2
<1>7. more = [i \in 0 .. k |-> more[i]]
  OBVIOUS
<1> HIDE DEF more
<1>8. IsRunning(more, ss, k)
  BY <1>6, <1>7 DEF IsRunning
<1> QED  BY <1>2, <1>8

LEMMA RunningIsSum ==
    ASSUME NEW ss, Len(ss) \in Nat
    PROVE  \E sum : IsRunning(sum, ss, Len(ss)) /\ RunningSum(ss) = sum[Len(ss)]
<1> DEFINE sum == CHOOSE f : IsRunning(f, ss, Len(ss))
<1>1. IsRunning(sum, ss, Len(ss))
  BY RunningExists
<1>2. RunningSum(ss) = sum[Len(ss)]
  BY DEF RunningSum, IsRunning
<1> QED  BY <1>1, <1>2

\* The splits ss stand, in order, for the elements of T, whose exact values w gives.
Enumerates(ss, p, T, w) ==
    /\ Len(ss) \in Nat /\ IsFiniteSet(DOMAIN w) /\ w \in [DOMAIN w -> Int]
    /\ \A i \in 1 .. Len(ss) : /\ GoodNumeric(ss[i].value)
                               /\ p[i] \in DOMAIN w /\ w[p[i]] = Exact(ss[i].value)
    /\ \A i, j \in 1 .. Len(ss) : p[i] = p[j] => i = j
    /\ \A x : x \in T <=> \E i \in 1 .. Len(ss) : x = p[i]

(***************************************************************************)
(* A running sum that ends without an error is the exact sum of what it    *)
(* adds up, whatever it passed through.                                    *)
(***************************************************************************)
LEMMA RunningIsExact ==
    ASSUME NEW ss, NEW p, NEW T, NEW w, Enumerates(ss, p, T, w), NumericCheck(RunningSum(ss))
    PROVE  GoodNumeric(RunningSum(ss)) /\ Exact(RunningSum(ss)) = SumFunctionOnSet(w, T)
<1>0. PICK S : S = DOMAIN w
  OBVIOUS
<1>a. /\ Len(ss) \in Nat /\ \A i \in 1 .. Len(ss) : GoodNumeric(ss[i].value)
      /\ IsFiniteSet(S) /\ w \in [S -> Int]
      /\ \A i \in 1 .. Len(ss) : p[i] \in S /\ w[p[i]] = Exact(ss[i].value)
      /\ \A i, j \in 1 .. Len(ss) : p[i] = p[j] => i = j
      /\ \A x : x \in T <=> \E i \in 1 .. Len(ss) : x = p[i]
  BY <1>0 DEF Enumerates
<1> USE <1>a
<1>1. PICK n \in Nat : n = Len(ss)
  OBVIOUS
<1>2. PICK sum : IsRunning(sum, ss, n) /\ RunningSum(ss) = sum[n]
  BY <1>1, RunningIsSum
<1> DEFINE P(k) == {p[i] : i \in 1 .. k}
           Good(k) == GoodNumeric(sum[k]) /\ Exact(sum[k]) = SumFunctionOnSet(w, P(k))
           Bad == {k \in 0 .. n : NumericCheck(sum[k]) /\ ~Good(k)}
<1>3. ASSUME Bad # {} PROVE FALSE
  <2>1. PICK k \in Bad : \A j \in Bad : k <= j
    <3>1. Bad \in SUBSET Nat
      OBVIOUS
    <3> HIDE DEF Bad
    <3> QED  BY <1>3, <3>1, LeastNat
  <2>2. k \in 0 .. n /\ NumericCheck(sum[k]) /\ ~Good(k)
    OBVIOUS
  <2>3. sum[k] = IF k = 0 THEN Zero ELSE NumericAdd(sum[k - 1], ss[k].value)
    BY <1>2, <2>2 DEF IsRunning
  <2>4. CASE k = 0
    <3>1. sum[k] = Zero /\ P(k) = {}
      BY <2>3, <2>4
    <3>2. Zero.num = 0 /\ Zero.denom = 1
      BY DEF Zero, Numeric
    <3>3. Divides(1, ProductSet(Denoms)) /\ ProductSet(Denoms) \div 1 \in Int
      BY DenomsDivide, DivMod DEF Divides
    <3>4. Exact(Zero) = 0
      BY <3>2, <3>3 DEF Exact
    <3>5. SumFunctionOnSet(w, {}) = 0
      BY SumParts
    <3>6. GoodNumeric(sum[k])
      BY <3>1, <3>2, <3>3 DEF GoodNumeric
    <3> HIDE DEF P
    <3>7. Exact(sum[k]) = SumFunctionOnSet(w, P(k))
      BY <3>1, <3>4, <3>5
    <3> QED  BY <2>2, <3>6, <3>7
  <2>5. CASE k # 0
    <3>1. k \in 1 .. n /\ k - 1 \in 0 .. n /\ ~(k <= k - 1)
      BY <2>2, <2>5
    <3>2. sum[k] = NumericAdd(sum[k - 1], ss[k].value)
      BY <2>3, <2>5
    <3>3. NumericCheck(sum[k - 1])
      BY <2>2, <3>2 DEF NumericAdd, NumericCheck, Error, Numeric
    <3>4. Good(k - 1)
      BY <2>1, <3>1, <3>3
    <3>5. GoodNumeric(ss[k].value)
      BY <1>1, <3>1
    <3>6. /\ GoodNumeric(sum[k]) /\ Exact(sum[k - 1]) \in Int /\ Exact(ss[k].value) \in Int
          /\ Exact(sum[k]) = Exact(sum[k - 1]) + Exact(ss[k].value)
      BY <2>2, <3>2, <3>4, <3>5, AddIsExact
    <3>7. /\ P(k) \in SUBSET S /\ p[k] \in P(k) /\ P(k) \ {p[k]} = P(k - 1)
      <4>1. \A i \in 1 .. k : i \in 1 .. n
        BY <3>1
      <4>2. \A i : i \in 1 .. k <=> i \in 1 .. k - 1 \/ i = k
        BY <3>1
      <4>3. k \notin 1 .. k - 1
        BY <3>1
      <4>4. P(k) \in SUBSET S /\ p[k] \in P(k)
        BY <1>1, <4>1, <4>2
      <4>5. \A i \in 1 .. k - 1 : p[i] # p[k]
        BY <1>1, <3>1, <4>1, <4>2, <4>3
      <4> QED  BY <4>2, <4>4, <4>5
    <3>8. SumFunctionOnSet(w, P(k)) = w[p[k]] + SumFunctionOnSet(w, P(k - 1))
      <4> HIDE DEF P
      <4>1. SumFunctionOnSet(w, P(k)) = w[p[k]] + SumFunctionOnSet(w, P(k) \ {p[k]})
        BY <3>7, SumParts
      <4> QED  BY <3>7, <4>1
    <3>9. w[p[k]] = Exact(ss[k].value)
      BY <1>1, <3>1
    <3> HIDE DEF P
    <3>10. Exact(sum[k]) = SumFunctionOnSet(w, P(k))
      BY <3>4, <3>6, <3>8, <3>9
    <3> QED  BY <2>2, <3>6, <3>10
  <2> QED  BY <2>4, <2>5
<1>4. Good(n)
  <2>1. n \in 0 .. n /\ NumericCheck(sum[n])
    BY <1>1, <1>2
  <2> QED  BY <1>3, <2>1
<1>5. P(n) = T
  BY <1>1
<1> HIDE DEF P
<1> QED  BY <1>1, <1>2, <1>4, <1>5
-----------------------------------------------------------------------------
(* The book balances                                                        *)

AmountsGood == \A s \in Live : splits[s].value.num \in Int /\ splits[s].value.denom \in Denoms

Balanced == \A t \in TxnsOf(txns) : ExactSum(SplitsOf(splits, t)) = 0

LEMMA AmountsAreExact ==
    ASSUME NEW v, v.num \in Int, v.denom \in Denoms
    PROVE  GoodNumeric(v) /\ Exact(v) \in Int
<1>1. GoodNumeric(v)
  BY DenomsDivide DEF GoodNumeric
<1>2. ProductSet(Denoms) \div v.denom \in Int
  BY DenomsDivide, DivMod
<1> QED  BY <1>1, <1>2 DEF Exact

\* The splits of an accepted request are good and sum to zero.
LEMMA PlanBalances ==
    ASSUME NEW spec \in Specs, NEW own, PlanTransaction(spec, own) = OK
    PROVE  /\ \A i \in DOMAIN spec.splits : /\ spec.splits[i].value.num \in Int
                                            /\ spec.splits[i].value.denom \in Denoms
           /\ ZeroP(RunningSum(spec.splits))
<1>1. \A c, d : c ?? d = OK => c = OK /\ d = OK
  BY DEF ??
<1>2. FirstFailure(spec, own) = OK /\ ZeroP(RunningSum(spec.splits))
  BY <1>1 DEF PlanTransaction, OK
<1> DEFINE failing == {i \in DOMAIN spec.splits : CheckSplit(spec, i, own) # OK}
<1>3. failing = {}
  <2> SUFFICES ASSUME failing # {} PROVE FALSE
    OBVIOUS
  <2>1. failing \in SUBSET Nat
    BY SpecSplits
  <2>2. Min(failing) \in failing
    BY <2>1, LeastNat DEF Min
  <2> QED  BY <1>2, <2>2 DEF FirstFailure
<1>4. ASSUME NEW i \in DOMAIN spec.splits
      PROVE  spec.splits[i].value.num \in Int /\ spec.splits[i].value.denom \in Denoms
  <2>1. CheckSplit(spec, i, own) = OK
    BY <1>3
  <2>2. CheckNumeric(spec.splits[i].value) = OK
    BY <1>1, <2>1 DEF CheckSplit
  <2>3. spec.splits[i].value.denom \in Int /\ ~(spec.splits[i].value.denom <= 0)
    BY <2>2, SpecAssumption DEF CheckNumeric, OK
  <2>4. spec.splits[i].value.denom > 0
    BY <2>3
  <2> QED  BY <2>4, SpecAssumption
<1> QED  BY <1>2, <1>4

\* A transaction whose splits stay as they are keeps its sum.
LEMMA SumKept ==
    ASSUME AmountsGood, AmountsGood', NEW T \in SUBSET Live, T \subseteq Live',
           \A s \in T : splits'[s] = splits[s]
    PROVE  ExactSum(T)' = ExactSum(T)
<1>1. PICK S, R : S = Live /\ R = Live'
  OBVIOUS
<1>2. PICK w : w = [s \in Live |-> Exact(splits[s].value)]
  OBVIOUS
<1>3. PICK v : v = [s \in Live' |-> Exact(splits'[s].value)]
  OBVIOUS
<1>4. IsFiniteSet(S) /\ IsFiniteSet(R)
  BY <1>1, LedgerAssumption, FS_Subset DEF Live
<1>5. w \in [S -> Int]
  BY <1>1, <1>2, AmountsAreExact DEF AmountsGood
<1>6. v \in [R -> Int]
  BY <1>1, <1>3, AmountsAreExact DEF AmountsGood
<1>7. T \in SUBSET S /\ T \subseteq R /\ \A s \in T : v[s] = w[s]
  BY <1>1, <1>2, <1>3
<1>8. SumFunctionOnSet(v, T) = SumFunctionOnSet(w, T)
  BY <1>4, <1>5, <1>6, <1>7, SumSame
<1>9. ExactSum(T) = SumFunctionOnSet(w, T)
  BY <1>2 DEF ExactSum
<1>10. ExactSum(T)' = SumFunctionOnSet(v, T)
  BY <1>3 DEF ExactSum
<1> QED  BY <1>8, <1>9, <1>10

LEMMA EditBalances ==
    ASSUME LedgerInv, AmountsGood, Balanced, NEW t \in TxnGuids, NEW spec \in Specs,
           NEW own \in SUBSET SplitsOf(splits, t), PlanTransaction(spec, own) = OK,
           NEW p \in Places(spec), Edit(t, spec, p)
    PROVE  AmountsGood' /\ Balanced'
<1>1. PICK R : R = {p[i] : i \in DOMAIN p}
  OBVIOUS
<1>2. /\ \A i \in DOMAIN p : splits'[p[i]] = SplitFrom(t, spec.splits[i])
      /\ \A s \in SplitGuids \ R : splits'[s] = IF s \in SplitsOf(splits, t) THEN Absent ELSE splits[s]
      /\ txns' = [txns EXCEPT ![t] = TxnFrom(spec)]
      /\ SplitsOf(splits', t) = R
  BY <1>1, EditFacts
<1>3. /\ DOMAIN p = DOMAIN spec.splits
      /\ \A i \in DOMAIN p : p[i] \in SplitGuids
      /\ \A s \in R : s \in SplitsOf(splits, t) \/ s \notin used
      /\ \A i, j \in DOMAIN p : p[i] = p[j] => i = j
  BY <1>1, PlacesDiffer
<1>4. /\ \A i \in DOMAIN spec.splits : /\ spec.splits[i].value.num \in Int
                                       /\ spec.splits[i].value.denom \in Denoms
      /\ ZeroP(RunningSum(spec.splits))
  BY PlanBalances
<1>5. \A i \in DOMAIN p : splits'[p[i]].value = spec.splits[i].value /\ splits'[p[i]].txn = t
  <2>1. \A i \in DOMAIN p : /\ SplitFrom(t, spec.splits[i]).value = spec.splits[i].value
                            /\ SplitFrom(t, spec.splits[i]).txn = t
    BY DEF SplitFrom
  <2> QED  BY <1>2, <2>1
<1>6. R \subseteq Live'
  <2>1. \A i \in DOMAIN p : SplitFrom(t, spec.splits[i]) # Absent
    BY <1>3, AbsentAssumption
  <2>2. \A i \in DOMAIN p : p[i] \in SplitGuids /\ splits'[p[i]] # Absent
    BY <1>2, <1>3, <2>1
  <2> QED  BY <1>1, <2>2 DEF Live
<1>7. AmountsGood'
  <2> SUFFICES ASSUME NEW s \in Live'
               PROVE  splits'[s].value.num \in Int /\ splits'[s].value.denom \in Denoms
    BY DEF AmountsGood
  <2>1. CASE s \in R
    BY <1>1, <1>3, <1>4, <1>5, <2>1
  <2>2. CASE s \notin R
    <3>1. splits'[s] = splits[s] /\ s \in Live
      BY <1>2, <2>2 DEF Live
    <3> QED  BY <3>1 DEF AmountsGood
  <2> QED  BY <2>1, <2>2
<1>8. ExactSum(R)' = 0
  <2>1. PICK w, S : w = [s \in Live' |-> Exact(splits'[s].value)] /\ S = Live'
    OBVIOUS
  <2>2. IsFiniteSet(S)
    BY <2>1, LedgerAssumption, FS_Subset DEF Live
  <2>3. w \in [S -> Int]
    BY <1>7, <2>1, AmountsAreExact DEF AmountsGood
  <2>4. PICK ss : ss = spec.splits /\ Len(ss) \in Nat /\ DOMAIN ss = 1 .. Len(ss)
    BY SpecSplits
  <2>5. \A i \in 1 .. Len(ss) : GoodNumeric(ss[i].value)
    BY <1>4, <2>4, AmountsAreExact
  <2>6. \A i \in 1 .. Len(ss) : p[i] \in S /\ w[p[i]] = Exact(ss[i].value)
    BY <1>1, <1>3, <1>5, <1>6, <2>1, <2>4
  <2>7. \A i, j \in 1 .. Len(ss) : p[i] = p[j] => i = j
    BY <1>3, <2>4
  <2>8. NumericCheck(RunningSum(ss)) /\ RunningSum(ss).num = 0
    BY <1>4, <2>4 DEF ZeroP
  <2>9. \A x : x \in R <=> \E i \in 1 .. Len(ss) : x = p[i]
    BY <1>1, <1>3, <2>4
  <2>10. GoodNumeric(RunningSum(ss)) /\ Exact(RunningSum(ss)) = SumFunctionOnSet(w, R)
    <3>1. DOMAIN w = S
      BY <2>1
    <3>2. Enumerates(ss, p, R, w)
      BY <2>2, <2>3, <2>4, <2>5, <2>6, <2>7, <2>9, <3>1 DEF Enumerates
    <3> QED  BY <2>8, <3>2, RunningIsExact
  <2>11. Exact(RunningSum(ss)) = 0
    <3>1. ProductSet(Denoms) \div RunningSum(ss).denom \in Int
      BY <2>10, DenomsDivide, DivMod DEF GoodNumeric
    <3> QED  BY <2>8, <3>1 DEF Exact
  <2> QED  BY <2>1, <2>10, <2>11 DEF ExactSum
<1>9. ASSUME NEW u \in TxnsOf(txns'), u # t
      PROVE  ExactSum(SplitsOf(splits, u))' = 0
  <2>1. u \in TxnsOf(txns)
    BY <1>2, <1>9 DEF TxnsOf, LedgerInv
  <2>2. PICK T : T = SplitsOf(splits, u)
    OBVIOUS
  <2>3. ASSUME NEW s \in T PROVE s \in Live /\ s \in Live' /\ splits'[s] = splits[s] /\ splits'[s].txn = u
    <3>1. s \in SplitGuids /\ splits[s] # Absent /\ splits[s].txn = u
      BY <2>2 DEF SplitsOf
    <3>2. s \in Live /\ s \in used /\ s \notin SplitsOf(splits, t)
      BY <1>9, <3>1 DEF Live, LedgerInv, SplitsOf
    <3>3. splits'[s] = splits[s]
      BY <1>2, <1>3, <3>1, <3>2
    <3> QED  BY <3>1, <3>2, <3>3 DEF Live
  <2>4. SplitsOf(splits', u) = T
    <3>1. ASSUME NEW s \in SplitsOf(splits', u) PROVE s \in T
      <4>1. s \in SplitGuids /\ splits'[s] # Absent /\ splits'[s].txn = u
        BY DEF SplitsOf
      <4>2. s \notin R
        BY <1>1, <1>5, <1>9, <4>1
      <4>3. splits'[s] = splits[s]
        BY <1>2, <4>1, <4>2
      <4> QED  BY <2>2, <4>1, <4>3 DEF SplitsOf
    <3>2. ASSUME NEW s \in T PROVE s \in SplitsOf(splits', u)
      BY <2>3 DEF SplitsOf, Live
    <3> QED  BY <3>1, <3>2
  <2>5. ExactSum(T)' = ExactSum(T)
    BY <1>7, <2>3, SumKept
  <2>6. ExactSum(T) = 0
    BY <2>1, <2>2 DEF Balanced
  <2>7. SplitsOf(splits, u)' = T
    BY <2>4 DEF SplitsOf
  <2> QED  BY <2>5, <2>6, <2>7 DEF ExactSum
<1>10. ExactSum(SplitsOf(splits, t))' = 0
  <2>1. SplitsOf(splits, t)' = R
    BY <1>2 DEF SplitsOf
  <2> QED  BY <1>8, <2>1 DEF ExactSum
<1>11. Balanced'
  <2> SUFFICES ASSUME NEW u \in TxnsOf(txns)' PROVE ExactSum(SplitsOf(splits, u))' = 0
    BY DEF Balanced
  <2>1. u \in TxnsOf(txns')
    BY DEF TxnsOf
  <2> QED  BY <1>9, <1>10, <2>1
<1> QED  BY <1>7, <1>11

LEMMA DeleteBalances ==
    ASSUME LedgerInv, AmountsGood, Balanced, NEW t \in TxnGuids, txns' = [txns EXCEPT ![t] = Absent],
           splits' = CommitEdit(splits, SplitsOf(splits, t))
    PROVE  AmountsGood' /\ Balanced'
<1>1. \A s \in SplitGuids : splits'[s] = IF s \in SplitsOf(splits, t) THEN Absent ELSE splits[s]
  BY DEF CommitEdit
<1>2. \A s \in Live' : s \in Live /\ splits'[s] = splits[s]
  BY <1>1 DEF Live
<1>3. AmountsGood'
  BY <1>2 DEF AmountsGood
<1>4. ASSUME NEW u \in TxnsOf(txns') PROVE ExactSum(SplitsOf(splits, u))' = 0
  <2>1. u \in TxnsOf(txns) /\ u # t
    BY DEF TxnsOf, LedgerInv
  <2>2. PICK T : T = SplitsOf(splits, u)
    OBVIOUS
  <2>3. \A s \in T : s \in Live /\ s \in Live' /\ splits'[s] = splits[s]
    BY <1>1, <2>1, <2>2 DEF SplitsOf, Live
  <2>4. SplitsOf(splits, u)' = T
    BY <1>1, <2>1, <2>2 DEF SplitsOf
  <2>5. ExactSum(T)' = ExactSum(T)
    BY <1>3, <2>3, SumKept
  <2>6. ExactSum(T) = 0
    BY <2>1, <2>2 DEF Balanced
  <2> QED  BY <2>4, <2>5, <2>6 DEF ExactSum
<1>5. Balanced'
  <2> SUFFICES ASSUME NEW u \in TxnsOf(txns)' PROVE ExactSum(SplitsOf(splits, u))' = 0
    BY DEF Balanced
  <2>1. u \in TxnsOf(txns')
    BY DEF TxnsOf
  <2> QED  BY <1>4, <2>1
<1> QED  BY <1>3, <1>5

LEMMA SumsStay ==
    ASSUME AmountsGood, Balanced, UNCHANGED <<txns, splits>>
    PROVE  AmountsGood' /\ Balanced'
<1>1. Live' = Live /\ TxnsOf(txns)' = TxnsOf(txns) /\ \A t : SplitsOf(splits, t)' = SplitsOf(splits, t)
  BY DEF Live, TxnsOf, SplitsOf
<1>2. ASSUME NEW T PROVE ExactSum(T)' = ExactSum(T)
  BY <1>1 DEF ExactSum
<1> QED  BY <1>1, <1>2 DEF AmountsGood, Balanced, ExactSum

LEMMA BalanceInvAlways == Spec => [](AmountsGood /\ Balanced)
<1>1. Init => AmountsGood /\ Balanced
  BY DEF Init, LedgerInit, AmountsGood, Balanced, Live, TxnsOf
<1>2. QueryInv /\ (AmountsGood /\ Balanced) /\ [Next]_vars => (AmountsGood /\ Balanced)'
  <2> SUFFICES ASSUME QueryInv, AmountsGood, Balanced, [Next]_vars PROVE AmountsGood' /\ Balanced'
    OBVIOUS
  <2>1. LedgerInv
    BY DEF QueryInv
  <2>2. CASE Mutate
    <3>1. Mutation
      BY <2>2 DEF Mutate
    <3>2. ASSUME NEW t \in TxnGuids, NEW spec \in Specs, NEW own \in SUBSET SplitGuids,
                 NEW p \in Places(spec), own \subseteq SplitsOf(splits, t),
                 PlanTransaction(spec, own) = OK, Edit(t, spec, p)
          PROVE  AmountsGood' /\ Balanced'
      <4>1. own \in SUBSET SplitsOf(splits, t)
        BY <3>2
      <4> QED  BY <2>1, <3>2, <4>1, EditBalances
    <3>3. ASSUME NEW c, Refused(c) PROVE AmountsGood' /\ Balanced'
      BY <3>3, SumsStay DEF Refused, book
    <3>4. ASSUME NEW t \in TxnGuids, txns' = [txns EXCEPT ![t] = Absent],
                 splits' = CommitEdit(splits, SplitsOf(splits, t))
          PROVE  AmountsGood' /\ Balanced'
      BY <2>1, <3>4, DeleteBalances
    <3> QED  BY <2>1, <3>1, <3>2, <3>3, <3>4, MutationCases
  <2>3. CASE ~Mutate
    BY <2>3, ReadsChangeNothing, SumsStay
  <2> QED  BY <2>2, <2>3
<1> QED  BY <1>1, <1>2, QueryInvAlways, PTL DEF Spec

(***************************************************************************)
(* PlanTransaction sums the values with the engine's numerics, of whatever *)
(* width, and rejects what is not zero: after any posts, replacements and  *)
(* deletes every transaction has splits and balances in exact arithmetic.  *)
(***************************************************************************)
THEOREM EveryTransactionBalances == Spec => []BookBalances
<1>1. LedgerInv /\ Balanced => BookBalances
  <2> SUFFICES ASSUME LedgerInv, Balanced PROVE BookBalances
    OBVIOUS
  <2>1. \A t \in TxnsOf(txns) : SplitsOf(splits, t) # {} /\ ExactSum(SplitsOf(splits, t)) = 0
    BY DEF LedgerInv, Balanced
  <2>2. \A s \in Live : txns[splits[s].txn] # Absent
    BY DEF LedgerInv, TxnsOf
  <2> QED  BY <2>1, <2>2 DEF BookBalances
<1> QED  BY <1>1, QueryInvAlways, BalanceInvAlways, PTL DEF QueryInv
-----------------------------------------------------------------------------
(* The startup checks                                                       *)

\* The engine's order numbers the splits of a set from 0 on.
LEMMA RankIsOneToOne ==
    ASSUME LedgerInv, NEW S \in SUBSET Live
    PROVE  /\ \A s \in S : Cardinality({r \in S : Before(r, s)}) \in 0 .. Cardinality(S) - 1
           /\ \A s, u \in S :
                 Cardinality({r \in S : Before(r, s)}) = Cardinality({r \in S : Before(r, u)}) => s = u
           /\ \A k \in 0 .. Cardinality(S) - 1 :
                 \E s \in S : Cardinality({r \in S : Before(r, s)}) = k
<1> DEFINE Under(s) == {r \in S : Before(r, s)}
           n == Cardinality(S)
           rank == [s \in S |-> Cardinality(Under(s))]
<1>1. IsFiniteSet(S) /\ n \in Nat
  BY LiveIsFinite
<1>2. ASSUME NEW s \in S PROVE Cardinality(Under(s)) \in 0 .. n - 1
  <2>1. Under(s) \in SUBSET S /\ s \notin Under(s)
    BY BeforeIsOrder
  <2> HIDE DEF Under
  <2>2. Cardinality(Under(s)) \in Nat /\ Cardinality(Under(s)) <= n /\ Cardinality(Under(s)) # n
    BY <1>1, <2>1, FS_Subset, FS_CardinalityType
  <2> QED  BY <1>1, <2>2
<1>3. ASSUME NEW s \in S, NEW u \in S, Before(s, u)
      PROVE  Cardinality(Under(s)) # Cardinality(Under(u))
  <2>1. Under(s) \in SUBSET Under(u) /\ s \in Under(u) /\ s \notin Under(s)
    BY <1>3, BeforeIsOrder
  <2>2. Under(u) \in SUBSET S
    OBVIOUS
  <2> HIDE DEF Under
  <2>3. IsFiniteSet(Under(u))
    BY <1>1, <2>2, FS_Subset
  <2> QED  BY <2>1, <2>3, FS_Subset
<1>4. \A s, u \in S : Cardinality(Under(s)) = Cardinality(Under(u)) => s = u
  <2> SUFFICES ASSUME NEW s \in S, NEW u \in S, s # u
               PROVE  Cardinality(Under(s)) # Cardinality(Under(u))
    OBVIOUS
  <2>1. Before(s, u) \/ Before(u, s)
    BY BeforeIsOrder
  <2> HIDE DEF Under
  <2> QED  BY <1>3, <2>1
<1>5. \A k \in 0 .. n - 1 : \E s \in S : Cardinality(Under(s)) = k
  <2> HIDE DEF Under
  <2>1. rank \in [S -> 0 .. n - 1]
    BY <1>2
  <2>2. \A s, u \in S : rank[s] = rank[u] => s = u
    BY <1>4
  <2>3. rank \in Injection(S, 0 .. n - 1)
    BY <2>1, <2>2, Fun_IsInj
  <2>4. IsFiniteSet(0 .. n - 1) /\ Cardinality(0 .. n - 1) = n
    <3>1. 0 \in Int /\ n - 1 \in Int /\ (0 > n - 1 => n = 0) /\ (n - 1) - 0 + 1 = n
      BY <1>1
    <3> QED  BY <3>1, FS_Interval
  <2>5. rank \in Surjection(S, 0 .. n - 1)
    BY <2>3, <2>4, FS_Injection
  <2>6. \A k \in 0 .. n - 1 : \E s \in S : rank[s] = k
    <3> HIDE DEF rank
    <3> QED  BY <2>5 DEF Surjection
  <2> QED  BY <2>6
<1> QED  BY <1>2, <1>4, <1>5

\* InOrder lists every split of a set once.
LEMMA InOrderLists ==
    ASSUME LedgerInv, NEW S \in SUBSET Live, NEW o, o = InOrder(S)
    PROVE  /\ DOMAIN o = 1 .. Cardinality(S)
           /\ \A i \in 1 .. Cardinality(S) : o[i] \in S
           /\ \A i, j \in 1 .. Cardinality(S) : o[i] = o[j] => i = j
           /\ \A s \in S : \E i \in 1 .. Cardinality(S) : o[i] = s
<1> DEFINE n == Cardinality(S)
           rank(s) == Cardinality({r \in S : Before(r, s)})
<1>1. n \in Nat
  BY LiveIsFinite
<1>2. /\ \A s \in S : rank(s) \in 0 .. n - 1
      /\ \A s, u \in S : rank(s) = rank(u) => s = u
      /\ \A k \in 0 .. n - 1 : \E s \in S : rank(s) = k
  BY RankIsOneToOne
<1>3. o = [i \in 1 .. n |-> CHOOSE s \in S : rank(s) = i - 1]
  BY DEF InOrder
<1> HIDE DEF rank, n
<1>4. ASSUME NEW i \in 1 .. n PROVE o[i] \in S /\ rank(o[i]) = i - 1
  <2>1. i - 1 \in 0 .. n - 1
    BY <1>1
  <2>2. \E s \in S : rank(s) = i - 1
    BY <1>2, <2>1
  <2> QED  BY <1>3, <2>2
<1>5. ASSUME NEW i \in 1 .. n, NEW j \in 1 .. n, o[i] = o[j] PROVE i = j
  <2>1. i - 1 = j - 1
    BY <1>4, <1>5
  <2> QED  BY <1>1, <2>1
<1>6. ASSUME NEW s \in S PROVE \E i \in 1 .. n : o[i] = s
  <2>1. rank(s) \in 0 .. n - 1
    BY <1>2
  <2>2. PICK i \in 1 .. n : i - 1 = rank(s)
    <3>1. rank(s) + 1 \in 1 .. n /\ (rank(s) + 1) - 1 = rank(s)
      BY <1>1, <2>1
    <3> QED  BY <3>1
  <2> QED  BY <1>2, <1>4, <2>2
<1>7. DOMAIN o = 1 .. n
  BY <1>3
<1> QED  BY <1>4, <1>5, <1>6, <1>7 DEF n

\* The exact amounts of the splits of the book.
LEMMA ExactAmounts ==
    ASSUME AmountsGood
    PROVE  \E w \in [Live -> Int] : /\ \A T : ExactSum(T) = SumFunctionOnSet(w, T)
                                    /\ \A s \in Live : w[s] = Exact(splits[s].value)
<1>1. PICK w : w = [s \in Live |-> Exact(splits[s].value)]
  OBVIOUS
<1>2. \A s \in Live : Exact(splits[s].value) \in Int
  BY AmountsAreExact DEF AmountsGood
<1>3. w \in [Live -> Int]
  BY <1>1, <1>2
<1>4. \A T : ExactSum(T) = SumFunctionOnSet(w, T)
  BY <1>1 DEF ExactSum
<1> QED  BY <1>1, <1>3, <1>4

\* A sum of splits that is exactly zero is zero in the engine, unless a partial
\* sum overflows.
LEMMA ZeroUnlessOverflow ==
    ASSUME LedgerInv, AmountsGood, NEW S \in SUBSET Live, ExactSum(S) = 0,
           ~Overflows(Values(S))
    PROVE  ZeroP(RunningSum(Values(S)))
<1>1. PICK o : o = InOrder(S)
  OBVIOUS
<1>2. PICK ss : ss = Values(S)
  OBVIOUS
<1>3. PICK n \in Nat : n = Cardinality(S)
  BY LiveIsFinite
<1>4. /\ DOMAIN o = 1 .. n /\ \A i \in 1 .. n : o[i] \in S
      /\ \A i, j \in 1 .. n : o[i] = o[j] => i = j
      /\ \A s \in S : \E i \in 1 .. n : o[i] = s
  BY <1>1, <1>3, InOrderLists
<1>5. ss = [i \in 1 .. n |-> splits[o[i]]]
  BY <1>1, <1>2, <1>4 DEF Values
<1>6. Len(ss) = n /\ DOMAIN ss = 1 .. n /\ \E X : ss \in Seq(X)
  <2>1. ss \in Seq({splits[o[i]] : i \in 1 .. n})
    BY <1>5
  <2> QED  BY <1>5, <2>1
<1>7. NumericCheck(RunningSum(ss))
  <2>1. CASE n = 0
    <3>1. PICK sum : IsRunning(sum, ss, 0) /\ RunningSum(ss) = sum[0]
      BY <1>6, <2>1, RunningIsSum
    <3>2. RunningSum(ss) = Zero
      BY <3>1 DEF IsRunning
    <3> QED  BY <3>2 DEF NumericCheck, Zero, Numeric
  <2>2. CASE n # 0
    <3>1. n \in DOMAIN ss /\ SubSeq(ss, 1, n) = ss
      BY <1>6, <2>2
    <3> QED  BY <1>2, <3>1 DEF Overflows
  <2> QED  BY <2>1, <2>2
<1>8. PICK w \in [Live -> Int] : /\ \A T : ExactSum(T) = SumFunctionOnSet(w, T)
                                 /\ \A s \in Live : w[s] = Exact(splits[s].value)
  BY ExactAmounts
<1>9. Enumerates(ss, o, S, w)
  <2>1. IsFiniteSet(DOMAIN w) /\ w \in [DOMAIN w -> Int]
    BY LiveIsFinite
  <2>2. ASSUME NEW i \in 1 .. n
        PROVE  GoodNumeric(ss[i].value) /\ o[i] \in DOMAIN w /\ w[o[i]] = Exact(ss[i].value)
    <3>1. o[i] \in Live /\ ss[i] = splits[o[i]]
      BY <1>4, <1>5
    <3>2. GoodNumeric(splits[o[i]].value)
      BY <3>1, AmountsAreExact DEF AmountsGood
    <3> QED  BY <1>8, <3>1, <3>2
  <2>3. \A x : x \in S <=> \E i \in 1 .. n : x = o[i]
    BY <1>4
  <2> QED  BY <1>4, <1>6, <2>1, <2>2, <2>3 DEF Enumerates
<1>10. PICK a : a = RunningSum(ss)
  OBVIOUS
<1>11. GoodNumeric(a) /\ Exact(a) = 0
  BY <1>7, <1>8, <1>9, <1>10, RunningIsExact
<1>12. a.num = 0
  <2>1. PICK k : k = ProductSet(Denoms) \div a.denom
    OBVIOUS
  <2>2. a.num \in Int /\ a.num * k = 0
    BY <1>11, <2>1 DEF GoodNumeric, Exact
  <2>3. k \in Int /\ k # 0
    <3>1. PICK d, p, x \in Int : d = a.denom /\ p = ProductSet(Denoms) /\ p = d * x
      BY <1>11 DEF GoodNumeric, Divides
    <3>2. d \in Nat \ {0} /\ p \in Nat \ {0}
      BY <1>11, <3>1, DenomsDivide DEF GoodNumeric
    <3>3. (d * x) \div d = x
      BY <3>2, Quotient
    <3>4. p \div d = x
      BY <3>1, <3>3, Zenon
    <3>5. x # 0
      BY <3>1, <3>2
    <3> QED  BY <2>1, <3>1, <3>4, <3>5
  <2> QED  BY <2>2, <2>3
<1> QED  BY <1>2, <1>7, <1>10, <1>12 DEF ZeroP

\* Whole transactions, put together, sum to zero.
LEMMA WholeTransactions ==
    ASSUME LedgerInv, AmountsGood, Balanced, NEW T \in SUBSET Live,
           \A r \in T, s \in Live : splits[s].txn = splits[r].txn => s \in T
    PROVE  ExactSum(T) = 0
<1> DEFINE Whole(A) == \A r \in A, s \in Live : splits[s].txn = splits[r].txn => s \in A
           Bad == {A \in SUBSET Live : Whole(A) /\ ExactSum(A) # 0}
<1> SUFFICES ASSUME Bad # {} PROVE FALSE
  OBVIOUS
<1>1. IsFiniteSet(Live)
  BY LiveIsFinite
<1>2. PICK A \in Bad : \A B \in Bad : ~(Cardinality(B) < Cardinality(A))
  <2>1. Bad \in SUBSET SUBSET Live
    OBVIOUS
  <2> HIDE DEF Bad
  <2> QED  BY <1>1, <2>1, SmallestSet
<1>3. PICK w \in [Live -> Int] : /\ \A X : ExactSum(X) = SumFunctionOnSet(w, X)
                                 /\ \A s \in Live : w[s] = Exact(splits[s].value)
  BY ExactAmounts
<1>4. PICK r : r \in A
  <2>1. ExactSum({}) = 0
    BY <1>1, <1>3, SumParts
  <2> QED  BY <2>1
<1>5. PICK P : P = SplitsOf(splits, splits[r].txn)
  OBVIOUS
<1>6. P \in SUBSET A /\ r \in P
  <2>1. \A s : s \in P <=> s \in Live /\ splits[s].txn = splits[r].txn
    BY <1>5 DEF SplitsOf, Live
  <2> QED  BY <1>4, <2>1
<1>7. ExactSum(P) = 0
  BY <1>4, <1>5 DEF LedgerInv, Balanced
<1>8. ExactSum(A \ P) # 0
  <2>1. ExactSum(A) = ExactSum(P) + ExactSum(A \ P)
    BY <1>1, <1>3, <1>6, SumUnion
  <2>2. ExactSum(A) # 0
    OBVIOUS
  <2> QED  BY <1>7, <2>1, <2>2
<1>9. Whole(A \ P)
  BY <1>5, <1>6 DEF SplitsOf, Live
<1>10. Cardinality(A \ P) < Cardinality(A)
  <2>1. IsFiniteSet(A) /\ A \ P \in SUBSET A /\ A # A \ P
    BY <1>1, <1>6, FS_Subset
  <2>2. PICK B : B = A \ P
    OBVIOUS
  <2>3. Cardinality(A) \in Nat /\ Cardinality(B) \in Nat /\ Cardinality(B) <= Cardinality(A)
        /\ Cardinality(B) # Cardinality(A)
    BY <2>1, <2>2, FS_Subset, FS_CardinalityType
  <2> QED  BY <2>2, <2>3
<1> QED  BY <1>2, <1>8, <1>9, <1>10

(***************************************************************************)
(* RunStartupChecks adds with the engine's numerics, transaction by        *)
(* transaction and then currency by currency: whatever clients did, it     *)
(* finds zeroes, unless one of its sums overflows on the way.              *)
(***************************************************************************)
THEOREM HealthyBookReopens == Spec => []BookReopens
<1>1. LedgerInv /\ AmountsGood /\ Balanced => BookReopens
  <2> SUFFICES ASSUME LedgerInv, AmountsGood, Balanced,
                      \A t \in TxnsOf(txns) : ~Overflows(Values(SplitsOf(splits, t))),
                      \A c \in Currencies : ~Overflows(Values(InCurrency(c)))
               PROVE  RunStartupChecks = OK
    BY DEF BookReopens
  <2>1. ASSUME NEW t \in TxnsOf(txns) PROVE ZeroP(Imbalance(t))
    <3>1. SplitsOf(splits, t) \in SUBSET Live /\ ExactSum(SplitsOf(splits, t)) = 0
      BY DEF SplitsOf, Live, Balanced
    <3> QED  BY <3>1, ZeroUnlessOverflow DEF Imbalance
  <2>2. ASSUME NEW c \in Currencies PROVE ZeroP(TrialBalance[c])
    <3>1. /\ InCurrency(c) \in SUBSET Live
          /\ \A r \in InCurrency(c), s \in Live :
                splits[s].txn = splits[r].txn => s \in InCurrency(c)
      BY DEF InCurrency
    <3>2. ExactSum(InCurrency(c)) = 0
      BY <3>1, WholeTransactions
    <3>3. TrialBalance[c] = RunningSum(Values(InCurrency(c)))
      BY DEF TrialBalance
    <3> QED  BY <3>1, <3>2, <3>3, ZeroUnlessOverflow
  <2> QED  BY <2>1, <2>2 DEF RunStartupChecks
<1> QED  BY <1>1, QueryInvAlways, BalanceInvAlways, PTL DEF QueryInv
=============================================================================
