---------------------------- MODULE BookOpsProofs ----------------------------
(***************************************************************************)
(* What the proofs about the mutation protocol need to know of the book    *)
(* operations.                                                             *)
(***************************************************************************)
EXTENDS BookOps, FiniteSetTheorems, WellFoundedInduction, TLAPS

(***************************************************************************)
(* Every check a handler makes against the book ends in a deterministic    *)
(* verdict or in success: only the environment makes a mutation retryable. *)
(***************************************************************************)
LEMMA LateVerdictType ==
    ASSUME NEW r \in Request, NEW b
    PROVE  LateVerdict(r, b) \in DeterministicCodes \cup {OK}
<1>1. \A c, d : c \in DeterministicCodes \cup {OK} /\ d \in DeterministicCodes \cup {OK}
                    => (c ?? d) \in DeterministicCodes \cup {OK}
  BY DEF ??
<1>2. /\ \A g : FindAccount(b, g) \in DeterministicCodes \cup {OK}
      /\ \A g : FindTransaction(b, g) \in DeterministicCodes \cup {OK}
      /\ \A gs : FindAccounts(b, gs) \in DeterministicCodes \cup {OK}
      /\ \A g : CheckIsNotRoot(g) \in DeterministicCodes \cup {OK}
      /\ \A g, ps : CheckNoCycle(b, g, ps) \in DeterministicCodes \cup {OK}
      /\ \A g : CheckIsEmpty(b, g) \in DeterministicCodes \cup {OK}
  BY DEF FindAccount, FindTransaction, FindAccounts, CheckIsNotRoot, CheckNoCycle,
         CheckIsEmpty, DeterministicCodes
<1>3. r.rpc \in RpcName /\ r.head \in DeterministicCodes \cup {OK}
      /\ r.tail \in DeterministicCodes \cup {OK}
  BY DEF Request
<1>4. CheckRefs(r, b) \in DeterministicCodes \cup {OK}
  BY <1>1, <1>2, <1>3 DEF CheckRefs
<1> QED
  BY <1>1, <1>2, <1>3, <1>4
  DEF LateVerdict, RpcName, Creates, Updates, Deletes, CreateAccountChecks,
      UpdateAccountChecks, DeleteAccountChecks, SetReconcileInfoChecks,
      PostTransactionChecks, UpdateTransactionChecks, DeleteTransactionChecks, AddPriceChecks

(***************************************************************************)
(* A handler that gets through its checks works on a live entity of the    *)
(* right kind, unless it is about to allocate one.                         *)
(***************************************************************************)
LEMMA LateVerdictLives ==
    ASSUME NEW r \in Request, NEW b, LateVerdict(r, b) = OK, r.rpc \notin Creates
    PROVE  r.guid \in Guids /\ Lives(b, r.guid, KindOf(r.rpc))
<1>1. \A c, d : (c ?? d) = OK => c = OK /\ d = OK
  BY DEF ??, OK
<1>2. ASSUME FindAccount(b, r.guid) = OK
      PROVE  r.guid \in Guids /\ Lives(b, r.guid, "account")
  BY <1>2 DEF FindAccount, IsAccount, Lives, OK, Request
<1>3. ASSUME FindTransaction(b, r.guid) = OK
      PROVE  r.guid \in Guids /\ Lives(b, r.guid, "txn")
  BY <1>3 DEF FindTransaction, Lives, OK, Request
<1>4. r.rpc \in RpcName
  BY DEF Request
<1>5. CASE r.rpc \in {"UpdateAccount", "DeleteAccount", "SetReconcileInfo"}
  <2>1. FindAccount(b, r.guid) = OK
    BY <1>1, <1>5 DEF LateVerdict, UpdateAccountChecks, DeleteAccountChecks,
                      SetReconcileInfoChecks
  <2> QED  BY <1>2, <1>5, <2>1 DEF KindOf
<1>6. CASE r.rpc \in {"UpdateTransaction", "DeleteTransaction"}
  <2>1. FindTransaction(b, r.guid) = OK
    BY <1>1, <1>6 DEF LateVerdict, UpdateTransactionChecks, DeleteTransactionChecks
  <2> QED  BY <1>3, <1>6, <2>1 DEF KindOf
<1> QED  BY <1>4, <1>5, <1>6 DEF RpcName, Creates, Updates, Deletes

\* The entities an edit can produce are entities.
LEMMA EffectType ==
    ASSUME NEW r \in Request, NEW g \in Guids, NEW b \in Book,
           r.rpc \in Updates => b[g] # Absent
    PROVE  Effect(r, g, b) \in Book
<1>1. r.rpc \in RpcName /\ r.refs \in SUBSET Guids /\ r.data \in Data \cup {NoData}
  BY DEF Request
<1>2. NewEntity(r) \in Entity
  BY <1>1 DEF NewEntity, Entity, KindOf, Kind
<1>3. b[g] # Absent => /\ [b[g] EXCEPT !.recon = r.data] \in Entity
                       /\ [b[g] EXCEPT !.refs = r.refs, !.data = r.data] \in Entity
  BY <1>1 DEF Book, Entity
<1>4. \A e \in Entity \cup {Absent} : [b EXCEPT ![g] = e] \in Book
  BY DEF Book
<1>5. CASE r.rpc \in Creates
  BY <1>2, <1>4, <1>5 DEF Effect, Creates, Deletes
<1>6. CASE r.rpc \in Deletes
  BY <1>4, <1>6 DEF Effect, Creates, Deletes
<1>7. CASE r.rpc \in Updates
  BY <1>3, <1>4, <1>7 DEF Effect, Creates, Deletes, Updates
<1> QED  BY <1>1, <1>5, <1>6, <1>7 DEF RpcName

\* An edit touches the entity it is about and no other.
LEMMA EffectLocal ==
    ASSUME NEW r \in Request, NEW g \in Guids, NEW b \in Book
    PROVE  Effect(r, g, b) = [b EXCEPT ![g] = Effect(r, g, b)[g]]
<1>1. \A e : [b EXCEPT ![g] = e] = [b EXCEPT ![g] = [b EXCEPT ![g] = e][g]]
  BY DEF Book
<1>2. r.rpc \in RpcName
  BY DEF Request
<1>3. CASE r.rpc \in Creates
  BY <1>1, <1>3 DEF Effect, Creates, Deletes
<1>4. CASE r.rpc \in Deletes
  BY <1>1, <1>4 DEF Effect, Creates, Deletes
<1>5. CASE r.rpc \in Updates
  BY <1>1, <1>5 DEF Effect, Creates, Deletes, Updates
<1> QED  BY <1>2, <1>3, <1>4, <1>5 DEF RpcName

LEMMA ToProtoType ==
    ASSUME NEW r \in Request, NEW g \in Guids, NEW b \in Book,
           r.rpc \notin Deletes => b[g] # Absent
    PROVE  ToProto(r, g, b) \in Response
<1>1. b[g] # Absent => /\ b[g].refs \in SUBSET Guids
                       /\ b[g].data \in Data \cup {NoData}
                       /\ b[g].recon \in Data \cup {NoData}
  BY DEF Book, Entity
<1>2. CASE r.rpc \in Deletes
  BY <1>2 DEF ToProto, Empty, Response, Deletes
<1>3. CASE r.rpc = "SetReconcileInfo"
  BY <1>1, <1>3 DEF ToProto, Response, Deletes
<1>4. CASE r.rpc \notin Deletes /\ r.rpc # "SetReconcileInfo"
  BY <1>1, <1>4 DEF ToProto, Response
<1> QED  BY <1>2, <1>3, <1>4

(***************************************************************************)
(* Recovery recognises an edit in the book that has it: the response       *)
(* projected before the commit is the one projected from the book after.   *)
(***************************************************************************)
LEMMA EffectRecognised ==
    ASSUME NEW r \in Request, NEW g \in Guids, NEW b \in Book,
           r.rpc \notin Creates => g = r.guid /\ Lives(b, g, KindOf(r.rpc))
    PROVE  WasApplied(r, ToProto(r, g, Effect(r, g, b)), Effect(r, g, b))
<1> DEFINE a == Effect(r, g, b)
<1>1. r.rpc \in RpcName
  BY DEF Request
<1>2. CASE r.rpc \in Creates
  <2>1. a[g] = NewEntity(r)
    BY <1>2 DEF Effect, Book, Creates, Deletes
  <2>2. a[g] # Absent /\ a[g].kind = KindOf(r.rpc)
    <3>1. NewEntity(r) \in Entity
      BY DEF NewEntity, Entity, KindOf, Kind, Request
    <3> QED  BY <2>1, <3>1, AbsentAssumption DEF NewEntity
  <2>3. ToProto(r, g, a).guid = g
    BY <1>2 DEF ToProto, Creates, Deletes
  <2> QED  BY <1>2, <2>2, <2>3 DEF WasApplied, Lives, Creates, Deletes
<1>3. CASE r.rpc \in Deletes
  <2>1. a[g] = Absent
    BY <1>3 DEF Effect, Book, Creates, Deletes
  <2> QED  BY <1>3, <2>1 DEF WasApplied, Lives, Creates, Deletes
<1>4. CASE r.rpc \in Updates
  <2>1. b[g] \in Entity /\ b[g].kind = KindOf(r.rpc)
    BY <1>4 DEF Lives, Book, Creates, Updates
  <2>2. a[g] \in Entity /\ a[g].kind = KindOf(r.rpc)
    BY <1>4, <2>1 DEF Effect, Book, Entity, Creates, Updates, Deletes, Request
  <2>3. ToProto(r, g, a).guid = g
    BY <1>4 DEF ToProto, Updates, Deletes
  <2>4. a[g] # Absent
    BY <2>2, AbsentAssumption
  <2> QED  BY <1>4, <2>2, <2>3, <2>4 DEF WasApplied, Lives, Creates, Updates, Deletes
<1> QED  BY <1>1, <1>2, <1>3, <1>4 DEF RpcName

(***************************************************************************)
(* And it does not recognise a create or a delete in the book before.      *)
(***************************************************************************)
LEMMA NotRecognisedBefore ==
    ASSUME NEW r \in Request, NEW g \in Guids, NEW b \in Book,
           r.rpc \in Creates => b[g] = Absent,
           r.rpc \notin Creates => g = r.guid /\ Lives(b, g, KindOf(r.rpc)),
           r.rpc \notin Updates
    PROVE  ~WasApplied(r, ToProto(r, g, Effect(r, g, b)), b)
<1>1. r.rpc \in RpcName
  BY DEF Request
<1>2. CASE r.rpc \in Creates
  <2>1. ToProto(r, g, Effect(r, g, b)).guid = g
    BY <1>2 DEF ToProto, Creates, Deletes
  <2> QED  BY <1>2, <2>1 DEF WasApplied, Lives, Creates, Deletes
<1>3. CASE r.rpc \in Deletes
  BY <1>3 DEF WasApplied, Creates, Deletes
<1> QED  BY <1>1, <1>2, <1>3 DEF RpcName
-----------------------------------------------------------------------------
(* The account tree                                                         *)

\* A nonempty set of naturals has a least element.
LEMMA SmallestNat ==
    ASSUME NEW S \in SUBSET Nat, S # {}
    PROVE  \E x \in S : \A y \in S : x <= y
<1> DEFINE less == {ss \in Nat \X Nat : ss[1] < ss[2]}
<1>1. IsWellFoundedOn(less, Nat)
  BY NatLessThanWellFounded DEF OpToRel
<1> HIDE DEF less
<1>2. PICK x \in S : \A y \in S : ~(<<y, x>> \in less)
  BY <1>1, WFMin
<1>3. \A y \in S : <<y, x>> \in less <=> y < x
  BY DEF less
<1>4. ASSUME NEW y \in S PROVE x <= y
  <2>1. x \in Nat /\ y \in Nat /\ ~(y < x)
    BY <1>2, <1>3
  <2> QED  BY <2>1
<1> QED  BY <1>4

\* The walk from g over the parents, n steps long.
IsWalk(up, b, g, n) ==
    up = [i \in 0 .. n |-> IF i = 0 THEN {g} ELSE WithParents(b, up[i - 1])]

LEMMA WalkExists ==
    ASSUME NEW b, NEW g, NEW n \in Nat
    PROVE  \E up : IsWalk(up, b, g, n)
<1> DEFINE Stuck == {k \in Nat : ~\E up : IsWalk(up, b, g, k)}
<1> SUFFICES ASSUME Stuck # {} PROVE FALSE
  OBVIOUS
<1>1. PICK k \in Stuck : \A j \in Stuck : k <= j
  BY SmallestNat
<1>2. k \in Nat /\ ~\E up : IsWalk(up, b, g, k)
  OBVIOUS
<1>3. k # 0
  <2>1. IsWalk([i \in 0 .. 0 |-> {g}], b, g, 0)
    BY DEF IsWalk
  <2> QED  BY <1>2, <2>1
<1>4. k - 1 \in Nat /\ ~(k <= k - 1)
  BY <1>2, <1>3
<1>5. PICK up : IsWalk(up, b, g, k - 1)
  BY <1>1, <1>4
<1> DEFINE more == [i \in 0 .. k |-> IF i = k THEN WithParents(b, up[k - 1]) ELSE up[i]]
<1>6. ASSUME NEW i \in 0 .. k
      PROVE  more[i] = IF i = 0 THEN {g} ELSE WithParents(b, more[i - 1])
  <2>1. CASE i = k
    BY <1>2, <1>3, <1>4, <2>1
  <2>2. CASE i # k
    <3>1. i \in 0 .. k - 1 /\ more[i] = up[i]
      BY <1>2, <2>2
    <3>2. up[i] = IF i = 0 THEN {g} ELSE WithParents(b, up[i - 1])
      BY <1>5, <3>1 DEF IsWalk
    <3>3. i # 0 => more[i - 1] = up[i - 1]
      BY <1>2, <3>1
    <3> QED  BY <3>1, <3>2, <3>3
  <2> QED  BY <2>1, <2>2
<1>7. DOMAIN more = 0 .. k /\ more = [i \in 0 .. k |-> more[i]]
  OBVIOUS
<1> HIDE DEF more
<1>8. IsWalk(more, b, g, k)
  BY <1>6, <1>7 DEF IsWalk
<1> QED  BY <1>2, <1>8

\* Ancestors is where a walk as long as there are GUIDs ends.
LEMMA AncestorsWalk ==
    ASSUME NEW b, NEW g
    PROVE  /\ Cardinality(Guids) \in Nat
           /\ \E up : IsWalk(up, b, g, Cardinality(Guids)) /\ Ancestors(b, g) = up[Cardinality(Guids)]
<1>1. Cardinality(Guids) \in Nat
  BY GuidAssumption, FS_CardinalityType
<1> DEFINE up == CHOOSE f : IsWalk(f, b, g, Cardinality(Guids))
<1>2. IsWalk(up, b, g, Cardinality(Guids))
  BY <1>1, WalkExists
<1>3. Ancestors(b, g) = up[Cardinality(Guids)]
  BY DEF Ancestors, IsWalk
<1> QED  BY <1>1, <1>2, <1>3

\* A set of GUIDs that holds the parent of every account in it.
UpClosed(b, C) == \A h \in C : IsAccount(b, h) => b[h].refs \subseteq C

LEMMA ParentsOf ==
    ASSUME NEW b \in Book, NEW C \in SUBSET Guids
    PROVE  /\ C \subseteq WithParents(b, C) /\ WithParents(b, C) \subseteq Guids
           /\ WithParents(b, C) = C <=> UpClosed(b, C)
           /\ \A D \in SUBSET Guids : UpClosed(b, D) /\ C \subseteq D => WithParents(b, C) \subseteq D
<1>1. \A h \in C : IsAccount(b, h) => b[h].refs \subseteq Guids
  BY DEF IsAccount, Lives, Book, Entity
<1>2. \A x : x \in WithParents(b, C) <=>
                \/ x \in C
                \/ \E h \in C : IsAccount(b, h) /\ x \in b[h].refs
  BY DEF WithParents
<1>3. WithParents(b, C) = C <=> UpClosed(b, C)
  BY <1>2 DEF UpClosed
<1>4. \A D \in SUBSET Guids : UpClosed(b, D) /\ C \subseteq D => WithParents(b, C) \subseteq D
  BY <1>2 DEF UpClosed
<1> QED  BY <1>1, <1>2, <1>3, <1>4

\* Every stage of the walk is a set of GUIDs with g in it, and lies in every
\* closed set with g in it.
LEMMA WalkStages ==
    ASSUME NEW b \in Book, NEW g \in Guids, NEW n \in Nat, NEW up, IsWalk(up, b, g, n),
           NEW i \in 0 .. n
    PROVE  /\ up[i] \in SUBSET Guids /\ g \in up[i]
           /\ \A D \in SUBSET Guids : UpClosed(b, D) /\ g \in D => up[i] \subseteq D
           /\ UpClosed(b, up[i]) \/ Cardinality(up[i]) > i
<1> DEFINE Good(k) == /\ up[k] \in SUBSET Guids /\ g \in up[k]
                      /\ \A D \in SUBSET Guids : UpClosed(b, D) /\ g \in D => up[k] \subseteq D
                      /\ UpClosed(b, up[k]) \/ Cardinality(up[k]) > k
           Bad == {k \in 0 .. n : ~Good(k)}
<1> SUFFICES ASSUME Bad # {} PROVE FALSE
  OBVIOUS
<1>1. PICK k \in Bad : \A j \in Bad : k <= j
  <2>1. Bad \in SUBSET Nat
    OBVIOUS
  <2> HIDE DEF Bad
  <2> QED  BY <2>1, SmallestNat
<1>2. k \in 0 .. n /\ ~Good(k)
  OBVIOUS
<1>3. up[k] = IF k = 0 THEN {g} ELSE WithParents(b, up[k - 1])
  BY <1>2 DEF IsWalk
<1>4. CASE k = 0
  <2>1. up[k] = {g} /\ Cardinality(up[k]) = 1
    BY <1>3, <1>4, FS_Singleton
  <2>2. Cardinality(up[k]) > k
    BY <1>4, <2>1
  <2> QED  BY <1>2, <2>1, <2>2
<1>5. CASE k # 0
  <2>1. k \in Nat /\ k - 1 \in 0 .. n /\ ~(k <= k - 1)
    BY <1>2, <1>5
  <2>2. Good(k - 1)
    BY <1>1, <2>1
  <2>3. up[k] = WithParents(b, up[k - 1])
    BY <1>3, <1>5
  <2> DEFINE C == up[k - 1]
  <2>4. /\ C \in SUBSET Guids /\ g \in C
        /\ \A D \in SUBSET Guids : UpClosed(b, D) /\ g \in D => C \subseteq D
        /\ UpClosed(b, C) \/ Cardinality(C) > k - 1
    BY <2>2
  <2> HIDE DEF C
  <2>5. /\ C \subseteq up[k] /\ up[k] \subseteq Guids
        /\ up[k] = C <=> UpClosed(b, C)
        /\ \A D \in SUBSET Guids : UpClosed(b, D) /\ C \subseteq D => up[k] \subseteq D
    BY <2>3, <2>4, ParentsOf DEF C
  <2>6. UpClosed(b, up[k]) \/ Cardinality(up[k]) > k
    <3>1. CASE UpClosed(b, C)
      BY <2>5, <3>1
    <3>2. CASE ~UpClosed(b, C)
      <4>1. Cardinality(C) > k - 1 /\ C # up[k]
        BY <2>4, <2>5, <3>2
      <4>2. IsFiniteSet(up[k]) /\ IsFiniteSet(C)
        BY <2>5, GuidAssumption, FS_Subset
      <4>3. Cardinality(C) <= Cardinality(up[k]) /\ Cardinality(C) # Cardinality(up[k])
        BY <2>5, <4>1, <4>2, FS_Subset
      <4>4. Cardinality(C) \in Nat /\ Cardinality(up[k]) \in Nat
        BY <4>2, FS_CardinalityType
      <4> QED  BY <2>1, <4>1, <4>3, <4>4
    <3> QED  BY <3>1, <3>2
  <2> QED  BY <1>2, <2>4, <2>5, <2>6
<1> QED  BY <1>4, <1>5

(***************************************************************************)
(* The ancestors of g are the least set of GUIDs that holds g and, with    *)
(* every account, its parent: walking as often as there are GUIDs reaches  *)
(* them all, since until then each step adds one.                          *)
(***************************************************************************)
LEMMA AncestorsLeast ==
    ASSUME NEW b \in Book, NEW g \in Guids
    PROVE  /\ Ancestors(b, g) \in SUBSET Guids /\ g \in Ancestors(b, g)
           /\ UpClosed(b, Ancestors(b, g))
           /\ \A D \in SUBSET Guids : UpClosed(b, D) /\ g \in D => Ancestors(b, g) \subseteq D
<1> DEFINE N == Cardinality(Guids)
<1>1. N \in Nat
  BY AncestorsWalk
<1>2. PICK up : IsWalk(up, b, g, N) /\ Ancestors(b, g) = up[N]
  BY AncestorsWalk
<1> HIDE DEF N
<1>3. N \in 0 .. N
  BY <1>1
<1>4. /\ up[N] \in SUBSET Guids /\ g \in up[N]
      /\ \A D \in SUBSET Guids : UpClosed(b, D) /\ g \in D => up[N] \subseteq D
      /\ UpClosed(b, up[N]) \/ Cardinality(up[N]) > N
  BY <1>1, <1>2, <1>3, WalkStages
<1>5. Cardinality(up[N]) \in Nat /\ Cardinality(up[N]) <= N
  BY <1>4, GuidAssumption, FS_Subset, FS_CardinalityType DEF N
<1>6. UpClosed(b, up[N])
  BY <1>1, <1>4, <1>5
<1> QED  BY <1>2, <1>4, <1>6

\* The root is above g exactly when no closed set with g in it misses the root.
LEMMA RootAbove ==
    ASSUME NEW b \in Book, NEW g \in Guids
    PROVE  Root \in Ancestors(b, g) <=>
               \A C \in SUBSET Guids : UpClosed(b, C) /\ g \in C => Root \in C
  BY AncestorsLeast

\* A book whose accounts and their parents are those of a sound book is a tree.
LEMMA SameAccounts ==
    ASSUME NEW b \in Book, NEW a \in Book, AccountTree(b),
           \A h \in Guids : /\ IsAccount(a, h) <=> IsAccount(b, h)
                            /\ IsAccount(b, h) => a[h].refs = b[h].refs
    PROVE  AccountTree(a)
<1>1. IsAccount(a, Root) /\ a[Root].refs = {}
  BY GuidAssumption DEF AccountTree
<1>2. \A C \in SUBSET Guids : UpClosed(a, C) => UpClosed(b, C)
  BY DEF UpClosed
<1>3. ASSUME NEW g \in Guids, IsAccount(a, g) PROVE Root \in Ancestors(a, g)
  <2>1. Root \in Ancestors(b, g)
    BY <1>3 DEF AccountTree
  <2> QED  BY <1>2, <2>1, RootAbove
<1> QED  BY <1>1, <1>3 DEF AccountTree

\* A new account below an account of the tree.
LEMMA LeafAdded ==
    ASSUME NEW b \in Book, NEW a \in Book, AccountTree(b),
           NEW g \in Guids, b[g] = Absent, NEW p \in Guids, IsAccount(b, p),
           a[g].refs = {p}, IsAccount(a, g), \A h \in Guids \ {g} : a[h] = b[h]
    PROVE  AccountTree(a)
<1>1. ~IsAccount(b, g) /\ \A h \in Guids \ {g} : IsAccount(a, h) <=> IsAccount(b, h)
  BY DEF IsAccount, Lives
<1>2. IsAccount(a, Root) /\ a[Root].refs = {}
  BY <1>1, GuidAssumption DEF AccountTree
<1>3. \A C \in SUBSET Guids : UpClosed(a, C) => UpClosed(b, C)
  BY <1>1 DEF UpClosed
<1>4. \A h \in Guids : IsAccount(b, h) => Root \in Ancestors(b, h)
  BY DEF AccountTree
<1>5. ASSUME NEW h \in Guids, IsAccount(a, h) PROVE Root \in Ancestors(a, h)
  <2> SUFFICES ASSUME NEW C \in SUBSET Guids, UpClosed(a, C), h \in C PROVE Root \in C
    BY RootAbove
  <2>1. UpClosed(b, C)
    BY <1>3
  <2>2. \A k \in C : IsAccount(b, k) => Root \in C
    BY <1>4, <2>1, RootAbove
  <2>3. h = g => p \in C
    BY <1>5 DEF UpClosed
  <2> QED  BY <1>1, <1>5, <2>2, <2>3
<1> QED  BY <1>2, <1>5 DEF AccountTree

\* An account nothing refers to goes.
LEMMA LeafRemoved ==
    ASSUME NEW b \in Book, NEW a \in Book, AccountTree(b),
           NEW g \in Guids, g # Root, a[g] = Absent,
           \A h \in Guids : b[h] # Absent => g \notin b[h].refs,
           \A h \in Guids \ {g} : a[h] = b[h]
    PROVE  AccountTree(a)
<1>1. ~IsAccount(a, g) /\ \A h \in Guids \ {g} : IsAccount(a, h) <=> IsAccount(b, h)
  BY DEF IsAccount, Lives
<1>2. IsAccount(a, Root) /\ a[Root].refs = {}
  BY <1>1, GuidAssumption DEF AccountTree
<1>3. \A h \in Guids : IsAccount(b, h) => g \notin b[h].refs
  BY DEF IsAccount, Lives
<1>4. \A C \in SUBSET Guids : UpClosed(a, C) => UpClosed(b, C \ {g})
  BY <1>1, <1>3 DEF UpClosed
<1>5. ASSUME NEW h \in Guids, IsAccount(a, h) PROVE Root \in Ancestors(a, h)
  <2> SUFFICES ASSUME NEW C \in SUBSET Guids, UpClosed(a, C), h \in C PROVE Root \in C
    BY RootAbove
  <2>1. h # g /\ IsAccount(b, h)
    BY <1>1, <1>5
  <2>2. Root \in Ancestors(b, h)
    BY <2>1 DEF AccountTree
  <2> DEFINE D == C \ {g}
  <2>3. D \in SUBSET Guids /\ UpClosed(b, D) /\ h \in D
    BY <1>4, <2>1
  <2>4. Root \in D
    BY <2>2, <2>3, RootAbove
  <2> QED  BY <2>4
<1> QED  BY <1>2, <1>5 DEF AccountTree

(***************************************************************************)
(* An account moves below one that is not its descendant: what a closed    *)
(* set of the new tree has above the new parent was above it before.       *)
(***************************************************************************)
LEMMA BranchMoved ==
    ASSUME NEW b \in Book, NEW a \in Book, AccountTree(b),
           NEW g \in Guids, g # Root, IsAccount(b, g), NEW p \in Guids, IsAccount(b, p),
           g \notin Ancestors(b, p), a[g].refs = {p}, IsAccount(a, g),
           \A h \in Guids \ {g} : a[h] = b[h]
    PROVE  AccountTree(a)
<1>1. \A h \in Guids : IsAccount(a, h) <=> IsAccount(b, h)
  BY DEF IsAccount, Lives
<1>2. IsAccount(a, Root) /\ a[Root].refs = {}
  BY <1>1, GuidAssumption DEF AccountTree
<1>3. \A h \in Guids : IsAccount(b, h) => Root \in Ancestors(b, h)
  BY DEF AccountTree
<1>4. /\ Ancestors(b, p) \in SUBSET Guids /\ p \in Ancestors(b, p)
      /\ UpClosed(b, Ancestors(b, p))
  BY AncestorsLeast
<1>5. ASSUME NEW h \in Guids, IsAccount(a, h) PROVE Root \in Ancestors(a, h)
  <2> SUFFICES ASSUME NEW C \in SUBSET Guids, UpClosed(a, C), h \in C PROVE Root \in C
    BY RootAbove
  <2>1. CASE g \notin C
    <3>1. UpClosed(b, C)
      BY <1>1, <2>1 DEF UpClosed
    <3> QED  BY <1>1, <1>3, <1>5, <3>1, RootAbove
  <2>2. CASE g \in C
    <3> DEFINE D == C \cap Ancestors(b, p)
    <3>1. p \in D
      BY <1>4, <2>2 DEF UpClosed
    <3>2. UpClosed(b, D)
      <4> SUFFICES ASSUME NEW k \in D, IsAccount(b, k) PROVE b[k].refs \subseteq D
        BY DEF UpClosed
      <4>1. k \in Guids \ {g} /\ k \in C /\ k \in Ancestors(b, p)
        OBVIOUS
      <4>2. b[k].refs \subseteq Ancestors(b, p)
        BY <1>4, <4>1 DEF UpClosed
      <4>3. a[k] = b[k] /\ IsAccount(a, k)
        BY <1>1, <4>1
      <4>4. b[k].refs \subseteq C
        BY <4>1, <4>3 DEF UpClosed
      <4> QED  BY <4>2, <4>4
    <3>3. Root \in Ancestors(b, p) /\ D \in SUBSET Guids
      BY <1>3
    <3> HIDE DEF D
    <3>4. Root \in D
      BY <3>1, <3>2, <3>3, RootAbove
    <3> QED  BY <3>4 DEF D
  <2> QED  BY <2>1, <2>2
<1> QED  BY <1>2, <1>5 DEF AccountTree

\* References stay live when no account goes and the changed entity's own are.
LEMMA RefsKept ==
    ASSUME NEW b \in Book, NEW a \in Book, RefsLive(b), NEW g \in Guids,
           \A h \in Guids \ {g} : a[h] = b[h],
           \A h \in Guids : IsAccount(b, h) => IsAccount(a, h),
           a[g] # Absent => \A h \in a[g].refs : IsAccount(b, h)
    PROVE  RefsLive(a)
<1> SUFFICES ASSUME NEW k \in Guids, a[k] # Absent, NEW h \in a[k].refs PROVE IsAccount(a, h)
  BY DEF RefsLive
<1>1. IsAccount(b, h)
  BY DEF RefsLive
<1> QED  BY <1>1 DEF IsAccount, Lives

\* An accepted request refers to accounts of the book only.
LEMMA RefsChecked ==
    ASSUME NEW r \in Request, NEW b, CheckRefs(r, b) = OK
    PROVE  \A h \in r.refs : IsAccount(b, h)
<1>1. FindAccounts(b, r.refs) = OK
  BY DEF CheckRefs, ??, OK
<1> QED  BY <1>1 DEF FindAccounts, OK

(***************************************************************************)
(* What the handlers check is enough: an accepted request turns a sound    *)
(* book into a sound book.                                                 *)
(***************************************************************************)
LEMMA EffectSound ==
    ASSUME NEW r \in Request, WellFormed(r), NEW b \in Book, BookSound(b),
           LateVerdict(r, b) = OK, NEW g \in Guids,
           r.rpc \in Creates => b[g] = Absent, r.rpc \notin Creates => g = r.guid
    PROVE  BookSound(Effect(r, g, b))
<1>1. \A c, d : (c ?? d) = OK => c = OK /\ d = OK
  BY DEF ??, OK
<1>2. PICK a : a = Effect(r, g, b)
  OBVIOUS
<1>3. r.rpc \notin Creates => Lives(b, g, KindOf(r.rpc))
  BY LateVerdictLives
<1>4. a \in Book
  BY <1>2, <1>3, EffectType DEF Lives, Creates, Updates
<1>5. RefsLive(b) /\ AccountTree(b)
  BY DEF BookSound
<1>6. \A h \in Guids \ {g} : a[h] = b[h]
  BY <1>2, EffectLocal DEF Book
<1>c. ASSUME r.rpc \in Creates
      PROVE  a[g].kind = KindOf(r.rpc) /\ a[g].refs = r.refs /\ a[g] # Absent
  <2>1. a[g] = NewEntity(r)
    BY <1>2, <1>c DEF Effect, Book, Creates, Deletes
  <2>2. NewEntity(r) \in Entity
    BY DEF NewEntity, Entity, KindOf, Kind, Request
  <2> QED  BY <2>1, <2>2, AbsentAssumption DEF NewEntity
<1>d. r.rpc \in Deletes => a[g] = Absent
  BY <1>2 DEF Effect, Book, Creates, Deletes
<1>u. ASSUME r.rpc \in Updates
      PROVE  /\ b[g] # Absent /\ b[g].kind = KindOf(r.rpc)
             /\ a[g].kind = KindOf(r.rpc) /\ a[g] # Absent
             /\ a[g].refs = IF r.rpc = "SetReconcileInfo" THEN b[g].refs ELSE r.refs
  <2>1. b[g] \in Entity /\ b[g] # Absent /\ b[g].kind = KindOf(r.rpc)
    BY <1>3, <1>u DEF Lives, Book, Creates, Updates
  <2>2. /\ a[g] \in Entity /\ a[g].kind = KindOf(r.rpc)
        /\ a[g].refs = IF r.rpc = "SetReconcileInfo" THEN b[g].refs ELSE r.refs
    BY <1>2, <1>u, <2>1 DEF Effect, Book, Entity, Creates, Updates, Deletes, Request
  <2> QED  BY <2>1, <2>2, AbsentAssumption
<1>7. \A h \in Guids \ {g} : IsAccount(a, h) <=> IsAccount(b, h)
  BY <1>6 DEF IsAccount, Lives
<1>8. CASE r.rpc = "CreateAccount"
  <2>1. \A h \in r.refs : IsAccount(b, h)
    BY <1>1, <1>8, RefsChecked DEF LateVerdict, CreateAccountChecks
  <2>2. PICK p \in Guids : r.refs = {p}
    BY <1>8 DEF WellFormed
  <2>3. IsAccount(a, g) /\ a[g].refs = {p} /\ b[g] = Absent
    BY <1>c, <1>8, <2>2 DEF IsAccount, Lives, KindOf, Creates
  <2>4. AccountTree(a)
    BY <1>4, <1>5, <1>6, <2>1, <2>2, <2>3, LeafAdded
  <2>5. RefsLive(a)
    BY <1>4, <1>5, <1>6, <1>7, <2>1, <2>2, <2>3, RefsKept
  <2> QED  BY <1>2, <2>4, <2>5 DEF BookSound
<1>9. CASE r.rpc = "UpdateAccount"
  <2>1. /\ CheckIsNotRoot(r.guid) = OK /\ CheckRefs(r, b) = OK
        /\ CheckNoCycle(b, r.guid, r.refs) = OK
    BY <1>1, <1>9 DEF LateVerdict, UpdateAccountChecks
  <2>2. PICK p \in Guids : r.refs = {p}
    BY <1>9 DEF WellFormed
  <2>3. g = r.guid /\ g # Root
    BY <1>9, <2>1 DEF CheckIsNotRoot, OK, Creates
  <2>4. IsAccount(b, p) /\ g \notin Ancestors(b, p)
    BY <2>1, <2>2, <2>3, RefsChecked DEF CheckNoCycle, OK
  <2>5. IsAccount(b, g) /\ IsAccount(a, g) /\ a[g].refs = {p}
    BY <1>u, <1>9, <2>2 DEF IsAccount, Lives, KindOf, Updates
  <2>6. AccountTree(a)
    BY <1>4, <1>5, <1>6, <2>3, <2>4, <2>5, BranchMoved
  <2>7. RefsLive(a)
    BY <1>4, <1>5, <1>6, <1>7, <2>4, <2>5, RefsKept
  <2> QED  BY <1>2, <2>6, <2>7 DEF BookSound
<1>10. CASE r.rpc = "DeleteAccount"
  <2>1. CheckIsNotRoot(r.guid) = OK /\ CheckIsEmpty(b, r.guid) = OK
    BY <1>1, <1>10 DEF LateVerdict, DeleteAccountChecks
  <2>2. g = r.guid /\ g # Root /\ a[g] = Absent
    BY <1>d, <1>10, <2>1 DEF CheckIsNotRoot, OK, Creates, Deletes
  <2>3. \A h \in Guids : b[h] # Absent => g \notin b[h].refs
    BY <2>1, <2>2 DEF CheckIsEmpty, OK
  <2>4. AccountTree(a)
    BY <1>4, <1>5, <1>6, <2>2, <2>3, LeafRemoved
  <2>5. RefsLive(a)
    BY <1>5, <1>6, <1>7, <2>2, <2>3 DEF RefsLive, IsAccount, Lives
  <2> QED  BY <1>2, <2>4, <2>5 DEF BookSound
<1>11. CASE r.rpc \notin {"CreateAccount", "UpdateAccount", "DeleteAccount"}
  <2>1. r.rpc \in {"PostTransaction", "AddPrice", "SetReconcileInfo", "UpdateTransaction",
                   "DeleteTransaction"}
    BY <1>11 DEF Request, RpcName, Creates, Updates, Deletes
  <2>2. /\ IsAccount(a, g) <=> IsAccount(b, g)
        /\ IsAccount(b, g) => a[g].refs = b[g].refs
    <3>1. CASE r.rpc \in {"PostTransaction", "AddPrice"}
      <4>1. a[g].kind # "account" /\ b[g] = Absent
        BY <1>c, <3>1 DEF KindOf, Creates
      <4> QED  BY <4>1 DEF IsAccount, Lives
    <3>2. CASE r.rpc = "SetReconcileInfo"
      BY <1>u, <3>2 DEF IsAccount, Lives, KindOf, Updates
    <3>3. CASE r.rpc = "UpdateTransaction"
      <4>1. a[g].kind # "account" /\ b[g].kind # "account"
        BY <1>u, <3>3 DEF KindOf, Updates
      <4> QED  BY <4>1 DEF IsAccount, Lives
    <3>4. CASE r.rpc = "DeleteTransaction"
      <4>1. a[g] = Absent /\ b[g].kind # "account"
        BY <1>d, <1>3, <3>4 DEF KindOf, Lives, Creates, Deletes
      <4> QED  BY <4>1 DEF IsAccount, Lives
    <3> QED  BY <2>1, <3>1, <3>2, <3>3, <3>4
  <2>3. AccountTree(a)
    <3>1. \A h \in Guids : /\ IsAccount(a, h) <=> IsAccount(b, h)
                           /\ IsAccount(b, h) => a[h].refs = b[h].refs
      BY <1>6, <1>7, <2>2
    <3> QED  BY <1>4, <1>5, <3>1, SameAccounts
  <2>4. a[g] # Absent => \A h \in a[g].refs : IsAccount(b, h)
    <3>1. CASE r.rpc \in {"PostTransaction", "UpdateTransaction"}
      <4>1. \A h \in r.refs : IsAccount(b, h)
        BY <1>1, <3>1, RefsChecked DEF LateVerdict, PostTransactionChecks,
           UpdateTransactionChecks
      <4> QED  BY <1>c, <1>u, <3>1, <4>1 DEF Creates, Updates
    <3>2. CASE r.rpc = "AddPrice"
      BY <1>c, <3>2 DEF WellFormed, Creates
    <3>3. CASE r.rpc = "SetReconcileInfo"
      BY <1>5, <1>u, <3>3 DEF RefsLive, Updates
    <3>4. CASE r.rpc = "DeleteTransaction"
      BY <1>d, <3>4 DEF Deletes
    <3> QED  BY <2>1, <3>1, <3>2, <3>3, <3>4
  <2>5. RefsLive(a)
    BY <1>4, <1>5, <1>6, <1>7, <2>2, <2>4, RefsKept
  <2> QED  BY <1>2, <2>3, <2>5 DEF BookSound
<1> QED  BY <1>8, <1>9, <1>10, <1>11
=============================================================================
