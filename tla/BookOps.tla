------------------------------- MODULE BookOps -------------------------------
(***************************************************************************)
(* What the eight mutating RPCs check and do to the book                   *)
(* (account_service.cpp, transaction_service.cpp, commodity_service.cpp),  *)
(* what they answer (map.cpp), and how crash recovery recognises their     *)
(* effect in a book (recovery.cpp).                                        *)
(*                                                                         *)
(* A book maps every GUID to the entity it names, or to Absent.  An entity *)
(* keeps what the properties tell apart:                                   *)
(*   kind   "account", "txn" or "price"                                    *)
(*   refs   the accounts it points at: {parent} for an account ({} for the *)
(*          root), the accounts of its splits for a transaction            *)
(*   data   every other field a full-replacement update overwrites         *)
(*   recon  the last-reconciled slot, which only SetReconcileInfo writes   *)
(***************************************************************************)
EXTENDS ErrorCodes, Naturals, FiniteSets

CONSTANTS Guids,    \* the GUIDs of the instance
          NoGuid,   \* the empty or malformed GUID text
          Root,     \* the root account's GUID
          Absent,   \* the value of a GUID that names nothing
          NoData,   \* a field the RPC does not carry
          Data      \* the values of the other fields

\* GUIDs are 128 bits wide.
ASSUME GuidAssumption == IsFiniteSet(Guids) /\ Root \in Guids /\ NoGuid \notin Guids

Kind == {"account", "txn", "price"}

Entity == [kind : Kind, refs : SUBSET Guids,
           data : Data \cup {NoData}, recon : Data \cup {NoData}]

ASSUME AbsentAssumption == Absent \notin Entity

Book == [Guids -> Entity \cup {Absent}]

Creates == {"CreateAccount", "PostTransaction", "AddPrice"}
Updates == {"UpdateAccount", "SetReconcileInfo", "UpdateTransaction"}
Deletes == {"DeleteAccount", "DeleteTransaction"}
RpcName == Creates \cup Updates \cup Deletes

KindOf(rpc) ==
    CASE rpc \in {"PostTransaction", "UpdateTransaction", "DeleteTransaction"}
                            -> "txn"
      [] rpc = "AddPrice"   -> "price"
      [] OTHER              -> "account"

(***************************************************************************)
(* A request.  Checks that read nothing but the request (and the commodity *)
(* table, which no RPC changes) are reduced to the code they end in:       *)
(*   early  the checks made before the handler asks for the book           *)
(*   head   the ones before it looks up the first account it refers to     *)
(*   tail   the first later one that fails: types, numerics, overflow, the *)
(*          sum of the splits, an account reference that is no GUID        *)
(*   seen   the accounts looked up by then; splits are checked one by one, *)
(*          so a bad numeric can come before the next split's account      *)
(* Split GUIDs are not represented: an UpdateTransaction here names none,  *)
(* and so replaces all splits of its transaction.                          *)
(***************************************************************************)
Request == [rpc : RpcName, guid : Guids \cup {NoGuid}, refs : SUBSET Guids,
            seen : SUBSET Guids, data : Data \cup {NoData},
            early : {OK, "INVALID_ARGUMENT"},
            head : DeterministicCodes \cup {OK},
            tail : DeterministicCodes \cup {OK}]

\* What a request must look like: an update or delete of nothing is malformed
\* and creates carry no GUID (otherwise early is INVALID_ARGUMENT); an account
\* has one parent; deletes refer to nothing.
WellFormed(r) ==
    /\ r.rpc \in Creates => r.guid = NoGuid
    /\ r.rpc \in {"CreateAccount", "UpdateAccount"} => \E p \in Guids : r.refs = {p}
    /\ r.rpc \in {"AddPrice", "SetReconcileInfo"} \cup Deletes => r.refs = {}
    /\ r.seen \subseteq r.refs
-----------------------------------------------------------------------------
Lives(b, g, kind) == g \in Guids /\ b[g] # Absent /\ b[g].kind = kind

IsAccount(b, g) == Lives(b, g, "account")

\* StringToGuid refuses malformed text, then the typed engine lookup decides.
FindAccount(b, g) ==
    IF g = NoGuid THEN "INVALID_ARGUMENT"
    ELSE IF IsAccount(b, g) THEN OK ELSE "ACCOUNT_NOT_FOUND"

FindTransaction(b, g) ==
    IF g = NoGuid THEN "INVALID_ARGUMENT"
    ELSE IF Lives(b, g, "txn") THEN OK ELSE "TXN_NOT_FOUND"

FindAccounts(b, gs) ==
    IF \A g \in gs : IsAccount(b, g) THEN OK ELSE "ACCOUNT_NOT_FOUND"

CheckIsNotRoot(g) == IF g = Root THEN "INVALID_ARGUMENT" ELSE OK

\* The accounts of gs and their parents.
WithParents(b, gs) == gs \cup UNION {b[h].refs : h \in {x \in gs : IsAccount(b, x)}}

\* The parents walked from g up to the root, g included.
Ancestors(b, g) ==
    LET up[n \in 0 .. Cardinality(Guids)] ==
            IF n = 0 THEN {g} ELSE WithParents(b, up[n - 1])
    IN  up[Cardinality(Guids)]

\* Mutant: the reparent guard only looks at the parent itself.
ParentIsNotSelf(b, g, parents) ==
    IF g \in parents THEN "INVALID_ARGUMENT" ELSE OK

CheckNoCycle(b, g, parents) ==
    IF \E p \in parents : g \in Ancestors(b, p) THEN "INVALID_ARGUMENT" ELSE OK

\* Mutant: only children keep an account from being deleted, not splits.
HasNoChildren(b, g) ==
    IF \E h \in Guids : IsAccount(b, h) /\ g \in b[h].refs
    THEN "ACCOUNT_NOT_EMPTY" ELSE OK

\* DeleteAccount: xaccAccountGetSplitList and gnc_account_n_children.
CheckIsEmpty(b, g) ==
    IF \E h \in Guids : b[h] # Absent /\ g \in b[h].refs
    THEN "ACCOUNT_NOT_EMPTY" ELSE OK

\* Looking up the accounts in order, interrupted by the request's own failure.
CheckRefs(r, b) == FindAccounts(b, r.seen) ?? r.tail ?? FindAccounts(b, r.refs)

\* What each handler validates against book b once it has the book, in its order.
CreateAccountChecks(r, b) == r.head ?? CheckRefs(r, b)

UpdateAccountChecks(r, b) ==
    FindAccount(b, r.guid) ?? CheckIsNotRoot(r.guid) ?? r.head
    ?? CheckRefs(r, b) ?? CheckNoCycle(b, r.guid, r.refs)

DeleteAccountChecks(r, b) ==
    FindAccount(b, r.guid) ?? CheckIsNotRoot(r.guid) ?? CheckIsEmpty(b, r.guid)

SetReconcileInfoChecks(r, b) == FindAccount(b, r.guid) ?? r.head

PostTransactionChecks(r, b) == r.head ?? CheckRefs(r, b)

UpdateTransactionChecks(r, b) == FindTransaction(b, r.guid) ?? r.head ?? CheckRefs(r, b)

DeleteTransactionChecks(r, b) == FindTransaction(b, r.guid)

AddPriceChecks(r, b) == r.head

LateVerdict(r, b) ==
    CASE r.rpc = "CreateAccount"     -> CreateAccountChecks(r, b)
      [] r.rpc = "UpdateAccount"     -> UpdateAccountChecks(r, b)
      [] r.rpc = "DeleteAccount"     -> DeleteAccountChecks(r, b)
      [] r.rpc = "SetReconcileInfo"  -> SetReconcileInfoChecks(r, b)
      [] r.rpc = "PostTransaction"   -> PostTransactionChecks(r, b)
      [] r.rpc = "UpdateTransaction" -> UpdateTransactionChecks(r, b)
      [] r.rpc = "DeleteTransaction" -> DeleteTransactionChecks(r, b)
      [] r.rpc = "AddPrice"          -> AddPriceChecks(r, b)

Verdict(r, b) == r.early ?? LateVerdict(r, b)
-----------------------------------------------------------------------------
\* The entity a create allocates, with its fields set.
NewEntity(r) == [kind |-> KindOf(r.rpc), refs |-> r.refs,
                 data |-> r.data, recon |-> NoData]

\* The book after the edit of request r on the entity g.
Effect(r, g, b) ==
    CASE r.rpc \in Creates -> [b EXCEPT ![g] = NewEntity(r)]
      [] r.rpc \in Deletes -> [b EXCEPT ![g] = Absent]
      [] r.rpc = "SetReconcileInfo" ->
            [b EXCEPT ![g] = [b[g] EXCEPT !.recon = r.data]]
      [] OTHER ->
            [b EXCEPT ![g] = [b[g] EXCEPT !.refs = r.refs, !.data = r.data]]

\* The wire messages.  Empty is what a delete answers: it serialises to zero
\* bytes, which are not SQL NULL.
Response == [guid : Guids \cup {NoGuid}, refs : SUBSET Guids,
             data : Data \cup {NoData}]

Empty == [guid |-> NoGuid, refs |-> {}, data |-> NoData]

\* AccountToProto, TransactionToProto, PriceToProto and ReconcileInfoToProto:
\* ReconcileInfo carries the slot (and a balance computed from splits, which no
\* account edit touches), Account everything but the slot.
ToProto(r, g, b) ==
    CASE r.rpc \in Deletes -> Empty
      [] r.rpc = "SetReconcileInfo" ->
            [guid |-> g, refs |-> {}, data |-> b[g].recon]
      [] OTHER -> [guid |-> g, refs |-> b[g].refs, data |-> b[g].data]

\* Mutant: an update is recognised by its GUID, as a create is.
WasAppliedByGuid(r, resp, b) ==
    IF r.rpc \in Deletes THEN ~Lives(b, r.guid, KindOf(r.rpc))
    ELSE Lives(b, resp.guid, KindOf(r.rpc))

\* Mutant: a delete is looked up by the GUID of its response, which is Empty.
WasAppliedByResponse(r, resp, b) ==
    CASE r.rpc \in Creates -> Lives(b, resp.guid, KindOf(r.rpc))
      [] r.rpc \in Deletes -> ~Lives(b, resp.guid, KindOf(r.rpc))
      [] OTHER -> /\ Lives(b, resp.guid, KindOf(r.rpc))
                  /\ ToProto(r, resp.guid, b) = resp

\* recovery.cpp: does book b show the effect of request r, whose pending
\* response is resp?  A create is recognised by its GUID, an update by the
\* whole entity, a delete by the absence of the request's GUID.
WasApplied(r, resp, b) ==
    CASE r.rpc \in Creates -> Lives(b, resp.guid, KindOf(r.rpc))
      [] r.rpc \in Deletes -> ~Lives(b, r.guid, KindOf(r.rpc))
      [] OTHER -> /\ Lives(b, resp.guid, KindOf(r.rpc))
                  /\ ToProto(r, resp.guid, b) = resp
-----------------------------------------------------------------------------
(***************************************************************************)
(* What makes a book a book: the root is there; every account but the root *)
(* hangs below it; splits post to accounts that exist.                     *)
(***************************************************************************)
RefsLive(b) ==
    \A g \in Guids : b[g] # Absent => \A h \in b[g].refs : IsAccount(b, h)

AccountTree(b) ==
    /\ IsAccount(b, Root) /\ b[Root].refs = {}
    /\ \A g \in Guids : IsAccount(b, g) => Root \in Ancestors(b, g)

BookSound(b) == RefsLive(b) /\ AccountTree(b)
=============================================================================
