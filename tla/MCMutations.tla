----------------------------- MODULE MCMutations -----------------------------
(***************************************************************************)
(* Small instances of MutationProtocol.  The book starts with the root,    *)
(* two accounts below it and a transaction that posts to the first; n1 and *)
(* n2 are free GUIDs.  A run's Guids are the ones its requests can touch.  *)
(***************************************************************************)
EXTENDS MutationProtocol, TLC

CONSTANTS root, a1, a2, t1, n1, n2,       \* GUIDs
          x, y,                           \* values of an entity's other fields
          acct, price, post,              \* mutation ids, named for what they do
          move12, move21, rename, recon,
          retxn, deltxn, delacct, bad, noid

MCData == {x, y}

Account(parents) == [kind |-> "account", refs |-> parents, data |-> x, recon |-> NoData]

MCInitBook ==
    [g \in Guids |->
        CASE g = root       -> Account({})
          [] g \in {a1, a2} -> Account({root})
          [] g = t1         -> [kind |-> "txn", refs |-> {a1}, data |-> x, recon |-> NoData]
          [] OTHER          -> Absent]

Ask(rpc, g, refs, data) ==
    [rpc |-> rpc, guid |-> g, refs |-> refs, seen |-> refs, data |-> data,
     early |-> OK, head |-> OK, tail |-> OK]

MCRequest(m) ==
    CASE m = acct    -> Ask("CreateAccount", NoGuid, {a2}, x)
      [] m = price   -> Ask("AddPrice", NoGuid, {}, x)
      [] m = post    -> Ask("PostTransaction", NoGuid, {a2}, x)
      [] m = move12  -> Ask("UpdateAccount", a1, {a2}, x)
      [] m = move21  -> Ask("UpdateAccount", a2, {a1}, x)
      [] m = rename  -> Ask("UpdateAccount", a1, {root}, x)   \* changes nothing at first
      [] m = recon   -> Ask("SetReconcileInfo", a1, {}, y)
      [] m = retxn   -> Ask("UpdateTransaction", t1, {a2}, y)
      [] m = deltxn  -> Ask("DeleteTransaction", t1, {}, NoData)
      [] m = delacct -> Ask("DeleteAccount", a2, {}, NoData)
      [] m = bad     -> [Ask("PostTransaction", NoGuid, {a1, n1}, x) EXCEPT
                            !.seen = {a1}, !.tail = "INVALID_ARGUMENT"]
      [] m = noid    -> [Ask("CreateAccount", NoGuid, {root}, x) EXCEPT
                            !.early = "INVALID_ARGUMENT"]

MCReq == [m \in Ids |-> MCRequest(m)]
=============================================================================
