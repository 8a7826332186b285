----------------------------- MODULE ErrorCodes -----------------------------
(***************************************************************************)
(* The closed error enum of the contract and the classification that       *)
(* decides which failures the mutation journal may remember                *)
(* (src/rpc/error.cpp).                                                    *)
(***************************************************************************)

\* "OK" stands for "no check threw"; it is not an error code of the contract.
OK == "OK"

\* Verdicts on the request itself: the same request meets them again.
DeterministicCodes ==
    {"UNBALANCED_TRANSACTION", "ACCOUNT_NOT_FOUND", "TXN_NOT_FOUND",
     "COMMODITY_NOT_FOUND", "CURRENCY_MISMATCH", "ACCOUNT_NOT_EMPTY",
     "INVALID_ARGUMENT"}

\* Failures of the environment: a retry may fare better.
EnvironmentalCodes ==
    {"BOOK_NOT_OPEN", "BOOK_LOCKED", "READ_ONLY_BOOK", "ENGINE_ERROR",
     "INDETERMINATE_MUTATION"}

ErrorCode == DeterministicCodes \cup EnvironmentalCodes

\* Mutant: an invalid argument is taken for an environmental failure.
InvalidIsEnvironmental(code) == code \in DeterministicCodes \ {"INVALID_ARGUMENT"}

IsDeterministicVerdict(code) == code \in DeterministicCodes

(***************************************************************************)
(* Checks run in order and the first one that throws decides: c ?? d is    *)
(* the verdict of check c followed by check d.                             *)
(***************************************************************************)
c ?? d == IF c = OK THEN d ELSE c
=============================================================================
