CONSTANTS
  NoGuid = NoGuid
  Absent = Absent
  TxnGuids = {t1, t2}
  SplitGuids = {1, 2, 3, 4}
  Accounts = {"a", "b"}
  Width = 3
  YearBits = 2
  Denoms = {1, 2}
  Specs <- MCSpecs
  DefaultPageSize = 1
  MaxPageSize = 2
  Queries <- MCQueries
SPECIFICATION Spec
INVARIANTS
  BookBalances
  FullReplacement
  ResponseIsCommitted
  BookReopens
  PagesCoverResults
  TokenHasMore
