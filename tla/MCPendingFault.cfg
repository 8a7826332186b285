CONSTANTS
  Null = Null
  Absent = Absent
  NoGuid = NoGuid
  NoData = NoData
  root = root
  a1 = a1
  a2 = a2
  t1 = t1
  n1 = n1
  n2 = n2
  x = x
  y = y
  acct = acct
  price = price
  post = post
  move12 = move12
  move21 = move21
  rename = rename
  recon = recon
  retxn = retxn
  deltxn = deltxn
  delacct = delacct
  bad = bad
  noid = noid
  Root = root
  Ids = {acct, post}
  Malformed = {}
  Guids = {root, a1, a2, t1, n1, n2}
  Data <- MCData
  Req <- MCReq
  InitBook <- MCInitBook
  FaultSteps = {"pending"}
  MaxCrashes = 0
  MaxFaults = 1
  MaxCloses = 0
SPECIFICATION Spec
INVARIANTS
  NoPartialApplication
