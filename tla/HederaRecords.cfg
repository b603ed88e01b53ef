SPECIFICATION RecordsSpec
CONSTANTS
  r1 = r1  r2 = r2  w1 = w1  s1 = s1  s2 = s2  i1 = i1  i2 = i2  i3 = i3 
  Requests = {r1}
  Orgs = {"o"}
  NoOrg = "none"
  OrgOf <- OneOrg
  Limit <- OneUnit
  Sigs = {s1, s2}
  NoSig = NoSig
  Workers = {w1}
  Drainers = {w1}
  NoReq = NoReq
  DbErrors = {}
  MaxFaults = 0
  Recordings = {i1, i2, i3}
  Fulfils = {"f"}
  Skips = {"p"}
  Bounties = {"b"}
  MaxDemoCalls = 1
  Server = "server"
SYMMETRY Interchangeable
INVARIANTS ProofsAreReal ReceiptIsReal EveryConfirmationProven
CHECK_DEADLOCK FALSE
