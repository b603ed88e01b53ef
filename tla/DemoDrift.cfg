SPECIFICATION RecordsSpec
CONSTANTS
  r1 = r1  r2 = r2  w1 = w1  s1 = s1  s2 = s2  i1 = i1  i2 = i2  i3 = i3
  Requests = {r1, r2}
  Orgs = {"o"}
  NoOrg = "none"
  OrgOf <- OneOrg
  Limit <- TwoUnits
  Sigs = {s1}
  NoSig = NoSig
  Workers = {w1}
  Drainers = {w1}
  NoReq = NoReq
  DbErrors = {}
  MaxFaults = 0
  Recordings = {i1}
  Fulfils = {"f"}
  Skips = {"p", "q"}
  Bounties = {}
  MaxDemoCalls = 2
  Server = "server"
SYMMETRY InterchangeableFilings
INVARIANT DriftCostsDemoCalls
CHECK_DEADLOCK FALSE
