SPECIFICATION DashFairSpec
CONSTANTS
  r1 = r1  r2 = r2  o1 = o1
  s1 = s1  s2 = s2  s3 = s3
  w1 = w1  p1 = p1  p2 = p2
  NoOrg = NoOrg  NoReq = NoReq  NoSig = NoSig
  Workers = {w1}
  Drainers = {}
  Requests = {r1}
  Orgs = {o1}
  OrgOf <- AllOfOneOrg
  Limit <- LimitTwo
  Sigs = {s1, s2}
  DbErrors = {"refused", "replyLost"}
  MaxFaults = 1
  Watched = r1
  Polls = {p1, p2}
INVARIANT PageNeverAhead
PROPERTIES OutcomeStays OutcomeShown
