SPECIFICATION FairSpec
CONSTANTS
  r1 = r1  r2 = r2  r3 = r3  o1 = o1
  s1 = s1  s2 = s2  s3 = s3  s4 = s4
  w1 = w1  w2 = w2
  NoOrg = NoOrg  NoReq = NoReq  NoSig = NoSig
  Workers = {w1}
  Drainers = {w1}
  Requests = {r1, r2}
  Orgs = {o1}
  OrgOf <- MCOrgOf
  Limit <- MCLimitTwo
  Sigs = {s1, s2, s3}
  DbErrors = {"refused", "replyLost"}
  MaxFaults = 2
INVARIANTS TypeOK MeterExact ConfirmedBySignature ExtraBroadcastsCostFaults FailureAudited
PROPERTIES RevisedOnlyInDoubt ImplementsLifecycle EveryRequestSettles ImplementsLifecycleFairly
