SPECIFICATION FairSpec
CONSTANTS
  v1 = v1  v2 = v2  d1 = d1  d2 = d2
  NoPdf = NoPdf
  Visits = {v1, v2}
  Downloads = {d1, d2}
  ProofFacts = {"transaction"}
  Viewed = "viewed"
  MaxFaults = 2
INVARIANTS AccessRecordedWhole OwnerMailsBounded AnswersAgree
PROPERTIES CertificateWrittenOnce TrackingNeverBlocksView
CHECK_DEADLOCK FALSE
