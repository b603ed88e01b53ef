SPECIFICATION FairSpec
CONSTANTS
  alice = alice  bob = bob  dotted = dotted
  aliceAddr = aliceAddr  bobAddr = bobAddr
  Inputs = {alice, bob, dotted, aliceAddr}
  Names = {alice, bob}
  Dotted = {dotted}
  Wallets = {aliceAddr, bobAddr}
  Registry <- MCRegistry
  NoAddress = NoAddress
  Posts = {p1, p2}
  NoPost = NoPost
  MaxEdits = 2
  MaxLost = 1
  Intakes = {c1, c2}
  NoIntake = NoIntake
  Quota = 1
  Files = {pdf, exe}
  NoFile = NoFile
  Valid = {pdf}
INVARIANTS DuplicatesCostLostAnswers StagingIsWhole SuccessIsTrue
PROPERTIES LookupSettles
CHECK_DEADLOCK FALSE
