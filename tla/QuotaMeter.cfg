SPECIFICATION Spec
CONSTANTS
  NoSub = NoSub
  c1 = c1  c2 = c2  c3 = c3  c4 = c4  a = a  b = b
  Callers = {c1, c2, c3}
  Subs = {a, b}
  Tiers = {"tier1", "tier3"}
  TIER_QUOTA <- MCTierQuota
  CompTier = "tier3"
  Month = 1
  GrantLength = 2
  MaxTime = 3
  MaxGrants = 1
INVARIANTS MeterWithinLimit CleanMeterExact
SYMMETRY CallerSymmetry
CHECK_DEADLOCK FALSE
