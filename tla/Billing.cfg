SPECIFICATION FairSpec
CONSTANTS
  k1 = k1  k2 = k2  e1 = e1  e2 = e2  d1 = d1  d2 = d2
  Users = {"u"}
  NoUser = "nobody"
  Orgs = {"o"}
  NoOrg = "none"
  Tiers = {"tier1", "tier3"}
  Priced = {"tier1", "tier3"}
  CompTier = "tier3"
  NoTier = "untiered"
  Checkouts = {k1, k2}
  NoCheckout = NoCheckout
  Events = {e1, e2}
  NoEvent = NoEvent
  Slots = {d1, d2}
  Grants = {"g"}
  MaxFaults = 1
INVARIANTS LedgerExact LostOnlyToRaces EveryRowAccountedFor
PROPERTIES GrantKept EveryEventAnswered
CHECK_DEADLOCK FALSE
