SPECIFICATION Spec
CONSTANTS
  i1 = i1  i2 = i2  i3 = i3  a1 = a1
  PageKeys = {i1, i2, i3}
  ApiKeys = {a1}
  Limit <- MCLimit
  WindowMs = 3
  Second = 2
  MAX_KEYS = 2
  MaxTime = 5
  MaxRequests = 7
INVARIANTS TypeOK SpanLimit RetryAfterSuffices
PROPERTIES ImplementsFixedWindow
CHECK_DEADLOCK FALSE
SYMMETRY Interchangeable
