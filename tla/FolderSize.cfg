SPECIFICATION Spec
CONSTANTS
  q1 = q1
  q2 = q2
  p1 = p1
  p2 = p2
  p3 = p3
  Nobody = Nobody
  Requests = {q1, q2}
  Promises = {p1, p2, p3}
  Nursery = 0
  Expiry = 1
  Jitter = 0
  MaxTime = 4
SYMMETRY Alike
INVARIANTS TypeOK AtMostTwiceExpired FreshAfterClear
PROPERTY ReadAfterChange
