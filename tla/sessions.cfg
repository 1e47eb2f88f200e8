SPECIFICATION FairSpec
CONSTANTS
  a1 = a1
  a2 = a2
  a3 = a3
  None = None
  Thread = {t1, t2}
  Unit = {u1}
  Text = {c1, c2}
  Adapter = {a1, a2}
  First = a1
  Outages = TRUE
INVARIANTS
  TypeOK
  AcceptedUnlessCut
  ClaimIsCommitted
PROPERTIES
  
  PendingIsTakenUnlessNoticed
  PollerIsPinged
  ReadsAreCurrent
