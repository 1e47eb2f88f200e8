SPECIFICATION FairSpec
CONSTANTS
  x1 = x1
  x2 = x2
  u1 = u1
  u2 = u2
  None = None
  Worker = {x1, x2}
  Unit = {u1, u2}
INVARIANTS
  TypeOK
  SingleWorker
  OncePerText
PROPERTIES
  OnceEach
  StopIsObeyed
  PendingIsDrained
