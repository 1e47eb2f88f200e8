SPECIFICATION FairSpec
CONSTANTS
  b1 = b1
  b2 = b2
  u1 = u1
  u2 = u2
  c1 = c1
  c2 = c2
  t1 = t1
  t2 = t2
  d1 = d1
  None = None
  Bank = {b1}
  Unit = {u1}
  Content = {c1, c2}
  Thread = {t1, t2}
  Document = {d1}
  DocumentOf <- OneDocument
  MentionedAt <- LaterWhenChanged
INVARIANTS
  SettledUnlessOvertaken
PROPERTIES
  Drains
