SPECIFICATION FairSpec
CONSTANTS
  p1 = p1
  p2 = p2
  s1 = s1
  s2 = s2
  t1 = t1
  t2 = t2
  Publishers = {p1, p2}
  Subscribers = {s1, s2}
  Closer = Closer
  Types = {t1, t2}
  Accepts <- MCAccepts
  Buffer = 1
INVARIANT NoSendOnClosed
INVARIANT CloseClosesAll
PROPERTY NobodyStuck
CHECK_DEADLOCK FALSE
