CONSTANTS
  None = None
  m1 = m1  m2 = m2  l1 = l1  t1 = t1  c1 = c1  r1 = r1
SPECIFICATION FairSpec
PROPERTIES RetryEnds PublicationEnds
