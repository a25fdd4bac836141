CONSTANTS
  None = None
  f1 = f1 f2 = f2 n1 = n1 n2 = n2 x = x y = y l1 = l1 l2 = l2 b1 = b1 b2 = b2 c1 = c1 c2 = c2
  Families = {f1}
  Names = {n1}
  Analyses = {x}
  Lessons = {l1}
  Onboardings = {b1}
  Clients = {c1, c2}
SPECIFICATION FairSpec
PROPERTIES GraphCatchesUp PublicationEnds RowsAreFinal
