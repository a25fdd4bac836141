CONSTANTS
  None = None
  p1 = p1 p2 = p2 t1 = t1 t2 = t2
  Processes = {p1, p2}
  Texts = {t1, t2}
  MaxDeaths = 2
SPECIFICATION FairSpec
INVARIANTS TypeOK IngestedHolds
PROPERTIES Atomic LockPassesOn
