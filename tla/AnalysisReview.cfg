CONSTANTS
  None = None
  c1 = c1 c2 = c2 r1 = r1 r2 = r2 m1 = m1 m2 = m2
  Clients = {c1, c2}
  Runs = {r1}
  Contents = {m1, m2}
  MaxRevisions = 3
  MaxVersions = 2
  MaxDeaths = 1
SPECIFICATION Spec
SYMMETRY Identities
INVARIANTS TypeOK ApprovalReviewed DeliveredSelectable HeadComplete
PROPERTY AcceptsSelected
