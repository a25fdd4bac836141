CONSTANTS
  None = None
  m1 = m1 m2 = m2 l1 = l1 l2 = l2 s1 = s1 s2 = s2 t1 = t1 t2 = t2 c1 = c1 c2 = c2
  Models = {m1, m2}
  Lists = {l1}
  Long = {}
  Selections = {s1, s2}
  Texts = {t1}
  Clients = {c1, c2}
SPECIFICATION Spec
SYMMETRY Identities
CONSTRAINT Few
INVARIANTS TypeOK ReviewBound PublishedIsStored CallsBound
PROPERTY DecidesAsNamed
