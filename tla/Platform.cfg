CONSTANTS
  None = None  Blank = Blank
  u1 = u1  u2 = u2  a1 = a1  a2 = a2  g1 = g1  p1 = p1  p2 = p2  i1 = i1  i2 = i2
  g = g  h = h  f1 = f1  f2 = f2  k1 = k1  e1 = e1  e2 = e2
  l1 = l1  l2 = l2  b1 = b1  b2 = b2  bench = bench
  Users = {u1, u2}
  MaxEdits = 2
  MaxDeaths = 1
  MaxBuilds = 3
  Actors = {a1}
  Groups = {g1}
  Roots = {shelf, bench, artifacts}
  Protected = {artifacts}
  Executables = {p1, p2}
  Paths <- ThreePaths
  Intents = {i1, i2}
  Provenances = {v1, v2}
  Families = {f1}
  Names = {n1}
  Analyses = {i1, i2}
  Lessons = {l1, l2}
  Onboardings = {b1, b2}
  Clients = {u1}
  Targets = {t1, t2}
  Sources <- SmallSources
SPECIFICATION Spec
CONSTRAINT Few
SYMMETRY Identities
INVARIANTS TypeOK FilesAgree KnowledgeAgrees
PROPERTY NothingExchanged
