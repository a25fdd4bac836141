CONSTANTS
  None = None
  a1 = a1 a2 = a2 k1 = k1 k2 = k2 k3 = k3 r0 = r0 r1 = r1 r2 = r2 r3 = r3
  w1 = w1 w2 = w2 w3 = w3 c1 = c1 c2 = c2
  Analyses = {a1, a2}
  Keys = {k1, k3}
  Runs = {r1, r3}
  Workers = {w1, w2}
  Clients = {c1}
  AnalysisOf <- MCAnalysisOf
  KeyOf <- MCKeyOf
  LongRuns = {}
  MaxCrashes = 1
SPECIFICATION Spec
SYMMETRY Identities
INVARIANTS CancelOnlySelected CancelHonoured
PROPERTY LedgerSpec
