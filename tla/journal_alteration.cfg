SPECIFICATION Spec
CONSTANTS
  Appelants = {a1, a2, a3}
  EssaisAppend = 1
  LotVerification = 2
  MaxAppels = 1
  MaxAlterations = 3
SYMMETRY Symetrie
INVARIANTS
  VerdictFiable
