SPECIFICATION Spec
CONSTANTS
  Appelants = {a1, a2, a3}
  EssaisAppend = 3
  LotVerification = 1
  MaxAppels = 1
  MaxAlterations = 0
INVARIANTS
  TypeOK
  ChaineUnique
  SansFausseAlerte
  UneEntreeParAppel
PROPERTIES
  OrdreDesIds
