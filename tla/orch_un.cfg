SPECIFICATION SpecEquitable
CONSTANTS
  Documents = {d1}
  MaxTentatives = 3
  EssaisTache = 3
  TailleLot = 1
  Concurrence = 2
  PlafondTentatives = 4
  MaxVersions = 3
  MaxIncidents = 2
INVARIANTS
  TypeOK
  ServiEstClasse
PROPERTIES
  AbandonDefinitif
  RespecteCycle
  Convergence
