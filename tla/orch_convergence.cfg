SPECIFICATION SpecEquitable
CONSTANTS
  Documents = {d1, d2}
  MaxTentatives = 1
  EssaisTache = 1
  TailleLot = 2
  Concurrence = 2
  PlafondTentatives = 1
  MaxVersions = 1
  MaxIncidents = 1
INVARIANTS
  TacheCataloguee
PROPERTIES
  Convergence
