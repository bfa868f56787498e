SPECIFICATION Spec
CONSTANTS
  Documents = {d1}
  MaxTentatives = 3
  EssaisTache = 3
  TailleLot = 1
  Concurrence = 2
  PlafondTentatives = 4
  MaxVersions = 2
  MaxIncidents = 0
INVARIANTS
  AucuneClassificationFigee
