SPECIFICATION Spec
CONSTANTS
  Roles <- MCRoles
  Niveaux <- MCNiveaux
  Matrice <- MCMatrice
  Rang <- MCRang
  NiveauxDe <- ContenusVaries
  Requetes = {r1}
  PlafondTentatives = 1
INVARIANTS
  TypeOK
  UneTraceParReponse
  ClairAutorise
