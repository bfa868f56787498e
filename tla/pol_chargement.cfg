SPECIFICATION SpecEquitable
CONSTANTS
  Roles <- MCRoles
  Niveaux <- MCNiveaux
  Matrice <- MCMatrice
  Rang <- MCRang
  NiveauxDe <- ContenuUnique
  Requetes = {r1}
  PlafondTentatives = 1
PROPERTIES
  ChargementFinal
