SPECIFICATION SpecEquitable
CONSTANTS
  fenetre_sous_mots = 6
  recouvrement_sous_mots = 2
  CaracteresParSousMot = 1
  Fils = {"lecteur", "f2"}
  Demandes <- LesDemandes
  Backends <- LesBackends
  NerThreshold = 500
INVARIANTS
  TypeOK
  UnSeulMoteur
  EntiteVueEntiere
PROPERTIES
  ChaqueAppelFinit
