SPECIFICATION Spec
CONSTANTS
  Textes <- TextesMC
  Aujourdhui <- AujourdhuiMC
  FenetreContexte = 0
  NerThreshold = 500
INVARIANTS
  TypeOK
  ArbitrageStable
  CorroborationFondee
  ToleranceJamaisMoins
  SeuilCoherent
  OcrRemplacants
  SommeDetruite
PROPERTIES
  JamaisDeRetrait
