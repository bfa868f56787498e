SPECIFICATION Spec
CONSTANTS
  Documents <- LesDocuments
  ocr_seuil_caracteres_par_page = 1
INVARIANTS
  TypeOK
  EmpanFidele
  PageExacte
  BoitesExactes
  ReparationFidele
  ReparationUtile
