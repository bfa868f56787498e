SPECIFICATION Spec
CONSTANTS
  ocr_seuil_caracteres_par_page = 1
  Decomposees = {"fi"}
  FenetreContexte = 0
  Suffixe <- SuffixeDe
  Detections <- Trouvees
  Charges = {"images"}
  Demandables <- LesDocuments
  Requetes = {"r1"}
INVARIANTS
  RefusParDefaut
