SPECIFICATION Spec
CONSTANTS
  ocr_seuil_caracteres_par_page = 2
  Decomposees = {"fi"}
  FenetreContexte = 0
  Suffixe <- SuffixeDe
  Detections <- Trouvees
  Charges = {"formats", "valeurs"}
  Demandables <- LesDocuments
  Requetes = {"r1", "r2"}
INVARIANTS
  TypeOK
  TexteSubstitue
  RienDeLisible
  EchecParCollision
  JetonsResolus
