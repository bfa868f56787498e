---------------------------- MODULE Analyse_proofs ----------------------------
(***************************************************************************)
(* What the analysis guarantees for any texts and any threshold.           *)
(*                                                                         *)
(* The argument.  The candidates are met from the strongest to the weakest *)
(* (Ordre): a candidate never finds a weaker one among those kept, so      *)
(* nothing is withdrawn, and those already met keep the verdict they were  *)
(* given (StablePartiel).  When none remains, that is Stable.              *)
(*                                                                         *)
(* A method other than 'fusion' is the one of a detection of the candidate *)
(* itself, and so are both for a candidate not met yet (MethodesFondees):  *)
(* a winner is marked by a loser whose method is still that of a detection.*)
(*                                                                         *)
(* Checksums.  Both checksums are recurrences over the characters, and two *)
(* values that differ at a place go on with a constant difference (Luhn)   *)
(* or with one multiplied by 10 or 100 at every character (the remainder   *)
(* by 97), which no such step brings back to 0: a digit by digit induction *)
(* written as the least place where it would fail (NatMinimal).  The last  *)
(* check digit exchanged with the digit after it ends up at both ends of   *)
(* what is divided; they would make up for each other only if a power of   *)
(* 10 from the first to the 65th were 1 by 97, and none is (PasDeRetour).  *)
(***************************************************************************)
EXTENDS Analyse, FiniteSetTheorems, TLAPS

\* A set of natural numbers has a least element.
LEMMA NatMinimal ==
  ASSUME NEW T \in SUBSET Nat, T # {}
  PROVE  \E t \in T : \A y \in T : t <= y
  <1>1. PICK t \in T : \A y \in T : ~ (<<y, t>> \in OpToRel(<, Nat))
    BY NatLessThanWellFounded, WFMin
  <1>2. ASSUME NEW y \in T, ~ (t <= y) PROVE FALSE
    <2>1. y < t /\ <<y, t>> \in Nat \X Nat
      BY <1>2
    <2>2. <<y, t>> \in OpToRel(<, Nat)
      BY <2>1 DEF OpToRel
    <2>. QED
      BY <1>1, <2>2
  <1>. QED
    BY <1>2

\* A finite set has an element that none precedes in a strict order.
LEMMA PremierElement ==
  ASSUME NEW S, S # {}, IsFiniteSet(S), NEW Avant,
         \A x \in S : <<x, x>> \notin Avant,
         \A x, y, z \in S : <<x, y>> \in Avant /\ <<y, z>> \in Avant => <<x, z>> \in Avant
  PROVE  \E x \in S : \A y \in S : <<y, x>> \notin Avant
  <1>. DEFINE Devant(x) == {y \in S : <<y, x>> \in Avant}
              T == {Cardinality(Devant(x)) : x \in S}
  <1>1. \A x \in S : IsFiniteSet(Devant(x)) /\ Cardinality(Devant(x)) \in Nat
    BY FS_Subset, FS_CardinalityType
  <1>2. PICK n \in T : \A m \in T : n <= m
    <2>1. \A x \in S : Cardinality(Devant(x)) \in T
      OBVIOUS
    <2>2. T # {}
      BY <2>1
    <2>3. T \in SUBSET Nat
      <3>1. \A x \in S : Cardinality(Devant(x)) \in Nat
        BY <1>1
      <3>. HIDE DEF Devant
      <3>. QED
        BY <3>1
    <2>. HIDE DEF T
    <2>. QED
      BY <2>2, <2>3, NatMinimal
  <1>3. PICK x \in S : n = Cardinality(Devant(x))
    OBVIOUS
  <1>4. ASSUME NEW y \in S, <<y, x>> \in Avant PROVE FALSE
    <2>1. Devant(y) \subseteq Devant(x) /\ y \in Devant(x) /\ y \notin Devant(y)
      BY <1>4
    <2>2. Cardinality(Devant(x)) <= Cardinality(Devant(y))
      <3>1. Cardinality(Devant(y)) \in T
        OBVIOUS
      <3>. QED
        BY <3>1, <1>2, <1>3
    <2>. HIDE DEF Devant
    <2>3. /\ Cardinality(Devant(y)) <= Cardinality(Devant(x))
          /\ Cardinality(Devant(x)) = Cardinality(Devant(y)) => Devant(x) = Devant(y)
      BY <1>1, <2>1, FS_Subset
    <2>. QED
      BY <1>1, <2>1, <2>2, <2>3
  <1>. QED
    BY <1>4

Ordre ==
  \A c \in restants, d \in candidats \ restants : ~PlusForte(c, d)

StablePartiel ==
  \A c \in candidats \ restants :
    c \in retenues <=> ~ \E e \in retenues : SeChevauchent(e, c) /\ PlusForte(e, c)

\* A detection by m made the candidate; one overlaps it.
VuePar(m, c) == \E d \in DetectionsDe(texte) : d.methode = m /\ Candidat(d) = c
TouchePar(m, c) == \E d \in DetectionsDe(texte) : d.methode = m /\ SeChevauchent(d, c)

MethodesFondees ==
  etape # "extrait" =>
    /\ \A c \in candidats : c.debut < c.fin
    /\ \A c \in candidats, m \in {"regle", "ner"} : methodes[c] = m => VuePar(m, c)
    /\ \A c \in restants, m \in {"regle", "ner"} : methodes[c] = "fusion" => VuePar(m, c)
    /\ \A c \in candidats, m \in {"regle", "ner"} : methodes[c] = "fusion" => TouchePar(m, c)

\* What is arbitrated is what was detected.
CandidatsDetectes == etape # "extrait" => candidats = Dedupliquees(DetectionsDe(texte))

\* The level is the one of what was kept.
NiveauRetenu == etape = "classe" => restants = {} /\ niveau = niveau_maximum(retenues)

\* The inductive invariant.
IInv ==
  /\ texte \in Textes
  /\ TypeOK
  /\ etape = "extrait" => candidats = {}
  /\ Ordre
  /\ StablePartiel
  /\ MethodesFondees
  /\ CandidatsDetectes
  /\ NiveauRetenu

-------------------------------------------------------------------------------
(* Detections *)

LEMMA ReglesTypees ==
  ASSUME NEW r \in DOMAIN REGLES
  PROVE  REGLES[r].type \in GRILLE /\ REGLES[r].score \in Nat
  <1>1. CASE r = "EMAIL"
    <2>1. /\ REGLES[r].type = "EMAIL"
          /\ REGLES[r].score = 970
      BY <1>1 DEF REGLES, Regle
    <2>. QED
      BY <2>1 DEF GRILLE, TypesFaibles, TypesMoyens, TypesEleves, TypesCritiques
  <1>2. CASE r = "IBAN"
    <2>1. /\ REGLES[r].type = "IBAN"
          /\ REGLES[r].score = 990
      BY <1>2 DEF REGLES, Regle
    <2>. QED
      BY <2>1 DEF GRILLE, TypesFaibles, TypesMoyens, TypesEleves, TypesCritiques
  <1>3. CASE r = "CARTE_BANCAIRE"
    <2>1. /\ REGLES[r].type = "CARTE_BANCAIRE"
          /\ REGLES[r].score = 990
      BY <1>3 DEF REGLES, Regle
    <2>. QED
      BY <2>1 DEF GRILLE, TypesFaibles, TypesMoyens, TypesEleves, TypesCritiques
  <1>4. CASE r = "TELEPHONE"
    <2>1. /\ REGLES[r].type = "TELEPHONE"
          /\ REGLES[r].score = 990
      BY <1>4 DEF REGLES, Regle
    <2>. QED
      BY <2>1 DEF GRILLE, TypesFaibles, TypesMoyens, TypesEleves, TypesCritiques
  <1>5. CASE r = "DATE_NAISSANCE"
    <2>1. /\ REGLES[r].type = "DATE_NAISSANCE"
          /\ REGLES[r].score = 990
      BY <1>5 DEF REGLES, Regle
    <2>. QED
      BY <2>1 DEF GRILLE, TypesFaibles, TypesMoyens, TypesEleves, TypesCritiques
  <1>6. CASE r = "PLAQUE_IMMAT"
    <2>1. /\ REGLES[r].type = "PLAQUE_IMMAT"
          /\ REGLES[r].score = 700
      BY <1>6 DEF REGLES, Regle
    <2>. QED
      BY <2>1 DEF GRILLE, TypesFaibles, TypesMoyens, TypesEleves, TypesCritiques
  <1>7. CASE r = "NUM_CLIENT"
    <2>1. /\ REGLES[r].type = "NUM_CLIENT"
          /\ REGLES[r].score = 900
      BY <1>7 DEF REGLES, Regle
    <2>. QED
      BY <2>1 DEF GRILLE, TypesFaibles, TypesMoyens, TypesEleves, TypesCritiques
  <1>8. r \in {"EMAIL", "IBAN", "CARTE_BANCAIRE", "TELEPHONE", "DATE_NAISSANCE",
              "PLAQUE_IMMAT", "NUM_CLIENT"}
    BY DEF REGLES
  <1>. QED
    BY <1>1, <1>2, <1>3, <1>4, <1>5, <1>6, <1>7, <1>8

LEMMA AppliquerTypee ==
  ASSUME NEW c \in Correspondances, c.regle \in DOMAIN REGLES, NEW ocr \in BOOLEAN
  PROVE  Appliquer(c, ocr) \subseteq LesDetections
  <1>. DEFINE r == REGLES[c.regle]
              v == r.validateur /\ ~ (r.validateur /\ ~Verdict(c))
              s == ScoreRegle(r, c, ocr)
  <1>1. s \in Nat
    BY ReglesTypees DEF ScoreRegle, SCORE_NON_VALIDE, SCORE_OCR_NON_VALIDE
  <1>2. v \in BOOLEAN
    OBVIOUS
  <1>3. Detection(r.type, c, s, "regle", v) \in LesDetections
    <2>. HIDE DEF s, v
    <2>. QED
      BY <1>1, <1>2, ReglesTypees DEF Detection, LesDetections, Correspondances
  <1>4. Appliquer(c, ocr) \subseteq {Detection(r.type, c, s, "regle", v)}
    BY DEF Appliquer
  <1>. QED
    BY <1>3, <1>4

LEMMA DetecterPieceTypee ==
  ASSUME NEW c \in Correspondances, c.regle = "PIECE"
  PROVE  DetecterPiece(c) \subseteq LesDetections
  <1>. DEFINE s == IF ~Verdict(c) THEN 750 ELSE IF c.indice THEN 995 ELSE 950
  <1>1. s \in Nat
    OBVIOUS
  <1>2. Verdict(c) \in BOOLEAN
    BY DEF Verdict, piece_identite_valide
  <1>3. Detection("NUM_PIECE_IDENTITE", c, s, "regle", Verdict(c)) \in LesDetections
    <2>. DEFINE v == Verdict(c)
    <2>1. v \in BOOLEAN
      BY <1>2
    <2>. HIDE DEF s, v
    <2>2. Detection("NUM_PIECE_IDENTITE", c, s, "regle", v) \in LesDetections
      BY <1>1, <2>1 DEF Detection, LesDetections, Correspondances, GRILLE, TypesCritiques
    <2>. QED
      BY <2>2 DEF v
  <1>4. DetecterPiece(c) \subseteq {Detection("NUM_PIECE_IDENTITE", c, s, "regle", Verdict(c))}
    BY DEF DetecterPiece
  <1>. QED
    BY <1>3, <1>4

LEMMA DetectionsTypees ==
  ASSUME NEW t \in Textes
  PROVE  DetectionsDe(t) \subseteq LesDetections
  <1>1. /\ t.natives \subseteq Correspondances /\ t.reparees \subseteq Correspondances
        /\ t.ner \subseteq LesDetections /\ t.ocr \in BOOLEAN
    BY TextesTypes
  <1>2. ASSUME NEW S \in SUBSET Correspondances, NEW ocr \in BOOLEAN
        PROVE  DetecterSur(S, ocr) \subseteq LesDetections
    <2>1. ASSUME NEW c \in S
          PROVE  (IF c.regle = "PIECE" THEN DetecterPiece(c) ELSE Appliquer(c, ocr))
                   \subseteq LesDetections
      <3>1. c.regle # "PIECE" => c.regle \in DOMAIN REGLES
        BY DEF Correspondances
      <3>. QED
        BY <3>1, AppliquerTypee, DetecterPieceTypee
    <2>. QED
      BY <2>1 DEF DetecterSur
  <1>3. DetecterRegles(t.natives, t.reparees, t.ocr) \subseteq LesDetections
    BY <1>1, <1>2 DEF DetecterRegles
  <1>. QED
    BY <1>1, <1>3 DEF DetectionsDe, DetecterNer

\* What enters the fusion is typed, each candidate with the method of a detection.
LEMMA DedupliqueesTypees ==
  ASSUME NEW D \in SUBSET LesDetections
  PROVE  /\ Dedupliquees(D) \subseteq Candidats
         /\ \A c \in Dedupliquees(D) : MethodeInitiale(c, D) \in Methodes
  <1>1. \A d \in D : Candidat(d) \in Candidats /\ d.methode \in {"regle", "ner"}
    BY DEF LesDetections, Candidat, Candidats
  <1>2. \A c \in Dedupliquees(D) : \E d \in D : c = Candidat(d)
    BY DEF Dedupliquees
  <1>3. ASSUME NEW c \in Dedupliquees(D) PROVE MethodeInitiale(c, D) \in Methodes
    <2>. DEFINE vues == {d.methode : d \in {e \in D : Candidat(e) = c}}
    <2>1. PICK d \in D : c = Candidat(d)
      BY <1>2
    <2>2. d.methode \in vues
      BY <2>1
    <2>3. vues \subseteq {"regle", "ner"}
      BY <1>1
    <2>4. MethodeInitiale(c, D) = IF Cardinality(vues) > 1 THEN "fusion" ELSE CHOOSE m \in vues : TRUE
      BY DEF MethodeInitiale
    <2>. HIDE DEF vues
    <2>5. (CHOOSE m \in vues : TRUE) \in vues
      BY <2>2
    <2>. QED
      BY <2>3, <2>4, <2>5 DEF Methodes
  <1>. QED
    BY <1>1, <1>2, <1>3

\* No detection is empty.
LEMMA DetectionsNonVides ==
  ASSUME NEW t \in Textes, NEW d \in DetectionsDe(t)
  PROVE  d.debut < d.fin
  <1>1. ASSUME NEW S, NEW ocr, d \in DetecterSur(S, ocr)
        PROVE  \E c \in S : d.debut = c.debut /\ d.fin = c.fin
    <2>1. PICK c \in S : d \in (IF c.regle = "PIECE" THEN DetecterPiece(c) ELSE Appliquer(c, ocr))
      BY <1>1 DEF DetecterSur
    <2>2. d.debut = c.debut /\ d.fin = c.fin
      BY <2>1 DEF DetecterPiece, Appliquer, Detection
    <2>. QED
      BY <2>2
  <1>2. \A c \in t.natives \union t.reparees \union t.ner : c.debut < c.fin
    BY TrouvaillesFinies
  <1>3. CASE d \in DetecterSur(t.natives, t.ocr) \/ d \in DetecterSur(t.reparees, t.ocr)
    BY <1>1, <1>2, <1>3
  <1>4. CASE d \in t.ner
    BY <1>2, <1>4
  <1>. QED
    BY <1>3, <1>4 DEF DetectionsDe, DetecterRegles, DetecterNer

\* The method a candidate enters the fusion with.
LEMMA MethodesDesVues ==
  ASSUME NEW D \in SUBSET LesDetections, NEW c \in Dedupliquees(D), NEW m \in {"regle", "ner"},
         MethodeInitiale(c, D) \in {m, "fusion"}
  PROVE  \E d \in D : d.methode = m /\ Candidat(d) = c
  <1>. DEFINE vues == {d.methode : d \in {e \in D : Candidat(e) = c}}
  <1>1. vues \in SUBSET {"regle", "ner"} /\ vues # {}
    BY DEF LesDetections, Dedupliquees
  <1>2. MethodeInitiale(c, D) = IF Cardinality(vues) > 1 THEN "fusion" ELSE CHOOSE n \in vues : TRUE
    BY DEF MethodeInitiale
  <1>3. m \in vues
    <2>. HIDE DEF vues
    <2>1. (CHOOSE n \in vues : TRUE) \in vues
      BY <1>1
    <2>2. CASE MethodeInitiale(c, D) = m
      BY <1>1, <1>2, <2>1, <2>2
    <2>3. CASE MethodeInitiale(c, D) = "fusion"
      <3>1. Cardinality(vues) > 1
        BY <1>1, <1>2, <2>1, <2>3
      <3>2. ASSUME NEW n \in vues, \A k \in vues : k = n PROVE FALSE
        <4>1. vues = {n}
          BY <3>2
        <4>2. Cardinality(vues) = 1
          BY <4>1, FS_Singleton
        <4>. QED
          BY <3>1, <4>2
      <3>. QED
        BY <1>1, <3>2
    <2>. QED
      BY <2>2, <2>3
  <1>. QED
    BY <1>3

-------------------------------------------------------------------------------
(* The order of arbitration *)

LEMMA PasPlusForteQueSoi ==
  ASSUME NEW c \in Candidats
  PROVE  ~PlusForte(c, c)
  BY DEF Candidats, PlusForte, Longueur

\* The maximum of the levels of some entities is one of them.
LEMMA NiveauMaximum ==
  ASSUME NEW E, E # {}
  PROVE  /\ niveau_maximum(E) \in NiveauSens
         /\ \E e \in E : niveau_maximum(E) = Niveau(e, E)
         /\ \A e \in E : Niveau(e, E) \in NiveauSens
                         /\ ORDRE_NIVEAU[Niveau(e, E)] <= ORDRE_NIVEAU[niveau_maximum(E)]
  <1>. DEFINE S == {Niveau(e, E) : e \in E}
  <1>1. \A e \in E : Niveau(e, E) \in NiveauSens
    BY DEF Niveau, niveau_de, NiveauSens
  <1>2. S \in SUBSET NiveauSens /\ S # {}
    BY <1>1
  <1>3. niveau_maximum(E) = CHOOSE n \in S : \A m \in S : ORDRE_NIVEAU[m] <= ORDRE_NIVEAU[n]
    BY DEF niveau_maximum
  <1>4. \A e \in E : Niveau(e, E) \in S
    OBVIOUS
  <1>5. \A n \in S : \E e \in E : n = Niveau(e, E)
    OBVIOUS
  <1>. HIDE DEF S
  <1>6. /\ ORDRE_NIVEAU["faible"] = 0 /\ ORDRE_NIVEAU["moyen"] = 1
        /\ ORDRE_NIVEAU["eleve"] = 2 /\ ORDRE_NIVEAU["critique"] = 3
    BY DEF ORDRE_NIVEAU, NiveauSens
  <1>7. \E n \in S : \A m \in S : ORDRE_NIVEAU[m] <= ORDRE_NIVEAU[n]
    <2>0. \A m \in S : m \in {"faible", "moyen", "eleve", "critique"}
      BY <1>2 DEF NiveauSens
    <2>1. CASE "critique" \in S
      BY <1>6, <2>0, <2>1
    <2>2. CASE "critique" \notin S /\ "eleve" \in S
      BY <1>6, <2>0, <2>2
    <2>3. CASE "critique" \notin S /\ "eleve" \notin S /\ "moyen" \in S
      BY <1>6, <2>0, <2>3
    <2>4. CASE "critique" \notin S /\ "eleve" \notin S /\ "moyen" \notin S
      BY <1>2, <1>6, <2>0, <2>4
    <2>. QED
      BY <2>1, <2>2, <2>3, <2>4
  <1>8. niveau_maximum(E) \in S /\ \A m \in S : ORDRE_NIVEAU[m] <= ORDRE_NIVEAU[niveau_maximum(E)]
    BY <1>3, <1>7
  <1>. QED
    BY <1>1, <1>2, <1>4, <1>5, <1>8

-------------------------------------------------------------------------------
(* The arbitration, without the loop *)

LEMMA PlusForteTransitive ==
  ASSUME NEW x \in Candidats, NEW y \in Candidats, NEW z \in Candidats,
         PlusForte(x, y), PlusForte(y, z)
  PROVE  PlusForte(x, z)
  <1>1. ASSUME NEW c \in Candidats PROVE Longueur(c) \in Int /\ c.score \in Nat /\ c.valide \in BOOLEAN
    BY DEF Candidats, Longueur
  <1>. QED
    BY <1>1 DEF PlusForte

\* Of finitely many candidates, one has none stronger and one has none weaker.
LEMMA PlusForteEtPlusFaible ==
  ASSUME NEW S \in SUBSET Candidats, S # {}, IsFiniteSet(S)
  PROVE  /\ \E x \in S : \A y \in S : ~PlusForte(y, x)
         /\ \E x \in S : \A y \in S : ~PlusForte(x, y)
  <1>. DEFINE Fort == {p \in S \X S : PlusForte(p[1], p[2])}
              Faible == {p \in S \X S : PlusForte(p[2], p[1])}
  <1>1. \A x, y \in S : /\ <<x, y>> \in Fort <=> PlusForte(x, y)
                        /\ <<x, y>> \in Faible <=> PlusForte(y, x)
    OBVIOUS
  <1>2. \A x \in S : ~PlusForte(x, x)
    BY PasPlusForteQueSoi
  <1>3. \A x, y, z \in S : PlusForte(x, y) /\ PlusForte(y, z) => PlusForte(x, z)
    BY PlusForteTransitive
  <1>. HIDE DEF Fort, Faible
  <1>4. \E x \in S : \A y \in S : <<y, x>> \notin Fort
    <2>1. \A x \in S : <<x, x>> \notin Fort
      BY <1>1, <1>2
    <2>2. \A x, y, z \in S : <<x, y>> \in Fort /\ <<y, z>> \in Fort => <<x, z>> \in Fort
      BY <1>1, <1>3
    <2>. QED
      BY <2>1, <2>2, PremierElement
  <1>5. \E x \in S : \A y \in S : <<y, x>> \notin Faible
    <2>1. \A x \in S : <<x, x>> \notin Faible
      BY <1>1, <1>2
    <2>2. \A x, y, z \in S : <<x, y>> \in Faible /\ <<y, z>> \in Faible => <<x, z>> \in Faible
      BY <1>1, <1>3
    <2>. QED
      BY <2>1, <2>2, PremierElement
  <1>. QED
    BY <1>1, <1>4, <1>5

\* Finitely many candidates have an arbitration.
LEMMA ArbitrageExiste ==
  ASSUME NEW C \in SUBSET Candidats, IsFiniteSet(C)
  PROVE  Noyau(C) \in SUBSET C /\ Stable(Noyau(C), C)
  <1>. DEFINE Arbitrable(X) == \E K \in SUBSET X : Stable(K, X)
              Tailles == {n \in Nat : \E X \in SUBSET C : n = Cardinality(X) /\ ~Arbitrable(X)}
  <1>1. ASSUME ~Arbitrable(C) PROVE FALSE
    <2>1. Cardinality(C) \in Tailles
      BY <1>1, FS_CardinalityType
    <2>2. PICK n \in Tailles : \A m \in Tailles : n <= m
      <3>1. Tailles \in SUBSET Nat
        OBVIOUS
      <3>. HIDE DEF Tailles
      <3>. QED
        BY <2>1, <3>1, NatMinimal
    <2>3. PICK X \in SUBSET C : n = Cardinality(X) /\ ~Arbitrable(X)
      OBVIOUS
    <2>4. IsFiniteSet(X) /\ X \in SUBSET Candidats
      BY FS_Subset
    <2>5. X # {}
      <3>1. Stable({}, {})
        BY DEF Stable
      <3>. QED
        BY <2>3, <3>1
    <2>6. PICK w \in X : \A y \in X : ~PlusForte(w, y)
      BY <2>4, <2>5, PlusForteEtPlusFaible
    <2>7. /\ Cardinality(X \ {w}) \in Nat /\ Cardinality(X \ {w}) < n
          /\ X \ {w} \in SUBSET C
      <3>1. IsFiniteSet(X \ {w}) /\ Cardinality(X \ {w}) = n - 1
        BY <2>3, <2>4, FS_RemoveElement
      <3>2. Cardinality(X \ {w}) \in Nat
        BY <3>1, FS_CardinalityType
      <3>. QED
        BY <3>1, <3>2
    <2>8. Arbitrable(X \ {w})
      <3>1. Cardinality(X \ {w}) \notin Tailles
        BY <2>2, <2>7
      <3>. QED
        BY <2>7, <3>1
    <2>9. PICK K \in SUBSET (X \ {w}) : Stable(K, X \ {w})
      BY <2>8
    <2>10. \A c \in X \ {w} : c \in K <=> ~ \E e \in K : SeChevauchent(e, c) /\ PlusForte(e, c)
      BY <2>9 DEF Stable
    <2>11. CASE \E e \in K : SeChevauchent(e, w) /\ PlusForte(e, w)
      <3>1. Stable(K, X)
        BY <2>10, <2>11 DEF Stable
      <3>. QED
        BY <2>3, <2>9, <3>1
    <2>12. CASE ~ \E e \in K : SeChevauchent(e, w) /\ PlusForte(e, w)
      <3>1. Stable(K \union {w}, X)
        <4>1. \A c \in X \ {w} :
                c \in K \union {w} <=> ~ \E e \in K \union {w} : SeChevauchent(e, c) /\ PlusForte(e, c)
          BY <2>6, <2>10
        <4>2. ~ \E e \in K \union {w} : SeChevauchent(e, w) /\ PlusForte(e, w)
          BY <2>6, <2>12
        <4>. QED
          BY <4>1, <4>2 DEF Stable
      <3>. QED
        BY <2>3, <2>9, <3>1
    <2>. QED
      BY <2>11, <2>12
  <1>2. \E K \in SUBSET C : Stable(K, C)
    BY <1>1
  <1>. QED
    BY <1>2 DEF Noyau

\* Two arbitrations of different candidates first differ on one of the strongest that
\* differ: it is a candidate of one side only.
LEMMA PremiereDifference ==
  ASSUME NEW C \in SUBSET Candidats, NEW A \in SUBSET Candidats,
         IsFiniteSet(C), IsFiniteSet(A),
         NEW N \in SUBSET C, Stable(N, C), NEW R \in SUBSET A, Stable(R, A), R # N
  PROVE  \/ \E z \in R : z \notin C
         \/ \E z \in N : /\ z \notin A
                         /\ \A e \in R : SeChevauchent(e, z) => ~PlusForte(e, z)
  <1>. DEFINE Ecart == (N \ R) \union (R \ N)
  <1>1. Ecart # {} /\ Ecart \in SUBSET Candidats
    OBVIOUS
  <1>2. IsFiniteSet(Ecart)
    <2>1. IsFiniteSet(C \union A) /\ Ecart \in SUBSET (C \union A)
      BY FS_Union
    <2>. QED
      BY <2>1, FS_Subset
  <1>3. PICK z \in Ecart : \A y \in Ecart : ~PlusForte(y, z)
    <2>. HIDE DEF Ecart
    <2>. QED
      BY <1>1, <1>2, PlusForteEtPlusFaible
  <1>4. CASE z \in N
    <2>1. \A e \in N : SeChevauchent(e, z) => ~PlusForte(e, z)
      BY <1>4 DEF Stable
    <2>2. \A e \in R : SeChevauchent(e, z) => ~PlusForte(e, z)
      BY <1>3, <2>1
    <2>3. z \notin A
      BY <1>3, <1>4, <2>2 DEF Stable
    <2>. QED
      BY <1>4, <2>2, <2>3
  <1>5. CASE z \in R
    <2>1. \A e \in R : SeChevauchent(e, z) => ~PlusForte(e, z)
      BY <1>5 DEF Stable
    <2>2. \A e \in N : SeChevauchent(e, z) => ~PlusForte(e, z)
      BY <1>3, <2>1
    <2>3. z \notin C
      BY <1>3, <1>5, <2>2 DEF Stable
    <2>. QED
      BY <1>5, <2>3
  <1>. QED
    BY <1>3, <1>4, <1>5

-------------------------------------------------------------------------------
(* What the tolerance of failed checksums adds *)

SommesDeControle == {"IBAN", "CARTE_BANCAIRE"}

\* What is found of strict matches on OCR text and not on a native one is of a type with
\* a checksum; nothing is found on a native text only.
LEMMA ToleranceAjoute ==
  ASSUME NEW S \in SUBSET Correspondances, \A c \in S : c.strict
  PROVE  /\ DetecterSur(S, FALSE) \subseteq DetecterSur(S, TRUE)
         /\ \A d \in DetecterSur(S, TRUE) \ DetecterSur(S, FALSE) : d.type \in SommesDeControle
  <1>. DEFINE De(c, ocr) == IF c.regle = "PIECE" THEN DetecterPiece(c) ELSE Appliquer(c, ocr)
  <1>1. ASSUME NEW c \in S
        PROVE  \/ De(c, FALSE) = De(c, TRUE)
               \/ De(c, FALSE) = {} /\ \A d \in De(c, TRUE) : d.type \in SommesDeControle
    <2>1. CASE c.regle = "PIECE"
      BY <2>1
    <2>2. CASE c.regle # "PIECE"
      <3>. DEFINE r == REGLES[c.regle]
                  invalide == r.validateur /\ ~Verdict(c)
      <3>1. c.strict /\ c.regle \in DOMAIN REGLES
        BY <2>2 DEF Correspondances
      <3>2. /\ r.validateur \in BOOLEAN /\ r.rejeter \in BOOLEAN /\ r.somme \in BOOLEAN
            /\ r.somme => r.rejeter /\ r.type \in SommesDeControle
        BY <3>1 DEF REGLES, Regle, SommesDeControle
      <3>. HIDE DEF r
      <3>3. /\ Appliquer(c, FALSE) =
                 IF invalide /\ r.rejeter THEN {}
                 ELSE {Detection(r.type, c, ScoreRegle(r, c, FALSE), "regle", r.validateur /\ ~invalide)}
            /\ Appliquer(c, TRUE) =
                 IF invalide /\ r.rejeter /\ ~r.somme THEN {}
                 ELSE {Detection(r.type, c, ScoreRegle(r, c, TRUE), "regle", r.validateur /\ ~invalide)}
        BY <3>1 DEF r, Appliquer, Correspond, Tolere
      <3>4. CASE invalide /\ r.somme
        <4>1. Appliquer(c, FALSE) = {}
          BY <3>2, <3>3, <3>4
        <4>2. \A d \in Appliquer(c, TRUE) : d.type = r.type
          <5>. DEFINE v == r.validateur /\ ~invalide
                      x == Detection(r.type, c, ScoreRegle(r, c, TRUE), "regle", v)
          <5>1. Appliquer(c, TRUE) \subseteq {x}
            BY <3>3
          <5>. HIDE DEF v
          <5>2. x.type = r.type
            BY DEF Detection
          <5>. QED
            BY <5>1, <5>2
        <4>3. r.type \in SommesDeControle
          BY <3>2, <3>4
        <4>. QED
          BY <2>2, <4>1, <4>2, <4>3
      <3>5. CASE ~(invalide /\ r.somme)
        <4>1. ScoreRegle(r, c, FALSE) = ScoreRegle(r, c, TRUE)
          BY <3>5 DEF ScoreRegle, Tolere
        <4>. QED
          BY <2>2, <3>3, <3>5, <4>1
      <3>. QED
        BY <3>4, <3>5
    <2>. QED
      BY <2>1, <2>2
  <1>2. /\ DetecterSur(S, FALSE) = UNION {De(c, FALSE) : c \in S}
        /\ DetecterSur(S, TRUE) = UNION {De(c, TRUE) : c \in S}
    BY DEF DetecterSur
  <1>. HIDE DEF De
  <1>. QED
    BY <1>1, <1>2

\* Finitely many matches make finitely many detections.
LEMMA DetectionsFinies ==
  ASSUME NEW S, IsFiniteSet(S), NEW ocr
  PROVE  IsFiniteSet(DetecterSur(S, ocr))
  <1>. DEFINE De(c) == IF c.regle = "PIECE" THEN DetecterPiece(c) ELSE Appliquer(c, ocr)
              f == [c \in S |-> De(c)]
  <1>1. ASSUME NEW c \in S PROVE IsFiniteSet(De(c))
    <2>1. DetecterPiece(c) = {} \/ \E x : DetecterPiece(c) = {x}
      <3>. DEFINE s == IF ~Verdict(c) THEN 750 ELSE IF c.indice THEN 995 ELSE 950
                  x == Detection("NUM_PIECE_IDENTITE", c, s, "regle", Verdict(c))
      <3>1. DetecterPiece(c) \subseteq {x}
        BY DEF DetecterPiece
      <3>. HIDE DEF x
      <3>. QED
        BY <3>1
    <2>2. Appliquer(c, ocr) = {} \/ \E x : Appliquer(c, ocr) = {x}
      BY DEF Appliquer
    <2>3. De(c) = {} \/ \E x : De(c) = {x}
      BY <2>1, <2>2
    <2>. HIDE DEF De
    <2>. QED
      BY <2>3, FS_Singleton, FS_EmptySet
  <1>2. DetecterSur(S, ocr) = UNION {De(c) : c \in S}
    BY DEF DetecterSur
  <1>. HIDE DEF De
  <1>3. f \in Surjection(S, {De(c) : c \in S})
    BY DEF Surjection
  <1>. QED
    BY <1>1, <1>2, <1>3, FS_Surjection, FS_UNION

LEMMA DedupliqueesFinies ==
  ASSUME NEW D, IsFiniteSet(D)
  PROVE  IsFiniteSet(Dedupliquees(D))
  <1>. DEFINE E == {e \in D : \A f \in D : MemeCle(e, f) => ~PlusForte(f, e)}
              g == [d \in E |-> Candidat(d)]
  <1>1. IsFiniteSet(E)
    BY FS_Subset
  <1>2. g \in Surjection(E, {Candidat(d) : d \in E})
    BY DEF Surjection
  <1>3. IsFiniteSet({Candidat(d) : d \in E})
    BY <1>1, <1>2, FS_Surjection
  <1>. QED
    BY <1>3 DEF Dedupliquees

\* Candidates are compared as the detections they come from.
LEMMA CommeLeursDetections ==
  /\ \A d, e : PlusForte(Candidat(d), Candidat(e)) <=> PlusForte(d, e)
  /\ \A d, e : MemeCle(Candidat(d), Candidat(e)) <=> MemeCle(d, e)
  BY DEF Candidat, PlusForte, MemeCle, Longueur

\* Detections more than those of D, all of a type with a checksum: a candidate of one side
\* only is of such a type, and one that is lost has a stronger one of its key in its place.
LEMMA AjoutAuxCandidats ==
  ASSUME NEW D \in SUBSET LesDetections, NEW E \in SUBSET LesDetections, D \subseteq E,
         IsFiniteSet(E), \A d \in E \ D : d.type \in SommesDeControle
  PROVE  /\ \A c \in Dedupliquees(E) : c \notin Dedupliquees(D) => c.type \in SommesDeControle
         /\ \A c \in Dedupliquees(D) : c \notin Dedupliquees(E) =>
              c.type \in SommesDeControle
              /\ \E g \in Dedupliquees(E) : MemeCle(g, c) /\ PlusForte(g, c)
  <1>1. ASSUME NEW c \in Dedupliquees(E), c \notin Dedupliquees(D)
        PROVE  c.type \in SommesDeControle
    <2>1. PICK d \in E : c = Candidat(d) /\ \A f \in E : MemeCle(d, f) => ~PlusForte(f, d)
      BY DEF Dedupliquees
    <2>2. d \notin D
      BY <1>1, <2>1 DEF Dedupliquees
    <2>. QED
      BY <2>1, <2>2 DEF Candidat
  <1>2. ASSUME NEW c \in Dedupliquees(D), c \notin Dedupliquees(E)
        PROVE  /\ c.type \in SommesDeControle
               /\ \E g \in Dedupliquees(E) : MemeCle(g, c) /\ PlusForte(g, c)
    <2>1. PICK d \in D : c = Candidat(d) /\ \A f \in D : MemeCle(d, f) => ~PlusForte(f, d)
      BY DEF Dedupliquees
    <2>2. PICK f \in E : MemeCle(d, f) /\ PlusForte(f, d)
      BY <1>2, <2>1 DEF Dedupliquees
    <2>3. f \in E \ D
      BY <2>1, <2>2
    <2>4. c.type \in SommesDeControle
      BY <2>1, <2>2, <2>3 DEF MemeCle, Candidat
    <2>. DEFINE F == {e \in E : MemeCle(d, e) /\ PlusForte(e, d)}
                h == [e \in F |-> Candidat(e)]
                CF == {Candidat(e) : e \in F}
    <2>5. IsFiniteSet(CF) /\ CF # {} /\ CF \in SUBSET Candidats
      <3>1. IsFiniteSet(F) /\ f \in F
        BY <2>2, FS_Subset
      <3>2. h \in Surjection(F, CF)
        BY DEF Surjection
      <3>3. \A e \in F : Candidat(e) \in Candidats
        BY DEF LesDetections, Candidat, Candidats
      <3>. HIDE DEF F
      <3>. QED
        BY <3>1, <3>2, <3>3, FS_Surjection
    <2>6. PICK g \in CF : \A y \in CF : ~PlusForte(y, g)
      <3>. HIDE DEF CF
      <3>. QED
        BY <2>5, PlusForteEtPlusFaible
    <2>7. PICK e \in F : g = Candidat(e)
      OBVIOUS
    <2>8. ASSUME NEW y \in E, MemeCle(e, y), PlusForte(y, e) PROVE FALSE
      <3>1. MemeCle(d, y)
        BY <2>7, <2>8 DEF MemeCle
      <3>2. /\ Candidat(y) \in Candidats /\ Candidat(e) \in Candidats /\ Candidat(d) \in Candidats
            /\ PlusForte(Candidat(y), Candidat(e)) /\ PlusForte(Candidat(e), Candidat(d))
        BY <2>7, <2>8, CommeLeursDetections DEF LesDetections, Candidat, Candidats
      <3>3. PlusForte(y, d)
        BY <3>2, PlusForteTransitive, CommeLeursDetections
      <3>4. Candidat(y) \in CF
        BY <3>1, <3>3
      <3>. QED
        BY <2>6, <2>7, <3>2, <3>4
    <2>9. g \in Dedupliquees(E)
      BY <2>7, <2>8 DEF Dedupliquees
    <2>10. MemeCle(g, c) /\ PlusForte(g, c)
      <3>1. MemeCle(e, d) /\ PlusForte(e, d)
        BY <2>7 DEF MemeCle
      <3>. QED
        BY <2>1, <2>7, <3>1, CommeLeursDetections
    <2>. QED
      BY <2>4, <2>9, <2>10
  <1>. QED
    BY <1>1, <1>2

\* A number whose checksum fails is kept at the score of OCR text; of what is not validated,
\* only an e-mail address scores more.
LEMMA ScoresDesRegles ==
  ASSUME NEW S \in SUBSET Correspondances, NEW ocr \in BOOLEAN, NEW d \in DetecterSur(S, ocr),
         ~d.valide
  PROVE  /\ d.type \in SommesDeControle => d.score = SCORE_OCR_NON_VALIDE
         /\ d.type # "EMAIL" => d.score <= SCORE_OCR_NON_VALIDE
  <1>1. PICK c \in S : d \in (IF c.regle = "PIECE" THEN DetecterPiece(c) ELSE Appliquer(c, ocr))
    BY DEF DetecterSur
  <1>2. CASE c.regle = "PIECE"
    <2>. DEFINE v == Verdict(c)
                s == IF ~v THEN 750 ELSE IF c.indice THEN 995 ELSE 950
    <2>1. d = Detection("NUM_PIECE_IDENTITE", c, s, "regle", v)
      BY <1>1, <1>2 DEF DetecterPiece
    <2>. HIDE DEF v
    <2>2. d.type = "NUM_PIECE_IDENTITE" /\ d.valide = v /\ d.score = s
      BY <2>1 DEF Detection
    <2>. QED
      BY <2>2 DEF SommesDeControle, SCORE_OCR_NON_VALIDE
  <1>3. CASE c.regle # "PIECE"
    <2>. DEFINE r == REGLES[c.regle]
                invalide == r.validateur /\ ~Verdict(c)
                v == r.validateur /\ ~invalide
                s == ScoreRegle(r, c, ocr)
    <2>1. /\ d = Detection(r.type, c, s, "regle", v)
          /\ ~ (invalide /\ r.rejeter /\ ~Tolere(r, ocr))
      BY <1>1, <1>3 DEF Appliquer
    <2>2. c.regle \in DOMAIN REGLES
      BY <1>3 DEF Correspondances
    <2>3. /\ r.type \in SommesDeControle => r.validateur /\ r.rejeter
          /\ ~r.validateur /\ r.type # "EMAIL" => r.score <= 900
      <3>1. CASE c.regle = "PLAQUE_IMMAT"
        <4>1. r.type = "PLAQUE_IMMAT" /\ r.score = 700
          BY <3>1 DEF REGLES, Regle
        <4>. QED
          BY <4>1 DEF SommesDeControle
      <3>2. CASE c.regle = "NUM_CLIENT"
        <4>1. r.type = "NUM_CLIENT" /\ r.score = 900
          BY <3>2 DEF REGLES, Regle
        <4>. QED
          BY <4>1 DEF SommesDeControle
      <3>3. CASE c.regle = "EMAIL"
        <4>1. r.type = "EMAIL"
          BY <3>3 DEF REGLES, Regle
        <4>. QED
          BY <4>1 DEF SommesDeControle
      <3>4. CASE c.regle \in {"IBAN", "CARTE_BANCAIRE", "TELEPHONE", "DATE_NAISSANCE"}
        <4>1. r.validateur /\ (r.type \in SommesDeControle => r.rejeter)
          BY <3>4 DEF REGLES, Regle, SommesDeControle
        <4>. QED
          BY <4>1
      <3>. QED
        <4>1. c.regle \in {"EMAIL", "IBAN", "CARTE_BANCAIRE", "TELEPHONE", "DATE_NAISSANCE",
                           "PLAQUE_IMMAT", "NUM_CLIENT"}
          BY <2>2 DEF REGLES
        <4>. HIDE DEF r
        <4>. QED
          BY <3>1, <3>2, <3>3, <3>4, <4>1
    <2>4. d.type = r.type /\ d.valide = v /\ d.score = s
      <3>. HIDE DEF v, s
      <3>. QED
        BY <2>1 DEF Detection
    <2>5. ~v
      <3>. HIDE DEF v
      <3>. QED
        BY <2>4
    <2>. HIDE DEF r
    <2>6. CASE r.validateur
      <3>1. ~Verdict(c)
        BY <2>5, <2>6
      <3>2. s = IF Tolere(r, ocr) THEN SCORE_OCR_NON_VALIDE ELSE SCORE_NON_VALIDE
        BY <2>6, <3>1 DEF ScoreRegle
      <3>3. r.rejeter => Tolere(r, ocr)
        BY <2>1, <2>6, <3>1
      <3>. HIDE DEF s
      <3>. QED
        BY <2>3, <2>4, <3>2, <3>3 DEF SCORE_OCR_NON_VALIDE, SCORE_NON_VALIDE
    <2>7. CASE ~r.validateur
      <3>1. s = r.score
        BY <2>7 DEF ScoreRegle
      <3>. HIDE DEF s
      <3>. QED
        BY <2>3, <2>4, <2>7, <3>1 DEF SCORE_OCR_NON_VALIDE
    <2>. QED
      BY <2>6, <2>7
  <1>. QED
    BY <1>2, <1>3

\* An entity of such a type makes the document critical.
LEMMA NiveauDesSommes ==
  ASSUME NEW E, NEW e \in E, e.type \in SommesDeControle
  PROVE  niveau_maximum(E) = "critique"
  <1>1. Niveau(e, E) = "critique"
    BY DEF SommesDeControle, Niveau, niveau_de, TypesFaibles, TypesEleves, TypesCritiques
  <1>2. /\ niveau_maximum(E) \in NiveauSens
        /\ ORDRE_NIVEAU["critique"] <= ORDRE_NIVEAU[niveau_maximum(E)]
    BY <1>1, NiveauMaximum
  <1>3. /\ ORDRE_NIVEAU["faible"] = 0 /\ ORDRE_NIVEAU["moyen"] = 1
        /\ ORDRE_NIVEAU["eleve"] = 2 /\ ORDRE_NIVEAU["critique"] = 3
    BY DEF ORDRE_NIVEAU, NiveauSens
  <1>. QED
    BY <1>2, <1>3 DEF NiveauSens

-------------------------------------------------------------------------------
(* Every step preserves the invariant. *)

LEMMA InitInv == Init => IInv
  <1>. SUFFICES ASSUME Init PROVE IInv
    OBVIOUS
  <1>. USE DEF Init
  <1>1. TypeOK
    BY DEF TypeOK, SansNiveau
  <1>2. Ordre /\ StablePartiel /\ MethodesFondees /\ CandidatsDetectes /\ NiveauRetenu
    BY DEF Ordre, StablePartiel, MethodesFondees, CandidatsDetectes, NiveauRetenu
  <1>. QED
    BY <1>1, <1>2 DEF IInv

\* What is detected in a text, and what is kept of it for the fusion, depends on nothing else.
LEMMA DeduitesInchangees ==
  ASSUME texte' = texte
  PROVE  Dedupliquees(DetectionsDe(texte))' = Dedupliquees(DetectionsDe(texte))
  BY DEF Dedupliquees, DetectionsDe, Candidat, MemeCle, PlusForte, Longueur

LEMMA DetecterInv ==
  ASSUME IInv, Detecter
  PROVE  IInv'
  <1>. DEFINE D == DetectionsDe(texte)
  <1>1. /\ texte \in Textes /\ texte' = texte /\ niveau' = niveau /\ etape' = "fusion"
        /\ candidats' = Dedupliquees(D)
        /\ methodes' = [c \in candidats' |-> MethodeInitiale(c, D)]
        /\ restants' = candidats' /\ retenues' = {}
    BY DEF IInv, Detecter, EntrerFusion
  <1>2. D \in SUBSET LesDetections
    BY <1>1, DetectionsTypees
  <1>. HIDE DEF D
  <1>3. /\ Dedupliquees(D) \subseteq Candidats
        /\ \A c \in Dedupliquees(D) : MethodeInitiale(c, D) \in Methodes
    BY <1>2, DedupliqueesTypees
  <1>4. methodes' \in [candidats' -> Methodes]
    BY <1>1, <1>3
  <1>5. TypeOK'
    BY <1>1, <1>3, <1>4 DEF IInv, TypeOK
  <1>6. Ordre' /\ StablePartiel' /\ NiveauRetenu'
    BY <1>1 DEF Ordre, StablePartiel, NiveauRetenu
  <1>7. MethodesFondees'
    <2>1. DetectionsDe(texte) = D /\ DetectionsDe(texte') = D
      BY <1>1 DEF D
    <2>2. \A d \in D : Candidat(d).debut = d.debut /\ Candidat(d).fin = d.fin /\ d.debut < d.fin
                       /\ d.debut \in Nat /\ d.fin \in Nat
      BY <1>1, <1>2, DetectionsNonVides DEF D, Candidat, LesDetections
    <2>3. \A c \in candidats' : c.debut < c.fin
      BY <1>1, <2>2 DEF Dedupliquees
    <2>4. ASSUME NEW c \in candidats', NEW m \in {"regle", "ner"},
                 methodes'[c] = m \/ methodes'[c] = "fusion"
          PROVE  \E d \in D : d.methode = m /\ Candidat(d) = c /\ SeChevauchent(d, c)
      <3>1. MethodeInitiale(c, D) \in {m, "fusion"} /\ c \in Dedupliquees(D)
        BY <1>1, <2>4
      <3>2. PICK d \in D : d.methode = m /\ Candidat(d) = c
        BY <1>2, <3>1, MethodesDesVues
      <3>3. SeChevauchent(d, c)
        BY <2>2, <3>2 DEF SeChevauchent
      <3>. QED
        BY <3>2, <3>3
    <2>5. \A c \in candidats', m \in {"regle", "ner"} :
            methodes'[c] \in {m, "fusion"} => VuePar(m, c)' /\ TouchePar(m, c)'
      BY <2>1, <2>4 DEF VuePar, TouchePar, Candidat, SeChevauchent
    <2>. QED
      BY <1>1, <2>3, <2>5 DEF MethodesFondees
  <1>8. CandidatsDetectes'
    <2>1. candidats' = Dedupliquees(DetectionsDe(texte))'
      BY <1>1, DeduitesInchangees DEF D
    <2>. QED
      BY <2>1 DEF CandidatsDetectes
  <1>. QED
    BY <1>1, <1>5, <1>6, <1>7, <1>8 DEF IInv

\* What the methods say is said of the same detections after a step that keeps the text.
LEMMA VuesInchangees ==
  ASSUME texte' = texte
  PROVE  \A m, c : (VuePar(m, c)' <=> VuePar(m, c)) /\ (TouchePar(m, c)' <=> TouchePar(m, c))
  BY DEF VuePar, TouchePar, DetectionsDe, Candidat, SeChevauchent

\* A candidate that overlaps one made by m is overlapped by a detection by m.
LEMMA VueTouche ==
  ASSUME NEW m, NEW c, NEW e, VuePar(m, c), SeChevauchent(c, e) \/ SeChevauchent(e, c)
  PROVE  TouchePar(m, e)
  BY DEF VuePar, TouchePar, Candidat, SeChevauchent

\* The strongest of those that remain finds nothing weaker among those kept.
LEMMA SansPerdants ==
  ASSUME IInv, NEW c \in restants
  PROVE  Perdants(c) = {}
  <1>1. \A e \in Conflits(c) : e \in candidats \ restants
    BY DEF IInv, TypeOK, Conflits
  <1>. QED
    BY <1>1 DEF IInv, Ordre, Perdants

LEMMA FusionnerInv ==
  ASSUME IInv, Fusionner
  PROVE  IInv' /\ retenues \subseteq retenues'
  <1>1. PICK c \in restants : Arbitrer(c)
    BY DEF Fusionner
  <1>2. /\ UNCHANGED <<texte, etape, niveau, candidats>>
        /\ etape = "fusion"
        /\ restants' = restants \ {c}
        /\ \A d \in restants : ~PlusForte(d, c)
    BY <1>1 DEF Fusionner, Arbitrer, Premier
  <1>3. /\ c \in candidats /\ c \in Candidats /\ restants \subseteq candidats
        /\ retenues \subseteq candidats \ restants
        /\ methodes \in [candidats -> Methodes] /\ candidats \subseteq Candidats
    BY DEF IInv, TypeOK
  <1>4. Ordre'
    BY <1>2, <1>3 DEF IInv, Ordre
  <1>5. ~PlusForte(c, c)
    BY <1>3, PasPlusForteQueSoi
  <1>5a. CandidatsDetectes'
    BY <1>2, DeduitesInchangees DEF IInv, CandidatsDetectes
  <1>6. \A d \in candidats \ restants : ~PlusForte(c, d)
    BY DEF IInv, Ordre
  <1>7. CASE Retenir(c)
    <2>1. Gagnants(c) = {} /\ retenues' = retenues \union {c}
      BY <1>7, SansPerdants DEF Retenir
    <2>2. methodes' \in [candidats -> Methodes]
      <3>. DEFINE m == IF \E p \in Perdants(c) : methodes[p] # methodes[c]
                       THEN "fusion" ELSE methodes[c]
      <3>1. methodes' = [methodes EXCEPT ![c] = m]
        BY <1>7 DEF Retenir
      <3>2. m \in Methodes
        BY <1>3 DEF Methodes
      <3>. HIDE DEF m
      <3>. QED
        BY <1>3, <3>1, <3>2
    <2>3. TypeOK'
      BY <1>2, <1>3, <2>1, <2>2 DEF IInv, TypeOK
    <2>4. \A e \in retenues : ~ (SeChevauchent(e, c) /\ PlusForte(e, c))
      BY <2>1 DEF Gagnants, Conflits
    <2>5. ASSUME NEW d \in candidats \ restants
          PROVE  d \in retenues' <=>
                   ~ \E e \in retenues' : SeChevauchent(e, d) /\ PlusForte(e, d)
      <3>1. d # c
        BY <1>3
      <3>2. ~PlusForte(c, d)
        BY <1>6
      <3>3. d \in retenues <=> ~ \E e \in retenues : SeChevauchent(e, d) /\ PlusForte(e, d)
        BY DEF IInv, StablePartiel
      <3>. QED
        BY <2>1, <3>1, <3>2, <3>3
    <2>6. c \in retenues' /\ ~ \E e \in retenues' : SeChevauchent(e, c) /\ PlusForte(e, c)
      BY <1>5, <2>1, <2>4
    <2>7. \A d \in candidats' \ restants' : d = c \/ d \in candidats \ restants
      BY <1>2
    <2>8. StablePartiel'
      <3>1. ASSUME NEW d \in candidats' \ restants'
            PROVE  d \in retenues' <=>
                     ~ \E e \in retenues' : SeChevauchent(e, d) /\ PlusForte(e, d)
        BY <2>5, <2>6, <2>7
      <3>. QED
        BY <3>1 DEF StablePartiel, SeChevauchent, PlusForte, Longueur
    <2>9. methodes' = methodes
      <3>1. methodes' = [methodes EXCEPT ![c] = methodes[c]]
        BY <1>7, SansPerdants DEF Retenir
      <3>. QED
        BY <1>3, <3>1
    <2>10. MethodesFondees'
      BY <1>2, <1>3, <2>9, VuesInchangees DEF IInv, MethodesFondees
    <2>. QED
      BY <1>2, <1>4, <2>1, <2>3, <2>8, <2>10, <1>5a DEF IInv, NiveauRetenu
  <1>8. CASE Ecarter(c)
    <2>1. Gagnants(c) # {} /\ retenues' = retenues
      BY <1>8 DEF Ecarter
    <2>2. methodes' \in [candidats -> Methodes]
      <3>1. methodes' = [e \in candidats |->
              IF e \in Gagnants(c) /\ methodes[e] # methodes[c] THEN "fusion" ELSE methodes[e]]
        BY <1>8 DEF Ecarter, Marquees
      <3>2. \A e \in candidats :
              (IF e \in Gagnants(c) /\ methodes[e] # methodes[c] THEN "fusion" ELSE methodes[e])
                \in Methodes
        BY <1>3 DEF Methodes
      <3>. QED
        BY <3>1, <3>2
    <2>3. TypeOK'
      BY <1>2, <1>3, <2>1, <2>2 DEF IInv, TypeOK
    <2>4. c \notin retenues /\ \E e \in retenues : SeChevauchent(e, c) /\ PlusForte(e, c)
      BY <1>3, <2>1 DEF Gagnants, Conflits
    <2>5. \A d \in candidats' \ restants' : d = c \/ d \in candidats \ restants
      BY <1>2
    <2>6. StablePartiel'
      <3>1. ASSUME NEW d \in candidats' \ restants'
            PROVE  d \in retenues' <=>
                     ~ \E e \in retenues' : SeChevauchent(e, d) /\ PlusForte(e, d)
        BY <2>1, <2>4, <2>5 DEF IInv, StablePartiel
      <3>. QED
        BY <3>1 DEF StablePartiel, SeChevauchent, PlusForte, Longueur
    <2>7. \A e \in candidats :
            methodes'[e] = IF e \in Gagnants(c) /\ methodes[e] # methodes[c]
                           THEN "fusion" ELSE methodes[e]
      BY <1>8 DEF Ecarter, Marquees
    <2>8. \A e \in candidats, m \in {"regle", "ner"} :
            methodes[e] = "fusion" => TouchePar(m, e)
      BY <1>2 DEF IInv, MethodesFondees
    <2>9. ASSUME NEW e \in candidats, NEW m \in {"regle", "ner"}, methodes'[e] = "fusion"
          PROVE  TouchePar(m, e)
      <3>1. CASE methodes[e] = "fusion"
        BY <2>8, <3>1
      <3>2. CASE methodes[e] # "fusion"
        <4>1. e \in Gagnants(c) /\ methodes[e] # methodes[c]
          BY <2>7, <2>9, <3>2
        <4>2. SeChevauchent(e, c) /\ e.debut < e.fin /\ SeChevauchent(e, e)
          BY <1>2, <4>1 DEF IInv, MethodesFondees, Gagnants, Conflits, SeChevauchent
        <4>3. methodes[e] = m \/ methodes[c] = m \/ methodes[c] = "fusion"
          BY <1>3, <3>2, <4>1 DEF Methodes
        <4>4. VuePar(m, e) \/ VuePar(m, c)
          BY <1>2, <1>3, <4>3 DEF IInv, MethodesFondees
        <4>. QED
          BY <4>2, <4>4, VueTouche
      <3>. QED
        BY <3>1, <3>2
    <2>10. ASSUME NEW d \in restants' PROVE d \notin Gagnants(c)
      BY <1>2, <1>3 DEF Gagnants, Conflits
    <2>11. MethodesFondees'
      <3>1. \A e \in candidats, m \in {"regle", "ner"} : methodes'[e] = m => methodes[e] = m
        BY <2>7
      <3>2. \A e \in restants' : methodes'[e] = methodes[e] /\ e \in restants /\ e \in candidats
        BY <1>2, <1>3, <2>7, <2>10
      <3>. QED
        BY <1>2, <2>9, <3>1, <3>2, VuesInchangees DEF IInv, MethodesFondees
    <2>. QED
      BY <1>2, <1>4, <2>1, <2>3, <2>6, <2>11, <1>5a DEF IInv, NiveauRetenu
  <1>. QED
    BY <1>1, <1>7, <1>8 DEF Arbitrer

LEMMA ClasserInv ==
  ASSUME IInv, Classer
  PROVE  IInv'
  <1>1. /\ UNCHANGED <<texte, candidats, methodes, restants, retenues>>
        /\ restants = {} /\ etape' = "classe" /\ niveau' = niveau_maximum(retenues)
    BY DEF Classer, varsFusion, ArbitrageFini
  <1>2. niveau_maximum(retenues) \in NiveauSens \union {SansNiveau}
    <2>1. CASE retenues = {}
      BY <2>1 DEF niveau_maximum
    <2>2. CASE retenues # {}
      BY <2>2, NiveauMaximum
    <2>. QED
      BY <2>1, <2>2
  <1>3. TypeOK'
    BY <1>1, <1>2 DEF IInv, TypeOK
  <1>4. Ordre' /\ StablePartiel'
    BY <1>1 DEF IInv, Ordre, StablePartiel, SeChevauchent, PlusForte, Longueur
  <1>5. NiveauRetenu'
    <2>1. retenues' = retenues
      BY <1>1
    <2>. QED
      BY <1>1, <2>1 DEF NiveauRetenu
  <1>6. MethodesFondees'
    <2>1. etape # "extrait" /\ texte' = texte
      BY <1>1 DEF Classer
    <2>. QED
      BY <1>1, <2>1, VuesInchangees DEF IInv, MethodesFondees
  <1>7. CandidatsDetectes'
    <2>1. etape # "extrait" /\ texte' = texte
      BY <1>1 DEF Classer
    <2>. QED
      BY <1>1, <2>1, DeduitesInchangees DEF IInv, CandidatsDetectes
  <1>. QED
    BY <1>1, <1>3, <1>4, <1>5, <1>6, <1>7 DEF IInv

LEMMA InchangeInv ==
  ASSUME IInv, UNCHANGED vars
  PROVE  IInv'
  <1>1. MethodesFondees'
    BY VuesInchangees DEF IInv, MethodesFondees, vars, varsFusion
  <1>2. CandidatsDetectes'
    BY DeduitesInchangees DEF IInv, CandidatsDetectes, vars, varsFusion
  <1>. QED
    BY <1>1, <1>2 DEF IInv, TypeOK, Ordre, StablePartiel, NiveauRetenu, vars, varsFusion,
                SeChevauchent, PlusForte, Longueur

LEMMA NextInv == IInv /\ [Next]_vars => IInv'
  BY DetecterInv, FusionnerInv, ClasserInv, InchangeInv DEF Next, Termine

-------------------------------------------------------------------------------
(* Checksums *)

\* A recurrence on the natural numbers up to n has a solution.
Recurrence(f, n, s, G) ==
  f \in [0..n -> Nat] /\ f[0] = s /\ \A i \in 1..n : f[i] = G[<<f[i - 1], i>>]

LEMMA RecurrenceExiste ==
  ASSUME NEW n \in Nat, NEW s \in Nat, NEW G \in [Nat \X (1..n) -> Nat]
  PROVE  \E f : Recurrence(f, n, s, G)
  <1>. DEFINE T == {m \in 0..n : ~ \E f : Recurrence(f, m, s, G)}
  <1>1. ASSUME NEW m \in T, \A y \in T : m <= y PROVE FALSE
    <2>1. CASE m = 0
      <3>. DEFINE f == [k \in 0..0 |-> s]
      <3>1. Recurrence(f, 0, s, G)
        BY DEF Recurrence
      <3>. QED
        BY <2>1, <3>1
    <2>2. CASE m # 0
      <3>1. m \in 1..n /\ m - 1 \in 0..n /\ ~ (m <= m - 1)
        BY <2>2
      <3>2. PICK f : Recurrence(f, m - 1, s, G)
        BY <1>1, <3>1
      <3>. DEFINE g == [k \in 0..m |-> IF k = m THEN G[<<f[m - 1], m>>] ELSE f[k]]
      <3>3. Recurrence(g, m, s, G)
        <4>1. /\ f \in [0..(m - 1) -> Nat] /\ f[0] = s
              /\ \A i \in 1..(m - 1) : f[i] = G[<<f[i - 1], i>>]
          BY <3>2 DEF Recurrence
        <4>2. f[m - 1] \in Nat /\ G[<<f[m - 1], m>>] \in Nat
          <5>1. m - 1 \in 0..(m - 1)
            BY <3>1
          <5>2. f[m - 1] \in Nat
            BY <4>1, <5>1
          <5>. QED
            BY <3>1, <5>2
        <4>3. \A k \in 0..m : g[k] \in Nat
          <5>1. \A k \in 0..m : k # m => k \in 0..(m - 1)
            BY <3>1
          <5>. QED
            BY <4>1, <4>2, <5>1
        <4>4. g \in [0..m -> Nat]
          BY <4>3
        <4>5. g[0] = s
          BY <2>2, <3>1, <4>1
        <4>6. ASSUME NEW i \in 1..m PROVE g[i] = G[<<g[i - 1], i>>]
          <5>1. g[i - 1] = f[i - 1]
            BY <3>1
          <5>2. CASE i = m
            <6>1. g[i] = G[<<f[m - 1], m>>]
              BY <5>2
            <6>. HIDE DEF g
            <6>. QED
              BY <5>1, <5>2, <6>1
          <5>3. CASE i # m
            <6>1. g[i] = f[i] /\ i \in 1..(m - 1)
              BY <3>1, <5>3
            <6>. QED
              BY <4>1, <5>1, <6>1
          <5>. QED
            BY <5>2, <5>3
        <4>. HIDE DEF g
        <4>. QED
          BY <4>4, <4>5, <4>6 DEF Recurrence
      <3>. QED
        BY <3>1, <3>3
    <2>. QED
      BY <2>1, <2>2
  <1>2. T = {}
    <2>1. T \in SUBSET Nat
      OBVIOUS
    <2>. HIDE DEF T
    <2>. QED
      BY <1>1, <2>1, NatMinimal
  <1>. QED
    BY <1>2

\* The sums of luhn_valide (validators.py), digit by digit.
Sommes(L, v) ==
  /\ L \in [0..Len(v) -> Nat] /\ L[0] = 0
  /\ \A k \in 1..Len(v) : L[k] = L[k - 1] + ChiffreLuhn(v, k)

Double(u) == IF 2 * u > 9 THEN 2 * u - 9 ELSE 2 * u

\* What a digit adds, doubled or not.
LEMMA ChiffreLuhnEst ==
  ASSUME NEW v, NEW i
  PROVE  ChiffreLuhn(v, i) = IF (Len(v) - i) % 2 = 0 THEN v[i] ELSE Double(v[i])
  BY DEF ChiffreLuhn, Double

LEMMA ChiffreLuhnBon ==
  ASSUME NEW v \in Seq(Chiffres), NEW k \in 1..Len(v)
  PROVE  ChiffreLuhn(v, k) \in 0..9
  <1>1. v[k] \in 0..9
    BY DEF Chiffres
  <1>2. \A u \in 0..9 : Double(u) \in 0..9
    BY DEF Double
  <1>. QED
    BY <1>1, <1>2, ChiffreLuhnEst

LEMMA LuhnTotal ==
  ASSUME NEW v \in Seq(Chiffres)
  PROVE  \E L : Sommes(L, v) /\ (luhn_valide(v) => L[Len(v)] % 10 = 0)
  <1>. DEFINE n == Len(v)
              Tour(f, i) == IF i = 0 THEN 0 ELSE f[i - 1] + ChiffreLuhn(v, i)
              G == [x \in Nat \X (1..n) |-> x[1] + ChiffreLuhn(v, x[2])]
              F == CHOOSE f : f = [i \in 0..n |-> Tour(f, i)]
  <1>1. n \in Nat /\ \A k \in 1..n : ChiffreLuhn(v, k) \in Nat
    BY ChiffreLuhnBon
  <1>2. G \in [Nat \X (1..n) -> Nat]
    <2>1. \A x \in Nat \X (1..n) : x[1] + ChiffreLuhn(v, x[2]) \in Nat
      BY <1>1
    <2>. QED
      BY <2>1
  <1>3. PICK f : Recurrence(f, n, 0, G)
    <2>. HIDE DEF G, n
    <2>. QED
      BY <1>1, <1>2, RecurrenceExiste
  <1>4. /\ f \in [0..n -> Nat] /\ f[0] = 0
        /\ \A k \in 1..n : f[k] = f[k - 1] + ChiffreLuhn(v, k)
    <2>1. /\ f \in [0..n -> Nat] /\ f[0] = 0
          /\ \A k \in 1..n : f[k] = G[<<f[k - 1], k>>]
      <3>. HIDE DEF G, n
      <3>. QED
        BY <1>3 DEF Recurrence
    <2>2. \A k \in 1..n : k - 1 \in 0..n /\ f[k - 1] \in Nat
      BY <1>1, <2>1
    <2>3. \A k \in 1..n : <<f[k - 1], k>> \in Nat \X (1..n)
      BY <2>2
    <2>. QED
      BY <2>1, <2>3
  <1>5. f = [i \in 0..n |-> Tour(f, i)]
    <2>1. \A i \in 0..n : f[i] = Tour(f, i)
      <3>1. \A i \in 0..n : i # 0 => i \in 1..n
        BY <1>1
      <3>. HIDE DEF n
      <3>. QED
        BY <1>4, <3>1
    <2>. HIDE DEF Tour
    <2>. QED
      BY <1>4, <2>1
  <1>6. F = [i \in 0..n |-> Tour(F, i)]
    <2>. HIDE DEF Tour
    <2>. QED
      BY <1>5
  <1>7. luhn_valide(v) => F[Len(v)] % 10 = 0
    BY DEF luhn_valide
  <1>. HIDE DEF F
  <1>8. F[0] = 0 /\ \A i \in 1..n : F[i] = F[i - 1] + ChiffreLuhn(v, i)
    <2>1. 0 \in 0..n /\ \A i \in 1..n : i \in 0..n /\ i # 0
      BY <1>1
    <2>2. \A i \in 0..n : F[i] = Tour(F, i)
      BY <1>6
    <2>. HIDE DEF n
    <2>. QED
      BY <2>1, <2>2
  <1>9. \A i \in 0..n : F[i] \in Nat
    <2>. DEFINE T == {m \in 0..n : F[m] \notin Nat}
    <2>1. ASSUME NEW m \in T, \A y \in T : m <= y PROVE FALSE
      <3>1. m # 0
        BY <1>8
      <3>2. m \in 1..n /\ m - 1 \in 0..n /\ ~ (m <= m - 1)
        BY <1>1, <3>1
      <3>3. F[m - 1] \in Nat
        BY <2>1, <3>2
      <3>. HIDE DEF n
      <3>. QED
        BY <1>1, <1>8, <3>2, <3>3
    <2>2. T = {}
      <3>1. T \in SUBSET Nat
        BY <1>1
      <3>. HIDE DEF T
      <3>. QED
        BY <2>1, <3>1, NatMinimal
    <2>. QED
      BY <2>2
  <1>10. F \in [0..n -> Nat]
    <2>1. F = [i \in 0..n |-> F[i]]
      <3>. HIDE DEF Tour
      <3>. QED
        BY <1>6
    <2>. HIDE DEF n
    <2>. QED
      BY <1>9, <2>1
  <1>. QED
    BY <1>7, <1>8, <1>10 DEF Sommes

\* At the same place two digits do not add the same.
LEMMA ChiffreLuhnDistinct ==
  ASSUME NEW v, NEW w, NEW i, Len(v) = Len(w), v[i] \in 0..9, w[i] \in 0..9, w[i] # v[i]
  PROVE  ChiffreLuhn(v, i) # ChiffreLuhn(w, i)
  <1>. DEFINE a == v[i]
              b == w[i]
              c == (Len(v) - i) % 2 = 0
  <1>1. /\ ChiffreLuhn(v, i) = IF c THEN a ELSE Double(a)
        /\ ChiffreLuhn(w, i) = IF c THEN b ELSE Double(b)
    BY ChiffreLuhnEst
  <1>2. a \in 0..9 /\ b \in 0..9 /\ a # b
    OBVIOUS
  <1>. HIDE DEF a, b, c
  <1>3. Double(a) # Double(b)
    BY <1>2 DEF Double
  <1>. QED
    BY <1>1, <1>2, <1>3

\* The difference of two sums grows by that of what is added.
LEMMA EcartAjoute ==
  ASSUME NEW l \in Nat, NEW m \in Nat, m - l = 0,
         NEW x \in Int, NEW y \in Int, NEW p \in Int, NEW q \in Int
  PROVE  /\ (m + y) - (l + x) = y - x
         /\ ((m + y) + q) - ((l + x) + p) = (y + q) - (x + p)
  OBVIOUS

\* Where two numbers have the same digits, their sums go on together.
Egaux(v, w, i, j) == \A k \in (i + 1)..j : v[k] = w[k]
EcartConstant(L, M, i, j) == M[j] - L[j] = M[i] - L[i]

LEMMA SommesEgales ==
  ASSUME NEW v \in Seq(Chiffres), NEW w \in Seq(Chiffres), Len(v) = Len(w),
         NEW L, Sommes(L, v), NEW M, Sommes(M, w),
         NEW i \in 0..Len(v), NEW j \in 0..Len(v), i <= j,
         Egaux(v, w, i, j)
  PROVE  EcartConstant(L, M, i, j)
  <1>. DEFINE n == Len(v)
              T == {m \in 0..n : i <= m /\ m <= j /\ M[m] - L[m] # M[i] - L[i]}
  <1>1. /\ n \in Nat /\ L \in [0..n -> Nat] /\ M \in [0..n -> Nat]
        /\ \A k \in 1..n : L[k] = L[k - 1] + ChiffreLuhn(v, k)
        /\ \A k \in 1..n : M[k] = M[k - 1] + ChiffreLuhn(w, k)
    BY DEF Sommes
  <1>2. \A k \in (i + 1)..j : k \in 1..n /\ ChiffreLuhn(v, k) = ChiffreLuhn(w, k)
                               /\ ChiffreLuhn(v, k) \in Nat
    <2>1. ASSUME NEW k \in (i + 1)..j
          PROVE  /\ k \in 1..n /\ ChiffreLuhn(v, k) = ChiffreLuhn(w, k)
                 /\ ChiffreLuhn(v, k) \in Nat
      <3>1. k \in 1..Len(v) /\ v[k] = w[k]
        BY DEF Egaux
      <3>2. ChiffreLuhn(v, k) \in 0..9
        BY <3>1, ChiffreLuhnBon
      <3>3. ChiffreLuhn(v, k) = ChiffreLuhn(w, k)
        BY <3>1, ChiffreLuhnEst
      <3>. QED
        BY <3>1, <3>2, <3>3
    <2>. QED
      BY <2>1
  <1>. HIDE DEF n
  <1>3. ASSUME NEW m \in T, \A y \in T : m <= y PROVE FALSE
    <2>1. m \in (i + 1)..j /\ m - 1 \in 0..n /\ i <= m - 1 /\ m - 1 <= j /\ ~ (m <= m - 1)
      <3>1. m # i
        OBVIOUS
      <3>. QED
        BY <1>1, <3>1 DEF n
    <2>2. M[m - 1] - L[m - 1] = M[i] - L[i]
      BY <1>3, <2>1
    <2>3. /\ L[m] = L[m - 1] + ChiffreLuhn(v, m) /\ M[m] = M[m - 1] + ChiffreLuhn(v, m)
          /\ ChiffreLuhn(v, m) \in Nat
      BY <1>1, <1>2, <2>1
    <2>4. L[m - 1] \in Nat /\ M[m - 1] \in Nat
      BY <1>1, <2>1
    <2>. QED
      BY <2>2, <2>3, <2>4
  <1>4. T = {}
    <2>1. T \in SUBSET Nat
      BY <1>1
    <2>. HIDE DEF T
    <2>. QED
      BY <1>3, <2>1, NatMinimal
  <1>. QED
    BY <1>4 DEF n, EcartConstant

\* One digit misread makes a card number invalid.
LEMMA LuhnUnChiffre ==
  ASSUME NEW v \in Seq(Chiffres), NEW w \in Seq(Chiffres), Len(v) = Len(w), luhn_valide(v),
         NEW i \in 1..Len(v), w[i] # v[i], \A k \in 1..Len(v) : k # i => w[k] = v[k]
  PROVE  ~luhn_valide(w)
  <1>. DEFINE n == Len(v)
  <1>1. PICK L : Sommes(L, v) /\ L[n] % 10 = 0
    BY LuhnTotal
  <1>2. PICK M : Sommes(M, w) /\ (luhn_valide(w) => M[n] % 10 = 0)
    BY LuhnTotal
  <1>3. /\ n \in Nat /\ 0 \in 0..n /\ i - 1 \in 0..n /\ i \in 0..n /\ n \in 0..n
        /\ L \in [0..n -> Nat] /\ M \in [0..n -> Nat] /\ L[0] = 0 /\ M[0] = 0
        /\ L[i] = L[i - 1] + ChiffreLuhn(v, i) /\ M[i] = M[i - 1] + ChiffreLuhn(w, i)
    BY <1>1, <1>2 DEF Sommes
  <1>. DEFINE x == ChiffreLuhn(v, i)
              y == ChiffreLuhn(w, i)
  <1>4. M[i - 1] - L[i - 1] = M[0] - L[0]
    <2>. DEFINE h == i - 1
    <2>1. Egaux(v, w, 0, h) /\ h \in 0..n /\ 0 <= h
      BY <1>3 DEF Egaux
    <2>. HIDE DEF h
    <2>2. EcartConstant(L, M, 0, h)
      BY <1>1, <1>2, <1>3, <2>1, SommesEgales
    <2>. QED
      BY <2>2 DEF EcartConstant, h
  <1>5. M[n] - L[n] = M[i] - L[i]
    <2>1. Egaux(v, w, i, n) /\ i <= n
      BY <1>3 DEF Egaux
    <2>2. EcartConstant(L, M, i, n)
      BY <1>1, <1>2, <1>3, <2>1, SommesEgales
    <2>. QED
      BY <2>2 DEF EcartConstant
  <1>6. x \in 0..9 /\ y \in 0..9 /\ x # y
    <2>1. x \in 0..9 /\ y \in 0..9
      BY ChiffreLuhnBon
    <2>2. v[i] \in 0..9 /\ w[i] \in 0..9
      BY DEF Chiffres
    <2>3. x # y
      BY <2>2, ChiffreLuhnDistinct
    <2>. QED
      BY <2>1, <2>3
  <1>7. M[i] - L[i] = y - x
    <2>1. L[i - 1] \in Nat /\ M[i - 1] \in Nat
      BY <1>3
    <2>2. L[i] = L[i - 1] + x /\ M[i] = M[i - 1] + y
      BY <1>3
    <2>. DEFINE l == L[i - 1]
                m == M[i - 1]
    <2>3. l \in Nat /\ m \in Nat /\ m - l = 0
      BY <1>3, <1>4, <2>1
    <2>4. x \in Int /\ y \in Int
      BY <1>6
    <2>. HIDE DEF x, y, l, m
    <2>5. (m + y) - (l + x) = y - x
      BY <2>3, <2>4, EcartAjoute
    <2>. QED
      BY <2>2, <2>5 DEF l, m
  <1>8. L[n] \in Nat /\ M[n] \in Nat
    BY <1>3
  <1>. HIDE DEF x, y, n
  <1>9. M[n] % 10 # 0
    <2>. DEFINE l == L[n]
                t == M[n]
                z == y - x
    <2>1. z \in (-9)..9 /\ z # 0
      BY <1>6
    <2>3. l \in Nat /\ t \in Nat /\ l % 10 = 0 /\ t - l = z
      BY <1>1, <1>5, <1>7, <1>8
    <2>. HIDE DEF l, t, z
    <2>2. t % 10 # 0
      BY <2>1, <2>3
    <2>. QED
      BY <2>2 DEF t
  <1>. QED
    BY <1>2, <1>9

LEMMA EcartLuhn ==
  ASSUME NEW a \in 0..9, NEW b \in 0..9, a # b, ~(a = 0 /\ b = 9), ~(a = 9 /\ b = 0)
  PROVE  /\ ((b + Double(a)) - (a + Double(b))) % 10 # 0
         /\ ((Double(b) + a) - (Double(a) + b)) % 10 # 0
  <1>. DEFINE z == (b + Double(a)) - (a + Double(b))
  <1>1. Double(a) \in Int /\ Double(b) \in Int /\ z \in (-9)..9 /\ z # 0
    <2>1. CASE a <= 4 /\ b <= 4
      BY <2>1 DEF Double
    <2>2. CASE a <= 4 /\ b > 4
      BY <2>2 DEF Double
    <2>3. CASE a > 4 /\ b <= 4
      BY <2>3 DEF Double
    <2>4. CASE a > 4 /\ b > 4
      BY <2>4 DEF Double
    <2>. QED
      BY <2>1, <2>2, <2>3, <2>4
  <1>2. (Double(b) + a) - (Double(a) + b) = 0 - z
    BY <1>1
  <1>. HIDE DEF z
  <1>3. z % 10 # 0 /\ (0 - z) % 10 # 0
    BY <1>1
  <1>. QED
    BY <1>2, <1>3 DEF z

\* So do two neighbouring digits exchanged, but 0 and 9.
LEMMA LuhnEchange ==
  ASSUME NEW v \in Seq(Chiffres), NEW w \in Seq(Chiffres), Len(v) = Len(w), luhn_valide(v),
         NEW i \in 1..(Len(v) - 1), w[i] = v[i + 1], w[i + 1] = v[i], v[i] # v[i + 1],
         {v[i], v[i + 1]} # {0, 9}, \A k \in 1..Len(v) : k \notin {i, i + 1} => w[k] = v[k]
  PROVE  ~luhn_valide(w)
  <1>. DEFINE n == Len(v)
              o == i + 1
  <1>1. PICK L : Sommes(L, v) /\ L[n] % 10 = 0
    BY LuhnTotal
  <1>2. PICK M : Sommes(M, w) /\ (luhn_valide(w) => M[n] % 10 = 0)
    BY LuhnTotal
  <1>3. /\ n \in Nat /\ 0 \in 0..n /\ i - 1 \in 0..n /\ i \in 0..n /\ o \in 0..n /\ n \in 0..n
        /\ i \in 1..n /\ o \in 1..n /\ o - 1 = i
        /\ L \in [0..n -> Nat] /\ M \in [0..n -> Nat] /\ L[0] = 0 /\ M[0] = 0
        /\ L[i] = L[i - 1] + ChiffreLuhn(v, i) /\ M[i] = M[i - 1] + ChiffreLuhn(w, i)
        /\ L[o] = L[o - 1] + ChiffreLuhn(v, o) /\ M[o] = M[o - 1] + ChiffreLuhn(w, o)
    BY <1>1, <1>2 DEF Sommes
  <1>. DEFINE x == ChiffreLuhn(v, i)
              y == ChiffreLuhn(w, i)
              p == ChiffreLuhn(v, o)
              q == ChiffreLuhn(w, o)
  <1>4. M[i - 1] - L[i - 1] = M[0] - L[0]
    <2>. DEFINE h == i - 1
    <2>1. Egaux(v, w, 0, h) /\ h \in 0..n /\ 0 <= h
      BY <1>3 DEF Egaux
    <2>. HIDE DEF h, o
    <2>2. EcartConstant(L, M, 0, h)
      BY <1>1, <1>2, <1>3, <2>1, SommesEgales
    <2>. QED
      BY <2>2 DEF EcartConstant, h
  <1>5. M[n] - L[n] = M[o] - L[o]
    <2>1. Egaux(v, w, o, n) /\ o <= n
      BY <1>3 DEF Egaux
    <2>. HIDE DEF o
    <2>2. EcartConstant(L, M, o, n)
      BY <1>1, <1>2, <1>3, <2>1, SommesEgales
    <2>. QED
      BY <2>2 DEF EcartConstant
  <1>6. x \in 0..9 /\ y \in 0..9 /\ p \in 0..9 /\ q \in 0..9
    BY <1>3, ChiffreLuhnBon
  <1>7. ((y + q) - (x + p)) % 10 # 0
    <2>. DEFINE a == v[i]
                b == v[o]
    <2>1. a \in 0..9 /\ b \in 0..9 /\ a # b /\ {a, b} # {0, 9} /\ w[i] = b /\ w[o] = a
      <3>1. \A k \in 1..n : v[k] \in 0..9
        BY DEF Chiffres
      <3>. QED
        BY <1>3, <3>1
    <2>2. \/ x = a /\ y = b /\ p = Double(b) /\ q = Double(a)
          \/ x = Double(a) /\ y = Double(b) /\ p = b /\ q = a
      <3>1. \/ (n - i) % 2 = 0 /\ (n - o) % 2 # 0
            \/ (n - i) % 2 # 0 /\ (n - o) % 2 = 0
        <4>. DEFINE m == n - i
        <4>1. m \in Nat /\ n - o = m - 1
          BY <1>3
        <4>. HIDE DEF m, n, o
        <4>2. \/ m % 2 = 0 /\ (m - 1) % 2 # 0
              \/ m % 2 # 0 /\ (m - 1) % 2 = 0
          BY <4>1
        <4>. QED
          BY <4>1, <4>2 DEF m
      <3>2. /\ x = IF (n - i) % 2 = 0 THEN a ELSE Double(a)
            /\ y = IF (n - i) % 2 = 0 THEN b ELSE Double(b)
            /\ p = IF (n - o) % 2 = 0 THEN b ELSE Double(b)
            /\ q = IF (n - o) % 2 = 0 THEN a ELSE Double(a)
        <4>. HIDE DEF o
        <4>. QED
          BY <2>1 DEF ChiffreLuhn, Double, a, b
      <3>. HIDE DEF n, o, x, y, p, q, a, b
      <3>. QED
        BY <3>1, <3>2
    <2>. HIDE DEF x, y, p, q, a, b
    <2>3. ~(a = 0 /\ b = 9) /\ ~(a = 9 /\ b = 0)
      <3>1. ASSUME a = 0, b = 9 PROVE FALSE
        BY <2>1, <3>1
      <3>2. ASSUME a = 9, b = 0 PROVE FALSE
        <4>1. {9, 0} = {0, 9}
          OBVIOUS
        <4>. QED
          BY <2>1, <3>2, <4>1
      <3>. QED
        BY <3>1, <3>2
    <2>. QED
      BY <2>1, <2>2, <2>3, EcartLuhn
  <1>8. M[o] - L[o] = (y + q) - (x + p)
    <2>1. L[i - 1] \in Nat /\ M[i - 1] \in Nat
      BY <1>3
    <2>2. /\ L[i] = L[i - 1] + x /\ M[i] = M[i - 1] + y
          /\ L[o] = L[i] + p /\ M[o] = M[i] + q
      BY <1>3
    <2>. DEFINE l == L[i - 1]
                m == M[i - 1]
    <2>3. l \in Nat /\ m \in Nat /\ m - l = 0
      BY <1>3, <1>4, <2>1
    <2>4. x \in Int /\ y \in Int /\ p \in Int /\ q \in Int
      BY <1>6
    <2>. HIDE DEF x, y, p, q, o, l, m
    <2>5. ((m + y) + q) - ((l + x) + p) = (y + q) - (x + p)
      BY <2>3, <2>4, EcartAjoute
    <2>. QED
      BY <2>2, <2>5 DEF l, m
  <1>9. L[n] \in Nat /\ M[n] \in Nat
    BY <1>3
  <1>. HIDE DEF x, y, p, q, n, o
  <1>10. M[n] % 10 # 0
    <2>. DEFINE l == L[n]
                t == M[n]
                z == (y + q) - (x + p)
    <2>1. z \in (-18)..18 /\ z % 10 # 0
      BY <1>6, <1>7
    <2>3. l \in Nat /\ t \in Nat /\ l % 10 = 0 /\ t - l = z
      BY <1>1, <1>5, <1>8, <1>9
    <2>. HIDE DEF l, t, z
    <2>2. t % 10 # 0
      BY <2>1, <2>3
    <2>. QED
      BY <2>2 DEF t
  <1>. QED
    BY <1>2, <1>10

\* One step of the remainder by 97, the characters of an IBAN being 0..35.
Poids(a) == IF a \in Majuscules THEN 100 ELSE 10
Pas(x, a) == (x * Poids(a) + a) % 97

LEMMA PasBon ==
  ASSUME NEW x \in Nat, NEW a \in 0..35
  PROVE  Pas(x, a) \in 0..96
  <1>1. CASE Poids(a) = 100
    BY <1>1 DEF Pas
  <1>2. CASE Poids(a) = 10
    BY <1>2 DEF Pas
  <1>. QED
    BY <1>1, <1>2 DEF Poids

LEMMA PasInjectif ==
  ASSUME NEW x \in 0..96, NEW y \in 0..96, x # y, NEW a \in 0..35
  PROVE  Pas(x, a) # Pas(y, a)
  <1>1. CASE Poids(a) = 100
    <2>1. (x * 100 + a) % 97 # (y * 100 + a) % 97
      OBVIOUS
    <2>. QED
      BY <1>1, <2>1 DEF Pas
  <1>2. CASE Poids(a) = 10
    <2>1. (x * 10 + a) % 97 # (y * 10 + a) % 97
      OBVIOUS
    <2>. QED
      BY <1>2, <2>1 DEF Pas
  <1>. QED
    BY <1>1, <1>2 DEF Poids

LEMMA PasSigne ==
  ASSUME NEW x \in 0..96, NEW a \in 0..35, NEW b \in 0..35, a # b,
         a \in Majuscules <=> b \in Majuscules
  PROVE  Pas(x, a) # Pas(x, b)
  <1>1. CASE Poids(a) = 100 /\ Poids(b) = 100
    <2>1. (x * 100 + a) % 97 # (x * 100 + b) % 97
      OBVIOUS
    <2>. QED
      BY <1>1, <2>1 DEF Pas
  <1>2. CASE Poids(a) = 10 /\ Poids(b) = 10
    <2>1. (x * 10 + a) % 97 # (x * 10 + b) % 97
      OBVIOUS
    <2>. QED
      BY <1>2, <2>1 DEF Pas
  <1>. QED
    BY <1>1, <1>2 DEF Poids

LEMMA PasEchange ==
  ASSUME NEW x \in 0..96, NEW a \in 0..9, NEW b \in 0..9, a # b
  PROVE  Pas(Pas(x, a), b) # Pas(Pas(x, b), a)
  <1>. DEFINE y == (x * 10 + a) % 97
              z == (x * 10 + b) % 97
  <1>1. Poids(a) = 10 /\ Poids(b) = 10
    BY DEF Poids, Majuscules
  <1>2. Pas(x, a) = y /\ Pas(x, b) = z
    BY <1>1 DEF Pas
  <1>3. Pas(y, b) = (y * 10 + b) % 97 /\ Pas(z, a) = (z * 10 + a) % 97
    BY <1>1 DEF Pas
  <1>4. (y * 10 + b) % 97 # (z * 10 + a) % 97
    OBVIOUS
  <1>. HIDE DEF y, z
  <1>. QED
    BY <1>2, <1>3, <1>4

Signes == 0..35
Residus == 0..96

LEMMA PasResidu ==
  ASSUME NEW x \in Nat, NEW a \in Signes
  PROVE  Pas(x, a) \in Residus
  BY PasBon DEF Signes, Residus

LEMMA ResidusNaturels == 0 \in Residus /\ \A x \in Residus : x \in Nat
  BY DEF Residus

\* The remainders of validators.iban_valide, character by character.
Restes(L, u) ==
  /\ L \in [0..Len(u) -> Residus] /\ L[0] = 0
  /\ \A k \in 1..Len(u) : L[k] = Pas(L[k - 1], u[k])

LEMMA Modulo97Restes ==
  ASSUME NEW v \in Seq(Signes)
  PROVE  \E L : Restes(L, v) /\ Modulo97(v) = L[Len(v)]
  <1>. DEFINE n == Len(v)
              Tour(f, i) == IF i = 0 THEN 0 ELSE Pas(f[i - 1], v[i])
              G == [x \in Nat \X (1..n) |-> Pas(x[1], v[x[2]])]
              F == CHOOSE f : f = [i \in 0..n |-> Tour(f, i)]
  <1>1. n \in Nat /\ \A k \in 1..n : v[k] \in Signes
    OBVIOUS
  <1>2. G \in [Nat \X (1..n) -> Nat]
    <2>1. ASSUME NEW x \in Nat \X (1..n) PROVE Pas(x[1], v[x[2]]) \in Nat
      <3>1. x[1] \in Nat /\ v[x[2]] \in Signes
        BY <1>1
      <3>. QED
        BY <3>1, PasResidu, ResidusNaturels
    <2>. QED
      BY <2>1
  <1>3. PICK f : Recurrence(f, n, 0, G)
    <2>. HIDE DEF G, n
    <2>. QED
      BY <1>1, <1>2, RecurrenceExiste
  <1>4. /\ f \in [0..n -> Nat] /\ f[0] = 0
        /\ \A k \in 1..n : f[k] = Pas(f[k - 1], v[k])
    <2>1. /\ f \in [0..n -> Nat] /\ f[0] = 0
          /\ \A k \in 1..n : f[k] = G[<<f[k - 1], k>>]
      <3>. HIDE DEF G, n
      <3>. QED
        BY <1>3 DEF Recurrence
    <2>2. \A k \in 1..n : k - 1 \in 0..n /\ f[k - 1] \in Nat
      BY <1>1, <2>1
    <2>3. \A k \in 1..n : <<f[k - 1], k>> \in Nat \X (1..n)
      BY <2>2
    <2>. QED
      BY <2>1, <2>3
  <1>5. f = [i \in 0..n |-> Tour(f, i)]
    <2>1. \A i \in 0..n : f[i] = Tour(f, i)
      <3>1. \A i \in 0..n : i # 0 => i \in 1..n
        BY <1>1
      <3>. HIDE DEF n
      <3>. QED
        BY <1>4, <3>1
    <2>. HIDE DEF Tour
    <2>. QED
      BY <1>4, <2>1
  <1>6. F = [i \in 0..n |-> Tour(F, i)]
    <2>. HIDE DEF Tour
    <2>. QED
      BY <1>5
  <1>7. Modulo97(v) = F[Len(v)]
    BY DEF Modulo97, Pas, Poids
  <1>. HIDE DEF F
  <1>8. F[0] = 0 /\ \A i \in 1..n : F[i] = Pas(F[i - 1], v[i])
    <2>1. 0 \in 0..n /\ \A i \in 1..n : i \in 0..n /\ i # 0
      BY <1>1
    <2>2. \A i \in 0..n : F[i] = Tour(F, i)
      BY <1>6
    <2>. HIDE DEF n
    <2>. QED
      BY <2>1, <2>2
  <1>9. \A i \in 0..n : F[i] \in Residus
    <2>. DEFINE T == {m \in 0..n : F[m] \notin Residus}
    <2>1. ASSUME NEW m \in T, \A y \in T : m <= y PROVE FALSE
      <3>1. m # 0
        BY <1>8, ResidusNaturels
      <3>2. m \in 1..n /\ m - 1 \in 0..n /\ ~ (m <= m - 1)
        BY <1>1, <3>1
      <3>3. F[m - 1] \in Nat
        <4>1. F[m - 1] \in Residus
          BY <2>1, <3>2
        <4>. QED
          BY <4>1, ResidusNaturels
      <3>4. Pas(F[m - 1], v[m]) \in Residus
        <4>1. v[m] \in Signes
          BY <1>1, <3>2
        <4>. QED
          BY <3>3, <4>1, PasResidu
      <3>. HIDE DEF n
      <3>. QED
        BY <1>8, <3>2, <3>4
    <2>2. T = {}
      <3>1. T \in SUBSET Nat
        BY <1>1
      <3>. HIDE DEF T
      <3>. QED
        BY <2>1, <3>1, NatMinimal
    <2>. QED
      BY <2>2
  <1>10. F \in [0..n -> Residus]
    <2>1. F = [i \in 0..n |-> F[i]]
      <3>. HIDE DEF Tour
      <3>. QED
        BY <1>6
    <2>. HIDE DEF n
    <2>. QED
      BY <1>9, <2>1
  <1>. QED
    BY <1>7, <1>8, <1>10 DEF Restes

\* Where two values have the same characters, their remainders stay equal or different.
MemeEgalite(L, M, i, j) == L[i] = M[i] <=> L[j] = M[j]

LEMMA RestesEgaux ==
  ASSUME NEW v \in Seq(Signes), NEW w \in Seq(Signes), Len(v) = Len(w),
         NEW L, Restes(L, v), NEW M, Restes(M, w),
         NEW i \in 0..Len(v), NEW j \in 0..Len(v), i <= j, Egaux(v, w, i, j)
  PROVE  MemeEgalite(L, M, i, j)
  <1>. DEFINE n == Len(v)
              T == {m \in 0..n : i <= m /\ m <= j /\ ~MemeEgalite(L, M, i, m)}
  <1>1. /\ n \in Nat /\ \A k \in 0..n : L[k] \in Residus /\ M[k] \in Residus
        /\ \A k \in 1..n : L[k] = Pas(L[k - 1], v[k])
        /\ \A k \in 1..n : M[k] = Pas(M[k - 1], w[k])
    <2>1. /\ L \in [0..n -> Residus] /\ M \in [0..n -> Residus]
          /\ \A k \in 1..n : L[k] = Pas(L[k - 1], v[k])
          /\ \A k \in 1..n : M[k] = Pas(M[k - 1], w[k])
      BY DEF Restes
    <2>2. n \in Nat
      OBVIOUS
    <2>. HIDE DEF n
    <2>. QED
      BY <2>1, <2>2
  <1>2. ASSUME NEW m \in T, \A y \in T : m <= y PROVE FALSE
    <2>1. m # i
      BY DEF MemeEgalite
    <2>2. m \in (i + 1)..j /\ m - 1 \in 0..n /\ i <= m - 1 /\ m - 1 <= j /\ ~ (m <= m - 1)
      BY <2>1
    <2>3. MemeEgalite(L, M, i, m - 1)
      BY <1>2, <2>2
    <2>4. m \in 1..n /\ w[m] = v[m] /\ v[m] \in Signes
      <3>1. m \in 1..n
        BY <2>2
      <3>2. v[m] = w[m]
        BY <2>2 DEF Egaux
      <3>3. v[m] \in Signes
        BY <3>1
      <3>. QED
        BY <3>1, <3>2, <3>3
    <2>5. L[m - 1] = M[m - 1] <=> L[m] = M[m]
      <3>1. L[m] = Pas(L[m - 1], v[m]) /\ M[m] = Pas(M[m - 1], v[m])
        BY <1>1, <2>4
      <3>2. L[m - 1] \in Residus /\ M[m - 1] \in Residus
        BY <1>1, <2>2
      <3>. QED
        BY <2>4, <3>1, <3>2, PasInjectif DEF Signes, Residus
    <2>6. ~MemeEgalite(L, M, i, m)
      OBVIOUS
    <2>. QED
      BY <2>3, <2>5, <2>6 DEF MemeEgalite
  <1>3. T = {}
    <2>1. T \in SUBSET Nat
      BY <1>1
    <2>. HIDE DEF T
    <2>. QED
      BY <1>2, <2>1, NatMinimal
  <1>. QED
    BY <1>3

\* The remainder differs when one character is read as another of its kind.
LEMMA ModuloUnSigne ==
  ASSUME NEW v \in Seq(Signes), NEW w \in Seq(Signes), Len(v) = Len(w),
         NEW i \in 1..Len(v), w[i] # v[i], v[i] \in Majuscules <=> w[i] \in Majuscules,
         \A k \in 1..Len(v) : k # i => w[k] = v[k]
  PROVE  Modulo97(v) # Modulo97(w)
  <1>. DEFINE n == Len(v)
              h == i - 1
  <1>1. PICK L : Restes(L, v) /\ Modulo97(v) = L[n]
    BY Modulo97Restes
  <1>2. PICK M : Restes(M, w) /\ Modulo97(w) = M[n]
    BY Modulo97Restes
  <1>3. /\ n \in Nat /\ 0 \in 0..n /\ h \in 0..n /\ i \in 0..n /\ n \in 0..n /\ 0 <= h /\ i <= n
        /\ v[i] \in Signes /\ w[i] \in Signes
    OBVIOUS
  <1>4. /\ L[0] = 0 /\ M[0] = 0 /\ L \in [0..n -> Residus]
        /\ L[i] = Pas(L[h], v[i]) /\ M[i] = Pas(M[h], w[i])
    BY <1>1, <1>2 DEF Restes
  <1>5. Egaux(v, w, 0, h) /\ Egaux(v, w, i, n)
    BY DEF Egaux
  <1>. HIDE DEF h
  <1>6. MemeEgalite(L, M, 0, h)
    BY <1>1, <1>2, <1>3, <1>5, RestesEgaux
  <1>7. MemeEgalite(L, M, i, n)
    BY <1>1, <1>2, <1>3, <1>5, RestesEgaux
  <1>8. L[h] = M[h] /\ L[h] \in Residus
    <2>. HIDE DEF n
    <2>. QED
      BY <1>3, <1>4, <1>6 DEF MemeEgalite
  <1>9. Pas(L[h], v[i]) # Pas(L[h], w[i])
    <2>. DEFINE x == L[h]
                a == v[i]
                b == w[i]
    <2>1. x \in Residus /\ a \in Signes /\ b \in Signes /\ a # b
          /\ (a \in Majuscules <=> b \in Majuscules)
      BY <1>3, <1>8
    <2>. HIDE DEF x, a, b
    <2>2. Pas(x, a) # Pas(x, b)
      BY <2>1, PasSigne DEF Residus, Signes
    <2>. QED
      BY <2>2 DEF x, a, b
  <1>. HIDE DEF n
  <1>. QED
    BY <1>1, <1>2, <1>4, <1>7, <1>8, <1>9 DEF MemeEgalite

\* It differs when two neighbouring digits are exchanged.
LEMMA ModuloEchange ==
  ASSUME NEW v \in Seq(Signes), NEW w \in Seq(Signes), Len(v) = Len(w),
         NEW i \in 1..(Len(v) - 1), v[i] \in Chiffres, v[i + 1] \in Chiffres, v[i] # v[i + 1],
         w[i] = v[i + 1], w[i + 1] = v[i],
         \A k \in 1..Len(v) : k \notin {i, i + 1} => w[k] = v[k]
  PROVE  Modulo97(v) # Modulo97(w)
  <1>. DEFINE n == Len(v)
              h == i - 1
              o == i + 1
  <1>1. PICK L : Restes(L, v) /\ Modulo97(v) = L[n]
    BY Modulo97Restes
  <1>2. PICK M : Restes(M, w) /\ Modulo97(w) = M[n]
    BY Modulo97Restes
  <1>3. /\ n \in Nat /\ 0 \in 0..n /\ h \in 0..n /\ i \in 1..n /\ o \in 1..n /\ o \in 0..n
        /\ n \in 0..n /\ 0 <= h /\ o <= n /\ o - 1 = i
    OBVIOUS
  <1>4. /\ L[0] = 0 /\ M[0] = 0 /\ L \in [0..n -> Residus]
        /\ L[i] = Pas(L[h], v[i]) /\ M[i] = Pas(M[h], w[i])
        /\ L[o] = Pas(L[i], v[o]) /\ M[o] = Pas(M[i], w[o])
    <2>1. /\ L[0] = 0 /\ M[0] = 0 /\ L \in [0..n -> Residus]
          /\ \A k \in 1..n : L[k] = Pas(L[k - 1], v[k])
          /\ \A k \in 1..n : M[k] = Pas(M[k - 1], w[k])
      BY <1>1, <1>2 DEF Restes
    <2>2. L[o] = Pas(L[o - 1], v[o]) /\ M[o] = Pas(M[o - 1], w[o])
      BY <1>3, <2>1
    <2>. HIDE DEF o, n
    <2>. QED
      BY <1>3, <2>1, <2>2
  <1>5. Egaux(v, w, 0, h) /\ Egaux(v, w, o, n)
    BY DEF Egaux
  <1>a. v[o] \in Chiffres /\ v[i] \in Chiffres /\ w[o] = v[i] /\ w[i] = v[o] /\ v[i] # v[o]
    OBVIOUS
  <1>. HIDE DEF h, o
  <1>6. MemeEgalite(L, M, 0, h)
    BY <1>1, <1>2, <1>3, <1>5, RestesEgaux
  <1>7. MemeEgalite(L, M, o, n)
    BY <1>1, <1>2, <1>3, <1>5, RestesEgaux
  <1>8. L[h] = M[h] /\ L[h] \in Residus
    <2>. HIDE DEF n
    <2>. QED
      BY <1>3, <1>4, <1>6 DEF MemeEgalite
  <1>9. L[o] # M[o]
    <2>. DEFINE x == L[h]
                a == v[i]
                b == v[o]
    <2>1. x \in Residus /\ a \in Chiffres /\ b \in Chiffres /\ a # b
          /\ L[o] = Pas(Pas(x, a), b) /\ M[o] = Pas(Pas(x, b), a)
      BY <1>4, <1>8, <1>a
    <2>. HIDE DEF x, a, b
    <2>2. Pas(Pas(x, a), b) # Pas(Pas(x, b), a)
      BY <2>1, PasEchange DEF Residus, Chiffres
    <2>. QED
      BY <2>1, <2>2
  <1>. HIDE DEF n
  <1>. QED
    BY <1>1, <1>2, <1>7, <1>9 DEF MemeEgalite

\* Congruences by 97.
Congru(x, y) == (x - y) % 97 = 0

LEMMA CongruQuotient ==
  ASSUME NEW x \in Int, NEW y \in Int
  PROVE  Congru(x, y) <=> \E s \in Int : x - y = 97 * s
  <1>. DEFINE z == x - y
  <1>1. z \in Int
    OBVIOUS
  <1>. HIDE DEF z
  <1>2. ASSUME z % 97 = 0 PROVE \E s \in Int : z = 97 * s
    <2>1. z = 97 * (z \div 97) /\ z \div 97 \in Int
      BY <1>1, <1>2
    <2>. QED
      BY <2>1
  <1>3. ASSUME NEW s \in Int, z = 97 * s PROVE z % 97 = 0
    BY <1>1, <1>3
  <1>. QED
    BY <1>2, <1>3 DEF Congru, z

LEMMA CongruSuit ==
  ASSUME NEW x \in Int, NEW y \in Int, NEW z \in Int, Congru(x, y), Congru(y, z)
  PROVE  Congru(x, z)
  <1>1. PICK s \in Int : x - y = 97 * s
    BY CongruQuotient
  <1>2. PICK t \in Int : y - z = 97 * t
    BY CongruQuotient
  <1>. DEFINE u == s + t
  <1>3. x - z = 97 * u /\ u \in Int
    BY <1>1, <1>2
  <1>. HIDE DEF u
  <1>. QED
    BY <1>3, CongruQuotient

\* One more factor 10 on both sides.
LEMMA CongruDix ==
  ASSUME NEW x \in Int, NEW d \in Int, NEW q \in Nat, Congru(x, d * q)
  PROVE  Congru(10 * x, d * ((10 * q) % 97))
  <1>. DEFINE r == (10 * q) % 97
  <1>1. PICK s \in Int : x - d * q = 97 * s
    BY CongruQuotient
  <1>2. r \in Nat /\ \E t \in Int : 10 * q - r = 97 * t
    <2>1. 10 * q - r = 97 * ((10 * q) \div 97) /\ (10 * q) \div 97 \in Int
      OBVIOUS
    <2>. QED
      BY <2>1
  <1>. HIDE DEF r
  <1>3. PICK t \in Int : 10 * q - r = 97 * t
    BY <1>2
  <1>4. 10 * x - d * r = 97 * (10 * s + d * t)
    <2>1. r = 10 * q - 97 * t
      BY <1>2, <1>3
    <2>2. d * r = 10 * (d * q) - 97 * (d * t)
      BY <2>1
    <2>3. d * q \in Int /\ d * t \in Int /\ d * r \in Int
      BY <1>2
    <2>. QED
      BY <1>1, <2>2, <2>3
  <1>5. 10 * s + d * t \in Int /\ 10 * x \in Int /\ d * r \in Int
    BY <1>2
  <1>6. Congru(10 * x, d * r)
    BY <1>4, <1>5, CongruQuotient
  <1>. QED
    BY <1>6 DEF r

\* What a step does to the distance of two remainders.
LEMMA CongruPas ==
  ASSUME NEW x \in Residus, NEW y \in Residus, NEW a \in Signes
  PROVE  Congru(Pas(y, a) - Pas(x, a), Poids(a) * (y - x))
  <1>. DEFINE u == Pas(y, a)
              v == Pas(x, a)
              z == Poids(a) * (y - x)
  <1>1. CASE Poids(a) = 10
    <2>. DEFINE f == (y * 10 + a) % 97
                g == (x * 10 + a) % 97
                h == 10 * (y - x)
    <2>1. ((f - g) - h) % 97 = 0
      BY DEF Residus, Signes
    <2>2. u = f /\ v = g
      BY <1>1 DEF Pas
    <2>3. z = h
      BY <1>1
    <2>. HIDE DEF u, v, z, f, g, h
    <2>4. ((u - v) - z) % 97 = 0
      BY <2>1, <2>2, <2>3
    <2>. QED
      BY <2>4 DEF Congru, u, v, z
  <1>2. CASE Poids(a) = 100
    <2>. DEFINE f == (y * 100 + a) % 97
                g == (x * 100 + a) % 97
                h == 100 * (y - x)
    <2>1. ((f - g) - h) % 97 = 0
      BY DEF Residus, Signes
    <2>2. u = f /\ v = g
      BY <1>2 DEF Pas
    <2>3. z = h
      BY <1>2
    <2>. HIDE DEF u, v, z, f, g, h
    <2>4. ((u - v) - z) % 97 = 0
      BY <2>1, <2>2, <2>3
    <2>. QED
      BY <2>4 DEF Congru, u, v, z
  <1>. QED
    BY <1>1, <1>2 DEF Poids

\* 97 is prime.
LEMMA PasMultiple ==
  ASSUME NEW d \in (-9)..9, d # 0, NEW y \in (-96)..96, y # 0
  PROVE  (d * y) % 97 # 0
  <1>1. \A e \in 1..9 : (e * y) % 97 # 0 /\ ((-e) * y) % 97 # 0
    <2>1. (1 * y) % 97 # 0 /\ (2 * y) % 97 # 0 /\ (3 * y) % 97 # 0
      OBVIOUS
    <2>2. (4 * y) % 97 # 0 /\ (5 * y) % 97 # 0 /\ (6 * y) % 97 # 0
      OBVIOUS
    <2>3. (7 * y) % 97 # 0 /\ (8 * y) % 97 # 0 /\ (9 * y) % 97 # 0
      OBVIOUS
    <2>4. ((-1) * y) % 97 # 0 /\ ((-2) * y) % 97 # 0 /\ ((-3) * y) % 97 # 0
      OBVIOUS
    <2>5. ((-4) * y) % 97 # 0 /\ ((-5) * y) % 97 # 0 /\ ((-6) * y) % 97 # 0
      OBVIOUS
    <2>6. ((-7) * y) % 97 # 0 /\ ((-8) * y) % 97 # 0 /\ ((-9) * y) % 97 # 0
      OBVIOUS
    <2>7. \A e \in 1..9 : e \in {1, 2, 3, 4, 5, 6, 7, 8, 9}
      OBVIOUS
    <2>. QED
      BY <2>1, <2>2, <2>3, <2>4, <2>5, <2>6, <2>7
  <1>2. \E e \in 1..9 : d = e \/ d = -e
    <2>1. d \in 1..9 \/ -d \in 1..9
      OBVIOUS
    <2>2. d = -(-d)
      OBVIOUS
    <2>. QED
      BY <2>1, <2>2
  <1>. QED
    BY <1>1, <1>2

\* The powers of 10 by 97: none from the first to the 65th is 1.
Dizaines(p) ==
  p \in [0..66 -> Nat] /\ p[0] = 1 /\ \A e \in 1..66 : p[e] = (10 * p[e - 1]) % 97

LEMMA DizainesExistent == \E p : Dizaines(p)
  <1>. DEFINE G == [x \in Nat \X (1..66) |-> (10 * x[1]) % 97]
  <1>1. G \in [Nat \X (1..66) -> Nat]
    <2>1. ASSUME NEW x \in Nat \X (1..66) PROVE (10 * x[1]) % 97 \in Nat
      <3>1. x[1] \in Nat
        OBVIOUS
      <3>. QED
        BY <3>1
    <2>. QED
      BY <2>1
  <1>2. PICK p : Recurrence(p, 66, 1, G)
    <2>. HIDE DEF G
    <2>. QED
      BY <1>1, RecurrenceExiste
  <1>3. /\ p \in [0..66 -> Nat] /\ p[0] = 1
        /\ \A e \in 1..66 : p[e] = G[<<p[e - 1], e>>]
    <2>. HIDE DEF G
    <2>. QED
      BY <1>2 DEF Recurrence
  <1>4. \A e \in 1..66 : <<p[e - 1], e>> \in Nat \X (1..66)
    <2>1. \A e \in 1..66 : e - 1 \in 0..66
      OBVIOUS
    <2>. QED
      BY <1>3, <2>1
  <1>5. \A e \in 1..66 : p[e] = (10 * p[e - 1]) % 97
    BY <1>3, <1>4
  <1>. QED
    BY <1>3, <1>5 DEF Dizaines

LEMMA PasDeRetour ==
  ASSUME NEW p, Dizaines(p), NEW e \in 1..65
  PROVE  p[e] # 1 /\ p[e] \in 0..96
  <1>. DEFINE Suivante(k) == p[k] = (10 * p[k - 1]) % 97
  <1>1. p[0] = 1 /\ \A k \in 1..65 : Suivante(k)
    BY DEF Dizaines
  <1>2. p[1] = 10 /\ p[2] = 3 /\ p[3] = 30 /\ p[4] = 9 /\ p[5] = 90
    <2>1. Suivante(1) /\ Suivante(2) /\ Suivante(3) /\ Suivante(4) /\ Suivante(5)
      BY <1>1
    <2>. QED
      BY <1>1, <2>1
  <1>3. p[6] = 27 /\ p[7] = 76 /\ p[8] = 81 /\ p[9] = 34 /\ p[10] = 49
    <2>1. Suivante(6) /\ Suivante(7) /\ Suivante(8) /\ Suivante(9) /\ Suivante(10)
      BY <1>1
    <2>. QED
      BY <1>2, <2>1
  <1>4. p[11] = 5 /\ p[12] = 50 /\ p[13] = 15 /\ p[14] = 53 /\ p[15] = 45
    <2>1. Suivante(11) /\ Suivante(12) /\ Suivante(13) /\ Suivante(14) /\ Suivante(15)
      BY <1>1
    <2>. QED
      BY <1>3, <2>1
  <1>5. p[16] = 62 /\ p[17] = 38 /\ p[18] = 89 /\ p[19] = 17 /\ p[20] = 73
    <2>1. Suivante(16) /\ Suivante(17) /\ Suivante(18) /\ Suivante(19) /\ Suivante(20)
      BY <1>1
    <2>. QED
      BY <1>4, <2>1
  <1>6. p[21] = 51 /\ p[22] = 25 /\ p[23] = 56 /\ p[24] = 75 /\ p[25] = 71
    <2>1. Suivante(21) /\ Suivante(22) /\ Suivante(23) /\ Suivante(24) /\ Suivante(25)
      BY <1>1
    <2>. QED
      BY <1>5, <2>1
  <1>7. p[26] = 31 /\ p[27] = 19 /\ p[28] = 93 /\ p[29] = 57 /\ p[30] = 85
    <2>1. Suivante(26) /\ Suivante(27) /\ Suivante(28) /\ Suivante(29) /\ Suivante(30)
      BY <1>1
    <2>. QED
      BY <1>6, <2>1
  <1>8. p[31] = 74 /\ p[32] = 61 /\ p[33] = 28 /\ p[34] = 86 /\ p[35] = 84
    <2>1. Suivante(31) /\ Suivante(32) /\ Suivante(33) /\ Suivante(34) /\ Suivante(35)
      BY <1>1
    <2>. QED
      BY <1>7, <2>1
  <1>9. p[36] = 64 /\ p[37] = 58 /\ p[38] = 95 /\ p[39] = 77 /\ p[40] = 91
    <2>1. Suivante(36) /\ Suivante(37) /\ Suivante(38) /\ Suivante(39) /\ Suivante(40)
      BY <1>1
    <2>. QED
      BY <1>8, <2>1
  <1>10. p[41] = 37 /\ p[42] = 79 /\ p[43] = 14 /\ p[44] = 43 /\ p[45] = 42
    <2>1. Suivante(41) /\ Suivante(42) /\ Suivante(43) /\ Suivante(44) /\ Suivante(45)
      BY <1>1
    <2>. QED
      BY <1>9, <2>1
  <1>11. p[46] = 32 /\ p[47] = 29 /\ p[48] = 96 /\ p[49] = 87 /\ p[50] = 94
    <2>1. Suivante(46) /\ Suivante(47) /\ Suivante(48) /\ Suivante(49) /\ Suivante(50)
      BY <1>1
    <2>. QED
      BY <1>10, <2>1
  <1>12. p[51] = 67 /\ p[52] = 88 /\ p[53] = 7 /\ p[54] = 70 /\ p[55] = 21
    <2>1. Suivante(51) /\ Suivante(52) /\ Suivante(53) /\ Suivante(54) /\ Suivante(55)
      BY <1>1
    <2>. QED
      BY <1>11, <2>1
  <1>13. p[56] = 16 /\ p[57] = 63 /\ p[58] = 48 /\ p[59] = 92 /\ p[60] = 47
    <2>1. Suivante(56) /\ Suivante(57) /\ Suivante(58) /\ Suivante(59) /\ Suivante(60)
      BY <1>1
    <2>. QED
      BY <1>12, <2>1
  <1>14. p[61] = 82 /\ p[62] = 44 /\ p[63] = 52 /\ p[64] = 35 /\ p[65] = 59
    <2>1. Suivante(61) /\ Suivante(62) /\ Suivante(63) /\ Suivante(64) /\ Suivante(65)
      BY <1>1
    <2>. QED
      BY <1>13, <2>1
  <1>15. \A k \in 1..65 : k \in {1, 2, 3, 4, 5, 6, 7, 8, 9, 10, 11, 12, 13, 14, 15, 16, 17, 18, 19, 20, 21, 22, 23, 24, 25, 26, 27, 28, 29, 30, 31, 32, 33, 34, 35, 36, 37, 38, 39, 40, 41, 42, 43, 44, 45, 46, 47, 48, 49, 50, 51, 52, 53, 54, 55, 56, 57, 58, 59, 60, 61, 62, 63, 64, 65}
    OBVIOUS
  <1>. QED
    BY <1>2, <1>3, <1>4, <1>5, <1>6, <1>7, <1>8, <1>9, <1>10, <1>11, <1>12, <1>13, <1>14, <1>15

\* The distance of two remainders is that of the first digits, times a power of 10.
Distance(x, y, d, p, e) == Congru(y - x, d * p[e])

LEMMA DistanceSuit ==
  ASSUME NEW x \in Residus, NEW y \in Residus, NEW a \in Signes, NEW d \in Int,
         NEW p, Dizaines(p), NEW e \in 0..64, Distance(x, y, d, p, e)
  PROVE  \/ Distance(Pas(x, a), Pas(y, a), d, p, e + 1)
         \/ Distance(Pas(x, a), Pas(y, a), d, p, e + 2)
  <1>. DEFINE u == Pas(y, a) - Pas(x, a)
              z == y - x
              q == p[e]
              r == p[e + 1]
              t == p[e + 2]
  <1>1. /\ q \in Nat /\ r \in Nat /\ t \in Nat /\ r = (10 * q) % 97 /\ t = (10 * r) % 97
    <2>1. /\ p \in [0..66 -> Nat] /\ \A k \in 1..66 : p[k] = (10 * p[k - 1]) % 97
      BY DEF Dizaines
    <2>2. e \in 0..66 /\ e + 1 \in 1..66 /\ e + 2 \in 1..66 /\ (e + 1) - 1 = e /\ (e + 2) - 1 = e + 1
      OBVIOUS
    <2>3. p[e + 1] = (10 * p[(e + 1) - 1]) % 97 /\ p[e + 2] = (10 * p[(e + 2) - 1]) % 97
      BY <2>1, <2>2
    <2>4. q \in Nat /\ r \in Nat /\ t \in Nat
      BY <2>1, <2>2
    <2>. QED
      BY <2>2, <2>3, <2>4
  <1>2. z \in Int /\ u \in Int
    <2>1. x \in Nat /\ y \in Nat
      BY ResidusNaturels
    <2>2. Pas(y, a) \in Residus /\ Pas(x, a) \in Residus
      BY <2>1, PasResidu
    <2>3. Pas(y, a) \in Nat /\ Pas(x, a) \in Nat
      BY <2>2, ResidusNaturels
    <2>. QED
      BY <2>1, <2>3
  <1>3. Congru(z, d * q)
    BY DEF Distance
  <1>4. Congru(u, Poids(a) * z)
    BY CongruPas
  <1>5. Congru(10 * z, d * r)
    <2>. HIDE DEF z, q, r
    <2>1. Congru(10 * z, d * ((10 * q) % 97))
      BY <1>1, <1>2, <1>3, CongruDix
    <2>. QED
      BY <1>1, <2>1
  <1>6. Congru(10 * (10 * z), d * t)
    <2>. DEFINE z10 == 10 * z
    <2>1. z10 \in Int /\ Congru(z10, d * r)
      BY <1>2, <1>5
    <2>. HIDE DEF z10, z, q, r, t
    <2>2. Congru(10 * z10, d * ((10 * r) % 97))
      BY <1>1, <2>1, CongruDix
    <2>. QED
      BY <1>1, <2>2 DEF z10
  <1>7. CASE Poids(a) = 10
    <2>. DEFINE m == 10 * z
                c == d * r
    <2>1. m \in Int /\ c \in Int /\ Congru(m, c)
      BY <1>1, <1>2, <1>5
    <2>2. Congru(u, m)
      BY <1>4, <1>7
    <2>. HIDE DEF u, m, c
    <2>3. Congru(u, c)
      BY <1>2, <2>1, <2>2, CongruSuit
    <2>. QED
      BY <2>3 DEF Distance, u, c
  <1>8. CASE Poids(a) = 100
    <2>. DEFINE m == 10 * (10 * z)
                c == d * t
    <2>1. m \in Int /\ c \in Int /\ Congru(m, c) /\ 100 * z = m
      <3>. HIDE DEF z, t
      <3>. QED
        BY <1>1, <1>2, <1>6
    <2>2. Congru(u, m)
      <3>1. Poids(a) * z = 100 * z
        BY <1>8
      <3>. HIDE DEF u, m, z
      <3>. QED
        BY <1>4, <2>1, <3>1
    <2>. HIDE DEF u, m, c
    <2>3. Congru(u, c)
      BY <1>2, <2>1, <2>2, CongruSuit
    <2>. QED
      BY <2>3 DEF Distance, u, c
  <1>. QED
    BY <1>7, <1>8 DEF Poids

LEMMA PremierPas ==
  ASSUME NEW a \in Chiffres
  PROVE  Poids(a) = 10 /\ Pas(0, a) = a
  <1>1. a \in 0..9 /\ Poids(a) = 10
    BY DEF Poids, Chiffres, Majuscules
  <1>. QED
    BY <1>1 DEF Pas

\* The last character, exchanged with the first, does not make up for it.
LEMMA DistanceFinale ==
  ASSUME NEW x \in Residus, NEW y \in Residus, NEW a \in Chiffres, NEW b \in Chiffres, a # b,
         NEW d, d = b - a, NEW p, Dizaines(p), NEW e \in 0..64, Distance(x, y, d, p, e)
  PROVE  Pas(x, b) # Pas(y, a)
  <1>. DEFINE z == y - x
              q == p[e]
              r == p[e + 1]
  <1>1. /\ d \in (-9)..9 /\ d # 0 /\ d \in Int /\ z \in Int
    BY DEF Chiffres, Residus
  <1>2. q \in Nat /\ r = (10 * q) % 97
    <2>1. /\ p \in [0..66 -> Nat] /\ \A k \in 1..66 : p[k] = (10 * p[k - 1]) % 97
      BY DEF Dizaines
    <2>2. e \in 0..66 /\ e + 1 \in 1..66 /\ (e + 1) - 1 = e
      OBVIOUS
    <2>3. p[e + 1] = (10 * p[(e + 1) - 1]) % 97
      BY <2>1, <2>2
    <2>4. q \in Nat
      BY <2>1, <2>2
    <2>. QED
      BY <2>2, <2>3, <2>4
  <1>3. r # 1 /\ r \in 0..96
    <2>. DEFINE f == e + 1
    <2>1. f \in 1..65
      OBVIOUS
    <2>. HIDE DEF f
    <2>2. p[f] # 1 /\ p[f] \in 0..96
      BY <2>1, PasDeRetour
    <2>. QED
      BY <2>2 DEF f
  <1>4. Congru(10 * z, d * r)
    <2>1. Congru(z, d * q)
      BY DEF Distance
    <2>. HIDE DEF z, q, r
    <2>2. Congru(10 * z, d * ((10 * q) % 97))
      BY <1>1, <1>2, <2>1, CongruDix
    <2>. QED
      BY <1>2, <2>2
  <1>5. SUFFICES ASSUME Pas(x, b) = Pas(y, a) PROVE FALSE
    OBVIOUS
  <1>6. (x * 10 + b) % 97 = (y * 10 + a) % 97
    <2>1. Poids(a) = 10 /\ Poids(b) = 10
      BY DEF Poids, Chiffres, Majuscules
    <2>. QED
      BY <1>5, <2>1 DEF Pas
  <1>7. Congru(d, 10 * z)
    <2>. DEFINE f == x * 10 + b
                g == y * 10 + a
    <2>1. f \in Nat /\ g \in Nat /\ d - 10 * z = f - g
      BY DEF Chiffres, Residus
    <2>2. f % 97 = g % 97
      BY <1>6
    <2>. HIDE DEF f, g, z
    <2>3. (f - g) % 97 = 0
      BY <2>1, <2>2
    <2>. QED
      BY <2>1, <2>3 DEF Congru
  <1>8. Congru(d, d * r)
    <2>. DEFINE m == 10 * z
                c == d * r
    <2>1. m \in Int /\ c \in Int
      BY <1>1, <1>3
    <2>. HIDE DEF m, c
    <2>. QED
      BY <1>1, <1>4, <1>7, <2>1, CongruSuit DEF m, c
  <1>9. (d * (1 - r)) % 97 = 0
    <2>. HIDE DEF r
    <2>1. d - d * r = d * (1 - r)
      BY <1>1, <1>3
    <2>. QED
      BY <1>8, <2>1 DEF Congru
  <1>. DEFINE k == 1 - r
  <1>10. k \in (-96)..96 /\ k # 0
    <2>. HIDE DEF r
    <2>. QED
      BY <1>3
  <1>. HIDE DEF k
  <1>11. (d * k) % 97 # 0
    BY <1>1, <1>10, PasMultiple
  <1>. QED
    BY <1>9, <1>11 DEF k

Finale(x, y, a, b, d, p, e) ==
  /\ x \in Residus /\ y \in Residus /\ a \in Chiffres /\ b \in Chiffres /\ a # b /\ d = b - a
  /\ Dizaines(p) /\ e \in 0..64 /\ Distance(x, y, d, p, e)

LEMMA FinaleDistincte ==
  ASSUME NEW x, NEW y, NEW a, NEW b, NEW d, NEW p, NEW e, Finale(x, y, a, b, d, p, e)
  PROVE  Pas(x, b) # Pas(y, a)
  BY DistanceFinale DEF Finale

\* The remainder differs when the last check digit is exchanged with the digit after it.
LEMMA ModuloBouts ==
  ASSUME NEW v \in Seq(Signes), NEW w \in Seq(Signes), Len(v) = Len(w), Len(v) \in 2..34,
         v[1] \in Chiffres, v[Len(v)] \in Chiffres, v[1] # v[Len(v)],
         w[1] = v[Len(v)], w[Len(v)] = v[1],
         \A k \in 1..Len(v) : k \notin {1, Len(v)} => w[k] = v[k]
  PROVE  Modulo97(v) # Modulo97(w)
  <1>. DEFINE n == Len(v)
              a == v[1]
              b == v[n]
              d == b - a
  <1>1. PICK L : Restes(L, v) /\ Modulo97(v) = L[n]
    BY Modulo97Restes
  <1>2. PICK M : Restes(M, w) /\ Modulo97(w) = M[n]
    BY Modulo97Restes
  <1>3. PICK p : Dizaines(p)
    BY DizainesExistent
  <1>4. /\ n \in 2..34 /\ a \in Chiffres /\ b \in Chiffres /\ a # b
        /\ \A k \in 1..n : v[k] \in Signes
        /\ w[1] = b /\ w[n] = a /\ \A k \in 2..(n - 1) : w[k] = v[k]
    <2>1. n \in 2..34 /\ a \in Chiffres /\ b \in Chiffres /\ a # b /\ w[1] = b /\ w[n] = a
      OBVIOUS
    <2>2. \A k \in 1..n : v[k] \in Signes
      OBVIOUS
    <2>3. \A k \in 2..(n - 1) : w[k] = v[k]
      <3>1. \A k \in 2..(n - 1) : k \in 1..n /\ k \notin {1, n}
        BY <2>1
      <3>. QED
        BY <3>1
    <2>. QED
      BY <2>1, <2>2, <2>3
  <1>5. /\ L \in [0..n -> Residus] /\ M \in [0..n -> Residus] /\ L[0] = 0 /\ M[0] = 0
        /\ \A k \in 1..n : L[k] = Pas(L[k - 1], v[k])
        /\ \A k \in 1..n : M[k] = Pas(M[k - 1], w[k])
    BY <1>1, <1>2 DEF Restes
  <1>. HIDE DEF n, a, b
  <1>6. d \in Int
    BY <1>4 DEF Chiffres
  <1>. DEFINE Proche(k) == \E e \in 0..(2 * (k - 1)) : Distance(L[k], M[k], d, p, e)
              T == {k \in 1..(n - 1) : ~Proche(k)}
  <1>7. Proche(1)
    <2>1. L[1] = Pas(0, a) /\ M[1] = Pas(0, b)
      <3>1. 1 \in 1..n /\ 1 - 1 = 0
        BY <1>4
      <3>2. L[1] = Pas(L[1 - 1], v[1]) /\ M[1] = Pas(M[1 - 1], w[1])
        BY <1>5, <3>1
      <3>. QED
        BY <1>4, <1>5, <3>1, <3>2 DEF a
    <2>2. Pas(0, a) = a /\ Pas(0, b) = b
      BY <1>4, PremierPas
    <2>3. p[0] = 1
      BY <1>3 DEF Dizaines
    <2>4. Congru(d, d * 1)
      BY <1>6 DEF Congru
    <2>5. Distance(L[1], M[1], d, p, 0)
      BY <2>1, <2>2, <2>3, <2>4 DEF Distance
    <2>6. 0 \in 0..(2 * (1 - 1))
      OBVIOUS
    <2>. QED
      BY <2>5, <2>6
  <1>8. ASSUME NEW k \in T, \A y \in T : k <= y PROVE FALSE
    <2>1. k # 1
      BY <1>7
    <2>. DEFINE h == k - 1
    <2>2. k \in 2..(n - 1) /\ h \in 1..(n - 1) /\ ~ (k <= h) /\ k \in 1..n /\ h \in 0..n
      BY <1>4, <2>1
    <2>3. PICK e \in 0..(2 * (h - 1)) : Distance(L[h], M[h], d, p, e)
      BY <1>8, <2>2
    <2>4. e \in 0..64 /\ e + 1 \in 0..(2 * (k - 1)) /\ e + 2 \in 0..(2 * (k - 1))
      BY <1>4, <2>2
    <2>. HIDE DEF h, d
    <2>5. L[k] = Pas(L[h], v[k]) /\ M[k] = Pas(M[h], v[k]) /\ v[k] \in Signes
      BY <1>4, <1>5, <2>2 DEF h
    <2>6. L[h] \in Residus /\ M[h] \in Residus
      BY <1>5, <2>2
    <2>7. \/ Distance(Pas(L[h], v[k]), Pas(M[h], v[k]), d, p, e + 1)
          \/ Distance(Pas(L[h], v[k]), Pas(M[h], v[k]), d, p, e + 2)
      <3>. DEFINE x == L[h]
                  y == M[h]
                  c == v[k]
      <3>. HIDE DEF x, y, c
      <3>1. x \in Residus /\ y \in Residus /\ c \in Signes /\ Distance(x, y, d, p, e)
        BY <2>3, <2>5, <2>6 DEF x, y, c
      <3>2. \/ Distance(Pas(x, c), Pas(y, c), d, p, e + 1)
            \/ Distance(Pas(x, c), Pas(y, c), d, p, e + 2)
        BY <1>3, <1>6, <2>4, <3>1, DistanceSuit
      <3>. QED
        BY <3>2 DEF x, y, c
    <2>8. Distance(L[k], M[k], d, p, e + 1) \/ Distance(L[k], M[k], d, p, e + 2)
      BY <2>5, <2>7
    <2>9. ~Proche(k)
      OBVIOUS
    <2>. QED
      BY <2>4, <2>8, <2>9
  <1>9. T = {}
    <2>1. T \in SUBSET Nat
      BY <1>4
    <2>. HIDE DEF T
    <2>. QED
      BY <1>8, <2>1, NatMinimal
  <1>10. PICK e \in 0..(2 * ((n - 1) - 1)) : Distance(L[n - 1], M[n - 1], d, p, e)
    <2>1. n - 1 \in 1..(n - 1)
      BY <1>4
    <2>. QED
      BY <1>9, <2>1
  <1>11. L[n] = Pas(L[n - 1], b) /\ M[n] = Pas(M[n - 1], a)
    BY <1>4, <1>5 DEF b
  <1>12. Pas(L[n - 1], b) # Pas(M[n - 1], a)
    <2>. DEFINE x == L[n - 1]
                y == M[n - 1]
    <2>1. x \in Residus /\ y \in Residus /\ e \in 0..64
      BY <1>4, <1>5, <1>10
    <2>2. Distance(x, y, d, p, e) /\ d = b - a
      BY <1>10
    <2>. HIDE DEF x, y, d
    <2>3. Finale(x, y, a, b, d, p, e)
      BY <1>3, <1>4, <2>1, <2>2 DEF Finale
    <2>4. Pas(x, b) # Pas(y, a)
      BY <2>3, FinaleDistincte
    <2>. QED
      BY <2>4 DEF x, y
  <1>. QED
    BY <1>1, <1>2, <1>11, <1>12

\* iban_valide computes the remainder of the value once its four first characters are put
\* last: where the character at place k of what it computes stands in the value.
Origine(k, n) == IF k <= n - 4 THEN k + 4 ELSE k - (n - 4)

Tourne(t, w) ==
  /\ t \in Seq(Signes) /\ Len(t) = Len(w)
  /\ \A k \in 1..Len(w) : t[k] = w[Origine(k, Len(w))]

LEMMA Extrait ==
  ASSUME NEW s \in Seq(Signes), NEW a \in Nat, NEW b \in Nat, 1 <= a, a <= b, b <= Len(s)
  PROVE  /\ SubSeq(s, a, b) \in Seq(Signes) /\ Len(SubSeq(s, a, b)) = b - a + 1
         /\ \A k \in 1..(b - a + 1) : SubSeq(s, a, b)[k] = s[a + k - 1]
  OBVIOUS

LEMMA Debut ==
  ASSUME NEW s \in Seq(Signes), 4 <= Len(s)
  PROVE  /\ SubSeq(s, 1, 4) \in Seq(Signes) /\ Len(SubSeq(s, 1, 4)) = 4
         /\ \A k \in 1..4 : SubSeq(s, 1, 4)[k] = s[k]
  <1>1. SubSeq(s, 1, 4) \in Seq(Signes) /\ Len(SubSeq(s, 1, 4)) = 4
    OBVIOUS
  <1>2. ASSUME NEW k \in 1..4 PROVE SubSeq(s, 1, 4)[k] = s[k]
    <2>1. SubSeq(s, 1, 4)[k] = s[1 + k - 1]
      OBVIOUS
    <2>2. 1 + k - 1 = k
      OBVIOUS
    <2>. QED
      BY <2>1, <2>2
  <1>. QED
    BY <1>1, <1>2

LEMMA MisBout ==
  ASSUME NEW r \in Seq(Signes), NEW p \in Seq(Signes)
  PROVE  /\ r \o p \in Seq(Signes) /\ Len(r \o p) = Len(r) + Len(p)
         /\ \A k \in 1..(Len(r) + Len(p)) :
              (r \o p)[k] = IF k <= Len(r) THEN r[k] ELSE p[k - Len(r)]
  OBVIOUS

LEMMA Rotation ==
  ASSUME NEW w \in Seq(Signes), Len(w) \in 15..34
  PROVE  Tourne(Reste(w, 4) \o Prefixe(w, 4), w)
  <1>0. 4 <= Len(w)
    <2>1. \A m \in 15..34 : 4 <= m
      OBVIOUS
    <2>. QED
      BY <2>1
  <1>. DEFINE n == Len(w)
              r == SubSeq(w, 5, n)
              p == SubSeq(w, 1, 4)
              t == r \o p
  <1>1. r \in Seq(Signes) /\ Len(r) = n - 4 /\ \A k \in 1..(n - 4) : r[k] = w[k + 4]
    <2>1. n \in 15..34 /\ n - 5 + 1 = n - 4
      OBVIOUS
    <2>2. r \in Seq(Signes) /\ Len(r) = n - 5 + 1 /\ \A k \in 1..(n - 5 + 1) : r[k] = w[5 + k - 1]
      BY <2>1, Extrait
    <2>. HIDE DEF r
    <2>3. \A k \in 1..(n - 4) : r[k] = w[k + 4]
      <3>1. \A k \in 1..(n - 4) : 5 + k - 1 = k + 4
        BY <2>1
      <3>. QED
        BY <2>1, <2>2, <3>1
    <2>. QED
      BY <2>1, <2>2, <2>3
  <1>2. p \in Seq(Signes) /\ Len(p) = 4 /\ \A k \in 1..4 : p[k] = w[k]
    BY <1>0, Debut
  <1>3. n \in 15..34
    OBVIOUS
  <1>4. Reste(w, 4) \o Prefixe(w, 4) = t
    BY DEF Reste, Prefixe
  <1>. HIDE DEF r, p, n
  <1>5. t \in Seq(Signes) /\ Len(t) = n
    <2>1. t \in Seq(Signes) /\ Len(t) = Len(r) + Len(p)
      BY <1>1, <1>2, MisBout
    <2>. QED
      BY <1>1, <1>2, <1>3, <2>1
  <1>6. ASSUME NEW k \in 1..n PROVE t[k] = w[Origine(k, n)]
    <2>1. CASE k <= n - 4
      <3>1. k \in 1..(n - 4)
        BY <1>3, <2>1
      <3>2. t[k] = r[k]
        <4>1. k \in 1..(Len(r) + Len(p)) /\ k <= Len(r)
          BY <1>1, <1>2, <1>3, <3>1
        <4>. QED
          BY <1>1, <1>2, <4>1, MisBout
      <3>. QED
        BY <1>1, <2>1, <3>1, <3>2 DEF Origine
    <2>2. CASE ~(k <= n - 4)
      <3>. DEFINE h == k - (n - 4)
      <3>1. h \in 1..4
        BY <1>3, <2>2
      <3>2. t[k] = p[h]
        <4>1. k \in 1..(Len(r) + Len(p)) /\ ~(k <= Len(r)) /\ h = k - Len(r)
          BY <1>1, <1>2, <1>3, <2>2
        <4>. HIDE DEF h
        <4>2. t[k] = p[k - Len(r)]
          BY <1>1, <1>2, <4>1, MisBout
        <4>. QED
          BY <4>1, <4>2
      <3>3. p[h] = w[h]
        BY <1>2, <3>1
      <3>. QED
        BY <2>2, <3>2, <3>3 DEF Origine
    <2>. QED
      BY <2>1, <2>2
  <1>. QED
    BY <1>4, <1>5, <1>6 DEF Tourne, n

\* What an account number is made of.
LEMMA SignesIban ==
  ASSUME NEW v \in Seq(Int), iban_valide(v)
  PROVE  /\ v \in Seq(Signes) /\ Len(v) \in 15..34
         /\ \A i \in {1, 2} : v[i] \in Majuscules
         /\ \A i \in {3, 4} : v[i] \in Chiffres
         /\ Modulo97(Reste(v, 4) \o Prefixe(v, 4)) = 1
  <1>1. FormeIban(v) /\ Modulo97(Reste(v, 4) \o Prefixe(v, 4)) = 1
    BY DEF iban_valide
  <1>2. /\ Len(v) \in 15..34
        /\ \A i \in {1, 2} : v[i] \in Majuscules
        /\ \A i \in {3, 4} : v[i] \in Chiffres
        /\ \A i \in 5..Len(v) : v[i] \in Chiffres \union Majuscules
    BY <1>1 DEF FormeIban
  <1>3. Chiffres \subseteq Signes /\ Majuscules \subseteq Signes
    BY DEF Chiffres, Majuscules, Signes
  <1>4. ASSUME NEW i \in 1..Len(v) PROVE v[i] \in Signes
    <2>1. i \in {1, 2} \/ i \in {3, 4} \/ i \in 5..Len(v)
      BY <1>2
    <2>. QED
      BY <1>2, <1>3, <2>1
  <1>5. v \in Seq(Signes)
    BY <1>4
  <1>. QED
    BY <1>1, <1>2, <1>5

\* A value of another remainder is not an account number.
LEMMA AutreReste ==
  ASSUME NEW v, NEW w, iban_valide(v),
         Modulo97(Reste(v, 4) \o Prefixe(v, 4)) # Modulo97(Reste(w, 4) \o Prefixe(w, 4))
  PROVE  ~iban_valide(w)
  BY DEF iban_valide

Divergent(v, w, i, t, u, j) ==
  t[j] = v[i] /\ u[j] = w[i] /\ \A k \in 1..Len(v) : k # j => u[k] = t[k]

\* Two values that differ at one place are still so once turned.
LEMMA UnSigneTourne ==
  ASSUME NEW v \in Seq(Signes), NEW w \in Seq(Signes), Len(v) = Len(w), Len(v) \in 15..34,
         NEW i \in 1..Len(v), \A k \in 1..Len(v) : k # i => w[k] = v[k],
         NEW t, Tourne(t, v), NEW u, Tourne(u, w)
  PROVE  \E j \in 1..Len(v) : Divergent(v, w, i, t, u, j)
  <1>. DEFINE n == Len(v)
              j == IF i >= 5 THEN i - 4 ELSE n - 4 + i
  <1>1. n \in 15..34 /\ i \in 1..n
    OBVIOUS
  <1>2. /\ \A k \in 1..n : t[k] = v[Origine(k, n)]
        /\ \A k \in 1..n : u[k] = w[Origine(k, n)]
    BY DEF Tourne
  <1>3. \A k \in 1..n : k # i => w[k] = v[k]
    OBVIOUS
  <1>. HIDE DEF n
  <1>4. j \in 1..n /\ Origine(j, n) = i
    BY <1>1 DEF Origine
  <1>5. ASSUME NEW k \in 1..n, k # j PROVE Origine(k, n) \in 1..n /\ Origine(k, n) # i
    BY <1>1, <1>5 DEF Origine
  <1>. HIDE DEF j
  <1>6. \A k \in 1..n : k # j => u[k] = t[k]
    BY <1>2, <1>3, <1>5
  <1>7. t[j] = v[i] /\ u[j] = w[i]
    BY <1>2, <1>4
  <1>. QED
    BY <1>4, <1>6, <1>7 DEF n, Divergent

LEMMA IbanUnSigne ==
  ASSUME NEW v \in Seq(Int), iban_valide(v), NEW w \in Seq(Signes), Len(v) = Len(w),
         NEW i \in 1..Len(v), w[i] # v[i], v[i] \in Majuscules <=> w[i] \in Majuscules,
         \A k \in 1..Len(v) : k # i => w[k] = v[k]
  PROVE  ~iban_valide(w)
  <1>. DEFINE t == Reste(v, 4) \o Prefixe(v, 4)
              u == Reste(w, 4) \o Prefixe(w, 4)
  <1>1. v \in Seq(Signes) /\ Len(v) \in 15..34
    BY SignesIban
  <1>2. Tourne(t, v) /\ Tourne(u, w)
    BY <1>1, Rotation
  <1>. HIDE DEF t, u
  <1>3. PICK j \in 1..Len(v) : /\ t[j] = v[i] /\ u[j] = w[i]
                               /\ \A k \in 1..Len(v) : k # j => u[k] = t[k]
    <2>1. \E j \in 1..Len(v) : Divergent(v, w, i, t, u, j)
      BY <1>1, <1>2, UnSigneTourne
    <2>. QED
      BY <2>1 DEF Divergent
  <1>4. t \in Seq(Signes) /\ u \in Seq(Signes) /\ Len(t) = Len(v) /\ Len(u) = Len(t)
    BY <1>2 DEF Tourne
  <1>5. Modulo97(t) # Modulo97(u)
    <2>1. j \in 1..Len(t) /\ u[j] # t[j] /\ (t[j] \in Majuscules <=> u[j] \in Majuscules)
      BY <1>3, <1>4
    <2>2. \A k \in 1..Len(t) : k # j => u[k] = t[k]
      BY <1>3, <1>4
    <2>. QED
      BY <1>4, <2>1, <2>2, ModuloUnSigne
  <1>. QED
    BY <1>5, AutreReste DEF t, u

\* Two neighbours exchanged are still neighbours once turned, or its two ends.
LEMMA IbanEchange ==
  ASSUME NEW v \in Seq(Int), iban_valide(v), NEW w \in Seq(Signes), Len(v) = Len(w),
         NEW i \in 1..(Len(v) - 1), v[i] \in Chiffres, v[i + 1] \in Chiffres, v[i] # v[i + 1],
         w[i] = v[i + 1], w[i + 1] = v[i],
         \A k \in 1..Len(v) : k \notin {i, i + 1} => w[k] = v[k]
  PROVE  ~iban_valide(w)
  <1>. DEFINE n == Len(v)
              t == Reste(v, 4) \o Prefixe(v, 4)
              u == Reste(w, 4) \o Prefixe(w, 4)
              o == i + 1
  <1>1. v \in Seq(Signes) /\ n \in 15..34 /\ \A k \in {1, 2} : v[k] \in Majuscules
    BY SignesIban
  <1>2. Tourne(t, v) /\ Tourne(u, w)
    BY <1>1, Rotation
  <1>3. /\ t \in Seq(Signes) /\ u \in Seq(Signes) /\ Len(t) = n /\ Len(u) = n
        /\ \A k \in 1..n : t[k] = v[Origine(k, n)]
        /\ \A k \in 1..n : u[k] = w[Origine(k, n)]
    BY <1>2 DEF Tourne
  <1>4. /\ \A k \in 1..n : k \notin {i, o} => w[k] = v[k]
        /\ w[i] = v[o] /\ w[o] = v[i] /\ v[i] # v[o] /\ v[i] \in Chiffres /\ v[o] \in Chiffres
    OBVIOUS
  <1>5. i \in 3..(n - 1) /\ o = i + 1
    <2>1. i \notin {1, 2}
      <3>1. v[i] \notin Majuscules
        <4>1. v[i] \in Chiffres
          OBVIOUS
        <4>2. \A x \in Chiffres : x \notin Majuscules
          BY DEF Chiffres, Majuscules
        <4>. QED
          BY <4>1, <4>2
      <3>. QED
        BY <1>1, <3>1
    <2>2. i \in 1..(n - 1)
      OBVIOUS
    <2>. HIDE DEF n
    <2>3. i \in 3..(n - 1)
      BY <1>1, <2>1, <2>2
    <2>. QED
      BY <2>3
  <1>. HIDE DEF n, t, u, o
  <1>6. CASE i = 4
    <2>1. Origine(n, n) = 4 /\ Origine(1, n) = 5 /\ o = 5
      BY <1>1, <1>5, <1>6 DEF Origine
    <2>2. 1 \in 1..n /\ n \in 1..n
      BY <1>1
    <2>3. t[n] = v[i] /\ u[n] = w[i] /\ t[1] = v[o] /\ u[1] = w[o]
      BY <1>3, <1>6, <2>1, <2>2
    <2>4. \A k \in 1..n : k \notin {1, n} => Origine(k, n) \in 1..n /\ Origine(k, n) \notin {i, o}
      BY <1>1, <1>6, <2>1 DEF Origine
    <2>5. \A k \in 1..n : k \notin {1, n} => u[k] = t[k]
      BY <1>3, <1>4, <2>4
    <2>6. Modulo97(t) # Modulo97(u)
      <3>1. /\ Len(t) = Len(u) /\ Len(t) \in 2..34
            /\ t[1] \in Chiffres /\ t[Len(t)] \in Chiffres /\ t[1] # t[Len(t)]
            /\ u[1] = t[Len(t)] /\ u[Len(t)] = t[1]
            /\ \A k \in 1..Len(t) : k \notin {1, Len(t)} => u[k] = t[k]
        BY <1>1, <1>3, <1>4, <2>3, <2>5
      <3>. QED
        BY <1>3, <3>1, ModuloBouts
    <2>. QED
      BY <2>6, AutreReste DEF t, u
  <1>7. CASE i # 4
    <2>. DEFINE j == IF i >= 5 THEN i - 4 ELSE n - 4 + i
                s == j + 1
    <2>1. j \in 1..(n - 1) /\ Origine(j, n) = i /\ Origine(s, n) = o /\ j \in 1..n /\ s \in 1..n
      BY <1>1, <1>5, <1>7 DEF Origine
    <2>2. \A k \in 1..n : k \notin {j, s} => Origine(k, n) \in 1..n /\ Origine(k, n) \notin {i, o}
      BY <1>1, <1>5, <1>7 DEF Origine
    <2>3. s = j + 1
      OBVIOUS
    <2>. HIDE DEF j, s
    <2>4. t[j] = v[i] /\ u[j] = w[i] /\ t[s] = v[o] /\ u[s] = w[o]
      BY <1>3, <2>1
    <2>5. \A k \in 1..n : k \notin {j, s} => u[k] = t[k]
      BY <1>3, <1>4, <2>2
    <2>6. Modulo97(t) # Modulo97(u)
      <3>1. /\ Len(t) = Len(u) /\ j \in 1..(Len(t) - 1)
            /\ t[j] \in Chiffres /\ t[j + 1] \in Chiffres /\ t[j] # t[j + 1]
            /\ u[j] = t[j + 1] /\ u[j + 1] = t[j]
            /\ \A k \in 1..Len(t) : k \notin {j, j + 1} => u[k] = t[k]
        BY <1>3, <1>4, <2>1, <2>3, <2>4, <2>5
      <3>. QED
        BY <1>3, <3>1, ModuloEchange
    <2>. QED
      BY <2>6, AutreReste DEF t, u
  <1>. QED
    BY <1>6, <1>7

\* One character of v is read as another one in w; two neighbours of v are exchanged.
Lue(v, w, i) ==
  /\ w \in Seq(Signes) /\ Len(v) = Len(w) /\ i \in 1..Len(v) /\ w[i] # v[i]
  /\ v[i] \in Majuscules <=> w[i] \in Majuscules
  /\ \A k \in 1..Len(v) : k # i => w[k] = v[k]

Echangee(v, w, i) ==
  /\ w \in Seq(Signes) /\ Len(v) = Len(w) /\ i \in 1..(Len(v) - 1)
  /\ v[i] \in Chiffres /\ v[i + 1] \in Chiffres /\ v[i] # v[i + 1] /\ {v[i], v[i + 1]} # {0, 9}
  /\ w[i] = v[i + 1] /\ w[i + 1] = v[i]
  /\ \A k \in 1..Len(v) : k \notin {i, i + 1} => w[k] = v[k]

LEMMA SigneChiffreOuLettre ==
  /\ Chiffres \subseteq Signes /\ Majuscules \subseteq Signes /\ Chiffres \intersect Majuscules = {}
  /\ Signes \subseteq Chiffres \union Majuscules
  BY DEF Chiffres, Majuscules, Signes

LEMMA SigneChange ==
  ASSUME NEW v \in Seq(Signes), NEW i \in 1..Len(v), NEW c \in Signes, c # v[i],
         v[i] \in Majuscules <=> c \in Majuscules
  PROVE  Lue(v, [v EXCEPT ![i] = c], i)
  <1>. DEFINE w == [v EXCEPT ![i] = c]
  <1>1. w \in Seq(Signes) /\ Len(v) = Len(w)
    OBVIOUS
  <1>2. w[i] = c /\ \A k \in 1..Len(v) : k # i => w[k] = v[k]
    OBVIOUS
  <1>. HIDE DEF w
  <1>3. Lue(v, w, i)
    BY <1>1, <1>2 DEF Lue
  <1>. QED
    BY <1>3 DEF w

LEMMA SignesEchanges ==
  ASSUME NEW v \in Seq(Signes), NEW i \in 1..(Len(v) - 1), NEW o, o = i + 1,
         v[i] \in Chiffres, v[o] \in Chiffres, v[i] # v[o], {v[i], v[o]} # {0, 9}
  PROVE  Echangee(v, [v EXCEPT ![i] = v[o], ![o] = v[i]], i)
  <1>. DEFINE w == [v EXCEPT ![i] = v[o], ![o] = v[i]]
  <1>1. i \in 1..Len(v) /\ o \in 1..Len(v) /\ i # o
    OBVIOUS
  <1>2. w \in Seq(Signes) /\ Len(v) = Len(w)
    <2>1. v[i] \in Signes /\ v[o] \in Signes
      BY <1>1
    <2>. QED
      BY <1>1, <2>1
  <1>3. w[i] = v[o] /\ w[o] = v[i] /\ \A k \in 1..Len(v) : k \notin {i, o} => w[k] = v[k]
    BY <1>1
  <1>. HIDE DEF w
  <1>4. Echangee(v, w, i)
    BY <1>2, <1>3 DEF Echangee
  <1>. QED
    BY <1>4 DEF w

\* What a confusion of a value is.
LEMMA ConfusionsDe ==
  ASSUME NEW v \in Seq(Signes), NEW w \in Confusions(v)
  PROVE  (\E i : Lue(v, w, i)) \/ (\E i : Echangee(v, w, i))
  <1>. DEFINE Lisibles(c) == (IF c \in Chiffres THEN Chiffres ELSE Majuscules) \ {c}
              Echangeables == {i \in 1..(Len(v) - 1) :
                                 /\ {v[i], v[i + 1]} \subseteq Chiffres
                                 /\ v[i] # v[i + 1] /\ {v[i], v[i + 1]} # {0, 9}}
  <1>1. \/ \E i \in DOMAIN v : \E c \in Lisibles(v[i]) : w = [v EXCEPT ![i] = c]
        \/ \E i \in Echangeables : w = [v EXCEPT ![i] = v[i + 1], ![i + 1] = v[i]]
    <2>. DEFINE A == UNION {{[v EXCEPT ![i] = c] : c \in Lisibles(v[i])} : i \in DOMAIN v}
                B == {[v EXCEPT ![i] = v[i + 1], ![i + 1] = v[i]] : i \in Echangeables}
    <2>1. Confusions(v) = A \union B
      BY DEF Confusions
    <2>2. w \in A \/ w \in B
      <3>. HIDE DEF A, B
      <3>. QED
        BY <2>1
    <2>. HIDE DEF Lisibles, Echangeables
    <2>3. CASE w \in A
      BY <2>3
    <2>4. CASE w \in B
      BY <2>4
    <2>. QED
      BY <2>2, <2>3, <2>4
  <1>2. ASSUME NEW i \in DOMAIN v, NEW c \in Lisibles(v[i]), w = [v EXCEPT ![i] = c]
        PROVE  Lue(v, w, i)
    <2>1. i \in 1..Len(v) /\ v[i] \in Signes
      OBVIOUS
    <2>2. c \in Signes /\ c # v[i] /\ (v[i] \in Majuscules <=> c \in Majuscules)
      BY <2>1, SigneChiffreOuLettre
    <2>. QED
      BY <1>2, <2>1, <2>2, SigneChange
  <1>3. ASSUME NEW i \in Echangeables, w = [v EXCEPT ![i] = v[i + 1], ![i + 1] = v[i]]
        PROVE  Echangee(v, w, i)
    <2>. DEFINE o == i + 1
    <2>1. /\ i \in 1..(Len(v) - 1) /\ o = i + 1 /\ v[i] \in Chiffres /\ v[o] \in Chiffres
          /\ v[i] # v[o] /\ {v[i], v[o]} # {0, 9} /\ w = [v EXCEPT ![i] = v[o], ![o] = v[i]]
      BY <1>3
    <2>. HIDE DEF o, Echangeables
    <2>. QED
      BY <2>1, SignesEchanges
  <1>. QED
    BY <1>1, <1>2, <1>3

\* A confusion of an account or card number is not one.
LEMMA IbanDetruit ==
  ASSUME NEW v \in Seq(Int), iban_valide(v), NEW w \in Confusions(v)
  PROVE  ~iban_valide(w)
  <1>1. v \in Seq(Signes)
    BY SignesIban
  <1>2. ASSUME NEW i, Lue(v, w, i) PROVE ~iban_valide(w)
    <2>1. /\ w \in Seq(Signes) /\ Len(v) = Len(w) /\ i \in 1..Len(v) /\ w[i] # v[i]
          /\ v[i] \in Majuscules <=> w[i] \in Majuscules
          /\ \A k \in 1..Len(v) : k # i => w[k] = v[k]
      BY <1>2 DEF Lue
    <2>. QED
      BY <2>1, IbanUnSigne
  <1>3. ASSUME NEW i, Echangee(v, w, i) PROVE ~iban_valide(w)
    <2>1. /\ w \in Seq(Signes) /\ Len(v) = Len(w) /\ i \in 1..(Len(v) - 1)
          /\ v[i] \in Chiffres /\ v[i + 1] \in Chiffres /\ v[i] # v[i + 1]
          /\ w[i] = v[i + 1] /\ w[i + 1] = v[i]
          /\ \A k \in 1..Len(v) : k \notin {i, i + 1} => w[k] = v[k]
      BY <1>3 DEF Echangee
    <2>. QED
      BY <2>1, IbanEchange
  <1>. QED
    BY <1>1, <1>2, <1>3, ConfusionsDe

LEMMA EnChiffres ==
  ASSUME NEW w \in Seq(Signes), \A k \in 1..Len(w) : w[k] \in Chiffres
  PROVE  w \in Seq(Chiffres)
  OBVIOUS

LEMMA LuhnDetruit ==
  ASSUME NEW v \in Seq(Int), luhn_valide(v), NEW w \in Confusions(v)
  PROVE  ~luhn_valide(w)
  <1>1. v \in Seq(Chiffres)
    BY DEF luhn_valide, SontChiffres
  <1>2. v \in Seq(Signes) /\ \A k \in 1..Len(v) : v[k] \in Chiffres
    <2>1. \A k \in 1..Len(v) : v[k] \in Chiffres /\ v[k] \in Signes
      BY <1>1, SigneChiffreOuLettre
    <2>. QED
      BY <2>1
  <1>3. ASSUME NEW i, Lue(v, w, i) PROVE ~luhn_valide(w)
    <2>1. /\ w \in Seq(Signes) /\ Len(v) = Len(w) /\ i \in 1..Len(v) /\ w[i] # v[i]
          /\ v[i] \in Majuscules <=> w[i] \in Majuscules
          /\ \A k \in 1..Len(v) : k # i => w[k] = v[k]
      BY <1>3 DEF Lue
    <2>2. \A k \in 1..Len(w) : w[k] \in Chiffres
      <3>1. w[i] \in Signes /\ w[i] \notin Majuscules
        BY <1>2, <2>1, SigneChiffreOuLettre
      <3>. QED
        BY <1>2, <2>1, <3>1, SigneChiffreOuLettre
    <2>3. w \in Seq(Chiffres)
      BY <2>1, <2>2, EnChiffres
    <2>. QED
      BY <1>1, <2>1, <2>3, LuhnUnChiffre
  <1>4. ASSUME NEW i, Echangee(v, w, i) PROVE ~luhn_valide(w)
    <2>1. /\ w \in Seq(Signes) /\ Len(v) = Len(w) /\ i \in 1..(Len(v) - 1)
          /\ v[i] \in Chiffres /\ v[i + 1] \in Chiffres /\ v[i] # v[i + 1]
          /\ {v[i], v[i + 1]} # {0, 9} /\ w[i] = v[i + 1] /\ w[i + 1] = v[i]
          /\ \A k \in 1..Len(v) : k \notin {i, i + 1} => w[k] = v[k]
      BY <1>4 DEF Echangee
    <2>2. \A k \in 1..Len(w) : w[k] \in Chiffres
      BY <1>2, <2>1
    <2>3. w \in Seq(Chiffres)
      BY <2>1, <2>2, EnChiffres
    <2>. QED
      BY <1>1, <2>1, <2>3, LuhnEchange
  <1>. QED
    BY <1>2, <1>3, <1>4, ConfusionsDe

\* What a rule does with a value whose checksum fails.
LEMMA SommeFausse ==
  ASSUME NEW c, c.strict, c.regle \in {"IBAN", "CARTE_BANCAIRE"}, ~Verdict(c)
  PROVE  /\ Appliquer(c, FALSE) = {}
         /\ \E d \in Appliquer(c, TRUE) : d.type = c.regle /\ ~d.valide
  <1>. DEFINE r == REGLES[c.regle]
  <1>1. r.validateur /\ r.rejeter /\ r.somme /\ r.type = c.regle
    <2>1. CASE c.regle = "IBAN"
      BY <2>1 DEF REGLES, Regle
    <2>2. CASE c.regle = "CARTE_BANCAIRE"
      BY <2>2 DEF REGLES, Regle
    <2>. QED
      BY <2>1, <2>2
  <1>. DEFINE d == Detection(r.type, c, ScoreRegle(r, c, TRUE), "regle", FALSE)
  <1>2. Appliquer(c, FALSE) = {}
    <2>. HIDE DEF r
    <2>. QED
      BY <1>1 DEF Appliquer, Tolere, r
  <1>3. Appliquer(c, TRUE) = {d}
    BY <1>1 DEF Appliquer, Tolere, Correspond
  <1>4. d.type = c.regle /\ ~d.valide
    BY <1>1 DEF Detection
  <1>. QED
    BY <1>2, <1>3, <1>4

LEMMA ConfusionRejetee ==
  ASSUME NEW c \in Correspondances, c.strict, c.regle \in {"IBAN", "CARTE_BANCAIRE"}, Verdict(c),
         NEW v \in Confusions(c.valeur), NEW lu, lu = [c EXCEPT !.valeur = v]
  PROVE  /\ Appliquer(lu, FALSE) = {}
         /\ \E d \in Appliquer(lu, TRUE) : d.type = c.regle /\ ~d.valide
  <1>1. c.valeur \in Seq(Int) /\ lu.regle = c.regle /\ lu.valeur = v /\ lu.strict
    BY DEF Correspondances
  <1>2. ~Verdict(lu)
    <2>1. CASE c.regle = "IBAN"
      <3>1. iban_valide(c.valeur)
        BY <2>1 DEF Verdict
      <3>2. ~iban_valide(v)
        BY <1>1, <3>1, IbanDetruit
      <3>. QED
        BY <1>1, <2>1, <3>2 DEF Verdict
    <2>2. CASE c.regle = "CARTE_BANCAIRE"
      <3>1. luhn_valide(c.valeur)
        BY <2>2 DEF Verdict
      <3>2. ~luhn_valide(v)
        BY <1>1, <3>1, LuhnDetruit
      <3>. QED
        BY <1>1, <2>2, <3>2 DEF Verdict
    <2>. QED
      BY <2>1, <2>2
  <1>. QED
    BY <1>1, <1>2, SommeFausse

-------------------------------------------------------------------------------
(* Theorems *)

THEOREM Invariance == Spec => []IInv
  BY InitInv, NextInv, PTL DEF Spec

\* Type correctness, for any texts and any threshold: the loop of merge.py works on what
\* was detected, and keeps nothing it has not met.
THEOREM TypesCorrects == Spec => []TypeOK
  <1>1. IInv => TypeOK
    BY DEF IInv
  <1>. QED
    BY <1>1, Invariance, PTL

\* The greedy loop of fusionner (merge.py:66-107) computes the arbitration its header
\* defines, for any number of detections and whatever the order of ties.
THEOREM ArbitrageEstStable == Spec => []ArbitrageStable
  <1>1. IInv => ArbitrageStable
    <2>. SUFFICES ASSUME IInv, etape = "classe" PROVE Stable(retenues, candidats)
      BY DEF ArbitrageStable
    <2>1. restants = {}
      BY DEF IInv, NiveauRetenu
    <2>. QED
      BY <2>1 DEF IInv, StablePartiel, Stable
  <1>. QED
    BY <1>1, Invariance, PTL

\* 'fusion' is written only where a rule and the model each saw something that overlaps
\* the entity (merge.py:43-48, 82-88), for any detections and in any order of ties.
THEOREM CorroborationEstFondee == Spec => []CorroborationFondee
  <1>1. IInv => CorroborationFondee
    <2>. SUFFICES ASSUME IInv, etape = "classe", NEW c \in retenues, methodes[c] = "fusion",
                         NEW m \in {"regle", "ner"}
         PROVE  \E d \in DetectionsDe(texte) : d.methode = m /\ SeChevauchent(d, c)
      BY DEF CorroborationFondee
    <2>1. TouchePar(m, c)
      BY DEF IInv, TypeOK, MethodesFondees
    <2>. QED
      BY <2>1 DEF TouchePar
  <1>. QED
    BY <1>1, Invariance, PTL

\* Keeping the candidates of an OCR text whose checksum fails (rules.py:137-142) never
\* lowers the level of the document, for any findings: what differs between the two
\* arbitrations comes, at the strongest, from a type with a checksum, which is critical.
THEOREM ToleranceNeBaissePas == Spec => []ToleranceJamaisMoins
  <1>1. IInv => ToleranceJamaisMoins
    <2>. DEFINE Avant == DetecterSur(texte.natives, FALSE) \union DetecterNer(texte)
                Apres == DetectionsDe(texte)
                C == Dedupliquees(Avant)
                N == Noyau(C)
    <2>. SUFFICES ASSUME IInv, etape = "classe", texte.ocr, texte.reparees = {},
                         \A c \in texte.natives : c.strict, niveau_maximum(N) # SansNiveau
         PROVE  niveau # SansNiveau /\ ORDRE_NIVEAU[niveau] >= ORDRE_NIVEAU[niveau_maximum(N)]
      BY DEF ToleranceJamaisMoins
    <2>1. /\ texte \in Textes /\ texte.natives \in SUBSET Correspondances
          /\ IsFiniteSet(texte.natives) /\ IsFiniteSet(texte.ner) /\ texte.ocr = TRUE
      BY TextesTypes, TrouvaillesFinies DEF IInv
    <2>2. Apres = DetecterSur(texte.natives, TRUE) \union DetecterNer(texte)
      <3>1. DetecterSur({}, TRUE) = {}
        BY DEF DetecterSur
      <3>. QED
        BY <2>1, <3>1 DEF DetectionsDe, DetecterRegles
    <2>3. /\ Apres \in SUBSET LesDetections /\ Avant \subseteq Apres
          /\ \A d \in Apres \ Avant : d.type \in SommesDeControle
      BY <2>1, <2>2, DetectionsTypees, ToleranceAjoute
    <2>4. IsFiniteSet(Apres) /\ IsFiniteSet(Avant) /\ Avant \in SUBSET LesDetections
      <3>1. IsFiniteSet(DetecterSur(texte.natives, TRUE)) /\ IsFiniteSet(DetecterNer(texte))
        BY <2>1, DetectionsFinies, FS_Subset DEF DetecterNer
      <3>2. IsFiniteSet(Apres)
        BY <2>2, <3>1, FS_Union
      <3>. QED
        BY <2>3, <3>2, FS_Subset
    <2>5. /\ restants = {} /\ niveau = niveau_maximum(retenues)
          /\ candidats = Dedupliquees(Apres) /\ retenues \in SUBSET candidats
          /\ Stable(retenues, candidats)
      BY DEF IInv, NiveauRetenu, CandidatsDetectes, TypeOK, StablePartiel, Stable
    <2>. HIDE DEF Avant, Apres
    <2>6. /\ C \in SUBSET Candidats /\ candidats \in SUBSET Candidats
          /\ IsFiniteSet(C) /\ IsFiniteSet(candidats)
      BY <2>3, <2>4, <2>5, DedupliqueesTypees, DedupliqueesFinies
    <2>7. /\ \A c \in candidats : c \notin C => c.type \in SommesDeControle
          /\ \A c \in C : c \notin candidats =>
               c.type \in SommesDeControle
               /\ \E g \in candidats : MemeCle(g, c) /\ PlusForte(g, c)
      BY <2>3, <2>4, <2>5, AjoutAuxCandidats
    <2>. HIDE DEF C
    <2>8. N \in SUBSET C /\ Stable(N, C)
      BY <2>6, ArbitrageExiste
    <2>. HIDE DEF N
    <2>9. N # {} /\ niveau_maximum(N) \in NiveauSens
      <3>1. N # {}
        BY DEF niveau_maximum
      <3>. QED
        BY <3>1, NiveauMaximum
    <2>10. \A n \in NiveauSens : /\ ORDRE_NIVEAU[n] \in Nat /\ n # SansNiveau
                                 /\ ORDRE_NIVEAU["critique"] >= ORDRE_NIVEAU[n]
      BY DEF ORDRE_NIVEAU, NiveauSens, SansNiveau
    <2>11. CASE retenues = N
      BY <2>5, <2>9, <2>10, <2>11
    <2>12. CASE retenues # N
      <3>1. \E e \in retenues : e.type \in SommesDeControle
        <4>1. \/ \E z \in retenues : z \notin C
              \/ \E z \in N : /\ z \notin candidats
                              /\ \A e \in retenues : SeChevauchent(e, z) => ~PlusForte(e, z)
          BY <2>5, <2>6, <2>8, <2>12, PremiereDifference
        <4>2. ASSUME NEW z \in N, z \notin candidats,
                     \A e \in retenues : SeChevauchent(e, z) => ~PlusForte(e, z)
              PROVE  \E e \in retenues : e.type \in SommesDeControle
          <5>1. /\ z \in Candidats /\ z.type \in SommesDeControle
            BY <2>6, <2>7, <2>8, <4>2
          <5>2. PICK g \in candidats : MemeCle(g, z) /\ PlusForte(g, z)
            BY <2>7, <2>8, <4>2
          <5>3. ASSUME NEW e \in retenues, SeChevauchent(e, g), PlusForte(e, g) PROVE FALSE
            <6>1. e \in Candidats /\ g \in Candidats
              BY <2>5, <2>6
            <6>2. PlusForte(e, z) /\ SeChevauchent(e, z)
              BY <5>1, <5>2, <5>3, <6>1, PlusForteTransitive DEF MemeCle, SeChevauchent
            <6>. QED
              BY <4>2, <6>2
          <5>4. g \in retenues
            BY <2>5, <5>3 DEF Stable
          <5>. QED
            BY <5>1, <5>2, <5>4 DEF MemeCle
        <4>. QED
          BY <2>5, <2>7, <4>1, <4>2
      <3>2. niveau = "critique"
        BY <2>5, <3>1, NiveauDesSommes
      <3>. QED
        BY <2>9, <2>10, <3>2 DEF NiveauSens
    <2>. QED
      BY <2>11, <2>12
  <1>. QED
    BY <1>1, Invariance, PTL

\* Whatever the model returns, a number of account or of card the rules tolerate on OCR text
\* gives way only to what is validated or wider, to an e-mail address, or to a label of the
\* model above the score of the tolerance (rules.py:147-160, merge.py).
THEOREM OcrRemplacantsConnus == Spec => []OcrRemplacants
  <1>1. IInv => OcrRemplacants
    <2>. SUFFICES ASSUME IInv, etape = "classe", NEW c \in NumerosEcartes
         PROVE  \E e \in retenues :
                  /\ SeChevauchent(e, c)
                  /\ \/ e.valide \/ Longueur(e) > Longueur(c) \/ e.type = "EMAIL"
                     \/ \E d \in texte.ner : Candidat(d) = e /\ d.score > SCORE_OCR_NON_VALIDE
      BY DEF OcrRemplacants
    <2>. DEFINE R == DetecterRegles(texte.natives, texte.reparees, texte.ocr)
    <2>1. PICK e \in retenues : SeChevauchent(e, c) /\ PlusForte(e, c)
      BY DEF IInv, NiveauRetenu, StablePartiel, NumerosEcartes
    <2>2. ASSUME NEW d \in R, ~d.valide
          PROVE  /\ d.type \in SommesDeControle => d.score = SCORE_OCR_NON_VALIDE
                 /\ d.type # "EMAIL" => d.score <= SCORE_OCR_NON_VALIDE
      <3>1. /\ texte \in Textes /\ texte.natives \in SUBSET Correspondances
            /\ texte.reparees \in SUBSET Correspondances /\ texte.ocr \in BOOLEAN
        BY TextesTypes DEF IInv
      <3>2. \/ d \in DetecterSur(texte.natives, texte.ocr)
            \/ d \in DetecterSur(texte.reparees, texte.ocr)
        BY DEF DetecterRegles
      <3>. QED
        BY <2>2, <3>1, <3>2, ScoresDesRegles
    <2>3. PICK d \in R : Candidat(d) = c /\ c.type \in SommesDeControle
      BY DEF NumerosEcartes, SommesDeControle
    <2>4. PICK f \in DetectionsDe(texte) : e = Candidat(f)
      BY DEF IInv, TypeOK, CandidatsDetectes, Dedupliquees
    <2>5. e \in Candidats /\ c \in Candidats
      BY DEF IInv, TypeOK, NumerosEcartes
    <2>6. /\ Longueur(e) \in Int /\ Longueur(c) \in Int /\ e.score \in Nat /\ c.score \in Nat
          /\ e.valide \in BOOLEAN
      BY <2>5 DEF Candidats, Longueur
    <2>7. CASE ~e.valide /\ ~ (Longueur(e) > Longueur(c)) /\ e.type # "EMAIL"
      <3>1. ~c.valide /\ e.score > c.score
        BY <2>1, <2>7 DEF PlusForte
      <3>2. c.score = SCORE_OCR_NON_VALIDE
        BY <2>2, <2>3, <3>1 DEF Candidat
      <3>3. e.score > SCORE_OCR_NON_VALIDE
        BY <3>1, <3>2
      <3>4. f \notin R
        <4>. SUFFICES ASSUME f \in R
                      PROVE  FALSE
          OBVIOUS
        <4>1. e.score <= SCORE_OCR_NON_VALIDE
          BY <2>2, <2>4, <2>7 DEF Candidat
        <4>. QED
          BY <2>6, <3>3, <4>1 DEF SCORE_OCR_NON_VALIDE
      <3>5. f \in texte.ner /\ f.score > SCORE_OCR_NON_VALIDE
        BY <2>4, <3>3, <3>4 DEF DetectionsDe, DetecterNer, Candidat
      <3>. QED
        BY <2>1, <2>4, <3>5
    <2>. QED
      BY <2>1, <2>7
  <1>. QED
    BY <1>1, Invariance, PTL

\* Nothing retained is ever withdrawn: the branch of fusionner that evicts weaker
\* entities (merge.py:90-96) is dead, for any detections.
THEOREM RienNEstRetire == Spec => JamaisDeRetrait
  <1>1. IInv /\ [Next]_vars => [etape = "fusion" => retenues \subseteq retenues']_vars
    <2>. SUFFICES ASSUME IInv, [Next]_vars, etape = "fusion"
         PROVE  retenues \subseteq retenues'
      OBVIOUS
    <2>1. CASE Fusionner
      BY <2>1, FusionnerInv
    <2>2. CASE Classer
      BY <2>2 DEF Classer, varsFusion
    <2>3. CASE UNCHANGED vars
      BY <2>3 DEF vars, varsFusion
    <2>. QED
      BY <2>1, <2>2, <2>3 DEF Next, Detecter, Termine
  <1>. QED
    BY <1>1, Invariance, PTL DEF Spec, JamaisDeRetrait

\* The level of a document reaches a threshold exactly when one of its entities does
\* (sensitivity.py:97-109, pipeline.py:59-61): what the gateway decides on and what the
\* engine protects agree, for any entities.
THEOREM SeuilEstCoherent == Spec => []SeuilCoherent
  <1>1. IInv => SeuilCoherent
    <2>. SUFFICES ASSUME IInv, etape = "classe", NEW seuil \in NiveauSens
         PROVE  filtrer_par_seuil(retenues, seuil) # {}
                  <=> niveau # SansNiveau /\ ORDRE_NIVEAU[niveau] >= ORDRE_NIVEAU[seuil]
      BY DEF SeuilCoherent
    <2>1. niveau = niveau_maximum(retenues)
      BY DEF IInv, NiveauRetenu
    <2>2. CASE retenues = {}
      BY <2>1, <2>2 DEF filtrer_par_seuil, niveau_maximum
    <2>3. CASE retenues # {}
      <3>1. /\ niveau \in NiveauSens
            /\ \E e \in retenues : niveau = Niveau(e, retenues)
            /\ \A e \in retenues : Niveau(e, retenues) \in NiveauSens
                                   /\ ORDRE_NIVEAU[Niveau(e, retenues)] <= ORDRE_NIVEAU[niveau]
        BY <2>1, <2>3, NiveauMaximum
      <3>2. niveau # SansNiveau
        BY <3>1 DEF NiveauSens, SansNiveau
      <3>3. \A n \in NiveauSens : ORDRE_NIVEAU[n] \in Nat
        BY DEF ORDRE_NIVEAU, NiveauSens
      <3>4. \A e \in retenues :
              au_moins(Niveau(e, retenues), seuil)
                <=> ORDRE_NIVEAU[Niveau(e, retenues)] >= ORDRE_NIVEAU[seuil]
        BY <3>1 DEF au_moins
      <3>5. filtrer_par_seuil(retenues, seuil) # {}
              <=> \E e \in retenues : ORDRE_NIVEAU[Niveau(e, retenues)] >= ORDRE_NIVEAU[seuil]
        BY <3>4 DEF filtrer_par_seuil
      <3>6. (\E e \in retenues : ORDRE_NIVEAU[Niveau(e, retenues)] >= ORDRE_NIVEAU[seuil])
              <=> ORDRE_NIVEAU[niveau] >= ORDRE_NIVEAU[seuil]
        BY <3>1, <3>3
      <3>. QED
        BY <3>2, <3>5, <3>6
    <2>. QED
      BY <2>2, <2>3
  <1>. QED
    BY <1>1, Invariance, PTL

\* One misread character destroys the checksum of an account or card number
\* (rules.py:137-142): whatever the number and its length, the value that is read does
\* not pass for a validated one, and is given up in a native text.
THEOREM SommeEstDetruite == Spec => []SommeDetruite
  <1>1. IInv => SommeDetruite
    <2>. SUFFICES ASSUME IInv, NEW c \in texte.natives, c.strict,
                         c.regle \in {"IBAN", "CARTE_BANCAIRE"}, Verdict(c),
                         NEW v \in Confusions(c.valeur)
                  PROVE  /\ Appliquer([c EXCEPT !.valeur = v], FALSE) = {}
                         /\ \E d \in Appliquer([c EXCEPT !.valeur = v], TRUE) :
                              d.type = c.regle /\ ~d.valide
      BY DEF SommeDetruite
    <2>1. c \in Correspondances
      BY TextesTypes DEF IInv
    <2>. QED
      BY <2>1, ConfusionRejetee
  <1>. QED
    BY <1>1, Invariance, PTL

===============================================================================
