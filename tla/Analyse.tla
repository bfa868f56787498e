------------------------------- MODULE Analyse -------------------------------
(***************************************************************************)
(* The analysis of one document (ai-engine/app/pipeline.py): detection by  *)
(* rules and by the model, fusion, classification.                         *)
(*                                                                         *)
(* A text is what the detectors find in it: the matches of the patterns    *)
(* (natives; reparees on the repaired OCR text), the entities the model    *)
(* and the address patterns return (ner), and whether it comes from OCR.   *)
(***************************************************************************)
EXTENDS Regles, Fusion, Sensibilite

CONSTANTS
  Textes,        \* the texts that may be analysed
  NerThreshold   \* ner_threshold, in thousandths

\* What the detectors return, and what enters the fusion.
LesDetections == [type : GRILLE, debut : Nat, fin : Nat, score : Nat,
                  methode : {"regle", "ner"}, valide : BOOLEAN]

Candidats == [type : GRILLE, debut : Nat, fin : Nat, score : Nat, valide : BOOLEAN]

ASSUME TextesTypes ==
  Textes \subseteq [natives : SUBSET Correspondances, reparees : SUBSET Correspondances,
                    ner : SUBSET LesDetections, ocr : BOOLEAN]

\* A text has finitely many findings, and none is empty: no pattern of rules.py matches
\* without a character, and the model's empty entities are dropped (ner.py:160, 219).
ASSUME TrouvaillesFinies ==
  \A t \in Textes : /\ IsFiniteSet(t.natives) /\ IsFiniteSet(t.reparees) /\ IsFiniteSet(t.ner)
                     /\ \A c \in t.natives \union t.reparees \union t.ner : c.debut < c.fin

VARIABLES texte, etape, niveau

vars == <<texte, etape, niveau, varsFusion>>

\* ner.detecter: what is returned is filtered by the threshold.
DetecterNer(t) == {e \in t.ner : e.score >= NerThreshold}

DetectionsDe(t) ==
  DetecterRegles(t.natives, t.reparees, t.ocr) \union DetecterNer(t)

Init ==
  /\ texte \in Textes
  /\ etape = "extrait" /\ niveau = SansNiveau
  /\ candidats = {} /\ methodes = <<>> /\ restants = {} /\ retenues = {}

Detecter ==
  /\ etape = "extrait" /\ etape' = "fusion"
  /\ EntrerFusion(DetectionsDe(texte))
  /\ UNCHANGED <<texte, niveau>>

Fusionner ==
  /\ etape = "fusion"
  /\ \E c \in restants : Arbitrer(c)
  /\ UNCHANGED <<texte, etape, niveau>>

Classer ==
  /\ etape = "fusion" /\ ArbitrageFini
  /\ etape' = "classe"
  /\ niveau' = niveau_maximum(retenues)
  /\ UNCHANGED <<texte, varsFusion>>

Termine == etape = "classe" /\ UNCHANGED vars

Next == Detecter \/ Fusionner \/ Classer \/ Termine

Spec == Init /\ [][Next]_vars

-----------------------------------------------------------------------------
(* Properties. *)

\* Every variable has its type, and the loop works on what was detected.
TypeOK ==
  /\ etape \in {"extrait", "fusion", "classe"}
  /\ niveau \in NiveauSens \union {SansNiveau}
  /\ candidats \subseteq Candidats
  /\ methodes \in [candidats -> Methodes]
  /\ restants \subseteq candidats
  /\ retenues \subseteq candidats \ restants

\* The greedy loop computes the arbitration the header of merge.py defines,
\* whatever the order of ties: a candidate is dropped only for a stronger one that
\* is itself kept, and is kept only if no such one overlaps it.
ArbitrageStable == etape = "classe" => Stable(retenues, candidats)

\* What is retained is never withdrawn: the branch of fusionner in which the
\* candidate evicts weaker ones (merge.py:90-96) is dead.
JamaisDeRetrait == [][etape = "fusion" => retenues \subseteq retenues']_vars

\* 'fusion' is a claim of corroboration: where it is written, a rule and the model
\* each saw something that overlaps the entity.
CorroborationFondee ==
  etape = "classe" =>
    \A c \in retenues : methodes[c] = "fusion" =>
      \A m \in {"regle", "ner"} :
        \E d \in DetectionsDe(texte) : d.methode = m /\ SeChevauchent(d, c)

\* Keeping, on OCR text, the candidates whose checksum fails never lowers the level
\* of the document, whatever they displace at the fusion.
ToleranceJamaisMoins ==
  LET sansTolerance == DetecterSur(texte.natives, FALSE) \union DetecterNer(texte)
      avant == niveau_maximum(Noyau(Dedupliquees(sansTolerance)))
  IN (/\ etape = "classe" /\ texte.ocr /\ texte.reparees = {}
      /\ \A c \in texte.natives : c.strict)
     => \/ avant = SansNiveau
        \/ niveau # SansNiveau /\ ORDRE_NIVEAU[niveau] >= ORDRE_NIVEAU[avant]

\* The numbers of account or of card the rules found and the arbitration dropped.
NumerosEcartes ==
  {c \in candidats \ retenues :
     /\ c.type \in {"IBAN", "CARTE_BANCAIRE"}
     /\ \E d \in DetecterRegles(texte.natives, texte.reparees, texte.ocr) : Candidat(d) = c}

\* Whatever the rules and the model find, a number read by OCR whose checksum fails gives way
\* only to what is validated or wider, to an e-mail address, which scores more, or to a label
\* of the model above the score of the tolerance, 0.90; no other rule displaces it.
OcrRemplacants ==
  etape = "classe" =>
    \A c \in NumerosEcartes : \E e \in retenues :
      /\ SeChevauchent(e, c)
      /\ \/ e.valide \/ Longueur(e) > Longueur(c) \/ e.type = "EMAIL"
         \/ \E d \in texte.ner : Candidat(d) = e /\ d.score > SCORE_OCR_NON_VALIDE

\* The gateway decides on the level of the document, the engine protects entity by
\* entity: a document whose level reaches a threshold has something to protect at
\* that threshold, and one that does not has nothing.
SeuilCoherent ==
  etape = "classe" =>
    \A seuil \in NiveauSens :
      filtrer_par_seuil(retenues, seuil) # {}
        <=> niveau # SansNiveau /\ ORDRE_NIVEAU[niveau] >= ORDRE_NIVEAU[seuil]

\* A value with one character misread: a letter or a digit read as another one, or
\* two neighbouring digits exchanged (Luhn does not see 09 read for 90).
Confusions(v) ==
  LET Lisibles(c) == (IF c \in Chiffres THEN Chiffres ELSE Majuscules) \ {c}
      Echangeables == {i \in 1..(Len(v) - 1) :
                         /\ {v[i], v[i + 1]} \subseteq Chiffres
                         /\ v[i] # v[i + 1] /\ {v[i], v[i + 1]} # {0, 9}}
  IN (UNION {{[v EXCEPT ![i] = c] : c \in Lisibles(v[i])} : i \in DOMAIN v})
       \union {[v EXCEPT ![i] = v[i + 1], ![i + 1] = v[i]] : i \in Echangeables}

\* One misread character destroys the checksum of an account or card number
\* (rules.py:137-142): in a native text the number is given up, on OCR text it is
\* still found, and never passes for a validated one.
SommeDetruite ==
  etape = "extrait" /\ texte.ner = {} /\ texte.reparees = {} =>
    \A c \in texte.natives :
      (/\ texte.natives = {c} /\ c.strict
       /\ c.regle \in {"IBAN", "CARTE_BANCAIRE"} /\ Verdict(c))
      => \A v \in Confusions(c.valeur) :
           LET lu == [c EXCEPT !.valeur = v]
           IN /\ Appliquer(lu, FALSE) = {}
              /\ \E d \in Appliquer(lu, TRUE) : d.type = c.regle /\ ~d.valide
=============================================================================
