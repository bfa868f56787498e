-------------------------------- MODULE Regles --------------------------------
(***************************************************************************)
(* Detection by rules (ai-engine/app/detection/rules.py): what becomes of a *)
(* match of a pattern.  The regular expressions are not modelled: a text   *)
(* is the set of their matches, each with what the decisions depend on.    *)
(*   regle   the rule that matched ("PIECE" for MOTIF_PIECE)               *)
(*   strict  FALSE when only the pattern for OCR text matches              *)
(*   valeur  the value its validator reads, << >> when there is none       *)
(*   indice  a word such as "CNI" stands in the 60 characters before       *)
(* Scores are in thousandths.                                              *)
(***************************************************************************)
EXTENDS Validateurs

CONSTANT Aujourdhui   \* date.today(), as <<day, month, year>>

Regle(type, motifOcr, validateur, rejeter, somme, score) ==
  [type |-> type, motifOcr |-> motifOcr, validateur |-> validateur,
   rejeter |-> rejeter, somme |-> somme, score |-> score]

REGLES ==
  [r \in {"EMAIL", "IBAN", "CARTE_BANCAIRE", "TELEPHONE", "DATE_NAISSANCE",
          "PLAQUE_IMMAT", "NUM_CLIENT"} |->
    CASE r = "EMAIL"        -> Regle(r, TRUE, FALSE, TRUE, FALSE, 970)
      [] r = "IBAN"         -> Regle(r, TRUE, TRUE, TRUE, TRUE, 990)
      [] r = "CARTE_BANCAIRE" -> Regle(r, FALSE, TRUE, TRUE, TRUE, 990)
      [] r = "TELEPHONE"    -> Regle(r, FALSE, TRUE, FALSE, FALSE, 990)
      [] r = "DATE_NAISSANCE" -> Regle(r, FALSE, TRUE, TRUE, FALSE, 990)
      [] r = "PLAQUE_IMMAT" -> Regle(r, FALSE, FALSE, TRUE, FALSE, 700)
      [] r = "NUM_CLIENT"   -> Regle(r, FALSE, FALSE, TRUE, FALSE, 900)]

\* A match of a pattern.
Correspondances ==
  [regle : DOMAIN REGLES \union {"PIECE"}, debut : Nat, fin : Nat, strict : BOOLEAN,
   valeur : Seq(Int), indice : BOOLEAN]

SCORE_NON_VALIDE == 550
SCORE_OCR_NON_VALIDE == 900

\* A detection: an entity as the detectors return it.
Detection(type, c, score, methode, valide) ==
  [type |-> type, debut |-> c.debut, fin |-> c.fin,
   score |-> score, methode |-> methode, valide |-> valide]

-----------------------------------------------------------------------------

\* What the validator of the rule says of the value.
Verdict(c) ==
  CASE c.regle = "IBAN" -> iban_valide(c.valeur)
    [] c.regle = "CARTE_BANCAIRE" -> luhn_valide(c.valeur)
    [] c.regle = "TELEPHONE" -> telephone_valide(c.valeur)
    [] c.regle = "DATE_NAISSANCE" -> date_naissance_valide(c.valeur, Aujourdhui)
    [] c.regle = "PIECE" -> piece_identite_valide(c.valeur)

\* The pattern that is tried finds the match.
Correspond(r, c, ocr) == c.strict \/ (ocr /\ r.motifOcr)

Tolere(r, ocr) == ocr /\ r.somme

\* Mutant: a failed checksum is tolerated at the low score, 450.
ScoreToleranceBasse(r, c, ocr) ==
  IF ~r.validateur \/ Verdict(c) THEN r.score
  ELSE IF Tolere(r, ocr) THEN 450 ELSE SCORE_NON_VALIDE

ScoreRegle(r, c, ocr) ==
  IF ~r.validateur \/ Verdict(c) THEN r.score
  ELSE IF Tolere(r, ocr) THEN SCORE_OCR_NON_VALIDE ELSE SCORE_NON_VALIDE

\* _appliquer: what one match of one rule yields, nothing or one detection.
Appliquer(c, ocr) ==
  LET r == REGLES[c.regle]
      invalide == r.validateur /\ ~Verdict(c)
  IN IF \/ ~Correspond(r, c, ocr)
        \/ invalide /\ r.rejeter /\ ~Tolere(r, ocr)
     THEN {}
     ELSE {Detection(r.type, c, ScoreRegle(r, c, ocr), "regle", r.validateur /\ ~invalide)}

\* _detecter_pieces: a national format, or a word that names one nearby, or both.
DetecterPiece(c) ==
  LET valide == Verdict(c)
  IN IF Len(c.valeur) < 8 \/ (~valide /\ ~c.indice) THEN {}
     ELSE {Detection("NUM_PIECE_IDENTITE", c,
             IF ~valide THEN 750 ELSE IF c.indice THEN 995 ELSE 950,
             "regle", valide)}

DetecterSur(correspondances, ocr) ==
  UNION {IF c.regle = "PIECE" THEN DetecterPiece(c) ELSE Appliquer(c, ocr)
         : c \in correspondances}

\* detecter: on OCR text the rules run again on the repaired text.  `reparees` are
\* the matches found there, their spans already brought back to the text.
DetecterRegles(natives, reparees, ocr) ==
  DetecterSur(natives, ocr)
    \union (IF ocr THEN DetecterSur(reparees, ocr) ELSE {})
=============================================================================
