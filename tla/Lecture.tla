------------------------------- MODULE Lecture --------------------------------
(***************************************************************************)
(* A document is extracted, then its text is repaired when it comes from   *)
(* OCR and something is to be gained (rules.detecter): the texts, tables   *)
(* and boxes every later offset goes through.                              *)
(***************************************************************************)
EXTENDS Extraction, Reparation

CONSTANT Documents     \* the documents that may be extracted

ASSUME DocumentsPossibles == \A d \in Documents : DocumentPossible(d)

VARIABLES document, etape, resultat, repare

vars == <<document, etape, resultat, repare>>

-----------------------------------------------------------------------------

Init ==
  /\ document \in Documents
  /\ etape = "recu"
  /\ resultat = SansTexte("aucune") /\ repare = normaliser(<<>>)

Extraire ==
  /\ etape = "recu" /\ etape' = "extrait"
  /\ resultat' = extraire(document)
  /\ UNCHANGED <<document, repare>>

\* rules.detecter: the second reading of a text that comes from OCR.
Reparer ==
  /\ etape = "extrait" /\ etape' = "repare"
  /\ resultat.methode = "ocr" /\ vaut_la_peine(resultat.texte.texte)
  /\ repare' = reparer(resultat.texte.texte)
  /\ UNCHANGED <<document, resultat>>

Termine ==
  /\ \/ etape = "repare"
     \/ etape = "extrait"
          /\ ~(resultat.methode = "ocr" /\ vaut_la_peine(resultat.texte.texte))
  /\ UNCHANGED vars

Next == Extraire \/ Reparer \/ Termine

Spec == Init /\ [][Next]_vars

-----------------------------------------------------------------------------
(* Properties *)

Texte == resultat.texte.texte
Table == resultat.texte.table
Positions == 0..(Len(Texte) - 1)

\* Type correctness of the result: the table has one entry more than the text, never
\* decreases and ends with the length of the source (normalize.py: "la sentinelle").
TypeOK ==
  /\ etape \in {"recu", "extrait", "repare"}
  /\ resultat.methode \in {"aucune", "erreur", "pdf", "ocr", "docx", "plain"}
  /\ Len(Table) = Len(Texte) + 1
  /\ \A p \in 1..Len(Texte) : Table[p] \in Nat /\ Table[p] <= Table[p + 1]
  /\ Table[Len(Table)] = Len(resultat.brut)

\* A position where a run or a cluster of the source begins.
Aligne(p) == p \in {0, Len(Texte)} \/ Table[p] < Table[p + 1]

\* An entity found in the working text, brought back by span_source, names exactly the
\* characters of the source that were normalised into it: normalising that slice gives
\* the entity's text again, whatever blanks, accents, ligatures or marks surround it.
EmpanFidele ==
  \A p, q \in 0..Len(Texte) :
    p < q /\ Aligne(p) /\ Aligne(q) =>
      LET src == span_source(resultat.texte, p, q)
      IN normaliser(Tranche(resultat.brut, src[1], src[2])).texte = Tranche(Texte, p, q)

\* page_de names the page whose characters hold the source of the position, for every
\* position: a run of blanks across a page break or an empty page does not shift it.
PageExacte ==
  resultat.pagesBrutes # <<>> =>
    \A p \in Positions :
      LET b == BornesSource(resultat.pagesBrutes)[page_de(resultat.pages, p)]
          offset == vers_source(resultat.texte, p)
      IN b.debut <= offset /\ offset < b.fin

\* The box of a word covers, in the normalised text, the characters of that word and no
\* other, on the page where the word was read; and every character that is not blank
\* of a text read by OCR lies in the box of a word: what has no box cannot be masked.
BoitesExactes ==
  resultat.methode = "ocr" =>
    /\ \A k \in DOMAIN resultat.boites :
         LET b == resultat.boites[k]
             src == span_source(resultat.texte, b.debut, b.fin)
         IN /\ Tranche(resultat.brut, src[1], src[2]) = document.scans[b.page][b.mot].texte
            /\ page_de(resultat.pages, b.debut) = b.page
    /\ \A p \in Positions : Texte[p + 1] \notin Blancs =>
         \E k \in DOMAIN resultat.boites :
           resultat.boites[k].debut <= p /\ p < resultat.boites[k].fin

\* The repaired text only drops spaces and turns spaces into points: each of its
\* characters is, at its offset, the one of the text read by OCR (or a point where that
\* text has a space), in order, and none of the others is lost.  What the rules find in
\* it can therefore be masked in the original.
ReparationFidele ==
  etape = "repare" =>
    /\ \A p \in DOMAIN repare.texte :
         LET origine == Texte[repare.table[p] + 1]
         IN /\ repare.texte[p] = origine \/ (repare.texte[p] = "." /\ origine = " ")
            /\ repare.table[p] < repare.table[p + 1]
    /\ \A q \in DOMAIN Texte : Texte[q] # " " =>
         \E p \in DOMAIN repare.texte : repare.table[p] = q - 1

\* vaut_la_peine is exactly "the repair changes the text": no repairable text is read
\* once only, and no second reading is made for nothing.
ReparationUtile ==
  etape = "extrait" => (vaut_la_peine(Texte) <=> reparer(Texte).texte # Texte)
=============================================================================
