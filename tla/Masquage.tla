------------------------------- MODULE Masquage -------------------------------
(***************************************************************************)
(* Protection of a document, format by format                              *)
(* (ai-engine/app/protection/mask.py).  The document is the one of         *)
(* Extraction, with three fields more:                                     *)
(*   liens       length, at the end of each DOCX paragraph, of what is in  *)
(*               a hyperlink (paragraph.text has it, paragraph.runs not)   *)
(*   decodable   OpenCV decodes the image and encodes it again             *)
(*   angles      the angles of the lines of each scanned page: when OCR    *)
(*               straightens it, its boxes are those of the result         *)
(*                                                                         *)
(* An entity is [debut, fin, valeur, type]; the entities come in a         *)
(* sequence.  What a protection returns is what can still be read:         *)
(*   texte        positions of the source, or -i where entity i was        *)
(*   pages        the positions of each page still in its text layer       *)
(*   mots         the words of each scanned page still visible             *)
(*   paragraphes  the text of each paragraph                               *)
(*   nombre       the count returned                                       *)
(*   remplaces    the entities remplacer was called for                    *)
(***************************************************************************)
EXTENDS Extraction, Redressement

CONSTANT
  Decomposees        \* the ligatures search_for decomposes: the flags of PyMuPDF

PUCE == "*"
Alphanumeriques == {"a", "v", "a^", "f", "i"}

\* masquer_valeur: of each word its first letter, of a word of one letter nothing; of an
\* address what says that it is one.
masquer_valeur(v, type) ==
  LET mot(i) == v[i] \in Alphanumeriques
      premiere(i) == (i > 1 => ~mot(i - 1)) /\ i < Len(v) /\ mot(i + 1)
      arobases == {i \in DOMAIN v : v[i] = "@"}
      premier == IF v[1] = "@" THEN <<>> ELSE <<v[1]>>
  IN IF v = <<>> THEN v
     ELSE IF type = "EMAIL" /\ arobases # {}
     THEN premier \o <<PUCE, PUCE, PUCE, PUCE, PUCE, PUCE>>
            \o (IF \E i \in arobases : i < Len(v) /\ \A j \in arobases : i <= j
                THEN <<"@", PUCE, PUCE, PUCE, PUCE>> ELSE <<>>)
     ELSE [i \in DOMAIN v |-> IF mot(i) /\ ~premiere(i) THEN PUCE ELSE v[i]]

\* v.strip()
Depouille(v) ==
  LET pleins == {i \in DOMAIN v : v[i] \notin Blancs}
  IN IF pleins = {} THEN <<>>
     ELSE SubSeq(v, CHOOSE i \in pleins : \A j \in pleins : i <= j,
                    CHOOSE i \in pleins : \A j \in pleins : i >= j)

Rendu(d) ==
  [texte |-> <<>>, pages |-> [k \in DOMAIN d.couches |-> DOMAIN d.couches[k]],
   mots |-> [k \in DOMAIN d.scans |-> DOMAIN d.scans[k]],
   paragraphes |-> d.couches, nombre |-> 0, remplaces |-> <<>>]

-----------------------------------------------------------------------------
(* Text: substitution by offsets, from the end. *)

SpanDe(x, e) == span_source(x.texte, e.debut, e.fin)

\* Mutant: from the beginning.
AvantDebut(es, i, j) ==
  es[i].debut < es[j].debut \/ (es[i].debut = es[j].debut /\ i < j)

\* sorted(entites, key=debut, reverse=True), which is stable: i comes before j.
Avant(es, i, j) ==
  es[i].debut > es[j].debut \/ (es[i].debut = es[j].debut /\ i < j)

\* The entity of turn n: n - 1 come before it.
Remontee(es, n) ==
  CHOOSE i \in DOMAIN es : Cardinality({j \in DOMAIN es : Avant(es, j, i)}) = n - 1

\* One turn of the loop: an entity without a source, or that overlaps the one replaced
\* just after it, is skipped.
Substituer(x, es, acc, i) ==
  LET src == SpanDe(x, es[i])
  IN IF src[1] >= src[2] \/ src[2] > Len(acc.texte) \/ src[2] > acc.fin THEN acc
     ELSE [acc EXCEPT !.texte = SubSeq(@, 1, src[1]) \o <<-i>> \o SubSeq(@, src[2] + 1, Len(@)),
                      !.fin = src[1], !.nombre = @ + 1, !.remplaces = Append(@, i)]

AppliquerTexte(d, x, es) ==
  LET apres[n \in 0..Len(es)] ==
        IF n = 0 THEN [texte |-> [p \in DOMAIN x.brut |-> p - 1], fin |-> Len(x.brut) + 1,
                       nombre |-> 0, remplaces |-> <<>>]
        ELSE Substituer(x, es, apres[n - 1], Remontee(es, n))
      acc == apres[Len(es)]
  IN [Rendu(d) EXCEPT !.texte = acc.texte, !.nombre = acc.nombre, !.remplaces = acc.remplaces]

-----------------------------------------------------------------------------
(* Boxes *)

\* The words an entity covers: the boxes whose interval meets its own.
BoitesDe(x, e) ==
  {k \in DOMAIN x.boites : x.boites[k].debut < e.fin /\ e.debut < x.boites[k].fin}

\* Mutant: only the boxes inside the entity.
BoitesDans(x, e) ==
  {k \in DOMAIN x.boites : e.debut <= x.boites[k].debut /\ x.boites[k].fin < e.fin}

Touchees(x, e) == BoitesDe(x, e)

\* The words still visible once the boxes of these entities are filled.  The boxes of a
\* straightened page fall beside its words: none is hidden, at worst.
Recouvrir(d, x, es, cibles) ==
  LET boites == UNION {Touchees(x, es[i]) : i \in cibles}
  IN [k \in DOMAIN d.scans |->
       DOMAIN d.scans[k] \ (IF redressee(d.angles[k]) THEN {}
                            ELSE {x.boites[b].mot : b \in {c \in boites : x.boites[c].page = k}})]

Localisees(x, es, cibles) == {i \in cibles : Touchees(x, es[i]) # {}}

-----------------------------------------------------------------------------
(* PDF *)

\* What search_for compares: a run of blanks is one blank, a ligature may be its letters;
\* an accent, a quote, a dash or a mark stays what it is in the layer.
Replier(s) ==
  FlattenSeq([k \in DOMAIN s |->
    IF s[k] \in Blancs THEN IF k > 1 /\ s[k - 1] \in Blancs THEN <<>> ELSE <<" ">>
    ELSE IF s[k] \in Decomposees THEN Ligature(s[k]) ELSE <<s[k]>>])

\* The positions of page s that search_for covers.
Occurrences(valeur, s) ==
  {p \in DOMAIN s : \E i \in 1..p, j \in p..Len(s) :
     /\ s[i] \notin Blancs /\ s[j] \notin Blancs
     /\ Replier(SubSeq(s, i, j)) = Replier(valeur)}

\* The probable page, or every page.
PagesCandidates(d, x, e) ==
  LET page == page_de(x.pages, e.debut)
  IN IF page \in DOMAIN d.couches THEN {page} ELSE DOMAIN d.couches

AppliquerPdf(d, x, es) ==
  LET utiles == {i \in DOMAIN es : Depouille(es[i].valeur) # <<>>}
      couvert(i, k) == IF k \in PagesCandidates(d, x, es[i])
                       THEN Occurrences(Depouille(es[i].valeur), d.couches[k]) ELSE {}
      trouvees == {i \in utiles : \E k \in DOMAIN d.couches : couvert(i, k) # {}}
      absentes == utiles \ trouvees
  IN [Rendu(d) EXCEPT
       !.pages = [k \in DOMAIN d.couches |->
                   DOMAIN d.couches[k] \ UNION {couvert(i, k) : i \in trouvees}],
       !.mots = Recouvrir(d, x, es, absentes),
       !.nombre = Cardinality(trouvees) + Cardinality(Localisees(x, es, absentes)),
       !.remplaces = EnOrdre(Len(es), utiles)]

-----------------------------------------------------------------------------
(* DOCX *)

\* s.replace(v, r)
Remplacer(s, v, r) ==
  LET depuis[i \in 1..(Len(s) + 1)] ==
        IF i > Len(s) THEN <<>>
        ELSE IF i + Len(v) - 1 <= Len(s) /\ SubSeq(s, i, i + Len(v) - 1) = v
             THEN r \o (IF i + Len(v) > Len(s) THEN <<>> ELSE depuis[i + Len(v)])
             ELSE <<s[i]>> \o depuis[i + 1]
  IN depuis[1]

Contient(s, v) ==
  \E i \in 1..(Len(s) - Len(v) + 1) : SubSeq(s, i, i + Len(v) - 1) = v

\* The dictionary of the substitutions, remplacements[i] being the one of entity i: a
\* value keeps the place of its first entity and takes the replacement of its last one.
Substitutions(es, remplacements) ==
  LET valeur(i) == Depouille(es[i].valeur)
      premieres == EnOrdre(Len(es), {i \in DOMAIN es :
                     valeur(i) # <<>> /\ \A j \in 1..(i - 1) : valeur(j) # valeur(i)})
      derniere(i) == CHOOSE j \in DOMAIN es :
                       valeur(j) = valeur(i) /\ \A k \in DOMAIN es : valeur(k) = valeur(i) => k <= j
  IN [k \in DOMAIN premieres |-> [valeur |-> valeur(premieres[k]),
                                 par |-> remplacements[derniere(premieres[k])]]]

\* One value, when the paragraph still has it.
Echanger(acc, sub) ==
  IF Contient(acc.texte, sub.valeur)
  THEN [texte |-> Remplacer(acc.texte, sub.valeur, sub.par), n |-> acc.n + 1]
  ELSE acc

\* The values are replaced one after the other, in what the ones before have left.
TraiterParagraphe(s, substitutions) ==
  LET apres[k \in 0..Len(substitutions)] ==
        IF k = 0 THEN [texte |-> s, n |-> 0] ELSE Echanger(apres[k - 1], substitutions[k])
  IN apres[Len(substitutions)]

\* The new text goes to the runs; what is in a hyperlink stays after it.
Reecrit(s, lien, traite) ==
  IF traite.n = 0 \/ lien = Len(s) THEN s
  ELSE traite.texte \o SubSeq(s, Len(s) - lien + 1, Len(s))

AppliquerDocx(d, es, remplacements) ==
  LET subs == Substitutions(es, remplacements)
      traites == [k \in DOMAIN d.couches |-> TraiterParagraphe(d.couches[k], subs)]
  IN [Rendu(d) EXCEPT
       !.paragraphes = [k \in DOMAIN d.couches |-> Reecrit(d.couches[k], d.liens[k], traites[k])],
       !.nombre = FoldLeft(LAMBDA n, t : n + t.n, 0, traites),
       !.remplaces = EnOrdre(Len(es), {i \in DOMAIN es : Depouille(es[i].valeur) # <<>>})]

-----------------------------------------------------------------------------

\* An image OpenCV cannot decode or encode is returned as it is.
AppliquerImage(d, x, es) ==
  IF ~d.decodable THEN Rendu(d)
  ELSE [Rendu(d) EXCEPT !.mots = Recouvrir(d, x, es, DOMAIN es),
                        !.nombre = Cardinality(Localisees(x, es, DOMAIN es))]

Intact(d, x) == [Rendu(d) EXCEPT !.texte = [p \in DOMAIN x.brut |-> p - 1]]

appliquer(d, x, es, remplacements) ==
  IF es = <<>> THEN Intact(d, x)
  ELSE CASE deviner_type(d) = "pdf" -> AppliquerPdf(d, x, es)
         [] deviner_type(d) = "docx" -> AppliquerDocx(d, es, remplacements)
         [] deviner_type(d) = "image" -> AppliquerImage(d, x, es)
         [] deviner_type(d) = "texte" -> AppliquerTexte(d, x, es)
=============================================================================
