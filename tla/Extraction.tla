------------------------------ MODULE Extraction ------------------------------
(***************************************************************************)
(* From the bytes of a document to the text the detectors read             *)
(* (ai-engine/app/extraction/: router, pdf, docx, plain, ocr, resultat).   *)
(*                                                                         *)
(* A document is what the extractors find in it:                           *)
(*   signature, annonce, nom   what deviner_type looks at                  *)
(*   vide        no byte at all                                            *)
(*   couches     the text layer of each page (one element for a text)      *)
(*   scans       the words OCR reads on each page: [texte, ligne, couche], *)
(*               couche being the positions of the text layer the word     *)
(*               displays, none when it belongs to the image               *)
(*   lecteurs    the PDF readers that open it ("pymupdf", "pdfplumber")    *)
(*   lisible     OCR, or python-docx, does not fail on it                  *)
(***************************************************************************)
EXTENDS Normalisation

CONSTANT ocr_seuil_caracteres_par_page     \* under which a PDF is a scan (100)

Familles == {"pdf", "docx", "image", "texte"}

\* deviner_type: the signature, then what is announced, then the name.
deviner_type(d) ==
  CASE d.signature = "zip" -> "docx"
    [] d.signature \in {"pdf", "image"} -> d.signature
    [] d.signature = "inconnue" /\ d.annonce \in Familles -> d.annonce
    [] d.signature = "inconnue" /\ d.annonce \notin Familles /\ d.nom \in Familles -> d.nom
    [] OTHER -> "texte"

\* What the extractors may find in a document.  A text layer is made of characters, and
\* so is each word; a text file has one layer, an image is one scan.  What ocr_image_array
\* keeps as a word (not mot.strip()) holds no blank, Tesseract cutting at them, and does
\* not begin with a byte order mark, which it never reads.
DocumentPossible(d) ==
  /\ d.couches \in Seq(Seq(STRING))
  /\ d.scans \in Seq(Seq([texte : Seq(STRING), ligne : Nat, couche : SUBSET Nat]))
  /\ deviner_type(d) = "texte" => d.couches # <<>>
  /\ deviner_type(d) = "image" => d.scans # <<>>
  /\ \A k \in DOMAIN d.scans : \A m \in DOMAIN d.scans[k] :
       LET t == d.scans[k][m].texte
       IN t # <<>> /\ t[1] # "bom" /\ \A i \in DOMAIN t : t[i] \notin Blancs

-----------------------------------------------------------------------------
(* The result of an extraction. *)

\* depuis_texte
Resultat(brut, methode, pagesBrutes) ==
  LET t == normaliser(brut)
  IN [texte |-> t, brut |-> brut, methode |-> methode, pagesBrutes |-> pagesBrutes,
      pages |-> BornesPages(t, pagesBrutes), boites |-> <<>>]

SansTexte(methode) == Resultat(<<>>, methode, <<>>)

Echec == [SansTexte("aucune") EXCEPT !.methode = "erreur"]

-----------------------------------------------------------------------------
(* PDF *)

Separateur == <<"lf", "lf">>

\* The text of the pages joined, page by page: each but the last carries the blank
\* lines that separate it from the next.
AvecSeparateurs(pages) ==
  [k \in DOMAIN pages |-> IF k < Len(pages) THEN pages[k] \o Separateur ELSE pages[k]]

\* len(p.strip())
CaracteresUtiles(s) ==
  LET pleins == {i \in DOMAIN s : s[i] \notin Blancs}
  IN IF pleins = {} THEN 0
     ELSE (CHOOSE i \in pleins : \A j \in pleins : i >= j)
            - (CHOOSE i \in pleins : \A j \in pleins : i <= j) + 1

Scanne(pages) ==
  /\ pages # <<>>
  /\ FoldLeft(LAMBDA n, p : n + CaracteresUtiles(p), 0, pages)
       < ocr_seuil_caracteres_par_page * Len(pages)

\* _ocr_pdf: each page is read, its boxes shifted by what the pages before it take.
BlocOcr(mots) == AssemblerMots(mots) \o Separateur

BoitesOcrPdf(scans) ==
  FlattenSeq([k \in DOMAIN scans |->
    LET decalage == LongueurDe([j \in 1..(k - 1) |-> BlocOcr(scans[j])])
        boites == BoitesBrutes(scans[k], k)
    IN [b \in DOMAIN boites |->
         [boites[b] EXCEPT !.debut = @ + decalage, !.fin = @ + decalage]]])

OcrPdf(d) ==
  LET blocs == [k \in DOMAIN d.scans |-> BlocOcr(d.scans[k])]
      r == Resultat(FlattenSeq(blocs), "ocr", blocs)
  IN IF ~d.lisible THEN SansTexte("ocr")
     ELSE [r EXCEPT !.boites = reprojeter_boites(r.texte, BoitesOcrPdf(d.scans))]

ExtrairePdf(d) ==
  LET separees == AvecSeparateurs(d.couches)
  IN IF d.lecteurs = {} \/ Scanne(d.couches) THEN OcrPdf(d)
     ELSE Resultat(FlattenSeq(separees), "pdf", separees)

-----------------------------------------------------------------------------
(* Image, DOCX, text *)

ExtraireImage(d) ==
  LET texte == AssemblerMots(d.scans[1])
      r == Resultat(texte, "ocr", <<texte>>)
  IN IF ~d.lisible THEN Echec
     ELSE [r EXCEPT !.boites = reprojeter_boites(r.texte, BoitesBrutes(d.scans[1], 1))]

\* The lines of headers, paragraphs and rows that are not blank, one per line.
ExtraireDocx(d) ==
  LET gardees == EnOrdre(Len(d.couches),
                         {k \in DOMAIN d.couches : CaracteresUtiles(d.couches[k]) > 0})
      lignes == [k \in DOMAIN gardees |-> d.couches[gardees[k]]]
      texte == FlattenSeq([k \in DOMAIN lignes |->
                 IF k < Len(lignes) THEN lignes[k] \o <<"lf">> ELSE lignes[k]])
  IN IF ~d.lisible THEN Echec ELSE Resultat(texte, "docx", <<texte>>)

\* plain.decoder: some encoding decodes any bytes.
ExtraireTexte(d) == Resultat(d.couches[1], "plain", <<d.couches[1]>>)

extraire(d) ==
  IF d.vide THEN SansTexte("aucune")
  ELSE CASE deviner_type(d) = "pdf" -> ExtrairePdf(d)
         [] deviner_type(d) = "docx" -> ExtraireDocx(d)
         [] deviner_type(d) = "image" -> ExtraireImage(d)
         [] deviner_type(d) = "texte" -> ExtraireTexte(d)
=============================================================================
