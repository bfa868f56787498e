---------------------------- MODULE Normalisation ----------------------------
(***************************************************************************)
(* The working text and its table of offsets                               *)
(* (ai-engine/app/extraction/normalize.py), the bounds of the pages and    *)
(* the boxes of the words in it (extraction/resultat.py, ocr.py).          *)
(*                                                                         *)
(* A text is a sequence of characters, of the kinds the code tells apart:  *)
(*   "a" a letter      "v" a letter no accent composes with   "^" an accent *)
(*   "fi" a ligature   "guil" a typographic quote or dash, which becomes   *)
(*   the plain "'"     "bom" a mark that disappears                        *)
(*   " " "lf" "cr" blanks     "@" "." punctuation                          *)
(* Offsets are those of Python: they start at 0.                           *)
(***************************************************************************)
EXTENDS Suites, SequencesExt, FiniteSets

Blancs == {" ", "lf", "cr"}
Accents == {"^"}

\* [texte, table]: character p of texte comes from offset table[p + 1] of the source;
\* the table ends with the length of the source.
TexteNormalise(texte, table) == [texte |-> texte, table |-> table]

-----------------------------------------------------------------------------
(* normaliser: the source is cut in runs of blanks and in clusters (a      *)
(* character and the accents after it); each yields some characters, all   *)
(* at the offset of its first one.                                         *)

EstBlanc(s, i) == s[i] \in Blancs

\* Position i (from 1) begins a run or a cluster.
Commence(s, i) ==
  \/ i = 1
  \/ EstBlanc(s, i) /\ ~EstBlanc(s, i - 1)
  \/ ~EstBlanc(s, i) /\ (s[i] \notin Accents \/ EstBlanc(s, i - 1))

Suivant(s, i) ==
  CHOOSE j \in (i + 1)..(Len(s) + 1) :
    /\ j = Len(s) + 1 \/ Commence(s, j)
    /\ \A k \in (i + 1)..(j - 1) : ~Commence(s, k)

\* "\r\n" is one break.
Sauts(s, i, j) ==
  Cardinality({k \in i..(j - 1) :
    \/ s[k] = "cr"
    \/ s[k] = "lf" /\ ~(k > i /\ s[k - 1] = "cr")})

ReduireBlancs(nbSauts) ==
  CASE nbSauts = 0 -> <<" ">> [] nbSauts = 1 -> <<"lf">> [] OTHER -> <<"lf", "lf">>

\* NFC of one cluster: only the first accent composes, and only with some letters.
ComposerGrappe(grappe) ==
  IF Len(grappe) >= 2 /\ grappe[1] = "a"
  THEN <<"a^">> \o SubSeq(grappe, 3, Len(grappe))
  ELSE grappe

\* LIGATURES: several characters for one, one for another, or none.
Ligature(c) ==
  CASE c = "fi" -> <<"f", "i">>
    [] c = "guil" -> <<"'">>
    [] c = "bom" -> <<>>
    [] OTHER -> <<c>>

Bloc(s, i) ==
  LET j == Suivant(s, i)
  IN IF EstBlanc(s, i)
     THEN ReduireBlancs(Sauts(s, i, j))
     ELSE LET grappe == ComposerGrappe(SubSeq(s, i, j - 1))
          IN FlattenSeq([k \in DOMAIN grappe |-> Ligature(grappe[k])])

\* The positions that begin a run or a cluster, in order.
Debuts(s) == EnOrdre(Len(s), {i \in 1..Len(s) : Commence(s, i)})

\* Mutant: each character of a run or of an expansion has an offset of its own.
NormaliserDecale(s) ==
  LET texte == FlattenSeq([k \in DOMAIN Debuts(s) |-> Bloc(s, Debuts(s)[k])])
  IN TexteNormalise(texte,
       [p \in 1..(Len(texte) + 1) |-> IF p > Len(texte) \/ p > Len(s) THEN Len(s) ELSE p - 1])

\* Mutant: the table ends with the length of the normalised text.
NormaliserSentinelle(s) ==
  LET debuts == Debuts(s)
      texte == FlattenSeq([k \in DOMAIN debuts |-> Bloc(s, debuts[k])])
  IN TexteNormalise(texte,
       FlattenSeq([k \in DOMAIN debuts |->
                     [p \in DOMAIN Bloc(s, debuts[k]) |-> debuts[k] - 1]])
         \o <<Len(texte)>>)

normaliser(s) ==
  LET debuts == Debuts(s)
      blocs == [k \in DOMAIN debuts |-> Bloc(s, debuts[k])]
  IN TexteNormalise(
       FlattenSeq(blocs),
       FlattenSeq([k \in DOMAIN debuts |-> [p \in DOMAIN blocs[k] |-> debuts[k] - 1]])
         \o <<Len(s)>>)

-----------------------------------------------------------------------------
(* Back to the source. *)

vers_source(t, position) ==
  CASE position < 0 -> t.table[1]
    [] position >= Len(t.table) -> t.table[Len(t.table)]
    [] OTHER -> t.table[position + 1]

span_source(t, debut, fin) == <<vers_source(t, debut), vers_source(t, fin)>>

\* text[debut:fin]
Tranche(s, debut, fin) == SubSeq(s, debut + 1, fin)

-----------------------------------------------------------------------------
(* depuis_texte: the bounds of the pages, by a binary search of the table. *)

\* Mutant: the search stops one position short.
PremierePositionCourte(t, offset) ==
  LET chercher[b \in (0..Len(t.table)) \X (0..Len(t.table))] ==
        LET lo == b[1]  hi == b[2]  milieu == (lo + hi) \div 2
        IN IF lo + 1 >= hi THEN lo
           ELSE IF t.table[milieu + 1] < offset THEN chercher[<<milieu + 1, hi>>]
           ELSE chercher[<<lo, milieu>>]
  IN chercher[<<0, Len(t.table) - 1>>]

premiere_position(t, offset) ==
  LET chercher[b \in (0..Len(t.table)) \X (0..Len(t.table))] ==
        LET lo == b[1]  hi == b[2]  milieu == (lo + hi) \div 2
        IN IF lo >= hi THEN lo
           ELSE IF t.table[milieu + 1] < offset THEN chercher[<<milieu + 1, hi>>]
           ELSE chercher[<<lo, milieu>>]
  IN chercher[<<0, Len(t.table) - 1>>]

LongueurDe(blocs) == Len(FlattenSeq(blocs))

\* The interval of each page in the source, then in the normalised text.
BornesSource(pages) ==
  [k \in DOMAIN pages |->
    [debut |-> LongueurDe(SubSeq(pages, 1, k - 1)), fin |-> LongueurDe(SubSeq(pages, 1, k))]]

BornesPages(t, pages) ==
  [k \in DOMAIN pages |->
    LET b == BornesSource(pages)[k]
        debut == premiere_position(t, b.debut)
        fin == premiere_position(t, b.fin)
    IN [debut |-> debut, fin |-> IF fin < debut THEN debut ELSE fin]]

SansPage == 0

\* The first page whose interval holds the position; page 1 when none does.
page_de(bornes, position) ==
  LET pages == {k \in DOMAIN bornes : bornes[k].debut <= position /\ position < bornes[k].fin}
  IN IF bornes = <<>> THEN SansPage
     ELSE IF pages = {} THEN 1
     ELSE CHOOSE k \in pages : \A l \in pages : k <= l

-----------------------------------------------------------------------------
(* Boxes of words: written with offsets of the raw text by                 *)
(* ocr_image_array, brought to the normalised text by reprojeter_boites.   *)

\* ocr_image_array: the words are joined by one blank, a break between two lines,
\* and each has its box.  A word is [texte, ligne].
AssemblerMots(mots) ==
  FlattenSeq([k \in DOMAIN mots |->
    (IF k = 1 THEN <<>> ELSE <<IF mots[k].ligne = mots[k - 1].ligne THEN " " ELSE "lf">>)
      \o mots[k].texte])

BoitesBrutes(mots, page) ==
  [k \in DOMAIN mots |->
    LET fin == Len(AssemblerMots(SubSeq(mots, 1, k)))
    IN [debut |-> fin - Len(mots[k].texte), fin |-> fin, page |-> page, mot |-> k]]

\* traduire: the first position at that offset, or at the next offset that has one.
Traduire(t, offset) ==
  LET atteints == {p \in 1..Len(t.table) : t.table[p] >= offset}
  IN IF atteints = {} THEN Len(t.texte)
     ELSE (CHOOSE p \in atteints : \A q \in atteints : p <= q) - 1

\* Mutant: the offsets of the raw text are used as they are.
BoitesNonTraduites(t, boites) == boites

reprojeter_boites(t, boites) ==
  [k \in DOMAIN boites |->
    [boites[k] EXCEPT !.debut = Traduire(t, @), !.fin = Traduire(t, @)]]
=============================================================================
