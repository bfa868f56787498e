----------------------------- MODULE MCProtection -----------------------------
(* Small documents in every format, and texts whose values share tokens or types. *)
EXTENDS Protection

Lies(alphabet, n) == UNION {[1..k -> alphabet] : k \in 0..n}

Doc(signature, couches, scans) ==
  [signature |-> signature, annonce |-> "autre", nom |-> "autre", vide |-> FALSE,
   couches |-> couches, scans |-> scans, lecteurs |-> {"pymupdf"}, lisible |-> TRUE,
   liens |-> [k \in DOMAIN couches |-> 0], decodable |-> TRUE,
   angles |-> [k \in DOMAIN scans |-> <<>>]]

Image(texte) == [texte |-> texte, ligne |-> 1, couche |-> {}]

LesTextes == {Doc("inconnue", <<t>>, <<>>) : t \in Lies({"a", " ", "fi"}, 3)}

LesDocx ==
  {Doc("zip", <<p, q>>, <<>>) :
     p \in Lies({"a", "v"}, 3), q \in {<<>>, <<"v", "v">>}}
    \union {[Doc("zip", <<<<"a", "v">>>>, <<>>) EXCEPT !.liens = <<1>>],
            Doc("zip", <<<<"a", " ", " ", "v">>>>, <<>>),
            Doc("zip", <<<<"a", "^">>>>, <<>>),
            Doc("zip", <<<<"fi">>, <<"guil", "v">>>>, <<>>),
            Doc("zip", <<<<"a", ".", "a">>, <<"v", ".">>>>, <<>>),
            Doc("zip", <<<<"a", "*", "v", "*">>>>, <<>>)}

LesPdf ==
  {[Doc("pdf", <<p, q>>, <<>>) EXCEPT !.lecteurs = l] :
     p \in Lies({"a", "fi", "guil"}, 2) \union {<<"a", " ", "a">>, <<"a", " ", "lf", "a">>, <<"a", "^">>},
     q \in {<<>>, <<"a">>},
     l \in {{"pymupdf"}, {"pdfplumber"}}}

Lignes == {<<>>, <<Image(<<"a">>)>>, <<Image(<<"a">>), Image(<<"v", "v">>)>>,
           <<Image(<<"fi">>), Image(<<"a">>)>>}

\* No line, eight lines that agree on 3 degrees, eight that do not, eight level ones.
Angles == {<<>>, [i \in 1..8 |-> 298 + (i % 4)], [i \in 1..8 |-> 250 * (i % 4)], [i \in 1..8 |-> i]}

\* Scans: nothing in the text layer, or one letter that the page displays.
LesScans ==
  {[Doc("pdf", <<<<>>, <<>>>>, <<p, q>>) EXCEPT !.angles[1] = a] :
     p \in Lignes, q \in {<<>>, <<Image(<<"a">>)>>}, a \in Angles}
    \union {Doc("pdf", <<<<"a">>, <<>>>>, <<<<[Image(<<"a">>) EXCEPT !.couche = {1}]>> \o p, <<>>>>) :
              p \in Lignes}
    \union {[Doc("image", <<>>, <<p>>) EXCEPT !.decodable = dec, !.angles[1] = a] :
              p \in Lignes \ {<<>>}, dec \in BOOLEAN, a \in Angles}

Tous == LesTextes \union LesDocx \union LesPdf \union LesScans

\* Values that share a suffix ("a", "v"), and one ("f") that does not.
LesJetons == {[Doc("inconnue", <<t>>, <<>>) EXCEPT !.annonce = "valeurs"] :
                t \in {<<"a">>, <<"a^">>, <<"v">>, <<"a", " ", "v">>}}

\* One request for any document, or two requests at once for texts with these values.
LesDocuments(c, r) ==
  CASE c = "valeurs" -> LesJetons
    [] c = "images" -> {d \in LesScans : d.signature = "image"}
    [] c = "formats" /\ r = "r1" -> Tous
    [] OTHER -> {}

SuffixeDe(canonique) ==
  CASE canonique \in {<<"a">>, <<"v">>} -> "4F2A"
    [] canonique = <<"f", "i">> -> "0C31"
    [] canonique = <<"a", " ", "v">> -> "88B0"
    [] canonique = <<"a", " ", "a">> -> "19E7"
    [] OTHER -> "7D00"

\* One entity or two, in order, each between two characters; two that overlap have the
\* same length.  Both types for a text of values, one for each place in the others.
TypesPossibles(d, debut) ==
  IF d.annonce = "valeurs" THEN {"PLAQUE_IMMAT", "NOM_PERSONNE"}
  ELSE IF debut % 2 = 0 THEN {"IBAN"} ELSE {"NOM_PERSONNE"}

Empans(d, texte) ==
  {e \in [debut : 0..Len(texte), fin : 0..Len(texte),
          type : {"PLAQUE_IMMAT", "NOM_PERSONNE", "IBAN"}] :
     /\ e.debut < e.fin /\ e.type \in TypesPossibles(d, e.debut)
     /\ texte[e.debut + 1] \notin Blancs /\ texte[e.fin] \notin Blancs}

Trouvees(d, texte) ==
  LET empans == Empans(d, texte)
      couples == {<<e, f>> : e \in empans, f \in empans}
  IN {<<e>> : e \in empans} \union {<<>>} \union
     {c \in couples :
        /\ \/ c[1].debut < c[2].debut
           \/ c[1].debut = c[2].debut /\ c[1].fin <= c[2].fin /\ c[1] # c[2]
        /\ \/ c[1].fin <= c[2].debut
           \/ d.annonce # "valeurs" /\ c[1].fin - c[1].debut = c[2].fin - c[2].debut
           \/ d.annonce = "valeurs" /\ c[1].debut = c[2].debut /\ c[1].fin = c[2].fin}
=============================================================================
