----------------------------- MODULE MCLecture -----------------------------
(* The documents extracted: short texts, PDFs of two pages, scanned pages. *)
EXTENDS Lecture

Lies(alphabet, n) == UNION {[1..k -> alphabet] : k \in 0..n}

Doc(signature, couches, scans) ==
  [signature |-> signature, annonce |-> "autre", nom |-> "autre", vide |-> FALSE,
   couches |-> couches, scans |-> scans, lecteurs |-> {"pymupdf"}, lisible |-> TRUE]

LesTextes ==
  {Doc("inconnue", <<t>>, <<>>) :
     t \in Lies({"a", "v", "^", "fi", "guil", "bom", " ", "lf", "cr", "@", "."}, 4)}

\* Native pages, and nearly empty ones that are read by OCR instead.
LesPdf ==
  {Doc("pdf", <<p, q>>, <<<<[texte |-> <<"a">>, ligne |-> 1, couche |-> {}]>>, <<>>>>) :
     p \in Lies({"a", "fi", " ", "lf", "cr"}, 3), q \in Lies({"a", " ", "lf"}, 2)}

Mots == {<<"a">>, <<"a", "^">>, <<"fi">>, <<"@">>, <<".">>, <<"@", "a", "v">>}

\* Lines are numbered in order.
Pages(n) ==
  {m \in Lies([texte : Mots, ligne : {1, 2}, couche : {{}}], n) :
     \A k \in 1..(Len(m) - 1) : m[k].ligne <= m[k + 1].ligne}

LesScans ==
  {Doc("pdf", <<<<>>, <<>>>>, <<p, q>>) : p \in Pages(3), q \in Pages(1)}
    \union {Doc("image", <<>>, <<p>>) : p \in Pages(4)}

\* What only the router and the failures see.
LesAutres ==
  {[Doc("pdf", <<<<"a">>>>, <<<<[texte |-> <<"a">>, ligne |-> 1, couche |-> {}]>>>>) EXCEPT
      !.signature = sg, !.annonce = an, !.nom = no, !.vide = v, !.lisible = li, !.lecteurs = le] :
     sg \in {"zip", "pdf", "image", "inconnue"}, an \in Familles \union {"autre"},
     no \in Familles \union {"autre"}, v \in BOOLEAN, li \in BOOLEAN,
     le \in {{}, {"pdfplumber"}}}

LesDocuments == LesTextes \union LesPdf \union LesScans \union LesAutres
=============================================================================
