------------------------------ MODULE MCAnalyse ------------------------------
(***************************************************************************)
(* Texts of three characters with at most three findings in all, of which  *)
(* those of the rules may be lax (found by the OCR pattern only) or found  *)
(* on the repaired text only; and texts with one value of those the        *)
(* validators are asked about at their limits.  The labels of the model    *)
(* have the score of spaCy (850), a probability of CamemBERT above that of *)
(* the tolerance (950), or one below the threshold (450).                  *)
(***************************************************************************)
EXTENDS Analyse

\* The seventh of July 2026.
AujourdhuiMC == <<7, 7, 2026>>

\* The spans of a text; the first character is the first of them.
Empans == <<<<0, 1>>, <<0, 2>>, <<0, 3>>, <<1, 2>>, <<1, 3>>, <<2, 3>>>>

\* A value the validator of the rule accepts, and one it does not.
Bonne ==
  [IBAN |-> <<11, 14, 6, 8, 5, 3, 9, 0, 0, 7, 5, 4, 7, 0, 3, 4>>,
   TELEPHONE |-> <<PLUS, 2, 2, 8, 9, 0, 1, 2, 3, 4, 5, 6>>,
   DATE_NAISSANCE |-> <<29, 2, 2000>>,
   PIECE |-> <<1, 9, 9, 0, 0, 1, 0, 1, 1, 2, 3, 4, 5>>]

Mauvaise ==
  [IBAN |-> <<11, 14, 6, 8, 5, 3, 9, 0, 0, 7, 5, 4, 7, 0, 3, 5>>,
   TELEPHONE |-> <<PLUS, 2, 2, 8, 9, 0, 1, 2, 3, 4, 5>>,
   DATE_NAISSANCE |-> <<29, 2, 1900>>,
   PIECE |-> <<1, 9, 9, 0, 0, 1, 0, 1>>]

Correspondance(r, e, s, v, i) ==
  [regle |-> r, debut |-> e[1], fin |-> e[2], strict |-> s, valeur |-> v, indice |-> i]

\* A finding: a match of the rules in the text or in the repaired one, or what the
\* model returns.
Native(r, e, s, v, i) == [par |-> "natives", val |-> Correspondance(r, e, s, v, i)]
Reparee(r, e, v) == [par |-> "reparees", val |-> Correspondance(r, e, FALSE, v, FALSE)]
Ner(t, e, score) ==
  [par |-> "ner", val |-> Detection(t, [debut |-> e[1], fin |-> e[2]], score, "ner", FALSE)]

\* The same match on every span.
Partout(r, s, v, i) == [k \in DOMAIN Empans |-> Native(r, Empans[k], s, v, i)]

Trouvailles ==
  Partout("IBAN", TRUE, Bonne.IBAN, FALSE) \o Partout("IBAN", TRUE, Mauvaise.IBAN, FALSE)
    \o [k \in DOMAIN Empans |-> Reparee("IBAN", Empans[k], Bonne.IBAN)]
    \o Partout("TELEPHONE", TRUE, Mauvaise.TELEPHONE, FALSE)
    \o Partout("PIECE", TRUE, Bonne.PIECE, TRUE) \o Partout("PIECE", TRUE, Mauvaise.PIECE, TRUE)
    \o [k \in DOMAIN Empans |-> Ner("NOM_PERSONNE", Empans[k], 850)]
    \o [k \in DOMAIN Empans |-> Ner("ORGANISATION", Empans[k], 950)]
    \o <<Native("TELEPHONE", Empans[1], TRUE, Bonne.TELEPHONE, FALSE),
         Native("TELEPHONE", Empans[5], TRUE, Bonne.TELEPHONE, FALSE),
         Native("DATE_NAISSANCE", Empans[2], TRUE, Bonne.DATE_NAISSANCE, FALSE),
         Native("DATE_NAISSANCE", Empans[6], TRUE, Bonne.DATE_NAISSANCE, FALSE),
         Native("IBAN", Empans[1], FALSE, Mauvaise.IBAN, FALSE),
         Native("PLAQUE_IMMAT", Empans[4], TRUE, <<>>, FALSE),
         Native("NUM_CLIENT", Empans[3], TRUE, <<>>, FALSE),
         Native("PIECE", Empans[1], TRUE, Bonne.PIECE, FALSE),
         Native("DATE_NAISSANCE", Empans[1], TRUE, Mauvaise.DATE_NAISSANCE, FALSE),
         Native("PIECE", Empans[1], TRUE, Mauvaise.PIECE, FALSE),
         Ner("NOM_PERSONNE", Empans[1], 450)>>

Texte(trouvailles, o) ==
  LET Par(qui) == {t.val : t \in {u \in trouvailles : u.par = qui}}
  IN [natives |-> Par("natives"), reparees |-> Par("reparees"), ner |-> Par("ner"), ocr |-> o]

\* Values at the limits of the validators: numbers of three countries and of one
\* without a known length, cards of 13 and 16 digits, lengths of telephone, days.
Limites ==
  {<<"IBAN", v>> : v \in
     {<<28, 23, 9, 8, 0, 1, 0, 0, 1, 5, 2, 0, 0, 0, 0, 4, 8, 5, 0, 0, 0, 0, 3, 0, 3, 5, 10, 11>>,
      <<15, 27, 1, 4, 2, 0, 0, 4, 1, 0, 1, 0, 0, 5, 0, 5, 0, 0, 0, 1, 3, 22, 0, 2, 6, 0, 6>>,
      <<35, 35, 6, 6, 0, 0, 0, 0, 0, 0, 0, 0, 0, 0, 0>>}}
  \union {<<"CARTE_BANCAIRE", v>> : v \in
     {<<4, 0, 0, 0, 0, 0, 0, 0, 0, 0, 0, 0, 0, 0, 0, 2>>,
      <<4, 5, 3, 9, 5, 7, 8, 7, 6, 3, 6, 2, 1, 4, 8, 6>>,
      <<1, 9, 9, 0, 0, 1, 0, 1, 1, 2, 3, 4, 1>>,
      <<0, 0, 0, 0, 0, 0, 0, 0, 0, 0, 0, 0, 0>>}}
  \union {<<"TELEPHONE", v>> : v \in
     {<<0, 0, 2, 2, 9, 0, 1, 9, 7, 0, 0, 0, 0, 0, 1>>, <<9, 0, 1, 2, 3, 4, 5, 6>>,
      <<PLUS, 1, 2, 1, 2, 5, 5, 5, 0, 1, 0, 0>>, <<9, 0, 1, 2, 3, 4, 5>>}}
  \union {<<"DATE_NAISSANCE", v>> : v \in
     {<<7, 7, 2026>>, <<8, 7, 2026>>, <<1, 1, 28>>, <<1, 1, 31>>, <<31, 4, 1990>>, <<1, 13, 1990>>}}
  \union {<<"PIECE", v>> : v \in
     {<<12, 0, 0, 1, 2, 3, 4, 5, 6, 7, 8>>, <<1, 0, 0, 1, 2, 3, 4, 5, 6, 7>>}}

\* One to three findings, each set of them once; or one value.
TextesMC ==
  LET t == Trouvailles
      choix == {c \in [1..3 -> DOMAIN t] : c[1] <= c[2] /\ c[2] <= c[3]}
  IN {Texte({t[c[1]], t[c[2]], t[c[3]]}, o) : c \in choix, o \in BOOLEAN}
     \union
     {Texte({Native(l[1], Empans[1], TRUE, l[2], FALSE)}, o) : l \in Limites, o \in BOOLEAN}
=============================================================================
