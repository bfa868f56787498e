------------------------------ MODULE MCMoteurNER ------------------------------
(* One thread reads a text of nine characters, two blanks and a name, the others a text *)
(* with an address, so that all of them want the engine.                                *)
EXTENDS MoteurNER

Longueur == 9

Texte(n, espaces, entite) ==
  [longueur |-> n, espaces |-> espaces, entite |-> entite, adresses |-> {}]

Longs ==
  {Texte(Longueur, espaces, <<d, d + n>>) :
     espaces \in {{}} \union {{p, q} : p, q \in 0..(Longueur - 1)}, d \in 0..(Longueur - 2), n \in {1, 2}}

\* The name begins and ends with a character.
Nommes == {t \in Longs : t.entite[1] \notin t.espaces /\ t.entite[2] - 1 \notin t.espaces}

Court == [Texte(Longueur, {}, <<0, 1>>) EXCEPT
            !.adresses = {[debut |-> 0, fin |-> 8, score |-> 650],
                          [debut |-> 0, fin |-> 8, score |-> 600]}]

LesDemandes ==
  [f \in Fils |-> IF f = "lecteur" THEN Nommes ELSE {Court}]

LesBackends == {"spacy", "presidio", "aucun", "inconnu"}
=============================================================================
