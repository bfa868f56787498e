------------------------------ MODULE Reparation ------------------------------
(***************************************************************************)
(* Repair of OCR text (ai-engine/app/detection/reparation_ocr.py): blanks  *)
(* that break a token apart are removed, the point a domain has lost is    *)
(* put back, and the two tables of offsets are composed.                   *)
(***************************************************************************)
EXTENDS Normalisation

Lettres == {"a", "v", "a^", "f", "i"}
PONCTUATION_INTERNE == {"@", "."}

EstLettre(s, i) == i \in DOMAIN s /\ s[i] \in Lettres

\* The nearest position on each side that is not a space (0 or Len + 1: none).
Gauche(s, i) == CHOOSE g \in 0..(i - 1) :
  /\ g = 0 \/ s[g] # " "
  /\ \A k \in (g + 1)..(i - 1) : s[k] = " "

Droite(s, i) == CHOOSE d \in (i + 1)..(Len(s) + 1) :
  /\ d = Len(s) + 1 \/ s[d] # " "
  /\ \A k \in (i + 1)..(d - 1) : s[k] = " "

\* A mark between two letters, spaces apart.
Entoure(s, i) ==
  /\ i \in DOMAIN s /\ s[i] \in PONCTUATION_INTERNE
  /\ EstLettre(s, Gauche(s, i)) /\ EstLettre(s, Droite(s, i))

\* A space that breaks a token apart around a mark.
Parasite(s, k) ==
  s[k] = " " /\ (Entoure(s, Gauche(s, k)) \/ Entoure(s, Droite(s, k)))

\* The text reduced to some of its positions.
Garder(s, gardees) ==
  LET positions == EnOrdre(Len(s), gardees)
  IN TexteNormalise([p \in DOMAIN positions |-> s[positions[p]]],
                    [p \in DOMAIN positions |-> positions[p] - 1] \o <<Len(s)>>)

retirer_espaces_parasites(s) ==
  Garder(s, {i \in DOMAIN s : ~Parasite(s, i)})

-----------------------------------------------------------------------------

\* "@label   ext": the label has two characters at least and no point, the
\* extension one to four letters and no letter after them.
FinDeLabel(s, p) ==
  /\ s[p] = " "
  /\ \E i \in 1..(p - 3) : /\ s[i] = "@"
                          /\ \A m \in (i + 1)..(p - 1) : s[m] \notin Blancs \union {"@", "."}

EstAscii(s, i) == EstLettre(s, i) /\ s[i] # "a^"

Extension(s, k) ==
  \E l \in k..(k + 3) : (\A m \in k..l : EstAscii(s, m)) /\ ~EstAscii(s, l + 1)

\* The first space after the label becomes the point, the others go.
DevientPoint(s, p) == FinDeLabel(s, p) /\ Extension(s, Droite(s, p))

Supprime(s, q) ==
  s[q] = " " /\ \E p \in 1..(q - 1) : DevientPoint(s, p) /\ Droite(s, p) > q

restituer_point_de_domaine(s) ==
  LET gardes == Garder(s, {i \in DOMAIN s : ~Supprime(s, i)})
  IN [gardes EXCEPT !.texte =
        [p \in DOMAIN @ |-> IF DevientPoint(s, gardes.table[p] + 1) THEN "." ELSE @[p]]]

-----------------------------------------------------------------------------

\* Mutant: the offsets of the second pass are not brought back to the source.
ComposerSansTable(externe, interne) == interne

composer(externe, interne) ==
  TexteNormalise(interne.texte,
                 [p \in DOMAIN interne.table |-> externe.table[interne.table[p] + 1]])

reparer(s) ==
  LET espaces == retirer_espaces_parasites(s)
  IN composer(espaces, restituer_point_de_domaine(espaces.texte))

\* Mutant: a lost point is not looked for.
VautLaPeineEspaces(s) == \E k \in DOMAIN s : Parasite(s, k)

vaut_la_peine(s) ==
  \/ \E k \in DOMAIN s : Parasite(s, k)
  \/ \E p \in DOMAIN s : DevientPoint(s, p)
=============================================================================
