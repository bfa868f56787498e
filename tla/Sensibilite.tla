----------------------------- MODULE Sensibilite -----------------------------
(***************************************************************************)
(* Levels of sensitivity (ai-engine/app/models.py) and their attribution   *)
(* (ai-engine/app/classification/sensitivity.py).                          *)
(*                                                                         *)
(* An entity is a record with at least its type and its span [debut, fin)  *)
(* in the text.  The level is a field the code writes; here it is a        *)
(* function of the entity and of the entities around it.                   *)
(***************************************************************************)
EXTENDS Integers, FiniteSets

CONSTANT FenetreContexte   \* how far a neighbour is looked for (200)

ASSUME FenetreEntiere == FenetreContexte \in Nat

NiveauSens == {"faible", "moyen", "eleve", "critique"}

ORDRE_NIVEAU == [n \in NiveauSens |->
  CASE n = "faible" -> 0 [] n = "moyen" -> 1 [] n = "eleve" -> 2 [] n = "critique" -> 3]

\* The level of a document without any entity.
SansNiveau == "aucun"

-----------------------------------------------------------------------------
(* The grid, by level; a type it does not name is 'moyen'. *)

TypesFaibles == {"LOCALITE", "ORGANISATION", "PRENOM"}
TypesMoyens == {"NOM_PERSONNE", "ADRESSE_POSTALE", "EMAIL"}
TypesEleves == {"TELEPHONE", "DATE_NAISSANCE", "NUM_CLIENT", "PLAQUE_IMMAT", "ADRESSE_IP"}
TypesCritiques == {"NUM_PIECE_IDENTITE", "IBAN", "CARTE_BANCAIRE", "DONNEE_SANTE"}

GRILLE == TypesFaibles \union TypesMoyens \union TypesEleves \union TypesCritiques

\* Mutant: a checksummed type left out of the critical ones.
NiveauIbanEleve(type) ==
  CASE type \in TypesFaibles -> "faible"
    [] type \in TypesEleves \union {"IBAN"} -> "eleve"
    [] type \in TypesCritiques \ {"IBAN"} -> "critique"
    [] OTHER -> "moyen"

niveau_de(type) ==
  CASE type \in TypesFaibles -> "faible"
    [] type \in TypesEleves -> "eleve"
    [] type \in TypesCritiques -> "critique"
    [] OTHER -> "moyen"

-----------------------------------------------------------------------------
(* The adjustment: a name close to two kinds of identifiers is an identity. *)

TYPES_IDENTIFIANTS == {"DATE_NAISSANCE", "NUM_PIECE_IDENTITE", "IBAN", "CARTE_BANCAIRE"}
MINIMUM_CO_OCCURRENCES == 2

distance(a, b) ==
  CASE a.fin <= b.debut -> b.debut - a.fin
    [] b.fin <= a.debut /\ a.fin > b.debut -> a.debut - b.fin
    [] OTHER -> 0

Voisins(e, entites) ==
  {autre.type : autre \in {a \in entites : /\ a.type \in TYPES_IDENTIFIANTS
                                           /\ distance(e, a) <= FenetreContexte}}

Niveau(e, entites) ==
  IF /\ e.type = "NOM_PERSONNE"
     /\ Cardinality(Voisins(e, entites)) >= MINIMUM_CO_OCCURRENCES
  THEN "eleve"
  ELSE niveau_de(e.type)

-----------------------------------------------------------------------------
(* The level of a document, and the filter of what is protected. *)

niveau_maximum(entites) ==
  LET niveaux == {Niveau(e, entites) : e \in entites}
  IN IF entites = {} THEN SansNiveau
     ELSE CHOOSE n \in niveaux : \A m \in niveaux : ORDRE_NIVEAU[m] <= ORDRE_NIVEAU[n]

\* Mutant: strictly above the threshold.
AuDessus(niveau, seuil) ==
  (IF niveau \in NiveauSens THEN ORDRE_NIVEAU[niveau] ELSE -1)
    > (IF seuil \in NiveauSens THEN ORDRE_NIVEAU[seuil] ELSE 99)

\* An unknown level is below every threshold, an unknown threshold above every level.
au_moins(niveau, seuil) ==
  (IF niveau \in NiveauSens THEN ORDRE_NIVEAU[niveau] ELSE -1)
    >= (IF seuil \in NiveauSens THEN ORDRE_NIVEAU[seuil] ELSE 99)

filtrer_par_seuil(entites, seuil) ==
  {e \in entites : au_moins(Niveau(e, entites), seuil)}
=============================================================================
